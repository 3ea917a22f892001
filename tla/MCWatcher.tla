------------------------------ MODULE MCWatcher ------------------------------
(* The watcher of one device, for TLC.                                     *)
EXTENDS Watcher, TLC

CONSTANTS a, b
=============================================================================
