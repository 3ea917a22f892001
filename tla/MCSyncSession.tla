--------------------------- MODULE MCSyncSession ---------------------------
(***************************************************************************)
(* Small instances of SyncSession.                                         *)
(***************************************************************************)
EXTENDS SyncSession, TLC

Symmetry == Permutations(Session)
============================================================================
