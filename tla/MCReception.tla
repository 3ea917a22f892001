----------------------------- MODULE MCReception -----------------------------
(* A device that receives a replaced generation: small instances for TLC.  *)
EXTENDS Reception, TLC

CONSTANTS a, b

Symmetric == Permutations(Files)
=============================================================================
