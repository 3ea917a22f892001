---------------------------- MODULE MCRemoteRead ----------------------------
(***************************************************************************)
(* Small instances of RemoteRead.                                          *)
(***************************************************************************)
EXTENDS RemoteRead, TLC

CONSTANTS R1, R2, R3

MCReads == {R1, R2}
MCThree == {R1, R2, R3}
MCLimits == {1, 2}

Symmetry == Permutations(MCThree)
=============================================================================
