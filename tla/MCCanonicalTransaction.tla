----------------------- MODULE MCCanonicalTransaction -----------------------
(* Instances of CanonicalTransaction for TLC. *)
EXTENDS CanonicalTransaction, TLC

\* Devices, mutations and lock names are interchangeable.
Symmetry == Permutations(Device) \cup Permutations(Op) \cup Permutations(LockName)

=============================================================================
