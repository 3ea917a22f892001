------------------------- MODULE CanonicalRegister -------------------------
(***************************************************************************)
(* What src/sync/canonical promises its callers: the canonical index is    *)
(* one atomic register.  A commit replaces the index by its successor,     *)
(* which contains everything its predecessor contained, and only mutations *)
(* the register contains are ever acknowledged to the device that made     *)
(* them.  CanonicalTransaction implements it with MOVE, PUT and leases.    *)
(***************************************************************************)
EXTENDS Naturals

CONSTANT Op          \* the logical mutations

VARIABLES
  value,             \* [rev, ops]: the canonical index
  acknowledged       \* mutations reported as committed

Index == [rev : Nat, ops : SUBSET Op]

Init == value = [rev |-> 0, ops |-> {}] /\ acknowledged = {}

\* saveRemoteIndex by any device: the next revision, nothing dropped.
Commit ==
  /\ \E S \in SUBSET Op :
       /\ ~(S \subseteq value.ops)
       /\ value' = [rev |-> value.rev + 1, ops |-> value.ops \cup S]
  /\ UNCHANGED acknowledged

\* acceptCommit, or a load that finds the mutation already applied.
AcknowledgeSome ==
  /\ \E S \in SUBSET value.ops : acknowledged' = acknowledged \cup S
  /\ UNCHANGED value

Next == Commit \/ AcknowledgeSome

Spec == Init /\ [][Next]_<<value, acknowledged>>

=============================================================================
