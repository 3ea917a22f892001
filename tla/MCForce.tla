------------------------------- MODULE MCForce -------------------------------
(* A Force over a folder of two files, for TLC.                            *)
EXTENDS Force, TLC

CONSTANTS x, y

\* The two files can change places in Spec and in every property: one order
\* of the initial states stands for both.
Weight(f) ==
  (IF local[f] = Nil THEN 0 ELSE 1) + (IF remote[f] = Nil THEN 0 ELSE 2)
    + (IF queue[f] = "none" THEN 0 ELSE 4) + (IF f \in excluded THEN 8 ELSE 0)

\* At most one of them waits as the target of a rename.
MCInit == Init /\ Weight(x) <= Weight(y) /\ queue # [f \in Files |-> "rename"]

\* Bound: two changes, two faults or one of each.  Fairness is of the steps
\* within the bound: the others cannot be taken.
Within == used'.edits + used'.faults <= 2

MCSpec ==
  /\ MCInit /\ [][Next /\ Within]_vars
  /\ WF_vars(ApplyStep /\ Within) /\ WF_vars(Resume /\ Within)
=============================================================================
