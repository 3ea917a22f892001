----------------------------- MODULE MCReplica -----------------------------
(***************************************************************************)
(* Small instances of Replica.                                             *)
(***************************************************************************)
EXTENDS Replica

CONSTANTS A, B, P, Q

MCDevice == {A, B}
MCPath == {P}
MCTwoPaths == {P, Q}
MCNone == {}

Symmetry == Permutations(MCDevice)
----------------------------------------------------------------------------
\* The order of steps in which a put is dropped: the winner of a put of B that
\* lost changes once more while B keeps its own version as a conflict copy.
Moves(d) == ses'[d] # ses[d]

Writes(d) == made' # made /\ vault'[d] # vault[d]

Published(v) == ses[A] = Idle /\ canon.files[P] # None /\ canon.files[P].sha = v

Schedule ==
    CASE made = 0 -> Writes(A)
      [] made = 1 -> IF At(A, "commit") THEN Writes(B) ELSE Moves(A)
      [] made = 2 -> IF ~At(B, "final") THEN Moves(B)
                     ELSE IF Published(1) THEN Writes(A) ELSE Moves(A)
      [] made = 3 -> IF ~Published(3) THEN Moves(A)
                     ELSE IF At(B, "apply") THEN Writes(A) ELSE Moves(B)
      [] made = 4 -> IF ~Published(4) THEN Moves(A)
                     ELSE IF ses[B] = Idle THEN Writes(B) ELSE Moves(B)
      [] made = 5 -> Moves(B)
----------------------------------------------------------------------------
\* The order of steps in which a restored file replaces an upload that is not in
\* the index yet: P is deleted everywhere, A and B both write it again, and the
\* session of A fails at another file after it has sent P.
Forgotten(d) == ses[d] = Idle /\ vault[d][P] = Nil /\ Dead(mem[d].base[P]) /\ mem[d].acts = {}

WritesTo(d, p) == Writes(d) /\ vault'[d][p] = made'

Restoring ==
    CASE deletes = 0 -> deletes' = 1 /\ vault'[A] # vault[A] /\ vault'[A][P] = Nil
      [] deletes = 1 /\ made = 0 -> IF ~Forgotten(A) \/ disk[P] # Nil THEN Moves(A)
                                   ELSE IF ~Forgotten(B) THEN Moves(B) ELSE WritesTo(A, P)
      [] made = 1 -> WritesTo(B, P)
      [] made = 2 -> WritesTo(A, Q)
      [] made = 3 -> IF disk[P] = 1 THEN WritesTo(A, Q) ELSE Moves(A)
      [] made = 4 -> IF At(A, "upload") THEN Moves(A)
                     ELSE IF canon.files[P].sha # 2 \/ ses[B] # Idle THEN Moves(B) ELSE Moves(A)
=============================================================================
