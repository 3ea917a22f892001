----------------------------- MODULE MCEncryption -----------------------------
(* A transition over two selected files and an excluded one, for TLC.         *)
EXTENDS Encryption, TLC

CONSTANTS x, y, z

(* The two files are interchangeable: x is in the owner's vault.  A file that *)
(* is missing there is read from the disk in every kind: both vaults for one. *)
MCInit ==
  /\ Init
  /\ local[x] # Nil
  /\ kind # "enable" => local[y] = Nil

(* Bound: two faults, or one and something that happens around.  Fairness is  *)
(* of the steps within the bound: the others cannot be taken.                 *)
Within == used'.event + used'.fault <= 2

MCSpec == MCInit /\ [][Next /\ Within]_vars /\ WF_vars(OwnerStep /\ Within)
=============================================================================
