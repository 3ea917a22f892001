------------------------------ MODULE Reception ------------------------------
(***************************************************************************)
(* How a device receives a replaced generation of the remote folder, after *)
(* another device enabled, rotated or disabled its encryption.  What the   *)
(* vault holds when the reception begins gives way to the generation; what *)
(* the user does from then on stays.  A receipt in the plugin data tells   *)
(* the two apart: the hashes of the beginning, and those of the files the  *)
(* reception has written.  Contents are numbers (0: no file).  Obstacles   *)
(* between files and folders, and the upload of what stays, are left out.  *)
(***************************************************************************)
EXTENDS Integers, FiniteSets

CONSTANTS Files,      \* the selected files
          MaxEdit,    \* bound on the edits in the vault
          MaxOther,   \* bound on commits and replacements of other devices
          MaxFault    \* bound on failed calls and saves and on restarts

ASSUME ReceptionAssumption ==
  IsFiniteSet(Files) /\ {MaxEdit, MaxOther, MaxFault} \subseteq Nat

VARIABLES
  canon,     \* the canonical index: its generation and files
  local,     \* the vault
  mem,       \* plugin data in memory: generation, baseline, receipt
  disk,      \* plugin data as saved
  snap,      \* the causal state captured when the reception started
  work,      \* the running reception: [pc, canon, todo]
  user,      \* what the user did to a file since the receipt was saved
  captured,  \* a receipt of the running reception has been saved
  unclear,   \* files whose change was forgotten, or put back by the user
  lost,      \* the receipt was dropped although the reception was undone
  used       \* what the bounds count

vars == <<canon, local, mem, disk, snap, work, user, captured, unclear, lost, used>>
ghosts == <<user, captured, unclear, lost>>

Nil == 0
Old == 1
Foreign == 9
Target(gen) == gen + 1
Typed(n) == 10 + n
Untouched == -1
Contents == {Nil, Old, Foreign} \cup {Target(g) : g \in 1 .. MaxOther + 1}
              \cup {Typed(n) : n \in 1 .. MaxEdit}
None == [f \in Files |-> Nil]

NoReceipt == [gen |-> 0, initial |-> None, applied |-> None]
Off == [pc |-> "off", canon |-> [gen |-> 0, files |-> None],
        todo |-> [f \in Files |-> "done"]]
Failed == [Off EXCEPT !.pc = "failed"]
At(pc) == [work EXCEPT !.pc = pc]

(* What the vault holds was created offline: no baseline knows it.         *)
Init ==
  /\ canon \in [gen : {1}, files : [Files -> {Nil, Target(1)}]]
  /\ local \in [Files -> {Nil, Old}]
  /\ mem = [gen |-> 0, base |-> None, receipt |-> NoReceipt]
  /\ disk = mem
  /\ snap = mem
  /\ work = Off
  /\ user = [f \in Files |-> Untouched]
  /\ captured = FALSE
  /\ unclear = {}
  /\ lost = FALSE
  /\ used = [edit |-> 0, other |-> 0, fault |-> 0]

Room(k, max) == used[k] < max /\ used' = [used EXCEPT ![k] = @ + 1]
Fault == Room("fault", MaxFault)

(* The receipt's opinion of a file: what the plugin last left there.       *)
Known(r, f) == IF r.applied[f] # Nil THEN r.applied[f] ELSE r.initial[f]
Expected(f) == Known(mem.receipt, f)
Goal(f) == work.canon.files[f]
Current == work.canon = canon

Protecting == captured \/ mem.receipt # NoReceipt

(* A save of the plugin data; a failed one leaves the memory ahead.        *)
Save(w) ==
  \/ disk' = mem' /\ work' = w /\ UNCHANGED used
  \/ UNCHANGED disk /\ work' = Failed /\ Fault

Abort == work' = Failed /\ UNCHANGED <<mem, disk, used>>

---------------------------------------------------------------------------
(* A reception.                                                            *)

Start ==
  /\ work.pc = "off"
  /\ mem.gen # canon.gen
  /\ snap' = mem
  /\ work' = [Off EXCEPT !.pc = "capture", !.canon = canon]
  /\ UNCHANGED <<canon, local, mem, disk, ghosts, used>>

(* Fault: a newer replacement hashes the vault again.                      *)
RecapturedReceipt ==
  IF mem.receipt.gen = work.canon.gen THEN mem.receipt
  ELSE [gen |-> work.canon.gen, initial |-> local, applied |-> None]

(* What was there before; a newer replacement inherits it.                 *)
Receipt ==
  IF mem.receipt = NoReceipt
  THEN [gen |-> work.canon.gen, initial |-> local, applied |-> None]
  ELSE IF mem.receipt.gen = work.canon.gen THEN mem.receipt
  ELSE [gen |-> work.canon.gen, applied |-> None,
        initial |-> [f \in Files |-> Known(mem.receipt, f)]]

Planned ==
  [At("files") EXCEPT !.todo = [f \in Files |-> IF Goal(f) # Nil THEN "check" ELSE "done"]]

Capture ==
  /\ work.pc = "capture"
  /\ mem' = [mem EXCEPT !.receipt = Receipt]
  /\ IF mem' = mem
     THEN work' = Planned /\ UNCHANGED <<disk, used>>
     ELSE Save(Planned)
  /\ captured' = (captured \/ disk'.receipt # NoReceipt)
  /\ user' = IF Protecting THEN user ELSE [f \in Files |-> Untouched]
  /\ UNCHANGED <<canon, local, snap, unclear, lost>>

Todo(f, state) == [work EXCEPT !.todo[f] = state]
Running == \E f \in Files : work.todo[f] \in {"write", "save"}
Failing == \E f \in Files : work.todo[f] = "failed"

(* Fault: a file that is not as expected refuses the reception.            *)
CheckRefuses(f) ==
  /\ work.pc = "files"
  /\ work.todo[f] = "check"
  /\ ~Failing
  /\ work' = Todo(f, IF ~Current \/ local[f] # Expected(f) THEN "failed"
                     ELSE IF mem.receipt.applied[f] = Goal(f) THEN "done" ELSE "write")
  /\ UNCHANGED <<canon, local, mem, disk, snap, ghosts, used>>

(* Compare, ask for the authority once more, and download.                 *)
Check(f) ==
  /\ work.pc = "files"
  /\ work.todo[f] = "check"
  /\ ~Failing
  /\ \/ /\ Current
        /\ work' = Todo(f, IF local[f] # Expected(f) \/ mem.receipt.applied[f] = Goal(f)
                           THEN "done" ELSE "write")
        /\ UNCHANGED used
     \/ ~Current /\ work' = Todo(f, "failed") /\ UNCHANGED used
     \/ Fault /\ work' = Todo(f, "failed")
  /\ UNCHANGED <<canon, local, mem, disk, snap, ghosts>>

(* Fault: the receipt records the hash that was there before.              *)
WriteOldHash(f) ==
  /\ work.pc = "files"
  /\ work.todo[f] = "write"
  /\ local' = [local EXCEPT ![f] = Goal(f)]
  /\ mem' = [mem EXCEPT !.receipt.applied[f] = local[f]]
  /\ work' = Todo(f, "save")
  /\ UNCHANGED <<canon, disk, snap, ghosts, used>>

(* The hash is compared again in the same turn as the write.               *)
Write(f) ==
  /\ work.pc = "files"
  /\ work.todo[f] = "write"
  /\ IF local[f] # Expected(f)
     THEN work' = Todo(f, "done") /\ UNCHANGED <<local, mem>>
     ELSE /\ local' = [local EXCEPT ![f] = Goal(f)]
          /\ mem' = [mem EXCEPT !.receipt.applied[f] = Goal(f)]
          /\ work' = Todo(f, "save")
  /\ UNCHANGED <<canon, disk, snap, ghosts, used>>

Record(f) ==
  /\ work.todo[f] = "save"
  /\ UNCHANGED mem
  /\ \/ disk' = mem /\ work' = Todo(f, "done") /\ UNCHANGED used
     \/ UNCHANGED disk /\ work' = Todo(f, "failed") /\ Fault
  /\ UNCHANGED <<canon, local, snap, ghosts>>

(* Fault: the extras are those of this device's own old baseline.          *)
ExtrasOfBaseline == {f \in Files : mem.base[f] # Nil /\ Goal(f) = Nil}

(* The files of the beginning that the generation does not have.           *)
Extras == {f \in Files : mem.receipt.initial[f] # Nil /\ Goal(f) = Nil}

Written ==
  /\ work.pc = "files"
  /\ \A f \in Files : work.todo[f] = "done"
  /\ work' = [At("extras") EXCEPT
                !.todo = [f \in Files |-> IF f \in Extras THEN "check" ELSE "done"]]
  /\ UNCHANGED <<canon, local, mem, disk, snap, ghosts, used>>

(* The files in hand are finished before a failure is reported.            *)
Stop ==
  /\ work.pc \in {"files", "extras"}
  /\ ~Running
  /\ Failing
  /\ Abort
  /\ UNCHANGED <<canon, local, snap, ghosts>>

CheckExtra(f) ==
  /\ work.pc = "extras"
  /\ ~Running
  /\ ~Failing
  /\ work.todo[f] = "check"
  /\ IF Current THEN work' = Todo(f, "write") /\ UNCHANGED <<mem, disk, used>> ELSE Abort
  /\ UNCHANGED <<canon, local, snap, ghosts>>

Remove(f) ==
  /\ work.pc = "extras"
  /\ work.todo[f] = "write"
  /\ IF local[f] # Expected(f)
     THEN work' = Todo(f, "done") /\ UNCHANGED <<local, mem>>
     ELSE /\ local' = [local EXCEPT ![f] = Nil]
          /\ mem' = [mem EXCEPT !.receipt.initial[f] = Nil, !.receipt.applied[f] = Nil]
          /\ work' = Todo(f, "save")
  /\ UNCHANGED <<canon, disk, snap, ghosts, used>>

(* Fault: the receipt is dropped from memory before the save is known.     *)
FinishDropped ==
  /\ work.pc = "extras"
  /\ \A f \in Files : work.todo[f] = "done"
  /\ IF ~Current
     THEN Abort
     ELSE /\ mem' = [gen |-> work.canon.gen, base |-> work.canon.files, receipt |-> NoReceipt]
          /\ Save(At("finalize"))
  /\ UNCHANGED <<canon, local, snap, ghosts>>

(* The generation becomes the baseline and the old queues are dropped, in  *)
(* one save with the receipt; refused, the receipt stays.                  *)
Finish ==
  /\ work.pc = "extras"
  /\ \A f \in Files : work.todo[f] = "done"
  /\ IF ~Current THEN Abort
     ELSE LET next == [gen |-> work.canon.gen, base |-> work.canon.files,
                       receipt |-> NoReceipt]
          IN \/ /\ mem' = next /\ disk' = next
                /\ work' = At("finalize") /\ UNCHANGED used
             \/ /\ mem' = [next EXCEPT !.receipt = mem.receipt]
                /\ UNCHANGED disk
                /\ work' = Failed /\ Fault
  /\ UNCHANGED <<canon, local, snap, ghosts>>

(* The session reads the generation again, settles the watcher's events    *)
(* and saves once more.                                                    *)
Finalize ==
  /\ work.pc = "finalize"
  /\ \/ canon.gen = mem.gen /\ work' = Off /\ captured' = FALSE /\ UNCHANGED used
     \/ canon.gen # mem.gen /\ work' = Failed /\ UNCHANGED <<captured, used>>
     \/ Fault /\ work' = Failed /\ UNCHANGED captured
  /\ unclear' = IF work'.pc = "off" THEN {} ELSE unclear
  /\ UNCHANGED <<canon, local, mem, disk, snap, user, lost>>

(* Files that the reception changed and a receipt knows nothing of.        *)
Forgotten(r) ==
  {f \in Files : r # NoReceipt /\ user'[f] = Untouched /\ local[f] # Known(r, f)}

(* A failed session restores the causal state but keeps a receipt.         *)
Snapshot ==
  IF mem.receipt = NoReceipt THEN snap ELSE [snap EXCEPT !.receipt = mem.receipt]

Restore ==
  /\ work.pc = "failed"
  /\ mem' = Snapshot
  /\ work' = Off
  /\ \/ disk' = mem' /\ UNCHANGED used
     \/ UNCHANGED disk /\ Fault
  /\ lost' = (lost \/ (mem.receipt = NoReceipt /\ mem.gen # snap.gen))
  /\ UNCHANGED <<canon, local, snap, user, captured>>
  /\ unclear' = unclear \cup Forgotten(mem'.receipt)

---------------------------------------------------------------------------
(* What happens around it.                                                 *)

Refused ==
  /\ work.pc \notin {"off", "files", "failed", "finalize"}
  /\ Fault
  /\ work' = Failed
  /\ UNCHANGED <<canon, local, mem, disk, snap, ghosts>>

(* A change that a restart makes equal to what the saved receipt knows is  *)
(* no change either.                                                       *)
Crash ==
  /\ Fault
  /\ mem' = disk
  /\ work' = Off
  /\ captured' = (captured /\ disk.receipt # NoReceipt)
  /\ user' = [f \in Files |-> IF user[f] = Known(disk.receipt, f) THEN Untouched ELSE user[f]]
  /\ unclear' = unclear \cup Forgotten(disk.receipt)
  /\ UNCHANGED <<canon, local, disk, snap, lost>>

(* Going back to what the receipt knows is no change.                      *)
Edit(f) ==
  /\ Room("edit", MaxEdit)
  /\ \E c \in {Nil, Old, Typed(used.edit + 1)} \ {local[f]} :
       LET back == mem.receipt # NoReceipt /\ c = Expected(f)
       IN /\ local' = [local EXCEPT ![f] = c]
          /\ user' = [user EXCEPT ![f] = IF ~Protecting \/ back THEN Untouched ELSE c]
          /\ unclear' = IF back THEN unclear \cup {f} ELSE unclear
  /\ UNCHANGED <<canon, mem, disk, snap, work, captured, lost>>

OthersCommit(f) ==
  /\ Room("other", MaxOther)
  /\ \E c \in {Nil, Foreign} \ {canon.files[f]} : canon' = [canon EXCEPT !.files[f] = c]
  /\ UNCHANGED <<local, mem, disk, snap, work, ghosts>>

Replaced ==
  /\ Room("other", MaxOther)
  /\ \E files \in [Files -> {Nil, Target(canon.gen + 1)}] :
       canon' = [gen |-> canon.gen + 1, files |-> files]
  /\ UNCHANGED <<local, mem, disk, snap, work, ghosts>>

ReceptionStep ==
  \/ Start \/ Capture \/ Written \/ Finish \/ Finalize \/ Stop \/ Restore
  \/ \E f \in Files : Check(f) \/ Write(f) \/ Record(f) \/ CheckExtra(f) \/ Remove(f)

Next ==
  \/ ReceptionStep \/ Refused \/ Crash \/ Replaced
  \/ \E f \in Files : Edit(f) \/ OthersCommit(f)

(* A full synchronisation is started again at every admission.             *)
Spec == Init /\ [][Next]_vars /\ WF_vars(ReceptionStep)

---------------------------------------------------------------------------

Canonical == {Nil, Foreign} \cup {Target(g) : g \in 1 .. MaxOther + 1}
PluginData == [gen : 0 .. MaxOther + 1, base : [Files -> Contents],
               receipt : [gen : 0 .. MaxOther + 1, initial : [Files -> Contents],
                          applied : [Files -> Canonical]]]

(* The state is well formed.                                               *)
TypeOK ==
  /\ canon \in [gen : 1 .. MaxOther + 1, files : [Files -> Contents]]
  /\ local \in [Files -> Contents]
  /\ mem \in PluginData /\ disk \in PluginData /\ snap \in PluginData
  /\ work.pc \in {"off", "capture", "files", "extras", "finalize", "failed"}
  /\ work.todo \in [Files -> {"check", "write", "save", "done", "failed"}]
  /\ user \in [Files -> Contents \cup {Untouched}]
  /\ unclear \subseteq Files

Late(f) == user[f] # Untouched

(* What the user does to a file after the receipt exists - writes, creates *)
(* or deletes it, before or after the reception reaches it, across failed  *)
(* attempts, restarts and newer replacements - is what the vault holds for *)
(* it, unless a completed reception was undone (LateEditsKept).            *)
LateEditsSurvive == ~lost => \A f \in Files : Late(f) => local[f] = user[f]

(* The same of a well-formed state.                                        *)
VaultConsistent == TypeOK /\ LateEditsSurvive

(* The same without the exception: "a failed reception retains the receipt *)
(* and previous causal baseline", docs/LOCAL_REPLACEMENT_RECOVERY.md:9.    *)
LateEditsKept == \A f \in Files : Late(f) => local[f] = user[f]

(* A file new in the generation, received and then deleted by another      *)
(* device before the reception is repeated: it is in no list of extras.    *)
LeftBehind(f) ==
  /\ canon.files[f] = Nil /\ mem.receipt.initial[f] = Nil
  /\ local[f] = mem.receipt.applied[f]

(* When a generation becomes the baseline, the vault holds it file for     *)
(* file, the late edits aside: nothing that the vault held when the        *)
(* reception began is left, whether the generation has the file or not.    *)
AdoptedIsAuthoritative ==
  [][disk'.gen # disk.gen /\ disk'.receipt = NoReceipt /\ work'.pc = "finalize" =>
       \A f \in Files : \/ local[f] = canon.files[f]
                        \/ Late(f)
                        \/ f \in unclear
                        \/ LeftBehind(f)]_vars

(* The receipt that remembers the beginning is given up only in the save   *)
(* that makes the canonical generation of that turn the baseline: not by a *)
(* failed attempt, its restored state, or a newer replacement.             *)
ReceiptGuardsTheVault ==
  [][disk.receipt # NoReceipt /\ disk'.receipt = NoReceipt =>
       disk'.gen = canon.gen /\ disk'.base = canon.files]_vars

(* With the failures and the other devices at rest, the device ends with   *)
(* the canonical generation as its saved baseline.                         *)
Received == <>[](work = Off /\ mem = disk /\ mem.gen = canon.gen)
=============================================================================
