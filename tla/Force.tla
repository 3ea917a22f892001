-------------------------------- MODULE Force --------------------------------
(***************************************************************************)
(* A confirmed Force: one side of the synchronisation replaces the other,  *)
(* file by file, from a checkpoint that survives failures and restarts.    *)
(*                                                                         *)
(* The vault is one folder with Files in it.  Contents are numbers (0: no  *)
(* file).  The direction is fixed; local and remote are the two sides.     *)
(* The reads of a scan are one step, because a transfer reads its file     *)
(* again.  The queue of the watcher holds at most one event for a file; it *)
(* is saved with the plugin data, so a restart goes back to what was saved *)
(* last, and between two sessions the watcher may be off.  The encryption  *)
(* of the target, the archive and the name of the stage (only logged) are  *)
(* left out; a failed write of the manifest is one of the errors of a run. *)
(***************************************************************************)
EXTENDS Integers, FiniteSets

CONSTANTS Files,      \* the files of the folder
          MaxEdit,    \* bound on the changes of the user and of other devices
          MaxFault    \* bound on failed calls, failed saves and restarts

Folder == "folder"

ASSUME ForceAssumption ==
  /\ IsFiniteSet(Files)
  /\ Folder \notin Files
  /\ {MaxEdit, MaxFault} \subseteq Nat

Items == Files \cup {Folder}
Nil == 0
Contents == 0 .. 2 + MaxEdit
Empty == [f \in Files |-> Nil]

VARIABLES
  direction, \* from_local or from_remote
  excluded,  \* the files the settings keep out of synchronisation
  watching,  \* the watcher observes the vault between sessions
  local,     \* the vault
  remote,    \* the files on the disk
  canon,     \* the canonical index: [gen, files, rev], of the old or new epoch
  queue,     \* the event the watcher holds for a file
  st,        \* the ForceRecovery of the run, or of the plugin
  held,      \* this.forceRecovery is st
  disk,      \* the ForceRecovery in the plugin data
  saved,     \* the queue in the plugin data
  run,       \* the session: [pc, left, item, got, err]
  outcome,   \* what the last session of the Force reported
  base,      \* the local baseline a finished Force installs
  kept,      \* what the user did to a file since the boundary
  unseen,    \* files whose last change since the boundary has no event
  foreign,   \* files somebody else has changed on the disk
  hidden,    \* files whose local content the checkpoint cannot explain
  used       \* what the bounds count

sides == <<local, remote>>
recovery == <<st, held, disk, saved>>
ghosts == <<kept, unseen, foreign, hidden>>
config == <<direction, excluded>>
setup == <<config, watching>>
vars == <<setup, sides, canon, queue, recovery, run, outcome, base, ghosts, used>>

NoForce == [phase |-> "none", reset |-> FALSE, dels |-> {}, todo |-> {},
            src |-> Empty, sealed |-> TRUE, files |-> Empty, fin |-> FALSE]
Idle == [pc |-> "idle", left |-> {}, item |-> Folder, got |-> Nil, err |-> FALSE]
Untouched == -1

Init ==
  /\ direction \in {"from_local", "from_remote"}
  /\ excluded = {} \/ \E f \in Files : excluded = {f}
  /\ watching \in BOOLEAN
  /\ local \in [Files -> {Nil, 1}] /\ remote \in [Files -> {Nil, 2}]
  /\ canon = [gen |-> "old", files |-> remote, rev |-> 1]
  /\ queue \in [Files -> {"none", "rename"}]
  /\ \A f \in Files : queue[f] = "rename" => local[f] # Nil /\ f \notin excluded
  /\ st = NoForce /\ held = FALSE /\ disk = NoForce /\ saved = queue
  /\ run = Idle /\ outcome = "none" /\ base = Empty
  /\ kept = [f \in Files |-> Untouched]
  /\ unseen = {} /\ foreign = {} /\ hidden = {}
  /\ used = [edits |-> 0, faults |-> 0]

-----------------------------------------------------------------------------
(* Helpers                                                                 *)

Under(p) == IF p = Folder THEN Files ELSE {p}
Present(side) == {f \in Files : side[f] # Nil}
Selected(side) == Present(side) \ excluded
Destination == IF direction = "from_local" THEN remote ELSE local
Source == IF direction = "from_local" THEN local ELSE remote

\* An event of the queue: covered by the boundary (a write, a removal), a
\* rename to the file, the removal of the source of that rename, or late.
Events == {"none", "write", "removal", "rename", "source", "late write", "late removal"}
IsLate(e) == e \in {"late write", "late removal"}
Removals == {"removal", "rename", "source", "late removal"}

\* Fault: a change below a folder is not one of the folder.
LateItself(p) == p \in Files /\ IsLate(queue[p])

\* hasLocalChanges: an event that the boundary does not cover names the
\* path, a descendant of it or its folder.
Late(p) == \E f \in Under(p) : IsLate(queue[f])

\* Fault: the root of the vault is emptied as if it were a folder of it.
DeleteRoot(side) == IF Present(side) = {} THEN {} ELSE {"root"}

\* Fault: a folder with an excluded file is deleted as a whole.
DeleteWhole(side) == IF Present(side) = {} THEN {} ELSE {Folder}

\* planRecursiveDeletes of a preparation: the folder covers its files, unless
\* the settings exclude something below it.
DeletePlan(side) ==
  IF excluded = {} /\ Present(side) # {} THEN {Folder} ELSE Selected(side)

At(p) == run.pc = p
Go(p) == run' = [run EXCEPT !.pc = p]
GoErr(p, e) == run' = [run EXCEPT !.pc = p, !.err = @ \/ e]

\* A step may fail as long as the bound on faults allows it.
Ok(ok) == /\ ~ok => used.faults < MaxFault
          /\ used' = IF ok THEN used ELSE [used EXCEPT !.faults = @ + 1]

\* dependencies.persist(x): memory follows x even when the save fails; the
\* plugin data has the queue as well.
Persist(x, ok) ==
  /\ st' = x
  /\ disk' = IF ok THEN x ELSE disk
  /\ saved' = IF ok THEN queue ELSE saved
  /\ UNCHANGED held

\* pauseForSync turns the watcher on for the time of a session.
InSession == run.pc \notin {"idle", "starting", "preflight", "confirming"}
Observing == watching \/ InSession

-----------------------------------------------------------------------------
(* The user, the other devices, the plugin data.                           *)

\* The queue reducer: a write to the target of a queued rename is absorbed
\* and leaves the event as it was; its deletion becomes one of the source,
\* which a new file stands beside.  Any other event takes a new identity,
\* which no boundary covers.  Nothing is queued while the watcher is off.
Observed(f, v) ==
  CASE ~Observing \/ f \in excluded -> queue[f]
    [] queue[f] = "rename" -> IF v = Nil THEN "source" ELSE "rename"
    [] v = Nil \/ queue[f] = "source" -> "late removal"
    [] OTHER -> "late write"

UserChanges(f) ==
  /\ used.edits < MaxEdit
  /\ \E v \in {3 + used.edits, Nil} \ {local[f]} :
       /\ local' = [local EXCEPT ![f] = v]
       /\ queue' = [queue EXCEPT ![f] = Observed(f, v)]
       /\ kept' = [kept EXCEPT ![f] = v]
  /\ unseen' = IF IsLate(queue'[f]) \/ f \in excluded
               THEN unseen \ {f} ELSE unseen \cup {f}
  /\ used' = [used EXCEPT !.edits = @ + 1]
  /\ UNCHANGED <<setup, remote, canon, recovery, run, outcome, base, foreign, hidden>>

\* Somebody deletes or rewrites a file on the disk without the plugin.
DiskChanges(f) ==
  /\ used.edits < MaxEdit /\ remote[f] # Nil
  /\ \E v \in {3 + used.edits, Nil} : remote' = [remote EXCEPT ![f] = v]
  /\ foreign' = foreign \cup {f}
  /\ used' = [used EXCEPT !.edits = @ + 1]
  /\ UNCHANGED <<setup, local, canon, queue, recovery, run, outcome, base,
                 kept, unseen, hidden>>

\* Another device commits a file on the new generation.
ForeignCommits(f) ==
  /\ canon.gen = "new" /\ used.edits < MaxEdit
  /\ remote' = [remote EXCEPT ![f] = 3 + used.edits]
  /\ canon' = [canon EXCEPT !.files[f] = 3 + used.edits, !.rev = @ + 1]
  /\ foreign' = foreign \cup {f}
  /\ used' = [used EXCEPT !.edits = @ + 1]
  /\ UNCHANGED <<setup, local, queue, recovery, run, outcome, base,
                 kept, unseen, hidden>>

\* Any other save of the plugin, the one of the watcher included, writes the
\* recovery and the queue as they are in memory at that moment.
OtherSave ==
  /\ saved' = queue /\ disk' = IF held THEN st ELSE disk
  /\ <<disk, saved>>' # <<disk, saved>>
  /\ UNCHANGED <<setup, sides, canon, queue, st, held, run, outcome, base,
                 ghosts, used>>

\* The settings or a failed session turn the watcher off; automation turns
\* it on, but not while a Force waits for its continuation.
SwitchWatching ==
  /\ At("idle") /\ (watching \/ ~held)
  /\ watching' = ~watching
  /\ UNCHANGED <<config, sides, canon, queue, recovery, run, outcome, base,
                 ghosts, used>>

\* What the checkpoint on the device does not know: files written to the
\* vault since it was saved.
Unexplained == {f \in Files : st.files[f] # Nil /\ disk.files[f] = Nil}

\* Events that were not saved yet are lost; with a Force to continue only the
\* scheduler starts, without the watcher.
Restart ==
  /\ Ok(FALSE)
  /\ st' = disk /\ held' = (disk # NoForce) /\ UNCHANGED <<disk, saved>>
  /\ queue' = saved
  /\ watching' \in IF disk = NoForce THEN BOOLEAN ELSE {FALSE}
  /\ run' = IF disk = NoForce THEN Idle ELSE [Idle EXCEPT !.pc = "starting"]
  /\ unseen' = unseen \cup {f \in Files : IsLate(queue[f]) /\ ~IsLate(saved[f])}
  /\ hidden' = hidden \cup Unexplained
       \cup (IF run.pc = "transferred" THEN {run.item} ELSE {})
  /\ UNCHANGED <<config, sides, canon, outcome, base, kept, foreign>>

-----------------------------------------------------------------------------
(* The controller: preparation and confirmation.                           *)

\* run: one Force at a time; preparation only reads.
Begin ==
  /\ At("idle") /\ st = NoForce /\ outcome = "none"
  /\ Go("preflight")
  /\ UNCHANGED <<setup, sides, canon, queue, recovery, outcome, base, ghosts, used>>

\* prepareForceReplacement: the boundary is what the queue holds now.  Its
\* scan and its deletion plan are made again after the confirmation.
Covered(e) == CASE e = "late write" -> "write"
                [] e \in {"late removal", "source"} -> "removal"
                [] OTHER -> e

Prepare ==
  /\ At("preflight")
  /\ queue' = [f \in Files |-> Covered(queue[f])]
  /\ saved' = [f \in Files |-> Covered(saved[f])]
  /\ st' = [NoForce EXCEPT !.phase = "prepared"]
  /\ kept' = [f \in Files |-> Untouched] /\ unseen' = {} /\ hidden' = {}
  /\ Go("confirming")
  /\ UNCHANGED <<setup, sides, canon, held, disk, outcome, base, foreign, used>>

\* Cancel, before replacement only: the plan is dropped.
Cancel ==
  /\ run.pc \in {"preflight", "confirming"}
  /\ st' = NoForce /\ run' = Idle /\ outcome' = "cancelled"
  /\ UNCHANGED <<setup, sides, canon, queue, held, disk, saved, base, ghosts, used>>

\* The run ends; what it has left is for the next full session.
End(o, e) == run' = Idle /\ outcome' = o

\* The session begins once the watcher has saved its queue.
Confirm ==
  /\ At("confirming")
  /\ \E ok \in BOOLEAN :
       /\ Ok(ok)
       /\ IF ok THEN saved' = queue /\ Go("scanning") /\ UNCHANGED <<st, outcome>>
          ELSE st' = NoForce /\ End("failed", TRUE) /\ UNCHANGED saved
  /\ UNCHANGED <<setup, sides, canon, queue, held, disk, base, ghosts>>

-----------------------------------------------------------------------------
(* applyForceReplacement.                                                  *)

\* scanSource: the source as it is after the confirmation.
Scan ==
  /\ At("scanning")
  /\ \E ok \in BOOLEAN :
       /\ Ok(ok)
       /\ IF ok
          THEN /\ st' = [st EXCEPT
                    !.src = [f \in Files |-> IF f \in excluded THEN Nil ELSE Source[f]],
                    !.todo = Selected(Source) \cup
                             (IF Selected(Source) = {} THEN {} ELSE {Folder})]
               /\ Go("admitting") /\ UNCHANGED outcome
          ELSE st' = NoForce /\ End("failed", TRUE)
  /\ UNCHANGED <<setup, sides, canon, queue, held, disk, saved, base, ghosts>>

\* ensureForceRoot, prepareDeletion and the first save.
Admit ==
  /\ At("admitting")
  /\ \E ok \in BOOLEAN :
       /\ Ok(ok)
       /\ IF ok
          THEN /\ st' = [st EXCEPT !.phase = "applying",
                           !.dels = DeletePlan(Destination)]
               /\ disk' = st' /\ held' = TRUE /\ saved' = queue
               /\ Go("resetting") /\ UNCHANGED outcome
          ELSE st' = NoForce /\ End("failed", TRUE) /\ UNCHANGED <<held, disk, saved>>
  /\ UNCHANGED <<setup, sides, canon, queue, base, ghosts>>

\* resumeForceReplacement: a digest that is not the one of the source is
\* refused.
Resumable == st.sealed

\* prepareForSync: while a Force waits nothing drains the queue, so a removal
\* or a rename in it refuses the session, except the first after a start.
Admitted ==
  \/ At("starting")
  \/ At("idle") /\ \A f \in Files : queue[f] \notin Removals

\* Fault: a finished replacement is applied again.
ResumeAlways ==
  /\ held /\ Resumable /\ Admitted
  /\ Go("resetting")
  /\ UNCHANGED <<setup, sides, canon, queue, recovery, outcome, base, ghosts, used>>

\* fullSync resumes a saved recovery before anything else, once the watcher
\* has saved its queue.
Resume ==
  /\ held /\ Resumable /\ Admitted
  /\ \E ok \in BOOLEAN :
       /\ Ok(ok)
       /\ run' = IF ~ok THEN Idle
                 ELSE [run EXCEPT !.pc = IF st.fin THEN "finishing" ELSE "resetting"]
       /\ IF ok THEN saved' = queue /\ disk' = IF queue = saved THEN disk ELSE st
          ELSE UNCHANGED <<disk, saved>>
       /\ outcome' = IF ok THEN "none" ELSE outcome
  /\ UNCHANGED <<setup, sides, canon, queue, st, held, base, ghosts>>

\* publishDirectForceCanonical of an unfinished index: a maintenance entry
\* keeps the other devices away.
Maintenance == [gen |-> "force", files |-> st.files, rev |-> 1]
NoCanon == [gen |-> "none", files |-> Empty, rev |-> 0]

\* The outcomes of a call that changes the disk: confirmed, never sent,
\* done without an answer, done and confirmed but not saved.
Results == {"saved", "unsent", "lost", "unsaved"}
Sent(r) == r # "unsent"
Confirmed(r) == r \in {"saved", "unsaved"}

Reset ==
  /\ At("resetting")
  /\ \E r \in IF st.reset THEN {"saved"} ELSE Results :
       /\ Ok(r = "saved")
       /\ canon' \in IF st.reset THEN {canon}
                     ELSE IF Sent(r) THEN {Maintenance} ELSE {canon, NoCanon}
       /\ IF Confirmed(r) /\ ~st.reset
          THEN Persist([st EXCEPT !.reset = TRUE], r = "saved")
          ELSE UNCHANGED recovery
       /\ run' = [run EXCEPT !.pc = "deletes", !.left = st.dels, !.err = (r # "saved")]
  /\ UNCHANGED <<setup, sides, queue, outcome, base, ghosts>>

\* Fault: a narrowed deletion keeps its own path.
NarrowToSelf(p) == {p} \cup {f \in Present(local) : f \in Under(p) /\ ~Late(f)}

\* A deletion whose path has late changes shrinks to the files below it that
\* have none.
Narrow(p) == {f \in Present(local) \ {p} : f \in Under(p) /\ ~Late(f)}

NarrowDelete(p) ==
  /\ At("deletes") /\ p \in run.left
  /\ direction = "from_remote" /\ Late(p)
  /\ \E r \in {"saved", "unsent", "unsaved"} :
       /\ Ok(r = "saved")
       /\ IF r = "unsent" THEN UNCHANGED recovery
          ELSE Persist([st EXCEPT !.dels = (@ \ {p}) \cup Narrow(p)], r = "saved")
       /\ run' = [run EXCEPT !.left = (@ \ {p}) \cup (IF r = "unsent" THEN {} ELSE Narrow(p)),
                             !.err = @ \/ r # "saved"]
  /\ UNCHANGED <<setup, sides, canon, queue, outcome, base, ghosts>>

\* Fault: a deleted file stays recorded until it is copied again.
RequeuedLater(p) ==
  [st EXCEPT !.todo = @ \cup {i \in Items : /\ i \in Under(p) \/ i = p
                                            /\ i = Folder \/ st.src[i] # Nil}]

\* Before a deletion its files lose their record and wait for a copy again.
Requeued(p) ==
  LET hit == {i \in Items : /\ i \in Under(p) \/ i = p
                            /\ IF i = Folder THEN Present(st.src) # {} ELSE st.src[i] # Nil}
  IN [st EXCEPT !.todo = @ \cup hit,
                !.files = [f \in Files |-> IF f \in hit THEN Nil ELSE @[f]]]

PrepareDelete(p) ==
  /\ At("deletes") /\ p \in run.left
  /\ ~(direction = "from_remote" /\ Late(p))
  /\ \E ok \in BOOLEAN :
       /\ Ok(ok)
       /\ Persist(Requeued(p), ok)
       /\ run' = IF ok THEN [run EXCEPT !.pc = "deleting", !.item = p]
                 ELSE [run EXCEPT !.left = @ \ {p}, !.err = TRUE]
  /\ UNCHANGED <<setup, sides, canon, queue, outcome, base, ghosts>>

Cleared(side, p) == [f \in Files |-> IF f \in Under(p) THEN Nil ELSE side[f]]

\* The deletion; the last look at the queue is with it.
Delete ==
  /\ At("deleting")
  /\ LET p == run.item
         away == direction = "from_remote" /\ Late(p)
     IN \E r \in IF away THEN {"saved"} ELSE Results :
          /\ Ok(r = "saved")
          /\ IF away \/ ~Sent(r) THEN UNCHANGED sides
             ELSE IF direction = "from_remote"
             THEN local' = Cleared(local, p) /\ UNCHANGED remote
             ELSE remote' = Cleared(remote, p) /\ UNCHANGED local
          /\ IF ~away /\ Confirmed(r)
             THEN Persist([st EXCEPT !.dels = @ \ {p}], r = "saved")
             ELSE UNCHANGED recovery
          /\ run' = [run EXCEPT !.pc = "deletes", !.left = @ \ {p},
                                !.err = @ \/ r # "saved"]
  /\ UNCHANGED <<setup, canon, queue, outcome, base, ghosts>>

\* The stage and the phase are saved between the loops.
EndDeletes ==
  /\ At("deletes") /\ run.left = {}
  /\ \E ok \in BOOLEAN :
       /\ Ok(ok) /\ Persist(st, ok)
       /\ run' = [run EXCEPT !.pc = "copies", !.left = st.todo, !.err = @ \/ ~ok]
  /\ UNCHANGED <<setup, sides, canon, queue, outcome, base, ghosts>>

\* Only the confirmed folder leaves the list; a file makes its folder too.
CreateFolder ==
  /\ At("copies") /\ Folder \in run.left
  /\ \E r \in Results :
       /\ Ok(r = "saved")
       /\ IF Confirmed(r) THEN Persist([st EXCEPT !.todo = @ \ {Folder}], r = "saved")
          ELSE UNCHANGED recovery
       /\ run' = [run EXCEPT !.left = @ \ {Folder}, !.err = @ \/ r # "saved"]
  /\ UNCHANGED <<setup, sides, canon, queue, outcome, base, ghosts>>

File(f) == At("copies") /\ f \in Files /\ f \in run.left /\ Folder \notin run.left
Skip(f, e) == run' = [run EXCEPT !.pc = "copies", !.left = @ \ {f}, !.got = Nil,
                                 !.err = @ \/ e]
Transferred(f, v) ==
  /\ st' = [st EXCEPT !.src[f] = v, !.sealed = @ /\ st.src[f] = v]
  /\ run' = [run EXCEPT !.pc = "transferred", !.item = f, !.got = Nil]
  /\ UNCHANGED <<held, disk, saved>>

\* transferFile to the disk: the bytes the file has now.
Upload(f) ==
  /\ File(f) /\ direction = "from_local" /\ local[f] # Nil
  /\ \E r \in Results \ {"unsaved"} :
       /\ Ok(r = "saved")
       /\ remote' = IF Sent(r) THEN [remote EXCEPT ![f] = local[f]] ELSE remote
       /\ IF Confirmed(r) THEN Transferred(f, local[f])
          ELSE Skip(f, TRUE) /\ UNCHANGED recovery
  /\ foreign' = IF remote' # remote THEN foreign \ {f} ELSE foreign
  /\ UNCHANGED <<setup, local, canon, queue, outcome, base, kept, unseen, hidden>>

\* The file is gone: what the disk holds counts only when it is the source.
Recover(f) ==
  /\ File(f) /\ direction = "from_local" /\ local[f] = Nil /\ remote[f] # Nil
  /\ IF remote[f] = st.src[f] THEN Transferred(f, remote[f])
     ELSE Skip(f, FALSE) /\ UNCHANGED recovery
  /\ UNCHANGED <<setup, sides, canon, queue, outcome, base, ghosts, used>>

\* A file of the vault that this Force has not written stays.
AwaitingPurge(f) == \E p \in st.dels : f \in Under(p)
Copies(f) ==
  /\ ~Late(f)
  /\ AwaitingPurge(f) \/ st.files[f] # Nil \/ local[f] = Nil

Download(f) ==
  /\ File(f) /\ direction = "from_remote" /\ remote[f] # Nil
  /\ \E ok \in BOOLEAN :
       /\ Ok(ok)
       /\ IF ~ok THEN Skip(f, TRUE) /\ UNCHANGED recovery
          ELSE IF ~Copies(f) THEN Transferred(f, remote[f])
          ELSE /\ run' = [run EXCEPT !.pc = "writing", !.item = f, !.got = remote[f]]
               /\ UNCHANGED recovery
  /\ UNCHANGED <<setup, sides, canon, queue, outcome, base, ghosts>>

\* writeForceFile looks at the queue once more; a write that is not read back
\* is an error, and the file stays without a record.
Write ==
  /\ At("writing")
  /\ LET f == run.item
     IN \E r \in IF Late(f) THEN {"unsent"} ELSE Results \ {"unsaved"} :
          /\ IF Late(f) THEN UNCHANGED used ELSE Ok(r = "saved")
          /\ local' = IF Sent(r) THEN [local EXCEPT ![f] = run.got] ELSE local
          /\ hidden' = IF r = "lost" THEN hidden \cup {f} ELSE hidden
          /\ IF Confirmed(r) THEN Transferred(f, run.got)
             ELSE Skip(f, ~Late(f)) /\ UNCHANGED recovery
  /\ UNCHANGED <<setup, remote, canon, queue, outcome, base, kept, unseen, foreign>>

\* A source that is confirmed absent is retired.
Retire(f) ==
  /\ File(f) /\ Source[f] = Nil /\ remote[f] = Nil
  /\ \E ok \in BOOLEAN :
       /\ Ok(ok)
       /\ Persist([st EXCEPT !.src[f] = Nil, !.todo = @ \ {f}], ok)
       /\ Skip(f, ~ok)
  /\ UNCHANGED <<setup, sides, canon, queue, outcome, base, ghosts>>

\* The digest of the source, the record of the file and the save.
Record ==
  /\ At("transferred")
  /\ LET f == run.item
     IN \E ok \in BOOLEAN :
          /\ Ok(ok)
          /\ Persist([st EXCEPT !.files[f] = st.src[f], !.todo = @ \ {f},
                                !.sealed = TRUE], ok)
          /\ run' = [run EXCEPT !.pc = "copies", !.left = @ \ {f}, !.err = @ \/ ~ok]
  /\ UNCHANGED <<setup, sides, canon, queue, outcome, base, ghosts>>

EndCopies ==
  /\ At("copies") /\ run.left = {}
  /\ \E ok \in BOOLEAN :
       /\ Ok(ok) /\ Persist([st EXCEPT !.phase = "cleanup"], ok)
       /\ GoErr("publishing", ~ok)
  /\ UNCHANGED <<setup, sides, canon, queue, outcome, base, ghosts>>

\* Fault: copies that wait without an error do not count.
UnfinishedErrors == st.dels # {} \/ run.err

Unfinished == st.dels # {} \/ st.todo # {} \/ run.err

\* Work is left: the index says so and the session is over.
PublishRemainder ==
  /\ At("publishing") /\ Unfinished
  /\ \E r \in {"saved", "unsent"} :
       /\ Ok(r = "saved")
       /\ canon' = IF Sent(r) THEN Maintenance ELSE canon
  /\ End(IF run.err THEN "failed" ELSE "recovery-pending", run.err)
  /\ UNCHANGED <<setup, sides, queue, recovery, base, ghosts>>

\* The new generation; its receipt is saved after it.
PublishFinal ==
  /\ At("publishing") /\ ~Unfinished
  /\ \E r \in Results \ {"unsaved"} :
       /\ Ok(r = "saved")
       /\ canon' = IF Sent(r) THEN [gen |-> "new", files |-> st.files, rev |-> 3]
                   ELSE canon
       /\ IF r = "saved"
          THEN st' = [st EXCEPT !.fin = TRUE] /\ Go("receipt") /\ UNCHANGED outcome
          ELSE End("failed", TRUE) /\ UNCHANGED st
  /\ UNCHANGED <<setup, sides, queue, held, disk, saved, base, ghosts>>

SaveReceipt ==
  /\ At("receipt")
  /\ \E ok \in BOOLEAN :
       /\ Ok(ok) /\ Persist(st, ok)
       /\ IF ok THEN Go("finishing") /\ UNCHANGED outcome ELSE End("failed", TRUE)
  /\ UNCHANGED <<setup, sides, canon, queue, base, ghosts>>

\* Fault: the events that came after the boundary are retired as well.
RetiredAll(e) == "none"

\* settleForceReplacement: events the boundary covers are done.
Retired(e) == IF e \in {"write", "removal", "rename"} THEN "none" ELSE e

\* finishForceReplacement: the baseline, the covered events and their save,
\* the end of the recovery and its save.
Finish ==
  /\ At("finishing")
  /\ queue' = [f \in Files |-> Retired(queue[f])]
  /\ \E ok \in BOOLEAN :
       /\ Ok(ok)
       /\ IF ok
          THEN /\ st' = NoForce /\ disk' = NoForce /\ held' = FALSE /\ saved' = queue'
               /\ base' = st.files /\ End("success", FALSE)
          ELSE /\ saved' \in {saved, queue'}
               /\ UNCHANGED <<st, held, disk, base>> /\ End("failed", TRUE)
  /\ UNCHANGED <<setup, sides, canon, ghosts>>

-----------------------------------------------------------------------------
DeleteStep == \/ \E p \in Items : NarrowDelete(p) \/ PrepareDelete(p)
              \/ Delete \/ EndDeletes
CopyStep == \/ CreateFolder \/ Write \/ Record \/ EndCopies
            \/ \E f \in Files : Upload(f) \/ Recover(f) \/ Download(f) \/ Retire(f)
ApplyStep == \/ Scan \/ Admit \/ Reset \/ DeleteStep \/ CopyStep
             \/ PublishRemainder \/ PublishFinal \/ SaveReceipt \/ Finish
ForceStep == Begin \/ Prepare \/ Cancel \/ Confirm \/ Resume \/ ApplyStep
Environment == \/ \E f \in Files : UserChanges(f) \/ DiskChanges(f) \/ ForeignCommits(f)
               \/ OtherSave \/ SwitchWatching \/ Restart

Next == ForceStep \/ Environment

Spec == Init /\ [][Next]_vars /\ WF_vars(ApplyStep) /\ WF_vars(Resume)

-----------------------------------------------------------------------------
Recoveries == [phase : {"none", "prepared", "applying", "cleanup"}, reset : BOOLEAN,
               dels : SUBSET Items, todo : SUBSET Items, src : [Files -> Contents],
               sealed : BOOLEAN, files : [Files -> Contents], fin : BOOLEAN]
Places == {"idle", "starting", "preflight", "confirming", "scanning", "admitting", "resetting",
           "deletes", "deleting", "copies", "writing", "transferred", "publishing",
           "receipt", "finishing"}

TypeOK ==
  /\ direction \in {"from_local", "from_remote"} /\ excluded \subseteq Files
  /\ watching \in BOOLEAN
  /\ {local, remote, base} \subseteq [Files -> Contents]
  /\ canon \in [gen : {"old", "none", "force", "new"}, files : [Files -> Contents],
                rev : 0 .. 3 + MaxEdit]
  /\ {queue, saved} \subseteq [Files -> Events]
  /\ {st, disk} \subseteq Recoveries /\ held \in BOOLEAN
  /\ run \in [pc : Places, left : SUBSET Items, item : Items, got : Contents,
             err : BOOLEAN]
  /\ outcome \in {"none", "cancelled", "failed", "recovery-pending", "success"}
  /\ kept \in [Files -> Contents \cup {Untouched}]
  /\ {unseen, foreign, hidden} \subseteq SUBSET Files
  /\ used \in [edits : 0 .. MaxEdit, faults : 0 .. MaxFault]

\* What the user does to a file after the boundary of a Force from the
\* remote survives it, whatever fails (hasLocalChanges before every deletion
\* and every copy), as long as the queue has an event of it.  A change has
\* none when a queued rename has absorbed it, when it was made between two
\* sessions with the watcher off, and when the plugin stopped before the
\* queue was saved.
LateEditsSurvive ==
  direction = "from_remote" =>
    \A f \in Files \ unseen : kept[f] # Untouched => local[f] = kept[f]

\* A file the saved checkpoint records, and has not to delete first, is on the
\* disk with that content: a restart publishes records it does not look at
\* again.
RecordedIsStored ==
  \A f \in Files \ foreign : disk.files[f] # Nil =>
    \/ remote[f] = disk.files[f]
    \/ direction = "from_local" /\ \E p \in disk.dels : f \in Under(p)

\* The generation a Force publishes describes the disk: no file is missing
\* and nothing of the old side is left over.
CanonDescribesDisk ==
  canon.gen = "new" =>
    \A f \in Files \ (foreign \cup excluded) : canon.files[f] = remote[f]

\* The state is well formed, and what the checkpoint and the index of a Force
\* record is on the disk, through every failed call, save and restart.
RecordsConsistent == TypeOK /\ RecordedIsStored /\ CanonDescribesDisk

\* After a Force that succeeded every difference between the vault and the
\* new baseline has its event in the queue, changes without an event and
\* files that were written but not recorded aside.
NoEditForgotten ==
  outcome = "success" =>
    \A f \in Files \ (unseen \cup hidden \cup excluded) :
      local[f] # base[f] => IsLate(queue[f])

\* Once the receipt is saved nothing is replaced again and the index never
\* goes back (docs/FORCE_SYNC.md: a failure after the final publication
\* retains finalization progress).
CompletionNotReplayed ==
  [][disk.fin => /\ canon'.rev >= canon.rev
                 /\ sides' # sides => used'.edits > used.edits]_vars

\* A continuation never widens the admitted purge.
PurgeOnlyNarrows ==
  [][disk.phase # "none" =>
       \A p \in disk'.dels : \E q \in disk.dels : Under(p) \subseteq Under(q)]_vars

\* What a Force has done is neither done again nor widened by resuming it.
NeverReplayed == CompletionNotReplayed /\ PurgeOnlyNarrows

\* A Force never touches a file the settings exclude, on either side.
ExcludedStay ==
  [][\A f \in excluded :
       <<local[f], remote[f]>>' # <<local[f], remote[f]>> => used'.edits > used.edits]_vars

\* A file that is gone from the source while the disk holds bytes nobody has
\* verified and a checkpoint whose digest was never computed are never
\* settled; a removal in the queue keeps every session out until a restart.
Stranded ==
  \/ ~st.sealed
  \/ At("idle") /\ ~Admitted
  \/ /\ direction = "from_local"
     /\ \E f \in st.todo \cap Files : local[f] = Nil /\ remote[f] \notin {Nil, st.src[f]}

\* A saved Force is brought to its end by the sessions that resume it.
Finishes == []<>(~held \/ Stranded)

-----------------------------------------------------------------------------
(* What the documentation says and the code does not do.                   *)

\* docs/FORCE_SYNC.md:96, "New files and edited paths are retained".
EditsSurvive ==
  direction = "from_remote" =>
    \A f \in Files : kept[f] # Untouched => local[f] = kept[f]

\* The same of files that no rename in the queue names.
OrdinaryEditsSurvive ==
  direction = "from_remote" =>
    \A f \in Files : kept[f] # Untouched /\ queue[f] \notin {"rename", "source"}
                    => local[f] = kept[f]

\* docs/FORCE_SYNC.md:157, "Failure after final publication retains
\* finalization progress without replaying replacement."
PublishedOnce == [][canon.gen = "new" => canon'.rev >= canon.rev]_vars

\* docs/FORCE_SYNC.md:101, full sessions "resume a direct checkpoint".
SavedCanResume == disk.sealed
=============================================================================
