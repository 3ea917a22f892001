----------------------------- MODULE ForceProofs -----------------------------
(***************************************************************************)
(* Theorems about Force for every set of files, any number of changes,     *)
(* failures and restarts: what the user does after the boundary survives   *)
(* as long as the queue has an event of it,                                *)
(* excluded files are never touched, a resumed Force neither widens its    *)
(* purge nor does again what its receipt says is done, and the generation  *)
(* it publishes describes the remote folder and the vault it leaves: every *)
(* file waits for its copy, or is recorded as it is on both sides, or is   *)
(* covered by a deletion that will be done again.                          *)
(***************************************************************************)
EXTENDS Force, TLAPS

\* The fields of the records and the files of the functions; the counters.
Shape ==
  /\ DOMAIN st = DOMAIN NoForce /\ DOMAIN disk = DOMAIN NoForce
  /\ DOMAIN run = DOMAIN Idle
  /\ {DOMAIN local, DOMAIN remote, DOMAIN queue, DOMAIN saved, DOMAIN kept} = {Files}
  /\ excluded \subseteq Files
  /\ DOMAIN canon = {"gen", "files", "rev"} /\ canon.rev \in Nat
  /\ DOMAIN used = {"edits", "faults"} /\ used.edits \in Nat

Preparing == run.pc \in {"preflight", "confirming", "scanning", "admitting"}

\* A checkpoint is on the device exactly while the plugin holds it; before
\* that nothing is saved, and a run that has ended has nothing in memory.
Checkpoint ==
  IF held
  THEN disk.phase # "none" /\ st.phase # "none" /\ ~Preparing
  ELSE disk = NoForce /\ (Preparing \/ (run.pc = "idle" /\ st = NoForce))

\* No deletion and no copy that waits names an excluded file.
Spares(paths) == \A p \in paths : Under(p) \cap excluded = {}

Sparing ==
  /\ Spares(st.dels) /\ Spares(disk.dels)
  /\ st.todo \cap excluded = {} /\ disk.todo \cap excluded = {}
  /\ run.pc \in {"deletes", "deleting"} => Spares(run.left)
  /\ run.pc = "deleting" => Under(run.item) \cap excluded = {}
  /\ run.pc \in {"copies", "writing", "transferred"} => run.left \cap excluded = {}
  /\ run.pc = "writing" => run.item \in Files \ excluded

\* The purge in memory is within the saved one, and what a run has left of it
\* is part of it.
Within(a, b) == \A p \in a : \E q \in b : Under(p) \subseteq Under(q)
Narrowed ==
  /\ held => Within(st.dels, disk.dels)
  /\ run.pc \in {"deletes", "deleting"} => run.left \subseteq st.dels

\* Once the index is final nothing is left but the receipt and the end.
Final ==
  /\ disk.fin => st.fin
  /\ st.fin => held /\ run.pc \in {"receipt", "finishing", "idle", "starting"}

\* The queue has an event of every change of the user that is not unseen.
LateIsQueued ==
  \A f \in Files \ (unseen \cup excluded) :
     kept[f] # Untouched => IsLate(queue[f])

IInv == /\ Shape /\ Checkpoint /\ Sparing /\ Narrowed /\ Final
        /\ LateIsQueued /\ LateEditsSurvive
-----------------------------------------------------------------------------
\* What is there before a Force and between its runs.
LEMMA Nothing ==
  /\ NoForce.phase = "none" /\ NoForce.dels = {} /\ NoForce.todo = {}
  /\ NoForce.fin = FALSE
  /\ DOMAIN NoForce = {"phase", "reset", "dels", "todo", "src", "sealed", "files", "fin"}
  /\ Idle.pc = "idle" /\ DOMAIN Idle = {"pc", "left", "item", "got", "err"}
  BY DEF NoForce, Idle

LEMMA WithinItself ==
  ASSUME NEW a, NEW b, a \subseteq b
  PROVE  Within(a, b)
  BY DEF Within

LEMMA WithinFurther ==
  ASSUME NEW a, NEW b, NEW c, Within(a, b), Within(b, c)
  PROVE  Within(a, c)
  BY DEF Within

LEMMA UserChangesKeeps ==
  ASSUME IInv, NEW f \in Files, UserChanges(f)
  PROVE  IInv'
<1>1. Shape'
  BY DEF IInv, UserChanges, Shape, setup, config, recovery
<1>2. Checkpoint'
  BY DEF IInv, UserChanges, Checkpoint, Preparing, recovery
<1>3. Sparing'
  BY DEF IInv, UserChanges, Sparing, Spares, setup, config, recovery
<1>4. Narrowed'
  BY DEF IInv, UserChanges, Narrowed, recovery
<1>5. Final'
  BY DEF IInv, UserChanges, Final, recovery
<1>6. LateIsQueued'
  <2> SUFFICES ASSUME NEW g \in Files \ (unseen' \cup excluded'), kept'[g] # Untouched
               PROVE  IsLate(queue'[g])
    BY DEF LateIsQueued
  <2>1. CASE g = f
    BY <2>1 DEF UserChanges, setup, config
  <2>2. CASE g # f
    <3>1. kept'[g] = kept[g] /\ queue'[g] = queue[g] /\ g \notin unseen \cup excluded
      BY <2>2 DEF IInv, Shape, UserChanges, setup, config
    <3> QED
      BY <3>1 DEF IInv, LateIsQueued
  <2> QED
    BY <2>1, <2>2
<1>7. LateEditsSurvive'
  BY DEF IInv, UserChanges, Shape, Checkpoint, LateIsQueued, LateEditsSurvive, setup, config
<1> QED
  BY <1>1, <1>2, <1>3, <1>4, <1>5, <1>6, <1>7 DEF IInv

LEMMA DiskChangesKeeps ==
  ASSUME IInv, NEW f \in Files, DiskChanges(f)
  PROVE  IInv'
<1>1. Shape'
  BY DEF IInv, DiskChanges, Shape, setup, config, recovery
<1>2. Checkpoint'
  BY DEF IInv, DiskChanges, Checkpoint, Preparing, recovery
<1>3. Sparing'
  BY DEF IInv, DiskChanges, Sparing, Spares, setup, config, recovery
<1>4. Narrowed'
  BY DEF IInv, DiskChanges, Narrowed, recovery
<1>5. Final'
  BY DEF IInv, DiskChanges, Final, recovery
<1>6. LateIsQueued'
  BY DEF IInv, DiskChanges, LateIsQueued, setup, config
<1>7. LateEditsSurvive'
  BY DEF IInv, DiskChanges, LateEditsSurvive, setup, config
<1> QED
  BY <1>1, <1>2, <1>3, <1>4, <1>5, <1>6, <1>7 DEF IInv

LEMMA ForeignCommitsKeeps ==
  ASSUME IInv, NEW f \in Files, ForeignCommits(f)
  PROVE  IInv'
<1>1. Shape'
  BY DEF IInv, ForeignCommits, Shape, setup, config, recovery
<1>2. Checkpoint'
  BY DEF IInv, ForeignCommits, Checkpoint, Preparing, recovery
<1>3. Sparing'
  BY DEF IInv, ForeignCommits, Sparing, Spares, setup, config, recovery
<1>4. Narrowed'
  BY DEF IInv, ForeignCommits, Narrowed, recovery
<1>5. Final'
  BY DEF IInv, ForeignCommits, Final, recovery
<1>6. LateIsQueued'
  BY DEF IInv, ForeignCommits, LateIsQueued, setup, config
<1>7. LateEditsSurvive'
  BY DEF IInv, ForeignCommits, LateEditsSurvive, setup, config
<1> QED
  BY <1>1, <1>2, <1>3, <1>4, <1>5, <1>6, <1>7 DEF IInv

LEMMA OtherSaveKeeps ==
  ASSUME IInv, OtherSave
  PROVE  IInv'
<1>1. Shape'
  BY DEF IInv, OtherSave, Shape, setup, config, sides, ghosts
<1>2. Checkpoint'
  BY DEF IInv, OtherSave, Checkpoint, Preparing
<1>3. Sparing'
  BY DEF IInv, OtherSave, Sparing, Spares, setup, config
<1>4. Narrowed'
  BY DEF IInv, OtherSave, Narrowed, Within
<1>5. Final'
  BY DEF IInv, OtherSave, Final
<1>6. LateIsQueued'
  BY DEF IInv, OtherSave, LateIsQueued, setup, config, ghosts
<1>7. LateEditsSurvive'
  BY DEF IInv, OtherSave, LateEditsSurvive, setup, config, sides, ghosts
<1> QED
  BY <1>1, <1>2, <1>3, <1>4, <1>5, <1>6, <1>7 DEF IInv

LEMMA SwitchWatchingKeeps ==
  ASSUME IInv, SwitchWatching
  PROVE  IInv'
<1>1. /\ UNCHANGED <<direction, excluded, local, remote, canon, queue, st, held>>
      /\ UNCHANGED <<disk, saved, run, kept, unseen, hidden, used>>
  BY DEF SwitchWatching, config, sides, recovery, ghosts
<1>2. Shape' /\ Checkpoint' /\ Final'
  BY <1>1 DEF IInv, Shape, Checkpoint, Preparing, Final
<1>3. Sparing' /\ Narrowed'
  BY <1>1 DEF IInv, Sparing, Spares, Narrowed
<1>4. LateIsQueued' /\ LateEditsSurvive'
  BY <1>1 DEF IInv, LateIsQueued, LateEditsSurvive
<1> QED
  BY <1>2, <1>3, <1>4 DEF IInv

LEMMA RestartKeeps ==
  ASSUME IInv, Restart
  PROVE  IInv'
<1>1. Shape'
  BY DEF IInv, Restart, Shape, Ok, setup, config, sides
<1>2. Checkpoint'
  BY Nothing DEF IInv, Restart, Checkpoint, Preparing
<1>3. Sparing'
  BY Nothing DEF IInv, Restart, Sparing, Spares, setup, config
<1>4. Narrowed'
  BY Nothing DEF IInv, Restart, Narrowed, Within
<1>5. Final'
  BY Nothing DEF IInv, Restart, Final
<1>6. LateIsQueued'
  BY DEF IInv, Restart, LateIsQueued, setup, config
<1>7. LateEditsSurvive'
  BY DEF IInv, Restart, LateEditsSurvive, setup, config, sides
<1> QED
  BY <1>1, <1>2, <1>3, <1>4, <1>5, <1>6, <1>7 DEF IInv

LEMMA BeginKeeps ==
  ASSUME IInv, Begin
  PROVE  IInv'
<1>1. Shape'
  BY DEF IInv, Begin, Shape, Go, setup, config, sides, recovery, ghosts
<1>2. Checkpoint'
  BY Nothing DEF IInv, Begin, Checkpoint, Preparing, Go, recovery
<1>3. Sparing'
  BY DEF IInv, Begin, Sparing, Spares, Go, setup, config, recovery
<1>4. Narrowed'
  BY DEF IInv, Begin, Narrowed, Go, recovery
<1>5. Final'
  BY Nothing DEF IInv, Begin, Final, recovery
<1>6. LateIsQueued'
  BY DEF IInv, Begin, LateIsQueued, setup, config, ghosts
<1>7. LateEditsSurvive'
  BY DEF IInv, Begin, LateEditsSurvive, setup, config, sides, ghosts
<1> QED
  BY <1>1, <1>2, <1>3, <1>4, <1>5, <1>6, <1>7 DEF IInv

LEMMA PrepareKeeps ==
  ASSUME IInv, Prepare
  PROVE  IInv'
<1>1. Shape'
  BY DEF IInv, Prepare, Shape, Go, setup, config, sides
<1>2. Checkpoint'
  BY DEF IInv, Prepare, Checkpoint, Preparing, At, Go
<1>3. Sparing'
  BY DEF IInv, Prepare, Checkpoint, Preparing, Sparing, Spares, At, Go, setup, config
<1>4. Narrowed'
  BY DEF IInv, Prepare, Checkpoint, Preparing, Narrowed, At, Go
<1>5. Final'
  BY DEF IInv, Prepare, Checkpoint, Preparing, Final, At
<1>6. LateIsQueued'
  BY DEF IInv, Prepare, LateIsQueued
<1>7. LateEditsSurvive'
  BY DEF IInv, Prepare, LateEditsSurvive
<1> QED
  BY <1>1, <1>2, <1>3, <1>4, <1>5, <1>6, <1>7 DEF IInv

LEMMA CancelKeeps ==
  ASSUME IInv, Cancel
  PROVE  IInv'
<1>1. Shape'
  BY DEF IInv, Cancel, Shape, setup, config, sides, ghosts
<1>2. Checkpoint'
  BY Nothing DEF IInv, Cancel, Checkpoint, Preparing
<1>3. Sparing'
  BY Nothing DEF IInv, Cancel, Sparing, Spares, setup, config
<1>4. Narrowed'
  BY Nothing DEF IInv, Cancel, Narrowed, Within
<1>5. Final'
  BY Nothing DEF IInv, Cancel, Final
<1>6. LateIsQueued'
  BY DEF IInv, Cancel, LateIsQueued, setup, config, ghosts
<1>7. LateEditsSurvive'
  BY DEF IInv, Cancel, LateEditsSurvive, setup, config, sides, ghosts
<1> QED
  BY <1>1, <1>2, <1>3, <1>4, <1>5, <1>6, <1>7 DEF IInv

LEMMA ConfirmKeeps ==
  ASSUME IInv, Confirm
  PROVE  IInv'
<1>1. Shape'
  BY DEF IInv, Confirm, Shape, Ok, Go, End, setup, config, sides, recovery, ghosts
<1>2. Checkpoint'
  BY Nothing DEF IInv, Confirm, Checkpoint, Preparing, At, Go, End, Shape
<1>3. Sparing'
  BY Nothing DEF IInv, Confirm, Shape, Sparing, Spares, Go, End, setup, config
<1>4. Narrowed'
  BY Nothing DEF IInv, Confirm, Shape, Checkpoint, Preparing, Narrowed, At, Go, End
<1>5. Final'
  BY Nothing DEF IInv, Confirm, Shape, Checkpoint, Preparing, Final, At, Go, End
<1>6. LateIsQueued'
  BY DEF IInv, Confirm, LateIsQueued, setup, config, ghosts
<1>7. LateEditsSurvive'
  BY DEF IInv, Confirm, LateEditsSurvive, setup, config, sides, ghosts
<1> QED
  BY <1>1, <1>2, <1>3, <1>4, <1>5, <1>6, <1>7 DEF IInv

LEMMA ScanKeeps ==
  ASSUME IInv, Scan
  PROVE  IInv'
<1>1. Shape'
  BY DEF IInv, Scan, Shape, Go, Ok, End, setup, config, sides, ghosts
<1>2. Checkpoint'
  BY Nothing DEF IInv, Scan, Shape, Checkpoint, Preparing, At, Go, End
<1>3. Sparing'
  <2>1. (Selected(Source) \cup {Folder}) \cap excluded = {}
    BY ForceAssumption DEF IInv, Shape, Selected
  <2>2. /\ Spares(st'.dels) /\ disk' = disk /\ excluded' = excluded
        /\ st'.todo \subseteq Selected(Source) \cup {Folder}
        /\ run'.pc \in {"admitting", "idle"}
    BY Nothing DEF IInv, Shape, Sparing, Spares, Scan, Go, End, setup, config
  <2> QED
    BY <2>1, <2>2 DEF IInv, Sparing, Spares
<1>4. Narrowed'
  BY Nothing DEF IInv, Scan, Shape, Narrowed, Within, Go, End
<1>5. Final'
  <2>1. run.pc = "scanning" /\ ~held /\ ~disk.fin /\ ~st.fin
    BY Nothing DEF IInv, Scan, Checkpoint, Preparing, Final, At
  <2>2. disk' = disk /\ (st' = NoForce \/ \E s, t : st' = [st EXCEPT !.src = s, !.todo = t])
    BY DEF Scan
  <2>3. ~disk'.fin /\ ~st'.fin
    BY <2>1, <2>2, Nothing DEF IInv, Shape
  <2> QED
    BY <2>3 DEF Final
<1>6. LateIsQueued'
  BY DEF IInv, Scan, LateIsQueued, setup, config, ghosts
<1>7. LateEditsSurvive'
  BY DEF IInv, Scan, LateEditsSurvive, setup, config, sides, ghosts
<1> QED
  BY <1>1, <1>2, <1>3, <1>4, <1>5, <1>6, <1>7 DEF IInv

LEMMA AdmitKeeps ==
  ASSUME IInv, Admit
  PROVE  IInv'
<1>1. \/ /\ st' = [st EXCEPT !.phase = "applying", !.dels = DeletePlan(Destination)]
         /\ disk' = st' /\ held' = TRUE
         /\ run' = [run EXCEPT !.pc = "resetting"]
      \/ st' = NoForce /\ run' = Idle /\ UNCHANGED <<held, disk>>
  BY DEF Admit, Go, End
<1>2. \/ /\ DOMAIN st' = DOMAIN st /\ st'.phase = "applying"
         /\ st'.dels = DeletePlan(Destination) /\ st'.todo = st.todo /\ st'.fin = st.fin
         /\ disk' = st' /\ held' = TRUE
         /\ run' = [run EXCEPT !.pc = "resetting"]
      \/ st' = NoForce /\ run' = Idle /\ UNCHANGED <<held, disk>>
  <2>1. DOMAIN st = DOMAIN NoForce
    BY DEF IInv, Shape
  <2>2. CASE st' = [st EXCEPT !.phase = "applying", !.dels = DeletePlan(Destination)]
    <3>1. /\ DOMAIN st' = DOMAIN st /\ st'.phase = "applying"
          /\ st'.dels = DeletePlan(Destination) /\ st'.todo = st.todo /\ st'.fin = st.fin
      BY <2>1, <2>2, Nothing
    <3> QED
      BY <1>1, <3>1
  <2> QED
    BY <1>1, <2>2
<1>3. /\ run.pc = "admitting"
      /\ UNCHANGED <<direction, excluded, local, remote, canon, queue, kept, unseen, hidden>>
      /\ saved' = queue \/ saved' = saved
  BY DEF Admit, At, setup, config, sides, ghosts
<1>4. DOMAIN used' = DOMAIN used /\ used'.edits = used.edits
  BY DEF IInv, Shape, Admit, Ok
<1>5. Spares(DeletePlan(Destination))
  BY ForceAssumption DEF IInv, Spares, DeletePlan, Selected, Present, Under
<1>6. Shape'
  BY <1>2, <1>3, <1>4, Nothing DEF IInv, Shape
<1>7. Checkpoint'
  BY <1>2, <1>3, Nothing DEF IInv, Shape, Checkpoint, Preparing
<1>8. Sparing'
  BY <1>2, <1>3, <1>5, Nothing DEF IInv, Shape, Sparing, Spares
<1>9. Narrowed'
  BY <1>2, Nothing, WithinItself DEF IInv, Shape, Narrowed
<1>10. Final'
  BY <1>2, <1>3 DEF IInv, Checkpoint, Preparing, Final
<1>11. LateIsQueued'
  BY <1>3, Nothing DEF IInv, Shape, LateIsQueued
<1>12. LateEditsSurvive'
  BY <1>3 DEF IInv, LateEditsSurvive
<1> QED
  BY <1>6, <1>7, <1>8, <1>9, <1>10, <1>11, <1>12 DEF IInv

LEMMA ResumeKeeps ==
  ASSUME IInv, Resume
  PROVE  IInv'
<1>1. Shape'
  BY Nothing DEF IInv, Resume, Shape, Ok, setup, config, sides, ghosts
<1>2. Checkpoint'
  BY Nothing DEF IInv, Resume, Shape, Checkpoint, Preparing
<1>3. Sparing'
  BY Nothing DEF IInv, Resume, Shape, Sparing, Spares, setup, config
<1>4. Narrowed'
  BY Nothing, WithinItself DEF IInv, Resume, Shape, Narrowed
<1>5. Final'
  BY Nothing DEF IInv, Resume, Shape, Checkpoint, Preparing, Final
<1>6. LateIsQueued'
  BY DEF IInv, Resume, LateIsQueued, setup, config, ghosts
<1>7. LateEditsSurvive'
  BY DEF IInv, Resume, LateEditsSurvive, setup, config, sides, ghosts
<1> QED
  BY <1>1, <1>2, <1>3, <1>4, <1>5, <1>6, <1>7 DEF IInv

LEMMA ResetKeeps ==
  ASSUME IInv, Reset
  PROVE  IInv'
<1>1. Shape'
  BY DEF IInv, Reset, Shape, Ok, Persist, Maintenance, NoCanon, setup, config, sides,
      recovery, ghosts
<1>2. Checkpoint'
  BY Nothing DEF IInv, Reset, Shape, Checkpoint, Preparing, At, Persist, recovery
<1>3. Sparing'
  BY Nothing DEF IInv, Reset, Shape, Sparing, Spares, Persist, setup, config, recovery
<1>4. Narrowed'
  BY Nothing DEF IInv, Reset, Shape, Narrowed, Within, Persist, recovery
<1>5. Final'
  BY Nothing DEF IInv, Reset, Shape, Final, At, Persist, recovery
<1>6. LateIsQueued'
  BY DEF IInv, Reset, LateIsQueued, setup, config, ghosts
<1>7. LateEditsSurvive'
  BY DEF IInv, Reset, LateEditsSurvive, setup, config, sides, ghosts
<1> QED
  BY <1>1, <1>2, <1>3, <1>4, <1>5, <1>6, <1>7 DEF IInv

LEMMA NarrowDeleteKeeps ==
  ASSUME IInv, NEW p \in Items, NarrowDelete(p)
  PROVE  IInv'
<1>0. /\ \/ UNCHANGED <<st, held, disk, saved>> /\ run'.left = run.left \ {p}
         \/ /\ run'.left = (run.left \ {p}) \cup Narrow(p)
            /\ st' = [st EXCEPT !.dels = (@ \ {p}) \cup Narrow(p)]
            /\ held' = held /\ disk' \in {st', disk} /\ saved' \in {queue, saved}
      /\ run.pc = "deletes" /\ run'.pc = "deletes" /\ DOMAIN run' = DOMAIN run
  <2>1. PICK r : /\ IF r = "unsent" THEN UNCHANGED recovery
                    ELSE Persist([st EXCEPT !.dels = (@ \ {p}) \cup Narrow(p)], r = "saved")
                 /\ run' = [run EXCEPT !.left = (@ \ {p})
                                               \cup (IF r = "unsent" THEN {} ELSE Narrow(p)),
                                       !.err = @ \/ r # "saved"]
    BY DEF NarrowDelete
  <2>2. /\ run.pc = "deletes" /\ run'.pc = "deletes" /\ DOMAIN run' = DOMAIN run
        /\ run'.left = (run.left \ {p}) \cup (IF r = "unsent" THEN {} ELSE Narrow(p))
    BY <2>1, Nothing DEF IInv, Shape, NarrowDelete, At
  <2>3. CASE r = "unsent"
    BY <2>1, <2>2, <2>3 DEF recovery
  <2>4. CASE r # "unsent"
    BY <2>1, <2>2, <2>4 DEF Persist
  <2> QED
    BY <2>3, <2>4
<1>1. Shape'
  BY <1>0, Nothing DEF IInv, NarrowDelete, Shape, Ok, setup, config, sides, ghosts
<1>2. Checkpoint'
  BY <1>0, Nothing DEF IInv, Shape, Checkpoint, Preparing
<1>3. Sparing'
  BY <1>0, Nothing DEF IInv, NarrowDelete, Shape, Sparing, Spares, Narrow, Under, setup, config
<1>4. Narrowed'
  <2>1. p \in st.dels /\ run.left \subseteq st.dels
    BY DEF IInv, Narrowed, NarrowDelete, At
  <2>2. Within(st'.dels, st.dels) /\ run'.left \subseteq st'.dels
    <3>1. \/ st' = st /\ run'.left = run.left \ {p}
          \/ /\ st'.dels = (st.dels \ {p}) \cup Narrow(p)
             /\ run'.left = (run.left \ {p}) \cup Narrow(p)
      BY <1>0, Nothing DEF IInv, Shape
    <3>2. CASE st' = st /\ run'.left = run.left \ {p}
      BY <2>1, <3>2 DEF Within
    <3>3. CASE /\ st'.dels = (st.dels \ {p}) \cup Narrow(p)
               /\ run'.left = (run.left \ {p}) \cup Narrow(p)
      BY <2>1, <3>3 DEF Within, Narrow, Under
    <3> QED
      BY <3>1, <3>2, <3>3
  <2>3. held => Within(st'.dels, disk.dels)
    BY <2>2, WithinFurther DEF IInv, Narrowed
  <2>4. held => Within(st'.dels, disk'.dels)
    BY <1>0, <2>3, WithinItself
  <2> QED
    BY <1>0, <2>2, <2>4 DEF Narrowed
<1>5. Final'
  BY <1>0, Nothing DEF IInv, Shape, Final
<1>6. LateIsQueued'
  BY DEF IInv, NarrowDelete, LateIsQueued, setup, config, ghosts
<1>7. LateEditsSurvive'
  BY DEF IInv, NarrowDelete, LateEditsSurvive, sides, ghosts
<1> QED
  BY <1>1, <1>2, <1>3, <1>4, <1>5, <1>6, <1>7 DEF IInv

LEMMA PrepareDeleteKeeps ==
  ASSUME IInv, NEW p \in Items, PrepareDelete(p)
  PROVE  IInv'
<1>1. Shape'
  BY DEF IInv, PrepareDelete, Shape, Ok, Persist, Requeued, setup, config, sides, ghosts
<1>2. Checkpoint'
  BY DEF IInv, PrepareDelete, Checkpoint, Preparing, At, Persist, Requeued
<1>3. Sparing'
  BY DEF IInv, PrepareDelete, Shape, Sparing, Spares, At, Persist, Requeued, Under,
      setup, config
<1>4. Narrowed'
  BY DEF IInv, PrepareDelete, Narrowed, Within, At, Persist, Requeued
<1>5. Final'
  BY DEF IInv, PrepareDelete, Final, At, Persist, Requeued
<1>6. LateIsQueued'
  BY DEF IInv, PrepareDelete, LateIsQueued, setup, config, ghosts
<1>7. LateEditsSurvive'
  BY DEF IInv, PrepareDelete, LateEditsSurvive, setup, config, sides, ghosts
<1> QED
  BY <1>1, <1>2, <1>3, <1>4, <1>5, <1>6, <1>7 DEF IInv

LEMMA DeleteKeeps ==
  ASSUME IInv, Delete
  PROVE  IInv'
<1>1. Shape'
  BY DEF IInv, Delete, Shape, Ok, Persist, Cleared, setup, config, sides, recovery, ghosts
<1>2. Checkpoint'
  BY Nothing DEF IInv, Delete, Shape, Checkpoint, Preparing, At, Persist, recovery
<1>3. Sparing'
  BY Nothing DEF IInv, Delete, Shape, Sparing, Spares, At, Persist, setup, config, recovery
<1>4. Narrowed'
  <2>1. /\ held' = held
        /\ st'.dels = st.dels \/ st'.dels = st.dels \ {run.item}
        /\ disk' = st' \/ disk' = disk
        /\ run'.pc = "deletes" /\ run'.left = run.left \ {run.item}
        /\ run.left \subseteq st.dels
    BY Nothing DEF IInv, Shape, Narrowed, Delete, At, Persist, recovery
  <2>2. Within(st'.dels, st.dels)
    BY <2>1, WithinItself
  <2> QED
    BY <2>1, WithinItself, WithinFurther DEF IInv, Narrowed
<1>5. Final'
  BY Nothing DEF IInv, Delete, Shape, Final, At, Persist, recovery
<1>6. LateIsQueued'
  BY DEF IInv, Delete, LateIsQueued, setup, config, ghosts
<1>7. LateEditsSurvive'
  BY DEF IInv, Delete, Sparing, LateIsQueued, LateEditsSurvive, At, Cleared, Late,
      setup, config, sides, ghosts
<1> QED
  BY <1>1, <1>2, <1>3, <1>4, <1>5, <1>6, <1>7 DEF IInv

LEMMA EndDeletesKeeps ==
  ASSUME IInv, EndDeletes
  PROVE  IInv'
<1>1. Shape'
  BY DEF IInv, EndDeletes, Shape, Ok, Persist, setup, config, sides, ghosts
<1>2. Checkpoint'
  BY DEF IInv, EndDeletes, Checkpoint, Preparing, At, Persist
<1>3. Sparing'
  BY DEF IInv, EndDeletes, Sparing, Spares, Persist, setup, config
<1>4. Narrowed'
  BY DEF IInv, EndDeletes, Narrowed, Within, Persist
<1>5. Final'
  BY DEF IInv, EndDeletes, Final, At, Persist
<1>6. LateIsQueued'
  BY DEF IInv, EndDeletes, LateIsQueued, setup, config, ghosts
<1>7. LateEditsSurvive'
  BY DEF IInv, EndDeletes, LateEditsSurvive, setup, config, sides, ghosts
<1> QED
  BY <1>1, <1>2, <1>3, <1>4, <1>5, <1>6, <1>7 DEF IInv

LEMMA CreateFolderKeeps ==
  ASSUME IInv, CreateFolder
  PROVE  IInv'
<1>0. /\ \/ UNCHANGED <<st, held, disk, saved>>
         \/ /\ st' = [st EXCEPT !.todo = @ \ {Folder}]
            /\ held' = held /\ disk' \in {st', disk} /\ saved' \in {queue, saved}
      /\ run.pc = "copies" /\ run'.pc = "copies" /\ DOMAIN run' = DOMAIN run
      /\ run'.left = run.left \ {Folder}
  BY DEF IInv, Shape, CreateFolder, At, Persist, recovery
<1>1. Shape'
  BY <1>0, Nothing DEF IInv, CreateFolder, Shape, Ok, setup, config, sides, ghosts
<1>2. Checkpoint'
  BY <1>0, Nothing DEF IInv, Shape, Checkpoint, Preparing
<1>3. Sparing'
  BY <1>0, Nothing DEF IInv, CreateFolder, Shape, Sparing, Spares, setup, config
<1>4. Narrowed'
  BY <1>0, Nothing DEF IInv, Shape, Narrowed, Within
<1>5. Final'
  BY <1>0, Nothing DEF IInv, Shape, Final
<1>6. LateIsQueued'
  BY DEF IInv, CreateFolder, LateIsQueued, setup, config, ghosts
<1>7. LateEditsSurvive'
  BY DEF IInv, CreateFolder, LateEditsSurvive, setup, config, sides, ghosts
<1> QED
  BY <1>1, <1>2, <1>3, <1>4, <1>5, <1>6, <1>7 DEF IInv

LEMMA UploadKeeps ==
  ASSUME IInv, NEW f \in Files, Upload(f)
  PROVE  IInv'
<1>1. /\ run.pc = "copies"
      /\ \/ /\ run' = [run EXCEPT !.pc = "transferred", !.item = f, !.got = Nil]
            /\ \E s, b : st' = [st EXCEPT !.src = s, !.sealed = b]
            /\ UNCHANGED <<held, disk, saved>>
         \/ /\ \E e : run' = [run EXCEPT !.pc = "copies", !.left = @ \ {f}, !.got = Nil,
                                        !.err = e]
            /\ UNCHANGED recovery
  BY DEF Upload, File, At, Transferred, Skip
<1>2. run'.pc \in {"copies", "transferred"} /\ run'.left \subseteq run.left
  <2>1. run'.pc \in {"copies", "transferred"}
    BY <1>1, Nothing DEF IInv, Shape
  <2>2. run'.left = run.left \/ run'.left = run.left \ {f}
    BY <1>1, Nothing DEF IInv, Shape
  <2> QED
    BY <2>1, <2>2
<1>3. /\ st'.dels = st.dels /\ st'.todo = st.todo /\ st'.fin = st.fin
      /\ st'.phase = st.phase /\ disk' = disk /\ held' = held
  <2>1. DOMAIN st = DOMAIN NoForce
    BY DEF IInv, Shape
  <2>2. /\ disk' = disk /\ held' = held
        /\ st' = st \/ \E s, b : st' = [st EXCEPT !.src = s, !.sealed = b]
    BY <1>1 DEF recovery
  <2> QED
    BY <2>1, <2>2, Nothing
<1>4. UNCHANGED <<excluded, queue, kept, unseen, hidden>>
  BY DEF Upload, setup, config, ghosts
<1>5. Shape'
  BY DEF IInv, Upload, Shape, Ok, Transferred, Skip, setup, config, recovery
<1>6. Checkpoint'
  BY <1>1, <1>2, <1>3 DEF IInv, Checkpoint, Preparing
<1>7. Sparing'
  BY <1>1, <1>2, <1>3, <1>4 DEF IInv, Sparing, Spares
<1>8. Narrowed'
  BY <1>2, <1>3 DEF IInv, Narrowed
<1>9. Final'
  BY <1>1, <1>3 DEF IInv, Final
<1>10. LateIsQueued'
  BY <1>4, Nothing DEF IInv, Shape, LateIsQueued
<1>11. LateEditsSurvive'
  BY DEF IInv, Upload, LateEditsSurvive, setup, config
<1> QED
  BY <1>5, <1>6, <1>7, <1>8, <1>9, <1>10, <1>11 DEF IInv

LEMMA RecoverKeeps ==
  ASSUME IInv, NEW f \in Files, Recover(f)
  PROVE  IInv'
<1>1. /\ run.pc = "copies"
      /\ \/ /\ run' = [run EXCEPT !.pc = "transferred", !.item = f, !.got = Nil]
            /\ \E s, b : st' = [st EXCEPT !.src = s, !.sealed = b]
            /\ UNCHANGED <<held, disk, saved>>
         \/ /\ \E e : run' = [run EXCEPT !.pc = "copies", !.left = @ \ {f}, !.got = Nil,
                                        !.err = e]
            /\ UNCHANGED recovery
  BY DEF Recover, File, At, Transferred, Skip
<1>2. run'.pc \in {"copies", "transferred"} /\ run'.left \subseteq run.left
  <2>1. run'.pc \in {"copies", "transferred"}
    BY <1>1, Nothing DEF IInv, Shape
  <2>2. run'.left = run.left \/ run'.left = run.left \ {f}
    BY <1>1, Nothing DEF IInv, Shape
  <2> QED
    BY <2>1, <2>2
<1>3. /\ st'.dels = st.dels /\ st'.todo = st.todo /\ st'.fin = st.fin
      /\ st'.phase = st.phase /\ disk' = disk /\ held' = held
  <2>1. DOMAIN st = DOMAIN NoForce
    BY DEF IInv, Shape
  <2>2. /\ disk' = disk /\ held' = held
        /\ st' = st \/ \E s, b : st' = [st EXCEPT !.src = s, !.sealed = b]
    BY <1>1 DEF recovery
  <2> QED
    BY <2>1, <2>2, Nothing
<1>4. UNCHANGED <<excluded, queue, kept, unseen, hidden>>
  BY DEF Recover, setup, config, ghosts
<1>5. Shape'
  BY DEF IInv, Recover, Shape, Transferred, Skip, setup, config, sides, recovery, ghosts
<1>6. Checkpoint'
  BY <1>1, <1>2, <1>3 DEF IInv, Checkpoint, Preparing
<1>7. Sparing'
  BY <1>1, <1>2, <1>3, <1>4 DEF IInv, Sparing, Spares
<1>8. Narrowed'
  BY <1>2, <1>3 DEF IInv, Narrowed
<1>9. Final'
  BY <1>1, <1>3 DEF IInv, Final
<1>10. LateIsQueued'
  BY <1>4, Nothing DEF IInv, Shape, LateIsQueued
<1>11. LateEditsSurvive'
  BY DEF IInv, Recover, LateEditsSurvive, setup, config
<1> QED
  BY <1>5, <1>6, <1>7, <1>8, <1>9, <1>10, <1>11 DEF IInv

LEMMA DownloadKeeps ==
  ASSUME IInv, NEW f \in Files, Download(f)
  PROVE  IInv'
<1>1. /\ run.pc = "copies" /\ f \in run.left
      /\ \/ /\ run' = [run EXCEPT !.pc = "transferred", !.item = f, !.got = Nil]
            /\ \E s, b : st' = [st EXCEPT !.src = s, !.sealed = b]
            /\ UNCHANGED <<held, disk, saved>>
         \/ /\ \E v : run' = [run EXCEPT !.pc = "writing", !.item = f, !.got = v]
            /\ UNCHANGED recovery
         \/ /\ \E e : run' = [run EXCEPT !.pc = "copies", !.left = @ \ {f}, !.got = Nil,
                                        !.err = e]
            /\ UNCHANGED recovery
  BY DEF Download, File, At, Transferred, Skip
<1>2. /\ run'.pc \in {"copies", "writing", "transferred"} /\ run'.left \subseteq run.left
      /\ run'.pc = "writing" => run'.item = f
  <2>1. /\ run'.pc \in {"copies", "writing", "transferred"}
        /\ run'.pc = "writing" => run'.item = f
    BY <1>1, Nothing DEF IInv, Shape
  <2>2. run'.left = run.left \/ run'.left = run.left \ {f}
    BY <1>1, Nothing DEF IInv, Shape
  <2> QED
    BY <2>1, <2>2
<1>3. /\ st'.dels = st.dels /\ st'.todo = st.todo /\ st'.fin = st.fin
      /\ st'.phase = st.phase /\ disk' = disk /\ held' = held
  <2>1. DOMAIN st = DOMAIN NoForce
    BY DEF IInv, Shape
  <2>2. /\ disk' = disk /\ held' = held
        /\ st' = st \/ \E s, b : st' = [st EXCEPT !.src = s, !.sealed = b]
    BY <1>1 DEF recovery
  <2> QED
    BY <2>1, <2>2, Nothing
<1>4. UNCHANGED <<excluded, queue, kept, unseen, hidden>>
  BY DEF Download, setup, config, ghosts
<1>5. Shape'
  BY DEF IInv, Download, Shape, Ok, Transferred, Skip, setup, config, sides, recovery, ghosts
<1>6. Checkpoint'
  BY <1>1, <1>2, <1>3 DEF IInv, Checkpoint, Preparing
<1>7. Sparing'
  BY <1>1, <1>2, <1>3, <1>4 DEF IInv, Sparing, Spares
<1>8. Narrowed'
  BY <1>2, <1>3 DEF IInv, Narrowed
<1>9. Final'
  BY <1>1, <1>3 DEF IInv, Final
<1>10. LateIsQueued'
  BY <1>4, Nothing DEF IInv, Shape, LateIsQueued
<1>11. LateEditsSurvive'
  BY DEF IInv, Download, LateEditsSurvive, setup, config, sides, ghosts
<1> QED
  BY <1>5, <1>6, <1>7, <1>8, <1>9, <1>10, <1>11 DEF IInv

LEMMA WriteKeeps ==
  ASSUME IInv, Write
  PROVE  IInv'
<1> DEFINE f == run.item
<1>1. /\ run.pc = "writing" /\ f \in Files \ excluded
      /\ \/ /\ run' = [run EXCEPT !.pc = "transferred", !.item = f, !.got = Nil]
            /\ \E s, b : st' = [st EXCEPT !.src = s, !.sealed = b]
            /\ UNCHANGED <<held, disk, saved>>
         \/ /\ \E e : run' = [run EXCEPT !.pc = "copies", !.left = @ \ {f}, !.got = Nil,
                                        !.err = e]
            /\ UNCHANGED recovery
  BY DEF IInv, Sparing, Write, At, Transferred, Skip
<1>2. run'.pc \in {"copies", "transferred"} /\ run'.left \subseteq run.left
  <2>1. run'.pc \in {"copies", "transferred"}
    BY <1>1, Nothing DEF IInv, Shape
  <2>2. run'.left = run.left \/ run'.left = run.left \ {f}
    BY <1>1, Nothing DEF IInv, Shape
  <2> QED
    BY <2>1, <2>2
<1>3. /\ st'.dels = st.dels /\ st'.todo = st.todo /\ st'.fin = st.fin
      /\ st'.phase = st.phase /\ disk' = disk /\ held' = held
  <2>1. DOMAIN st = DOMAIN NoForce
    BY DEF IInv, Shape
  <2>2. /\ disk' = disk /\ held' = held
        /\ st' = st \/ \E s, b : st' = [st EXCEPT !.src = s, !.sealed = b]
    BY <1>1 DEF recovery
  <2> QED
    BY <2>1, <2>2, Nothing
<1>4. UNCHANGED <<direction, excluded, queue, kept, unseen>>
  BY DEF Write, setup, config
<1>5. Shape'
  BY DEF IInv, Write, Shape, Ok, Transferred, Skip, setup, config, sides, recovery
<1>6. Checkpoint'
  BY <1>1, <1>2, <1>3 DEF IInv, Checkpoint, Preparing
<1>7. Sparing'
  BY <1>1, <1>2, <1>3, <1>4 DEF IInv, Sparing, Spares
<1>8. Narrowed'
  BY <1>2, <1>3 DEF IInv, Narrowed
<1>9. Final'
  BY <1>1, <1>3 DEF IInv, Final
<1>10. LateIsQueued'
  BY <1>4 DEF IInv, LateIsQueued
<1>11. LateEditsSurvive'
  <2>1. \/ local' = local
        \/ local' = [local EXCEPT ![f] = run.got] /\ ~Late(f)
    BY DEF Write, Sent
  <2>2. ~Late(f) => ~IsLate(queue[f])
    BY <1>1, ForceAssumption DEF Late, Under
  <2>3. ~Late(f) /\ f \notin unseen => kept[f] = Untouched
    BY <1>1, <2>2 DEF IInv, LateIsQueued
  <2>4. \A g \in Files \ unseen : kept[g] # Untouched => local'[g] = local[g]
    BY <2>1, <2>3 DEF IInv, Shape
  <2> QED
    BY <1>4, <2>4 DEF IInv, LateEditsSurvive
<1> QED
  BY <1>5, <1>6, <1>7, <1>8, <1>9, <1>10, <1>11 DEF IInv

LEMMA RetireKeeps ==
  ASSUME IInv, NEW f \in Files, Retire(f)
  PROVE  IInv'
<1>1. Shape'
  BY DEF IInv, Retire, Shape, Ok, Persist, Skip, setup, config, sides, ghosts
<1>2. Checkpoint'
  BY DEF IInv, Retire, Checkpoint, Preparing, File, At, Persist, Skip
<1>3. Sparing'
  BY DEF IInv, Retire, Shape, Sparing, Spares, File, At, Persist, Skip, setup, config
<1>4. Narrowed'
  BY DEF IInv, Retire, Narrowed, Within, Persist, Skip
<1>5. Final'
  BY DEF IInv, Retire, Shape, Final, File, At, Persist, Skip
<1>6. LateIsQueued'
  BY DEF IInv, Retire, LateIsQueued, setup, config, ghosts
<1>7. LateEditsSurvive'
  BY DEF IInv, Retire, LateEditsSurvive, setup, config, sides, ghosts
<1> QED
  BY <1>1, <1>2, <1>3, <1>4, <1>5, <1>6, <1>7 DEF IInv

LEMMA RecordKeeps ==
  ASSUME IInv, Record
  PROVE  IInv'
<1>1. Shape'
  BY DEF IInv, Record, Shape, Ok, Persist, setup, config, sides, ghosts
<1>2. Checkpoint'
  BY DEF IInv, Record, Checkpoint, Preparing, At, Persist
<1>3. Sparing'
  BY DEF IInv, Record, Sparing, Spares, At, Persist, setup, config
<1>4. Narrowed'
  BY DEF IInv, Record, Narrowed, Within, Persist
<1>5. Final'
  BY DEF IInv, Record, Final, At, Persist
<1>6. LateIsQueued'
  BY DEF IInv, Record, LateIsQueued, setup, config, ghosts
<1>7. LateEditsSurvive'
  BY DEF IInv, Record, LateEditsSurvive, setup, config, sides, ghosts
<1> QED
  BY <1>1, <1>2, <1>3, <1>4, <1>5, <1>6, <1>7 DEF IInv

LEMMA EndCopiesKeeps ==
  ASSUME IInv, EndCopies
  PROVE  IInv'
<1>1. Shape'
  BY DEF IInv, EndCopies, Shape, Ok, Persist, GoErr, setup, config, sides, ghosts
<1>2. Checkpoint'
  BY DEF IInv, EndCopies, Checkpoint, Preparing, At, Persist, GoErr
<1>3. Sparing'
  BY DEF IInv, EndCopies, Sparing, Spares, Persist, GoErr, setup, config
<1>4. Narrowed'
  BY DEF IInv, EndCopies, Narrowed, Within, Persist, GoErr
<1>5. Final'
  BY DEF IInv, EndCopies, Final, At, Persist
<1>6. LateIsQueued'
  BY DEF IInv, EndCopies, LateIsQueued, setup, config, ghosts
<1>7. LateEditsSurvive'
  BY DEF IInv, EndCopies, LateEditsSurvive, setup, config, sides, ghosts
<1> QED
  BY <1>1, <1>2, <1>3, <1>4, <1>5, <1>6, <1>7 DEF IInv

LEMMA PublishRemainderKeeps ==
  ASSUME IInv, PublishRemainder
  PROVE  IInv'
<1>1. Shape'
  BY DEF IInv, PublishRemainder, Shape, Ok, End, Maintenance, setup, config, sides, recovery,
      ghosts
<1>2. Checkpoint'
  BY Nothing DEF IInv, PublishRemainder, Checkpoint, Preparing, At, End, recovery
<1>3. Sparing'
  BY Nothing DEF IInv, PublishRemainder, Sparing, Spares, End, setup, config, recovery
<1>4. Narrowed'
  BY Nothing DEF IInv, PublishRemainder, Narrowed, End, recovery
<1>5. Final'
  BY Nothing DEF IInv, PublishRemainder, Final, End, recovery
<1>6. LateIsQueued'
  BY DEF IInv, PublishRemainder, LateIsQueued, setup, config, ghosts
<1>7. LateEditsSurvive'
  BY DEF IInv, PublishRemainder, LateEditsSurvive, setup, config, sides, ghosts
<1> QED
  BY <1>1, <1>2, <1>3, <1>4, <1>5, <1>6, <1>7 DEF IInv

LEMMA PublishFinalKeeps ==
  ASSUME IInv, PublishFinal
  PROVE  IInv'
<1>1. Shape'
  BY DEF IInv, PublishFinal, Shape, Ok, End, Go, setup, config, sides, ghosts
<1>2. Checkpoint'
  BY Nothing DEF IInv, PublishFinal, Shape, Checkpoint, Preparing, At, End, Go
<1>3. Sparing'
  BY Nothing DEF IInv, PublishFinal, Shape, Sparing, Spares, End, Go, setup, config
<1>4. Narrowed'
  BY Nothing DEF IInv, PublishFinal, Shape, Narrowed, End, Go
<1>5. Final'
  BY Nothing DEF IInv, PublishFinal, Shape, Checkpoint, Preparing, Final, At, End, Go
<1>6. LateIsQueued'
  BY DEF IInv, PublishFinal, LateIsQueued, setup, config, ghosts
<1>7. LateEditsSurvive'
  BY DEF IInv, PublishFinal, LateEditsSurvive, setup, config, sides, ghosts
<1> QED
  BY <1>1, <1>2, <1>3, <1>4, <1>5, <1>6, <1>7 DEF IInv

LEMMA SaveReceiptKeeps ==
  ASSUME IInv, SaveReceipt
  PROVE  IInv'
<1>1. Shape'
  BY DEF IInv, SaveReceipt, Shape, Ok, Persist, Go, End, setup, config, sides, ghosts
<1>2. Checkpoint'
  BY Nothing DEF IInv, SaveReceipt, Shape, Checkpoint, Preparing, At, Persist, Go, End
<1>3. Sparing'
  BY Nothing DEF IInv, SaveReceipt, Shape, Sparing, Spares, Persist, Go, End, setup, config
<1>4. Narrowed'
  BY Nothing DEF IInv, SaveReceipt, Shape, Narrowed, Within, Persist, Go, End
<1>5. Final'
  BY Nothing DEF IInv, SaveReceipt, Shape, Final, Persist, Go, End
<1>6. LateIsQueued'
  BY DEF IInv, SaveReceipt, LateIsQueued, setup, config, ghosts
<1>7. LateEditsSurvive'
  BY DEF IInv, SaveReceipt, LateEditsSurvive, setup, config, sides, ghosts
<1> QED
  BY <1>1, <1>2, <1>3, <1>4, <1>5, <1>6, <1>7 DEF IInv

LEMMA FinishKeeps ==
  ASSUME IInv, Finish
  PROVE  IInv'
<1>1. Shape'
  BY DEF IInv, Finish, Shape, Ok, End, setup, config, sides, recovery, ghosts
<1>2. Checkpoint'
  BY Nothing DEF IInv, Finish, Checkpoint, Preparing, At, End, recovery
<1>3. Sparing'
  BY Nothing DEF IInv, Finish, Sparing, Spares, End, setup, config, recovery
<1>4. Narrowed'
  BY Nothing DEF IInv, Finish, Narrowed, End, recovery
<1>5. Final'
  BY Nothing DEF IInv, Finish, Final, End, recovery
<1>6. LateIsQueued'
  <2>1. \A e : IsLate(e) => IsLate(Retired(e))
    BY DEF IsLate, Retired
  <2> QED
    BY <2>1 DEF IInv, Finish, LateIsQueued, setup, config, ghosts
<1>7. LateEditsSurvive'
  BY DEF IInv, Finish, LateEditsSurvive, setup, config, sides, ghosts
<1> QED
  BY <1>1, <1>2, <1>3, <1>4, <1>5, <1>6, <1>7 DEF IInv

LEMMA InitIInv == Init => IInv
<1> SUFFICES ASSUME Init PROVE IInv
  OBVIOUS
<1>1. /\ st = NoForce /\ disk = NoForce /\ run = Idle /\ held = FALSE
      /\ excluded \subseteq Files
      /\ {DOMAIN local, DOMAIN remote, DOMAIN queue, DOMAIN saved, DOMAIN kept} = {Files}
      /\ canon = [gen |-> "old", files |-> remote, rev |-> 1]
      /\ used = [edits |-> 0, faults |-> 0]
      /\ \A f \in Files : kept[f] = Untouched
  BY DEF Init
<1> QED
  BY <1>1, Nothing
  DEF IInv, Shape, Checkpoint, Sparing, Spares, Narrowed, Final, LateIsQueued,
      LateEditsSurvive

LEMMA StepIInv == IInv /\ [Next]_vars => IInv'
<1> SUFFICES ASSUME IInv, [Next]_vars PROVE IInv'
  OBVIOUS
<1>1. CASE Begin \/ Prepare \/ Cancel \/ Confirm \/ Resume
  BY <1>1, BeginKeeps, PrepareKeeps, CancelKeeps, ConfirmKeeps, ResumeKeeps
<1>2. CASE Scan \/ Admit \/ Reset
  BY <1>2, ScanKeeps, AdmitKeeps, ResetKeeps
<1>3. CASE DeleteStep
  BY <1>3, NarrowDeleteKeeps, PrepareDeleteKeeps, DeleteKeeps, EndDeletesKeeps
  DEF DeleteStep
<1>4. CASE CopyStep
  BY <1>4, CreateFolderKeeps, WriteKeeps, RecordKeeps, EndCopiesKeeps, UploadKeeps,
     RecoverKeeps, DownloadKeeps, RetireKeeps DEF CopyStep
<1>5. CASE PublishRemainder \/ PublishFinal \/ SaveReceipt \/ Finish
  BY <1>5, PublishRemainderKeeps, PublishFinalKeeps, SaveReceiptKeeps, FinishKeeps
<1>6. CASE Environment
  BY <1>6, UserChangesKeeps, DiskChangesKeeps, ForeignCommitsKeeps, OtherSaveKeeps,
     SwitchWatchingKeeps, RestartKeeps DEF Environment
<1>7. CASE UNCHANGED vars
  <2>1. /\ UNCHANGED <<direction, excluded, local, remote, canon, queue, st, held>>
        /\ UNCHANGED <<disk, saved, run, kept, unseen, hidden, used>>
    BY <1>7 DEF vars, setup, config, sides, recovery, ghosts
  <2>2. Shape' /\ Checkpoint' /\ Final'
    BY <2>1 DEF IInv, Shape, Checkpoint, Preparing, Final
  <2>3. Sparing' /\ Narrowed'
    BY <2>1 DEF IInv, Sparing, Spares, Narrowed
  <2>4. LateIsQueued' /\ LateEditsSurvive'
    BY <2>1 DEF IInv, LateIsQueued, LateEditsSurvive
  <2> QED
    BY <2>2, <2>3, <2>4 DEF IInv
<1> QED
  BY <1>1, <1>2, <1>3, <1>4, <1>5, <1>6, <1>7 DEF Next, ForceStep, ApplyStep

LEMMA AlwaysIInv == Spec => []IInv
  BY InitIInv, StepIInv, PTL DEF Spec

\* What the user does to a file after the boundary is what the vault holds
\* (force-replacement.ts: hasLocalChanges before each deletion and each copy),
\* for any number of edits, failures, restarts and losses of the unsaved queue,
\* as long as the queue has an event of it: the files of unseen are those whose
\* change a queued rename absorbed, that were changed between two sessions with
\* the watcher off, or whose event a restart lost before it was saved.
THEOREM LateEditsAreKept == Spec => []LateEditsSurvive
<1>1. IInv => LateEditsSurvive
  BY DEF IInv
<1> QED
  BY AlwaysIInv, <1>1, PTL

\* No Force touches a file the settings exclude, on either side: neither by
\* itself nor by the folder it is in (planRecursiveDeletes).
THEOREM ExcludedAreSpared == Spec => ExcludedStay
<1> DEFINE Changed(f) == <<local[f], remote[f]>>' # <<local[f], remote[f]>>
           Others == used'.edits > used.edits
<1>1. ASSUME IInv, Next, NEW f \in excluded, Changed(f)
      PROVE  Others
  <2>1. CASE \E g \in Files : UserChanges(g) \/ DiskChanges(g) \/ ForeignCommits(g)
    BY <1>1, <2>1 DEF IInv, Shape, UserChanges, DiskChanges, ForeignCommits
  <2>2. ASSUME Delete
        PROVE  FALSE
    <3>1. /\ f \in Files /\ f \notin Under(run.item)
          /\ Files = DOMAIN local /\ Files = DOMAIN remote
      BY <1>1, <2>2 DEF IInv, Shape, Sparing, Delete, At
    <3>2. Cleared(local, run.item)[f] = local[f] /\ Cleared(remote, run.item)[f] = remote[f]
      BY <3>1 DEF Cleared
    <3>3. /\ local' = local \/ local' = Cleared(local, run.item)
          /\ remote' = remote \/ remote' = Cleared(remote, run.item)
      BY <2>2 DEF Delete, sides
    <3> QED
      BY <1>1, <3>2, <3>3
  <2>3. ASSUME NEW g \in Files, Upload(g) \/ (Write /\ g = run.item)
        PROVE  FALSE
    <3>1. f \in Files /\ f # g /\ Files = DOMAIN local /\ Files = DOMAIN remote
      BY <1>1, <2>3 DEF IInv, Shape, Sparing, Upload, Write, File, At
    <3>2. /\ local' = local \/ \E v : local' = [local EXCEPT ![g] = v]
          /\ remote' = remote \/ \E v : remote' = [remote EXCEPT ![g] = v]
      BY <2>3 DEF Upload, Write, sides
    <3> QED
      BY <1>1, <3>1, <3>2
  <2>4. ~Write
    BY <1>1, <2>3 DEF IInv, Sparing, Write, At
  <2> QED
    BY <1>1, <2>1, <2>2, <2>3, <2>4
    DEF Next, ForceStep, ApplyStep, DeleteStep, CopyStep, Environment, sides, Begin,
        Prepare, Cancel, Confirm, Resume, Scan, Admit, Reset, NarrowDelete, PrepareDelete,
        EndDeletes, CreateFolder, Record, EndCopies, Recover, Download, Retire,
        PublishRemainder, PublishFinal, SaveReceipt, Finish, OtherSave, SwitchWatching,
        Restart
<1>2. IInv /\ [Next]_vars => [\A f \in excluded : Changed(f) => Others]_vars
  BY <1>1
<1> QED
  BY AlwaysIInv, <1>2, PTL DEF Spec, ExcludedStay

\* The purge in memory after a step is within the one before it, and what is
\* saved is the old checkpoint or the new one.
LEMMA PurgeShrinks ==
  ASSUME IInv, Next, held
  PROVE  disk' = disk \/ (disk' = st' /\ Within(st'.dels, st.dels))
<1>1. CASE OtherSave \/ SwitchWatching \/ Restart
  BY <1>1, WithinItself DEF OtherSave, SwitchWatching, Restart, recovery
<1>2. CASE Begin \/ Prepare \/ Cancel \/ Confirm \/ Scan \/ Admit \/ Resume
  BY <1>2, Nothing, WithinItself
  DEF IInv, Checkpoint, Preparing, Begin, Prepare, Cancel, Confirm, Scan, Admit, Resume,
      At, recovery
<1>3. ASSUME NEW p \in Items, NarrowDelete(p)
      PROVE  disk' = disk \/ (disk' = st' /\ Within(st'.dels, st.dels))
  <2>1. PICK r : IF r = "unsent" THEN UNCHANGED recovery
                 ELSE Persist([st EXCEPT !.dels = (@ \ {p}) \cup Narrow(p)], r = "saved")
    BY <1>3 DEF NarrowDelete
  <2>2. p \in st.dels /\ DOMAIN st = DOMAIN NoForce
    BY <1>3 DEF IInv, Shape, Narrowed, NarrowDelete, At
  <2>3. disk' = disk \/ (disk' = st' /\ st'.dels = (st.dels \ {p}) \cup Narrow(p))
    BY <2>1, <2>2, Nothing DEF Persist, recovery
  <2> QED
    BY <2>2, <2>3 DEF Within, Narrow, Under
<1>4. ASSUME NEW p \in Items, PrepareDelete(p)
      PROVE  disk' = disk \/ (disk' = st' /\ st'.dels = st.dels)
  BY <1>4 DEF IInv, PrepareDelete, Persist, Requeued
<1>5. CASE Delete
  <2>1. /\ disk' = st' \/ disk' = disk
        /\ st' = st \/ st' = [st EXCEPT !.dels = @ \ {run.item}]
    BY <1>5 DEF Delete, Persist, recovery
  <2>2. st'.dels \subseteq st.dels
    BY <2>1, Nothing DEF IInv, Shape
  <2> QED
    BY <2>1, <2>2, WithinItself
<1>10. CASE Write
  BY <1>10 DEF Write, Transferred, recovery
<1>6. CASE Reset \/ EndDeletes \/ CreateFolder \/ Record \/ EndCopies
  <2>1. /\ st'.dels = st.dels
        /\ disk' = st' \/ disk' = disk
    BY <1>6, Nothing
    DEF IInv, Shape, Reset, EndDeletes, CreateFolder, Record, EndCopies, Persist,
        recovery
  <2> QED
    BY <2>1, WithinItself
<1>7. ASSUME NEW f \in Files,
             Upload(f) \/ Recover(f) \/ Download(f) \/ Retire(f)
      PROVE  disk' = disk \/ (disk' = st' /\ st'.dels = st.dels)
  BY <1>7, Nothing
  DEF IInv, Shape, Upload, Recover, Download, Retire, Transferred, Persist,
      recovery
<1>8. CASE PublishRemainder \/ PublishFinal \/ SaveReceipt \/ Finish
  <2>1. disk' = disk \/ (disk' = st' /\ (st'.dels = st.dels \/ st'.dels = {}))
    BY <1>8, Nothing
    DEF IInv, Shape, PublishRemainder, PublishFinal, SaveReceipt, Finish, Persist,
        recovery
  <2> QED
    BY <2>1, WithinItself
<1>9. ASSUME NEW f \in Files, UserChanges(f) \/ DiskChanges(f) \/ ForeignCommits(f)
      PROVE  disk' = disk
  BY <1>9 DEF UserChanges, DiskChanges, ForeignCommits, recovery
<1> QED
  BY <1>1, <1>2, <1>3, <1>4, <1>5, <1>6, <1>7, <1>8, <1>9, <1>10, WithinItself
  DEF Next, ForceStep, ApplyStep, DeleteStep, CopyStep, Environment

\* A resumed Force neither widens its purge nor, once its receipt is saved,
\* touches a side or takes the index back (force-controller.ts, the
\* finalization progress in the checkpoint).
THEOREM ForceIsNotReplayed == Spec => NeverReplayed
<1> DEFINE Kept == /\ canon'.rev >= canon.rev
                   /\ sides' # sides => used'.edits > used.edits
           Shrinks == \A p \in disk'.dels : \E q \in disk.dels : Under(p) \subseteq Under(q)
<1>1. ASSUME IInv, Next, disk.fin
      PROVE  Kept
  <2>1. run.pc \in {"receipt", "finishing", "idle", "starting"} /\ canon.rev \in Nat
    BY <1>1 DEF IInv, Shape, Final
  <2>2. CASE \E f \in Files : UserChanges(f) \/ DiskChanges(f) \/ ForeignCommits(f)
    <3>1. /\ used'.edits = used.edits + 1
          /\ canon'.rev \in {canon.rev, canon.rev + 1}
      BY <1>1, <2>2 DEF IInv, Shape, UserChanges, DiskChanges, ForeignCommits
    <3>2. used.edits \in Nat
      BY <1>1 DEF IInv, Shape
    <3>3. canon'.rev >= canon.rev
      BY <2>1, <3>1
    <3>4. used'.edits > used.edits
      BY <3>1, <3>2
    <3> QED
      BY <3>3, <3>4
  <2>3. CASE \/ OtherSave \/ SwitchWatching \/ Restart \/ Resume \/ SaveReceipt
             \/ Finish \/ Begin
    <3>1. canon' = canon /\ sides' = sides
      BY <2>3 DEF OtherSave, SwitchWatching, Restart, Resume, SaveReceipt, Finish, Begin
    <3> QED
      BY <2>1, <3>1
  <2> QED
    BY <1>1, <2>1, <2>2, <2>3
    DEF Next, ForceStep, ApplyStep, DeleteStep, CopyStep, Environment, At, File,
        Prepare,
        Cancel, Confirm, Scan, Admit, Reset, NarrowDelete, PrepareDelete, Delete,
        EndDeletes, CreateFolder, Write, Record, EndCopies, Upload, Recover, Download,
        Retire, PublishRemainder, PublishFinal
<1>2. ASSUME IInv, Next, disk.phase # "none"
      PROVE  Shrinks
  <2>1. held /\ Within(st.dels, disk.dels)
    BY <1>2, Nothing DEF IInv, Checkpoint, Narrowed
  <2> QED
    BY <1>2, <2>1, PurgeShrinks, WithinItself, WithinFurther DEF Within
<1>3. IInv /\ [Next]_vars => [disk.fin => Kept]_vars
  BY <1>1
<1>4. IInv /\ [Next]_vars => [disk.phase # "none" => Shrinks]_vars
  BY <1>2
<1> QED
  BY AlwaysIInv, <1>3, <1>4, PTL
  DEF Spec, NeverReplayed, CompletionNotReplayed, PurgeOnlyNarrows


----------------------------------------------------------------------------
(* Types.                                                                  *)

Canons == [gen : {"old", "none", "force", "new"}, files : [Files -> Contents],
           rev : Nat]
Runs == [pc : Places, left : SUBSET Items, item : Items, got : Contents, err : BOOLEAN]

TypedSides ==
  /\ direction \in {"from_local", "from_remote"} /\ excluded \subseteq Files
  /\ watching \in BOOLEAN
  /\ local \in [Files -> Contents] /\ remote \in [Files -> Contents]
  /\ base \in [Files -> Contents]
TypedMarks ==
  /\ queue \in [Files -> Events] /\ saved \in [Files -> Events]
  /\ kept \in [Files -> Contents \cup {Untouched}]
  /\ unseen \subseteq Files /\ foreign \subseteq Files /\ hidden \subseteq Files
  /\ outcome \in {"none", "cancelled", "failed", "recovery-pending", "success"}
  /\ used \in [edits : 0 .. MaxEdit, faults : 0 .. MaxFault]
TypedCanon == canon \in Canons /\ canon.rev <= 3 + used.edits
TypedRecovery == st \in Recoveries /\ disk \in Recoveries /\ held \in BOOLEAN
TypedRun == run \in Runs /\ (run.pc \in {"writing", "transferred"} => run.item \in Files)
Typed == TypedSides /\ TypedMarks /\ TypedCanon /\ TypedRecovery /\ TypedRun

LEMMA TypedIs == Typed => TypeOK /\ canon.rev <= 3 + used.edits
BY ForceAssumption
DEF TypeOK, Typed, TypedSides, TypedMarks, TypedCanon, TypedRecovery, TypedRun,
    Canons, Runs

LEMMA Values ==
  /\ NoForce \in Recoveries /\ Idle \in Runs /\ Empty \in [Files -> Contents]
  /\ Nil \in Contents /\ Idle.pc = "idle"
  /\ \A n \in 0 .. MaxEdit : n < MaxEdit => 3 + n \in Contents
BY ForceAssumption
DEF NoForce, Idle, Recoveries, Runs, Empty, Contents, Nil, Items, Places

\* What the bound on faults counts, and what an event of the queue becomes.
LEMMA Counting ==
  ASSUME Typed, NEW ok \in BOOLEAN, Ok(ok)
  PROVE  /\ used' \in [edits : 0 .. MaxEdit, faults : 0 .. MaxFault]
         /\ used'.edits = used.edits
  BY ForceAssumption DEF Typed, TypedMarks, Ok

LEMMA EventsStay ==
  ASSUME Typed
  PROVE  /\ \A f, v : f \in Files => Observed(f, v) \in Events
         /\ \A e \in Events : Covered(e) \in Events /\ Retired(e) \in Events
  BY DEF Typed, TypedMarks, Observed, Covered, Retired, Events

\* What one edit of a checkpoint makes of it.
Rest(s, t) == t.phase = s.phase /\ t.reset = s.reset /\ t.fin = s.fin

LEMMA EditDels ==
  ASSUME NEW s \in Recoveries, NEW d \in SUBSET Items, NEW t, t = [s EXCEPT !.dels = d]
  PROVE  /\ t \in Recoveries /\ Rest(s, t) /\ t.sealed = s.sealed
         /\ t.dels = d /\ t.todo = s.todo /\ t.src = s.src /\ t.files = s.files
  BY DEF Recoveries, Rest

LEMMA EditTodo ==
  ASSUME NEW s \in Recoveries, NEW d \in SUBSET Items, NEW t, t = [s EXCEPT !.todo = d]
  PROVE  /\ t \in Recoveries /\ Rest(s, t) /\ t.sealed = s.sealed
         /\ t.dels = s.dels /\ t.todo = d /\ t.src = s.src /\ t.files = s.files
  BY DEF Recoveries, Rest

LEMMA EditRequeued ==
  ASSUME NEW s \in Recoveries, NEW d \in SUBSET Items, NEW g \in [Files -> Contents],
         NEW t, t = [s EXCEPT !.todo = @ \cup d, !.files = g]
  PROVE  /\ t \in Recoveries /\ Rest(s, t) /\ t.sealed = s.sealed
         /\ t.dels = s.dels /\ t.todo = s.todo \cup d /\ t.src = s.src /\ t.files = g
  BY DEF Recoveries, Rest

LEMMA EditSource ==
  ASSUME NEW s \in Recoveries, NEW f \in Files, NEW v \in Contents, NEW b \in BOOLEAN,
         NEW t, t = [s EXCEPT !.src[f] = v, !.sealed = b]
  PROVE  /\ t \in Recoveries /\ Rest(s, t)
         /\ t.dels = s.dels /\ t.todo = s.todo /\ t.files = s.files
         /\ t.src = [s.src EXCEPT ![f] = v]
  BY DEF Recoveries, Rest

LEMMA EditRetired ==
  ASSUME NEW s \in Recoveries, NEW f \in Files, NEW v \in Contents,
         NEW t, t = [s EXCEPT !.src[f] = v, !.todo = @ \ {f}]
  PROVE  /\ t \in Recoveries /\ Rest(s, t) /\ t.sealed = s.sealed
         /\ t.dels = s.dels /\ t.todo = s.todo \ {f} /\ t.files = s.files
         /\ t.src = [s.src EXCEPT ![f] = v]
  BY DEF Recoveries, Rest

LEMMA EditRecorded ==
  ASSUME NEW s \in Recoveries, NEW f \in Files, NEW v \in Contents,
         NEW t, t = [s EXCEPT !.files[f] = v, !.todo = @ \ {f}, !.sealed = TRUE]
  PROVE  /\ t \in Recoveries /\ Rest(s, t)
         /\ t.dels = s.dels /\ t.todo = s.todo \ {f} /\ t.src = s.src
         /\ t.files = [s.files EXCEPT ![f] = v]
  BY DEF Recoveries, Rest

LEMMA EditScanned ==
  ASSUME NEW s \in Recoveries, NEW g \in [Files -> Contents], NEW d \in SUBSET Items,
         NEW t, t = [s EXCEPT !.src = g, !.todo = d]
  PROVE  /\ t \in Recoveries /\ Rest(s, t) /\ t.sealed = s.sealed
         /\ t.dels = s.dels /\ t.todo = d /\ t.src = g /\ t.files = s.files
  BY DEF Recoveries, Rest

LEMMA EditAdmitted ==
  ASSUME NEW s \in Recoveries, NEW d \in SUBSET Items,
         NEW t, t = [s EXCEPT !.phase = "applying", !.dels = d]
  PROVE  /\ t \in Recoveries /\ t.fin = s.fin /\ t.phase = "applying"
         /\ t.dels = d /\ t.todo = s.todo /\ t.src = s.src /\ t.files = s.files
  BY DEF Recoveries

LEMMA EditMarks ==
  ASSUME NEW s \in Recoveries
  PROVE  /\ \A p \in {"prepared", "cleanup"} : LET t == [s EXCEPT !.phase = p] IN
              /\ t \in Recoveries /\ t.fin = s.fin /\ t.phase = p
              /\ t.dels = s.dels /\ t.todo = s.todo /\ t.src = s.src /\ t.files = s.files
         /\ LET t == [s EXCEPT !.reset = TRUE] IN
              /\ t \in Recoveries /\ t.fin = s.fin /\ t.phase = s.phase
              /\ t.dels = s.dels /\ t.todo = s.todo /\ t.src = s.src /\ t.files = s.files
         /\ LET t == [s EXCEPT !.fin = TRUE] IN
              /\ t \in Recoveries /\ t.fin /\ t.phase = s.phase
              /\ t.dels = s.dels /\ t.todo = s.todo /\ t.src = s.src /\ t.files = s.files
  BY DEF Recoveries

\* What one edit of a run makes of it.
LEMMA EditRun ==
  ASSUME NEW r \in Runs, NEW p \in Places, NEW d \in SUBSET Items, NEW i \in Items,
         NEW e \in BOOLEAN
  PROVE  /\ [r EXCEPT !.pc = p] \in Runs
         /\ [r EXCEPT !.pc = p, !.err = e] \in Runs
         /\ [r EXCEPT !.pc = p, !.item = i] \in Runs
         /\ [r EXCEPT !.left = d, !.err = e] \in Runs
         /\ [r EXCEPT !.pc = p, !.left = d, !.err = e] \in Runs
  BY DEF Runs

LEMMA RequeuedEdit ==
  ASSUME NEW p \in Items, st \in Recoveries
  PROVE  /\ Requeued(p) \in Recoveries /\ Rest(st, Requeued(p))
         /\ Requeued(p).dels = st.dels /\ Requeued(p).src = st.src
         /\ st.todo \subseteq Requeued(p).todo
         /\ \A f \in Files :
              /\ f \in Requeued(p).todo <=>
                   f \in st.todo \/ (f \in Under(p) /\ st.src[f] # Nil)
              /\ Requeued(p).files[f] =
                   IF f \in Under(p) /\ st.src[f] # Nil THEN Nil ELSE st.files[f]
<1> DEFINE hit == {i \in Items : /\ i \in Under(p) \/ i = p
                                 /\ IF i = Folder THEN Present(st.src) # {}
                                    ELSE st.src[i] # Nil}
           g == [f \in Files |-> IF f \in hit THEN Nil ELSE st.files[f]]
<1>1. hit \in SUBSET Items /\ st.files \in [Files -> Contents]
  BY DEF Recoveries
<1>2. g \in [Files -> Contents]
  BY <1>1, Values
<1>3. Requeued(p) = [st EXCEPT !.todo = @ \cup hit, !.files = g]
  BY <1>1 DEF Requeued, Recoveries
<1>4. \A f \in Files : /\ f \in hit <=> f \in Under(p) /\ st.src[f] # Nil
                       /\ g[f] = IF f \in hit THEN Nil ELSE st.files[f]
  BY ForceAssumption DEF Under, Items
<1> HIDE DEF g, hit
<1>5. /\ Requeued(p) \in Recoveries /\ Rest(st, Requeued(p))
      /\ Requeued(p).dels = st.dels /\ Requeued(p).src = st.src
      /\ Requeued(p).todo = st.todo \cup hit /\ Requeued(p).files = g
  <2> DEFINE q == Requeued(p)
  <2>1. q = [st EXCEPT !.todo = @ \cup hit, !.files = g]
    BY <1>3
  <2> HIDE DEF q
  <2>2. /\ q \in Recoveries /\ Rest(st, q) /\ q.dels = st.dels /\ q.src = st.src
        /\ q.todo = st.todo \cup hit /\ q.files = g
    BY <1>1, <1>2, <2>1 DEF Recoveries, Rest
  <2> QED
    BY <2>2 DEF q
<1> QED
  BY <1>4, <1>5

LEMMA UserChangesTyped ==
  ASSUME Typed, NEW f \in Files, UserChanges(f)
  PROVE  Typed'
<1>1. TypedSides'
  <2>1. \E v \in Contents : local' = [local EXCEPT ![f] = v]
    BY Values DEF Typed, TypedMarks, UserChanges
  <2> QED
    BY <2>1 DEF Typed, TypedSides, UserChanges, setup, config
<1>2. TypedMarks'
  <2>1. PICK v \in {3 + used.edits, Nil} \ {local[f]} :
          /\ queue' = [queue EXCEPT ![f] = Observed(f, v)]
          /\ kept' = [kept EXCEPT ![f] = v]
    BY DEF UserChanges
  <2>2. queue' \in [Files -> Events]
    BY <2>1, EventsStay DEF Typed, TypedMarks
  <2>3. kept' \in [Files -> Contents \cup {Untouched}]
    BY <2>1, Values DEF Typed, TypedMarks, UserChanges
  <2>4. /\ used' \in [edits : 0 .. MaxEdit, faults : 0 .. MaxFault]
        /\ unseen' \subseteq Files
        /\ UNCHANGED <<saved, foreign, hidden, outcome>>
    BY ForceAssumption DEF Typed, TypedMarks, UserChanges, recovery
  <2> QED
    BY <2>2, <2>3, <2>4 DEF Typed, TypedMarks
<1>3. TypedCanon'
  BY DEF Typed, TypedCanon, TypedMarks, UserChanges, Canons
<1>4. TypedRecovery'
  BY DEF Typed, TypedRecovery, TypedSides, UserChanges, setup, config, recovery, Recoveries
<1>5. TypedRun'
  BY DEF Typed, TypedRun, TypedRecovery, UserChanges, Recoveries, Runs
<1> QED
  BY <1>1, <1>2, <1>3, <1>4, <1>5 DEF Typed

LEMMA DiskChangesTyped ==
  ASSUME Typed, NEW f \in Files, DiskChanges(f)
  PROVE  Typed'
<1>1. TypedSides'
  <2>1. \E v \in Contents : remote' = [remote EXCEPT ![f] = v]
    BY Values DEF Typed, TypedMarks, DiskChanges
  <2> QED
    BY <2>1 DEF Typed, TypedSides, DiskChanges, setup, config
<1>2. TypedMarks'
  BY ForceAssumption DEF Typed, TypedMarks, DiskChanges, recovery
<1>3. TypedCanon'
  BY DEF Typed, TypedCanon, TypedMarks, DiskChanges, Canons
<1>4. TypedRecovery'
  BY DEF Typed, TypedRecovery, TypedSides, DiskChanges, setup, config, recovery, Recoveries
<1>5. TypedRun'
  BY DEF Typed, TypedRun, TypedRecovery, DiskChanges, Recoveries, Runs
<1> QED
  BY <1>1, <1>2, <1>3, <1>4, <1>5 DEF Typed

LEMMA ForeignCommitsTyped ==
  ASSUME Typed, NEW f \in Files, ForeignCommits(f)
  PROVE  Typed'
<1>1. TypedSides'
  <2>1. \E v \in Contents : remote' = [remote EXCEPT ![f] = v]
    BY Values DEF Typed, TypedMarks, ForeignCommits
  <2> QED
    BY <2>1 DEF Typed, TypedSides, ForeignCommits, setup, config
<1>2. TypedMarks'
  BY ForceAssumption DEF Typed, TypedMarks, ForeignCommits, recovery
<1>3. TypedCanon'
  <2>1. PICK v \in Contents : canon' = [canon EXCEPT !.files[f] = v, !.rev = @ + 1]
    BY Values DEF Typed, TypedMarks, ForeignCommits
  <2>2. canon' \in Canons /\ canon'.rev = canon.rev + 1
    <3>1. canon' = [gen |-> canon.gen, files |-> [canon.files EXCEPT ![f] = v],
                    rev |-> canon.rev + 1]
      BY <2>1 DEF Typed, TypedCanon, Canons
    <3>2. [canon.files EXCEPT ![f] = v] \in [Files -> Contents]
      BY DEF Typed, TypedCanon, Canons
    <3>3. canon.gen \in {"old", "none", "force", "new"} /\ canon.rev + 1 \in Nat
      BY DEF Typed, TypedCanon, Canons
    <3> QED
      BY <3>1, <3>2, <3>3 DEF Canons
  <2>3. used'.edits = used.edits + 1 /\ used.edits \in Nat /\ canon.rev \in Nat
    BY DEF Typed, TypedMarks, TypedCanon, Canons, ForeignCommits
  <2> QED
    BY <2>2, <2>3 DEF Typed, TypedCanon
<1>4. TypedRecovery'
  BY DEF Typed, TypedRecovery, TypedSides, ForeignCommits, setup, config, recovery, Recoveries
<1>5. TypedRun'
  BY DEF Typed, TypedRun, TypedRecovery, ForeignCommits, Recoveries, Runs
<1> QED
  BY <1>1, <1>2, <1>3, <1>4, <1>5 DEF Typed

LEMMA OtherSaveTyped ==
  ASSUME Typed, OtherSave
  PROVE  Typed'
<1>1. TypedSides'
  BY DEF Typed, TypedSides, OtherSave, setup, config, sides, ghosts
<1>2. TypedMarks'
  BY DEF Typed, TypedMarks, OtherSave, setup, config, sides, recovery, ghosts, Untouched
<1>3. TypedCanon'
  BY DEF Typed, TypedCanon, TypedMarks, OtherSave, Canons
<1>4. TypedRecovery'
  BY DEF Typed, TypedRecovery, TypedSides, OtherSave, Recoveries
<1>5. TypedRun'
  BY DEF Typed, TypedRun, TypedRecovery, OtherSave, Recoveries, Runs
<1> QED
  BY <1>1, <1>2, <1>3, <1>4, <1>5 DEF Typed

LEMMA SwitchWatchingTyped ==
  ASSUME Typed, SwitchWatching
  PROVE  Typed'
<1>1. TypedSides'
  BY DEF Typed, TypedSides, SwitchWatching, config, sides
<1>2. TypedMarks'
  BY DEF Typed, TypedMarks, SwitchWatching, recovery, ghosts
<1>3. TypedCanon' /\ TypedRecovery' /\ TypedRun'
  BY DEF Typed, TypedCanon, TypedRecovery, TypedRun, SwitchWatching, recovery
<1> QED
  BY <1>1, <1>2, <1>3 DEF Typed

LEMMA RestartTyped ==
  ASSUME Typed, Restart
  PROVE  Typed'
<1>1. TypedSides'
  BY DEF Typed, TypedSides, Restart, Ok, setup, config, sides
<1>2. TypedMarks'
  <2>1. /\ used' \in [edits : 0 .. MaxEdit, faults : 0 .. MaxFault]
        /\ queue' = saved /\ UNCHANGED <<saved, kept, foreign, outcome>>
    BY Counting DEF Typed, TypedMarks, Restart
  <2>2. unseen' \subseteq Files
    BY DEF Typed, TypedMarks, Restart
  <2>3. hidden' \subseteq Files
    BY DEF Typed, TypedMarks, TypedRun, Runs, Restart, Unexplained
  <2> QED
    BY <2>1, <2>2, <2>3 DEF Typed, TypedMarks
<1>3. TypedCanon'
  BY DEF Typed, TypedCanon, TypedMarks, Restart, Ok, Canons
<1>4. TypedRecovery'
  BY DEF Typed, TypedRecovery, TypedSides, Restart, Ok, Recoveries
<1>5. TypedRun'
  BY Values DEF TypedRun, Restart, Runs, Places
<1> QED
  BY <1>1, <1>2, <1>3, <1>4, <1>5 DEF Typed

LEMMA BeginTyped ==
  ASSUME Typed, Begin
  PROVE  Typed'
<1>1. TypedSides'
  BY DEF Typed, TypedSides, Begin, At, Go, setup, config, sides, recovery, ghosts
<1>2. TypedMarks'
  BY DEF Typed, TypedMarks, Begin, At, Go, setup, config, sides, recovery, ghosts, Untouched
<1>3. TypedCanon'
  BY DEF Typed, TypedCanon, TypedMarks, Begin, At, Go, Canons
<1>4. TypedRecovery'
  BY DEF Typed, TypedRecovery, TypedSides, Begin, At, Go, setup, config, sides, recovery,
      ghosts, Recoveries
<1>5. TypedRun'
  BY DEF Typed, TypedRun, TypedRecovery, Begin, At, Go, Recoveries, Runs, Places
<1> QED
  BY <1>1, <1>2, <1>3, <1>4, <1>5 DEF Typed

LEMMA PrepareTyped ==
  ASSUME Typed, Prepare
  PROVE  Typed'
<1>1. TypedSides'
  BY DEF Typed, TypedSides, Prepare, At, Go, setup, config, sides, Untouched
<1>2. TypedMarks'
  <2>1. queue' \in [Files -> Events] /\ saved' \in [Files -> Events]
    BY EventsStay DEF Typed, TypedMarks, Prepare
  <2>2. /\ kept' \in [Files -> Contents \cup {Untouched}]
        /\ unseen' \subseteq Files /\ hidden' \subseteq Files
        /\ UNCHANGED <<foreign, outcome, used>>
    BY DEF Prepare
  <2> QED
    BY <2>1, <2>2 DEF Typed, TypedMarks
<1>3. TypedCanon'
  BY DEF Typed, TypedCanon, TypedMarks, Prepare, At, Go, Canons
<1>4. TypedRecovery'
  BY Values DEF Typed, TypedRecovery, TypedSides, Prepare, At, Go, Recoveries
<1>5. TypedRun'
  BY DEF Typed, TypedRun, TypedRecovery, Prepare, At, Go, Recoveries, Runs, Places
<1> QED
  BY <1>1, <1>2, <1>3, <1>4, <1>5 DEF Typed

LEMMA CancelTyped ==
  ASSUME Typed, Cancel
  PROVE  Typed'
<1>1. TypedSides'
  BY DEF Typed, TypedSides, Cancel, setup, config, sides, ghosts
<1>2. TypedMarks'
  BY DEF Typed, TypedMarks, Cancel, setup, config, sides, recovery, ghosts, Untouched
<1>3. TypedCanon'
  BY DEF Typed, TypedCanon, TypedMarks, Cancel, Canons
<1>4. TypedRecovery'
  BY Values DEF Typed, TypedRecovery, TypedSides, Cancel, Recoveries
<1>5. TypedRun'
  BY Values DEF Typed, TypedRun, TypedRecovery, Cancel, Recoveries, Runs
<1> QED
  BY <1>1, <1>2, <1>3, <1>4, <1>5 DEF Typed

LEMMA ConfirmTyped ==
  ASSUME Typed, Confirm
  PROVE  Typed'
<1>1. TypedSides'
  BY DEF Typed, TypedSides, Confirm, setup, config, sides
<1>2. TypedMarks'
  <2>1. used' \in [edits : 0 .. MaxEdit, faults : 0 .. MaxFault]
    BY Counting DEF Confirm
  <2>2. saved' \in {queue, saved} /\ outcome' \in {outcome, "failed"}
    BY DEF Confirm, End
  <2> QED
    BY <2>1, <2>2 DEF Typed, TypedMarks, Confirm, ghosts
<1>3. TypedCanon'
  BY Counting DEF Typed, TypedCanon, Confirm
<1>4. TypedRecovery'
  BY Values DEF Typed, TypedRecovery, Confirm
<1>5. TypedRun'
  <2>1. "scanning" \in Places
    BY DEF Places
  <2>2. run' = Idle \/ run' = [run EXCEPT !.pc = "scanning"]
    BY DEF Confirm, Go, End
  <2>3. [run EXCEPT !.pc = "scanning"].pc = "scanning"
    BY DEF Typed, TypedRun, Runs
  <2>4. \A p \in Places : [run EXCEPT !.pc = p] \in Runs
    BY DEF Typed, TypedRun, Runs
  <2> QED
    BY <2>1, <2>2, <2>3, <2>4, Values DEF TypedRun
<1> QED
  BY <1>1, <1>2, <1>3, <1>4, <1>5 DEF Typed

LEMMA ScanTyped ==
  ASSUME Typed, Scan
  PROVE  Typed'
<1>1. TypedSides'
  BY DEF Typed, TypedSides, Scan, At, Ok, Go, End, setup, config, sides, ghosts
<1>2. TypedMarks'
  BY ForceAssumption
  DEF Typed, TypedMarks, Scan, At, Ok, Go, End, setup, config, sides, recovery, ghosts,
      Untouched
<1>3. TypedCanon'
  BY DEF Typed, TypedCanon, TypedMarks, Scan, At, Ok, Go, End, Canons
<1>4. TypedRecovery'
  <2>1. [f \in Files |-> IF f \in excluded THEN Nil ELSE Source[f]] \in [Files -> Contents]
    BY Values DEF Typed, TypedSides, Source
  <2>2. Selected(Source) \cup (IF Selected(Source) = {} THEN {} ELSE {Folder})
          \in SUBSET Items
    BY DEF Selected, Present, Items
  <2>3. [st EXCEPT !.src = [f \in Files |-> IF f \in excluded THEN Nil ELSE Source[f]],
                   !.todo = Selected(Source) \cup
                            (IF Selected(Source) = {} THEN {} ELSE {Folder})]
          \in Recoveries
    <3> DEFINE g == [f \in Files |-> IF f \in excluded THEN Nil ELSE Source[f]]
               d == Selected(Source) \cup (IF Selected(Source) = {} THEN {} ELSE {Folder})
    <3>1. g \in [Files -> Contents] /\ d \in SUBSET Items /\ st \in Recoveries
      BY <2>1, <2>2 DEF Typed, TypedRecovery
    <3> HIDE DEF g, d
    <3>2. [st EXCEPT !.src = g, !.todo = d] \in Recoveries
      BY <3>1, EditScanned
    <3> QED
      BY <3>2 DEF g, d
  <2>4. st' \in Recoveries
    BY <2>3, Values DEF Scan
  <2> QED
    BY <2>4 DEF Typed, TypedRecovery, Scan
<1>5. TypedRun'
  BY Values
  DEF Typed, TypedRun, TypedRecovery, Scan, At, Ok, Go, End, Recoveries, Runs, Places
<1> QED
  BY <1>1, <1>2, <1>3, <1>4, <1>5 DEF Typed

LEMMA AdmitTyped ==
  ASSUME Typed, Admit
  PROVE  Typed'
<1>1. TypedSides'
  BY DEF Typed, TypedSides, Admit, At, Ok, Go, End, setup, config, sides, ghosts
<1>2. TypedMarks'
  BY ForceAssumption
  DEF Typed, TypedMarks, Admit, At, Ok, Go, End, setup, config, sides, recovery, ghosts,
      Untouched
<1>3. TypedCanon'
  BY DEF Typed, TypedCanon, TypedMarks, Admit, At, Ok, Go, End, Canons
<1>4. TypedRecovery'
  <2>1. DeletePlan(Destination) \in SUBSET Items
    BY DEF DeletePlan, Selected, Present, Items
  <2>2. [st EXCEPT !.phase = "applying", !.dels = DeletePlan(Destination)] \in Recoveries
    BY <2>1, EditAdmitted DEF Typed, TypedRecovery
  <2> QED
    BY <2>2, Values DEF Typed, TypedRecovery, Admit
<1>5. TypedRun'
  BY Values
  DEF Typed, TypedRun, TypedRecovery, Admit, At, Ok, Go, End, Recoveries, Runs, Places
<1> QED
  BY <1>1, <1>2, <1>3, <1>4, <1>5 DEF Typed

LEMMA ResumeTyped ==
  ASSUME Typed, Resume
  PROVE  Typed'
<1>1. TypedSides'
  BY DEF Typed, TypedSides, Resume, setup, config, sides
<1>2. TypedMarks'
  <2>1. used' \in [edits : 0 .. MaxEdit, faults : 0 .. MaxFault]
    BY Counting DEF Resume
  <2>2. saved' \in {queue, saved} /\ outcome' \in {outcome, "none"}
    BY DEF Resume
  <2> QED
    BY <2>1, <2>2 DEF Typed, TypedMarks, Resume, ghosts
<1>3. TypedCanon'
  BY Counting DEF Typed, TypedCanon, Resume
<1>4. TypedRecovery'
  BY DEF Typed, TypedRecovery, Resume
<1>5. TypedRun'
  <2>1. \/ run' = Idle
        \/ \E p \in {"finishing", "resetting"} : run' = [run EXCEPT !.pc = p]
    BY DEF Resume
  <2>2. \A p \in {"finishing", "resetting"} :
           p \in Places /\ [run EXCEPT !.pc = p].pc = p
    BY DEF Typed, TypedRun, Runs, Places
  <2>3. \A p \in Places : [run EXCEPT !.pc = p] \in Runs
    BY DEF Typed, TypedRun, Runs
  <2> QED
    BY <2>1, <2>2, <2>3, Values DEF TypedRun
<1> QED
  BY <1>1, <1>2, <1>3, <1>4, <1>5 DEF Typed

LEMMA ResetTyped ==
  ASSUME Typed, Reset
  PROVE  Typed'
<1>1. TypedSides'
  BY DEF Typed, TypedSides, Reset, At, Ok, Persist, setup, config, sides, recovery, ghosts
<1>2. TypedMarks'
  BY ForceAssumption
  DEF Typed, TypedMarks, Reset, At, Ok, Persist, setup, config, sides, recovery, ghosts,
      Untouched
<1>3. TypedCanon'
  <2>1. Maintenance \in Canons /\ NoCanon \in Canons
        /\ Maintenance.rev = 1 /\ NoCanon.rev = 0
    BY Values DEF Typed, TypedRecovery, Recoveries, Maintenance, NoCanon, Canons
  <2>2. canon' \in {canon, Maintenance, NoCanon}
    BY DEF Reset
  <2>3. used'.edits = used.edits /\ used.edits \in Nat
    BY DEF Typed, TypedMarks, Reset, Ok
  <2> QED
    BY <2>1, <2>2, <2>3 DEF Typed, TypedCanon
<1>4. TypedRecovery'
  <2>1. [st EXCEPT !.reset = TRUE] \in Recoveries
    BY EditMarks DEF Typed, TypedRecovery
  <2> QED
    BY <2>1 DEF Typed, TypedRecovery, Reset, Persist, recovery
<1>5. TypedRun'
  <2>1. st.dels \in SUBSET Items /\ "deletes" \in Places
    BY DEF Typed, TypedRecovery, Recoveries, Places
  <2>2. \E e \in BOOLEAN :
          run' = [run EXCEPT !.pc = "deletes", !.left = st.dels, !.err = e]
    BY DEF Reset
  <2> QED
    BY <2>1, <2>2 DEF Typed, TypedRun, Runs
<1> QED
  BY <1>1, <1>2, <1>3, <1>4, <1>5 DEF Typed

LEMMA NarrowDeleteTyped ==
  ASSUME Typed, NEW p \in Items, NarrowDelete(p)
  PROVE  Typed'
<1>1. TypedSides'
  BY DEF Typed, TypedSides, NarrowDelete, At, Ok, Persist, setup, config, sides, ghosts
<1>2. TypedMarks'
  BY ForceAssumption
  DEF Typed, TypedMarks, NarrowDelete, At, Ok, Persist, setup, config, sides, recovery,
      ghosts, Untouched
<1>3. TypedCanon'
  BY DEF Typed, TypedCanon, TypedMarks, NarrowDelete, At, Ok, Persist, Canons
<1>4. TypedRecovery'
  <2>1. (st.dels \ {p}) \cup Narrow(p) \in SUBSET Items
    BY DEF Typed, TypedRecovery, Recoveries, Narrow, Present, Items
  <2>2. [st EXCEPT !.dels = (@ \ {p}) \cup Narrow(p)] \in Recoveries
    BY <2>1, EditDels DEF Typed, TypedRecovery
  <2> QED
    BY <2>2 DEF Typed, TypedRecovery, NarrowDelete, Persist, recovery
<1>5. TypedRun'
  <2>1. \A n \in {{}, Narrow(p)} : (run.left \ {p}) \cup n \in SUBSET Items
    BY DEF Typed, TypedRun, Runs, Narrow, Present, Items
  <2>2. \E e \in BOOLEAN, n \in {{}, Narrow(p)} :
          run' = [run EXCEPT !.left = (run.left \ {p}) \cup n, !.err = e]
    BY DEF Typed, TypedRun, Runs, NarrowDelete
  <2> QED
    BY <2>1, <2>2 DEF Typed, TypedRun, Runs
<1> QED
  BY <1>1, <1>2, <1>3, <1>4, <1>5 DEF Typed

LEMMA PrepareDeleteTyped ==
  ASSUME Typed, NEW p \in Items, PrepareDelete(p)
  PROVE  Typed'
<1>1. TypedSides'
  BY DEF Typed, TypedSides, PrepareDelete, At, Ok, Persist, setup, config, sides, ghosts
<1>2. TypedMarks'
  BY ForceAssumption
  DEF Typed, TypedMarks, PrepareDelete, At, Ok, Persist, setup, config, sides, recovery,
      ghosts, Untouched
<1>3. TypedCanon'
  BY DEF Typed, TypedCanon, TypedMarks, PrepareDelete, At, Ok, Persist, Canons
<1>4. TypedRecovery'
  <2>1. Requeued(p) \in Recoveries
    BY RequeuedEdit DEF Typed, TypedRecovery
  <2> QED
    BY <2>1 DEF Typed, TypedRecovery, PrepareDelete, Persist
<1>5. TypedRun'
  <2>1. \/ run' = [run EXCEPT !.pc = "deleting", !.item = p]
        \/ run' = [run EXCEPT !.left = @ \ {p}, !.err = TRUE]
    BY DEF PrepareDelete
  <2> QED
    BY <2>1 DEF Typed, TypedRun, Runs, Places
<1> QED
  BY <1>1, <1>2, <1>3, <1>4, <1>5 DEF Typed

LEMMA DeleteTyped ==
  ASSUME Typed, Delete
  PROVE  Typed'
<1>1. TypedSides'
  BY Values
  DEF Typed, TypedSides, Cleared, Delete, At, Ok, Persist, setup, config, sides, recovery,
      ghosts
<1>2. TypedMarks'
  BY ForceAssumption
  DEF Typed, TypedMarks, Delete, At, Ok, Persist, setup, config, sides, recovery, ghosts,
      Untouched
<1>3. TypedCanon'
  BY DEF Typed, TypedCanon, TypedMarks, Delete, At, Ok, Persist, Canons
<1>4. TypedRecovery'
  BY DEF Typed, TypedRecovery, TypedSides, Delete, At, Ok, Persist, setup, config, sides,
      recovery, ghosts, Recoveries
<1>5. TypedRun'
  <2>1. \E e \in BOOLEAN :
          run' = [run EXCEPT !.pc = "deletes", !.left = @ \ {run.item}, !.err = e]
    BY DEF Typed, TypedRun, Runs, Delete
  <2> QED
    BY <2>1 DEF Typed, TypedRun, Runs, Places
<1> QED
  BY <1>1, <1>2, <1>3, <1>4, <1>5 DEF Typed

LEMMA EndDeletesTyped ==
  ASSUME Typed, EndDeletes
  PROVE  Typed'
<1>1. TypedSides'
  BY DEF Typed, TypedSides, EndDeletes, At, Ok, Persist, setup, config, sides, ghosts
<1>2. TypedMarks'
  BY ForceAssumption
  DEF Typed, TypedMarks, EndDeletes, At, Ok, Persist, setup, config, sides, recovery, ghosts,
      Untouched
<1>3. TypedCanon'
  BY DEF Typed, TypedCanon, TypedMarks, EndDeletes, At, Ok, Persist, Canons
<1>4. TypedRecovery'
  BY DEF Typed, TypedRecovery, TypedSides, EndDeletes, At, Ok, Persist, Recoveries
<1>5. TypedRun'
  BY DEF Typed, TypedRun, TypedRecovery, EndDeletes, At, Ok, Persist, Recoveries,
      Runs, Places
<1> QED
  BY <1>1, <1>2, <1>3, <1>4, <1>5 DEF Typed

LEMMA CreateFolderTyped ==
  ASSUME Typed, CreateFolder
  PROVE  Typed'
<1>1. TypedSides'
  BY DEF Typed, TypedSides, CreateFolder, At, Ok, Persist, setup, config, sides, ghosts
<1>2. TypedMarks'
  BY ForceAssumption
  DEF Typed, TypedMarks, CreateFolder, At, Ok, Persist, setup, config, sides, recovery,
      ghosts, Untouched
<1>3. TypedCanon'
  BY DEF Typed, TypedCanon, TypedMarks, CreateFolder, At, Ok, Persist, Canons
<1>4. TypedRecovery'
  <2>1. [st EXCEPT !.todo = @ \ {Folder}] \in Recoveries
    BY EditTodo DEF Typed, TypedRecovery, Recoveries
  <2> QED
    BY <2>1 DEF Typed, TypedRecovery, CreateFolder, Persist, recovery
<1>5. TypedRun'
  <2>1. \E e \in BOOLEAN : run' = [run EXCEPT !.left = @ \ {Folder}, !.err = e]
    BY DEF Typed, TypedRun, Runs, CreateFolder
  <2> QED
    BY <2>1 DEF Typed, TypedRun, Runs
<1> QED
  BY <1>1, <1>2, <1>3, <1>4, <1>5 DEF Typed

LEMMA UploadTyped ==
  ASSUME Typed, NEW f \in Files, Upload(f)
  PROVE  Typed'
<1>1. TypedSides'
  BY DEF Typed, TypedSides, Upload, At, Ok, Transferred, Skip, File, setup, config, recovery
<1>2. TypedMarks'
  BY ForceAssumption
  DEF Typed, TypedMarks, Upload, At, Ok, Transferred, Skip, File, recovery
<1>3. TypedCanon'
  BY DEF Typed, TypedCanon, TypedMarks, Upload, At, Ok, Transferred, Skip, File, Canons
<1>4. TypedRecovery'
  <2>1. st' = st \/ \E v \in Contents, b \in BOOLEAN :
                       st' = [st EXCEPT !.src[f] = v, !.sealed = b]
    BY DEF Typed, TypedSides, TypedRecovery, Recoveries, Upload, Transferred, recovery
  <2>2. held' = held /\ disk' = disk
    BY DEF Upload, Transferred, recovery
  <2>3. \A v \in Contents, b \in BOOLEAN : [st EXCEPT !.src[f] = v, !.sealed = b] \in Recoveries
    BY EditSource DEF Typed, TypedRecovery
  <2> QED
    BY <2>1, <2>2, <2>3 DEF Typed, TypedRecovery
<1>5. TypedRun'
  <2>1. \/ run' = [run EXCEPT !.pc = "transferred", !.item = f, !.got = Nil]
        \/ \E e \in BOOLEAN : run' = [run EXCEPT !.pc = "copies", !.left = @ \ {f}, !.got = Nil,
                                        !.err = e]
    BY DEF Typed, TypedRun, Runs, Upload, Transferred, Skip
  <2>2. run \in Runs /\ f \in Items
    BY DEF Typed, TypedRun, Items
  <2>3. CASE run' = [run EXCEPT !.pc = "transferred", !.item = f, !.got = Nil]
    BY <2>2, <2>3, Values DEF TypedRun, Runs, Places
  <2>4. CASE \E e \in BOOLEAN : run' = [run EXCEPT !.pc = "copies", !.left = @ \ {f},
                                        !.got = Nil, !.err = e]
    BY <2>2, <2>4, Values DEF TypedRun, Runs, Places
  <2> QED
    BY <2>1, <2>3, <2>4
<1> QED
  BY <1>1, <1>2, <1>3, <1>4, <1>5 DEF Typed

LEMMA RecoverTyped ==
  ASSUME Typed, NEW f \in Files, Recover(f)
  PROVE  Typed'
<1>1. TypedSides'
  BY DEF Typed, TypedSides, Recover, At, Transferred, Skip, File, setup, config, sides,
      recovery, ghosts
<1>2. TypedMarks'
  BY DEF Typed, TypedMarks, Recover, At, Transferred, Skip, File, setup, config, sides,
      recovery, ghosts, Untouched
<1>3. TypedCanon'
  BY DEF Typed, TypedCanon, TypedMarks, Recover, At, Transferred, Skip, File, Canons
<1>4. TypedRecovery'
  <2>1. st' = st \/ \E v \in Contents, b \in BOOLEAN :
                       st' = [st EXCEPT !.src[f] = v, !.sealed = b]
    BY DEF Typed, TypedSides, TypedRecovery, Recoveries, Recover, Transferred, recovery
  <2>2. held' = held /\ disk' = disk
    BY DEF Recover, Transferred, recovery
  <2>3. \A v \in Contents, b \in BOOLEAN : [st EXCEPT !.src[f] = v, !.sealed = b] \in Recoveries
    BY EditSource DEF Typed, TypedRecovery
  <2> QED
    BY <2>1, <2>2, <2>3 DEF Typed, TypedRecovery
<1>5. TypedRun'
  <2>1. \/ run' = [run EXCEPT !.pc = "transferred", !.item = f, !.got = Nil]
        \/ \E e \in BOOLEAN : run' = [run EXCEPT !.pc = "copies", !.left = @ \ {f}, !.got = Nil,
                                        !.err = e]
    BY DEF Typed, TypedRun, Runs, Recover, Transferred, Skip
  <2>2. run \in Runs /\ f \in Items
    BY DEF Typed, TypedRun, Items
  <2>3. CASE run' = [run EXCEPT !.pc = "transferred", !.item = f, !.got = Nil]
    BY <2>2, <2>3, Values DEF TypedRun, Runs, Places
  <2>4. CASE \E e \in BOOLEAN : run' = [run EXCEPT !.pc = "copies", !.left = @ \ {f},
                                        !.got = Nil, !.err = e]
    BY <2>2, <2>4, Values DEF TypedRun, Runs, Places
  <2> QED
    BY <2>1, <2>3, <2>4
<1> QED
  BY <1>1, <1>2, <1>3, <1>4, <1>5 DEF Typed

LEMMA DownloadTyped ==
  ASSUME Typed, NEW f \in Files, Download(f)
  PROVE  Typed'
<1>1. TypedSides'
  BY DEF Typed, TypedSides, Download, setup, config, sides
<1>2. TypedMarks'
  BY ForceAssumption
  DEF Typed, TypedMarks, Download, Ok, Transferred, Skip, recovery, ghosts
<1>3. TypedCanon'
  BY DEF Typed, TypedCanon, TypedMarks, Download, Ok
<1>4. TypedRecovery'
  <2>1. st' = st \/ \E v \in Contents, b \in BOOLEAN :
                       st' = [st EXCEPT !.src[f] = v, !.sealed = b]
    BY DEF Typed, TypedSides, TypedRecovery, Recoveries, Download, Transferred, recovery
  <2>2. held' = held /\ disk' = disk
    BY DEF Download, Transferred, recovery
  <2>3. \A v \in Contents, b \in BOOLEAN : [st EXCEPT !.src[f] = v, !.sealed = b] \in Recoveries
    BY EditSource DEF Typed, TypedRecovery
  <2> QED
    BY <2>1, <2>2, <2>3 DEF Typed, TypedRecovery
<1>5. TypedRun'
  <2>1. \/ \E p \in {"writing", "transferred"}, v \in Contents :
             run' = [run EXCEPT !.pc = p, !.item = f, !.got = v]
        \/ \E e \in BOOLEAN : run' = [run EXCEPT !.pc = "copies", !.left = @ \ {f},
                                        !.got = Nil, !.err = e]
    BY Values DEF Typed, TypedSides, TypedRun, Runs, Download, Transferred, Skip
  <2>2. run \in Runs /\ f \in Items
    BY DEF Typed, TypedRun, Items
  <2>3. CASE \E p \in {"writing", "transferred"}, v \in Contents :
               run' = [run EXCEPT !.pc = p, !.item = f, !.got = v]
    BY <2>2, <2>3 DEF TypedRun, Runs, Places
  <2>4. CASE \E e \in BOOLEAN : run' = [run EXCEPT !.pc = "copies", !.left = @ \ {f},
                                        !.got = Nil, !.err = e]
    BY <2>2, <2>4, Values DEF TypedRun, Runs, Places
  <2> QED
    BY <2>1, <2>3, <2>4
<1> QED
  BY <1>1, <1>2, <1>3, <1>4, <1>5 DEF Typed

LEMMA WriteTyped ==
  ASSUME Typed, Write
  PROVE  Typed'
<1> DEFINE f == run.item
<1>a. f \in Files /\ run.got \in Contents
  BY DEF Typed, TypedRun, Runs, Write, At
<1>1. TypedSides'
  BY <1>a DEF Typed, TypedSides, Write, setup, config
<1>2. TypedMarks'
  BY <1>a, ForceAssumption
  DEF Typed, TypedMarks, Write, Ok, Transferred, Skip, recovery
<1>3. TypedCanon'
  BY DEF Typed, TypedCanon, TypedMarks, Write, Ok
<1>4. TypedRecovery'
  <2>1. st' = st \/ \E v \in Contents, b \in BOOLEAN :
                       st' = [st EXCEPT !.src[f] = v, !.sealed = b]
    BY <1>a DEF Typed, TypedRecovery, Recoveries, Write, Transferred, recovery
  <2>2. held' = held /\ disk' = disk
    BY DEF Write, Transferred, recovery
  <2>3. \A v \in Contents, b \in BOOLEAN : [st EXCEPT !.src[f] = v, !.sealed = b] \in Recoveries
    BY <1>a, EditSource DEF Typed, TypedRecovery
  <2> QED
    BY <2>1, <2>2, <2>3 DEF Typed, TypedRecovery
<1>5. TypedRun'
  <2>1. \/ run' = [run EXCEPT !.pc = "transferred", !.item = f, !.got = Nil]
        \/ \E e \in BOOLEAN : run' = [run EXCEPT !.pc = "copies", !.left = @ \ {f},
                                        !.got = Nil, !.err = e]
    BY DEF Typed, TypedRun, Runs, Write, Transferred, Skip
  <2>2. run \in Runs /\ f \in Items
    BY <1>a DEF Typed, TypedRun, Items
  <2>3. CASE run' = [run EXCEPT !.pc = "transferred", !.item = f, !.got = Nil]
    BY <1>a, <2>2, <2>3, Values DEF TypedRun, Runs, Places
  <2>4. CASE \E e \in BOOLEAN : run' = [run EXCEPT !.pc = "copies", !.left = @ \ {f},
                                        !.got = Nil, !.err = e]
    BY <2>2, <2>4, Values DEF TypedRun, Runs, Places
  <2> QED
    BY <2>1, <2>3, <2>4
<1> QED
  BY <1>1, <1>2, <1>3, <1>4, <1>5 DEF Typed

LEMMA RetireTyped ==
  ASSUME Typed, NEW f \in Files, Retire(f)
  PROVE  Typed'
<1>1. TypedSides'
  BY DEF Typed, TypedSides, Retire, At, Ok, Persist, Skip, File, setup, config, sides, ghosts
<1>2. TypedMarks'
  BY ForceAssumption
  DEF Typed, TypedMarks, Retire, At, Ok, Persist, Skip, File, setup, config, sides, recovery,
      ghosts, Untouched
<1>3. TypedCanon'
  BY DEF Typed, TypedCanon, TypedMarks, Retire, At, Ok, Persist, Skip, File, Canons
<1>4. TypedRecovery'
  <2>1. [st EXCEPT !.src[f] = Nil, !.todo = @ \ {f}] \in Recoveries
    BY Values, EditRetired DEF Typed, TypedRecovery
  <2> QED
    BY <2>1 DEF Typed, TypedRecovery, Retire, Persist
<1>5. TypedRun'
  <2>1. \E e \in BOOLEAN : run' = [run EXCEPT !.pc = "copies", !.left = @ \ {f}, !.got = Nil,
                                        !.err = e]
    BY DEF Typed, TypedRun, Runs, Retire, Skip
  <2>2. run \in Runs
    BY DEF Typed, TypedRun
  <2> QED
    BY <2>1, <2>2, Values DEF TypedRun, Runs, Places
<1> QED
  BY <1>1, <1>2, <1>3, <1>4, <1>5 DEF Typed

LEMMA RecordTyped ==
  ASSUME Typed, Record
  PROVE  Typed'
<1>1. TypedSides'
  BY DEF Typed, TypedSides, Record, At, Ok, Persist, setup, config, sides, ghosts
<1>2. TypedMarks'
  BY ForceAssumption
  DEF Typed, TypedMarks, Record, At, Ok, Persist, setup, config, sides, recovery, ghosts,
      Untouched
<1>3. TypedCanon'
  BY DEF Typed, TypedCanon, TypedMarks, Record, At, Ok, Persist, Canons
<1>4. TypedRecovery'
  <2>1. CASE run.item \in Files
    <3>1. st.src[run.item] \in Contents
      BY <2>1 DEF Typed, TypedRecovery, Recoveries
    <3>2. [st EXCEPT !.files[run.item] = st.src[run.item], !.todo = @ \ {run.item},
                     !.sealed = TRUE] \in Recoveries
      BY <2>1, <3>1, EditRecorded DEF Typed, TypedRecovery
    <3> QED
      BY <3>2 DEF Typed, TypedRecovery, Record, Persist
  <2>2. CASE run.item \notin Files
    <3>1. [st EXCEPT !.files[run.item] = st.src[run.item], !.todo = @ \ {run.item},
                     !.sealed = TRUE] \in Recoveries
      BY <2>2 DEF Typed, TypedRecovery, Recoveries
    <3> QED
      BY <3>1 DEF Typed, TypedRecovery, Record, Persist
  <2> QED
    BY <2>1, <2>2
<1>5. TypedRun'
  <2>1. \E e \in BOOLEAN :
          run' = [run EXCEPT !.pc = "copies", !.left = @ \ {run.item}, !.err = e]
    BY DEF Typed, TypedRun, Runs, Record
  <2> QED
    BY <2>1 DEF Typed, TypedRun, Runs, Places
<1> QED
  BY <1>1, <1>2, <1>3, <1>4, <1>5 DEF Typed

LEMMA EndCopiesTyped ==
  ASSUME Typed, EndCopies
  PROVE  Typed'
<1>1. TypedSides'
  BY DEF Typed, TypedSides, EndCopies, At, Ok, Persist, GoErr, setup, config, sides, ghosts
<1>2. TypedMarks'
  BY ForceAssumption
  DEF Typed, TypedMarks, EndCopies, At, Ok, Persist, GoErr, setup, config, sides, recovery,
      ghosts, Untouched
<1>3. TypedCanon'
  BY DEF Typed, TypedCanon, TypedMarks, EndCopies, At, Ok, Persist, GoErr, Canons
<1>4. TypedRecovery'
  BY DEF Typed, TypedRecovery, TypedSides, EndCopies, At, Ok, Persist, GoErr, Recoveries
<1>5. TypedRun'
  BY DEF Typed, TypedRun, TypedRecovery, EndCopies, At, Ok, Persist, GoErr,
      Recoveries, Runs, Places
<1> QED
  BY <1>1, <1>2, <1>3, <1>4, <1>5 DEF Typed

LEMMA PublishRemainderTyped ==
  ASSUME Typed, PublishRemainder
  PROVE  Typed'
<1>1. TypedSides'
  BY DEF Typed, TypedSides, PublishRemainder, At, Ok, End, setup, config, sides, recovery,
      ghosts
<1>2. TypedMarks'
  BY ForceAssumption
  DEF Typed, TypedMarks, PublishRemainder, At, Ok, End, setup, config, sides, recovery,
      ghosts, Untouched
<1>3. TypedCanon'
  <2>1. Maintenance \in Canons /\ Maintenance.rev = 1
    BY DEF Typed, TypedRecovery, Recoveries, Maintenance, Canons
  <2>2. canon' \in {canon, Maintenance}
    BY DEF PublishRemainder
  <2>3. used'.edits = used.edits /\ used.edits \in Nat
    BY DEF Typed, TypedMarks, PublishRemainder, Ok
  <2> QED
    BY <2>1, <2>2, <2>3 DEF Typed, TypedCanon
<1>4. TypedRecovery'
  BY DEF Typed, TypedRecovery, TypedSides, PublishRemainder, At, Ok, End, setup, config,
      sides, recovery, ghosts, Recoveries
<1>5. TypedRun'
  BY Values
  DEF Typed, TypedRun, TypedRecovery, PublishRemainder, At, Ok, End, Recoveries, Runs
<1> QED
  BY <1>1, <1>2, <1>3, <1>4, <1>5 DEF Typed

LEMMA PublishFinalTyped ==
  ASSUME Typed, PublishFinal
  PROVE  Typed'
<1>1. TypedSides'
  BY DEF Typed, TypedSides, PublishFinal, At, Ok, Go, End, setup, config, sides, ghosts
<1>2. TypedMarks'
  BY ForceAssumption
  DEF Typed, TypedMarks, PublishFinal, At, Ok, Go, End, setup, config, sides, recovery,
      ghosts, Untouched
<1>3. TypedCanon'
  <2> DEFINE new == [gen |-> "new", files |-> st.files, rev |-> 3]
  <2>1. new \in Canons /\ new.rev = 3
    BY DEF Typed, TypedRecovery, Recoveries, Canons
  <2>2. canon' \in {canon, new}
    BY DEF PublishFinal
  <2>3. used'.edits = used.edits /\ used.edits \in Nat
    BY DEF Typed, TypedMarks, PublishFinal, Ok
  <2> QED
    BY <2>1, <2>2, <2>3 DEF Typed, TypedCanon
<1>4. TypedRecovery'
  <2>1. [st EXCEPT !.fin = TRUE] \in Recoveries
    BY EditMarks DEF Typed, TypedRecovery
  <2> QED
    BY <2>1 DEF Typed, TypedRecovery, PublishFinal
<1>5. TypedRun'
  BY Values
  DEF Typed, TypedRun, TypedRecovery, PublishFinal, At, Ok, Go, End, Recoveries, Runs,
      Places
<1> QED
  BY <1>1, <1>2, <1>3, <1>4, <1>5 DEF Typed

LEMMA SaveReceiptTyped ==
  ASSUME Typed, SaveReceipt
  PROVE  Typed'
<1>1. TypedSides'
  BY DEF Typed, TypedSides, SaveReceipt, At, Ok, Persist, Go, End, setup, config, sides, ghosts
<1>2. TypedMarks'
  BY ForceAssumption
  DEF Typed, TypedMarks, SaveReceipt, At, Ok, Persist, Go, End, setup, config, sides,
      recovery, ghosts, Untouched
<1>3. TypedCanon'
  BY DEF Typed, TypedCanon, TypedMarks, SaveReceipt, At, Ok, Persist, Go, End, Canons
<1>4. TypedRecovery'
  BY DEF Typed, TypedRecovery, TypedSides, SaveReceipt, At, Ok, Persist, Go, End,
      Recoveries
<1>5. TypedRun'
  BY Values
  DEF Typed, TypedRun, TypedRecovery, SaveReceipt, At, Ok, Persist, Go, End,
      Recoveries, Runs, Places
<1> QED
  BY <1>1, <1>2, <1>3, <1>4, <1>5 DEF Typed

LEMMA FinishTyped ==
  ASSUME Typed, Finish
  PROVE  Typed'
<1>1. TypedSides'
  <2>1. base' \in {base, st.files}
    BY DEF Finish
  <2>2. st.files \in [Files -> Contents]
    BY DEF Typed, TypedRecovery, Recoveries
  <2> QED
    BY <2>1, <2>2 DEF Typed, TypedSides, Finish, setup, config, sides
<1>2. TypedMarks'
  <2>1. used' \in [edits : 0 .. MaxEdit, faults : 0 .. MaxFault]
    BY Counting DEF Finish
  <2>2. queue' \in [Files -> Events]
    BY EventsStay DEF Typed, TypedMarks, Finish
  <2>3. saved' \in {queue', saved} /\ outcome' \in {"success", "failed"}
    BY DEF Finish, End
  <2> QED
    BY <2>1, <2>2, <2>3 DEF Typed, TypedMarks, Finish, ghosts
<1>3. TypedCanon'
  BY DEF Typed, TypedCanon, TypedMarks, Finish, At, Ok, End, Canons
<1>4. TypedRecovery'
  BY Values
  DEF Typed, TypedRecovery, TypedSides, Finish, At, Ok, End, setup, config, sides, recovery,
      ghosts, Recoveries
<1>5. TypedRun'
  BY Values DEF Typed, TypedRun, TypedRecovery, Finish, At, Ok, End, Recoveries, Runs
<1> QED
  BY <1>1, <1>2, <1>3, <1>4, <1>5 DEF Typed

----------------------------------------------------------------------------
(* What the checkpoint records, on the two sides and in the index.         *)

\* A deletion that waits covers f.
Awaits(s, f) == \E p \in s.dels : f \in Under(p)

\* A file waits for its copy or is recorded with its source, never both; what
\* is recorded is on the disk, and what is on the disk is accounted for, but
\* for what the others have changed and the settings spare.
Accounted(s, dir, side, theirs, spared) ==
  \A f \in Files :
    /\ f \in s.todo => s.files[f] = Nil
    /\ s.files[f] # Nil => s.files[f] = s.src[f]
    /\ f \notin theirs /\ s.files[f] # Nil =>
         side[f] = s.files[f] \/ (dir = "from_local" /\ Awaits(s, f))
    /\ f \notin theirs \cup spared /\ side[f] # Nil =>
         \/ f \in s.todo \/ s.files[f] # Nil
         \/ dir = "from_local" /\ Awaits(s, f)

\* The vault is the source: what has not been recorded waits.
Sourced(s, side, own) ==
  \A f \in own : /\ s.src[f] = side[f]
                 /\ s.files[f] = Nil /\ side[f] # Nil => f \in s.todo

\* The vault is the destination: a file is what the record says, or waits for
\* its deletion, or has just landed.
Replaced(s, side, own, landing) ==
  \A f \in own :
    \/ side[f] = s.files[f]
    \/ Awaits(s, f) /\ (side[f] = Nil => s.files[f] = Nil)
    \/ f \in landing /\ s.files[f] = Nil /\ side[f] = s.src[f]

\* The same of the checkpoint d on the device, while s is in memory.
ReplacedOnDisk(d, s, side, own, landing) ==
  \A f \in own :
    \/ side[f] = d.files[f]
    \/ Awaits(d, f) /\ (side[f] = Nil => d.files[f] = Nil)
    \/ d.files[f] = Nil /\ s.files[f] # Nil
    \/ f \in landing

\* What memory has taken back and the device has not is covered by a deletion
\* that is done again.
Lags(s, d) ==
  \A f \in Files :
    /\ f \in s.todo => f \in d.todo \/ Awaits(d, f)
    /\ s.files[f] = Nil /\ d.files[f] # Nil => Awaits(d, f)

\* The files for whose content in the vault the checkpoint answers.
Answered == {f \in Files \ (unseen \cup hidden \cup excluded) : ~IsLate(queue[f])}
Landing == IF run.pc = "transferred" THEN {run.item} ELSE {}

Vault ==
  held => /\ direction = "from_local" =>
               Sourced(st, local, Answered) /\ Sourced(disk, local, Answered)
          /\ direction = "from_remote" =>
               /\ Replaced(st, local, Answered, Landing)
               /\ ReplacedOnDisk(disk, st, local, Answered, Landing)
Memory == held => Accounted(st, direction, remote, foreign, excluded)
Saved == held => Accounted(disk, direction, remote, foreign, excluded)
Behind == held => Lags(st, disk)

\* The scan of the source, before anything is saved.
Scanned ==
  run.pc = "admitting" =>
    /\ direction = "from_local" => Sourced(st, local, Answered)
    /\ direction = "from_remote" =>
         \A f \in Files \ (foreign \cup excluded) : remote[f] # Nil => f \in st.todo

\* What a run is about to do was noted in the checkpoint before.
Underway ==
  /\ run.pc \in {"copies", "writing", "transferred"} => run.left \subseteq st.todo
  /\ run.pc = "deleting" =>
       /\ run.item \in st.dels
       /\ \A f \in Under(run.item) : st.files[f] = Nil /\ disk.files[f] = Nil
  /\ run.pc = "writing" =>
       /\ direction = "from_remote" /\ run.item \in run.left /\ run.got # Nil
       /\ run.item \notin foreign => remote[run.item] = run.got
  /\ run.pc = "transferred" =>
       /\ run.item \in run.left /\ st.src[run.item] # Nil
       /\ run.item \notin foreign => remote[run.item] = st.src[run.item]
       /\ direction = "from_remote" /\ run.item \in Answered =>
            local[run.item] = st.src[run.item]

\* When the new generation is published nothing waits, on the device neither.
Settled(s) == s.dels = {} /\ s.todo = {}
Generation ==
  /\ ~held => st.files = Empty /\ ~st.fin /\ run.pc # "publishing"
  /\ Preparing => outcome = "none"
  /\ ~held /\ outcome = "none" => canon.gen = "old"
  /\ outcome = "success" => ~held
  /\ (canon.gen = "new" /\ held) \/ st.fin => Settled(st)
  /\ (canon.gen = "new" /\ held) \/ disk.fin => Settled(disk)
  /\ run.pc = "publishing" /\ ~run.err => disk = st
  /\ run.pc \in {"receipt", "finishing"} => st.fin

Content == Vault /\ Memory /\ Saved /\ Behind

RInv == /\ Typed /\ Content /\ Scanned /\ Underway /\ Generation
        /\ CanonDescribesDisk /\ NoEditForgotten

-----------------------------------------------------------------------------
(* Two checkpoints that record the same.                                   *)

Alike(s, t) == /\ t.dels = s.dels /\ t.todo = s.todo
               /\ t.src = s.src /\ t.files = s.files

LEMMA AlikeRecords ==
  ASSUME NEW s, NEW t, Alike(s, t)
  PROVE  /\ \A dir, side, theirs, spared :
              Accounted(s, dir, side, theirs, spared)
                => Accounted(t, dir, side, theirs, spared)
         /\ \A side, own : Sourced(s, side, own) => Sourced(t, side, own)
         /\ \A side, own, landing :
              Replaced(s, side, own, landing) => Replaced(t, side, own, landing)
         /\ \A d, side, own, landing :
              ReplacedOnDisk(d, s, side, own, landing)
                => ReplacedOnDisk(d, t, side, own, landing)
         /\ \A d : Lags(s, d) => Lags(t, d)
<1>1. \A f : Awaits(s, f) <=> Awaits(t, f)
  BY DEF Alike, Awaits
<1>2. t.todo = s.todo /\ t.src = s.src /\ t.files = s.files
  BY DEF Alike
<1>3. \A dir, side, theirs, spared :
        Accounted(s, dir, side, theirs, spared) => Accounted(t, dir, side, theirs, spared)
  BY <1>1, <1>2 DEF Accounted
<1>4. \A side, own : Sourced(s, side, own) => Sourced(t, side, own)
  BY <1>2 DEF Sourced
<1>5. \A side, own, landing :
        Replaced(s, side, own, landing) => Replaced(t, side, own, landing)
  BY <1>1, <1>2 DEF Replaced
<1>6. \A d, side, own, landing :
        ReplacedOnDisk(d, s, side, own, landing)
          => ReplacedOnDisk(d, t, side, own, landing)
  BY <1>2 DEF ReplacedOnDisk
<1>7. \A d : Lags(s, d) => Lags(t, d)
  BY <1>2 DEF Lags
<1> QED
  BY <1>3, <1>4, <1>5, <1>6, <1>7

\* The checkpoint in memory is saved, or not, with what it says of the world.
LEMMA Saving ==
  ASSUME Content, held, held',
         direction' \in {"from_local", "from_remote"},
         direction' = direction, disk' = st' \/ disk' = disk,
         Accounted(st', direction', remote', foreign', excluded'),
         disk' = disk => Accounted(disk, direction', remote', foreign', excluded'),
         Lags(st', disk),
         direction' = "from_local" =>
           Sourced(st', local', Answered') /\ Sourced(disk, local', Answered'),
         direction' = "from_remote" =>
           /\ Replaced(st', local', Answered', Landing')
           /\ ReplacedOnDisk(disk, st', local', Answered', Landing')
  PROVE  Content'
<1>1. Lags(st', st')
  BY DEF Lags
<1>2. \A side, own, landing :
        Replaced(st', side, own, landing)
          => ReplacedOnDisk(st', st', side, own, landing)
  BY DEF Replaced, ReplacedOnDisk
<1>3. Memory'
  BY DEF Memory
<1>4. Saved'
  BY DEF Saved
<1>5. Behind'
  BY <1>1 DEF Behind
<1>6. Vault'
  BY <1>2 DEF Vault
<1> QED
  BY <1>3, <1>4, <1>5, <1>6 DEF Content

\* The checkpoint stays; the world changes where it does not answer.
LEMMA Aside ==
  ASSUME Content, UNCHANGED <<st, disk, held, direction, excluded>>,
         direction \in {"from_local", "from_remote"},
         Answered' \subseteq Answered, \A f \in Answered' : local'[f] = local[f],
         foreign \subseteq foreign', \A f \in Files \ foreign' : remote'[f] = remote[f],
         Landing \subseteq Landing'
  PROVE  Content'
<1>1. \A s : Accounted(s, direction, remote, foreign, excluded)
               => Accounted(s, direction, remote', foreign', excluded)
  BY DEF Accounted
<1>2. \A s : Sourced(s, local, Answered) => Sourced(s, local', Answered')
  BY DEF Sourced
<1>3. \A s : Replaced(s, local, Answered, Landing)
               => Replaced(s, local', Answered', Landing')
  BY DEF Replaced
<1>4. \A d, s : ReplacedOnDisk(d, s, local, Answered, Landing)
                  => ReplacedOnDisk(d, s, local', Answered', Landing')
  BY DEF ReplacedOnDisk
<1>5. Memory' /\ Saved'
  BY <1>1 DEF Content, Memory, Saved
<1>6. Behind'
  BY DEF Content, Behind
<1>7. Vault'
  BY <1>2, <1>3, <1>4 DEF Content, Vault
<1> QED
  BY <1>5, <1>6, <1>7 DEF Content

\* No checkpoint, nothing to answer for.
LEMMA Unheld == ~held' => Content'
  BY DEF Content, Vault, Memory, Saved, Behind

\* A mark is set, or the same is saved again.
LEMMA Marking ==
  ASSUME Content, held, held', Alike(st, st'), disk' = st' \/ disk' = disk,
         direction \in {"from_local", "from_remote"}, Landing \subseteq Landing',
         UNCHANGED <<direction, excluded, local, remote, queue, unseen, foreign, hidden>>
  PROVE  Content'
<1>1. Answered' = Answered
  BY DEF Answered
<1>2. Accounted(st', direction', remote', foreign', excluded') /\ Lags(st', disk)
  BY AlikeRecords DEF Content, Memory, Behind
<1>3. Accounted(disk, direction', remote', foreign', excluded')
  BY DEF Content, Saved
<1>4. direction' = "from_local" =>
        Sourced(st', local', Answered') /\ Sourced(disk, local', Answered')
  BY <1>1, AlikeRecords DEF Content, Vault
<1>5. ASSUME direction' = "from_remote"
      PROVE  /\ Replaced(st', local', Answered', Landing')
             /\ ReplacedOnDisk(disk, st', local', Answered', Landing')
  <2>1. /\ Replaced(st', local, Answered, Landing)
        /\ ReplacedOnDisk(disk, st', local, Answered, Landing)
    BY <1>5, AlikeRecords DEF Content, Vault
  <2> QED
    BY <1>1, <2>1 DEF Replaced, ReplacedOnDisk
<1> QED
  BY <1>2, <1>3, <1>4, <1>5, Saving

----------------------------------------------------------------------------
(* The steps.                                                              *)

LEMMA Blank ==
  /\ NoForce.files = Empty /\ NoForce.dels = {} /\ NoForce.todo = {} /\ ~NoForce.fin
  /\ \A f \in Files : Empty[f] = Nil
  BY DEF NoForce, Empty

\* A run that changes something holds a checkpoint.
LEMMA Holding ==
  ASSUME IInv, Typed, run.pc \notin {"idle", "preflight", "confirming", "scanning", "admitting"}
  PROVE  held /\ (run.pc # "transferred" => Landing = {})
  BY DEF IInv, Checkpoint, Preparing, Landing

\* A run in its copies has something to do for each of them.
LEMMA Waiting ==
  ASSUME IInv, RInv, NEW f \in Files, File(f) \/ (At("writing") /\ f = run.item)
  PROVE  /\ held /\ f \in st.todo /\ st.files[f] = Nil /\ ~Settled(st)
         /\ f \in disk.todo \/ Awaits(disk, f)
         /\ disk.files[f] # Nil => Awaits(disk, f)
<1>1. held /\ f \in st.todo
  BY Holding DEF RInv, Underway, File, At
<1>2. st.files[f] = Nil
  BY <1>1 DEF RInv, Content, Memory, Accounted
<1> QED
  BY <1>1, <1>2 DEF RInv, Content, Behind, Lags, Settled

LEMMA Directed ==
  ASSUME RInv
  PROVE  direction \in {"from_local", "from_remote"}
  BY DEF RInv, Typed, TypedSides

LEMMA UserChangesRecords ==
  ASSUME IInv, RInv, NEW f \in Files, UserChanges(f)
  PROVE  RInv'
<1>1. Typed'
  BY UserChangesTyped DEF RInv
<1>a. /\ UNCHANGED <<direction, excluded, remote, st, held, disk, run, outcome, foreign, hidden>>
      /\ \A g \in Files \ {f} : local'[g] = local[g] /\ kept'[g] = kept[g]
                               /\ queue'[g] = queue[g] /\ (g \in unseen' <=> g \in unseen)
      /\ f \in excluded \/ f \in unseen' \/ IsLate(queue'[f])
  BY DEF IInv, Shape, UserChanges, setup, config, recovery
<1>b. Answered' = Answered \ {f}
  BY <1>a DEF Answered
<1>2. Content'
  BY <1>a, <1>b, Directed, Aside DEF RInv, Landing, Answered
<1>3. Scanned'
  BY <1>a, <1>b DEF RInv, Scanned, Sourced, Answered
<1>4. Underway'
  BY <1>a, <1>b DEF RInv, Underway, Answered
<1>5. Generation'
  BY Nothing
  DEF RInv, UserChanges, Observed, setup, config, recovery, Generation, Settled, Preparing
<1>6. CanonDescribesDisk'
  BY DEF RInv, UserChanges, Observed, setup, config, recovery, CanonDescribesDisk, Generation,
      Settled, Underway
<1>7. NoEditForgotten'
  <2>1. base' = base
    BY DEF UserChanges
  <2> QED
    BY <1>a, <2>1 DEF RInv, NoEditForgotten
<1> QED
  BY <1>1, <1>2, <1>3, <1>4, <1>5, <1>6, <1>7 DEF RInv

LEMMA DiskChangesRecords ==
  ASSUME IInv, RInv, NEW f \in Files, DiskChanges(f)
  PROVE  RInv'
<1>1. Typed'
  BY DiskChangesTyped DEF RInv
<1>2. Content'
  BY Aside DEF RInv, DiskChanges, setup, config, recovery, Answered, Landing, Typed, TypedSides
<1>3. Scanned'
  BY Nothing
  DEF RInv, DiskChanges, setup, config, recovery, Scanned, Sourced, Answered, Preparing
<1>4. Underway'
  BY Nothing DEF RInv, DiskChanges, setup, config, recovery, Underway, Answered
<1>5. Generation'
  BY Nothing DEF RInv, DiskChanges, setup, config, recovery, Generation, Settled, Preparing
<1>6. CanonDescribesDisk'
  BY DEF RInv, DiskChanges, setup, config, recovery, CanonDescribesDisk, Generation, Settled,
      Underway
<1>7. NoEditForgotten'
  BY DEF RInv, DiskChanges, setup, config, recovery, NoEditForgotten, Generation
<1> QED
  BY <1>1, <1>2, <1>3, <1>4, <1>5, <1>6, <1>7 DEF RInv

LEMMA ForeignCommitsRecords ==
  ASSUME IInv, RInv, NEW f \in Files, ForeignCommits(f)
  PROVE  RInv'
<1>1. Typed'
  BY ForeignCommitsTyped DEF RInv
<1>2. Content'
  BY Aside
  DEF RInv, ForeignCommits, setup, config, recovery, Answered, Landing, Typed, TypedSides
<1>3. Scanned'
  BY Nothing
  DEF RInv, ForeignCommits, setup, config, recovery, Scanned, Sourced, Answered, Preparing
<1>4. Underway'
  BY Nothing DEF RInv, ForeignCommits, setup, config, recovery, Underway, Answered
<1>5. Generation'
  BY Nothing DEF RInv, ForeignCommits, setup, config, recovery, Generation, Settled, Preparing
<1>6. CanonDescribesDisk'
  BY DEF RInv, ForeignCommits, setup, config, recovery, CanonDescribesDisk, Generation,
      Settled, Underway
<1>7. NoEditForgotten'
  BY DEF RInv, ForeignCommits, setup, config, recovery, NoEditForgotten, Generation
<1> QED
  BY <1>1, <1>2, <1>3, <1>4, <1>5, <1>6, <1>7 DEF RInv

LEMMA OtherSaveRecords ==
  ASSUME IInv, RInv, OtherSave
  PROVE  RInv'
<1>1. Typed'
  BY OtherSaveTyped DEF RInv
<1>2. Content'
  <2>1. CASE ~held
    BY <2>1, Unheld DEF OtherSave
  <2>2. CASE held
    <3>1. held' /\ Landing' = Landing /\ Alike(st, st') /\ disk' = st'
      BY <2>2 DEF OtherSave, Landing, Alike
    <3> QED
      BY <2>2, <3>1, Directed, Marking DEF RInv, OtherSave, setup, config, sides, ghosts
  <2> QED
    BY <2>1, <2>2
<1>3. Scanned'
  BY Nothing
  DEF RInv, OtherSave, setup, config, sides, recovery, ghosts, Scanned, Sourced, Answered,
      Preparing
<1>4. Underway'
  BY Nothing DEF RInv, OtherSave, setup, config, sides, recovery, ghosts, Underway, Answered
<1>5. Generation'
  BY Nothing
  DEF RInv, OtherSave, setup, config, sides, recovery, ghosts, Generation, Settled, Preparing
<1>6. CanonDescribesDisk'
  BY DEF RInv, OtherSave, setup, config, sides, recovery, ghosts, CanonDescribesDisk,
      Generation, Settled, Underway
<1>7. NoEditForgotten'
  BY DEF RInv, OtherSave, setup, config, sides, recovery, ghosts, NoEditForgotten, Generation
<1> QED
  BY <1>1, <1>2, <1>3, <1>4, <1>5, <1>6, <1>7 DEF RInv

LEMMA SwitchWatchingRecords ==
  ASSUME IInv, RInv, SwitchWatching
  PROVE  RInv'
<1>1. Typed'
  BY SwitchWatchingTyped DEF RInv
<1>a. /\ UNCHANGED <<direction, excluded, local, remote, queue, unseen, foreign, hidden>>
      /\ UNCHANGED <<st, held, disk, run, canon, outcome, base>>
  BY DEF SwitchWatching, config, sides, recovery, ghosts
<1>2. Content'
  BY <1>a, Directed, Aside DEF RInv, Answered, Landing
<1>3. Scanned' /\ Underway' /\ Generation'
  BY <1>a DEF RInv, Scanned, Underway, Generation, Answered, Preparing
<1>4. CanonDescribesDisk' /\ NoEditForgotten'
  BY <1>a DEF RInv, CanonDescribesDisk, NoEditForgotten
<1> QED
  BY <1>1, <1>2, <1>3, <1>4 DEF RInv

LEMMA RestartRecords ==
  ASSUME IInv, RInv, Restart
  PROVE  RInv'
<1>1. Typed'
  BY RestartTyped DEF RInv
<1>2. Content'
  <2>1. CASE ~held'
    BY <2>1, Unheld
  <2>2. ASSUME held'
        PROVE  Content'
    <3>1. held /\ st' = disk /\ disk' = disk
      BY <2>2 DEF IInv, Checkpoint, Restart
    <3>2. UNCHANGED <<direction, excluded, local, remote, foreign>>
      BY DEF Restart, setup, config, sides
    <3>3. Answered' \subseteq Answered \ (Unexplained \cup Landing)
      BY DEF Restart, setup, config, Answered, Landing
    <3>4. Memory' /\ Saved' /\ Behind'
      BY <3>1, <3>2 DEF RInv, Content, Memory, Saved, Behind, Lags
    <3>5. ASSUME direction = "from_local"
          PROVE  Sourced(disk, local, Answered')
      BY <3>1, <3>3, <3>5 DEF RInv, Content, Vault, Sourced
    <3>6. ASSUME direction = "from_remote"
          PROVE  /\ Replaced(disk, local, Answered', Landing')
                 /\ ReplacedOnDisk(disk, disk, local, Answered', Landing')
      <4>1. ReplacedOnDisk(disk, st, local, Answered, Landing)
        BY <3>1, <3>6 DEF RInv, Content, Vault
      <4>2. \A f \in Answered' : /\ f \in Answered /\ f \notin Landing
                                 /\ ~(disk.files[f] = Nil /\ st.files[f] # Nil)
        BY <3>3 DEF Unexplained, Answered
      <4> QED
        BY <4>1, <4>2 DEF Replaced, ReplacedOnDisk
    <3> QED
      BY <3>1, <3>2, <3>4, <3>5, <3>6 DEF Content, Vault
  <2> QED
    BY <2>1, <2>2
<1>3. Scanned'
  BY Nothing
  DEF RInv, Restart, Ok, Unexplained, setup, config, sides, recovery, Scanned, Sourced,
      Answered, Preparing
<1>4. Underway'
  BY Nothing
  DEF RInv, Restart, Ok, Unexplained, setup, config, sides, recovery, Underway, Answered
<1>5. Generation'
  <2>1. held => held'
    BY Nothing DEF IInv, Checkpoint, Restart
  <2>2. ~held => disk = NoForce /\ ~held'
    BY DEF IInv, Checkpoint, Restart
  <2>3. st' = disk /\ disk' = disk /\ UNCHANGED <<canon, outcome>>
        /\ run'.pc \in {"idle", "starting"}
    BY Values DEF Restart, Idle
  <2> QED
    BY <2>1, <2>2, <2>3, Blank, Values DEF RInv, Generation, Preparing, Settled
<1>6. CanonDescribesDisk'
  BY DEF RInv, Restart, Ok, Unexplained, setup, config, sides, recovery, CanonDescribesDisk,
      Generation, Settled, Underway
<1>7. NoEditForgotten'
  BY DEF RInv, Restart, Ok, Unexplained, setup, config, sides, recovery, NoEditForgotten,
      Generation
<1> QED
  BY <1>1, <1>2, <1>3, <1>4, <1>5, <1>6, <1>7 DEF RInv

LEMMA BeginRecords ==
  ASSUME IInv, RInv, Begin
  PROVE  RInv'
<1>1. Typed'
  BY BeginTyped DEF RInv
<1>2. Content'
  BY Aside
  DEF RInv, Begin, At, Go, setup, config, sides, recovery, ghosts, Answered, Landing, Typed,
      TypedSides
<1>3. Scanned'
  BY Nothing
  DEF RInv, Begin, At, Go, setup, config, sides, recovery, ghosts, Scanned, Sourced, Answered,
      Preparing
<1>4. Underway'
  BY Nothing DEF RInv, Begin, At, Go, setup, config, sides, recovery, ghosts, Underway, Answered
<1>5. Generation'
  BY Nothing
  DEF RInv, Begin, At, Go, setup, config, sides, recovery, ghosts, Generation, Settled,
      Preparing
<1>6. CanonDescribesDisk'
  BY DEF RInv, Begin, At, Go, setup, config, sides, recovery, ghosts, CanonDescribesDisk,
      Generation, Settled, Underway
<1>7. NoEditForgotten'
  BY DEF RInv, Begin, At, Go, setup, config, sides, recovery, ghosts, NoEditForgotten,
      Generation
<1> QED
  BY <1>1, <1>2, <1>3, <1>4, <1>5, <1>6, <1>7 DEF RInv

LEMMA PrepareRecords ==
  ASSUME IInv, RInv, Prepare
  PROVE  RInv'
<1>a. ~held /\ ~held' /\ disk = NoForce /\ disk' = NoForce
  BY DEF IInv, Checkpoint, Preparing, Prepare, At
<1>b. st'.files = Empty /\ ~st'.fin
  <2>1. \E p \in {"prepared", "cleanup"} : st' = [NoForce EXCEPT !.phase = p]
    BY DEF Prepare
  <2> QED
    BY <2>1, EditMarks, Values, Blank
<1>c. outcome = "none" /\ outcome' = "none" /\ UNCHANGED canon
  BY DEF RInv, Generation, Preparing, Prepare, At
<1>d. run'.pc = "confirming"
  BY DEF RInv, Prepare, Go
<1>1. Typed'
  BY PrepareTyped DEF RInv
<1>2. Content'
  BY Unheld DEF IInv, RInv, Prepare, At, Go, setup, config, sides, Checkpoint, Preparing
<1>3. Scanned'
  BY Nothing
  DEF RInv, Prepare, At, Go, setup, config, sides, recovery, Scanned, Sourced, Answered,
      Preparing
<1>4. Underway'
  BY Nothing DEF RInv, Prepare, At, Go, setup, config, sides, recovery, Underway, Answered
<1>5. Generation'
  BY <1>a, <1>b, <1>c, <1>d, Blank DEF RInv, Generation, Preparing
<1>6. CanonDescribesDisk'
  BY DEF RInv, Prepare, At, Go, setup, config, sides, recovery, CanonDescribesDisk,
      Generation, Settled, Underway
<1>7. NoEditForgotten'
  BY <1>c DEF NoEditForgotten
<1> QED
  BY <1>1, <1>2, <1>3, <1>4, <1>5, <1>6, <1>7 DEF RInv

LEMMA CancelRecords ==
  ASSUME IInv, RInv, Cancel
  PROVE  RInv'
<1>1. Typed'
  BY CancelTyped DEF RInv
<1>2. Content'
  BY Unheld DEF IInv, RInv, Cancel, setup, config, sides, ghosts, Checkpoint, Preparing
<1>3. Scanned'
  BY Nothing
  DEF RInv, Cancel, setup, config, sides, recovery, ghosts, Scanned, Sourced, Answered,
      Preparing
<1>4. Underway'
  BY Nothing DEF RInv, Cancel, setup, config, sides, recovery, ghosts, Underway, Answered
<1>5. Generation'
  <2>1. ~held /\ disk = NoForce
    BY DEF IInv, Checkpoint, Preparing, Cancel
  <2>2. st' = NoForce /\ run' = Idle /\ outcome' = "cancelled" /\ UNCHANGED <<held, disk, canon>>
    BY DEF Cancel
  <2> QED
    BY <2>1, <2>2, Blank, Values DEF Generation, Preparing
<1>6. CanonDescribesDisk'
  BY DEF RInv, Cancel, setup, config, sides, recovery, ghosts, CanonDescribesDisk, Generation,
      Settled, Underway
<1>7. NoEditForgotten'
  BY DEF RInv, Cancel, setup, config, sides, recovery, ghosts, NoEditForgotten, Generation
<1> QED
  BY <1>1, <1>2, <1>3, <1>4, <1>5, <1>6, <1>7 DEF RInv

LEMMA ConfirmRecords ==
  ASSUME IInv, RInv, Confirm
  PROVE  RInv'
<1>1. Typed'
  BY ConfirmTyped DEF RInv
<1>a. ~held /\ ~held' /\ disk' = disk /\ run'.pc \in {"idle", "scanning"} /\ outcome = "none"
  BY Values
  DEF IInv, Checkpoint, Preparing, RInv, Typed, TypedRun, Runs, Generation, Confirm, At, Go,
      End
<1>2. Content'
  BY <1>a, Unheld
<1>3. Scanned'
  BY <1>a DEF Scanned
<1>4. Underway'
  BY <1>a DEF Underway
<1>5. Generation'
  <2>1. \/ st' = st /\ outcome' = outcome
        \/ st' = NoForce /\ outcome' = "failed" /\ run' = Idle
    BY DEF Confirm, End
  <2>2. canon' = canon
    BY DEF Confirm
  <2> QED
    BY <1>a, <2>1, <2>2, Blank, Values DEF RInv, Generation, Preparing
<1>6. CanonDescribesDisk'
  BY DEF RInv, Confirm, At, Go, setup, config, sides, recovery, ghosts, CanonDescribesDisk,
      Generation, Settled, Underway
<1>7. NoEditForgotten'
  BY <1>a DEF RInv, Confirm, End, Generation, NoEditForgotten, setup, config, sides, ghosts
<1> QED
  BY <1>1, <1>2, <1>3, <1>4, <1>5, <1>6, <1>7 DEF RInv

LEMMA ScanRecords ==
  ASSUME IInv, RInv, Scan
  PROVE  RInv'
<1> DEFINE g == [f \in Files |-> IF f \in excluded THEN Nil ELSE Source[f]]
           d == Selected(Source) \cup (IF Selected(Source) = {} THEN {} ELSE {Folder})
<1>a. ~held /\ ~held' /\ disk = NoForce /\ disk' = NoForce /\ st.files = Empty /\ ~st.fin
  BY DEF IInv, Checkpoint, Preparing, RInv, Generation, Scan, At
<1>b. g \in [Files -> Contents] /\ d \in SUBSET Items /\ st \in Recoveries
  BY Values DEF RInv, Typed, TypedSides, TypedRecovery, Source, Selected, Present, Items
<1>c. \/ st' = NoForce /\ run' = Idle /\ outcome' = "failed"
      \/ st' = [st EXCEPT !.src = g, !.todo = d] /\ run' = [run EXCEPT !.pc = "admitting"]
           /\ outcome' = outcome
  BY DEF Scan, Go, End
<1>d. \A f \in Files : /\ g[f] = IF f \in excluded THEN Nil ELSE Source[f]
                       /\ f \in d <=> f \notin excluded /\ Source[f] # Nil
  BY ForceAssumption DEF Selected, Present
<1>e. outcome = "none" /\ UNCHANGED canon /\ canon.gen = "old"
  BY <1>a DEF RInv, Generation, Preparing, Scan, At
<1> HIDE DEF g, d
<1>f. \/ st' = NoForce /\ run'.pc = "idle" /\ outcome' = "failed"
      \/ /\ st'.src = g /\ st'.todo = d /\ st'.files = Empty /\ ~st'.fin
         /\ run'.pc = "admitting" /\ outcome' = outcome
  <2>1. ASSUME st' = [st EXCEPT !.src = g, !.todo = d]
        PROVE  st'.src = g /\ st'.todo = d /\ st'.files = Empty /\ ~st'.fin
    BY <1>a, <1>b, <2>1 DEF Recoveries
  <2>2. run' = [run EXCEPT !.pc = "admitting"] => run'.pc = "admitting"
    BY DEF RInv, Typed, TypedRun, Runs
  <2> QED
    BY <1>c, <2>1, <2>2, Values
<1>1. Typed'
  BY ScanTyped DEF RInv
<1>2. Content'
  BY Unheld
  DEF IInv, RInv, Scan, At, Ok, Go, End, Selected, Present, Source, setup, config, sides,
      ghosts, Checkpoint, Preparing
<1>3. Scanned'
  <2>1. UNCHANGED <<direction, excluded, local, remote, queue, unseen, foreign, hidden>>
    BY DEF Scan, setup, config, sides, ghosts
  <2> QED
    BY <1>d, <1>f, <2>1, Directed DEF Scanned, Sourced, Answered, Source
<1>4. Underway'
  BY Nothing
  DEF IInv, RInv, Scan, At, Ok, Go, End, Selected, Present, Source, setup, config, sides,
      recovery, ghosts, Shape, Underway, Answered
<1>5. Generation'
  BY <1>a, <1>e, <1>f, Blank DEF Generation, Preparing
<1>6. CanonDescribesDisk'
  BY DEF RInv, Scan, At, Ok, Go, End, Selected, Present, Source, setup, config, sides,
      recovery, ghosts, CanonDescribesDisk, Generation, Settled, Underway
<1>7. NoEditForgotten'
  BY DEF RInv, Scan, At, Ok, Go, End, Selected, Present, Source, setup, config, sides,
      recovery, ghosts, NoEditForgotten, Generation
<1> QED
  BY <1>1, <1>2, <1>3, <1>4, <1>5, <1>6, <1>7 DEF RInv

LEMMA AdmitRecords ==
  ASSUME IInv, RInv, Admit
  PROVE  RInv'
<1> DEFINE d == DeletePlan(Destination)
<1>a. ~held /\ disk = NoForce /\ st.files = Empty /\ ~st.fin
  BY DEF IInv, Checkpoint, Preparing, RInv, Generation, Admit, At
<1>b. d \in SUBSET Items /\ st \in Recoveries
  BY DEF RInv, Typed, TypedRecovery, DeletePlan, Selected, Present, Items
<1>c. \/ st' = NoForce /\ run' = Idle /\ outcome' = "failed" /\ UNCHANGED <<held, disk>>
      \/ /\ st' = [st EXCEPT !.phase = "applying", !.dels = d] /\ disk' = st' /\ held'
         /\ run' = [run EXCEPT !.pc = "resetting"] /\ outcome' = outcome
  BY DEF Admit, Go, End
<1>d. \A f \in Files \ excluded : Destination[f] # Nil => \E p \in d : f \in Under(p)
  BY DEF DeletePlan, Selected, Present, Under
<1>e. outcome = "none" /\ UNCHANGED canon /\ canon.gen = "old"
  BY <1>a DEF RInv, Generation, Preparing, Admit, At
<1> HIDE DEF d
<1>f. \/ st' = NoForce /\ run'.pc = "idle" /\ outcome' = "failed" /\ ~held' /\ disk' = NoForce
      \/ /\ st'.dels = d /\ st'.todo = st.todo /\ st'.src = st.src /\ st'.files = Empty
         /\ ~st'.fin /\ disk' = st' /\ held' /\ run'.pc = "resetting" /\ outcome' = outcome
  <2>1. ASSUME st' = [st EXCEPT !.phase = "applying", !.dels = d]
        PROVE  /\ st'.dels = d /\ st'.todo = st.todo /\ st'.src = st.src
               /\ st'.files = Empty /\ ~st'.fin
    BY <1>a, <1>b, <2>1 DEF Recoveries
  <2>2. run' = [run EXCEPT !.pc = "resetting"] => run'.pc = "resetting"
    BY DEF RInv, Typed, TypedRun, Runs
  <2> QED
    BY <1>a, <1>c, <2>1, <2>2, Values
<1>1. Typed'
  BY AdmitTyped DEF RInv
<1>2. Content'
  <2>1. CASE ~held'
    BY <2>1, Unheld
  <2>2. ASSUME held'
        PROVE  Content'
    <3>1. /\ st'.dels = d /\ st'.todo = st.todo /\ st'.src = st.src /\ st'.files = Empty
          /\ disk' = st'
      BY <1>f, <2>2
    <3>2. UNCHANGED <<direction, excluded, local, remote, foreign>> /\ Answered' = Answered
      BY DEF Admit, setup, config, sides, ghosts, Answered
    <3>3. /\ direction = "from_local" => Sourced(st, local, Answered)
          /\ direction = "from_remote" =>
               \A f \in Files \ (foreign \cup excluded) : remote[f] # Nil => f \in st.todo
      BY DEF RInv, Scanned, Admit, At
    <3>4. Accounted(st', direction, remote, foreign, excluded)
      BY <1>d, <3>1, <3>3, Directed, Blank DEF Accounted, Awaits, Destination
    <3>5. direction = "from_local" => Sourced(st', local, Answered)
      BY <1>a, <3>1, <3>3 DEF Sourced
    <3>6. ASSUME direction = "from_remote"
          PROVE  /\ Replaced(st', local, Answered, Landing')
                 /\ ReplacedOnDisk(st', st', local, Answered, Landing')
      BY <1>d, <3>1, <3>6, Blank
      DEF Replaced, ReplacedOnDisk, Awaits, Answered, Destination
    <3>7. Lags(st', st')
      BY DEF Lags
    <3> QED
      BY <3>1, <3>2, <3>4, <3>5, <3>6, <3>7 DEF Content, Vault, Memory, Saved, Behind
  <2> QED
    BY <2>1, <2>2
<1>3. Scanned'
  BY Nothing
  DEF IInv, RInv, Admit, At, Ok, Go, End, setup, config, sides, recovery, ghosts, Shape,
      Scanned, Sourced, Answered, Checkpoint, Preparing
<1>4. Underway'
  BY Nothing
  DEF IInv, RInv, Admit, At, Ok, Go, End, setup, config, sides, recovery, ghosts, Shape,
      Underway, Answered
<1>5. Generation'
  BY <1>a, <1>e, <1>f, Blank DEF Generation, Preparing
<1>6. CanonDescribesDisk'
  BY DEF RInv, Admit, At, Ok, Go, End, setup, config, sides, recovery, ghosts,
      CanonDescribesDisk, Generation, Settled, Underway
<1>7. NoEditForgotten'
  BY DEF RInv, Admit, At, Ok, Go, End, setup, config, sides, recovery, ghosts,
      NoEditForgotten, Generation
<1> QED
  BY <1>1, <1>2, <1>3, <1>4, <1>5, <1>6, <1>7 DEF RInv

LEMMA ResumeRecords ==
  ASSUME IInv, RInv, Resume
  PROVE  RInv'
<1>1. Typed'
  BY ResumeTyped DEF RInv
<1>2. Content'
  <2>1. held /\ held' /\ Landing = {} /\ Alike(st, st') /\ disk' \in {disk, st'}
    BY DEF Resume, Admitted, At, Landing, Alike
  <2> QED
    BY <2>1, Directed, Marking DEF RInv, Resume, setup, config, sides, ghosts
<1>3. Scanned'
  BY Nothing
  DEF RInv, Resume, At, Go, setup, config, sides, recovery, ghosts, Scanned, Sourced,
      Answered, Preparing
<1>4. Underway'
  BY Nothing
  DEF RInv, Resume, At, Go, setup, config, sides, recovery, ghosts, Underway, Answered
<1>5. Generation'
  BY Nothing
  DEF RInv, Resume, At, Go, setup, config, sides, recovery, ghosts, Generation, Settled,
      Preparing
<1>6. CanonDescribesDisk'
  BY DEF RInv, Resume, At, Go, setup, config, sides, recovery, ghosts, CanonDescribesDisk,
      Generation, Settled, Underway
<1>7. NoEditForgotten'
  BY DEF RInv, Resume, At, Go, setup, config, sides, recovery, ghosts, NoEditForgotten,
      Generation
<1> QED
  BY <1>1, <1>2, <1>3, <1>4, <1>5, <1>6, <1>7 DEF RInv

LEMMA ResetRecords ==
  ASSUME IInv, RInv, Reset
  PROVE  RInv'
<1>a. held /\ held' /\ Landing = {}
  BY Holding DEF RInv, Reset, At, Persist, recovery
<1>b. /\ Alike(st, st') /\ st'.fin = st.fin /\ (disk' = st' \/ disk' = disk)
  <2>1. \/ st' = [st EXCEPT !.reset = TRUE]
        \/ st' = st
    BY DEF Reset, Persist, recovery
  <2>2. disk' = st' \/ disk' = disk
    BY DEF Reset, Persist, recovery
  <2>3. st \in Recoveries
    BY DEF RInv, Typed, TypedRecovery
  <2> QED
    BY <2>1, <2>2, <2>3 DEF Alike, Recoveries
<1>1. Typed'
  BY ResetTyped DEF RInv
<1>2. Content'
  <2>1. UNCHANGED <<direction, excluded, local, remote, queue, unseen, foreign, hidden>>
    BY DEF Reset, setup, config, sides, ghosts
  <2> QED
    BY <1>a, <1>b, <2>1, Directed, Marking DEF RInv
<1>3. Scanned'
  BY Nothing
  DEF RInv, Reset, At, Ok, Persist, setup, config, sides, recovery, ghosts, Scanned, Sourced,
      Answered, Preparing
<1>4. Underway'
  BY Nothing
  DEF RInv, Reset, At, Ok, Persist, setup, config, sides, recovery, ghosts, Underway, Answered
<1>5. Generation'
  <2>1. run'.pc = "deletes"
    BY DEF RInv, Reset
  <2>2. canon'.gen = "new" => canon.gen = "new"
    BY DEF Reset, Maintenance, NoCanon
  <2>3. ~st.fin /\ ~disk.fin
    BY DEF IInv, Final, Reset, At
  <2>4. outcome' = outcome
    BY DEF Reset
  <2> QED
    BY <1>a, <1>b, <2>1, <2>2, <2>3, <2>4
    DEF RInv, Generation, Preparing, Settled, Alike
<1>6. CanonDescribesDisk'
  <2>1. canon'.gen = "new" => canon' = canon
    BY DEF Reset, Maintenance, NoCanon
  <2>2. UNCHANGED <<remote, foreign, excluded>>
    BY DEF Reset, setup, config, sides, ghosts
  <2> QED
    BY <2>1, <2>2 DEF RInv, CanonDescribesDisk
<1>7. NoEditForgotten'
  BY DEF RInv, Reset, At, Ok, Persist, setup, config, sides, recovery, ghosts,
      NoEditForgotten, Generation
<1> QED
  BY <1>1, <1>2, <1>3, <1>4, <1>5, <1>6, <1>7 DEF RInv

LEMMA NarrowDeleteRecords ==
  ASSUME IInv, RInv, NEW p \in Items, NarrowDelete(p)
  PROVE  RInv'
<1>a. held /\ held' /\ Landing = {}
  BY Holding DEF RInv, NarrowDelete, Persist, At, recovery
<1>b. /\ st'.dels \in {st.dels, (st.dels \ {p}) \cup Narrow(p)}
      /\ disk' \in {disk, st'}
      /\ st'.todo = st.todo /\ st'.src = st.src /\ st'.files = st.files /\ st'.fin = st.fin
  <2>1. (st.dels \ {p}) \cup Narrow(p) \in SUBSET Items
    BY DEF RInv, Typed, TypedRecovery, Recoveries, Narrow, Present, Items
  <2>2. PICK r : IF r = "unsent" THEN UNCHANGED recovery
                 ELSE Persist([st EXCEPT !.dels = (@ \ {p}) \cup Narrow(p)], r = "saved")
    BY DEF NarrowDelete
  <2>3. st \in Recoveries
    BY DEF RInv, Typed, TypedRecovery
  <2>4. CASE r = "unsent"
    BY <2>2, <2>4 DEF recovery
  <2>5. CASE r # "unsent"
    BY <2>1, <2>2, <2>3, <2>5, EditDels DEF Persist, Rest
  <2> QED
    BY <2>4, <2>5
<1>c. direction = "from_remote" /\ Late(p) /\ p \in st.dels
  BY DEF IInv, Narrowed, NarrowDelete, At
<1>d. \A f \in Answered : f \in Under(p) => f \in Narrow(p) \/ local[f] = Nil
  BY <1>c, ForceAssumption DEF Answered, Narrow, Present, Late, Under
<1>e. \A f \in Narrow(p) : f \in Under(f)
  BY ForceAssumption DEF Narrow, Present, Under
<1>1. Typed'
  BY NarrowDeleteTyped DEF RInv
<1>2. Content'
  <2>1. UNCHANGED <<direction, excluded, local, remote, queue, unseen, foreign, hidden>> /\ Answered' = Answered
    BY DEF NarrowDelete, setup, config, sides, ghosts, Answered
  <2>2. /\ Accounted(st, direction, remote, foreign, excluded)
        /\ Accounted(disk, direction, remote, foreign, excluded) /\ Lags(st, disk)
    BY <1>a DEF RInv, Content, Memory, Saved, Behind
  <2>3. Accounted(st', direction, remote, foreign, excluded)
    BY <1>a, <1>b, <2>2, <1>c DEF Accounted, Awaits
  <2>4. Lags(st', disk)
    BY <1>b, <2>2 DEF Lags, Awaits
  <2>5. ASSUME direction = "from_local"
        PROVE  Sourced(st', local, Answered) /\ Sourced(disk, local, Answered)
    <3>1. Sourced(st, local, Answered) /\ Sourced(disk, local, Answered)
      BY <1>a, <2>5 DEF RInv, Content, Vault
    <3> QED
      BY <1>a, <1>b, <2>2, <2>5, <3>1, <1>c DEF Sourced, Accounted, Answered
  <2>6. ASSUME direction = "from_remote"
        PROVE  /\ Replaced(st', local, Answered, Landing')
               /\ ReplacedOnDisk(disk, st', local, Answered, Landing')
    <3>1. /\ Replaced(st, local, Answered, Landing)
          /\ ReplacedOnDisk(disk, st, local, Answered, Landing)
      BY <1>a, <2>6 DEF RInv, Content, Vault
    <3>2. Replaced(st', local, Answered, Landing')
      BY <1>a, <1>b, <2>2, <2>6, <3>1, <1>d, <1>e
      DEF Replaced, Awaits, Answered, Accounted
    <3>3. ReplacedOnDisk(disk, st', local, Answered, Landing')
      BY <1>a, <1>b, <2>2, <2>6, <3>1
      DEF ReplacedOnDisk, Awaits, Answered, Accounted, Lags
    <3> QED
      BY <3>2, <3>3
  <2>7. disk' = st' \/ disk' = disk
    BY <1>b
  <2> QED
    BY <1>a, <2>1, <2>2, <2>3, <2>4, <2>5, <2>6, <2>7, Directed, Saving DEF RInv
<1>3. Scanned'
  BY Nothing
  DEF RInv, NarrowDelete, At, Ok, Persist, setup, config, sides, recovery, ghosts, Scanned,
      Sourced, Answered, Preparing
<1>4. Underway'
  BY Nothing
  DEF RInv, NarrowDelete, At, Ok, Persist, setup, config, sides, recovery, ghosts, Underway,
      Answered
<1>5. Generation'
  <2>1. ~Settled(st) /\ ~st.fin /\ ~disk.fin
    BY <1>c DEF IInv, Final, Settled, NarrowDelete, At
  <2>2. run'.pc = "deletes"
    BY DEF RInv, NarrowDelete, At
  <2>3. disk' = disk \/ disk' = st'
    BY <1>b
  <2>4. UNCHANGED <<canon, outcome>>
    BY DEF NarrowDelete
  <2> QED
    BY <1>a, <1>b, <2>1, <2>2, <2>3, <2>4 DEF RInv, Generation, Preparing
<1>6. CanonDescribesDisk'
  BY DEF RInv, NarrowDelete, At, Ok, Persist, setup, config, sides, recovery, ghosts,
      CanonDescribesDisk, Generation, Settled, Underway
<1>7. NoEditForgotten'
  BY DEF RInv, NarrowDelete, At, Ok, Persist, setup, config, sides, recovery, ghosts,
      NoEditForgotten, Generation
<1> QED
  BY <1>1, <1>2, <1>3, <1>4, <1>5, <1>6, <1>7 DEF RInv

LEMMA PrepareDeleteRecords ==
  ASSUME IInv, RInv, NEW p \in Items, PrepareDelete(p)
  PROVE  RInv'
<1>a. held /\ held' /\ Landing = {}
  BY Holding DEF RInv, PrepareDelete, Persist, At
<1>b. /\ st'.dels = st.dels /\ st'.src = st.src /\ st'.fin = st.fin /\ st.todo \subseteq st'.todo
      /\ \A f \in Files :
           /\ f \in st'.todo <=> f \in st.todo \/ (f \in Under(p) /\ st.src[f] # Nil)
           /\ st'.files[f] =
                IF f \in Under(p) /\ st.src[f] # Nil THEN Nil ELSE st.files[f]
  BY RequeuedEdit DEF RInv, Typed, TypedRecovery, PrepareDelete, Persist, Rest
<1>c. p \in st.dels
  BY DEF IInv, Narrowed, PrepareDelete, At
<1>d. \A f \in Under(p) : Awaits(st, f) /\ Awaits(disk, f)
  BY <1>a, <1>c DEF IInv, Narrowed, Within, Awaits
<1>e. \A f \in Under(p) : f \in Files => st'.files[f] = Nil
  BY <1>a, <1>b DEF RInv, Content, Memory, Accounted
<1>1. Typed'
  BY PrepareDeleteTyped DEF RInv
<1>2. Content'
  <2>1. UNCHANGED <<direction, excluded, local, remote, queue, unseen, foreign, hidden>> /\ Answered' = Answered
    BY DEF PrepareDelete, setup, config, sides, ghosts, Answered
  <2>2. /\ Accounted(st, direction, remote, foreign, excluded)
        /\ Accounted(disk, direction, remote, foreign, excluded) /\ Lags(st, disk)
    BY <1>a DEF RInv, Content, Memory, Saved, Behind
  <2>3. Accounted(st', direction, remote, foreign, excluded)
    BY <1>a, <1>b, <2>2 DEF Accounted, Awaits
  <2>4. Lags(st', disk)
    BY <1>b, <2>2, <1>d DEF Lags, Awaits
  <2>5. ASSUME direction = "from_local"
        PROVE  Sourced(st', local, Answered) /\ Sourced(disk, local, Answered)
    <3>1. Sourced(st, local, Answered) /\ Sourced(disk, local, Answered)
      BY <1>a, <2>5 DEF RInv, Content, Vault
    <3> QED
      BY <1>a, <1>b, <2>2, <2>5, <3>1 DEF Sourced, Accounted, Answered
  <2>6. ASSUME direction = "from_remote"
        PROVE  /\ Replaced(st', local, Answered, Landing')
               /\ ReplacedOnDisk(disk, st', local, Answered, Landing')
    <3>1. /\ Replaced(st, local, Answered, Landing)
          /\ ReplacedOnDisk(disk, st, local, Answered, Landing)
      BY <1>a, <2>6 DEF RInv, Content, Vault
    <3>2. Replaced(st', local, Answered, Landing')
      BY <1>a, <1>b, <2>2, <2>6, <3>1, <1>d DEF Replaced, Awaits, Answered, Accounted
    <3>3. ReplacedOnDisk(disk, st', local, Answered, Landing')
      BY <1>a, <1>b, <2>2, <2>6, <3>1, <1>d
      DEF ReplacedOnDisk, Awaits, Answered, Accounted, Lags
    <3> QED
      BY <3>2, <3>3
  <2>7. disk' = st' \/ disk' = disk
    BY DEF PrepareDelete, Persist
  <2> QED
    BY <1>a, <2>1, <2>2, <2>3, <2>4, <2>5, <2>6, <2>7, Directed, Saving DEF RInv
<1>3. Scanned'
  BY Nothing
  DEF RInv, PrepareDelete, At, Ok, Persist, setup, config, sides, recovery, ghosts, Scanned,
      Sourced, Answered, Preparing
<1>4. Underway'
  <2>1. \/ /\ run'.pc = "deleting" /\ run'.item = p /\ disk' = st'
        \/ run'.pc = "deletes"
    BY DEF RInv, PrepareDelete, Persist, At
  <2>2. Under(p) \subseteq Files
    BY DEF Under, Items
  <2> QED
    BY <1>b, <1>c, <1>e, <2>1, <2>2 DEF Underway
<1>5. Generation'
  <2>1. ~Settled(st) /\ ~st.fin /\ ~disk.fin
    BY <1>c DEF IInv, Final, Settled, PrepareDelete, At
  <2>2. run'.pc \in {"deletes", "deleting"}
    BY DEF RInv, PrepareDelete, At
  <2>3. disk' = disk \/ disk' = st'
    BY DEF PrepareDelete, Persist
  <2>4. UNCHANGED <<canon, outcome>>
    BY DEF PrepareDelete
  <2> QED
    BY <1>a, <1>b, <2>1, <2>2, <2>3, <2>4 DEF RInv, Generation, Preparing
<1>6. CanonDescribesDisk'
  BY DEF RInv, PrepareDelete, At, Ok, Persist, setup, config, sides, recovery, ghosts,
      CanonDescribesDisk, Generation, Settled, Underway
<1>7. NoEditForgotten'
  BY DEF RInv, PrepareDelete, At, Ok, Persist, setup, config, sides, recovery, ghosts,
      NoEditForgotten, Generation
<1> QED
  BY <1>1, <1>2, <1>3, <1>4, <1>5, <1>6, <1>7 DEF RInv

LEMMA DeleteRecords ==
  ASSUME IInv, RInv, Delete
  PROVE  RInv'
<1> DEFINE p == run.item
           cleared == /\ direction = "from_remote" => \A f \in Under(p) : local'[f] = Nil
                      /\ direction = "from_local" => \A f \in Under(p) : remote'[f] = Nil
<1>a. held /\ held' /\ Landing = {} /\ Landing' = {} /\ run'.pc = "deletes"
  <2>1. held /\ Landing = {}
    BY Holding DEF RInv, Delete, At
  <2>2. run'.pc = "deletes"
    BY DEF RInv, Delete
  <2> QED
    BY <2>1, <2>2 DEF Delete, Persist, recovery, Landing
<1>b. /\ p \in Items /\ p \in st.dels /\ Under(p) \subseteq Files
      /\ \A f \in Under(p) : st.files[f] = Nil /\ disk.files[f] = Nil
  BY DEF RInv, Typed, TypedRun, Runs, Underway, Delete, At, Under, Items
<1>c. /\ local' = local \/ (local' = Cleared(local, p) /\ direction = "from_remote")
      /\ remote' = remote \/ (remote' = Cleared(remote, p) /\ direction = "from_local")
  BY Directed DEF Delete, sides
<1>d. \A f \in Files :
        /\ local'[f] = local[f]
           \/ (f \in Under(p) /\ local'[f] = Nil /\ direction = "from_remote")
        /\ remote'[f] = remote[f]
           \/ (f \in Under(p) /\ remote'[f] = Nil /\ direction = "from_local")
  BY <1>c DEF Cleared
<1>e. st' = st \/ (st' = [st EXCEPT !.dels = st.dels \ {p}] /\ cleared)
  <2>1. CASE st' = st
    BY <2>1
  <2>2. CASE st' # st
    <3>1. st' = [st EXCEPT !.dels = st.dels \ {p}]
      BY <2>2 DEF RInv, Delete, Persist, recovery
    <3>2. /\ direction = "from_remote" => local' = Cleared(local, p)
          /\ direction = "from_local" => remote' = Cleared(remote, p)
      BY <2>2, Directed DEF Delete, Confirmed, Sent, recovery
    <3> QED
      BY <1>b, <3>1, <3>2 DEF Cleared
  <2> QED
    BY <2>1, <2>2
<1>f. /\ st'.todo = st.todo /\ st'.src = st.src /\ st'.files = st.files /\ st'.fin = st.fin
      /\ st'.dels = st.dels \/ (st'.dels = st.dels \ {p} /\ cleared)
      /\ disk' = st' \/ disk' = disk
  <2>1. st.dels \ {p} \in SUBSET Items /\ st \in Recoveries
    BY DEF RInv, Typed, TypedRecovery, Recoveries
  <2>2. disk' = st' \/ disk' = disk
    BY DEF Delete, Persist, recovery
  <2> QED
    BY <1>e, <2>1, <2>2 DEF Recoveries
<1>1. Typed'
  BY DeleteTyped DEF RInv
<1>2. Content'
  <2>1. UNCHANGED <<direction, excluded, queue, unseen, foreign, hidden>> /\ Answered' = Answered
    BY DEF Delete, setup, config, ghosts, Answered
  <2>2. /\ Accounted(st, direction, remote, foreign, excluded)
        /\ Accounted(disk, direction, remote, foreign, excluded) /\ Lags(st, disk)
    BY <1>a DEF RInv, Content, Memory, Saved, Behind
  <2>3. \A f \in Files : Awaits(st', f) \/ (f \in Under(p) /\ cleared) \/ ~Awaits(st, f)
    BY <1>f DEF Awaits
  <2>4. \A f : Awaits(st', f) => Awaits(st, f)
    BY <1>f DEF Awaits
  <2>5. Accounted(st', direction, remote', foreign, excluded)
    BY <1>b, <1>d, <1>f, <2>2, <2>3 DEF Accounted
  <2>6. Accounted(disk, direction, remote', foreign, excluded)
    BY <1>b, <1>d, <2>2 DEF Accounted
  <2>7. Lags(st', disk)
    BY <1>f, <2>2 DEF Lags
  <2>8. ASSUME direction = "from_local"
        PROVE  Sourced(st', local', Answered) /\ Sourced(disk, local', Answered)
    <3>1. Sourced(st, local, Answered) /\ Sourced(disk, local, Answered)
      BY <1>a, <2>8 DEF RInv, Content, Vault
    <3> QED
      BY <1>c, <1>f, <2>8, <3>1 DEF Sourced
  <2>9. ASSUME direction = "from_remote"
        PROVE  /\ Replaced(st', local', Answered, Landing')
               /\ ReplacedOnDisk(disk, st', local', Answered, Landing')
    <3>1. /\ Replaced(st, local, Answered, Landing)
          /\ ReplacedOnDisk(disk, st, local, Answered, Landing)
      BY <1>a, <2>9 DEF RInv, Content, Vault
    <3>2. Replaced(st', local', Answered, Landing')
      BY <1>a, <1>b, <1>d, <1>f, <2>3, <2>9, <3>1 DEF Replaced, Answered
    <3>3. ReplacedOnDisk(disk, st', local', Answered, Landing')
      BY <1>a, <1>b, <1>d, <1>f, <2>9, <3>1 DEF ReplacedOnDisk, Answered
    <3> QED
      BY <3>2, <3>3
  <2> QED
    BY <1>a, <1>f, <2>1, <2>2, <2>5, <2>6, <2>7, <2>8, <2>9, Directed, Saving DEF RInv
<1>3. Scanned'
  BY Nothing
  DEF RInv, Delete, At, Ok, Persist, setup, config, sides, recovery, ghosts, Scanned, Sourced,
      Answered, Preparing
<1>4. Underway'
  BY <1>a DEF Underway
<1>5. Generation'
  <2>1. ~Settled(st) /\ ~st.fin /\ ~disk.fin
    BY <1>b DEF IInv, Final, Settled, Delete, At
  <2>2. UNCHANGED <<canon, outcome>>
    BY DEF Delete
  <2> QED
    BY <1>a, <1>f, <2>1, <2>2 DEF RInv, Generation, Preparing
<1>6. CanonDescribesDisk'
  <2>1. canon'.gen # "new"
    BY <1>a, <1>b DEF RInv, Generation, Settled, Delete
  <2> QED
    BY <2>1 DEF CanonDescribesDisk
<1>7. NoEditForgotten'
  <2>1. outcome' # "success"
    BY <1>a DEF RInv, Generation, Delete
  <2> QED
    BY <2>1 DEF NoEditForgotten
<1> QED
  BY <1>1, <1>2, <1>3, <1>4, <1>5, <1>6, <1>7 DEF RInv

LEMMA EndDeletesRecords ==
  ASSUME IInv, RInv, EndDeletes
  PROVE  RInv'
<1>a. held /\ held' /\ Landing = {}
  BY Holding DEF RInv, EndDeletes, At, Persist
<1>b. /\ Alike(st, st') /\ st'.fin = st.fin /\ (disk' = st' \/ disk' = disk)
  BY DEF EndDeletes, Persist, Alike
<1>1. Typed'
  BY EndDeletesTyped DEF RInv
<1>2. Content'
  <2>1. UNCHANGED <<direction, excluded, local, remote, queue, unseen, foreign, hidden>>
    BY DEF EndDeletes, setup, config, sides, ghosts
  <2> QED
    BY <1>a, <1>b, <2>1, Directed, Marking DEF RInv
<1>3. Scanned'
  BY Nothing
  DEF RInv, EndDeletes, At, Ok, Persist, setup, config, sides, recovery, ghosts, Scanned,
      Sourced, Answered, Preparing
<1>4. Underway'
  BY Nothing
  DEF RInv, EndDeletes, At, Ok, Persist, setup, config, sides, recovery, ghosts, Underway,
      Answered
<1>5. Generation'
  BY Nothing
  DEF RInv, EndDeletes, At, Ok, Persist, setup, config, sides, recovery, ghosts, Generation,
      Settled, Preparing
<1>6. CanonDescribesDisk'
  BY DEF RInv, EndDeletes, At, Ok, Persist, setup, config, sides, recovery, ghosts,
      CanonDescribesDisk, Generation, Settled, Underway
<1>7. NoEditForgotten'
  BY DEF RInv, EndDeletes, At, Ok, Persist, setup, config, sides, recovery, ghosts,
      NoEditForgotten, Generation
<1> QED
  BY <1>1, <1>2, <1>3, <1>4, <1>5, <1>6, <1>7 DEF RInv

LEMMA CreateFolderRecords ==
  ASSUME IInv, RInv, CreateFolder
  PROVE  RInv'
<1>a. held /\ held' /\ Landing = {}
  BY Holding DEF RInv, CreateFolder, Persist, At, recovery
<1>b. /\ st'.dels = st.dels /\ st'.src = st.src /\ st'.files = st.files /\ st'.fin = st.fin
      /\ disk' \in {disk, st'} /\ (Settled(st) => Settled(st'))
      /\ \A f \in Files : f \in st'.todo <=> f \in st.todo
  <2>1. st.todo \ {Folder} \in SUBSET Items /\ st \in Recoveries
    BY DEF RInv, Typed, TypedRecovery, Recoveries
  <2>2. st' = [st EXCEPT !.todo = st.todo \ {Folder}] \/ st' = st
    BY DEF RInv, CreateFolder, Persist, recovery
  <2>3. \A f \in Files : f # Folder
    BY ForceAssumption
  <2>4. disk' \in {disk, st'}
    BY DEF CreateFolder, Persist, recovery
  <2>5. CASE st' = st
    BY <2>4, <2>5
  <2>6. CASE st' = [st EXCEPT !.todo = st.todo \ {Folder}]
    BY <2>1, <2>3, <2>4, <2>6, EditTodo DEF Rest, Settled
  <2> QED
    BY <2>2, <2>5, <2>6
<1>1. Typed'
  BY CreateFolderTyped DEF RInv
<1>2. Content'
  <2>1. UNCHANGED <<direction, excluded, local, remote, queue, unseen, foreign, hidden>> /\ Answered' = Answered
    BY DEF CreateFolder, setup, config, sides, ghosts, Answered
  <2>2. /\ Accounted(st, direction, remote, foreign, excluded)
        /\ Accounted(disk, direction, remote, foreign, excluded) /\ Lags(st, disk)
    BY <1>a DEF RInv, Content, Memory, Saved, Behind
  <2>3. Accounted(st', direction, remote, foreign, excluded)
    BY <1>a, <1>b, <2>2 DEF Accounted, Awaits
  <2>4. Lags(st', disk)
    BY <1>b, <2>2 DEF Lags, Awaits
  <2>5. ASSUME direction = "from_local"
        PROVE  Sourced(st', local, Answered) /\ Sourced(disk, local, Answered)
    <3>1. Sourced(st, local, Answered) /\ Sourced(disk, local, Answered)
      BY <1>a, <2>5 DEF RInv, Content, Vault
    <3> QED
      BY <1>a, <1>b, <2>2, <2>5, <3>1 DEF Sourced, Accounted, Answered
  <2>6. ASSUME direction = "from_remote"
        PROVE  /\ Replaced(st', local, Answered, Landing')
               /\ ReplacedOnDisk(disk, st', local, Answered, Landing')
    <3>1. /\ Replaced(st, local, Answered, Landing)
          /\ ReplacedOnDisk(disk, st, local, Answered, Landing)
      BY <1>a, <2>6 DEF RInv, Content, Vault
    <3>2. Replaced(st', local, Answered, Landing')
      BY <1>a, <1>b, <2>2, <2>6, <3>1 DEF Replaced, Awaits, Answered, Accounted
    <3>3. ReplacedOnDisk(disk, st', local, Answered, Landing')
      BY <1>a, <1>b, <2>2, <2>6, <3>1
      DEF ReplacedOnDisk, Awaits, Answered, Accounted, Lags
    <3> QED
      BY <3>2, <3>3
  <2>7. disk' = st' \/ disk' = disk
    BY <1>b
  <2> QED
    BY <1>a, <2>1, <2>2, <2>3, <2>4, <2>5, <2>6, <2>7, Directed, Saving DEF RInv
<1>3. Scanned'
  BY Nothing
  DEF RInv, CreateFolder, At, Ok, Persist, setup, config, sides, recovery, ghosts, Scanned,
      Sourced, Answered, Preparing
<1>c. /\ run.pc = "copies" /\ run'.pc = "copies" /\ run'.left = run.left \ {Folder}
      /\ UNCHANGED <<canon, outcome>>
      /\ run.left \subseteq st.todo /\ st.todo \ {Folder} \subseteq st'.todo
  <2>1. run.pc = "copies" /\ run'.pc = "copies" /\ run'.left = run.left \ {Folder}
        /\ UNCHANGED <<canon, outcome>>
    BY DEF RInv, Typed, TypedRun, Runs, CreateFolder, At
  <2>2. st' = st \/ st' = [st EXCEPT !.todo = st.todo \ {Folder}]
    BY DEF CreateFolder, Persist, recovery
  <2> QED
    BY <2>1, <2>2 DEF RInv, Underway, Typed, TypedRecovery, Recoveries
<1>4. Underway'
  BY <1>c DEF Underway
<1>5. Generation'
  <2>1. ~st.fin /\ ~disk.fin
    BY <1>c DEF IInv, Final
  <2>2. ~Settled(st)
    BY DEF RInv, Underway, CreateFolder, At, Settled
  <2> QED
    BY <1>a, <1>b, <1>c, <2>1, <2>2 DEF RInv, Generation, Preparing
<1>6. CanonDescribesDisk'
  BY DEF RInv, CreateFolder, At, Ok, Persist, setup, config, sides, recovery, ghosts,
      CanonDescribesDisk, Generation, Settled, Underway
<1>7. NoEditForgotten'
  BY DEF RInv, CreateFolder, At, Ok, Persist, setup, config, sides, recovery, ghosts,
      NoEditForgotten, Generation
<1> QED
  BY <1>1, <1>2, <1>3, <1>4, <1>5, <1>6, <1>7 DEF RInv

LEMMA UploadRecords ==
  ASSUME IInv, RInv, NEW f \in Files, Upload(f)
  PROVE  RInv'
<1>a. held /\ held' /\ Landing = {} /\ direction = "from_local" /\ local[f] # Nil
  BY Holding DEF RInv, Upload, Transferred, recovery, File, At
<1>b. /\ st'.dels = st.dels /\ st'.todo = st.todo /\ st'.files = st.files /\ st'.fin = st.fin
      /\ disk' = disk
      /\ st' = st \/ st'.src = [st.src EXCEPT ![f] = local[f]]
  <2>1. CASE st' = st
    BY <2>1 DEF Upload, Transferred, recovery
  <2>2. CASE st' # st
    <3>1. \E b \in BOOLEAN : st' = [st EXCEPT !.src[f] = local[f], !.sealed = b]
      BY <2>2 DEF RInv, Upload, Transferred, recovery
    <3>2. local[f] \in Contents /\ st \in Recoveries
      BY DEF RInv, Typed, TypedSides, TypedRecovery
    <3>3. disk' = disk
      BY DEF Upload, Transferred, recovery
    <3> QED
      BY <3>1, <3>2, <3>3 DEF Recoveries
  <2> QED
    BY <2>1, <2>2
<1>c. \/ run'.pc = "copies" /\ run'.left = run.left \ {f}
      \/ /\ run'.pc = "transferred" /\ run'.item = f /\ run'.left = run.left
         /\ st'.src = [st.src EXCEPT ![f] = local[f]]
         /\ remote' = [remote EXCEPT ![f] = local[f]]
  <2>1. \/ run' = [run EXCEPT !.pc = "copies", !.left = @ \ {f}, !.got = Nil, !.err = TRUE]
        \/ /\ run' = [run EXCEPT !.pc = "transferred", !.item = f, !.got = Nil]
           /\ \E b \in BOOLEAN : st' = [st EXCEPT !.src[f] = local[f], !.sealed = b]
           /\ remote' = [remote EXCEPT ![f] = local[f]]
    BY DEF RInv, Typed, TypedRun, TypedRecovery, Runs, Recoveries, Upload, Transferred,
       Skip, Confirmed, Sent
  <2>2. local[f] \in Contents /\ st \in Recoveries
    BY DEF RInv, Typed, TypedSides, TypedRecovery
  <2>3. run.pc = "copies"
    BY DEF Upload, File, At
  <2> QED
    BY <2>1, <2>2, <2>3 DEF RInv, Typed, TypedRun, Runs, Recoveries
<1>d. f \in run.left /\ run.left \subseteq st.todo /\ ~Settled(st)
  BY Waiting DEF RInv, Underway, Upload, File, At
<1>e. /\ UNCHANGED <<direction, excluded, local, queue, unseen, hidden, canon, outcome>>
      /\ \A g \in Files \ {f} : remote'[g] = remote[g] /\ (g \in foreign' <=> g \in foreign)
  BY DEF Upload, setup, config
<1>1. Typed'
  BY UploadTyped DEF RInv
<1>2. Content'
  <2>1. Answered' = Answered
    BY <1>e DEF Answered
  <2>2. /\ Accounted(st, direction, remote, foreign, excluded)
        /\ Accounted(disk, direction, remote, foreign, excluded) /\ Lags(st, disk)
        /\ Sourced(st, local, Answered) /\ Sourced(disk, local, Answered)
    BY <1>a DEF RInv, Content, Memory, Saved, Behind, Vault
  <2>3. /\ f \in st.todo /\ st.files[f] = Nil
        /\ f \in disk.todo \/ Awaits(disk, f)
        /\ disk.files[f] # Nil => Awaits(disk, f)
    BY Waiting DEF Upload
  <2>4. \A g \in Files : /\ g # f => st'.src[g] = st.src[g]
                         /\ st'.src[g] = st.src[g] \/ st'.src[g] = local[g]
    BY <1>b DEF RInv, Typed, TypedRecovery, Recoveries
  <2>5. Accounted(st', direction, remote', foreign', excluded)
    BY <1>a, <1>b, <1>e, <2>2, <2>3, <2>4 DEF Accounted, Awaits
  <2>6. Accounted(disk, direction, remote', foreign', excluded)
    BY <1>a, <1>e, <2>2, <2>3 DEF Accounted
  <2>7. Lags(st', disk)
    BY <1>b, <2>2 DEF Lags
  <2>8. Sourced(st', local, Answered)
    BY <1>b, <2>2, <2>4 DEF Sourced, Answered
  <2> QED
    BY <1>a, <1>b, <1>e, <2>1, <2>2, <2>5, <2>6, <2>7, <2>8, Directed, Saving DEF RInv
<1>3. Scanned'
  BY <1>c DEF Scanned
<1>4. Underway'
  <2>1. /\ st'.src = [st.src EXCEPT ![f] = local[f]] => st'.src[f] = local[f]
        /\ remote' = [remote EXCEPT ![f] = local[f]] => remote'[f] = local[f]
    BY DEF RInv, Typed, TypedSides, TypedRecovery, Recoveries
  <2> QED
    BY <1>a, <1>b, <1>c, <1>d, <1>e, <2>1 DEF Underway
<1>5. Generation'
  <2>1. ~st.fin /\ ~disk.fin
    BY DEF IInv, Final, Upload, File, At
  <2> QED
    BY <1>a, <1>b, <1>c, <1>d, <1>e, <2>1 DEF RInv, Generation, Preparing
<1>6. CanonDescribesDisk'
  BY <1>a, <1>d, <1>e DEF RInv, Generation, CanonDescribesDisk
<1>7. NoEditForgotten'
  BY DEF RInv, Upload, At, Ok, File, Transferred, Skip, setup, config, recovery,
      NoEditForgotten, Generation
<1> QED
  BY <1>1, <1>2, <1>3, <1>4, <1>5, <1>6, <1>7 DEF RInv

LEMMA RecoverRecords ==
  ASSUME IInv, RInv, NEW f \in Files, Recover(f)
  PROVE  RInv'
<1>a. held /\ held' /\ Landing = {} /\ direction = "from_local"
  BY Holding DEF RInv, Recover, Transferred, recovery, File, At
<1>b. Alike(st, st') /\ st'.fin = st.fin /\ disk' = disk
  <2>1. CASE st' = st
    BY <2>1 DEF Recover, Transferred, recovery, Alike
  <2>2. CASE st' # st
    <3>1. remote[f] = st.src[f] /\ st' = [st EXCEPT !.src[f] = remote[f], !.sealed = @ /\ TRUE]
          /\ disk' = disk
      BY <2>2 DEF Recover, Transferred, recovery
    <3>2. st' = [st EXCEPT !.src[f] = st.src[f], !.sealed = st.sealed]
      BY <3>1 DEF RInv, Typed, TypedRecovery, Recoveries
    <3>3. st.src[f] \in Contents /\ st.sealed \in BOOLEAN /\ st \in Recoveries
      BY DEF RInv, Typed, TypedRecovery, Recoveries
    <3>4. [st.src EXCEPT ![f] = st.src[f]] = st.src
      BY DEF RInv, Typed, TypedRecovery, Recoveries
    <3> QED
      BY <3>1, <3>2, <3>3, <3>4 DEF Alike
  <2> QED
    BY <2>1, <2>2
<1>c. \/ run'.pc = "copies" /\ run'.left = run.left \ {f} /\ st' = st
      \/ /\ run'.pc = "transferred" /\ run'.item = f /\ run'.left = run.left
         /\ remote[f] = st.src[f] /\ remote[f] # Nil
  BY DEF RInv, Typed, TypedRun, Runs, Recover, Transferred, Skip, recovery, File, At
<1>d. f \in run.left /\ run.left \subseteq st.todo /\ ~Settled(st)
  BY Waiting DEF RInv, Underway, Recover, File, At
<1>1. Typed'
  BY RecoverTyped DEF RInv
<1>2. Content'
  <2>1. UNCHANGED <<direction, excluded, local, remote, queue, unseen, foreign, hidden>>
    BY DEF Recover, setup, config, sides, ghosts
  <2> QED
    BY <1>a, <1>b, <2>1, Directed, Marking DEF RInv
<1>3. Scanned'
  BY <1>c DEF Scanned
<1>4. Underway'
  <2>1. st'.todo = st.todo /\ st'.src = st.src /\ UNCHANGED <<direction, remote>>
    BY <1>b DEF Alike, Recover, setup, config, sides
  <2> QED
    BY <1>a, <1>c, <1>d, <2>1 DEF Underway
<1>5. Generation'
  <2>1. ~st.fin /\ ~disk.fin
    BY DEF IInv, Final, Recover, File, At
  <2>2. UNCHANGED <<canon, outcome>>
    BY DEF Recover
  <2> QED
    BY <1>a, <1>b, <1>c, <1>d, <2>1, <2>2 DEF RInv, Generation, Preparing, Alike
<1>6. CanonDescribesDisk'
  BY DEF RInv, Recover, At, File, Transferred, Skip, setup, config, sides, recovery, ghosts,
      CanonDescribesDisk, Generation, Settled, Underway
<1>7. NoEditForgotten'
  BY DEF RInv, Recover, At, File, Transferred, Skip, setup, config, sides, recovery, ghosts,
      NoEditForgotten, Generation
<1> QED
  BY <1>1, <1>2, <1>3, <1>4, <1>5, <1>6, <1>7 DEF RInv

LEMMA DownloadRecords ==
  ASSUME IInv, RInv, NEW f \in Files, Download(f)
  PROVE  RInv'
<1>a. held /\ held' /\ Landing = {} /\ direction = "from_remote" /\ remote[f] # Nil
  BY Holding DEF RInv, Download, Transferred, recovery, File, At
<1>b. \/ run'.pc = "copies" /\ run'.left = run.left \ {f} /\ UNCHANGED recovery
      \/ /\ run'.pc = "writing" /\ run'.item = f /\ run'.left = run.left
         /\ run'.got = remote[f] /\ UNCHANGED recovery
      \/ /\ run'.pc = "transferred" /\ run'.item = f /\ run'.left = run.left
         /\ ~Copies(f) /\ disk' = disk /\ st'.dels = st.dels /\ st'.todo = st.todo
         /\ st'.files = st.files /\ st'.fin = st.fin
         /\ st'.src = [st.src EXCEPT ![f] = remote[f]]
  <2>1. \/ /\ run' = [run EXCEPT !.pc = "copies", !.left = @ \ {f}, !.got = Nil, !.err = TRUE]
           /\ UNCHANGED recovery
        \/ /\ run' = [run EXCEPT !.pc = "writing", !.item = f, !.got = remote[f]]
           /\ UNCHANGED recovery
        \/ /\ run' = [run EXCEPT !.pc = "transferred", !.item = f, !.got = Nil]
           /\ ~Copies(f) /\ disk' = disk
           /\ \E b \in BOOLEAN : st' = [st EXCEPT !.src[f] = remote[f], !.sealed = b]
    BY DEF RInv, Typed, TypedRun, TypedRecovery, Runs, Recoveries, Download, Transferred, Skip
  <2>2. remote[f] \in Contents /\ st \in Recoveries /\ run \in Runs /\ run.pc = "copies"
    BY DEF RInv, Typed, TypedSides, TypedRecovery, TypedRun, Download, File, At
  <2>3. CASE run' = [run EXCEPT !.pc = "copies", !.left = @ \ {f}, !.got = Nil, !.err = TRUE]
             /\ UNCHANGED recovery
    BY <2>2, <2>3 DEF Runs
  <2>4. CASE run' = [run EXCEPT !.pc = "writing", !.item = f, !.got = remote[f]]
             /\ UNCHANGED recovery
    BY <2>2, <2>4 DEF Runs
  <2>5. ASSUME run' = [run EXCEPT !.pc = "transferred", !.item = f, !.got = Nil],
               NEW b \in BOOLEAN, st' = [st EXCEPT !.src[f] = remote[f], !.sealed = b]
        PROVE  /\ run'.pc = "transferred" /\ run'.item = f /\ run'.left = run.left
               /\ st'.dels = st.dels /\ st'.todo = st.todo
               /\ st'.files = st.files /\ st'.fin = st.fin
               /\ st'.src = [st.src EXCEPT ![f] = remote[f]]
    <3>1. run'.pc = "transferred" /\ run'.item = f /\ run'.left = run.left
      BY <2>2, <2>5 DEF Runs
    <3> QED
      BY <2>2, <2>5, <3>1 DEF Recoveries
  <2> QED
    BY <2>1, <2>3, <2>4, <2>5
<1>c. f \in run.left /\ run.left \subseteq st.todo /\ ~Settled(st)
  BY Waiting DEF RInv, Underway, Download, File, At
<1>d. /\ UNCHANGED <<direction, excluded, local, remote, queue, unseen, foreign, hidden>>
      /\ UNCHANGED <<canon, outcome>> /\ Answered' = Answered
  BY DEF Download, setup, config, sides, ghosts, Answered
<1>e. f \in Answered => Copies(f)
  <2>1. Replaced(st, local, Answered, Landing)
    BY <1>a DEF RInv, Content, Vault
  <2>2. f \in Answered => ~Late(f)
    BY ForceAssumption DEF Answered, Late, Under
  <2> QED
    BY <1>a, <2>1, <2>2, Waiting DEF Replaced, Awaits, Copies, AwaitingPurge, Download
<1>1. Typed'
  BY DownloadTyped DEF RInv
<1>2. Content'
  <2>1. CASE UNCHANGED recovery
    BY <1>a, <1>d, <2>1, Directed, Aside DEF RInv, recovery
  <2>2. ASSUME run'.pc = "transferred"
        PROVE  Content'
    <3>1. /\ Accounted(st, direction, remote, foreign, excluded)
          /\ Accounted(disk, direction, remote, foreign, excluded) /\ Lags(st, disk)
          /\ Replaced(st, local, Answered, Landing)
          /\ ReplacedOnDisk(disk, st, local, Answered, Landing)
      BY <1>a DEF RInv, Content, Memory, Saved, Behind, Vault
    <3>2. /\ st'.dels = st.dels /\ st'.todo = st.todo /\ st'.files = st.files
          /\ disk' = disk /\ Landing' = {f} /\ f \notin Answered
          /\ st'.src = [st.src EXCEPT ![f] = remote[f]]
      BY <1>b, <1>e, <2>2 DEF Landing
    <3>3. f \in st.todo /\ st.files[f] = Nil
      BY Waiting DEF Download
    <3>4. \A g \in Files : g # f => st'.src[g] = st.src[g]
      BY <3>2 DEF RInv, Typed, TypedRecovery, Recoveries
    <3>5. Accounted(st', direction, remote, foreign, excluded)
      BY <3>1, <3>2, <3>3, <3>4 DEF Accounted, Awaits
    <3>6. Lags(st', disk)
      BY <3>1, <3>2 DEF Lags
    <3>7. Replaced(st', local, Answered, Landing')
      BY <1>a, <3>1, <3>2, <3>3, <3>4 DEF Replaced, Awaits, Answered
    <3>8. ReplacedOnDisk(disk, st', local, Answered, Landing')
      BY <1>a, <3>1, <3>2, <3>4 DEF ReplacedOnDisk, Answered
    <3> QED
      BY <1>a, <1>d, <3>1, <3>2, <3>5, <3>6, <3>7, <3>8, Directed, Saving DEF RInv
  <2> QED
    BY <1>b, <2>1, <2>2
<1>3. Scanned'
  BY <1>b DEF Scanned
<1>4. Underway'
  <2>1. st'.src = [st.src EXCEPT ![f] = remote[f]] => st'.src[f] = remote[f]
    BY DEF RInv, Typed, TypedSides, TypedRecovery, Recoveries
  <2> QED
    BY <1>a, <1>b, <1>c, <1>d, <1>e, <2>1 DEF Underway, recovery
<1>5. Generation'
  <2>1. ~st.fin /\ ~disk.fin
    BY DEF IInv, Final, Download, File, At
  <2> QED
    BY <1>a, <1>b, <1>c, <1>d, <2>1 DEF RInv, Generation, Preparing, recovery
<1>6. CanonDescribesDisk'
  BY <1>d DEF RInv, CanonDescribesDisk
<1>7. NoEditForgotten'
  BY <1>a, <1>d DEF RInv, Generation, NoEditForgotten
<1> QED
  BY <1>1, <1>2, <1>3, <1>4, <1>5, <1>6, <1>7 DEF RInv

LEMMA WriteRecords ==
  ASSUME IInv, RInv, Write
  PROVE  RInv'
<1> DEFINE f == run.item
<1>a. /\ f \in Files /\ held /\ held' /\ Landing = {} /\ direction = "from_remote"
      /\ run.got # Nil /\ run.got \in Contents /\ run.pc = "writing"
      /\ f \notin foreign => remote[f] = run.got
  BY Holding
  DEF RInv, Typed, TypedRun, Runs, Underway, Write, Transferred, recovery, At
<1>b. \/ /\ run'.pc = "copies" /\ run'.left = run.left \ {f} /\ UNCHANGED recovery
         /\ UNCHANGED <<local, hidden>>
            \/ (hidden' = hidden \cup {f} /\ local' = [local EXCEPT ![f] = run.got])
      \/ /\ run'.pc = "transferred" /\ run'.item = f /\ run'.left = run.left
         /\ disk' = disk /\ st'.dels = st.dels /\ st'.todo = st.todo
         /\ st'.files = st.files /\ st'.fin = st.fin
         /\ st'.src = [st.src EXCEPT ![f] = run.got]
         /\ local' = [local EXCEPT ![f] = run.got] /\ hidden' = hidden
  <2>1. PICK r \in Results :
          /\ local' = IF Sent(r) THEN [local EXCEPT ![f] = run.got] ELSE local
          /\ hidden' = IF r = "lost" THEN hidden \cup {f} ELSE hidden
          /\ IF Confirmed(r) THEN Transferred(f, run.got)
             ELSE Skip(f, ~Late(f)) /\ UNCHANGED recovery
          /\ r # "unsaved"
    BY DEF Write, Results
  <2>2. st \in Recoveries /\ run \in Runs
    BY DEF RInv, Typed, TypedRecovery, TypedRun
  <2>3. CASE Confirmed(r)
    <3>1. /\ \E b \in BOOLEAN : st' = [st EXCEPT !.src[f] = run.got, !.sealed = b]
          /\ run' = [run EXCEPT !.pc = "transferred", !.item = f, !.got = Nil]
          /\ disk' = disk /\ r = "saved"
      BY <2>1, <2>2, <2>3 DEF Transferred, Confirmed, Recoveries
    <3>2. run'.pc = "transferred" /\ run'.item = f /\ run'.left = run.left
      BY <2>2, <3>1 DEF Runs
    <3>3. /\ st'.dels = st.dels /\ st'.todo = st.todo
          /\ st'.files = st.files /\ st'.fin = st.fin
          /\ st'.src = [st.src EXCEPT ![f] = run.got]
      BY <2>2, <3>1 DEF Recoveries
    <3> QED
      BY <2>1, <3>1, <3>2, <3>3 DEF Sent
  <2>4. CASE ~Confirmed(r)
    <3>1. r \in {"unsent", "lost"}
      BY <2>4 DEF Confirmed, Results
    <3>2. run'.pc = "copies" /\ run'.left = run.left \ {f} /\ UNCHANGED recovery
      BY <2>1, <2>2, <2>4 DEF Skip, Runs
    <3> QED
      BY <2>1, <3>1, <3>2 DEF Sent
  <2> QED
    BY <2>3, <2>4
<1>c. f \in run.left /\ run.left \subseteq st.todo /\ ~Settled(st)
  BY <1>a, Waiting DEF RInv, Underway, At
<1>d. /\ UNCHANGED <<direction, excluded, remote, queue, unseen, foreign, canon, outcome>>
      /\ hidden' = hidden => Answered' = Answered
      /\ hidden' = hidden \cup {f} => Answered' = Answered \ {f}
  BY DEF Write, setup, config, Answered
<1>1. Typed'
  BY WriteTyped DEF RInv
<1>e. local' = [local EXCEPT ![f] = run.got] =>
        local'[f] = run.got /\ \A g \in Files \ {f} : local'[g] = local[g]
  BY <1>a DEF RInv, Typed, TypedSides
<1>2. Content'
  <2>1. CASE run'.pc = "copies"
    <3>1. /\ UNCHANGED recovery /\ Answered' \subseteq Answered
          /\ \A g \in Answered' : local'[g] = local[g]
      BY <1>b, <1>d, <1>e, <2>1 DEF Answered
    <3> QED
      BY <1>a, <1>d, <3>1, Directed, Aside DEF RInv, recovery
  <2>2. ASSUME run'.pc = "transferred"
        PROVE  Content'
    <3>1. /\ Accounted(st, direction, remote, foreign, excluded)
          /\ Accounted(disk, direction, remote, foreign, excluded) /\ Lags(st, disk)
          /\ Replaced(st, local, Answered, Landing)
          /\ ReplacedOnDisk(disk, st, local, Answered, Landing)
      BY <1>a DEF RInv, Content, Memory, Saved, Behind, Vault
    <3>2. /\ st'.dels = st.dels /\ st'.todo = st.todo /\ st'.files = st.files
          /\ disk' = disk /\ Landing' = {f} /\ hidden' = hidden
          /\ st'.src = [st.src EXCEPT ![f] = run.got]
          /\ local'[f] = run.got /\ \A g \in Files \ {f} : local'[g] = local[g]
      BY <1>b, <1>e, <2>2 DEF Landing
    <3>3. f \in st.todo /\ st.files[f] = Nil
      BY <1>a, Waiting DEF At
    <3>4. st'.src[f] = run.got /\ \A g \in Files : g # f => st'.src[g] = st.src[g]
      BY <1>a, <3>2 DEF RInv, Typed, TypedRecovery, Recoveries
    <3>5. Accounted(st', direction, remote, foreign, excluded)
      BY <3>1, <3>2, <3>3, <3>4 DEF Accounted, Awaits
    <3>6. Lags(st', disk)
      BY <3>1, <3>2 DEF Lags
    <3>7. Replaced(st', local', Answered, Landing')
      BY <1>a, <3>1, <3>2, <3>3, <3>4 DEF Replaced, Awaits, Answered
    <3>8. ReplacedOnDisk(disk, st', local', Answered, Landing')
      BY <1>a, <3>1, <3>2, <3>4 DEF ReplacedOnDisk, Answered
    <3> QED
      BY <1>a, <1>d, <3>1, <3>2, <3>5, <3>6, <3>7, <3>8, Directed, Saving DEF RInv
  <2> QED
    BY <1>b, <2>1, <2>2
<1>3. Scanned'
  BY <1>b DEF Scanned
<1>4. Underway'
  <2>1. st'.src = [st.src EXCEPT ![f] = run.got] => st'.src[f] = run.got
    BY <1>a DEF RInv, Typed, TypedRecovery, Recoveries
  <2> QED
    BY <1>a, <1>b, <1>c, <1>d, <1>e, <2>1 DEF Underway, recovery
<1>5. Generation'
  <2>1. ~st.fin /\ ~disk.fin
    BY <1>a DEF IInv, Final
  <2> QED
    BY <1>a, <1>b, <1>c, <1>d, <2>1 DEF RInv, Generation, Preparing, recovery
<1>6. CanonDescribesDisk'
  BY <1>d DEF RInv, CanonDescribesDisk
<1>7. NoEditForgotten'
  BY <1>a, <1>d DEF RInv, Generation, NoEditForgotten
<1> QED
  BY <1>1, <1>2, <1>3, <1>4, <1>5, <1>6, <1>7 DEF RInv

LEMMA RetireRecords ==
  ASSUME IInv, RInv, NEW f \in Files, Retire(f)
  PROVE  RInv'
<1>a. held /\ held' /\ Landing = {}
  BY Holding DEF RInv, Retire, File, Persist, At
<1>b. /\ st'.dels = st.dels /\ st'.files = st.files /\ st'.fin = st.fin
      /\ st'.todo = st.todo \ {f} /\ st'.src = [st.src EXCEPT ![f] = Nil]
  BY DEF RInv, Retire, Persist
<1>c. \A g \in Files : st'.src[g] = IF g = f THEN Nil ELSE st.src[g]
  BY <1>b DEF RInv, Typed, TypedRecovery, Recoveries
<1>d. /\ st.files[f] = Nil /\ remote[f] = Nil
      /\ direction = "from_local" => local[f] = Nil
  BY Waiting DEF Retire, Source
<1>1. Typed'
  BY RetireTyped DEF RInv
<1>2. Content'
  <2>1. UNCHANGED <<direction, excluded, local, remote, queue, unseen, foreign, hidden>> /\ Answered' = Answered
    BY DEF Retire, File, setup, config, sides, ghosts, Answered
  <2>2. /\ Accounted(st, direction, remote, foreign, excluded)
        /\ Accounted(disk, direction, remote, foreign, excluded) /\ Lags(st, disk)
    BY <1>a DEF RInv, Content, Memory, Saved, Behind
  <2>3. Accounted(st', direction, remote, foreign, excluded)
    BY <1>a, <1>b, <2>2, <1>c, <1>d DEF Accounted, Awaits
  <2>4. Lags(st', disk)
    BY <1>b, <2>2 DEF Lags, Awaits
  <2>5. ASSUME direction = "from_local"
        PROVE  Sourced(st', local, Answered) /\ Sourced(disk, local, Answered)
    <3>1. Sourced(st, local, Answered) /\ Sourced(disk, local, Answered)
      BY <1>a, <2>5 DEF RInv, Content, Vault
    <3> QED
      BY <1>a, <1>b, <2>2, <2>5, <3>1, <1>c, <1>d DEF Sourced, Accounted, Answered
  <2>6. ASSUME direction = "from_remote"
        PROVE  /\ Replaced(st', local, Answered, Landing')
               /\ ReplacedOnDisk(disk, st', local, Answered, Landing')
    <3>1. /\ Replaced(st, local, Answered, Landing)
          /\ ReplacedOnDisk(disk, st, local, Answered, Landing)
      BY <1>a, <2>6 DEF RInv, Content, Vault
    <3>2. Replaced(st', local, Answered, Landing')
      BY <1>a, <1>b, <2>2, <2>6, <3>1, <1>c DEF Replaced, Awaits, Answered, Accounted
    <3>3. ReplacedOnDisk(disk, st', local, Answered, Landing')
      BY <1>a, <1>b, <2>2, <2>6, <3>1
      DEF ReplacedOnDisk, Awaits, Answered, Accounted, Lags
    <3> QED
      BY <3>2, <3>3
  <2>7. disk' = st' \/ disk' = disk
    BY DEF Retire, File, Persist
  <2> QED
    BY <1>a, <2>1, <2>2, <2>3, <2>4, <2>5, <2>6, <2>7, Directed, Saving DEF RInv
<1>3. Scanned'
  BY Nothing
  DEF RInv, Retire, At, Ok, File, Persist, Skip, setup, config, sides, recovery, ghosts,
      Scanned, Sourced, Answered, Preparing
<1>4. Underway'
  BY Nothing
  DEF RInv, Retire, At, Ok, File, Persist, Skip, setup, config, sides, recovery, ghosts,
      Underway, Answered
<1>5. Generation'
  BY Nothing
  DEF RInv, Retire, At, Ok, File, Persist, Skip, setup, config, sides, recovery, ghosts,
      Generation, Settled, Preparing
<1>6. CanonDescribesDisk'
  BY DEF RInv, Retire, At, Ok, File, Persist, Skip, setup, config, sides, recovery, ghosts,
      CanonDescribesDisk, Generation, Settled, Underway
<1>7. NoEditForgotten'
  BY DEF RInv, Retire, At, Ok, File, Persist, Skip, setup, config, sides, recovery, ghosts,
      NoEditForgotten, Generation
<1> QED
  BY <1>1, <1>2, <1>3, <1>4, <1>5, <1>6, <1>7 DEF RInv

LEMMA RecordRecords ==
  ASSUME IInv, RInv, Record
  PROVE  RInv'
<1> DEFINE f == run.item
<1>a. held /\ held' /\ Landing = {f} /\ Landing' = {}
  <2>1. run'.pc = "copies"
    BY DEF RInv, Record
  <2> QED
    BY <2>1, Holding DEF RInv, Record, Persist, At, Landing
<1>b. /\ f \in Files /\ f \in st.todo /\ st.src[f] # Nil
      /\ f \notin foreign => remote[f] = st.src[f]
      /\ direction = "from_remote" /\ f \in Answered => local[f] = st.src[f]
  BY DEF RInv, Typed, TypedRun, Underway, Record, At
<1>c. /\ st'.dels = st.dels /\ st'.src = st.src /\ st'.fin = st.fin
      /\ st'.todo = st.todo \ {f} /\ st'.files = [st.files EXCEPT ![f] = st.src[f]]
  <2>1. st.src[f] \in Contents /\ st \in Recoveries
    BY <1>b DEF RInv, Typed, TypedRecovery, Recoveries
  <2>2. st' = [st EXCEPT !.files[f] = st.src[f], !.todo = @ \ {f}, !.sealed = TRUE]
    BY DEF Record, Persist
  <2> QED
    BY <1>b, <2>1, <2>2 DEF Recoveries
<1>d. \A g \in Files : st'.files[g] = IF g = f THEN st.src[f] ELSE st.files[g]
  BY <1>c DEF RInv, Typed, TypedRecovery, Recoveries
<1>e. st.files[f] = Nil /\ (disk.files[f] # Nil => Awaits(disk, f))
  BY <1>a, <1>b DEF RInv, Content, Memory, Accounted, Behind, Lags
<1> HIDE DEF f
<1>1. Typed'
  BY RecordTyped DEF RInv
<1>2. Content'
  <2>1. UNCHANGED <<direction, excluded, local, remote, queue, unseen, foreign, hidden>> /\ Answered' = Answered
    BY DEF Record, setup, config, sides, ghosts, Answered
  <2>2. /\ Accounted(st, direction, remote, foreign, excluded)
        /\ Accounted(disk, direction, remote, foreign, excluded) /\ Lags(st, disk)
    BY <1>a DEF RInv, Content, Memory, Saved, Behind
  <2>3. Accounted(st', direction, remote, foreign, excluded)
    BY <1>a, <1>b, <1>c, <1>d, <1>e, <2>2 DEF Accounted, Awaits
  <2>4. Lags(st', disk)
    BY <1>b, <1>c, <1>d, <2>2 DEF Lags, Awaits
  <2>5. ASSUME direction = "from_local"
        PROVE  Sourced(st', local, Answered) /\ Sourced(disk, local, Answered)
    <3>1. Sourced(st, local, Answered) /\ Sourced(disk, local, Answered)
      BY <1>a, <2>5 DEF RInv, Content, Vault
    <3> QED
      BY <1>a, <1>b, <1>c, <1>d, <1>e, <2>2, <2>5, <3>1 DEF Sourced, Accounted, Answered
  <2>6. ASSUME direction = "from_remote"
        PROVE  /\ Replaced(st', local, Answered, Landing')
               /\ ReplacedOnDisk(disk, st', local, Answered, Landing')
    <3>1. /\ Replaced(st, local, Answered, Landing)
          /\ ReplacedOnDisk(disk, st, local, Answered, Landing)
      BY <1>a, <2>6 DEF RInv, Content, Vault
    <3>2. Replaced(st', local, Answered, Landing')
      BY <1>a, <1>b, <1>c, <1>d, <1>e, <2>2, <2>6, <3>1
      DEF Replaced, Awaits, Answered, Accounted
    <3>3. ReplacedOnDisk(disk, st', local, Answered, Landing')
      BY <1>a, <1>b, <1>c, <1>d, <1>e, <2>2, <2>6, <3>1
      DEF ReplacedOnDisk, Awaits, Answered, Accounted, Lags
    <3> QED
      BY <3>2, <3>3
  <2>7. disk' = st' \/ disk' = disk
    BY DEF Record, Persist
  <2> QED
    BY <1>a, <2>1, <2>2, <2>3, <2>4, <2>5, <2>6, <2>7, Directed, Saving DEF RInv
<1>3. Scanned'
  BY Nothing
  DEF RInv, Record, At, Ok, Persist, setup, config, sides, recovery, ghosts, Scanned, Sourced,
      Answered, Preparing
<1>4. Underway'
  BY Nothing
  DEF RInv, Record, At, Ok, Persist, setup, config, sides, recovery, ghosts, Underway,
      Answered
<1>5. Generation'
  BY Nothing
  DEF IInv, RInv, Record, At, Ok, Persist, setup, config, sides, recovery, ghosts, Shape,
      Generation, Settled, Checkpoint, Preparing
<1>6. CanonDescribesDisk'
  BY DEF RInv, Record, At, Ok, Persist, setup, config, sides, recovery, ghosts,
      CanonDescribesDisk, Generation, Settled, Underway
<1>7. NoEditForgotten'
  BY DEF RInv, Record, At, Ok, Persist, setup, config, sides, recovery, ghosts,
      NoEditForgotten, Generation
<1> QED
  BY <1>1, <1>2, <1>3, <1>4, <1>5, <1>6, <1>7 DEF RInv

LEMMA EndCopiesRecords ==
  ASSUME IInv, RInv, EndCopies
  PROVE  RInv'
<1>a. held /\ held' /\ Landing = {}
  BY Holding DEF RInv, EndCopies, At, Persist
<1>b. /\ Alike(st, st') /\ st'.fin = st.fin /\ (disk' = st' \/ disk' = disk)
  <2>1. st' = [st EXCEPT !.phase = "cleanup"] /\ (disk' = st' \/ disk' = disk)
    BY DEF EndCopies, Persist
  <2>2. st \in Recoveries
    BY DEF RInv, Typed, TypedRecovery
  <2> QED
    BY <2>1, <2>2, EditMarks DEF Alike
<1>1. Typed'
  BY EndCopiesTyped DEF RInv
<1>2. Content'
  <2>1. UNCHANGED <<direction, excluded, local, remote, queue, unseen, foreign, hidden>>
    BY DEF EndCopies, setup, config, sides, ghosts
  <2> QED
    BY <1>a, <1>b, <2>1, Directed, Marking DEF RInv
<1>3. Scanned'
  BY Nothing
  DEF RInv, EndCopies, At, Ok, Persist, GoErr, setup, config, sides, recovery, ghosts,
      Scanned, Sourced, Answered, Preparing
<1>4. Underway'
  BY Nothing
  DEF RInv, EndCopies, At, Ok, Persist, GoErr, setup, config, sides, recovery, ghosts,
      Underway, Answered
<1>5. Generation'
  BY Nothing
  DEF IInv, RInv, EndCopies, At, Ok, Persist, GoErr, setup, config, sides, recovery, ghosts,
      Shape, Generation, Settled, Checkpoint, Preparing, Typed, TypedRecovery,
      Recoveries
<1>6. CanonDescribesDisk'
  BY DEF RInv, EndCopies, At, Ok, Persist, GoErr, setup, config, sides, recovery, ghosts,
      CanonDescribesDisk, Generation, Settled, Underway
<1>7. NoEditForgotten'
  BY DEF RInv, EndCopies, At, Ok, Persist, GoErr, setup, config, sides, recovery, ghosts,
      NoEditForgotten, Generation
<1> QED
  BY <1>1, <1>2, <1>3, <1>4, <1>5, <1>6, <1>7 DEF RInv

LEMMA PublishRemainderRecords ==
  ASSUME IInv, RInv, PublishRemainder
  PROVE  RInv'
<1>1. Typed'
  BY PublishRemainderTyped DEF RInv
<1>2. Content'
  BY Aside
  DEF RInv, PublishRemainder, At, Ok, End, setup, config, sides, recovery, ghosts, Answered,
      Landing, Typed, TypedSides
<1>3. Scanned'
  BY Nothing
  DEF RInv, PublishRemainder, At, Ok, End, setup, config, sides, recovery, ghosts, Scanned,
      Sourced, Answered, Preparing
<1>4. Underway'
  BY Nothing
  DEF RInv, PublishRemainder, At, Ok, End, setup, config, sides, recovery, ghosts, Underway,
      Answered
<1>5. Generation'
  <2>1. held
    BY Holding DEF RInv, PublishRemainder, At
  <2>2. UNCHANGED recovery /\ (canon' = Maintenance \/ canon' = canon) /\ run' = Idle
        /\ outcome' \in {"failed", "recovery-pending"}
    BY DEF PublishRemainder, End
  <2> QED
    BY <2>1, <2>2, Values DEF RInv, Generation, Preparing, Maintenance, recovery
<1>6. CanonDescribesDisk'
  <2>1. (canon' = Maintenance \/ canon' = canon) /\ UNCHANGED <<remote, foreign, excluded>>
    BY DEF PublishRemainder, setup, config, sides, ghosts
  <2> QED
    BY <2>1 DEF RInv, CanonDescribesDisk, Maintenance
<1>7. NoEditForgotten'
  BY DEF RInv, PublishRemainder, At, Ok, End, setup, config, sides, recovery, ghosts,
      NoEditForgotten, Generation
<1> QED
  BY <1>1, <1>2, <1>3, <1>4, <1>5, <1>6, <1>7 DEF RInv

LEMMA PublishFinalRecords ==
  ASSUME IInv, RInv, PublishFinal
  PROVE  RInv'
<1>a. held /\ held' /\ Landing = {}
  BY Holding DEF RInv, PublishFinal, At
<1>b. Alike(st, st') /\ disk' = disk
  <2>1. (st' = [st EXCEPT !.fin = TRUE] \/ st' = st) /\ disk' = disk
    BY DEF PublishFinal
  <2>2. st \in Recoveries
    BY DEF RInv, Typed, TypedRecovery
  <2> QED
    BY <2>1, <2>2 DEF Alike, Recoveries
<1>c. Settled(st)
  BY DEF PublishFinal, Unfinished, Settled
<1>1. Typed'
  BY PublishFinalTyped DEF RInv
<1>2. Content'
  <2>1. UNCHANGED <<direction, excluded, local, remote, queue, unseen, foreign, hidden>>
    BY DEF PublishFinal, setup, config, sides, ghosts
  <2> QED
    BY <1>a, <1>b, <2>1, Directed, Marking DEF RInv
<1>3. Scanned'
  BY Nothing
  DEF IInv, RInv, PublishFinal, At, Ok, Go, End, Unfinished, setup, config, sides, recovery,
      ghosts, Shape, Scanned, Sourced, Answered, Checkpoint, Preparing
<1>4. Underway'
  BY Nothing
  DEF IInv, RInv, PublishFinal, At, Ok, Go, End, Unfinished, setup, config, sides, recovery,
      ghosts, Shape, Underway, Answered
<1>5. Generation'
  BY Nothing
  DEF IInv, RInv, PublishFinal, At, Ok, Go, End, Unfinished, setup, config, sides, recovery,
      ghosts, Shape, Generation, Settled, Checkpoint, Preparing
<1>6. CanonDescribesDisk'
  <2>1. canon'.files = st.files \/ canon' = canon
    BY DEF PublishFinal
  <2>2. UNCHANGED <<remote, foreign, excluded>>
    BY DEF PublishFinal, setup, config, sides, ghosts
  <2>3. Accounted(st, direction, remote, foreign, excluded)
    BY <1>a DEF RInv, Content, Memory
  <2>4. \A f \in Files \ (foreign \cup excluded) : st.files[f] = remote[f]
    BY <1>c, <2>3 DEF Accounted, Awaits, Settled
  <2>5. canon' = canon => CanonDescribesDisk'
    BY <2>2 DEF RInv, CanonDescribesDisk
  <2> QED
    BY <2>1, <2>2, <2>4, <2>5 DEF CanonDescribesDisk
<1>7. NoEditForgotten'
  BY DEF RInv, PublishFinal, At, Ok, Go, End, Unfinished, setup, config, sides, recovery,
      ghosts, NoEditForgotten, Generation
<1> QED
  BY <1>1, <1>2, <1>3, <1>4, <1>5, <1>6, <1>7 DEF RInv

LEMMA SaveReceiptRecords ==
  ASSUME IInv, RInv, SaveReceipt
  PROVE  RInv'
<1>a. held /\ held' /\ Landing = {}
  BY Holding DEF RInv, SaveReceipt, At, Persist
<1>b. /\ Alike(st, st') /\ st'.fin = st.fin /\ (disk' = st' \/ disk' = disk)
  BY DEF SaveReceipt, Persist, Alike
<1>1. Typed'
  BY SaveReceiptTyped DEF RInv
<1>2. Content'
  <2>1. UNCHANGED <<direction, excluded, local, remote, queue, unseen, foreign, hidden>>
    BY DEF SaveReceipt, setup, config, sides, ghosts
  <2> QED
    BY <1>a, <1>b, <2>1, Directed, Marking DEF RInv
<1>3. Scanned'
  BY Nothing
  DEF IInv, RInv, SaveReceipt, At, Ok, Go, End, Persist, setup, config, sides, recovery,
      ghosts, Shape, Scanned, Sourced, Answered, Checkpoint, Preparing
<1>4. Underway'
  BY Nothing
  DEF IInv, RInv, SaveReceipt, At, Ok, Go, End, Persist, setup, config, sides, recovery,
      ghosts, Shape, Underway, Answered
<1>5. Generation'
  BY Nothing
  DEF IInv, RInv, SaveReceipt, At, Ok, Go, End, Persist, setup, config, sides, recovery,
      ghosts, Shape, Generation, Settled, Checkpoint, Preparing
<1>6. CanonDescribesDisk'
  BY DEF RInv, SaveReceipt, At, Ok, Go, End, Persist, setup, config, sides, recovery, ghosts,
      CanonDescribesDisk, Generation, Settled, Underway
<1>7. NoEditForgotten'
  BY DEF RInv, SaveReceipt, At, Ok, Go, End, Persist, setup, config, sides, recovery, ghosts,
      NoEditForgotten, Generation
<1> QED
  BY <1>1, <1>2, <1>3, <1>4, <1>5, <1>6, <1>7 DEF RInv

LEMMA FinishRecords ==
  ASSUME IInv, RInv, Finish
  PROVE  RInv'
<1>a. held /\ Landing = {} /\ st.fin /\ Settled(st)
  BY Holding DEF RInv, Generation, Finish, At
<1>b. \/ st' = NoForce /\ disk' = NoForce /\ ~held' /\ base' = st.files /\ outcome' = "success"
      \/ UNCHANGED <<st, held, disk, base>> /\ outcome' = "failed"
  BY DEF Finish, End
<1>c. /\ UNCHANGED <<direction, excluded, local, remote, unseen, foreign, hidden, canon>>
      /\ run'.pc = "idle" /\ Landing' = {}
  BY Values DEF Finish, End, setup, config, sides, ghosts, Landing
<1>d. \A f \in Files : IsLate(queue'[f]) <=> IsLate(queue[f])
  <2>1. \A e \in Events : IsLate(Retired(e)) <=> IsLate(e)
    BY DEF Events, IsLate, Retired
  <2> QED
    BY <2>1 DEF RInv, Typed, TypedMarks, Finish
<1>e. Answered' = Answered
  BY <1>c, <1>d DEF Answered
<1>1. Typed'
  BY FinishTyped DEF RInv
<1>2. Content'
  <2>1. CASE ~held'
    BY <2>1, Unheld
  <2>2. CASE UNCHANGED <<st, held, disk>>
    BY <1>a, <1>c, <1>e, <2>2, Directed, Aside DEF RInv
  <2> QED
    BY <1>b, <2>1, <2>2
<1>3. Scanned'
  BY Nothing
  DEF RInv, Finish, At, Ok, End, Retired, setup, config, sides, recovery, ghosts, Scanned,
      Sourced, Answered, Preparing
<1>4. Underway'
  BY Nothing
  DEF RInv, Finish, At, Ok, End, Retired, setup, config, sides, recovery, ghosts, Underway,
      Answered
<1>5. Generation'
  BY <1>a, <1>b, <1>c, Blank DEF RInv, Generation, Preparing
<1>6. CanonDescribesDisk'
  BY DEF RInv, Finish, At, Ok, End, Retired, setup, config, sides, recovery, ghosts,
      CanonDescribesDisk, Generation, Settled, Underway
<1>7. NoEditForgotten'
  <2>1. ASSUME outcome' = "success", NEW f \in Answered
        PROVE  local[f] = st.files[f]
    <3>1. /\ Accounted(st, direction, remote, foreign, excluded)
          /\ direction = "from_local" => Sourced(st, local, Answered)
          /\ direction = "from_remote" => Replaced(st, local, Answered, Landing)
      BY <1>a DEF RInv, Content, Memory, Vault
    <3>2. st.todo = {} /\ ~Awaits(st, f) /\ f \in Files
      BY <1>a DEF Settled, Awaits, Answered
    <3>3. CASE direction = "from_local"
      BY <3>1, <3>2, <3>3 DEF Sourced, Accounted
    <3>4. CASE direction = "from_remote"
      BY <1>a, <3>1, <3>2, <3>4 DEF Replaced
    <3> QED
      BY <3>3, <3>4, Directed
  <2>2. outcome' = "success" => base' = st.files
    BY <1>b
  <2> QED
    BY <1>c, <1>d, <2>1, <2>2 DEF NoEditForgotten, Answered
<1> QED
  BY <1>1, <1>2, <1>3, <1>4, <1>5, <1>6, <1>7 DEF RInv

----------------------------------------------------------------------------
(* The records are consistent.                                             *)

LEMMA InitRInv == Init => RInv
<1> SUFFICES ASSUME Init PROVE RInv
  OBVIOUS
<1>1. Typed
  <2>0. TypedSides
    BY ForceAssumption, Values DEF Init, TypedSides, Contents, Nil
  <2>1. TypedSides /\ TypedMarks
    <3>1. queue \in [Files -> Events] /\ saved = queue
      BY DEF Init, Events
    <3>2. kept \in [Files -> Contents \cup {Untouched}]
      BY DEF Init
    <3>3. used \in [edits : 0 .. MaxEdit, faults : 0 .. MaxFault]
      BY ForceAssumption DEF Init
    <3> QED
      BY <2>0, <3>1, <3>2, <3>3 DEF Init, TypedMarks
  <2>2. remote \in [Files -> Contents]
    BY <2>1 DEF TypedSides
  <2>3. canon = [gen |-> "old", files |-> remote, rev |-> 1] /\ used = [edits |-> 0, faults |-> 0]
    BY DEF Init
  <2>4. TypedCanon
    BY <2>2, <2>3 DEF TypedCanon, Canons
  <2>5. TypedRecovery /\ TypedRun
    BY Values DEF Init, TypedRecovery, TypedRun
  <2> QED
    BY <2>1, <2>4, <2>5 DEF Typed
<1>2. Content
  BY DEF Init, Content, Vault, Memory, Saved, Behind
<1>3. Scanned /\ Underway
  BY Values DEF Init, Scanned, Underway
<1>4. Generation
  BY Values, Blank DEF Init, Generation, Preparing, Settled
<1>5. CanonDescribesDisk /\ NoEditForgotten
  BY DEF Init, CanonDescribesDisk, NoEditForgotten
<1> QED
  BY <1>1, <1>2, <1>3, <1>4, <1>5 DEF RInv

LEMMA StutterRInv == RInv /\ UNCHANGED vars => RInv'
<1> SUFFICES ASSUME RInv, UNCHANGED vars PROVE RInv'
  OBVIOUS
<1> USE DEF vars, setup, config, sides, recovery, ghosts
<1>1. Typed'
  BY DEF RInv, Typed, TypedSides, TypedMarks, TypedCanon, TypedRecovery, TypedRun
<1>2. Content'
  BY Directed, Aside DEF RInv, Typed, TypedSides, Answered, Landing
<1>3. Scanned' /\ Underway'
  BY DEF RInv, Scanned, Underway, Answered
<1>4. Generation'
  BY DEF RInv, Generation, Preparing
<1>5. CanonDescribesDisk' /\ NoEditForgotten'
  BY DEF RInv, CanonDescribesDisk, NoEditForgotten
<1> QED
  BY <1>1, <1>2, <1>3, <1>4, <1>5 DEF RInv

LEMMA StepRInv == IInv /\ RInv /\ [Next]_vars => RInv'
<1> SUFFICES ASSUME IInv, RInv, [Next]_vars PROVE RInv'
  OBVIOUS
<1>1. CASE UNCHANGED vars
  BY <1>1, StutterRInv
<1>2. ASSUME NEW f \in Files, UserChanges(f) \/ DiskChanges(f) \/ ForeignCommits(f)
      PROVE  RInv'
  BY <1>2, UserChangesRecords, DiskChangesRecords, ForeignCommitsRecords
<1>3. CASE OtherSave \/ SwitchWatching \/ Restart
  BY <1>3, OtherSaveRecords, SwitchWatchingRecords, RestartRecords
<1>4. CASE Begin \/ Prepare \/ Cancel \/ Confirm \/ Resume
  BY <1>4, BeginRecords, PrepareRecords, CancelRecords, ConfirmRecords, ResumeRecords
<1>5. CASE Scan \/ Admit \/ Reset
  BY <1>5, ScanRecords, AdmitRecords, ResetRecords
<1>6. ASSUME NEW p \in Items, NarrowDelete(p) \/ PrepareDelete(p)
      PROVE  RInv'
  BY <1>6, NarrowDeleteRecords, PrepareDeleteRecords
<1>7. CASE Delete \/ EndDeletes \/ CreateFolder \/ Write \/ Record \/ EndCopies
  BY <1>7, DeleteRecords, EndDeletesRecords, CreateFolderRecords, WriteRecords,
     RecordRecords, EndCopiesRecords
<1>8. ASSUME NEW f \in Files, Upload(f) \/ Recover(f) \/ Download(f) \/ Retire(f)
      PROVE  RInv'
  BY <1>8, UploadRecords, RecoverRecords, DownloadRecords, RetireRecords
<1>9. CASE PublishRemainder \/ PublishFinal \/ SaveReceipt \/ Finish
  BY <1>9, PublishRemainderRecords, PublishFinalRecords, SaveReceiptRecords,
     FinishRecords
<1> QED
  BY <1>1, <1>2, <1>3, <1>4, <1>5, <1>6, <1>7, <1>8, <1>9
  DEF Next, ForceStep, ApplyStep, DeleteStep, CopyStep, Environment

LEMMA AlwaysRInv == Spec => []RInv
<1> QED
  BY InitRInv, StepRInv, AlwaysIInv, PTL DEF Spec

\* Every state is well formed; what the saved checkpoint records is on the disk
\* and the generation a Force publishes describes the disk, through every failed
\* call, failed save, change of somebody else and restart (applyForceReplacement,
\* publishDirectForceCanonical).
THEOREM RecordsAreConsistent == Spec => []RecordsConsistent
<1>1. ASSUME IInv, RInv
      PROVE  RecordedIsStored
  <2>1. CASE held
    <3>1. Accounted(disk, direction, remote, foreign, excluded)
      BY <1>1, <2>1 DEF RInv, Content, Saved
    <3> QED
      BY <3>1 DEF Accounted, Awaits, RecordedIsStored
  <2>2. CASE ~held
    BY <1>1, <2>2, Blank DEF IInv, Checkpoint, RecordedIsStored
  <2> QED
    BY <2>1, <2>2
<1>2. IInv /\ RInv => RecordsConsistent
  BY <1>1, TypedIs DEF RInv, RecordsConsistent
<1> QED
  BY AlwaysIInv, AlwaysRInv, <1>2, PTL

\* After a Force that succeeded every difference between the vault and the new
\* baseline has its event in the queue: finishForceReplacement retires no event
\* the run has not answered for.  Aside are changes without an event (unseen)
\* and files written to the vault and never recorded (hidden).
THEOREM EditsAreRemembered == Spec => []NoEditForgotten
<1>1. RInv => NoEditForgotten
  BY DEF RInv
<1> QED
  BY AlwaysRInv, <1>1, PTL
=============================================================================
