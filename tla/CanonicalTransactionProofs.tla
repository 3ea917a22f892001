--------------------- MODULE CanonicalTransactionProofs ---------------------
(***************************************************************************)
(* Proofs about CanonicalTransaction, for any number of devices, mutations,*)
(* names, faults and crashes: without the hazards the module names, the    *)
(* index file is a token that is never duplicated.                         *)
(*                                                                         *)
(* The invariant the proof rests on says who may touch which name: a lock  *)
(* or claim name belongs to at most one running operation, what automatic  *)
(* recovery moves belongs to none, and a device that is about to overwrite *)
(* its lock has the index under that name.                                 *)
(*                                                                         *)
(* The next part needs no assumption on the hazards: what a recovery       *)
(* publishes is what it has observed, because a claim name is filled once. *)
(*                                                                         *)
(* The last part is about what the index holds: its content only grows,    *)
(* whoever holds it holds the published index or a successor of it, and    *)
(* with this the transactions implement the atomic register of             *)
(* CanonicalRegister.                                                      *)
(***************************************************************************)
EXTENDS CanonicalTransaction, TLAPS

\* The device means to move or delete a lock that is not its own.
TargetSteps == RecoverySteps \cup {"orphanCanonical", "orphanJudge",
                                   "orphanCheck", "orphanDelete"}

ClaimSteps == RecoverySteps \ {"staleRead"}

\* The device is about to rely on the index being under its own lock.
Relies(r) == \/ r.pc \in {"read", "write", "restore"}
             \/ r.pc \in {"acquireFailed", "rollback"} /\ Present(r.seenL)

\* What holds of the local state r of one device, given the disk.
LocalInv(r, disk, taken) ==
  /\ r \in LocalState
  /\ r.lock # Absent => r.lock \in taken
  /\ r.claim # Absent => r.claim \in taken /\ r.claim # r.lock
  /\ r.pc = "idle" => r.lock = Absent /\ r.claim = Absent
  /\ r.pc # "seed"
  /\ r.pc \in OwnerSteps \/ r.job = "commit" \/ r.back = "acquire"
       => r.lock # Absent
  /\ r.pc \in TargetSteps => r.target \in taken
  /\ r.pc \in ClaimSteps => r.claim # Absent /\ r.dest \in {Canonical, r.target}
  /\ Relies(r) => disk[r.lock] # Absent

\* A name belongs to at most one running operation.
Disjoint(r, s) ==
  /\ r.lock # Absent => r.lock # s.lock /\ r.lock # s.claim
  /\ r.claim # Absent => r.claim # s.claim /\ r.claim # s.lock

\* Recovery only moves locks that belong to nobody.
Abandoned(r, s) == r.pc \in TargetSteps => r.target \notin {s.lock, s.claim}

DiskInv == /\ files \in [Name -> MaybeIndex]
           /\ used \subseteq LockName
           /\ Locks \subseteq used
           /\ late = {}

IInv ==
  /\ DiskInv
  /\ OneAuthority
  /\ txn \in [Device -> LocalState]
  /\ \A d \in Device : LocalInv(txn[d], files, used)
  /\ \A d, e \in Device : d # e => Disjoint(txn[d], txn[e])
  /\ \A d, e \in Device : Abandoned(txn[d], txn[e])

-----------------------------------------------------------------------------
(* One device takes a step; the others rely on what they relied on before. *)

\* The names the device may own afterwards: its own, or one nobody has used.
OwnOrNew(new, old) == new = Absent \/ new = old \/ new \in LockName \ used

LEMMA Frame ==
  ASSUME IInv, NEW d \in Device, NEW r, Become(d, r),
         LocalInv(r, files', used'), DiskInv', OneAuthority',
         used \subseteq used',
         OwnOrNew(r.lock, txn[d].lock), OwnOrNew(r.claim, txn[d].claim),
         \A e \in Device : e # d /\ txn[e].lock # Absent
           /\ files[txn[e].lock] # Absent => files'[txn[e].lock] # Absent,
         r.pc \in TargetSteps =>
           \/ r.target = txn[d].target /\ txn[d].pc \in TargetSteps
           \/ r.target \in used /\ ~Live(r.target)
  PROVE IInv'
<1> USE DEF Become
<1>1. txn' = [txn EXCEPT ![d] = r] /\ r \in LocalState
  BY DEF LocalInv
<1>2. txn' \in [Device -> LocalState] /\ txn'[d] = r
      /\ \A e \in Device : e # d => txn'[e] = txn[e]
  BY <1>1 DEF IInv
<1>3. ASSUME NEW e \in Device PROVE LocalInv(txn'[e], files', used')
  <2>1. CASE e = d BY <2>1, <1>2
  <2>2. CASE e # d
    <3>1. LocalInv(txn[e], files, used) BY DEF IInv
    <3>2. Relies(txn[e]) => txn[e].lock # Absent
      BY <3>1 DEF LocalInv, Relies, OwnerSteps
    <3> QED BY <3>1, <3>2, <2>2, <1>2 DEF LocalInv
  <2> QED BY <2>1, <2>2
<1>4. ASSUME NEW e \in Device, e # d
      PROVE Disjoint(r, txn[e]) /\ Disjoint(txn[e], r)
  <2>1. Disjoint(txn[d], txn[e]) /\ Disjoint(txn[e], txn[d])
    BY <1>4 DEF IInv
  <2>2. /\ txn[e].lock # Absent => txn[e].lock \in used
        /\ txn[e].claim # Absent => txn[e].claim \in used
    BY DEF IInv, LocalInv
  <2> QED BY <2>1, <2>2 DEF Disjoint, OwnOrNew
<1>5. \A e, g \in Device : e # g => Disjoint(txn'[e], txn'[g])
  BY <1>2, <1>4 DEF IInv
<1>6. ASSUME NEW e \in Device, NEW g \in Device
      PROVE Abandoned(txn'[e], txn'[g])
  <2>1. CASE e # d /\ g # d BY <2>1, <1>2 DEF IInv
  <2>2. CASE e # d /\ g = d
    <3>1. Abandoned(txn[e], txn[d]) /\ LocalInv(txn[e], files, used)
      BY DEF IInv
    <3>2. txn[e].pc \in TargetSteps =>
            txn[e].target \in used /\ txn[e].target # Absent
      BY <3>1, MarkersAssumption DEF LocalInv, IInv, DiskInv
    <3> QED BY <3>1, <3>2, <2>2, <1>2 DEF Abandoned, OwnOrNew
  <2>3. CASE e = d
    <3>1. ASSUME r.pc \in TargetSteps, txn[d].pc \in TargetSteps,
                 r.target = txn[d].target
          PROVE r.target \in used
                /\ \A h \in Device : r.target \notin {txn[h].lock, txn[h].claim}
      BY <3>1 DEF IInv, LocalInv, Abandoned
    <3>2. ASSUME r.target \in used, ~Live(r.target)
          PROVE r.target # Absent
                /\ \A h \in Device : r.target \notin {txn[h].lock, txn[h].claim}
      <4>1. \A h \in Device : txn[h].pc = "idle" =>
              txn[h].lock = Absent /\ txn[h].claim = Absent
        BY DEF IInv, LocalInv
      <4> QED BY <3>2, <4>1, MarkersAssumption DEF Live, IInv, DiskInv
    <3>3. r.pc \in TargetSteps =>
            r.target \in used /\ r.target # Absent
            /\ \A h \in Device : r.target \notin {txn[h].lock, txn[h].claim}
      BY <3>1, <3>2, MarkersAssumption DEF IInv, DiskInv
    <3>4. CASE g # d BY <3>3, <3>4, <2>3, <1>2 DEF Abandoned
    <3>5. CASE g = d BY <3>3, <3>5, <2>3, <1>2 DEF Abandoned, OwnOrNew
    <3> QED BY <3>4, <3>5
  <2> QED BY <2>1, <2>2, <2>3
<1> QED BY <1>2, <1>3, <1>5, <1>6 DEF IInv

\* A step that leaves the disk and the names alone.
LEMMA Quiet ==
  ASSUME IInv, NEW d \in Device, NEW r, Become(d, r),
         UNCHANGED <<files, used, late>>, LocalInv(r, files, used),
         r.lock \in {Absent, txn[d].lock}, r.claim \in {Absent, txn[d].claim},
         r.pc \in TargetSteps =>
           \/ r.target = txn[d].target /\ txn[d].pc \in TargetSteps
           \/ r.target \in used /\ ~Live(r.target)
  PROVE IInv'
<1>1. DiskInv' /\ OneAuthority'
  BY DEF IInv, DiskInv, OneAuthority, Locks
<1>2. LocalInv(r, files', used') BY DEF LocalInv
<1> QED BY <1>1, <1>2, Frame DEF OwnOrNew

\* What To changes and what it keeps.
LEMMA ToState ==
  ASSUME IInv, NEW d \in Device, NEW p \in Steps
  PROVE /\ To(d, p) \in LocalState
        /\ To(d, p).pc = p /\ To(d, p).seenL = Unread
        /\ To(d, p).lock = txn[d].lock /\ To(d, p).claim = txn[d].claim
        /\ To(d, p).target = txn[d].target /\ To(d, p).dest = txn[d].dest
        /\ To(d, p).job = txn[d].job /\ To(d, p).back = txn[d].back
<1>1. txn[d] \in LocalState BY DEF IInv
<1> QED BY <1>1 DEF LocalState, To

LEMMA StoppedState ==
  ASSUME IInv, NEW d \in Device, NEW o \in Outcomes
  PROVE /\ Stopped(d, o) \in LocalState
        /\ Stopped(d, o).pc = "idle" /\ Stopped(d, o).job = "none"
        /\ Stopped(d, o).back = "ensure"
        /\ Stopped(d, o).lock = Absent /\ Stopped(d, o).claim = Absent
<1>1. txn[d] \in LocalState BY DEF IInv
<1> QED BY <1>1 DEF LocalState, Stopped, Resting, MaybeLock, MaybeIndex,
                    Steps

\* The end of an operation relies on nothing.
LEMMA IdleInv ==
  ASSUME IInv, NEW r \in LocalState, r.pc = "idle", r.job = "none",
         r.back = "ensure", r.lock = Absent, r.claim = Absent
  PROVE LocalInv(r, files, used)
BY DEF LocalInv, Relies, OwnerSteps, RecoverySteps, TargetSteps, ClaimSteps

LEMMA QuietStop ==
  ASSUME IInv, NEW d \in Device, NEW o \in Outcomes, Stop(d, o),
         UNCHANGED <<files, used, late>>
  PROVE IInv'
BY StoppedState, IdleInv, Quiet DEF Stop, RecoverySteps, TargetSteps

\* What a local state must not do without when it moves on to step p.
Ready(d, p) ==
  /\ p \in Steps /\ p # "seed" /\ p # "idle"
  /\ p \in OwnerSteps => txn[d].lock # Absent
  /\ p \in {"read", "write", "restore"} => files[txn[d].lock] # Absent
  /\ p \in TargetSteps => txn[d].pc \in TargetSteps
  /\ p \in ClaimSteps => txn[d].claim # Absent
                         /\ txn[d].dest \in {Canonical, txn[d].target}

LEMMA ReadyInv ==
  ASSUME IInv, NEW d \in Device, NEW p, Ready(d, p), NEW r \in LocalState,
         r.pc = p, r.seenL = Unread,
         r.lock = txn[d].lock, r.claim = txn[d].claim,
         r.target = txn[d].target, r.dest = txn[d].dest,
         r.job = txn[d].job, r.back = txn[d].back
  PROVE LocalInv(r, files, used)
<1>1. LocalInv(txn[d], files, used) BY DEF IInv
<1>2. ~(r.pc \in {"acquireFailed", "rollback"} /\ Present(r.seenL))
  BY DEF Present
<1> QED BY <1>1, <1>2 DEF LocalInv, Ready, Relies

LEMMA QuietGoto ==
  ASSUME IInv, NEW d \in Device, NEW p, Ready(d, p), Goto(d, p),
         UNCHANGED <<files, used, late>>
  PROVE IInv'
<1> DEFINE r == To(d, p)
<1>1. LocalInv(r, files, used) BY ToState, ReadyInv DEF Ready
<1>2. r.pc = p /\ r.target = txn[d].target /\ r.lock = txn[d].lock
      /\ r.claim = txn[d].claim
  BY ToState DEF Ready
<1> HIDE DEF r
<1> QED BY <1>1, <1>2, Quiet DEF Goto, Ready, r

-----------------------------------------------------------------------------
(* Requests that change the disk. *)

HoldSteps == {"read", "write", "restore"}

\* An exclusive MOVE of a file no other device relies on, to a name that is
\* canonical or taken, keeps the token single.
LEMMA MoveStep ==
  ASSUME IInv, Hazards = {}, NEW d \in Device, NEW from \in Name,
         NEW to \in Name, NEW p, NEW q, ExclusiveMove(d, from, to, p, q),
         to \in LockName => to \in used,
         \A e \in Device : e # d => txn[e].lock # from,
         Ready(d, q), q \notin HoldSteps,
         \/ p = "read" /\ to = txn[d].lock /\ txn[d].lock # Absent
         \/ Ready(d, p) /\ p \notin HoldSteps
  PROVE IInv'
<1>1. CASE UNCHANGED files
  <2>1. ~(CanMove(from, to) /\ files' = Moved(from, to))
    <3> SUFFICES ASSUME CanMove(from, to), files' = Moved(from, to) PROVE FALSE
      OBVIOUS
    <3>1. files \in [Name -> MaybeIndex] /\ from # to
      BY DEF IInv, DiskInv, CanMove
    <3>2. files'[from] = Absent BY <3>1 DEF Moved
    <3> QED BY <1>1, <3>2 DEF CanMove
  <2>2. Goto(d, q) /\ UNCHANGED <<files, used, late>>
    BY <1>1, <2>1 DEF ExclusiveMove, Keep, IInv, DiskInv
  <2> QED BY <2>2, QuietGoto
<1>2. CASE files' = Moved(from, to) /\ CanMove(from, to)
  <2>1. files \in [Name -> MaybeIndex] /\ Locks \subseteq used
        /\ used \subseteq LockName /\ late = {}
    BY DEF IInv, DiskInv
  <2>2. from # to BY <1>2 DEF CanMove
  <2>3. /\ files' \in [Name -> MaybeIndex]
        /\ files'[to] # Absent
        /\ \A n \in Name : n # from /\ n # to => files'[n] = files[n]
        /\ files'[from] = Absent
    BY <1>2, <2>1, <2>2 DEF Moved, CanMove, MaybeIndex
  <2>4. \A n \in Name : files'[n] # Absent => n = to
    BY <2>3, <1>2 DEF IInv, OneAuthority, CanMove
  <2>5. used' = used /\ late' = late
    BY <1>2, <2>3 DEF ExclusiveMove, Keep, CanMove
  <2>6. DiskInv' /\ OneAuthority'
    BY <2>1, <2>3, <2>4, <2>5 DEF DiskInv, OneAuthority, Locks, Name
  <2>7. PICK s \in {p, q} : Goto(d, s)
    BY DEF ExclusiveMove
  <2>8. s \in Steps
    BY DEF Ready, Steps, OwnerSteps
  <2> DEFINE r == To(d, s)
  <2>9. /\ r \in LocalState /\ r.pc = s /\ r.seenL = Unread
        /\ r.lock = txn[d].lock /\ r.claim = txn[d].claim
        /\ r.target = txn[d].target /\ r.dest = txn[d].dest
        /\ r.job = txn[d].job /\ r.back = txn[d].back
    BY <2>8, ToState
  <2>10. Become(d, r) BY <2>7 DEF Goto
  <2> HIDE DEF r
  <2>11. LocalInv(r, files', used')
    <3>1. LocalInv(txn[d], files, used) BY DEF IInv
    <3>2. ~(r.pc \in {"acquireFailed", "rollback"} /\ Present(r.seenL))
      BY <2>9 DEF Present
    <3>3. CASE Ready(d, s) /\ s \notin HoldSteps
      BY <3>1, <3>2, <3>3, <2>5, <2>9 DEF LocalInv, Ready, Relies, HoldSteps
    <3>4. CASE s = "read" /\ to = txn[d].lock /\ txn[d].lock # Absent
      <4>1. s \notin TargetSteps /\ s \notin ClaimSteps
        BY <3>4 DEF RecoverySteps, TargetSteps, ClaimSteps
      <4> QED
        BY <3>1, <3>2, <3>4, <4>1, <2>5, <2>9, <2>3 DEF LocalInv, Relies
    <3> QED BY <3>3, <3>4
  <2>12. ASSUME NEW e \in Device, e # d, txn[e].lock # Absent,
                files[txn[e].lock] # Absent
         PROVE files'[txn[e].lock] # Absent
    <3>1. txn[e].lock \in Name BY <2>12 DEF IInv, LocalState, MaybeLock, Name
    <3>2. txn[e].lock # from BY <2>12
    <3> QED BY <3>1, <3>2, <2>12, <2>3
  <2>13. r.pc \in TargetSteps =>
           r.target = txn[d].target /\ txn[d].pc \in TargetSteps
    BY <2>9, <2>7 DEF Ready, RecoverySteps, TargetSteps
  <2> QED BY <2>5, <2>6, <2>9, <2>10, <2>11, <2>12, <2>13, Frame DEF OwnOrNew
<1> QED BY <1>1, <1>2 DEF ExclusiveMove

\* Overwriting the device's own lock while the index is there.
LEMMA OverwriteStep ==
  ASSUME IInv, Hazards = {}, NEW d \in Device, NEW index \in MaybeIndex, NEW p,
         Overwrite(d, txn[d].lock, index, p), Ready(d, p), p \notin HoldSteps,
         txn[d].lock # Absent, files[txn[d].lock] # Absent
  PROVE IInv'
<1>1. CASE UNCHANGED files
  <2>1. Goto(d, p) /\ UNCHANGED <<files, used, late>>
    BY <1>1 DEF Overwrite, Keep
  <2> QED BY <2>1, QuietGoto
<1>2. CASE files' = [files EXCEPT ![txn[d].lock] = index] /\ UNCHANGED late
  <2> DEFINE n == txn[d].lock
  <2>1. files \in [Name -> MaybeIndex] /\ Locks \subseteq used
        /\ used \subseteq LockName /\ late = {}
    BY DEF IInv, DiskInv
  <2>2. n \in Name BY DEF IInv, LocalState, MaybeLock, Name
  <2>3. /\ files' \in [Name -> MaybeIndex]
        /\ \A m \in Name : m # n => files'[m] = files[m]
    BY <1>2, <2>1, <2>2
  <2>4. used' = used BY DEF Overwrite, Keep
  <2>5. \A m \in Name : files'[m] # Absent => files[m] # Absent
    BY <2>2, <2>3
  <2>6. DiskInv' /\ OneAuthority'
    BY <1>2, <2>1, <2>3, <2>4, <2>5 DEF DiskInv, OneAuthority, Locks, IInv, Name
  <2> DEFINE r == To(d, p)
  <2>7. /\ r \in LocalState /\ r.pc = p /\ r.seenL = Unread
        /\ r.lock = txn[d].lock /\ r.claim = txn[d].claim
        /\ r.target = txn[d].target /\ r.dest = txn[d].dest
        /\ r.job = txn[d].job /\ r.back = txn[d].back
    BY ToState DEF Ready
  <2>8. Become(d, r) BY DEF Overwrite, Goto
  <2> HIDE DEF r
  <2>9. LocalInv(r, files', used')
    <3>1. LocalInv(txn[d], files, used) BY DEF IInv
    <3>2. ~(r.pc \in {"acquireFailed", "rollback"} /\ Present(r.seenL))
      BY <2>7 DEF Present
    <3> QED BY <3>1, <3>2, <2>4, <2>7 DEF LocalInv, Ready, Relies, HoldSteps
  <2>10. ASSUME NEW e \in Device, e # d, txn[e].lock # Absent,
                files[txn[e].lock] # Absent
         PROVE files'[txn[e].lock] # Absent
    <3>1. txn[e].lock \in Name BY <2>10 DEF IInv, LocalState, MaybeLock, Name
    <3>2. txn[e].lock # n BY <2>10 DEF IInv, Disjoint
    <3> QED BY <3>1, <3>2, <2>10, <2>3
  <2>11. r.pc \in TargetSteps =>
           r.target = txn[d].target /\ txn[d].pc \in TargetSteps
    BY <2>7 DEF Ready
  <2> QED BY <1>2, <2>4, <2>6, <2>7, <2>8, <2>9, <2>10, <2>11, Frame DEF OwnOrNew
<1> QED BY <1>1, <1>2 DEF Overwrite

-----------------------------------------------------------------------------
(* Steps that only look at the disk. *)

\* Going on to a step outside recovery, with whatever the step noted down.
LEMMA Advance ==
  ASSUME IInv, NEW d \in Device, NEW r \in LocalState, Become(d, r),
         UNCHANGED <<files, used, late>>, r.seenL = Unread,
         r.lock = txn[d].lock, r.claim \in {Absent, txn[d].claim},
         r.job = txn[d].job, r.pc \notin TargetSteps \cup {"idle", "seed"},
         r.pc \in OwnerSteps \/ r.back = "acquire" => txn[d].lock # Absent,
         r.pc \in HoldSteps => files[txn[d].lock] # Absent
  PROVE IInv'
<1>1. LocalInv(txn[d], files, used) BY DEF IInv
<1>2. ~(r.pc \in {"acquireFailed", "rollback"} /\ Present(r.seenL))
  BY DEF Present
<1>3. LocalInv(r, files, used)
  BY <1>1, <1>2 DEF LocalInv, Relies, HoldSteps, ClaimSteps, TargetSteps
<1> QED BY <1>3, Quiet

LEMMA ObservingState ==
  ASSUME IInv, NEW d \in Device, NEW n \in LockName, NEW p \in Steps
  PROVE /\ Observing(d, n, p) \in LocalState
        /\ Observing(d, n, p).pc = p /\ Observing(d, n, p).seenL = Unread
        /\ Observing(d, n, p).lock = txn[d].lock
        /\ Observing(d, n, p).claim = txn[d].claim
        /\ Observing(d, n, p).job = txn[d].job
        /\ Observing(d, n, p).back = txn[d].back
<1> DEFINE r == To(d, p)
<1>1. /\ r \in LocalState /\ r.pc = p /\ r.seenL = Unread
      /\ r.lock = txn[d].lock /\ r.claim = txn[d].claim
      /\ r.job = txn[d].job /\ r.back = txn[d].back
  BY ToState
<1>2. files[n] \in MaybeIndex BY DEF IInv, DiskInv, Name
<1>3. Observing(d, n, p) = [r EXCEPT !.observed = [@ EXCEPT ![n] = files[n]]]
  BY DEF Observing
<1> HIDE DEF r
<1>4. [r.observed EXCEPT ![n] = files[n]] \in [LockName -> MaybeIndex]
  BY <1>1, <1>2 DEF LocalState
<1> QED BY <1>1, <1>3, <1>4 DEF LocalState

\* Where discovery returns to needs no more than the device has.
LEMMA ReturnPoints ==
  ASSUME IInv, NEW d \in Device,
         NEW p \in {Discovered(d), txn[d].back}
  PROVE /\ p \in Steps /\ p \notin TargetSteps \cup {"idle", "seed"}
        /\ p \notin HoldSteps
        /\ p \in OwnerSteps => txn[d].lock # Absent
        /\ txn[d].back = "acquire" => txn[d].lock # Absent
<1>1. LocalInv(txn[d], files, used) BY DEF IInv
<1>2. p \in {"acquire", "load", "ensure"}
      /\ (p = "acquire" => txn[d].lock # Absent)
      /\ (txn[d].back = "acquire" => txn[d].lock # Absent)
  BY <1>1 DEF LocalInv, LocalState, Discovered
<1> QED BY <1>2 DEF Steps, RecoverySteps, TargetSteps, HoldSteps, OwnerSteps, DiscoverySteps

LEMMA ObservingStep ==
  ASSUME IInv, NEW d \in Device, NEW n \in LockName,
         NEW p \in {Discovered(d), txn[d].back}, NEW r,
         \/ r = Observing(d, n, p)
         \/ r = [Observing(d, n, p) EXCEPT !.claim = Absent],
         Become(d, r), UNCHANGED <<files, used, late>>
  PROVE IInv'
<1> DEFINE s == Observing(d, n, p)
<1>1. /\ p \in Steps /\ p \notin TargetSteps \cup {"idle", "seed"}
      /\ p \notin HoldSteps
      /\ p \in OwnerSteps => txn[d].lock # Absent
      /\ txn[d].back = "acquire" => txn[d].lock # Absent
  BY ReturnPoints
<1>2. /\ s \in LocalState /\ s.pc = p /\ s.seenL = Unread
      /\ s.lock = txn[d].lock /\ s.claim = txn[d].claim
      /\ s.job = txn[d].job /\ s.back = txn[d].back
  BY <1>1, ObservingState
<1> HIDE DEF s
<1>3. r = s \/ r = [s EXCEPT !.claim = Absent] BY DEF s
<1>4. /\ r \in LocalState /\ r.pc = p /\ r.seenL = Unread
      /\ r.lock = txn[d].lock /\ r.claim \in {Absent, txn[d].claim}
      /\ r.job = txn[d].job /\ r.back = txn[d].back
  BY <1>2, <1>3 DEF LocalState, MaybeLock
<1> QED BY <1>1, <1>4, Advance

LEMMA EnsureStep ==
  ASSUME IInv, NEW d \in Device, Ensure(d) PROVE IInv'
<1>1. Ready(d, "list") /\ Ready(d, "orphans")
  BY DEF Ready, Steps, DiscoverySteps, OwnerSteps, RecoverySteps, TargetSteps, ClaimSteps
<1> QED BY <1>1, QuietGoto DEF Ensure, Local, Keep

LEMMA DiscoveredReady ==
  ASSUME IInv, NEW d \in Device
  PROVE Ready(d, Discovered(d)) /\ Discovered(d) \notin HoldSteps
<1>1. /\ Discovered(d) \in Steps
      /\ Discovered(d) \notin TargetSteps \cup {"idle", "seed"}
      /\ Discovered(d) \notin HoldSteps
      /\ Discovered(d) \in OwnerSteps => txn[d].lock # Absent
  BY ReturnPoints
<1> QED BY <1>1 DEF Ready, HoldSteps, ClaimSteps, TargetSteps

LEMMA NothingToRecoverStep ==
  ASSUME IInv, NEW d \in Device, NothingToRecover(d) PROVE IInv'
<1>1. LocalInv(txn[d], files, used) BY DEF IInv
<1>2. Ready(d, "acquire")
  BY <1>1 DEF NothingToRecover, LocalInv, Ready, Steps, OwnerSteps,
              RecoverySteps, TargetSteps, ClaimSteps
<1> QED BY <1>2, QuietGoto DEF NothingToRecover, Local, Keep

LEMMA WaitForLeaseStep ==
  ASSUME IInv, NEW d \in Device, WaitForLease(d) PROVE IInv'
BY ObservingStep DEF WaitForLease, Local, Keep

LEMMA StopSteps ==
  ASSUME IInv, NEW d \in Device,
         ManyLocks(d) \/ GiveUpWaiting(d) \/ Load(d)
           \/ Accept(d) \/ RequestFails(d)
  PROVE IInv'
<1>1. \E o \in Outcomes : Stop(d, o)
  BY DEF ManyLocks, GiveUpWaiting, Load, Accept, RequestFails, Outcomes
<1>2. UNCHANGED <<files, used, late>>
  BY DEF ManyLocks, GiveUpWaiting, Load, Accept, RequestFails, Local, Keep
<1> QED BY <1>1, <1>2, QuietStop

-----------------------------------------------------------------------------
(* Automatic recovery. *)

\* Going on with a lock that belongs to nobody.
LEMMA AdvanceTarget ==
  ASSUME IInv, NEW d \in Device, NEW r \in LocalState, Become(d, r),
         UNCHANGED <<files, used, late>>, r.seenL = Unread,
         r.lock = txn[d].lock, r.claim = txn[d].claim, r.job = txn[d].job,
         r.back = txn[d].back, r.pc \in TargetSteps,
         \/ r.target = txn[d].target /\ txn[d].pc \in TargetSteps
         \/ r.target \in used /\ ~Live(r.target),
         r.pc \in ClaimSteps =>
           txn[d].claim # Absent /\ r.dest \in {Canonical, r.target}
  PROVE IInv'
<1>1. LocalInv(txn[d], files, used) BY DEF IInv
<1>2. r.pc \notin {"read", "write", "restore", "acquireFailed", "rollback",
                   "idle", "seed"} \cup OwnerSteps
  BY DEF RecoverySteps, TargetSteps, OwnerSteps
<1>3. LocalInv(r, files, used)
  BY <1>1, <1>2 DEF LocalInv, Relies
<1> QED BY <1>3, Quiet

LEMMA LeaseEndedStep ==
  ASSUME IInv, Hazards = {}, NEW d \in Device, LeaseEnded(d) PROVE IInv'
<1>1. PICK n \in LockName :
        /\ Locks = {n} /\ MayBeStale(d, n)
        /\ Become(d, [To(d, "staleRead") EXCEPT !.target = n])
  BY DEF LeaseEnded
<1>2. n \in used /\ ~Live(n) BY <1>1 DEF MayBeStale, IInv, DiskInv
<1> DEFINE s == To(d, "staleRead")
           r == [s EXCEPT !.target = n]
<1>3. /\ s \in LocalState /\ s.pc = "staleRead" /\ s.seenL = Unread
      /\ s.lock = txn[d].lock /\ s.claim = txn[d].claim
      /\ s.job = txn[d].job /\ s.back = txn[d].back
  BY ToState DEF Steps, RecoverySteps, TargetSteps
<1>4. Become(d, r) /\ UNCHANGED <<files, used, late>>
  BY <1>1 DEF LeaseEnded, Local, Keep
<1> HIDE DEF s
<1>5. /\ r \in LocalState /\ r.pc = "staleRead" /\ r.seenL = Unread
      /\ r.lock = txn[d].lock /\ r.claim = txn[d].claim
      /\ r.job = txn[d].job /\ r.back = txn[d].back /\ r.target = n
  BY <1>3 DEF LocalState, MaybeLock
<1> HIDE DEF r
<1> QED BY <1>2, <1>4, <1>5, AdvanceTarget DEF RecoverySteps, TargetSteps, ClaimSteps

\* The claim name is new, so it belongs to nobody else.
LEMMA TakeClaim ==
  ASSUME IInv, NEW d \in Device, At(d, "staleRead"), NEW c \in LockName \ used,
         used' = used \cup {c}, UNCHANGED <<files, late>>,
         Become(d, [To(d, "claimCheck") EXCEPT
                      !.raw = files[txn[d].target], !.claim = c,
                      !.dest = Canonical])
  PROVE IInv'
<1> DEFINE s == To(d, "claimCheck")
           r == [s EXCEPT !.raw = files[txn[d].target], !.claim = c,
                          !.dest = Canonical]
<1>1. LocalInv(txn[d], files, used) /\ txn[d].pc = "staleRead"
  BY DEF IInv, At
<1>2. txn[d].target \in used /\ used \subseteq LockName
      /\ files \in [Name -> MaybeIndex] /\ late = {} /\ Locks \subseteq used
  BY <1>1 DEF LocalInv, RecoverySteps, TargetSteps, IInv, DiskInv
<1>3. /\ s \in LocalState /\ s.pc = "claimCheck" /\ s.seenL = Unread
      /\ s.lock = txn[d].lock /\ s.job = txn[d].job /\ s.back = txn[d].back
      /\ s.target = txn[d].target
  BY ToState DEF Steps, RecoverySteps, TargetSteps
<1> HIDE DEF s
<1>4. files[txn[d].target] \in MaybeIndex BY <1>2 DEF Name
<1>5. /\ r \in LocalState /\ r.pc = "claimCheck" /\ r.seenL = Unread
      /\ r.lock = txn[d].lock /\ r.job = txn[d].job /\ r.back = txn[d].back
      /\ r.target = txn[d].target /\ r.claim = c /\ r.dest = Canonical
  BY <1>3, <1>4 DEF LocalState, MaybeLock, Name
<1>6. Become(d, r) BY DEF s
<1> HIDE DEF r
<1>7. LocalInv(r, files', used')
  <2>1. c # Absent /\ c # txn[d].lock
    BY <1>1, MarkersAssumption DEF LocalInv
  <2>2. r.pc \notin {"read", "write", "restore", "acquireFailed", "rollback",
                     "idle", "seed"} \cup OwnerSteps
    BY <1>5 DEF OwnerSteps
  <2>3. txn[d].job = "commit" \/ txn[d].back = "acquire" => txn[d].lock # Absent
    BY <1>1 DEF LocalInv
  <2> QED BY <1>1, <1>2, <1>5, <2>1, <2>2, <2>3 DEF LocalInv, Relies
<1>8. DiskInv' /\ OneAuthority'
  BY <1>2 DEF IInv, DiskInv, OneAuthority, Locks
<1> QED BY <1>1, <1>5, <1>6, <1>7, <1>8, Frame DEF OwnOrNew, RecoverySteps, TargetSteps

LEMMA ReadStaleLockStep ==
  ASSUME IInv, NEW d \in Device, ReadStaleLock(d) PROVE IInv'
<1> DEFINE n == txn[d].target
<1>1. At(d, "staleRead") /\ UNCHANGED <<files, late>> BY DEF ReadStaleLock
<1>2. n \in LockName
  BY <1>1 DEF IInv, LocalInv, DiskInv, At, RecoverySteps, TargetSteps
<1>3. CASE \E c \in LockName \ used :
             /\ used' = used \cup {c}
             /\ Become(d, [To(d, "claimCheck") EXCEPT
                             !.raw = files[n], !.claim = c, !.dest = Canonical])
  BY <1>1, <1>3, TakeClaim
<1>4. CASE Become(d, Observing(d, n, txn[d].back)) /\ UNCHANGED used
  BY <1>1, <1>2, <1>4, ObservingStep
<1>5. CASE (Stop(d, "ambiguous") \/ Stop(d, "failed")) /\ UNCHANGED used
  BY <1>1, <1>5, QuietStop DEF Outcomes
<1> QED BY <1>3, <1>4, <1>5 DEF ReadStaleLock

LEMMA RecoveryReady ==
  ASSUME IInv, NEW d \in Device, txn[d].pc \in ClaimSteps, NEW p \in ClaimSteps
  PROVE /\ Ready(d, p) /\ p \notin HoldSteps
        /\ txn[d].target \in used /\ txn[d].claim \in used
        /\ used \subseteq LockName
        /\ txn[d].dest \in {Canonical, txn[d].target}
        /\ \A e \in Device : e # d => txn[d].claim # txn[e].lock
        /\ \A e \in Device : txn[d].target # txn[e].lock
<1>1. LocalInv(txn[d], files, used) /\ txn[d].pc \in TargetSteps
  BY DEF IInv, ClaimSteps, TargetSteps
<1>2. p \in TargetSteps /\ p \notin OwnerSteps \cup HoldSteps \cup {"seed", "idle"}
      /\ p \in Steps
  BY DEF ClaimSteps, RecoverySteps, TargetSteps, OwnerSteps, HoldSteps, Steps
<1>3. txn[d].claim # Absent /\ txn[d].dest \in {Canonical, txn[d].target}
  BY <1>1 DEF LocalInv
<1>4. Ready(d, p) /\ p \notin HoldSteps
  BY <1>1, <1>2, <1>3 DEF Ready, HoldSteps
<1> QED BY <1>1, <1>3, <1>4 DEF LocalInv, IInv, DiskInv, Disjoint, Abandoned

LEMMA CheckClaimStep ==
  ASSUME IInv, NEW d \in Device, CheckClaim(d) PROVE IInv'
<1> DEFINE n == txn[d].target
<1>1. txn[d].pc = "claimCheck" /\ UNCHANGED <<files, used, late>>
  BY DEF CheckClaim, At, Local, Keep
<1>2. n \in LockName /\ Ready(d, "claimMove")
  BY <1>1, RecoveryReady DEF ClaimSteps, RecoverySteps, TargetSteps
<1>3. CASE Goto(d, "claimMove") BY <1>1, <1>2, <1>3, QuietGoto
<1>4. CASE Stop(d, "ambiguous") BY <1>1, <1>4, QuietStop DEF Outcomes
<1>5. CASE Become(d, [Observing(d, n, txn[d].back) EXCEPT !.claim = Absent])
  BY <1>1, <1>2, <1>5, ObservingStep
<1> QED BY <1>3, <1>4, <1>5 DEF CheckClaim

LEMMA MoveClaimStep ==
  ASSUME IInv, Hazards = {}, NEW d \in Device, MoveClaim(d) PROVE IInv'
<1>1. txn[d].pc = "claimMove" BY DEF MoveClaim, At
<1>2. /\ Ready(d, "claimed") /\ "claimed" \notin HoldSteps
      /\ Ready(d, "claimLost") /\ "claimLost" \notin HoldSteps
      /\ txn[d].target \in Name /\ txn[d].claim \in Name /\ txn[d].claim \in used
      /\ \A e \in Device : e # d => txn[e].lock # txn[d].target
  BY <1>1, RecoveryReady DEF ClaimSteps, RecoverySteps, TargetSteps, Name
<1> QED BY <1>2, MoveStep DEF MoveClaim

LEMMA ReadClaimStep ==
  ASSUME IInv, NEW d \in Device, ReadClaim(d) PROVE IInv'
<1> DEFINE c == files[txn[d].claim]
<1>1. txn[d].pc \in {"claimed", "claimLost"} /\ UNCHANGED <<files, used, late>>
  BY DEF ReadClaim, At, Local, Keep
<1>2. /\ txn[d].claim \in Name /\ c \in MaybeIndex /\ txn[d].target \in Name
      /\ txn[d].claim # Absent
  BY <1>1, RecoveryReady, MarkersAssumption
  DEF ClaimSteps, RecoverySteps, TargetSteps, Name, IInv, DiskInv
<1>3. CASE Become(d, [To(d, txn[d].back) EXCEPT !.claim = Absent])
  <2> DEFINE s == To(d, txn[d].back)
             r == [s EXCEPT !.claim = Absent]
  <2>1. /\ txn[d].back \in Steps
        /\ txn[d].back \notin TargetSteps \cup {"idle", "seed"}
        /\ txn[d].back \notin HoldSteps
        /\ txn[d].back \in OwnerSteps => txn[d].lock # Absent
        /\ txn[d].back = "acquire" => txn[d].lock # Absent
    BY ReturnPoints
  <2>2. /\ s \in LocalState /\ s.pc = txn[d].back /\ s.seenL = Unread
        /\ s.lock = txn[d].lock /\ s.job = txn[d].job /\ s.back = txn[d].back
    BY <2>1, ToState
  <2> HIDE DEF s
  <2>3. /\ r \in LocalState /\ r.pc = txn[d].back /\ r.seenL = Unread
        /\ r.lock = txn[d].lock /\ r.job = txn[d].job /\ r.back = txn[d].back
        /\ r.claim = Absent
    BY <2>2 DEF LocalState, MaybeLock
  <2>4. Become(d, r) BY <1>3 DEF s
  <2> HIDE DEF r
  <2> QED BY <1>1, <2>1, <2>3, <2>4, Advance
<1>4. CASE Become(d, [To(d, "landCheck") EXCEPT !.raw = c,
                                                !.dest = Destination(d, c)])
  <2> DEFINE s == To(d, "landCheck")
             to == Destination(d, c)
             r == [s EXCEPT !.raw = c, !.dest = to]
  <2>1. /\ s \in LocalState /\ s.pc = "landCheck" /\ s.seenL = Unread
        /\ s.lock = txn[d].lock /\ s.job = txn[d].job /\ s.back = txn[d].back
        /\ s.claim = txn[d].claim /\ s.target = txn[d].target
    BY ToState DEF Steps, RecoverySteps, TargetSteps
  <2>2. to \in Name /\ to \in {Canonical, txn[d].target} BY <1>2 DEF Name, Destination
  <2> HIDE DEF s, to
  <2>3. /\ r \in LocalState /\ r.pc = "landCheck" /\ r.seenL = Unread
        /\ r.lock = txn[d].lock /\ r.job = txn[d].job /\ r.back = txn[d].back
        /\ r.claim = txn[d].claim /\ r.target = txn[d].target /\ r.dest = to
    BY <1>2, <2>1, <2>2 DEF LocalState
  <2>4. Become(d, r) BY <1>4 DEF s, to
  <2> HIDE DEF r
  <2> QED BY <1>1, <1>2, <2>2, <2>3, <2>4, AdvanceTarget
          DEF RecoverySteps, TargetSteps, ClaimSteps
<1>5. CASE Stop(d, "failed") \/ Stop(d, "ambiguous")
  BY <1>1, <1>5, QuietStop DEF Outcomes
<1> QED BY <1>3, <1>4, <1>5 DEF ReadClaim

LEMMA CheckLandingStep ==
  ASSUME IInv, NEW d \in Device, CheckLanding(d) PROVE IInv'
<1>1. txn[d].pc = "landCheck" BY DEF CheckLanding, At
<1>2. Ready(d, "land") /\ Ready(d, "landed")
  BY <1>1, RecoveryReady DEF ClaimSteps, RecoverySteps, TargetSteps
<1> QED BY <1>2, QuietGoto DEF CheckLanding, Local, Keep

LEMMA MoveLandingStep ==
  ASSUME IInv, Hazards = {}, NEW d \in Device, MoveLanding(d) PROVE IInv'
<1>1. txn[d].pc = "land" BY DEF MoveLanding, At
<1>2. /\ Ready(d, "landed") /\ "landed" \notin HoldSteps
      /\ txn[d].claim \in Name /\ txn[d].dest \in Name
      /\ txn[d].dest \in LockName => txn[d].dest \in used
      /\ \A e \in Device : e # d => txn[e].lock # txn[d].claim
  BY <1>1, RecoveryReady, NamesAssumption DEF ClaimSteps, RecoverySteps, TargetSteps, Name
<1> QED BY <1>2, MoveStep DEF MoveLanding

LEMMA ConfirmLandingStep ==
  ASSUME IInv, NEW d \in Device, ConfirmLanding(d) PROVE IInv'
<1> DEFINE n == txn[d].target
<1>1. txn[d].pc = "landed" /\ UNCHANGED <<files, used, late>>
  BY DEF ConfirmLanding, At, Local, Keep
<1>2. n \in LockName
  BY <1>1, RecoveryReady DEF ClaimSteps, RecoverySteps, TargetSteps
<1>3. CASE Become(d, [Observing(d, n, txn[d].back) EXCEPT !.claim = Absent])
  BY <1>1, <1>2, <1>3, ObservingStep
<1>4. CASE Stop(d, "ambiguous") BY <1>1, <1>4, QuietStop DEF Outcomes
<1> QED BY <1>3, <1>4 DEF ConfirmLanding

LEMMA RecoverSteps ==
  ASSUME IInv, Hazards = {}, NEW d \in Device, Recover(d) PROVE IInv'
BY LeaseEndedStep, ReadStaleLockStep, CheckClaimStep, MoveClaimStep,
   ReadClaimStep, CheckLandingStep, MoveLandingStep, ConfirmLandingStep
DEF Recover

-----------------------------------------------------------------------------
(* The rest of discovery. *)

\* The seed is uploaded in the state the listing found: there is no lock.
LEMMA SeedUploaded ==
  ASSUME IInv, Hazards = {}, NEW d \in Device, Seed(d), Goto(d, Discovered(d)),
         files' = IF files[Canonical] = Absent
                  THEN [files EXCEPT ![Canonical] = SeedOf(d)] ELSE files
  PROVE IInv'
<1> DEFINE p == Discovered(d)
           r == To(d, p)
<1>1. LocalInv(txn[d], files, used) BY DEF IInv
<1>2. Locks = {} BY <1>1 DEF Seed, At, LocalInv
<1>3. /\ files \in [Name -> MaybeIndex] /\ used \subseteq LockName /\ late = {}
  BY DEF IInv, DiskInv
<1>4. SeedOf(d) \in MaybeIndex
  BY DEF SeedOf, MaybeIndex, Index
<1>5. /\ files' \in [Name -> MaybeIndex]
      /\ \A n \in Name : files'[n] # Absent => n = Canonical
  BY <1>2, <1>3, <1>4 DEF Locks, Name
<1>6. UNCHANGED <<used, late>> BY DEF Seed, Keep
<1>7. DiskInv' /\ OneAuthority'
  BY <1>3, <1>5, <1>6, NamesAssumption DEF DiskInv, OneAuthority, Locks, Name
<1>8. Ready(d, p) /\ p \notin HoldSteps BY DiscoveredReady
<1>9. /\ r \in LocalState /\ r.pc = p /\ r.seenL = Unread
      /\ r.lock = txn[d].lock /\ r.claim = txn[d].claim
      /\ r.target = txn[d].target /\ r.dest = txn[d].dest
      /\ r.job = txn[d].job /\ r.back = txn[d].back
  BY <1>8, ToState DEF Ready
<1>10. Become(d, r) BY DEF Goto
<1> HIDE DEF r, p
<1>11. LocalInv(r, files', used')
  <2>1. ~(r.pc \in {"acquireFailed", "rollback"} /\ Present(r.seenL))
    BY <1>9 DEF Present
  <2> QED BY <1>1, <1>6, <1>8, <1>9, <2>1 DEF LocalInv, Ready, Relies, HoldSteps
<1>12. \A e \in Device : txn[e].lock # Absent => files[txn[e].lock] = Absent
  BY <1>2 DEF IInv, LocalState, MaybeLock, Locks
<1> QED BY <1>6, <1>7, <1>8, <1>9, <1>10, <1>11, <1>12, Frame
        DEF OwnOrNew, Ready

LEMMA SeedStep ==
  ASSUME IInv, Hazards = {}, NEW d \in Device, Seed(d) PROVE IInv'
<1>1. CASE Stop(d, "failed") /\ UNCHANGED files
  BY <1>1, QuietStop DEF Seed, Keep, Outcomes
<1>2. CASE ~(Stop(d, "failed") /\ UNCHANGED files)
  BY <1>2, SeedUploaded DEF Seed
<1> QED BY <1>1, <1>2

LEMMA ListOrphansStep ==
  ASSUME IInv, Hazards = {}, NEW d \in Device, ListOrphans(d) PROVE IInv'
<1>1. UNCHANGED <<files, used, late>> BY DEF ListOrphans, Local, Keep
<1>2. At(d, "orphans") BY DEF ListOrphans
<1>3. CASE Goto(d, Discovered(d)) BY <1>1, <1>3, DiscoveredReady, QuietGoto
<1>4. CASE \E n \in LockName : Become(d, Observing(d, n, Discovered(d)))
  BY <1>1, <1>4, ObservingStep
<1>5. ASSUME NEW n \in LockName, Locks = {n}, MayBeStale(d, n),
             Become(d, [To(d, "orphanCanonical") EXCEPT !.target = n])
      PROVE IInv'
  <2> DEFINE s == To(d, "orphanCanonical")
             r == [s EXCEPT !.target = n]
  <2>1. n \in used /\ ~Live(n) BY <1>5 DEF MayBeStale, IInv, DiskInv
  <2>2. /\ s \in LocalState /\ s.pc = "orphanCanonical" /\ s.seenL = Unread
        /\ s.lock = txn[d].lock /\ s.job = txn[d].job /\ s.back = txn[d].back
        /\ s.claim = txn[d].claim
    BY ToState DEF Steps, DiscoverySteps
  <2> HIDE DEF s
  <2>3. /\ r \in LocalState /\ r.pc = "orphanCanonical" /\ r.seenL = Unread
        /\ r.lock = txn[d].lock /\ r.job = txn[d].job /\ r.back = txn[d].back
        /\ r.claim = txn[d].claim /\ r.target = n
    BY <2>2 DEF LocalState, MaybeLock
  <2>4. Become(d, r) BY <1>5 DEF s
  <2> HIDE DEF r
  <2> QED BY <1>1, <2>1, <2>3, <2>4, AdvanceTarget
          DEF TargetSteps, ClaimSteps, RecoverySteps
<1>6. ASSUME Become(d, [Stopped(d, "ambiguous") EXCEPT !.observed =
                  [n \in LockName |-> IF n \in Locks THEN files[n]
                                     ELSE txn[d].observed[n]]])
      PROVE IInv'
  <2> DEFINE s == Stopped(d, "ambiguous")
             seen == [n \in LockName |-> IF n \in Locks THEN files[n]
                                        ELSE txn[d].observed[n]]
             r == [s EXCEPT !.observed = seen]
  <2>1. /\ s \in LocalState /\ s.pc = "idle" /\ s.job = "none"
        /\ s.back = "ensure" /\ s.lock = Absent /\ s.claim = Absent
    BY StoppedState DEF Outcomes
  <2>2. seen \in [LockName -> MaybeIndex]
    BY DEF IInv, DiskInv, Name, LocalState
  <2> HIDE DEF s, seen
  <2>3. /\ r \in LocalState /\ r.pc = "idle" /\ r.job = "none"
        /\ r.back = "ensure" /\ r.lock = Absent /\ r.claim = Absent
    BY <2>1, <2>2 DEF LocalState
  <2>4. Become(d, r) BY <1>6 DEF s, seen
  <2> HIDE DEF r
  <2> QED BY <1>1, <2>3, <2>4, IdleInv, Quiet DEF RecoverySteps, TargetSteps
<1> QED BY <1>3, <1>4, <1>5, <1>6 DEF ListOrphans

LEMMA OrphanReady ==
  ASSUME IInv, NEW d \in Device, NEW p \in {"orphanJudge", "orphanCheck",
                                            "orphanDelete"},
         txn[d].pc \in {"orphanCanonical", "orphanJudge", "orphanCheck"}
  PROVE Ready(d, p) /\ p \in TargetSteps /\ p \notin ClaimSteps
BY DEF Ready, Steps, DiscoverySteps, RecoverySteps, TargetSteps, OwnerSteps,
       ClaimSteps

LEMMA ReadCanonicalForOrphanStep ==
  ASSUME IInv, NEW d \in Device, ReadCanonicalForOrphan(d) PROVE IInv'
<1>1. txn[d].pc = "orphanCanonical" /\ UNCHANGED <<files, used, late>>
  BY DEF ReadCanonicalForOrphan, At, Local, Keep
<1>2. CASE Stop(d, "failed") BY <1>1, <1>2, QuietStop DEF Outcomes
<1>3. CASE Become(d, [To(d, "orphanJudge") EXCEPT !.raw = files[Canonical]])
  <2> DEFINE s == To(d, "orphanJudge")
             r == [s EXCEPT !.raw = files[Canonical]]
  <2>1. /\ s \in LocalState /\ s.pc = "orphanJudge" /\ s.seenL = Unread
        /\ s.lock = txn[d].lock /\ s.job = txn[d].job /\ s.back = txn[d].back
        /\ s.claim = txn[d].claim /\ s.target = txn[d].target
    BY ToState DEF Steps, DiscoverySteps
  <2>2. files[Canonical] \in MaybeIndex BY DEF IInv, DiskInv, Name
  <2> HIDE DEF s
  <2>3. /\ r \in LocalState /\ r.pc = "orphanJudge" /\ r.seenL = Unread
        /\ r.lock = txn[d].lock /\ r.job = txn[d].job /\ r.back = txn[d].back
        /\ r.claim = txn[d].claim /\ r.target = txn[d].target
    BY <2>1, <2>2 DEF LocalState
  <2>4. Become(d, r) BY <1>3 DEF s
  <2> HIDE DEF r
  <2> QED BY <1>1, <2>3, <2>4, OrphanReady, AdvanceTarget DEF TargetSteps
<1> QED BY <1>2, <1>3 DEF ReadCanonicalForOrphan

LEMMA JudgeOrphanStep ==
  ASSUME IInv, NEW d \in Device, JudgeOrphan(d) PROVE IInv'
<1>1. txn[d].pc = "orphanJudge" /\ UNCHANGED <<files, used, late>>
  BY DEF JudgeOrphan, At, Local, Keep
<1>2. Goto(d, "orphanCheck") \/ Stop(d, "ambiguous") \/ Stop(d, "failed")
  BY DEF JudgeOrphan
<1> QED BY <1>1, <1>2, OrphanReady, QuietGoto, QuietStop DEF Outcomes

LEMMA CheckOrphanStep ==
  ASSUME IInv, NEW d \in Device, CheckOrphan(d) PROVE IInv'
<1>1. txn[d].pc = "orphanCheck" /\ UNCHANGED <<files, used, late>>
  BY DEF CheckOrphan, At, Local, Keep
<1>2. Goto(d, "orphanDelete") \/ Stop(d, "concurrent") \/ Stop(d, "ambiguous")
  BY DEF CheckOrphan
<1> QED BY <1>1, <1>2, OrphanReady, QuietGoto, QuietStop DEF Outcomes

\* The lock that is deleted is nobody's, so nobody relies on it.
LEMMA DeleteOrphanStep ==
  ASSUME IInv, NEW d \in Device, DeleteOrphan(d) PROVE IInv'
<1> DEFINE n == txn[d].target
           p == Discovered(d)
           s == To(d, p)
<1>1. /\ txn[d].pc = "orphanDelete" /\ UNCHANGED <<used, late>>
      /\ files' = [files EXCEPT ![n] = Absent]
  BY DEF DeleteOrphan, At, Keep
<1>2. LocalInv(txn[d], files, used) BY DEF IInv
<1>3. /\ files \in [Name -> MaybeIndex] /\ used \subseteq LockName
      /\ late = {} /\ Locks \subseteq used
  BY DEF IInv, DiskInv
<1>4. n \in LockName BY <1>1, <1>2, <1>3 DEF LocalInv, TargetSteps
<1>5. /\ files' \in [Name -> MaybeIndex]
      /\ \A m \in Name : m # n => files'[m] = files[m]
      /\ files'[n] = Absent
  BY <1>1, <1>3, <1>4 DEF MaybeIndex, Name
<1>6. Ready(d, p) /\ p \notin HoldSteps \cup TargetSteps \cup {"idle", "seed"}
  BY DiscoveredReady, ReturnPoints
<1>7. /\ s \in LocalState /\ s.pc = p /\ s.seenL = Unread
      /\ s.lock = txn[d].lock /\ s.claim = txn[d].claim
      /\ s.job = txn[d].job /\ s.back = txn[d].back
  BY <1>6, ToState DEF Ready
<1>8. PICK r : /\ Become(d, r)
               /\ \/ r = [s EXCEPT !.observed = [@ EXCEPT ![n] = Absent]]
                  \/ r = Stopped(d, "failed")
  BY DEF DeleteOrphan, Stop
<1> HIDE DEF s, p, n
<1>9. DiskInv' /\ OneAuthority'
  <2>1. \A m \in Name : files'[m] # Absent => files[m] # Absent BY <1>5
  <2>2. OneAuthority' BY <2>1 DEF OneAuthority, IInv
  <2> QED BY <1>1, <1>3, <1>5, <2>1, <2>2 DEF DiskInv, Locks, Name
<1>10. ASSUME NEW e \in Device, e # d, txn[e].lock # Absent,
              files[txn[e].lock] # Absent
       PROVE files'[txn[e].lock] # Absent
  <2>1. txn[e].lock \in Name BY <1>10 DEF IInv, LocalState, MaybeLock, Name
  <2>2. txn[e].lock # n BY <1>1 DEF IInv, Abandoned, TargetSteps, n
  <2> QED BY <1>5, <1>10, <2>1, <2>2
<1>11. /\ LocalInv(r, files', used') /\ r.pc \notin TargetSteps
       /\ r.lock \in {Absent, txn[d].lock} /\ r.claim \in {Absent, txn[d].claim}
  <2>1. CASE r = Stopped(d, "failed")
    <3>1. /\ r \in LocalState /\ r.pc = "idle" /\ r.job = "none"
          /\ r.back = "ensure" /\ r.lock = Absent /\ r.claim = Absent
      BY <2>1, StoppedState DEF Outcomes
    <3> QED BY <3>1 DEF LocalInv, Relies, OwnerSteps, TargetSteps,
                        RecoverySteps, ClaimSteps
  <2>2. CASE r = [s EXCEPT !.observed = [@ EXCEPT ![n] = Absent]]
    <3>1. [s.observed EXCEPT ![n] = Absent] \in [LockName -> MaybeIndex]
      BY <1>7 DEF LocalState, MaybeIndex
    <3>2. /\ r \in LocalState /\ r.pc = p /\ r.seenL = Unread
          /\ r.lock = txn[d].lock /\ r.claim = txn[d].claim
          /\ r.job = txn[d].job /\ r.back = txn[d].back
      BY <1>7, <2>2, <3>1 DEF LocalState
    <3>3. ~(r.pc \in {"acquireFailed", "rollback"} /\ Present(r.seenL))
      BY <3>2 DEF Present
    <3>4. p \notin RecoverySteps /\ p \notin ClaimSteps
      BY <1>6 DEF TargetSteps, ClaimSteps
    <3> QED BY <1>1, <1>2, <1>6, <3>2, <3>3, <3>4
            DEF LocalInv, Ready, Relies, HoldSteps
  <2> QED BY <1>8, <2>1, <2>2
<1> QED BY <1>1, <1>8, <1>9, <1>10, <1>11, Frame DEF OwnOrNew

LEMMA DiscoverSteps ==
  ASSUME IInv, Hazards = {}, NEW d \in Device, Discover(d) PROVE IInv'
<1>1. ~DecideToSeed(d) BY DEF DecideToSeed
<1>2. ASSUME ManyLocks(d) \/ GiveUpWaiting(d) \/ Load(d) \/ RequestFails(d)
      PROVE IInv'
  BY <1>2, StopSteps
<1> QED BY <1>1, <1>2, EnsureStep, SeedStep, NothingToRecoverStep,
           WaitForLeaseStep, ListOrphansStep, ReadCanonicalForOrphanStep,
           JudgeOrphanStep, CheckOrphanStep, DeleteOrphanStep
        DEF Discover

-----------------------------------------------------------------------------
(* The transaction and its rollback. *)

\* What the durable queue may hold; its own invariant, needed to type a merge.
PendingOK == pending \in [Device -> SUBSET Op]

LEMMA OwnerReady ==
  ASSUME IInv, NEW d \in Device, txn[d].pc \in OwnerSteps, NEW p \in OwnerSteps
  PROVE /\ txn[d].lock \in LockName /\ txn[d].lock \in used
        /\ txn[d].lock # Absent
        /\ \A e \in Device : txn[e].lock # Canonical
        /\ \A e \in Device : e # d => txn[e].lock # txn[d].lock
        /\ p \notin HoldSteps => Ready(d, p)
        /\ files[txn[d].lock] # Absent => Ready(d, p)
<1>1. LocalInv(txn[d], files, used) BY DEF IInv
<1>2. txn[d].lock \in used /\ txn[d].lock # Absent /\ used \subseteq LockName
  BY <1>1 DEF LocalInv, IInv, DiskInv
<1>3. \A e \in Device : txn[e].lock \in LockName \cup {Absent}
  BY DEF IInv, LocalState, MaybeLock
<1>4. p \in Steps /\ p \notin TargetSteps \cup ClaimSteps \cup {"seed", "idle"}
  BY DEF Steps, OwnerSteps, TargetSteps, ClaimSteps, RecoverySteps
<1>5. \A e \in Device : e # d => txn[e].lock # txn[d].lock
  BY <1>2 DEF IInv, Disjoint
<1> QED BY <1>2, <1>3, <1>4, <1>5, NamesAssumption, MarkersAssumption
        DEF Ready, HoldSteps

\* An idle device takes a name nobody has used.
LEMMA StartCommitStep ==
  ASSUME IInv, NEW d \in Device, StartCommit(d) PROVE IInv'
<1>1. PICK n \in LockName \ used :
        /\ used' = used \cup {n}
        /\ Become(d, [Resting EXCEPT !.pc = "ensure", !.job = "commit",
                                     !.lock = n, !.observed = txn[d].observed])
  BY DEF StartCommit
<1> DEFINE r == [Resting EXCEPT !.pc = "ensure", !.job = "commit",
                                !.lock = n, !.observed = txn[d].observed]
<1>2. UNCHANGED <<files, late>> BY DEF StartCommit
<1>3. txn[d].observed \in [LockName -> MaybeIndex] BY DEF IInv, LocalState
<1>4. /\ r \in LocalState /\ r.pc = "ensure" /\ r.lock = n /\ r.claim = Absent
  BY <1>3 DEF LocalState, Resting, MaybeLock, MaybeIndex, Steps,
              DiscoverySteps, Outcomes
<1>5. n # Absent BY MarkersAssumption
<1> HIDE DEF r
<1>6. LocalInv(r, files', used')
  BY <1>1, <1>4, <1>5
  DEF LocalInv, Relies, OwnerSteps, TargetSteps, RecoverySteps, ClaimSteps
<1>7. DiskInv' /\ OneAuthority'
  BY <1>1, <1>2 DEF IInv, DiskInv, OneAuthority, Locks
<1>8. Become(d, r) BY <1>1 DEF r
<1> QED BY <1>1, <1>2, <1>4, <1>6, <1>7, <1>8, Frame
        DEF OwnOrNew, TargetSteps, RecoverySteps

LEMMA StartLoadStep ==
  ASSUME IInv, NEW d \in Device, StartLoad(d) PROVE IInv'
<1> DEFINE r == [Resting EXCEPT !.pc = "ensure", !.job = "load",
                                !.observed = txn[d].observed]
<1>1. txn[d].observed \in [LockName -> MaybeIndex] BY DEF IInv, LocalState
<1>2. /\ r \in LocalState /\ r.pc = "ensure" /\ r.job = "load"
      /\ r.back = "ensure" /\ r.lock = Absent /\ r.claim = Absent
  BY <1>1 DEF LocalState, Resting, MaybeLock, MaybeIndex, Steps,
              DiscoverySteps, Outcomes
<1>3. Become(d, r) /\ UNCHANGED <<files, used, late>>
  BY DEF StartLoad, Local, Keep
<1> HIDE DEF r
<1>4. LocalInv(r, files, used)
  BY <1>2
  DEF LocalInv, Relies, OwnerSteps, TargetSteps, RecoverySteps, ClaimSteps
<1> QED BY <1>2, <1>3, <1>4, Quiet DEF TargetSteps, RecoverySteps

LEMMA CrashStep ==
  ASSUME IInv, NEW d \in Device, Crash(d) PROVE IInv'
<1>1. /\ Resting \in LocalState /\ Resting.pc = "idle" /\ Resting.job = "none"
      /\ Resting.back = "ensure" /\ Resting.lock = Absent
      /\ Resting.claim = Absent
  BY DEF LocalState, Resting, MaybeLock, MaybeIndex, Steps, Outcomes
<1>2. Become(d, Resting) /\ UNCHANGED <<files, used, late>> BY DEF Crash
<1> QED BY <1>1, <1>2, IdleInv, Quiet DEF TargetSteps, RecoverySteps

LEMMA AcquireStep ==
  ASSUME IInv, Hazards = {}, NEW d \in Device, Acquire(d) PROVE IInv'
<1>1. txn[d].pc \in OwnerSteps /\ "acquireFailed" \in OwnerSteps \ HoldSteps
  BY DEF Acquire, At, OwnerSteps, HoldSteps
<1>2. Canonical \in Name /\ txn[d].lock \in Name BY <1>1, OwnerReady DEF Name
<1> QED BY <1>1, <1>2, OwnerReady, MoveStep DEF Acquire

\* After a probe that saw the lock the index is still there.
LEMMA IntactHolds ==
  ASSUME IInv, NEW d \in Device, txn[d].pc \in {"acquireFailed", "rollback"},
         Intact(d)
  PROVE files[txn[d].lock] # Absent
BY DEF IInv, LocalInv, Relies, Intact

LEMMA JudgeAcquireStep ==
  ASSUME IInv, NEW d \in Device, JudgeAcquire(d) PROVE IInv'
<1>1. txn[d].pc = "acquireFailed" /\ UNCHANGED <<files, used, late>>
  BY DEF JudgeAcquire, Probed, At, Local, Keep
<1>2. txn[d].pc \in OwnerSteps /\ "read" \in OwnerSteps
  BY <1>1 DEF OwnerSteps
<1>3. CASE Intact(d) /\ Goto(d, "read")
  BY <1>1, <1>2, <1>3, IntactHolds, OwnerReady, QuietGoto
<1>4. CASE Stop(d, "failed") BY <1>1, <1>4, QuietStop DEF Outcomes
<1>5. CASE Become(d, [To(d, "list") EXCEPT !.back = "acquire"])
  <2> DEFINE s == To(d, "list")
             r == [s EXCEPT !.back = "acquire"]
  <2>1. /\ s \in LocalState /\ s.pc = "list" /\ s.seenL = Unread
        /\ s.lock = txn[d].lock /\ s.job = txn[d].job
        /\ s.claim = txn[d].claim
    BY ToState DEF Steps, DiscoverySteps
  <2> HIDE DEF s
  <2>2. /\ r \in LocalState /\ r.pc = "list" /\ r.seenL = Unread
        /\ r.lock = txn[d].lock /\ r.job = txn[d].job
        /\ r.claim = txn[d].claim
    BY <2>1 DEF LocalState
  <2>3. Become(d, r) BY <1>5 DEF s
  <2> HIDE DEF r
  <2>4. txn[d].lock # Absent BY <1>2, OwnerReady
  <2> QED BY <1>1, <2>2, <2>3, <2>4, Advance
          DEF TargetSteps, RecoverySteps, HoldSteps
<1> QED BY <1>3, <1>4, <1>5 DEF JudgeAcquire

LEMMA ReducedType ==
  ASSUME PendingOK, NEW d \in Device, NEW c \in Index, txn[d].lock \in LockName
  PROVE Reduced(d, c) \in Index
<1>1. c.rev \in Nat /\ c.ops \subseteq Op BY DEF Index
<1>2. pending[d] \subseteq Op BY DEF PendingOK
<1>3. [rev |-> c.rev + 1, ops |-> c.ops \cup pending[d], by |-> txn[d].lock]
        \in Index
  BY <1>1, <1>2 DEF Index
<1> QED BY <1>3 DEF Reduced

LEMMA ReadLockStep ==
  ASSUME IInv, PendingOK, NEW d \in Device, ReadLock(d) PROVE IInv'
<1> DEFINE c == files[txn[d].lock]
           m == Reduced(d, c)
<1>1. txn[d].pc = "read" /\ UNCHANGED <<files, used, late>>
  BY DEF ReadLock, At, Local, Keep
<1>2. txn[d].pc \in OwnerSteps BY <1>1 DEF OwnerSteps
<1>3. txn[d].lock \in LockName /\ txn[d].lock # Absent BY <1>2, OwnerReady
<1>4. c # Absent BY <1>1 DEF IInv, LocalInv, Relies
<1>5. c \in Index BY <1>3, <1>4 DEF IInv, DiskInv, Name, MaybeIndex
<1>6. m \in Index BY <1>3, <1>5, ReducedType
<1> HIDE DEF c, m
<1>7. ASSUME NEW p \in {"fingerprint", "write", "rollback"},
             NEW o \in MaybeIndex, NEW g \in MaybeIndex,
             \/ Become(d, [To(d, p) EXCEPT !.orig = o, !.merged = g])
             \/ Become(d, [To(d, p) EXCEPT !.orig = o])
      PROVE IInv'
  <2> DEFINE s == To(d, p)
  <2>1. p \in Steps /\ p \notin TargetSteps \cup {"idle", "seed"}
    BY DEF Steps, OwnerSteps, TargetSteps, RecoverySteps
  <2>2. /\ s \in LocalState /\ s.pc = p /\ s.seenL = Unread
        /\ s.lock = txn[d].lock /\ s.job = txn[d].job
        /\ s.claim = txn[d].claim
    BY <2>1, ToState
  <2> HIDE DEF s
  <2>3. PICK r : Become(d, r) /\ \/ r = [s EXCEPT !.orig = o, !.merged = g]
                                 \/ r = [s EXCEPT !.orig = o]
    BY <1>7 DEF s
  <2>4. /\ r \in LocalState /\ r.pc = p /\ r.seenL = Unread
        /\ r.lock = txn[d].lock /\ r.job = txn[d].job
        /\ r.claim = txn[d].claim
    BY <2>2, <2>3 DEF LocalState
  <2>5. files[txn[d].lock] # Absent BY <1>4 DEF c
  <2> QED BY <1>1, <1>3, <2>1, <2>3, <2>4, <2>5, Advance
<1>8. c \in MaybeIndex /\ m \in MaybeIndex BY <1>5, <1>6 DEF MaybeIndex
<1>9. CASE Become(d, [To(d, IF m = c THEN "fingerprint" ELSE "write") EXCEPT
                         !.orig = c, !.merged = m])
  BY <1>7, <1>8, <1>9
<1>10. CASE Become(d, [To(d, "rollback") EXCEPT !.orig = c])
  BY <1>7, <1>8, <1>10
<1>11. CASE Stop(d, "ambiguous") BY <1>1, <1>11, QuietStop DEF Outcomes
<1> QED BY <1>9, <1>10, <1>11 DEF ReadLock, c, m

\* The two writes to the lock happen while the device holds the index.
LEMMA WriteSteps ==
  ASSUME IInv, Hazards = {}, NEW d \in Device, WriteLock(d) \/ RestoreLock(d)
  PROVE IInv'
<1>1. txn[d].pc \in {"write", "restore"} BY DEF WriteLock, RestoreLock, At
<1>2. txn[d].pc \in OwnerSteps /\ "verify" \in OwnerSteps \ HoldSteps
      /\ "restoreVerify" \in OwnerSteps \ HoldSteps
  BY <1>1 DEF OwnerSteps, HoldSteps
<1>3. files[txn[d].lock] # Absent BY <1>1 DEF IInv, LocalInv, Relies
<1>4. txn[d].lock # Absent /\ Ready(d, "verify") /\ Ready(d, "restoreVerify")
  BY <1>2, OwnerReady
<1>5. txn[d].merged \in MaybeIndex /\ txn[d].orig \in MaybeIndex
  BY DEF IInv, LocalState
<1>6. CASE WriteLock(d)
  BY <1>2, <1>3, <1>4, <1>5, <1>6, OverwriteStep DEF WriteLock
<1>7. CASE RestoreLock(d)
  BY <1>2, <1>3, <1>4, <1>5, <1>7, OverwriteStep DEF RestoreLock
<1> QED BY <1>6, <1>7

\* The three moves of the lock to the canonical name.
LEMMA PublishSteps ==
  ASSUME IInv, Hazards = {}, NEW d \in Device,
         Publish(d) \/ RetryMove(d) \/ RestoreMove(d)
  PROVE IInv'
<1>1. txn[d].pc \in OwnerSteps
      /\ {"confirm", "resolve", "restoreConfirm"} \subseteq OwnerSteps \ HoldSteps
  BY DEF Publish, RetryMove, RestoreMove, At, OwnerSteps, HoldSteps
<1>2. /\ txn[d].lock \in Name /\ Canonical \in Name
      /\ Canonical \notin LockName
      /\ \A e \in Device : e # d => txn[e].lock # txn[d].lock
      /\ Ready(d, "confirm") /\ Ready(d, "resolve") /\ Ready(d, "restoreConfirm")
  BY <1>1, OwnerReady, NamesAssumption DEF Name
<1>3. CASE Publish(d) BY <1>1, <1>2, <1>3, MoveStep DEF Publish
<1>4. CASE RetryMove(d) BY <1>1, <1>2, <1>4, MoveStep DEF RetryMove
<1>5. CASE RestoreMove(d) BY <1>1, <1>2, <1>5, MoveStep DEF RestoreMove
<1> QED BY <1>3, <1>4, <1>5

\* Everything the owner only looks at or decides.
LEMMA DecisionSteps ==
  ASSUME IInv, NEW d \in Device,
         VerifyLock(d) \/ FingerprintLock(d) \/ Resolve(d) \/ Confirm(d)
           \/ Reconfirm(d) \/ Rollback(d) \/ VerifyRestored(d)
           \/ ConfirmRestored(d) \/ ReadRestored(d)
  PROVE IInv'
<1>1. CASE Accept(d) BY <1>1, StopSteps
<1>2. CASE ~Accept(d)
  <2>1. UNCHANGED <<files, used, late>>
    BY <1>2 DEF VerifyLock, FingerprintLock, Resolve, Confirm, Reconfirm,
                Rollback, VerifyRestored, ConfirmRestored, ReadRestored,
                Unaccepted, Local, Keep
  <2>2. txn[d].pc \in OwnerSteps
    BY DEF VerifyLock, FingerprintLock, Resolve, Confirm, Reconfirm, Rollback,
           VerifyRestored, ConfirmRestored, ReadRestored, Probed, At, OwnerSteps
  <2>3. \/ \E p \in {"publish", "rollback", "retryMove", "reconfirm",
                     "restoreMove", "restoredRead"} : Goto(d, p)
        \/ txn[d].pc = "rollback" /\ Intact(d) /\ Goto(d, "restore")
        \/ \E o \in Outcomes : Stop(d, o)
    BY <1>2 DEF VerifyLock, FingerprintLock, Resolve, Confirm, Reconfirm,
                Rollback, VerifyRestored, ConfirmRestored, ReadRestored,
                RestoredOutcome, Outcomes, Probed, At
  <2>4. ASSUME NEW p \in {"publish", "rollback", "retryMove", "reconfirm",
                          "restoreMove", "restoredRead"}
        PROVE Ready(d, p)
    BY <2>2, OwnerReady DEF OwnerSteps, HoldSteps
  <2>5. ASSUME txn[d].pc = "rollback", Intact(d) PROVE Ready(d, "restore")
    BY <2>2, <2>5, IntactHolds, OwnerReady DEF OwnerSteps
  <2> QED BY <2>1, <2>3, <2>4, <2>5, QuietGoto, QuietStop
<1> QED BY <1>1, <1>2

LEMMA ProbingSteps ==
  ASSUME IInv, NEW d \in Device, ProbeCanonical(d) \/ ProbeLock(d)
  PROVE IInv'
<1>1. LocalInv(txn[d], files, used) /\ UNCHANGED <<files, used, late>>
  BY DEF IInv, ProbeCanonical, ProbeLock, Local, Keep
<1>2. txn[d].pc \in OwnerSteps /\ txn[d].pc \notin TargetSteps
  BY DEF ProbeCanonical, ProbeLock, ProbeSteps, OwnerSteps, TargetSteps,
         RecoverySteps
<1>3. files[txn[d].lock] \in MaybeIndex /\ files[Canonical] \in MaybeIndex
  BY <1>2, OwnerReady DEF IInv, DiskInv, Name
<1>4. txn[d] \in LocalState BY DEF IInv
<1>5. ASSUME NEW x \in MaybeIndex \cup {Unreadable},
             Become(d, [txn[d] EXCEPT !.seenC = x])
      PROVE IInv'
  <2>1. PICK r : Become(d, r) /\ r = [txn[d] EXCEPT !.seenC = x] BY <1>5
  <2>2. /\ r \in LocalState /\ r.pc = txn[d].pc /\ r.lock = txn[d].lock
        /\ r.claim = txn[d].claim /\ r.seenL = txn[d].seenL
        /\ r.job = txn[d].job /\ r.back = txn[d].back
        /\ r.target = txn[d].target /\ r.dest = txn[d].dest
    BY <1>4, <2>1 DEF LocalState
  <2>3. LocalInv(r, files, used) BY <1>1, <2>2 DEF LocalInv, Relies
  <2> QED BY <1>1, <1>2, <2>1, <2>2, <2>3, Quiet
<1>6. ASSUME NEW x \in {files[txn[d].lock], Unreadable},
             Become(d, [txn[d] EXCEPT !.seenL = x])
      PROVE IInv'
  <2>1. PICK r : Become(d, r) /\ r = [txn[d] EXCEPT !.seenL = x] BY <1>6
  <2>2. x \in MaybeIndex \cup {Unreadable} BY <1>3
  <2>3. /\ r \in LocalState /\ r.pc = txn[d].pc /\ r.lock = txn[d].lock
        /\ r.claim = txn[d].claim /\ r.seenL = x
        /\ r.job = txn[d].job /\ r.back = txn[d].back
        /\ r.target = txn[d].target /\ r.dest = txn[d].dest
    BY <1>4, <2>1, <2>2 DEF LocalState
  <2>4. Present(x) => files[txn[d].lock] # Absent BY DEF Present
  <2>5. LocalInv(r, files, used) BY <1>1, <2>3, <2>4 DEF LocalInv, Relies
  <2> QED BY <1>1, <1>2, <2>1, <2>3, <2>5, Quiet
<1> QED BY <1>3, <1>5, <1>6 DEF ProbeCanonical, ProbeLock

LEMMA TransactSteps ==
  ASSUME IInv, PendingOK, Hazards = {}, NEW d \in Device, Transact(d)
  PROVE IInv'
<1>1. CASE Acquire(d) \/ JudgeAcquire(d)
  BY <1>1, AcquireStep, JudgeAcquireStep
<1>2. CASE ReadLock(d) BY <1>2, ReadLockStep
<1>3. CASE WriteLock(d) BY <1>3, WriteSteps
<1>4. CASE Publish(d) \/ RetryMove(d) BY <1>4, PublishSteps
<1>5. CASE VerifyLock(d) \/ FingerprintLock(d) \/ Resolve(d) \/ Confirm(d)
             \/ Reconfirm(d)
  BY <1>5, DecisionSteps
<1>6. CASE ProbeCanonical(d) \/ ProbeLock(d) BY <1>6, ProbingSteps
<1> QED BY <1>1, <1>2, <1>3, <1>4, <1>5, <1>6 DEF Transact

LEMMA RollBackSteps ==
  ASSUME IInv, Hazards = {}, NEW d \in Device, RollBack(d) PROVE IInv'
<1>1. CASE Rollback(d) \/ VerifyRestored(d) \/ ConfirmRestored(d)
             \/ ReadRestored(d)
  BY <1>1, DecisionSteps
<1>2. CASE RestoreLock(d) BY <1>2, WriteSteps
<1>3. CASE RestoreMove(d) BY <1>3, PublishSteps
<1> QED BY <1>1, <1>2, <1>3 DEF RollBack

-----------------------------------------------------------------------------
(* The theorems. *)

\* The durable queue only ever holds mutations users made.
LEMMA PendingStep ==
  ASSUME PendingOK, [Next]_vars PROVE PendingOK'
<1>1. CASE UNCHANGED vars BY <1>1 DEF PendingOK, vars
<1>2. ASSUME NEW d \in Device, Edit(d) PROVE PendingOK'
  <2>1. PICK o \in Op : pending' = [pending EXCEPT ![d] = @ \cup {o}]
    BY <1>2 DEF Edit
  <2> QED BY <2>1 DEF PendingOK
<1>3. ASSUME NEW d \in Device, NEW index, Acknowledge(d, index) PROVE PendingOK'
  BY <1>3 DEF PendingOK, Acknowledge
<1>4. ASSUME NEW d \in Device, StartCommit(d) \/ StartLoad(d) \/ Crash(d)
      PROVE PendingOK'
  BY <1>4 DEF PendingOK, StartCommit, StartLoad, Crash, Local, Keep
<1>5. ASSUME NEW d \in Device, Discover(d) PROVE PendingOK'
  BY <1>3, <1>5 DEF PendingOK, Discover, Ensure, Seed, DecideToSeed,
     NothingToRecover, ManyLocks, WaitForLease, GiveUpWaiting, RequestFails, ListOrphans,
     ReadCanonicalForOrphan, JudgeOrphan, CheckOrphan, DeleteOrphan, Load,
     Local, Keep
<1>6. ASSUME NEW d \in Device, Recover(d) PROVE PendingOK'
  BY <1>6 DEF PendingOK, Recover, LeaseEnded, ReadStaleLock, CheckClaim,
     MoveClaim, ReadClaim, CheckLanding, MoveLanding, ConfirmLanding,
     ExclusiveMove, Local, Keep
<1>7. ASSUME NEW d \in Device, Transact(d) PROVE PendingOK'
  BY <1>3, <1>7 DEF PendingOK, Transact, Acquire, JudgeAcquire, ReadLock,
     WriteLock, VerifyLock, FingerprintLock, Publish, Resolve, RetryMove, Confirm, Reconfirm,
     ProbeCanonical, ProbeLock, Accept, Unaccepted, ExclusiveMove, Overwrite,
     Local, Keep
<1>8. ASSUME NEW d \in Device, RollBack(d) PROVE PendingOK'
  BY <1>8 DEF PendingOK, RollBack, Rollback, RestoreLock, VerifyRestored,
     RestoreMove, ConfirmRestored, ReadRestored, ExclusiveMove, Overwrite, Local, Keep
<1>9. ASSUME LateEffect PROVE PendingOK'
  BY <1>9 DEF PendingOK, LateEffect, Keep
<1> QED BY <1>1, <1>2, <1>4, <1>5, <1>6, <1>7, <1>8, <1>9 DEF Next, Step

LEMMA IInvInit == Init => IInv /\ PendingOK
<1> SUFFICES ASSUME Init PROVE IInv /\ PendingOK OBVIOUS
<1>1. /\ Resting \in LocalState /\ Resting.pc = "idle" /\ Resting.job = "none"
      /\ Resting.back = "ensure" /\ Resting.lock = Absent
      /\ Resting.claim = Absent
  BY DEF LocalState, Resting, MaybeLock, MaybeIndex, Steps, Outcomes
<1>2. files \in [Name -> MaybeIndex] /\ \A n \in Name : files[n] = Absent
  BY DEF Init, MaybeIndex
<1>3. DiskInv /\ OneAuthority
  BY <1>2 DEF Init, DiskInv, OneAuthority, Locks, Name
<1>4. txn \in [Device -> LocalState] /\ \A d \in Device : txn[d] = Resting
  BY <1>1 DEF Init
<1>5. LocalInv(Resting, files, used)
  BY <1>1 DEF LocalInv, Relies, OwnerSteps, TargetSteps, RecoverySteps,
              ClaimSteps
<1>6. Disjoint(Resting, Resting) /\ Abandoned(Resting, Resting)
  BY <1>1 DEF Disjoint, Abandoned, TargetSteps, RecoverySteps
<1> QED BY <1>3, <1>4, <1>5, <1>6 DEF IInv, PendingOK, Init

LEMMA IInvStep ==
  ASSUME IInv, PendingOK, Hazards = {}, [Next]_vars PROVE IInv'
<1>1. CASE UNCHANGED vars
  BY <1>1 DEF vars, IInv, DiskInv, OneAuthority, Locks
<1>2. ASSUME NEW d \in Device, Edit(d) PROVE IInv'
  BY <1>2 DEF Edit, IInv, DiskInv, OneAuthority, Locks
<1>3. ~LateEffect BY DEF LateEffect, IInv, DiskInv
<1> QED BY <1>1, <1>2, <1>3, StartCommitStep, StartLoadStep, CrashStep,
           DiscoverSteps, RecoverSteps, TransactSteps, RollBackSteps
        DEF Next, Step

\* Without late effects, outlived leases and stale absence proofs the index
\* file is never duplicated, whatever else is lost, refused or crashes: the
\* lock protocol of commit.ts and recovery.ts is a token.
THEOREM TokenSafety ==
  ASSUME Hazards = {} PROVE Spec => []OneAuthority
<1>1. Init => IInv /\ PendingOK BY IInvInit
<1>2. IInv /\ PendingOK /\ [Next]_vars => (IInv /\ PendingOK)'
  BY IInvStep, PendingStep
<1>3. IInv => OneAuthority BY DEF IInv
<1> QED BY <1>1, <1>2, <1>3, PTL DEF Spec

\* The counters stay within their bounds and acknowledgements are mutations.
CountersOK == /\ accepted \subseteq Op
              /\ faults \in 0..MaxFaults
              /\ crashes \in 0..MaxCrashes

LEMMA CountersStep ==
  ASSUME CountersOK, PendingOK, [Next]_vars PROVE CountersOK'
<1> DEFINE Counted == /\ accepted' = accepted \/ accepted' \subseteq Op
                      /\ faults' = faults \/ Fault
                      /\ \/ crashes' = crashes
                         \/ crashes < MaxCrashes /\ crashes' = crashes + 1
<1>1. Counted => CountersOK'
  BY BoundsAssumption DEF CountersOK, Fault
<1>2. CASE UNCHANGED vars BY <1>1, <1>2 DEF vars
<1>3. ASSUME NEW d \in Device, Edit(d) \/ StartCommit(d) \/ StartLoad(d)
                               \/ Crash(d)
      PROVE Counted
  BY <1>3 DEF Edit, StartCommit, StartLoad, Crash, NoFault, Local, Keep
<1>4. ASSUME NEW d \in Device, NEW index, Acknowledge(d, index)
      PROVE accepted' \subseteq Op
  BY <1>4 DEF CountersOK, PendingOK, Acknowledge
<1>5. ASSUME NEW d \in Device, Discover(d) PROVE Counted
  BY <1>4, <1>5 DEF Discover, Ensure, Seed, DecideToSeed,
     NothingToRecover, ManyLocks, WaitForLease, GiveUpWaiting, RequestFails, ListOrphans,
     ReadCanonicalForOrphan, JudgeOrphan, CheckOrphan, DeleteOrphan, Load,
     NoFault, Local, Keep
<1>6. ASSUME NEW d \in Device, Recover(d) PROVE Counted
  BY <1>6 DEF Recover, LeaseEnded, ReadStaleLock, CheckClaim,
     MoveClaim, ReadClaim, CheckLanding, MoveLanding, ConfirmLanding,
     ExclusiveMove, NoFault, Local, Keep
<1>7. ASSUME NEW d \in Device, Transact(d) PROVE Counted
  BY <1>4, <1>7 DEF Transact, Acquire, JudgeAcquire, ReadLock,
     WriteLock, VerifyLock, FingerprintLock, Publish, Resolve, RetryMove, Confirm, Reconfirm,
     ProbeCanonical, ProbeLock, Accept, Unaccepted, ExclusiveMove, Overwrite,
     NoFault, Local, Keep
<1>8. ASSUME NEW d \in Device, RollBack(d) PROVE Counted
  BY <1>8 DEF RollBack, Rollback, RestoreLock, VerifyRestored,
     RestoreMove, ConfirmRestored, ReadRestored, ExclusiveMove, Overwrite, NoFault, Local, Keep
<1>9. ASSUME LateEffect PROVE Counted
  BY <1>9 DEF LateEffect, Keep
<1> HIDE DEF Counted
<1> QED BY <1>1, <1>2, <1>3, <1>5, <1>6, <1>7, <1>8, <1>9 DEF Next, Step

\* The history variables remember indexes that were at the canonical name.
HistoryOK == published \in MaybeIndex /\ everPublished \subseteq Op

LEMMA HistoryStep ==
  ASSUME HistoryOK, IInv', [Next]_vars PROVE HistoryOK'
<1>1. CASE UNCHANGED vars BY <1>1 DEF HistoryOK, vars
<1>2. CASE RecordPublication
  <2>1. files'[Canonical] \in MaybeIndex BY DEF IInv, DiskInv, Name
  <2>2. files'[Canonical] # Absent => files'[Canonical].ops \subseteq Op
    BY <2>1 DEF MaybeIndex, Index
  <2> QED BY <1>2, <2>1, <2>2 DEF RecordPublication, HistoryOK
<1> QED BY <1>1, <1>2 DEF Next

\* Every variable keeps to its type, whatever the numbers of devices, names,
\* faults and crashes; recovery and rollback never put anything but an index
\* into a service file.
THEOREM TypeCorrect ==
  ASSUME Hazards = {} PROVE Spec => []TypeOK
<1> DEFINE Inv == IInv /\ PendingOK /\ CountersOK /\ HistoryOK
<1>1. Init => Inv
  <2>1. Init => CountersOK BY BoundsAssumption DEF Init, CountersOK
  <2>2. Init => HistoryOK BY DEF Init, HistoryOK, MaybeIndex
  <2> QED BY <2>1, <2>2, IInvInit
<1>2. Inv /\ [Next]_vars => Inv'
  BY IInvStep, PendingStep, CountersStep, HistoryStep
<1>3. Inv => TypeOK
  BY DEF IInv, DiskInv, PendingOK, CountersOK, HistoryOK, TypeOK
<1> QED BY <1>1, <1>2, <1>3, PTL DEF Spec

-----------------------------------------------------------------------------
(* What recovery publishes, whatever the hazards: nobody but the device that *)
(* chose a claim name ever puts bytes there, and only once.                  *)

Claiming == {"claimCheck", "claimMove", "claimed", "claimLost"}
Landing == {"landCheck", "land"}

\* The disk, the devices and their local states have the fields they have.
Formed == /\ DOMAIN files = Name
          /\ DOMAIN txn = Device
          /\ \A d \in Device : DOMAIN txn[d] = DOMAIN Resting

\* Every name in sight has been handed out.
Named ==
  /\ used \subseteq LockName
  /\ \A n \in LockName : files[n] # Absent => n \in used
  /\ \A x \in late : x.to \in used \cup {Absent, Canonical}
  /\ \A d \in Device :
       /\ txn[d].lock \in used \cup {Absent}
       /\ txn[d].claim \in used \cup {Absent}
       /\ txn[d].claim # Absent <=> txn[d].pc \in ClaimSteps
       /\ txn[d].back \in {"ensure", "acquire"}
       /\ txn[d].pc \in RecoverySteps => txn[d].target \in used
       /\ txn[d].pc \in ClaimSteps => txn[d].dest \in {Canonical, txn[d].target}

\* The claim of a running recovery is nobody's lock and nobody else's claim.
ClaimsApart ==
  \A d, e \in Device : txn[d].claim # Absent =>
    /\ txn[e].lock # txn[d].claim
    /\ d # e => txn[e].claim # txn[d].claim

\* The request by which the bytes may still come to the claim of d.
LateClaim(d) == [from |-> txn[d].target, to |-> txn[d].claim, index |-> Absent]

\* The MOVE to the claim of d is still to be sent, or may still take effect.
Unfilled(d) == \/ txn[d].pc \in {"claimCheck", "claimMove"}
               \/ \E x \in late : x.to = txn[d].claim

\* Before it nothing is at the claim, and nobody has found a lock there.
Filling ==
  \A d \in Device : txn[d].claim # Absent =>
    /\ \A x \in late : x.to = txn[d].claim =>
         x = LateClaim(d) /\ txn[d].pc = "claimLost"
    /\ Unfilled(d) =>
         /\ files[txn[d].claim] = Absent
         /\ \A e \in Device :
              txn[e].pc \in RecoverySteps => txn[e].target # txn[d].claim

\* What d is to publish are the bytes it observed; what it recovers from the
\* claim of another running recovery has not changed since it was pinned.
Faithful ==
  \A d \in Device :
    /\ txn[d].pc \in Claiming =>
         txn[d].dest = Canonical /\ txn[d].raw = txn[d].observed[txn[d].target]
    /\ txn[d].pc \in Landing =>
         /\ files[txn[d].claim] \in {Absent, txn[d].raw}
         /\ txn[d].dest = Canonical =>
              txn[d].raw = txn[d].observed[txn[d].target]
    /\ \A e \in Device : txn[e].claim # Absent /\ txn[d].target = txn[e].claim =>
         /\ txn[d].pc \in Claiming =>
              /\ files[txn[d].target] \in {Absent, txn[d].raw}
              /\ files[txn[d].claim] \in {Absent, txn[d].raw}
         /\ txn[d].pc \in Landing => txn[d].dest = Canonical

RecoveryInv == Formed /\ Named /\ ClaimsApart /\ Filling /\ Faithful

\* r has no claim; if it has just found a lease ended, the lock is there.
Aside(d, r) ==
  /\ DOMAIN r = DOMAIN Resting
  /\ r.pc \notin ClaimSteps /\ r.claim = Absent
  /\ r.back \in {"ensure", "acquire"}
  /\ r.lock \in {Absent, txn[d].lock} \cup (used' \ used)
  /\ r.pc = "staleRead" => r.target \in Locks

\* The step puts nothing under any name but the canonical one and d's lock.
Spares(d) ==
  /\ DOMAIN files' = Name
  /\ used \subseteq used' /\ used' \subseteq LockName
  /\ \A n \in LockName : n # txn[d].lock => files'[n] \in {files[n], Absent}
  /\ \A x \in late' : x \in late \/ x.to \in {Canonical, txn[d].lock}

\* d is now in state r, the others are where they were.
Turns(d, r) == /\ DOMAIN txn' = Device /\ txn'[d] = r
               /\ \A e \in Device : e # d => txn'[e] = txn[e]

LEMMA TurnStep ==
  ASSUME RecoveryInv, NEW d \in Device, NEW r, Become(d, r)
  PROVE Turns(d, r)
BY DEF Turns, Become, RecoveryInv, Formed

\* The steps of a recovery, and which names are which.
LEMMA Constantly ==
  /\ ClaimSteps = Claiming \cup Landing \cup {"landed"}
  /\ RecoverySteps = ClaimSteps \cup {"staleRead"}
  /\ Absent \notin LockName /\ Canonical \notin LockName /\ Absent # Canonical
  /\ LockName \subseteq Name /\ Canonical \in Name /\ Absent \notin Name
BY MarkersAssumption DEF ClaimSteps, RecoverySteps, Claiming, Landing, Name

LEMMA ClaimNames ==
  ASSUME RecoveryInv, NEW d \in Device, txn[d].claim # Absent
  PROVE /\ txn[d].claim \in LockName /\ txn[d].claim \in used
        /\ \A e \in Device : txn[e].lock # txn[d].claim
BY DEF RecoveryInv, Named, ClaimsApart

\* A step of a device that has no claim afterwards.
LEMMA AsideKeeps ==
  ASSUME RecoveryInv, NEW d \in Device, NEW r, Become(d, r), Aside(d, r), Spares(d)
  PROVE RecoveryInv'
<1>1. Turns(d, r) BY TurnStep
<1>2. Formed' BY <1>1 DEF Turns, RecoveryInv, Formed, Aside, Spares
<1>3. \A n \in LockName : files'[n] # Absent => n \in used'
  <2>1. txn[d].lock \in used \cup {Absent} BY DEF RecoveryInv, Named
  <2> QED BY <2>1, Constantly DEF RecoveryInv, Named, Spares
<1>4. \A x \in late' : x.to \in used' \cup {Absent, Canonical}
  BY DEF RecoveryInv, Named, Spares
<1>5. Named'
  <2>1. ASSUME NEW e \in Device
        PROVE /\ txn'[e].lock \in used' \cup {Absent}
              /\ txn'[e].claim \in used' \cup {Absent}
              /\ txn'[e].claim # Absent <=> txn'[e].pc \in ClaimSteps
              /\ txn'[e].back \in {"ensure", "acquire"}
              /\ txn'[e].pc \in RecoverySteps => txn'[e].target \in used'
              /\ txn'[e].pc \in ClaimSteps =>
                   txn'[e].dest \in {Canonical, txn'[e].target}
    <3>1. CASE e # d BY <1>1, <3>1 DEF Turns, RecoveryInv, Named, Spares
    <3>2. CASE e = d
      <4>1. r.lock \in used' \cup {Absent} BY DEF Aside, RecoveryInv, Named, Spares
      <4>2. r.pc \in RecoverySteps => r.target \in used'
        BY Constantly DEF Aside, Locks, RecoveryInv, Named, Spares
      <4> QED BY <1>1, <3>2, <4>1, <4>2 DEF Turns, Aside
    <3> QED BY <3>1, <3>2
  <2> QED BY <1>3, <1>4, <2>1 DEF Named, Spares
<1>6. ClaimsApart'
  <2>1. r.lock \in {Absent, txn[d].lock} \/ r.lock \notin used BY DEF Aside
  <2>2. r.claim = Absent BY DEF Aside
  <2>3. \A e \in Device : txn[e].claim # Absent => txn[e].claim \in used
    BY ClaimNames
  <2> QED BY <1>1, <2>1, <2>2, <2>3 DEF Turns, RecoveryInv, ClaimsApart
<1>7. ASSUME NEW e \in Device, txn'[e].claim # Absent
      PROVE /\ e # d /\ txn'[e] = txn[e]
            /\ files'[txn[e].claim] \in {files[txn[e].claim], Absent}
            /\ \A x \in late' : x.to = txn[e].claim => x \in late
  <2>1. e # d BY <1>1, <1>7 DEF Turns, Aside
  <2>2. txn'[e] = txn[e] BY <1>1, <2>1 DEF Turns
  <2>3. txn[e].claim \in LockName /\ txn[d].lock # txn[e].claim
    BY <1>7, <2>2, ClaimNames
  <2> QED BY <2>1, <2>2, <2>3, Constantly DEF Spares
<1>8. Filling'
  <2>1. ASSUME NEW e \in Device, txn'[e].claim # Absent
        PROVE /\ \A x \in late' : x.to = txn'[e].claim =>
                   x = LateClaim(e)' /\ txn'[e].pc = "claimLost"
              /\ Unfilled(e)' =>
                   /\ files'[txn'[e].claim] = Absent
                   /\ \A g \in Device :
                        txn'[g].pc \in RecoverySteps => txn'[g].target # txn'[e].claim
    <3>1. /\ txn'[e] = txn[e] /\ txn[e].claim # Absent
          /\ \A x \in late' : x.to = txn[e].claim => x \in late
      BY <1>7, <2>1
    <3>2. Unfilled(e)' => Unfilled(e) BY <3>1 DEF Unfilled
    <3>3. r.pc \in RecoverySteps => files[r.target] # Absent
      BY Constantly DEF Aside, Locks
    <3>4. Unfilled(e) =>
            /\ files[txn[e].claim] = Absent
            /\ \A g \in Device :
                 txn[g].pc \in RecoverySteps => txn[g].target # txn[e].claim
      BY <3>1 DEF RecoveryInv, Filling
    <3>5. ASSUME Unfilled(e)', NEW g \in Device, txn'[g].pc \in RecoverySteps
          PROVE txn'[g].target # txn[e].claim
      BY <3>2, <3>3, <3>4, <3>5, <1>1 DEF Turns
    <3>6. \A x \in late' : x.to = txn[e].claim =>
                   x = LateClaim(e) /\ txn[e].pc = "claimLost"
      BY <3>1 DEF RecoveryInv, Filling
    <3>7. Unfilled(e)' => files'[txn[e].claim] = Absent
      BY <1>7, <2>1, <3>2, <3>4
    <3> QED BY <3>1, <3>5, <3>6, <3>7 DEF LateClaim
  <2> QED BY <2>1 DEF Filling
<1>9. Faithful'
  <2>1. ASSUME NEW e \in Device, txn'[e].pc \in ClaimSteps
        PROVE /\ txn'[e] = txn[e] /\ txn[e].pc \in ClaimSteps
              /\ files'[txn[e].claim] \in {files[txn[e].claim], Absent}
    BY <1>5, <1>7, <2>1 DEF Named
  <2>2. ASSUME NEW e \in Device, NEW g \in Device, txn'[e].pc \in ClaimSteps,
               txn'[g].claim # Absent, txn'[e].target = txn'[g].claim
        PROVE /\ txn[g].claim # Absent /\ txn[e].target = txn[g].claim
              /\ files'[txn[e].target] \in {files[txn[e].target], Absent}
    BY <1>7, <2>1, <2>2
  <2>3. ASSUME NEW e \in Device
        PROVE /\ txn'[e].pc \in Claiming =>
                   txn'[e].dest = Canonical
                   /\ txn'[e].raw = txn'[e].observed[txn'[e].target]
              /\ txn'[e].pc \in Landing =>
                   /\ files'[txn'[e].claim] \in {Absent, txn'[e].raw}
                   /\ txn'[e].dest = Canonical =>
                        txn'[e].raw = txn'[e].observed[txn'[e].target]
    BY <2>1, Constantly DEF RecoveryInv, Faithful
  <2>4. ASSUME NEW e \in Device, NEW g \in Device,
               txn'[g].claim # Absent, txn'[e].target = txn'[g].claim
        PROVE /\ txn'[e].pc \in Claiming =>
                   /\ files'[txn'[e].target] \in {Absent, txn'[e].raw}
                   /\ files'[txn'[e].claim] \in {Absent, txn'[e].raw}
              /\ txn'[e].pc \in Landing => txn'[e].dest = Canonical
    <3>1. CASE txn'[e].pc \notin ClaimSteps BY <3>1, Constantly
    <3>2. CASE txn'[e].pc \in ClaimSteps
      BY <2>1, <2>2, <2>4, <3>2 DEF RecoveryInv, Faithful
    <3> QED BY <3>1, <3>2
  <2> QED BY <2>3, <2>4 DEF Faithful
<1> QED BY <1>2, <1>5, <1>6, <1>8, <1>9 DEF RecoveryInv

\* What To keeps of a local state.
LEMMA Fields ==
  ASSUME RecoveryInv, NEW d \in Device, NEW p
  PROVE /\ DOMAIN To(d, p) = DOMAIN Resting /\ To(d, p).pc = p
        /\ To(d, p).lock = txn[d].lock /\ To(d, p).claim = txn[d].claim
        /\ To(d, p).target = txn[d].target /\ To(d, p).dest = txn[d].dest
        /\ To(d, p).raw = txn[d].raw /\ To(d, p).back = txn[d].back
        /\ To(d, p).observed = txn[d].observed
<1>1. DOMAIN txn[d] = DOMAIN Resting BY DEF RecoveryInv, Formed
<1> QED BY <1>1 DEF To, Resting

\* A step of d between two steps that both have its claim.
Carries(d, r) ==
  /\ Turns(d, r) /\ DOMAIN r = DOMAIN Resting
  /\ r.pc \in ClaimSteps /\ txn[d].pc \in ClaimSteps
  /\ r.lock = txn[d].lock /\ r.claim = txn[d].claim /\ r.back = txn[d].back
  /\ r.target = txn[d].target /\ r.observed = txn[d].observed
  /\ r.dest \in {Canonical, txn[d].target}
  /\ used' = used /\ DOMAIN files' = Name

LEMMA CarriesNames ==
  ASSUME RecoveryInv, NEW d \in Device, NEW r, Carries(d, r),
         \A n \in LockName : files'[n] # Absent => n \in used,
         \A x \in late' : x \in late \/ x.to \in used \cup {Canonical}
  PROVE Formed' /\ Named' /\ ClaimsApart'
<1>1. Formed' BY DEF Carries, Turns, RecoveryInv, Formed
<1>2. \A e \in Device : /\ txn'[e].lock = txn[e].lock /\ txn'[e].claim = txn[e].claim
                        /\ txn'[e].back = txn[e].back
                        /\ txn'[e].target = txn[e].target
                        /\ txn'[e].pc \in ClaimSteps <=> txn[e].pc \in ClaimSteps
                        /\ txn'[e].pc \in RecoverySteps <=> txn[e].pc \in RecoverySteps
  BY Constantly DEF Carries, Turns
<1>3. Named' BY <1>2 DEF Carries, Turns, RecoveryInv, Named
<1>4. ClaimsApart' BY <1>2 DEF RecoveryInv, ClaimsApart
<1> QED BY <1>1, <1>3, <1>4

\* The device looks at the disk and goes on.
LEMMA LookKeeps ==
  ASSUME RecoveryInv, NEW d \in Device, NEW r, Carries(d, r),
         UNCHANGED <<files, late>>,
         r.pc \in Claiming =>
           /\ txn[d].pc \in Claiming /\ r.dest = txn[d].dest /\ r.raw = txn[d].raw
           /\ r.pc = "claimMove" /\ txn[d].pc = "claimCheck",
         r.pc \notin Claiming => ~Unfilled(d),
         r.pc \in Landing =>
           /\ files[txn[d].claim] \in {Absent, r.raw}
           /\ r.dest = Canonical => r.raw = txn[d].observed[txn[d].target]
           /\ \A e \in Device : txn[e].claim # Absent /\ txn[d].target = txn[e].claim
                => r.dest = Canonical
  PROVE RecoveryInv'
<1>1. Formed' /\ Named' /\ ClaimsApart' BY CarriesNames DEF RecoveryInv, Named
<1>2. \A e \in Device : /\ txn'[e].claim = txn[e].claim
                        /\ txn'[e].target = txn[e].target
                        /\ txn'[e].observed = txn[e].observed
                        /\ txn'[e].pc \in RecoverySteps <=> txn[e].pc \in RecoverySteps
  BY Constantly DEF Carries, Turns
<1>3. \A e \in Device : txn[e].claim # Absent /\ Unfilled(e)' => Unfilled(e)
  BY <1>2 DEF Carries, Turns, Unfilled, Claiming
<1>4. \A x \in late : txn[d].claim # Absent /\ x.to = txn[d].claim =>
        r.pc \in Claiming /\ txn[d].pc = "claimLost"
  BY DEF RecoveryInv, Filling, Unfilled
<1>5. Filling'
  BY <1>2, <1>3, <1>4 DEF Carries, Turns, RecoveryInv, Filling, LateClaim
<1>6. Faithful'
  <2>1. ASSUME NEW e \in Device
        PROVE /\ txn'[e].pc \in Claiming =>
                   txn'[e].dest = Canonical
                   /\ txn'[e].raw = txn'[e].observed[txn'[e].target]
              /\ txn'[e].pc \in Landing =>
                   /\ files'[txn'[e].claim] \in {Absent, txn'[e].raw}
                   /\ txn'[e].dest = Canonical =>
                        txn'[e].raw = txn'[e].observed[txn'[e].target]
    BY DEF Carries, Turns, RecoveryInv, Faithful
  <2>2. ASSUME NEW e \in Device, NEW g \in Device,
               txn'[g].claim # Absent, txn'[e].target = txn'[g].claim
        PROVE /\ txn'[e].pc \in Claiming =>
                   /\ files'[txn'[e].target] \in {Absent, txn'[e].raw}
                   /\ files'[txn'[e].claim] \in {Absent, txn'[e].raw}
              /\ txn'[e].pc \in Landing => txn'[e].dest = Canonical
    BY <1>2, <2>2 DEF Carries, Turns, RecoveryInv, Faithful
  <2> QED BY <2>1, <2>2 DEF Faithful
<1> QED BY <1>1, <1>5, <1>6 DEF RecoveryInv

\* A claim name is chosen: nothing is at it and nothing is on its way to it.
LEMMA ChooseKeeps ==
  ASSUME RecoveryInv, NEW d \in Device, NEW r, NEW c \in LockName \ used, Turns(d, r),
         At(d, "staleRead"), UNCHANGED <<files, late>>, used' = used \cup {c},
         DOMAIN r = DOMAIN Resting, r.pc = "claimCheck", r.claim = c,
         r.lock = txn[d].lock, r.back = txn[d].back, r.target = txn[d].target,
         r.observed = txn[d].observed, r.dest = Canonical,
         r.raw = files[txn[d].target], r.raw = txn[d].observed[txn[d].target],
         files[txn[d].target] # Absent
  PROVE RecoveryInv'
<1>1. r.pc \in Claiming /\ r.pc \in ClaimSteps /\ txn[d].pc \in RecoverySteps
      /\ txn[d].pc \notin ClaimSteps
  BY Constantly DEF At, Claiming, Landing
<1>2. Formed' BY DEF Turns, RecoveryInv, Formed
<1>3. files[c] = Absent /\ c # Absent /\ \A x \in late : x.to # c
  BY Constantly DEF RecoveryInv, Named
<1>4. \A e \in Device : /\ txn[e].lock # c /\ txn[e].claim # c
                        /\ txn[e].pc \in RecoverySteps => txn[e].target # c
  BY Constantly DEF RecoveryInv, Named
<1>5. Named'
  BY <1>1, <1>3, Constantly DEF Turns, RecoveryInv, Named
<1>6. ClaimsApart' BY <1>4 DEF Turns, RecoveryInv, ClaimsApart
<1>7. ASSUME NEW e \in Device, txn[e].claim # Absent, Unfilled(e)
      PROVE txn[d].target # txn[e].claim
  BY <1>1, <1>7 DEF RecoveryInv, Filling
<1>8. ASSUME NEW e \in Device, e # d, txn'[e].claim # Absent
      PROVE /\ \A x \in late' : x.to = txn'[e].claim =>
                 x = LateClaim(e)' /\ txn'[e].pc = "claimLost"
            /\ Unfilled(e)' =>
                 /\ files'[txn'[e].claim] = Absent
                 /\ \A g \in Device :
                      txn'[g].pc \in RecoverySteps => txn'[g].target # txn'[e].claim
  <2>1. txn'[e] = txn[e] /\ (Unfilled(e)' <=> Unfilled(e)) BY <1>8 DEF Turns, Unfilled
  <2>2. ASSUME Unfilled(e), NEW g \in Device, txn'[g].pc \in RecoverySteps
        PROVE txn'[g].target # txn[e].claim
    BY <1>1, <1>8, <2>1, <2>2 DEF Turns, RecoveryInv, Filling
  <2> QED BY <1>8, <2>1, <2>2 DEF RecoveryInv, Filling, LateClaim
<1>9. Filling'
  BY <1>1, <1>3, <1>4, <1>8 DEF Turns, Filling
<1>10. Faithful'
  <2>1. r.pc \notin Landing BY DEF Landing
  <2>2. ASSUME NEW e \in Device
        PROVE /\ txn'[e].pc \in Claiming =>
                   txn'[e].dest = Canonical
                   /\ txn'[e].raw = txn'[e].observed[txn'[e].target]
              /\ txn'[e].pc \in Landing =>
                   /\ files'[txn'[e].claim] \in {Absent, txn'[e].raw}
                   /\ txn'[e].dest = Canonical =>
                        txn'[e].raw = txn'[e].observed[txn'[e].target]
    BY <2>1 DEF Turns, RecoveryInv, Faithful
  <2>3. ASSUME NEW e \in Device, NEW g \in Device,
               txn'[g].claim # Absent, txn'[e].target = txn'[g].claim
        PROVE /\ txn'[e].pc \in Claiming =>
                   /\ files'[txn'[e].target] \in {Absent, txn'[e].raw}
                   /\ files'[txn'[e].claim] \in {Absent, txn'[e].raw}
              /\ txn'[e].pc \in Landing => txn'[e].dest = Canonical
    <3>1. CASE e = d BY <1>3, <2>1, <3>1 DEF Turns
    <3>2. CASE e # d /\ g # d BY <2>3, <3>2 DEF Turns, RecoveryInv, Faithful
    <3>3. CASE e # d /\ g = d
      <4>1. txn[e].pc \notin RecoverySteps BY <1>4, <2>3, <3>3 DEF Turns
      <4> QED BY <3>3, <4>1, Constantly DEF Turns
    <3> QED BY <3>1, <3>2, <3>3
  <2> QED BY <2>2, <2>3 DEF Faithful
<1> QED BY <1>2, <1>5, <1>6, <1>9, <1>10 DEF RecoveryInv

\* No step brings bytes to a claim name but the one its device waits for.
Untouched(d) == files'[txn[d].claim] \in {files[txn[d].claim], Absent}

\* A step of no device.
LEMMA StillKeeps ==
  ASSUME RecoveryInv, txn' = txn, used' = used, DOMAIN files' = Name,
         \A n \in LockName : files'[n] # Absent => n \in used,
         \A d \in Device : txn[d].claim # Absent => Untouched(d),
         late' \subseteq late
  PROVE RecoveryInv'
<1>1. Formed' /\ Named' /\ ClaimsApart'
  BY DEF RecoveryInv, Formed, Named, ClaimsApart
<1>2. \A d \in Device : Unfilled(d)' => Unfilled(d) BY DEF Unfilled
<1>3. Filling' BY <1>2 DEF RecoveryInv, Filling, Untouched, LateClaim
<1>4. \A d \in Device : txn[d].pc \in ClaimSteps => Untouched(d)
  BY DEF RecoveryInv, Named
<1>5. Faithful'
  BY <1>4, Constantly DEF RecoveryInv, Faithful, Untouched
<1> QED BY <1>1, <1>3, <1>5 DEF RecoveryInv

\* The claim is moved on, or will be late.
LEMMA LandKeeps ==
  ASSUME RecoveryInv, NEW d \in Device, NEW r, Carries(d, r),
         txn[d].pc = "land", r.pc = "landed",
         \A n \in LockName : files'[n] # Absent => n \in used,
         \A e \in Device : txn[e].claim # Absent => Untouched(e),
         \A x \in late' : x \in late
            \/ /\ x.to \in used \cup {Canonical}
               /\ \A e \in Device : txn[e].claim # Absent => x.to # txn[e].claim
  PROVE RecoveryInv'
<1>1. Formed' /\ Named' /\ ClaimsApart' BY CarriesNames
<1>2. \A e \in Device : /\ txn'[e].claim = txn[e].claim
                        /\ txn'[e].target = txn[e].target
                        /\ txn'[e].pc \in RecoverySteps <=> txn[e].pc \in RecoverySteps
                        /\ txn'[e].pc \in {txn[e].pc, "landed"}
  BY Constantly DEF Carries, Turns
<1>3. \A e \in Device : txn[e].claim # Absent /\ Unfilled(e)' => Unfilled(e)
  BY <1>2 DEF Unfilled
<1>4. \A e \in Device : LateClaim(e)' = LateClaim(e) BY <1>2 DEF LateClaim
<1>5. Filling'
  BY <1>2, <1>3, <1>4 DEF Carries, Turns, RecoveryInv, Filling, Untouched
<1>6. \A e \in Device : txn[e].pc \in ClaimSteps => Untouched(e)
  BY DEF RecoveryInv, Named
<1>7. \A e \in Device : txn'[e].pc \in Claiming \cup Landing => txn'[e] = txn[e]
  BY DEF Carries, Turns, Claiming, Landing
<1>8. Faithful'
  BY <1>2, <1>6, <1>7, Constantly DEF RecoveryInv, Faithful, Untouched
<1> QED BY <1>1, <1>5, <1>8 DEF RecoveryInv

\* The bytes of the stale lock arrive at the claim, now or late.
LEMMA FillKeeps ==
  ASSUME RecoveryInv, NEW d \in Device, NEW r, Carries(d, r), Unfilled(d),
         txn[d].pc \in Claiming, r.pc \in {"claimed", "claimLost"},
         r.dest = txn[d].dest, r.raw = txn[d].raw,
         files' = Moved(txn[d].target, txn[d].claim), files[txn[d].target] # Absent,
         late' \subseteq late, LateClaim(d) \notin late'
  PROVE RecoveryInv'
<1>1. /\ txn[d].claim # Absent /\ txn[d].claim \in LockName /\ txn[d].claim \in used
      /\ txn[d].target \in LockName /\ txn[d].pc \in RecoverySteps
  BY Constantly, ClaimNames DEF Carries, RecoveryInv, Named
<1>2. txn[d].target # txn[d].claim
  BY <1>1 DEF RecoveryInv, Filling
<1>3. /\ files'[txn[d].claim] = files[txn[d].target] /\ files'[txn[d].target] = Absent
      /\ \A n \in LockName : n # txn[d].claim => files'[n] \in {files[n], Absent}
  BY <1>1, <1>2, Constantly DEF Moved, RecoveryInv, Formed
<1>4. Formed' /\ Named' /\ ClaimsApart'
  BY <1>1, <1>3, CarriesNames DEF RecoveryInv, Named
<1>5. \A e \in Device : /\ txn'[e].claim = txn[e].claim
                        /\ txn'[e].target = txn[e].target
                        /\ txn'[e].pc \in RecoverySteps <=> txn[e].pc \in RecoverySteps
                        /\ LateClaim(e)' = LateClaim(e)
  BY Constantly DEF Carries, Turns, LateClaim
<1>6. \A e \in Device : e # d /\ txn[e].claim # Absent =>
        txn[e].claim \in LockName /\ txn[e].claim # txn[d].claim /\ Untouched(e)
  BY <1>3, ClaimNames DEF RecoveryInv, ClaimsApart, Untouched
<1>7. ~Unfilled(d)'
  <2>1. \A x \in late' : x.to # txn[d].claim BY <1>1 DEF RecoveryInv, Filling
  <2> QED BY <1>5, <2>1 DEF Unfilled, Carries, Turns
<1>8. \A e \in Device : e # d /\ Unfilled(e)' => Unfilled(e)
  BY <1>5 DEF Unfilled, Carries, Turns
<1>9. Filling'
  <2>1. ASSUME NEW e \in Device, txn[e].claim # Absent
        PROVE /\ \A x \in late' : x.to = txn[e].claim =>
                   x = LateClaim(e) /\ txn'[e].pc = "claimLost"
              /\ Unfilled(e)' =>
                   /\ files'[txn[e].claim] = Absent
                   /\ \A g \in Device :
                        txn[g].pc \in RecoverySteps => txn[g].target # txn[e].claim
    <3>1. CASE e = d
      <4>1. \A x \in late' : x.to # txn[d].claim BY <1>1 DEF RecoveryInv, Filling
      <4> QED BY <3>1, <4>1, <1>7
    <3>2. CASE e # d
      BY <2>1, <3>2, <1>6, <1>8 DEF Carries, Turns, RecoveryInv, Filling, Untouched
    <3> QED BY <3>1, <3>2
  <2> QED BY <1>5, <2>1 DEF Filling
<1>10. \A e \in Device : txn[e].pc \in RecoverySteps => txn[e].target # txn[d].claim
  BY <1>1 DEF RecoveryInv, Filling
<1>11. \A e \in Device : e # d /\ txn[e].pc \in ClaimSteps => Untouched(e)
  BY <1>6 DEF RecoveryInv, Named
<1>12. Faithful'
  <2>1. r.pc \in Claiming /\ r.pc \notin Landing BY DEF Claiming, Landing
  <2>2. ASSUME NEW e \in Device
        PROVE /\ txn'[e].pc \in Claiming =>
                   txn'[e].dest = Canonical
                   /\ txn'[e].raw = txn'[e].observed[txn'[e].target]
              /\ txn'[e].pc \in Landing =>
                   /\ files'[txn'[e].claim] \in {Absent, txn'[e].raw}
                   /\ txn'[e].dest = Canonical =>
                        txn'[e].raw = txn'[e].observed[txn'[e].target]
    BY <2>1, <1>11, Constantly DEF Carries, Turns, RecoveryInv, Faithful, Untouched
  <2>3. ASSUME NEW e \in Device, NEW g \in Device,
               txn'[g].claim # Absent, txn'[e].target = txn'[g].claim
        PROVE /\ txn'[e].pc \in Claiming =>
                   /\ files'[txn'[e].target] \in {Absent, txn'[e].raw}
                   /\ files'[txn'[e].claim] \in {Absent, txn'[e].raw}
              /\ txn'[e].pc \in Landing => txn'[e].dest = Canonical
    <3>1. txn[g].claim # Absent /\ txn[e].target = txn[g].claim BY <2>3, <1>5
    <3>2. CASE e = d
      <4>1. files[txn[d].target] \in {Absent, txn[d].raw}
        BY <3>1, <3>2 DEF RecoveryInv, Faithful
      <4> QED BY <3>2, <4>1, <2>1, <1>3 DEF Carries, Turns
    <3>3. CASE e # d /\ txn[e].pc \in ClaimSteps
      <4>1. g # d BY <3>1, <3>3, <1>10, Constantly
      <4> QED
        BY <3>1, <3>3, <4>1, <1>6, <1>11
        DEF Carries, Turns, RecoveryInv, Faithful, Untouched
    <3>4. CASE e # d /\ txn[e].pc \notin ClaimSteps
      BY <3>4, Constantly DEF Carries, Turns
    <3> QED BY <3>2, <3>3, <3>4
  <2> QED BY <2>2, <2>3 DEF Faithful
<1> QED BY <1>4, <1>9, <1>12 DEF RecoveryInv

\* The MOVE to the claim may still take effect.
LEMMA PostponeKeeps ==
  ASSUME RecoveryInv, NEW d \in Device, NEW r, Carries(d, r), Unfilled(d),
         txn[d].pc \in Claiming, r.pc = "claimLost",
         r.dest = txn[d].dest, r.raw = txn[d].raw,
         UNCHANGED files, late \subseteq late', late' \subseteq late \cup {LateClaim(d)}
  PROVE RecoveryInv'
<1>1. txn[d].claim # Absent /\ txn[d].claim \in used
  BY ClaimNames DEF Carries, RecoveryInv, Named
<1>2. Formed' /\ Named' /\ ClaimsApart'
  BY <1>1, CarriesNames DEF RecoveryInv, Named, LateClaim
<1>3. \A e \in Device : /\ txn'[e].claim = txn[e].claim
                        /\ txn'[e].target = txn[e].target
                        /\ txn'[e].observed = txn[e].observed
                        /\ txn'[e].raw = txn[e].raw /\ txn'[e].dest = txn[e].dest
                        /\ txn'[e].pc \in RecoverySteps <=> txn[e].pc \in RecoverySteps
                        /\ txn'[e].pc \in Claiming <=> txn[e].pc \in Claiming
                        /\ txn'[e].pc \in Landing <=> txn[e].pc \in Landing
                        /\ LateClaim(e)' = LateClaim(e)
  BY Constantly DEF Carries, Turns, Claiming, Landing, LateClaim
<1>4. \A e \in Device : e # d /\ txn[e].claim # Absent => LateClaim(d).to # txn[e].claim
  BY <1>1 DEF LateClaim, RecoveryInv, ClaimsApart
<1>5. \A e \in Device : e # d /\ txn[e].claim # Absent /\ Unfilled(e)' => Unfilled(e)
  BY <1>3, <1>4 DEF Carries, Turns, Unfilled
<1>6. Filling'
  BY <1>3, <1>4, <1>5 DEF Carries, Turns, RecoveryInv, Filling
<1>7. Faithful' BY <1>3 DEF RecoveryInv, Faithful
<1> QED BY <1>2, <1>6, <1>7 DEF RecoveryInv

\* The steps of a device, one group after the other.
Goes(d) == \E r : Become(d, r) /\ Aside(d, r)

LEMMA AsideStates ==
  ASSUME RecoveryInv, NEW d \in Device
  PROVE /\ \A o : Aside(d, Stopped(d, o))
        /\ Aside(d, Resting)
        /\ \A p : p \notin RecoverySteps /\ txn[d].claim = Absent => Aside(d, To(d, p))
        /\ \A n, p : p \notin RecoverySteps /\ txn[d].claim = Absent
                       => Aside(d, Observing(d, n, p))
<1>1. Aside(d, Resting) /\ \A o : Aside(d, Stopped(d, o))
  BY Constantly DEF Aside, Resting, Stopped, ClaimSteps, RecoverySteps
<1>2. txn[d].back \in {"ensure", "acquire"} BY DEF RecoveryInv, Named
<1>3. \A p : p \notin RecoverySteps /\ txn[d].claim = Absent => Aside(d, To(d, p))
  BY <1>2, Fields, Constantly DEF Aside
<1>4. \A n, p : DOMAIN Observing(d, n, p) = DOMAIN To(d, p)
                /\ Observing(d, n, p).pc = To(d, p).pc
                /\ Observing(d, n, p).claim = To(d, p).claim
                /\ Observing(d, n, p).back = To(d, p).back
                /\ Observing(d, n, p).lock = To(d, p).lock
  BY Fields DEF Observing, Resting
<1>5. \A n, p : p \notin RecoverySteps /\ txn[d].claim = Absent
                  => Aside(d, Observing(d, n, p))
  BY <1>3, <1>4, Fields, Constantly DEF Aside
<1> QED BY <1>1, <1>3, <1>5

LEMMA Unclaimed ==
  ASSUME RecoveryInv, NEW d \in Device, txn[d].pc \notin ClaimSteps
  PROVE txn[d].claim = Absent
BY DEF RecoveryInv, Named

LEMMA PlainlyAside ==
  ASSUME RecoveryInv, NEW d \in Device
  PROVE /\ \A o : Stop(d, o) => Goes(d)
        /\ \A p : Goto(d, p) /\ p \notin RecoverySteps /\ txn[d].pc \notin ClaimSteps
                    => Goes(d)
        /\ \A n, p : /\ Become(d, Observing(d, n, p))
                     /\ p \notin RecoverySteps /\ txn[d].pc \notin ClaimSteps
                    => Goes(d)
        /\ Become(d, Resting) => Goes(d)
BY AsideStates, Unclaimed DEF Goes, Goto, Stop

\* Other fields do not matter for it.
LEMMA OtherFields ==
  ASSUME NEW d \in Device, NEW s, Aside(d, s)
  PROVE /\ \A x : Aside(d, [s EXCEPT !.raw = x])
        /\ \A x : Aside(d, [s EXCEPT !.orig = x])
        /\ \A x : Aside(d, [s EXCEPT !.observed = x])
        /\ \A x : Aside(d, [s EXCEPT !.seenC = x])
        /\ \A x : Aside(d, [s EXCEPT !.seenL = x])
        /\ \A x, y : Aside(d, [s EXCEPT !.orig = x, !.merged = y])
        /\ \A x \in {"ensure", "acquire"} : Aside(d, [s EXCEPT !.back = x])
        /\ \A x : s.pc # "staleRead" => Aside(d, [s EXCEPT !.target = x])
BY DEF Aside, Resting

\* The disk stays as it is.
LEMMA StillSpares ==
  ASSUME RecoveryInv, NEW d \in Device, UNCHANGED <<files, late, used>>
  PROVE Spares(d)
BY DEF RecoveryInv, Formed, Named, Spares

LEMMA LocalSpares ==
  ASSUME RecoveryInv, NEW d \in Device, Local
  PROVE Spares(d)
BY StillSpares DEF Local, Keep

LEMMA MoveSpares ==
  ASSUME RecoveryInv, NEW d \in Device, NEW p, NEW q, NEW from, NEW to,
         ExclusiveMove(d, from, to, p, q), to \in {Canonical, txn[d].lock}
  PROVE Spares(d)
<1>1. used' = used /\ used \subseteq LockName
  BY DEF ExclusiveMove, Keep, RecoveryInv, Named
<1>2. \A x \in late' : x \in late \/ x.to = to BY DEF ExclusiveMove
<1>3. CASE UNCHANGED files BY <1>1, <1>2, <1>3 DEF Spares, RecoveryInv, Formed
<1>4. CASE files' = Moved(from, to)
  <2>1. DOMAIN files' = Name BY <1>4 DEF Moved, RecoveryInv, Formed
  <2>2. \A n \in LockName : n # to => files'[n] \in {files[n], Absent}
    BY <1>4, Constantly DEF Moved, RecoveryInv, Formed
  <2> QED BY <1>1, <1>2, <2>1, <2>2, Constantly DEF Spares
<1> QED BY <1>3, <1>4 DEF ExclusiveMove

LEMMA OverwriteSpares ==
  ASSUME RecoveryInv, NEW d \in Device, NEW p, NEW index,
         Overwrite(d, txn[d].lock, index, p)
  PROVE Spares(d)
<1>1. used' = used /\ used \subseteq LockName
  BY DEF Overwrite, Keep, RecoveryInv, Named
<1>2. \A x \in late' : x \in late \/ x.to = txn[d].lock BY DEF Overwrite
<1>3. DOMAIN files' = Name
      /\ \A n \in LockName : n # txn[d].lock => files'[n] = files[n]
  BY Constantly DEF Overwrite, RecoveryInv, Formed
<1> QED BY <1>1, <1>2, <1>3 DEF Spares

LEMMA DiscoverAside ==
  ASSUME RecoveryInv, NEW d \in Device, Discover(d)
  PROVE Goes(d) /\ Spares(d)
<1> USE PlainlyAside
<1>0. "acquire" \notin RecoverySteps /\ "load" \notin RecoverySteps
      /\ Discovered(d) \in {"acquire", "load"} /\ txn[d].back \in {"ensure", "acquire"}
      /\ "ensure" \notin RecoverySteps
  BY DEF RecoverySteps, Discovered, RecoveryInv, Named
<1>1. CASE Ensure(d) \/ DecideToSeed(d) \/ NothingToRecover(d) \/ ManyLocks(d)
           \/ RequestFails(d) \/ GiveUpWaiting(d) \/ JudgeOrphan(d) \/ CheckOrphan(d)
  BY <1>1, LocalSpares
  DEF Ensure, DecideToSeed, NothingToRecover, ManyLocks, RequestFails,
      GiveUpWaiting, JudgeOrphan, CheckOrphan, At, RecoverySteps, ClaimSteps
<1>2. CASE Seed(d)
  <2>1. DOMAIN files' = Name /\ \A n \in LockName : files'[n] = files[n]
    BY <1>2, Constantly DEF Seed, RecoveryInv, Formed
  <2>2. Spares(d) BY <1>2, <2>1 DEF Seed, Keep, Spares, RecoveryInv, Named
  <2>3. txn[d].pc \notin ClaimSteps BY <1>2 DEF Seed, At, ClaimSteps, RecoverySteps
  <2> QED BY <1>0, <1>2, <2>2, <2>3 DEF Seed
<1>3. CASE WaitForLease(d)
  <2>1. txn[d].pc \notin ClaimSteps
    BY <1>3 DEF WaitForLease, At, ClaimSteps, RecoverySteps
  <2> QED BY <1>0, <1>3, <2>1, LocalSpares DEF WaitForLease
<1>4. CASE ListOrphans(d)
  <2>1. txn[d].pc \notin ClaimSteps
    BY <1>4 DEF ListOrphans, At, ClaimSteps, RecoverySteps
  <2>2. ASSUME NEW x, Become(d, [Stopped(d, "ambiguous") EXCEPT !.observed = x])
        PROVE Goes(d)
    <3>1. Aside(d, [Stopped(d, "ambiguous") EXCEPT !.observed = x])
      BY AsideStates, OtherFields
    <3> QED BY <2>2, <3>1 DEF Goes
  <2>3. ASSUME NEW n, Become(d, [To(d, "orphanCanonical") EXCEPT !.target = n])
        PROVE Goes(d)
    <3>1. /\ Aside(d, To(d, "orphanCanonical"))
          /\ To(d, "orphanCanonical").pc # "staleRead"
      BY <2>1, AsideStates, Unclaimed, Fields DEF RecoverySteps
    <3>2. Aside(d, [To(d, "orphanCanonical") EXCEPT !.target = n])
      BY <3>1, OtherFields
    <3> QED BY <2>3, <3>2 DEF Goes
  <2>4. Spares(d) BY <1>4, LocalSpares DEF ListOrphans
  <2> QED BY <1>0, <1>4, <2>1, <2>2, <2>3, <2>4 DEF ListOrphans
<1>5. CASE ReadCanonicalForOrphan(d)
  <2>1. txn[d].pc \notin ClaimSteps
    BY <1>5 DEF ReadCanonicalForOrphan, At, ClaimSteps, RecoverySteps
  <2>2. ASSUME NEW x, Become(d, [To(d, "orphanJudge") EXCEPT !.raw = x])
        PROVE Goes(d)
    <3>1. Aside(d, To(d, "orphanJudge"))
      BY <2>1, AsideStates, Unclaimed DEF RecoverySteps
    <3>2. Aside(d, [To(d, "orphanJudge") EXCEPT !.raw = x])
      BY <3>1, OtherFields
    <3> QED BY <2>2, <3>2 DEF Goes
  <2> QED BY <1>5, <2>2, LocalSpares DEF ReadCanonicalForOrphan
<1>6. CASE DeleteOrphan(d)
  <2>1. txn[d].pc \notin ClaimSteps
    BY <1>6 DEF DeleteOrphan, At, ClaimSteps, RecoverySteps
  <2>2. ASSUME NEW x, Become(d, [To(d, Discovered(d)) EXCEPT !.observed = x])
        PROVE Goes(d)
    <3>1. Aside(d, To(d, Discovered(d)))
      BY <1>0, <2>1, AsideStates, Unclaimed
    <3>2. Aside(d, [To(d, Discovered(d)) EXCEPT !.observed = x])
      BY <3>1, OtherFields
    <3> QED BY <2>2, <3>2 DEF Goes
  <2>3. Become(d, [To(d, Discovered(d)) EXCEPT
                     !.observed = [@ EXCEPT ![txn[d].target] = Absent]])
          => \E x : Become(d, [To(d, Discovered(d)) EXCEPT !.observed = x])
    OBVIOUS
  <2>4. DOMAIN files' = Name /\ \A n \in LockName : files'[n] \in {files[n], Absent}
    BY <1>6, Constantly DEF DeleteOrphan, RecoveryInv, Formed
  <2>5. Spares(d) BY <1>6, <2>4 DEF DeleteOrphan, Keep, Spares, RecoveryInv, Named
  <2> QED BY <1>6, <2>2, <2>3, <2>5 DEF DeleteOrphan
<1>7. CASE Load(d)
  BY <1>7, StillSpares DEF Load
<1> QED BY <1>1, <1>2, <1>3, <1>4, <1>5, <1>6, <1>7 DEF Discover

LEMMA StartAside ==
  ASSUME RecoveryInv, NEW d \in Device, StartCommit(d) \/ StartLoad(d) \/ Crash(d)
  PROVE Goes(d) /\ Spares(d)
<1>1. CASE StartCommit(d)
  <2>1. PICK n \in LockName \ used :
          /\ used' = used \cup {n}
          /\ Become(d, [Resting EXCEPT !.pc = "ensure", !.job = "commit",
                                       !.lock = n, !.observed = txn[d].observed])
    BY <1>1 DEF StartCommit
  <2>2. Aside(d, [Resting EXCEPT !.pc = "ensure", !.job = "commit",
                                 !.lock = n, !.observed = txn[d].observed])
    BY <2>1 DEF Aside, Resting, ClaimSteps, RecoverySteps
  <2>3. Spares(d) BY <1>1, <2>1 DEF StartCommit, RecoveryInv, Formed, Named, Spares
  <2> QED BY <2>1, <2>2, <2>3 DEF Goes
<1>2. CASE StartLoad(d)
  <2>1. Aside(d, [Resting EXCEPT !.pc = "ensure", !.job = "load",
                                 !.observed = txn[d].observed])
    BY DEF Aside, Resting, ClaimSteps, RecoverySteps
  <2> QED BY <1>2, <2>1, LocalSpares DEF StartLoad, Goes
<1>3. CASE Crash(d) BY <1>3, PlainlyAside, StillSpares DEF Crash
<1> QED BY <1>1, <1>2, <1>3

LEMMA TransactAside ==
  ASSUME RecoveryInv, NEW d \in Device, Transact(d) \/ RollBack(d)
  PROVE Goes(d) /\ Spares(d)
<1> USE PlainlyAside
<1>1. CASE Acquire(d) \/ Publish(d) \/ RetryMove(d) \/ RestoreMove(d)
  <2>1. Goes(d)
    BY <1>1 DEF Acquire, Publish, RetryMove, RestoreMove, ExclusiveMove, At,
                RecoverySteps, ClaimSteps
  <2> QED BY <1>1, <2>1, MoveSpares DEF Acquire, Publish, RetryMove, RestoreMove
<1>2. CASE WriteLock(d) \/ RestoreLock(d)
  <2>1. Goes(d)
    BY <1>2 DEF WriteLock, RestoreLock, Overwrite, At, RecoverySteps, ClaimSteps
  <2> QED BY <1>2, <2>1, OverwriteSpares DEF WriteLock, RestoreLock
<1>3. CASE VerifyLock(d) \/ FingerprintLock(d) \/ Rollback(d)
           \/ VerifyRestored(d) \/ ConfirmRestored(d) \/ ReadRestored(d)
  <2>1. txn[d].pc \notin ClaimSteps
    BY <1>3 DEF VerifyLock, FingerprintLock, Rollback, VerifyRestored, ConfirmRestored,
                ReadRestored, At, Probed, RecoverySteps, ClaimSteps
  <2>2. Goes(d)
    BY <1>3, <2>1 DEF VerifyLock, FingerprintLock, Rollback, VerifyRestored,
                      ConfirmRestored, ReadRestored, RecoverySteps
  <2> QED
    BY <1>3, <2>2, LocalSpares
    DEF VerifyLock, FingerprintLock, Rollback, VerifyRestored, ConfirmRestored,
        ReadRestored
<1>4. CASE ProbeCanonical(d) \/ ProbeLock(d)
  <2>1. Aside(d, txn[d])
    <3>1. txn[d].pc \notin RecoverySteps
      BY <1>4 DEF ProbeCanonical, ProbeLock, ProbeSteps, RecoverySteps
    <3> QED BY <3>1, Unclaimed, Constantly DEF Aside, RecoveryInv, Formed, Named
  <2>2. \A x : /\ Aside(d, [txn[d] EXCEPT !.seenC = x])
               /\ Aside(d, [txn[d] EXCEPT !.seenL = x])
    BY <2>1, OtherFields
  <2> QED BY <1>4, <2>2, LocalSpares DEF ProbeCanonical, ProbeLock, Goes
<1>5. CASE Resolve(d) \/ Confirm(d) \/ Reconfirm(d)
  <2>1. txn[d].pc \notin ClaimSteps
    BY <1>5 DEF Resolve, Confirm, Reconfirm, Probed, At, RecoverySteps, ClaimSteps
  <2>2. CASE Accept(d) BY <2>2, StillSpares DEF Accept
  <2>3. CASE Unaccepted /\ \E p \in {"retryMove", "reconfirm", "rollback"} : Goto(d, p)
    BY <2>1, <2>3, StillSpares DEF Unaccepted, RecoverySteps
  <2> QED BY <1>5, <2>2, <2>3 DEF Resolve, Confirm, Reconfirm
<1>6. CASE ReadLock(d)
  <2>1. txn[d].pc \notin ClaimSteps BY <1>6 DEF ReadLock, At, RecoverySteps, ClaimSteps
  <2>2. \A p \in {"fingerprint", "write", "rollback"} : Aside(d, To(d, p))
    BY <2>1, AsideStates, Unclaimed DEF RecoverySteps
  <2>3. \A p \in {"fingerprint", "write", "rollback"} : \A x, y :
           /\ Aside(d, [To(d, p) EXCEPT !.orig = x, !.merged = y])
           /\ Aside(d, [To(d, p) EXCEPT !.orig = x])
    BY <2>2, OtherFields
  <2>4. Goes(d) BY <1>6, <2>3 DEF ReadLock, Goes
  <2> QED BY <1>6, <2>4, LocalSpares DEF ReadLock
<1>7. CASE JudgeAcquire(d)
  <2>1. txn[d].pc \notin ClaimSteps
    BY <1>7 DEF JudgeAcquire, Probed, At, RecoverySteps, ClaimSteps
  <2>2. Aside(d, To(d, "list"))
    BY <2>1, AsideStates, Unclaimed DEF RecoverySteps
  <2>3. Aside(d, [To(d, "list") EXCEPT !.back = "acquire"]) BY <2>2, OtherFields
  <2>4. Goes(d)
    BY <1>7, <2>1, <2>3 DEF JudgeAcquire, Goes, RecoverySteps
  <2> QED BY <1>7, <2>4, LocalSpares DEF JudgeAcquire
<1> QED BY <1>1, <1>2, <1>3, <1>4, <1>5, <1>6, <1>7 DEF Transact, RollBack

\* A claim is given up: the device goes back to where it waited.
LEMMA GiveUpAside ==
  ASSUME RecoveryInv, NEW d \in Device
  PROVE /\ \A n : Become(d, [Observing(d, n, txn[d].back) EXCEPT !.claim = Absent])
                   => Goes(d)
        /\ Become(d, [To(d, txn[d].back) EXCEPT !.claim = Absent]) => Goes(d)
<1> DEFINE b == txn[d].back
<1>1. b \in {"ensure", "acquire"} /\ b \notin RecoverySteps
  BY DEF RecoveryInv, Named, RecoverySteps
<1>2. \A n : DOMAIN Observing(d, n, b) = DOMAIN To(d, b)
             /\ Observing(d, n, b).pc = To(d, b).pc
             /\ Observing(d, n, b).back = To(d, b).back
             /\ Observing(d, n, b).lock = To(d, b).lock
  BY Fields DEF Observing, Resting
<1>3. ASSUME NEW s, DOMAIN s = DOMAIN Resting, s.pc = b, s.back = b,
             s.lock = txn[d].lock
      PROVE Aside(d, [s EXCEPT !.claim = Absent])
  BY <1>1, <1>3, Constantly DEF Aside, Resting, RecoverySteps
<1>4. Aside(d, [To(d, b) EXCEPT !.claim = Absent]) BY <1>3, Fields
<1>5. \A n : Aside(d, [Observing(d, n, b) EXCEPT !.claim = Absent])
  BY <1>2, <1>3, Fields
<1> QED BY <1>4, <1>5 DEF Goes

LEMMA LeaseAside ==
  ASSUME RecoveryInv, NEW d \in Device, LeaseEnded(d)
  PROVE Goes(d) /\ Spares(d)
<1>1. PICK n \in LockName :
        Locks = {n} /\ Become(d, [To(d, "staleRead") EXCEPT !.target = n])
  BY DEF LeaseEnded
<1>2. txn[d].claim = Absent
  BY Unclaimed DEF LeaseEnded, At, ClaimSteps, RecoverySteps
<1>3. txn[d].back \in {"ensure", "acquire"} BY DEF RecoveryInv, Named
<1>4. Aside(d, [To(d, "staleRead") EXCEPT !.target = n])
  BY <1>1, <1>2, <1>3, Fields DEF Aside, Resting, ClaimSteps
<1> QED BY <1>1, <1>4, LocalSpares DEF LeaseEnded, Goes

LEMMA GoesKeeps ==
  ASSUME RecoveryInv, NEW d \in Device, Goes(d), Spares(d) PROVE RecoveryInv'
BY AsideKeeps DEF Goes

LEMMA ReadStaleKeeps ==
  ASSUME RecoveryInv, NEW d \in Device, ReadStaleLock(d)
  PROVE RecoveryInv'
<1>1. CASE Goes(d) /\ used' = used
  BY <1>1, StillSpares, GoesKeeps DEF ReadStaleLock
<1>2. ASSUME NEW c \in LockName \ used, used' = used \cup {c},
             files[txn[d].target] = txn[d].observed[txn[d].target],
             files[txn[d].target] # Absent,
             Become(d, [To(d, "claimCheck") EXCEPT !.raw = files[txn[d].target],
                                                   !.claim = c, !.dest = Canonical])
      PROVE RecoveryInv'
  <2> DEFINE r == [To(d, "claimCheck") EXCEPT !.raw = files[txn[d].target],
                                              !.claim = c, !.dest = Canonical]
  <2>1. Turns(d, r) BY <1>2, TurnStep
  <2>2. /\ DOMAIN r = DOMAIN Resting /\ r.pc = "claimCheck" /\ r.claim = c
        /\ r.lock = txn[d].lock /\ r.back = txn[d].back /\ r.target = txn[d].target
        /\ r.observed = txn[d].observed /\ r.dest = Canonical
        /\ r.raw = files[txn[d].target]
    BY Fields DEF Resting
  <2> HIDE DEF r
  <2> QED BY <1>2, <2>1, <2>2, ChooseKeeps DEF ReadStaleLock
<1>3. \A n : Become(d, Observing(d, n, txn[d].back)) => Goes(d)
  BY PlainlyAside DEF ReadStaleLock, At, RecoverySteps, ClaimSteps, RecoveryInv, Named
<1>4. \A o : Stop(d, o) => Goes(d) BY PlainlyAside
<1> QED BY <1>1, <1>2, <1>3, <1>4 DEF ReadStaleLock

LEMMA CheckClaimKeeps ==
  ASSUME RecoveryInv, NEW d \in Device, CheckClaim(d)
  PROVE RecoveryInv'
<1>1. Spares(d) BY LocalSpares DEF CheckClaim
<1>2. CASE Goto(d, "claimMove")
  <2> DEFINE r == To(d, "claimMove")
  <2>1. Turns(d, r) BY <1>2, TurnStep DEF Goto
  <2>2. txn[d].pc = "claimCheck" BY DEF CheckClaim, At
  <2>3. /\ Carries(d, r) /\ r.pc = "claimMove"
        /\ r.dest = txn[d].dest /\ r.raw = txn[d].raw
    BY <2>1, <2>2, Fields, Constantly
    DEF Carries, Claiming, CheckClaim, Local, Keep, RecoveryInv, Formed, Named
  <2> HIDE DEF r
  <2> QED BY <2>2, <2>3, LookKeeps DEF CheckClaim, Local, Claiming, Landing
<1> QED BY <1>1, <1>2, PlainlyAside, GiveUpAside, GoesKeeps DEF CheckClaim

LEMMA MoveClaimKeeps ==
  ASSUME RecoveryInv, NEW d \in Device, MoveClaim(d)
  PROVE RecoveryInv'
<1>1. txn[d].pc = "claimMove" /\ Unfilled(d) /\ txn[d].pc \in Claiming
  BY DEF MoveClaim, At, Unfilled, Claiming
<1>2. /\ DOMAIN files' = Name /\ used' = used
  BY DEF MoveClaim, ExclusiveMove, Keep, Moved, RecoveryInv, Formed
<1>3. PICK p \in {"claimed", "claimLost"} : Goto(d, p) BY DEF MoveClaim, ExclusiveMove
<1> DEFINE r == To(d, p)
<1>4. Turns(d, r) BY <1>3, TurnStep DEF Goto
<1>5. Carries(d, r) /\ r.pc = p /\ r.dest = txn[d].dest /\ r.raw = txn[d].raw
  BY <1>1, <1>2, <1>4, Fields, Constantly
  DEF Carries, Claiming, RecoveryInv, Named
<1>6. txn[d].claim # Absent BY <1>1, Constantly DEF RecoveryInv, Named
<1>7. LateClaim(d) \notin late
  BY <1>1, <1>6 DEF RecoveryInv, Filling, LateClaim
<1>8. p = "claimLost" \/ txn'[d].pc = "claimed" BY <1>4, <1>5 DEF Turns
<1>9. ASSUME Goto(d, "claimLost") PROVE p = "claimLost"
  <2>1. Turns(d, To(d, "claimLost")) BY <1>9, TurnStep DEF Goto
  <2> QED BY <2>1, <1>8, Fields DEF Turns
<1> HIDE DEF r
<1>10. CASE CanMove(txn[d].target, txn[d].claim)
            /\ files' = Moved(txn[d].target, txn[d].claim) /\ UNCHANGED late
  BY <1>1, <1>5, <1>7, <1>10, FillKeeps DEF CanMove
<1>11. CASE /\ UNCHANGED files /\ Goto(d, "claimLost")
            /\ late' \in {late, late \cup {LateClaim(d)}}
  BY <1>1, <1>5, <1>9, <1>11, PostponeKeeps
<1> QED BY <1>10, <1>11 DEF MoveClaim, ExclusiveMove, LateClaim

LEMMA ReadClaimKeeps ==
  ASSUME RecoveryInv, NEW d \in Device, ReadClaim(d)
  PROVE RecoveryInv'
<1>1. Spares(d) BY LocalSpares DEF ReadClaim
<1> DEFINE c == files[txn[d].claim]
           r == [To(d, "landCheck") EXCEPT !.raw = c, !.dest = Destination(d, c)]
<1>2. CASE c # Absent /\ Become(d, r)
  <2>1. Turns(d, r) BY <1>2, TurnStep
  <2>2. txn[d].pc \in Claiming /\ txn[d].pc # "claimCheck" /\ txn[d].pc # "claimMove"
    BY DEF ReadClaim, Claiming
  <2>3. txn[d].claim # Absent BY <2>2, Constantly DEF RecoveryInv, Named
  <2>4. ~Unfilled(d) BY <1>2, <2>3 DEF RecoveryInv, Filling
  <2>5. /\ DOMAIN r = DOMAIN Resting /\ r.pc = "landCheck" /\ r.claim = txn[d].claim
        /\ r.lock = txn[d].lock /\ r.back = txn[d].back /\ r.target = txn[d].target
        /\ r.observed = txn[d].observed /\ r.dest = Destination(d, c) /\ r.raw = c
    BY Fields DEF Resting
  <2>6. r.dest \in {Canonical, txn[d].target} BY <2>5 DEF Destination
  <2> HIDE DEF r
  <2>7. Carries(d, r)
    BY <2>1, <2>2, <2>5, <2>6, Constantly
    DEF Carries, Landing, ReadClaim, Local, Keep, RecoveryInv, Formed
  <2>8. /\ txn[d].dest = Canonical /\ txn[d].raw = txn[d].observed[txn[d].target]
        /\ txn[d].target \in LockName
    BY <2>2, Constantly DEF RecoveryInv, Faithful, Named
  <2>9. r.dest = Canonical => r.raw = txn[d].observed[txn[d].target]
    BY <2>5, <2>8, Constantly DEF Destination
  <2>10. \A e \in Device : txn[e].claim # Absent /\ txn[d].target = txn[e].claim
            => r.dest = Canonical
    BY <1>2, <2>2, <2>5 DEF Destination, RecoveryInv, Faithful
  <2> QED
    BY <2>4, <2>5, <2>7, <2>9, <2>10, LookKeeps DEF ReadClaim, Local, Claiming
<1> QED BY <1>1, <1>2, PlainlyAside, GiveUpAside, GoesKeeps DEF ReadClaim

LEMMA CheckLandingKeeps ==
  ASSUME RecoveryInv, NEW d \in Device, CheckLanding(d)
  PROVE RecoveryInv'
<1>1. txn[d].pc = "landCheck" /\ txn[d].pc \in Landing
  BY DEF CheckLanding, At, Landing
<1>2. PICK p \in {"land", "landed"} : Goto(d, p) BY DEF CheckLanding
<1> DEFINE r == To(d, p)
<1>3. Turns(d, r) BY <1>2, TurnStep DEF Goto
<1>4. Carries(d, r) /\ r.pc = p /\ r.dest = txn[d].dest /\ r.raw = txn[d].raw
  BY <1>1, <1>3, Fields, Constantly
  DEF Carries, Landing, CheckLanding, Local, Keep, RecoveryInv, Formed, Named
<1>5. txn[d].claim # Absent BY <1>1, Constantly DEF RecoveryInv, Named
<1>6. ~Unfilled(d) BY <1>1, <1>5 DEF RecoveryInv, Filling, Unfilled
<1> HIDE DEF r
<1> QED
  BY <1>1, <1>4, <1>6, LookKeeps
  DEF CheckLanding, Local, Claiming, RecoveryInv, Faithful

LEMMA MoveLandingKeeps ==
  ASSUME RecoveryInv, NEW d \in Device, MoveLanding(d)
  PROVE RecoveryInv'
<1>1. txn[d].pc = "land" /\ txn[d].pc \in Landing BY DEF MoveLanding, At, Landing
<1>2. Goto(d, "landed") /\ used' = used BY DEF MoveLanding, ExclusiveMove, Keep
<1> DEFINE r == To(d, "landed")
           to == txn[d].dest
<1>3. DOMAIN files' = Name
  BY DEF MoveLanding, ExclusiveMove, Moved, RecoveryInv, Formed
<1>4. /\ txn[d].claim # Absent /\ to \in {Canonical, txn[d].target}
      /\ txn[d].target \in used
  BY <1>1, Constantly DEF RecoveryInv, Named
<1>5. Carries(d, r) /\ r.pc = "landed"
  BY <1>1, <1>2, <1>3, <1>4, TurnStep, Fields, Constantly
  DEF Carries, Goto
<1> HIDE DEF r
<1>6. \A e \in Device : txn[e].claim # Absent => to # txn[e].claim
  BY <1>1, <1>4, ClaimNames, Constantly DEF RecoveryInv, Faithful
<1>7. \A n \in LockName : n # to => files'[n] \in {files[n], Absent}
  BY Constantly DEF MoveLanding, ExclusiveMove, Moved, RecoveryInv, Formed
<1>8. \A n \in LockName : files'[n] # Absent => n \in used
  BY <1>4, <1>7, Constantly DEF RecoveryInv, Named
<1>9. \A e \in Device : txn[e].claim # Absent => Untouched(e)
  BY <1>6, <1>7, ClaimNames DEF Untouched
<1>10. \A x \in late' : x \in late \/ x.to = to
  BY DEF MoveLanding, ExclusiveMove
<1> QED BY <1>1, <1>4, <1>5, <1>6, <1>8, <1>9, <1>10, LandKeeps

LEMMA RecoverKeeps ==
  ASSUME RecoveryInv, NEW d \in Device, Recover(d)
  PROVE RecoveryInv'
<1>1. CASE ConfirmLanding(d)
  BY <1>1, PlainlyAside, GiveUpAside, LocalSpares, GoesKeeps DEF ConfirmLanding
<1> QED
  BY <1>1, LeaseAside, GoesKeeps, ReadStaleKeeps, CheckClaimKeeps, MoveClaimKeeps,
     ReadClaimKeeps, CheckLandingKeeps, MoveLandingKeeps
  DEF Recover

LEMMA LateKeeps ==
  ASSUME RecoveryInv, LateEffect
  PROVE RecoveryInv'
<1>1. PICK x \in late :
        /\ late' = late \ {x}
        /\ files' = IF x.from = Absent
                    THEN [files EXCEPT ![x.to] = x.index]
                    ELSE IF CanMove(x.from, x.to) THEN Moved(x.from, x.to)
                                                  ELSE files
        /\ txn' = txn /\ used' = used
  BY DEF LateEffect, Keep
<1>2. DOMAIN files' = Name BY <1>1 DEF Moved, RecoveryInv, Formed
<1>3. CASE \A d \in Device : txn[d].claim # Absent => x.to # txn[d].claim
  <2>1. \A n \in LockName : n # x.to => files'[n] \in {files[n], Absent}
    BY <1>1, Constantly DEF Moved, RecoveryInv, Formed
  <2>2. \A n \in LockName : files'[n] # Absent => n \in used
    BY <1>1, <2>1, Constantly DEF RecoveryInv, Named
  <2>3. \A d \in Device : txn[d].claim # Absent => Untouched(d)
    BY <1>3, <2>1, ClaimNames DEF Untouched
  <2> QED BY <1>1, <1>2, <2>2, <2>3, StillKeeps
<1>4. ASSUME NEW d \in Device, txn[d].claim # Absent, x.to = txn[d].claim
      PROVE RecoveryInv'
  <2>1. x = LateClaim(d) /\ txn[d].pc = "claimLost" /\ Unfilled(d)
    BY <1>1, <1>4 DEF RecoveryInv, Filling, Unfilled
  <2>2. txn[d].pc \in Claiming /\ txn[d].pc \in ClaimSteps
    BY <2>1, Constantly DEF Claiming
  <2>3. x.from = txn[d].target /\ x.to = txn[d].claim /\ x.from # Absent
    BY <2>1, <2>2, Constantly DEF LateClaim, RecoveryInv, Named
  <2>4. CASE CanMove(x.from, x.to)
    <3>1. files' = Moved(txn[d].target, txn[d].claim) /\ files[txn[d].target] # Absent
      BY <1>1, <2>3, <2>4 DEF CanMove
    <3>2. Carries(d, txn[d])
      BY <1>1, <1>2, <2>2 DEF Carries, Turns, RecoveryInv, Formed, Named
    <3>3. late' \subseteq late /\ LateClaim(d) \notin late' BY <1>1, <2>1
    <3> QED BY <2>1, <2>2, <3>1, <3>2, <3>3, FillKeeps
  <2>5. CASE ~CanMove(x.from, x.to)
    <3>1. files' = files BY <1>1, <2>3, <2>5
    <3> QED BY <1>1, <3>1, StillKeeps DEF Untouched, RecoveryInv, Formed, Named
  <2> QED BY <2>4, <2>5
<1> QED BY <1>3, <1>4

LEMMA RecoveryStep == ASSUME RecoveryInv, [Next]_vars PROVE RecoveryInv'
<1>1. CASE UNCHANGED vars
  BY <1>1, StillKeeps DEF vars, Untouched, RecoveryInv, Formed, Named
<1>2. ASSUME NEW d \in Device,
             Edit(d) \/ StartCommit(d) \/ StartLoad(d) \/ Step(d) \/ Crash(d)
      PROVE RecoveryInv'
  <2>1. CASE Edit(d)
    BY <2>1, StillKeeps DEF Edit, Untouched, RecoveryInv, Formed, Named
  <2> QED
    BY <1>2, <2>1, GoesKeeps, StartAside, DiscoverAside, TransactAside, RecoverKeeps
    DEF Step
<1> QED BY <1>1, <1>2, LateKeeps DEF Next

LEMMA RecoveryInit == Init => RecoveryInv
<1> SUFFICES ASSUME Init PROVE RecoveryInv OBVIOUS
<1>1. /\ DOMAIN files = Name /\ \A n \in Name : files[n] = Absent
      /\ late = {} /\ used = {} /\ DOMAIN txn = Device
      /\ \A d \in Device : txn[d] = Resting
  BY DEF Init
<1>2. /\ Resting.pc = "idle" /\ Resting.lock = Absent /\ Resting.claim = Absent
      /\ Resting.back = "ensure"
  BY DEF Resting
<1>3. "idle" \notin RecoverySteps /\ "idle" \notin ClaimSteps
      /\ "idle" \notin Claiming /\ "idle" \notin Landing
  BY DEF RecoverySteps, ClaimSteps, Claiming, Landing
<1> QED
  BY <1>1, <1>2, <1>3, Constantly
  DEF RecoveryInv, Formed, Named, ClaimsApart, Filling, Faithful

LEMMA RecoverTurns ==
  ASSUME NEW d \in Device, Recover(d)
  PROVE \E r : Become(d, r)
BY DEF Recover, LeaseEnded, ReadStaleLock, CheckClaim, MoveClaim, ReadClaim,
       CheckLanding, MoveLanding, ConfirmLanding, ExclusiveMove, Goto, Stop

\* A device about to land its claim does nothing else.
LEMMA LandingOnly ==
  ASSUME NEW d \in Device, At(d, "land"), StartCommit(d) \/ StartLoad(d) \/ Step(d)
  PROVE MoveLanding(d)
<1>1. txn[d].pc = "land" BY DEF At
<1>2. ~StartCommit(d) /\ ~StartLoad(d) BY <1>1 DEF StartCommit, StartLoad, At
<1>3. ~Discover(d)
  BY <1>1 DEF Discover, Ensure, Seed, DecideToSeed, NothingToRecover, ManyLocks,
     RequestFails, WaitForLease, GiveUpWaiting, ListOrphans, ReadCanonicalForOrphan,
     JudgeOrphan, CheckOrphan, DeleteOrphan, Load, At, DiscoverySteps
<1>4. ~Transact(d)
  BY <1>1 DEF Transact, Acquire, JudgeAcquire, ReadLock, WriteLock, VerifyLock,
     FingerprintLock, Publish, Resolve, RetryMove, Confirm, Reconfirm,
     ProbeCanonical, ProbeLock, ProbeSteps, Probed, At
<1>5. ~RollBack(d)
  BY <1>1 DEF RollBack, Rollback, RestoreLock, VerifyRestored, RestoreMove,
     ConfirmRestored, ReadRestored, Probed, At
<1>6. Recover(d) => MoveLanding(d)
  BY <1>1 DEF Recover, LeaseEnded, ReadStaleLock, CheckClaim, MoveClaim, ReadClaim,
     CheckLanding, ConfirmLanding, At
<1> QED BY <1>2, <1>3, <1>4, <1>5, <1>6 DEF Step

\* Who moves the bytes that a recovery of d publishes, and what they are.
LEMMA PublicationStep ==
  ASSUME RecoveryInv, [Next]_vars, NEW d \in Device, At(d, "land"),
         files[Canonical] = Absent, files'[Canonical] # Absent, txn'[d].pc # "land"
  PROVE files'[Canonical] = txn[d].observed[txn[d].target]
<1>1. txn' # txn BY DEF At
<1>2. PICK e \in Device : StartCommit(e) \/ StartLoad(e) \/ Step(e) \/ Crash(e)
  BY <1>1 DEF Next, LateEffect, Edit, vars
<1>3. e = d
  <2>1. \E r : Become(e, r)
    BY <1>2, StartAside, DiscoverAside, TransactAside, RecoverTurns DEF Step, Goes
  <2> QED BY <2>1, TurnStep DEF Turns, At
<1>4. ~Crash(d) BY DEF Crash
<1>5. MoveLanding(d) BY <1>2, <1>3, <1>4, LandingOnly
<1>6. txn[d].pc \in Landing /\ txn[d].pc \in ClaimSteps
  BY Constantly DEF At, Landing
<1>7. /\ txn[d].claim \in LockName /\ txn[d].dest \in {Canonical, txn[d].target}
      /\ txn[d].target \in LockName
  BY <1>6, ClaimNames, Constantly DEF RecoveryInv, Named
<1>8. /\ CanMove(txn[d].claim, txn[d].dest)
      /\ files' = Moved(txn[d].claim, txn[d].dest)
  BY <1>5 DEF MoveLanding, ExclusiveMove
<1>9. txn[d].dest = Canonical /\ files'[Canonical] = files[txn[d].claim]
  BY <1>7, <1>8, Constantly DEF Moved, RecoveryInv, Formed
<1> QED BY <1>6, <1>8, <1>9 DEF CanMove, RecoveryInv, Faithful

\* Automatic recovery publishes only bytes it saw unchanged for a whole lease,
\* whatever takes effect late and whoever else recovers the same lock or the
\* claim itself: renewed bytes go back under the lock's own name
\* (recoverStaleLock, moveObservedIndexLock).
THEOREM RecoveryIsFaithful == Spec => RecoveryPublishesObserved
<1>1. RecoveryInv /\ [Next]_vars => RecoveryInv' BY RecoveryStep
<1>2. RecoveryInv /\ [Next]_vars =>
        [\A d \in Device :
           At(d, "land") /\ files[Canonical] = Absent /\ files'[Canonical] # Absent
             /\ txn'[d].pc # "land"
           => files'[Canonical] = txn[d].observed[txn[d].target]]_vars
  BY PublicationStep
<1> QED BY <1>1, <1>2, RecoveryInit, PTL DEF Spec, RecoveryPublishesObserved

-----------------------------------------------------------------------------
(* What the index holds.                                                   *)


\* x may follow the index old at the canonical name: the same bytes, or a
\* reduction that adds something (Reduced).
Extends(x, old) == /\ x.rev = old.rev + 1
                   /\ old.ops \subseteq x.ops /\ x.ops # old.ops
Follows(x, old) == old # Absent /\ (x = old \/ Extends(x, old))

\* The owner has read the index under its lock.
AfterRead == OwnerSteps \ {"acquire", "acquireFailed", "read"}
\* What is under its lock is what it wants to publish.
Publishing == {"fingerprint", "publish", "resolve", "retryMove", "confirm",
               "reconfirm"}
\* What is under its lock is what it has read there.
Original == {"write", "restoreMove", "restoreConfirm"}

\* The token is never lost, it holds what is published or a successor of it,
\* and at the canonical name it is what is published.
TokenInv ==
  /\ \A n \in Name : files[n] # Absent => Follows(files[n], published)
  /\ files[Canonical] # Absent => files[Canonical] = published
  /\ published # Absent => \E n \in Name : files[n] # Absent

\* What the owner r of a lock knows of the index x under it.
Holding(r, x, pub) ==
  /\ r.pc \notin AfterRead => x = pub
  /\ r.pc \in AfterRead => r.orig = pub /\ x \in {r.orig, r.merged}
  /\ r.pc \in Publishing => x = r.merged
  /\ r.pc \in Original => x = r.orig

Holds(r, disk, pub) ==
  r.lock # Absent /\ disk[r.lock] # Absent => Holding(r, disk[r.lock], pub)

\* What a device wants to publish adds its own mutations to what it has read.
Merging(r, own) ==
  /\ r.pc \notin AfterRead \cup {"idle"} => r.merged = Absent
  /\ r.pc = "write" => r.merged # Absent
  /\ r.pc \in AfterRead \/ r.result = "rolled-back" =>
       /\ r.orig # Absent
       /\ r.merged # Absent => /\ Follows(r.merged, r.orig)
                               /\ r.merged.ops \subseteq r.orig.ops \cup own

\* What a device has seen at the canonical name is part of what is there now.
Seen(r, pub) ==
  Present(r.seenC) => pub # Absent /\ r.seenC.ops \subseteq pub.ops

\* The own mutations of a rolled-back transaction are nowhere on the disk.
Undone(r, disk, pub) ==
  /\ r.pc # "idle" => r.result = "none"
  /\ r.result = "rolled-back" /\ r.merged # Absent =>
       /\ pub # Absent
       /\ (r.merged.ops \ r.orig.ops) \cap pub.ops = {}
       /\ \A n \in Name : disk[n] # Absent =>
            (r.merged.ops \ r.orig.ops) \cap disk[n].ops = {}

Content(r, own, disk, pub) ==
  Holds(r, disk, pub) /\ Merging(r, own) /\ Seen(r, pub) /\ Undone(r, disk, pub)

\* Nothing comes to a name that an orphan's deletion is on its way to.
DeadInv ==
  \A d \in Device :
    /\ txn[d].pc \in {"orphanJudge", "orphanCheck"} => txn[d].raw # Absent
    /\ txn[d].pc = "orphanDelete" =>
         /\ files[txn[d].target] = Absent
         /\ \A e \in Device :
              txn[e].pc \in ClaimSteps /\ txn[e].target = txn[d].target =>
                files[txn[e].claim] = Absent

\* A mutation is pending on one device.
ApartInv ==
  \A d, e \in Device : d # e => pending[d] \cap pending[e] = {}

CInv == /\ TokenInv /\ ApartInv /\ AcknowledgedSurvive
        /\ \A d \in Device : Content(txn[d], pending[d], files, published)

-----------------------------------------------------------------------------
(* What one step does to the local state of its device. *)

\* Looking for the index, with nothing read under a lock.
Onward(d, r) ==
  /\ {r.pc, txn[d].pc} \cap (AfterRead \cup {"idle"}) = {}
  /\ r.lock = txn[d].lock /\ r.merged = txn[d].merged
  /\ r.result = txn[d].result /\ r.seenC = Unread

\* The operation has ended, and not by an exact rollback.
Rests(r) == r.pc = "idle" /\ r.lock = Absent /\ r.seenC = Unread
            /\ r.result # "rolled-back"

Searches(d, r) == Become(d, r) /\ (Onward(d, r) \/ Rests(r))

LEMMA ToCore ==
  ASSUME IInv, NEW d \in Device, NEW p \in Steps
  PROVE /\ To(d, p) \in LocalState
        /\ To(d, p).pc = p /\ To(d, p).seenC = Unread
        /\ To(d, p).lock = txn[d].lock /\ To(d, p).result = txn[d].result
        /\ To(d, p).orig = txn[d].orig /\ To(d, p).merged = txn[d].merged
        /\ To(d, p).raw = txn[d].raw
<1>1. txn[d] \in LocalState BY DEF IInv
<1> QED BY <1>1 DEF LocalState, To

LEMMA StopRests ==
  ASSUME NEW d \in Device, NEW o, o # "rolled-back", Stop(d, o)
  PROVE Searches(d, Stopped(d, o))
BY DEF Searches, Rests, Stop, Stopped, Resting

LEMMA StopNoting ==
  ASSUME IInv, NEW d \in Device, NEW v,
         Become(d, [Stopped(d, "ambiguous") EXCEPT !.observed = v])
  PROVE \E r : Searches(d, r)
<1> DEFINE s == Stopped(d, "ambiguous")
<1>1. s \in LocalState BY StoppedState DEF Outcomes
<1>2. Rests(s) BY DEF Rests, Stopped, Resting
<1> HIDE DEF s
<1>3. Rests([s EXCEPT !.observed = v]) BY <1>1, <1>2 DEF LocalState, Rests
<1> QED BY <1>3 DEF Searches, s

LEMMA GoOnward ==
  ASSUME IInv, NEW d \in Device, NEW p \in Steps, Goto(d, p),
         {p, txn[d].pc} \cap (AfterRead \cup {"idle"}) = {}
  PROVE Searches(d, To(d, p))
BY ToCore DEF Searches, Onward, Goto

\* Notes that do not bear on the content.
LEMMA NoteOnward ==
  ASSUME IInv, NEW d \in Device, NEW p \in Steps, NEW s, s = To(d, p), NEW r,
         Become(d, r), {p, txn[d].pc} \cap (AfterRead \cup {"idle"}) = {},
         /\ r.pc = s.pc /\ r.seenC = s.seenC /\ r.lock = s.lock
         /\ r.result = s.result /\ r.merged = s.merged
  PROVE Searches(d, r)
BY ToCore DEF Searches, Onward

LEMMA Noted ==
  ASSUME IInv, NEW d \in Device, NEW p \in Steps,
         {p, txn[d].pc} \cap (AfterRead \cup {"idle"}) = {}
  PROVE LET Done == \E r : Searches(d, r) IN
        /\ \A b : Become(d, [To(d, p) EXCEPT !.back = b]) => Done
        /\ \A t : Become(d, [To(d, p) EXCEPT !.target = t]) => Done
        /\ \A w, c, g : Become(d, [To(d, p) EXCEPT !.raw = w, !.claim = c,
                                                   !.dest = g]) => Done
        /\ \A w, g : Become(d, [To(d, p) EXCEPT !.raw = w, !.dest = g]) => Done
        /\ \A w : Become(d, [To(d, p) EXCEPT !.raw = w]) => Done
        /\ \A c : Become(d, [To(d, p) EXCEPT !.claim = c]) => Done
        /\ \A n : Become(d, Observing(d, n, p)) => Done
        /\ \A n, c : Become(d, [Observing(d, n, p) EXCEPT !.claim = c]) => Done
<1> DEFINE s == To(d, p)
           Same(r) == /\ r.pc = s.pc /\ r.seenC = s.seenC /\ r.lock = s.lock
                      /\ r.result = s.result /\ r.merged = s.merged
<1>1. s \in LocalState BY ToCore
<1>2. \A r : Become(d, r) /\ Same(r) => Searches(d, r) BY NoteOnward
<1> HIDE DEF s
<1>3. ASSUME NEW b, NEW t, NEW c, NEW w, NEW g, NEW o
      PROVE /\ Same([s EXCEPT !.back = b]) /\ Same([s EXCEPT !.target = t])
            /\ Same([s EXCEPT !.raw = w, !.claim = c, !.dest = g])
            /\ Same([s EXCEPT !.raw = w, !.dest = g])
            /\ Same([s EXCEPT !.raw = w]) /\ Same([s EXCEPT !.claim = c])
            /\ Same([s EXCEPT !.observed = o])
            /\ Same([[s EXCEPT !.observed = o] EXCEPT !.claim = c])
  BY <1>1 DEF LocalState
<1>4. \A r : Become(d, r) /\ Same(r) => \E q : Searches(d, q) BY <1>2
<1> HIDE DEF Same
<1>5. ASSUME NEW n
      PROVE /\ Same(Observing(d, n, p))
            /\ \A c : Same([Observing(d, n, p) EXCEPT !.claim = c])
  <2> DEFINE o == [s.observed EXCEPT ![n] = files[n]]
  <2>1. Observing(d, n, p) = [s EXCEPT !.observed = o] BY DEF Observing, s
  <2> HIDE DEF o
  <2> QED BY <1>3, <2>1
<1> QED BY <1>3, <1>4, <1>5 DEF s

\* A claim is given up, its lock waited for again.
LEMMA Released ==
  ASSUME IInv, NEW d \in Device, NEW n, NEW p \in Steps,
         {p, txn[d].pc} \cap (AfterRead \cup {"idle"}) = {},
         Become(d, [Observing(d, n, p) EXCEPT !.claim = Absent])
  PROVE \E r : Searches(d, r)
BY Noted

LEMMA BackOutside ==
  ASSUME IInv, NEW d \in Device
  PROVE /\ {txn[d].back, Discovered(d)} \subseteq Steps
        /\ {txn[d].back, Discovered(d)} \cap (AfterRead \cup {"idle"}) = {}
<1>1. txn[d].back \in {"ensure", "acquire"} BY DEF IInv, LocalState
<1> QED BY <1>1 DEF Discovered, AfterRead, OwnerSteps, Steps, DiscoverySteps

SearchPoints == DiscoverySteps \cup RecoverySteps \cup {"acquire", "acquireFailed"}

LEMMA PointsOutside ==
  SearchPoints \subseteq Steps
    /\ SearchPoints \cap (AfterRead \cup {"idle"}) = {}
BY DEF SearchPoints, DiscoverySteps, RecoverySteps, AfterRead, OwnerSteps, Steps

\* Discovery looks at the disk and decides.
LEMMA DiscoverLooks ==
  ASSUME IInv, NEW d \in Device,
         \/ Ensure(d) \/ NothingToRecover(d) \/ ManyLocks(d) \/ RequestFails(d)
         \/ WaitForLease(d) \/ GiveUpWaiting(d) \/ ListOrphans(d)
         \/ ReadCanonicalForOrphan(d) \/ JudgeOrphan(d) \/ CheckOrphan(d)
  PROVE /\ \E r : Searches(d, r)
        /\ UNCHANGED <<files, pending, accepted>>
<1> USE PointsOutside, BackOutside DEF SearchPoints
<1>1. UNCHANGED <<files, pending, accepted>>
  BY DEF Ensure, NothingToRecover, ManyLocks, RequestFails, WaitForLease,
         GiveUpWaiting, ListOrphans, ReadCanonicalForOrphan, JudgeOrphan,
         CheckOrphan, Local, Keep
<1> SUFFICES \E r : Searches(d, r) BY <1>1
<1>2. ASSUME \E o \in {"ambiguous", "failed", "concurrent"} : Stop(d, o)
      PROVE \E r : Searches(d, r)
  BY <1>2, StopRests
<1>3. CASE ManyLocks(d) \/ RequestFails(d) \/ GiveUpWaiting(d)
  BY <1>2, <1>3 DEF ManyLocks, RequestFails, GiveUpWaiting
<1>4. CASE Ensure(d) BY <1>4, GoOnward DEF Ensure, At, DiscoverySteps
<1>5. CASE NothingToRecover(d)
  BY <1>5, GoOnward DEF NothingToRecover, At, DiscoverySteps
<1>6. CASE WaitForLease(d)
  BY <1>6, Noted DEF WaitForLease, At, DiscoverySteps
<1>7. CASE ListOrphans(d)
  <2>1. CASE Goto(d, Discovered(d))
    BY <1>7, <2>1, GoOnward DEF ListOrphans, At, DiscoverySteps
  <2>2. ASSUME NEW n \in LockName, Become(d, Observing(d, n, Discovered(d)))
        PROVE \E r : Searches(d, r)
    BY <1>7, <2>2, Noted DEF ListOrphans, At, DiscoverySteps
  <2>3. ASSUME NEW n \in LockName,
               Become(d, [To(d, "orphanCanonical") EXCEPT !.target = n])
        PROVE \E r : Searches(d, r)
    BY <1>7, <2>3, Noted DEF ListOrphans, At, DiscoverySteps
  <2>4. ASSUME NEW v, Become(d, [Stopped(d, "ambiguous") EXCEPT !.observed = v])
        PROVE \E r : Searches(d, r)
    BY <2>4, StopNoting
  <2> QED BY <1>7, <2>1, <2>2, <2>3, <2>4 DEF ListOrphans
<1>8. CASE ReadCanonicalForOrphan(d)
  BY <1>2, <1>8, Noted DEF ReadCanonicalForOrphan, At, DiscoverySteps
<1>9. CASE JudgeOrphan(d)
  BY <1>2, <1>9, GoOnward DEF JudgeOrphan, At, DiscoverySteps
<1>10. CASE CheckOrphan(d)
  BY <1>2, <1>10, GoOnward DEF CheckOrphan, At, DiscoverySteps
<1> QED BY <1>3, <1>4, <1>5, <1>6, <1>7, <1>8, <1>9, <1>10

\* So does recovery between its requests.
LEMMA RecoverLooks ==
  ASSUME IInv, NEW d \in Device,
         \/ LeaseEnded(d) \/ ReadStaleLock(d) \/ CheckClaim(d) \/ ReadClaim(d)
         \/ CheckLanding(d) \/ ConfirmLanding(d) \/ JudgeAcquire(d)
  PROVE /\ \E r : Searches(d, r)
        /\ UNCHANGED <<files, pending, accepted>>
<1> USE PointsOutside, BackOutside DEF SearchPoints
<1>1. UNCHANGED <<files, pending, accepted>>
  BY DEF LeaseEnded, ReadStaleLock, CheckClaim, ReadClaim, CheckLanding,
         ConfirmLanding, JudgeAcquire, Local, Keep
<1> SUFFICES \E r : Searches(d, r) BY <1>1
<1>2. ASSUME \E o \in {"ambiguous", "failed"} : Stop(d, o)
      PROVE \E r : Searches(d, r)
  BY <1>2, StopRests
<1>3. CASE LeaseEnded(d)
  <2>1. /\ "staleRead" \in Steps
        /\ {"staleRead", txn[d].pc} \cap (AfterRead \cup {"idle"}) = {}
    BY <1>3 DEF LeaseEnded, At, DiscoverySteps, RecoverySteps
  <2>2. PICK n : Become(d, [To(d, "staleRead") EXCEPT !.target = n])
    BY <1>3 DEF LeaseEnded
  <2> QED BY <2>1, <2>2, Noted
<1>4. CASE ReadStaleLock(d)
  <2>1. /\ "claimCheck" \in Steps
        /\ {"claimCheck", txn[d].pc} \cap (AfterRead \cup {"idle"}) = {}
    BY <1>4 DEF ReadStaleLock, At, RecoverySteps
  <2>2. ASSUME NEW w, NEW c, NEW g,
               Become(d, [To(d, "claimCheck") EXCEPT
                            !.raw = w, !.claim = c, !.dest = g])
        PROVE \E r : Searches(d, r)
    BY <2>1, <2>2, Noted
  <2>3. CASE Become(d, Observing(d, txn[d].target, txn[d].back))
    BY <2>1, <2>3, Noted
  <2> QED BY <1>2, <1>4, <2>2, <2>3 DEF ReadStaleLock
<1>5. CASE CheckClaim(d)
  <2>1. txn[d].pc \in SearchPoints /\ "claimMove" \in SearchPoints
    BY <1>5 DEF CheckClaim, At, RecoverySteps
  <2>2. CASE Goto(d, "claimMove") BY <2>1, <2>2, GoOnward
  <2>3. CASE Become(d, [Observing(d, txn[d].target, txn[d].back)
                          EXCEPT !.claim = Absent])
    BY <2>1, <2>3, Released
  <2> QED BY <1>2, <1>5, <2>2, <2>3 DEF CheckClaim
<1>6. CASE ReadClaim(d)
  <2>1. /\ "landCheck" \in Steps
        /\ {"landCheck", txn[d].pc} \cap (AfterRead \cup {"idle"}) = {}
    BY <1>6 DEF ReadClaim, At, RecoverySteps
  <2>2. ASSUME NEW w, NEW g,
               Become(d, [To(d, "landCheck") EXCEPT !.raw = w, !.dest = g])
        PROVE \E r : Searches(d, r)
    BY <2>1, <2>2, Noted
  <2>3. CASE Become(d, [To(d, txn[d].back) EXCEPT !.claim = Absent])
    BY <2>1, <2>3, Noted
  <2> QED BY <1>2, <1>6, <2>2, <2>3 DEF ReadClaim
<1>7. CASE CheckLanding(d)
  BY <1>7, GoOnward DEF CheckLanding, At, RecoverySteps
<1>8. CASE ConfirmLanding(d)
  <2>1. txn[d].pc \in SearchPoints
    BY <1>8 DEF ConfirmLanding, At, RecoverySteps
  <2>2. CASE Become(d, [Observing(d, txn[d].target, txn[d].back)
                          EXCEPT !.claim = Absent])
    BY <2>1, <2>2, Released
  <2> QED BY <1>2, <1>8, <2>2 DEF ConfirmLanding
<1>9. CASE JudgeAcquire(d)
  <2>1. txn[d].pc = "acquireFailed" BY <1>9 DEF JudgeAcquire, Probed, At
  <2>2. {"acquireFailed", "read", "list"} \subseteq Steps
        /\ {"acquireFailed", "read", "list"} \cap (AfterRead \cup {"idle"}) = {}
    BY DEF AfterRead, OwnerSteps, Steps, DiscoverySteps
  <2>3. CASE Goto(d, "read") BY <2>1, <2>2, <2>3, GoOnward
  <2>4. CASE Become(d, [To(d, "list") EXCEPT !.back = "acquire"])
    BY <2>1, <2>2, <2>4, Noted
  <2> QED BY <1>2, <1>9, <2>3, <2>4 DEF JudgeAcquire
<1> QED BY <1>3, <1>4, <1>5, <1>6, <1>7, <1>8, <1>9

-----------------------------------------------------------------------------
(* What one step does to the disk. *)

\* The index goes from one name to another.
Carried(from, to) ==
  /\ CanMove(from, to) /\ files'[to] = files[from]
  /\ \A n \in Name \ {to} : files'[n] # Absent => files'[n] = files[n]
  /\ \A n \in Name \ {from, to} : files'[n] = files[n]
  /\ files'[from] = Absent

LEMMA MoveEffect ==
  ASSUME IInv, NEW d \in Device, NEW from \in Name, NEW to \in Name, NEW p, NEW q,
         ExclusiveMove(d, from, to, p, q)
  PROVE /\ UNCHANGED files \/ Carried(from, to)
        /\ Goto(d, p) \/ Goto(d, q)
        /\ UNCHANGED <<pending, accepted>>
        /\ UNCHANGED files => Goto(d, q)
<1>1. files \in [Name -> MaybeIndex] BY DEF IInv, DiskInv
<1>2. CASE CanMove(from, to) /\ files' = Moved(from, to)
  <2>1. from # to BY <1>2 DEF CanMove
  <2>2. Carried(from, to) BY <1>1, <1>2, <2>1 DEF Moved, Carried
  <2>3. files' # files BY <1>2, <2>2 DEF Carried, CanMove
  <2> QED BY <2>2, <2>3 DEF ExclusiveMove, Keep
<1>3. CASE UNCHANGED files
  <2>1. ~(CanMove(from, to) /\ files' = Moved(from, to))
    BY <1>1, <1>3 DEF CanMove, Moved
  <2> QED BY <1>3, <2>1 DEF ExclusiveMove, Keep
<1> QED BY <1>2, <1>3 DEF ExclusiveMove

LEMMA WriteEffect ==
  ASSUME IInv, Hazards = {}, NEW d \in Device, NEW name \in Name, NEW index, NEW p,
         Overwrite(d, name, index, p)
  PROVE /\ \/ UNCHANGED files
           \/ /\ files'[name] = index
              /\ \A n \in Name \ {name} : files'[n] = files[n]
        /\ Goto(d, p)
        /\ UNCHANGED <<pending, accepted>>
<1>1. files \in [Name -> MaybeIndex] BY DEF IInv, DiskInv
<1> QED BY <1>1 DEF Overwrite, Keep

\* The names of a device's own are no target and no one else's.
LEMMA OwnNames ==
  ASSUME IInv, NEW d \in Device
  PROVE /\ txn[d].lock \in LockName \cup {Absent}
        /\ txn[d].claim \in LockName \cup {Absent}
        /\ txn[d].lock # Canonical /\ txn[d].claim # Canonical
        /\ txn[d].claim # Absent => txn[d].claim # txn[d].lock
        /\ txn[d].pc \in TargetSteps => txn[d].target \in LockName
        /\ txn[d].pc \in ClaimSteps => txn[d].claim # Absent
        /\ txn[d].pc \in OwnerSteps => txn[d].lock # Absent
        /\ \A e \in Device : txn[d].pc \in TargetSteps =>
             txn[d].target \notin {txn[e].lock, txn[e].claim}
        /\ \A e \in Device : e # d =>
             /\ txn[d].lock # Absent => txn[d].lock \notin {txn[e].lock, txn[e].claim}
             /\ txn[d].claim # Absent => txn[d].claim \notin {txn[e].lock, txn[e].claim}
<1>1. LocalInv(txn[d], files, used) /\ txn[d] \in LocalState /\ used \subseteq LockName
  BY DEF IInv, DiskInv
<1>2. txn[d].lock \in LockName \cup {Absent} /\ txn[d].claim \in LockName \cup {Absent}
  BY <1>1 DEF LocalState, MaybeLock
<1>3. \A e \in Device : Abandoned(txn[d], txn[e])
        /\ (e # d => Disjoint(txn[d], txn[e]))
  BY DEF IInv
<1> QED BY <1>1, <1>2, <1>3, NamesAssumption, MarkersAssumption
        DEF LocalInv, Abandoned, Disjoint

LEMMA CanonicalAlone ==
  ASSUME IInv, files[Canonical] # Absent
  PROVE \A n \in LockName : files[n] = Absent
BY NamesAssumption DEF IInv, OneAuthority, Name

-----------------------------------------------------------------------------
(* Nothing comes to a name whose deletion is decided. *)

\* The request of d that may bring the index to the name n.
Brings(d, n) ==
  \/ n \in {Canonical, txn[d].lock}
  \/ txn[d].pc = "claimMove" /\ n = txn[d].claim /\ files[txn[d].target] # Absent
  \/ txn[d].pc = "land" /\ n = txn[d].target /\ files[txn[d].claim] # Absent

Judging == {"orphanJudge", "orphanCheck"}

LEMMA DeadFrame ==
  ASSUME IInv, IInv', DeadInv, NEW d \in Device, NEW r, Become(d, r),
         r.pc \in Judging => r.raw # Absent,
         r.pc = "orphanDelete" => files'[Canonical] # Absent,
         r.pc \in ClaimSteps =>
           \/ /\ txn[d].pc \in ClaimSteps
              /\ r.target = txn[d].target /\ r.claim = txn[d].claim
           \/ files'[r.claim] = Absent,
         \A n \in Name : files'[n] # Absent => files[n] # Absent \/ Brings(d, n)
  PROVE DeadInv'
<1>1. txn'[d] = r /\ \A e \in Device : e # d => txn'[e] = txn[e]
  BY DEF Become, IInv
<1>2. \A e \in Device : txn'[e].pc \in Judging => txn'[e].raw # Absent
  BY <1>1 DEF DeadInv, Judging
<1>3. ASSUME NEW e \in Device, txn'[e].pc = "orphanDelete", e = d
      PROVE /\ files'[txn'[e].target] = Absent
            /\ \A g \in Device : txn'[g].pc \in ClaimSteps =>
                 files'[txn'[g].claim] = Absent
  <2>1. files'[Canonical] # Absent BY <1>1, <1>3
  <2>2. \A n \in LockName : files'[n] = Absent
    BY <2>1, NamesAssumption DEF IInv, OneAuthority, Name
  <2>3. \A g \in Device : LocalInv(txn'[g], files', used') /\ used' \subseteq LockName
    BY DEF IInv, DiskInv
  <2> QED BY <1>3, <2>2, <2>3 DEF LocalInv, TargetSteps, ClaimSteps
<1>4. ASSUME NEW e \in Device, txn'[e].pc = "orphanDelete", e # d
      PROVE /\ files'[txn'[e].target] = Absent
            /\ \A g \in Device :
                 txn'[g].pc \in ClaimSteps /\ txn'[g].target = txn'[e].target =>
                   files'[txn'[g].claim] = Absent
  <2> DEFINE t == txn[e].target
  <2>1. txn'[e] = txn[e] /\ txn[e].pc = "orphanDelete" BY <1>1, <1>4
  <2>2. /\ t \in LockName
        /\ \A g \in Device : t \notin {txn[g].lock, txn[g].claim}
    BY <2>1, OwnNames DEF TargetSteps
  <2>3. /\ files[t] = Absent
        /\ \A g \in Device : txn[g].pc \in ClaimSteps /\ txn[g].target = t =>
             files[txn[g].claim] = Absent
    BY <2>1 DEF DeadInv
  <2>4. "land" \in ClaimSteps /\ "claimMove" \in ClaimSteps
        /\ ClaimSteps \subseteq TargetSteps
    BY DEF ClaimSteps, RecoverySteps, TargetSteps
  <2>5. files'[t] = Absent
    BY <2>2, <2>3, <2>4, NamesAssumption DEF Brings, Name
  <2>6. ASSUME NEW g \in Device, txn[g].pc \in ClaimSteps, txn[g].target = t
        PROVE files'[txn[g].claim] = Absent
    <3> DEFINE c == txn[g].claim
    <3>1. c \in LockName /\ files[c] = Absent BY <2>3, <2>6, OwnNames
    <3>2. c # txn[d].lock /\ (txn[d].pc \in TargetSteps => c # txn[d].target)
          /\ (g # d => c # txn[d].claim)
      BY <2>4, <2>6, <3>1, OwnNames, MarkersAssumption
    <3>3. ~Brings(d, c)
      BY <2>3, <2>4, <2>6, <3>1, <3>2, NamesAssumption DEF Brings
    <3> QED BY <3>1, <3>3 DEF Name
  <2>7. \A g \in Device : txn'[g].pc \in ClaimSteps /\ txn'[g].target = t =>
          files'[txn'[g].claim] = Absent
    BY <1>1, <2>6
  <2> QED BY <2>1, <2>5, <2>7
<1> QED BY <1>2, <1>3, <1>4 DEF DeadInv, Judging

Leads(d, p) == \E r : Become(d, r) /\ r.pc = p

LEMMA Led ==
  ASSUME IInv, NEW d \in Device, NEW p \in Steps
  PROVE /\ Goto(d, p) => Leads(d, p)
        /\ \A b : Become(d, [To(d, p) EXCEPT !.back = b]) => Leads(d, p)
        /\ \A t : Become(d, [To(d, p) EXCEPT !.target = t]) => Leads(d, p)
        /\ \A c : Become(d, [To(d, p) EXCEPT !.claim = c]) => Leads(d, p)
        /\ \A v : Become(d, [To(d, p) EXCEPT !.observed = v]) => Leads(d, p)
        /\ \A n : Become(d, Observing(d, n, p)) => Leads(d, p)
        /\ \A n, c : Become(d, [Observing(d, n, p) EXCEPT !.claim = c])
             => Leads(d, p)
        /\ \A o : Stop(d, o) => Leads(d, "idle")
        /\ \A v : Become(d, [Stopped(d, "ambiguous") EXCEPT !.observed = v])
             => Leads(d, "idle")
<1> DEFINE s == To(d, p)
           z == Stopped(d, "ambiguous")
<1>1. s \in LocalState /\ s.pc = p BY ToCore
<1>2. z \in LocalState /\ z.pc = "idle" BY StoppedState DEF Outcomes
<1>3. \A o : Stopped(d, o).pc = "idle" BY DEF Stopped, Resting
<1> HIDE DEF s, z
<1>4. ASSUME NEW b, NEW t, NEW c, NEW o
      PROVE /\ [s EXCEPT !.back = b].pc = p /\ [s EXCEPT !.target = t].pc = p
            /\ [s EXCEPT !.claim = c].pc = p /\ [s EXCEPT !.observed = o].pc = p
            /\ [[s EXCEPT !.observed = o] EXCEPT !.claim = c].pc = p
            /\ [z EXCEPT !.observed = o].pc = "idle"
  BY <1>1, <1>2 DEF LocalState
<1>5. ASSUME NEW n
      PROVE /\ Observing(d, n, p).pc = p
            /\ \A c : [Observing(d, n, p) EXCEPT !.claim = c].pc = p
  <2> DEFINE o == [s.observed EXCEPT ![n] = files[n]]
  <2>1. Observing(d, n, p) = [s EXCEPT !.observed = o] BY DEF Observing, s
  <2> HIDE DEF o
  <2> QED BY <1>4, <2>1
<1>6. \A b : [To(d, p) EXCEPT !.back = b].pc = p BY <1>4 DEF s
<1>7. \A t : [To(d, p) EXCEPT !.target = t].pc = p BY <1>4 DEF s
<1>8. \A c : [To(d, p) EXCEPT !.claim = c].pc = p BY <1>4 DEF s
<1>9. \A v : [To(d, p) EXCEPT !.observed = v].pc = p BY <1>4 DEF s
<1>10. \A v : [Stopped(d, "ambiguous") EXCEPT !.observed = v].pc = "idle"
  BY <1>4 DEF z
<1>11. To(d, p).pc = p BY <1>1 DEF s
<1>12. \A r : Become(d, r) => Leads(d, r.pc) BY DEF Leads
<1>13. /\ Goto(d, p) => Leads(d, p)
       /\ \A o : Stop(d, o) => Leads(d, "idle")
  BY <1>3, <1>11, <1>12 DEF Goto, Stop
<1>14. /\ \A b : Become(d, [To(d, p) EXCEPT !.back = b]) => Leads(d, p)
       /\ \A t : Become(d, [To(d, p) EXCEPT !.target = t]) => Leads(d, p)
  BY <1>6, <1>7, <1>12
<1>15. /\ \A c : Become(d, [To(d, p) EXCEPT !.claim = c]) => Leads(d, p)
       /\ \A v : Become(d, [To(d, p) EXCEPT !.observed = v]) => Leads(d, p)
  BY <1>8, <1>9, <1>12
<1>16. /\ \A n : Become(d, Observing(d, n, p)) => Leads(d, p)
       /\ \A n, c : Become(d, [Observing(d, n, p) EXCEPT !.claim = c])
            => Leads(d, p)
  <2>1. ASSUME NEW n, Become(d, Observing(d, n, p)) PROVE Leads(d, p)
    BY <1>5, <1>12, <2>1
  <2>2. ASSUME NEW n, NEW c, Become(d, [Observing(d, n, p) EXCEPT !.claim = c])
        PROVE Leads(d, p)
    <3>1. [Observing(d, n, p) EXCEPT !.claim = c].pc = p BY <1>5
    <3> QED BY <1>12, <2>2, <3>1
  <2> QED BY <2>1, <2>2
<1>17. \A v : Become(d, [Stopped(d, "ambiguous") EXCEPT !.observed = v])
            => Leads(d, "idle")
  BY <1>10, <1>12
<1> QED BY <1>13, <1>14, <1>15, <1>16, <1>17

PlainSteps == Steps \ (ClaimSteps \cup Judging \cup {"orphanDelete"})

LEMMA DeadPlain ==
  ASSUME IInv, IInv', DeadInv, NEW d \in Device, NEW p \in PlainSteps, Leads(d, p),
         \A n \in Name : files'[n] # Absent => files[n] # Absent \/ Brings(d, n)
  PROVE DeadInv'
BY DeadFrame DEF Leads, PlainSteps

LEMMA DeadDiscover ==
  ASSUME IInv, IInv', DeadInv, Hazards = {}, NEW d \in Device, Discover(d)
  PROVE DeadInv'
<1> DEFINE Plainly == \E p \in PlainSteps : Leads(d, p)
<1>1. {"idle", "list", "orphans", "acquire", "orphanCanonical", txn[d].back,
       Discovered(d)} \subseteq PlainSteps
  <2>1. txn[d].back \in {"ensure", "acquire"} BY DEF IInv, LocalState
  <2> QED BY <2>1 DEF Discovered, PlainSteps, Steps, DiscoverySteps, Judging,
                      OwnerSteps, ClaimSteps, RecoverySteps
<1>2. PlainSteps \subseteq Steps BY DEF PlainSteps
<1>3. ~DecideToSeed(d) BY DEF DecideToSeed
<1>4. ASSUME UNCHANGED files, Plainly PROVE DeadInv'
  BY <1>4, DeadPlain
<1>5. CASE Ensure(d) \/ NothingToRecover(d)
  <2>1. Plainly BY <1>1, <1>2, <1>5, Led DEF Ensure, NothingToRecover
  <2> QED BY <1>4, <1>5, <2>1 DEF Ensure, NothingToRecover, Local
<1>6. CASE ManyLocks(d) \/ RequestFails(d) \/ GiveUpWaiting(d) \/ Load(d)
  <2>1. Plainly BY <1>1, <1>2, <1>6, Led DEF ManyLocks, RequestFails, GiveUpWaiting, Load
  <2> QED BY <1>4, <1>6, <2>1 DEF ManyLocks, RequestFails, GiveUpWaiting, Load, Local
<1>7. CASE WaitForLease(d)
  <2>1. Plainly BY <1>1, <1>2, <1>7, Led DEF WaitForLease
  <2> QED BY <1>4, <1>7, <2>1 DEF WaitForLease, Local
<1>8. CASE ListOrphans(d)
  <2>1. ASSUME NEW n \in LockName, \/ Become(d, Observing(d, n, Discovered(d)))
                                   \/ Become(d, [To(d, "orphanCanonical") EXCEPT !.target = n])
        PROVE Plainly
    BY <1>1, <1>2, <2>1, Led
  <2>2. ASSUME NEW v, \/ Goto(d, Discovered(d))
                      \/ Become(d, [Stopped(d, "ambiguous") EXCEPT !.observed = v])
        PROVE Plainly
    BY <1>1, <1>2, <2>2, Led
  <2> HIDE DEF Plainly
  <2>3. Plainly BY <1>8, <2>1, <2>2 DEF ListOrphans
  <2> QED BY <1>4, <1>8, <2>3 DEF ListOrphans, Local
<1>9. CASE Seed(d)
  <2>1. Plainly BY <1>1, <1>2, <1>9, Led DEF Seed
  <2>2. \A n \in Name : files'[n] # Absent => files[n] # Absent \/ Brings(d, n)
    BY <1>9 DEF Seed, IInv, DiskInv, Brings
  <2> QED BY <2>1, <2>2, DeadPlain
<1>10. CASE DeleteOrphan(d)
  <2>1. CASE Stop(d, "failed") BY <1>1, <1>2, <1>10, <2>1, Led, DeadPlain DEF DeleteOrphan, IInv, DiskInv
  <2>2. ASSUME NEW v, Become(d, [To(d, Discovered(d)) EXCEPT !.observed = v])
        PROVE DeadInv'
    <3>1. Plainly BY <1>1, <1>2, <2>2, Led
    <3>2. \A n \in Name : files'[n] # Absent => files[n] # Absent
      BY <1>10 DEF DeleteOrphan, IInv, DiskInv
    <3> QED BY <3>1, <3>2, DeadPlain
  <2> QED BY <1>10, <2>1, <2>2 DEF DeleteOrphan
<1>11. CASE ReadCanonicalForOrphan(d)
  <2>1. UNCHANGED files BY <1>11 DEF ReadCanonicalForOrphan, Local
  <2>2. CASE Stop(d, "failed") BY <1>1, <1>2, <1>4, <2>1, <2>2, Led
  <2>3. CASE /\ files[Canonical] # Absent
             /\ Become(d, [To(d, "orphanJudge") EXCEPT !.raw = files[Canonical]])
    <3> DEFINE s == To(d, "orphanJudge")
               r == [s EXCEPT !.raw = files[Canonical]]
    <3>1. s \in LocalState /\ s.pc = "orphanJudge" BY ToCore DEF Steps, DiscoverySteps
    <3>2. Become(d, r) BY <2>3
    <3> HIDE DEF s
    <3>3. r.pc = "orphanJudge" /\ r.raw = files[Canonical] BY <3>1 DEF LocalState
    <3> HIDE DEF r
    <3> QED BY <2>1, <2>3, <3>2, <3>3, DeadFrame DEF Judging, ClaimSteps, RecoverySteps
  <2> QED BY <1>11, <2>2, <2>3 DEF ReadCanonicalForOrphan
<1>12. CASE JudgeOrphan(d)
  <2>1. UNCHANGED files /\ txn[d].pc = "orphanJudge" BY <1>12 DEF JudgeOrphan, Local, At
  <2>2. CASE Stop(d, "failed") \/ Stop(d, "ambiguous") BY <1>1, <1>2, <1>4, <2>1, <2>2, Led
  <2>3. CASE Goto(d, "orphanCheck")
    <3>1. txn[d].raw # Absent BY <2>1 DEF DeadInv
    <3>2. To(d, "orphanCheck").pc = "orphanCheck" /\ To(d, "orphanCheck").raw = txn[d].raw
      BY ToCore DEF Steps, DiscoverySteps
    <3> QED
      BY <2>1, <2>3, <3>1, <3>2, DeadFrame
      DEF Goto, Judging, ClaimSteps, RecoverySteps
  <2> QED BY <1>12, <2>2, <2>3 DEF JudgeOrphan
<1>13. CASE CheckOrphan(d)
  <2>1. UNCHANGED files /\ txn[d].pc = "orphanCheck" BY <1>13 DEF CheckOrphan, Local, At
  <2>2. CASE Stop(d, "concurrent") \/ Stop(d, "ambiguous") BY <1>1, <1>2, <1>4, <2>1, <2>2, Led
  <2>3. CASE Goto(d, "orphanDelete") /\ files[Canonical] = txn[d].raw
    <3>1. txn[d].raw # Absent BY <2>1 DEF DeadInv
    <3>2. To(d, "orphanDelete").pc = "orphanDelete"
      BY ToCore DEF Steps, DiscoverySteps
    <3> QED
      BY <2>1, <2>3, <3>1, <3>2, DeadFrame
      DEF Goto, Judging, ClaimSteps, RecoverySteps
  <2> QED BY <1>13, <2>2, <2>3 DEF CheckOrphan
<1> QED BY <1>3, <1>5, <1>6, <1>7, <1>8, <1>9, <1>10, <1>11, <1>12, <1>13
        DEF Discover

LEMMA DeadRecover ==
  ASSUME IInv, IInv', DeadInv, NEW d \in Device, Recover(d)
  PROVE DeadInv'
<1> DEFINE Plainly == \E p \in PlainSteps : Leads(d, p)
           Same == \A n \in Name : files'[n] # Absent => files[n] # Absent \/ Brings(d, n)
<1>1. {"idle", "staleRead", txn[d].back} \subseteq PlainSteps
      /\ PlainSteps \subseteq Steps
  <2>1. txn[d].back \in {"ensure", "acquire"} BY DEF IInv, LocalState
  <2> QED BY <2>1 DEF PlainSteps, Steps, DiscoverySteps, Judging,
                      OwnerSteps, ClaimSteps, RecoverySteps
<1>2. ASSUME UNCHANGED files, Plainly PROVE DeadInv'
  BY <1>2, DeadPlain
<1>3. ASSUME txn[d].pc \in ClaimSteps, NEW p \in ClaimSteps, Goto(d, p), Same
      PROVE DeadInv'
  <2>1. p \in Steps /\ p \notin Judging \cup {"orphanDelete"}
    BY DEF ClaimSteps, RecoverySteps, Steps, Judging
  <2>2. /\ To(d, p).pc = p /\ To(d, p).target = txn[d].target
        /\ To(d, p).claim = txn[d].claim
    BY <2>1, ToState
  <2> QED BY <1>3, <2>1, <2>2, DeadFrame DEF Goto
<1>4. CASE LeaseEnded(d)
  <2>1. Plainly BY <1>1, <1>4, Led DEF LeaseEnded
  <2> QED BY <1>2, <1>4, <2>1 DEF LeaseEnded, Local
<1>5. CASE ReadStaleLock(d)
  <2>1. UNCHANGED files BY <1>5 DEF ReadStaleLock
  <2>2. CASE Stop(d, "failed") \/ Stop(d, "ambiguous")
             \/ Become(d, Observing(d, txn[d].target, txn[d].back))
    BY <1>1, <1>2, <2>1, <2>2, Led
  <2>3. ASSUME NEW c \in LockName \ used,
               Become(d, [To(d, "claimCheck") EXCEPT
                            !.raw = files[txn[d].target], !.claim = c,
                            !.dest = Canonical])
        PROVE DeadInv'
    <3> DEFINE s == To(d, "claimCheck")
               r == [s EXCEPT !.raw = files[txn[d].target], !.claim = c,
                              !.dest = Canonical]
    <3>1. s \in LocalState /\ s.pc = "claimCheck"
      BY ToState DEF Steps, RecoverySteps
    <3>2. Become(d, r) BY <2>3
    <3> HIDE DEF s
    <3>3. r.pc = "claimCheck" /\ r.claim = c BY <3>1 DEF LocalState
    <3>4. files[c] = Absent BY <2>3 DEF IInv, DiskInv, Locks
    <3> HIDE DEF r
    <3> QED BY <2>1, <3>2, <3>3, <3>4, DeadFrame DEF Judging
  <2> QED BY <1>5, <2>2, <2>3 DEF ReadStaleLock
<1>6. CASE CheckClaim(d)
  <2>1. UNCHANGED files /\ txn[d].pc = "claimCheck"
    BY <1>6 DEF CheckClaim, Local, At
  <2>2. CASE Goto(d, "claimMove")
    BY <1>3, <2>1, <2>2 DEF ClaimSteps, RecoverySteps
  <2>3. CASE Stop(d, "ambiguous")
             \/ Become(d, [Observing(d, txn[d].target, txn[d].back)
                             EXCEPT !.claim = Absent])
    BY <1>1, <1>2, <2>1, <2>3, Led
  <2> QED BY <1>6, <2>2, <2>3 DEF CheckClaim
<1>7. CASE MoveClaim(d)
  <2>1. txn[d].pc = "claimMove" BY <1>7 DEF MoveClaim, At
  <2>2. txn[d].target \in Name /\ txn[d].claim \in Name
    BY <2>1, OwnNames DEF ClaimSteps, RecoverySteps, TargetSteps, Name
  <2>3. /\ UNCHANGED files \/ Carried(txn[d].target, txn[d].claim)
        /\ Goto(d, "claimed") \/ Goto(d, "claimLost")
    BY <1>7, <2>2, MoveEffect DEF MoveClaim
  <2>4. Same BY <2>1, <2>2, <2>3 DEF Carried, CanMove, Brings
  <2> QED BY <1>3, <2>1, <2>3, <2>4 DEF ClaimSteps, RecoverySteps
<1>8. CASE ReadClaim(d)
  <2>1. UNCHANGED files /\ txn[d].pc \in {"claimed", "claimLost"}
    BY <1>8 DEF ReadClaim, Local
  <2>2. CASE Stop(d, "failed") \/ Stop(d, "ambiguous")
             \/ Become(d, [To(d, txn[d].back) EXCEPT !.claim = Absent])
    BY <1>1, <1>2, <2>1, <2>2, Led
  <2>3. ASSUME NEW w, NEW g,
               Become(d, [To(d, "landCheck") EXCEPT !.raw = w, !.dest = g])
        PROVE DeadInv'
    <3> DEFINE s == To(d, "landCheck")
               r == [s EXCEPT !.raw = w, !.dest = g]
    <3>1. /\ s \in LocalState /\ s.pc = "landCheck"
          /\ s.target = txn[d].target /\ s.claim = txn[d].claim
      BY ToState DEF Steps, RecoverySteps
    <3>2. Become(d, r) BY <2>3
    <3> HIDE DEF s
    <3>3. /\ r.pc = "landCheck" /\ r.target = txn[d].target
          /\ r.claim = txn[d].claim
      BY <3>1 DEF LocalState
    <3> HIDE DEF r
    <3> QED BY <2>1, <3>2, <3>3, DeadFrame DEF Judging, ClaimSteps, RecoverySteps
  <2> QED BY <1>8, <2>2, <2>3 DEF ReadClaim
<1>9. CASE CheckLanding(d)
  BY <1>3, <1>9 DEF CheckLanding, Local, At, ClaimSteps, RecoverySteps
<1>10. CASE MoveLanding(d)
  <2>1. txn[d].pc = "land" BY <1>10 DEF MoveLanding, At
  <2>2. /\ txn[d].claim \in Name /\ txn[d].dest \in Name
        /\ txn[d].dest \in {Canonical, txn[d].target}
    BY <2>1, RecoveryReady DEF ClaimSteps, RecoverySteps, TargetSteps, Name
  <2>3. /\ UNCHANGED files \/ Carried(txn[d].claim, txn[d].dest)
        /\ Goto(d, "landed")
    BY <1>10, <2>2, MoveEffect DEF MoveLanding
  <2>4. Same BY <2>1, <2>2, <2>3 DEF Carried, CanMove, Brings
  <2> QED BY <1>3, <2>1, <2>3, <2>4 DEF ClaimSteps, RecoverySteps
<1>11. CASE ConfirmLanding(d)
  <2>1. UNCHANGED files BY <1>11 DEF ConfirmLanding, Local
  <2>2. CASE Stop(d, "ambiguous")
             \/ Become(d, [Observing(d, txn[d].target, txn[d].back)
                             EXCEPT !.claim = Absent])
    BY <1>1, <1>2, <2>1, <2>2, Led
  <2> QED BY <1>11, <2>2 DEF ConfirmLanding
<1> QED BY <1>4, <1>5, <1>6, <1>7, <1>8, <1>9, <1>10, <1>11 DEF Recover

\* Everything the owner does concerns its own lock and the canonical name.
LEMMA DeadTransact ==
  ASSUME IInv, IInv', DeadInv, Hazards = {}, NEW d \in Device,
         Transact(d) \/ RollBack(d)
  PROVE DeadInv'
<1> DEFINE Plainly == \E p \in PlainSteps : Leads(d, p)
<1>1. {"idle", "list"} \cup OwnerSteps \subseteq PlainSteps
      /\ PlainSteps \subseteq Steps
  BY DEF PlainSteps, Steps, DiscoverySteps, Judging,
         OwnerSteps, ClaimSteps, RecoverySteps
<1>2. \A p \in OwnerSteps : Goto(d, p) => Plainly BY <1>1, Led
<1>3. \A o : Stop(d, o) => Plainly BY <1>1, Led
<1>4. ASSUME ProbeCanonical(d) \/ ProbeLock(d) PROVE Plainly
  <2>1. txn[d].pc \in OwnerSteps /\ txn[d] \in LocalState
    BY <1>4 DEF ProbeCanonical, ProbeLock, ProbeSteps, OwnerSteps, IInv
  <2>2. \A x : [txn[d] EXCEPT !.seenC = x].pc = txn[d].pc
               /\ [txn[d] EXCEPT !.seenL = x].pc = txn[d].pc
    BY <2>1 DEF LocalState
  <2>3. \E r : Become(d, r) /\ r.pc = txn[d].pc
    BY <1>4, <2>2 DEF ProbeCanonical, ProbeLock
  <2> QED BY <1>1, <2>1, <2>3 DEF Leads
<1>5. ASSUME JudgeAcquire(d) PROVE Plainly
  BY <1>1, <1>2, <1>3, <1>5, Led DEF JudgeAcquire, OwnerSteps
<1>6. ASSUME ReadLock(d) PROVE Plainly
  <2>1. ASSUME NEW p \in OwnerSteps, NEW o, NEW m,
               \/ Become(d, [To(d, p) EXCEPT !.orig = o, !.merged = m])
               \/ Become(d, [To(d, p) EXCEPT !.orig = o])
        PROVE Plainly
    <3> DEFINE s == To(d, p)
    <3>1. s \in LocalState /\ s.pc = p BY <1>1, ToState
    <3> HIDE DEF s
    <3>2. [s EXCEPT !.orig = o, !.merged = m].pc = p
          /\ [s EXCEPT !.orig = o].pc = p
      BY <3>1 DEF LocalState
    <3> QED BY <1>1, <2>1, <3>2 DEF Leads, s
  <2>2. {"fingerprint", "write", "rollback"} \subseteq OwnerSteps BY DEF OwnerSteps
  <2> HIDE DEF Plainly
  <2> QED BY <1>3, <1>6, <2>1, <2>2 DEF ReadLock
<1>7. ASSUME VerifyLock(d) \/ FingerprintLock(d) \/ Resolve(d)
               \/ Confirm(d) \/ Reconfirm(d) \/ Rollback(d)
               \/ VerifyRestored(d) \/ ConfirmRestored(d) \/ ReadRestored(d)
      PROVE Plainly
  <2>1. {"publish", "rollback", "retryMove", "reconfirm", "restore",
         "restoreMove", "restoredRead"} \subseteq OwnerSteps
    BY DEF OwnerSteps
  <2> HIDE DEF Plainly
  <2> QED BY <1>2, <1>3, <1>7, <2>1
          DEF VerifyLock, FingerprintLock, Resolve, Confirm, Reconfirm, Accept,
              Rollback, VerifyRestored, ConfirmRestored, ReadRestored
<1>8. CASE \/ ProbeCanonical(d) \/ ProbeLock(d) \/ JudgeAcquire(d) \/ ReadLock(d)
           \/ VerifyLock(d) \/ FingerprintLock(d) \/ Resolve(d)
           \/ Confirm(d) \/ Reconfirm(d) \/ Rollback(d)
           \/ VerifyRestored(d) \/ ConfirmRestored(d) \/ ReadRestored(d)
  <2>1. UNCHANGED files
    BY <1>8 DEF ProbeCanonical, ProbeLock, JudgeAcquire, ReadLock, VerifyLock,
       FingerprintLock, Resolve, Confirm, Reconfirm, Accept, Unaccepted,
       Rollback, VerifyRestored, ConfirmRestored, ReadRestored, Local
  <2> HIDE DEF Plainly
  <2>2. Plainly BY <1>4, <1>5, <1>6, <1>7, <1>8
  <2> QED BY <2>1, <2>2, DeadPlain DEF Plainly
<1>9. ASSUME NEW from \in {Canonical, txn[d].lock}, NEW to \in {Canonical, txn[d].lock},
             txn[d].lock \in LockName, NEW p \in OwnerSteps, NEW q \in OwnerSteps,
             ExclusiveMove(d, from, to, p, q)
      PROVE DeadInv'
  <2>1. from \in Name /\ to \in Name BY <1>9 DEF Name
  <2>2. /\ UNCHANGED files \/ Carried(from, to)
        /\ Goto(d, p) \/ Goto(d, q)
    BY <1>9, <2>1, MoveEffect
  <2>3. \A n \in Name : files'[n] # Absent => files[n] # Absent \/ Brings(d, n)
    BY <1>9, <2>2 DEF Carried, Brings
  <2> QED BY <1>2, <2>2, <2>3, DeadPlain
<1>10. ASSUME txn[d].lock \in LockName, NEW index, NEW p \in OwnerSteps,
              Overwrite(d, txn[d].lock, index, p)
       PROVE DeadInv'
  <2>1. txn[d].lock \in Name BY <1>10 DEF Name
  <2>2. /\ Goto(d, p)
        /\ \A n \in Name \ {txn[d].lock} : files'[n] = files[n]
    BY <1>10, <2>1, WriteEffect
  <2>3. \A n \in Name : files'[n] # Absent => files[n] # Absent \/ Brings(d, n)
    BY <2>2 DEF Brings
  <2> QED BY <1>2, <2>2, <2>3, DeadPlain
<1>11. CASE \/ Acquire(d) \/ Publish(d) \/ RetryMove(d) \/ RestoreMove(d)
            \/ WriteLock(d) \/ RestoreLock(d)
  <2>1. txn[d].pc \in OwnerSteps
    BY <1>11 DEF Acquire, Publish, RetryMove, RestoreMove, WriteLock,
                 RestoreLock, At, OwnerSteps
  <2>2. txn[d].lock \in LockName BY <2>1, OwnerReady
  <2>3. {"read", "acquireFailed", "confirm", "resolve", "restoreConfirm",
         "verify", "restoreVerify"} \subseteq OwnerSteps
    BY DEF OwnerSteps
  <2> QED BY <1>9, <1>10, <1>11, <2>2, <2>3
          DEF Acquire, Publish, RetryMove, RestoreMove, WriteLock, RestoreLock
<1> QED BY <1>8, <1>11 DEF Transact, RollBack

LEMMA DeadStep ==
  ASSUME IInv, IInv', DeadInv, Hazards = {}, [Next]_vars
  PROVE DeadInv'
<1>1. CASE UNCHANGED vars BY <1>1 DEF vars, DeadInv
<1>2. ASSUME NEW d \in Device, Edit(d) PROVE DeadInv'
  BY <1>2 DEF Edit, DeadInv
<1>3. ASSUME NEW d \in Device, StartCommit(d) \/ StartLoad(d) \/ Crash(d)
      PROVE DeadInv'
  <2>1. UNCHANGED files BY <1>3 DEF StartCommit, StartLoad, Crash, Local
  <2>2. \E p \in {"idle", "ensure"} : Leads(d, p)
    <3>1. \A n, v : /\ [Resting EXCEPT !.pc = "ensure", !.job = "commit",
                                       !.lock = n, !.observed = v].pc = "ensure"
                   /\ [Resting EXCEPT !.pc = "ensure", !.job = "load",
                                       !.observed = v].pc = "ensure"
      BY DEF Resting
    <3>2. Resting.pc = "idle" BY DEF Resting
    <3>3. CASE StartCommit(d)
      <4>1. PICK n :
              Become(d, [Resting EXCEPT !.pc = "ensure", !.job = "commit",
                                   !.lock = n, !.observed = txn[d].observed])
        BY <3>3 DEF StartCommit
      <4> DEFINE r == [Resting EXCEPT !.pc = "ensure", !.job = "commit",
                                   !.lock = n, !.observed = txn[d].observed]
      <4>2. Become(d, r) /\ r.pc = "ensure" BY <3>1, <4>1
      <4> HIDE DEF r
      <4> QED BY <4>2 DEF Leads
    <3>4. CASE StartLoad(d) BY <3>1, <3>4 DEF StartLoad, Leads
    <3>5. CASE Crash(d) BY <3>2, <3>5 DEF Crash, Leads
    <3> QED BY <1>3, <3>3, <3>4, <3>5
  <2>3. {"idle", "ensure"} \subseteq PlainSteps
    BY DEF PlainSteps, Steps, DiscoverySteps, Judging, ClaimSteps, RecoverySteps
  <2> QED BY <2>1, <2>2, <2>3, DeadPlain
<1>4. ~LateEffect BY DEF LateEffect, IInv, DiskInv
<1> QED BY <1>1, <1>2, <1>3, <1>4, DeadDiscover, DeadRecover, DeadTransact
        DEF Next, Step

-----------------------------------------------------------------------------
(* What one step does to the content. *)

\* Where the index under the name n comes from after a step of d.
Sourced(d, n, x) ==
  \/ \E m \in Name : files[m] = x
  \/ /\ txn[d].pc \in AfterRead /\ txn[d].orig = published
     /\ x \in {txn[d].orig, txn[d].merged}
  \/ x = SeedOf(d) /\ published = Absent /\ n = Canonical

Keeping(d) ==
  /\ \A e \in Device : e # d /\ txn[e].lock # Absent =>
       files'[txn[e].lock] = files[txn[e].lock]
  /\ \A n \in Name : files'[n] # Absent => Sourced(d, n, files'[n])
  /\ (\E n \in Name : files[n] # Absent) => \E n \in Name : files'[n] # Absent

\* The canonical index goes from one value of the register to the next.
Advances ==
  \/ published' = published
  \/ published = Absent /\ \E d \in Device : published' = SeedOf(d)
  \/ published # Absent /\ Extends(published', published)

\* Only what the canonical index contains is acknowledged.
Acknowledges ==
  \/ accepted' = accepted
  \/ /\ files' = files /\ published # Absent
     /\ \E S \in SUBSET published.ops : accepted' = accepted \cup S

StepOK == Advances /\ (accepted' = accepted \/ published' = published)
                   /\ (accepted' = accepted \/ Acknowledges)

LEMMA SourceFollows ==
  ASSUME CInv, NEW d \in Device, NEW n, NEW x, x # Absent, Sourced(d, n, x),
         published # Absent
  PROVE Follows(x, published)
<1>1. CASE \E m \in Name : files[m] = x BY <1>1 DEF CInv, TokenInv
<1>2. CASE txn[d].pc \in AfterRead /\ txn[d].orig = published
           /\ x \in {txn[d].orig, txn[d].merged}
  BY <1>2 DEF CInv, Content, Merging, Follows
<1> QED BY <1>1, <1>2 DEF Sourced

LEMMA PublishedStep ==
  ASSUME CInv, NEW d \in Device, RecordPublication, Keeping(d)
  PROVE /\ Advances
        /\ published # Absent =>
             published' # Absent /\ published.ops \subseteq published'.ops
        /\ files'[Canonical] # Absent => published' = files'[Canonical]
        /\ files'[Canonical] = Absent => published' = published
<1>1. CASE files'[Canonical] = Absent
  BY <1>1 DEF RecordPublication, Advances
<1>2. CASE files'[Canonical] # Absent
  <2>1. published' = files'[Canonical] BY <1>2 DEF RecordPublication
  <2>2. Sourced(d, Canonical, published') BY <1>2, <2>1 DEF Keeping, Name
  <2>3. CASE published # Absent
    <3>1. Follows(published', published) BY <1>2, <2>1, <2>2, <2>3, SourceFollows
    <3> QED BY <1>2, <2>1, <2>3, <3>1 DEF Follows, Extends, Advances
  <2>4. CASE published = Absent
    <3>1. \A m \in Name : files[m] = Absent BY <2>4 DEF CInv, TokenInv, Follows
    <3>2. ~(txn[d].pc \in AfterRead /\ txn[d].orig = published)
      BY <2>4 DEF CInv, Content, Merging
    <3>3. published' = SeedOf(d) BY <1>2, <2>1, <2>2, <3>1, <3>2 DEF Sourced
    <3> QED BY <1>2, <2>1, <2>4, <3>3 DEF Advances
  <2> QED BY <2>3, <2>4
<1> QED BY <1>1, <1>2

LEMMA TokenStep ==
  ASSUME IInv', CInv, NEW d \in Device, RecordPublication, Keeping(d)
  PROVE TokenInv'
<1>1. CASE files'[Canonical] # Absent
  <2>1. published' = files'[Canonical] BY <1>1, PublishedStep
  <2>2. \A n \in Name : files'[n] # Absent => n = Canonical
    BY <1>1 DEF IInv, OneAuthority, Name
  <2> QED BY <1>1, <2>1, <2>2 DEF TokenInv, Follows, Name
<1>2. CASE files'[Canonical] = Absent
  <2>1. published' = published BY <1>2, PublishedStep
  <2>2. ASSUME NEW n \in Name, files'[n] # Absent
        PROVE Follows(files'[n], published)
    <3>1. n # Canonical BY <1>2, <2>2
    <3>2. Sourced(d, n, files'[n]) BY <2>2 DEF Keeping
    <3>3. published # Absent
      <4>1. CASE \E m \in Name : files[m] = files'[n]
        BY <2>2, <4>1 DEF CInv, TokenInv, Follows
      <4>2. CASE txn[d].pc \in AfterRead /\ txn[d].orig = published
        BY <4>2 DEF CInv, Content, Merging
      <4> QED BY <3>1, <3>2, <4>1, <4>2 DEF Sourced
    <3> QED BY <2>2, <3>2, <3>3, SourceFollows
  <2>3. published # Absent => \E n \in Name : files'[n] # Absent
    BY DEF CInv, TokenInv, Keeping
  <2> QED BY <1>2, <2>1, <2>2, <2>3 DEF TokenInv
<1> QED BY <1>1, <1>2

\* What a rolled-back transaction wanted stays off the disk: whoever writes an
\* index adds mutations of his own to what is published.
LEMMA UndoneStep ==
  ASSUME IInv', CInv, NEW d \in Device, RecordPublication, Keeping(d),
         NEW e \in Device, e # d
  PROVE Undone(txn[e], files', published')
<1> DEFINE own == txn[e].merged.ops \ txn[e].orig.ops
<1>1. Undone(txn[e], files, published) /\ Merging(txn[e], pending[e])
  BY DEF CInv, Content
<1>2. SUFFICES ASSUME txn[e].result = "rolled-back", txn[e].merged # Absent
      PROVE /\ published' # Absent
            /\ own \cap published'.ops = {}
            /\ \A n \in Name : files'[n] # Absent => own \cap files'[n].ops = {}
  BY <1>1 DEF Undone
<1>3. /\ published # Absent /\ own \cap published.ops = {}
      /\ \A n \in Name : files[n] # Absent => own \cap files[n].ops = {}
  BY <1>1, <1>2 DEF Undone
<1>4. own \subseteq pending[e] BY <1>1, <1>2 DEF Merging
<1>5. own \cap pending[d] = {} BY <1>4 DEF CInv, ApartInv
<1> HIDE DEF own
<1>6. ASSUME NEW n \in Name, files'[n] # Absent
      PROVE own \cap files'[n].ops = {}
  <2>1. Sourced(d, n, files'[n]) BY <1>6 DEF Keeping
  <2>2. CASE \E m \in Name : files[m] = files'[n] BY <1>3, <1>6, <2>2
  <2>3. CASE /\ txn[d].pc \in AfterRead /\ txn[d].orig = published
             /\ files'[n] \in {txn[d].orig, txn[d].merged}
    <3>1. Merging(txn[d], pending[d]) BY DEF CInv, Content
    <3>2. CASE files'[n] = txn[d].orig BY <1>3, <2>3, <3>2
    <3>3. CASE files'[n] = txn[d].merged
      <4>1. files'[n].ops \subseteq published.ops \cup pending[d]
        BY <1>6, <2>3, <3>1, <3>3 DEF Merging
      <4> QED BY <1>3, <1>5, <4>1
    <3> QED BY <2>3, <3>2, <3>3
  <2> QED BY <1>3, <2>1, <2>2, <2>3 DEF Sourced
<1>7. published' # Absent BY <1>3, PublishedStep
<1>8. own \cap published'.ops = {}
  <2>1. CASE files'[Canonical] = Absent BY <1>3, <2>1, PublishedStep
  <2>2. CASE files'[Canonical] # Absent BY <1>6, <2>2, PublishedStep DEF Name
  <2> QED BY <2>1, <2>2
<1> QED BY <1>6, <1>7, <1>8

\* The locks stand empty while the index is at its place.
LEMMA HomeAlone ==
  ASSUME IInv', files'[Canonical] # Absent, NEW n \in LockName
  PROVE files'[n] = Absent
BY NamesAssumption DEF IInv, OneAuthority, Name

LEMMA OthersStep ==
  ASSUME IInv, IInv', CInv, NEW d \in Device, RecordPublication, Keeping(d),
         NEW e \in Device, e # d, NEW own, pending[e] \subseteq own
  PROVE Content(txn[e], own, files', published')
<1>1. Content(txn[e], pending[e], files, published) BY DEF CInv
<1>2. Merging(txn[e], own) BY <1>1 DEF Content, Merging
<1>3. Seen(txn[e], published') BY <1>1, PublishedStep DEF Content, Seen
<1>4. Holds(txn[e], files', published')
  <2>1. CASE txn[e].lock # Absent /\ files'[Canonical] # Absent
    <3>1. txn[e].lock \in LockName BY <2>1, OwnNames
    <3> QED BY <2>1, <3>1, HomeAlone DEF Holds
  <2>2. CASE txn[e].lock # Absent /\ files'[Canonical] = Absent
    BY <1>1, <2>2, PublishedStep DEF Keeping, Content, Holds
  <2> QED BY <2>1, <2>2 DEF Holds
<1> QED BY <1>2, <1>3, <1>4, UndoneStep DEF Content

LEMMA ContentFrame ==
  ASSUME IInv, IInv', CInv, RecordPublication, NEW d \in Device, NEW r,
         Become(d, r), Keeping(d), Acknowledges,
         \A e \in Device : e # d => pending'[e] = pending[e],
         pending'[d] \subseteq pending[d],
         Content(r, pending'[d], files', published')
  PROVE CInv' /\ StepOK
<1>1. txn'[d] = r /\ \A e \in Device : e # d => txn'[e] = txn[e]
  BY DEF Become, IInv
<1>2. TokenInv' BY TokenStep
<1>3. ApartInv' BY DEF CInv, ApartInv
<1>4. \A e \in Device : Content(txn'[e], pending'[e], files', published')
  <2>1. ASSUME NEW e \in Device, e # d
        PROVE Content(txn[e], pending'[e], files', published')
    BY <2>1, OthersStep
  <2> QED BY <1>1, <2>1
<1>5. files' = files => published' = published
  BY PublishedStep DEF CInv, TokenInv
<1>6. /\ Advances
      /\ published # Absent =>
             published' # Absent /\ published.ops \subseteq published'.ops
  BY PublishedStep
<1>7. AcknowledgedSurvive'
  <2>1. CASE accepted' = accepted
    BY <1>6, <2>1 DEF CInv, AcknowledgedSurvive
  <2>2. CASE accepted' # accepted
    BY <1>5, <2>2 DEF CInv, AcknowledgedSurvive, Acknowledges
  <2> QED BY <2>1, <2>2
<1>8. StepOK BY <1>5, <1>6 DEF StepOK, Acknowledges
<1> QED BY <1>2, <1>3, <1>4, <1>7, <1>8 DEF CInv

-----------------------------------------------------------------------------
(* Discovery and recovery keep the content. *)

LEMMA UnmovedDisk ==
  ASSUME CInv, RecordPublication, UNCHANGED files, NEW d \in Device
  PROVE Keeping(d) /\ published' = published
BY DEF Keeping, Sourced, RecordPublication, CInv, TokenInv

LEMMA SearchContent ==
  ASSUME CInv, NEW d \in Device, NEW r, NEW own, NEW disk, NEW pub,
         \/ Rests(r)
         \/ /\ Onward(d, r)
            /\ txn[d].lock # Absent /\ disk[txn[d].lock] # Absent
                 => disk[txn[d].lock] = pub
  PROVE Content(r, own, disk, pub)
<1>1. CASE Rests(r)
  <2>1. r.pc \notin AfterRead /\ r.pc # "write"
    BY <1>1 DEF Rests, AfterRead, OwnerSteps
  <2> QED BY <1>1, <2>1 DEF Rests, Content, Holds, Merging, Seen, Undone, Present
<1>2. CASE Onward(d, r)
  <2>1. Content(txn[d], pending[d], files, published) BY DEF CInv
  <2>2. r.result = "none" /\ r.merged = Absent /\ r.seenC = Unread
        /\ r.lock = txn[d].lock /\ r.pc \notin AfterRead
        /\ r.pc \notin Publishing /\ r.pc \notin Original /\ r.pc # "write"
    BY <1>2, <2>1 DEF Onward, Content, Merging, Undone, AfterRead, Publishing,
                      Original, OwnerSteps
  <2> QED BY <1>1, <1>2, <2>2
          DEF Content, Holds, Holding, Merging, Seen, Undone, Present, Rests
<1> QED BY <1>1, <1>2

\* Before the index is read, what is under the lock is what is published.
LEMMA HeldUnread ==
  ASSUME CInv, NEW d \in Device, NEW r, Onward(d, r), txn[d].lock # Absent,
         files[txn[d].lock] # Absent
  PROVE files[txn[d].lock] = published
BY DEF CInv, Content, Holds, Holding, Onward

LEMMA LookStep ==
  ASSUME IInv, IInv', CInv, RecordPublication, NEW d \in Device,
         \E r : Searches(d, r), UNCHANGED <<files, pending, accepted>>
  PROVE CInv' /\ StepOK
<1>1. PICK r : Searches(d, r) OBVIOUS
<1>2. Keeping(d) /\ published' = published BY UnmovedDisk
<1>3. Content(r, pending[d], files, published)
  BY <1>1, SearchContent, HeldUnread DEF Searches
<1> QED BY <1>1, <1>2, <1>3, ContentFrame DEF Searches, Acknowledges

LEMMA StartStep ==
  ASSUME IInv, IInv', CInv, RecordPublication, NEW d \in Device,
         StartCommit(d) \/ StartLoad(d) \/ Crash(d)
  PROVE CInv' /\ StepOK
<1>1. UNCHANGED <<files, pending, accepted>>
  BY DEF StartCommit, StartLoad, Crash, Local, Keep
<1>2. CASE Crash(d)
  <2>1. Searches(d, Resting) BY <1>2 DEF Crash, Searches, Rests, Resting
  <2> QED BY <1>1, <2>1, LookStep
<1>3. ASSUME NEW r, Become(d, r), r.pc = "ensure", r.merged = Absent,
             r.seenC = Unread, r.result = "none",
             r.lock = Absent \/ files[r.lock] = Absent
      PROVE CInv' /\ StepOK
  <2>1. Content(r, pending[d], files, published)
    BY <1>3 DEF Content, Holds, Merging, Seen, Undone, Present, AfterRead, OwnerSteps
  <2>2. Keeping(d) /\ published' = published BY <1>1, UnmovedDisk
  <2> QED BY <1>1, <1>3, <2>1, <2>2, ContentFrame DEF Acknowledges
<1>4. CASE StartCommit(d)
  <2>1. PICK n \in LockName \ used :
          Become(d, [Resting EXCEPT !.pc = "ensure", !.job = "commit",
                                    !.lock = n, !.observed = txn[d].observed])
    BY <1>4 DEF StartCommit
  <2> DEFINE r == [Resting EXCEPT !.pc = "ensure", !.job = "commit",
                                  !.lock = n, !.observed = txn[d].observed]
  <2>2. /\ r.pc = "ensure" /\ r.merged = Absent /\ r.seenC = Unread
        /\ r.result = "none" /\ r.lock = n
    BY DEF Resting
  <2>3. Become(d, r) BY <2>1
  <2>4. files[n] = Absent BY <2>1 DEF IInv, DiskInv, Locks
  <2> HIDE DEF r
  <2> QED BY <1>3, <2>2, <2>3, <2>4
<1>5. CASE StartLoad(d)
  <2> DEFINE r == [Resting EXCEPT !.pc = "ensure", !.job = "load",
                                  !.observed = txn[d].observed]
  <2>1. /\ r.pc = "ensure" /\ r.merged = Absent /\ r.seenC = Unread
        /\ r.result = "none" /\ r.lock = Absent
    BY DEF Resting
  <2>2. Become(d, r) BY <1>5 DEF StartLoad
  <2> HIDE DEF r
  <2> QED BY <1>3, <2>1, <2>2
<1> QED BY <1>2, <1>4, <1>5

LEMMA EditStep ==
  ASSUME IInv, IInv', PendingOK, CInv, RecordPublication, NEW d \in Device, Edit(d)
  PROVE CInv' /\ StepOK
<1>1. PICK o \in Op : /\ \A e \in Device : o \notin pending[e]
                      /\ pending' = [pending EXCEPT ![d] = @ \cup {o}]
  BY DEF Edit
<1>2. UNCHANGED <<files, txn, accepted>> BY DEF Edit
<1>3. published' = published BY <1>2, UnmovedDisk
<1>4. \A e \in Device : pending[e] \subseteq pending'[e]
                        /\ (e # d => pending'[e] = pending[e])
      /\ pending'[d] = pending[d] \cup {o}
  BY <1>1 DEF PendingOK
<1>5. ApartInv' BY <1>1, <1>4 DEF CInv, ApartInv
<1>6. TokenInv' /\ AcknowledgedSurvive'
  BY <1>2, <1>3 DEF CInv, TokenInv, AcknowledgedSurvive
<1>7. ASSUME NEW e \in Device
      PROVE Content(txn[e], pending'[e], files, published)
  BY <1>4 DEF CInv, Content, Merging
<1>8. \A e \in Device : Content(txn'[e], pending'[e], files', published')
  BY <1>2, <1>3, <1>7
<1> QED BY <1>2, <1>3, <1>5, <1>6, <1>8 DEF CInv, StepOK, Advances

\* A request of discovery or recovery that carries the index somewhere else.
LEMMA CarryStep ==
  ASSUME IInv, IInv', CInv, RecordPublication, NEW d \in Device,
         NEW from \in Name, NEW to \in Name,
         UNCHANGED files \/ Carried(from, to), UNCHANGED <<pending, accepted>>,
         \A e \in Device : e # d /\ txn[e].lock # Absent
                             => txn[e].lock \notin {from, to},
         txn[d].lock = to => from = Canonical,
         \E p \in SearchPoints \cup {"read"} : Goto(d, p), txn[d].pc \in SearchPoints
  PROVE CInv' /\ StepOK
<1>1. PICK p \in SearchPoints \cup {"read"} : Goto(d, p) OBVIOUS
<1>2. Searches(d, To(d, p))
  <2>1. "read" \in Steps /\ "read" \notin AfterRead \cup {"idle"}
    BY DEF AfterRead, OwnerSteps, Steps
  <2> QED BY <1>1, <2>1, PointsOutside, GoOnward
<1>3. CASE UNCHANGED files BY <1>2, <1>3, LookStep
<1>4. CASE Carried(from, to)
  <2>1. Keeping(d)
    <3>1. \A e \in Device : e # d /\ txn[e].lock # Absent =>
            files'[txn[e].lock] = files[txn[e].lock]
      BY <1>4, OwnNames DEF Carried, Name
    <3>2. \A n \in Name : files'[n] # Absent =>
            files'[n] \in {files[from], files[n]}
      BY <1>4 DEF Carried
    <3>3. files'[to] # Absent BY <1>4 DEF Carried, CanMove
    <3> QED BY <3>1, <3>2, <3>3 DEF Keeping, Sourced
  <2>2. ASSUME Onward(d, To(d, p)), txn[d].lock # Absent,
               files'[txn[d].lock] # Absent
        PROVE files'[txn[d].lock] = published'
    <3>1. txn[d].lock \in LockName /\ txn[d].lock \in Name
      BY <2>2, OwnNames DEF Name
    <3>2. files'[Canonical] = Absent BY <2>2, <3>1, HomeAlone
    <3>3. published' = published BY <2>1, <3>2, PublishedStep
    <3>4. CASE txn[d].lock = to
      BY <1>4, <3>3, <3>4 DEF Carried, CanMove, CInv, TokenInv
    <3>5. CASE txn[d].lock # to
      <4>1. files'[txn[d].lock] = files[txn[d].lock]
        BY <1>4, <2>2, <3>1, <3>5 DEF Carried
      <4> QED BY <2>2, <3>3, <4>1, HeldUnread
    <3> QED BY <3>4, <3>5
  <2>3. Content(To(d, p), pending[d], files', published')
    <3>1. \/ Rests(To(d, p))
          \/ /\ Onward(d, To(d, p))
             /\ txn[d].lock # Absent /\ files'[txn[d].lock] # Absent
                  => files'[txn[d].lock] = published'
      BY <1>2, <2>2 DEF Searches
    <3> QED BY <3>1, SearchContent
  <2> QED BY <1>1, <2>1, <2>3, ContentFrame DEF Goto, Acknowledges
<1> QED BY <1>3, <1>4

LEMMA SeedContent ==
  ASSUME IInv, IInv', CInv, RecordPublication, Hazards = {}, NEW d \in Device, Seed(d)
  PROVE CInv' /\ StepOK
<1>1. UNCHANGED <<pending, accepted>> BY DEF Seed, Keep
<1>2. At(d, "list") /\ Locks = {} BY DEF Seed, IInv, LocalInv, At
<1>3. files \in [Name -> MaybeIndex] BY DEF IInv, DiskInv
<1>4. \E r : Searches(d, r)
  <2>1. "list" \in SearchPoints BY DEF SearchPoints, DiscoverySteps
  <2>2. CASE Goto(d, Discovered(d))
    BY <1>2, <2>1, <2>2, PointsOutside, BackOutside, GoOnward DEF At
  <2>3. CASE Stop(d, "failed") BY <2>3, StopRests
  <2> QED BY <2>2, <2>3 DEF Seed
<1>5. CASE UNCHANGED files BY <1>1, <1>4, <1>5, LookStep
<1>6. CASE files' # files
  <2>1. /\ files' = [files EXCEPT ![Canonical] = SeedOf(d)]
        /\ files[Canonical] = Absent
    BY <1>6 DEF Seed
  <2>2. \A n \in Name : files[n] = Absent BY <1>2, <2>1 DEF Locks, Name
  <2>3. published = Absent BY <2>2 DEF CInv, TokenInv
  <2>4. /\ files'[Canonical] = SeedOf(d) /\ Canonical \in Name
        /\ \A n \in Name \ {Canonical} : files'[n] = Absent /\ files[n] = Absent
    BY <1>3, <2>1, <2>2 DEF Name
  <2>5. SeedOf(d) # Absent
    <3>1. SeedOf(d) \in Index BY DEF SeedOf, Index
    <3> QED BY <3>1, MarkersAreNoIndex
  <2>6. Keeping(d)
    <3>1. \A e \in Device : txn[e].lock # Absent =>
            files'[txn[e].lock] = files[txn[e].lock]
      BY <2>4, OwnNames DEF Name
    <3> QED BY <2>3, <2>4, <2>5, <3>1 DEF Keeping, Sourced
  <2>7. \A n \in LockName : files'[n] = Absent BY <2>4, <2>5, HomeAlone
  <2>8. PICK r : Searches(d, r) BY <1>4
  <2>9. Content(r, pending[d], files', published')
    BY <2>7, <2>8, OwnNames, SearchContent DEF Searches
  <2> QED BY <1>1, <2>6, <2>8, <2>9, ContentFrame DEF Searches, Acknowledges
<1> QED BY <1>5, <1>6

\* The lock whose deletion was decided is gone already.
LEMMA DeleteContent ==
  ASSUME IInv, IInv', DeadInv, CInv, RecordPublication, NEW d \in Device, DeleteOrphan(d)
  PROVE CInv' /\ StepOK
<1>1. UNCHANGED <<pending, accepted>> /\ txn[d].pc = "orphanDelete"
  BY DEF DeleteOrphan, Keep, At
<1>2. files \in [Name -> MaybeIndex] BY DEF IInv, DiskInv
<1>3. files[txn[d].target] = Absent BY <1>1 DEF DeadInv
<1>4. files' = files BY <1>2, <1>3 DEF DeleteOrphan
<1>5. "orphanDelete" \in SearchPoints BY DEF SearchPoints, DiscoverySteps
<1>6. CASE Stop(d, "failed") BY <1>1, <1>4, <1>6, StopRests, LookStep
<1>7. ASSUME NEW v, Become(d, [To(d, Discovered(d)) EXCEPT !.observed = v])
      PROVE CInv' /\ StepOK
  <2> DEFINE s == To(d, Discovered(d))
             r == [s EXCEPT !.observed = v]
  <2>1. s \in LocalState BY BackOutside, ToCore
  <2>2. Become(d, r) BY <1>7
  <2> HIDE DEF s
  <2>3. /\ r.pc = s.pc /\ r.seenC = s.seenC /\ r.lock = s.lock
        /\ r.result = s.result /\ r.merged = s.merged
    BY <2>1 DEF LocalState
  <2> HIDE DEF r
  <2>4. {Discovered(d), txn[d].pc} \cap (AfterRead \cup {"idle"}) = {}
        /\ Discovered(d) \in Steps
    BY <1>1, <1>5, BackOutside, PointsOutside
  <2>5. Searches(d, r) BY <2>2, <2>3, <2>4, NoteOnward DEF s
  <2> QED BY <1>1, <1>4, <2>5, LookStep
<1> QED BY <1>6, <1>7 DEF DeleteOrphan

\* The operation ends with mutations acknowledged that the index contains.
LEMMA AcknowledgeStep ==
  ASSUME IInv, IInv', PendingOK, CInv, RecordPublication, NEW d \in Device,
         NEW index, Acknowledge(d, index), UNCHANGED files, published # Absent,
         index.ops \subseteq published.ops, NEW o, o # "rolled-back", Stop(d, o)
  PROVE CInv' /\ StepOK
<1>1. /\ pending'[d] \subseteq pending[d]
      /\ \A e \in Device : e # d => pending'[e] = pending[e]
  BY DEF Acknowledge, PendingOK
<1>2. Acknowledges
  <2>1. (pending[d] \cap index.ops) \in SUBSET published.ops OBVIOUS
  <2> QED BY <2>1 DEF Acknowledges, Acknowledge
<1>3. Keeping(d) /\ published' = published BY UnmovedDisk
<1>4. Become(d, Stopped(d, o)) /\ Rests(Stopped(d, o))
  BY StopRests DEF Searches, Rests, Stop, Stopped, Resting
<1>5. Content(Stopped(d, o), pending'[d], files', published')
  BY <1>4, SearchContent
<1> QED BY <1>1, <1>2, <1>3, <1>4, <1>5, ContentFrame

LEMMA DiscoverContent ==
  ASSUME IInv, IInv', PendingOK, DeadInv, CInv, RecordPublication, Hazards = {},
         NEW d \in Device, Discover(d)
  PROVE CInv' /\ StepOK
<1>1. CASE \/ Ensure(d) \/ NothingToRecover(d) \/ ManyLocks(d) \/ RequestFails(d)
           \/ WaitForLease(d) \/ GiveUpWaiting(d) \/ ListOrphans(d)
           \/ ReadCanonicalForOrphan(d) \/ JudgeOrphan(d) \/ CheckOrphan(d)
  BY <1>1, DiscoverLooks, LookStep
<1>2. CASE Load(d)
  <2>1. CASE files[Canonical] # Absent
    <3>1. /\ Acknowledge(d, files[Canonical]) /\ Stop(d, "loaded")
          /\ UNCHANGED files
      BY <1>2, <2>1 DEF Load
    <3>2. files[Canonical] = published BY <2>1 DEF CInv, TokenInv
    <3> QED BY <2>1, <3>1, <3>2, AcknowledgeStep
  <2>2. CASE files[Canonical] = Absent
    BY <1>2, <2>2, StopRests, LookStep DEF Load
  <2> QED BY <2>1, <2>2
<1>3. ~DecideToSeed(d) BY DEF DecideToSeed
<1> QED BY <1>1, <1>2, <1>3, SeedContent, DeleteContent DEF Discover

LEMMA RecoverContent ==
  ASSUME IInv, IInv', CInv, RecordPublication, NEW d \in Device, Recover(d)
  PROVE CInv' /\ StepOK
<1>1. CASE \/ LeaseEnded(d) \/ ReadStaleLock(d) \/ CheckClaim(d) \/ ReadClaim(d)
           \/ CheckLanding(d) \/ ConfirmLanding(d)
  BY <1>1, RecoverLooks, LookStep
<1>2. CASE MoveClaim(d) \/ MoveLanding(d)
  <2>1. txn[d].pc \in ClaimSteps
    BY <1>2 DEF MoveClaim, MoveLanding, At, ClaimSteps, RecoverySteps
  <2>2. ClaimSteps \subseteq SearchPoints /\ ClaimSteps \subseteq TargetSteps
        /\ {"claimed", "claimLost", "landed"} \subseteq ClaimSteps
    BY DEF ClaimSteps, RecoverySteps, SearchPoints, TargetSteps
  <2>3. /\ txn[d].target \in LockName /\ txn[d].claim \in LockName
        /\ txn[d].dest \in {Canonical, txn[d].target}
        /\ \A e \in Device : txn[e].lock # txn[d].target /\ txn[e].lock # Canonical
        /\ \A e \in Device : e # d => txn[e].lock # txn[d].claim
        /\ txn[d].lock # txn[d].claim
    BY <2>1, <2>2, RecoveryReady, OwnNames, MarkersAssumption
  <2>4. CASE MoveClaim(d)
    <3>1. /\ UNCHANGED files \/ Carried(txn[d].target, txn[d].claim)
          /\ UNCHANGED <<pending, accepted>>
          /\ \E p \in SearchPoints : Goto(d, p)
      BY <2>2, <2>3, <2>4, MoveEffect DEF MoveClaim, Name
    <3> QED BY <2>1, <2>2, <2>3, <3>1, CarryStep DEF Name
  <2>5. CASE MoveLanding(d)
    <3>1. /\ UNCHANGED files \/ Carried(txn[d].claim, txn[d].dest)
          /\ UNCHANGED <<pending, accepted>>
          /\ \E p \in SearchPoints : Goto(d, p)
      BY <2>2, <2>3, <2>5, MoveEffect DEF MoveLanding, Name
    <3> QED BY <2>1, <2>2, <2>3, <3>1, CarryStep DEF Name
  <2> QED BY <1>2, <2>4, <2>5
<1> QED BY <1>1, <1>2 DEF Recover

-----------------------------------------------------------------------------
(* The transaction and its rollback keep the content. *)

\* What the owner knows after it has read the index under its lock.
LEMMA OwnerContent ==
  ASSUME IInv, CInv, NEW d \in Device, NEW p \in AfterRead \ {"write"},
         txn[d].pc \in AfterRead, NEW disk, NEW pub,
         disk[txn[d].lock] # Absent =>
           /\ txn[d].orig = pub
           /\ disk[txn[d].lock] \in {txn[d].orig, txn[d].merged}
           /\ p \in Publishing => disk[txn[d].lock] = txn[d].merged
           /\ p \in Original => disk[txn[d].lock] = txn[d].orig
  PROVE Content(To(d, p), pending[d], disk, pub)
<1>1. Content(txn[d], pending[d], files, published) BY DEF CInv
<1>2. p \in Steps /\ txn[d].pc # "idle" /\ p # "idle"
  BY DEF AfterRead, OwnerSteps, Steps
<1>3. /\ To(d, p).pc = p /\ To(d, p).seenC = Unread
      /\ To(d, p).lock = txn[d].lock /\ To(d, p).result = "none"
      /\ To(d, p).orig = txn[d].orig /\ To(d, p).merged = txn[d].merged
  BY <1>1, <1>2, ToCore DEF Content, Undone
<1> HIDE DEF To
<1>4. Merging(To(d, p), pending[d])
  BY <1>1, <1>2, <1>3 DEF Content, Merging
<1>5. Holds(To(d, p), disk, pub) BY <1>3 DEF Holds, Holding
<1> QED BY <1>2, <1>3, <1>4, <1>5 DEF Content, Seen, Undone, Present

\* The owner decides, with the disk as it is.
LEMMA DecideStep ==
  ASSUME IInv, IInv', CInv, RecordPublication, NEW d \in Device,
         NEW p \in AfterRead \ {"write"}, txn[d].pc \in AfterRead, Goto(d, p),
         UNCHANGED <<files, pending, accepted>>,
         files[txn[d].lock] # Absent =>
           /\ p \in Publishing => files[txn[d].lock] = txn[d].merged
           /\ p \in Original => files[txn[d].lock] = txn[d].orig
  PROVE CInv' /\ StepOK
<1>1. Keeping(d) /\ published' = published BY UnmovedDisk
<1>2. txn[d].lock # Absent
  BY OwnNames DEF AfterRead
<1>3. files[txn[d].lock] # Absent =>
           /\ txn[d].orig = published
           /\ files[txn[d].lock] \in {txn[d].orig, txn[d].merged}
  BY <1>2 DEF CInv, Content, Holds, Holding
<1>4. Content(To(d, p), pending[d], files, published)
  BY <1>3, OwnerContent
<1> QED BY <1>1, <1>4, ContentFrame DEF Goto, Acknowledges

\* What the owner still knows on its way to step p.
LEMMA Still ==
  ASSUME CInv, NEW d \in Device, txn[d].lock # Absent,
         files[txn[d].lock] # Absent
  PROVE /\ txn[d].pc \in Publishing => files[txn[d].lock] = txn[d].merged
        /\ txn[d].pc \in Original => files[txn[d].lock] = txn[d].orig
BY DEF CInv, Content, Holds, Holding

LEMMA AcceptContent ==
  ASSUME IInv, IInv', PendingOK, CInv, RecordPublication, NEW d \in Device,
         Committed(d), Accept(d)
  PROVE CInv' /\ StepOK
<1>1. published # Absent /\ txn[d].merged.ops \subseteq published.ops
  BY DEF Committed, CInv, Content, Seen
<1> QED BY <1>1, AcknowledgeStep DEF Accept

LEMMA StopContent ==
  ASSUME IInv, IInv', CInv, RecordPublication, NEW d \in Device,
         NEW o, o # "rolled-back", Stop(d, o), UNCHANGED <<files, pending, accepted>>
  PROVE CInv' /\ StepOK
BY StopRests, LookStep

LEMMA DecisionContent ==
  ASSUME IInv, IInv', PendingOK, CInv, RecordPublication, NEW d \in Device,
         \/ VerifyLock(d) \/ FingerprintLock(d) \/ Resolve(d) \/ Confirm(d)
         \/ Reconfirm(d) \/ Rollback(d) \/ VerifyRestored(d)
         \/ ConfirmRestored(d)
  PROVE CInv' /\ StepOK
<1>1. CASE Committed(d) /\ Accept(d) BY <1>1, AcceptContent
<1>2. CASE ~(Committed(d) /\ Accept(d))
  <2>1. UNCHANGED <<files, pending, accepted>>
    BY <1>2 DEF VerifyLock, FingerprintLock, Resolve, Confirm, Reconfirm,
                Rollback, VerifyRestored, ConfirmRestored, Unaccepted, Local, Keep
  <2>2. txn[d].pc \in AfterRead /\ txn[d].lock # Absent
    <3>1. txn[d].pc \in AfterRead
      BY DEF VerifyLock, FingerprintLock, Resolve, Confirm, Reconfirm, Rollback,
             VerifyRestored, ConfirmRestored, Probed, At, AfterRead, OwnerSteps
    <3> QED BY <3>1, OwnNames DEF AfterRead
  <2>3. {"publish", "rollback", "retryMove", "reconfirm", "restore",
         "restoreMove", "restoredRead"} \subseteq AfterRead
        /\ {"rollback", "restore", "restoredRead"} \cap (Publishing \cup Original) = {}
        /\ {"fingerprint", "resolve", "confirm", "publish", "retryMove", "reconfirm"}
             \subseteq Publishing \ Original
        /\ "restoreMove" \notin Publishing
    BY DEF AfterRead, OwnerSteps, Publishing, Original
  <2>4. ASSUME NEW p \in {"rollback", "restore", "restoredRead"}, Goto(d, p)
        PROVE CInv' /\ StepOK
    BY <2>1, <2>2, <2>3, <2>4, DecideStep
  <2>5. ASSUME NEW p \in {"publish", "retryMove", "reconfirm"}, Goto(d, p),
               files[txn[d].lock] # Absent => files[txn[d].lock] = txn[d].merged
        PROVE CInv' /\ StepOK
    BY <2>1, <2>2, <2>3, <2>5, DecideStep
  <2>6. CASE VerifyLock(d) BY <2>4, <2>5, <2>6 DEF VerifyLock
  <2>7. CASE FingerprintLock(d) \/ Resolve(d) \/ Confirm(d) \/ Reconfirm(d)
    <3>1. txn[d].pc \in Publishing
      BY <2>7, <2>3 DEF FingerprintLock, Resolve, Confirm, Reconfirm, Probed, At
    <3>2. files[txn[d].lock] # Absent => files[txn[d].lock] = txn[d].merged
      BY <2>2, <3>1, Still
    <3> QED BY <1>2, <2>4, <2>5, <2>7, <3>2
            DEF FingerprintLock, Resolve, Confirm, Reconfirm
  <2>8. CASE Rollback(d) \/ ConfirmRestored(d)
    BY <2>1, <2>4, <2>8, StopContent DEF Rollback, ConfirmRestored
  <2>9. CASE VerifyRestored(d)
    <3>1. CASE Goto(d, "restoreMove") /\ files[txn[d].lock] = txn[d].orig
      BY <2>1, <2>2, <2>3, <3>1, DecideStep
    <3> QED BY <2>1, <2>9, <3>1, StopContent DEF VerifyRestored
  <2> QED BY <2>6, <2>7, <2>8, <2>9
<1> QED BY <1>1, <1>2

\* An exact rollback: the canonical index is what the transaction had read.
LEMMA RestoredContent ==
  ASSUME IInv, IInv', CInv, RecordPublication, NEW d \in Device, ReadRestored(d)
  PROVE CInv' /\ StepOK
<1>1. UNCHANGED <<files, pending, accepted>> /\ txn[d].pc = "restoredRead"
  BY DEF ReadRestored, Local, Keep, At
<1>2. CASE \E o \in {"ambiguous", "concurrent"} : Stop(d, o)
  BY <1>1, <1>2, StopContent
<1>3. CASE /\ files[Canonical] # Absent /\ files[Canonical] = txn[d].orig
           /\ Stop(d, "rolled-back")
  <2> DEFINE r == Stopped(d, "rolled-back")
  <2>1. /\ r.pc = "idle" /\ r.lock = Absent /\ r.seenC = Unread
        /\ r.orig = txn[d].orig /\ r.merged = txn[d].merged
    BY DEF Stopped, Resting
  <2>2. Merging(txn[d], pending[d]) BY DEF CInv, Content
  <2>3. "restoredRead" \in AfterRead /\ "idle" \notin AfterRead
    BY DEF AfterRead, OwnerSteps
  <2>4. published = txn[d].orig /\ published # Absent
    BY <1>3 DEF CInv, TokenInv
  <2>5. \A n \in Name : files[n] # Absent => files[n] = published
    BY <1>3, <2>4, CanonicalAlone DEF Name
  <2>6. Keeping(d) /\ published' = published BY <1>1, UnmovedDisk
  <2>7. Become(d, r) BY <1>3 DEF Stop
  <2> HIDE DEF r
  <2>8. Merging(r, pending[d]) BY <1>1, <2>1, <2>2, <2>3 DEF Merging
  <2>9. Undone(r, files, published) BY <2>1, <2>4, <2>5 DEF Undone
  <2>10. Content(r, pending[d], files, published)
    BY <2>1, <2>8, <2>9 DEF Content, Holds, Seen, Present
  <2> QED BY <1>1, <2>6, <2>7, <2>10, ContentFrame DEF Acknowledges
<1> QED BY <1>2, <1>3 DEF ReadRestored, RestoredOutcome

LEMMA ProbeContent ==
  ASSUME IInv, IInv', CInv, RecordPublication, NEW d \in Device,
         ProbeCanonical(d) \/ ProbeLock(d)
  PROVE CInv' /\ StepOK
<1>1. UNCHANGED <<files, pending, accepted>>
  BY DEF ProbeCanonical, ProbeLock, Local, Keep
<1>2. Keeping(d) /\ published' = published BY <1>1, UnmovedDisk
<1>3. txn[d] \in LocalState BY DEF IInv
<1>4. Content(txn[d], pending[d], files, published) BY DEF CInv
<1>5. ASSUME NEW r, Become(d, r), Present(r.seenC) => r.seenC = txn[d].seenC
                                                     \/ r.seenC = published,
             Present(r.seenC) => published # Absent,
             /\ r.pc = txn[d].pc /\ r.lock = txn[d].lock /\ r.orig = txn[d].orig
             /\ r.merged = txn[d].merged /\ r.result = txn[d].result
      PROVE CInv' /\ StepOK
  <2>1. Content(r, pending[d], files, published)
    BY <1>4, <1>5 DEF Content, Holds, Holding, Merging, Seen, Undone
  <2> QED BY <1>1, <1>2, <1>5, <2>1, ContentFrame DEF Acknowledges
<1>6. ASSUME NEW x \in {files[Canonical], Unreadable},
             Become(d, [txn[d] EXCEPT !.seenC = x])
      PROVE CInv' /\ StepOK
  <2>1. PICK r : Become(d, r) /\ r = [txn[d] EXCEPT !.seenC = x] BY <1>6
  <2>2. /\ r.pc = txn[d].pc /\ r.lock = txn[d].lock /\ r.orig = txn[d].orig
        /\ r.merged = txn[d].merged /\ r.result = txn[d].result /\ r.seenC = x
    BY <1>3, <2>1 DEF LocalState
  <2>3. Present(x) => x = published /\ published # Absent
    BY DEF Present, CInv, TokenInv
  <2> QED BY <1>5, <2>1, <2>2, <2>3
<1>7. ASSUME NEW x, Become(d, [txn[d] EXCEPT !.seenL = x])
      PROVE CInv' /\ StepOK
  <2>1. PICK r : Become(d, r) /\ r = [txn[d] EXCEPT !.seenL = x] BY <1>7
  <2>2. /\ r.pc = txn[d].pc /\ r.lock = txn[d].lock /\ r.orig = txn[d].orig
        /\ r.merged = txn[d].merged /\ r.result = txn[d].result
        /\ r.seenC = txn[d].seenC
    BY <1>3, <2>1 DEF LocalState
  <2>3. Present(r.seenC) => published # Absent BY <1>4, <2>2 DEF Content, Seen
  <2> QED BY <1>5, <2>1, <2>2, <2>3
<1> QED BY <1>6, <1>7 DEF ProbeCanonical, ProbeLock

\* The request that carries the index from the lock to its place.
LEMMA ReturnContent ==
  ASSUME IInv, IInv', CInv, RecordPublication, NEW d \in Device,
         Publish(d) \/ RetryMove(d) \/ RestoreMove(d)
  PROVE CInv' /\ StepOK
<1> DEFINE n == txn[d].lock
<1>1. /\ txn[d].pc \in AfterRead
      /\ {"confirm", "resolve", "restoreConfirm"} \subseteq AfterRead
      /\ {"publish", "retryMove", "confirm", "resolve"} \subseteq Publishing \ Original
      /\ {"restoreMove", "restoreConfirm"} \subseteq Original \ Publishing
  BY DEF Publish, RetryMove, RestoreMove, At, AfterRead, OwnerSteps,
         Publishing, Original
<1>2. /\ n # Absent /\ n \in LockName /\ Canonical \in Name /\ n \in Name
  BY <1>1, OwnNames DEF AfterRead, Name
<1>3. PICK p \in {"confirm", "resolve", "restoreConfirm"} :
        /\ UNCHANGED files \/ Carried(n, Canonical)
        /\ Goto(d, p)
        /\ UNCHANGED <<pending, accepted>>
        /\ \/ txn[d].pc \in {"publish", "retryMove"} /\ p \in {"confirm", "resolve"}
           \/ txn[d].pc = "restoreMove" /\ p = "restoreConfirm"
  BY <1>2, MoveEffect DEF Publish, RetryMove, RestoreMove, At
<1>4. CASE UNCHANGED files
  <2>1. files[n] # Absent =>
           /\ p \in Publishing => files[n] = txn[d].merged
           /\ p \in Original => files[n] = txn[d].orig
    BY <1>1, <1>2, <1>3, Still
  <2> QED BY <1>1, <1>3, <1>4, <2>1, DecideStep
<1>5. CASE Carried(n, Canonical)
  <2>1. Keeping(d)
    <3>1. \A e \in Device : e # d /\ txn[e].lock # Absent =>
            files'[txn[e].lock] = files[txn[e].lock]
      BY <1>2, <1>5, OwnNames DEF Carried, Name
    <3>2. \A m \in Name : files'[m] # Absent =>
            files'[m] \in {files[n], files[m]}
      BY <1>5 DEF Carried
    <3>3. files'[Canonical] # Absent BY <1>5 DEF Carried, CanMove
    <3> QED BY <1>2, <3>1, <3>2, <3>3 DEF Keeping, Sourced
  <2>2. files'[n] = Absent BY <1>5 DEF Carried
  <2>3. Content(To(d, p), pending[d], files', published')
    BY <1>1, <1>3, <2>2, OwnerContent
  <2> QED BY <1>3, <2>1, <2>3, ContentFrame DEF Goto, Acknowledges
<1> QED BY <1>3, <1>4, <1>5

\* The owner overwrites its lock with the merge, or with what it had read.
LEMMA WriteContent ==
  ASSUME IInv, IInv', CInv, RecordPublication, Hazards = {}, NEW d \in Device,
         WriteLock(d) \/ RestoreLock(d)
  PROVE CInv' /\ StepOK
<1> DEFINE n == txn[d].lock
<1>1. /\ txn[d].pc \in {"write", "restore"}
      /\ {"write", "restore", "verify", "restoreVerify"} \subseteq AfterRead
      /\ {"verify", "restoreVerify"} \cap (Publishing \cup Original) = {}
  BY DEF WriteLock, RestoreLock, At, AfterRead, OwnerSteps, Publishing, Original
<1>2. /\ n # Absent /\ n \in LockName /\ n \in Name /\ n # Canonical
  BY <1>1, OwnNames DEF AfterRead, Name
<1>3. files[n] # Absent BY <1>1 DEF IInv, LocalInv, Relies
<1>4. txn[d].orig = published
  BY <1>1, <1>2, <1>3 DEF CInv, Content, Holds, Holding
<1>5. PICK p \in {"verify", "restoreVerify"} :
        /\ \/ UNCHANGED files
           \/ /\ files'[n] \in {txn[d].orig, txn[d].merged}
              /\ \A m \in Name \ {n} : files'[m] = files[m]
        /\ Goto(d, p)
        /\ UNCHANGED <<pending, accepted>>
  BY <1>2, WriteEffect DEF WriteLock, RestoreLock
<1>6. \/ UNCHANGED files
      \/ files'[n] = txn[d].merged /\ txn[d].pc = "write"
      \/ files'[n] = txn[d].orig
  BY <1>2, WriteEffect DEF WriteLock, RestoreLock, At
<1>7. CASE UNCHANGED files BY <1>1, <1>5, <1>7, DecideStep
<1>8. CASE /\ files' # files /\ files'[n] \in {txn[d].orig, txn[d].merged}
           /\ \A m \in Name \ {n} : files'[m] = files[m]
  <2>1. files[Canonical] = Absent BY <1>2, <1>3, CanonicalAlone
  <2>2. files'[Canonical] = Absent BY <1>2, <1>8, <2>1 DEF Name
  <2>3. published' = published BY <2>2 DEF RecordPublication
  <2>4. Keeping(d)
    <3>1. \A e \in Device : e # d /\ txn[e].lock # Absent =>
            files'[txn[e].lock] = files[txn[e].lock]
      BY <1>2, <1>8, OwnNames DEF Name
    <3>2. \A m \in Name : files'[m] # Absent => Sourced(d, m, files'[m])
      BY <1>1, <1>4, <1>8 DEF Sourced
    <3>3. files'[n] # Absent
      <4>1. txn[d].orig # Absent BY <1>1 DEF CInv, Content, Merging
      <4>2. txn[d].pc = "write" => txn[d].merged # Absent
        BY DEF CInv, Content, Merging
      <4> QED BY <1>8, <4>1, <4>2, <1>6
    <3> QED BY <1>2, <3>1, <3>2, <3>3 DEF Keeping
  <2>5. Content(To(d, p), pending[d], files', published')
    BY <1>1, <1>4, <1>5, <1>8, <2>3, OwnerContent
  <2> QED BY <1>5, <2>4, <2>5, ContentFrame DEF Goto, Acknowledges
<1> QED BY <1>5, <1>7, <1>8

LEMMA Reduction ==
  ASSUME PendingOK, NEW d \in Device, NEW c \in Index, txn[d].lock \in LockName
  PROVE LET m == Reduced(d, c) IN
        /\ m # Absent /\ c # Absent /\ Follows(m, c)
        /\ m.ops \subseteq c.ops \cup pending[d]
<1>1. Reduced(d, c) \in Index BY ReducedType
<1>2. Reduced(d, c) # Absent /\ c # Absent BY <1>1, MarkersAreNoIndex
<1>3. CASE pending[d] \subseteq c.ops BY <1>2, <1>3 DEF Reduced, Follows
<1>4. CASE ~(pending[d] \subseteq c.ops)
  <2> DEFINE m == Reduced(d, c)
  <2>1. m.rev = c.rev + 1 /\ m.ops = c.ops \cup pending[d]
    BY <1>4 DEF Reduced
  <2>2. Extends(m, c) BY <1>4, <2>1 DEF Extends
  <2> QED BY <1>2, <2>1, <2>2 DEF Follows
<1> QED BY <1>3, <1>4

LEMMA ReadContent ==
  ASSUME IInv, IInv', PendingOK, CInv, RecordPublication, NEW d \in Device, ReadLock(d)
  PROVE CInv' /\ StepOK
<1> DEFINE c == files[txn[d].lock]
           m == Reduced(d, c)
<1>1. txn[d].pc = "read" /\ UNCHANGED <<files, pending, accepted>>
  BY DEF ReadLock, At, Local, Keep
<1>2. txn[d].pc \in OwnerSteps /\ txn[d].pc \notin AfterRead
  BY <1>1 DEF OwnerSteps, AfterRead
<1>3. txn[d].lock \in LockName /\ txn[d].lock # Absent BY <1>2, OwnerReady
<1>4. c # Absent BY <1>1 DEF IInv, LocalInv, Relies
<1>5. c \in Index BY <1>3, <1>4 DEF IInv, DiskInv, Name, MaybeIndex
<1>6. m # Absent /\ Follows(m, c) /\ m.ops \subseteq c.ops \cup pending[d]
  BY <1>3, <1>5, Reduction
<1>7. Content(txn[d], pending[d], files, published) BY DEF CInv
<1>8. c = published /\ txn[d].merged = Absent /\ txn[d].result = "none"
  BY <1>1, <1>2, <1>3, <1>4, <1>7 DEF Content, Holds, Holding, Merging, Undone
<1>9. Keeping(d) /\ published' = published BY <1>1, UnmovedDisk
<1>10. /\ {"fingerprint", "write", "rollback"} \subseteq AfterRead \cap Steps
       /\ "write" \notin Publishing /\ "rollback" \notin Publishing \cup Original
       /\ "fingerprint" \notin Original
  BY DEF AfterRead, OwnerSteps, Steps, Publishing, Original
<1> HIDE DEF c, m
<1>11. ASSUME NEW p \in {"fingerprint", "write", "rollback"}, NEW r, Become(d, r),
              /\ r.pc = p /\ r.seenC = Unread /\ r.lock = txn[d].lock
              /\ r.result = "none" /\ r.orig = c,
              \/ p = "fingerprint" /\ r.merged = m /\ m = c
              \/ p = "write" /\ r.merged = m
              \/ p = "rollback" /\ r.merged = Absent
       PROVE CInv' /\ StepOK
  <2>1. Merging(r, pending[d]) BY <1>4, <1>6, <1>10, <1>11 DEF Merging
  <2>2. Holds(r, files, published)
    BY <1>8, <1>10, <1>11 DEF Holds, Holding, c
  <2>3. Content(r, pending[d], files, published)
    BY <1>11, <2>1, <2>2 DEF Content, Seen, Undone, Present
  <2> QED BY <1>1, <1>9, <1>11, <2>3, ContentFrame DEF Acknowledges
<1>12. CASE Become(d, [To(d, IF m = c THEN "fingerprint" ELSE "write") EXCEPT
                         !.orig = c, !.merged = m])
  <2> DEFINE p == IF m = c THEN "fingerprint" ELSE "write"
             s == To(d, p)
             r == [s EXCEPT !.orig = c, !.merged = m]
  <2>1. p \in {"fingerprint", "write"} /\ (p = "fingerprint" => m = c) OBVIOUS
  <2>2. Become(d, r) BY <1>12
  <2> HIDE DEF p
  <2>3. /\ s \in LocalState /\ s.pc = p /\ s.seenC = Unread
        /\ s.lock = txn[d].lock /\ s.result = txn[d].result
    BY <1>10, <2>1, ToCore
  <2> HIDE DEF s
  <2>4. /\ r.pc = p /\ r.seenC = Unread /\ r.lock = txn[d].lock
        /\ r.result = "none" /\ r.orig = c /\ r.merged = m
    BY <1>8, <2>3 DEF LocalState
  <2> HIDE DEF r
  <2> QED BY <1>11, <2>1, <2>2, <2>4
<1>13. CASE Become(d, [To(d, "rollback") EXCEPT !.orig = c])
  <2> DEFINE s == To(d, "rollback")
             r == [s EXCEPT !.orig = c]
  <2>1. Become(d, r) BY <1>13
  <2>2. /\ s \in LocalState /\ s.pc = "rollback" /\ s.seenC = Unread
        /\ s.lock = txn[d].lock /\ s.result = txn[d].result
        /\ s.merged = txn[d].merged
    BY <1>10, ToCore
  <2> HIDE DEF s
  <2>3. /\ r.pc = "rollback" /\ r.seenC = Unread /\ r.lock = txn[d].lock
        /\ r.result = "none" /\ r.orig = c /\ r.merged = Absent
    BY <1>8, <2>2 DEF LocalState
  <2> HIDE DEF r
  <2> QED BY <1>11, <2>1, <2>3
<1>14. CASE Stop(d, "ambiguous") BY <1>1, <1>14, StopContent
<1> QED BY <1>12, <1>13, <1>14 DEF ReadLock, c, m

LEMMA AcquireContent ==
  ASSUME IInv, IInv', CInv, RecordPublication, NEW d \in Device, Acquire(d)
  PROVE CInv' /\ StepOK
<1>1. txn[d].pc = "acquire" BY DEF Acquire, At
<1>2. txn[d].lock \in LockName /\ txn[d].lock \in Name /\ Canonical \in Name
  BY <1>1, OwnerReady DEF OwnerSteps, Name
<1>3. "acquire" \in SearchPoints /\ "acquireFailed" \in SearchPoints
      /\ "read" \in Steps /\ "read" \notin AfterRead \cup {"idle"}
  BY DEF SearchPoints, AfterRead, OwnerSteps, Steps
<1>4. /\ UNCHANGED files \/ Carried(Canonical, txn[d].lock)
      /\ Goto(d, "read") \/ Goto(d, "acquireFailed")
      /\ UNCHANGED <<pending, accepted>>
  BY <1>2, MoveEffect DEF Acquire
<1> QED BY <1>1, <1>2, <1>3, <1>4, OwnNames, CarryStep

LEMMA TransactContent ==
  ASSUME IInv, IInv', PendingOK, CInv, RecordPublication, Hazards = {},
         NEW d \in Device, Transact(d) \/ RollBack(d)
  PROVE CInv' /\ StepOK
<1>1. CASE JudgeAcquire(d) BY <1>1, RecoverLooks, LookStep
<1>2. CASE Acquire(d) \/ ReadLock(d) BY <1>2, AcquireContent, ReadContent
<1>3. CASE WriteLock(d) \/ RestoreLock(d) BY <1>3, WriteContent
<1>4. CASE Publish(d) \/ RetryMove(d) \/ RestoreMove(d) BY <1>4, ReturnContent
<1>5. CASE ProbeCanonical(d) \/ ProbeLock(d) BY <1>5, ProbeContent
<1>6. CASE ReadRestored(d) BY <1>6, RestoredContent
<1>7. CASE \/ VerifyLock(d) \/ FingerprintLock(d) \/ Resolve(d) \/ Confirm(d)
           \/ Reconfirm(d) \/ Rollback(d) \/ VerifyRestored(d)
           \/ ConfirmRestored(d)
  BY <1>7, DecisionContent
<1> QED BY <1>1, <1>2, <1>3, <1>4, <1>5, <1>6, <1>7 DEF Transact, RollBack

-----------------------------------------------------------------------------
(* The theorems. *)

Inductive == IInv /\ PendingOK /\ CountersOK /\ HistoryOK /\ DeadInv /\ CInv

LEMMA InductiveInit == Init => Inductive
<1> SUFFICES ASSUME Init PROVE Inductive OBVIOUS
<1>1. \A n \in Name : files[n] = Absent BY DEF Init
<1>2. \A d \in Device : txn[d] = Resting /\ pending[d] = {} BY DEF Init
<1>3. /\ Resting.pc = "idle" /\ Resting.lock = Absent
      /\ Resting.result = "none" /\ Resting.seenC = Unread
  BY DEF Resting
<1>4. \A own : Content(Resting, own, files, published)
  BY <1>3 DEF Content, Holds, Merging, Seen, Undone, Present, AfterRead, OwnerSteps
<1>5. \A d \in Device : Content(txn[d], pending[d], files, published)
  BY <1>2, <1>4
<1>6. TokenInv /\ ApartInv /\ AcknowledgedSurvive
  BY <1>1, <1>2 DEF Init, TokenInv, ApartInv, AcknowledgedSurvive, Name
<1>7. DeadInv BY <1>2, <1>3 DEF DeadInv
<1>8. CountersOK /\ HistoryOK
  BY BoundsAssumption DEF Init, CountersOK, HistoryOK, MaybeIndex
<1> QED BY <1>5, <1>6, <1>7, <1>8, IInvInit DEF Inductive, CInv

LEMMA InductiveStep ==
  ASSUME Inductive, Hazards = {}, [Next]_vars
  PROVE Inductive' /\ (StepOK \/ UNCHANGED vars)
<1>1. IInv' /\ PendingOK' /\ CountersOK' /\ HistoryOK' /\ DeadInv'
  BY IInvStep, PendingStep, CountersStep, HistoryStep, DeadStep DEF Inductive
<1>2. CASE UNCHANGED vars
  <2>1. CInv'
    BY <1>2 DEF Inductive, CInv, TokenInv, ApartInv, AcknowledgedSurvive, vars
  <2> QED BY <1>1, <1>2, <2>1 DEF Inductive
<1>3. CASE Next
  <2>1. ~LateEffect BY DEF LateEffect, Inductive, IInv, DiskInv
  <2>2. RecordPublication BY <1>3 DEF Next
  <2>3. PICK d \in Device :
          Edit(d) \/ StartCommit(d) \/ StartLoad(d) \/ Step(d) \/ Crash(d)
    BY <1>3, <2>1 DEF Next
  <2>4. CInv' /\ StepOK
    BY <1>1, <2>2, <2>3, EditStep, StartStep, DiscoverContent, RecoverContent,
       TransactContent
    DEF Step, Inductive
  <2> QED BY <1>1, <2>4 DEF Inductive
<1> QED BY <1>2, <1>3

\* A mutation a device was told is committed is in every later canonical index,
\* whatever fails, is refused or crashes (finalizeCommittedTransaction accepts
\* only on proof, and no rollback or recovery undoes what was accepted).
THEOREM AcknowledgementsSurvive ==
  ASSUME Hazards = {} PROVE Spec => []AcknowledgedSurvive
<1>1. Inductive => AcknowledgedSurvive BY DEF Inductive, CInv
<1>2. Inductive /\ [Next]_vars => Inductive' BY InductiveStep
<1> QED BY <1>1, <1>2, InductiveInit, PTL DEF Spec

\* A transaction that reports an exact rollback left none of its mutations in
\* the canonical index, then or later, until it commits again
\* (rollbackOwnedLock, classifyRestoredIndex).
THEOREM RollbackLeavesNothing ==
  ASSUME Hazards = {} PROVE Spec => []RolledBackLeavesNothing
<1>1. Inductive => RolledBackLeavesNothing
  BY DEF Inductive, CInv, Content, Undone, RolledBackLeavesNothing
<1>2. Inductive /\ [Next]_vars => Inductive' BY InductiveStep
<1> QED BY <1>1, <1>2, InductiveInit, PTL DEF Spec

\* The lock protocol implements an atomic register: every step of every device
\* commits a successor that drops nothing, acknowledges mutations the register
\* contains, or changes nothing a caller can see.

\* The lock protocol implements an atomic register: every step of every device
\* commits a successor that drops nothing, acknowledges mutations the register
\* contains, or changes nothing a caller can see.
LEMMA RegisterStep ==
  ASSUME Inductive, Inductive', StepOK, RecordPublication
  PROVE [Register!Next]_<<Value, accepted>>
<1>1. published \in MaybeIndex /\ published' \in MaybeIndex
  BY DEF Inductive, HistoryOK
<1>2. CASE published' # published
  <2>1. accepted' = accepted BY <1>2 DEF StepOK
  <2>2. CASE published = Absent
    <3>1. PICK d \in Device : published' = SeedOf(d)
      BY <1>2, <2>2 DEF StepOK, Advances
    <3>2. SeedOf(d) \in Index BY DEF SeedOf, Index
    <3>3. published' # Absent BY <3>1, <3>2, MarkersAreNoIndex
    <3>4. published'.rev = 0 /\ published'.ops = {} BY <3>1 DEF SeedOf
    <3> QED BY <2>1, <2>2, <3>3, <3>4 DEF Value
  <2>3. CASE published # Absent
    <3>1. Extends(published', published) BY <1>2, <2>3 DEF StepOK, Advances
    <3>2. published' # Absent BY <1>2 DEF RecordPublication
    <3>3. published \in Index /\ published' \in Index
      BY <1>1, <2>3, <3>2 DEF MaybeIndex
    <3>4. published'.ops \in SUBSET Op BY <3>3 DEF Index
    <3>5. /\ Value = [rev |-> published.rev, ops |-> published.ops]
          /\ Value' = [rev |-> published'.rev, ops |-> published'.ops]
      BY <2>3, <3>2 DEF Value
    <3>6. /\ ~(published'.ops \subseteq Value.ops)
          /\ Value' = [rev |-> Value.rev + 1, ops |-> Value.ops \cup published'.ops]
      BY <3>1, <3>5 DEF Extends
    <3> QED BY <2>1, <3>4, <3>6 DEF Register!Next, Register!Commit
  <2> QED BY <2>2, <2>3
<1>3. CASE published' = published
  <2>1. Value' = Value BY <1>3 DEF Value
  <2>2. CASE accepted' = accepted BY <2>1, <2>2
  <2>3. CASE accepted' # accepted
    <3>1. published # Absent
          /\ \E S \in SUBSET published.ops : accepted' = accepted \cup S
      BY <2>3 DEF StepOK, Acknowledges
    <3>2. Value.ops = published.ops BY <3>1 DEF Value
    <3> QED BY <2>1, <3>1, <3>2 DEF Register!Next, Register!AcknowledgeSome
  <2> QED BY <2>2, <2>3
<1> QED BY <1>2, <1>3

LEMMA RegisterInit == Init => Register!Init
BY DEF Init, Register!Init, Value

\* The published index and the acknowledged mutations are an atomic register
\* (CanonicalRegister): with any number of devices, transactions, faults and
\* crashes, saveRemoteIndexLocked and recoverStaleLock replace it only by a
\* successor that contains it, and acknowledge only what it contains.
THEOREM Implements ==
  ASSUME Hazards = {} PROVE Spec => ImplementsRegister
<1>1. Inductive /\ [Next]_vars =>
        Inductive' /\ [Register!Next]_<<Value, accepted>>
  <2>1. SUFFICES ASSUME Inductive, [Next]_vars
                 PROVE Inductive' /\ [Register!Next]_<<Value, accepted>>
    OBVIOUS
  <2>2. Inductive' /\ (StepOK \/ UNCHANGED vars) BY <2>1, InductiveStep
  <2>3. CASE UNCHANGED vars BY <2>2, <2>3 DEF vars, Value
  <2>4. CASE Next /\ StepOK
    <3>1. RecordPublication BY <2>4 DEF Next
    <3> QED BY <2>1, <2>2, <2>4, <3>1, RegisterStep
  <2> QED BY <2>1, <2>2, <2>3, <2>4
<1>2. Init => Inductive /\ Register!Init BY InductiveInit, RegisterInit
<1> QED BY <1>1, <1>2, PTL DEF Spec, ImplementsRegister, Register!Spec

-----------------------------------------------------------------------------
(* Whatever the hazards: late effects, outlived leases, stale absence proofs. *)

\* What is accepted, seen or in place has been published at some time.
EverInv ==
  /\ DOMAIN txn = Device /\ \A d \in Device : "seenC" \in DOMAIN txn[d]
  /\ files[Canonical] # Absent => files[Canonical].ops \subseteq everPublished
  /\ \A d \in Device :
       Present(txn[d].seenC) => txn[d].seenC.ops \subseteq everPublished
  /\ AcknowledgedWasPublished

\* The local state r tells of no canonical index but the one in place.
Honest(d, r) ==
  /\ "seenC" \in DOMAIN r
  /\ r.seenC \in {Unread, Unreadable, txn[d].seenC, files[Canonical]}

\* The only two ways to acknowledge: a load, and a proven commit.
Proven(d) ==
  \/ /\ files[Canonical] # Absent
     /\ accepted' \subseteq accepted \cup files[Canonical].ops
  \/ /\ Present(txn[d].seenC)
     /\ accepted' \subseteq accepted \cup txn[d].seenC.ops

LEMMA SearchingHonest ==
  ASSUME EverInv, NEW d \in Device, NEW p
  PROVE /\ Honest(d, To(d, p)) /\ To(d, p).seenC = Unread
        /\ \A n : Honest(d, Observing(d, n, p))
        /\ \A o : Honest(d, Stopped(d, o))
        /\ Honest(d, Resting)
<1>1. "seenC" \in DOMAIN txn[d] BY DEF EverInv
<1>2. "seenC" \in DOMAIN To(d, p) /\ To(d, p).seenC = Unread BY <1>1 DEF To
<1>3. \A n : "seenC" \in DOMAIN Observing(d, n, p)
             /\ Observing(d, n, p).seenC = Unread
  BY <1>2 DEF Observing
<1>4. "seenC" \in DOMAIN Resting /\ Resting.seenC = Unread BY DEF Resting
<1>5. \A o : "seenC" \in DOMAIN Stopped(d, o) /\ Stopped(d, o).seenC = Unread
  BY <1>4 DEF Stopped
<1> QED BY <1>1, <1>2, <1>3, <1>4, <1>5 DEF Honest

\* Notes other than the probe of the canonical index leave it alone.
LEMMA NoteHonest ==
  ASSUME NEW d \in Device, NEW s, Honest(d, s), NEW r, "seenC" \in DOMAIN r,
         r.seenC = s.seenC
  PROVE Honest(d, r)
BY DEF Honest

LEMMA EverFrame ==
  ASSUME EverInv, RecordPublication, NEW d \in Device,
         txn' = txn \/ \E r : Become(d, r) /\ Honest(d, r),
         accepted' = accepted \/ Proven(d)
  PROVE EverInv'
<1>1. everPublished \subseteq everPublished' BY DEF RecordPublication
<1>2. files'[Canonical] # Absent => files'[Canonical].ops \subseteq everPublished'
  BY DEF RecordPublication
<1>3. \A x : x \in {Unread, Unreadable, txn[d].seenC, files[Canonical]}
             /\ Present(x) => x.ops \subseteq everPublished
  BY DEF EverInv, Present
<1>4. accepted' \subseteq everPublished'
  <2>1. CASE accepted' = accepted
    BY <1>1, <2>1 DEF EverInv, AcknowledgedWasPublished
  <2>2. CASE Proven(d)
    BY <1>1, <2>2 DEF Proven, EverInv, AcknowledgedWasPublished
  <2> QED BY <2>1, <2>2
<1>5. /\ DOMAIN txn' = Device
      /\ \A e \in Device : "seenC" \in DOMAIN txn'[e]
      /\ \A e \in Device :
           Present(txn'[e].seenC) => txn'[e].seenC.ops \subseteq everPublished
  <2>1. CASE txn' = txn BY <2>1 DEF EverInv
  <2>2. ASSUME NEW r, Become(d, r), Honest(d, r) PROVE <1>5
    <3>1. /\ DOMAIN txn' = Device /\ txn'[d] = r
          /\ \A e \in Device : e # d => txn'[e] = txn[e]
      BY <2>2 DEF Become, EverInv
    <3> QED BY <1>3, <2>2, <3>1 DEF Honest, EverInv
  <2> QED BY <2>1, <2>2
<1> QED BY <1>1, <1>2, <1>4, <1>5 DEF EverInv, AcknowledgedWasPublished

Tells(d) == \E r : Become(d, r) /\ Honest(d, r)

LEMMA PlainTells ==
  ASSUME EverInv, NEW d \in Device
  PROVE /\ \A p : Goto(d, p) => Tells(d)
        /\ \A o : Stop(d, o) => Tells(d)
        /\ \A n, p : Become(d, Observing(d, n, p)) => Tells(d)
        /\ Become(d, Resting) => Tells(d)
BY SearchingHonest DEF Tells, Goto, Stop

\* A state in which the canonical index has not been probed.
Unprobed(r) == "seenC" \in DOMAIN r /\ r.seenC = Unread

LEMMA UnprobedTells ==
  ASSUME NEW d \in Device, NEW r, Unprobed(r), Become(d, r)
  PROVE Tells(d)
BY DEF Tells, Honest, Unprobed

\* Notes in other fields.
LEMMA NoteUnprobed ==
  ASSUME NEW s, Unprobed(s)
  PROVE /\ \A x : Unprobed([s EXCEPT !.target = x])
        /\ \A x : Unprobed([s EXCEPT !.back = x])
        /\ \A x : Unprobed([s EXCEPT !.raw = x])
        /\ \A x : Unprobed([s EXCEPT !.claim = x])
        /\ \A x : Unprobed([s EXCEPT !.orig = x])
        /\ \A x : Unprobed([s EXCEPT !.observed = x])
        /\ \A x, y : Unprobed([s EXCEPT !.orig = x, !.merged = y])
        /\ \A x, y : Unprobed([s EXCEPT !.raw = x, !.dest = y])
        /\ \A x, y, z : Unprobed([s EXCEPT !.raw = x, !.claim = y, !.dest = z])
        /\ \A x, y : Unprobed([s EXCEPT !.pc = "ensure", !.job = x, !.observed = y])
        /\ \A x, y, z : Unprobed([s EXCEPT !.pc = "ensure", !.job = x, !.lock = y,
                                           !.observed = z])
BY DEF Unprobed

LEMMA UnprobedStates ==
  ASSUME EverInv, NEW d \in Device
  PROVE /\ \A p : Unprobed(To(d, p))
        /\ \A o : Unprobed(Stopped(d, o))
        /\ \A n, p : Unprobed(Observing(d, n, p))
        /\ Unprobed(Resting)
<1>1. "seenC" \in DOMAIN txn[d] BY DEF EverInv
<1>2. \A p : Unprobed(To(d, p)) BY <1>1 DEF To, Unprobed
<1>3. Unprobed(Resting) BY DEF Resting, Unprobed
<1>4. \A o : Unprobed(Stopped(d, o)) BY <1>3 DEF Stopped, Unprobed
<1>5. \A n, p : Unprobed(Observing(d, n, p)) BY <1>2 DEF Observing, Unprobed
<1> QED BY <1>2, <1>3, <1>4, <1>5

LEMMA DiscoverTells ==
  ASSUME EverInv, NEW d \in Device, Discover(d), ~Load(d)
  PROVE Tells(d) /\ accepted' = accepted
<1> USE PlainTells
<1>1. CASE Ensure(d) \/ DecideToSeed(d) \/ NothingToRecover(d) \/ ManyLocks(d)
           \/ RequestFails(d) \/ GiveUpWaiting(d) \/ JudgeOrphan(d) \/ CheckOrphan(d)
  BY <1>1 DEF Ensure, DecideToSeed, NothingToRecover, ManyLocks, RequestFails,
              GiveUpWaiting, JudgeOrphan, CheckOrphan, Local, Keep
<1>2. CASE Seed(d) \/ WaitForLease(d)
  BY <1>2 DEF Seed, WaitForLease, Local, Keep
<1>3. CASE ListOrphans(d)
  <2>1. accepted' = accepted BY <1>3 DEF ListOrphans, Local, Keep
  <2>2. ASSUME NEW x, Become(d, [Stopped(d, "ambiguous") EXCEPT !.observed = x])
        PROVE Tells(d)
    <3>1. Unprobed([Stopped(d, "ambiguous") EXCEPT !.observed = x])
      BY UnprobedStates, NoteUnprobed
    <3> QED BY <2>2, <3>1, UnprobedTells
  <2>3. ASSUME NEW n, Become(d, [To(d, "orphanCanonical") EXCEPT !.target = n])
        PROVE Tells(d)
    <3>1. Unprobed([To(d, "orphanCanonical") EXCEPT !.target = n])
      BY UnprobedStates, NoteUnprobed
    <3> QED BY <2>3, <3>1, UnprobedTells
  <2> QED BY <1>3, <2>1, <2>2, <2>3 DEF ListOrphans
<1>4. CASE ReadCanonicalForOrphan(d)
  <2>1. accepted' = accepted BY <1>4 DEF ReadCanonicalForOrphan, Local, Keep
  <2>2. ASSUME NEW x, Become(d, [To(d, "orphanJudge") EXCEPT !.raw = x])
        PROVE Tells(d)
    <3>1. Unprobed([To(d, "orphanJudge") EXCEPT !.raw = x])
      BY UnprobedStates, NoteUnprobed
    <3> QED BY <2>2, <3>1, UnprobedTells
  <2> QED BY <1>4, <2>1, <2>2 DEF ReadCanonicalForOrphan
<1>5. CASE DeleteOrphan(d)
  <2>1. accepted' = accepted BY <1>5 DEF DeleteOrphan, Keep
  <2>2. ASSUME NEW x, Become(d, [To(d, Discovered(d)) EXCEPT !.observed = x])
        PROVE Tells(d)
    <3>1. Unprobed([To(d, Discovered(d)) EXCEPT !.observed = x])
      BY UnprobedStates, NoteUnprobed
    <3> QED BY <2>2, <3>1, UnprobedTells
  <2>3. Become(d, [To(d, Discovered(d)) EXCEPT
                     !.observed = [@ EXCEPT ![txn[d].target] = Absent]])
          => \E x : Become(d, [To(d, Discovered(d)) EXCEPT !.observed = x])
    OBVIOUS
  <2> QED BY <1>5, <2>1, <2>2, <2>3 DEF DeleteOrphan
<1> QED BY <1>1, <1>2, <1>3, <1>4, <1>5 DEF Discover

LEMMA RecoverTells ==
  ASSUME EverInv, NEW d \in Device, Recover(d)
  PROVE Tells(d) /\ accepted' = accepted
<1> USE PlainTells
<1>1. CASE MoveClaim(d) \/ MoveLanding(d) \/ CheckLanding(d)
  BY <1>1 DEF MoveClaim, MoveLanding, CheckLanding, ExclusiveMove, Local, Keep
<1>2. CASE LeaseEnded(d)
  <2>1. accepted' = accepted BY <1>2 DEF LeaseEnded, Local, Keep
  <2>2. PICK n : Become(d, [To(d, "staleRead") EXCEPT !.target = n])
    BY <1>2 DEF LeaseEnded
  <2>3. Unprobed([To(d, "staleRead") EXCEPT !.target = n])
    BY UnprobedStates, NoteUnprobed
  <2> QED BY <2>1, <2>2, <2>3, UnprobedTells
<1>3. CASE ReadStaleLock(d)
  <2>1. accepted' = accepted BY <1>3 DEF ReadStaleLock
  <2>2. ASSUME NEW x, NEW y, NEW z,
               Become(d, [To(d, "claimCheck") EXCEPT !.raw = x, !.claim = y,
                                                     !.dest = z])
        PROVE Tells(d)
    <3>1. Unprobed([To(d, "claimCheck") EXCEPT !.raw = x, !.claim = y, !.dest = z])
      BY UnprobedStates, NoteUnprobed
    <3> QED BY <2>2, <3>1, UnprobedTells
  <2> QED BY <1>3, <2>1, <2>2 DEF ReadStaleLock
<1>4. CASE CheckClaim(d) \/ ConfirmLanding(d)
  <2>1. accepted' = accepted BY <1>4 DEF CheckClaim, ConfirmLanding, Local, Keep
  <2>2. ASSUME NEW n, NEW p,
               Become(d, [Observing(d, n, p) EXCEPT !.claim = Absent])
        PROVE Tells(d)
    <3>1. Unprobed([Observing(d, n, p) EXCEPT !.claim = Absent])
      BY UnprobedStates, NoteUnprobed
    <3> QED BY <2>2, <3>1, UnprobedTells
  <2> QED BY <1>4, <2>1, <2>2 DEF CheckClaim, ConfirmLanding
<1>5. CASE ReadClaim(d)
  <2>1. accepted' = accepted BY <1>5 DEF ReadClaim, Local, Keep
  <2>2. ASSUME NEW x, NEW y,
               Become(d, [To(d, "landCheck") EXCEPT !.raw = x, !.dest = y])
        PROVE Tells(d)
    <3>1. Unprobed([To(d, "landCheck") EXCEPT !.raw = x, !.dest = y])
      BY UnprobedStates, NoteUnprobed
    <3> QED BY <2>2, <3>1, UnprobedTells
  <2>3. ASSUME NEW x, Become(d, [To(d, txn[d].back) EXCEPT !.claim = x])
        PROVE Tells(d)
    <3>1. Unprobed([To(d, txn[d].back) EXCEPT !.claim = x])
      BY UnprobedStates, NoteUnprobed
    <3> QED BY <2>3, <3>1, UnprobedTells
  <2> QED BY <1>5, <2>1, <2>2, <2>3 DEF ReadClaim
<1> QED BY <1>1, <1>2, <1>3, <1>4, <1>5 DEF Recover

LEMMA StartTells ==
  ASSUME EverInv, NEW d \in Device, StartCommit(d) \/ StartLoad(d) \/ Crash(d)
  PROVE Tells(d) /\ accepted' = accepted
<1>1. accepted' = accepted BY DEF StartCommit, StartLoad, Crash, Local, Keep
<1>2. CASE StartCommit(d)
  <2>1. PICK n :
          Become(d, [Resting EXCEPT !.pc = "ensure", !.job = "commit",
                                    !.lock = n, !.observed = txn[d].observed])
    BY <1>2 DEF StartCommit
  <2>2. Unprobed([Resting EXCEPT !.pc = "ensure", !.job = "commit",
                                 !.lock = n, !.observed = txn[d].observed])
    BY UnprobedStates, NoteUnprobed
  <2> QED BY <1>1, <2>1, <2>2, UnprobedTells
<1>3. CASE StartLoad(d)
  <2>1. Unprobed([Resting EXCEPT !.pc = "ensure", !.job = "load",
                                 !.observed = txn[d].observed])
    BY UnprobedStates, NoteUnprobed
  <2> QED BY <1>1, <1>3, <2>1, UnprobedTells DEF StartLoad
<1>4. CASE Crash(d) BY <1>1, <1>4, PlainTells DEF Crash
<1> QED BY <1>2, <1>3, <1>4

LEMMA LoadProves ==
  ASSUME EverInv, NEW d \in Device, Load(d)
  PROVE Tells(d) /\ (accepted' = accepted \/ Proven(d))
BY PlainTells DEF Load, Acknowledge, Proven

LEMMA AcceptProves ==
  ASSUME EverInv, NEW d \in Device, Committed(d), Accept(d)
  PROVE Tells(d) /\ Proven(d)
BY PlainTells DEF Committed, Accept, Acknowledge, Proven

LEMMA ProbeTells ==
  ASSUME EverInv, NEW d \in Device, ProbeCanonical(d) \/ ProbeLock(d)
  PROVE Tells(d) /\ accepted' = accepted
<1>1. accepted' = accepted BY DEF ProbeCanonical, ProbeLock, Local, Keep
<1>2. "seenC" \in DOMAIN txn[d] BY DEF EverInv
<1>3. ASSUME NEW x \in {files[Canonical], Unreadable},
             Become(d, [txn[d] EXCEPT !.seenC = x])
      PROVE Tells(d)
  BY <1>2, <1>3 DEF Tells, Honest
<1>4. ASSUME NEW x, Become(d, [txn[d] EXCEPT !.seenL = x]) PROVE Tells(d)
  BY <1>2, <1>4 DEF Tells, Honest
<1> QED BY <1>1, <1>3, <1>4 DEF ProbeCanonical, ProbeLock

LEMMA TransactTells ==
  ASSUME EverInv, NEW d \in Device, Transact(d) \/ RollBack(d)
  PROVE Tells(d) /\ (accepted' = accepted \/ Proven(d))
<1> USE PlainTells
<1>1. CASE Acquire(d) \/ Publish(d) \/ RetryMove(d) \/ RestoreMove(d)
  BY <1>1 DEF Acquire, Publish, RetryMove, RestoreMove, ExclusiveMove, Keep
<1>2. CASE WriteLock(d) \/ RestoreLock(d)
  BY <1>2 DEF WriteLock, RestoreLock, Overwrite, Keep
<1>3. CASE VerifyLock(d) \/ FingerprintLock(d) \/ Rollback(d)
           \/ VerifyRestored(d) \/ ConfirmRestored(d) \/ ReadRestored(d)
  BY <1>3 DEF VerifyLock, FingerprintLock, Rollback, VerifyRestored,
              ConfirmRestored, ReadRestored, Local, Keep
<1>4. CASE ProbeCanonical(d) \/ ProbeLock(d) BY <1>4, ProbeTells
<1>5. CASE Resolve(d) \/ Confirm(d) \/ Reconfirm(d)
  <2>1. CASE Committed(d) /\ Accept(d) BY <2>1, AcceptProves
  <2>2. CASE Unaccepted /\ \E p : Goto(d, p) BY <2>2 DEF Unaccepted
  <2> QED BY <1>5, <2>1, <2>2 DEF Resolve, Confirm, Reconfirm
<1>6. CASE ReadLock(d)
  <2>1. accepted' = accepted BY <1>6 DEF ReadLock, Local, Keep
  <2>2. ASSUME NEW p, NEW x, NEW y,
               Become(d, [To(d, p) EXCEPT !.orig = x, !.merged = y])
        PROVE Tells(d)
    <3>1. Unprobed([To(d, p) EXCEPT !.orig = x, !.merged = y])
      BY UnprobedStates, NoteUnprobed
    <3> QED BY <2>2, <3>1, UnprobedTells
  <2>3. ASSUME NEW p, NEW x, Become(d, [To(d, p) EXCEPT !.orig = x]) PROVE Tells(d)
    <3>1. Unprobed([To(d, p) EXCEPT !.orig = x])
      BY UnprobedStates, NoteUnprobed
    <3> QED BY <2>3, <3>1, UnprobedTells
  <2> QED BY <1>6, <2>1, <2>2, <2>3 DEF ReadLock
<1>7. CASE JudgeAcquire(d)
  <2>1. accepted' = accepted BY <1>7 DEF JudgeAcquire, Local, Keep
  <2>2. ASSUME NEW x, Become(d, [To(d, "list") EXCEPT !.back = x]) PROVE Tells(d)
    <3>1. Unprobed([To(d, "list") EXCEPT !.back = x])
      BY UnprobedStates, NoteUnprobed
    <3> QED BY <2>2, <3>1, UnprobedTells
  <2> QED BY <1>7, <2>1, <2>2 DEF JudgeAcquire
<1> QED BY <1>1, <1>2, <1>3, <1>4, <1>5, <1>6, <1>7 DEF Transact, RollBack

LEMMA EverStill ==
  ASSUME EverInv, RecordPublication, txn' = txn, accepted' = accepted
  PROVE EverInv'
BY DEF EverInv, AcknowledgedWasPublished, RecordPublication

LEMMA EverStep == ASSUME EverInv, [Next]_vars PROVE EverInv'
<1>1. CASE UNCHANGED vars
  BY <1>1 DEF EverInv, AcknowledgedWasPublished, vars
<1>2. CASE Next
  <2>1. RecordPublication BY <1>2 DEF Next
  <2>2. CASE LateEffect
    <3>1. txn' = txn /\ accepted' = accepted BY <2>2 DEF LateEffect, Keep
    <3> QED BY <2>1, <3>1, EverStill
  <2>3. CASE \E d \in Device :
          Edit(d) \/ StartCommit(d) \/ StartLoad(d) \/ Step(d) \/ Crash(d)
    <3>1. PICK d \in Device :
            Edit(d) \/ StartCommit(d) \/ StartLoad(d) \/ Step(d) \/ Crash(d)
      BY <2>3
    <3>2. CASE Edit(d)
      BY <2>1, <3>2, EverStill DEF Edit
    <3>3. CASE ~Edit(d)
      BY <2>1, <3>1, <3>3, EverFrame, StartTells, DiscoverTells, LoadProves,
         RecoverTells, TransactTells
      DEF Step, Tells
    <3> QED BY <3>2, <3>3
  <2> QED BY <1>2, <2>2, <2>3 DEF Next
<1> QED BY <1>1, <1>2

\* No device is ever told of a commit that no canonical index contained, even
\* if requests take effect after they failed, leases end under a running owner
\* or a seed goes by a stale absence (finalizeCommittedTransaction demands the
\* canonical index itself as its proof).
THEOREM AcknowledgementsWerePublished == Spec => []AcknowledgedWasPublished
<1>1. Init => EverInv
  <2>1. SUFFICES ASSUME Init PROVE EverInv OBVIOUS
  <2>2. Resting.seenC = Unread /\ "seenC" \in DOMAIN Resting BY DEF Resting
  <2>3. DOMAIN txn = Device /\ \A d \in Device : txn[d] = Resting
    BY <2>1 DEF Init
  <2>4. files[Canonical] = Absent /\ accepted = {} BY <2>1 DEF Init, Name
  <2> QED BY <2>2, <2>3, <2>4 DEF EverInv, AcknowledgedWasPublished, Present
<1>2. EverInv /\ [Next]_vars => EverInv' BY EverStep
<1>3. EverInv => AcknowledgedWasPublished BY DEF EverInv
<1> QED BY <1>1, <1>2, <1>3, PTL DEF Spec
=============================================================================
