------------------------- MODULE SyncSessionProofs -------------------------
(***************************************************************************)
(* Theorems about SyncSession for every set of sessions and every number   *)
(* of pauses.  The invariant relates the chain of promises (after, tail)   *)
(* to the moments at which sessions joined the queue: whatever joined      *)
(* before a session that has entered is over.                              *)
(***************************************************************************)
EXTENDS SyncSession, FiniteSetTheorems, TLAPS

LiveSet == {s \in Session : Live(s)}

\* pendingWork counts the sessions that are still to be answered.
Accounting == IsFiniteSet(LiveSet) /\ pendingWork = Cardinality(LiveSet)

Joined(s) == enqueuedAt[s] > 0

\* Sessions join at distinct moments, each behind the one before it.
Chain ==
    /\ \A s \in Session :
          /\ pc[s] \in Queued \cup {"released"} => Joined(s)
          /\ pc[s] \in {"unused", "preparing"} => ~Joined(s)
          /\ enqueuedAt[s] <= enqueued
          /\ Joined(s) /\ after[s] = NoSession => enqueuedAt[s] = 1
          /\ Joined(s) /\ after[s] # NoSession =>
                Joined(after[s]) /\ enqueuedAt[s] = enqueuedAt[after[s]] + 1
    /\ \A s, t \in Session :
          Joined(s) /\ Joined(t) /\ enqueuedAt[s] = enqueuedAt[t] => s = t
    /\ tail = NoSession => enqueued = 0
    /\ tail # NoSession => enqueued > 0 /\ enqueuedAt[tail] = enqueued

\* What joined before a session that has entered is over.
Order ==
    \A s, t \in Session :
        /\ Joined(s)
        /\ enqueuedAt[s] < enqueuedAt[t]
        /\ pc[t] # "waiting"
        => pc[s] \in Left

ActiveInside ==
    \A s \in Session : pc[s] \in Inside => active = s

Unrequested ==
    \A s \in Session :
        /\ kind[s] = "none" <=> pc[s] = "unused"
        /\ pc[s] = "unused" => ~interrupted[s]

\* No full session runs beside Force.
Exclusive ==
    \A s, t \in Session :
        ~(Live(s) /\ kind[s] \in {"force", "maintenance"} /\ Live(t) /\ kind[t] = "full")

\* A session that shows its progress is shown: someone owns the interface, and
\* whoever does has not left.
Shown ==
    /\ owner # NoSession => pc[owner] \in {"preparing"} \cup Queued
    /\ status = "syncing" => owner # NoSession
    /\ \A s \in Session : pc[s] \in Inside /\ kind[s] \in Reconciling => owner # NoSession

Syncing ==
    syncing => \E s \in Session :
                  /\ pc[s] \in {"guarding", "working", "finalizing", "saving", "closing"}
                  /\ kind[s] \in Reconciling

\* Only a reconciling session is in the stages of a reconciliation.
Staged ==
    \A s \in Session :
        pc[s] \in {"guarding", "working", "finalizing", "saving", "resuming", "closing"}
            => kind[s] \in Reconciling

\* A pause raises the generation above what an interrupted session has seen.
Generations ==
    \A s \in Session :
        /\ pausesSeen[s] <= pauses
        /\ interrupted[s] => pausesSeen[s] < pauses

IInv ==
    /\ TypeOK /\ Accounting /\ Chain /\ Order /\ ActiveInside /\ Unrequested
    /\ FullShared /\ Exclusive /\ Shown /\ Syncing /\ Staged /\ Generations
    /\ PausedNotObserved

----------------------------------------------------------------------------
(* The initial state *)

LEMMA InitIInv == Init => IInv
<1> SUFFICES ASSUME Init PROVE IInv
    OBVIOUS
<1>1. TypeOK
    <2>1. 0 \in 0..MaxPauses
        BY MaxPausesAssumption
    <2> QED
        BY <2>1 DEF Init, TypeOK, Steps
<1>2. Accounting
    <2>1. LiveSet = {}
        BY DEF Init, LiveSet, Live
    <2> QED
        BY <2>1, FS_EmptySet DEF Accounting, Init
<1>3. Chain /\ Order /\ ActiveInside /\ Unrequested
    BY DEF Init, Chain, Order, Joined, ActiveInside, Unrequested, Queued, Inside, Left
<1>4. FullShared /\ Exclusive /\ Shown /\ Syncing /\ Staged
    BY NoSessionAssumption
    DEF Init, FullShared, Exclusive, Shown, Syncing, Staged, Live, Inside, Queued
<1>5. Generations /\ PausedNotObserved
    BY DEF Init, Generations, PausedNotObserved
<1> QED
    BY <1>1, <1>2, <1>3, <1>4, <1>5 DEF IInv

----------------------------------------------------------------------------
(* What a step inside the queue may change *)

InternalStep(s) ==
    \/ RunTask(s) \/ SettlementFails(s) \/ Begin(s) \/ Refuse(s) \/ Guarded(s)
    \/ Reconciled(s) \/ Close(s) \/ MarkObserved(s) \/ Saved(s) \/ Resumed(s) \/ Closed(s)

Stages == {"guarding", "working", "finalizing", "saving", "closing"}

\* It moves one session on inside the queue and says nothing of the others.
Moves(s) ==
    /\ pc[s] \in Inside
    /\ \E p \in Inside : pc' = [pc EXCEPT ![s] = p]
    /\ Unchanged

LEMMA InternalMoves ==
    ASSUME TypeOK, NEW s \in Session, InternalStep(s)
    PROVE  Moves(s)
<1> USE DEF Inside, Queued, Goto
<1>1. CASE RunTask(s)
    BY <1>1 DEF RunTask, Reject, Moves
<1>2. CASE SettlementFails(s)
    BY <1>2 DEF SettlementFails, Reject, Moves
<1>3. CASE Begin(s)
    BY <1>3 DEF Begin, Moves
<1>4. CASE Refuse(s)
    BY <1>4 DEF Refuse, Reject, Moves
<1>5. CASE Guarded(s) \/ Reconciled(s)
    BY <1>5 DEF Guarded, Reconciled, Continue, Moves
<1>6. CASE Close(s)
    BY <1>6 DEF Close, Moves
<1>7. CASE MarkObserved(s) \/ Saved(s) \/ Resumed(s)
    BY <1>7 DEF MarkObserved, Saved, Resumed, Moves
<1>8. CASE Closed(s)
    BY <1>8 DEF Closed, Reject, Moves
<1> QED
    BY <1>1, <1>2, <1>3, <1>4, <1>5, <1>6, <1>7, <1>8 DEF InternalStep

\* The status becomes "syncing" only when a reconciling session ends its run.
LEMMA InternalStatus ==
    ASSUME TypeOK, Staged, NEW s \in Session, InternalStep(s), status' = "syncing"
    PROVE  status = "syncing" \/ kind[s] \in Reconciling
<1>1. CASE Resumed(s)
    BY <1>1 DEF Resumed, Goto, Staged
<1>2. CASE Closed(s)
    BY <1>2 DEF Closed, Reject, Goto, Staged
<1>3. CASE ~Resumed(s) /\ ~Closed(s)
    BY <1>3 DEF InternalStep, RunTask, SettlementFails, Begin, Refuse, Guarded, Reconciled,
                Close, MarkObserved, Saved, Reject, Continue
<1> QED
    BY <1>1, <1>2, <1>3

\* isSyncing is set on entering the stages and reset on leaving them.
LEMMA InternalSyncing ==
    ASSUME TypeOK, Staged, NEW s \in Session, InternalStep(s), syncing'
    PROVE  /\ syncing \/ pc'[s] \in Stages
           /\ pc[s] \in Stages => pc'[s] \in Stages
           /\ pc'[s] \in Stages => kind[s] \in Reconciling
<1> USE DEF Goto, Stages, TypeOK
<1>1. CASE Begin(s)
    BY <1>1 DEF Begin
<1>2. CASE RunTask(s) \/ SettlementFails(s) \/ Refuse(s)
    BY <1>2 DEF RunTask, SettlementFails, Refuse, Reject
<1>3. CASE Guarded(s) \/ Reconciled(s)
    BY <1>3 DEF Guarded, Reconciled, Continue, Staged
<1>4. CASE Close(s) \/ MarkObserved(s) \/ Saved(s) \/ Resumed(s)
    BY <1>4 DEF Close, MarkObserved, Saved, Resumed, Staged
<1>5. CASE Closed(s)
    BY <1>5 DEF Closed, Reject
<1> QED
    BY <1>1, <1>2, <1>3, <1>4, <1>5 DEF InternalStep

\* Only MarkObserved marks, and only a session whose lifetime still holds.
LEMMA InternalObserved ==
    ASSUME TypeOK, NEW s \in Session, InternalStep(s), NEW t \in Session, observed'[t]
    PROVE  observed[t] \/ (kind[t] = "full" => pausesSeen[t] = pauses)
<1>1. CASE MarkObserved(s)
    BY <1>1 DEF MarkObserved, MayGoOn, Current, TypeOK
<1>2. CASE ~MarkObserved(s)
    BY <1>2 DEF InternalStep, RunTask, SettlementFails, Begin, Refuse, Guarded, Reconciled,
                Close, Saved, Resumed, Closed, Reject, Continue
<1> QED
    BY <1>1, <1>2

\* The stages belong to reconciling sessions.
LEMMA InternalStaged ==
    ASSUME TypeOK, Staged, NEW s \in Session, InternalStep(s)
    PROVE  Staged'
<1> USE DEF Goto, TypeOK, Staged
<1>1. CASE Begin(s)
    BY <1>1 DEF Begin, Unchanged
<1>2. CASE RunTask(s) \/ SettlementFails(s) \/ Refuse(s)
    BY <1>2 DEF RunTask, SettlementFails, Refuse, Reject, Unchanged
<1>3. CASE Guarded(s) \/ Reconciled(s)
    BY <1>3 DEF Guarded, Reconciled, Continue, Unchanged
<1>4. CASE Close(s) \/ MarkObserved(s) \/ Saved(s) \/ Resumed(s)
    BY <1>4 DEF Close, MarkObserved, Saved, Resumed, Unchanged
<1>5. CASE Closed(s)
    BY <1>5 DEF Closed, Reject, Unchanged
<1> QED
    BY <1>1, <1>2, <1>3, <1>4, <1>5 DEF InternalStep

LEMMA InternalType ==
    ASSUME TypeOK, NEW s \in Session, InternalStep(s)
    PROVE  TypeOK'
<1>1. /\ pc' \in [Session -> Steps]
      /\ Unchanged
    BY InternalMoves DEF Moves, Inside, Steps, TypeOK
<1>2. /\ status' \in {"idle", "syncing", "paused", "error"}
      /\ syncing' \in BOOLEAN
      /\ failed' \in [Session -> BOOLEAN]
      /\ observed' \in [Session -> BOOLEAN]
    <2> USE DEF TypeOK
    <2>1. CASE RunTask(s)
        BY <2>1 DEF RunTask, Reject
    <2>2. CASE SettlementFails(s) \/ Refuse(s)
        BY <2>2 DEF SettlementFails, Refuse, Reject
    <2>3. CASE Begin(s) \/ Guarded(s) \/ Reconciled(s)
        BY <2>3 DEF Begin, Guarded, Reconciled, Continue
    <2>4. CASE Close(s) \/ Resumed(s)
        BY <2>4 DEF Close, Resumed
    <2>5. CASE MarkObserved(s) \/ Saved(s)
        BY <2>5 DEF MarkObserved, Saved
    <2>6. CASE Closed(s)
        BY <2>6 DEF Closed, Reject
    <2> QED
        BY <2>1, <2>2, <2>3, <2>4, <2>5, <2>6 DEF InternalStep
<1> QED
    BY <1>1, <1>2 DEF TypeOK, Unchanged

----------------------------------------------------------------------------
(* Types and the count of pending work *)

LEMMA TypeStep ==
    ASSUME TypeOK, Accounting, [Next]_vars
    PROVE  TypeOK'
<1>1. ASSUME NEW s \in Session, NEW k \in Kinds, Request(s, k)
      PROVE  TypeOK'
    <2>1. /\ pc' \in [Session -> Steps]
          /\ kind' \in [Session -> Kinds \cup {"none"}]
          /\ pendingWork' \in Nat
          /\ pausesSeen' \in [Session -> 0..MaxPauses]
        BY <1>1 DEF Request, TypeOK, Steps
    <2>2. /\ {tail, active, pendingFull, owner}' \subseteq Session \cup {NoSession}
          /\ status' \in {"idle", "syncing", "paused", "error"}
        BY <1>1 DEF Request, ShowActivity, TypeOK
    <2> QED
        BY <1>1, <2>1, <2>2 DEF Request, TypeOK
<1>2. ASSUME NEW s \in Session, Enqueue(s)
      PROVE  TypeOK'
    <2>1. /\ pc' \in [Session -> Steps]
          /\ after' \in [Session -> Session \cup {NoSession}]
          /\ enqueuedAt' \in [Session -> Nat]
          /\ enqueued' \in Nat
        BY <1>2 DEF Enqueue, Goto, TypeOK, Steps, Queued
    <2>2. /\ {tail, active, pendingFull, owner}' \subseteq Session \cup {NoSession}
          /\ status' \in {"idle", "syncing", "paused", "error"}
        BY <1>2 DEF Enqueue, ShowActivity, TypeOK
    <2> QED
        BY <1>2, <2>1, <2>2 DEF Enqueue, results, TypeOK
<1>3. ASSUME NEW s \in Session, PrepareFails(s) \/ Release(s)
      PROVE  TypeOK'
    <2>1. pendingWork' \in Nat
        <3>1. s \in LiveSet
            BY <1>3 DEF PrepareFails, Release, Goto, LiveSet, Live
        <3>2. pendingWork # 0
            BY <3>1, FS_EmptySet DEF Accounting
        <3> QED
            BY <1>3, <3>2 DEF PrepareFails, Release, TypeOK
    <2>2. pc' \in [Session -> Steps]
        BY <1>3 DEF PrepareFails, Release, Goto, TypeOK, Steps, Left
    <2>3. {tail, active, pendingFull, owner}' \subseteq Session \cup {NoSession}
        BY <1>3 DEF PrepareFails, Release, engine, Unshared, Disowned, TypeOK
    <2>4. /\ status' \in {"idle", "syncing", "paused", "error"}
          /\ failed' \in [Session -> BOOLEAN]
        BY <1>3 DEF PrepareFails, Release, engine, results, TypeOK
    <2> QED
        BY <1>3, <2>1, <2>2, <2>3, <2>4
        DEF PrepareFails, Release, engine, results, TypeOK
<1>4. ASSUME NEW s \in Session, Enter(s) \/ Exit(s)
      PROVE  TypeOK'
    <2>1. pc' \in [Session -> Steps]
        BY <1>4 DEF Enter, Exit, Goto, TypeOK, Steps, Queued, Left
    <2>2. /\ {tail, active, pendingFull, owner}' \subseteq Session \cup {NoSession}
          /\ status' \in {"idle", "syncing", "paused", "error"}
        BY <1>4 DEF Enter, Exit, ShowActivity, TypeOK
    <2> QED
        BY <1>4, <2>1, <2>2 DEF Enter, Exit, results, TypeOK
<1>5. ASSUME NEW s \in Session, InternalStep(s)
      PROVE  TypeOK'
    BY <1>5, InternalType
<1>6. ASSUME Pause
      PROVE  TypeOK'
    <2>1. pauses' \in 0..MaxPauses
        BY <1>6, MaxPausesAssumption DEF Pause, TypeOK
    <2>2. interrupted' \in [Session -> BOOLEAN]
        BY <1>6 DEF Pause
    <2> QED
        BY <1>6, <2>1, <2>2 DEF Pause, coordinator, TypeOK
<1>7. ASSUME Resume \/ UNCHANGED vars
      PROVE  TypeOK'
    BY <1>7 DEF Resume, vars, coordinator, engine, results, TypeOK
<1> QED
    BY <1>1, <1>2, <1>3, <1>4, <1>5, <1>6, <1>7 DEF Next, Step, InternalStep

LEMMA AccountingStep ==
    ASSUME TypeOK, Accounting, [Next]_vars
    PROVE  Accounting'
<1>1. ASSUME NEW s \in Session, NEW k \in Kinds, Request(s, k)
      PROVE  Accounting'
    <2>1. LiveSet' = LiveSet \cup {s} /\ s \notin LiveSet
        <3>1. pc[s] = "unused" /\ pc' = [pc EXCEPT ![s] = "preparing"]
            BY <1>1 DEF Request
        <3> QED
            BY <3>1 DEF LiveSet, Live, TypeOK
    <2>2. pendingWork' = pendingWork + 1
        BY <1>1 DEF Request
    <2> QED
        BY <2>1, <2>2, FS_AddElement DEF Accounting
<1>2. ASSUME NEW s \in Session, PrepareFails(s) \/ Release(s)
      PROVE  Accounting'
    <2>1. LiveSet' = LiveSet \ {s} /\ s \in LiveSet
        <3>1. pc[s] \in {"preparing", "released"} /\ pc' = [pc EXCEPT ![s] = "done"]
            BY <1>2 DEF PrepareFails, Release, Goto
        <3> QED
            BY <3>1 DEF LiveSet, Live, TypeOK
    <2>2. pendingWork' = pendingWork - 1
        BY <1>2 DEF PrepareFails, Release
    <2> QED
        BY <2>1, <2>2, FS_RemoveElement DEF Accounting
<1>3. ASSUME NEW s \in Session, Enqueue(s) \/ Enter(s) \/ InternalStep(s) \/ Exit(s)
      PROVE  Accounting'
    <2>1. /\ pc[s] \notin {"unused", "done"}
          /\ \E p \in Steps \ {"unused", "done"} : pc' = [pc EXCEPT ![s] = p]
          /\ pendingWork' = pendingWork
        <3>1. CASE Enqueue(s) \/ Enter(s) \/ Exit(s)
            BY <3>1 DEF Enqueue, Enter, Exit, Goto, Steps, Queued, Left
        <3>2. CASE InternalStep(s)
            BY <3>2, InternalMoves DEF Moves, Unchanged, Inside, Queued, Steps
        <3> QED
            BY <1>3, <3>1, <3>2
    <2>2. LiveSet' = LiveSet
        BY <2>1 DEF LiveSet, Live, TypeOK
    <2> QED
        BY <2>1, <2>2 DEF Accounting
<1>4. ASSUME Pause \/ Resume \/ UNCHANGED vars
      PROVE  Accounting'
    BY <1>4 DEF Pause, Resume, vars, coordinator, Accounting, LiveSet, Live
<1> QED
    BY <1>1, <1>2, <1>3, <1>4 DEF Next, Step, InternalStep

----------------------------------------------------------------------------
(* The queue *)

LEMMA ChainStep ==
    ASSUME TypeOK, Chain, [Next]_vars
    PROVE  Chain'
<1>1. ASSUME NEW s \in Session, Enqueue(s)
      PROVE  Chain'
    <2>1. /\ pc[s] = "preparing"
          /\ pc' = [pc EXCEPT ![s] = "waiting"]
          /\ after' = [after EXCEPT ![s] = tail]
          /\ tail' = s
          /\ enqueuedAt' = [enqueuedAt EXCEPT ![s] = enqueued + 1]
          /\ enqueued' = enqueued + 1
        BY <1>1 DEF Enqueue, Goto
    <2>2. ~Joined(s)
        BY <2>1 DEF Chain
    <2>3. tail # NoSession => tail # s /\ tail \in Session
        BY <2>2 DEF Chain, Joined, TypeOK
    <2>4. \A t \in Session \ {s} :
             pc'[t] = pc[t] /\ after'[t] = after[t] /\ enqueuedAt'[t] = enqueuedAt[t]
        BY <2>1 DEF TypeOK
    <2>5. pc'[s] = "waiting" /\ after'[s] = tail /\ enqueuedAt'[s] = enqueued + 1
        BY <2>1 DEF TypeOK
    <2>6. \A t \in Session \ {s} : enqueuedAt[t] <= enqueued /\ enqueuedAt[t] \in Nat
        BY DEF Chain, TypeOK
    <2>7. ASSUME NEW t \in Session
          PROVE  /\ (pc[t] \in Queued \cup {"released"} => Joined(t))'
                 /\ (pc[t] \in {"unused", "preparing"} => ~Joined(t))'
                 /\ (enqueuedAt[t] <= enqueued)'
                 /\ (Joined(t) /\ after[t] = NoSession => enqueuedAt[t] = 1)'
                 /\ (Joined(t) /\ after[t] # NoSession =>
                        Joined(after[t]) /\ enqueuedAt[t] = enqueuedAt[after[t]] + 1)'
        <3>1. CASE t = s
            BY <3>1, <2>1, <2>2, <2>3, <2>4, <2>5, NoSessionAssumption
            DEF Chain, Joined, TypeOK, Queued
        <3>2. CASE t # s
            <4>1. Joined(t) /\ after[t] # NoSession => after[t] # s /\ after[t] \in Session
                BY <2>2 DEF Chain, TypeOK
            <4> QED
                BY <3>2, <4>1, <2>1, <2>4, <2>6 DEF Chain, Joined, TypeOK
        <3> QED
            BY <3>1, <3>2
    <2>8. \A t, u \in Session :
             (Joined(t) /\ Joined(u) /\ enqueuedAt[t] = enqueuedAt[u] => t = u)'
        BY <2>4, <2>5, <2>6 DEF Chain, Joined, TypeOK
    <2>9. tail' # NoSession /\ enqueued' > 0 /\ enqueuedAt'[tail'] = enqueued'
        BY <2>1, <2>5, NoSessionAssumption DEF TypeOK
    <2> QED
        BY <2>7, <2>8, <2>9 DEF Chain
<1>2. ASSUME UNCHANGED <<after, enqueuedAt, enqueued, tail>>,
             \A t \in Session :
                /\ pc'[t] \in Queued \cup {"released"} => pc[t] \in Queued \cup {"released"}
                /\ pc'[t] \in {"unused", "preparing"} => pc[t] \in {"unused", "preparing"}
      PROVE  Chain'
    BY <1>2 DEF Chain, Joined
<1>3. ASSUME NEW s \in Session, NEW k \in Kinds, Request(s, k)
      PROVE  Chain'
    BY <1>2, <1>3 DEF Request, TypeOK, Queued
<1>4. ASSUME NEW s \in Session, PrepareFails(s) \/ Enter(s) \/ Exit(s) \/ Release(s)
      PROVE  Chain'
    BY <1>2, <1>4 DEF PrepareFails, Enter, Exit, Release, Goto, TypeOK, Queued
<1>5. ASSUME NEW s \in Session, InternalStep(s)
      PROVE  Chain'
    BY <1>2, <1>5, InternalMoves DEF Moves, Unchanged, TypeOK, Inside, Queued
<1>6. ASSUME Pause \/ Resume \/ UNCHANGED vars
      PROVE  Chain'
    BY <1>2, <1>6 DEF Pause, Resume, vars, coordinator
<1> QED
    BY <1>1, <1>3, <1>4, <1>5, <1>6 DEF Next, Step, InternalStep

LEMMA OrderStep ==
    ASSUME TypeOK, Chain, Order, [Next]_vars
    PROVE  Order'
<1>1. ASSUME NEW s \in Session, Enqueue(s)
      PROVE  Order'
    <2>1. /\ pc' = [pc EXCEPT ![s] = "waiting"]
          /\ enqueuedAt' = [enqueuedAt EXCEPT ![s] = enqueued + 1]
        BY <1>1 DEF Enqueue, Goto
    <2> QED
        BY <2>1 DEF Order, Joined, Chain, TypeOK
<1>2. ASSUME NEW s \in Session, Enter(s)
      PROVE  Order'
    <2>1. /\ pc[s] = "waiting"
          /\ pc' = [pc EXCEPT ![s] = "entered"]
          /\ enqueuedAt' = enqueuedAt
          /\ after[s] # NoSession => after[s] \in Session /\ pc[after[s]] \in Left
        BY <1>2 DEF Enter, Turn, Goto, TypeOK
    <2>2. ASSUME NEW r \in Session, Joined(r), enqueuedAt[r] < enqueuedAt[s]
          PROVE  pc[r] \in Left
        <3>1. Joined(s)
            BY <2>1 DEF Chain, Queued
        <3>2. after[s] # NoSession
            BY <2>2, <3>1 DEF Chain, Joined, TypeOK
        <3>3. /\ Joined(after[s])
              /\ enqueuedAt[s] = enqueuedAt[after[s]] + 1
              /\ pc[after[s]] # "waiting"
            BY <3>1, <3>2, <2>1 DEF Chain, Left
        <3>4. CASE enqueuedAt[r] = enqueuedAt[after[s]]
            BY <3>2, <3>3, <3>4, <2>1, <2>2 DEF Chain
        <3>5. CASE enqueuedAt[r] < enqueuedAt[after[s]]
            BY <3>2, <3>3, <3>5, <2>1, <2>2 DEF Order
        <3> QED
            BY <3>2, <3>3, <3>4, <3>5, <2>1, <2>2 DEF TypeOK
    <2> QED
        BY <2>1, <2>2 DEF Order, Joined, Left, TypeOK
<1>3. ASSUME enqueuedAt' = enqueuedAt,
             \A t \in Session :
                /\ pc[t] \in Left => pc'[t] \in Left
                /\ Joined(t) /\ pc[t] = "waiting" => pc'[t] = "waiting"
      PROVE  Order'
    <2> SUFFICES ASSUME NEW r \in Session, NEW t \in Session, Joined(r),
                        enqueuedAt[r] < enqueuedAt[t], pc'[t] # "waiting"
                 PROVE  pc'[r] \in Left
        BY <1>3 DEF Order, Joined
    <2>1. Joined(t)
        BY DEF Joined, TypeOK
    <2> QED
        BY <2>1, <1>3 DEF Order
<1>4. ASSUME NEW s \in Session, NEW k \in Kinds, Request(s, k)
      PROVE  Order'
    BY <1>3, <1>4 DEF Request, TypeOK, Left
<1>5. ASSUME NEW s \in Session, PrepareFails(s) \/ Exit(s) \/ Release(s)
      PROVE  Order'
    BY <1>3, <1>5 DEF PrepareFails, Exit, Release, Goto, TypeOK, Left
<1>6. ASSUME NEW s \in Session, InternalStep(s)
      PROVE  Order'
    BY <1>3, <1>6, InternalMoves DEF Moves, Unchanged, TypeOK, Inside, Queued, Left
<1>7. ASSUME Pause \/ Resume \/ UNCHANGED vars
      PROVE  Order'
    BY <1>3, <1>7 DEF Pause, Resume, vars, coordinator
<1> QED
    BY <1>1, <1>2, <1>4, <1>5, <1>6, <1>7 DEF Next, Step, InternalStep

LEMMA ActiveStep ==
    ASSUME TypeOK, Chain, Order, ActiveInside, [Next]_vars
    PROVE  ActiveInside'
<1>1. ASSUME NEW s \in Session, Enter(s)
      PROVE  ActiveInside'
    <2>1. /\ pc[s] = "waiting"
          /\ pc' = [pc EXCEPT ![s] = "entered"]
          /\ active' = s
          /\ enqueuedAt' = enqueuedAt
        BY <1>1 DEF Enter, Goto
    <2>2. ASSUME NEW t \in Session, t # s, pc'[t] \in Inside
          PROVE  FALSE
        <3>1. pc[t] \in Inside
            BY <2>1, <2>2 DEF TypeOK
        <3>2. Joined(s) /\ Joined(t)
            BY <3>1, <2>1 DEF Chain, Inside, Queued
        <3>3. enqueuedAt[s] # enqueuedAt[t]
            BY <3>2, <2>2 DEF Chain
        <3>4. CASE enqueuedAt[s] < enqueuedAt[t]
            BY <3>1, <3>2, <3>4, <2>1 DEF Order, Inside, Left
        <3>5. CASE enqueuedAt[t] < enqueuedAt[s]
            <4>1. Order'
                BY <1>1, OrderStep DEF Next, Step
            <4>2. pc'[s] = "entered" /\ Joined(t)'
                BY <2>1, <3>2 DEF TypeOK, Joined
            <4>3. pc'[t] \in Left
                BY <4>1, <4>2, <3>5, <2>1 DEF Order
            <4> QED
                BY <4>3, <2>2 DEF Inside, Queued, Left
        <3> QED
            BY <3>3, <3>4, <3>5 DEF TypeOK
    <2> QED
        BY <2>1, <2>2 DEF ActiveInside
<1>2. ASSUME NEW s \in Session, Exit(s)
      PROVE  ActiveInside'
    <2>1. pc[s] \in Inside /\ pc' = [pc EXCEPT ![s] = "released"]
        BY <1>2 DEF Exit, Inside, Queued
    <2>2. \A t \in Session : pc'[t] \notin Inside
        BY <2>1 DEF ActiveInside, TypeOK, Inside, Queued
    <2> QED
        BY <2>2 DEF ActiveInside
<1>3. ASSUME active' = active,
             \A t \in Session : pc'[t] \in Inside => pc[t] \in Inside
      PROVE  ActiveInside'
    BY <1>3 DEF ActiveInside
<1>4. ASSUME NEW s \in Session, NEW k \in Kinds, Request(s, k)
      PROVE  ActiveInside'
    BY <1>3, <1>4 DEF Request, TypeOK, Inside, Queued
<1>5. ASSUME NEW s \in Session, Enqueue(s) \/ PrepareFails(s) \/ Release(s)
      PROVE  ActiveInside'
    BY <1>3, <1>5 DEF Enqueue, PrepareFails, Release, Goto, TypeOK, Inside, Queued
<1>6. ASSUME NEW s \in Session, InternalStep(s)
      PROVE  ActiveInside'
    BY <1>3, <1>6, InternalMoves DEF Moves, Unchanged, TypeOK
<1>7. ASSUME Pause \/ Resume \/ UNCHANGED vars
      PROVE  ActiveInside'
    BY <1>3, <1>7 DEF Pause, Resume, vars, coordinator
<1> QED
    BY <1>1, <1>2, <1>4, <1>5, <1>6, <1>7 DEF Next, Step, InternalStep

----------------------------------------------------------------------------
(* Kinds and the shared promise *)

LEMMA UnrequestedStep ==
    ASSUME TypeOK, Unrequested, [Next]_vars
    PROVE  Unrequested'
<1>1. ASSUME NEW s \in Session, NEW k \in Kinds, Request(s, k)
      PROVE  Unrequested'
    <2>1. /\ pc' = [pc EXCEPT ![s] = "preparing"]
          /\ kind' = [kind EXCEPT ![s] = k]
          /\ interrupted' = interrupted
        BY <1>1 DEF Request
    <2> QED
        BY <2>1 DEF Unrequested, TypeOK, Kinds
<1>2. ASSUME kind' = kind,
             \A t \in Session :
                /\ pc[t] = "unused" <=> pc'[t] = "unused"
                /\ interrupted'[t] => interrupted[t] \/ Live(t)
      PROVE  Unrequested'
    BY <1>2 DEF Unrequested, Live
<1>3. ASSUME NEW s \in Session, Enqueue(s) \/ PrepareFails(s) \/ Enter(s)
      PROVE  Unrequested'
    BY <1>2, <1>3 DEF Enqueue, PrepareFails, Enter, Goto, results, TypeOK
<1>4. ASSUME NEW s \in Session, Exit(s) \/ Release(s)
      PROVE  Unrequested'
    BY <1>2, <1>4 DEF Exit, Release, Goto, results, TypeOK
<1>5. ASSUME NEW s \in Session, InternalStep(s)
      PROVE  Unrequested'
    BY <1>2, <1>5, InternalMoves DEF Moves, Unchanged, TypeOK, Inside, Queued
<1>6. ASSUME Pause \/ Resume \/ UNCHANGED vars
      PROVE  Unrequested'
    BY <1>2, <1>6 DEF Pause, Resume, vars, coordinator, results
<1> QED
    BY <1>1, <1>3, <1>4, <1>5, <1>6 DEF Next, Step, InternalStep

LEMMA SharedStep ==
    ASSUME TypeOK, Unrequested, FullShared, [Next]_vars
    PROVE  FullShared'
<1>1. ASSUME NEW s \in Session, NEW k \in Kinds, Request(s, k)
      PROVE  FullShared'
    <2>1. /\ pc[s] = "unused"
          /\ pc' = [pc EXCEPT ![s] = "preparing"]
          /\ kind' = [kind EXCEPT ![s] = k]
          /\ k = "full" => pendingFull = NoSession /\ pendingFull' = s
          /\ k # "full" => pendingFull' = pendingFull
        BY <1>1 DEF Request, Admitted
    <2>2. \A t \in Session \ {s} : kind'[t] = kind[t] /\ pc'[t] = pc[t]
        BY <2>1 DEF TypeOK
    <2>3. kind'[s] = k /\ Live(s)' /\ pendingFull # s
        BY <2>1 DEF TypeOK, Live, FullShared
    <2> QED
        BY <2>1, <2>2, <2>3, NoSessionAssumption DEF FullShared, Live
<1>2. ASSUME NEW s \in Session, PrepareFails(s) \/ Release(s)
      PROVE  FullShared'
    <2>1. /\ pc' = [pc EXCEPT ![s] = "done"]
          /\ kind' = kind
          /\ pendingFull' = Unshared(s)
        BY <1>2 DEF PrepareFails, Release, Goto
    <2> QED
        BY <2>1, NoSessionAssumption DEF FullShared, Live, Unshared, TypeOK
<1>3. ASSUME kind' = kind, pendingFull' = pendingFull,
             \A t \in Session : Live(t)' <=> Live(t)
      PROVE  FullShared'
    BY <1>3 DEF FullShared
<1>4. ASSUME NEW s \in Session, Enqueue(s) \/ Enter(s) \/ Exit(s)
      PROVE  FullShared'
    BY <1>3, <1>4 DEF Enqueue, Enter, Exit, Goto, Live, TypeOK
<1>5. ASSUME NEW s \in Session, InternalStep(s)
      PROVE  FullShared'
    BY <1>3, <1>5, InternalMoves DEF Moves, Unchanged, Live, TypeOK, Inside, Queued
<1>6. ASSUME Pause \/ Resume \/ UNCHANGED vars
      PROVE  FullShared'
    BY <1>3, <1>6 DEF Pause, Resume, vars, coordinator, Live
<1> QED
    BY <1>1, <1>2, <1>4, <1>5, <1>6 DEF Next, Step, InternalStep

LEMMA ExclusiveStep ==
    ASSUME TypeOK, Accounting, Exclusive, [Next]_vars
    PROVE  Exclusive'
<1>1. ASSUME NEW s \in Session, NEW k \in Kinds, Request(s, k)
      PROVE  Exclusive'
    <2>1. /\ pc' = [pc EXCEPT ![s] = "preparing"]
          /\ kind' = [kind EXCEPT ![s] = k]
          /\ Admitted(k)
        BY <1>1 DEF Request
    <2>2. \A t \in Session \ {s} : kind'[t] = kind[t] /\ (Live(t)' <=> Live(t))
        BY <2>1 DEF TypeOK, Live
    <2>3. kind'[s] = k
        BY <2>1 DEF TypeOK
    <2>4. CASE k = "full"
        BY <2>1, <2>2, <2>3, <2>4 DEF Admitted, Busy, Exclusive
    <2>5. CASE k = "realtime"
        BY <2>2, <2>3, <2>5 DEF Exclusive
    <2>6. CASE k \in {"force", "maintenance"}
        <3>1. LiveSet = {}
            BY <2>1, <2>6, FS_EmptySet DEF Admitted, Accounting
        <3>2. \A t \in Session \ {s} : ~Live(t)'
            BY <2>2, <3>1 DEF LiveSet
        <3> QED
            BY <2>3, <2>6, <3>2 DEF Exclusive
    <2> QED
        BY <2>4, <2>5, <2>6 DEF Kinds
<1>2. ASSUME kind' = kind, \A t \in Session : Live(t)' => Live(t)
      PROVE  Exclusive'
    BY <1>2 DEF Exclusive
<1>3. ASSUME NEW s \in Session, Enqueue(s) \/ PrepareFails(s) \/ Enter(s)
      PROVE  Exclusive'
    BY <1>2, <1>3 DEF Enqueue, PrepareFails, Enter, Goto, Live, TypeOK
<1>4. ASSUME NEW s \in Session, Exit(s) \/ Release(s)
      PROVE  Exclusive'
    BY <1>2, <1>4 DEF Exit, Release, Goto, Live, TypeOK
<1>5. ASSUME NEW s \in Session, InternalStep(s)
      PROVE  Exclusive'
    BY <1>2, <1>5, InternalMoves DEF Moves, Unchanged, Live, TypeOK, Inside, Queued
<1>6. ASSUME Pause \/ Resume \/ UNCHANGED vars
      PROVE  Exclusive'
    BY <1>2, <1>6 DEF Pause, Resume, vars, coordinator, Live
<1> QED
    BY <1>1, <1>3, <1>4, <1>5, <1>6 DEF Next, Step, InternalStep

----------------------------------------------------------------------------
(* What is shown *)

LEMMA ShownStep ==
    ASSUME TypeOK, ActiveInside, FullShared, Exclusive, Staged, Shown, [Next]_vars
    PROVE  Shown'
<1>1. ASSUME NEW s \in Session, NEW k \in Kinds, Request(s, k)
      PROVE  Shown'
    <2>1. /\ pc[s] = "unused"
          /\ pc' = [pc EXCEPT ![s] = "preparing"]
          /\ kind' = [kind EXCEPT ![s] = k]
        BY <1>1 DEF Request
    <2>2. ShowActivity(s) \/ UNCHANGED <<owner, status>>
        BY <1>1 DEF Request
    <2>3. \A t \in Session :
             /\ pc[t] \in {"preparing"} \cup Queued => pc'[t] \in {"preparing"} \cup Queued
             /\ pc'[t] \in Inside => pc[t] \in Inside /\ kind'[t] = kind[t]
        BY <2>1 DEF TypeOK, Inside, Queued
    <2>4. pc'[s] = "preparing"
        BY <2>1 DEF TypeOK
    <2> QED
        BY <2>2, <2>3, <2>4, NoSessionAssumption DEF Shown, ShowActivity, TypeOK
<1>2. ASSUME NEW s \in Session, Enqueue(s) \/ Enter(s)
      PROVE  Shown'
    <2>1. /\ pc'[s] \in Queued
          /\ \A t \in Session \ {s} : pc'[t] = pc[t]
          /\ kind' = kind
          /\ ShowActivity(s)
        BY <1>2 DEF Enqueue, Enter, Goto, TypeOK, Queued
    <2>2. owner' # NoSession
        BY <2>1, NoSessionAssumption DEF ShowActivity
    <2>3. pc'[owner'] \in {"preparing"} \cup Queued
        BY <2>1 DEF ShowActivity, Shown, TypeOK
    <2> QED
        BY <2>2, <2>3 DEF Shown
<1>3. ASSUME NEW s \in Session, PrepareFails(s)
      PROVE  Shown'
    <2>1. /\ pc[s] = "preparing" /\ kind[s] = "full"
          /\ pc' = [pc EXCEPT ![s] = "done"]
          /\ kind' = kind
          /\ owner' = Disowned(s)
          /\ status' = IF owner = s THEN "error" ELSE status
        BY <1>3 DEF PrepareFails, Goto
    <2>2. CASE owner = s
        <3>1. ASSUME NEW t \in Session, pc'[t] \in Inside, kind[t] \in Reconciling
              PROVE  FALSE
            <4>1. t # s /\ pc[t] \in Inside
                BY <3>1, <2>1 DEF TypeOK, Inside, Queued
            <4>2. Live(t) /\ Live(s)
                BY <4>1, <2>1 DEF Live, Inside, Queued
            <4>3. kind[t] # "full"
                BY <4>1, <4>2, <2>1 DEF FullShared
            <4> QED
                BY <3>1, <4>2, <4>3, <2>1 DEF Exclusive, Reconciling
        <3> QED
            BY <2>1, <2>2, <3>1 DEF Shown, Disowned
    <2>3. CASE owner # s
        BY <2>1, <2>3 DEF Shown, Disowned, TypeOK, Inside, Queued
    <2> QED
        BY <2>2, <2>3
<1>4. ASSUME NEW s \in Session, InternalStep(s)
      PROVE  Shown'
    <2>1. Moves(s)
        BY <1>4, InternalMoves
    <2>2. \A t \in Session : pc'[t] \in Inside <=> pc[t] \in Inside
        BY <2>1 DEF Moves, TypeOK
    <2>3. owner' = owner /\ kind' = kind
        BY <2>1 DEF Moves, Unchanged
    <2>4. owner # NoSession => pc'[owner] \in {"preparing"} \cup Queued
        BY <2>1 DEF Shown, Moves, TypeOK, Inside
    <2>5. status' = "syncing" => owner # NoSession
        BY <1>4, <2>1, InternalStatus DEF Shown, Moves
    <2> QED
        BY <2>2, <2>3, <2>4, <2>5 DEF Shown
<1>5. ASSUME NEW s \in Session, Exit(s)
      PROVE  Shown'
    <2>1. /\ pc[s] \in Inside
          /\ pc' = [pc EXCEPT ![s] = "released"]
          /\ kind' = kind
        BY <1>5 DEF Exit, Inside, Queued
    <2>2. \A t \in Session : pc'[t] \notin Inside
        BY <2>1 DEF ActiveInside, TypeOK, Inside, Queued
    <2>3. CASE owner = s
        <3>1. owner' = NoSession /\ status' # "syncing"
            BY <1>5, <2>3 DEF Exit
        <3> QED
            BY <2>2, <3>1 DEF Shown
    <2>4. CASE owner # s
        <3>1. owner' = owner /\ status' = status
            BY <1>5, <2>4 DEF Exit
        <3>2. owner # NoSession => pc'[owner] = pc[owner]
            BY <2>1, <2>4 DEF TypeOK
        <3> QED
            BY <2>2, <3>1, <3>2 DEF Shown
    <2> QED
        BY <2>3, <2>4
<1>6. ASSUME NEW s \in Session, Release(s)
      PROVE  Shown'
    <2>1. /\ pc[s] = "released"
          /\ pc' = [pc EXCEPT ![s] = "done"]
          /\ UNCHANGED <<kind, owner, status>>
        BY <1>6 DEF Release, Goto, engine
    <2>2. owner # s
        BY <2>1, NoSessionAssumption DEF Shown, Queued
    <2> QED
        BY <2>1, <2>2 DEF Shown, TypeOK, Inside, Queued
<1>7. ASSUME Pause \/ Resume \/ UNCHANGED vars
      PROVE  Shown'
    BY <1>7 DEF Pause, Resume, vars, coordinator, engine, Shown
<1> QED
    BY <1>1, <1>2, <1>3, <1>4, <1>5, <1>6, <1>7 DEF Next, Step, InternalStep

LEMMA SyncingStep ==
    ASSUME TypeOK, Unrequested, Staged, Syncing, [Next]_vars
    PROVE  Syncing'
<1>1. ASSUME NEW s \in Session, InternalStep(s)
      PROVE  Syncing'
    <2> SUFFICES ASSUME syncing'
                 PROVE  \E t \in Session : pc'[t] \in Stages /\ kind'[t] \in Reconciling
        BY DEF Syncing, Stages
    <2>1. /\ syncing \/ pc'[s] \in Stages
          /\ pc[s] \in Stages => pc'[s] \in Stages
          /\ pc'[s] \in Stages => kind[s] \in Reconciling
        BY <1>1, InternalSyncing
    <2>2. kind' = kind /\ \A t \in Session \ {s} : pc'[t] = pc[t]
        BY <1>1, InternalMoves DEF Moves, Unchanged, TypeOK
    <2> QED
        BY <2>1, <2>2 DEF Syncing, Stages
<1>2. ASSUME syncing' = syncing,
             \A t \in Session : pc[t] \in Stages => pc'[t] = pc[t] /\ kind'[t] = kind[t]
      PROVE  Syncing'
    BY <1>2 DEF Syncing, Stages
<1>3. ASSUME NEW s \in Session, NEW k \in Kinds, Request(s, k)
      PROVE  Syncing'
    BY <1>2, <1>3 DEF Request, TypeOK, Stages
<1>4. ASSUME NEW s \in Session, Enqueue(s) \/ PrepareFails(s) \/ Enter(s)
      PROVE  Syncing'
    BY <1>2, <1>4 DEF Enqueue, PrepareFails, Enter, Goto, TypeOK, Stages
<1>5. ASSUME NEW s \in Session, Exit(s) \/ Release(s)
      PROVE  Syncing'
    BY <1>2, <1>5 DEF Exit, Release, Goto, engine, TypeOK, Stages
<1>6. ASSUME Pause \/ Resume \/ UNCHANGED vars
      PROVE  Syncing'
    BY <1>2, <1>6 DEF Pause, Resume, vars, coordinator, engine
<1> QED
    BY <1>1, <1>3, <1>4, <1>5, <1>6 DEF Next, Step, InternalStep

LEMMA StagedStep ==
    ASSUME TypeOK, Staged, [Next]_vars
    PROVE  Staged'
<1>1. ASSUME NEW s \in Session, InternalStep(s)
      PROVE  Staged'
    BY <1>1, InternalStaged
<1>2. ASSUME \A t \in Session :
                pc'[t] \in Stages \cup {"resuming"} => pc'[t] = pc[t] /\ kind'[t] = kind[t]
      PROVE  Staged'
    BY <1>2 DEF Staged, Stages
<1>3. ASSUME NEW s \in Session, NEW k \in Kinds, Request(s, k)
      PROVE  Staged'
    BY <1>2, <1>3 DEF Request, TypeOK, Stages
<1>4. ASSUME NEW s \in Session, Enqueue(s) \/ PrepareFails(s) \/ Enter(s)
      PROVE  Staged'
    BY <1>2, <1>4 DEF Enqueue, PrepareFails, Enter, Goto, TypeOK, Stages
<1>5. ASSUME NEW s \in Session, Exit(s) \/ Release(s)
      PROVE  Staged'
    BY <1>2, <1>5 DEF Exit, Release, Goto, TypeOK, Stages
<1>6. ASSUME Pause \/ Resume \/ UNCHANGED vars
      PROVE  Staged'
    BY <1>2, <1>6 DEF Pause, Resume, vars, coordinator
<1> QED
    BY <1>1, <1>3, <1>4, <1>5, <1>6 DEF Next, Step, InternalStep

----------------------------------------------------------------------------
(* Pauses *)

LEMMA PauseStep ==
    ASSUME TypeOK, Unrequested, Generations, PausedNotObserved, [Next]_vars
    PROVE  Generations' /\ PausedNotObserved'
<1>1. ASSUME NEW s \in Session, NEW k \in Kinds, Request(s, k)
      PROVE  Generations' /\ PausedNotObserved'
    <2>1. /\ pc[s] = "unused"
          /\ kind' = [kind EXCEPT ![s] = k]
          /\ pausesSeen' = [pausesSeen EXCEPT ![s] = pauses]
          /\ UNCHANGED <<pauses, observed, interrupted>>
        BY <1>1 DEF Request
    <2>2. ~interrupted[s]
        BY <2>1 DEF Unrequested
    <2> QED
        BY <2>1, <2>2 DEF Generations, PausedNotObserved, TypeOK
<1>2. ASSUME NEW s \in Session, InternalStep(s)
      PROVE  Generations' /\ PausedNotObserved'
    <2>1. UNCHANGED <<kind, pauses, pausesSeen, interrupted>>
        BY <1>2, InternalMoves DEF Moves, Unchanged
    <2>2. \A t \in Session :
             observed'[t] => observed[t] \/ (kind[t] = "full" => pausesSeen[t] = pauses)
        BY <1>2, InternalObserved
    <2> QED
        BY <2>1, <2>2 DEF Generations, PausedNotObserved, TypeOK
<1>3. ASSUME Pause
      PROVE  Generations' /\ PausedNotObserved'
    <2>1. /\ pauses' = pauses + 1
          /\ interrupted' = [t \in Session |-> interrupted[t] \/ (Live(t) /\ ~observed[t])]
          /\ UNCHANGED <<kind, pausesSeen, observed>>
        BY <1>3 DEF Pause, coordinator
    <2>2. \A t \in Session : pausesSeen[t] \in Nat /\ pauses \in Nat
        BY MaxPausesAssumption DEF TypeOK
    <2>3. Generations'
        BY <2>1, <2>2 DEF Generations
    <2>4. PausedNotObserved'
        BY <2>1 DEF PausedNotObserved
    <2> QED
        BY <2>3, <2>4
<1>4. ASSUME UNCHANGED <<kind, pauses, pausesSeen, observed, interrupted>>
      PROVE  Generations' /\ PausedNotObserved'
    BY <1>4 DEF Generations, PausedNotObserved
<1>5. ASSUME NEW s \in Session,
             Enqueue(s) \/ PrepareFails(s) \/ Enter(s) \/ Exit(s) \/ Release(s)
      PROVE  Generations' /\ PausedNotObserved'
    BY <1>4, <1>5 DEF Enqueue, PrepareFails, Enter, Exit, Release, engine, results
<1>6. ASSUME Resume \/ UNCHANGED vars
      PROVE  Generations' /\ PausedNotObserved'
    BY <1>4, <1>6 DEF Resume, vars, coordinator, engine, results
<1> QED
    BY <1>1, <1>2, <1>3, <1>5, <1>6 DEF Next, Step, InternalStep

----------------------------------------------------------------------------
(* The theorems *)

LEMMA NextIInv ==
    ASSUME IInv, [Next]_vars
    PROVE  IInv'
BY TypeStep, AccountingStep, ChainStep, OrderStep, ActiveStep, UnrequestedStep,
   SharedStep, ExclusiveStep, ShownStep, SyncingStep, StagedStep, PauseStep DEF IInv

LEMMA AlwaysIInv == Spec => []IInv
BY InitIInv, NextIInv, PTL DEF Spec

\* Every variable keeps its type, for any number of sessions and pauses
\* (the fields of coordinator.ts:35-57 and engine.ts:340-400).
THEOREM TypeCorrect == Spec => []TypeOK
<1>1. IInv => TypeOK
    BY DEF IInv
<1> QED
    BY AlwaysIInv, <1>1, PTL

\* Two sessions are never inside the queue together (coordinator.ts:117-184):
\* the promises form a chain, so of two sessions inside the later one would have
\* entered before the earlier one left.
THEOREM MutualExclusion == Spec => []OneActive
<1>1. IInv => OneActive
    BY DEF IInv, ActiveInside, OneActive
<1> QED
    BY AlwaysIInv, <1>1, PTL

\* Sessions enter in the order in which they joined (coordinator.ts:131-142).
THEOREM QueueIsFIFO == Spec => FirstComeFirstServed
<1>1. ASSUME IInv, IInv', [Next]_vars
      PROVE  EntersInOrder
    <2> SUFFICES ASSUME NEW s \in Session, NEW t \in Session, t # s,
                        pc[s] = "waiting", pc'[s] = "entered", pc[t] = "waiting"
                 PROVE  enqueuedAt[s] < enqueuedAt[t]
        BY DEF EntersInOrder
    <2>1. Enter(s)
        <3>1. ASSUME NEW r \in Session, NEW k \in Kinds, Request(r, k)
              PROVE  FALSE
            BY <1>1, <3>1 DEF Request, IInv, TypeOK
        <3>2. ASSUME NEW r \in Session, InternalStep(r)
              PROVE  FALSE
            BY <1>1, <3>2, InternalMoves DEF IInv, Moves, Inside, TypeOK
        <3>3. ASSUME NEW r \in Session,
                     Enqueue(r) \/ PrepareFails(r) \/ Exit(r) \/ Release(r)
              PROVE  FALSE
            BY <1>1, <3>3
            DEF Enqueue, PrepareFails, Exit, Release, Goto, IInv, TypeOK
        <3>4. ASSUME NEW r \in Session, Enter(r)
              PROVE  r = s
            BY <1>1, <3>4 DEF Enter, Goto, IInv, TypeOK
        <3>5. ~Pause /\ ~Resume /\ ~UNCHANGED vars
            BY DEF Pause, Resume, vars, coordinator
        <3> QED
            BY <1>1, <3>1, <3>2, <3>3, <3>4, <3>5 DEF Next, Step, InternalStep
    <2>2. pc'[t] = "waiting" /\ enqueuedAt' = enqueuedAt
        BY <1>1, <2>1 DEF Enter, Goto, IInv, TypeOK
    <2>3. Joined(s) /\ Joined(t)
        BY <1>1 DEF IInv, Chain, Queued
    <2>4. ~(enqueuedAt[t] < enqueuedAt[s])
        BY <1>1, <2>2, <2>3 DEF IInv, Order, Joined, Left
    <2>5. enqueuedAt[t] # enqueuedAt[s]
        BY <1>1, <2>3 DEF IInv, Chain
    <2> QED
        BY <1>1, <2>4, <2>5 DEF IInv, TypeOK
<1> QED
    BY AlwaysIInv, <1>1, PTL DEF Spec, FirstComeFirstServed

\* The shared promise is exactly the unanswered full session
\* (coordinator.ts:70-96).
THEOREM SharedIsFull == Spec => []FullShared
<1>1. IInv => FullShared
    BY DEF IInv
<1> QED
    BY AlwaysIInv, <1>1, PTL

\* Nobody who is over owns the interface, and nothing is shown as running when
\* nothing runs (engine.ts:512-540, 605-670).
THEOREM OwnershipEnds == Spec => []OwnerIsLive
<1>1. IInv => OwnerIsLive
    <2> SUFFICES ASSUME IInv PROVE OwnerIsLive
        OBVIOUS
    <2>1. owner # NoSession => owner \in Session /\ Live(owner)
        BY DEF IInv, Shown, TypeOK, Live, Queued
    <2>2. status = "syncing" => \E s \in Session : Live(s)
        BY <2>1 DEF IInv, Shown
    <2>3. syncing => \E s \in Session : active = s /\ kind[s] \in Reconciling
        BY DEF IInv, Syncing, ActiveInside, Inside, Queued
    <2> QED
        BY <2>1, <2>2, <2>3 DEF OwnerIsLive
<1> QED
    BY AlwaysIInv, <1>1, PTL

\* A full session the user's pause fell into never marks the remote revision
\* observed, resumed since or not (engine.ts:797-811, 1606-1627).
THEOREM PauseIsFinal == Spec => []PausedNotObserved
<1>1. IInv => PausedNotObserved
    BY DEF IInv
<1> QED
    BY AlwaysIInv, <1>1, PTL

=============================================================================
