---------------------------- MODULE SyncSession ----------------------------
(***************************************************************************)
(* One device's queue of synchronisation sessions: the coordinator that    *)
(* runs them one at a time (sync/coordinator.ts) and the life of a session *)
(* in the engine (sync/engine.ts): preparation, guards, reconciliation,    *)
(* durable settlement, and the status shown to the user meanwhile.         *)
(*                                                                         *)
(* Every step of a session is one run between two awaits of the code.      *)
(* What a session does to files and indices is not here: it succeeds or    *)
(* fails.  A maintenance session is a black box that may not nest a sync.  *)
(***************************************************************************)
EXTENDS Naturals, FiniteSets

CONSTANTS
    Session,      \* the identifiers createSessionId hands out
    NoSession,    \* null
    MaxPauses     \* bound: how often the user pauses

ASSUME NoSessionAssumption == NoSession \notin Session
ASSUME MaxPausesAssumption == MaxPauses \in Nat

Kinds == {"full", "realtime", "force", "maintenance"}

\* The kinds whose task is runSyncSession.
Reconciling == {"full", "force"}

VARIABLES
    kind,         \* kind[s], "none" before s is requested
    pc,           \* pc[s], where session s is
    after,        \* after[s], the session whose end s waits for (its Promise.all)
    enqueuedAt,   \* enqueuedAt[s], the moment s joined the queue
    enqueued,     \* how many sessions have joined the queue: the clock of enqueuedAt
    tail,         \* the session that joined last
    active,       \* activeSession
    pendingFull,  \* the full session that further full requests share
    pendingWork,  \* pendingWork, what hasPendingWork() tests
    owner,        \* uiOwnerSessionId
    status,       \* state.status
    syncing,      \* isSyncing
    paused,       \* isPaused
    pauses,       \* pauseGeneration
    pausesSeen,   \* pausesSeen[s], pauseGeneration when full session s was requested
    failed,       \* failed[s], whether the result of s carries an error
    observed,     \* observed[s], whether s has marked the remote revision observed
    interrupted   \* history: whether the user paused while s was unfinished and unobserved

coordinator == <<kind, pc, after, enqueuedAt, enqueued, tail, active, pendingFull, pendingWork>>
engine == <<owner, status, syncing, paused, pauses>>
results == <<pausesSeen, failed, observed, interrupted>>
vars == <<coordinator, engine, results>>

Queued == {"waiting", "entered", "guarding", "working", "finalizing", "saving",
           "resuming", "closing", "returned", "rejected"}

\* Between taking the queue and leaving it.
Inside == Queued \ {"waiting"}

Left == {"released", "done"}

\* Requested and not yet answered.
Live(s) == pc[s] \notin {"unused", "done"}

Busy == \E s \in Session : Live(s) /\ kind[s] \in {"force", "maintenance"}

Steps == {"unused", "preparing"} \cup Queued \cup Left

TypeOK ==
    /\ kind \in [Session -> Kinds \cup {"none"}]
    /\ pc \in [Session -> Steps]
    /\ after \in [Session -> Session \cup {NoSession}]
    /\ enqueuedAt \in [Session -> Nat]
    /\ enqueued \in Nat
    /\ {tail, active, pendingFull, owner} \subseteq Session \cup {NoSession}
    /\ pendingWork \in Nat
    /\ status \in {"idle", "syncing", "paused", "error"}
    /\ syncing \in BOOLEAN
    /\ paused \in BOOLEAN
    /\ pauses \in 0..MaxPauses
    /\ pausesSeen \in [Session -> 0..MaxPauses]
    /\ failed \in [Session -> BOOLEAN]
    /\ observed \in [Session -> BOOLEAN]
    /\ interrupted \in [Session -> BOOLEAN]

Init ==
    /\ kind = [s \in Session |-> "none"]
    /\ pc = [s \in Session |-> "unused"]
    /\ after = [s \in Session |-> NoSession]
    /\ enqueuedAt = [s \in Session |-> 0]
    /\ enqueued = 0
    /\ tail = NoSession
    /\ active = NoSession
    /\ pendingFull = NoSession
    /\ pendingWork = 0
    /\ owner = NoSession
    /\ status = "idle"
    /\ syncing = FALSE
    /\ paused = FALSE
    /\ pauses = 0
    /\ pausesSeen = [s \in Session |-> 0]
    /\ failed = [s \in Session |-> FALSE]
    /\ observed = [s \in Session |-> FALSE]
    /\ interrupted = [s \in Session |-> FALSE]

----------------------------------------------------------------------------
(* Helpers *)

\* Session s shows itself unless another one already does.
ShowActivity(s) ==
    IF owner \in {NoSession, s}
    THEN owner' = s /\ status' = "syncing"
    ELSE UNCHANGED <<owner, status>>

Goto(s, from, to) == pc[s] = from /\ pc' = [pc EXCEPT ![s] = to]

\* A mistake: being unpaused now is taken for not having been paused.
CurrentWithoutGeneration(s) == ~paused

\* Session s still belongs to the engine's life it was requested in.
Current(s) == ~paused /\ pausesSeen[s] = pauses

\* What a full session asserts before it goes on; a Force one has no such lifetime.
MayGoOn(s) == kind[s] = "full" => Current(s)

----------------------------------------------------------------------------
(* Requests.  A full request made while pendingFull is set is given that   *)
(* session's promise and changes nothing.  The host starts a full session  *)
(* only outside Force and maintenance, and those only when nothing is      *)
(* pending; the watcher starts realtime sessions at any time.              *)

Admitted(k) ==
    CASE k = "full"     -> pendingFull = NoSession /\ ~Busy
      [] k = "realtime" -> TRUE
      [] OTHER          -> pendingWork = 0

Request(s, k) ==
    /\ pc[s] = "unused"
    /\ Admitted(k)
    /\ pc' = [pc EXCEPT ![s] = "preparing"]
    /\ kind' = [kind EXCEPT ![s] = k]
    /\ pendingWork' = pendingWork + 1
    /\ pausesSeen' = [pausesSeen EXCEPT ![s] = pauses]
    /\ IF k = "full"
       THEN pendingFull' = s /\ ShowActivity(s)
       ELSE UNCHANGED <<pendingFull, owner, status>>
    /\ UNCHANGED <<after, enqueuedAt, enqueued, tail, active, syncing, paused, pauses,
                   failed, observed, interrupted>>

\* The prepare hook of a full session waits for the watcher's running drain,
\* that is for every realtime session under way.
Drained(s) ==
    kind[s] = "full" => \A t \in Session : kind[t] = "realtime" => ~Live(t)

\* A mistake: only the running session is waited for, not the whole queue.
EnqueueBehindActive(s) ==
    /\ Drained(s)
    /\ Goto(s, "preparing", "waiting")
    /\ after' = [after EXCEPT ![s] = active]
    /\ tail' = s
    /\ enqueuedAt' = [enqueuedAt EXCEPT ![s] = enqueued + 1]
    /\ enqueued' = enqueued + 1
    /\ ShowActivity(s)
    /\ UNCHANGED <<kind, active, pendingFull, pendingWork, syncing, paused, pauses, results>>

Enqueue(s) ==
    /\ Drained(s)
    /\ Goto(s, "preparing", "waiting")
    /\ after' = [after EXCEPT ![s] = tail]
    /\ tail' = s
    /\ enqueuedAt' = [enqueuedAt EXCEPT ![s] = enqueued + 1]
    /\ enqueued' = enqueued + 1
    /\ ShowActivity(s)
    /\ UNCHANGED <<kind, active, pendingFull, pendingWork, syncing, paused, pauses, results>>

\* Two mistakes: only a session that entered the queue stops being shared, or
\* stops owning the interface.
StillShared(s) == pendingFull
StillOwned(s) == owner

\* A rejected preparation clears the shared promise and the ownership.
Unshared(s) == IF pendingFull = s THEN NoSession ELSE pendingFull
Disowned(s) == IF owner = s THEN NoSession ELSE owner

\* The watcher's drain left work it could not settle: the session never joins
\* the queue, and its request is answered with an error.
PrepareFails(s) ==
    /\ kind[s] = "full"
    /\ Goto(s, "preparing", "done")
    /\ pendingWork' = pendingWork - 1
    /\ pendingFull' = Unshared(s)
    /\ failed' = [failed EXCEPT ![s] = TRUE]
    /\ owner' = Disowned(s)
    /\ status' = IF owner = s THEN "error" ELSE status
    /\ UNCHANGED <<kind, after, enqueuedAt, enqueued, tail, active, syncing, paused, pauses,
                   pausesSeen, observed, interrupted>>

----------------------------------------------------------------------------
(* Inside the queue *)

\* Mistakes the properties below are there to catch: the queue moves on when the
\* task returns, before its settlement; the tail rejects with a failed session.
TurnBeforeSettlement(s) ==
    after[s] # NoSession => pc[after[s]] \in Left \cup {"returned"}

TurnAfterSuccess(s) ==
    after[s] # NoSession => pc[after[s]] \in Left /\ ~failed[after[s]]

\* The promise in tail when s joined has resolved, however its session ended.
Turn(s) == after[s] # NoSession => pc[after[s]] \in Left

Enter(s) ==
    /\ Turn(s)
    /\ Goto(s, "waiting", "entered")
    /\ active' = s
    /\ ShowActivity(s)
    /\ UNCHANGED <<kind, after, enqueuedAt, enqueued, tail, pendingFull, pendingWork,
                   syncing, paused, pauses, results>>

Unchanged == UNCHANGED <<kind, after, enqueuedAt, enqueued, tail, active, pendingFull,
                         pendingWork, owner, paused, pauses, pausesSeen, interrupted>>

\* The task throws; the session's settlement is told, then the error goes on.
Reject(s, from) ==
    /\ Goto(s, from, "rejected")
    /\ failed' = [failed EXCEPT ![s] = TRUE]
    /\ syncing' = FALSE
    /\ UNCHANGED <<status, observed>>
    /\ Unchanged

\* A realtime batch, or a maintenance task, in one piece.
RunTask(s) ==
    /\ kind[s] \notin Reconciling
    /\ \/ /\ Goto(s, "entered", "returned")
          /\ \E f \in BOOLEAN : failed' = [failed EXCEPT ![s] = f]
          /\ UNCHANGED <<status, syncing, observed>>
          /\ Unchanged
       \/ Reject(s, "entered")

\* The watcher's acknowledgement could not be saved: the settlement rejects.
SettlementFails(s) ==
    /\ kind[s] = "realtime"
    /\ Reject(s, "returned")

\* runSyncSession begins.  A full session binds its reads to the life it was
\* requested in, which throws if that life is over; a paused engine answers
\* with an error.
Begin(s) ==
    /\ kind[s] \in Reconciling
    /\ MayGoOn(s)
    /\ Goto(s, "entered", "guarding")
    /\ syncing' = TRUE
    /\ UNCHANGED <<status, failed, observed>>
    /\ Unchanged

Refuse(s) ==
    /\ kind[s] = "full"
    /\ ~Current(s)
    /\ Reject(s, "entered")

Continue(s, from, to) ==
    /\ Goto(s, from, to)
    /\ UNCHANGED <<status, syncing, failed, observed>>
    /\ Unchanged

\* The watcher is paused, the guard has answered.
Guarded(s) == Continue(s, "guarding", "working")

\* Reconciliation without an error, and its lifetime asserted.
Reconciled(s) == MayGoOn(s) /\ Continue(s, "working", "finalizing")

\* A callback, the guard, the body or the lifetime failed, or the result is
\* deferred: nothing is observed.
Close(s) ==
    /\ pc[s] \in {"guarding", "working", "finalizing", "saving"}
    /\ pc' = [pc EXCEPT ![s] = "closing"]
    /\ \E f \in BOOLEAN : failed' = [failed EXCEPT ![s] = f]
    /\ UNCHANGED <<status, syncing, observed>>
    /\ Unchanged

\* The finalize callbacks are done, the lifetime is asserted once more, and
\* with no await between the two the remote revision is marked observed.
MarkObserved(s) ==
    /\ MayGoOn(s)
    /\ Goto(s, "finalizing", "saving")
    /\ observed' = [observed EXCEPT ![s] = TRUE]
    /\ UNCHANGED <<status, syncing, failed>>
    /\ Unchanged

Saved(s) ==
    /\ Goto(s, "saving", "resuming")
    /\ syncing' = FALSE
    /\ UNCHANGED <<status, failed, observed>>
    /\ Unchanged

\* The watcher has resumed, or its resume callback failed.
Resumed(s) ==
    /\ Goto(s, "resuming", "returned")
    /\ \E f \in BOOLEAN :
          /\ failed' = [failed EXCEPT ![s] = f]
          /\ status' = IF f THEN "error" ELSE "syncing"
    /\ UNCHANGED <<syncing, observed>>
    /\ Unchanged

\* The error or deferral is shown; if even saving it fails the task throws.
Closed(s) ==
    \/ /\ Goto(s, "closing", "returned")
       /\ syncing' = FALSE
       /\ status' = IF failed[s] THEN "error" ELSE "syncing"
       /\ UNCHANGED <<failed, observed>>
       /\ Unchanged
    \/ Reject(s, "closing")

\* handleSessionExit, then the coordinator forgets the active session.
Exit(s) ==
    /\ pc[s] \in {"returned", "rejected"}
    /\ pc' = [pc EXCEPT ![s] = "released"]
    /\ active' = NoSession
    /\ IF owner = s
       THEN /\ owner' = NoSession
            /\ status' = IF paused THEN "paused"
                         ELSE IF failed[s] \/ status = "error" THEN "error" ELSE "idle"
       ELSE UNCHANGED <<owner, status>>
    /\ UNCHANGED <<kind, after, enqueuedAt, enqueued, tail, pendingFull, pendingWork,
                   syncing, paused, pauses, results>>

\* The callers' promise resolves: run.finally, then shared.finally.
Release(s) ==
    /\ Goto(s, "released", "done")
    /\ pendingWork' = pendingWork - 1
    /\ pendingFull' = Unshared(s)
    /\ UNCHANGED <<kind, after, enqueuedAt, enqueued, tail, active, engine, results>>

----------------------------------------------------------------------------
(* The user.  Pausing is refused during Force and maintenance; resuming     *)
(* checks that nothing is pending, but reads the remote state before it     *)
(* takes effect, so that a session may be requested in between.             *)

\* A mistake: each repetition of the command counts, whatever the state.
PauseUnbounded ==
    /\ ~Busy
    /\ paused' = TRUE
    /\ pauses' = pauses + 1
    /\ status' = "paused"
    /\ UNCHANGED <<coordinator, owner, syncing, results>>

Pause ==
    /\ pauses < MaxPauses
    /\ ~paused
    /\ ~Busy
    /\ paused' = TRUE
    /\ pauses' = pauses + 1
    /\ status' = "paused"
    /\ interrupted' = [s \in Session |-> interrupted[s] \/ (Live(s) /\ ~observed[s])]
    /\ UNCHANGED <<coordinator, owner, syncing, pausesSeen, failed, observed>>

Resume ==
    /\ paused
    /\ paused' = FALSE
    /\ status' = "idle"
    /\ UNCHANGED <<coordinator, owner, syncing, pauses, results>>

----------------------------------------------------------------------------

Step(s) ==
    \/ Enqueue(s) \/ PrepareFails(s)
    \/ Enter(s) \/ RunTask(s) \/ SettlementFails(s)
    \/ Begin(s) \/ Refuse(s) \/ Guarded(s) \/ Reconciled(s) \/ Close(s)
    \/ MarkObserved(s) \/ Saved(s) \/ Resumed(s) \/ Closed(s)
    \/ Exit(s) \/ Release(s)

Next ==
    \/ \E s \in Session : Step(s) \/ \E k \in Kinds : Request(s, k)
    \/ Pause
    \/ Resume

Spec == Init /\ [][Next]_vars

\* Preparation, network and storage calls of a session return: each has its
\* own budget and deadline.
FairSpec == Spec /\ \A s \in Session : WF_vars(Step(s))

----------------------------------------------------------------------------
(* Properties *)

\* Sessions never overlap: from entering until its settlement and its exit hook
\* are over a session is alone, however the ones before it ended, and
\* activeSession names it (coordinator.ts:117-184).
OneActive ==
    \A s \in Session : pc[s] \in Inside =>
        /\ active = s
        /\ \A t \in Session \ {s} : pc[t] \notin Inside

\* The shared promise is exactly the unanswered full session: a request is
\* never given a promise of the past, and no second full session runs beside
\* the first (coordinator.ts:70-96).
FullShared ==
    \A s \in Session : kind[s] = "full" /\ Live(s) <=> pendingFull = s

\* The interface belongs to a session that is still to be answered: no failed
\* preparation, failed settlement or overlap leaves the plugin showing, and
\* the scheduler believing in, a synchronisation that is over
\* (engine.ts:374-376, 512-540, 605-670, 1413-1431).
OwnerIsLive ==
    /\ owner # NoSession => Live(owner)
    /\ status = "syncing" => \E s \in Session : Live(s)
    /\ syncing => \E s \in Session : active = s /\ kind[s] \in Reconciling

\* A full session that the user's pause fell into, even if resumed since,
\* never marks the remote revision observed (engine.ts:797-811, 1606-1627).
PausedNotObserved ==
    \A s \in Session : kind[s] = "full" /\ observed[s] => ~interrupted[s]

\* Sessions enter in the order in which they joined the queue.
EntersInOrder ==
    \A s, t \in Session :
        pc[s] = "waiting" /\ pc'[s] = "entered" /\ pc[t] = "waiting" /\ t # s
            => enqueuedAt[s] < enqueuedAt[t]

FirstComeFirstServed == [][EntersInOrder]_vars

\* Every request is answered: neither a failed session nor a full session that
\* waits for realtime work blocks the queue for ever.
EveryRequestAnswered ==
    \A s \in Session : pc[s] = "preparing" ~> pc[s] = "done"

\* What the scenarios say of a pause: it stays visible when the sessions that
\* were admitted before it are over.
PauseStaysVisible ==
    paused /\ (\A s \in Session : ~Live(s)) => status = "paused"

============================================================================
