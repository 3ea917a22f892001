----------------------------- MODULE RemoteRead -----------------------------
(***************************************************************************)
(* Reads of the remote client: the request loop of api/yandex-client.ts    *)
(* for GET over RemoteReadTransport (api/read-transport.ts).  The host     *)
(* cannot cancel a native request, so a caller that has waited long enough *)
(* leaves it running: its permit is held until it returns, which may be    *)
(* never.  A read left so may be replaced once, from a pool of its own.    *)
(* A change of token, path or encryption interrupts the reads in progress. *)
(***************************************************************************)
EXTENDS Naturals, FiniteSets

CONSTANTS
    Read,           \* the reads the client is asked for
    Replaceable,    \* those of the endpoints that canReplace names
    MaxRetries,     \* attempts after the first one
    Limits,         \* values of the concurrency setting
    ReserveLimit,   \* permits for replacements, 2 in the code
    MaxSettings,    \* bound on changes of that setting
    MaxInterrupts   \* bound on interruptions

ASSUME ReadsAssumption == IsFiniteSet(Read) /\ Replaceable \subseteq Read
ASSUME RetriesAssumption == MaxRetries \in Nat
ASSUME LimitsAssumption == Limits # {} /\ Limits \subseteq 1..40
ASSUME ReserveAssumption == ReserveLimit \in Nat \ {0}
ASSUME BoundsAssumption == MaxSettings \in Nat /\ MaxInterrupts \in Nat

Attempt == Read \X (0..MaxRetries)

Pool == {"normal", "reserve"}

VARIABLES
    limit,      \* concurrency of the transport
    active,     \* active[pool]: permits counted as held
    waiters,    \* attempts without a permit that dispatch looks at
    age,        \* age[a]: a waiter that came earlier has a greater one
    att,        \* att[a]: the attempt as the transport sees it
    rd,         \* rd[r]: the read as its caller sees it
    settings, interrupts

transport == <<limit, active, waiters, age, att>>
vars == <<limit, active, waiters, age, att, rd, settings, interrupts>>

\* n counts the attempts, late says that the deadline has passed, revoked that
\* the signal is aborted.
Idle == [pc |-> "idle", n |-> 0, replacement |-> FALSE,
         late |-> FALSE, revoked |-> FALSE, out |-> "none"]

Fresh == [pc |-> "new", pool |-> "normal", permit |-> FALSE, result |-> "none"]

Past == [Fresh EXCEPT !.pc = "over"]

Init ==
    /\ limit \in Limits
    /\ active = [p \in Pool |-> 0]
    /\ waiters = {}
    /\ age = [a \in Attempt |-> 0]
    /\ att = [a \in Attempt |-> Fresh]
    /\ rd = [r \in Read |-> Idle]
    /\ settings = 0 /\ interrupts = 0

----------------------------------------------------------------------------
(* Permits.                                                                *)

Limit(p, lim) == IF p = "reserve" THEN ReserveLimit ELSE lim

\* A mistake: one permit too many.
RoomAndOne(p, act, lim) == IF act[p] > Limit(p, lim) THEN 0 ELSE Limit(p, lim) + 1 - act[p]

Room(p, act, lim) == IF act[p] >= Limit(p, lim) THEN 0 ELSE Limit(p, lim) - act[p]

\* A mistake: the newest first.
Behind(a, ws, ag, at) == {w \in ws : at[w].pool = at[a].pool /\ ag[w] < ag[a]}

Ahead(a, ws, ag, at) == {w \in ws : at[w].pool = at[a].pool /\ ag[w] > ag[a]}

\* The waiters that dispatch grants a permit: the oldest of each pool, while it has room.
Granted(ws, ag, at, act, lim) ==
    {a \in ws : Cardinality(Ahead(a, ws, ag, at)) < Room(at[a].pool, act, lim)}

\* dispatch, after the transport has come to ws, ag, at, act and lim.
Dispatch(ws, ag, at, act, lim) ==
    LET given == Granted(ws, ag, at, act, lim)
    IN  /\ waiters' = ws \ given
        /\ age' = [a \in Attempt |-> IF a \in ws \ given THEN ag[a] ELSE 0]
        /\ att' = [a \in Attempt |->
                      IF a \in given
                      THEN [at[a] EXCEPT !.permit = TRUE, !.pc = IF @ = "queued" THEN "granted" ELSE @]
                      ELSE at[a]]
        /\ active' = [p \in Pool |-> act[p] + Cardinality({a \in given : at[a].pool = p})]
        /\ limit' = lim

\* Mistakes: an attempt stopped while it waited cannot have a permit; every attempt has one.
KeepsPermit(a) ==
    IF att[a].permit /\ att[a].pc # "stopping" THEN [active EXCEPT ![att[a].pool] = @ - 1] ELSE active

ReturnsAlways(a) == [active EXCEPT ![att[a].pool] = @ - 1]

\* The attempt a becomes x, and gives back the permit it has, if any.
Returned(a) == IF att[a].permit THEN [active EXCEPT ![att[a].pool] = @ - 1] ELSE active

Ended(a, x) == [att EXCEPT ![a] = [x EXCEPT !.permit = FALSE]]

Release(a, x) == Dispatch(waiters \ {a}, age, Ended(a, x), Returned(a), limit)

\* A mistake: more room, and nobody told.
SetQuietly(n) ==
    /\ settings < MaxSettings
    /\ n # limit
    /\ settings' = settings + 1
    /\ limit' = n
    /\ UNCHANGED <<active, waiters, age, att, rd, interrupts>>

SetConcurrency(n) ==
    /\ settings < MaxSettings
    /\ n # limit
    /\ settings' = settings + 1
    /\ Dispatch(waiters, age, att, active, n)
    /\ UNCHANGED <<rd, interrupts>>

----------------------------------------------------------------------------
(* The loop of the client.                                                 *)

Live(r) == rd[r].pc \notin {"idle", "done"}

\* A mistake: an interruption is not looked for.
OverByTime(r) == rd[r].late

Over(r) == rd[r].late \/ rd[r].revoked

Answer(r, out) == rd' = [rd EXCEPT ![r] = [Idle EXCEPT !.pc = "done", !.out = out]]

\* remainingReadTime and assertBudget; which error it is makes no difference here.
Refused(r) == Answer(r, "error")

Begin(r) ==
    /\ rd[r].pc = "idle"
    /\ rd' = [rd EXCEPT ![r].pc = "start"]
    /\ UNCHANGED <<transport, settings, interrupts>>

Current(r) == <<r, rd[r].n>>

\* Each attempt of the loop, the first one and those after a delay.
Ask(r) ==
    /\ rd[r].pc \in {"start", "backoff"}
    /\ IF Over(r) THEN Refused(r) /\ UNCHANGED transport
       ELSE LET n == IF rd[r].pc = "start" THEN 0 ELSE rd[r].n + 1
                a == <<r, n>>
                x == [Fresh EXCEPT !.pc = "queued",
                                   !.pool = IF rd[r].replacement THEN "reserve" ELSE "normal"]
            IN  /\ rd' = [rd EXCEPT ![r].pc = "waiting", ![r].n = n]
                /\ Dispatch(waiters \cup {a},
                            [w \in Attempt |-> IF w \in waiters THEN age[w] + 1 ELSE 0],
                            [att EXCEPT ![a] = x], active, limit)
    /\ UNCHANGED <<settings, interrupts>>

Retries(r) == ~rd[r].replacement /\ rd[r].n < MaxRetries

\* What the loop does with an attempt that failed.
Failed(r, transient) ==
    IF transient /\ Retries(r) THEN rd' = [rd EXCEPT ![r].pc = "backoff"]
    ELSE Answer(r, "error")

\* A mistake: again and again.
ReplacesAgain(r) == r \in Replaceable /\ rd[r].n < MaxRetries

\* An attempt that is still running is replaced, once.
Replaces(r) == r \in Replaceable /\ ~rd[r].replacement /\ rd[r].n < MaxRetries

Unresolved(r) ==
    IF Replaces(r) /\ ~Over(r)
    THEN rd' = [rd EXCEPT ![r].pc = "backoff", ![r].replacement = TRUE]
    ELSE Refused(r)

----------------------------------------------------------------------------
(* An attempt in the transport.                                            *)

\* A mistake: a deadline does not end the wait.
StopOnlyRevoked(r) ==
    /\ att[Current(r)].pc = "queued"
    /\ rd[r].revoked
    /\ att' = [att EXCEPT ![Current(r)].pc = "stopping"]
    /\ UNCHANGED <<limit, active, waiters, age, rd, settings, interrupts>>

\* The wait for a permit is rejected; until the caller continues, the waiter
\* is still there and may be granted one.
StopWaiting(r) ==
    /\ att[Current(r)].pc = "queued"
    /\ Over(r)
    /\ att' = [att EXCEPT ![Current(r)].pc = "stopping"]
    /\ UNCHANGED <<limit, active, waiters, age, rd, settings, interrupts>>

Stop(r) ==
    LET a == Current(r)
    IN  /\ att[a].pc = "stopping"
        /\ Release(a, Past)
        /\ Refused(r)
        /\ UNCHANGED <<settings, interrupts>>

\* The caller continues with its permit: too late, or with the native request.
Start(r) ==
    LET a == Current(r)
    IN  /\ att[a].pc = "granted"
        /\ IF Over(r)
           THEN Release(a, Past) /\ Refused(r)
           ELSE /\ att' = [att EXCEPT ![a].pc = "running"]
                /\ UNCHANGED <<limit, active, waiters, age, rd>>
        /\ UNCHANGED <<settings, interrupts>>

Results == {"ok", "transient", "fatal"}

\* The native request returns, whether its caller still waits or has left.
NativeReturns(a) ==
    /\ att[a].pc \in {"running", "left"}
    /\ \E result \in Results :
          Release(a, IF att[a].pc = "running"
                     THEN [att[a] EXCEPT !.pc = "returned", !.result = result]
                     ELSE Past)
    /\ UNCHANGED <<rd, settings, interrupts>>

\* The caller stops waiting: its time for one attempt, or the deadline, is
\* over, or it is interrupted.
Leave(r) ==
    LET a == Current(r)
    IN  /\ att[a].pc = "running"
        /\ att' = [att EXCEPT ![a].pc = "left"]
        /\ Unresolved(r)
        /\ UNCHANGED <<limit, active, waiters, age, settings, interrupts>>

Deliver(r) ==
    LET a == Current(r)
    IN  /\ att[a].pc = "returned"
        /\ att' = [att EXCEPT ![a] = Past]
        /\ CASE Over(r) -> Refused(r)
             [] ~Over(r) /\ att[a].result = "ok" -> Answer(r, "response")
             [] ~Over(r) /\ att[a].result # "ok" -> Failed(r, att[a].result = "transient")
        /\ UNCHANGED <<limit, active, waiters, age, settings, interrupts>>

----------------------------------------------------------------------------

\* Time passes.
Expire(r) ==
    /\ Live(r)
    /\ ~rd[r].late
    /\ rd' = [rd EXCEPT ![r].late = TRUE]
    /\ UNCHANGED <<transport, settings, interrupts>>

\* interruptReads: the signal of every read in progress.
Interrupt ==
    /\ interrupts < MaxInterrupts
    /\ interrupts' = interrupts + 1
    /\ rd' = [r \in Read |-> IF Live(r) THEN [rd[r] EXCEPT !.revoked = TRUE] ELSE rd[r]]
    /\ UNCHANGED <<transport, settings>>

\* What callbacks and timers do, as against the native requests.
Step(r) ==
    \/ Ask(r) \/ StopWaiting(r) \/ Stop(r) \/ Start(r) \/ Leave(r) \/ Deliver(r)

Next ==
    \/ \E r \in Read : Begin(r) \/ Step(r) \/ Expire(r)
    \/ \E a \in Attempt : NativeReturns(a)
    \/ \E n \in Limits : SetConcurrency(n)
    \/ Interrupt

\* Time passes and callbacks run; a native request may never return.
Fairness == \A r \in Read : WF_vars(Step(r)) /\ WF_vars(Expire(r))

Spec == Init /\ [][Next]_vars /\ Fairness

----------------------------------------------------------------------------
(* Properties.                                                             *)

AttemptType ==
    [pc : {"new", "queued", "stopping", "granted", "running", "returned", "left", "over"},
     pool : Pool, permit : BOOLEAN, result : Results \cup {"none"}]

ReadType ==
    [pc : {"idle", "start", "waiting", "backoff", "done"}, n : 0..MaxRetries,
     replacement : BOOLEAN, late : BOOLEAN, revoked : BOOLEAN,
     out : {"none", "response", "error"}]

\* Every variable of the transport and of its callers has its type.
TypeOK ==
    /\ limit \in 1..40
    /\ active \in [Pool -> Nat]
    /\ waiters \subseteq Attempt
    /\ age \in [Attempt -> Nat]
    /\ att \in [Attempt -> AttemptType]
    /\ rd \in [Read -> ReadType]
    /\ settings \in 0..MaxSettings /\ interrupts \in 0..MaxInterrupts

\* The counters are right whatever callers do while they wait: a permit is
\* held exactly by an attempt that goes on, or whose native request still runs.
PermitsCounted ==
    /\ \A p \in Pool : active[p] = Cardinality({a \in Attempt : att[a].permit /\ att[a].pool = p})
    /\ \A a \in Attempt :
          /\ att[a].pc \in {"granted", "running", "left"} => att[a].permit
          /\ att[a].pc \in {"new", "queued", "returned", "over"} => ~att[a].permit

\* No read waits for a permit while its pool has room.
NobodyWaitsForRoom ==
    \A a \in waiters : active[att[a].pool] >= Limit(att[a].pool, limit)

\* However often a read is tried, at most two requests of it are on the network.
TwoNatives ==
    \A r \in Read : Cardinality({n \in 0..MaxRetries : att[<<r, n>>].pc \in {"running", "left"}}) <= 2

\* A step that starts to hold permits of a pool stays within its limit, also
\* when the limit has just been lowered below what is in use.
GrantsWithinLimit ==
    [][\A p \in Pool : active'[p] > active[p] => active'[p] <= Limit(p, limit')]_vars

\* Permits go to the reads of a pool in the order in which they came.
OldestFirst ==
    [][\A a, b \in waiters :
          att[a].pool = att[b].pool /\ age[a] > age[b] /\ b \notin waiters' /\ att'[b].permit
              => a \notin waiters']_vars

\* A read in progress when the token, the path or the encryption changes is
\* not answered with what it read before.
NothingFromBefore ==
    [][\A r \in Read : rd'[r].out = "response" /\ rd[r].out # "response" => ~rd[r].revoked]_vars

\* Every read is answered, even if no native request ever returns.
EveryReadAnswered == \A r \in Read : (rd[r].pc # "idle") ~> (rd[r].pc = "done")
=============================================================================
