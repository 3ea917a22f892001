-------------------------- MODULE RemoteReadProofs --------------------------
(***************************************************************************)
(* Theorems about RemoteRead for any number of reads and retries, any      *)
(* limits and any number of changes and interruptions.  The counters of    *)
(* the transport agree with the permits that attempts hold because only a  *)
(* waiter, which has none, is ever granted one, and the callers' loops     *)
(* never touch an attempt that is not theirs.  Nobody waits while there is *)
(* room because every change of the permits ends in a dispatch, and a read *)
(* has two requests on the network at most because it is replaced once.    *)
(***************************************************************************)
EXTENDS RemoteRead, Integers, FiniteSetTheorems, WellFoundedInduction, TLAPS

Held(p, at) == {a \in Attempt : at[a].permit /\ at[a].pool = p}

Counted(act, at) == \A p \in Pool : act[p] = Cardinality(Held(p, at))

\* Where an attempt may have a permit, and where it must.
PermitPc(at) ==
    \A a \in Attempt :
        /\ at[a].pc \in {"granted", "running", "left"} => at[a].permit
        /\ at[a].pc \in {"new", "queued", "returned", "over"} => ~at[a].permit

\* Waiters wait, have no permit, and came one after the other.
WaitersOK(ws, ag, at) ==
    /\ \A a \in ws : at[a].pc \in {"queued", "stopping"} /\ ~at[a].permit
    /\ \A a, b \in ws : ag[a] = ag[b] => a = b

TransportType(lim, act, ws, ag, at) ==
    /\ lim \in 1..40
    /\ act \in [Pool -> Nat]
    /\ ws \subseteq Attempt
    /\ ag \in [Attempt -> Nat]
    /\ at \in [Attempt -> AttemptType]

TransportInv(lim, act, ws, ag, at) ==
    /\ TransportType(lim, act, ws, ag, at)
    /\ Counted(act, at)
    /\ PermitPc(at)
    /\ WaitersOK(ws, ag, at)

----------------------------------------------------------------------------
(* Dispatch.                                                               *)

LEMMA AttemptsFinite == IsFiniteSet(Attempt)
<1>1. IsFiniteSet(0..MaxRetries)
  BY RetriesAssumption, FS_Interval
<1> QED
  BY <1>1, ReadsAssumption, FS_Product DEF Attempt

LEMMA SubsetsFinite ==
  ASSUME NEW S \in SUBSET Attempt
  PROVE  IsFiniteSet(S) /\ Cardinality(S) \in Nat
BY AttemptsFinite, FS_Subset, FS_CardinalityType

LEMMA LimitType ==
  ASSUME NEW p \in Pool, NEW lim \in 1..40
  PROVE  Limit(p, lim) \in Nat
BY ReserveAssumption DEF Limit

\* Of two waiters of a pool, those ahead of the older one are ahead of the
\* other, and so is the older one itself: it has fewer ahead.
LEMMA OlderHasFewerAhead ==
  ASSUME NEW ws \in SUBSET Attempt, NEW ag \in [Attempt -> Nat], NEW at,
         NEW a \in ws, NEW b \in ws, at[a].pool = at[b].pool, ag[a] > ag[b]
  PROVE  Cardinality(Ahead(a, ws, ag, at)) < Cardinality(Ahead(b, ws, ag, at))
<1> DEFINE A == Ahead(a, ws, ag, at)
           B == Ahead(b, ws, ag, at)
<1>1. A \in SUBSET B
  <2> SUFFICES ASSUME NEW w \in A PROVE w \in B
    OBVIOUS
  <2>1. w \in Attempt /\ ag[w] \in Nat /\ ag[a] \in Nat /\ ag[b] \in Nat
    BY DEF Ahead
  <2> QED
    BY <2>1 DEF Ahead
<1>2. a \in B /\ a \notin A
  BY DEF Ahead
<1>3. B \in SUBSET Attempt /\ A \in SUBSET Attempt
  BY DEF Ahead
<1>4. IsFiniteSet(B) /\ Cardinality(A) \in Nat /\ Cardinality(B) \in Nat
  BY <1>3, SubsetsFinite
<1>5. Cardinality(A) <= Cardinality(B) /\ (Cardinality(B) = Cardinality(A) => B = A)
  BY <1>1, <1>4, FS_Subset
<1> QED
  BY <1>2, <1>4, <1>5

\* No more waiters of a pool are granted a permit than it has room for.
LEMMA GrantsFit ==
  ASSUME NEW ws \in SUBSET Attempt, NEW ag \in [Attempt -> Nat], NEW at,
         NEW act \in [Pool -> Nat], NEW lim \in 1..40, NEW p \in Pool,
         \A a, b \in ws : ag[a] = ag[b] => a = b
  PROVE  Cardinality({a \in Granted(ws, ag, at, act, lim) : at[a].pool = p}) <= Room(p, act, lim)
<1> DEFINE G == {a \in Granted(ws, ag, at, act, lim) : at[a].pool = p}
           room == Room(p, act, lim)
           ranks == 0..(room - 1)
           rank == [a \in G |-> Cardinality(Ahead(a, ws, ag, at))]
<1>1. G \in SUBSET Attempt /\ G \subseteq ws
  BY DEF Granted
<1>2. IsFiniteSet(G) /\ Cardinality(G) \in Nat
  BY <1>1, SubsetsFinite
<1>3. room \in Nat
  BY LimitType DEF Room
<1>4. IsFiniteSet(ranks) /\ Cardinality(ranks) = room
  <2> HIDE DEF room
  <2>1. 0 \in Int /\ room - 1 \in Int
    BY <1>3
  <2>2. IsFiniteSet(ranks) /\ Cardinality(ranks) = IF 0 > room - 1 THEN 0 ELSE room - 1 - 0 + 1
    BY <2>1, FS_Interval
  <2> QED
    BY <1>3, <2>2
<1>5. rank \in [G -> ranks]
  <2> SUFFICES ASSUME NEW a \in G PROVE Cardinality(Ahead(a, ws, ag, at)) \in ranks
    OBVIOUS
  <2>1. Ahead(a, ws, ag, at) \in SUBSET Attempt
    BY DEF Ahead
  <2>2. Cardinality(Ahead(a, ws, ag, at)) \in Nat
    BY <2>1, SubsetsFinite
  <2>3. Cardinality(Ahead(a, ws, ag, at)) < room
    BY DEF Granted
  <2> QED
    BY <1>3, <2>2, <2>3
<1>6. ASSUME NEW x \in G, NEW y \in G, x # y PROVE rank[x] # rank[y]
  <2>1. x \in ws /\ y \in ws /\ at[x].pool = at[y].pool /\ ag[x] \in Nat /\ ag[y] \in Nat
    BY <1>1
  <2>2. ag[x] > ag[y] \/ ag[y] > ag[x]
    BY <1>6, <2>1
  <2>3. Ahead(x, ws, ag, at) \in SUBSET Attempt /\ Ahead(y, ws, ag, at) \in SUBSET Attempt
    BY DEF Ahead
  <2>4. rank[x] \in Nat /\ rank[y] \in Nat
    BY <2>3, SubsetsFinite
  <2>5. CASE ag[x] > ag[y]
    <3>1. Cardinality(Ahead(x, ws, ag, at)) < Cardinality(Ahead(y, ws, ag, at))
      BY <2>1, <2>5, OlderHasFewerAhead
    <3> QED
      BY <2>4, <3>1
  <2>6. CASE ag[y] > ag[x]
    <3>1. Cardinality(Ahead(y, ws, ag, at)) < Cardinality(Ahead(x, ws, ag, at))
      BY <2>1, <2>6, OlderHasFewerAhead
    <3> QED
      BY <2>4, <3>1
  <2> QED
    BY <2>2, <2>5, <2>6
<1>7. ~(Cardinality(ranks) < Cardinality(G))
  <2> HIDE DEF G, ranks, rank
  <2> QED
    BY <1>2, <1>4, <1>5, <1>6, FS_PigeonHole
<1> QED
  BY <1>2, <1>3, <1>4, <1>7

\* What dispatch does to one attempt.
Given(x) == [x EXCEPT !.permit = TRUE, !.pc = IF @ = "queued" THEN "granted" ELSE @]

LEMMA GivenType ==
  ASSUME NEW x \in AttemptType
  PROVE  /\ Given(x) \in AttemptType
         /\ Given(x).permit
         /\ Given(x).pool = x.pool
         /\ Given(x).pc = IF x.pc = "queued" THEN "granted" ELSE x.pc
BY DEF Given, AttemptType

LEMMA DispatchOne ==
  ASSUME NEW ws, NEW ag, NEW at \in [Attempt -> AttemptType],
         NEW act, NEW lim, Dispatch(ws, ag, at, act, lim), NEW a \in Attempt
  PROVE  att'[a] = IF a \in Granted(ws, ag, at, act, lim) THEN Given(at[a]) ELSE at[a]
BY DEF Dispatch, Given

\* The counters and the permits go together, whatever dispatch starts from.
LEMMA DispatchKeeps ==
  ASSUME NEW ws, NEW ag, NEW at, NEW act, NEW lim,
         TransportInv(lim, act, ws, ag, at), Dispatch(ws, ag, at, act, lim)
  PROVE  TransportInv(limit', active', waiters', age', att')
<1> USE DEF TransportInv, TransportType
<1> DEFINE given == Granted(ws, ag, at, act, lim)
           part(p) == {a \in given : at[a].pool = p}
<1>1. given \subseteq ws /\ ws \in SUBSET Attempt
  BY DEF Granted
<1>0. \A a \in Attempt : att'[a] = IF a \in given THEN Given(at[a]) ELSE at[a]
  BY DispatchOne
<1>2. \A p \in Pool : Cardinality(part(p)) \in Nat /\ IsFiniteSet(part(p))
  <2> SUFFICES ASSUME NEW p \in Pool PROVE Cardinality(part(p)) \in Nat /\ IsFiniteSet(part(p))
    OBVIOUS
  <2>1. part(p) \in SUBSET Attempt
    BY <1>1
  <2> QED
    BY <2>1, SubsetsFinite
<1>3. TransportType(limit', active', waiters', age', att')
  <2>1. limit' = lim /\ waiters' \subseteq Attempt
    BY <1>1 DEF Dispatch
  <2>2. active' \in [Pool -> Nat]
    <3>1. active' = [p \in Pool |-> act[p] + Cardinality(part(p))]
      BY DEF Dispatch
    <3> HIDE DEF part
    <3> QED
      BY <1>2, <3>1
  <2>3. age' \in [Attempt -> Nat]
    BY DEF Dispatch
  <2>4. att' \in [Attempt -> AttemptType]
    <3>1. \A a \in Attempt : att'[a] \in AttemptType
      <4> SUFFICES ASSUME NEW a \in Attempt PROVE att'[a] \in AttemptType
        OBVIOUS
      <4>1. at[a] \in AttemptType
        OBVIOUS
      <4> QED
        BY <1>0, <4>1, GivenType
    <3>2. att' = [a \in Attempt |-> att'[a]]
      BY DEF Dispatch
    <3> QED
      BY <3>1, <3>2
  <2> QED
    BY <2>1, <2>2, <2>3, <2>4
<1>4. Counted(active', att')
  <2> SUFFICES ASSUME NEW p \in Pool PROVE active'[p] = Cardinality(Held(p, att'))
    BY DEF Counted
  <2>1. active'[p] = act[p] + Cardinality(part(p))
    BY DEF Dispatch
  <2>2. Held(p, att') = Held(p, at) \cup part(p)
    <3>1. \A a \in Attempt : a \in Held(p, att') <=> a \in Held(p, at) \cup part(p)
      <4> SUFFICES ASSUME NEW a \in Attempt
                   PROVE  a \in Held(p, att') <=> a \in Held(p, at) \cup part(p)
        OBVIOUS
      <4>1. CASE a \in given
        <5> HIDE DEF given
        <5>1. att'[a].permit /\ att'[a].pool = at[a].pool
          BY <1>0, <4>1, GivenType
        <5> USE DEF given
        <5> QED
          BY <4>1, <5>1 DEF Held
      <4>2. CASE a \notin given
        <5>1. att'[a] = at[a]
          BY <1>0, <4>2
        <5> QED
          BY <4>2, <5>1 DEF Held
      <4> QED
        BY <4>1, <4>2
    <3>2. part(p) \subseteq Attempt
      BY <1>1
    <3> QED
      BY <3>1, <3>2 DEF Held
  <2>3. Held(p, at) \cap part(p) = {}
    BY <1>1 DEF Held, WaitersOK
  <2>4. IsFiniteSet(Held(p, at)) /\ Cardinality(Held(p, at)) \in Nat
    <3>1. Held(p, at) \in SUBSET Attempt
      BY DEF Held
    <3> QED
      BY <3>1, SubsetsFinite
  <2>5. Cardinality(Held(p, at) \cap part(p)) = 0
    BY <2>3, FS_EmptySet
  <2>6. Cardinality(Held(p, at) \cup part(p))
          = Cardinality(Held(p, at)) + Cardinality(part(p)) - Cardinality(Held(p, at) \cap part(p))
    <3> HIDE DEF part
    <3> QED
      BY <1>2, <2>4, FS_Union
  <2>7. act[p] = Cardinality(Held(p, at))
    BY DEF Counted
  <2> HIDE DEF part, given
  <2> QED
    BY <1>2, <2>1, <2>2, <2>4, <2>5, <2>6, <2>7
<1>5. PermitPc(att')
  <2> SUFFICES ASSUME NEW a \in Attempt
               PROVE  /\ att'[a].pc \in {"granted", "running", "left"} => att'[a].permit
                      /\ att'[a].pc \in {"new", "queued", "returned", "over"} => ~att'[a].permit
    BY DEF PermitPc
  <2>1. CASE a \in given
    <3>1. at[a].pc \in {"queued", "stopping"}
      BY <1>1, <2>1 DEF WaitersOK
    <3>2. att'[a] = Given(at[a]) /\ at[a] \in AttemptType
      BY <1>0, <2>1
    <3>3. att'[a].permit /\ att'[a].pc \in {"granted", "stopping"}
      <4> HIDE DEF given
      <4> QED
        BY <3>1, <3>2, GivenType
    <3> QED
      BY <3>3
  <2>2. CASE a \notin given
    <3>1. att'[a] = at[a]
      BY <1>0, <2>2
    <3> QED
      BY <3>1 DEF PermitPc
  <2> QED
    BY <2>1, <2>2
<1>6. WaitersOK(waiters', age', att')
  <2>1. waiters' = ws \ given
    BY DEF Dispatch
  <2>2. \A a \in waiters' : att'[a] = at[a] /\ age'[a] = ag[a]
    <3> SUFFICES ASSUME NEW a \in waiters' PROVE att'[a] = at[a] /\ age'[a] = ag[a]
      OBVIOUS
    <3>1. a \in Attempt /\ a \notin given /\ a \in ws \ given
      BY <2>1, <1>1
    <3>2. age'[a] = ag[a]
      BY <3>1 DEF Dispatch
    <3> QED
      BY <1>0, <3>1, <3>2
  <2> QED
    BY <2>1, <2>2 DEF WaitersOK
<1> QED
  BY <1>3, <1>4, <1>5, <1>6

\* What dispatch adds to a pool stays within its limit.
LEMMA DispatchLimits ==
  ASSUME NEW ws, NEW ag, NEW at, NEW act, NEW lim,
         TransportInv(lim, act, ws, ag, at), Dispatch(ws, ag, at, act, lim),
         NEW p \in Pool, active'[p] > act[p]
  PROVE  active'[p] <= Limit(p, limit')
<1> DEFINE part == {a \in Granted(ws, ag, at, act, lim) : at[a].pool = p}
<1>1. active'[p] = act[p] + Cardinality(part) /\ limit' = lim
  BY DEF Dispatch
<1>2. Cardinality(part) <= Room(p, act, lim)
  <2>1. /\ ws \in SUBSET Attempt /\ ag \in [Attempt -> Nat] /\ act \in [Pool -> Nat]
        /\ lim \in 1..40 /\ \A a, b \in ws : ag[a] = ag[b] => a = b
    BY DEF TransportInv, TransportType, WaitersOK
  <2> QED
    BY <2>1, GrantsFit
<1>3. Cardinality(part) \in Nat
  <2>1. part \in SUBSET Attempt
    BY DEF Granted, TransportInv, TransportType
  <2> QED
    BY <2>1, SubsetsFinite
<1>4. act[p] \in Nat /\ Limit(p, lim) \in Nat
  BY LimitType DEF TransportInv, TransportType
<1> HIDE DEF part
<1> QED
  BY <1>1, <1>2, <1>3, <1>4 DEF Room

\* A waiter that dispatch passes over has no younger one of its pool granted.
LEMMA DispatchOrder ==
  ASSUME NEW ws, NEW ag, NEW at, NEW act, NEW lim,
         TransportInv(lim, act, ws, ag, at), Dispatch(ws, ag, at, act, lim),
         NEW a \in ws, NEW b \in ws, at[a].pool = at[b].pool, ag[a] > ag[b], b \notin waiters'
  PROVE  a \notin waiters'
<1>1. ws \in SUBSET Attempt /\ ag \in [Attempt -> Nat] /\ act \in [Pool -> Nat]
      /\ lim \in 1..40 /\ at[b].pool \in Pool
  BY DEF TransportInv, TransportType, AttemptType
<1>2. Cardinality(Ahead(b, ws, ag, at)) < Room(at[b].pool, act, lim)
  BY DEF Dispatch, Granted
<1>3. Cardinality(Ahead(a, ws, ag, at)) < Cardinality(Ahead(b, ws, ag, at))
  BY <1>1, OlderHasFewerAhead
<1>4. /\ Cardinality(Ahead(a, ws, ag, at)) \in Nat
      /\ Cardinality(Ahead(b, ws, ag, at)) \in Nat
  <2>1. Ahead(a, ws, ag, at) \in SUBSET Attempt /\ Ahead(b, ws, ag, at) \in SUBSET Attempt
    BY <1>1 DEF Ahead
  <2> QED
    BY <2>1, SubsetsFinite
<1>5. Room(at[b].pool, act, lim) \in Nat
  BY <1>1, LimitType DEF Room
<1>6. Cardinality(Ahead(a, ws, ag, at)) < Room(at[a].pool, act, lim)
  BY <1>2, <1>3, <1>4, <1>5
<1> QED
  BY <1>6 DEF Dispatch, Granted

----------------------------------------------------------------------------
(* The loops of the callers.                                               *)

Busy == {"queued", "stopping", "granted", "running", "returned"}

\* An attempt in progress is the current one of its read; the later ones of a
\* read that is not over are new.
LoopInv(loop, at) ==
    /\ loop \in [Read -> ReadType]
    /\ \A r \in Read, n \in 0..MaxRetries :
          /\ at[<<r, n>>].pc \in Busy => loop[r].pc = "waiting" /\ loop[r].n = n
          /\ \/ loop[r].pc \in {"idle", "start"}
             \/ loop[r].pc \in {"waiting", "backoff"} /\ n > loop[r].n
             => at[<<r, n>>].pc = "new"
    /\ \A r \in Read : loop[r].pc = "backoff" => loop[r].n < MaxRetries

BoundsOK == settings \in 0..MaxSettings /\ interrupts \in 0..MaxInterrupts

IInv ==
    /\ TransportInv(limit, active, waiters, age, att)
    /\ LoopInv(rd, att)
    /\ BoundsOK

LEMMA InvImplies == IInv => TypeOK /\ PermitsCounted
BY DEF IInv, BoundsOK, TransportInv, TransportType, LoopInv, TypeOK, PermitsCounted, Counted,
       Held, PermitPc

LEMMA CurrentType ==
  ASSUME IInv, NEW r \in Read
  PROVE  /\ rd[r] \in ReadType
         /\ Current(r) \in Attempt /\ att[Current(r)] \in AttemptType
BY RetriesAssumption DEF IInv, TransportInv, TransportType, LoopInv, ReadType, Current, Attempt

LEMMA InitInv == Init => IInv
<1> SUFFICES ASSUME Init PROVE IInv
  OBVIOUS
<1>1. TransportType(limit, active, waiters, age, att)
  BY LimitsAssumption DEF Init, Fresh, TransportType, AttemptType, Pool
<1>2. Counted(active, att)
  <2> SUFFICES ASSUME NEW p \in Pool PROVE active[p] = Cardinality(Held(p, att))
    BY DEF Counted
  <2>1. Held(p, att) = {}
    BY DEF Init, Fresh, Held
  <2> QED
    BY <2>1, FS_EmptySet DEF Init
<1>3. PermitPc(att) /\ WaitersOK(waiters, age, att)
  BY DEF Init, Fresh, PermitPc, WaitersOK
<1>4. LoopInv(rd, att)
  BY RetriesAssumption DEF Init, Fresh, Idle, LoopInv, ReadType, Attempt, Busy
<1>5. BoundsOK
  BY BoundsAssumption DEF Init, BoundsOK
<1> QED
  BY <1>1, <1>2, <1>3, <1>4, <1>5 DEF IInv, TransportInv

\* Dispatch lets no attempt enter or leave the hands of its read.
LEMMA DispatchLoop ==
  ASSUME NEW ws, NEW ag, NEW at, NEW act, NEW lim, NEW loop,
         TransportInv(lim, act, ws, ag, at), Dispatch(ws, ag, at, act, lim), LoopInv(loop, at)
  PROVE  LoopInv(loop, att')
<1> SUFFICES ASSUME NEW r \in Read, NEW n \in 0..MaxRetries
             PROVE  /\ att'[<<r, n>>].pc \in Busy => at[<<r, n>>].pc \in Busy
                    /\ at[<<r, n>>].pc = "new" => att'[<<r, n>>].pc = "new"
  BY DEF LoopInv
<1> DEFINE a == <<r, n>>
<1>1. a \in Attempt /\ at[a] \in AttemptType /\ at \in [Attempt -> AttemptType]
  BY DEF Attempt, TransportInv, TransportType
<1>2. att'[a] = IF a \in Granted(ws, ag, at, act, lim) THEN Given(at[a]) ELSE at[a]
  BY <1>1, DispatchOne
<1>3. Given(at[a]).pc = IF at[a].pc = "queued" THEN "granted" ELSE at[a].pc
  BY <1>1, GivenType
<1> HIDE DEF a
<1>4. att'[a].pc = at[a].pc \/ (at[a].pc = "queued" /\ att'[a].pc = "granted")
  BY <1>2, <1>3
<1> QED
  BY <1>4 DEF Busy, a

\* An attempt that ends gives back what it has, and nothing else.
LEMMA EndedKeeps ==
  ASSUME IInv, NEW a \in Attempt, NEW x \in AttemptType, x.pc \in {"over", "returned"}
  PROVE  TransportInv(limit, Returned(a), waiters \ {a}, age, Ended(a, x))
<1> DEFINE y == [x EXCEPT !.permit = FALSE]
<1>1. /\ TransportType(limit, active, waiters, age, att) /\ Counted(active, att)
      /\ PermitPc(att) /\ WaitersOK(waiters, age, att)
  BY DEF IInv, TransportInv
<1>2. y \in AttemptType /\ ~y.permit /\ y.pc = x.pc
  BY DEF AttemptType
<1>3. /\ Ended(a, x) = [att EXCEPT ![a] = y]
      /\ Ended(a, x) \in [Attempt -> AttemptType]
  BY <1>1, <1>2 DEF Ended, TransportType
<1> HIDE DEF y
<1>4. \A b \in Attempt : Ended(a, x)[b] = IF b = a THEN y ELSE att[b]
  BY <1>1, <1>3 DEF TransportType
<1>5. \A p \in Pool : Held(p, Ended(a, x)) = Held(p, att) \ {a}
  BY <1>2, <1>4 DEF Held
<1>6. \A p \in Pool : Returned(a)[p] = Cardinality(Held(p, att) \ {a})
  <2> SUFFICES ASSUME NEW p \in Pool PROVE Returned(a)[p] = Cardinality(Held(p, att) \ {a})
    OBVIOUS
  <2>1. IsFiniteSet(Held(p, att)) /\ Cardinality(Held(p, att)) \in Nat
    <3>1. Held(p, att) \in SUBSET Attempt
      BY DEF Held
    <3> QED
      BY <3>1, SubsetsFinite
  <2>2. Cardinality(Held(p, att) \ {a})
          = IF a \in Held(p, att) THEN Cardinality(Held(p, att)) - 1 ELSE Cardinality(Held(p, att))
    BY <2>1, FS_RemoveElement
  <2>3. active[p] = Cardinality(Held(p, att)) /\ active \in [Pool -> Nat]
    BY <1>1 DEF Counted, TransportType
  <2>4. Returned(a)[p] = IF a \in Held(p, att) THEN active[p] - 1 ELSE active[p]
    BY <2>3 DEF Returned, Held
  <2> QED
    BY <2>2, <2>3, <2>4
<1>7. Returned(a) \in [Pool -> Nat]
  <2>1. \A p \in Pool : Cardinality(Held(p, att) \ {a}) \in Nat
    <3> SUFFICES ASSUME NEW p \in Pool PROVE Cardinality(Held(p, att) \ {a}) \in Nat
      OBVIOUS
    <3>1. Held(p, att) \ {a} \in SUBSET Attempt
      BY DEF Held
    <3> QED
      BY <3>1, SubsetsFinite
  <2>2. Returned(a) = [p \in Pool |-> Returned(a)[p]]
    BY <1>1 DEF Returned, TransportType
  <2> QED
    BY <1>6, <2>1, <2>2
<1>8. TransportType(limit, Returned(a), waiters \ {a}, age, Ended(a, x))
  BY <1>1, <1>3, <1>7 DEF TransportType
<1>9. Counted(Returned(a), Ended(a, x))
  BY <1>5, <1>6 DEF Counted
<1>10. PermitPc(Ended(a, x))
  BY <1>1, <1>2, <1>4 DEF PermitPc
<1>11. WaitersOK(waiters \ {a}, age, Ended(a, x))
  BY <1>1, <1>4 DEF WaitersOK, TransportType
<1> QED
  BY <1>8, <1>9, <1>10, <1>11 DEF TransportInv

\* An attempt moves on with the permit it has, or without one.
LEMMA AttemptMoves ==
  ASSUME IInv, NEW a \in Attempt, NEW x \in AttemptType,
         x.permit = att[a].permit, x.permit => x.pool = att[a].pool,
         x.pc \in {"granted", "running", "left"} => x.permit,
         x.pc \in {"new", "queued", "returned", "over"} => ~x.permit,
         a \in waiters => x.pc \in {"queued", "stopping"},
         UNCHANGED <<limit, active, waiters, age>>,
         att' = [att EXCEPT ![a] = x]
  PROVE  TransportInv(limit', active', waiters', age', att')
<1>1. /\ TransportType(limit, active, waiters, age, att) /\ Counted(active, att)
      /\ PermitPc(att) /\ WaitersOK(waiters, age, att)
  BY DEF IInv, TransportInv
<1>2. \A b \in Attempt : att'[b] = IF b = a THEN x ELSE att[b]
  BY <1>1 DEF TransportType
<1>3. TransportType(limit', active', waiters', age', att')
  BY <1>1 DEF TransportType
<1>4. \A p \in Pool : Held(p, att') = Held(p, att)
  BY <1>2 DEF Held
<1>5. Counted(active', att')
  BY <1>1, <1>4 DEF Counted
<1>6. PermitPc(att')
  BY <1>1, <1>2 DEF PermitPc
<1>7. WaitersOK(waiters', age', att')
  <2>1. \A b \in waiters : att'[b].pc \in {"queued", "stopping"} /\ ~att'[b].permit
    BY <1>1, <1>2 DEF WaitersOK, TransportType
  <2> QED
    BY <1>1, <2>1 DEF WaitersOK
<1> QED
  BY <1>3, <1>5, <1>6, <1>7 DEF TransportInv

LEMMA AnswerEnds ==
  ASSUME rd \in [Read -> ReadType], NEW r \in Read, NEW out \in {"response", "error"}, Answer(r, out)
  PROVE  /\ rd' \in [Read -> ReadType]
         /\ rd'[r].pc = "done" /\ rd'[r].out = out
         /\ \A q \in Read : q # r => rd'[q] = rd[q]
<1> DEFINE x == [Idle EXCEPT !.pc = "done", !.out = out]
<1>1. x \in ReadType /\ x.pc = "done" /\ x.out = out
  <2>1. 0 \in 0..MaxRetries
    BY RetriesAssumption
  <2>2. Idle \in ReadType
    BY <2>1 DEF Idle, ReadType
  <2> QED
    BY <2>2 DEF ReadType
<1>2. rd' = [rd EXCEPT ![r] = x]
  BY DEF Answer
<1> HIDE DEF x
<1> QED
  BY <1>1, <1>2

\* A read that has no attempt in progress, or whose attempt ends, may be
\* answered, and tried again while it has attempts left.
LEMMA LoopGoesOn ==
  ASSUME LoopInv(rd, att), att \in [Attempt -> AttemptType], NEW r \in Read,
         NEW at \in [Attempt -> AttemptType],
         \A b \in Attempt : b # Current(r) => at[b] = att[b],
         \/ at = att /\ rd[r].pc # "waiting"
         \/ rd[r].pc = "waiting" /\ at[Current(r)].pc \in {"over", "left"},
         \/ \E out \in {"response", "error"} : Answer(r, out)
         \/ /\ rd' \in [Read -> ReadType] /\ rd[r].pc = "waiting"
            /\ rd'[r].pc = "backoff" /\ rd'[r].n = rd[r].n /\ rd[r].n < MaxRetries
            /\ \A q \in Read : q # r => rd'[q] = rd[q]
  PROVE  LoopInv(rd', at)
<1>1. rd' \in [Read -> ReadType] /\ \A q \in Read : q # r => rd'[q] = rd[q]
  BY AnswerEnds DEF LoopInv
<1>2. \/ rd'[r].pc = "done"
      \/ rd[r].pc = "waiting" /\ rd'[r].pc = "backoff" /\ rd'[r].n = rd[r].n /\ rd[r].n < MaxRetries
  BY AnswerEnds DEF LoopInv
<1>3. \A q \in Read, n \in 0..MaxRetries : q # r => at[<<q, n>>] = att[<<q, n>>]
  BY DEF Current, Attempt
<1>4. \A n \in 0..MaxRetries : at[<<r, n>>].pc \notin Busy
  <2> SUFFICES ASSUME NEW n \in 0..MaxRetries, at[<<r, n>>].pc \in Busy PROVE FALSE
    OBVIOUS
  <2>1. <<r, n>> \in Attempt
    BY DEF Attempt
  <2>2. CASE at = att /\ rd[r].pc # "waiting"
    BY <2>2 DEF LoopInv
  <2>3. CASE rd[r].pc = "waiting" /\ at[Current(r)].pc \in {"over", "left"}
    <3>1. <<r, n>> # Current(r)
      BY <2>3 DEF Busy
    <3>2. att[<<r, n>>].pc \in Busy
      BY <2>1, <3>1
    <3> QED
      BY <3>1, <3>2 DEF LoopInv, Current
  <2> QED
    BY <2>2, <2>3
<1>5. \A n \in 0..MaxRetries : rd'[r].pc = "backoff" /\ n > rd'[r].n => at[<<r, n>>].pc = "new"
  <2> SUFFICES ASSUME NEW n \in 0..MaxRetries, rd'[r].pc = "backoff", n > rd'[r].n
               PROVE  at[<<r, n>>].pc = "new"
    OBVIOUS
  <2>1. rd[r].pc = "waiting" /\ n > rd[r].n
    BY <1>2
  <2>2. <<r, n>> # Current(r) /\ <<r, n>> \in Attempt
    BY <2>1, RetriesAssumption DEF Current, Attempt, LoopInv, ReadType
  <2> QED
    BY <2>1, <2>2 DEF LoopInv
<1> QED
  BY <1>1, <1>2, <1>3, <1>4, <1>5 DEF LoopInv

\* The attempt in progress stays one.
LEMMA LoopStays ==
  ASSUME LoopInv(rd, att), NEW r \in Read, NEW n \in 0..MaxRetries,
         att \in [Attempt -> AttemptType], NEW at,
         \A b \in Attempt : b # <<r, n>> => at[b] = att[b],
         at[<<r, n>>].pc \in Busy => att[<<r, n>>].pc \in Busy,
         att[<<r, n>>].pc # "new"
  PROVE  LoopInv(rd, at)
<1> SUFFICES ASSUME NEW q \in Read, NEW m \in 0..MaxRetries
             PROVE  /\ at[<<q, m>>].pc \in Busy => att[<<q, m>>].pc \in Busy
                    /\ att[<<q, m>>].pc = "new" => at[<<q, m>>].pc = "new"
  BY DEF LoopInv
<1>1. <<q, m>> \in Attempt
  BY DEF Attempt
<1> QED
  BY <1>1

----------------------------------------------------------------------------
(* The steps.                                                              *)

\* What the loop of a read notes on its own, about no attempt.
LEMMA LoopNotes ==
  ASSUME LoopInv(rd, att), rd' \in [Read -> ReadType],
         \A r \in Read : /\ rd'[r].n = rd[r].n
                         /\ \/ rd'[r].pc = rd[r].pc
                            \/ rd[r].pc = "idle" /\ rd'[r].pc = "start"
  PROVE  LoopInv(rd', att)
<1>1. \A r \in Read : rd'[r].pc = "waiting" <=> rd[r].pc = "waiting"
  OBVIOUS
<1>2. \A r \in Read : rd'[r].pc = "backoff" <=> rd[r].pc = "backoff"
  OBVIOUS
<1>3. \A r \in Read : rd'[r].pc \in {"idle", "start"} <=> rd[r].pc \in {"idle", "start"}
  OBVIOUS
<1> QED
  BY <1>1, <1>2, <1>3 DEF LoopInv

LEMMA PastType == Past \in AttemptType /\ Past.pc = "over" /\ ~Past.permit
BY DEF Past, Fresh, AttemptType, Pool

\* An attempt that ends, and what dispatch does with its permit.
LEMMA ReleaseKeeps ==
  ASSUME IInv, NEW a \in Attempt, NEW x \in AttemptType, x.pc \in {"over", "returned"},
         Release(a, x)
  PROVE  /\ TransportInv(limit', active', waiters', age', att')
         /\ att' \in [Attempt -> AttemptType]
         /\ att'[a] = [x EXCEPT !.permit = FALSE]
         /\ att'[a].pc = x.pc
         /\ \A loop : LoopInv(loop, Ended(a, x)) => LoopInv(loop, att')
<1> DEFINE ws == waiters \ {a}
           at == Ended(a, x)
           act == Returned(a)
<1>1. TransportInv(limit, act, ws, age, at)
  BY EndedKeeps
<1>2. Dispatch(ws, age, at, act, limit)
  BY DEF Release
<1>3. att \in [Attempt -> AttemptType] /\ at \in [Attempt -> AttemptType]
  BY <1>1 DEF IInv, TransportInv, TransportType
<1>4. at[a] = [x EXCEPT !.permit = FALSE]
  BY <1>3 DEF Ended
<1>5. [x EXCEPT !.permit = FALSE].pc = x.pc
  BY DEF AttemptType
<1>6. a \notin Granted(ws, age, at, act, limit)
  BY DEF Granted
<1> HIDE DEF ws, at, act
<1>7. TransportInv(limit', active', waiters', age', att')
  BY <1>1, <1>2, DispatchKeeps
<1>8. att'[a] = at[a]
  BY <1>2, <1>3, <1>6, DispatchOne
<1>9. att' \in [Attempt -> AttemptType]
  BY <1>7 DEF TransportInv, TransportType
<1>10. ASSUME NEW loop, LoopInv(loop, at) PROVE LoopInv(loop, att')
  BY <1>1, <1>2, <1>10, DispatchLoop
<1> QED
  BY <1>4, <1>5, <1>7, <1>8, <1>9, <1>10 DEF at

\* A caller that gives up before its native request has started.
LEMMA GivesUp ==
  ASSUME IInv, NEW r \in Read, att[Current(r)].pc \in {"stopping", "granted"},
         Release(Current(r), Past), Refused(r), UNCHANGED <<settings, interrupts>>
  PROVE  IInv'
<1> DEFINE a == Current(r)
           at == Ended(a, Past)
<1>1. a \in Attempt /\ att[a] \in AttemptType
  BY CurrentType
<1>2. TransportInv(limit, Returned(a), waiters \ {a}, age, at)
  BY <1>1, PastType, EndedKeeps
<1>3. at \in [Attempt -> AttemptType] /\ att \in [Attempt -> AttemptType]
  BY <1>2 DEF TransportInv, TransportType, IInv
<1>4. at[a].pc = "over" /\ \A b \in Attempt : b # a => at[b] = att[b]
  BY <1>1, <1>3, PastType DEF Ended, Past, Fresh
<1>5. rd[r].pc = "waiting"
  BY <1>1 DEF IInv, LoopInv, Current, Busy, Attempt
<1> HIDE DEF at
<1>6. LoopInv(rd', at)
  BY <1>3, <1>4, <1>5, LoopGoesOn DEF IInv, Refused
<1>7. TransportInv(limit', active', waiters', age', att')
  BY <1>1, PastType, ReleaseKeeps
<1>8. LoopInv(rd', att')
  BY <1>1, <1>6, PastType, ReleaseKeeps DEF at
<1> QED
  BY <1>7, <1>8 DEF IInv, BoundsOK

LEMMA StopStep ==
  ASSUME IInv, NEW r \in Read, Stop(r)
  PROVE  IInv'
BY GivesUp DEF Stop

LEMMA StartStep ==
  ASSUME IInv, NEW r \in Read, Start(r)
  PROVE  IInv'
<1> DEFINE a == Current(r)
<1>1. a \in Attempt /\ att[a] \in AttemptType /\ att[a].pc = "granted"
  BY CurrentType DEF Start
<1>2. CASE Over(r)
  BY <1>1, <1>2, GivesUp DEF Start
<1>3. CASE ~Over(r)
  <2> DEFINE x == [att[a] EXCEPT !.pc = "running"]
  <2>1. att' = [att EXCEPT ![a] = x] /\ UNCHANGED <<limit, active, waiters, age, rd, settings, interrupts>>
    BY <1>3 DEF Start
  <2>2. x \in AttemptType /\ x.pc = "running" /\ x.permit = att[a].permit /\ x.pool = att[a].pool
    BY <1>1 DEF AttemptType
  <2>3. x.permit /\ a \notin waiters
    BY <1>1, <2>2 DEF IInv, TransportInv, PermitPc, WaitersOK
  <2> HIDE DEF x
  <2>4. TransportInv(limit', active', waiters', age', att')
    BY <1>1, <2>1, <2>2, <2>3, AttemptMoves
  <2>5. LoopInv(rd, att')
    <3>1. att \in [Attempt -> AttemptType] /\ rd[r].n \in 0..MaxRetries /\ a = <<r, rd[r].n>>
      BY CurrentType DEF IInv, TransportInv, TransportType, Current, ReadType
    <3>2. \A b \in Attempt : b # a => att'[b] = att[b]
      BY <2>1, <3>1
    <3>3. att[a].pc \in Busy /\ att[a].pc # "new"
      BY <1>1 DEF Busy
    <3> HIDE DEF a
    <3> QED
      BY <3>1, <3>2, <3>3, LoopStays DEF IInv
  <2> QED
    BY <2>1, <2>4, <2>5 DEF IInv, BoundsOK
<1> QED
  BY <1>2, <1>3

LEMMA StopWaitingStep ==
  ASSUME IInv, NEW r \in Read, StopWaiting(r)
  PROVE  IInv'
<1> DEFINE a == Current(r)
           x == [att[a] EXCEPT !.pc = "stopping"]
<1>1. a \in Attempt /\ att[a] \in AttemptType /\ att[a].pc = "queued"
  BY CurrentType DEF StopWaiting
<1>2. att' = [att EXCEPT ![a] = x] /\ UNCHANGED <<limit, active, waiters, age, rd, settings, interrupts>>
  BY DEF StopWaiting
<1>3. x \in AttemptType /\ x.pc = "stopping" /\ x.permit = att[a].permit /\ x.pool = att[a].pool
  BY <1>1 DEF AttemptType
<1> HIDE DEF x
<1>4. TransportInv(limit', active', waiters', age', att')
  BY <1>1, <1>2, <1>3, AttemptMoves
<1>5. LoopInv(rd, att')
  <2>1. att \in [Attempt -> AttemptType] /\ rd[r].n \in 0..MaxRetries /\ a = <<r, rd[r].n>>
    BY CurrentType DEF IInv, TransportInv, TransportType, Current, ReadType
  <2>2. \A b \in Attempt : b # a => att'[b] = att[b]
    BY <1>2, <2>1
  <2>3. att[a].pc \in Busy /\ att[a].pc # "new"
    BY <1>1 DEF Busy
  <2> HIDE DEF a
  <2> QED
    BY <2>1, <2>2, <2>3, LoopStays DEF IInv
<1> QED
  BY <1>2, <1>4, <1>5 DEF IInv, BoundsOK

LEMMA NativeReturnsStep ==
  ASSUME IInv, NEW a \in Attempt, NativeReturns(a)
  PROVE  IInv'
<1>1. PICK result \in Results :
        Release(a, IF att[a].pc = "running" THEN [att[a] EXCEPT !.pc = "returned", !.result = result]
                   ELSE Past)
  BY DEF NativeReturns
<1> DEFINE x == IF att[a].pc = "running" THEN [att[a] EXCEPT !.pc = "returned", !.result = result]
                ELSE Past
<1>2. /\ att \in [Attempt -> AttemptType] /\ att[a] \in AttemptType
      /\ att[a].pc \in {"running", "left"}
      /\ UNCHANGED <<rd, settings, interrupts>>
  BY DEF IInv, TransportInv, TransportType, NativeReturns
<1>3. /\ x \in AttemptType /\ x.pc \in {"over", "returned"}
      /\ x.pc = "returned" => att[a].pc = "running"
  <2>1. CASE att[a].pc = "running"
    BY <1>2, <2>1 DEF AttemptType
  <2>2. CASE att[a].pc # "running"
    BY <2>2, PastType
  <2> QED
    BY <2>1, <2>2
<1>4. Release(a, x)
  BY <1>1
<1> HIDE DEF x
<1>5. TransportInv(limit', active', waiters', age', att')
  BY <1>3, <1>4, ReleaseKeeps
<1>6. LoopInv(rd, Ended(a, x))
  <2>1. PICK r \in Read, n \in 0..MaxRetries : a = <<r, n>>
    BY DEF Attempt
  <2>2. \A b \in Attempt : b # a => Ended(a, x)[b] = att[b]
    BY <1>2 DEF Ended
  <2>3. Ended(a, x)[a].pc = x.pc
    BY <1>2, <1>3 DEF Ended, AttemptType
  <2>4. Ended(a, x)[a].pc \in Busy => att[a].pc \in Busy
    BY <1>2, <1>3, <2>3 DEF Busy
  <2> QED
    BY <1>2, <2>1, <2>2, <2>4, LoopStays DEF IInv
<1>7. LoopInv(rd, att')
  BY <1>3, <1>4, <1>6, ReleaseKeeps
<1> QED
  BY <1>2, <1>5, <1>7 DEF IInv, BoundsOK

LEMMA SetConcurrencyStep ==
  ASSUME IInv, NEW n \in Limits, SetConcurrency(n)
  PROVE  IInv'
<1>1. /\ Dispatch(waiters, age, att, active, n) /\ UNCHANGED <<rd, interrupts>>
      /\ settings < MaxSettings /\ settings' = settings + 1
  BY DEF SetConcurrency
<1>2. TransportInv(n, active, waiters, age, att)
  BY LimitsAssumption DEF IInv, TransportInv, TransportType
<1>3. TransportInv(limit', active', waiters', age', att')
  BY <1>1, <1>2, DispatchKeeps
<1>4. LoopInv(rd, att')
  BY <1>1, <1>2, DispatchLoop DEF IInv
<1>5. BoundsOK'
  BY <1>1, BoundsAssumption DEF IInv, BoundsOK
<1> QED
  BY <1>1, <1>3, <1>4, <1>5 DEF IInv

\* A caller that stops waiting for its native request, which goes on.
LEMMA LeaveStep ==
  ASSUME IInv, NEW r \in Read, Leave(r)
  PROVE  IInv'
<1> DEFINE a == Current(r)
           x == [att[a] EXCEPT !.pc = "left"]
<1>1. a \in Attempt /\ att[a] \in AttemptType /\ att[a].pc = "running" /\ rd[r] \in ReadType
  BY CurrentType DEF Leave
<1>2. /\ att' = [att EXCEPT ![a] = x] /\ Unresolved(r)
      /\ UNCHANGED <<limit, active, waiters, age, settings, interrupts>>
  BY DEF Leave
<1>3. x \in AttemptType /\ x.pc = "left" /\ x.permit = att[a].permit /\ x.pool = att[a].pool
  BY <1>1 DEF AttemptType
<1>4. x.permit /\ a \notin waiters
  BY <1>1, <1>3 DEF IInv, TransportInv, PermitPc, WaitersOK
<1> HIDE DEF x
<1>5. TransportInv(limit', active', waiters', age', att')
  BY <1>1, <1>2, <1>3, <1>4, AttemptMoves
<1>6. LoopInv(rd', att')
  <2>1. /\ att \in [Attempt -> AttemptType] /\ att' \in [Attempt -> AttemptType]
        /\ rd \in [Read -> ReadType]
    BY <1>5 DEF TransportInv, TransportType, IInv, LoopInv
  <2>2. att'[a].pc = "left" /\ \A b \in Attempt : b # a => att'[b] = att[b]
    BY <1>1, <1>2, <1>3, <2>1
  <2>3. rd[r].pc = "waiting"
    BY <1>1 DEF IInv, LoopInv, Current, Busy, Attempt
  <2>4. \/ \E out \in {"response", "error"} : Answer(r, out)
        \/ /\ rd' \in [Read -> ReadType] /\ rd[r].pc = "waiting"
           /\ rd'[r].pc = "backoff" /\ rd'[r].n = rd[r].n /\ rd[r].n < MaxRetries
           /\ \A q \in Read : q # r => rd'[q] = rd[q]
    <3>1. CASE Replaces(r) /\ ~Over(r)
      <4> DEFINE y == [[rd[r] EXCEPT !.pc = "backoff"] EXCEPT !.replacement = TRUE]
      <4>1. rd' = [rd EXCEPT ![r] = y]
        BY <1>2, <2>1, <3>1 DEF Unresolved
      <4>2. y \in ReadType /\ y.pc = "backoff" /\ y.n = rd[r].n
        BY <1>1 DEF ReadType
      <4> HIDE DEF y
      <4> QED
        BY <2>1, <2>3, <3>1, <4>1, <4>2 DEF Replaces
    <3>2. CASE ~(Replaces(r) /\ ~Over(r))
      BY <1>2, <3>2 DEF Unresolved, Refused
    <3> QED
      BY <3>1, <3>2
  <2> QED
    BY <2>1, <2>2, <2>3, <2>4, LoopGoesOn DEF IInv
<1> QED
  BY <1>2, <1>5, <1>6 DEF IInv, BoundsOK

LEMMA DeliverStep ==
  ASSUME IInv, NEW r \in Read, Deliver(r)
  PROVE  IInv'
<1> DEFINE a == Current(r)
<1>1. a \in Attempt /\ att[a] \in AttemptType /\ att[a].pc = "returned" /\ rd[r] \in ReadType
  BY CurrentType DEF Deliver
<1>2. /\ att' = [att EXCEPT ![a] = Past]
      /\ UNCHANGED <<limit, active, waiters, age, settings, interrupts>>
  BY DEF Deliver
<1>3. ~att[a].permit /\ a \notin waiters
  BY <1>1 DEF IInv, TransportInv, PermitPc, WaitersOK
<1>4. TransportInv(limit', active', waiters', age', att')
  <2>1. Past.permit = att[a].permit
    BY <1>1, <1>3, PastType DEF AttemptType
  <2> QED
    BY <1>1, <1>2, <1>3, <2>1, PastType, AttemptMoves
<1>5. LoopInv(rd', att')
  <2>1. /\ att \in [Attempt -> AttemptType] /\ att' \in [Attempt -> AttemptType]
        /\ rd \in [Read -> ReadType]
    BY <1>4 DEF TransportInv, TransportType, IInv, LoopInv
  <2>2. att'[a].pc = "over" /\ \A b \in Attempt : b # a => att'[b] = att[b]
    BY <1>1, <1>2, <2>1, PastType
  <2>3. rd[r].pc = "waiting"
    BY <1>1 DEF IInv, LoopInv, Current, Busy, Attempt
  <2>4. \/ \E out \in {"response", "error"} : Answer(r, out)
        \/ /\ rd' \in [Read -> ReadType] /\ rd[r].pc = "waiting"
           /\ rd'[r].pc = "backoff" /\ rd'[r].n = rd[r].n /\ rd[r].n < MaxRetries
           /\ \A q \in Read : q # r => rd'[q] = rd[q]
    <3>1. CASE Over(r)
      BY <3>1 DEF Deliver, Refused
    <3>2. CASE ~Over(r) /\ att[a].result = "ok"
      BY <3>2 DEF Deliver
    <3>3. CASE ~Over(r) /\ att[a].result # "ok"
      <4> DEFINE y == [rd[r] EXCEPT !.pc = "backoff"]
                 transient == att[a].result = "transient"
      <4>1. Failed(r, transient)
        BY <3>3 DEF Deliver
      <4>2. y \in ReadType /\ y.pc = "backoff" /\ y.n = rd[r].n
        BY <1>1 DEF ReadType
      <4>3. CASE transient /\ Retries(r)
        <5>1. rd' = [rd EXCEPT ![r] = y] /\ rd[r].n < MaxRetries
          BY <4>1, <4>3 DEF Failed, Retries
        <5> HIDE DEF y
        <5> QED
          BY <2>1, <2>3, <4>2, <5>1
      <4>4. CASE ~(transient /\ Retries(r))
        BY <4>1, <4>4 DEF Failed
      <4> QED
        BY <4>3, <4>4
    <3> QED
      BY <3>1, <3>2, <3>3
  <2> QED
    BY <2>1, <2>2, <2>3, <2>4, LoopGoesOn DEF IInv
<1> QED
  BY <1>2, <1>4, <1>5 DEF IInv, BoundsOK

\* The attempt that a read queues was new, so no permit is counted for it, and
\* it comes after those that wait.
LEMMA QueuedKeeps ==
  ASSUME IInv, NEW r \in Read, NEW n \in 0..MaxRetries, att[<<r, n>>].pc = "new",
         NEW x \in AttemptType, x.pc = "queued", ~x.permit
  PROVE  TransportInv(limit, active, waiters \cup {<<r, n>>},
                      [w \in Attempt |-> IF w \in waiters THEN age[w] + 1 ELSE 0],
                      [att EXCEPT ![<<r, n>>] = x])
<1> DEFINE a == <<r, n>>
           ag == [w \in Attempt |-> IF w \in waiters THEN age[w] + 1 ELSE 0]
           at == [att EXCEPT ![a] = x]
<1>1. /\ TransportType(limit, active, waiters, age, att) /\ Counted(active, att)
      /\ PermitPc(att) /\ WaitersOK(waiters, age, att)
  BY DEF IInv, TransportInv
<1>2. a \in Attempt
  BY DEF Attempt
<1> HIDE DEF a
<1>3. ~att[a].permit /\ a \notin waiters
  BY <1>1, <1>2 DEF PermitPc, WaitersOK, a
<1>4. \A b \in Attempt : at[b] = IF b = a THEN x ELSE att[b]
  BY <1>1 DEF TransportType
<1>5. ag \in [Attempt -> Nat] /\ at \in [Attempt -> AttemptType]
  BY <1>1, <1>2 DEF TransportType
<1>6. \A w \in waiters : ag[w] = age[w] + 1 /\ age[w] \in Nat
  BY <1>1 DEF TransportType
<1>7. ag[a] = 0
  BY <1>2, <1>3
<1> HIDE DEF ag, at
<1>8. TransportType(limit, active, waiters \cup {a}, ag, at)
  BY <1>1, <1>2, <1>5 DEF TransportType
<1>9. \A p \in Pool : Held(p, at) = Held(p, att)
  BY <1>3, <1>4 DEF Held
<1>10. Counted(active, at)
  BY <1>1, <1>9 DEF Counted
<1>11. PermitPc(at)
  BY <1>1, <1>4 DEF PermitPc
<1>12. WaitersOK(waiters \cup {a}, ag, at)
  <2>1. \A w \in waiters \cup {a} : at[w].pc \in {"queued", "stopping"} /\ ~at[w].permit
    BY <1>1, <1>2, <1>4 DEF WaitersOK, TransportType
  <2>2. ASSUME NEW v \in waiters \cup {a}, NEW w \in waiters \cup {a}, ag[v] = ag[w]
        PROVE  v = w
    BY <1>1, <1>6, <1>7, <2>2 DEF WaitersOK
  <2> QED
    BY <2>1, <2>2 DEF WaitersOK
<1> QED
  BY <1>8, <1>10, <1>11, <1>12 DEF TransportInv, a, ag, at

\* The number of the next attempt, and what it starts as.
NextN(r) == IF rd[r].pc = "start" THEN 0 ELSE rd[r].n + 1

Queued(r) == [Fresh EXCEPT !.pc = "queued",
                           !.pool = IF rd[r].replacement THEN "reserve" ELSE "normal"]

AskAges == [w \in Attempt |-> IF w \in waiters THEN age[w] + 1 ELSE 0]

AskAttempts(r) == [att EXCEPT ![<<r, NextN(r)>>] = Queued(r)]

AskDispatches(r) ==
    /\ rd' = [rd EXCEPT ![r].pc = "waiting", ![r].n = NextN(r)]
    /\ Dispatch(waiters \cup {<<r, NextN(r)>>}, AskAges, AskAttempts(r), active, limit)

LEMMA AskCases ==
  ASSUME NEW r \in Read, Ask(r)
  PROVE  /\ rd[r].pc \in {"start", "backoff"} /\ UNCHANGED <<settings, interrupts>>
         /\ (Refused(r) /\ UNCHANGED transport) \/ AskDispatches(r)
BY DEF Ask, AskDispatches, AskAges, AskAttempts, NextN, Queued

\* The attempt that is asked for has not been made before.
LEMMA AskIsNew ==
  ASSUME IInv, NEW r \in Read, rd[r].pc \in {"start", "backoff"}
  PROVE  /\ NextN(r) \in 0..MaxRetries
         /\ att[<<r, NextN(r)>>].pc = "new"
         /\ \A n \in 0..MaxRetries : n > NextN(r) => att[<<r, n>>].pc = "new"
         /\ Queued(r) \in AttemptType /\ Queued(r).pc = "queued" /\ ~Queued(r).permit
<1>1. rd[r] \in ReadType
  BY CurrentType
<1>2. NextN(r) \in 0..MaxRetries /\ (rd[r].pc = "backoff" => NextN(r) > rd[r].n)
  BY <1>1, RetriesAssumption DEF NextN, IInv, LoopInv, ReadType
<1>3. \A n \in 0..MaxRetries : n >= NextN(r) => att[<<r, n>>].pc = "new"
  BY <1>1, <1>2 DEF IInv, LoopInv, ReadType
<1>4. Queued(r) \in AttemptType /\ Queued(r).pc = "queued" /\ ~Queued(r).permit
  BY <1>1 DEF Queued, Fresh, AttemptType, Pool
<1> QED
  BY <1>2, <1>3, <1>4

LEMMA AskTransport ==
  ASSUME IInv, NEW r \in Read, rd[r].pc \in {"start", "backoff"}
  PROVE  TransportInv(limit, active, waiters \cup {<<r, NextN(r)>>}, AskAges, AskAttempts(r))
BY AskIsNew, QueuedKeeps DEF AskAges, AskAttempts

LEMMA AskStep ==
  ASSUME IInv, NEW r \in Read, Ask(r)
  PROVE  IInv'
<1>1. rd[r].pc \in {"start", "backoff"} /\ UNCHANGED <<settings, interrupts>>
  BY AskCases
<1>2. CASE Refused(r) /\ UNCHANGED transport
  <2>1. att \in [Attempt -> AttemptType]
    BY DEF IInv, TransportInv, TransportType
  <2>2. LoopInv(rd', att)
    BY <1>1, <1>2, <2>1, LoopGoesOn DEF IInv, Refused
  <2> QED
    BY <1>1, <1>2, <2>2 DEF IInv, BoundsOK, transport
<1>3. CASE AskDispatches(r)
  <2> DEFINE n == NextN(r)
             at == AskAttempts(r)
             x == [[rd[r] EXCEPT !.pc = "waiting"] EXCEPT !.n = n]
  <2>1. TransportInv(limit, active, waiters \cup {<<r, n>>}, AskAges, at)
    BY <1>1, AskTransport
  <2>2. Dispatch(waiters \cup {<<r, n>>}, AskAges, at, active, limit)
    BY <1>3 DEF AskDispatches
  <2>3. rd \in [Read -> ReadType] /\ rd[r] \in ReadType /\ n \in 0..MaxRetries
    BY <1>1, AskIsNew DEF IInv, LoopInv
  <2>4. x \in ReadType /\ x.pc = "waiting" /\ x.n = n
    BY <2>3 DEF ReadType
  <2>5. rd' = [rd EXCEPT ![r] = x]
    BY <1>3, <2>3 DEF AskDispatches
  <2> HIDE DEF x
  <2>6. rd' \in [Read -> ReadType] /\ \A q \in Read : rd'[q] = IF q = r THEN x ELSE rd[q]
    BY <2>3, <2>4, <2>5
  <2>7. \A q \in Read, m \in 0..MaxRetries :
            at[<<q, m>>] = IF q = r /\ m = n THEN Queued(r) ELSE att[<<q, m>>]
    BY DEF AskAttempts, IInv, TransportInv, TransportType, Attempt
  <2>8. \A m \in 0..MaxRetries : /\ att[<<r, m>>].pc \notin Busy
                                 /\ m > n => att[<<r, m>>].pc = "new"
    BY <1>1, AskIsNew DEF IInv, LoopInv
  <2> HIDE DEF n, at
  <2>9. LoopInv(rd', at)
    <3>1. ASSUME NEW q \in Read, NEW m \in 0..MaxRetries
          PROVE  /\ at[<<q, m>>].pc \in Busy => rd'[q].pc = "waiting" /\ rd'[q].n = m
                 /\ \/ rd'[q].pc \in {"idle", "start"}
                    \/ rd'[q].pc \in {"waiting", "backoff"} /\ m > rd'[q].n
                    => at[<<q, m>>].pc = "new"
      <4>1. CASE q = r
        BY <2>3, <2>4, <2>6, <2>7, <2>8, <4>1
      <4>2. CASE q # r
        BY <2>6, <2>7, <4>2 DEF IInv, LoopInv
      <4> QED
        BY <4>1, <4>2
    <3>2. \A q \in Read : rd'[q].pc = "backoff" => rd'[q].n < MaxRetries
      BY <2>4, <2>6 DEF IInv, LoopInv
    <3> QED
      BY <2>6, <3>1, <3>2 DEF LoopInv
  <2>10. TransportInv(limit', active', waiters', age', att')
    BY <2>1, <2>2, DispatchKeeps
  <2>11. LoopInv(rd', att')
    BY <2>1, <2>2, <2>9, DispatchLoop
  <2> QED
    BY <1>1, <2>10, <2>11 DEF IInv, BoundsOK
<1> QED
  BY <1>2, <1>3, AskCases

LEMMA BeginStep ==
  ASSUME IInv, NEW r \in Read, Begin(r)
  PROVE  IInv'
<1> DEFINE x == [rd[r] EXCEPT !.pc = "start"]
<1>1. rd \in [Read -> ReadType] /\ rd[r] \in ReadType /\ rd[r].pc = "idle"
  BY CurrentType DEF IInv, LoopInv, Begin
<1>2. x \in ReadType /\ x.pc = "start" /\ x.n = rd[r].n
  BY <1>1 DEF ReadType
<1>3. rd' = [rd EXCEPT ![r] = x] /\ UNCHANGED <<transport, settings, interrupts>>
  BY DEF Begin
<1> HIDE DEF x
<1>4. rd' \in [Read -> ReadType]
  BY <1>1, <1>2, <1>3
<1>5. LoopInv(rd', att)
  BY <1>1, <1>2, <1>3, <1>4, LoopNotes DEF IInv
<1> QED
  BY <1>3, <1>5 DEF IInv, BoundsOK, transport

LEMMA ExpireStep ==
  ASSUME IInv, NEW r \in Read, Expire(r)
  PROVE  IInv'
<1> DEFINE x == [rd[r] EXCEPT !.late = TRUE]
<1>1. rd \in [Read -> ReadType] /\ rd[r] \in ReadType
  BY CurrentType DEF IInv, LoopInv
<1>2. x \in ReadType /\ x.pc = rd[r].pc /\ x.n = rd[r].n
  BY <1>1 DEF ReadType
<1>3. rd' = [rd EXCEPT ![r] = x] /\ UNCHANGED <<transport, settings, interrupts>>
  BY DEF Expire
<1> HIDE DEF x
<1>4. rd' \in [Read -> ReadType]
  BY <1>1, <1>2, <1>3
<1>5. LoopInv(rd', att)
  BY <1>1, <1>2, <1>3, <1>4, LoopNotes DEF IInv
<1> QED
  BY <1>3, <1>5 DEF IInv, BoundsOK, transport

LEMMA InterruptStep ==
  ASSUME IInv, Interrupt
  PROVE  IInv'
<1> DEFINE x(r) == IF Live(r) THEN [rd[r] EXCEPT !.revoked = TRUE] ELSE rd[r]
<1>1. rd \in [Read -> ReadType]
  BY DEF IInv, LoopInv
<1>2. \A r \in Read : x(r) \in ReadType /\ x(r).pc = rd[r].pc /\ x(r).n = rd[r].n
  <2> SUFFICES ASSUME NEW r \in Read
               PROVE  x(r) \in ReadType /\ x(r).pc = rd[r].pc /\ x(r).n = rd[r].n
    OBVIOUS
  <2>1. rd[r] \in ReadType
    BY <1>1
  <2> QED
    BY <2>1 DEF ReadType
<1>3. /\ rd' = [r \in Read |-> x(r)] /\ UNCHANGED <<transport, settings>>
      /\ interrupts < MaxInterrupts /\ interrupts' = interrupts + 1
  BY DEF Interrupt
<1> HIDE DEF x
<1>4. rd' \in [Read -> ReadType]
  BY <1>2, <1>3
<1>5. LoopInv(rd', att)
  BY <1>2, <1>3, <1>4, LoopNotes DEF IInv
<1>6. BoundsOK'
  BY <1>3, BoundsAssumption DEF IInv, BoundsOK
<1> QED
  BY <1>3, <1>5, <1>6 DEF IInv, transport

LEMMA StepInv == IInv /\ [Next]_vars => IInv'
<1> SUFFICES ASSUME IInv, [Next]_vars PROVE IInv'
  OBVIOUS
<1>1. CASE \E r \in Read : Begin(r) \/ Step(r) \/ Expire(r)
  BY <1>1, BeginStep, AskStep, StopWaitingStep, StopStep, StartStep, LeaveStep, DeliverStep,
     ExpireStep DEF Step
<1>2. CASE \E a \in Attempt : NativeReturns(a)
  BY <1>2, NativeReturnsStep
<1>3. CASE \E n \in Limits : SetConcurrency(n)
  BY <1>3, SetConcurrencyStep
<1>4. CASE Interrupt
  BY <1>4, InterruptStep
<1>5. CASE UNCHANGED vars
  BY <1>5 DEF vars, IInv, BoundsOK
<1> QED
  BY <1>1, <1>2, <1>3, <1>4, <1>5 DEF Next

LEMMA SpecInv == Spec => []IInv
<1> QED
  BY InitInv, StepInv, PTL DEF Spec

\* Every variable of the transport and of the loops of its callers keeps its
\* type, for any number of reads, attempts, limits and changes.
THEOREM TypeCorrect == Spec => []TypeOK
<1>1. IInv => TypeOK
  BY InvImplies
<1> QED
  BY <1>1, SpecInv, PTL

\* The counters of RemoteReadTransport always say how many attempts hold a
\* permit, whatever callers do while they wait: none is given back twice, and
\* none is lost.
THEOREM PermitsAreCounted == Spec => []PermitsCounted
<1>1. IInv => PermitsCounted
  BY InvImplies
<1> QED
  BY <1>1, SpecInv, PTL

----------------------------------------------------------------------------
(* What a step grants.                                                     *)

Releases == \E a \in Attempt, x \in AttemptType : x.pc \in {"over", "returned"} /\ Release(a, x)

Asks == \E r \in Read : rd[r].pc \in {"start", "backoff"} /\ AskDispatches(r)

Resizes == \E n \in Limits : Dispatch(waiters, age, att, active, n)

Quiet ==
    /\ UNCHANGED <<limit, active, waiters>>
    /\ \A a \in waiters : att'[a].pool = att[a].pool

LEMMA Grants ==
  ASSUME IInv, [Next]_vars
  PROVE  Quiet \/ Releases \/ Asks \/ Resizes
<1>1. CASE \E r \in Read : Begin(r) \/ Step(r) \/ Expire(r)
  <2> SUFFICES ASSUME NEW r \in Read, Begin(r) \/ Step(r) \/ Expire(r)
               PROVE  Quiet \/ Releases \/ Asks
    BY <1>1
  <2>1. CASE Begin(r) \/ Expire(r)
    BY <2>1 DEF Begin, Expire, Quiet, transport
  <2>4. CASE StopWaiting(r) \/ Leave(r) \/ Deliver(r)
    <3>1. /\ UNCHANGED <<limit, active, waiters>>
          /\ \/ att' = [att EXCEPT ![Current(r)].pc = "stopping"]
             \/ att' = [att EXCEPT ![Current(r)].pc = "left"]
             \/ att[Current(r)].pc = "returned" /\ att' = [att EXCEPT ![Current(r)] = Past]
      BY <2>4 DEF StopWaiting, Leave, Deliver
    <3>2. /\ att \in [Attempt -> AttemptType] /\ waiters \subseteq Attempt
          /\ \A a \in waiters : att[a].pc # "returned"
      BY DEF IInv, TransportInv, TransportType, WaitersOK
    <3>3. \A a \in waiters : att'[a].pool = att[a].pool
      BY <3>1, <3>2 DEF AttemptType
    <3> QED
      BY <3>1, <3>3 DEF Quiet
  <2>2. CASE Ask(r)
    BY <2>2, AskCases DEF Asks, Quiet, transport
  <2>3. CASE Stop(r) \/ Start(r)
    <3>1. \/ Release(Current(r), Past)
          \/ /\ UNCHANGED <<limit, active, waiters>>
             /\ att' = [att EXCEPT ![Current(r)].pc = "running"]
      BY <2>3 DEF Stop, Start
    <3>2. att \in [Attempt -> AttemptType] /\ waiters \subseteq Attempt
      BY DEF IInv, TransportInv, TransportType
    <3>3. Quiet \/ Release(Current(r), Past)
      BY <3>1, <3>2 DEF Quiet, AttemptType
    <3> QED
      BY <3>3, CurrentType, PastType DEF Releases
  <2> QED
    BY <2>1, <2>2, <2>3, <2>4 DEF Step
<1>2. CASE \E a \in Attempt : NativeReturns(a)
  <2> SUFFICES ASSUME NEW a \in Attempt, NativeReturns(a) PROVE Releases
    BY <1>2
  <2>1. PICK result \in Results :
          Release(a, IF att[a].pc = "running" THEN [att[a] EXCEPT !.pc = "returned", !.result = result]
                     ELSE Past)
    BY DEF NativeReturns
  <2>2. att[a] \in AttemptType
    BY DEF IInv, TransportInv, TransportType
  <2>3. CASE att[a].pc = "running"
    <3> DEFINE x == [att[a] EXCEPT !.pc = "returned", !.result = result]
    <3>1. x \in AttemptType /\ x.pc = "returned"
      BY <2>2 DEF AttemptType
    <3>2. Release(a, x)
      BY <2>1, <2>3
    <3> HIDE DEF x
    <3> QED
      BY <3>1, <3>2 DEF Releases
  <2>4. CASE att[a].pc # "running"
    BY <2>1, <2>4, PastType DEF Releases
  <2> QED
    BY <2>3, <2>4
<1>3. CASE \E n \in Limits : SetConcurrency(n)
  BY <1>3 DEF SetConcurrency, Resizes
<1>4. CASE Interrupt
  BY <1>4 DEF Interrupt, Quiet, transport
<1>5. CASE UNCHANGED vars
  BY <1>5 DEF Quiet, vars
<1> QED
  BY <1>1, <1>2, <1>3, <1>4, <1>5 DEF Next

LEMMA StepLimits ==
  ASSUME IInv, [Next]_vars, NEW p \in Pool, active'[p] > active[p]
  PROVE  active'[p] <= Limit(p, limit')
<1>1. active \in [Pool -> Nat]
  BY DEF IInv, TransportInv, TransportType
<1>2. CASE Quiet
  BY <1>1, <1>2 DEF Quiet
<1>3. CASE Releases
  <2>1. PICK a \in Attempt, x \in AttemptType : x.pc \in {"over", "returned"} /\ Release(a, x)
    BY <1>3 DEF Releases
  <2>2. TransportInv(limit, Returned(a), waiters \ {a}, age, Ended(a, x))
    BY <2>1, EndedKeeps
  <2>3. Dispatch(waiters \ {a}, age, Ended(a, x), Returned(a), limit)
    BY <2>1 DEF Release
  <2>4. Returned(a)[p] \in Nat /\ Returned(a)[p] <= active[p]
    <3>1. Returned(a)[p] \in Nat
      BY <2>2 DEF TransportInv, TransportType
    <3> QED
      BY <1>1, <3>1 DEF Returned
  <2>5. TransportInv(limit', active', waiters', age', att')
    BY <2>2, <2>3, DispatchKeeps
  <2>6. active'[p] > Returned(a)[p]
    BY <1>1, <2>4, <2>5 DEF TransportInv, TransportType
  <2> QED
    BY <2>2, <2>3, <2>6, DispatchLimits
<1>4. CASE Asks
  <2>1. PICK r \in Read : rd[r].pc \in {"start", "backoff"} /\ AskDispatches(r)
    BY <1>4 DEF Asks
  <2>2. TransportInv(limit, active, waiters \cup {<<r, NextN(r)>>}, AskAges, AskAttempts(r))
    BY <2>1, AskTransport
  <2> QED
    BY <2>1, <2>2, DispatchLimits DEF AskDispatches
<1>5. CASE Resizes
  <2>1. PICK n \in Limits : Dispatch(waiters, age, att, active, n)
    BY <1>5 DEF Resizes
  <2>2. TransportInv(n, active, waiters, age, att)
    BY LimitsAssumption DEF IInv, TransportInv, TransportType
  <2> QED
    BY <2>1, <2>2, DispatchLimits
<1> QED
  BY <1>2, <1>3, <1>4, <1>5, Grants

LEMMA StepOrder ==
  ASSUME IInv, [Next]_vars, NEW a \in waiters, NEW b \in waiters,
         att[a].pool = att[b].pool, age[a] > age[b], b \notin waiters', att'[b].permit
  PROVE  a \notin waiters'
<1>1. /\ waiters \subseteq Attempt /\ age \in [Attempt -> Nat]
      /\ att \in [Attempt -> AttemptType] /\ a \in Attempt /\ b \in Attempt
  BY DEF IInv, TransportInv, TransportType
<1>2. CASE Quiet
  BY <1>2 DEF Quiet
<1>3. CASE Releases
  <2>1. PICK c \in Attempt, x \in AttemptType : x.pc \in {"over", "returned"} /\ Release(c, x)
    BY <1>3 DEF Releases
  <2>2. TransportInv(limit, Returned(c), waiters \ {c}, age, Ended(c, x))
    BY <2>1, EndedKeeps
  <2>3. Dispatch(waiters \ {c}, age, Ended(c, x), Returned(c), limit)
    BY <2>1 DEF Release
  <2>4. b # c
    <3> SUFFICES ASSUME b = c PROVE FALSE
      OBVIOUS
    <3>1. att'[c] = [x EXCEPT !.permit = FALSE]
      BY <2>1, ReleaseKeeps
    <3> QED
      BY <3>1 DEF AttemptType
  <2>5. CASE a = c
    BY <2>3, <2>5 DEF Dispatch
  <2>6. CASE a # c
    <3>1. a \in waiters \ {c} /\ b \in waiters \ {c}
      BY <2>4, <2>6
    <3>2. Ended(c, x)[a] = att[a] /\ Ended(c, x)[b] = att[b]
      BY <1>1, <2>4, <2>6 DEF Ended
    <3>3. Ended(c, x)[a].pool = Ended(c, x)[b].pool
      BY <3>2
    <3> QED
      BY <2>2, <2>3, <3>1, <3>3, DispatchOrder
  <2> QED
    BY <2>5, <2>6
<1>4. CASE Asks
  <2>1. PICK r \in Read : rd[r].pc \in {"start", "backoff"} /\ AskDispatches(r)
    BY <1>4 DEF Asks
  <2> DEFINE c == <<r, NextN(r)>>
  <2>2. TransportInv(limit, active, waiters \cup {c}, AskAges, AskAttempts(r))
    BY <2>1, AskTransport
  <2>3. Dispatch(waiters \cup {c}, AskAges, AskAttempts(r), active, limit)
    BY <2>1 DEF AskDispatches
  <2>4. att[c].pc = "new"
    BY <2>1, AskIsNew
  <2>5. c \notin waiters
    BY <2>4 DEF IInv, TransportInv, WaitersOK
  <2>6. AskAttempts(r)[a] = att[a] /\ AskAttempts(r)[b] = att[b]
    BY <1>1, <2>5 DEF AskAttempts
  <2>7. AskAges[a] > AskAges[b]
    BY <1>1 DEF AskAges
  <2>8. AskAttempts(r)[a].pool = AskAttempts(r)[b].pool
    BY <2>6
  <2> HIDE DEF c
  <2> QED
    BY <2>2, <2>3, <2>7, <2>8, DispatchOrder
<1>5. CASE Resizes
  <2>1. PICK n \in Limits : Dispatch(waiters, age, att, active, n)
    BY <1>5 DEF Resizes
  <2>2. TransportInv(n, active, waiters, age, att)
    BY LimitsAssumption DEF IInv, TransportInv, TransportType
  <2> QED
    BY <2>1, <2>2, DispatchOrder
<1> QED
  BY <1>2, <1>3, <1>4, <1>5, Grants

\* No step that adds to the permits in use goes beyond the limit of the pool,
\* whatever was in use before: dispatch grants as many as there is room for.
THEOREM LimitKept == Spec => GrantsWithinLimit
<1>1. IInv /\ [Next]_vars
        => [\A p \in Pool : active'[p] > active[p] => active'[p] <= Limit(p, limit')]_vars
  BY StepLimits
<1> QED
  BY <1>1, SpecInv, PTL DEF Spec, GrantsWithinLimit

\* Permits go to the reads of a pool in the order in which they came, also when
\* reads leave the queue, the limit changes, or several are granted at once.
THEOREM FairOrder == Spec => OldestFirst
<1>1. IInv /\ [Next]_vars
        => [\A a, b \in waiters :
               att[a].pool = att[b].pool /\ age[a] > age[b] /\ b \notin waiters' /\ att'[b].permit
                   => a \notin waiters']_vars
  BY StepOrder
<1> QED
  BY <1>1, SpecInv, PTL DEF Spec, OldestFirst

----------------------------------------------------------------------------
(* Room.                                                                   *)

\* A set of numbers that is not empty has a least one.
LEMMA Least ==
  ASSUME NEW S \in SUBSET Nat, S # {}
  PROVE  \E n \in S : \A m \in S : n <= m
<1>1. PICK n \in S : \A m \in S : <<m, n>> \notin OpToRel(<, Nat)
  BY NatLessThanWellFounded, WFMin
<1>2. \A m \in S : ~(m < n)
  BY <1>1 DEF OpToRel
<1> QED
  BY <1>2

\* Whoever dispatch leaves waiting waits in a pool that is full: of those it
\* leaves, take the one with the fewest ahead; all ahead of it are granted, and
\* they are as many as there was room for.
LEMMA DispatchFills ==
  ASSUME NEW ws, NEW ag, NEW at, NEW act, NEW lim,
         TransportInv(lim, act, ws, ag, at), Dispatch(ws, ag, at, act, lim),
         NEW a \in waiters'
  PROVE  active'[att'[a].pool] >= Limit(att'[a].pool, limit')
<1> DEFINE given == Granted(ws, ag, at, act, lim)
           p == at[a].pool
           part == {b \in given : at[b].pool = p}
           left == {b \in ws \ given : at[b].pool = p}
           ahead(b) == Ahead(b, ws, ag, at)
           counts == {Cardinality(ahead(b)) : b \in left}
<1>1. /\ ws \in SUBSET Attempt /\ ag \in [Attempt -> Nat] /\ act \in [Pool -> Nat]
      /\ lim \in 1..40 /\ at \in [Attempt -> AttemptType]
      /\ \A b, c \in ws : ag[b] = ag[c] => b = c
  BY DEF TransportInv, TransportType, WaitersOK
<1>2. given \subseteq ws /\ a \in ws \ given /\ a \in left
  BY DEF Dispatch, Granted
<1>3. p \in Pool /\ act[p] \in Nat /\ Limit(p, lim) \in Nat
  BY <1>1, <1>2, LimitType DEF AttemptType
<1>4. \A b \in ws : ahead(b) \in SUBSET Attempt /\ Cardinality(ahead(b)) \in Nat
  <2>1. \A b \in ws : ahead(b) \in SUBSET Attempt
    BY <1>1 DEF Ahead
  <2> HIDE DEF ahead
  <2> QED
    BY <2>1, SubsetsFinite
<1>5. PICK b \in left : \A c \in left : Cardinality(ahead(b)) <= Cardinality(ahead(c))
  <2>1. counts \in SUBSET Nat /\ counts # {}
    BY <1>2, <1>4
  <2>2. PICK n \in counts : \A m \in counts : n <= m
    <3> HIDE DEF counts
    <3> QED
      BY <2>1, Least
  <2> QED
    BY <2>2
<1>6. ahead(b) \subseteq part
  <2> SUFFICES ASSUME NEW c \in ahead(b), c \notin given PROVE FALSE
    BY DEF Ahead
  <2>1. c \in ws /\ at[c].pool = at[b].pool /\ ag[c] > ag[b] /\ c \in left
    BY DEF Ahead
  <2>2. Cardinality(ahead(c)) < Cardinality(ahead(b))
    BY <1>1, <2>1, OlderHasFewerAhead
  <2> QED
    BY <1>4, <1>5, <2>1, <2>2
<1>7. Cardinality(ahead(b)) <= Cardinality(part) /\ Cardinality(part) \in Nat
  <2>1. part \in SUBSET Attempt
    BY <1>1, <1>2
  <2> HIDE DEF part, ahead
  <2> QED
    BY <1>6, <2>1, SubsetsFinite, FS_Subset
<1>8. Cardinality(ahead(b)) >= Room(p, act, lim)
  <2>1. ~(Cardinality(ahead(b)) < Room(p, act, lim))
    BY DEF Granted
  <2> QED
    BY <1>3, <1>4, <2>1 DEF Room
<1>9. active'[p] = act[p] + Cardinality(part) /\ limit' = lim
  BY <1>3 DEF Dispatch
<1>10. att'[a].pool = p
  BY <1>1, <1>2, DispatchOne
<1>11. Cardinality(ahead(b)) \in Nat
  BY <1>4
<1> HIDE DEF part, ahead, p
<1> QED
  BY <1>3, <1>7, <1>8, <1>9, <1>10, <1>11 DEF Room

LEMMA StepFills ==
  ASSUME IInv, NobodyWaitsForRoom, [Next]_vars
  PROVE  NobodyWaitsForRoom'
<1>1. CASE Quiet
  BY <1>1 DEF Quiet, NobodyWaitsForRoom, Limit
<1>2. CASE Releases
  <2>1. PICK a \in Attempt, x \in AttemptType : x.pc \in {"over", "returned"} /\ Release(a, x)
    BY <1>2 DEF Releases
  <2>2. TransportInv(limit, Returned(a), waiters \ {a}, age, Ended(a, x))
    BY <2>1, EndedKeeps
  <2> QED
    BY <2>1, <2>2, DispatchFills DEF Release, NobodyWaitsForRoom
<1>3. CASE Asks
  <2>1. PICK r \in Read : rd[r].pc \in {"start", "backoff"} /\ AskDispatches(r)
    BY <1>3 DEF Asks
  <2>2. TransportInv(limit, active, waiters \cup {<<r, NextN(r)>>}, AskAges, AskAttempts(r))
    BY <2>1, AskTransport
  <2> QED
    BY <2>1, <2>2, DispatchFills DEF AskDispatches, NobodyWaitsForRoom
<1>4. CASE Resizes
  <2>1. PICK n \in Limits : Dispatch(waiters, age, att, active, n)
    BY <1>4 DEF Resizes
  <2>2. TransportInv(n, active, waiters, age, att)
    BY LimitsAssumption DEF IInv, TransportInv, TransportType
  <2> QED
    BY <2>1, <2>2, DispatchFills DEF NobodyWaitsForRoom
<1> QED
  BY <1>1, <1>2, <1>3, <1>4, Grants

\* No read waits for a permit while its pool has room, whatever has been given
\* back, asked for or resized: every change of the permits is followed by a
\* dispatch that grants as many as there is room for.
THEOREM RoomIsUsed == Spec => []NobodyWaitsForRoom
<1>1. Init => NobodyWaitsForRoom
  BY DEF Init, NobodyWaitsForRoom
<1>2. IInv /\ NobodyWaitsForRoom /\ [Next]_vars => NobodyWaitsForRoom'
  BY StepFills
<1> QED
  BY <1>1, <1>2, SpecInv, PTL DEF Spec

----------------------------------------------------------------------------
(* Requests on the network.                                                *)

\* The attempts of a read whose native request runs, and those among them that
\* their caller has left.
Natives(r, at) == {n \in 0..MaxRetries : at[<<r, n>>].pc \in {"running", "left"}}
Left(r, at) == {n \in 0..MaxRetries : at[<<r, n>>].pc = "left"}

\* Until a read is answered its loop leaves one request behind at most, and
\* none before it is a replacement.
Leaves(loop, at) ==
    \A r \in Read :
        /\ loop[r].pc # "done" => \A i, j \in Left(r, at) : i = j
        /\ loop[r].pc # "done" /\ ~loop[r].replacement => Left(r, at) = {}
        /\ \A i, j, k \in Natives(r, at) : i = j \/ j = k \/ i = k

\* Dispatch puts nothing on the network.
LEMMA DispatchNatives ==
  ASSUME NEW ws, NEW ag, NEW at \in [Attempt -> AttemptType],
         NEW act, NEW lim, Dispatch(ws, ag, at, act, lim), NEW r \in Read
  PROVE  Left(r, att') \subseteq Left(r, at) /\ Natives(r, att') \subseteq Natives(r, at)
<1>1. \A n \in 0..MaxRetries :
        att'[<<r, n>>].pc \in {"running", "left"} => att'[<<r, n>>].pc = at[<<r, n>>].pc
  <2> SUFFICES ASSUME NEW n \in 0..MaxRetries, att'[<<r, n>>].pc \in {"running", "left"}
               PROVE  att'[<<r, n>>].pc = at[<<r, n>>].pc
    OBVIOUS
  <2>1. <<r, n>> \in Attempt /\ at[<<r, n>>] \in AttemptType
    BY DEF Attempt
  <2> QED
    BY <2>1, DispatchOne, GivenType
<1> QED
  BY <1>1 DEF Left, Natives

\* What does not add to the requests of a read, and does not undo its state.
LEMMA Fewer ==
  ASSUME Leaves(rd, att),
         \A r \in Read : /\ Left(r, att') \subseteq Left(r, att)
                         /\ Natives(r, att') \subseteq Natives(r, att)
                         /\ rd'[r].pc # "done" => rd[r].pc # "done"
                         /\ rd'[r].pc # "done" /\ ~rd'[r].replacement => ~rd[r].replacement
  PROVE  Leaves(rd', att')
BY DEF Leaves

\* What ends an attempt adds to no request.
LEMMA ReleaseLeaves ==
  ASSUME IInv, NEW a \in Attempt, NEW x \in AttemptType, x.pc \in {"over", "returned"},
         Release(a, x), NEW r \in Read
  PROVE  Left(r, att') \subseteq Left(r, att) /\ Natives(r, att') \subseteq Natives(r, att)
<1>1. TransportInv(limit, Returned(a), waiters \ {a}, age, Ended(a, x))
  BY EndedKeeps
<1>2. /\ Left(r, att') \subseteq Left(r, Ended(a, x))
      /\ Natives(r, att') \subseteq Natives(r, Ended(a, x))
  BY <1>1, DispatchNatives DEF Release, TransportInv, TransportType
<1>3. \A n \in 0..MaxRetries :
        \/ Ended(a, x)[<<r, n>>] = att[<<r, n>>]
        \/ Ended(a, x)[<<r, n>>].pc \notin {"running", "left"}
  BY DEF Ended, IInv, TransportInv, TransportType, AttemptType, Attempt
<1> QED
  BY <1>2, <1>3 DEF Left, Natives

\* An answer ends the loop, and changes no other read.
LEMMA AnswerGoes ==
  ASSUME IInv, NEW r \in Read, NEW out, Answer(r, out)
  PROVE  \A q \in Read : /\ rd'[q].pc # "done" => rd[q].pc # "done"
                         /\ rd'[q].pc # "done" /\ ~rd'[q].replacement => ~rd[q].replacement
BY DEF Answer, Idle, IInv, LoopInv

LEMMA AskLeaves ==
  ASSUME IInv, Leaves(rd, att), NEW r \in Read, Ask(r)
  PROVE  Leaves(rd', att')
<1>1. CASE Refused(r) /\ UNCHANGED transport
  <2>1. att' = att /\ Answer(r, "error")
    BY <1>1 DEF Refused, transport
  <2>2. \A q \in Read : /\ rd'[q].pc # "done" => rd[q].pc # "done"
                        /\ rd'[q].pc # "done" /\ ~rd'[q].replacement => ~rd[q].replacement
    BY <2>1, AnswerGoes
  <2> QED
    BY <2>1, <2>2, Fewer
<1>2. CASE AskDispatches(r)
  <2>1. rd[r].pc \in {"start", "backoff"}
    BY AskCases
  <2>2. TransportInv(limit, active, waiters \cup {<<r, NextN(r)>>}, AskAges, AskAttempts(r))
    BY <2>1, AskTransport
  <2>3. \A q \in Read : /\ Left(q, att') \subseteq Left(q, AskAttempts(r))
                        /\ Natives(q, att') \subseteq Natives(q, AskAttempts(r))
    BY <1>2, <2>2, DispatchNatives DEF AskDispatches, TransportInv, TransportType
  <2>4. \A q \in Read, n \in 0..MaxRetries :
          \/ AskAttempts(r)[<<q, n>>] = att[<<q, n>>]
          \/ AskAttempts(r)[<<q, n>>].pc \notin {"running", "left"}
    BY <2>1, AskIsNew DEF AskAttempts, IInv, TransportInv, TransportType, Attempt
  <2>5. \A q \in Read : rd'[q].replacement = rd[q].replacement
                         /\ (rd'[q].pc # "done" => rd[q].pc # "done")
    BY <1>2, <2>1 DEF AskDispatches, IInv, LoopInv, ReadType
  <2>6. \A q \in Read : /\ Left(q, AskAttempts(r)) \subseteq Left(q, att)
                        /\ Natives(q, AskAttempts(r)) \subseteq Natives(q, att)
    BY <2>4 DEF Left, Natives
  <2> QED
    BY <2>3, <2>5, <2>6, Fewer
<1> QED
  BY <1>1, <1>2, AskCases

LEMMA EndsLeaves ==
  ASSUME IInv, Leaves(rd, att), NEW r \in Read, Release(Current(r), Past), Refused(r)
  PROVE  Leaves(rd', att')
<1>1. \A q \in Read : /\ Left(q, att') \subseteq Left(q, att)
                      /\ Natives(q, att') \subseteq Natives(q, att)
  BY ReleaseLeaves, CurrentType, PastType
<1>2. \A q \in Read : /\ rd'[q].pc # "done" => rd[q].pc # "done"
                      /\ rd'[q].pc # "done" /\ ~rd'[q].replacement => ~rd[q].replacement
  BY AnswerGoes DEF Refused
<1> QED
  BY <1>1, <1>2, Fewer

LEMMA StartLeaves ==
  ASSUME IInv, Leaves(rd, att), NEW r \in Read, Start(r)
  PROVE  Leaves(rd', att')
<1>1. CASE Over(r)
  <2>1. Release(Current(r), Past) /\ Refused(r)
    BY <1>1 DEF Start
  <2> QED
    BY <2>1, EndsLeaves
<1>2. CASE ~Over(r)
  <2>1. /\ att' = [att EXCEPT ![Current(r)].pc = "running"] /\ rd' = rd
        /\ att[Current(r)].pc = "granted"
    BY <1>2 DEF Start
  <2>2. att \in [Attempt -> AttemptType] /\ Current(r) \in Attempt /\ rd[r].n \in 0..MaxRetries
    BY CurrentType DEF IInv, TransportInv, TransportType, ReadType
  <2>3. \A b \in Attempt : att'[b].pc = IF b = Current(r) THEN "running" ELSE att[b].pc
    BY <2>1, <2>2 DEF AttemptType
  <2>4. \A q \in Read : Left(q, att') = Left(q, att) /\ (q # r => Natives(q, att') = Natives(q, att))
    BY <2>1, <2>3 DEF Left, Natives, Attempt, Current
  <2>5. rd[r].pc = "waiting"
    BY <2>1, <2>2 DEF IInv, LoopInv, Busy, Current
  <2>6. Natives(r, att') \subseteq Left(r, att) \cup {rd[r].n}
    <3>1. \A n \in 0..MaxRetries : att[<<r, n>>].pc = "running" => n = rd[r].n
      BY DEF IInv, LoopInv, Busy
    <3> QED
      BY <2>3, <3>1 DEF Left, Natives, Attempt, Current
  <2>7. \A i, j, k \in Natives(r, att') : i = j \/ j = k \/ i = k
    BY <2>5, <2>6 DEF Leaves
  <2>8. \A q \in Read : \A i, j, k \in Natives(q, att') : i = j \/ j = k \/ i = k
    BY <2>4, <2>7 DEF Leaves
  <2>9. \A q \in Read : rd[q].pc # "done" => \A i, j \in Left(q, att') : i = j
    BY <2>4 DEF Leaves
  <2>10. \A q \in Read : rd[q].pc # "done" /\ ~rd[q].replacement => Left(q, att') = {}
    BY <2>4 DEF Leaves
  <2> QED
    BY <2>1, <2>8, <2>9, <2>10 DEF Leaves
<1> QED
  BY <1>1, <1>2

LEMMA LeaveLeaves ==
  ASSUME IInv, Leaves(rd, att), NEW r \in Read, Leave(r)
  PROVE  Leaves(rd', att')
<1>1. /\ att' = [att EXCEPT ![Current(r)].pc = "left"] /\ Unresolved(r)
      /\ att[Current(r)].pc = "running"
  BY DEF Leave
<1>2. att \in [Attempt -> AttemptType] /\ Current(r) \in Attempt /\ rd[r].n \in 0..MaxRetries
  BY CurrentType DEF IInv, TransportInv, TransportType, ReadType
<1>3. \A b \in Attempt : att'[b].pc = IF b = Current(r) THEN "left" ELSE att[b].pc
  BY <1>1, <1>2 DEF AttemptType
<1>4. \A q \in Read : Natives(q, att') = Natives(q, att) /\ (q # r => Left(q, att') = Left(q, att))
  BY <1>1, <1>3 DEF Left, Natives, Attempt, Current
<1>5. rd[r].pc = "waiting"
  BY <1>1, <1>2 DEF IInv, LoopInv, Busy, Current
<1>6. Left(r, att') = Left(r, att) \cup {rd[r].n}
  BY <1>2, <1>3 DEF Left, Attempt, Current
<1>7. rd \in [Read -> ReadType]
  BY DEF IInv, LoopInv
<1>8. CASE Refused(r)
  <2>1. rd'[r].pc = "done" /\ \A q \in Read : q # r => rd'[q] = rd[q]
    BY <1>7, <1>8 DEF Refused, Answer, Idle
  <2> QED
    BY <1>4, <2>1 DEF Leaves
<1>9. CASE Replaces(r) /\ rd' = [rd EXCEPT ![r].pc = "backoff", ![r].replacement = TRUE]
  <2>1. /\ rd'[r].pc = "backoff" /\ rd'[r].replacement /\ ~rd[r].replacement
        /\ \A q \in Read : q # r => rd'[q] = rd[q]
    BY <1>7, <1>9 DEF Replaces, ReadType
  <2> QED
    BY <1>4, <1>5, <1>6, <2>1 DEF Leaves
<1> QED
  BY <1>1, <1>8, <1>9 DEF Unresolved

LEMMA DeliverLeaves ==
  ASSUME IInv, Leaves(rd, att), NEW r \in Read, Deliver(r)
  PROVE  Leaves(rd', att')
<1>1. att \in [Attempt -> AttemptType] /\ Current(r) \in Attempt
  BY CurrentType DEF IInv, TransportInv, TransportType
<1>2. \A q \in Read : /\ Left(q, att') \subseteq Left(q, att)
                      /\ Natives(q, att') \subseteq Natives(q, att)
  BY <1>1, PastType DEF Deliver, Left, Natives, Attempt
<1>3. (\E out \in {"error", "response"} : Answer(r, out)) \/ rd' = [rd EXCEPT ![r].pc = "backoff"]
  BY DEF Deliver, Refused, Failed
<1>4. rd[r].pc = "waiting" /\ rd \in [Read -> ReadType]
  BY CurrentType DEF Deliver, IInv, LoopInv, Busy, Current, ReadType
<1>5. CASE rd' = [rd EXCEPT ![r].pc = "backoff"]
  <2>1. \A q \in Read : rd'[q].replacement = rd[q].replacement
                         /\ (rd'[q].pc # "done" => rd[q].pc # "done")
    BY <1>4, <1>5 DEF ReadType
  <2> QED
    BY <1>2, <2>1, Fewer
<1>6. ASSUME NEW out \in {"error", "response"}, Answer(r, out)
      PROVE  Leaves(rd', att')
  <2>1. \A q \in Read : /\ rd'[q].pc # "done" => rd[q].pc # "done"
                        /\ rd'[q].pc # "done" /\ ~rd'[q].replacement => ~rd[q].replacement
    BY <1>6, AnswerGoes
  <2> QED
    BY <1>2, <2>1, Fewer
<1> QED
  BY <1>3, <1>5, <1>6

LEMMA NativeReturnsLeaves ==
  ASSUME IInv, Leaves(rd, att), NEW a \in Attempt, NativeReturns(a)
  PROVE  Leaves(rd', att')
<1>1. PICK result \in Results :
        Release(a, IF att[a].pc = "running" THEN [att[a] EXCEPT !.pc = "returned", !.result = result]
                   ELSE Past)
  BY DEF NativeReturns
<1>2. att[a] \in AttemptType
  BY DEF IInv, TransportInv, TransportType
<1>3. \E x \in AttemptType : x.pc \in {"over", "returned"} /\ Release(a, x)
  <2>1. CASE att[a].pc = "running"
    <3> DEFINE x == [att[a] EXCEPT !.pc = "returned", !.result = result]
    <3>1. x \in AttemptType /\ x.pc = "returned"
      BY <1>2 DEF AttemptType
    <3>2. Release(a, x)
      BY <1>1, <2>1
    <3> HIDE DEF x
    <3> QED
      BY <3>1, <3>2
  <2> QED
    BY <1>1, <2>1, PastType
<1> QED
  BY <1>3, Fewer, ReleaseLeaves DEF NativeReturns

LEMMA SetConcurrencyLeaves ==
  ASSUME IInv, Leaves(rd, att), NEW n \in Limits, SetConcurrency(n)
  PROVE  Leaves(rd', att')
BY Fewer, DispatchNatives DEF SetConcurrency, IInv, TransportInv, TransportType

LEMMA LoopLeaves ==
  ASSUME IInv, Leaves(rd, att),
         \/ Interrupt
         \/ \E r \in Read : Begin(r) \/ Expire(r)
  PROVE  Leaves(rd', att')
<1>1. \A q \in Read : rd'[q].replacement = rd[q].replacement
                       /\ (rd'[q].pc # "done" => rd[q].pc # "done")
  BY DEF Interrupt, Begin, Expire, IInv, LoopInv, ReadType
<1>2. att' = att
  BY DEF Interrupt, Begin, Expire, transport
<1> QED
  BY <1>1, <1>2, Fewer

LEMMA StopWaitingLeaves ==
  ASSUME IInv, Leaves(rd, att), NEW r \in Read, StopWaiting(r)
  PROVE  Leaves(rd', att')
<1>1. att \in [Attempt -> AttemptType] /\ Current(r) \in Attempt
  BY CurrentType DEF IInv, TransportInv, TransportType
<1>2. \A b \in Attempt : att'[b].pc = IF b = Current(r) THEN "stopping" ELSE att[b].pc
  BY <1>1 DEF StopWaiting, AttemptType
<1>3. \A q \in Read : /\ Left(q, att') \subseteq Left(q, att)
                      /\ Natives(q, att') \subseteq Natives(q, att)
  BY <1>2 DEF Left, Natives, Attempt
<1> QED
  BY <1>3, Fewer DEF StopWaiting

LEMMA StepLeaves ==
  ASSUME IInv, Leaves(rd, att), [Next]_vars
  PROVE  Leaves(rd', att')
<1>1. ASSUME NEW r \in Read, Stop(r)
      PROVE  Leaves(rd', att')
  BY <1>1, EndsLeaves DEF Stop
<1>2. CASE UNCHANGED vars
  BY <1>2, Fewer DEF vars
<1> QED
  BY <1>1, <1>2, AskLeaves, StartLeaves, LeaveLeaves, DeliverLeaves, StopWaitingLeaves,
     NativeReturnsLeaves, SetConcurrencyLeaves, LoopLeaves DEF Next, Step

\* A set without three different elements has at most two.
LEMMA AtMostTwo ==
  ASSUME NEW S, \A i, j, k \in S : i = j \/ j = k \/ i = k
  PROVE  Cardinality(S) <= 2
<1>1. CASE S = {}
  BY <1>1, FS_EmptySet
<1>2. CASE \E i \in S : S = {i}
  <2>1. PICK i \in S : S = {i}
    BY <1>2
  <2>2. Cardinality({i}) = 1
    BY FS_Singleton
  <2> QED
    BY <2>1, <2>2
<1>3. CASE \E i, j \in S : i # j
  <2>1. PICK i \in S, j \in S : i # j
    BY <1>3
  <2>2. S = {i} \cup {j}
    BY <2>1
  <2>3. IsFiniteSet({i}) /\ Cardinality({i}) = 1
    BY FS_Singleton
  <2> QED
    BY <2>1, <2>2, <2>3, FS_AddElement
<1> QED
  BY <1>1, <1>2, <1>3

\* However often a read is tried, at most two requests of it are on the
\* network: it is replaced once, and what it replaces is the only one it left.
THEOREM TwoRequestsAtMost == Spec => []TwoNatives
<1>1. Init => Leaves(rd, att)
  BY DEF Init, Leaves, Left, Natives, Attempt, Fresh
<1>2. IInv /\ Leaves(rd, att) /\ [Next]_vars => Leaves(rd, att)'
  BY StepLeaves
<1>3. Leaves(rd, att) => TwoNatives
  BY AtMostTwo DEF Leaves, Natives, TwoNatives
<1> QED
  BY <1>1, <1>2, <1>3, SpecInv, PTL DEF Spec

\* A read in progress when the token, the path or the encryption changes is
\* not answered with what it read before.
THEOREM NothingFromBeforeIsGiven == Spec => NothingFromBefore
<1>1. IInv /\ [Next]_vars
        => [\A r \in Read : rd'[r].out = "response" /\ rd[r].out # "response"
                                => ~rd[r].revoked]_vars
  <2> SUFFICES ASSUME IInv, [Next]_vars, NEW r \in Read,
                      rd'[r].out = "response", rd[r].out # "response"
               PROVE  ~rd[r].revoked
    OBVIOUS
  <2>1. rd \in [Read -> ReadType]
    BY DEF IInv, LoopInv
  <2>2. \A q \in Read, out \in {"error", "response"} :
          Answer(q, out) => out = "response" /\ q = r
    BY <2>1 DEF Answer, Idle
  <2>3. \A q \in Read : ~Refused(q)
    BY <2>2 DEF Refused
  <2>4. \A q \in Read : Deliver(q) => ~Over(q) /\ q = r
    BY <2>1, <2>2, <2>3 DEF Deliver, Failed, ReadType
  <2>5. \A q \in Read : ~Begin(q) /\ ~Expire(q) /\ ~Ask(q) /\ ~StopWaiting(q) /\ ~Stop(q)
                         /\ ~Start(q) /\ ~Leave(q)
    <3>1. \A q \in Read : ~Begin(q) /\ ~Expire(q) /\ ~StopWaiting(q) /\ ~Stop(q)
      BY <2>1, <2>3 DEF Begin, Expire, StopWaiting, Stop, ReadType
    <3>2. ASSUME NEW q \in Read, Ask(q)
          PROVE  FALSE
      <4>1. AskDispatches(q)
        BY <2>3, <3>2, AskCases
      <4>2. rd'[r].out = rd[r].out
        BY <2>1, <4>1 DEF AskDispatches, ReadType
      <4> QED
        BY <4>2
    <3>3. \A q \in Read : ~Start(q) /\ ~Leave(q)
      BY <2>1, <2>3 DEF Start, Leave, Unresolved, ReadType
    <3> QED
      BY <3>1, <3>2, <3>3
  <2>6. ~Interrupt /\ ~UNCHANGED vars
    BY <2>1 DEF Interrupt, vars, ReadType
  <2>7. (\A a \in Attempt : ~NativeReturns(a)) /\ \A n \in Limits : ~SetConcurrency(n)
    BY DEF NativeReturns, SetConcurrency
  <2> QED
    BY <2>4, <2>5, <2>6, <2>7 DEF Next, Step, Over
<1> QED
  BY <1>1, SpecInv, PTL DEF Spec, NothingFromBefore
=============================================================================
