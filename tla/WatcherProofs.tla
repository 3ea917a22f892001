---------------------------- MODULE WatcherProofs ----------------------------
(***************************************************************************)
(* The inductive invariant of Watcher, and that every reachable state      *)
(* satisfies IndexConsistent.                                              *)
(*                                                                         *)
(* The queue is rebuilt by Picked, a recursive function.  What it returns  *)
(* is proved from the least element of a set of numbers (Least): a place   *)
(* where a claim about the first n elements fails would have a first one.  *)
(* The rest is one lemma per action, each with the parts of the invariant  *)
(* the action can disturb.                                                 *)
(***************************************************************************)
EXTENDS Watcher, WellFoundedInduction, SequenceTheorems, FiniteSetTheorems, TLAPS

-----------------------------------------------------------------------------
(* Numbers and sequences. *)

LEMMA NatLess == \E R : IsWellFoundedOn(R, Nat) /\ \A x, y \in Nat : <<x, y>> \in R <=> x < y
<1> DEFINE R == OpToRel(<, Nat)
<1>1. IsWellFoundedOn(R, Nat)
  BY NatLessThanWellFounded
<1>2. \A x, y \in Nat : <<x, y>> \in R <=> x < y
  BY DEF OpToRel
<1> HIDE DEF R
<1> QED
  BY <1>1, <1>2
LEMMA Least ==
  ASSUME NEW S \in SUBSET Nat, S # {}
  PROVE  \E n \in S : \A m \in S : n <= m
<1>1. PICK R : IsWellFoundedOn(R, Nat) /\ \A x, y \in Nat : <<x, y>> \in R <=> x < y
  BY NatLess
<1>2. IsWellFoundedOn(R, Nat)
  BY <1>1
<1>5. S \subseteq Nat
  OBVIOUS
<1>3. \E n \in S : \A m \in S : ~ (<<m, n>> \in R)
  BY <1>2, <1>5, WFMin, Zenon
<1>4. PICK n \in S : \A m \in S : <<m, n>> \notin R
  BY <1>3
<1>6. \A x, y \in Nat : <<x, y>> \in R <=> x < y
  BY <1>1
<1>7. \A m \in S : ~(m < n)
  BY <1>4, <1>6, <1>5
<1>8. n \in Nat /\ \A m \in S : m \in Nat
  BY <1>5
<1> QED
  BY <1>7, <1>8, SMT

LEMMA Greatest ==
  ASSUME NEW N \in Nat, NEW S \in SUBSET (0 .. N), S # {}
  PROVE  \E n \in S : \A m \in S : m <= n
<1> DEFINE T == {k \in 0 .. N : N - k \in S}
<1>1. PICK x \in S : TRUE
  OBVIOUS
<1>2. N - x \in T
  BY <1>1
<1>5. T \in SUBSET Nat
  OBVIOUS
<1>6. T # {}
  BY <1>2
<1> HIDE DEF T
<1>3. PICK k \in T : \A j \in T : k <= j
  BY <1>5, <1>6, Least
<1> USE DEF T
<1>4. \A m \in S : N - m \in T
  OBVIOUS
<1> QED
  BY <1>3, <1>4

\* f builds the picked elements up to each place.
Builds(f, q, I, n) ==
  \A k \in 0 .. n : f[k] = IF k = 0 THEN <<>>
                           ELSE IF k \in I THEN Append(f[k - 1], q[k]) ELSE f[k - 1]

LEMMA BuilderExists ==
  ASSUME NEW E, NEW q \in Seq(E), NEW I
  PROVE  \E f \in [0 .. Len(q) -> Seq(E)] : Builds(f, q, I, Len(q))
<1> DEFINE Bad == {n \in 0 .. Len(q) :
                     ~ \E f \in [0 .. n -> Seq(E)] : Builds(f, q, I, n)}
<1> SUFFICES ASSUME Bad # {} PROVE FALSE
  BY LenProperties
<1>0. Bad \in SUBSET Nat
  BY LenProperties
<1> HIDE DEF Bad
<1>1. PICK n \in Bad : \A m \in Bad : n <= m
  BY <1>0, Least
<1> USE DEF Bad
<1>2. n \in Nat /\ n <= Len(q) /\ Len(q) \in Nat
  BY LenProperties
<1>3. n # 0
  <2>1. [k \in 0 .. 0 |-> <<>>] \in [0 .. 0 -> Seq(E)]
    OBVIOUS
  <2>2. Builds([k \in 0 .. 0 |-> <<>>], q, I, 0)
    BY DEF Builds
  <2> QED
    BY <2>1, <2>2
<1>4. n - 1 \in 0 .. Len(q) /\ n - 1 \notin Bad
  <2>1. \A k : k \in Bad => n <= k
    BY <1>1
  <2> HIDE DEF Bad
  <2> QED
    BY <2>1, <1>2, <1>3
<1>5. PICK f \in [0 .. n - 1 -> Seq(E)] : Builds(f, q, I, n - 1)
  BY <1>4
<1> DEFINE next == IF n \in I THEN Append(f[n - 1], q[n]) ELSE f[n - 1]
           g == [k \in 0 .. n |-> IF k = n THEN next ELSE f[k]]
<1>6. next \in Seq(E)
  <2>1. q[n] \in E /\ f[n - 1] \in Seq(E)
    BY <1>2, <1>3, ElementOfSeq
  <2> QED
    BY <2>1, AppendProperties
<1> HIDE DEF next
<1>7. g \in [0 .. n -> Seq(E)]
  BY <1>2, <1>3, <1>6
<1>8. \A k \in 0 .. n - 1 : g[k] = f[k]
  BY <1>2, <1>3
<1>9. Builds(g, q, I, n)
  <2> SUFFICES ASSUME NEW k \in 0 .. n
               PROVE  g[k] = IF k = 0 THEN <<>>
                             ELSE IF k \in I THEN Append(g[k - 1], q[k]) ELSE g[k - 1]
    BY DEF Builds
  <2>1. CASE k = n
    BY <1>2, <1>3, <1>8, <2>1 DEF next
  <2>2. CASE k # n
    <3>1. k \in 0 .. n - 1 /\ (k # 0 => k - 1 \in 0 .. n - 1)
      BY <1>2, <2>2
    <3> QED
      BY <1>5, <1>8, <3>1 DEF Builds
  <2> QED
    BY <2>1, <2>2
<1> QED
  BY <1>1, <1>7, <1>9

LEMMA PickedBuilds ==
  ASSUME NEW E, NEW q \in Seq(E), NEW I
  PROVE  \E f : Builds(f, q, I, Len(q)) /\ Picked(q, I) = f[Len(q)]
<1> DEFINE Def(f) == f = [n \in 0 .. Len(q) |->
                 IF n = 0 THEN <<>>
                 ELSE IF n \in I THEN Append(f[n - 1], q[n]) ELSE f[n - 1]]
           F == CHOOSE f : Def(f)
<1>1. PICK f \in [0 .. Len(q) -> Seq(E)] : Builds(f, q, I, Len(q))
  BY BuilderExists
<1>2. Def(f)
  BY <1>1 DEF Builds
<1>3. Def(F)
  BY <1>2
<1>4. Picked(q, I) = F[Len(q)]
  BY DEF Picked
<1>5. Builds(F, q, I, Len(q))
  BY <1>3 DEF Builds
<1> QED
  BY <1>4, <1>5

\* s has the elements of q at the places of I up to n.
Follows(s, q, I, n) ==
  \E m \in [1 .. Len(s) -> 1 .. n] :
     /\ \A j, k \in 1 .. Len(s) : j < k => m[j] < m[k]
     /\ \A k \in 1 .. Len(s) : m[k] \in I /\ s[k] = q[m[k]]
     /\ \A i \in 1 .. n : i \in I => \E k \in 1 .. Len(s) : m[k] = i

LEMMA PickedFollows ==
  ASSUME NEW E, NEW q \in Seq(E), NEW I
  PROVE  Picked(q, I) \in Seq(E) /\ Follows(Picked(q, I), q, I, Len(q))
<1>1. PICK f : Builds(f, q, I, Len(q)) /\ Picked(q, I) = f[Len(q)]
  BY PickedBuilds
<1> DEFINE Bad == {n \in 0 .. Len(q) : ~(f[n] \in Seq(E) /\ Follows(f[n], q, I, n))}
<1>2. Len(q) \in Nat
  BY LenProperties
<1> SUFFICES ASSUME Bad # {} PROVE FALSE
  BY <1>1, <1>2
<1>0. Bad \in SUBSET Nat
  BY <1>2
<1> HIDE DEF Bad
<1>3. PICK n \in Bad : \A m \in Bad : n <= m
  BY <1>0, Least
<1> USE DEF Bad
<1>4. n \in Nat /\ n <= Len(q)
  BY <1>2
<1>5. n # 0
  <2>1. f[0] = <<>>
    BY <1>1, <1>2 DEF Builds
  <2>2. <<>> \in Seq(E) /\ Len(<<>>) = 0
    OBVIOUS
  <2>3. [k \in 1 .. 0 |-> 1] \in [1 .. 0 -> 1 .. 0]
    OBVIOUS
  <2>4. Follows(<<>>, q, I, 0)
    <3> DEFINE z == <<>>
    <3>1. Len(z) = 0
      BY <2>2
    <3>2. \A x : x \notin 1 .. 0
      OBVIOUS
    <3> HIDE DEF z
    <3>3. Follows(z, q, I, 0)
      BY <2>3, <3>1, <3>2 DEF Follows
    <3> QED
      BY <3>3 DEF z
  <2> QED
    BY <2>1, <2>2, <2>4
<1>6. n - 1 \in 0 .. Len(q) /\ n - 1 \notin Bad
  BY <1>2, <1>3, <1>4, <1>5
<1>7. f[n - 1] \in Seq(E) /\ Follows(f[n - 1], q, I, n - 1)
  BY <1>6
<1> DEFINE s == f[n - 1]
           L == Len(s)
<1>8. L \in Nat /\ DOMAIN s = 1 .. L
  BY <1>7, LenProperties
<1>9. PICK m \in [1 .. L -> 1 .. n - 1] :
         /\ \A j, k \in 1 .. L : j < k => m[j] < m[k]
         /\ \A k \in 1 .. L : m[k] \in I /\ s[k] = q[m[k]]
         /\ \A i \in 1 .. n - 1 : i \in I => \E k \in 1 .. L : m[k] = i
  BY <1>7 DEF Follows
<1>10. f[n] = IF n \in I THEN Append(s, q[n]) ELSE s
  BY <1>1, <1>2, <1>4, <1>5 DEF Builds
<1> HIDE DEF s, L
<1>11. CASE n \notin I
  <2>1. m \in [1 .. L -> 1 .. n]
    BY <1>4, <1>8, <1>9
  <2>2. \A i \in 1 .. n : i \in I => i \in 1 .. n - 1
    BY <1>4, <1>11
  <2>3. Follows(s, q, I, n)
    BY <1>9, <2>1, <2>2 DEF Follows, L
  <2> QED
    BY <1>3, <1>7, <1>10, <1>11, <2>3 DEF s
<1>12. CASE n \in I
  <2> DEFINE t == Append(s, q[n])
             w == [k \in 1 .. L + 1 |-> IF k = L + 1 THEN n ELSE m[k]]
  <2>1. q[n] \in E /\ s \in Seq(E)
    BY <1>4, <1>5, <1>7, ElementOfSeq DEF s
  <2>2. t \in Seq(E) /\ Len(t) = L + 1 /\ t[L + 1] = q[n] /\ \A k \in 1 .. L : t[k] = s[k]
    BY <2>1, <1>8, AppendProperties DEF L
  <2>3. w \in [1 .. L + 1 -> 1 .. n]
    BY <1>4, <1>5, <1>8, <1>9
  <2>4. w[L + 1] = n /\ \A k \in 1 .. L : w[k] = m[k] /\ m[k] \in 1 .. n - 1
    BY <1>8, <1>9
  <2> HIDE DEF t, w
  <2>5. \A j, k \in 1 .. L + 1 : j < k => w[j] < w[k]
    <3> SUFFICES ASSUME NEW j \in 1 .. L + 1, NEW k \in 1 .. L + 1, j < k
                 PROVE  w[j] < w[k]
      OBVIOUS
    <3>1. j \in 1 .. L
      BY <1>8
    <3>2. CASE k = L + 1
      BY <2>4, <3>1, <3>2, <1>4
    <3>3. CASE k # L + 1
      <4>1. k \in 1 .. L
        BY <1>8, <3>3
      <4> QED
        BY <2>4, <3>1, <4>1, <1>9
    <3> QED
      BY <3>2, <3>3
  <2>6. \A k \in 1 .. L + 1 : w[k] \in I /\ t[k] = q[w[k]]
    <3> SUFFICES ASSUME NEW k \in 1 .. L + 1 PROVE w[k] \in I /\ t[k] = q[w[k]]
      OBVIOUS
    <3>1. k = L + 1 \/ k \in 1 .. L
      BY <1>8
    <3> QED
      BY <1>9, <1>12, <2>2, <2>4, <3>1
  <2>7. \A i \in 1 .. n : i \in I => \E k \in 1 .. L + 1 : w[k] = i
    <3> SUFFICES ASSUME NEW i \in 1 .. n, i \in I PROVE \E k \in 1 .. L + 1 : w[k] = i
      OBVIOUS
    <3>1. CASE i = n
      BY <1>8, <2>4, <3>1
    <3>2. CASE i # n
      <4>1. i \in 1 .. n - 1
        BY <1>4, <3>2
      <4>2. PICK k \in 1 .. L : m[k] = i
        BY <1>9, <4>1
      <4>3. k \in 1 .. L + 1
        BY <1>8
      <4> QED
        BY <2>4, <4>2, <4>3
    <3> QED
      BY <3>1, <3>2
  <2>9. Len(t) = L + 1
    BY <2>2
  <2>8. Follows(t, q, I, n)
    <3> DEFINE K == L + 1
    <3>1. /\ w \in [1 .. K -> 1 .. n]
          /\ \A j, k \in 1 .. K : j < k => w[j] < w[k]
          /\ \A k \in 1 .. K : w[k] \in I /\ t[k] = q[w[k]]
          /\ \A i \in 1 .. n : i \in I => \E k \in 1 .. K : w[k] = i
      BY <2>3, <2>5, <2>6, <2>7
    <3>2. Len(t) = K
      BY <2>9
    <3> HIDE DEF K
    <3> QED
      BY <3>1, <3>2 DEF Follows
  <2> QED
    BY <1>3, <1>10, <1>12, <2>2, <2>8 DEF t
<1> QED
  BY <1>11, <1>12

-----------------------------------------------------------------------------
(* Queues. *)

Distinct(q) == \A i, j \in DOMAIN q : i # j => q[i].id # q[j].id

\* A queue of distinct events that were made before the n-th.
Good(q, n) == /\ q \in Seq(EventType) /\ Distinct(q)
              /\ \A i \in DOMAIN q : q[i].id <= n

LEMMA ElementGood ==
  ASSUME NEW n, NEW q, Good(q, n), NEW i \in DOMAIN q
  PROVE  q[i] \in EventType /\ i \in Nat
  BY ElementOfSeq, LenProperties DEF Good

LEMMA PickedGood ==
  ASSUME NEW n, NEW q, Good(q, n), NEW I
  PROVE  Good(Picked(q, I), n)
<1> DEFINE s == Picked(q, I)
<1>1. s \in Seq(EventType) /\ Follows(s, q, I, Len(q))
  BY PickedFollows DEF Good
<1>2. Len(s) \in Nat /\ DOMAIN s = 1 .. Len(s) /\ Len(q) \in Nat /\ DOMAIN q = 1 .. Len(q)
  BY <1>1, LenProperties DEF Good
<1> HIDE DEF s
<1>3. PICK m \in [1 .. Len(s) -> 1 .. Len(q)] :
         /\ \A j, k \in 1 .. Len(s) : j < k => m[j] < m[k]
         /\ \A k \in 1 .. Len(s) : m[k] \in I /\ s[k] = q[m[k]]
  BY <1>1 DEF Follows
<1>4. \A j, k \in 1 .. Len(s) : j # k => m[j] # m[k]
  <2> SUFFICES ASSUME NEW j \in 1 .. Len(s), NEW k \in 1 .. Len(s), j # k
               PROVE  m[j] # m[k]
    OBVIOUS
  <2>1. m[j] \in Int /\ m[k] \in Int
    BY <1>2, <1>3
  <2>2. j < k \/ k < j
    BY <1>2
  <2> QED
    BY <1>3, <2>1, <2>2
<1>5. Distinct(s)
  BY <1>2, <1>3, <1>4 DEF Good, Distinct
<1>6. \A k \in DOMAIN s : s[k].id <= n
  BY <1>2, <1>3 DEF Good
<1> QED
  BY <1>1, <1>5, <1>6 DEF Good, s

LEMMA AppendGood ==
  ASSUME NEW n \in Nat, NEW q, Good(q, n), NEW e \in EventType, e.id = n + 1
  PROVE  Good(Append(q, e), n + 1)
<1> DEFINE s == Append(q, e)
<1>1. Len(q) \in Nat /\ DOMAIN q = 1 .. Len(q)
  BY LenProperties DEF Good
<1>2. /\ s \in Seq(EventType) /\ Len(s) = Len(q) + 1 /\ DOMAIN s = 1 .. Len(q) + 1
      /\ s[Len(q) + 1] = e /\ \A i \in 1 .. Len(q) : s[i] = q[i]
  BY AppendProperties DEF Good
<1> HIDE DEF s
<1>3. \A i \in 1 .. Len(q) + 1 : i = Len(q) + 1 \/ i \in 1 .. Len(q)
  BY <1>1
<1>4. \A i \in 1 .. Len(q) : q[i].id \in Int /\ q[i].id <= n
  <2>1. \A i \in DOMAIN q : q[i] \in EventType /\ q[i].id <= n
    BY ElementGood DEF Good
  <2> QED
    BY <1>1, <2>1 DEF EventType
<1>5. \A i \in 1 .. Len(q) + 1 : s[i].id <= n + 1
  BY <1>2, <1>3, <1>4
<1>6. Distinct(s)
  <2> SUFFICES ASSUME NEW i \in 1 .. Len(q) + 1, NEW j \in 1 .. Len(q) + 1, i # j
               PROVE  s[i].id # s[j].id
    BY <1>2 DEF Distinct
  <2>1. CASE i \in 1 .. Len(q) /\ j \in 1 .. Len(q)
    BY <1>1, <1>2, <2>1 DEF Good, Distinct
  <2>2. CASE i = Len(q) + 1 /\ j \in 1 .. Len(q)
    BY <1>2, <1>4, <2>2
  <2>3. CASE j = Len(q) + 1 /\ i \in 1 .. Len(q)
    BY <1>2, <1>4, <2>3
  <2> QED
    BY <1>3, <2>1, <2>2, <2>3
<1> QED
  BY <1>2, <1>5, <1>6 DEF Good, s

LEMMA SameIdsGood ==
  ASSUME NEW n, NEW q, Good(q, n), NEW s \in Seq(EventType), DOMAIN s = DOMAIN q,
         \A i \in DOMAIN q : s[i].id = q[i].id
  PROVE  Good(s, n)
  BY DEF Good, Distinct

LEMMA GoodLater ==
  ASSUME NEW n \in Nat, NEW q, Good(q, n)
  PROVE  Good(q, n + 1)
<1>1. \A i \in DOMAIN q : q[i].id \in Int
  BY ElementGood DEF EventType
<1> QED
  BY <1>1 DEF Good

LEMMA GoodCardinality ==
  ASSUME NEW n, NEW q, Good(q, n)
  PROVE  Cardinality(IdsOf(q)) = Len(q)
<1>1. Len(q) \in Nat /\ DOMAIN q = 1 .. Len(q)
  BY LenProperties DEF Good
<1> DEFINE f == [i \in 1 .. Len(q) |-> q[i].id]
<1>2. ExistsBijection(1 .. Len(q), IdsOf(q))
  <2>1. f \in [1 .. Len(q) -> IdsOf(q)]
    BY <1>1 DEF IdsOf
  <2>2. \A i, j \in 1 .. Len(q) : f[i] = f[j] => i = j
    BY <1>1 DEF Good, Distinct
  <2>3. \A x \in IdsOf(q) : \E i \in 1 .. Len(q) : f[i] = x
    BY <1>1 DEF IdsOf
  <2> QED
    BY <2>1, <2>2, <2>3 DEF ExistsBijection, Bijection, Injection, Surjection, IsInjective
<1>3. IsFiniteSet(1 .. Len(q)) /\ Cardinality(1 .. Len(q)) = Len(q)
  <2>1. 1 \in Int /\ Len(q) \in Int
    BY <1>1
  <2>2. Cardinality(1 .. Len(q)) = IF 1 > Len(q) THEN 0 ELSE Len(q) - 1 + 1
    BY <2>1, FS_Interval, Zenon
  <2> QED
    BY <1>1, <2>1, <2>2, FS_Interval
<1> QED
  BY <1>2, <1>3, FS_Bijection

LEMMA Updated ==
  ASSUME NEW e \in EventType, NEW p \in Paths, NEW r \in Nat, NEW i \in Id,
         NEW v \in Content
  PROVE  /\ [e EXCEPT !.path = p] \in EventType
         /\ [e EXCEPT !.target = p] \in EventType
         /\ [e EXCEPT !.path = p, !.rev = r] \in EventType
         /\ [e EXCEPT !.rev = r] \in EventType
         /\ [e EXCEPT !.pred = i, !.rev = r] \in EventType
         /\ [e EXCEPT !.mut = i, !.v = v] \in EventType
         /\ [e EXCEPT !.v = v] \in EventType
  BY DEF EventType

\* Changing one event keeps the queue well formed.
LEMMA ExceptGood ==
  ASSUME NEW n, NEW q, Good(q, n), NEW i \in DOMAIN q, NEW e \in EventType, e.id = q[i].id
  PROVE  Good([q EXCEPT ![i] = e], n)
<1>1. [q EXCEPT ![i] = e] \in Seq(EventType)
  BY ExceptSeq, LenProperties DEF Good
<1>2. DOMAIN [q EXCEPT ![i] = e] = DOMAIN q
  OBVIOUS
<1>3. \A j \in DOMAIN q : [q EXCEPT ![i] = e][j].id = q[j].id
  OBVIOUS
<1> QED
  BY <1>1, <1>2, <1>3, SameIdsGood

LEMMA FirstPlace ==
  ASSUME NEW n, NEW q, Good(q, n), NEW P \in SUBSET DOMAIN q, P # {}
  PROVE  (CHOOSE x \in P : \A y \in P : x <= y) \in P
<1>1. DOMAIN q \subseteq Nat
  BY LenProperties DEF Good
<1>2. P \in SUBSET Nat
  BY <1>1
<1> QED
  BY <1>2, Least

LEMMA ReduceGood ==
  ASSUME NEW n \in Nat, NEW q, Good(q, n), NEW e \in EventType, e.id = n + 1, NEW sub
  PROVE  Good(Reduce(q, e, sub), n + 1)
<1>1. ASSUME NEW r, Good(r, n), NEW f \in EventType, f.id = n + 1
      PROVE  Good(Queued(r, f, sub), n + 1)
  BY <1>1, PickedGood, AppendGood DEF Queued
<1>2. Good(ReduceRename(q, e, sub), n + 1)
  <2> DEFINE P == Predecessor(q, e.path)
             i == CHOOSE x \in P : \A y \in P : x <= y
             f == [q[i] EXCEPT !.target = e.target]
  <2>1. CASE P # {} /\ q[i].id \notin sub
    <3>1. P \in SUBSET DOMAIN q
      BY DEF Predecessor
    <3>2. i \in DOMAIN q
      <4> HIDE DEF P
      <4> QED
        BY <2>1, <3>1, FirstPlace
    <3>3. q[i] \in EventType /\ e.target \in Paths
      BY <3>2, ElementGood DEF EventType
    <3>4. f \in EventType /\ f.id = q[i].id
      <4> HIDE DEF i
      <4> QED
        BY <3>3 DEF EventType
    <3>5. Good([q EXCEPT ![i] = f], n)
      <4> HIDE DEF i, f
      <4> QED
        BY <3>2, <3>4, ExceptGood
    <3>6. [q EXCEPT ![i].target = e.target] = [q EXCEPT ![i] = f]
      OBVIOUS
    <3>7. ReduceRename(q, e, sub) = [q EXCEPT ![i].target = e.target]
      BY <2>1 DEF ReduceRename
    <3> QED
      BY <3>5, <3>6, <3>7, GoodLater
  <2>2. CASE ~(P # {} /\ q[i].id \notin sub)
    <3>1. ReduceRename(q, e, sub) = Queued(q, e, sub)
      BY <2>2 DEF ReduceRename
    <3> QED
      BY <1>1, <3>1
  <2> QED
    BY <2>1, <2>2
<1>3. Good(ReduceFile(q, e, sub), n + 1)
  <2> DEFINE P == {i \in Predecessor(q, e.path) : q[i].id \notin sub}
             i == CHOOSE x \in P : \A y \in P : x <= y
             f == [e EXCEPT !.path = q[i].path, !.rev = q[i].rev]
  <2>1. CASE P # {} /\ e.act = "upload"
    <3>1. ReduceFile(q, e, sub) = q
      BY <2>1 DEF ReduceFile
    <3> QED
      BY <3>1, GoodLater
  <2>2. CASE P # {} /\ e.act = "delete"
    <3>1. P \in SUBSET DOMAIN q
      BY DEF Predecessor
    <3>2. i \in DOMAIN q
      <4> HIDE DEF P
      <4> QED
        BY <2>2, <3>1, FirstPlace
    <3>3. q[i] \in EventType
      BY <3>2, ElementGood
    <3>4. f \in EventType /\ f.id = n + 1
      <4> HIDE DEF i
      <4> QED
        BY <3>3 DEF EventType
    <3>5. Good(Without(q, {q[i].id}), n)
      BY PickedGood DEF Without
    <3>6. ReduceFile(q, e, sub) = Queued(Without(q, {q[i].id}), f, sub)
      BY <2>2 DEF ReduceFile
    <3> QED
      BY <1>1, <3>4, <3>5, <3>6
  <2>3. CASE ~(P # {} /\ e.act = "upload") /\ ~(P # {} /\ e.act = "delete")
    <3>1. ReduceFile(q, e, sub) = Queued(q, e, sub)
      BY <2>3 DEF ReduceFile
    <3> QED
      BY <1>1, <3>1
  <2> QED
    BY <2>1, <2>2, <2>3
<1> QED
  BY <1>2, <1>3 DEF Reduce

-----------------------------------------------------------------------------
(* The inductive invariant. *)

Kinds == {"noop", "upload", "delete", "sent"}
ItemType == {x \in [e : EventType, kind : Kinds, v : EntryType] :
               x.kind \in {"upload", "sent"} => x.v \in 1 .. MaxVersion}
Places == {"idle", "wait", "next", "prepare", "apply", "clean", "settle", "saved",
           "rename", "move"}
Drains == [pc : Places, todo : Seq(EventType), only : SUBSET Id, batch : Seq(EventType),
           held : SUBSET EventType, items : Seq(ItemType), done : SUBSET Id]
Actions == {"none", "upload", "download", "conflict", "delete_local", "delete_remote"}
Signatures == {"upload", "delete", "rename"} \X Paths \X Paths \X Nat \X Id
Fulls == [pc : {"idle", "prepare", "drain", "scan", "apply"}, startup : BOOLEAN,
          cutoff : SUBSET Id, uploads : SUBSET Id, chain : SUBSET Id, cand : SUBSET Id,
          sig : SUBSET (Id \X Signatures), scan : [Paths -> Content],
          plan : [Paths -> Actions], todo : SUBSET Paths]
Saves == [queue : Seq(EventType), base : [Paths -> EntryType], put : PutType,
          moves : SUBSET (Paths \X Paths), dels : SUBSET Paths,
          late : SUBSET Id, handed : SUBSET Id]

World ==
  /\ vault \in [Paths -> Content] /\ disk \in [Paths -> Content]
  /\ canon \in [Paths -> EntryType] /\ base \in [Paths -> EntryType]
  /\ rev \in Nat /\ changed \in [Paths -> 0 .. rev]

Pending ==
  /\ moving \subseteq Paths \X Paths \X EntryType
  /\ moves \subseteq Paths \X Paths /\ dels \subseteq Paths
  /\ put \in PutType /\ applied \subseteq Id
  /\ gone \subseteq Content /\ copies \subseteq Content

Events ==
  /\ used \in [version : Nat, event : 0 .. MaxEvent, fault : Nat]
  /\ Good(queue, used.event)
  /\ late \subseteq Id /\ handed \subseteq Id

Timers ==
  /\ debounce \in [Paths -> Id] /\ ready \in [Paths -> Id]
  /\ timer \in BOOLEAN /\ again \in BOOLEAN /\ failed \in BOOLEAN

DrainOK == drain \in Drains

FullOK == full \in Fulls

SavedOK == saved \in Saves /\ Good(saved.queue, used.event)

\* While a full session scans and applies, nothing drains and no timer runs.
Exclusive ==
  full.pc \in {"scan", "apply"} => drain.pc = "idle" /\ timer = FALSE /\ debounce = NoTimer

\* A batch of files has no rename; a rename has its event, and, once the index
\* has taken it, its move.
Batches ==
  /\ drain.pc = "prepare" => \A i \in DOMAIN drain.batch : IsFile(drain.batch[i])
  /\ drain.pc \in {"rename", "move"} => drain.batch # <<>>
  /\ drain.pc = "move" => MoveOf(Running) # {}

\* What a drain has sent is on the disk until the commit.
SentOnDisk ==
  /\ drain.pc \notin {"prepare", "apply", "clean", "settle"} => drain.items = <<>>
  /\ drain.pc \in {"prepare", "apply"} =>
       \A i \in DOMAIN drain.items :
          drain.items[i].kind = "sent" => disk[drain.items[i].e.path] # Nil

IInv == /\ World /\ Pending /\ Events /\ Timers /\ DrainOK /\ FullOK /\ SavedOK
        /\ Exclusive /\ Batches /\ SentOnDisk /\ IndexHasFile

-----------------------------------------------------------------------------
(* Constants and the counters. *)

LEMMA Numbers ==
  /\ MaxVersion \in Nat /\ MaxEvent \in Nat /\ Nil = 0 /\ NoId = 0 /\ Dead = -1
  /\ Nil \in Content /\ Nil \in EntryType /\ Dead \in EntryType /\ NoId \in Id
  /\ Content \subseteq EntryType /\ Dead \notin Content
  /\ \A x \in EntryType : x > Nil => x \in Content
  /\ \A x \in EntryType : x # Dead => x \in Content
  /\ \A x \in EntryType : x > Nil => x # Nil /\ x # Dead
  /\ \A x \in Content : x # Nil => x \in 1 .. MaxVersion /\ x > Nil
  /\ \A x \in 1 .. MaxVersion : x \in Content /\ x # Nil /\ x > Nil
  BY WatcherAssumption DEF Nil, NoId, Dead, Content, EntryType, Id

LEMMA PutTypes ==
  ASSUME put \in PutType
  PROVE  /\ \A p \in Paths : put[p].id \in Id /\ put[p].v \in Content
         /\ NoPut \in [id : Id, v : Content]
         /\ \A p \in Paths, i \in Id, v \in Content :
              [put EXCEPT ![p] = [id |-> i, v |-> v]] \in PutType
         /\ \A p \in Paths : [put EXCEPT ![p] = NoPut] \in PutType
         /\ \A i : DropPut(i) \in PutType
  BY Numbers DEF PutType, NoPut, DropPut

LEMMA EmptyRecords ==
  /\ NoTimer \in [Paths -> Id]
  /\ NoEvents \in Seq(EventType)
  /\ NoDrain \in Drains
  /\ \A only \in SUBSET Id : [NoDrain EXCEPT !.pc = "wait", !.only = only] \in Drains
  /\ NoFull \in Fulls
<1>1. <<>> \in Seq(EventType) /\ <<>> \in Seq(ItemType)
  BY EmptySeq
<1>2. NoDrain \in Drains
  BY <1>1 DEF NoDrain, Drains, NoEvents, Places
<1>3. \A only \in SUBSET Id : [NoDrain EXCEPT !.pc = "wait", !.only = only] \in Drains
  BY <1>2 DEF Drains, Places
<1>4. NoFull \in Fulls
  BY Numbers DEF NoFull, Fulls, Actions
<1> QED
  BY <1>1, <1>2, <1>3, <1>4, Numbers DEF NoTimer, NoEvents

Counters == [version : Nat, event : 0 .. MaxEvent, fault : Nat]

LEMMA Counted ==
  ASSUME used \in Counters
  PROVE  /\ Fault => used' \in Counters /\ used'.event = used.event
         /\ Count("event") /\ used.event < MaxEvent
              => used' \in Counters /\ used'.event = used.event + 1
         /\ used.event \in Nat /\ used.version \in Nat
  BY Numbers DEF Counters, Fault, Count

\* A new event of the vault.
LEMMA NewEvent ==
  ASSUME rev \in Nat, used \in Counters, used.event < MaxEvent,
         NEW a \in {"upload", "delete", "rename"}, NEW p \in Paths, NEW t \in Paths,
         NEW pred \in Id
  PROVE  LET e == Event(used.event + 1, a, p, t, pred)
         IN e \in EventType /\ e.id = used.event + 1 /\ e.act = a /\ e.path = p
  BY Numbers DEF Counters, Event, EventType, Id

\* What a save writes.
LEMMA DataSaved ==
  ASSUME NEW q, NEW n, Good(q, n), NEW b \in [Paths -> EntryType], NEW pu \in PutType,
         NEW mo \in SUBSET (Paths \X Paths), NEW de \in SUBSET Paths,
         late \subseteq Id, handed \subseteq Id
  PROVE  Data(q, b, pu, mo, de) \in Saves /\ Data(q, b, pu, mo, de).queue = q
  BY DEF Data, Saves, Good

LEMMA WithoutGood ==
  ASSUME NEW n, NEW q, Good(q, n), NEW ids
  PROVE  Good(Without(q, ids), n)
  BY PickedGood DEF Without

\* The parts of the drain.
LEMMA DrainParts ==
  ASSUME drain \in Drains
  PROVE  /\ drain.pc \in Places /\ drain.todo \in Seq(EventType) /\ drain.only \subseteq Id
         /\ drain.batch \in Seq(EventType) /\ drain.held \subseteq EventType
         /\ drain.items \in Seq(ItemType) /\ drain.done \subseteq Id
         /\ Stopped(drain) \in Drains
         /\ \A pc \in Places : [drain EXCEPT !.pc = pc] \in Drains
         /\ RenameRetried \in Drains
  BY EmptyRecords DEF Drains, Stopped, RenameRetried, Places

\* What the drain sees of the queue after a settlement is events.
LEMMA SharedTyped ==
  ASSUME drain \in Drains, NEW n, Good(queue, n), NEW q, Good(q, n), DOMAIN q = DOMAIN queue
  PROVE  Shared(q) \in Seq(EventType)
<1> DEFINE At(e) == {i \in DOMAIN queue : queue[i] = e}
           t == drain.todo
           v(j) == IF At(t[j]) = {} THEN t[j] ELSE q[CHOOSE i \in At(t[j]) : TRUE]
<1>1. t \in Seq(EventType)
  BY DrainParts
<1>2. Len(t) \in Nat /\ DOMAIN t = 1 .. Len(t) /\ \A j \in 1 .. Len(t) : t[j] \in EventType
  BY <1>1, LenProperties, ElementOfSeq
<1>3. ASSUME NEW j \in 1 .. Len(t)
      PROVE  v(j) \in EventType
  <2>1. CASE At(t[j]) = {}
    BY <1>2, <2>1
  <2>2. CASE At(t[j]) # {}
    <3>1. PICK i \in DOMAIN queue : i = CHOOSE x \in At(t[j]) : TRUE
      BY <2>2
    <3> QED
      BY <2>2, <3>1, ElementGood
  <2> QED
    BY <2>1, <2>2
<1>4. Shared(q) = [j \in 1 .. Len(t) |-> v(j)]
  BY <1>2 DEF Shared
<1> HIDE DEF v, t
<1> QED
  BY <1>2, <1>3, <1>4, IsASeq

LEMMA EventFields ==
  ASSUME NEW e \in EventType
  PROVE  /\ e.id \in Id /\ e.path \in Paths /\ e.target \in Paths /\ e.pred \in Id
         /\ e.rev \in Nat /\ e.mut \in Id /\ e.v \in Content
         /\ e.act \in {"upload", "delete", "rename"}
  BY Numbers DEF EventType, Id

LEMMA RunningTyped ==
  ASSUME drain \in Drains, drain.batch # <<>>
  PROVE  Running \in EventType
  BY HeadTailProperties, DrainParts DEF Running

-----------------------------------------------------------------------------
(* The vault, its events and the saves. *)

LEMMA SavedLater ==
  ASSUME IInv, UNCHANGED saved, used'.event \in {used.event, used.event + 1}
  PROVE  SavedOK'
<1>1. used.event \in Nat /\ saved \in Saves /\ Good(saved.queue, used.event)
  BY Counted DEF IInv, Events, SavedOK, Counters
<1>2. Good(saved.queue, used'.event)
  BY <1>1, GoodLater
<1> QED
  BY <1>1, <1>2 DEF SavedOK

LEMMA Scheduled ==
  ASSUME IInv, NEW e \in EventType, e.id = used.event + 1, Schedule(e),
         used' \in Counters, used'.event = used.event + 1, UNCHANGED full
  PROVE  /\ Events' /\ Timers'
         /\ timer' = timer /\ (Frozen => debounce' = [debounce EXCEPT ![e.path] = NoId])
<1> DEFINE q == Reduce(queue, e, Submitted)
<1>1. used.event \in Nat /\ Good(queue, used.event) /\ late \subseteq Id /\ handed \subseteq Id
  BY Counted DEF IInv, Events, Counters
<1>2. Good(q, used'.event)
  BY <1>1, ReduceGood
<1> HIDE DEF q
<1>3. Good(Without(q, Cancelled(e.path)), used'.event)
  BY <1>2, WithoutGood
<1>4. /\ queue' = Without(q, Cancelled(e.path)) /\ failed' \in BOOLEAN
      /\ late' \subseteq late \cup {x.id : x \in HeldFiles(e.path)}
      /\ debounce' = [debounce EXCEPT ![e.path] =
                        IF ~Frozen /\ e.id \in IdsOf(q) THEN e.id ELSE NoId]
      /\ ready' = [ready EXCEPT ![e.path] = NoId]
      /\ timer' = timer /\ again' = again /\ handed' = handed
  BY DEF Schedule, Queue, q
<1>5. \A x \in HeldFiles(e.path) : x.id \in Id
  BY EventFields, DrainParts DEF HeldFiles, IInv, DrainOK
<1>6. Events'
  BY <1>1, <1>3, <1>4, <1>5 DEF Events, Counters
<1>7. Timers'
  BY <1>4, EventFields, Numbers DEF IInv, Timers
<1> QED
  BY <1>4, <1>6, <1>7 DEF Frozen

LEMMA UserWriteKeeps ==
  ASSUME IInv, NEW p \in Paths, UserWrite(p)
  PROVE  IInv'
<1> DEFINE e == Event(used.event + 1, "upload", p, p, NoId)
<1>1. /\ used.version < MaxVersion /\ used.event < MaxEvent
      /\ used' = [used EXCEPT !.version = @ + 1, !.event = @ + 1]
      /\ vault' = [vault EXCEPT ![p] = used.version + 1]
      /\ gone' = gone \cup ({vault[p]} \ {Nil})
      /\ Schedule(e)
      /\ UNCHANGED <<canon, changed, rev, disk, moving, base, put, moves, dels, applied,
                     drain, full, saved, copies>>
  BY DEF UserWrite, remote, index
<1>2. used' \in Counters /\ used'.event = used.event + 1 /\ used.version \in Nat
  <2>1. /\ used \in Counters
        /\ used.version + 1 \in Nat /\ used.event + 1 \in 0 .. MaxEvent
        /\ used.version \in Nat
    BY <1>1, Numbers DEF IInv, Events, Counters
  <2>2. used' = [used EXCEPT !.version = used.version + 1, !.event = used.event + 1]
    BY <1>1
  <2> QED
    BY <2>1, <2>2 DEF Counters
<1>3. e \in EventType /\ e.id = used.event + 1 /\ e.path = p
  BY <1>1, NewEvent, Numbers DEF IInv, World, Events, Counters
<1> HIDE DEF e
<1>4. /\ Events' /\ Timers' /\ timer' = timer
      /\ Frozen => debounce' = [debounce EXCEPT ![p] = NoId]
  BY <1>1, <1>2, <1>3, Scheduled
<1>5. World' /\ Pending'
  BY <1>1, <1>2, Numbers DEF IInv, World, Pending, Content
<1>6. DrainOK' /\ FullOK' /\ Batches' /\ SentOnDisk' /\ IndexHasFile'
  BY <1>1 DEF IInv, DrainOK, FullOK, Batches, MoveOf, Running, SentOnDisk, IndexHasFile
<1>7. SavedOK'
  BY <1>1, <1>2, SavedLater
<1>8. Exclusive'
  BY <1>1, <1>4 DEF IInv, Exclusive, Frozen, NoTimer
<1> QED
  BY <1>4, <1>5, <1>6, <1>7, <1>8 DEF IInv

LEMMA UserDeleteKeeps ==
  ASSUME IInv, NEW p \in Paths, UserDelete(p)
  PROVE  IInv'
<1> DEFINE e == Event(used.event + 1, "delete", p, p, NoId)
<1>1. /\ used.event < MaxEvent /\ Count("event")
      /\ vault' = [vault EXCEPT ![p] = Nil]
      /\ gone' = gone \cup {vault[p]}
      /\ Schedule(e)
      /\ UNCHANGED <<canon, changed, rev, disk, moving, base, put, moves, dels, applied,
                     drain, full, saved, copies>>
  BY DEF UserDelete, remote, index
<1>2. used' \in Counters /\ used'.event = used.event + 1
  BY <1>1, Counted DEF IInv, Events, Counters
<1>3. e \in EventType /\ e.id = used.event + 1 /\ e.path = p
  BY <1>1, NewEvent, Numbers DEF IInv, World, Events, Counters
<1> HIDE DEF e
<1>4. /\ Events' /\ Timers' /\ timer' = timer
      /\ Frozen => debounce' = [debounce EXCEPT ![p] = NoId]
  BY <1>1, <1>2, <1>3, Scheduled
<1>5. World' /\ Pending'
  BY <1>1, Numbers DEF IInv, World, Pending
<1>6. DrainOK' /\ FullOK' /\ Batches' /\ SentOnDisk' /\ IndexHasFile'
  BY <1>1 DEF IInv, DrainOK, FullOK, Batches, MoveOf, Running, SentOnDisk, IndexHasFile
<1>7. SavedOK'
  BY <1>1, <1>2, SavedLater
<1>8. Exclusive'
  BY <1>1, <1>4 DEF IInv, Exclusive, Frozen, NoTimer
<1> QED
  BY <1>4, <1>5, <1>6, <1>7, <1>8 DEF IInv

LEMMA UserRenameKeeps ==
  ASSUME IInv, NEW s \in Paths, NEW t \in Paths, UserRename(s, t)
  PROVE  IInv'
<1> DEFINE up == {x.id : x \in {h \in HeldFiles(s) : h.act = "upload"}}
           pred == IF up = {} THEN NoId ELSE CHOOSE i \in up : \A j \in up : j <= i
           e == Event(used.event + 1, "rename", s, t, pred)
           q == Reduce(queue, e, Submitted)
<1>1. /\ used.event < MaxEvent /\ Count("event")
      /\ vault' = [vault EXCEPT ![s] = Nil, ![t] = vault[s]]
      /\ Queue(Without(q, Cancelled(s)))
      /\ debounce' = [debounce EXCEPT ![s] = NoId]
      /\ ready' = [ready EXCEPT ![s] = NoId]
      /\ late' = late \cup {x.id : x \in HeldFiles(s)}
      /\ handed' = handed \cup (up \cap {pred})
      /\ timer' = (timer \/ ~Frozen)
      /\ UNCHANGED <<canon, changed, rev, disk, moving, base, put, moves, dels, applied,
                     again, drain, full, saved, gone, copies>>
  BY DEF UserRename, remote, index
<1>2. used' \in Counters /\ used'.event = used.event + 1 /\ used.event \in Nat
  BY <1>1, Counted DEF IInv, Events, Counters
<1>3. \A x \in HeldFiles(s) : x.id \in Id
  BY EventFields, DrainParts DEF HeldFiles, IInv, DrainOK
<1>4. up \subseteq 0 .. MaxEvent
  BY <1>3, Numbers DEF Id
<1>5. pred \in Id
  <2> HIDE DEF up
  <2>1. CASE up = {}
    BY <2>1, Numbers
  <2>2. CASE up # {}
    <3>1. \E i \in up : \A j \in up : j <= i
      BY <1>4, <2>2, Greatest, Numbers
    <3> QED
      BY <1>4, <2>2, <3>1, Numbers DEF Id
  <2> QED
    BY <2>1, <2>2
<1> HIDE DEF pred, up
<1>6. e \in EventType /\ e.id = used.event + 1
  BY <1>1, <1>5, NewEvent DEF IInv, World, Events, Counters
<1> HIDE DEF e
<1>7. Good(q, used'.event)
  BY <1>2, <1>6, ReduceGood DEF IInv, Events
<1> HIDE DEF q
<1>8. Good(queue', used'.event) /\ failed' \in BOOLEAN
  BY <1>1, <1>7, WithoutGood DEF Queue
<1>9. Events'
  BY <1>1, <1>2, <1>3, <1>5, <1>8 DEF IInv, Events, Counters
<1>10. World' /\ Pending'
  BY <1>1 , Numbers DEF IInv, World, Pending
<1>11. Timers'
  BY <1>1, <1>8, Numbers DEF IInv, Timers
<1>12. DrainOK' /\ FullOK' /\ Batches' /\ SentOnDisk' /\ IndexHasFile'
  BY <1>1 DEF IInv, DrainOK, FullOK, Batches, MoveOf, Running, SentOnDisk, IndexHasFile
<1>13. SavedOK'
  BY <1>1, <1>2, SavedLater
<1>14. Exclusive'
  BY <1>1 DEF IInv, Exclusive, Frozen, NoTimer
<1> QED
  BY <1>9, <1>10, <1>11, <1>12, <1>13, <1>14 DEF IInv

\* A step that leaves the files, the indexes and the queue alone.
Still == UNCHANGED <<vault, canon, changed, rev, disk, moving, base, put, moves, dels,
                     applied, queue, late, handed, gone, copies>>

LEMMA StillKeeps ==
  ASSUME IInv, Still, used' \in Counters, used'.event = used.event
  PROVE  /\ World' /\ Pending' /\ Events' /\ IndexHasFile'
         /\ UNCHANGED drain => DrainOK' /\ Batches' /\ SentOnDisk'
         /\ UNCHANGED full => FullOK'
         /\ UNCHANGED saved => SavedOK'
         /\ UNCHANGED <<debounce, ready, timer, again, failed>> => Timers'
         /\ UNCHANGED <<drain, full, timer, debounce>> => Exclusive'
<1>1. World' /\ Pending' /\ Events' /\ IndexHasFile'
  BY DEF IInv, Still, World, Pending, Events, Counters, IndexHasFile
<1>2. UNCHANGED drain => DrainOK' /\ Batches' /\ SentOnDisk'
  BY DEF IInv, Still, DrainOK, Batches, MoveOf, Running, SentOnDisk
<1>3. UNCHANGED saved => SavedOK'
  BY SavedLater
<1> QED
  BY <1>1, <1>2, <1>3 DEF IInv, FullOK, Timers, Exclusive

LEMMA DebouncedKeeps ==
  ASSUME IInv, NEW p \in Paths, Debounced(p)
  PROVE  IInv'
<1>1. /\ Still /\ UNCHANGED <<again, drain, full, saved, failed, used>>
      /\ debounce[p] # NoId
      /\ debounce' = [debounce EXCEPT ![p] = NoId]
      /\ ready' = [ready EXCEPT ![p] = debounce[p]]
      /\ timer' = TRUE
  BY DEF Debounced, Still, remote, index
<1>2. used' \in Counters /\ used'.event = used.event
  BY <1>1 DEF IInv, Events, Counters
<1>3. Timers'
  BY <1>1, Numbers DEF IInv, Timers
<1>4. Exclusive'
  BY <1>1 DEF IInv, Exclusive, NoTimer
<1> QED
  BY <1>1, <1>2, <1>3, <1>4, StillKeeps DEF IInv

LEMMA PersistKeeps ==
  ASSUME IInv, Persist
  PROVE  IInv'
<1>1. /\ Still /\ UNCHANGED <<debounce, ready, timer, again, drain, full, failed, used>>
      /\ saved' = Data(queue, base, put, moves, dels)
  BY DEF Persist, Still, remote, index, watcher
<1>2. used' \in Counters /\ used'.event = used.event
  BY <1>1 DEF IInv, Events, Counters
<1>3. SavedOK'
  BY <1>1, <1>2, DataSaved DEF IInv, World, Pending, Events, SavedOK
<1> QED
  BY <1>1, <1>2, <1>3, StillKeeps DEF IInv

LEMMA PersistFailsKeeps ==
  ASSUME IInv, PersistFails
  PROVE  IInv'
<1>1. /\ Still /\ UNCHANGED <<debounce, ready, timer, again, drain, full, saved>>
      /\ Fault /\ failed' = TRUE
  BY DEF PersistFails, Still, remote, index, watcher
<1>2. used' \in Counters /\ used'.event = used.event
  BY <1>1, Counted DEF IInv, Events, Counters
<1>3. Timers'
  BY <1>1 DEF IInv, Timers
<1> QED
  BY <1>1, <1>2, <1>3, StillKeeps DEF IInv

-----------------------------------------------------------------------------
(* The drain up to the batch. *)

\* The parts of the invariant that a step of the drain may disturb.
LEMMA DrainSteps ==
  ASSUME IInv, Still, UNCHANGED <<full, used>>, drain' \in Drains, timer' \in BOOLEAN,
         again' \in BOOLEAN, failed' \in BOOLEAN, UNCHANGED debounce,
         ready' \in [Paths -> Id], saved' \in {saved, Data(queue, base, put, moves, dels)},
         full.pc \in {"scan", "apply"} => drain'.pc = "idle" /\ timer' = FALSE,
         Batches', SentOnDisk'
  PROVE  IInv'
<1>1. used' \in Counters /\ used'.event = used.event
  BY DEF IInv, Events, Counters
<1>2. World' /\ Pending' /\ Events' /\ IndexHasFile' /\ FullOK'
  BY <1>1, StillKeeps
<1>3. Timers' /\ DrainOK'
  BY DEF IInv, Timers, DrainOK
<1>4. SavedOK'
  <2>1. CASE saved' = saved
    BY <1>1, <2>1, SavedLater
  <2>2. CASE saved' = Data(queue, base, put, moves, dels)
    BY <1>1, <2>2, DataSaved DEF IInv, World, Pending, Events, SavedOK
  <2> QED
    BY <2>1, <2>2
<1>5. Exclusive'
  BY DEF IInv, Exclusive
<1> QED
  BY <1>2, <1>3, <1>4, <1>5 DEF IInv

\* A drain that has no batch.
LEMMA NoBatch ==
  ASSUME drain'.pc \in {"idle", "wait", "next", "saved"}, drain'.items = <<>>
  PROVE  Batches' /\ SentOnDisk'
  BY DEF Batches, SentOnDisk

LEMMA TimerKeeps ==
  ASSUME IInv, Timer
  PROVE  IInv'
<1>1. /\ Still /\ UNCHANGED <<debounce, ready, full, saved, failed, used>>
      /\ timer /\ timer' = FALSE
      /\ \/ drain' = [NoDrain EXCEPT !.pc = "wait", !.only = {}] /\ again' = again
         \/ again' = TRUE /\ drain' = drain
  BY DEF Timer, Still, remote, index, StartDrain, Drain
<1>2. full.pc \notin {"scan", "apply"}
  BY <1>1 DEF IInv, Exclusive
<1>3. drain' \in Drains
  BY <1>1, EmptyRecords DEF IInv, DrainOK
<1>4. Batches' /\ SentOnDisk'
  <2>1. CASE drain' = drain
    BY <1>1, <2>1 DEF IInv, Batches, SentOnDisk, Still, MoveOf, Running
  <2>2. CASE drain' = [NoDrain EXCEPT !.pc = "wait", !.only = {}]
    BY <2>2, NoBatch DEF NoDrain, NoEvents
  <2> QED
    BY <1>1, <2>1, <2>2
<1> QED
  BY <1>1, <1>2, <1>3, <1>4, DrainSteps DEF IInv, Timers

LEMMA CollectKeeps ==
  ASSUME IInv, Collect
  PROVE  IInv'
<1> DEFINE t == Picked(queue, {i \in DOMAIN queue : Replayed(queue[i], drain.only)})
<1>1. /\ Still
      /\ UNCHANGED <<debounce, ready, timer, again, full, saved, failed, used>>
      /\ drain.pc = "wait" /\ drain' = [drain EXCEPT !.pc = "next", !.todo = t]
  BY DEF Collect, Still, remote, index, watcher, Drain
<1>2. t \in Seq(EventType)
  BY PickedGood DEF IInv, Events, Good
<1> HIDE DEF t
<1>3. drain' \in Drains /\ drain'.pc = "next" /\ drain'.items = drain.items
  BY <1>1, <1>2 DEF IInv, DrainOK, Drains, Places
<1>4. Batches' /\ SentOnDisk'
  BY <1>1, <1>3, NoBatch DEF IInv, SentOnDisk
<1>5. full.pc \notin {"scan", "apply"}
  BY <1>1 DEF IInv, Exclusive
<1> QED
  BY <1>1, <1>3, <1>4, <1>5, DrainSteps DEF IInv, Timers

LEMMA EndDrainKeeps ==
  ASSUME IInv, EndDrain, Still, UNCHANGED <<debounce, ready, full, saved, used>>,
         failed' \in BOOLEAN
  PROVE  IInv'
<1>1. drain' = NoDrain /\ again' = FALSE /\ timer' = (timer \/ (again /\ ~Frozen))
  BY DEF EndDrain, Drain
<1>2. drain' \in Drains /\ drain'.pc = "idle" /\ drain'.items = <<>>
  BY <1>1, EmptyRecords DEF NoDrain, NoEvents
<1>3. full.pc \in {"scan", "apply"} => timer' = FALSE
  BY <1>1 DEF IInv, Exclusive, Frozen
<1>4. timer' \in BOOLEAN /\ again' \in BOOLEAN
  BY <1>1
<1>5. Batches' /\ SentOnDisk'
  BY <1>2, NoBatch
<1> QED
  BY <1>2, <1>3, <1>4, <1>5, DrainSteps DEF IInv, Timers

LEMMA DrainFailsKeeps ==
  ASSUME IInv, DrainFails
  PROVE  IInv'
<1>1. /\ Still /\ UNCHANGED <<debounce, ready, full, saved, failed, used>> /\ EndDrain
  BY DEF DrainFails, Still, remote, index
<1> QED
  BY <1>1, EndDrainKeeps DEF IInv, Timers

LEMMA DrainEndsKeeps ==
  ASSUME IInv, DrainEnds
  PROVE  IInv'
<1>1. /\ Still /\ UNCHANGED <<debounce, ready, full, saved, used>> /\ EndDrain
      /\ failed' = FALSE
  BY DEF DrainEnds, Still, remote, index
<1> QED
  BY <1>1, EndDrainKeeps

LEMMA TakeFilesKeeps ==
  ASSUME IInv, TakeFiles
  PROVE  IInv'
<1> DEFINE todo == drain.todo
           Ends(i) == /\ \A j \in 1 .. i : IsFile(todo[j])
                      /\ i = Len(todo) \/ ~IsFile(todo[i + 1])
           n == CHOOSE i \in 1 .. Len(todo) : Ends(i)
           b == SubSeq(todo, 1, n)
           r == SubSeq(todo, n + 1, Len(todo))
<1>1. /\ Still
      /\ UNCHANGED <<debounce, timer, again, full, saved, failed, used>>
      /\ drain.pc = "next" /\ todo # <<>> /\ IsFile(Head(todo))
      /\ drain' = [drain EXCEPT !.pc = "prepare", !.batch = b, !.held = ToSet(b),
                                !.todo = r]
      /\ ready' = [p \in Paths |-> IF \E i \in 1 .. n : todo[i].id = ready[p]
                                   THEN NoId ELSE ready[p]]
  BY DEF TakeFiles, Still, remote, index, Drain, NoEvents
<1>2. todo \in Seq(EventType) /\ Len(todo) \in Nat /\ Len(todo) > 0 /\ Head(todo) = todo[1]
  BY <1>1, DrainParts, EmptySeq, LenProperties, HeadTailProperties DEF IInv, DrainOK
<1> HIDE DEF todo
<1>3. \E i \in 1 .. Len(todo) : Ends(i)
  <2> DEFINE S == {i \in 1 .. Len(todo) : i = Len(todo) \/ ~IsFile(todo[i + 1])}
  <2>1. S \in SUBSET Nat /\ Len(todo) \in S
    BY <1>2
  <2> HIDE DEF S
  <2>2. PICK i \in S : \A j \in S : i <= j
    BY <2>1, Least
  <2> USE DEF S
  <2>3. i \in 1 .. Len(todo) /\ (i = Len(todo) \/ ~IsFile(todo[i + 1]))
    BY <2>2
  <2>4. \A j \in 1 .. i : IsFile(todo[j])
    <3> SUFFICES ASSUME NEW j \in 1 .. i, ~IsFile(todo[j]) PROVE FALSE
      OBVIOUS
    <3>1. j # 1 /\ j \in 2 .. Len(todo)
      BY <1>1, <1>2, <2>3 DEF todo
    <3>2. j - 1 \in 1 .. Len(todo) /\ (j - 1) + 1 = j /\ j - 1 < i
      BY <1>2, <2>3, <3>1
    <3>3. j - 1 \in S
      BY <3>2
    <3>4. i \in Int /\ i <= j - 1
      <4> HIDE DEF S
      <4> QED
        BY <2>2, <2>3, <3>3
    <3> QED
      BY <1>2, <3>1, <3>2, <3>4
  <2> QED
    BY <2>3, <2>4
<1>4. n \in 1 .. Len(todo) /\ Ends(n)
  BY <1>3
<1> HIDE DEF n, Ends
<1>5. b \in Seq(EventType) /\ Len(b) = n /\ \A i \in 1 .. n : b[i] = todo[i]
  BY <1>2, <1>4, SubSeqProperties
<1>6. r \in Seq(EventType)
  BY <1>2, <1>4, SubSeqProperties
<1>7. DOMAIN b = 1 .. n
  BY <1>5, LenProperties
<1>8. ToSet(b) \subseteq EventType
  BY <1>2, <1>4, <1>5, <1>7, ElementOfSeq DEF ToSet
<1> HIDE DEF b, r
<1>9. /\ drain' \in Drains /\ drain'.pc = "prepare" /\ drain'.items = drain.items
      /\ drain'.batch = b
  BY <1>1, <1>5, <1>6, <1>8 DEF IInv, DrainOK, Drains, Places
<1>10. Batches'
  BY <1>4, <1>5, <1>7, <1>9 DEF Batches, Ends, IsFile
<1>11. SentOnDisk'
  BY <1>1, <1>9 DEF IInv, SentOnDisk
<1>12. full.pc \notin {"scan", "apply"}
  BY <1>1 DEF IInv, Exclusive
<1>13. ready' \in [Paths -> Id]
  BY <1>1, Numbers DEF IInv, Timers
<1> QED
  BY <1>1, <1>9, <1>10, <1>11, <1>12, <1>13, DrainSteps DEF IInv, Timers

LEMMA TakeRenameKeeps ==
  ASSUME IInv, TakeRename
  PROVE  IInv'
<1> DEFINE e == Head(drain.todo)
<1>1. /\ Still
      /\ UNCHANGED <<debounce, ready, timer, again, full, saved, failed, used>>
      /\ drain.pc = "next" /\ drain.todo # <<>>
      /\ drain' = [drain EXCEPT !.pc = "rename", !.batch = <<e>>, !.held = {e},
                                !.todo = Tail(@)]
  BY DEF TakeRename, Still, remote, index, watcher, Drain, NoEvents
<1>2. e \in EventType /\ Tail(drain.todo) \in Seq(EventType) /\ <<e>> \in Seq(EventType)
  BY <1>1, DrainParts, HeadTailProperties DEF IInv, DrainOK
<1> HIDE DEF e
<1>3. /\ drain' \in Drains /\ drain'.pc = "rename" /\ drain'.items = drain.items
      /\ drain'.batch = <<e>>
  BY <1>1, <1>2 DEF IInv, DrainOK, Drains, Places
<1>4. Batches'
  BY <1>3 DEF Batches
<1>5. SentOnDisk'
  BY <1>1, <1>3 DEF IInv, SentOnDisk
<1>6. full.pc \notin {"scan", "apply"}
  BY <1>1 DEF IInv, Exclusive
<1> QED
  BY <1>1, <1>3, <1>4, <1>5, <1>6, DrainSteps DEF IInv, Timers

LEMMA ContinueKeeps ==
  ASSUME IInv, Continue
  PROVE  IInv'
<1>1. /\ Still
      /\ UNCHANGED <<debounce, ready, timer, again, full, saved, failed, used>>
      /\ drain.pc = "saved" /\ drain' = [drain EXCEPT !.pc = "next", !.held = {}]
  BY DEF Continue, Still, remote, index, watcher, Drain
<1>2. drain' \in Drains /\ drain'.pc = "next" /\ drain'.items = drain.items
  BY <1>1 DEF IInv, DrainOK, Drains, Places
<1>3. Batches' /\ SentOnDisk'
  BY <1>1, <1>2, NoBatch DEF IInv, SentOnDisk
<1>4. full.pc \notin {"scan", "apply"}
  BY <1>1 DEF IInv, Exclusive
<1> QED
  BY <1>1, <1>2, <1>3, <1>4, DrainSteps DEF IInv, Timers

LEMMA PreparedKeeps ==
  ASSUME IInv, Prepared
  PROVE  IInv'
<1>1. /\ Still
      /\ UNCHANGED <<debounce, ready, timer, again, full, failed, used>>
      /\ drain.pc = "prepare" /\ drain' = [drain EXCEPT !.pc = "apply"]
      /\ saved' = Data(queue, base, put, moves, dels)
  BY DEF Prepared, Still, remote, index, watcher, To, Drain
<1>2. drain' \in Drains /\ drain'.pc = "apply" /\ drain'.items = drain.items
  BY <1>1 DEF IInv, DrainOK, Drains, Places
<1>3. Batches'
  BY <1>2 DEF Batches
<1>4. SentOnDisk'
  BY <1>1, <1>2 DEF IInv, SentOnDisk, Still
<1>5. full.pc \notin {"scan", "apply"}
  BY <1>1 DEF IInv, Exclusive
<1> QED
  BY <1>1, <1>2, <1>3, <1>4, <1>5, DrainSteps DEF IInv, Timers

LEMMA MoveRefusedKeeps ==
  ASSUME IInv, MoveRefused
  PROVE  IInv'
<1>1. /\ Still
      /\ UNCHANGED <<debounce, ready, timer, again, full, saved, failed, used>>
      /\ drain.pc = "move" /\ drain' = RenameRetried
  BY DEF MoveRefused, Still, remote, index, watcher, Drain
<1>2. drain' \in Drains
  BY <1>1, DrainParts DEF IInv, DrainOK
<1>3. drain'.pc = "next" /\ drain'.items = drain.items
  BY <1>1 DEF IInv, DrainOK, Drains, RenameRetried, Stopped
<1>4. Batches' /\ SentOnDisk'
  BY <1>1, <1>3, NoBatch DEF IInv, SentOnDisk
<1>5. full.pc \notin {"scan", "apply"}
  BY <1>1 DEF IInv, Exclusive
<1> QED
  BY <1>1, <1>2, <1>4, <1>5, DrainSteps DEF IInv, Timers

LEMMA RenameRecoversKeeps ==
  ASSUME IInv, RenameRecovers
  PROVE  IInv'
<1>1. /\ Still
      /\ UNCHANGED <<debounce, ready, timer, again, full, saved, failed, used>>
      /\ drain.pc = "rename" /\ MoveOf(Running) # {}
      /\ drain' = ToMove(Running)
  BY DEF RenameRecovers, Still, remote, index, watcher, Drain
<1>2. Running \in EventType /\ vault[Running.target] \in Content
  BY <1>1, RunningTyped, EventFields DEF IInv, DrainOK, Batches, World
<1> DEFINE e == Running
           c == Captured(e)
<1>3. c \in EventType /\ c.path = e.path /\ c.target = e.target
  BY <1>2, Updated, EventFields DEF Captured, EventType
<1>4. drain' = [drain EXCEPT !.pc = "move", !.batch = <<c>>]
  BY <1>1 DEF ToMove
<1>6. MoveOf(e) # {}
  BY <1>1
<1> HIDE DEF c, e
<1>5. /\ drain' \in Drains /\ drain'.pc = "move" /\ drain'.items = drain.items
      /\ drain'.batch = <<c>>
  <2>1. <<c>> \in Seq(EventType)
    BY <1>3
  <2> QED
    BY <1>4, <2>1 DEF IInv, DrainOK, Drains, Places
<1>7. Batches'
  <2>1. Running' = c
    BY <1>5 DEF Running
  <2>2. \E m \in moving : m[1] = c.path /\ m[2] = c.target
    BY <1>3, <1>6 DEF MoveOf
  <2> QED
    BY <1>1, <1>5, <2>1, <2>2 DEF Batches, MoveOf, Still
<1>8. SentOnDisk'
  BY <1>1, <1>5 DEF IInv, SentOnDisk
<1>9. full.pc \notin {"scan", "apply"}
  BY <1>1 DEF IInv, Exclusive
<1> QED
  BY <1>1, <1>5, <1>7, <1>8, <1>9, DrainSteps DEF IInv, Timers

-----------------------------------------------------------------------------
(* A batch of files. *)

LEMMA Draining ==
  ASSUME IInv, drain.pc # "idle", UNCHANGED full
  PROVE  FullOK' /\ Exclusive' /\ full.pc \notin {"scan", "apply"}
  BY DEF IInv, FullOK, Exclusive

\* What the preparation of an event may leave.
Fit(d) == /\ d \in Drains /\ d.pc = "prepare"
          /\ \A i \in DOMAIN d.batch : IsFile(d.batch[i])
          /\ \A i \in DOMAIN d.items :
               d.items[i].kind = "sent" => disk[d.items[i].e.path] # Nil

LEMMA HeldFit ==
  ASSUME NEW d, Fit(d), NEW h \in SUBSET EventType
  PROVE  Fit([d EXCEPT !.held = h])
  BY DEF Fit, Drains

LEMMA PrepareFits ==
  ASSUME IInv, drain.pc = "prepare", drain.batch # <<>>, NEW e \in EventType
  PROVE  /\ Fit(Ack(drain, e)) /\ Fit(Retry(drain))
         /\ \A kind \in Kinds \ {"sent"}, v \in EntryType :
              (kind = "upload" => v \in 1 .. MaxVersion)
              => Fit(Prepare(drain, e, kind, v))
<1> DEFINE r == Tail(drain.batch)
<1>1. /\ drain \in Drains /\ drain.batch \in Seq(EventType) /\ drain.items \in Seq(ItemType)
      /\ drain.done \subseteq Id
  BY DrainParts DEF IInv, DrainOK
<1>2. r \in Seq(EventType) /\ DOMAIN r = 1 .. Len(r) /\ Len(r) = Len(drain.batch) - 1
  BY <1>1, HeadTailProperties, LenProperties
<1>3. \A i \in DOMAIN r : r[i] = drain.batch[i + 1] /\ i + 1 \in DOMAIN drain.batch
  BY <1>1, <1>2, HeadTailProperties, LenProperties
<1> HIDE DEF r
<1>4. \A i \in DOMAIN r : IsFile(r[i])
  BY <1>3 DEF IInv, Batches
<1>5. Fit(drain)
  BY <1>1 DEF Fit, IInv, Batches, SentOnDisk
<1>6. Fit(Ack(drain, e))
  <2> DEFINE n == drain.done \cup {e.id}
  <2>1. Ack(drain, e) = [drain EXCEPT !.done = n, !.batch = r]
    BY DEF Ack, r
  <2>2. n \in SUBSET Id
    BY <1>1, EventFields
  <2> HIDE DEF n
  <2> DEFINE d == Ack(drain, e)
  <2>3. d \in Drains /\ d.pc = drain.pc /\ d.batch = r /\ d.items = drain.items
    BY <1>1, <1>2, <2>1, <2>2 DEF Drains
  <2> HIDE DEF d
  <2>4. Fit(d)
    BY <1>4, <1>5, <2>3 DEF Fit
  <2> QED
    BY <2>4 DEF d
<1>7. Fit(Retry(drain))
  <2> DEFINE z == <<>>
  <2>1. Retry(drain) = [drain EXCEPT !.todo = z, !.batch = z]
    BY DEF Retry, Stopped, NoEvents
  <2>2. z \in Seq(EventType) /\ DOMAIN z = {}
    BY EmptySeq
  <2> HIDE DEF z
  <2> DEFINE d == Retry(drain)
  <2>3. d \in Drains /\ d.pc = drain.pc /\ d.batch = z /\ d.items = drain.items
    BY <1>1, <2>1, <2>2 DEF Drains
  <2> HIDE DEF d
  <2>4. Fit(d)
    BY <1>5, <2>2, <2>3 DEF Fit
  <2> QED
    BY <2>4 DEF d
<1>8. ASSUME NEW kind \in Kinds \ {"sent"}, NEW v \in EntryType,
             kind = "upload" => v \in 1 .. MaxVersion
      PROVE  Fit(Prepare(drain, e, kind, v))
  <2> DEFINE x == Item(e, kind, v)
             its == Append(drain.items, x)
  <2>1. Prepare(drain, e, kind, v) = [drain EXCEPT !.items = its, !.batch = r]
    BY DEF Prepare, r
  <2>2. x \in ItemType /\ x.kind # "sent"
    BY <1>8 DEF Item, ItemType
  <2> HIDE DEF x
  <2>3. /\ its \in Seq(ItemType) /\ DOMAIN its = 1 .. Len(drain.items) + 1
        /\ Len(drain.items) \in Nat /\ DOMAIN drain.items = 1 .. Len(drain.items)
        /\ its[Len(drain.items) + 1] = x
        /\ \A i \in 1 .. Len(drain.items) : its[i] = drain.items[i]
    BY <1>1, <2>2, AppendProperties, LenProperties
  <2> HIDE DEF its
  <2>4. \A i \in DOMAIN its : its[i].kind = "sent" => disk[its[i].e.path] # Nil
    <3> SUFFICES ASSUME NEW i \in DOMAIN its, its[i].kind = "sent"
                 PROVE  disk[its[i].e.path] # Nil
      OBVIOUS
    <3>1. i \in DOMAIN drain.items /\ its[i] = drain.items[i]
      BY <2>2, <2>3
    <3> QED
      BY <1>5, <3>1 DEF Fit
  <2> QED
    BY <1>2, <1>4, <1>5, <2>1, <2>3, <2>4 DEF Fit, Drains
<1> QED
  BY <1>6, <1>7, <1>8

LEMMA PrepareUploadFits ==
  ASSUME IInv, drain.pc = "prepare", drain.batch # <<>>, NEW e \in EventType,
         vault[e.path] # Nil, PrepareUpload(e), UNCHANGED used
  PROVE  Fit(drain') /\ put' \in PutType /\ Good(queue', used'.event)
<1> DEFINE p == e.path
           own == {q \in Paths : e.mut # NoId /\ put[q].id = e.mut}
           id == IF own # {} THEN e.mut ELSE IF put[p] # NoPut THEN put[p].id ELSE e.id
           x == [e EXCEPT !.mut = id, !.v = vault[p]]
           d == Prepare(drain, x, "upload", vault[p])
<1>1. /\ put' = [DropPut(id) EXCEPT ![p] = [id |-> id, v |-> vault[p]]]
      /\ queue' = [i \in DOMAIN queue |-> IF queue[i].id = e.id
                     THEN [queue[i] EXCEPT !.mut = id, !.v = vault[p]] ELSE queue[i]]
      /\ drain' = [d EXCEPT !.held = (@ \ {e}) \cup {x}]
  BY DEF PrepareUpload, Drain
<1>2. put \in PutType /\ p \in Paths /\ vault[p] \in Content /\ vault[p] \in 1 .. MaxVersion
      /\ Good(queue, used.event) /\ drain \in Drains
  BY EventFields, Numbers DEF IInv, World, Pending, Events, DrainOK
<1>3. id \in Id
  BY <1>2, EventFields, PutTypes
<1> HIDE DEF id, own
<1>4. x \in EventType
  BY <1>2, <1>3, Updated, EventFields
<1>5. Fit(d)
  BY <1>2, <1>4, PrepareFits, Numbers DEF Kinds
<1>6. d.held = drain.held
  BY <1>2 DEF Prepare, Drains
<1> HIDE DEF d, x
<1>7. Fit(drain')
  BY <1>1, <1>2, <1>4, <1>5, <1>6, HeldFit, DrainParts
<1>8. put' \in PutType
  <2>1. DropPut(id) \in PutType
    BY <1>2, PutTypes
  <2> HIDE DEF p
  <2> QED
    BY <1>1, <1>2, <1>3, <2>1 DEF PutType
<1>9. Good(queue', used.event)
  <2>1. queue \in Seq(EventType)
    BY <1>2 DEF Good
  <2>2. DOMAIN queue = 1 .. Len(queue) /\ Len(queue) \in Nat
    BY <2>1, LenProperties
  <2>3. \A i \in DOMAIN queue : queue'[i] \in EventType /\ queue'[i].id = queue[i].id
    <3> SUFFICES ASSUME NEW i \in DOMAIN queue
                 PROVE  queue'[i] \in EventType /\ queue'[i].id = queue[i].id
      OBVIOUS
    <3>1. queue[i] \in EventType
      BY <1>2, ElementGood
    <3>2. [queue[i] EXCEPT !.mut = id, !.v = vault[p]] \in EventType
      BY <1>2, <1>3, <3>1, Updated, EventFields
    <3>3. [queue[i] EXCEPT !.mut = id, !.v = vault[p]].id = queue[i].id
      BY <3>1 DEF EventType
    <3> QED
      BY <1>1, <3>1, <3>2, <3>3
  <2>4. queue' \in Seq(EventType) /\ DOMAIN queue' = DOMAIN queue
    <3>1. DOMAIN queue' = 1 .. Len(queue)
      BY <1>1, <2>2
    <3>2. queue' = [i \in 1 .. Len(queue) |-> queue'[i]]
      BY <1>1, <2>2
    <3> QED
      BY <2>2, <2>3, <3>1, <3>2, IsASeq
  <2> QED
    BY <1>2, <2>3, <2>4, SameIdsGood
<1> QED
  BY <1>7, <1>8, <1>9

LEMMA PrepareFileKeeps ==
  ASSUME IInv, PrepareFile
  PROVE  IInv'
<1> DEFINE e == Head(drain.batch)
<1>1. /\ UNCHANGED <<vault, canon, changed, rev, disk, moving, moves, applied, debounce,
                     ready, timer, again, late, handed, full, saved, failed, used, gone,
                     copies>>
      /\ drain.pc = "prepare" /\ drain.batch # <<>>
  BY DEF PrepareFile, remote, NoEvents
<1>2. e \in EventType /\ IsFile(e)
  <2>1. drain.batch \in Seq(EventType)
    BY DrainParts DEF IInv, DrainOK
  <2>2. e = drain.batch[1] /\ 1 \in DOMAIN drain.batch /\ e \in EventType
    BY <1>1, <2>1, HeadTailProperties, LenProperties, EmptySeq
  <2> QED
    BY <1>1, <2>2 DEF IInv, Batches
<1>3. /\ put \in PutType /\ dels \subseteq Paths /\ base \in [Paths -> EntryType]
      /\ canon \in [Paths -> EntryType] /\ Good(queue, used.event)
  BY DEF IInv, World, Pending, Events
<1>4. e.path \in Paths /\ e.act \in {"upload", "delete"}
  BY <1>2, EventFields DEF IsFile
<1>5. /\ Fit(Ack(drain, e)) /\ Fit(Retry(drain)) /\ Fit(Prepare(drain, e, "noop", Nil))
      /\ Fit(Prepare(drain, e, "delete", canon[e.path]))
  BY <1>1, <1>2, <1>3, <1>4, PrepareFits, Numbers DEF Kinds
<1> DEFINE Goal == /\ Fit(drain') /\ put' \in PutType /\ dels' \subseteq Paths
                   /\ base' \in [Paths -> EntryType] /\ Good(queue', used'.event)
<1> HIDE DEF e
<1>6. ASSUME e.act = "delete"
      PROVE  Goal
  <2>1. PrepareDelete(e)
    BY <1>6 DEF PrepareFile, e
  <2>2. drain' \in {Ack(drain, e), Prepare(drain, e, "noop", Nil),
                    Prepare(drain, e, "delete", canon[e.path])}
    BY <2>1 DEF PrepareDelete, Drain
  <2>3. put' \in PutType
    BY <1>3, <1>4, <2>1, PutTypes DEF PrepareDelete
  <2>4. dels' \subseteq Paths /\ base' \in [Paths -> EntryType] /\ queue' = queue
    BY <1>3, <1>4, <2>1, Numbers DEF PrepareDelete
  <2> QED
    BY <1>1, <1>3, <1>5, <2>2, <2>3, <2>4
<1>7. ASSUME e.act = "upload" /\ (e.mut \in applied \/ e.id \in late)
      PROVE  Goal
  <2>1. PrepareOld(e)
    BY <1>7 DEF PrepareFile, e
  <2>2. drain' \in {Ack(drain, e), Prepare(drain, e, "noop", Nil), Retry(drain)}
    BY <2>1 DEF PrepareOld, Drain
  <2>3. put' \in {put, DropPut(e.mut)} /\ UNCHANGED <<base, queue, dels>>
    BY <2>1 DEF PrepareOld
  <2> QED
    BY <1>1, <1>3, <1>5, <2>2, <2>3, PutTypes
<1>8. ASSUME e.act = "upload" /\ ~(e.mut \in applied \/ e.id \in late)
      PROVE  Goal
  <2>1. IF vault[e.path] = Nil
        THEN /\ Drain(IF canon[e.path] = Dead THEN Ack(drain, e) ELSE Retry(drain))
             /\ UNCHANGED <<put, queue, base, dels>>
        ELSE IF Unchanged(e)
             THEN Drain(Ack(drain, e)) /\ UNCHANGED <<put, queue, base, dels>>
             ELSE PrepareUpload(e)
    BY <1>8 DEF PrepareFile, e
  <2>2. CASE vault[e.path] # Nil /\ ~Unchanged(e)
    <3>1. PrepareUpload(e)
      BY <2>1, <2>2
    <3>2. UNCHANGED <<base, dels>>
      BY <3>1 DEF PrepareUpload
    <3> QED
      BY <1>1, <1>2, <1>3, <2>2, <3>1, <3>2, PrepareUploadFits
  <2>3. CASE ~(vault[e.path] # Nil /\ ~Unchanged(e))
    <3>1. drain' \in {Ack(drain, e), Retry(drain)} /\ UNCHANGED <<put, queue, base, dels>>
      BY <2>1, <2>3 DEF Drain
    <3> QED
      BY <1>1, <1>3, <1>5, <3>1
  <2> QED
    BY <2>2, <2>3
<1>9. Goal
  BY <1>4, <1>6, <1>7, <1>8
<1>10. World' /\ Pending' /\ Events' /\ Timers' /\ IndexHasFile'
  BY <1>1, <1>9 DEF IInv, World, Pending, Events, Timers, IndexHasFile
<1>11. DrainOK' /\ Batches' /\ SentOnDisk'
  BY <1>1, <1>9 DEF Fit, DrainOK, Batches, SentOnDisk
<1>12. SavedOK'
  BY <1>1, SavedLater
<1> QED
  BY <1>1, <1>10, <1>11, <1>12, Draining DEF IInv

-----------------------------------------------------------------------------
(* Sending, committing and settling a batch. *)

LEMMA Items ==
  ASSUME IInv
  PROVE  /\ drain.items \in Seq(ItemType) /\ DOMAIN drain.items = 1 .. Len(drain.items)
         /\ Len(drain.items) \in Nat /\ Unsent \in SUBSET Nat
         /\ \A i \in DOMAIN drain.items :
              /\ drain.items[i] \in ItemType
              /\ drain.items[i].e \in EventType /\ drain.items[i].e.path \in Paths
              /\ drain.items[i].e.id \in Id /\ drain.items[i].e.mut \in Id
              /\ drain.items[i].v \in EntryType
              /\ drain.items[i].kind \in {"upload", "sent"} =>
                   drain.items[i].v \in Content /\ drain.items[i].v # Nil
<1>1. drain.items \in Seq(ItemType)
  BY DrainParts DEF IInv, DrainOK
<1>2. DOMAIN drain.items = 1 .. Len(drain.items) /\ Len(drain.items) \in Nat
  BY <1>1, LenProperties
<1>3. Unsent \in SUBSET Nat
  BY <1>2 DEF Unsent
<1>4. \A x \in ItemType :
        /\ x.e \in EventType /\ x.v \in EntryType
        /\ x.kind \in {"upload", "sent"} => x.v \in Content /\ x.v # Nil
  BY Numbers DEF ItemType
<1>5. \A i \in DOMAIN drain.items : drain.items[i] \in ItemType
  BY <1>1, <1>2, ElementOfSeq
<1> QED
  BY <1>1, <1>2, <1>3, <1>4, <1>5, EventFields

LEMMA NextUnsent ==
  ASSUME IInv, Unsent # {}
  PROVE  NextItem \in Unsent /\ NextItem \in DOMAIN drain.items
  BY Items, Least DEF NextItem, Unsent

LEMMA UploadKeeps ==
  ASSUME IInv, Upload
  PROVE  IInv'
<1> DEFINE i == NextItem
           x == drain.items[i]
           its == drain.items
<1>1. /\ UNCHANGED <<vault, canon, changed, rev, moving, base, put, moves, dels, applied,
                     queue, debounce, ready, timer, again, late, handed, full, saved,
                     failed, used, gone, copies>>
      /\ drain.pc = "apply" /\ Unsent # {}
      /\ \/ drain' = GiveUp(i) /\ disk' = disk
         \/ drain' = Sent(i) /\ disk' = [disk EXCEPT ![x.e.path] = x.v]
  BY DEF Upload, index, watcher, Drain
<1>2. i \in Unsent /\ i \in DOMAIN its
  BY <1>1, NextUnsent
<1>3. /\ x \in ItemType /\ x.e.path \in Paths /\ x.e.id \in Id
      /\ x.kind = "upload" /\ x.v \in Content /\ x.v # Nil
  BY <1>2, Items DEF Unsent
<1>4. drain \in Drains /\ disk \in [Paths -> Content] /\ its \in Seq(ItemType)
      /\ DOMAIN its = 1 .. Len(its) /\ Len(its) \in Nat
  BY Items DEF IInv, DrainOK, World
<1>5. \A j \in DOMAIN its : /\ its[j] \in ItemType /\ its[j].e.path \in Paths
                            /\ its[j].kind = "sent" => disk[its[j].e.path] # Nil
  BY <1>1, Items DEF IInv, SentOnDisk
<1> HIDE DEF i, its
<1>6. DrainOK' /\ drain'.pc = "apply" /\ SentOnDisk'
  <2>1. CASE drain' = GiveUp(i) /\ disk' = disk
    <3> DEFINE r == RemoveAt(its, i)
    <3>1. r = [j \in 1 .. Len(its) - 1 |-> IF j < i THEN its[j] ELSE its[j + 1]]
      <4>1. r = SubSeq(its, 1, i - 1) \o SubSeq(its, i + 1, Len(its))
        BY DEF RemoveAt
      <4> DEFINE u == SubSeq(its, 1, i - 1)
                 v == SubSeq(its, i + 1, Len(its))
      <4>2. i \in Nat /\ 1 <= i /\ i <= Len(its)
        BY <1>2, <1>4
      <4>3. /\ u \in Seq(ItemType) /\ Len(u) = i - 1
            /\ \A j \in 1 .. i - 1 : u[j] = its[j]
        BY <1>4, <1>5, <4>2, SubSeqProperties
      <4>4. /\ v \in Seq(ItemType) /\ Len(v) = Len(its) - i
            /\ \A j \in 1 .. Len(its) - i : v[j] = its[i + j]
        <5>1. i + 1 \in Int /\ Len(its) \in Int
          BY <1>4, <4>2
        <5>2. \A j \in i + 1 .. Len(its) : its[j] \in ItemType
          BY <1>4, <1>5, <4>2
        <5>3. /\ v \in Seq(ItemType)
              /\ Len(v) = IF i + 1 <= Len(its) THEN Len(its) - (i + 1) + 1 ELSE 0
              /\ \A j \in 1 .. Len(its) - (i + 1) + 1 : v[j] = its[i + 1 + j - 1]
          BY <5>1, <5>2, SubSeqProperties
        <5>4. Len(its) - (i + 1) + 1 = Len(its) - i
          BY <1>4, <4>2
        <5>5. \A j \in 1 .. Len(its) - i : i + 1 + j - 1 = i + j
          BY <1>4, <4>2
        <5>6. Len(v) = Len(its) - i
          <6>1. CASE i + 1 <= Len(its)
            BY <5>3, <5>4, <6>1
          <6>2. CASE ~(i + 1 <= Len(its))
            <7>1. \A a \in Int, l \in Int : a <= l /\ ~(a + 1 <= l) => l - a = 0
              OBVIOUS
            <7>2. Len(its) - i = 0
              BY <4>2, <5>1, <6>2, <7>1
            <7> QED
              BY <5>3, <6>2, <7>2
          <6> QED
            BY <6>1, <6>2
        <5>7. ASSUME NEW j \in 1 .. Len(its) - i
              PROVE  v[j] = its[i + j]
          <6>1. v[j] = its[i + 1 + j - 1]
            BY <5>3, <5>4
          <6> QED
            BY <5>5, <6>1
        <5> QED
          BY <5>3, <5>6, <5>7
      <4> HIDE DEF u, v
      <4>5. /\ u \o v \in Seq(ItemType) /\ Len(u \o v) = Len(its) - 1
            /\ \A j \in 1 .. Len(its) - 1 :
                  (u \o v)[j] = IF j <= i - 1 THEN u[j] ELSE v[j - (i - 1)]
        <5>1. /\ u \o v \in Seq(ItemType) /\ Len(u \o v) = Len(u) + Len(v)
              /\ \A j \in 1 .. Len(u) + Len(v) :
                    (u \o v)[j] = IF j <= Len(u) THEN u[j] ELSE v[j - Len(u)]
          BY <4>3, <4>4, ConcatProperties
        <5>2. Len(u) + Len(v) = Len(its) - 1
          BY <1>4, <4>2, <4>3, <4>4
        <5> QED
          BY <4>3, <5>1, <5>2
      <4>6. \A j \in 1 .. Len(its) - 1 :
               (u \o v)[j] = IF j < i THEN its[j] ELSE its[j + 1]
        <5> SUFFICES ASSUME NEW j \in 1 .. Len(its) - 1
                     PROVE  (u \o v)[j] = IF j < i THEN its[j] ELSE its[j + 1]
          OBVIOUS
        <5>1. CASE j < i
          BY <1>4, <4>2, <4>3, <4>5, <5>1
        <5>2. CASE ~(j < i)
          <6>1. j - (i - 1) \in 1 .. Len(its) - i /\ i + (j - (i - 1)) = j + 1
            BY <1>4, <4>2, <5>2
          <6> QED
            BY <4>2, <4>4, <4>5, <5>2, <6>1
        <5> QED
          BY <5>1, <5>2
      <4>7. u \o v = [j \in 1 .. Len(its) - 1 |-> (u \o v)[j]]
        BY <4>5, LenProperties, IsASeq
      <4> QED
        BY <4>1, <4>6, <4>7 DEF u, v
    <3>2. drain' = [drain EXCEPT !.items = r, !.done = @ \cup {x.e.id}]
      BY <2>1 DEF GiveUp, its
    <3> HIDE DEF r
    <3>3. \A j \in 1 .. Len(its) - 1 : r[j] \in {its[k] : k \in DOMAIN its}
      BY <1>4, <3>1
    <3>4. r \in Seq(ItemType) /\ DOMAIN r = 1 .. Len(its) - 1
      <4>1. \A j \in 1 .. Len(its) - 1 : r[j] \in ItemType
        BY <1>5, <3>3
      <4>2. r = [j \in 1 .. Len(its) - 1 |-> r[j]]
        BY <3>1
      <4>3. Len(its) - 1 \in Nat
        BY <1>2, <1>4
      <4> QED
        BY <3>1, <4>1, <4>2, <4>3, IsASeq
    <3>5. /\ drain' \in Drains /\ drain'.pc = "apply" /\ drain'.items = r
      BY <1>1, <1>3, <1>4, <3>2, <3>4 DEF Drains
    <3> QED
      BY <1>5, <2>1, <3>3, <3>4, <3>5 DEF DrainOK, SentOnDisk
  <2>2. CASE drain' = Sent(i) /\ disk' = [disk EXCEPT ![x.e.path] = x.v]
    <3> DEFINE y == [x EXCEPT !.kind = "sent"]
               s == [its EXCEPT ![i] = y]
    <3>1. y \in ItemType /\ y.e = x.e
      BY <1>3, Numbers DEF ItemType, Kinds
    <3>2. drain' = [drain EXCEPT !.items = s]
      BY <2>2 DEF Sent, its
    <3> HIDE DEF x, y
    <3>3. s \in Seq(ItemType) /\ DOMAIN s = DOMAIN its
      BY <1>2, <1>4, <3>1, ExceptSeq
    <3>4. s[i] = y /\ \A j \in DOMAIN its : j # i => s[j] = its[j]
      BY <1>2
    <3> HIDE DEF s
    <3>5. drain' \in Drains /\ drain'.pc = "apply" /\ drain'.items = s
      BY <1>1, <1>4, <3>2, <3>3 DEF Drains
    <3>6. \A j \in DOMAIN s : s[j].kind = "sent" => disk'[s[j].e.path] # Nil
      <4> SUFFICES ASSUME NEW j \in DOMAIN s, s[j].kind = "sent"
                   PROVE  disk'[s[j].e.path] # Nil
        OBVIOUS
      <4>1. CASE j = i
        BY <1>3, <1>4, <2>2, <3>1, <3>4, <4>1
      <4>2. CASE j # i
        BY <1>3, <1>4, <1>5, <2>2, <3>3, <3>4, <4>2
      <4> QED
        BY <4>1, <4>2
    <3> QED
      BY <3>5, <3>6 DEF DrainOK, SentOnDisk
  <2> QED
    BY <1>1, <2>1, <2>2
<1>7. World' /\ IndexHasFile'
  BY <1>1, <1>3, <1>4 DEF IInv, World, IndexHasFile
<1>8. Pending' /\ Events' /\ Timers'
  BY <1>1 DEF IInv, Pending, Events, Timers
<1>9. Batches'
  BY <1>6 DEF Batches
<1>10. SavedOK'
  BY <1>1, SavedLater
<1> QED
  BY <1>1, <1>6, <1>7, <1>8, <1>9, <1>10, Draining DEF IInv

LEMMA UploadFailsKeeps ==
  ASSUME IInv, UploadFails
  PROVE  IInv'
<1> DEFINE i == NextItem
           x == drain.items[i]
           its == drain.items
           s == SubSeq(its, 1, i - 1)
<1>1. /\ UNCHANGED <<vault, canon, changed, rev, moving, base, put, moves, dels, applied,
                     queue, debounce, ready, timer, again, late, handed, full, saved,
                     failed, gone, copies>>
      /\ Fault /\ drain.pc = "apply" /\ Unsent # {}
      /\ drain' = [Stopped(drain) EXCEPT !.items = s]
      /\ disk' \in {disk, [disk EXCEPT ![x.e.path] = x.v]}
  BY DEF UploadFails, index, watcher, Drain, Stopped
<1>2. i \in Unsent /\ i \in DOMAIN its
  BY <1>1, NextUnsent
<1>3. /\ x.e.path \in Paths /\ x.kind = "upload" /\ x.v \in Content /\ x.v # Nil
  BY <1>2, Items DEF Unsent
<1>4. /\ drain \in Drains /\ disk \in [Paths -> Content] /\ its \in Seq(ItemType)
      /\ DOMAIN its = 1 .. Len(its) /\ Len(its) \in Nat
  BY Items DEF IInv, DrainOK, World
<1>5. \A j \in DOMAIN its : /\ its[j].e.path \in Paths
                            /\ its[j].kind = "sent" => disk[its[j].e.path] # Nil
  BY <1>1, Items DEF IInv, SentOnDisk
<1>6. used' \in Counters /\ used'.event = used.event
  BY <1>1, Counted DEF IInv, Events, Counters
<1> HIDE DEF i, its, x
<1>7. /\ s \in Seq(ItemType) /\ DOMAIN s = 1 .. i - 1
      /\ \A j \in 1 .. i - 1 : s[j] = its[j] /\ j \in DOMAIN its
  BY <1>2, <1>4, SubSeqProperties
<1> HIDE DEF s
<1>8. drain' \in Drains /\ drain'.pc = "apply" /\ drain'.items = s
  BY <1>1, <1>4, <1>7, DrainParts DEF Drains, Stopped
<1>9. \A p \in Paths : disk[p] # Nil => disk'[p] # Nil
  BY <1>1, <1>3, <1>4
<1>10. SentOnDisk'
  BY <1>5, <1>7, <1>8, <1>9 DEF SentOnDisk
<1>11. World' /\ IndexHasFile'
  BY <1>1, <1>3, <1>4, <1>9 DEF IInv, World, IndexHasFile
<1>12. Pending' /\ Events' /\ Timers'
  BY <1>1, <1>6 DEF IInv, Pending, Events, Timers, Counters
<1>13. DrainOK' /\ Batches'
  BY <1>8 DEF DrainOK, Batches
<1>14. SavedOK'
  BY <1>1, <1>6, SavedLater
<1> QED
  BY <1>1, <1>10, <1>11, <1>12, <1>13, <1>14, Draining DEF IInv

LEMMA VersionSent ==
  ASSUME IInv, NEW p \in Of("sent")
  PROVE  VersionOf(p) \in Content /\ VersionOf(p) # Nil /\ p \in Paths
<1> DEFINE S == {x \in Accepted : x.kind = "sent" /\ x.e.path = p}
           ids == {x.e.id : x \in S}
<1>1. \A x \in Accepted : /\ x.e.id \in Id /\ x.e.path \in Paths
                          /\ x.kind = "sent" => x.v \in Content /\ x.v # Nil
  BY Items DEF Accepted
<1>2. S # {} /\ p \in Paths
  BY <1>1 DEF Of
<1>3. ids # {} /\ ids \subseteq 0 .. MaxEvent
  BY <1>1, <1>2, Numbers DEF Id
<1>4. PICK m \in ids : \A k \in ids : k <= m
  <2> HIDE DEF ids
  <2> QED
    BY <1>3, Greatest, Numbers
<1>5. PICK x \in S : x.e.id = m
  OBVIOUS
<1>6. /\ x \in Accepted /\ x.kind = "sent" /\ x.e.path = p
      /\ \A y \in Accepted : y.kind = "sent" /\ y.e.path = p => y.e.id <= x.e.id
  BY <1>4, <1>5
<1> DEFINE c == CHOOSE z \in Accepted : z.kind = "sent" /\ z.e.path = p /\
                   \A y \in Accepted : y.kind = "sent" /\ y.e.path = p => y.e.id <= z.e.id
<1>7. c \in Accepted /\ c.kind = "sent"
  BY <1>6
<1>8. VersionOf(p) = c.v
  BY DEF VersionOf
<1> HIDE DEF c
<1> QED
  BY <1>1, <1>2, <1>7, <1>8

LEMMA MetadataTyped ==
  ASSUME IInv
  PROVE  Metadata \in [Paths -> EntryType]
  BY VersionSent, Numbers DEF Metadata, IInv, World

LEMMA CommitKeeps ==
  ASSUME IInv, Commit
  PROVE  IInv'
<1> DEFINE sent == Of("sent")
           deleted == Of("delete")
           touched == sent \cup deleted
           more == {drain.items[i].e.id : i \in Given}
                     \cup {x.e.id : x \in {y \in Accepted : y.kind # "delete"}}
<1>1. /\ UNCHANGED <<vault, disk, moving, moves, queue, debounce, ready, timer, again, late,
                     handed, full, saved, failed, used, gone, copies>>
      /\ drain.pc = "apply" /\ base' = Metadata
      /\ canon' = [p \in Paths |-> IF p \in sent THEN VersionOf(p)
                                   ELSE IF p \in deleted THEN Dead ELSE canon[p]]
      /\ rev' = rev + (IF touched = {} THEN 0 ELSE 1)
      /\ changed' = [p \in Paths |-> IF p \in touched THEN rev' ELSE changed[p]]
      /\ put' = [p \in Paths |-> IF p \in sent THEN NoPut ELSE put[p]]
      /\ dels' = dels \ deleted
      /\ applied' = applied \cup {x.e.mut : x \in {y \in Accepted : y.kind = "sent"}}
      /\ drain' = [drain EXCEPT !.pc = "clean", !.done = @ \cup more]
  BY DEF Commit, watcher, Drain
<1>2. \A x \in Accepted : /\ x.e.id \in Id /\ x.e.path \in Paths /\ x.e.mut \in Id
                          /\ x.kind = "sent" => disk[x.e.path] # Nil
  BY <1>1, Items DEF Accepted, IInv, SentOnDisk
<1>3. more \subseteq Id
  BY <1>2, Items DEF Given
<1>4. \A p \in sent : VersionOf(p) \in Content /\ VersionOf(p) # Nil /\ disk[p] # Nil
  BY <1>2, VersionSent DEF Of
<1>5. \A p \in sent : VersionOf(p) \in EntryType
  BY <1>4, Numbers
<1> HIDE DEF sent, deleted, more
<1>6. World'
  <2>1. canon' \in [Paths -> EntryType]
    BY <1>1, <1>5, Numbers DEF IInv, World
  <2>2. rev' \in Nat /\ rev <= rev' /\ rev \in Nat
    BY <1>1 DEF IInv, World
  <2>3. changed' \in [Paths -> 0 .. rev']
    BY <1>1, <2>2 DEF IInv, World
  <2> QED
    BY <1>1, <2>1, <2>2, <2>3, MetadataTyped DEF IInv, World
<1>7. Pending'
  <2>1. put' \in PutType
    BY <1>1, PutTypes DEF IInv, Pending, PutType
  <2>2. applied' \subseteq Id
    BY <1>1, <1>2 DEF IInv, Pending
  <2> QED
    BY <1>1, <2>1, <2>2 DEF IInv, Pending
<1>8. Events' /\ Timers'
  BY <1>1 DEF IInv, Events, Timers
<1>9. drain' \in Drains /\ drain'.pc = "clean"
  <2> DEFINE n == drain.done \cup more
  <2>1. n \in SUBSET Id /\ drain' = [drain EXCEPT !.pc = "clean", !.done = n]
    BY <1>1, <1>3, DrainParts DEF IInv, DrainOK
  <2> HIDE DEF n
  <2> QED
    BY <2>1 DEF IInv, DrainOK, Drains, Places
<1>10. DrainOK' /\ Batches' /\ SentOnDisk'
  BY <1>9 DEF DrainOK, Batches, SentOnDisk
<1>11. IndexHasFile'
  BY <1>1, <1>4, Numbers DEF IInv, World, IndexHasFile
<1>12. SavedOK'
  BY <1>1, SavedLater
<1> QED
  BY <1>1, <1>6, <1>7, <1>8, <1>10, <1>11, <1>12, Draining DEF IInv

LEMMA CommitFailsKeeps ==
  ASSUME IInv, CommitFails
  PROVE  IInv'
<1> DEFINE more == {drain.items[i].e.id : i \in Given}
<1>1. /\ UNCHANGED <<vault, canon, changed, rev, disk, moving, put, moves, dels, applied,
                     queue, debounce, ready, timer, again, late, handed, full, saved,
                     failed, gone, copies>>
      /\ drain.pc = "apply" /\ Fault /\ base' = Metadata
      /\ drain' = [Stopped(drain) EXCEPT !.pc = "settle", !.done = @ \cup more]
  BY DEF CommitFails, remote, watcher, Drain
<1>2. more \subseteq Id
  BY Items DEF Given
<1> HIDE DEF more
<1>3. used' \in Counters /\ used'.event = used.event
  BY <1>1, Counted DEF IInv, Events, Counters
<1>4. drain' \in Drains /\ drain'.pc = "settle"
  <2> DEFINE n == drain.done \cup more
             d == Stopped(drain)
  <2>1. n \in SUBSET Id /\ d \in Drains /\ d.done = drain.done
    BY <1>2, DrainParts DEF IInv, DrainOK, Drains, Stopped
  <2>2. drain' = [d EXCEPT !.pc = "settle", !.done = n]
    BY <1>1, <2>1
  <2> HIDE DEF n, d
  <2> QED
    BY <2>1, <2>2 DEF Drains, Places
<1>5. World' /\ IndexHasFile'
  BY <1>1, MetadataTyped DEF IInv, World, IndexHasFile
<1>6. Pending' /\ Events' /\ Timers'
  BY <1>1, <1>3 DEF IInv, Pending, Events, Timers, Counters
<1>7. DrainOK' /\ Batches' /\ SentOnDisk'
  BY <1>4 DEF DrainOK, Batches, SentOnDisk
<1>8. SavedOK'
  BY <1>1, <1>3, SavedLater
<1> QED
  BY <1>1, <1>5, <1>6, <1>7, <1>8, Draining DEF IInv

LEMMA CleanKeeps ==
  ASSUME IInv, Clean
  PROVE  IInv'
<1> DEFINE removals == {x \in Accepted : x.kind = "delete"}
           ok == {x \in removals : MayDelete(x)}
           more == {x.e.id : x \in ok}
           d == [drain EXCEPT !.pc = "settle", !.done = drain.done \cup more]
<1>1. /\ UNCHANGED <<vault, canon, changed, rev, moving, base, put, moves, dels, applied,
                     queue, debounce, ready, timer, again, late, handed, full, failed,
                     used, gone, copies>>
      /\ drain.pc = "clean"
      /\ disk' = [p \in Paths |-> IF \E x \in ok : x.e.path = p THEN Nil ELSE disk[p]]
      /\ drain' = IF ok = removals THEN d ELSE Stopped(d)
      /\ saved' = Data(queue, base, put, moves, dels)
  BY DEF Clean, index, watcher, Drain
<1>2. \A x \in ok : x.e.id \in Id /\ canon[x.e.path] = Dead
  BY Items DEF Accepted, MayDelete
<1>3. more \subseteq Id
  BY <1>2
<1> HIDE DEF ok, removals, more
<1>4. d \in Drains /\ d.pc = "settle"
  <2> DEFINE n == drain.done \cup more
  <2>1. n \in SUBSET Id
    BY <1>3, DrainParts DEF IInv, DrainOK
  <2>2. d = [drain EXCEPT !.pc = "settle", !.done = n]
    OBVIOUS
  <2> HIDE DEF n
  <2> QED
    BY <2>1, <2>2 DEF IInv, DrainOK, Drains, Places
<1> HIDE DEF d
<1>5. drain' \in Drains /\ drain'.pc = "settle"
  <2>1. Stopped(d) \in Drains /\ Stopped(d).pc = "settle"
    BY <1>4, EmptyRecords DEF Stopped, Drains
  <2> QED
    BY <1>1, <1>4, <2>1
<1>6. World' /\ IndexHasFile'
  BY <1>1, <1>2, Numbers DEF IInv, World, IndexHasFile
<1>7. Pending' /\ Events' /\ Timers'
  BY <1>1 DEF IInv, Pending, Events, Timers
<1>8. DrainOK' /\ Batches' /\ SentOnDisk'
  BY <1>5 DEF DrainOK, Batches, SentOnDisk
<1>9. SavedOK'
  BY <1>1, DataSaved DEF IInv, World, Pending, Events, SavedOK
<1> QED
  BY <1>1, <1>6, <1>7, <1>8, <1>9, Draining DEF IInv

LEMMA RebasedGood ==
  ASSUME IInv, NEW done
  PROVE  /\ Good(Rebased(queue, done), used.event)
         /\ DOMAIN Rebased(queue, done) = DOMAIN queue
<1> DEFINE r == Rebased(queue, done)
           e(i) == [queue[i] EXCEPT !.pred = NoId,
                      !.rev = IF \E x \in drain.held : x.id = queue[i].pred /\ x.mut \in applied
                              THEN rev ELSE @]
<1>1. queue \in Seq(EventType) /\ Good(queue, used.event) /\ rev \in Nat
  BY DEF IInv, Events, World, Good
<1>2. DOMAIN queue = 1 .. Len(queue) /\ Len(queue) \in Nat
  BY <1>1, LenProperties
<1>3. r = [i \in DOMAIN queue |-> IF queue[i].act = "rename" /\ queue[i].pred \in done
                                  THEN e(i) ELSE queue[i]]
  BY DEF Rebased
<1>4. \A i \in DOMAIN queue : e(i) \in EventType /\ e(i).id = queue[i].id
  <2> SUFFICES ASSUME NEW i \in DOMAIN queue
               PROVE  e(i) \in EventType /\ e(i).id = queue[i].id
    OBVIOUS
  <2> DEFINE q == queue[i]
             n == IF \E x \in drain.held : x.id = q.pred /\ x.mut \in applied
                  THEN rev ELSE q.rev
  <2>1. q \in EventType
    BY <1>1, ElementGood
  <2>2. n \in Nat
    BY <1>1, <2>1, EventFields
  <2>3. e(i) = [q EXCEPT !.pred = NoId, !.rev = n]
    OBVIOUS
  <2> HIDE DEF e, q, n
  <2> QED
    BY <2>1, <2>2, <2>3, Numbers DEF EventType, q
<1> HIDE DEF e
<1>5. \A i \in DOMAIN queue : r[i] \in EventType /\ r[i].id = queue[i].id
  BY <1>1, <1>3, <1>4, ElementGood
<1>6. r = [i \in 1 .. Len(queue) |-> r[i]] /\ DOMAIN r = DOMAIN queue
  BY <1>2, <1>3
<1> HIDE DEF r
<1>7. r \in Seq(EventType)
  BY <1>2, <1>5, <1>6, IsASeq
<1>8. Good(r, used.event)
  BY <1>1, <1>5, <1>6, <1>7, SameIdsGood
<1> QED
  BY <1>6, <1>8 DEF r

LEMMA SettleKeeps ==
  ASSUME IInv, Settle
  PROVE  IInv'
<1> DEFINE q == Without(Rebased(queue, drain.done), drain.done)
<1>1. /\ UNCHANGED <<vault, canon, changed, rev, disk, moving, base, put, moves, dels,
                     applied, debounce, ready, timer, again, full, saved, used, gone, copies>>
      /\ drain.pc = "settle" /\ Queue(q)
      /\ late' = late \ drain.done /\ handed' = handed \ drain.done
      /\ drain' = [drain EXCEPT !.pc = "saved", !.items = <<>>, !.done = {},
                     !.held = {e \in @ : e.id \notin drain.done},
                     !.todo = Shared(Rebased(queue, drain.done))]
  BY DEF Settle, remote, index, Drain, NoEvents
<1>2. Good(q, used.event)
  BY RebasedGood, WithoutGood
<1> HIDE DEF q
<1>3. queue' = q /\ failed' \in BOOLEAN
  BY <1>1 DEF Queue
<1>4. Events' /\ Timers'
  BY <1>1, <1>2, <1>3 DEF IInv, Events, Timers
<1>5. drain' \in Drains /\ drain'.pc = "saved" /\ drain'.items = <<>>
  <2> DEFINE h == {e \in drain.held : e.id \notin drain.done}
             t == Shared(Rebased(queue, drain.done))
  <2>1. h \in SUBSET EventType /\ <<>> \in Seq(ItemType) /\ {} \in SUBSET Id
    BY DrainParts, EmptySeq DEF IInv, DrainOK
  <2>2. drain' = [drain EXCEPT !.pc = "saved", !.items = <<>>, !.done = {}, !.held = h,
                    !.todo = t]
    BY <1>1
  <2>3. t \in Seq(EventType)
    BY RebasedGood, SharedTyped DEF IInv, DrainOK, Events
  <2> HIDE DEF h, t
  <2> QED
    BY <2>1, <2>2, <2>3 DEF IInv, DrainOK, Drains, Places
<1>6. World' /\ Pending' /\ IndexHasFile'
  BY <1>1 DEF IInv, World, Pending, IndexHasFile
<1>7. DrainOK' /\ Batches' /\ SentOnDisk'
  BY <1>5, NoBatch DEF DrainOK
<1>8. SavedOK'
  BY <1>1, SavedLater
<1> QED
  BY <1>1, <1>4, <1>6, <1>7, <1>8, Draining DEF IInv

-----------------------------------------------------------------------------
(* One rename. *)

LEMMA RenameSteps ==
  ASSUME IInv, drain.pc \in {"rename", "move"}
  PROVE  /\ Running \in EventType /\ Running.path \in Paths /\ Running.target \in Paths
         /\ Running.id \in Id /\ Running.rev \in Nat /\ vault[Running.target] \in Content
         /\ drain' = RenameRetried => DrainOK' /\ Batches' /\ SentOnDisk'
         /\ \A q : /\ Good(q, used.event) /\ DOMAIN q = DOMAIN queue
                   /\ drain' = RenameSettled(q)
                   => DrainOK' /\ Batches' /\ SentOnDisk'
<1>1. Running \in EventType
  BY RunningTyped DEF IInv, DrainOK, Batches
<1>2. Running.path \in Paths /\ Running.target \in Paths /\ Running.id \in Id
      /\ Running.rev \in Nat /\ vault[Running.target] \in Content
  BY <1>1, EventFields DEF IInv, World
<1>3. drain \in Drains /\ drain.items = <<>>
  BY DEF IInv, DrainOK, SentOnDisk
<1>4. ASSUME drain' = RenameRetried
      PROVE  DrainOK' /\ Batches' /\ SentOnDisk'
  <2>1. RenameRetried \in Drains
    BY <1>3, DrainParts
  <2>2. RenameRetried.pc = "next" /\ RenameRetried.items = <<>>
    BY <1>3 DEF RenameRetried, Stopped, Drains
  <2> QED
    BY <1>4, <2>1, <2>2, NoBatch DEF DrainOK
<1>5. ASSUME NEW q, Good(q, used.event), DOMAIN q = DOMAIN queue, drain' = RenameSettled(q)
      PROVE  DrainOK' /\ Batches' /\ SentOnDisk'
  <2> DEFINE t == Shared(q)
  <2>1. t \in Seq(EventType)
    BY <1>3, <1>5, SharedTyped DEF IInv, Events
  <2>2. drain' = [drain EXCEPT !.pc = "saved", !.batch = <<>>, !.todo = t]
    BY <1>5 DEF RenameSettled, NoEvents
  <2> HIDE DEF t
  <2>3. drain' \in Drains /\ drain'.pc = "saved" /\ drain'.items = <<>>
    BY <1>3, <2>1, <2>2, EmptySeq DEF Drains, Places
  <2> QED
    BY <2>3, NoBatch DEF DrainOK
<1> QED
  BY <1>1, <1>2, <1>4, <1>5

\* The index has taken the move of the rename that runs.
LEMMA ToMoveSteps ==
  ASSUME IInv, drain.pc = "rename", drain' = ToMove(Running), NEW old,
         <<Running.path, Running.target, old>> \in moving'
  PROVE  DrainOK' /\ Batches' /\ SentOnDisk'
<1> DEFINE e == Running
           c == Captured(e)
<1>1. e \in EventType /\ vault[e.target] \in Content
  BY RenameSteps
<1>2. c \in EventType /\ c.path = e.path /\ c.target = e.target
  BY <1>1, Updated, EventFields DEF Captured, EventType
<1>3. drain' = [drain EXCEPT !.pc = "move", !.batch = <<c>>]
  BY DEF ToMove
<1>4. <<e.path, e.target, old>> \in moving'
  OBVIOUS
<1> HIDE DEF c, e
<1>5. /\ drain' \in Drains /\ drain'.pc = "move" /\ drain'.items = drain.items
      /\ drain'.batch = <<c>>
  <2>1. <<c>> \in Seq(EventType)
    BY <1>2
  <2> QED
    BY <1>3, <2>1 DEF IInv, DrainOK, Drains, Places
<1>6. Batches'
  <2>1. Running' = c
    BY <1>5 DEF Running
  <2>2. \E m \in moving' : m[1] = c.path /\ m[2] = c.target
    BY <1>2, <1>4
  <2> QED
    BY <1>5, <2>1, <2>2 DEF Batches, MoveOf
<1>7. SentOnDisk'
  BY <1>5 DEF IInv, SentOnDisk
<1> QED
  BY <1>5, <1>6, <1>7 DEF DrainOK

LEMMA FirstSuccessor ==
  ASSUME IInv, NEW e, Successor(queue, e) # {}
  PROVE  First(Successor(queue, e)) \in DOMAIN queue
<1> DEFINE S == Successor(queue, e)
<1>1. S \in SUBSET DOMAIN queue /\ S # {} /\ Good(queue, used.event)
  BY DEF Successor, IInv, Events
<1> HIDE DEF S
<1>2. First(S) \in S
  BY <1>1, FirstPlace DEF First
<1> QED
  BY <1>1, <1>2 DEF S

LEMMA Acknowledged ==
  ASSUME IInv, drain.pc \in {"rename", "move"}, NEW r \in Nat, Acknowledge(Running, r),
         UNCHANGED <<late, handed, used, debounce, ready, timer, again>>
  PROVE  Events' /\ Timers' /\ DrainOK' /\ Batches' /\ SentOnDisk'
<1> DEFINE e == Running
           S == Successor(queue, e)
           i == First(S)
           q == IF S = {} THEN queue ELSE [queue EXCEPT ![i].rev = r]
<1>1. Queue(Without(q, {e.id})) /\ drain' = RenameSettled(q)
  BY DEF Acknowledge, Drain
<1>2. Good(queue, used.event)
  BY DEF IInv, Events
<1>3. Good(q, used.event) /\ DOMAIN q = DOMAIN queue
  <2>1. CASE S = {}
    BY <1>2, <2>1
  <2>2. CASE S # {}
    <3> DEFINE f == [queue[i] EXCEPT !.rev = r]
    <3>1. i \in DOMAIN queue
      BY <2>2, FirstSuccessor
    <3>2. queue[i] \in EventType
      BY <1>2, <3>1, ElementGood
    <3>3. q = [queue EXCEPT ![i] = f]
      BY <2>2
    <3> HIDE DEF i
    <3>4. f \in EventType /\ f.id = queue[i].id
      BY <3>2 DEF EventType
    <3> HIDE DEF f, q
    <3> QED
      BY <1>2, <3>1, <3>3, <3>4, ExceptGood
  <2> QED
    BY <2>1, <2>2
<1> HIDE DEF q
<1>4. Good(queue', used.event) /\ failed' \in BOOLEAN
  BY <1>1, <1>3, WithoutGood DEF Queue
<1>5. Events' /\ Timers'
  BY <1>4 DEF IInv, Events, Timers
<1> QED
  BY <1>1, <1>3, <1>5, RenameSteps

\* A save that takes the queue as it is.
LEMMA SavedNow ==
  ASSUME IInv, used'.event = used.event, NEW b \in [Paths -> EntryType], NEW pu \in PutType,
         NEW mo \in SUBSET (Paths \X Paths), NEW de \in SUBSET Paths,
         saved' = Data(queue, b, pu, mo, de)
  PROVE  SavedOK'
<1>1. Good(queue, used.event) /\ late \subseteq Id /\ handed \subseteq Id
  BY DEF IInv, Events
<1> QED
  BY <1>1, DataSaved DEF SavedOK

LEMMA TargetMissingKeeps ==
  ASSUME IInv, TargetMissing
  PROVE  IInv'
<1> DEFINE e == Running
           S == Successor(queue, e)
           i == First(S)
<1>1. /\ UNCHANGED <<vault, canon, changed, rev, disk, moving, base, put, moves, dels,
                     applied, debounce, ready, timer, again, late, handed, saved, used,
                     gone, copies>>
      /\ drain.pc = "rename"
  BY DEF TargetMissing, remote, index
<1>2. e \in EventType /\ e.path \in Paths /\ e.rev \in Nat /\ e.id \in Id
  BY <1>1, RenameSteps
<1>3. /\ Good(queue', used.event) /\ failed' \in BOOLEAN
      /\ full' \in {full, [full EXCEPT !.cand = @ \cup {e.id}]}
      /\ \/ drain' = RenameRetried
         \/ \E q : /\ Good(q, used.event) /\ DOMAIN q = DOMAIN queue
                   /\ drain' = RenameSettled(q)
  <2>1. Good(queue, used.event) /\ failed \in BOOLEAN
    BY DEF IInv, Events, Timers
  <2>2. CASE S = {}
    BY <2>1, <2>2 DEF TargetMissing, Drain
  <2>3. CASE S # {}
    <3> DEFINE f == [queue[i] EXCEPT !.path = e.path, !.rev = e.rev]
               q == [queue EXCEPT ![i].path = e.path, ![i].rev = e.rev]
    <3>1. Queue(Without(q, {e.id})) /\ drain' = RenameSettled(q) /\ full' = full
      BY <2>3 DEF TargetMissing, Drain
    <3>2. i \in DOMAIN queue
      BY <2>3, FirstSuccessor
    <3>3. queue[i] \in EventType
      BY <2>1, <3>2, ElementGood
    <3> HIDE DEF i, e
    <3>4. q = [queue EXCEPT ![i] = f]
      BY <3>2
    <3>5. f \in EventType /\ f.id = queue[i].id
      BY <1>2, <3>3 DEF EventType
    <3> HIDE DEF f, q
    <3>6. Good(q, used.event) /\ DOMAIN q = DOMAIN queue
      BY <2>1, <3>2, <3>4, <3>5, ExceptGood
    <3>7. Good(queue', used.event) /\ failed' \in BOOLEAN
      BY <3>1, <3>6, WithoutGood DEF Queue
    <3> QED
      BY <3>1, <3>6, <3>7
  <2> QED
    BY <2>2, <2>3
<1> HIDE DEF e
<1>4. Events' /\ Timers' /\ World' /\ Pending' /\ IndexHasFile'
  BY <1>1, <1>3 DEF IInv, Events, Timers, World, Pending, IndexHasFile
<1>5. DrainOK' /\ Batches' /\ SentOnDisk'
  BY <1>1, <1>3, RenameSteps
<1>6. full' \in Fulls /\ full'.pc = full.pc
  <2> DEFINE n == full.cand \cup {e.id}
  <2>1. full \in Fulls
    BY DEF IInv, FullOK
  <2>2. n \in SUBSET Id
    BY <1>2, <2>1 DEF Fulls
  <2>3. full' \in {full, [full EXCEPT !.cand = n]}
    BY <1>3
  <2> HIDE DEF n
  <2> QED
    BY <2>1, <2>2, <2>3 DEF Fulls
<1>7. FullOK' /\ Exclusive'
  BY <1>1, <1>6 DEF IInv, FullOK, Exclusive
<1>8. SavedOK'
  BY <1>1, SavedLater
<1> QED
  BY <1>4, <1>5, <1>7, <1>8 DEF IInv

LEMMA RenameAppliedKeeps ==
  ASSUME IInv, RenameApplied
  PROVE  IInv'
<1> DEFINE e == Running
           b == [[base EXCEPT ![e.path] = Nil] EXCEPT ![e.target] = vault[e.target]]
<1>1. /\ UNCHANGED <<vault, canon, changed, rev, disk, moving, put, moves, dels, applied,
                     debounce, ready, timer, again, late, handed, full, used, gone, copies>>
      /\ drain.pc = "rename" /\ base' = b /\ Acknowledge(Running, rev)
      /\ saved' = Data(queue, base', put, moves, dels)
  BY DEF RenameApplied, remote
<1>2. b \in [Paths -> EntryType]
  BY <1>1, RenameSteps, Numbers DEF IInv, World
<1> HIDE DEF b, e
<1>3. World' /\ Pending' /\ IndexHasFile'
  BY <1>1, <1>2 DEF IInv, World, Pending, IndexHasFile
<1>4. Events' /\ Timers' /\ DrainOK' /\ Batches' /\ SentOnDisk'
  BY <1>1, Acknowledged DEF IInv, World
<1>5. SavedOK'
  BY <1>1, <1>2, SavedNow DEF IInv, Pending
<1> QED
  BY <1>1, <1>3, <1>4, <1>5, Draining DEF IInv

LEMMA StagedTyped ==
  ASSUME IInv, drain.pc \in {"rename", "move"}
  PROVE  Staged(Running) \in [Paths -> EntryType]
  BY RenameSteps, Numbers DEF Staged, IInv, World

LEMMA RenameCommitsKeeps ==
  ASSUME IInv, RenameCommits
  PROVE  IInv'
<1> DEFINE e == Running
           s == e.path
           t == e.target
           v == vault[t]
           old == IF put[s] = NoPut THEN canon[s] ELSE disk[s]
<1>1. /\ UNCHANGED <<vault, disk, dels, queue, debounce, ready, timer, again, late, handed,
                     full, failed, used, gone, copies>>
      /\ drain.pc = "rename" /\ v # Nil
      /\ rev' = rev + 1
      /\ canon' = [[canon EXCEPT ![s] = Dead] EXCEPT ![t] = v]
      /\ changed' = [[changed EXCEPT ![s] = rev'] EXCEPT ![t] = rev']
      /\ base' = Staged(e)
      /\ moving' = moving \cup {<<s, t, old>>}
      /\ moves' = moves \ {<<s, t>>}
      /\ applied' = applied \cup ({put[s].id} \ {NoId})
      /\ put' = [put EXCEPT ![s] = NoPut]
      /\ saved' = Data(queue, base', put, moves \cup {<<s, t>>}, dels)
      /\ drain' = ToMove(e)
  BY DEF RenameCommits, GoesOn, watcher, Drain
<1>2. s \in Paths /\ t \in Paths /\ v \in Content
  BY <1>1, RenameSteps
<1>3. base' \in [Paths -> EntryType]
  BY <1>1, StagedTyped
<1>4. old \in EntryType
  BY <1>2, Numbers DEF IInv, World
<1>5. DrainOK' /\ Batches' /\ SentOnDisk'
  <2>1. <<Running.path, Running.target, old>> \in moving'
    BY <1>1
  <2> QED
    BY <1>1, <2>1, ToMoveSteps
<1> HIDE DEF e, s, t, v, old
<1>6. World'
  <2>1. rev \in Nat /\ changed \in [Paths -> 0 .. rev] /\ rev' \in Nat
    BY <1>1 DEF IInv, World
  <2>2. changed' \in [Paths -> 0 .. rev']
    BY <1>1, <1>2, <2>1
  <2>3. canon' \in [Paths -> EntryType]
    BY <1>1, <1>2, Numbers DEF IInv, World
  <2> QED
    BY <1>1, <1>3, <2>1, <2>2, <2>3 DEF IInv, World
<1>7. Pending'
  <2>1. put' \in PutType /\ applied' \subseteq Id
    BY <1>1, <1>2, PutTypes DEF IInv, Pending
  <2> QED
    BY <1>1, <1>2, <1>4, <2>1 DEF IInv, Pending
<1>8. Events' /\ Timers'
  BY <1>1 DEF IInv, Events, Timers
<1>9. IndexHasFile'
  <2>1. \A p \in Paths : canon'[p] > Nil => p = t \/ canon[p] > Nil
    BY <1>1, <1>2, Numbers DEF IInv, World
  <2>2. <<s, t, old>> \in moving' /\ moving \subseteq moving'
    BY <1>1
  <2>3. disk' = disk
    BY <1>1
  <2>4. <<s, t, old>>[2] = t
    OBVIOUS
  <2> QED
    BY <2>1, <2>2, <2>3, <2>4 DEF IInv, IndexHasFile
<1>10. SavedOK'
  <2>1. moves \cup {<<s, t>>} \in SUBSET (Paths \X Paths)
    BY <1>2 DEF IInv, Pending
  <2> QED
    BY <1>1, <1>3, <2>1, SavedNow DEF IInv, Pending
<1> QED
  BY <1>1, <1>5, <1>6, <1>7, <1>8, <1>9, <1>10, Draining DEF IInv

LEMMA RenameCommitFailsKeeps ==
  ASSUME IInv, RenameCommitFails
  PROVE  IInv'
<1> DEFINE e == Running
           n == moves \cup {<<e.path, e.target>>}
<1>1. /\ UNCHANGED <<vault, canon, changed, rev, disk, moving, put, dels, applied, queue,
                     debounce, ready, timer, again, late, handed, full, failed, gone,
                     copies>>
      /\ drain.pc = "rename" /\ Fault
      /\ moves' = n /\ base' = Staged(e)
      /\ saved' = Data(queue, base', put, moves', dels)
      /\ drain' = RenameRetried
  BY DEF RenameCommitFails, remote, watcher, Drain
<1>2. n \in SUBSET (Paths \X Paths)
  BY <1>1, RenameSteps DEF IInv, Pending
<1>3. base' \in [Paths -> EntryType]
  BY <1>1, StagedTyped
<1>4. used' \in Counters /\ used'.event = used.event
  BY <1>1, Counted DEF IInv, Events, Counters
<1> HIDE DEF e, n
<1>5. World' /\ Pending' /\ IndexHasFile'
  BY <1>1, <1>2, <1>3 DEF IInv, World, Pending, IndexHasFile
<1>6. Events' /\ Timers'
  BY <1>1, <1>4 DEF IInv, Events, Timers, Counters
<1>7. DrainOK' /\ Batches' /\ SentOnDisk'
  BY <1>1, RenameSteps
<1>8. SavedOK'
  BY <1>1, <1>2, <1>3, <1>4, SavedNow DEF IInv, Pending
<1> QED
  BY <1>1, <1>5, <1>6, <1>7, <1>8, Draining DEF IInv

\* A move leaves every file the index calls live on the disk, its target included.
LEMMA MovedKeeps ==
  ASSUME World, NEW m \in Paths \X Paths \X EntryType
  PROVE  /\ Moved(m) \in [Paths -> Content]
         /\ \A p \in Paths : canon[p] > Nil /\ (disk[p] # Nil \/ p = m[2])
                               => Moved(m)[p] # Nil
<1>1. m[1] \in Paths /\ m[2] \in Paths
  OBVIOUS
<1>2. CASE canon[m[2]] = Dead
  BY <1>1, <1>2, Numbers DEF Moved, World
<1>3. CASE canon[m[2]] # Dead
  <2>1. canon[m[2]] \in Content
    BY <1>1, <1>3, Numbers DEF World
  <2>2. Moved(m) = [p \in Paths |-> IF p = m[2] THEN canon[m[2]]
                      ELSE IF p = m[1] /\ canon[m[1]] = Dead THEN Nil ELSE disk[p]]
    BY <1>3 DEF Moved
  <2>3. Moved(m) \in [Paths -> Content]
    BY <2>1, <2>2, Numbers DEF World
  <2>4. \A p \in Paths : canon[p] > Nil /\ (disk[p] # Nil \/ p = m[2]) => Moved(m)[p] # Nil
    BY <1>1, <2>2, Numbers DEF World
  <2> QED
    BY <2>3, <2>4
<1> QED
  BY <1>2, <1>3

LEMMA MoveOfRunning ==
  ASSUME IInv, drain.pc = "move", NEW m, m = CHOOSE x \in MoveOf(Running) : TRUE
  PROVE  /\ m \in moving /\ m \in Paths \X Paths \X EntryType
         /\ \A x \in MoveOf(Running) : x[2] = m[2]
<1>1. m \in MoveOf(Running)
  BY DEF IInv, Batches
<1> QED
  BY <1>1 DEF MoveOf, IInv, Pending

LEMMA MoveKeeps ==
  ASSUME IInv, Move
  PROVE  IInv'
<1> DEFINE e == Running
           m == CHOOSE x \in MoveOf(e) : TRUE
<1>1. /\ UNCHANGED <<vault, canon, changed, base, put, moves, dels, applied, debounce, ready,
                     timer, again, late, handed, full, used, gone, copies>>
      /\ drain.pc = "move" /\ disk' = Moved(m)
      /\ moving' = moving \ MoveOf(e) /\ rev' = rev + 1
      /\ Acknowledge(Running, rev')
      /\ saved' = Data(queue, base, put, moves, dels)
  BY DEF Move, index
<1>2. /\ m \in moving /\ m \in Paths \X Paths \X EntryType
      /\ \A x \in MoveOf(e) : x[2] = m[2]
  BY <1>1, MoveOfRunning
<1> HIDE DEF m, e
<1>3. /\ disk' \in [Paths -> Content]
      /\ \A p \in Paths : canon[p] > Nil /\ (disk[p] # Nil \/ p = m[2]) => disk'[p] # Nil
  BY <1>1, <1>2, MovedKeeps DEF IInv
<1>4. rev' \in Nat
  BY <1>1 DEF IInv, World
<1>5. World' /\ Pending'
  BY <1>1, <1>3, <1>4 DEF IInv, World, Pending
<1>6. IndexHasFile'
  <2> SUFFICES ASSUME NEW p \in Paths, canon[p] > Nil, disk'[p] = Nil
               PROVE  \E x \in moving' : x[2] = p
    BY <1>1 DEF IndexHasFile
  <2>1. disk[p] = Nil /\ p # m[2]
    BY <1>3
  <2>2. PICK x \in moving : x[2] = p
    BY <2>1 DEF IInv, IndexHasFile
  <2>3. x \notin MoveOf(e)
    BY <1>2, <2>1, <2>2
  <2> QED
    BY <1>1, <2>2, <2>3
<1>7. Events' /\ Timers' /\ DrainOK' /\ Batches' /\ SentOnDisk'
  BY <1>1, <1>4, Acknowledged
<1>8. SavedOK'
  BY <1>1, SavedNow DEF IInv, World, Pending
<1> QED
  BY <1>1, <1>5, <1>6, <1>7, <1>8, Draining DEF IInv

LEMMA MoveFailsKeeps ==
  ASSUME IInv, MoveFails
  PROVE  IInv'
<1> DEFINE e == Running
           m == CHOOSE x \in MoveOf(e) : TRUE
<1>1. /\ UNCHANGED <<vault, canon, changed, rev, moving, base, put, moves, dels, applied,
                     queue, debounce, ready, timer, again, late, handed, full, saved,
                     failed, gone, copies>>
      /\ drain.pc = "move" /\ Fault /\ disk' \in {disk, Moved(m)}
      /\ drain' = RenameRetried
  BY DEF MoveFails, index, watcher, Drain
<1>2. m \in Paths \X Paths \X EntryType
  BY <1>1, MoveOfRunning
<1>3. used' \in Counters /\ used'.event = used.event
  BY <1>1, Counted DEF IInv, Events, Counters
<1> HIDE DEF m, e
<1>4. /\ disk' \in [Paths -> Content]
      /\ \A p \in Paths : canon[p] > Nil /\ disk[p] # Nil => disk'[p] # Nil
  BY <1>1, <1>2, MovedKeeps DEF IInv, World
<1>5. World' /\ Pending' /\ IndexHasFile'
  BY <1>1, <1>4 DEF IInv, World, Pending, IndexHasFile
<1>6. Events' /\ Timers'
  BY <1>1, <1>3 DEF IInv, Events, Timers, Counters
<1>7. DrainOK' /\ Batches' /\ SentOnDisk'
  BY <1>1, RenameSteps
<1>8. SavedOK'
  BY <1>1, <1>3, SavedLater
<1> QED
  BY <1>1, <1>5, <1>6, <1>7, <1>8, Draining DEF IInv

LEMMA RetargetedTyped ==
  ASSUME IInv, drain.pc = "rename"
  PROVE  Retargeted(Running) \in PutType
<1> DEFINE e == Running
           id == IF put[e.path] # NoPut THEN put[e.path].id
                 ELSE IF put[e.target] # NoPut THEN put[e.target].id ELSE e.id
<1>1. /\ e.path \in Paths /\ e.target \in Paths /\ e.id \in Id
      /\ vault[e.target] \in Content /\ put \in PutType
  BY RenameSteps DEF IInv, Pending
<1>2. id \in Id
  BY <1>1, PutTypes
<1>3. [put EXCEPT ![e.path] = NoPut] \in PutType
  BY <1>1, PutTypes
<1>4. Retargeted(e) = [[put EXCEPT ![e.path] = NoPut]
                         EXCEPT ![e.target] = [id |-> id, v |-> vault[e.target]]]
  BY DEF Retargeted
<1> HIDE DEF e, id
<1>5. Retargeted(e) \in PutType
  BY <1>1, <1>2, <1>3, <1>4 DEF PutType
<1> QED
  BY <1>5 DEF e

LEMMA RenamePutsKeeps ==
  ASSUME IInv, RenamePuts
  PROVE  IInv'
<1> DEFINE e == Running
           s == e.path
           t == e.target
           v == vault[t]
           R == Retargeted(e)
<1>1. /\ UNCHANGED <<vault, moving, moves, dels, debounce, ready, timer, again, late, handed,
                     full, used, gone, copies>>
      /\ drain.pc = "rename" /\ v # Nil
      /\ rev' = rev + 1
      /\ canon' = [canon EXCEPT ![t] = v]
      /\ changed' = [changed EXCEPT ![t] = rev']
      /\ base' = [[base EXCEPT ![s] = Nil] EXCEPT ![t] = v]
      /\ disk' = [p \in Paths |->
           IF p = t THEN vault[p]
           ELSE IF p = s /\ put[p] # NoPut /\ disk[p] = put[p].v /\ canon[p] = Nil
                THEN Nil ELSE disk[p]]
      /\ applied' = applied \cup {R[t].id}
      /\ put' = [R EXCEPT ![t] = NoPut]
      /\ Acknowledge(Running, rev')
      /\ saved' = Data(queue, base', put', moves, dels)
  BY DEF RenamePuts, PutTarget, GoesOn
<1>2. s \in Paths /\ t \in Paths /\ v \in Content /\ v = vault[t]
  BY <1>1, RenameSteps
<1>3. R \in PutType
  BY <1>1, RetargetedTyped
<1> HIDE DEF e, s, t, v, R
<1>4. rev \in Nat /\ changed \in [Paths -> 0 .. rev] /\ rev' \in Nat
  BY <1>1 DEF IInv, World
<1>5. World'
  <2>1. changed' \in [Paths -> 0 .. rev']
    BY <1>1, <1>2, <1>4
  <2>2. canon' \in [Paths -> EntryType] /\ base' \in [Paths -> EntryType]
    BY <1>1, <1>2, Numbers DEF IInv, World
  <2>3. disk' \in [Paths -> Content]
    BY <1>1, <1>2, Numbers DEF IInv, World
  <2> QED
    BY <1>1, <1>4, <2>1, <2>2, <2>3 DEF IInv, World
<1>6. put' \in PutType /\ R[t].id \in Id
  <2>1. R[t].id \in Id
    BY <1>2, <1>3 DEF PutType
  <2>2. NoPut \in [id : Id, v : Content]
    BY PutTypes DEF IInv, Pending
  <2>3. put' \in PutType
    BY <1>1, <1>3, <2>2 DEF PutType
  <2> QED
    BY <2>1, <2>3
<1>7. Pending'
  BY <1>1, <1>6 DEF IInv, Pending
<1>8. IndexHasFile'
  <2>1. \A p \in Paths \ {t} : canon'[p] = canon[p] /\ (canon[p] # Nil => disk'[p] = disk[p])
    BY <1>1, <1>2 DEF IInv, World
  <2>2. disk'[t] # Nil
    BY <1>1, <1>2
  <2>3. \A p \in Paths : canon[p] > Nil => canon[p] # Nil
    BY Numbers DEF IInv, World
  <2>4. moving' = moving
    BY <1>1
  <2> QED
    BY <2>1, <2>2, <2>3, <2>4 DEF IInv, IndexHasFile
<1>9. Events' /\ Timers' /\ DrainOK' /\ Batches' /\ SentOnDisk'
  BY <1>1, <1>4, Acknowledged
<1>10. SavedOK'
  BY <1>1, <1>5, <1>6, SavedNow DEF IInv, World, Pending
<1> QED
  BY <1>1, <1>5, <1>7, <1>8, <1>9, <1>10, Draining DEF IInv

LEMMA RenamePutFailsKeeps ==
  ASSUME IInv, RenamePutFails
  PROVE  IInv'
<1> DEFINE e == Running
           s == e.path
           t == e.target
           v == vault[t]
<1>1. /\ UNCHANGED <<vault, canon, changed, rev, moving, moves, dels, applied, queue,
                     debounce, ready, timer, again, late, handed, full, failed, gone,
                     copies>>
      /\ drain.pc = "rename" /\ v # Nil /\ Fault
      /\ disk' \in {disk, [disk EXCEPT ![t] = v]}
      /\ put' = Retargeted(e) /\ base' = [base EXCEPT ![s] = Nil]
      /\ drain' = RenameRetried
      /\ saved' = Data(queue, base', put', moves, dels)
  BY DEF RenamePutFails, PutTarget, GoesOn, watcher, Drain
<1>2. s \in Paths /\ t \in Paths /\ v \in Content
  BY <1>1, RenameSteps
<1>3. put' \in PutType
  BY <1>1, RetargetedTyped
<1>4. used' \in Counters /\ used'.event = used.event
  BY <1>1, Counted DEF IInv, Events, Counters
<1> HIDE DEF e, s, t, v
<1>5. base' \in [Paths -> EntryType]
  BY <1>1, <1>2, Numbers DEF IInv, World
<1>6. disk' \in [Paths -> Content] /\ \A p \in Paths : disk[p] # Nil => disk'[p] # Nil
  BY <1>1, <1>2 DEF IInv, World
<1>7. World' /\ Pending' /\ IndexHasFile'
  BY <1>1, <1>3, <1>5, <1>6 DEF IInv, World, Pending, IndexHasFile
<1>8. Events' /\ Timers'
  BY <1>1, <1>4 DEF IInv, Events, Timers, Counters
<1>9. DrainOK' /\ Batches' /\ SentOnDisk'
  BY <1>1, RenameSteps
<1>10. SavedOK'
  BY <1>1, <1>3, <1>4, <1>5, SavedNow DEF IInv, Pending
<1> QED
  BY <1>1, <1>7, <1>8, <1>9, <1>10, Draining DEF IInv

-----------------------------------------------------------------------------
(* The full session. *)

LEMMA DecideIsAction ==
  ASSUME NEW l \in Content, NEW r \in Content, NEW b \in EntryType, NEW c \in EntryType
  PROVE  Decide(l, r, b, c) \in Actions
<1> DEFINE x == Entry(b)
           y == Entry(c)
<1>1. Plan!UnderTombstone(l, r, x, FALSE) \in Actions
  BY DEF Plan!UnderTombstone, Plan!Live, Plan!Dead, Actions
<1>2. Plan!Compare(l, r, r, x, y) \in Actions
  BY DEF Plan!Compare, Actions
<1> HIDE DEF x, y
<1>3. Plan!Decide(l, r, r, x, y, FALSE) \in Actions
  BY <1>1, <1>2 DEF Plan!Decide, Plan!Dead, Actions
<1> QED
  BY <1>3 DEF Decide, x, y

LEMMA QueueIds ==
  ASSUME NEW q, NEW n, Good(q, n)
  PROVE  /\ IdsOf(q) \subseteq Id
         /\ \A e \in ToSet(q) : e \in EventType
<1>1. \A i \in DOMAIN q : q[i] \in EventType /\ q[i].id \in Id
  BY ElementGood, EventFields
<1> QED
  BY <1>1 DEF IdsOf, ToSet

LEMMA FullPreparesKeeps ==
  ASSUME IInv, NEW startup \in BOOLEAN, FullPrepares(startup)
  PROVE  IInv'
<1> DEFINE cutoff == IdsOf(queue)
           chain == UNION {{e.id, e.pred} : e \in
                      {x \in ToSet(queue) : x.act = "rename" /\ x.pred # NoId}}
           ups == {e.id : e \in {x \in ToSet(queue) : x.act = "upload"}} \ chain
<1>1. /\ Still /\ UNCHANGED <<again, drain, saved, failed, used>> /\ NoTimers
      /\ full' = [NoFull EXCEPT !.pc = "prepare", !.startup = startup, !.cutoff = cutoff,
                    !.chain = chain, !.uploads = ups]
  BY DEF FullPrepares, Still, remote, index, IdsWhere
<1>2. \A e \in ToSet(queue) : e.id \in Id /\ e.pred \in Id
  BY QueueIds, EventFields DEF IInv, Events
<1>3. cutoff \in SUBSET Id /\ chain \in SUBSET Id /\ ups \in SUBSET Id
  BY <1>2, QueueIds DEF IInv, Events
<1> HIDE DEF cutoff, chain, ups
<1>4. full' \in Fulls /\ full'.pc = "prepare"
  BY <1>1, <1>3, EmptyRecords DEF Fulls
<1>5. FullOK' /\ Exclusive'
  BY <1>4 DEF FullOK, Exclusive
<1>6. Timers'
  BY <1>1, EmptyRecords DEF IInv, Timers, NoTimers
<1>7. used' \in Counters /\ used'.event = used.event
  BY <1>1 DEF IInv, Events, Counters
<1> QED
  BY <1>1, <1>5, <1>6, <1>7, StillKeeps DEF IInv

LEMMA FullDrainsKeeps ==
  ASSUME IInv, FullDrains
  PROVE  IInv'
<1>1. /\ Still
      /\ UNCHANGED <<debounce, ready, timer, again, saved, failed, used>>
      /\ full' = [full EXCEPT !.pc = "drain"]
      /\ \/ drain' = [NoDrain EXCEPT !.pc = "wait", !.only = Destructive]
         \/ UNCHANGED drain
  BY DEF FullDrains, Still, remote, index, watcher, StartDrain, Drain
<1>2. full' \in Fulls /\ full'.pc = "drain"
  BY <1>1 DEF IInv, FullOK, Fulls
<1>3. FullOK' /\ Exclusive'
  BY <1>2 DEF FullOK, Exclusive
<1>4. used' \in Counters /\ used'.event = used.event
  BY <1>1 DEF IInv, Events, Counters
<1>5. DrainOK' /\ Batches' /\ SentOnDisk'
  <2>1. CASE UNCHANGED drain
    BY <1>1, <1>4, <2>1, StillKeeps
  <2>2. CASE drain' = [NoDrain EXCEPT !.pc = "wait", !.only = Destructive]
    <3>1. Destructive \in SUBSET Id
      BY DEF Destructive, IInv, FullOK, Fulls
    <3>2. drain' \in Drains /\ drain'.pc = "wait" /\ drain'.items = <<>>
      BY <2>2, <3>1, EmptyRecords DEF NoDrain, NoEvents
    <3> QED
      BY <3>2, NoBatch DEF DrainOK
  <2> QED
    BY <1>1, <2>1, <2>2
<1>6. Timers'
  BY <1>1 DEF IInv, Timers
<1> QED
  BY <1>1, <1>3, <1>4, <1>5, <1>6, StillKeeps DEF IInv

\* The session is given up and nothing else happens.
LEMMA RefusedKeeps ==
  ASSUME IInv, Still, full' = NoFull, used' \in Counters, used'.event = used.event,
         UNCHANGED <<debounce, ready, timer, again, drain, saved, failed>>
  PROVE  IInv'
<1>1. full' \in Fulls /\ full'.pc = "idle"
  BY EmptyRecords DEF NoFull
<1>2. FullOK' /\ Exclusive'
  BY <1>1 DEF FullOK, Exclusive
<1> QED
  BY <1>2, StillKeeps DEF IInv

LEMMA FullEntersKeeps ==
  ASSUME IInv, FullEnters
  PROVE  IInv'
<1> DEFINE sig == {<<e.id, Signature(e)>> : e \in ToSet(queue)}
<1>1. /\ Still /\ UNCHANGED <<again, drain, saved, failed, used>> /\ drain.pc = "idle"
      /\ \/ full' = NoFull /\ UNCHANGED <<debounce, ready, timer>>
         \/ full' = [full EXCEPT !.pc = "scan", !.sig = sig] /\ NoTimers
  BY DEF FullEnters, Still, remote, index, FullRefused
<1>2. used' \in Counters /\ used'.event = used.event
  BY <1>1 DEF IInv, Events, Counters
<1>3. CASE full' = NoFull /\ UNCHANGED <<debounce, ready, timer>>
  BY <1>1, <1>2, <1>3, RefusedKeeps
<1>4. CASE full' = [full EXCEPT !.pc = "scan", !.sig = sig] /\ NoTimers
  <2>1. \A e \in ToSet(queue) : <<e.id, Signature(e)>> \in Id \X Signatures
    BY QueueIds, EventFields DEF IInv, Events, Signature, Signatures
  <2>2. sig \in SUBSET (Id \X Signatures)
    BY <2>1
  <2> HIDE DEF sig
  <2>3. full' \in Fulls
    BY <1>4, <2>2 DEF IInv, FullOK, Fulls
  <2>4. Timers' /\ debounce' = NoTimer /\ timer' = FALSE
    BY <1>1, <1>4, EmptyRecords DEF IInv, Timers, NoTimers
  <2>5. FullOK' /\ Exclusive'
    BY <1>1, <2>3, <2>4 DEF FullOK, Exclusive
  <2> QED
    BY <1>1, <1>2, <2>4, <2>5, StillKeeps DEF IInv
<1> QED
  BY <1>1, <1>3, <1>4

LEMMA FullFailsKeeps ==
  ASSUME IInv, FullFails
  PROVE  IInv'
<1>1. /\ Still /\ full' = NoFull
      /\ UNCHANGED <<debounce, ready, timer, again, drain, saved, failed, used>>
  BY DEF FullFails, FullRefused, Still, remote, index, watcher
<1>2. used' \in Counters /\ used'.event = used.event
  BY <1>1 DEF IInv, Events, Counters
<1> QED
  BY <1>1, <1>2, RefusedKeeps

LEMMA FullAbortsKeeps ==
  ASSUME IInv, FullAborts
  PROVE  IInv'
<1>1. /\ Still /\ full' = NoFull /\ Fault
      /\ UNCHANGED <<debounce, ready, timer, again, drain, saved, failed>>
  BY DEF FullAborts, Still, remote, index, watcher
<1>2. used' \in Counters /\ used'.event = used.event
  BY <1>1, Counted DEF IInv, Events, Counters
<1> QED
  BY <1>1, <1>2, RefusedKeeps

\* The moves a session resumes bring every file they promise.
LEMMA ResumedKeeps ==
  ASSUME World, Pending
  PROVE  /\ Resumed \in [Paths -> Content]
         /\ \A p \in Paths : canon[p] > Nil /\
              (disk[p] # Nil \/ \E m \in Resumable : m[2] = p) => Resumed[p] # Nil
<1> DEFINE M(p) == {m \in Resumable : canon[m[2]] # Dead /\ p \in {m[1], m[2]} /\
                                      Moved(m)[p] # disk[p]}
<1>1. Resumed = [p \in Paths |-> IF M(p) = {} THEN disk[p]
                                 ELSE Moved(CHOOSE m \in M(p) : TRUE)[p]]
  BY DEF Resumed
<1>2. \A m \in Resumable : m \in Paths \X Paths \X EntryType
  BY DEF Resumable, Pending
<1>3. \A m \in Resumable : Moved(m) \in [Paths -> Content]
  BY <1>2, MovedKeeps
<1>4. ASSUME NEW p \in Paths
      PROVE  /\ Resumed[p] \in Content
             /\ canon[p] > Nil /\ (disk[p] # Nil \/ \E m \in Resumable : m[2] = p)
                  => Resumed[p] # Nil
  <2>1. CASE M(p) = {}
    <3>1. Resumed[p] = disk[p]
      BY <1>1, <2>1
    <3>2. ASSUME canon[p] > Nil, NEW m \in Resumable, m[2] = p
          PROVE  disk[p] # Nil
      <4>1. Moved(m)[p] # Nil
        BY <1>2, <3>2, MovedKeeps
      <4>2. canon[m[2]] # Dead
        BY <3>2, Numbers DEF World
      <4> QED
        BY <2>1, <3>2, <4>1, <4>2
    <3> QED
      BY <3>1, <3>2 DEF World
  <2>2. CASE M(p) # {}
    <3> DEFINE m == CHOOSE x \in M(p) : TRUE
    <3>1. /\ m \in Resumable /\ canon[m[2]] # Dead /\ p \in {m[1], m[2]}
          /\ Moved(m)[p] # disk[p]
      BY <2>2
    <3>2. Resumed[p] = Moved(m)[p]
      BY <1>1, <2>2
    <3> HIDE DEF m, M
    <3>3. Moved(m)[p] \in Content
      BY <1>3, <3>1
    <3>4. canon[p] > Nil => p = m[2]
      <4>1. Moved(m) = [q \in Paths |-> IF q = m[2] THEN canon[m[2]]
              ELSE IF q = m[1] /\ canon[m[1]] = Dead THEN Nil ELSE disk[q]]
        BY <3>1 DEF Moved
      <4>2. canon[p] > Nil => canon[p] # Dead
        BY Numbers DEF World
      <4> QED
        BY <3>1, <4>1, <4>2
    <3> QED
      BY <1>2, <3>1, <3>2, <3>3, <3>4, MovedKeeps
  <2> QED
    BY <2>1, <2>2
<1>5. Resumed = [p \in Paths |-> Resumed[p]]
  BY DEF Resumed
<1> QED
  BY <1>4, <1>5

LEMMA FullScansKeeps ==
  ASSUME IInv, FullScans
  PROVE  IInv'
<1> DEFINE plan == [p \in Paths |->
                      Decide(vault[p], disk'[p], base'[p], Repeated(canon)[p])]
<1>1. /\ UNCHANGED <<vault, canon, changed, rev, put, moves, dels, applied, queue, debounce,
                     ready, timer, again, late, handed, drain, saved, failed, used, gone,
                     copies>>
      /\ full.pc = "scan" /\ disk' = Resumed /\ moving' = moving \ Resumable
      /\ base' = Repeated(base)
      /\ full' \in {NoFull, [full EXCEPT !.pc = "apply", !.scan = vault, !.todo = Paths,
                               !.plan = plan]}
  BY DEF FullScans, watcher
<1>2. drain.pc = "idle" /\ timer = FALSE /\ debounce = NoTimer
  BY <1>1 DEF IInv, Exclusive
<1>3. /\ disk' \in [Paths -> Content]
      /\ \A p \in Paths : canon[p] > Nil /\
           (disk[p] # Nil \/ \E m \in Resumable : m[2] = p) => disk'[p] # Nil
  BY <1>1, ResumedKeeps DEF IInv
<1>4. /\ vault \in [Paths -> Content] /\ base \in [Paths -> EntryType]
      /\ canon \in [Paths -> EntryType]
  BY DEF IInv, World
<1>5. base' \in [Paths -> EntryType] /\ Repeated(canon) \in [Paths -> EntryType]
  BY <1>1, <1>4, Numbers DEF Repeated
<1>6. plan \in [Paths -> Actions]
  BY <1>3, <1>4, <1>5, DecideIsAction
<1> HIDE DEF plan
<1>7. full' \in Fulls
  <2>1. full \in Fulls /\ NoFull \in Fulls
    BY EmptyRecords DEF IInv, FullOK
  <2>2. [full EXCEPT !.pc = "apply", !.scan = vault, !.todo = Paths, !.plan = plan] \in Fulls
    BY <1>4, <1>6, <2>1 DEF Fulls
  <2> QED
    BY <1>1, <2>1, <2>2
<1>8. World' /\ Pending'
  BY <1>1, <1>3, <1>5 DEF IInv, World, Pending
<1>9. IndexHasFile'
  <2> SUFFICES ASSUME NEW p \in Paths, canon[p] > Nil, disk'[p] = Nil
               PROVE  \E m \in moving' : m[2] = p
    BY <1>1 DEF IndexHasFile
  <2>1. disk[p] = Nil /\ \A m \in Resumable : m[2] # p
    BY <1>3
  <2>2. PICK m \in moving : m[2] = p
    BY <2>1 DEF IInv, IndexHasFile
  <2> QED
    BY <1>1, <2>1, <2>2
<1>10. Events' /\ Timers' /\ DrainOK' /\ FullOK' /\ Exclusive'
  BY <1>1, <1>2, <1>7 DEF IInv, Events, Timers, DrainOK, FullOK, Exclusive
<1>11. Batches' /\ SentOnDisk'
  <2>1. drain'.pc = "idle" /\ drain'.items = <<>>
    BY <1>1, <1>2 DEF IInv, SentOnDisk
  <2> QED
    BY <2>1, NoBatch
<1>12. SavedOK'
  BY <1>1, SavedLater
<1> QED
  BY <1>8, <1>9, <1>10, <1>11, <1>12 DEF IInv

LEMMA AdoptKeeps ==
  ASSUME IInv, NEW p \in Paths, NEW v \in EntryType, Adopt(p, v)
  PROVE  /\ canon' \in [Paths -> EntryType] /\ base' \in [Paths -> EntryType]
         /\ disk' \in [Paths -> Content]
         /\ rev' \in Nat /\ changed' \in [Paths -> 0 .. rev']
         /\ put' \in PutType /\ applied' \subseteq Id
         /\ \A q \in Paths : canon'[q] > Nil =>
              disk'[q] # Nil \/ (canon[q] > Nil /\ disk'[q] = disk[q])
<1> DEFINE w == IF v = Dead THEN Nil ELSE v
<1>1. /\ canon' = [canon EXCEPT ![p] = v] /\ base' = [base EXCEPT ![p] = v]
      /\ disk' = [disk EXCEPT ![p] = w]
      /\ rev' = IF canon[p] = v THEN rev ELSE rev + 1
      /\ changed' = [changed EXCEPT ![p] = IF canon[p] = v THEN changed[p] ELSE rev']
      /\ put' = [put EXCEPT ![p] = NoPut]
      /\ applied' = applied \cup ({put[p].id} \ {NoId})
  BY DEF Adopt
<1>2. w \in Content /\ (v > Nil => w # Nil)
  BY Numbers
<1> HIDE DEF w
<1>3. /\ canon \in [Paths -> EntryType] /\ base \in [Paths -> EntryType]
      /\ disk \in [Paths -> Content] /\ rev \in Nat /\ changed \in [Paths -> 0 .. rev]
      /\ put \in PutType /\ applied \subseteq Id
  BY DEF IInv, World, Pending
<1>4. rev' \in Nat /\ changed' \in [Paths -> 0 .. rev']
  <2>1. rev' \in Nat /\ rev <= rev'
    BY <1>1, <1>3
  <2>2. \A q \in Paths : changed[q] \in 0 .. rev'
    BY <1>3, <2>1
  <2> QED
    BY <1>1, <1>3, <2>1, <2>2
<1>5. put' \in PutType /\ applied' \subseteq Id
  BY <1>1, <1>3, PutTypes
<1>6. \A q \in Paths : canon'[q] > Nil =>
         disk'[q] # Nil \/ (canon[q] > Nil /\ disk'[q] = disk[q])
  BY <1>1, <1>2, <1>3
<1>7. /\ canon' \in [Paths -> EntryType] /\ base' \in [Paths -> EntryType]
      /\ disk' \in [Paths -> Content]
  BY <1>1, <1>2, <1>3
<1> QED
  BY <1>4, <1>5, <1>6, <1>7

LEMMA FullAppliesKeeps ==
  ASSUME IInv, NEW p \in Paths, FullApplies(p)
  PROVE  IInv'
<1> DEFINE act == full.plan[p]
           skip == Stale(p) \/ (act = "none" /\ vault[p] = Nil /\ p \notin dels)
<1>1. /\ UNCHANGED <<moving, moves, dels, queue, debounce, ready, timer, again, late, handed,
                     drain, failed, used, gone>>
      /\ full.pc = "apply" /\ full' = [full EXCEPT !.todo = @ \ {p}]
      /\ saved' = Data(saved.queue, base', put', moves, dels)
  BY DEF FullApplies, watcher
<1>2. drain.pc = "idle" /\ timer = FALSE /\ debounce = NoTimer
  BY <1>1 DEF IInv, Exclusive
<1>3. /\ act \in Actions /\ vault[p] \in Content /\ disk[p] \in Content
      /\ vault[p] \in EntryType /\ disk[p] \in EntryType
      /\ vault \in [Paths -> Content] /\ copies \subseteq Content
  BY Numbers DEF IInv, FullOK, Fulls, World, Pending
<1> DEFINE Goal == /\ canon' \in [Paths -> EntryType] /\ base' \in [Paths -> EntryType]
                   /\ disk' \in [Paths -> Content] /\ vault' \in [Paths -> Content]
                   /\ rev' \in Nat /\ changed' \in [Paths -> 0 .. rev']
                   /\ put' \in PutType /\ applied' \subseteq Id /\ copies' \subseteq Content
                   /\ \A q \in Paths : canon'[q] > Nil =>
                        disk'[q] # Nil \/ (canon[q] > Nil /\ disk'[q] = disk[q])
<1>4. ASSUME skip
      PROVE  Goal
  <2>1. UNCHANGED <<canon, base, disk, rev, changed, put, applied, vault, copies>>
    BY <1>4 DEF FullApplies, Stay
  <2> QED
    BY <2>1 DEF IInv, World, Pending
<1>5. ASSUME ~skip
      PROVE  Goal
  <2>1. /\ CASE act \in {"none", "upload"} ->
                  Adopt(p, IF vault[p] = Nil THEN Dead ELSE vault[p])
             [] act \in {"download", "conflict"} -> Adopt(p, disk[p])
             [] act \in {"delete_local", "delete_remote"} -> Adopt(p, Dead)
        /\ vault' = CASE act \in {"download", "conflict"} -> [vault EXCEPT ![p] = disk[p]]
                      [] act = "delete_local" -> [vault EXCEPT ![p] = Nil]
                      [] OTHER -> vault
        /\ copies' = IF KeepsCopy(act, p) THEN copies \cup ({vault[p]} \ {Nil}) ELSE copies
    BY <1>5 DEF FullApplies
  <2> HIDE DEF act, skip
  <2>2. \E v \in EntryType : Adopt(p, v)
    <3>1. CASE act \in {"none", "upload"}
      <4>1. Adopt(p, IF vault[p] = Nil THEN Dead ELSE vault[p])
        BY <2>1, <3>1
      <4>2. (IF vault[p] = Nil THEN Dead ELSE vault[p]) \in EntryType
        BY <1>3, Numbers
      <4> QED
        BY <4>1, <4>2
    <3>2. CASE act \in {"download", "conflict"}
      BY <1>3, <2>1, <3>2
    <3>3. CASE act \in {"delete_local", "delete_remote"}
      BY <2>1, <3>3, Numbers
    <3> QED
      BY <1>3, <3>1, <3>2, <3>3 DEF Actions
  <2>3. vault' \in [Paths -> Content] /\ copies' \subseteq Content
    BY <1>3, <2>1, Numbers
  <2> QED
    BY <2>2, <2>3, AdoptKeeps
<1>6. Goal
  BY <1>4, <1>5
<1>7. full' \in Fulls /\ full'.pc = full.pc
  <2> DEFINE n == full.todo \ {p}
  <2>1. n \in SUBSET Paths /\ full' = [full EXCEPT !.todo = n]
    BY <1>1 DEF IInv, FullOK, Fulls
  <2> HIDE DEF n
  <2> QED
    BY <2>1 DEF IInv, FullOK, Fulls
<1> HIDE DEF act, skip
<1>8. World' /\ Pending'
  BY <1>1, <1>6 DEF IInv, World, Pending
<1>9. IndexHasFile'
  BY <1>1, <1>6 DEF IInv, IndexHasFile
<1>10. Events' /\ Timers' /\ DrainOK' /\ FullOK' /\ Exclusive'
  BY <1>1, <1>2, <1>7 DEF IInv, Events, Timers, DrainOK, FullOK, Exclusive
<1>11. Batches' /\ SentOnDisk'
  <2>1. drain'.pc = "idle" /\ drain'.items = <<>>
    BY <1>1, <1>2 DEF IInv, SentOnDisk
  <2> QED
    BY <2>1, NoBatch
<1>12. SavedOK'
  <2>1. Good(saved.queue, used.event) /\ late \subseteq Id /\ handed \subseteq Id
    BY DEF IInv, SavedOK, Events
  <2> QED
    BY <1>1, <1>6, <2>1, DataSaved DEF IInv, Pending, SavedOK
<1> QED
  BY <1>8, <1>9, <1>10, <1>11, <1>12 DEF IInv

LEMMA FullEndsKeeps ==
  ASSUME IInv, FullEnds
  PROVE  IInv'
<1> DEFINE cand == {e \in ToSet(queue) : e.id \in full.cand}
           ok == {e \in cand : Completed(e) \/ SupersededByFull(e)}
           acks == {e.id : e \in ok} \cup (IF ok = cand THEN full.uploads ELSE {})
           q == Without(queue, acks)
           z == {}
<1>1. /\ UNCHANGED <<vault, canon, changed, rev, disk, moving, debounce, ready, timer, again,
                     late, handed, used, gone, copies>>
      /\ full.pc = "apply" /\ Queue(q) /\ base' = Observed
      /\ put' = [p \in Paths |-> NoPut] /\ moves' = z /\ dels' = z
      /\ applied' = applied \cup ({put[p].id : p \in Paths} \ {NoId})
      /\ saved' = Data(queue, base', put', moves', dels')
      /\ full' = NoFull
      /\ \/ drain' = [NoDrain EXCEPT !.pc = "wait", !.only = Replay(q)]
         \/ UNCHANGED drain
  BY DEF FullEnds, remote, StartDrain, Drain
<1>2. Good(queue, used.event) /\ Good(q, used.event)
  BY WithoutGood DEF IInv, Events
<1> HIDE DEF q
<1>3. queue' = q /\ failed' \in BOOLEAN
  BY <1>1 DEF Queue, IInv, Timers
<1>4. base' \in [Paths -> EntryType]
  BY <1>1 DEF Observed, IInv, World
<1>5. put' \in PutType /\ applied' \subseteq Id
  BY <1>1, PutTypes DEF IInv, Pending, PutType
<1>6. World' /\ IndexHasFile'
  BY <1>1, <1>4 DEF IInv, World, IndexHasFile
<1>7. Pending'
  BY <1>1, <1>5 DEF IInv, Pending
<1>8. Events' /\ Timers'
  BY <1>1, <1>2, <1>3 DEF IInv, Events, Timers
<1>9. full' \in Fulls /\ full'.pc = "idle"
  BY <1>1, EmptyRecords DEF NoFull
<1>10. FullOK' /\ Exclusive'
  BY <1>9 DEF FullOK, Exclusive
<1>11. DrainOK' /\ Batches' /\ SentOnDisk'
  <2>1. CASE UNCHANGED drain
    <3>1. drain'.pc = "idle" /\ drain'.items = <<>> /\ drain' \in Drains
      BY <1>1, <2>1 DEF IInv, Exclusive, SentOnDisk, DrainOK
    <3> QED
      BY <3>1, NoBatch DEF DrainOK
  <2>2. CASE drain' = [NoDrain EXCEPT !.pc = "wait", !.only = Replay(q)]
    <3>1. Replay(q) \in SUBSET Id
      BY <1>2, QueueIds, EventFields DEF Replay
    <3>2. drain' \in Drains /\ drain'.pc = "wait" /\ drain'.items = <<>>
      BY <2>2, <3>1, EmptyRecords DEF NoDrain, NoEvents
    <3> QED
      BY <3>2, NoBatch DEF DrainOK
  <2> QED
    BY <1>1, <2>1, <2>2
<1>12. SavedOK'
  <2>1. z \in SUBSET (Paths \X Paths) /\ z \in SUBSET Paths
    OBVIOUS
  <2>2. late \subseteq Id /\ handed \subseteq Id
    BY DEF IInv, Events
  <2> HIDE DEF z
  <2>3. saved' = Data(queue, base', put', z, z)
    BY <1>1
  <2>4. saved' \in Saves /\ saved'.queue = queue
    BY <1>2, <1>4, <1>5, <2>1, <2>2, <2>3, DataSaved
  <2> QED
    BY <1>1, <1>2, <2>4 DEF SavedOK
<1> QED
  BY <1>6, <1>7, <1>8, <1>10, <1>11, <1>12 DEF IInv

LEMMA CrashKeeps ==
  ASSUME IInv, Crash
  PROVE  IInv'
<1>1. /\ Fault
      /\ queue' = saved.queue /\ base' = saved.base /\ put' = saved.put
      /\ moves' = saved.moves /\ dels' = saved.dels
      /\ late' = saved.late /\ handed' = saved.handed
      /\ debounce' = NoTimer /\ ready' = NoTimer /\ again' = FALSE /\ failed' = FALSE
      /\ timer' = (saved.queue # NoEvents)
      /\ drain' = NoDrain /\ full' = NoFull
      /\ UNCHANGED <<vault, canon, changed, rev, disk, moving, applied, saved, gone, copies>>
  BY DEF Crash, remote
<1>2. used' \in Counters /\ used'.event = used.event
  BY <1>1, Counted DEF IInv, Events, Counters
<1>3. /\ Good(saved.queue, used.event) /\ saved.base \in [Paths -> EntryType]
      /\ saved.put \in PutType /\ saved.moves \subseteq Paths \X Paths
      /\ saved.dels \subseteq Paths /\ saved.late \subseteq Id /\ saved.handed \subseteq Id
  BY DEF IInv, SavedOK, Saves
<1>4. World' /\ Pending' /\ IndexHasFile'
  BY <1>1, <1>3 DEF IInv, World, Pending, IndexHasFile
<1>5. Events' /\ Timers'
  BY <1>1, <1>2, <1>3, EmptyRecords DEF Events, Timers, Counters
<1>6. full' \in Fulls /\ full'.pc = "idle"
  BY <1>1, EmptyRecords DEF NoFull
<1>7. drain' \in Drains /\ drain'.pc = "idle" /\ drain'.items = <<>>
  BY <1>1, EmptyRecords DEF NoDrain, NoEvents
<1>8. DrainOK' /\ FullOK' /\ Exclusive' /\ Batches' /\ SentOnDisk'
  BY <1>6, <1>7, NoBatch DEF DrainOK, FullOK, Exclusive
<1>9. SavedOK'
  BY <1>1, <1>2, SavedLater
<1> QED
  BY <1>4, <1>5, <1>8, <1>9 DEF IInv

-----------------------------------------------------------------------------
(* The invariant. *)

LEMMA InitKeeps ==
  ASSUME Init
  PROVE  IInv
<1>1. /\ vault \in [Paths -> 0 .. MaxVersion]
      /\ \A p, q \in Paths : p # q /\ vault[p] # Nil => vault[p] # vault[q]
      /\ canon = vault /\ disk = vault /\ base = vault
      /\ changed = [p \in Paths |-> IF vault[p] = Nil THEN 0 ELSE 1]
      /\ rev = 1 /\ moving = {} /\ moves = {} /\ dels = {} /\ applied = {}
      /\ put = [p \in Paths |-> NoPut]
      /\ queue = NoEvents /\ debounce = NoTimer /\ ready = NoTimer
      /\ timer = FALSE /\ again = FALSE /\ late = {} /\ handed = {}
      /\ drain = NoDrain /\ full = NoFull
      /\ saved = Data(queue, base, put, moves, dels) /\ failed = FALSE
      /\ used = [version |-> Cardinality({p \in Paths : vault[p] # Nil}),
                 event |-> 0, fault |-> 0]
      /\ gone = {} /\ copies = {}
  BY DEF Init
<1>2. Cardinality({p \in Paths : vault[p] # Nil}) \in Nat
  <2> DEFINE S == {p \in Paths : vault[p] # Nil}
             T == 0 .. MaxVersion
             f == [p \in S |-> vault[p]]
  <2>1. f \in Injection(S, T)
    BY <1>1 DEF Injection, IsInjective
  <2>2. IsFiniteSet(T)
    BY FS_Interval, Numbers
  <2> HIDE DEF S, T, f
  <2>3. IsFiniteSet(S)
    BY <2>1, <2>2, FS_Injection
  <2>4. Cardinality(S) \in Nat
    BY <2>3, FS_CardinalityType
  <2> QED
    BY <2>4 DEF S
<1>3. World /\ IndexHasFile
  BY <1>1, Numbers DEF World, IndexHasFile, Content
<1>4. put \in PutType
  BY <1>1, Numbers DEF PutType, NoPut
<1>5. Pending
  BY <1>1, <1>4 DEF Pending
<1>6. Good(queue, used.event)
  <2>1. queue \in Seq(EventType) /\ DOMAIN queue = {}
    BY <1>1, EmptySeq DEF NoEvents
  <2> QED
    BY <2>1 DEF Good, Distinct
<1>7. Events /\ Timers
  <2>1. used \in [version : Nat, event : 0 .. MaxEvent, fault : Nat]
    <3> DEFINE n == Cardinality({p \in Paths : vault[p] # Nil})
    <3>1. used = [version |-> n, event |-> 0, fault |-> 0] /\ n \in Nat
      BY <1>1, <1>2
    <3> HIDE DEF n
    <3> QED
      BY <3>1, Numbers
  <2>2. Events
    BY <1>1, <1>6, <2>1 DEF Events
  <2>3. Timers
    BY <1>1, EmptyRecords DEF Timers
  <2> QED
    BY <2>2, <2>3
<1>8. full \in Fulls /\ full.pc = "idle"
  BY <1>1, EmptyRecords DEF NoFull
<1>9. drain \in Drains /\ drain.pc = "idle" /\ drain.items = <<>>
  BY <1>1, EmptyRecords DEF NoDrain, NoEvents
<1>10. DrainOK /\ FullOK /\ Exclusive /\ Batches /\ SentOnDisk
  BY <1>8, <1>9 DEF DrainOK, FullOK, Exclusive, Batches, SentOnDisk
<1>11. SavedOK
  <2>1. late \subseteq Id /\ handed \subseteq Id
    BY <1>1
  <2> QED
    BY <1>1, <1>3, <1>5, <1>6, <2>1, DataSaved DEF SavedOK, World, Pending
<1> QED
  BY <1>3, <1>5, <1>7, <1>10, <1>11 DEF IInv

LEMMA DrainStepKeeps ==
  ASSUME IInv, DrainStep
  PROVE  IInv'
<1>1. CASE Collect \/ DrainFails \/ DrainEnds \/ TakeFiles \/ PrepareFile \/ Prepared
  BY <1>1, CollectKeeps, DrainFailsKeeps, DrainEndsKeeps, TakeFilesKeeps, PrepareFileKeeps,
     PreparedKeeps
<1>2. CASE Upload \/ Commit \/ Clean \/ Settle \/ Continue
  BY <1>2, UploadKeeps, CommitKeeps, CleanKeeps, SettleKeeps, ContinueKeeps
<1>3. CASE TakeRename \/ TargetMissing \/ RenameApplied \/ RenameRecovers \/ RenameCommits
  BY <1>3, TakeRenameKeeps, TargetMissingKeeps, RenameAppliedKeeps, RenameRecoversKeeps,
     RenameCommitsKeeps
<1>4. CASE Move \/ MoveRefused \/ RenamePuts
  BY <1>4, MoveKeeps, MoveRefusedKeeps, RenamePutsKeeps
<1> QED
  BY <1>1, <1>2, <1>3, <1>4 DEF DrainStep

LEMMA FailureKeeps ==
  ASSUME IInv, Failure
  PROVE  IInv'
  BY PersistFailsKeeps, UploadFailsKeeps, CommitFailsKeeps, RenameCommitFailsKeeps,
     MoveFailsKeeps, RenamePutFailsKeeps, FullAbortsKeeps, CrashKeeps DEF Failure

LEMMA FullStepKeeps ==
  ASSUME IInv, FullStep
  PROVE  IInv'
  BY FullDrainsKeeps, FullEntersKeeps, FullFailsKeeps, FullScansKeeps, FullAppliesKeeps,
     FullEndsKeeps DEF FullStep

LEMMA UserKeeps ==
  ASSUME IInv, User
  PROVE  IInv'
  BY UserWriteKeeps, UserDeleteKeeps, UserRenameKeeps DEF User

LEMMA NextKeeps ==
  ASSUME IInv, [Next]_vars
  PROVE  IInv'
<1>1. CASE User
  BY <1>1, UserKeeps
<1>2. CASE \E p \in Paths : Debounced(p)
  BY <1>2, DebouncedKeeps
<1>3. CASE Persist \/ Timer
  BY <1>3, PersistKeeps, TimerKeeps
<1>4. CASE DrainStep
  BY <1>4, DrainStepKeeps
<1>5. CASE FullStep
  BY <1>5, FullStepKeeps
<1>6. CASE \E startup \in BOOLEAN : FullPrepares(startup)
  BY <1>6, FullPreparesKeeps
<1>7. CASE Failure
  BY <1>7, FailureKeeps
<1>8. CASE UNCHANGED vars
  BY <1>8 DEF vars, remote, index, watcher, IInv, World, Pending, Events, Timers, DrainOK,
     FullOK, SavedOK, Exclusive, Batches, MoveOf, Running, SentOnDisk, IndexHasFile
<1> QED
  BY <1>1, <1>2, <1>3, <1>4, <1>5, <1>6, <1>7, <1>8 DEF Next

LEMMA InvariantSuffices ==
  ASSUME IInv
  PROVE  IndexConsistent
<1>1. /\ {vault, disk} \subseteq [Paths -> Content]
      /\ {canon, base} \subseteq [Paths -> EntryType]
      /\ rev \in Nat /\ changed \in [Paths -> 0 .. rev]
  BY DEF IInv, World
<1>2. /\ moving \subseteq Paths \X Paths \X EntryType
      /\ moves \subseteq Paths \X Paths /\ dels \subseteq Paths
      /\ put \in PutType /\ applied \subseteq Id
      /\ gone \cup copies \subseteq Content
  BY DEF IInv, Pending
<1>3. /\ queue \in Seq(EventType) /\ Cardinality(IdsOf(queue)) = Len(queue)
      /\ late \cup handed \subseteq Id
  BY GoodCardinality DEF IInv, Events, Good
<1>4. /\ {debounce, ready} \subseteq [Paths -> Id]
      /\ {timer, again, failed} \subseteq BOOLEAN
  BY DEF IInv, Timers
<1>5. drain.pc \in {"idle", "wait", "next", "prepare", "apply", "clean", "settle",
                    "saved", "rename", "move"}
  BY DrainParts DEF IInv, DrainOK, Places
<1>6. /\ full.pc \in {"idle", "prepare", "drain", "scan", "apply"}
      /\ full.cutoff \cup full.cand \subseteq Id /\ full.todo \subseteq Paths
  BY DEF IInv, FullOK, Fulls
<1>7. saved.queue \in Seq(EventType)
  BY DEF IInv, SavedOK, Saves
<1> QED
  BY <1>1, <1>2, <1>3, <1>4, <1>5, <1>6, <1>7 DEF IInv, IndexConsistent, TypeOK

\* A file the index calls live is on the disk, or a move that brings it is
\* recorded, and no event is queued twice: for any number of files, events,
\* failures and restarts.
THEOREM IndexIsBacked == Spec => []IndexConsistent
<1>1. Init => IInv
  BY InitKeeps
<1>2. IInv /\ [Next]_vars => IInv'
  BY NextKeeps
<1>3. IInv => IndexConsistent
  BY InvariantSuffices
<1> QED
  BY <1>1, <1>2, <1>3, PTL DEF Spec
=============================================================================
