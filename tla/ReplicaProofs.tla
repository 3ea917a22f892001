-------------------------- MODULE ReplicaProofs ---------------------------
(***************************************************************************)
(* Proofs about Replica, for any set of devices, any finite set of paths   *)
(* and any bounds.                                                         *)
(*                                                                         *)
(* QueueIsContinued: every variable keeps to its type, and the durable     *)
(* queue of a device, in memory and as stored, continues what the          *)
(* canonical index has accepted of it.  The queue is a chain of sequences  *)
(* that ends below the next one and begins at most one above the canonical *)
(* watermark (Chained). It stays one because a commit takes no more into   *)
(* the index than was queued, no device advances the watermark of another  *)
(* (Marks), and a confirmation removes what the index has accepted, but    *)
(* for the devices in dropped.  That these steps have mutations to count   *)
(* at all rests on what a session knows of the paths of its plan           *)
(* (Running): an upload has its put, a conflict is never one of a conflict *)
(* copy (Named), and a fingerprint is only refreshed where both indexes    *)
(* have an entry.                                                          *)
(*                                                                         *)
(* EditsSurviveInTurn: no version is lost while sessions take turns and    *)
(* nothing is deleted.  A step may overwrite content only where it is      *)
(* spare: a user has replaced it or a protective copy has it (Preserving). *)
(* A session judges this by its scans and its baselines, so these must not *)
(* say more than the files do: what a baseline names is on the disk and in *)
(* the vault (Based), what an index names is on the disk (Written), a scan *)
(* is true of what no user has replaced since (ScanOK), an upload replaces *)
(* what the device has had itself (Sendable), and what a session has not   *)
(* dealt with is still in its plan (DoneOK).                               *)
(***************************************************************************)
EXTENDS Replica, WellFoundedInduction, FiniteSetTheorems, SequenceTheorems, TLAPS

----------------------------------------------------------------------------
(* The invariant: the durable state of a device.                           *)

MutationSeq == Seq(MutationType)

Baseline == [sha : Content, dead : Flag, rev : Revision] \cup {None}

Durable == [base : [AllPath -> Baseline], obs : Nat, queue : MutationSeq, next : Nat \ {0},
            acts : SUBSET Act]

\* Every pending mutation has a sequence below the next.
DurOK(m) ==
  /\ m \in Durable
  /\ \A i \in 1 .. Len(m.queue) : m.queue[i].seq < m.next

\* The sequences of the queue follow each other up to the next, and the first
\* is at most one above the mark.
Chained(m, mark) ==
  /\ m.next - 1 - Len(m.queue) \in 0 .. mark
  /\ \A i \in 1 .. Len(m.queue) : m.queue[i].seq = m.next - 1 - Len(m.queue) + i

\* n has the mutations of m, and perhaps more after them.
Extends(m, n) ==
  /\ DurOK(n)
  /\ n.next >= m.next
  /\ Len(n.queue) >= Len(m.queue)
  /\ \A i \in 1 .. Len(m.queue) : n.queue[i] = m.queue[i]
  /\ \A mark \in Nat : Chained(m, mark) => Chained(n, mark)

----------------------------------------------------------------------------
(* The invariant: files and indexes.                                       *)

\* What a file of this name may contain: a conflict copy is named for one version.
Named(p) == {x \in Content : \A q \in Path, v \in Version : p = CopyOf(q, v) => x = v}

Holds(p) == Named(p) \cup {Nil}

FilesOK(f) ==
  /\ f \in [AllPath -> Content]
  /\ \A p \in AllPath : f[p] \in Holds(p)

Says(p) == {e \in Entry : e.dead # TRUE => e.sha \in Named(p)}

IndexOK(c) ==
  /\ c \in Index
  /\ \A p \in AllPath : c.files[p] # None => c.files[p] \in Says(p)

----------------------------------------------------------------------------
(* The invariant: what a session works with.                               *)

Fields == {"pc", "load", "want", "from", "stamped", "l", "r", "plan", "had", "early", "bad",
           "todo", "got", "rejected", "at", "why", "ret"}

Steering == {"pc", "had", "early", "bad", "todo", "at", "why", "ret"}

\* t differs from s in the fields F at most.
Keeps(s, t, F) == DOMAIN t = Fields /\ \A x \in Fields \ F : t[x] = s[x]

FromOK(from, want) ==
  /\ DOMAIN from \subseteq AllPath
  /\ \A p \in DOMAIN from : want.files[p] # None /\ want.files[p].by \in Device

StampOK(stamped, load, want) ==
  /\ stamped \subseteq AllPath
  /\ \A p \in stamped : load.files[p] # None /\ want.files[p] # None

SameOK(from, load, want) ==
  \A p \in AllPath \ DOMAIN from : load.files[p] = None <=> want.files[p] = None

\* A session has staged nothing for other devices, and for its own no sequence
\* that is not in use.
MarksOK(mine, theirs, next, d) ==
  /\ \A e \in Device \ {d} : mine[e] <= theirs[e]
  /\ theirs[d] <= mine[d] /\ mine[d] < next

GotOK(got) ==
  /\ DOMAIN got \subseteq AllPath
  /\ \A p \in DOMAIN got : got[p] \in Named(p)

RejectedOK(rejected) ==
  \A x \in rejected : /\ x.path \in AllPath /\ x.fp \in Content
                      /\ x.why = "concurrent-foreign" => x.path \in Path

Conflicts(l) == {p \in Path : l[p] # Nil}

PlanOK(plan, l) ==
  \A p \in AllPath : /\ plan[p] = "upload" => l[p] # Nil
                     /\ plan[p] = "conflict" => p \in Conflicts(l)

DataOK(s, next, c, d) ==
  /\ DOMAIN s = Fields
  /\ IndexOK(s.load) /\ IndexOK(s.want) /\ FilesOK(s.l) /\ FilesOK(s.r)
  /\ FromOK(s.from, s.want)
  /\ StampOK(s.stamped, s.load, s.want)
  /\ SameOK(s.from, s.load, s.want)
  /\ MarksOK(s.want.wm, c.wm, next, d)
  /\ GotOK(s.got)
  /\ RejectedOK(s.rejected)
  /\ PlanOK(s.plan, s.l)

----------------------------------------------------------------------------
(* The invariant: where a session is.                                      *)

EarlyPC(pc, ret) == pc \in {"scan", "list", "local", "verify"} \/ (pc = "physical" /\ ret = "scan")

\* Until the plan is made nothing is in it, and only deletions are in the desired index.
EarlyOK(s) ==
  EarlyPC(s.pc, s.ret) => /\ s.plan = EmptyPlan /\ s.at = Nil
                          /\ \A p \in DOMAIN s.from : Dead(s.want.files[p])
                          /\ s.pc # "physical" => s.todo = {}

AtOK(pc, at, l) ==
  /\ at # Nil => at \in Conflicts(l)
  /\ pc \in {"copy", "send", "apply"} => at \in Conflicts(l)

Puttable(m, l, p) == p \in AllPath /\ l[p] # Nil /\ PutsOf(m, p, l[p]) # {}

TodoOK(pc, todo, l, m) ==
  /\ pc \in {"physical", "delete"} => todo \subseteq Act
  /\ pc = "upload" => \A p \in todo : Puttable(m, l, p)
  /\ pc = "download" => todo \subseteq AllPath
  /\ pc \notin {"physical", "delete", "upload", "download"} => todo \subseteq Conflicts(l)

PlaceOK(s, m) ==
  /\ s.pc \in PCs \ {"idle"}
  /\ s.pc = "physical" => s.ret \in {"scan", "finish"}
  /\ EarlyOK(s)
  /\ AtOK(s.pc, s.at, s.l)
  /\ TodoOK(s.pc, s.todo, s.l, m)

Running(s, m, c, d) == DataOK(s, m.next, c, d) /\ PlaceOK(s, m)

SesOK(s, m, c, d) == s = Idle \/ Running(s, m, c, d)

ChainsOK(d) ==
  d \notin dropped => Chained(mem[d], canon.wm[d]) /\ Chained(saved[d], canon.wm[d])

DeviceOK(d) ==
  /\ FilesOK(vault[d])
  /\ DurOK(mem[d]) /\ DurOK(saved[d])
  /\ SesOK(ses[d], mem[d], canon, d)
  /\ ChainsOK(d)

CountsOK ==
  /\ kept \subseteq Version /\ past \subseteq Version
  /\ made \in Version /\ deletes \in 0 .. MaxDeletes /\ faults \in 0 .. MaxFaults

ShapesOK ==
  DOMAIN vault = Device /\ DOMAIN mem = Device /\ DOMAIN saved = Device /\ DOMAIN ses = Device

Inv ==
  /\ IndexOK(canon) /\ FilesOK(disk)
  /\ dropped \subseteq Device
  /\ ShapesOK /\ CountsOK
  /\ \A d \in Device : DeviceOK(d)

----------------------------------------------------------------------------
(* Numbers and finite sets.                                                *)

LEMMA NatLess == \E R : IsWellFoundedOn(R, Nat) /\ \A x, y \in Nat : <<x, y>> \in R <=> x < y
<1> DEFINE R == OpToRel(<, Nat)
<1>1. IsWellFoundedOn(R, Nat)
  BY NatLessThanWellFounded
<1>2. \A x, y \in Nat : <<x, y>> \in R <=> x < y
  BY DEF OpToRel
<1> HIDE DEF R
<1> QED
  BY <1>1, <1>2

LEMMA Least ==
  ASSUME NEW S \in SUBSET Nat, S # {}
  PROVE  \E n \in S : \A m \in S : n <= m
<1>1. PICK R : IsWellFoundedOn(R, Nat) /\ \A x, y \in Nat : <<x, y>> \in R <=> x < y
  BY NatLess
<1>2. IsWellFoundedOn(R, Nat)
  BY <1>1
<1>5. S \subseteq Nat
  OBVIOUS
<1>3. \E n \in S : \A m \in S : ~ (<<m, n>> \in R)
  BY <1>2, <1>5, WFMin, Zenon
<1>4. PICK n \in S : \A m \in S : <<m, n>> \notin R
  BY <1>3
<1>6. \A x, y \in Nat : <<x, y>> \in R <=> x < y
  BY <1>1
<1>7. \A m \in S : ~(m < n)
  BY <1>4, <1>6, <1>5
<1>8. n \in Nat /\ \A m \in S : m \in Nat
  BY <1>5
<1> QED
  BY <1>7, <1>8, SMT

LEMMA Greatest ==
  ASSUME NEW N \in Nat, NEW S \in SUBSET (0 .. N), S # {}
  PROVE  \E n \in S : \A m \in S : m <= n
<1> DEFINE T == {k \in 0 .. N : N - k \in S}
<1>1. PICK x \in S : TRUE
  OBVIOUS
<1>2. N - x \in T
  BY <1>1
<1>5. T \in SUBSET Nat
  OBVIOUS
<1>6. T # {}
  BY <1>2
<1> HIDE DEF T
<1>3. PICK k \in T : \A j \in T : k <= j
  BY <1>5, <1>6, Least
<1> USE DEF T
<1>4. \A m \in S : N - m \in T
  OBVIOUS
<1> QED
  BY <1>3, <1>4

\* Max(S) is an element of a bounded set of numbers.
LEMMA MaxIn ==
  ASSUME NEW N \in Nat, NEW S \in SUBSET (0 .. N), S # {}
  PROVE  Max(S) \in S
<1>1. PICK n \in S : \A m \in S : m <= n
  BY Greatest
<1>2. \A m \in S : n >= m
  BY <1>1
<1> QED
  BY <1>2 DEF Max

LEMMA PathsFinite ==
  IsFiniteSet(AllPath)
<1>1. IsFiniteSet(Version)
  BY BoundsAssumption, FS_Interval DEF Version
<1>2. IsFiniteSet(Path \X Version)
  BY <1>1, PathsAssumption, FS_Product
<1>3. {CopyOf(p, v) : p \in Path, v \in Version} = Path \X Version
  BY DEF CopyOf
<1>4. IsFiniteSet(Path \cup (Path \X Version))
  BY <1>2, PathsAssumption, FS_Union
<1>5. AllPath = Path \cup (Path \X Version)
  BY <1>3 DEF AllPath
<1> QED
  BY <1>4, <1>5

\* SetToSeq lists a finite set.
LEMMA Listed ==
  ASSUME NEW S, IsFiniteSet(S)
  PROVE  /\ Cardinality(S) \in Nat
         /\ \A i \in 1 .. Cardinality(S) : SetToSeq(S)[i] \in S
         /\ \A x \in S : \E i \in 1 .. Cardinality(S) : SetToSeq(S)[i] = x
<1>1. Cardinality(S) \in Nat /\ \E f : f \in Bijection(1 .. Cardinality(S), S)
  BY FS_CardinalityType DEF ExistsBijection
<1>2. PICK f : f \in Bijection(1 .. Cardinality(S), S)
  BY <1>1
<1>3. f \in [1 .. Cardinality(S) -> S] /\ IsInjective(f)
  BY <1>2 DEF Bijection, Injection
<1> DEFINE g == SetToSeq(S)
<1>4. g \in [1 .. Cardinality(S) -> S] /\ IsInjective(g)
  BY <1>3 DEF SetToSeq
<1>5. g \in Injection(1 .. Cardinality(S), S)
  BY <1>4 DEF Injection
<1>6. IsFiniteSet(1 .. Cardinality(S)) /\ Cardinality(1 .. Cardinality(S)) = Cardinality(S)
  BY <1>1, FS_Interval
<1>7. g \in Surjection(1 .. Cardinality(S), S)
  BY <1>5, <1>6, FS_Injection
<1> QED
  BY <1>1, <1>4, <1>7 DEF Surjection

----------------------------------------------------------------------------
(* The durable queue.                                                      *)

LEMMA QueueFacts ==
  ASSUME NEW m, DurOK(m)
  PROVE  /\ m.queue \in Seq(MutationType)
         /\ Len(m.queue) \in Nat
         /\ DOMAIN m.queue = 1 .. Len(m.queue)
         /\ \A i \in 1 .. Len(m.queue) : /\ m.queue[i] \in MutationType
                                         /\ m.queue[i].seq \in Nat \ {0}
                                         /\ m.queue[i].seq < m.next
         /\ m.next \in Nat \ {0}
<1>1. m.queue \in Seq(MutationType) /\ m.next \in Nat \ {0}
  BY DEF DurOK, Durable, MutationSeq
<1>2. Len(m.queue) \in Nat /\ DOMAIN m.queue = 1 .. Len(m.queue)
      /\ m.queue \in [1 .. Len(m.queue) -> MutationType]
  BY <1>1, LenProperties
<1>3. \A i \in 1 .. Len(m.queue) : m.queue[i] \in MutationType
  BY <1>2
<1>4. \A x \in MutationType : x.seq \in Nat \ {0}
  BY DEF MutationType
<1> QED
  BY <1>1, <1>2, <1>3, <1>4 DEF DurOK

\* The last of some pending mutations is one of them.
LEMMA LastIsOne ==
  ASSUME NEW m, DurOK(m), NEW S \in SUBSET DOMAIN m.queue, S # {}
  PROVE  /\ \E i \in S : LastOf(m, S) = m.queue[i]
         /\ LastOf(m, S) \in MutationType
         /\ LastOf(m, S).seq \in Nat \ {0}
         /\ LastOf(m, S).seq < m.next
<1>1. Len(m.queue) \in Nat /\ S \in SUBSET (0 .. Len(m.queue))
  BY QueueFacts
<1>2. Max(S) \in S
  BY <1>1, MaxIn
<1>3. LastOf(m, S) = m.queue[Max(S)]
  BY DEF LastOf
<1>4. Max(S) \in 1 .. Len(m.queue)
  BY <1>2, QueueFacts
<1> QED
  BY <1>2, <1>3, <1>4, QueueFacts

LEMMA ExtendsSelf ==
  ASSUME NEW m, DurOK(m)
  PROVE  Extends(m, m)
  BY QueueFacts DEF Extends

LEMMA ExtendsFurther ==
  ASSUME NEW m, NEW n, NEW o, DurOK(m), Extends(m, n), Extends(n, o)
  PROVE  Extends(m, o)
<1>1. DurOK(n) /\ DurOK(o)
  BY DEF Extends
<1>2. Len(m.queue) \in Nat /\ Len(n.queue) \in Nat /\ Len(o.queue) \in Nat
      /\ m.next \in Nat /\ n.next \in Nat /\ o.next \in Nat
  BY <1>1, QueueFacts
<1>3. \A i \in 1 .. Len(m.queue) : i \in 1 .. Len(n.queue)
  BY <1>2 DEF Extends
<1>4. \A i \in 1 .. Len(m.queue) : o.queue[i] = m.queue[i]
  BY <1>2, <1>3 DEF Extends
<1>5. o.next >= m.next /\ Len(o.queue) >= Len(m.queue)
  BY <1>2 DEF Extends
<1>6. \A mark \in Nat : Chained(m, mark) => Chained(o, mark)
  BY DEF Extends
<1> QED
  BY <1>1, <1>4, <1>5, <1>6 DEF Extends

LEMMA MutationTyped ==
  ASSUME NEW s \in Nat \ {0}, NEW k \in {"put", "delete", "noop"}, NEW p \in AllPath,
         NEW x \in Content, NEW b \in Nat, NEW o \in Content
  PROVE  [seq |-> s, kind |-> k, path |-> p, sha |-> x, base |-> b, old |-> o] \in MutationType
  BY DEF MutationType

LEMMA KnownTyped ==
  ASSUME NEW m, DurOK(m), NEW p \in AllPath
  PROVE  Known(m, p) \in Content
<1>1. m.base[p] \in Baseline
  BY DEF DurOK, Durable
<1>2. Nil \in Content
  BY DEF Content
<1> QED
  BY <1>1, <1>2 DEF Known, Baseline

\* Mutations are added at the end, each with the next sequence.
LEMMA EnqueueExtends ==
  ASSUME NEW m, DurOK(m), NEW k \in {"put", "delete", "noop"}, NEW p \in AllPath,
         NEW x \in Content, NEW b \in Nat, NEW o \in Content,
         NEW n, n = Enqueue(m, k, p, x, o, b)
  PROVE  /\ Extends(m, n)
         /\ n.queue[Len(m.queue) + 1] = Mutation(m, k, p, x, o, b)
         /\ Len(n.queue) = Len(m.queue) + 1
         /\ n.base = m.base /\ n.obs = m.obs /\ n.acts = m.acts
<1> DEFINE y == Mutation(m, k, p, x, o, b)
<1>1. y \in MutationType /\ y.seq = m.next
  BY QueueFacts, MutationTyped DEF Mutation
<1>2. n = [m EXCEPT !.queue = Append(@, y), !.next = @ + 1]
  BY DEF Enqueue
<1> HIDE DEF y
<1>3. m \in [base : [AllPath -> Baseline], obs : Nat, queue : Seq(MutationType), next : Nat \ {0},
             acts : SUBSET Act]
  BY DEF DurOK, Durable, MutationSeq
<1>4. n.queue = Append(m.queue, y) /\ n.next = m.next + 1
      /\ n.base = m.base /\ n.obs = m.obs /\ n.acts = m.acts
  BY <1>2, <1>3
<1>5. /\ n.queue \in Seq(MutationType) /\ Len(n.queue) = Len(m.queue) + 1
      /\ \A i \in 1 .. Len(m.queue) : n.queue[i] = m.queue[i]
      /\ n.queue[Len(m.queue) + 1] = y
  BY <1>1, <1>3, <1>4, AppendProperties
<1>6. n \in Durable
  <2> DEFINE q == Append(m.queue, y)
             z == m.next + 1
  <2>1. n = [m EXCEPT !.queue = q, !.next = z]
    BY <1>2, <1>3
  <2>2. q \in MutationSeq /\ z \in Nat \ {0} /\ m \in Durable
    BY <1>4, <1>5, QueueFacts DEF MutationSeq, DurOK
  <2> HIDE DEF q, z
  <2> QED
    BY <2>1, <2>2 DEF Durable
<1>7. DurOK(n)
  BY <1>1, <1>4, <1>5, <1>6, QueueFacts DEF DurOK
<1>8. ASSUME NEW mark \in Nat, Chained(m, mark) PROVE Chained(n, mark)
  <2>1. n.next - 1 - Len(n.queue) = m.next - 1 - Len(m.queue)
    <3> DEFINE nx == m.next
               ln == Len(m.queue)
               nx1 == n.next
               ln1 == Len(n.queue)
    <3>1. nx \in Nat /\ ln \in Nat /\ nx1 = nx + 1 /\ ln1 = ln + 1
      BY <1>4, <1>5, QueueFacts
    <3> HIDE DEF nx, ln, nx1, ln1
    <3>2. nx1 - 1 - ln1 = nx - 1 - ln
      BY <3>1
    <3> QED
      BY <3>2 DEF nx, ln, nx1, ln1
  <2>2. ASSUME NEW i \in 1 .. Len(n.queue)
        PROVE  n.queue[i].seq = m.next - 1 - Len(m.queue) + i
    <3>1. CASE i \in 1 .. Len(m.queue)
      BY <1>5, <1>8, <3>1 DEF Chained
    <3>2. CASE i = Len(m.queue) + 1
      <4>1. n.queue[i].seq = m.next
        BY <1>1, <1>5, <3>2
      <4>2. m.next - 1 - Len(m.queue) + (Len(m.queue) + 1) = m.next
        BY QueueFacts
      <4> QED
        BY <3>2, <4>1, <4>2
    <3> QED
      BY <1>5, <3>1, <3>2, QueueFacts
  <2> QED
    BY <1>8, <2>1, <2>2 DEF Chained
<1> QED
  BY <1>4, <1>5, <1>7, <1>8, QueueFacts DEF Extends, y

\* A pending put of the content is there afterwards.
\* What n has more than m is of this kind.
Grows(m, n, kind) ==
  \A i \in 1 .. Len(n.queue) : i \in 1 .. Len(m.queue) \/ n.queue[i].kind = kind

LEMMA EnsurePutExtends ==
  ASSUME NEW m, DurOK(m), NEW p \in AllPath, NEW x \in Content, NEW o \in Content,
         NEW b \in Nat, NEW n, n = EnsurePut(m, p, x, o, b)
  PROVE  /\ Extends(m, n) /\ Grows(m, n, "put")
         /\ PutsOf(n, p, x) # {}
         /\ n.base = m.base /\ n.obs = m.obs /\ n.acts = m.acts
<1>1. CASE PutsOf(m, p, x) # {}
  BY <1>1, ExtendsSelf DEF EnsurePut, Grows
<1>2. CASE PutsOf(m, p, x) = {}
  <2>1. n = Enqueue(m, "put", p, x, o, b)
    BY <1>2 DEF EnsurePut
  <2>2. /\ Extends(m, n)
        /\ n.queue[Len(m.queue) + 1] = Mutation(m, "put", p, x, o, b)
        /\ Len(n.queue) = Len(m.queue) + 1
        /\ n.base = m.base /\ n.obs = m.obs /\ n.acts = m.acts
    BY <2>1, EnqueueExtends
  <2>3. Len(m.queue) + 1 \in DOMAIN n.queue
    BY <2>2, QueueFacts DEF Extends
  <2>4. Len(m.queue) + 1 \in PutsOf(n, p, x)
    BY <2>2, <2>3 DEF PutsOf, Puts, Mutation
  <2>5. n.queue[Len(m.queue) + 1].kind = "put"
    BY <2>2 DEF Mutation
  <2>6. Grows(m, n, "put")
    BY <2>2, <2>5, QueueFacts DEF Grows
  <2> QED
    BY <2>2, <2>4, <2>6
<1> QED
  BY <1>1, <1>2

\* n has a mutation of each of the paths added to those of m.
Added(m, n, k, ps, sha) ==
  /\ Extends(m, n) /\ Grows(m, n, k)
  /\ \A p \in ps : \E i \in DOMAIN n.queue :
        /\ n.queue[i].kind = k /\ n.queue[i].path = p /\ n.queue[i].sha = sha[p]
  /\ n.base = m.base /\ n.obs = m.obs /\ n.acts = m.acts

LEMMA EnqueueEachExtends ==
  ASSUME NEW m, DurOK(m), NEW k \in {"put", "delete", "noop"}, NEW ps \in SUBSET AllPath,
         NEW sha, \A p \in ps : sha[p] \in Content, NEW b \in Nat
  PROVE  Added(m, EnqueueEach(m, k, ps, sha, b), k, ps, sha)
<1> DEFINE n == EnqueueEach(m, k, ps, sha, b)
           o == SetToSeq(ps)
           c == Cardinality(ps)
           L == Len(m.queue)
           x(i) == [seq |-> m.next + i - 1, kind |-> k, path |-> o[i], sha |-> sha[o[i]],
                    base |-> b, old |-> Known(m, o[i])]
           new == [i \in 1 .. c |-> x(i)]
<1>1. IsFiniteSet(ps)
  BY PathsFinite, FS_Subset
<1>2. /\ c \in Nat
      /\ \A i \in 1 .. c : o[i] \in ps
      /\ \A p \in ps : \E i \in 1 .. c : o[i] = p
  BY <1>1, Listed
<1>3. n = [m EXCEPT !.queue = @ \o new, !.next = @ + c]
  BY DEF EnqueueEach
<1>4. m \in [base : [AllPath -> Baseline], obs : Nat, queue : Seq(MutationType), next : Nat \ {0},
             acts : SUBSET Act]
  BY DEF DurOK, Durable, MutationSeq
<1>5. n.queue = m.queue \o new /\ n.next = m.next + c
      /\ n.base = m.base /\ n.obs = m.obs /\ n.acts = m.acts
  BY <1>3, <1>4
<1> HIDE DEF n
<1>6. \A i \in 1 .. c : x(i) \in MutationType
  <2> SUFFICES ASSUME NEW i \in 1 .. c PROVE x(i) \in MutationType
    OBVIOUS
  <2>1. o[i] \in ps /\ o[i] \in AllPath /\ sha[o[i]] \in Content
    BY <1>2
  <2>2. Known(m, o[i]) \in Content
    BY <2>1, KnownTyped
  <2>3. m.next + i - 1 \in Nat \ {0}
    BY <1>2, QueueFacts
  <2> QED
    BY <2>1, <2>2, <2>3, MutationTyped
<1>7. new \in Seq(MutationType) /\ Len(new) = c /\ \A i \in 1 .. c : new[i] = x(i)
  <2> HIDE DEF x
  <2>1. new \in [1 .. c -> MutationType]
    BY <1>6
  <2> QED
    BY <1>2, <2>1
<1> HIDE DEF new
<1>8. /\ n.queue \in Seq(MutationType) /\ Len(n.queue) = L + c
      /\ \A i \in 1 .. L : n.queue[i] = m.queue[i]
      /\ \A i \in 1 .. c : n.queue[L + i] = x(i)
  <2> HIDE DEF x
  <2>1. /\ m.queue \o new \in Seq(MutationType)
        /\ Len(m.queue \o new) = Len(m.queue) + Len(new)
        /\ \A i \in 1 .. Len(m.queue) + Len(new) : (m.queue \o new)[i] =
             IF i <= Len(m.queue) THEN m.queue[i] ELSE new[i - Len(m.queue)]
    <3>1. m.queue \in Seq(MutationType) /\ new \in Seq(MutationType)
      BY <1>7, QueueFacts
    <3> QED
      BY <3>1, ConcatProperties
  <2> QED
    BY <1>2, <1>5, <1>7, <2>1, QueueFacts
<1>9. n \in Durable
  <2> HIDE DEF x, c
  <2> DEFINE q == m.queue \o new
             z == m.next + c
  <2>1. n = [m EXCEPT !.queue = q, !.next = z]
    BY <1>3, <1>4
  <2>2. q \in MutationSeq
    BY <1>5, <1>8 DEF MutationSeq
  <2>3. z \in Nat \ {0} /\ m \in Durable
    BY <1>2, QueueFacts DEF DurOK
  <2> HIDE DEF q, z
  <2> QED
    BY <2>1, <2>2, <2>3 DEF Durable
<1>10. \A i \in 1 .. c : n.queue[L + i].seq = m.next + i - 1
  <2>1. \A i \in 1 .. c : x(i).seq = m.next + i - 1
    OBVIOUS
  <2> HIDE DEF x, L, c
  <2> QED
    BY <1>8, <2>1
<1>11. \A i \in 1 .. Len(n.queue) : i \in 1 .. L \/ (i - L \in 1 .. c /\ i = L + (i - L))
  BY <1>2, <1>8, QueueFacts
<1> HIDE DEF x
<1>12. DurOK(n)
  <2> SUFFICES ASSUME NEW i \in 1 .. Len(n.queue) PROVE n.queue[i].seq < n.next
    BY <1>9 DEF DurOK
  <2>1. CASE i \in 1 .. L
    BY <1>2, <1>5, <1>8, <2>1, QueueFacts
  <2>2. CASE i - L \in 1 .. c /\ i = L + (i - L)
    <3>1. n.queue[i].seq = m.next + (i - L) - 1
      BY <1>10, <2>2
    <3> QED
      BY <1>2, <1>5, <2>2, <3>1, QueueFacts
  <2> QED
    BY <1>11, <2>1, <2>2
<1>13. ASSUME NEW mark \in Nat, Chained(m, mark) PROVE Chained(n, mark)
  <2>1. n.next - 1 - Len(n.queue) = m.next - 1 - Len(m.queue)
    BY <1>2, <1>5, <1>8, QueueFacts
  <2>2. ASSUME NEW i \in 1 .. Len(n.queue)
        PROVE  n.queue[i].seq = m.next - 1 - Len(m.queue) + i
    <3>1. CASE i \in 1 .. L
      BY <1>8, <1>13, <3>1 DEF Chained
    <3>2. CASE i - L \in 1 .. c /\ i = L + (i - L)
      <4>1. n.queue[i].seq = m.next + (i - L) - 1
        BY <1>10, <3>2
      <4> QED
        BY <3>2, <4>1, QueueFacts
    <3> QED
      BY <1>11, <3>1, <3>2
  <2> QED
    BY <1>13, <2>1, <2>2 DEF Chained
<1>14. \A p \in ps : \E i \in DOMAIN n.queue :
          n.queue[i].kind = k /\ n.queue[i].path = p /\ n.queue[i].sha = sha[p]
  <2> SUFFICES ASSUME NEW p \in ps
               PROVE  \E i \in DOMAIN n.queue :
                        n.queue[i].kind = k /\ n.queue[i].path = p /\ n.queue[i].sha = sha[p]
    OBVIOUS
  <2>1. PICK i \in 1 .. c : o[i] = p
    BY <1>2
  <2>2. L + i \in DOMAIN n.queue
    BY <1>2, <1>8, QueueFacts
  <2>3. n.queue[L + i].kind = k /\ n.queue[L + i].path = p /\ n.queue[L + i].sha = sha[p]
    <3>1. x(i).kind = k /\ x(i).path = o[i] /\ x(i).sha = sha[o[i]]
      BY DEF x
    <3>2. n.queue[L + i] = x(i)
      BY <1>8
    <3> QED
      BY <2>1, <3>1, <3>2
  <2> QED
    BY <2>2, <2>3
<1>17. Grows(m, n, k)
  <2>1. \A i \in 1 .. c : x(i).kind = k
    BY DEF x
  <2>2. \A i \in 1 .. c : n.queue[L + i].kind = k
    BY <1>8, <2>1
  <2> HIDE DEF c
  <2> QED
    BY <1>11, <2>2 DEF Grows
<1> HIDE DEF c, o
<1>15. n.next >= m.next /\ Len(n.queue) >= Len(m.queue)
  BY <1>2, <1>5, <1>8, QueueFacts
<1>16. Extends(m, n)
  BY <1>8, <1>12, <1>13, <1>15 DEF Extends
<1> QED
  BY <1>5, <1>14, <1>16, <1>17 DEF Added, n

\* How many of the first mutations a watermark covers.
Accepted(m, mark) == Cardinality({i \in DOMAIN m.queue : m.queue[i].seq <= mark})

\* What is above a watermark is an end of the queue.
LEMMA RestFacts ==
  ASSUME NEW m, DurOK(m), NEW mark \in Nat
  PROVE  /\ Accepted(m, mark) \in 0 .. Len(m.queue)
         /\ Unconfirmed(m, mark) \in Seq(MutationType)
         /\ Len(Unconfirmed(m, mark)) = Len(m.queue) - Accepted(m, mark)
         /\ \A i \in 1 .. Len(m.queue) - Accepted(m, mark) :
               Unconfirmed(m, mark)[i] = m.queue[Accepted(m, mark) + i]
         /\ \A i \in 1 .. Len(Unconfirmed(m, mark)) : Unconfirmed(m, mark)[i].seq < m.next
<1> DEFINE k == Accepted(m, mark)
           L == Len(m.queue)
           I == {i \in DOMAIN m.queue : m.queue[i].seq <= mark}
           u == SubSeq(m.queue, k + 1, L)
<1>1. L \in Nat /\ DOMAIN m.queue = 1 .. L
  BY QueueFacts
<1>2. IsFiniteSet(1 .. L) /\ Cardinality(1 .. L) = L
  <2> HIDE DEF L
  <2> QED
    BY <1>1, FS_Interval
<1>3. I \in SUBSET (1 .. L)
  BY <1>1
<1> HIDE DEF I, k
<1>4. IsFiniteSet(I) /\ Cardinality(I) <= L
  BY <1>2, <1>3, FS_Subset
<1>5. Cardinality(I) \in Nat
  BY <1>4, FS_CardinalityType
<1>6. k = Cardinality(I)
  BY DEF I, k, Accepted
<1>7. k \in 0 .. L
  BY <1>1, <1>4, <1>5, <1>6
<1>8. \A i \in k + 1 .. L : m.queue[i] \in MutationType
  BY <1>7, QueueFacts
<1>9. /\ u \in Seq(MutationType)
      /\ Len(u) = IF k + 1 <= L THEN L - (k + 1) + 1 ELSE 0
      /\ \A i \in 1 .. L - (k + 1) + 1 : u[i] = m.queue[k + 1 + i - 1]
  <2> DEFINE a == k + 1
  <2>1. a \in Int /\ L \in Int /\ \A i \in a .. L : m.queue[i] \in MutationType
    BY <1>1, <1>7, <1>8
  <2> HIDE DEF a, L
  <2>2. /\ SubSeq(m.queue, a, L) \in Seq(MutationType)
        /\ Len(SubSeq(m.queue, a, L)) = IF a <= L THEN L - a + 1 ELSE 0
        /\ \A i \in 1 .. L - a + 1 : SubSeq(m.queue, a, L)[i] = m.queue[a + i - 1]
    BY <2>1, SubSeqProperties
  <2> QED
    BY <2>2 DEF a
<1>10. Len(u) = L - k
  BY <1>1, <1>7, <1>9
<1>11. \A i \in 1 .. L - k : u[i] = m.queue[k + i]
  <2> SUFFICES ASSUME NEW i \in 1 .. L - k PROVE u[i] = m.queue[k + i]
    OBVIOUS
  <2>1. i \in 1 .. L - (k + 1) + 1 /\ k + 1 + i - 1 = k + i
    BY <1>1, <1>7
  <2> QED
    BY <1>9, <2>1
<1>12. u = Unconfirmed(m, mark)
  BY DEF Unconfirmed, k, Accepted
<1>13. \A i \in 1 .. L - k : k + i \in 1 .. L
  BY <1>1, <1>7
<1>14. \A i \in 1 .. L - k : u[i].seq < m.next
  BY <1>11, <1>13, QueueFacts
<1> HIDE DEF u
<1>15. /\ k \in 0 .. L
       /\ Unconfirmed(m, mark) \in Seq(MutationType)
       /\ Len(Unconfirmed(m, mark)) = L - k
       /\ \A i \in 1 .. L - k : Unconfirmed(m, mark)[i] = m.queue[k + i]
  BY <1>7, <1>9, <1>10, <1>11, <1>12
<1>16. \A i \in 1 .. Len(Unconfirmed(m, mark)) : Unconfirmed(m, mark)[i].seq < m.next
  BY <1>10, <1>12, <1>14
<1> QED
  BY <1>15, <1>16 DEF k

\* What is above the watermark of a chain continues it.
LEMMA RestContinues ==
  ASSUME NEW m, DurOK(m), NEW mark \in Nat, Chained(m, mark)
  PROVE  /\ Continues(m, mark)
         /\ Len(Unconfirmed(m, mark)) = IF mark < m.next THEN m.next - 1 - mark ELSE 0
         /\ \A i \in 1 .. Len(Unconfirmed(m, mark)) : Unconfirmed(m, mark)[i].seq = mark + i
<1> DEFINE L == Len(m.queue)
           b == m.next - 1 - L
           n == IF mark - b <= L THEN mark - b ELSE L
           I == {i \in DOMAIN m.queue : m.queue[i].seq <= mark}
           u == Unconfirmed(m, mark)
<1>1. L \in Nat /\ DOMAIN m.queue = 1 .. L /\ m.next \in Nat
  BY QueueFacts
<1>2. b \in 0 .. mark /\ \A i \in 1 .. L : m.queue[i].seq = b + i
  BY DEF Chained
<1>3. n \in 0 .. L
  BY <1>1, <1>2
<1>4. I = 1 .. n
  <2>1. \A i \in 1 .. L : m.queue[i].seq <= mark <=> i <= n
    BY <1>1, <1>2
  <2> HIDE DEF n
  <2> QED
    BY <1>1, <1>3, <2>1
<1>5. Cardinality(I) = n
  <2> HIDE DEF n
  <2>1. Cardinality(1 .. n) = n
    BY <1>3, FS_Interval
  <2> QED
    BY <1>4, <2>1
<1>6. /\ u \in Seq(MutationType)
      /\ Len(u) = L - n
      /\ \A i \in 1 .. L - n : u[i] = m.queue[n + i]
  <2>1. n = Accepted(m, mark)
    BY <1>5 DEF Accepted
  <2> HIDE DEF n
  <2> QED
    BY <2>1, RestFacts
<1>7. \A i \in 1 .. Len(u) : u[i].seq = mark + i
  <2> SUFFICES ASSUME NEW i \in 1 .. Len(u) PROVE u[i].seq = mark + i
    OBVIOUS
  <2>1. n + i \in 1 .. L /\ n = mark - b
    <3>1. L \in Nat /\ b \in 0 .. mark /\ n \in 0 .. L /\ Len(u) = L - n
      BY <1>1, <1>2, <1>3, <1>6
    <3>2. n = IF mark - b <= L THEN mark - b ELSE L
      OBVIOUS
    <3> HIDE DEF b, n, L, u
    <3> QED
      BY <3>1, <3>2
  <2>2. u[i].seq = b + (n + i)
    BY <1>2, <1>6, <2>1
  <2> HIDE DEF n
  <2> QED
    BY <1>1, <1>2, <2>1, <2>2
<1>8. DOMAIN u = 1 .. Len(u)
  BY <1>6, LenProperties
<1>9. Len(u) = IF mark < m.next THEN m.next - 1 - mark ELSE 0
  <2> DEFINE a == m.next
             c == Len(u)
  <2>1. L \in Nat /\ a \in Nat /\ b = a - 1 - L /\ b \in 0 .. mark /\ c = L - n
    BY <1>1, <1>2, <1>6
  <2>2. n = IF mark - b <= L THEN mark - b ELSE L
    OBVIOUS
  <2> HIDE DEF a, b, c, n, L
  <2>3. c = IF mark < a THEN a - 1 - mark ELSE 0
    BY <2>1, <2>2
  <2> QED
    BY <2>3 DEF a, c
<1> QED
  BY <1>7, <1>8, <1>9 DEF Continues

\* A confirmation takes the queue to the watermark.
Reduced(m, mark) == [m EXCEPT !.queue = Unconfirmed(m, mark)]

LEMMA Confirmation ==
  ASSUME NEW m, DurOK(m), NEW mark \in Nat, NEW n, n = Reduced(m, mark)
  PROVE  /\ DurOK(n)
         /\ n.base = m.base /\ n.obs = m.obs /\ n.next = m.next /\ n.acts = m.acts
         /\ mark < m.next /\ Chained(m, mark) => Chained(n, mark)
<1> DEFINE q == Unconfirmed(m, mark)
<1>1. m \in Durable
  BY DEF DurOK
<1>2. q \in Seq(MutationType) /\ \A i \in 1 .. Len(q) : q[i].seq < m.next
  BY RestFacts
<1>3. ASSUME mark < m.next, Chained(m, mark)
      PROVE  Len(q) = m.next - 1 - mark /\ \A i \in 1 .. Len(q) : q[i].seq = mark + i
  BY <1>3, RestContinues
<1> HIDE DEF q
<1>4. n = [m EXCEPT !.queue = q]
  BY DEF q, Reduced
<1>5. n.queue = q /\ n.base = m.base /\ n.obs = m.obs /\ n.next = m.next /\ n.acts = m.acts
  BY <1>1, <1>4 DEF Durable
<1>6. n \in Durable
  BY <1>1, <1>2, <1>4 DEF Durable, MutationSeq
<1>7. ASSUME mark < m.next, Chained(m, mark) PROVE Chained(n, mark)
  <2>1. n.next - 1 - Len(n.queue) = mark
    BY <1>3, <1>5, <1>7, QueueFacts
  <2>2. \A i \in 1 .. Len(n.queue) : n.queue[i].seq = mark + i
    BY <1>3, <1>5, <1>7
  <2> QED
    BY <2>1, <2>2 DEF Chained
<1> QED
  BY <1>2, <1>5, <1>6, <1>7 DEF DurOK

\* So does a load, which also raises the next sequence above the watermark.
Reloaded(m, mark) == [m EXCEPT !.queue = Unconfirmed(m, mark), !.next = Floor(m, mark)]

LEMMA Reloading ==
  ASSUME NEW m, DurOK(m), NEW mark \in Nat, NEW n, n = Reloaded(m, mark)
  PROVE  /\ DurOK(n)
         /\ n.base = m.base /\ n.obs = m.obs /\ n.acts = m.acts
         /\ mark < n.next
         /\ Chained(m, mark) => Chained(n, mark)
<1> DEFINE q == Unconfirmed(m, mark)
           z == Floor(m, mark)
<1>1. m \in Durable /\ m.next \in Nat \ {0}
  BY QueueFacts DEF DurOK
<1>2. q \in Seq(MutationType) /\ \A i \in 1 .. Len(q) : q[i].seq < m.next
  BY RestFacts
<1>3. Len(q) \in Nat
  BY <1>2, LenProperties
<1>4. z = IF m.next < mark + Len(q) + 1 THEN mark + Len(q) + 1 ELSE m.next
  BY DEF Floor, HigherMark
<1>5. ASSUME Chained(m, mark)
      PROVE  /\ Len(q) = IF mark < m.next THEN m.next - 1 - mark ELSE 0
             /\ \A i \in 1 .. Len(q) : q[i].seq = mark + i
  BY <1>5, RestContinues
<1> HIDE DEF q, z
<1>6. z \in Nat \ {0} /\ z >= m.next /\ mark < z
  BY <1>1, <1>3, <1>4
<1>7. n = [m EXCEPT !.queue = q, !.next = z]
  BY DEF q, z, Reloaded
<1>8. n.queue = q /\ n.base = m.base /\ n.obs = m.obs /\ n.next = z /\ n.acts = m.acts
  BY <1>1, <1>7 DEF Durable
<1>9. n \in Durable
  BY <1>1, <1>2, <1>6, <1>7 DEF Durable, MutationSeq
<1>10. \A i \in 1 .. Len(q) : q[i].seq < z
  <2>1. \A i \in 1 .. Len(q) : q[i] \in MutationType
    BY <1>2, LenProperties
  <2>2. \A i \in 1 .. Len(q) : q[i].seq \in Nat
    BY <2>1 DEF MutationType
  <2> QED
    BY <1>1, <1>2, <1>6, <2>2
<1>11. ASSUME Chained(m, mark) PROVE Chained(n, mark)
  <2>1. n.next - 1 - Len(n.queue) = mark
    BY <1>1, <1>3, <1>4, <1>5, <1>8, <1>11
  <2>2. \A i \in 1 .. Len(n.queue) : n.queue[i].seq = mark + i
    BY <1>5, <1>8, <1>11
  <2> QED
    BY <2>1, <2>2 DEF Chained
<1> QED
  BY <1>6, <1>8, <1>9, <1>10, <1>11 DEF DurOK

\* A watermark is staged below the next sequence.
LEMMA StagedBelow ==
  ASSUME NEW m, DurOK(m), NEW mark \in Nat, mark < m.next
  PROVE  /\ StagedAll(m, mark) \in Nat /\ StagedAll(m, mark) < m.next
         /\ \A x \in Nat : x < m.next => /\ Staged(mark, x) \in Nat
                                         /\ Staged(mark, x) < m.next
                                         /\ Staged(mark, x) >= mark
<1>1. CASE \E i \in DOMAIN m.queue : m.queue[i].seq = mark + 1
  <2>1. Len(m.queue) \in 1 .. Len(m.queue)
    BY <1>1, QueueFacts
  <2>2. StagedAll(m, mark) = m.queue[Len(m.queue)].seq
    BY <1>1 DEF StagedAll
  <2> QED
    BY <2>1, <2>2, QueueFacts DEF Staged
<1>2. CASE ~ \E i \in DOMAIN m.queue : m.queue[i].seq = mark + 1
  BY <1>2 DEF StagedAll, Staged
<1> QED
  BY <1>1, <1>2

----------------------------------------------------------------------------
(* Files, indexes and entries.                                             *)

LEMMA Numbers ==
  /\ {MaxVersion, MaxDeletes, MaxFaults, MaxRevision} \subseteq Nat
  /\ Version = 0 .. MaxVersion /\ Version \subseteq Nat /\ 0 \in Version
  /\ Nil \in Content /\ Version \subseteq Content
  BY BoundsAssumption DEF Version, Content

LEMMA NamesOf ==
  ASSUME NEW p \in AllPath
  PROVE  /\ Named(p) \subseteq Content /\ Holds(p) \subseteq Content /\ Nil \in Holds(p)
         /\ \A x \in Holds(p) : x # Nil => x \in Named(p)
         /\ p \in Path => Named(p) = Content /\ Holds(p) = Content
         /\ \A q \in Path, v \in Version : p = CopyOf(q, v) => Named(p) = {v}
<1>1. p \in Path => \A q \in Path, v \in Version : p # CopyOf(q, v)
  BY CopiesAssumption
<1>2. ASSUME NEW q \in Path, NEW v \in Version, p = CopyOf(q, v)
      PROVE  Named(p) = {v}
  <2>1. \A a \in Path, w \in Version : p = CopyOf(a, w) => w = v
    BY <1>2 DEF CopyOf
  <2> QED
    BY <1>2, <2>1, Numbers DEF Named
<1> QED
  BY <1>1, <1>2, Numbers DEF Named, Holds

LEMMA CopyName ==
  ASSUME NEW p \in Path, NEW v \in Content, v # Nil
  PROVE  CopyOf(p, v) \in AllPath /\ v \in Named(CopyOf(p, v)) /\ v \in Version
<1>1. v \in Version
  BY DEF Content
<1>2. CopyOf(p, v) \in AllPath
  BY <1>1 DEF AllPath
<1> QED
  BY <1>1, <1>2, NamesOf

LEMMA PathIsPath ==
  ASSUME NEW p \in Path
  PROVE  p \in AllPath
  BY DEF AllPath

LEMMA FilesPut ==
  ASSUME NEW f, FilesOK(f), NEW p \in AllPath, NEW x \in Holds(p)
  PROVE  FilesOK([f EXCEPT ![p] = x])
  BY NamesOf DEF FilesOK

LEMMA FileOf ==
  ASSUME NEW f, FilesOK(f), NEW p \in AllPath
  PROVE  f[p] \in Content /\ f[p] \in Holds(p) /\ (f[p] # Nil => f[p] \in Named(p))
  BY NamesOf DEF FilesOK

LEMMA EntryOf ==
  ASSUME NEW c, IndexOK(c), NEW p \in AllPath, c.files[p] # None
  PROVE  /\ c.files[p] \in Entry /\ c.files[p] \in Says(p)
         /\ c.files[p].sha \in Content /\ c.files[p].dead \in Flag
         /\ c.files[p].rev \in Revision /\ c.files[p].fp \in Content /\ c.files[p].seq \in Nat
         /\ Live(c.files[p]) => c.files[p].sha \in Named(p)
<1>1. c.files[p] \in Says(p)
  BY DEF IndexOK
<1>2. c.files[p] \in Entry /\ (Live(c.files[p]) => c.files[p].sha \in Named(p))
  BY <1>1 DEF Says, Live
<1> HIDE DEF IndexOK
<1> QED
  BY <1>1, <1>2 DEF Entry

LEMMA EntryIsSome ==
  ASSUME NEW p, NEW e \in Says(p)
  PROVE  e # None /\ e \in Entry
  BY NoneAssumption DEF Says

LEMMA IndexMarks ==
  ASSUME NEW c, IndexOK(c)
  PROVE  c.rev \in Nat /\ c.wm \in [Device -> Nat] /\ DOMAIN c.files = AllPath
         /\ \A d \in Device : c.wm[d] \in Nat
  BY DEF IndexOK, Index

LEMMA IndexFiles ==
  ASSUME NEW c, IndexOK(c), NEW f, DOMAIN f = AllPath, f = [p \in AllPath |-> f[p]],
         \A p \in AllPath : f[p] = None \/ f[p] \in Says(p)
  PROVE  /\ IndexOK([c EXCEPT !.files = f])
         /\ [c EXCEPT !.files = f].files = f /\ [c EXCEPT !.files = f].wm = c.wm
<1>1. f \in [AllPath -> Entry \cup {None}]
  BY DEF Says
<1>2. c \in [rev : Nat, files : [AllPath -> Entry \cup {None}], wm : [Device -> Nat]]
  BY DEF IndexOK, Index
<1>3. [c EXCEPT !.files = f] \in Index
  BY <1>1, <1>2 DEF Index
<1>4. [c EXCEPT !.files = f].files = f /\ [c EXCEPT !.files = f].wm = c.wm
  BY <1>2
<1> QED
  BY <1>3, <1>4 DEF IndexOK

LEMMA IndexPut ==
  ASSUME NEW c, IndexOK(c), NEW p \in AllPath, NEW e \in Says(p)
  PROVE  /\ IndexOK([c EXCEPT !.files[p] = e])
         /\ [c EXCEPT !.files[p] = e].files[p] = e
         /\ \A x \in AllPath \ {p} : [c EXCEPT !.files[p] = e].files[x] = c.files[x]
         /\ [c EXCEPT !.files[p] = e].wm = c.wm
<1> DEFINE f == [c.files EXCEPT ![p] = e]
<1>1. c \in [rev : Nat, files : [AllPath -> Entry \cup {None}], wm : [Device -> Nat]]
  BY DEF IndexOK, Index
<1>2. [c EXCEPT !.files[p] = e] = [c EXCEPT !.files = f]
  BY <1>1
<1>3. \A x \in AllPath : f[x] = IF x = p THEN e ELSE c.files[x]
  BY <1>1
<1>4. DOMAIN f = AllPath /\ f = [x \in AllPath |-> f[x]]
  BY <1>1
<1>5. \A x \in AllPath : f[x] = None \/ f[x] \in Says(x)
  BY <1>3 DEF IndexOK
<1>6. /\ IndexOK([c EXCEPT !.files = f])
      /\ [c EXCEPT !.files = f].files = f /\ [c EXCEPT !.files = f].wm = c.wm
  <2> HIDE DEF f
  <2> QED
    BY <1>4, <1>5, IndexFiles
<1> HIDE DEF f
<1> QED
  BY <1>2, <1>3, <1>6

LEMMA IndexMark ==
  ASSUME NEW c, IndexOK(c), NEW d \in Device, NEW x \in Nat
  PROVE  /\ IndexOK([c EXCEPT !.wm[d] = x])
         /\ [c EXCEPT !.wm[d] = x].files = c.files
         /\ [c EXCEPT !.wm[d] = x].wm[d] = x
         /\ \A e \in Device \ {d} : [c EXCEPT !.wm[d] = x].wm[e] = c.wm[e]
<1> DEFINE n == [c EXCEPT !.wm[d] = x]
<1>1. c \in [rev : Nat, files : [AllPath -> Entry \cup {None}], wm : [Device -> Nat]]
  BY DEF IndexOK, Index
<1>2. n \in Index
  BY <1>1 DEF Index
<1>3. n.files = c.files /\ n.wm[d] = x /\ \A e \in Device \ {d} : n.wm[e] = c.wm[e]
  BY <1>1
<1> HIDE DEF n
<1>4. IndexOK(n)
  BY <1>2, <1>3 DEF IndexOK
<1> QED
  BY <1>3, <1>4 DEF n

LEMMA PutEntrySays ==
  ASSUME NEW p, NEW d \in Device, NEW x, x.seq \in Nat, NEW sha \in Named(p),
         sha \in Content, NEW dead \in {FALSE, Nil}, NEW fp \in Content
  PROVE  PutEntry(d, x, sha, dead, Nil, fp) \in Says(p)
         /\ PutEntry(d, x, sha, dead, Nil, fp).by \in Device
  BY DEF PutEntry, Says, Entry, Flag, Revision

LEMMA BaselineTyped ==
  /\ \A c \in Entry : BaselineOf(c) \in Baseline
  /\ \A c \in Entry \cup {None}, x \in Content : Confirmed(x, c) \in Baseline
  /\ \A x \in Content : Transferred(x) \in Baseline
  /\ \A b \in Baseline : DeadBaseline(b) \in Baseline
<1>1. \A c \in Entry : c.sha \in Content /\ c.dead \in Flag /\ c.rev \in Revision
  BY DEF Entry
<1>2. Nil \in Flag /\ FALSE \in Flag /\ TRUE \in Flag /\ Nil \in Revision
  BY DEF Flag, Revision
<1>3. ASSUME NEW b \in Baseline PROVE DeadBaseline(b) \in Baseline
  <2>1. CASE b = None
    BY <2>1 DEF DeadBaseline, Baseline
  <2>2. CASE b # None
    <3>1. b \in [sha : Content, dead : Flag, rev : Revision]
      BY <2>2 DEF Baseline
    <3>2. [b EXCEPT !.dead = TRUE] \in [sha : Content, dead : Flag, rev : Revision]
      BY <1>2, <3>1
    <3> QED
      BY <2>2, <3>2 DEF DeadBaseline, Baseline
  <2> QED
    BY <2>1, <2>2
<1>4. \A c \in Entry : BaselineOf(c) \in Baseline
  BY <1>1 DEF BaselineOf, Baseline
<1>5. \A x \in Content : Transferred(x) \in Baseline
  BY <1>2 DEF Transferred, Baseline
<1>6. \A c \in Entry \cup {None}, x \in Content : Confirmed(x, c) \in Baseline
  BY <1>1, <1>2 DEF Confirmed, Baseline
<1> QED
  BY <1>3, <1>4, <1>5, <1>6

----------------------------------------------------------------------------
(* Steps of a session in general.                                          *)

LEMMA IdleFields ==
  /\ DOMAIN Idle = Fields
  /\ Idle.pc = "idle"
  BY DEF Idle, Fields

\* A device that is at a place has a session there.
LEMMA Runs ==
  ASSUME Inv, NEW d \in Device, ses[d].pc # "idle"
  PROVE  Running(ses[d], mem[d], canon, d)
  BY IdleFields DEF Inv, DeviceOK, SesOK

LEMMA IdleFits ==
  ASSUME NEW m, NEW c, NEW d
  PROVE  SesOK(Idle, m, c, d)
  BY DEF SesOK

\* What a session works with does not depend on where it is.
LEMMA DataKept ==
  ASSUME NEW s, NEW t, NEW n \in Nat, NEW k \in Nat, k >= n, NEW c, IndexOK(c), NEW d \in Device,
         DataOK(s, n, c, d), Keeps(s, t, Steering \cup {"got"}), GotOK(t.got)
  PROVE  DataOK(t, k, c, d)
<1>1. /\ t.load = s.load /\ t.want = s.want /\ t.from = s.from /\ t.stamped = s.stamped
      /\ t.l = s.l /\ t.r = s.r /\ t.plan = s.plan /\ t.rejected = s.rejected
      /\ DOMAIN t = Fields
  BY DEF Keeps, Fields, Steering
<1>2. MarksOK(s.want.wm, c.wm, k, d)
  <2>1. s.want.wm[d] \in Nat
    BY IndexMarks DEF DataOK
  <2> QED
    BY <2>1 DEF DataOK, MarksOK
<1> QED
  BY <1>1, <1>2 DEF DataOK

\* A step of one device that leaves the canonical index alone keeps the
\* invariant if what it leaves behind fits, in memory (m) and as stored (k).
LEMMA DeviceStep ==
  ASSUME Inv, NEW d \in Device, NEW t, NEW m, NEW k,
         ses' = [ses EXCEPT ![d] = t], mem' = [mem EXCEPT ![d] = m],
         DOMAIN saved' = Device, saved'[d] = k, \A e \in Device \ {d} : saved'[e] = saved[e],
         DurOK(m), d \notin dropped => Chained(m, canon.wm[d]),
         DurOK(k), d \notin dropped => Chained(k, canon.wm[d]), SesOK(t, m, canon, d),
         canon' = canon, dropped' = dropped, FilesOK(disk'),
         DOMAIN vault' = Device, \A e \in Device : FilesOK(vault'[e]), CountsOK'
  PROVE  Inv'
<1>1. ShapesOK'
  BY DEF Inv, ShapesOK
<1>2. ASSUME NEW e \in Device PROVE DeviceOK(e)'
  <2>1. CASE e = d
    <3>1. ses'[e] = t /\ mem'[e] = m /\ saved'[e] = k
      BY <2>1 DEF Inv, ShapesOK
    <3>2. DurOK(mem'[e]) /\ DurOK(saved'[e]) /\ SesOK(ses'[e], mem'[e], canon, e)
      BY <2>1, <3>1
    <3>3. e \notin dropped => Chained(mem'[e], canon.wm[e]) /\ Chained(saved'[e], canon.wm[e])
      BY <2>1, <3>1
    <3> QED
      BY <3>2, <3>3 DEF DeviceOK, ChainsOK
  <2>2. CASE e # d
    <3>1. ses'[e] = ses[e] /\ mem'[e] = mem[e] /\ saved'[e] = saved[e]
      BY <2>2 DEF Inv, ShapesOK
    <3>2. DeviceOK(e)
      BY DEF Inv
    <3> QED
      BY <3>1, <3>2 DEF DeviceOK, ChainsOK
  <2> QED
    BY <2>1, <2>2
<1> QED
  BY <1>1, <1>2 DEF Inv

LEMMA SessionStep ==
  ASSUME Inv, NEW d \in Device, NEW t, NEW m, NEW save, Session(d, t, m, save),
         DurOK(m), d \notin dropped => Chained(m, canon.wm[d]), SesOK(t, m, canon, d),
         canon' = canon, dropped' = dropped, FilesOK(disk'),
         DOMAIN vault' = Device, \A e \in Device : FilesOK(vault'[e]), CountsOK'
  PROVE  Inv'
<1>1. ses' = [ses EXCEPT ![d] = t] /\ mem' = [mem EXCEPT ![d] = m]
  BY DEF Session
<1>2. DOMAIN saved' = Device /\ \A e \in Device \ {d} : saved'[e] = saved[e]
  BY DEF Session, Inv, ShapesOK
<1>3. CASE saved'[d] = m
  BY <1>1, <1>2, <1>3, DeviceStep
<1>4. CASE saved'[d] = saved[d]
  <2>1. DurOK(saved[d]) /\ (d \notin dropped => Chained(saved[d], canon.wm[d]))
    BY DEF Inv, DeviceOK, ChainsOK
  <2> QED
    BY <1>1, <1>2, <1>4, <2>1, DeviceStep
<1> QED
  BY <1>3, <1>4 DEF Session, Inv, ShapesOK

\* Most steps touch no file.
LEMMA QuietStep ==
  ASSUME Inv, NEW d \in Device, NEW t, NEW m, NEW save, Session(d, t, m, save),
         DurOK(m), d \notin dropped => Chained(m, canon.wm[d]), SesOK(t, m, canon, d),
         UNCHANGED <<canon, disk, vault, kept, dropped, past, made, deletes>>,
         faults' \in 0 .. MaxFaults
  PROVE  Inv'
<1>1. FilesOK(disk') /\ DOMAIN vault' = Device /\ \A e \in Device : FilesOK(vault'[e])
  BY DEF Inv, DeviceOK, ShapesOK
<1>2. CountsOK'
  BY DEF Inv, CountsOK
<1> QED
  BY <1>1, <1>2, SessionStep

\* With the durable state as it was.
LEMMA SteerStep ==
  ASSUME Inv, NEW d \in Device, NEW t, NEW save, Session(d, t, mem[d], save),
         SesOK(t, mem[d], canon, d),
         UNCHANGED <<canon, disk, vault, kept, dropped, past, made, deletes>>,
         faults' \in 0 .. MaxFaults
  PROVE  Inv'
<1>1. DurOK(mem[d]) /\ ChainsOK(d)
  BY DEF Inv, DeviceOK
<1> QED
  BY <1>1, QuietStep DEF ChainsOK

LEMMA FaultsKept ==
  ASSUME Inv
  PROVE  /\ UNCHANGED faults => faults' \in 0 .. MaxFaults
         /\ faults < MaxFaults /\ faults' = faults + 1 => faults' \in 0 .. MaxFaults
  BY Numbers DEF Inv, CountsOK

\* Facts about the state of a device that the steps below start from.
LEMMA DeviceFacts ==
  ASSUME Inv, NEW d \in Device
  PROVE  /\ DurOK(mem[d]) /\ mem[d].next \in Nat /\ mem[d].next >= mem[d].next
         /\ d \notin dropped => Chained(mem[d], canon.wm[d])
         /\ FilesOK(vault[d]) /\ FilesOK(disk) /\ IndexOK(canon)
         /\ canon.wm[d] \in Nat
         /\ mem[d] \in Durable
<1>1. DurOK(mem[d]) /\ ChainsOK(d) /\ FilesOK(vault[d]) /\ FilesOK(disk) /\ IndexOK(canon)
  BY DEF Inv, DeviceOK
<1> QED
  BY <1>1, QueueFacts, IndexMarks DEF ChainsOK, DurOK

\* A step that only moves a session, which stays where its work fits.
LEMMA MoveStep ==
  ASSUME Inv, NEW d \in Device, ses[d].pc # "idle", NEW t, NEW save,
         Session(d, t, mem[d], save), Keeps(ses[d], t, Steering \cup {"got"}), GotOK(t.got),
         PlaceOK(t, mem[d]),
         UNCHANGED <<canon, disk, vault, kept, dropped, past, made, deletes>>,
         faults' \in 0 .. MaxFaults
  PROVE  Inv'
<1>1. DataOK(ses[d], mem[d].next, canon, d)
  BY Runs DEF Running
<1>2. DataOK(t, mem[d].next, canon, d)
  BY <1>1, DeviceFacts, DataKept
<1> QED
  BY <1>2, SteerStep DEF SesOK, Running

----------------------------------------------------------------------------
(* Sessions that end, and users.                                           *)

LEMMA FailKeeps ==
  ASSUME Inv, NEW d \in Device, Fail(d) \/ FailStored(d)
  PROVE  Inv'
<1>1. PICK save : Session(d, Idle, mem[d], save)
  BY DEF Fail, FailStored
<1>2. UNCHANGED <<canon, disk, vault, kept, dropped, past, made, deletes, faults>>
  BY DEF Fail, FailStored, users
<1> QED
  BY <1>1, <1>2, SteerStep, IdleFits, FaultsKept

LEMMA AbortKeeps ==
  ASSUME Inv, NEW d \in Device, Abort(d)
  PROVE  Inv'
<1>1. PICK save \in BOOLEAN : Session(d, Idle, mem[d], save)
  BY DEF Abort
<1>2. UNCHANGED <<canon, disk, vault, kept, dropped, past, made, deletes>>
  BY DEF Abort, users
<1>3. faults' \in 0 .. MaxFaults
  BY FaultsKept DEF Abort
<1> QED
  BY <1>1, <1>2, <1>3, SteerStep, IdleFits

LEMMA CrashKeeps ==
  ASSUME Inv, NEW d \in Device, Crash(d)
  PROVE  Inv'
<1>1. /\ ses' = [ses EXCEPT ![d] = Idle] /\ mem' = [mem EXCEPT ![d] = saved[d]]
      /\ UNCHANGED <<canon, disk, vault, saved, kept, dropped, past, made, deletes>>
  BY DEF Crash, users
<1>2. faults' \in 0 .. MaxFaults
  BY FaultsKept DEF Crash
<1>3. ShapesOK' /\ CountsOK'
  BY <1>1, <1>2 DEF Inv, ShapesOK, CountsOK
<1>4. ASSUME NEW e \in Device PROVE DeviceOK(e)'
  <2>1. DeviceOK(e)
    BY DEF Inv
  <2>2. CASE e = d
    <3>1. ses'[e] = Idle /\ mem'[e] = saved[e]
      BY <1>1, <2>2 DEF Inv, ShapesOK
    <3> QED
      BY <1>1, <2>1, <3>1, IdleFits DEF DeviceOK, ChainsOK
  <2>3. CASE e # d
    <3>1. ses'[e] = ses[e] /\ mem'[e] = mem[e]
      BY <1>1, <2>3 DEF Inv, ShapesOK
    <3> QED
      BY <1>1, <2>1, <3>1 DEF DeviceOK, ChainsOK
  <2> QED
    BY <2>2, <2>3
<1> QED
  BY <1>1, <1>3, <1>4 DEF Inv

\* What a user does to a vault fits the names there.
LEMMA UserKeeps ==
  ASSUME Inv, NEW d \in Device, User(d)
  PROVE  Inv'
<1>1. PICK p \in Path : UserWrite(d, p) \/ UserDelete(d, p)
  BY DEF User
<1>2. p \in AllPath /\ Named(p) = Content
  BY PathIsPath, NamesOf
<1>3. UNCHANGED <<canon, disk, mem, saved, ses, dropped, kept, faults>>
  BY <1>1 DEF UserWrite, UserDelete
<1>4. PICK x : x \in Content /\ vault' = [vault EXCEPT ![d][p] = x]
  <2>1. CASE UserWrite(d, p)
    <3>1. made + 1 \in Content
      <4>1. made \in 0 .. MaxVersion /\ made < MaxVersion /\ MaxVersion \in Nat
        BY <2>1, Numbers DEF UserWrite, Inv, CountsOK
      <4>2. made + 1 \in 0 .. MaxVersion
        BY <4>1
      <4> QED
        BY <4>2, Numbers
    <3> QED
      BY <2>1, <3>1, Zenon DEF UserWrite
  <2>2. CASE UserDelete(d, p)
    BY <2>2, Numbers, Zenon DEF UserDelete
  <2> QED
    BY <1>1, <2>1, <2>2
<1>5. x \in Holds(p)
  BY <1>2, <1>4, NamesOf
<1>6. vault[d][p] \in Content
  BY <1>2, DeviceFacts, FileOf
<1>7. CountsOK'
  BY <1>1, <1>3, <1>6, Numbers DEF UserWrite, UserDelete, Inv, CountsOK, Content
<1>8. /\ DOMAIN vault' = Device
      /\ \A e \in Device : vault'[e] = IF e = d THEN [vault[d] EXCEPT ![p] = x] ELSE vault[e]
  BY <1>4 DEF Inv, ShapesOK
<1>9. FilesOK([vault[d] EXCEPT ![p] = x])
  BY <1>2, <1>5, DeviceFacts, FilesPut
<1>10. ASSUME NEW e \in Device PROVE FilesOK(vault'[e])
  BY <1>8, <1>9 DEF Inv, DeviceOK
<1>11. ASSUME NEW e \in Device PROVE DeviceOK(e)'
  BY <1>3, <1>10 DEF Inv, DeviceOK, ChainsOK
<1>12. ShapesOK'
  BY <1>3, <1>8 DEF Inv, ShapesOK
<1> QED
  BY <1>3, <1>7, <1>11, <1>12 DEF Inv

----------------------------------------------------------------------------
(* Steps that move a session on.                                           *)

LEMMA KeepsMore ==
  ASSUME NEW s, NEW t, NEW F, NEW G, F \subseteq G, Keeps(s, t, F)
  PROVE  Keeps(s, t, G)
  BY DEF Keeps

\* What the next group of a plan has to do is there.
LEMMA EnterPlace ==
  ASSUME NEW s, NEW m, DOMAIN s = Fields, PlanOK(s.plan, s.l),
         s.at # Nil => s.at \in Conflicts(s.l),
         NEW group \in {"upload", "download", "delete", "conflict"},
         group = "upload" => \A p \in Ops(s, {"upload"}) : Puttable(m, s.l, p),
         NEW t, t = Enter(s, group)
  PROVE  Keeps(s, t, {"pc", "todo"}) /\ PlaceOK(t, m)
<1> DEFINE Later == {"upload", "download", "settle", "intent", "conflict", "final"}
<1>1. PICK pc, todo :
         /\ pc \in Later
         /\ t = [s EXCEPT !.pc = pc, !.todo = todo]
         /\ pc = "upload" => group = "upload" /\ todo = Ops(s, {"upload"})
         /\ pc = "download" => todo = Ops(s, {"download"})
         /\ pc = "conflict" => todo = Ops(s, {"conflict"})
         /\ pc \in {"settle", "intent", "final"} => todo = {}
  <2> DEFINE pick(pc, todo) == [s EXCEPT !.pc = pc, !.todo = todo]
             U == Ops(s, {"upload"})
             D == Ops(s, {"download"})
             C == Ops(s, {"conflict"})
  <2>1. \/ group = "upload" /\ t = pick("upload", U)
        \/ t = pick("download", D) \/ t = pick("settle", {})
        \/ t = pick("intent", {}) \/ t = pick("conflict", C) \/ t = pick("final", {})
    <3> HIDE DEF U, D, C
    <3> QED
      BY DEF Enter, U, D, C
  <2> HIDE DEF U, D, C
  <2> DEFINE Fits(pc, todo) ==
               /\ pc \in Later
               /\ t = pick(pc, todo)
               /\ pc = "upload" => group = "upload" /\ todo = U
               /\ pc = "download" => todo = D
               /\ pc = "conflict" => todo = C
               /\ pc \in {"settle", "intent", "final"} => todo = {}
  <2>2. \/ Fits("upload", U) \/ Fits("download", D) \/ Fits("settle", {})
        \/ Fits("intent", {}) \/ Fits("conflict", C) \/ Fits("final", {})
    BY <2>1
  <2>3. \E pc, todo : Fits(pc, todo)
    <3> HIDE DEF Fits
    <3> QED
      BY <2>2
  <2> QED
    BY <2>3 DEF U, D, C
<1>2. Keeps(s, t, {"pc", "todo"}) /\ t.pc = pc /\ t.todo = todo
  BY <1>1 DEF Keeps, Fields
<1>3. t.l = s.l /\ t.at = s.at /\ t.ret = s.ret
  BY <1>2 DEF Keeps, Fields
<1>4. Ops(s, {"conflict"}) \subseteq Conflicts(s.l) /\ Ops(s, {"download"}) \subseteq AllPath
  BY DEF Ops, PlanOK
<1>5. TodoOK(t.pc, t.todo, t.l, m)
  BY <1>1, <1>2, <1>3, <1>4 DEF TodoOK
<1>6. AtOK(t.pc, t.at, t.l)
  BY <1>1, <1>2, <1>3 DEF AtOK
<1>7. EarlyOK(t)
  BY <1>1, <1>2 DEF EarlyOK, EarlyPC
<1>8. t.pc \in PCs \ {"idle"} /\ t.pc # "physical"
  BY <1>1, <1>2 DEF PCs
<1> QED
  BY <1>2, <1>5, <1>6, <1>7, <1>8 DEF PlaceOK

LEMMA PhysicalDoneKeeps ==
  ASSUME Inv, NEW d \in Device, PhysicalDone(d)
  PROVE  Inv'
<1> DEFINE s == ses[d]
<1>1. /\ s.pc = "physical" /\ s.todo = {}
      /\ UNCHANGED <<canon, disk, vault, kept, dropped, past, made, deletes, faults>>
  BY DEF PhysicalDone, At, users
<1>2. Running(s, mem[d], canon, d)
  BY <1>1, Runs
<1>3. CASE Session(d, Idle, mem[d], TRUE)
  BY <1>1, <1>3, SteerStep, IdleFits, FaultsKept
<1>4. CASE Session(d, [s EXCEPT !.pc = s.ret], mem[d], TRUE)
  <2> DEFINE t == [s EXCEPT !.pc = s.ret]
  <2>1. DOMAIN s = Fields /\ s.ret \in {"scan", "finish"} /\ GotOK(s.got)
    BY <1>1, <1>2 DEF Running, DataOK, PlaceOK
  <2>2. /\ Keeps(s, t, Steering \cup {"got"}) /\ t.pc = s.ret
        /\ t.ret = s.ret /\ t.todo = {} /\ t.at = s.at /\ t.l = s.l /\ t.got = s.got
        /\ t.plan = s.plan /\ t.from = s.from /\ t.want = s.want
    BY <1>1, <2>1 DEF Keeps, Fields, Steering
  <2> HIDE DEF t
  <2>3. PlaceOK(t, mem[d])
    <3>1. EarlyOK(t)
      BY <1>1, <1>2, <2>1, <2>2 DEF Running, PlaceOK, EarlyOK, EarlyPC
    <3>2. TodoOK(t.pc, t.todo, t.l, mem[d])
      BY <2>1, <2>2 DEF TodoOK
    <3>3. AtOK(t.pc, t.at, t.l)
      BY <1>2, <2>1, <2>2 DEF Running, PlaceOK, AtOK
    <3> QED
      BY <2>1, <2>2, <3>1, <3>2, <3>3 DEF PlaceOK, PCs
  <2> QED
    BY <1>1, <1>4, <2>1, <2>2, <2>3, MoveStep, FaultsKept DEF t
<1> QED
  BY <1>3, <1>4 DEF PhysicalDone

LEMMA DownloadsDoneKeeps ==
  ASSUME Inv, NEW d \in Device, DownloadsDone(d)
  PROVE  Inv'
<1> DEFINE s == ses[d]
           t == [s EXCEPT !.pc = "settle"]
<1>1. /\ s.pc = "download" /\ s.todo = {} /\ Session(d, t, mem[d], FALSE)
      /\ UNCHANGED <<canon, disk, vault, kept, dropped, past, made, deletes, faults>>
  BY DEF DownloadsDone, At, users
<1>2. Running(s, mem[d], canon, d)
  BY <1>1, Runs
<1>3. DOMAIN s = Fields /\ GotOK(s.got)
  BY <1>2 DEF Running, DataOK
<1>4. /\ Keeps(s, t, Steering \cup {"got"}) /\ t.pc = "settle"
      /\ t.todo = {} /\ t.at = s.at /\ t.l = s.l /\ t.got = s.got
  BY <1>1, <1>3 DEF Keeps, Fields, Steering
<1> HIDE DEF t
<1>5. PlaceOK(t, mem[d])
  BY <1>2, <1>4 DEF Running, PlaceOK, EarlyOK, EarlyPC, AtOK, TodoOK, PCs
<1> QED
  BY <1>1, <1>3, <1>4, <1>5, MoveStep, FaultsKept

LEMMA DeletesDoneKeeps ==
  ASSUME Inv, NEW d \in Device, DeletesDone(d)
  PROVE  Inv'
<1> DEFINE s == ses[d]
           t == Enter(s, "conflict")
<1>1. /\ s.pc = "delete" /\ Session(d, t, mem[d], TRUE)
      /\ UNCHANGED <<canon, disk, vault, kept, dropped, past, made, deletes, faults>>
  BY DEF DeletesDone, At, users
<1>2. Running(s, mem[d], canon, d)
  BY <1>1, Runs
<1>3. DOMAIN s = Fields /\ GotOK(s.got) /\ PlanOK(s.plan, s.l)
      /\ (s.at # Nil => s.at \in Conflicts(s.l))
  BY <1>2 DEF Running, DataOK, PlaceOK, AtOK
<1>4. Keeps(s, t, {"pc", "todo"}) /\ PlaceOK(t, mem[d])
  BY <1>3, EnterPlace
<1>5. Keeps(s, t, Steering \cup {"got"}) /\ t.got = s.got
  BY <1>4, KeepsMore DEF Steering, Keeps, Fields
<1> HIDE DEF t
<1> QED
  BY <1>1, <1>3, <1>4, <1>5, MoveStep, FaultsKept

\* An upload that is not made leaves the others to be made.
LEMMA SkipUpload ==
  ASSUME Inv, NEW d \in Device, ses[d].pc = "upload", NEW p,
         NEW t, t = [ses[d] EXCEPT !.todo = @ \ {p}, !.bad = TRUE]
  PROVE  Keeps(ses[d], t, Steering \cup {"got"}) /\ GotOK(t.got) /\ PlaceOK(t, mem[d])
<1> DEFINE s == ses[d]
<1>1. Running(s, mem[d], canon, d)
  BY Runs
<1>2. DOMAIN s = Fields /\ GotOK(s.got)
  BY <1>1 DEF Running, DataOK
<1>3. /\ Keeps(s, t, Steering \cup {"got"}) /\ t.pc = "upload"
      /\ t.todo = s.todo \ {p} /\ t.at = s.at /\ t.l = s.l /\ t.got = s.got
  BY <1>2 DEF Keeps, Fields, Steering
<1>4. PlaceOK(t, mem[d])
  BY <1>1, <1>3 DEF Running, PlaceOK, EarlyOK, EarlyPC, AtOK, TodoOK, PCs
<1> QED
  BY <1>2, <1>3, <1>4

LEMMA UploadFailsKeeps ==
  ASSUME Inv, NEW d \in Device, NEW p \in AllPath, UploadFails(d, p)
  PROVE  Inv'
<1>1. /\ ses[d].pc = "upload"
      /\ Session(d, [ses[d] EXCEPT !.todo = @ \ {p}, !.bad = TRUE], mem[d], FALSE)
      /\ UNCHANGED <<canon, disk, vault, kept, dropped, past, made, deletes, faults>>
  BY DEF UploadFails, At, users
<1> QED
  BY <1>1, SkipUpload, MoveStep, FaultsKept

LEMMA UploadLostKeeps ==
  ASSUME Inv, NEW d \in Device, NEW p \in AllPath, UploadLost(d, p)
  PROVE  Inv'
<1> DEFINE t == [ses[d] EXCEPT !.todo = @ \ {p}, !.bad = TRUE]
<1>1. /\ ses[d].pc = "upload" /\ disk' = [disk EXCEPT ![p] = ses[d].l[p]]
      /\ Session(d, t, mem[d], FALSE)
      /\ UNCHANGED <<canon, vault, kept, dropped, past, made, deletes>>
  BY DEF UploadLost, At, users
<1>2. faults' \in 0 .. MaxFaults
  BY FaultsKept DEF UploadLost
<1>3. DataOK(ses[d], mem[d].next, canon, d)
  BY <1>1, Runs DEF Running
<1>4. FilesOK(disk')
  <2>1. ses[d].l[p] \in Holds(p)
    BY <1>3, FileOf DEF DataOK
  <2> QED
    BY <1>1, <2>1, DeviceFacts, FilesPut
<1>5. Keeps(ses[d], t, Steering \cup {"got"}) /\ GotOK(t.got) /\ PlaceOK(t, mem[d])
  BY <1>1, SkipUpload
<1> HIDE DEF t
<1>6. SesOK(t, mem[d], canon, d)
  BY <1>3, <1>5, DeviceFacts, DataKept DEF SesOK, Running
<1>7. CountsOK' /\ DOMAIN vault' = Device /\ \A e \in Device : FilesOK(vault'[e])
  BY <1>1, <1>2 DEF Inv, CountsOK, ShapesOK, DeviceOK
<1> QED
  BY <1>1, <1>4, <1>6, <1>7, DeviceFacts, SessionStep

\* What does not touch the queue keeps its chain.
LEMMA SameQueue ==
  ASSUME NEW m, DurOK(m), NEW n \in Durable, n.queue = m.queue, n.next = m.next
  PROVE  Extends(m, n)
  BY QueueFacts DEF Extends, DurOK, Chained

LEMMA Rebased ==
  ASSUME NEW m, DurOK(m), NEW f \in [AllPath -> Baseline], NEW n, n = [m EXCEPT !.base = f]
  PROVE  Extends(m, n) /\ n.queue = m.queue /\ n.base = f /\ n.obs = m.obs /\ n.acts = m.acts
<1>1. m \in Durable
  BY DEF DurOK
<1>2. n \in Durable /\ n.queue = m.queue /\ n.next = m.next
      /\ n.base = f /\ n.obs = m.obs /\ n.acts = m.acts
  BY <1>1 DEF Durable
<1> QED
  BY <1>2, SameQueue

LEMMA RebasedAt ==
  ASSUME NEW m, DurOK(m), NEW p \in AllPath, NEW b \in Baseline,
         NEW n, n = [m EXCEPT !.base[p] = b]
  PROVE  Extends(m, n) /\ n.queue = m.queue /\ n.acts = m.acts /\ n.next = m.next
<1>1. m \in Durable
  BY DEF DurOK
<1>2. n \in Durable /\ n.queue = m.queue /\ n.next = m.next /\ n.acts = m.acts
  BY <1>1 DEF Durable
<1> QED
  BY <1>2, SameQueue

LEMMA Reacted ==
  ASSUME NEW m, DurOK(m), NEW a \in SUBSET Act, NEW n, n = [m EXCEPT !.acts = a]
  PROVE  Extends(m, n) /\ n.queue = m.queue /\ n.acts = a /\ n.base = m.base /\ n.next = m.next
<1>1. m \in Durable
  BY DEF DurOK
<1>2. n \in Durable /\ n.queue = m.queue /\ n.next = m.next /\ n.acts = a /\ n.base = m.base
  BY <1>1 DEF Durable
<1> QED
  BY <1>2, SameQueue

LEMMA ExtendsChains ==
  ASSUME Inv, NEW d \in Device, NEW n, Extends(mem[d], n)
  PROVE  DurOK(n) /\ (d \notin dropped => Chained(n, canon.wm[d]))
  BY DeviceFacts DEF Extends

LEMMA EndStep ==
  ASSUME Inv, NEW d \in Device, NEW n, NEW save, Session(d, Idle, n, save), Extends(mem[d], n),
         UNCHANGED <<canon, disk, vault, kept, dropped, past, made, deletes, faults>>
  PROVE  Inv'
  BY ExtendsChains, IdleFits, FaultsKept, QuietStep

LEMMA FinishKeeps ==
  ASSUME Inv, NEW d \in Device, Finish(d)
  PROVE  Inv'
<1> DEFINE s == ses[d]
           m == mem[d]
           f == [p \in AllPath |-> IF None \in {m.base[p], s.want.files[p]} THEN m.base[p]
                                   ELSE BaselineOf(s.want.files[p])]
           n == Observed(s, m)
<1>1. /\ s.pc = "finish" /\ Session(d, Idle, n, TRUE)
      /\ UNCHANGED <<canon, disk, vault, kept, dropped, past, made, deletes, faults>>
  BY DEF Finish, At, users
<1>2. IndexOK(s.want)
  BY <1>1, Runs DEF Running, DataOK
<1>3. m \in Durable /\ DurOK(m)
  BY DeviceFacts
<1>4. f \in [AllPath -> Baseline]
  <2> SUFFICES ASSUME NEW p \in AllPath
               PROVE  (IF None \in {m.base[p], s.want.files[p]} THEN m.base[p]
                       ELSE BaselineOf(s.want.files[p])) \in Baseline
    OBVIOUS
  <2>1. m.base[p] \in Baseline
    BY <1>3 DEF Durable
  <2>2. s.want.files[p] # None => BaselineOf(s.want.files[p]) \in Baseline
    BY <1>2, EntryOf, BaselineTyped
  <2> QED
    BY <2>1, <2>2
<1>5. s.want.rev \in Nat
  BY <1>2, IndexMarks
<1>6. n = [m EXCEPT !.obs = s.want.rev, !.base = f]
  BY <1>3 DEF Observed, Durable
<1> HIDE DEF f
<1>7. n \in Durable /\ n.queue = m.queue /\ n.next = m.next
  BY <1>3, <1>4, <1>5, <1>6 DEF Durable
<1> HIDE DEF n
<1>8. Extends(m, n)
  BY <1>3, <1>7, SameQueue
<1> QED
  BY <1>1, <1>8, EndStep

LEMMA StillToDoIn ==
  ASSUME NEW s, NEW acts
  PROVE  StillToDo(s, acts) \subseteq acts
  BY DEF StillToDo

LEMMA RemainingExtends ==
  ASSUME Inv, NEW d \in Device
  PROVE  Extends(mem[d], Remaining(d)) /\ Remaining(d).base = mem[d].base
<1>1. mem[d].acts \in SUBSET Act /\ DurOK(mem[d])
  BY DeviceFacts DEF Durable
<1>2. StillToDo(ses[d], mem[d].acts) \in SUBSET Act
  BY <1>1, StillToDoIn
<1>3. Remaining(d) = [mem[d] EXCEPT !.acts = StillToDo(ses[d], mem[d].acts)]
  BY DEF Remaining
<1> QED
  BY <1>1, <1>2, <1>3, Reacted

LEMMA PlanFailsKeeps ==
  ASSUME Inv, NEW d \in Device, PlanFails(d)
  PROVE  Inv'
<1>1. PICK save : Session(d, Idle, Remaining(d), save)
  BY DEF PlanFails
<1>2. UNCHANGED <<canon, disk, vault, kept, dropped, past, made, deletes, faults>>
  BY DEF PlanFails, users
<1> QED
  BY <1>1, <1>2, RemainingExtends, EndStep

\* A session at its end finishes the physical deletions that are left.
LEMMA LastDeletions ==
  ASSUME NEW s, DOMAIN s = Fields, NEW m, NEW acts \in SUBSET Act, AtOK(s.pc, s.at, s.l),
         NEW t, t = [s EXCEPT !.pc = "physical", !.ret = "finish", !.todo = acts]
  PROVE  Keeps(s, t, Steering) /\ PlaceOK(t, m)
<1>1. /\ Keeps(s, t, Steering) /\ t.pc = "physical" /\ t.ret = "finish"
      /\ t.todo = acts /\ t.at = s.at /\ t.l = s.l
  BY DEF Keeps, Fields, Steering
<1>2. EarlyOK(t) /\ AtOK(t.pc, t.at, t.l) /\ TodoOK(t.pc, t.todo, t.l, m)
  BY <1>1 DEF EarlyOK, EarlyPC, AtOK, TodoOK
<1> QED
  BY <1>1, <1>2 DEF PlaceOK, PCs

LEMMA FinalKeeps ==
  ASSUME Inv, NEW d \in Device, FinalUnchanged(d) \/ FinalChanged(d)
  PROVE  Inv'
<1> DEFINE s == ses[d]
           t1 == [s EXCEPT !.pc = "physical", !.ret = "finish", !.todo = mem[d].acts]
           t2 == [s EXCEPT !.pc = "commit", !.ret = "finish"]
<1>1. /\ s.pc = "final"
      /\ UNCHANGED <<canon, disk, vault, kept, dropped, past, made, deletes, faults>>
  BY DEF FinalUnchanged, FinalChanged, At, users
<1>2. PICK t, save : Session(d, t, mem[d], save) /\ t \in {t1, t2}
  <2>1. CASE FinalUnchanged(d)
    BY <2>1 DEF FinalUnchanged
  <2>2. CASE FinalChanged(d)
    BY <2>2 DEF FinalChanged
  <2> QED
    BY <2>1, <2>2
<1>3. DOMAIN s = Fields /\ GotOK(s.got) /\ AtOK(s.pc, s.at, s.l) /\ PlaceOK(s, mem[d])
  BY <1>1, Runs DEF Running, DataOK, PlaceOK
<1>4. mem[d].acts \in SUBSET Act
  BY DeviceFacts DEF Durable
<1>5. Keeps(s, t1, Steering) /\ PlaceOK(t1, mem[d])
  BY <1>3, <1>4, LastDeletions
<1>6. Keeps(s, t2, Steering) /\ PlaceOK(t2, mem[d])
  <2>1. /\ Keeps(s, t2, Steering) /\ t2.pc = "commit"
        /\ t2.todo = s.todo /\ t2.at = s.at /\ t2.l = s.l
    BY <1>3 DEF Keeps, Fields, Steering
  <2> HIDE DEF t2
  <2> QED
    BY <1>1, <1>3, <2>1 DEF PlaceOK, EarlyOK, EarlyPC, AtOK, TodoOK, PCs
<1> HIDE DEF t1, t2
<1>7. Keeps(s, t, Steering) /\ PlaceOK(t, mem[d])
  BY <1>2, <1>5, <1>6
<1>8. Keeps(s, t, Steering \cup {"got"}) /\ t.got = s.got
  BY <1>7 DEF Steering, Keeps, Fields
<1> QED
  BY <1>1, <1>2, <1>3, <1>7, <1>8, MoveStep, FaultsKept

LEMMA DownloadReadKeeps ==
  ASSUME Inv, NEW d \in Device, NEW p \in AllPath, DownloadRead(d, p)
  PROVE  Inv'
<1> DEFINE s == ses[d]
           g == With(s.got, p, disk[p])
           t == [s EXCEPT !.got = g]
<1>1. /\ s.pc = "download" /\ disk[p] # Nil /\ Session(d, t, mem[d], FALSE)
      /\ UNCHANGED <<canon, disk, vault, kept, dropped, past, made, deletes, faults>>
  BY DEF DownloadRead, At, users
<1>2. Running(s, mem[d], canon, d)
  BY <1>1, Runs
<1>3. DOMAIN s = Fields /\ GotOK(s.got)
  BY <1>2 DEF Running, DataOK
<1>4. disk[p] \in Named(p)
  BY <1>1, DeviceFacts, FileOf
<1>5. GotOK(g)
  BY <1>3, <1>4 DEF With, Over, GotOK
<1> HIDE DEF g
<1>6. /\ Keeps(s, t, Steering \cup {"got"}) /\ t.pc = s.pc /\ t.ret = s.ret /\ t.want = s.want
      /\ t.todo = s.todo /\ t.at = s.at /\ t.l = s.l /\ t.got = g /\ t.plan = s.plan
      /\ t.from = s.from
  BY <1>3 DEF Keeps, Fields, Steering
<1> HIDE DEF t
<1>7. PlaceOK(t, mem[d])
  BY <1>2, <1>6 DEF Running, PlaceOK, EarlyOK
<1> QED
  BY <1>1, <1>5, <1>6, <1>7, MoveStep, FaultsKept

LEMMA DownloadFailsKeeps ==
  ASSUME Inv, NEW d \in Device, NEW p \in AllPath, DownloadFails(d, p)
  PROVE  Inv'
<1> DEFINE s == ses[d]
           g == [x \in DOMAIN s.got \ {p} |-> s.got[x]]
           t == [s EXCEPT !.todo = @ \ {p}, !.bad = TRUE, !.got = g]
<1>1. /\ s.pc = "download"
      /\ UNCHANGED <<canon, disk, vault, kept, dropped, past, made, deletes, faults>>
  BY DEF DownloadFails, At, users
<1>2. Running(s, mem[d], canon, d)
  BY <1>1, Runs
<1>3. DOMAIN s = Fields /\ GotOK(s.got)
  BY <1>2 DEF Running, DataOK
<1>4. Session(d, t, mem[d], FALSE)
  BY <1>3 DEF DownloadFails, Fields
<1>5. GotOK(g)
  BY <1>3 DEF GotOK
<1> HIDE DEF g
<1>6. /\ Keeps(s, t, Steering \cup {"got"}) /\ t.pc = "download"
      /\ t.todo = s.todo \ {p} /\ t.at = s.at /\ t.l = s.l /\ t.got = g
  BY <1>1, <1>3 DEF Keeps, Fields, Steering
<1> HIDE DEF t
<1>7. PlaceOK(t, mem[d])
  BY <1>1, <1>2, <1>6 DEF Running, PlaceOK, EarlyOK, EarlyPC, AtOK, TodoOK, PCs
<1> QED
  BY <1>1, <1>4, <1>5, <1>6, <1>7, MoveStep, FaultsKept

\* After a conflict comes another, or the end.
LEMMA NoGot ==
  DOMAIN <<>> = {} /\ GotOK(<<>>)
<1>1. DOMAIN <<>> = {}
  BY EmptySeq
<1> QED
  BY <1>1 DEF GotOK

LEMMA NextConflictPlace ==
  ASSUME NEW s, DOMAIN s = Fields, s.todo \subseteq Conflicts(s.l), NEW m,
         NEW t, t = NextConflict(s)
  PROVE  Keeps(s, t, {"at", "got", "pc"}) /\ PlaceOK(t, m) /\ GotOK(t.got)
<1>1. PICK pc \in {"final", "conflict"} : t = [s EXCEPT !.at = Nil, !.got = <<>>, !.pc = pc]
  BY DEF NextConflict
<1>2. /\ Keeps(s, t, {"at", "got", "pc"})
      /\ t.at = Nil /\ t.got = <<>> /\ t.pc = pc /\ t.todo = s.todo /\ t.l = s.l
  BY <1>1 DEF Keeps, Fields
<1>3. PlaceOK(t, m)
  BY <1>1, <1>2 DEF PlaceOK, EarlyOK, EarlyPC, AtOK, TodoOK, PCs
<1> QED
  BY <1>2, <1>3, NoGot

LEMMA ResolveFailsKeeps ==
  ASSUME Inv, NEW d \in Device, NEW p \in AllPath, ResolveFails(d, p)
  PROVE  Inv'
<1> DEFINE s == ses[d]
           s1 == [s EXCEPT !.todo = @ \ {p}, !.bad = TRUE]
           t == NextConflict(s1)
<1>1. /\ s.pc = "conflict" /\ Session(d, t, mem[d], FALSE)
      /\ UNCHANGED <<canon, disk, vault, kept, dropped, past, made, deletes, faults>>
  BY DEF ResolveFails, At, users
<1>2. DOMAIN s = Fields /\ s.todo \subseteq Conflicts(s.l)
  BY <1>1, Runs DEF Running, DataOK, PlaceOK, TodoOK
<1>3. Keeps(s, s1, {"todo", "bad"}) /\ s1.todo = s.todo \ {p} /\ s1.l = s.l
  BY <1>2 DEF Keeps, Fields
<1> HIDE DEF s1
<1>4. Keeps(s1, t, {"at", "got", "pc"}) /\ PlaceOK(t, mem[d]) /\ GotOK(t.got)
  BY <1>2, <1>3, NextConflictPlace DEF Keeps
<1>5. Keeps(s, t, Steering \cup {"got"})
  BY <1>3, <1>4 DEF Keeps, Steering
<1> HIDE DEF t
<1> QED
  BY <1>1, <1>4, <1>5, MoveStep, FaultsKept

LEMMA ConflictFailsKeeps ==
  ASSUME Inv, NEW d \in Device, ConflictFails(d),
         ses[d].pc \in {"commit", "apply"}
  PROVE  Inv'
<1> DEFINE s == ses[d]
           s1 == [s EXCEPT !.bad = TRUE]
           t == NextConflict(s1)
<1>1. CASE Fail(d)
  BY <1>1, FailKeeps
<1>2. CASE /\ Session(d, t, mem[d], FALSE)
           /\ UNCHANGED <<canon, disk, vault, kept, dropped, users, faults>>
  <2>1. DOMAIN s = Fields /\ s.todo \subseteq Conflicts(s.l)
    BY Runs DEF Running, DataOK, PlaceOK, TodoOK
  <2>2. Keeps(s, s1, {"bad"}) /\ s1.todo = s.todo /\ s1.l = s.l
    BY <2>1 DEF Keeps, Fields
  <2> HIDE DEF s1
  <2>3. Keeps(s1, t, {"at", "got", "pc"}) /\ PlaceOK(t, mem[d]) /\ GotOK(t.got)
    BY <2>1, <2>2, NextConflictPlace DEF Keeps
  <2>4. Keeps(s, t, Steering \cup {"got"})
    BY <2>2, <2>3 DEF Keeps, Steering
  <2> HIDE DEF t
  <2> QED
    BY <1>2, <2>3, <2>4, MoveStep, FaultsKept DEF users
<1> QED
  BY <1>1, <1>2 DEF ConflictFails

LEMMA FailuresKeep ==
  ASSUME Inv, NEW d \in Device,
         \/ VerifyFails(d) \/ TransferFailed(d) \/ CommitFails(d) \/ ApplyFails(d)
         \/ FinalStale(d) \/ Unfinished(d)
  PROVE  Inv'
  BY FailKeeps, ConflictFailsKeeps
     DEF VerifyFails, TransferFailed, CommitFails, ApplyFails, FinalStale, Unfinished, At

----------------------------------------------------------------------------
(* What a session changes in its desired index.                            *)

\* v differs from w in entries of N, each of some device.
Rewrites(w, v, N) ==
  /\ IndexOK(v)
  /\ \A p \in N : p \in AllPath /\ v.files[p] # None /\ v.files[p].by \in Device
  /\ \A p \in AllPath \ N : v.files[p] = w.files[p]

LEMMA Rewritten ==
  ASSUME NEW w, IndexOK(w), NEW N \in SUBSET AllPath,
         NEW f, f = [p \in AllPath |-> f[p]], DOMAIN f = AllPath,
         \A p \in N : f[p] \in Says(p) /\ f[p].by \in Device,
         \A p \in AllPath \ N : f[p] = w.files[p],
         NEW v, v = [w EXCEPT !.files = f]
  PROVE  Rewrites(w, v, N) /\ v.files = f /\ v.wm = w.wm
<1>1. \A p \in AllPath : f[p] = None \/ f[p] \in Says(p)
  BY DEF IndexOK
<1>2. IndexOK(v) /\ v.files = f /\ v.wm = w.wm
  BY <1>1, IndexFiles
<1>3. \A p \in N : f[p] # None
  BY EntryIsSome
<1> QED
  BY <1>2, <1>3 DEF Rewrites

\* Where such entries come from.
LEMMA Authored ==
  ASSUME NEW w, NEW v, NEW N, Rewrites(w, v, N), NEW from, NEW more,
         DOMAIN more = DOMAIN from \cup N
  PROVE  /\ FromOK(from, w) => FromOK(more, v)
         /\ \A stamped, load : StampOK(stamped, load, w) => StampOK(stamped, load, v)
         /\ \A load : SameOK(from, load, w) => SameOK(more, load, v)
<1>1. ASSUME FromOK(from, w) PROVE FromOK(more, v)
  BY <1>1 DEF FromOK, Rewrites
<1>2. ASSUME NEW stamped, NEW load, StampOK(stamped, load, w) PROVE StampOK(stamped, load, v)
  BY <1>2 DEF StampOK, Rewrites
<1>3. ASSUME NEW load, SameOK(from, load, w) PROVE SameOK(more, load, v)
  BY <1>3 DEF SameOK, Rewrites
<1> QED
  BY <1>1, <1>2, <1>3

\* One entry of its own.
LEMMA RewrittenAt ==
  ASSUME NEW w, IndexOK(w), NEW p \in AllPath, NEW e \in Says(p), e.by \in Device,
         NEW v, v = [w EXCEPT !.files[p] = e], NEW from, NEW b
  PROVE  /\ IndexOK(v) /\ v.wm = w.wm /\ v.files[p] = e
         /\ \A x \in AllPath \ {p} : v.files[x] = w.files[x]
         /\ FromOK(from, w) => FromOK(With(from, p, b), v)
         /\ \A stamped, load : StampOK(stamped, load, w) => StampOK(stamped, load, v)
         /\ \A load : SameOK(from, load, w) => SameOK(With(from, p, b), load, v)
<1>1. /\ IndexOK(v) /\ v.files[p] = e /\ v.wm = w.wm
      /\ \A x \in AllPath \ {p} : v.files[x] = w.files[x]
  BY IndexPut
<1>2. e # None
  BY EntryIsSome
<1>3. DOMAIN With(from, p, b) = DOMAIN from \cup {p}
  BY DEF With, Over
<1>4. ASSUME FromOK(from, w) PROVE FromOK(With(from, p, b), v)
  <2>1. DOMAIN With(from, p, b) \subseteq AllPath
    BY <1>3, <1>4 DEF FromOK
  <2>2. ASSUME NEW x \in DOMAIN With(from, p, b)
        PROVE  v.files[x] # None /\ v.files[x].by \in Device
    <3>1. CASE x = p
      BY <1>1, <1>2, <3>1
    <3>2. CASE x # p
      BY <1>1, <1>3, <1>4, <2>1, <3>2 DEF FromOK
    <3> QED
      BY <3>1, <3>2
  <2> QED
    BY <2>1, <2>2 DEF FromOK
<1>5. ASSUME NEW stamped, NEW load, StampOK(stamped, load, w) PROVE StampOK(stamped, load, v)
  BY <1>1, <1>2, <1>5 DEF StampOK
<1>6. ASSUME NEW load, SameOK(from, load, w) PROVE SameOK(With(from, p, b), load, v)
  BY <1>1, <1>3, <1>6 DEF SameOK
<1> QED
  BY <1>1, <1>4, <1>5, <1>6

\* Fingerprints alone.
WithPrints(w, N, x) ==
  [w EXCEPT !.files = [p \in AllPath |->
     IF p \in N THEN [w.files[p] EXCEPT !.fp = x[p]] ELSE w.files[p]]]

Reprints(w, v) ==
  /\ IndexOK(v) /\ v.wm = w.wm
  /\ \A p \in AllPath : v.files[p] = None <=> w.files[p] = None
  /\ \A p \in AllPath : w.files[p] # None => v.files[p].by = w.files[p].by

LEMMA Restamped ==
  ASSUME NEW w, IndexOK(w), NEW N, NEW x, FilesOK(x), \A p \in N \cap AllPath : w.files[p] # None
  PROVE  Reprints(w, WithPrints(w, N, x))
<1> DEFINE f == [p \in AllPath |-> IF p \in N THEN [w.files[p] EXCEPT !.fp = x[p]]
                                   ELSE w.files[p]]
           v == [w EXCEPT !.files = f]
<1>1. ASSUME NEW p \in AllPath, p \in N
      PROVE  f[p] \in Says(p) /\ f[p].by = w.files[p].by
  <2>1. w.files[p] \in Entry /\ w.files[p] \in Says(p)
    BY <1>1, EntryOf
  <2>2. x[p] \in Content
    BY FileOf
  <2>3. f[p] = [w.files[p] EXCEPT !.fp = x[p]]
    BY <1>1
  <2>4. f[p] \in Entry /\ f[p].sha = w.files[p].sha /\ f[p].dead = w.files[p].dead
        /\ f[p].by = w.files[p].by
    BY <2>1, <2>2, <2>3 DEF Entry
  <2> QED
    BY <2>1, <2>4 DEF Says
<1>2. DOMAIN f = AllPath /\ f = [p \in AllPath |-> f[p]]
      /\ \A p \in AllPath : p \notin N => f[p] = w.files[p]
  BY Zenon
<1> HIDE DEF f
<1>3. \A p \in AllPath : f[p] = None \/ f[p] \in Says(p)
  BY <1>1, <1>2 DEF IndexOK
<1>4. IndexOK(v) /\ v.files = f /\ v.wm = w.wm
  BY <1>2, <1>3, IndexFiles
<1>5. WithPrints(w, N, x) = v
  BY DEF WithPrints, f
<1> HIDE DEF v
<1>6. \A p \in AllPath : v.files[p] = None <=> w.files[p] = None
  BY <1>1, <1>2, <1>4, EntryIsSome
<1>7. \A p \in AllPath : w.files[p] # None => v.files[p].by = w.files[p].by
  BY <1>1, <1>2, <1>4
<1>8. Reprints(w, v)
  BY <1>4, <1>6, <1>7 DEF Reprints
<1> QED
  BY <1>5, <1>8

LEMMA Reprinted ==
  ASSUME NEW w, NEW v, Reprints(w, v), NEW from
  PROVE  /\ FromOK(from, w) => FromOK(from, v)
         /\ \A stamped, load : StampOK(stamped, load, w) => StampOK(stamped, load, v)
         /\ \A load : SameOK(from, load, w) => SameOK(from, load, v)
<1>1. FromOK(from, w) => FromOK(from, v)
  BY DEF FromOK, Reprints
<1>2. \A stamped, load : StampOK(stamped, load, w) => StampOK(stamped, load, v)
  BY DEF StampOK, Reprints
<1>3. \A load : SameOK(from, load, w) => SameOK(from, load, v)
  BY DEF SameOK, Reprints
<1> QED
  BY <1>1, <1>2, <1>3

LEMMA TombstoneSays ==
  ASSUME NEW p \in AllPath, NEW d \in Device, NEW w, IndexOK(w), NEW m, DurOK(m), NEW n \in Nat
  PROVE  /\ Tombstone(d, w.files[p], m.base[p], n) \in Says(p)
         /\ Tombstone(d, w.files[p], m.base[p], n).by \in Device
         /\ Dead(Tombstone(d, w.files[p], m.base[p], n))
<1> DEFINE c == w.files[p]
           b == m.base[p]
           x == Tombstone(d, c, b, n)
<1>1. b \in Baseline
  BY DEF DurOK, Durable
<1>2. c # None => c.sha \in Content /\ c.rev \in Revision /\ c.fp \in Content
  BY EntryOf
<1>3. b # None => b.sha \in Content /\ b.rev \in Revision
  BY <1>1 DEF Baseline
<1>4. Nil \in Content /\ Nil \in Revision /\ TRUE \in Flag
  BY Numbers DEF Revision, Flag
<1> HIDE DEF c, b
<1>5. x.sha \in Content /\ x.rev \in Revision /\ x.fp \in Content
      /\ x.dead = TRUE /\ x.by = d /\ x.seq = n
  BY <1>2, <1>3, <1>4 DEF Tombstone
<1>6. x = [sha |-> x.sha, dead |-> x.dead, rev |-> x.rev, by |-> x.by, seq |-> x.seq, fp |-> x.fp]
  BY DEF Tombstone
<1> HIDE DEF x
<1>7. x \in Entry
  BY <1>4, <1>5, <1>6 DEF Entry
<1>8. x \in Says(p)
  BY <1>5, <1>7 DEF Says
<1>9. Dead(x)
  BY <1>5, <1>8, EntryIsSome DEF Dead
<1> QED
  BY <1>5, <1>8, <1>9 DEF x, c, b

\* Deletions are tombstones of the device in its desired index.
MayDelete(s, m, ps) ==
  /\ DOMAIN s = Fields /\ IndexOK(s.want) /\ DurOK(m) /\ ps \subseteq AllPath
  /\ \A p \in ps : Dead(s.want.files[p]) \/ Deletes(m, p) # {}

Deleted(s, t) ==
  /\ Keeps(s, t, {"want", "from"})
  /\ IndexOK(t.want) /\ t.want.wm = s.want.wm
  /\ FromOK(s.from, s.want) => FromOK(t.from, t.want)
  /\ StampOK(s.stamped, s.load, s.want) => StampOK(s.stamped, s.load, t.want)
  /\ SameOK(s.from, s.load, s.want) => SameOK(t.from, s.load, t.want)
  /\ (\A p \in DOMAIN s.from : Dead(s.want.files[p])) /\ DOMAIN s.from \subseteq AllPath
       => \A p \in DOMAIN t.from : Dead(t.want.files[p])

LEMMA Deletions ==
  ASSUME NEW d \in Device, NEW s, NEW m, NEW ps, MayDelete(s, m, ps)
  PROVE  Deleted(s, WithDeletions(d, s, m, ps))
<1> DEFINE t == WithDeletions(d, s, m, ps)
           last(p) == LastOf(m, Deletes(m, p))
           N == {p \in ps : ~Dead(s.want.files[p])}
           w == s.want
           f == [p \in AllPath |-> IF p \in N THEN Tombstone(d, w.files[p], m.base[p], last(p).seq)
                                   ELSE w.files[p]]
           v == [w EXCEPT !.files = f]
           g == [p \in N |-> last(p).base]
<1>0. /\ DOMAIN s = Fields /\ IndexOK(s.want) /\ DurOK(m) /\ ps \subseteq AllPath
      /\ \A p \in ps : Dead(s.want.files[p]) \/ Deletes(m, p) # {}
  BY DEF MayDelete
<1>1. \A p \in N : last(p).seq \in Nat
  <2> SUFFICES ASSUME NEW p \in N PROVE last(p).seq \in Nat
    OBVIOUS
  <2>1. Deletes(m, p) # {} /\ Deletes(m, p) \in SUBSET DOMAIN m.queue
    BY <1>0 DEF Deletes
  <2> QED
    BY <1>0, <2>1, LastIsOne
<1>2. N \in SUBSET AllPath
  BY <1>0
<1>3. t = [s EXCEPT !.want = v, !.from = Over(s.from, g)]
  BY <1>0 DEF WithDeletions, Fields
<1>4. ASSUME NEW p \in N
      PROVE  f[p] \in Says(p) /\ f[p].by \in Device /\ Dead(f[p])
  <2>1. f[p] = Tombstone(d, w.files[p], m.base[p], last(p).seq)
    BY <1>2
  <2> HIDE DEF f, last
  <2> QED
    BY <1>0, <1>1, <1>2, <2>1, TombstoneSays
<1>5. DOMAIN f = AllPath /\ f = [p \in AllPath |-> f[p]]
      /\ \A p \in AllPath \ N : f[p] = w.files[p]
  <2> HIDE DEF last, N
  <2> QED
    BY Zenon
<1>6. DOMAIN Over(s.from, g) = DOMAIN s.from \cup N
  BY DEF Over
<1> HIDE DEF f, g, N
<1>7. /\ IndexOK(v) /\ v.files = f /\ v.wm = w.wm
      /\ FromOK(s.from, w) => FromOK(Over(s.from, g), v)
      /\ \A stamped, load : StampOK(stamped, load, w) => StampOK(stamped, load, v)
      /\ \A load : SameOK(s.from, load, w) => SameOK(Over(s.from, g), load, v)
  <2>1. \A p \in N : f[p] \in Says(p) /\ f[p].by \in Device
    BY <1>4
  <2>2. v = [w EXCEPT !.files = f] /\ IndexOK(w)
    BY <1>0
  <2> HIDE DEF v, w
  <2>3. Rewrites(w, v, N) /\ v.files = f /\ v.wm = w.wm
    BY <1>2, <1>5, <2>1, <2>2, Rewritten
  <2>4. /\ FromOK(s.from, w) => FromOK(Over(s.from, g), v)
        /\ \A stamped, load : StampOK(stamped, load, w) => StampOK(stamped, load, v)
        /\ \A load : SameOK(s.from, load, w) => SameOK(Over(s.from, g), load, v)
    <3> DEFINE h == s.from
               o == Over(h, g)
    <3>1. DOMAIN o = DOMAIN h \cup N
      BY <1>6
    <3> HIDE DEF h, o
    <3>2. /\ FromOK(h, w) => FromOK(o, v)
          /\ \A stamped, load : StampOK(stamped, load, w) => StampOK(stamped, load, v)
          /\ \A load : SameOK(h, load, w) => SameOK(o, load, v)
      BY <2>3, <3>1, Authored
    <3> QED
      BY <3>2 DEF h, o
  <2> QED
    BY <2>3, <2>4 DEF Rewrites
<1> HIDE DEF v, t
<1>8. Keeps(s, t, {"want", "from"}) /\ t.want = v /\ t.from = Over(s.from, g)
  BY <1>0, <1>3 DEF Keeps, Fields
<1>9. ASSUME \A p \in DOMAIN s.from : Dead(s.want.files[p]), DOMAIN s.from \subseteq AllPath,
             NEW p \in DOMAIN t.from
      PROVE  Dead(t.want.files[p])
  <2>1. CASE p \in N
    BY <1>4, <1>7, <1>8, <2>1
  <2>2. CASE p \notin N
    <3>1. p \in DOMAIN s.from /\ p \in AllPath
      BY <1>6, <1>8, <1>9, <2>2
    <3> QED
      BY <1>5, <1>7, <1>8, <1>9, <2>2, <3>1
  <2> QED
    BY <2>1, <2>2
<1>10. Deleted(s, t)
  BY <1>7, <1>8, <1>9 DEF Deleted
<1> QED
  BY <1>10 DEF t

LEMMA DeadBases ==
  ASSUME NEW m, DurOK(m), NEW ps, NEW n, n = WithDeadBaselines(m, ps)
  PROVE  Extends(m, n) /\ n.queue = m.queue /\ n.acts = m.acts /\ n.next = m.next
<1> DEFINE f == [p \in AllPath |-> IF p \in ps THEN DeadBaseline(m.base[p]) ELSE m.base[p]]
<1>1. m \in Durable
  BY DEF DurOK
<1>2. \A p \in AllPath : m.base[p] \in Baseline
  BY <1>1 DEF Durable
<1>3. f \in [AllPath -> Baseline]
  BY <1>2, BaselineTyped
<1>4. n = [m EXCEPT !.base = f]
  BY <1>1 DEF WithDeadBaselines, Durable
<1> HIDE DEF f
<1>5. n.next = m.next
  BY <1>1, <1>4 DEF Durable
<1> QED
  BY <1>3, <1>4, <1>5, Rebased

----------------------------------------------------------------------------
(* Scans.                                                                  *)

\* A step that leaves the session at work.
LEMMA WorkStep ==
  ASSUME Inv, NEW d \in Device, NEW t, NEW m, NEW save, Session(d, t, m, save),
         DurOK(m), d \notin dropped => Chained(m, canon.wm[d]),
         DataOK(t, m.next, canon, d), PlaceOK(t, m),
         UNCHANGED <<canon, dropped, past, made, deletes, faults>>, FilesOK(disk'),
         DOMAIN vault' = Device, \A e \in Device : FilesOK(vault'[e]), kept' \subseteq Version
  PROVE  Inv'
<1>1. SesOK(t, m, canon, d)
  BY DEF SesOK, Running
<1>2. CountsOK'
  BY DEF Inv, CountsOK
<1> QED
  BY <1>1, <1>2, SessionStep

\* The files as they are.
LEMMA FilesStay ==
  ASSUME Inv
  PROVE  /\ FilesOK(disk) /\ DOMAIN vault = Device /\ \A e \in Device : FilesOK(vault[e])
         /\ kept \subseteq Version
  BY DEF Inv, ShapesOK, DeviceOK, CountsOK

LEMMA EmptyPlanOK ==
  ASSUME NEW l
  PROVE  PlanOK(EmptyPlan, l)
  BY DEF PlanOK, EmptyPlan

LEMMA Scanned ==
  ASSUME Inv, NEW d \in Device, ses[d].pc \in {"scan", "list", "local"},
         NEW pc \in {"list", "local", "verify"}, NEW l, NEW r, FilesOK(l), FilesOK(r),
         NEW t, t = [ses[d] EXCEPT !.pc = pc, !.l = l, !.r = r],
         Session(d, t, mem[d], FALSE),
         UNCHANGED <<canon, disk, vault, kept, dropped, past, made, deletes, faults>>
  PROVE  Inv'
<1> DEFINE s == ses[d]
<1>1. Running(s, mem[d], canon, d)
  BY Runs
<1>2. DOMAIN s = Fields
  BY <1>1 DEF Running, DataOK
<1>3. /\ Keeps(s, t, {"pc", "l", "r"}) /\ t.pc = pc /\ t.l = l /\ t.r = r
  BY <1>2 DEF Keeps, Fields
<1>4. /\ t.load = s.load /\ t.want = s.want /\ t.from = s.from /\ t.stamped = s.stamped
      /\ t.plan = s.plan /\ t.rejected = s.rejected /\ t.got = s.got /\ t.at = s.at
      /\ t.todo = s.todo /\ DOMAIN t = Fields
  BY <1>3 DEF Keeps, Fields
<1>5. /\ s.plan = EmptyPlan /\ s.at = Nil /\ s.todo = {}
      /\ \A p \in DOMAIN s.from : Dead(s.want.files[p])
  BY <1>1 DEF Running, PlaceOK, EarlyOK, EarlyPC
<1>6. DataOK(t, mem[d].next, canon, d)
  BY <1>1, <1>3, <1>4, <1>5, EmptyPlanOK DEF Running, DataOK
<1>7. PlaceOK(t, mem[d])
  BY <1>3, <1>4, <1>5 DEF PlaceOK, EarlyOK, EarlyPC, AtOK, TodoOK, PCs
<1> QED
  BY <1>6, <1>7, DeviceFacts, SteerStep, FaultsKept DEF SesOK, Running

LEMMA ScanKeeps ==
  ASSUME Inv, NEW d \in Device, ScanLocal(d) \/ ListRemote(d)
  PROVE  Inv'
<1> DEFINE s == ses[d]
<1>1. /\ s.pc \in {"scan", "list", "local"}
      /\ UNCHANGED <<canon, disk, vault, kept, dropped, past, made, deletes, faults>>
  BY DEF ScanLocal, ListRemote, users
<1>2. DOMAIN s = Fields /\ FilesOK(s.l) /\ FilesOK(s.r)
  BY <1>1, Runs DEF Running, DataOK
<1> DEFINE Fits(pc, l, r) ==
             /\ pc \in {"list", "local", "verify"} /\ FilesOK(l) /\ FilesOK(r)
             /\ Session(d, [s EXCEPT !.pc = pc, !.l = l, !.r = r], mem[d], FALSE)
<1>3. \E pc, l, r : Fits(pc, l, r)
  <2>1. CASE ScanLocal(d)
    <3>1. PICK pc \in {"list", "verify"} : Session(d, [s EXCEPT !.pc = pc, !.l = vault[d]], mem[d], FALSE)
      BY <1>2, <2>1 DEF ScanLocal, Fields
    <3>2. [s EXCEPT !.pc = pc, !.l = vault[d]] = [s EXCEPT !.pc = pc, !.l = vault[d], !.r = s.r]
      BY <1>2 DEF Fields
    <3>3. Fits(pc, vault[d], s.r)
      BY <1>2, <3>1, <3>2, DeviceFacts
    <3> HIDE DEF Fits
    <3> QED
      BY <3>3
  <2>2. CASE ListRemote(d)
    <3>1. PICK pc \in {"local", "verify"} : Session(d, [s EXCEPT !.pc = pc, !.r = disk], mem[d], FALSE)
      BY <1>2, <2>2 DEF ListRemote, Fields
    <3>2. [s EXCEPT !.pc = pc, !.r = disk] = [s EXCEPT !.pc = pc, !.l = s.l, !.r = disk]
      BY <1>2 DEF Fields
    <3>3. Fits(pc, s.l, disk)
      BY <1>2, <3>1, <3>2, DeviceFacts
    <3> HIDE DEF Fits
    <3> QED
      BY <3>3
  <2> QED
    BY <2>1, <2>2
<1> QED
  BY <1>1, <1>3, Scanned

LEMMA LoadKeeps ==
  ASSUME Inv, NEW d \in Device, Load(d)
  PROVE  Inv'
<1> DEFINE m == mem[d]
           rest == [m EXCEPT !.queue = Unconfirmed(m, canon.wm[d]), !.next = Floor(m, canon.wm[d])]
           gone == {p \in AllPath : Deletes(rest, p) # {}}
           n == WithDeadBaselines(rest, gone)
           pc == IF m.acts = {} THEN "scan" ELSE "physical"
           had == m.queue # <<>> \/ m.acts # {}
           s == [Idle EXCEPT !.pc = pc, !.load = canon, !.want = canon, !.had = had,
                             !.todo = m.acts, !.ret = "scan"]
           t == WithDeletions(d, s, rest, gone)
<1>1. /\ \E save : Session(d, t, n, save)
      /\ UNCHANGED <<canon, disk, vault, kept, dropped, past, made, deletes, faults>>
  BY DEF Load, users
<1>2. m \in Durable /\ DurOK(m) /\ canon.wm[d] \in Nat /\ IndexOK(canon)
      /\ (d \notin dropped => Chained(m, canon.wm[d]))
  BY DeviceFacts
<1>3. /\ DurOK(rest) /\ rest.acts = m.acts /\ canon.wm[d] < rest.next
      /\ d \notin dropped => Chained(rest, canon.wm[d])
  <2> DEFINE mark == canon.wm[d]
  <2>1. rest = Reloaded(m, mark)
    BY DEF Reloaded
  <2>2. mark \in Nat /\ DurOK(m) /\ (d \notin dropped => Chained(m, mark))
    BY <1>2
  <2> HIDE DEF rest, mark, m
  <2>3. /\ DurOK(rest) /\ rest.acts = m.acts /\ mark < rest.next
        /\ Chained(m, mark) => Chained(rest, mark)
    BY <2>1, <2>2, Reloading
  <2> QED
    BY <2>2, <2>3 DEF mark
<1> HIDE DEF rest
<1>4. Extends(rest, n) /\ n.acts = m.acts /\ n.next = rest.next
  BY <1>3, DeadBases
<1>5. DurOK(n) /\ (d \notin dropped => Chained(n, canon.wm[d]))
  BY <1>2, <1>3, <1>4 DEF Extends
<1>6. /\ DOMAIN s = Fields /\ s.pc = pc /\ s.load = canon /\ s.want = canon /\ s.todo = m.acts
      /\ s.ret = "scan" /\ s.from = <<>> /\ s.stamped = {} /\ s.l = NoFile /\ s.r = NoFile
      /\ s.plan = EmptyPlan /\ s.got = <<>> /\ s.rejected = {} /\ s.at = Nil
  <2> HIDE DEF pc, had
  <2> QED
    BY DEF Idle, Fields
<1>7. gone \in SUBSET AllPath /\ \A p \in gone : Dead(s.want.files[p]) \/ Deletes(rest, p) # {}
  OBVIOUS
<1>8. pc \in {"scan", "physical"} /\ (pc = "scan" => m.acts = {})
  OBVIOUS
<1> HIDE DEF s, gone, n, pc
<1>9. FromOK(s.from, s.want) /\ StampOK(s.stamped, s.load, s.want)
      /\ SameOK(s.from, s.load, s.want) /\ DOMAIN s.from = {}
  BY <1>6, NoGot DEF FromOK, StampOK, SameOK
<1>10. /\ Keeps(s, t, {"want", "from"})
       /\ IndexOK(t.want) /\ t.want.wm = s.want.wm
       /\ FromOK(t.from, t.want) /\ StampOK(s.stamped, s.load, t.want)
       /\ SameOK(t.from, s.load, t.want)
       /\ \A p \in DOMAIN t.from : Dead(t.want.files[p])
  <2>1. IndexOK(s.want)
    BY <1>2, <1>6
  <2> HIDE DEF t
  <2>2. t = WithDeletions(d, s, rest, gone)
    BY DEF t
  <2>3. /\ Keeps(s, t, {"want", "from"})
        /\ IndexOK(t.want) /\ t.want.wm = s.want.wm
        /\ FromOK(s.from, s.want) => FromOK(t.from, t.want)
        /\ StampOK(s.stamped, s.load, s.want) => StampOK(s.stamped, s.load, t.want)
        /\ SameOK(s.from, s.load, s.want) => SameOK(t.from, s.load, t.want)
        /\ (\A p \in DOMAIN s.from : Dead(s.want.files[p]))
              /\ DOMAIN s.from \subseteq AllPath
              => \A p \in DOMAIN t.from : Dead(t.want.files[p])
    <3>1. MayDelete(s, rest, gone)
      BY <1>3, <1>6, <1>7, <2>1 DEF MayDelete
    <3>2. Deleted(s, t)
      BY <2>2, <3>1, Deletions
    <3> QED
      BY <3>2 DEF Deleted
  <2> QED
    BY <1>9, <2>3
<1> HIDE DEF t
<1>11. /\ t.pc = pc /\ t.load = canon /\ t.todo = m.acts /\ t.ret = "scan" /\ t.stamped = {}
       /\ t.l = NoFile /\ t.r = NoFile /\ t.plan = EmptyPlan /\ t.got = <<>> /\ t.rejected = {}
       /\ t.at = Nil /\ DOMAIN t = Fields
  BY <1>6, <1>10 DEF Keeps, Fields
<1>12. DataOK(t, n.next, canon, d)
  <2>1. FilesOK(NoFile)
    BY NamesOf DEF NoFile, FilesOK
  <2>2. MarksOK(canon.wm, canon.wm, n.next, d)
    BY <1>2, <1>3, <1>4, IndexMarks DEF MarksOK
  <2>3. RejectedOK({})
    BY DEF RejectedOK
  <2> QED
    BY <1>2, <1>6, <1>10, <1>11, <2>1, <2>2, <2>3, NoGot, EmptyPlanOK DEF DataOK
<1>13. PlaceOK(t, n)
  <2>1. m.acts \subseteq Act
    BY <1>2 DEF Durable
  <2>2. EarlyOK(t)
    BY <1>8, <1>10, <1>11 DEF EarlyOK
  <2>3. AtOK(t.pc, t.at, t.l)
    BY <1>8, <1>11 DEF AtOK
  <2>4. TodoOK(t.pc, t.todo, t.l, n)
    BY <1>8, <1>11, <2>1 DEF TodoOK
  <2> QED
    BY <1>8, <1>11, <2>2, <2>3, <2>4 DEF PlaceOK, PCs
<1> QED
  BY <1>1, <1>5, <1>12, <1>13, FilesStay, WorkStep

----------------------------------------------------------------------------
(* Physical deletions.                                                     *)

LEMMA GoneIn ==
  ASSUME NEW f, FilesOK(f), NEW g
  PROVE  Gone(f, g) \subseteq Version
<1>1. \A p \in AllPath : f[p] \in Version \cup {Nil}
  BY DEF FilesOK, Content
<1> QED
  BY <1>1 DEF Gone

\* A vault changes in one file.
LEMMA VaultPut ==
  ASSUME Inv, NEW d \in Device, NEW p \in AllPath, NEW x \in Holds(p),
         vault' = [vault EXCEPT ![d][p] = x]
  PROVE  /\ DOMAIN vault' = Device /\ \A e \in Device : FilesOK(vault'[e])
         /\ vault'[d] = [vault[d] EXCEPT ![p] = x]
<1>1. DOMAIN vault = Device /\ \A e \in Device : FilesOK(vault[e])
  BY FilesStay
<1>2. FilesOK([vault[d] EXCEPT ![p] = x])
  BY <1>1, FilesPut
<1> QED
  BY <1>1, <1>2

LEMMA DeletePut ==
  ASSUME Inv, NEW d \in Device, NEW a \in Act, Delete(d, a)
  PROVE  /\ FilesOK(disk') /\ DOMAIN vault' = Device /\ \A e \in Device : FilesOK(vault'[e])
         /\ kept' \subseteq Version
<1>1. a.path \in AllPath
  BY DEF Act
<1>2. Nil \in Holds(a.path)
  BY <1>1, NamesOf
<1>3. DOMAIN vault' = Device /\ \A e \in Device : FilesOK(vault'[e])
  <2>1. vault' = vault \/ vault' = [vault EXCEPT ![d][a.path] = Nil]
    BY DEF Delete
  <2> QED
    BY <1>1, <1>2, <2>1, VaultPut, FilesStay
<1>4. FilesOK(disk')
  <2>1. disk' = disk \/ disk' = [disk EXCEPT ![a.path] = Nil]
    BY DEF Delete
  <2> QED
    BY <1>1, <1>2, <2>1, FilesPut, FilesStay
<1>5. kept' = kept \cup (Gone(vault[d], vault'[d]) \cup Gone(disk, disk'))
  BY DEF Delete
<1>6. Gone(vault[d], vault'[d]) \subseteq Version /\ Gone(disk, disk') \subseteq Version
  BY FilesStay, GoneIn
<1> QED
  BY <1>3, <1>4, <1>5, <1>6, FilesStay

LEMMA PhysicalKeeps ==
  ASSUME Inv, NEW d \in Device, Physical(d)
  PROVE  Inv'
<1> DEFINE s == ses[d]
           m == mem[d]
<1>1. s.pc \in {"physical", "delete"} /\ UNCHANGED <<canon, dropped, past, made, deletes, faults>>
  BY DEF Physical, users
<1>2. Running(s, m, canon, d)
  BY <1>1, Runs
<1>3. DOMAIN s = Fields /\ s.todo \subseteq Act /\ GotOK(s.got)
  BY <1>1, <1>2 DEF Running, DataOK, PlaceOK, TodoOK
<1>4. m \in Durable /\ DurOK(m)
  BY DeviceFacts
<1>5. PICK a \in s.todo : /\ Delete(d, a)
                          /\ Session(d, [s EXCEPT
                                !.todo = IF At(d, "delete") /\ a.kind = "local" /\ ~Authorised(a)
                                         THEN {x \in @ : x.path # a.path} ELSE @ \ {a},
                                !.bad = @ \/ Stays(a)],
                              [m EXCEPT !.acts = IF Stays(a) THEN @ ELSE @ \ {a}], FALSE)
  BY DEF Physical
<1> DEFINE T == IF At(d, "delete") /\ a.kind = "local" /\ ~Authorised(a)
                THEN {x \in s.todo : x.path # a.path} ELSE s.todo \ {a}
           b == s.bad \/ Stays(a)
           A == IF Stays(a) THEN m.acts ELSE m.acts \ {a}
           t == [s EXCEPT !.todo = T, !.bad = b]
           n == [m EXCEPT !.acts = A]
<1>6. Session(d, t, n, FALSE)
  BY <1>3, <1>4, <1>5 DEF Fields, Durable
<1>7. T \subseteq Act /\ A \in SUBSET Act
  BY <1>3, <1>4 DEF Durable
<1> HIDE DEF T, b, A
<1>8. Extends(m, n) /\ n.next = m.next
  BY <1>4, <1>7, Reacted
<1>9. /\ Keeps(s, t, Steering \cup {"got"}) /\ t.got = s.got /\ t.pc = s.pc /\ t.ret = s.ret
      /\ t.todo = T /\ t.at = s.at /\ t.l = s.l /\ t.plan = s.plan /\ t.from = s.from
      /\ t.want = s.want
  BY <1>3 DEF Keeps, Fields, Steering
<1> HIDE DEF t, n
<1>10. DataOK(t, n.next, canon, d)
  BY <1>2, <1>3, <1>8, <1>9, DeviceFacts, DataKept DEF Running
<1>11. PlaceOK(t, n)
  BY <1>1, <1>2, <1>7, <1>9 DEF Running, PlaceOK, EarlyOK, AtOK, TodoOK
<1>12. DurOK(n) /\ (d \notin dropped => Chained(n, canon.wm[d]))
  BY <1>8, ExtendsChains
<1>13. /\ FilesOK(disk') /\ DOMAIN vault' = Device /\ \A e \in Device : FilesOK(vault'[e])
       /\ kept' \subseteq Version
  BY <1>3, <1>5, DeletePut
<1> QED
  BY <1>1, <1>6, <1>10, <1>11, <1>12, <1>13, WorkStep

----------------------------------------------------------------------------
(* The plan.                                                               *)

LEMMA VerifyKeeps ==
  ASSUME Inv, NEW d \in Device, Verify(d)
  PROVE  Inv'
<1> DEFINE s == ses[d]
           N == {p \in AllPath : Stamped(s, p)}
           v == WithPrints(s.want, N, disk)
           r == [p \in AllPath |-> IF Unverified(s, p) THEN disk[p] ELSE s.r[p]]
           t == [s EXCEPT !.r = r, !.stamped = N, !.want = v, !.pc = "plan"]
<1>1. /\ s.pc = "verify"
      /\ UNCHANGED <<canon, disk, vault, kept, dropped, past, made, deletes, faults>>
  BY DEF Verify, At, users
<1>2. Running(s, mem[d], canon, d)
  BY <1>1, Runs
<1>3. DataOK(s, mem[d].next, canon, d) /\ DOMAIN s = Fields
  BY <1>2 DEF Running, DataOK
<1>4. s.at = Nil /\ s.todo = {} /\ \A p \in DOMAIN s.from : Dead(s.want.files[p])
  BY <1>1, <1>2 DEF Running, PlaceOK, EarlyOK, EarlyPC
<1>5. Session(d, t, mem[d], FALSE)
  <2>1. Session(d, [Verified(s) EXCEPT !.pc = "plan"], mem[d], FALSE)
    BY DEF Verify
  <2>2. v = [s.want EXCEPT !.files = [p \in AllPath |->
               IF Stamped(s, p) THEN [s.want.files[p] EXCEPT !.fp = disk[p]] ELSE s.want.files[p]]]
    BY Zenon DEF WithPrints
  <2>3. [Verified(s) EXCEPT !.pc = "plan"] = t
    <3> HIDE DEF v
    <3> QED
      BY <1>3, <2>2 DEF Verified, Fields
  <2> QED
    BY <2>1, <2>3
<1>6. \A p \in N : p \in AllPath /\ Unverified(s, p) /\ s.want.files[p] # None
  BY DEF Stamped
<1>7. IndexOK(s.want) /\ FilesOK(disk)
  BY <1>3, FilesStay DEF DataOK
<1> HIDE DEF N
<1>8. Reprints(s.want, v)
  BY <1>6, <1>7, Restamped
<1>9. FilesOK(r)
  <2>1. \A p \in AllPath : (IF Unverified(s, p) THEN disk[p] ELSE s.r[p]) \in Content
                           /\ (IF Unverified(s, p) THEN disk[p] ELSE s.r[p]) \in Holds(p)
    BY <1>3, <1>7 DEF DataOK, FilesOK
  <2> QED
    BY <2>1 DEF FilesOK
<1> HIDE DEF v, r
<1>10. StampOK(N, s.load, v)
  <2>1. ASSUME NEW p \in N PROVE s.load.files[p] # None
    <3>1. p \in AllPath /\ ~Dead(s.want.files[p]) /\ s.want.files[p] # None
      BY <1>6 DEF Unverified
    <3>2. p \notin DOMAIN s.from
      BY <1>4, <3>1
    <3> QED
      BY <1>3, <3>1, <3>2 DEF DataOK, SameOK
  <2> QED
    BY <1>6, <1>8, <2>1 DEF StampOK, Reprints
<1>11. FromOK(s.from, v) /\ SameOK(s.from, s.load, v)
  <2> DEFINE w == s.want
             h == s.from
  <2>1. FromOK(h, w) /\ SameOK(h, s.load, w) /\ Reprints(w, v)
    BY <1>3, <1>8 DEF DataOK
  <2> HIDE DEF w, h
  <2>2. FromOK(h, v) /\ SameOK(h, s.load, v)
    BY <2>1, Reprinted
  <2> QED
    BY <2>2 DEF h
<1>12. Keeps(s, t, {"r", "stamped", "want", "pc"}) /\ t.r = r /\ t.stamped = N
       /\ t.want = v /\ t.pc = "plan"
  BY <1>3 DEF Keeps, Fields
<1> HIDE DEF t
<1>13. /\ t.load = s.load /\ t.from = s.from /\ t.l = s.l /\ t.plan = s.plan /\ t.got = s.got
       /\ t.rejected = s.rejected /\ t.at = s.at /\ t.todo = s.todo /\ DOMAIN t = Fields
  BY <1>12 DEF Keeps, Fields
<1>14. DataOK(t, mem[d].next, canon, d)
  BY <1>3, <1>8, <1>9, <1>10, <1>11, <1>12, <1>13 DEF DataOK, Reprints
<1>15. PlaceOK(t, mem[d])
  BY <1>4, <1>12, <1>13 DEF PlaceOK, EarlyOK, EarlyPC, AtOK, TodoOK, PCs
<1> QED
  BY <1>1, <1>5, <1>14, <1>15, DeviceFacts, FilesStay, WorkStep

\* What is decided about a path fits it: no upload of nothing, and no conflict
\* of a conflict copy, whose content is its name.
LEMMA DecisionFits ==
  ASSUME NEW l, NEW r, NEW rsha, NEW b, NEW c, NEW x
  PROVE  /\ Decide(l, r, rsha, b, c, x) = "upload" => l # Nil
         /\ Decide(l, r, rsha, b, c, x) = "conflict" => l # Nil /\ r # Nil /\ l # rsha
<1> DEFINE D == Decide(l, r, rsha, b, c, x)
<1>1. CASE Dead(c)
  <2>1. D = UnderTombstone(l, r, b, x)
    BY <1>1 DEF Decide
  <2>2. CASE l # Nil
    BY <2>1, <2>2 DEF UnderTombstone
  <2>3. CASE l = Nil /\ r # Nil
    <3>1. D \in {"download", "delete_remote"}
      BY <2>1, <2>3 DEF UnderTombstone
    <3> QED
      BY <3>1
  <2>4. CASE l = Nil /\ r = Nil
    <3>1. D \in {"none", "delete_local"}
      BY <2>1, <2>4 DEF UnderTombstone
    <3> QED
      BY <3>1
  <2> QED
    BY <2>2, <2>3, <2>4
<1>2. CASE ~Dead(c) /\ l # Nil /\ r # Nil
  <2>1. D = Compare(l, r, rsha, b, c)
    BY <1>2 DEF Decide
  <2>2. l = rsha => D = "none"
    BY <2>1 DEF Compare
  <2> QED
    BY <1>2, <2>2
<1>3. CASE ~Dead(c) /\ l # Nil /\ r = Nil
  <2>1. D = IF c = None \/ l = c.sha THEN "upload" ELSE "delete_local"
    BY <1>3 DEF Decide
  <2> QED
    BY <1>3, <2>1
<1>4. CASE ~Dead(c) /\ l = Nil /\ r # Nil
  <2>1. D \in {"download", "delete_remote"}
    BY <1>4 DEF Decide
  <2> QED
    BY <2>1
<1>5. CASE ~Dead(c) /\ l = Nil /\ r = Nil
  <2>1. D = "none"
    BY <1>5 DEF Decide
  <2> QED
    BY <2>1
<1> QED
  BY <1>1, <1>2, <1>3, <1>4, <1>5

LEMMA PlanFits ==
  ASSUME NEW s, FilesOK(s.l), FilesOK(s.r), IndexOK(s.want), NEW m
  PROVE  PlanOK(PlanOf(s, m), s.l)
<1> SUFFICES ASSUME NEW p \in AllPath
             PROVE  /\ PlanOf(s, m)[p] = "upload" => s.l[p] # Nil
                    /\ PlanOf(s, m)[p] = "conflict" => p \in Conflicts(s.l)
  BY DEF PlanOK
<1>1. PlanOf(s, m)[p] = IF Moot(s, m, p) THEN "none" ELSE Planned(s, m, p)
  BY DEF PlanOf
<1>2. /\ Planned(s, m, p) = "upload" => s.l[p] # Nil
      /\ Planned(s, m, p) = "conflict" =>
            s.l[p] # Nil /\ s.r[p] # Nil /\ s.l[p] # TakenFor(s, p)
  BY DecisionFits DEF Planned
<1>3. ASSUME s.l[p] # Nil, s.r[p] # Nil, s.l[p] # TakenFor(s, p)
      PROVE  p \in Path
  <2> SUFFICES ASSUME NEW q \in Path, NEW v \in Version, p = CopyOf(q, v) PROVE FALSE
    BY DEF AllPath
  <2>1. Named(p) = {v}
    BY NamesOf
  <2>2. s.l[p] = v /\ s.r[p] = v
    BY <1>3, <2>1, FileOf
  <2>3. Live(s.want.files[p]) => s.want.files[p].sha = v
    BY <2>1, EntryOf DEF Live
  <2>4. TakenFor(s, p) = v
    BY <2>2, <2>3 DEF TakenFor
  <2> QED
    BY <1>3, <2>2, <2>4
<1> QED
  BY <1>1, <1>2, <1>3 DEF Conflicts

\* Pending mutations stay pending while the queue only grows.
LEMMA SamePuts ==
  ASSUME NEW m, NEW n, n.queue = m.queue
  PROVE  \A p, x : PutsOf(n, p, x) = PutsOf(m, p, x) /\ Deletes(n, p) = Deletes(m, p)
  BY DEF PutsOf, Puts, Deletes

LEMMA PutsStay ==
  ASSUME NEW m, NEW n, DurOK(m), Extends(m, n), NEW p
  PROVE  /\ \A x : PutsOf(m, p, x) # {} => PutsOf(n, p, x) # {}
         /\ Deletes(m, p) # {} => Deletes(n, p) # {}
<1>1. DurOK(n) /\ Len(n.queue) >= Len(m.queue) /\ \A i \in 1 .. Len(m.queue) : n.queue[i] = m.queue[i]
  BY DEF Extends
<1>2. /\ DOMAIN m.queue = 1 .. Len(m.queue) /\ DOMAIN n.queue = 1 .. Len(n.queue)
      /\ Len(m.queue) \in Nat /\ Len(n.queue) \in Nat
  BY <1>1, QueueFacts
<1>3. \A i \in DOMAIN m.queue : i \in DOMAIN n.queue /\ n.queue[i] = m.queue[i]
  BY <1>1, <1>2
<1> QED
  BY <1>3 DEF PutsOf, Puts, Deletes

\* A mutation for each path that has none leaves none without.
Unput(m, S, sha) == {p \in S : PutsOf(m, p, sha[p]) = {}}

Undeleted(m, S) == {p \in S : Deletes(m, p) = {}}

AllPut(m, n, S, sha) ==
  /\ Extends(m, n) /\ Grows(m, n, "put") /\ n.base = m.base /\ n.acts = m.acts
  /\ \A p \in S : PutsOf(n, p, sha[p]) # {}

AllDeleted(m, n, S) ==
  /\ Extends(m, n) /\ n.base = m.base /\ n.acts = m.acts
  /\ \A p \in S : Deletes(n, p) # {}

LEMMA PutsEnsured ==
  ASSUME NEW m, DurOK(m), NEW S \in SUBSET AllPath, NEW sha, \A p \in S : sha[p] \in Content,
         NEW b \in Nat
  PROVE  AllPut(m, EnqueueEach(m, "put", Unput(m, S, sha), sha, b), S, sha)
<1> DEFINE ps == Unput(m, S, sha)
           n == EnqueueEach(m, "put", ps, sha, b)
<1>1. ps \in SUBSET AllPath /\ \A p \in ps : sha[p] \in Content
  BY DEF Unput
<1> HIDE DEF n
<1>2. Added(m, n, "put", ps, sha)
  <2> HIDE DEF ps
  <2> QED
    BY <1>1, EnqueueEachExtends DEF n
<1>3. ASSUME NEW p \in S PROVE PutsOf(n, p, sha[p]) # {}
  <2>1. CASE p \in ps
    BY <1>2, <2>1 DEF PutsOf, Puts, Added
  <2>2. CASE p \notin ps
    <3>1. Extends(m, n) /\ PutsOf(m, p, sha[p]) # {}
      BY <1>2, <2>2 DEF Added, Unput
    <3> QED
      BY <3>1, PutsStay
  <2> QED
    BY <2>1, <2>2
<1> QED
  BY <1>2, <1>3 DEF n, Added, AllPut

LEMMA DeletesEnsured ==
  ASSUME NEW m, DurOK(m), NEW S \in SUBSET AllPath, NEW b \in Nat
  PROVE  AllDeleted(m, EnqueueEach(m, "delete", Undeleted(m, S), NoFile, b), S)
<1> DEFINE ps == Undeleted(m, S)
           n == EnqueueEach(m, "delete", ps, NoFile, b)
<1>1. ps \in SUBSET AllPath /\ \A p \in ps : NoFile[p] \in Content
  BY Numbers DEF NoFile, Undeleted
<1> HIDE DEF n
<1>2. Added(m, n, "delete", ps, NoFile)
  <2> HIDE DEF ps
  <2> QED
    BY <1>1, EnqueueEachExtends DEF n
<1>3. ASSUME NEW p \in S PROVE Deletes(n, p) # {}
  <2>1. CASE p \in ps
    BY <1>2, <2>1 DEF Deletes, Added
  <2>2. CASE p \notin ps
    <3>1. Extends(m, n) /\ Deletes(m, p) # {}
      BY <1>2, <2>2 DEF Added, Undeleted
    <3> QED
      BY <3>1, PutsStay
  <2> QED
    BY <2>1, <2>2
<1> QED
  BY <1>2, <1>3 DEF n, Added, AllDeleted

\* Paths found equal become puts of the device in its desired index.
MayClaim(s, m) ==
  /\ DOMAIN s = Fields /\ IndexOK(s.want) /\ FilesOK(s.l) /\ FilesOK(s.r) /\ DurOK(m)
  /\ \A p \in Confirming(s) : PutsOf(m, p, s.l[p]) # {}

Claimed(s, t) ==
  /\ Keeps(s, t, {"want", "from", "stamped"})
  /\ IndexOK(t.want) /\ t.want.wm = s.want.wm
  /\ FromOK(s.from, s.want) => FromOK(t.from, t.want)
  /\ StampOK(s.stamped, s.load, s.want) => StampOK(t.stamped, s.load, t.want)
  /\ SameOK(s.from, s.load, s.want) => SameOK(t.from, s.load, t.want)

LEMMA Claims ==
  ASSUME NEW d \in Device, NEW s, NEW m, MayClaim(s, m)
  PROVE  Claimed(s, Canonicalised(d, s, m))
<1> DEFINE t == Canonicalised(d, s, m)
           x(p) == LastOf(m, PutsOf(m, p, s.l[p]))
           N == Confirming(s)
           w == s.want
           f == [p \in AllPath |-> IF p \in N THEN PutEntry(d, x(p), s.l[p], FALSE, Nil, s.r[p])
                                   ELSE w.files[p]]
           v == [w EXCEPT !.files = f]
           g == [p \in N |-> x(p).base]
<1>1. /\ DOMAIN s = Fields /\ IndexOK(w) /\ FilesOK(s.l) /\ FilesOK(s.r) /\ DurOK(m)
      /\ \A p \in N : PutsOf(m, p, s.l[p]) # {}
  BY DEF MayClaim
<1>2. N \in SUBSET AllPath /\ \A p \in N : s.l[p] # Nil
  BY DEF Confirming, Agreed
<1>3. t = [s EXCEPT !.want = v, !.from = Over(s.from, g), !.stamped = s.stamped \ N]
  BY <1>1 DEF Canonicalised, Fields
<1>4. ASSUME NEW p \in N
      PROVE  f[p] \in Says(p) /\ f[p].by \in Device
  <2>1. f[p] = PutEntry(d, x(p), s.l[p], FALSE, Nil, s.r[p])
    BY <1>2
  <2>2. PutsOf(m, p, s.l[p]) \in SUBSET DOMAIN m.queue /\ PutsOf(m, p, s.l[p]) # {}
    BY <1>1 DEF PutsOf, Puts
  <2>3. x(p).seq \in Nat
    BY <1>1, <2>2, LastIsOne
  <2>4. p \in AllPath /\ s.l[p] \in Named(p) /\ s.l[p] \in Content /\ s.r[p] \in Content
    BY <1>1, <1>2, FileOf
  <2> HIDE DEF f, x
  <2> QED
    BY <2>1, <2>3, <2>4, PutEntrySays
<1>5. DOMAIN f = AllPath /\ f = [p \in AllPath |-> f[p]]
      /\ \A p \in AllPath \ N : f[p] = w.files[p]
  <2> HIDE DEF x, N
  <2> QED
    BY Zenon
<1>6. DOMAIN Over(s.from, g) = DOMAIN s.from \cup N
  BY DEF Over
<1> HIDE DEF f, g, N
<1>7. Rewrites(w, v, N) /\ v.files = f /\ v.wm = w.wm
  <2>1. \A p \in N : f[p] \in Says(p) /\ f[p].by \in Device
    BY <1>4
  <2>2. v = [w EXCEPT !.files = f] /\ IndexOK(w)
    BY <1>1
  <2> HIDE DEF v, w
  <2> QED
    BY <1>2, <1>5, <2>1, <2>2, Rewritten
<1> HIDE DEF v
<1>8. /\ FromOK(s.from, w) => FromOK(Over(s.from, g), v)
      /\ \A stamped, load : StampOK(stamped, load, w) => StampOK(stamped, load, v)
      /\ \A load : SameOK(s.from, load, w) => SameOK(Over(s.from, g), load, v)
  <2> DEFINE h == s.from
             o == Over(h, g)
  <2>1. DOMAIN o = DOMAIN h \cup N
    BY <1>6
  <2> HIDE DEF h, o, w
  <2>2. /\ FromOK(h, w) => FromOK(o, v)
        /\ \A stamped, load : StampOK(stamped, load, w) => StampOK(stamped, load, v)
        /\ \A load : SameOK(h, load, w) => SameOK(o, load, v)
    BY <1>7, <2>1, Authored
  <2> QED
    BY <2>2 DEF h, o
<1>9. /\ Keeps(s, t, {"want", "from", "stamped"}) /\ t.want = v /\ t.from = Over(s.from, g)
      /\ t.stamped = s.stamped \ N
  BY <1>1, <1>3 DEF Keeps, Fields
<1> HIDE DEF t
<1>10. StampOK(s.stamped, s.load, w) => StampOK(t.stamped, s.load, v)
  BY <1>8, <1>9 DEF StampOK
<1>11. Claimed(s, t)
  BY <1>7, <1>8, <1>9, <1>10 DEF Claimed, Rewrites
<1> QED
  BY <1>11 DEF t

\* What WithConfirmed adds to the queue, and to the baselines.
Confirms(s, m, n) ==
  /\ Grows(m, n, "put") /\ n.acts = m.acts
  /\ \A p \in AllPath : n.base[p] = IF Agreed(s, p) THEN Confirmed(s.l[p], s.want.files[p])
                                    ELSE m.base[p]

LEMMA ConfirmedExtends ==
  ASSUME NEW m, DurOK(m), NEW s, FilesOK(s.l), IndexOK(s.want)
  PROVE  /\ Extends(m, WithConfirmed(s, m)) /\ Confirms(s, m, WithConfirmed(s, m))
         /\ \A p \in Confirming(s) : PutsOf(WithConfirmed(s, m), p, s.l[p]) # {}
<1> DEFINE ps == Unput(m, Confirming(s), s.l)
           e == EnqueueEach(m, "put", ps, s.l, s.want.rev)
           f == [p \in AllPath |-> IF Agreed(s, p) THEN Confirmed(s.l[p], s.want.files[p])
                                   ELSE e.base[p]]
           n == WithConfirmed(s, m)
<1>1. Confirming(s) \in SUBSET AllPath /\ \A p \in Confirming(s) : s.l[p] \in Content
  BY FileOf DEF Confirming
<1>2. s.want.rev \in Nat
  BY IndexMarks
<1>3. /\ Extends(m, e) /\ e.base = m.base /\ e.acts = m.acts /\ Grows(m, e, "put")
      /\ \A p \in Confirming(s) : PutsOf(e, p, s.l[p]) # {}
  <2>1. AllPut(m, e, Confirming(s), s.l)
    BY <1>1, <1>2, PutsEnsured
  <2> QED
    BY <2>1 DEF AllPut
<1> HIDE DEF ps, e
<1>4. DurOK(e) /\ e.base \in [AllPath -> Baseline]
  BY <1>3 DEF Extends, DurOK, Durable
<1>5. f \in [AllPath -> Baseline]
  <2> SUFFICES ASSUME NEW p \in AllPath
               PROVE  (IF Agreed(s, p) THEN Confirmed(s.l[p], s.want.files[p]) ELSE e.base[p])
                         \in Baseline
    OBVIOUS
  <2>1. s.l[p] \in Content /\ s.want.files[p] \in Entry \cup {None}
    BY FileOf, EntryOf
  <2>2. Confirmed(s.l[p], s.want.files[p]) \in Baseline
    BY <2>1, BaselineTyped
  <2> QED
    BY <1>4, <2>2
<1>6. n = [e EXCEPT !.base = f]
  <2>1. n = [EnqueueEach(m, "put", ps, s.l, s.want.rev) EXCEPT !.base =
               [p \in AllPath |-> IF Agreed(s, p) THEN Confirmed(s.l[p], s.want.files[p]) ELSE @[p]]]
    BY Zenon DEF WithConfirmed, ps, Unput
  <2>2. n = [e EXCEPT !.base =
               [p \in AllPath |-> IF Agreed(s, p) THEN Confirmed(s.l[p], s.want.files[p]) ELSE @[p]]]
    BY <2>1 DEF e
  <2> HIDE DEF n
  <2> QED
    BY <1>4, <2>2 DEF DurOK, Durable
<1> HIDE DEF n
<1>7. Extends(e, n) /\ n.queue = e.queue /\ n.base = f /\ n.acts = e.acts
  <2> HIDE DEF f
  <2> QED
    BY <1>4, <1>5, <1>6, Rebased
<1>8. Extends(m, n)
  BY <1>3, <1>7, ExtendsFurther
<1>9. \A p \in Confirming(s) : PutsOf(n, p, s.l[p]) # {}
  BY <1>3, <1>7, SamePuts
<1>10. Confirms(s, m, n)
  <2>1. Grows(m, n, "put") /\ n.acts = m.acts
    BY <1>3, <1>7 DEF Grows
  <2>2. \A p \in AllPath : f[p] = IF Agreed(s, p) THEN Confirmed(s.l[p], s.want.files[p])
                                  ELSE m.base[p]
    BY <1>3
  <2> QED
    BY <1>7, <2>1, <2>2 DEF Confirms
<1> QED
  BY <1>8, <1>9, <1>10 DEF n

LEMMA PlanKeeps ==
  ASSUME Inv, NEW d \in Device, Plan(d)
  PROVE  Inv'
<1> DEFINE s0 == ses[d]
           m == Remaining(d)
           plan == PlanOf(s0, m)
           s == [s0 EXCEPT !.plan = plan, !.pc = "prepare"]
           n == WithConfirmed(s, m)
           t == Canonicalised(d, s, n)
<1>1. /\ s0.pc = "plan"
      /\ ses' = [ses EXCEPT ![d] = t] /\ mem' = [mem EXCEPT ![d] = n]
      /\ saved' = [saved EXCEPT ![d] = IF n.next > m.next THEN n
                                        ELSE IF m # mem[d] THEN m ELSE saved[d]]
      /\ UNCHANGED <<canon, disk, vault, kept, dropped, past, made, deletes, faults>>
  BY DEF Plan, At, users
<1>2. DataOK(s0, mem[d].next, canon, d) /\ PlaceOK(s0, mem[d]) /\ DOMAIN s0 = Fields
  BY <1>1, Runs DEF Running, DataOK
<1>3. Extends(mem[d], m)
  BY RemainingExtends
<1> HIDE DEF m
<1>4. PlanOK(plan, s0.l)
  BY <1>2, PlanFits DEF DataOK
<1> HIDE DEF plan
<1>5. Keeps(s0, s, {"plan", "pc"}) /\ s.plan = plan /\ s.pc = "prepare" /\ DOMAIN s = Fields
  BY <1>2 DEF Keeps, Fields
<1> HIDE DEF s
<1>6. /\ s.load = s0.load /\ s.want = s0.want /\ s.from = s0.from /\ s.stamped = s0.stamped
      /\ s.l = s0.l /\ s.r = s0.r /\ s.got = s0.got /\ s.rejected = s0.rejected
      /\ s.at = s0.at /\ s.todo = s0.todo
  BY <1>5 DEF Keeps, Fields
<1>7. IndexOK(s.want) /\ FilesOK(s.l) /\ FilesOK(s.r)
  BY <1>2, <1>6 DEF DataOK
<1>8. DurOK(m)
  BY <1>3, ExtendsChains
<1>9. Extends(m, n) /\ \A p \in Confirming(s) : PutsOf(n, p, s.l[p]) # {}
  BY <1>7, <1>8, ConfirmedExtends
<1> HIDE DEF n
<1>10. Extends(mem[d], n) /\ DurOK(n)
  BY <1>3, <1>9, DeviceFacts, ExtendsFurther DEF Extends
<1>11. Claimed(s, t)
  <2>1. MayClaim(s, n)
    BY <1>5, <1>7, <1>9, <1>10 DEF MayClaim
  <2> QED
    BY <2>1, Claims
<1> HIDE DEF t
<1>12. /\ Keeps(s, t, {"want", "from", "stamped"})
       /\ IndexOK(t.want) /\ t.want.wm = s.want.wm
       /\ FromOK(t.from, t.want)
       /\ StampOK(t.stamped, s.load, t.want)
       /\ SameOK(t.from, s.load, t.want)
  BY <1>2, <1>6, <1>11 DEF Claimed, DataOK
<1>13. /\ t.load = s.load /\ t.l = s.l /\ t.r = s.r /\ t.plan = plan /\ t.pc = "prepare"
       /\ t.got = s.got /\ t.rejected = s.rejected /\ t.at = s.at /\ t.todo = s.todo
       /\ DOMAIN t = Fields
  BY <1>5, <1>12 DEF Keeps, Fields
<1>14. MarksOK(t.want.wm, canon.wm, n.next, d)
  <2>1. MarksOK(s0.want.wm, canon.wm, mem[d].next, d) /\ t.want.wm = s0.want.wm
    BY <1>2, <1>6, <1>12 DEF DataOK
  <2>2. n.next >= mem[d].next /\ n.next \in Nat /\ mem[d].next \in Nat
    BY <1>10, QueueFacts, DeviceFacts DEF Extends
  <2>3. s0.want.wm[d] \in Nat
    BY <1>6, <1>7, IndexMarks
  <2> QED
    BY <2>1, <2>2, <2>3 DEF MarksOK
<1>15. DataOK(t, n.next, canon, d)
  BY <1>2, <1>4, <1>6, <1>12, <1>13, <1>14 DEF DataOK
<1>16. PlaceOK(t, n)
  BY <1>1, <1>2, <1>6, <1>13 DEF PlaceOK, EarlyOK, EarlyPC, AtOK, TodoOK, PCs
<1>17. SesOK(t, n, canon, d)
  BY <1>15, <1>16 DEF SesOK, Running
<1> DEFINE k == IF n.next > m.next THEN n ELSE IF m # mem[d] THEN m ELSE saved[d]
<1>18. DurOK(k) /\ (d \notin dropped => Chained(k, canon.wm[d]))
  <2>1. DurOK(n) /\ (d \notin dropped => Chained(n, canon.wm[d]))
    BY <1>10, ExtendsChains
  <2>2. DurOK(m) /\ (d \notin dropped => Chained(m, canon.wm[d]))
    BY <1>3, ExtendsChains
  <2>3. DurOK(saved[d]) /\ (d \notin dropped => Chained(saved[d], canon.wm[d]))
    BY DEF Inv, DeviceOK, ChainsOK
  <2> QED
    BY <2>1, <2>2, <2>3
<1>19. DurOK(n) /\ (d \notin dropped => Chained(n, canon.wm[d]))
  BY <1>10, ExtendsChains
<1>20. DOMAIN saved' = Device /\ saved'[d] = k /\ \A e \in Device \ {d} : saved'[e] = saved[e]
  BY <1>1 DEF Inv, ShapesOK
<1> HIDE DEF k
<1>21. FilesOK(disk') /\ DOMAIN vault' = Device /\ (\A e \in Device : FilesOK(vault'[e])) /\ CountsOK'
  BY <1>1, FilesStay DEF Inv, CountsOK
<1> QED
  BY <1>1, <1>17, <1>18, <1>19, <1>20, <1>21, DeviceStep

LEMMA PrepareKeeps ==
  ASSUME Inv, NEW d \in Device, Prepare(d)
  PROVE  Inv'
<1> DEFINE s == ses[d]
           m == mem[d]
           U == Ops(s, {"upload"})
           n == WithUploads(s, m)
           t == Enter(s, "upload")
<1>1. /\ s.pc = "prepare" /\ \E save : Session(d, t, n, save)
      /\ UNCHANGED <<canon, disk, vault, kept, dropped, past, made, deletes, faults>>
  BY DEF Prepare, At, users
<1>2. DataOK(s, m.next, canon, d) /\ PlaceOK(s, m) /\ DOMAIN s = Fields
  BY <1>1, Runs DEF Running, DataOK
<1>3. DurOK(m) /\ m \in Durable /\ m.obs \in Nat
  BY DeviceFacts DEF Durable
<1>4. U \in SUBSET AllPath /\ \A p \in U : s.l[p] \in Content /\ s.l[p] # Nil
  BY <1>2, FileOf DEF Ops, DataOK, PlanOK
<1>5. AllPut(m, n, U, s.l)
  <2>1. n = EnqueueEach(m, "put", Unput(m, U, s.l), s.l, m.obs)
    BY Zenon DEF WithUploads, Unput
  <2> HIDE DEF U, n
  <2>2. AllPut(m, EnqueueEach(m, "put", Unput(m, U, s.l), s.l, m.obs), U, s.l)
    BY <1>3, <1>4, PutsEnsured
  <2> QED
    BY <2>1, <2>2
<1> HIDE DEF n
<1>6. Extends(m, n) /\ \A p \in U : Puttable(n, s.l, p)
  BY <1>4, <1>5 DEF AllPut, Puttable
<1>7. Keeps(s, t, {"pc", "todo"}) /\ PlaceOK(t, n)
  <2>1. PlanOK(s.plan, s.l) /\ (s.at # Nil => s.at \in Conflicts(s.l))
    BY <1>2 DEF DataOK, PlaceOK, AtOK
  <2> QED
    BY <1>2, <1>6, <2>1, EnterPlace
<1>8. Keeps(s, t, Steering \cup {"got"}) /\ t.got = s.got
  BY <1>7, KeepsMore DEF Steering, Keeps, Fields
<1> HIDE DEF t
<1>9. DataOK(t, n.next, canon, d)
  <2>1. n.next \in Nat /\ m.next \in Nat /\ n.next >= m.next
    BY <1>3, <1>6, QueueFacts DEF Extends
  <2> QED
    BY <1>2, <1>8, <2>1, DeviceFacts, DataKept DEF DataOK
<1> QED
  BY <1>1, <1>6, <1>7, <1>9, ExtendsChains, FilesStay, WorkStep

----------------------------------------------------------------------------
(* Uploads.                                                                *)

LEMMA UploadKeeps ==
  ASSUME Inv, NEW d \in Device, NEW p \in AllPath, Upload(d, p)
  PROVE  Inv'
<1> DEFINE s == ses[d]
           m == mem[d]
           w == s.want
           x == LastOf(m, PutsOf(m, p, s.l[p]))
           e == PutEntry(d, x, s.l[p], Nil, Nil, Nil)
           b == LastOf(m, Puts(m, p)).base
           v == [w EXCEPT !.files[p] = e]
           T == s.todo \ {p}
           h == s.from
           t == [s EXCEPT !.todo = T, !.want = v, !.from = With(h, p, b)]
           n == [m EXCEPT !.base[p] = Transferred(s.l[p])]
<1>1. /\ s.pc = "upload" /\ p \in s.todo
      /\ disk' = [disk EXCEPT ![p] = s.l[p]]
      /\ Session(d, [s EXCEPT !.todo = @ \ {p},
                              !.want.files[p] = PutEntry(d, x, s.l[p], Nil, Nil, Nil),
                              !.from = With(@, p, LastOf(mem[d], Puts(mem[d], p)).base)],
                 [mem[d] EXCEPT !.base[p] = Transferred(s.l[p])], FALSE)
      /\ UNCHANGED <<canon, vault, kept, dropped, past, made, deletes, faults>>
  BY DEF Upload, At, users
<1>2. DataOK(s, m.next, canon, d) /\ PlaceOK(s, m) /\ DOMAIN s = Fields /\ IndexOK(w)
      /\ FilesOK(s.l)
  BY <1>1, Runs DEF Running, DataOK
<1>3. DurOK(m)
  BY DeviceFacts
<1>4. Session(d, t, n, FALSE)
  <2> HIDE DEF x
  <2> QED
    BY <1>1, <1>2 DEF Fields
<1>5. s.l[p] # Nil /\ PutsOf(m, p, s.l[p]) # {} /\ \A q \in T : Puttable(m, s.l, q)
  BY <1>1, <1>2 DEF PlaceOK, TodoOK, Puttable
<1>6. s.l[p] \in Content /\ s.l[p] \in Named(p) /\ s.l[p] \in Holds(p)
  BY <1>2, <1>5, FileOf
<1>7. e \in Says(p) /\ e.by \in Device
  <2>1. PutsOf(m, p, s.l[p]) \in SUBSET DOMAIN m.queue
    BY DEF PutsOf, Puts
  <2>2. x.seq \in Nat
    BY <1>3, <1>5, <2>1, LastIsOne
  <2>3. Nil \in Content
    BY Numbers
  <2> HIDE DEF x
  <2> QED
    BY <1>6, <2>2, <2>3, PutEntrySays
<1> HIDE DEF e, b, x
<1>8. /\ IndexOK(v) /\ v.wm = w.wm
      /\ FromOK(With(h, p, b), v) /\ StampOK(s.stamped, s.load, v)
      /\ SameOK(With(h, p, b), s.load, v)
  <2>1. v = [w EXCEPT !.files[p] = e]
    OBVIOUS
  <2>2. FromOK(h, w) /\ StampOK(s.stamped, s.load, w) /\ SameOK(h, s.load, w)
    BY <1>2 DEF DataOK
  <2> HIDE DEF v, w, h
  <2>3. /\ IndexOK(v) /\ v.wm = w.wm
        /\ FromOK(h, w) => FromOK(With(h, p, b), v)
        /\ \A stamped, load : StampOK(stamped, load, w) => StampOK(stamped, load, v)
        /\ \A load : SameOK(h, load, w) => SameOK(With(h, p, b), load, v)
    BY <1>2, <1>7, <2>1, RewrittenAt
  <2> QED
    BY <2>2, <2>3
<1> HIDE DEF v
<1>9. Extends(m, n) /\ n.queue = m.queue /\ n.next = m.next
  <2>1. Transferred(s.l[p]) \in Baseline
    BY <1>6, BaselineTyped
  <2> QED
    BY <1>3, <2>1, RebasedAt
<1>10. /\ Keeps(s, t, {"todo", "want", "from"}) /\ t.todo = T /\ t.want = v
       /\ t.from = With(h, p, b)
  BY <1>2 DEF Keeps, Fields
<1> HIDE DEF t, n, T
<1>11. /\ t.load = s.load /\ t.l = s.l /\ t.r = s.r /\ t.plan = s.plan /\ t.pc = "upload"
       /\ t.got = s.got /\ t.rejected = s.rejected /\ t.at = s.at /\ t.stamped = s.stamped
       /\ DOMAIN t = Fields
  BY <1>1, <1>10 DEF Keeps, Fields
<1>12. DataOK(t, n.next, canon, d)
  BY <1>2, <1>8, <1>9, <1>10, <1>11 DEF DataOK
<1>13. PlaceOK(t, n)
  <2>1. \A q \in T : Puttable(n, s.l, q)
    BY <1>5, <1>9, SamePuts DEF Puttable
  <2> QED
    BY <1>1, <1>2, <1>10, <1>11, <2>1 DEF PlaceOK, EarlyOK, EarlyPC, AtOK, TodoOK, PCs
<1>14. FilesOK(disk')
  BY <1>1, <1>6, FilesStay, FilesPut
<1>15. DurOK(n) /\ (d \notin dropped => Chained(n, canon.wm[d]))
  BY <1>9, ExtendsChains
<1> QED
  BY <1>1, <1>4, <1>12, <1>13, <1>14, <1>15, FilesStay, WorkStep

LEMMA StampKeeps ==
  ASSUME Inv, NEW d \in Device, Stamp(d)
  PROVE  Inv'
<1> DEFINE s == ses[d]
           m == mem[d]
           N == Missing(s)
           v == WithPrints(s.want, N, disk)
           S == s.stamped \cup (N \ DOMAIN s.from)
           s1 == [s EXCEPT !.want = v, !.stamped = S]
           t == Enter(s1, "download")
<1>1. /\ s.pc = "upload"
      /\ UNCHANGED <<canon, disk, vault, kept, dropped, past, made, deletes, faults>>
  BY DEF Stamp, At, users
<1>2. DataOK(s, m.next, canon, d) /\ PlaceOK(s, m) /\ DOMAIN s = Fields
      /\ IndexOK(s.want) /\ FilesOK(disk)
  BY <1>1, Runs, FilesStay DEF Running, DataOK
<1>3. Session(d, t, m, FALSE)
  <2>1. v = [s.want EXCEPT !.files = [p \in AllPath |->
               IF p \in Missing(s) THEN [s.want.files[p] EXCEPT !.fp = disk[p]]
               ELSE s.want.files[p]]]
    BY Zenon DEF WithPrints
  <2>2. [s EXCEPT !.want.files = [p \in AllPath |->
                                    IF p \in Missing(s) THEN [@[p] EXCEPT !.fp = disk[p]]
                                    ELSE @[p]],
                  !.stamped = @ \cup (Missing(s) \ DOMAIN s.from)] = s1
    <3> HIDE DEF v
    <3> QED
      BY <1>2, <2>1 DEF Fields
  <2> HIDE DEF s1
  <2>3. Session(d, Enter([s EXCEPT !.want.files = [p \in AllPath |->
                                     IF p \in Missing(s) THEN [@[p] EXCEPT !.fp = disk[p]]
                                     ELSE @[p]],
                                   !.stamped = @ \cup (Missing(s) \ DOMAIN s.from)], "download"),
                m, FALSE)
    BY Zenon DEF Stamp
  <2> QED
    BY <2>2, <2>3
<1>4. \A p \in N : p \in AllPath /\ s.want.files[p] # None
  BY DEF Missing, Live
<1> HIDE DEF N
<1>5. Reprints(s.want, v)
  BY <1>2, <1>4, Restamped
<1> HIDE DEF v
<1>6. FromOK(s.from, v) /\ SameOK(s.from, s.load, v) /\ StampOK(s.stamped, s.load, v)
  <2> DEFINE w == s.want
             h == s.from
  <2>1. FromOK(h, w) /\ SameOK(h, s.load, w) /\ Reprints(w, v) /\ StampOK(s.stamped, s.load, w)
    BY <1>2, <1>5 DEF DataOK
  <2> HIDE DEF w, h
  <2>2. FromOK(h, v) /\ SameOK(h, s.load, v) /\ StampOK(s.stamped, s.load, v)
    BY <2>1, Reprinted
  <2> QED
    BY <2>2 DEF h
<1>7. StampOK(S, s.load, v)
  <2>1. \A p \in N : v.files[p] # None
    BY <1>4, <1>5 DEF Reprints
  <2>2. \A p \in N \ DOMAIN s.from : s.load.files[p] # None
    BY <1>4, <1>6, <2>1 DEF SameOK
  <2> QED
    BY <1>4, <1>6, <2>1, <2>2 DEF StampOK
<1> HIDE DEF S
<1>8. Keeps(s, s1, {"want", "stamped"}) /\ s1.want = v /\ s1.stamped = S
  BY <1>2 DEF Keeps, Fields
<1> HIDE DEF s1
<1>9. /\ s1.load = s.load /\ s1.from = s.from /\ s1.l = s.l /\ s1.r = s.r /\ s1.plan = s.plan
      /\ s1.got = s.got /\ s1.rejected = s.rejected /\ s1.at = s.at /\ DOMAIN s1 = Fields
  BY <1>8 DEF Keeps, Fields
<1>10. DataOK(s1, m.next, canon, d)
  BY <1>2, <1>5, <1>6, <1>7, <1>8, <1>9 DEF DataOK, Reprints
<1>11. Keeps(s1, t, {"pc", "todo"}) /\ PlaceOK(t, m)
  <2>1. PlanOK(s1.plan, s1.l) /\ (s1.at # Nil => s1.at \in Conflicts(s1.l))
    BY <1>2, <1>9 DEF DataOK, PlaceOK, AtOK
  <2> QED
    BY <1>9, <2>1, EnterPlace
<1>12. Keeps(s1, t, Steering \cup {"got"}) /\ t.got = s1.got
  BY <1>11, KeepsMore DEF Steering, Keeps, Fields
<1> HIDE DEF t
<1>13. DataOK(t, m.next, canon, d)
  BY <1>10, <1>12, DeviceFacts, DataKept DEF DataOK
<1> QED
  BY <1>1, <1>3, <1>11, <1>13, DeviceFacts, FilesStay, WorkStep

----------------------------------------------------------------------------
(* Content that is applied or sent.                                        *)

\* An entry of the device with the watermark that goes with it.
WithPut(w, p, e, d, k) == [w EXCEPT !.files[p] = e, !.wm[d] = Staged(w.wm[d], k)]

LEMMA OwnPut ==
  ASSUME NEW w, IndexOK(w), NEW p \in AllPath, NEW e \in Says(p), e.by \in Device,
         NEW d \in Device, NEW k \in Nat
  PROVE  /\ Rewrites(w, WithPut(w, p, e, d, k), {p})
         /\ WithPut(w, p, e, d, k).wm[d] = Staged(w.wm[d], k)
         /\ \A x \in Device \ {d} : WithPut(w, p, e, d, k).wm[x] = w.wm[x]
<1> DEFINE v1 == [w EXCEPT !.files[p] = e]
           z == Staged(w.wm[d], k)
           v == [v1 EXCEPT !.wm[d] = z]
<1>1. /\ IndexOK(v1) /\ v1.wm = w.wm /\ v1.files[p] = e
      /\ \A x \in AllPath \ {p} : v1.files[x] = w.files[x]
  BY IndexPut
<1>2. z \in Nat
  BY IndexMarks DEF Staged
<1>3. WithPut(w, p, e, d, k) = v
  BY DEF WithPut
<1> HIDE DEF v1, z
<1>4. /\ IndexOK(v) /\ v.files = v1.files /\ v.wm[d] = z
      /\ \A x \in Device \ {d} : v.wm[x] = v1.wm[x]
  BY <1>1, <1>2, IndexMark
<1>5. e # None
  BY EntryIsSome
<1> HIDE DEF v
<1>6. Rewrites(w, v, {p})
  BY <1>1, <1>4, <1>5 DEF Rewrites
<1> QED
  BY <1>1, <1>3, <1>4, <1>6 DEF z

LEMMA ApplyKeeps ==
  ASSUME Inv, NEW d \in Device, ses[d].pc # "idle", NEW p \in AllPath, NEW content \in Named(p),
         NEW s, Keeps(ses[d], s, Steering \cup {"got"}), GotOK(s.got), PlaceOK(s, mem[d]),
         s.pc \in {"download", "conflict", "final", "cleanup"},
         Apply(d, s, p, content),
         UNCHANGED <<canon, disk, dropped, past, made, deletes, faults>>
  PROVE  Inv'
<1> DEFINE m == mem[d]
           w == s.want
           c == w.files[p]
           old == IF c = None THEN Nil ELSE c.sha
           q == EnsurePut(m, p, content, old, m.obs)
           x == LastOf(q, PutsOf(q, p, content))
<1>1. DataOK(s, m.next, canon, d)
  BY DeviceFacts, DataKept, Runs DEF Running
<1>2. DOMAIN s = Fields /\ IndexOK(w)
  BY <1>1 DEF DataOK
<1>3. DurOK(m) /\ m \in Durable /\ m.obs \in Nat /\ m.next \in Nat
  BY DeviceFacts DEF Durable
<1>4. content \in Content /\ content \in Holds(p)
  BY NamesOf DEF Holds
<1>5. DOMAIN vault' = Device /\ \A e \in Device : FilesOK(vault'[e])
  BY <1>4, VaultPut, Zenon DEF Apply
<1>6. kept' \subseteq Version
  <2>1. vault[d][p] \in Version \cup {Nil}
    BY DeviceFacts DEF FilesOK, Content
  <2>2. Backup(d, p, content) \subseteq Version
    BY <2>1 DEF Backup
  <2> QED
    BY <2>2, FilesStay, Zenon DEF Apply
<1>7. CASE Live(c) /\ c.sha = content
  <2> DEFINE b == Confirmed(content, c)
             n == [m EXCEPT !.base[p] = b]
  <2>1. Session(d, s, n, FALSE)
    BY <1>7 DEF Apply
  <2>2. b \in Baseline
    BY <1>2, <1>4, <1>7, EntryOf, BaselineTyped DEF Live
  <2> HIDE DEF b
  <2>3. Extends(m, n) /\ n.next = m.next
    BY <1>3, <2>2, RebasedAt
  <2> HIDE DEF n
  <2>4. DataOK(s, n.next, canon, d) /\ PlaceOK(s, n)
    BY <1>1, <2>3 DEF PlaceOK, TodoOK
  <2> QED
    BY <1>5, <1>6, <2>1, <2>3, <2>4, ExtendsChains, FilesStay, WorkStep
<1>8. CASE ~(Live(c) /\ c.sha = content)
  <2> DEFINE fp == disk[p]
             e == PutEntry(d, x, content, Nil, Nil, fp)
             k == x.seq
             h == s.from
             r == s.load.rev
             v == WithPut(w, p, e, d, k)
             S == s.stamped \ {p}
             t == [s EXCEPT !.want = v, !.from = With(h, p, r), !.stamped = S]
             n == [q EXCEPT !.base[p] = Transferred(content)]
  <2>1. Session(d, t, n, FALSE)
    <3>1. Session(d, [s EXCEPT
                               !.want.files[p] = PutEntry(d, x, content, Nil, Nil, disk[p]),
                               !.want.wm[d] = Staged(@, x.seq),
                               !.from = With(@, p, s.load.rev),
                               !.stamped = @ \ {p}],
                        [q EXCEPT !.base[p] = Transferred(content)], FALSE)
      BY <1>8, Zenon DEF Apply
    <3>2. w.wm \in [Device -> Nat] /\ DOMAIN w.files = AllPath
      BY <1>2, IndexMarks
    <3>3. w \in [rev : Nat, files : [AllPath -> Entry \cup {None}], wm : [Device -> Nat]]
      BY <1>2 DEF IndexOK, Index
    <3> HIDE DEF x, q
    <3>4. t = [s EXCEPT
                               !.want.files[p] = PutEntry(d, x, content, Nil, Nil, disk[p]),
                               !.want.wm[d] = Staged(@, x.seq),
                               !.from = With(@, p, s.load.rev),
                               !.stamped = @ \ {p}]
      BY <1>2, <3>2, <3>3 DEF WithPut, Fields
    <3> QED
      BY <3>1, <3>4
  <2>2. old \in Content
    BY <1>2, EntryOf, Numbers
  <2>3. Extends(m, q) /\ PutsOf(q, p, content) # {}
    <3> HIDE DEF old
    <3> QED
      BY <1>3, <1>4, <2>2, EnsurePutExtends
  <2> HIDE DEF q
  <2>4. DurOK(q) /\ q.next \in Nat /\ q.next >= m.next
    BY <2>3, QueueFacts DEF Extends
  <2>5. k \in Nat /\ k < q.next
    <3>1. PutsOf(q, p, content) \in SUBSET DOMAIN q.queue
      BY DEF PutsOf, Puts
    <3> QED
      BY <2>3, <2>4, <3>1, LastIsOne
  <2>6. fp \in Content
    BY FilesStay, FileOf
  <2>7. e \in Says(p) /\ e.by \in Device
    <3>1. Nil \in {FALSE, Nil} /\ x.seq \in Nat
      BY <2>5
    <3> HIDE DEF x, fp
    <3> QED
      BY <1>4, <2>6, <3>1, PutEntrySays
  <2> HIDE DEF e, k, r, v, x
  <2>8. /\ Rewrites(w, v, {p}) /\ v.wm[d] = Staged(w.wm[d], k)
        /\ \A y \in Device \ {d} : v.wm[y] = w.wm[y]
    <3>1. v = WithPut(w, p, e, d, k)
      BY Zenon DEF v
    <3>2. IndexOK(w) /\ p \in AllPath /\ e \in Says(p) /\ e.by \in Device /\ k \in Nat
      BY <1>2, <2>5, <2>7
    <3> HIDE DEF w
    <3>3. /\ Rewrites(w, WithPut(w, p, e, d, k), {p})
          /\ WithPut(w, p, e, d, k).wm[d] = Staged(w.wm[d], k)
          /\ \A y1 \in Device \ {d} : WithPut(w, p, e, d, k).wm[y1] = w.wm[y1]
      BY <3>2, OwnPut, ZenonT(40)
    <3> QED
      BY <3>1, <3>3, Zenon
  <2>9. DOMAIN With(h, p, r) = DOMAIN h \cup {p}
    BY DEF With, Over
  <2>10. /\ FromOK(With(h, p, r), v) /\ StampOK(s.stamped, s.load, v)
         /\ SameOK(With(h, p, r), s.load, v)
    <3> DEFINE o == With(h, p, r)
    <3>1. FromOK(h, w) /\ StampOK(s.stamped, s.load, w) /\ SameOK(h, s.load, w)
      BY <1>1 DEF DataOK
    <3>2. DOMAIN o = DOMAIN h \cup {p}
      BY <2>9
    <3> HIDE DEF o, h, w
    <3>3. FromOK(o, v) /\ StampOK(s.stamped, s.load, v) /\ SameOK(o, s.load, v)
      BY <2>8, <3>1, <3>2, Authored
    <3> QED
      BY <3>3 DEF o
  <2>11. StampOK(S, s.load, v)
    BY <2>10 DEF StampOK
  <2>12. Extends(m, n) /\ n.next = q.next
    <3>1. Transferred(content) \in Baseline
      BY <1>4, BaselineTyped
    <3>2. Extends(q, n) /\ n.next = q.next
      BY <2>4, <3>1, RebasedAt
    <3> QED
      BY <1>3, <2>3, <3>2, ExtendsFurther
  <2>13. MarksOK(v.wm, canon.wm, n.next, d)
    <3>1. MarksOK(w.wm, canon.wm, m.next, d)
      BY <1>1 DEF DataOK
    <3>2. w.wm[d] \in Nat /\ canon.wm[d] \in Nat
      BY <1>2, IndexMarks, DeviceFacts
    <3>3. w.wm[d] < q.next
      BY <1>3, <2>4, <3>1, <3>2 DEF MarksOK
    <3>4. /\ Staged(w.wm[d], k) \in Nat /\ Staged(w.wm[d], k) < q.next
          /\ Staged(w.wm[d], k) >= w.wm[d]
      BY <2>4, <2>5, <3>2, <3>3, StagedBelow
    <3> QED
      BY <2>8, <2>12, <3>1, <3>2, <3>4 DEF MarksOK
  <2>14. /\ Keeps(s, t, {"want", "from", "stamped"}) /\ t.want = v
         /\ t.from = With(h, p, r) /\ t.stamped = S
    BY <1>2 DEF Keeps, Fields
  <2> HIDE DEF t, n, S
  <2>15. /\ t.load = s.load /\ t.l = s.l /\ t.r = s.r /\ t.plan = s.plan /\ t.pc = s.pc
         /\ t.got = s.got /\ t.rejected = s.rejected /\ t.at = s.at /\ t.todo = s.todo
         /\ DOMAIN t = Fields
    BY <2>14 DEF Keeps, Fields
  <2>16. DataOK(t, n.next, canon, d)
    BY <1>1, <2>8, <2>10, <2>11, <2>13, <2>14, <2>15 DEF DataOK, Rewrites
  <2>17. PlaceOK(t, n)
    BY <2>15 DEF PlaceOK, EarlyOK, EarlyPC, AtOK, TodoOK, PCs
  <2> QED
    BY <1>5, <1>6, <2>1, <2>12, <2>16, <2>17, ExtendsChains, FilesStay, WorkStep
<1> QED
  BY <1>7, <1>8

LEMMA DownloadApplyKeeps ==
  ASSUME Inv, NEW d \in Device, NEW p \in AllPath, DownloadApply(d, p)
  PROVE  Inv'
<1> DEFINE s == ses[d]
           T == s.todo \ {p}
           g == [x \in DOMAIN s.got \ {p} |-> s.got[x]]
           t == [s EXCEPT !.todo = T, !.got = g]
<1>1. /\ s.pc = "download" /\ p \in DOMAIN s.got
      /\ UNCHANGED <<canon, disk, dropped, past, made, deletes, faults>>
  BY DEF DownloadApply, At, users
<1>2. DataOK(s, mem[d].next, canon, d) /\ PlaceOK(s, mem[d]) /\ DOMAIN s = Fields
  BY <1>1, Runs DEF Running, DataOK
<1>3. Apply(d, t, p, s.got[p])
  <2>1. Apply(d, [s EXCEPT !.todo = @ \ {p},
                           !.got = [x \in DOMAIN @ \ {p} |-> @[x]]], p, s.got[p])
    BY Zenon DEF DownloadApply
  <2>2. [s EXCEPT !.todo = @ \ {p}, !.got = [x \in DOMAIN @ \ {p} |-> @[x]]] = t
    BY <1>2 DEF Fields
  <2> QED
    BY <2>1, <2>2
<1>4. s.got[p] \in Named(p) /\ GotOK(g)
  BY <1>1, <1>2 DEF DataOK, GotOK
<1> HIDE DEF g
<1>5. /\ Keeps(s, t, Steering \cup {"got"}) /\ t.pc = "download"
      /\ t.todo = T /\ t.at = s.at /\ t.l = s.l /\ t.got = g
  BY <1>1, <1>2 DEF Keeps, Fields, Steering
<1> HIDE DEF t
<1>6. PlaceOK(t, mem[d])
  BY <1>1, <1>2, <1>5 DEF PlaceOK, EarlyOK, EarlyPC, AtOK, TodoOK, PCs
<1> QED
  BY <1>1, <1>3, <1>4, <1>5, <1>6, ApplyKeeps

\* Mutations that are settled stay at their place in the queue.
LEMMA SettledTyped ==
  ASSUME NEW x \in MutationType
  PROVE  Settled(x) \in MutationType /\ Settled(x).seq = x.seq
<1>1. x \in [seq : Nat \ {0}, kind : {"put", "delete", "noop"}, path : AllPath,
             sha : Content, base : Nat, old : Content]
  BY DEF MutationType
<1>2. Nil \in Content
  BY Numbers
<1> QED
  BY <1>1, <1>2 DEF Settled, MutationType

LEMMA Requeued ==
  ASSUME NEW m, DurOK(m), NEW q, DOMAIN q = DOMAIN m.queue, q = [i \in DOMAIN q |-> q[i]],
         \A i \in DOMAIN q : q[i] \in MutationType /\ q[i].seq = m.queue[i].seq,
         NEW n, n = [m EXCEPT !.queue = q]
  PROVE  /\ DurOK(n) /\ n.next = m.next
         /\ \A mark \in Nat : Chained(m, mark) => Chained(n, mark)
<1> DEFINE L == Len(m.queue)
<1>1. m \in Durable /\ L \in Nat /\ DOMAIN m.queue = 1 .. L
  BY QueueFacts DEF DurOK
<1>2. q \in [1 .. L -> MutationType]
  BY <1>1
<1>3. q \in MutationSeq /\ Len(q) = L
  <2> HIDE DEF L
  <2> QED
    BY <1>1, <1>2 DEF MutationSeq
<1>4. n \in Durable /\ n.queue = q /\ n.next = m.next
  BY <1>1, <1>3 DEF Durable
<1>5. DurOK(n)
  BY <1>1, <1>3, <1>4, QueueFacts DEF DurOK
<1>6. ASSUME NEW mark \in Nat, Chained(m, mark) PROVE Chained(n, mark)
  BY <1>1, <1>3, <1>4, <1>6 DEF Chained
<1> QED
  BY <1>4, <1>5, <1>6

LEMMA SettleKeeps ==
  ASSUME Inv, NEW d \in Device, Settle(d)
  PROVE  Inv'
<1> DEFINE s == ses[d]
           m == mem[d]
           q == [i \in DOMAIN m.queue |->
                   IF Superseded(s, m.queue[i]) THEN Settled(m.queue[i]) ELSE m.queue[i]]
           n == [m EXCEPT !.queue = q]
           t == Enter(s, "delete")
<1>1. /\ s.pc = "settle" /\ \E save : Session(d, t, n, save)
      /\ UNCHANGED <<canon, disk, vault, kept, dropped, past, made, deletes, faults>>
  BY DEF Settle, At, users
<1>2. DataOK(s, m.next, canon, d) /\ PlaceOK(s, m) /\ DOMAIN s = Fields
  BY <1>1, Runs DEF Running, DataOK
<1>3. DurOK(m) /\ m.next \in Nat /\ m.next >= m.next
  BY DeviceFacts
<1>4. DOMAIN q = DOMAIN m.queue /\ q = [i \in DOMAIN q |-> q[i]]
  OBVIOUS
<1>5. \A i \in DOMAIN q : q[i] \in MutationType /\ q[i].seq = m.queue[i].seq
  <2> SUFFICES ASSUME NEW i \in DOMAIN m.queue
               PROVE  q[i] \in MutationType /\ q[i].seq = m.queue[i].seq
    OBVIOUS
  <2>1. m.queue[i] \in MutationType
    BY <1>3, QueueFacts
  <2>2. q[i] \in {m.queue[i], Settled(m.queue[i])}
    OBVIOUS
  <2> HIDE DEF q
  <2> QED
    BY <2>1, <2>2, SettledTyped
<1> HIDE DEF q
<1>6. DurOK(n) /\ n.next = m.next /\ (d \notin dropped => Chained(n, canon.wm[d]))
  <2>1. /\ DurOK(n) /\ n.next = m.next
        /\ \A mark \in Nat : Chained(m, mark) => Chained(n, mark)
    BY <1>3, <1>4, <1>5, Requeued
  <2> QED
    BY <2>1, DeviceFacts
<1> HIDE DEF n
<1>7. Keeps(s, t, {"pc", "todo"}) /\ PlaceOK(t, n)
  <2>1. PlanOK(s.plan, s.l) /\ (s.at # Nil => s.at \in Conflicts(s.l))
    BY <1>2 DEF DataOK, PlaceOK, AtOK
  <2> QED
    BY <1>2, <2>1, EnterPlace
<1>8. Keeps(s, t, Steering \cup {"got"}) /\ t.got = s.got
  BY <1>7, KeepsMore DEF Steering, Keeps, Fields
<1> HIDE DEF t
<1>9. DataOK(t, n.next, canon, d)
  BY <1>2, <1>3, <1>6, <1>8, DeviceFacts, DataKept DEF DataOK
<1> QED
  BY <1>1, <1>6, <1>7, <1>9, FilesStay, WorkStep

----------------------------------------------------------------------------
(* Deletions that are published.                                           *)

LEMMA ActsTyped ==
  ASSUME NEW s, FilesOK(s.r), NEW ps \in SUBSET AllPath
  PROVE  /\ AllActs(s, ps) \in SUBSET Act
         /\ \A a \in AllActs(s, ps) : [a EXCEPT !.fp = Nil] \in Act
<1>1. Nil \in Content
  BY Numbers
<1>2. ASSUME NEW p \in ps, NEW a \in ActsFor(s, p) PROVE a \in Act
  <2>1. s.r[p] \in Content
    BY FileOf
  <2>2. a = [kind |-> "local", path |-> p, fp |-> Nil] \/ a = [kind |-> "remote", path |-> p, fp |-> s.r[p]]
    BY <1>2 DEF ActsFor
  <2> QED
    BY <1>1, <2>1, <2>2 DEF Act
<1>3. AllActs(s, ps) \in SUBSET Act
  BY <1>2 DEF AllActs
<1>4. \A a \in Act : [a EXCEPT !.fp = Nil] \in Act
  BY <1>1 DEF Act
<1> QED
  BY <1>3, <1>4

LEMMA ActsAdded ==
  ASSUME NEW m, DurOK(m), NEW acts \in SUBSET Act
  PROVE  /\ Extends(m, WithActs(m, acts)) /\ WithActs(m, acts).queue = m.queue
         /\ WithActs(m, acts).next = m.next /\ WithActs(m, acts).acts \in SUBSET Act
<1> DEFINE A == AddActs(m.acts, acts)
<1>1. m.acts \in SUBSET Act
  BY DEF DurOK, Durable
<1>2. A \in SUBSET Act
  BY <1>1 DEF AddActs
<1> HIDE DEF A
<1>3. WithActs(m, acts) = [m EXCEPT !.acts = A]
  BY DEF WithActs, A
<1> QED
  BY <1>2, <1>3, Reacted

LEMMA StoredIn ==
  ASSUME NEW m, m.acts \in SUBSET Act, NEW acts
  PROVE  Stored(m, acts) \subseteq Act
  BY DEF Stored

LEMMA IntentKeeps ==
  ASSUME Inv, NEW d \in Device, Intent(d)
  PROVE  Inv'
<1> DEFINE s == ses[d]
           m == mem[d]
           ps == Ops(s, DeleteKinds)
           new == {p \in ps : ~Dead(s.want.files[p])}
           m1 == EnqueueEach(m, "delete", Undeleted(m, new), NoFile, m.obs)
           mb == WithDeadBaselines(m1, new)
           acts == AllActs(s, ps)
           m2 == WithActs(mb, acts)
           t1 == [s EXCEPT !.pc = "delete", !.todo = Stored(m2, acts)]
           sd == WithDeletions(d, s, m1, new)
           t2 == [sd EXCEPT !.pc = "commit", !.ret = "delete"]
<1>1. /\ s.pc = "intent" /\ (Session(d, t1, m2, TRUE) \/ Session(d, t2, m2, TRUE))
      /\ UNCHANGED <<canon, disk, vault, kept, dropped, past, made, deletes, faults>>
  <2>1. m1 = EnqueueEach(m, "delete", {p \in new : Deletes(m, p) = {}}, NoFile, m.obs)
    BY Zenon DEF Undeleted
  <2> HIDE DEF m1
  <2>2. \E t : Session(d, t, m2, TRUE) /\ t \in {t1, t2}
    BY <2>1, Zenon DEF Intent
  <2> QED
    BY <2>2 DEF Intent, At, users
<1>2. DataOK(s, m.next, canon, d) /\ PlaceOK(s, m) /\ DOMAIN s = Fields
      /\ IndexOK(s.want) /\ FilesOK(s.r)
  BY <1>1, Runs DEF Running, DataOK
<1>3. DurOK(m) /\ m \in Durable /\ m.obs \in Nat /\ m.next \in Nat
  BY DeviceFacts DEF Durable
<1>4. ps \in SUBSET AllPath /\ new \in SUBSET AllPath
  BY DEF Ops
<1> HIDE DEF ps, new
<1>5. Extends(m, m1) /\ \A p \in new : Deletes(m1, p) # {}
  BY <1>3, <1>4, DeletesEnsured DEF AllDeleted
<1> HIDE DEF m1
<1>6. DurOK(m1)
  BY <1>5 DEF Extends
<1>7. Extends(m1, mb)
  BY <1>6, DeadBases
<1> HIDE DEF mb
<1>8. acts \in SUBSET Act
  BY <1>2, <1>4, ActsTyped
<1> HIDE DEF acts
<1>9. Extends(mb, m2) /\ m2.acts \in SUBSET Act
  <2>1. DurOK(mb)
    BY <1>7 DEF Extends
  <2> QED
    BY <1>8, <2>1, ActsAdded
<1> HIDE DEF m2
<1>10. Extends(m, m2) /\ m2.next \in Nat /\ m2.next >= m.next
  <2>1. Extends(m, mb)
    BY <1>3, <1>5, <1>7, ExtendsFurther
  <2>2. Extends(m, m2)
    BY <1>3, <1>9, <2>1, ExtendsFurther
  <2> QED
    BY <2>2, QueueFacts DEF Extends
<1>11. SesOK(t1, m2, canon, d)
  <2> DEFINE T == Stored(m2, acts)
  <2>1. T \subseteq Act
    BY <1>9, StoredIn
  <2> HIDE DEF T
  <2>2. /\ Keeps(s, t1, Steering \cup {"got"}) /\ t1.got = s.got /\ t1.pc = "delete"
        /\ t1.todo = T /\ t1.at = s.at /\ t1.l = s.l
    BY <1>2 DEF Keeps, Fields, Steering, T
  <2> HIDE DEF t1
  <2>3. DataOK(t1, m2.next, canon, d)
    BY <1>2, <1>3, <1>10, <2>2, DeviceFacts, DataKept DEF DataOK
  <2>4. PlaceOK(t1, m2)
    BY <1>1, <1>2, <2>1, <2>2 DEF PlaceOK, EarlyOK, EarlyPC, AtOK, TodoOK, PCs
  <2> QED
    BY <2>3, <2>4 DEF SesOK, Running
<1>12. SesOK(t2, m2, canon, d)
  <2>1. Deleted(s, sd)
    <3>1. MayDelete(s, m1, new)
      BY <1>2, <1>4, <1>5, <1>6 DEF MayDelete
    <3> QED
      BY <3>1, Deletions
  <2> HIDE DEF sd
  <2>2. /\ Keeps(s, sd, {"want", "from"})
        /\ IndexOK(sd.want) /\ sd.want.wm = s.want.wm
        /\ FromOK(sd.from, sd.want) /\ StampOK(s.stamped, s.load, sd.want)
        /\ SameOK(sd.from, s.load, sd.want)
    BY <1>2, <2>1 DEF Deleted, DataOK
  <2>3. /\ sd.load = s.load /\ sd.l = s.l /\ sd.r = s.r /\ sd.plan = s.plan /\ sd.stamped = s.stamped
        /\ sd.got = s.got /\ sd.rejected = s.rejected /\ sd.at = s.at /\ sd.todo = s.todo
        /\ DOMAIN sd = Fields
    BY <2>2 DEF Keeps, Fields
  <2>4. DataOK(sd, m.next, canon, d)
    BY <1>2, <2>2, <2>3 DEF DataOK
  <2>5. /\ Keeps(sd, t2, Steering \cup {"got"}) /\ t2.got = sd.got /\ t2.pc = "commit"
        /\ t2.todo = s.todo /\ t2.at = s.at /\ t2.l = s.l
    BY <2>3 DEF Keeps, Fields, Steering
  <2> HIDE DEF t2
  <2>6. DataOK(t2, m2.next, canon, d)
    BY <1>3, <1>10, <2>4, <2>5, DeviceFacts, DataKept DEF DataOK
  <2>7. PlaceOK(t2, m2)
    BY <1>1, <1>2, <2>5 DEF PlaceOK, EarlyOK, EarlyPC, AtOK, TodoOK, PCs
  <2> QED
    BY <2>6, <2>7 DEF SesOK, Running
<1> HIDE DEF t1, t2
<1>13. DurOK(m2) /\ (d \notin dropped => Chained(m2, canon.wm[d]))
  BY <1>10, ExtendsChains
<1>14. CASE Session(d, t1, m2, TRUE)
  BY <1>1, <1>11, <1>13, <1>14, FaultsKept, QuietStep
<1>15. CASE Session(d, t2, m2, TRUE)
  BY <1>1, <1>12, <1>13, <1>15, FaultsKept, QuietStep
<1> QED
  BY <1>1, <1>14, <1>15

----------------------------------------------------------------------------
(* Commits.                                                                *)

\* A put loses to another put only where the two differ.
LEMMA ClassifyFits ==
  ASSUME NEW current, NEW incoming, incoming.seq \in Nat, NEW base, NEW old, NEW applied,
         NEW staged \in Nat,
         Classify(current, incoming, base, old, applied, staged) = "concurrent-foreign"
  PROVE  ~Dead(incoming) /\ Live(current) /\ current.sha # incoming.sha
<1> DEFINE K == Classify(current, incoming, base, old, applied, staged)
<1>1. CASE incoming.seq = 0
  <2>1. K = "invalid-sequence"
    BY <1>1 DEF Classify
  <2> QED
    BY <2>1
<1>2. CASE incoming.seq # 0 /\ incoming.seq > staged
  <2>1. K = "fifo-gap"
    BY <1>2 DEF Classify
  <2> QED
    BY <2>1
<1>3. CASE incoming.seq \in 1 .. staged /\ current # None /\ current.by = incoming.by
  <2>1. incoming.seq # 0 /\ ~(incoming.seq > staged)
    BY <1>3
  <2>2. K \in {"idempotent", "invalid-sequence", "stale-same-device", "apply"}
    BY <1>3, <2>1 DEF Classify
  <2> QED
    BY <2>2
<1>4. CASE incoming.seq \in 1 .. staged /\ (current = None \/ current.by # incoming.by)
  <2>1. incoming.seq # 0 /\ ~(incoming.seq > staged)
    BY <1>4
  <2>2. K = IF Dead(incoming) THEN "apply"
            ELSE IF UnseenForeignPut(current, incoming, base, old) THEN "concurrent-foreign"
            ELSE IF Dead(current) /\ current.rev > base THEN "rejected-by-delete"
            ELSE "apply"
    BY <1>4, <2>1 DEF Classify
  <2>3. ~Dead(incoming) /\ UnseenForeignPut(current, incoming, base, old)
    <3> HIDE DEF K
    <3> QED
      BY <2>2 DEF K
  <2> QED
    BY <2>3 DEF UnseenForeignPut
<1>5. incoming.seq = 0 \/ (incoming.seq # 0 /\ incoming.seq > staged) \/ incoming.seq \in 1 .. staged
  OBVIOUS
<1> QED
  BY <1>1, <1>2, <1>3, <1>4, <1>5

\* What a session wants in the index.
DesiredOK(D, s, n, c, d) ==
  /\ IndexOK(D) /\ D.files = s.want.files
  /\ \A e \in Device \ {d} : D.wm[e] <= c.wm[e]
  /\ D.wm[d] < n

LEMMA DesiredFits ==
  ASSUME Inv, NEW d \in Device, DataOK(ses[d], mem[d].next, canon, d)
  PROVE  DesiredOK(Desired(d), ses[d], mem[d].next, canon, d)
<1> DEFINE s == ses[d]
           w == s.want
           m == mem[d]
           z == StagedAll(m, w.wm[d])
<1>1. IndexOK(w) /\ MarksOK(w.wm, canon.wm, m.next, d) /\ DurOK(m) /\ m.next \in Nat
  BY DeviceFacts DEF DataOK
<1>2. w.wm[d] \in Nat /\ canon.wm[d] \in Nat /\ w.wm[d] < m.next
  BY <1>1, IndexMarks, DeviceFacts DEF MarksOK
<1>3. CASE ForCopy(s)
  <2>1. Desired(d) = w
    BY <1>3 DEF Desired
  <2> QED
    BY <1>1, <2>1 DEF DesiredOK, MarksOK
<1>4. CASE ~ForCopy(s)
  <2>1. Desired(d) = [w EXCEPT !.wm[d] = z]
    <3>1. Desired(d) = [w EXCEPT !.wm[d] = StagedAll(m, @)]
      BY <1>4 DEF Desired
    <3>2. w \in [rev : Nat, files : [AllPath -> Entry \cup {None}], wm : [Device -> Nat]]
      BY <1>1 DEF IndexOK, Index
    <3> QED
      BY <3>1, <3>2
  <2>2. z \in Nat /\ z < m.next
    BY <1>1, <1>2, StagedBelow
  <2> HIDE DEF z
  <2> QED
    BY <1>1, <1>2, <2>1, <2>2, IndexMark DEF DesiredOK, MarksOK
<1> QED
  BY <1>3, <1>4

\* A step of one device that raises its own watermark in the index and leaves
\* those of the others.
LEMMA PublishingStep ==
  ASSUME Inv, NEW d \in Device, NEW t, NEW m, NEW k,
         ses' = [ses EXCEPT ![d] = t], mem' = [mem EXCEPT ![d] = m],
         DOMAIN saved' = Device, saved'[d] = k, \A e \in Device \ {d} : saved'[e] = saved[e],
         IndexOK(canon'), canon.wm[d] <= canon'.wm[d],
         \A e \in Device \ {d} : canon'.wm[e] = canon.wm[e],
         dropped \subseteq dropped', dropped' \subseteq Device,
         DurOK(m), d \notin dropped' => Chained(m, canon'.wm[d]),
         DurOK(k), d \notin dropped' => Chained(k, canon'.wm[d]), SesOK(t, m, canon', d),
         UNCHANGED <<disk, vault, kept, past, made, deletes, faults>>
  PROVE  Inv'
<1>1. ShapesOK' /\ CountsOK' /\ FilesOK(disk')
  BY DEF Inv, ShapesOK, CountsOK
<1>2. ASSUME NEW e \in Device PROVE DeviceOK(e)'
  <2>1. DeviceOK(e)
    BY DEF Inv
  <2>2. CASE e = d
    <3>1. ses'[e] = t /\ mem'[e] = m /\ saved'[e] = k
      BY <2>2 DEF Inv, ShapesOK
    <3> QED
      BY <2>1, <2>2, <3>1 DEF DeviceOK, ChainsOK
  <2>3. CASE e # d
    <3>1. ses'[e] = ses[e] /\ mem'[e] = mem[e] /\ saved'[e] = saved[e] /\ canon'.wm[e] = canon.wm[e]
      BY <2>3 DEF Inv, ShapesOK
    <3>2. ChainsOK(e)'
      BY <2>1, <3>1 DEF DeviceOK, ChainsOK
    <3>3. SesOK(ses[e], mem[e], canon', e)
      <4>1. CASE ses[e] = Idle
        BY <4>1 DEF SesOK
      <4>2. CASE Running(ses[e], mem[e], canon, e)
        <5> DEFINE w == ses[e].want.wm
        <5>1. MarksOK(w, canon.wm, mem[e].next, e)
          BY <4>2 DEF Running, DataOK
        <5>2. w[d] \in Nat /\ canon.wm[d] \in Nat /\ canon'.wm[d] \in Nat
          BY <4>2, IndexMarks, DeviceFacts DEF Running, DataOK
        <5>3. \A x \in Device \ {e} : w[x] <= canon'.wm[x]
          <6> SUFFICES ASSUME NEW x \in Device \ {e} PROVE w[x] <= canon'.wm[x]
            OBVIOUS
          <6>1. CASE x = d
            BY <5>1, <5>2, <6>1 DEF MarksOK
          <6>2. CASE x # d
            BY <5>1, <6>2 DEF MarksOK
          <6> QED
            BY <6>1, <6>2
        <5>4. MarksOK(w, canon'.wm, mem[e].next, e)
          BY <3>1, <5>1, <5>3 DEF MarksOK
        <5> QED
          BY <4>2, <5>4 DEF SesOK, Running, DataOK
      <4> QED
        BY <2>1, <4>1, <4>2 DEF DeviceOK, SesOK
    <3> QED
      BY <2>1, <3>1, <3>2, <3>3 DEF DeviceOK
  <2> QED
    BY <2>2, <2>3
<1> QED
  BY <1>1, <1>2 DEF Inv

\* What the reducer makes of an index and what a session wants of it.
MergedOK(n, c, D, d) ==
  /\ IndexOK(n)
  /\ \A e \in Device \ {d} : n.wm[e] = c.wm[e]
  /\ n.wm[d] = HigherMark(c.wm[d], D.wm[d])

LEMMA HigherIs ==
  ASSUME NEW a \in Nat, NEW b \in Nat
  PROVE  /\ HigherMark(a, b) \in Nat /\ a <= HigherMark(a, b) /\ b <= HigherMark(a, b)
         /\ HigherMark(a, b) \in {a, b} /\ (b <= a => HigherMark(a, b) = a)
  BY DEF HigherMark

LEMMA Republished ==
  ASSUME NEW p, NEW e \in Says(p), NEW r \in Nat
  PROVE  [e EXCEPT !.rev = r] \in Says(p)
  BY DEF Says, Entry, Revision

LEMMA Refreshed ==
  ASSUME NEW p, NEW e \in Says(p), NEW x \in Content
  PROVE  [e EXCEPT !.fp = x] \in Says(p)
  BY DEF Says, Entry

LEMMA MergedFits ==
  ASSUME NEW c, IndexOK(c), NEW load, NEW D, IndexOK(D), NEW d \in Device,
         \A e \in Device \ {d} : D.wm[e] <= c.wm[e],
         NEW from, FromOK(from, D), NEW stamped, StampOK(stamped, load, D),
         NEW old, ~StaleStamp(c, load, D, stamped)
  PROVE  MergedOK(Merged(c, D, from, stamped, old), c, D, d)
<1> DEFINE A == AppliedTo(c, D, from, old)
           S == {p \in stamped : c.files[p] # D.files[p]}
           r == c.rev + 1
           ch == A # {} \/ S # {} \/ \E e \in Device : D.wm[e] > c.wm[e]
           R == IF ch THEN r ELSE c.rev
           F == [p \in DOMAIN c.files |->
                   IF p \in A THEN [D.files[p] EXCEPT !.rev = r]
                   ELSE IF p \in S THEN [c.files[p] EXCEPT !.fp = D.files[p].fp]
                   ELSE c.files[p]]
           W == [e \in Device |-> HigherMark(c.wm[e], D.wm[e])]
           n == [rev |-> R, files |-> F, wm |-> W]
<1>1. Merged(c, D, from, stamped, old) = n
  BY Zenon DEF Merged
<1>2. c.rev \in Nat /\ DOMAIN c.files = AllPath /\ \A e \in Device : c.wm[e] \in Nat /\ D.wm[e] \in Nat
  BY IndexMarks
<1>3. r \in Nat /\ R \in Nat
  <2> HIDE DEF ch
  <2> QED
    BY <1>2
<1>4. \A p \in A : p \in AllPath /\ D.files[p] # None
  BY DEF AppliedTo, FromOK
<1>5. \A p \in S : p \in AllPath /\ c.files[p] # None /\ D.files[p] # None
  BY DEF StaleStamp, StampOK
<1> HIDE DEF A, S, ch, r
<1>6. ASSUME NEW p \in AllPath PROVE F[p] = None \/ F[p] \in Says(p)
  <2>1. CASE p \in A
    <3>1. F[p] = [D.files[p] EXCEPT !.rev = r]
      BY <1>2, <2>1
    <3>2. D.files[p] \in Says(p)
      BY <1>4, <2>1, EntryOf
    <3> HIDE DEF F
    <3> QED
      BY <1>3, <3>1, <3>2, Republished
  <2>2. CASE p \notin A /\ p \in S
    <3>1. F[p] = [c.files[p] EXCEPT !.fp = D.files[p].fp]
      BY <1>2, <2>2
    <3>2. c.files[p] \in Says(p) /\ D.files[p].fp \in Content
      BY <1>5, <2>2, EntryOf
    <3> HIDE DEF F
    <3> QED
      BY <3>1, <3>2, Refreshed
  <2>3. CASE p \notin A /\ p \notin S
    <3>1. F[p] = c.files[p]
      BY <1>2, <2>3
    <3> HIDE DEF F
    <3> QED
      BY <3>1, EntryOf
  <2> QED
    BY <2>1, <2>2, <2>3
<1>7. DOMAIN F = AllPath /\ F = [p \in AllPath |-> F[p]]
  BY <1>2
<1> HIDE DEF F, R
<1>8. F \in [AllPath -> Entry \cup {None}]
  BY <1>6, <1>7 DEF Says
<1>9. \A e \in Device : W[e] = HigherMark(c.wm[e], D.wm[e])
  OBVIOUS
<1>10. W \in [Device -> Nat] /\ \A e \in Device \ {d} : W[e] = c.wm[e]
  <2>1. \A e \in Device : HigherMark(c.wm[e], D.wm[e]) \in Nat
    BY <1>2, HigherIs
  <2>2. \A e \in Device \ {d} : HigherMark(c.wm[e], D.wm[e]) = c.wm[e]
    BY <1>2, HigherIs
  <2> QED
    BY <2>1, <2>2
<1> HIDE DEF W
<1>11. n \in Index /\ n.files = F /\ n.wm = W
  BY <1>3, <1>8, <1>10 DEF Index
<1>12. IndexOK(n)
  <2> HIDE DEF n
  <2> QED
    BY <1>6, <1>11 DEF IndexOK
<1> HIDE DEF n
<1> QED
  BY <1>1, <1>9, <1>10, <1>11, <1>12 DEF MergedOK

\* A put of a conflict copy loses to no other put of it.
LEMMA RejectedFits ==
  ASSUME NEW c, IndexOK(c), NEW D, IndexOK(D), NEW from, FromOK(from, D), NEW old
  PROVE  RejectedOK(Rejected(c, D, from, old))
<1> SUFFICES ASSUME NEW x \in Rejected(c, D, from, old)
             PROVE  /\ x.path \in AllPath /\ x.fp \in Content
                    /\ x.why = "concurrent-foreign" => x.path \in Path
  BY DEF RejectedOK
<1>1. PICK p \in DOMAIN from : x = [path |-> p, why |-> Decision(c, D, from, old, p),
                                    fp |-> D.files[p].fp]
  BY DEF Rejected
<1>2. p \in AllPath /\ D.files[p] # None /\ D.files[p].by \in Device
  BY DEF FromOK
<1>3. x.path = p /\ x.why = Decision(c, D, from, old, p) /\ x.fp = D.files[p].fp
  BY <1>1
<1>4. /\ D.files[p].fp \in Content /\ D.files[p].seq \in Nat
      /\ Live(D.files[p]) => D.files[p].sha \in Named(p)
  BY <1>2, EntryOf
<1>5. ASSUME x.why = "concurrent-foreign", p \notin Path PROVE FALSE
  <2> DEFINE cur == c.files[p]
             inc == D.files[p]
             by == inc.by
             k == D.wm[by]
  <2>1. k \in Nat
    BY <1>2, IndexMarks
  <2>2. Classify(cur, inc, from[p], old[p], c.wm[by], k) = "concurrent-foreign"
    BY <1>3, <1>5 DEF Decision
  <2>3. ~Dead(inc) /\ Live(cur) /\ cur.sha # inc.sha
    <3>1. inc.seq \in Nat
      BY <1>4
    <3> HIDE DEF cur, inc, by, k
    <3> QED
      BY <2>1, <2>2, <3>1, ClassifyFits
  <2>4. cur.sha \in Named(p)
    <3>1. c.files[p] # None
      BY <2>3 DEF Live
    <3> QED
      BY <1>2, <2>3, <3>1, EntryOf
  <2>5. inc.sha \in Named(p)
    BY <1>2, <1>4, <2>3 DEF Live, Dead
  <2>6. PICK q \in Path, v \in Version : p = CopyOf(q, v)
    BY <1>2, <1>5 DEF AllPath
  <2>7. Named(p) = {v}
    BY <1>2, <2>6, NamesOf
  <2> QED
    BY <2>3, <2>4, <2>5, <2>7
<1> QED
  BY <1>2, <1>3, <1>4, <1>5

\* A chain that begins at most one above a watermark does so for a higher one.
LEMMA ChainedFurther ==
  ASSUME NEW m, DurOK(m), NEW a \in Nat, NEW b \in Nat, a <= b, Chained(m, a)
  PROVE  Chained(m, b)
  BY QueueFacts DEF Chained

LEMMA CommitKeeps ==
  ASSUME Inv, NEW d \in Device, Commit(d)
  PROVE  Inv'
<1> DEFINE s == ses[d]
           m == mem[d]
           D == Desired(d)
           old == OldOf(m)
           n == Merged(canon, D, s.from, s.stamped, old)
           J == s.rejected \cup Rejected(canon, D, s.from, old)
           pc == IF ForCopy(s) THEN "apply" ELSE "cleanup"
           t == [s EXCEPT !.load = n, !.want = n, !.from = <<>>, !.stamped = {},
                          !.rejected = J, !.pc = pc]
<1>1. /\ s.pc = "commit" /\ canon' = n /\ Session(d, t, m, FALSE)
      /\ ~StaleStamp(canon, s.load, D, s.stamped)
      /\ UNCHANGED <<disk, vault, kept, dropped, past, made, deletes, faults>>
  <2>1. canon' = n
    BY Zenon DEF Commit
  <2>2. t = [s EXCEPT !.load = n, !.want = n, !.from = <<>>, !.stamped = {},
                                   !.rejected = @ \cup Rejected(canon, D, s.from, old),
                                   !.pc = IF ForCopy(s) THEN "apply" ELSE "cleanup"]
    <3> HIDE DEF n
    <3> QED
      BY DEF J, pc
  <2>3. Session(d, [s EXCEPT !.load = n, !.want = n, !.from = <<>>, !.stamped = {},
                                   !.rejected = @ \cup Rejected(canon, D, s.from, old),
                                   !.pc = IF ForCopy(s) THEN "apply" ELSE "cleanup"], m, FALSE)
    BY Zenon DEF Commit
  <2> HIDE DEF n, t, D
  <2> QED
    BY <2>1, <2>2, <2>3 DEF Commit, Refused, At, users, D
<1>2. DataOK(s, m.next, canon, d) /\ PlaceOK(s, m) /\ DOMAIN s = Fields
  BY <1>1, Runs DEF Running, DataOK
<1>3. DurOK(m) /\ m.next \in Nat /\ IndexOK(canon) /\ canon.wm[d] \in Nat
  BY DeviceFacts
<1>4. DesiredOK(D, s, m.next, canon, d)
  BY <1>2, DesiredFits
<1> HIDE DEF D, old
<1>5. FromOK(s.from, D) /\ StampOK(s.stamped, s.load, D) /\ D.wm[d] \in Nat
  BY <1>2, <1>4, IndexMarks DEF DesiredOK, DataOK, FromOK, StampOK
<1>6. MergedOK(n, canon, D, d)
  BY <1>1, <1>3, <1>4, <1>5, MergedFits DEF DesiredOK
<1>7. RejectedOK(J)
  <2>1. RejectedOK(Rejected(canon, D, s.from, old))
    BY <1>3, <1>4, <1>5, RejectedFits DEF DesiredOK
  <2> QED
    BY <1>2, <2>1 DEF DataOK, RejectedOK
<1> HIDE DEF n, J
<1>8. n.wm[d] \in Nat /\ canon.wm[d] <= n.wm[d] /\ n.wm[d] < m.next
  <2>1. canon.wm[d] < m.next /\ D.wm[d] < m.next
    <3>1. s.want.wm[d] \in Nat
      BY <1>2, IndexMarks DEF DataOK
    <3> QED
      BY <1>2, <1>3, <1>4, <3>1 DEF DesiredOK, DataOK, MarksOK
  <2>2. n.wm[d] = HigherMark(canon.wm[d], D.wm[d])
    BY <1>6 DEF MergedOK
  <2>3. /\ HigherMark(canon.wm[d], D.wm[d]) \in Nat
        /\ canon.wm[d] <= HigherMark(canon.wm[d], D.wm[d])
        /\ HigherMark(canon.wm[d], D.wm[d]) \in {canon.wm[d], D.wm[d]}
    BY <1>3, <1>5, HigherIs
  <2> QED
    BY <2>1, <2>2, <2>3
<1>9. /\ Keeps(s, t, {"load", "want", "from", "stamped", "rejected", "pc"})
      /\ t.load = n /\ t.want = n /\ t.from = <<>> /\ t.stamped = {} /\ t.rejected = J
      /\ t.pc = pc
  BY <1>2 DEF Keeps, Fields
<1> HIDE DEF t
<1>10. /\ t.l = s.l /\ t.r = s.r /\ t.plan = s.plan /\ t.got = s.got /\ t.at = s.at
       /\ t.todo = s.todo /\ DOMAIN t = Fields
  BY <1>9 DEF Keeps, Fields
<1>11. DataOK(t, m.next, n, d)
  <2>1. FromOK(<<>>, n) /\ StampOK({}, n, n) /\ SameOK(<<>>, n, n)
    BY DEF FromOK, StampOK, SameOK
  <2>2. MarksOK(n.wm, n.wm, m.next, d)
    <3>1. \A e \in Device : n.wm[e] \in Nat
      BY <1>6, IndexMarks DEF MergedOK
    <3> QED
      BY <1>8, <3>1 DEF MarksOK
  <2> QED
    BY <1>2, <1>6, <1>7, <1>9, <1>10, <2>1, <2>2 DEF DataOK, MergedOK
<1>12. PlaceOK(t, m)
  BY <1>1, <1>2, <1>9, <1>10 DEF PlaceOK, EarlyOK, EarlyPC, AtOK, TodoOK, PCs, ForCopy
<1>13. SesOK(t, m, canon', d)
  BY <1>1, <1>11, <1>12 DEF SesOK, Running
<1>14. /\ ses' = [ses EXCEPT ![d] = t] /\ mem' = [mem EXCEPT ![d] = m] /\ saved' = saved
  BY <1>1 DEF Session
<1>15. DurOK(saved[d]) /\ (d \notin dropped' => Chained(m, canon'.wm[d]) /\ Chained(saved[d], canon'.wm[d]))
  <2>1. DurOK(saved[d]) /\ ChainsOK(d)
    BY DEF Inv, DeviceOK
  <2> QED
    BY <1>1, <1>3, <1>8, <2>1, ChainedFurther DEF ChainsOK
<1>16. dropped \subseteq dropped' /\ dropped' \subseteq Device /\ DOMAIN saved' = Device
  BY <1>1, <1>14 DEF Inv, ShapesOK
<1> QED
  BY <1>1, <1>3, <1>6, <1>8, <1>13, <1>14, <1>15, <1>16, PublishingStep DEF MergedOK

----------------------------------------------------------------------------
(* Puts that lost.                                                         *)

LEMMA RejectedPutKeeps ==
  ASSUME Inv, NEW d \in Device, RejectedPut(d)
  PROVE  Inv'
<1> DEFINE s == ses[d]
           m == mem[d]
<1>1. /\ s.pc = "cleanup"
      /\ UNCHANGED <<canon, disk, vault, kept, dropped, past, made, deletes, faults>>
  BY DEF RejectedPut, At, users
<1>2. DataOK(s, m.next, canon, d) /\ PlaceOK(s, m) /\ DOMAIN s = Fields
  BY <1>1, Runs DEF Running, DataOK
<1>3. PICK x \in s.rejected :
        /\ x.why = "concurrent-foreign"
        /\ IF vault[d][x.path] = Nil THEN Session(d, [s EXCEPT !.rejected = @ \ {x}], m, FALSE)
           ELSE Session(d, [[s EXCEPT !.rejected = @ \ {x}] EXCEPT
                               !.at = x.path, !.why = "rejected", !.pc = "copy",
                               !.l[x.path] = vault[d][x.path]], m, FALSE)
  BY DEF RejectedPut
<1> DEFINE p == x.path
           R == s.rejected \ {x}
           g == [s.l EXCEPT ![p] = vault[d][p]]
           t1 == [s EXCEPT !.rejected = R]
           t2 == [t1 EXCEPT !.at = p, !.why = "rejected", !.pc = "copy", !.l = g]
<1>4. p \in Path /\ p \in AllPath /\ RejectedOK(R)
  BY <1>2, <1>3 DEF DataOK, RejectedOK
<1>5. Keeps(s, t1, {"rejected"}) /\ t1.rejected = R
  BY <1>2 DEF Keeps, Fields
<1>6. CASE vault[d][p] = Nil
  <2>1. Session(d, t1, m, FALSE)
    BY <1>3, <1>6
  <2> HIDE DEF t1, R
  <2>2. /\ t1.load = s.load /\ t1.want = s.want /\ t1.from = s.from /\ t1.stamped = s.stamped
        /\ t1.l = s.l /\ t1.r = s.r /\ t1.plan = s.plan /\ t1.got = s.got /\ t1.at = s.at
        /\ t1.todo = s.todo /\ t1.pc = "cleanup" /\ DOMAIN t1 = Fields
    BY <1>1, <1>5 DEF Keeps, Fields
  <2>3. DataOK(t1, m.next, canon, d)
    BY <1>2, <1>4, <1>5, <2>2 DEF DataOK
  <2>4. PlaceOK(t1, m)
    BY <1>1, <1>2, <2>2 DEF PlaceOK, EarlyOK, EarlyPC, AtOK, TodoOK, PCs
  <2> QED
    BY <1>1, <2>1, <2>3, <2>4, SteerStep, FaultsKept DEF SesOK, Running
<1>7. CASE vault[d][p] # Nil
  <2>1. Session(d, t2, m, FALSE)
    <3>1. Session(d, [t1 EXCEPT !.at = p, !.why = "rejected", !.pc = "copy",
                                !.l[p] = vault[d][p]], m, FALSE)
      BY <1>3, <1>7
    <3>2. t1.l = s.l /\ DOMAIN t1 = Fields
      BY <1>5 DEF Keeps, Fields
    <3> HIDE DEF t1
    <3>3. t2 = [t1 EXCEPT !.at = p, !.why = "rejected", !.pc = "copy", !.l[p] = vault[d][p]]
      BY <3>2 DEF Fields
    <3> QED
      BY <3>1, <3>3
  <2>2. FilesOK(g)
    <3>1. FilesOK(s.l) /\ vault[d][p] \in Holds(p)
      BY <1>2, <1>4, FilesStay, FileOf DEF DataOK
    <3> QED
      BY <1>4, <3>1, FilesPut
  <2>3. Conflicts(s.l) \subseteq Conflicts(g) /\ p \in Conflicts(g)
        /\ \A a \in AllPath : s.l[a] # Nil => g[a] # Nil
    <3>1. DOMAIN s.l = AllPath
      BY <1>2 DEF DataOK, FilesOK
    <3>2. \A a \in AllPath : g[a] = IF a = p THEN vault[d][p] ELSE s.l[a]
      BY <3>1
    <3>3. \A a \in Path : a \in AllPath
      BY PathIsPath
    <3> HIDE DEF g
    <3> QED
      BY <1>4, <1>7, <3>2, <3>3 DEF Conflicts
  <2> HIDE DEF g, R
  <2>4. /\ Keeps(t1, t2, {"at", "why", "pc", "l"}) /\ t2.at = p /\ t2.pc = "copy" /\ t2.l = g
    BY <1>5 DEF Keeps, Fields
  <2> HIDE DEF t1, t2
  <2>5. /\ t2.load = s.load /\ t2.want = s.want /\ t2.from = s.from /\ t2.stamped = s.stamped
        /\ t2.r = s.r /\ t2.plan = s.plan /\ t2.got = s.got /\ t2.todo = s.todo
        /\ t2.rejected = R /\ DOMAIN t2 = Fields
    BY <1>5, <2>4 DEF Keeps, Fields
  <2>6. PlanOK(s.plan, g)
    <3>1. PlanOK(s.plan, s.l)
      BY <1>2 DEF DataOK
    <3> QED
      BY <2>3, <3>1 DEF PlanOK
  <2>7. DataOK(t2, m.next, canon, d)
    BY <1>2, <1>4, <2>2, <2>4, <2>5, <2>6 DEF DataOK
  <2>8. PlaceOK(t2, m)
    <3>1. s.todo \subseteq Conflicts(s.l)
      BY <1>1, <1>2 DEF PlaceOK, TodoOK
    <3> QED
      BY <2>3, <2>4, <2>5, <3>1 DEF PlaceOK, EarlyOK, EarlyPC, AtOK, TodoOK, PCs
  <2> QED
    BY <1>1, <2>1, <2>7, <2>8, SteerStep, FaultsKept DEF SesOK, Running
<1> QED
  BY <1>6, <1>7

LEMMA RejectedDeleteKeeps ==
  ASSUME Inv, NEW d \in Device, RejectedDelete(d)
  PROVE  Inv'
<1> DEFINE s == ses[d]
           m == mem[d]
<1>1. s.pc = "cleanup" /\ UNCHANGED <<canon, dropped, past, made, deletes, faults>>
  BY DEF RejectedDelete, At, users
<1>2. DataOK(s, m.next, canon, d) /\ PlaceOK(s, m) /\ DOMAIN s = Fields
  BY <1>1, Runs DEF Running, DataOK
<1>3. m \in Durable /\ DurOK(m)
  BY DeviceFacts
<1> DEFINE act(x) == [kind |-> "remote", path |-> x.path, fp |-> x.fp]
           Fits(x, goes, stays, here, done) ==
             /\ vault' = IF goes THEN [vault EXCEPT ![d][x.path] = Nil] ELSE vault
             /\ disk' = IF goes /\ ~stays THEN [disk EXCEPT ![x.path] = Nil] ELSE disk
             /\ kept' = kept \cup (Gone(vault[d], vault'[d]) \cup Gone(disk, disk'))
             /\ Session(d, [s EXCEPT !.rejected = @ \ {x}],
                        [m EXCEPT
                            !.base[x.path] = IF goes /\ here THEN DeadBaseline(@) ELSE @,
                            !.acts = {y \in @ : y.path # x.path \/ y.kind \notin done}
                                     \cup (IF stays THEN {act(x)} ELSE {})], here)
<1>4. \E x \in s.rejected : \E goes, stays, here, done : Fits(x, goes, stays, here, done)
  <2>1. PICK x \in s.rejected :
          LET a     == [kind |-> "remote", path |-> x.path, fp |-> x.fp]
              here  == vault[d][x.path] # Nil
              goes  == Authorised(a)
              stays == goes /\ Foreign(a)
              done  == IF here THEN IF goes THEN {"local", "remote"} ELSE {"local"}
                       ELSE {"remote"}
          IN  Fits(x, goes, stays, here, done)
    BY Zenon DEF RejectedDelete
  <2> HIDE DEF Fits
  <2> QED
    BY <2>1
<1>5. PICK x \in s.rejected : \E goes, stays, here, done : Fits(x, goes, stays, here, done)
  BY <1>4
<1> DEFINE p == x.path
<1>6. PICK goes, stays, here, done : Fits(x, goes, stays, here, done)
  BY <1>5
<1>7. p \in AllPath /\ x.fp \in Content /\ Nil \in Holds(p) /\ act(x) \in Act
  <2>1. p \in AllPath /\ x.fp \in Content
    BY <1>2 DEF DataOK, RejectedOK
  <2> QED
    BY <2>1, NamesOf DEF Act
<1> DEFINE R == s.rejected \ {x}
           t == [s EXCEPT !.rejected = R]
           b == IF goes /\ here THEN DeadBaseline(m.base[p]) ELSE m.base[p]
           A == {y \in m.acts : y.path # p \/ y.kind \notin done}
                \cup (IF stays THEN {act(x)} ELSE {})
           n1 == [m EXCEPT !.base[p] = b]
           n == [n1 EXCEPT !.acts = A]
<1>8. \E save : Session(d, t, n, save)
  <2>1. n = [m EXCEPT !.base[x.path] = IF goes /\ here THEN DeadBaseline(@) ELSE @,
                            !.acts = {y \in @ : y.path # x.path \/ y.kind \notin done}
                                     \cup (IF stays THEN {act(x)} ELSE {})]
    BY <1>3 DEF Durable
  <2> HIDE DEF n
  <2> QED
    BY <1>6, <2>1
<1>9. b \in Baseline /\ A \in SUBSET Act
  <2>1. m.base[p] \in Baseline /\ m.acts \in SUBSET Act
    BY <1>3, <1>7 DEF Durable
  <2>2. b \in Baseline
    BY <2>1, BaselineTyped
  <2>3. A \in SUBSET Act
    <3> HIDE DEF act
    <3> QED
      BY <1>7, <2>1
  <2> QED
    BY <2>2, <2>3
<1> HIDE DEF b, A
<1>10. Extends(m, n1) /\ n1.next = m.next
  BY <1>3, <1>7, <1>9, RebasedAt
<1> HIDE DEF n1
<1>11. Extends(m, n) /\ n.next = m.next
  <2>1. DurOK(n1)
    BY <1>10 DEF Extends
  <2>2. Extends(n1, n) /\ n.next = n1.next
    BY <1>9, <2>1, Reacted
  <2> QED
    BY <1>3, <1>10, <2>2, ExtendsFurther
<1> HIDE DEF n
<1>12. RejectedOK(R)
  BY <1>2 DEF DataOK, RejectedOK
<1>13. Keeps(s, t, {"rejected"}) /\ t.rejected = R
  BY <1>2 DEF Keeps, Fields
<1> HIDE DEF t, R
<1>14. /\ t.load = s.load /\ t.want = s.want /\ t.from = s.from /\ t.stamped = s.stamped
       /\ t.l = s.l /\ t.r = s.r /\ t.plan = s.plan /\ t.got = s.got /\ t.at = s.at
       /\ t.todo = s.todo /\ t.pc = "cleanup" /\ DOMAIN t = Fields
  BY <1>1, <1>13 DEF Keeps, Fields
<1>15. DataOK(t, n.next, canon, d)
  BY <1>2, <1>11, <1>12, <1>13, <1>14 DEF DataOK
<1>16. PlaceOK(t, n)
  BY <1>1, <1>2, <1>14 DEF PlaceOK, EarlyOK, EarlyPC, AtOK, TodoOK, PCs
<1>17. DOMAIN vault' = Device /\ \A e \in Device : FilesOK(vault'[e])
  <2>1. vault' = vault \/ vault' = [vault EXCEPT ![d][p] = Nil]
    BY <1>6
  <2> QED
    BY <1>7, <2>1, VaultPut, FilesStay
<1>18. FilesOK(disk')
  <2>1. disk' = disk \/ disk' = [disk EXCEPT ![p] = Nil]
    BY <1>6
  <2> QED
    BY <1>7, <2>1, FilesPut, FilesStay
<1>19. kept' \subseteq Version
  <2>1. kept' = kept \cup (Gone(vault[d], vault'[d]) \cup Gone(disk, disk'))
    BY <1>6
  <2> QED
    BY <2>1, FilesStay, GoneIn
<1> HIDE DEF Fits
<1> QED
  BY <1>1, <1>8, <1>11, <1>15, <1>16, <1>17, <1>18, <1>19, ExtendsChains, WorkStep

----------------------------------------------------------------------------
(* Confirmations.                                                          *)

\* What a session counts as accepted leaves the queue of its device.
LEMMA ConfirmKeeps ==
  ASSUME Inv, NEW d \in Device, Confirm(d)
  PROVE  Inv'
<1> DEFINE s == ses[d]
           k == s.want.wm[d]
           r == Reduced(mem[d], k)
           acts == AllActs(s, {p \in Ops(s, DeleteKinds) : Dead(s.want.files[p])})
           less == {[a EXCEPT !.fp = Nil] : a \in acts}
           m2 == WithActs(r, less)
           T == Stored(m2, acts)
           t1 == [s EXCEPT !.pc = "delete", !.early = TRUE, !.todo = T]
           t2 == [s EXCEPT !.pc = "physical", !.ret = "finish", !.todo = r.acts]
<1>1. /\ s.pc = "cleanup"
      /\ UNCHANGED <<canon, disk, vault, kept, past, made, deletes, faults>>
      /\ dropped' = IF k > canon.wm[d] THEN dropped \cup {d} ELSE dropped
  BY DEF Confirm, At, users
<1>2. Session(d, t1, m2, TRUE) \/ Session(d, t2, r, TRUE)
  BY Zenon DEF Confirm, Reduced
<1>3. DataOK(s, mem[d].next, canon, d) /\ PlaceOK(s, mem[d]) /\ DOMAIN s = Fields /\ FilesOK(s.r)
  BY <1>1, Runs DEF Running, DataOK
<1>4. DurOK(mem[d]) /\ mem[d].next \in Nat /\ mem[d] \in Durable
  BY DeviceFacts
<1>5. k \in Nat /\ canon.wm[d] \in Nat /\ canon.wm[d] <= k /\ k < mem[d].next
  BY <1>3, IndexMarks, DeviceFacts DEF DataOK, MarksOK
<1> HIDE DEF k
<1>6. /\ DurOK(r) /\ r.next = mem[d].next /\ r.acts = mem[d].acts
      /\ Chained(mem[d], k) => Chained(r, k)
  BY <1>4, <1>5, Confirmation
<1> HIDE DEF r
<1>7. d \notin dropped' => Chained(r, canon.wm[d])
  <2> SUFFICES ASSUME d \notin dropped' PROVE Chained(r, canon.wm[d])
    OBVIOUS
  <2>1. k = canon.wm[d] /\ d \notin dropped
    BY <1>1, <1>5
  <2> QED
    BY <1>6, <2>1, DeviceFacts
<1>8. less \in SUBSET Act
  <2> DEFINE ps == {p \in Ops(s, DeleteKinds) : Dead(s.want.files[p])}
  <2>1. ps \in SUBSET AllPath
    BY DEF Ops
  <2> HIDE DEF ps
  <2>2. \A a \in AllActs(s, ps) : [a EXCEPT !.fp = Nil] \in Act
    BY <1>3, <2>1, ActsTyped
  <2> QED
    BY <2>2 DEF ps
<1> HIDE DEF less, acts
<1>9. Extends(r, m2) /\ m2.next = r.next /\ m2.acts \in SUBSET Act
  BY <1>6, <1>8, ActsAdded
<1> HIDE DEF m2
<1>10. DurOK(m2) /\ (d \notin dropped' => Chained(m2, canon.wm[d]))
  BY <1>5, <1>7, <1>9 DEF Extends
<1>11. SesOK(t1, m2, canon, d)
  <2>1. T \subseteq Act
    BY <1>9, StoredIn
  <2> HIDE DEF T
  <2>2. /\ Keeps(s, t1, Steering \cup {"got"}) /\ t1.got = s.got /\ t1.pc = "delete"
        /\ t1.todo = T /\ t1.at = s.at /\ t1.l = s.l
    BY <1>3 DEF Keeps, Fields, Steering
  <2> HIDE DEF t1
  <2>3. DataOK(t1, m2.next, canon, d)
    BY <1>3, <1>4, <1>6, <1>9, <2>2, DeviceFacts, DataKept DEF DataOK
  <2>4. PlaceOK(t1, m2)
    BY <1>1, <1>3, <2>1, <2>2 DEF PlaceOK, EarlyOK, EarlyPC, AtOK, TodoOK, PCs
  <2> QED
    BY <2>3, <2>4 DEF SesOK, Running
<1>12. SesOK(t2, r, canon, d)
  <2>1. r.acts \subseteq Act
    BY <1>4, <1>6 DEF Durable
  <2>2. /\ Keeps(s, t2, Steering \cup {"got"}) /\ t2.got = s.got /\ t2.pc = "physical"
        /\ t2.ret = "finish" /\ t2.todo = r.acts /\ t2.at = s.at /\ t2.l = s.l
    BY <1>3 DEF Keeps, Fields, Steering
  <2> HIDE DEF t2
  <2>3. DataOK(t2, r.next, canon, d)
    BY <1>3, <1>4, <1>6, <2>2, DeviceFacts, DataKept DEF DataOK
  <2>4. PlaceOK(t2, r)
    BY <1>1, <1>3, <2>1, <2>2 DEF PlaceOK, EarlyOK, EarlyPC, AtOK, TodoOK, PCs
  <2> QED
    BY <2>3, <2>4 DEF SesOK, Running
<1> HIDE DEF t1, t2
<1>13. \E t, n : /\ Session(d, t, n, TRUE) /\ DurOK(n) /\ SesOK(t, n, canon, d)
                 /\ d \notin dropped' => Chained(n, canon.wm[d])
  BY <1>2, <1>6, <1>7, <1>10, <1>11, <1>12
<1>14. PICK t, n : /\ Session(d, t, n, TRUE) /\ DurOK(n) /\ SesOK(t, n, canon, d)
                   /\ d \notin dropped' => Chained(n, canon.wm[d])
  BY <1>13
<1>15. /\ ses' = [ses EXCEPT ![d] = t] /\ mem' = [mem EXCEPT ![d] = n]
       /\ DOMAIN saved' = Device /\ saved'[d] = n
       /\ \A e \in Device \ {d} : saved'[e] = saved[e]
  BY <1>14 DEF Session, Inv, ShapesOK
<1>16. dropped \subseteq dropped' /\ dropped' \subseteq Device
  BY <1>1 DEF Inv
<1>17. canon' = canon /\ IndexOK(canon')
  BY <1>1, DeviceFacts
<1>18. canon.wm[d] <= canon'.wm[d] /\ \A e \in Device \ {d} : canon'.wm[e] = canon.wm[e]
  BY <1>5, <1>17
<1>19. DurOK(n) /\ (d \notin dropped' => Chained(n, canon'.wm[d])) /\ SesOK(t, n, canon', d)
  BY <1>14, <1>17
<1>20. UNCHANGED <<disk, vault, kept, past, made, deletes, faults>>
  BY <1>1
<1> QED
  BY <1>15, <1>16, <1>17, <1>18, <1>19, <1>20, PublishingStep

----------------------------------------------------------------------------
(* Conflicts.                                                              *)

\* A session that goes on to the next conflict.
LEMMA NextFits ==
  ASSUME NEW s, NEW u, Keeps(s, u, Steering), s.todo \subseteq Conflicts(s.l), u.todo \subseteq s.todo,
         NEW m, NEW t, t = NextConflict(u)
  PROVE  /\ Keeps(s, t, Steering \cup {"got"}) /\ PlaceOK(t, m) /\ GotOK(t.got)
         /\ t.pc \in {"conflict", "final"}
<1>1. DOMAIN u = Fields /\ u.l = s.l
  BY DEF Keeps, Fields, Steering
<1>2. u.todo \subseteq Conflicts(u.l)
  BY <1>1
<1>3. Keeps(u, t, {"at", "got", "pc"}) /\ PlaceOK(t, m) /\ GotOK(t.got)
  BY <1>1, <1>2, NextConflictPlace
<1>4. Keeps(s, t, Steering \cup {"got"})
  BY <1>3 DEF Keeps, Steering
<1>5. t.pc \in {"conflict", "final"}
  BY <1>1 DEF NextConflict, Fields
<1> QED
  BY <1>3, <1>4, <1>5

LEMMA ResolveKeeps ==
  ASSUME Inv, NEW d \in Device, NEW p \in AllPath, Resolve(d, p)
  PROVE  Inv'
<1> DEFINE s == ses[d]
           m == mem[d]
           T == s.todo \ {p}
           u == [s EXCEPT !.todo = T, !.at = p, !.why = "planned"]
           g == [x \in {p} |-> disk[p]]
           t == [u EXCEPT !.got = g, !.pc = "copy"]
<1>1. /\ s.pc = "conflict" /\ p \in s.todo /\ disk[p] # Nil
      /\ UNCHANGED <<canon, disk, dropped, past, made, deletes, faults>>
  BY DEF Resolve, MayResolve, At, users
<1>2. DataOK(s, m.next, canon, d) /\ PlaceOK(s, m) /\ DOMAIN s = Fields
  BY <1>1, Runs DEF Running, DataOK
<1>3. s.todo \subseteq Conflicts(s.l) /\ p \in Conflicts(s.l)
  BY <1>1, <1>2 DEF PlaceOK, TodoOK
<1>4. disk[p] \in Named(p)
  BY <1>1, FilesStay, FileOf
<1>5. IF disk[p] = vault[d][p] THEN Apply(d, NextConflict(u), p, disk[p])
      ELSE Session(d, t, m, FALSE) /\ UNCHANGED <<vault, kept>>
  BY Zenon DEF Resolve
<1>6. Keeps(s, u, Steering) /\ u.todo = T /\ u.at = p
  BY <1>2 DEF Keeps, Fields, Steering
<1> HIDE DEF u
<1>7. CASE disk[p] = vault[d][p]
  <2> DEFINE v == NextConflict(u)
  <2>1. Apply(d, v, p, disk[p])
    BY <1>5, <1>7
  <2>2. v = NextConflict(u) /\ u.todo \subseteq s.todo
    BY <1>6
  <2> HIDE DEF v
  <2>3. /\ Keeps(s, v, Steering \cup {"got"}) /\ PlaceOK(v, m) /\ GotOK(v.got)
        /\ v.pc \in {"conflict", "final"}
    BY <1>3, <1>6, <2>2, NextFits
  <2> QED
    BY <1>1, <1>4, <2>1, <2>3, ApplyKeeps
<1>8. CASE disk[p] # vault[d][p]
  <2>1. Session(d, t, m, FALSE) /\ UNCHANGED <<vault, kept>>
    BY <1>5, <1>8
  <2>2. GotOK(g)
    BY <1>4 DEF GotOK
  <2> HIDE DEF g
  <2>3. /\ Keeps(s, t, Steering \cup {"got"}) /\ t.got = g /\ t.pc = "copy" /\ t.at = p
        /\ t.todo = T /\ t.l = s.l
    BY <1>6 DEF Keeps, Fields, Steering
  <2> HIDE DEF t
  <2>4. PlaceOK(t, m)
    BY <1>3, <2>3 DEF PlaceOK, EarlyOK, EarlyPC, AtOK, TodoOK, PCs
  <2> QED
    BY <1>1, <2>1, <2>2, <2>3, <2>4, MoveStep, FaultsKept
<1> QED
  BY <1>7, <1>8

\* The name and the content of a conflict copy.
LEMMA CopyFits ==
  ASSUME NEW s, FilesOK(s.l), s.at \in Conflicts(s.l)
  PROVE  /\ ConflictCopy(s) \in AllPath
         /\ s.l[s.at] \in Content /\ s.l[s.at] # Nil
         /\ s.l[s.at] \in Named(ConflictCopy(s)) /\ s.l[s.at] \in Holds(ConflictCopy(s))
<1>1. s.at \in Path /\ s.l[s.at] # Nil
  BY DEF Conflicts
<1>2. s.l[s.at] \in Content
  BY <1>1, PathIsPath DEF FilesOK
<1> QED
  BY <1>1, <1>2, CopyName DEF ConflictCopy, Holds

LEMMA WriteCopyKeeps ==
  ASSUME Inv, NEW d \in Device, WriteCopy(d)
  PROVE  Inv'
<1> DEFINE s == ses[d]
           m == mem[d]
           c == ConflictCopy(s)
           pc == IF s.why = "rejected" /\ Live(canon.files[c]) THEN "apply" ELSE "send"
           t == [s EXCEPT !.pc = pc]
<1>1. /\ s.pc = "copy" /\ vault' = [vault EXCEPT ![d][c] = s.l[s.at]]
      /\ Session(d, t, m, FALSE)
      /\ UNCHANGED <<canon, disk, kept, dropped, past, made, deletes, faults>>
  BY DEF WriteCopy, At, users
<1>2. DataOK(s, m.next, canon, d) /\ PlaceOK(s, m) /\ DOMAIN s = Fields
  BY <1>1, Runs DEF Running, DataOK
<1>3. s.at \in Conflicts(s.l) /\ FilesOK(s.l)
  BY <1>1, <1>2 DEF PlaceOK, AtOK, DataOK
<1>4. DOMAIN vault' = Device /\ \A e \in Device : FilesOK(vault'[e])
  <2>1. c \in AllPath /\ s.l[s.at] \in Holds(c)
    BY <1>3, CopyFits
  <2> QED
    BY <1>1, <2>1, VaultPut
<1>5. pc \in {"apply", "send"}
  OBVIOUS
<1> HIDE DEF pc
<1>6. /\ Keeps(s, t, Steering \cup {"got"}) /\ t.got = s.got /\ t.pc = pc
      /\ t.todo = s.todo /\ t.at = s.at /\ t.l = s.l
  BY <1>2 DEF Keeps, Fields, Steering
<1> HIDE DEF t
<1>7. DataOK(t, m.next, canon, d)
  BY <1>2, <1>6, DeviceFacts, DataKept DEF DataOK
<1>8. PlaceOK(t, m)
  BY <1>1, <1>2, <1>3, <1>5, <1>6 DEF PlaceOK, EarlyOK, EarlyPC, AtOK, TodoOK, PCs
<1> QED
  BY <1>1, <1>4, <1>7, <1>8, DeviceFacts, FilesStay, WorkStep

LEMMA ApplyWinnerKeeps ==
  ASSUME Inv, NEW d \in Device, ApplyWinner(d)
  PROVE  Inv'
<1> DEFINE s == ses[d]
           m == mem[d]
           n == NextConflict(s)
           r == [s EXCEPT !.at = Nil, !.why = "none", !.pc = "cleanup"]
           t == IF s.why = "planned" THEN n ELSE r
<1>1. /\ s.pc = "apply"
      /\ UNCHANGED <<canon, disk, dropped, past, made, deletes, faults>>
  BY DEF ApplyWinner, At, users
<1>2. \/ Session(d, t, m, FALSE) /\ UNCHANGED <<vault, kept>>
      \/ Apply(d, t, s.at, disk[s.at])
  <2> HIDE DEF t
  <2> QED
    BY Zenon DEF ApplyWinner, t
<1>3. DataOK(s, m.next, canon, d) /\ PlaceOK(s, m) /\ DOMAIN s = Fields /\ GotOK(s.got)
  BY <1>1, Runs DEF Running, DataOK
<1>4. s.todo \subseteq Conflicts(s.l) /\ s.at \in Path /\ s.at \in AllPath
  BY <1>1, <1>3, PathIsPath DEF PlaceOK, TodoOK, AtOK, Conflicts
<1>5. disk[s.at] \in Named(s.at)
  BY <1>4, NamesOf, FilesStay, FileOf
<1>6. /\ Keeps(s, n, Steering \cup {"got"}) /\ PlaceOK(n, m) /\ GotOK(n.got)
      /\ n.pc \in {"conflict", "final"}
  <2>1. Keeps(s, s, Steering) /\ s.todo \subseteq s.todo
    BY <1>3 DEF Keeps
  <2> QED
    BY <1>4, <2>1, NextFits
<1>7. /\ Keeps(s, r, Steering \cup {"got"}) /\ PlaceOK(r, m) /\ GotOK(r.got) /\ r.pc = "cleanup"
  <2>1. /\ Keeps(s, r, Steering \cup {"got"}) /\ r.got = s.got /\ r.pc = "cleanup" /\ r.at = Nil
        /\ r.todo = s.todo /\ r.l = s.l
    BY <1>3 DEF Keeps, Fields, Steering
  <2> HIDE DEF r
  <2>2. PlaceOK(r, m)
    BY <1>4, <2>1 DEF PlaceOK, EarlyOK, EarlyPC, AtOK, TodoOK, PCs
  <2> QED
    BY <1>3, <2>1, <2>2
<1> HIDE DEF n, r
<1>8. /\ Keeps(s, t, Steering \cup {"got"}) /\ PlaceOK(t, m) /\ GotOK(t.got)
      /\ t.pc \in {"conflict", "final", "cleanup"}
  BY <1>6, <1>7
<1> HIDE DEF t
<1>9. CASE Session(d, t, m, FALSE) /\ UNCHANGED <<vault, kept>>
  BY <1>1, <1>8, <1>9, MoveStep, FaultsKept
<1>10. CASE Apply(d, t, s.at, disk[s.at])
  BY <1>1, <1>4, <1>5, <1>8, <1>10, ApplyKeeps
<1> QED
  BY <1>2, <1>9, <1>10

LEMMA SendCopyKeeps ==
  ASSUME Inv, NEW d \in Device, SendCopy(d)
  PROVE  Inv'
<1> DEFINE s == ses[d]
           m == mem[d]
           w == s.want
           p == ConflictCopy(s)
           y == s.l[s.at]
           q == EnsurePut(m, p, y, Nil, m.obs)
           x == LastOf(q, PutsOf(q, p, y))
           t1 == [s EXCEPT !.pc = "commit"]
           n1 == [m EXCEPT !.base[p] = BaselineOf(canon.files[p])]
           e == PutEntry(d, x, y, Nil, Nil, y)
           k == x.seq
           h == s.from
           r == x.base
           v == WithPut(w, p, e, d, k)
           t2 == [s EXCEPT !.pc = "commit", !.want = v, !.from = With(h, p, r)]
           n2 == [q EXCEPT !.base[p] = Transferred(y)]
<1>1. /\ s.pc = "send" /\ disk' = [disk EXCEPT ![p] = y]
      /\ UNCHANGED <<canon, vault, kept, dropped, past, made, deletes, faults>>
  BY Zenon DEF SendCopy, At, users
<1>2. DataOK(s, m.next, canon, d) /\ PlaceOK(s, m) /\ DOMAIN s = Fields /\ IndexOK(w)
      /\ FilesOK(s.l)
  BY <1>1, Runs DEF Running, DataOK
<1>3. DurOK(m) /\ m \in Durable /\ m.obs \in Nat /\ m.next \in Nat
  BY DeviceFacts DEF Durable
<1>4. s.at \in Conflicts(s.l)
  BY <1>1, <1>2 DEF PlaceOK, AtOK
<1>5. p \in AllPath /\ y \in Content /\ y \in Named(p) /\ y \in Holds(p)
  BY <1>2, <1>4, CopyFits
<1>6. FilesOK(disk')
  BY <1>1, <1>5, FilesStay, FilesPut
<1>7. \/ Live(canon.files[p]) /\ Session(d, t1, n1, FALSE)
      \/ Session(d, t2, n2, TRUE)
  <2>1. \/ Live(canon.files[p]) /\ Session(d, t1, n1, FALSE)
        \/ Session(d, [s EXCEPT !.pc = "commit",
                                !.want.files[p] = PutEntry(d, x, y, Nil, Nil, y),
                                !.want.wm[d] = Staged(@, x.seq),
                                !.from = With(@, p, x.base)],
                   [q EXCEPT !.base[p] = Transferred(y)], TRUE)
    BY Zenon DEF SendCopy
  <2>2. w.wm \in [Device -> Nat] /\ DOMAIN w.files = AllPath
    BY <1>2, IndexMarks
  <2>3. w \in [rev : Nat, files : [AllPath -> Entry \cup {None}], wm : [Device -> Nat]]
    BY <1>2 DEF IndexOK, Index
  <2> HIDE DEF x, q, p, y, t1, n1
  <2>4. t2 = [s EXCEPT !.pc = "commit",
                                !.want.files[p] = PutEntry(d, x, y, Nil, Nil, y),
                                !.want.wm[d] = Staged(@, x.seq),
                                !.from = With(@, p, x.base)]
    BY <1>2, <2>2, <2>3 DEF WithPut, Fields
  <2> QED
    BY <2>1, <2>4
<1>8. CASE Live(canon.files[p]) /\ Session(d, t1, n1, FALSE)
  <2>1. Extends(m, n1) /\ n1.next = m.next
    <3>1. BaselineOf(canon.files[p]) \in Baseline
      BY <1>5, <1>8, DeviceFacts, EntryOf, BaselineTyped DEF Live
    <3> HIDE DEF p
    <3> QED
      BY <1>3, <1>5, <3>1, RebasedAt
  <2>2. /\ Keeps(s, t1, Steering \cup {"got"}) /\ t1.got = s.got /\ t1.pc = "commit"
        /\ t1.todo = s.todo /\ t1.at = s.at /\ t1.l = s.l
    BY <1>2 DEF Keeps, Fields, Steering
  <2> HIDE DEF t1, n1
  <2>3. DataOK(t1, n1.next, canon, d)
    BY <1>2, <2>1, <2>2, DeviceFacts, DataKept DEF DataOK
  <2>4. PlaceOK(t1, n1)
    BY <1>1, <1>2, <2>2 DEF PlaceOK, EarlyOK, EarlyPC, AtOK, TodoOK, PCs
  <2> QED
    BY <1>1, <1>6, <1>8, <2>1, <2>3, <2>4, ExtendsChains, FilesStay, WorkStep
<1>9. CASE Session(d, t2, n2, TRUE)
  <2>1. Extends(m, q) /\ PutsOf(q, p, y) # {}
    <3> HIDE DEF p, y
    <3> QED
      BY <1>3, <1>5, Numbers, EnsurePutExtends
  <2> HIDE DEF q
  <2>2. DurOK(q) /\ q.next \in Nat /\ q.next >= m.next
    BY <2>1, QueueFacts DEF Extends
  <2>3. k \in Nat /\ k < q.next
    <3>1. PutsOf(q, p, y) \in SUBSET DOMAIN q.queue
      BY DEF PutsOf, Puts
    <3> QED
      BY <2>1, <2>2, <3>1, LastIsOne
  <2> HIDE DEF p, y
  <2>4. e \in Says(p) /\ e.by \in Device
    <3>1. Nil \in {FALSE, Nil} /\ x.seq \in Nat
      BY <2>3
    <3> HIDE DEF x
    <3> QED
      BY <1>5, <3>1, PutEntrySays
  <2> HIDE DEF e, k, r, v, x
  <2>5. /\ Rewrites(w, v, {p}) /\ v.wm[d] = Staged(w.wm[d], k)
        /\ \A z \in Device \ {d} : v.wm[z] = w.wm[z]
    <3>1. v = WithPut(w, p, e, d, k)
      BY Zenon DEF v
    <3>2. IndexOK(w) /\ p \in AllPath /\ e \in Says(p) /\ e.by \in Device /\ k \in Nat
      BY <1>2, <1>5, <2>3, <2>4
    <3> HIDE DEF w
    <3>3. /\ Rewrites(w, WithPut(w, p, e, d, k), {p})
          /\ WithPut(w, p, e, d, k).wm[d] = Staged(w.wm[d], k)
          /\ \A y1 \in Device \ {d} : WithPut(w, p, e, d, k).wm[y1] = w.wm[y1]
      BY <3>2, OwnPut, ZenonT(40)
    <3> QED
      BY <3>1, <3>3, Zenon
  <2>6. /\ FromOK(With(h, p, r), v) /\ StampOK(s.stamped, s.load, v)
        /\ SameOK(With(h, p, r), s.load, v)
    <3> DEFINE o == With(h, p, r)
    <3>1. FromOK(h, w) /\ StampOK(s.stamped, s.load, w) /\ SameOK(h, s.load, w)
      BY <1>2 DEF DataOK
    <3>2. DOMAIN o = DOMAIN h \cup {p}
      BY DEF With, Over
    <3> HIDE DEF o, h, w
    <3>3. FromOK(o, v) /\ StampOK(s.stamped, s.load, v) /\ SameOK(o, s.load, v)
      BY <2>5, <3>1, <3>2, Authored
    <3> QED
      BY <3>3 DEF o
  <2>7. Extends(m, n2) /\ n2.next = q.next
    <3>1. Transferred(y) \in Baseline
      BY <1>5, BaselineTyped
    <3>2. Extends(q, n2) /\ n2.next = q.next
      BY <1>5, <2>2, <3>1, RebasedAt
    <3> QED
      BY <1>3, <2>1, <3>2, ExtendsFurther
  <2>8. MarksOK(v.wm, canon.wm, n2.next, d)
    <3>1. MarksOK(w.wm, canon.wm, m.next, d)
      BY <1>2 DEF DataOK
    <3>2. w.wm[d] \in Nat /\ canon.wm[d] \in Nat
      BY <1>2, IndexMarks, DeviceFacts
    <3>3. w.wm[d] < q.next
      BY <1>3, <2>2, <3>1, <3>2 DEF MarksOK
    <3>4. /\ Staged(w.wm[d], k) \in Nat /\ Staged(w.wm[d], k) < q.next
          /\ Staged(w.wm[d], k) >= w.wm[d]
      BY <2>2, <2>3, <3>2, <3>3, StagedBelow
    <3> QED
      BY <2>5, <2>7, <3>1, <3>2, <3>4 DEF MarksOK
  <2>9. /\ Keeps(s, t2, {"want", "from", "pc"}) /\ t2.want = v
        /\ t2.from = With(h, p, r) /\ t2.pc = "commit"
    BY <1>2 DEF Keeps, Fields
  <2> HIDE DEF t2, n2
  <2>10. /\ t2.load = s.load /\ t2.l = s.l /\ t2.r = s.r /\ t2.plan = s.plan
         /\ t2.stamped = s.stamped /\ t2.got = s.got /\ t2.rejected = s.rejected
         /\ t2.at = s.at /\ t2.todo = s.todo /\ DOMAIN t2 = Fields
    BY <2>9 DEF Keeps, Fields
  <2>11. DataOK(t2, n2.next, canon, d)
    BY <1>2, <2>5, <2>6, <2>8, <2>9, <2>10 DEF DataOK, Rewrites
  <2>12. PlaceOK(t2, n2)
    BY <1>1, <1>2, <2>9, <2>10 DEF PlaceOK, EarlyOK, EarlyPC, AtOK, TodoOK, PCs
  <2> QED
    BY <1>1, <1>6, <1>9, <2>7, <2>11, <2>12, ExtendsChains, FilesStay, WorkStep
<1> QED
  BY <1>7, <1>8, <1>9, Zenon

----------------------------------------------------------------------------
(* The theorem.                                                            *)

LEMMA InitInv ==
  Init => Inv
<1> SUFFICES ASSUME Init PROVE Inv
  OBVIOUS
<1> DEFINE E(p) == IF p \in Existing
                   THEN [sha |-> 0, dead |-> Nil, rev |-> 1, by |-> Nil, seq |-> 0, fp |-> 0]
                   ELSE None
           F == [p \in AllPath |-> IF p \in Existing THEN 0 ELSE Nil]
           G == [p \in AllPath |-> E(p)]
           W == [d \in Device |-> 0]
           B == [p \in AllPath |-> IF p \in Existing THEN BaselineOf(E(p)) ELSE None]
           m == [base |-> B, obs |-> 1, queue |-> <<>>, next |-> 1, acts |-> {}]
<1>1. /\ canon = [rev |-> 1, files |-> G, wm |-> W]
      /\ disk = F /\ vault = [d \in Device |-> F]
      /\ mem = [d \in Device |-> m] /\ saved = [d \in Device |-> m]
      /\ ses = [d \in Device |-> Idle]
      /\ dropped = {} /\ kept = {} /\ past = {} /\ made = 0 /\ deletes = 0 /\ faults = 0
  BY Zenon DEF Init
<1>2. /\ \A p \in Existing : p \in Path /\ p \in AllPath /\ Named(p) = Content /\ Holds(p) = Content
      /\ 0 \in Content /\ Nil \in Content /\ 0 \in Version
  BY PathsAssumption, PathIsPath, NamesOf, Numbers
<1>3. FilesOK(F)
  <2>1. \A p \in AllPath : F[p] \in Content /\ F[p] \in Holds(p)
    <3> SUFFICES ASSUME NEW p \in AllPath PROVE F[p] \in Content /\ F[p] \in Holds(p)
      OBVIOUS
    <3>1. Nil \in Holds(p)
      BY NamesOf
    <3> QED
      BY <1>2, <3>1
  <2> QED
    BY <2>1 DEF FilesOK
<1>4. \A p \in Existing : E(p) \in Says(p) /\ BaselineOf(E(p)) \in Baseline
  <2> SUFFICES ASSUME NEW p \in Existing PROVE E(p) \in Says(p) /\ BaselineOf(E(p)) \in Baseline
    OBVIOUS
  <2>1. E(p) = [sha |-> 0, dead |-> Nil, rev |-> 1, by |-> Nil, seq |-> 0, fp |-> 0]
    OBVIOUS
  <2>2. E(p) \in Entry /\ E(p).sha = 0
    BY <1>2, <2>1 DEF Entry, Flag, Revision
  <2> HIDE DEF E
  <2> QED
    BY <1>2, <2>2, BaselineTyped DEF Says
<1>5. \A p \in AllPath : G[p] = None \/ G[p] \in Says(p)
  <2> SUFFICES ASSUME NEW p \in AllPath PROVE G[p] = None \/ G[p] \in Says(p)
    OBVIOUS
  <2>1. CASE p \in Existing
    <3>1. G[p] = E(p)
      OBVIOUS
    <3> HIDE DEF G, E
    <3> QED
      BY <1>4, <2>1, <3>1
  <2>2. CASE p \notin Existing
    BY <2>2
  <2> QED
    BY <2>1, <2>2
<1>6. B \in [AllPath -> Baseline]
  <2>1. \A p \in AllPath : (IF p \in Existing THEN BaselineOf(E(p)) ELSE None) \in Baseline
    <3>1. None \in Baseline
      BY DEF Baseline
    <3> HIDE DEF E
    <3> QED
      BY <1>4, <3>1
  <2> HIDE DEF E
  <2> QED
    BY <2>1
<1>7. G = [p \in AllPath |-> G[p]] /\ DOMAIN G = AllPath
  OBVIOUS
<1>8. W \in [Device -> Nat] /\ \A d \in Device : W[d] = 0
  OBVIOUS
<1> HIDE DEF G, B, W, F, E
<1>9. IndexOK(canon) /\ \A d \in Device : canon.wm[d] = 0
  <2>1. G \in [AllPath -> Entry \cup {None}]
    BY <1>5, <1>7 DEF Says
  <2>2. canon.files = G /\ canon.wm = W /\ canon \in Index
    BY <1>1, <1>8, <2>1 DEF Index
  <2> QED
    BY <1>5, <1>8, <2>2 DEF IndexOK
<1>10. DurOK(m) /\ Chained(m, 0)
  <2>1. <<>> \in MutationSeq /\ Len(<<>>) = 0
    BY EmptySeq DEF MutationSeq
  <2>2. m \in Durable
    BY <1>6, <2>1 DEF Durable
  <2>3. m.queue = <<>> /\ m.next = 1
    OBVIOUS
  <2>4. Len(m.queue) = 0
    BY <2>1, <2>3
  <2> HIDE DEF m
  <2>5. \A i \in 1 .. Len(m.queue) : FALSE
    BY <2>4
  <2>6. m.next - 1 - Len(m.queue) \in 0 .. 0
    <3> DEFINE a == m.next
               b == Len(m.queue)
    <3>1. a = 1 /\ b = 0
      BY <2>3, <2>4
    <3> HIDE DEF a, b
    <3>2. a - 1 - b \in 0 .. 0
      BY <3>1
    <3> QED
      BY <3>2 DEF a, b
  <2> QED
    BY <2>2, <2>5, <2>6 DEF DurOK, Chained
<1> HIDE DEF m
<1>11. CountsOK
  BY <1>1, <1>2, Numbers DEF CountsOK
<1>12. ShapesOK
  BY <1>1 DEF ShapesOK
<1>13. ASSUME NEW d \in Device PROVE DeviceOK(d)
  <2>1. vault[d] = F /\ mem[d] = m /\ saved[d] = m /\ ses[d] = Idle
    BY <1>1
  <2> QED
    BY <1>3, <1>9, <1>10, <2>1, IdleFits DEF DeviceOK, ChainsOK
<1> QED
  BY <1>1, <1>3, <1>9, <1>11, <1>12, <1>13 DEF Inv

LEMMA PathStepKeeps ==
  ASSUME Inv, NEW d \in Device, NEW p \in AllPath, PathStep(d, p)
  PROVE  Inv'
<1>1. CASE Upload(d, p)
  BY <1>1, UploadKeeps
<1>2. CASE UploadFails(d, p)
  BY <1>2, UploadFailsKeeps
<1>3. CASE DownloadRead(d, p)
  BY <1>3, DownloadReadKeeps
<1>4. CASE DownloadApply(d, p)
  BY <1>4, DownloadApplyKeeps
<1>5. CASE DownloadFails(d, p)
  BY <1>5, DownloadFailsKeeps
<1>6. CASE Resolve(d, p)
  BY <1>6, ResolveKeeps
<1>7. CASE ResolveFails(d, p)
  BY <1>7, ResolveFailsKeeps
<1> QED
  BY <1>1, <1>2, <1>3, <1>4, <1>5, <1>6, <1>7 DEF PathStep

\* The beginning of a session, and what it transfers.
Transfers(d) ==
  \/ Load(d) \/ Physical(d) \/ PhysicalDone(d)
  \/ ScanLocal(d) \/ ListRemote(d) \/ Verify(d) \/ VerifyFails(d)
  \/ Plan(d) \/ PlanFails(d) \/ Prepare(d)
  \/ \E p \in AllPath : PathStep(d, p)
  \/ Stamp(d) \/ TransferFailed(d) \/ DownloadsDone(d)
  \/ Settle(d)

LEMMA TransfersKeep ==
  ASSUME Inv, NEW d \in Device, Transfers(d)
  PROVE  Inv'
<1>1. CASE Load(d)
  BY <1>1, LoadKeeps
<1>2. CASE Physical(d)
  BY <1>2, PhysicalKeeps
<1>3. CASE PhysicalDone(d)
  BY <1>3, PhysicalDoneKeeps
<1>4. CASE ScanLocal(d) \/ ListRemote(d)
  BY <1>4, ScanKeeps
<1>5. CASE Verify(d)
  BY <1>5, VerifyKeeps
<1>6. CASE VerifyFails(d) \/ TransferFailed(d)
  BY <1>6, FailuresKeep
<1>7. CASE Plan(d)
  BY <1>7, PlanKeeps
<1>8. CASE PlanFails(d)
  BY <1>8, PlanFailsKeeps
<1>9. CASE Prepare(d)
  BY <1>9, PrepareKeeps
<1>10. CASE \E p \in AllPath : PathStep(d, p)
  BY <1>10, PathStepKeeps
<1>11. CASE Stamp(d)
  BY <1>11, StampKeeps
<1>12. CASE DownloadsDone(d)
  BY <1>12, DownloadsDoneKeeps
<1>13. CASE Settle(d)
  BY <1>13, SettleKeeps
<1> QED
  BY <1>1, <1>2, <1>3, <1>4, <1>5, <1>6, <1>7, <1>8, <1>9, <1>10, <1>11, <1>12, <1>13 DEF Transfers

\* What it publishes, and its end.
Publishes(d) ==
  \/ Intent(d) \/ Commit(d) \/ CommitFails(d)
  \/ RejectedDelete(d) \/ RejectedPut(d) \/ Confirm(d) \/ DeletesDone(d)
  \/ WriteCopy(d) \/ SendCopy(d) \/ ApplyWinner(d) \/ ApplyFails(d)
  \/ FinalUnchanged(d) \/ FinalStale(d) \/ FinalChanged(d)
  \/ Finish(d) \/ Unfinished(d)

LEMMA PublishesKeep ==
  ASSUME Inv, NEW d \in Device, Publishes(d)
  PROVE  Inv'
<1>1. CASE Intent(d)
  BY <1>1, IntentKeeps
<1>2. CASE Commit(d)
  BY <1>2, CommitKeeps
<1>3. CASE CommitFails(d) \/ ApplyFails(d) \/ FinalStale(d) \/ Unfinished(d)
  BY <1>3, FailuresKeep
<1>4. CASE RejectedDelete(d)
  BY <1>4, RejectedDeleteKeeps
<1>5. CASE RejectedPut(d)
  BY <1>5, RejectedPutKeeps
<1>6. CASE Confirm(d)
  BY <1>6, ConfirmKeeps
<1>7. CASE DeletesDone(d)
  BY <1>7, DeletesDoneKeeps
<1>8. CASE WriteCopy(d)
  BY <1>8, WriteCopyKeeps
<1>9. CASE SendCopy(d)
  BY <1>9, SendCopyKeeps
<1>10. CASE ApplyWinner(d)
  BY <1>10, ApplyWinnerKeeps
<1>11. CASE FinalUnchanged(d) \/ FinalChanged(d)
  BY <1>11, FinalKeeps
<1>12. CASE Finish(d)
  BY <1>12, FinishKeeps
<1> QED
  BY <1>1, <1>2, <1>3, <1>4, <1>5, <1>6, <1>7, <1>8, <1>9, <1>10, <1>11, <1>12 DEF Publishes

LEMMA NextKeeps ==
  ASSUME Inv, [Next]_vars
  PROVE  Inv'
<1>1. CASE UNCHANGED vars
  <2>1. /\ canon' = canon /\ disk' = disk /\ vault' = vault /\ mem' = mem /\ saved' = saved
        /\ ses' = ses /\ dropped' = dropped /\ kept' = kept /\ past' = past /\ made' = made
        /\ deletes' = deletes /\ faults' = faults
    BY <1>1 DEF vars
  <2>2. ASSUME NEW d \in Device PROVE DeviceOK(d)'
    BY <2>1 DEF Inv, DeviceOK, ChainsOK
  <2> QED
    BY <2>1, <2>2 DEF Inv, ShapesOK, CountsOK
<1>2. CASE Next
  <2>1. PICK d \in Device : Step(d) \/ User(d) \/ Fault(d)
    BY <1>2 DEF Next
  <2>2. CASE Step(d)
    <3>1. Transfers(d) \/ Publishes(d)
      BY <2>2 DEF Step, Transfers, Publishes
    <3> QED
      BY <3>1, TransfersKeep, PublishesKeep
  <2>3. CASE User(d)
    BY <2>3, UserKeeps
  <2>4. CASE Fault(d)
    <3>1. CASE Crash(d)
      BY <3>1, CrashKeeps
    <3>2. CASE Abort(d)
      BY <3>2, AbortKeeps
    <3>3. CASE \E p \in AllPath : UploadLost(d, p)
      BY <3>3, UploadLostKeeps
    <3> QED
      BY <2>4, <3>1, <3>2, <3>3 DEF Fault
  <2> QED
    BY <2>1, <2>2, <2>3, <2>4
<1> QED
  BY <1>1, <1>2

\* The invariant gives the types, and chains that continue the watermark.
LEMMA DurableFits ==
  ASSUME NEW m, DurOK(m)
  PROVE  DurableOK(m)
<1>1. m \in Durable
  BY DEF DurOK
<1>2. m.base \in [AllPath -> Baseline] /\ m.obs \in Nat /\ m.next \in Nat \ {0} /\ m.acts \in SUBSET Act
  BY <1>1 DEF Durable
<1>3. \A i \in DOMAIN m.queue : m.queue[i] \in MutationType
  BY QueueFacts
<1> QED
  BY <1>2, <1>3 DEF DurableOK, Baseline

LEMMA InvImplies ==
  ASSUME Inv
  PROVE  QueueConsistent
<1>1. ASSUME NEW d \in Device
      PROVE  /\ vault[d] \in [AllPath -> Content]
             /\ DurableOK(mem[d]) /\ DurableOK(saved[d])
             /\ ses[d].pc \in PCs
             /\ ses[d] # Idle => ses[d].load \in Index /\ ses[d].want \in Index
  <2>1. DeviceOK(d)
    BY DEF Inv
  <2>2. vault[d] \in [AllPath -> Content] /\ DurableOK(mem[d]) /\ DurableOK(saved[d])
    BY <2>1, DurableFits DEF DeviceOK, FilesOK
  <2>3. CASE ses[d] = Idle
    <3>1. ses[d].pc = "idle"
      BY <2>3, IdleFields
    <3> QED
      BY <2>2, <2>3, <3>1 DEF PCs
  <2>4. CASE Running(ses[d], mem[d], canon, d)
    <3>1. ses[d].pc \in PCs
      BY <2>4 DEF Running, PlaceOK
    <3>2. ses[d].load \in Index /\ ses[d].want \in Index
      BY <2>4 DEF Running, DataOK, IndexOK
    <3> QED
      BY <2>2, <3>1, <3>2
  <2> QED
    BY <2>1, <2>3, <2>4 DEF DeviceOK, SesOK
<1>2. TypeOK
  BY <1>1 DEF Inv, IndexOK, FilesOK, CountsOK, TypeOK
<1>3. ASSUME NEW d \in Device \ dropped PROVE QueueOf(d)
  <2>1. DeviceOK(d) /\ canon.wm[d] \in Nat
    BY DeviceFacts DEF Inv
  <2>2. /\ DurOK(mem[d]) /\ DurOK(saved[d])
        /\ Chained(mem[d], canon.wm[d]) /\ Chained(saved[d], canon.wm[d])
    BY <2>1 DEF DeviceOK, ChainsOK
  <2> QED
    BY <2>1, <2>2, RestContinues DEF QueueOf
<1> QED
  BY <1>2, <1>3 DEF QueueConsistent, QueueContinues

\* Whatever sessions, users, crashes and failures do, every variable has its
\* type, and what a device has pending, in memory and as stored, follows on the
\* watermark of the canonical index without a gap (ensureSequenceFloor finds
\* none), but for a device that has confirmed what the index does not have.
THEOREM QueueIsContinued ==
  Spec => []QueueConsistent
<1>1. Init => Inv
  BY InitInv
<1>2. Inv /\ [Next]_vars => Inv'
  BY NextKeeps
<1>3. Inv => QueueConsistent
  BY InvImplies
<1> QED
  BY <1>1, <1>2, <1>3, PTL DEF Spec

----------------------------------------------------------------------------
(* No edit is lost: what the files of the disk and the vaults have.  In    *)
(* these definitions v is the vault of a device, k the disk, and L the     *)
(* versions that a user has replaced or a protective copy has (Lost).      *)

Lost == past \cup kept

\* Content that may be overwritten.
Spare(x, L) == x = Nil \/ x \in L

\* g has other files than f only where those of f may be overwritten.
Spares(f, g, L) ==
  \A p \in AllPath : g[p] = f[p] \/ (g[p] # Nil /\ Spare(f[p], L))

\* What a baseline names is on the disk and in the vault, if it is not spare.
Based(b, v, k, L) ==
  \A p \in AllPath : b[p] # None =>
      /\ v[p] # Nil
      /\ b[p].sha \in L \/ (k[p] = b[p].sha /\ v[p] = b[p].sha)

\* What an index names is on the disk, if it is not spare; it has no deletions.
Written(f, k, L) ==
  \A p \in AllPath : f[p] # None =>
      /\ f[p].dead # TRUE /\ k[p] # Nil
      /\ f[p].sha \in L \/ k[p] = f[p].sha

Printed(f) == \A p \in AllPath : f[p] # None => f[p].fp = f[p].sha

NoDeletes(m) == m.acts = {} /\ \A i \in DOMAIN m.queue : m.queue[i].kind # "delete"

----------------------------------------------------------------------------
(* No edit is lost: what a session works with.                             *)

\* Only an upload of this session has no fingerprint, until its group ends.
Sent(s, p, k) ==
  /\ s.pc = "upload" /\ p \in DOMAIN s.from /\ p \notin s.todo
  /\ s.want.files[p].fp = Nil /\ s.want.files[p].sha = k[p]

WantOK(s, k, L) ==
  /\ Written(s.want.files, k, L)
  /\ \A p \in AllPath : s.want.files[p] # None =>
        s.want.files[p].fp = s.want.files[p].sha \/ Sent(s, p, k)

\* Nothing is deleted, and nothing but uploads gets a fingerprint.
PlainOK(s) ==
  /\ s.stamped = {} /\ s.early = FALSE
  /\ \A x \in s.rejected : x.why # "rejected-by-delete"
  /\ \A p \in AllPath : s.plan[p] \notin DeleteKinds

BeforeDownload == {"scan", "list", "local", "verify", "plan", "prepare", "upload"}

Resolution == {"copy", "send", "commit", "apply"}

\* The path in conflict, and when no group of the plan is under way.
AloneAt(pc, at, why) == pc \notin Resolution \/ at = Nil \/ why # "planned"

PhaseOK(s) ==
  /\ s.pc \notin {"intent", "delete"} /\ s.ret # "delete"
  /\ s.pc = "physical" => s.ret = "finish"
  /\ s.at # Nil => s.pc \in Resolution /\ s.why \in {"planned", "rejected"}
  /\ s.pc \in Resolution \cup {"final", "cleanup", "physical", "finish"}
       /\ AloneAt(s.pc, s.at, s.why) => s.todo = {}
  /\ s.pc \in BeforeDownload => s.got = <<>>

\* The scans still say what is there, or what a user has replaced since.
ScanOK(s, b, v, k, L) ==
  /\ s.pc \in {"local", "verify", "plan"} => \A p \in AllPath : s.r[p] = k[p]
  /\ s.pc \in {"list", "verify", "plan"} => \A p \in AllPath :
        /\ b[p] # None => s.l[p] # Nil
        /\ s.l[p] # Nil => v[p] # Nil
        /\ Spare(s.l[p], L) \/ v[p] = s.l[p]

\* An upload replaces nothing, or what the device has already had and changed.
Sendable(s, b, p) ==
  s.r[p] = Nil \/ (b[p] # None /\ b[p].sha = s.r[p] /\ s.l[p] # s.r[p])

UploadsOK(s, b) ==
  /\ s.pc = "prepare" => \A p \in AllPath : s.plan[p] = "upload" => Sendable(s, b, p)
  /\ s.pc = "upload" => \A p \in s.todo : Sendable(s, b, p)

\* Content read is still on the disk, and the local version has its copy.
ReadOK(s, v, k) ==
  /\ s.pc = "download" => \A p \in DOMAIN s.got : s.got[p] = k[p] /\ k[p] # Nil
  /\ s.pc \in Resolution /\ s.at # Nil /\ s.why = "planned" => s.got[s.at] # Nil
  /\ s.pc = "send" => v[ConflictCopy(s)] = s.l[s.at]

Late == {"prepare", "upload", "download", "settle", "conflict", "final", "cleanup", "physical",
         "finish"} \cup Resolution

\* Work of the plan that is still to be done for p.
Open(s, p) ==
  \/ s.plan[p] = "upload" /\ (s.pc = "prepare" \/ (s.pc = "upload" /\ p \in s.todo))
  \/ s.plan[p] = "download" /\ (s.pc \in {"prepare", "upload"} \/ (s.pc = "download" /\ p \in s.todo))
  \/ /\ s.plan[p] = "conflict"
     /\ \/ s.pc \in {"prepare", "upload", "download", "settle"} \/ p \in s.todo
        \/ p = s.at /\ s.why = "planned"

\* Where nothing is left to do the vault has what the disk has.
DoneOK(s, v, k, L) ==
  s.pc \in Late /\ ~s.bad => \A p \in AllPath : Spare(k[p], L) \/ v[p] = k[p] \/ Open(s, p)

Working(s, b, v, k, L) ==
  /\ WantOK(s, k, L) /\ PlainOK(s) /\ PhaseOK(s) /\ ScanOK(s, b, v, k, L)
  /\ UploadsOK(s, b) /\ ReadOK(s, v, k) /\ DoneOK(s, v, k, L)

Alone == \A d, e \in Device : ses[d] # Idle /\ ses[e] # Idle => d = e

Keeping(d) ==
  /\ Based(mem[d].base, vault[d], disk, Lost) /\ NoDeletes(mem[d])
  /\ Based(saved[d].base, vault[d], disk, Lost) /\ NoDeletes(saved[d])
  /\ ses[d] # Idle => Working(ses[d], mem[d].base, vault[d], disk, Lost)

Preserving ==
  /\ Alone
  /\ Written(canon.files, disk, Lost) /\ Printed(canon.files)
  /\ \A d \in Device : Keeping(d)
  /\ EditsSurvive

----------------------------------------------------------------------------
(* No edit is lost: steps that overwrite only what is spare.               *)

LEMMA NilIsNothing ==
  /\ Nil \notin Version /\ Nil \notin AllPath /\ Nil # TRUE /\ Nil # FALSE
  /\ Inv => Lost \subseteq Version /\ Nil \notin Lost
  BY NilAssumption DEF Inv, CountsOK, Lost

LEMMA SparesSelf ==
  ASSUME NEW f, NEW L
  PROVE  Spares(f, f, L)
  BY DEF Spares

\* g is f with x for p.
Sets(f, g, p, x) == g[p] = x /\ \A q \in AllPath \ {p} : g[q] = f[q]

LEMMA SparesOne ==
  ASSUME NEW f, NEW g, NEW p, NEW x, Sets(f, g, p, x), x # Nil,
         NEW L, Spare(f[p], L) \/ f[p] = x
  PROVE  Spares(f, g, L)
  BY DEF Spares, Sets

LEMMA BasedStays ==
  ASSUME NEW b, NEW v, NEW k, NEW L, Based(b, v, k, L), NEW M, L \subseteq M,
         NEW w, Spares(v, w, M), NEW j, Spares(k, j, M)
  PROVE  Based(b, w, j, M)
  BY DEF Based, Spares, Spare

LEMMA WrittenStays ==
  ASSUME NEW f, NEW k, NEW L, Written(f, k, L), NEW M, L \subseteq M,
         NEW j, Spares(k, j, M)
  PROVE  Written(f, j, M)
  BY DEF Written, Spares, Spare

LEMMA EditsStay ==
  ASSUME Inv, EditsSurvive, Lost \subseteq Lost', made' = made,
         Spares(disk, disk', Lost'), \A d \in Device : Spares(vault[d], vault'[d], Lost')
  PROVE  EditsSurvive'
<1>1. SUFFICES ASSUME NEW x \in 0 .. made
               PROVE  \/ x \in Lost'
                      \/ x = 0 /\ Existing = {}
                      \/ \E p \in AllPath : disk'[p] = x \/ \E d \in Device : vault'[d][p] = x
  BY DEF EditsSurvive, Lost
<1>2. x # Nil
  <2>1. made \in Version
    BY DEF Inv, CountsOK
  <2>2. x \in Version
    BY <2>1, Numbers
  <2> QED
    BY <2>2, NilIsNothing
<1>3. \/ x \in Lost
      \/ x = 0 /\ Existing = {}
      \/ \E p \in AllPath : disk[p] = x \/ \E d \in Device : vault[d][p] = x
  BY DEF EditsSurvive, Lost
<1>4. ASSUME NEW p \in AllPath, disk[p] = x PROVE disk'[p] = x \/ x \in Lost'
  BY <1>2, <1>4 DEF Spares, Spare
<1>5. ASSUME NEW p \in AllPath, NEW d \in Device, vault[d][p] = x
      PROVE  vault'[d][p] = x \/ x \in Lost'
  BY <1>2, <1>5 DEF Spares, Spare
<1> QED
  BY <1>3, <1>4, <1>5

\* A step of device d to the session t, with the durable state m in memory and k
\* as stored.
LEMMA SafeStep ==
  ASSUME Inv, Preserving, NEW d \in Device, NEW t, NEW m, NEW k,
         ses' = [ses EXCEPT ![d] = t], mem' = [mem EXCEPT ![d] = m],
         saved'[d] = k, \A e \in Device \ {d} : saved'[e] = saved[e],
         \/ \A e \in Device \ {d} : ses[e] = Idle
         \/ t = Idle /\ disk' = disk /\ Lost' = Lost,
         Lost \subseteq Lost', Spares(disk, disk', Lost'), Spares(vault[d], vault'[d], Lost'),
         \A e \in Device \ {d} : vault'[e] = vault[e],
         Written(canon'.files, disk', Lost'), Printed(canon'.files),
         Based(m.base, vault'[d], disk', Lost'), NoDeletes(m),
         Based(k.base, vault'[d], disk', Lost'), NoDeletes(k),
         t # Idle => Working(t, m.base, vault'[d], disk', Lost'),
         made' = made
  PROVE  Preserving'
<1>1. ses'[d] = t /\ mem'[d] = m
  BY DEF Inv, ShapesOK
<1>2. \A e \in Device \ {d} : ses'[e] = ses[e] /\ mem'[e] = mem[e]
  BY DEF Inv, ShapesOK
<1>3. Alone'
  BY <1>1, <1>2 DEF Preserving, Alone
<1>4. Keeping(d)'
  BY <1>1 DEF Keeping
<1>5. ASSUME NEW e \in Device \ {d} PROVE Keeping(e)'
  <2>1. Keeping(e)
    BY DEF Preserving
  <2>2. Spares(vault[e], vault'[e], Lost')
    BY SparesSelf
  <2>3. Based(mem[e].base, vault'[e], disk', Lost') /\ Based(saved[e].base, vault'[e], disk', Lost')
    BY <2>1, <2>2, BasedStays DEF Keeping
  <2>4. ses[e] # Idle => Working(ses[e], mem[e].base, vault'[e], disk', Lost')
    BY <2>1 DEF Keeping
  <2> QED
    BY <1>2, <2>1, <2>3, <2>4 DEF Keeping
<1>6. EditsSurvive'
  <2>1. \A e \in Device : Spares(vault[e], vault'[e], Lost')
    BY SparesSelf
  <2> QED
    BY <2>1, EditsStay DEF Preserving
<1> QED
  BY <1>3, <1>4, <1>5, <1>6 DEF Preserving

\* The step of a session.
LEMMA SafeSession ==
  ASSUME Inv, Preserving, NEW d \in Device, NEW t, NEW m, NEW save, Session(d, t, m, save),
         ses[d].pc # "idle",
         Lost \subseteq Lost', Spares(disk, disk', Lost'), Spares(vault[d], vault'[d], Lost'),
         \A e \in Device \ {d} : vault'[e] = vault[e],
         Written(canon'.files, disk', Lost'), Printed(canon'.files),
         Based(m.base, vault'[d], disk', Lost'), NoDeletes(m),
         t # Idle => Working(t, m.base, vault'[d], disk', Lost'),
         made' = made
  PROVE  Preserving'
<1>1. ses' = [ses EXCEPT ![d] = t] /\ mem' = [mem EXCEPT ![d] = m]
  BY DEF Session
<1>2. /\ saved'[d] = m \/ saved'[d] = saved[d]
      /\ \A e \in Device \ {d} : saved'[e] = saved[e]
  BY DEF Session, Inv, ShapesOK
<1>3. \A e \in Device \ {d} : ses[e] = Idle
  BY IdleFields DEF Preserving, Alone
<1>4. Based(saved[d].base, vault'[d], disk', Lost') /\ NoDeletes(saved[d])
  BY BasedStays DEF Preserving, Keeping
<1> DEFINE k == saved'[d]
<1>5. Based(k.base, vault'[d], disk', Lost') /\ NoDeletes(k)
  BY <1>2, <1>4
<1> HIDE DEF k
<1>6. saved'[d] = k
  BY DEF k
<1> QED
  BY <1>1, <1>2, <1>3, <1>5, <1>6, SafeStep

\* Most steps touch no file, and leave the index alone.
LEMMA SafeMove ==
  ASSUME Inv, Preserving, NEW d \in Device, NEW t, NEW m, NEW save, Session(d, t, m, save),
         ses[d].pc # "idle", UNCHANGED <<canon, disk, vault, kept, past, made>>,
         Based(m.base, vault[d], disk, Lost), NoDeletes(m),
         t # Idle => Working(t, m.base, vault[d], disk, Lost)
  PROVE  Preserving'
<1>1. Lost' = Lost
  BY DEF Lost
<1>2. Written(canon'.files, disk', Lost') /\ Printed(canon'.files)
  BY <1>1 DEF Preserving
<1>3. Spares(disk, disk', Lost') /\ Spares(vault[d], vault'[d], Lost')
  BY SparesSelf
<1>4. Based(m.base, vault'[d], disk', Lost')
  BY <1>1
<1>5. t # Idle => Working(t, m.base, vault'[d], disk', Lost')
  BY <1>1
<1> QED
  BY <1>1, <1>2, <1>3, <1>4, <1>5, SafeSession

\* What is known of a device, and of its session.
LEMMA Knows ==
  ASSUME Inv, Preserving, NEW d \in Device
  PROVE  /\ Based(mem[d].base, vault[d], disk, Lost) /\ NoDeletes(mem[d])
         /\ Written(canon.files, disk, Lost) /\ Printed(canon.files)
         /\ ses[d].pc # "idle" => Working(ses[d], mem[d].base, vault[d], disk, Lost)
  BY IdleFields DEF Preserving, Keeping

----------------------------------------------------------------------------
(* No edit is lost: sessions that end, and users.                          *)

LEMMA EndSafe ==
  ASSUME Inv, Preserving, NEW d \in Device, ses[d].pc # "idle", NEW m, NEW save,
         Session(d, Idle, m, save), m.base = mem[d].base, NoDeletes(m),
         UNCHANGED <<canon, disk, vault, kept, past, made>>
  PROVE  Preserving'
<1>1. Based(m.base, vault[d], disk, Lost)
  BY Knows
<1> QED
  BY <1>1, SafeMove

LEMMA FailSafe ==
  ASSUME Inv, Preserving, NEW d \in Device, ses[d].pc # "idle", Fail(d) \/ FailStored(d)
  PROVE  Preserving'
<1>1. PICK save : Session(d, Idle, mem[d], save)
  BY DEF Fail, FailStored
<1>2. UNCHANGED <<canon, disk, vault, kept, past, made>>
  BY DEF Fail, FailStored, users
<1> QED
  BY <1>1, <1>2, Knows, EndSafe

LEMMA RemainingNothing ==
  ASSUME Inv, Preserving, NEW d \in Device
  PROVE  NoDeletes(Remaining(d)) /\ Remaining(d).base = mem[d].base
<1> DEFINE a == StillToDo(ses[d], mem[d].acts)
<1>1. Remaining(d) = [mem[d] EXCEPT !.acts = a]
  BY DEF Remaining
<1>2. a = {}
  BY Knows DEF StillToDo, NoDeletes
<1> HIDE DEF a
<1>3. a \in SUBSET Act
  BY <1>2
<1>4. Remaining(d).queue = mem[d].queue /\ Remaining(d).acts = a /\ Remaining(d).base = mem[d].base
  BY <1>1, <1>3, DeviceFacts, Reacted
<1> QED
  BY <1>2, <1>4, Knows DEF NoDeletes

LEMMA PlanFailsSafe ==
  ASSUME Inv, Preserving, NEW d \in Device, PlanFails(d)
  PROVE  Preserving'
<1>1. PICK save \in BOOLEAN : Session(d, Idle, Remaining(d), save)
  BY DEF PlanFails
<1>2. ses[d].pc # "idle" /\ UNCHANGED <<canon, disk, vault, kept, past, made>>
  BY DEF PlanFails, At, users
<1> QED
  BY <1>1, <1>2, RemainingNothing, EndSafe

LEMMA AbortSafe ==
  ASSUME Inv, Preserving, NEW d \in Device, Abort(d)
  PROVE  Preserving'
<1>1. PICK save \in BOOLEAN : Session(d, Idle, mem[d], save)
  BY DEF Abort
<1>2. ses[d].pc # "idle"
  BY DEF Abort, Inv, DeviceOK, SesOK, Running, PlaceOK
<1>3. UNCHANGED <<canon, disk, vault, kept, past, made>>
  BY DEF Abort, users
<1> QED
  BY <1>1, <1>2, <1>3, Knows, EndSafe

LEMMA CrashSafe ==
  ASSUME Inv, Preserving, NEW d \in Device, Crash(d)
  PROVE  Preserving'
<1>1. /\ ses' = [ses EXCEPT ![d] = Idle] /\ mem' = [mem EXCEPT ![d] = saved[d]]
      /\ UNCHANGED <<canon, disk, vault, saved, kept, past, made>>
  BY DEF Crash, users
<1>2. Lost' = Lost
  BY <1>1 DEF Lost
<1>3. Based(saved[d].base, vault'[d], disk', Lost') /\ NoDeletes(saved[d])
  BY <1>1, <1>2 DEF Preserving, Keeping
<1>4. Written(canon'.files, disk', Lost') /\ Printed(canon'.files)
  BY <1>1, <1>2 DEF Preserving
<1>5. Spares(disk, disk', Lost') /\ Spares(vault[d], vault'[d], Lost')
  BY <1>1, SparesSelf
<1> QED
  BY <1>1, <1>2, <1>3, <1>4, <1>5, SafeStep

\* A session goes on as before when a user writes: the version that goes is spare.
LEMMA WorkingStays ==
  ASSUME NEW s, NEW b, NEW v, NEW k, NEW L, Working(s, b, v, k, L), NEW M, L \subseteq M,
         NEW w, Spares(v, w, M),
         s.pc = "send" => w[ConflictCopy(s)] = v[ConflictCopy(s)],
         \A p \in AllPath : w[p] # v[p] => Spare(v[p], M)
  PROVE  Working(s, b, w, k, M)
<1>1. WantOK(s, k, M)
  BY DEF Working, WantOK, Written
<1>2. ScanOK(s, b, w, k, M)
  BY DEF Working, ScanOK, Spares, Spare
<1>3. ReadOK(s, w, k)
  BY DEF Working, ReadOK
<1>4. DoneOK(s, w, k, M)
  <2>1. \A p \in AllPath : Spare(k[p], L) \/ v[p] = k[p] => Spare(k[p], M) \/ w[p] = k[p]
    BY DEF Spare
  <2> QED
    BY <2>1 DEF Working, DoneOK
<1> QED
  BY <1>1, <1>2, <1>3, <1>4 DEF Working

LEMMA WriteSafe ==
  ASSUME Inv, Preserving, NEW d \in Device, NEW p \in Path, UserWrite(d, p)
  PROVE  Preserving'
<1> DEFINE x == made + 1
<1>1. /\ vault' = [vault EXCEPT ![d][p] = x]
      /\ past' = past \cup ({vault[d][p]} \ {Nil}) /\ made < MaxVersion /\ made' = x
      /\ UNCHANGED <<canon, disk, mem, saved, ses, kept>>
  BY DEF UserWrite
<1>2. made \in Nat /\ x \in Version /\ x # Nil
  BY <1>1, Numbers, NilIsNothing DEF Inv, CountsOK
<1> HIDE DEF x
<1>3. p \in AllPath /\ DOMAIN vault = Device /\ DOMAIN vault[d] = AllPath
  BY PathIsPath, DeviceFacts DEF Inv, ShapesOK, FilesOK
<1>4. Lost \subseteq Lost' /\ Spare(vault[d][p], Lost')
  BY <1>1 DEF Lost, Spare
<1>5. vault'[d] = [vault[d] EXCEPT ![p] = x] /\ \A e \in Device \ {d} : vault'[e] = vault[e]
  BY <1>1, <1>3
<1>6. /\ Spares(vault[d], vault'[d], Lost') /\ vault'[d][p] = x
      /\ \A q \in AllPath \ {p} : vault'[d][q] = vault[d][q]
  <2>1. Sets(vault[d], vault'[d], p, x)
    BY <1>3, <1>5 DEF Sets
  <2>2. Spares(vault[d], vault'[d], Lost')
    BY <1>2, <1>4, <2>1, SparesOne
  <2> QED
    BY <2>1, <2>2 DEF Sets
<1>7. \A e \in Device : Spares(vault[e], vault'[e], Lost')
  BY <1>5, <1>6, SparesSelf
<1>8. Spares(disk, disk', Lost')
  BY <1>1, SparesSelf
<1>9. Written(canon'.files, disk', Lost') /\ Printed(canon'.files) /\ Alone'
  BY <1>1, <1>4, <1>8, WrittenStays DEF Preserving, Alone
<1>10. ASSUME NEW e \in Device PROVE Keeping(e)'
  <2>1. Keeping(e)
    BY DEF Preserving
  <2>2. Based(mem[e].base, vault'[e], disk', Lost') /\ Based(saved[e].base, vault'[e], disk', Lost')
    BY <1>4, <1>7, <1>8, <2>1, BasedStays DEF Keeping
  <2>3. ASSUME ses[e] # Idle PROVE Working(ses[e], mem[e].base, vault'[e], disk', Lost')
    <3>1. ses[e].pc = "send" => vault'[e][ConflictCopy(ses[e])] = vault[e][ConflictCopy(ses[e])]
      <4>1. ASSUME ses[e].pc = "send" PROVE ConflictCopy(ses[e]) \in AllPath \ Path
        <5>1. FilesOK(ses[e].l) /\ ses[e].at \in Conflicts(ses[e].l)
          BY <4>1, Runs DEF Running, DataOK, PlaceOK, AtOK
        <5>2. ses[e].l[ses[e].at] \in Version /\ ses[e].at \in Path
          BY <5>1, CopyFits, CopyName DEF Conflicts
        <5> QED
          BY <5>1, <5>2, CopyFits, CopiesAssumption DEF ConflictCopy
      <4> QED
        BY <1>5, <1>6, <4>1
    <3>2. \A q \in AllPath : vault'[e][q] # vault[e][q] => Spare(vault[e][q], Lost')
      BY <1>4, <1>5, <1>6
    <3>3. Working(ses[e], mem[e].base, vault[e], disk, Lost)
      BY <2>1, <2>3 DEF Keeping
    <3>4. Working(ses[e], mem[e].base, vault'[e], disk, Lost')
      BY <1>4, <1>7, <3>1, <3>2, <3>3, WorkingStays
    <3> QED
      BY <1>1, <3>4
  <2> QED
    BY <1>1, <2>1, <2>2, <2>3 DEF Keeping
<1>11. EditsSurvive'
  <2> SUFFICES ASSUME NEW y \in 0 .. x
               PROVE  \/ y \in Lost'
                      \/ y = 0 /\ Existing = {}
                      \/ \E q \in AllPath : disk'[q] = y \/ \E e \in Device : vault'[e][q] = y
    BY <1>1 DEF EditsSurvive, Lost
  <2>1. CASE y = x
    BY <1>3, <1>6, <2>1
  <2>2. CASE y \in 0 .. made
    <3>1. y # Nil
      BY <1>2, <2>2, Numbers, NilIsNothing DEF Inv, CountsOK
    <3>2. \/ y \in Lost
          \/ y = 0 /\ Existing = {}
          \/ \E q \in AllPath : disk[q] = y \/ \E e \in Device : vault[e][q] = y
      BY <2>2 DEF Preserving, EditsSurvive, Lost
    <3>3. ASSUME NEW q \in AllPath, NEW e \in Device, vault[e][q] = y
          PROVE  vault'[e][q] = y \/ y \in Lost'
      BY <1>7, <3>1, <3>3 DEF Spares, Spare
    <3> QED
      BY <1>1, <1>4, <3>2, <3>3
  <2> QED
    BY <1>2, <2>1, <2>2 DEF x
<1> QED
  BY <1>9, <1>10, <1>11 DEF Preserving

LEMMA UserSafe ==
  ASSUME Inv, Preserving, NEW d \in Device, User(d), MaxDeletes = 0
  PROVE  Preserving'
<1>1. PICK p \in Path : UserWrite(d, p) \/ UserDelete(d, p)
  BY DEF User
<1>2. ~UserDelete(d, p)
  BY DEF UserDelete, Inv, CountsOK
<1> QED
  BY <1>1, <1>2, WriteSafe

----------------------------------------------------------------------------
(* No edit is lost: a session that goes on without touching a file.        *)

Moves == {"pc", "todo", "at", "why", "ret", "bad", "got", "l", "rejected"}

LEMMA Onward ==
  ASSUME NEW s, NEW t, Keeps(s, t, Moves), NEW b, NEW v, NEW k, NEW L, Working(s, b, v, k, L),
         t.pc \notin {"idle", "scan", "list", "local", "verify", "plan"}, s.pc \in Late,
         s.pc = "upload" => t.pc = "upload" /\ t.todo \subseteq s.todo,
         t.rejected \subseteq s.rejected,
         PhaseOK(t), UploadsOK(t, b), ReadOK(t, v, k),
         t.bad \/ (~s.bad /\ \A p \in AllPath : Open(s, p) => Open(t, p))
  PROVE  Working(t, b, v, k, L)
<1>1. /\ t.want = s.want /\ t.from = s.from /\ t.stamped = s.stamped /\ t.plan = s.plan
      /\ t.r = s.r /\ t.early = s.early
  BY DEF Keeps, Moves, Fields
<1>2. WantOK(t, k, L)
  BY <1>1 DEF Working, WantOK, Sent
<1>3. PlainOK(t)
  BY <1>1 DEF Working, PlainOK
<1>4. ScanOK(t, b, v, k, L)
  BY DEF ScanOK
<1>5. DoneOK(t, v, k, L)
  BY DEF Working, DoneOK
<1> QED
  BY <1>2, <1>3, <1>4, <1>5 DEF Working

\* The plan has no deletions, so that its groups are uploads, downloads and conflicts.
NextDownload(s, t) ==
  \/ t.pc = "download" /\ t.todo = Ops(s, {"download"})
  \/ t.pc = "settle" /\ t.todo = {} /\ Ops(s, {"download"}) = {}

NextUpload(s, t) ==
  \/ t.pc = "upload" /\ t.todo = Ops(s, {"upload"})
  \/ Ops(s, {"upload"}) = {} /\ NextDownload(s, t)

NextResolution(s, t) ==
  \/ t.pc = "conflict" /\ t.todo = Ops(s, {"conflict"})
  \/ t.pc = "final" /\ t.todo = {} /\ Ops(s, {"conflict"}) = {}

LEMMA Entered ==
  ASSUME NEW s, DOMAIN s = Fields, PlainOK(s), NEW group, NEW t, t = Enter(s, group)
  PROVE  /\ group = "upload" => Keeps(s, t, {"pc", "todo"}) /\ NextUpload(s, t)
         /\ group = "download" => Keeps(s, t, {"pc", "todo"}) /\ NextDownload(s, t)
         /\ group = "delete" => Keeps(s, t, {"pc", "todo"}) /\ NextResolution(s, t)
<1> DEFINE pick(pc, todo) == [s EXCEPT !.pc = pc, !.todo = todo]
           U == Ops(s, {"upload"})
           D == Ops(s, {"download"})
           C == Ops(s, {"conflict"})
<1>1. Ops(s, DeleteKinds) = {}
  BY DEF Ops, PlainOK
<1>2. /\ group = "upload" => \/ t = pick("upload", U)
                             \/ U = {} /\ t = pick("download", D)
                             \/ U = {} /\ D = {} /\ t = pick("settle", {})
      /\ group = "download" => t = pick("download", D) \/ (D = {} /\ t = pick("settle", {}))
      /\ group = "delete" => t = pick("conflict", C) \/ (C = {} /\ t = pick("final", {}))
  <2> HIDE DEF U, D, C
  <2> QED
    BY <1>1 DEF Enter, U, D, C
<1> HIDE DEF U, D, C
<1>3. ASSUME NEW pc, NEW todo, t = pick(pc, todo)
      PROVE  Keeps(s, t, {"pc", "todo"}) /\ t.pc = pc /\ t.todo = todo
  BY <1>3 DEF Keeps, Fields
<1> HIDE DEF pick
<1> QED
  BY <1>2, <1>3 DEF U, D, C, NextUpload, NextDownload, NextResolution

\* A session that only moves, with the same baselines and no new deletions.
LEMMA OnwardSafe ==
  ASSUME Inv, Preserving, NEW d \in Device, ses[d].pc \in Late, NEW t, NEW m, NEW save,
         Session(d, t, m, save), UNCHANGED <<canon, disk, vault, kept, past, made>>,
         m.base = mem[d].base, NoDeletes(m), Keeps(ses[d], t, Moves),
         t.pc \notin {"idle", "scan", "list", "local", "verify", "plan"},
         ses[d].pc = "upload" => t.pc = "upload" /\ t.todo \subseteq ses[d].todo,
         t.rejected \subseteq ses[d].rejected,
         PhaseOK(t), UploadsOK(t, mem[d].base), ReadOK(t, vault[d], disk),
         t.bad \/ (~ses[d].bad /\ \A p \in AllPath : Open(ses[d], p) => Open(t, p))
  PROVE  Preserving'
<1>1. ses[d].pc # "idle"
  BY DEF Late, Resolution
<1>2. Working(t, mem[d].base, vault[d], disk, Lost)
  BY <1>1, Knows, Onward
<1>3. Based(m.base, vault[d], disk, Lost)
  BY Knows
<1> QED
  BY <1>1, <1>2, <1>3, SafeMove

LEMMA Works ==
  ASSUME Inv, Preserving, NEW d \in Device, ses[d].pc # "idle"
  PROVE  /\ Working(ses[d], mem[d].base, vault[d], disk, Lost)
         /\ WantOK(ses[d], disk, Lost) /\ PlainOK(ses[d]) /\ PhaseOK(ses[d])
         /\ ScanOK(ses[d], mem[d].base, vault[d], disk, Lost)
         /\ UploadsOK(ses[d], mem[d].base) /\ ReadOK(ses[d], vault[d], disk)
         /\ DoneOK(ses[d], vault[d], disk, Lost)
         /\ DOMAIN ses[d] = Fields
         /\ FilesOK(ses[d].l) /\ FilesOK(ses[d].r) /\ IndexOK(ses[d].want)
         /\ PlaceOK(ses[d], mem[d])
  BY Knows, Runs DEF Working, Running, DataOK

LEMMA PhysicalDoneSafe ==
  ASSUME Inv, Preserving, NEW d \in Device, PhysicalDone(d)
  PROVE  Preserving'
<1> DEFINE s == ses[d]
           t == [s EXCEPT !.pc = s.ret]
<1>1. /\ s.pc = "physical" /\ s.todo = {}
      /\ UNCHANGED <<canon, disk, vault, kept, past, made>>
  BY DEF PhysicalDone, At, users
<1>2. s.ret = "finish" /\ s.at = Nil /\ DOMAIN s = Fields
  BY <1>1, Works DEF PhaseOK, Resolution
<1>3. Session(d, t, mem[d], TRUE)
  BY <1>2 DEF PhysicalDone
<1>4. /\ Keeps(s, t, Moves) /\ t.pc = "finish" /\ t.todo = {} /\ t.at = s.at /\ t.bad = s.bad
      /\ t.ret = s.ret /\ t.rejected = s.rejected /\ t.plan = s.plan /\ t.why = s.why
  BY <1>1, <1>2 DEF Keeps, Fields, Moves
<1> HIDE DEF t
<1>5. PhaseOK(t) /\ UploadsOK(t, mem[d].base) /\ ReadOK(t, vault[d], disk)
  BY <1>2, <1>4 DEF PhaseOK, UploadsOK, ReadOK, Resolution, BeforeDownload
<1>6. \A p \in AllPath : Open(s, p) => Open(t, p)
  BY <1>1, <1>4 DEF Open
<1>7. t.bad \/ ~s.bad
  BY <1>4
<1> QED
  BY <1>1, <1>3, <1>4, <1>5, <1>6, <1>7, Knows, OnwardSafe DEF Late

LEMMA DownloadsDoneSafe ==
  ASSUME Inv, Preserving, NEW d \in Device, DownloadsDone(d)
  PROVE  Preserving'
<1> DEFINE s == ses[d]
           t == [s EXCEPT !.pc = "settle"]
<1>1. /\ s.pc = "download" /\ s.todo = {} /\ ~s.bad /\ Session(d, t, mem[d], FALSE)
      /\ UNCHANGED <<canon, disk, vault, kept, past, made>>
  BY DEF DownloadsDone, At, users
<1>2. s.at = Nil /\ DOMAIN s = Fields /\ s.ret # "delete"
  BY <1>1, Works DEF PhaseOK, Resolution
<1>3. /\ Keeps(s, t, Moves) /\ t.pc = "settle" /\ t.todo = {} /\ t.at = s.at
      /\ t.ret = s.ret /\ t.rejected = s.rejected /\ t.plan = s.plan /\ t.why = s.why
  BY <1>1, <1>2 DEF Keeps, Fields, Moves
<1> HIDE DEF t
<1>4. PhaseOK(t) /\ UploadsOK(t, mem[d].base) /\ ReadOK(t, vault[d], disk)
  BY <1>2, <1>3 DEF PhaseOK, UploadsOK, ReadOK, Resolution, BeforeDownload
<1>5. \A p \in AllPath : Open(s, p) => Open(t, p)
  BY <1>1, <1>3 DEF Open
<1> QED
  BY <1>1, <1>3, <1>4, <1>5, Knows, OnwardSafe DEF Late

LEMMA UploadFailsSafe ==
  ASSUME Inv, Preserving, NEW d \in Device, NEW p \in AllPath, UploadFails(d, p)
  PROVE  Preserving'
<1> DEFINE s == ses[d]
           t == [s EXCEPT !.todo = s.todo \ {p}, !.bad = TRUE]
<1>1. /\ s.pc = "upload" /\ Session(d, t, mem[d], FALSE)
      /\ UNCHANGED <<canon, disk, vault, kept, past, made>>
  BY DEF UploadFails, At, users
<1>2. s.at = Nil /\ DOMAIN s = Fields /\ s.ret # "delete" /\ s.got = <<>>
  BY <1>1, Works DEF PhaseOK, Resolution, BeforeDownload
<1>3. /\ Keeps(s, t, Moves) /\ t.pc = "upload" /\ t.todo = s.todo \ {p} /\ t.at = s.at
      /\ t.ret = s.ret /\ t.rejected = s.rejected /\ t.got = s.got /\ t.bad = TRUE
      /\ t.r = s.r /\ t.l = s.l
  BY <1>1, <1>2 DEF Keeps, Fields, Moves
<1> HIDE DEF t
<1>4. PhaseOK(t)
  BY <1>2, <1>3 DEF PhaseOK, Resolution
<1>5. UploadsOK(t, mem[d].base) /\ ReadOK(t, vault[d], disk)
  BY <1>1, <1>3, Works DEF UploadsOK, ReadOK, Resolution, Sendable
<1> QED
  BY <1>1, <1>3, <1>4, <1>5, Knows, OnwardSafe DEF Late

LEMMA DownloadReadSafe ==
  ASSUME Inv, Preserving, NEW d \in Device, NEW p \in AllPath, DownloadRead(d, p)
  PROVE  Preserving'
<1> DEFINE s == ses[d]
           g == With(s.got, p, disk[p])
           t == [s EXCEPT !.got = g]
<1>1. /\ s.pc = "download" /\ disk[p] # Nil /\ Session(d, [s EXCEPT !.got = With(@, p, disk[p])], mem[d], FALSE)
      /\ UNCHANGED <<canon, disk, vault, kept, past, made>>
  BY DEF DownloadRead, At, users
<1>2. s.at = Nil /\ DOMAIN s = Fields /\ s.ret # "delete"
  BY <1>1, Works DEF PhaseOK, Resolution
<1>3. Session(d, t, mem[d], FALSE)
  BY <1>1, <1>2 DEF Fields
<1>4. \A q \in DOMAIN g : g[q] = disk[q] /\ disk[q] # Nil
  BY <1>1, Works DEF With, Over, ReadOK
<1> HIDE DEF g
<1>5. /\ Keeps(s, t, Moves) /\ t.pc = "download" /\ t.todo = s.todo /\ t.at = s.at
      /\ t.ret = s.ret /\ t.rejected = s.rejected /\ t.plan = s.plan /\ t.why = s.why
      /\ t.got = g /\ t.bad = s.bad
  BY <1>1, <1>2 DEF Keeps, Fields, Moves
<1> HIDE DEF t
<1>6. PhaseOK(t) /\ UploadsOK(t, mem[d].base) /\ ReadOK(t, vault[d], disk)
  BY <1>2, <1>4, <1>5 DEF PhaseOK, UploadsOK, ReadOK, Resolution, BeforeDownload
<1>7. \A q \in AllPath : Open(s, q) => Open(t, q)
  BY <1>1, <1>5 DEF Open
<1>8. t.bad \/ ~s.bad
  BY <1>5
<1> QED
  BY <1>1, <1>3, <1>5, <1>6, <1>7, <1>8, Knows, OnwardSafe DEF Late

LEMMA DownloadFailsSafe ==
  ASSUME Inv, Preserving, NEW d \in Device, NEW p \in AllPath, DownloadFails(d, p)
  PROVE  Preserving'
<1> DEFINE s == ses[d]
           g == [x \in DOMAIN s.got \ {p} |-> s.got[x]]
           t == [s EXCEPT !.todo = s.todo \ {p}, !.bad = TRUE, !.got = g]
<1>1. /\ s.pc = "download"
      /\ Session(d, [s EXCEPT !.todo = @ \ {p}, !.bad = TRUE,
                              !.got = [x \in DOMAIN @ \ {p} |-> @[x]]], mem[d], FALSE)
      /\ UNCHANGED <<canon, disk, vault, kept, past, made>>
  BY DEF DownloadFails, At, users
<1>2. s.at = Nil /\ DOMAIN s = Fields /\ s.ret # "delete"
  BY <1>1, Works DEF PhaseOK, Resolution
<1>3. Session(d, t, mem[d], FALSE)
  BY <1>1, <1>2 DEF Fields
<1>4. \A q \in DOMAIN g : g[q] = disk[q] /\ disk[q] # Nil
  BY <1>1, Works DEF ReadOK
<1> HIDE DEF g
<1>5. /\ Keeps(s, t, Moves) /\ t.pc = "download" /\ t.at = s.at
      /\ t.ret = s.ret /\ t.rejected = s.rejected /\ t.got = g /\ t.bad = TRUE
  BY <1>1, <1>2 DEF Keeps, Fields, Moves
<1> HIDE DEF t
<1>6. PhaseOK(t) /\ UploadsOK(t, mem[d].base) /\ ReadOK(t, vault[d], disk)
  BY <1>2, <1>4, <1>5 DEF PhaseOK, UploadsOK, ReadOK, Resolution, BeforeDownload
<1> QED
  BY <1>1, <1>3, <1>5, <1>6, Knows, OnwardSafe DEF Late

----------------------------------------------------------------------------
(* No edit is lost: the queue, and a session between its groups.           *)

LEMMA NoNewDeletes ==
  ASSUME NEW m, DurOK(m), NoDeletes(m), NEW n, Extends(m, n), Grows(m, n, "put"), n.acts = m.acts
  PROVE  NoDeletes(n)
<1>1. DOMAIN m.queue = 1 .. Len(m.queue)
  BY QueueFacts
<1>2. DOMAIN n.queue = 1 .. Len(n.queue) /\ \A i \in 1 .. Len(m.queue) : n.queue[i] = m.queue[i]
  BY QueueFacts DEF Extends
<1> QED
  BY <1>1, <1>2 DEF NoDeletes, Grows

LEMMA PrepareSafe ==
  ASSUME Inv, Preserving, NEW d \in Device, Prepare(d)
  PROVE  Preserving'
<1> DEFINE s == ses[d]
           m == mem[d]
           t == Enter(s, "upload")
           n == WithUploads(s, m)
<1>1. /\ s.pc = "prepare" /\ UNCHANGED <<canon, disk, vault, kept, past, made>>
      /\ Session(d, t, n, Ops(s, {"upload"}) # {})
  BY DEF Prepare, At, users
<1>2. /\ PlainOK(s) /\ PhaseOK(s) /\ UploadsOK(s, m.base) /\ FilesOK(s.l) /\ DOMAIN s = Fields
  BY <1>1, Works
<1>3. s.got = <<>> /\ s.at = Nil /\ s.ret # "delete"
  BY <1>1, <1>2 DEF PhaseOK, BeforeDownload, Resolution
<1>4. n.base = m.base /\ NoDeletes(n)
  <2> DEFINE U == Ops(s, {"upload"})
  <2>1. U \in SUBSET AllPath /\ \A p \in U : s.l[p] \in Content
    BY <1>2, FileOf DEF Ops
  <2>2. DurOK(m) /\ m.obs \in Nat
    BY DeviceFacts DEF Durable
  <2>3. n = EnqueueEach(m, "put", Unput(m, U, s.l), s.l, m.obs)
    BY DEF WithUploads, Unput
  <2> HIDE DEF U, n
  <2>4. AllPut(m, n, U, s.l)
    BY <2>1, <2>2, <2>3, PutsEnsured
  <2> QED
    BY <2>2, <2>4, Knows, NoNewDeletes DEF AllPut
<1>5. Keeps(s, t, {"pc", "todo"}) /\ NextUpload(s, t)
  BY <1>2, Entered
<1> HIDE DEF t, n
<1>6. /\ t.got = s.got /\ t.at = s.at /\ t.ret = s.ret /\ t.rejected = s.rejected /\ t.bad = s.bad
      /\ t.plan = s.plan /\ t.r = s.r /\ t.l = s.l /\ t.why = s.why /\ Keeps(s, t, Moves)
  BY <1>5, KeepsMore DEF Keeps, Fields, Moves
<1>7. t.pc \in {"upload", "download", "settle"}
  BY <1>5 DEF NextUpload, NextDownload
<1>8. PhaseOK(t)
  BY <1>3, <1>6, <1>7 DEF PhaseOK, Resolution
<1>9. UploadsOK(t, m.base)
  <2>1. t.pc = "upload" => t.todo = Ops(s, {"upload"})
    BY <1>5 DEF NextUpload, NextDownload
  <2> QED
    BY <1>1, <1>2, <1>6, <1>7, <2>1 DEF UploadsOK, Sendable, Ops
<1>10. ReadOK(t, vault[d], disk)
  BY <1>3, <1>6, <1>7, NoGot DEF ReadOK, Resolution
<1>11. \A p \in AllPath : Open(s, p) => Open(t, p)
  <2> SUFFICES ASSUME NEW p \in AllPath, Open(s, p) PROVE Open(t, p)
    OBVIOUS
  <2>1. s.plan[p] = "upload" => t.pc = "upload" /\ p \in t.todo
    BY <1>5 DEF NextUpload, NextDownload, Ops
  <2>2. s.plan[p] = "download" => t.pc = "upload" \/ (t.pc = "download" /\ p \in t.todo)
    BY <1>5 DEF NextUpload, NextDownload, Ops
  <2>3. s.plan[p] \in {"upload", "download", "conflict"}
    BY DEF Open
  <2> QED
    BY <1>6, <1>7, <2>1, <2>2, <2>3 DEF Open
<1>13. t.bad \/ (~s.bad /\ \A p \in AllPath : Open(s, p) => Open(t, p))
  BY <1>6, <1>11
<1> QED
  BY <1>1, <1>4, <1>6, <1>7, <1>8, <1>9, <1>10, <1>13, OnwardSafe DEF Late

LEMMA SettleSafe ==
  ASSUME Inv, Preserving, NEW d \in Device, Settle(d)
  PROVE  Preserving'
<1> DEFINE s == ses[d]
           m == mem[d]
           q == [i \in DOMAIN m.queue |->
                    IF Superseded(s, m.queue[i]) THEN Settled(m.queue[i]) ELSE m.queue[i]]
           t == Enter(s, "delete")
           n == [m EXCEPT !.queue = q]
<1>1. /\ s.pc = "settle" /\ UNCHANGED <<canon, disk, vault, kept, past, made>>
      /\ Session(d, t, n, q # m.queue)
  BY DEF Settle, At, users
<1>2. PlainOK(s) /\ PhaseOK(s) /\ DOMAIN s = Fields
  BY <1>1, Works
<1>3. s.at = Nil /\ s.ret # "delete"
  BY <1>1, <1>2 DEF PhaseOK, Resolution
<1>4. n.base = m.base /\ NoDeletes(n)
  <2>1. m \in Durable /\ NoDeletes(m)
    BY DeviceFacts, Knows
  <2>2. \A i \in DOMAIN q : q[i].kind # "delete"
    <3> SUFFICES ASSUME NEW i \in DOMAIN m.queue
                 PROVE  (IF Superseded(s, m.queue[i]) THEN Settled(m.queue[i]) ELSE m.queue[i]).kind
                           # "delete"
      OBVIOUS
    <3>1. m.queue[i].kind # "delete" /\ m.queue[i] \in MutationType
      BY <2>1, DeviceFacts, QueueFacts DEF NoDeletes
    <3>2. Settled(m.queue[i]).kind = "noop"
      BY <3>1 DEF Settled, MutationType
    <3> QED
      BY <3>1, <3>2
  <2> HIDE DEF q
  <2>3. n.queue = q /\ n.base = m.base /\ n.acts = m.acts
    BY <2>1 DEF Durable
  <2> QED
    BY <2>1, <2>2, <2>3 DEF NoDeletes
<1>5. Keeps(s, t, {"pc", "todo"}) /\ NextResolution(s, t)
  BY <1>2, Entered
<1> HIDE DEF t, n, q
<1>6. /\ t.at = s.at /\ t.ret = s.ret /\ t.rejected = s.rejected /\ t.bad = s.bad
      /\ t.plan = s.plan /\ Keeps(s, t, Moves)
  BY <1>5, KeepsMore DEF Keeps, Fields, Moves
<1>7. t.pc = "conflict" \/ (t.pc = "final" /\ t.todo = {})
  BY <1>5 DEF NextResolution
<1>8. PhaseOK(t) /\ UploadsOK(t, m.base) /\ ReadOK(t, vault[d], disk)
  BY <1>3, <1>6, <1>7 DEF PhaseOK, Resolution, BeforeDownload, UploadsOK, ReadOK
<1>9. \A p \in AllPath : Open(s, p) => Open(t, p)
  <2> SUFFICES ASSUME NEW p \in AllPath, Open(s, p) PROVE Open(t, p)
    OBVIOUS
  <2>1. s.plan[p] = "conflict"
    BY <1>1 DEF Open
  <2>2. p \in t.todo
    BY <1>5, <2>1 DEF NextResolution, Ops
  <2> QED
    BY <1>6, <2>1, <2>2 DEF Open
<1>10. t.bad \/ (~s.bad /\ \A p \in AllPath : Open(s, p) => Open(t, p))
  BY <1>6, <1>9
<1> QED
  BY <1>1, <1>4, <1>6, <1>7, <1>8, <1>10, OnwardSafe DEF Late

----------------------------------------------------------------------------
(* No edit is lost: conflicts left for later, and the end of a session.    *)

NextIs(s, t) ==
  /\ Keeps(s, t, Moves) /\ t.at = Nil /\ t.ret = s.ret /\ t.rejected = s.rejected
  /\ (t.pc = "final" /\ t.todo = {}) \/ t.pc = "conflict"

LEMMA NextConflictIs ==
  ASSUME NEW s, DOMAIN s = Fields, NEW u, Keeps(s, u, Moves), u.ret = s.ret, u.rejected = s.rejected,
         NEW t, t = NextConflict(u)
  PROVE  NextIs(s, t) /\ t.todo = u.todo /\ t.bad = u.bad
<1> DEFINE pc == IF u.todo = {} THEN "final" ELSE "conflict"
<1>1. DOMAIN u = Fields
  BY DEF Keeps
<1>2. t = [u EXCEPT !.at = Nil, !.got = <<>>, !.pc = pc]
  BY DEF NextConflict
<1> HIDE DEF pc
<1>3. /\ t.at = Nil /\ t.pc = pc /\ t.todo = u.todo /\ t.bad = u.bad /\ t.ret = u.ret
      /\ t.rejected = u.rejected /\ DOMAIN t = Fields
      /\ \A x \in Fields \ Moves : t[x] = u[x]
  BY <1>1, <1>2 DEF Fields, Moves
<1>4. Keeps(s, t, Moves)
  BY <1>3 DEF Keeps
<1> QED
  BY <1>3, <1>4 DEF NextIs, pc

LEMMA NextFitsIn ==
  ASSUME Inv, Preserving, NEW d \in Device, ses[d].pc # "idle", NEW t, NextIs(ses[d], t)
  PROVE  PhaseOK(t) /\ UploadsOK(t, mem[d].base) /\ ReadOK(t, vault[d], disk)
<1>1. ses[d].ret # "delete"
  BY Works DEF PhaseOK
<1> QED
  BY <1>1 DEF NextIs, PhaseOK, UploadsOK, ReadOK, Resolution, BeforeDownload

\* A conflict that is not resolved is left, and the session will not succeed.
LEMMA LeaveSafe ==
  ASSUME Inv, Preserving, NEW d \in Device, ses[d].pc \in {"conflict", "commit", "apply"},
         NEW t, NextIs(ses[d], t), t.bad, NEW save, Session(d, t, mem[d], save),
         UNCHANGED <<canon, disk, vault, kept, past, made>>
  PROVE  Preserving'
<1>1. PhaseOK(t) /\ UploadsOK(t, mem[d].base) /\ ReadOK(t, vault[d], disk)
  BY NextFitsIn
<1>2. /\ Keeps(ses[d], t, Moves) /\ t.rejected \subseteq ses[d].rejected
      /\ t.pc \in {"final", "conflict"}
  BY DEF NextIs
<1> QED
  BY <1>1, <1>2, Knows, OnwardSafe DEF Late, Resolution

LEMMA ResolveFailsSafe ==
  ASSUME Inv, Preserving, NEW d \in Device, NEW p \in AllPath, ResolveFails(d, p)
  PROVE  Preserving'
<1> DEFINE s == ses[d]
           u == [s EXCEPT !.todo = s.todo \ {p}, !.bad = TRUE]
           t == NextConflict(u)
<1>1. /\ s.pc = "conflict" /\ Session(d, t, mem[d], FALSE)
      /\ UNCHANGED <<canon, disk, vault, kept, past, made>>
  BY DEF ResolveFails, At, users
<1>2. DOMAIN s = Fields
  BY <1>1, Works
<1>3. Keeps(s, u, Moves) /\ u.ret = s.ret /\ u.rejected = s.rejected /\ u.bad = TRUE
  BY <1>2 DEF Keeps, Fields, Moves
<1> HIDE DEF u
<1>4. NextIs(s, t) /\ t.bad
  BY <1>2, <1>3, NextConflictIs
<1> HIDE DEF t
<1> QED
  BY <1>1, <1>4, LeaveSafe

LEMMA ConflictFailsSafe ==
  ASSUME Inv, Preserving, NEW d \in Device, ses[d].pc \in {"commit", "apply"}, ConflictFails(d)
  PROVE  Preserving'
<1> DEFINE s == ses[d]
           u == [s EXCEPT !.bad = TRUE]
           t == NextConflict(u)
<1>1. CASE s.why = "planned"
  <2>1. Session(d, t, mem[d], FALSE) /\ UNCHANGED <<canon, disk, vault, kept, past, made>>
    BY <1>1 DEF ConflictFails, users
  <2>2. DOMAIN s = Fields
    BY Works
  <2>3. Keeps(s, u, Moves) /\ u.ret = s.ret /\ u.rejected = s.rejected /\ u.bad = TRUE
    BY <2>2 DEF Keeps, Fields, Moves
  <2> HIDE DEF u
  <2>4. NextIs(s, t) /\ t.bad
    BY <2>2, <2>3, NextConflictIs
  <2> HIDE DEF t
  <2> QED
    BY <2>1, <2>4, LeaveSafe
<1>2. CASE s.why # "planned"
  <2>1. Fail(d)
    BY <1>2 DEF ConflictFails
  <2> QED
    BY <2>1, FailSafe
<1> QED
  BY <1>1, <1>2

LEMMA FailuresSafe ==
  ASSUME Inv, Preserving, NEW d \in Device,
         \/ VerifyFails(d) \/ TransferFailed(d) \/ CommitFails(d) \/ ApplyFails(d)
         \/ FinalStale(d) \/ Unfinished(d)
  PROVE  Preserving'
<1>1. CASE VerifyFails(d) \/ Unfinished(d)
  BY <1>1, FailSafe DEF VerifyFails, Unfinished, At
<1>2. CASE TransferFailed(d) \/ FinalStale(d)
  BY <1>2, FailSafe DEF TransferFailed, FinalStale, At
<1>3. CASE CommitFails(d)
  <2>1. ses[d].pc = "commit" /\ (ConflictFails(d) \/ Fail(d))
    BY <1>3 DEF CommitFails, At
  <2> QED
    BY <2>1, FailSafe, ConflictFailsSafe
<1>4. CASE ApplyFails(d)
  BY <1>4, ConflictFailsSafe DEF ApplyFails, At
<1> QED
  BY <1>1, <1>2, <1>3, <1>4

\* The last deletions are none.
LEMMA LastSafe ==
  ASSUME Inv, Preserving, NEW d \in Device, ses[d].pc \in {"final", "cleanup"}, NEW m, NEW save,
         NEW t, t = [ses[d] EXCEPT !.pc = "physical", !.ret = "finish", !.todo = {}],
         Session(d, t, m, save), m.base = mem[d].base, NoDeletes(m),
         UNCHANGED <<canon, disk, vault, kept, past, made>>
  PROVE  Preserving'
<1> DEFINE s == ses[d]
<1>1. DOMAIN s = Fields /\ s.at = Nil /\ s.todo = {}
  BY Works DEF PhaseOK, Resolution, AloneAt
<1>2. /\ Keeps(s, t, Moves) /\ t.pc = "physical" /\ t.ret = "finish" /\ t.todo = {}
      /\ t.at = Nil /\ t.rejected = s.rejected /\ t.plan = s.plan /\ t.bad = s.bad
      /\ t.why = s.why
  BY <1>1 DEF Keeps, Fields, Moves
<1>3. PhaseOK(t) /\ UploadsOK(t, mem[d].base) /\ ReadOK(t, vault[d], disk)
  BY <1>2 DEF PhaseOK, UploadsOK, ReadOK, Resolution, BeforeDownload
<1>4. \A p \in AllPath : Open(s, p) => Open(t, p)
  BY <1>1, <1>2 DEF Open
<1>5. t.bad \/ (~s.bad /\ \A p \in AllPath : Open(s, p) => Open(t, p))
  BY <1>2, <1>4
<1> QED
  BY <1>2, <1>3, <1>5, OnwardSafe DEF Late

\* What is left of a queue without deletions has none.
LEMMA RestNothing ==
  ASSUME NEW m, DurOK(m), NoDeletes(m), NEW mark \in Nat
  PROVE  \A i \in DOMAIN Unconfirmed(m, mark) : Unconfirmed(m, mark)[i].kind # "delete"
<1> DEFINE k == Accepted(m, mark)
           q == Unconfirmed(m, mark)
<1>1. /\ k \in 0 .. Len(m.queue) /\ q \in Seq(MutationType)
      /\ Len(q) = Len(m.queue) - k
      /\ \A i \in 1 .. Len(m.queue) - k : q[i] = m.queue[k + i]
  BY RestFacts
<1>2. DOMAIN m.queue = 1 .. Len(m.queue) /\ Len(m.queue) \in Nat
  BY QueueFacts
<1> HIDE DEF k, q
<1>3. DOMAIN q = 1 .. Len(q)
  BY <1>1
<1>4. \A i \in DOMAIN q : k + i \in DOMAIN m.queue /\ q[i] = m.queue[k + i]
  BY <1>1, <1>2, <1>3
<1>5. \A i \in DOMAIN q : q[i].kind # "delete"
  BY <1>4 DEF NoDeletes
<1> QED
  BY <1>5 DEF q

LEMMA ConfirmSafe ==
  ASSUME Inv, Preserving, NEW d \in Device, Confirm(d)
  PROVE  Preserving'
<1> DEFINE s == ses[d]
           n == Reduced(mem[d], s.want.wm[d])
           t == [s EXCEPT !.pc = "physical", !.ret = "finish", !.todo = {}]
<1>1. s.pc = "cleanup" /\ UNCHANGED <<canon, disk, vault, kept, past, made>>
  BY DEF Confirm, At, users
<1>2. s.ret # "delete" /\ s.want.wm[d] \in Nat
  BY <1>1, Works, IndexMarks DEF PhaseOK
<1>3. DurOK(mem[d]) /\ NoDeletes(mem[d])
  BY DeviceFacts, Knows
<1>4. DurOK(n) /\ n.base = mem[d].base /\ n.acts = mem[d].acts
  BY <1>2, <1>3, Confirmation
<1>5. n.queue = Unconfirmed(mem[d], s.want.wm[d])
  BY <1>3 DEF Reduced, DurOK, Durable
<1>6. NoDeletes(n)
  <2> DEFINE q == Unconfirmed(mem[d], s.want.wm[d])
  <2>1. \A i \in DOMAIN q : q[i].kind # "delete"
    BY <1>2, <1>3, RestNothing
  <2> HIDE DEF q
  <2> QED
    BY <1>3, <1>4, <1>5, <2>1 DEF NoDeletes, q
<1>7. Session(d, [s EXCEPT !.pc = "physical", !.ret = "finish", !.todo = n.acts], n, TRUE)
  <2> HIDE DEF n
  <2>1. IF s.ret = "delete"
        THEN Session(d, [s EXCEPT !.pc = "delete", !.early = TRUE,
                                  !.todo = Stored(WithActs(n, {[a EXCEPT !.fp = Nil] : a \in
                                     AllActs(s, {p \in Ops(s, DeleteKinds) : Dead(s.want.files[p])})}),
                                     AllActs(s, {p \in Ops(s, DeleteKinds) : Dead(s.want.files[p])}))],
                     WithActs(n, {[a EXCEPT !.fp = Nil] : a \in
                                     AllActs(s, {p \in Ops(s, DeleteKinds) : Dead(s.want.files[p])})}),
                     TRUE)
        ELSE Session(d, [s EXCEPT !.pc = "physical", !.ret = "finish", !.todo = n.acts], n, TRUE)
    BY Zenon DEF Confirm, n, Reduced
  <2> QED
    BY <1>2, <2>1
<1> HIDE DEF n
<1>8. Session(d, t, n, TRUE)
  BY <1>3, <1>4, <1>7 DEF NoDeletes
<1> QED
  BY <1>1, <1>4, <1>6, <1>8, LastSafe

LEMMA FinalSafe ==
  ASSUME Inv, Preserving, NEW d \in Device, FinalUnchanged(d) \/ FinalChanged(d)
  PROVE  Preserving'
<1> DEFINE s == ses[d]
           m == mem[d]
           t == [s EXCEPT !.pc = "physical", !.ret = "finish", !.todo = {}]
           u == [s EXCEPT !.pc = "commit", !.ret = "finish"]
<1>1. s.pc = "final" /\ UNCHANGED <<canon, disk, vault, kept, past, made>>
  BY DEF FinalUnchanged, FinalChanged, At, users
<1>2. m.acts = {} /\ NoDeletes(m)
  BY Knows DEF NoDeletes
<1>3. CASE FinalUnchanged(d)
  <2>1. Session(d, t, m, ~s.early)
    BY <1>2, <1>3 DEF FinalUnchanged
  <2> QED
    BY <1>1, <1>2, <2>1, LastSafe
<1>4. CASE FinalChanged(d)
  <2>1. DOMAIN s = Fields /\ s.at = Nil /\ s.todo = {} /\ s.early = FALSE
    BY <1>1, Works DEF PhaseOK, Resolution, PlainOK, AloneAt
  <2>2. Session(d, u, m, FALSE)
    BY <1>4, <2>1 DEF FinalChanged
  <2>3. /\ Keeps(s, u, Moves) /\ u.pc = "commit" /\ u.ret = "finish" /\ u.todo = {}
        /\ u.at = Nil /\ u.rejected = s.rejected /\ u.plan = s.plan /\ u.bad = s.bad
        /\ u.why = s.why
    BY <2>1 DEF Keeps, Fields, Moves
  <2> HIDE DEF u
  <2>4. PhaseOK(u) /\ UploadsOK(u, m.base) /\ ReadOK(u, vault[d], disk)
    BY <2>3 DEF PhaseOK, UploadsOK, ReadOK, Resolution, BeforeDownload
  <2>5. \A p \in AllPath : Open(s, p) => Open(u, p)
    BY <1>1, <2>1, <2>3 DEF Open
  <2>6. u.bad \/ (~s.bad /\ \A p \in AllPath : Open(s, p) => Open(u, p))
    BY <2>3, <2>5
  <2> QED
    BY <1>1, <1>2, <2>2, <2>3, <2>4, <2>6, OnwardSafe DEF Late
<1> QED
  BY <1>3, <1>4

\* A put that lost is taken up: what the plan leaves to do does not depend on it.
LEMMA RejectedPutSafe ==
  ASSUME Inv, Preserving, NEW d \in Device, RejectedPut(d)
  PROVE  Preserving'
<1> DEFINE s == ses[d]
<1>1. s.pc = "cleanup" /\ UNCHANGED <<canon, disk, vault, kept, past, made>>
  BY DEF RejectedPut, At, users
<1>2. DOMAIN s = Fields /\ s.at = Nil /\ s.todo = {} /\ s.ret # "delete" /\ FilesOK(s.l)
  BY <1>1, Works DEF PhaseOK, Resolution, AloneAt
<1>3. PICK x \in s.rejected :
         LET u == [s EXCEPT !.rejected = @ \ {x}]
         IN  IF vault[d][x.path] = Nil THEN Session(d, u, mem[d], FALSE)
             ELSE Session(d, [u EXCEPT !.at = x.path, !.why = "rejected", !.pc = "copy",
                                       !.l[x.path] = vault[d][x.path]], mem[d], FALSE)
  BY DEF RejectedPut
<1> DEFINE R == s.rejected \ {x}
           k == [s.l EXCEPT ![x.path] = vault[d][x.path]]
           t == [s EXCEPT !.rejected = R]
           u == [s EXCEPT !.rejected = R, !.at = x.path, !.why = "rejected", !.pc = "copy", !.l = k]
<1>4. CASE vault[d][x.path] = Nil
  <2>1. Session(d, t, mem[d], FALSE)
    BY <1>2, <1>3, <1>4 DEF Fields
  <2>2. /\ Keeps(s, t, Moves) /\ t.pc = "cleanup" /\ t.ret = s.ret /\ t.todo = s.todo
        /\ t.at = s.at /\ t.rejected = R /\ t.plan = s.plan /\ t.bad = s.bad /\ t.why = s.why
    BY <1>1, <1>2 DEF Keeps, Fields, Moves
  <2> HIDE DEF t
  <2>3. PhaseOK(t) /\ UploadsOK(t, mem[d].base) /\ ReadOK(t, vault[d], disk)
    BY <1>2, <2>2 DEF PhaseOK, UploadsOK, ReadOK, Resolution, BeforeDownload
  <2>4. \A p \in AllPath : Open(s, p) => Open(t, p)
    BY <1>1, <2>2 DEF Open
  <2>5. t.bad \/ (~s.bad /\ \A p \in AllPath : Open(s, p) => Open(t, p))
    BY <2>2, <2>4
  <2> QED
    BY <1>1, <2>1, <2>2, <2>3, <2>5, Knows, OnwardSafe DEF Late
<1>5. CASE vault[d][x.path] # Nil
  <2>1. Session(d, u, mem[d], FALSE)
    <3>1. Session(d, [[s EXCEPT !.rejected = @ \ {x}]
                        EXCEPT !.at = x.path, !.why = "rejected", !.pc = "copy",
                               !.l[x.path] = vault[d][x.path]], mem[d], FALSE)
      BY <1>3, <1>5
    <3>2. [[s EXCEPT !.rejected = @ \ {x}]
             EXCEPT !.at = x.path, !.why = "rejected", !.pc = "copy",
                    !.l[x.path] = vault[d][x.path]] = u
      BY <1>2 DEF Fields
    <3> QED
      BY <3>1, <3>2
  <2> HIDE DEF k
  <2>2. /\ Keeps(s, u, Moves) /\ u.pc = "copy" /\ u.ret = s.ret /\ u.todo = s.todo
        /\ u.at = x.path /\ u.rejected = R /\ u.plan = s.plan /\ u.bad = s.bad
        /\ u.why = "rejected"
    BY <1>1, <1>2 DEF Keeps, Fields, Moves
  <2> HIDE DEF u
  <2>3. PhaseOK(u) /\ UploadsOK(u, mem[d].base) /\ ReadOK(u, vault[d], disk)
    BY <1>2, <2>2 DEF PhaseOK, UploadsOK, ReadOK, Resolution, BeforeDownload
  <2>4. \A p \in AllPath : Open(s, p) => Open(u, p)
    BY <1>1, <1>2, <2>2, NilIsNothing DEF Open
  <2>5. u.bad \/ (~s.bad /\ \A p \in AllPath : Open(s, p) => Open(u, p))
    BY <2>2, <2>4
  <2> QED
    BY <1>1, <2>1, <2>2, <2>3, <2>5, Knows, OnwardSafe DEF Late
<1> QED
  BY <1>3, <1>4, <1>5

----------------------------------------------------------------------------
(* No edit is lost: a session that starts, and its scans.                  *)

LEMMA NoDeletions ==
  ASSUME NEW d, NEW s, DOMAIN s = Fields, IndexOK(s.want), NEW m, NEW t,
         t = WithDeletions(d, s, m, {})
  PROVE  /\ Keeps(s, t, {"want", "from"})
         /\ \A p \in AllPath : t.want.files[p] = s.want.files[p]
<1> DEFINE N == {p \in {} : ~Dead(s.want.files[p])}
           last(p) == LastOf(m, Deletes(m, p))
           f == [p \in AllPath |-> IF p \in N
                                   THEN Tombstone(d, s.want.files[p], m.base[p], last(p).seq)
                                   ELSE s.want.files[p]]
           g == Over(s.from, [p \in N |-> last(p).base])
           v == [s.want EXCEPT !.files = f]
<1>1. t = [s EXCEPT !.want = v, !.from = g]
  BY DEF WithDeletions, Fields
<1>2. \A p \in AllPath : f[p] = s.want.files[p]
  OBVIOUS
<1> HIDE DEF f, g
<1>3. v.files = f
  BY DEF IndexOK, Index
<1> HIDE DEF v
<1>4. Keeps(s, t, {"want", "from"}) /\ t.want = v
  BY <1>1 DEF Keeps, Fields
<1> QED
  BY <1>2, <1>3, <1>4

LEMMA LoadSafe ==
  ASSUME Inv, Preserving, NEW d \in Device, Load(d), Overlapping = FALSE
  PROVE  Preserving'
<1> DEFINE m == mem[d]
           rest == [m EXCEPT !.queue = Unconfirmed(m, canon.wm[d]), !.next = Floor(m, canon.wm[d])]
           gone == {p \in AllPath : Deletes(rest, p) # {}}
           n == WithDeadBaselines(rest, gone)
           pc == IF m.acts = {} THEN "scan" ELSE "physical"
           had == m.queue # <<>> \/ m.acts # {}
           s == [Idle EXCEPT !.pc = pc, !.load = canon, !.want = canon, !.had = had,
                             !.todo = m.acts, !.ret = "scan"]
           t == WithDeletions(d, s, rest, gone)
<1>1. /\ \E save : Session(d, t, n, save)
      /\ UNCHANGED <<canon, disk, vault, kept, past, made>>
      /\ \A e \in Device : ses[e] = Idle
  BY DEF Load, users
<1>2. /\ m \in Durable /\ DurOK(m) /\ canon.wm[d] \in Nat /\ IndexOK(canon)
      /\ NoDeletes(m) /\ m.acts = {}
  BY DeviceFacts, Knows DEF NoDeletes
<1>3. DurOK(rest) /\ NoDeletes(rest) /\ rest.base = m.base /\ rest.acts = {}
  <2> DEFINE mark == canon.wm[d]
             q == Unconfirmed(m, mark)
  <2>1. rest = Reloaded(m, mark)
    BY DEF Reloaded
  <2>2. mark \in Nat /\ DurOK(m) /\ NoDeletes(m) /\ m.acts = {}
    BY <1>2
  <2>3. rest.queue = q
    BY <1>2 DEF Durable
  <2>4. \A i \in DOMAIN q : q[i].kind # "delete"
    <3> HIDE DEF mark, m
    <3> QED
      BY <2>2, RestNothing
  <2> HIDE DEF rest, mark, m, q
  <2>5. DurOK(rest) /\ rest.acts = m.acts /\ rest.base = m.base
    BY <2>1, <2>2, Reloading
  <2> QED
    BY <2>2, <2>3, <2>4, <2>5 DEF NoDeletes
<1> HIDE DEF rest
<1>4. gone = {}
  BY <1>3 DEF NoDeletes, Deletes
<1>5. NoDeletes(n) /\ \A p \in AllPath : n.base[p] = m.base[p]
  <2>1. n = WithDeadBaselines(rest, {})
    BY <1>4
  <2>2. n.queue = rest.queue /\ n.acts = rest.acts
    <3> HIDE DEF gone
    <3> QED
      BY <1>3, DeadBases
  <2>3. \A p \in AllPath : n.base[p] = rest.base[p]
    <3> DEFINE f == [p \in AllPath |-> IF p \in {} THEN DeadBaseline(rest.base[p]) ELSE rest.base[p]]
    <3>1. n = [rest EXCEPT !.base = f]
      BY <1>3, <2>1 DEF WithDeadBaselines, DurOK, Durable
    <3>2. \A p \in AllPath : f[p] = rest.base[p]
      OBVIOUS
    <3> HIDE DEF f, n
    <3>3. n.base = f
      BY <1>3, <3>1 DEF DurOK, Durable
    <3> QED
      BY <3>2, <3>3
  <2> HIDE DEF n
  <2> QED
    BY <1>3, <2>2, <2>3 DEF NoDeletes
<1>6. /\ DOMAIN s = Fields /\ s.pc = "scan" /\ s.want = canon /\ s.todo = {} /\ s.ret = "scan"
      /\ s.stamped = {} /\ s.plan = EmptyPlan /\ s.got = <<>> /\ s.rejected = {} /\ s.at = Nil
      /\ s.early = FALSE
  <2>1. pc = "scan"
    BY <1>2
  <2> HIDE DEF pc, had
  <2> QED
    BY <1>2, <2>1 DEF Idle, Fields
<1>7. Keeps(s, t, {"want", "from"}) /\ \A p \in AllPath : t.want.files[p] = canon.files[p]
  <2>1. t = WithDeletions(d, s, rest, {}) /\ IndexOK(s.want)
    BY <1>2, <1>4, <1>6
  <2> HIDE DEF s, t
  <2> QED
    BY <1>6, <2>1, NoDeletions
<1> HIDE DEF s, t, n, gone
<1>8. /\ t.pc = "scan" /\ t.ret = "scan" /\ t.stamped = {} /\ t.plan = EmptyPlan /\ t.got = <<>>
      /\ t.rejected = {} /\ t.at = Nil /\ t.early = FALSE
  BY <1>6, <1>7 DEF Keeps, Fields
<1>9. Working(t, n.base, vault[d], disk, Lost)
  <2>1. WantOK(t, disk, Lost)
    BY <1>7, Knows DEF WantOK, Written, Printed
  <2>2. PlainOK(t)
    BY <1>8 DEF PlainOK, EmptyPlan, DeleteKinds
  <2>3. PhaseOK(t)
    BY <1>8 DEF PhaseOK, Resolution
  <2>4. ScanOK(t, n.base, vault[d], disk, Lost) /\ UploadsOK(t, n.base) /\ ReadOK(t, vault[d], disk)
        /\ DoneOK(t, vault[d], disk, Lost)
    BY <1>8 DEF ScanOK, UploadsOK, ReadOK, DoneOK, Late, Resolution
  <2> QED
    BY <2>1, <2>2, <2>3, <2>4 DEF Working
<1>10. Based(n.base, vault[d], disk, Lost)
  BY <1>5, Knows DEF Based
<1> DEFINE k == saved'[d]
<1>11. PICK save : Session(d, t, n, save)
  BY <1>1
<1>12. /\ ses' = [ses EXCEPT ![d] = t] /\ mem' = [mem EXCEPT ![d] = n]
       /\ k = n \/ k = saved[d]
       /\ \A e \in Device \ {d} : saved'[e] = saved[e]
  BY <1>11 DEF Session, Inv, ShapesOK
<1>13. Lost' = Lost /\ Spares(disk, disk', Lost') /\ Spares(vault[d], vault'[d], Lost')
  BY <1>1, SparesSelf DEF Lost
<1>14. Based(k.base, vault'[d], disk', Lost') /\ NoDeletes(k)
  BY <1>1, <1>5, <1>10, <1>12, <1>13 DEF Preserving, Keeping
<1>15. saved'[d] = k
  OBVIOUS
<1> HIDE DEF k
<1>16. Written(canon'.files, disk', Lost') /\ Printed(canon'.files)
  BY <1>1, <1>13 DEF Preserving
<1>17. Based(n.base, vault'[d], disk', Lost') /\ Working(t, n.base, vault'[d], disk', Lost')
  BY <1>1, <1>9, <1>10, <1>13
<1> QED
  BY <1>1, <1>5, <1>12, <1>13, <1>14, <1>15, <1>16, <1>17, SafeStep

\* Before its plan a session works with the index it has loaded and its scans.
LEMMA EarlyWork ==
  ASSUME NEW s, NEW t, NEW b, NEW v, NEW k, NEW L, WantOK(s, k, L), PlainOK(s), PhaseOK(s),
         s.pc \in {"scan", "list", "local", "verify"}, t.pc \in {"list", "local", "verify", "plan"},
         t.want.files = s.want.files, t.stamped = s.stamped, t.early = s.early, t.plan = s.plan,
         t.rejected = s.rejected, t.ret = s.ret, t.at = s.at, t.got = s.got, ScanOK(t, b, v, k, L)
  PROVE  Working(t, b, v, k, L)
<1>1. WantOK(t, k, L)
  BY DEF WantOK, Sent
<1>2. PlainOK(t)
  BY DEF PlainOK
<1>3. s.at = Nil /\ s.got = <<>> /\ s.ret # "delete"
  BY DEF PhaseOK, Resolution, BeforeDownload
<1>4. PhaseOK(t)
  BY <1>3 DEF PhaseOK, Resolution
<1>5. UploadsOK(t, b) /\ ReadOK(t, v, k) /\ DoneOK(t, v, k, L)
  BY DEF UploadsOK, ReadOK, DoneOK, Late, Resolution
<1> QED
  BY <1>1, <1>2, <1>4, <1>5 DEF Working

LEMMA ScannedSafe ==
  ASSUME Inv, Preserving, NEW d \in Device, ses[d].pc \in {"scan", "list", "local"},
         NEW pc \in {"list", "local", "verify"}, NEW l, NEW r, NEW t,
         t = [ses[d] EXCEPT !.pc = pc, !.l = l, !.r = r], Session(d, t, mem[d], FALSE),
         UNCHANGED <<canon, disk, vault, kept, past, made>>,
         pc \in {"local", "verify"} => \A p \in AllPath : r[p] = disk[p],
         pc \in {"list", "verify"} => \A p \in AllPath :
            /\ mem[d].base[p] # None => l[p] # Nil
            /\ l[p] # Nil => vault[d][p] # Nil
            /\ Spare(l[p], Lost) \/ vault[d][p] = l[p]
  PROVE  Preserving'
<1> DEFINE s == ses[d]
<1>1. /\ WantOK(s, disk, Lost) /\ PlainOK(s) /\ PhaseOK(s) /\ DOMAIN s = Fields
      /\ Based(mem[d].base, vault[d], disk, Lost) /\ NoDeletes(mem[d])
  BY Works, Knows
<1>2. /\ t.pc = pc /\ t.l = l /\ t.r = r /\ t.want = s.want /\ t.stamped = s.stamped
      /\ t.early = s.early /\ t.plan = s.plan /\ t.rejected = s.rejected /\ t.ret = s.ret
      /\ t.at = s.at /\ t.got = s.got
  BY <1>1 DEF Fields
<1>3. ScanOK(t, mem[d].base, vault[d], disk, Lost)
  BY <1>2 DEF ScanOK
<1>4. Working(t, mem[d].base, vault[d], disk, Lost)
  BY <1>1, <1>2, <1>3, EarlyWork, ZenonT(40)
<1> QED
  BY <1>1, <1>4, SafeMove

LEMMA ScanSafe ==
  ASSUME Inv, Preserving, NEW d \in Device, ScanLocal(d) \/ ListRemote(d)
  PROVE  Preserving'
<1> DEFINE s == ses[d]
<1>1. /\ s.pc \in {"scan", "list", "local"} /\ DOMAIN s = Fields
      /\ UNCHANGED <<canon, disk, vault, kept, past, made>>
  BY Works DEF ScanLocal, ListRemote, users
<1>2. /\ s.pc = "local" => \A p \in AllPath : s.r[p] = disk[p]
      /\ s.pc = "list" => \A p \in AllPath :
            /\ mem[d].base[p] # None => s.l[p] # Nil
            /\ s.l[p] # Nil => vault[d][p] # Nil
            /\ Spare(s.l[p], Lost) \/ vault[d][p] = s.l[p]
  BY <1>1, Works DEF ScanOK
<1>3. CASE ScanLocal(d)
  <2>1. \A p \in AllPath : mem[d].base[p] # None => vault[d][p] # Nil
    BY Knows DEF Based
  <2>2. PICK pc \in {"list", "verify"} :
           Session(d, [s EXCEPT !.pc = pc, !.l = vault[d]], mem[d], FALSE)
             /\ (pc = "verify" => s.pc = "local")
    BY <1>1, <1>3 DEF ScanLocal, Fields
  <2> DEFINE t == [s EXCEPT !.pc = pc, !.l = vault[d], !.r = s.r]
  <2>3. t = [s EXCEPT !.pc = pc, !.l = vault[d]]
    BY <1>1 DEF Fields
  <2>4. Session(d, t, mem[d], FALSE)
    BY <2>2, <2>3
  <2>5. t = [s EXCEPT !.pc = pc, !.l = vault[d], !.r = s.r]
    OBVIOUS
  <2> HIDE DEF t
  <2> QED
    BY <1>1, <1>2, <2>1, <2>2, <2>4, <2>5, ScannedSafe, ZenonT(40)
<1>4. CASE ListRemote(d)
  <2>1. PICK pc \in {"local", "verify"} :
           Session(d, [s EXCEPT !.pc = pc, !.r = disk], mem[d], FALSE)
             /\ (pc = "verify" => s.pc = "list")
    BY <1>1, <1>4 DEF ListRemote, Fields
  <2> DEFINE t == [s EXCEPT !.pc = pc, !.l = s.l, !.r = disk]
  <2>2. t = [s EXCEPT !.pc = pc, !.r = disk]
    BY <1>1 DEF Fields
  <2>3. Session(d, t, mem[d], FALSE)
    BY <2>1, <2>2
  <2>4. t = [s EXCEPT !.pc = pc, !.l = s.l, !.r = disk]
    OBVIOUS
  <2> HIDE DEF t
  <2> QED
    BY <1>1, <1>2, <2>1, <2>3, <2>4, ScannedSafe
<1> QED
  BY <1>3, <1>4

LEMMA VerifySafe ==
  ASSUME Inv, Preserving, NEW d \in Device, Verify(d)
  PROVE  Preserving'
<1> DEFINE s == ses[d]
           r == [p \in AllPath |-> IF Unverified(s, p) THEN disk[p] ELSE s.r[p]]
           N == {p \in AllPath : Stamped(s, p)}
           f == [p \in AllPath |-> IF Stamped(s, p) THEN [s.want.files[p] EXCEPT !.fp = disk[p]]
                                   ELSE s.want.files[p]]
           t == [s EXCEPT !.r = r, !.stamped = N, !.want = [s.want EXCEPT !.files = f], !.pc = "plan"]
<1>1. s.pc = "verify" /\ UNCHANGED <<canon, disk, vault, kept, past, made>>
  BY DEF Verify, At, users
<1>2. /\ WantOK(s, disk, Lost) /\ PlainOK(s) /\ PhaseOK(s) /\ DOMAIN s = Fields /\ IndexOK(s.want)
      /\ ScanOK(s, mem[d].base, vault[d], disk, Lost)
      /\ Based(mem[d].base, vault[d], disk, Lost) /\ NoDeletes(mem[d])
  BY <1>1, Works, Knows
<1>3. Session(d, t, mem[d], FALSE)
  <2>1. Session(d, [Verified(s) EXCEPT !.pc = "plan"], mem[d], FALSE)
    BY DEF Verify
  <2>2. [Verified(s) EXCEPT !.pc = "plan"] = t
    <3>1. Verified(s) = [s EXCEPT !.r = r, !.stamped = N, !.want = [s.want EXCEPT !.files = f]]
      BY <1>2 DEF Verified, Fields
    <3> HIDE DEF r, N, f
    <3> QED
      BY <1>2, <3>1 DEF Fields
  <2> QED
    BY <2>1, <2>2
<1>4. ASSUME NEW p \in AllPath PROVE ~Stamped(s, p) /\ r[p] = disk[p]
  <2>1. s.r[p] = disk[p] /\ (s.want.files[p] # None => s.want.files[p].fp = s.want.files[p].sha)
    BY <1>1, <1>2 DEF ScanOK, WantOK, Sent
  <2> QED
    BY <2>1 DEF Stamped, Unverified
<1>5. N = {} /\ (\A p \in AllPath : f[p] = s.want.files[p]) /\ f = s.want.files
  <2>1. s.want.files = [p \in AllPath |-> s.want.files[p]]
    BY <1>2 DEF IndexOK, Index
  <2> QED
    BY <1>4, <2>1
<1> HIDE DEF r, N, f
<1>6. /\ t.pc = "plan" /\ t.l = s.l /\ t.r = r /\ t.stamped = N
      /\ t.early = s.early /\ t.plan = s.plan /\ t.rejected = s.rejected /\ t.ret = s.ret
      /\ t.at = s.at /\ t.got = s.got /\ t.want.files = s.want.files
  BY <1>2, <1>5 DEF Fields, IndexOK, Index
<1> HIDE DEF t
<1>7. t.stamped = s.stamped
  BY <1>2, <1>5, <1>6 DEF PlainOK
<1>8. ScanOK(t, mem[d].base, vault[d], disk, Lost)
  BY <1>1, <1>2, <1>4, <1>6 DEF ScanOK
<1>9. Working(t, mem[d].base, vault[d], disk, Lost)
  BY <1>1, <1>2, <1>6, <1>7, <1>8, EarlyWork
<1> QED
  BY <1>1, <1>2, <1>3, <1>9, SafeMove

----------------------------------------------------------------------------
(* No edit is lost: the plan.                                              *)

\* What is decided about a path without deletions.
LEMMA Decisions ==
  ASSUME NEW l, NEW r, NEW b, NEW c, NEW x, b # None => l # Nil,
         c # None => c.dead # TRUE /\ r # Nil /\ c.fp = c.sha
  PROVE  LET D == Decide(l, r, r, b, c, x)
         IN  /\ D \in {"none", "upload", "download", "conflict"}
             /\ D = "none" => r = Nil \/ l = r
             /\ D = "upload" => r = Nil \/ (b # None /\ b.sha = r /\ l # r)
<1> DEFINE D == Decide(l, r, r, b, c, x)
<1>1. ~Dead(c)
  BY DEF Dead
<1>2. CASE l # Nil /\ r # Nil
  <2>1. D = Compare(l, r, r, b, c)
    BY <1>1, <1>2 DEF Decide
  <2>2. CASE l = r
    BY <2>1, <2>2 DEF Compare
  <2>3. CASE l # r /\ b = None
    <3>1. D = IF c # None /\ l = c.sha /\ ~Drifted(r, r, c) THEN "none" ELSE "conflict"
      BY <2>1, <2>3 DEF Compare
    <3> QED
      BY <1>2, <2>3, <3>1 DEF Drifted
  <2>4. CASE l # r /\ b # None
    <3> DEFINE local  == l # b.sha
               remote == Changed(c, b) \/ Drifted(r, r, c)
    <3>1. D = IF local THEN IF remote THEN "conflict" ELSE "upload"
              ELSE IF remote THEN "download" ELSE "none"
      BY <2>1, <2>4 DEF Compare
    <3>2. ~remote => c # None /\ c.sha = b.sha /\ r = b.sha
      BY DEF Changed, Drifted
    <3> HIDE DEF remote
    <3> QED
      BY <2>4, <3>1, <3>2
  <2> QED
    BY <2>2, <2>3, <2>4
<1>3. CASE l # Nil /\ r = Nil
  <2>1. D = "upload"
    BY <1>1, <1>3 DEF Decide
  <2> QED
    BY <1>3, <2>1
<1>4. CASE l = Nil /\ r # Nil
  <2>1. D = "download"
    BY <1>1, <1>4 DEF Decide
  <2> QED
    BY <2>1
<1>5. CASE l = Nil /\ r = Nil
  <2>1. D = "none"
    BY <1>1, <1>5 DEF Decide
  <2> QED
    BY <1>5, <2>1
<1> QED
  BY <1>2, <1>3, <1>4, <1>5

\* What the plan of a session says.
PlannedOK(s, b, k) ==
  \A p \in AllPath :
     /\ s.r[p] = k[p]
     /\ s.plan[p] \in {"none", "upload", "download", "conflict"}
     /\ s.plan[p] = "none" => k[p] = Nil \/ s.l[p] = k[p]
     /\ s.plan[p] = "upload" => Sendable(s, b, p)

LEMMA PlanIs ==
  ASSUME Inv, Preserving, NEW d \in Device, ses[d].pc = "plan", NEW m, m.base = mem[d].base,
         NEW s, s.l = ses[d].l, s.r = ses[d].r, s.plan = PlanOf(ses[d], m)
  PROVE  PlannedOK(s, mem[d].base, disk)
<1> SUFFICES ASSUME NEW p \in AllPath
             PROVE  /\ s.r[p] = disk[p]
                    /\ s.plan[p] \in {"none", "upload", "download", "conflict"}
                    /\ s.plan[p] = "none" => disk[p] = Nil \/ s.l[p] = disk[p]
                    /\ s.plan[p] = "upload" => Sendable(s, mem[d].base, p)
  BY DEF PlannedOK
<1> DEFINE z == ses[d]
           c == z.want.files[p]
           b == m.base[p]
           D == Planned(z, m, p)
<1>1. /\ WantOK(z, disk, Lost) /\ ScanOK(z, mem[d].base, vault[d], disk, Lost)
  BY Works
<1>2. z.r[p] = disk[p] /\ (b # None => z.l[p] # Nil)
  BY <1>1 DEF ScanOK
<1>3. c # None => c.dead # TRUE /\ z.r[p] # Nil /\ c.fp = c.sha
  BY <1>1, <1>2 DEF WantOK, Written, Sent
<1>4. TakenFor(z, p) = z.r[p]
  BY <1>3 DEF TakenFor, Live
<1>5. D = Decide(z.l[p], z.r[p], z.r[p], b, c, Deleting(m, p))
  BY <1>4 DEF Planned
<1>6. /\ D \in {"none", "upload", "download", "conflict"}
      /\ D = "none" => z.r[p] = Nil \/ z.l[p] = z.r[p]
      /\ D = "upload" => z.r[p] = Nil \/ (b # None /\ b.sha = z.r[p] /\ z.l[p] # z.r[p])
  <2> DEFINE l == z.l[p]
             r == z.r[p]
             x == Deleting(m, p)
  <2>1. D = Decide(l, r, r, b, c, x)
    BY <1>5
  <2>2. (b # None => l # Nil) /\ (c # None => c.dead # TRUE /\ r # Nil /\ c.fp = c.sha)
    BY <1>2, <1>3
  <2> HIDE DEF D, c, b, l, r, x
  <2>3. /\ D \in {"none", "upload", "download", "conflict"}
        /\ D = "none" => r = Nil \/ l = r
        /\ D = "upload" => r = Nil \/ (b # None /\ b.sha = r /\ l # r)
    BY <2>1, <2>2, Decisions
  <2> QED
    BY <2>3 DEF l, r
<1>7. s.plan[p] = D
  <2>1. ~Moot(z, m, p)
    BY <1>6 DEF Moot
  <2> QED
    BY <2>1 DEF PlanOf
<1> HIDE DEF D
<1> QED
  BY <1>2, <1>6, <1>7 DEF Sendable

\* The puts that the plan finds confirmed in the desired index.
Claiming(d, s, m, t) ==
  /\ Keeps(s, t, {"want", "from", "stamped"}) /\ t.stamped \subseteq s.stamped
  /\ \A p \in AllPath :
        IF p \in Confirming(s)
        THEN t.want.files[p] =
               PutEntry(d, LastOf(m, PutsOf(m, p, s.l[p])), s.l[p], FALSE, Nil, s.r[p])
        ELSE t.want.files[p] = s.want.files[p]

LEMMA ClaimsWritten ==
  ASSUME NEW d, NEW s, DOMAIN s = Fields, IndexOK(s.want), NEW m, NEW t, t = Canonicalised(d, s, m)
  PROVE  Claiming(d, s, m, t)
<1> DEFINE x(p) == LastOf(m, PutsOf(m, p, s.l[p]))
           N == Confirming(s)
           f == [p \in AllPath |-> IF p \in N THEN PutEntry(d, x(p), s.l[p], FALSE, Nil, s.r[p])
                                   ELSE s.want.files[p]]
           v == [s.want EXCEPT !.files = f]
           g == Over(s.from, [p \in N |-> x(p).base])
           S == s.stamped \ N
<1>1. t = [s EXCEPT !.want = v, !.from = g, !.stamped = S]
  BY DEF Canonicalised, Fields
<1>2. \A p \in AllPath : f[p] = IF p \in N THEN PutEntry(d, x(p), s.l[p], FALSE, Nil, s.r[p])
                                ELSE s.want.files[p]
  <2> HIDE DEF x, N
  <2> QED
    BY Zenon
<1>3. S \subseteq s.stamped
  OBVIOUS
<1> HIDE DEF f, g, S, N
<1>4. v.files = f
  BY DEF IndexOK, Index
<1> HIDE DEF v
<1>5. Keeps(s, t, {"want", "from", "stamped"}) /\ t.want = v /\ t.stamped = S
  BY <1>1 DEF Keeps, Fields
<1>6. \A p \in AllPath :
        IF p \in Confirming(s)
        THEN t.want.files[p] =
               PutEntry(d, LastOf(m, PutsOf(m, p, s.l[p])), s.l[p], FALSE, Nil, s.r[p])
        ELSE t.want.files[p] = s.want.files[p]
  BY <1>2, <1>4, <1>5 DEF N
<1> QED
  BY <1>3, <1>5, <1>6 DEF Claiming

\* The session that has made the plan, with the baselines it confirms.
LEMMA PlanWork ==
  ASSUME Inv, Preserving, NEW d \in Device, ses[d].pc = "plan", NEW s, DOMAIN s = Fields,
         Keeps(ses[d], s, {"plan", "pc"}), s.pc = "prepare", PlannedOK(s, mem[d].base, disk),
         NEW m, m.base = mem[d].base, NEW n, Confirms(s, m, n), NEW q, NEW t,
         t = Canonicalised(d, s, q)
  PROVE  Working(t, n.base, vault[d], disk, Lost) /\ Based(n.base, vault[d], disk, Lost)
<1> DEFINE z == ses[d]
<1>1. /\ WantOK(z, disk, Lost) /\ PlainOK(z) /\ PhaseOK(z) /\ IndexOK(z.want)
      /\ ScanOK(z, mem[d].base, vault[d], disk, Lost)
      /\ Based(mem[d].base, vault[d], disk, Lost)
  BY Works, Knows
<1>2. /\ s.want = z.want /\ s.l = z.l /\ s.stamped = z.stamped /\ s.early = z.early
      /\ s.rejected = z.rejected /\ s.ret = z.ret /\ s.at = z.at /\ s.got = z.got
  BY DEF Keeps, Fields
<1>3. /\ Keeps(s, t, {"want", "from", "stamped"}) /\ t.stamped \subseteq s.stamped
      /\ \A p \in AllPath :
            IF p \in Confirming(s)
            THEN t.want.files[p] =
                   PutEntry(d, LastOf(q, PutsOf(q, p, s.l[p])), s.l[p], FALSE, Nil, s.r[p])
            ELSE t.want.files[p] = s.want.files[p]
  <2>1. Claiming(d, s, q, t)
    BY <1>1, <1>2, ClaimsWritten
  <2> QED
    BY <2>1 DEF Claiming
<1>4. /\ t.pc = "prepare" /\ t.l = s.l /\ t.r = s.r /\ t.plan = s.plan /\ t.early = z.early
      /\ t.rejected = z.rejected /\ t.ret = z.ret /\ t.at = z.at /\ t.got = z.got
  BY <1>2, <1>3 DEF Keeps, Fields
<1>5. \A p \in AllPath : /\ s.l[p] # Nil => vault[d][p] # Nil
                         /\ Spare(s.l[p], Lost) \/ vault[d][p] = s.l[p]
  BY <1>1, <1>2 DEF ScanOK
<1>6. \A p \in AllPath : Agreed(s, p) => s.l[p] = disk[p] /\ s.l[p] # Nil /\ s.r[p] = disk[p]
  BY DEF Agreed, PlannedOK
<1>7. Based(n.base, vault[d], disk, Lost)
  <2> SUFFICES ASSUME NEW p \in AllPath, n.base[p] # None
               PROVE  /\ vault[d][p] # Nil
                      /\ n.base[p].sha \in Lost \/ (disk[p] = n.base[p].sha /\ vault[d][p] = n.base[p].sha)
    BY DEF Based
  <2>1. CASE Agreed(s, p)
    <3>1. n.base[p].sha = s.l[p]
      <4>1. n.base[p] = Confirmed(s.l[p], s.want.files[p])
        BY <2>1 DEF Confirms
      <4> QED
        BY <4>1 DEF Confirmed
    <3> QED
      BY <1>5, <1>6, <2>1, <3>1 DEF Spare
  <2>2. CASE ~Agreed(s, p)
    BY <1>1, <2>2 DEF Confirms, Based
  <2> QED
    BY <2>1, <2>2
<1>8. WantOK(t, disk, Lost)
  <2> SUFFICES ASSUME NEW p \in AllPath, t.want.files[p] # None
               PROVE  /\ t.want.files[p].dead # TRUE /\ disk[p] # Nil
                      /\ t.want.files[p].sha \in Lost \/ disk[p] = t.want.files[p].sha
                      /\ t.want.files[p].fp = t.want.files[p].sha
    BY DEF WantOK, Written
  <2>1. CASE p \in Confirming(s)
    <3>1. /\ t.want.files[p].sha = s.l[p] /\ t.want.files[p].dead = FALSE
          /\ t.want.files[p].fp = s.r[p]
      <4>1. PICK x : t.want.files[p] = PutEntry(d, x, s.l[p], FALSE, Nil, s.r[p])
        BY <1>3, <2>1
      <4> QED
        BY <4>1 DEF PutEntry
    <3> QED
      BY <1>6, <2>1, <3>1 DEF Confirming
  <2>2. CASE p \notin Confirming(s)
    BY <1>1, <1>2, <1>3, <2>2, ZenonT(40) DEF WantOK, Written, Sent
  <2> QED
    BY <2>1, <2>2
<1>9. PlainOK(t)
  BY <1>1, <1>2, <1>3, <1>4 DEF PlainOK, PlannedOK, DeleteKinds
<1>10. PhaseOK(t)
  <2>1. z.at = Nil /\ z.got = <<>> /\ z.ret # "delete"
    BY <1>1 DEF PhaseOK, Resolution, BeforeDownload
  <2> QED
    BY <1>4, <2>1 DEF PhaseOK, Resolution
<1>11. UploadsOK(t, n.base)
  <2> SUFFICES ASSUME NEW p \in AllPath, s.plan[p] = "upload" PROVE Sendable(t, n.base, p)
    BY <1>4 DEF UploadsOK
  <2>1. Sendable(s, mem[d].base, p) /\ n.base[p] = mem[d].base[p]
    BY DEF PlannedOK, Agreed, Confirms
  <2> QED
    BY <1>4, <2>1 DEF Sendable
<1>12. DoneOK(t, vault[d], disk, Lost)
  <2> SUFFICES ASSUME NEW p \in AllPath
               PROVE  Spare(disk[p], Lost) \/ vault[d][p] = disk[p] \/ Open(t, p)
    BY DEF DoneOK
  <2>1. CASE s.plan[p] = "none"
    BY <1>5, <2>1 DEF PlannedOK, Spare
  <2>2. CASE s.plan[p] # "none"
    BY <1>4, <2>2 DEF PlannedOK, Open
  <2> QED
    BY <2>1, <2>2
<1>13. ScanOK(t, n.base, vault[d], disk, Lost) /\ ReadOK(t, vault[d], disk)
  BY <1>4 DEF ScanOK, ReadOK, Resolution
<1> QED
  BY <1>7, <1>8, <1>9, <1>10, <1>11, <1>12, <1>13 DEF Working

LEMMA PlanSafe ==
  ASSUME Inv, Preserving, NEW d \in Device, Plan(d)
  PROVE  Preserving'
<1> DEFINE z == ses[d]
           m == Remaining(d)
           plan == PlanOf(z, m)
           s == [z EXCEPT !.plan = plan, !.pc = "prepare"]
           n == WithConfirmed(s, m)
           t == Canonicalised(d, s, n)
           k == saved'[d]
<1>1. /\ z.pc = "plan" /\ UNCHANGED <<canon, disk, vault, kept, past, made>>
      /\ ses' = [ses EXCEPT ![d] = t] /\ mem' = [mem EXCEPT ![d] = n]
      /\ saved' = [saved EXCEPT ![d] = IF n.next > m.next THEN n
                                        ELSE IF m # mem[d] THEN m ELSE saved[d]]
  BY DEF Plan, At, users
<1>2. /\ k = n \/ k = m \/ k = saved[d]
      /\ \A e \in Device \ {d} : saved'[e] = saved[e]
  <2> HIDE DEF n, m
  <2> QED
    BY <1>1 DEF Inv, ShapesOK
<1>3. DOMAIN z = Fields /\ FilesOK(z.l) /\ IndexOK(z.want)
  BY <1>1, Works
<1>4. m.base = mem[d].base /\ NoDeletes(m) /\ DurOK(m)
  BY RemainingNothing, RemainingExtends, ExtendsChains
<1> HIDE DEF m
<1>5. Keeps(z, s, {"plan", "pc"}) /\ s.pc = "prepare" /\ s.plan = plan /\ DOMAIN s = Fields
  <2> HIDE DEF plan
  <2> QED
    BY <1>3 DEF Keeps, Fields
<1>6. s.l = z.l /\ s.r = z.r /\ s.want = z.want
  BY <1>5 DEF Keeps, Fields
<1>7. PlannedOK(s, mem[d].base, disk)
  <2> HIDE DEF s
  <2> QED
    BY <1>1, <1>4, <1>5, <1>6, PlanIs
<1> HIDE DEF s, plan
<1>8. Extends(m, n) /\ Confirms(s, m, n)
  BY <1>3, <1>4, <1>6, ConfirmedExtends
<1> HIDE DEF n
<1>9. NoDeletes(n)
  BY <1>4, <1>8, NoNewDeletes DEF Confirms
<1>10. Working(t, n.base, vault[d], disk, Lost) /\ Based(n.base, vault[d], disk, Lost)
  <2> HIDE DEF t
  <2>1. t = Canonicalised(d, s, n)
    BY DEF t
  <2> QED
    BY <1>1, <1>4, <1>5, <1>7, <1>8, <2>1, PlanWork
<1> HIDE DEF t
<1>11. Lost' = Lost /\ Spares(disk, disk', Lost') /\ Spares(vault[d], vault'[d], Lost')
  BY <1>1, SparesSelf DEF Lost
<1>12. Based(k.base, vault'[d], disk', Lost') /\ NoDeletes(k)
  BY <1>1, <1>2, <1>4, <1>9, <1>10, <1>11, Knows DEF Preserving, Keeping
<1>13. saved'[d] = k
  OBVIOUS
<1> HIDE DEF k
<1>14. Written(canon'.files, disk', Lost') /\ Printed(canon'.files)
  BY <1>1, <1>11 DEF Preserving
<1>15. Based(n.base, vault'[d], disk', Lost') /\ Working(t, n.base, vault'[d], disk', Lost')
  BY <1>1, <1>10, <1>11
<1>16. \A e \in Device \ {d} : ses[e] = Idle
  BY <1>1, IdleFields DEF Preserving, Alone
<1> QED
  BY <1>1, <1>2, <1>9, <1>11, <1>12, <1>13, <1>14, <1>15, <1>16, SafeStep

----------------------------------------------------------------------------
(* No edit is lost: uploads.                                               *)

\* What an upload replaces is spare.
LEMMA UploadReplaces ==
  ASSUME Inv, Preserving, NEW d \in Device, NEW p \in AllPath, ses[d].pc = "upload",
         p \in ses[d].todo, MayUpload(d, p), disk' = [disk EXCEPT ![p] = ses[d].l[p]]
  PROVE  /\ Sets(disk, disk', p, ses[d].l[p]) /\ Spares(disk, disk', Lost)
         /\ ses[d].l[p] # Nil /\ vault[d][p] = ses[d].l[p]
<1> DEFINE s == ses[d]
           b == mem[d].base
<1>1. s.l[p] # Nil
  BY Works DEF PlaceOK, TodoOK, Puttable
<1>2. vault[d][p] = s.l[p] /\ disk[p] = s.r[p]
  BY DEF MayUpload
<1>3. Sendable(s, b, p)
  BY Works DEF UploadsOK
<1>4. Spare(disk[p], Lost)
  BY <1>2, <1>3, Knows DEF Sendable, Based, Spare
<1>5. Sets(disk, disk', p, s.l[p])
  BY FilesStay DEF FilesOK, Sets
<1> QED
  BY <1>1, <1>2, <1>4, <1>5, SparesOne

\* An upload whose reply is lost: the session will not succeed.
LEMMA UploadLostSafe ==
  ASSUME Inv, Preserving, NEW d \in Device, NEW p \in AllPath, UploadLost(d, p)
  PROVE  Preserving'
<1> DEFINE s == ses[d]
           b == mem[d].base
           T == s.todo \ {p}
           t == [s EXCEPT !.todo = T, !.bad = TRUE]
<1>1. /\ s.pc = "upload" /\ p \in s.todo /\ MayUpload(d, p)
      /\ disk' = [disk EXCEPT ![p] = s.l[p]]
      /\ UNCHANGED <<canon, vault, kept, past, made>>
  BY DEF UploadLost, At, users
<1>2. Session(d, t, mem[d], FALSE)
  BY DEF UploadLost
<1>3. Sets(disk, disk', p, s.l[p]) /\ Spares(disk, disk', Lost)
  BY <1>1, UploadReplaces
<1>4. /\ Working(s, b, vault[d], disk, Lost) /\ DOMAIN s = Fields
  BY <1>1, Works
<1>5. /\ t.pc = "upload" /\ t.todo = T /\ t.bad = TRUE /\ t.want = s.want /\ t.from = s.from
      /\ t.stamped = s.stamped /\ t.early = s.early /\ t.rejected = s.rejected /\ t.plan = s.plan
      /\ t.ret = s.ret /\ t.at = s.at /\ t.why = s.why /\ t.got = s.got /\ t.r = s.r /\ t.l = s.l
  BY <1>1, <1>4 DEF Fields
<1> HIDE DEF t
<1>6. WantOK(t, disk', Lost)
  <2>1. Written(t.want.files, disk', Lost)
    BY <1>3, <1>4, <1>5, WrittenStays DEF Working, WantOK
  <2>2. ASSUME NEW q \in AllPath, Sent(s, q, disk) PROVE Sent(t, q, disk')
    BY <1>1, <1>3, <1>5, <2>2 DEF Sent, Sets
  <2> QED
    BY <1>4, <1>5, <2>1, <2>2 DEF Working, WantOK
<1>7. PlainOK(t) /\ PhaseOK(t)
  BY <1>1, <1>4, <1>5 DEF Working, PlainOK, PhaseOK, Resolution
<1>8. UploadsOK(t, b)
  BY <1>1, <1>4, <1>5 DEF Working, UploadsOK, Sendable
<1>9. ScanOK(t, b, vault[d], disk', Lost) /\ ReadOK(t, vault[d], disk') /\ DoneOK(t, vault[d], disk', Lost)
  BY <1>5 DEF ScanOK, ReadOK, DoneOK, Resolution
<1>10. Working(t, b, vault[d], disk', Lost)
  BY <1>6, <1>7, <1>8, <1>9 DEF Working
<1>11. Lost' = Lost /\ Spares(vault[d], vault'[d], Lost)
  BY <1>1, SparesSelf DEF Lost
<1>12. Written(canon'.files, disk', Lost') /\ Printed(canon'.files)
  BY <1>1, <1>3, <1>11, Knows, WrittenStays
<1>13. Based(b, vault'[d], disk', Lost') /\ NoDeletes(mem[d])
  BY <1>3, <1>11, Knows, BasedStays
<1> QED
  BY <1>1, <1>2, <1>3, <1>10, <1>11, <1>12, <1>13, SafeSession

LEMMA UploadSafe ==
  ASSUME Inv, Preserving, NEW d \in Device, NEW p \in AllPath, Upload(d, p)
  PROVE  Preserving'
<1> DEFINE s == ses[d]
           m == mem[d]
           w == s.want
           x == LastOf(m, PutsOf(m, p, s.l[p]))
           e == PutEntry(d, x, s.l[p], Nil, Nil, Nil)
           r == LastOf(m, Puts(m, p)).base
           v == [w EXCEPT !.files[p] = e]
           T == s.todo \ {p}
           h == With(s.from, p, r)
           t == [s EXCEPT !.todo = T, !.want = v, !.from = h]
           b == Transferred(s.l[p])
           n == [m EXCEPT !.base[p] = b]
<1>1. /\ s.pc = "upload" /\ p \in s.todo /\ MayUpload(d, p)
      /\ disk' = [disk EXCEPT ![p] = s.l[p]]
      /\ Session(d, [s EXCEPT !.todo = @ \ {p},
                              !.want.files[p] = PutEntry(d, x, s.l[p], Nil, Nil, Nil),
                              !.from = With(@, p, LastOf(mem[d], Puts(mem[d], p)).base)],
                 [mem[d] EXCEPT !.base[p] = Transferred(s.l[p])], FALSE)
      /\ UNCHANGED <<canon, vault, kept, past, made>>
  BY DEF Upload, At, users
<1>2. /\ Working(s, m.base, vault[d], disk, Lost) /\ DOMAIN s = Fields /\ IndexOK(w)
      /\ m \in Durable /\ NoDeletes(m)
  BY <1>1, Works, DeviceFacts, Knows
<1>3. Session(d, t, n, FALSE)
  <2> HIDE DEF x
  <2> QED
    BY <1>1, <1>2 DEF Fields
<1>4. /\ Sets(disk, disk', p, s.l[p]) /\ Spares(disk, disk', Lost)
      /\ s.l[p] # Nil /\ vault[d][p] = s.l[p]
  BY <1>1, UploadReplaces
<1>5. e.sha = s.l[p] /\ e.dead = Nil /\ e.fp = Nil
  BY DEF PutEntry
<1>6. b.sha = s.l[p]
  BY DEF Transferred
<1>7. p \in DOMAIN h /\ DOMAIN s.from \subseteq DOMAIN h
  BY DEF With, Over
<1> HIDE DEF e, h, x, b, r
<1>8. v.files[p] = e /\ \A q \in AllPath \ {p} : v.files[q] = w.files[q]
  BY <1>2 DEF IndexOK, Index
<1> HIDE DEF v, w
<1>9. /\ n.base[p] = b /\ (\A q \in AllPath \ {p} : n.base[q] = m.base[q])
      /\ n.queue = m.queue /\ n.acts = m.acts
  BY <1>2 DEF Durable
<1>10. NoDeletes(n)
  BY <1>2, <1>9 DEF NoDeletes
<1> HIDE DEF n
<1>11. /\ t.pc = "upload" /\ t.todo = T /\ t.want = v /\ t.from = h /\ t.bad = s.bad
       /\ t.stamped = s.stamped /\ t.early = s.early /\ t.rejected = s.rejected /\ t.plan = s.plan
       /\ t.ret = s.ret /\ t.at = s.at /\ t.why = s.why /\ t.got = s.got /\ t.r = s.r /\ t.l = s.l
  BY <1>1, <1>2 DEF Fields
<1> HIDE DEF t
<1>12. disk'[p] = s.l[p] /\ \A q \in AllPath \ {p} : disk'[q] = disk[q]
  BY <1>4 DEF Sets
<1>13. Based(n.base, vault[d], disk', Lost)
  <2>1. Based(m.base, vault[d], disk', Lost)
    BY <1>4, Knows, SparesSelf, BasedStays
  <2> QED
    BY <1>4, <1>6, <1>9, <1>12, <2>1 DEF Based
<1>14. WantOK(t, disk', Lost)
  <2>1. Written(w.files, disk', Lost)
    BY <1>2, <1>4, WrittenStays DEF Working, WantOK, w
  <2>2. Written(t.want.files, disk', Lost)
    <3>1. e.dead # TRUE /\ disk'[p] # Nil /\ disk'[p] = e.sha
      BY <1>4, <1>5, <1>12, NilIsNothing
    <3>2. t.want.files[p] = e /\ \A q \in AllPath \ {p} : t.want.files[q] = w.files[q]
      BY <1>8, <1>11
    <3> QED
      BY <2>1, <3>1, <3>2 DEF Written
  <2>3. Sent(t, p, disk')
    BY <1>5, <1>7, <1>8, <1>11, <1>12 DEF Sent
  <2>4. ASSUME NEW q \in AllPath \ {p}, Sent(s, q, disk) PROVE Sent(t, q, disk')
    BY <1>7, <1>8, <1>11, <1>12, <2>4 DEF Sent, w
  <2>5. ASSUME NEW q \in AllPath \ {p}, t.want.files[q] # None
        PROVE  t.want.files[q].fp = t.want.files[q].sha \/ Sent(t, q, disk')
    BY <1>2, <1>8, <1>11, <2>4, <2>5 DEF Working, WantOK, w
  <2> QED
    BY <2>2, <2>3, <2>5 DEF WantOK
<1>15. PlainOK(t) /\ PhaseOK(t)
  BY <1>1, <1>2, <1>11 DEF Working, PlainOK, PhaseOK, Resolution
<1>16. UploadsOK(t, n.base)
  <2> SUFFICES ASSUME NEW q \in T PROVE Sendable(t, n.base, q)
    BY <1>11 DEF UploadsOK
  <2>1. Sendable(s, m.base, q) /\ q \in AllPath
    BY <1>1, <1>2, Works DEF Working, UploadsOK, PlaceOK, TodoOK, Puttable
  <2> QED
    BY <1>9, <1>11, <2>1 DEF Sendable
<1>17. DoneOK(t, vault[d], disk', Lost)
  <2> SUFFICES ASSUME ~s.bad, NEW q \in AllPath
               PROVE  Spare(disk'[q], Lost) \/ vault[d][q] = disk'[q] \/ Open(t, q)
    BY <1>11 DEF DoneOK
  <2>1. CASE q = p
    BY <1>4, <1>12, <2>1
  <2>2. CASE q # p
    <3>1. Spare(disk[q], Lost) \/ vault[d][q] = disk[q] \/ Open(s, q)
      BY <1>1, <1>2 DEF Working, DoneOK, Late
    <3>2. Open(s, q) => Open(t, q)
      BY <1>1, <1>11, <2>2 DEF Open
    <3> QED
      BY <1>12, <2>2, <3>1, <3>2
  <2> QED
    BY <2>1, <2>2
<1>18. ScanOK(t, n.base, vault[d], disk', Lost) /\ ReadOK(t, vault[d], disk')
  BY <1>11 DEF ScanOK, ReadOK, Resolution
<1>19. Working(t, n.base, vault[d], disk', Lost)
  BY <1>14, <1>15, <1>16, <1>17, <1>18 DEF Working
<1>20. Lost' = Lost /\ Spares(vault[d], vault'[d], Lost)
  BY <1>1, SparesSelf DEF Lost
<1>21. Written(canon'.files, disk', Lost') /\ Printed(canon'.files)
  BY <1>1, <1>4, <1>20, Knows, WrittenStays
<1>22. Based(n.base, vault'[d], disk', Lost')
  BY <1>1, <1>13, <1>20
<1>23. t # Idle => Working(t, n.base, vault'[d], disk', Lost')
  BY <1>1, <1>19, <1>20
<1> QED
  BY <1>1, <1>3, <1>4, <1>10, <1>20, <1>21, <1>22, <1>23, SafeSession

\* The fingerprints that uploads get are those of what they have sent.
LEMMA StampSafe ==
  ASSUME Inv, Preserving, NEW d \in Device, Stamp(d)
  PROVE  Preserving'
<1> DEFINE s == ses[d]
           w == s.want
           N == Missing(s)
           f == [p \in AllPath |-> IF p \in N THEN [w.files[p] EXCEPT !.fp = disk[p]] ELSE w.files[p]]
           v == [w EXCEPT !.files = f]
           S == s.stamped \cup (N \ DOMAIN s.from)
           u == [s EXCEPT !.want = v, !.stamped = S]
           t == Enter(u, "download")
<1>1. /\ s.pc = "upload" /\ s.todo = {} /\ ~s.bad
      /\ UNCHANGED <<canon, disk, vault, kept, past, made>>
  BY DEF Stamp, At, users
<1>2. /\ WantOK(s, disk, Lost) /\ PlainOK(s) /\ PhaseOK(s) /\ DOMAIN s = Fields /\ IndexOK(w)
      /\ DoneOK(s, vault[d], disk, Lost)
      /\ Based(mem[d].base, vault[d], disk, Lost) /\ NoDeletes(mem[d])
  BY <1>1, Works, Knows
<1>3. Session(d, t, mem[d], FALSE)
  <2>1. [s EXCEPT !.want.files = [p \in AllPath |->
                                    IF p \in Missing(s) THEN [@[p] EXCEPT !.fp = disk[p]]
                                    ELSE @[p]],
                  !.stamped = @ \cup (Missing(s) \ DOMAIN s.from)] = u
    BY <1>2 DEF Fields
  <2>2. Session(d, Enter([s EXCEPT !.want.files = [p \in AllPath |->
                                     IF p \in Missing(s) THEN [@[p] EXCEPT !.fp = disk[p]]
                                     ELSE @[p]],
                                   !.stamped = @ \cup (Missing(s) \ DOMAIN s.from)], "download"),
                mem[d], FALSE)
    BY Zenon DEF Stamp
  <2> HIDE DEF u
  <2> QED
    BY <2>1, <2>2
<1>4. ASSUME NEW p \in N PROVE p \in DOMAIN s.from /\ w.files[p].sha = disk[p]
  <2>1. p \in AllPath /\ w.files[p] # None /\ w.files[p].fp = Nil
    BY DEF Missing, Live
  <2>2. disk[p] # Nil /\ (w.files[p].sha \in Lost \/ disk[p] = w.files[p].sha)
    BY <1>2, <2>1 DEF WantOK, Written
  <2>3. w.files[p].fp # w.files[p].sha
    BY <2>1, <2>2, NilIsNothing
  <2>4. Sent(s, p, disk)
    BY <1>2, <2>1, <2>3 DEF WantOK
  <2> QED
    BY <2>4 DEF Sent
<1>5. S = {}
  BY <1>2, <1>4 DEF PlainOK
<1>6. ASSUME NEW p \in AllPath
      PROVE  /\ f[p] = None <=> w.files[p] = None
             /\ w.files[p] # None => /\ f[p].fp = f[p].sha /\ f[p].sha = w.files[p].sha
                                     /\ f[p].dead = w.files[p].dead
  <2>1. CASE p \in N
    <3>1. w.files[p] \in Entry /\ w.files[p] # None
      BY <1>2, <2>1, EntryOf DEF Missing, Live
    <3>2. f[p] = [w.files[p] EXCEPT !.fp = disk[p]]
      BY <2>1
    <3>3. disk[p] \in Content
      BY FilesStay, FileOf
    <3> HIDE DEF f, N
    <3>4. f[p] \in Entry /\ f[p].fp = disk[p] /\ f[p].sha = w.files[p].sha
          /\ f[p].dead = w.files[p].dead
      BY <3>1, <3>2, <3>3 DEF Entry
    <3> QED
      BY <1>4, <2>1, <3>1, <3>4, NoneAssumption
  <2>2. CASE p \notin N
    <3>1. f[p] = w.files[p]
      BY <2>2
    <3>2. ASSUME w.files[p] # None PROVE w.files[p].fp = w.files[p].sha
      <4>1. Live(w.files[p]) /\ disk[p] # Nil
        BY <1>2, <3>2 DEF WantOK, Written, Live
      <4>2. w.files[p].fp # Nil
        BY <2>2, <4>1 DEF Missing
      <4> QED
        BY <1>2, <3>2, <4>2 DEF WantOK, Sent
    <3> QED
      BY <3>1, <3>2
  <2> QED
    BY <2>1, <2>2
<1> HIDE DEF f, S, N
<1>7. v.files = f
  BY <1>2 DEF IndexOK, Index
<1> HIDE DEF v
<1>8. /\ DOMAIN u = Fields /\ u.want = v /\ u.stamped = S /\ u.early = s.early
      /\ u.rejected = s.rejected /\ u.plan = s.plan /\ u.ret = s.ret /\ u.at = s.at
      /\ u.got = s.got /\ u.bad = s.bad /\ u.why = s.why
  BY <1>2 DEF Fields
<1>9. PlainOK(u)
  BY <1>2, <1>5, <1>8 DEF PlainOK
<1> HIDE DEF u
<1>10. Keeps(u, t, {"pc", "todo"}) /\ NextDownload(u, t)
  BY <1>8, <1>9, Entered
<1> HIDE DEF t
<1>11. /\ t.want = v /\ t.stamped = S /\ t.early = s.early /\ t.rejected = s.rejected
       /\ t.plan = s.plan /\ t.ret = s.ret /\ t.at = s.at /\ t.got = s.got /\ t.bad = s.bad
       /\ t.why = s.why
  BY <1>8, <1>10 DEF Keeps, Fields
<1>12. t.pc \in {"download", "settle"}
  BY <1>10 DEF NextDownload
<1>13. WantOK(t, disk, Lost)
  BY <1>2, <1>6, <1>7, <1>11 DEF WantOK, Written
<1>14. PlainOK(t)
  BY <1>2, <1>5, <1>11 DEF PlainOK
<1>15. s.at = Nil /\ s.got = <<>> /\ s.ret # "delete"
  BY <1>1, <1>2 DEF PhaseOK, Resolution, BeforeDownload
<1>16. PhaseOK(t)
  BY <1>11, <1>12, <1>15 DEF PhaseOK, Resolution, BeforeDownload
<1>17. ReadOK(t, vault[d], disk)
  BY <1>11, <1>12, <1>15, NoGot DEF ReadOK, Resolution
<1>18. DoneOK(t, vault[d], disk, Lost)
  <2> SUFFICES ASSUME NEW p \in AllPath
               PROVE  Spare(disk[p], Lost) \/ vault[d][p] = disk[p] \/ Open(t, p)
    BY DEF DoneOK
  <2>1. Spare(disk[p], Lost) \/ vault[d][p] = disk[p] \/ Open(s, p)
    BY <1>1, <1>2 DEF DoneOK, Late
  <2>2. ASSUME s.plan[p] = "download" PROVE Open(t, p)
    BY <1>8, <1>10, <1>11, <2>2 DEF NextDownload, Ops, Open
  <2>3. ASSUME s.plan[p] = "conflict" PROVE Open(t, p)
    BY <1>11, <1>12, <2>3 DEF Open
  <2> QED
    BY <1>1, <2>1, <2>2, <2>3 DEF Open
<1>19. ScanOK(t, mem[d].base, vault[d], disk, Lost) /\ UploadsOK(t, mem[d].base)
  BY <1>12 DEF ScanOK, UploadsOK
<1>20. Working(t, mem[d].base, vault[d], disk, Lost)
  BY <1>13, <1>14, <1>16, <1>17, <1>18, <1>19 DEF Working
<1>21. s.pc # "idle"
  BY <1>1
<1> QED
  BY <1>1, <1>2, <1>3, <1>20, <1>21, SafeMove

----------------------------------------------------------------------------
(* No edit is lost: content that is applied.                               *)

\* t is u with an entry of p for the content x.
Applied(u, t, p, x) ==
  /\ Keeps(u, t, {"want", "from", "stamped"}) /\ t.stamped \subseteq u.stamped
  /\ \A q \in AllPath \ {p} : t.want.files[q] = u.want.files[q]
  /\ t.want.files[p].dead # TRUE /\ t.want.files[p].sha = x /\ t.want.files[p].fp = x

\* n is m with a baseline of p for the content x.
Agrees(m, n, p, x) ==
  /\ n.base[p].sha = x /\ \A q \in AllPath \ {p} : n.base[q] = m.base[q]
  /\ NoDeletes(n)

LEMMA AgreesAt ==
  ASSUME NEW m, DurOK(m), NEW q, DurOK(q), q.base = m.base, NoDeletes(q), NEW p \in AllPath, NEW x,
         NEW b, b.sha = x, NEW n, n = [q EXCEPT !.base[p] = b]
  PROVE  Agrees(m, n, p, x)
<1>1. /\ n.base[p] = b /\ (\A y \in AllPath \ {p} : n.base[y] = m.base[y])
      /\ n.queue = q.queue /\ n.acts = q.acts
  BY DEF DurOK, Durable
<1> HIDE DEF Agrees
<1>2. NoDeletes(n)
  BY <1>1 DEF NoDeletes
<1> QED
  BY <1>1, <1>2 DEF Agrees

LEMMA AppliedPut ==
  ASSUME NEW u, DOMAIN u = Fields, IndexOK(u.want), NEW p \in AllPath, NEW e, e.dead # TRUE,
         NEW x, e.sha = x, e.fp = x, NEW d \in Device, NEW k \in Nat, NEW h, NEW S, S \subseteq u.stamped,
         NEW t, t = [u EXCEPT !.want.files[p] = e, !.want.wm[d] = Staged(@, k), !.from = h,
                              !.stamped = S]
  PROVE  Applied(u, t, p, x)
<1> DEFINE w == u.want
           v == [w EXCEPT !.files[p] = e, !.wm[d] = Staged(w.wm[d], k)]
<1>1. w \in [rev : Nat, files : [AllPath -> Entry \cup {None}], wm : [Device -> Nat]]
  BY DEF IndexOK, Index
<1>2. t = [u EXCEPT !.want = v, !.from = h, !.stamped = S]
  BY <1>1 DEF Fields
<1> HIDE DEF w
<1>3. v.files[p] = e /\ \A q \in AllPath \ {p} : v.files[q] = w.files[q]
  BY <1>1
<1> HIDE DEF v
<1>4. Keeps(u, t, {"want", "from", "stamped"}) /\ t.stamped = S /\ t.want = v
  BY <1>2 DEF Keeps, Fields
<1> QED
  BY <1>3, <1>4 DEF Applied, w

LEMMA ApplyIs ==
  ASSUME Inv, Preserving, NEW d \in Device, ses[d].pc \in {"download", "conflict", "apply"},
         NEW p \in AllPath, NEW content \in Content, content = disk[p],
         NEW u, Keeps(ses[d], u, Moves), Apply(d, u, p, content)
  PROVE  \E t, n : /\ Session(d, t, n, FALSE)
                   /\ Applied(u, t, p, content) /\ Agrees(mem[d], n, p, content)
<1> DEFINE m == mem[d]
           c == u.want.files[p]
           old == IF c = None THEN Nil ELSE c.sha
           q == EnsurePut(m, p, content, old, m.obs)
           x == LastOf(q, PutsOf(q, p, content))
<1>1. /\ u.want = ses[d].want /\ u.stamped = ses[d].stamped /\ DOMAIN u = Fields
      /\ IndexOK(u.want) /\ WantOK(ses[d], disk, Lost)
  BY Works DEF Keeps, Fields, Moves
<1>2. DurOK(m) /\ m.obs \in Nat /\ NoDeletes(m)
  BY DeviceFacts, Knows DEF Durable
<1>3. CASE Live(c) /\ c.sha = content
  <2> DEFINE b == Confirmed(content, c)
             n == [m EXCEPT !.base[p] = b]
  <2>1. Session(d, u, n, FALSE)
    BY <1>3 DEF Apply
  <2>2. c # None /\ c.dead # TRUE /\ c.sha = content /\ c.fp = c.sha
    BY <1>1, <1>3 DEF Live, WantOK, Sent
  <2>3. Applied(u, u, p, content)
    BY <1>1, <2>2 DEF Applied, Keeps
  <2>4. b.sha = content
    BY DEF Confirmed
  <2> HIDE DEF b
  <2>5. Agrees(m, n, p, content)
    BY <1>2, <2>4, AgreesAt
  <2> QED
    BY <2>1, <2>3, <2>5
<1>4. CASE ~(Live(c) /\ c.sha = content)
  <2> DEFINE e == PutEntry(d, x, content, Nil, Nil, disk[p])
             k == x.seq
             h == With(u.from, p, u.load.rev)
             S == u.stamped \ {p}
             t == [u EXCEPT !.want.files[p] = e, !.want.wm[d] = Staged(@, k), !.from = h,
                            !.stamped = S]
             b == Transferred(content)
             n == [q EXCEPT !.base[p] = b]
  <2>1. Session(d, t, n, FALSE)
    <3>1. Session(d, [u EXCEPT
                               !.want.files[p] = PutEntry(d, x, content, Nil, Nil, disk[p]),
                               !.want.wm[d] = Staged(@, x.seq),
                               !.from = With(@, p, u.load.rev),
                               !.stamped = @ \ {p}],
                        [q EXCEPT !.base[p] = Transferred(content)], FALSE)
      BY <1>4, Zenon DEF Apply
    <3>2. t = [u EXCEPT
                               !.want.files[p] = PutEntry(d, x, content, Nil, Nil, disk[p]),
                               !.want.wm[d] = Staged(@, x.seq),
                               !.from = With(@, p, u.load.rev),
                               !.stamped = @ \ {p}]
      <4> HIDE DEF x
      <4> QED
        BY <1>1 DEF Fields
    <3> HIDE DEF q, x
    <3> QED
      BY <3>1, <3>2
  <2>2. old \in Content
    BY <1>1, EntryOf, Numbers
  <2>3. /\ Extends(m, q) /\ Grows(m, q, "put") /\ PutsOf(q, p, content) # {}
        /\ q.base = m.base /\ q.acts = m.acts
    <3> HIDE DEF old
    <3> QED
      BY <1>2, <2>2, EnsurePutExtends
  <2> HIDE DEF q
  <2>4. DurOK(q) /\ NoDeletes(q)
    BY <1>2, <2>3, NoNewDeletes DEF Extends
  <2>5. k \in Nat
    <3>1. PutsOf(q, p, content) \in SUBSET DOMAIN q.queue
      BY DEF PutsOf, Puts
    <3> QED
      BY <2>3, <2>4, <3>1, LastIsOne
  <2>6. e.dead # TRUE /\ e.sha = content /\ e.fp = content
    BY NilIsNothing DEF PutEntry
  <2>7. b.sha = content
    BY DEF Transferred
  <2> HIDE DEF e, k, h, b, x
  <2>8. Agrees(m, n, p, content)
    BY <1>2, <2>3, <2>4, <2>7, AgreesAt
  <2>9. S \subseteq u.stamped
    OBVIOUS
  <2> HIDE DEF S, n
  <2>10. Applied(u, t, p, content)
    BY <1>1, <2>5, <2>6, <2>9, AppliedPut
  <2> HIDE DEF t
  <2> QED
    BY <2>1, <2>8, <2>10
<1> QED
  BY <1>3, <1>4

\* What content that is applied replaces has a copy, or is in a baseline.
LEMMA ApplyReplaces ==
  ASSUME Inv, Preserving, NEW d \in Device, NEW p \in AllPath, disk[p] # Nil, NEW u,
         Apply(d, u, p, disk[p]), UNCHANGED past
  PROVE  /\ Sets(vault[d], vault'[d], p, disk[p])
         /\ \A e \in Device \ {d} : vault'[e] = vault[e]
         /\ Lost \subseteq Lost' /\ Spares(vault[d], vault'[d], Lost')
<1> DEFINE x == disk[p]
           b == mem[d].base[p]
           K == Backup(d, p, x)
<1>1. /\ vault' = [vault EXCEPT ![d][p] = x] /\ kept' = kept \cup K
  BY Zenon DEF Apply
<1>2. Lost \subseteq Lost' /\ K \subseteq Lost'
  BY <1>1 DEF Lost
<1>3. Sets(vault[d], vault'[d], p, x) /\ \A e \in Device \ {d} : vault'[e] = vault[e]
  BY <1>1, DeviceFacts DEF Inv, ShapesOK, FilesOK, Sets
<1>4. Spare(vault[d][p], Lost') \/ vault[d][p] = x
  <2>1. \/ vault[d][p] \in {Nil, x} \/ vault[d][p] \in K
        \/ b # None /\ vault[d][p] = b.sha
    BY DEF Backup
  <2>2. ASSUME b # None, vault[d][p] = b.sha PROVE vault[d][p] \in Lost \/ vault[d][p] = x
    BY <2>2, Knows DEF Based
  <2> QED
    BY <1>2, <2>1, <2>2 DEF Spare
<1> HIDE DEF K
<1>5. Spares(vault[d], vault'[d], Lost')
  BY <1>3, <1>4, SparesOne
<1> QED
  BY <1>2, <1>3, <1>5

LEMMA ApplySafe ==
  ASSUME Inv, Preserving, NEW d \in Device, ses[d].pc \in {"download", "conflict", "apply"},
         NEW p \in AllPath, disk[p] # Nil, NEW u, Keeps(ses[d], u, Moves),
         Apply(d, u, p, disk[p]), UNCHANGED <<canon, disk, past, made>>,
         u.pc \in {"download", "conflict", "final", "cleanup"}, PhaseOK(u),
         u.pc = "download" => \A q \in DOMAIN u.got : u.got[q] = disk[q] /\ disk[q] # Nil,
         u.rejected \subseteq ses[d].rejected,
         u.bad \/ (~ses[d].bad /\ \A q \in AllPath \ {p} : Open(ses[d], q) => Open(u, q))
  PROVE  Preserving'
<1> DEFINE s == ses[d]
           m == mem[d]
           x == disk[p]
<1>1. s.pc # "idle" /\ s.pc # "upload" /\ s.pc \in Late
  BY DEF Late, Resolution
<1>2. x \in Content
  BY FilesStay, FileOf
<1>3. PICK t, n : Session(d, t, n, FALSE) /\ Applied(u, t, p, x) /\ Agrees(m, n, p, x)
  BY <1>2, ApplyIs
<1>4. /\ Sets(vault[d], vault'[d], p, x) /\ \A e \in Device \ {d} : vault'[e] = vault[e]
      /\ Lost \subseteq Lost' /\ Spares(vault[d], vault'[d], Lost')
  BY ApplyReplaces
<1>5. /\ Based(m.base, vault[d], disk, Lost) /\ Written(canon.files, disk, Lost) /\ Printed(canon.files)
      /\ WantOK(s, disk, Lost) /\ PlainOK(s) /\ DoneOK(s, vault[d], disk, Lost)
  BY <1>1, Works, Knows
<1>6. /\ Keeps(u, t, {"want", "from", "stamped"}) /\ t.stamped \subseteq u.stamped
      /\ (\A q \in AllPath \ {p} : t.want.files[q] = u.want.files[q])
      /\ t.want.files[p].dead # TRUE /\ t.want.files[p].sha = x /\ t.want.files[p].fp = x
  BY <1>3 DEF Applied
<1>7. n.base[p].sha = x /\ (\A q \in AllPath \ {p} : n.base[q] = m.base[q]) /\ NoDeletes(n)
  BY <1>3 DEF Agrees
<1>8. Spares(disk, disk', Lost')
  BY SparesSelf
<1>9. Written(canon'.files, disk', Lost') /\ Printed(canon'.files)
  BY <1>4, <1>5, <1>8, WrittenStays
<1>10. Based(n.base, vault'[d], disk', Lost')
  <2>1. Based(m.base, vault'[d], disk', Lost')
    BY <1>4, <1>5, <1>8, BasedStays
  <2>2. vault'[d][p] = x
    BY <1>4 DEF Sets
  <2> QED
    BY <1>7, <2>1, <2>2 DEF Based
<1>11. /\ u.want = s.want /\ u.stamped = s.stamped /\ u.plan = s.plan /\ u.early = s.early
  BY DEF Keeps, Moves, Fields
<1>12. /\ t.pc = u.pc /\ t.todo = u.todo /\ t.got = u.got /\ t.rejected = u.rejected /\ t.at = u.at
       /\ t.why = u.why /\ t.ret = u.ret /\ t.bad = u.bad /\ t.plan = u.plan /\ t.early = u.early
  BY <1>6 DEF Keeps, Fields
<1>13. WantOK(t, disk, Lost')
  <2>1. \A q \in AllPath : ~Sent(s, q, disk)
    BY <1>1 DEF Sent
  <2>2. ASSUME NEW q \in AllPath \ {p}, t.want.files[q] # None
        PROVE  /\ t.want.files[q].fp = t.want.files[q].sha
               /\ t.want.files[q].dead # TRUE /\ disk[q] # Nil
               /\ t.want.files[q].sha \in Lost' \/ disk[q] = t.want.files[q].sha
    <3>1. t.want.files[q] = s.want.files[q] /\ s.want.files[q] # None
      BY <1>6, <1>11, <2>2
    <3>2. s.want.files[q].fp = s.want.files[q].sha
      BY <1>5, <2>1, <3>1 DEF WantOK
    <3>3. /\ s.want.files[q].dead # TRUE /\ disk[q] # Nil
          /\ s.want.files[q].sha \in Lost \/ disk[q] = s.want.files[q].sha
      BY <1>5, <3>1 DEF WantOK, Written
    <3> QED
      BY <1>4, <3>1, <3>2, <3>3
  <2> QED
    BY <1>6, <2>2 DEF WantOK, Written
<1>14. PlainOK(t)
  BY <1>5, <1>6, <1>11, <1>12 DEF PlainOK
<1>15. PhaseOK(t)
  BY <1>12 DEF PhaseOK
<1>16. ScanOK(t, n.base, vault'[d], disk, Lost') /\ UploadsOK(t, n.base) /\ ReadOK(t, vault'[d], disk)
  BY <1>12 DEF ScanOK, UploadsOK, ReadOK, Resolution
<1>17. DoneOK(t, vault'[d], disk, Lost')
  <2> SUFFICES ASSUME ~t.bad, NEW q \in AllPath
               PROVE  Spare(disk[q], Lost') \/ vault'[d][q] = disk[q] \/ Open(t, q)
    BY DEF DoneOK
  <2>1. CASE q = p
    BY <1>4, <2>1 DEF Sets
  <2>2. CASE q # p
    <3>1. ~s.bad /\ (Open(s, q) => Open(u, q))
      BY <1>12, <2>2
    <3>2. Spare(disk[q], Lost) \/ vault[d][q] = disk[q] \/ Open(s, q)
      BY <1>1, <1>5, <3>1 DEF DoneOK
    <3>3. Open(u, q) => Open(t, q)
      BY <1>12 DEF Open
    <3>4. vault'[d][q] = vault[d][q] /\ (Spare(disk[q], Lost) => Spare(disk[q], Lost'))
      BY <1>4, <2>2 DEF Sets, Spare
    <3> QED
      BY <3>1, <3>2, <3>3, <3>4
  <2> QED
    BY <2>1, <2>2
<1>18. Working(t, n.base, vault'[d], disk', Lost')
  BY <1>13, <1>14, <1>15, <1>16, <1>17 DEF Working
<1> QED
  BY <1>1, <1>3, <1>4, <1>7, <1>8, <1>9, <1>10, <1>18, SafeSession

LEMMA DownloadApplySafe ==
  ASSUME Inv, Preserving, NEW d \in Device, NEW p \in AllPath, DownloadApply(d, p)
  PROVE  Preserving'
<1> DEFINE s == ses[d]
           g == [x \in DOMAIN s.got \ {p} |-> s.got[x]]
           u == [s EXCEPT !.todo = s.todo \ {p}, !.got = g]
<1>1. /\ s.pc = "download" /\ p \in DOMAIN s.got /\ UNCHANGED <<canon, disk, past, made>>
      /\ Apply(d, [s EXCEPT !.todo = @ \ {p}, !.got = [x \in DOMAIN @ \ {p} |-> @[x]]], p, s.got[p])
  BY DEF DownloadApply, At, users
<1>2. s.at = Nil /\ DOMAIN s = Fields /\ s.ret # "delete" /\ s.got[p] = disk[p] /\ disk[p] # Nil
  BY <1>1, Works DEF PhaseOK, Resolution, ReadOK
<1>3. Apply(d, u, p, disk[p])
  <2>1. [s EXCEPT !.todo = @ \ {p}, !.got = [x \in DOMAIN @ \ {p} |-> @[x]]] = u
    BY <1>2 DEF Fields
  <2> HIDE DEF u
  <2> QED
    BY <1>1, <1>2, <2>1
<1>4. \A q \in DOMAIN g : g[q] = disk[q] /\ disk[q] # Nil
  BY <1>1, Works DEF ReadOK
<1> HIDE DEF g
<1>5. /\ Keeps(s, u, Moves) /\ u.pc = "download" /\ u.todo = s.todo \ {p} /\ u.at = s.at
      /\ u.ret = s.ret /\ u.rejected = s.rejected /\ u.got = g /\ u.bad = s.bad
      /\ u.plan = s.plan /\ u.why = s.why
  BY <1>1, <1>2 DEF Keeps, Fields, Moves
<1> HIDE DEF u
<1>6. PhaseOK(u)
  BY <1>2, <1>5 DEF PhaseOK, Resolution, BeforeDownload
<1>7. \A q \in AllPath \ {p} : Open(s, q) => Open(u, q)
  BY <1>1, <1>5 DEF Open
<1>8. u.bad \/ (~s.bad /\ \A q \in AllPath \ {p} : Open(s, q) => Open(u, q))
  BY <1>5, <1>7
<1> QED
  BY <1>1, <1>2, <1>3, <1>4, <1>5, <1>6, <1>8, ApplySafe

\* A conflict whose two versions are equal, or that is to have its copy.
LEMMA ResolveSafe ==
  ASSUME Inv, Preserving, NEW d \in Device, NEW p \in AllPath, Resolve(d, p)
  PROVE  Preserving'
<1> DEFINE s == ses[d]
           T == s.todo \ {p}
           u == [s EXCEPT !.todo = T, !.at = p, !.why = "planned"]
           g == [x \in {p} |-> disk[p]]
           c == [s EXCEPT !.todo = T, !.at = p, !.why = "planned", !.got = g, !.pc = "copy"]
           t == NextConflict(u)
<1>1. /\ s.pc = "conflict" /\ p \in s.todo /\ disk[p] # Nil
      /\ UNCHANGED <<canon, disk, past, made>>
  BY DEF Resolve, MayResolve, At, users
<1>2. DOMAIN s = Fields /\ s.ret # "delete" /\ s.at = Nil
  BY <1>1, Works DEF PhaseOK, Resolution
<1>3. \/ Apply(d, t, p, disk[p])
      \/ Session(d, c, mem[d], FALSE) /\ UNCHANGED <<vault, kept>>
  <2>1. u = [s EXCEPT !.todo = @ \ {p}, !.at = p, !.why = "planned"]
    BY <1>2 DEF Fields
  <2>2. c = [u EXCEPT !.got = [x \in {p} |-> disk[p]], !.pc = "copy"]
    BY <1>2 DEF Fields
  <2> DEFINE y == [s EXCEPT !.todo = @ \ {p}, !.at = p, !.why = "planned"]
  <2>3. \/ Apply(d, NextConflict(y), p, disk[p])
        \/ /\ Session(d, [y EXCEPT !.got = [x \in {p} |-> disk[p]], !.pc = "copy"], mem[d], FALSE)
           /\ UNCHANGED <<vault, kept>>
    BY Zenon DEF Resolve
  <2> HIDE DEF u, c, y
  <2>4. y = u
    BY <2>1 DEF y
  <2> QED
    BY <2>2, <2>3, <2>4
<1>4. /\ Keeps(s, u, Moves) /\ u.todo = T /\ u.ret = s.ret /\ u.rejected = s.rejected
      /\ u.bad = s.bad /\ u.plan = s.plan
  BY <1>2 DEF Keeps, Fields, Moves
<1>5. CASE Apply(d, t, p, disk[p])
  <2> HIDE DEF u
  <2>1. NextIs(s, t) /\ t.todo = T /\ t.bad = s.bad
    BY <1>2, <1>4, NextConflictIs
  <2> HIDE DEF t
  <2>2. PhaseOK(t)
    BY <1>1, <2>1, NextFitsIn
  <2>3. t.plan = s.plan
    BY <2>1 DEF NextIs, Keeps, Fields, Moves
  <2>4. \A q \in AllPath \ {p} : Open(s, q) => Open(t, q)
    BY <1>1, <1>2, <2>1, <2>3, NilIsNothing DEF Open
  <2>5. t.bad \/ (~s.bad /\ \A q \in AllPath \ {p} : Open(s, q) => Open(t, q))
    BY <2>1, <2>4
  <2>6. t.pc \in {"conflict", "final"} /\ Keeps(s, t, Moves) /\ t.rejected \subseteq s.rejected
    BY <2>1 DEF NextIs
  <2> QED
    BY <1>1, <1>5, <2>2, <2>5, <2>6, ApplySafe
<1>6. CASE Session(d, c, mem[d], FALSE) /\ UNCHANGED <<vault, kept>>
  <2>1. g[p] # Nil
    BY <1>1
  <2> HIDE DEF g
  <2>2. /\ Keeps(s, c, Moves) /\ c.pc = "copy" /\ c.todo = T /\ c.at = p /\ c.why = "planned"
        /\ c.got = g /\ c.ret = s.ret /\ c.rejected = s.rejected /\ c.bad = s.bad /\ c.plan = s.plan
    BY <1>2 DEF Keeps, Fields, Moves
  <2> HIDE DEF c
  <2>3. PhaseOK(c)
    BY <1>2, <2>2, NilIsNothing DEF PhaseOK, Resolution, BeforeDownload, AloneAt
  <2>4. UploadsOK(c, mem[d].base) /\ ReadOK(c, vault[d], disk)
    BY <2>1, <2>2 DEF UploadsOK, ReadOK
  <2>5. \A q \in AllPath : Open(s, q) => Open(c, q)
    BY <1>1, <1>2, <2>2, NilIsNothing DEF Open
  <2>6. c.bad \/ (~s.bad /\ \A q \in AllPath : Open(s, q) => Open(c, q))
    BY <2>2, <2>5
  <2> QED
    BY <1>1, <1>6, <2>2, <2>3, <2>4, <2>6, Knows, OnwardSafe DEF Late
<1> QED
  BY <1>3, <1>5, <1>6

LEMMA ApplyWinnerSafe ==
  ASSUME Inv, Preserving, NEW d \in Device, ApplyWinner(d)
  PROVE  Preserving'
<1> DEFINE s == ses[d]
           p == s.at
           r == [s EXCEPT !.at = Nil, !.why = "none", !.pc = "cleanup"]
           t == IF s.why = "planned" THEN NextConflict(s) ELSE r
<1>1. /\ s.pc = "apply" /\ MayApplyWinner(d) /\ UNCHANGED <<canon, disk, past, made>>
      /\ \/ /\ s.why = "rejected" /\ ~Live(canon.files[p])
            /\ Session(d, t, mem[d], FALSE) /\ UNCHANGED <<vault, kept>>
         \/ /\ ~(s.why = "rejected" /\ ~Live(canon.files[p]))
            /\ Apply(d, t, p, disk[p])
  <2>1. s.pc = "apply" /\ MayApplyWinner(d) /\ UNCHANGED <<canon, disk, past, made>>
    BY DEF ApplyWinner, At, users
  <2>2. \/ /\ s.why = "rejected" /\ ~Live(canon.files[p])
           /\ Session(d, t, mem[d], FALSE) /\ UNCHANGED <<vault, kept>>
        \/ /\ ~(s.why = "rejected" /\ ~Live(canon.files[p]))
           /\ Apply(d, t, p, disk[p])
    BY Zenon DEF ApplyWinner
  <2> QED
    BY <2>1, <2>2
<1>2. /\ DOMAIN s = Fields /\ s.ret # "delete" /\ p \in AllPath /\ p # Nil
      /\ s.why \in {"planned", "rejected"}
      /\ s.why = "planned" => s.got[p] # Nil
      /\ s.why # "planned" => s.todo = {}
  <2>1. PhaseOK(s) /\ ReadOK(s, vault[d], disk) /\ DOMAIN s = Fields
    BY <1>1, Works
  <2>2. p \in Conflicts(s.l)
    BY <1>1, Works DEF PlaceOK, AtOK
  <2>3. p \in AllPath /\ p # Nil
    BY <2>2, PathIsPath, NilIsNothing DEF Conflicts
  <2> QED
    BY <1>1, <2>1, <2>3 DEF PhaseOK, ReadOK, Resolution, AloneAt
<1>3. /\ Keeps(s, t, Moves) /\ t.rejected = s.rejected /\ t.bad = s.bad /\ t.todo = s.todo
      /\ t.plan = s.plan /\ t.at = Nil
      /\ t.pc \in {"conflict", "final", "cleanup"} /\ PhaseOK(t)
  <2>1. CASE s.why = "planned"
    <3>1. Keeps(s, s, Moves)
      BY <1>2 DEF Keeps
    <3>2. t = NextConflict(s)
      BY <2>1
    <3> HIDE DEF t
    <3>3. NextIs(s, t) /\ t.todo = s.todo /\ t.bad = s.bad
      BY <1>2, <3>1, <3>2, NextConflictIs
    <3>4. PhaseOK(t)
      BY <1>1, <3>3, NextFitsIn
    <3> QED
      BY <3>3, <3>4 DEF NextIs, Keeps, Fields, Moves
  <2>2. CASE s.why # "planned"
    <3>1. t = r
      BY <2>2
    <3>2. /\ Keeps(s, r, Moves) /\ r.rejected = s.rejected /\ r.bad = s.bad /\ r.todo = {}
          /\ r.plan = s.plan /\ r.at = Nil /\ r.pc = "cleanup" /\ r.ret = s.ret
      BY <1>2, <2>2 DEF Keeps, Fields, Moves
    <3> HIDE DEF r, t
    <3>3. PhaseOK(r)
      BY <1>2, <3>2 DEF PhaseOK, Resolution, BeforeDownload
    <3> QED
      BY <1>2, <2>2, <3>1, <3>2, <3>3
  <2> QED
    BY <2>1, <2>2
<1> HIDE DEF t, r
<1>4. ASSUME NEW q \in AllPath, q # p \/ s.why # "planned", Open(s, q) PROVE Open(t, q)
  BY <1>1, <1>2, <1>3, <1>4 DEF Open
<1>5. CASE /\ s.why = "rejected" /\ ~Live(canon.files[p])
           /\ Session(d, t, mem[d], FALSE) /\ UNCHANGED <<vault, kept>>
  <2>1. UploadsOK(t, mem[d].base) /\ ReadOK(t, vault[d], disk)
    BY <1>3 DEF UploadsOK, ReadOK, Resolution
  <2>2. t.bad \/ (~s.bad /\ \A q \in AllPath : Open(s, q) => Open(t, q))
    BY <1>3, <1>4, <1>5
  <2>3. t.pc \notin {"idle", "scan", "list", "local", "verify", "plan"}
    BY <1>3
  <2> QED
    BY <1>1, <1>3, <1>5, <2>1, <2>2, <2>3, Knows, OnwardSafe DEF Late, Resolution
<1>6. CASE /\ ~(s.why = "rejected" /\ ~Live(canon.files[p]))
           /\ Apply(d, t, p, disk[p])
  <2>1. disk[p] # Nil
    BY <1>1, <1>2, <1>6 DEF MayApplyWinner
  <2>2. t.bad \/ (~s.bad /\ \A q \in AllPath \ {p} : Open(s, q) => Open(t, q))
    BY <1>3, <1>4
  <2> HIDE DEF p
  <2>3. p \in AllPath /\ Apply(d, t, p, disk[p])
    BY <1>2, <1>6
  <2> QED
    BY <1>1, <1>3, <2>1, <2>2, <2>3, ApplySafe
<1> QED
  BY <1>1, <1>5, <1>6

----------------------------------------------------------------------------
(* No edit is lost: conflict copies.                                       *)

\* Where the copy of the version in conflict would be, there is nothing else.
LEMMA CopyPlace ==
  ASSUME NEW s, FilesOK(s.l), s.at \in Conflicts(s.l), NEW f, FilesOK(f)
  PROVE  f[ConflictCopy(s)] \in {Nil, s.l[s.at]}
<1>1. s.at \in Path /\ s.l[s.at] \in Version
  BY CopyFits DEF Conflicts, Content
<1>2. ConflictCopy(s) \in AllPath /\ Named(ConflictCopy(s)) = {s.l[s.at]}
  BY <1>1, CopyFits, NamesOf DEF ConflictCopy
<1> QED
  BY <1>2, FileOf

LEMMA WriteCopySafe ==
  ASSUME Inv, Preserving, NEW d \in Device, WriteCopy(d)
  PROVE  Preserving'
<1> DEFINE s == ses[d]
           m == mem[d]
           c == ConflictCopy(s)
           y == s.l[s.at]
           pc == IF s.why = "rejected" /\ Live(canon.files[c]) THEN "apply" ELSE "send"
           t == [s EXCEPT !.pc = pc]
<1>1. /\ s.pc = "copy" /\ vault' = [vault EXCEPT ![d][c] = y] /\ Session(d, t, m, FALSE)
      /\ UNCHANGED <<canon, disk, kept, past, made>>
  BY DEF WriteCopy, At, users
<1>2. /\ Working(s, m.base, vault[d], disk, Lost) /\ DOMAIN s = Fields /\ FilesOK(s.l)
      /\ s.at \in Conflicts(s.l)
  BY <1>1, Works DEF PlaceOK, AtOK
<1>3. /\ c \in AllPath /\ y # Nil /\ s.at # Nil
      /\ vault[d][c] \in {Nil, y} /\ disk[c] \in {Nil, y}
  <2>1. s.at \in Path
    BY <1>2 DEF Conflicts
  <2>2. s.at # Nil
    BY <2>1, PathIsPath, NilIsNothing
  <2> QED
    BY <1>2, <2>2, CopyFits, CopyPlace, DeviceFacts, FilesStay
<1>4. pc \in {"apply", "send"}
  OBVIOUS
<1> HIDE DEF pc
<1>5. /\ t.pc = pc /\ t.want = s.want /\ t.from = s.from /\ t.stamped = s.stamped
      /\ t.early = s.early /\ t.rejected = s.rejected /\ t.plan = s.plan /\ t.ret = s.ret
      /\ t.at = s.at /\ t.why = s.why /\ t.got = s.got /\ t.todo = s.todo /\ t.bad = s.bad
      /\ t.l = s.l
  BY <1>2 DEF Fields
<1> HIDE DEF t
<1>6. ConflictCopy(t) = c
  BY <1>5 DEF ConflictCopy
<1> HIDE DEF c, y
<1>7. /\ Sets(vault[d], vault'[d], c, y) /\ \A e \in Device \ {d} : vault'[e] = vault[e]
      /\ Spares(vault[d], vault'[d], Lost) /\ Spares(disk, disk', Lost) /\ Lost' = Lost
  <2>1. Sets(vault[d], vault'[d], c, y) /\ \A e \in Device \ {d} : vault'[e] = vault[e]
    BY <1>1, <1>3, DeviceFacts DEF Inv, ShapesOK, FilesOK, Sets
  <2> QED
    BY <1>1, <1>3, <2>1, SparesOne, SparesSelf DEF Lost, Spare
<1>8. vault'[d][c] = y /\ \A q \in AllPath \ {c} : vault'[d][q] = vault[d][q]
  BY <1>7 DEF Sets
<1>9. WantOK(t, disk, Lost)
  BY <1>1, <1>2, <1>5 DEF Working, WantOK, Sent
<1>10. PlainOK(t) /\ PhaseOK(t)
  BY <1>1, <1>2, <1>3, <1>4, <1>5 DEF Working, PlainOK, PhaseOK, Resolution, BeforeDownload, AloneAt
<1>11. ReadOK(t, vault'[d], disk)
  BY <1>1, <1>2, <1>4, <1>5, <1>6, <1>8 DEF Working, ReadOK, Resolution, y
<1>12. DoneOK(t, vault'[d], disk, Lost)
  <2> SUFFICES ASSUME ~t.bad, NEW q \in AllPath
               PROVE  Spare(disk[q], Lost) \/ vault'[d][q] = disk[q] \/ Open(t, q)
    BY DEF DoneOK
  <2>1. CASE q = c
    BY <1>3, <1>8, <2>1 DEF Spare
  <2>2. CASE q # c
    <3>1. Spare(disk[q], Lost) \/ vault[d][q] = disk[q] \/ Open(s, q)
      BY <1>1, <1>2, <1>5 DEF Working, DoneOK, Late, Resolution
    <3>2. Open(s, q) => Open(t, q)
      BY <1>1, <1>5 DEF Open
    <3> QED
      BY <1>8, <2>2, <3>1, <3>2
  <2> QED
    BY <2>1, <2>2
<1>13. ScanOK(t, m.base, vault'[d], disk, Lost) /\ UploadsOK(t, m.base)
  BY <1>4, <1>5 DEF ScanOK, UploadsOK
<1>14. Working(t, m.base, vault'[d], disk', Lost')
  BY <1>1, <1>7, <1>9, <1>10, <1>11, <1>12, <1>13 DEF Working
<1>15. Written(canon'.files, disk', Lost') /\ Printed(canon'.files) /\ NoDeletes(m)
  BY <1>1, <1>7, Knows
<1>16. Based(m.base, vault'[d], disk', Lost')
  BY <1>1, <1>7, Knows, BasedStays
<1> QED
  BY <1>1, <1>7, <1>14, <1>15, <1>16, SafeSession

\* The copy is on the disk, and in the desired index if it was not in the index.
LEMMA CopySentSafe ==
  ASSUME Inv, Preserving, NEW d \in Device, ses[d].pc = "send",
         disk' = [disk EXCEPT ![ConflictCopy(ses[d])] = ses[d].l[ses[d].at]],
         UNCHANGED <<canon, vault, kept, past, made>>,
         NEW u, u = [ses[d] EXCEPT !.pc = "commit"],
         NEW t, t = u \/ Applied(u, t, ConflictCopy(ses[d]), ses[d].l[ses[d].at]),
         NEW n, Agrees(mem[d], n, ConflictCopy(ses[d]), ses[d].l[ses[d].at]),
         NEW save, Session(d, t, n, save)
  PROVE  Preserving'
<1> DEFINE s == ses[d]
           m == mem[d]
           c == ConflictCopy(s)
           y == s.l[s.at]
<1>1. s.pc = "send" /\ s.pc # "idle"
  OBVIOUS
<1>2. /\ Working(s, m.base, vault[d], disk, Lost) /\ DOMAIN s = Fields /\ FilesOK(s.l)
      /\ s.at \in Conflicts(s.l)
  BY <1>1, Works DEF PlaceOK, AtOK
<1>3. /\ c \in AllPath /\ y # Nil /\ s.at # Nil /\ disk[c] \in {Nil, y} /\ vault[d][c] = y
  <2>1. s.at \in Path
    BY <1>2 DEF Conflicts
  <2>2. s.at # Nil
    BY <2>1, PathIsPath, NilIsNothing
  <2>3. vault[d][c] = y
    BY <1>1, <1>2 DEF Working, ReadOK
  <2> QED
    BY <1>2, <2>2, <2>3, CopyFits, CopyPlace, FilesStay
<1> HIDE DEF c, y
<1>4. disk' = [disk EXCEPT ![c] = y] /\ (t = u \/ Applied(u, t, c, y)) /\ Agrees(m, n, c, y)
  BY DEF c, y
<1>5. Lost' = Lost /\ Sets(disk, disk', c, y) /\ Spares(disk, disk', Lost)
      /\ Spares(vault[d], vault'[d], Lost)
  <2>1. Sets(disk, disk', c, y)
    BY <1>3, <1>4, FilesStay DEF FilesOK, Sets
  <2> QED
    BY <1>3, <2>1, SparesOne, SparesSelf DEF Lost, Spare
<1>6. disk'[c] = y /\ \A q \in AllPath \ {c} : disk'[q] = disk[q]
  BY <1>5 DEF Sets
<1>7. /\ u.pc = "commit" /\ u.want = s.want /\ u.from = s.from /\ u.stamped = s.stamped
      /\ u.early = s.early /\ u.rejected = s.rejected /\ u.plan = s.plan /\ u.ret = s.ret
      /\ u.at = s.at /\ u.why = s.why /\ u.got = s.got /\ u.todo = s.todo /\ u.bad = s.bad
  BY <1>2 DEF Fields
<1>8. /\ t.pc = "commit" /\ t.early = s.early /\ t.rejected = s.rejected /\ t.plan = s.plan
      /\ t.ret = s.ret /\ t.at = s.at /\ t.why = s.why /\ t.got = s.got /\ t.todo = s.todo
      /\ t.bad = s.bad /\ t.stamped \subseteq s.stamped
      /\ \A q \in AllPath : t.want.files[q] = s.want.files[q]
                            \/ /\ q = c /\ t.want.files[q].dead # TRUE
                               /\ t.want.files[q].sha = y /\ t.want.files[q].fp = y
  <2>1. CASE t = u
    BY <1>7, <2>1
  <2>2. CASE Applied(u, t, c, y)
    <3>1. Keeps(u, t, {"want", "from", "stamped"}) /\ t.stamped \subseteq u.stamped
      BY <2>2 DEF Applied
    <3>2. /\ t.pc = u.pc /\ t.early = u.early /\ t.rejected = u.rejected /\ t.plan = u.plan
          /\ t.ret = u.ret /\ t.at = u.at /\ t.why = u.why /\ t.got = u.got /\ t.todo = u.todo
          /\ t.bad = u.bad
      BY <3>1 DEF Keeps, Fields
    <3>3. \A q \in AllPath : t.want.files[q] = u.want.files[q]
                             \/ /\ q = c /\ t.want.files[q].dead # TRUE
                                /\ t.want.files[q].sha = y /\ t.want.files[q].fp = y
      BY <2>2 DEF Applied
    <3> QED
      BY <1>7, <3>1, <3>2, <3>3
  <2> QED
    BY <1>4, <2>1, <2>2
<1>9. Written(s.want.files, disk', Lost)
  BY <1>2, <1>5, WrittenStays DEF Working, WantOK
<1>10. WantOK(t, disk', Lost)
  <2> SUFFICES ASSUME NEW q \in AllPath, t.want.files[q] # None
               PROVE  /\ t.want.files[q].dead # TRUE /\ disk'[q] # Nil
                      /\ t.want.files[q].sha \in Lost \/ disk'[q] = t.want.files[q].sha
                      /\ t.want.files[q].fp = t.want.files[q].sha
    BY DEF WantOK, Written
  <2>1. CASE t.want.files[q] = s.want.files[q]
    <3>1. s.want.files[q].fp = s.want.files[q].sha
      BY <1>1, <1>2, <2>1 DEF Working, WantOK, Sent
    <3>2. /\ s.want.files[q].dead # TRUE /\ disk'[q] # Nil
          /\ s.want.files[q].sha \in Lost \/ disk'[q] = s.want.files[q].sha
      BY <1>9, <2>1 DEF Written
    <3> QED
      BY <2>1, <3>1, <3>2
  <2>2. CASE /\ q = c /\ t.want.files[q].dead # TRUE
             /\ t.want.files[q].sha = y /\ t.want.files[q].fp = y
    BY <1>3, <1>6, <2>2
  <2> QED
    BY <1>8, <2>1, <2>2
<1>11. PlainOK(t) /\ PhaseOK(t)
  BY <1>1, <1>2, <1>3, <1>8 DEF Working, PlainOK, PhaseOK, Resolution, BeforeDownload, AloneAt
<1>12. ReadOK(t, vault[d], disk')
  BY <1>1, <1>2, <1>8 DEF Working, ReadOK, Resolution
<1>13. DoneOK(t, vault[d], disk', Lost)
  <2> SUFFICES ASSUME ~t.bad, NEW q \in AllPath
               PROVE  Spare(disk'[q], Lost) \/ vault[d][q] = disk'[q] \/ Open(t, q)
    BY DEF DoneOK
  <2>1. CASE q = c
    BY <1>3, <1>6, <2>1
  <2>2. CASE q # c
    <3>1. Spare(disk[q], Lost) \/ vault[d][q] = disk[q] \/ Open(s, q)
      BY <1>1, <1>2, <1>8 DEF Working, DoneOK, Late, Resolution
    <3>2. Open(s, q) => Open(t, q)
      BY <1>1, <1>8 DEF Open
    <3> QED
      BY <1>6, <2>2, <3>1, <3>2
  <2> QED
    BY <2>1, <2>2
<1>14. ScanOK(t, n.base, vault[d], disk', Lost) /\ UploadsOK(t, n.base)
  BY <1>8 DEF ScanOK, UploadsOK
<1>15. Working(t, n.base, vault'[d], disk', Lost')
  BY <1>5, <1>10, <1>11, <1>12, <1>13, <1>14 DEF Working
<1>16. Based(n.base, vault'[d], disk', Lost') /\ NoDeletes(n)
  <2>1. Based(m.base, vault[d], disk', Lost)
    BY <1>5, Knows, SparesSelf, BasedStays
  <2> QED
    BY <1>3, <1>4, <1>5, <1>6, <2>1 DEF Agrees, Based
<1>17. Written(canon'.files, disk', Lost') /\ Printed(canon'.files)
  BY <1>5, Knows, WrittenStays
<1> QED
  BY <1>1, <1>5, <1>15, <1>16, <1>17, SafeSession

LEMMA SendCopySafe ==
  ASSUME Inv, Preserving, NEW d \in Device, SendCopy(d)
  PROVE  Preserving'
<1> DEFINE s == ses[d]
           m == mem[d]
           p == ConflictCopy(s)
           y == s.l[s.at]
           q == EnsurePut(m, p, y, Nil, m.obs)
           x == LastOf(q, PutsOf(q, p, y))
           u == [s EXCEPT !.pc = "commit"]
           b1 == BaselineOf(canon.files[p])
           n1 == [m EXCEPT !.base[p] = b1]
           e == PutEntry(d, x, y, Nil, Nil, y)
           k == x.seq
           h == With(s.from, p, x.base)
           S == s.stamped
           t == [u EXCEPT !.want.files[p] = e, !.want.wm[d] = Staged(@, k), !.from = h,
                          !.stamped = S]
           b2 == Transferred(y)
           n2 == [q EXCEPT !.base[p] = b2]
<1>1. /\ s.pc = "send" /\ s.pc # "idle" /\ disk' = [disk EXCEPT ![p] = y]
      /\ UNCHANGED <<canon, vault, kept, past, made>>
  BY Zenon DEF SendCopy, At, users
<1>2. /\ DOMAIN s = Fields /\ FilesOK(s.l) /\ IndexOK(s.want) /\ s.at \in Conflicts(s.l)
  BY <1>1, Works DEF PlaceOK, AtOK
<1>3. p \in AllPath /\ y \in Content /\ y # Nil /\ y \in Named(p)
  BY <1>2, CopyFits
<1>4. Named(p) = {y}
  BY <1>2, CopyFits, NamesOf DEF ConflictCopy, Conflicts, Content
<1>5. DurOK(m) /\ m.obs \in Nat /\ NoDeletes(m)
  BY DeviceFacts, Knows DEF Durable
<1>6. \/ Live(canon.files[p]) /\ Session(d, u, n1, FALSE)
      \/ Session(d, t, n2, TRUE)
  <2>1. \/ Live(canon.files[p]) /\ Session(d, u, n1, FALSE)
        \/ Session(d, [s EXCEPT !.pc = "commit",
                                !.want.files[p] = PutEntry(d, x, y, Nil, Nil, y),
                                !.want.wm[d] = Staged(@, x.seq),
                                !.from = With(@, p, x.base)],
                   [q EXCEPT !.base[p] = Transferred(y)], TRUE)
    BY Zenon DEF SendCopy
  <2>2. s.want \in [rev : Nat, files : [AllPath -> Entry \cup {None}], wm : [Device -> Nat]]
    BY <1>2 DEF IndexOK, Index
  <2> HIDE DEF x, q, p, y, n1
  <2>3. t = [s EXCEPT !.pc = "commit",
                                !.want.files[p] = PutEntry(d, x, y, Nil, Nil, y),
                                !.want.wm[d] = Staged(@, x.seq),
                                !.from = With(@, p, x.base)]
    BY <1>2, <2>2 DEF Fields
  <2> QED
    BY <2>1, <2>3
<1>7. CASE Live(canon.files[p]) /\ Session(d, u, n1, FALSE)
  <2>1. b1.sha = y
    <3>1. canon.files[p].sha \in Named(p)
      BY <1>3, <1>7, DeviceFacts, EntryOf DEF Live
    <3> HIDE DEF y, p
    <3> QED
      BY <1>4, <3>1 DEF BaselineOf
  <2> DEFINE cc == ConflictCopy(s)
             yy == s.l[s.at]
  <2>2. p = cc /\ y = yy
    OBVIOUS
  <2> HIDE DEF b1, p, y
  <2>3. Agrees(m, n1, p, y)
    BY <1>3, <1>5, <2>1, AgreesAt
  <2> HIDE DEF n1, u
  <2>4. Agrees(m, n1, cc, yy) /\ disk' = [disk EXCEPT ![cc] = yy]
    BY <1>1, <2>2, <2>3
  <2>5. u = [s EXCEPT !.pc = "commit"]
    BY DEF u
  <2> QED
    BY <1>1, <1>7, <2>4, <2>5, CopySentSafe
<1>8. CASE Session(d, t, n2, TRUE)
  <2>1. /\ Extends(m, q) /\ Grows(m, q, "put") /\ PutsOf(q, p, y) # {}
        /\ q.base = m.base /\ q.acts = m.acts
    <3> HIDE DEF p, y
    <3> QED
      BY <1>3, <1>5, Numbers, EnsurePutExtends
  <2> HIDE DEF q
  <2>2. DurOK(q) /\ NoDeletes(q)
    BY <1>5, <2>1, NoNewDeletes DEF Extends
  <2>3. k \in Nat
    <3>1. PutsOf(q, p, y) \in SUBSET DOMAIN q.queue
      BY DEF PutsOf, Puts
    <3> QED
      BY <2>1, <2>2, <3>1, LastIsOne
  <2> DEFINE cc == ConflictCopy(s)
             yy == s.l[s.at]
  <2>4. p = cc /\ y = yy
    OBVIOUS
  <2> HIDE DEF x, p, y
  <2>5. e.dead # TRUE /\ e.sha = y /\ e.fp = y
    BY NilIsNothing DEF PutEntry
  <2>6. b2.sha = y
    BY DEF Transferred
  <2> HIDE DEF e, k, h, b2
  <2>7. Agrees(m, n2, p, y)
    BY <1>3, <1>5, <2>1, <2>2, <2>6, AgreesAt
  <2>8. DOMAIN u = Fields /\ u.want = s.want /\ S \subseteq u.stamped
    BY <1>2 DEF Fields
  <2>9. u = [s EXCEPT !.pc = "commit"]
    OBVIOUS
  <2> HIDE DEF u, n2, S
  <2>10. Applied(u, t, p, y)
    <3>1. IndexOK(u.want)
      BY <1>2, <2>8
    <3> QED
      BY <1>3, <2>3, <2>5, <2>8, <3>1, AppliedPut
  <2> HIDE DEF t
  <2>11. Applied(u, t, cc, yy) /\ Agrees(m, n2, cc, yy) /\ disk' = [disk EXCEPT ![cc] = yy]
    BY <1>1, <2>4, <2>7, <2>10
  <2> QED
    BY <1>1, <1>8, <2>9, <2>11, CopySentSafe
<1> QED
  BY <1>6, <1>7, <1>8, Zenon

----------------------------------------------------------------------------
(* No edit is lost: commits, and the end of a session.                     *)

\* An entry that says what another one says.
Shows(e, f) == f # None /\ e.sha = f.sha /\ e.dead = f.dead /\ e.fp = f.fp

\* A commit takes what it writes from the two indexes it merges.
LEMMA MergedShows ==
  ASSUME NEW c, IndexOK(c), NEW D, IndexOK(D), NEW from, FromOK(from, D), NEW old,
         NEW n, n = Merged(c, D, from, {}, old), NEW p \in AllPath, n.files[p] # None
  PROVE  Shows(n.files[p], c.files[p]) \/ Shows(n.files[p], D.files[p])
<1> DEFINE A == AppliedTo(c, D, from, old)
           S == {x \in {} : c.files[x] # D.files[x]}
           r == c.rev + 1
           ch == A # {} \/ S # {} \/ \E e \in Device : D.wm[e] > c.wm[e]
           R == IF ch THEN r ELSE c.rev
           F == [x \in DOMAIN c.files |->
                   IF x \in A THEN [D.files[x] EXCEPT !.rev = r]
                   ELSE IF x \in S THEN [c.files[x] EXCEPT !.fp = D.files[x].fp]
                   ELSE c.files[x]]
           W == [e \in Device |-> HigherMark(c.wm[e], D.wm[e])]
<1>1. n = [rev |-> R, files |-> F, wm |-> W]
  BY Zenon DEF Merged
<1>2. DOMAIN c.files = AllPath
  BY IndexMarks
<1>3. \A x \in A : x \in AllPath /\ D.files[x] # None
  BY DEF AppliedTo, FromOK
<1>4. S = {}
  OBVIOUS
<1> HIDE DEF A, S, r, R, W
<1>5. n.files[p] = IF p \in A THEN [D.files[p] EXCEPT !.rev = r] ELSE c.files[p]
  BY <1>1, <1>2, <1>4
<1>6. CASE p \in A
  <2>1. D.files[p] \in Entry /\ D.files[p] # None
    BY <1>3, <1>6, EntryOf
  <2> QED
    BY <1>5, <1>6, <2>1 DEF Shows, Entry
<1>7. CASE p \notin A
  BY <1>5, <1>7 DEF Shows
<1> QED
  BY <1>6, <1>7

LEMMA ClassifyDead ==
  ASSUME NEW current, NEW incoming, incoming.seq \in Nat, NEW base, NEW old, NEW applied,
         NEW staged \in Nat,
         Classify(current, incoming, base, old, applied, staged) = "rejected-by-delete"
  PROVE  Dead(current)
<1> DEFINE K == Classify(current, incoming, base, old, applied, staged)
<1>1. CASE incoming.seq = 0
  <2>1. K = "invalid-sequence"
    BY <1>1 DEF Classify
  <2> QED
    BY <2>1
<1>2. CASE incoming.seq # 0 /\ incoming.seq > staged
  <2>1. K = "fifo-gap"
    BY <1>2 DEF Classify
  <2> QED
    BY <2>1
<1>3. CASE incoming.seq \in 1 .. staged /\ current # None /\ current.by = incoming.by
  <2>1. incoming.seq # 0 /\ ~(incoming.seq > staged)
    BY <1>3
  <2>2. K \in {"idempotent", "invalid-sequence", "stale-same-device", "apply"}
    BY <1>3, <2>1 DEF Classify
  <2> QED
    BY <2>2
<1>4. CASE incoming.seq \in 1 .. staged /\ (current = None \/ current.by # incoming.by)
  <2>1. incoming.seq # 0 /\ ~(incoming.seq > staged)
    BY <1>4
  <2>2. K = IF Dead(incoming) THEN "apply"
            ELSE IF UnseenForeignPut(current, incoming, base, old) THEN "concurrent-foreign"
            ELSE IF Dead(current) /\ current.rev > base THEN "rejected-by-delete"
            ELSE "apply"
    BY <1>4, <2>1 DEF Classify
  <2> HIDE DEF K
  <2> QED
    BY <2>2 DEF K
<1>5. incoming.seq = 0 \/ (incoming.seq # 0 /\ incoming.seq > staged) \/ incoming.seq \in 1 .. staged
  OBVIOUS
<1> QED
  BY <1>1, <1>2, <1>3, <1>4, <1>5

\* No put is rejected for a deletion where there is none.
LEMMA NoneDeleted ==
  ASSUME NEW c, \A p \in AllPath : ~Dead(c.files[p]), NEW D, IndexOK(D),
         NEW from, FromOK(from, D), NEW old, NEW x \in Rejected(c, D, from, old)
  PROVE  x.why # "rejected-by-delete"
<1>1. PICK p \in DOMAIN from : x = [path |-> p, why |-> Decision(c, D, from, old, p),
                                    fp |-> D.files[p].fp]
  BY DEF Rejected
<1>2. /\ p \in AllPath /\ D.files[p] # None /\ D.files[p].by \in Device
      /\ x.why = Decision(c, D, from, old, p)
  BY <1>1 DEF FromOK
<1>3. D.files[p].seq \in Nat /\ D.wm[D.files[p].by] \in Nat
  BY <1>2, EntryOf, IndexMarks
<1> SUFFICES ASSUME Decision(c, D, from, old, p) = "rejected-by-delete" PROVE FALSE
  BY <1>2
<1> DEFINE cur == c.files[p]
           inc == D.files[p]
           k == D.wm[inc.by]
           a == c.wm[inc.by]
<1>4. Classify(cur, inc, from[p], old[p], a, k) = "rejected-by-delete"
  BY DEF Decision
<1>5. inc.seq \in Nat /\ k \in Nat
  BY <1>3
<1>6. ~Dead(cur)
  BY <1>2
<1> HIDE DEF cur, inc, k, a
<1> QED
  BY <1>4, <1>5, <1>6, ClassifyDead

LEMMA CommitSafe ==
  ASSUME Inv, Preserving, NEW d \in Device, Commit(d)
  PROVE  Preserving'
<1> DEFINE s == ses[d]
           m == mem[d]
           D == Desired(d)
           old == OldOf(m)
           n == Merged(canon, D, s.from, s.stamped, old)
           J == s.rejected \cup Rejected(canon, D, s.from, old)
           pc == IF ForCopy(s) THEN "apply" ELSE "cleanup"
           t == [s EXCEPT !.load = n, !.want = n, !.from = <<>>, !.stamped = {},
                          !.rejected = J, !.pc = pc]
<1>1. /\ s.pc = "commit" /\ s.pc # "idle" /\ canon' = n /\ Session(d, t, m, FALSE)
      /\ UNCHANGED <<disk, vault, kept, past, made>>
  <2>1. canon' = n
    BY Zenon DEF Commit
  <2>2. t = [s EXCEPT !.load = n, !.want = n, !.from = <<>>, !.stamped = {},
                                   !.rejected = @ \cup Rejected(canon, D, s.from, old),
                                   !.pc = IF ForCopy(s) THEN "apply" ELSE "cleanup"]
    <3> HIDE DEF n
    <3> QED
      BY DEF J, pc
  <2>3. Session(d, [s EXCEPT !.load = n, !.want = n, !.from = <<>>, !.stamped = {},
                                   !.rejected = @ \cup Rejected(canon, D, s.from, old),
                                   !.pc = IF ForCopy(s) THEN "apply" ELSE "cleanup"], m, FALSE)
    BY Zenon DEF Commit
  <2> HIDE DEF n, t, D
  <2> QED
    BY <2>1, <2>2, <2>3 DEF Commit, At, users
<1>2. /\ Working(s, m.base, vault[d], disk, Lost) /\ DataOK(s, m.next, canon, d)
      /\ DOMAIN s = Fields /\ s.stamped = {} /\ NoDeletes(m)
      /\ Based(m.base, vault[d], disk, Lost)
      /\ Written(canon.files, disk, Lost) /\ Printed(canon.files) /\ IndexOK(canon)
  <2>1. Running(s, m, canon, d)
    BY <1>1, Runs
  <2> QED
    BY <1>1, <2>1, Works, Knows, DeviceFacts DEF Running, PlainOK
<1>3. IndexOK(D) /\ D.files = s.want.files /\ FromOK(s.from, D)
  BY <1>2, DesiredFits DEF DesiredOK, DataOK, FromOK
<1> HIDE DEF D, old
<1>4. ASSUME NEW p \in AllPath, n.files[p] # None
      PROVE  Shows(n.files[p], canon.files[p]) \/ Shows(n.files[p], s.want.files[p])
  <2>1. n = Merged(canon, D, s.from, {}, old)
    BY <1>2
  <2> HIDE DEF n
  <2> QED
    BY <1>2, <1>3, <1>4, <2>1, MergedShows
<1>5. \A x \in J : x.why # "rejected-by-delete"
  <2>1. \A p \in AllPath : ~Dead(canon.files[p])
    BY <1>2 DEF Written, Dead
  <2>2. \A x \in Rejected(canon, D, s.from, old) : x.why # "rejected-by-delete"
    BY <1>3, <2>1, NoneDeleted
  <2> QED
    BY <1>2, <2>2 DEF Working, PlainOK
<1> HIDE DEF n, J
<1>6. ASSUME NEW p \in AllPath, s.want.files[p] # None
      PROVE  s.want.files[p].fp = s.want.files[p].sha
  BY <1>1, <1>2, <1>6 DEF Working, WantOK, Sent
<1>7. Written(n.files, disk, Lost) /\ Printed(n.files)
  <2> SUFFICES ASSUME NEW p \in AllPath, n.files[p] # None
               PROVE  /\ n.files[p].dead # TRUE /\ disk[p] # Nil
                      /\ n.files[p].sha \in Lost \/ disk[p] = n.files[p].sha
                      /\ n.files[p].fp = n.files[p].sha
    BY DEF Written, Printed
  <2>1. CASE Shows(n.files[p], canon.files[p])
    BY <1>2, <2>1 DEF Shows, Written, Printed
  <2>2. CASE Shows(n.files[p], s.want.files[p])
    BY <1>2, <1>6, <2>2 DEF Shows, Written, Working, WantOK
  <2> QED
    BY <1>4, <2>1, <2>2
<1>8. pc = IF s.at # Nil THEN "apply" ELSE "cleanup"
  BY DEF ForCopy
<1> HIDE DEF pc
<1>9. /\ t.pc = pc /\ t.want = n /\ t.stamped = {} /\ t.rejected = J /\ t.early = s.early
      /\ t.plan = s.plan /\ t.ret = s.ret /\ t.at = s.at /\ t.why = s.why /\ t.got = s.got
      /\ t.todo = s.todo /\ t.bad = s.bad
  BY <1>2 DEF Fields
<1> HIDE DEF t
<1>10. t.pc \in {"apply", "cleanup"} /\ (t.pc = "apply" <=> s.at # Nil)
  BY <1>8, <1>9
<1>11. WantOK(t, disk, Lost)
  BY <1>7, <1>9 DEF WantOK, Printed
<1>12. PlainOK(t)
  BY <1>2, <1>5, <1>9 DEF Working, PlainOK
<1>13. PhaseOK(t)
  BY <1>1, <1>2, <1>9, <1>10 DEF Working, PhaseOK, Resolution, BeforeDownload, AloneAt
<1>14. ReadOK(t, vault[d], disk)
  BY <1>1, <1>2, <1>9, <1>10 DEF Working, ReadOK, Resolution
<1>15. DoneOK(t, vault[d], disk, Lost)
  <2> SUFFICES ASSUME ~t.bad, NEW q \in AllPath
               PROVE  Spare(disk[q], Lost) \/ vault[d][q] = disk[q] \/ Open(t, q)
    BY DEF DoneOK
  <2>1. Spare(disk[q], Lost) \/ vault[d][q] = disk[q] \/ Open(s, q)
    BY <1>1, <1>2, <1>9 DEF Working, DoneOK, Late, Resolution
  <2>2. Open(s, q) => Open(t, q)
    BY <1>1, <1>9 DEF Open
  <2> QED
    BY <2>1, <2>2
<1>16. ScanOK(t, m.base, vault[d], disk, Lost) /\ UploadsOK(t, m.base)
  BY <1>10 DEF ScanOK, UploadsOK
<1>17. Lost' = Lost /\ Spares(disk, disk', Lost) /\ Spares(vault[d], vault'[d], Lost)
  BY <1>1, SparesSelf DEF Lost
<1>18. Working(t, m.base, vault'[d], disk', Lost')
  BY <1>1, <1>11, <1>12, <1>13, <1>14, <1>15, <1>16, <1>17 DEF Working
<1>19. Written(canon'.files, disk', Lost') /\ Printed(canon'.files)
       /\ Based(m.base, vault'[d], disk', Lost')
  BY <1>1, <1>2, <1>7, <1>17
<1> QED
  BY <1>1, <1>2, <1>17, <1>18, <1>19, SafeSession

\* What was reconciled becomes the baseline: it is on both sides.
LEMMA FinishSafe ==
  ASSUME Inv, Preserving, NEW d \in Device, Finish(d)
  PROVE  Preserving'
<1> DEFINE s == ses[d]
           m == mem[d]
           w == s.want.files
           f == [p \in AllPath |-> IF None \in {m.base[p], w[p]} THEN m.base[p] ELSE BaselineOf(w[p])]
           n == Observed(s, m)
<1>1. /\ s.pc = "finish" /\ ~s.bad /\ s.pc # "idle" /\ Session(d, Idle, n, TRUE)
      /\ UNCHANGED <<canon, disk, vault, kept, past, made>>
  BY DEF Finish, At, users
<1>2. /\ WantOK(s, disk, Lost) /\ PhaseOK(s) /\ DoneOK(s, vault[d], disk, Lost)
      /\ Based(m.base, vault[d], disk, Lost) /\ NoDeletes(m) /\ m \in Durable
  BY <1>1, Works, Knows, DeviceFacts
<1>3. n.base = f /\ n.queue = m.queue /\ n.acts = m.acts
  <2>1. n = [m EXCEPT !.obs = s.want.rev, !.base = f]
    BY <1>2 DEF Observed, Durable
  <2> HIDE DEF f
  <2> QED
    BY <1>2, <2>1 DEF Durable
<1>4. ASSUME NEW p \in AllPath PROVE Spare(disk[p], Lost) \/ vault[d][p] = disk[p]
  <2>1. s.todo = {} /\ s.at = Nil
    BY <1>1, <1>2 DEF PhaseOK, Resolution, AloneAt
  <2>2. ~Open(s, p)
    BY <1>1, <2>1, NilIsNothing DEF Open
  <2> QED
    BY <1>1, <1>2, <2>2 DEF DoneOK, Late
<1>5. ASSUME NEW p \in AllPath, f[p] # None
      PROVE  /\ vault[d][p] # Nil
             /\ f[p].sha \in Lost \/ (disk[p] = f[p].sha /\ vault[d][p] = f[p].sha)
  <2>1. CASE f[p] = m.base[p]
    BY <1>2, <1>5, <2>1 DEF Based
  <2>2. CASE m.base[p] # None /\ w[p] # None /\ f[p] = BaselineOf(w[p])
    <3>1. f[p].sha = w[p].sha
      BY <2>2 DEF BaselineOf
    <3>2. vault[d][p] # Nil
      BY <1>2, <2>2 DEF Based
    <3>3. disk[p] # Nil /\ (w[p].sha \in Lost \/ disk[p] = w[p].sha)
      BY <1>2, <2>2 DEF WantOK, Written
    <3> QED
      BY <1>4, <3>1, <3>2, <3>3 DEF Spare
  <2>3. f[p] = m.base[p] \/ (m.base[p] # None /\ w[p] # None /\ f[p] = BaselineOf(w[p]))
    OBVIOUS
  <2> QED
    BY <2>1, <2>2, <2>3
<1> HIDE DEF f, n
<1>6. Based(n.base, vault[d], disk, Lost) /\ NoDeletes(n)
  BY <1>2, <1>3, <1>5 DEF Based, NoDeletes
<1> QED
  BY <1>1, <1>6, SafeMove

\* Nothing is deleted.
LEMMA DeletionsNever ==
  ASSUME Inv, Preserving, NEW d \in Device
  PROVE  ~Physical(d) /\ ~Intent(d) /\ ~DeletesDone(d) /\ ~RejectedDelete(d)
<1>1. ~(Physical(d) \/ Intent(d) \/ DeletesDone(d))
  <2>1. SUFFICES ASSUME Physical(d) \/ Intent(d) \/ DeletesDone(d) PROVE FALSE
    OBVIOUS
  <2>2. ses[d].pc \in {"physical", "intent", "delete"} /\ (Physical(d) => ses[d].todo # {})
    BY <2>1, Zenon DEF Physical, Intent, DeletesDone, At
  <2>3. PhaseOK(ses[d])
    BY <2>2, Works
  <2>4. ses[d].pc = "physical" /\ ses[d].todo = {}
    BY <2>2, <2>3 DEF PhaseOK, Resolution, AloneAt
  <2> QED
    BY <2>1, <2>2, <2>4 DEF Intent, DeletesDone, At
<1>2. ~RejectedDelete(d)
  <2>1. SUFFICES ASSUME RejectedDelete(d) PROVE FALSE
    OBVIOUS
  <2>2. ses[d].pc = "cleanup" /\ \E x \in ses[d].rejected : x.why = "rejected-by-delete"
    BY <2>1 DEF RejectedDelete, At
  <2>3. PlainOK(ses[d])
    BY <2>2, Works
  <2> QED
    BY <2>2, <2>3 DEF PlainOK
<1> QED
  BY <1>1, <1>2

----------------------------------------------------------------------------
(* No edit is lost: the theorem.                                           *)

LEMMA InitPreserving ==
  Init => Preserving
<1> SUFFICES ASSUME Init PROVE Preserving
  OBVIOUS
<1> DEFINE E(p) == IF p \in Existing
                   THEN [sha |-> 0, dead |-> Nil, rev |-> 1, by |-> Nil, seq |-> 0, fp |-> 0]
                   ELSE None
           F == [p \in AllPath |-> IF p \in Existing THEN 0 ELSE Nil]
           G == [p \in AllPath |-> E(p)]
           W == [d \in Device |-> 0]
           B == [p \in AllPath |-> IF p \in Existing THEN BaselineOf(E(p)) ELSE None]
           m == [base |-> B, obs |-> 1, queue |-> <<>>, next |-> 1, acts |-> {}]
<1>1. /\ canon = [rev |-> 1, files |-> G, wm |-> W]
      /\ disk = F /\ vault = [d \in Device |-> F]
      /\ mem = [d \in Device |-> m] /\ saved = [d \in Device |-> m]
      /\ ses = [d \in Device |-> Idle] /\ made = 0
  BY Zenon DEF Init
<1>2. 0 # Nil /\ Existing \subseteq AllPath
  BY Numbers, NilIsNothing, PathsAssumption, PathIsPath
<1>3. ASSUME NEW p \in AllPath
      PROVE  IF p \in Existing
             THEN /\ F[p] = 0 /\ B[p].sha = 0
                  /\ G[p].sha = 0 /\ G[p].dead = Nil /\ G[p].fp = 0
             ELSE F[p] = Nil /\ B[p] = None /\ G[p] = None
  <2>1. CASE p \in Existing
    <3>1. G[p] = E(p) /\ F[p] = 0 /\ B[p] = BaselineOf(E(p))
      BY <2>1
    <3>2. E(p) = [sha |-> 0, dead |-> Nil, rev |-> 1, by |-> Nil, seq |-> 0, fp |-> 0]
      BY <2>1
    <3> HIDE DEF E, F, G, B
    <3>3. E(p).sha = 0 /\ E(p).dead = Nil /\ E(p).fp = 0
      BY <3>2
    <3> QED
      BY <2>1, <3>1, <3>3 DEF BaselineOf
  <2>2. CASE p \notin Existing
    BY <2>2
  <2> QED
    BY <2>1, <2>2
<1> HIDE DEF E, F, G, B, W
<1>4. canon.files = G /\ m.base = B /\ m.queue = <<>> /\ m.acts = {}
  BY <1>1
<1> HIDE DEF m
<1>5. Written(G, F, Lost) /\ Printed(G)
  <2>1. Nil # TRUE
    BY NilIsNothing
  <2> QED
    BY <1>2, <1>3, <2>1 DEF Written, Printed
<1>6. Based(B, F, F, Lost)
  BY <1>2, <1>3 DEF Based
<1>7. NoDeletes(m)
  BY <1>4 DEF NoDeletes
<1>8. \A d \in Device : vault[d] = F /\ mem[d] = m /\ saved[d] = m /\ ses[d] = Idle
  BY <1>1
<1>9. \A d \in Device : Keeping(d)
  BY <1>1, <1>4, <1>6, <1>7, <1>8 DEF Keeping
<1>10. EditsSurvive
  <2>1. \A v \in 0 .. made : v = 0
    BY <1>1
  <2>2. CASE Existing = {}
    BY <2>1, <2>2 DEF EditsSurvive
  <2>3. CASE Existing # {}
    <3>1. PICK p \in Existing : TRUE
      BY <2>3
    <3>2. p \in AllPath /\ disk[p] = 0
      BY <1>1, <1>2, <1>3
    <3> QED
      BY <2>1, <3>2 DEF EditsSurvive
  <2> QED
    BY <2>2, <2>3
<1> QED
  BY <1>1, <1>4, <1>5, <1>8, <1>9, <1>10 DEF Preserving, Alone

LEMMA PathStepSafe ==
  ASSUME Inv, Preserving, NEW d \in Device, NEW p \in AllPath, PathStep(d, p)
  PROVE  Preserving'
<1>1. CASE Upload(d, p)
  BY <1>1, UploadSafe
<1>2. CASE UploadFails(d, p)
  BY <1>2, UploadFailsSafe
<1>3. CASE DownloadRead(d, p)
  BY <1>3, DownloadReadSafe
<1>4. CASE DownloadApply(d, p)
  BY <1>4, DownloadApplySafe
<1>5. CASE DownloadFails(d, p)
  BY <1>5, DownloadFailsSafe
<1>6. CASE Resolve(d, p)
  BY <1>6, ResolveSafe
<1>7. CASE ResolveFails(d, p)
  BY <1>7, ResolveFailsSafe
<1> QED
  BY <1>1, <1>2, <1>3, <1>4, <1>5, <1>6, <1>7 DEF PathStep

LEMMA TransfersSafe ==
  ASSUME Inv, Preserving, NEW d \in Device, Transfers(d), Overlapping = FALSE
  PROVE  Preserving'
<1>1. CASE Load(d)
  BY <1>1, LoadSafe
<1>2. CASE Physical(d)
  BY <1>2, DeletionsNever
<1>3. CASE PhysicalDone(d)
  BY <1>3, PhysicalDoneSafe
<1>4. CASE ScanLocal(d) \/ ListRemote(d)
  BY <1>4, ScanSafe
<1>5. CASE Verify(d)
  BY <1>5, VerifySafe
<1>6. CASE VerifyFails(d) \/ TransferFailed(d)
  BY <1>6, FailuresSafe
<1>7. CASE Plan(d)
  BY <1>7, PlanSafe
<1>8. CASE PlanFails(d)
  BY <1>8, PlanFailsSafe
<1>9. CASE Prepare(d)
  BY <1>9, PrepareSafe
<1>10. CASE \E p \in AllPath : PathStep(d, p)
  BY <1>10, PathStepSafe
<1>11. CASE Stamp(d)
  BY <1>11, StampSafe
<1>12. CASE DownloadsDone(d)
  BY <1>12, DownloadsDoneSafe
<1>13. CASE Settle(d)
  BY <1>13, SettleSafe
<1> QED
  BY <1>1, <1>2, <1>3, <1>4, <1>5, <1>6, <1>7, <1>8, <1>9, <1>10, <1>11, <1>12, <1>13 DEF Transfers

LEMMA PublishesSafe ==
  ASSUME Inv, Preserving, NEW d \in Device, Publishes(d)
  PROVE  Preserving'
<1>1. CASE Intent(d) \/ RejectedDelete(d) \/ DeletesDone(d)
  BY <1>1, DeletionsNever
<1>2. CASE Commit(d)
  BY <1>2, CommitSafe
<1>3. CASE CommitFails(d) \/ ApplyFails(d) \/ FinalStale(d) \/ Unfinished(d)
  BY <1>3, FailuresSafe
<1>4. CASE RejectedPut(d)
  BY <1>4, RejectedPutSafe
<1>5. CASE Confirm(d)
  BY <1>5, ConfirmSafe
<1>6. CASE WriteCopy(d)
  BY <1>6, WriteCopySafe
<1>7. CASE SendCopy(d)
  BY <1>7, SendCopySafe
<1>8. CASE ApplyWinner(d)
  BY <1>8, ApplyWinnerSafe
<1>9. CASE FinalUnchanged(d) \/ FinalChanged(d)
  BY <1>9, FinalSafe
<1>10. CASE Finish(d)
  BY <1>10, FinishSafe
<1> QED
  BY <1>1, <1>2, <1>3, <1>4, <1>5, <1>6, <1>7, <1>8, <1>9, <1>10 DEF Publishes

LEMMA NextSafe ==
  ASSUME Inv, Preserving, [Next]_vars, Overlapping = FALSE, MaxDeletes = 0
  PROVE  Preserving'
<1>1. CASE UNCHANGED vars
  <2>1. /\ canon' = canon /\ disk' = disk /\ vault' = vault /\ mem' = mem /\ saved' = saved
        /\ ses' = ses /\ kept' = kept /\ past' = past /\ made' = made
    BY <1>1 DEF vars
  <2>2. Lost' = Lost
    BY <2>1 DEF Lost
  <2>3. Written(canon'.files, disk', Lost') /\ Printed(canon'.files) /\ Alone'
    BY <2>1, <2>2 DEF Preserving, Alone
  <2>4. ASSUME NEW d \in Device PROVE Keeping(d)'
    <3>1. Keeping(d)
      BY DEF Preserving
    <3> QED
      BY <2>1, <2>2, <3>1 DEF Keeping
  <2>5. EditsSurvive'
    BY <2>1 DEF Preserving, EditsSurvive
  <2> QED
    BY <2>3, <2>4, <2>5 DEF Preserving
<1>2. CASE Next
  <2>1. PICK d \in Device : Step(d) \/ User(d) \/ Fault(d)
    BY <1>2 DEF Next
  <2>2. CASE Step(d)
    <3>1. Transfers(d) \/ Publishes(d)
      BY <2>2 DEF Step, Transfers, Publishes
    <3> QED
      BY <3>1, TransfersSafe, PublishesSafe
  <2>3. CASE User(d)
    BY <2>3, UserSafe
  <2>4. CASE Fault(d)
    <3>1. CASE Crash(d)
      BY <3>1, CrashSafe
    <3>2. CASE Abort(d)
      BY <3>2, AbortSafe
    <3>3. CASE \E p \in AllPath : UploadLost(d, p)
      BY <3>3, UploadLostSafe
    <3> QED
      BY <2>4, <3>1, <3>2, <3>3 DEF Fault
  <2> QED
    BY <2>1, <2>2, <2>3, <2>4
<1> QED
  BY <1>1, <1>2

\* Where the sessions of the devices take turns and users delete nothing, no
\* version is lost: whatever users write and whatever crashes, aborted sessions
\* and lost replies there are, what no user has replaced is in a vault, on the
\* disk or in a protective copy.  Both hypotheses are needed: the model loses a
\* version where sessions overlap, and where a deletion is undone.
THEOREM EditsSurviveInTurn ==
  ASSUME Overlapping = FALSE, MaxDeletes = 0
  PROVE  Spec => []EditsSurvive
<1>1. Init => Inv /\ Preserving
  BY InitInv, InitPreserving
<1>2. Inv /\ Preserving /\ [Next]_vars => Inv' /\ Preserving'
  BY NextKeeps, NextSafe
<1>3. Preserving => EditsSurvive
  BY DEF Preserving
<1> QED
  BY <1>1, <1>2, <1>3, PTL DEF Spec
=============================================================================
