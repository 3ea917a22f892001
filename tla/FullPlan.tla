----------------------------- MODULE FullPlan -----------------------------
(***************************************************************************)
(* What a full synchronisation decides about one path                      *)
(* (sync/reconciliation/conflicts.ts, sync/local/baseline-rules.ts) and    *)
(* the durable queue it decides from (sync/local/operation-store.ts).      *)
(* Operators only.                                                         *)
(*                                                                         *)
(* l is the content of the path in the vault and r that on the disk (Nil:  *)
(* no file); rsha is what the device takes r for; b is its baseline and c  *)
(* the canonical entry (None: no entry).                                   *)
(***************************************************************************)
EXTENDS CausalMerge, SequencesExt

----------------------------------------------------------------------------
(* Baselines: [sha, dead, rev], rev = Nil when no revision is known.       *)

BaselineOf(c) == [sha |-> c.sha, dead |-> c.dead, rev |-> c.rev]

\* createConfirmedBaseline
Confirmed(sha, c) == [sha |-> sha, dead |-> FALSE, rev |-> IF c = None THEN Nil ELSE c.rev]

\* updateLocalFile with the metadata of a transfer, which knows no revision.
Transferred(sha) == [sha |-> sha, dead |-> Nil, rev |-> Nil]

\* hasCanonicalMetadataChanged
Changed(c, b) == c = None \/ c.dead # b.dead \/ c.sha # b.sha

Drifted(r, rsha, c) ==
    \/ c = None
    \/ c.fp # Nil /\ c.fp # r
    \/ c.fp = Nil /\ rsha # c.sha

----------------------------------------------------------------------------
(* compareFiles: both sides have the file.                                 *)

\* A mistake: an edit whose canonical side moved on is sent all the same.
CompareWithoutCanonical(l, r, rsha, b, c) ==
    IF l = rsha THEN "none" ELSE IF b = None \/ l # b.sha THEN "upload" ELSE "download"

\* A mistake: the local side is not looked at.
CompareRemoteOnly(l, r, rsha, b, c) ==
    IF l = rsha \/ b = None \/ ~(Changed(c, b) \/ Drifted(r, rsha, c)) THEN "none" ELSE "download"

Compare(l, r, rsha, b, c) ==
    LET local  == l # b.sha
        remote == Changed(c, b) \/ Drifted(r, rsha, c)
    IN  CASE l = rsha -> "none"
          [] l # rsha /\ b = None ->
                IF c # None /\ l = c.sha /\ ~Drifted(r, rsha, c) THEN "none" ELSE "conflict"
          [] l # rsha /\ b # None ->
                IF local THEN IF remote THEN "conflict" ELSE "upload"
                ELSE IF remote THEN "download" ELSE "none"

\* The path has a tombstone.  deleting: a physical deletion of the local file is pending.
UnderTombstone(l, r, b, deleting) ==
    CASE l # Nil            -> IF ~deleting /\ ~Live(b) THEN "upload" ELSE "delete_local"
      [] l = Nil /\ r # Nil -> IF b = None THEN "download" ELSE "delete_remote"
      [] l = Nil /\ r = Nil -> IF Dead(b) THEN "none" ELSE "delete_local"

\* resolveAction
Decide(l, r, rsha, b, c, deleting) ==
    CASE Dead(c) -> UnderTombstone(l, r, b, deleting)
      [] ~Dead(c) /\ l # Nil /\ r # Nil -> Compare(l, r, rsha, b, c)
      [] ~Dead(c) /\ l # Nil /\ r = Nil ->
            IF c = None \/ l = c.sha THEN "upload" ELSE "delete_local"
      [] ~Dead(c) /\ l = Nil /\ r # Nil ->
            IF \/ b = None
               \/ Dead(b) /\ c # None /\ b.rev # Nil /\ c.rev > b.rev
            THEN "download" ELSE "delete_remote"
      [] ~Dead(c) /\ l = Nil /\ r = Nil -> "none"

----------------------------------------------------------------------------
(* The durable state of a device: [base, obs, queue, next, acts], its      *)
(* baselines, observed revision, pending mutations, next sequence and      *)
(* pending physical deletions.  A mutation is [seq, kind, path, sha, base, *)
(* old], a physical deletion [kind, path, fp].                             *)

Mutation(m, kind, p, sha, old, base) ==
    [seq |-> m.next, kind |-> kind, path |-> p, sha |-> sha, base |-> base, old |-> old]

\* enqueueMutation
Enqueue(m, kind, p, sha, old, base) ==
    [m EXCEPT !.queue = Append(@, Mutation(m, kind, p, sha, old, base)), !.next = @ + 1]

Puts(m, p) == {i \in DOMAIN m.queue : m.queue[i].kind = "put" /\ m.queue[i].path = p}

PutsOf(m, p, sha) == {i \in Puts(m, p) : m.queue[i].sha = sha}

Deletes(m, p) == {i \in DOMAIN m.queue : m.queue[i].kind = "delete" /\ m.queue[i].path = p}

LastOf(m, is) == m.queue[Max(is)]

\* A pending put of the same content keeps its sequence.
EnsurePut(m, p, sha, old, base) ==
    IF PutsOf(m, p, sha) # {} THEN m ELSE Enqueue(m, "put", p, sha, old, base)

\* What a mutation of p is to replace, by the device's baseline.
Known(m, p) == IF m.base[p] = None THEN Nil ELSE m.base[p].sha

\* One mutation for each of the paths, in some order.
EnqueueEach(m, kind, paths, sha, base) ==
    LET order == SetToSeq(paths)
        x(i)  == [seq |-> m.next + i - 1, kind |-> kind, path |-> order[i],
                  sha |-> sha[order[i]], base |-> base, old |-> Known(m, order[i])]
    IN  [m EXCEPT !.queue = @ \o [i \in 1..Cardinality(paths) |-> x(i)],
                  !.next = @ + Cardinality(paths)]

\* A mistake: the mutation the watermark names counts as unconfirmed.
UnconfirmedInclusive(m, mark) ==
    SubSeq(m.queue, Cardinality({i \in DOMAIN m.queue : m.queue[i].seq < mark}) + 1, Len(m.queue))

\* What remains above the watermark.  Sequences ascend, so this is the end of the queue.
Unconfirmed(m, mark) ==
    SubSeq(m.queue, Cardinality({i \in DOMAIN m.queue : m.queue[i].seq <= mark}) + 1, Len(m.queue))

\* ensureSequenceFloor: what remains continues the watermark.
Continues(m, mark) ==
    LET q == Unconfirmed(m, mark)
    IN  \A i \in DOMAIN q : q[i].seq = mark + i

\* A mistake: a device never learns what the canonical index confirmed.
OwnFloor(m, mark) == m.next

Floor(m, mark) == HigherMark(m.next, mark + Len(Unconfirmed(m, mark)) + 1)

\* stageMutation, stagePendingMutations
Staged(mark, seq) == IF seq = mark + 1 THEN seq ELSE mark

StagedAll(m, mark) ==
    IF \E i \in DOMAIN m.queue : m.queue[i].seq = mark + 1
    THEN m.queue[Len(m.queue)].seq ELSE mark

\* replacePutWithNoop
Settled(x) == [x EXCEPT !.kind = "noop", !.sha = Nil, !.old = Nil]

\* enqueuePhysicalAction: one per kind and path; what a new one knows wins.
Same(a, b) == a.kind = b.kind /\ a.path = b.path

AddActs(acts, new) ==
    {x \in acts : ~\E a \in new : Same(a, x) /\ a.fp # Nil}
    \cup {a \in new : a.fp # Nil \/ ~\E x \in acts : Same(a, x)}

Deleting(m, p) == \E a \in m.acts : a.kind = "local" /\ a.path = p
=============================================================================
