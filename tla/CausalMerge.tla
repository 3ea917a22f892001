---------------------------- MODULE CausalMerge ----------------------------
(***************************************************************************)
(* The reducer of the canonical index in its normal mode                   *)
(* (sync/canonical/merge.ts, mutation-rules.ts): how the index a device    *)
(* wants is combined with the one found under the lock.  Operators only.   *)
(* Files alone: folder tombstones, moves and maintenance are not here.     *)
(*                                                                         *)
(* An index is [rev, files, wm]: its revision, an entry or None for every  *)
(* path, and the watermark of every device (appliedMutationSeq).  An entry *)
(* is [sha, dead, rev, by, seq, fp]: content, deleted, changedRevision,    *)
(* lastModifiedBy, mutationSeq and remoteFingerprint.  The flag deleted is *)
(* optional in the code and its absence is not the same as FALSE to every  *)
(* reader, so dead is TRUE, FALSE or Nil.                                  *)
(***************************************************************************)
EXTENDS Naturals, FiniteSets

CONSTANTS
    Device,   \* installations
    Nil,      \* a field that is absent
    None      \* no entry

Live(e) == e # None /\ e.dead # TRUE

Dead(e) == e # None /\ e.dead = TRUE

----------------------------------------------------------------------------
(* classifyFileMutation.  A put of another device that the author had not  *)
(* seen (its revision is above the base of the put) stands, unless both    *)
(* say the same or it is what the author started from.                     *)

UnseenForeignPut(current, incoming, base, old) ==
    /\ Live(current)
    /\ current.rev > base
    /\ current.sha \notin {incoming.sha, old}

SameState(current, incoming) ==
    current.sha = incoming.sha /\ (Dead(current) <=> Dead(incoming))

\* base is the base revision of the mutation, old its baseline content, and
\* applied and staged are the watermarks of its device under the lock and as wanted.
Classify(current, incoming, base, old, applied, staged) ==
    CASE incoming.seq = 0      -> "invalid-sequence"
      [] incoming.seq > staged -> "fifo-gap"
      [] incoming.seq \in 1..staged /\ current # None /\ current.by = incoming.by ->
            IF incoming.seq = current.seq
            THEN IF SameState(current, incoming) THEN "idempotent" ELSE "invalid-sequence"
            ELSE IF incoming.seq < current.seq \/ incoming.seq <= applied
            THEN "stale-same-device"
            ELSE "apply"
      [] incoming.seq \in 1..staged /\ (current = None \/ current.by # incoming.by) ->
            IF Dead(incoming) THEN "apply"
            ELSE IF UnseenForeignPut(current, incoming, base, old) THEN "concurrent-foreign"
            ELSE IF Dead(current) /\ current.rev > base THEN "rejected-by-delete"
            ELSE "apply"

----------------------------------------------------------------------------
(* mergeDesiredIndex.  from[p] is the base revision of every path p whose  *)
(* logical state the device changed; stamped are the paths of which it     *)
(* only refreshed the fingerprint; old[p] is the baseline of the last      *)
(* pending put of p.                                                       *)

Decision(latest, want, from, old, p) ==
    LET by == want.files[p].by
    IN  Classify(latest.files[p], want.files[p], from[p], old[p], latest.wm[by], want.wm[by])

AppliedTo(latest, want, from, old) ==
    {p \in DOMAIN from : Decision(latest, want, from, old, p) = "apply"}

\* The reducer throws: a sequence out of order, or a fingerprint of what has changed.
OutOfOrder(latest, want, from, old) ==
    \E p \in DOMAIN from :
        Decision(latest, want, from, old, p) \in {"fifo-gap", "invalid-sequence"}

StaleStamp(latest, loaded, want, stamped) ==
    \E p \in stamped : latest.files[p] \notin {loaded.files[p], want.files[p]}

HigherMark(a, b) == IF a < b THEN b ELSE a

Merged(latest, want, from, stamped, old) ==
    LET apply   == AppliedTo(latest, want, from, old)
        stamp   == {p \in stamped : latest.files[p] # want.files[p]}
        changed == apply # {} \/ stamp # {} \/ \E e \in Device : want.wm[e] > latest.wm[e]
        next    == latest.rev + 1
    IN  [rev   |-> IF changed THEN next ELSE latest.rev,
         files |-> [p \in DOMAIN latest.files |->
                       IF p \in apply THEN [want.files[p] EXCEPT !.rev = next]
                       ELSE IF p \in stamp
                       THEN [latest.files[p] EXCEPT !.fp = want.files[p].fp]
                       ELSE latest.files[p]],
         wm    |-> [e \in Device |-> HigherMark(latest.wm[e], want.wm[e])]]

\* The puts that lost, with what cleanupRejectedUploads needs.
Rejected(latest, want, from, old) ==
    {[path |-> p,
      why  |-> Decision(latest, want, from, old, p),
      fp   |-> want.files[p].fp] :
        p \in {x \in DOMAIN from :
                  /\ Decision(latest, want, from, old, x)
                        \in {"concurrent-foreign", "rejected-by-delete"}
                  /\ want.files[x].fp # Nil}}
=============================================================================
