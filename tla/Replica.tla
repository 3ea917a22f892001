------------------------------ MODULE Replica ------------------------------
(***************************************************************************)
(* Devices that keep their vaults equal through full synchronisations      *)
(* (sync/workflows/full.ts with sync/reconciliation, sync/files and the    *)
(* index manager).  A session loads the canonical index, finishes physical *)
(* deletions left over, scans both sides, plans, transfers, publishes      *)
(* deletions, resolves conflicts, commits and marks the result observed.   *)
(* Sessions of several devices, and the users' edits, interleave between   *)
(* its steps; a device may crash, and a session fail, at any of them.      *)
(*                                                                         *)
(* A canonical commit is one step: CanonicalTransaction shows that it is.  *)
(* The check that precedes a PUT, DELETE or vault write is one step with   *)
(* it.  Content is in plain, so a fingerprint is the content itself.       *)
(* Folders, renames, realtime batches, encryption and Force are not here.  *)
(***************************************************************************)
EXTENDS FullPlan

CONSTANTS
    Path,         \* paths users write
    Existing,     \* those that every device has at the start
    MaxVersion,   \* bound on user writes
    MaxDeletes,   \* bound on user deletions
    MaxFaults,    \* bound on crashes, failed sessions and lost replies
    MaxRevision,  \* bound on revisions: no session starts above it
    Overlapping   \* whether sessions of different devices overlap in time

ASSUME PathsAssumption == IsFiniteSet(Path) /\ Existing \subseteq Path
ASSUME BoundsAssumption == {MaxVersion, MaxDeletes, MaxFaults, MaxRevision} \subseteq Nat
ASSUME OverlappingAssumption == Overlapping \in BOOLEAN

Version == 0..MaxVersion

\* The conflict copy of a version of a path has a name derived from both.
CopyOf(p, v) == <<p, v>>

AllPath == Path \cup {CopyOf(p, v) : p \in Path, v \in Version}

\* Users give no file the name of a conflict copy.
ASSUME CopiesAssumption == \A p \in Path, v \in Version : CopyOf(p, v) \notin Path

\* The absence of a value is none of the values.
ASSUME NilAssumption == Nil \notin Version /\ Nil \notin AllPath /\ Nil \notin BOOLEAN

VARIABLES
    canon,     \* the canonical index
    disk,      \* disk[p]: content of the file on the disk, Nil if absent
    vault,     \* vault[d][p]: content of the local file, Nil if absent
    mem,       \* mem[d]: durable state of the device as it is in memory
    saved,     \* saved[d]: the same as last stored
    ses,       \* ses[d]: the running session
    dropped,   \* devices that took from their queue what the index does not have
    kept,      \* versions in a protective copy or the trash of a device or the disk
    past,      \* versions a user has knowingly replaced or deleted
    made,      \* number of user writes so far
    deletes,   \* number of user deletions so far
    faults     \* number of faults so far

users == <<past, made, deletes>>
vars  == <<canon, disk, vault, mem, saved, ses, dropped, kept, past, made, deletes, faults>>

\* f with the values of g, and with the value v of p.
Over(f, g) == [x \in DOMAIN f \cup DOMAIN g |-> IF x \in DOMAIN g THEN g[x] ELSE f[x]]

With(f, p, v) == Over(f, [x \in {p} |-> v])

EmptyPlan == [p \in AllPath |-> "none"]

NoFile == [p \in AllPath |-> Nil]

\* pc is what comes next; load and want are the loaded and the desired index,
\* from and stamped the paths changed in the latter; l and r the two scans;
\* todo the rest of the current group; got content read but not yet applied;
\* at the path in conflict, why whether a planned one or a rejected put.
Idle == [pc |-> "idle", load |-> None, want |-> None, from |-> <<>>, stamped |-> {},
         l |-> NoFile, r |-> NoFile, plan |-> EmptyPlan, had |-> FALSE, early |-> FALSE,
         bad |-> FALSE, todo |-> {}, got |-> <<>>, rejected |-> {}, at |-> Nil,
         why |-> "none", ret |-> "none"]

Init ==
    LET entry(p) == IF p \in Existing
                    THEN [sha |-> 0, dead |-> Nil, rev |-> 1, by |-> Nil, seq |-> 0, fp |-> 0]
                    ELSE None
        files    == [p \in AllPath |-> IF p \in Existing THEN 0 ELSE Nil]
        device   == [base  |-> [p \in AllPath |->
                                  IF p \in Existing THEN BaselineOf(entry(p)) ELSE None],
                     obs   |-> 1,
                     queue |-> <<>>,
                     next  |-> 1,
                     acts  |-> {}]
    IN  /\ canon = [rev |-> 1, files |-> [p \in AllPath |-> entry(p)], wm |-> [d \in Device |-> 0]]
        /\ disk = files
        /\ vault = [d \in Device |-> files]
        /\ mem = [d \in Device |-> device]
        /\ saved = [d \in Device |-> device]
        /\ ses = [d \in Device |-> Idle]
        /\ dropped = {} /\ kept = {} /\ past = {} /\ made = 0 /\ deletes = 0 /\ faults = 0

----------------------------------------------------------------------------
(* Users.                                                                  *)

UserWrite(d, p) ==
    /\ made < MaxVersion
    /\ made' = made + 1
    /\ vault' = [vault EXCEPT ![d][p] = made + 1]
    /\ past' = past \cup ({vault[d][p]} \ {Nil})
    /\ UNCHANGED <<canon, disk, mem, saved, ses, dropped, kept, deletes, faults>>

UserDelete(d, p) ==
    /\ deletes < MaxDeletes
    /\ vault[d][p] # Nil
    /\ deletes' = deletes + 1
    /\ vault' = [vault EXCEPT ![d][p] = Nil]
    /\ past' = past \cup {vault[d][p]}
    /\ UNCHANGED <<canon, disk, mem, saved, ses, dropped, kept, made, faults>>

----------------------------------------------------------------------------
(* Steps of a session.                                                     *)

At(d, pc) == ses[d].pc = pc

\* Step of device d to the session s with the durable state m, stored if save.
Session(d, s, m, save) ==
    /\ ses' = [ses EXCEPT ![d] = s]
    /\ mem' = [mem EXCEPT ![d] = m]
    /\ saved' = IF save THEN [saved EXCEPT ![d] = m] ELSE saved

\* The next group of the plan with work, or else what follows the plan.
Ops(s, kinds) == {p \in AllPath : s.plan[p] \in kinds}

DeleteKinds == {"delete_local", "delete_remote"}

Enter(s, group) ==
    LET pick(pc, todo) == [s EXCEPT !.pc = pc, !.todo = todo]
        conflicts == IF Ops(s, {"conflict"}) # {}
                     THEN pick("conflict", Ops(s, {"conflict"})) ELSE pick("final", {})
        downloads == IF Ops(s, {"download"}) # {}
                     THEN pick("download", Ops(s, {"download"})) ELSE pick("settle", {})
    IN  CASE group = "upload" ->
                IF Ops(s, {"upload"}) # {} THEN pick("upload", Ops(s, {"upload"})) ELSE downloads
          [] group = "download" -> downloads
          [] group = "delete" -> IF Ops(s, DeleteKinds) # {} THEN pick("intent", {}) ELSE conflicts
          [] group = "conflict" -> conflicts

\* The session ends without success; concurrent changes store the state, other errors do not.
Fail(d) ==
    \E save \in BOOLEAN :
        /\ Session(d, Idle, mem[d], save)
        /\ UNCHANGED <<canon, disk, vault, kept, dropped, users, faults>>

FailStored(d) ==
    /\ Session(d, Idle, mem[d], TRUE)
    /\ UNCHANGED <<canon, disk, vault, kept, dropped, users, faults>>

\* The entry of a path after a deletion, markRemoteFileDeleted.
Tombstone(d, c, b, seq) ==
    LET meta == IF c # None THEN c
                ELSE [sha |-> IF b = None THEN Nil ELSE b.sha,
                      rev |-> IF b = None THEN Nil ELSE b.rev, fp |-> Nil]
    IN  [sha |-> meta.sha, dead |-> TRUE, rev |-> meta.rev, by |-> d, seq |-> seq, fp |-> meta.fp]

DeadBaseline(b) == IF b = None THEN None ELSE [b EXCEPT !.dead = TRUE]

\* Deletions of the paths ps, each with a pending mutation of m.
WithDeletions(d, s, m, ps) ==
    LET last(p) == LastOf(m, Deletes(m, p))
        new     == {p \in ps : ~Dead(s.want.files[p])}
    IN  [s EXCEPT !.want.files = [p \in AllPath |->
                        IF p \in new THEN Tombstone(d, @[p], m.base[p], last(p).seq) ELSE @[p]],
                  !.from = Over(@, [p \in new |-> last(p).base])]

WithDeadBaselines(m, ps) ==
    [m EXCEPT !.base = [p \in AllPath |-> IF p \in ps THEN DeadBaseline(@[p]) ELSE @[p]]]

\* loadFullCanonical and prepareFullReconciliation, with replayPendingMutations.
Load(d) ==
    /\ At(d, "idle")
    /\ canon.rev <= MaxRevision
    /\ Overlapping \/ \A e \in Device : ses[e] = Idle
    /\ Continues(mem[d], canon.wm[d])
    /\ LET m    == mem[d]
           rest == [m EXCEPT !.queue = Unconfirmed(m, canon.wm[d]), !.next = Floor(m, canon.wm[d])]
           gone == {p \in AllPath : Deletes(rest, p) # {}}
           m2   == WithDeadBaselines(rest, gone)
           s    == [Idle EXCEPT !.pc   = IF m.acts = {} THEN "scan" ELSE "physical",
                                !.load = canon,
                                !.want = canon,
                                !.had  = m.queue # <<>> \/ m.acts # {},
                                !.todo = m.acts,
                                !.ret  = "scan"]
       IN  Session(d, WithDeletions(d, s, rest, gone), m2, Len(rest.queue) < Len(m.queue))
    /\ UNCHANGED <<canon, disk, vault, kept, dropped, users, faults>>

----------------------------------------------------------------------------
(* Physical deletions: deleteLocalFile and deleteRemoteFile.  A deletion   *)
(* is authorised while the canonical entry is a tombstone; otherwise it is *)
(* dropped.  A remote object that is not the expected one is left alone,   *)
(* and the action stays.  Both deletions leave the content in a trash.     *)

\* A mistake: the tombstone must be the latest change of the index.
AuthorisedIfLatest(a) == Dead(canon.files[a.path]) /\ canon.files[a.path].rev = canon.rev

Authorised(a) == Dead(canon.files[a.path])

Foreign(a) == disk[a.path] \notin {Nil, a.fp}

\* The contents that files had and no file of that path has any more.
Gone(files, now) == {files[p] : p \in {x \in AllPath : now[x] # files[x]}} \ {Nil}

\* The effect of the deletion a on both sides.
Delete(d, a) ==
    /\ vault' = IF a.kind = "local" /\ Authorised(a)
                THEN [vault EXCEPT ![d][a.path] = Nil] ELSE vault
    /\ disk' = IF a.kind = "remote" /\ Authorised(a) /\ ~Foreign(a)
               THEN [disk EXCEPT ![a.path] = Nil] ELSE disk
    /\ kept' = kept \cup (Gone(vault[d], vault'[d]) \cup Gone(disk, disk'))

Stays(a) == a.kind = "remote" /\ Authorised(a) /\ Foreign(a)

\* One deletion of resumePendingPhysicalActions or of the plan.  The local one
\* of a path comes first, and in a plan the remote one only after it succeeded.
Physical(d) ==
    /\ ses[d].pc \in {"physical", "delete"}
    /\ \E a \in ses[d].todo :
          /\ a.kind = "remote" => ~\E x \in ses[d].todo : x.kind = "local" /\ x.path = a.path
          /\ Delete(d, a)
          /\ Session(d, [ses[d] EXCEPT
                            !.todo = IF At(d, "delete") /\ a.kind = "local" /\ ~Authorised(a)
                                     THEN {x \in @ : x.path # a.path} ELSE @ \ {a},
                            !.bad = @ \/ Stays(a)],
                     [mem[d] EXCEPT !.acts = IF Stays(a) THEN @ ELSE @ \ {a}], FALSE)
    /\ UNCHANGED <<canon, dropped, users, faults>>

PhysicalDone(d) ==
    /\ At(d, "physical") /\ ses[d].todo = {}
    /\ Session(d, IF ses[d].ret = "scan" /\ ses[d].bad THEN Idle
                  ELSE [ses[d] EXCEPT !.pc = ses[d].ret], mem[d], TRUE)
    /\ UNCHANGED <<canon, disk, vault, kept, dropped, users, faults>>

----------------------------------------------------------------------------
(* scanFullReconciliation: the two scans run side by side.                 *)

ScanLocal(d) ==
    /\ ses[d].pc \in {"scan", "local"}
    /\ Session(d, [ses[d] EXCEPT !.pc = IF @ = "scan" THEN "list" ELSE "verify", !.l = vault[d]],
               mem[d], FALSE)
    /\ UNCHANGED <<canon, disk, vault, kept, dropped, users, faults>>

ListRemote(d) ==
    /\ ses[d].pc \in {"scan", "list"}
    /\ Session(d, [ses[d] EXCEPT !.pc = IF @ = "scan" THEN "local" ELSE "verify", !.r = disk],
               mem[d], FALSE)
    /\ UNCHANGED <<canon, disk, vault, kept, dropped, users, faults>>

\* verifyRemoteContentCandidates: what the device takes the remote content for.
\* Content is read again where the listing is not what the index says.
Unverified(s, p) ==
    LET c == s.want.files[p]
    IN  /\ Nil \notin {s.l[p], s.r[p]}
        /\ ~Dead(c)
        /\ c = None \/ c.fp # s.r[p]

Stamped(s, p) ==
    Unverified(s, p) /\ s.want.files[p] # None /\ s.want.files[p].sha = disk[p]

Verified(s) ==
    [s EXCEPT !.r = [p \in AllPath |-> IF Unverified(s, p) THEN disk[p] ELSE @[p]],
              !.stamped = {p \in AllPath : Stamped(s, p)},
              !.want.files = [p \in AllPath |->
                    IF Stamped(s, p) THEN [@[p] EXCEPT !.fp = disk[p]] ELSE @[p]]]

TakenFor(s, p) ==
    LET c == s.want.files[p]
    IN  IF s.l[p] # Nil /\ Live(c) /\ c.fp = s.r[p] THEN c.sha ELSE s.r[p]

\* determineOperations.  A deletion that nothing is left to do for is dropped.
Planned(s, m, p) ==
    Decide(s.l[p], s.r[p], TakenFor(s, p), m.base[p], s.want.files[p], Deleting(m, p))

Moot(s, m, p) ==
    /\ ~s.had
    /\ {s.l[p], s.r[p]} = {Nil}
    /\ Planned(s, m, p) = "delete_local"

PlanOf(s, m) ==
    [p \in AllPath |-> IF Moot(s, m, p) THEN "none" ELSE Planned(s, m, p)]

\* recordConfirmedBaselines: paths found equal get a baseline, and a put if
\* the canonical index does not say so.
Untracked(s, p) ==
    ~Live(s.want.files[p]) \/ s.want.files[p].sha # s.l[p]

Agreed(s, p) == s.plan[p] = "none" /\ Nil \notin {s.l[p], s.r[p]}

Confirming(s) == {p \in AllPath : Agreed(s, p) /\ Untracked(s, p)}

WithConfirmed(s, m) ==
    [EnqueueEach(m, "put", {p \in Confirming(s) : PutsOf(m, p, s.l[p]) = {}}, s.l, s.want.rev)
        EXCEPT !.base = [p \in AllPath |->
            IF Agreed(s, p) THEN Confirmed(s.l[p], s.want.files[p]) ELSE @[p]]]

\* The desired entry of content sha of p after the put x of device d.
PutEntry(d, x, sha, dead, rev, fp) ==
    [sha |-> sha, dead |-> dead, rev |-> rev, by |-> d, seq |-> x.seq, fp |-> fp]

Canonicalised(d, s, m) ==
    LET new  == Confirming(s)
        x(p) == LastOf(m, PutsOf(m, p, s.l[p]))
    IN  [s EXCEPT !.want.files = [p \in AllPath |->
                        IF p \in new THEN PutEntry(d, x(p), s.l[p], FALSE, Nil, s.r[p]) ELSE @[p]],
                  !.from = Over(@, [p \in new |-> x(p).base]),
                  !.stamped = @ \ new]

\* reconcileCompletedPhysicalActions
StillToDo(s, acts) ==
    {a \in acts : IF a.kind = "local" THEN s.l[a.path] # Nil ELSE s.r[a.path] # Nil}

\* Content read again is there, and the local file is as scanned.
Settles(d) ==
    \A p \in AllPath : Unverified(ses[d], p) => disk[p] # Nil /\ vault[d][p] = ses[d].l[p]

Verify(d) ==
    /\ At(d, "verify")
    /\ Settles(d)
    /\ Session(d, [Verified(ses[d]) EXCEPT !.pc = "plan"], mem[d], FALSE)
    /\ UNCHANGED <<canon, disk, vault, kept, dropped, users, faults>>

VerifyFails(d) ==
    /\ At(d, "verify")
    /\ ~Settles(d)
    /\ Fail(d)

\* reconcileCompletedPhysicalActions, then the plan and the baselines.
Remaining(d) == [mem[d] EXCEPT !.acts = StillToDo(ses[d], @)]

\* What the scans did not find is not there.
StillAbsent(d) == \A p \in AllPath : Moot(ses[d], Remaining(d), p) => vault[d][p] = Nil

Plan(d) ==
    /\ At(d, "plan")
    /\ StillAbsent(d)
    /\ LET m == Remaining(d)
           s == [ses[d] EXCEPT !.plan = PlanOf(ses[d], m), !.pc = "prepare"]
           n == WithConfirmed(s, m)
       IN  /\ ses' = [ses EXCEPT ![d] = Canonicalised(d, s, n)]
           /\ mem' = [mem EXCEPT ![d] = n]
           /\ saved' = [saved EXCEPT ![d] = IF n.next > m.next THEN n
                                             ELSE IF m # mem[d] THEN m ELSE @]
    /\ UNCHANGED <<canon, disk, vault, kept, dropped, users, faults>>

PlanFails(d) ==
    /\ At(d, "plan")
    /\ ~StillAbsent(d)
    /\ \E save \in BOOLEAN : Session(d, Idle, Remaining(d), save)
    /\ UNCHANGED <<canon, disk, vault, kept, dropped, users, faults>>

\* prepareFullUploadMutations: puts are stored before anything is sent.
WithUploads(s, m) ==
    EnqueueEach(m, "put", {p \in Ops(s, {"upload"}) : PutsOf(m, p, s.l[p]) = {}}, s.l, m.obs)

Prepare(d) ==
    /\ At(d, "prepare")
    /\ Session(d, Enter(ses[d], "upload"), WithUploads(ses[d], mem[d]),
               Ops(ses[d], {"upload"}) # {})
    /\ UNCHANGED <<canon, disk, vault, kept, dropped, users, faults>>

----------------------------------------------------------------------------
(* Uploads: executeOperationsParallel, one file per step.  The index still *)
(* says of the path what it said at the start, and the disk has what was   *)
(* listed.  The others of the group go on when one fails.                  *)

SameAuthority(s, p) ==
    LET c == canon.files[p]
        w == s.want.files[p]
    IN  IF c = None \/ w = None THEN c = w
        ELSE c.sha = w.sha /\ c.rev = w.rev /\ c.dead = w.dead

\* A mistake: the remote object is not compared with the listing.
MayUploadUnseen(d, p) == vault[d][p] = ses[d].l[p] /\ SameAuthority(ses[d], p)

MayUpload(d, p) ==
    /\ vault[d][p] = ses[d].l[p]
    /\ SameAuthority(ses[d], p)
    /\ disk[p] = ses[d].r[p]

\* uploadFile and stampFullUploadMutations
Upload(d, p) ==
    /\ At(d, "upload") /\ p \in ses[d].todo
    /\ MayUpload(d, p)
    /\ disk' = [disk EXCEPT ![p] = ses[d].l[p]]
    /\ LET s == ses[d]
           x == LastOf(mem[d], PutsOf(mem[d], p, s.l[p]))
       IN  Session(d, [s EXCEPT !.todo = @ \ {p},
                                !.want.files[p] = PutEntry(d, x, s.l[p], Nil, Nil, Nil),
                                !.from = With(@, p, LastOf(mem[d], Puts(mem[d], p)).base)],
                   [mem[d] EXCEPT !.base[p] = Transferred(s.l[p])], FALSE)
    /\ UNCHANGED <<canon, vault, kept, dropped, users, faults>>

\* The reply of the PUT is lost, and so is the attempt to confirm it.
UploadLost(d, p) ==
    /\ At(d, "upload") /\ p \in ses[d].todo
    /\ MayUpload(d, p)
    /\ faults < MaxFaults
    /\ faults' = faults + 1
    /\ disk' = [disk EXCEPT ![p] = ses[d].l[p]]
    /\ Session(d, [ses[d] EXCEPT !.todo = @ \ {p}, !.bad = TRUE], mem[d], FALSE)
    /\ UNCHANGED <<canon, vault, kept, dropped, users>>

UploadFails(d, p) ==
    /\ At(d, "upload") /\ p \in ses[d].todo
    /\ ~MayUpload(d, p)
    /\ Session(d, [ses[d] EXCEPT !.todo = @ \ {p}, !.bad = TRUE], mem[d], FALSE)
    /\ UNCHANGED <<canon, disk, vault, kept, dropped, users, faults>>

\* refreshMissingServerMetadata and applyServerMtimes, also of older entries.
Missing(s) ==
    {p \in AllPath : Live(s.want.files[p]) /\ s.want.files[p].fp = Nil /\ disk[p] # Nil}

Stamp(d) ==
    /\ At(d, "upload") /\ ses[d].todo = {}
    /\ ~ses[d].bad
    /\ LET s == ses[d]
       IN  Session(d, Enter([s EXCEPT
                                !.want.files = [p \in AllPath |->
                                    IF p \in Missing(s) THEN [@[p] EXCEPT !.fp = disk[p]]
                                    ELSE @[p]],
                                !.stamped = @ \cup (Missing(s) \ DOMAIN s.from)], "download"),
                   mem[d], FALSE)
    /\ UNCHANGED <<canon, disk, vault, kept, dropped, users, faults>>

\* A failed transfer ends the session after its group.
TransferFailed(d) ==
    /\ ses[d].pc \in {"upload", "download"} /\ ses[d].todo = {}
    /\ ses[d].bad
    /\ FailStored(d)

----------------------------------------------------------------------------
(* Downloads: content is read, then applied if the local file is still as  *)
(* scanned.  A local version that is in no baseline is copied away first.  *)

Backup(d, p, content) ==
    {vault[d][p]} \ ({Nil, content} \cup (IF mem[d].base[p] = None THEN {} ELSE {mem[d].base[p].sha}))

\* applyDownloadedContent: the file, then its baseline.  Content that the
\* index does not know is a put of this device.
Apply(d, s, p, content) ==
    LET c == s.want.files[p]
        m == mem[d]
        q == EnsurePut(m, p, content, IF c = None THEN Nil ELSE c.sha, m.obs)
        x == LastOf(q, PutsOf(q, p, content))
    IN  /\ vault' = [vault EXCEPT ![d][p] = content]
        /\ kept' = kept \cup Backup(d, p, content)
        /\ IF Live(c) /\ c.sha = content
           THEN Session(d, s, [m EXCEPT !.base[p] = Confirmed(content, c)], FALSE)
           ELSE Session(d, [s EXCEPT
                               !.want.files[p] = PutEntry(d, x, content, Nil, Nil, disk[p]),
                               !.want.wm[d] = Staged(@, x.seq),
                               !.from = With(@, p, s.load.rev),
                               !.stamped = @ \ {p}],
                        [q EXCEPT !.base[p] = Transferred(content)], FALSE)

DownloadRead(d, p) ==
    /\ At(d, "download") /\ p \in ses[d].todo
    /\ p \notin DOMAIN ses[d].got
    /\ disk[p] # Nil
    /\ Session(d, [ses[d] EXCEPT !.got = With(@, p, disk[p])], mem[d], FALSE)
    /\ UNCHANGED <<canon, disk, vault, kept, dropped, users, faults>>

DownloadApply(d, p) ==
    /\ At(d, "download") /\ p \in DOMAIN ses[d].got
    /\ vault[d][p] = ses[d].l[p]
    /\ Apply(d, [ses[d] EXCEPT !.todo = @ \ {p},
                               !.got = [x \in DOMAIN @ \ {p} |-> @[x]]], p, ses[d].got[p])
    /\ UNCHANGED <<canon, disk, dropped, users, faults>>

\* The remote file is gone, or the local one has changed.
DownloadFails(d, p) ==
    /\ At(d, "download") /\ p \in ses[d].todo
    /\ IF p \in DOMAIN ses[d].got THEN vault[d][p] # ses[d].l[p] ELSE disk[p] = Nil
    /\ Session(d, [ses[d] EXCEPT !.todo = @ \ {p}, !.bad = TRUE,
                                 !.got = [x \in DOMAIN @ \ {p} |-> @[x]]], mem[d], FALSE)
    /\ UNCHANGED <<canon, disk, vault, kept, dropped, users, faults>>

DownloadsDone(d) ==
    /\ At(d, "download") /\ ses[d].todo = {}
    /\ ~ses[d].bad
    /\ Session(d, [ses[d] EXCEPT !.pc = "settle"], mem[d], FALSE)
    /\ UNCHANGED <<canon, disk, vault, kept, dropped, users, faults>>

----------------------------------------------------------------------------
(* settleFullSyncPendingPuts: a put that is not what the desired index     *)
(* says becomes a no-op that keeps its sequence.                           *)

Superseded(s, x) ==
    /\ x.kind = "put"
    /\ LET c == s.want.files[x.path] IN ~Live(c) \/ c.sha # x.sha

Settle(d) ==
    /\ At(d, "settle")
    /\ LET s == ses[d]
           q == [i \in DOMAIN mem[d].queue |->
                    IF Superseded(s, mem[d].queue[i]) THEN Settled(mem[d].queue[i])
                    ELSE mem[d].queue[i]]
       IN  Session(d, Enter(s, "delete"), [mem[d] EXCEPT !.queue = q], q # mem[d].queue)
    /\ UNCHANGED <<canon, disk, vault, kept, dropped, users, faults>>

----------------------------------------------------------------------------
(* commitDeletionIntents: mutations and physical actions are stored before *)
(* the index is committed.  Local deletions of paths that already have     *)
(* their tombstone need no commit.                                         *)

Pending(s, m) == m.queue # <<>> \/ s.want # s.load

AlreadyPublished(s, m) ==
    /\ ~s.had
    /\ ~Pending(s, m)
    /\ \A p \in Ops(s, DeleteKinds) :
          s.plan[p] = "delete_local" /\ s.r[p] = Nil /\ Dead(s.want.files[p])

ActsFor(s, p) ==
    (IF s.plan[p] = "delete_local" THEN {[kind |-> "local", path |-> p, fp |-> Nil]} ELSE {})
    \cup (IF s.r[p] # Nil \/ s.plan[p] = "delete_remote"
          THEN {[kind |-> "remote", path |-> p, fp |-> s.r[p]]} ELSE {})

AllActs(s, ps) == UNION {ActsFor(s, p) : p \in ps}

WithActs(m, acts) == [m EXCEPT !.acts = AddActs(@, acts)]

\* The physical actions of m for what acts asks.
Stored(m, acts) == {a \in m.acts : \E x \in acts : x.kind = a.kind /\ x.path = a.path}

Intent(d) ==
    /\ At(d, "intent")
    /\ LET s   == ses[d]
           ps  == Ops(s, DeleteKinds)
           new == {p \in ps : ~Dead(s.want.files[p])}
           m1  == EnqueueEach(mem[d], "delete", {p \in new : Deletes(mem[d], p) = {}},
                              NoFile, mem[d].obs)
           m2  == WithActs(WithDeadBaselines(m1, new), AllActs(s, ps))
       IN  Session(d, IF AlreadyPublished(s, mem[d])
                      THEN [s EXCEPT !.pc = "delete", !.todo = Stored(m2, AllActs(s, ps))]
                      ELSE [WithDeletions(d, s, m1, new) EXCEPT !.pc = "commit",
                                                                !.ret = "delete"],
                   m2, TRUE)
    /\ UNCHANGED <<canon, disk, vault, kept, dropped, users, faults>>

----------------------------------------------------------------------------
(* saveRemoteIndexOrAbort and saveRemoteIndexBestEffort: the reducer under *)
(* the lock, with every pending mutation staged except for a conflict copy.*)

ForCopy(s) == s.at # Nil

Desired(d) ==
    LET s == ses[d]
    IN  IF ForCopy(s) THEN s.want
        ELSE [s.want EXCEPT !.wm[d] = StagedAll(mem[d], @)]

OldOf(m) == [p \in AllPath |-> IF Puts(m, p) = {} THEN Nil ELSE LastOf(m, Puts(m, p)).old]

Gap(d) == OutOfOrder(canon, Desired(d), ses[d].from, OldOf(mem[d]))

Refused(d) ==
    Gap(d) \/ StaleStamp(canon, ses[d].load, Desired(d), ses[d].stamped)

Commit(d) ==
    /\ At(d, "commit")
    /\ ~Refused(d)
    /\ LET s == ses[d]
           n == Merged(canon, Desired(d), s.from, s.stamped, OldOf(mem[d]))
       IN  /\ canon' = n
           /\ Session(d, [s EXCEPT !.load = n, !.want = n, !.from = <<>>, !.stamped = {},
                                   !.rejected = @ \cup Rejected(canon, Desired(d), s.from,
                                                                OldOf(mem[d])),
                                   !.pc = IF ForCopy(s) THEN "apply" ELSE "cleanup"],
                      mem[d], FALSE)
    /\ UNCHANGED <<disk, vault, kept, dropped, users, faults>>

\* A conflict whose copy is not committed is left for a later session; the
\* copy of a rejected put, the deletions and the final commit end this one.
NextConflict(s) ==
    [s EXCEPT !.at = Nil, !.got = <<>>, !.pc = IF s.todo = {} THEN "final" ELSE "conflict"]

ConflictFails(d) ==
    LET s == ses[d]
    IN  IF s.why = "planned"
        THEN /\ Session(d, NextConflict([s EXCEPT !.bad = TRUE]), mem[d], FALSE)
             /\ UNCHANGED <<canon, disk, vault, kept, dropped, users, faults>>
        ELSE Fail(d)

CommitFails(d) ==
    /\ At(d, "commit")
    /\ Refused(d)
    /\ IF ForCopy(ses[d]) THEN ConflictFails(d) ELSE Fail(d)

----------------------------------------------------------------------------
(* cleanupRejectedUploads: the file of a put that lost to a deletion goes; *)
(* one that lost to another put is kept as a conflict copy.                *)

RejectedDelete(d) ==
    /\ At(d, "cleanup")
    /\ \E x \in ses[d].rejected :
          LET a     == [kind |-> "remote", path |-> x.path, fp |-> x.fp]
              here  == vault[d][x.path] # Nil
              goes  == Authorised(a)
              stays == goes /\ Foreign(a)
              done  == IF here THEN IF goes THEN {"local", "remote"} ELSE {"local"}
                       ELSE {"remote"}
          IN  /\ x.why = "rejected-by-delete"
              /\ vault' = IF goes THEN [vault EXCEPT ![d][x.path] = Nil] ELSE vault
              /\ disk' = IF goes /\ ~stays THEN [disk EXCEPT ![x.path] = Nil] ELSE disk
              /\ kept' = kept \cup (Gone(vault[d], vault'[d]) \cup Gone(disk, disk'))
              /\ Session(d, [ses[d] EXCEPT !.rejected = @ \ {x}],
                         [mem[d] EXCEPT
                             !.base[x.path] = IF goes /\ here THEN DeadBaseline(@) ELSE @,
                             !.acts = {y \in @ : y.path # x.path \/ y.kind \notin done}
                                      \cup (IF stays THEN {a} ELSE {})], here)
    /\ UNCHANGED <<canon, dropped, users, faults>>

RejectedPut(d) ==
    /\ At(d, "cleanup")
    /\ \E x \in ses[d].rejected :
          LET s == [ses[d] EXCEPT !.rejected = @ \ {x}]
          IN  /\ x.why = "concurrent-foreign"
              /\ IF vault[d][x.path] = Nil THEN Session(d, s, mem[d], FALSE)
                 ELSE Session(d, [s EXCEPT !.at = x.path, !.why = "rejected", !.pc = "copy",
                                           !.l[x.path] = vault[d][x.path]], mem[d], FALSE)
    /\ UNCHANGED <<canon, disk, vault, kept, dropped, users, faults>>

\* confirmAppliedMutations, and on to the deletions or the end.  What the
\* desired index counts as accepted leaves the queue: since the commit, the
\* winner of a rejected put may have added a put to it.
Confirm(d) ==
    /\ At(d, "cleanup") /\ ses[d].rejected = {}
    /\ LET s    == ses[d]
           m    == [mem[d] EXCEPT !.queue = Unconfirmed(mem[d], s.want.wm[d])]
           acts == AllActs(s, {p \in Ops(s, DeleteKinds) : Dead(s.want.files[p])})
           m2   == WithActs(m, {[a EXCEPT !.fp = Nil] : a \in acts})
       IN  /\ IF s.ret = "delete"
              THEN Session(d, [s EXCEPT !.pc = "delete", !.early = TRUE, !.todo = Stored(m2, acts)],
                           m2, TRUE)
              ELSE Session(d, [s EXCEPT !.pc = "physical", !.ret = "finish", !.todo = m.acts],
                           m, TRUE)
           /\ dropped' = IF s.want.wm[d] > canon.wm[d] THEN dropped \cup {d} ELSE dropped
    /\ UNCHANGED <<canon, disk, vault, kept, users, faults>>

DeletesDone(d) ==
    /\ At(d, "delete") /\ ses[d].todo = {}
    /\ Session(d, Enter(ses[d], "conflict"), mem[d], TRUE)
    /\ UNCHANGED <<canon, disk, vault, kept, dropped, users, faults>>

----------------------------------------------------------------------------
(* handleConflict and preserveRejectedConcurrentPut.  The local version is *)
(* written, sent and committed under the name of its copy; only then does  *)
(* the other version take the path.                                        *)

ConflictCopy(s) == CopyOf(s.at, s.l[s.at])

\* The local version is as scanned, and the other one is there to be read.
MayResolve(d, p) ==
    /\ vault[d][p] = ses[d].l[p]
    /\ disk[p] # Nil
    /\ ~Dead(canon.files[p])

Resolve(d, p) ==
    /\ At(d, "conflict") /\ p \in ses[d].todo
    /\ MayResolve(d, p)
    /\ LET s == [ses[d] EXCEPT !.todo = @ \ {p}, !.at = p, !.why = "planned"]
       IN  IF disk[p] = vault[d][p] THEN Apply(d, NextConflict(s), p, disk[p])
           ELSE /\ Session(d, [s EXCEPT !.got = [x \in {p} |-> disk[p]], !.pc = "copy"], mem[d], FALSE)
                /\ UNCHANGED <<vault, kept>>
    /\ UNCHANGED <<canon, disk, dropped, users, faults>>

ResolveFails(d, p) ==
    /\ At(d, "conflict") /\ p \in ses[d].todo
    /\ ~MayResolve(d, p)
    /\ Session(d, NextConflict([ses[d] EXCEPT !.todo = @ \ {p}, !.bad = TRUE]), mem[d], FALSE)
    /\ UNCHANGED <<canon, disk, vault, kept, dropped, users, faults>>

\* preserveLocalConflictCopy.  A name that a deleted copy had is not used again;
\* users delete no copies here, so the further names the code tries are left out.
WriteCopy(d) ==
    /\ At(d, "copy")
    /\ LET s == ses[d]
           c == ConflictCopy(s)
       IN  /\ ~Dead(canon.files[c])
           /\ vault' = [vault EXCEPT ![d][c] = s.l[s.at]]
           /\ Session(d, [s EXCEPT !.pc = IF s.why = "rejected" /\ Live(canon.files[c])
                                          THEN "apply" ELSE "send"], mem[d], FALSE)
    /\ UNCHANGED <<canon, disk, kept, dropped, users, faults>>

\* uploadCausalConflictCopy: an exclusive PUT.
SendCopy(d) ==
    /\ At(d, "send")
    /\ LET s == ses[d]
           c == ConflictCopy(s)
           v == s.l[s.at]
           m == mem[d]
           q == EnsurePut(m, c, v, Nil, m.obs)
           x == LastOf(q, PutsOf(q, c, v))
       IN  /\ ~Dead(canon.files[c])
           /\ disk' = [disk EXCEPT ![c] = v]
           /\ IF Live(canon.files[c]) /\ Puts(m, c) = {}
              THEN Session(d, [s EXCEPT !.pc = "commit"],
                           [m EXCEPT !.base[c] = BaselineOf(canon.files[c])], FALSE)
              ELSE Session(d, [s EXCEPT !.pc = "commit",
                                        !.want.files[c] = PutEntry(d, x, v, Nil, Nil, v),
                                        !.want.wm[d] = Staged(@, x.seq),
                                        !.from = With(@, c, x.base)],
                           [q EXCEPT !.base[c] = Transferred(v)], TRUE)
    /\ UNCHANGED <<canon, vault, kept, dropped, users, faults>>

\* assertRetainedConflictCopy, and the other version is still the one read.
Retained(s) ==
    LET c == ConflictCopy(s)
    IN  Live(canon.files[c]) /\ canon.files[c].sha = s.l[s.at] /\ disk[c] = s.l[s.at]

MayApplyWinner(d) ==
    LET s == ses[d]
        c == canon.files[s.at]
    IN  /\ Retained(s)
        /\ IF s.why = "planned"
           THEN ~Dead(c) /\ disk[s.at] = s.got[s.at] /\ vault[d][s.at] = s.l[s.at]
           ELSE Live(c) => disk[s.at] # Nil /\ c.fp \in {Nil, disk[s.at]}

ApplyWinner(d) ==
    /\ At(d, "apply")
    /\ MayApplyWinner(d)
    /\ LET s    == ses[d]
           done == IF s.why = "planned" THEN NextConflict(s)
                   ELSE [s EXCEPT !.at = Nil, !.why = "none", !.pc = "cleanup"]
       IN  IF s.why = "rejected" /\ ~Live(canon.files[s.at])
           THEN /\ Session(d, done, mem[d], FALSE)
                /\ UNCHANGED <<vault, kept>>
           ELSE Apply(d, done, s.at, disk[s.at])
    /\ UNCHANGED <<canon, disk, dropped, users, faults>>

ApplyFails(d) ==
    /\ At(d, "apply")
    /\ ~MayApplyWinner(d)
    /\ ConflictFails(d)

----------------------------------------------------------------------------
(* commitFullReconciliation and the end of the session.                    *)

HadConflicts(s) == Ops(s, {"conflict"}) # {}

\* Nothing to publish: the index must still be what was reconciled with.
FinalUnchanged(d) ==
    /\ At(d, "final")
    /\ ~Pending(ses[d], mem[d]) /\ ~HadConflicts(ses[d])
    /\ canon = ses[d].want \/ ses[d].early
    /\ Session(d, [ses[d] EXCEPT !.pc = "physical", !.ret = "finish", !.todo = mem[d].acts],
               mem[d], ~ses[d].early)
    /\ UNCHANGED <<canon, disk, vault, kept, dropped, users, faults>>

FinalStale(d) ==
    /\ At(d, "final")
    /\ ~Pending(ses[d], mem[d]) /\ ~HadConflicts(ses[d])
    /\ canon # ses[d].want /\ ~ses[d].early
    /\ FailStored(d)

FinalChanged(d) ==
    /\ At(d, "final")
    /\ Pending(ses[d], mem[d]) \/ HadConflicts(ses[d])
    /\ LET s == ses[d]
       IN  Session(d, IF s.early /\ ~HadConflicts(s)
                      THEN [s EXCEPT !.pc = "physical", !.ret = "finish", !.todo = mem[d].acts]
                      ELSE [s EXCEPT !.pc = "commit", !.ret = "finish"], mem[d], FALSE)
    /\ UNCHANGED <<canon, disk, vault, kept, dropped, users, faults>>

\* markRemoteObserved: what is in the index becomes the baseline.
Observed(s, m) ==
    [m EXCEPT !.obs = s.want.rev,
              !.base = [p \in AllPath |->
                  IF None \in {@[p], s.want.files[p]} THEN @[p] ELSE BaselineOf(s.want.files[p])]]

Finish(d) ==
    /\ At(d, "finish")
    /\ ~ses[d].bad
    /\ Session(d, Idle, Observed(ses[d], mem[d]), TRUE)
    /\ UNCHANGED <<canon, disk, vault, kept, dropped, users, faults>>

Unfinished(d) ==
    /\ At(d, "finish")
    /\ ses[d].bad
    /\ Fail(d)

----------------------------------------------------------------------------
(* Faults.                                                                 *)

\* The process ends: what was not stored is gone.
Crash(d) ==
    /\ faults < MaxFaults
    /\ ses[d] # Idle \/ mem[d] # saved[d]
    /\ faults' = faults + 1
    /\ ses' = [ses EXCEPT ![d] = Idle]
    /\ mem' = [mem EXCEPT ![d] = saved[d]]
    /\ UNCHANGED <<canon, disk, vault, saved, kept, dropped, users>>

\* A request fails for good, and with it the session.
Abort(d) ==
    /\ faults < MaxFaults
    /\ ses[d] # Idle
    /\ faults' = faults + 1
    /\ \E save \in BOOLEAN : Session(d, Idle, mem[d], save)
    /\ UNCHANGED <<canon, disk, vault, kept, dropped, users>>

----------------------------------------------------------------------------

PathStep(d, p) ==
    \/ Upload(d, p) \/ UploadFails(d, p)
    \/ DownloadRead(d, p) \/ DownloadApply(d, p) \/ DownloadFails(d, p)
    \/ Resolve(d, p) \/ ResolveFails(d, p)

Step(d) ==
    \/ Load(d) \/ Physical(d) \/ PhysicalDone(d)
    \/ ScanLocal(d) \/ ListRemote(d) \/ Verify(d) \/ VerifyFails(d)
    \/ Plan(d) \/ PlanFails(d) \/ Prepare(d)
    \/ \E p \in AllPath : PathStep(d, p)
    \/ Stamp(d) \/ TransferFailed(d) \/ DownloadsDone(d)
    \/ Settle(d) \/ Intent(d) \/ Commit(d) \/ CommitFails(d)
    \/ RejectedDelete(d) \/ RejectedPut(d) \/ Confirm(d) \/ DeletesDone(d)
    \/ WriteCopy(d) \/ SendCopy(d) \/ ApplyWinner(d) \/ ApplyFails(d)
    \/ FinalUnchanged(d) \/ FinalStale(d) \/ FinalChanged(d)
    \/ Finish(d) \/ Unfinished(d)

User(d) == \E p \in Path : UserWrite(d, p) \/ UserDelete(d, p)

Fault(d) == Crash(d) \/ Abort(d) \/ \E p \in AllPath : UploadLost(d, p)

Next == \E d \in Device : Step(d) \/ User(d) \/ Fault(d)

\* Sessions are run again and again on every device, and every request is
\* answered or times out.
Fairness == \A d \in Device : WF_vars(Step(d)) /\ SF_vars(Load(d))

Spec == Init /\ [][Next]_vars /\ Fairness

----------------------------------------------------------------------------
(* Properties.                                                             *)

Content == Version \cup {Nil}

Flag == BOOLEAN \cup {Nil}

Revision == Nat \cup {Nil}

Entry == [sha : Content, dead : Flag, rev : Revision, by : Device \cup {Nil}, seq : Nat,
          fp : Content]

ASSUME NoneAssumption == None \notin Entry

Index == [rev : Nat, files : [AllPath -> Entry \cup {None}], wm : [Device -> Nat]]

MutationType == [seq : Nat \ {0}, kind : {"put", "delete", "noop"}, path : AllPath,
                 sha : Content, base : Nat, old : Content]

Act == [kind : {"local", "remote"}, path : AllPath, fp : Content]

DurableOK(m) ==
    /\ m.base \in [AllPath -> [sha : Content, dead : Flag, rev : Revision] \cup {None}]
    /\ m.obs \in Nat /\ m.next \in Nat \ {0}
    /\ \A i \in DOMAIN m.queue : m.queue[i] \in MutationType
    /\ \A a \in m.acts : a \in Act

PCs == {"idle", "physical", "scan", "list", "local", "verify", "plan", "prepare",
        "upload", "download", "settle",
        "intent", "commit", "cleanup", "delete", "conflict", "copy", "send", "apply", "final",
        "finish"}

\* Every variable has its type; in particular the canonical index is always whole.
TypeOK ==
    /\ canon \in Index
    /\ disk \in [AllPath -> Content]
    /\ \A d \in Device :
          /\ vault[d] \in [AllPath -> Content]
          /\ DurableOK(mem[d]) /\ DurableOK(saved[d])
          /\ ses[d].pc \in PCs
          /\ ses[d] # Idle => ses[d].load \in Index /\ ses[d].want \in Index
    /\ dropped \subseteq Device /\ kept \subseteq Version /\ past \subseteq Version
    /\ made \in Version /\ deletes \in 0..MaxDeletes /\ faults \in 0..MaxFaults

\* What a device wrote and no user has knowingly replaced or deleted is still
\* somewhere: in a vault, on the disk, in the trash or in a protective copy.
EditsSurvive ==
    \A v \in 0..made :
        \/ v \in past
        \/ v = 0 /\ Existing = {}
        \/ v \in kept
        \/ \E p \in AllPath : disk[p] = v \/ \E d \in Device : vault[d][p] = v

QueueOf(d) == Continues(mem[d], canon.wm[d]) /\ Continues(saved[d], canon.wm[d])

\* The durable queue of a device always continues its canonical watermark,
\* whatever was lost with its memory (ensureSequenceFloor never throws), unless
\* the device has taken a mutation from it that is in no index.
QueueContinues == \A d \in Device \ dropped : QueueOf(d)

\* The same without the exception: no device ever finds a gap in its queue.
NoQueueHasGap == \A d \in Device : QueueOf(d)

\* The same of a well-formed state.
QueueConsistent == TypeOK /\ QueueContinues

\* A conflict is planned only where the canonical or the remote side differs
\* from what the device last agreed on.
ConflictHasTwoSides ==
    \A d \in Device : At(d, "conflict") =>
        \A p \in ses[d].todo :
            LET b == mem[d].base[p]
                c == ses[d].load.files[p]
            IN  ~(Live(b) /\ Live(c) /\ b.sha = c.sha /\ c.sha = ses[d].r[p])

\* A device never commits mutations out of order: the reducer finds no gap.
NoFifoGap == \A d \in Device : At(d, "commit") => ~Gap(d)

\* A published deletion stands: the content that was deleted does not return.
DeletionStands ==
    [][\A p \in AllPath : Dead(canon.files[p]) /\ Live(canon'.files[p])
           => canon'.files[p].sha # canon.files[p].sha]_vars

\* What the index says of a path changes only with a sequence its device had
\* not used before, and the watermark of that device goes with it.
SequenceUsedOnce ==
    [][\A p \in AllPath : LET c == canon.files[p]
                              n == canon'.files[p]
                          IN  n # None /\ (c = None \/ n.sha # c.sha \/ Dead(n) # Dead(c))
                              => /\ n.seq > canon.wm[n.by]
                                 /\ n.seq <= canon'.wm[n.by]]_vars

\* Once users stop, all vaults, the disk and the canonical index become equal.
Equal ==
    /\ \A d \in Device : vault[d] = disk
    /\ \A p \in AllPath : disk[p] = IF Live(canon.files[p]) THEN canon.files[p].sha ELSE Nil

Convergence == <>[]Equal
=============================================================================
