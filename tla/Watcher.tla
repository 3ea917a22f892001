------------------------------- MODULE Watcher -------------------------------
(***************************************************************************)
(* The realtime watcher of one device: the durable queue of file events,   *)
(* the drain that replays it against the disk and the canonical index, and *)
(* the full session that freezes the watcher, takes over the uploads and   *)
(* resumes it.                                                             *)
(*                                                                         *)
(* Files are paths, contents are version numbers (0: no file).  One device *)
(* writes; other devices are in Replica.  A commit of the index is one     *)
(* step that succeeds or fails (CanonicalTransaction gives its steps).     *)
(* The identity of a mutation is the number of the event that allocated    *)
(* it; the local operation store is the sets put, moves and dels (its      *)
(* order is in Replica).  The save of a full session and the commit of a   *)
(* path are one step.  Folder events, excluded paths, epochs and the byte  *)
(* limits of a window are left out; a batch is one window.                 *)
(***************************************************************************)
EXTENDS Integers, FiniteSets, SequencesExt

CONSTANTS Paths,       \* the files of the vault
          MaxVersion,  \* bound on the writes of the user
          MaxEvent,    \* bound on the events of the vault
          MaxFault     \* bound on failed remote calls, failed saves and restarts

ASSUME WatcherAssumption ==
  /\ Paths # {}
  /\ {MaxVersion, MaxEvent, MaxFault} \subseteq Nat

NoId == 0
Dead == -1   \* a tombstone
Nil == 0     \* no file, no entry

VARIABLES
  vault,    \* the files of the vault
  canon,    \* the canonical index: the content of a path, Dead or Nil
  changed,  \* the revision that changed each path of the index last
  rev,      \* the revision of the index
  disk,     \* the files on the disk
  moving,   \* moves of the index that the disk has not seen: <<from, to, old>>
  base,     \* the local baseline: a content, Dead or Nil
  put,      \* put[p]: the pending put of p, [id, v], or NoPut
  moves,    \* moves no commit has taken yet
  dels,     \* deletions no commit has taken yet
  applied,  \* the mutations below the watermark of the index
  queue,    \* deferredEvents
  debounce, \* debounce[p]: the event of p whose timer runs, or NoId
  ready,    \* readyFileEvents: its timer has ended
  timer,    \* a timer that starts a drain runs
  again,    \* deferredReplayRequested
  late,     \* the events marked superseded
  handed,   \* those whose file was renamed meanwhile
  drain,    \* the drain that runs
  full,     \* the full session
  saved,    \* the plugin data on the device
  failed,   \* persistFailure
  used,     \* what the bounds count
  gone,     \* versions the user has deleted or overwritten
  copies    \* versions kept as conflict copies

remote == <<canon, changed, rev, disk, moving>>
index == <<base, put, moves, dels, applied>>
watcher == <<queue, debounce, ready, timer, again, late, handed>>
vars == <<vault, remote, index, watcher, drain, full, saved, failed, used,
          gone, copies>>

NoPut == [id |-> NoId, v |-> 0]
NoTimer == [p \in Paths |-> NoId]
NoEvents == <<>>

\* What a full session decides about a path (see FullPlan): an entry of an
\* index or a baseline is a content, Dead or Nil.
Entry(v) == [sha |-> IF v = Dead THEN Nil ELSE v, dead |-> v = Dead, rev |-> 1, fp |-> Nil]
Plan == INSTANCE FullPlan WITH Device <- {1}, None <- Entry(Nil)
Decide(l, r, b, c) == Plan!Decide(l, r, r, Entry(b), Entry(c), FALSE)

\* createFileEvent and the rename event: the watermark is captured with it.
Event(id, act, p, t, pred) ==
  [id |-> id, act |-> act, path |-> p, target |-> t, pred |-> pred,
   rev |-> rev, mut |-> NoId, v |-> 0]

IsFile(e) == e.act \in {"upload", "delete"}
IdsOf(q) == {q[i].id : i \in DOMAIN q}

\* The elements of a sequence at the places of I, in their order.
Picked(q, I) ==
  LET F[n \in 0 .. Len(q)] == IF n = 0 THEN <<>>
                              ELSE IF n \in I THEN Append(F[n - 1], q[n]) ELSE F[n - 1]
  IN F[Len(q)]
Without(q, ids) == Picked(q, {i \in DOMAIN q : q[i].id \notin ids})
Mentions(e, p) == p \in {e.path, e.target}

-----------------------------------------------------------------------------
(* The reduction of the queue (queue-rules.ts, rules.ts).                  *)

\* A queued rename whose target is the path of the event.
Predecessor(q, p) == {i \in DOMAIN q : q[i].act = "rename" /\ q[i].target = p}

\* The last filter: file work of the path is replaced; a rename replaces
\* everything queued for its source.
Keeps(e, old, sub) ==
  \/ old.id \in sub
  \/ old.path # e.path
  \/ IsFile(e) /\ ~IsFile(old)

Queued(q, e, sub) == Append(Picked(q, {i \in DOMAIN q : Keeps(e, q[i], sub)}), e)

\* reduceRenameChain rebases a predecessor that is not running.
ReduceRename(q, e, sub) ==
  LET P == Predecessor(q, e.path)
      i == CHOOSE x \in P : \A y \in P : x <= y
  IN IF P # {} /\ q[i].id \notin sub
     THEN [q EXCEPT ![i].target = e.target]
     ELSE Queued(q, e, sub)

\* A file event of the target of a queued rename: a write is absorbed, a
\* deletion becomes the deletion of the source.
ReduceFile(q, e, sub) ==
  LET P == {i \in Predecessor(q, e.path) : q[i].id \notin sub}
      i == CHOOSE x \in P : \A y \in P : x <= y
  IN CASE P # {} /\ e.act = "upload" -> q
       [] P # {} /\ e.act = "delete" ->
            Queued(Without(q, {q[i].id}),
                   [e EXCEPT !.path = q[i].path, !.rev = q[i].rev], sub)
       [] OTHER -> Queued(q, e, sub)

Reduce(q, e, sub) ==
  IF e.act = "rename" THEN ReduceRename(q, e, sub) ELSE ReduceFile(q, e, sub)

-----------------------------------------------------------------------------
NoDrain == [pc |-> "idle", todo |-> NoEvents, only |-> {}, batch |-> NoEvents,
            held |-> {}, items |-> NoEvents, done |-> {}]
NoFull == [pc |-> "idle", startup |-> FALSE, cutoff |-> {}, uploads |-> {},
           chain |-> {}, cand |-> {}, sig |-> {}, scan |-> [p \in Paths |-> Nil],
           plan |-> [p \in Paths |-> "none"], todo |-> {}]

\* What a save writes: the queue and the local index, in one snapshot.
Data(q, b, pu, mo, de) == [queue |-> q, base |-> b, put |-> pu, moves |-> mo,
                           dels |-> de, late |-> late, handed |-> handed]

Init ==
  /\ vault \in [Paths -> 0 .. MaxVersion]
  /\ \A p, q \in Paths : p # q /\ vault[p] # Nil => vault[p] # vault[q]
  /\ \A p \in Paths : vault[p] <= Cardinality({q \in Paths : vault[q] # Nil})
  /\ canon = vault /\ disk = vault /\ base = vault
  /\ changed = [p \in Paths |-> IF vault[p] = Nil THEN 0 ELSE 1]
  /\ rev = 1 /\ moving = {} /\ moves = {} /\ dels = {}
  /\ applied = {}
  /\ put = [p \in Paths |-> NoPut]
  /\ queue = NoEvents /\ debounce = NoTimer /\ ready = NoTimer
  /\ timer = FALSE /\ again = FALSE /\ late = {} /\ handed = {}
  /\ drain = NoDrain /\ full = NoFull
  /\ saved = Data(queue, base, put, moves, dels) /\ failed = FALSE
  /\ used = [version |-> Cardinality({p \in Paths : vault[p] # Nil}), event |-> 0, fault |-> 0]
  /\ gone = {} /\ copies = {}

Frozen == full.pc # "idle"                   \* isWatcherFrozen
Submitted == {e.id : e \in drain.held}       \* what the running session holds
HeldFiles(p) == {e \in drain.held : IsFile(e) /\ e.path = p}

Count(what) == used' = [used EXCEPT ![what] = @ + 1]
Fault == used.fault < MaxFault /\ Count("fault")

\* persistDeferredEvents: a change of the queue asks for a save.
Queue(q) ==
  /\ queue' = q
  /\ failed' = (failed /\ q = queue)
Confirmed == ~failed /\ saved.queue = queue  \* waitForPersistence

-----------------------------------------------------------------------------
(* The vault and the handlers of its events.                               *)

\* cancelPendingSync acknowledges what a timer still refers to.
Cancelled(p) == {debounce[p], ready[p]}

\* scheduleSync: queue the event, retire the older reference, start the timer.
Schedule(e) ==
  LET q == Reduce(queue, e, Submitted)
  IN /\ Queue(Without(q, Cancelled(e.path)))
     /\ late' = IF Frozen /\ e.act = "upload" THEN late
                ELSE late \cup {x.id : x \in HeldFiles(e.path)}
     /\ debounce' = [debounce EXCEPT ![e.path] =
                       IF ~Frozen /\ e.id \in IdsOf(q) THEN e.id ELSE NoId]
     /\ ready' = [ready EXCEPT ![e.path] = NoId]
     /\ UNCHANGED <<timer, again, handed>>

\* handleFileUpload: a file is created or modified.
UserWrite(p) ==
  /\ used.version < MaxVersion /\ used.event < MaxEvent
  /\ vault' = [vault EXCEPT ![p] = used.version + 1]
  /\ gone' = gone \cup ({vault[p]} \ {Nil})
  /\ used' = [used EXCEPT !.version = @ + 1, !.event = @ + 1]
  /\ Schedule(Event(used.event + 1, "upload", p, p, NoId))
  /\ UNCHANGED <<remote, index, drain, full, saved, copies>>

\* handleFileDelete.
UserDelete(p) ==
  /\ vault[p] # Nil /\ used.event < MaxEvent
  /\ vault' = [vault EXCEPT ![p] = Nil]
  /\ gone' = gone \cup {vault[p]}
  /\ Count("event")
  /\ Schedule(Event(used.event + 1, "delete", p, p, NoId))
  /\ UNCHANGED <<remote, index, drain, full, saved, copies>>

\* handleFileRename: an upload of the source that is submitted hands its
\* result over to the rename.
UserRename(s, t) ==
  LET up == {x.id : x \in {h \in HeldFiles(s) : h.act = "upload"}}
      pred == IF up = {} THEN NoId ELSE CHOOSE i \in up : \A j \in up : j <= i
      e == Event(used.event + 1, "rename", s, t, pred)
      q == Reduce(queue, e, Submitted)
  IN /\ vault[s] # Nil /\ vault[t] = Nil /\ used.event < MaxEvent
     /\ vault' = [vault EXCEPT ![s] = Nil, ![t] = vault[s]]
     /\ Count("event")
     /\ Queue(Without(q, Cancelled(s)))
     /\ debounce' = [debounce EXCEPT ![s] = NoId]
     /\ ready' = [ready EXCEPT ![s] = NoId]
     /\ late' = late \cup {x.id : x \in HeldFiles(s)}
     /\ handed' = handed \cup (up \cap {pred})
     /\ timer' = (timer \/ ~Frozen)
     /\ UNCHANGED <<remote, index, again, drain, full, saved, gone, copies>>

\* The timer of a file ends, and the timer of the batch starts.
Debounced(p) ==
  /\ debounce[p] # NoId
  /\ debounce' = [debounce EXCEPT ![p] = NoId]
  /\ ready' = [ready EXCEPT ![p] = debounce[p]]
  /\ timer' = TRUE
  /\ UNCHANGED <<vault, remote, index, queue, again, late, handed, drain, full,
                 saved, failed, used, gone, copies>>

\* drainPendingFileEvents.
NoTimers ==
  /\ debounce' = NoTimer /\ ready' = NoTimer
  /\ timer' = FALSE

-----------------------------------------------------------------------------
(* Persistence.  Waiting requests are coalesced; after a failure nobody    *)
(* saves until the queue changes again.                                    *)

Persist ==
  /\ saved.queue # queue /\ ~failed
  /\ saved' = Data(queue, base, put, moves, dels)
  /\ UNCHANGED <<vault, remote, index, watcher, drain, full, failed, used, gone,
                 copies>>

PersistFails ==
  /\ saved.queue # queue /\ ~failed /\ Fault
  /\ failed' = TRUE
  /\ UNCHANGED <<vault, remote, index, watcher, drain, full, saved, gone, copies>>

-----------------------------------------------------------------------------
(* A drain.  pc: "wait" for the queue to be saved; "next" event; "prepare",*)
(* "apply", "commit", "clean" and "settle" a batch of files; "rename" and  *)
(* "move" one rename; "saved": wait after a settlement.                    *)

Drain(d) == (drain' = d)
To(pc) == Drain([drain EXCEPT !.pc = pc])

\* flushDeferredEvents.
StartDrain(only) == Drain([NoDrain EXCEPT !.pc = "wait", !.only = only])

\* The end of the drain; a request that came meanwhile starts a timer.
EndDrain ==
  /\ Drain(NoDrain)
  /\ again' = FALSE
  /\ timer' = (timer \/ (again /\ ~Frozen))

Timer ==
  /\ timer
  /\ timer' = FALSE
  /\ IF drain.pc = "idle" THEN StartDrain({}) /\ UNCHANGED again
     ELSE again' = TRUE /\ UNCHANGED drain
  /\ UNCHANGED <<vault, remote, index, queue, debounce, ready, late, handed, full,
                 saved, failed, used, gone, copies>>

\* flushDeferredEventsNow up to the loop: what the drain replays.
Replayed(e, only) ==
  /\ only = {} \/ e.id \in only
  /\ IsFile(e) => debounce[e.path] # e.id

Collect ==
  /\ drain.pc = "wait" /\ Confirmed
  /\ Drain([drain EXCEPT !.pc = "next", !.todo =
              Picked(queue, {i \in DOMAIN queue : Replayed(queue[i], drain.only)})])
  /\ UNCHANGED <<vault, remote, index, watcher, full, saved, failed, used, gone,
                 copies>>

\* waitForPersistence rejects, and so does the drain.
DrainFails ==
  /\ drain.pc \in {"wait", "saved"} /\ failed
  /\ EndDrain
  /\ UNCHANGED <<vault, remote, index, queue, debounce, ready, late, handed, full,
                 saved, failed, used, gone, copies>>

\* After the last event: the queue is saved once more.
DrainEnds ==
  /\ drain.pc = "next" /\ drain.todo = NoEvents
  /\ EndDrain
  /\ failed' = FALSE
  /\ UNCHANGED <<vault, remote, index, queue, debounce, ready, late, handed, full,
                 saved, used, gone, copies>>

\* replayFileBatch: the prefix of file events is submitted.
TakeFiles ==
  LET n == CHOOSE i \in 1 .. Len(drain.todo) :
             /\ \A j \in 1 .. i : IsFile(drain.todo[j])
             /\ i = Len(drain.todo) \/ ~IsFile(drain.todo[i + 1])
  IN /\ drain.pc = "next" /\ drain.todo # NoEvents /\ IsFile(Head(drain.todo))
     /\ Drain([drain EXCEPT !.pc = "prepare", !.batch = SubSeq(drain.todo, 1, n),
                 !.held = ToSet(SubSeq(drain.todo, 1, n)),
                 !.todo = SubSeq(@, n + 1, Len(@))])
     /\ ready' = [p \in Paths |->
                    IF \E i \in 1 .. n : drain.todo[i].id = ready[p] THEN NoId ELSE ready[p]]
     /\ UNCHANGED <<vault, remote, index, queue, debounce, timer, again, late, handed,
                    full, saved, failed, used, gone, copies>>

\* The rest of the batch is retried and the drain stops after the settlement.
Stopped(d) == [d EXCEPT !.todo = NoEvents]

Item(e, kind, v) == [e |-> e, kind |-> kind, v |-> v]
Ack(d, e) == [d EXCEPT !.done = @ \cup {e.id}, !.batch = Tail(@)]
Prepare(d, e, kind, v) ==
  [d EXCEPT !.items = Append(@, Item(e, kind, v)), !.batch = Tail(@)]
Retry(d) == [Stopped(d) EXCEPT !.batch = NoEvents]

PendingPut(id) == \E p \in Paths : put[p].id = id
DropPut(id) == [p \in Paths |-> IF put[p].id = id THEN NoPut ELSE put[p]]

\* classifyAppliedUploadEvent, and the superseded part of prepareRealtimeEvents.
PrepareOld(e) ==
  /\ IF e.mut \in applied \/ e.mut = NoId \/ e.id \in handed
     THEN Drain(Ack(drain, e)) /\ UNCHANGED put
     ELSE IF PendingPut(e.mut)
          THEN Drain(Prepare(drain, e, "noop", Nil)) /\ put' = DropPut(e.mut)
          ELSE Drain(Retry(drain)) /\ UNCHANGED put
  /\ UNCHANGED <<base, queue, dels>>

\* confirmUnchangedUpload: nothing to send and nothing pending.
Unchanged(e) ==
  /\ e.mut = NoId /\ base[e.path] = vault[e.path] /\ canon[e.path] = vault[e.path]
  /\ disk[e.path] = vault[e.path] /\ moving = {}
  /\ moves = {} /\ dels = {} /\ \A p \in Paths : put[p] = NoPut

\* reusePendingFileMutation or a new mutation.
PrepareUpload(e) ==
  LET p == e.path
      own == {q \in Paths : e.mut # NoId /\ put[q].id = e.mut}
      id == IF own # {} THEN e.mut ELSE IF put[p] # NoPut THEN put[p].id ELSE e.id
      x == [e EXCEPT !.mut = id, !.v = vault[p]]
  IN /\ put' = [DropPut(id) EXCEPT ![p] = [id |-> id, v |-> vault[p]]]
     /\ queue' = [i \in DOMAIN queue |-> IF queue[i].id = e.id
                    THEN [queue[i] EXCEPT !.mut = id, !.v = vault[p]] ELSE queue[i]]
     /\ Drain([Prepare(drain, x, "upload", vault[p]) EXCEPT !.held = (@ \ {e}) \cup {x}])
     /\ UNCHANGED <<base, dels>>

PrepareDelete(e) ==
  LET p == e.path
      unknown == canon[p] <= Nil /\ base[p] <= Nil
  IN /\ put' = [put EXCEPT ![p] = NoPut]
     /\ dels' = IF unknown THEN dels ELSE dels \cup {p}
     /\ base' = IF unknown THEN base ELSE [base EXCEPT ![p] = Dead]
     /\ Drain(IF ~unknown THEN Prepare(drain, e, "delete", canon[p])
              ELSE IF put[p] # NoPut THEN Prepare(drain, e, "noop", Nil)
              ELSE Ack(drain, e))
     /\ UNCHANGED queue

PrepareFile ==
  /\ drain.pc = "prepare" /\ drain.batch # NoEvents
  /\ LET e == Head(drain.batch)
     IN CASE e.act = "delete" -> PrepareDelete(e)
          [] e.act = "upload" /\ (e.mut \in applied \/ e.id \in late) -> PrepareOld(e)
          [] e.act = "upload" /\ e.mut \notin applied /\ e.id \notin late ->
               IF vault[e.path] = Nil
               THEN /\ Drain(IF canon[e.path] = Dead THEN Ack(drain, e) ELSE Retry(drain))
                    /\ UNCHANGED <<put, queue, base, dels>>
               ELSE IF Unchanged(e)
               THEN Drain(Ack(drain, e)) /\ UNCHANGED <<put, queue, base, dels>>
               ELSE PrepareUpload(e)
  /\ UNCHANGED <<vault, remote, moves, applied, debounce, ready, timer, again, late,
                 handed, full, saved, failed, used, gone, copies>>

\* The queue and the index are saved before the first write.
Prepared ==
  /\ drain.pc = "prepare" /\ drain.batch = NoEvents
  /\ To("apply")
  /\ saved' = Data(queue, base, put, moves, dels)
  /\ UNCHANGED <<vault, remote, index, watcher, full, failed, used, gone, copies>>

\* isUploadHandedOffToRename for a source the index does not have.
HandedOff(x) == x.kind = "upload" /\ x.e.id \in handed /\ canon[x.e.path] <= Nil

Unsent == {i \in DOMAIN drain.items : drain.items[i].kind = "upload"}
Sent(i) == [drain EXCEPT !.items[i].kind = "sent"]
NextItem == CHOOSE i \in Unsent : \A j \in Unsent : i <= j

\* Handed over before or after the write: the rename will commit it.
GiveUp(i) ==
  [drain EXCEPT !.items = RemoveAt(@, i), !.done = @ \cup {drain.items[i].e.id}]

\* materializeUploadedFile, without a check of what the disk has.
Upload ==
  /\ drain.pc = "apply" /\ Unsent # {}
  /\ LET i == NextItem
         x == drain.items[i]
     IN IF HandedOff(x) THEN Drain(GiveUp(i)) /\ UNCHANGED disk
        ELSE /\ disk' = [disk EXCEPT ![x.e.path] = x.v]
             /\ Drain(Sent(i))
  /\ UNCHANGED <<vault, canon, changed, rev, moving, index, watcher, full, saved,
                 failed, used, gone, copies>>

\* The write fails, and so do the items after it.
UploadFails ==
  /\ drain.pc = "apply" /\ Unsent # {} /\ Fault
  /\ LET i == NextItem
         x == drain.items[i]
     IN /\ Drain([Stopped(drain) EXCEPT !.items = SubSeq(@, 1, i - 1)])
        /\ \/ UNCHANGED disk
           \/ disk' = [disk EXCEPT ![x.e.path] = x.v]
  /\ UNCHANGED <<vault, canon, changed, rev, moving, index, watcher, full, saved,
                 failed, gone, copies>>

Given == {i \in DOMAIN drain.items :
            drain.items[i].kind = "sent" /\ drain.items[i].e.id \in handed /\
            canon[drain.items[i].e.path] <= Nil}
Accepted == {drain.items[i] : i \in DOMAIN drain.items \ Given}
Of(kind) == {x.e.path : x \in {y \in Accepted : y.kind = kind}}
VersionOf(p) == (CHOOSE x \in Accepted : x.kind = "sent" /\ x.e.path = p /\
                   \A y \in Accepted : y.kind = "sent" /\ y.e.path = p
                                         => y.e.id <= x.e.id).v

\* Fault: the baseline takes the file as it is after the write.
MetadataOfVault == [p \in Paths |-> IF p \in Of("sent") THEN vault[p] ELSE base[p]]

\* applyUploadedFileMetadata, for all that will be committed.
Metadata == [p \in Paths |-> IF p \in Of("sent") THEN VersionOf(p) ELSE base[p]]

Commit ==
  /\ drain.pc = "apply" /\ Unsent = {}
  /\ base' = Metadata
  /\ canon' = [p \in Paths |-> IF p \in Of("sent") THEN VersionOf(p)
                               ELSE IF p \in Of("delete") THEN Dead ELSE canon[p]]
  /\ LET touched == Of("sent") \cup Of("delete")
     IN /\ rev' = rev + (IF touched = {} THEN 0 ELSE 1)
        /\ changed' = [p \in Paths |-> IF p \in touched THEN rev' ELSE changed[p]]
        /\ put' = [p \in Paths |-> IF p \in Of("sent") THEN NoPut ELSE put[p]]
  /\ dels' = dels \ Of("delete")
  /\ applied' = applied \cup {x.e.mut : x \in {y \in Accepted : y.kind = "sent"}}
  /\ Drain([drain EXCEPT !.pc = "clean",
              !.done = @ \cup {drain.items[i].e.id : i \in Given}
                         \cup {x.e.id : x \in {y \in Accepted : y.kind # "delete"}}])
  /\ UNCHANGED <<vault, disk, moving, moves, watcher, full, saved, failed, used,
                 gone, copies>>

\* Nothing is confirmed: every accepted item is retried.
CommitFails ==
  /\ drain.pc = "apply" /\ Unsent = {} /\ Accepted # {} /\ Fault
  /\ base' = Metadata
  /\ Drain([Stopped(drain) EXCEPT !.pc = "settle",
              !.done = @ \cup {drain.items[i].e.id : i \in Given}])
  /\ UNCHANGED <<vault, remote, put, moves, dels, applied, watcher, full, saved,
                 failed, gone, copies>>

\* deleteRemoteFile: the disk must still have what the index had.
MayDelete(x) == canon[x.e.path] = Dead /\ disk[x.e.path] \in {Nil, x.v}

Clean ==
  LET removals == {x \in Accepted : x.kind = "delete"}
      ok == {x \in removals : MayDelete(x)}
  IN /\ drain.pc = "clean"
     /\ disk' = [p \in Paths |-> IF \E x \in ok : x.e.path = p THEN Nil ELSE disk[p]]
     /\ LET d == [drain EXCEPT !.pc = "settle", !.done = @ \cup {x.e.id : x \in ok}]
        IN Drain(IF ok = removals THEN d ELSE Stopped(d))
     /\ saved' = Data(queue, base, put, moves, dels)
     /\ UNCHANGED <<vault, canon, changed, rev, moving, index, watcher, full,
                    failed, used, gone, copies>>

\* reduceUploadCausalReceipts: the rename that waited for an upload takes
\* the revision the upload got.
Rebased(q, done) ==
  [i \in DOMAIN q |->
     IF q[i].act = "rename" /\ q[i].pred \in done
     THEN [q[i] EXCEPT !.pred = NoId,
             !.rev = IF \E x \in drain.held : x.id = q[i].pred /\ x.mut \in applied
                     THEN rev ELSE @]
     ELSE q[i]]

\* The drain goes through the objects of the queue: what a settlement changes
\* in them (q) the rest of the loop sees; what the reducer replaced it does not.
Shared(q) ==
  LET At(e) == {i \in DOMAIN queue : queue[i] = e}
  IN [j \in DOMAIN drain.todo |->
        IF At(drain.todo[j]) = {} THEN drain.todo[j]
        ELSE q[CHOOSE i \in At(drain.todo[j]) : TRUE]]

\* settleFileBatch: what is done leaves the queue, then the drain waits.
Settle ==
  /\ drain.pc = "settle"
  /\ Queue(Without(Rebased(queue, drain.done), drain.done))
  /\ late' = late \ drain.done /\ handed' = handed \ drain.done
  /\ Drain([drain EXCEPT !.pc = "saved", !.items = NoEvents, !.done = {},
              !.held = {e \in @ : e.id \notin drain.done},
              !.todo = Shared(Rebased(queue, drain.done))])
  /\ UNCHANGED <<vault, remote, index, debounce, ready, timer, again, full, saved, used,
                 gone, copies>>

Continue ==
  /\ drain.pc = "saved" /\ Confirmed
  /\ Drain([drain EXCEPT !.pc = "next", !.held = {}])
  /\ UNCHANGED <<vault, remote, index, watcher, full, saved, failed, used, gone,
                 copies>>

-----------------------------------------------------------------------------
(* One rename (rename.ts).                                                 *)

TakeRename ==
  /\ drain.pc = "next" /\ drain.todo # NoEvents /\ ~IsFile(Head(drain.todo))
  /\ Drain([drain EXCEPT !.pc = "rename", !.batch = <<Head(drain.todo)>>,
              !.held = {Head(drain.todo)}, !.todo = Tail(@)])
  /\ UNCHANGED <<vault, remote, index, watcher, full, saved, failed, used, gone,
                 copies>>

Running == Head(drain.batch)

\* The drain after a rename that stays queued, and after one that is settled.
RenameRetried == [Stopped(drain) EXCEPT !.pc = "next", !.batch = NoEvents, !.held = {}]
RenameSettled(q) == [drain EXCEPT !.pc = "saved", !.batch = NoEvents, !.todo = Shared(q)]

\* settleRenameEvent: the next rename of the chain.
Successor(q, e) ==
  {i \in DOMAIN q : q[i].act = "rename" /\ q[i].id # e.id /\ q[i].path = e.target}
First(S) == CHOOSE i \in S : \A j \in S : i <= j

\* The target is missing before anything was done: the rename joins its
\* successor, waits for the full session that is prepared, or is retried.
TargetMissing ==
  /\ drain.pc = "rename" /\ vault[Running.target] = Nil
  /\ LET S == Successor(queue, Running)
         q == [queue EXCEPT ![First(S)].path = Running.path, ![First(S)].rev = Running.rev]
         barrier == full.pc \in {"prepare", "drain"} /\ Running.id \in full.cutoff
     IN IF S # {}
        THEN /\ Queue(Without(q, {Running.id}))
             /\ Drain(RenameSettled(q)) /\ UNCHANGED full
        ELSE /\ UNCHANGED <<queue, failed>>
             /\ full' = IF barrier THEN [full EXCEPT !.cand = @ \cup {Running.id}] ELSE full
             /\ Drain(IF Running.id \in IdsOf(queue) THEN RenameRetried ELSE RenameSettled(queue))
  /\ UNCHANGED <<vault, remote, index, debounce, ready, timer, again, late, handed, saved,
                 used, gone, copies>>

\* The rename is done: the event leaves the queue and its successor is rebased.
Acknowledge(e, r) ==
  LET S == Successor(queue, e)
      q == IF S = {} THEN queue ELSE [queue EXCEPT ![First(S)].rev = r]
  IN Queue(Without(q, {e.id})) /\ Drain(RenameSettled(q))

\* The move of the index that is still to be done for this rename.
MoveOf(e) == {m \in moving : m[1] = e.path /\ m[2] = e.target}

SourceSettled(e) == canon[e.path] <= Nil \/ changed[e.path] > e.rev
AlreadyApplied(e) ==
  /\ vault[e.target] # Nil /\ canon[e.target] = vault[e.target]
  /\ MoveOf(e) = {}
  /\ SourceSettled(e) /\ disk[e.target] = vault[e.target]

RenameApplied ==
  /\ drain.pc = "rename" /\ AlreadyApplied(Running)
  /\ base' = [[base EXCEPT ![Running.path] = Nil] EXCEPT
                ![Running.target] = vault[Running.target]]
  /\ Acknowledge(Running, rev)
  /\ saved' = Data(queue, base', put, moves, dels)
  /\ UNCHANGED <<vault, remote, put, moves, dels, applied, debounce, ready, timer, again, late,
                 handed, full, used, gone, copies>>

\* Each rename that goes on works with the content it captured.
Captured(e) == [e EXCEPT !.v = vault[e.target]]
ToMove(e) == [drain EXCEPT !.pc = "move", !.batch = <<Captured(e)>>]

RenameRecovers ==
  /\ drain.pc = "rename" /\ vault[Running.target] # Nil
  /\ MoveOf(Running) # {}
  /\ Drain(ToMove(Running))
  /\ UNCHANGED <<vault, remote, index, watcher, full, saved, failed, used, gone,
                 copies>>

GoesOn(e) ==
  /\ vault[e.target] # Nil /\ MoveOf(e) = {}
  /\ ~AlreadyApplied(e)

\* The source is live for this device: wasRenameSourceCausallyLive, or the
\* move is one of its own.
SourceLive(e) ==
  /\ canon[e.path] > Nil
  /\ \/ base[e.path] > Nil
     \/ <<e.path, e.target>> \in moves
     \/ put[e.path].id \in applied

\* stageFileMove: the baseline is that of the moved file before the index is.
Staged(e) == [[base EXCEPT ![e.path] = Dead] EXCEPT ![e.target] = vault[e.target]]

\* The index takes the move; an uncommitted put of the source goes first.
RenameCommits ==
  LET e == Running
      old == IF put[e.path] = NoPut THEN canon[e.path] ELSE disk[e.path]
  IN
  /\ drain.pc = "rename" /\ GoesOn(e) /\ SourceLive(e)
  /\ rev' = rev + 1
  /\ canon' = [[canon EXCEPT ![e.path] = Dead] EXCEPT ![e.target] = vault[e.target]]
  /\ changed' = [[changed EXCEPT ![e.path] = rev'] EXCEPT ![e.target] = rev']
  /\ base' = Staged(e)
  /\ moving' = moving \cup {<<e.path, e.target, old>>}
  /\ moves' = moves \ {<<e.path, e.target>>}
  /\ applied' = applied \cup ({put[e.path].id} \ {NoId})
  /\ put' = [put EXCEPT ![e.path] = NoPut]
  /\ saved' = Data(queue, base', put, moves \cup {<<e.path, e.target>>}, dels)
  /\ Drain(ToMove(e))
  /\ UNCHANGED <<vault, disk, dels, watcher, full, failed, used, gone, copies>>

RenameCommitFails ==
  LET e == Running IN
  /\ drain.pc = "rename" /\ GoesOn(e) /\ SourceLive(e) /\ Fault
  /\ moves' = moves \cup {<<e.path, e.target>>}
  /\ base' = Staged(e)
  /\ saved' = Data(queue, base', put, moves', dels)
  /\ Drain(RenameRetried)
  /\ UNCHANGED <<vault, remote, put, dels, applied, watcher, full, failed, gone,
                 copies>>

\* executeGuardedRemoteMove: it writes no target and deletes no source that is
\* not the one the index knows; local is the content the device can send.
MayMove(m, local) ==
  LET s == m[1] t == m[2] IN
  \/ canon[t] = Dead
  \/ /\ disk[t] \in {Nil, canon[t]}
     /\ disk[t] = Nil => local = canon[t] \/ (canon[s] = Dead /\ disk[s] = canon[t])
     /\ canon[s] = Dead => disk[s] \in {Nil, m[3]}

\* Fault: a source that lives again is deleted.
MovedBlindly(m) ==
  IF canon[m[2]] = Dead THEN disk
  ELSE [[disk EXCEPT ![m[2]] = canon[m[2]]] EXCEPT ![m[1]] = Nil]

\* A source that lives again is left alone.
Moved(m) ==
  LET s == m[1] t == m[2] IN
  IF canon[t] = Dead THEN disk
  ELSE [p \in Paths |-> IF p = t THEN canon[t]
                        ELSE IF p = s /\ canon[s] = Dead THEN Nil ELSE disk[p]]

Move ==
  LET e == Running
      m == CHOOSE x \in MoveOf(e) : TRUE
  IN
  /\ drain.pc = "move" /\ MayMove(m, e.v)
  /\ disk' = Moved(m)
  /\ moving' = moving \ MoveOf(e)
  /\ rev' = rev + 1
  /\ Acknowledge(e, rev')
  /\ saved' = Data(queue, base, put, moves, dels)
  /\ UNCHANGED <<vault, canon, changed, index, debounce, ready, timer, again, late, handed,
                 full, used, gone, copies>>

\* It refuses, and the rename is retried.
MoveRefused ==
  /\ drain.pc = "move" /\ ~MayMove(CHOOSE x \in MoveOf(Running) : TRUE, Running.v)
  /\ Drain(RenameRetried)
  /\ UNCHANGED <<vault, remote, index, watcher, full, saved, failed, used, gone,
                 copies>>

\* The move, or the commit of its completion, fails.
MoveFails ==
  LET e == Running
      m == CHOOSE x \in MoveOf(e) : TRUE
  IN
  /\ drain.pc = "move" /\ MayMove(m, e.v) /\ Fault
  /\ disk' \in {disk, Moved(m)}
  /\ Drain(RenameRetried)
  /\ UNCHANGED <<vault, canon, changed, rev, moving, index, watcher, full, saved,
                 failed, gone, copies>>

\* putRenamedUnsyncedFile: the source was never published; its pending put is
\* retargeted, and what it left on the disk is deleted after the commit.
Retargeted(e) ==
  LET id == IF put[e.path] # NoPut THEN put[e.path].id
            ELSE IF put[e.target] # NoPut THEN put[e.target].id ELSE e.id
  IN [[put EXCEPT ![e.path] = NoPut] EXCEPT ![e.target] = [id |-> id, v |-> vault[e.target]]]

PutTarget(e) ==
  /\ drain.pc = "rename" /\ GoesOn(e) /\ ~SourceLive(e)

RenamePuts ==
  LET e == Running IN
  /\ PutTarget(e)
  /\ rev' = rev + 1
  /\ canon' = [canon EXCEPT ![e.target] = vault[e.target]]
  /\ changed' = [changed EXCEPT ![e.target] = rev']
  /\ base' = [[base EXCEPT ![e.path] = Nil] EXCEPT ![e.target] = vault[e.target]]
  /\ disk' = [p \in Paths |->
       IF p = e.target THEN vault[p]
       ELSE IF p = e.path /\ put[p] # NoPut /\ disk[p] = put[p].v /\ canon[p] = Nil
            THEN Nil ELSE disk[p]]
  /\ applied' = applied \cup {Retargeted(e)[e.target].id}
  /\ put' = [Retargeted(e) EXCEPT ![e.target] = NoPut]
  /\ Acknowledge(e, rev')
  /\ saved' = Data(queue, base', put', moves, dels)
  /\ UNCHANGED <<vault, moving, moves, dels, debounce, ready, timer, again, late, handed, full,
                 used, gone, copies>>

RenamePutFails ==
  LET e == Running IN
  /\ PutTarget(e) /\ Fault
  /\ \/ UNCHANGED disk
     \/ disk' = [disk EXCEPT ![e.target] = vault[e.target]]
  /\ put' = Retargeted(e)
  /\ base' = [base EXCEPT ![e.path] = Nil]
  /\ Drain(RenameRetried)
  /\ saved' = Data(queue, base', put', moves, dels)
  /\ UNCHANGED <<vault, canon, changed, rev, moving, moves, dels, applied, watcher,
                 full, failed, gone, copies>>

-----------------------------------------------------------------------------
(* The full session.  pc: "prepare" until the queue is saved, "drain" what *)
(* the request found, "scan" the vault, "apply" each path, "end".          *)

IdsWhere(P(_)) == {e.id : e \in {x \in ToSet(queue) : P(x)}}
Signature(e) == <<e.act, e.path, e.target, e.rev, e.pred>>

\* prepareForSync: timers stop; uploads are left to the session, all other
\* events of this moment are drained before it.
FullPrepares(startup) ==
  LET cutoff == IdsOf(queue)
      chain == UNION {{e.id, e.pred} : e \in
                 {x \in ToSet(queue) : x.act = "rename" /\ x.pred # NoId}}
      ups == IdsWhere(LAMBDA e : e.act = "upload")
  IN /\ full.pc = "idle"
     /\ NoTimers
     /\ full' = [NoFull EXCEPT !.pc = "prepare", !.startup = startup,
                   !.cutoff = cutoff, !.chain = chain, !.uploads = ups \ chain]
     /\ UNCHANGED <<vault, remote, index, queue, again, late, handed, drain, saved,
                    failed, used, gone, copies>>

Destructive == full.cutoff \ full.uploads

FullDrains ==
  /\ full.pc = "prepare" /\ Confirmed /\ drain.pc = "idle"
  /\ full' = [full EXCEPT !.pc = "drain"]
  /\ IF Destructive # {} THEN StartDrain(Destructive) ELSE UNCHANGED drain
  /\ UNCHANGED <<vault, remote, index, watcher, saved, failed, used, gone, copies>>

\* The session is given up; the events stay, the timers are gone.
FullRefused == (full' = NoFull)

\* Fault: a rename that waits for this session blocks it.
BlockingCandidates == Destructive \cap IdsOf(queue)

Blocking == (Destructive \cap IdsOf(queue)) \ full.cand

\* pauseForSync and captureFullSyncBarrier, or the refusal of prepareForSync.
FullEnters ==
  /\ full.pc = "drain" /\ drain.pc = "idle"
  /\ IF Blocking # {} /\ (~full.startup \/ Blocking \cap full.chain # {})
     THEN FullRefused /\ UNCHANGED <<debounce, ready, timer>>
     ELSE /\ full' = [full EXCEPT !.pc = "scan",
                        !.sig = {<<e.id, Signature(e)>> : e \in ToSet(queue)}]
          /\ NoTimers
  /\ UNCHANGED <<vault, remote, index, queue, again, late, handed, drain, saved,
                 failed, used, gone, copies>>

\* A wait for the queue rejects.
FullFails ==
  /\ full.pc \in {"prepare", "scan"} /\ failed /\ drain.pc = "idle"
  /\ FullRefused
  /\ UNCHANGED <<vault, remote, index, watcher, drain, saved, failed, used, gone,
                 copies>>

\* resumePendingMoves, with what the vault has; one that is refused ends the
\* session.
Resumable == {m \in moving : MayMove(m, vault[m[2]])}
Resumed == [p \in Paths |->
  LET M == {m \in Resumable : canon[m[2]] # Dead /\ p \in {m[1], m[2]} /\ Moved(m)[p] # disk[p]}
  IN IF M = {} THEN disk[p] ELSE Moved(CHOOSE m \in M : TRUE)[p]]

\* replayPendingMutations: a deletion that no commit has taken is repeated on
\* the copy of the index the plan is made from.
Repeated(f) == [p \in Paths |-> IF p \in dels THEN Dead ELSE f[p]]

FullScans ==
  /\ full.pc = "scan" /\ Confirmed
  /\ disk' = Resumed
  /\ moving' = moving \ Resumable
  /\ base' = Repeated(base)
  /\ full' = IF moving # Resumable THEN NoFull
             ELSE [full EXCEPT !.pc = "apply", !.scan = vault, !.todo = Paths,
                     !.plan = [p \in Paths |->
                       Decide(vault[p], disk'[p], base'[p], Repeated(canon)[p])]]
  /\ UNCHANGED <<vault, canon, changed, rev, put, moves, dels, applied, watcher, drain,
                 saved, failed, used, gone, copies>>

\* Fault: a tombstone is written to the disk.
AdoptRaw(p, v) ==
  /\ canon' = [canon EXCEPT ![p] = v]
  /\ base' = [base EXCEPT ![p] = v]
  /\ disk' = [disk EXCEPT ![p] = v]
  /\ rev' = IF canon[p] = v THEN rev ELSE rev + 1
  /\ changed' = [changed EXCEPT ![p] = IF canon[p] = v THEN @ ELSE rev']
  /\ put' = [put EXCEPT ![p] = NoPut]
  /\ applied' = applied \cup ({put[p].id} \ {NoId})

Adopt(p, v) ==
  /\ canon' = [canon EXCEPT ![p] = v]
  /\ base' = [base EXCEPT ![p] = v]
  /\ disk' = [disk EXCEPT ![p] = IF v = Dead THEN Nil ELSE v]
  /\ rev' = IF canon[p] = v THEN rev ELSE rev + 1
  /\ changed' = [changed EXCEPT ![p] = IF canon[p] = v THEN @ ELSE rev']
  /\ put' = [put EXCEPT ![p] = NoPut]
  /\ applied' = applied \cup ({put[p].id} \ {NoId})

Stay == UNCHANGED <<canon, base, disk, rev, changed, put, applied>>

\* Uploads go first, then downloads, deletions and conflicts.
Turn(act) == CASE act = "upload" -> 1 [] act = "download" -> 2 [] act = "conflict" -> 4
               [] act \in {"delete_local", "delete_remote"} -> 3 [] act = "none" -> 0

\* A conflict keeps the local version; so does what replaces or deletes a file
\* whose content is not the one of the baseline.
KeepsCopy(act, p) ==
  act = "conflict" \/ (act \in {"download", "delete_local"} /\ vault[p] # base[p])

\* A file that changed since the scan is left to its event.
Stale(p) == vault[p] # full.scan[p]

\* One path.
FullApplies(p) ==
  LET act == full.plan[p] IN
  /\ full.pc = "apply" /\ p \in full.todo
  /\ \A q \in full.todo : Turn(act) <= Turn(full.plan[q])
  /\ full' = [full EXCEPT !.todo = @ \ {p}]
  /\ IF Stale(p) \/ (act = "none" /\ vault[p] = Nil /\ p \notin dels)
     THEN Stay /\ UNCHANGED <<vault, copies>>
     ELSE /\ CASE act \in {"none", "upload"} -> Adopt(p, IF vault[p] = Nil THEN Dead ELSE vault[p])
               [] act \in {"download", "conflict"} -> Adopt(p, disk[p])
               [] act \in {"delete_local", "delete_remote"} -> Adopt(p, Dead)
          /\ vault' = CASE act \in {"download", "conflict"} -> [vault EXCEPT ![p] = disk[p]]
                       [] act = "delete_local" -> [vault EXCEPT ![p] = Nil]
                       [] OTHER -> vault
          /\ copies' = IF KeepsCopy(act, p) THEN copies \cup ({vault[p]} \ {Nil}) ELSE copies
  /\ saved' = Data(saved.queue, base', put', moves, dels)
  /\ UNCHANGED <<moving, moves, dels, watcher, drain, failed, used, gone>>

\* classifyPostFullRename, for one writer.
Completed(e) ==
  /\ vault[e.target] # Nil /\ canon[e.target] > Nil /\ base[e.target] = canon[e.target]
  /\ SourceSettled(e)
SupersededByFull(e) ==
  vault[e.target] = Nil /\ canon[e.target] <= Nil /\ SourceSettled(e)

Replay(q) ==
  {e.id : e \in {x \in ToSet(q) : <<x.id, Signature(x)>> \notin full.sig}}

\* markRemoteObserved: the baseline of a path is what the index says of it.
Observed == [p \in Paths |-> IF Nil \in {base[p], canon[p]} THEN base[p] ELSE canon[p]]

\* The session commits all that is pending, then settleAfterReconciliation,
\* completeFullSyncBarrier and resumeAfterSync.
FullEnds ==
  LET cand == {e \in ToSet(queue) : e.id \in full.cand}
      ok == {e \in cand : Completed(e) \/ SupersededByFull(e)}
      acks == {e.id : e \in ok} \cup (IF ok = cand THEN full.uploads ELSE {})
      q == Without(queue, acks)
  IN /\ full.pc = "apply" /\ full.todo = {}
     /\ Queue(q)
     /\ base' = Observed
     /\ put' = [p \in Paths |-> NoPut] /\ moves' = {} /\ dels' = {}
     /\ applied' = applied \cup ({put[p].id : p \in Paths} \ {NoId})
     /\ saved' = Data(queue, base', put', moves', dels')
     /\ full' = NoFull
     /\ IF ok = cand /\ Replay(q) # {} THEN StartDrain(Replay(q)) ELSE UNCHANGED drain
     /\ UNCHANGED <<vault, remote, debounce, ready, timer, again, late, handed, used,
                    gone, copies>>

\* The session fails: nothing is acknowledged and nothing is replayed.
FullAborts ==
  /\ full.pc \in {"scan", "apply"} /\ Fault
  /\ full' = NoFull
  /\ UNCHANGED <<vault, remote, index, watcher, drain, saved, failed, gone, copies>>

\* The application ends and starts again with what was saved; start()
\* replays a queue that is not empty.
Crash ==
  /\ Fault
  /\ queue' = saved.queue /\ base' = saved.base /\ put' = saved.put
  /\ moves' = saved.moves /\ dels' = saved.dels /\ late' = saved.late /\ handed' = saved.handed
  /\ debounce' = NoTimer /\ ready' = NoTimer /\ again' = FALSE /\ failed' = FALSE
  /\ timer' = (saved.queue # NoEvents)
  /\ drain' = NoDrain /\ full' = NoFull
  /\ UNCHANGED <<vault, remote, applied, saved, gone, copies>>

-----------------------------------------------------------------------------
User == \E p \in Paths : UserWrite(p) \/ UserDelete(p) \/ \E t \in Paths : UserRename(p, t)

DrainStep ==
  \/ Collect \/ DrainFails \/ DrainEnds \/ TakeFiles \/ PrepareFile \/ Prepared
  \/ Upload \/ Commit \/ Clean \/ Settle \/ Continue
  \/ TakeRename \/ TargetMissing \/ RenameApplied \/ RenameRecovers \/ RenameCommits
  \/ Move \/ MoveRefused \/ RenamePuts

FullStep ==
  \/ FullDrains \/ FullEnters \/ FullFails \/ FullScans
  \/ \E p \in Paths : FullApplies(p)
  \/ FullEnds

Failure ==
  \/ PersistFails \/ UploadFails \/ CommitFails \/ RenameCommitFails \/ MoveFails
  \/ RenamePutFails \/ FullAborts \/ Crash

Next ==
  \/ User
  \/ \E p \in Paths : Debounced(p)
  \/ Persist \/ Timer
  \/ DrainStep
  \/ FullStep
  \/ \E startup \in BOOLEAN : FullPrepares(startup)
  \/ Failure

Fairness ==
  /\ WF_vars(Persist) /\ WF_vars(Timer)
  /\ \A p \in Paths : WF_vars(Debounced(p))
  /\ WF_vars(DrainStep) /\ WF_vars(FullStep)
  /\ WF_vars(FullPrepares(FALSE))

Spec == Init /\ [][Next]_vars /\ Fairness

-----------------------------------------------------------------------------
(* Properties.                                                             *)

Content == Nil .. MaxVersion
EntryType == Dead .. MaxVersion
Id == NoId .. MaxEvent
PutType == [Paths -> [id : Id, v : Content]]
EventType == [id : 1 .. MaxEvent, act : {"upload", "delete", "rename"}, path : Paths,
              target : Paths, pred : Id, rev : Nat, mut : Id, v : Content]

\* The types of the state; no event is queued twice.
TypeOK ==
  /\ {vault, disk} \subseteq [Paths -> Content]
  /\ {canon, base} \subseteq [Paths -> EntryType]
  /\ rev \in Nat /\ changed \in [Paths -> 0 .. rev]
  /\ moving \subseteq Paths \X Paths \X EntryType
  /\ moves \subseteq Paths \X Paths /\ dels \subseteq Paths
  /\ put \in PutType /\ applied \subseteq Id
  /\ queue \in Seq(EventType) /\ Cardinality(IdsOf(queue)) = Len(queue)
  /\ {debounce, ready} \subseteq [Paths -> Id]
  /\ {timer, again, failed} \subseteq BOOLEAN
  /\ late \cup handed \subseteq Id
  /\ drain.pc \in {"idle", "wait", "next", "prepare", "apply", "clean", "settle",
                   "saved", "rename", "move"}
  /\ full.pc \in {"idle", "prepare", "drain", "scan", "apply"}
  /\ full.cutoff \cup full.cand \subseteq Id /\ full.todo \subseteq Paths
  /\ saved.queue \in Seq(EventType)
  /\ gone \cup copies \subseteq Content

In(f) == {f[p] : p \in Paths}

\* A file the index calls live is on the disk, or a move that is to bring it
\* is recorded: no interleaving of drains, renames, retries and full sessions
\* publishes a file whose content is nowhere.
IndexHasFile ==
  \A p \in Paths : canon[p] > Nil => disk[p] # Nil \/ \E m \in moving : m[2] = p

\* The same of a well-formed state.
IndexConsistent == TypeOK /\ IndexHasFile

Lost == In(vault) \ (In(vault') \cup copies' \cup gone' \cup {Nil})

\* The baseline has the version, and the mutation that is to publish it has
\* not been taken by the index.
Early(v) ==
  \E p \in Paths : /\ vault[p] = v /\ base[p] = v
                   /\ put[p] # NoPut \/ \E m \in moves : m[2] = p

\* What the user wrote leaves the vault without a copy in one case only: the
\* baseline was written before a commit that then failed (see NothingLost).
OnlyUnconfirmedLost == [][\A v \in Lost : Early(v)]_vars

\* hasLocalContentChanged compares with "the last confirmed device baseline"
\* (baseline-rules.ts:4), so that an edit no commit has taken is never treated
\* as unchanged: what the user wrote and did not overwrite or delete is in the
\* vault or in a protective copy.
NothingLost == \A v \in 1 .. used.version \ gone : v \in In(vault) \cup copies

\* The dead ends the drain and the full session have: an event behind a rename
\* whose target is gone; a move of the index that its guard refuses; a rename
\* that a lost save brought back.
Behind == \E i, j \in DOMAIN queue :
  i < j /\ queue[i].act = "rename" /\ vault[queue[i].target] = Nil
Refused == \E m \in moving : ~MayMove(m, vault[m[2]])
Undone == \E e \in ToSet(queue) :
  e.act = "rename" /\ vault[e.target] = Nil /\ vault[e.path] # Nil

InSync ==
  /\ queue = NoEvents /\ vault = disk
  /\ \A p \in Paths : vault[p] = IF canon[p] > Nil THEN canon[p] ELSE Nil

\* When the user stops, the queue empties and the vault, the disk and the index
\* agree for good, whatever was retried, handed over or interrupted, unless a
\* save failed for good or a dead end was met.
Settles == <>[](failed \/ Behind \/ Refused \/ Undone \/ InSync)
=============================================================================
