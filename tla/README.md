# Verification of Yandex Disk Sync

A TLA+ development for the Obsidian plugin in this repository: models of the
plugin's own core logic, TLC runs that check them on small instances, and
theorems about them that TLAPS checks for every value of the constants.

The plugin keeps a vault on several devices equal through one Yandex Disk
folder. There is no server of its own: all coordination goes through files of
that folder, and the index file `.obsidian-sync-index.json` is the only
authority on what the vault contains.

## 1. Inventory

Paths are relative to `src/src/`.

| Component | State it keeps | Operations | Interacts with |
|---|---|---|---|
| Canonical index transaction (`sync/canonical/commit.ts`, `recovery.ts`, `transaction*.ts`, `errors.ts`) | on the disk: the index file, under the canonical name or a lock or claim name; per device: the running transaction, observed leases | discover, seed, lock, read, reduce, write, verify, publish, resolve a lost reply, roll back, recover a stale lock, delete an orphan | remote client (one request at a time), index manager (reducer, acknowledgement) |
| Index manager (`sync/canonical/manager.ts`, `schema.ts`) | local replica, remote index, durable pending mutations, sequence floor, loaded flag, encryption epoch | load, enqueue, stage, confirm, discard, save with retries, accept, finalise | transaction, merge, operation store, storage of the plugin |
| Canonical merge (`merge.ts`, `mutation-rules.ts`) | none: a function from the locked index and the desired one to the merged one | per-file causal decision, tombstones, moves, applied watermarks | manager |
| Direct Force publication (`force-publication.ts`) | one attempt's expected bytes | overwrite the canonical index, verify, delete every lock | remote client |
| Durable operation store (`sync/local/*`) | the ordered operation list, sequence floor | enqueue, coalesce, stage physical work, confirm, discard, reset for a new epoch | manager, plugin persistence |
| Session coordinator and scheduler (`sync/coordinator.ts`, `scheduler.ts`) | running session, queue of session requests, suspension | run, enqueue, coalesce, suspend, resume, timers | engine, plugin shell |
| Sync engine (`sync/engine.ts`) | session state, gate of exclusive work, last result | full, Force, batch, reset, abort, status | everything below it |
| Remote client (`api/yandex-client.ts`) | write guard, retry state | list, read, upload, exclusive upload, move, delete, with retries and lost replies | read transport, transaction, file operations |
| Read transport (`api/read-transport.ts`) | queue of reads, active count, pacing and cooldown | request, dispatch, set concurrency, cancel | remote client |
| Realtime watcher (`sync/realtime/*`) | event queue with generations, settle timers, retry schedule, echoes to suppress | observe, coalesce, settle, run a batch, requeue | vault, engine, file operations |
| File operations (`sync/files/*`) | staged physical operations | upload, download, delete, rename, folder mutations around a canonical commit | manager, remote client, vault |
| Reconciliation (`sync/reconciliation/*`) | baselines of the last sync | classify, settle conflicts, recover half-done physical work, drop rejected puts | file operations, manager |
| Full synchronisation and first receipt (`sync/workflows/full.ts`, `initial-receive.ts`) | the plan and the cursor in it | scan, plan, execute, verify | the three above |
| Force workflows (`sync/workflows/force*.ts`) | journal of a replacement | journalled replacement of local or remote state, resume after a restart | Direct Force publication |
| Encryption transitions (`crypto/*`, `sync/workflows/encryption-*.ts`) | epoch, transition journal, session key | enable, change, disable, adopt, clean up, recover | manager (maintenance states), remote client |
| Plugin persistence (`plugin-persistence.ts`, `plugin-data-loader.ts`) | one write queue over one snapshot | load, save, save authentication, save on unload | every stateful component |
| Mobile recovery (`sync/mobile-recovery.ts`) | retry attempt, offline and hidden flags, timers | resume, network change, success, failure | coordinator |
| Concurrency utilities (`utils/semaphore.ts`) | permits, waiters | acquire, release, bounded parallel map | workflows |
| Authorisation (`auth/*`) | attempt, token, expiry | start, callback, exchange, cancel, sign out | plugin shell |
| Backup (`backup/*`) | backup records | create, validate, restore, rotate | Force and encryption workflows |
| Plugin shell, settings, UI, translations, helpers | wiring and presentation | | |

### What is hard here

- Several devices share the disk without any server-side lock. A MOVE with
  `overwrite=false` is the only atomic primitive; a PUT with `overwrite=true`
  is not conditional on what it replaces.
- Every request can be lost before the server, lose its reply after it, or
  take effect after the sender has given up on it.
- A device can stop at any request and come back at any later time: mobile
  hosts suspend the process, so even a lease does not bound what an owner does.
- Locally, one user action crosses several awaits (vault, storage, network)
  while further events, settings changes, suspension or an unload arrive.
- Physical work (files) and logical work (the index) commit at different
  times, so each needs a durable record of the other's progress.

`PROJECT.json` lists these hazards at the line where each bites, with the
property that guards against it.

## 2. Plan

The order is by how much depends on a component: first the register that every
device trusts, then the sessions that drive everything, then what a session
does to files, then the workflows that replace everything at once.

| # | Module | Composes | State |
|---|---|---|---|
| 1 | `CanonicalRegister` | abstract specification of the index: an atomic register | done |
| 2 | `CanonicalTransaction` | implements 1 with MOVE, PUT and leases | done, invariants and refinement proved |
| 3 | `SyncSession` | coordinator, engine lifetime, pause and resume | done, proved |
| 4 | `CausalMerge`, `FullPlan` | operators: reducer, plan, durable queue | done |
| 5 | `Replica` | 4 with vaults, disk, sessions, crashes; a commit is one step of 1 | done, queue and edits proved |
| 6 | `RemoteRead` | the request loop for reads over the read transport | done, safety proved |
| 7 | `Watcher` | realtime queue, debounce, drain, renames, full session's cutoff; decides with 4 | done, index invariant proved |
| 8 | `Force` | journalled replacement of one side by the other, Direct Force publication | done, safety proved |
| 9 | `Encryption` | the owner's transition, its rollback, a helper's takeover | done, safety proved |
| 10 | `Reception` | how the other devices receive what 9 has published | done, invariants proved |
| 11 | `RetryLoop` | writes and downloads of `api/yandex-client.ts`: lost replies, recovery of an upload, 401 and cooldowns | open |
| 12 | `PluginPersistence` | serialised saves of one snapshot, authentication overlay, activation | open |
| 13 | `SyncScheduler`, `MobileRecovery`, `HostLifecycle` | timers, offline and hidden states, unload | open |
| 14 | `Authorisation`, `Backup` | attempt supersession; retention | open |
| 15 | folders | folder operations as an extension of 5 and 7 | open |

Theorems worth adding: `EditsSurvive` of `Replica` for deletions whose files
nobody writes again; `SequenceUsedOnce`, whose invariant has to say which
sequences a session has staged and stored; `OnlyUnconfirmedLost` of `Watcher`
(section 7); about `CausalMerge`, that a tombstone is replaced only by a put that
saw it, and that the merge of an index with itself changes nothing.

## 3. What each module models

### `CanonicalTransaction` and `CanonicalRegister`

One action per request that `sync/canonical/commit.ts`, `recovery.ts` and
`transaction.ts` send. `files` is the set of index files in the remote root:
the canonical name, lock names and claim names. `txn[d]` is the local state of
the one transaction a device runs at a time (its mutex,
`manager.ts` `serializeRemoteIndexOperation`), with the step it is at. Each
request may reach the server or not and lose its reply (`MaxFaults`), a device
may restart between any two requests (`MaxCrashes`). An index is reduced to its
revision, the mutations in it and who wrote it; the reducer is set union here
and is modelled for itself in `CausalMerge`.

`Hazards` names three situations against which the protocol has no defence, so
that every run states which of them it assumes away: a request reported as
failed that takes effect later (`late-effect`), an owner that still runs when
its lease ends (`lease-outlived`), and a device that seeds an index after
others have published and locked one since it looked (`stale-absence`).

`CanonicalRegister` is what callers rely on: the index is a register, a commit
replaces it by a successor that contains everything before it, only what the
register contains is acknowledged.

### `SyncSession`

`SyncCoordinator` with the part of `SyncEngine` that a session goes through:
request, preparation (with the drain of the watcher that a full session waits
for), joining the promise chain, entering, the task with its guards and
callbacks, settlement, exit. A pause and a resume can come between any two
steps. What a session does to files is left out; it fails or succeeds.

### `CausalMerge` and `FullPlan`

Operators only. `CausalMerge` is `mergeDesiredIndex` for files in the normal
mode: `Classify` is `classifyFileMutation`, `Merged` the loop with
revisions, fingerprints and watermarks. `FullPlan` is the decision about one
path (`resolveAction`, `compareFiles`), the forms a baseline takes, and the
durable queue (`LocalOperationStore`): sequences, the floor that continues the
canonical watermark, no-ops, physical actions. The optional field `deleted` has
three values, since some readers compare it with `!==` and its absence is then
not the same as `false`.

### `Replica`

Full sessions of several devices over one disk. `canon` is the canonical
index, `disk` and `vault[d]` the files, `mem[d]` the durable state of a device
as it is in memory and `saved[d]` as it was last stored, `ses[d]` the session:
the loaded and the desired index, both scans, the plan and what is left of it.
The actions follow `reconcileFullSync`: `Load` (with the floor and the replay of
pending deletions), `Physical` (deletions left over), `ScanLocal`, `ListRemote`,
`Verify` (contents of paths whose metadata do not decide), `Plan`, `Prepare`
(confirmed baselines and queued uploads), `Upload`, `Stamp`, `DownloadRead`, `DownloadApply`, `Settle`, `Intent`,
`Commit`, `RejectedDelete`, `RejectedPut`, `Confirm`, `Physical` again,
`Resolve`, `WriteCopy`, `SendCopy`, `ApplyWinner`, the final commit and
`Finish` (`markRemoteObserved`). Users write and delete files between any two
of them. `Crash` loses what was not stored, `Abort` ends a session at any
request, `UploadLost` loses the reply of a PUT and its confirmation. `dropped`
records which devices have removed a mutation from their queue that is in no
index (`Confirm`; section 8).

Abstractions, each of which removes behaviour:

- A canonical commit is one step, which `CanonicalTransaction` justifies.
- The check before a PUT, a DELETE or a vault write is one step with it.
  `docs/CONFLICTS.md` says that the disk gives no atomic guarantee; races
  between the check and the write are not modelled, and neither is
  `repairMissingAcceptedUploads`, which exists for them.
- Contents are versions and in plain, so a fingerprint is the content.
- A version in a trash (vault deletions go to one, disk deletions too) counts
  as kept.
- Users delete no conflict copies, so only the first name of a copy is tried.
- Re-reading server metadata after uploads succeeds; in the code its failure
  is a warning and leaves the fingerprint absent.
- Connected devices only: no first receipt, no folders, renames, realtime
  batches, encryption, Force.

### `RemoteRead`

`RemoteReadTransport` and the request loop for GET above it. `att[a]` is one
attempt of a read as the transport sees it: queued, `stopping` (its wait was
rejected and its caller has not continued yet, so `dispatch` can still grant it
a permit), granted, running, returned, or left on the network. `rd[r]` is the
loop: attempt number, whether this is the replacement, deadline and signal.
`Dispatch` is the loop of `dispatch`, inlined into every action whose code calls
it. The order of the waiters, insertion order of a `Set`, is kept as an age.

### `Watcher`

The realtime watcher of one device against the user, the disk and the index.
`queue` is `deferredEvents`, and an event keeps what it captured when it was
made: its identity, the revision, its predecessor. `Reduce` is
`queue-rules.ts` and `rules.ts`: a rename rebases the rename before it, a write
behind a rename is absorbed, a deletion behind a rename becomes the deletion of
its source. `drain` is the replay with its own program counter: it waits,
takes a batch, prepares, applies deletions, uploads and renames, cleans what a
superseded event left, settles and saves; a rename goes through its commit and
the move of the file on the disk, and a failed part falls back to a put.
`full` is a full session, which freezes the queue at a cutoff, drains what is
destructive, scans, decides with `FullPlan` and takes over the uploads.
`failed` is a save that failed for good. The user writes, deletes and renames
between any two steps; a crash goes back to `saved`.

The code's loop over the collected events holds the objects of the queue
themselves. What a settlement assigns to such an object (`Object.assign` in
`applyUploadCausalReceipts`, the fields of a successor in `settleRenameEvent`)
the rest of the loop sees; what the reducer replaces by a new object it does
not. `Shared` makes this difference: an event that waits in `drain.todo` follows
its entry in `queue` through a settlement and through nothing else.

Left out: folder events, excluded paths, epochs, the byte limits of a window;
one device only; a commit is one step; a batch is one window.

### `Force`

One confirmed Force over a folder, in either direction. `run` walks through
`force-controller.ts` and `force-replacement.ts`: preflight, confirmation,
scan, admission, reset of the index, deletions (of the folder or of its files,
`NarrowDelete` when late edits forbid the whole), copies (`Record` writes the
checkpoint after each), the publication of the rest and of the final index, the
receipt, the end. `st` is the `ForceRecovery` in memory, `disk` the one in the
plugin data; a publication ends in one of `Results` (saved, unsent, reply lost,
save failed).

`queue` holds what the watcher knows, so that late edits are those it has
(`hasLocalChanges`), and `saved` is the queue in the plugin data. Whatever saves
the plugin data writes the queue and the checkpoint together (`OtherSave` stands
for the saves of the watcher and of other parts, `watcher.ts:1638-1680`), and
`Restart` goes back to `saved`: an event that was not saved yet is lost.
`watching` says whether the watcher observes between sessions. With a checkpoint
to continue, a start leaves it off (`main.ts:3405-3417` returns before
`fileWatcher.start`), and settings or a failed session may turn it off
(`SwitchWatching`); `pauseForSync` turns it on for the time of a session
(`watcher.ts:432-436`). A change of the user while nobody observes gets no
event. `Admitted` is the preparation of a session (`watcher.ts:311-426`): a
removal or a rename in the queue, which nothing drains while a Force waits,
refuses every session but the first after a start. A session waits for the save
of the queue, and the wait may fail.

`Download` is the comparison with the queue and the reads before the mutation;
`Write` the mutation of the vault, which may find the file changed since
(`ConcurrentSyncChangeError`), may fail unchanged, and may change the vault and
fail after it (`force-replacement.ts:1105-1131`): the vault is then ahead of
the record. Ghosts: `kept` (what the user did after the boundary), `unseen`
(files whose last change has no late event: absorbed by a rename, made while
nobody observed, or lost with an unsaved queue), `foreign` (files somebody else
changed on the disk), `hidden` (files the vault has and the record does not: a
crash or a failure between the write and its record).

Left out: the encryption of the target, the archive, the preview; the reads of
a scan are one step, since a transfer reads its file again. An edit is an event
at once, since the code queues it before the debounce. A rename in the queue
with a predecessor upload refuses even the session at startup; in the model only
the other sessions. A crash between the two saves of `Finish` is a failure of
the second and a restart after it.

### `Encryption`

The owner's transition: `Claim` (compare-and-swap of the index into
maintenance), `Announce` (manifest), `ApplyTarget`, `Rewrite` per file,
`Copied`, `Commit`, `PublishStable`, `Sweep` and `Purge` of the source objects,
`Verify`, `Finish`, `Clear`; or `Recover`, `Restore`, `Undo` and `Release` back
to the source. `mem` and `disk` are the owner's checkpoint and mode, `work.a`
and `work.b` what the owner and a helper are doing. Around it (bounded by
`MaxEvent`): an edit of the owner's user, a commit of another device, an upload
under the source codec that lands late, a damaged target, a successor
transition.

A removal of the cleanup is three steps. `Purge` is the awaited read of the
authority (`replacement-cleanup.ts:372-396`); it puts the DELETE on its way into
`sent`. `Deleted` is its effect, whatever has happened in between and also when
its sender has given up or restarted, since the DELETE carries no condition
(`:428-437`, `yandex-client.ts:1905-1938`). `Purged` is the check after the
answer. `Workers` bounds the removals in hand. Ghosts: `landed` (files whose late
upload found no object), `astray` (DELETEs that were on their way when the index
stopped naming their object), and the situations that the code leaves to the
user (`hurt`, `swept`, `trampled`).

Merged: `Undo` validates and deletes in one step (`encryption-transition.ts:581-633`).
What it removes is an object of the target of a transition that did not commit,
which nothing names, so in the one transition that is modelled a later effect
changes no property. A device has at most one DELETE of a file in flight.

Left out: keys and passwords (a codec is a name), folders, archives, the
guarded cleanup of checkpoints without a replacement. Assumed away: an upload of
a target that the owner has given up on and that lands after the rollback
(`encryption-rewrite.ts:47-72`). It would leave an object that nothing names, so
`RolledBackIsClean` holds of uploads that land before the rollback looks.

### `Reception`

The other side of a transition: a device finds a generation it has no baseline
for. `mem.receipt` is the recovery receipt with the hashes of the beginning
(`initial`) and of what the reception has written (`applied`). `Capture`,
`Check`, `Write`, `Record`, `CheckExtra`, `Remove`, `Finish` are
`encryption-adoption.ts`, `Finalize` and `Restore` the end of the session in
`engine.ts` and `full.ts`. Several files are in hand at once, as in the bounded
map of the code; a failure stops new ones and waits for those in hand.

`Finish` merges the awaited check of the authority with the save after it
(`encryption-adoption.ts:308-323`). A replacement that another device publishes
between the two is in the model one published after the save: the baseline names
its own generation in either case, and the next session receives the newer one.

Left out: obstacles between files and folders
(`encryption-adoption.ts:330-422`) and the upload of what stays.

## 4. What each run checks

| Run | Bounds | Shows |
|---|---|---|
| `canonical_nominal` | 2 devices, 2 mutations, 3 lock or claim names, 1 fault, 1 crash, no hazards | exactly one service file holds the index; what was acknowledged stays in it; a reported rollback left nothing; refinement of `CanonicalRegister` |
| `canonical_hazards` | 2 devices, 1 mutation, 3 names, 1 fault, all three hazards | no device is told of a commit that was never published; recovery publishes only bytes it saw unchanged |
| `sync_session` | 2 sessions of any kind, 2 pauses | mutual exclusion, queue order, no observation across a pause, every request answered |
| `replica_sequential` | 2 devices, 2 paths (1 shared at the start), 2 writes, 1 deletion, sessions one after the other | edits survive, deletions stand, convergence; not so with more writes, section 8 |
| `replica_edits` | 2 devices, 1 path, 2 writes, overlapping sessions | edits survive, convergence; not so with a third write, section 8 |
| `replica_faults` | 2 devices, 1 path, 1 write, 1 deletion, 1 crash, failure or lost reply, overlapping sessions | the durable queue continues the watermark; no sequence is used twice |
| `remote_read` | 2 reads, 2 retries, limit 1 or 2 changed once, 1 interruption | permits are counted right and used, replacements do not multiply, no read is answered with what it read before an interruption, every read is answered |
| `watcher` | 2 paths, 3 writes, 2 events, 1 failed call, save or restart | the index names no file that is nowhere; no version is lost except through an unconfirmed baseline; everything settles unless a named dead end is met |
| `force` | 2 files (at most one renamed), both directions, no or one excluded file, at most 2 of edits and faults | late edits that have an event and excluded files survive; checkpoint, index and disk agree; nothing is replayed or widened; every difference to the new baseline has an event, named exceptions aside; the replacement ends unless a named dead end is met |
| `encryption` | 2 selected files, 1 excluded, 3 kinds, 1 DELETE at a time of each device, 1 takeover, at most 2 of faults and events | the index stays readable with the keys at hand; the cleanup removes what the index names, or an upload that landed while its DELETE was on its way; it is complete; a rollback leaves nothing; the transition ends unless a named dead end is met |
| `reception` | 2 files, 1 edit, 1 commit or replacement, 2 faults | late edits stay, everything else becomes the generation; the receipt outlives every attempt but the last |
| `reception_finalize` | 2 files, 1 edit, 1 event, 1 fault | violation: see section 8 |

Some invariants are conjunctions of named parts: `QueueConsistent` (of
`Replica`), `IndexConsistent` (`Watcher`), `RecordsConsistent` and
`NeverReplayed` (`Force`), `SidesConsistent` and `LeavesNothing`
(`Encryption`), `VaultConsistent` (`Reception`).

Every property has a mutant in `PROJECT.json`: a plausible slip in one
definition (marked "Fault" or "A mistake" in the module) with which TLC finds
the property violated. The modules hold more of these slips than the listed
mutants use: each part of a conjunction has one of its own (`RecordedIsStored`
and `CanonDescribesDisk` are broken by different ones), and so has each
property that section 6 proves and no run needs any more (`FullShared`,
`OwnerIsLive`, `GrantsWithinLimit`, `OldestFirst`).

### Instances beside the runs

These configurations are kept with the modules and are run by hand
(`tlc -config X.cfg M`).

| Configuration | Module | Shows |
|---|---|---|
| `CanonicalLease.cfg` | `MCCanonicalTransaction` | a lock left by a crashed owner is recovered (`AbandonedLockRecovered`, liveness): holds |
| `RemotePermits.cfg` | `MCRemoteRead` | three reads, no retries, limit changed twice, symmetry: limit, order and use of permits hold |
| `CanonicalOutlivedLease.cfg`, `CanonicalSeedRace.cfg` | `MCCanonicalTransaction` | violations, section 8 |
| `SyncSessionPause.cfg` | `MCSyncSession` | violation, section 8 |
| `ReplicaOldContent.cfg`, `ReplicaResurrection.cfg`, `ReplicaFalseConflict.cfg`, `ReplicaGap.cfg`, `ReplicaStuck.cfg` | `MCReplica` | violations, section 8 |
| `ReplicaStamp.cfg` | `MCReplica` | violation of `EditsSurvive` where sessions overlap, with three writes, no deletion and no fault, section 8 |
| `ReplicaRestored.cfg` | `MCReplica` | violation of `EditsSurvive` where sessions take turns, after a deletion, section 8; only the order of steps that `Restoring` names is explored |
| `ReplicaDroppedPut.cfg` | `MCReplica` | violation of `NoQueueHasGap`, section 8; five writes, so only the order of steps that `Schedule` names is explored |
| `WatcherBaseline.cfg` | `MCWatcher` | violation, section 8 |
| `ForceEdits.cfg`, `ForceUnseen.cfg`, `ForceReplay.cfg`, `ForceDigest.cfg` | `MCForce` | violations, section 8 |
| `EncryptionClaims.cfg` | `MCEncryption` | violations of `TransitionIsMaintained`, `Retired` and `RemovedIsNamed`, one at a time as the file says, section 8 |

### Why the bounds are enough

- Two devices suffice for the canonical protocol: every step depends on the
  device's own transaction and on the set of files, so a third device can only
  do what the second could; its invariants are proved for any number (section 6).
  One fault and one crash each hit every request of every path, and a second
  recovery begins from a state the first could have left.
- `LockName` is the pool that `createTransactionId` draws from: every
  transaction and every recovery claim takes a name not used before, so its size
  bounds their number. Three are enough for one transaction that is abandoned, a
  claim of its lock and another transaction (or another claim).
- Two sessions suffice for the queue because a session waits for the one before
  it and nothing else; safety is proved for any number. Two pauses allow one
  before and one after a resume inside the same session.
- In `Replica` a file is lost, if at all, between two versions of one path and
  two devices: one writes, one overwrites. Two paths add the interference of
  the groups of a plan (uploads before deletions before conflicts). `MaxVersion`
  2 is one edit on each device, or two on one; `MaxDeletes` 1 crosses a deletion
  with both. Runs that allow all of this at once exceed what is practical, so
  the three runs each leave one dimension out. For `EditsSurvive` these bounds
  do decide: it holds in `replica_sequential` and `replica_edits` and fails a
  little beyond either (`ReplicaRestored.cfg`, `ReplicaStamp.cfg`). What holds
  for any number of writes is the theorem `EditsSurviveInTurn` (section 6);
  section 8 says which combinations are known to fail.
- `MaxRevision` bounds the number of commits. In `replica_sequential` and
  `replica_edits` no behaviour reaches it, so it cuts nothing (raise it and the
  state counts stay the same). In `replica_faults` it cuts: overlapping sessions
  with a deletion can publish for ever, so the run checks safety only and
  disables the deadlock check.
- In `RemoteRead` the reserve pool has its 2 permits as in the code. Two reads
  cannot fill it, but it shares every line with the normal pool, which they
  fill with one permit and which three reads crowd in `RemotePermits.cfg`. Two
  retries are one before a replacement and one after it was used up.
- In `Watcher` two events are what its rules distinguish: a second event of a
  path or of a rename's end replaces, is absorbed by, rebases or follows the
  first. Two paths give a rename its ends; three versions allow a write before,
  between and after the two events. One fault each hits every remote call, save
  and point of a restart.
- In `Force` the files do not depend on each other except through their folder;
  they are interchangeable, so `MCSpec` keeps one order of the initial states, and
  at most one begins as the target of a queued rename; two of them make the folder's deletion partial. `MCSpec` allows two
  edits, two faults or one of each. Two edits let the user change both files, or
  one twice, or one beside a change of another device. One fault reaches every
  step beside an edit, resumption starts over from the saved checkpoint, and a
  second fault meets the resumption. By hand, two edits together with one fault
  (`Spec` with `MaxEdit = 2`, `MaxFault = 1`, 2.13 million states) give the same.
  Several faults add checkpoints that several saves in a row have missed: with
  three (and one edit, by hand) the records still describe the disk, except for
  a file whose deletion still waits and is tried again first, which is why
  `RecordedIsStored` exempts it.
- In `Encryption` two faults are one on the way forward and one in the recovery
  from it; `MCSpec` allows two of faults and events together, which crosses a
  late upload or a commit of others with a restart. The files are
  interchangeable; enabling meets both vaults, one where a file must be read from
  the disk and one where it need not, and rotating and disabling, which fill their
  rewrite in the same way, only the first. One DELETE of each device at a time is enough for an answer that comes
  after a takeover, since removals of different files do not meet. Two files allow a rewrite, a sweep and an undo to be partial; the
  excluded one shows that they spare what is not selected. `MaxHelp` bounds how
  often a helper takes over, since owner and helper may take the work from each
  other for ever.
- In `Reception` the same holds of two files and two faults. With two edits and
  one event of others, or one and two, and one fault less, TLC finds the same.

## 5. Fairness

- `CanonicalTransaction`: weak fairness of the steps of a device, only for
  `CanonicalLease.cfg`. A request is answered or times out, and waiting polls on a
  timer. A lease ends because time passes.
- `SyncSession`: weak fairness of the steps of each session: promises settle and
  their continuations run. The user need not pause, resume or request.
- `Replica`: weak fairness of a device's step, and strong fairness of starting a
  session, since devices synchronise on timers (`sync/scheduler.ts`) and an
  individual start may be postponed by another session again and again when
  sessions do not overlap. Users need not write, and faults need not happen;
  both are bounded, so convergence is about the time after the last of them.
- `RemoteRead`: weak fairness of callbacks and timers, and of the passing of
  time. A native request is not fair: it may never return.

- `Watcher`: weak fairness of each debounce timer, of the timer that starts a
  drain, of the save, of the steps of a drain and of a full session, and of
  starting a full session: timers fire, promises settle, and the scheduler asks
  for full sessions periodically. Startup sessions need not happen.
- `Force`: weak fairness of the steps of a run and of `Resume`: every admitted
  session resumes a saved checkpoint before anything else (`engine.ts`). `Resume`
  has the admission as its guard (`Admitted`), so nothing is assumed of a session
  that its preparation refuses; that is a dead end of `Stranded`.
- `Encryption`: weak fairness of the owner's steps, which include `Recover`: the
  recovery runs at every admission (`crypto/recovery.ts`). Nobody has to help.
- `Reception`: weak fairness of the reception's steps, which include `Start`: a
  device whose generation is not the canonical one receives it at its next full
  session.
- `MCForce` and `MCEncryption` count faults and other events together. Their
  `MCSpec` has the same fairness, of the steps that this bound allows; a step that
  is not a fault is always among them.

Interruptions, settings, crashes and users are never fair, and the faults are
bounded: liveness is about the time after the last of them.

## 6. What is proved

TLAPS checks these for every value of the constants.

| Module | Theorem | Property |
|---|---|---|
| `CanonicalTransactionProofs` | `TokenSafety` | `OneAuthority` |
| | `TypeCorrect` | `TypeOK` |
| | `RecoveryIsFaithful` | `RecoveryPublishesObserved` |
| | `AcknowledgementsSurvive` | `AcknowledgedSurvive` |
| | `RollbackLeavesNothing` | `RolledBackLeavesNothing` |
| | `AcknowledgementsWerePublished` | `AcknowledgedWasPublished` |
| | `Implements` | `ImplementsRegister` |
| `SyncSessionProofs` | `TypeCorrect` | `TypeOK` |
| | `MutualExclusion` | `OneActive` |
| | `QueueIsFIFO` | `FirstComeFirstServed` |
| | `SharedIsFull` | `FullShared` |
| | `OwnershipEnds` | `OwnerIsLive` |
| | `PauseIsFinal` | `PausedNotObserved` |
| `ReplicaProofs` | `QueueIsContinued` | `QueueConsistent` |
| | `EditsSurviveInTurn` | `EditsSurvive` |
| `RemoteReadProofs` | `TypeCorrect` | `TypeOK` |
| | `PermitsAreCounted` | `PermitsCounted` |
| | `LimitKept` | `GrantsWithinLimit` |
| | `FairOrder` | `OldestFirst` |
| | `RoomIsUsed` | `NobodyWaitsForRoom` |
| | `TwoRequestsAtMost` | `TwoNatives` |
| | `NothingFromBeforeIsGiven` | `NothingFromBefore` |
| `ForceProofs` | `LateEditsAreKept` | `LateEditsSurvive` |
| | `ExcludedAreSpared` | `ExcludedStay` |
| | `ForceIsNotReplayed` | `NeverReplayed` |
| | `RecordsAreConsistent` | `RecordsConsistent` |
| | `EditsAreRemembered` | `NoEditForgotten` |
| `EncryptionProofs` | `SidesAreConsistent` | `SidesConsistent` |
| | `LiveIsReadable` | `LiveReadable` |
| | `NothingIsLeft` | `LeavesNothing` |
| | `RemovalsAreAuthorized` | `RemovalsAuthorized` |
| `WatcherProofs` | `IndexIsBacked` | `IndexConsistent` |
| `ReceptionProofs` | `LateEditsAreKept` | `VaultConsistent` |
| | `AdoptionIsComplete` | `AdoptedIsAuthoritative` |
| | `ReceiptIsKept` | `ReceiptGuardsTheVault` |

**`CanonicalTransaction`.** Assumptions: `NamesAssumption`,
`MarkersAssumption`, `BoundsAssumption` (in the module), that markers are no
indices (`MarkersAreNoIndex`), and `Hazards = {}` as a hypothesis of
`TokenSafety` and `TypeCorrect`: with one of the hazards the token is not safe,
which is what the hazards are named for. The number of devices, names, faults and crashes is
arbitrary. `OneAuthority` is not inductive by itself: that a MOVE finds its
source depends on what each device believes about the name it holds. The
inductive invariant adds: the type of each transaction; for each step of a
transaction, the names its device may rely on (`LocalInv`), and the index under
its lock when it is about to; that a lock or claim name belongs to at most one
running operation (`Disjoint`); and that recovery moves only locks that belong
to nobody who still runs (`Abandoned`), which is where `Hazards = {}` enters.

`RecoveryIsFaithful` has no hypothesis on `Hazards`: several devices may recover
the same lock, recover each other's claims and have their requests take effect
late. Its invariant (`RecoveryInv`) is about the claim names of the recoveries
that run. Such a name is nobody's lock and nobody else's claim (`ClaimsApart`);
until the one MOVE to it has taken effect nothing is there and nobody has found
a lock there, and afterwards no request is left that could bring other bytes
(`Filling`); who recovers the claim of somebody else finds it unchanged and
therefore never puts anything back under it (`Faithful`), so the bytes that a
device has read back are the ones it moves on. It was checked on 883 thousand
states first.

What the index holds is proved on top of that, in the second half of
`CanonicalTransactionProofs`. Three of its theorems have the same assumptions
and `Hazards = {}`. The invariant that there is one service file becomes one
about its bytes:
`TokenInv` says that the file is never lost, that it holds what is published or
a successor of it (`Follows`: the same bytes, or one revision more that drops
nothing), and that under the canonical name it holds what is published.
`Content` says the same from the side of each device: before it has read under
its lock, the lock holds what is published; afterwards `orig` is what is
published and the lock holds `orig` or `merged`, which of the two being known
from the step; `merged` adds only mutations of its own; what a device has seen
at the canonical name is part of what is there now; and the own mutations of a
batch that was rolled back are in no service file. That mutations belong to one
device (`ApartInv`) is what makes a recovery by somebody else harmless to the
last one. `DeadInv` is needed for the deletion of an orphan: nothing can come to
the name it is on its way to. `AcknowledgedSurvive` and
`RolledBackLeavesNothing` are parts of this invariant, and the refinement
follows from it: the mapping takes `published` and `accepted`, a step that
publishes puts a `Reduced` index over the current one, an acknowledgement adds
what `Seen` bounds, and every other step leaves both as they are. The run checks
the invariant on 1.2 million states. `AcknowledgementsWerePublished` has no
hypothesis on `Hazards`: even where a device outlives its lease or a late
request lands, an acknowledgement only follows what stood under the canonical
name (`EverInv`).

**`SyncSession`.** Assumptions: `NoSessionAssumption` and
`MaxPausesAssumption`. The inductive invariant is the conjunction of `TypeOK`,
`Accounting` (the tail and the pending sessions agree with each session's step),
`Chain` and `Order` (each session waits for the one that joined before it, and
the joined ones have distinct places), `ActiveInside`, `Exclusive` (one session
is past its turn), `Unrequested`, `FullShared`, `Shown`, `Syncing`, `Staged`,
`Generations` (the generation a session bound is no newer than the engine's) and
`PausedNotObserved`. `OneActive` needs `Chain`: that two sessions do not overlap
follows from what each of them waits for, not from a lock.

**`Replica`.** Assumptions, all in the module: `PathsAssumption` (finitely many
paths), `BoundsAssumption` (the bounds are naturals), `OverlappingAssumption`,
`CopiesAssumption` (the name of a conflict copy is no path of the users), and
that `None` and `Nil` are none of the values they stand beside (`NoneAssumption`,
`NilAssumption`). The number of devices, paths, writes, deletions, crashes and
failed sessions is arbitrary.

`QueueIsContinued` has no further hypothesis: with overlapping sessions,
deletions and every fault, all variables keep to their types and the queue of
every device outside `dropped` continues the canonical watermark, in memory and
as it is stored. A queue is a chain: its sequences follow each other, end right
below the next one and begin at most one above the mark (`Chained`). Appending,
confirming and discarding keep a chain; what could break it is the mark. A
commit advances only the mark of the device that commits, and to no more than
that device had queued (`Marks`), which has to hold of the index a session
loaded, of the one it wants and of the canonical one at once, since a commit
merges them. The rest of the invariant is there because a step would otherwise
have no mutation to count: a planned upload has its put in the queue, a conflict
is never one of a conflict copy (`Named` ties the name of a copy to its
content), and a fingerprint is only refreshed where both indexes have an entry
(`Running`). The folds of `CausalMerge` and `FullPlan` are handled one element
at a time, as `Picked` is in `WatcherProofs`: by the least step at which a fact
would fail.

`EditsSurviveInTurn` has the hypotheses `Overlapping = FALSE` (sessions of
different devices take turns) and `MaxDeletes = 0` (no user deletes anything),
and no others: users write while sessions run, any number of times; sessions are
cut off by crashes or aborted, and uploads lose their replies, at any step. Both
hypotheses are needed: `ReplicaStamp.cfg` and `ReplicaRestored.cfg` refute the
property without the one or the other. A step may overwrite content only where
it is `Spare`: a user has replaced it or a protective copy has it (`Lost` is the
set of these versions). A session, also one that follows half a session, judges
by what has been recorded, so the invariant (`Preserving`) says
that no record claims more than the files do, but for what is spare. What a
baseline names is on the disk and in the vault, in memory and as stored, also
after an upload that is in no index (`Based`). What an index names is on the
disk, and its fingerprint is that of its content; only an upload under way has
none yet (`Written`, `Printed`, `WantOK`). A scan is true of everything no user
has replaced since (`ScanOK`), so an upload replaces nothing, or what the device
itself has had and changed (`Sendable`); what was read for a download is still
on the disk (`ReadOK`); and where nothing is left to do the vault has what the
disk has (`DoneOK`), so that `markRemoteObserved` at the end of a session is
right. Overlapping sessions break `ReadOK` and `DoneOK`; a tombstone breaks
`Sendable`, since a deleted file is restored without a look at the remote one.
`Alone` says that one session runs at a time. Each action has one lemma, and
`Preserving` is proved on top of the invariant of `QueueIsContinued`.

**`RemoteRead`.** Assumptions: `ReadsAssumption` (finitely many reads),
`RetriesAssumption`, `LimitsAssumption`, `ReserveAssumption` and
`BoundsAssumption`. The inductive invariant has three parts. `TransportInv`:
the counters agree with the permits held, each phase of an attempt has a permit
or has none, waiters have none and came one after the other. `LoopInv`: an
attempt in progress is the current one of its read, and those not yet made are
new; without it, a loop could touch an attempt that another holds. `BoundsOK`.
That `Dispatch` keeps the first part is proved once, for any state of the
transport it may start from (`DispatchKeeps`). The limit is kept by counting:
the waiters granted in one pool have different numbers of older waiters, all
below the room there is, so there are no more of them than there is room
(`GrantsFit`). The order follows since an older waiter has fewer ahead. That no
room is left unused (`RoomIsUsed`) is the other half: `Dispatch` goes on until
nothing fits (`DispatchFills`, by the oldest waiter that could still be granted,
which exists since ages are well-founded), and a step that does not dispatch
neither frees a permit nor raises a limit nor adds a waiter (`StepFills`).
`TwoNatives` is not inductive; the invariant `Leaves` adds that a read which has
not been replaced has left no request behind, and one which has been replaced at
most one. `NothingFromBefore` needs no more than `LoopInv`.

**`Watcher`.** Assumption: `WatcherAssumption` (at least one path; the bounds
are naturals), so for any number of files, events, faults and restarts. That a
file the index calls live is somewhere rests on the queue: what a drain commits,
it looked up before in a batch it took from the queue, while the user, other
events and a full session went on. The invariant says that the queue has
distinct events, all made before (`Good`), also as it is saved, since a crash
goes back to that; that nothing drains and no timer runs while a full session
scans and applies (`Exclusive`); that a batch of files has no rename, and a
rename still has its event and, once committed, its recorded move (`Batches`);
and that what a drain has sent to the index is on the disk until the commit
(`SentOnDisk`). The commit then needs `SentOnDisk`, a rename `Batches`, the scan
of a full session what a resumed move has put where. Every reduction and
settling of the queue goes through `Picked`, a recursive function. What it
returns (`PickedFollows`: the chosen elements, each once, in order) is proved by
the least length at which it would fail (`Least`, from the fact that `<` is
well-founded on the naturals), which takes the place of an induction theorem
with an operator as its parameter. The invariant was checked on 655 thousand
states first.

**`Force`.** Assumption: `ForceAssumption` (finitely many files, none of them
the folder; the bounds are naturals), so for any number of edits, failures and
restarts. `LateEditsSurvive` speaks of the edits the plugin can know of: those
whose last change has a late event in the queue. A change without one (`unseen`)
is not protected by the code either (section 8). The property is not inductive:
that a deletion and a copy pass a file by depends on its event, so the invariant
adds `LateIsQueued` (every file that is not in `unseen` and that the user has
changed has a late event), which restarts keep since what they lose of the queue
goes to `unseen`. `ExcludedStay`
needs `Sparing`: the purge, the copies that wait, what a run has left of them
and their saved versions name no excluded file and no folder with one.
`NeverReplayed` needs `Checkpoint` (a checkpoint is on the device exactly while
the plugin holds one; before that nothing is saved), `Narrowed` (the purge in
memory is within the saved one, so that a save at any moment, also one that
another part of the plugin makes, narrows it) and `Final` (a saved receipt
leaves only the receipt's step and the end to a run). `Shape` says which fields
the records have; the contents need no type for these theorems. Each action has
one lemma with a step per part of the invariant.

`RecordsConsistent` and `NoEditForgotten` do need the contents, and a second
invariant (`RInv`). A Force works through a checkpoint that exists twice, in
memory and on the device, and any save may fail, so the two differ in what they
record and the vault may be ahead of both. `Accounted` says for either copy that
a file waits for its copy or is recorded with its source, that what is recorded
is on the disk, and that nothing is on the disk which is neither waiting nor
recorded, unless a deletion that covers it will be done again. `Behind` bounds
how far memory may be ahead: what it has taken back and the device has not is
under such a deletion. `Vault` says the same of the vault, which is the source
in one direction (`Sourced`) and the destination in the other (`Replaced`), for
the files the user has not changed since the boundary. `Scanned` and `Underway`
say what a run in progress relies on, and `Generation` that a new generation is
published only when nothing waits, on the device neither. From there
`CanonDescribesDisk` and `NoEditForgotten` follow at the publication and at the
end; the latter excepts changes without an event (`unseen`) and vault writes that
were not recorded (`hidden`). The invariant was checked on instances of up to 5.3 million states.

**`Reception`.** Assumption: `ReceptionAssumption` (finitely many files; the
bounds are naturals). The three properties compare the vault with what a
receipt knows of it, and what the receipt knows changes with the progress it
records. The invariant says that the vault holds what the receipt expects of
every file the user has left alone (`Remembered`), that what the user put there
is never what the receipt expects (`LateIsUnknown`), and what each step of a
reception has done so far (`Progress`, `Work`): with these, the comparison
before each write and each deletion tells the user's bytes from the
reception's. `Steps` and `Captured` tie the receipt to the step, `Kept` says
that memory never forgets a saved receipt, `Numbered` that a receipt names a
real generation. The named exceptions (`unclear`, `lost`, `LeftBehind`) are in
the properties and are those of section 8.

**`Encryption`.** Assumption: `EncryptionAssumption` (finitely many files, those
of the selection apart from the others; the bounds are naturals), so for any
number of files, failures, restarts, takeovers and commits of others, and for
all three kinds of transition. The owner, a helper, the checkpoint on two
levels, the index, the manifest and the objects under two codecs each say how
far a transition is; the invariant says what of this agrees at any time.
`Epochs` ties the codec and the authority of the index to the commit; `Control`
says where the owner and the helper can be before and after it, and that an
authority they hold was given by it, so that comparing the authority (`Holds`)
also tells whether the commit has taken place; `Keys` which codec the owner
works with, and that it has a checkpoint in memory and on the device while it
does. `Sourced` keeps the objects of the source until the commit. `Recorded`
says that what is under the target codec before the commit is of files that both
copies of the checkpoint map: without it a restart could forget an object, and a
rollback leave it. `Rewriting` says that what is proved has been written as the
reference says, which is what the commit publishes, and `Removing` that the
rollback still knows what it has not removed. `Swept` makes an actor that found
no source object answer for every one that is there: an upload that landed
since. `TypeOK` alone is weaker than the type the steps need (`Typed`). Each
action has one lemma: first what it makes of the variables, then one step for
each part of the invariant it can disturb. The invariant was checked with TLC
first; two of its parts (`Sourced` for damaged files, the phase of the authority
in `Control`) were found because the proof failed without them.

`RemovalsAuthorized` needs a second part (`NInv`; `JInv` is both), since the
effect of a DELETE comes after its guard and possibly after the cleanup. What a
DELETE may hit is then a matter of what can be there. `Listed` and `Standing`
say that a source object which has been there since the commit is named, by the
index and by both copies of the checkpoint, until it is removed; `Unseen` that an
actor which has verified that nothing is left can only be contradicted by an
upload that landed since. `Flying` says that a DELETE is on its way only when the
cleanup has begun or ended (`Over`), and that its object is named unless it went
astray. So an object that is removed is named, or landed late while a DELETE of
an overtaken cleanup was in flight, which is the exception the property names and
section 8 describes.

## 7. What is only model-checked

Liveness (`AbandonedLockRecovered`, `EveryRequestAnswered`, `Convergence`,
`EveryReadAnswered`, `Settles`, `Finishes`, `TransitionEnds`, `Received`): the
prover handles neither fairness nor `ENABLED`. Under the named hazards,
`AcknowledgedWasPublished` and `RecoveryPublishesObserved` are proved; the other
safety properties of `CanonicalTransaction`, the type aside, are false there.
`SeedNeedsAbsence` belongs to the configuration that shows its violation.
`OnlyUnconfirmedLost` of `Watcher` is not proved: its invariant has to say
which baselines a crash takes back and what a rename back does to them, and it
may be false further down than the run reaches.

Of `Replica`, `EditsSurvive` with deletions or overlapping sessions holds within
the bounds of the runs only, and is false beyond them. `DeletionStands` holds in
`replica_sequential` and is false with a failed session
(`ReplicaResurrection.cfg`). `SequenceUsedOnce` is checked in `replica_faults`.

## 8. Where the code and its documents disagree

TLC refutes each of these statements in the instance named. `reception_finalize`
is among the runs, and `PROJECT.json` quotes the line it contradicts; the others
are the configurations of section 4 that are run by hand.

Receiving a generation:

- **Late edits after a failed finalisation** (`reception_finalize`). The
  adoption is saved together with the removal of its receipt
  (`encryption-adoption.ts:312-316`) before the session is finalised
  (`engine.ts:1605-1632`). A failure in between puts the old baseline back
  without the receipt (`full.ts:955`), the next reception captures the vault
  anew, and what the user wrote during the first is overwritten
  (`docs/LOCAL_REPLACEMENT_RECOVERY.md:9`).
- A crash between a write to the vault and the save of `applied`, followed by a
  newer generation: the older target counts as a late edit and is uploaded
  (the exception `unclear`).
- A file that is new in the generation, received, and then deleted by another
  device before the reception is repeated is in no list of extras, stays in the
  vault and is uploaded again (`LeftBehind`).

The index and the sessions:

- An outlived lease (`CanonicalOutlivedLease.cfg`). An owner that is suspended
  for longer than its two minutes and then resumes writes its lock anew and may
  publish it over commits made since.
- `SeedNeedsAbsence` (`CanonicalSeedRace.cfg`): the canonical name is read
  before the locks are listed, so a device can seed an index beside one that
  another device has seeded and locked meanwhile. `docs/ARCHITECTURE.md:96` says
  a foreign seed cannot be replaced on an old proof of absence.
- `PauseStaysVisible` (`SyncSessionPause.cfg`): a pause during a preparation
  that fails is overwritten by the error status.

Full sessions:

- Old content over new (`ReplicaOldContent.cfg`). `markRemoteObserved` takes
  the whole merged index as applied, also what another device committed during
  the session. The next full session sends the old local content over it.
- A fingerprint of other bytes (`ReplicaStamp.cfg`). `applyDownloadedContent`
  reads the remote fingerprint after the bytes have been downloaded and written
  (`operations.ts:282`). If another session replaced the file in between, the
  baseline and the index tie the old content to the new fingerprint; the next
  full session of the device finds the remote file unchanged and sends its own
  next edit over a version it has never seen, and the device that wrote that
  version, whose baseline names it, replaces it without a copy. It takes two
  overlapping sessions and three writes, no deletion and no fault.
- A restored file over an upload that is not in the index yet
  (`ReplicaRestored.cfg`). Two devices write a deleted file again. The first
  sends its version, stores the baseline, and its session fails at another file
  before the commit. The session of the second finds a tombstone, takes its own
  version for a restored file (`conflicts.ts:230`) without looking at the remote
  one, and sends it over the first. The first device then downloads it over a
  version its baseline calls agreed, so no copy is made. Sessions need not
  overlap.
- A deleted file returns (`ReplicaResurrection.cfg`). `resolveAction` takes a
  remote file without a baseline for new before it looks at the tombstone.
- `ConflictHasTwoSides` (`ReplicaFalseConflict.cfg`): a baseline written by
  `createConfirmedBaseline` has `deleted: false`, the canonical entry of a put
  has no such field; until a session ends with `markRemoteObserved`, an edit of
  one device looks like a conflict (`docs/CONFLICTS.md:17`).
- `NoFifoGap` (`ReplicaGap.cfg`): a conflict copy is committed alone; with an
  earlier mutation pending, the reducer refuses it as a gap, and the conflict
  waits for another session (`docs/CONFLICTS.md:11`).
- `Convergence` with a fault (`ReplicaStuck.cfg`): a file written again while
  its deletion is queued and not committed is never sent by a full session,
  since the check before its upload compares a fresh index with one that has the
  pending deletion in it. A realtime event of the path may still send it.
- A dropped put (`ReplicaDroppedPut.cfg`). `preserveRejectedConcurrentPut`
  (`rejected-puts.ts:91`) keeps the version that lost and then downloads the
  winner. If that has changed once more since the commit, `applyDownloadedContent`
  (`operations.ts:232`) queues a put of what it read and stages it in the desired
  watermark; `confirmAppliedMutations` (`manager.ts:1231`) takes the desired
  watermark for what was accepted and removes the put from the queue, although it
  is in no index. The next mutation leaves a gap after the canonical watermark,
  and every later session of the device ends in `ensureSequenceFloor`
  (`operation-store.ts:124`). It takes two devices, five writes and no fault.
  `dropped` names the devices this has happened to, and `QueueConsistent` speaks
  of the others; `NoQueueHasGap` is the same without that exception.
- A rejected put whose canonical entry has no fingerprint is not cleaned up.
- A session that fails between an upload and its commit may have stored the
  baseline of what it uploaded, and the next session takes it for agreed.

The watcher:

- `NothingLost` (`WatcherBaseline.cfg`): `applyUploadedFileMetadata`
  (`operations.ts:148`) and `stageFileMove` (`rename.ts:68`) write the baseline
  before the commit. If the commit fails, an unpublished version looks
  confirmed, and a newer remote version replaces it without a copy.
- Dead ends, named in `Settles`: an event behind a rename whose target is gone
  is never drained, and full sessions other than the one at startup are refused
  (`Behind`); a committed move whose guard refuses blocks every full session
  (`Refused`, `physical-recovery.ts:38`, `docs/SYNC_USER_SCENARIOS.md:314`); a
  rename undone by the user and brought back by a lost save stays ambiguous
  (`Undone`).
- One failed save of the queue blocks every drain and full session until the
  next event or restart.
- The comment of `reduceQueuedFileRename` says "Recreated source paths remain
  separate events."; the last filter of the reduction removes them.
- A lost reply to the PUT of a new file that is deleted before the retry leaves
  an object that is downloaded later. A rename partly done and then rebased
  leaves the intermediate target until the next full session.

Force:

- `OrdinaryEditsSurvive` (`ForceUnseen.cfg`): an edit after the confirmation that
  has no event is treated as part of the destination, and the continued Force
  deletes or overwrites it, although "new files and edited paths are retained"
  (`docs/FORCE_SYNC.md:96`). An edit has no event when it is made between two
  sessions with the watcher off: after a restart with a checkpoint only the
  scheduler starts (`main.ts:3405-3417`; `fileWatcher.start` at 3446 is skipped),
  and the next session pauses a watcher that has observed nothing
  (`watcher.ts:432-436`). It also has none when the plugin stops before the queue
  is saved (`watcher.ts:1638-1680`). Both are the exception `unseen`.
- A vault write that happened and whose confirmation failed
  (`force-replacement.ts:1125-1131`) leaves the vault ahead of the record without
  a crash (`hidden`).
- A removal or a rename in the queue makes every scheduled or manual
  continuation refuse until a restart (`watcher.ts:311-426`), though full sessions
  "resume a direct checkpoint" (`docs/FORCE_SYNC.md:101`; in `Stranded`).
- `EditsSurvive` (`ForceEdits.cfg`): a write absorbed by a queued rename inside
  the boundary is invisible to `hasLocalChanges` (`force-replacement.ts:1421`,
  `watcher.ts:1954`) and is deleted or overwritten (`docs/FORCE_SYNC.md:96`).
- `PublishedOnce` (`ForceReplay.cfg`): a lost reply or a crash between the final
  publication and its receipt publishes the final index again, over commits made
  since (`docs/FORCE_SYNC.md:157`).
- `SavedCanResume` (`ForceDigest.cfg`): another save between the assignment of
  `file.sha256` and the awaited digest stores a checkpoint that every resumption
  refuses (`docs/FORCE_SYNC.md:101`).
- A file deleted from the source while the disk holds newer bytes nobody has
  verified is deferred for ever (`Stranded`). A vault write cut from its record
  by a crash, with the disk changed meanwhile, leaves a baseline newer than the
  vault (`hidden`).

Encryption (`EncryptionClaims.cfg` shows the first two with `Retired`, the
fourth with `TransitionIsMaintained`, the last with `RemovedIsNamed`):

- Another device commits between the owner's preflight and its claim: the check
  before the rollback refuses (`recovery.ts:300-343`) and the checkpoint is
  never retired (`docs/SYNC_USER_SCENARIOS.md:368`).
- The owner stops right after its commit, before it saves the phase, and a
  helper finishes: no phase fits any more, and the checkpoint is never retired
  (`docs/SYNC_USER_SCENARIOS.md:377`, `:804`).
- Others edit before the owner retires its checkpoint: the retirement refuses
  for ever (`recovery.ts:548-713`).
- `publishIndexCommitted` is not guarded: an owner suspended before it writes
  the transitional manifest again after a helper has finished, and every device
  is blocked.
- The deletion of the manifest that ends a disabling (`workflow.ts:392-400`),
  and the check before the stable one is written, may hit the manifest that
  another device has just written.
- A damaged target of a file that the owner has edited since cannot be
  repaired, as documented.
- `RemovedIsNamed`: the owner reads the authority, a helper finishes the cleanup,
  an upload under the source codec lands late, and the owner's unconditional
  DELETE (`replacement-cleanup.ts:372-396`, `:428-437`,
  `yandex-client.ts:1905-1938`) removes it although nothing in the index names it
  any more. It never hits an object that was there at the commit.

## 9. What is not modelled, and why

- Folders: the paths of the models are independent files; a folder deletion
  appears only in `Force`. First receipt (`initial-receive.ts`) and realtime
  windows of several events are left out; the latter are drained one by one.
- The loops of writes and downloads in `api/yandex-client.ts`: their outcomes
  (done, refused, lost reply, late effect) are those of every remote step in the
  models; their own counters and waits are not modelled.
- Plugin persistence: a save is one step that succeeds, fails or is cut off.
  Scheduler, mobile recovery and host lifecycle only decide when a session is
  requested, and the models request one at any time.
- Authorisation and backup: dialogues with the user and an external service,
  apart from the synchronised state.
- Previews, password prompts and the confirmation dialogues: user interface;
  what a user decides in them is a choice of the model (`Confirm`, `Cancel`).
- Codecs, paths, hashes, formatting, translations, UI: data without
  interleaving; the models use versions and names.
- The vault adapter and the host: modelled through their callers.
- Pacing and metrics of the client: no property depends on them.
