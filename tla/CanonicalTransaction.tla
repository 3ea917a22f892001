------------------------ MODULE CanonicalTransaction ------------------------
(***************************************************************************)
(* The canonical index transaction of src/sync/canonical/commit.ts,        *)
(* recovery.ts and transaction.ts, one action per request a device sends   *)
(* to the remote disk.                                                     *)
(*                                                                         *)
(* The canonical index is one file.  A device that wants to change it      *)
(* MOVEs the file to a lock name of its own (overwrite=false), reads it,   *)
(* overwrites the lock with the merged index, reads it back, and MOVEs it  *)
(* to the canonical name again.  Nothing else serialises the devices: a    *)
(* lock whose owner died is published again by whoever waits for it, after *)
(* a two-minute lease, through a claim name of its own.                    *)
(*                                                                         *)
(* A reply may be lost, a request may not reach the server, a device may   *)
(* die between any two requests.  Three further things can happen that the *)
(* protocol has no defence against; each is a member of Hazards, so that a *)
(* run says which of them it assumes away:                                 *)
(*   "late-effect"     a request reported as failed takes effect later     *)
(*   "lease-outlived"  the owner of a lock still runs when the lease ends  *)
(*   "stale-absence"   other devices publish and lock the index between    *)
(*                     one device's look at the disk and its seed          *)
(***************************************************************************)
EXTENDS Naturals, FiniteSets

CONSTANTS
  Device,      \* installations that share the remote folder
  Op,          \* logical mutations the users make
  LockName,    \* names createTransactionId / randomUUID may return (the bound
               \* on transactions and recovery claims)
  Canonical,   \* .obsidian-sync-index.json
  Absent,      \* no file / nothing read
  Unread,      \* a probe that has not been answered
  Unreadable,  \* a probe that failed or returned bytes that do not decode
  Hazards,     \* the hazards this instance admits
  MaxFaults,   \* bound on failed requests and lost replies
  MaxCrashes   \* bound on device restarts

ASSUME NamesAssumption == Canonical \notin LockName
ASSUME MarkersAssumption ==
  /\ Absent # Unread /\ Absent # Unreadable /\ Unread # Unreadable
  /\ {Absent, Canonical} \cap LockName = {} /\ Absent # Canonical
ASSUME BoundsAssumption == MaxFaults \in Nat /\ MaxCrashes \in Nat

Name == {Canonical} \cup LockName

\* An index as far as the protocol can tell two of them apart: its revision,
\* the mutations it contains and the transaction (or seeding device) that
\* serialised it, which stands for deviceId, lastSyncTime and the epoch.
Index == [rev : Nat, ops : SUBSET Op, by : Device \cup LockName]

ASSUME MarkersAreNoIndex == {Absent, Unread, Unreadable} \cap Index = {}

VARIABLES
  files,      \* [Name -> Index or Absent]: the service files of the remote root
  late,       \* requests reported as failed that may still take effect
  used,       \* lock and claim names handed out so far
  txn,        \* [Device -> local state of its transaction]
  pending,    \* [Device -> durable mutations not yet acknowledged]
  accepted,   \* mutations some device was told are committed
  published,  \* history: the last index that was at the canonical name
  everPublished,  \* history: the mutations of every such index
  faults, crashes

vars == <<files, late, used, txn, pending, accepted, published, everPublished,
          faults, crashes>>

\* Where an operation can be, by the request it sends next.
DiscoverySteps == {"ensure", "list", "seed", "orphans", "orphanCanonical",
                   "orphanJudge", "orphanCheck", "orphanDelete", "load"}
RecoverySteps == {"staleRead", "claimCheck", "claimMove", "claimed",
                  "claimLost", "landCheck", "land", "landed"}
Resting == [pc |-> "idle", job |-> "none", result |-> "none",
            lock |-> Absent, orig |-> Absent, merged |-> Absent,
            seenC |-> Unread, seenL |-> Unread,
            back |-> "ensure", target |-> Absent, claim |-> Absent,
            dest |-> Absent, raw |-> Absent,
            observed |-> [n \in LockName |-> Absent]]

Init ==
  /\ files = [n \in Name |-> Absent]
  /\ late = {}
  /\ used = {}
  /\ txn = [d \in Device |-> Resting]
  /\ pending = [d \in Device |-> {}]
  /\ accepted = {}
  /\ published = Absent
  /\ everPublished = {}
  /\ faults = 0
  /\ crashes = 0

-----------------------------------------------------------------------------
(* Requests *)

At(d, p) == txn[d].pc = p

Become(d, local) == txn' = [txn EXCEPT ![d] = local]

\* The next request, with none of its probes answered yet.
To(d, p) == [txn[d] EXCEPT !.pc = p, !.seenC = Unread, !.seenL = Unread]
Goto(d, p) == Become(d, To(d, p))

\* The operation is over: leases already observed outlive it, the rest does not.
Stopped(d, outcome) == [Resting EXCEPT !.result = outcome,
                                       !.orig = txn[d].orig,
                                       !.merged = txn[d].merged,
                                       !.observed = txn[d].observed]
Stop(d, outcome) == Become(d, Stopped(d, outcome))

Fault == faults < MaxFaults /\ faults' = faults + 1
NoFault == faults' = faults

Moved(from, to) == [files EXCEPT ![from] = Absent, ![to] = files[from]]
CanMove(from, to) == files[from] # Absent /\ files[to] = Absent

Keep == UNCHANGED <<used, pending, accepted, crashes>>
Local == UNCHANGED <<files, late>> /\ Keep

\* moveResourceExclusive: the server refuses a missing source or a present
\* target; the reply or the request may be lost, or the effect delayed.
ExclusiveMove(d, from, to, onReply, onError) ==
  /\ \/ /\ CanMove(from, to)
        /\ files' = Moved(from, to)
        /\ UNCHANGED late
        /\ \/ Goto(d, onReply) /\ NoFault
           \/ Goto(d, onError) /\ Fault
     \/ /\ UNCHANGED files
        /\ Goto(d, onError)
        /\ \/ ~CanMove(from, to) /\ NoFault /\ UNCHANGED late
           \/ Fault /\ UNCHANGED late
           \/ /\ "late-effect" \in Hazards
              /\ Fault
              /\ late' = late \cup {[from |-> from, to |-> to, index |-> Absent]}
  /\ Keep

\* uploadFile with overwrite: whatever the reply says, the caller reads back.
Overwrite(d, name, index, next) ==
  /\ \/ files' = [files EXCEPT ![name] = index] /\ NoFault /\ UNCHANGED late
     \/ Fault /\ UNCHANGED <<files, late>>
     \/ /\ "late-effect" \in Hazards
        /\ Fault
        /\ late' = late \cup {[from |-> Absent, to |-> name, index |-> index]}
        /\ UNCHANGED files
  /\ Goto(d, next)
  /\ Keep

\* The effect of a request its sender has given up on.
LateEffect ==
  \E r \in late :
    /\ late' = late \ {r}
    /\ files' = IF r.from = Absent
                THEN [files EXCEPT ![r.to] = r.index]
                ELSE IF CanMove(r.from, r.to) THEN Moved(r.from, r.to)
                                              ELSE files
    /\ UNCHANGED <<txn, faults>>
    /\ Keep

\* One of the two reads a device sends together with Promise.all.
ProbeSteps == {"acquireFailed", "resolve", "confirm", "reconfirm", "rollback",
               "restoreConfirm"}

ProbeCanonical(d) ==
  /\ txn[d].pc \in ProbeSteps /\ txn[d].seenC = Unread
  /\ \/ Become(d, [txn[d] EXCEPT !.seenC = files[Canonical]]) /\ NoFault
     \/ Become(d, [txn[d] EXCEPT !.seenC = Unreadable]) /\ Fault
  /\ Local

ProbeLock(d) ==
  /\ txn[d].pc \in ProbeSteps /\ txn[d].seenL = Unread
  /\ \/ Become(d, [txn[d] EXCEPT !.seenL = files[txn[d].lock]]) /\ NoFault
     \/ Become(d, [txn[d] EXCEPT !.seenL = Unreadable]) /\ Fault
  /\ Local

Probed(d, p) == At(d, p) /\ Unread \notin {txn[d].seenC, txn[d].seenL}
Present(x) == x \notin {Absent, Unread, Unreadable}

\* Mutant: an absent canonical index is taken for one's own lock.
IntactWithoutLock(d) == txn[d].seenC = Absent

\* The device still holds the index under its own lock.
Intact(d) == txn[d].seenC = Absent /\ Present(txn[d].seenL)

-----------------------------------------------------------------------------
(* Locks and leases *)

Locks == {n \in LockName : files[n] # Absent}

\* The operation that took the name is still running somewhere.
Live(n) == \E e \in Device : txn[e].pc # "idle"
                             /\ (txn[e].lock = n \/ txn[e].claim = n)

\* isObservedLockStale: a device counts the lease from the moment it first saw
\* these bytes under this name; unknown or renewed bytes start a new lease.
Observed(d, n) == txn[d].observed[n] = files[n]
MayBeStale(d, n) == Observed(d, n)
                    /\ (~Live(n) \/ "lease-outlived" \in Hazards)
MayBeFresh(d, n) == Observed(d, n) => Live(n)

\* Mutant: the observation is forgotten, every look starts a new lease.
ObservingNothing(d, n, p) == To(d, p)

Observing(d, n, p) ==
  [To(d, p) EXCEPT !.observed = [@ EXCEPT ![n] = files[n]]]

-----------------------------------------------------------------------------
(* Discovery: waitForCanonicalIndex, recoverStaleLock, orphan cleanup, seed *)

\* A user changes a file; the mutation is durable before any transaction.
Edit(d) ==
  /\ \E o \in Op :
       /\ o \notin accepted /\ \A e \in Device : o \notin pending[e]
       /\ pending' = [pending EXCEPT ![d] = @ \cup {o}]
  /\ UNCHANGED <<files, late, used, txn, accepted, faults, crashes>>

\* commitCanonicalIndex, or another attempt of it, under a new transaction id.
StartCommit(d) ==
  /\ At(d, "idle") /\ pending[d] # {}
  /\ \E n \in LockName \ used :
       /\ used' = used \cup {n}
       /\ Become(d, [Resting EXCEPT !.pc = "ensure", !.job = "commit",
                                    !.lock = n, !.observed = txn[d].observed])
  /\ UNCHANGED <<files, late, pending, accepted, faults, crashes>>

\* loadRemoteIndex: the same discovery, then a read of the canonical index.
StartLoad(d) ==
  /\ At(d, "idle")
  /\ Become(d, [Resting EXCEPT !.pc = "ensure", !.job = "load",
                               !.observed = txn[d].observed])
  /\ NoFault /\ Local

\* What follows once the canonical index is known to exist.
Discovered(d) == IF txn[d].job = "commit" THEN "acquire" ELSE "load"

Ensure(d) ==
  /\ At(d, "ensure")
  /\ Goto(d, IF files[Canonical] = Absent THEN "list" ELSE "orphans")
  /\ NoFault /\ Local

\* initializeCanonicalIndex: an empty index, exclusively.  A refused upload is
\* contention; a lost reply is resolved by reading the seed back; an upload
\* that never arrived ends the operation.
\* Mutant: the seed is made without the installation id.
AnonymousSeed(d) == [rev |-> 0, ops |-> {}]

SeedOf(d) == [rev |-> 0, ops |-> {}, by |-> d]

Seed(d) ==
  /\ \/ At(d, "seed")
     \/ /\ At(d, "list") /\ txn[d].back = "ensure" /\ Locks = {}
        /\ "stale-absence" \notin Hazards
  /\ \/ /\ files' = IF files[Canonical] = Absent
                    THEN [files EXCEPT ![Canonical] = SeedOf(d)] ELSE files
        /\ Goto(d, Discovered(d))
        /\ NoFault
     \/ /\ files[Canonical] = Absent /\ UNCHANGED files
        /\ Stop(d, "failed")
        /\ Fault
  /\ UNCHANGED late /\ Keep

\* The listing found no lock: the decision to seed, taken before the upload.
DecideToSeed(d) ==
  /\ "stale-absence" \in Hazards
  /\ At(d, "list") /\ txn[d].back = "ensure" /\ Locks = {}
  /\ Goto(d, "seed")
  /\ NoFault /\ Local

\* The listing found no lock while waiting to acquire: try again.
NothingToRecover(d) ==
  /\ At(d, "list") /\ txn[d].back = "acquire" /\ Locks = {}
  /\ Goto(d, "acquire")
  /\ NoFault /\ Local

\* More than one lock: AmbiguousRemoteIndexLockError, an explicit Force only.
ManyLocks(d) ==
  /\ At(d, "list") /\ \E m, n \in Locks : m # n
  /\ Stop(d, "ambiguous")
  /\ NoFault /\ Local

\* A read of discovery or recovery fails for good: its error ends the operation
\* where it is, with a claim in place if there is one.
RequestFails(d) ==
  /\ txn[d].pc \in DiscoverySteps \cup {"staleRead", "claimCheck", "claimed",
                                       "claimLost", "landCheck", "landed"}
  /\ Stop(d, "failed")
  /\ Fault /\ Local

WaitForLease(d) ==
  /\ At(d, "list")
  /\ \E n \in LockName : /\ Locks = {n} /\ MayBeFresh(d, n)
                         /\ Become(d, Observing(d, n, txn[d].back))
  /\ NoFault /\ Local

\* RemoteIndexLockedError: INDEX_LOCK_ATTEMPTS outlast one lease, so only a
\* lock that somebody kept alive is still there after them.
GiveUpWaiting(d) ==
  /\ txn[d].pc \in {"ensure", "acquire"}
  /\ \E n \in Locks : n # txn[d].lock /\ Live(n)
  /\ Stop(d, "failed")
  /\ NoFault /\ Local

LeaseEnded(d) ==
  /\ At(d, "list")
  /\ \E n \in LockName :
       /\ Locks = {n} /\ MayBeStale(d, n)
       /\ Become(d, [To(d, "staleRead") EXCEPT !.target = n])
  /\ NoFault /\ Local

\* assertStaleLockReadable, then the choice of a claim name.
ReadStaleLock(d) ==
  LET n == txn[d].target
  IN  /\ At(d, "staleRead")
      /\ \/ /\ files[n] = txn[d].observed[n] /\ files[n] # Absent
            /\ \E c \in LockName \ used :
                 /\ used' = used \cup {c}
                 /\ Become(d, [To(d, "claimCheck") EXCEPT
                                 !.raw = files[n], !.claim = c,
                                 !.dest = Canonical])
            /\ NoFault
         \/ /\ files[n] \notin {Absent, txn[d].observed[n]}
            /\ Become(d, Observing(d, n, txn[d].back))
            /\ NoFault /\ UNCHANGED used
         \/ /\ files[n] = Absent
            /\ Stop(d, "ambiguous")
            /\ NoFault /\ UNCHANGED used
         \/ /\ LockName \subseteq used        \* the bound on names
            /\ Stop(d, "failed")
            /\ NoFault /\ UNCHANGED used
      /\ UNCHANGED <<files, late, pending, accepted, crashes>>

\* moveObservedIndexLock re-reads the root before it sends the MOVE: the sole
\* lock, the bytes that were pinned, no canonical.
Pinned(d, n) == Locks = {n} /\ files[n] = txn[d].raw /\ files[Canonical] = Absent

CheckClaim(d) ==
  LET n == txn[d].target
  IN  /\ At(d, "claimCheck")
      /\ \/ Pinned(d, n) /\ MayBeStale(d, n) /\ Goto(d, "claimMove")
         \/ /\ \E k, m \in Locks : k # m
            /\ Stop(d, "ambiguous")
         \/ /\ \A k, m \in Locks : k = m
            /\ ~(Pinned(d, n) /\ Observed(d, n))
            /\ Become(d, [Observing(d, n, txn[d].back) EXCEPT !.claim = Absent])
      /\ NoFault /\ Local

MoveClaim(d) ==
  /\ At(d, "claimMove")
  /\ ExclusiveMove(d, txn[d].target, txn[d].claim, "claimed", "claimLost")

\* Mutant: a claim is published whatever it holds.
AlwaysCanonical(d, c) == Canonical

\* Bytes renewed since they were pinned go back under the lock's own name; only
\* unchanged bytes go on to the canonical name.
Destination(d, c) == IF c = txn[d].raw THEN Canonical ELSE txn[d].target

\* The claim is read back.
ReadClaim(d) ==
  LET c == files[txn[d].claim]
  IN  /\ txn[d].pc \in {"claimed", "claimLost"}
      /\ \/ /\ c # Absent
            /\ Become(d, [To(d, "landCheck") EXCEPT
                            !.raw = c, !.dest = Destination(d, c)])
         \/ /\ c = Absent /\ At(d, "claimLost")
            /\ Become(d, [To(d, txn[d].back) EXCEPT !.claim = Absent])
         \/ /\ c = Absent /\ At(d, "claimLost") /\ faults > 0
            /\ Stop(d, "failed")
         \/ /\ c = Absent /\ At(d, "claimed")
            /\ Stop(d, "ambiguous")
      /\ NoFault /\ Local

CheckLanding(d) ==
  /\ At(d, "landCheck")
  /\ Goto(d, IF Pinned(d, txn[d].claim) THEN "land" ELSE "landed")
  /\ NoFault /\ Local

MoveLanding(d) ==
  /\ At(d, "land")
  /\ ExclusiveMove(d, txn[d].claim, txn[d].dest, "landed", "landed")

\* isOnlyRawIndexResource: exactly these bytes, under exactly this name.
ConfirmLanding(d) ==
  LET to == txn[d].dest
      n  == txn[d].target
      only == files[to] = txn[d].raw
              /\ \A m \in Name : files[m] # Absent => m = to
  IN  /\ At(d, "landed")
      /\ \/ /\ only
            /\ Become(d, [Observing(d, n, txn[d].back) EXCEPT !.claim = Absent])
         \/ ~only /\ Stop(d, "ambiguous")
      /\ NoFault /\ Local

\* cleanupStaleOrphanLocks: locks beside a present canonical index.  A sole
\* lock is left alone until it is stale.
ListOrphans(d) ==
  /\ At(d, "orphans")
  /\ \/ /\ Locks = {}
        /\ Goto(d, Discovered(d))
     \/ \E n \in LockName :
          /\ Locks = {n}
          /\ \/ MayBeFresh(d, n) /\ Become(d, Observing(d, n, Discovered(d)))
             \/ /\ MayBeStale(d, n)
                /\ Become(d, [To(d, "orphanCanonical") EXCEPT !.target = n])
     \/ /\ \E m, n \in Locks : m # n
        /\ Become(d, [Stopped(d, "ambiguous") EXCEPT !.observed =
             [n \in LockName |-> IF n \in Locks THEN files[n]
                                ELSE txn[d].observed[n]]])
  /\ NoFault /\ Local

ReadCanonicalForOrphan(d) ==
  /\ At(d, "orphanCanonical")
  /\ \/ files[Canonical] = Absent /\ Stop(d, "failed")
     \/ /\ files[Canonical] # Absent
        /\ Become(d, [To(d, "orphanJudge") EXCEPT !.raw = files[Canonical]])
  /\ NoFault /\ Local

\* isOrphanIndexAmbiguous
Ambiguous(canonical, orphan) ==
  orphan.rev > canonical.rev
    \/ (orphan.rev = canonical.rev /\ orphan # canonical)

JudgeOrphan(d) ==
  LET l == files[txn[d].target]
  IN  /\ At(d, "orphanJudge")
      /\ \/ l = Absent /\ Stop(d, "ambiguous")
         \/ /\ l \notin {Absent, txn[d].observed[txn[d].target]}
            /\ Stop(d, "failed")
         \/ /\ l # Absent /\ l = txn[d].observed[txn[d].target]
            /\ \/ Ambiguous(txn[d].raw, l) /\ Stop(d, "ambiguous")
               \/ ~Ambiguous(txn[d].raw, l) /\ Goto(d, "orphanCheck")
      /\ NoFault /\ Local

\* deleteObservedIndexLock re-reads both before the DELETE.
CheckOrphan(d) ==
  LET n == txn[d].target
  IN  /\ At(d, "orphanCheck")
      /\ \/ files[Canonical] # txn[d].raw /\ Stop(d, "concurrent")
         \/ /\ files[Canonical] = txn[d].raw
            /\ \/ /\ files[n] \in {Absent, txn[d].observed[n]}
                  /\ Goto(d, "orphanDelete")
               \/ /\ files[n] \notin {Absent, txn[d].observed[n]}
                  /\ Stop(d, "ambiguous")
      /\ NoFault /\ Local

DeleteOrphan(d) ==
  LET n == txn[d].target
  IN  /\ At(d, "orphanDelete")
      /\ files' = [files EXCEPT ![n] = Absent]
      /\ \/ /\ Become(d, [To(d, Discovered(d)) EXCEPT
                            !.observed = [@ EXCEPT ![n] = Absent]])
            /\ NoFault
         \/ Stop(d, "failed") /\ Fault         \* the reply is lost
      /\ UNCHANGED late /\ Keep

\* The load ends: mutations the loaded index contains are acknowledged.
Acknowledge(d, index) ==
  /\ accepted' = accepted \cup (pending[d] \cap index.ops)
  /\ pending' = [pending EXCEPT ![d] = @ \ index.ops]

Load(d) ==
  LET c == files[Canonical]
  IN  /\ At(d, "load")
      /\ \/ /\ c # Absent
            /\ Acknowledge(d, c)
            /\ Stop(d, "loaded")
         \/ /\ c = Absent
            /\ Stop(d, "failed")
            /\ UNCHANGED <<pending, accepted>>
      /\ NoFault /\ UNCHANGED <<files, late, used, crashes>>

-----------------------------------------------------------------------------
(* The transaction: saveRemoteIndexLocked *)

Acquire(d) ==
  /\ At(d, "acquire")
  /\ ExclusiveMove(d, Canonical, txn[d].lock, "read", "acquireFailed")

\* wasLockAcquiredDespiteError; otherwise contention waits and other errors
\* end the call, possibly leaving a lock nobody owns.
JudgeAcquire(d) ==
  /\ Probed(d, "acquireFailed")
  /\ \/ Intact(d) /\ Goto(d, "read")
     \/ /\ ~Intact(d)
        /\ \/ Become(d, [To(d, "list") EXCEPT !.back = "acquire"])
           \/ faults > 0 /\ Stop(d, "failed")
  /\ NoFault /\ Local

\* Mutant: the device's desired index replaces what the lock holds.
DesiredOnly(d, latest) ==
  [rev |-> latest.rev + 1, ops |-> pending[d], by |-> txn[d].lock]

\* Mutant: the merge keeps the revision it started from.
SameRevision(d, latest) ==
  [rev |-> latest.rev, ops |-> latest.ops \cup pending[d], by |-> txn[d].lock]

\* mergeDesiredIndex: what the lock holds plus the device's own mutations.
Reduced(d, latest) ==
  IF pending[d] \subseteq latest.ops THEN latest
  ELSE [rev |-> latest.rev + 1, ops |-> latest.ops \cup pending[d],
        by |-> txn[d].lock]

\* Only what is read under the lock is reduced.  An index that cannot be read
\* or reduced is rolled back from its raw bytes, if those can be read.
ReadLock(d) ==
  LET c == files[txn[d].lock]
      m == Reduced(d, c)
  IN  /\ At(d, "read")
      /\ \/ /\ c # Absent /\ NoFault
            /\ Become(d, [To(d, IF m = c THEN "fingerprint" ELSE "write") EXCEPT
                            !.orig = c, !.merged = m])
         \/ /\ c # Absent /\ Fault
            /\ Become(d, [To(d, "rollback") EXCEPT !.orig = c])
         \/ /\ \/ Fault
               \/ c = Absent /\ NoFault
            /\ Stop(d, "ambiguous")
      /\ Local

WriteLock(d) ==
  /\ At(d, "write")
  /\ Overwrite(d, txn[d].lock, txn[d].merged, "verify")

VerifyLock(d) ==
  LET same == files[txn[d].lock] = txn[d].merged
  IN  /\ At(d, "verify")
      /\ \/ Goto(d, IF same THEN "publish" ELSE "rollback") /\ NoFault
         \/ Goto(d, "rollback") /\ Fault
      /\ Local

\* Nothing to write: the lock's fingerprint is all the publication needs.
FingerprintLock(d) ==
  /\ At(d, "fingerprint")
  /\ \/ Goto(d, "publish") /\ NoFault
     \/ Goto(d, "rollback") /\ Fault
  /\ Local

Publish(d) ==
  /\ At(d, "publish")
  /\ ExclusiveMove(d, txn[d].lock, Canonical, "confirm", "resolve")

\* finalizeCommittedTransaction
Accept(d) ==
  /\ Acknowledge(d, txn[d].merged)
  /\ Stop(d, "committed")
  /\ UNCHANGED <<files, late, used, crashes>>

Unaccepted == UNCHANGED <<files, late, used, pending, accepted, crashes>>

\* Mutant: any canonical index counts as the device's own commit.
SomethingCommitted(d) == Present(txn[d].merged) /\ Present(txn[d].seenC)

\* matchesIndexResource of canonical and lock against what was written.
Committed(d) == /\ Present(txn[d].merged)
                /\ txn[d].seenC = txn[d].merged
                /\ txn[d].seenL = Absent

\* recoverAmbiguousFinalMove with classifyIndexMoveRecovery
Resolve(d) ==
  LET retry == txn[d].seenC = Absent /\ txn[d].seenL = txn[d].merged
  IN  /\ Probed(d, "resolve") /\ NoFault
      /\ \/ Committed(d) /\ Accept(d)
         \/ retry /\ Goto(d, "retryMove") /\ Unaccepted
         \/ /\ ~Committed(d) /\ ~retry
            /\ Goto(d, "reconfirm") /\ Unaccepted

RetryMove(d) ==
  /\ At(d, "retryMove")
  /\ ExclusiveMove(d, txn[d].lock, Canonical, "confirm", "confirm")

\* verifyCanonicalCommit
Confirm(d) ==
  /\ Probed(d, "confirm") /\ NoFault
  /\ \/ Committed(d) /\ Accept(d)
     \/ ~Committed(d) /\ Goto(d, "reconfirm") /\ Unaccepted

\* isExpectedCanonicalCommitted in the catch block, before any rollback
Reconfirm(d) ==
  /\ Probed(d, "reconfirm") /\ NoFault
  /\ \/ Committed(d) /\ Accept(d)
     \/ ~Committed(d) /\ Goto(d, "rollback") /\ Unaccepted

-----------------------------------------------------------------------------
(* Rollback: rollbackRawIndexSnapshot *)

\* The canonical index is back and the lock is gone.
Returned(d) == Present(txn[d].seenC) /\ txn[d].seenL = Absent

Rollback(d) ==
  /\ Probed(d, "rollback")
  /\ \/ Intact(d) /\ Goto(d, "restore")
     \/ Returned(d) /\ Goto(d, "restoredRead")
     \/ ~Intact(d) /\ ~Returned(d) /\ Stop(d, "ambiguous")
  /\ NoFault /\ Local

RestoreLock(d) ==
  /\ At(d, "restore")
  /\ Overwrite(d, txn[d].lock, txn[d].orig, "restoreVerify")

VerifyRestored(d) ==
  LET same == files[txn[d].lock] = txn[d].orig
  IN  /\ At(d, "restoreVerify")
      /\ \/ same /\ NoFault /\ Goto(d, "restoreMove")
         \/ ~same /\ NoFault /\ Stop(d, "ambiguous")
         \/ Fault /\ Stop(d, "ambiguous")
      /\ Local

RestoreMove(d) ==
  /\ At(d, "restoreMove")
  /\ ExclusiveMove(d, txn[d].lock, Canonical, "restoreConfirm", "restoreConfirm")

ConfirmRestored(d) ==
  /\ Probed(d, "restoreConfirm")
  /\ \/ Returned(d) /\ Goto(d, "restoredRead")
     \/ ~Returned(d) /\ Stop(d, "ambiguous")
  /\ NoFault /\ Local

\* Mutant: a canonical index without a lock counts as the restored one.
AnyIndexRestored(d, c) == "rolled-back"

RestoredOutcome(d, c) == IF c = txn[d].orig THEN "rolled-back" ELSE "concurrent"

\* Presence was probed before; the bytes are read only now.
ReadRestored(d) ==
  LET c == files[Canonical]
  IN  /\ At(d, "restoredRead")
      /\ \/ c # Absent /\ NoFault /\ Stop(d, RestoredOutcome(d, c))
         \/ c = Absent /\ NoFault /\ Stop(d, "ambiguous")
         \/ Fault /\ Stop(d, "ambiguous")
      /\ Local

\* The process ends: everything but the disk and the durable queue is lost.
Crash(d) ==
  /\ ~At(d, "idle") /\ crashes < MaxCrashes
  /\ crashes' = crashes + 1
  /\ Become(d, Resting)
  /\ UNCHANGED <<files, late, used, pending, accepted, faults>>

-----------------------------------------------------------------------------
Discover(d) == \/ Ensure(d) \/ Seed(d) \/ DecideToSeed(d) \/ NothingToRecover(d)
               \/ ManyLocks(d) \/ RequestFails(d) \/ WaitForLease(d)
               \/ GiveUpWaiting(d)
               \/ ListOrphans(d) \/ ReadCanonicalForOrphan(d)
               \/ JudgeOrphan(d) \/ CheckOrphan(d) \/ DeleteOrphan(d) \/ Load(d)

Recover(d) == \/ LeaseEnded(d) \/ ReadStaleLock(d) \/ CheckClaim(d)
              \/ MoveClaim(d) \/ ReadClaim(d) \/ CheckLanding(d)
              \/ MoveLanding(d) \/ ConfirmLanding(d)

Transact(d) == \/ Acquire(d) \/ JudgeAcquire(d) \/ ReadLock(d) \/ WriteLock(d)
               \/ VerifyLock(d) \/ FingerprintLock(d) \/ Publish(d)
               \/ Resolve(d) \/ RetryMove(d) \/ Confirm(d) \/ Reconfirm(d) \/ ProbeCanonical(d) \/ ProbeLock(d)

RollBack(d) == \/ Rollback(d) \/ RestoreLock(d) \/ VerifyRestored(d)
               \/ RestoreMove(d) \/ ConfirmRestored(d) \/ ReadRestored(d)

Step(d) == Discover(d) \/ Recover(d) \/ Transact(d) \/ RollBack(d)

\* The history variables only look at the canonical name.
RecordPublication ==
  /\ published' = IF files'[Canonical] = Absent THEN published
                  ELSE files'[Canonical]
  /\ everPublished' = IF files'[Canonical] = Absent THEN everPublished
                      ELSE everPublished \cup files'[Canonical].ops

Next ==
  /\ \/ \E d \in Device : \/ Edit(d) \/ StartCommit(d) \/ StartLoad(d)
                          \/ Step(d) \/ Crash(d)
     \/ LateEffect
  /\ RecordPublication

Spec == Init /\ [][Next]_vars

\* A running operation takes its next step: requests time out or are answered,
\* and the polling loops run on timers.
FairSpec == Spec /\ \A d \in Device : WF_vars(Step(d) /\ RecordPublication)

-----------------------------------------------------------------------------
(* Properties *)

MaybeIndex == Index \cup {Absent}
MaybeLock == LockName \cup {Absent}

OwnerSteps == {"acquire", "acquireFailed", "read", "write", "verify",
               "fingerprint", "publish", "resolve", "retryMove", "confirm", "reconfirm", "rollback",
               "restore", "restoreVerify", "restoreMove", "restoreConfirm",
               "restoredRead"}
Outcomes == {"none", "loaded", "committed", "rolled-back", "concurrent",
             "ambiguous", "failed"}

Steps == {"idle"} \cup DiscoverySteps \cup RecoverySteps \cup OwnerSteps

LocalState ==
  [pc : Steps,
   job : {"none", "commit", "load"}, result : Outcomes,
   lock : MaybeLock, orig : MaybeIndex, merged : MaybeIndex,
   seenC : MaybeIndex \cup {Unread, Unreadable},
   seenL : MaybeIndex \cup {Unread, Unreadable},
   back : {"ensure", "acquire"}, target : MaybeLock, claim : MaybeLock,
   dest : Name \cup {Absent}, raw : MaybeIndex,
   observed : [LockName -> MaybeIndex]]

\* Every variable holds what the code could hold there.
TypeOK ==
  /\ files \in [Name -> MaybeIndex]
  /\ used \subseteq LockName
  /\ txn \in [Device -> LocalState]
  /\ pending \in [Device -> SUBSET Op]
  /\ accepted \subseteq Op
  /\ published \in MaybeIndex
  /\ everPublished \subseteq Op
  /\ faults \in 0..MaxFaults /\ crashes \in 0..MaxCrashes

\* The lock protocol is a token: at any time at most one service file holds
\* the index, so no two transactions can be publishing at once
\* (saveRemoteIndexLocked writes only to a lock it really owns).
OneAuthority ==
  \A m, n \in Name : files[m] # Absent /\ files[n] # Absent => m = n

\* A mutation a device was told is committed is in every later canonical index
\* (acceptCommit runs only on proof, and no rollback or recovery undoes it).
AcknowledgedSurvive ==
  accepted # {} => published # Absent /\ accepted \subseteq published.ops

\* A transaction that reports an exact rollback published nothing: none of its
\* own mutations is in the canonical index (rollbackOwnedLock, retried by
\* commitCanonicalIndex as if it never happened).
RolledBackLeavesNothing ==
  \A d \in Device :
    txn[d].result = "rolled-back" /\ txn[d].merged # Absent =>
      (txn[d].merged.ops \ txn[d].orig.ops) \cap published.ops = {}

\* A device is never told of a commit that no canonical index ever contained,
\* whatever is lost, delayed or overtaken (CanonicalCommitProof).
AcknowledgedWasPublished == accepted \subseteq everPublished

\* Automatic recovery never publishes bytes it did not see unchanged for a
\* whole lease: a renewed lock goes back under its own name (recoverStaleLock).
RecoveryPublishesObserved ==
  [][\A d \in Device :
       At(d, "land") /\ files[Canonical] = Absent /\ files'[Canonical] # Absent
         /\ txn'[d].pc # "land"
       => files'[Canonical] = txn[d].observed[txn[d].target]]_vars

\* An index is created from nothing only in a folder that holds none: a seed
\* never goes by an absence some other device has ended since (docs/
\* ARCHITECTURE.md on initializeCanonicalIndex).
SeedNeedsAbsence ==
  [][files[Canonical] = Absent /\ files'[Canonical] # Absent
       /\ (\A n \in LockName : files'[n] = files[n])
     => Locks = {}]_vars

\* A lock whose owner is gone does not keep a waiting device out for ever: it
\* leaves the lock directory or the waiting device has stopped with an error.
AbandonedLockRecovered ==
  \A n \in LockName, d \in Device :
    At(d, "list") /\ n \in Locks /\ ~Live(n)
      ~> (n \notin Locks \/ Live(n) \/ At(d, "idle"))

-----------------------------------------------------------------------------
\* What the protocol promises: CanonicalRegister, with the published index as
\* its value.
Value == IF published = Absent THEN [rev |-> 0, ops |-> {}]
         ELSE [rev |-> published.rev, ops |-> published.ops]

Register == INSTANCE CanonicalRegister WITH value <- Value, acknowledged <- accepted

ImplementsRegister == Register!Spec

=============================================================================
