----------------------------- MODULE Encryption -----------------------------
(***************************************************************************)
(* Enabling, rotating and disabling the encryption of a remote folder.     *)
(*                                                                         *)
(* The owner writes every file of its vault under the target codec, swaps  *)
(* the canonical index (the commit) and removes the objects of the source  *)
(* codec.  Its checkpoint survives failures and restarts; after the commit *)
(* a helper that knows the target key may finish the cleanup.  Contents    *)
(* are numbers (0: no file); an object's name tells its codec and file, so *)
(* objects are indexed by both.  A canonical save is one compare-and-swap  *)
(* (CanonicalTransaction); folders, keys, archives and the guarded cleanup *)
(* of checkpoints without a replacement are left out.                      *)
(***************************************************************************)
EXTENDS Integers, FiniteSets

CONSTANTS Files,      \* the files the owner's filters select
          Excluded,   \* files of others, outside those filters
          Kinds,      \* the transitions to consider
          Workers,    \* how many DELETEs a cleanup sends at a time
          MaxEvent,   \* bound on what happens around the transition
          MaxHelp,    \* bound on the times a helper takes the cleanup over
          MaxFault    \* bound on failed or unanswered calls and restarts

ASSUME EncryptionAssumption ==
  /\ IsFiniteSet(Files \cup Excluded)
  /\ Files \cap Excluded = {}
  /\ Kinds \subseteq {"enable", "rotate", "disable"}
  /\ {Workers, MaxEvent, MaxHelp, MaxFault} \subseteq Nat

VARIABLES
  kind,      \* the transition the owner performs
  local,     \* the owner's vault
  raw,       \* the objects on the disk: codec -> file -> content
  canon,     \* the canonical index: [mode, epoch, files, phase, dels]
  manifest,  \* the encryption manifest: [state, mode, phase]
  mem,       \* the owner's memory: [trans, mode]
  disk,      \* the owner's plugin data
  rw,        \* how far the rewriting of each file is
  work,      \* what the owner and the helper are doing
  sent,      \* deletions of source objects on their way: {<<device, file>>}
  moved,     \* the index has changed between the owner's preflight and claim
  hurt,      \* targets damaged and not repaired
  swept,     \* source objects landed after an actor, or the end, found none
  trampled,  \* the owner has written a manifest it had no authority over
  astray,    \* deletions in flight when the index stopped naming the object
  landed,    \* files whose upload under the source landed where no object was
  used       \* what the bounds count

vars == <<kind, local, raw, canon, manifest, mem, disk, rw, work, sent, moved,
          hurt, swept, trampled, astray, landed, used>>
remote == <<raw, canon, manifest>>
owner == <<mem, disk, rw>>
ghosts == <<hurt, swept, trampled>>

All == Files \cup Excluded
Modes == {"plain", "old", "new"}
Nil == 0
Initial == 1
Foreign == 7
Junk == 9
Contents == {Nil, Foreign, Junk} \cup (Initial .. Initial + MaxEvent)
Empty == [f \in Files |-> Nil]
Live(files) == {f \in Files : files[f] # Nil}

Source == IF kind = "enable" THEN "plain" ELSE "old"
Target == IF kind = "disable" THEN "plain" ELSE "new"

(* Phases of a transition before and after the commit.                     *)
Before == {"prepared", "files-copied"}
Committed == {"index-committed", "cleanup"}

NoTrans == [phase |-> "none", ref |-> Empty, mapped |-> {}, proofs |-> {},
            dels |-> {}, source |-> [f \in All |-> Nil]]
NoManifest == [state |-> "none", mode |-> "plain", phase |-> "none"]
Stable(m) == IF m = "plain" THEN NoManifest
             ELSE [state |-> "enabled", mode |-> m, phase |-> "none"]
Transitional(p) ==
  [state |-> "transition", phase |-> p,
   mode |-> IF kind = "disable" THEN Source ELSE Target]

Maintained == canon.phase # "none"
Authority == [phase |-> canon.phase, dels |-> canon.dels]
NoAuthority == [phase |-> "none", dels |-> {}]

Off == [pc |-> "off", held |-> NoAuthority, pass |-> 0, found |-> {},
        todo |-> {}, asked |-> {}, again |-> TRUE]
At(d, pc) == [work[d] EXCEPT !.pc = pc]
Holds(d) == Authority = work[d].held

Untried == [f \in Files |-> "todo"]

Init ==
  /\ kind \in Kinds
  /\ local \in [Files -> {Nil, Initial}] /\ Live(local) # {}
  /\ canon = [mode |-> Source, epoch |-> "e0", phase |-> "none", dels |-> {},
              files |-> [f \in Files |-> Initial]]
  /\ raw = [m \in Modes |-> [f \in All |-> IF m = Source THEN Initial ELSE Nil]]
  /\ manifest = Stable(Source)
  /\ mem = [trans |-> NoTrans, mode |-> Source]
  /\ disk = mem
  /\ rw = Untried
  /\ work = [a |-> [Off EXCEPT !.pc = "idle", !.again = FALSE], b |-> Off]
  /\ moved = FALSE
  /\ sent = {} /\ astray = {} /\ landed = {}
  /\ hurt = {}
  /\ swept = [a |-> {}, b |-> {}, end |-> {}]
  /\ trampled = FALSE
  /\ used = [event |-> 0, help |-> 0, fault |-> 0]

---------------------------------------------------------------------------
(* Outcomes of a step.  A call may be refused, or done and not answered.   *)

Room(k, max) == used[k] < max /\ used' = [used EXCEPT ![k] = @ + 1]
Event == Room("event", MaxEvent)
Fault == Room("fault", MaxFault)
Become(d, w) == work' = [work EXCEPT ![d] = w]

Abort(d) == Become(d, Off) /\ UNCHANGED <<remote, owner, ghosts, moved, used>>

Answer(d, w) ==
  \/ Become(d, w) /\ UNCHANGED used
  \/ Become(d, Off) /\ Fault

(* A save of the plugin data; a failed one leaves the memory ahead.        *)
Persist(m, w) ==
  /\ mem' = m
  /\ \/ disk' = m /\ Become("a", w) /\ UNCHANGED used
     \/ UNCHANGED disk /\ Become("a", Off) /\ Fault

Trans(t) == [mem EXCEPT !.trans = t]
Phase(p) == Trans([mem.trans EXCEPT !.phase = p])

Refused(d) ==
  /\ work[d].pc \notin {"idle", "off", "end"}
  /\ Fault
  /\ Become(d, Off)
  /\ rw' = IF d = "a" THEN Untried ELSE rw
  /\ UNCHANGED <<remote, mem, disk, ghosts, moved>>

Crash ==
  /\ work.a.pc \notin {"idle", "end"}
  /\ Fault
  /\ mem' = disk
  /\ Become("a", IF disk.trans = NoTrans THEN [Off EXCEPT !.pc = "end"] ELSE Off)
  /\ rw' = Untried
  /\ UNCHANGED <<remote, disk, ghosts, moved>>

---------------------------------------------------------------------------
(* The owner, up to the commit.                                            *)

Begin ==
  /\ work.a.pc = "idle"
  /\ ~Maintained
  /\ moved' = FALSE
  /\ Persist(Trans([NoTrans EXCEPT !.phase = "prepared", !.ref = local,
                                   !.source = raw[Source]]),
             At("a", "claim"))
  /\ UNCHANGED <<remote, rw, ghosts>>

Claim ==
  /\ work.a.pc = "claim"
  /\ IF Maintained \/ moved \/ local # mem.trans.ref
     THEN Abort("a")
     ELSE /\ canon' = [canon EXCEPT !.phase = "prepared"]
          /\ Persist(mem, [At("a", "announce") EXCEPT !.held.phase = "prepared"])
          /\ UNCHANGED <<raw, manifest, rw, ghosts, moved>>

Announce ==
  /\ work.a.pc = "announce"
  /\ manifest' = Transitional("prepared")
  /\ Answer("a", At("a", "apply"))
  /\ UNCHANGED <<raw, canon, owner, ghosts, moved>>

ApplyTarget ==
  /\ work.a.pc = "apply"
  /\ Persist([mem EXCEPT !.mode = Target], At("a", "resolve"))
  /\ UNCHANGED <<remote, rw, ghosts, moved>>

Resolve ==
  /\ work.a.pc = "resolve"
  /\ LET live == Live(mem.trans.ref)
     IN /\ rw' = [f \in Files |-> IF f \in live THEN "todo" ELSE "done"]
        /\ Persist(Trans([mem.trans EXCEPT
                     !.mapped = live,
                     !.dels = {f \in Files : mem.trans.source[f] # Nil}]),
                   At("a", "rewrite"))
  /\ UNCHANGED <<remote, ghosts, moved>>

(* One file of a rewrite; the others go on when it fails.                  *)
Failed(f) == rw' = [rw EXCEPT ![f] = "failed"]
Reached(f, state) == rw' = [rw EXCEPT ![f] = state]
PersistFile(f, t, state) ==
  /\ mem' = Trans(t)
  /\ \/ disk' = mem' /\ Reached(f, state) /\ UNCHANGED used
     \/ UNCHANGED disk /\ Failed(f) /\ Fault

Read(f) ==
  /\ rw[f] = "todo"
  /\ IF local[f] = Nil
     THEN PersistFile(f, [mem.trans EXCEPT !.ref[f] = Nil, !.mapped = @ \ {f}],
                      "done")
     ELSE PersistFile(f, [mem.trans EXCEPT !.ref[f] = local[f]], "put")
  /\ UNCHANGED <<remote, ghosts>>

Put(f) ==
  /\ rw[f] = "put"
  /\ Reached(f, "check")
  /\ \/ /\ raw' = [raw EXCEPT ![Target][f] = mem.trans.ref[f]]
        /\ hurt' = hurt \ {f}
        /\ UNCHANGED used
     \/ UNCHANGED <<raw, hurt>> /\ Fault
  /\ UNCHANGED <<canon, manifest, mem, disk, swept, trampled>>

Check(f) ==
  /\ rw[f] = "check"
  /\ IF raw[Target][f] = mem.trans.ref[f]
     THEN PersistFile(f, [mem.trans EXCEPT !.proofs = @ \cup {f}], "done")
     ELSE Failed(f) /\ UNCHANGED <<mem, disk, used>>
  /\ UNCHANGED <<remote, ghosts>>

Rewrite ==
  /\ work.a.pc = "rewrite"
  /\ \E f \in Files : Read(f) \/ Put(f) \/ Check(f)
  /\ UNCHANGED <<work, moved>>

(* Fault: files that could not be copied are left to the next transition.  *)
NoneUncopied == FALSE

Uncopied ==
  \E f \in Files : rw[f] = "failed" \/ f \in Live(mem.trans.ref) \ mem.trans.proofs

Copied ==
  /\ work.a.pc = "rewrite"
  /\ \A f \in Files : rw[f] \in {"done", "failed"}
  /\ IF Uncopied
     THEN Become("a", Off) /\ UNCHANGED <<mem, disk, used>>
     ELSE Persist(Phase("files-copied"), At("a", "forecast"))
  /\ rw' = Untried
  /\ UNCHANGED <<remote, ghosts, moved>>

(* Fault: the manifest of the target is published before the commit.       *)
ForecastStable ==
  /\ work.a.pc = "forecast"
  /\ manifest' = Stable(Target)
  /\ Answer("a", At("a", "commit"))
  /\ UNCHANGED <<raw, canon, owner, ghosts, moved>>

Forecast ==
  /\ work.a.pc = "forecast"
  /\ manifest' = Transitional("index-committed")
  /\ Answer("a", At("a", "commit"))
  /\ UNCHANGED <<raw, canon, owner, ghosts, moved>>

Commit ==
  /\ work.a.pc = "commit"
  /\ IF ~Holds("a") \/ canon.epoch # "e0"
     THEN Abort("a")
     ELSE /\ canon' = [mode |-> Target, epoch |-> "e1", files |-> mem.trans.ref,
                       phase |-> "index-committed", dels |-> mem.trans.dels]
          /\ Answer("a", [At("a", "note") EXCEPT
                            !.held = [phase |-> "index-committed",
                                      dels |-> mem.trans.dels]])
          /\ UNCHANGED <<raw, manifest, owner, ghosts, moved>>

Note ==
  /\ work.a.pc = "note"
  /\ Persist(Phase("index-committed"), At("a", "confirm"))
  /\ UNCHANGED <<remote, rw, ghosts, moved>>

(* Not guarded by the maintenance, which a helper may have finished.       *)
Confirm ==
  /\ work.a.pc = "confirm"
  /\ manifest' = Transitional("index-committed")
  /\ trampled' = (trampled \/ ~Maintained)
  /\ Answer("a", At("a", "stable"))
  /\ UNCHANGED <<raw, canon, owner, hurt, swept, moved>>

---------------------------------------------------------------------------
(* After the commit: the owner, or a helper that holds the target key.     *)

CheckStable(d) ==
  /\ work[d].pc = "stable"
  /\ IF ~Holds(d) THEN Abort(d)
     ELSE /\ Become(d, At(d, "publish"))
          /\ UNCHANGED <<remote, owner, ghosts, moved, used>>

(* The authority was read before; the write itself is unconditional.       *)
PublishStable(d) ==
  /\ work[d].pc = "publish"
  /\ manifest' = Stable(Target)
  /\ trampled' = (trampled \/ ~Holds(d))
  /\ Answer(d, At(d, "cleanup"))
  /\ UNCHANGED <<raw, canon, owner, hurt, swept, moved>>

Cleaning(d, dels) ==
  [At(d, "sweep") EXCEPT !.held = [phase |-> "cleanup", dels |-> dels]]

ToCleanup(d) ==
  /\ work[d].pc = "cleanup"
  /\ LET dels == IF d = "a" THEN mem.trans.dels ELSE canon.dels
     IN IF ~Holds(d)
        THEN Abort(d)
        ELSE /\ canon' = [canon EXCEPT !.phase = "cleanup", !.dels = dels]
             /\ IF d = "a"
                THEN Persist(Phase("cleanup"), Cleaning(d, dels))
                ELSE Answer(d, Cleaning(d, dels)) /\ UNCHANGED <<mem, disk>>
             /\ UNCHANGED <<raw, manifest, rw, ghosts, moved>>

(* Fault: objects are listed outside the selection too.                    *)
FoundAnywhere == {f \in All : raw[Source][f] # Nil}

(* Fault: only the sources of what was copied are looked for.              *)
FoundCopied == {f \in mem.trans.mapped : raw[Source][f] # Nil}

(* List what the source codec left.  The helper cannot read its names.     *)
Found == {f \in Files : raw[Source][f] # Nil}

Sweep(d) ==
  /\ work[d].pc = "sweep"
  /\ LET dels == IF Found = {} THEN canon.dels ELSE Found
         w == [At(d, "purge") EXCEPT !.found = Found, !.todo = Found,
                                    !.held.dels = dels]
     IN IF ~Holds(d) \/ (d = "b" /\ ~Found \subseteq canon.dels)
        THEN Abort(d)
        ELSE /\ canon' = [canon EXCEPT !.dels = dels]
             /\ swept' = [swept EXCEPT ![d] = {}]
             /\ IF d = "a" /\ dels # canon.dels
                THEN Persist(Trans([mem.trans EXCEPT !.dels = dels]), w)
                ELSE Answer(d, w) /\ UNCHANGED <<mem, disk>>
             /\ UNCHANGED <<raw, manifest, rw, hurt, trampled, moved>>

(* Fault: an object is removed although somebody else took over.           *)
PurgeAnyhow(d, f) ==
  /\ work[d].pc = "purge"
  /\ f \in work[d].todo
  /\ Cardinality(work[d].asked) < Workers
  /\ sent' = sent \cup {<<d, f>>}
  /\ Become(d, [work[d] EXCEPT !.todo = @ \ {f}, !.asked = @ \cup {f}])
  /\ UNCHANGED <<remote, owner, ghosts, moved, used>>

(* The guard of a DELETE reads the index; the request is sent after it and *)
(* takes effect later, also when its sender has given up.  A device has at *)
(* most one DELETE of a file in flight.                                    *)
Purge(d, f) ==
  /\ work[d].pc = "purge"
  /\ f \in work[d].todo
  /\ IF ~Holds(d) \/ f \notin canon.dels
     THEN Abort(d) /\ UNCHANGED sent
     ELSE /\ Cardinality(work[d].asked) < Workers
          /\ sent' = sent \cup {<<d, f>>}
          /\ Become(d, [work[d] EXCEPT !.todo = @ \ {f}, !.asked = @ \cup {f}])
          /\ UNCHANGED <<remote, owner, ghosts, moved, used>>

Deleted(d, f) ==
  /\ <<d, f>> \in sent
  /\ sent' = sent \ {<<d, f>>}
  /\ raw' = [raw EXCEPT ![Source][f] = Nil]
  /\ UNCHANGED <<canon, manifest, owner, work, ghosts, moved, used>>

(* The answer has come: the authority and the object are read again.       *)
Purged(d, f) ==
  /\ work[d].pc = "purge"
  /\ f \in work[d].asked
  /\ <<d, f>> \notin sent
  /\ IF ~Holds(d) \/ f \notin canon.dels \/ raw[Source][f] # Nil
     THEN Abort(d)
     ELSE /\ Become(d, [work[d] EXCEPT !.asked = @ \ {f}])
          /\ UNCHANGED <<remote, owner, ghosts, moved, used>>
  /\ UNCHANGED sent

PurgeStep(d) == \E f \in Files : Purge(d, f) \/ Deleted(d, f) \/ Purged(d, f)

Unreadable == {f \in Live(canon.files) : raw[Target][f] # canon.files[f]}
Passes == 4

(* Repair what was damaged from the bytes the index names, if the vault of *)
(* the device still has them; what the helper's vault has is not modelled. *)
Verify(d) ==
  /\ work[d].pc = "purge"
  /\ work[d].todo = {} /\ work[d].asked = {}
  /\ \E repairable \in IF d = "a" THEN {\A f \in Unreadable : local[f] = canon.files[f]}
                       ELSE BOOLEAN :
       IF ~Holds(d) \/ (Unreadable # {} /\ ~repairable)
       THEN Abort(d)
       ELSE /\ raw' = [raw EXCEPT ![Target] =
                         [f \in All |-> IF f \in Unreadable THEN canon.files[f] ELSE @[f]]]
            /\ hurt' = hurt \ Unreadable
            /\ IF work[d].found = {} /\ Unreadable = {}
               THEN Answer(d, At(d, "finish"))
               ELSE IF work[d].pass = Passes - 1
                    THEN Become(d, Off) /\ UNCHANGED used
                    ELSE Answer(d, [At(d, "sweep") EXCEPT !.pass = @ + 1])
            /\ UNCHANGED <<canon, manifest, owner, swept, trampled, moved>>

Finish(d) ==
  /\ work[d].pc = "finish"
  /\ IF ~Holds(d)
     THEN Abort(d)
     ELSE /\ canon' = [canon EXCEPT !.phase = "none", !.dels = {}]
          /\ swept' = [swept EXCEPT !.end = swept[d]]
          /\ Answer(d, IF d = "a" THEN At(d, "clear") ELSE Off)
          /\ UNCHANGED <<raw, manifest, owner, hurt, trampled, moved>>

(* The transitional manifest must belong to the commit that is cleaned up. *)
MayTakeOver ==
  \/ manifest = NoManifest /\ Target = "plain"
  \/ /\ manifest.state = "transition"
     /\ \/ manifest.phase = canon.phase
        \/ canon.phase = "cleanup" /\ manifest.phase = "index-committed"

(* Another device sees the maintenance of a commit and takes the cleanup   *)
(* over; a manifest that is the target's already needs no publication.     *)
Help ==
  /\ work.b.pc = "off"
  /\ Room("help", MaxHelp)
  /\ canon.phase \in Committed
  /\ canon.mode = Target
  /\ LET published == manifest = Stable(Target) /\ Target # "plain"
     IN /\ published \/ MayTakeOver
        /\ Become("b", [At("b", IF ~published THEN "stable"
                               ELSE IF canon.phase = "cleanup" THEN "sweep" ELSE "cleanup")
                          EXCEPT !.held = Authority])
  /\ UNCHANGED <<remote, owner, ghosts, moved>>

---------------------------------------------------------------------------
(* Recovery of the owner's checkpoint.                                     *)

(* The last save of a transition, which retires its checkpoint: refused,   *)
(* the checkpoint stays.  Disabling then deletes the manifest once more,   *)
(* unless a recovery completed it.                                         *)
Drop ==
  /\ \/ /\ mem' = Trans(NoTrans)
        /\ disk' = mem'
        /\ Become("a", [Off EXCEPT !.pc = IF kind = "disable" /\ ~work.a.again
                                          THEN "trailing" ELSE "end"])
        /\ UNCHANGED used
     \/ UNCHANGED <<mem, disk>> /\ Become("a", Off) /\ Fault
  /\ UNCHANGED <<remote, rw, ghosts, moved>>

Clear == work.a.pc = "clear" /\ Drop

TrailingDelete ==
  /\ work.a.pc = "trailing"
  /\ manifest' = NoManifest
  /\ trampled' = (trampled \/ canon.mode # "plain")
  /\ Become("a", [Off EXCEPT !.pc = "end"])
  /\ UNCHANGED <<raw, canon, owner, hurt, swept, moved, used>>

(* Fault: the saved phase alone decides, the index is not asked.           *)
DirectionSaved == IF mem.trans.phase \in Committed THEN "target" ELSE "source"

Direction ==
  IF mem.trans.phase \in Committed \/ canon.mode = Target THEN "target"
  ELSE IF canon.mode = Source THEN "source" ELSE "blocked"

(* The checkpoint, the index and the manifest must tell the same story.    *)
Coherent(authority) ==
  LET mode == IF authority = "target" THEN Target ELSE Source
  IN /\ IF authority = "source"
        THEN mem.trans.phase \in Before /\ canon.phase \notin Committed
        ELSE IF Maintained THEN canon.phase \in Committed
                           ELSE mem.trans.phase \in Committed
     /\ CASE manifest.state = "none" -> mode = "plain"
          [] manifest.state = "enabled" -> manifest.mode = mode
          [] OTHER -> /\ Maintained
                      /\ \/ manifest.phase = canon.phase
                         \/ /\ authority = "source"
                            /\ mem.trans.phase = "files-copied"
                            /\ manifest.phase = "index-committed"

(* Fault: the key of the other side stays in the plugin data.              *)
KeepsMode(mode) == mem

Recovered(mode) == [mem EXCEPT !.mode = mode]

Recover ==
  /\ work.a.pc = "off"
  /\ mem.trans # NoTrans
  /\ LET mode == IF Direction = "source" THEN Source ELSE Target
         next == IF canon.mode # mode \/ canon.epoch = "e2" \/ ~Coherent(Direction)
                 THEN "off"
                 ELSE IF Direction = "source" THEN "rollback"
                 ELSE IF Maintained THEN "stable" ELSE "retire"
     IN Persist(Recovered(mode),
                [Off EXCEPT !.pc = next,
                            !.held = IF next = "off" THEN NoAuthority ELSE Authority])
  /\ UNCHANGED <<remote, rw, ghosts, moved>>

(* Somebody else completed the transition: check, and drop the checkpoint. *)
Retirable ==
  /\ ~Maintained
  /\ canon.epoch = "e1"
  /\ canon.files = mem.trans.ref
  /\ Unreadable = {}
  /\ Found \cap mem.trans.dels = {}

Retire ==
  /\ work.a.pc = "retire"
  /\ IF Retirable THEN Drop ELSE Abort("a")

Present == {f \in mem.trans.mapped : raw[Target][f] # Nil}

(* Fault: a target that was written but not recorded is not rolled back.   *)
ProvenBefore == mem.trans.proofs

Proven == mem.trans.proofs \cup Present

VerifyTargets ==
  /\ work.a.pc = "rollback"
  /\ IF \E f \in Present : raw[Target][f] # mem.trans.ref[f]
     THEN Abort("a")
     ELSE LET next == IF work.a.held.phase # "none" THEN At("a", "restore")
                      ELSE IF Present = {} THEN At("a", "unchanged") ELSE Off
          IN /\ Persist(Trans([mem.trans EXCEPT !.proofs = Proven]), next)
             /\ UNCHANGED <<remote, rw, ghosts, moved>>

Valid == Holds("a") /\ canon.epoch = "e0" /\ Coherent("source")

Restore ==
  /\ work.a.pc = "restore"
  /\ IF ~Valid
     THEN Abort("a")
     ELSE /\ manifest' = Stable(Source)
          /\ Answer("a", [At("a", "undo") EXCEPT !.todo = mem.trans.proofs])
          /\ UNCHANGED <<raw, canon, owner, ghosts, moved>>

Undo(f) ==
  /\ work.a.pc = "undo"
  /\ f \in work.a.todo
  /\ IF ~Valid \/ raw[Target][f] \notin {Nil, mem.trans.ref[f]}
     THEN Abort("a")
     ELSE /\ raw' = [raw EXCEPT ![Target][f] = Nil]
          /\ Answer("a", [work.a EXCEPT !.todo = @ \ {f}])
          /\ UNCHANGED <<canon, manifest, owner, ghosts, moved>>

Release ==
  /\ work.a.pc = "undo"
  /\ work.a.todo = {}
  /\ IF ~Valid
     THEN Abort("a")
     ELSE /\ canon' = [canon EXCEPT !.phase = "none"]
          /\ Answer("a", At("a", "undone"))
          /\ UNCHANGED <<raw, manifest, owner, ghosts, moved>>

(* No maintenance is left to roll back: nothing may have changed.          *)
Untouched ==
  /\ ~Maintained
  /\ canon.epoch = "e0"
  /\ raw[Source] = mem.trans.source
  /\ \A f \in All : raw[Target][f] = Nil
  /\ Coherent("source")

Unchanged ==
  /\ work.a.pc = "unchanged"
  /\ IF Untouched THEN Drop ELSE Abort("a")

Undone == work.a.pc = "undone" /\ Drop

---------------------------------------------------------------------------
(* What happens around a transition.                                       *)

Begun == mem.trans # NoTrans

Edit(f) ==
  /\ Begun
  /\ Event
  /\ \E c \in {Nil, Initial + used.event + 1} : local' = [local EXCEPT ![f] = c]
  /\ UNCHANGED <<kind, remote, owner, work, moved, ghosts>>

(* An ordinary commit of another device, which maintenance forbids.        *)
OthersCommit(f) ==
  /\ Begun
  /\ ~Maintained
  /\ canon.epoch # "e2"
  /\ manifest = Stable(canon.mode)
  /\ canon.files[f] # Foreign
  /\ Event
  /\ canon' = [canon EXCEPT !.files[f] = Foreign]
  /\ raw' = [raw EXCEPT ![canon.mode][f] = Foreign]
  /\ hurt' = hurt \ {f}
  /\ moved' = (work.a.pc = "claim")
  /\ UNCHANGED <<kind, local, manifest, owner, work, swept, trampled>>

(* Another device enables encryption again after a disable.                *)
Successor ==
  /\ kind = "disable"
  /\ canon.epoch = "e1"
  /\ ~Maintained
  /\ manifest = NoManifest
  /\ Event
  /\ canon' = [canon EXCEPT !.mode = "new", !.epoch = "e2"]
  /\ raw' = [raw EXCEPT !["new"] = [f \in All |-> IF f \in Files THEN canon.files[f] ELSE Nil],
                        !["plain"] = [f \in All |-> IF f \in Files THEN Nil ELSE @[f]]]
  /\ manifest' = Stable("new")
  /\ hurt' = {}
  /\ UNCHANGED <<kind, local, owner, work, moved, swept, trampled>>

(* An actor has listed the source objects and found none.                  *)
Verified(d) == work[d].pc \in {"purge", "finish"} /\ work[d].found = {}

(* An upload another device sent before the claim lands now.               *)
LateUpload(f) ==
  /\ Begun
  /\ Event
  /\ raw' = [raw EXCEPT ![Source][f] = Foreign]
  /\ swept' = [d \in DOMAIN swept |->
                 swept[d] \cup IF d = "end" \/ Verified(d) THEN {f} \cap Files ELSE {}]
  /\ landed' = IF raw[Source][f] = Nil THEN landed \cup {f} ELSE landed
  /\ UNCHANGED <<kind, local, canon, manifest, owner, work, moved, hurt, trampled>>

Damage(f) ==
  /\ canon.epoch # "e2"
  /\ raw[Target][f] \notin {Nil, Junk}
  /\ Event
  /\ \E c \in {Nil, Junk} : raw' = [raw EXCEPT ![Target][f] = c]
  /\ hurt' = hurt \cup {f}
  /\ UNCHANGED <<kind, local, canon, manifest, owner, work, moved, swept, trampled>>

---------------------------------------------------------------------------
(* The index names f as an object to be removed.                           *)
Named(f) == canon.epoch = "e1" /\ canon.phase = "cleanup" /\ f \in canon.dels

(* A deletion in flight goes astray when the index stops naming its object.*)
Track ==
  astray' = {r \in sent' : r \in astray \/ (r \in sent /\ Named(r[2]) /\ ~Named(r[2])')}

OwnerStep ==
  /\ \/ /\ \/ Claim \/ Announce \/ ApplyTarget \/ Resolve \/ Rewrite \/ Copied
           \/ Forecast \/ Commit \/ Note \/ Confirm
           \/ CheckStable("a") \/ PublishStable("a") \/ ToCleanup("a") \/ Sweep("a")
           \/ Verify("a") \/ Finish("a") \/ Clear \/ TrailingDelete
           \/ Recover \/ Retire \/ VerifyTargets \/ Restore
           \/ \E f \in Files : Undo(f)
           \/ Release \/ Unchanged \/ Undone
        /\ UNCHANGED sent
     \/ PurgeStep("a")
  /\ Track
  /\ UNCHANGED <<kind, local, landed>>

HelperStep ==
  /\ \/ /\ \/ Help \/ CheckStable("b") \/ PublishStable("b") \/ ToCleanup("b")
           \/ Sweep("b") \/ Verify("b") \/ Finish("b")
        /\ UNCHANGED sent
     \/ PurgeStep("b")
  /\ Track
  /\ UNCHANGED <<kind, local, landed>>

FaultStep == (Refused("a") \/ Refused("b") \/ Crash) /\ UNCHANGED <<kind, local>>

(* What happens around the two devices, and where the owner begins or stops. *)
OtherStep ==
  /\ \/ Begin /\ UNCHANGED <<kind, local>>
     \/ FaultStep
     \/ \E f \in Files : Edit(f) \/ OthersCommit(f) \/ Damage(f)
     \/ Successor
  /\ UNCHANGED landed

Next ==
  \/ OwnerStep \/ HelperStep
  \/ /\ OtherStep \/ \E f \in All : LateUpload(f)
     /\ UNCHANGED sent
     /\ Track

(* The plugin goes on by itself and starts a recovery at every admission;  *)
(* nobody has to help.                                                     *)
Spec == Init /\ [][Next]_vars /\ WF_vars(OwnerStep)

---------------------------------------------------------------------------
TransOK(t) ==
  /\ t.phase \in {"none"} \cup Before \cup Committed
  /\ t.ref \in [Files -> Contents]
  /\ t.source \in [All -> Contents]
  /\ {t.mapped, t.proofs, t.dels} \subseteq SUBSET Files

(* The type invariant: the checkpoints and the lists of removals name       *)
(* selected files only.                                                     *)
TypeOK ==
  /\ kind \in Kinds
  /\ local \in [Files -> Contents]
  /\ raw \in [Modes -> [All -> Contents]]
  /\ canon.mode \in Modes
  /\ canon.files \in [Files -> Contents]
  /\ canon.phase \in {"none", "prepared"} \cup Committed
  /\ canon.dels \subseteq Files
  /\ manifest.mode \in Modes
  /\ \A s \in {mem, disk} : TransOK(s.trans) /\ s.mode \in Modes
  /\ rw \in [Files -> {"todo", "put", "check", "done", "failed"}]
  /\ \A d \in {"a", "b"} : work[d].todo \subseteq Files /\ work[d].pass \in 0 .. Passes - 1
  /\ hurt \subseteq Files
  /\ sent \subseteq {"a", "b"} \X Files

(* A device that holds the keys the manifest names can read the index,     *)
(* through the rewriting, the commit, the cleanup, a rollback and a         *)
(* takeover, whatever fails: the manifest changes sides only after the      *)
(* index.  A write sent without the authority of the index is excepted.     *)
ManifestNamesCanonical ==
  \/ trampled
  \/ CASE manifest.state = "none" -> canon.mode = "plain"
       [] manifest.state = "enabled" -> canon.mode = manifest.mode
       [] OTHER -> canon.mode \in {Source, Target}

(* Every file of the index can be read with the codec of the index: a       *)
(* source object is kept until the commit, and the commit waits for every   *)
(* target.  What others damage (hurt) is excepted until it is repaired.     *)
LiveReadable ==
  \A f \in Live(canon.files) \ hurt :
     IF canon.epoch = "e0" THEN raw[Source][f] # Nil
                           ELSE raw[canon.mode][f] = canon.files[f]

(* The plugin data of the owner always lead to the key of the index: its    *)
(* own mode, or a checkpoint that holds both, survives every restart.       *)
KeyKept ==
  \/ canon.mode \in {"plain", disk.mode}
  \/ disk.trans # NoTrans
  \/ canon.epoch = "e2"

(* The state is well formed, and the manifest, the index and the plugin     *)
(* data of the owner never disagree about the key without a way back.       *)
SidesConsistent == TypeOK /\ ManifestNamesCanonical /\ KeyKept

(* A finished transition leaves no selected object of the source codec,     *)
(* except an upload that lands after the last listing found none.           *)
NothingOldLeft ==
  canon.epoch = "e1" /\ ~Maintained =>
     \A f \in Files : raw[Source][f] # Nil => f \in swept.end

(* A rolled back transition leaves no object of its target: also what was   *)
(* written when the answer, or the record of it, was lost.                  *)
RolledBackIsClean ==
  mem.trans = NoTrans /\ canon.epoch = "e0" =>
     \A f \in Files : raw[Target][f] = Nil

(* Neither end of a transition leaves an object of the other side behind.   *)
LeavesNothing == NothingOldLeft /\ RolledBackIsClean

(* The cleanup removes objects of the source only after the commit, none    *)
(* outside the selection, and only while the index names the object.  A     *)
(* deletion that was on its way when another device finished the cleanup is *)
(* excepted; it can only hit an upload that has landed since, never an      *)
(* object that was there at the commit.                                     *)
RemovalsAuthorized ==
  [][\A f \in All : raw[Source][f] # Nil /\ raw'[Source][f] = Nil =>
        /\ canon.epoch # "e0"
        /\ f \in Files
        /\ Named(f) \/ (f \in landed /\ \E d \in {"a", "b"} : <<d, f>> \in astray \ sent')]_vars

(* Others have overtaken the transition: its checkpoint is never retired.  *)
Overtaken ==
  /\ ~Maintained
  /\ IF Direction = "source" THEN ~Untouched
     ELSE ~Retirable \/ mem.trans.phase \notin Committed

(* A target was damaged, and the owner's vault cannot replace it.           *)
Lost ==
  IF canon.mode = Source
  THEN \E f \in Present : raw[Target][f] # mem.trans.ref[f]
  ELSE \E f \in Unreadable : local[f] # canon.files[f]

(* Everything the code leaves to the user: see the README.                  *)
Blocked ==
  \/ Overtaken
  \/ Lost
  \/ manifest.state = "transition" /\ canon.phase \in {"none", "cleanup"}

(* A transition is completed or rolled back and its checkpoint retired,     *)
(* whatever failed on the way, unless it meets one of the dead ends above.  *)
TransitionEnds == <>[](mem.trans = NoTrans \/ Blocked)

(* Without the exceptions: a checkpoint is always retired in the end.       *)
Retired == <>[](mem.trans = NoTrans)

(* A transitional manifest is always covered by a maintenance of the index. *)
TransitionIsMaintained == manifest.state = "transition" => Maintained

(* Without the exception: nothing is removed that the index does not name.  *)
RemovedIsNamed ==
  [][\A f \in All : raw[Source][f] # Nil /\ raw'[Source][f] = Nil => Named(f)]_vars
=============================================================================
