-------------------------- MODULE EncryptionProofs --------------------------
(***************************************************************************)
(* Theorems about Encryption for any set of files, all three kinds of      *)
(* transition, and any number of failures, restarts, takeovers and commits *)
(* of others.  The invariant says what the index, the manifest, the        *)
(* checkpoint on both levels, the two sets of objects and the two actors   *)
(* agree on at any time: the epoch of the index tells how far everybody    *)
(* can be, and before the commit every object under the target codec is    *)
(* known to both copies of the checkpoint.  A second part (NInv) is about  *)
(* the deletions: what the index names from the commit to its cleanup, and *)
(* the requests in flight.                                                 *)
(***************************************************************************)
EXTENDS Encryption, TLAPS

Phases == {"none"} \cup Before \cup Committed
Running == {"claim", "announce", "apply", "resolve", "rewrite", "forecast", "commit"}
Cleanup == {"stable", "publish", "cleanup", "sweep", "purge", "finish"}
Backward == {"rollback", "restore", "undo", "undone", "unchanged"}
Steps == {"idle", "off", "note", "confirm", "clear", "trailing", "retire", "end"}
           \cup Running \cup Cleanup \cup Backward

Holdings == [phase : Phases, dels : SUBSET Files]
Works == [pc : Steps, held : Holdings, pass : 0 .. Passes - 1,
          found : SUBSET Files, todo : SUBSET Files, asked : SUBSET Files,
          again : BOOLEAN]
Transitions == [phase : Phases, ref : [Files -> Contents], mapped : SUBSET Files,
                proofs : SUBSET Files, dels : SUBSET Files, source : [All -> Contents]]
Stores == [trans : Transitions, mode : Modes]
Indexes == [mode : Modes, epoch : {"e0", "e1", "e2"}, files : [Files -> Contents],
            phase : {"none", "prepared"} \cup Committed, dels : SUBSET Files]
Manifests == [state : {"none", "enabled", "transition"}, mode : Modes, phase : Phases]
Progress == {"todo", "put", "check", "done", "failed"}

TypedRemote == /\ raw \in [Modes -> [All -> Contents]]
               /\ canon \in Indexes
               /\ manifest \in Manifests
TypedOwner == mem \in Stores /\ disk \in Stores /\ rw \in [Files -> Progress]
TypedWork == work \in [{"a", "b"} -> Works]
TypedRest ==
  /\ kind \in Kinds
  /\ local \in [Files -> Contents]
  /\ hurt \subseteq Files
  /\ swept \in [{"a", "b", "end"} -> SUBSET Files]
  /\ used \in [event : 0 .. MaxEvent, help : Nat, fault : Nat]
  /\ moved \in BOOLEAN /\ trampled \in BOOLEAN
Typed == TypedRemote /\ TypedOwner /\ TypedWork /\ TypedRest

\* The codec and the authority of the index at each epoch.
Epochs ==
  /\ canon.epoch = "e0" => canon.mode = Source /\ canon.phase \in {"none", "prepared"}
  /\ canon.epoch = "e1" => canon.mode = Target /\ canon.phase \in {"none"} \cup Committed
  /\ canon.epoch = "e2" => kind = "disable" /\ canon.mode = "new" /\ canon.phase = "none"

\* Where the owner and the helper can be at each epoch.
Control ==
  /\ work.a.pc \in {"idle"} \cup Running \cup Backward => canon.epoch = "e0"
  /\ work.a.pc \in Running \ {"claim"} => canon.phase = "prepared"
  /\ work.a.pc \in {"note", "confirm", "clear"} => canon.epoch # "e0"
  /\ work.a.pc \in {"note", "confirm"} => work.a.held.phase \in Committed
  /\ work.b.pc \in {"off"} \cup Cleanup
  /\ \A d \in {"a", "b"} : work[d].pc \in Cleanup =>
        /\ canon.epoch # "e0"
        /\ work[d].held.phase \in IF work[d].pc \in {"sweep", "purge", "finish"}
                                  THEN {"cleanup"} ELSE Committed

\* What the owner does with which codec; it has a checkpoint in memory and on
\* the device while it does anything.
Keys ==
  /\ work.a.pc \in Backward => mem.mode = Source
  /\ work.a.pc \in {"resolve", "rewrite", "forecast", "commit", "note", "confirm",
                    "clear", "retire"}
                     \cup Cleanup => mem.mode = Target
  /\ work.a.pc \notin {"idle", "off", "trailing", "end"} =>
        mem.trans.phase # "none" /\ disk.trans.phase # "none"
  /\ work.a.pc = "idle" => mem.trans = NoTrans
  /\ mem.trans = NoTrans => disk = mem
  /\ mem.trans # NoTrans => mem.trans.phase # "none"
  /\ disk.trans # NoTrans => disk.trans.phase # "none"

Manifested == work.a.pc = "commit" => manifest.state = "transition"

\* Until the commit every file of the index has its object under the source.
Sourced ==
  canon.epoch = "e0" => \A f \in Files : canon.files[f] # Nil => raw[Source][f] # Nil

\* Every object under the target codec is of a file that the checkpoint maps.
Recorded ==
  canon.epoch = "e0" =>
     \A f \in All : raw[Target][f] # Nil => f \in mem.trans.mapped \cap disk.trans.mapped

\* The rewriting: what is proved has been written as the reference says.
Rewriting ==
  /\ work.a.pc \in {"claim", "announce", "apply", "resolve"} =>
        mem.trans.mapped = {} /\ mem.trans.proofs = {}
  /\ work.a.pc = "rewrite" =>
        /\ mem.trans.mapped \subseteq disk.trans.mapped
        /\ \A f \in Files :
              /\ f \in mem.trans.proofs => rw[f] \in {"done", "failed"}
              /\ rw[f] \in {"todo", "put", "check"} => f \in mem.trans.mapped
              /\ rw[f] \in {"todo", "put"} => raw[Target][f] = Nil
              /\ f \in mem.trans.proofs \ hurt => raw[Target][f] = mem.trans.ref[f]
  /\ work.a.pc \in {"forecast", "commit"} =>
        \A f \in Live(mem.trans.ref) \ hurt : raw[Target][f] = mem.trans.ref[f]

\* The rollback: what is under the target codec is still to be removed.
Removing ==
  \A f \in All : raw[Target][f] # Nil =>
     /\ work.a.pc = "restore" => f \in mem.trans.proofs
     /\ work.a.pc = "undo" => f \in work.a.todo
     /\ work.a.pc # "undone"

\* What an actor that found no source object has to answer for.
Swept ==
  /\ \A d \in {"a", "b"} :
        /\ work[d].pc = "finish" => work[d].found = {}
        /\ Verified(d) => \A f \in Files : raw[Source][f] # Nil => f \in swept[d]

CInv == Typed /\ Epochs /\ Control
KInv == Keys /\ KeyKept
MInv == Manifested /\ ManifestNamesCanonical
WInv == Recorded /\ Rewriting /\ Removing
SInv == Swept /\ NothingOldLeft

IInv ==
  /\ Typed /\ Epochs /\ Control /\ Keys /\ KeyKept
  /\ Manifested /\ ManifestNamesCanonical
  /\ Sourced /\ Recorded /\ Rewriting /\ Removing
  /\ Swept /\ NothingOldLeft /\ LiveReadable

Early == {"claim", "announce", "apply", "resolve"}
Late == {"rewrite", "forecast", "commit"}

\* What the index will name: every object of the source is there until the
\* commit, and the owner has listed all of them before.
Listed ==
  /\ canon.epoch = "e0" => \A f \in Files : raw[Source][f] # Nil
  /\ work.a.pc \in Early => \A f \in Files : mem.trans.source[f] # Nil
  /\ work.a.pc \in Late => \A t \in {mem.trans, disk.trans} : t.dels = Files

\* An object that has been there since the commit is named, by the index and by
\* both copies of the checkpoint, until it is removed.
Standing ==
  canon.epoch # "e0" =>
     \A f \in Files \ landed : raw[Source][f] # Nil =>
        /\ canon.phase \in Committed
        /\ f \in canon.dels
        /\ \A t \in {mem.trans, disk.trans} : t # NoTrans => f \in t.dels

\* What an actor that found no object has not seen has landed since.
Unseen ==
  \A d \in {"a", "b"} : Verified(d) => \A f \in Files : raw[Source][f] # Nil => f \in landed

\* The deletions in flight: the cleanup has begun and may have ended.
Over == canon.epoch # "e0" /\ canon.phase \in {"none", "cleanup"}

Flying ==
  /\ sent \subseteq {"a", "b"} \X Files
  /\ sent # {} => Over
  /\ \A r \in sent \ astray : Named(r[2])

NInv == Listed /\ Standing /\ Unseen /\ Flying

\* A step that names, lists and lands nothing.
Still ==
  /\ work'.a.pc \in Early => work.a.pc \in Early
  /\ work'.a.pc \in Late => work.a.pc \in Late
  /\ \A d \in {"a", "b"} : Verified(d)' => Verified(d)
Lasting ==
  \A t \in {mem'.trans, disk'.trans} : t # NoTrans =>
     \E u \in {mem.trans, disk.trans} : u # NoTrans /\ u.dels = t.dels
Calm ==
  /\ UNCHANGED <<kind, canon, landed>>
  /\ \A f \in Files : raw'[Source][f] # Nil => raw[Source][f] # Nil
  /\ canon.epoch = "e0" => \A f \in Files : raw[Source][f] # Nil => raw'[Source][f] # Nil
  /\ Still /\ Lasting
  /\ work'.a.pc \in Early => mem'.trans.source = mem.trans.source

\* The step removes no object of the source.
Spares == \A f \in All : raw[Source][f] # Nil => raw'[Source][f] # Nil

\* What a step makes of the work of actor d, and of the bounds.
Goes(d, p) ==
  /\ TypedWork'
  /\ d = "a" => work'.a.pc = p /\ work'.b = work.b
  /\ d = "b" => work'.b.pc = p /\ work'.a = work.a
SameLoad(d) ==
  /\ work'[d].held = work[d].held
  /\ work'[d].found = work[d].found
  /\ work'[d].todo = work[d].todo
Counts == used' \in [event : 0 .. MaxEvent, help : Nat, fault : Nat]

-----------------------------------------------------------------------------
(* The values, and what the helpers of the actions do. *)

\* The two codecs of a transition.
LEMMA Codecs ==
  ASSUME Typed
  PROVE  /\ Source \in Modes /\ Target \in Modes /\ Source # Target
         /\ kind = "disable" => Source = "old" /\ Target = "plain"
         /\ UNCHANGED kind => Source' = Source /\ Target' = Target
  BY EncryptionAssumption DEF Source, Target, Modes

\* The bounds and the markers.
LEMMA Numbers ==
  /\ MaxEvent \in Nat /\ MaxFault \in Nat /\ MaxHelp \in Nat
  /\ {Nil, Initial, Foreign, Junk} \subseteq Contents
  /\ Nil # Foreign /\ Nil # Junk /\ Nil # Initial
  BY EncryptionAssumption DEF Contents, Nil, Initial, Foreign, Junk

\* The records the actions start from.
LEMMA Constants ==
  /\ Off \in Works /\ Off.pc = "off"
  /\ NoTrans \in Transitions /\ NoTrans.phase = "none"
  /\ NoTrans.mapped = {} /\ NoTrans.proofs = {}
  /\ Untried \in [Files -> Progress]
  /\ NoManifest \in Manifests /\ NoManifest.state = "none"
  BY Numbers DEF Off, Works, Steps, NoAuthority, Holdings, Phases, Passes, NoTrans,
     Transitions, Empty, Untried, Progress, NoManifest, Manifests, Modes

\* The manifests.
LEMMA Published ==
  /\ \A p \in Phases : Typed => /\ Transitional(p) \in Manifests
                                /\ Transitional(p).state = "transition"
  /\ Stable("plain") = NoManifest
  /\ \A m \in Modes \ {"plain"} : /\ Stable(m) \in Manifests
                                  /\ Stable(m).state = "enabled" /\ Stable(m).mode = m
<1>1. \A p \in Phases : Typed => /\ Transitional(p) \in Manifests
                                 /\ Transitional(p).state = "transition"
  BY Codecs DEF Transitional, Manifests
<1>2. \A m \in Modes \ {"plain"} : /\ Stable(m) \in Manifests
                                   /\ Stable(m).state = "enabled" /\ Stable(m).mode = m
  BY DEF Stable, Manifests, Phases
<1> QED
  BY <1>1, <1>2 DEF Stable

\* A step counts one event, failure or takeover at most.
LEMMA Room1 ==
  ASSUME Typed, UNCHANGED used \/ Fault \/ Event \/ Room("help", MaxHelp)
  PROVE  Counts
  BY Numbers DEF Typed, TypedRest, Fault, Event, Room, Counts

\* What the ways to go on make of the work of the actor.
LEMMA Turns ==
  ASSUME Typed, NEW d \in {"a", "b"}, NEW w \in Works, Become(d, w)
  PROVE  Goes(d, w.pc) /\ work'[d] = w
  BY DEF Typed, TypedWork, Become, Goes

LEMMA Idles ==
  ASSUME Typed, NEW d \in {"a", "b"}, Become(d, Off)
  PROVE  Goes(d, "off")
  BY Turns, Constants

LEMMA Places ==
  ASSUME Typed, NEW d \in {"a", "b"}, NEW p \in Steps
  PROVE  /\ At(d, p) \in Works /\ At(d, p).pc = p
         /\ At(d, p).held = work[d].held /\ At(d, p).pass = work[d].pass
         /\ At(d, p).found = work[d].found /\ At(d, p).todo = work[d].todo
  BY DEF Typed, TypedWork, At, Works

LEMMA Aborts ==
  ASSUME Typed, NEW d \in {"a", "b"}, Abort(d)
  PROVE  /\ UNCHANGED <<raw, canon, manifest, mem, disk, rw, hurt, swept, trampled,
                        moved>>
         /\ Counts /\ Goes(d, "off")
  BY Room1, Idles DEF Abort, remote, owner, ghosts

\* A request is answered, or the run ends.
LEMMA Answers ==
  ASSUME Typed, NEW d \in {"a", "b"}, NEW w \in Works, Answer(d, w)
  PROVE  Counts /\ (Goes(d, "off") \/ (Goes(d, w.pc) /\ work'[d] = w))
<1>1. CASE Become(d, w) /\ UNCHANGED used
  BY <1>1, Room1, Turns
<1>2. CASE Become(d, Off) /\ Fault
  BY <1>2, Room1, Idles
<1> QED
  BY <1>1, <1>2 DEF Answer

LEMMA AnswersAt ==
  ASSUME Typed, NEW d \in {"a", "b"}, NEW p \in Steps, Answer(d, At(d, p))
  PROVE  Counts /\ (Goes(d, "off") \/ (Goes(d, p) /\ SameLoad(d)))
  BY Answers, Places DEF SameLoad

\* A save succeeds, or memory is ahead and the run ends.
LEMMA Persists ==
  ASSUME Typed, NEW m, NEW w \in Works, Persist(m, w)
  PROVE  /\ mem' = m /\ Counts
         /\ \/ disk' = m /\ Goes("a", w.pc) /\ work'.a = w
            \/ disk' = disk /\ Goes("a", "off")
<1>1. CASE disk' = m /\ Become("a", w) /\ UNCHANGED used
  BY <1>1, Room1, Turns DEF Persist
<1>2. CASE UNCHANGED disk /\ Become("a", Off) /\ Fault
  BY <1>2, Room1, Idles DEF Persist
<1> QED
  BY <1>1, <1>2 DEF Persist

LEMMA PersistsAt ==
  ASSUME Typed, NEW m, NEW p \in Steps, Persist(m, At("a", p))
  PROVE  /\ mem' = m /\ Counts
         /\ \/ disk' = m /\ Goes("a", p) /\ SameLoad("a")
            \/ disk' = disk /\ Goes("a", "off")
<1>1. At("a", p) \in Works /\ At("a", p).pc = p
  BY Places
<1>2. /\ mem' = m /\ Counts
      /\ \/ disk' = m /\ Goes("a", p) /\ work'.a = At("a", p)
         \/ disk' = disk /\ Goes("a", "off")
  BY <1>1, Persists
<1> QED
  BY <1>2, Places DEF SameLoad

\* What the actions make of the checkpoint.
LEMMA Stored ==
  ASSUME Typed, NEW t \in Transitions
  PROVE  Trans(t) \in Stores /\ Trans(t).trans = t /\ Trans(t).mode = mem.mode
  BY DEF Typed, TypedOwner, Trans, Stores

LEMMA Phased ==
  ASSUME Typed, NEW p \in Phases
  PROVE  /\ Phase(p) \in Stores /\ Phase(p).mode = mem.mode /\ Phase(p).trans.phase = p
         /\ Phase(p).trans.mapped = mem.trans.mapped
         /\ Phase(p).trans.proofs = mem.trans.proofs /\ Phase(p).trans.ref = mem.trans.ref
<1>1. mem.trans \in Transitions
  BY DEF Typed, TypedOwner, Stores
<1> DEFINE t == [mem.trans EXCEPT !.phase = p]
<1>2. /\ t \in Transitions /\ t.phase = p /\ t.mapped = mem.trans.mapped
      /\ t.proofs = mem.trans.proofs /\ t.ref = mem.trans.ref
  BY <1>1 DEF Transitions
<1> QED
  BY <1>2, Stored DEF Phase

-----------------------------------------------------------------------------
(* The owner up to the commit and its confirmation.  Each action has one lemma: *)
(* first what it makes of the variables, then each part of the invariant.       *)

LEMMA BeginKeeps ==
  ASSUME IInv, Begin, UNCHANGED <<kind, local>>
  PROVE  IInv' /\ Spares
<1>1. /\ UNCHANGED <<raw, canon, manifest, hurt, swept, trampled>>
      /\ UNCHANGED rw
      /\ moved' = FALSE
      /\ Counts
      /\ work.a.pc = "idle"
      /\ mem' \in Stores /\ mem'.mode = mem.mode
      /\ mem'.trans.phase = "prepared" /\ mem'.trans.mapped = {} /\ mem'.trans.proofs = {}
      /\ (disk' = mem' /\ Goes("a", "claim")) \/ (disk' = disk /\ Goes("a", "off"))
  <2> DEFINE t == [NoTrans EXCEPT !.phase = "prepared", !.ref = local,
                   !.source = raw[Source]]
  <2>1. t \in Transitions /\ t.phase = "prepared" /\ t.mapped = {} /\ t.proofs = {}
    BY Constants, Codecs
    DEF IInv, Typed, TypedRemote, TypedRest, Transitions, Phases, Before
  <2>2. /\ mem' = Trans(t) /\ Counts
        /\ \/ disk' = Trans(t) /\ Goes("a", "claim")
           \/ disk' = disk /\ Goes("a", "off")
    BY PersistsAt DEF Begin, IInv, Steps, Running
  <2>3. Trans(t) \in Stores /\ Trans(t).trans = t /\ Trans(t).mode = mem.mode
    BY <2>1, Stored DEF IInv
  <2> HIDE DEF t
  <2> QED
    BY <2>1, <2>2, <2>3 DEF Begin, remote, ghosts
<1>2. /\ Source' = Source /\ Target' = Target
      /\ Source # Target /\ Source \in Modes /\ Target \in Modes
  BY <1>1, Codecs DEF IInv
<1>3. Typed'
  BY <1>1, <1>2 DEF IInv, Typed, TypedRemote, TypedOwner, TypedRest, Goes, Counts
<1>4. Epochs' /\ ManifestNamesCanonical' /\ Sourced' /\ NothingOldLeft' /\ LiveReadable'
  BY <1>1, <1>2
  DEF IInv, Epochs, ManifestNamesCanonical, Sourced, NothingOldLeft, Maintained,
      LiveReadable
<1>5. Control'
  BY <1>1, <1>2 DEF IInv, Control, Running, Cleanup, Goes
<1>6. Keys'
  BY <1>1, <1>2, Constants DEF IInv, Keys, Cleanup, Backward, Goes
<1>7. KeyKept'
  BY <1>1, <1>2 DEF IInv, KeyKept, Keys
<1>8. Manifested'
  BY <1>1, <1>2 DEF IInv, Manifested, Goes
<1>9. Recorded'
  BY <1>1, <1>2, Constants DEF IInv, Recorded, Keys
<1>10. Rewriting'
  BY <1>1, <1>2 DEF IInv, Rewriting, Goes
<1>11. Removing'
  BY <1>1, <1>2 DEF IInv, Removing, Goes
<1>12. Swept'
  BY <1>1, <1>2 DEF IInv, Swept, Verified, Goes
<1>13. Spares
  BY <1>1, <1>2 DEF Spares
<1> QED
  BY <1>3, <1>4, <1>5, <1>6, <1>7, <1>8, <1>9, <1>10, <1>11, <1>12, <1>13 DEF IInv

LEMMA ClaimKeeps ==
  ASSUME IInv, Claim, UNCHANGED <<kind, local>>
  PROVE  IInv' /\ Spares
<1>1. /\ UNCHANGED <<raw, manifest, mem, rw, hurt, swept, trampled, moved>>
      /\ Counts
      /\ work.a.pc = "claim"
      /\ canon' \in Indexes /\ canon'.mode = canon.mode /\ canon'.epoch = canon.epoch
      /\ canon'.files = canon.files
      /\ canon'.dels = canon.dels
      /\ \/ canon' = canon /\ disk' = disk /\ Goes("a", "off")
         \/ canon.phase = "none" /\ canon'.phase = "prepared" /\ disk' = mem
            /\ Goes("a", "announce")
         \/ canon.phase = "none" /\ canon'.phase = "prepared" /\ disk' = disk
            /\ Goes("a", "off")
  <2>1. CASE Maintained \/ moved \/ local # mem.trans.ref
    BY <2>1, Aborts DEF Claim, IInv, Typed, TypedRemote
  <2>2. CASE ~(Maintained \/ moved \/ local # mem.trans.ref)
    <3> DEFINE w == [At("a", "announce") EXCEPT !.held.phase = "prepared"]
    <3>1. w \in Works /\ w.pc = "announce"
      BY Places DEF IInv, Works, Holdings, Phases, Before, Steps, Running
    <3>2. Persist(mem, w) /\ canon' = [canon EXCEPT !.phase = "prepared"]
      BY <2>2 DEF Claim
    <3>3. /\ mem' = mem /\ Counts
          /\ \/ disk' = mem /\ Goes("a", "announce")
             \/ disk' = disk /\ Goes("a", "off")
      BY <3>1, <3>2, Persists DEF IInv
    <3>4. /\ canon' \in Indexes /\ canon'.mode = canon.mode /\ canon'.epoch = canon.epoch
          /\ canon'.files = canon.files /\ canon'.dels = canon.dels
          /\ canon'.phase = "prepared"
      BY <3>2 DEF IInv, Typed, TypedRemote, Indexes
    <3> HIDE DEF w
    <3> QED
      BY <2>2, <3>3, <3>4 DEF Claim, Maintained, ghosts
  <2> QED
    BY <2>1, <2>2
<1>2. /\ Source' = Source /\ Target' = Target
      /\ Source # Target /\ Source \in Modes /\ Target \in Modes
  BY <1>1, Codecs DEF IInv
<1>3. Typed'
  BY <1>1, <1>2 DEF IInv, Typed, TypedRemote, TypedOwner, TypedRest, Goes, Counts
<1>4. Epochs'
  BY <1>1, <1>2 DEF IInv, Epochs, Control, Running
<1>5. Control'
  BY <1>1, <1>2 DEF IInv, Control, Running, Cleanup, Goes
<1>6. Keys'
  BY <1>1, <1>2 DEF IInv, Keys, Cleanup, Backward, Goes
<1>7. KeyKept'
  BY <1>1, <1>2 DEF IInv, KeyKept, Keys
<1>8. Manifested'
  BY <1>1, <1>2 DEF IInv, Manifested, Goes
<1>9. ManifestNamesCanonical'
  BY <1>1, <1>2 DEF IInv, ManifestNamesCanonical
<1>10. Sourced'
  BY <1>1, <1>2 DEF IInv, Sourced
<1>11. Recorded'
  BY <1>1, <1>2 DEF IInv, Recorded
<1>12. Rewriting'
  BY <1>1, <1>2 DEF IInv, Rewriting, Goes
<1>13. Removing'
  BY <1>1, <1>2 DEF IInv, Removing, Goes
<1>14. Swept'
  BY <1>1, <1>2 DEF IInv, Swept, Verified, Goes
<1>15. NothingOldLeft'
  BY <1>1, <1>2 DEF IInv, NothingOldLeft, Maintained
<1>16. LiveReadable'
  BY <1>1, <1>2 DEF IInv, LiveReadable
<1>17. Spares
  BY <1>1, <1>2 DEF Spares
<1> QED
  BY <1>3, <1>4, <1>5, <1>6, <1>7, <1>8, <1>9, <1>10, <1>11, <1>12, <1>13, <1>14,
     <1>15, <1>16, <1>17
  DEF IInv

LEMMA AnnounceKeeps ==
  ASSUME IInv, Announce, UNCHANGED <<kind, local>>
  PROVE  IInv' /\ Spares
<1>1. /\ UNCHANGED <<raw, canon, mem, disk, rw, hurt, swept, trampled, moved>>
      /\ Counts
      /\ work.a.pc = "announce"
      /\ manifest' \in Manifests /\ manifest'.state = "transition"
      /\ Goes("a", "off") \/ Goes("a", "apply")
  BY Published, AnswersAt
  DEF IInv, Announce, Phases, Before, Steps, Running, owner, ghosts
<1>2. /\ Source' = Source /\ Target' = Target
      /\ Source # Target /\ Source \in Modes /\ Target \in Modes
  BY <1>1, Codecs DEF IInv
<1>3. Typed'
  BY <1>1, <1>2 DEF IInv, Typed, TypedRemote, TypedOwner, TypedRest, Goes, Counts
<1>4. Epochs' /\ KeyKept' /\ Sourced' /\ Recorded' /\ NothingOldLeft' /\ LiveReadable'
  BY <1>1, <1>2
  DEF IInv, Epochs, KeyKept, Sourced, Recorded, NothingOldLeft, Maintained,
      LiveReadable
<1>5. Control'
  BY <1>1, <1>2 DEF IInv, Control, Running, Cleanup, Goes
<1>6. Keys'
  BY <1>1, <1>2 DEF IInv, Keys, Cleanup, Backward, Goes
<1>7. Manifested'
  BY <1>1, <1>2 DEF IInv, Manifested
<1>8. ManifestNamesCanonical'
  BY <1>1, <1>2 DEF IInv, ManifestNamesCanonical, Epochs, Control, Running
<1>9. Rewriting'
  BY <1>1, <1>2 DEF IInv, Rewriting, Goes
<1>10. Removing'
  BY <1>1, <1>2 DEF IInv, Removing, Goes
<1>11. Swept'
  BY <1>1, <1>2 DEF IInv, Swept, Verified, Goes
<1>12. Spares
  BY <1>1, <1>2 DEF Spares
<1> QED
  BY <1>3, <1>4, <1>5, <1>6, <1>7, <1>8, <1>9, <1>10, <1>11, <1>12 DEF IInv

LEMMA ApplyTargetKeeps ==
  ASSUME IInv, ApplyTarget, UNCHANGED <<kind, local>>
  PROVE  IInv' /\ Spares
<1>1. /\ UNCHANGED <<raw, canon, manifest, hurt, swept, trampled>>
      /\ UNCHANGED <<rw, moved>>
      /\ Counts
      /\ work.a.pc = "apply"
      /\ mem' \in Stores /\ mem'.mode = Target /\ mem'.trans = mem.trans
      /\ (disk' = mem' /\ Goes("a", "resolve")) \/ (disk' = disk /\ Goes("a", "off"))
  BY PersistsAt, Codecs
  DEF IInv, ApplyTarget, Steps, Running, remote, ghosts, Typed, TypedOwner, Stores
<1>2. /\ Source' = Source /\ Target' = Target
      /\ Source # Target /\ Source \in Modes /\ Target \in Modes
  BY <1>1, Codecs DEF IInv
<1>3. Typed'
  BY <1>1, <1>2 DEF IInv, Typed, TypedRemote, TypedOwner, TypedRest, Goes, Counts
<1>4. Epochs' /\ ManifestNamesCanonical' /\ Sourced' /\ NothingOldLeft' /\ LiveReadable'
  BY <1>1, <1>2
  DEF IInv, Epochs, ManifestNamesCanonical, Sourced, NothingOldLeft, Maintained,
      LiveReadable
<1>5. Control'
  BY <1>1, <1>2 DEF IInv, Control, Running, Cleanup, Goes
<1>6. Keys'
  BY <1>1, <1>2, Constants DEF IInv, Keys, Backward, Goes
<1>7. KeyKept'
  BY <1>1, <1>2, Constants DEF IInv, KeyKept, Keys
<1>8. Manifested'
  BY <1>1, <1>2 DEF IInv, Manifested, Goes
<1>9. Recorded'
  BY <1>1, <1>2 DEF IInv, Recorded
<1>10. Rewriting'
  BY <1>1, <1>2 DEF IInv, Rewriting, Goes
<1>11. Removing'
  BY <1>1, <1>2 DEF IInv, Removing, Goes
<1>12. Swept'
  BY <1>1, <1>2 DEF IInv, Swept, Verified, Goes
<1>13. Spares
  BY <1>1, <1>2 DEF Spares
<1> QED
  BY <1>3, <1>4, <1>5, <1>6, <1>7, <1>8, <1>9, <1>10, <1>11, <1>12, <1>13 DEF IInv

LEMMA ResolveKeeps ==
  ASSUME IInv, Resolve, UNCHANGED <<kind, local>>
  PROVE  IInv' /\ Spares
<1>1. /\ UNCHANGED <<raw, canon, manifest, hurt, swept, trampled>>
      /\ UNCHANGED moved
      /\ Counts
      /\ work.a.pc = "resolve"
      /\ mem' \in Stores /\ mem'.mode = mem.mode /\ mem'.trans.phase = mem.trans.phase
      /\ mem'.trans.proofs = mem.trans.proofs
      /\ mem'.trans.mapped \subseteq Files
      /\ rw' \in [Files -> Progress]
      /\ \A f \in Files : rw'[f] \in {"todo", "put", "check"} => f \in mem'.trans.mapped
      /\ (disk' = mem' /\ Goes("a", "rewrite")) \/ (disk' = disk /\ Goes("a", "off"))
  <2> DEFINE live == Live(mem.trans.ref)
             t == [mem.trans EXCEPT !.mapped = live,
                                    !.dels = {f \in Files : mem.trans.source[f] # Nil}]
  <2>1. /\ t \in Transitions /\ t.phase = mem.trans.phase /\ t.mapped = live
        /\ t.proofs = mem.trans.proofs /\ live \subseteq Files
    BY DEF IInv, Typed, TypedOwner, Stores, Transitions, Live
  <2>2. /\ mem' = Trans(t) /\ Counts
        /\ \/ disk' = Trans(t) /\ Goes("a", "rewrite")
           \/ disk' = disk /\ Goes("a", "off")
    BY PersistsAt DEF Resolve, IInv, Steps, Running
  <2>3. Trans(t) \in Stores /\ Trans(t).trans = t /\ Trans(t).mode = mem.mode
    BY <2>1, Stored DEF IInv
  <2>4. rw' = [f \in Files |-> IF f \in live THEN "todo" ELSE "done"]
    BY DEF Resolve
  <2> HIDE DEF t, live
  <2>5. /\ rw' \in [Files -> Progress]
        /\ \A f \in Files : rw'[f] \in {"todo", "put", "check"} => f \in live
    BY <2>4 DEF Progress
  <2> QED
    BY <2>1, <2>2, <2>3, <2>5 DEF Resolve, remote, ghosts
<1>2. /\ Source' = Source /\ Target' = Target
      /\ Source # Target /\ Source \in Modes /\ Target \in Modes
  BY <1>1, Codecs DEF IInv
<1>3. Typed'
  BY <1>1, <1>2 DEF IInv, Typed, TypedRemote, TypedOwner, TypedRest, Goes, Counts
<1>4. Epochs' /\ ManifestNamesCanonical' /\ Sourced' /\ NothingOldLeft' /\ LiveReadable'
  BY <1>1, <1>2
  DEF IInv, Epochs, ManifestNamesCanonical, Sourced, NothingOldLeft, Maintained,
      LiveReadable
<1>5. Control'
  BY <1>1, <1>2 DEF IInv, Control, Running, Cleanup, Goes
<1>6. Keys'
  BY <1>1, <1>2, Constants DEF IInv, Keys, Backward, Goes
<1>7. KeyKept'
  BY <1>1, <1>2, Constants DEF IInv, KeyKept, Keys
<1>8. Manifested'
  BY <1>1, <1>2 DEF IInv, Manifested, Goes
<1>9. Recorded'
  BY <1>1, <1>2 DEF IInv, Recorded, Rewriting, Control
<1>10. Rewriting'
  BY <1>1, <1>2 DEF IInv, Rewriting, Goes, Recorded, Control, Running, All
<1>11. Removing'
  BY <1>1, <1>2 DEF IInv, Removing, Goes
<1>12. Swept'
  BY <1>1, <1>2 DEF IInv, Swept, Verified, Goes
<1>13. Spares
  BY <1>1, <1>2 DEF Spares
<1> QED
  BY <1>3, <1>4, <1>5, <1>6, <1>7, <1>8, <1>9, <1>10, <1>11, <1>12, <1>13 DEF IInv

LEMMA ReadKeeps ==
  ASSUME IInv, NEW f \in Files, Read(f), work.a.pc = "rewrite", UNCHANGED <<work, moved>>,
         UNCHANGED <<kind, local>>
  PROVE  IInv' /\ Spares
<1>1. /\ UNCHANGED <<work, moved, raw, canon, manifest, hurt, swept, trampled>>
      /\ Counts
      /\ work.a.pc = "rewrite"
      /\ rw[f] = "todo"
      /\ mem' \in Stores /\ disk' \in Stores /\ mem'.mode = mem.mode
      /\ mem'.trans.phase = mem.trans.phase /\ mem'.trans.proofs = mem.trans.proofs
      /\ \A g \in Files : g # f => (g \in mem'.trans.mapped <=> g \in mem.trans.mapped)
         /\ mem'.trans.ref[g] = mem.trans.ref[g]
      /\ disk' = mem' \/ disk' = disk
      /\ mem'.trans.mapped \subseteq mem.trans.mapped
      /\ rw' \in [Files -> Progress] /\ \A g \in Files : g # f => rw'[g] = rw[g]
      /\ rw'[f] \in {"done", "put", "failed"}
      /\ rw'[f] = "put" => f \in mem'.trans.mapped
  <2>1. /\ mem.trans \in Transitions /\ mem \in Stores /\ disk \in Stores
        /\ local[f] \in Contents /\ rw \in [Files -> Progress] /\ Nil \in Contents
    BY Numbers DEF IInv, Typed, TypedOwner, TypedRest, Stores
  <2>2. PICK t \in Transitions, state \in {"done", "put"} :
           /\ PersistFile(f, t, state)
           /\ t.phase = mem.trans.phase /\ t.proofs = mem.trans.proofs
           /\ t.mapped \subseteq mem.trans.mapped
           /\ \A g \in Files : g # f => /\ g \in t.mapped <=> g \in mem.trans.mapped
                                        /\ t.ref[g] = mem.trans.ref[g]
           /\ state = "put" => t.mapped = mem.trans.mapped
    <3>1. CASE local[f] = Nil
      <4> DEFINE t == [mem.trans EXCEPT !.ref[f] = Nil, !.mapped = @ \ {f}]
      <4>1. /\ t \in Transitions /\ t.phase = mem.trans.phase
            /\ t.proofs = mem.trans.proofs
            /\ t.mapped = mem.trans.mapped \ {f}
            /\ \A g \in Files : g # f => t.ref[g] = mem.trans.ref[g]
        BY <2>1 DEF Transitions
      <4>2. PersistFile(f, t, "done")
        BY <3>1 DEF Read
      <4> QED
        BY <4>1, <4>2
    <3>2. CASE local[f] # Nil
      <4> DEFINE t == [mem.trans EXCEPT !.ref[f] = local[f]]
      <4>1. /\ t \in Transitions /\ t.phase = mem.trans.phase
            /\ t.proofs = mem.trans.proofs
            /\ t.mapped = mem.trans.mapped
            /\ \A g \in Files : g # f => t.ref[g] = mem.trans.ref[g]
        BY <2>1 DEF Transitions
      <4>2. PersistFile(f, t, "put")
        BY <3>2 DEF Read
      <4> QED
        BY <4>1, <4>2
    <3> QED
      BY <3>1, <3>2
  <2>3. Trans(t) \in Stores /\ Trans(t).trans = t /\ Trans(t).mode = mem.mode
    BY Stored DEF IInv
  <2>4. /\ mem' = Trans(t)
        /\ \/ disk' = mem' /\ rw' = [rw EXCEPT ![f] = state] /\ UNCHANGED used
           \/ UNCHANGED disk /\ rw' = [rw EXCEPT ![f] = "failed"] /\ Fault
    BY <2>2 DEF PersistFile, Reached, Failed
  <2>5. Counts
    BY <2>4, Room1 DEF IInv
  <2>6. /\ rw' \in [Files -> Progress] /\ \A g \in Files : g # f => rw'[g] = rw[g]
        /\ rw'[f] \in {state, "failed"}
    BY <2>1, <2>4 DEF Progress
  <2>7. f \in mem.trans.mapped
    BY DEF IInv, Rewriting, Read
  <2> QED
    BY <2>1, <2>2, <2>3, <2>4, <2>5, <2>6, <2>7 DEF Read, remote, ghosts
<1>2. /\ Source' = Source /\ Target' = Target
      /\ Source # Target /\ Source \in Modes /\ Target \in Modes
  BY <1>1, Codecs DEF IInv
<1>3. Typed'
  BY <1>1, <1>2 DEF IInv, Typed, TypedRemote, TypedOwner, TypedWork, TypedRest, Counts
<1>4. Epochs' /\ Control' /\ Manifested' /\ ManifestNamesCanonical' /\ Sourced' /\ Swept'
      /\ NothingOldLeft' /\ LiveReadable'
  BY <1>1, <1>2
  DEF IInv, Epochs, Control, Manifested, ManifestNamesCanonical, Sourced, Swept,
      Verified, NothingOldLeft, Maintained, LiveReadable
<1>5. Keys'
  BY <1>1, <1>2, Constants DEF IInv, Keys
<1>6. KeyKept'
  BY <1>1, <1>2, Constants DEF IInv, KeyKept, Keys
<1>7. Recorded'
  BY <1>1, <1>2 DEF IInv, Typed, TypedOwner, Recorded, Rewriting, Stores, Transitions
<1>8. Rewriting'
  BY <1>1, <1>2 DEF IInv, Rewriting
<1>9. Removing'
  BY <1>1, <1>2 DEF IInv, Removing
<1>10. Spares
  BY <1>1, <1>2 DEF Spares
<1> QED
  BY <1>3, <1>4, <1>5, <1>6, <1>7, <1>8, <1>9, <1>10 DEF IInv

LEMMA PutKeeps ==
  ASSUME IInv, NEW f \in Files, Put(f), work.a.pc = "rewrite", UNCHANGED <<work, moved>>,
         UNCHANGED <<kind, local>>
  PROVE  IInv' /\ Spares
<1>1. /\ UNCHANGED <<work, moved, canon, manifest, mem, disk, swept, trampled>>
      /\ Counts
      /\ work.a.pc = "rewrite"
      /\ rw[f] = "put"
      /\ rw' \in [Files -> Progress] /\ rw'[f] = "check"
      /\ \A g \in Files : g # f => rw'[g] = rw[g]
      /\ raw' \in [Modes -> [All -> Contents]]
      /\ hurt' \subseteq hurt /\ \A g \in Files : g # f => (g \in hurt' <=> g \in hurt)
      /\ raw'[Source] = raw[Source]
      /\ \A g \in All : g # f => raw'[Target][g] = raw[Target][g]
      /\ raw'[Target][f] = mem.trans.ref[f]
         \/ (hurt' = hurt /\ raw'[Target][f] = raw[Target][f])
  <2>1. /\ rw \in [Files -> Progress] /\ f \in All /\ hurt \subseteq Files
        /\ raw \in [Modes -> [All -> Contents]] /\ mem.trans.ref[f] \in Contents
    BY DEF IInv, Typed, TypedRemote, TypedOwner, TypedRest, Stores, Transitions, All
  <2>2. Source \in Modes /\ Target \in Modes /\ Source # Target
    BY Codecs DEF IInv
  <2>3. Counts
    BY Room1 DEF IInv, Put
  <2>4. rw' \in [Files -> Progress] /\ rw'[f] = "check"
        /\ \A g \in Files : g # f => rw'[g] = rw[g]
    BY <2>1 DEF Put, Reached, Progress
  <2>5. CASE /\ raw' = [raw EXCEPT ![Target][f] = mem.trans.ref[f]]
             /\ hurt' = hurt \ {f}
    BY <2>1, <2>2, <2>3, <2>4, <2>5 DEF Put
  <2>6. CASE UNCHANGED <<raw, hurt>>
    BY <2>1, <2>2, <2>3, <2>4, <2>6 DEF Put
  <2> QED
    BY <2>5, <2>6 DEF Put
<1>2. /\ Source' = Source /\ Target' = Target
      /\ Source # Target /\ Source \in Modes /\ Target \in Modes
  BY <1>1, Codecs DEF IInv
<1>3. Typed'
  BY <1>1, <1>2 DEF IInv, Typed, TypedRemote, TypedOwner, TypedWork, TypedRest, Counts
<1>4. Epochs' /\ Control' /\ Keys' /\ KeyKept' /\ Manifested' /\ ManifestNamesCanonical'
  BY <1>1, <1>2
  DEF IInv, Epochs, Control, Keys, KeyKept, Manifested, ManifestNamesCanonical
<1>5. Sourced'
  BY <1>1, <1>2 DEF IInv, Sourced
<1>6. Recorded'
  BY <1>1, <1>2 DEF IInv, Recorded, Rewriting
<1>7. Rewriting'
  BY <1>1, <1>2 DEF IInv, Rewriting, All
<1>8. Removing'
  BY <1>1, <1>2 DEF IInv, Removing
<1>9. Swept'
  BY <1>1, <1>2 DEF IInv, Swept, Verified
<1>10. NothingOldLeft'
  BY <1>1, <1>2 DEF IInv, NothingOldLeft, Maintained
<1>11. LiveReadable'
  BY <1>1, <1>2 DEF IInv, LiveReadable, Live, Epochs, Control, Running, Sourced
<1>12. Spares
  BY <1>1, <1>2 DEF Spares
<1> QED
  BY <1>3, <1>4, <1>5, <1>6, <1>7, <1>8, <1>9, <1>10, <1>11, <1>12 DEF IInv

LEMMA CheckKeeps ==
  ASSUME IInv, NEW f \in Files, Check(f), work.a.pc = "rewrite",
         UNCHANGED <<work, moved>>, UNCHANGED <<kind, local>>
  PROVE  IInv' /\ Spares
<1>1. /\ UNCHANGED <<work, moved, raw, canon, manifest, hurt, swept, trampled>>
      /\ Counts
      /\ work.a.pc = "rewrite"
      /\ rw[f] = "check"
      /\ mem' \in Stores /\ disk' \in Stores /\ mem'.mode = mem.mode
      /\ mem'.trans.phase = mem.trans.phase /\ mem'.trans.mapped = mem.trans.mapped
      /\ mem'.trans.ref = mem.trans.ref
      /\ \A g \in Files : g # f => (g \in mem'.trans.proofs <=> g \in mem.trans.proofs)
      /\ f \in mem'.trans.proofs => raw[Target][f] = mem.trans.ref[f]
         \/ f \in mem.trans.proofs
      /\ disk' = mem' \/ disk' = disk
      /\ rw' \in [Files -> Progress] /\ \A g \in Files : g # f => rw'[g] = rw[g]
      /\ rw'[f] \in {"done", "failed"}
  BY Room1, Stored
  DEF IInv, Check, PersistFile, Reached, Failed, remote, ghosts, Typed, TypedOwner,
      Stores, Transitions, Progress
<1>2. /\ Source' = Source /\ Target' = Target
      /\ Source # Target /\ Source \in Modes /\ Target \in Modes
  BY <1>1, Codecs DEF IInv
<1>3. Typed'
  BY <1>1, <1>2 DEF IInv, Typed, TypedRemote, TypedOwner, TypedWork, TypedRest, Counts
<1>4. Epochs' /\ Control' /\ Manifested' /\ ManifestNamesCanonical' /\ Sourced' /\ Swept'
      /\ NothingOldLeft' /\ LiveReadable'
  BY <1>1, <1>2
  DEF IInv, Epochs, Control, Manifested, ManifestNamesCanonical, Sourced, Swept,
      Verified, NothingOldLeft, Maintained, LiveReadable
<1>5. Keys'
  BY <1>1, <1>2, Constants DEF IInv, Keys
<1>6. KeyKept'
  BY <1>1, <1>2, Constants DEF IInv, KeyKept, Keys
<1>7. Recorded'
  BY <1>1, <1>2 DEF IInv, Recorded
<1>8. Rewriting'
  BY <1>1, <1>2 DEF IInv, Rewriting
<1>9. Removing'
  BY <1>1, <1>2 DEF IInv, Removing
<1>10. Spares
  BY <1>1, <1>2 DEF Spares
<1> QED
  BY <1>3, <1>4, <1>5, <1>6, <1>7, <1>8, <1>9, <1>10 DEF IInv

LEMMA CopiedKeeps ==
  ASSUME IInv, Copied, UNCHANGED <<kind, local>>
  PROVE  IInv' /\ Spares
<1>1. /\ UNCHANGED <<raw, canon, manifest, hurt, swept, trampled>>
      /\ UNCHANGED moved
      /\ Counts
      /\ work.a.pc = "rewrite"
      /\ mem' \in Stores /\ disk' \in Stores /\ mem'.mode = mem.mode
      /\ mem'.trans.mapped = mem.trans.mapped /\ mem'.trans.ref = mem.trans.ref
      /\ mem' = mem \/ mem'.trans.phase # "none"
      /\ rw' \in [Files -> Progress]
      /\ \/ disk' = mem' /\ Goes("a", "forecast") /\ mem'.trans.phase # "none"
            /\ Live(mem.trans.ref) \subseteq mem.trans.proofs
         \/ disk' = disk /\ Goes("a", "off")
  <2>1. Untried \in [Files -> Progress] /\ mem \in Stores /\ disk \in Stores
    BY Constants DEF IInv, Typed, TypedOwner
  <2>2. CASE Uncopied
    BY <2>1, <2>2, Idles, Room1 DEF IInv, Copied, remote, ghosts
  <2>3. CASE ~Uncopied
    <3>1. /\ mem' = Phase("files-copied") /\ Counts
          /\ \/ disk' = Phase("files-copied") /\ Goes("a", "forecast")
             \/ disk' = disk /\ Goes("a", "off")
      BY <2>3, PersistsAt DEF IInv, Copied, Steps, Running
    <3>2. Live(mem.trans.ref) \subseteq mem.trans.proofs
      BY <2>3 DEF Uncopied, Live
    <3>3. /\ Phase("files-copied") \in Stores /\ Phase("files-copied").mode = mem.mode
          /\ Phase("files-copied").trans.phase = "files-copied"
          /\ Phase("files-copied").trans.mapped = mem.trans.mapped
          /\ Phase("files-copied").trans.ref = mem.trans.ref
      BY Phased DEF IInv, Phases, Before
    <3> QED
      BY <2>1, <3>1, <3>2, <3>3 DEF Copied, remote, ghosts
  <2> QED
    BY <2>2, <2>3
<1>2. /\ Source' = Source /\ Target' = Target
      /\ Source # Target /\ Source \in Modes /\ Target \in Modes
  BY <1>1, Codecs DEF IInv
<1>3. Typed'
  BY <1>1, <1>2 DEF IInv, Typed, TypedRemote, TypedOwner, TypedRest, Goes, Counts
<1>4. Epochs' /\ ManifestNamesCanonical' /\ Sourced' /\ NothingOldLeft' /\ LiveReadable'
  BY <1>1, <1>2
  DEF IInv, Epochs, ManifestNamesCanonical, Sourced, NothingOldLeft, Maintained,
      LiveReadable
<1>5. Control'
  BY <1>1, <1>2 DEF IInv, Control, Running, Cleanup, Goes
<1>6. Keys'
  BY <1>1, <1>2, Constants DEF IInv, Keys, Backward, Goes
<1>7. KeyKept'
  BY <1>1, <1>2, Constants DEF IInv, KeyKept, Keys
<1>8. Manifested'
  BY <1>1, <1>2 DEF IInv, Manifested, Goes
<1>9. Recorded'
  BY <1>1, <1>2 DEF IInv, Recorded
<1>10. Rewriting'
  BY <1>1, <1>2 DEF IInv, Rewriting, Goes, Live
<1>11. Removing'
  BY <1>1, <1>2 DEF IInv, Removing, Goes
<1>12. Swept'
  BY <1>1, <1>2 DEF IInv, Swept, Verified, Goes
<1>13. Spares
  BY <1>1, <1>2 DEF Spares
<1> QED
  BY <1>3, <1>4, <1>5, <1>6, <1>7, <1>8, <1>9, <1>10, <1>11, <1>12, <1>13 DEF IInv

LEMMA ForecastKeeps ==
  ASSUME IInv, Forecast, UNCHANGED <<kind, local>>
  PROVE  IInv' /\ Spares
<1>1. /\ UNCHANGED <<raw, canon, mem, disk, rw, hurt, swept, trampled, moved>>
      /\ Counts
      /\ work.a.pc = "forecast"
      /\ manifest' \in Manifests /\ manifest'.state = "transition"
      /\ Goes("a", "off") \/ Goes("a", "commit")
  BY Published, AnswersAt
  DEF IInv, Forecast, Phases, Committed, Steps, Running, owner, ghosts
<1>2. /\ Source' = Source /\ Target' = Target
      /\ Source # Target /\ Source \in Modes /\ Target \in Modes
  BY <1>1, Codecs DEF IInv
<1>3. Typed'
  BY <1>1, <1>2 DEF IInv, Typed, TypedRemote, TypedOwner, TypedRest, Goes, Counts
<1>4. Epochs' /\ KeyKept' /\ Sourced' /\ Recorded' /\ NothingOldLeft' /\ LiveReadable'
  BY <1>1, <1>2
  DEF IInv, Epochs, KeyKept, Sourced, Recorded, NothingOldLeft, Maintained,
      LiveReadable
<1>5. Control'
  BY <1>1, <1>2 DEF IInv, Control, Running, Cleanup, Goes
<1>6. Keys'
  BY <1>1, <1>2 DEF IInv, Keys, Backward, Goes
<1>7. Manifested'
  BY <1>1, <1>2 DEF IInv, Manifested
<1>8. ManifestNamesCanonical'
  BY <1>1, <1>2 DEF IInv, ManifestNamesCanonical, Epochs, Control, Running
<1>9. Rewriting'
  BY <1>1, <1>2 DEF IInv, Rewriting, Goes
<1>10. Removing'
  BY <1>1, <1>2 DEF IInv, Removing, Goes
<1>11. Swept'
  BY <1>1, <1>2 DEF IInv, Swept, Verified, Goes
<1>12. Spares
  BY <1>1, <1>2 DEF Spares
<1> QED
  BY <1>3, <1>4, <1>5, <1>6, <1>7, <1>8, <1>9, <1>10, <1>11, <1>12 DEF IInv

LEMMA CommitKeeps ==
  ASSUME IInv, Commit, UNCHANGED <<kind, local>>
  PROVE  IInv' /\ Spares
<1>1. /\ UNCHANGED <<raw, manifest, mem, disk, rw, hurt, swept, trampled, moved>>
      /\ Counts
      /\ work.a.pc = "commit"
      /\ canon' \in Indexes
      /\ \/ canon' = canon /\ Goes("a", "off")
         \/ /\ canon'.mode = Target /\ canon'.epoch = "e1"
            /\ canon'.phase = "index-committed" /\ canon'.files = mem.trans.ref
            /\ Goes("a", "off")
               \/ (Goes("a", "note") /\ work'.a.held.phase = "index-committed")
  <2>1. CASE ~Holds("a") \/ canon.epoch # "e0"
    BY <2>1, Aborts DEF IInv, Typed, TypedRemote, Commit
  <2>2. CASE ~(~Holds("a") \/ canon.epoch # "e0")
    <3> DEFINE w == [At("a", "note") EXCEPT
                       !.held = [phase |-> "index-committed", dels |-> mem.trans.dels]]
    <3>1. mem.trans \in Transitions /\ Target \in Modes
      BY Codecs DEF IInv, Typed, TypedOwner, Stores
    <3>2. w \in Works /\ w.pc = "note" /\ w.held.phase = "index-committed"
      BY <3>1, Places DEF IInv, Works, Holdings, Transitions, Phases, Committed, Steps
    <3>3. Answer("a", w)
      BY <2>2 DEF Commit
    <3>4. Counts /\ (Goes("a", "off") \/ (Goes("a", "note") /\ work'.a = w))
      BY <3>2, <3>3, Answers DEF IInv
    <3>5. /\ canon' \in Indexes /\ canon'.mode = Target /\ canon'.epoch = "e1"
          /\ canon'.phase = "index-committed" /\ canon'.files = mem.trans.ref
      BY <2>2, <3>1 DEF Commit, Indexes, Transitions, Committed
    <3> HIDE DEF w
    <3> QED
      BY <2>2, <3>2, <3>4, <3>5 DEF Commit, owner, ghosts
  <2> QED
    BY <2>1, <2>2
<1>2. /\ Source' = Source /\ Target' = Target
      /\ Source # Target /\ Source \in Modes /\ Target \in Modes
  BY <1>1, Codecs DEF IInv
<1>3. Typed'
  BY <1>1, <1>2 DEF IInv, Typed, TypedRemote, TypedOwner, TypedRest, Goes, Counts
<1>4. Epochs'
  BY <1>1, <1>2 DEF IInv, Epochs, Committed
<1>5. Control'
  BY <1>1, <1>2 DEF IInv, Control, Running, Backward, Committed, Goes
<1>6. Keys'
  BY <1>1, <1>2 DEF IInv, Keys, Backward, Goes
<1>7. KeyKept'
  BY <1>1, <1>2, Constants DEF IInv, KeyKept, Keys
<1>8. Manifested'
  BY <1>1, <1>2 DEF IInv, Manifested
<1>9. ManifestNamesCanonical'
  BY <1>1, <1>2 DEF IInv, ManifestNamesCanonical, Manifested
<1>10. Sourced'
  BY <1>1, <1>2 DEF IInv, Sourced
<1>11. Recorded'
  BY <1>1, <1>2 DEF IInv, Recorded
<1>12. Rewriting'
  BY <1>1, <1>2 DEF IInv, Rewriting, Goes
<1>13. Removing'
  BY <1>1, <1>2 DEF IInv, Removing, Goes
<1>14. Swept'
  BY <1>1, <1>2 DEF IInv, Swept, Verified, Goes
<1>15. NothingOldLeft'
  BY <1>1, <1>2 DEF IInv, NothingOldLeft, Maintained
<1>16. LiveReadable'
  BY <1>1, <1>2 DEF IInv, LiveReadable, Rewriting, Control, Epochs
<1>17. Spares
  BY <1>1, <1>2 DEF Spares
<1> QED
  BY <1>3, <1>4, <1>5, <1>6, <1>7, <1>8, <1>9, <1>10, <1>11, <1>12, <1>13, <1>14,
     <1>15, <1>16, <1>17
  DEF IInv

LEMMA NoteKeeps ==
  ASSUME IInv, Note, UNCHANGED <<kind, local>>
  PROVE  IInv' /\ Spares
<1>1. /\ UNCHANGED <<raw, canon, manifest, hurt, swept, trampled>>
      /\ UNCHANGED <<rw, moved>>
      /\ Counts
      /\ work.a.pc = "note"
      /\ mem' \in Stores /\ mem'.mode = mem.mode /\ mem'.trans.mapped = mem.trans.mapped
      /\ mem'.trans.phase = "index-committed"
      /\ (disk' = mem' /\ Goes("a", "confirm") /\ SameLoad("a"))
         \/ (disk' = disk /\ Goes("a", "off"))
  BY PersistsAt, Phased DEF IInv, Note, Steps, Phases, Committed, remote, ghosts
<1>2. /\ Source' = Source /\ Target' = Target
      /\ Source # Target /\ Source \in Modes /\ Target \in Modes
  BY <1>1, Codecs DEF IInv
<1>3. Typed'
  BY <1>1, <1>2 DEF IInv, Typed, TypedRemote, TypedOwner, TypedRest, Goes, Counts
<1>4. Epochs' /\ ManifestNamesCanonical' /\ Sourced' /\ NothingOldLeft' /\ LiveReadable'
  BY <1>1, <1>2
  DEF IInv, Epochs, ManifestNamesCanonical, Sourced, NothingOldLeft, Maintained,
      LiveReadable
<1>5. Control'
  BY <1>1, <1>2 DEF IInv, Control, Running, Cleanup, Backward, Goes, SameLoad
<1>6. Keys'
  BY <1>1, <1>2, Constants DEF IInv, Keys, Backward, Goes
<1>7. KeyKept'
  BY <1>1, <1>2, Constants DEF IInv, KeyKept, Keys
<1>8. Manifested'
  BY <1>1, <1>2 DEF IInv, Manifested, Goes
<1>9. Recorded'
  BY <1>1, <1>2 DEF IInv, Recorded
<1>10. Rewriting'
  BY <1>1, <1>2 DEF IInv, Rewriting, Goes
<1>11. Removing'
  BY <1>1, <1>2 DEF IInv, Removing, Goes
<1>12. Swept'
  BY <1>1, <1>2 DEF IInv, Swept, Verified, Goes
<1>13. Spares
  BY <1>1, <1>2 DEF Spares
<1> QED
  BY <1>3, <1>4, <1>5, <1>6, <1>7, <1>8, <1>9, <1>10, <1>11, <1>12, <1>13 DEF IInv

LEMMA ConfirmKeeps ==
  ASSUME IInv, Confirm, UNCHANGED <<kind, local>>
  PROVE  IInv' /\ Spares
<1>1. /\ UNCHANGED <<raw, canon, mem, disk, rw, hurt, swept, moved>>
      /\ Counts
      /\ work.a.pc = "confirm"
      /\ manifest' \in Manifests /\ manifest'.state = "transition"
      /\ trampled' \in BOOLEAN
      /\ trampled' \/ (canon.phase # "none" /\ trampled' = trampled)
      /\ Goes("a", "off") \/ (Goes("a", "stable") /\ SameLoad("a"))
  BY Published, AnswersAt
  DEF IInv, Confirm, Maintained, Phases, Committed, Steps, Cleanup, owner, Typed,
      TypedRest
<1>2. /\ Source' = Source /\ Target' = Target
      /\ Source # Target /\ Source \in Modes /\ Target \in Modes
  BY <1>1, Codecs DEF IInv
<1>3. Typed'
  BY <1>1, <1>2 DEF IInv, Typed, TypedRemote, TypedOwner, TypedRest, Goes, Counts
<1>4. Epochs' /\ KeyKept' /\ Sourced' /\ Recorded' /\ NothingOldLeft' /\ LiveReadable'
  BY <1>1, <1>2
  DEF IInv, Epochs, KeyKept, Sourced, Recorded, NothingOldLeft, Maintained,
      LiveReadable
<1>5. Control'
  BY <1>1, <1>2 DEF IInv, Control, Running, Cleanup, Backward, Goes, SameLoad
<1>6. Keys'
  BY <1>1, <1>2 DEF IInv, Keys, Backward, Goes
<1>7. Manifested'
  BY <1>1, <1>2 DEF IInv, Manifested
<1>8. ManifestNamesCanonical'
  BY <1>1, <1>2
  DEF IInv, Typed, TypedRemote, ManifestNamesCanonical, Epochs, Control, Indexes
<1>9. Rewriting'
  BY <1>1, <1>2 DEF IInv, Rewriting, Goes
<1>10. Removing'
  BY <1>1, <1>2 DEF IInv, Removing, Goes
<1>11. Swept'
  BY <1>1, <1>2 DEF IInv, Swept, Verified, Goes
<1>12. Spares
  BY <1>1, <1>2 DEF Spares
<1> QED
  BY <1>3, <1>4, <1>5, <1>6, <1>7, <1>8, <1>9, <1>10, <1>11, <1>12 DEF IInv

-----------------------------------------------------------------------------
(* The cleanup, by the owner and by the helper. *)

LEMMA CheckStableKeeps ==
  ASSUME IInv, NEW d \in {"a", "b"}, CheckStable(d), UNCHANGED <<kind, local>>
  PROVE  IInv' /\ Spares
<1>1. /\ UNCHANGED <<raw, canon, manifest, mem, disk, rw, hurt, swept, trampled, moved>>
      /\ Counts
      /\ work[d].pc = "stable"
      /\ Goes(d, "off") \/ (Goes(d, "publish") /\ SameLoad(d))
  BY Aborts, Room1, Turns, Places
  DEF IInv, CheckStable, Steps, Cleanup, remote, owner, ghosts, SameLoad
<1>2. /\ Source' = Source /\ Target' = Target
      /\ Source # Target /\ Source \in Modes /\ Target \in Modes
  BY <1>1, Codecs DEF IInv
<1>3. Typed'
  BY <1>1, <1>2 DEF IInv, Typed, TypedRemote, TypedOwner, TypedRest, Goes, Counts
<1>4. Epochs' /\ KeyKept' /\ ManifestNamesCanonical' /\ Sourced' /\ Recorded'
      /\ NothingOldLeft' /\ LiveReadable'
  BY <1>1, <1>2
  DEF IInv, Epochs, KeyKept, ManifestNamesCanonical, Sourced, Recorded,
      NothingOldLeft, Maintained, LiveReadable
<1>5. Control'
  BY <1>1, <1>2 DEF IInv, Control, Running, Cleanup, Backward, Goes, SameLoad
<1>6. Keys'
  BY <1>1, <1>2 DEF IInv, Keys, Cleanup, Backward, Goes
<1>7. Manifested'
  BY <1>1, <1>2 DEF IInv, Manifested, Goes
<1>8. Rewriting'
  BY <1>1, <1>2 DEF IInv, Rewriting, Goes
<1>9. Removing'
  BY <1>1, <1>2 DEF IInv, Removing, Goes
<1>10. Swept'
  BY <1>1, <1>2 DEF IInv, Swept, Verified, Goes
<1>11. Spares
  BY <1>1, <1>2 DEF Spares
<1> QED
  BY <1>3, <1>4, <1>5, <1>6, <1>7, <1>8, <1>9, <1>10, <1>11 DEF IInv

LEMMA PublishStableKeeps ==
  ASSUME IInv, NEW d \in {"a", "b"}, PublishStable(d), UNCHANGED <<kind, local>>
  PROVE  IInv' /\ Spares
<1>1. /\ UNCHANGED <<raw, canon, mem, disk, rw, hurt, swept, moved>>
      /\ Counts
      /\ work[d].pc = "publish"
      /\ manifest' \in Manifests
      /\ manifest' = Stable(Target)
      /\ trampled' \in BOOLEAN
      /\ trampled' \/ canon.phase = work[d].held.phase
      /\ Goes(d, "off") \/ (Goes(d, "cleanup") /\ SameLoad(d))
  <2>1. Stable(Target) \in Manifests
    BY Published, Constants, Codecs DEF IInv
  <2>2. Counts /\ (Goes(d, "off") \/ (Goes(d, "cleanup") /\ SameLoad(d)))
    BY AnswersAt DEF PublishStable, IInv, Steps, Cleanup
  <2>3. trampled' \in BOOLEAN /\ (trampled' \/ canon.phase = work[d].held.phase)
    <3>1. trampled \in BOOLEAN
      BY DEF IInv, Typed, TypedRest
    <3>2. Holds(d) => canon.phase = work[d].held.phase
      BY DEF Holds, Authority
    <3> QED
      BY <3>1, <3>2 DEF PublishStable
  <2> QED
    BY <2>1, <2>2, <2>3 DEF PublishStable, owner
<1>2. /\ Source' = Source /\ Target' = Target
      /\ Source # Target /\ Source \in Modes /\ Target \in Modes
  BY <1>1, Codecs DEF IInv
<1>3. Typed'
  BY <1>1, <1>2 DEF IInv, Typed, TypedRemote, TypedOwner, TypedRest, Goes, Counts
<1>4. Epochs' /\ KeyKept' /\ Sourced' /\ Recorded' /\ NothingOldLeft' /\ LiveReadable'
  BY <1>1, <1>2
  DEF IInv, Epochs, KeyKept, Sourced, Recorded, NothingOldLeft, Maintained,
      LiveReadable
<1>5. Control'
  BY <1>1, <1>2 DEF IInv, Control, Running, Cleanup, Backward, Goes, SameLoad
<1>6. Keys'
  BY <1>1, <1>2 DEF IInv, Keys, Cleanup, Backward, Goes
<1>7. Manifested'
  BY <1>1, <1>2 DEF IInv, Manifested, Goes, Control, Running
<1>8. ManifestNamesCanonical'
  BY <1>1, <1>2, Published, Constants
  DEF IInv, Typed, TypedRemote, ManifestNamesCanonical, Epochs, Control, Cleanup,
      Committed, Indexes
<1>9. Rewriting'
  BY <1>1, <1>2 DEF IInv, Rewriting, Goes
<1>10. Removing'
  BY <1>1, <1>2 DEF IInv, Removing, Goes
<1>11. Swept'
  BY <1>1, <1>2 DEF IInv, Swept, Verified, Goes
<1>12. Spares
  BY <1>1, <1>2 DEF Spares
<1> QED
  BY <1>3, <1>4, <1>5, <1>6, <1>7, <1>8, <1>9, <1>10, <1>11, <1>12 DEF IInv

LEMMA ToCleanupKeeps ==
  ASSUME IInv, NEW d \in {"a", "b"}, ToCleanup(d), UNCHANGED <<kind, local>>
  PROVE  IInv' /\ Spares
<1>1. /\ UNCHANGED <<raw, manifest, rw, hurt, swept, trampled, moved>>
      /\ Counts
      /\ work[d].pc = "cleanup"
      /\ canon' \in Indexes /\ canon'.mode = canon.mode /\ canon'.epoch = canon.epoch
      /\ canon'.files = canon.files
      /\ mem' \in Stores /\ mem'.mode = mem.mode /\ mem'.trans.mapped = mem.trans.mapped
      /\ disk' \in Stores
      /\ d = "b" => mem' = mem /\ disk' = disk
      /\ \/ canon' = canon /\ mem' = mem /\ disk' = disk /\ Goes(d, "off")
         \/ /\ canon.phase = work[d].held.phase /\ canon'.phase = "cleanup"
            /\ d = "a" => mem'.trans.phase = "cleanup"
            /\ \/ d = "a" /\ disk' = mem' /\ Goes(d, "sweep")
                  /\ work'[d].held.phase = "cleanup"
               \/ d = "b" /\ disk' = disk /\ Goes(d, "sweep")
                  /\ work'[d].held.phase = "cleanup"
               \/ disk' = disk /\ Goes(d, "off")
  <2>0. mem \in Stores /\ disk \in Stores /\ canon \in Indexes
    BY DEF IInv, Typed, TypedRemote, TypedOwner
  <2>1. CASE ~Holds(d)
    BY <2>0, <2>1, Aborts DEF IInv, ToCleanup
  <2>2. CASE Holds(d)
    <3> DEFINE dels == IF d = "a" THEN mem.trans.dels ELSE canon.dels
    <3>1. dels \in SUBSET Files
      BY <2>0 DEF Stores, Transitions, Indexes
    <3>2. /\ Cleaning(d, dels) \in Works /\ Cleaning(d, dels).pc = "sweep"
          /\ Cleaning(d, dels).held.phase = "cleanup"
      BY <3>1, Places
      DEF IInv, Cleaning, Works, Holdings, Phases, Committed, Steps, Cleanup
    <3>3. canon' = [canon EXCEPT !.phase = "cleanup", !.dels = dels]
      BY <2>2 DEF ToCleanup
    <3>4. /\ canon' \in Indexes /\ canon'.mode = canon.mode /\ canon'.epoch = canon.epoch
          /\ canon'.files = canon.files /\ canon'.phase = "cleanup"
      BY <2>0, <3>1, <3>3 DEF Indexes, Committed
    <3>5. canon.phase = work[d].held.phase
      BY <2>2 DEF Holds, Authority
    <3>6. /\ IF d = "a" THEN Persist(Phase("cleanup"), Cleaning(d, dels))
                        ELSE Answer(d, Cleaning(d, dels)) /\ UNCHANGED <<mem, disk>>
          /\ UNCHANGED <<raw, manifest, rw, hurt, swept, trampled, moved>>
      BY <2>2 DEF ToCleanup, ghosts
    <3> HIDE DEF dels
    <3>7. CASE d = "a"
      <4>1. /\ mem' = Phase("cleanup") /\ Counts
            /\ \/ disk' = Phase("cleanup") /\ Goes("a", "sweep")
                  /\ work'.a = Cleaning(d, dels)
               \/ disk' = disk /\ Goes("a", "off")
        BY <3>2, <3>6, <3>7, Persists DEF IInv
      <4>2. /\ Phase("cleanup") \in Stores /\ Phase("cleanup").mode = mem.mode
            /\ Phase("cleanup").trans.phase = "cleanup"
            /\ Phase("cleanup").trans.mapped = mem.trans.mapped
        BY Phased DEF IInv, Phases, Committed
      <4> QED
        BY <2>0, <3>2, <3>4, <3>5, <3>6, <3>7, <4>1, <4>2 DEF ToCleanup
    <3>8. CASE d = "b"
      <4>1. Counts /\ (Goes("b", "off")
                       \/ (Goes("b", "sweep") /\ work'.b = Cleaning(d, dels)))
        BY <3>2, <3>6, <3>8, Answers DEF IInv
      <4> QED
        BY <2>0, <3>2, <3>4, <3>5, <3>6, <3>8, <4>1 DEF ToCleanup
    <3> QED
      BY <3>7, <3>8
  <2> QED
    BY <2>1, <2>2
<1>2. /\ Source' = Source /\ Target' = Target
      /\ Source # Target /\ Source \in Modes /\ Target \in Modes
  BY <1>1, Codecs DEF IInv
<1>3. Typed'
  BY <1>1, <1>2 DEF IInv, Typed, TypedRemote, TypedOwner, TypedRest, Goes, Counts
<1>4. Epochs'
  BY <1>1, <1>2 DEF IInv, Epochs, Control, Cleanup, Committed
<1>5. Control'
  BY <1>1, <1>2 DEF IInv, Control, Running, Cleanup, Backward, Goes
<1>6. Keys'
  BY <1>1, <1>2, Constants DEF IInv, Keys, Cleanup, Backward, Goes
<1>7. KeyKept'
  BY <1>1, <1>2, Constants DEF IInv, KeyKept, Keys
<1>8. Manifested'
  BY <1>1, <1>2 DEF IInv, Manifested, Goes
<1>9. ManifestNamesCanonical'
  BY <1>1, <1>2 DEF IInv, ManifestNamesCanonical
<1>10. Sourced'
  BY <1>1, <1>2 DEF IInv, Sourced
<1>11. Recorded'
  BY <1>1, <1>2 DEF IInv, Recorded
<1>12. Rewriting'
  BY <1>1, <1>2 DEF IInv, Rewriting, Goes
<1>13. Removing'
  BY <1>1, <1>2 DEF IInv, Removing, Goes
<1>14. Swept'
  BY <1>1, <1>2 DEF IInv, Swept, Verified, Goes
<1>15. NothingOldLeft'
  BY <1>1, <1>2 DEF IInv, NothingOldLeft, Maintained
<1>16. LiveReadable'
  BY <1>1, <1>2 DEF IInv, LiveReadable
<1>17. Spares
  BY <1>1, <1>2 DEF Spares
<1> QED
  BY <1>3, <1>4, <1>5, <1>6, <1>7, <1>8, <1>9, <1>10, <1>11, <1>12, <1>13, <1>14,
     <1>15, <1>16, <1>17
  DEF IInv

LEMMA SweepKeeps ==
  ASSUME IInv, NEW d \in {"a", "b"}, Sweep(d), UNCHANGED <<kind, local>>
  PROVE  IInv' /\ Spares
<1>1. /\ UNCHANGED <<raw, manifest, rw, hurt, trampled, moved>>
      /\ Counts
      /\ work[d].pc = "sweep"
      /\ canon' \in Indexes /\ canon'.mode = canon.mode /\ canon'.epoch = canon.epoch
      /\ canon'.files = canon.files
      /\ canon'.phase = canon.phase
      /\ mem' \in Stores /\ mem'.mode = mem.mode /\ disk' \in Stores
      /\ mem'.trans.phase = mem.trans.phase /\ mem'.trans.mapped = mem.trans.mapped
      /\ swept' \in [{"a", "b", "end"} -> SUBSET Files]
      /\ \A e \in {"a", "b", "end"} : e # d => swept'[e] = swept[e]
      /\ (disk' = disk /\ mem' = mem)
         \/ (d = "a" /\ mem'.trans.phase # "none" /\ disk' = mem')
            \/ (d = "a" /\ mem'.trans.phase # "none" /\ disk' = disk)
      /\ Goes(d, "off") \/ (Goes(d, "purge") /\ work'[d].held.phase = work[d].held.phase
                            /\ work'[d].found = Found)
  <2>0. /\ mem \in Stores /\ disk \in Stores /\ canon \in Indexes
        /\ swept \in [{"a", "b", "end"} -> SUBSET Files] /\ work[d] \in Works
    BY DEF IInv, Typed, TypedRemote, TypedOwner, TypedRest, TypedWork
  <2> DEFINE dels == IF Found = {} THEN canon.dels ELSE Found
             o == At(d, "purge")
             w == [o EXCEPT !.found = Found, !.todo = Found, !.held.dels = dels]
             t == [mem.trans EXCEPT !.dels = dels]
  <2>1. CASE ~Holds(d) \/ (d = "b" /\ ~Found \subseteq canon.dels)
    BY <2>0, <2>1, Aborts DEF IInv, Sweep
  <2>2. CASE ~(~Holds(d) \/ (d = "b" /\ ~Found \subseteq canon.dels))
    <3>1. dels \in SUBSET Files /\ Found \in SUBSET Files
      BY <2>0 DEF Indexes, Found
    <3>2. /\ w \in Works /\ w.pc = "purge" /\ w.held.phase = work[d].held.phase
          /\ w.found = Found
      <4>1. o \in Works /\ o.pc = "purge" /\ o.held = work[d].held
        BY Places DEF IInv, Steps, Cleanup
      <4> HIDE DEF dels, o
      <4> QED
        BY <3>1, <4>1 DEF Works, Holdings
    <3>3. /\ canon' = [canon EXCEPT !.dels = dels]
          /\ swept' = [swept EXCEPT ![d] = {}]
          /\ IF d = "a" /\ dels # canon.dels
             THEN Persist(Trans(t), w)
             ELSE Answer(d, w) /\ UNCHANGED <<mem, disk>>
          /\ UNCHANGED <<raw, manifest, rw, hurt, trampled, moved>>
      BY <2>2 DEF Sweep
    <3>4. /\ t \in Transitions /\ t.phase = mem.trans.phase /\ t.mapped = mem.trans.mapped
      BY <2>0, <3>1 DEF Stores, Transitions
    <3>5. Trans(t) \in Stores /\ Trans(t).trans = t /\ Trans(t).mode = mem.mode
      BY <3>4, Stored DEF IInv
    <3>6. /\ canon' \in Indexes /\ canon'.mode = canon.mode /\ canon'.epoch = canon.epoch
          /\ canon'.files = canon.files /\ canon'.phase = canon.phase
      BY <2>0, <3>1, <3>3 DEF Indexes
    <3>7. /\ swept' \in [{"a", "b", "end"} -> SUBSET Files]
          /\ \A e \in {"a", "b", "end"} : e # d => swept'[e] = swept[e]
      BY <2>0, <3>3
    <3> HIDE DEF dels, o, w, t
    <3>8. CASE d = "a" /\ dels # canon.dels
      <4>1. /\ mem' = Trans(t) /\ Counts
            /\ \/ disk' = Trans(t) /\ Goes("a", "purge") /\ work'.a = w
               \/ disk' = disk /\ Goes("a", "off")
        BY <3>2, <3>3, <3>8, Persists DEF IInv
      <4>2. mem.trans.phase # "none"
        BY <3>8 DEF IInv, Keys, Sweep
      <4> QED
        BY <2>0, <3>2, <3>3, <3>4, <3>5, <3>6, <3>7, <3>8, <4>1, <4>2 DEF Sweep
    <3>9. CASE ~(d = "a" /\ dels # canon.dels)
      <4>1. Counts /\ (Goes(d, "off") \/ (Goes(d, "purge") /\ work'[d] = w))
        BY <3>2, <3>3, <3>9, Answers DEF IInv
      <4> QED
        BY <2>0, <3>2, <3>3, <3>6, <3>7, <3>9, <4>1 DEF Sweep
    <3> QED
      BY <3>8, <3>9
  <2> QED
    BY <2>1, <2>2
<1>2. /\ Source' = Source /\ Target' = Target
      /\ Source # Target /\ Source \in Modes /\ Target \in Modes
  BY <1>1, Codecs DEF IInv
<1>3. Typed'
  BY <1>1, <1>2 DEF IInv, Typed, TypedRemote, TypedOwner, TypedRest, Goes, Counts
<1>4. Epochs'
  BY <1>1, <1>2 DEF IInv, Epochs
<1>5. Control'
  BY <1>1, <1>2 DEF IInv, Control, Running, Cleanup, Backward, Goes
<1>6. Keys'
  BY <1>1, <1>2, Constants DEF IInv, Keys, Cleanup, Backward, Goes
<1>7. KeyKept'
  BY <1>1, <1>2, Constants DEF IInv, KeyKept, Keys
<1>8. Manifested'
  BY <1>1, <1>2 DEF IInv, Manifested, Goes
<1>9. ManifestNamesCanonical'
  BY <1>1, <1>2 DEF IInv, ManifestNamesCanonical
<1>10. Sourced'
  BY <1>1, <1>2 DEF IInv, Sourced
<1>11. Recorded'
  BY <1>1, <1>2 DEF IInv, Recorded
<1>12. Rewriting'
  BY <1>1, <1>2 DEF IInv, Rewriting, Goes
<1>13. Removing'
  BY <1>1, <1>2 DEF IInv, Removing, Goes
<1>14. Swept'
  BY <1>1, <1>2 DEF IInv, Swept, Verified, Goes, Found
<1>15. NothingOldLeft'
  BY <1>1, <1>2 DEF IInv, NothingOldLeft, Maintained
<1>16. LiveReadable'
  BY <1>1, <1>2 DEF IInv, LiveReadable
<1>17. Spares
  BY <1>1, <1>2 DEF Spares
<1> QED
  BY <1>3, <1>4, <1>5, <1>6, <1>7, <1>8, <1>9, <1>10, <1>11, <1>12, <1>13, <1>14,
     <1>15, <1>16, <1>17
  DEF IInv

\* A run of the owner or of the helper ends early.
LEMMA AbortKeeps ==
  ASSUME IInv, NEW d \in {"a", "b"}, Abort(d), UNCHANGED <<kind, local>>
  PROVE  IInv' /\ Spares
<1>1. /\ UNCHANGED <<raw, canon, manifest, mem, disk, rw, hurt, swept, trampled, moved>>
      /\ Counts
      /\ Goes(d, "off")
  BY Aborts DEF IInv
<1>2. /\ Source' = Source /\ Target' = Target
      /\ Source # Target /\ Source \in Modes /\ Target \in Modes
  BY <1>1, Codecs DEF IInv
<1>3. Typed'
  BY <1>1, <1>2 DEF IInv, Typed, TypedRemote, TypedOwner, TypedRest, Goes, Counts
<1>4. Epochs' /\ KeyKept' /\ ManifestNamesCanonical' /\ Sourced' /\ Recorded'
      /\ NothingOldLeft' /\ LiveReadable'
  BY <1>1, <1>2
  DEF IInv, Epochs, KeyKept, ManifestNamesCanonical, Sourced, Recorded,
      NothingOldLeft, Maintained, LiveReadable
<1>5. Control'
  BY <1>1, <1>2 DEF IInv, Control, Running, Cleanup, Backward, Goes
<1>6. Keys'
  BY <1>1, <1>2 DEF IInv, Keys, Cleanup, Backward, Goes
<1>7. Manifested'
  BY <1>1, <1>2 DEF IInv, Manifested, Goes
<1>8. Rewriting'
  BY <1>1, <1>2 DEF IInv, Rewriting, Goes
<1>9. Removing'
  BY <1>1, <1>2 DEF IInv, Removing, Goes
<1>10. Swept'
  BY <1>1, <1>2 DEF IInv, Swept, Verified, Goes
<1>11. Spares
  BY <1>1, <1>2 DEF Spares
<1> QED
  BY <1>3, <1>4, <1>5, <1>6, <1>7, <1>8, <1>9, <1>10, <1>11 DEF IInv

\* A cleanup that goes on with its removals touches nothing else.
LEMMA PurgingKeeps ==
  ASSUME IInv, NEW d \in {"a", "b"}, NEW w \in Works, Become(d, w),
         work[d].pc = "purge", w.pc = "purge", w.held = work[d].held,
         w.found = work[d].found,
         UNCHANGED <<kind, local, raw, canon, manifest, mem, disk, rw, hurt, swept,
                     trampled, moved, used>>
  PROVE  IInv' /\ Spares
<1>1. /\ UNCHANGED <<raw, canon, manifest, mem, disk, rw, hurt, swept, trampled, moved>>
      /\ Counts
      /\ Goes(d, "purge") /\ work'[d].held = work[d].held /\ work'[d].found = work[d].found
  BY Turns, Room1 DEF IInv
<1>2. /\ Source' = Source /\ Target' = Target
      /\ Source # Target /\ Source \in Modes /\ Target \in Modes
  BY <1>1, Codecs DEF IInv
<1>3. Typed'
  BY <1>1, <1>2 DEF IInv, Typed, TypedRemote, TypedOwner, TypedRest, Goes, Counts
<1>4. Epochs' /\ KeyKept' /\ ManifestNamesCanonical' /\ Sourced' /\ Recorded'
      /\ NothingOldLeft' /\ LiveReadable'
  BY <1>1, <1>2
  DEF IInv, Epochs, KeyKept, ManifestNamesCanonical, Sourced, Recorded,
      NothingOldLeft, Maintained, LiveReadable
<1>5. Control'
  BY <1>1, <1>2 DEF IInv, Control, Running, Cleanup, Backward, Goes
<1>6. Keys'
  BY <1>1, <1>2 DEF IInv, Keys, Cleanup, Backward, Goes
<1>7. Manifested'
  BY <1>1, <1>2 DEF IInv, Manifested, Goes
<1>8. Rewriting'
  BY <1>1, <1>2 DEF IInv, Rewriting, Goes
<1>9. Removing'
  BY <1>1, <1>2 DEF IInv, Removing, Goes
<1>10. Swept'
  BY <1>1, <1>2 DEF IInv, Swept, Verified, Goes
<1>11. Spares
  BY <1>1, <1>2 DEF Spares
<1> QED
  BY <1>3, <1>4, <1>5, <1>6, <1>7, <1>8, <1>9, <1>10, <1>11 DEF IInv

\* A DELETE takes effect, whoever sent it, after the commit.
LEMMA DeletedKeeps ==
  ASSUME IInv, NEW d \in {"a", "b"}, NEW f \in Files, Deleted(d, f),
         UNCHANGED <<kind, local>>, canon.epoch # "e0"
  PROVE  /\ IInv'
         /\ \A g \in All : raw[Source][g] # Nil /\ raw'[Source][g] = Nil => g = f
<1>1. /\ UNCHANGED <<canon, manifest, mem, disk, rw, work, hurt, swept, trampled, moved,
                     used>>
      /\ raw' \in [Modes -> [All -> Contents]] /\ raw'[Target] = raw[Target]
      /\ \A m \in Modes : m # Source => raw'[m] = raw[m]
      /\ \A g \in All : raw'[Source][g] \in {raw[Source][g], Nil}
      /\ \A g \in All : g # f => raw'[Source][g] = raw[Source][g]
  <2>1. /\ raw \in [Modes -> [All -> Contents]] /\ f \in All
        /\ Nil \in Contents /\ Source \in Modes /\ Target \in Modes /\ Source # Target
    BY Numbers, Codecs DEF IInv, Typed, TypedRemote, All
  <2> QED
    BY <2>1 DEF Deleted, owner, ghosts
<1>2. /\ Source' = Source /\ Target' = Target
      /\ Source # Target /\ Source \in Modes /\ Target \in Modes
  BY <1>1, Codecs DEF IInv
<1>3. Typed'
  BY <1>1, <1>2 DEF IInv, Typed, TypedRemote, TypedOwner, TypedWork, TypedRest
<1>4. Epochs' /\ Control' /\ Keys' /\ KeyKept' /\ Manifested' /\ ManifestNamesCanonical'
  BY <1>1, <1>2
  DEF IInv, Epochs, Control, Keys, KeyKept, Manifested, ManifestNamesCanonical
<1>5. Sourced' /\ Recorded' /\ Rewriting' /\ Removing'
  BY <1>1, <1>2 DEF IInv, Sourced, Recorded, Rewriting, Removing
<1>6. Swept'
  BY <1>1, <1>2 DEF IInv, Swept, Verified, All
<1>7. NothingOldLeft'
  BY <1>1, <1>2 DEF IInv, NothingOldLeft, Maintained, All
<1>8. LiveReadable'
  <2>1. canon.epoch \in {"e1", "e2"}
    BY DEF IInv, Typed, TypedRemote, Indexes
  <2>2. canon.mode # Source /\ canon.mode \in Modes
    BY <1>2, <2>1 DEF IInv, Epochs, Source, Modes
  <2>3. raw'[canon.mode] = raw[canon.mode]
    BY <1>1, <2>2
  <2> QED
    BY <1>1, <2>1, <2>3 DEF IInv, LiveReadable, Live
<1> QED
  BY <1>1, <1>3, <1>4, <1>5, <1>6, <1>7, <1>8 DEF IInv

LEMMA PurgeKeeps ==
  ASSUME IInv, NEW d \in {"a", "b"}, NEW f \in Files, Purge(d, f) \/ Purged(d, f),
         UNCHANGED <<kind, local>>
  PROVE  IInv' /\ Spares
<1>1. CASE Abort(d)
  BY <1>1, AbortKeeps
<1>2. CASE ~Abort(d)
  <2>1. work[d] \in Works
    BY DEF IInv, Typed, TypedWork
  <2>2. PICK w \in Works :
          /\ Become(d, w) /\ work[d].pc = "purge" /\ w.pc = "purge"
          /\ w.held = work[d].held /\ w.found = work[d].found
    <3> DEFINE w1 == [work[d] EXCEPT !.todo = @ \ {f}, !.asked = @ \cup {f}]
               w2 == [work[d] EXCEPT !.asked = @ \ {f}]
    <3>1. w1 \in Works /\ w1.pc = work[d].pc /\ w1.held = work[d].held
          /\ w1.found = work[d].found
      BY <2>1 DEF Works
    <3>2. w2 \in Works /\ w2.pc = work[d].pc /\ w2.held = work[d].held
          /\ w2.found = work[d].found
      BY <2>1 DEF Works
    <3>3. work[d].pc = "purge" /\ (Become(d, w1) \/ Become(d, w2))
      BY <1>2 DEF Purge, Purged
    <3> HIDE DEF w1, w2
    <3> QED
      BY <3>1, <3>2, <3>3
  <2>3. UNCHANGED <<kind, local, raw, canon, manifest, mem, disk, rw, hurt, swept,
                    trampled, moved, used>>
    BY <1>2 DEF Purge, Purged, remote, owner, ghosts
  <2> QED
    BY <2>2, <2>3, PurgingKeeps
<1> QED
  BY <1>1, <1>2

LEMMA VerifyKeeps ==
  ASSUME IInv, NEW d \in {"a", "b"}, Verify(d), UNCHANGED <<kind, local>>
  PROVE  IInv' /\ Spares
<1>1. /\ UNCHANGED <<canon, manifest, mem, disk, rw, swept, trampled, moved>>
      /\ Counts
      /\ work[d].pc = "purge"
      /\ raw' \in [Modes -> [All -> Contents]] /\ raw'[Source] = raw[Source]
      /\ hurt' \subseteq Files
      /\ \/ raw' = raw /\ hurt' = hurt
         \/ /\ canon.phase = work[d].held.phase
            /\ \A f \in Files : raw'[Target][f] = IF f \in Unreadable
               THEN canon.files[f] ELSE raw[Target][f]
      /\ Goes(d, "off") \/ (Goes(d, "finish") /\ SameLoad(d) /\ work[d].found = {})
         \/ (Goes(d, "sweep") /\ work'[d].held = work[d].held)
  <2>0. /\ raw \in [Modes -> [All -> Contents]] /\ work[d] \in Works
        /\ hurt \subseteq Files
        /\ Source \in Modes /\ Target \in Modes /\ Source # Target /\ Files \subseteq All
        /\ canon.files \in [Files -> Contents] /\ Unreadable \subseteq Files
    BY Codecs
    DEF IInv, Typed, TypedRemote, TypedWork, TypedRest, Indexes, All, Unreadable, Live
  <2>1. CASE Abort(d)
    BY <2>0, <2>1, Aborts DEF IInv, Verify
  <2>2. CASE /\ Holds(d)
             /\ raw' = [raw EXCEPT ![Target] =
                          [f \in All |-> IF f \in Unreadable
                           THEN canon.files[f] ELSE @[f]]]
             /\ hurt' = hurt \ Unreadable
             /\ IF work[d].found = {} /\ Unreadable = {}
                THEN Answer(d, At(d, "finish"))
                ELSE IF work[d].pass = Passes - 1
                     THEN Become(d, Off) /\ UNCHANGED used
                     ELSE Answer(d, [At(d, "sweep") EXCEPT !.pass = @ + 1])
             /\ UNCHANGED <<canon, manifest, owner, swept, trampled, moved>>
    <3>1. canon.phase = work[d].held.phase
      BY <2>2 DEF Holds, Authority
    <3>2. raw'[Target] = [f \in All |-> IF f \in Unreadable
                          THEN canon.files[f] ELSE raw[Target][f]]
      BY <2>0, <2>2
    <3>3. /\ raw' \in [Modes -> [All -> Contents]] /\ raw'[Source] = raw[Source]
          /\ \A f \in Files :
                raw'[Target][f] = IF f \in Unreadable
                THEN canon.files[f] ELSE raw[Target][f]
      <4>1. [f \in All |-> IF f \in Unreadable THEN canon.files[f] ELSE raw[Target][f]]
              \in [All -> Contents]
        BY <2>0
      <4> QED
        BY <2>0, <2>2, <3>2, <4>1
    <3>4. /\ Counts
          /\ \/ Goes(d, "off")
             \/ Goes(d, "finish") /\ SameLoad(d) /\ work[d].found = {}
             \/ Goes(d, "sweep") /\ work'[d].held = work[d].held
      <4>1. CASE work[d].found = {} /\ Unreadable = {}
        BY <2>2, <4>1, AnswersAt DEF IInv, Steps, Cleanup
      <4>2. CASE Become(d, Off) /\ UNCHANGED used
        BY <4>2, Idles, Room1 DEF IInv
      <4>3. CASE work[d].pass # Passes - 1
                 /\ Answer(d, [At(d, "sweep") EXCEPT !.pass = @ + 1])
        <5> DEFINE w == [At(d, "sweep") EXCEPT !.pass = @ + 1]
        <5>1. w \in Works /\ w.pc = "sweep" /\ w.held = work[d].held
          BY <2>0, <4>3, Places DEF IInv, Works, Passes, Steps, Cleanup
        <5>2. Counts /\ (Goes(d, "off") \/ (Goes(d, w.pc) /\ work'[d] = w))
          BY <4>3, <5>1, Answers DEF IInv
        <5> HIDE DEF w
        <5> QED
          BY <5>1, <5>2
      <4> QED
        BY <2>2, <4>1, <4>2, <4>3
    <3> QED
      BY <2>0, <2>2, <3>1, <3>3, <3>4 DEF Verify, owner
  <2> QED
    BY <2>1, <2>2 DEF Verify
<1>2. /\ Source' = Source /\ Target' = Target
      /\ Source # Target /\ Source \in Modes /\ Target \in Modes
  BY <1>1, Codecs DEF IInv
<1>3. Typed'
  BY <1>1, <1>2 DEF IInv, Typed, TypedRemote, TypedOwner, TypedRest, Goes, Counts
<1>4. Epochs' /\ KeyKept' /\ ManifestNamesCanonical'
  BY <1>1, <1>2 DEF IInv, Epochs, KeyKept, ManifestNamesCanonical
<1>5. Control'
  BY <1>1, <1>2 DEF IInv, Control, Running, Cleanup, Backward, Goes, SameLoad
<1>6. Keys'
  BY <1>1, <1>2 DEF IInv, Keys, Cleanup, Backward, Goes
<1>7. Manifested'
  BY <1>1, <1>2 DEF IInv, Manifested, Goes
<1>8. Sourced'
  BY <1>1, <1>2 DEF IInv, Sourced
<1>9. Recorded'
  BY <1>1, <1>2 DEF IInv, Recorded, Epochs, Control, Cleanup
<1>10. Rewriting'
  BY <1>1, <1>2 DEF IInv, Rewriting, Goes, Epochs, Control, Running
<1>11. Removing'
  BY <1>1, <1>2 DEF IInv, Removing, Goes, Epochs, Control, Backward
<1>12. Swept'
  BY <1>1, <1>2 DEF IInv, Swept, Verified, Goes, SameLoad
<1>13. NothingOldLeft'
  BY <1>1, <1>2 DEF IInv, NothingOldLeft, Maintained
<1>14. LiveReadable'
  BY <1>1, <1>2
  DEF IInv, Typed, TypedRemote, LiveReadable, Live, Unreadable, Epochs, Control,
      Cleanup, Indexes
<1>15. Spares
  BY <1>1, <1>2 DEF Spares
<1> QED
  BY <1>3, <1>4, <1>5, <1>6, <1>7, <1>8, <1>9, <1>10, <1>11, <1>12, <1>13, <1>14,
     <1>15
  DEF IInv

LEMMA FinishKeeps ==
  ASSUME IInv, NEW d \in {"a", "b"}, Finish(d), UNCHANGED <<kind, local>>
  PROVE  IInv' /\ Spares
<1>1. /\ UNCHANGED <<raw, manifest, mem, disk, rw, hurt, trampled, moved>>
      /\ Counts
      /\ work[d].pc = "finish"
      /\ canon' \in Indexes /\ canon'.mode = canon.mode /\ canon'.epoch = canon.epoch
      /\ canon'.files = canon.files
      /\ swept' \in [{"a", "b", "end"} -> SUBSET Files] /\ swept'.a = swept.a
      /\ swept'.b = swept.b
      /\ \/ canon' = canon /\ swept' = swept /\ Goes(d, "off")
         \/ /\ canon.phase = work[d].held.phase /\ canon'.phase = "none"
            /\ swept'.end = swept[d]
            /\ Goes(d, "off") \/ (d = "a" /\ Goes("a", "clear"))
  <2>0. canon \in Indexes /\ swept \in [{"a", "b", "end"} -> SUBSET Files]
    BY DEF IInv, Typed, TypedRemote, TypedRest
  <2>1. CASE ~Holds(d)
    BY <2>0, <2>1, Aborts DEF IInv, Finish
  <2>2. CASE Holds(d)
    <3>1. /\ canon' = [canon EXCEPT !.phase = "none", !.dels = {}]
          /\ swept' = [swept EXCEPT !.end = swept[d]]
          /\ Answer(d, IF d = "a" THEN At(d, "clear") ELSE Off)
          /\ UNCHANGED <<raw, manifest, mem, disk, rw, hurt, trampled, moved>>
      BY <2>2 DEF Finish, owner
    <3>2. canon.phase = work[d].held.phase
      BY <2>2 DEF Holds, Authority
    <3>3. Counts /\ (Goes(d, "off") \/ (d = "a" /\ Goes("a", "clear")))
      <4>1. CASE d = "a"
        BY <3>1, <4>1, AnswersAt DEF IInv, Steps
      <4>2. CASE d = "b"
        BY <3>1, <4>2, Answers, Constants DEF IInv
      <4> QED
        BY <4>1, <4>2
    <3>4. /\ canon' \in Indexes /\ canon'.mode = canon.mode /\ canon'.epoch = canon.epoch
          /\ canon'.files = canon.files /\ canon'.phase = "none"
      BY <2>0, <3>1 DEF Indexes
    <3>5. /\ swept' \in [{"a", "b", "end"} -> SUBSET Files]
          /\ swept'.a = swept.a /\ swept'.b = swept.b /\ swept'.end = swept[d]
      BY <2>0, <3>1
    <3> QED
      BY <3>1, <3>2, <3>3, <3>4, <3>5 DEF Finish
  <2> QED
    BY <2>1, <2>2
<1>2. /\ Source' = Source /\ Target' = Target
      /\ Source # Target /\ Source \in Modes /\ Target \in Modes
  BY <1>1, Codecs DEF IInv
<1>3. Typed'
  BY <1>1, <1>2 DEF IInv, Typed, TypedRemote, TypedOwner, TypedRest, Goes, Counts
<1>4. Epochs'
  BY <1>1, <1>2 DEF IInv, Epochs
<1>5. Control'
  BY <1>1, <1>2 DEF IInv, Control, Running, Cleanup, Backward, Goes
<1>6. Keys'
  BY <1>1, <1>2 DEF IInv, Keys, Cleanup, Backward, Goes
<1>7. KeyKept'
  BY <1>1, <1>2 DEF IInv, KeyKept
<1>8. Manifested'
  BY <1>1, <1>2 DEF IInv, Manifested, Goes
<1>9. ManifestNamesCanonical'
  BY <1>1, <1>2 DEF IInv, ManifestNamesCanonical
<1>10. Sourced'
  BY <1>1, <1>2 DEF IInv, Sourced
<1>11. Recorded'
  BY <1>1, <1>2 DEF IInv, Recorded
<1>12. Rewriting'
  BY <1>1, <1>2 DEF IInv, Rewriting, Goes
<1>13. Removing'
  BY <1>1, <1>2 DEF IInv, Removing, Goes
<1>14. Swept'
  BY <1>1, <1>2 DEF IInv, Swept, Verified, Goes
<1>15. NothingOldLeft'
  BY <1>1, <1>2 DEF IInv, NothingOldLeft, Maintained, Swept, Verified
<1>16. LiveReadable'
  BY <1>1, <1>2 DEF IInv, LiveReadable
<1>17. Spares
  BY <1>1, <1>2 DEF Spares
<1> QED
  BY <1>3, <1>4, <1>5, <1>6, <1>7, <1>8, <1>9, <1>10, <1>11, <1>12, <1>13, <1>14,
     <1>15, <1>16, <1>17
  DEF IInv

LEMMA HelpKeeps ==
  ASSUME IInv, Help, UNCHANGED <<kind, local>>
  PROVE  IInv' /\ Spares
<1>1. /\ UNCHANGED <<raw, canon, manifest, mem, disk, rw, hurt, swept, trampled, moved>>
      /\ Counts
      /\ canon.phase \in Committed /\ work'.b.held.phase = canon.phase
      /\ Goes("b", "stable") \/ Goes("b", "cleanup")
         \/ (canon.phase = "cleanup" /\ Goes("b", "sweep"))
  <2>1. PICK p \in {"stable", "sweep", "cleanup"} :
           /\ p = "sweep" => canon.phase = "cleanup"
           /\ Become("b", [At("b", p) EXCEPT !.held = Authority])
    BY DEF Help
  <2> DEFINE w == [At("b", p) EXCEPT !.held = Authority]
  <2>2. canon.phase \in Committed /\ Authority \in Holdings
        /\ Authority.phase = canon.phase
    BY DEF Help, IInv, Typed, TypedRemote, Indexes, Authority, Holdings, Phases
  <2>3. w \in Works /\ w.pc = p /\ w.held = Authority
    BY <2>2, Places DEF IInv, Works, Steps, Cleanup
  <2>4. Goes("b", p) /\ work'.b = w
    BY <2>1, <2>3, Turns DEF IInv
  <2>5. Counts
    BY Room1 DEF IInv, Help
  <2> HIDE DEF w
  <2> QED
    BY <2>1, <2>2, <2>3, <2>4, <2>5 DEF Help, remote, owner, ghosts
<1>2. /\ Source' = Source /\ Target' = Target
      /\ Source # Target /\ Source \in Modes /\ Target \in Modes
  BY <1>1, Codecs DEF IInv
<1>3. Typed'
  BY <1>1, <1>2 DEF IInv, Typed, TypedRemote, TypedOwner, TypedRest, Goes, Counts
<1>4. Epochs' /\ KeyKept' /\ ManifestNamesCanonical' /\ Sourced' /\ Recorded'
      /\ NothingOldLeft' /\ LiveReadable'
  BY <1>1, <1>2
  DEF IInv, Epochs, KeyKept, ManifestNamesCanonical, Sourced, Recorded,
      NothingOldLeft, Maintained, LiveReadable
<1>5. Control'
  BY <1>1, <1>2 DEF IInv, Control, Cleanup, Committed, Goes, Epochs
<1>6. Keys'
  BY <1>1, <1>2 DEF IInv, Keys, Goes
<1>7. Manifested'
  BY <1>1, <1>2 DEF IInv, Manifested, Goes
<1>8. Rewriting'
  BY <1>1, <1>2 DEF IInv, Rewriting, Goes
<1>9. Removing'
  BY <1>1, <1>2 DEF IInv, Removing, Goes
<1>10. Swept'
  BY <1>1, <1>2 DEF IInv, Swept, Verified, Goes
<1>11. Spares
  BY <1>1, <1>2 DEF Spares
<1> QED
  BY <1>3, <1>4, <1>5, <1>6, <1>7, <1>8, <1>9, <1>10, <1>11 DEF IInv

\* The checkpoint is dropped, by Clear and by Undone.
LEMMA DropKeeps ==
  ASSUME IInv, Drop, canon.epoch = "e0" => \A f \in All : raw[Target][f] = Nil,
         canon.mode = mem.mode \/ canon.epoch = "e2", UNCHANGED <<kind, local>>
  PROVE  IInv' /\ Spares
<1>1. /\ UNCHANGED <<raw, canon, manifest, rw, hurt, swept, trampled, moved>>
      /\ Counts
      /\ mem' \in Stores /\ disk' \in Stores
      /\ \/ mem'.trans = NoTrans /\ mem'.mode = mem.mode /\ disk' = mem'
            /\ (Goes("a", "trailing") \/ Goes("a", "end"))
         \/ mem' = mem /\ disk' = disk /\ Goes("a", "off")
  <2>0. mem \in Stores /\ disk \in Stores
    BY DEF IInv, Typed, TypedOwner
  <2>1. CASE /\ mem' = Trans(NoTrans)
             /\ disk' = mem'
             /\ Become("a", [Off EXCEPT !.pc = IF kind = "disable" /\ ~work.a.again
                                               THEN "trailing" ELSE "end"])
             /\ UNCHANGED used
    <3>1. PICK p \in {"trailing", "end"} : Become("a", [Off EXCEPT !.pc = p])
      BY <2>1
    <3> DEFINE w == [Off EXCEPT !.pc = p]
    <3>2. w \in Works /\ w.pc = p
      BY Constants DEF Works, Steps
    <3>3. Goes("a", p)
      BY <3>1, <3>2, Turns DEF IInv
    <3>4. /\ Trans(NoTrans) \in Stores /\ Trans(NoTrans).trans = NoTrans
          /\ Trans(NoTrans).mode = mem.mode
      BY Constants, Stored DEF IInv
    <3>5. Counts
      BY <2>1, Room1 DEF IInv
    <3> HIDE DEF w
    <3> QED
      BY <2>1, <3>3, <3>4, <3>5 DEF Drop, remote, ghosts
  <2>2. CASE UNCHANGED <<mem, disk>> /\ Become("a", Off) /\ Fault
    BY <2>0, <2>2, Idles, Room1 DEF IInv, Drop, remote, ghosts
  <2> QED
    BY <2>1, <2>2 DEF Drop
<1>2. /\ Source' = Source /\ Target' = Target
      /\ Source # Target /\ Source \in Modes /\ Target \in Modes
  BY <1>1, Codecs DEF IInv
<1>3. Typed'
  BY <1>1, <1>2 DEF IInv, Typed, TypedRemote, TypedOwner, TypedRest, Goes, Counts
<1>4. Epochs' /\ ManifestNamesCanonical' /\ Sourced' /\ NothingOldLeft' /\ LiveReadable'
  BY <1>1, <1>2
  DEF IInv, Epochs, ManifestNamesCanonical, Sourced, NothingOldLeft, Maintained,
      LiveReadable
<1>5. Control'
  BY <1>1, <1>2 DEF IInv, Control, Running, Cleanup, Backward, Goes
<1>6. Keys'
  BY <1>1, <1>2 DEF IInv, Keys, Cleanup, Backward, Goes
<1>7. KeyKept'
  BY <1>1, <1>2 DEF IInv, KeyKept
<1>8. Manifested'
  BY <1>1, <1>2 DEF IInv, Manifested, Goes
<1>9. Recorded'
  BY <1>1, <1>2 DEF IInv, Recorded
<1>10. Rewriting'
  BY <1>1, <1>2 DEF IInv, Rewriting, Goes
<1>11. Removing'
  BY <1>1, <1>2 DEF IInv, Removing, Goes
<1>12. Swept'
  BY <1>1, <1>2 DEF IInv, Swept, Verified, Goes
<1>13. Spares
  BY <1>1, <1>2 DEF Spares
<1> QED
  BY <1>3, <1>4, <1>5, <1>6, <1>7, <1>8, <1>9, <1>10, <1>11, <1>12, <1>13 DEF IInv

LEMMA TrailingDeleteKeeps ==
  ASSUME IInv, TrailingDelete, UNCHANGED <<kind, local>>
  PROVE  IInv' /\ Spares
<1>1. /\ UNCHANGED <<raw, canon, mem, disk, rw, hurt, swept, moved>>
      /\ Counts
      /\ manifest' = NoManifest
      /\ trampled' \in BOOLEAN
      /\ trampled' \/ canon.mode = "plain"
      /\ Goes("a", "end")
  BY Room1, Turns, Constants DEF IInv, TrailingDelete, Steps, owner, Works
<1>2. /\ Source' = Source /\ Target' = Target
      /\ Source # Target /\ Source \in Modes /\ Target \in Modes
  BY <1>1, Codecs DEF IInv
<1>3. Typed'
  BY <1>1, <1>2, Constants
  DEF IInv, Typed, TypedRemote, TypedOwner, TypedRest, Goes, Counts
<1>4. Epochs' /\ KeyKept' /\ Sourced' /\ Recorded' /\ NothingOldLeft' /\ LiveReadable'
  BY <1>1, <1>2
  DEF IInv, Epochs, KeyKept, Sourced, Recorded, NothingOldLeft, Maintained,
      LiveReadable
<1>5. Control'
  BY <1>1, <1>2 DEF IInv, Control, Running, Cleanup, Backward, Goes
<1>6. Keys'
  BY <1>1, <1>2 DEF IInv, Keys, Cleanup, Backward, Goes
<1>7. Manifested'
  BY <1>1, <1>2 DEF IInv, Manifested, Goes
<1>8. ManifestNamesCanonical'
  BY <1>1, <1>2, Constants DEF IInv, ManifestNamesCanonical
<1>9. Rewriting'
  BY <1>1, <1>2 DEF IInv, Rewriting, Goes
<1>10. Removing'
  BY <1>1, <1>2 DEF IInv, Removing, Goes
<1>11. Swept'
  BY <1>1, <1>2 DEF IInv, Swept, Verified, Goes
<1>12. Spares
  BY <1>1, <1>2 DEF Spares
<1> QED
  BY <1>3, <1>4, <1>5, <1>6, <1>7, <1>8, <1>9, <1>10, <1>11, <1>12 DEF IInv

-----------------------------------------------------------------------------
(* The recovery and the rollback. *)

LEMMA RecoverKeeps ==
  ASSUME IInv, Recover, UNCHANGED <<kind, local>>
  PROVE  IInv' /\ Spares
<1>1. /\ UNCHANGED <<raw, canon, manifest, hurt, swept, trampled>>
      /\ UNCHANGED <<rw, moved>>
      /\ Counts
      /\ mem.trans # NoTrans
      /\ mem' \in Stores /\ mem'.trans = mem.trans
      /\ \/ disk' = disk /\ Goes("a", "off")
         \/ disk' = mem' /\ Goes("a", "off")
         \/ disk' = mem' /\ Goes("a", "rollback") /\ canon.mode = Source
            /\ mem'.mode = Source /\ canon.epoch # "e2"
         \/ disk' = mem' /\ Goes("a", "stable") /\ mem'.mode = Target
            /\ canon.mode = Target /\ canon.phase # "none"
            /\ work'.a.held.phase = canon.phase
         \/ disk' = mem' /\ Goes("a", "retire") /\ mem'.mode = Target
  <2>0. mem \in Stores /\ canon \in Indexes /\ Source \in Modes /\ Target \in Modes
    BY Codecs DEF IInv, Typed, TypedRemote, TypedOwner
  <2> DEFINE mode == IF Direction = "source" THEN Source ELSE Target
             next == IF canon.mode # mode \/ canon.epoch = "e2" \/ ~Coherent(Direction)
                     THEN "off"
                     ELSE IF Direction = "source" THEN "rollback"
                     ELSE IF Maintained THEN "stable" ELSE "retire"
             held == IF next = "off" THEN NoAuthority ELSE Authority
             w == [Off EXCEPT !.pc = next, !.held = held]
  <2>1. mem.trans # NoTrans /\ Persist(Recovered(mode), w)
    BY DEF Recover
  <2>2. /\ mode \in {Source, Target}
        /\ \/ next = "off"
           \/ next = "rollback" /\ canon.mode = Source /\ mode = Source
              /\ canon.epoch # "e2"
           \/ next = "stable" /\ mode = Target /\ canon.mode = Target
              /\ canon.phase # "none"
           \/ next = "retire" /\ mode = Target
        /\ next # "off" => held = Authority
    BY DEF Maintained
  <2>3. held \in Holdings /\ Authority.phase = canon.phase
    BY <2>0 DEF Authority, NoAuthority, Holdings, Phases, Before, Indexes
  <2> HIDE DEF mode, next, held
  <2>4. w \in Works /\ w.pc = next /\ w.held = held
    BY <2>2, <2>3, Constants DEF Works, Steps, Cleanup, Backward
  <2>5. /\ Recovered(mode) \in Stores /\ Recovered(mode).trans = mem.trans
        /\ Recovered(mode).mode = mode
    BY <2>0, <2>2 DEF Recovered, Stores
  <2>6. /\ mem' = Recovered(mode) /\ Counts
        /\ \/ disk' = Recovered(mode) /\ Goes("a", next) /\ work'.a = w
           \/ disk' = disk /\ Goes("a", "off")
    BY <2>1, <2>4, Persists DEF IInv
  <2> HIDE DEF w
  <2> QED
    BY <2>1, <2>2, <2>3, <2>4, <2>5, <2>6 DEF Recover, remote, ghosts
<1>2. /\ Source' = Source /\ Target' = Target
      /\ Source # Target /\ Source \in Modes /\ Target \in Modes
  BY <1>1, Codecs DEF IInv
<1>3. Typed'
  BY <1>1, <1>2 DEF IInv, Typed, TypedRemote, TypedOwner, TypedRest, Goes, Counts
<1>4. Epochs' /\ ManifestNamesCanonical' /\ Sourced' /\ NothingOldLeft' /\ LiveReadable'
  BY <1>1, <1>2
  DEF IInv, Epochs, ManifestNamesCanonical, Sourced, NothingOldLeft, Maintained,
      LiveReadable
<1>5. Control'
  BY <1>1, <1>2
  DEF IInv, Typed, TypedRemote, Control, Running, Cleanup, Backward, Goes, Epochs,
      Indexes, Modes
<1>6. Keys'
  BY <1>1, <1>2 DEF IInv, Keys, Cleanup, Backward, Goes
<1>7. KeyKept'
  BY <1>1, <1>2 DEF IInv, KeyKept
<1>8. Manifested'
  BY <1>1, <1>2 DEF IInv, Manifested, Goes
<1>9. Recorded'
  BY <1>1, <1>2 DEF IInv, Recorded
<1>10. Rewriting'
  BY <1>1, <1>2 DEF IInv, Rewriting, Goes
<1>11. Removing'
  BY <1>1, <1>2 DEF IInv, Removing, Goes
<1>12. Swept'
  BY <1>1, <1>2 DEF IInv, Swept, Verified, Goes
<1>13. Spares
  BY <1>1, <1>2 DEF Spares
<1> QED
  BY <1>3, <1>4, <1>5, <1>6, <1>7, <1>8, <1>9, <1>10, <1>11, <1>12, <1>13 DEF IInv

LEMMA VerifyTargetsKeeps ==
  ASSUME IInv, VerifyTargets, UNCHANGED <<kind, local>>
  PROVE  IInv' /\ Spares
<1>1. /\ UNCHANGED <<raw, canon, manifest, hurt, swept, trampled>>
      /\ UNCHANGED <<rw, moved>>
      /\ Counts
      /\ work.a.pc = "rollback"
      /\ mem' \in Stores /\ mem'.mode = mem.mode /\ mem'.trans.phase = mem.trans.phase
      /\ mem'.trans.mapped = mem.trans.mapped
      /\ (disk' = disk /\ Goes("a", "off") /\ mem' = mem)
         \/ (disk' = disk /\ Goes("a", "off") /\ mem'.trans.proofs = Proven)
            \/ (disk' = mem' /\ mem'.trans.proofs = Proven
                /\ (Goes("a", "restore") \/ Goes("a", "unchanged") \/ Goes("a", "off")))
  BY Aborts, Persists, Stored, Places, Constants
  DEF IInv, VerifyTargets, Proven, Present, Steps, Backward, remote, ghosts, Typed,
      TypedOwner, Stores, Transitions
<1>2. /\ Source' = Source /\ Target' = Target
      /\ Source # Target /\ Source \in Modes /\ Target \in Modes
  BY <1>1, Codecs DEF IInv
<1>3. Typed'
  BY <1>1, <1>2 DEF IInv, Typed, TypedRemote, TypedOwner, TypedRest, Goes, Counts
<1>4. Epochs' /\ ManifestNamesCanonical' /\ Sourced' /\ NothingOldLeft' /\ LiveReadable'
  BY <1>1, <1>2
  DEF IInv, Epochs, ManifestNamesCanonical, Sourced, NothingOldLeft, Maintained,
      LiveReadable
<1>5. Control'
  BY <1>1, <1>2 DEF IInv, Control, Running, Cleanup, Backward, Goes
<1>6. Keys'
  BY <1>1, <1>2, Constants DEF IInv, Keys, Cleanup, Backward, Goes
<1>7. KeyKept'
  BY <1>1, <1>2, Constants DEF IInv, KeyKept, Keys
<1>8. Manifested'
  BY <1>1, <1>2 DEF IInv, Manifested, Goes
<1>9. Recorded'
  BY <1>1, <1>2 DEF IInv, Recorded
<1>10. Rewriting'
  BY <1>1, <1>2 DEF IInv, Rewriting, Goes
<1>11. Removing'
  BY <1>1, <1>2 DEF IInv, Removing, Goes, Recorded, Proven, Present, Control, Backward
<1>12. Swept'
  BY <1>1, <1>2 DEF IInv, Swept, Verified, Goes
<1>13. Spares
  BY <1>1, <1>2 DEF Spares
<1> QED
  BY <1>3, <1>4, <1>5, <1>6, <1>7, <1>8, <1>9, <1>10, <1>11, <1>12, <1>13 DEF IInv

LEMMA RestoreKeeps ==
  ASSUME IInv, Restore, UNCHANGED <<kind, local>>
  PROVE  IInv' /\ Spares
<1>1. /\ UNCHANGED <<raw, canon, mem, disk, rw, hurt, swept, trampled, moved>>
      /\ Counts
      /\ work.a.pc = "restore"
      /\ manifest' \in Manifests
      /\ manifest' = manifest \/ (manifest' = Stable(Source) /\ canon.epoch = "e0")
      /\ Goes("a", "off") \/ (Goes("a", "undo") /\ work'.a.todo = mem.trans.proofs)
  <2>0. mem.trans.proofs \subseteq Files /\ manifest \in Manifests
        /\ Stable(Source) \in Manifests
    BY Published, Constants, Codecs
       DEF IInv, Typed, TypedRemote, TypedOwner, Stores, Transitions
  <2>1. CASE ~Valid
    BY <2>0, <2>1, Aborts DEF IInv, Restore
  <2>2. CASE Valid
    <3> DEFINE w == [At("a", "undo") EXCEPT !.todo = mem.trans.proofs]
    <3>1. w \in Works /\ w.pc = "undo" /\ w.todo = mem.trans.proofs
      BY <2>0, Places DEF IInv, Works, Steps, Backward
    <3>2. Answer("a", w) /\ manifest' = Stable(Source) /\ canon.epoch = "e0"
      BY <2>2 DEF Restore, Valid
    <3>3. Counts /\ (Goes("a", "off") \/ (Goes("a", "undo") /\ work'.a = w))
      BY <3>1, <3>2, Answers DEF IInv
    <3> HIDE DEF w
    <3> QED
      BY <2>0, <2>2, <3>1, <3>2, <3>3 DEF Restore, owner, ghosts
  <2> QED
    BY <2>1, <2>2
<1>2. /\ Source' = Source /\ Target' = Target
      /\ Source # Target /\ Source \in Modes /\ Target \in Modes
  BY <1>1, Codecs DEF IInv
<1>3. Typed'
  BY <1>1, <1>2 DEF IInv, Typed, TypedRemote, TypedOwner, TypedRest, Goes, Counts
<1>4. Epochs' /\ KeyKept' /\ Sourced' /\ Recorded' /\ NothingOldLeft' /\ LiveReadable'
  BY <1>1, <1>2
  DEF IInv, Epochs, KeyKept, Sourced, Recorded, NothingOldLeft, Maintained,
      LiveReadable
<1>5. Control'
  BY <1>1, <1>2 DEF IInv, Control, Running, Cleanup, Backward, Goes
<1>6. Keys'
  BY <1>1, <1>2 DEF IInv, Keys, Cleanup, Backward, Goes
<1>7. Manifested'
  BY <1>1, <1>2 DEF IInv, Manifested, Goes
<1>8. ManifestNamesCanonical'
  BY <1>1, <1>2, Published, Constants DEF IInv, ManifestNamesCanonical, Epochs
<1>9. Rewriting'
  BY <1>1, <1>2 DEF IInv, Rewriting, Goes
<1>10. Removing'
  BY <1>1, <1>2 DEF IInv, Removing, Goes
<1>11. Swept'
  BY <1>1, <1>2 DEF IInv, Swept, Verified, Goes
<1>12. Spares
  BY <1>1, <1>2 DEF Spares
<1> QED
  BY <1>3, <1>4, <1>5, <1>6, <1>7, <1>8, <1>9, <1>10, <1>11, <1>12 DEF IInv

LEMMA UndoKeeps ==
  ASSUME IInv, NEW f \in Files, Undo(f), UNCHANGED <<kind, local>>
  PROVE  IInv' /\ Spares
<1>1. /\ UNCHANGED <<canon, manifest, mem, disk, rw, hurt, swept, trampled, moved>>
      /\ Counts
      /\ work.a.pc = "undo"
      /\ raw' \in [Modes -> [All -> Contents]] /\ raw'[Source] = raw[Source]
      /\ \/ raw' = raw /\ Goes("a", "off")
         \/ /\ raw'[Target][f] = Nil
            /\ \A g \in All : g # f => raw'[Target][g] = raw[Target][g]
            /\ Goes("a", "off") \/ (Goes("a", "undo") /\ work'.a.todo = work.a.todo \ {f})
  <2>0. /\ raw \in [Modes -> [All -> Contents]] /\ work.a \in Works /\ f \in All
        /\ Nil \in Contents /\ Source \in Modes /\ Target \in Modes /\ Source # Target
    BY Numbers, Codecs DEF IInv, Typed, TypedRemote, TypedWork, All
  <2>1. CASE Abort("a")
    BY <2>0, <2>1, Aborts DEF IInv, Undo
  <2>2. CASE /\ raw' = [raw EXCEPT ![Target][f] = Nil]
             /\ Answer("a", [work.a EXCEPT !.todo = @ \ {f}])
             /\ UNCHANGED <<canon, manifest, owner, ghosts, moved>>
    <3> DEFINE w == [work.a EXCEPT !.todo = @ \ {f}]
    <3>1. w \in Works /\ w.pc = work.a.pc /\ w.todo = work.a.todo \ {f}
      BY <2>0 DEF Works
    <3>2. Counts /\ (Goes("a", "off") \/ (Goes("a", w.pc) /\ work'.a = w))
      BY <2>2, <3>1, Answers DEF IInv
    <3>3. /\ raw' \in [Modes -> [All -> Contents]] /\ raw'[Source] = raw[Source]
          /\ \A g \in All : g # f => raw'[Target][g] = raw[Target][g]
          /\ raw'[Target][f] = Nil
      BY <2>0, <2>2
    <3> HIDE DEF w
    <3> QED
      BY <2>2, <3>1, <3>2, <3>3 DEF Undo, owner, ghosts
  <2> QED
    BY <2>1, <2>2 DEF Undo
<1>2. /\ Source' = Source /\ Target' = Target
      /\ Source # Target /\ Source \in Modes /\ Target \in Modes
  BY <1>1, Codecs DEF IInv
<1>3. Typed'
  BY <1>1, <1>2 DEF IInv, Typed, TypedRemote, TypedOwner, TypedRest, Goes, Counts
<1>4. Epochs' /\ KeyKept' /\ ManifestNamesCanonical'
  BY <1>1, <1>2 DEF IInv, Epochs, KeyKept, ManifestNamesCanonical
<1>5. Control'
  BY <1>1, <1>2 DEF IInv, Control, Running, Backward, Goes
<1>6. Keys'
  BY <1>1, <1>2 DEF IInv, Keys, Cleanup, Backward, Goes
<1>7. Manifested'
  BY <1>1, <1>2 DEF IInv, Manifested, Goes
<1>8. Sourced'
  BY <1>1, <1>2 DEF IInv, Sourced
<1>9. Recorded'
  BY <1>1, <1>2 DEF IInv, Recorded
<1>10. Rewriting'
  BY <1>1, <1>2 DEF IInv, Rewriting, Goes
<1>11. Removing'
  BY <1>1, <1>2 DEF IInv, Removing, Goes
<1>12. Swept'
  BY <1>1, <1>2 DEF IInv, Swept, Verified, Goes
<1>13. NothingOldLeft'
  BY <1>1, <1>2 DEF IInv, NothingOldLeft, Maintained
<1>14. LiveReadable'
  BY <1>1, <1>2 DEF IInv, LiveReadable, Epochs, Control, Backward
<1>15. Spares
  BY <1>1, <1>2 DEF Spares
<1> QED
  BY <1>3, <1>4, <1>5, <1>6, <1>7, <1>8, <1>9, <1>10, <1>11, <1>12, <1>13, <1>14,
     <1>15
  DEF IInv

LEMMA ReleaseKeeps ==
  ASSUME IInv, Release, UNCHANGED <<kind, local>>
  PROVE  IInv' /\ Spares
<1>1. /\ UNCHANGED <<raw, manifest, mem, disk, rw, hurt, swept, trampled, moved>>
      /\ Counts
      /\ work.a.pc = "undo"
      /\ canon' \in Indexes /\ canon'.mode = canon.mode /\ canon'.epoch = canon.epoch
      /\ canon'.files = canon.files
      /\ \/ canon' = canon /\ Goes("a", "off")
         \/ canon.epoch = "e0" /\ canon'.phase = "none" /\ work.a.todo = {}
            /\ (Goes("a", "off") \/ Goes("a", "undone"))
  BY Aborts, AnswersAt
  DEF IInv, Release, Valid, Steps, Backward, owner, ghosts, Typed, TypedRemote,
      Indexes
<1>2. /\ Source' = Source /\ Target' = Target
      /\ Source # Target /\ Source \in Modes /\ Target \in Modes
  BY <1>1, Codecs DEF IInv
<1>3. Typed'
  BY <1>1, <1>2 DEF IInv, Typed, TypedRemote, TypedOwner, TypedRest, Goes, Counts
<1>4. Epochs'
  BY <1>1, <1>2 DEF IInv, Epochs
<1>5. Control'
  BY <1>1, <1>2 DEF IInv, Control, Running, Cleanup, Backward, Goes
<1>6. Keys'
  BY <1>1, <1>2 DEF IInv, Keys, Cleanup, Backward, Goes
<1>7. KeyKept'
  BY <1>1, <1>2 DEF IInv, KeyKept
<1>8. Manifested'
  BY <1>1, <1>2 DEF IInv, Manifested, Goes
<1>9. ManifestNamesCanonical'
  BY <1>1, <1>2 DEF IInv, ManifestNamesCanonical
<1>10. Sourced'
  BY <1>1, <1>2 DEF IInv, Sourced
<1>11. Recorded'
  BY <1>1, <1>2 DEF IInv, Recorded
<1>12. Rewriting'
  BY <1>1, <1>2 DEF IInv, Rewriting, Goes
<1>13. Removing'
  BY <1>1, <1>2 DEF IInv, Removing, Goes
<1>14. Swept'
  BY <1>1, <1>2 DEF IInv, Swept, Verified, Goes
<1>15. NothingOldLeft'
  BY <1>1, <1>2 DEF IInv, NothingOldLeft, Maintained
<1>16. LiveReadable'
  BY <1>1, <1>2 DEF IInv, LiveReadable
<1>17. Spares
  BY <1>1, <1>2 DEF Spares
<1> QED
  BY <1>3, <1>4, <1>5, <1>6, <1>7, <1>8, <1>9, <1>10, <1>11, <1>12, <1>13, <1>14,
     <1>15, <1>16, <1>17
  DEF IInv

-----------------------------------------------------------------------------
(* Failures, restarts, and what others do. *)

LEMMA RefusedKeeps ==
  ASSUME IInv, NEW d \in {"a", "b"}, Refused(d), UNCHANGED <<kind, local>>
  PROVE  IInv' /\ Spares
<1>1. /\ UNCHANGED <<raw, canon, manifest, mem, disk, hurt, swept, trampled, moved>>
      /\ Counts
      /\ rw' \in [Files -> Progress]
      /\ d = "b" => rw' = rw
      /\ Goes(d, "off")
  BY Idles, Room1, Constants DEF IInv, Refused, remote, ghosts, Typed, TypedOwner
<1>2. /\ Source' = Source /\ Target' = Target
      /\ Source # Target /\ Source \in Modes /\ Target \in Modes
  BY <1>1, Codecs DEF IInv
<1>3. Typed'
  BY <1>1, <1>2 DEF IInv, Typed, TypedRemote, TypedOwner, TypedRest, Goes, Counts
<1>4. Epochs' /\ KeyKept' /\ ManifestNamesCanonical' /\ Sourced' /\ Recorded'
      /\ NothingOldLeft' /\ LiveReadable'
  BY <1>1, <1>2
  DEF IInv, Epochs, KeyKept, ManifestNamesCanonical, Sourced, Recorded,
      NothingOldLeft, Maintained, LiveReadable
<1>5. Control'
  BY <1>1, <1>2 DEF IInv, Control, Running, Cleanup, Backward, Goes
<1>6. Keys'
  BY <1>1, <1>2 DEF IInv, Keys, Cleanup, Backward, Goes
<1>7. Manifested'
  BY <1>1, <1>2 DEF IInv, Manifested, Goes
<1>8. Rewriting'
  BY <1>1, <1>2 DEF IInv, Rewriting, Goes
<1>9. Removing'
  BY <1>1, <1>2 DEF IInv, Removing, Goes
<1>10. Swept'
  BY <1>1, <1>2 DEF IInv, Swept, Verified, Goes
<1>11. Spares
  BY <1>1, <1>2 DEF Spares
<1> QED
  BY <1>3, <1>4, <1>5, <1>6, <1>7, <1>8, <1>9, <1>10, <1>11 DEF IInv

LEMMA CrashKeeps ==
  ASSUME IInv, Crash, UNCHANGED <<kind, local>>
  PROVE  IInv' /\ Spares
<1>1. /\ UNCHANGED <<raw, canon, manifest, disk, hurt, swept, trampled, moved>>
      /\ Counts
      /\ rw' \in [Files -> Progress]
      /\ mem' = disk
      /\ Goes("a", "off") \/ Goes("a", "end")
  BY Turns, Room1, Constants, Idles DEF IInv, Crash, remote, ghosts, Works, Steps
<1>2. /\ Source' = Source /\ Target' = Target
      /\ Source # Target /\ Source \in Modes /\ Target \in Modes
  BY <1>1, Codecs DEF IInv
<1>3. Typed'
  BY <1>1, <1>2 DEF IInv, Typed, TypedRemote, TypedOwner, TypedRest, Goes, Counts
<1>4. Epochs' /\ KeyKept' /\ ManifestNamesCanonical' /\ Sourced' /\ NothingOldLeft'
      /\ LiveReadable'
  BY <1>1, <1>2
  DEF IInv, Epochs, KeyKept, ManifestNamesCanonical, Sourced, NothingOldLeft,
      Maintained, LiveReadable
<1>5. Control'
  BY <1>1, <1>2 DEF IInv, Control, Running, Cleanup, Backward, Goes
<1>6. Keys'
  BY <1>1, <1>2 DEF IInv, Keys, Cleanup, Backward, Goes
<1>7. Manifested'
  BY <1>1, <1>2 DEF IInv, Manifested, Goes
<1>8. Recorded'
  BY <1>1, <1>2 DEF IInv, Recorded
<1>9. Rewriting'
  BY <1>1, <1>2 DEF IInv, Rewriting, Goes
<1>10. Removing'
  BY <1>1, <1>2 DEF IInv, Removing, Goes
<1>11. Swept'
  BY <1>1, <1>2 DEF IInv, Swept, Verified, Goes
<1>12. Spares
  BY <1>1, <1>2 DEF Spares
<1> QED
  BY <1>3, <1>4, <1>5, <1>6, <1>7, <1>8, <1>9, <1>10, <1>11, <1>12 DEF IInv

LEMMA EditKeeps ==
  ASSUME IInv, NEW f \in Files, Edit(f)
  PROVE  IInv' /\ Spares
<1>1. /\ UNCHANGED <<kind, raw, canon, manifest, mem, disk, rw, work, moved, hurt, swept,
                     trampled>>
      /\ Counts
      /\ local' \in [Files -> Contents]
  BY Room1, Numbers
  DEF IInv, Edit, remote, owner, ghosts, Typed, TypedRest, Contents, Event, Room,
      Initial
<1>2. /\ Source' = Source /\ Target' = Target
      /\ Source # Target /\ Source \in Modes /\ Target \in Modes
  BY <1>1, Codecs DEF IInv
<1>3. Typed'
  BY <1>1, <1>2 DEF IInv, Typed, TypedRemote, TypedOwner, TypedWork, TypedRest, Counts
<1>4. Epochs' /\ Control' /\ Keys' /\ KeyKept' /\ Manifested' /\ ManifestNamesCanonical'
      /\ Sourced' /\ Recorded' /\ Rewriting' /\ Removing' /\ Swept' /\ NothingOldLeft'
      /\ LiveReadable'
  BY <1>1, <1>2
  DEF IInv, Epochs, Control, Keys, KeyKept, Manifested, ManifestNamesCanonical,
      Sourced, Recorded, Rewriting, Removing, Swept, Verified, NothingOldLeft,
      Maintained, LiveReadable
<1>5. Spares
  BY <1>1, <1>2 DEF Spares
<1> QED
  BY <1>3, <1>4, <1>5 DEF IInv

LEMMA OthersCommitKeeps ==
  ASSUME IInv, NEW f \in Files, OthersCommit(f)
  PROVE  IInv' /\ Spares
<1>1. /\ UNCHANGED <<kind, local, manifest, mem, disk, rw, work, swept, trampled>>
      /\ Counts
      /\ moved' \in BOOLEAN
      /\ canon.phase = "none"
      /\ canon' \in Indexes /\ canon'.mode = canon.mode /\ canon'.epoch = canon.epoch
      /\ canon'.phase = canon.phase
      /\ \A g \in Files : g # f => canon'.files[g] = canon.files[g]
      /\ canon'.files[f] = Foreign
      /\ raw' \in [Modes -> [All -> Contents]]
      /\ \A m \in Modes : m # canon.mode => raw'[m] = raw[m]
      /\ raw'[canon.mode][f] = Foreign
      /\ \A g \in All : g # f => raw'[canon.mode][g] = raw[canon.mode][g]
      /\ hurt' = hurt \ {f}
      /\ canon.epoch # "e2"
  BY Room1, Numbers
  DEF IInv, OthersCommit, Maintained, owner, Typed, TypedRemote, Indexes, All
<1>2. /\ Source' = Source /\ Target' = Target
      /\ Source # Target /\ Source \in Modes /\ Target \in Modes
  BY <1>1, Codecs DEF IInv
<1>3. Typed'
  BY <1>1, <1>2 DEF IInv, Typed, TypedRemote, TypedOwner, TypedWork, TypedRest, Counts
<1>4. Keys' /\ Manifested'
  BY <1>1, <1>2 DEF IInv, Keys, Manifested
<1>5. Epochs'
  BY <1>1, <1>2 DEF IInv, Epochs
<1>6. Control'
  BY <1>1, <1>2 DEF IInv, Control
<1>7. KeyKept'
  BY <1>1, <1>2 DEF IInv, KeyKept
<1>8. ManifestNamesCanonical'
  BY <1>1, <1>2 DEF IInv, ManifestNamesCanonical
<1>9. Sourced'
  BY <1>1, <1>2 DEF IInv, Sourced, All, Epochs
<1>10. Recorded'
  BY <1>1, <1>2 DEF IInv, Recorded, Epochs
<1>11. Rewriting'
  BY <1>1, <1>2 DEF IInv, Rewriting, Epochs, Control, Running
<1>12. Removing'
  BY <1>1, <1>2 DEF IInv, Removing, Epochs, Control, Backward
<1>13. Swept'
  BY <1>1, <1>2 DEF IInv, Swept, Verified, Epochs, Control, Cleanup, Indexes
<1>14. NothingOldLeft'
  BY <1>1, <1>2 DEF IInv, NothingOldLeft, Maintained, Epochs
<1>15. LiveReadable'
  BY <1>1, <1>2 DEF IInv, LiveReadable, Live, Epochs, All
<1>16. Spares
  BY <1>1, <1>2, Numbers DEF Spares, IInv
<1> QED
  BY <1>3, <1>4, <1>5, <1>6, <1>7, <1>8, <1>9, <1>10, <1>11, <1>12, <1>13, <1>14,
     <1>15, <1>16
  DEF IInv

LEMMA SuccessorKeeps ==
  ASSUME IInv, Successor
  PROVE  IInv' /\ Spares
<1>1. /\ UNCHANGED <<kind, local, mem, disk, rw, work, moved, swept, trampled>>
      /\ Counts
      /\ kind = "disable" /\ canon.epoch = "e1" /\ canon.phase = "none"
      /\ manifest' \in Manifests /\ manifest' = Stable("new")
      /\ canon' \in Indexes /\ canon'.mode = "new" /\ canon'.epoch = "e2"
      /\ canon'.phase = "none" /\ canon'.files = canon.files
      /\ raw' \in [Modes -> [All -> Contents]] /\ raw'[Source] = raw[Source]
      /\ \A f \in Files : raw'["new"][f] = canon.files[f]
      /\ hurt' \subseteq Files
  <2>0. /\ raw \in [Modes -> [All -> Contents]] /\ canon \in Indexes
        /\ Nil \in Contents /\ Files \subseteq All
    BY Numbers DEF IInv, Typed, TypedRemote, All
  <2>1. kind = "disable" /\ Source = "old"
    BY Codecs DEF IInv, Successor
  <2>2. Counts
    BY Room1 DEF IInv, Successor
  <2>3. Stable("new") \in Manifests
    BY Published DEF Modes
  <2>4. /\ canon' \in Indexes /\ canon'.mode = "new" /\ canon'.epoch = "e2"
        /\ canon'.phase = canon.phase /\ canon'.files = canon.files
    BY <2>0 DEF Successor, Indexes, Modes
  <2> DEFINE new == [f \in All |-> IF f \in Files THEN canon.files[f] ELSE Nil]
             plain == [f \in All |-> IF f \in Files THEN Nil ELSE raw["plain"][f]]
  <2>5. new \in [All -> Contents] /\ plain \in [All -> Contents]
    BY <2>0 DEF Indexes, Modes
  <2>6. raw' = [raw EXCEPT !["new"] = new, !["plain"] = plain]
    BY <2>0 DEF Successor, Modes
  <2>7. \A f \in Files : new[f] = canon.files[f]
    BY <2>0
  <2> HIDE DEF new, plain
  <2>8. /\ raw' \in [Modes -> [All -> Contents]] /\ raw'["old"] = raw["old"]
        /\ raw'["new"] = new
    BY <2>0, <2>5, <2>6 DEF Modes
  <2> QED
    BY <2>1, <2>2, <2>3, <2>4, <2>7, <2>8 DEF Successor, Maintained, owner
<1>2. /\ Source' = Source /\ Target' = Target
      /\ Source # Target /\ Source \in Modes /\ Target \in Modes
  BY <1>1, Codecs DEF IInv
<1>3. Typed'
  BY <1>1, <1>2 DEF IInv, Typed, TypedRemote, TypedOwner, TypedWork, TypedRest, Counts
<1>4. Keys'
  BY <1>1, <1>2 DEF IInv, Keys
<1>5. Epochs'
  BY <1>1, <1>2 DEF IInv, Epochs
<1>6. Control'
  BY <1>1, <1>2 DEF IInv, Control
<1>7. KeyKept'
  BY <1>1, <1>2 DEF IInv, KeyKept
<1>8. Manifested'
  BY <1>1, <1>2 DEF IInv, Manifested, Control, Running
<1>9. ManifestNamesCanonical'
  BY <1>1, <1>2, Published DEF IInv, ManifestNamesCanonical, Modes
<1>10. Sourced'
  BY <1>1, <1>2 DEF IInv, Sourced
<1>11. Recorded'
  BY <1>1, <1>2 DEF IInv, Recorded
<1>12. Rewriting'
  BY <1>1, <1>2 DEF IInv, Rewriting, Control, Running
<1>13. Removing'
  BY <1>1, <1>2 DEF IInv, Removing, Control, Backward
<1>14. Swept'
  BY <1>1, <1>2 DEF IInv, Swept, Verified
<1>15. NothingOldLeft'
  BY <1>1, <1>2 DEF IInv, NothingOldLeft, Maintained
<1>16. LiveReadable'
  BY <1>1, <1>2 DEF IInv, LiveReadable, Live
<1>17. Spares
  BY <1>1, <1>2 DEF Spares
<1> QED
  BY <1>3, <1>4, <1>5, <1>6, <1>7, <1>8, <1>9, <1>10, <1>11, <1>12, <1>13, <1>14,
     <1>15, <1>16, <1>17
  DEF IInv

LEMMA LateUploadKeeps ==
  ASSUME IInv, NEW f \in All, LateUpload(f)
  PROVE  IInv' /\ Spares
<1>1. /\ UNCHANGED <<kind, local, canon, manifest, mem, disk, rw, work, moved, hurt,
                     trampled>>
      /\ Counts
      /\ raw' \in [Modes -> [All -> Contents]] /\ raw'[Target] = raw[Target]
      /\ \A m \in Modes : m # Source => raw'[m] = raw[m]
      /\ raw'[Source][f] = Foreign
      /\ \A g \in All : g # f => raw'[Source][g] = raw[Source][g]
      /\ swept' \in [{"a", "b", "end"} -> SUBSET Files]
      /\ \A d \in {"a", "b", "end"} : swept[d] \subseteq swept'[d]
         /\ (d = "end" \/ Verified(d) => f \in swept'[d] \/ f \notin Files)
  BY Room1, Numbers, Codecs DEF IInv, LateUpload, owner, Typed, TypedRemote, TypedRest
<1>2. /\ Source' = Source /\ Target' = Target
      /\ Source # Target /\ Source \in Modes /\ Target \in Modes
  BY <1>1, Codecs DEF IInv
<1>3. Typed'
  BY <1>1, <1>2 DEF IInv, Typed, TypedRemote, TypedOwner, TypedWork, TypedRest, Counts
<1>4. Epochs' /\ Control' /\ Keys' /\ KeyKept' /\ Manifested' /\ ManifestNamesCanonical'
  BY <1>1, <1>2
  DEF IInv, Epochs, Control, Keys, KeyKept, Manifested, ManifestNamesCanonical
<1>5. Sourced'
  BY <1>1, <1>2, Numbers DEF IInv, Sourced, All
<1>6. Recorded'
  BY <1>1, <1>2 DEF IInv, Recorded
<1>7. Rewriting'
  BY <1>1, <1>2 DEF IInv, Rewriting
<1>8. Removing'
  BY <1>1, <1>2 DEF IInv, Removing
<1>9. Swept'
  BY <1>1, <1>2 DEF IInv, Swept, Verified, All
<1>10. NothingOldLeft'
  BY <1>1, <1>2 DEF IInv, NothingOldLeft, Maintained, All
<1>11. LiveReadable'
  <2>1. canon' = canon /\ hurt' = hurt /\ Foreign # Nil /\ Files \subseteq All
    BY <1>1, Numbers DEF All
  <2>2. LiveReadable
    BY DEF IInv
  <2>3. CASE canon.epoch = "e0"
    <3>1. \A g \in Files : raw[Source][g] # Nil => raw'[Source][g] # Nil
      BY <1>1, <2>1
    <3> QED
      BY <1>2, <2>1, <2>2, <2>3, <3>1 DEF LiveReadable, Live
  <2>4. CASE canon.epoch # "e0"
    <3>1. canon.epoch \in {"e0", "e1", "e2"}
      BY DEF IInv, Typed, TypedRemote, Indexes
    <3>2. canon.mode # Source /\ canon.mode \in Modes
      BY <1>2, <2>4, <3>1 DEF IInv, Epochs, Source, Modes
    <3>3. raw'[canon.mode] = raw[canon.mode]
      BY <1>1, <3>2
    <3> QED
      BY <2>1, <2>2, <2>4, <3>3 DEF LiveReadable, Live
  <2> QED
    BY <2>3, <2>4
<1>12. Spares
  BY <1>1, <1>2, Numbers DEF Spares
<1> QED
  BY <1>3, <1>4, <1>5, <1>6, <1>7, <1>8, <1>9, <1>10, <1>11, <1>12 DEF IInv

LEMMA DamageKeeps ==
  ASSUME IInv, NEW f \in Files, Damage(f)
  PROVE  IInv' /\ Spares
<1>1. /\ UNCHANGED <<kind, local, canon, manifest, mem, disk, rw, work, moved, swept,
                     trampled>>
      /\ Counts
      /\ raw' \in [Modes -> [All -> Contents]] /\ raw'[Source] = raw[Source]
      /\ raw[Target][f] # Nil
      /\ \A g \in All : g # f => raw'[Target][g] = raw[Target][g]
      /\ hurt' = hurt \cup {f}
      /\ canon.epoch # "e2"
  <2>0. /\ raw \in [Modes -> [All -> Contents]] /\ f \in All
        /\ {Nil, Junk} \subseteq Contents
        /\ Source \in Modes /\ Target \in Modes /\ Source # Target
    BY Numbers, Codecs DEF IInv, Typed, TypedRemote, All
  <2>1. PICK c \in {Nil, Junk} : raw' = [raw EXCEPT ![Target][f] = c]
    BY DEF Damage
  <2>2. /\ raw' \in [Modes -> [All -> Contents]] /\ raw'[Source] = raw[Source]
        /\ \A g \in All : g # f => raw'[Target][g] = raw[Target][g]
    BY <2>0, <2>1
  <2>3. Counts
    BY Room1 DEF IInv, Damage
  <2> QED
    BY <2>2, <2>3 DEF Damage, owner
<1>2. /\ Source' = Source /\ Target' = Target
      /\ Source # Target /\ Source \in Modes /\ Target \in Modes
  BY <1>1, Codecs DEF IInv
<1>3. Typed'
  BY <1>1, <1>2 DEF IInv, Typed, TypedRemote, TypedOwner, TypedWork, TypedRest, Counts
<1>4. Epochs' /\ Control' /\ Keys' /\ KeyKept' /\ Manifested' /\ ManifestNamesCanonical'
  BY <1>1, <1>2
  DEF IInv, Epochs, Control, Keys, KeyKept, Manifested, ManifestNamesCanonical
<1>5. Sourced'
  BY <1>1, <1>2 DEF IInv, Sourced
<1>6. Recorded'
  BY <1>1, <1>2 DEF IInv, Recorded
<1>7. Rewriting'
  BY <1>1, <1>2 DEF IInv, Rewriting, All, Live
<1>8. Removing'
  BY <1>1, <1>2 DEF IInv, Removing
<1>9. Swept'
  BY <1>1, <1>2 DEF IInv, Swept, Verified
<1>10. NothingOldLeft'
  BY <1>1, <1>2 DEF IInv, NothingOldLeft, Maintained
<1>11. LiveReadable'
  BY <1>1, <1>2 DEF IInv, Typed, TypedRemote, LiveReadable, Live, Epochs, Indexes, All
<1>12. Spares
  BY <1>1, <1>2 DEF Spares
<1> QED
  BY <1>3, <1>4, <1>5, <1>6, <1>7, <1>8, <1>9, <1>10, <1>11, <1>12 DEF IInv

\* Nothing happens.
LEMMA StutterKeeps ==
  ASSUME IInv, UNCHANGED vars
  PROVE  IInv' /\ Spares
<1>1. /\ UNCHANGED <<kind, local, raw, canon, manifest, mem, disk, rw, work, moved, hurt,
                     swept, trampled, used>>
  BY DEF IInv, vars
<1>2. /\ Source' = Source /\ Target' = Target
      /\ Source # Target /\ Source \in Modes /\ Target \in Modes
  BY <1>1, Codecs DEF IInv
<1>3. Typed'
  BY <1>1, <1>2 DEF IInv, Typed, TypedRemote, TypedOwner, TypedWork, TypedRest
<1>4. Epochs' /\ Control' /\ Keys' /\ KeyKept' /\ Manifested' /\ ManifestNamesCanonical'
      /\ Sourced' /\ Recorded' /\ Rewriting' /\ Removing' /\ Swept' /\ NothingOldLeft'
      /\ LiveReadable'
  BY <1>1, <1>2
  DEF IInv, Epochs, Control, Keys, KeyKept, Manifested, ManifestNamesCanonical,
      Sourced, Recorded, Rewriting, Removing, Swept, Verified, NothingOldLeft,
      Maintained, LiveReadable
<1>5. Spares
  BY <1>1, <1>2 DEF Spares
<1> QED
  BY <1>3, <1>4, <1>5 DEF IInv

-----------------------------------------------------------------------------
(* Actions that are one of the above in each case. *)

LEMMA ClearKeeps ==
  ASSUME IInv, Clear, UNCHANGED <<kind, local>>
  PROVE  IInv' /\ Spares
<1>1. canon.epoch # "e0" /\ mem.mode = Target
  BY DEF IInv, Control, Keys, Clear
<1>2. canon.mode = mem.mode \/ canon.epoch = "e2"
  BY <1>1 DEF IInv, Epochs, Typed, TypedRemote, Indexes
<1> QED
  BY <1>1, <1>2, DropKeeps DEF Clear

LEMMA RetireKeeps ==
  ASSUME IInv, Retire, UNCHANGED <<kind, local>>
  PROVE  IInv' /\ Spares
<1>1. CASE Retirable
  <2>1. canon.epoch = "e1" /\ canon.mode = mem.mode
    BY <1>1 DEF IInv, Epochs, Keys, Retire, Retirable
  <2> QED
    BY <1>1, <2>1, DropKeeps DEF Retire
<1>2. CASE ~Retirable
  BY <1>2, AbortKeeps DEF Retire
<1> QED
  BY <1>1, <1>2

LEMMA UnchangedKeeps ==
  ASSUME IInv, Unchanged, UNCHANGED <<kind, local>>
  PROVE  IInv' /\ Spares
<1>1. CASE Untouched
  <2>1. canon.mode = mem.mode
    BY <1>1 DEF IInv, Epochs, Keys, Backward, Unchanged, Untouched
  <2> QED
    BY <1>1, <2>1, DropKeeps DEF Unchanged, Untouched
<1>2. CASE ~Untouched
  BY <1>2, AbortKeeps DEF Unchanged
<1> QED
  BY <1>1, <1>2

LEMMA UndoneKeeps ==
  ASSUME IInv, Undone, UNCHANGED <<kind, local>>
  PROVE  IInv' /\ Spares
<1>1. canon.mode = mem.mode /\ \A f \in All : raw[Target][f] = Nil
  BY DEF IInv, Epochs, Control, Keys, Removing, Backward, Undone
<1> QED
  BY <1>1, DropKeeps DEF Undone

LEMMA RewriteKeeps ==
  ASSUME IInv, Rewrite, UNCHANGED <<kind, local>>
  PROVE  IInv' /\ Spares
<1>1. PICK f \in Files : Read(f) \/ Put(f) \/ Check(f)
  BY DEF Rewrite
<1> QED
  BY <1>1, ReadKeeps, PutKeeps, CheckKeeps DEF Rewrite

\* The initial states have all of it.
LEMMA Begins == Init => IInv
<1> SUFFICES ASSUME Init PROVE IInv
  OBVIOUS
<1>1. /\ kind \in {"enable", "rotate", "disable"} /\ kind \in Kinds
      /\ Source \in Modes /\ Target \in Modes /\ Source # Target
  BY EncryptionAssumption DEF Init, Source, Target, Modes
<1>2. TypedRemote
  <2>1. canon \in Indexes
    BY <1>1, Numbers DEF Init, Indexes
  <2>2. raw \in [Modes -> [All -> Contents]]
    BY <1>1, Numbers DEF Init
  <2>3. manifest \in Manifests
    BY <1>1 DEF Init, Source, Stable, NoManifest, Manifests, Modes, Phases
  <2> QED
    BY <2>1, <2>2, <2>3 DEF TypedRemote
<1>3. TypedOwner
  BY <1>1, Constants DEF Init, TypedOwner, Stores
<1>4. TypedWork
  <2> DEFINE w == [Off EXCEPT !.pc = "idle", !.again = FALSE]
  <2>1. w \in Works /\ work = [a |-> w, b |-> Off]
    BY Constants DEF Init, Works, Steps
  <2> HIDE DEF w
  <2> QED
    BY <2>1, Constants DEF TypedWork
<1>5. TypedRest
  <2>1. local \in [Files -> Contents]
    BY Numbers DEF Init
  <2>2. swept \in [{"a", "b", "end"} -> SUBSET Files]
    BY DEF Init
  <2>3. used \in [event : 0 .. MaxEvent, help : Nat, fault : Nat]
    BY Numbers DEF Init
  <2> QED
    BY <1>1, <2>1, <2>2, <2>3 DEF Init, TypedRest
<1>6. work.a.pc = "idle" /\ work.b.pc = "off"
  BY Constants DEF Init, Works
<1>7. Typed /\ Epochs /\ Control /\ Keys /\ KeyKept
  BY <1>1, <1>2, <1>3, <1>4, <1>5, <1>6, Constants
     DEF Typed, Init, Epochs, Control, Running, Cleanup, Backward, Keys, KeyKept
<1>8. Manifested /\ ManifestNamesCanonical
  BY <1>6 DEF Init, Manifested, ManifestNamesCanonical, Stable, NoManifest
<1>9. \A f \in All : raw[Source][f] = Initial /\ raw[Target][f] = Nil
  BY <1>1 DEF Init
<1>10. Sourced /\ Recorded /\ Rewriting /\ Removing
  BY <1>6, <1>9 DEF Init, Sourced, Recorded, Rewriting, Removing, All
<1>11. Swept /\ NothingOldLeft /\ LiveReadable
  BY <1>6, <1>9 DEF Init, Swept, Verified, NothingOldLeft, LiveReadable, Live, All
<1> QED
  BY <1>7, <1>8, <1>10, <1>11 DEF IInv

-----------------------------------------------------------------------------
(* The deletions: what is removed, and who has named it.  First the steps that *)
(* are calm, then those that list, name or land something.                     *)

\* What a calm step leaves as it is.
LEMMA CalmKeeps ==
  ASSUME IInv, IInv', Listed, Standing, Unseen, Calm
  PROVE  Listed' /\ Standing' /\ Unseen'
<1>1. Source' = Source
  BY Codecs DEF IInv, Calm
<1>2. Listed'
  <2>1. canon'.epoch = "e0" => \A f \in Files : raw'[Source][f] # Nil
    BY DEF Calm, Listed
  <2>2. work'.a.pc \in Early => \A f \in Files : mem'.trans.source[f] # Nil
    BY DEF Calm, Still, Listed
  <2>3. work'.a.pc \in Late => \A t \in {mem'.trans, disk'.trans} : t.dels = Files
    <3> SUFFICES ASSUME work'.a.pc \in Late, NEW t \in {mem'.trans, disk'.trans}
                 PROVE  t.dels = Files
      OBVIOUS
    <3>1. mem'.trans.phase # "none" /\ disk'.trans.phase # "none"
      BY DEF IInv, Keys, Late
    <3>2. t # NoTrans
      BY <3>1 DEF NoTrans
    <3> QED
      BY <3>2 DEF Calm, Still, Lasting, Listed
  <2> QED
    BY <1>1, <2>1, <2>2, <2>3 DEF Listed
<1>3. Standing'
  <2> SUFFICES ASSUME canon'.epoch # "e0", NEW f \in Files \ landed', raw'[Source'][f] # Nil
               PROVE  /\ canon'.phase \in Committed /\ f \in canon'.dels
                      /\ \A t \in {mem'.trans, disk'.trans} : t # NoTrans => f \in t.dels
    BY DEF Standing
  <2>1. /\ canon.phase \in Committed /\ f \in canon.dels
        /\ \A t \in {mem.trans, disk.trans} : t # NoTrans => f \in t.dels
    BY <1>1 DEF Calm, Standing
  <2> QED
    BY <2>1 DEF Calm, Lasting
<1>4. Unseen'
  BY <1>1 DEF Calm, Still, Unseen
<1> QED
  BY <1>2, <1>3, <1>4

\* Where a step leads.
LEMMA Stills ==
  ASSUME Typed, NEW d \in {"a", "b"}, NEW p, Goes(d, p), p \notin {"purge", "finish"},
         d = "a" => /\ p \in Early => work.a.pc \in Early
                    /\ p \in Late => work.a.pc \in Late
  PROVE  Still
  BY DEF Goes, Still, Verified

LEMMA StillOff ==
  ASSUME Typed, NEW d \in {"a", "b"}, Goes(d, "off")
  PROVE  Still
  BY Stills DEF Early, Late

\* The store is as it was, or has lost what was not saved.
LEMMA Lasts ==
  ASSUME UNCHANGED <<mem, disk>>
  PROVE  Lasting
  BY DEF Lasting

LEMMA LastsWith ==
  ASSUME mem'.trans # NoTrans => mem.trans # NoTrans /\ mem'.trans.dels = mem.trans.dels,
         disk' = disk \/ disk' = mem'
  PROVE  Lasting
  BY DEF Lasting

\* A step that touches neither the store nor the source.
LEMMA CalmOutside ==
  ASSUME Still, UNCHANGED <<kind, canon, mem, disk, landed>>, raw'[Source] = raw[Source]
  PROVE  Calm
  BY Lasts DEF Calm

LEMMA CalmAborts ==
  ASSUME IInv, NEW d \in {"a", "b"}, Abort(d), UNCHANGED <<kind, local, landed>>
  PROVE  Calm
<1>1. UNCHANGED <<raw, canon, mem, disk>> /\ Goes(d, "off")
  BY Aborts DEF IInv
<1> QED
  BY <1>1, StillOff, CalmOutside DEF IInv

\* A save of the checkpoint under the same list.
LEMMA CalmSaves ==
  ASSUME IInv, NEW t \in Transitions, NEW m, NEW w \in Works, Persist(m, w),
         m.trans = t, t # NoTrans => mem.trans # NoTrans /\ t.dels = mem.trans.dels,
         w.pc \in Early => work.a.pc \in Early /\ t.source = mem.trans.source,
         w.pc \in Late => work.a.pc \in Late,
         w.pc \notin {"purge", "finish"},
         UNCHANGED <<kind, local, canon, raw, landed>>
  PROVE  Calm
<1>1. /\ mem' = m
      /\ \/ disk' = m /\ Goes("a", w.pc) /\ work'.a = w
         \/ disk' = disk /\ Goes("a", "off")
  BY Persists DEF IInv
<1>2. Lasting
  BY <1>1, LastsWith
<1>3. Still
  BY <1>1, Stills, StillOff DEF IInv
<1>4. work'.a.pc \in Early => mem'.trans.source = mem.trans.source
  BY <1>1 DEF Early, Goes
<1> QED
  BY <1>2, <1>3, <1>4 DEF Calm

\* The owner up to the commit.
LEMMA CalmForward ==
  ASSUME IInv, IInv', UNCHANGED <<kind, local, landed>>,
         Announce \/ ApplyTarget \/ Copied \/ Forecast
  PROVE  Calm
<1>1. CASE Announce
  <2>1. UNCHANGED <<raw, canon, mem, disk>> /\ work.a.pc = "announce"
        /\ (Goes("a", "off") \/ Goes("a", "apply"))
    BY <1>1, AnswersAt DEF IInv, Announce, owner, Steps, Running
  <2>2. Still
    BY <2>1, Stills, StillOff DEF IInv, Early, Late
  <2> QED
    BY <2>1, <2>2, CalmOutside
<1>2. CASE Forecast
  <2>1. UNCHANGED <<raw, canon, mem, disk>> /\ work.a.pc = "forecast"
        /\ (Goes("a", "off") \/ Goes("a", "commit"))
    BY <1>2, AnswersAt DEF IInv, Forecast, owner, Steps, Running
  <2>2. Still
    BY <2>1, Stills, StillOff DEF IInv, Early, Late
  <2> QED
    BY <2>1, <2>2, CalmOutside
<1>3. CASE ApplyTarget
  <2> DEFINE m == [mem EXCEPT !.mode = Target]
  <2>1. m.trans = mem.trans /\ mem.trans \in Transitions
    BY DEF IInv, Typed, TypedOwner, Stores
  <2>2. At("a", "resolve") \in Works /\ At("a", "resolve").pc = "resolve"
    BY Places DEF IInv, Steps, Running
  <2>3. Persist(m, At("a", "resolve")) /\ UNCHANGED <<raw, canon>>
        /\ work.a.pc = "apply"
    BY <1>3 DEF ApplyTarget, remote
  <2> HIDE DEF m
  <2> QED
    BY <2>1, <2>2, <2>3, CalmSaves DEF Early, Late
<1>4. CASE Copied
  <2>1. UNCHANGED <<raw, canon>> /\ work.a.pc = "rewrite"
    BY <1>4 DEF Copied, remote
  <2>2. CASE Uncopied
    <3>1. UNCHANGED <<mem, disk>> /\ Goes("a", "off")
      BY <1>4, <2>2, Idles DEF IInv, Copied
    <3> QED
      BY <2>1, <3>1, StillOff, CalmOutside DEF IInv
  <2>3. CASE ~Uncopied
    <3> DEFINE t == [mem.trans EXCEPT !.phase = "files-copied"]
    <3>1. t \in Transitions /\ t.dels = mem.trans.dels /\ Phase("files-copied").trans = t
          /\ mem.trans # NoTrans
      <4>1. mem.trans \in Transitions /\ mem \in Stores
        BY DEF IInv, Typed, TypedOwner, Stores
      <4>2. mem.trans # NoTrans
        BY <2>1 DEF IInv, Keys, NoTrans
      <4> QED
        BY <4>1, <4>2 DEF Transitions, Phases, Before, Phase, Trans, Stores
    <3>2. At("a", "forecast") \in Works /\ At("a", "forecast").pc = "forecast"
      BY Places DEF IInv, Steps, Running
    <3>3. Persist(Phase("files-copied"), At("a", "forecast"))
      BY <1>4, <2>3 DEF Copied
    <3> HIDE DEF t
    <3> QED
      BY <2>1, <3>1, <3>2, <3>3, CalmSaves DEF Early, Late
  <2> QED
    BY <2>2, <2>3
<1> QED
  BY <1>1, <1>2, <1>3, <1>4

\* The rewriting of a file keeps the list.
LEMMA CalmRewrite ==
  ASSUME IInv, IInv', UNCHANGED <<kind, local, landed>>, Rewrite
  PROVE  Calm
<1>1. PICK f \in Files : Read(f) \/ Put(f) \/ Check(f)
  BY DEF Rewrite
<1>2. UNCHANGED <<work, canon>> /\ work.a.pc = "rewrite"
  BY <1>1 DEF Rewrite, Read, Put, Check, remote
<1>3. Still
  BY <1>2 DEF Still, Verified
<1>4. mem.trans \in Transitions /\ mem \in Stores /\ mem.trans # NoTrans
  BY <1>2 DEF IInv, Typed, TypedOwner, Stores, Keys, NoTrans
<1>5. CASE Put(f)
  <2>1. UNCHANGED <<mem, disk>> /\ raw'[Source] = raw[Source]
    BY <1>5, Codecs DEF IInv, Typed, TypedRemote, Put
  <2> QED
    BY <1>2, <1>3, <2>1, CalmOutside
<1>6. CASE Read(f) \/ Check(f)
  <2>1. raw' = raw
    BY <1>6 DEF Read, Check, remote
  <2>2. \/ UNCHANGED <<mem, disk>>
        \/ /\ mem'.trans.dels = mem.trans.dels
           /\ disk' = disk \/ disk' = mem'
    <3> DEFINE t1 == [mem.trans EXCEPT !.ref[f] = Nil, !.mapped = @ \ {f}]
               t2 == [mem.trans EXCEPT !.ref[f] = local[f]]
               t3 == [mem.trans EXCEPT !.proofs = @ \cup {f}]
    <3>1. t1.dels = mem.trans.dels /\ t2.dels = mem.trans.dels
          /\ t3.dels = mem.trans.dels
      BY <1>4 DEF Transitions
    <3>2. Trans(t1).trans = t1 /\ Trans(t2).trans = t2 /\ Trans(t3).trans = t3
      BY <1>4 DEF Trans, Stores
    <3>3. \/ UNCHANGED <<mem, disk>>
          \/ /\ mem' = Trans(t1) \/ mem' = Trans(t2) \/ mem' = Trans(t3)
             /\ disk' = disk \/ disk' = mem'
      BY <1>6 DEF Read, Check, PersistFile
    <3> HIDE DEF t1, t2, t3
    <3> QED
      BY <3>1, <3>2, <3>3
  <2>3. Lasting
    BY <1>4, <2>2, Lasts, LastsWith
  <2> QED
    BY <1>2, <1>3, <2>1, <2>3 DEF Calm, Early
<1> QED
  BY <1>1, <1>5, <1>6

\* Steps of the owner that change neither the store nor the index.
LEMMA CalmOwner ==
  ASSUME IInv, IInv', UNCHANGED <<kind, local, landed>>,
         Confirm \/ TrailingDelete \/ Restore \/ (\E f \in Files : Undo(f))
  PROVE  Calm
<1>1. CASE Confirm
  <2>1. UNCHANGED <<raw, canon, mem, disk>> /\ (Goes("a", "off") \/ Goes("a", "stable"))
    BY <1>1, AnswersAt DEF IInv, Confirm, owner, Steps, Cleanup
  <2> QED
    BY <2>1, Stills, StillOff, CalmOutside DEF IInv, Early, Late
<1>2. CASE TrailingDelete
  <2>1. [Off EXCEPT !.pc = "end"] \in Works /\ [Off EXCEPT !.pc = "end"].pc = "end"
    BY Constants DEF Works, Steps
  <2>2. UNCHANGED <<raw, canon, mem, disk>> /\ Goes("a", "end")
    BY <1>2, <2>1, Turns DEF IInv, TrailingDelete, owner
  <2> QED
    BY <2>2, Stills, CalmOutside DEF IInv, Early, Late
<1>3. CASE Restore
  <2>1. CASE ~Valid
    BY <1>3, <2>1, CalmAborts DEF Restore
  <2>2. CASE Valid
    <3> DEFINE w == [At("a", "undo") EXCEPT !.todo = mem.trans.proofs]
    <3>1. w \in Works /\ w.pc = "undo"
      BY Places DEF IInv, Steps, Backward, Works, Typed, TypedOwner, Stores, Transitions
    <3>2. Answer("a", w) /\ UNCHANGED <<raw, canon, mem, disk>>
      BY <1>3, <2>2 DEF Restore, owner
    <3> HIDE DEF w
    <3>3. Goes("a", "off") \/ Goes("a", "undo")
      BY <3>1, <3>2, Answers DEF IInv
    <3> QED
      BY <3>2, <3>3, Stills, StillOff, CalmOutside DEF IInv, Early, Late
  <2> QED
    BY <2>1, <2>2
<1>4. CASE \E f \in Files : Undo(f)
  <2>1. PICK f \in Files : Undo(f)
    BY <1>4
  <2>2. CASE Abort("a")
    BY <2>2, CalmAborts
  <2>3. CASE ~Abort("a")
    <3> DEFINE w == [work.a EXCEPT !.todo = @ \ {f}]
    <3>1. work.a \in Works /\ work.a.pc = "undo"
      BY <2>1 DEF IInv, Typed, TypedWork, Undo
    <3>2. w \in Works /\ w.pc = "undo"
      BY <3>1 DEF Works
    <3>3. Answer("a", w) /\ UNCHANGED <<canon, mem, disk>>
          /\ raw' = [raw EXCEPT ![Target][f] = Nil]
      BY <2>1, <2>3 DEF Undo, owner
    <3> HIDE DEF w
    <3>4. Goes("a", "off") \/ Goes("a", "undo")
      BY <3>2, <3>3, Answers DEF IInv
    <3>5. raw'[Source] = raw[Source]
      BY <3>3, Codecs DEF IInv, Typed, TypedRemote
    <3> QED
      BY <3>3, <3>4, <3>5, Stills, StillOff, CalmOutside DEF IInv, Early, Late
  <2> QED
    BY <2>2, <2>3
<1> QED
  BY <1>1, <1>2, <1>3, <1>4

\* Steps of the owner that save a later phase, or a proof, or the end.
LEMMA CalmSaved ==
  ASSUME IInv, IInv', UNCHANGED <<kind, local, landed>>, Note \/ Recover \/ VerifyTargets
  PROVE  Calm
<1>1. mem.trans \in Transitions /\ mem \in Stores
  BY DEF IInv, Typed, TypedOwner, Stores
<1>2. CASE Note
  <2> DEFINE t == [mem.trans EXCEPT !.phase = "index-committed"]
  <2>1. t \in Transitions /\ t.dels = mem.trans.dels
        /\ Phase("index-committed").trans = t
    BY <1>1 DEF Transitions, Phases, Committed, Phase, Trans, Stores
  <2>2. At("a", "confirm") \in Works /\ At("a", "confirm").pc = "confirm"
    BY Places DEF IInv, Steps
  <2>3. mem.trans # NoTrans
    BY <1>2 DEF IInv, Note, Keys, NoTrans
  <2>4. Persist(Phase("index-committed"), At("a", "confirm")) /\ UNCHANGED <<raw, canon>>
    BY <1>2 DEF Note, remote
  <2> HIDE DEF t
  <2> QED
    BY <2>1, <2>2, <2>3, <2>4, CalmSaves DEF Early, Late
<1>3. CASE Recover
  <2>1. PICK mode \in {Source, Target}, next \in {"off", "rollback", "stable", "retire"} :
          Persist(Recovered(mode),
                  [Off EXCEPT !.pc = next,
                              !.held = IF next = "off" THEN NoAuthority ELSE Authority])
    BY <1>3 DEF Recover
  <2> DEFINE w == [Off EXCEPT !.pc = next,
                              !.held = IF next = "off" THEN NoAuthority ELSE Authority]
             m == Recovered(mode)
  <2>2. w \in Works /\ w.pc = next
    BY Constants
    DEF Works, Steps, Backward, Cleanup, Holdings, NoAuthority, Authority, Phases, IInv,
        Typed, TypedRemote, Indexes, Before, Committed
  <2>3. m.trans = mem.trans
    BY <1>1 DEF Recovered, Stores
  <2>4. UNCHANGED <<raw, canon>> /\ mem.trans # NoTrans
    BY <1>3 DEF Recover, remote
  <2>5. Persist(m, w)
    BY <2>1
  <2> HIDE DEF w, m
  <2> QED
    BY <1>1, <2>2, <2>3, <2>4, <2>5, CalmSaves DEF Early, Late
<1>4. CASE VerifyTargets
  <2>1. CASE Abort("a")
    BY <2>1, CalmAborts
  <2>2. CASE ~Abort("a")
    <3> DEFINE t == [mem.trans EXCEPT !.proofs = Proven]
               next == IF work.a.held.phase # "none" THEN At("a", "restore")
                       ELSE IF Present = {} THEN At("a", "unchanged") ELSE Off
    <3>1. t \in Transitions /\ t.dels = mem.trans.dels /\ Trans(t).trans = t
      BY <1>1 DEF Transitions, Proven, Present, Trans, Stores
    <3>2. next \in Works /\ next.pc \in {"restore", "unchanged", "off"}
      BY Constants, Places DEF IInv, Steps, Backward
    <3>3. mem.trans # NoTrans
      BY <1>4 DEF IInv, VerifyTargets, Keys, NoTrans
    <3>4. Persist(Trans(t), next) /\ UNCHANGED <<raw, canon>>
      BY <1>4, <2>2 DEF VerifyTargets, remote
    <3> HIDE DEF t, next
    <3> QED
      BY <3>1, <3>2, <3>3, <3>4, CalmSaves DEF Early, Late
  <2> QED
    BY <2>1, <2>2
<1> QED
  BY <1>2, <1>3, <1>4

LEMMA CalmDrops ==
  ASSUME IInv, UNCHANGED <<kind, local, landed>>, Drop
  PROVE  Calm
<1>1. UNCHANGED <<raw, canon>>
  BY DEF Drop, remote
<1>2. CASE UNCHANGED <<mem, disk>> /\ Become("a", Off)
  BY <1>1, <1>2, Idles, StillOff, CalmOutside DEF IInv
<1>3. CASE ~(UNCHANGED <<mem, disk>> /\ Become("a", Off))
  <2> DEFINE w == [Off EXCEPT !.pc = IF kind = "disable" /\ ~work.a.again
                                     THEN "trailing" ELSE "end"]
  <2>1. w \in Works /\ w.pc \in {"trailing", "end"}
    BY Constants DEF Works, Steps
  <2>2. mem' = Trans(NoTrans) /\ disk' = mem' /\ Become("a", w)
    BY <1>3 DEF Drop
  <2>3. mem'.trans = NoTrans
    BY <2>2 DEF Trans, IInv, Typed, TypedOwner, Stores
  <2> HIDE DEF w
  <2>4. Goes("a", w.pc)
    BY <2>1, <2>2, Turns DEF IInv
  <2>5. Still /\ work'.a.pc \notin Early
    BY <2>1, <2>4, Stills DEF IInv, Early, Late, Goes
  <2>6. Lasting
    BY <2>2, <2>3, LastsWith
  <2> QED
    BY <1>1, <2>5, <2>6 DEF Calm
<1> QED
  BY <1>2, <1>3

LEMMA CalmEnds ==
  ASSUME IInv, UNCHANGED <<kind, local, landed>>, Clear \/ Retire \/ Unchanged \/ Undone
  PROVE  Calm
  BY CalmDrops, CalmAborts DEF Clear, Retire, Unchanged, Undone

\* Steps of both that publish, verify or take over.
LEMMA CalmCleanup ==
  ASSUME IInv, NEW d \in {"a", "b"}, UNCHANGED <<kind, local, landed>>,
         CheckStable(d) \/ PublishStable(d) \/ Verify(d) \/ (d = "b" /\ Help)
  PROVE  Calm
<1>0. work[d] \in Works
  BY DEF IInv, Typed, TypedWork
<1>1. CASE Abort(d)
  BY <1>1, CalmAborts
<1>2. CASE CheckStable(d) /\ ~Abort(d)
  <2>1. UNCHANGED <<raw, canon, mem, disk>> /\ Become(d, At(d, "publish"))
    BY <1>2 DEF CheckStable, remote, owner
  <2>2. Goes(d, "publish")
    BY <2>1, Turns, Places DEF IInv, Steps, Cleanup
  <2> QED
    BY <2>1, <2>2, Stills, CalmOutside DEF IInv, Early, Late
<1>3. CASE PublishStable(d)
  <2>1. UNCHANGED <<raw, canon, mem, disk>> /\ (Goes(d, "off") \/ Goes(d, "cleanup"))
    BY <1>3, AnswersAt DEF IInv, PublishStable, owner, Steps, Cleanup
  <2> QED
    BY <2>1, Stills, StillOff, CalmOutside DEF IInv, Early, Late
<1>4. CASE Verify(d) /\ ~Abort(d)
  <2> DEFINE w == [At(d, "sweep") EXCEPT !.pass = @ + 1]
  <2>1. UNCHANGED <<canon, mem, disk>> /\ raw'[Source] = raw[Source]
    BY <1>4, Codecs DEF IInv, Typed, TypedRemote, Verify, owner
  <2>2. \/ Answer(d, At(d, "finish")) /\ work[d].found = {} /\ work[d].pc = "purge"
        \/ Become(d, Off)
        \/ Answer(d, w) /\ work[d].pass # Passes - 1
    BY <1>4 DEF Verify
  <2>3. work[d].pass # Passes - 1 => w \in Works /\ w.pc = "sweep"
    <3> DEFINE v == At(d, "sweep")
    <3>1. v \in Works /\ v.pc = "sweep" /\ v.pass = work[d].pass
      BY Places DEF IInv, Steps, Cleanup
    <3> HIDE DEF v
    <3>2. work[d].pass # Passes - 1 => [v EXCEPT !.pass = @ + 1] \in Works
                                       /\ [v EXCEPT !.pass = @ + 1].pc = "sweep"
      BY <3>1 DEF Works, Passes
    <3> QED
      BY <3>2 DEF v
  <2> HIDE DEF w
  <2>4. CASE Answer(d, At(d, "finish")) /\ work[d].found = {} /\ work[d].pc = "purge"
    <3>1. Goes(d, "off") \/ Goes(d, "finish")
      BY <2>4, AnswersAt DEF IInv, Steps, Cleanup
    <3>2. Still
      BY <2>4, <3>1, StillOff DEF IInv, Still, Goes, Verified, Early, Late
    <3> QED
      BY <2>1, <3>2, CalmOutside
  <2>5. CASE Become(d, Off)
    BY <2>1, <2>5, Idles, StillOff, CalmOutside DEF IInv
  <2>6. CASE Answer(d, w) /\ work[d].pass # Passes - 1
    <3>1. Goes(d, "off") \/ Goes(d, "sweep")
      BY <2>3, <2>6, Answers DEF IInv
    <3> QED
      BY <2>1, <3>1, Stills, StillOff, CalmOutside DEF IInv, Early, Late
  <2> QED
    BY <2>2, <2>4, <2>5, <2>6
<1>5. CASE d = "b" /\ Help
  <2>1. UNCHANGED <<raw, canon, mem, disk>>
    BY <1>5 DEF Help, remote, owner
  <2>2. PICK p \in {"stable", "sweep", "cleanup"} :
          Become("b", [At("b", p) EXCEPT !.held = Authority])
    BY <1>5 DEF Help
  <2> DEFINE w == [At("b", p) EXCEPT !.held = Authority]
  <2>3. w \in Works /\ w.pc = p
    <3> DEFINE v == At("b", p)
    <3>1. v \in Works /\ v.pc = p
      BY Places DEF IInv, Steps, Cleanup
    <3>2. Authority \in Holdings
      BY DEF Authority, Holdings, Phases, Before, Committed, IInv, Typed, TypedRemote,
             Indexes
    <3> HIDE DEF v
    <3>3. [v EXCEPT !.held = Authority] \in Works /\ [v EXCEPT !.held = Authority].pc = p
      BY <3>1, <3>2 DEF Works
    <3> QED
      BY <3>3 DEF v
  <2>4. Become("b", w)
    BY <2>2
  <2> HIDE DEF w
  <2>5. Goes("b", p)
    BY <2>3, <2>4, Turns DEF IInv
  <2> QED
    BY <1>5, <2>1, <2>5, Stills, CalmOutside DEF IInv
<1> QED
  BY <1>1, <1>2, <1>3, <1>4, <1>5

\* Failures, restarts, edits and damage.
LEMMA CalmFaults ==
  ASSUME IInv, UNCHANGED landed,
         \/ FaultStep
         \/ \E f \in Files : Edit(f) \/ Damage(f)
  PROVE  Calm
<1>1. CASE Crash /\ UNCHANGED <<kind, local>>
  <2> DEFINE w == IF disk.trans = NoTrans THEN [Off EXCEPT !.pc = "end"] ELSE Off
  <2>1. w \in Works /\ w.pc \in {"off", "end"}
    BY Constants DEF Works, Steps
  <2>2. UNCHANGED <<raw, canon, disk>> /\ mem' = disk /\ Become("a", w)
    BY <1>1 DEF Crash, remote
  <2> HIDE DEF w
  <2>3. Goes("a", w.pc)
    BY <2>1, <2>2, Turns DEF IInv
  <2>4. Still /\ work'.a.pc \notin Early
    BY <2>1, <2>3, Stills DEF IInv, Early, Late, Goes
  <2> QED
    BY <1>1, <2>2, <2>4 DEF Calm, Lasting
<1>2. CASE (Refused("a") \/ Refused("b")) /\ UNCHANGED <<kind, local>>
  <2>1. PICK d \in {"a", "b"} : Refused(d)
    BY <1>2
  <2>2. UNCHANGED <<raw, canon, mem, disk>> /\ Goes(d, "off")
    BY <2>1, Idles DEF IInv, Refused, remote
  <2> QED
    BY <1>2, <2>2, StillOff, CalmOutside DEF IInv
<1>3. CASE \E f \in Files : Edit(f) \/ Damage(f)
  <2>1. UNCHANGED <<kind, canon, mem, disk, work>> /\ raw'[Source] = raw[Source]
    BY <1>3, Codecs DEF IInv, Typed, TypedRemote, Edit, Damage, remote, owner
  <2>2. Still
    BY <2>1 DEF Still, Verified
  <2> QED
    BY <2>1, <2>2, CalmOutside
<1> QED
  BY <1>1, <1>2, <1>3 DEF FaultStep

\* A step before the commit that removes nothing and lists what it lists.
LEMMA BeforeKeeps ==
  ASSUME IInv, Listed, Unseen, UNCHANGED <<kind, raw, landed>>,
         canon.epoch = "e0", canon'.epoch = "e0",
         \A d \in {"a", "b"} : Verified(d)' => Verified(d),
         work'.a.pc \in Early => \A f \in Files : mem'.trans.source[f] # Nil,
         work'.a.pc \in Late => \A t \in {mem'.trans, disk'.trans} : t.dels = Files
  PROVE  Listed' /\ Standing' /\ Unseen'
<1>1. Source' = Source
  BY Codecs DEF IInv
<1> QED
  BY <1>1 DEF Listed, Standing, Unseen

LEMMA ListsBegin ==
  ASSUME IInv, Listed, Unseen, Begin, UNCHANGED <<kind, local, landed>>
  PROVE  Listed' /\ Standing' /\ Unseen'
<1> DEFINE t == [NoTrans EXCEPT !.phase = "prepared", !.ref = local, !.source = raw[Source]]
<1>1. t.source = raw[Source]
  BY DEF NoTrans
<1>2. Trans(t).trans = t
  BY DEF Trans, IInv, Typed, TypedOwner, Stores
<1>3. /\ mem' = Trans(t) /\ UNCHANGED <<raw, canon>> /\ work.a.pc = "idle"
      /\ Goes("a", "claim") \/ Goes("a", "off")
  BY PersistsAt DEF IInv, Begin, remote, Steps, Running
<1> HIDE DEF t
<1>4. canon.epoch = "e0"
  BY <1>3 DEF IInv, Control
<1>5. \A d \in {"a", "b"} : Verified(d)' => Verified(d)
  BY <1>3 DEF Goes, Verified
<1>6. work'.a.pc \notin Late
  BY <1>3 DEF Goes, Late
<1>7. \A f \in Files : mem'.trans.source[f] # Nil
  BY <1>1, <1>2, <1>3, <1>4 DEF Listed
<1> QED
  BY <1>3, <1>4, <1>5, <1>6, <1>7, BeforeKeeps

LEMMA ListsClaim ==
  ASSUME IInv, IInv', Listed, Standing, Unseen, Claim, UNCHANGED <<kind, local, landed>>
  PROVE  Listed' /\ Standing' /\ Unseen'
<1>1. CASE Abort("a")
  BY <1>1, CalmAborts, CalmKeeps
<1>2. CASE ~Abort("a")
  <2> DEFINE w == [At("a", "announce") EXCEPT !.held.phase = "prepared"]
  <2>1. Persist(mem, w) /\ UNCHANGED raw /\ canon' = [canon EXCEPT !.phase = "prepared"]
        /\ work.a.pc = "claim"
    BY <1>2 DEF Claim
  <2>2. w \in Works /\ w.pc = "announce"
    <3> DEFINE v == At("a", "announce")
    <3>1. v \in Works /\ v.pc = "announce"
      BY Places DEF IInv, Steps, Running
    <3> HIDE DEF v
    <3>2. [v EXCEPT !.held.phase = "prepared"] \in Works
          /\ [v EXCEPT !.held.phase = "prepared"].pc = "announce"
      BY <3>1 DEF Works, Holdings, Phases, Before
    <3> QED
      BY <3>2 DEF v
  <2> HIDE DEF w
  <2>3. mem' = mem /\ (Goes("a", "announce") \/ Goes("a", "off"))
    BY <2>1, <2>2, Persists DEF IInv
  <2>4. canon.epoch = "e0" /\ canon'.epoch = "e0"
    BY <2>1 DEF IInv, Control, Running, Typed, TypedRemote, Indexes
  <2>5. \A d \in {"a", "b"} : Verified(d)' => Verified(d)
    BY <2>1, <2>3 DEF Goes, Verified
  <2>6. work'.a.pc \notin Late
    BY <2>3 DEF Goes, Late
  <2>7. \A f \in Files : mem'.trans.source[f] # Nil
    BY <2>1, <2>3 DEF Listed, Early
  <2> QED
    BY <2>1, <2>4, <2>5, <2>6, <2>7, BeforeKeeps
<1> QED
  BY <1>1, <1>2

LEMMA ListsResolve ==
  ASSUME IInv, Listed, Unseen, Resolve, UNCHANGED <<kind, local, landed>>
  PROVE  Listed' /\ Standing' /\ Unseen'
<1>1. UNCHANGED <<raw, canon>> /\ work.a.pc = "resolve"
  BY DEF Resolve, remote
<1> DEFINE t == [mem.trans EXCEPT !.mapped = Live(mem.trans.ref),
                                  !.dels = {f \in Files : mem.trans.source[f] # Nil}]
<1>2. mem.trans \in Transitions /\ mem \in Stores
  BY DEF IInv, Typed, TypedOwner, Stores
<1>3. t.dels = Files /\ Trans(t).trans = t
  BY <1>1, <1>2 DEF Listed, Early, Transitions, Trans, Stores
<1>4. Persist(Trans(t), At("a", "rewrite"))
  BY DEF Resolve
<1> HIDE DEF t
<1>5. /\ mem' = Trans(t)
      /\ (disk' = mem' /\ Goes("a", "rewrite")) \/ Goes("a", "off")
  BY <1>4, PersistsAt DEF IInv, Steps, Running
<1>6. canon.epoch = "e0"
  BY <1>1 DEF IInv, Control, Running
<1>7. \A d \in {"a", "b"} : Verified(d)' => Verified(d)
  BY <1>5 DEF Goes, Verified
<1>8. work'.a.pc \notin Early
  BY <1>5 DEF Goes, Early
<1>9. work'.a.pc \in Late => \A u \in {mem'.trans, disk'.trans} : u.dels = Files
  BY <1>3, <1>5 DEF Goes, Late
<1> QED
  BY <1>1, <1>6, <1>7, <1>8, <1>9, BeforeKeeps

LEMMA ListsRelease ==
  ASSUME IInv, IInv', Listed, Standing, Unseen, Release, UNCHANGED <<kind, local, landed>>
  PROVE  Listed' /\ Standing' /\ Unseen'
<1>1. CASE Abort("a")
  BY <1>1, CalmAborts, CalmKeeps
<1>2. CASE ~Abort("a")
  <2>1. /\ UNCHANGED raw /\ canon' = [canon EXCEPT !.phase = "none"]
        /\ Answer("a", At("a", "undone")) /\ canon.epoch = "e0"
    BY <1>2 DEF Release, Valid
  <2>2. Goes("a", "undone") \/ Goes("a", "off")
    BY <2>1, AnswersAt DEF IInv, Steps, Backward
  <2>3. canon'.epoch = "e0"
    BY <2>1 DEF IInv, Typed, TypedRemote, Indexes
  <2>4. \A d \in {"a", "b"} : Verified(d)' => Verified(d)
    BY <2>2 DEF Goes, Verified
  <2>5. work'.a.pc \notin Early \cup Late
    BY <2>2 DEF Goes, Early, Late
  <2> QED
    BY <2>1, <2>3, <2>4, <2>5, BeforeKeeps
<1> QED
  BY <1>1, <1>2

\* The commit publishes the list of the owner.
LEMMA ListsCommit ==
  ASSUME IInv, IInv', Listed, Standing, Unseen, Commit, UNCHANGED <<kind, local, landed>>
  PROVE  Listed' /\ Standing' /\ Unseen'
<1>1. CASE Abort("a")
  BY <1>1, CalmAborts, CalmKeeps
<1>2. CASE ~Abort("a")
  <2> DEFINE w == [At("a", "note") EXCEPT
                     !.held = [phase |-> "index-committed", dels |-> mem.trans.dels]]
  <2>1. /\ UNCHANGED <<raw, mem, disk>> /\ work.a.pc = "commit"
        /\ canon' = [mode |-> Target, epoch |-> "e1", files |-> mem.trans.ref,
                     phase |-> "index-committed", dels |-> mem.trans.dels]
        /\ Answer("a", w)
    BY <1>2 DEF Commit, owner
  <2>2. w \in Works /\ w.pc = "note"
    <3> DEFINE v == At("a", "note")
               h == [phase |-> "index-committed", dels |-> mem.trans.dels]
    <3>1. v \in Works /\ v.pc = "note"
      BY Places DEF IInv, Steps
    <3>2. h \in Holdings
      BY DEF IInv, Typed, TypedOwner, Stores, Transitions, Holdings, Phases, Committed
    <3> HIDE DEF v, h
    <3>3. [v EXCEPT !.held = h] \in Works /\ [v EXCEPT !.held = h].pc = "note"
      BY <3>1, <3>2 DEF Works
    <3> QED
      BY <3>3 DEF v, h
  <2> HIDE DEF w
  <2>3. Goes("a", "note") \/ Goes("a", "off")
    BY <2>1, <2>2, Answers DEF IInv
  <2>4. \A t \in {mem.trans, disk.trans} : t.dels = Files
    BY <2>1 DEF Listed, Late
  <2>5. /\ canon'.epoch = "e1" /\ canon'.phase = "index-committed" /\ canon'.dels = Files
        /\ "index-committed" \in Committed
    BY <2>1, <2>4 DEF Committed
  <2>6. Listed'
    BY <2>3, <2>5 DEF Listed, Goes, Early, Late
  <2>7. Standing'
    BY <2>1, <2>4, <2>5 DEF Standing
  <2>8. Unseen'
    <3>1. Source' = Source
      BY Codecs DEF IInv
    <3> QED
      BY <2>1, <2>3, <3>1 DEF Unseen, Goes, Verified
  <2> QED
    BY <2>6, <2>7, <2>8
<1> QED
  BY <1>1, <1>2

\* The cleanup is announced under the list of the owner, or the one of the index.
LEMMA ListsToCleanup ==
  ASSUME IInv, IInv', Listed, Standing, Unseen, NEW d \in {"a", "b"}, ToCleanup(d),
         UNCHANGED <<kind, local, landed>>
  PROVE  Listed' /\ Standing' /\ Unseen'
<1>1. CASE Abort(d)
  BY <1>1, CalmAborts, CalmKeeps
<1>2. CASE ~Abort(d)
  <2> DEFINE dels == IF d = "a" THEN mem.trans.dels ELSE canon.dels
             w == Cleaning(d, dels)
  <2>1. /\ UNCHANGED raw /\ work[d].pc = "cleanup"
        /\ canon' = [canon EXCEPT !.phase = "cleanup", !.dels = dels]
        /\ \/ d = "a" /\ Persist(Phase("cleanup"), w)
           \/ Answer(d, w) /\ UNCHANGED <<mem, disk>>
    BY <1>2 DEF ToCleanup
  <2>2. mem.trans \in Transitions /\ mem \in Stores /\ canon \in Indexes
    BY DEF IInv, Typed, TypedRemote, TypedOwner, Stores
  <2>3. w \in Works /\ w.pc = "sweep"
    <3> DEFINE v == At(d, "sweep")
               h == [phase |-> "cleanup", dels |-> dels]
    <3>1. v \in Works /\ v.pc = "sweep"
      BY Places DEF IInv, Steps, Cleanup
    <3>2. h \in Holdings
      BY <2>2 DEF Indexes, Transitions, Holdings, Phases, Committed
    <3> HIDE DEF v, h
    <3>3. [v EXCEPT !.held = h] \in Works /\ [v EXCEPT !.held = h].pc = "sweep"
      BY <3>1, <3>2 DEF Works
    <3> QED
      BY <3>3 DEF v, h, Cleaning
  <2>4. Goes(d, "sweep") \/ Goes(d, "off")
    <3> HIDE DEF w
    <3>1. CASE d = "a" /\ Persist(Phase("cleanup"), w)
      BY <2>3, <3>1, Persists DEF IInv
    <3>2. CASE Answer(d, w)
      BY <2>3, <3>2, Answers DEF IInv
    <3> QED
      BY <2>1, <3>1, <3>2
  <2>5. /\ canon.epoch # "e0"
        /\ d = "a" => mem.trans # NoTrans
    BY <2>1 DEF IInv, Control, Keys, Cleanup, NoTrans
  <2>6. canon'.epoch = canon.epoch /\ canon'.phase = "cleanup" /\ canon'.dels = dels
    BY <2>1, <2>2 DEF Indexes
  <2>7. Lasting
    <3> DEFINE t == [mem.trans EXCEPT !.phase = "cleanup"]
    <3>1. Phase("cleanup").trans = t /\ t.dels = mem.trans.dels
      BY <2>2 DEF Phase, Trans, Stores, Transitions
    <3> HIDE DEF w
    <3>2. CASE d = "a" /\ Persist(Phase("cleanup"), w)
      BY <2>5, <3>1, <3>2, LastsWith DEF Persist
    <3>3. CASE UNCHANGED <<mem, disk>>
      BY <3>3, Lasts
    <3> QED
      BY <2>1, <3>2, <3>3
  <2>8. Source' = Source
    BY Codecs DEF IInv
  <2>9. Still
    BY <2>4, Stills, StillOff DEF IInv, Early, Late
  <2>10. Listed'
    BY <2>4, <2>5, <2>6, <2>9, <2>1 DEF Listed, Goes, Early, Late, IInv, Control, Running
  <2>11. Standing'
    <3> SUFFICES ASSUME NEW f \in Files \ landed', raw'[Source'][f] # Nil
                 PROVE  /\ canon'.phase \in Committed /\ f \in canon'.dels
                        /\ \A t \in {mem'.trans, disk'.trans} : t # NoTrans => f \in t.dels
      BY DEF Standing
    <3>1. /\ f \in canon.dels
          /\ \A t \in {mem.trans, disk.trans} : t # NoTrans => f \in t.dels
      BY <2>1, <2>5, <2>8 DEF Standing
    <3>2. canon'.phase \in Committed /\ f \in canon'.dels
      BY <2>5, <2>6, <3>1 DEF Committed
    <3>3. \A t \in {mem'.trans, disk'.trans} : t # NoTrans => f \in t.dels
      BY <2>7, <3>1 DEF Lasting
    <3> QED
      BY <3>2, <3>3
  <2>12. Unseen'
    BY <2>1, <2>8, <2>9 DEF Unseen, Still
  <2> QED
    BY <2>10, <2>11, <2>12
<1> QED
  BY <1>1, <1>2

\* A listing names what is there.
LEMMA ListsSweep ==
  ASSUME IInv, IInv', Listed, Standing, Unseen, NEW d \in {"a", "b"}, Sweep(d),
         UNCHANGED <<kind, local, landed>>
  PROVE  Listed' /\ Standing' /\ Unseen'
<1>1. CASE Abort(d)
  BY <1>1, CalmAborts, CalmKeeps
<1>2. CASE ~Abort(d)
  <2> DEFINE dels == IF Found = {} THEN canon.dels ELSE Found
             w == [At(d, "purge") EXCEPT !.found = Found, !.todo = Found,
                                         !.held.dels = dels]
             t == [mem.trans EXCEPT !.dels = dels]
  <2>1. /\ UNCHANGED raw /\ work[d].pc = "sweep" /\ canon' = [canon EXCEPT !.dels = dels]
        /\ \/ d = "a" /\ Persist(Trans(t), w)
           \/ Answer(d, w) /\ UNCHANGED <<mem, disk>>
    BY <1>2 DEF Sweep
  <2>2. mem.trans \in Transitions /\ mem \in Stores /\ canon \in Indexes
    BY DEF IInv, Typed, TypedRemote, TypedOwner, Stores
  <2>3. dels \subseteq Files
    BY <2>2 DEF Indexes, Found
  <2>4. w \in Works /\ w.pc = "purge" /\ w.found = Found
    <3> DEFINE v == At(d, "purge")
    <3>1. v \in Works /\ v.pc = "purge"
      BY Places DEF IInv, Steps, Cleanup
    <3>2. Found \subseteq Files
      BY DEF Found
    <3> HIDE DEF v, dels
    <3>3. LET u == [v EXCEPT !.found = Found, !.todo = Found, !.held.dels = dels]
          IN u \in Works /\ u.pc = "purge" /\ u.found = Found
      BY <2>3, <3>1, <3>2 DEF Works, Holdings
    <3> QED
      BY <3>3 DEF v
  <2>5. (Goes(d, "purge") /\ work'[d].found = Found) \/ Goes(d, "off")
    <3> HIDE DEF w, t
    <3>1. CASE d = "a" /\ Persist(Trans(t), w)
      BY <2>4, <3>1, Persists DEF IInv
    <3>2. CASE Answer(d, w)
      BY <2>4, <3>2, Answers DEF IInv
    <3> QED
      BY <2>1, <3>1, <3>2
  <2>6. \/ UNCHANGED <<mem, disk>>
        \/ mem'.trans.dels = dels /\ (disk' = disk \/ disk' = mem')
    <3>1. Trans(t).trans.dels = dels
      BY <2>2 DEF Trans, Stores, Transitions
    <3> HIDE DEF w, t, dels
    <3> QED
      BY <2>1, <3>1 DEF Persist
  <2>7. canon.epoch # "e0"
    BY <2>1 DEF IInv, Control, Cleanup
  <2>8. canon'.epoch = canon.epoch /\ canon'.phase = canon.phase /\ canon'.dels = dels
    BY <2>1, <2>2 DEF Indexes
  <2>9. Source' = Source
    BY Codecs DEF IInv
  <2>10. \A f \in Files : raw'[Source'][f] # Nil => f \in Found
    BY <2>1, <2>9 DEF Found
  <2> HIDE DEF w, t
  <2>11. Listed'
    BY <2>1, <2>5, <2>7, <2>8 DEF Listed, Goes, Early, Late, IInv, Control, Running
  <2>12. Standing'
    <3> SUFFICES ASSUME NEW f \in Files \ landed', raw'[Source'][f] # Nil
                 PROVE  /\ canon'.phase \in Committed /\ f \in canon'.dels
                        /\ \A u \in {mem'.trans, disk'.trans} : u # NoTrans => f \in u.dels
      BY DEF Standing
    <3>1. /\ canon.phase \in Committed
          /\ \A u \in {mem.trans, disk.trans} : u # NoTrans => f \in u.dels
      BY <2>1, <2>7, <2>9 DEF Standing
    <3>2. f \in dels
      BY <2>10
    <3> HIDE DEF dels
    <3> QED
      BY <2>6, <2>8, <3>1, <3>2
  <2>13. Unseen'
    <3> SUFFICES ASSUME NEW e \in {"a", "b"}, Verified(e)', NEW f \in Files,
                        raw'[Source'][f] # Nil
                 PROVE  f \in landed'
      BY DEF Unseen
    <3>1. CASE e = d
      BY <2>5, <2>10, <3>1 DEF Verified, Goes
    <3>2. CASE e # d
      <4>1. work'[e] = work[e]
        BY <2>5, <3>2 DEF Goes
      <4> QED
        BY <2>1, <2>9, <4>1 DEF Verified, Unseen
    <3> QED
      BY <3>1, <3>2
  <2> QED
    BY <2>11, <2>12, <2>13
<1> QED
  BY <1>1, <1>2

\* The end of the cleanup: what it has not seen has landed since.
LEMMA ListsFinish ==
  ASSUME IInv, IInv', Listed, Standing, Unseen, NEW d \in {"a", "b"}, Finish(d),
         UNCHANGED <<kind, local, landed>>
  PROVE  Listed' /\ Standing' /\ Unseen'
<1>1. CASE Abort(d)
  BY <1>1, CalmAborts, CalmKeeps
<1>2. CASE ~Abort(d)
  <2> DEFINE w == IF d = "a" THEN At(d, "clear") ELSE Off
  <2>1. /\ UNCHANGED raw /\ work[d].pc = "finish" /\ Answer(d, w)
        /\ canon' = [canon EXCEPT !.phase = "none", !.dels = {}]
    BY <1>2 DEF Finish
  <2>2. w \in Works /\ w.pc \in {"clear", "off"}
    BY Places, Constants DEF IInv, Steps
  <2> HIDE DEF w
  <2>3. Goes(d, "clear") \/ Goes(d, "off")
    BY <2>1, <2>2, Answers DEF IInv
  <2>4. Still
    BY <2>3, Stills, StillOff DEF IInv, Early, Late
  <2>5. Source' = Source
    BY Codecs DEF IInv
  <2>6. canon.epoch # "e0" /\ canon'.epoch = canon.epoch
    BY <2>1 DEF IInv, Control, Cleanup, Typed, TypedRemote, Indexes
  <2>7. \A f \in Files : raw[Source][f] # Nil => f \in landed
    BY <2>1 DEF IInv, Swept, Unseen, Verified
  <2>8. Listed'
    BY <2>1, <2>3, <2>6, <2>4 DEF Listed, Goes, Early, Late, IInv, Control, Running
  <2>9. Standing'
    BY <2>1, <2>5, <2>7 DEF Standing
  <2>10. Unseen'
    BY <2>1, <2>4, <2>5 DEF Unseen, Still
  <2> QED
    BY <2>8, <2>9, <2>10
<1> QED
  BY <1>1, <1>2

\* Commits of others add no object of the source after the transition.
LEMMA ListsOthersCommit ==
  ASSUME IInv, IInv', Listed, Standing, Unseen, NEW f \in Files, OthersCommit(f),
         UNCHANGED landed
  PROVE  Listed' /\ Standing' /\ Unseen'
<1>1. /\ UNCHANGED <<kind, mem, disk, work>>
      /\ canon' = [canon EXCEPT !.files[f] = Foreign]
      /\ raw' = [raw EXCEPT ![canon.mode][f] = Foreign]
      /\ canon.phase = "none" /\ canon.epoch # "e2"
  BY DEF OthersCommit, owner, Maintained
<1>2. /\ Source' = Source /\ Source # Target /\ Source \in Modes
  BY <1>1, Codecs DEF IInv
<1>3. /\ canon'.epoch = canon.epoch /\ canon'.phase = canon.phase
      /\ canon'.dels = canon.dels /\ canon.mode \in Modes
      /\ raw \in [Modes -> [All -> Contents]] /\ f \in All
  BY <1>1 DEF IInv, Typed, TypedRemote, Indexes, All
<1>4. \A g \in Files : raw[Source][g] # Nil => raw'[Source][g] # Nil
  BY <1>1, <1>2, <1>3, Numbers DEF All
<1>5. canon.epoch = "e1" => raw'[Source] = raw[Source]
  BY <1>1, <1>2, <1>3 DEF IInv, Epochs
<1>6. canon.epoch \in {"e0", "e1"}
  BY <1>1 DEF IInv, Typed, TypedRemote, Indexes
<1>7. Listed'
  BY <1>1, <1>2, <1>3, <1>4 DEF Listed
<1>8. Standing'
  BY <1>1, <1>2, <1>3, <1>5, <1>6 DEF Standing
<1>9. Unseen'
  <2>1. canon.epoch = "e0" => \A d \in {"a", "b"} : ~Verified(d)
    BY DEF IInv, Control, Cleanup, Verified
  <2>2. \A d \in {"a", "b"} : Verified(d)' = Verified(d)
    BY <1>1 DEF Verified
  <2> QED
    BY <1>2, <1>5, <1>6, <2>1, <2>2 DEF Unseen
<1> QED
  BY <1>7, <1>8, <1>9

LEMMA ListsSuccessor ==
  ASSUME IInv, IInv', Listed, Standing, Unseen, Successor, UNCHANGED landed
  PROVE  Listed' /\ Standing' /\ Unseen'
<1>1. /\ UNCHANGED <<kind, mem, disk, work>> /\ kind = "disable"
      /\ canon' = [canon EXCEPT !.mode = "new", !.epoch = "e2"]
      /\ canon.epoch = "e1" /\ canon.phase = "none"
      /\ raw' = [raw EXCEPT !["new"] = [g \in All |-> IF g \in Files THEN canon.files[g] ELSE Nil],
                            !["plain"] = [g \in All |-> IF g \in Files THEN Nil ELSE @[g]]]
  BY DEF Successor, owner, Maintained
<1>2. Source' = Source /\ Source = "old"
  BY <1>1, Codecs DEF IInv
<1>3. /\ canon'.epoch = "e2" /\ canon'.phase = canon.phase /\ canon'.dels = canon.dels
      /\ raw'[Source] = raw[Source]
  BY <1>1, <1>2 DEF IInv, Typed, TypedRemote, Indexes, Modes
<1>4. Still
  BY <1>1 DEF Still, Verified
<1>5. Listed'
  BY <1>1, <1>3 DEF Listed
<1>6. Standing'
  BY <1>1, <1>2, <1>3 DEF Standing
<1>7. Unseen'
  BY <1>2, <1>3, <1>4 DEF Unseen, Still
<1> QED
  BY <1>5, <1>6, <1>7

\* An upload that lands where nothing was is counted.
LEMMA ListsLateUpload ==
  ASSUME IInv, IInv', Listed, Standing, Unseen, NEW f \in All, LateUpload(f)
  PROVE  Listed' /\ Standing' /\ Unseen'
<1>1. /\ UNCHANGED <<kind, canon, mem, disk, work>>
      /\ raw' = [raw EXCEPT ![Source][f] = Foreign]
      /\ landed' = IF raw[Source][f] = Nil THEN landed \cup {f} ELSE landed
  BY DEF LateUpload, owner
<1>2. Source' = Source /\ Source \in Modes /\ raw \in [Modes -> [All -> Contents]]
  BY <1>1, Codecs DEF IInv, Typed, TypedRemote
<1>3. \A g \in All : /\ raw[Source][g] # Nil => raw'[Source][g] # Nil
                     /\ raw'[Source][g] # Nil => raw[Source][g] # Nil \/ g \in landed'
  BY <1>1, <1>2, Numbers
<1>4. Files \subseteq All /\ landed \subseteq landed'
  BY <1>1 DEF All
<1>5. Still
  BY <1>1 DEF Still, Verified
<1>6. Listed'
  BY <1>1, <1>2, <1>3, <1>4 DEF Listed
<1>7. Standing'
  BY <1>1, <1>2, <1>3, <1>4 DEF Standing
<1>8. Unseen'
  BY <1>2, <1>3, <1>4, <1>5 DEF Unseen, Still
<1> QED
  BY <1>6, <1>7, <1>8

\* The removals themselves are calm: they name nothing, and nothing appears.
LEMMA CalmPurge ==
  ASSUME IInv, NEW d \in {"a", "b"}, NEW f \in Files, Purge(d, f) \/ Purged(d, f),
         UNCHANGED <<kind, local, landed>>
  PROVE  Calm
<1>1. CASE Abort(d)
  BY <1>1, CalmAborts
<1>2. CASE ~Abort(d)
  <2>1. work[d] \in Works /\ work \in [{"a", "b"} -> Works]
    BY DEF IInv, Typed, TypedWork
  <2>2. UNCHANGED <<raw, canon, mem, disk>> /\ work[d].pc = "purge"
        /\ \/ Become(d, [work[d] EXCEPT !.todo = @ \ {f}, !.asked = @ \cup {f}])
           \/ Become(d, [work[d] EXCEPT !.asked = @ \ {f}])
    BY <1>2 DEF Purge, Purged, remote, owner
  <2>3. \A e \in {"a", "b"} : work'[e].pc = work[e].pc /\ work'[e].found = work[e].found
    <3> DEFINE w1 == [work[d] EXCEPT !.todo = @ \ {f}, !.asked = @ \cup {f}]
               w2 == [work[d] EXCEPT !.asked = @ \ {f}]
    <3>1. /\ w1.pc = work[d].pc /\ w1.found = work[d].found
          /\ w2.pc = work[d].pc /\ w2.found = work[d].found
      BY <2>1 DEF Works
    <3>2. Become(d, w1) \/ Become(d, w2)
      BY <2>2
    <3> HIDE DEF w1, w2
    <3> QED
      BY <2>1, <3>1, <3>2 DEF Become
  <2>4. Still
    BY <2>3 DEF Still, Verified
  <2> QED
    BY <2>2, <2>4, CalmOutside
<1> QED
  BY <1>1, <1>2

LEMMA CalmDeleted ==
  ASSUME IInv, NEW d \in {"a", "b"}, NEW f \in Files, Deleted(d, f), canon.epoch # "e0",
         UNCHANGED <<kind, local, landed>>
  PROVE  Calm
<1>1. UNCHANGED <<canon, mem, disk, work>> /\ raw' = [raw EXCEPT ![Source][f] = Nil]
  BY DEF Deleted, owner
<1>2. \A g \in Files : raw'[Source][g] # Nil => raw[Source][g] # Nil
  BY <1>1, Codecs DEF IInv, Typed, TypedRemote, All
<1>3. Still
  BY <1>1 DEF Still, Verified
<1>4. Lasting
  BY <1>1, Lasts
<1> QED
  BY <1>1, <1>2, <1>3, <1>4 DEF Calm

\* The deletions in flight when none is sent.
LEMMA FlyingKeeps ==
  ASSUME Flying, Track, sent' \subseteq sent, Over => Over'
  PROVE  Flying'
<1>1. \A r \in sent' \ astray' : Named(r[2])'
  <2> SUFFICES ASSUME NEW r \in sent', r \notin astray' PROVE Named(r[2])'
    OBVIOUS
  <2>1. r \in sent /\ r \notin astray
    BY DEF Track
  <2>2. Named(r[2])
    BY <2>1 DEF Flying
  <2> QED
    BY <2>1, <2>2 DEF Track
<1> QED
  BY <1>1 DEF Flying

\* A request is sent under the authority of the index.
LEMMA FlyingSends ==
  ASSUME IInv, Flying, Track, NEW d \in {"a", "b"}, NEW f \in Files, Purge(d, f)
  PROVE  Flying'
<1>1. CASE UNCHANGED sent /\ UNCHANGED canon
  BY <1>1, FlyingKeeps DEF Over
<1>2. CASE ~(UNCHANGED sent /\ UNCHANGED canon)
  <2>1. /\ Holds(d) /\ f \in canon.dels /\ work[d].pc = "purge"
        /\ sent' = sent \cup {<<d, f>>} /\ canon' = canon
    BY <1>2 DEF Purge, Abort, remote
  <2>2. canon.epoch # "e0" /\ work[d].held.phase = "cleanup"
    BY <2>1 DEF IInv, Control, Cleanup
  <2>3. canon.phase = "cleanup"
    BY <2>1, <2>2 DEF Holds, Authority
  <2>4. canon.epoch = "e1"
    BY <2>2, <2>3 DEF IInv, Epochs, Typed, TypedRemote, Indexes
  <2>5. Named(f)
    BY <2>1, <2>3, <2>4 DEF Named
  <2>6. \A r \in sent' \ astray' : Named(r[2])'
    <3> SUFFICES ASSUME NEW r \in sent', r \notin astray' PROVE Named(r[2])
      BY <2>1 DEF Named
    <3>1. CASE r = <<d, f>>
      BY <2>5, <3>1
    <3>2. CASE r # <<d, f>>
      <4>1. r \in sent
        BY <2>1, <3>2
      <4>2. r \notin astray
        BY DEF Track
      <4> QED
        BY <4>1, <4>2 DEF Flying
    <3> QED
      BY <3>1, <3>2
  <2> QED
    BY <2>1, <2>2, <2>3, <2>6 DEF Flying, Over
<1> QED
  BY <1>1, <1>2

-----------------------------------------------------------------------------
(* The invariant. *)

JInv == IInv /\ NInv

LEMMA NBegins == Init => NInv
<1> SUFFICES ASSUME Init PROVE NInv
  OBVIOUS
<1>1. IInv
  BY Begins
<1>2. work.a.pc = "idle" /\ work.b.pc = "off"
  BY Constants DEF Init, Works
<1>3. \A f \in Files : raw[Source][f] # Nil
  BY Codecs, Numbers, <1>1 DEF Init, IInv, All, Initial, Nil
<1> QED
  BY <1>2, <1>3
  DEF Init, NInv, Listed, Standing, Unseen, Verified, Flying, Over, Early, Late

\* What happens after the cleanup has begun does not take its authority back.
LEMMA NamingOver ==
  ASSUME IInv, Over,
         \/ Begin \/ Claim \/ Resolve \/ Commit \/ Release \/ Successor
         \/ \E d \in {"a", "b"} : ToCleanup(d) \/ Sweep(d) \/ Finish(d)
         \/ \E f \in Files : OthersCommit(f)
         \/ \E f \in All : LateUpload(f)
  PROVE  Over'
<1>1. canon \in Indexes /\ canon.epoch # "e0" /\ canon.phase \in {"none", "cleanup"}
  BY DEF IInv, Typed, TypedRemote, Over
<1>2. /\ DOMAIN canon = {"mode", "epoch", "files", "phase", "dels"}
      /\ \A p \in {"none", "cleanup"} : \A s :
           /\ [canon EXCEPT !.phase = p].epoch # "e0"
           /\ [canon EXCEPT !.phase = p].phase = p
           /\ [canon EXCEPT !.phase = p, !.dels = s].epoch # "e0"
           /\ [canon EXCEPT !.phase = p, !.dels = s].phase = p
           /\ [canon EXCEPT !.dels = s].epoch # "e0"
           /\ [canon EXCEPT !.dels = s].phase = canon.phase
  BY <1>1 DEF Indexes
<1>3. CASE Begin \/ Claim \/ Resolve \/ Commit \/ Release
  <2>1. work.a.pc \notin {"idle", "claim", "resolve", "commit", "undo"}
    BY <1>1 DEF IInv, Control, Running, Backward
  <2> QED
    BY <1>3, <2>1 DEF Begin, Claim, Resolve, Commit, Release
<1>4. ASSUME NEW d \in {"a", "b"}, ToCleanup(d) PROVE Over'
  <2>1. UNCHANGED canon \/ \E s : canon' = [canon EXCEPT !.phase = "cleanup", !.dels = s]
    BY <1>4 DEF ToCleanup, Abort, remote
  <2> QED
    BY <1>1, <1>2, <2>1 DEF Over
<1>5. ASSUME NEW d \in {"a", "b"}, Sweep(d) PROVE Over'
  <2>1. UNCHANGED canon \/ \E s : canon' = [canon EXCEPT !.dels = s]
    BY <1>5 DEF Sweep, Abort, remote
  <2> QED
    BY <1>1, <1>2, <2>1 DEF Over
<1>6. ASSUME NEW d \in {"a", "b"}, Finish(d) PROVE Over'
  <2>1. UNCHANGED canon \/ canon' = [canon EXCEPT !.phase = "none", !.dels = {}]
    BY <1>6 DEF Finish, Abort, remote
  <2> QED
    BY <1>1, <1>2, <2>1 DEF Over
<1>7. CASE Successor
  <2>1. canon' = [canon EXCEPT !.mode = "new", !.epoch = "e2"] /\ canon.phase = "none"
    BY <1>7 DEF Successor, Maintained
  <2> QED
    BY <1>1, <2>1 DEF Over, Indexes
<1>8. ASSUME NEW f \in Files, OthersCommit(f) PROVE Over'
  BY <1>1, <1>8 DEF OthersCommit, Over, Indexes
<1>9. ASSUME NEW f \in All, LateUpload(f) PROVE Over'
  BY <1>1, <1>9 DEF LateUpload, Over
<1> QED
  BY <1>3, <1>4, <1>5, <1>6, <1>7, <1>8, <1>9

\* The steps that list, name or land something keep the invariant of the deletions.
LEMMA Naming ==
  ASSUME IInv, IInv', NInv, Track, UNCHANGED sent,
         \/ /\ UNCHANGED <<kind, local, landed>>
            /\ \/ Begin \/ Claim \/ Resolve \/ Commit \/ Release
               \/ \E d \in {"a", "b"} : ToCleanup(d) \/ Sweep(d) \/ Finish(d)
         \/ UNCHANGED landed /\ (Successor \/ \E f \in Files : OthersCommit(f))
         \/ \E f \in All : LateUpload(f)
  PROVE  NInv'
<1>1. Listed' /\ Standing' /\ Unseen'
  BY ListsBegin, ListsClaim, ListsResolve, ListsCommit, ListsRelease, ListsToCleanup,
     ListsSweep, ListsFinish, ListsOthersCommit, ListsSuccessor, ListsLateUpload
  DEF NInv
<1>2. Over => Over'
  BY NamingOver
<1> QED
  BY <1>1, <1>2, FlyingKeeps DEF NInv

LEMMA Calmly ==
  ASSUME IInv, IInv', NInv, Track, UNCHANGED sent, Calm
  PROVE  NInv'
  BY CalmKeeps, FlyingKeeps DEF NInv, Calm, Over

\* A removal, and nothing else, takes an object of the source away.
Removes == \E d \in {"a", "b"}, f \in Files : Deleted(d, f)

\* A step of the removals.
LEMMA PurgeContinues ==
  ASSUME IInv, NInv, NEW d \in {"a", "b"}, PurgeStep(d), Track,
         UNCHANGED <<kind, local, landed>>
  PROVE  JInv' /\ (Spares \/ Removes)
<1>1. PICK f \in Files : Purge(d, f) \/ Deleted(d, f) \/ Purged(d, f)
  BY DEF PurgeStep
<1>2. CASE Purge(d, f) \/ Purged(d, f)
  <2>1. IInv' /\ Spares
    BY <1>2, PurgeKeeps
  <2>2. Listed' /\ Standing' /\ Unseen' /\ UNCHANGED canon
    BY <1>2, <2>1, CalmPurge, CalmKeeps DEF NInv, Calm
  <2>3. Flying'
    <3>1. CASE Purge(d, f)
      BY <3>1, FlyingSends DEF NInv
    <3>2. CASE Purged(d, f)
      BY <2>2, <3>2, FlyingKeeps DEF NInv, Purged, Over
    <3> QED
      BY <1>2, <3>1, <3>2
  <2> QED
    BY <2>1, <2>2, <2>3 DEF JInv, NInv
<1>3. CASE Deleted(d, f)
  <2>1. canon.epoch # "e0" /\ sent' \subseteq sent
    BY <1>3 DEF Deleted, NInv, Flying, Over
  <2>2. IInv'
    BY <1>3, <2>1, DeletedKeeps
  <2>3. Listed' /\ Standing' /\ Unseen' /\ UNCHANGED canon
    BY <1>3, <2>1, <2>2, CalmDeleted, CalmKeeps DEF NInv, Calm
  <2>4. Flying'
    BY <2>1, <2>3, FlyingKeeps DEF NInv, Over
  <2> QED
    BY <1>3, <2>2, <2>3, <2>4 DEF JInv, NInv, Removes
<1> QED
  BY <1>1, <1>2, <1>3

\* Every step keeps the invariant.
LEMMA OwnerContinues ==
  ASSUME JInv, OwnerStep
  PROVE  JInv' /\ (Spares \/ Removes)
<1>1. IInv /\ NInv /\ UNCHANGED <<kind, local, landed>> /\ Track
  BY DEF JInv, OwnerStep
<1>2. CASE (Announce \/ ApplyTarget \/ Copied \/ Forecast) /\ UNCHANGED sent
  <2>1. IInv' /\ Spares
    BY <1>1, <1>2, AnnounceKeeps, ApplyTargetKeeps, CopiedKeeps, ForecastKeeps
  <2> QED
    BY <1>1, <1>2, <2>1, CalmForward, Calmly DEF JInv
<1>3. CASE Rewrite /\ UNCHANGED sent
  <2>1. IInv' /\ Spares
    BY <1>1, <1>3, RewriteKeeps
  <2> QED
    BY <1>1, <1>3, <2>1, CalmRewrite, Calmly DEF JInv
<1>4. CASE (Claim \/ Resolve \/ Commit \/ Release) /\ UNCHANGED sent
  <2>1. IInv' /\ Spares
    BY <1>1, <1>4, ClaimKeeps, ResolveKeeps, CommitKeeps, ReleaseKeeps
  <2> QED
    BY <1>1, <1>4, <2>1, Naming DEF JInv
<1>5. CASE (Note \/ Recover \/ VerifyTargets) /\ UNCHANGED sent
  <2>1. IInv' /\ Spares
    BY <1>1, <1>5, NoteKeeps, RecoverKeeps, VerifyTargetsKeeps
  <2> QED
    BY <1>1, <1>5, <2>1, CalmSaved, Calmly DEF JInv
<1>6. CASE (Confirm \/ TrailingDelete \/ Restore \/ \E f \in Files : Undo(f)) /\ UNCHANGED sent
  <2>1. IInv' /\ Spares
    BY <1>1, <1>6, ConfirmKeeps, TrailingDeleteKeeps, RestoreKeeps, UndoKeeps
  <2> QED
    BY <1>1, <1>6, <2>1, CalmOwner, Calmly DEF JInv
<1>7. CASE (CheckStable("a") \/ PublishStable("a") \/ Verify("a")) /\ UNCHANGED sent
  <2>1. IInv' /\ Spares
    BY <1>1, <1>7, CheckStableKeeps, PublishStableKeeps, VerifyKeeps
  <2> QED
    BY <1>1, <1>7, <2>1, CalmCleanup, Calmly DEF JInv
<1>8. CASE (ToCleanup("a") \/ Sweep("a") \/ Finish("a")) /\ UNCHANGED sent
  <2>1. IInv' /\ Spares
    BY <1>1, <1>8, ToCleanupKeeps, SweepKeeps, FinishKeeps
  <2> QED
    BY <1>1, <1>8, <2>1, Naming DEF JInv
<1>9. CASE (Clear \/ Retire \/ Unchanged \/ Undone) /\ UNCHANGED sent
  <2>1. IInv' /\ Spares
    BY <1>1, <1>9, ClearKeeps, RetireKeeps, UnchangedKeeps, UndoneKeeps
  <2> QED
    BY <1>1, <1>9, <2>1, CalmEnds, Calmly DEF JInv
<1>10. CASE PurgeStep("a")
  BY <1>1, <1>10, PurgeContinues
<1> QED
  BY <1>2, <1>3, <1>4, <1>5, <1>6, <1>7, <1>8, <1>9, <1>10 DEF OwnerStep

LEMMA HelperContinues ==
  ASSUME JInv, HelperStep
  PROVE  JInv' /\ (Spares \/ Removes)
<1>1. IInv /\ NInv /\ UNCHANGED <<kind, local, landed>> /\ Track
  BY DEF JInv, HelperStep
<1>2. CASE (Help \/ CheckStable("b") \/ PublishStable("b") \/ Verify("b")) /\ UNCHANGED sent
  <2>1. IInv' /\ Spares
    BY <1>1, <1>2, HelpKeeps, CheckStableKeeps, PublishStableKeeps, VerifyKeeps
  <2> QED
    BY <1>1, <1>2, <2>1, CalmCleanup, Calmly DEF JInv
<1>3. CASE (ToCleanup("b") \/ Sweep("b") \/ Finish("b")) /\ UNCHANGED sent
  <2>1. IInv' /\ Spares
    BY <1>1, <1>3, ToCleanupKeeps, SweepKeeps, FinishKeeps
  <2> QED
    BY <1>1, <1>3, <2>1, Naming DEF JInv
<1>4. CASE PurgeStep("b")
  BY <1>1, <1>4, PurgeContinues
<1> QED
  BY <1>2, <1>3, <1>4 DEF HelperStep

LEMMA OtherContinues ==
  ASSUME JInv, OtherStep \/ \E f \in All : LateUpload(f), Track, UNCHANGED sent
  PROVE  JInv' /\ Spares
<1>1. IInv /\ NInv
  BY DEF JInv
<1>2. CASE Begin /\ UNCHANGED <<kind, local, landed>>
  BY <1>1, <1>2, BeginKeeps, Naming DEF JInv
<1>3. CASE FaultStep /\ UNCHANGED landed
  <2>1. IInv' /\ Spares
    BY <1>1, <1>3, RefusedKeeps, CrashKeeps DEF FaultStep
  <2> QED
    BY <1>1, <1>3, <2>1, CalmFaults, Calmly DEF JInv
<1>4. CASE (\E f \in Files : Edit(f) \/ Damage(f)) /\ UNCHANGED landed
  <2>1. IInv' /\ Spares
    BY <1>1, <1>4, EditKeeps, DamageKeeps
  <2> QED
    BY <1>1, <1>4, <2>1, CalmFaults, Calmly DEF JInv
<1>5. CASE (Successor \/ \E f \in Files : OthersCommit(f)) /\ UNCHANGED landed
  <2>1. IInv' /\ Spares
    BY <1>1, <1>5, OthersCommitKeeps, SuccessorKeeps
  <2> QED
    BY <1>1, <1>5, <2>1, Naming DEF JInv
<1>6. CASE \E f \in All : LateUpload(f)
  <2>1. IInv' /\ Spares
    BY <1>1, <1>6, LateUploadKeeps
  <2> QED
    BY <1>1, <1>6, <2>1, Naming DEF JInv
<1> QED
  BY <1>2, <1>3, <1>4, <1>5, <1>6 DEF OtherStep

LEMMA StutterContinues ==
  ASSUME JInv, UNCHANGED vars
  PROVE  JInv' /\ Spares
<1>1. IInv' /\ Spares
  BY StutterKeeps DEF JInv
<1>2. UNCHANGED <<kind, raw, canon, mem, disk, work, sent, astray, landed>>
  BY DEF vars
<1>3. Source' = Source
  BY <1>2, Codecs DEF JInv, IInv
<1>4. NInv'
  BY <1>2, <1>3
  DEF JInv, NInv, Listed, Standing, Unseen, Verified, Flying, Over, Named
<1> QED
  BY <1>1, <1>4 DEF JInv

LEMMA Continues ==
  ASSUME JInv, [Next]_vars
  PROVE  JInv' /\ (Spares \/ Removes)
  BY OwnerContinues, HelperContinues, OtherContinues, StutterContinues DEF Next

\* The invariant holds at any time.
LEMMA Invariant == Spec => []JInv
<1>1. Init => JInv
  BY Begins, NBegins DEF JInv
<1>2. JInv /\ [Next]_vars => JInv'
  BY Continues
<1> QED
  BY <1>1, <1>2, PTL DEF Spec

-----------------------------------------------------------------------------
(* The theorems. *)

\* The state is well formed, the manifest names the codec of the index unless
\* a write without authority was sent, and the owner's plugin data lead to the
\* key of the index: for any files, failures, restarts, takeovers and commits
\* of others.
THEOREM SidesAreConsistent == Spec => []SidesConsistent
<1>1. JInv => TypeOK
  BY DEF JInv, NInv, Flying, IInv, Typed, TypedRemote, TypedOwner, TypedWork, TypedRest,
         TypeOK, TransOK, Indexes, Manifests, Stores, Transitions, Works, Phases, Progress
<1>2. JInv => ManifestNamesCanonical /\ KeyKept
  BY DEF JInv, IInv
<1> QED
  BY Invariant, <1>1, <1>2, PTL DEF SidesConsistent

\* Every file of the index can be read with the codec of the index, what others
\* have damaged aside: before the commit from the source objects, after it from
\* the targets that the owner has written and checked.
THEOREM LiveIsReadable == Spec => []LiveReadable
<1>1. JInv => LiveReadable
  BY DEF JInv, IInv
<1> QED
  BY Invariant, <1>1, PTL

\* A finished transition leaves no object of the source, but for uploads that
\* land after the last listing; a rolled back one leaves none of the target.
THEOREM NothingIsLeft == Spec => []LeavesNothing
<1>1. JInv => NothingOldLeft
  BY DEF JInv, IInv
<1>2. JInv => RolledBackIsClean
  BY Constants DEF JInv, IInv, Recorded, RolledBackIsClean, All
<1> QED
  BY Invariant, <1>1, <1>2, PTL DEF LeavesNothing

\* The cleanup removes objects of the source only after the commit and never one
\* outside the selection.  What was there at the commit goes while the index
\* names it; a deletion that another device has overtaken, by finishing, can
\* only hit an upload that landed since.
THEOREM RemovalsAreAuthorized == Spec => RemovalsAuthorized
<1> DEFINE Step ==
      \A f \in All : raw[Source][f] # Nil /\ raw'[Source][f] = Nil =>
        /\ canon.epoch # "e0"
        /\ f \in Files
        /\ Named(f) \/ (f \in landed /\ \E d \in {"a", "b"} : <<d, f>> \in astray \ sent')
<1>1. JInv /\ [Next]_vars => Step
  <2> SUFFICES ASSUME JInv, [Next]_vars PROVE Step
    OBVIOUS
  <2>1. CASE Spares
    BY <2>1 DEF Spares
  <2>2. CASE Removes
    <3>1. PICK d \in {"a", "b"}, f \in Files : Deleted(d, f)
      BY <2>2 DEF Removes
    <3>2. /\ <<d, f>> \in sent \ sent'
          /\ Over
          /\ <<d, f>> \in astray \/ Named(f)
      BY <3>1 DEF Deleted, JInv, NInv, Flying
    <3>3. \A g \in All : raw[Source][g] # Nil /\ raw'[Source][g] = Nil => g = f
      BY <3>1, Codecs DEF Deleted, JInv, IInv, Typed, TypedRemote, All
    <3>4. raw[Source][f] # Nil /\ f \notin landed => Named(f)
      BY <3>2 DEF JInv, NInv, Standing, Named, Over, Committed, IInv, Epochs, Typed,
                  TypedRemote, Indexes
    <3> QED
      BY <3>2, <3>3, <3>4 DEF Over
  <2> QED
    BY <2>1, <2>2, Continues
<1>2. JInv /\ [Next]_vars => [Step]_vars
  BY <1>1
<1> QED
  BY Invariant, <1>2, PTL DEF Spec, RemovalsAuthorized
=============================================================================
