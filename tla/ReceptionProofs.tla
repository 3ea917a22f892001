--------------------------- MODULE ReceptionProofs ---------------------------
(***************************************************************************)
(* Theorems about Reception for every set of files, any number of edits,   *)
(* commits, replacements, failures and restarts.  The invariant says what  *)
(* a receipt knows: the vault holds what it remembers of a file, unless    *)
(* the user changed the file since (Remembered), and what the user put     *)
(* there is never what it remembers (LateIsUnknown).                       *)
(***************************************************************************)
EXTENDS Reception, TLAPS

Phases == {"off", "capture", "files", "extras", "finalize", "failed"}
States == {"check", "write", "save", "done", "failed"}
Generation == 0 .. MaxOther + 1

\* TypeOK with what the steps need: the copy of the index, the counters.
Types ==
  /\ canon \in [gen : Generation, files : [Files -> Canonical]]
  /\ 0 < canon.gen /\ canon.gen <= used.other + 1
  /\ local \in [Files -> Contents]
  /\ mem \in PluginData /\ disk \in PluginData /\ snap \in PluginData
  /\ work \in [pc : Phases, canon : [gen : Generation, files : [Files -> Canonical]],
               todo : [Files -> States]]
  /\ user \in [Files -> Contents \cup {Untouched}]
  /\ captured \in BOOLEAN /\ lost \in BOOLEAN
  /\ unclear \subseteq Files
  /\ used \in [edit : 0 .. MaxEdit, other : 0 .. MaxOther, fault : 0 .. MaxFault]

Receiving == work.pc \in {"files", "extras"}

\* What the step of a reception says of the receipt and of the snapshot.
Steps ==
  /\ work.pc = "capture" => mem = snap
  /\ work.pc = "capture" \/ Receiving => work.canon.gen # snap.gen /\ work.canon.gen > 0
  /\ Receiving => mem.receipt # NoReceipt
  /\ work.pc = "finalize" => mem.receipt = NoReceipt /\ mem.gen # snap.gen
  /\ work.pc = "failed" /\ mem.receipt = NoReceipt => mem = snap \/ mem.gen # snap.gen

\* A receipt has the number of its generation.
Numbered ==
  \A d \in {mem, disk, snap} : d.receipt = NoReceipt \/ d.receipt.gen > 0

\* A file has work left only while files are received: those of the
\* generation first, then those it does not have.
Work ==
  \A f \in Files : work.todo[f] # "done" =>
    /\ Receiving
    /\ work.pc = "files" <=> Goal(f) # Nil

\* The memory never forgets a saved receipt.
Kept == disk.receipt # NoReceipt => mem.receipt # NoReceipt

\* A saved receipt is in the memory until the reception is complete.
Captured ==
  captured /\ ~lost /\ mem.receipt = NoReceipt =>
    \/ work.pc = "finalize"
    \/ (work.pc = "failed" /\ mem.gen # snap.gen)

\* The vault holds what the receipt knows, the user's changes aside.
Remembered ==
  mem.receipt # NoReceipt =>
    \A f \in Files \ unclear : ~Late(f) => local[f] = Expected(f)

\* What the user left in the vault is not what the receipt knows.
LateIsUnknown ==
  mem.receipt # NoReceipt /\ ~lost =>
    \A f \in Files : Late(f) => user[f] # Expected(f)

\* A file that is done has been received, or removed, unless the user or a
\* crash came first.
DoneAt(phase, f) == work.pc = phase /\ work.todo[f] \in {"save", "done"}

Progress ==
  \A f \in Files \ unclear :
    IF Late(f) THEN TRUE
    ELSE IF Goal(f) # Nil
    THEN DoneAt("files", f) \/ work.pc = "extras" => mem.receipt.applied[f] = Goal(f)
    ELSE DoneAt("extras", f) => mem.receipt.initial[f] = Nil

IInv ==
  /\ Types /\ Numbered /\ Steps /\ Work /\ Kept /\ Captured
  /\ Remembered /\ LateIsUnknown /\ LateEditsSurvive /\ Progress
-----------------------------------------------------------------------------
\* What the values of the module are, for any bounds.
LEMMA Values ==
  /\ Nil \in Canonical /\ Foreign \in Canonical
  /\ Canonical \subseteq Contents
  /\ Old \in Contents
  /\ \A g \in 1 .. MaxOther + 1 : Target(g) \in Canonical
  /\ \A n \in 1 .. MaxEdit : Typed(n) \in Contents
  /\ Untouched \notin Contents /\ Nil # Untouched
  BY DEF Nil, Foreign, Old, Canonical, Contents, Target, Typed, Untouched

\* A reception that is over.
LEMMA FailedIs ==
  /\ Failed = [pc |-> "failed", canon |-> [gen |-> 0, files |-> None],
               todo |-> [f \in Files |-> "done"]]
  /\ Off = [pc |-> "off", canon |-> [gen |-> 0, files |-> None],
            todo |-> [f \in Files |-> "done"]]
  /\ Failed \in [pc : Phases, canon : [gen : Generation, files : [Files -> Canonical]],
                 todo : [Files -> States]]
  /\ Off \in [pc : Phases, canon : [gen : Generation, files : [Files -> Canonical]],
              todo : [Files -> States]]
  BY Values, ReceptionAssumption DEF Failed, Off, None, Phases, States, Generation

\* The fields of the records that the steps update.
LEMMA Recorded ==
  ASSUME NEW m \in PluginData, NEW f \in Files, NEW v \in Canonical,
         NEW n, n = [m EXCEPT !.receipt.applied[f] = v]
  PROVE  /\ n \in PluginData /\ n.gen = m.gen
         /\ n.receipt = [gen |-> m.receipt.gen, initial |-> m.receipt.initial,
                         applied |-> [m.receipt.applied EXCEPT ![f] = v]]
  BY DEF PluginData

LEMMA Removed ==
  ASSUME NEW m \in PluginData, NEW f \in Files, NEW n,
         n = [m EXCEPT !.receipt.initial[f] = Nil, !.receipt.applied[f] = Nil]
  PROVE  /\ n \in PluginData /\ n.gen = m.gen
         /\ n.receipt = [gen |-> m.receipt.gen,
                         initial |-> [m.receipt.initial EXCEPT ![f] = Nil],
                         applied |-> [m.receipt.applied EXCEPT ![f] = Nil]]
  BY Values DEF PluginData

LEMMA StartKeeps ==
  ASSUME IInv, Start
  PROVE  IInv'
<1>1. Types'
  BY DEF IInv, Types, Phases, States, Start, Off, ghosts
<1>2. Numbered'
  BY DEF IInv, Numbered, Start
<1>3. Steps'
  BY DEF IInv, Types, Steps, Receiving, Start
<1>4. Work'
  BY DEF IInv, Work, Start, Off
<1>5. Kept'
  BY DEF IInv, Kept, Start
<1>6. Captured'
  BY DEF IInv, Captured, Start, ghosts
<1>7. Remembered'
  BY DEF IInv, Remembered, Expected, Late, Start, ghosts
<1>8. LateIsUnknown'
  BY DEF IInv, LateIsUnknown, Expected, Late, Start, ghosts
<1>9. LateEditsSurvive'
  BY DEF IInv, LateEditsSurvive, Late, Start, ghosts
<1>10. Progress'
  BY DEF IInv, Progress, DoneAt, Start
<1> QED BY <1>1, <1>2, <1>3, <1>4, <1>5, <1>6, <1>7, <1>8, <1>9, <1>10 DEF IInv

LEMMA CaptureKeeps ==
  ASSUME IInv, Capture
  PROVE  IInv'
<1>1. /\ work.pc = "capture" /\ UNCHANGED <<canon, local, snap, unclear, lost>>
      /\ mem' = [gen |-> mem.gen, base |-> mem.base, receipt |-> Receipt]
  BY DEF IInv, Types, PluginData, Capture
<1>2. /\ Receipt \in [gen : Generation, initial : [Files -> Contents],
                      applied : [Files -> Canonical]]
      /\ Receipt.gen = work.canon.gen /\ Receipt.gen > 0
  BY <1>1, Values, ReceptionAssumption
  DEF IInv, Types, Steps, PluginData, Generation, Receipt, None, NoReceipt, Known
<1>3. \A f \in Files : Known(Receipt, f) =
         IF mem.receipt = NoReceipt THEN local[f] ELSE Known(mem.receipt, f)
  BY DEF IInv, Receipt, None, Known
<1>4. \/ /\ work' = [pc |-> "files", canon |-> work.canon,
                     todo |-> [f \in Files |-> IF Goal(f) # Nil THEN "check" ELSE "done"]]
         /\ used' = used /\ disk' = mem'
      \/ work' = Failed /\ disk' = disk /\ Fault
      \/ /\ work' = [pc |-> "files", canon |-> work.canon,
                     todo |-> [f \in Files |-> IF Goal(f) # Nil THEN "check" ELSE "done"]]
         /\ used' = used /\ disk' = disk /\ mem' = mem
  BY DEF IInv, Types, Capture, Save, Planned, At
<1>5. /\ captured' = (captured \/ disk'.receipt # NoReceipt)
      /\ user' = IF Protecting THEN user ELSE [f \in Files |-> Untouched]
  BY DEF Capture
<1>6. Types'
  BY <1>1, <1>2, <1>3, <1>4, <1>5, ReceptionAssumption, FailedIs
  DEF IInv, Fault, Room, Types, PluginData, Generation, Phases, States, Untouched,
      NoReceipt
<1>7. Numbered'
  BY <1>1, <1>2, <1>4 DEF IInv, Numbered
<1>8. Steps'
  BY <1>1, <1>2, <1>4, FailedIs DEF IInv, Steps, Receiving, NoReceipt
<1>9. Work'
  BY <1>4, FailedIs DEF IInv, Work, Receiving, Goal
<1>10. Kept'
  BY <1>1, <1>2 DEF IInv, Kept, NoReceipt
<1>11. Captured'
  BY <1>1, <1>2 DEF IInv, Captured, NoReceipt
<1>12. Remembered'
  BY <1>1, <1>3, <1>5 DEF IInv, Protecting, Remembered, Expected, Late
<1>13. LateIsUnknown'
  BY <1>1, <1>3, <1>5 DEF IInv, Protecting, LateIsUnknown, Captured, Expected, Late
<1>14. LateEditsSurvive'
  BY <1>1, <1>5 DEF IInv, LateEditsSurvive, Late
<1>15. Progress'
  BY <1>4, FailedIs DEF IInv, Progress, DoneAt, Goal
<1> QED BY <1>6, <1>7, <1>8, <1>9, <1>10, <1>11, <1>12, <1>13, <1>14, <1>15 DEF IInv

LEMMA CheckKeeps ==
  ASSUME IInv, NEW f \in Files, Check(f)
  PROVE  IInv'
<1>1. /\ work.pc = "files" /\ work.todo[f] = "check"
      /\ UNCHANGED <<canon, local, mem, disk, snap, ghosts>>
  BY DEF Check
<1>2. PICK s \in States \ {"save"} :
         /\ work' = [pc |-> "files", canon |-> work.canon,
                     todo |-> [work.todo EXCEPT ![f] = s]]
         /\ s = "done" => local[f] # Expected(f) \/ mem.receipt.applied[f] = Goal(f)
         /\ used' = used \/ Fault
  BY <1>1 DEF IInv, Types, Check, Todo, States
<1>3. Types'
  BY <1>1, <1>2, ReceptionAssumption DEF IInv, Fault, Room, ghosts, Types
<1>4. Numbered'
  BY <1>1 DEF IInv, Numbered
<1>5. Steps'
  BY <1>1, <1>2 DEF IInv, Steps, Receiving
<1>6. Work'
  BY <1>1, <1>2 DEF IInv, Work, Receiving, Goal
<1>7. Kept'
  BY <1>1 DEF IInv, Kept
<1>8. Captured'
  BY <1>1 DEF IInv, Captured, Steps, Work
<1>9. Remembered'
  BY <1>1 DEF IInv, ghosts, Remembered, Expected, Late
<1>10. LateIsUnknown'
  BY <1>1 DEF IInv, ghosts, LateIsUnknown, Expected, Late
<1>11. LateEditsSurvive'
  BY <1>1 DEF IInv, ghosts, LateEditsSurvive, Late
<1>12. Progress'
  BY <1>1, <1>2
  DEF IInv, ghosts, Progress, Remembered, Steps, Receiving, DoneAt, Goal, Late
<1> QED BY <1>3, <1>4, <1>5, <1>6, <1>7, <1>8, <1>9, <1>10, <1>11, <1>12 DEF IInv

LEMMA WriteKeeps ==
  ASSUME IInv, NEW f \in Files, Write(f)
  PROVE  IInv'
<1>1. /\ work.pc = "files" /\ work.todo[f] = "write" /\ Goal(f) # Nil
      /\ Goal(f) \in Canonical
      /\ UNCHANGED <<canon, disk, snap, ghosts, used>>
  BY DEF IInv, Types, Work, Goal, Write
<1>2. PICK s \in {"done", "save"} :
         /\ work' = [pc |-> "files", canon |-> work.canon,
                     todo |-> [work.todo EXCEPT ![f] = s]]
         /\ s = "done" => local[f] # Expected(f) /\ UNCHANGED <<local, mem>>
         /\ s = "save" => /\ local[f] = Expected(f)
                          /\ local' = [local EXCEPT ![f] = Goal(f)]
                          /\ mem' = [mem EXCEPT !.receipt.applied[f] = Goal(f)]
  BY DEF IInv, Types, Write, Todo
<1>3. CASE s = "done"
  <2>1. Types'
    BY <1>1, <1>2, <1>3 DEF IInv, ghosts, Types, States
  <2>2. Numbered'
    BY <1>1, <1>2, <1>3 DEF IInv, Numbered
  <2>3. Steps'
    BY <1>1, <1>2, <1>3 DEF IInv, Steps, Receiving
  <2>4. Work'
    BY <1>1, <1>2 DEF IInv, Work, Receiving, Goal
  <2>5. Kept'
    BY <1>1, <1>2, <1>3 DEF IInv, Kept
  <2>6. Captured'
    BY <1>1, <1>2, <1>3 DEF IInv, Captured, Steps, Receiving
  <2>7. Remembered'
    BY <1>1, <1>2, <1>3 DEF IInv, ghosts, Remembered, Expected, Late
  <2>8. LateIsUnknown'
    BY <1>1, <1>2, <1>3 DEF IInv, ghosts, LateIsUnknown, Expected, Late
  <2>9. LateEditsSurvive'
    BY <1>1, <1>2, <1>3 DEF IInv, ghosts, LateEditsSurvive, Late
  <2>10. Progress'
    BY <1>1, <1>2, <1>3
    DEF IInv, ghosts, Progress, Remembered, Steps, Receiving, DoneAt, Goal, Late
  <2> QED BY <2>1, <2>2, <2>3, <2>4, <2>5, <2>6, <2>7, <2>8, <2>9, <2>10 DEF IInv
<1>4. CASE s = "save"
  <2>0. mem \in PluginData
    BY DEF IInv, Types
  <2>a. /\ mem' \in PluginData /\ mem'.gen = mem.gen
        /\ mem'.receipt = [gen |-> mem.receipt.gen, initial |-> mem.receipt.initial,
                           applied |-> [mem.receipt.applied EXCEPT ![f] = Goal(f)]]
    BY <2>0, <1>1, <1>2, <1>4, Recorded
  <2>b. mem.receipt.gen > 0 /\ mem'.receipt.gen = mem.receipt.gen
    BY <1>1, <2>a DEF IInv, Steps, Receiving, Numbered
  <2>1. Types'
    BY <1>1, <1>2, <2>a, Values, ReceptionAssumption DEF IInv, ghosts, Types, States
  <2>2. Numbered'
    BY <1>1, <2>b DEF IInv, Numbered
  <2>3. Steps'
    BY <1>1, <1>2, <2>b DEF IInv, Steps, Receiving, NoReceipt
  <2>4. Work'
    BY <1>1, <1>2 DEF IInv, Work, Receiving, Goal
  <2>5. Kept'
    BY <2>b DEF IInv, Kept, NoReceipt
  <2>6. Captured'
    BY <2>b DEF IInv, Captured, NoReceipt
  <2>7. Remembered'
    BY <1>1, <1>2, <2>b
    DEF IInv, ghosts, Types, Remembered, Known, Expected, Late, PluginData, NoReceipt
  <2>8. LateIsUnknown'
    BY <1>1, <1>2, <2>a
    DEF IInv, ghosts, LateIsUnknown, LateEditsSurvive, Steps, Receiving, Known,
        Expected, Late
  <2>9. LateEditsSurvive'
    BY <1>1, <1>2
    DEF IInv, ghosts, Types, LateEditsSurvive, LateIsUnknown, Steps, Receiving, Late
  <2>10. Progress'
    BY <1>1, <1>2, <2>a DEF IInv, ghosts, Progress, DoneAt, Goal, Late, PluginData
  <2> QED BY <2>1, <2>2, <2>3, <2>4, <2>5, <2>6, <2>7, <2>8, <2>9, <2>10 DEF IInv
<1> QED BY <1>2, <1>3, <1>4

LEMMA RecordKeeps ==
  ASSUME IInv, NEW f \in Files, Record(f)
  PROVE  IInv'
<1>1. /\ work.todo[f] = "save" /\ Receiving
      /\ UNCHANGED <<canon, local, mem, snap, ghosts>>
  BY DEF IInv, Work, Record
<1>2. PICK s \in {"done", "failed"} :
         /\ work' = [pc |-> work.pc, canon |-> work.canon,
                     todo |-> [work.todo EXCEPT ![f] = s]]
         /\ \/ disk' = mem /\ used' = used
            \/ s = "failed" /\ disk' = disk /\ Fault
  BY DEF IInv, Types, Record, Todo
<1>3. Types'
  BY <1>1, <1>2, ReceptionAssumption DEF IInv, Fault, Room, ghosts, Types, States
<1>4. Numbered'
  BY <1>1, <1>2 DEF IInv, Numbered
<1>5. Steps'
  BY <1>1, <1>2 DEF IInv, Steps
<1>6. Work'
  BY <1>1, <1>2 DEF IInv, Work, Receiving, Goal
<1>7. Kept'
  BY <1>1, <1>2 DEF IInv, Kept
<1>8. Captured'
  BY <1>1 DEF IInv, Captured, Steps
<1>9. Remembered'
  BY <1>1 DEF IInv, ghosts, Remembered, Expected, Late
<1>10. LateIsUnknown'
  BY <1>1 DEF IInv, ghosts, LateIsUnknown, Expected, Late
<1>11. LateEditsSurvive'
  BY <1>1 DEF IInv, ghosts, LateEditsSurvive, Late
<1>12. Progress'
  BY <1>1, <1>2 DEF IInv, ghosts, Progress, DoneAt, Goal, Late
<1> QED BY <1>3, <1>4, <1>5, <1>6, <1>7, <1>8, <1>9, <1>10, <1>11, <1>12 DEF IInv

LEMMA WrittenKeeps ==
  ASSUME IInv, Written
  PROVE  IInv'
<1>1. Types'
  BY DEF IInv, Types, Phases, States, Written, At, ghosts, ghosts
<1>2. Numbered'
  BY DEF IInv, Numbered, Written
<1>3. Steps'
  BY DEF IInv, Steps, Receiving, Written, At
<1>4. Work'
  BY DEF IInv, Work, Receiving, Goal, Written, At, Extras
<1>5. Kept'
  BY DEF IInv, Kept, Written
<1>6. Captured'
  BY DEF IInv, Captured, Written, ghosts, ghosts
<1>7. Remembered'
  BY DEF IInv, Remembered, Expected, Late, Written, ghosts, ghosts
<1>8. LateIsUnknown'
  BY DEF IInv, LateIsUnknown, Expected, Late, Written, ghosts, ghosts
<1>9. LateEditsSurvive'
  BY DEF IInv, LateEditsSurvive, Late, Written, ghosts, ghosts
<1>10. Progress'
  BY DEF IInv, Progress, DoneAt, Goal, Late, Written, At, Extras, ghosts, ghosts
<1> QED BY <1>1, <1>2, <1>3, <1>4, <1>5, <1>6, <1>7, <1>8, <1>9, <1>10 DEF IInv

LEMMA StopKeeps ==
  ASSUME IInv, Stop
  PROVE  IInv'
<1>1. Types'
  BY FailedIs DEF IInv, Types, Stop, Abort, ghosts
<1>2. Numbered'
  BY DEF IInv, Numbered, Stop, Abort
<1>3. Steps'
  BY FailedIs DEF IInv, Steps, Receiving, Stop, Abort
<1>4. Work'
  BY FailedIs DEF IInv, Work, Stop, Abort
<1>5. Kept'
  BY DEF IInv, Kept, Stop, Abort
<1>6. Captured'
  BY DEF IInv, Captured, Stop, Abort, ghosts
<1>7. Remembered'
  BY DEF IInv, Remembered, Expected, Late, Stop, Abort, ghosts
<1>8. LateIsUnknown'
  BY DEF IInv, LateIsUnknown, Expected, Late, Stop, Abort, ghosts
<1>9. LateEditsSurvive'
  BY DEF IInv, LateEditsSurvive, Late, Stop, ghosts
<1>10. Progress'
  BY FailedIs DEF IInv, Progress, DoneAt, Stop, Abort
<1> QED BY <1>1, <1>2, <1>3, <1>4, <1>5, <1>6, <1>7, <1>8, <1>9, <1>10 DEF IInv

LEMMA CheckExtraKeeps ==
  ASSUME IInv, NEW f \in Files, CheckExtra(f)
  PROVE  IInv'
<1>1. /\ work.pc = "extras" /\ work.todo[f] = "check"
      /\ UNCHANGED <<canon, local, mem, disk, snap, ghosts, used>>
  BY DEF CheckExtra, Abort
<1>2. \/ work' = [pc |-> "extras", canon |-> work.canon,
                  todo |-> [work.todo EXCEPT ![f] = "write"]]
      \/ work' = Failed
  BY DEF IInv, Types, CheckExtra, Abort, Todo
<1>3. Types'
  BY <1>1, <1>2, FailedIs DEF IInv, ghosts, Types, States
<1>4. Numbered'
  BY <1>1 DEF IInv, Numbered
<1>5. Steps'
  BY <1>1, <1>2, FailedIs DEF IInv, Steps, Receiving
<1>6. Work'
  BY <1>1, <1>2, FailedIs DEF IInv, Types, Work, Receiving, Goal
<1>7. Kept'
  BY <1>1 DEF IInv, Kept
<1>8. Captured'
  BY <1>1 DEF IInv, Captured, Steps, Receiving
<1>9. Remembered'
  BY <1>1 DEF IInv, ghosts, Remembered, Expected, Late
<1>10. LateIsUnknown'
  BY <1>1 DEF IInv, ghosts, LateIsUnknown, Expected, Late
<1>11. LateEditsSurvive'
  BY <1>1 DEF IInv, ghosts, LateEditsSurvive, Late
<1>12. Progress'
  BY <1>1, <1>2, FailedIs DEF IInv, ghosts, Types, Progress, DoneAt, Goal, Late
<1> QED BY <1>3, <1>4, <1>5, <1>6, <1>7, <1>8, <1>9, <1>10, <1>11, <1>12 DEF IInv

LEMMA RemoveKeeps ==
  ASSUME IInv, NEW f \in Files, Remove(f)
  PROVE  IInv'
<1>1. /\ work.pc = "extras" /\ work.todo[f] = "write" /\ Goal(f) = Nil
      /\ UNCHANGED <<canon, disk, snap, ghosts, used>>
  BY DEF IInv, Work, Remove
<1>2. PICK s \in {"done", "save"} :
         /\ work' = [pc |-> "extras", canon |-> work.canon,
                     todo |-> [work.todo EXCEPT ![f] = s]]
         /\ s = "done" => local[f] # Expected(f) /\ UNCHANGED <<local, mem>>
         /\ s = "save" => /\ local[f] = Expected(f)
                          /\ local' = [local EXCEPT ![f] = Nil]
                          /\ mem' = [mem EXCEPT !.receipt.initial[f] = Nil,
                                                !.receipt.applied[f] = Nil]
  BY DEF IInv, Types, Remove, Todo
<1>3. CASE s = "done"
  <2>1. Types'
    BY <1>1, <1>2, <1>3 DEF IInv, ghosts, Types, States
  <2>2. Numbered'
    BY <1>1, <1>2, <1>3 DEF IInv, Numbered
  <2>3. Steps'
    BY <1>1, <1>2, <1>3 DEF IInv, Steps, Receiving
  <2>4. Work'
    BY <1>1, <1>2 DEF IInv, Work, Receiving, Goal
  <2>5. Kept'
    BY <1>1, <1>2, <1>3 DEF IInv, Kept
  <2>6. Captured'
    BY <1>1, <1>2, <1>3 DEF IInv, Captured, Steps, Receiving
  <2>7. Remembered'
    BY <1>1, <1>2, <1>3 DEF IInv, ghosts, Remembered, Expected, Late
  <2>8. LateIsUnknown'
    BY <1>1, <1>2, <1>3 DEF IInv, ghosts, LateIsUnknown, Expected, Late
  <2>9. LateEditsSurvive'
    BY <1>1, <1>2, <1>3 DEF IInv, ghosts, LateEditsSurvive, Late
  <2>10. Progress'
    BY <1>1, <1>2, <1>3
    DEF IInv, ghosts, Progress, Remembered, Steps, Receiving, DoneAt, Goal, Late
  <2> QED BY <2>1, <2>2, <2>3, <2>4, <2>5, <2>6, <2>7, <2>8, <2>9, <2>10 DEF IInv
<1>4. CASE s = "save"
  <2>0. mem \in PluginData
    BY DEF IInv, Types
  <2>a. /\ mem' \in PluginData /\ mem'.gen = mem.gen
        /\ mem'.receipt = [gen |-> mem.receipt.gen,
                           initial |-> [mem.receipt.initial EXCEPT ![f] = Nil],
                           applied |-> [mem.receipt.applied EXCEPT ![f] = Nil]]
    BY <2>0, <1>1, <1>2, <1>4, Removed
  <2>b. mem.receipt.gen > 0 /\ mem'.receipt.gen = mem.receipt.gen
    BY <1>1, <2>a DEF IInv, Steps, Receiving, Numbered
  <2>1. Types'
    BY <1>1, <1>2, <2>a, Values, ReceptionAssumption DEF IInv, ghosts, Types, States
  <2>2. Numbered'
    BY <1>1, <2>b DEF IInv, Numbered
  <2>3. Steps'
    BY <1>1, <1>2, <2>b DEF IInv, Steps, Receiving, NoReceipt
  <2>4. Work'
    BY <1>1, <1>2 DEF IInv, Work, Receiving, Goal
  <2>5. Kept'
    BY <2>b DEF IInv, Kept, NoReceipt
  <2>6. Captured'
    BY <2>b DEF IInv, Captured, NoReceipt
  <2>7. Remembered'
    BY <1>1, <1>2, <2>a, <2>b, Values
    DEF IInv, ghosts, Types, Remembered, Known, Expected, Goal, Late, PluginData,
        Numbered, NoReceipt
  <2>8. LateIsUnknown'
    BY <1>1, <1>2, <2>a, Values, ReceptionAssumption
    DEF IInv, ghosts, Remembered, LateIsUnknown, LateEditsSurvive, Captured, Steps,
        Work, Receiving, Known, Expected, Goal, Late
  <2>9. LateEditsSurvive'
    BY <1>1, <1>2
    DEF IInv, ghosts, Types, LateEditsSurvive, LateIsUnknown, Steps, Receiving, Late
  <2>10. Progress'
    BY <1>1, <1>2, <2>a, Values
    DEF IInv, ghosts, Types, Progress, DoneAt, Known, Expected, Goal, Late, PluginData
  <2> QED BY <2>1, <2>2, <2>3, <2>4, <2>5, <2>6, <2>7, <2>8, <2>9, <2>10 DEF IInv
<1> QED BY <1>2, <1>3, <1>4

LEMMA FinishKeeps ==
  ASSUME IInv, Finish
  PROVE  IInv'
<1>1. /\ work.pc = "extras" /\ UNCHANGED <<canon, local, snap, ghosts>>
      /\ mem.receipt # NoReceipt
  BY DEF IInv, Steps, Receiving, Finish
<1>2. CASE ~Current
  <2>a. UNCHANGED <<mem, disk, used>> /\ work' = Failed
    BY <1>2 DEF Finish, Abort
  <2>1. Types'
    BY <1>1, <2>a, FailedIs DEF IInv, ghosts, Types
  <2>2. Numbered'
    BY <1>1, <2>a DEF IInv, Numbered
  <2>3. Steps'
    BY <1>1, <2>a, FailedIs DEF IInv, Steps, Receiving
  <2>4. Work'
    BY <2>a, FailedIs DEF IInv, Work
  <2>5. Kept'
    BY <2>a DEF IInv, Kept
  <2>6. Captured'
    BY <1>1, <2>a DEF IInv, Captured
  <2>7. Remembered'
    BY <1>1, <2>a DEF IInv, ghosts, Remembered, Expected, Late
  <2>8. LateIsUnknown'
    BY <1>1, <2>a DEF IInv, ghosts, LateIsUnknown, Expected, Late
  <2>9. LateEditsSurvive'
    BY <1>1 DEF IInv, ghosts, LateEditsSurvive, Late
  <2>10. Progress'
    BY <2>a, FailedIs DEF IInv, Progress, DoneAt
  <2> QED BY <2>1, <2>2, <2>3, <2>4, <2>5, <2>6, <2>7, <2>8, <2>9, <2>10 DEF IInv
<1>3. CASE Current
  <2>a. /\ mem' = [gen |-> work.canon.gen, base |-> work.canon.files,
                   receipt |-> mem'.receipt]
        /\ \/ /\ mem'.receipt = NoReceipt /\ disk' = mem' /\ used' = used
              /\ work' = [pc |-> "finalize", canon |-> work.canon, todo |-> work.todo]
           \/ mem'.receipt = mem.receipt /\ disk' = disk /\ work' = Failed /\ Fault
        /\ \A f \in Files : work.todo[f] = "done"
    BY <1>3 DEF IInv, Types, Finish, At
  <2>b. NoReceipt \in [gen : Generation, initial : [Files -> Contents],
                       applied : [Files -> Canonical]]
    BY Values, ReceptionAssumption DEF NoReceipt, Generation, None
  <2>1. Types'
    BY <1>1, <2>a, <2>b, Values, ReceptionAssumption, FailedIs
    DEF IInv, ghosts, Types, PluginData, Generation, Phases, Untouched, Fault, Room
  <2>2. Numbered'
    BY <1>1, <2>a DEF IInv, Numbered
  <2>3. Steps'
    BY <1>1, <2>a, FailedIs DEF IInv, Steps, Receiving
  <2>4. Work'
    BY <2>a, FailedIs DEF IInv, Work
  <2>5. Kept'
    BY <2>a DEF IInv, Kept
  <2>6. Captured'
    BY <1>1, <2>a DEF IInv, Captured
  <2>7. Remembered'
    BY <1>1, <2>a DEF IInv, ghosts, Remembered, Expected, Late
  <2>8. LateIsUnknown'
    BY <1>1, <2>a DEF IInv, ghosts, LateIsUnknown, Expected, Late
  <2>9. LateEditsSurvive'
    BY <1>1 DEF IInv, ghosts, LateEditsSurvive, Late
  <2>10. Progress'
    BY <2>a, FailedIs DEF IInv, Progress, DoneAt
  <2> QED BY <2>1, <2>2, <2>3, <2>4, <2>5, <2>6, <2>7, <2>8, <2>9, <2>10 DEF IInv
<1> QED BY <1>2, <1>3

LEMMA FinalizeKeeps ==
  ASSUME IInv, Finalize
  PROVE  IInv'
<1>1. /\ work.pc = "finalize" /\ UNCHANGED <<canon, local, mem, disk, snap, user, lost>>
      /\ \/ work' = Off /\ captured' = FALSE /\ unclear' = {} /\ used' = used
         \/ work' = Failed /\ captured' = captured /\ unclear' = unclear
            /\ (used' = used \/ Fault)
  BY FailedIs DEF Finalize, Failed, Off
<1>2. mem.receipt = NoReceipt /\ mem.gen # snap.gen
  BY <1>1 DEF IInv, Steps
<1>3. Types'
  <2>1. used' \in [edit : 0 .. MaxEdit, other : 0 .. MaxOther, fault : 0 .. MaxFault]
        /\ used'.other = used.other
    BY <1>1, ReceptionAssumption DEF IInv, Types, Fault, Room
  <2> QED
    BY <1>1, <2>1, FailedIs DEF IInv, Types
<1>4. Numbered'
  BY <1>1 DEF IInv, Numbered
<1>5. Steps'
  BY <1>1, FailedIs DEF IInv, Steps, Receiving
<1>6. Work'
  BY <1>1, FailedIs DEF IInv, Work
<1>7. Kept'
  BY <1>1 DEF IInv, Kept
<1>8. Captured'
  BY <1>1, <1>2, FailedIs DEF IInv, Captured
<1>9. Remembered'
  BY <1>1, <1>2 DEF IInv, Remembered
<1>10. LateIsUnknown'
  BY <1>1, <1>2 DEF IInv, LateIsUnknown
<1>11. LateEditsSurvive'
  BY <1>1 DEF IInv, LateEditsSurvive, Late
<1>12. Progress'
  BY <1>1, <1>2, FailedIs DEF IInv, Progress, Goal, NoReceipt
<1> QED BY <1>3, <1>4, <1>5, <1>6, <1>7, <1>8, <1>9, <1>10, <1>11, <1>12 DEF IInv

LEMMA RestoreKeeps ==
  ASSUME IInv, Restore
  PROVE  IInv'
<1>1. Types'
  <2>1. mem' \in PluginData
    BY DEF IInv, Types, PluginData, Restore, Snapshot
  <2>2. lost' \in BOOLEAN /\ unclear' \subseteq Files
    BY DEF IInv, Types, Restore, Forgotten
  <2>3. used' \in [edit : 0 .. MaxEdit, other : 0 .. MaxOther, fault : 0 .. MaxFault]
        /\ used'.other = used.other
    BY ReceptionAssumption DEF IInv, Types, Restore, Fault, Room
  <2> QED
    BY <2>1, <2>2, <2>3, FailedIs DEF IInv, Types, Restore
<1>2. Numbered'
  BY DEF IInv, Types, Numbered, PluginData, Restore, Snapshot
<1>3. Steps'
  BY FailedIs DEF IInv, Steps, Receiving, Restore
<1>4. Work'
  BY FailedIs DEF IInv, Work, Restore
<1>5. Kept'
  BY DEF IInv, Kept, Restore, Snapshot
<1>6. Captured'
  BY DEF IInv, Types, Captured, PluginData, Restore, Snapshot
<1>7. Remembered'
  BY DEF IInv, Remembered, Expected, Late, Restore, Forgotten
<1>8. LateIsUnknown'
  BY DEF IInv, Types, LateIsUnknown, Steps, Expected, Late, PluginData, Restore,
      Snapshot
<1>9. LateEditsSurvive'
  BY DEF IInv, LateEditsSurvive, Late, Restore
<1>10. Progress'
  BY FailedIs DEF IInv, Progress, DoneAt, Restore
<1> QED BY <1>1, <1>2, <1>3, <1>4, <1>5, <1>6, <1>7, <1>8, <1>9, <1>10 DEF IInv

LEMMA RefusedKeeps ==
  ASSUME IInv, Refused
  PROVE  IInv'
<1>1. Types'
  BY ReceptionAssumption, FailedIs DEF IInv, Types, Refused, Fault, Room, ghosts, ghosts
<1>2. Numbered'
  BY DEF IInv, Numbered, Refused
<1>3. Steps'
  BY FailedIs DEF IInv, Types, Phases, Steps, Receiving, Refused
<1>4. Work'
  BY FailedIs DEF IInv, Work, Refused
<1>5. Kept'
  BY DEF IInv, Kept, Refused
<1>6. Captured'
  BY DEF IInv, Captured, Refused, ghosts, ghosts
<1>7. Remembered'
  BY DEF IInv, Remembered, Expected, Late, Refused, ghosts, ghosts
<1>8. LateIsUnknown'
  BY DEF IInv, LateIsUnknown, Expected, Late, Refused, ghosts, ghosts
<1>9. LateEditsSurvive'
  BY DEF IInv, LateEditsSurvive, Late, Refused, ghosts, ghosts
<1>10. Progress'
  BY FailedIs DEF IInv, Progress, DoneAt, Refused
<1> QED BY <1>1, <1>2, <1>3, <1>4, <1>5, <1>6, <1>7, <1>8, <1>9, <1>10 DEF IInv

LEMMA CrashKeeps ==
  ASSUME IInv, Crash
  PROVE  IInv'
<1>1. Types'
  BY ReceptionAssumption, FailedIs DEF IInv, Types, Crash, Fault, Room, Forgotten
<1>2. Numbered'
  BY DEF IInv, Numbered, Crash
<1>3. Steps'
  BY FailedIs DEF IInv, Steps, Receiving, Crash
<1>4. Work'
  BY FailedIs DEF IInv, Work, Crash
<1>5. Kept'
  BY DEF IInv, Kept, Crash
<1>6. Captured'
  BY DEF IInv, Captured, Crash
<1>7. Remembered'
  BY DEF IInv, Remembered, Expected, Late, Crash, Forgotten
<1>8. LateIsUnknown'
  BY DEF IInv, LateIsUnknown, Expected, Late, Crash
<1>9. LateEditsSurvive'
  BY DEF IInv, LateEditsSurvive, Late, Crash
<1>10. Progress'
  BY FailedIs DEF IInv, Progress, DoneAt, Crash
<1> QED BY <1>1, <1>2, <1>3, <1>4, <1>5, <1>6, <1>7, <1>8, <1>9, <1>10 DEF IInv

LEMMA EditKeeps ==
  ASSUME IInv, NEW f \in Files, Edit(f)
  PROVE  IInv'
<1>1. Types'
  BY Values, ReceptionAssumption DEF IInv, Types, Edit, Room
<1>2. Numbered'
  BY DEF IInv, Numbered, Edit
<1>3. Steps'
  BY DEF IInv, Steps, Receiving, Edit
<1>4. Work'
  BY DEF IInv, Work, Receiving, Goal, Edit
<1>5. Kept'
  BY DEF IInv, Kept, Edit
<1>6. Captured'
  BY DEF IInv, Captured, Edit
<1>7. Remembered'
  BY Values, ReceptionAssumption
  DEF IInv, Types, Remembered, Expected, Late, Edit, Room, Protecting
<1>8. LateIsUnknown'
  BY DEF IInv, LateIsUnknown, Expected, Late, Edit
<1>9. LateEditsSurvive'
  BY DEF IInv, Types, LateEditsSurvive, Late, Edit
<1>10. Progress'
  BY Values, ReceptionAssumption
  DEF IInv, Types, Progress, Steps, Receiving, DoneAt, Goal, Late, Edit, Room,
      Protecting
<1> QED BY <1>1, <1>2, <1>3, <1>4, <1>5, <1>6, <1>7, <1>8, <1>9, <1>10 DEF IInv

LEMMA OthersCommitKeeps ==
  ASSUME IInv, NEW f \in Files, OthersCommit(f)
  PROVE  IInv'
<1>1. Types'
  BY Values, ReceptionAssumption
  DEF IInv, Types, Generation, OthersCommit, Room, ghosts, ghosts
<1>2. Numbered'
  BY DEF IInv, Numbered, OthersCommit
<1>3. Steps'
  BY DEF IInv, Steps, Receiving, OthersCommit
<1>4. Work'
  BY DEF IInv, Work, Receiving, Goal, OthersCommit
<1>5. Kept'
  BY DEF IInv, Kept, OthersCommit
<1>6. Captured'
  BY DEF IInv, Captured, OthersCommit, ghosts, ghosts
<1>7. Remembered'
  BY DEF IInv, Remembered, Expected, Late, OthersCommit, ghosts, ghosts
<1>8. LateIsUnknown'
  BY DEF IInv, LateIsUnknown, Expected, Late, OthersCommit, ghosts, ghosts
<1>9. LateEditsSurvive'
  BY DEF IInv, LateEditsSurvive, Late, OthersCommit, ghosts, ghosts
<1>10. Progress'
  BY DEF IInv, Progress, DoneAt, Goal, Late, OthersCommit, ghosts, ghosts
<1> QED BY <1>1, <1>2, <1>3, <1>4, <1>5, <1>6, <1>7, <1>8, <1>9, <1>10 DEF IInv

LEMMA ReplacedKeeps ==
  ASSUME IInv, Replaced
  PROVE  IInv'
<1>1. Types'
  BY Values, ReceptionAssumption
  DEF IInv, Types, Generation, Replaced, Room, ghosts, ghosts
<1>2. Numbered'
  BY DEF IInv, Numbered, Replaced
<1>3. Steps'
  BY DEF IInv, Steps, Receiving, Replaced
<1>4. Work'
  BY DEF IInv, Work, Receiving, Goal, Replaced
<1>5. Kept'
  BY DEF IInv, Kept, Replaced
<1>6. Captured'
  BY DEF IInv, Captured, Replaced, ghosts, ghosts
<1>7. Remembered'
  BY DEF IInv, Remembered, Expected, Late, Replaced, ghosts, ghosts
<1>8. LateIsUnknown'
  BY DEF IInv, LateIsUnknown, Expected, Late, Replaced, ghosts, ghosts
<1>9. LateEditsSurvive'
  BY DEF IInv, LateEditsSurvive, Late, Replaced, ghosts, ghosts
<1>10. Progress'
  BY DEF IInv, Progress, DoneAt, Goal, Late, Replaced, ghosts, ghosts
<1> QED BY <1>1, <1>2, <1>3, <1>4, <1>5, <1>6, <1>7, <1>8, <1>9, <1>10 DEF IInv

LEMMA InitIInv == Init => IInv
<1> SUFFICES ASSUME Init PROVE IInv
  OBVIOUS
<1>1. NoReceipt \in [gen : Generation, initial : [Files -> Contents],
                     applied : [Files -> Canonical]]
  BY Values, ReceptionAssumption DEF NoReceipt, None, Generation
<1>2. mem \in PluginData
  BY <1>1, Values, ReceptionAssumption DEF Init, PluginData, None, Generation
<1>3. canon \in [gen : Generation, files : [Files -> Canonical]] /\ canon.gen = 1
  BY Values, ReceptionAssumption DEF Init, Generation
<1>4. local \in [Files -> Contents] /\ user \in [Files -> Contents \cup {Untouched}]
  BY Values DEF Init
<1>5. used \in [edit : 0 .. MaxEdit, other : 0 .. MaxOther, fault : 0 .. MaxFault]
      /\ used.other = 0
  BY ReceptionAssumption DEF Init
<1>6. disk = mem /\ snap = mem /\ work = Off /\ captured = FALSE /\ lost = FALSE
      /\ unclear = {}
  BY DEF Init
<1>7. Types
  <2>1. 0 < canon.gen /\ canon.gen <= used.other + 1
    BY <1>3, <1>5
  <2>2. disk \in PluginData /\ snap \in PluginData
    BY <1>2, <1>6
  <2>3. work \in [pc : Phases, canon : [gen : Generation, files : [Files -> Canonical]],
                 todo : [Files -> States]]
    BY <1>6, FailedIs
  <2>4. captured \in BOOLEAN /\ lost \in BOOLEAN /\ unclear \subseteq Files
    BY <1>6
  <2> QED
    BY <1>2, <1>3, <1>4, <1>5, <2>1, <2>2, <2>3, <2>4 DEF Types
<1>8. mem.receipt = NoReceipt /\ disk = mem /\ snap = mem /\ work = Off
      /\ (\A f \in Files : ~Late(f))
  BY DEF Init, Late
<1> QED
  BY <1>7, <1>8, FailedIs
  DEF Init, IInv, Numbered, Steps, Receiving, Work, Kept, Captured, Remembered,
      LateIsUnknown, LateEditsSurvive, Progress, DoneAt

LEMMA StepIInv == IInv /\ [Next]_vars => IInv'
<1> SUFFICES ASSUME IInv, [Next]_vars PROVE IInv'
  OBVIOUS
<1>1. CASE ReceptionStep
  BY <1>1, StartKeeps, CaptureKeeps, WrittenKeeps, FinishKeeps, FinalizeKeeps,
     StopKeeps, RestoreKeeps, CheckKeeps, WriteKeeps, RecordKeeps, CheckExtraKeeps,
     RemoveKeeps DEF ReceptionStep
<1>2. CASE Refused \/ Crash \/ Replaced
  BY <1>2, RefusedKeeps, CrashKeeps, ReplacedKeeps
<1>3. CASE \E f \in Files : Edit(f) \/ OthersCommit(f)
  BY <1>3, EditKeeps, OthersCommitKeeps
<1>4. CASE UNCHANGED vars
  BY <1>4
  DEF IInv, vars, ghosts, Types, Numbered, Steps, Receiving, Work, Goal, Kept, Captured,
      Remembered, LateIsUnknown, LateEditsSurvive, Progress, DoneAt, Late, Expected
<1> QED
  BY <1>1, <1>2, <1>3, <1>4 DEF Next

LEMMA AlwaysIInv == Spec => []IInv
  BY InitIInv, StepIInv, PTL DEF Spec

\* The state is well formed, and what the user does after the receipt exists is
\* what the vault holds (encryption-adoption.ts, the comparisons before each
\* write and each deletion).
THEOREM LateEditsAreKept == Spec => []VaultConsistent
<1>1. IInv => VaultConsistent
  BY Values, ReceptionAssumption
  DEF IInv, Types, Phases, States, Generation, VaultConsistent, TypeOK
<1> QED
  BY AlwaysIInv, <1>1, PTL

\* When a generation becomes the baseline, the vault holds it, the named
\* exceptions aside (encryption-adoption.ts:300-320).
THEOREM AdoptionIsComplete == Spec => AdoptedIsAuthoritative
<1> DEFINE Adopting == /\ disk'.gen # disk.gen
                       /\ disk'.receipt = NoReceipt
                       /\ work'.pc = "finalize"
           Settled(f) == \/ local[f] = canon.files[f]
                         \/ Late(f)
                         \/ f \in unclear
                         \/ LeftBehind(f)
<1>1. ASSUME IInv, [Next]_vars, Adopting, NEW f \in Files
      PROVE  Settled(f)
  <2>1. Finish
    <3>1. ASSUME NEW g \in Files, Record(g)
          PROVE  FALSE
      BY <1>1, <3>1 DEF IInv, Types, Work, Receiving, Record, Todo
    <3>2. ~Capture
      BY <1>1 DEF IInv, Types, Capture, Save, Planned, At
    <3>3. ~Restore
      BY <1>1, FailedIs DEF Restore
    <3> QED
      BY <1>1, <3>1, <3>2, <3>3
      DEF Next, ReceptionStep, vars, Start, Written, Finalize, Stop, Check, Write,
          CheckExtra, Remove, Refused, Crash, Replaced, Edit, OthersCommit, Abort
  <2>2. work.pc = "extras" /\ work.todo[f] = "done" /\ Goal(f) = canon.files[f]
    BY <1>1, <2>1 DEF Finish, Abort, Current, Goal
  <2>3. CASE Late(f) \/ f \in unclear
    BY <2>3
  <2>4. CASE ~Late(f) /\ f \notin unclear
    <3>1. local[f] = Expected(f)
      BY <1>1, <2>2, <2>4 DEF IInv, Steps, Receiving, Remembered
    <3>2. CASE Goal(f) # Nil
      BY <1>1, <2>2, <3>1, <3>2 DEF IInv, Progress, Expected, Known
    <3>3. CASE Goal(f) = Nil
      BY <1>1, <2>2, <2>4, <3>1, <3>3
      DEF IInv, Progress, DoneAt, Expected, Known, LeftBehind
    <3> QED
      BY <3>2, <3>3
  <2> QED
    BY <2>3, <2>4
<1>2. IInv /\ [Next]_vars => [Adopting => \A f \in Files : Settled(f)]_vars
  BY <1>1
<1> QED
  BY AlwaysIInv, <1>2, PTL DEF Spec, AdoptedIsAuthoritative

\* A saved receipt is given up only with the save of the generation
\* (encryption-adoption.ts:312-316, full.ts:955).
THEOREM ReceiptIsKept == Spec => ReceiptGuardsTheVault
<1> DEFINE GivenUp == disk.receipt # NoReceipt /\ disk'.receipt = NoReceipt
           Adopted == disk'.gen = canon.gen /\ disk'.base = canon.files
<1>1. ASSUME IInv, Next, GivenUp
      PROVE  Adopted
  <2>1. mem.receipt # NoReceipt
    BY <1>1 DEF IInv, Kept
  <2>2. ASSUME NEW f \in Files, Record(f)
        PROVE  FALSE
    BY <1>1, <2>1, <2>2 DEF Record
  <2>3. ~Capture
    BY <1>1 DEF IInv, Types, Steps, PluginData, Capture, Save, Receipt, NoReceipt
  <2>4. ~Restore
    BY <1>1, <2>1 DEF IInv, Types, PluginData, Restore, Snapshot
  <2>5. CASE Finish
    BY <1>1, <2>5 DEF Finish, Abort, Current
  <2> QED
    BY <1>1, <2>2, <2>3, <2>4, <2>5
    DEF Next, ReceptionStep, Start, Written, Finalize, Stop, Check, Write, CheckExtra,
        Remove, Refused, Crash, Replaced, Edit, OthersCommit, Abort
<1>2. IInv /\ [Next]_vars => [GivenUp => Adopted]_vars
  BY <1>1
<1> QED
  BY AlwaysIInv, <1>2, PTL DEF Spec, ReceiptGuardsTheVault

=============================================================================
