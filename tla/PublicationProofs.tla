------------------------- MODULE PublicationProofs -------------------------
(***************************************************************************)
(* When runs do not overlap, whatever their number, the size of the bundle *)
(* and the calls that fail: a converted file is whole and of one run, a    *)
(* retry never collides with what was left behind, readers get one run's   *)
(* bundle, and Publication implements Release.                             *)
(***************************************************************************)
EXTENDS Publication, FiniteSetTheorems, TLAPS

Unpublished == {"clearOutputs", "clearValidation", "build", "saveValidation", "put",
                "record", "putArchive", "markConverted", "markFailed"}
Published == {"markJob", "settle", "over", "done"}

(* Runs come one after the other, and one that has recorded its end was    *)
(* the last.                                                               *)
Solo ==
  /\ \A c, d \in Runs : Active(c) /\ Active(d) => c = d
  /\ \A c, d \in Runs : pc[c] = "done" => jobDone /\ ~Active(d)
  /\ jobDone => fileStatus = "converted" /\ \A c \in Runs : Active(c) => pc[c] = "settle"

(* What a run has achieved by the call it makes next.                      *)
Emptied(c) ==
  pc[c] \in {"clearValidation", "build", "saveValidation"} =>
    \A i \in Positions : rows[i] = None

Storing(c) ==
  /\ pc[c] \in {"put", "record"} =>
       /\ Publishable /\ validation = c
       /\ \A i \in Positions : IF i < pos[c] THEN rows[i] = c /\ objects[i] = c
                                             ELSE rows[i] = None
  /\ pc[c] = "record" => objects[pos[c]] = c

Stored(c) ==
  /\ pc[c] \in {"putArchive", "markConverted"} =>
       /\ Publishable /\ validation = c
       /\ \A i \in Positions : rows[i] = c /\ objects[i] = c
  /\ pc[c] = "markConverted" => archive = c
  /\ pc[c] = "markJob" => fileStatus = "converted" /\ archive = c

Hidden(c) == pc[c] \in Unpublished => fileStatus # "converted"

Stage == \A c \in Runs : Emptied(c) /\ Storing(c) /\ Stored(c) /\ Hidden(c)

WholeBy(c) ==
  /\ validation = c /\ archive = c
  /\ \A i \in Positions : rows[i] = c /\ objects[i] = c

Whole ==
  fileStatus = "converted" =>
    Publishable /\ \E c \in Runs : WholeBy(c) /\ pc[c] \in Published

(* A reader past the first read knows a run that was interrupted, or the   *)
(* one whose bundle is still there and is all it has met.                  *)
Has(q, c) ==
  /\ c \in seen[q]
  /\ \/ pc[c] = "over"
     \/ /\ pc[c] \in Published /\ fileStatus = "converted" /\ archive = c
        /\ seen[q] = {c} /\ at[q] # "missing"

Met(q) ==
  /\ at[q] = "start" => seen[q] = {}
  /\ at[q] \notin {"start", "refused"} => \E c \in Runs : Has(q, c)

IInv == /\ TypeOK
        /\ Solo
        /\ Stage
        /\ Whole
        /\ RowsAreOneAttempt
        /\ \A q \in Readers : Met(q)

-----------------------------------------------------------------------------
LEMMA PublicationInit == Init => IInv
<1> SUFFICES ASSUME Init PROVE IInv
  OBVIOUS
<1> USE DEF Init
<1>1. TypeOK
  <2>1. 0 \in Positions /\ "idle" \in RunSteps
    BY SizeAssumption DEF Positions, RunSteps
  <2> QED
    BY <2>1 DEF TypeOK
<1>2. Solo /\ Stage /\ Whole
  BY DEF Solo, Active, Stage, Emptied, Storing, Stored, Hidden, Unpublished, Whole
<1>3. RowsAreOneAttempt /\ \A q \in Readers : Met(q)
  BY DEF RowsAreOneAttempt, Met
<1> QED
  BY <1>1, <1>2, <1>3 DEF IInv

(* Type correctness: any answer leads to a step of the run.                *)
LEMMA CallType ==
  ASSUME TypeOK, NEW c \in Runs, NEW from, NEW a, NEW next \in RunSteps,
         NEW fail \in RunSteps, Call(c, from, a, next, fail)
  PROVE  /\ pc' \in [Runs -> RunSteps] /\ spent' \in [Faults -> Nat]
         /\ document' \in Verdicts /\ UNCHANGED <<document, reading>>
         /\ pc[c] = from
         /\ pc' = [pc EXCEPT ![c] = IF a = "ok" THEN next ELSE fail]
<1>1. pc' = [pc EXCEPT ![c] = IF a = "ok" THEN next ELSE fail] /\ pc[c] = from
  BY DEF Call
<1>2. pc' \in [Runs -> RunSteps]
  BY <1>1 DEF TypeOK
<1>3. spent' \in [Faults -> Nat]
  BY DEF Call, TypeOK, Answers, Faults
<1> QED
  BY <1>1, <1>2, <1>3 DEF Call, TypeOK

LEMMA TypeStep == ASSUME TypeOK, [Next]_vars PROVE TypeOK'
<1> USE DEF TypeOK, tables, store, reading
<1>1. ASSUME NEW c \in Runs, Convert(c) PROVE TypeOK'
  <2> USE CallType
  <2>0. /\ \A s \in {"clearOutputs", "clearValidation", "build", "saveValidation",
                     "put", "record", "putArchive", "markConverted", "markJob",
                     "markFailed", "settle", "over", "done"} : s \in RunSteps
        /\ pos[c] \in Positions
    BY DEF RunSteps
  <2>1. CASE MarkConverting(c)
    BY <2>0, <2>1 DEF MarkConverting
  <2>2. CASE ClearOutputs(c)
    <3>1. PICK a \in Answers : Call(c, "clearOutputs", a, "clearValidation", "markFailed")
      BY <2>2 DEF ClearOutputs
    <3>2. rows' \in [Positions -> Runs \cup {None}]
      BY <2>2 DEF ClearOutputs
    <3> QED
      BY <2>0, <2>2, <3>1, <3>2 DEF ClearOutputs
  <2>3. CASE ClearValidation(c)
    BY <2>0, <2>3 DEF ClearValidation
  <2>4. CASE Build(c)
    BY <2>0, <2>4 DEF Build
  <2>5. CASE SaveValidation(c)
    <3>1. PICK a \in Answers :
            Call(c, "saveValidation", a, IF Publishable THEN "put" ELSE "markFailed",
                 "markFailed")
      BY <2>5 DEF SaveValidation
    <3>2. pos' \in [Runs -> Positions]
      BY <2>5, SizeAssumption DEF SaveValidation, Positions
    <3> QED
      BY <2>0, <2>5, <3>1, <3>2 DEF SaveValidation
  <2>6. CASE PutFile(c)
    <3>1. PICK a \in Answers : Call(c, "put", a, "record", "markFailed")
      BY <2>6 DEF PutFile
    <3>2. objects' \in [Positions -> Runs \cup {None}]
      BY <2>0, <2>6 DEF PutFile
    <3> QED
      BY <2>0, <2>6, <3>1, <3>2 DEF PutFile
  <2>7. CASE RecordFile(c)
    <3> DEFINE next == IF rows[pos[c]] # None THEN "markFailed"
                       ELSE IF pos[c] = Size - 1 THEN "putArchive" ELSE "put"
    <3>1. PICK a \in Answers : Call(c, "record", a, next, "markFailed")
      BY <2>7 DEF RecordFile
    <3>2. rows' \in [Positions -> Runs \cup {None}]
      BY <2>0, <2>7 DEF RecordFile
    <3>3. pos' \in [Runs -> Positions]
      BY <2>0, <2>7, SizeAssumption DEF RecordFile, Positions
    <3>4. next \in RunSteps
      BY <2>0
    <3>5. /\ pc' \in [Runs -> RunSteps] /\ spent' \in [Faults -> Nat]
          /\ UNCHANGED <<document, reading>>
      BY <2>0, <3>1, <3>4, CallType
    <3> QED
      BY <2>7, <3>2, <3>3, <3>5 DEF RecordFile
  <2>8. CASE PutArchive(c)
    BY <2>0, <2>8 DEF PutArchive
  <2>9. CASE MarkConverted(c)
    BY <2>0, <2>9 DEF MarkConverted
  <2>10. CASE MarkJobConverted(c)
    BY <2>0, <2>10 DEF MarkJobConverted
  <2>11. CASE MarkFailed(c)
    BY <2>0, <2>11 DEF MarkFailed
  <2>12. CASE Settle(c)
    BY <2>0, <2>12 DEF Settle
  <2> QED
    BY <1>1, <2>1, <2>2, <2>3, <2>4, <2>5, <2>6, <2>7, <2>8, <2>9, <2>10, <2>11,
       <2>12 DEF Convert
<1>2. ASSUME NEW c \in Runs, Crash(c) PROVE TypeOK'
  BY <1>2 DEF Crash, RunSteps, Faults
<1>3. CASE Retry
  BY <1>3 DEF Retry
<1>4. ASSUME NEW q \in Readers, NEW from,
             NEW to \in {"stat", "get", "list", "open", "refused", "missing", "served"},
             NEW met \in SUBSET (Runs \cup {None}), Read(q, from, to, met)
      PROVE  TypeOK'
  <2>1. seen' \in [Readers -> SUBSET (Runs \cup {None})]
    BY <1>4 DEF Read
  <2>2. at' \in [Readers -> {"start", "stat", "get", "list", "open", "refused",
                             "missing", "served"}]
    BY <1>4 DEF Read
  <2> QED
    BY <1>4, <2>1, <2>2 DEF Read
<1>5. ASSUME NEW q \in Readers,
             FindPublished(q) \/ StatArchive(q) \/ GetArchive(q) \/ ListForFile(q)
               \/ OpenOutput(q)
      PROVE  TypeOK'
  <2>1. CASE FindPublished(q)
    <3>1. {validation} \in SUBSET (Runs \cup {None}) /\ {} \in SUBSET (Runs \cup {None})
      OBVIOUS
    <3>2. CASE Read(q, "start", "stat", {validation}) \/ Read(q, "start", "list", {validation})
      BY <1>4, <3>1, <3>2
    <3>3. CASE Read(q, "start", "refused", {})
      BY <1>4, <3>1, <3>3
    <3> QED
      BY <2>1, <3>2, <3>3 DEF FindPublished
  <2>2. CASE StatArchive(q) \/ GetArchive(q)
    BY <1>4, <2>2 DEF StatArchive, GetArchive
  <2>3. CASE ListForFile(q)
    <3>1. {rows[i] : i \in Positions} \in SUBSET (Runs \cup {None})
      OBVIOUS
    <3> QED
      BY <1>4, <2>3, <3>1 DEF ListForFile
  <2>4. CASE OpenOutput(q)
    <3>1. PICK i \in Positions :
            Read(q, "open", IF objects[i] = None THEN "missing" ELSE "served", {objects[i]})
      BY <2>4 DEF OpenOutput
    <3>2. {objects[i]} \in SUBSET (Runs \cup {None})
      OBVIOUS
    <3> QED
      BY <1>4, <3>1, <3>2
  <2> QED
    BY <1>5, <2>1, <2>2, <2>3, <2>4
<1>6. CASE UNCHANGED vars
  BY <1>6 DEF vars
<1> QED
  BY <1>1, <1>2, <1>3, <1>5, <1>6 DEF Next

-----------------------------------------------------------------------------
(* The state of the runs                                                   *)

Resting == {"idle", "over"}

Core == Solo /\ Stage /\ Whole /\ RowsAreOneAttempt

(* Only one run has a step to take.                                        *)
LEMMA Turn ==
  ASSUME TypeOK, Solo, Overlap = FALSE, NEW c \in Runs, Convert(c)
  PROVE  /\ pc[c] \notin {"over", "done"}
         /\ \A d \in Runs \ {c} : pc[d] \in Resting
<1>1. CASE pc[c] = "idle"
  <2>1. MarkConverting(c)
    BY <1>1 DEF Convert, Call, ClearOutputs, ClearValidation, Build, SaveValidation,
       PutFile, RecordFile, PutArchive, MarkConverted, MarkJobConverted, MarkFailed, Settle
  <2> QED
    BY <1>1, <2>1 DEF MarkConverting, Solo, Active, Resting
<1>2. CASE pc[c] # "idle"
  <2>1. Active(c)
    BY <1>2 DEF Active, Convert, Call, MarkConverting, ClearOutputs, ClearValidation, Build,
       SaveValidation, PutFile, RecordFile, PutArchive, MarkConverted, MarkJobConverted,
       MarkFailed, Settle
  <2> QED
    BY <2>1 DEF Solo, Active, Resting
<1> QED
  BY <1>1, <1>2

(* What is left to show of a step of run c, when the others rest.          *)
LEMMA TurnTaken ==
  ASSUME TypeOK, NEW c \in Runs, NEW x, pc' = [pc EXCEPT ![c] = x],
         \A d \in Runs \ {c} : pc[d] \in Resting,
         x = "done" => jobDone',
         jobDone' => fileStatus' = "converted" /\ x \in {"settle", "done", "over", "idle"},
         Emptied(c)', Storing(c)', Stored(c)', Hidden(c)'
  PROVE  Solo' /\ Stage'
<1>1. pc'[c] = x /\ \A d \in Runs \ {c} : pc'[d] = pc[d] /\ pc'[d] \in Resting
  BY DEF TypeOK
<1>2. Solo'
  BY <1>1 DEF Solo, Active, Resting
<1>3. \A d \in Runs \ {c} : (Emptied(d) /\ Storing(d) /\ Stored(d) /\ Hidden(d))'
  BY <1>1 DEF Resting, Emptied, Storing, Stored, Hidden, Unpublished
<1> QED
  BY <1>2, <1>3 DEF Stage

(* The same for a step before the file is converted.                       *)
LEMMA HiddenTurn ==
  ASSUME TypeOK, Core, NEW c \in Runs, NEW x, pc' = [pc EXCEPT ![c] = x],
         \A d \in Runs \ {c} : pc[d] \in Resting,
         pc[c] \in Unpublished, x # "done", UNCHANGED jobDone,
         fileStatus' # "converted", RowsAreOneAttempt',
         Emptied(c)', Storing(c)', Stored(c)'
  PROVE  Core'
<1>1. ~jobDone'
  BY DEF Core, Solo, Active, Unpublished
<1>2. Hidden(c)' /\ Whole'
  BY DEF Hidden, Whole
<1> QED
  BY <1>1, <1>2, TurnTaken DEF Core

LEMMA MarkConvertingStep ==
  ASSUME TypeOK, Core, Overlap = FALSE, NEW c \in Runs, MarkConverting(c)
  PROVE  Core'
<1> DEFINE x == pc'[c]
<1>1. /\ pc' = [pc EXCEPT ![c] = x] /\ x \in {"clearOutputs", "settle"} /\ pc[c] = "idle"
      /\ \A d \in Runs \ {c} : pc[d] \in Resting
      /\ fileStatus' \in {"converting", fileStatus}
      /\ x = "clearOutputs" => fileStatus' = "converting"
      /\ ~jobDone /\ ~jobDone' /\ UNCHANGED <<document, validation, rows, store, pos>>
  <2>1. pc[c] = "idle" /\ ~jobDone
    BY DEF MarkConverting, Call
  <2>2. \A d \in Runs \ {c} : pc[d] \in Resting
    BY Turn DEF Core, Convert
  <2>3. PICK a \in Answers :
          /\ pc' = [pc EXCEPT ![c] = IF a = "ok" THEN "clearOutputs" ELSE "settle"]
          /\ fileStatus' = IF Happens(a) THEN "converting" ELSE fileStatus
    BY DEF MarkConverting, Call
  <2>4. UNCHANGED <<document, validation, rows, jobDone, store, pos>>
    BY DEF MarkConverting, Call
  <2> QED
    BY <2>1, <2>2, <2>3, <2>4 DEF Happens, TypeOK
<1>2. (Emptied(c) /\ Storing(c) /\ Stored(c) /\ Hidden(c))'
  BY <1>1 DEF Emptied, Storing, Stored, Hidden, Unpublished
<1>3. Whole'
  <2>1. ASSUME NEW d \in Runs, WholeBy(d), pc[d] \in Published
        PROVE  WholeBy(d)' /\ pc'[d] \in Published
    BY <1>1, <2>1 DEF WholeBy, Published, store, TypeOK
  <2> QED
    BY <1>1, <2>1 DEF Core, Whole, Publishable
<1>4. RowsAreOneAttempt'
  BY <1>1 DEF Core, RowsAreOneAttempt
<1> HIDE DEF x
<1> QED
  BY <1>1, <1>2, <1>3, <1>4, TurnTaken DEF Core

(* The steps up to putArchive and markFailed leave the file as it is.      *)
LEMMA BuildingStep ==
  ASSUME TypeOK, Core, Overlap = FALSE, NEW c \in Runs,
         ClearOutputs(c) \/ ClearValidation(c) \/ Build(c) \/ SaveValidation(c)
  PROVE  Core'
<1> DEFINE x == pc'[c]
<1>0. \A d \in Runs \ {c} : pc[d] \in Resting
  BY Turn DEF Core, Convert
<1>1. /\ pc' = [pc EXCEPT ![c] = x] /\ pc[c] \in Unpublished /\ x # "done"
      /\ UNCHANGED <<document, fileStatus, jobDone, store>>
      /\ fileStatus' # "converted"
  <2>1. /\ pc' = [pc EXCEPT ![c] = x] /\ pc[c] \in Unpublished /\ x # "done"
        /\ UNCHANGED <<document, fileStatus, jobDone, store>>
    BY DEF ClearOutputs, ClearValidation, Build, SaveValidation, Call, Unpublished, TypeOK,
           tables
  <2> QED
    BY <2>1 DEF Core, Stage, Hidden
<1>2. CASE ClearOutputs(c)
  <2>1. /\ x \in {"clearValidation", "markFailed"}
        /\ x = "clearValidation" => \A i \in Positions : rows'[i] = None
        /\ rows' = rows \/ \A i \in Positions : rows'[i] = None
    BY <1>2 DEF ClearOutputs, Call, Answers, Happens, TypeOK
  <2>2. (Emptied(c) /\ Storing(c) /\ Stored(c))' /\ RowsAreOneAttempt'
    BY <2>1 DEF Emptied, Storing, Stored, Core, RowsAreOneAttempt, Positions
  <2> HIDE DEF x
  <2> QED
    BY <1>0, <1>1, <2>2, HiddenTurn
<1>3. CASE ClearValidation(c) \/ Build(c)
  <2>1. /\ pc[c] \in {"clearValidation", "build"} /\ UNCHANGED rows
        /\ x \in {"build", "saveValidation", "markFailed"}
    BY <1>3 DEF ClearValidation, Build, Call, TypeOK, tables
  <2>2. (Emptied(c) /\ Storing(c) /\ Stored(c))' /\ RowsAreOneAttempt'
    BY <2>1 DEF Emptied, Storing, Stored, Core, Stage, RowsAreOneAttempt
  <2> HIDE DEF x
  <2> QED
    BY <1>0, <1>1, <2>2, HiddenTurn
<1>4. CASE SaveValidation(c)
  <2>1. /\ pc[c] = "saveValidation" /\ UNCHANGED rows /\ pos'[c] = 0
        /\ x \in {"put", "markFailed"}
        /\ x = "put" => Publishable /\ validation' = c
    BY <1>4 DEF SaveValidation, Call, Answers, Happens, TypeOK
  <2>2. (Emptied(c) /\ Storing(c) /\ Stored(c))' /\ RowsAreOneAttempt'
    BY <1>1, <2>1 DEF Emptied, Storing, Stored, Core, Stage, RowsAreOneAttempt, Positions,
       Publishable
  <2> HIDE DEF x
  <2> QED
    BY <1>0, <1>1, <2>2, HiddenTurn
<1> QED
  BY <1>2, <1>3, <1>4

LEMMA StoringStep ==
  ASSUME TypeOK, Core, Overlap = FALSE, NEW c \in Runs,
         PutFile(c) \/ RecordFile(c) \/ PutArchive(c)
  PROVE  Core'
<1> DEFINE x == pc'[c]
<1>0. \A d \in Runs \ {c} : pc[d] \in Resting
  BY Turn DEF Core, Convert
<1>1. /\ pc' = [pc EXCEPT ![c] = x] /\ pc[c] \in Unpublished /\ x # "done"
      /\ UNCHANGED <<document, fileStatus, jobDone, validation>>
      /\ fileStatus' # "converted"
  <2>1. /\ pc' = [pc EXCEPT ![c] = x] /\ pc[c] \in Unpublished /\ x # "done"
        /\ UNCHANGED <<document, fileStatus, jobDone, validation>>
    BY DEF PutFile, RecordFile, PutArchive, Call, Unpublished, TypeOK, tables
  <2> QED
    BY <2>1 DEF Core, Stage, Hidden
<1>2. pos[c] \in Positions /\ Publishable' = Publishable
  BY <1>1 DEF TypeOK, Publishable
<1>3. CASE PutFile(c)
  <2>1. /\ pc[c] = "put" /\ UNCHANGED <<rows, pos>> /\ x \in {"record", "markFailed"}
        /\ x = "record" => objects' = [objects EXCEPT ![pos[c]] = c]
    BY <1>3 DEF PutFile, Call, Answers, Happens, TypeOK, tables
  <2>2. (Emptied(c) /\ Storing(c) /\ Stored(c))' /\ RowsAreOneAttempt'
    BY <1>1, <1>2, <2>1 DEF Emptied, Storing, Stored, Core, Stage, RowsAreOneAttempt, TypeOK
  <2> HIDE DEF x
  <2> QED
    BY <1>0, <1>1, <2>2, HiddenTurn
<1>4. CASE RecordFile(c)
  <2>1. /\ Publishable /\ validation = c /\ objects[pos[c]] = c
        /\ \A i \in Positions : IF i < pos[c] THEN rows[i] = c /\ objects[i] = c
                                              ELSE rows[i] = None
    BY <1>4 DEF RecordFile, Call, Core, Stage, Storing
  <2>2. rows[pos[c]] = None
    BY <1>2, <2>1 DEF Positions
  <2>3. /\ UNCHANGED objects
        /\ x \in {"put", "putArchive", "markFailed"}
        /\ rows' = rows \/ rows' = [rows EXCEPT ![pos[c]] = c]
        /\ x \in {"put", "putArchive"} => rows' = [rows EXCEPT ![pos[c]] = c]
        /\ x = "put" => pos[c] # Size - 1 /\ pos'[c] = pos[c] + 1
        /\ x = "putArchive" => pos[c] = Size - 1
    BY <1>4, <2>2 DEF RecordFile, Call, Answers, Happens, TypeOK, store
  <2>4. RowsAreOneAttempt'
    <3>1. CASE rows' = rows
      BY <3>1 DEF RowsAreOneAttempt, Core
    <3>2. CASE rows' = [rows EXCEPT ![pos[c]] = c]
      <4> SUFFICES ASSUME NEW i \in Positions, NEW k \in Positions, i < k, rows'[k] # None
                   PROVE  rows'[i] = rows'[k]
        BY DEF RowsAreOneAttempt
      <4>1. k <= pos[c]
        BY <1>2, <2>1, <3>2 DEF TypeOK, Positions
      <4>2. rows'[k] = c
        BY <1>2, <2>1, <3>2, <4>1 DEF TypeOK, Positions
      <4>3. rows'[i] = c
        BY <1>2, <2>1, <3>2, <4>1 DEF TypeOK, Positions
      <4> QED
        BY <4>2, <4>3
    <3> QED
      BY <2>3, <3>1, <3>2
  <2>5. (Emptied(c) /\ Storing(c) /\ Stored(c))'
    <3>1. CASE x = "markFailed"
      BY <3>1 DEF Emptied, Storing, Stored
    <3>2. CASE x = "put"
      <4>1. \A i \in Positions : IF i < pos'[c] THEN rows'[i] = c /\ objects'[i] = c
                                              ELSE rows'[i] = None
        <5>1. rows' = [rows EXCEPT ![pos[c]] = c] /\ pos'[c] = pos[c] + 1 /\ objects' = objects
          BY <2>3, <3>2
        <5>2. \A i \in Positions : rows'[i] = IF i = pos[c] THEN c ELSE rows[i]
          BY <5>1 DEF TypeOK
        <5>3. \A i \in Positions : i < pos[c] + 1 <=> i < pos[c] \/ i = pos[c]
          BY <1>2 DEF Positions
        <5> QED
          BY <2>1, <5>1, <5>2, <5>3
      <4> QED
        BY <1>1, <1>2, <2>1, <3>2, <4>1 DEF Emptied, Storing, Stored
    <3>3. CASE x = "putArchive"
      <4>1. \A i \in Positions : rows'[i] = c /\ objects'[i] = c
        BY <1>2, <2>1, <2>3, <3>3, SizeAssumption DEF TypeOK, Positions
      <4> QED
        BY <1>1, <1>2, <2>1, <3>3, <4>1 DEF Emptied, Storing, Stored, TypeOK
    <3> QED
      BY <2>3, <3>1, <3>2, <3>3
  <2> HIDE DEF x
  <2> QED
    BY <1>0, <1>1, <2>4, <2>5, HiddenTurn
<1>5. CASE PutArchive(c)
  <2>1. /\ pc[c] = "putArchive" /\ UNCHANGED <<rows, objects, pos>>
        /\ x \in {"markConverted", "markFailed"}
        /\ x = "markConverted" => archive' = c
    BY <1>5 DEF PutArchive, Call, Answers, Happens, TypeOK, tables
  <2>2. (Emptied(c) /\ Storing(c) /\ Stored(c))' /\ RowsAreOneAttempt'
    BY <1>1, <1>2, <2>1 DEF Emptied, Storing, Stored, Core, Stage, RowsAreOneAttempt
  <2> HIDE DEF x
  <2> QED
    BY <1>0, <1>1, <2>2, HiddenTurn
<1> QED
  BY <1>3, <1>4, <1>5

LEMMA EndingStep ==
  ASSUME TypeOK, Core, Overlap = FALSE, NEW c \in Runs,
         MarkConverted(c) \/ MarkJobConverted(c) \/ MarkFailed(c) \/ Settle(c)
  PROVE  Core'
<1> DEFINE x == pc'[c]
<1>0. \A d \in Runs \ {c} : pc[d] \in Resting
  BY Turn DEF Core, Convert
<1>1. /\ pc' = [pc EXCEPT ![c] = x] /\ x \in {"markJob", "done", "settle", "over"}
      /\ UNCHANGED <<document, validation, rows, store, pos>>
  BY DEF MarkConverted, MarkJobConverted, MarkFailed, Settle, Call, TypeOK
<1>2. RowsAreOneAttempt' /\ Publishable' = Publishable
  BY <1>1 DEF Core, RowsAreOneAttempt, Publishable
<1>3. (Emptied(c) /\ Storing(c) /\ Hidden(c))'
  BY <1>1 DEF Emptied, Storing, Hidden, Unpublished
<1>4. ASSUME NEW d \in Runs, WholeBy(d), pc[d] \in Published
      PROVE  WholeBy(d)' /\ pc'[d] \in Published
  BY <1>1, <1>4 DEF WholeBy, Published, store, TypeOK
<1>5. CASE MarkConverted(c)
  <2>1. /\ pc[c] = "markConverted" /\ x \in {"markJob", "settle"} /\ UNCHANGED jobDone
        /\ x = "markJob" => fileStatus' = "converted"
    BY <1>5 DEF MarkConverted, Call, Answers, Happens, TypeOK
  <2>2. Publishable /\ WholeBy(c)' /\ archive' = c /\ ~jobDone'
    BY <1>1, <2>1 DEF Core, Stage, Stored, WholeBy, store, Solo, Active
  <2>3. Whole' /\ Stored(c)'
    BY <1>1, <1>2, <2>1, <2>2 DEF Whole, Stored, Published
  <2> HIDE DEF x
  <2> QED
    BY <1>0, <1>1, <1>2, <1>3, <2>1, <2>2, <2>3, TurnTaken DEF Core
<1>6. CASE MarkJobConverted(c)
  <2>1. /\ pc[c] = "markJob" /\ x \in {"done", "settle"} /\ UNCHANGED fileStatus
        /\ x = "done" => jobDone'
    BY <1>6 DEF MarkJobConverted, Call, Answers, Happens, TypeOK
  <2>2. fileStatus' = "converted"
    BY <2>1 DEF Core, Stage, Stored
  <2>3. Whole' /\ Stored(c)'
    BY <1>1, <1>2, <1>4, <2>1, <2>2 DEF Core, Whole, Stored
  <2> HIDE DEF x
  <2> QED
    BY <1>0, <1>1, <1>2, <1>3, <2>1, <2>2, <2>3, TurnTaken DEF Core
<1>7. CASE MarkFailed(c)
  <2>1. pc[c] = "markFailed" /\ x = "settle" /\ UNCHANGED jobDone
        /\ fileStatus' \in {"failed", fileStatus}
    BY <1>7 DEF MarkFailed, Call, Answers, Happens, TypeOK
  <2>2. fileStatus' # "converted" /\ ~jobDone'
    BY <2>1 DEF Core, Stage, Hidden, Unpublished, Solo, Active
  <2>3. Whole' /\ Stored(c)'
    BY <1>1, <2>1, <2>2 DEF Whole, Stored
  <2> HIDE DEF x
  <2> QED
    BY <1>0, <1>1, <1>2, <1>3, <2>1, <2>2, <2>3, TurnTaken DEF Core
<1>8. CASE Settle(c)
  <2>1. /\ pc[c] = "settle" /\ x = "over"
        /\ \/ fileStatus' = "ready" /\ jobDone' = FALSE
           \/ UNCHANGED <<fileStatus, jobDone>>
    BY <1>8 DEF Settle, TypeOK
  <2>2. Stored(c)'
    BY <2>1 DEF Stored
  <2>3. Whole'
    BY <1>2, <1>4, <2>1 DEF Core, Whole
  <2>4. jobDone' => fileStatus' = "converted"
    BY <2>1 DEF Core, Solo
  <2> HIDE DEF x
  <2> QED
    BY <1>0, <1>1, <1>2, <1>3, <2>1, <2>2, <2>3, <2>4, TurnTaken DEF Core
<1> QED
  BY <1>5, <1>6, <1>7, <1>8

LEMMA CoreStep ==
  ASSUME TypeOK, Core, Overlap = FALSE, [Next]_vars
  PROVE  Core'
<1>1. ASSUME NEW c \in Runs, Convert(c) PROVE Core'
  BY <1>1, MarkConvertingStep, BuildingStep, StoringStep, EndingStep DEF Convert
<1>2. ASSUME NEW c \in Runs, Crash(c) PROVE Core'
  <2>1. /\ pc' = [pc EXCEPT ![c] = "over"]
        /\ UNCHANGED <<document, fileStatus, validation, rows, jobDone, store, pos>>
    BY <1>2 DEF Crash, tables
  <2>2. \A d \in Runs : pc'[d] = IF d = c THEN "over" ELSE pc[d]
    BY <2>1 DEF TypeOK
  <2>3. Solo'
    BY <2>1, <2>2 DEF Core, Solo, Active
  <2>4. Stage'
    BY <2>1, <2>2 DEF Core, Stage, Emptied, Storing, Stored, Hidden, Unpublished, Publishable,
       store
  <2>5. Whole'
    BY <2>1, <2>2 DEF Core, Whole, WholeBy, Published, Publishable, store
  <2> QED
    BY <2>1, <2>3, <2>4, <2>5 DEF Core, RowsAreOneAttempt
<1>3. CASE Retry
  <2>1. /\ fileStatus = "failed" /\ fileStatus' = "converting" /\ ~jobDone'
        /\ UNCHANGED <<document, validation, rows, store, pc, pos>>
    BY <1>3 DEF Retry
  <2>2. Solo' /\ Whole' /\ RowsAreOneAttempt'
    BY <2>1 DEF Core, Solo, Active, Whole, RowsAreOneAttempt
  <2>3. Stage'
    BY <2>1 DEF Core, Stage, Emptied, Storing, Stored, Hidden, Publishable, store
  <2> QED
    BY <2>2, <2>3 DEF Core
<1>4. CASE UNCHANGED <<document, tables, store, pc, pos>>
  BY <1>4 DEF Core, Solo, Active, Stage, Emptied, Storing, Stored, Hidden, Whole, WholeBy,
     RowsAreOneAttempt, Publishable, tables, store
<1>5. ASSUME NEW q \in Readers,
             FindPublished(q) \/ StatArchive(q) \/ GetArchive(q) \/ ListForFile(q)
               \/ OpenOutput(q)
      PROVE  Core'
  BY <1>4, <1>5 DEF FindPublished, StatArchive, GetArchive, ListForFile, OpenOutput, Read
<1>6. CASE UNCHANGED vars
  BY <1>4, <1>6 DEF vars
<1> QED
  BY <1>1, <1>2, <1>3, <1>5, <1>6 DEF Next

-----------------------------------------------------------------------------
(* The readers                                                             *)

LEMMA MetRunStep ==
  ASSUME TypeOK, Core, Overlap = FALSE, NEW q \in Readers, Met(q),
         (\E c \in Runs : Convert(c) \/ Crash(c)) \/ Retry
  PROVE  Met(q)'
<1>0. UNCHANGED reading
  BY DEF Convert, MarkConverting, ClearOutputs, ClearValidation, Build, SaveValidation, PutFile,
     RecordFile, PutArchive, MarkConverted, MarkJobConverted, MarkFailed, Settle, Call, Crash,
     Retry
<1>1. SUFFICES ASSUME at[q] \notin {"start", "refused"}, NEW d \in Runs, Has(q, d)
               PROVE  Has(q, d)'
  BY <1>0 DEF Met, Has, reading
<1>2. ASSUME NEW c \in Runs, Convert(c) PROVE Has(q, d)'
  <2>1. /\ pc[c] \notin {"over", "done"}
        /\ \A e \in Runs \ {c} : pc[e] \in Resting
    BY <1>2, Turn DEF Core
  <2>2. pc' = [pc EXCEPT ![c] = pc'[c]]
    BY <1>2 DEF Convert, MarkConverting, ClearOutputs, ClearValidation, Build, SaveValidation,
       PutFile, RecordFile, PutArchive, MarkConverted, MarkJobConverted, MarkFailed, Settle,
       Call, TypeOK
  <2>3. CASE c # d
    <3>1. pc[d] = "over" /\ pc'[d] = "over"
      BY <1>1, <2>1, <2>2, <2>3 DEF Has, Resting, Published, TypeOK
    <3> QED
      BY <1>0, <1>1, <3>1 DEF Has, reading
  <2>4. CASE c = d
    <3>1. pc[d] \in {"markJob", "settle"}
      BY <1>1, <2>1, <2>4 DEF Has, Published
    <3>2. MarkJobConverted(d) \/ Settle(d)
      BY <1>2, <2>4, <3>1 DEF Convert, MarkConverting, ClearOutputs, ClearValidation, Build,
         SaveValidation, PutFile, RecordFile, PutArchive, MarkConverted, MarkFailed, Call
    <3>3. CASE MarkJobConverted(d)
      <4>1. UNCHANGED <<fileStatus, archive>> /\ pc'[d] \in Published
        BY <3>3 DEF MarkJobConverted, Call, store, Published, TypeOK
      <4> QED
        BY <1>0, <1>1, <3>1, <4>1 DEF Has, reading
    <3>4. CASE Settle(d)
      <4>1. pc'[d] = "over"
        BY <3>4 DEF Settle, TypeOK
      <4> QED
        BY <1>0, <1>1, <4>1 DEF Has, reading
    <3> QED
      BY <3>2, <3>3, <3>4
  <2> QED
    BY <2>3, <2>4
<1>3. ASSUME NEW c \in Runs, Crash(c) PROVE Has(q, d)'
  <2>1. /\ pc' = [pc EXCEPT ![c] = "over"] /\ UNCHANGED <<fileStatus, archive>>
    BY <1>3 DEF Crash, tables, store
  <2> QED
    BY <1>0, <1>1, <2>1 DEF Has, reading, TypeOK
<1>4. CASE Retry
  BY <1>0, <1>1, <1>4 DEF Retry, Has, reading
<1> QED
  BY <1>2, <1>3, <1>4

LEMMA MetReadStep ==
  ASSUME TypeOK, Core, NEW r \in Readers, NEW q \in Readers, Met(q),
         \/ FindPublished(r) \/ StatArchive(r) \/ GetArchive(r)
         \/ ListForFile(r) \/ OpenOutput(r)
  PROVE  Met(q)'
<1>0. UNCHANGED <<fileStatus, archive, pc>>
  BY DEF FindPublished, StatArchive, GetArchive, ListForFile, OpenOutput, Read, tables, store
<1>1. CASE q # r
  <2>1. at'[q] = at[q] /\ seen'[q] = seen[q]
    BY <1>1 DEF FindPublished, StatArchive, GetArchive, ListForFile, OpenOutput, Read, TypeOK
  <2> QED
    BY <1>0, <2>1 DEF Met, Has
<1>2. CASE q = r
  <2>1. CASE FindPublished(r) /\ fileStatus = "converted"
    <3>1. at[q] = "start" /\ at'[q] \in {"stat", "list"} /\ seen'[q] = seen[q] \cup {validation}
      BY <1>2, <2>1 DEF FindPublished, Read, TypeOK
    <3>2. PICK d \in Runs : WholeBy(d) /\ pc[d] \in Published
      BY <2>1 DEF Core, Whole
    <3>3. seen'[q] = {d}
      BY <3>1, <3>2 DEF Met, WholeBy
    <3> QED
      BY <1>0, <2>1, <3>1, <3>2, <3>3 DEF Met, Has, WholeBy
  <2>2. CASE FindPublished(r) /\ fileStatus # "converted"
    BY <1>2, <2>2 DEF FindPublished, Read, TypeOK, Met
  <2>3. ASSUME NEW from \in {"stat", "get", "list", "open"},
               NEW to \in {"get", "open", "served", "missing"}, NEW met, Read(r, from, to, met),
               \A d \in Runs : WholeBy(d) => met = {d} /\ to # "missing"
        PROVE  Met(q)'
    <3>1. at[q] = from /\ at'[q] = to /\ seen'[q] = seen[q] \cup met
      BY <1>2, <2>3 DEF Read, TypeOK
    <3>2. PICK d \in Runs : Has(q, d)
      BY <2>3, <3>1 DEF Met
    <3>3. CASE pc[d] = "over"
      BY <1>0, <2>3, <3>1, <3>2, <3>3 DEF Met, Has
    <3>4. CASE pc[d] # "over"
      <4>1. WholeBy(d)
        BY <3>2, <3>4 DEF Has, Core, Whole, WholeBy
      <4>2. seen'[q] = {d} /\ to # "missing"
        BY <2>3, <3>1, <3>2, <3>4, <4>1 DEF Has
      <4> QED
        BY <1>0, <2>3, <3>1, <3>2, <3>4, <4>2 DEF Met, Has
    <3> QED
      BY <3>3, <3>4
  <2>4. CASE StatArchive(r) \/ GetArchive(r)
    <3>1. \A d \in Runs : WholeBy(d) => {archive} = {d} /\ archive # None
      BY RunsAssumption DEF WholeBy
    <3>2. CASE archive = None
      BY <2>3, <2>4, <3>1, <3>2 DEF StatArchive, GetArchive
    <3>3. CASE archive # None
      BY <2>3, <2>4, <3>1, <3>3 DEF StatArchive, GetArchive
    <3> QED
      BY <3>2, <3>3
  <2>5. CASE ListForFile(r)
    <3>1. 0 \in Positions
      BY SizeAssumption DEF Positions
    <3>2. \A d \in Runs : WholeBy(d) => {rows[i] : i \in Positions} = {d}
      BY <3>1 DEF WholeBy
    <3> QED
      BY <2>3, <2>5, <3>2 DEF ListForFile
  <2>6. CASE OpenOutput(r)
    <3>1. PICK i \in Positions :
            Read(r, "open", IF objects[i] = None THEN "missing" ELSE "served", {objects[i]})
      BY <2>6 DEF OpenOutput
    <3>2. \A d \in Runs : WholeBy(d) => {objects[i]} = {d} /\ objects[i] # None
      BY RunsAssumption DEF WholeBy
    <3>3. CASE objects[i] = None
      BY <2>3, <3>1, <3>2, <3>3
    <3>4. CASE objects[i] # None
      BY <2>3, <3>1, <3>2, <3>4
    <3> QED
      BY <3>3, <3>4
  <2> QED
    BY <2>1, <2>2, <2>4, <2>5, <2>6
<1> QED
  BY <1>1, <1>2

LEMMA PublicationStep ==
  ASSUME IInv, Overlap = FALSE, [Next]_vars
  PROVE  IInv'
<1>1. TypeOK' /\ Core'
  BY TypeStep, CoreStep DEF IInv, Core
<1>2. ASSUME NEW q \in Readers PROVE Met(q)'
  <2>1. CASE (\E c \in Runs : Convert(c) \/ Crash(c)) \/ Retry
    BY <2>1, MetRunStep DEF IInv, Core
  <2>2. CASE \E r \in Readers : \/ FindPublished(r) \/ StatArchive(r) \/ GetArchive(r)
                              \/ ListForFile(r) \/ OpenOutput(r)
    BY <2>2, MetReadStep DEF IInv, Core
  <2>3. CASE UNCHANGED vars
    BY <2>3 DEF vars, tables, store, reading, IInv, Met, Has
  <2> QED
    BY <2>1, <2>2, <2>3 DEF Next
<1> QED
  BY <1>1, <1>2 DEF IInv, Core

LEMMA PublicationAlways == ASSUME Overlap = FALSE PROVE Spec => []IInv
<1>1. IInv /\ [Next]_vars => IInv'
  BY PublicationStep
<1> QED
  BY <1>1, PublicationInit, PTL DEF Spec

-----------------------------------------------------------------------------
(* Types, whether or not runs overlap.                                     *)
THEOREM TypeCorrect == Spec => []TypeOK
<1>1. Init => TypeOK
  BY PublicationInit DEF IInv
<1> QED
  BY <1>1, TypeStep, PTL DEF Spec

(* A converted file has its report, rows, objects and archive from one run *)
(* and a document that may be published.                                   *)
THEOREM PublishedWhole == ASSUME Overlap = FALSE PROVE Spec => []PublishedIsWhole
<1>1. IInv => PublishedIsWhole
  BY DEF IInv, Whole, WholeBy, PublishedIsWhole
<1> QED
  BY <1>1, PublicationAlways, PTL

(* The UNIQUE constraint never stops a run that comes after another.       *)
THEOREM NoCollision == ASSUME Overlap = FALSE PROVE Spec => []RetryNeverCollides
<1>1. ASSUME IInv PROVE RetryNeverCollides
  <2>1. ASSUME NEW c \in Runs, pc[c] = "record" PROVE rows[pos[c]] = None
    <3>1. pos[c] \in Positions /\ Storing(c)
      BY <1>1 DEF IInv, TypeOK, Stage
    <3> QED
      BY <2>1, <3>1 DEF Storing, Positions
  <2> QED
    BY <2>1 DEF RetryNeverCollides
<1> QED
  BY <1>1, PublicationAlways, PTL

(* The rows of a file are always the first ones of a single run.           *)
THEOREM OneAttempt == ASSUME Overlap = FALSE PROVE Spec => []RowsAreOneAttempt
<1>1. IInv => RowsAreOneAttempt
  BY DEF IInv
<1> QED
  BY <1>1, PublicationAlways, PTL

(* A request or a link is answered from one run, unless the run it found   *)
(* was interrupted between publishing and recording its end.               *)
THEOREM OneRunAnswers == ASSUME Overlap = FALSE PROVE Spec => []AnswersAreOfOneRun
<1>1. ASSUME IInv PROVE AnswersAreOfOneRun
  <2>1. SUFFICES ASSUME NEW q \in Readers, at[q] \in {"served", "missing"},
                        ~ \E c \in seen[q] \cap Runs : pc[c] = "over"
                 PROVE  at[q] = "served" /\ Cardinality(seen[q]) = 1
    BY DEF AnswersAreOfOneRun
  <2>2. PICK d \in Runs : Has(q, d)
    BY <1>1, <2>1 DEF IInv, Met
  <2>3. seen[q] = {d} /\ at[q] = "served"
    BY <2>1, <2>2 DEF Has
  <2> QED
    BY <2>3, FS_Singleton
<1> QED
  BY <1>1, PublicationAlways, PTL

-----------------------------------------------------------------------------
(* Refinement of Release                                                   *)

Done == \E c \in Runs : pc[c] = "done"

Kept == IF fileStatus = "converted" THEN [p \in Parts |-> Held(p)] ELSE None

LEMMA WholeIsHeld ==
  ASSUME NEW d, WholeBy(d)
  PROVE  [p \in Parts |-> Held(p)] = [p \in Parts |-> d]
<1>1. ASSUME NEW p \in Parts PROVE Held(p) = d
  <2>1. CASE p \in {"report", "archive"} \X {0}
    BY <2>1 DEF WholeBy, Held
  <2>2. CASE p \in {"row", "object"} \X Positions
    BY <2>2 DEF WholeBy, Held
  <2> QED
    BY <2>1, <2>2 DEF Parts
<1> QED
  BY <1>1

LEMMA ReleaseStep ==
  ASSUME IInv, Overlap = FALSE, [Next]_vars
  PROVE  [Release!Next]_(Release!vars)
<1> DEFINE Stutter == UNCHANGED <<Publishable, Kept, Done>>
<1> USE DEF IInv
<1>0. Stutter => UNCHANGED Release!vars
  BY DEF Kept, Done, Release!vars
<1>1. ASSUME NEW c \in Runs, pc' = [pc EXCEPT ![c] = pc'[c]], pc[c] # "done", pc'[c] # "done"
      PROVE  Done' = Done
  BY <1>1 DEF Done, TypeOK
<1>2. ASSUME NEW c \in Runs, pc' = [pc EXCEPT ![c] = pc'[c]], pc[c] # "done", pc'[c] # "done",
             fileStatus # "converted", fileStatus' # "converted", UNCHANGED document
      PROVE  Stutter
  BY <1>1, <1>2 DEF Kept, Publishable
<1>3. ASSUME UNCHANGED <<document, tables, store, pc>> PROVE Stutter
  BY <1>3 DEF Kept, Held, Done, tables, store, Publishable
<1>4. ASSUME NEW c \in Runs, MarkConverting(c) \/ Settle(c)
      PROVE  [Release!Next]_(Release!vars)
  <2>1. /\ pc' = [pc EXCEPT ![c] = pc'[c]] /\ pc[c] # "done" /\ pc'[c] # "done"
        /\ UNCHANGED <<document, validation, rows, store>>
    BY <1>4 DEF MarkConverting, Settle, Call, TypeOK
  <2>2. ~Done
    BY <1>4 DEF MarkConverting, Settle, Active, Solo, Done
  <2>3. Done' = Done
    BY <1>1, <2>1
  <2>4. CASE fileStatus' = "converted"
    <3>1. fileStatus = "converted"
      BY <1>4, <2>4 DEF MarkConverting, Settle, Call
    <3>2. Kept' = Kept
      BY <2>1, <2>4, <3>1 DEF Kept, Held, store
    <3> QED
      BY <1>0, <2>1, <2>3, <3>2 DEF Publishable
  <2>5. CASE fileStatus' # "converted"
    <3>1. Release!Withdraw
      BY <2>1, <2>2, <2>3, <2>5 DEF Release!Withdraw, Done, Publishable
    <3> QED
      BY <3>1 DEF Release!Next
  <2> QED
    BY <2>4, <2>5
<1>5. ASSUME NEW c \in Runs,
             \/ ClearOutputs(c) \/ ClearValidation(c) \/ Build(c) \/ SaveValidation(c)
             \/ PutFile(c) \/ RecordFile(c) \/ PutArchive(c) \/ MarkFailed(c)
      PROVE  Stutter
  <2>1. /\ pc' = [pc EXCEPT ![c] = pc'[c]] /\ pc[c] \in Unpublished /\ pc'[c] # "done"
        /\ UNCHANGED document /\ fileStatus' \in {fileStatus, "failed"}
    BY <1>5 DEF ClearOutputs, ClearValidation, Build, SaveValidation, PutFile, RecordFile,
       PutArchive, MarkFailed, Call, TypeOK, Unpublished, tables
  <2>2. fileStatus # "converted" /\ fileStatus' # "converted" /\ pc[c] # "done"
    BY <2>1 DEF Stage, Hidden, Unpublished
  <2> QED
    BY <1>2, <2>1, <2>2
<1>6. ASSUME NEW c \in Runs, MarkConverted(c) PROVE [Release!Next]_(Release!vars)
  <2>1. /\ pc' = [pc EXCEPT ![c] = pc'[c]] /\ pc[c] = "markConverted" /\ pc'[c] # "done"
        /\ UNCHANGED <<document, validation, rows, store>>
        /\ fileStatus' \in {fileStatus, "converted"}
    BY <1>6 DEF MarkConverted, Call, TypeOK
  <2>2. /\ fileStatus # "converted" /\ Publishable
        /\ WholeBy(c)'
    BY <2>1 DEF Stage, Stored, Hidden, Unpublished, WholeBy, store
  <2>3. CASE fileStatus' = "converted"
    <3>1. Kept = None /\ Kept' = [p \in Parts |-> c]
      <4>1. [p \in Parts |-> Held(p)]' = [p \in Parts |-> c]
        <5>1. ASSUME NEW p \in Parts PROVE Held(p)' = c
          <6>1. CASE p \in {"report", "archive"} \X {0}
            BY <2>2, <6>1 DEF WholeBy, Held
          <6>2. CASE p \in {"row", "object"} \X Positions
            BY <2>2, <6>2 DEF WholeBy, Held
          <6> QED
            BY <6>1, <6>2 DEF Parts
        <5> QED
          BY <5>1
      <4> QED
        BY <2>2, <2>3, <4>1 DEF Kept
    <3>2. Release!Publish(c)
      BY <1>1, <2>1, <2>2, <3>1 DEF Release!Publish, Kept, Done, Publishable
    <3> QED
      BY <3>2 DEF Release!Next
  <2>4. CASE fileStatus' # "converted"
    BY <1>0, <1>2, <2>1, <2>2, <2>4
  <2> QED
    BY <2>3, <2>4
<1>7. ASSUME NEW c \in Runs, MarkJobConverted(c) PROVE [Release!Next]_(Release!vars)
  <2>1. /\ pc' = [pc EXCEPT ![c] = pc'[c]] /\ pc[c] = "markJob"
        /\ UNCHANGED <<document, fileStatus, validation, rows, store>>
    BY <1>7 DEF MarkJobConverted, Call, TypeOK
  <2>2. Kept' = Kept /\ Publishable' = Publishable
    BY <2>1 DEF Kept, Held, store, Publishable
  <2>3. CASE pc'[c] # "done"
    BY <1>0, <1>1, <2>1, <2>2, <2>3
  <2>4. CASE pc'[c] = "done"
    <3>1. fileStatus = "converted"
      BY <2>1 DEF Stage, Stored
    <3>2. PICK d \in Runs : WholeBy(d)
      BY <3>1 DEF Whole
    <3>3. Kept = [p \in Parts |-> d]
      BY <3>1, <3>2, WholeIsHeld DEF Kept
    <3>4. Kept # None
      BY <3>3, NoneIsNoRelease
    <3>5. Release!Finish
      BY <2>2, <2>4, <3>4 DEF Release!Finish, Kept, Done
    <3> QED
      BY <3>5 DEF Release!Next
  <2> QED
    BY <2>3, <2>4
<1>8. ASSUME NEW c \in Runs, Crash(c) PROVE Stutter
  <2>1. /\ pc' = [pc EXCEPT ![c] = pc'[c]] /\ pc[c] # "done" /\ pc'[c] # "done"
        /\ UNCHANGED <<document, tables, store>>
    BY <1>8 DEF Crash, Active, TypeOK
  <2>2. Kept' = Kept
    BY <2>1 DEF Kept, Held, tables, store
  <2> QED
    BY <1>1, <2>1, <2>2 DEF Publishable
<1>9. ASSUME Retry PROVE Stutter
  BY <1>9 DEF Retry, Kept, Done, Publishable
<1>10. ASSUME NEW q \in Readers,
              \/ FindPublished(q) \/ StatArchive(q) \/ GetArchive(q)
              \/ ListForFile(q) \/ OpenOutput(q)
       PROVE  Stutter
  BY <1>3, <1>10 DEF FindPublished, StatArchive, GetArchive, ListForFile, OpenOutput, Read
<1>11. ASSUME UNCHANGED vars PROVE Stutter
  BY <1>3, <1>11 DEF vars
<1> HIDE DEF Stutter
<1> QED
  BY <1>0, <1>4, <1>5, <1>6, <1>7, <1>8, <1>9, <1>10, <1>11 DEF Next, Convert

(* Publication implements Release, step by step.                           *)
THEOREM ReleaseImplemented == ASSUME Overlap = FALSE PROVE Spec => ImplementsRelease
<1>1. Init => Release!Init
  BY DEF Init, Release!Init, Publishable
<1>2. IInv /\ [Next]_vars => IInv' /\ [Release!Next]_(Release!vars)
  BY PublicationStep, ReleaseStep
<1> QED
  BY <1>1, <1>2, PublicationInit, PTL DEF Spec, ImplementsRelease, Release!Spec
=============================================================================
