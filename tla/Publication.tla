---------------------------- MODULE Publication ----------------------------
(***************************************************************************)
(* How one file's bundle is built and published, and what readers get of   *)
(* it meanwhile: BundleConverter.Convert, convert, validate and store, one *)
(* database or storage call per step, against the DownloadBundle and       *)
(* Outputs handlers and the clients that follow the links of the latter.   *)
(*                                                                         *)
(* A run is one execution of Convert for the file.  Whatever it writes is  *)
(* named by the run: two runs never write the same log.md, so neither the  *)
(* same archive.  Which runs start when is the queue's decision: JobQueue  *)
(* says when runs may overlap, and Overlap stands for it here.             *)
(***************************************************************************)
EXTENDS Integers, FiniteSets

CONSTANTS Runs,      \* executions of Convert
          Readers,   \* requests to DownloadBundle or Outputs
          Size,      \* files of the bundle
          Overlap,   \* two runs may be under way at a time
          Budget,    \* how often each fault may happen
          None       \* no run

(* error: a call fails.  lost: it takes effect and its answer is lost.     *)
(* crash: the worker dies.                                                 *)
Faults == {"error", "lost", "crash"}

ASSUME RunsAssumption == None \notin Runs
ASSUME SizeAssumption == Size \in Nat \ {0}
ASSUME OverlapAssumption == Overlap \in BOOLEAN
ASSUME FaultsAssumption == Budget \in [Faults -> Nat]

VARIABLES
  document,    \* what Validate says of the bundle this document yields
  fileStatus,  \* files.status
  validation,  \* the run whose verdict and report the files row holds
  rows,        \* file_outputs: the run that inserted each position's row
  objects,     \* object store: the run that wrote each bundle file
  archive,     \* object store: the run that wrote the archive
  jobDone,     \* the job is converted, so no delivery of it is claimed again
  pc, pos,     \* where each run is, and at which file of the bundle
  at,          \* where each reader is
  seen,        \* the runs each reader has met what they wrote
  spent        \* faults that have happened

tables == <<fileStatus, validation, rows, jobDone>>
store == <<objects, archive>>
reading == <<at, seen>>
vars == <<document, tables, store, pc, pos, reading, spent>>

-----------------------------------------------------------------------------
Positions == 0 .. Size - 1
Verdicts == {"valid", "valid_with_warnings", "invalid"}
Publishable == document # "invalid"

RunSteps == {"idle", "clearOutputs", "clearValidation", "build",
             "saveValidation", "put", "record", "putArchive",
             "markConverted", "markJob", "markFailed", "settle", "over",
             "done"}

TypeOK ==
  /\ document \in Verdicts
  /\ fileStatus \in {"ready", "converting", "converted", "failed"}
  /\ validation \in Runs \cup {None}
  /\ rows \in [Positions -> Runs \cup {None}]
  /\ objects \in [Positions -> Runs \cup {None}]
  /\ archive \in Runs \cup {None}
  /\ jobDone \in BOOLEAN
  /\ pc \in [Runs -> RunSteps]
  /\ pos \in [Runs -> Positions]
  /\ at \in [Readers -> {"start", "stat", "get", "list", "open", "refused",
                        "missing", "served"}]
  /\ seen \in [Readers -> SUBSET (Runs \cup {None})]
  /\ spent \in [Faults -> Nat]

Init ==
  /\ document \in Verdicts
  /\ fileStatus = "ready"
  /\ validation = None
  /\ rows = [i \in Positions |-> None]
  /\ objects = [i \in Positions |-> None]
  /\ archive = None
  /\ jobDone = FALSE
  /\ pc = [c \in Runs |-> "idle"]
  /\ pos = [c \in Runs |-> 0]
  /\ at = [q \in Readers |-> "start"]
  /\ seen = [q \in Readers |-> {}]
  /\ spent = [k \in Faults |-> 0]

Answers == {"ok"} \cup {a \in {"error", "lost"} : spent[a] < Budget[a]}

(* Run c makes the call of step from: ok leads to next, an error to fail.  *)
Call(c, from, answer, next, fail) ==
  /\ pc[c] = from
  /\ answer \in Answers
  /\ pc' = [pc EXCEPT ![c] = IF answer = "ok" THEN next ELSE fail]
  /\ spent' = IF answer = "ok" THEN spent ELSE [spent EXCEPT ![answer] = @ + 1]
  /\ UNCHANGED <<document, reading>>

Happens(answer) == answer # "error"

-----------------------------------------------------------------------------
(* One run of Convert                                                      *)

Active(c) == pc[c] \notin {"idle", "over", "done"}

(* Variant: a job that is done is claimed again.                           *)
MarkConvertingAgain(c) ==
  /\ Overlap \/ \A d \in Runs : ~Active(d)
  /\ \E a \in Answers :
       /\ Call(c, "idle", a, "clearOutputs", "settle")
       /\ fileStatus' = IF Happens(a) THEN "converting" ELSE fileStatus
  /\ UNCHANGED <<validation, rows, jobDone, store, pos>>

MarkConverting(c) ==
  /\ ~jobDone
  /\ Overlap \/ \A d \in Runs : ~Active(d)
  /\ \E a \in Answers :
       /\ Call(c, "idle", a, "clearOutputs", "settle")
       /\ fileStatus' = IF Happens(a) THEN "converting" ELSE fileStatus
  /\ UNCHANGED <<validation, rows, jobDone, store, pos>>

(* Variant: the rows of the previous run are left alone.                   *)
ClearNothing(c) ==
  /\ \E a \in Answers : Call(c, "clearOutputs", a, "clearValidation", "markFailed")
  /\ UNCHANGED <<tables, store, pos>>

ClearOutputs(c) ==
  /\ \E a \in Answers :
       /\ Call(c, "clearOutputs", a, "clearValidation", "markFailed")
       /\ rows' = IF Happens(a) THEN [i \in Positions |-> None] ELSE rows
  /\ UNCHANGED <<fileStatus, validation, jobDone, store, pos>>

ClearValidation(c) ==
  /\ \E a \in Answers :
       /\ Call(c, "clearValidation", a, "build", "markFailed")
       /\ validation' = IF Happens(a) THEN None ELSE validation
  /\ UNCHANGED <<fileStatus, rows, jobDone, store, pos>>

(* Download, extract, Build and Validate touch nothing but memory.         *)
Build(c) ==
  /\ \E a \in Answers \ {"lost"} : Call(c, "build", a, "saveValidation", "markFailed")
  /\ UNCHANGED <<tables, store, pos>>

(* Variant: the verdict is recorded and not acted upon.                    *)
SaveValidationOnly(c) ==
  /\ \E a \in Answers :
       /\ Call(c, "saveValidation", a, "put", "markFailed")
       /\ validation' = IF Happens(a) THEN c ELSE validation
  /\ pos' = [pos EXCEPT ![c] = 0]
  /\ UNCHANGED <<fileStatus, rows, jobDone, store>>

(* The verdict is recorded in any case; only then may it stop the run.     *)
SaveValidation(c) ==
  /\ \E a \in Answers :
       /\ Call(c, "saveValidation", a, IF Publishable THEN "put" ELSE "markFailed",
               "markFailed")
       /\ validation' = IF Happens(a) THEN c ELSE validation
  /\ pos' = [pos EXCEPT ![c] = 0]
  /\ UNCHANGED <<fileStatus, rows, jobDone, store>>

PutFile(c) ==
  /\ \E a \in Answers :
       /\ Call(c, "put", a, "record", "markFailed")
       /\ objects' = IF Happens(a) THEN [objects EXCEPT ![pos[c]] = c] ELSE objects
  /\ UNCHANGED <<tables, archive, pos>>

(* Variant: a row that could not be inserted is not missed.                *)
RecordFileUnchecked(c) ==
  LET i == pos[c]
      next == IF i = Size - 1 THEN "putArchive" ELSE "put"
  IN  /\ \E a \in Answers :
           /\ Call(c, "record", a, next, next)
           /\ rows' = IF rows[i] = None /\ Happens(a) THEN [rows EXCEPT ![i] = c] ELSE rows
      /\ pos' = [pos EXCEPT ![c] = IF i = Size - 1 THEN i ELSE i + 1]
      /\ UNCHANGED <<fileStatus, validation, jobDone, store>>

(* The insert fails when a row for the object key exists.                  *)
RecordFile(c) ==
  LET i == pos[c]
      free == rows[i] = None
      last == i = Size - 1
  IN  /\ \E a \in Answers :
           /\ Call(c, "record", a,
                   IF ~free THEN "markFailed" ELSE IF last THEN "putArchive" ELSE "put",
                   "markFailed")
           /\ rows' = IF free /\ Happens(a) THEN [rows EXCEPT ![i] = c] ELSE rows
      /\ pos' = [pos EXCEPT ![c] = IF last THEN i ELSE i + 1]
      /\ UNCHANGED <<fileStatus, validation, jobDone, store>>

(* Variant: an error of the archive's upload is dropped.                   *)
PutArchiveUnchecked(c) ==
  /\ \E a \in Answers :
       /\ Call(c, "putArchive", a, "markConverted", "markConverted")
       /\ archive' = IF Happens(a) THEN c ELSE archive
  /\ UNCHANGED <<tables, objects, pos>>

PutArchive(c) ==
  /\ \E a \in Answers :
       /\ Call(c, "putArchive", a, "markConverted", "markFailed")
       /\ archive' = IF Happens(a) THEN c ELSE archive
  /\ UNCHANGED <<tables, objects, pos>>

MarkConverted(c) ==
  /\ \E a \in Answers :
       /\ Call(c, "markConverted", a, "markJob", "settle")
       /\ fileStatus' = IF Happens(a) THEN "converted" ELSE fileStatus
  /\ UNCHANGED <<validation, rows, jobDone, store, pos>>

MarkJobConverted(c) ==
  /\ \E a \in Answers :
       /\ Call(c, "markJob", a, "done", "settle")
       /\ jobDone' = (jobDone \/ Happens(a))
  /\ UNCHANGED <<fileStatus, validation, rows, store, pos>>

MarkFailed(c) ==
  /\ \E a \in Answers :
       /\ Call(c, "markFailed", a, "settle", "settle")
       /\ fileStatus' = IF Happens(a) THEN "failed" ELSE fileStatus
  /\ UNCHANGED <<validation, rows, jobDone, store, pos>>

(* After an error handleFailure puts the file and the job back to waiting, *)
(* or, with the attempts used up or Requeue failing, leaves them alone.    *)
Settle(c) ==
  /\ pc[c] = "settle"
  /\ pc' = [pc EXCEPT ![c] = "over"]
  /\ \/ fileStatus' = "ready" /\ jobDone' = FALSE
     \/ UNCHANGED <<fileStatus, jobDone>>
  /\ UNCHANGED <<document, validation, rows, store, pos, reading, spent>>

(* The user retries: MarkRetrying, and a new job that is yet to be claimed. *)
Retry ==
  /\ fileStatus = "failed"
  /\ fileStatus' = "converting"
  /\ jobDone' = FALSE
  /\ UNCHANGED <<document, validation, rows, store, pc, pos, reading, spent>>

Crash(c) ==
  /\ Active(c)
  /\ spent["crash"] < Budget["crash"]
  /\ spent' = [spent EXCEPT !["crash"] = @ + 1]
  /\ pc' = [pc EXCEPT ![c] = "over"]
  /\ UNCHANGED <<document, tables, store, pos, reading>>

-----------------------------------------------------------------------------
(* The readers.  A call that fails ends the request and changes nothing.    *)

Read(q, from, to, met) ==
  /\ at[q] = from
  /\ at' = [at EXCEPT ![q] = to]
  /\ seen' = [seen EXCEPT ![q] = @ \cup met]
  /\ UNCHANGED <<document, tables, store, pc, pos, spent>>

(* Both handlers read the row first; it holds the verdict of its run.      *)
FindPublished(q) ==
  \/ /\ fileStatus = "converted"
     /\ \E next \in {"stat", "list"} : Read(q, "start", next, {validation})
  \/ fileStatus # "converted" /\ Read(q, "start", "refused", {})

(* The size announced to the client is that of this archive...             *)
StatArchive(q) ==
  Read(q, "stat", IF archive = None THEN "missing" ELSE "get", {archive})

(* ... and the body that of this one.                                      *)
GetArchive(q) ==
  Read(q, "get", IF archive = None THEN "missing" ELSE "served", {archive})

(* One SELECT; the links are signed without asking the object store.       *)
ListForFile(q) == Read(q, "list", "open", {rows[i] : i \in Positions})

(* The client opens a file of the list by its link.                        *)
OpenOutput(q) ==
  \E i \in Positions :
    Read(q, "open", IF objects[i] = None THEN "missing" ELSE "served", {objects[i]})

-----------------------------------------------------------------------------
Convert(c) ==
  \/ MarkConverting(c) \/ ClearOutputs(c) \/ ClearValidation(c) \/ Build(c)
  \/ SaveValidation(c) \/ PutFile(c) \/ RecordFile(c) \/ PutArchive(c)
  \/ MarkConverted(c) \/ MarkJobConverted(c) \/ MarkFailed(c) \/ Settle(c)

Next ==
  \/ \E c \in Runs : Convert(c) \/ Crash(c)
  \/ Retry
  \/ \E q \in Readers : \/ FindPublished(q) \/ StatArchive(q) \/ GetArchive(q)
                        \/ ListForFile(q) \/ OpenOutput(q)

Spec == Init /\ [][Next]_vars

-----------------------------------------------------------------------------
(* Properties                                                              *)

(* A published bundle is whole and of a piece: the archive, every file,    *)
(* every row and the verdict on record are of one and the same run, and    *)
(* the verdict allows it, whatever earlier runs left behind.               *)
PublishedIsWhole ==
  fileStatus = "converted" =>
    /\ Publishable
    /\ \E c \in Runs : /\ archive = c /\ validation = c
                       /\ \A i \in Positions : rows[i] = c /\ objects[i] = c

(* The UNIQUE constraint never stops a retry: ClearForFile has removed     *)
(* what the run before it left (convert, store).                           *)
RetryNeverCollides ==
  \A c \in Runs : pc[c] = "record" => rows[pos[c]] = None

(* Outputs "always reflects only the most recent attempt": whatever died   *)
(* in between, the rows of a file are those of one run, and its first      *)
(* ones (ClearForFile, Create).                                            *)
RowsAreOneAttempt ==
  \A i, k \in Positions : i < k /\ rows[k] # None => rows[i] = rows[k]

(* What a request or a link answers is of the one run whose row the        *)
(* request found, and never missing, unless that run published the file    *)
(* and did not live to record its own end: it is then run again under the  *)
(* reader's eyes (DownloadBundle, Outputs).                                *)
AnswersAreOfOneRun ==
  \A q \in Readers :
    at[q] \in {"served", "missing"} =>
      \/ at[q] = "served" /\ Cardinality(seen[q]) = 1
      \/ \E c \in seen[q] \cap Runs : pc[c] = "over"

(* Publication implements Release: a file is converted in one step, with   *)
(* everything of it from one run, nothing of it is touched while it is,    *)
(* and it stays so once the job is converted too.                          *)
Parts == ({"report", "archive"} \X {0}) \cup ({"row", "object"} \X Positions)

ASSUME NoneIsNoRelease == None \notin [Parts -> Runs]

Held(part) ==
  CASE part[1] = "report" -> validation
    [] part[1] = "archive" -> archive
    [] part[1] = "row" -> rows[part[2]]
    [] part[1] = "object" -> objects[part[2]]

Release == INSTANCE Release WITH
  publishable <- Publishable,
  released <- IF fileStatus = "converted" THEN [p \in Parts |-> Held(p)] ELSE None,
  settled <- \E c \in Runs : pc[c] = "done"

ImplementsRelease == Release!Spec
=============================================================================
