----------------------------- MODULE Dashboard -----------------------------
(***************************************************************************)
(* The dashboard of the frontend, following one file: the list requests it *)
(* sends, the interval that sends them, the upload and retry requests, and *)
(* the callbacks that run when a response arrives, which may be after the  *)
(* component is gone or after a later request's response; and the panel    *)
(* that shows the validation report of a file, fetched once and kept.      *)
(*                                                                         *)
(* The server is the file row as FileRequests and JobQueue change it, seen *)
(* from outside: a job waits, runs, fails, and is put back for another     *)
(* attempt while it has one left.                                          *)
(***************************************************************************)
EXTENDS Integers, Sequences

CONSTANTS MaxJobs,      \* jobs of the file: the upload's, and one per retry
          MaxAttempts,  \* WORKER_MAX_ATTEMPTS
          MaxInFlight,  \* list requests under way at a time
          InOrder,      \* responses arrive in the order of the requests
          MayFail       \* a request may end in an error

ASSUME JobsAssumption == MaxJobs \in Nat \ {0} /\ MaxAttempts \in Nat \ {0}
ASSUME WireAssumption == MaxInFlight \in Nat \ {0}
ASSUME NetworkAssumption == InOrder \in BOOLEAN /\ MayFail \in BOOLEAN

VARIABLES
  status,     \* files.status on the server
  report,     \* files.validation: the job whose run's report it is, 0 if none
  job, left,  \* each job of the file, and the attempts it has left
  alive,      \* the component exists
  wire,       \* list requests under way
  post,       \* the upload or retry under way
  shown,      \* myFiles: the status on screen
  verdict,    \* myFiles: the job whose verdict is on screen, 0 if none
  timer,      \* pollTimer holds an interval
  intervals,  \* intervals the browser runs
  gaveUp, listError,
  postError,  \* the last upload or retry ended in an error
  expanded,   \* expandedId: the job whose verdict the panel was opened on, or 0
  detail,     \* the detail request under way, and the report it was answered
  cached,     \* reports: the job whose report the page keeps, 0 if none
  reportError

server == <<status, report, job, left>>
screen == <<shown, verdict, gaveUp, listError, postError>>
polling == <<timer, intervals>>
panel == <<expanded, detail, cached, reportError>>
vars == <<server, alive, wire, post, screen, polling, panel>>

-----------------------------------------------------------------------------
Jobs == 1 .. MaxJobs
Statuses == {"absent", "ready", "converting", "converted", "failed"}
Active == {"ready", "converting"}  \* ACTIVE_STATUSES
Unread == [none |-> FALSE]  \* a request the server has not handled
NoRequest == [none |-> TRUE]
Row == [status : Statuses, report : 0 .. MaxJobs]

TypeOK ==
  /\ status \in Statuses /\ shown \in Statuses
  /\ job \in [Jobs -> {"none", "waiting", "running", "failing", "over"}]
  /\ left \in [Jobs -> 0 .. MaxAttempts]
  /\ {report, verdict, expanded, cached} \subseteq 0 .. MaxJobs
  /\ {alive, timer, gaveUp, listError, postError, reportError} \subseteq BOOLEAN
  /\ wire \in Seq([mayStart : BOOLEAN, saw : Row \cup {Unread}])
  /\ detail \in Row \cup {Unread, NoRequest}
  /\ Len(wire) <= MaxInFlight
  /\ post \in {"none", "upload", "retry", "handled"}
  /\ intervals \in Nat

Request(mayStart) == [mayStart |-> mayStart, saw |-> Unread]

(* ngOnInit has sent the first list request.                               *)
Init ==
  /\ status = "absent" /\ report = 0
  /\ job = [n \in Jobs |-> "none"]
  /\ left = [n \in Jobs |-> 0]
  /\ alive = TRUE
  /\ wire = <<Request(TRUE)>>
  /\ post = "none"
  /\ shown = "absent" /\ verdict = 0
  /\ timer = FALSE /\ intervals = 0
  /\ gaveUp = FALSE /\ listError = FALSE /\ postError = FALSE
  /\ expanded = 0 /\ detail = NoRequest /\ cached = 0 /\ reportError = FALSE

-----------------------------------------------------------------------------
(* The server                                                              *)

NoClientStep == UNCHANGED <<alive, wire, post, screen, polling, panel>>

Unused(n) == job[n] = "none" /\ \A m \in Jobs : m < n => job[m] # "none"

StartRun(n) ==
  /\ job[n] = "waiting"
  /\ job' = [job EXCEPT ![n] = "running"]
  /\ left' = [left EXCEPT ![n] = @ - 1]
  /\ status' = "converting" /\ report' = 0
  /\ NoClientStep

SaveReport(n) ==
  /\ job[n] = "running" /\ report = 0
  /\ report' = n
  /\ UNCHANGED <<status, job, left>>
  /\ NoClientStep

FinishRun(n) ==
  /\ job[n] = "running"
  /\ \/ report # 0 /\ status' = "converted" /\ job' = [job EXCEPT ![n] = "over"]
     \/ status' = "failed" /\ job' = [job EXCEPT ![n] = "failing"]
  /\ UNCHANGED <<report, left>>
  /\ NoClientStep

HandleFailure(n) ==
  /\ job[n] = "failing"
  /\ IF left[n] > 0
     THEN status' = "ready" /\ job' = [job EXCEPT ![n] = "waiting"]
     ELSE UNCHANGED status /\ job' = [job EXCEPT ![n] = "over"]
  /\ UNCHANGED <<report, left>>
  /\ NoClientStep

(* The confirm that ends an upload, or a retry: a new job, unless the retry *)
(* does not find the file failed.                                          *)
HandlePost ==
  /\ post \in {"upload", "retry"}
  /\ post' = "handled"
  /\ IF post = "retry" /\ status # "failed"
     THEN UNCHANGED <<status, job, left>>
     ELSE \E n \in Jobs :
            /\ Unused(n)
            /\ status' = IF post = "retry" THEN "converting" ELSE "ready"
            /\ job' = [job EXCEPT ![n] = "waiting"]
            /\ left' = [left EXCEPT ![n] = MaxAttempts]
  /\ UNCHANGED <<report, alive, wire, screen, polling, panel>>

(* List handles the i-th request under way.                                *)
ReadList(i) ==
  /\ i \in DOMAIN wire /\ wire[i].saw = Unread
  /\ InOrder => \A k \in 1 .. i - 1 : wire[k].saw # Unread
  /\ wire' = [wire EXCEPT ![i].saw = [status |-> status, report |-> report]]
  /\ UNCHANGED <<server, alive, post, screen, polling, panel>>

(* Status handles the detail request.                                      *)
ReadDetail ==
  /\ detail = Unread
  /\ detail' = [status |-> status, report |-> report]
  /\ UNCHANGED <<server, alive, wire, post, screen, polling, expanded, cached, reportError>>

-----------------------------------------------------------------------------
(* loadFiles and the polling interval                                      *)

Send(mayStart) == Len(wire) < MaxInFlight /\ wire' = Append(wire, Request(mayStart))

Dropped(i) == SubSeq(wire, 1, i - 1) \o SubSeq(wire, i + 1, Len(wire))

(* Variant: without the early return, each call leaves the                 *)
(* interval of the last one running.                                       *)
StartPollingAgain == timer' = TRUE /\ intervals' = intervals + 1

StartPolling ==
  IF timer THEN UNCHANGED polling ELSE timer' = TRUE /\ intervals' = intervals + 1

StopPolling ==
  /\ timer' = FALSE
  /\ intervals' = IF timer THEN intervals - 1 ELSE intervals

(* Variants: a response with nothing to wait for leaves the interval       *)
(* alone; one with something to wait for never starts it, or always does.  *)
ListedKeepsPolling(saw, mayStart) ==
  IF saw \in Active /\ mayStart THEN StartPolling ELSE UNCHANGED polling
ListedNeverStarts(saw, mayStart) ==
  IF saw \in Active THEN UNCHANGED polling ELSE StopPolling
ListedAlwaysStarts(saw, mayStart) ==
  IF saw \in Active THEN StartPolling ELSE StopPolling

Listed(saw, mayStart) ==
  IF saw \notin Active THEN StopPolling
  ELSE IF mayStart THEN StartPolling ELSE UNCHANGED polling

(* A response arrives; nothing unsubscribes, so also after ngOnDestroy.    *)
ListArrives(i) ==
  /\ i \in DOMAIN wire /\ wire[i].saw # Unread
  /\ InOrder => i = 1
  /\ shown' = wire[i].saw.status /\ verdict' = wire[i].saw.report
  /\ listError' = FALSE
  /\ Listed(wire[i].saw.status, wire[i].mayStart)
  /\ wire' = Dropped(i)
  /\ UNCHANGED <<server, alive, post, gaveUp, postError, panel>>

ListFails(i) ==
  /\ MayFail
  /\ i \in DOMAIN wire
  /\ InOrder => i = 1
  /\ listError' = TRUE
  /\ StopPolling
  /\ wire' = Dropped(i)
  /\ UNCHANGED <<server, alive, post, shown, verdict, gaveUp, postError, panel>>

Tick ==
  /\ timer
  /\ Send(FALSE)
  /\ UNCHANGED <<server, alive, post, screen, polling, panel>>

(* MAX_POLL_MS have passed.                                                *)
GiveUp ==
  /\ timer
  /\ StopPolling
  /\ gaveUp' = TRUE
  /\ UNCHANGED <<server, alive, wire, post, shown, verdict, listError, postError, panel>>

Refresh == gaveUp' = FALSE /\ Send(TRUE)

RefreshButton ==
  /\ alive
  /\ Refresh
  /\ UNCHANGED <<server, alive, post, shown, verdict, listError, postError, polling, panel>>

-----------------------------------------------------------------------------
(* uploadFile, retryConversion, ngOnDestroy                                *)

UploadFile ==
  /\ alive /\ post = "none"
  /\ status = "absent"
  /\ post' = "upload"
  /\ postError' = FALSE
  /\ UNCHANGED <<server, alive, wire, shown, verdict, gaveUp, listError, polling, panel>>

(* The button is there while the file shows as failed; the bound on jobs   *)
(* is the only reason it may not be pressed again.                         *)
RetryConversion ==
  /\ alive /\ post = "none"
  /\ shown = "failed"
  /\ \E n \in Jobs : Unused(n)
  /\ post' = "retry"
  /\ postError' = FALSE
  /\ UNCHANGED <<server, alive, wire, shown, verdict, gaveUp, listError, polling, panel>>

PostArrives ==
  /\ post = "handled"
  /\ post' = "none"
  /\ Refresh
  /\ UNCHANGED <<server, alive, shown, verdict, listError, postError, polling, panel>>

(* The request is not handled, or its answer is lost.  The upload's error  *)
(* is on screen, the retry's only on the console.                          *)
PostFails ==
  /\ MayFail
  /\ post # "none"
  /\ post' = "none"
  /\ postError' = TRUE
  /\ UNCHANGED <<server, alive, wire, shown, verdict, gaveUp, listError, polling, panel>>

Destroy ==
  /\ alive
  /\ alive' = FALSE
  /\ StopPolling
  /\ UNCHANGED <<server, wire, post, screen, panel>>

-----------------------------------------------------------------------------
(* toggleDetail.  The button is there while a verdict is on screen; one    *)
(* detail request is under way at a time.                                  *)

NothingElse == UNCHANGED <<server, alive, wire, post, screen, polling>>

CloseDetail ==
  /\ alive /\ verdict # 0 /\ expanded # 0
  /\ expanded' = 0
  /\ UNCHANGED <<detail, cached, reportError>>
  /\ NothingElse

(* Variant: it is asked for once, whatever came of it.                     *)
OpenDetailOnce ==
  /\ alive /\ verdict # 0 /\ expanded = 0 /\ detail = NoRequest
  /\ expanded' = verdict
  /\ detail' = IF cached # 0 \/ reportError THEN detail ELSE Unread
  /\ reportError' = FALSE
  /\ UNCHANGED cached
  /\ NothingElse

OpenDetail ==
  /\ alive /\ verdict # 0 /\ expanded = 0 /\ detail = NoRequest
  /\ expanded' = verdict
  /\ detail' = IF cached # 0 THEN detail ELSE Unread
  /\ reportError' = FALSE
  /\ UNCHANGED cached
  /\ NothingElse

(* An answer without a report leaves the page as it is.                    *)
DetailArrives ==
  /\ detail \in Row
  /\ detail' = NoRequest
  /\ cached' = IF detail.report # 0 THEN detail.report ELSE cached
  /\ UNCHANGED <<expanded, reportError>>
  /\ NothingElse

DetailFails ==
  /\ MayFail /\ detail # NoRequest
  /\ detail' = NoRequest
  /\ reportError' = TRUE
  /\ UNCHANGED <<expanded, cached>>
  /\ NothingElse

-----------------------------------------------------------------------------
Server == \/ \E n \in Jobs : StartRun(n) \/ SaveReport(n) \/ FinishRun(n) \/ HandleFailure(n)
          \/ HandlePost
          \/ \E i \in 1 .. MaxInFlight : ReadList(i)

Responses == \/ \E i \in 1 .. MaxInFlight : ListArrives(i) \/ ListFails(i)
             \/ PostArrives \/ PostFails

User == UploadFile \/ RetryConversion \/ RefreshButton \/ Destroy

Detail == CloseDetail \/ OpenDetail \/ ReadDetail \/ DetailArrives \/ DetailFails

Next == Server \/ Responses \/ Tick \/ GiveUp \/ User \/ Detail

Spec == Init /\ [][Next]_vars

(* Servers answer, responses arrive and the interval ticks.  No user acts. *)
Fairness == /\ WF_vars(Server) /\ WF_vars(Tick)
            /\ WF_vars(\E i \in 1 .. MaxInFlight : ListArrives(i))
            /\ WF_vars(PostArrives)

FairSpec == Spec /\ Fairness

-----------------------------------------------------------------------------
(* Properties                                                              *)

(* No interval runs, and no request that may start one is under way.       *)
Stopped ==
  intervals = 0 /\ post = "none" /\ \A i \in DOMAIN wire : ~wire[i].mayStart

(* A page that has stopped asking starts again for its user only: no late  *)
(* answer to a request of the interval or to a detail request does it, so  *)
(* with the component gone it is silent for good.  It may be silent later  *)
(* than ngOnDestroy: a refresh under way by then still starts the interval. *)
StaysStopped == [][Stopped => Stopped' \/ User]_vars

(* Once no job of the file waits or runs any more, the browser comes to    *)
(* run no interval, be the component there or not: none is left behind     *)
(* by the order in which the page starts and stops them.                   *)
PollingEnds == <>[](status \notin Active) => <>[](intervals = 0)

(* It polls only while what it shows is waiting for a worker.              *)
PollsOnlyActive == timer => shown \in Active

Quiet == wire = <<>> /\ post = "none"

(* While the file on screen waits for a worker, the dashboard keeps        *)
(* asking, unless it has told the user that it does not.                   *)
KeepsAsking ==
  alive /\ Quiet /\ shown \in Active => timer \/ gaveUp \/ listError

(* Once nothing changes on the server any more, the screen comes to show   *)
(* it and goes on showing it, unless by then the page has stopped asking,  *)
(* its last list or upload or retry failed, one of those is under way or   *)
(* the component is gone.                                                  *)
ScreenCatchesUp ==
  \A s \in {"converted", "failed"} :
    <>[](status = s) =>
      <>[](shown = s \/ gaveUp \/ listError \/ postError \/ post # "none" \/ ~alive)

(* An open panel on which nothing is under way shows a report, or says why *)
(* it does not, unless the file was retried since its verdict was shown.   *)
(* The report is that of the run of the verdict the panel was opened on,   *)
(* or one that was fetched before the file was retried and is kept.        *)
PanelAnswers ==
  alive /\ expanded # 0 /\ detail = NoRequest =>
    \/ cached \in 1 .. expanded
    \/ cached = 0 /\ reportError
    \/ \E n \in Jobs : n > expanded /\ job[n] # "none"
=============================================================================
