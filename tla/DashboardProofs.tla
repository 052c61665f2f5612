-------------------------- MODULE DashboardProofs --------------------------
(***************************************************************************)
(* For any number of jobs, attempts and requests under way, in whatever    *)
(* order their responses arrive: the page polls only while what it shows   *)
(* is waiting for a worker, and once it has stopped only its user makes it *)
(* start again.  With one list request under way at a time it asks for as  *)
(* long as something waits; and where no job is run twice, its detail      *)
(* panel has the report of the file it shows.                              *)
(***************************************************************************)
EXTENDS Dashboard, TLAPS

(* startPolling and stopPolling leave no interval running that pollTimer   *)
(* does not name, and never run two.                                       *)
TimerNamesInterval == intervals = IF timer THEN 1 ELSE 0

(* Together with the type of the handle the two are inductive: every step  *)
(* that changes the screen decides about the interval too.                 *)
Polling == timer \in BOOLEAN /\ TimerNamesInterval /\ PollsOnlyActive

LEMMA PollingInit == Init => Polling
BY DEF Init, Polling, TimerNamesInterval, PollsOnlyActive

LEMMA PollingStops ==
  ASSUME Polling, StopPolling
  PROVE  timer' = FALSE /\ TimerNamesInterval'
BY DEF Polling, StopPolling, TimerNamesInterval

LEMMA PollingListed ==
  ASSUME Polling, NEW i, ListArrives(i)
  PROVE  Polling'
<1> DEFINE saw == wire[i].saw.status
           mayStart == wire[i].mayStart
<1>0. shown' = saw /\ Listed(saw, mayStart)
  BY DEF ListArrives
<1>1. CASE saw \notin Active
  <2>1. StopPolling
    BY <1>0, <1>1 DEF Listed
  <2>2. timer' = FALSE /\ TimerNamesInterval'
    BY <2>1, PollingStops
  <2> QED
    BY <2>2 DEF Polling, PollsOnlyActive
<1>2. CASE saw \in Active /\ mayStart /\ ~timer
  <2>1. StartPolling
    BY <1>0, <1>2 DEF Listed
  <2>2. timer' = TRUE /\ intervals' = intervals + 1 /\ intervals = 0
    BY <2>1, <1>2 DEF StartPolling, Polling, TimerNamesInterval
  <2> QED
    BY <1>0, <1>2, <2>2 DEF Polling, TimerNamesInterval, PollsOnlyActive
<1>3. CASE saw \in Active /\ ~(mayStart /\ ~timer)
  <2>1. UNCHANGED polling
    BY <1>0, <1>3 DEF Listed, StartPolling
  <2> QED
    BY <1>0, <1>3, <2>1 DEF polling, Polling, TimerNamesInterval, PollsOnlyActive
<1> QED
  BY <1>1, <1>2, <1>3

LEMMA PollingStep ==
  ASSUME Polling, [Next]_vars
  PROVE  Polling'
<1> USE DEF Polling, TimerNamesInterval, PollsOnlyActive
<1>0. ASSUME UNCHANGED <<screen, polling>> PROVE Polling'
  BY <1>0 DEF screen, polling
<1>1. CASE Server
  <2>1. CASE \E n \in Jobs : StartRun(n) \/ SaveReport(n) \/ FinishRun(n) \/ HandleFailure(n)
    BY <1>0, <2>1 DEF StartRun, SaveReport, FinishRun, HandleFailure, NoClientStep
  <2>2. CASE HandlePost
    BY <1>0, <2>2 DEF HandlePost
  <2>3. CASE \E i \in 1 .. MaxInFlight : ReadList(i)
    BY <1>0, <2>3, Zenon DEF ReadList
  <2> QED
    BY <1>1, <2>1, <2>2, <2>3 DEF Server
<1>2. CASE Responses
  <2>1. ASSUME NEW i, ListArrives(i) PROVE Polling'
    BY <2>1, PollingListed
  <2>2. ASSUME NEW i, ListFails(i) PROVE Polling'
    BY <2>2, PollingStops DEF ListFails
  <2>3. CASE PostArrives
    BY <2>3 DEF PostArrives, polling
  <2>4. CASE PostFails
    BY <2>4 DEF PostFails, polling
  <2> QED
    BY <1>2, <2>1, <2>2, <2>3, <2>4 DEF Responses
<1>3. CASE Tick
  BY <1>0, <1>3 DEF Tick
<1>4. CASE GiveUp
  BY <1>4, PollingStops DEF GiveUp
<1>5. CASE User
  <2>1. CASE Destroy
    BY <2>1, PollingStops DEF Destroy
  <2>2. CASE RefreshButton
    BY <2>2 DEF RefreshButton, polling
  <2>3. CASE UploadFile \/ RetryConversion
    BY <2>3 DEF UploadFile, RetryConversion, polling
  <2> QED
    BY <1>5, <2>1, <2>2, <2>3 DEF User
<1>6. CASE Detail
  BY <1>0, <1>6 DEF Detail, CloseDetail, OpenDetail, ReadDetail, DetailArrives, DetailFails,
     NothingElse
<1>7. CASE UNCHANGED vars
  BY <1>0, <1>7 DEF vars
<1> QED
  BY <1>1, <1>2, <1>3, <1>4, <1>5, <1>6, <1>7 DEF Next

LEMMA PollingAlways == Spec => []Polling
BY PollingInit, PollingStep, PTL DEF Spec

(* The dashboard polls only while it shows a file in ACTIVE_STATUSES.      *)
THEOREM PollingIsForActiveFiles == Spec => []PollsOnlyActive
<1>1. Polling => PollsOnlyActive
  BY DEF Polling
<1> QED
  BY <1>1, PollingAlways, PTL
-----------------------------------------------------------------------------
(* The types.  A job that waits has an attempt left.                       *)
Rows == Row \cup {Unread}
Requests == [mayStart : BOOLEAN, saw : Rows]
MayStartRun == \A n \in Jobs : job[n] = "waiting" => left[n] > 0

Typed == TypeOK /\ MayStartRun

LEMMA UnreadIsNoRow == Unread \notin Row /\ NoRequest \notin Row /\ NoRequest # Unread
<1>1. Unread = [none |-> FALSE] /\ NoRequest = [none |-> TRUE]
  BY DEF Unread, NoRequest
<1>2. \A x \in Row : x = [status |-> x.status, report |-> x.report]
  BY DEF Row
<1>3. \A x \in Row : DOMAIN x = {"status", "report"}
  BY <1>2
<1>4. DOMAIN Unread = {"none"} /\ DOMAIN NoRequest = {"none"}
  BY <1>1
<1>5. Unread.none = FALSE /\ NoRequest.none = TRUE
  BY <1>1
<1>6. "none" \notin {"status", "report"}
  OBVIOUS
<1> QED
  BY <1>3, <1>4, <1>5, <1>6

LEMMA DroppedOK ==
  ASSUME wire \in Seq(Requests), NEW i \in DOMAIN wire
  PROVE  /\ Dropped(i) \in Seq(Requests)
         /\ Len(Dropped(i)) = Len(wire) - 1
         /\ \A k \in DOMAIN Dropped(i) : \E l \in DOMAIN wire : Dropped(i)[k] = wire[l]
<1> DEFINE a == SubSeq(wire, 1, i - 1)
           b == SubSeq(wire, i + 1, Len(wire))
<1>1. Len(wire) \in Nat /\ i \in 1 .. Len(wire)
  OBVIOUS
<1>2. /\ a \in Seq(Requests) /\ Len(a) = i - 1
      /\ \A k \in 1 .. i - 1 : a[k] = wire[k]
  BY <1>1
<1>3. /\ b \in Seq(Requests) /\ Len(b) = Len(wire) - i
      /\ \A k \in 1 .. Len(wire) - i : b[k] = wire[i + k]
  BY <1>1
<1> HIDE DEF a, b
<1>4. /\ a \o b \in Seq(Requests)
      /\ Len(a \o b) = Len(wire) - 1
      /\ \A k \in 1 .. Len(wire) - 1 :
           (a \o b)[k] = IF k <= i - 1 THEN a[k] ELSE b[k - (i - 1)]
  BY <1>1, <1>2, <1>3
<1>5. ASSUME NEW k \in 1 .. Len(wire) - 1
      PROVE  \E l \in DOMAIN wire : (a \o b)[k] = wire[l]
  <2>1. CASE k <= i - 1
    BY <1>1, <1>2, <1>4, <2>1
  <2>2. CASE k > i - 1
    <3>1. k - (i - 1) \in 1 .. Len(wire) - i /\ i + (k - (i - 1)) = k + 1
      BY <1>1, <2>2
    <3>2. (a \o b)[k] = wire[k + 1] /\ k + 1 \in DOMAIN wire
      BY <1>1, <1>3, <1>4, <2>2, <3>1
    <3> QED
      BY <3>2
  <2>3. k <= i - 1 \/ k > i - 1
    BY <1>1
  <2> QED
    BY <2>1, <2>2, <2>3
<1>6. Dropped(i) = a \o b
  BY DEF Dropped, a, b
<1>7. DOMAIN (a \o b) = 1 .. Len(wire) - 1
  BY <1>4
<1> QED
  BY <1>4, <1>5, <1>6, <1>7

LEMMA AppendOK ==
  ASSUME wire \in Seq(Requests), NEW mayStart \in BOOLEAN, Send(mayStart)
  PROVE  /\ wire' \in Seq(Requests) /\ Len(wire') <= MaxInFlight
         /\ Len(wire') = Len(wire) + 1
         /\ \A k \in DOMAIN wire' : wire'[k] = Request(mayStart) \/ (k \in DOMAIN wire /\ wire'[k] = wire[k])
         /\ wire'[Len(wire) + 1] = Request(mayStart)
<1>1. Request(mayStart) \in Requests
  BY DEF Request, Requests, Rows
<1>2. wire' = Append(wire, Request(mayStart)) /\ Len(wire) < MaxInFlight /\ Len(wire) \in Nat
  BY DEF Send
<1>3. /\ wire' \in Seq(Requests) /\ Len(wire') = Len(wire) + 1
      /\ wire'[Len(wire) + 1] = Request(mayStart)
      /\ \A k \in 1 .. Len(wire) : wire'[k] = wire[k]
  BY <1>1, <1>2
<1>4. \A k \in DOMAIN wire' : k \in 1 .. Len(wire) \/ k = Len(wire) + 1
  BY <1>2, <1>3
<1> QED
  BY <1>2, <1>3, <1>4, WireAssumption

LEMMA ReadOK ==
  ASSUME TypeOK, NEW i, ReadList(i)
  PROVE  /\ wire' \in Seq(Requests) /\ Len(wire') = Len(wire)
         /\ \A k \in DOMAIN wire' :
              /\ k \in DOMAIN wire /\ wire'[k].mayStart = wire[k].mayStart
              /\ wire'[k].saw = wire[k].saw \/ wire'[k].saw = [status |-> status, report |-> report]
<1>1. wire \in Seq(Requests) /\ i \in DOMAIN wire
  BY DEF TypeOK, ReadList, Requests, Rows
<1>2. [status |-> status, report |-> report] \in Rows
  BY DEF TypeOK, Rows, Row
<1>3. /\ \A k \in DOMAIN wire : wire[k] \in Requests
      /\ wire' = [wire EXCEPT ![i] = [wire[i] EXCEPT !.saw = [status |-> status, report |-> report]]]
  BY <1>1 DEF ReadList
<1>4. [wire[i] EXCEPT !.saw = [status |-> status, report |-> report]] \in Requests
  BY <1>1, <1>2, <1>3 DEF Requests
<1>5. wire' \in Seq(Requests) /\ Len(wire') = Len(wire) /\ DOMAIN wire' = DOMAIN wire
  BY <1>1, <1>3, <1>4
<1>6. \A k \in DOMAIN wire : wire'[k] = IF k = i THEN [wire[i] EXCEPT !.saw = [status |-> status, report |-> report]]
                                        ELSE wire[k]
  BY <1>1, <1>3
<1> QED
  BY <1>3, <1>5, <1>6 DEF Requests
LEMMA TypedInit == Init => Typed
<1> SUFFICES ASSUME Init PROVE Typed
  OBVIOUS
<1>1. wire = <<Request(TRUE)>> /\ Request(TRUE) \in Requests
  BY DEF Init, Request, Requests, Rows
<1>2. wire \in Seq(Requests) /\ Len(wire) = 1
  <2>1. \A x \in Requests : <<x>> \in Seq(Requests) /\ Len(<<x>>) = 1
    OBVIOUS
  <2> QED
    BY <1>1, <2>1
<1>3. wire \in Seq([mayStart : BOOLEAN, saw : Row \cup {Unread}]) /\ Len(wire) <= MaxInFlight
  BY <1>2, WireAssumption DEF Requests, Rows
<1>4. 0 \in 0 .. MaxJobs /\ 0 \in 0 .. MaxAttempts
  BY JobsAssumption
<1> QED
  BY <1>3, <1>4 DEF Init, Typed, TypeOK, MayStartRun, Statuses

LEMMA TypedServer ==
  ASSUME Typed, Server
  PROVE  Typed'
<1> USE DEF Typed, TypeOK, NoClientStep, screen, polling, panel
<1>1. ASSUME NEW n \in Jobs, StartRun(n) PROVE Typed'
  <2>1. left[n] > 0 /\ left[n] \in 0 .. MaxAttempts
    BY <1>1 DEF StartRun, MayStartRun
  <2>2. left[n] - 1 \in 0 .. MaxAttempts
    BY <2>1, JobsAssumption
  <2>3. MayStartRun'
    BY <1>1 DEF StartRun, MayStartRun
  <2> QED
    BY <1>1, <2>2, <2>3, JobsAssumption DEF StartRun, Statuses
<1>2. ASSUME NEW n \in Jobs, SaveReport(n) \/ FinishRun(n) PROVE Typed'
  <2>1. MayStartRun'
    BY <1>2 DEF SaveReport, FinishRun, MayStartRun
  <2>2. n \in 0 .. MaxJobs
    BY JobsAssumption DEF Jobs
  <2>3. CASE SaveReport(n)
    BY <2>1, <2>2, <2>3 DEF SaveReport
  <2>4. CASE FinishRun(n)
    BY <2>1, <2>4 DEF FinishRun, Statuses
  <2> QED
    BY <1>2, <2>3, <2>4
<1>3. ASSUME NEW n \in Jobs, HandleFailure(n) PROVE Typed'
  <2>1. MayStartRun'
    BY <1>3 DEF HandleFailure, MayStartRun
  <2> QED
    BY <1>3, <2>1 DEF HandleFailure, Statuses
<1>4. CASE HandlePost
  <2>1. MayStartRun'
    BY <1>4, JobsAssumption DEF HandlePost, MayStartRun
  <2>2. MaxAttempts \in 0 .. MaxAttempts
    BY JobsAssumption
  <2> QED
    BY <1>4, <2>1, <2>2 DEF HandlePost, Statuses
<1>5. ASSUME NEW i, ReadList(i) PROVE Typed'
  <2>1. wire' \in Seq([mayStart : BOOLEAN, saw : Row \cup {Unread}]) /\ Len(wire') <= MaxInFlight
    BY <1>5, ReadOK DEF Requests, Rows
  <2>2. UNCHANGED <<server, alive, post, screen, polling, panel>>
    BY <1>5 DEF ReadList
  <2> QED
    BY <2>1, <2>2 DEF server, MayStartRun
<1> QED
  BY <1>1, <1>2, <1>3, <1>4, <1>5 DEF Server

LEMMA TypedClient ==
  ASSUME Typed, Polling', Responses \/ Tick \/ GiveUp \/ User
  PROVE  Typed'
<1> USE DEF Typed, TypeOK, MayStartRun, server, screen, polling, panel
<1>t. timer' \in BOOLEAN /\ intervals' \in Nat
  BY DEF Polling, TimerNamesInterval
<1>w. wire \in Seq(Requests) /\ Len(wire) \in Nat
  BY DEF Requests, Rows
<1>d. ASSUME NEW i \in DOMAIN wire, wire' = Dropped(i)
      PROVE  wire' \in Seq([mayStart : BOOLEAN, saw : Row \cup {Unread}])
             /\ Len(wire') <= MaxInFlight
  BY <1>d, <1>w, DroppedOK, WireAssumption DEF Requests, Rows
<1>s. ASSUME NEW mayStart \in BOOLEAN, Send(mayStart)
      PROVE  wire' \in Seq([mayStart : BOOLEAN, saw : Row \cup {Unread}])
             /\ Len(wire') <= MaxInFlight
  BY <1>s, <1>w, AppendOK DEF Requests, Rows
<1>1. ASSUME NEW i, ListArrives(i) PROVE Typed'
  <2>1. wire[i].saw \in Row /\ i \in DOMAIN wire
    <3>1. i \in DOMAIN wire /\ wire[i].saw # Unread
      BY <1>1 DEF ListArrives
    <3>2. wire[i] \in Requests
      BY <1>w, <3>1
    <3> QED
      BY <3>1, <3>2 DEF Requests, Rows
  <2>2. shown' \in Statuses /\ verdict' \in 0 .. MaxJobs
    BY <1>1, <2>1 DEF ListArrives, Row
  <2> QED
    BY <1>1, <1>t, <1>d, <2>1, <2>2 DEF ListArrives
<1>2. ASSUME NEW i, ListFails(i) PROVE Typed'
  BY <1>2, <1>t, <1>d DEF ListFails
<1>3. CASE PostArrives
  BY <1>3, <1>t, <1>s DEF PostArrives, Refresh
<1>4. CASE PostFails \/ UploadFile \/ RetryConversion
  BY <1>4 DEF PostFails, UploadFile, RetryConversion
<1>5. CASE Tick
  BY <1>5, <1>s DEF Tick
<1>6. CASE GiveUp \/ Destroy
  BY <1>6, <1>t DEF GiveUp, Destroy
<1>7. CASE RefreshButton
  BY <1>7, <1>s DEF RefreshButton, Refresh
<1> QED
  BY <1>1, <1>2, <1>3, <1>4, <1>5, <1>6, <1>7 DEF Responses, User

LEMMA TypedDetail ==
  ASSUME Typed, Detail
  PROVE  Typed'
<1> USE DEF Typed, TypeOK, MayStartRun, NothingElse, server, screen, polling, panel
<1>0. 0 \in 0 .. MaxJobs
  BY JobsAssumption
<1>1. CASE CloseDetail
  BY <1>0, <1>1 DEF CloseDetail
<1>2. CASE OpenDetail
  BY <1>2 DEF OpenDetail
<1>3. CASE ReadDetail
  BY <1>3 DEF ReadDetail, Row
<1>4. CASE DetailArrives
  BY <1>4 DEF DetailArrives, Row
<1>5. CASE DetailFails
  BY <1>5 DEF DetailFails
<1> QED
  BY <1>1, <1>2, <1>3, <1>4, <1>5 DEF Detail

LEMMA TypedStep ==
  ASSUME Typed, Polling', [Next]_vars
  PROVE  Typed'
<1>1. CASE UNCHANGED vars
  BY <1>1 DEF vars, server, screen, polling, panel, Typed, TypeOK, MayStartRun
<1> QED
  BY <1>1, TypedServer, TypedClient, TypedDetail DEF Next

LEMMA TypedAlways == Spec => []Typed
<1>1. Typed /\ Polling' /\ [Next]_vars => Typed'
  BY TypedStep
<1> QED
  BY <1>1, TypedInit, PollingAlways, PTL DEF Spec

(* Every reachable state of the dashboard is well typed: in particular a   *)
(* run never starts with no attempt left, and requests do not pile up.     *)
THEOREM TypeCorrect == Spec => []TypeOK
<1>1. Typed => TypeOK
  BY DEF Typed
<1> QED
  BY <1>1, TypedAlways, PTL
-----------------------------------------------------------------------------
(* The end of polling: what is under way decides, and a request of the     *)
(* interval or an answer to one is not enough.                             *)
NoneMayStart == \A i \in DOMAIN wire : ~wire[i].mayStart

LEMMA NoneMayStartDropped ==
  ASSUME Typed, NoneMayStart, NEW i \in DOMAIN wire, wire' = Dropped(i)
  PROVE  NoneMayStart'
<1>1. wire \in Seq(Requests)
  BY DEF Typed, TypeOK, Requests, Rows
<1> QED
  BY <1>1, DroppedOK DEF NoneMayStart

LEMMA StoppedStep ==
  ASSUME Typed, Polling, Stopped, [Next]_vars
  PROVE  Stopped' \/ User
<1>0. /\ timer = FALSE /\ intervals = 0 /\ post = "none"
      /\ NoneMayStart
  BY DEF Polling, TimerNamesInterval, Stopped, NoneMayStart
<1>1. ASSUME UNCHANGED <<post, polling>>, NoneMayStart' PROVE Stopped'
  BY <1>0, <1>1 DEF Stopped, NoneMayStart, polling
<1>2. ASSUME UNCHANGED <<wire, post, polling>> PROVE Stopped'
  BY <1>0, <1>1, <1>2 DEF NoneMayStart
<1>3. ASSUME StopPolling PROVE intervals' = 0
  BY <1>0, <1>3 DEF StopPolling
<1>4. CASE Server
  <2>1. CASE \E n \in Jobs : StartRun(n) \/ SaveReport(n) \/ FinishRun(n) \/ HandleFailure(n)
    BY <1>2, <2>1 DEF StartRun, SaveReport, FinishRun, HandleFailure, NoClientStep
  <2>2. CASE HandlePost
    BY <1>0, <2>2 DEF HandlePost
  <2>3. ASSUME NEW i \in 1 .. MaxInFlight, ReadList(i) PROVE Stopped'
    <3>1. wire \in Seq(Requests)
      BY DEF Typed, TypeOK, Requests, Rows
    <3>2. \A k \in DOMAIN wire' : k \in DOMAIN wire /\ wire'[k].mayStart = wire[k].mayStart
      BY <2>3, <3>1 DEF ReadList, Requests
    <3> QED
      BY <1>0, <1>1, <2>3, <3>2 DEF ReadList, NoneMayStart
  <2> QED
    BY <1>4, <2>1, <2>2, <2>3 DEF Server
<1>5. CASE Responses
  <2>1. ASSUME NEW i, ListArrives(i) PROVE Stopped'
    <3>1. i \in DOMAIN wire /\ wire' = Dropped(i) /\ post' = post /\ ~wire[i].mayStart
      BY <1>0, <2>1 DEF ListArrives, NoneMayStart
    <3>2. StopPolling \/ UNCHANGED polling
      BY <2>1, <3>1 DEF ListArrives, Listed
    <3>3. intervals' = 0
      BY <1>0, <1>3, <3>2 DEF polling
    <3> QED
      BY <1>0, <3>1, <3>3, NoneMayStartDropped DEF Stopped, NoneMayStart
  <2>2. ASSUME NEW i, ListFails(i) PROVE Stopped'
    <3>1. i \in DOMAIN wire /\ wire' = Dropped(i) /\ post' = post /\ intervals' = 0
      BY <1>3, <2>2 DEF ListFails
    <3> QED
      BY <1>0, <3>1, NoneMayStartDropped DEF Stopped, NoneMayStart
  <2>3. CASE PostArrives \/ PostFails
    BY <1>0, <2>3 DEF PostArrives, PostFails
  <2> QED
    BY <1>5, <2>1, <2>2, <2>3 DEF Responses
<1>6. CASE Tick \/ GiveUp
  BY <1>0, <1>6 DEF Tick, GiveUp
<1>7. CASE Detail
  BY <1>2, <1>7 DEF Detail, CloseDetail, OpenDetail, ReadDetail, DetailArrives, DetailFails,
     NothingElse
<1>8. CASE UNCHANGED vars
  BY <1>2, <1>8 DEF vars
<1> QED
  BY <1>4, <1>5, <1>6, <1>7, <1>8 DEF Next

(* Once no interval runs and no request that may start one is under way,   *)
(* only a press of a button starts it again, and with the component gone   *)
(* there is none: whatever answers come late, the page is silent for good. *)
THEOREM SilentForGood == Spec => StaysStopped
<1>1. Typed /\ Polling /\ [Next]_vars => [Stopped => Stopped' \/ User]_vars
  BY StoppedStep
<1> QED
  BY <1>1, TypedAlways, PollingAlways, PTL DEF Spec, StaysStopped
-----------------------------------------------------------------------------
(* One list request at a time: the page asks again, or has said why not.   *)
Asking ==
  /\ alive /\ wire = <<>> /\ shown \in Active => timer \/ gaveUp \/ listError
  /\ alive /\ wire # <<>> /\ ~wire[1].mayStart => timer \/ gaveUp

LEMMA OneInFlight ==
  ASSUME MaxInFlight = 1, Typed
  PROVE  /\ wire \in Seq(Requests) /\ Len(wire) \in {0, 1}
         /\ wire # <<>> <=> Len(wire) = 1
         /\ wire = <<>> <=> Len(wire) = 0
         /\ \A i \in DOMAIN wire : i = 1 /\ wire # <<>> /\ Dropped(i) = <<>>
         /\ \A mayStart \in BOOLEAN : Send(mayStart) =>
              /\ wire = <<>> /\ wire' # <<>> /\ wire'[1].mayStart = mayStart
<1>1. wire \in Seq(Requests) /\ Len(wire) \in {0, 1} /\ DOMAIN wire = 1 .. Len(wire)
  <2>1. wire \in Seq(Requests) /\ Len(wire) <= 1
    BY DEF Typed, TypeOK, Requests, Rows
  <2>2. Len(wire) \in Nat /\ DOMAIN wire = 1 .. Len(wire)
    BY <2>1
  <2> QED
    BY <2>1, <2>2
<1>2. (wire # <<>> <=> Len(wire) = 1) /\ (wire = <<>> <=> Len(wire) = 0)
  <2>1. wire = <<>> <=> Len(wire) = 0
    BY <1>1
  <2> QED
    BY <1>1, <2>1
<1>3. ASSUME NEW i \in DOMAIN wire PROVE i = 1 /\ wire # <<>> /\ Dropped(i) = <<>>
  <2>1. i = 1 /\ Len(wire) = 1
    <3>1. i \in 1 .. Len(wire)
      BY <1>1
    <3>2. Len(wire) = 0 \/ Len(wire) = 1
      BY <1>1
    <3> QED
      BY <3>1, <3>2
  <2>2. Dropped(i) \in Seq(Requests) /\ Len(Dropped(i)) = 0
    BY <1>1, <2>1, DroppedOK
  <2>3. Dropped(i) = <<>>
    BY <2>2
  <2> QED
    BY <1>2, <2>1, <2>3
<1>4. ASSUME NEW mayStart \in BOOLEAN, Send(mayStart)
      PROVE  wire = <<>> /\ wire' # <<>> /\ wire'[1].mayStart = mayStart
  <2>1. Len(wire) = 0
    BY <1>1, <1>4 DEF Send
  <2>2. wire'[1] = Request(mayStart) /\ Len(wire') = 1
    BY <1>1, <1>4, <2>1, AppendOK
  <2> QED
    BY <1>2, <2>1, <2>2 DEF Request
<1> QED
  BY <1>1, <1>2, <1>3, <1>4

LEMMA AskingStep ==
  ASSUME MaxInFlight = 1, Typed, Polling, Asking, [Next]_vars
  PROVE  Asking'
<1> USE DEF Asking, server, screen, polling, panel
<1>b. timer \in BOOLEAN /\ gaveUp \in BOOLEAN /\ listError \in BOOLEAN /\ alive \in BOOLEAN
  BY DEF Typed, TypeOK
<1>0. ASSUME UNCHANGED <<alive, wire, shown, timer, gaveUp, listError>> PROVE Asking'
  BY <1>0
<1>1. CASE Server
  <2>1. CASE HandlePost \/ \E n \in Jobs : StartRun(n) \/ SaveReport(n) \/ FinishRun(n) \/ HandleFailure(n)
    BY <1>0, <2>1 DEF StartRun, SaveReport, FinishRun, HandleFailure, HandlePost, NoClientStep
  <2>2. ASSUME NEW i, ReadList(i) PROVE Asking'
    <3>1. UNCHANGED <<alive, shown, timer, gaveUp, listError>> /\ i \in DOMAIN wire
      BY <2>2 DEF ReadList
    <3>2. wire # <<>> /\ Len(wire) = 1 /\ wire' \in Seq(Requests) /\ Len(wire') = 1
      BY <2>2, <3>1, OneInFlight, ReadOK DEF Typed
    <3>3. wire'[1].mayStart = wire[1].mayStart /\ wire' # <<>>
      BY <2>2, <3>2, ReadOK DEF Typed
    <3> QED
      BY <3>1, <3>2, <3>3
  <2> QED
    BY <1>1, <2>1, <2>2 DEF Server
<1>2. ASSUME NEW i, ListArrives(i) PROVE Asking'
  <2>1. i \in DOMAIN wire /\ wire' = Dropped(i) /\ UNCHANGED <<alive, gaveUp>>
        /\ shown' = wire[i].saw.status /\ Listed(wire[i].saw.status, wire[i].mayStart)
    BY <1>2 DEF ListArrives
  <2>2. i = 1 /\ wire # <<>> /\ wire' = <<>>
    BY <2>1, OneInFlight
  <2>3. CASE shown' \in Active /\ wire[1].mayStart
    <3>1. StartPolling
      BY <2>1, <2>2, <2>3 DEF Listed
    <3> QED
      BY <2>2, <3>1 DEF StartPolling
  <2>4. CASE shown' \in Active /\ ~wire[1].mayStart
    <3>1. UNCHANGED polling
      BY <2>1, <2>2, <2>4 DEF Listed
    <3> QED
      BY <2>1, <2>2, <2>4, <3>1
  <2>5. CASE shown' \notin Active
    BY <2>2, <2>5
  <2> QED
    BY <2>3, <2>4, <2>5
<1>3. ASSUME NEW i, ListFails(i) PROVE Asking'
  <2>1. i \in DOMAIN wire /\ wire' = Dropped(i) /\ listError'
    BY <1>3 DEF ListFails
  <2> QED
    BY <2>1, OneInFlight
<1>4. CASE PostArrives \/ RefreshButton
  <2>1. Send(TRUE)
    BY <1>4 DEF PostArrives, RefreshButton, Refresh
  <2> QED
    BY <2>1, OneInFlight
<1>5. CASE PostFails \/ UploadFile \/ RetryConversion
  BY <1>0, <1>5 DEF PostFails, UploadFile, RetryConversion
<1>6. CASE Tick
  <2>1. Send(FALSE) /\ timer /\ UNCHANGED timer
    BY <1>6 DEF Tick
  <2> QED
    BY <2>1, OneInFlight
<1>7. CASE GiveUp \/ Destroy
  BY <1>7 DEF GiveUp, Destroy
<1>8. CASE Detail
  BY <1>0, <1>8 DEF Detail, CloseDetail, OpenDetail, ReadDetail, DetailArrives, DetailFails,
     NothingElse
<1>9. CASE UNCHANGED vars
  BY <1>0, <1>9 DEF vars
<1> QED
  BY <1>1, <1>2, <1>3, <1>4, <1>5, <1>6, <1>7, <1>8, <1>9 DEF Next, Responses, User

(* With one list request under way at a time, the dashboard never stops    *)
(* asking about a file that waits for a worker without showing that it     *)
(* did: for any number of jobs and attempts.                               *)
THEOREM AsksOn ==
  ASSUME MaxInFlight = 1
  PROVE  Spec => []KeepsAsking
<1>1. Init => Asking
  <2> SUFFICES ASSUME Init PROVE Asking
    OBVIOUS
  <2>1. wire[1].mayStart = TRUE /\ shown \notin Active
    BY DEF Init, Request, Active
  <2> QED
    BY <2>1 DEF Asking
<1>2. Typed /\ Polling /\ Asking /\ [Next]_vars => Asking'
  BY AskingStep
<1>3. Asking => KeepsAsking
  BY DEF Asking, KeepsAsking, Quiet
<1> QED
  BY <1>1, <1>2, <1>3, TypedAlways, PollingAlways, PTL DEF Spec
-----------------------------------------------------------------------------
(* The panel.  When a worker runs a job again it clears the report of the  *)
(* first run, and an open panel of that run is left without an answer: the *)
(* theorem is about behaviours in which no job runs twice, as when there   *)
(* is one attempt.                                                         *)
NoSecondRun == \A n \in Jobs : job[n] = "failing" => left[n] = 0

JobsInOrder ==
  /\ \A m, n \in Jobs :
       m < n /\ job[n] # "none" => job[m] \notin {"none", "waiting", "running"}
  /\ status = "failed" => \A n \in Jobs : job[n] \notin {"waiting", "running"}
  /\ status = "absent" => \A n \in Jobs : job[n] = "none"
  /\ post = "upload" => status = "absent"

(* A report was made by a job that has run, and is on the server unless a  *)
(* later job has started.                                                  *)
Later(k) == \E n \in Jobs : n > k /\ job[n] # "none"
Known(k) == k # 0 => job[k] \notin {"none", "waiting"} /\ (report = k \/ Later(k))

Reports ==
  /\ Known(report) /\ Known(verdict) /\ Known(expanded) /\ Known(cached)
  /\ \A i \in DOMAIN wire : wire[i].saw # Unread => Known(wire[i].saw.report)
  /\ detail \in Row => Known(detail.report)

Panel ==
  expanded # 0 =>
    /\ detail \in Row => detail.report # 0 \/ Later(expanded)
    /\ detail = NoRequest /\ cached = 0 => reportError \/ Later(expanded)

LEMMA JobsInOrderStep ==
  ASSUME Typed, NoSecondRun, JobsInOrder, [Next]_vars
  PROVE  JobsInOrder'
<1> USE DEF JobsInOrder, Jobs
<1>j. /\ job \in [Jobs -> {"none", "waiting", "running", "failing", "over"}]
      /\ MaxJobs \in Nat
  BY JobsAssumption DEF Typed, TypeOK
<1>0. ASSUME UNCHANGED <<status, job>>, post' = "upload" => status = "absent"
      PROVE  JobsInOrder'
  BY <1>0
<1>1. ASSUME NEW n \in Jobs, StartRun(n) PROVE JobsInOrder'
  BY <1>j, <1>1 DEF StartRun, NoClientStep
<1>2. ASSUME NEW n \in Jobs, SaveReport(n) PROVE JobsInOrder'
  BY <1>0, <1>2 DEF SaveReport, NoClientStep
<1>3. ASSUME NEW n \in Jobs, FinishRun(n) PROVE JobsInOrder'
  <2>1. /\ job[n] = "running" /\ UNCHANGED post /\ status' \in {"converted", "failed"}
        /\ \E s \in {"over", "failing"} : job' = [job EXCEPT ![n] = s]
    BY <1>3 DEF FinishRun, NoClientStep
  <2>2. \A m \in Jobs : job[m] \in {"waiting", "running"} => m = n
    <3> SUFFICES ASSUME NEW m \in Jobs, job[m] \in {"waiting", "running"}, m # n PROVE FALSE
      OBVIOUS
    <3>1. m < n \/ n < m
      BY <1>j
    <3> QED
      BY <2>1, <3>1
  <2> QED
    BY <1>j, <2>1, <2>2
<1>4. ASSUME NEW n \in Jobs, HandleFailure(n) PROVE JobsInOrder'
  <2>1. /\ job[n] = "failing" /\ job' = [job EXCEPT ![n] = "over"]
        /\ UNCHANGED <<status, post>>
    BY <1>4 DEF HandleFailure, NoSecondRun, NoClientStep
  <2> QED
    BY <1>j, <2>1
<1>5. CASE HandlePost
  <2>1. CASE post = "retry" /\ status # "failed"
    BY <1>0, <1>5, <2>1 DEF HandlePost
  <2>2. CASE ~(post = "retry" /\ status # "failed")
    <3>1. PICK n \in Jobs : /\ Unused(n) /\ status' \in {"converting", "ready"}
                            /\ job' = [job EXCEPT ![n] = "waiting"]
      BY <1>5, <2>2 DEF HandlePost
    <3>2. post' = "handled"
      BY <1>5 DEF HandlePost
    <3>3. \A m \in Jobs : job[m] \notin {"waiting", "running"}
      BY <1>5, <2>2 DEF HandlePost
    <3>4. \A m \in Jobs : m < n => job[m] # "none"
      BY <3>1 DEF Unused
    <3>5. \A m \in Jobs : n < m => job[m] = "none"
      BY <3>1 DEF Unused
    <3> QED
      BY <1>j, <3>1, <3>2, <3>3, <3>4, <3>5
  <2> QED
    BY <2>1, <2>2
<1>6. ASSUME NEW i, ReadList(i) PROVE JobsInOrder'
  BY <1>0, <1>6, Zenon DEF ReadList, server
<1>7. CASE Responses
  <2>1. ASSUME NEW i, ListArrives(i) \/ ListFails(i) PROVE JobsInOrder'
    BY <1>0, <2>1 DEF ListArrives, ListFails, server
  <2>2. CASE PostArrives \/ PostFails
    BY <1>0, <2>2 DEF PostArrives, PostFails, server
  <2> QED
    BY <1>7, <2>1, <2>2 DEF Responses
<1>8. CASE Tick \/ GiveUp \/ User
  BY <1>0, <1>8
     DEF Tick, GiveUp, User, UploadFile, RetryConversion, RefreshButton, Destroy, server
<1>9. CASE Detail
  BY <1>0, <1>9
     DEF Detail, CloseDetail, OpenDetail, ReadDetail, DetailArrives, DetailFails, NothingElse, server
<1>10. CASE UNCHANGED vars
  BY <1>0, <1>10 DEF vars, server
<1> QED
  BY <1>1, <1>2, <1>3, <1>4, <1>5, <1>6, <1>7, <1>8, <1>9, <1>10 DEF Next, Server

(* What is known stays known: a report leaves the server when a later job  *)
(* starts.                                                                 *)
LEMMA KnownStep ==
  ASSUME Typed, NoSecondRun, JobsInOrder, Known(report), [Next]_vars
  PROVE  /\ Known(report)'
         /\ \A k \in 0 .. MaxJobs : /\ Known(k) => Known(k)'
                                    /\ Later(k) => Later(k)'
<1> DEFINE P == /\ Known(report)'
                /\ \A k \in 0 .. MaxJobs : /\ Known(k) => Known(k)'
                                           /\ Later(k) => Later(k)'
<1>t. /\ job \in [Jobs -> {"none", "waiting", "running", "failing", "over"}]
      /\ report \in 0 .. MaxJobs /\ MaxJobs \in Nat /\ Jobs = 1 .. MaxJobs
  BY JobsAssumption DEF Typed, TypeOK, Jobs
<1>0. ASSUME UNCHANGED <<job, report>> PROVE P
  BY <1>0 DEF Known, Later
<1>s. ASSUME NEW n \in Jobs, NEW s, s # "none", job' = [job EXCEPT ![n] = s]
      PROVE  \A k : Later(k) => Later(k)'
  <2>1. \A m \in Jobs : job[m] # "none" => job'[m] # "none"
    BY <1>t, <1>s
  <2> QED
    BY <2>1 DEF Later
<1>1. ASSUME NEW n \in Jobs, StartRun(n) PROVE P
  <2>1. /\ job[n] = "waiting" /\ job' = [job EXCEPT ![n] = "running"] /\ report' = 0
    BY <1>1 DEF StartRun
  <2>2. ASSUME NEW k \in 0 .. MaxJobs, Known(k), k # 0 PROVE Known(k)'
    <3>1. k \in Jobs /\ job[k] \notin {"none", "waiting"} /\ k # n
      BY <1>t, <2>1, <2>2 DEF Known
    <3>2. ~(n < k)
      BY <2>1, <3>1 DEF JobsInOrder
    <3>3. n > k
      BY <1>t, <3>1, <3>2
    <3>4. Later(k)'
      BY <1>t, <2>1, <3>3 DEF Later
    <3>5. job'[k] = job[k]
      BY <1>t, <2>1, <3>1
    <3> QED
      BY <3>1, <3>4, <3>5 DEF Known
  <2>3. Known(report)' /\ (\A k \in 0 .. MaxJobs : k = 0 => Known(k)')
    BY <2>1 DEF Known
  <2> QED
    BY <1>s, <2>1, <2>2, <2>3
<1>2. ASSUME NEW n \in Jobs, SaveReport(n) PROVE P
  <2>1. job[n] = "running" /\ report = 0 /\ report' = n /\ UNCHANGED job
    BY <1>2 DEF SaveReport
  <2>2. ASSUME NEW k \in 0 .. MaxJobs, Known(k), k # 0 PROVE Known(k)'
    <3>1. job[k] \notin {"none", "waiting"} /\ Later(k)
      BY <2>1, <2>2 DEF Known
    <3> QED
      BY <2>1, <3>1 DEF Known, Later
  <2>3. Known(report)' /\ \A k \in 0 .. MaxJobs : k = 0 => Known(k)'
    BY <2>1 DEF Known
  <2> QED
    BY <2>1, <2>2, <2>3 DEF Later
<1>k. ASSUME UNCHANGED report, NEW n \in Jobs, NEW s, s # "none", s = "waiting" => job[n] = "none",
             job' = [job EXCEPT ![n] = s]
      PROVE  P
  <2>1. \A m \in Jobs : job[m] \notin {"none", "waiting"} => job'[m] \notin {"none", "waiting"}
    BY <1>t, <1>k
  <2>2. \A k : Later(k) => Later(k)'
    BY <1>k, <1>s
  <2>3. \A k \in 0 .. MaxJobs : k # 0 => k \in Jobs
    BY <1>t
  <2>4. \A k \in 0 .. MaxJobs : Known(k) => Known(k)'
    BY <1>k, <2>1, <2>2, <2>3 DEF Known
  <2>5. Known(report)'
    BY <1>k, <1>t, <2>4 DEF Known, Later
  <2> QED
    BY <2>2, <2>4, <2>5
<1>3. ASSUME NEW n \in Jobs, FinishRun(n) PROVE P
  <2>1. UNCHANGED report /\ \E s \in {"over", "failing"} : job' = [job EXCEPT ![n] = s]
    BY <1>3 DEF FinishRun
  <2> QED
    BY <1>k, <2>1
<1>4. ASSUME NEW n \in Jobs, HandleFailure(n) PROVE P
  <2>1. UNCHANGED report /\ job' = [job EXCEPT ![n] = "over"]
    BY <1>4 DEF HandleFailure, NoSecondRun
  <2> QED
    BY <1>k, <2>1
<1>5. CASE HandlePost
  <2>1. CASE UNCHANGED job
    BY <1>0, <1>5, <2>1 DEF HandlePost
  <2>2. CASE ~UNCHANGED job
    <3>1. PICK n \in Jobs : Unused(n) /\ job' = [job EXCEPT ![n] = "waiting"]
      BY <1>5, <2>2 DEF HandlePost
    <3>2. UNCHANGED report
      BY <1>5 DEF HandlePost
    <3> QED
      BY <1>k, <3>1, <3>2 DEF Unused
  <2> QED
    BY <2>1, <2>2
<1>6. CASE UNCHANGED server
  BY <1>0, <1>6 DEF server
<1>7. CASE \/ \E i \in 1 .. MaxInFlight : ReadList(i)
           \/ Responses \/ Tick \/ GiveUp \/ User \/ Detail \/ UNCHANGED vars
  <2>1. ASSUME NEW i, ReadList(i) PROVE UNCHANGED server
    BY <2>1 DEF ReadList
  <2>2. ASSUME Responses PROVE UNCHANGED server
    <3>1. ASSUME NEW i, ListArrives(i) \/ ListFails(i) PROVE UNCHANGED server
      BY <3>1 DEF ListArrives, ListFails
    <3>2. ASSUME PostArrives \/ PostFails PROVE UNCHANGED server
      BY <3>2 DEF PostArrives, PostFails
    <3> QED
      BY <2>2, <3>1, <3>2 DEF Responses
  <2>3. ASSUME Tick \/ GiveUp \/ User PROVE UNCHANGED server
    BY <2>3 DEF Tick, GiveUp, User, UploadFile, RetryConversion, RefreshButton, Destroy
  <2>4. ASSUME Detail \/ UNCHANGED vars PROVE UNCHANGED server
    BY <2>4 DEF Detail, CloseDetail, OpenDetail, ReadDetail, DetailArrives, DetailFails,
       NothingElse, vars
  <2> QED
    BY <1>6, <1>7, <2>1, <2>2, <2>3, <2>4
<1> QED
  BY <1>1, <1>2, <1>3, <1>4, <1>5, <1>7 DEF Next, Server
LEMMA WireKnown ==
  ASSUME Typed, NEW i \in DOMAIN wire, wire[i].saw # Unread
  PROVE  wire[i].saw \in Row /\ wire[i].saw.report \in 0 .. MaxJobs
<1>1. wire \in Seq(Requests)
  BY DEF Typed, TypeOK, Requests, Rows
<1>2. wire[i] \in Requests
  BY <1>1
<1>3. wire[i].saw \in Row
  BY <1>2 DEF Requests, Rows
<1> QED
  BY <1>3 DEF Row

(* Known and Later in the next state, of a report of this one.             *)
LaterNext(k) == \E n \in Jobs : n > k /\ job'[n] # "none"
KnownNext(k) == k # 0 => job'[k] \notin {"none", "waiting"} /\ (report' = k \/ LaterNext(k))

LEMMA KnownNextStep ==
  ASSUME Typed, NoSecondRun, JobsInOrder, Known(report), [Next]_vars
  PROVE  /\ KnownNext(report')
         /\ \A k \in 0 .. MaxJobs : /\ Known(k) => KnownNext(k)
                                    /\ Later(k) => LaterNext(k)
BY KnownStep DEF Known, KnownNext, Later, LaterNext

LEMMA ReportsStep ==
  ASSUME Typed, Typed', NoSecondRun, JobsInOrder, Reports, [Next]_vars
  PROVE  Reports'
<1> USE DEF Reports
<1>t. /\ wire \in Seq(Requests) /\ wire' \in Seq(Requests)
      /\ {report, verdict, expanded, cached} \subseteq 0 .. MaxJobs
      /\ \A d \in Row : d.report \in 0 .. MaxJobs
  BY DEF Typed, TypeOK, Requests, Rows, Row
<1>k. /\ KnownNext(report')
      /\ \A k \in 0 .. MaxJobs : Known(k) => KnownNext(k)
  BY KnownNextStep
<1>w. \A i \in DOMAIN wire : wire[i].saw # Unread => KnownNext(wire[i].saw.report)
  BY <1>k, WireKnown
<1>d. detail \in Row => KnownNext(detail.report)
  BY <1>k, <1>t
<1>s0. /\ KnownNext(verdict) /\ KnownNext(expanded) /\ KnownNext(cached)
       /\ KnownNext(report) /\ KnownNext(0)
  BY <1>k, <1>t DEF KnownNext
<1> DEFINE W == \A i \in DOMAIN wire' : wire'[i].saw # Unread => KnownNext(wire'[i].saw.report)
<1>q. ASSUME W, KnownNext(verdict'), KnownNext(expanded'), KnownNext(cached'),
             detail' \in Row => KnownNext(detail'.report)
      PROVE  Reports'
  BY <1>k, <1>q DEF Known, KnownNext, Later, LaterNext
<1>u. ASSUME UNCHANGED wire PROVE W
  BY <1>u, <1>w
<1>x. ASSUME NEW i \in DOMAIN wire, wire' = Dropped(i) PROVE W
  <2>1. \A k \in DOMAIN wire' : \E l \in DOMAIN wire : wire'[k] = wire[l]
    BY <1>t, <1>x, DroppedOK
  <2> QED
    BY <1>w, <2>1
<1>s. ASSUME NEW m \in BOOLEAN, Send(m) PROVE W
  <2>1. \A k \in DOMAIN wire' :
          wire'[k] = Request(m) \/ (k \in DOMAIN wire /\ wire'[k] = wire[k])
    BY <1>t, <1>s, AppendOK
  <2>2. Request(m).saw = Unread
    BY DEF Request
  <2> QED
    BY <1>w, <2>1, <2>2
<1>o. ASSUME W, UNCHANGED <<verdict, expanded, cached, detail>> PROVE Reports'
  BY <1>q, <1>s0, <1>d, <1>o
<1> HIDE DEF W
<1>1. ASSUME NEW n \in Jobs, StartRun(n) \/ SaveReport(n) \/ FinishRun(n) \/ HandleFailure(n)
      PROVE  Reports'
  BY <1>1, <1>u, <1>o
     DEF StartRun, SaveReport, FinishRun, HandleFailure, NoClientStep, screen, panel
<1>2. CASE HandlePost \/ PostFails \/ UploadFile \/ RetryConversion \/ GiveUp \/ Destroy
  BY <1>2, <1>u, <1>o
     DEF HandlePost, PostFails, UploadFile, RetryConversion, GiveUp, Destroy, screen, panel
<1>3. ASSUME NEW i, ReadList(i) PROVE Reports'
  <2>1. /\ UNCHANGED <<verdict, expanded, cached, detail>>
        /\ UNCHANGED report
    BY <1>3 DEF ReadList, screen, panel, server
  <2>2. \A k \in DOMAIN wire' :
          /\ k \in DOMAIN wire
          /\ wire'[k].saw = wire[k].saw \/ wire'[k].saw = [status |-> status, report |-> report]
    BY <1>3, ReadOK DEF Typed
  <2>3. [status |-> status, report |-> report].report = report
    OBVIOUS
  <2>4. W
    BY <1>w, <1>s0, <2>2, <2>3 DEF W
  <2> QED
    BY <1>o, <2>1, <2>4
<1>4. ASSUME NEW i, ListArrives(i) PROVE Reports'
  <2>1. /\ i \in DOMAIN wire /\ wire[i].saw # Unread /\ wire' = Dropped(i)
        /\ verdict' = wire[i].saw.report
    BY <1>4 DEF ListArrives
  <2>2. UNCHANGED <<expanded, cached, detail>>
    BY <1>4 DEF ListArrives, panel
  <2>3. KnownNext(verdict')
    BY <1>w, <2>1
  <2> QED
    BY <1>s0, <1>q, <1>d, <1>x, <2>1, <2>2, <2>3
<1>5. ASSUME NEW i, ListFails(i) PROVE Reports'
  <2>1. i \in DOMAIN wire /\ wire' = Dropped(i) /\ UNCHANGED <<verdict, expanded, cached, detail>>
    BY <1>5 DEF ListFails, panel
  <2> QED
    BY <1>x, <1>o, <2>1
<1>6. CASE Tick \/ PostArrives \/ RefreshButton
  <2>1. /\ \E m \in BOOLEAN : Send(m)
        /\ UNCHANGED <<verdict, expanded, cached, detail>>
    BY <1>6 DEF Tick, PostArrives, RefreshButton, Refresh, screen, panel
  <2> QED
    BY <1>s, <1>o, <2>1
<1>7. CASE Detail
  <2>0. UNCHANGED <<wire, verdict>> /\ UNCHANGED report
    BY <1>7 DEF Detail, CloseDetail, OpenDetail, ReadDetail, DetailArrives, DetailFails, NothingElse,
       screen, server
  <2>w. W
    BY <1>u, <2>0
  <2>1. CASE CloseDetail
    BY <1>s0, <1>d, <1>q, <2>0, <2>w, <2>1 DEF CloseDetail
  <2>2. CASE OpenDetail
    <3>1. expanded' = verdict /\ detail' \in {detail, Unread} /\ UNCHANGED cached
      BY <2>2 DEF OpenDetail
    <3> QED
      BY <1>d, <1>s0, <1>q, <2>0, <2>w, <3>1, UnreadIsNoRow
  <2>3. CASE ReadDetail
    <3>1. detail'.report = report /\ UNCHANGED <<expanded, cached>>
      BY <2>3 DEF ReadDetail
    <3> QED
      BY <1>s0, <1>q, <2>0, <2>w, <3>1
  <2>4. CASE DetailArrives
    <3>1. /\ detail \in Row /\ detail' = NoRequest /\ UNCHANGED expanded
          /\ cached' \in {detail.report, cached}
      BY <2>4 DEF DetailArrives
    <3> QED
      BY <1>d, <1>s0, <1>q, <2>0, <2>w, <3>1, UnreadIsNoRow
  <2>5. CASE DetailFails
    <3>1. detail' = NoRequest /\ UNCHANGED <<expanded, cached>>
      BY <2>5 DEF DetailFails
    <3> QED
      BY <1>s0, <1>q, <2>0, <2>w, <3>1, UnreadIsNoRow
  <2> QED
    BY <1>7, <2>1, <2>2, <2>3, <2>4, <2>5 DEF Detail
<1>8. CASE UNCHANGED vars
  BY <1>8, <1>u, <1>o DEF vars, screen, panel
<1> QED
  BY <1>1, <1>2, <1>3, <1>4, <1>5, <1>6, <1>7, <1>8 DEF Next, Server, Responses, User

LEMMA PanelStep ==
  ASSUME Typed, NoSecondRun, JobsInOrder, Reports, Panel, [Next]_vars
  PROVE  Panel'
<1>t. expanded \in 0 .. MaxJobs
  BY DEF Typed, TypeOK
<1>l. Later(expanded) /\ UNCHANGED expanded => Later(expanded)'
  BY <1>t, KnownNextStep DEF Reports, Later, LaterNext
<1>0. ASSUME UNCHANGED panel PROVE Panel'
  BY <1>0, <1>l DEF Panel, panel
<1>1. CASE Server
  <2>1. ASSUME NEW i, ReadList(i) PROVE UNCHANGED panel
    BY <2>1 DEF ReadList
  <2>2. ASSUME HandlePost \/ \E n \in Jobs :
                 StartRun(n) \/ SaveReport(n) \/ FinishRun(n) \/ HandleFailure(n)
        PROVE  UNCHANGED panel
    BY <2>2 DEF HandlePost, StartRun, SaveReport, FinishRun, HandleFailure, NoClientStep
  <2> QED
    BY <1>0, <1>1, <2>1, <2>2 DEF Server
<1>2. CASE Responses
  <2>1. ASSUME NEW i, ListArrives(i) \/ ListFails(i) PROVE UNCHANGED panel
    BY <2>1 DEF ListArrives, ListFails
  <2>2. ASSUME PostArrives \/ PostFails PROVE UNCHANGED panel
    BY <2>2 DEF PostArrives, PostFails
  <2> QED
    BY <1>0, <1>2, <2>1, <2>2 DEF Responses
<1>3. CASE Tick \/ GiveUp \/ User
  BY <1>0, <1>3 DEF Tick, GiveUp, User, UploadFile, RetryConversion, RefreshButton, Destroy
<1>4. CASE UNCHANGED vars
  BY <1>0, <1>4 DEF vars
<1> USE DEF Panel
<1>5. CASE CloseDetail
  BY <1>5 DEF CloseDetail
<1>6. CASE OpenDetail
  BY <1>6, UnreadIsNoRow DEF OpenDetail
<1>7. CASE ReadDetail
  <2>1. detail'.report = report /\ detail' # NoRequest /\ UNCHANGED expanded
    <3>1. detail' \in Row /\ detail'.report = report /\ UNCHANGED expanded
      BY <1>7 DEF ReadDetail, Typed, TypeOK, Row
    <3> QED
      BY <3>1, UnreadIsNoRow
  <2>2. expanded # 0 /\ report = 0 => Later(expanded)
    BY DEF Reports, Known
  <2> QED
    BY <1>l, <2>1, <2>2
<1>8. CASE DetailArrives
  <2>1. /\ detail \in Row /\ detail' = NoRequest /\ UNCHANGED expanded
        /\ cached' = 0 => detail.report = 0
    BY <1>8 DEF DetailArrives
  <2> QED
    BY <1>l, <2>1, UnreadIsNoRow
<1>9. CASE DetailFails
  BY <1>9, UnreadIsNoRow DEF DetailFails
<1> QED
  BY <1>1, <1>2, <1>3, <1>4, <1>5, <1>6, <1>7, <1>8, <1>9 DEF Next, Detail

LEMMA PanelInit == Init => JobsInOrder /\ Reports /\ Panel
<1> SUFFICES ASSUME Init PROVE JobsInOrder /\ Reports /\ Panel
  OBVIOUS
<1>1. JobsInOrder
  BY DEF Init, JobsInOrder
<1>2. wire = <<Request(TRUE)>> /\ Request(TRUE).saw = Unread /\ detail = NoRequest
  BY DEF Init, Request
<1>3. \A i \in DOMAIN wire : wire[i].saw = Unread
  <2>1. \A x : DOMAIN <<x>> = {1} /\ <<x>>[1] = x
    OBVIOUS
  <2> QED
    BY <1>2, <2>1
<1>4. Reports /\ Panel
  BY <1>2, <1>3, UnreadIsNoRow DEF Init, Reports, Panel, Known
<1> QED
  BY <1>1, <1>4

(* As long as no job is run twice, an open panel on which nothing is under *)
(* way shows a report or says why it does not, unless a later job has      *)
(* started: whatever requests fail, and in whatever order the responses to *)
(* any number of list requests arrive.                                     *)
THEOREM PanelHasAnswer == Spec /\ []NoSecondRun => []PanelAnswers
<1> DEFINE Inv == JobsInOrder /\ Reports /\ Panel
<1>1. Init => Inv
  BY PanelInit
<1>2. Typed /\ Typed' /\ NoSecondRun /\ Inv /\ [Next]_vars => Inv'
  BY JobsInOrderStep, ReportsStep, PanelStep
<1>3. Typed /\ Inv => PanelAnswers
  <2> SUFFICES ASSUME Typed, Inv, expanded # 0, detail = NoRequest
               PROVE  \/ cached \in 1 .. expanded
                      \/ cached = 0 /\ reportError
                      \/ \E n \in Jobs : n > expanded /\ job[n] # "none"
    BY DEF PanelAnswers
  <2>1. cached \in 0 .. MaxJobs /\ expanded \in 0 .. MaxJobs /\ MaxJobs \in Nat
    BY JobsAssumption DEF Typed, TypeOK
  <2>2. CASE cached = 0
    BY <2>2 DEF Panel, Later
  <2>3. CASE cached # 0 /\ cached <= expanded
    BY <2>1, <2>3
  <2>4. CASE cached > expanded
    <3>1. cached # 0 /\ cached \in Jobs
      BY <2>1, <2>4 DEF Jobs
    <3>2. job[cached] # "none"
      BY <3>1 DEF Reports, Known
    <3> QED
      BY <2>4, <3>1, <3>2
  <2> QED
    BY <2>1, <2>2, <2>3, <2>4
<1> QED
  BY <1>1, <1>2, <1>3, TypedAlways, PTL DEF Spec

(* With one attempt, no job runs twice.                                    *)
OneRun ==
  \A n \in Jobs : /\ job[n] = "waiting" => left[n] = 1
                  /\ job[n] \in {"running", "failing"} => left[n] = 0

LEMMA OneRunStep ==
  ASSUME MaxAttempts = 1, Typed, OneRun, [Next]_vars
  PROVE  OneRun'
<1> USE DEF OneRun, Typed, TypeOK
<1>0. ASSUME UNCHANGED server PROVE OneRun'
  BY <1>0 DEF server
<1>1. ASSUME NEW n \in Jobs, StartRun(n) \/ SaveReport(n) \/ FinishRun(n) \/ HandleFailure(n)
      PROVE  OneRun'
  BY <1>1 DEF StartRun, SaveReport, FinishRun, HandleFailure
<1>2. CASE HandlePost
  BY <1>2 DEF HandlePost
<1>3. CASE \E i \in 1 .. MaxInFlight : ReadList(i)
  BY <1>0, <1>3 DEF ReadList
<1>4. CASE Responses
  <2>1. ASSUME NEW i, ListArrives(i) \/ ListFails(i) PROVE UNCHANGED server
    BY <2>1 DEF ListArrives, ListFails
  <2>2. ASSUME PostArrives \/ PostFails PROVE UNCHANGED server
    BY <2>2 DEF PostArrives, PostFails
  <2> QED
    BY <1>0, <1>4, <2>1, <2>2 DEF Responses
<1>5. CASE Tick \/ GiveUp \/ User
  BY <1>0, <1>5 DEF Tick, GiveUp, User, UploadFile, RetryConversion, RefreshButton, Destroy
<1>6. CASE Detail \/ UNCHANGED vars
  BY <1>0, <1>6 DEF Detail, CloseDetail, OpenDetail, ReadDetail, DetailArrives, DetailFails,
     NothingElse, vars
<1> QED
  BY <1>1, <1>2, <1>3, <1>4, <1>5, <1>6 DEF Next, Server

THEOREM PanelHasAnswerSingleAttempt ==
  ASSUME MaxAttempts = 1
  PROVE  Spec => []PanelAnswers
<1>1. Init => OneRun
  BY DEF Init, OneRun
<1>2. Typed /\ OneRun /\ [Next]_vars => OneRun'
  BY OneRunStep
<1>3. OneRun => NoSecondRun
  BY DEF OneRun, NoSecondRun
<1>4. Spec => []NoSecondRun
  BY <1>1, <1>2, <1>3, TypedAlways, PTL DEF Spec
<1> QED
  BY <1>4, PanelHasAnswer, PTL
=============================================================================
