------------------------- MODULE FileRequestsProofs -------------------------
(***************************************************************************)
(* Proofs about FileRequests for any files, requests, goroutines, attempts *)
(* and failures of the API's side.  That no file is stranded needs nothing *)
(* more.  That a file has one job at a time, and what follows from it,     *)
(* assumes one confirm for each file, and that no attempt is put back to   *)
(* be tried again, as with one attempt for each job: where one is, the     *)
(* code lets a retry in between the failure and handleFailure's Requeue.   *)
(***************************************************************************)
EXTENDS FileRequests, TLAPS

RowStatus == FileStatus \cup {"absent", "pending", "deleted"}
Places == InHandler \cup {"find", "rejected", "error", "done", "unavailable", "abandoned"}

(* The types, and that no session of a worker ends here.                   *)
RequestsTypeOK ==
  /\ jobStatus \in [Jobs -> JobStatus \cup {"none"}]
  /\ attempts \in [Jobs -> Nat]
  /\ fileStatus \in [Files -> RowStatus]
  /\ main \in [Bodies \X BOOLEAN -> Nat]
  /\ retry \in [Bodies -> Nat]
  /\ pc \in [Workers -> Steps]
  /\ job \in [Workers -> Bodies]
  /\ redelivered \in [Workers -> BOOLEAN]
  /\ attempt \in [Workers -> Nat]
  /\ unacked \in [Workers -> BOOLEAN]
  /\ mode = [p \in Procs |-> "consuming"]
  /\ enq \in [Jobs -> EnqSteps]
  /\ spent \in [Faults -> Nat]
  /\ at \in [Jobs -> Places]
  /\ object \in [Files -> {"none", "whole", "short", "removed"}]
  /\ history \in [Files -> Seq(Jobs)]
  /\ retryOf \in [Jobs -> Bodies]

-----------------------------------------------------------------------------
(* What the main queue holds after a copy was put in or taken out.         *)
MainAfter(b, r, n) ==
  /\ main' \in [Bodies \X BOOLEAN -> Nat]
  /\ main'[<<b, r>>] = n
  /\ \A c \in Bodies, s \in BOOLEAN :
       c # b \/ s # r => main'[<<c, s>>] = main[<<c, s>>]

LEMMA MainChanges ==
  ASSUME main \in [Bodies \X BOOLEAN -> Nat], NEW b \in Bodies, NEW r \in BOOLEAN,
         NEW n \in Nat, main' = [main EXCEPT ![<<b, r>>] = n]
  PROVE  MainAfter(b, r, n)
<1> DEFINE D == Bodies \X BOOLEAN
           m == <<b, r>>
<1>1. m \in D /\ main \in [D -> Nat] /\ main' = [main EXCEPT ![m] = n]
  OBVIOUS
<1>2. \A c \in Bodies, s \in BOOLEAN : <<c, s>> \in D /\ (c # b \/ s # r => <<c, s>> # m)
  OBVIOUS
<1> HIDE DEF D, m
<1>3. /\ main' \in [D -> Nat]
      /\ main'[m] = n
      /\ \A k \in D : k # m => main'[k] = main[k]
  BY <1>1
<1> QED
  BY <1>2, <1>3 DEF D, m, MainAfter

LEMMA MainPut ==
  ASSUME main \in [Bodies \X BOOLEAN -> Nat], NEW b \in Bodies,
         main' = [main EXCEPT ![<<b, FALSE>>] = @ + 1]
  PROVE  MainAfter(b, FALSE, main[<<b, FALSE>>] + 1)
<1>1. <<b, FALSE>> \in Bodies \X BOOLEAN
  OBVIOUS
<1>2. main[<<b, FALSE>>] + 1 \in Nat
  BY <1>1
<1> QED
  BY <1>2, MainChanges

LEMMA MainTake ==
  ASSUME main \in [Bodies \X BOOLEAN -> Nat], NEW b \in Bodies, NEW r \in BOOLEAN,
         main[<<b, r>>] > 0, main' = [main EXCEPT ![<<b, r>>] = @ - 1]
  PROVE  MainAfter(b, r, main[<<b, r>>] - 1)
<1>1. main[<<b, r>>] - 1 \in Nat
  OBVIOUS
<1> QED
  BY <1>1, MainChanges

LEMMA SpendTypeOK ==
  ASSUME RequestsTypeOK, NEW k \in Faults, Spend(k)
  PROVE  spent' \in [Faults -> Nat]
BY DEF RequestsTypeOK, Spend, MayFail

LEMMA BillTypeOK ==
  ASSUME RequestsTypeOK, NEW r, NEW a, Bill(r, a)
  PROVE  spent' \in [Faults -> Nat]
BY DEF RequestsTypeOK, Bill, FaultOf, Faults

LEMMA ChargeTypeOK ==
  ASSUME RequestsTypeOK, NEW w, NEW a, Charge(w, a)
  PROVE  spent' \in [Faults -> Nat]
BY DEF RequestsTypeOK, Charge, FaultOf, Faults

-----------------------------------------------------------------------------
(* Types of the handlers.                                                  *)
LEMMA FileCallTypeOK ==
  ASSUME RequestsTypeOK, NEW r \in Jobs, NEW from, NEW status \in RowStatus,
         NEW ok \in Places, NEW fail \in Places, FileCall(r, from, status, ok, fail)
  PROVE  RequestsTypeOK'
<1>1. PICK a : /\ fileStatus' = IF a = "error" THEN fileStatus
                                ELSE [fileStatus EXCEPT ![FileOf[r]] = status]
               /\ at' = [at EXCEPT ![r] = IF a = "ok" THEN ok ELSE fail]
               /\ Bill(r, a)
  BY DEF FileCall
<1>2. spent' \in [Faults -> Nat]
  BY <1>1, BillTypeOK
<1> QED
  BY <1>1, <1>2 DEF RequestsTypeOK, FileCall, queues, locals

LEMMA RowTypeOK ==
  ASSUME RequestsTypeOK, NEW r \in Jobs
  PROVE  FileRow(r) \in RowStatus
BY TablesAssumption DEF RequestsTypeOK, FileRow

LEMMA LatestTypeOK ==
  ASSUME RequestsTypeOK, NEW f \in Files
  PROVE  LatestJob(f) \in Bodies
<1>1. history[f] \in Seq(Jobs)
  BY DEF RequestsTypeOK
<1> QED
  BY <1>1 DEF LatestJob, Bodies

LEMMA HandlerTypeOK ==
  ASSUME RequestsTypeOK, NEW r \in Jobs,
         Find(r) \/ Stat(r) \/ Remove(r) \/ Delete(r) \/ MarkReady(r) \/ MarkRetrying(r)
  PROVE  RequestsTypeOK'
<1>0. FileRow(r) \in RowStatus
  BY RowTypeOK
<1> USE DEF RowStatus, FileStatus, Places, InHandler
<1>1. CASE Find(r)
  BY <1>0, <1>1, FileCallTypeOK DEF Find
<1>2. CASE Stat(r)
  <2>1. FileCall(r, "stat", FileRow(r),
                 CASE object[FileOf[r]] \in {"none", "removed"} -> "rejected"
                   [] object[FileOf[r]] = "short" -> "remove"
                   [] object[FileOf[r]] = "whole" -> "markReady", "rejected")
    BY <1>2 DEF Stat
  <2>2. object[FileOf[r]] \in {"none", "whole", "short", "removed"}
    BY TablesAssumption DEF RequestsTypeOK
  <2>3. \E ok \in Places : FileCall(r, "stat", FileRow(r), ok, "rejected")
    BY <2>1, <2>2, Zenon
  <2> QED
    BY <1>0, <2>3, FileCallTypeOK
<1>3. CASE Remove(r)
  BY <1>3, BillTypeOK DEF Remove, RequestsTypeOK, tables, queues, locals
<1>4. CASE Delete(r)
  BY <1>4, FileCallTypeOK DEF Delete
<1>5. CASE MarkReady(r)
  BY <1>0, <1>5, FileCallTypeOK DEF MarkReady
<1>6. CASE MarkRetrying(r)
  BY <1>0, <1>6, FileCallTypeOK DEF MarkRetrying
<1> QED
  BY <1>1, <1>2, <1>3, <1>4, <1>5, <1>6

LEMMA RecordedTypeOK ==
  ASSUME RequestsTypeOK, NEW r \in Jobs, Recorded(r)
  PROVE  history' \in [Files -> Seq(Jobs)]
<1>1. FileOf[r] \in Files /\ history[FileOf[r]] \in Seq(Jobs)
  BY TablesAssumption DEF RequestsTypeOK
<1>2. Append(history[FileOf[r]], r) \in Seq(Jobs)
  BY <1>1
<1> QED
  BY <1>1, <1>2 DEF RequestsTypeOK, Recorded

LEMMA EnqueueTypeOK ==
  ASSUME RequestsTypeOK, NEW r \in Jobs,
         \/ LatestForFile(r) \/ Create(r) \/ CreateFails(r) \/ Publish(r)
         \/ MarkRefused(r) \/ Respond(r) \/ Disconnect(r) \/ Abandon(r)
  PROVE  RequestsTypeOK'
<1> USE DEF Places, InHandler, EnqSteps, JobStatus
<1>1. CASE LatestForFile(r)
  <2>1. LatestJob(FileOf[r]) \in Bodies
    BY LatestTypeOK, TablesAssumption
  <2> QED
    BY <1>1, <2>1, BillTypeOK DEF LatestForFile, RequestsTypeOK, tables, queues, locals
<1>2. CASE Create(r)
  BY <1>2, RecordedTypeOK DEF Create, CreateJob, RequestsTypeOK, queues, locals
<1>3. CASE CreateFails(r)
  BY <1>3, RecordedTypeOK, BillTypeOK DEF CreateFails, RequestsTypeOK, queues, locals
<1>4. CASE Publish(r) /\ Enqueue(r)
  <2>1. main' \in [Bodies \X BOOLEAN -> Nat]
    BY <1>4, MainPut DEF Enqueue, RequestsTypeOK, Bodies, MainAfter
  <2> QED
    BY <1>4, <2>1 DEF Publish, Enqueue, RequestsTypeOK, tables, locals, requests
<1>5. CASE Publish(r) /\ EnqueueRefused(r)
  BY <1>5, SpendTypeOK
     DEF Publish, EnqueueRefused, RequestsTypeOK, tables, queues, locals, requests, Faults
<1>6. CASE MarkRefused(r) /\ r \in gone
  BY <1>6 DEF MarkRefused, RequestsTypeOK, tables, queues, locals, requests
<1>7. CASE MarkRefused(r) /\ MarkEnqueueFailed(r)
  <2>1. /\ jobStatus' \in [Jobs -> JobStatus \cup {"none"}]
        /\ fileStatus' \in [Files -> RowStatus]
    <3>1. CASE UNCHANGED fileStatus
      BY <1>7, <3>1 DEF RequestsTypeOK, MarkEnqueueFailed
    <3>2. CASE /\ fileStatus' = [fileStatus EXCEPT ![FileOf[r]] = "failed"]
               /\ UNCHANGED jobStatus
      BY <3>2, TablesAssumption DEF RequestsTypeOK, RowStatus, FileStatus
    <3> QED
      BY <1>7, <3>1, <3>2 DEF MarkEnqueueFailed
  <2>2. spent' \in [Faults -> Nat]
    BY <1>7, SpendTypeOK DEF RequestsTypeOK, MarkEnqueueFailed, Faults
  <2> QED
    BY <1>7, <2>1, <2>2
       DEF MarkRefused, MarkEnqueueFailed, RequestsTypeOK, queues, locals, requests
<1>8. CASE Respond(r)
  BY <1>8 DEF Respond, RequestsTypeOK, vars, tables, queues, locals
<1>9. CASE Disconnect(r)
  BY <1>9 DEF Disconnect, RequestsTypeOK, vars, tables, queues, locals
<1>10. CASE Abandon(r)
  BY <1>10, SpendTypeOK DEF Abandon, RequestsTypeOK, tables, queues, locals, Faults
<1> QED
  BY <1>1, <1>2, <1>3, <1>4, <1>5, <1>6, <1>7, <1>8, <1>9, <1>10 DEF Publish, MarkRefused

(* Types of the broker and of the goroutines.                              *)
LEMMA BrokerTypeOK ==
  ASSUME RequestsTypeOK, Broker, UNCHANGED requests
  PROVE  RequestsTypeOK'
<1>1. ASSUME NEW b \in Bodies, RetryExpires(b) PROVE RequestsTypeOK'
  <2>1. main' \in [Bodies \X BOOLEAN -> Nat]
    BY <1>1, MainPut DEF RetryExpires, RequestsTypeOK, MainAfter
  <2>2. retry' \in [Bodies -> Nat]
    BY <1>1 DEF RetryExpires, RequestsTypeOK
  <2> QED
    BY <1>1, <2>1, <2>2 DEF RetryExpires, RequestsTypeOK, tables, locals, requests
<1>2. ASSUME NEW w \in Workers, NEW b \in Bodies, NEW r \in BOOLEAN, Deliver(w, b, r)
      PROVE  RequestsTypeOK'
  <2>1. main' \in [Bodies \X BOOLEAN -> Nat]
    BY <1>2, MainTake DEF Deliver, RequestsTypeOK, MainAfter
  <2> QED
    BY <1>2, <2>1 DEF Deliver, RequestsTypeOK, tables, requests, Steps
<1> QED
  BY <1>1, <1>2 DEF Broker

LEMMA WriteTypeOK ==
  ASSUME RequestsTypeOK, UNCHANGED requests, NEW w \in Workers,
         NEW from, NEW newJobs \in [Jobs -> JobStatus \cup {"none"}],
         NEW newFiles \in [Files -> RowStatus],
         NEW next \in Steps, NEW onError \in Steps,
         Write(w, from, newJobs, newFiles, next, onError)
  PROVE  RequestsTypeOK'
<1>1. PICK answer :
        /\ IF answer = "error" THEN UNCHANGED <<jobStatus, fileStatus>>
           ELSE jobStatus' = newJobs /\ fileStatus' = newFiles
        /\ Goto(w, IF answer = "ok" THEN next ELSE onError)
        /\ Charge(w, answer)
  BY DEF Write
<1>2. spent' \in [Faults -> Nat]
  BY <1>1, ChargeTypeOK
<1> QED
  BY <1>1, <1>2 DEF RequestsTypeOK, Write, Goto, queues, requests

LEMMA RowsTypeOK ==
  ASSUME RequestsTypeOK, NEW w \in Workers, NEW s \in JobStatus, NEW t \in RowStatus
  PROVE  /\ JobIs(w, s) \in [Jobs -> JobStatus \cup {"none"}]
         /\ FileIs(w, t) \in [Files -> RowStatus]
         /\ jobStatus \in [Jobs -> JobStatus \cup {"none"}]
         /\ fileStatus \in [Files -> RowStatus]
BY DEF RequestsTypeOK, JobIs, FileIs

LEMMA ClaimTypeOK ==
  ASSUME RequestsTypeOK, UNCHANGED requests, NEW w \in Workers, Claim(w)
  PROVE  RequestsTypeOK'
<1>1. PICK answer :
        /\ IF Claimable(job[w], redelivered[w]) /\ answer # "error"
           THEN /\ jobStatus' = [jobStatus EXCEPT ![job[w]] = "converting"]
                /\ attempts' = [attempts EXCEPT ![job[w]] = @ + 1]
           ELSE UNCHANGED <<jobStatus, attempts>>
        /\ IF Claimable(job[w], redelivered[w]) /\ answer = "ok"
           THEN attempt' = [attempt EXCEPT ![w] = attempts[job[w]] + 1]
           ELSE UNCHANGED attempt
        /\ Goto(w, IF answer # "ok" THEN "publishRetry"
                   ELSE IF Claimable(job[w], redelivered[w]) THEN "markFile" ELSE "ack")
        /\ Charge(w, answer)
  BY DEF Claim
<1>2. spent' \in [Faults -> Nat]
  BY <1>1, ChargeTypeOK
<1>3. job[w] \in Jobs /\ {"publishRetry", "markFile", "ack"} \subseteq Steps
  BY DEF Claim, Steps, Converting, Settling
<1>4. attempts[job[w]] + 1 \in Nat
  BY <1>3 DEF RequestsTypeOK
<1>5. /\ jobStatus' \in [Jobs -> JobStatus \cup {"none"}]
      /\ attempts' \in [Jobs -> Nat]
  <2>1. CASE UNCHANGED <<jobStatus, attempts>>
    BY <2>1 DEF RequestsTypeOK
  <2>2. CASE /\ jobStatus' = [jobStatus EXCEPT ![job[w]] = "converting"]
             /\ attempts' = [attempts EXCEPT ![job[w]] = @ + 1]
    BY <1>3, <1>4, <2>2 DEF RequestsTypeOK, JobStatus
  <2> QED
    BY <1>1, <2>1, <2>2
<1>6. attempt' \in [Workers -> Nat] /\ pc' \in [Workers -> Steps]
  BY <1>1, <1>3, <1>4 DEF RequestsTypeOK, Goto
<1> QED
  BY <1>2, <1>5, <1>6 DEF RequestsTypeOK, Claim, queues, requests

LEMMA GoroutineTypeOK ==
  ASSUME RequestsTypeOK, UNCHANGED requests, NEW w \in Workers, Goroutine(w)
  PROVE  RequestsTypeOK'
<1> USE DEF JobStatus, FileStatus, RowStatus
<1>s. /\ {Idle, "markFile", "markJob", "convert", "fileConverted", "jobConverted",
          "fileFailed", "jobFailed", "requeue", "publishRetry", "publishDead", "ack"}
           \subseteq Steps
      /\ AfterFailure(w) \in Steps
      /\ NoJob \in Bodies
  BY DEF Steps, Converting, Settling, AfterFailure, Bodies
<1>1. CASE Undecodable(w)
  BY <1>1, <1>s DEF RequestsTypeOK, Undecodable, Goto, tables, queues, requests
<1>2. CASE Claim(w)
  BY <1>2, ClaimTypeOK
<1>3. CASE MarkFileConverting(w) \/ MarkFileConverted(w) \/ MarkFileFailed(w)
  BY <1>3, <1>s, WriteTypeOK, RowsTypeOK
     DEF MarkFileConverting, MarkFileConverted, MarkFileFailed
<1>4. CASE MarkJobConverting(w) \/ MarkJobConverted(w) \/ MarkJobFailed(w)
  BY <1>4, <1>s, WriteTypeOK, RowsTypeOK
     DEF MarkJobConverting, MarkJobConverted, MarkJobFailed
<1>5. CASE Produce(w)
  BY <1>5, <1>s DEF RequestsTypeOK, Produce, Goto, tables, queues, requests
<1>6. CASE Requeue(w)
  BY <1>6, <1>s, WriteTypeOK, RowsTypeOK DEF Requeue
<1>7. CASE PublishRetry(w)
  BY <1>7, <1>s DEF RequestsTypeOK, PublishRetry, Sent, Goto, tables, requests
<1>8. CASE PublishDead(w)
  BY <1>8, <1>s DEF RequestsTypeOK, PublishDead, Goto, tables, requests
<1>9. CASE Ack(w)
  BY <1>9, <1>s DEF RequestsTypeOK, Ack, Forget, tables, queues, requests
<1> QED
  BY <1>1, <1>2, <1>3, <1>4, <1>5, <1>6, <1>7, <1>8, <1>9 DEF Goroutine

LEMMA RequestsTypeInit == RequestsInit => RequestsTypeOK
<1> SUFFICES ASSUME RequestsInit PROVE RequestsTypeOK
  OBVIOUS
<1>1. <<>> \in Seq(Jobs)
  OBVIOUS
<1>2. /\ history \in [Files -> Seq(Jobs)]
      /\ fileStatus \in [Files -> RowStatus]
      /\ at \in [Jobs -> Places]
      /\ object \in [Files -> {"none", "whole", "short", "removed"}]
      /\ retryOf \in [Jobs -> Bodies]
  BY <1>1 DEF RequestsInit, RowStatus, Places, Bodies
<1>3. EmptyQueue
  BY DEF RequestsInit
<1>4. /\ jobStatus \in [Jobs -> JobStatus \cup {"none"}]
      /\ attempts \in [Jobs -> Nat]
      /\ main \in [Bodies \X BOOLEAN -> Nat]
      /\ retry \in [Bodies -> Nat]
      /\ enq \in [Jobs -> EnqSteps]
      /\ spent \in [Faults -> Nat]
  BY <1>3 DEF EmptyQueue, EnqSteps
<1>5. /\ pc \in [Workers -> Steps]
      /\ job \in [Workers -> Bodies]
      /\ redelivered \in [Workers -> BOOLEAN]
      /\ attempt \in [Workers -> Nat]
      /\ unacked \in [Workers -> BOOLEAN]
      /\ mode = [p \in Procs |-> "consuming"]
  BY <1>3 DEF EmptyQueue, Steps, Bodies, Idle
<1> QED
  BY <1>2, <1>4, <1>5 DEF RequestsTypeOK

LEMMA UploadTypeOK ==
  ASSUME RequestsTypeOK, NEW f \in Files, UploadURL(f) \/ Upload(f)
  PROVE  RequestsTypeOK'
<1>1. CASE UploadURL(f)
  BY <1>1 DEF UploadURL, RequestsTypeOK, RowStatus, queues, locals, requests
<1>2. CASE Upload(f)
  BY <1>2 DEF Upload, RequestsTypeOK, vars, tables, queues, locals
<1> QED
  BY <1>1, <1>2

LEMMA RequestsTypeStep ==
  ASSUME RequestsTypeOK, [RequestsNext]_allvars
  PROVE  RequestsTypeOK'
<1>1. CASE \E f \in Files : UploadURL(f) \/ Upload(f)
  BY <1>1, UploadTypeOK
<1>2. CASE \E r \in Jobs : Find(r) \/ Handle(r) \/ Disconnect(r) \/ Abandon(r)
  BY <1>2, HandlerTypeOK, EnqueueTypeOK DEF Handle
<1>3. CASE Broker /\ UNCHANGED requests
  BY <1>3, BrokerTypeOK
<1>4. CASE (\E w \in Workers : Goroutine(w)) /\ UNCHANGED requests
  BY <1>4, GoroutineTypeOK
<1>5. CASE UNCHANGED allvars
  BY <1>5 DEF RequestsTypeOK, allvars, requests, vars, tables, queues, locals
<1> QED
  BY <1>1, <1>2, <1>3, <1>4, <1>5 DEF RequestsNext

(* Type correctness: the file row has a status of its life before the      *)
(* queue or after, every request is at a call of its handler or answered,  *)
(* and no step here ends a session of a worker.                            *)
THEOREM RequestsTypeCorrect == RequestsSpec => []RequestsTypeOK
BY RequestsTypeInit, RequestsTypeStep, PTL DEF RequestsSpec
-----------------------------------------------------------------------------
(* One message for each job: it is in one queue, or carried by one         *)
(* goroutine that has not published or dropped it yet.                     *)
Carries(w, r) == job[w] = r /\ pc[w] \notin {Idle, "ack"}
InQueue(r) == main[<<r, FALSE>>] > 0 \/ retry[r] > 0

Fresh ==
  /\ \A b \in Bodies : main[<<b, TRUE>>] = 0
  /\ \A w \in Workers : redelivered[w] = FALSE /\ (pc[w] # Idle => unacked[w] = TRUE)

OneCopy == \A r \in Jobs : main[<<r, FALSE>>] + retry[r] <= 1

OneCarrier ==
  /\ \A r \in Jobs, w \in Workers : Carries(w, r) => ~InQueue(r)
  /\ \A r \in Jobs, v, w \in Workers : Carries(v, r) /\ Carries(w, r) => v = w
  /\ \A r \in Jobs : enq[r] # "enqueued" =>
       ~InQueue(r) /\ \A w \in Workers : ~Carries(w, r)

OneMessage == Fresh /\ OneCopy /\ OneCarrier

messages == <<main, retry, pc, job, redelivered, unacked, enq>>

(* A request before its call of EnqueueConversion.                         *)
Begun == {"find", "stat", "remove", "delete", "markReady", "markRetrying", "latest"}
Unpublished == \A r \in Jobs : at[r] \in Begun => enq[r] = "none"

(* A goroutine converts what it has claimed.                               *)
Claimed ==
  \A w \in Workers : pc[w] \in Converting \cup {"requeue"} =>
    job[w] \in Jobs /\ attempt[w] >= 1

Orderly == RequestsTypeOK /\ OneMessage /\ Unpublished /\ Claimed

LEMMA QueueTypes ==
  ASSUME RequestsTypeOK, NEW r \in Jobs
  PROVE  main[<<r, FALSE>>] \in Nat /\ main[<<r, TRUE>>] \in Nat /\ retry[r] \in Nat
<1>1. <<r, FALSE>> \in Bodies \X BOOLEAN /\ <<r, TRUE>> \in Bodies \X BOOLEAN /\ r \in Bodies
  BY DEF Bodies
<1> QED
  BY <1>1 DEF RequestsTypeOK

LEMMA MessagesSame ==
  ASSUME OneMessage, UNCHANGED messages
  PROVE  OneMessage'
<1> USE DEF OneMessage, messages
<1>1. Fresh'
  BY DEF Fresh
<1>2. OneCopy'
  BY DEF OneCopy
<1>3. \A r \in Jobs : (InQueue(r)' <=> InQueue(r))
                      /\ \A w \in Workers : Carries(w, r)' <=> Carries(w, r)
  BY DEF Carries, InQueue
<1>4. OneCarrier'
  BY <1>3 DEF OneCarrier
<1> QED
  BY <1>1, <1>2, <1>4

(* The handlers leave the messages alone until they publish.               *)
LEMMA HandlersKeepMessages ==
  ASSUME NEW r,
         \/ Find(r) \/ Stat(r) \/ Remove(r) \/ Delete(r) \/ MarkReady(r) \/ MarkRetrying(r)
         \/ LatestForFile(r) \/ CreateFails(r) \/ Respond(r) \/ Disconnect(r) \/ Abandon(r)
  PROVE  UNCHANGED messages
BY DEF Find, Stat, Remove, Delete, MarkReady, MarkRetrying, FileCall, LatestForFile,
   CreateFails, Respond, Disconnect, Abandon, messages, vars, queues, locals

(* A goroutine that neither publishes a retry nor acks goes on with the    *)
(* delivery it has.                                                        *)
LEMMA GoroutineGoesOn ==
  ASSUME RequestsTypeOK, NEW w \in Workers, Goroutine(w), ~PublishRetry(w), ~Ack(w)
  PROVE  /\ pc[w] \notin {Idle, "ack"}
         /\ \E s \in Steps \ {Idle} : pc' = [pc EXCEPT ![w] = s]
         /\ UNCHANGED <<main, retry, job, redelivered, unacked, enq>>
<1> USE DEF Idle
<1>s. /\ {"markFile", "markJob", "convert", "fileConverted", "jobConverted", "fileFailed",
          "jobFailed", "requeue", "publishRetry", "publishDead", "ack"} \subseteq Steps \ {Idle}
      /\ AfterFailure(w) \in Steps \ {Idle}
  BY DEF Steps, Converting, Settling, AfterFailure
<1>w. ASSUME NEW from \in Steps \ {Idle, "ack"}, NEW jobs, NEW files,
             NEW next \in Steps \ {Idle}, NEW onError \in Steps \ {Idle},
             Write(w, from, jobs, files, next, onError)
      PROVE  /\ pc[w] \notin {Idle, "ack"}
             /\ \E s \in Steps \ {Idle} : pc' = [pc EXCEPT ![w] = s]
             /\ UNCHANGED <<main, retry, job, redelivered, unacked, enq>>
  BY <1>w DEF Write, Goto, queues
<1>1. CASE Undecodable(w) \/ Produce(w) \/ PublishDead(w)
  BY <1>1, <1>s DEF Undecodable, Produce, PublishDead, Goto, queues
<1>2. CASE Claim(w)
  BY <1>2, <1>s DEF Claim, Goto, queues
<1>3. CASE MarkFileConverting(w) \/ MarkFileConverted(w) \/ MarkFileFailed(w)
  BY <1>3, <1>s, <1>w DEF MarkFileConverting, MarkFileConverted, MarkFileFailed
<1>4. CASE MarkJobConverting(w) \/ MarkJobConverted(w) \/ MarkJobFailed(w) \/ Requeue(w)
  BY <1>4, <1>s, <1>w DEF MarkJobConverting, MarkJobConverted, MarkJobFailed, Requeue
<1> QED
  BY <1>1, <1>2, <1>3, <1>4 DEF Goroutine
LEMMA MessagesGoroutine ==
  ASSUME Orderly, NEW w \in Workers, Goroutine(w)
  PROVE  OneMessage'
<1> USE DEF Orderly, OneMessage
<1>1. CASE ~PublishRetry(w) /\ ~Ack(w)
  <2>1. PICK s \in Steps \ {Idle} : pc' = [pc EXCEPT ![w] = s]
    BY <1>1, GoroutineGoesOn
  <2>2. pc[w] \notin {Idle, "ack"} /\ UNCHANGED <<main, retry, job, redelivered, unacked, enq>>
    BY <1>1, GoroutineGoesOn
  <2>3. \A v \in Workers : (pc'[v] # Idle => pc[v] # Idle)
                           /\ \A r : Carries(v, r)' => Carries(v, r)
    BY <2>1, <2>2 DEF RequestsTypeOK, Carries
  <2>4. Fresh'
    BY <2>2, <2>3 DEF Fresh
  <2>5. OneCopy'
    BY <2>2 DEF OneCopy
  <2>6. OneCarrier'
    BY <2>2, <2>3 DEF OneCarrier, InQueue
  <2> QED
    BY <2>4, <2>5, <2>6
<1>2. CASE PublishRetry(w)
  <2>1. /\ pc[w] = "publishRetry" /\ pc' = [pc EXCEPT ![w] = "ack"]
        /\ retry' = [retry EXCEPT ![job[w]] = @ + 1]
        /\ UNCHANGED <<main, job, redelivered, unacked, enq>>
    BY <1>2, WorkersAssumption DEF PublishRetry, Sent, Goto, RequestsTypeOK
  <2>2. \A v \in Workers : /\ pc'[v] # Idle => pc[v] # Idle
                           /\ \A r : Carries(v, r)' => Carries(v, r) /\ v # w
    BY <2>1 DEF RequestsTypeOK, Carries, Idle
  <2>3. \A r \in Jobs : /\ r # job[w] => retry'[r] = retry[r]
                        /\ r = job[w] => retry'[r] = retry[r] + 1
    BY <2>1 DEF RequestsTypeOK, Bodies
  <2>4. Carries(w, job[w])
    BY <2>1 DEF Carries, Idle
  <2>5. \A r \in Jobs : InQueue(r)' => InQueue(r) \/ r = job[w]
    BY <2>1, <2>3 DEF InQueue
  <2>6. Fresh'
    BY <2>1, <2>2 DEF Fresh
  <2>7. OneCopy'
    <3> SUFFICES ASSUME NEW r \in Jobs PROVE main'[<<r, FALSE>>] + retry'[r] <= 1
      BY DEF OneCopy
    <3>1. CASE r = job[w]
      <4>1. main[<<r, FALSE>>] \in Nat /\ retry[r] \in Nat /\ ~InQueue(r)
        BY <2>4, <3>1, QueueTypes DEF OneCarrier
      <4> QED
        BY <2>1, <2>3, <3>1, <4>1 DEF InQueue
    <3>2. CASE r # job[w]
      BY <2>1, <2>3, <3>2 DEF OneCopy
    <3> QED
      BY <3>1, <3>2
  <2>8. OneCarrier'
    BY <2>1, <2>2, <2>4, <2>5 DEF OneCarrier
  <2> QED
    BY <2>6, <2>7, <2>8
<1>3. CASE Ack(w)
  <2>1. UNCHANGED <<main, retry, enq>>
    BY <1>3 DEF Ack, queues
  <2>2. \A v \in Workers : /\ pc'[v] = IF v = w THEN Idle ELSE pc[v]
                           /\ job'[v] = IF v = w THEN NoJob ELSE job[v]
    BY <1>3 DEF Ack, Forget
  <2>3. \A v \in Workers \ {w} : redelivered'[v] = redelivered[v] /\ unacked'[v] = unacked[v]
    BY <1>3 DEF Ack, Forget, RequestsTypeOK
  <2>4. redelivered'[w] = FALSE
    BY <1>3 DEF Ack, Forget
  <2>5. Fresh'
    BY <2>1, <2>2, <2>3, <2>4 DEF Fresh
  <2>6. OneCopy'
    BY <2>1 DEF OneCopy
  <2>7. \A v \in Workers : \A r : Carries(v, r)' => Carries(v, r)
    BY <2>2 DEF Carries
  <2>8. OneCarrier'
    BY <2>1, <2>7 DEF OneCarrier, InQueue
  <2> QED
    BY <2>5, <2>6, <2>8
<1> QED
  BY <1>1, <1>2, <1>3

LEMMA MessagesRetryExpires ==
  ASSUME Orderly, NEW b \in Bodies, RetryExpires(b)
  PROVE  OneMessage'
<1> USE DEF Orderly, OneMessage
<1>1. MainAfter(b, FALSE, main[<<b, FALSE>>] + 1)
  BY MainPut DEF RetryExpires, RequestsTypeOK
<1>2. /\ retry[b] > 0 /\ retry' = [retry EXCEPT ![b] = @ - 1]
      /\ UNCHANGED <<pc, job, redelivered, unacked, enq>>
  BY DEF RetryExpires, locals
<1>3. \A r \in Jobs : /\ main'[<<r, FALSE>>] + retry'[r] = main[<<r, FALSE>>] + retry[r]
                      /\ InQueue(r)' => InQueue(r)
  <2> SUFFICES ASSUME NEW r \in Jobs
               PROVE  /\ main'[<<r, FALSE>>] + retry'[r] = main[<<r, FALSE>>] + retry[r]
                      /\ InQueue(r)' => InQueue(r)
    OBVIOUS
  <2>1. r \in Bodies /\ retry[r] \in Nat /\ main[<<r, FALSE>>] \in Nat
    BY QueueTypes DEF Bodies
  <2>2. CASE r = b
    BY <1>1, <1>2, <2>1, <2>2 DEF MainAfter, InQueue, RequestsTypeOK
  <2>3. CASE r # b
    BY <1>1, <1>2, <2>1, <2>3 DEF MainAfter, InQueue, RequestsTypeOK
  <2> QED
    BY <2>2, <2>3
<1>4. Fresh'
  BY <1>1, <1>2 DEF Fresh, MainAfter
<1>5. OneCopy'
  BY <1>3 DEF OneCopy
<1>6. OneCarrier'
  BY <1>2, <1>3 DEF OneCarrier, Carries
<1> QED
  BY <1>4, <1>5, <1>6

LEMMA DeliverTakes ==
  ASSUME Orderly, NEW w \in Workers, NEW b \in Bodies, NEW r \in BOOLEAN, Deliver(w, b, r)
  PROVE  /\ r = FALSE
         /\ main[<<b, FALSE>>] > 0
         /\ MainAfter(b, FALSE, main[<<b, FALSE>>] - 1)
         /\ \A q \in Jobs : InQueue(q)' => InQueue(q) /\ q # b
         /\ \A v \in Workers : /\ pc'[v] = IF v = w THEN "delivered" ELSE pc[v]
                               /\ job'[v] = IF v = w THEN b ELSE job[v]
         /\ UNCHANGED <<retry, enq>>
<1> USE DEF Orderly, OneMessage
<1>1. r = FALSE
  <2>1. CASE r
    <3>1. <<b, r>> = <<b, TRUE>>
      BY <2>1
    <3>2. main[<<b, TRUE>>] > 0
      BY <3>1 DEF Deliver
    <3>3. main[<<b, TRUE>>] = 0
      BY DEF Fresh
    <3> QED
      BY <3>2, <3>3
  <2> QED
    BY <2>1
<1>2. main[<<b, FALSE>>] > 0 /\ MainAfter(b, FALSE, main[<<b, FALSE>>] - 1)
  BY <1>1, MainTake DEF Deliver, RequestsTypeOK
<1>3. ASSUME NEW q \in Jobs, InQueue(q)' PROVE InQueue(q) /\ q # b
  <2>1. main[<<q, FALSE>>] \in Nat /\ retry[q] \in Nat /\ main[<<q, FALSE>>] + retry[q] <= 1
    BY QueueTypes DEF OneCopy
  <2>2. UNCHANGED retry
    BY DEF Deliver
  <2>3. CASE q = b
    <3>1. main[<<q, FALSE>>] > 0 /\ main'[<<q, FALSE>>] = main[<<q, FALSE>>] - 1
      BY <1>2, <2>3 DEF MainAfter
    <3> QED
      BY <1>3, <2>1, <2>2, <3>1 DEF InQueue
  <2>4. CASE q # b
    <3>1. main'[<<q, FALSE>>] = main[<<q, FALSE>>]
      BY <1>2, <2>4 DEF MainAfter, Bodies
    <3> QED
      BY <1>3, <2>2, <2>4, <3>1 DEF InQueue
  <2> QED
    BY <2>3, <2>4
<1>4. /\ \A v \in Workers : /\ pc'[v] = IF v = w THEN "delivered" ELSE pc[v]
                            /\ job'[v] = IF v = w THEN b ELSE job[v]
      /\ UNCHANGED <<retry, enq>>
  BY DEF Deliver, RequestsTypeOK
<1> QED
  BY <1>1, <1>2, <1>3, <1>4

LEMMA MessagesDeliver ==
  ASSUME Orderly, NEW w \in Workers, NEW b \in Bodies, NEW r \in BOOLEAN, Deliver(w, b, r)
  PROVE  OneMessage'
<1> USE DEF Orderly, OneMessage
<1>1. /\ r = FALSE
      /\ main[<<b, FALSE>>] > 0
      /\ MainAfter(b, FALSE, main[<<b, FALSE>>] - 1)
      /\ \A q \in Jobs : InQueue(q)' => InQueue(q) /\ q # b
      /\ \A v \in Workers : /\ pc'[v] = IF v = w THEN "delivered" ELSE pc[v]
                            /\ job'[v] = IF v = w THEN b ELSE job[v]
      /\ UNCHANGED <<retry, enq>>
  BY DeliverTakes
<1>2. \A q \in Jobs : \A v \in Workers : Carries(v, q)' => Carries(v, q) \/ (v = w /\ q = b)
  <2> SUFFICES ASSUME NEW q \in Jobs, NEW v \in Workers, Carries(v, q)'
               PROVE  Carries(v, q) \/ (v = w /\ q = b)
    OBVIOUS
  <2> QED
    BY <1>1 DEF Carries
<1>3. b \in Jobs => InQueue(b) /\ enq[b] = "enqueued" /\ \A v \in Workers : ~Carries(v, b)
  BY <1>1 DEF InQueue, OneCarrier
<1>4. Fresh'
  <2>1. \A v \in Workers : /\ redelivered'[v] = IF v = w THEN FALSE ELSE redelivered[v]
                           /\ unacked'[v] = IF v = w THEN TRUE ELSE unacked[v]
    BY <1>1 DEF Deliver, RequestsTypeOK
  <2>2. \A c \in Bodies : main'[<<c, TRUE>>] = 0
    BY <1>1 DEF MainAfter, Fresh
  <2> QED
    BY <1>1, <2>1, <2>2 DEF Fresh
<1>5. OneCopy'
  <2> SUFFICES ASSUME NEW q \in Jobs PROVE main'[<<q, FALSE>>] + retry'[q] <= 1
    BY DEF OneCopy
  <2>1. main[<<q, FALSE>>] \in Nat /\ retry[q] \in Nat /\ main[<<q, FALSE>>] + retry[q] <= 1
    BY QueueTypes DEF OneCopy
  <2>2. main'[<<q, FALSE>>] = main[<<q, FALSE>>] \/ main'[<<q, FALSE>>] = main[<<q, FALSE>>] - 1
    BY <1>1 DEF MainAfter, Bodies
  <2> QED
    BY <1>1, <2>1, <2>2
<1>6. OneCarrier'
  BY <1>1, <1>2, <1>3 DEF OneCarrier
<1> QED
  BY <1>4, <1>5, <1>6
(* A call of EnqueueConversion other than the publish moves enq on.        *)
LEMMA MessagesEnq ==
  ASSUME Orderly, NEW r \in Jobs, enq[r] # "enqueued",
         NEW s \in EnqSteps \ {"enqueued"}, enq' = [enq EXCEPT ![r] = s],
         UNCHANGED <<main, retry, pc, job, redelivered, unacked>>
  PROVE  OneMessage'
<1> USE DEF Orderly, OneMessage
<1>1. \A q \in Jobs : /\ InQueue(q)' <=> InQueue(q)
                      /\ \A w \in Workers : Carries(w, q)' <=> Carries(w, q)
                      /\ enq'[q] # "enqueued" => enq[q] # "enqueued"
  BY DEF InQueue, Carries, RequestsTypeOK
<1>2. Fresh'
  BY DEF Fresh
<1>3. OneCopy'
  BY DEF OneCopy
<1>4. OneCarrier'
  BY <1>1 DEF OneCarrier
<1> QED
  BY <1>2, <1>3, <1>4

LEMMA MessagesEnqueue ==
  ASSUME Orderly, NEW r \in Jobs, Enqueue(r)
  PROVE  OneMessage'
<1> USE DEF Orderly, OneMessage
<1>1. /\ enq[r] = "created" /\ enq' = [enq EXCEPT ![r] = "enqueued"]
      /\ UNCHANGED <<retry, pc, job, redelivered, unacked>>
      /\ main' = [main EXCEPT ![<<r, FALSE>>] = @ + 1]
      /\ r \in Bodies
  BY DEF Enqueue, locals, Bodies
<1>2. MainAfter(r, FALSE, main[<<r, FALSE>>] + 1)
  BY <1>1, MainPut DEF RequestsTypeOK
<1>3. ~InQueue(r) /\ \A w \in Workers : ~Carries(w, r)
  BY <1>1 DEF OneCarrier
<1>4. \A q \in Jobs : q # r => main'[<<q, FALSE>>] = main[<<q, FALSE>>]
  BY <1>2 DEF MainAfter, Bodies
<1>5. \A q \in Jobs : /\ InQueue(q)' => InQueue(q) \/ q = r
                      /\ \A w \in Workers : Carries(w, q)' <=> Carries(w, q)
                      /\ enq'[q] # "enqueued" => enq[q] # "enqueued" /\ q # r
  BY <1>1, <1>4 DEF InQueue, Carries, RequestsTypeOK
<1>6. Fresh'
  <2>1. \A b \in Bodies : main'[<<b, TRUE>>] = 0
    BY <1>2 DEF Fresh, MainAfter
  <2> QED
    BY <1>1, <2>1 DEF Fresh
<1>7. OneCopy'
  <2> SUFFICES ASSUME NEW q \in Jobs PROVE main'[<<q, FALSE>>] + retry'[q] <= 1
    BY DEF OneCopy
  <2>1. main[<<q, FALSE>>] \in Nat /\ retry[q] \in Nat /\ main[<<q, FALSE>>] + retry[q] <= 1
    BY QueueTypes DEF OneCopy
  <2>2. CASE q = r
    BY <1>1, <1>2, <1>3, <2>1, <2>2 DEF MainAfter, InQueue
  <2>3. CASE q # r
    BY <1>1, <1>4, <2>1, <2>3
  <2> QED
    BY <2>2, <2>3
<1>8. OneCarrier'
  BY <1>3, <1>5 DEF OneCarrier
<1> QED
  BY <1>6, <1>7, <1>8

LEMMA MarkRefusedMoves ==
  ASSUME NEW r \in Jobs, MarkRefused(r)
  PROVE  /\ at[r] = "enqueue" /\ enq[r] \in {"markJob", "markFile"}
         /\ enq' = [enq EXCEPT ![r] = IF @ = "markJob" THEN "markFile" ELSE "refused"]
         /\ UNCHANGED <<attempts, queues, locals, mode, requests>>
BY DEF MarkRefused, MarkEnqueueFailed, tables

LEMMA MessagesHandler ==
  ASSUME Orderly, NEW r \in Jobs, Create(r) \/ Publish(r) \/ MarkRefused(r)
  PROVE  OneMessage'
<1>1. CASE Create(r)
  BY <1>1, MessagesEnq DEF Create, CreateJob, queues, locals, EnqSteps
<1>2. CASE Publish(r) /\ Enqueue(r)
  BY <1>2, MessagesEnqueue
<1>3. CASE Publish(r) /\ EnqueueRefused(r)
  BY <1>3, MessagesEnq DEF EnqueueRefused, queues, locals, EnqSteps
<1>4. CASE MarkRefused(r)
  <2>1. (IF enq[r] = "markJob" THEN "markFile" ELSE "refused") \in EnqSteps \ {"enqueued"}
    BY DEF EnqSteps
  <2> QED
    BY <1>4, <2>1, MarkRefusedMoves, MessagesEnq DEF queues, locals
<1> QED
  BY <1>1, <1>2, <1>3, <1>4 DEF Publish

(* Nobody comes back to a call before EnqueueConversion.                   *)
LEMMA UnpublishedStep ==
  ASSUME Orderly, NEW r \in Jobs, Find(r) \/ Handle(r) \/ Disconnect(r) \/ Abandon(r)
  PROVE  Unpublished'
<1> USE DEF Orderly
<1>m. ASSUME NEW s \in Places, at' = [at EXCEPT ![r] = s], UNCHANGED enq,
             s \in Begun => at[r] \in Begun
      PROVE  Unpublished'
  BY <1>m DEF Unpublished, RequestsTypeOK
<1>c. ASSUME NEW from \in Begun, NEW status, NEW ok \in Places, NEW fail \in Places,
             FileCall(r, from, status, ok, fail)
      PROVE  Unpublished'
  BY <1>c, <1>m DEF FileCall
<1> USE DEF Begun, Places, InHandler
<1>1. CASE Find(r) \/ Delete(r) \/ MarkReady(r) \/ MarkRetrying(r)
  BY <1>1, <1>c DEF Find, Delete, MarkReady, MarkRetrying
<1>2. CASE Stat(r)
  <2>1. object[FileOf[r]] \in {"none", "whole", "short", "removed"}
    BY TablesAssumption DEF RequestsTypeOK
  <2>2. \E ok \in Places : FileCall(r, "stat", FileRow(r), ok, "rejected")
    BY <1>2, <2>1, Zenon DEF Stat
  <2> QED
    BY <2>2, <1>c
<1>3. CASE Remove(r) \/ LatestForFile(r) \/ CreateFails(r) \/ Respond(r) \/ Abandon(r)
  BY <1>3, <1>m DEF Remove, LatestForFile, CreateFails, Respond, Abandon, vars
<1>4. CASE Create(r) \/ Publish(r) \/ MarkRefused(r)
  <2>1. at[r] = "enqueue" /\ UNCHANGED at /\ \E s : enq' = [enq EXCEPT ![r] = s]
    BY <1>4, MarkRefusedMoves DEF Create, Publish, CreateJob, Enqueue, EnqueueRefused, requests
  <2> QED
    BY <2>1 DEF Unpublished, RequestsTypeOK
<1>5. CASE Disconnect(r)
  BY <1>5 DEF Disconnect, vars, Unpublished
<1> QED
  BY <1>1, <1>2, <1>3, <1>4, <1>5 DEF Handle

LEMMA ClaimedSame ==
  ASSUME Claimed, UNCHANGED <<job, attempt>>,
         NEW w \in Workers, \A v \in Workers : v # w => pc'[v] = pc[v],
         pc'[w] \in Converting \cup {"requeue"} => pc[w] \in Converting \cup {"requeue"}
  PROVE  Claimed'
BY DEF Claimed

LEMMA ClaimedGoroutine ==
  ASSUME RequestsTypeOK, Claimed, NEW w \in Workers, Goroutine(w)
  PROVE  Claimed'
<1> USE DEF Converting
<1>w. ASSUME NEW from \in Converting \cup {"requeue"}, NEW jobs, NEW files, NEW next, NEW onError,
             Write(w, from, jobs, files, next, onError)
      PROVE  Claimed'
  BY <1>w, ClaimedSame DEF Write, Goto, RequestsTypeOK
<1>1. CASE Undecodable(w) \/ Produce(w) \/ PublishDead(w) \/ PublishRetry(w)
  BY <1>1, ClaimedSame
     DEF Undecodable, Produce, PublishDead, PublishRetry, Goto, RequestsTypeOK
<1>2. CASE Claim(w)
  <2>1. job[w] \in Jobs /\ attempts[job[w]] \in Nat /\ UNCHANGED job
    BY <1>2 DEF Claim, RequestsTypeOK
  <2>2. \A v \in Workers : v # w => pc'[v] = pc[v] /\ attempt'[v] = attempt[v]
    BY <1>2 DEF Claim, Goto, RequestsTypeOK
  <2>3. pc'[w] = "markFile" => attempt'[w] = attempts[job[w]] + 1
    BY <1>2 DEF Claim, Goto, RequestsTypeOK
  <2>4. pc'[w] \in {"markFile", "publishRetry", "ack"}
    BY <1>2 DEF Claim, Goto, RequestsTypeOK
  <2> QED
    BY <2>1, <2>2, <2>3, <2>4 DEF Claimed
<1>3. CASE MarkFileConverting(w) \/ MarkFileConverted(w) \/ MarkFileFailed(w)
  BY <1>3, <1>w DEF MarkFileConverting, MarkFileConverted, MarkFileFailed
<1>4. CASE MarkJobConverting(w) \/ MarkJobConverted(w) \/ MarkJobFailed(w) \/ Requeue(w)
  BY <1>4, <1>w DEF MarkJobConverting, MarkJobConverted, MarkJobFailed, Requeue
<1>5. CASE Ack(w)
  BY <1>5 DEF Ack, Forget, Claimed, Idle
<1> QED
  BY <1>1, <1>2, <1>3, <1>4, <1>5 DEF Goroutine

LEMMA ClaimedStep ==
  ASSUME RequestsTypeOK, Claimed, [RequestsNext]_allvars
  PROVE  Claimed'
<1>u. ASSUME UNCHANGED <<pc, job, attempt>> PROVE Claimed'
  BY <1>u DEF Claimed
<1>1. CASE \E f \in Files : UploadURL(f) \/ Upload(f)
  BY <1>1, <1>u DEF UploadURL, Upload, vars, locals
<1>2. CASE \E r \in Jobs : Find(r) \/ Handle(r) \/ Disconnect(r) \/ Abandon(r)
  <2>1. UNCHANGED locals
    BY <1>2, MarkRefusedMoves
       DEF Handle, Find, Stat, Remove, Delete, MarkReady, MarkRetrying, FileCall, LatestForFile,
           Create, CreateJob, CreateFails, Publish, Enqueue, EnqueueRefused, Respond,
           Disconnect, Abandon, vars
  <2> QED
    BY <1>u, <2>1 DEF locals
<1>3. CASE Broker
  <2>1. CASE \E b \in Bodies : RetryExpires(b)
    BY <1>u, <2>1 DEF RetryExpires, locals
  <2>2. ASSUME NEW w \in Workers, NEW b \in Bodies, NEW r \in BOOLEAN, Deliver(w, b, r)
        PROVE  Claimed'
    BY <2>2 DEF Deliver, Claimed, RequestsTypeOK, Converting
  <2> QED
    BY <1>3, <2>1, <2>2 DEF Broker
<1>4. CASE \E w \in Workers : Goroutine(w)
  BY <1>4, ClaimedGoroutine
<1>5. CASE UNCHANGED allvars
  BY <1>5, <1>u DEF allvars, vars, locals
<1> QED
  BY <1>1, <1>2, <1>3, <1>4, <1>5 DEF RequestsNext

LEMMA OrderlyInit == RequestsInit => Orderly
<1> SUFFICES ASSUME RequestsInit PROVE OneMessage /\ Unpublished /\ Claimed
  BY RequestsTypeInit DEF Orderly
<1>1. /\ \A b \in Bodies : main[<<b, TRUE>>] = 0 /\ main[<<b, FALSE>>] = 0
      /\ \A b \in Bodies : retry[b] = 0
      /\ \A w \in Workers : pc[w] = Idle /\ redelivered[w] = FALSE
      /\ \A r \in Jobs : enq[r] = "none" /\ r \in Bodies
  BY DEF RequestsInit, EmptyQueue, Bodies
<1>2. \A r \in Jobs : main[<<r, FALSE>>] = 0 /\ retry[r] = 0
  BY <1>1
<1>3. ASSUME NEW r \in Jobs
      PROVE  ~InQueue(r) /\ main[<<r, FALSE>>] + retry[r] <= 1
  <2>1. main[<<r, FALSE>>] = 0 /\ retry[r] = 0
    BY <1>2
  <2> QED
    BY <2>1 DEF InQueue
<1>4. \A r \in Jobs, w \in Workers : ~Carries(w, r)
  BY <1>1 DEF Carries
<1>5. Fresh
  BY <1>1 DEF Fresh
<1>6. OneCopy
  BY <1>3 DEF OneCopy
<1>7. OneCarrier /\ Unpublished
  BY <1>1, <1>3, <1>4 DEF OneCarrier, Unpublished
<1>8. Claimed
  BY <1>1 DEF Claimed, Converting, Idle
<1> QED
  BY <1>5, <1>6, <1>7, <1>8 DEF OneMessage

LEMMA OrderlyStep ==
  ASSUME Orderly, [RequestsNext]_allvars
  PROVE  Orderly'
<1>1. RequestsTypeOK' /\ Claimed'
  BY RequestsTypeStep, ClaimedStep DEF Orderly
<1>u. ASSUME UNCHANGED <<at, enq>> PROVE Unpublished'
  BY <1>u DEF Orderly, Unpublished
<1>2. CASE \E f \in Files : UploadURL(f) \/ Upload(f)
  <2>1. UNCHANGED messages /\ UNCHANGED <<at, enq>>
    BY <1>2 DEF UploadURL, Upload, messages, requests, vars, queues, locals
  <2> QED
    BY <1>1, <1>u, <2>1, MessagesSame DEF Orderly
<1>3. ASSUME NEW r \in Jobs, Find(r) \/ Handle(r) \/ Disconnect(r) \/ Abandon(r)
      PROVE  Orderly'
  <2>1. OneMessage'
    BY <1>3, HandlersKeepMessages, MessagesSame, MessagesHandler DEF Handle, Orderly
  <2> QED
    BY <1>1, <1>3, <2>1, UnpublishedStep DEF Orderly
<1>4. CASE Broker /\ UNCHANGED requests
  <2>1. UNCHANGED <<at, enq>>
    BY <1>4 DEF Broker, RetryExpires, Deliver, requests
  <2> QED
    BY <1>1, <1>4, <1>u, <2>1, MessagesRetryExpires, MessagesDeliver DEF Broker, Orderly
<1>5. ASSUME NEW w \in Workers, Goroutine(w), UNCHANGED requests PROVE Orderly'
  <2>1. UNCHANGED <<at, enq>>
    BY <1>5, GoroutineGoesOn DEF PublishRetry, Ack, requests, Orderly
  <2> QED
    BY <1>1, <1>5, <1>u, <2>1, MessagesGoroutine DEF Orderly
<1>6. CASE UNCHANGED allvars
  <2>1. UNCHANGED messages /\ UNCHANGED <<at, enq>>
    BY <1>6 DEF allvars, requests, vars, queues, locals, messages
  <2> QED
    BY <1>1, <1>u, <2>1, MessagesSame DEF Orderly
<1> QED
  BY <1>2, <1>3, <1>4, <1>5, <1>6 DEF RequestsNext
-----------------------------------------------------------------------------
(* Who is in charge of a file that waits: a handler that is about to hand  *)
(* its job over, a message, or a goroutine that will write the outcome.    *)
Working == {"delivered", "publishRetry", "markFile", "markJob", "convert",
            "fileConverted", "fileFailed"}

HandingOver(r) ==
  \/ at[r] = "latest"
  \/ at[r] = "enqueue" /\ enq[r] \in {"none", "created", "markJob", "markFile"}

InCharge(r) ==
  HandingOver(r) \/ InQueue(r) \/ \E w \in Workers : Handles(w, r, Working)

Finishing(r) == \E w \in Workers : Handles(w, r, {"jobConverted"})

(* Some goroutine will try to claim r.                                     *)
WillTake(r) ==
  \/ enq[r] = "created" \/ InQueue(r)
  \/ \E w \in Workers : Handles(w, r, {"delivered", "publishRetry"})

(* A step that is about q alone.                                           *)
Others(q) ==
  \A r \in Jobs \ {q} :
    /\ at'[r] = at[r] /\ enq'[r] = enq[r] /\ jobStatus'[r] = jobStatus[r]
    /\ InQueue(r)' <=> InQueue(r)
    /\ \A w \in Workers : Carries(w, r) \/ Carries(w, r)' =>
         job'[w] = job[w] /\ pc'[w] = pc[w]

LEMMA OthersInCharge ==
  ASSUME NEW q, Others(q), NEW r \in Jobs, r # q
  PROVE  /\ InCharge(r)' <=> InCharge(r)
         /\ Finishing(r)' <=> Finishing(r)
         /\ WillTake(r)' <=> WillTake(r)
<1>1. \A w \in Workers, S \in {Working, {"jobConverted"}, {"delivered", "publishRetry"}} :
        Handles(w, r, S)' <=> Handles(w, r, S)
  BY DEF Others, Handles, Carries, Working, Idle
<1>2. InQueue(r)' <=> InQueue(r)
  BY DEF Others
<1>3. at'[r] = at[r] /\ enq'[r] = enq[r]
  BY DEF Others
<1> QED
  BY <1>1, <1>2, <1>3 DEF InCharge, HandingOver, Finishing, WillTake

(* A request in its handler changes its own place and its own job.         *)
LEMMA OthersHandler ==
  ASSUME Orderly, NEW r \in Jobs, Find(r) \/ Handle(r) \/ Disconnect(r) \/ Abandon(r)
  PROVE  Others(r)
<1> USE DEF Orderly
<1>m. ASSUME UNCHANGED messages, NEW s, at' \in {at, [at EXCEPT ![r] = s]},
             NEW t, jobStatus' \in {jobStatus, [jobStatus EXCEPT ![r] = t]}
      PROVE  Others(r)
  <2>1. \A q \in Jobs \ {r} : at'[q] = at[q] /\ jobStatus'[q] = jobStatus[q]
    BY <1>m DEF RequestsTypeOK
  <2>2. UNCHANGED <<main, retry, pc, job, enq>>
    BY <1>m DEF messages
  <2> QED
    BY <2>1, <2>2 DEF Others, InQueue
<1>1. CASE Find(r) \/ Stat(r) \/ Remove(r) \/ Delete(r) \/ MarkReady(r) \/ MarkRetrying(r)
           \/ LatestForFile(r) \/ CreateFails(r) \/ Respond(r) \/ Disconnect(r) \/ Abandon(r)
  <2>1. UNCHANGED messages
    BY <1>1, HandlersKeepMessages
  <2>2. \E s, t : /\ at' \in {at, [at EXCEPT ![r] = s]}
                  /\ jobStatus' \in {jobStatus, [jobStatus EXCEPT ![r] = t]}
    BY <1>1 DEF Find, Stat, Remove, Delete, MarkReady, MarkRetrying, FileCall, LatestForFile,
       CreateFails, Respond, Disconnect, Abandon, vars, tables
  <2> QED
    BY <2>1, <2>2, <1>m
<1>2. CASE Create(r) \/ MarkRefused(r) \/ (Publish(r) /\ EnqueueRefused(r))
  <2>1. /\ UNCHANGED <<at, main, retry, pc, job>>
        /\ \E s : enq' = [enq EXCEPT ![r] = s]
    BY <1>2, MarkRefusedMoves
       DEF Create, CreateJob, Publish, EnqueueRefused, queues, locals, requests
  <2>2. \E t : jobStatus' \in {jobStatus, [jobStatus EXCEPT ![r] = t]}
    BY <1>2 DEF Create, CreateJob, Publish, EnqueueRefused, MarkRefused, MarkEnqueueFailed, tables
  <2>3. \A q \in Jobs \ {r} : enq'[q] = enq[q] /\ jobStatus'[q] = jobStatus[q]
    BY <2>1, <2>2 DEF RequestsTypeOK
  <2> QED
    BY <2>1, <2>3 DEF Others, InQueue
<1>3. CASE Publish(r) /\ Enqueue(r)
  <2>1. /\ UNCHANGED <<at, retry, pc, job, jobStatus>>
        /\ enq' = [enq EXCEPT ![r] = "enqueued"]
        /\ main' = [main EXCEPT ![<<r, FALSE>>] = @ + 1]
    BY <1>3 DEF Publish, Enqueue, tables, locals, requests
  <2>2. \A q \in Jobs \ {r} : main'[<<q, FALSE>>] = main[<<q, FALSE>>]
    BY <2>1, MainPut DEF RequestsTypeOK, MainAfter, Bodies
  <2> QED
    BY <2>1, <2>2 DEF Others, InQueue, RequestsTypeOK
<1> QED
  BY <1>1, <1>2, <1>3 DEF Handle, Publish

LEMMA OthersRetryExpires ==
  ASSUME Orderly, NEW b \in Bodies, RetryExpires(b), UNCHANGED requests
  PROVE  Others(b)
<1>1. /\ UNCHANGED <<at, enq, pc, job, jobStatus>>
      /\ retry' = [retry EXCEPT ![b] = @ - 1]
  BY DEF RetryExpires, tables, locals, requests
<1>2. \A q \in Jobs \ {b} : main'[<<q, FALSE>>] = main[<<q, FALSE>>]
  BY MainPut DEF RetryExpires, Orderly, RequestsTypeOK, MainAfter, Bodies
<1>3. \A q \in Jobs \ {b} : retry'[q] = retry[q]
  BY <1>1 DEF Orderly, RequestsTypeOK, Bodies
<1> QED
  BY <1>1, <1>2, <1>3 DEF Others, InQueue

LEMMA OthersDeliver ==
  ASSUME Orderly, NEW w \in Workers, NEW b \in Bodies, NEW r \in BOOLEAN, Deliver(w, b, r),
         UNCHANGED requests
  PROVE  Others(b)
<1>1. /\ MainAfter(b, FALSE, main[<<b, FALSE>>] - 1)
      /\ \A v \in Workers : /\ pc'[v] = IF v = w THEN "delivered" ELSE pc[v]
                            /\ job'[v] = IF v = w THEN b ELSE job[v]
      /\ UNCHANGED <<retry, enq>>
  BY DeliverTakes
<1>2. UNCHANGED <<at, jobStatus>> /\ pc[w] = Idle
  BY DEF Deliver, tables, requests
<1>3. \A q \in Jobs \ {b} : main'[<<q, FALSE>>] = main[<<q, FALSE>>]
  BY <1>1 DEF MainAfter, Bodies
<1>4. \A q \in Jobs \ {b} : \A v \in Workers : Carries(v, q) \/ Carries(v, q)' => v # w
  BY <1>1, <1>2 DEF Carries
<1> QED
  BY <1>1, <1>2, <1>3, <1>4 DEF Others, InQueue

(* A goroutine writes the row of the job it handles.                       *)
LEMMA GoroutineRow ==
  ASSUME Orderly, NEW w \in Workers, Goroutine(w)
  PROVE  \A r \in Jobs \ {job[w]} : jobStatus'[r] = jobStatus[r]
<1>w. ASSUME NEW from, NEW s, NEW files, NEW next, NEW onError,
             Write(w, from, JobIs(w, s), files, next, onError)
      PROVE  \A r \in Jobs \ {job[w]} : jobStatus'[r] = jobStatus[r]
  BY <1>w DEF Write, JobIs, Orderly, RequestsTypeOK
<1>1. CASE Undecodable(w) \/ Produce(w) \/ PublishRetry(w) \/ PublishDead(w) \/ Ack(w)
  BY <1>1 DEF Undecodable, Produce, PublishRetry, PublishDead, Ack, tables
<1>2. CASE Claim(w)
  BY <1>2 DEF Claim, Orderly, RequestsTypeOK
<1>3. CASE MarkFileConverting(w) \/ MarkFileConverted(w) \/ MarkFileFailed(w)
  BY <1>3 DEF MarkFileConverting, MarkFileConverted, MarkFileFailed, Write
<1>4. CASE MarkJobConverting(w) \/ MarkJobConverted(w) \/ MarkJobFailed(w) \/ Requeue(w)
  BY <1>4, <1>w DEF MarkJobConverting, MarkJobConverted, MarkJobFailed, Requeue
<1> QED
  BY <1>1, <1>2, <1>3, <1>4 DEF Goroutine

LEMMA OthersGoroutine ==
  ASSUME Orderly, NEW w \in Workers, Goroutine(w), UNCHANGED requests
  PROVE  Others(job[w])
<1> USE DEF Orderly
<1>1. \A r \in Jobs \ {job[w]} : jobStatus'[r] = jobStatus[r]
  BY GoroutineRow
<1>2. UNCHANGED <<at, enq, main>>
  BY GoroutineGoesOn DEF PublishRetry, Ack, queues, requests
<1>3. \A v \in Workers : v # w => job'[v] = job[v] /\ pc'[v] = pc[v]
  <2>1. CASE PublishRetry(w)
    BY <2>1 DEF PublishRetry, Goto, RequestsTypeOK
  <2>2. CASE Ack(w)
    BY <2>2 DEF Ack, Forget, RequestsTypeOK
  <2>3. CASE ~PublishRetry(w) /\ ~Ack(w)
    BY <2>3, GoroutineGoesOn DEF RequestsTypeOK
  <2> QED
    BY <2>1, <2>2, <2>3
<1>4. \A r \in Jobs \ {job[w]} : ~Carries(w, r) /\ ~Carries(w, r)'
  BY GoroutineGoesOn DEF Carries, PublishRetry, Ack, Forget, Idle
<1>5. \A r \in Jobs \ {job[w]} : retry'[r] = retry[r]
  <2>1. CASE PublishRetry(w)
    BY <2>1 DEF PublishRetry, RequestsTypeOK, Bodies
  <2> QED
    BY <2>1, GoroutineGoesOn DEF Ack, queues
<1> QED
  BY <1>1, <1>2, <1>3, <1>4, <1>5 DEF Others, InQueue
(* Of the job a goroutine carries, nobody else is in charge.               *)
CarrierAlone ==
  \A w \in Workers, r \in Jobs : Carries(w, r) =>
    /\ enq[r] = "enqueued" /\ ~InQueue(r)
    /\ InCharge(r) <=> pc[w] \in Working
    /\ Finishing(r) <=> pc[w] = "jobConverted"
    /\ WillTake(r) <=> pc[w] \in {"delivered", "publishRetry"}

LEMMA CarriersAlone == Orderly => CarrierAlone
<1> SUFFICES ASSUME Orderly, NEW w \in Workers, NEW r \in Jobs, Carries(w, r)
             PROVE  /\ enq[r] = "enqueued" /\ ~InQueue(r)
                    /\ InCharge(r) <=> pc[w] \in Working
                    /\ Finishing(r) <=> pc[w] = "jobConverted"
                    /\ WillTake(r) <=> pc[w] \in {"delivered", "publishRetry"}
  BY DEF CarrierAlone
<1>1. enq[r] = "enqueued" /\ ~InQueue(r) /\ \A v \in Workers : Carries(v, r) => v = w
  BY DEF Orderly, OneMessage, OneCarrier
<1>2. ~HandingOver(r)
  BY <1>1 DEF HandingOver, Orderly, Unpublished, Begun
<1>3. \A S \in {Working, {"jobConverted"}, {"delivered", "publishRetry"}} :
        (\E v \in Workers : Handles(v, r, S)) <=> pc[w] \in S
  BY <1>1 DEF Carries, Handles, Working, Idle
<1> QED
  BY <1>1, <1>2, <1>3 DEF InCharge, Finishing, WillTake

LEMMA CarriersAloneNext == Orderly' => CarrierAlone'
BY CarriersAlone, PTL
LEMMA OrderlyAlways == RequestsSpec => []Orderly
BY OrderlyInit, OrderlyStep, PTL DEF RequestsSpec

-----------------------------------------------------------------------------
(* While nothing has failed, every call is answered.                       *)
LEMMA RequestAnswered ==
  ASSUME RequestsTypeOK, NEW r, NEW a \in Replies(r), Bill(r, a), UNCHANGED gone, Untroubled'
  PROVE  Untroubled /\ a = "ok"
<1>1. gone = {} /\ \A k \in {"db", "answer", "apicrash"} : spent'[k] = 0
  BY DEF Untroubled
<1>2. a \in {"ok", "error", "lost"}
  BY DEF Replies
<1>3. CASE a = "ok"
  BY <1>1, <1>3 DEF Bill, Untroubled
<1>4. CASE a # "ok"
  <2>1. /\ spent' = [spent EXCEPT ![FaultOf(a)] = @ + 1]
        /\ FaultOf(a) \in {"db", "answer"}
    BY <1>1, <1>4 DEF Bill, FaultOf
  <2>2. spent[FaultOf(a)] \in Nat /\ spent'[FaultOf(a)] = spent[FaultOf(a)] + 1
    BY <2>1 DEF RequestsTypeOK, Faults
  <2> QED
    BY <1>1, <2>1, <2>2
<1> QED
  BY <1>3, <1>4

LEMMA GoroutineAnswered ==
  ASSUME RequestsTypeOK, NEW w \in Workers, NEW a \in Answers(w), Charge(w, a),
         UNCHANGED gone, Untroubled'
  PROVE  Untroubled /\ a = "ok"
<1>1. gone = {} /\ \A k \in {"db", "answer", "apicrash"} : spent'[k] = 0
  BY DEF Untroubled
<1>2. ~Cancelled(w)
  BY WorkersAssumption DEF Cancelled, RequestsTypeOK
<1>3. a \in {"ok", "error", "lost"}
  BY <1>2 DEF Answers
<1>4. CASE a = "ok"
  BY <1>1, <1>4 DEF Charge, Untroubled
<1>5. CASE a # "ok"
  <2>1. /\ spent' = [spent EXCEPT ![FaultOf(a)] = @ + 1]
        /\ FaultOf(a) \in {"db", "answer"}
    BY <1>2, <1>5 DEF Charge, FaultOf
  <2>2. spent[FaultOf(a)] \in Nat /\ spent'[FaultOf(a)] = spent[FaultOf(a)] + 1
    BY <2>1 DEF RequestsTypeOK, Faults
  <2> QED
    BY <1>1, <2>1, <2>2
<1> QED
  BY <1>4, <1>5

(* While nothing has failed, the row of a job that will be claimed is      *)
(* queued, and somebody is in charge of each file that waits.              *)
Queued == \A r \in Jobs : WillTake(r) => jobStatus[r] = "queued"
Served == \A f \in Files : Waiting(f) => \E r \in Jobs : FileOf[r] = f /\ InCharge(r)
Promise == Untroubled => Queued /\ Served

(* A step about q keeps the promise if q stays in charge until its file is *)
(* done, and takes charge of it when it makes it wait.                     *)
LEMMA PromiseKept ==
  ASSUME Queued, Served, NEW q \in Bodies, Others(q),
         \A f \in Files : Waiting(f)' =>
           Waiting(f) \/ (q \in Jobs /\ f = FileOf[q] /\ InCharge(q)'),
         q \in Jobs => /\ InCharge(q) => InCharge(q)' \/ ~Waiting(FileOf[q])'
                       /\ WillTake(q)' => jobStatus'[q] = "queued"
  PROVE  Queued' /\ Served'
<1>1. Queued'
  <2> SUFFICES ASSUME NEW r \in Jobs, WillTake(r)' PROVE jobStatus'[r] = "queued"
    BY DEF Queued
  <2>1. CASE r = q
    BY <2>1
  <2>2. CASE r # q
    <3>1. WillTake(r)
      BY <2>2, OthersInCharge
    <3>2. jobStatus'[r] = jobStatus[r]
      BY <2>2 DEF Others
    <3> QED
      BY <3>1, <3>2 DEF Queued
  <2> QED
    BY <2>1, <2>2
<1>2. Served'
  <2> SUFFICES ASSUME NEW f \in Files, Waiting(f)'
               PROVE  \E r \in Jobs : FileOf[r] = f /\ InCharge(r)'
    BY DEF Served
  <2>1. CASE q \in Jobs /\ f = FileOf[q] /\ InCharge(q)'
    BY <2>1
  <2>2. CASE Waiting(f)
    <3>1. PICK r \in Jobs : FileOf[r] = f /\ InCharge(r)
      BY <2>2 DEF Served
    <3>2. CASE r = q
      BY <3>1, <3>2
    <3>3. CASE r # q
      <4>1. InCharge(r)'
        BY <3>1, <3>3, OthersInCharge
      <4> QED
        BY <3>1, <4>1
    <3> QED
      BY <3>2, <3>3
  <2> QED
    BY <2>1, <2>2
<1> QED
  BY <1>1, <1>2

(* A request before EnqueueConversion has no message.                      *)
LEMMA BegunInCharge ==
  ASSUME Orderly, NEW r \in Jobs, at[r] \in Begun, UNCHANGED messages
  PROVE  /\ InCharge(r) <=> at[r] = "latest"
         /\ InCharge(r)' <=> at'[r] \in {"latest", "enqueue"}
         /\ ~WillTake(r) /\ ~WillTake(r)' /\ ~Finishing(r) /\ ~Finishing(r)'
<1>1. enq[r] = "none" /\ enq'[r] = "none"
  BY DEF Orderly, Unpublished, messages
<1>2. /\ ~InQueue(r)
      /\ \A w \in Workers : ~Carries(w, r)
  BY <1>1 DEF Orderly, OneMessage, OneCarrier
<1>3. ~InQueue(r)' /\ UNCHANGED <<job, pc>>
  BY <1>2 DEF InQueue, messages
<1>4. \A w \in Workers, S \in {Working, {"jobConverted"}, {"delivered", "publishRetry"}} :
        ~Handles(w, r, S) /\ ~Handles(w, r, S)'
  BY <1>2, <1>3 DEF Handles, Carries, Working, Idle
<1> QED
  BY <1>1, <1>2, <1>3, <1>4 DEF InCharge, HandingOver, Finishing, WillTake, Begun

(* What a call does to the file row and to the place of the request.       *)
LEMMA FileCallRow ==
  ASSUME RequestsTypeOK, NEW r \in Jobs, NEW from, NEW status, NEW ok, NEW fail,
         FileCall(r, from, status, ok, fail)
  PROVE  /\ at[r] = from /\ at'[r] \in {ok, fail}
         /\ \A f \in Files \ {FileOf[r]} : fileStatus'[f] = fileStatus[f]
         /\ fileStatus'[FileOf[r]] \in {fileStatus[FileOf[r]], status}
         /\ at'[r] = ok /\ ok # fail => fileStatus'[FileOf[r]] = status
         /\ Untroubled' => /\ Untroubled
                           /\ at'[r] = ok /\ fileStatus'[FileOf[r]] = status
         /\ UNCHANGED <<jobStatus, history, retryOf>>
<1>1. PICK a \in Replies(r) :
        /\ fileStatus' = IF a = "error" THEN fileStatus
                         ELSE [fileStatus EXCEPT ![FileOf[r]] = status]
        /\ at' = [at EXCEPT ![r] = IF a = "ok" THEN ok ELSE fail]
        /\ Bill(r, a)
  BY DEF FileCall
<1>2. at[r] = from /\ UNCHANGED <<gone, jobStatus, history, retryOf>>
  BY DEF FileCall
<1>3. FileOf[r] \in Files
  BY TablesAssumption
<1>4. Untroubled' => Untroubled /\ a = "ok"
  BY <1>1, <1>2, RequestAnswered
<1> QED
  BY <1>1, <1>2, <1>3, <1>4 DEF RequestsTypeOK

LEMMA PromiseBegun ==
  ASSUME Orderly, Promise, NEW r \in Jobs, Untroubled',
         \/ Find(r) \/ Stat(r) \/ Remove(r) \/ Delete(r) \/ MarkReady(r) \/ MarkRetrying(r)
         \/ LatestForFile(r)
  PROVE  Queued' /\ Served'
<1> USE DEF Waiting
<1>t. RequestsTypeOK /\ r \in Bodies /\ FileOf[r] \in Files
  BY TablesAssumption DEF Orderly, Bodies
<1>m. UNCHANGED messages /\ Others(r)
  BY HandlersKeepMessages, OthersHandler DEF Handle
<1>b. at[r] \in Begun
  BY DEF Find, Stat, Remove, Delete, MarkReady, MarkRetrying, FileCall, LatestForFile, Begun
<1>c. /\ InCharge(r) <=> at[r] = "latest"
      /\ InCharge(r)' <=> at'[r] \in {"latest", "enqueue"}
      /\ ~WillTake(r)'
  BY <1>m, <1>b, BegunInCharge
<1>p. ASSUME Untroubled,
             \A f \in Files : Waiting(f)' => Waiting(f) \/ (f = FileOf[r] /\ InCharge(r)'),
             InCharge(r) => InCharge(r)'
      PROVE  Queued' /\ Served'
  BY <1>t, <1>m, <1>c, <1>p, PromiseKept DEF Promise
<1>f. ASSUME NEW from, NEW status, NEW ok, NEW fail, FileCall(r, from, status, ok, fail),
             from # "latest",
             status \in {"ready", "converting"} =>
               status = fileStatus[FileOf[r]] \/ ok \in {"latest", "enqueue"}
      PROVE  Queued' /\ Served'
  <2>1. /\ at[r] = from /\ at'[r] = ok /\ Untroubled
        /\ \A f \in Files \ {FileOf[r]} : fileStatus'[f] = fileStatus[f]
        /\ fileStatus'[FileOf[r]] = status
    BY <1>f, <1>t, FileCallRow
  <2>2. \A f \in Files : Waiting(f)' => Waiting(f) \/ (f = FileOf[r] /\ InCharge(r)')
    BY <1>c, <1>f, <2>1
  <2> QED
    BY <1>c, <1>f, <1>p, <2>1, <2>2
<1>1. CASE Find(r) \/ Stat(r) \/ Delete(r)
  BY <1>1, <1>f DEF Find, Stat, Delete, FileRow
<1>2. CASE MarkReady(r)
  BY <1>2, <1>f DEF MarkReady, FileRow
<1>3. CASE MarkRetrying(r)
  BY <1>3, <1>f DEF MarkRetrying, FileRow
<1>4. CASE Remove(r) \/ LatestForFile(r)
  <2>1. PICK a \in Replies(r) : /\ Bill(r, a)
                                /\ \/ at'[r] = "delete" /\ at[r] = "remove"
                                   \/ at'[r] = IF a = "ok" THEN "enqueue" ELSE "error"
    BY <1>4, <1>t DEF Remove, LatestForFile, RequestsTypeOK
  <2>2. UNCHANGED <<gone, fileStatus>>
    BY <1>4 DEF Remove, LatestForFile, tables
  <2>3. Untroubled /\ a = "ok"
    BY <1>t, <2>1, <2>2, RequestAnswered
  <2> QED
    BY <1>c, <1>p, <2>1, <2>2, <2>3
<1> QED
  BY <1>1, <1>2, <1>3, <1>4
LEMMA PutInQueue ==
  ASSUME RequestsTypeOK, NEW r \in Jobs, MainAfter(r, FALSE, main[<<r, FALSE>>] + 1)
  PROVE  InQueue(r)'
<1>1. main[<<r, FALSE>>] \in Nat
  BY QueueTypes
<1>2. main'[<<r, FALSE>>] = main[<<r, FALSE>>] + 1
  BY DEF MainAfter
<1>3. main'[<<r, FALSE>>] > 0
  BY <1>1, <1>2
<1> QED
  BY <1>3 DEF InQueue

(* The calls of EnqueueConversion, and the answer.                         *)
LEMMA PromiseEnqueue ==
  ASSUME Orderly, Orderly', Promise, NEW r \in Jobs, Untroubled',
         \/ Create(r) \/ CreateFails(r) \/ Publish(r) \/ MarkRefused(r)
         \/ Respond(r) \/ Disconnect(r) \/ Abandon(r)
  PROVE  Queued' /\ Served'
<1> USE DEF Waiting
<1>t. RequestsTypeOK /\ r \in Bodies /\ FileOf[r] \in Files
  BY TablesAssumption DEF Orderly, Bodies
<1>o. Others(r)
  BY OthersHandler DEF Handle
<1>p. ASSUME Untroubled, \A f \in Files : Waiting(f)' => Waiting(f),
             InCharge(r) => InCharge(r)' \/ ~Waiting(FileOf[r])',
             WillTake(r)' => jobStatus'[r] = "queued"
      PROVE  Queued' /\ Served'
  BY <1>t, <1>o, <1>p, PromiseKept DEF Promise
<1>n. enq'[r] # "enqueued" =>
        ~InQueue(r)' /\ \A w \in Workers, S \in {{"delivered", "publishRetry"}} : ~Handles(w, r, S)'
  BY DEF Orderly, OneMessage, OneCarrier, Handles, Carries, Idle
<1>1. CASE Create(r)
  <2>1. /\ at'[r] = "enqueue" /\ enq'[r] = "created" /\ jobStatus'[r] = "queued"
        /\ UNCHANGED <<fileStatus, gone, spent>>
    BY <1>1, <1>t DEF Create, CreateJob, RequestsTypeOK
  <2>2. InCharge(r)'
    BY <2>1 DEF InCharge, HandingOver
  <2> QED
    BY <1>p, <2>1, <2>2 DEF Untroubled
<1>2. CASE CreateFails(r)
  <2>1. PICK a \in Replies(r) \ {"ok"} : Bill(r, a)
    BY <1>2 DEF CreateFails
  <2> QED
    BY <1>2, <1>t, <2>1, RequestAnswered DEF CreateFails
<1>3. CASE Publish(r) /\ Enqueue(r)
  <2>1. /\ enq[r] = "created" /\ UNCHANGED <<jobStatus, fileStatus, gone, spent>>
        /\ MainAfter(r, FALSE, main[<<r, FALSE>>] + 1)
    BY <1>3, <1>t, MainPut DEF Publish, Enqueue, tables, requests, RequestsTypeOK
  <2>3. InCharge(r)'
    BY <1>t, <2>1, PutInQueue DEF InCharge
  <2>4. Untroubled /\ Queued
    BY <2>1 DEF Promise, Untroubled
  <2>5. jobStatus[r] = "queued"
    BY <2>1, <2>4 DEF Queued, WillTake
  <2> QED
    BY <1>p, <2>1, <2>3, <2>4, <2>5
<1>4. CASE Publish(r) /\ EnqueueRefused(r)
  <2>1. /\ at'[r] = "enqueue" /\ enq'[r] = "markJob" /\ UNCHANGED <<fileStatus, gone>>
        /\ spent' = [spent EXCEPT !["refused"] = @ + 1]
    BY <1>4, <1>t DEF Publish, EnqueueRefused, Spend, tables, requests, RequestsTypeOK
  <2>2. Untroubled
    BY <1>t, <2>1 DEF Untroubled, RequestsTypeOK, Faults
  <2>3. InCharge(r)'
    BY <2>1 DEF InCharge, HandingOver
  <2>4. ~WillTake(r)'
    BY <1>n, <2>1 DEF WillTake
  <2> QED
    BY <1>p, <2>1, <2>2, <2>3, <2>4
<1>5. CASE MarkRefused(r)
  <2>1. /\ at'[r] = "enqueue" /\ gone = {} /\ UNCHANGED gone
        /\ enq[r] \in {"markJob", "markFile"}
        /\ enq'[r] = IF enq[r] = "markJob" THEN "markFile" ELSE "refused"
    BY <1>5, <1>t, MarkRefusedMoves DEF requests, Untroubled, RequestsTypeOK
  <2>2. MarkEnqueueFailed(r)
    BY <1>5, <2>1 DEF MarkRefused
  <2>3. ~Spend("db")
    <3>1. spent'["db"] = 0 /\ spent["db"] \in Nat
      BY <1>t DEF Untroubled, RequestsTypeOK, Faults
    <3>2. Spend("db") => spent'["db"] = spent["db"] + 1
      BY <1>t DEF Spend, RequestsTypeOK, Faults
    <3> QED
      BY <3>1, <3>2
  <2>4. UNCHANGED spent /\ Untroubled
    BY <2>1, <2>2, <2>3 DEF MarkEnqueueFailed, Untroubled
  <2>5. ~WillTake(r)'
    BY <1>n, <2>1 DEF WillTake
  <2>6. CASE enq[r] = "markJob"
    <3>1. UNCHANGED fileStatus
      BY <2>2, <2>3, <2>6 DEF MarkEnqueueFailed
    <3>2. InCharge(r)'
      BY <2>1, <2>6 DEF InCharge, HandingOver
    <3> QED
      BY <1>p, <2>4, <2>5, <3>1, <3>2
  <2>7. CASE enq[r] = "markFile"
    <3>1. fileStatus' = [fileStatus EXCEPT ![FileOf[r]] = "failed"]
      BY <2>2, <2>3, <2>7 DEF MarkEnqueueFailed
    <3>2. ~Waiting(FileOf[r])' /\ \A f \in Files : Waiting(f)' => Waiting(f)
      BY <1>t, <3>1 DEF RequestsTypeOK
    <3> QED
      BY <1>p, <2>4, <2>5, <3>2
  <2> QED
    BY <2>1, <2>6, <2>7
<1>6. CASE Respond(r)
  <2>1. UNCHANGED <<enq, jobStatus, fileStatus, gone, spent, main, retry, pc, job>>
        /\ enq[r] \in {"enqueued", "refused"} /\ at[r] = "enqueue"
        /\ at'[r] \in {"done", "unavailable"}
    BY <1>6, <1>t DEF Respond, vars, tables, queues, locals, RequestsTypeOK
  <2>2. (InCharge(r)' <=> InCharge(r)) /\ (WillTake(r)' <=> WillTake(r))
    BY <2>1 DEF InCharge, HandingOver, WillTake, InQueue, Handles
  <2>3. Untroubled /\ Queued
    BY <2>1 DEF Untroubled, Promise
  <2> QED
    BY <1>p, <2>1, <2>2, <2>3 DEF Queued
<1>7. CASE Disconnect(r)
  BY <1>7 DEF Disconnect, Untroubled
<1>8. CASE Abandon(r)
  <2>1. spent'["apicrash"] = spent["apicrash"] + 1 /\ spent["apicrash"] \in Nat
    BY <1>8, <1>t DEF Abandon, Spend, RequestsTypeOK, Faults
  <2> QED
    BY <2>1 DEF Untroubled
<1> QED
  BY <1>1, <1>2, <1>3, <1>4, <1>5, <1>6, <1>7, <1>8 DEF Publish

LEMMA PromiseBroker ==
  ASSUME Orderly, Promise, Broker, UNCHANGED requests, Untroubled'
  PROVE  Queued' /\ Served'
<1> USE DEF Waiting
<1>u. Untroubled /\ Queued /\ Served /\ UNCHANGED <<fileStatus, jobStatus>>
  BY DEF Broker, RetryExpires, Deliver, requests, Untroubled, Promise, tables
<1>1. ASSUME NEW b \in Bodies, RetryExpires(b) PROVE Queued' /\ Served'
  <2>1. Others(b)
    BY <1>1, OthersRetryExpires
  <2>2. b \in Jobs => WillTake(b) /\ InCharge(b)'
    <3> SUFFICES ASSUME b \in Jobs PROVE WillTake(b) /\ InCharge(b)'
      OBVIOUS
    <3>1. retry[b] > 0 /\ MainAfter(b, FALSE, main[<<b, FALSE>>] + 1)
      BY <1>1, MainPut DEF RetryExpires, Orderly, RequestsTypeOK
    <3>2. InQueue(b)'
      BY <3>1, PutInQueue DEF Orderly
    <3> QED
      BY <3>1, <3>2 DEF WillTake, InCharge, InQueue
  <2> QED
    BY <1>u, <2>1, <2>2, PromiseKept DEF Queued
<1>2. ASSUME NEW w \in Workers, NEW b \in Bodies, NEW r \in BOOLEAN, Deliver(w, b, r)
      PROVE  Queued' /\ Served'
  <2>1. Others(b)
    BY <1>2, OthersDeliver
  <2>2. main[<<b, FALSE>>] > 0 /\ pc'[w] = "delivered" /\ job'[w] = b
    BY <1>2, DeliverTakes
  <2>3. WillTake(b) /\ InCharge(b)'
    BY <2>2 DEF WillTake, InCharge, InQueue, Handles, Working
  <2> QED
    BY <1>u, <2>1, <2>3, PromiseKept DEF Queued
<1> QED
  BY <1>1, <1>2 DEF Broker
(* A status write, seen from the rows and from the goroutine.              *)
LEMMA WriteRows ==
  ASSUME Orderly, NEW w \in Workers, job[w] \in Jobs,
         NEW from, NEW newJobs, NEW newFiles, NEW next, NEW onError,
         Write(w, from, newJobs, newFiles, next, onError), UNCHANGED requests
  PROVE  /\ pc[w] = from /\ pc'[w] \in {next, onError} /\ UNCHANGED job
         /\ \/ UNCHANGED <<jobStatus, fileStatus>>
            \/ jobStatus' = newJobs /\ fileStatus' = newFiles
         /\ pc'[w] = next /\ next # onError => jobStatus' = newJobs /\ fileStatus' = newFiles
         /\ Untroubled' => /\ Untroubled
                           /\ pc'[w] = next /\ jobStatus' = newJobs /\ fileStatus' = newFiles
<1>1. PICK a \in Answers(w) :
        /\ IF a = "error" THEN UNCHANGED <<jobStatus, fileStatus>>
           ELSE jobStatus' = newJobs /\ fileStatus' = newFiles
        /\ Goto(w, IF a = "ok" THEN next ELSE onError)
        /\ Charge(w, a)
  BY DEF Write
<1>2. UNCHANGED gone
  BY DEF requests
<1>3. Untroubled' => Untroubled /\ a = "ok"
  BY <1>1, <1>2, GoroutineAnswered DEF Orderly
<1>4. pc'[w] = (IF a = "ok" THEN next ELSE onError) /\ pc[w] = from /\ UNCHANGED job
  BY <1>1 DEF Write, Goto, Orderly, RequestsTypeOK
<1> QED
  BY <1>1, <1>3, <1>4

(* A goroutine that goes on with a job is alone with it before and after.  *)
LEMMA GoesOnAlone ==
  ASSUME Orderly, NEW w \in Workers, NEW q \in Jobs, q = job[w], Goroutine(w),
         ~PublishRetry(w), ~Ack(w), UNCHANGED requests
  PROVE  /\ InCharge(q) <=> pc[w] \in Working
         /\ InCharge(q)' <=> pc'[w] \in Working
         /\ Finishing(q) <=> pc[w] = "jobConverted"
         /\ Finishing(q)' <=> pc'[w] = "jobConverted"
         /\ WillTake(q) <=> pc[w] \in {"delivered", "publishRetry"}
         /\ WillTake(q)' <=> pc'[w] \in {"delivered", "publishRetry"}
<1>1. /\ pc[w] \notin {Idle, "ack"} /\ pc'[w] \in Steps \ {Idle}
      /\ \A v \in Workers : v # w => pc'[v] = pc[v]
      /\ UNCHANGED <<main, retry, job, enq, at>>
  BY GoroutineGoesOn DEF Orderly, RequestsTypeOK, requests
<1>2. Carries(w, q)
  BY <1>1 DEF Carries
<1>3. /\ enq[q] = "enqueued" /\ ~InQueue(q)
      /\ InCharge(q) <=> pc[w] \in Working
      /\ Finishing(q) <=> pc[w] = "jobConverted"
      /\ WillTake(q) <=> pc[w] \in {"delivered", "publishRetry"}
  BY <1>2, CarriersAlone DEF CarrierAlone
<1>4. \A v \in Workers : Carries(v, q) => v = w
  BY <1>2 DEF Orderly, OneMessage, OneCarrier
<1>5. \A S \in {Working, {"jobConverted"}, {"delivered", "publishRetry"}} :
        (\E v \in Workers : Handles(v, q, S)') <=> pc'[w] \in S
  BY <1>1, <1>4 DEF Carries, Handles, Working, Idle
<1>6. enq'[q] = "enqueued" /\ ~InQueue(q)' /\ ~HandingOver(q)'
  BY <1>1, <1>3 DEF InQueue, HandingOver, Orderly, Unpublished, Begun
<1> QED
  BY <1>3, <1>5, <1>6 DEF InCharge, Finishing, WillTake

LEMMA PromiseGoesOn ==
  ASSUME Orderly, Promise, NEW w \in Workers, NEW q \in Jobs, q = job[w], Goroutine(w),
         ~PublishRetry(w), ~Ack(w), UNCHANGED requests, Untroubled,
         \A f \in Files : Waiting(f)' => Waiting(f) \/ (f = FileOf[q] /\ pc'[w] \in Working),
         pc[w] \in Working => pc'[w] \in Working \/ ~Waiting(FileOf[q])',
         pc'[w] \in {"delivered", "publishRetry"} => jobStatus'[q] = "queued"
  PROVE  Queued' /\ Served'
<1>1. /\ InCharge(q) <=> pc[w] \in Working
      /\ InCharge(q)' <=> pc'[w] \in Working
      /\ WillTake(q)' <=> pc'[w] \in {"delivered", "publishRetry"}
  BY GoesOnAlone
<1>2. Others(q) /\ q \in Bodies
  BY OthersGoroutine DEF Bodies
<1> QED
  BY <1>1, <1>2, PromiseKept DEF Promise

LEMMA PromiseGoroutine ==
  ASSUME Orderly, Promise, NEW w \in Workers, NEW q, q = job[w], Goroutine(w),
         UNCHANGED requests, Untroubled'
  PROVE  Queued' /\ Served'
<1> DEFINE kept == Queued' /\ Served'
<1>t. RequestsTypeOK /\ UNCHANGED <<gone, at>>
  BY DEF Orderly, requests
<1>j. pc[w] \in Converting \cup {"requeue"} => q \in Jobs /\ FileOf[q] \in Files
  BY TablesAssumption DEF Orderly, Claimed
<1>n. q \notin Jobs => q = NoJob
  BY <1>t DEF RequestsTypeOK, Bodies
<1>0. ASSUME UNCHANGED <<fileStatus, spent>>, Others(NoJob) PROVE kept
  BY <1>0, <1>t, TablesAssumption, PromiseKept DEF Promise, Untroubled, Bodies, Waiting
<1>1. CASE Undecodable(w) \/ (q \notin Jobs /\ PublishRetry(w)) \/ (q \notin Jobs /\ PublishDead(w))
  BY <1>0, <1>1, <1>n, OthersGoroutine DEF Undecodable, PublishRetry, PublishDead, tables
<1>2. CASE Claim(w)
  <2>1. PICK a \in Answers(w) :
          /\ IF Claimable(q, redelivered[w]) /\ a # "error"
             THEN jobStatus' = [jobStatus EXCEPT ![q] = "converting"] ELSE UNCHANGED jobStatus
          /\ Goto(w, IF a # "ok" THEN "publishRetry"
                     ELSE IF Claimable(q, redelivered[w]) THEN "markFile" ELSE "ack")
          /\ Charge(w, a)
    BY <1>2 DEF Claim
  <2>2. q \in Jobs /\ pc[w] = "delivered" /\ UNCHANGED fileStatus
    BY <1>2 DEF Claim
  <2>3. Untroubled /\ a = "ok"
    BY <1>t, <2>1, GoroutineAnswered
  <2>4. jobStatus[q] = "queued"
    BY <2>2, <2>3 DEF Promise, Queued, WillTake, Handles
  <2>5. pc'[w] = "markFile"
    BY <1>t, <2>1, <2>3, <2>4 DEF Goto, Claimable, RequestsTypeOK
  <2>6. ~PublishRetry(w) /\ ~Ack(w)
    BY <2>2 DEF PublishRetry, Ack
  <2> QED
    BY <2>2, <2>3, <2>5, <2>6, PromiseGoesOn DEF Waiting, Working
<1>3. CASE Produce(w) \/ (q \in Jobs /\ PublishDead(w))
  <2>1. /\ UNCHANGED <<fileStatus, spent>> /\ q \in Jobs
        /\ \/ pc[w] = "publishDead" /\ pc'[w] = "ack"
           \/ pc[w] = "convert" /\ pc'[w] \in {"fileConverted", "fileFailed"}
    BY <1>3, <1>t, <1>j DEF Produce, PublishDead, Goto, tables, RequestsTypeOK, Converting
  <2>2. ~PublishRetry(w) /\ ~Ack(w) /\ Untroubled
    BY <1>t, <2>1 DEF PublishRetry, Ack, Untroubled
  <2> QED
    BY <2>1, <2>2, PromiseGoesOn DEF Waiting, Working
<1>w. ASSUME NEW from \in Converting \cup {"requeue"}, NEW jobs, NEW files, NEW next, NEW onError,
             Write(w, from, jobs, files, next, onError)
      PROVE  /\ q \in Jobs /\ FileOf[q] \in Files /\ pc[w] = from /\ pc'[w] = next
             /\ jobStatus' = jobs /\ fileStatus' = files
             /\ Untroubled /\ ~PublishRetry(w) /\ ~Ack(w)
  <2>1. q \in Jobs /\ FileOf[q] \in Files /\ pc[w] = from
    BY <1>w, <1>j DEF Write
  <2> QED
    BY <1>w, <2>1, WriteRows DEF PublishRetry, Ack, Converting
<1>f. ASSUME NEW s, fileStatus' = FileIs(w, s), FileOf[q] \in Files
      PROVE  /\ Waiting(FileOf[q])' <=> s \in {"ready", "converting"}
             /\ \A f \in Files : Waiting(f)' =>
                  Waiting(f) \/ (f = FileOf[q] /\ s \in {"ready", "converting"})
  BY <1>f, <1>t DEF FileIs, Waiting, RequestsTypeOK
<1>4. CASE MarkFileConverting(w)
  <2>1. /\ q \in Jobs /\ FileOf[q] \in Files /\ pc[w] = "markFile" /\ pc'[w] = "markJob"
        /\ fileStatus' = FileIs(w, "converting")
        /\ Untroubled /\ ~PublishRetry(w) /\ ~Ack(w)
    BY <1>4, <1>w DEF MarkFileConverting, Converting
  <2> QED
    BY <2>1, <1>f, PromiseGoesOn DEF Working
<1>5. CASE MarkJobConverting(w) \/ MarkJobConverted(w)
  BY <1>5, <1>w, <1>t, PromiseGoesOn
     DEF MarkJobConverting, MarkJobConverted, Waiting, Working, Converting
<1>6. CASE MarkFileConverted(w) \/ MarkFileFailed(w)
  <2>1. PICK s \in {"converted", "failed"} :
          /\ q \in Jobs /\ FileOf[q] \in Files /\ pc'[w] \in {"jobConverted", "jobFailed"}
          /\ fileStatus' = FileIs(w, s)
          /\ Untroubled /\ ~PublishRetry(w) /\ ~Ack(w)
    BY <1>6, <1>w DEF MarkFileConverted, MarkFileFailed, Converting
  <2>2. ~Waiting(FileOf[q])' /\ \A f \in Files : Waiting(f)' => Waiting(f)
    BY <2>1, <1>f
  <2> QED
    BY <2>1, <2>2, PromiseGoesOn
<1>7. CASE MarkJobFailed(w)
  BY <1>7, <1>w, <1>t, PromiseGoesOn
     DEF MarkJobFailed, AfterFailure, Waiting, Working, Converting
<1>8. CASE Requeue(w)
  <2>1. /\ q \in Jobs /\ FileOf[q] \in Files /\ pc[w] = "requeue" /\ pc'[w] = "publishRetry"
        /\ fileStatus' = FileIs(w, "ready") /\ jobStatus' = JobIs(w, "queued")
        /\ Untroubled /\ ~PublishRetry(w) /\ ~Ack(w)
    BY <1>8, <1>w DEF Requeue
  <2>2. jobStatus'[q] = "queued"
    BY <1>t, <2>1 DEF JobIs, RequestsTypeOK
  <2> QED
    BY <2>1, <2>2, <1>f, PromiseGoesOn DEF Working
<1>9. CASE q \in Jobs /\ PublishRetry(w)
  <2>1. /\ pc[w] = "publishRetry" /\ UNCHANGED <<jobStatus, fileStatus, spent>>
        /\ retry'[q] = retry[q] + 1 /\ retry[q] \in Nat /\ q \in Bodies
    BY <1>9, <1>t, WorkersAssumption
       DEF PublishRetry, Sent, tables, RequestsTypeOK, Bodies
  <2>2. InCharge(q)' /\ WillTake(q)
    <3>1. retry'[q] > 0
      BY <2>1
    <3>2. InQueue(q)'
      BY <3>1 DEF InQueue
    <3>3. Handles(w, q, {"delivered", "publishRetry"})
      BY <2>1 DEF Handles
    <3> QED
      BY <3>2, <3>3 DEF InCharge, WillTake
  <2>3. Untroubled /\ Queued /\ Served
    BY <1>t, <2>1 DEF Promise, Untroubled
  <2>4. Others(q)
    BY OthersGoroutine
  <2>5. jobStatus'[q] = "queued" /\ \A f \in Files : Waiting(f)' => Waiting(f)
    BY <1>9, <2>1, <2>2, <2>3 DEF Queued, Waiting
  <2> QED
    BY <2>1, <2>2, <2>3, <2>4, <2>5, PromiseKept
<1>10. CASE Ack(w)
  <2>1. /\ UNCHANGED <<tables, spent, main, retry, enq>> /\ pc[w] = "ack"
        /\ \A v \in Workers : /\ pc'[v] = IF v = w THEN Idle ELSE pc[v]
                              /\ job'[v] = IF v = w THEN NoJob ELSE job[v]
    BY <1>10 DEF Ack, Forget, queues
  <2>2. Others(NoJob)
    BY <1>t, <2>1 DEF Others, InQueue, Carries, tables
  <2> QED
    BY <1>0, <2>1, <2>2 DEF tables
<1> QED
  BY <1>1, <1>2, <1>3, <1>4, <1>5, <1>6, <1>7, <1>8, <1>9, <1>10 DEF Goroutine
LEMMA PromiseInit == RequestsInit => Promise
<1> SUFFICES ASSUME RequestsInit PROVE Queued /\ Served
  BY DEF Promise
<1>1. Orderly
  BY OrderlyInit
<1>2. /\ \A f \in Files : fileStatus[f] = "absent"
      /\ \A r \in Jobs : enq[r] = "none"
      /\ \A w \in Workers : pc[w] = Idle
  BY DEF RequestsInit, EmptyQueue
<1>3. \A r \in Jobs : ~WillTake(r)
  BY <1>1, <1>2 DEF WillTake, Orderly, OneMessage, OneCarrier, Handles, Idle
<1> QED
  BY <1>2, <1>3 DEF Queued, Served, Waiting

LEMMA PromiseStep ==
  ASSUME Orderly, Orderly', Promise, [RequestsNext]_allvars
  PROVE  Promise'
<1> SUFFICES ASSUME Untroubled' PROVE Queued' /\ Served'
  BY DEF Promise
<1>t. RequestsTypeOK
  BY DEF Orderly
<1>1. ASSUME NEW f \in Files, UploadURL(f) \/ Upload(f) PROVE Queued' /\ Served'
  <2>1. UNCHANGED <<jobStatus, main, retry, pc, job, enq, spent, at, gone>>
    BY <1>1 DEF UploadURL, Upload, vars, tables, queues, locals, requests
  <2>2. NoJob \in Bodies /\ NoJob \notin Jobs /\ Others(NoJob)
    BY <2>1, TablesAssumption DEF Others, InQueue, Bodies
  <2>3. \A g \in Files : Waiting(g)' => Waiting(g)
    BY <1>1, <1>t DEF UploadURL, Upload, Waiting, vars, tables, RequestsTypeOK
  <2> QED
    BY <2>1, <2>2, <2>3, PromiseKept DEF Promise, Untroubled
<1>2. ASSUME NEW r \in Jobs, Find(r) \/ Handle(r) \/ Disconnect(r) \/ Abandon(r)
      PROVE  Queued' /\ Served'
  BY <1>2, PromiseBegun, PromiseEnqueue DEF Handle
<1>3. CASE Broker /\ UNCHANGED requests
  BY <1>3, PromiseBroker
<1>4. CASE (\E w \in Workers : Goroutine(w)) /\ UNCHANGED requests
  BY <1>4, PromiseGoroutine
<1>5. CASE UNCHANGED allvars
  <2>1. NoJob \in Bodies /\ NoJob \notin Jobs /\ Others(NoJob)
    BY <1>5, TablesAssumption
       DEF Others, InQueue, Bodies, allvars, requests, vars, tables, queues, locals
  <2>2. Untroubled /\ \A f \in Files : Waiting(f)' => Waiting(f)
    BY <1>5 DEF allvars, requests, vars, tables, Untroubled, Waiting
  <2> QED
    BY <2>1, <2>2, PromiseKept DEF Promise
<1> QED
  BY <1>1, <1>2, <1>3, <1>4, <1>5 DEF RequestsNext

(* While no call of a handler or a goroutine has failed, no client has hung *)
(* up and the API is up, a file in a waiting status is waiting for someone: *)
(* for any number of attempts, retries and confirms, and although messages  *)
(* may be refused and rows are written without a transaction.               *)
THEOREM NoneStranded == RequestsSpec => []NoFileStranded
<1>1. Orderly /\ Promise => NoFileStranded
  <2> SUFFICES ASSUME Orderly, Promise, Untroubled, NEW f \in Files, Waiting(f)
               PROVE  Attended(f)
    BY DEF NoFileStranded
  <2>1. PICK r \in Jobs : FileOf[r] = f /\ InCharge(r)
    BY DEF Promise, Served
  <2> SUFFICES HandingOver(r) \/ WillBeClaimed(r) \/ InProgress(r)
    BY <2>1 DEF Attended, HandingOver
  <2>q. WillTake(r) => Claimable(r, FALSE)
    BY DEF Promise, Queued, Claimable
  <2>2. CASE HandingOver(r)
    BY <2>2
  <2>3. CASE InQueue(r)
    <3>1. Claimable(r, FALSE)
      BY <2>3, <2>q DEF WillTake
    <3> QED
      BY <2>3, <3>1 DEF InQueue, WillBeClaimed
  <2>4. ASSUME NEW w \in Workers, Handles(w, r, Working)
        PROVE  WillBeClaimed(r) \/ InProgress(r)
    <3>1. redelivered[w] = FALSE /\ unacked[w] = TRUE
      BY <2>4 DEF Orderly, OneMessage, Fresh, Handles, Working, Idle
    <3>2. CASE pc[w] = "delivered"
      <4>1. Claimable(r, FALSE)
        BY <2>4, <2>q, <3>2 DEF WillTake, Handles
      <4> QED
        BY <2>4, <3>1, <3>2, <4>1 DEF WillBeClaimed, Handles
    <3>3. CASE pc[w] # "delivered"
      <4>1. pc[w] \in Converting \cup Settling
        BY <2>4, <3>3 DEF Handles, Working, Converting, Settling
      <4> QED
        BY <2>4, <3>1, <4>1 DEF InProgress, Handles
    <3> QED
      BY <3>2, <3>3
  <2> QED
    BY <2>1, <2>2, <2>3, <2>4 DEF InCharge
<1>2. RequestsSpec => []Promise
  <2>1. Orderly /\ Orderly' /\ Promise /\ [RequestsNext]_allvars => Promise'
    BY PromiseStep
  <2> QED
    BY <2>1, PromiseInit, OrderlyAlways, PTL DEF RequestsSpec
<1> QED
  BY <1>1, <1>2, OrderlyAlways, PTL
-----------------------------------------------------------------------------
(* One job at a time.  An attempt that fails while its job has attempts    *)
(* left marks the file failed before Requeue puts it back, and a retry may *)
(* come in between: the theorems are about behaviours in which no attempt  *)
(* is put back, as when there is only one, and about files that are        *)
(* confirmed once.                                                         *)
NonePutBack == \A w \in Workers : pc[w] # "requeue"

OneConfirmEach ==
  \A q, r \in Jobs :
    Kind[q] = "confirm" /\ Kind[r] = "confirm" /\ FileOf[q] = FileOf[r] => q = r

Engaged(r) == InCharge(r) \/ Finishing(r)
Free(f) == fileStatus[f] \notin {"ready", "converting", "converted"}

(* A confirm before its update of the file row.                            *)
Early == {"find", "stat", "remove", "delete", "markReady"}
Blank == {"absent", "pending"}

OneInCharge ==
  /\ \A r \in Jobs : InCharge(r) => Waiting(FileOf[r])
  /\ \A r \in Jobs : Finishing(r) => FileRow(r) = "converted"
  /\ \A q, r \in Jobs : FileOf[q] = FileOf[r] /\ Engaged(q) /\ Engaged(r) => q = r

ConfirmFirst ==
  \A r \in Jobs : at[r] \in Early =>
    /\ at[r] = "find" \/ Kind[r] = "confirm"
    /\ Kind[r] = "confirm" => FileRow(r) \in Blank

(* What a step about q may do to the file rows and to who is engaged: only *)
(* the one in charge of a file changes it, only a file that is free finds  *)
(* someone new, and a blank one only its confirm.                          *)
ConfirmOf(q, f) == q \in Jobs /\ f = FileOf[q] /\ Kind[q] = "confirm" /\ at'[q] \notin Early

Opens(q, f) ==
  /\ Free(f)
  /\ fileStatus[f] \in Blank => fileStatus'[f] = "pending" \/ ConfirmOf(q, f)

Responsible(q) ==
  /\ Others(q)
  /\ \A f \in Files : fileStatus'[f] # fileStatus[f] =>
       Opens(q, f) \/ (q \in Jobs /\ f = FileOf[q] /\ InCharge(q))
  /\ q \in Jobs =>
       /\ Engaged(q)' => Engaged(q) \/ Free(FileOf[q])
       /\ InCharge(q)' => Waiting(FileOf[q])'
       /\ Finishing(q)' => FileRow(q)' = "converted"

LEMMA EngagedRow ==
  ASSUME OneInCharge, NEW r \in Jobs, Engaged(r)
  PROVE  ~Free(FileOf[r])
BY DEF OneInCharge, Engaged, Waiting, FileRow, Free

LEMMA OneInChargeKept ==
  ASSUME OneInCharge, NEW q, Responsible(q)
  PROVE  OneInCharge'
<1>f. \A r \in Jobs : FileOf[r] \in Files
  BY TablesAssumption
<1>o. \A r \in Jobs : r # q => /\ InCharge(r)' <=> InCharge(r)
                               /\ Finishing(r)' <=> Finishing(r)
  BY OthersInCharge DEF Responsible
<1>1. ASSUME NEW r \in Jobs, r # q, Engaged(r)'
      PROVE  Engaged(r) /\ ~Free(FileOf[r]) /\ fileStatus'[FileOf[r]] = fileStatus[FileOf[r]]
  <2>1. Engaged(r)
    BY <1>1, <1>o DEF Engaged
  <2>2. ~(q \in Jobs /\ FileOf[r] = FileOf[q] /\ InCharge(q))
    BY <1>1, <2>1 DEF OneInCharge, Engaged
  <2> QED
    BY <2>1, <2>2, <1>f, EngagedRow DEF Responsible, Opens
<1>2. \A r \in Jobs : InCharge(r)' => Waiting(FileOf[r])'
  <2> SUFFICES ASSUME NEW r \in Jobs, InCharge(r)' PROVE Waiting(FileOf[r])'
    OBVIOUS
  <2>1. CASE r = q
    BY <2>1 DEF Responsible
  <2>2. CASE r # q
    <3>1. fileStatus'[FileOf[r]] = fileStatus[FileOf[r]] /\ Waiting(FileOf[r])
      BY <2>2, <1>1, <1>o DEF Engaged, OneInCharge
    <3> QED
      BY <3>1 DEF Waiting
  <2> QED
    BY <2>1, <2>2
<1>3. \A r \in Jobs : Finishing(r)' => FileRow(r)' = "converted"
  <2> SUFFICES ASSUME NEW r \in Jobs, Finishing(r)' PROVE FileRow(r)' = "converted"
    OBVIOUS
  <2>1. CASE r = q
    BY <2>1 DEF Responsible
  <2>2. CASE r # q
    <3>1. fileStatus'[FileOf[r]] = fileStatus[FileOf[r]] /\ FileRow(r) = "converted"
      BY <2>2, <1>1, <1>o DEF Engaged, OneInCharge
    <3> QED
      BY <3>1 DEF FileRow
  <2> QED
    BY <2>1, <2>2
<1>4. ASSUME NEW p \in Jobs, NEW r \in Jobs, FileOf[p] = FileOf[r],
             Engaged(p)', Engaged(r)', p # r
      PROVE  FALSE
  <2>1. CASE p # q /\ r # q
    BY <1>4, <2>1, <1>1 DEF OneInCharge
  <2>2. ASSUME NEW s \in Jobs, q \in Jobs, s # q, FileOf[s] = FileOf[q], Engaged(s)', Engaged(q)'
        PROVE  FALSE
    <3>1. Engaged(s) /\ ~Free(FileOf[q])
      BY <2>2, <1>1
    <3>2. Engaged(q)
      BY <2>2, <3>1 DEF Responsible
    <3> QED
      BY <2>2, <3>1, <3>2 DEF OneInCharge
  <2> QED
    BY <1>4, <2>1, <2>2
<1> QED
  BY <1>2, <1>3, <1>4 DEF OneInCharge
(* A step that engages nobody and leaves the file rows alone.              *)
LEMMA QuietStep ==
  ASSUME OneInCharge, NEW q, Others(q), UNCHANGED fileStatus,
         q \in Jobs => /\ InCharge(q)' => InCharge(q)
                       /\ Finishing(q)' => Finishing(q)
  PROVE  Responsible(q)
BY DEF Responsible, OneInCharge, Engaged, Waiting, FileRow

LEMMA ResponsibleBegun ==
  ASSUME Orderly, OneInCharge, ConfirmFirst, NEW r \in Jobs,
         \/ Find(r) \/ Stat(r) \/ Remove(r) \/ Delete(r) \/ MarkReady(r) \/ MarkRetrying(r)
         \/ LatestForFile(r)
  PROVE  Responsible(r)
<1>t. RequestsTypeOK /\ FileOf[r] \in Files
  BY TablesAssumption DEF Orderly
<1>m. UNCHANGED messages /\ Others(r)
  BY HandlersKeepMessages, OthersHandler DEF Handle
<1>b. at[r] \in Begun
  BY DEF Find, Stat, Remove, Delete, MarkReady, MarkRetrying, FileCall, LatestForFile, Begun
<1>c. /\ InCharge(r) <=> at[r] = "latest"
      /\ InCharge(r)' <=> at'[r] \in {"latest", "enqueue"}
      /\ ~Finishing(r) /\ ~Finishing(r)'
  BY <1>m, <1>b, BegunInCharge
<1>f. ASSUME NEW status, NEW ok, NEW fail, FileCall(r, at[r], status, ok, fail), ok # fail,
             \/ status = FileRow(r)
             \/ /\ Free(FileOf[r])
                /\ FileRow(r) \in Blank => Kind[r] = "confirm" /\ {ok, fail} \cap Early = {},
             fail \notin {"latest", "enqueue"},
             ok \in {"latest", "enqueue"} =>
               Free(FileOf[r]) /\ (status \in {"ready", "converting"} \/ at'[r] = fail)
      PROVE  Responsible(r)
  <2>1. /\ at'[r] \in {ok, fail}
        /\ \A f \in Files \ {FileOf[r]} : fileStatus'[f] = fileStatus[f]
        /\ fileStatus'[FileOf[r]] \in {fileStatus[FileOf[r]], status}
        /\ at'[r] = ok => fileStatus'[FileOf[r]] = status
    BY <1>f, <1>t, FileCallRow
  <2> QED
    BY <1>c, <1>f, <1>m, <2>1
       DEF Responsible, Opens, ConfirmOf, Engaged, Waiting, FileRow
<1>1. CASE Find(r)
  <2>1. \E ok : FileCall(r, "find", FileRow(r), ok, "error")
                /\ ok \in {"rejected", "stat", "markRetrying"}
    BY <1>1 DEF Find
  <2> QED
    BY <1>f, <2>1 DEF FileCall
<1>2. CASE Stat(r)
  <2>1. object[FileOf[r]] \in {"none", "whole", "short", "removed"}
    BY <1>t DEF RequestsTypeOK
  <2>2. \E ok : FileCall(r, "stat", FileRow(r), ok, "rejected")
                /\ ok \in {"rejected", "remove", "markReady"}
    BY <1>2, <2>1 DEF Stat
  <2>3. UNCHANGED fileStatus /\ at'[r] \notin {"latest", "enqueue"}
    BY <2>2, <1>t DEF FileCall, FileRow, RequestsTypeOK
  <2> QED
    BY <1>c, <1>m, <2>3, QuietStep
<1>3. CASE Delete(r) \/ MarkReady(r)
  <2>1. FileRow(r) \in Blank /\ Free(FileOf[r]) /\ Kind[r] = "confirm"
    BY <1>3 DEF Delete, MarkReady, FileCall, ConfirmFirst, Early, Blank, Free, FileRow
  <2>2. CASE Delete(r)
    <3>1. /\ at'[r] = "rejected"
          /\ \A f \in Files \ {FileOf[r]} : fileStatus'[f] = fileStatus[f]
      BY <2>2, <1>t, FileCallRow DEF Delete
    <3> QED
      BY <1>c, <1>m, <2>1, <3>1 DEF Responsible, Opens, ConfirmOf, Engaged, Early
  <2>3. CASE MarkReady(r)
    <3>1. FileCall(r, at[r], "ready", "enqueue", "error")
      BY <2>1, <2>3 DEF MarkReady, FileCall, Blank
    <3> QED
      BY <1>f, <2>1, <3>1 DEF Early
  <2> QED
    BY <1>3, <2>2, <2>3
<1>4. CASE MarkRetrying(r)
  <2>1. CASE FileRow(r) = "failed"
    <3>1. FileCall(r, at[r], "converting", "latest", "error") /\ Free(FileOf[r])
      BY <1>4, <2>1 DEF MarkRetrying, FileCall, Free, FileRow
    <3> QED
      BY <1>f, <2>1, <3>1 DEF Blank
  <2>2. CASE FileRow(r) # "failed"
    <3>1. \E ok \in {"error", "done"} : FileCall(r, "markRetrying", FileRow(r), ok, "error")
      BY <1>4, <2>2 DEF MarkRetrying
    <3>2. UNCHANGED fileStatus /\ at'[r] \notin {"latest", "enqueue"}
      BY <3>1, <1>t DEF FileCall, FileRow, RequestsTypeOK
    <3> QED
      BY <1>c, <1>m, <3>2, QuietStep
  <2> QED
    BY <2>1, <2>2
<1>5. CASE Remove(r)
  <2>1. UNCHANGED fileStatus /\ at'[r] = "delete"
    BY <1>5, <1>t DEF Remove, tables, RequestsTypeOK
  <2> QED
    BY <1>c, <1>m, <2>1, QuietStep
<1>6. CASE LatestForFile(r)
  <2>1. UNCHANGED fileStatus /\ at[r] = "latest"
    BY <1>6 DEF LatestForFile, tables
  <2> QED
    BY <1>c, <1>m, <2>1, QuietStep
<1> QED
  BY <1>1, <1>2, <1>3, <1>4, <1>5, <1>6
LEMMA ResponsibleEnqueue ==
  ASSUME Orderly, Orderly', OneInCharge, NEW r \in Jobs,
         \/ Create(r) \/ CreateFails(r) \/ Publish(r) \/ MarkRefused(r)
         \/ Respond(r) \/ Disconnect(r) \/ Abandon(r)
  PROVE  Responsible(r)
<1>t. RequestsTypeOK /\ FileOf[r] \in Files
  BY TablesAssumption DEF Orderly
<1>o. Others(r)
  BY OthersHandler DEF Handle
<1>n. enq'[r] # "enqueued" => ~InQueue(r)' /\ ~Finishing(r)'
                              /\ \A w \in Workers : ~Handles(w, r, Working)'
  BY DEF Orderly, OneMessage, OneCarrier, Handles, Carries, Idle, Finishing, Working
<1>1. CASE Create(r)
  <2>1. UNCHANGED <<fileStatus, at>> /\ at[r] = "enqueue" /\ enq[r] = "none" /\ enq'[r] = "created"
    BY <1>1, <1>t DEF Create, CreateJob, RequestsTypeOK
  <2> QED
    BY <1>o, <1>n, <2>1, QuietStep DEF InCharge, HandingOver
<1>2. CASE CreateFails(r)
  <2>1. UNCHANGED <<fileStatus, enq>> /\ enq[r] = "none" /\ at'[r] = "unavailable"
    BY <1>2, <1>t DEF CreateFails, RequestsTypeOK
  <2> QED
    BY <1>o, <1>n, <2>1, QuietStep DEF InCharge, HandingOver
<1>3. CASE Publish(r)
  <2>1. UNCHANGED <<fileStatus, at, pc, job>> /\ at[r] = "enqueue" /\ enq[r] = "created"
    BY <1>3 DEF Publish, Enqueue, EnqueueRefused, requests, tables, locals
  <2> QED
    BY <1>o, <2>1, QuietStep DEF InCharge, HandingOver, Finishing, Handles
<1>4. CASE MarkRefused(r)
  <2>1. /\ at[r] = "enqueue" /\ enq[r] \in {"markJob", "markFile"}
        /\ enq'[r] = IF enq[r] = "markJob" THEN "markFile" ELSE "refused"
    BY <1>4, <1>t, MarkRefusedMoves DEF RequestsTypeOK
  <2>2. InCharge(r)
    BY <2>1 DEF InCharge, HandingOver
  <2>3. CASE enq[r] = "markJob"
    <3>1. UNCHANGED fileStatus
      BY <1>4, <2>3 DEF MarkRefused, MarkEnqueueFailed, tables
    <3> QED
      BY <1>o, <1>n, <2>1, <2>2, <2>3, <3>1, QuietStep
  <2>4. CASE enq[r] = "markFile"
    <3>1. \A f \in Files \ {FileOf[r]} : fileStatus'[f] = fileStatus[f]
      BY <1>4, <1>t, <2>4 DEF MarkRefused, MarkEnqueueFailed, tables, RequestsTypeOK
    <3>2. ~InCharge(r)' /\ ~Finishing(r)'
      BY <1>n, <2>1, <2>4 DEF InCharge, HandingOver, Orderly, Unpublished, Begun
    <3> QED
      BY <1>o, <2>2, <3>1, <3>2 DEF Responsible, Engaged
  <2> QED
    BY <2>1, <2>3, <2>4
<1>5. CASE Respond(r) \/ Disconnect(r) \/ Abandon(r)
  <2>1. UNCHANGED <<fileStatus, main, retry, pc, job, enq>>
        /\ at'[r] \in {at[r], "done", "unavailable", "abandoned"}
    BY <1>5, <1>t DEF Respond, Disconnect, Abandon, vars, tables, queues, locals, RequestsTypeOK
  <2>2. (InCharge(r)' => InCharge(r)) /\ (Finishing(r)' => Finishing(r))
    BY <2>1 DEF InCharge, HandingOver, Finishing, InQueue, Handles
  <2> QED
    BY <1>o, <2>1, <2>2, QuietStep
<1> QED
  BY <1>1, <1>2, <1>3, <1>4, <1>5

LEMMA ResponsibleBroker ==
  ASSUME Orderly, OneInCharge, Broker, UNCHANGED requests
  PROVE  \E q \in Bodies : Responsible(q)
<1>u. UNCHANGED fileStatus
  BY DEF Broker, RetryExpires, Deliver, tables
<1>1. ASSUME NEW b \in Bodies, RetryExpires(b) PROVE Responsible(b)
  <2>1. Others(b) /\ UNCHANGED <<pc, job>>
    BY <1>1, OthersRetryExpires DEF RetryExpires, locals
  <2>2. InCharge(b) /\ (Finishing(b)' => Finishing(b))
    BY <1>1, <2>1 DEF RetryExpires, InCharge, InQueue, Finishing, Handles
  <2> QED
    BY <1>u, <2>1, <2>2, QuietStep
<1>2. ASSUME NEW w \in Workers, NEW b \in Bodies, NEW r \in BOOLEAN, Deliver(w, b, r)
      PROVE  Responsible(b)
  <2>1. Others(b)
    BY <1>2, OthersDeliver
  <2>2. /\ main[<<b, FALSE>>] > 0
        /\ \A v \in Workers : /\ pc'[v] = IF v = w THEN "delivered" ELSE pc[v]
                              /\ job'[v] = IF v = w THEN b ELSE job[v]
    BY <1>2, DeliverTakes
  <2>3. InCharge(b) /\ (Finishing(b)' => Finishing(b))
    BY <2>2 DEF InCharge, InQueue, Finishing, Handles
  <2> QED
    BY <1>u, <2>1, <2>3, QuietStep
<1> QED
  BY <1>1, <1>2 DEF Broker

LEMMA ResponsibleGoroutine ==
  ASSUME Orderly, OneInCharge, NonePutBack, NonePutBack', NEW w \in Workers, NEW q, q = job[w],
         Goroutine(w), UNCHANGED requests
  PROVE  Responsible(q)
<1>t. RequestsTypeOK /\ Others(q) /\ UNCHANGED <<at, enq, main>>
  BY OthersGoroutine, GoroutineGoesOn DEF Orderly, PublishRetry, Ack, queues, requests
<1>j. pc[w] \in Converting \cup {"requeue"} => q \in Jobs /\ FileOf[q] \in Files
  BY TablesAssumption DEF Orderly, Claimed
<1>a. AfterFailure(w) \in {"publishDead", "requeue"} /\ pc'[w] # "requeue"
  BY DEF AfterFailure, NonePutBack
<1>1. CASE Ack(w)
  <2>1. /\ UNCHANGED <<fileStatus, retry>>
        /\ \A v \in Workers : /\ pc'[v] = IF v = w THEN Idle ELSE pc[v]
                              /\ job'[v] = IF v = w THEN NoJob ELSE job[v]
    BY <1>1 DEF Ack, Forget, queues, tables
  <2>2. (InCharge(q)' => InCharge(q)) /\ (Finishing(q)' => Finishing(q))
    BY <1>t, <2>1 DEF InCharge, HandingOver, InQueue, Handles, Finishing, Working, Idle
  <2> QED
    BY <1>t, <2>1, <2>2, QuietStep
<1>2. CASE PublishRetry(w)
  <2>1. /\ UNCHANGED <<fileStatus, job>> /\ pc[w] = "publishRetry"
        /\ \A v \in Workers : pc'[v] = IF v = w THEN "ack" ELSE pc[v]
    BY <1>2, <1>t DEF PublishRetry, Goto, tables, RequestsTypeOK
  <2>2. InCharge(q) /\ (Finishing(q)' => Finishing(q))
    BY <2>1 DEF InCharge, Handles, Finishing, Working
  <2> QED
    BY <1>t, <2>1, <2>2, QuietStep
<1> USE DEF Working
<1>g. ASSUME q \in Jobs, ~PublishRetry(w), ~Ack(w)
      PROVE  /\ InCharge(q) <=> pc[w] \in Working
             /\ InCharge(q)' <=> pc'[w] \in Working
             /\ Finishing(q) <=> pc[w] = "jobConverted"
             /\ Finishing(q)' <=> pc'[w] = "jobConverted"
  BY <1>g, GoesOnAlone
<1>3. CASE Undecodable(w) \/ Claim(w) \/ Produce(w) \/ PublishDead(w)
  <2>1. /\ UNCHANGED fileStatus /\ ~PublishRetry(w) /\ ~Ack(w)
        /\ pc'[w] \in Working => pc[w] \in Working
        /\ pc'[w] # "jobConverted"
    BY <1>3, <1>t DEF Undecodable, Claim, Produce, PublishDead, PublishRetry, Ack, Goto, tables,
       RequestsTypeOK
  <2> QED
    BY <1>g, <1>t, <2>1, QuietStep
<1>w. ASSUME NEW from \in Converting, NEW jobs, NEW files, NEW next,
             Write(w, from, jobs, files, next, AfterFailure(w))
      PROVE  /\ q \in Jobs /\ pc[w] = from /\ pc'[w] \in {next, "publishDead"}
             /\ ~PublishRetry(w) /\ ~Ack(w)
             /\ fileStatus' \in {fileStatus, files}
             /\ pc'[w] = next /\ next \notin {"publishDead", "requeue"} => fileStatus' = files
  <2>1. q \in Jobs /\ pc[w] = from /\ pc[w] \notin {"publishRetry", "ack"}
    BY <1>w, <1>j DEF Write, Converting
  <2> QED
    BY <1>a, <1>w, <2>1, WriteRows DEF PublishRetry, Ack
<1>f. ASSUME NEW s, fileStatus' \in {fileStatus, FileIs(w, s)}, q \in Jobs
      PROVE  /\ \A f \in Files \ {FileOf[q]} : fileStatus'[f] = fileStatus[f]
             /\ FileRow(q)' \in {FileRow(q), s}
  BY <1>f, <1>t, TablesAssumption DEF FileIs, FileRow, RequestsTypeOK
<1>4. CASE MarkFileConverting(w)
  <2>1. /\ q \in Jobs /\ pc[w] = "markFile" /\ pc'[w] \in {"markJob", "publishDead"}
        /\ ~PublishRetry(w) /\ ~Ack(w)
        /\ fileStatus' \in {fileStatus, FileIs(w, "converting")}
    BY <1>4, <1>w DEF MarkFileConverting, Converting
  <2>2. Waiting(FileOf[q])
    BY <1>g, <2>1 DEF OneInCharge
  <2> QED
    BY <1>f, <1>g, <1>t, <2>1, <2>2 DEF Responsible, Engaged, Waiting, FileRow
<1>5. CASE MarkJobConverting(w) \/ MarkJobConverted(w) \/ MarkJobFailed(w)
  <2>1. /\ q \in Jobs /\ ~PublishRetry(w) /\ ~Ack(w) /\ UNCHANGED fileStatus
        /\ pc'[w] \in Working => pc[w] \in Working
        /\ pc'[w] # "jobConverted"
    BY <1>5, <1>a, <1>w DEF MarkJobConverting, MarkJobConverted, MarkJobFailed, Converting
  <2> QED
    BY <1>g, <1>t, <2>1, QuietStep
<1>6. CASE MarkFileConverted(w)
  <2>1. /\ q \in Jobs /\ pc[w] = "fileConverted" /\ pc'[w] \in {"jobConverted", "publishDead"}
        /\ ~PublishRetry(w) /\ ~Ack(w)
        /\ fileStatus' \in {fileStatus, FileIs(w, "converted")}
        /\ pc'[w] = "jobConverted" => fileStatus' = FileIs(w, "converted")
    BY <1>6, <1>w DEF MarkFileConverted, Converting
  <2>2. pc'[w] = "jobConverted" => FileRow(q)' = "converted"
    BY <1>t, <2>1, TablesAssumption DEF FileIs, FileRow, RequestsTypeOK
  <2> QED
    BY <1>f, <1>g, <1>t, <2>1, <2>2 DEF Responsible, Engaged
<1>7. CASE MarkFileFailed(w)
  <2>1. /\ q \in Jobs /\ pc[w] = "fileFailed" /\ pc'[w] \in {"jobFailed", "publishDead"}
        /\ ~PublishRetry(w) /\ ~Ack(w)
        /\ fileStatus' \in {fileStatus, FileIs(w, "failed")}
    BY <1>7, <1>w DEF MarkFileFailed, Converting
  <2> QED
    BY <1>f, <1>g, <1>t, <2>1 DEF Responsible, Engaged
<1>8. CASE Requeue(w)
  BY <1>8 DEF Requeue, Write, NonePutBack
<1> QED
  BY <1>1, <1>2, <1>3, <1>4, <1>5, <1>6, <1>7, <1>8 DEF Goroutine
LEMMA ResponsibleStep ==
  ASSUME Orderly, Orderly', OneInCharge, ConfirmFirst, NonePutBack, NonePutBack',
         [RequestsNext]_allvars
  PROVE  \E q \in Bodies : Responsible(q)
<1>b. Jobs \subseteq Bodies /\ NoJob \in Bodies /\ NoJob \notin Jobs
  BY TablesAssumption DEF Bodies
<1>1. ASSUME NEW f \in Files, UploadURL(f) \/ Upload(f) PROVE Responsible(NoJob)
  <2>1. UNCHANGED <<jobStatus, main, retry, pc, job, enq, at>>
    BY <1>1 DEF UploadURL, Upload, vars, tables, queues, locals, requests
  <2>2. Others(NoJob)
    BY <2>1 DEF Others, InQueue
  <2>3. \A g \in Files : fileStatus'[g] # fileStatus[g] =>
          fileStatus[g] = "absent" /\ fileStatus'[g] = "pending"
    BY <1>1 DEF UploadURL, Upload, vars, tables, Orderly, RequestsTypeOK
  <2> QED
    BY <1>b, <2>2, <2>3 DEF Responsible, Opens, Free
<1>2. ASSUME NEW r \in Jobs, Find(r) \/ Handle(r) \/ Disconnect(r) \/ Abandon(r)
      PROVE  Responsible(r)
  BY <1>2, ResponsibleBegun, ResponsibleEnqueue DEF Handle
<1>3. CASE Broker /\ UNCHANGED requests
  BY <1>3, ResponsibleBroker
<1>4. ASSUME NEW w \in Workers, Goroutine(w), UNCHANGED requests
      PROVE  job[w] \in Bodies /\ Responsible(job[w])
  BY <1>4, ResponsibleGoroutine DEF Orderly, RequestsTypeOK
<1>5. CASE UNCHANGED allvars
  <2>1. Others(NoJob) /\ UNCHANGED fileStatus
    BY <1>5 DEF Others, InQueue, allvars, requests, vars, tables, queues, locals
  <2> QED
    BY <1>b, <2>1, QuietStep
<1> QED
  BY <1>b, <1>1, <1>2, <1>3, <1>4, <1>5 DEF RequestsNext

(* Only a confirm gets past its first call, and nobody comes back.         *)
LEMMA EarlyBefore ==
  ASSUME RequestsTypeOK, ConfirmFirst, [RequestsNext]_allvars, NEW r \in Jobs, at'[r] \in Early
  PROVE  at[r] \in Early /\ (at'[r] = "find" \/ Kind[r] = "confirm")
<1> USE DEF Early
<1>u. ASSUME at'[r] = at[r] PROVE at[r] \in Early /\ (at'[r] = "find" \/ Kind[r] = "confirm")
  BY <1>u DEF ConfirmFirst
<1>1. CASE \E f \in Files : UploadURL(f) \/ Upload(f)
  BY <1>1, <1>u DEF UploadURL, Upload, requests
<1>2. ASSUME NEW q \in Jobs, Find(q) \/ Handle(q) \/ Disconnect(q) \/ Abandon(q)
      PROVE  at[r] \in Early /\ (at'[r] = "find" \/ Kind[r] = "confirm")
  <2>1. \E s : at' \in {at, [at EXCEPT ![q] = s]}
    BY <1>2, MarkRefusedMoves
       DEF Handle, Find, Stat, Remove, Delete, MarkReady, MarkRetrying, FileCall, LatestForFile,
           Create, CreateFails, Publish, Respond, Disconnect, Abandon, requests
  <2>2. CASE q # r
    BY <1>u, <2>1, <2>2 DEF RequestsTypeOK
  <2>3. CASE q = r
    <3>c. ASSUME NEW from, NEW status, NEW ok, NEW fail, FileCall(r, from, status, ok, fail)
          PROVE  at[r] = from /\ at'[r] \in {ok, fail}
      BY <3>c DEF FileCall, RequestsTypeOK
    <3>1. CASE Find(r)
      BY <3>1, <3>c DEF Find
    <3>2. CASE Stat(r)
      BY <3>2, <3>c DEF Stat, ConfirmFirst
    <3>3. CASE Delete(r) \/ MarkReady(r) \/ MarkRetrying(r)
      BY <3>3, <3>c DEF Delete, MarkReady, MarkRetrying
    <3>4. CASE Remove(r) \/ LatestForFile(r) \/ CreateFails(r) \/ Respond(r) \/ Abandon(r)
      BY <3>4 DEF Remove, LatestForFile, CreateFails, Respond, Abandon, ConfirmFirst, RequestsTypeOK
    <3>5. CASE Create(r) \/ Publish(r) \/ MarkRefused(r) \/ Disconnect(r)
      BY <3>5, <1>u, MarkRefusedMoves DEF Create, Publish, Disconnect, requests
    <3> QED
      BY <1>2, <2>3, <3>1, <3>2, <3>3, <3>4, <3>5 DEF Handle
  <2> QED
    BY <2>2, <2>3
<1>3. CASE UNCHANGED requests
  BY <1>3, <1>u DEF requests
<1> QED
  BY <1>1, <1>2, <1>3 DEF RequestsNext, allvars

LEMMA ConfirmFirstKept ==
  ASSUME OneConfirmEach, RequestsTypeOK, OneInCharge, ConfirmFirst, [RequestsNext]_allvars,
         NEW q, Responsible(q)
  PROVE  ConfirmFirst'
<1> SUFFICES ASSUME NEW r \in Jobs, at'[r] \in Early
             PROVE  /\ at'[r] = "find" \/ Kind[r] = "confirm"
                    /\ Kind[r] = "confirm" => FileRow(r)' \in Blank
  BY DEF ConfirmFirst
<1>1. at[r] \in Early /\ (at'[r] = "find" \/ Kind[r] = "confirm")
  BY EarlyBefore
<1>2. ASSUME Kind[r] = "confirm" PROVE FileRow(r)' \in Blank
  <2>1. FileRow(r) \in Blank /\ FileOf[r] \in Files
    BY <1>1, <1>2, TablesAssumption DEF ConfirmFirst
  <2>2. ~(q \in Jobs /\ FileOf[r] = FileOf[q] /\ InCharge(q))
    BY <2>1 DEF OneInCharge, Waiting, FileRow, Blank
  <2>3. ~ConfirmOf(q, FileOf[r])
    BY <1>2 DEF ConfirmOf, OneConfirmEach
  <2> QED
    BY <2>1, <2>2, <2>3 DEF Responsible, Opens, FileRow, Blank
<1> QED
  BY <1>1, <1>2

OneByOne == OneInCharge /\ ConfirmFirst

LEMMA OneByOneInit == RequestsInit => OneByOne
<1> SUFFICES ASSUME RequestsInit PROVE OneByOne
  OBVIOUS
<1>1. Orderly
  BY OrderlyInit
<1>2. /\ \A f \in Files : fileStatus[f] = "absent"
      /\ \A r \in Jobs : enq[r] = "none" /\ at[r] = "find" /\ FileOf[r] \in Files
  BY TablesAssumption DEF RequestsInit, EmptyQueue
<1>3. \A r \in Jobs : ~InCharge(r) /\ ~Finishing(r)
  BY <1>1, <1>2
     DEF InCharge, HandingOver, Finishing, Orderly, OneMessage, OneCarrier, Handles, Carries, Working, Idle
<1> QED
  BY <1>2, <1>3 DEF OneByOne, OneInCharge, ConfirmFirst, Engaged, FileRow, Blank

LEMMA OneByOneStep ==
  ASSUME OneConfirmEach, Orderly, Orderly', NonePutBack, NonePutBack', OneByOne,
         [RequestsNext]_allvars
  PROVE  OneByOne'
<1>1. PICK q \in Bodies : Responsible(q)
  BY ResponsibleStep DEF OneByOne
<1> QED
  BY <1>1, OneInChargeKept, ConfirmFirstKept DEF OneByOne, Orderly

LEMMA OneByOneAlways ==
  ASSUME OneConfirmEach
  PROVE  RequestsSpec /\ []NonePutBack => []OneByOne
<1>1. Orderly /\ Orderly' /\ NonePutBack /\ NonePutBack' /\ OneByOne /\ [RequestsNext]_allvars
        => OneByOne'
  BY OneByOneStep
<1> QED
  BY <1>1, OneByOneInit, OrderlyAlways, PTL DEF RequestsSpec

LEMMA LiveIsEngaged ==
  ASSUME Orderly, NonePutBack, NEW r \in Jobs, Live(r)
  PROVE  Engaged(r)
<1>1. \A b \in BOOLEAN : main[<<r, b>>] > 0 => InQueue(r)
  <2> SUFFICES ASSUME NEW b \in BOOLEAN, main[<<r, b>>] > 0 PROVE InQueue(r)
    OBVIOUS
  <2>1. CASE b = TRUE
    <3>1. main[<<r, TRUE>>] = 0
      BY DEF Orderly, OneMessage, Fresh, Bodies
    <3> QED
      BY <2>1, <3>1
  <2>2. CASE b = FALSE
    BY <2>2 DEF InQueue
  <2> QED
    BY <2>1, <2>2
<1>2. WillBeClaimed(r) => InCharge(r)
  BY <1>1 DEF WillBeClaimed, InCharge, InQueue, Handles, Working
<1> QED
  BY <1>2 DEF Live, Engaged, InCharge, HandingOver, Finishing, Handles, Working, NonePutBack

(* As long as no attempt is put back, a file has at most one job that may  *)
(* still be converted, whatever calls fail, whatever retries arrive and    *)
(* whoever hangs up: the compare and set of MarkRetrying lets a retry      *)
(* through only when nobody is left to change the row.                     *)
THEOREM OneJobPerFile ==
  ASSUME OneConfirmEach
  PROVE  RequestsSpec /\ []NonePutBack => []OneLiveJob
<1>1. Orderly /\ NonePutBack /\ OneByOne => OneLiveJob
  BY LiveIsEngaged DEF OneByOne, OneInCharge, OneLiveJob
<1> QED
  BY <1>1, OneByOneAlways, OrderlyAlways, PTL
(* With one attempt, no attempt is put back.                               *)
LEMMA SingleAttempt ==
  ASSUME MaxAttempts = 1
  PROVE  RequestsSpec => []NonePutBack
<1>1. RequestsInit => NonePutBack
  BY DEF RequestsInit, EmptyQueue, NonePutBack, Idle
<1>2. ASSUME Orderly, NonePutBack, [RequestsNext]_allvars PROVE NonePutBack'
  <2>t. RequestsTypeOK
    BY <1>2 DEF Orderly
  <2>1. CASE UNCHANGED pc
    BY <1>2, <2>1 DEF NonePutBack
  <2>2. ASSUME NEW w \in Workers, Goroutine(w) PROVE NonePutBack'
    <3>0. pc \in [Workers -> Steps]
      BY <2>t DEF RequestsTypeOK
    <3>1. \A v \in Workers : v # w => pc'[v] = pc[v]
      <4>1. CASE PublishRetry(w)
        BY <3>0, <4>1 DEF PublishRetry, Goto
      <4>2. CASE Ack(w)
        BY <3>0, <4>2 DEF Ack, Forget
      <4>3. CASE ~PublishRetry(w) /\ ~Ack(w)
        <5>1. PICK s \in Steps : pc' = [pc EXCEPT ![w] = s]
          BY <2>t, <2>2, <4>3, GoroutineGoesOn
        <5> QED
          BY <3>0, <5>1
      <4> QED
        BY <4>1, <4>2, <4>3
    <3>2. pc[w] \in Converting => AfterFailure(w) = "publishDead"
      <4> SUFFICES ASSUME pc[w] \in Converting PROVE AfterFailure(w) = "publishDead"
        OBVIOUS
      <4>1. attempt[w] >= MaxAttempts
        BY <1>2 DEF Orderly, Claimed
      <4> QED
        BY <4>1 DEF AfterFailure
    <3>w. ASSUME NEW from \in Converting, NEW jobs, NEW files, NEW next,
                 next \in {"markJob", "convert", "jobConverted", "jobFailed", "ack", AfterFailure(w)},
                 Write(w, from, jobs, files, next, AfterFailure(w))
          PROVE  pc'[w] # "requeue"
      BY <2>t, <3>2, <3>w DEF Write, Goto, RequestsTypeOK
    <3>3. pc'[w] # "requeue"
      <4>1. CASE MarkFileConverting(w) \/ MarkFileConverted(w) \/ MarkFileFailed(w)
        BY <3>w, <4>1 DEF MarkFileConverting, MarkFileConverted, MarkFileFailed, Converting
      <4>2. CASE MarkJobConverting(w) \/ MarkJobConverted(w) \/ MarkJobFailed(w)
        BY <3>w, <4>2 DEF MarkJobConverting, MarkJobConverted, MarkJobFailed, Converting
      <4>3. CASE Requeue(w)
        BY <1>2, <4>3 DEF Requeue, Write, NonePutBack
      <4>4. CASE \/ Undecodable(w) \/ Claim(w) \/ Produce(w)
                 \/ PublishRetry(w) \/ PublishDead(w) \/ Ack(w)
        BY <2>t, <4>4
           DEF Undecodable, Claim, Produce, PublishRetry, PublishDead, Ack, Forget, Goto, Idle,
               RequestsTypeOK
      <4> QED
        BY <2>2, <4>1, <4>2, <4>3, <4>4 DEF Goroutine
    <3> QED
      BY <1>2, <3>1, <3>3 DEF NonePutBack
  <2>3. CASE \E f \in Files : UploadURL(f) \/ Upload(f)
    BY <2>1, <2>3 DEF UploadURL, Upload, vars, locals
  <2>4. CASE \E r \in Jobs : Find(r) \/ Handle(r) \/ Disconnect(r) \/ Abandon(r)
    <3>1. UNCHANGED locals
      BY <2>4, MarkRefusedMoves
         DEF Handle, Find, Stat, Remove, Delete, MarkReady, MarkRetrying, FileCall, LatestForFile,
             Create, CreateJob, CreateFails, Publish, Enqueue, EnqueueRefused, Respond,
             Disconnect, Abandon, vars
    <3> QED
      BY <2>1, <3>1 DEF locals
  <2>5. CASE Broker
    <3>1. CASE \E b \in Bodies : RetryExpires(b)
      BY <2>1, <3>1 DEF RetryExpires, locals
    <3>2. ASSUME NEW w \in Workers, NEW b \in Bodies, NEW r \in BOOLEAN, Deliver(w, b, r)
          PROVE  NonePutBack'
      BY <1>2, <2>t, <3>2 DEF Deliver, NonePutBack, RequestsTypeOK
    <3> QED
      BY <2>5, <3>1, <3>2 DEF Broker
  <2>6. CASE UNCHANGED allvars
    BY <2>1, <2>6 DEF allvars, vars, locals
  <2> QED
    BY <1>2, <2>2, <2>3, <2>4, <2>5, <2>6 DEF RequestsNext
<1> QED
  BY <1>1, <1>2, OrderlyAlways, PTL DEF RequestsSpec

THEOREM OneJobSingleAttempt ==
  ASSUME OneConfirmEach, MaxAttempts = 1
  PROVE  RequestsSpec => []OneLiveJob
BY OneJobPerFile, SingleAttempt, PTL

(* A published bundle is not withdrawn where every file has one confirm    *)
(* and no attempt is put back: the row of a converted file is nobody's to  *)
(* change any more, since whoever is in charge of a file keeps it waiting. *)
THEOREM ConvertedStays ==
  ASSUME OneConfirmEach
  PROVE  RequestsSpec /\ []NonePutBack => PublishedStays
<1>1. ASSUME Orderly, Orderly', NonePutBack, NonePutBack', OneByOne, [RequestsNext]_allvars
      PROVE  [\A f \in Files :
                fileStatus[f] = "converted" /\ ConfirmedOnce(f) /\ TriedOnce(f)
                => fileStatus'[f] = "converted"]_allvars
  <2>1. PICK q \in Bodies : Responsible(q)
    BY <1>1, ResponsibleStep DEF OneByOne
  <2>2. ASSUME NEW f \in Files, fileStatus[f] = "converted", fileStatus'[f] # "converted"
        PROVE  FALSE
    <3>1. ~Opens(q, f)
      BY <2>2 DEF Opens, Free
    <3>2. q \in Jobs /\ f = FileOf[q] /\ InCharge(q)
      BY <2>1, <2>2, <3>1 DEF Responsible
    <3> QED
      BY <1>1, <2>2, <3>2 DEF OneByOne, OneInCharge, Waiting
  <2> QED
    BY <2>2
<1>2. RequestsSpec /\ []NonePutBack => []OneByOne
  BY OneByOneAlways
<1> QED
  BY <1>1, <1>2, OrderlyAlways, PTL DEF RequestsSpec, PublishedStays

THEOREM ConvertedStaysSingleAttempt ==
  ASSUME OneConfirmEach, MaxAttempts = 1
  PROVE  RequestsSpec => PublishedStays
BY ConvertedStays, SingleAttempt, PTL
-----------------------------------------------------------------------------
(* The history of a file: what each step does to it.                       *)
Unopened == {"absent", "pending", "deleted"}

Appends(r) ==
  /\ at[r] = "enqueue" /\ enq[r] = "none"
  /\ enq'[r] = "created" \/ at'[r] = "unavailable"
  /\ at'[r] \in {"enqueue", "unavailable"}
  /\ Recorded(r)
  /\ UNCHANGED <<retryOf, fileStatus>>

Reads(r) == at[r] = "latest" /\ retryOf'[r] = LatestJob(FileOf[r])

LEMMA HandlerMoves ==
  ASSUME RequestsTypeOK, ConfirmFirst, NEW r \in Jobs,
         Find(r) \/ Handle(r) \/ Disconnect(r) \/ Abandon(r)
  PROVE  /\ \A q \in Jobs \ {r} :
              at'[q] = at[q] /\ enq'[q] = enq[q] /\ retryOf'[q] = retryOf[q]
         /\ at'[r] \in Begun => at[r] \in Begun
         /\ at'[r] = "enqueue" =>
              at[r] \in {"enqueue", "markReady"} \/ Reads(r)
         /\ enq'[r] = "none" => enq[r] = "none"
         /\ retryOf'[r] # retryOf[r] => at[r] = "latest"
         /\ UNCHANGED history \/ Appends(r)
         /\ \A f \in Files : fileStatus'[f] \in Unopened => fileStatus[f] \in Unopened
<1> DEFINE P == /\ \A q \in Jobs \ {r} :
                     at'[q] = at[q] /\ enq'[q] = enq[q] /\ retryOf'[q] = retryOf[q]
                /\ at'[r] \in Begun => at[r] \in Begun
                /\ at'[r] = "enqueue" => at[r] \in {"enqueue", "markReady"} \/ Reads(r)
                /\ enq'[r] = "none" => enq[r] = "none"
                /\ retryOf'[r] # retryOf[r] => at[r] = "latest"
                /\ UNCHANGED history \/ Appends(r)
                /\ \A f \in Files : fileStatus'[f] \in Unopened => fileStatus[f] \in Unopened
<1> USE DEF RequestsTypeOK, Begun
<1>f. ASSUME NEW from \in Begun, NEW status, NEW ok, NEW fail, FileCall(r, from, status, ok, fail),
             status \in Unopened => FileRow(r) \in Unopened,
             "enqueue" \in {ok, fail} => from = "markReady"
      PROVE  P
  <2>1. /\ at[r] = from /\ at'[r] \in {ok, fail}
        /\ \A f \in Files \ {FileOf[r]} : fileStatus'[f] = fileStatus[f]
        /\ fileStatus'[FileOf[r]] \in {fileStatus[FileOf[r]], status}
        /\ UNCHANGED <<history, retryOf>>
    BY <1>f, FileCallRow
  <2>2. \A q \in Jobs \ {r} : at'[q] = at[q]
    BY <1>f DEF FileCall
  <2>3. UNCHANGED enq
    BY <1>f DEF FileCall
  <2> QED
    BY <1>f, <2>1, <2>2, <2>3 DEF FileRow
<1>1. CASE Find(r)
  BY <1>1, <1>f DEF Find
<1>2. CASE Stat(r)
  <2>1. object[FileOf[r]] \in {"none", "whole", "short", "removed"}
    BY TablesAssumption
  <2>2. \E ok : FileCall(r, "stat", FileRow(r), ok, "rejected")
                /\ ok \in {"rejected", "remove", "markReady"}
    BY <1>2, <2>1 DEF Stat
  <2> QED
    BY <2>2, <1>f
<1>3. CASE Delete(r)
  <2>1. FileRow(r) \in Unopened
    BY <1>3 DEF Delete, FileCall, ConfirmFirst, Early, Blank, Unopened
  <2> QED
    BY <1>3, <1>f, <2>1 DEF Delete
<1>4. CASE MarkReady(r)
  BY <1>4, <1>f DEF MarkReady, Unopened
<1>5. CASE MarkRetrying(r)
  BY <1>5, <1>f DEF MarkRetrying, Unopened
<1>6. CASE Remove(r) \/ Respond(r) \/ Abandon(r) \/ Disconnect(r)
  <2>1. /\ UNCHANGED <<enq, retryOf, history, fileStatus>>
        /\ \E s \in {"delete", "done", "unavailable", "abandoned"} :
             at' \in {at, [at EXCEPT ![r] = s]}
    BY <1>6 DEF Remove, Respond, Abandon, Disconnect, vars, tables
  <2>2. at'[r] \in Begun => at[r] \in Begun
    BY <1>6 DEF Remove, Respond, Abandon, Disconnect
  <2> QED
    BY <2>1, <2>2
<1>7. CASE LatestForFile(r)
  <2>1. PICK a \in Replies(r) :
          /\ retryOf' = IF a = "ok" THEN [retryOf EXCEPT ![r] = LatestJob(FileOf[r])]
                        ELSE retryOf
          /\ at' = [at EXCEPT ![r] = IF a = "ok" THEN "enqueue" ELSE "error"]
    BY <1>7 DEF LatestForFile
  <2>2. UNCHANGED <<enq, history, fileStatus>> /\ at[r] = "latest"
    BY <1>7 DEF LatestForFile, tables
  <2> QED
    BY <2>1, <2>2 DEF Reads
<1>8. CASE Create(r)
  <2>1. /\ UNCHANGED <<at, retryOf, fileStatus>> /\ at[r] = "enqueue" /\ Recorded(r)
        /\ enq[r] = "none" /\ enq' = [enq EXCEPT ![r] = "created"]
    BY <1>8 DEF Create, CreateJob
  <2> QED
    BY <2>1 DEF Appends
<1>9. CASE CreateFails(r)
  <2>1. /\ UNCHANGED <<enq, retryOf, fileStatus>> /\ at[r] = "enqueue" /\ enq[r] = "none"
        /\ at' = [at EXCEPT ![r] = "unavailable"]
        /\ Recorded(r) \/ UNCHANGED history
    BY <1>9 DEF CreateFails
  <2> QED
    BY <2>1 DEF Appends
<1>10. CASE Publish(r) \/ MarkRefused(r)
  <2>1. /\ UNCHANGED requests
        /\ \E s \in {"enqueued", "markJob", "markFile", "refused"} : enq' = [enq EXCEPT ![r] = s]
    BY <1>10, MarkRefusedMoves DEF Publish, Enqueue, EnqueueRefused
  <2>2. \A f \in Files : fileStatus'[f] \in {fileStatus[f], "failed"}
    BY <1>10 DEF Publish, Enqueue, EnqueueRefused, MarkRefused, MarkEnqueueFailed, tables
  <2> QED
    BY <2>1, <2>2 DEF requests, Unopened
<1> QED
  BY <1>1, <1>2, <1>3, <1>4, <1>5, <1>6, <1>7, <1>8, <1>9, <1>10 DEF Handle

LEMMA GoroutineFile ==
  ASSUME NEW w, Goroutine(w)
  PROVE  \E s \in FileStatus : fileStatus' \in {fileStatus, FileIs(w, s)}
<1>s. "ready" \in FileStatus /\ "converting" \in FileStatus
      /\ "converted" \in FileStatus /\ "failed" \in FileStatus
  BY DEF FileStatus
<1>w. ASSUME NEW from, NEW s \in FileStatus, NEW jobs, NEW files, NEW next, NEW onError,
             files \in {fileStatus, FileIs(w, s)}, Write(w, from, jobs, files, next, onError)
      PROVE  \E t \in FileStatus : fileStatus' \in {fileStatus, FileIs(w, t)}
  BY <1>w DEF Write
<1>1. CASE Undecodable(w) \/ Claim(w) \/ Produce(w) \/ PublishRetry(w) \/ PublishDead(w) \/ Ack(w)
  BY <1>1, <1>s DEF Undecodable, Claim, Produce, PublishRetry, PublishDead, Ack, tables
<1>2. CASE MarkFileConverting(w)
  BY <1>2, <1>s, <1>w DEF MarkFileConverting
<1>3. CASE MarkFileConverted(w)
  BY <1>3, <1>s, <1>w DEF MarkFileConverted
<1>4. CASE MarkFileFailed(w)
  BY <1>4, <1>s, <1>w DEF MarkFileFailed
<1>5. CASE MarkJobConverting(w) \/ MarkJobConverted(w) \/ MarkJobFailed(w)
  BY <1>5, <1>s, <1>w DEF MarkJobConverting, MarkJobConverted, MarkJobFailed
<1>6. CASE Requeue(w)
  BY <1>6, <1>s, <1>w DEF Requeue
<1> QED
  BY <1>1, <1>2, <1>3, <1>4, <1>5, <1>6 DEF Goroutine

LEMMA OtherMoves ==
  ASSUME Orderly, [RequestsNext]_allvars,
         ~\E r \in Jobs : Find(r) \/ Handle(r) \/ Disconnect(r) \/ Abandon(r)
  PROVE  /\ UNCHANGED <<at, enq, history, retryOf>>
         /\ \A f \in Files : fileStatus'[f] \in Unopened => fileStatus[f] \in Unopened
<1> USE DEF Orderly, RequestsTypeOK, Unopened
<1>1. CASE \E f \in Files : UploadURL(f) \/ Upload(f)
  BY <1>1 DEF UploadURL, Upload, requests, vars, tables
<1>2. CASE Broker /\ UNCHANGED requests
  BY <1>2 DEF Broker, RetryExpires, Deliver, requests, tables
<1>3. ASSUME NEW w \in Workers, Goroutine(w), UNCHANGED requests
      PROVE  /\ UNCHANGED <<at, enq, history, retryOf>>
             /\ \A f \in Files : fileStatus'[f] \in Unopened => fileStatus[f] \in Unopened
  <2>1. UNCHANGED <<at, enq, history, retryOf>>
    BY <1>3, GoroutineGoesOn DEF PublishRetry, Ack, requests
  <2>2. \E s \in FileStatus : fileStatus' \in {fileStatus, FileIs(w, s)}
    BY <1>3, GoroutineFile
  <2> QED
    BY <2>1, <2>2 DEF FileIs, FileStatus
<1>4. CASE UNCHANGED allvars
  BY <1>4 DEF allvars, requests, vars, tables
<1> QED
  BY <1>1, <1>2, <1>3, <1>4 DEF RequestsNext
(* A job is recorded with the one before it as the attempt it retries:     *)
(* the retry that reads the latest job is in charge of the file until it   *)
(* has recorded its own.                                                   *)
EarlyRetriesNone == \A r \in Jobs : at[r] \in Early => retryOf[r] = NoJob

UnopenedIsEmpty == \A f \in Files : fileStatus[f] \in Unopened => history[f] = <<>>

ReadIsLatest ==
  \A r \in Jobs : at[r] = "enqueue" /\ enq[r] = "none" => retryOf[r] = LatestJob(FileOf[r])

RecordedPastBegun == \A f \in Files : \A i \in DOMAIN history[f] : at[history[f][i]] \notin Begun

InOrder ==
  EarlyRetriesNone /\ UnopenedIsEmpty /\ ReadIsLatest /\ RecordedPastBegun /\ RetryHistoryIsChain

LEMMA RecordedAdds ==
  ASSUME RequestsTypeOK, NEW r \in Jobs, Recorded(r)
  PROVE  /\ \A f \in Files \ {FileOf[r]} : history'[f] = history[f]
         /\ history[FileOf[r]] \in Seq(Jobs)
         /\ DOMAIN history'[FileOf[r]] = 1..Len(history[FileOf[r]]) + 1
         /\ \A i \in 1..Len(history[FileOf[r]]) : history'[FileOf[r]][i] = history[FileOf[r]][i]
         /\ history'[FileOf[r]][Len(history[FileOf[r]]) + 1] = r
<1>1. FileOf[r] \in Files /\ history[FileOf[r]] \in Seq(Jobs)
  BY TablesAssumption DEF RequestsTypeOK
<1>2. history'[FileOf[r]] = Append(history[FileOf[r]], r)
  BY <1>1 DEF Recorded, RequestsTypeOK
<1>3. \A f \in Files \ {FileOf[r]} : history'[f] = history[f]
  BY DEF Recorded, RequestsTypeOK
<1> QED
  BY <1>1, <1>2, <1>3

LEMMA InOrderOther ==
  ASSUME Orderly, InOrder, [RequestsNext]_allvars,
         ~\E r \in Jobs : Find(r) \/ Handle(r) \/ Disconnect(r) \/ Abandon(r)
  PROVE  InOrder'
<1>1. /\ UNCHANGED <<at, enq, history, retryOf>>
      /\ \A f \in Files : fileStatus'[f] \in Unopened => fileStatus[f] \in Unopened
  BY OtherMoves
<1> USE <1>1 DEF InOrder
<1>2. EarlyRetriesNone' /\ UnopenedIsEmpty' /\ RecordedPastBegun'
  BY DEF EarlyRetriesNone, UnopenedIsEmpty, RecordedPastBegun
<1>3. ReadIsLatest' /\ RetryHistoryIsChain'
  BY DEF ReadIsLatest, LatestJob, RetryHistoryIsChain
<1> QED
  BY <1>2, <1>3

LEMMA InOrderHandler ==
  ASSUME Orderly, OneByOne, InOrder, [RequestsNext]_allvars, NEW r \in Jobs,
         Find(r) \/ Handle(r) \/ Disconnect(r) \/ Abandon(r)
  PROVE  InOrder'
<1> USE DEF OneByOne, InOrder
<1>t. RequestsTypeOK /\ \A q \in Jobs : FileOf[q] \in Files
  BY TablesAssumption DEF Orderly
<1>m. /\ \A q \in Jobs \ {r} :
           at'[q] = at[q] /\ enq'[q] = enq[q] /\ retryOf'[q] = retryOf[q]
      /\ at'[r] \in Begun => at[r] \in Begun
      /\ at'[r] = "enqueue" =>
           at[r] \in {"enqueue", "markReady"} \/ Reads(r)
      /\ enq'[r] = "none" => enq[r] = "none"
      /\ retryOf'[r] # retryOf[r] => at[r] = "latest"
      /\ UNCHANGED history \/ Appends(r)
      /\ \A f \in Files : fileStatus'[f] \in Unopened => fileStatus[f] \in Unopened
  BY <1>t, HandlerMoves
<1>i. \A q \in Jobs : at[q] = "enqueue" /\ enq[q] = "none" => InCharge(q)
  BY DEF InCharge, HandingOver
<1>h. ASSUME NEW q \in Jobs, q # r, at[q] = "enqueue", enq[q] = "none"
      PROVE  history'[FileOf[q]] = history[FileOf[q]]
  <2>1. CASE Appends(r)
    <3>1. FileOf[q] # FileOf[r]
      BY <1>h, <1>i, <2>1 DEF Appends, OneInCharge, Engaged
    <3> QED
      BY <1>t, <2>1, <3>1, RecordedAdds DEF Appends
  <2> QED
    BY <1>m, <2>1
<1>1. EarlyRetriesNone'
  <2> SUFFICES ASSUME NEW q \in Jobs, at'[q] \in Early PROVE retryOf'[q] = NoJob
    BY DEF EarlyRetriesNone
  <2>1. at[q] \in Early
    BY <1>t, EarlyBefore
  <2>2. retryOf'[q] = retryOf[q]
    BY <1>m, <2>1 DEF Early
  <2> QED
    BY <2>1, <2>2 DEF EarlyRetriesNone
<1>2. UnopenedIsEmpty'
  <2> SUFFICES ASSUME NEW f \in Files, fileStatus'[f] \in Unopened PROVE history'[f] = <<>>
    BY DEF UnopenedIsEmpty
  <2>1. fileStatus[f] \in Unopened /\ history[f] = <<>>
    BY <1>m DEF UnopenedIsEmpty
  <2>2. CASE Appends(r)
    <3>1. f # FileOf[r]
      BY <1>i, <2>1, <2>2 DEF Appends, OneInCharge, Waiting, Unopened
    <3> QED
      BY <1>t, <2>1, <2>2, <3>1, RecordedAdds DEF Appends
  <2> QED
    BY <1>m, <2>1, <2>2
<1>3. ReadIsLatest'
  <2> SUFFICES ASSUME NEW q \in Jobs, at'[q] = "enqueue", enq'[q] = "none"
               PROVE  retryOf'[q] = LatestJob(FileOf[q])'
    BY DEF ReadIsLatest
  <2>1. CASE q # r
    <3>1. at[q] = "enqueue" /\ enq[q] = "none" /\ retryOf'[q] = retryOf[q]
      BY <1>m, <2>1
    <3>2. history'[FileOf[q]] = history[FileOf[q]]
      BY <1>h, <2>1, <3>1
    <3> QED
      BY <3>1, <3>2 DEF ReadIsLatest, LatestJob
  <2>2. CASE q = r
    <3>1. UNCHANGED history /\ enq[r] = "none"
      BY <1>m, <2>2 DEF Appends
    <3>2. CASE at[r] = "enqueue"
      BY <1>m, <2>2, <3>1, <3>2 DEF ReadIsLatest, LatestJob
    <3>3. CASE at[r] = "markReady"
      <4>1. retryOf'[r] = NoJob /\ FileRow(r) \in Blank
        BY <1>m, <3>3 DEF EarlyRetriesNone, ConfirmFirst, Early
      <4>2. history[FileOf[r]] = <<>>
        BY <1>t, <4>1 DEF UnopenedIsEmpty, Unopened, Blank, FileRow
      <4> QED
        BY <2>2, <3>1, <4>1, <4>2 DEF LatestJob
    <3>4. CASE Reads(r)
      BY <2>2, <3>1, <3>4 DEF Reads, LatestJob
    <3> QED
      BY <1>m, <2>2, <3>2, <3>3, <3>4
  <2> QED
    BY <2>1, <2>2
<1>b. \A q \in Jobs : at'[q] \in Begun => at[q] \in Begun
  BY <1>m
<1>s. \A q \in Jobs : at[q] \notin Begun => retryOf'[q] = retryOf[q]
  BY <1>m DEF Begun
<1>e. \A f \in Files : history[f] \in Seq(Jobs)
  BY <1>t DEF RequestsTypeOK
<1>4. CASE UNCHANGED history
  <2>1. RecordedPastBegun'
    BY <1>4, <1>b, <1>e DEF RecordedPastBegun
  <2>2. RetryHistoryIsChain'
    BY <1>4, <1>e, <1>s DEF RecordedPastBegun, RetryHistoryIsChain
  <2> QED
    BY <1>1, <1>2, <1>3, <2>1, <2>2
<1>5. CASE Appends(r)
  <2> DEFINE n == Len(history[FileOf[r]])
  <2>1. /\ \A f \in Files \ {FileOf[r]} : history'[f] = history[f]
        /\ DOMAIN history'[FileOf[r]] = 1..n + 1
        /\ \A i \in 1..n : history'[FileOf[r]][i] = history[FileOf[r]][i]
        /\ history'[FileOf[r]][n + 1] = r
    BY <1>t, <1>5, RecordedAdds DEF Appends
  <2>2. n \in Nat /\ DOMAIN history[FileOf[r]] = 1..n
    BY <1>e, <1>t
  <2>3. \A i \in DOMAIN history'[FileOf[r]] : i \in 1..n \/ i = n + 1
    BY <2>1, <2>2
  <2>4. at'[r] \notin Begun
    BY <1>5 DEF Appends, Begun
  <2>5. RecordedPastBegun'
    <3> SUFFICES ASSUME NEW f \in Files, NEW i \in DOMAIN history'[f]
                 PROVE  at'[history'[f][i]] \notin Begun
      BY DEF RecordedPastBegun
    <3>1. CASE f # FileOf[r]
      BY <1>b, <1>e, <2>1, <3>1 DEF RecordedPastBegun
    <3>2. CASE f = FileOf[r] /\ i \in 1..n
      BY <1>b, <1>e, <2>1, <2>2, <3>2 DEF RecordedPastBegun
    <3> QED
      BY <2>1, <2>3, <2>4, <3>1, <3>2
  <2>6. RetryHistoryIsChain'
    <3> SUFFICES ASSUME NEW f \in Files, NEW i \in DOMAIN history'[f]
                 PROVE  retryOf'[history'[f][i]] = IF i = 1 THEN NoJob ELSE history'[f][i - 1]
      BY DEF RetryHistoryIsChain
    <3>1. CASE f # FileOf[r]
      BY <1>e, <1>s, <2>1, <3>1 DEF RecordedPastBegun, RetryHistoryIsChain
    <3>2. CASE f = FileOf[r] /\ i \in 1..n
      <4>1. history'[f][i] = history[f][i] /\ history[f][i] \in Jobs /\ i \in DOMAIN history[f]
        BY <1>e, <2>1, <2>2, <3>2
      <4>2. retryOf'[history[f][i]] = IF i = 1 THEN NoJob ELSE history[f][i - 1]
        BY <1>s, <4>1 DEF RecordedPastBegun, RetryHistoryIsChain
      <4>3. i # 1 => i - 1 \in 1..n
        BY <2>2, <3>2
      <4> QED
        BY <2>1, <3>2, <4>1, <4>2, <4>3
    <3>3. CASE f = FileOf[r] /\ i = n + 1
      <4>1. retryOf'[r] = LatestJob(f)
        BY <1>5, <3>3 DEF Appends, ReadIsLatest
      <4>2. CASE n = 0
        BY <1>e, <2>1, <3>3, <4>1, <4>2 DEF LatestJob
      <4>3. CASE n # 0
        <5>1. i # 1 /\ i - 1 = n /\ n \in 1..n
          BY <2>2, <3>3, <4>3
        <5>2. history[f] # <<>>
          BY <3>3, <4>3
        <5> QED
          BY <2>1, <3>3, <4>1, <5>1, <5>2 DEF LatestJob
      <4> QED
        BY <4>2, <4>3
    <3> QED
      BY <2>3, <3>1, <3>2, <3>3
  <2> QED
    BY <1>1, <1>2, <1>3, <2>5, <2>6
<1> QED
  BY <1>m, <1>4, <1>5

LEMMA InOrderInit == RequestsInit => InOrder
<1> SUFFICES ASSUME RequestsInit PROVE InOrder
  OBVIOUS
<1>1. /\ \A r \in Jobs : at[r] = "find" /\ retryOf[r] = NoJob
      /\ \A f \in Files : history[f] = <<>>
  BY DEF RequestsInit
<1> QED
  BY <1>1 DEF InOrder, EarlyRetriesNone, UnopenedIsEmpty, ReadIsLatest, RecordedPastBegun,
              RetryHistoryIsChain

(* The attempts of a file form one list, each retrying the one before it.  *)
THEOREM HistoryIsChain ==
  ASSUME OneConfirmEach
  PROVE  RequestsSpec /\ []NonePutBack => []RetryHistoryIsChain
<1>1. ASSUME Orderly, OneByOne, InOrder, [RequestsNext]_allvars PROVE InOrder'
  BY <1>1, InOrderHandler, InOrderOther
<1>2. InOrder => RetryHistoryIsChain
  BY DEF InOrder
<1>3. RequestsSpec /\ []NonePutBack => []OneByOne
  BY OneByOneAlways
<1> QED
  BY <1>1, <1>2, <1>3, InOrderInit, OrderlyAlways, PTL DEF RequestsSpec

THEOREM HistoryIsChainSingleAttempt ==
  ASSUME OneConfirmEach, MaxAttempts = 1
  PROVE  RequestsSpec => []RetryHistoryIsChain
BY HistoryIsChain, SingleAttempt, PTL
=============================================================================
