------------------------------ MODULE JobQueue ------------------------------
(***************************************************************************)
(* The conversion job queue: the EnqueueConversion closure of the API, the *)
(* RabbitMQ queues, the conversion_jobs and files tables as the queue uses *)
(* them, and the goroutines of the worker processes, which take one        *)
(* delivery each through Consumer.process (claim, convert, record the      *)
(* outcome, requeue or give up, publish, ack).                             *)
(*                                                                         *)
(* Every database call, publish and ack is a step of its own, so the steps *)
(* of two goroutines, or of a goroutine and a fault, interleave as they do *)
(* in the program.  A queue is the number of copies it holds of each       *)
(* message: nothing in the code depends on the order of two jobs.          *)
(*                                                                         *)
(* Faults happen at most Budget[k] times each; a run, or a theorem, says   *)
(* which faults it allows by the budget it assumes.                        *)
(***************************************************************************)
EXTENDS Integers, FiniteSets

CONSTANTS Jobs,         \* conversion_jobs rows that may be created
          Files,        \* files rows
          FileOf,       \* the file each job converts
          Procs,        \* worker processes
          Workers,      \* goroutines, of all the processes
          ProcOf,       \* the process each goroutine belongs to
          MaxAttempts,  \* ConsumerConfig.MaxAttempts
          Budget,       \* how often each fault may happen
          NoJob         \* the body of a message that does not name a job

(* crash: a worker process is killed.  drop: its link to RabbitMQ dies.    *)
(* stop: it gets SIGTERM.  db: a database call fails.  answer: one takes   *)
(* effect but its answer is lost.  duplicate: a second publish of a        *)
(* message.                                                                *)
(* malformed: something publishes a body that is not a job.  lost: the     *)
(* API's publish returns nil and the broker never gets the message.        *)
(* refused: both of the API's publish attempts fail.  apicrash: the API    *)
(* dies inside EnqueueConversion.                                          *)
Faults == {"crash", "drop", "stop", "db", "answer", "duplicate", "malformed",
           "lost", "refused", "apicrash"}

ASSUME TablesAssumption == FileOf \in [Jobs -> Files] /\ NoJob \notin Jobs
ASSUME WorkersAssumption == ProcOf \in [Workers -> Procs] /\ IsFiniteSet(Workers)
ASSUME AttemptsAssumption == MaxAttempts \in Nat \ {0}
ASSUME BudgetAssumption == Budget \in [Faults -> Nat]

VARIABLES
  jobStatus,    \* conversion_jobs.status; "none" before the row exists
  attempts,     \* conversion_jobs.attempts
  fileStatus,   \* files.status
  main, retry, dead,  \* copies of each message in the three queues
  pc,           \* where each goroutine is in process and Convert
  job,          \* the job of the delivery it handles
  redelivered,  \* Delivery.Redelivered of that delivery
  attempt,      \* the attempt count its claim returned
  unacked,      \* the broker still counts that delivery as outstanding
  mode,         \* state of each worker process
  enq,          \* progress of EnqueueConversion for each job
  spent         \* faults that have happened

tables == <<jobStatus, attempts, fileStatus>>
queues == <<main, retry, dead>>
locals == <<pc, job, redelivered, attempt, unacked>>
vars == <<tables, queues, locals, mode, enq, spent>>

-----------------------------------------------------------------------------
Bodies == Jobs \cup {NoJob}

JobStatus == {"queued", "converting", "converted", "failed"}
FileStatus == {"ready", "converting", "converted", "failed"}

Idle == "idle"
Converting == {"markFile", "markJob", "convert",
               "fileConverted", "jobConverted", "fileFailed", "jobFailed"}
Settling == {"requeue", "publishRetry", "publishDead", "ack"}
Steps == {Idle, "delivered"} \cup Converting \cup Settling

(* consuming: subscribed.  disconnected: the link died and Start waits for *)
(* its goroutines before it resubscribes.  stopping: the context is        *)
(* cancelled, the channel still open.  closed: Consumer.Close has run.     *)
Modes == {"consuming", "disconnected", "stopping", "closed", "down"}

EnqSteps == {"none", "created", "markJob", "markFile",
             "enqueued", "refused", "abandoned"}

TypeOK ==
  /\ jobStatus \in [Jobs -> JobStatus \cup {"none"}]
  /\ attempts \in [Jobs -> Nat]
  /\ fileStatus \in [Files -> FileStatus]
  /\ main \in [Bodies \X BOOLEAN -> Nat]
  /\ retry \in [Bodies -> Nat]
  /\ dead \in [Bodies -> Nat]
  /\ pc \in [Workers -> Steps]
  /\ job \in [Workers -> Bodies]
  /\ redelivered \in [Workers -> BOOLEAN]
  /\ attempt \in [Workers -> Nat]
  /\ unacked \in [Workers -> BOOLEAN]
  /\ mode \in [Procs -> Modes]
  /\ enq \in [Jobs -> EnqSteps]
  /\ spent \in [Faults -> Nat]

(* No job, no message, every goroutine idle.                               *)
EmptyQueue ==
  /\ jobStatus = [j \in Jobs |-> "none"]
  /\ attempts = [j \in Jobs |-> 0]
  /\ main = [m \in Bodies \X BOOLEAN |-> 0]
  /\ retry = [b \in Bodies |-> 0]
  /\ dead = [b \in Bodies |-> 0]
  /\ pc = [w \in Workers |-> Idle]
  /\ job = [w \in Workers |-> NoJob]
  /\ redelivered = [w \in Workers |-> FALSE]
  /\ attempt = [w \in Workers |-> 0]
  /\ unacked = [w \in Workers |-> FALSE]
  /\ mode = [p \in Procs |-> "consuming"]
  /\ enq = [j \in Jobs |-> "none"]
  /\ spent = [k \in Faults |-> 0]

(* The files have been confirmed; FileRequests says how they come to be.   *)
Init == EmptyQueue /\ fileStatus = [f \in Files |-> "ready"]

MayFail(k) == spent[k] < Budget[k]
Spend(k) == MayFail(k) /\ spent' = [spent EXCEPT ![k] = @ + 1]

-----------------------------------------------------------------------------
(* EnqueueConversion, one job per call                                     *)

CreateJob(j) ==
  /\ enq[j] = "none"
  /\ enq' = [enq EXCEPT ![j] = "created"]
  /\ jobStatus' = [jobStatus EXCEPT ![j] = "queued"]
  /\ UNCHANGED <<attempts, fileStatus, queues, locals, mode, spent>>

Enqueue(j) ==
  /\ enq[j] = "created"
  /\ enq' = [enq EXCEPT ![j] = "enqueued"]
  /\ main' = [main EXCEPT ![<<j, FALSE>>] = @ + 1]
  /\ UNCHANGED <<tables, retry, dead, locals, mode, spent>>

(* Publishing without confirms: the frame is written, the call returns nil *)
(* and the connection dies before the broker reads it.                     *)
EnqueueLost(j) ==
  /\ enq[j] = "created"
  /\ Spend("lost")
  /\ enq' = [enq EXCEPT ![j] = "enqueued"]
  /\ UNCHANGED <<tables, queues, locals, mode>>

EnqueueRefused(j) ==
  /\ enq[j] = "created"
  /\ Spend("refused")
  /\ enq' = [enq EXCEPT ![j] = "markJob"]
  /\ UNCHANGED <<tables, queues, locals, mode>>

(* Both marks are best effort: an error is logged and the closure goes on. *)
MarkEnqueueFailed(j) ==
  /\ \/ UNCHANGED spent /\
        \/ /\ enq[j] = "markJob"
           /\ jobStatus' = [jobStatus EXCEPT ![j] = "failed"]
           /\ UNCHANGED fileStatus
        \/ /\ enq[j] = "markFile"
           /\ fileStatus' = [fileStatus EXCEPT ![FileOf[j]] = "failed"]
           /\ UNCHANGED jobStatus
     \/ /\ enq[j] \in {"markJob", "markFile"}
        /\ Spend("db")
        /\ UNCHANGED <<jobStatus, fileStatus>>
  /\ enq' = [enq EXCEPT ![j] = IF @ = "markJob" THEN "markFile" ELSE "refused"]
  /\ UNCHANGED <<attempts, queues, locals, mode>>

ApiCrash(j) ==
  /\ enq[j] \in {"created", "markJob", "markFile"}
  /\ Spend("apicrash")
  /\ enq' = [enq EXCEPT ![j] = "abandoned"]
  /\ UNCHANGED <<tables, queues, locals, mode>>

-----------------------------------------------------------------------------
(* The broker                                                              *)

(* A parked message whose TTL expires is dead-lettered back to the main    *)
(* queue, as a fresh message: it is not marked redelivered.                *)
RetryExpires(b) ==
  /\ retry[b] > 0
  /\ retry' = [retry EXCEPT ![b] = @ - 1]
  /\ main' = [main EXCEPT ![<<b, FALSE>>] = @ + 1]
  /\ UNCHANGED <<tables, dead, locals, mode, enq, spent>>

(* The prefetch count is the number of goroutines, so a delivery pushed to *)
(* a process always has a goroutine to take it.  A goroutine whose context *)
(* is cancelled may still win the select and take one.                     *)
Deliver(w, b, r) ==
  /\ pc[w] = Idle
  /\ mode[ProcOf[w]] \in {"consuming", "stopping"}
  /\ main[<<b, r>>] > 0
  /\ main' = [main EXCEPT ![<<b, r>>] = @ - 1]
  /\ pc' = [pc EXCEPT ![w] = "delivered"]
  /\ job' = [job EXCEPT ![w] = b]
  /\ redelivered' = [redelivered EXCEPT ![w] = r]
  /\ unacked' = [unacked EXCEPT ![w] = TRUE]
  /\ UNCHANGED <<tables, retry, dead, attempt, mode, enq, spent>>

DuplicatePublish(j) ==
  /\ enq[j] = "enqueued"
  /\ Spend("duplicate")
  /\ main' = [main EXCEPT ![<<j, FALSE>>] = @ + 1]
  /\ UNCHANGED <<tables, retry, dead, locals, mode, enq>>

MalformedPublish ==
  /\ Spend("malformed")
  /\ main' = [main EXCEPT ![<<NoJob, FALSE>>] = @ + 1]
  /\ UNCHANGED <<tables, retry, dead, locals, mode, enq>>

Goroutines(p) == {w \in Workers : ProcOf[w] = p}

(* A channel that closes puts its unacked deliveries back, redelivered.    *)
Redeliver(p) ==
  main' = [m \in Bodies \X BOOLEAN |->
            main[m] + IF m[2]
                      THEN Cardinality({w \in Goroutines(p) :
                                          unacked[w] /\ job[w] = m[1]})
                      ELSE 0]

(* The goroutines in W forget what they were doing.                        *)
Forget(W) ==
  /\ pc' = [w \in Workers |-> IF w \in W THEN Idle ELSE pc[w]]
  /\ job' = [w \in Workers |-> IF w \in W THEN NoJob ELSE job[w]]
  /\ redelivered' = [w \in Workers |-> w \notin W /\ redelivered[w]]
  /\ attempt' = [w \in Workers |-> IF w \in W THEN 0 ELSE attempt[w]]

(* The session of p ends.  Its deliveries go back to the queue; those the  *)
(* client library still buffers are dropped, while a goroutine that has    *)
(* already received its delivery goes on with it.                          *)
EndSession(p) ==
  /\ Redeliver(p)
  /\ \E buffered \in SUBSET {w \in Goroutines(p) : pc[w] = "delivered"} :
       Forget(buffered)
  /\ unacked' = [w \in Workers |-> ProcOf[w] # p /\ unacked[w]]

-----------------------------------------------------------------------------
(* Worker processes                                                        *)

LinkDrop(p) ==
  /\ mode[p] \in {"consuming", "stopping"}
  /\ Spend("drop")
  /\ EndSession(p)
  /\ mode' = [mode EXCEPT ![p] = IF @ = "consuming" THEN "disconnected" ELSE "closed"]
  /\ UNCHANGED <<tables, retry, dead, enq>>

(* drain has returned: no goroutine of the old session is left.            *)
Resubscribe(p) ==
  /\ mode[p] = "disconnected"
  /\ \A w \in Goroutines(p) : pc[w] = Idle
  /\ mode' = [mode EXCEPT ![p] = "consuming"]
  /\ UNCHANGED <<tables, queues, locals, enq, spent>>

Stop(p) ==
  /\ mode[p] \in {"consuming", "disconnected"}
  /\ Spend("stop")
  /\ mode' = [mode EXCEPT ![p] = IF @ = "consuming" THEN "stopping" ELSE "closed"]
  /\ UNCHANGED <<tables, queues, locals, enq>>

Close(p) ==
  /\ mode[p] = "stopping"
  /\ EndSession(p)
  /\ mode' = [mode EXCEPT ![p] = "closed"]
  /\ UNCHANGED <<tables, retry, dead, enq, spent>>

Exit(p) ==
  /\ mode[p] = "closed"
  /\ \A w \in Goroutines(p) : pc[w] = Idle
  /\ mode' = [mode EXCEPT ![p] = "down"]
  /\ UNCHANGED <<tables, queues, locals, enq, spent>>

Crash(p) ==
  /\ mode[p] # "down"
  /\ Spend("crash")
  /\ Redeliver(p)
  /\ Forget(Goroutines(p))
  /\ unacked' = [w \in Workers |-> ProcOf[w] # p /\ unacked[w]]
  /\ mode' = [mode EXCEPT ![p] = "down"]
  /\ UNCHANGED <<tables, retry, dead, enq>>

Start(p) ==
  /\ mode[p] = "down"
  /\ mode' = [mode EXCEPT ![p] = "consuming"]
  /\ UNCHANGED <<tables, queues, locals, enq, spent>>

-----------------------------------------------------------------------------
(* One delivery through process, Convert and handleFailure                 *)

(* How a database call made by w may end.  After SIGTERM its context is    *)
(* cancelled and pgx refuses every call.  Otherwise a failing call is a    *)
(* fault: "error" had no effect, "lost" took effect all the same.          *)
Cancelled(w) == mode[ProcOf[w]] \in {"stopping", "closed"}

FaultOf(answer) == IF answer = "error" THEN "db" ELSE "answer"

Answers(w) == IF Cancelled(w) THEN {"error"}
              ELSE {"ok"} \cup {a \in {"error", "lost"} : MayFail(FaultOf(a))}

Charge(w, answer) ==
  spent' = IF answer = "ok" \/ Cancelled(w) THEN spent
           ELSE [spent EXCEPT ![FaultOf(answer)] = @ + 1]

Goto(w, step) == pc' = [pc EXCEPT ![w] = step]

Undecodable(w) ==
  /\ pc[w] = "delivered"
  /\ job[w] = NoJob
  /\ Goto(w, "publishDead")
  /\ UNCHANGED <<tables, queues, job, redelivered, attempt, unacked, mode, enq, spent>>

(* Variants of Claim's condition: one that forgets the                     *)
(* exception for redeliveries, one that lets a fresh message take a        *)
(* converting job, and one that takes converted jobs as well.              *)
ClaimableNeverConverting(j, r) == jobStatus[j] \notin {"converted", "converting"}
ClaimableWhileConverting(j, r) == jobStatus[j] # "converted"
ClaimableConverted(j, r) == jobStatus[j] # "converting" \/ r

Claimable(j, r) == /\ jobStatus[j] # "converted"
                   /\ jobStatus[j] # "converting" \/ r

Claim(w) ==
  LET j == job[w]
      take == Claimable(j, redelivered[w])
  IN  /\ pc[w] = "delivered"
      /\ j \in Jobs
      /\ \E answer \in Answers(w) :
           /\ IF take /\ answer # "error"
              THEN /\ jobStatus' = [jobStatus EXCEPT ![j] = "converting"]
                   /\ attempts' = [attempts EXCEPT ![j] = @ + 1]
              ELSE UNCHANGED <<jobStatus, attempts>>
           /\ IF take /\ answer = "ok"
              THEN attempt' = [attempt EXCEPT ![w] = attempts[j] + 1]
              ELSE UNCHANGED attempt
           /\ Goto(w, IF answer # "ok" THEN "publishRetry"
                      ELSE IF take THEN "markFile" ELSE "ack")
           /\ Charge(w, answer)
      /\ UNCHANGED <<fileStatus, queues, job, redelivered, unacked, mode, enq>>

(* Variants of the decision of handleFailure: off by one either way, and   *)
(* one that publishes the retry without putting the rows back first.       *)
AfterFailureEarly(w) == IF attempt[w] + 1 >= MaxAttempts THEN "publishDead" ELSE "requeue"
AfterFailureLate(w) == IF attempt[w] > MaxAttempts THEN "publishDead" ELSE "requeue"
AfterFailureNoRequeue(w) == IF attempt[w] >= MaxAttempts THEN "publishDead" ELSE "publishRetry"

(* handleFailure: what an error from Convert leads to.                     *)
AfterFailure(w) == IF attempt[w] >= MaxAttempts THEN "publishDead" ELSE "requeue"

(* A status write of w: its effect on the tables, where w goes when it     *)
(* succeeds, and where when it returns an error.                           *)
Write(w, from, newJobs, newFiles, next, onError) ==
  /\ pc[w] = from
  /\ \E answer \in Answers(w) :
       /\ IF answer = "error"
          THEN UNCHANGED <<jobStatus, fileStatus>>
          ELSE jobStatus' = newJobs /\ fileStatus' = newFiles
       /\ Goto(w, IF answer = "ok" THEN next ELSE onError)
       /\ Charge(w, answer)
  /\ UNCHANGED <<attempts, queues, job, redelivered, attempt, unacked, mode, enq>>

JobIs(w, s) == [jobStatus EXCEPT ![job[w]] = s]
FileIs(w, s) == [fileStatus EXCEPT ![FileOf[job[w]]] = s]

MarkFileConverting(w) ==
  Write(w, "markFile", jobStatus, FileIs(w, "converting"), "markJob", AfterFailure(w))

MarkJobConverting(w) ==
  Write(w, "markJob", JobIs(w, "converting"), fileStatus, "convert", AfterFailure(w))

(* Everything between the status writes; it can always fail.               *)
Produce(w) ==
  /\ pc[w] = "convert"
  /\ \E next \in {"fileConverted", "fileFailed"} : Goto(w, next)
  /\ UNCHANGED <<tables, queues, job, redelivered, attempt, unacked, mode, enq, spent>>

MarkFileConverted(w) ==
  Write(w, "fileConverted", jobStatus, FileIs(w, "converted"), "jobConverted", AfterFailure(w))

MarkJobConverted(w) ==
  Write(w, "jobConverted", JobIs(w, "converted"), fileStatus, "ack", AfterFailure(w))

MarkFileFailed(w) ==
  Write(w, "fileFailed", jobStatus, FileIs(w, "failed"), "jobFailed", AfterFailure(w))

MarkJobFailed(w) ==
  Write(w, "jobFailed", JobIs(w, "failed"), fileStatus, AfterFailure(w), AfterFailure(w))

(* Variant of Requeue: the file row is left out.                           *)
RequeueJobOnly(w) ==
  Write(w, "requeue", JobIs(w, "queued"), fileStatus, "publishRetry", "publishRetry")

(* Requeue is one transaction over both rows; its error is only logged.    *)
Requeue(w) ==
  Write(w, "requeue", JobIs(w, "queued"), FileIs(w, "ready"), "publishRetry", "publishRetry")

(* A publish goes out on the live channel, or on one dialled for it when   *)
(* the session is gone, which may fail.  The error is only logged.         *)
Sent(w) == IF mode[ProcOf[w]] \in {"consuming", "stopping"} THEN {1} ELSE {0, 1}

PublishRetry(w) ==
  /\ pc[w] = "publishRetry"
  /\ \E n \in Sent(w) : retry' = [retry EXCEPT ![job[w]] = @ + n]
  /\ Goto(w, "ack")
  /\ UNCHANGED <<tables, main, dead, job, redelivered, attempt, unacked, mode, enq, spent>>

PublishDead(w) ==
  /\ pc[w] = "publishDead"
  /\ \E n \in Sent(w) : dead' = [dead EXCEPT ![job[w]] = @ + n]
  /\ Goto(w, "ack")
  /\ UNCHANGED <<tables, main, retry, job, redelivered, attempt, unacked, mode, enq, spent>>

(* On a dead session the ack fails, which is only logged: the delivery has *)
(* already gone back to the queue.                                         *)
Ack(w) ==
  /\ pc[w] = "ack"
  /\ Forget({w})
  /\ unacked' = [unacked EXCEPT ![w] = FALSE]
  /\ UNCHANGED <<tables, queues, mode, enq, spent>>

-----------------------------------------------------------------------------
Api(j) == \/ CreateJob(j) \/ Enqueue(j) \/ EnqueueLost(j) \/ EnqueueRefused(j)
          \/ MarkEnqueueFailed(j) \/ ApiCrash(j) \/ DuplicatePublish(j)

Process(p) == \/ LinkDrop(p) \/ Resubscribe(p) \/ Stop(p) \/ Close(p)
              \/ Exit(p) \/ Crash(p) \/ Start(p)

Goroutine(w) ==
  \/ Undecodable(w) \/ Claim(w)
  \/ MarkFileConverting(w) \/ MarkJobConverting(w) \/ Produce(w)
  \/ MarkFileConverted(w) \/ MarkJobConverted(w)
  \/ MarkFileFailed(w) \/ MarkJobFailed(w)
  \/ Requeue(w) \/ PublishRetry(w) \/ PublishDead(w) \/ Ack(w)

Next ==
  \/ \E j \in Jobs : Api(j)
  \/ MalformedPublish
  \/ \E b \in Bodies : RetryExpires(b)
  \/ \E w \in Workers, b \in Bodies, r \in BOOLEAN : Deliver(w, b, r)
  \/ \E p \in Procs : Process(p)
  \/ \E w \in Workers : Goroutine(w)

Spec == Init /\ [][Next]_vars

(* What the scheduling guarantees: a request handler and a goroutine that  *)
(* can step do; RabbitMQ expires parked messages and serves its queue in   *)
(* order, so no waiting message is passed over forever; the worker retries *)
(* its subscription until it works, a stopping one closes and exits, and   *)
(* the container's restart policy brings a dead one back.                  *)
Fairness ==
  /\ \A j \in Jobs : WF_vars(CreateJob(j) \/ Enqueue(j) \/ MarkEnqueueFailed(j))
  /\ \A b \in Bodies : WF_vars(RetryExpires(b))
  /\ \A b \in Bodies, r \in BOOLEAN : SF_vars(\E w \in Workers : Deliver(w, b, r))
  /\ \A p \in Procs : WF_vars(Resubscribe(p) \/ Close(p) \/ Exit(p) \/ Start(p))
  /\ \A w \in Workers : WF_vars(Goroutine(w))

FairSpec == Spec /\ Fairness

-----------------------------------------------------------------------------
(* Properties                                                              *)

Handles(w, j, steps) == job[w] = j /\ pc[w] \in steps

(* A goroutine has claimed j and not yet acked it, so it is still writing, *)
(* or publishing, what comes next, and should it die the broker gets its   *)
(* delivery back.                                                          *)
InProgress(j) ==
  \E w \in Workers : unacked[w] /\ Handles(w, j, Converting \cup Settling)

(* Some copy of j is waiting or just taken, and its claim would succeed as *)
(* the row stands now.                                                     *)
WillBeClaimed(j) ==
  \E r \in BOOLEAN :
    /\ Claimable(j, r)
    /\ \/ main[<<j, r>>] > 0
       \/ ~r /\ retry[j] > 0
       \/ \E w \in Workers : redelivered[w] = r /\ Handles(w, j, {"delivered"})

GivenUp(j) == jobStatus[j] = "failed" /\ dead[j] > 0

Settled(j) == jobStatus[j] = "converted" \/ GivenUp(j)

(* A job the API reported as enqueued is converted, given up with its      *)
(* message kept in the dead-letter queue, in progress, or will be claimed: *)
(* the interplay of Claim's conditions, Requeue before publishing, and ack *)
(* last never leaves it stranded (Consumer.process, handleFailure).        *)
NoJobAbandoned ==
  \A j \in Jobs : enq[j] = "enqueued" =>
    Settled(j) \/ InProgress(j) \/ WillBeClaimed(j)

(* Claim is exclusive: no two goroutines convert one job at the same time. *)
SoleConversion ==
  \A v, w \in Workers : \A j \in Jobs :
    Handles(v, j, Converting) /\ Handles(w, j, Converting) => v = w

(* A converted job stays converted: its bundle is published, nothing may   *)
(* reopen the row (Claim refuses it, and no other write may come late).    *)
ConvertedIsFinal ==
  [][\A j \in Jobs : jobStatus[j] = "converted" => jobStatus'[j] = "converted"]_vars

(* A job's message reaches the dead-letter queue only once its attempts    *)
(* are used up, whatever fails (handleFailure's exhausted).                *)
DeadLettersAreExhausted ==
  \A j \in Jobs : dead[j] > 0 => attempts[j] >= MaxAttempts

(* MaxAttempts caps how many times a job is converted; under crashes and   *)
(* duplicates each extra copy, and each redelivery to one of the           *)
(* goroutines of a crashed process, can cost one claim more.               *)
AttemptsAccounted ==
  \A j \in Jobs :
    attempts[j] <= MaxAttempts + spent["duplicate"]
                     + Cardinality(Workers) * spent["crash"]

(* Every worker, its session and the database have behaved so far.         *)
Undisturbed ==
  \A k \in {"crash", "drop", "stop", "db", "answer", "duplicate"} : spent[k] = 0

(* Requeue comes before the publish: a parked message never belongs to a   *)
(* job or a file that still reports the failure of the previous attempt.   *)
RetryIsWaiting ==
  Undisturbed => \A j \in Jobs : retry[j] > 0 =>
    jobStatus[j] = "queued" /\ fileStatus[FileOf[j]] = "ready"

(* Convert writes the file and the job in two calls: between deliveries    *)
(* the two rows tell the same story.                                       *)
RowsAgree ==
  Undisturbed => \A j \in Jobs :
    enq[j] \in {"enqueued", "refused"}
      /\ (\A w \in Workers : ~Handles(w, j, Converting \cup {"requeue"}))
    => fileStatus[FileOf[j]] = IF jobStatus[j] = "queued" THEN "ready"
                               ELSE jobStatus[j]

(* Every enqueued job is eventually settled for good.                      *)
EveryJobSettles ==
  \A j \in Jobs : enq[j] = "enqueued" ~> [](Settled(j))

(* The rows keep the promise of JobLifecycle: seen from the table alone,   *)
(* the queue, the goroutines and their faults are takes and outcomes.      *)
Lifecycle == INSTANCE JobLifecycle WITH status <- jobStatus
ImplementsLifecycle == Lifecycle!Spec
=============================================================================
