--------------------------- MODULE JobQueueProofs ---------------------------
(***************************************************************************)
(* Proofs about JobQueue for every set of jobs, files, processes and       *)
(* goroutines, every MaxAttempts and every budget of faults.               *)
(***************************************************************************)
EXTENDS JobQueue, FiniteSetTheorems, TLAPS

-----------------------------------------------------------------------------
(* Adding a copy to the main queue, or taking one out, keeps its type.     *)
LEMMA MainType ==
  ASSUME TypeOK, NEW b \in Bodies, NEW r \in BOOLEAN
  PROVE  /\ [main EXCEPT ![<<b, r>>] = @ + 1] \in [Bodies \X BOOLEAN -> Nat]
         /\ main[<<b, r>>] > 0 =>
              [main EXCEPT ![<<b, r>>] = @ - 1] \in [Bodies \X BOOLEAN -> Nat]
<1>1. PICK m \in Bodies \X BOOLEAN : m = <<b, r>>
  OBVIOUS
<1>2. main \in [Bodies \X BOOLEAN -> Nat]
  BY DEF TypeOK
<1>3. /\ [main EXCEPT ![m] = @ + 1] \in [Bodies \X BOOLEAN -> Nat]
      /\ main[m] > 0 => [main EXCEPT ![m] = @ - 1] \in [Bodies \X BOOLEAN -> Nat]
  <2> DEFINE D == Bodies \X BOOLEAN
  <2>1. m \in D /\ main \in [D -> Nat]
    BY <1>2
  <2> HIDE DEF D
  <2>2. /\ [main EXCEPT ![m] = @ + 1] \in [D -> Nat]
        /\ main[m] > 0 => [main EXCEPT ![m] = @ - 1] \in [D -> Nat]
    BY <2>1
  <2>3. QED
    BY <2>2 DEF D
<1>4. QED
  BY <1>1, <1>3

(* Forgetting goroutines keeps their locals in their types.                *)
LEMMA ForgetType ==
  ASSUME TypeOK, NEW W, Forget(W)
  PROVE  /\ pc' \in [Workers -> Steps]
         /\ job' \in [Workers -> Bodies]
         /\ redelivered' \in [Workers -> BOOLEAN]
         /\ attempt' \in [Workers -> Nat]
<1>1. Idle \in Steps /\ NoJob \in Bodies /\ 0 \in Nat
  BY DEF Steps, Bodies
<1>2. QED
  BY <1>1 DEF TypeOK, Forget

(* Redelivering adds to every queue entry a natural number.                *)
LEMMA RedeliverType ==
  ASSUME TypeOK, NEW p, Redeliver(p)
  PROVE  main' \in [Bodies \X BOOLEAN -> Nat]
<1>1. ASSUME NEW m \in Bodies \X BOOLEAN
      PROVE  Cardinality({w \in Goroutines(p) : unacked[w] /\ job[w] = m[1]}) \in Nat
  <2>1. {w \in Goroutines(p) : unacked[w] /\ job[w] = m[1]} \subseteq Workers
    BY DEF Goroutines
  <2>2. QED
    BY <2>1, WorkersAssumption, FS_Subset, FS_CardinalityType
<1>2. QED
  BY <1>1 DEF TypeOK, Redeliver

LEMMA EndSessionType ==
  ASSUME TypeOK, NEW p, EndSession(p)
  PROVE  /\ main' \in [Bodies \X BOOLEAN -> Nat]
         /\ pc' \in [Workers -> Steps]
         /\ job' \in [Workers -> Bodies]
         /\ redelivered' \in [Workers -> BOOLEAN]
         /\ attempt' \in [Workers -> Nat]
         /\ unacked' \in [Workers -> BOOLEAN]
<1>1. unacked' \in [Workers -> BOOLEAN]
  BY DEF TypeOK, EndSession
<1>2. main' \in [Bodies \X BOOLEAN -> Nat]
  BY RedeliverType DEF EndSession
<1>3. PICK W : Forget(W)
  BY DEF EndSession
<1>4. QED
  BY <1>1, <1>2, <1>3, ForgetType

LEMMA SpendType ==
  ASSUME TypeOK, NEW k \in Faults, Spend(k)
  PROVE  spent' \in [Faults -> Nat]
BY DEF TypeOK, Spend, MayFail

LEMMA ChargeType ==
  ASSUME TypeOK, NEW w, NEW answer, Charge(w, answer)
  PROVE  spent' \in [Faults -> Nat]
BY DEF TypeOK, Charge, FaultOf, Faults

(* A status write keeps the types if the rows it writes have them.         *)
LEMMA WriteType ==
  ASSUME TypeOK, NEW w \in Workers,
         NEW from, NEW newJobs \in [Jobs -> JobStatus \cup {"none"}],
         NEW newFiles \in [Files -> FileStatus],
         NEW next \in Steps, NEW onError \in Steps,
         Write(w, from, newJobs, newFiles, next, onError)
  PROVE  TypeOK'
<1>1. PICK answer :
        /\ IF answer = "error" THEN UNCHANGED <<jobStatus, fileStatus>>
           ELSE jobStatus' = newJobs /\ fileStatus' = newFiles
        /\ Goto(w, IF answer = "ok" THEN next ELSE onError)
        /\ Charge(w, answer)
  BY DEF Write
<1>2. spent' \in [Faults -> Nat]
  BY <1>1, ChargeType
<1>3. QED
  BY <1>1, <1>2 DEF TypeOK, Write, Goto, queues

LEMMA AfterFailureType ==
  ASSUME NEW w
  PROVE  AfterFailure(w) \in Steps
BY DEF AfterFailure, Steps, Settling

LEMMA RowTypes ==
  ASSUME TypeOK, NEW w \in Workers,
         NEW s \in JobStatus, NEW t \in FileStatus
  PROVE  /\ JobIs(w, s) \in [Jobs -> JobStatus \cup {"none"}]
         /\ FileIs(w, t) \in [Files -> FileStatus]
         /\ jobStatus \in [Jobs -> JobStatus \cup {"none"}]
         /\ fileStatus \in [Files -> FileStatus]
BY DEF TypeOK, JobIs, FileIs

-----------------------------------------------------------------------------
(* Every variable stays in its type, whatever fails.                       *)
LEMMA TypeInit == Init => TypeOK
BY DEF Init, EmptyQueue, TypeOK, FileStatus, Steps, Bodies, Modes, EnqSteps, Idle

LEMMA TypeApi ==
  ASSUME TypeOK, NEW j \in Jobs, Api(j)
  PROVE  TypeOK'
<1>1. CASE CreateJob(j)
  BY <1>1 DEF TypeOK, CreateJob, JobStatus, EnqSteps, queues, locals
<1>2. CASE Enqueue(j)
  <2>1. main' \in [Bodies \X BOOLEAN -> Nat]
    BY <1>2, MainType DEF Enqueue, Bodies
  <2>2. QED
    BY <1>2, <2>1 DEF TypeOK, Enqueue, EnqSteps, tables, locals
<1>3. CASE EnqueueLost(j)
  BY <1>3, SpendType DEF TypeOK, EnqueueLost, EnqSteps, tables, queues, locals, Faults
<1>4. CASE EnqueueRefused(j)
  BY <1>4, SpendType DEF TypeOK, EnqueueRefused, EnqSteps, tables, queues, locals, Faults
<1>5. CASE MarkEnqueueFailed(j)
  <2>1. /\ jobStatus' \in [Jobs -> JobStatus \cup {"none"}]
        /\ fileStatus' \in [Files -> FileStatus]
    BY <1>5, TablesAssumption DEF TypeOK, MarkEnqueueFailed, JobStatus, FileStatus
  <2>2. spent' \in [Faults -> Nat]
    BY <1>5, SpendType DEF TypeOK, MarkEnqueueFailed, Faults
  <2>3. enq' \in [Jobs -> EnqSteps]
    BY <1>5 DEF TypeOK, MarkEnqueueFailed, EnqSteps
  <2>4. QED
    BY <1>5, <2>1, <2>2, <2>3 DEF TypeOK, MarkEnqueueFailed, queues, locals
<1>6. CASE ApiCrash(j)
  BY <1>6, SpendType DEF TypeOK, ApiCrash, EnqSteps, tables, queues, locals, Faults
<1>7. CASE DuplicatePublish(j)
  <2>1. main' \in [Bodies \X BOOLEAN -> Nat]
    BY <1>7, MainType DEF DuplicatePublish, Bodies
  <2>2. QED
    BY <1>7, <2>1, SpendType DEF TypeOK, DuplicatePublish, tables, locals, Faults
<1>8. QED
  BY <1>1, <1>2, <1>3, <1>4, <1>5, <1>6, <1>7 DEF Api

LEMMA TypeBroker ==
  ASSUME TypeOK,
         \/ MalformedPublish
         \/ \E b \in Bodies : RetryExpires(b)
         \/ \E w \in Workers, b \in Bodies, r \in BOOLEAN : Deliver(w, b, r)
  PROVE  TypeOK'
<1>1. CASE MalformedPublish
  <2>1. main' \in [Bodies \X BOOLEAN -> Nat]
    BY <1>1, MainType DEF MalformedPublish, Bodies
  <2>2. QED
    BY <1>1, <2>1, SpendType DEF TypeOK, MalformedPublish, tables, locals, Faults
<1>2. ASSUME NEW b \in Bodies, RetryExpires(b)
      PROVE  TypeOK'
  <2>1. main' \in [Bodies \X BOOLEAN -> Nat]
    BY <1>2, MainType DEF RetryExpires
  <2>2. retry' \in [Bodies -> Nat]
    BY <1>2 DEF TypeOK, RetryExpires
  <2>3. QED
    BY <1>2, <2>1, <2>2 DEF TypeOK, RetryExpires, tables, locals
<1>3. ASSUME NEW w \in Workers, NEW b \in Bodies, NEW r \in BOOLEAN, Deliver(w, b, r)
      PROVE  TypeOK'
  <2>1. main' \in [Bodies \X BOOLEAN -> Nat]
    BY <1>3, MainType DEF Deliver
  <2>2. QED
    BY <1>3, <2>1 DEF TypeOK, Deliver, tables, Steps
<1>4. QED
  BY <1>1, <1>2, <1>3

LEMMA TypeProcess ==
  ASSUME TypeOK, NEW p \in Procs, Process(p)
  PROVE  TypeOK'
<1>1. CASE LinkDrop(p)
  BY <1>1, SpendType, EndSessionType DEF TypeOK, LinkDrop, tables, Modes, Faults
<1>2. CASE Resubscribe(p)
  BY <1>2 DEF TypeOK, Resubscribe, tables, queues, locals, Modes
<1>3. CASE Stop(p)
  BY <1>3, SpendType DEF TypeOK, Stop, tables, queues, locals, Modes, Faults
<1>4. CASE Close(p)
  BY <1>4, EndSessionType DEF TypeOK, Close, tables, Modes
<1>5. CASE Exit(p)
  BY <1>5 DEF TypeOK, Exit, tables, queues, locals, Modes
<1>6. CASE Crash(p)
  <2>1. unacked' \in [Workers -> BOOLEAN]
    BY <1>6 DEF TypeOK, Crash
  <2>2. QED
    BY <1>6, <2>1, SpendType, RedeliverType, ForgetType
       DEF TypeOK, Crash, tables, Modes, Faults
<1>7. CASE Start(p)
  BY <1>7 DEF TypeOK, Start, tables, queues, locals, Modes
<1>8. QED
  BY <1>1, <1>2, <1>3, <1>4, <1>5, <1>6, <1>7 DEF Process

LEMMA TypeGoroutine ==
  ASSUME TypeOK, NEW w \in Workers, Goroutine(w)
  PROVE  TypeOK'
<1> USE DEF JobStatus, FileStatus
<1>s. /\ {"markFile", "markJob", "convert", "fileConverted", "jobConverted",
          "fileFailed", "jobFailed", "publishRetry", "publishDead", "ack"} \subseteq Steps
      /\ AfterFailure(w) \in Steps
  BY AfterFailureType DEF Steps, Converting, Settling
<1>1. CASE Undecodable(w)
  BY <1>1, <1>s DEF TypeOK, Undecodable, Goto, tables, queues
<1>2. CASE Claim(w)
  <2>1. PICK answer :
          /\ IF Claimable(job[w], redelivered[w]) /\ answer # "error"
             THEN /\ jobStatus' = [jobStatus EXCEPT ![job[w]] = "converting"]
                  /\ attempts' = [attempts EXCEPT ![job[w]] = @ + 1]
             ELSE UNCHANGED <<jobStatus, attempts>>
          /\ IF Claimable(job[w], redelivered[w]) /\ answer = "ok"
             THEN attempt' = [attempt EXCEPT ![w] = attempts[job[w]] + 1]
             ELSE UNCHANGED attempt
          /\ Goto(w, IF answer # "ok" THEN "publishRetry"
                     ELSE IF Claimable(job[w], redelivered[w]) THEN "markFile" ELSE "ack")
          /\ Charge(w, answer)
    BY <1>2 DEF Claim
  <2>2. spent' \in [Faults -> Nat]
    BY <2>1, ChargeType
  <2>3. job[w] \in Jobs
    BY <1>2 DEF Claim
  <2>4. QED
    BY <1>2, <1>s, <2>1, <2>2, <2>3 DEF TypeOK, Claim, Goto, queues
<1>3. CASE MarkFileConverting(w)
  BY <1>3, <1>s, WriteType, RowTypes DEF MarkFileConverting
<1>4. CASE MarkJobConverting(w)
  BY <1>4, <1>s, WriteType, RowTypes DEF MarkJobConverting
<1>5. CASE Produce(w)
  BY <1>5, <1>s DEF TypeOK, Produce, Goto, tables, queues
<1>6. CASE MarkFileConverted(w)
  BY <1>6, <1>s, WriteType, RowTypes DEF MarkFileConverted
<1>7. CASE MarkJobConverted(w)
  BY <1>7, <1>s, WriteType, RowTypes DEF MarkJobConverted
<1>8. CASE MarkFileFailed(w)
  BY <1>8, <1>s, WriteType, RowTypes DEF MarkFileFailed
<1>9. CASE MarkJobFailed(w)
  BY <1>9, <1>s, WriteType, RowTypes DEF MarkJobFailed
<1>10. CASE Requeue(w)
  BY <1>10, <1>s, WriteType, RowTypes DEF Requeue
<1>11. CASE PublishRetry(w)
  BY <1>11, <1>s DEF TypeOK, PublishRetry, Sent, Goto, tables
<1>12. CASE PublishDead(w)
  BY <1>12, <1>s DEF TypeOK, PublishDead, Sent, Goto, tables
<1>13. CASE Ack(w)
  BY <1>13, ForgetType DEF TypeOK, Ack, tables, queues
<1>14. QED
  BY <1>1, <1>2, <1>3, <1>4, <1>5, <1>6, <1>7, <1>8, <1>9, <1>10, <1>11, <1>12,
     <1>13 DEF Goroutine

LEMMA TypeStep == TypeOK /\ [Next]_vars => TypeOK'
<1> SUFFICES ASSUME TypeOK, [Next]_vars
             PROVE  TypeOK'
  OBVIOUS
<1>1. CASE UNCHANGED vars
  BY <1>1 DEF TypeOK, vars, tables, queues, locals
<1>2. CASE Next
  BY <1>2, TypeApi, TypeBroker, TypeProcess, TypeGoroutine DEF Next
<1>3. QED
  BY <1>1, <1>2

(* Type correctness: in every reachable state the rows, the queues and the *)
(* goroutines hold values of their types, under every combination of       *)
(* faults.                                                                 *)
THEOREM TypeCorrect == Spec => []TypeOK
<1>1. Init => TypeOK
  BY TypeInit
<1>2. TypeOK /\ [Next]_vars => TypeOK'
  BY TypeStep
<1>3. QED
  BY <1>1, <1>2, PTL DEF Spec

-----------------------------------------------------------------------------
(* What holds under every combination of faults: a goroutine handles only  *)
(* jobs whose message was published, the attempt it remembers is no newer  *)
(* than the row's, and it gives up only when the attempts are used up.     *)
GoroutineOK(w) ==
  /\ pc[w] \in Converting \cup {"requeue"} => job[w] \in Jobs
  /\ pc[w] \in Converting => attempt[w] >= 1
  /\ pc[w] \in {Idle, "delivered"} => attempt[w] = 0
  /\ job[w] \in Jobs => /\ enq[job[w]] = "enqueued"
                        /\ attempt[w] <= attempts[job[w]]
                        /\ pc[w] = "publishDead" => attempts[job[w]] >= MaxAttempts

(* A job with no message yet has a row nobody has touched.                 *)
JobOK(j) ==
  /\ dead[j] > 0 => attempts[j] >= MaxAttempts
  /\ enq[j] = "none" => jobStatus[j] = "none"
  /\ jobStatus[j] = "none" => enq[j] = "none"
  /\ enq[j] \in {"created", "markJob"} => jobStatus[j] = "queued"
  /\ enq[j] # "enqueued" =>
       main[<<j, FALSE>>] = 0 /\ main[<<j, TRUE>>] = 0 /\ retry[j] = 0

Basics == /\ TypeOK
          /\ \A w \in Workers : GoroutineOK(w)
          /\ \A j \in Jobs : JobOK(j)

(* What the main queue holds of j after a session of p has ended.          *)
LEMMA RedeliverCounts ==
  ASSUME TypeOK, NEW p, Redeliver(p), NEW j \in Jobs
  PROVE  /\ main'[<<j, FALSE>>] = main[<<j, FALSE>>]
         /\ main'[<<j, TRUE>>] >= main[<<j, TRUE>>]
         /\ (\A w \in Workers : job[w] # j) => main'[<<j, TRUE>>] = main[<<j, TRUE>>]
         /\ (\E w \in Workers : ProcOf[w] = p /\ unacked[w] /\ job[w] = j)
              => main'[<<j, TRUE>>] > 0
<1> DEFINE S == {w \in Goroutines(p) : unacked[w] /\ job[w] = j}
<1>1. /\ <<j, FALSE>> \in Bodies \X BOOLEAN
      /\ <<j, TRUE>> \in Bodies \X BOOLEAN
  BY DEF Bodies
<1>2. /\ main'[<<j, FALSE>>] = main[<<j, FALSE>>] + 0
      /\ main'[<<j, TRUE>>] = main[<<j, TRUE>>] + Cardinality(S)
  BY <1>1 DEF Redeliver
<1>3. main[<<j, FALSE>>] \in Nat /\ main[<<j, TRUE>>] \in Nat
  BY <1>1 DEF TypeOK
<1>4. IsFiniteSet(S) /\ Cardinality(S) \in Nat
  BY WorkersAssumption, FS_Subset, FS_CardinalityType DEF Goroutines
<1>5. S = {} <=> Cardinality(S) = 0
  BY <1>4, FS_EmptySet
<1>6. (\A w \in Workers : job[w] # j) => S = {}
  BY DEF Goroutines
<1>7. (\E w \in Workers : ProcOf[w] = p /\ unacked[w] /\ job[w] = j) => S # {}
  BY DEF Goroutines
<1> HIDE DEF S
<1>8. QED
  BY <1>2, <1>3, <1>4, <1>5, <1>6, <1>7

(* A set of goroutines that forget, and nothing else they depend on moves. *)
LEMMA ForgetBasics ==
  ASSUME Basics, NEW W, Forget(W), UNCHANGED <<attempts, enq>>
  PROVE  \A w \in Workers : GoroutineOK(w)'
<1> SUFFICES ASSUME NEW w \in Workers
             PROVE  GoroutineOK(w)'
  OBVIOUS
<1>1. CASE w \in W
  BY <1>1, TablesAssumption DEF Forget, GoroutineOK, Converting, Idle
<1>2. CASE w \notin W
  BY <1>2 DEF Basics, Forget, GoroutineOK
<1>3. QED
  BY <1>1, <1>2

(* The end of a session, or of a process, leaves the basics in place.      *)
LEMMA RedeliverBasics ==
  ASSUME Basics, NEW p, Redeliver(p), UNCHANGED <<jobStatus, attempts, retry, dead, enq>>
  PROVE  \A j \in Jobs : JobOK(j)'
<1> SUFFICES ASSUME NEW j \in Jobs
             PROVE  JobOK(j)'
  OBVIOUS
<1>1. enq[j] # "enqueued" => \A w \in Workers : job[w] # j
  BY DEF Basics, GoroutineOK
<1>2. QED
  BY <1>1, RedeliverCounts DEF Basics, JobOK

LEMMA BasicsWrite ==
  ASSUME Basics, NEW w \in Workers,
         NEW from \in Converting \cup {"requeue"},
         NEW newJobs, NEW newFiles, NEW next, NEW onError,
         \A j \in Jobs : newJobs[j] = jobStatus[j] \/ (j = job[w] /\ newJobs[j] # "none"),
         next \in Converting => from \in Converting,
         next \in {"publishRetry", "ack"} \cup Converting \/ next = AfterFailure(w),
         onError = "publishRetry" \/ onError = AfterFailure(w),
         Write(w, from, newJobs, newFiles, next, onError), TypeOK'
  PROVE  Basics'
<1>1. pc[w] = from /\ job[w] \in Jobs
  BY DEF Write, Basics, GoroutineOK
<1>2. /\ pc'[w] \in {next, onError}
      /\ \A v \in Workers : v # w => pc'[v] = pc[v]
      /\ jobStatus' = jobStatus \/ jobStatus' = newJobs
      /\ UNCHANGED <<attempts, main, retry, dead, job, redelivered, attempt, enq>>
  BY DEF Write, Goto, Basics, TypeOK, queues
<1>3. AfterFailure(w) \in {"publishDead", "requeue"}
      /\ (AfterFailure(w) = "publishDead" => attempt[w] >= MaxAttempts)
  BY DEF AfterFailure
<1>4. /\ attempt[w] \in Nat /\ attempts[job[w]] \in Nat /\ MaxAttempts \in Nat
      /\ attempt[w] <= attempts[job[w]]
  BY <1>1, AttemptsAssumption DEF Basics, GoroutineOK, TypeOK
<1>5. GoroutineOK(w)'
  BY <1>1, <1>2, <1>3, <1>4 DEF Basics, GoroutineOK, Converting, Idle
<1>6. ASSUME NEW v \in Workers, v # w
      PROVE  GoroutineOK(v)'
  BY <1>2, <1>6 DEF Basics, GoroutineOK
<1>7. ASSUME NEW j \in Jobs
      PROVE  JobOK(j)'
  BY <1>1, <1>2 DEF Basics, GoroutineOK, JobOK
<1>8. QED
  BY <1>5, <1>6, <1>7 DEF Basics

LEMMA BasicsGoroutine ==
  ASSUME Basics, TypeOK', NEW w \in Workers, Goroutine(w)
  PROVE  Basics'
<1> DEFINE Written(newJobs) ==
             \A j \in Jobs : newJobs[j] = jobStatus[j] \/ (j = job[w] /\ newJobs[j] # "none")
<1>w. \A s \in JobStatus : Written(JobIs(w, s))
  BY DEF Basics, TypeOK, JobIs, JobStatus
<1>j. Written(jobStatus)
  OBVIOUS
<1>t. TypeOK
  BY DEF Basics
<1>1. CASE Undecodable(w)
  BY <1>1, <1>t, TablesAssumption
     DEF Undecodable, Basics, GoroutineOK, JobOK, TypeOK, Goto, Converting, Idle, tables, queues
<1>2. CASE Claim(w)
  <2>1. /\ job[w] \in Jobs
        /\ pc[w] = "delivered"
        /\ attempt[w] = 0
        /\ UNCHANGED <<job, enq, main, retry, dead>>
    BY <1>2 DEF Claim, Basics, GoroutineOK, queues
  <2>2. PICK answer :
          /\ IF Claimable(job[w], redelivered[w]) /\ answer # "error"
             THEN /\ jobStatus' = [jobStatus EXCEPT ![job[w]] = "converting"]
                  /\ attempts' = [attempts EXCEPT ![job[w]] = @ + 1]
             ELSE UNCHANGED <<jobStatus, attempts>>
          /\ IF Claimable(job[w], redelivered[w]) /\ answer = "ok"
             THEN attempt' = [attempt EXCEPT ![w] = attempts[job[w]] + 1]
             ELSE UNCHANGED attempt
          /\ Goto(w, IF answer # "ok" THEN "publishRetry"
                     ELSE IF Claimable(job[w], redelivered[w]) THEN "markFile" ELSE "ack")
    BY <1>2 DEF Claim
  <2>3. \/ /\ attempts'[job[w]] = attempts[job[w]] + 1
           /\ \/ pc'[w] = "markFile" /\ attempt'[w] = attempts[job[w]] + 1
              \/ pc'[w] = "publishRetry" /\ attempt'[w] = attempt[w]
        \/ /\ attempts'[job[w]] = attempts[job[w]]
           /\ pc'[w] \in {"publishRetry", "ack"} /\ attempt'[w] = attempt[w]
    BY <1>t, <2>1, <2>2 DEF TypeOK, Goto
  <2>4. /\ \A j \in Jobs : j # job[w] => attempts'[j] = attempts[j]
        /\ \A j \in Jobs : j # job[w] => jobStatus'[j] = jobStatus[j]
        /\ jobStatus'[job[w]] \in {jobStatus[job[w]], "converting"}
    BY <1>t, <2>1, <2>2 DEF TypeOK
  <2>5. \A v \in Workers : v # w => pc'[v] = pc[v] /\ attempt'[v] = attempt[v]
    BY <1>t, <2>2 DEF TypeOK, Goto
  <2>6. /\ \A j \in Jobs : attempts[j] \in Nat
        /\ \A v \in Workers : attempt[v] \in Nat
        /\ MaxAttempts \in Nat
    BY <1>t, AttemptsAssumption DEF TypeOK
  <2>7. /\ enq[job[w]] = "enqueued"
        /\ \A j \in Jobs : attempts'[j] >= attempts[j]
    BY <2>1, <2>3, <2>4, <2>6 DEF Basics, GoroutineOK
  <2>8. GoroutineOK(w)'
    BY <2>1, <2>3, <2>6, <2>7 DEF Basics, GoroutineOK, Converting, Idle
  <2>9. ASSUME NEW v \in Workers, v # w
        PROVE  GoroutineOK(v)'
    <3>1. GoroutineOK(v)
      BY DEF Basics
    <3>2. job[v] \in Jobs => attempts'[job[v]] >= attempts[job[v]]
                               /\ attempts'[job[v]] \in Nat /\ attempts[job[v]] \in Nat
      BY <2>3, <2>4, <2>6, <2>7
    <3>3. QED
      BY <2>1, <2>5, <2>6, <2>9, <3>1, <3>2 DEF GoroutineOK
  <2>10. ASSUME NEW j \in Jobs
         PROVE  JobOK(j)'
    <3>1. /\ JobOK(j)
          /\ attempts'[j] \in Nat /\ attempts[j] \in Nat /\ attempts'[j] >= attempts[j]
          /\ jobStatus'[j] = jobStatus[j] \/ (enq[j] = "enqueued" /\ jobStatus'[j] # "none")
      BY <2>1, <2>3, <2>4, <2>6, <2>7 DEF Basics
    <3>2. QED
      BY <2>1, <2>6, <3>1 DEF JobOK
  <2>11. QED
    BY <2>8, <2>9, <2>10 DEF Basics
<1>3. CASE MarkFileConverting(w)
  BY <1>3, <1>j, BasicsWrite DEF MarkFileConverting, Converting
<1>4. CASE MarkJobConverting(w)
  BY <1>4, <1>w, BasicsWrite DEF JobStatus, MarkJobConverting, Converting
<1>5. CASE Produce(w)
  BY <1>5, <1>t DEF Produce, Basics, GoroutineOK, JobOK, TypeOK, Goto, Converting, Idle, tables, queues
<1>6. CASE MarkFileConverted(w)
  BY <1>6, <1>j, BasicsWrite DEF MarkFileConverted, Converting
<1>7. CASE MarkJobConverted(w)
  BY <1>7, <1>w, BasicsWrite DEF JobStatus, MarkJobConverted, Converting
<1>8. CASE MarkFileFailed(w)
  BY <1>8, <1>j, BasicsWrite DEF MarkFileFailed, Converting
<1>9. CASE MarkJobFailed(w)
  <2>1. AfterFailure(w) \notin Converting
    BY DEF AfterFailure, Converting
  <2>2. QED
    BY <1>9, <1>w, <2>1, BasicsWrite DEF JobStatus, MarkJobFailed, Converting
<1>10. CASE Requeue(w)
  BY <1>10, <1>w, BasicsWrite DEF JobStatus, Requeue, Converting
<1>11. CASE PublishRetry(w)
  <2>1. /\ UNCHANGED <<jobStatus, attempts, main, dead, job, attempt, enq>>
        /\ pc' = [pc EXCEPT ![w] = "ack"]
        /\ \A j \in Jobs : j # job[w] => retry'[j] = retry[j]
    BY <1>11, <1>t DEF PublishRetry, Goto, tables, TypeOK
  <2>2. \A v \in Workers : GoroutineOK(v)'
    BY <1>t, <2>1 DEF Basics, GoroutineOK, TypeOK, Converting, Idle
  <2>3. ASSUME NEW j \in Jobs
        PROVE  JobOK(j)'
    <3>1. enq[j] # "enqueued" => j # job[w]
      BY DEF Basics, GoroutineOK
    <3>2. QED
      BY <2>1, <3>1 DEF Basics, JobOK
  <2>4. QED
    BY <2>2, <2>3 DEF Basics
<1>12. CASE PublishDead(w)
  <2>1. /\ UNCHANGED <<jobStatus, attempts, main, retry, job, attempt, enq>>
        /\ pc[w] = "publishDead"
        /\ pc' = [pc EXCEPT ![w] = "ack"]
        /\ \A j \in Jobs : j # job[w] => dead'[j] = dead[j]
    BY <1>12, <1>t DEF PublishDead, Goto, tables, TypeOK
  <2>2. \A v \in Workers : GoroutineOK(v)'
    BY <1>t, <2>1 DEF Basics, GoroutineOK, TypeOK, Converting, Idle
  <2>3. ASSUME NEW j \in Jobs
        PROVE  JobOK(j)'
    <3>1. j = job[w] => attempts[j] >= MaxAttempts
      BY <2>1 DEF Basics, GoroutineOK
    <3>2. QED
      BY <2>1, <3>1 DEF Basics, JobOK
  <2>4. QED
    BY <2>2, <2>3 DEF Basics
<1>13. CASE Ack(w)
  <2>1. \A v \in Workers : GoroutineOK(v)'
    BY <1>13, ForgetBasics DEF Ack, tables
  <2>2. \A j \in Jobs : JobOK(j)'
    BY <1>13 DEF Ack, tables, queues, Basics, JobOK
  <2>3. QED
    BY <2>1, <2>2 DEF Basics
<1>14. QED
  BY <1>1, <1>2, <1>3, <1>4, <1>5, <1>6, <1>7, <1>8, <1>9, <1>10, <1>11, <1>12,
     <1>13 DEF Goroutine

LEMMA BasicsProcess ==
  ASSUME Basics, TypeOK', NEW p \in Procs, Process(p)
  PROVE  Basics'
<1>1. CASE LinkDrop(p) \/ Close(p)
  <2>1. EndSession(p) /\ UNCHANGED <<jobStatus, attempts, retry, dead, enq>>
    BY <1>1 DEF LinkDrop, Close, tables
  <2>2. \A w \in Workers : GoroutineOK(w)'
    BY <2>1, ForgetBasics DEF EndSession
  <2>3. \A j \in Jobs : JobOK(j)'
    BY <2>1, RedeliverBasics DEF EndSession
  <2>4. QED
    BY <2>2, <2>3 DEF Basics
<1>2. CASE Crash(p)
  <2>1. \A w \in Workers : GoroutineOK(w)'
    BY <1>2, ForgetBasics DEF Crash, tables
  <2>2. \A j \in Jobs : JobOK(j)'
    BY <1>2, RedeliverBasics DEF Crash, tables
  <2>3. QED
    BY <2>1, <2>2 DEF Basics
<1>3. CASE Resubscribe(p) \/ Stop(p) \/ Exit(p) \/ Start(p)
  <2>1. UNCHANGED <<tables, queues, locals, enq>>
    BY <1>3 DEF Resubscribe, Stop, Exit, Start
  <2>2. QED
    BY <2>1 DEF Basics, GoroutineOK, JobOK, tables, queues, locals
<1>4. QED
  BY <1>1, <1>2, <1>3 DEF Process

LEMMA BasicsBroker ==
  ASSUME Basics, TypeOK',
         \/ MalformedPublish
         \/ \E b \in Bodies : RetryExpires(b)
         \/ \E w \in Workers, b \in Bodies, r \in BOOLEAN : Deliver(w, b, r)
  PROVE  Basics'
<1>t. TypeOK
  BY DEF Basics
<1>p. ASSUME NEW b \in Bodies, NEW r \in BOOLEAN, NEW n,
             main' = [main EXCEPT ![<<b, r>>] = n],
             NEW j \in Jobs, j # b
      PROVE  main'[<<j, FALSE>>] = main[<<j, FALSE>>] /\ main'[<<j, TRUE>>] = main[<<j, TRUE>>]
  <2>1. /\ <<j, FALSE>> \in Bodies \X BOOLEAN /\ <<j, TRUE>> \in Bodies \X BOOLEAN
        /\ <<j, FALSE>> # <<b, r>> /\ <<j, TRUE>> # <<b, r>>
    BY <1>p DEF Bodies
  <2>2. QED
    BY <1>p, <1>t, <2>1 DEF TypeOK
<1>1. CASE MalformedPublish
  <2>1. /\ UNCHANGED <<jobStatus, attempts, retry, dead, enq, pc, job, attempt>>
        /\ \A j \in Jobs : main'[<<j, FALSE>>] = main[<<j, FALSE>>]
                             /\ main'[<<j, TRUE>>] = main[<<j, TRUE>>]
    BY <1>1, <1>p, TablesAssumption DEF MalformedPublish, tables, locals, Bodies
  <2>2. QED
    BY <2>1 DEF Basics, GoroutineOK, JobOK
<1>2. ASSUME NEW b \in Bodies, RetryExpires(b)
      PROVE  Basics'
  <2>1. /\ UNCHANGED <<jobStatus, attempts, dead, enq, pc, job, attempt>>
        /\ retry[b] > 0
        /\ \A j \in Jobs : j # b => /\ retry'[j] = retry[j]
                                    /\ main'[<<j, FALSE>>] = main[<<j, FALSE>>]
                                    /\ main'[<<j, TRUE>>] = main[<<j, TRUE>>]
    BY <1>2, <1>p, <1>t DEF RetryExpires, tables, locals, TypeOK
  <2>2. b \in Jobs => enq[b] = "enqueued"
    <3>1. b \in Jobs /\ enq[b] # "enqueued" => retry[b] = 0
      BY DEF Basics, JobOK
    <3>2. QED
      BY <2>1, <3>1
  <2>3. \A v \in Workers : GoroutineOK(v)'
    BY <2>1 DEF Basics, GoroutineOK
  <2>4. \A j \in Jobs : JobOK(j)'
    BY <2>1, <2>2 DEF Basics, JobOK
  <2>5. QED
    BY <2>3, <2>4 DEF Basics
<1>3. ASSUME NEW w \in Workers, NEW b \in Bodies, NEW r \in BOOLEAN, Deliver(w, b, r)
      PROVE  Basics'
  <2>1. /\ UNCHANGED <<jobStatus, attempts, retry, dead, enq, attempt>>
        /\ pc[w] = Idle
        /\ pc' = [pc EXCEPT ![w] = "delivered"]
        /\ job' = [job EXCEPT ![w] = b]
        /\ main[<<b, r>>] > 0
        /\ \A j \in Jobs : j # b => /\ main'[<<j, FALSE>>] = main[<<j, FALSE>>]
                                    /\ main'[<<j, TRUE>>] = main[<<j, TRUE>>]
    BY <1>3, <1>p DEF Deliver, tables
  <2>2. b \in Jobs => enq[b] = "enqueued"
    <3>1. b \in Jobs /\ enq[b] # "enqueued" => main[<<b, TRUE>>] = 0 /\ main[<<b, FALSE>>] = 0
      BY DEF Basics, JobOK
    <3>2. CASE r
      <4>1. <<b, r>> = <<b, TRUE>>
        BY <3>2
      <4>2. main[<<b, TRUE>>] > 0
        BY <2>1, <4>1
      <4>3. QED
        BY <3>1, <4>2
    <3>3. CASE ~r
      <4>1. <<b, r>> = <<b, FALSE>>
        BY <3>3
      <4>2. main[<<b, FALSE>>] > 0
        BY <2>1, <4>1
      <4>3. QED
        BY <3>1, <4>2
    <3>4. QED
      BY <3>2, <3>3
  <2>3. \A v \in Workers : GoroutineOK(v)'
    BY <1>t, <2>1, <2>2 DEF Basics, GoroutineOK, TypeOK, Converting
  <2>4. \A j \in Jobs : JobOK(j)'
    BY <2>1, <2>2 DEF Basics, JobOK
  <2>5. QED
    BY <2>3, <2>4 DEF Basics
<1>4. QED
  BY <1>1, <1>2, <1>3

LEMMA BasicsApi ==
  ASSUME Basics, TypeOK', NEW j \in Jobs, Api(j)
  PROVE  Basics'
<1>t. TypeOK
  BY DEF Basics
<1>1. CASE CreateJob(j) \/ EnqueueLost(j) \/ EnqueueRefused(j) \/ MarkEnqueueFailed(j) \/ ApiCrash(j)
  <2>1. /\ UNCHANGED <<attempts, main, retry, dead, pc, job, attempt>>
        /\ enq[j] # "enqueued" /\ enq'[j] # "none"
        /\ jobStatus'[j] = jobStatus[j] \/ jobStatus'[j] # "none"
        /\ enq[j] # "none" \/ jobStatus'[j] = "queued"
        /\ \A i \in Jobs : i # j => enq'[i] = enq[i] /\ jobStatus'[i] = jobStatus[i]
        /\ \/ enq'[j] = "created" /\ jobStatus'[j] = "queued"
           \/ enq'[j] = "markJob" /\ enq[j] = "created" /\ jobStatus' = jobStatus
           \/ enq'[j] \in {"markFile", "refused", "abandoned", "enqueued"}
    BY <1>1, <1>t DEF CreateJob, EnqueueLost, EnqueueRefused, MarkEnqueueFailed, ApiCrash,
                      TypeOK, tables, queues, locals
  <2>2. \A w \in Workers : GoroutineOK(w)'
    BY <2>1 DEF Basics, GoroutineOK
  <2>3. \A i \in Jobs : JobOK(i)'
    BY <2>1 DEF Basics, JobOK
  <2>4. QED
    BY <2>2, <2>3 DEF Basics
<1>2. CASE Enqueue(j) \/ DuplicatePublish(j)
  <2>1. /\ UNCHANGED <<jobStatus, attempts, retry, dead, pc, job, attempt>>
        /\ enq[j] # "none"
        /\ main' = [main EXCEPT ![<<j, FALSE>>] = @ + 1]
        /\ enq' = [enq EXCEPT ![j] = "enqueued"]
    BY <1>2, <1>t DEF Enqueue, DuplicatePublish, TypeOK, tables, locals
  <2>2. \A i \in Jobs : i # j => /\ main'[<<i, FALSE>>] = main[<<i, FALSE>>]
                                 /\ main'[<<i, TRUE>>] = main[<<i, TRUE>>]
    <3>1. ASSUME NEW i \in Jobs, i # j
          PROVE  /\ <<i, FALSE>> \in Bodies \X BOOLEAN /\ <<i, FALSE>> # <<j, FALSE>>
                 /\ <<i, TRUE>> \in Bodies \X BOOLEAN /\ <<i, TRUE>> # <<j, FALSE>>
      BY <3>1 DEF Bodies
    <3>2. QED
      BY <1>t, <2>1, <3>1 DEF TypeOK
  <2>3. \A w \in Workers : GoroutineOK(w)'
    BY <1>t, <2>1 DEF Basics, GoroutineOK, TypeOK
  <2>4. ASSUME NEW i \in Jobs
        PROVE  JobOK(i)'
    <3>1. enq'[j] = "enqueued" /\ (i # j => enq'[i] = enq[i])
      BY <1>t, <2>1 DEF TypeOK
    <3>2. QED
      BY <2>1, <2>2, <3>1 DEF Basics, JobOK
  <2>5. QED
    BY <2>3, <2>4 DEF Basics
<1>3. QED
  BY <1>1, <1>2 DEF Api

LEMMA BasicsInit == Init => Basics
<1> SUFFICES ASSUME Init PROVE Basics
  OBVIOUS
<1>1. \A j \in Jobs : <<j, FALSE>> \in Bodies \X BOOLEAN /\ <<j, TRUE>> \in Bodies \X BOOLEAN
  BY DEF Bodies
<1>2. \A w \in Workers : GoroutineOK(w)
  BY TablesAssumption DEF Init, EmptyQueue, GoroutineOK, Converting, Idle
<1>3. ASSUME NEW j \in Jobs
      PROVE  JobOK(j)
  <2>1. main[<<j, FALSE>>] = 0 /\ main[<<j, TRUE>>] = 0
    BY <1>1 DEF Init, EmptyQueue
  <2>2. retry[j] = 0 /\ dead[j] = 0 /\ jobStatus[j] = "none" /\ enq[j] = "none"
    BY DEF Init, EmptyQueue, Bodies
  <2>3. QED
    BY <2>1, <2>2 DEF JobOK
<1>4. QED
  BY <1>2, <1>3, TypeInit DEF Basics

LEMMA BasicsStep == Basics /\ [Next]_vars => Basics'
<1> SUFFICES ASSUME Basics, [Next]_vars
             PROVE  Basics'
  OBVIOUS
<1>1. TypeOK'
  BY TypeStep DEF Basics
<1>2. CASE UNCHANGED vars
  BY <1>1, <1>2 DEF Basics, GoroutineOK, JobOK, vars, tables, queues, locals
<1>3. CASE Next
  BY <1>1, <1>3, BasicsApi, BasicsBroker, BasicsProcess, BasicsGoroutine DEF Next
<1>4. QED
  BY <1>2, <1>3

(* A message is dead-lettered only when its job has used up its attempts,  *)
(* whatever crashes, drops, duplicates or fails (handleFailure).           *)
THEOREM DeadLetters == Spec => []DeadLettersAreExhausted
<1>1. Basics => DeadLettersAreExhausted
  BY DEF Basics, JobOK, DeadLettersAreExhausted
<1>2. QED
  BY <1>1, BasicsInit, BasicsStep, PTL DEF Spec

-----------------------------------------------------------------------------
(* Exclusive conversion.  With one attempt per job and no redelivery, any  *)
(* number of duplicate publishes and database faults leaves each job to a  *)
(* single goroutine: while it converts, the row says so and no fresh       *)
(* message can claim it, and no Requeue can reset it behind its back.      *)
NoRedelivery == \A k \in {"crash", "drop", "stop"} : Budget[k] = 0

Single ==
  /\ Basics
  /\ \A p \in Procs : mode[p] = "consuming"
  /\ \A b \in Bodies : main[<<b, TRUE>>] = 0
  /\ \A w \in Workers : /\ redelivered[w] = FALSE
                        /\ pc[w] # "requeue"
                        /\ pc[w] \in Converting => jobStatus[job[w]] = "converting"
  /\ SoleConversion

LEMMA SingleInit == Init => Single
<1> SUFFICES ASSUME Init PROVE Single
  OBVIOUS
<1>1. \A b \in Bodies : main[<<b, TRUE>>] = 0
  BY DEF Init, EmptyQueue
<1>2. QED
  BY <1>1, BasicsInit DEF Init, EmptyQueue, Single, SoleConversion, Handles, Converting, Idle

(* A fault with no budget does not happen.                                 *)
LEMMA NoBudget ==
  ASSUME TypeOK, NEW k \in Faults, Budget[k] = 0
  PROVE  ~Spend(k)
BY DEF TypeOK, Spend, MayFail

(* Seen from the table, a step of the system is a step of JobLifecycle.    *)
TableStep == [Lifecycle!Next]_(Lifecycle!vars)

(* A status write of a converting goroutine.                               *)
LEMMA SingleWrite ==
  ASSUME Single, Basics', MaxAttempts = 1, NEW w \in Workers,
         NEW from \in Converting, NEW newJobs, NEW newFiles, NEW next,
         \/ newJobs = jobStatus /\ next \in Converting
         \/ newJobs = JobIs(w, "converting") /\ next \in Converting
         \/ newJobs \in {JobIs(w, "converted"), JobIs(w, "failed")}
              /\ next \in {"ack", "publishDead"},
         Write(w, from, newJobs, newFiles, next, "publishDead")
  PROVE  Single' /\ TableStep
<1>t. /\ TypeOK /\ job[w] \in Jobs /\ pc[w] = from
      /\ jobStatus[job[w]] = "converting"
  BY DEF Write, Single, Basics, GoroutineOK
<1>1. /\ UNCHANGED <<attempts, main, job, redelivered, mode>>
      /\ \A v \in Workers : v # w => pc'[v] = pc[v]
      /\ \/ pc'[w] = next /\ jobStatus' = newJobs
         \/ pc'[w] = "publishDead" /\ jobStatus' \in {jobStatus, newJobs}
  BY <1>t DEF Write, Goto, queues, TypeOK
<1>2. /\ \A v \in Workers : v # w => pc'[v] = pc[v]
      /\ pc'[w] \in {next, "publishDead"}
      /\ \A j \in Jobs : j # job[w] => jobStatus'[j] = jobStatus[j]
      /\ pc'[w] \in Converting => jobStatus'[job[w]] = "converting"
      /\ pc'[w] # "requeue"
  BY <1>t, <1>1 DEF TypeOK, JobIs, Converting
<1>3. ASSUME NEW v \in Workers, v # w, pc[v] \in Converting
      PROVE  job[v] \in Jobs /\ job[v] # job[w]
  BY <1>t, <1>3 DEF Single, SoleConversion, Handles, Basics, GoroutineOK
<1>4. SoleConversion'
  BY <1>1, <1>2, <1>t DEF Single, SoleConversion, Handles
<1>5. \A v \in Workers : pc'[v] \in Converting => jobStatus'[job'[v]] = "converting"
  BY <1>1, <1>2, <1>3 DEF Single
<1>6. Single'
  BY <1>1, <1>2, <1>4, <1>5 DEF Single
<1>7. TableStep
  <2>1. CASE jobStatus' = jobStatus
    BY <1>1, <2>1 DEF TableStep, Lifecycle!vars
  <2>2. CASE jobStatus' = JobIs(w, "converting")
    <3>1. jobStatus' = jobStatus
      BY <1>t, <2>2 DEF JobIs, TypeOK
    <3>2. QED
      BY <1>1, <3>1 DEF TableStep, Lifecycle!vars
  <2>3. CASE jobStatus' = JobIs(w, "converted")
    BY <1>1, <1>t, <2>3 DEF JobIs, TableStep, Lifecycle!Next, Lifecycle!Finish, Lifecycle!Move
  <2>4. CASE jobStatus' = JobIs(w, "failed")
    BY <1>1, <1>t, <2>4 DEF JobIs, TableStep, Lifecycle!Next, Lifecycle!Fail, Lifecycle!Move
  <2>5. QED
    BY <1>1, <2>1, <2>2, <2>3, <2>4
<1>8. QED
  BY <1>6, <1>7

(* A step that leaves the tables alone and starts no conversion.           *)
LEMMA SingleQuiet ==
  ASSUME Single, Basics', UNCHANGED <<jobStatus, attempts, mode>>,
         \A b \in Bodies : main'[<<b, TRUE>>] = 0,
         \A w \in Workers :
           /\ redelivered'[w] = FALSE
           /\ \/ pc'[w] = pc[w] /\ job'[w] = job[w]
              \/ pc'[w] \notin Converting \cup {"requeue"}
              \/ pc'[w] \in Converting /\ pc[w] \in Converting /\ job'[w] = job[w]
  PROVE  Single' /\ TableStep
<1>1. SoleConversion'
  BY DEF Single, SoleConversion, Handles
<1>2. \A w \in Workers : /\ pc'[w] # "requeue"
                         /\ pc'[w] \in Converting => jobStatus'[job'[w]] = "converting"
  BY DEF Single, Converting
<1>3. Single'
  BY <1>1, <1>2 DEF Single
<1>4. TableStep
  BY DEF TableStep, Lifecycle!vars
<1>5. QED
  BY <1>3, <1>4

LEMMA SingleGoroutine ==
  ASSUME Single, Basics', MaxAttempts = 1, NEW w \in Workers, Goroutine(w)
  PROVE  Single' /\ TableStep
<1>t. TypeOK
  BY DEF Single, Basics
<1>a. pc[w] \in Converting => AfterFailure(w) = "publishDead"
  BY <1>t DEF Single, Basics, GoroutineOK, AfterFailure, TypeOK
<1>1. CASE Undecodable(w) \/ Produce(w) \/ PublishRetry(w) \/ PublishDead(w) \/ Ack(w)
  <2>1. /\ UNCHANGED <<jobStatus, attempts, mode, main>>
        /\ \A v \in Workers :
             /\ redelivered'[v] = FALSE
             /\ \/ pc'[v] = pc[v] /\ job'[v] = job[v]
                \/ pc'[v] \notin Converting \cup {"requeue"}
                \/ pc'[v] \in Converting /\ pc[v] \in Converting /\ job'[v] = job[v]
    BY <1>1, <1>t DEF Undecodable, Produce, PublishRetry, PublishDead, Ack, Forget, Goto, Idle,
                      Converting, Single, TypeOK, tables, queues
  <2>2. QED
    BY <2>1, SingleQuiet DEF Single
<1>2. CASE Claim(w)
  <2>1. /\ job[w] \in Jobs /\ pc[w] = "delivered" /\ redelivered[w] = FALSE
        /\ UNCHANGED <<job, redelivered, main, mode>>
    BY <1>2 DEF Claim, Single, queues
  <2>2. \A v \in Workers : v # w => pc'[v] = pc[v]
    BY <1>2, <1>t DEF Claim, Goto, TypeOK
  <2>3. CASE Claimable(job[w], redelivered[w])
    <3>1. jobStatus[job[w]] \notin {"converted", "converting"}
      BY <2>1, <2>3 DEF Claimable
    <3>2. jobStatus[job[w]] \in {"queued", "failed"}
      <4>1. enq[job[w]] = "enqueued"
        BY <2>1 DEF Single, Basics, GoroutineOK
      <4>2. jobStatus[job[w]] # "none"
        BY <2>1, <4>1 DEF Single, Basics, JobOK
      <4>3. QED
        BY <1>t, <2>1, <3>1, <4>2 DEF TypeOK, JobStatus
    <3>3. \/ /\ jobStatus' = [jobStatus EXCEPT ![job[w]] = "converting"]
             /\ attempts' = [attempts EXCEPT ![job[w]] = @ + 1]
             /\ pc'[w] \in {"markFile", "publishRetry"}
          \/ /\ jobStatus' = jobStatus /\ attempts' = attempts
             /\ pc'[w] = "publishRetry"
      BY <1>2, <1>t, <2>3 DEF Claim, Goto, TypeOK, Answers
    <3>4. \A v \in Workers : pc[v] \in Converting => job[v] # job[w]
      BY <3>1 DEF Single
    <3>5. SoleConversion'
      BY <2>1, <2>2, <3>4 DEF Single, SoleConversion, Handles
    <3>6. /\ \A j \in Jobs : j # job[w] => jobStatus'[j] = jobStatus[j]
          /\ pc'[w] = "markFile" => jobStatus'[job[w]] = "converting"
          /\ pc'[w] # "requeue"
      BY <1>t, <2>1, <3>3 DEF TypeOK
    <3>7. ASSUME NEW v \in Workers, pc'[v] \in Converting
          PROVE  jobStatus'[job'[v]] = "converting"
      <4>1. CASE v = w
        BY <2>1, <3>3, <3>6, <3>7, <4>1 DEF Converting
      <4>2. CASE v # w
        BY <2>1, <2>2, <3>4, <3>6, <3>7, <4>2 DEF Single, Basics, GoroutineOK
      <4>3. QED
        BY <4>1, <4>2
    <3>8. Single'
      BY <2>1, <2>2, <3>5, <3>6, <3>7 DEF Single
    <3>9. TableStep
      BY <2>1, <3>2, <3>3 DEF TableStep, Lifecycle!Next, Lifecycle!Take, Lifecycle!Move, Lifecycle!vars
    <3>10. QED
      BY <3>8, <3>9
  <2>4. CASE ~Claimable(job[w], redelivered[w])
    <3>1. UNCHANGED <<jobStatus, attempts>> /\ pc'[w] \in {"publishRetry", "ack"}
      BY <1>2, <1>t, <2>4 DEF Claim, Goto, TypeOK
    <3>2. QED
      BY <2>1, <2>2, <3>1, SingleQuiet DEF Single, Converting
  <2>5. QED
    BY <2>3, <2>4
<1>3. CASE MarkFileConverting(w)
  BY <1>3, <1>a, SingleWrite DEF MarkFileConverting, Write, Converting
<1>4. CASE MarkJobConverting(w)
  BY <1>4, <1>a, SingleWrite DEF MarkJobConverting, Write, Converting
<1>5. CASE MarkFileConverted(w)
  BY <1>5, <1>a, SingleWrite DEF MarkFileConverted, Write, Converting
<1>6. CASE MarkJobConverted(w)
  BY <1>6, <1>a, SingleWrite DEF MarkJobConverted, Write, Converting
<1>7. CASE MarkFileFailed(w)
  BY <1>7, <1>a, SingleWrite DEF MarkFileFailed, Write, Converting
<1>8. CASE MarkJobFailed(w)
  BY <1>8, <1>a, SingleWrite DEF MarkJobFailed, Write, Converting
<1>9. CASE Requeue(w)
  BY <1>9 DEF Requeue, Write, Single
<1>10. QED
  BY <1>1, <1>2, <1>3, <1>4, <1>5, <1>6, <1>7, <1>8, <1>9 DEF Goroutine

LEMMA SingleProcess ==
  ASSUME Single, Basics', NoRedelivery, NEW p \in Procs, Process(p)
  PROVE  FALSE
<1>1. ~LinkDrop(p) /\ ~Stop(p) /\ ~Crash(p)
  BY NoBudget DEF Single, Basics, NoRedelivery, LinkDrop, Stop, Crash, Faults
<1>2. mode[p] = "consuming"
  BY DEF Single
<1>3. QED
  BY <1>1, <1>2 DEF Process, Resubscribe, Close, Exit, Start

LEMMA SingleBroker ==
  ASSUME Single, Basics',
         \/ MalformedPublish
         \/ \E b \in Bodies : RetryExpires(b)
         \/ \E w \in Workers, b \in Bodies, r \in BOOLEAN : Deliver(w, b, r)
  PROVE  Single' /\ TableStep
<1>t. TypeOK
  BY DEF Single, Basics
<1>p. ASSUME NEW b \in Bodies, NEW n, main' = [main EXCEPT ![<<b, FALSE>>] = n]
      PROVE  \A c \in Bodies : main'[<<c, TRUE>>] = 0
  <2>1. \A c \in Bodies : <<c, TRUE>> \in Bodies \X BOOLEAN /\ <<c, TRUE>> # <<b, FALSE>>
    OBVIOUS
  <2>2. QED
    BY <1>p, <1>t, <2>1 DEF TypeOK, Single
<1>1. CASE MalformedPublish
  <2>1. NoJob \in Bodies
    BY DEF Bodies
  <2>2. QED
    BY <1>1, <1>p, <2>1, SingleQuiet DEF MalformedPublish, Single, tables, locals
<1>2. ASSUME NEW b \in Bodies, RetryExpires(b)
      PROVE  Single' /\ TableStep
  BY <1>2, <1>p, SingleQuiet DEF RetryExpires, Single, tables, locals
<1>3. ASSUME NEW w \in Workers, NEW b \in Bodies, NEW r \in BOOLEAN, Deliver(w, b, r)
      PROVE  Single' /\ TableStep
  <2>1. r = FALSE
    <3>1. CASE r
      <4>1. <<b, r>> = <<b, TRUE>>
        BY <3>1
      <4>2. main[<<b, TRUE>>] > 0
        BY <1>3, <4>1 DEF Deliver
      <4>3. main[<<b, TRUE>>] = 0
        BY DEF Single
      <4>4. QED
        BY <4>2, <4>3
    <3>2. QED
      BY <3>1
  <2>2. \A c \in Bodies : main'[<<c, TRUE>>] = 0
    <3>1. main' = [main EXCEPT ![<<b, FALSE>>] = @ - 1]
      BY <1>3, <2>1 DEF Deliver
    <3>2. QED
      BY <1>p, <3>1
  <2>3. \A v \in Workers :
          /\ redelivered'[v] = FALSE
          /\ \/ pc'[v] = pc[v] /\ job'[v] = job[v]
             \/ pc'[v] \notin Converting \cup {"requeue"}
    BY <1>3, <1>t, <2>1 DEF Deliver, TypeOK, Single, Converting
  <2>4. QED
    BY <1>3, <2>2, <2>3, SingleQuiet DEF Deliver, tables
<1>4. QED
  BY <1>1, <1>2, <1>3

LEMMA SingleApi ==
  ASSUME Single, Basics', NEW j \in Jobs, Api(j)
  PROVE  Single' /\ TableStep
<1>t. TypeOK
  BY DEF Single, Basics
<1>1. \A w \in Workers : pc[w] \in Converting /\ job[w] = j => enq[j] = "enqueued"
  BY DEF Single, Basics, GoroutineOK
<1>2. CASE CreateJob(j)
  <2>1. jobStatus[j] = "none"
    BY <1>2 DEF CreateJob, Single, Basics, JobOK
  <2>2. \A w \in Workers : pc[w] \in Converting => jobStatus'[job[w]] = "converting"
    BY <1>1, <1>2, <1>t DEF CreateJob, TypeOK, Single, Basics, GoroutineOK
  <2>3. Single'
    BY <1>2, <2>2 DEF CreateJob, Single, SoleConversion, Handles, queues, locals
  <2>4. TableStep
    BY <1>2, <2>1 DEF CreateJob, TableStep, Lifecycle!Next, Lifecycle!Create, Lifecycle!Move
  <2>5. QED
    BY <2>3, <2>4
<1>3. CASE MarkEnqueueFailed(j)
  <2>1. /\ UNCHANGED <<attempts, main, pc, job, redelivered, mode>>
        /\ \/ jobStatus' = jobStatus
           \/ enq[j] = "markJob" /\ jobStatus' = [jobStatus EXCEPT ![j] = "failed"]
    BY <1>3 DEF MarkEnqueueFailed, queues, locals
  <2>2. CASE jobStatus' = jobStatus
    BY <2>1, <2>2, SingleQuiet DEF Single
  <2>3. CASE enq[j] = "markJob" /\ jobStatus' = [jobStatus EXCEPT ![j] = "failed"]
    <3>1. jobStatus[j] = "queued"
      BY <2>3 DEF Single, Basics, JobOK
    <3>2. \A w \in Workers : pc[w] \in Converting => jobStatus'[job[w]] = "converting"
      BY <1>1, <1>t, <2>3 DEF TypeOK, Single, Basics, GoroutineOK
    <3>3. Single'
      BY <2>1, <3>2 DEF Single, SoleConversion, Handles
    <3>4. TableStep
      BY <2>1, <2>3, <3>1 DEF TableStep, Lifecycle!Next, Lifecycle!Refuse, Lifecycle!Move
    <3>5. QED
      BY <3>3, <3>4
  <2>4. QED
    BY <2>1, <2>2, <2>3
<1>4. CASE Enqueue(j) \/ DuplicatePublish(j)
  <2>1. /\ UNCHANGED <<jobStatus, attempts, pc, job, redelivered, mode>>
        /\ main' = [main EXCEPT ![<<j, FALSE>>] = @ + 1]
    BY <1>4 DEF Enqueue, DuplicatePublish, tables, locals
  <2>2. \A c \in Bodies : <<c, TRUE>> \in Bodies \X BOOLEAN /\ <<c, TRUE>> # <<j, FALSE>>
    OBVIOUS
  <2>3. \A c \in Bodies : main'[<<c, TRUE>>] = 0
    BY <1>t, <2>1, <2>2 DEF TypeOK, Single
  <2>4. QED
    BY <2>1, <2>3, SingleQuiet DEF Single
<1>5. CASE EnqueueLost(j) \/ EnqueueRefused(j) \/ ApiCrash(j)
  <2>1. UNCHANGED <<jobStatus, attempts, main, pc, job, redelivered, mode>>
    BY <1>5 DEF EnqueueLost, EnqueueRefused, ApiCrash, tables, queues, locals
  <2>2. QED
    BY <2>1, SingleQuiet DEF Single
<1>6. QED
  BY <1>2, <1>3, <1>4, <1>5 DEF Api

LEMMA SingleStep ==
  ASSUME MaxAttempts = 1, NoRedelivery
  PROVE  Single /\ [Next]_vars => Single' /\ TableStep
<1> SUFFICES ASSUME Single, [Next]_vars
             PROVE  Single' /\ TableStep
  OBVIOUS
<1>1. Basics'
  BY BasicsStep DEF Single
<1>2. CASE UNCHANGED vars
  BY <1>1, <1>2, SingleQuiet DEF Single, vars, tables, queues, locals
<1>3. CASE Next
  BY <1>1, <1>3, SingleApi, SingleBroker, SingleProcess, SingleGoroutine DEF Next
<1>4. QED
  BY <1>2, <1>3

(* No two goroutines ever convert the same job: Claim alone keeps the      *)
(* duplicates apart when a job has one attempt and nothing is redelivered. *)
THEOREM ExclusiveConversion ==
  ASSUME MaxAttempts = 1, NoRedelivery
  PROVE  Spec => []SoleConversion
<1>1. Single => SoleConversion
  BY DEF Single
<1>2. Single /\ [Next]_vars => Single'
  BY SingleStep
<1>3. QED
  BY <1>1, <1>2, SingleInit, PTL DEF Spec

(* Under the same assumptions the rows of conversion_jobs behave as        *)
(* JobLifecycle says, whatever copies of the messages are about.           *)
THEOREM LifecycleImplemented ==
  ASSUME MaxAttempts = 1, NoRedelivery
  PROVE  Spec => ImplementsLifecycle
<1>1. Init => Lifecycle!Init
  BY DEF Init, EmptyQueue, Lifecycle!Init
<1>2. Single /\ [Next]_vars => Single' /\ [Lifecycle!Next]_(Lifecycle!vars)
  BY SingleStep DEF TableStep
<1>3. QED
  BY <1>1, <1>2, SingleInit, PTL DEF Spec, ImplementsLifecycle, Lifecycle!Spec

(* And so a converted job stays converted.                                 *)
THEOREM ConvertedStays ==
  ASSUME MaxAttempts = 1, NoRedelivery
  PROVE  Spec => ConvertedIsFinal
<1>1. Single /\ [Next]_vars =>
        Single' /\ [\A j \in Jobs : jobStatus[j] = "converted" => jobStatus'[j] = "converted"]_vars
  <2> SUFFICES ASSUME Single, [Next]_vars
               PROVE  Single' /\ \A j \in Jobs : jobStatus[j] = "converted" => jobStatus'[j] = "converted"
    OBVIOUS
  <2>1. Single' /\ TableStep
    BY SingleStep
  <2>2. jobStatus \in [Jobs -> JobStatus \cup {"none"}]
    BY DEF Single, Basics, TypeOK
  <2>3. QED
    BY <2>1, <2>2 DEF TableStep, Lifecycle!Next, Lifecycle!vars, Lifecycle!Move, Lifecycle!Create,
         Lifecycle!Refuse, Lifecycle!Take, Lifecycle!Finish, Lifecycle!Fail, Lifecycle!Requeue
<1>2. QED
  BY <1>1, SingleInit, PTL DEF Spec, ConvertedIsFinal

-----------------------------------------------------------------------------
(* No job is abandoned.  With the broker link, the database and the API's  *)
(* publish reliable, workers may crash anywhere, any number of times, and  *)
(* messages may be duplicated: a job whose message was published always    *)
(* has something that will move it on.  The invariant says what, by the    *)
(* status of its row.                                                      *)
OnlyCrashes == \A k \in {"drop", "stop", "db", "answer", "lost"} : Budget[k] = 0

(* A redelivered copy, which claims the job whatever its status.           *)
Returned(j) ==
  \/ main[<<j, TRUE>>] > 0
  \/ \E w \in Workers : redelivered[w] /\ Handles(w, j, {"delivered"})

(* A goroutine that will write the status itself.                          *)
Converts(j) == \E w \in Workers : Handles(w, j, Converting)

(* A copy that claims the job unless another goroutine converts it, or a   *)
(* goroutine that is about to publish one.                                 *)
Waits(j) ==
  \/ main[<<j, FALSE>>] > 0
  \/ retry[j] > 0
  \/ \E w \in Workers : Handles(w, j, {"delivered", "requeue", "publishRetry"})

GivesUp(j) ==
  \/ dead[j] > 0
  \/ \E w \in Workers : Handles(w, j, {"publishDead"})

Kept(j) ==
  \/ jobStatus[j] = "converted"
  \/ Returned(j)
  \/ Converts(j)
  \/ jobStatus[j] # "converting" /\ Waits(j)
  \/ jobStatus[j] = "failed" /\ GivesUp(j)

Safe ==
  /\ Basics
  /\ \A p \in Procs : mode[p] \in {"consuming", "down"}
  /\ \A w \in Workers : pc[w] # Idle => unacked[w] /\ mode[ProcOf[w]] = "consuming"
  /\ \A j \in Jobs : enq[j] = "enqueued" => Kept(j)

LEMMA SafeInit == Init => Safe
BY BasicsInit, WorkersAssumption DEF Init, EmptyQueue, Safe, Idle

(* The invariant says what the property says.                              *)
LEMMA SafeAbandonsNone == Safe => NoJobAbandoned
<1> SUFFICES ASSUME Safe, NEW j \in Jobs, enq[j] = "enqueued"
             PROVE  Settled(j) \/ InProgress(j) \/ WillBeClaimed(j)
  BY DEF NoJobAbandoned
<1>1. Kept(j)
  BY DEF Safe
<1>2. ASSUME NEW w \in Workers,
             Handles(w, j, Converting \cup {"requeue", "publishRetry", "publishDead"})
      PROVE  InProgress(j)
  BY <1>2 DEF Safe, InProgress, Handles, Converting, Settling, Idle
<1>3. CASE jobStatus[j] = "converted"
  BY <1>3 DEF Settled
<1>4. CASE jobStatus[j] # "converted" /\ Returned(j)
  <2>1. Claimable(j, TRUE)
    BY <1>4 DEF Claimable
  <2>2. redelivered \in [Workers -> BOOLEAN]
    BY DEF Safe, Basics, TypeOK
  <2>3. main[<<j, TRUE>>] > 0 \/ \E w \in Workers : redelivered[w] = TRUE /\ Handles(w, j, {"delivered"})
    BY <1>4, <2>2 DEF Returned
  <2>4. WillBeClaimed(j)
    BY <2>1, <2>3 DEF WillBeClaimed
  <2>5. QED
    BY <2>4
<1>5. CASE Converts(j)
  BY <1>2, <1>5 DEF Converts, Handles
<1>6. CASE jobStatus[j] \notin {"converted", "converting"} /\ Waits(j)
  <2>1. \A r \in BOOLEAN : Claimable(j, r)
    BY <1>6 DEF Claimable
  <2>2. CASE main[<<j, FALSE>>] > 0 \/ retry[j] > 0
    BY <2>1, <2>2 DEF WillBeClaimed
  <2>3. ASSUME NEW w \in Workers, Handles(w, j, {"delivered"})
        PROVE  WillBeClaimed(j)
    <3>1. redelivered[w] \in BOOLEAN
      BY DEF Safe, Basics, TypeOK
    <3>2. QED
      BY <2>1, <2>3, <3>1 DEF WillBeClaimed
  <2>4. QED
    BY <1>2, <1>6, <2>2, <2>3 DEF Waits, Handles
<1>7. CASE jobStatus[j] = "failed" /\ GivesUp(j)
  BY <1>2, <1>7 DEF GivesUp, GivenUp, Settled, Handles
<1>8. QED
  BY <1>1, <1>3, <1>4, <1>5, <1>6, <1>7 DEF Kept

(* With no link, database or publish faults every database call answers    *)
(* and every publish is sent.                                              *)
LEMMA Reliable ==
  ASSUME Safe, OnlyCrashes, NEW w \in Workers, pc[w] # Idle
  PROVE  /\ \A answer \in Answers(w) : answer = "ok"
         /\ Sent(w) = {1}
<1>1. mode[ProcOf[w]] = "consuming"
  BY DEF Safe
<1>2. ~MayFail("db") /\ ~MayFail("answer")
  BY DEF Safe, Basics, TypeOK, OnlyCrashes, MayFail, Faults
<1>3. QED
  BY <1>1, <1>2 DEF Answers, Sent, Cancelled, FaultOf

(* A step that keeps the row of j, its messages, and every goroutine that  *)
(* handles it, keeps j.                                                    *)
LEMMA KeptElsewhere ==
  ASSUME NEW j \in Jobs, Kept(j), jobStatus'[j] = jobStatus[j],
         main[<<j, TRUE>>] > 0 => main'[<<j, TRUE>>] > 0,
         main[<<j, FALSE>>] > 0 => main'[<<j, FALSE>>] > 0,
         retry[j] > 0 => retry'[j] > 0,
         dead[j] > 0 => dead'[j] > 0,
         \A v \in Workers : job[v] = j =>
           pc'[v] = pc[v] /\ job'[v] = j /\ redelivered'[v] = redelivered[v]
  PROVE  Kept(j)'
<1>1. Returned(j) => Returned(j)'
  BY DEF Returned, Handles
<1>2. Converts(j) => Converts(j)'
  BY DEF Converts, Handles
<1>3. Waits(j) => Waits(j)'
  BY DEF Waits, Handles
<1>4. GivesUp(j) => GivesUp(j)'
  BY DEF GivesUp, Handles
<1>5. QED
  BY <1>1, <1>2, <1>3, <1>4 DEF Kept

(* A status write of w: j is the job it handles.                           *)
LEMMA SafeWrite ==
  ASSUME Safe, OnlyCrashes, Basics', NEW w \in Workers,
         NEW from \in Converting \cup {"requeue"},
         NEW newJobs, NEW newFiles, NEW next, NEW onError,
         \A j \in Jobs : j # job[w] => newJobs[j] = jobStatus[j],
         \/ next \in Converting
         \/ newJobs[job[w]] = "converted" /\ next = "ack"
         \/ newJobs[job[w]] = "failed" /\ next \in {"requeue", "publishDead"}
         \/ newJobs[job[w]] = "queued" /\ next = "publishRetry",
         Write(w, from, newJobs, newFiles, next, onError)
  PROVE  Safe'
<1>t. TypeOK /\ pc[w] = from /\ job[w] \in Jobs
  BY DEF Write, Safe, Basics, GoroutineOK
<1>1. from # Idle
  BY DEF Converting, Idle
<1>2. /\ jobStatus' = newJobs
      /\ pc' = [pc EXCEPT ![w] = next]
      /\ UNCHANGED <<main, retry, dead, job, redelivered, unacked, mode, enq>>
  BY <1>t, <1>1, Reliable DEF Write, Goto, queues
<1>3. \A v \in Workers : v # w => pc'[v] = pc[v]
  BY <1>2
<1>4. pc'[w] = next
  BY <1>2, <1>t DEF TypeOK
<1>5. ASSUME NEW j \in Jobs, enq'[j] = "enqueued"
      PROVE  Kept(j)'
  <2>1. CASE j # job[w]
    <3>1. Kept(j) /\ jobStatus'[j] = jobStatus[j]
      BY <1>2, <1>5, <2>1 DEF Safe
    <3>2. \A v \in Workers : job[v] = j =>
            pc'[v] = pc[v] /\ job'[v] = j /\ redelivered'[v] = redelivered[v]
      BY <1>2, <1>3, <2>1
    <3>3. QED
      BY <1>2, <3>1, <3>2, KeptElsewhere
  <2>2. CASE j = job[w]
    <3>1. CASE next \in Converting
      BY <1>2, <1>4, <2>2, <3>1 DEF Kept, Converts, Handles
    <3>2. CASE newJobs[job[w]] = "converted"
      BY <1>2, <2>2, <3>2 DEF Kept
    <3>3. CASE newJobs[job[w]] = "failed" /\ next \in {"requeue", "publishDead"}
      BY <1>2, <1>4, <2>2, <3>3 DEF Kept, Waits, GivesUp, Handles
    <3>4. CASE newJobs[job[w]] = "queued" /\ next = "publishRetry"
      BY <1>2, <1>4, <2>2, <3>4 DEF Kept, Waits, Handles
    <3>5. QED
      BY <3>1, <3>2, <3>3, <3>4
  <2>3. QED
    BY <2>1, <2>2
<1>6. \A v \in Workers : pc'[v] # Idle => unacked'[v] /\ mode'[ProcOf[v]] = "consuming"
  BY <1>t, <1>1, <1>2, <1>3 DEF Safe
<1>7. QED
  BY <1>2, <1>5, <1>6 DEF Safe

LEMMA SafeGoroutine ==
  ASSUME Safe, OnlyCrashes, Basics', NEW w \in Workers, Goroutine(w)
  PROVE  Safe'
<1>t. TypeOK
  BY DEF Safe, Basics
<1>w. \A s : \A j \in Jobs : j # job[w] => JobIs(w, s)[j] = jobStatus[j]
  BY <1>t DEF JobIs, TypeOK
<1>r. \A s : job[w] \in Jobs => JobIs(w, s)[job[w]] = s
  BY <1>t DEF JobIs, TypeOK
<1>c. pc[w] \in Converting \cup {"requeue"} => job[w] \in Jobs
  BY DEF Safe, Basics, GoroutineOK
<1>a. AfterFailure(w) \in {"requeue", "publishDead"}
  BY DEF AfterFailure
<1>1. CASE Undecodable(w)
  <2>1. /\ UNCHANGED <<jobStatus, main, retry, dead, job, redelivered, unacked, mode, enq>>
        /\ pc[w] = "delivered" /\ job[w] \notin Jobs
        /\ \A v \in Workers : v # w => pc'[v] = pc[v]
    BY <1>1, <1>t, TablesAssumption DEF Undecodable, Goto, TypeOK, tables, queues
  <2>2. ASSUME NEW j \in Jobs, enq'[j] = "enqueued"
        PROVE  Kept(j)'
    <3>1. Kept(j) /\ \A v \in Workers : job[v] = j => v # w
      BY <2>1, <2>2 DEF Safe
    <3>2. QED
      BY <2>1, <3>1, KeptElsewhere
  <2>3. QED
    BY <2>1, <2>2 DEF Safe, Idle
<1>2. CASE Claim(w)
  <2>1. /\ job[w] \in Jobs /\ pc[w] = "delivered"
        /\ UNCHANGED <<job, redelivered, unacked, main, retry, dead, mode, enq>>
        /\ \A v \in Workers : v # w => pc'[v] = pc[v]
        /\ \A j \in Jobs : j # job[w] => jobStatus'[j] = jobStatus[j]
    BY <1>2, <1>t DEF Claim, Goto, TypeOK, queues
  <2>2. \/ /\ Claimable(job[w], redelivered[w])
           /\ pc'[w] = "markFile"
        \/ /\ ~Claimable(job[w], redelivered[w])
           /\ jobStatus' = jobStatus
    <3>1. \A answer \in Answers(w) : answer = "ok"
      BY <2>1, Reliable DEF Idle
    <3>2. QED
      BY <1>2, <1>t, <3>1 DEF Claim, Goto, TypeOK
  <2>3. ASSUME NEW j \in Jobs, enq'[j] = "enqueued"
        PROVE  Kept(j)'
    <3>k. Kept(j)
      BY <2>1, <2>3 DEF Safe
    <3>1. CASE j # job[w]
      BY <2>1, <3>1, <3>k, KeptElsewhere
    <3>2. CASE j = job[w] /\ Claimable(j, redelivered[w])
      BY <2>1, <2>2, <3>2 DEF Kept, Converts, Handles, Converting
    <3>3. CASE j = job[w] /\ ~Claimable(j, redelivered[w])
      <4>1. /\ jobStatus' = jobStatus
            /\ jobStatus[j] = "converted" \/ (jobStatus[j] = "converting" /\ ~redelivered[w])
        BY <2>2, <3>3 DEF Claimable
      <4>2. CASE jobStatus[j] = "converted"
        BY <4>1, <4>2 DEF Kept
      <4>3. CASE jobStatus[j] = "converting" /\ ~redelivered[w]
        <5>1. Returned(j) \/ Converts(j)
          BY <3>k, <4>3 DEF Kept
        <5>2. Returned(j) => Returned(j)'
          BY <2>1, <4>3 DEF Returned, Handles
        <5>3. Converts(j) => Converts(j)'
          BY <2>1 DEF Converts, Handles, Converting
        <5>4. QED
          BY <5>1, <5>2, <5>3 DEF Kept
      <4>4. QED
        BY <4>1, <4>2, <4>3
    <3>4. QED
      BY <3>1, <3>2, <3>3
  <2>4. QED
    BY <2>1, <2>3 DEF Safe, Idle
<1>3. CASE MarkFileConverting(w)
  BY <1>3, SafeWrite DEF MarkFileConverting, Converting
<1>4. CASE MarkJobConverting(w)
  BY <1>4, <1>w, SafeWrite DEF MarkJobConverting, Converting
<1>5. CASE Produce(w)
  <2>1. /\ UNCHANGED <<jobStatus, main, retry, dead, job, redelivered, unacked, mode, enq>>
        /\ pc[w] \in Converting /\ pc'[w] \in Converting
        /\ \A v \in Workers : v # w => pc'[v] = pc[v]
    BY <1>5, <1>t DEF Produce, Goto, TypeOK, Converting, tables, queues
  <2>2. ASSUME NEW j \in Jobs, enq'[j] = "enqueued"
        PROVE  Kept(j)'
    <3>1. CASE j # job[w]
      BY <2>1, <2>2, <3>1, KeptElsewhere DEF Safe
    <3>2. CASE j = job[w]
      BY <2>1, <3>2 DEF Kept, Converts, Handles
    <3>3. QED
      BY <3>1, <3>2
  <2>3. QED
    BY <2>1, <2>2 DEF Safe, Idle, Converting
<1>6. CASE MarkFileConverted(w)
  BY <1>6, SafeWrite DEF MarkFileConverted, Converting
<1>7. CASE MarkJobConverted(w)
  <2>1. job[w] \in Jobs
    BY <1>7, <1>c DEF MarkJobConverted, Write, Converting
  <2>2. JobIs(w, "converted")[job[w]] = "converted"
    BY <1>r, <2>1
  <2>3. QED
    BY <1>7, <1>w, <2>2, SafeWrite DEF MarkJobConverted, Converting
<1>8. CASE MarkFileFailed(w)
  BY <1>8, SafeWrite DEF MarkFileFailed, Converting
<1>9. CASE MarkJobFailed(w)
  <2>1. job[w] \in Jobs
    BY <1>9, <1>c DEF MarkJobFailed, Write, Converting
  <2>2. JobIs(w, "failed")[job[w]] = "failed"
    BY <1>r, <2>1
  <2>3. QED
    BY <1>9, <1>w, <1>a, <2>2, SafeWrite DEF MarkJobFailed, Converting
<1>10. CASE Requeue(w)
  <2>1. job[w] \in Jobs
    BY <1>10, <1>c DEF Requeue, Write
  <2>2. JobIs(w, "queued")[job[w]] = "queued"
    BY <1>r, <2>1
  <2>3. \A j \in Jobs : j # job[w] => JobIs(w, "queued")[j] = jobStatus[j]
    BY <1>w
  <2>4. Write(w, "requeue", JobIs(w, "queued"), FileIs(w, "ready"), "publishRetry", "publishRetry")
    BY <1>10 DEF Requeue
  <2>5. "requeue" \in Converting \cup {"requeue"}
    OBVIOUS
  <2>6. QED
    BY <2>2, <2>3, <2>4, <2>5, SafeWrite
<1>11. CASE PublishRetry(w) \/ PublishDead(w)
  <2>1. /\ pc[w] \in {"publishRetry", "publishDead"} /\ pc'[w] = "ack"
        /\ UNCHANGED <<jobStatus, main, job, redelivered, unacked, mode, enq>>
        /\ \A v \in Workers : v # w => pc'[v] = pc[v]
    BY <1>11, <1>t DEF PublishRetry, PublishDead, Goto, TypeOK, tables
  <2>2. /\ \A j \in Jobs : retry'[j] >= retry[j] /\ dead'[j] >= dead[j]
        /\ \A j \in Jobs : retry[j] \in Nat /\ dead[j] \in Nat /\ retry'[j] \in Nat /\ dead'[j] \in Nat
        /\ pc[w] = "publishRetry" => retry'[job[w]] > 0
        /\ pc[w] = "publishDead" => dead'[job[w]] > 0
    <3>1. Sent(w) = {1}
      BY <2>1, Reliable DEF Idle
    <3>2. \/ retry' = [retry EXCEPT ![job[w]] = @ + 1] /\ dead' = dead /\ pc[w] = "publishRetry"
          \/ dead' = [dead EXCEPT ![job[w]] = @ + 1] /\ retry' = retry /\ pc[w] = "publishDead"
      BY <1>11, <3>1 DEF PublishRetry, PublishDead
    <3>3. job[w] \in Bodies /\ retry \in [Bodies -> Nat] /\ dead \in [Bodies -> Nat] /\ Jobs \subseteq Bodies
      BY <1>t DEF TypeOK, Bodies
    <3>4. QED
      BY <3>2, <3>3
  <2>3. ASSUME NEW j \in Jobs, enq'[j] = "enqueued"
        PROVE  Kept(j)'
    <3>k. Kept(j)
      BY <2>1, <2>3 DEF Safe
    <3>1. CASE j # job[w]
      <4>1. \A v \in Workers : job[v] = j =>
              pc'[v] = pc[v] /\ job'[v] = j /\ redelivered'[v] = redelivered[v]
        BY <2>1, <3>1
      <4>2. (retry[j] > 0 => retry'[j] > 0) /\ (dead[j] > 0 => dead'[j] > 0)
        BY <2>2
      <4>3. QED
        BY <2>1, <4>1, <4>2, <3>k, KeptElsewhere
    <3>2. CASE j = job[w]
      <4>1. Returned(j) => Returned(j)'
        BY <2>1 DEF Returned, Handles
      <4>2. Converts(j) => Converts(j)'
        BY <2>1 DEF Converts, Handles, Converting
      <4>3. Waits(j) => Waits(j)'
        BY <2>1, <2>2, <3>2 DEF Waits, Handles
      <4>4. GivesUp(j) => GivesUp(j)'
        BY <2>1, <2>2, <3>2 DEF GivesUp, Handles
      <4>5. QED
        BY <2>1, <3>k, <4>1, <4>2, <4>3, <4>4 DEF Kept
    <3>3. QED
      BY <3>1, <3>2
  <2>4. QED
    BY <2>1, <2>3 DEF Safe, Idle
<1>12. CASE Ack(w)
  <2>1. /\ pc[w] = "ack" /\ pc'[w] = Idle
        /\ UNCHANGED <<jobStatus, main, retry, dead, mode, enq>>
        /\ \A v \in Workers : v # w => /\ pc'[v] = pc[v] /\ job'[v] = job[v]
                                       /\ redelivered'[v] = redelivered[v]
                                       /\ unacked'[v] = unacked[v]
    BY <1>12, <1>t DEF Ack, Forget, TypeOK, tables, queues
  <2>2. ASSUME NEW j \in Jobs, enq'[j] = "enqueued"
        PROVE  Kept(j)'
    <3>1. Returned(j) => Returned(j)'
      BY <2>1 DEF Returned, Handles
    <3>2. Converts(j) => Converts(j)'
      BY <2>1 DEF Converts, Handles, Converting
    <3>3. Waits(j) => Waits(j)'
      BY <2>1 DEF Waits, Handles
    <3>4. GivesUp(j) => GivesUp(j)'
      BY <2>1 DEF GivesUp, Handles
    <3>5. QED
      BY <2>1, <2>2, <3>1, <3>2, <3>3, <3>4 DEF Kept, Safe
  <2>3. QED
    BY <2>1, <2>2 DEF Safe
<1>13. QED
  BY <1>1, <1>2, <1>3, <1>4, <1>5, <1>6, <1>7, <1>8, <1>9, <1>10, <1>11, <1>12 DEF Goroutine

LEMMA SafeProcess ==
  ASSUME Safe, OnlyCrashes, Basics', NEW p \in Procs, Process(p)
  PROVE  Safe'
<1>t. TypeOK
  BY DEF Safe, Basics
<1>1. ~LinkDrop(p)
  BY <1>t, NoBudget DEF OnlyCrashes, LinkDrop, Faults
<1>2. CASE Stop(p)
  <2>1. FALSE \/ Budget["stop"] = 0
    BY DEF OnlyCrashes
  <2>2. QED
    BY <1>t, <1>2, <2>1, NoBudget DEF Stop, Faults
<1>3. ~Resubscribe(p) /\ ~Close(p) /\ ~Exit(p)
  BY DEF Safe, Resubscribe, Close, Exit
<1>4. CASE Start(p)
  <2>1. /\ UNCHANGED <<tables, queues, locals, enq>>
        /\ mode' = [mode EXCEPT ![p] = "consuming"]
    BY <1>4 DEF Start
  <2>2. \A j \in Jobs : Kept(j) => Kept(j)'
    BY <2>1, KeptElsewhere DEF tables, queues, locals
  <2>3. \A q \in Procs : mode'[q] = mode[q] \/ mode'[q] = "consuming"
    BY <1>t, <2>1 DEF TypeOK
  <2>4. QED
    BY <2>1, <2>2, <2>3, WorkersAssumption DEF Safe, locals
<1>5. CASE Crash(p)
  <2>1. /\ UNCHANGED <<jobStatus, retry, dead, enq>>
        /\ mode' = [mode EXCEPT ![p] = "down"]
        /\ Redeliver(p)
    BY <1>5 DEF Crash, tables
  <2>2. /\ \A v \in Workers : ProcOf[v] = p => pc'[v] = Idle
        /\ \A v \in Workers : ProcOf[v] # p =>
             /\ pc'[v] = pc[v] /\ job'[v] = job[v]
             /\ redelivered'[v] = redelivered[v] /\ unacked'[v] = unacked[v]
    BY <1>5, <1>t DEF Crash, Forget, Goroutines, TypeOK
  <2>3. ASSUME NEW j \in Jobs, enq'[j] = "enqueued"
        PROVE  Kept(j)'
    <3>k. Kept(j)
      BY <2>1, <2>3 DEF Safe
    <3>m. /\ main'[<<j, FALSE>>] = main[<<j, FALSE>>]
          /\ main'[<<j, TRUE>>] >= main[<<j, TRUE>>]
          /\ main'[<<j, TRUE>>] \in Nat /\ main[<<j, TRUE>>] \in Nat
      <4>1. <<j, TRUE>> \in Bodies \X BOOLEAN
        BY DEF Bodies
      <4>2. main' \in [Bodies \X BOOLEAN -> Nat]
        BY DEF Basics, TypeOK
      <4>3. QED
        BY <1>t, <2>1, <4>1, <4>2, RedeliverCounts DEF TypeOK
    <3>1. CASE \E v \in Workers : ProcOf[v] = p /\ pc[v] # Idle /\ job[v] = j
      <4>1. \E v \in Workers : ProcOf[v] = p /\ unacked[v] /\ job[v] = j
        BY <3>1 DEF Safe
      <4>2. main'[<<j, TRUE>>] > 0
        BY <1>t, <2>1, <4>1, RedeliverCounts
      <4>3. QED
        BY <4>2 DEF Kept, Returned
    <3>2. CASE \A v \in Workers : pc[v] # Idle /\ job[v] = j => ProcOf[v] # p
      <4>1. Returned(j) => Returned(j)'
        BY <2>2, <3>2, <3>m DEF Returned, Handles, Idle
      <4>2. Converts(j) => Converts(j)'
        BY <2>2, <3>2 DEF Converts, Handles, Converting, Idle
      <4>3. Waits(j) => Waits(j)'
        BY <2>1, <2>2, <3>2, <3>m DEF Waits, Handles, Idle
      <4>4. GivesUp(j) => GivesUp(j)'
        BY <2>1, <2>2, <3>2 DEF GivesUp, Handles, Idle
      <4>5. QED
        BY <2>1, <3>k, <4>1, <4>2, <4>3, <4>4 DEF Kept
    <3>3. QED
      BY <3>1, <3>2
  <2>4. \A v \in Workers : pc'[v] # Idle => unacked'[v] /\ mode'[ProcOf[v]] = "consuming"
    BY <1>t, <2>1, <2>2 DEF Safe, TypeOK
  <2>5. \A q \in Procs : mode'[q] \in {"consuming", "down"}
    BY <1>t, <2>1 DEF Safe, TypeOK
  <2>6. QED
    BY <2>3, <2>4, <2>5 DEF Safe
<1>6. QED
  BY <1>1, <1>2, <1>3, <1>4, <1>5 DEF Process

LEMMA SafeBroker ==
  ASSUME Safe, Basics',
         \/ MalformedPublish
         \/ \E b \in Bodies : RetryExpires(b)
         \/ \E w \in Workers, b \in Bodies, r \in BOOLEAN : Deliver(w, b, r)
  PROVE  Safe'
<1>t. TypeOK
  BY DEF Safe, Basics
<1>p. ASSUME NEW b \in Bodies, NEW r \in BOOLEAN, NEW n,
             main' = [main EXCEPT ![<<b, r>>] = n],
             NEW c \in Bodies, NEW q \in BOOLEAN
      PROVE  main'[<<c, q>>] = IF c = b /\ q = r THEN n ELSE main[<<c, q>>]
  <2>1. <<c, q>> \in Bodies \X BOOLEAN /\ (<<c, q>> = <<b, r>> <=> c = b /\ q = r)
    OBVIOUS
  <2>2. QED
    BY <1>p, <1>t, <2>1 DEF TypeOK
<1>b. Jobs \subseteq Bodies /\ NoJob \in Bodies /\ TRUE \in BOOLEAN /\ FALSE \in BOOLEAN
  BY DEF Bodies
<1>1. CASE MalformedPublish
  <2>1. UNCHANGED <<jobStatus, retry, dead, enq, pc, job, redelivered, unacked, mode>>
    BY <1>1 DEF MalformedPublish, tables, locals
  <2>2. ASSUME NEW j \in Jobs
        PROVE  main'[<<j, TRUE>>] = main[<<j, TRUE>>] /\ main'[<<j, FALSE>>] = main[<<j, FALSE>>]
    BY <1>1, <1>p, <1>b, TablesAssumption DEF MalformedPublish
  <2>3. \A j \in Jobs : Kept(j) => Kept(j)'
    BY <2>1, <2>2, KeptElsewhere
  <2>4. QED
    BY <2>1, <2>3 DEF Safe
<1>2. ASSUME NEW b \in Bodies, RetryExpires(b)
      PROVE  Safe'
  <2>1. /\ UNCHANGED <<jobStatus, dead, enq, pc, job, redelivered, unacked, mode>>
        /\ \A j \in Jobs : j # b => retry'[j] = retry[j]
    BY <1>2, <1>t DEF RetryExpires, TypeOK, tables, locals
  <2>2. ASSUME NEW j \in Jobs
        PROVE  /\ main'[<<j, TRUE>>] = main[<<j, TRUE>>]
               /\ j # b => main'[<<j, FALSE>>] = main[<<j, FALSE>>]
               /\ j = b => main'[<<j, FALSE>>] > 0
    <3>1. main[<<b, FALSE>>] \in Nat
      BY <1>t, <1>b DEF TypeOK
    <3>2. main' = [main EXCEPT ![<<b, FALSE>>] = main[<<b, FALSE>>] + 1]
      BY <1>2 DEF RetryExpires
    <3>3. main'[<<j, TRUE>>] = main[<<j, TRUE>>]
      BY <1>p, <1>b, <3>2
    <3>4. main'[<<j, FALSE>>] = IF j = b THEN main[<<b, FALSE>>] + 1 ELSE main[<<j, FALSE>>]
      <4>1. <<j, FALSE>> \in Bodies \X BOOLEAN /\ (j # b => <<j, FALSE>> # <<b, FALSE>>)
        BY DEF Bodies
      <4>2. QED
        BY <1>t, <3>2, <4>1 DEF TypeOK
    <3>5. QED
      BY <3>1, <3>3, <3>4
  <2>3. ASSUME NEW j \in Jobs, Kept(j)
        PROVE  Kept(j)'
    <3>1. CASE j # b
      BY <2>1, <2>2, <2>3, <3>1, KeptElsewhere
    <3>2. CASE j = b
      <4>1. Waits(j)'
        BY <2>2, <3>2 DEF Waits
      <4>2. Returned(j) => Returned(j)'
        BY <2>1, <2>2 DEF Returned, Handles
      <4>3. Converts(j) => Converts(j)'
        BY <2>1 DEF Converts, Handles
      <4>4. GivesUp(j) => GivesUp(j)'
        BY <2>1 DEF GivesUp, Handles
      <4>5. QED
        BY <2>1, <2>3, <4>1, <4>2, <4>3, <4>4 DEF Kept
    <3>3. QED
      BY <3>1, <3>2
  <2>4. QED
    BY <2>1, <2>3 DEF Safe
<1>3. ASSUME NEW w \in Workers, NEW b \in Bodies, NEW r \in BOOLEAN, Deliver(w, b, r)
      PROVE  Safe'
  <2>1. /\ UNCHANGED <<jobStatus, retry, dead, enq, mode>>
        /\ pc[w] = Idle /\ mode[ProcOf[w]] \in {"consuming", "stopping"}
        /\ pc'[w] = "delivered" /\ job'[w] = b /\ redelivered'[w] = r /\ unacked'[w] = TRUE
        /\ \A v \in Workers : v # w => /\ pc'[v] = pc[v] /\ job'[v] = job[v]
                                       /\ redelivered'[v] = redelivered[v]
                                       /\ unacked'[v] = unacked[v]
    BY <1>3, <1>t DEF Deliver, TypeOK, tables
  <2>2. ASSUME NEW j \in Jobs
        PROVE  /\ j # b => main'[<<j, TRUE>>] = main[<<j, TRUE>>]
                             /\ main'[<<j, FALSE>>] = main[<<j, FALSE>>]
               /\ r => main'[<<j, FALSE>>] = main[<<j, FALSE>>]
               /\ ~r => main'[<<j, TRUE>>] = main[<<j, TRUE>>]
    <3>1. main' = [main EXCEPT ![<<b, r>>] = main[<<b, r>>] - 1]
      BY <1>3 DEF Deliver
    <3>2. ASSUME NEW q \in BOOLEAN, j # b \/ q # r
          PROVE  main'[<<j, q>>] = main[<<j, q>>]
      BY <1>p, <1>b, <3>1, <3>2
    <3>3. r => FALSE # r
      OBVIOUS
    <3>4. ~r => TRUE # r
      OBVIOUS
    <3>5. QED
      BY <1>b, <3>2, <3>3, <3>4
  <2>3. ASSUME NEW j \in Jobs, Kept(j)
        PROVE  Kept(j)'
    <3>1. Converts(j) => Converts(j)'
      BY <2>1 DEF Converts, Handles, Converting, Idle
    <3>2. GivesUp(j) => GivesUp(j)'
      BY <2>1 DEF GivesUp, Handles, Idle
    <3>3. Returned(j) => Returned(j)'
      <4>1. CASE j = b /\ r
        BY <2>1, <4>1 DEF Returned, Handles
      <4>2. CASE ~(j = b /\ r)
        BY <2>1, <2>2, <4>2 DEF Returned, Handles, Idle
      <4>3. QED
        BY <4>1, <4>2
    <3>4. Waits(j) => Waits(j)'
      <4>1. CASE j = b
        BY <2>1, <4>1 DEF Waits, Handles
      <4>2. CASE j # b
        BY <2>1, <2>2, <4>2 DEF Waits, Handles, Idle
      <4>3. QED
        BY <4>1, <4>2
    <3>5. QED
      BY <2>1, <2>3, <3>1, <3>2, <3>3, <3>4 DEF Kept
  <2>4. \A v \in Workers : pc'[v] # Idle => unacked'[v] /\ mode'[ProcOf[v]] = "consuming"
    BY <2>1, WorkersAssumption DEF Safe
  <2>5. QED
    BY <2>1, <2>3, <2>4 DEF Safe
<1>4. QED
  BY <1>1, <1>2, <1>3

LEMMA SafeApi ==
  ASSUME Safe, OnlyCrashes, Basics', NEW j \in Jobs, Api(j)
  PROVE  Safe'
<1>t. TypeOK
  BY DEF Safe, Basics
<1>1. CASE CreateJob(j) \/ EnqueueRefused(j) \/ MarkEnqueueFailed(j) \/ ApiCrash(j)
  <2>1. /\ UNCHANGED <<main, retry, dead, pc, job, redelivered, unacked, mode>>
        /\ enq'[j] # "enqueued"
        /\ \A i \in Jobs : i # j => jobStatus'[i] = jobStatus[i] /\ enq'[i] = enq[i]
    BY <1>1, <1>t DEF CreateJob, EnqueueRefused, MarkEnqueueFailed, ApiCrash, TypeOK,
                      tables, queues, locals
  <2>2. ASSUME NEW i \in Jobs, enq'[i] = "enqueued"
        PROVE  Kept(i)'
    BY <2>1, <2>2, KeptElsewhere DEF Safe
  <2>3. QED
    BY <2>1, <2>2 DEF Safe
<1>2. CASE Enqueue(j) \/ DuplicatePublish(j)
  <2>1. /\ UNCHANGED <<jobStatus, retry, dead, pc, job, redelivered, unacked, mode>>
        /\ \A i \in Jobs : i # j => enq'[i] = enq[i]
        /\ main' = [main EXCEPT ![<<j, FALSE>>] = @ + 1]
    BY <1>2, <1>t DEF Enqueue, DuplicatePublish, TypeOK, tables, locals
  <2>q. enq[j] = "enqueued" \/ jobStatus[j] = "queued"
    <3>1. enq[j] \in {"created", "enqueued"}
      BY <1>2 DEF Enqueue, DuplicatePublish
    <3>2. QED
      BY <3>1 DEF Safe, Basics, JobOK
  <2>2. ASSUME NEW i \in Jobs
        PROVE  /\ main'[<<i, TRUE>>] = main[<<i, TRUE>>]
               /\ i # j => main'[<<i, FALSE>>] = main[<<i, FALSE>>]
               /\ i = j => main'[<<i, FALSE>>] > 0
    <3>1. /\ <<i, TRUE>> \in Bodies \X BOOLEAN /\ <<i, TRUE>> # <<j, FALSE>>
          /\ <<i, FALSE>> \in Bodies \X BOOLEAN /\ (i # j => <<i, FALSE>> # <<j, FALSE>>)
      BY DEF Bodies
    <3>2. main[<<i, FALSE>>] \in Nat
      BY <1>t, <3>1 DEF TypeOK
    <3>3. main'[<<i, TRUE>>] = main[<<i, TRUE>>]
      BY <1>t, <2>1, <3>1 DEF TypeOK
    <3>4. CASE i # j
      BY <1>t, <2>1, <3>1, <3>3, <3>4 DEF TypeOK
    <3>5. CASE i = j
      <4>1. main'[<<i, FALSE>>] = main[<<i, FALSE>>] + 1
        BY <1>t, <2>1, <3>1, <3>5 DEF TypeOK
      <4>2. QED
        BY <3>2, <3>3, <3>5, <4>1
    <3>6. QED
      BY <3>4, <3>5
  <2>3. ASSUME NEW i \in Jobs, enq'[i] = "enqueued"
        PROVE  Kept(i)'
    <3>1. CASE enq[i] = "enqueued"
      BY <2>1, <2>2, <3>1, KeptElsewhere DEF Safe
    <3>2. CASE enq[i] # "enqueued"
      <4>1. i = j /\ jobStatus'[i] = "queued"
        BY <2>1, <2>q, <2>3, <3>2
      <4>2. Waits(i)'
        BY <2>2, <4>1 DEF Waits
      <4>3. QED
        BY <4>1, <4>2 DEF Kept
    <3>3. QED
      BY <3>1, <3>2
  <2>4. QED
    BY <2>1, <2>3 DEF Safe
<1>3. ~EnqueueLost(j)
  BY <1>t, NoBudget DEF EnqueueLost, OnlyCrashes, Faults
<1>4. QED
  BY <1>1, <1>2, <1>3 DEF Api

LEMMA SafeStep ==
  ASSUME OnlyCrashes
  PROVE  Safe /\ [Next]_vars => Safe'
<1> SUFFICES ASSUME Safe, [Next]_vars
             PROVE  Safe'
  OBVIOUS
<1>1. Basics'
  BY BasicsStep DEF Safe
<1>2. CASE UNCHANGED vars
  <2>1. \A j \in Jobs : Kept(j) => Kept(j)'
    BY <1>2, KeptElsewhere DEF vars, tables, queues, locals
  <2>2. QED
    BY <1>1, <1>2, <2>1 DEF Safe, vars, locals
<1>3. CASE Next
  BY <1>1, <1>3, SafeApi, SafeBroker, SafeProcess, SafeGoroutine DEF Next
<1>4. QED
  BY <1>2, <1>3

(* However often workers crash, between whichever steps, and however often *)
(* a message is duplicated, a job whose enqueue succeeded is converted,    *)
(* given up with its message in the dead-letter queue, in the hands of a   *)
(* goroutine, or about to be claimed.                                      *)
THEOREM NoneAbandoned ==
  ASSUME OnlyCrashes
  PROVE  Spec => []NoJobAbandoned
<1>1. Safe /\ [Next]_vars => Safe'
  BY SafeStep
<1>2. QED
  BY <1>1, SafeInit, SafeAbandonsNone, PTL DEF Spec

-----------------------------------------------------------------------------
(* What the rows of JobQueue say, for any goroutines, processes and        *)
(* attempts.  That the rows of a job and its file agree between deliveries  *)
(* is proved for a file with one job; FileRequests is about the jobs a file *)
(* may have.                                                                *)

OneJobEach == \A i, j \in Jobs : FileOf[i] = FileOf[j] => i = j

At(j, s, t) == jobStatus[j] = s /\ fileStatus[FileOf[j]] = t

(* Where a goroutine's rows are its own to change.                         *)
Busy == Converting \cup {"requeue"}

Settles(s, t) == \/ s = "queued" /\ t = "ready"
                 \/ s \in {"converted", "failed"} /\ t = s

Agreed(j) == Settles(jobStatus[j], fileStatus[FileOf[j]])

(* The message of j is in the hands of w, or goes with it.                 *)
Holds(w, j) == job[w] = j /\ pc[w] # "ack"

(* What each call of a goroutine finds in the two rows.                    *)
Fits(step, s, t) ==
  /\ step \in {"delivered", "publishRetry"} => s = "queued" /\ t = "ready"
  /\ step = "markFile" => s = "converting" /\ t = "ready"
  /\ step \in {"markJob", "convert", "fileConverted", "fileFailed"}
       => s = "converting" /\ t = "converting"
  /\ step = "jobConverted" => s = "converting" /\ t = "converted"
  /\ step = "jobFailed" => s = "converting" /\ t = "failed"
  /\ step \in {"requeue", "publishDead"} => s = "failed" /\ t = "failed"

Found(w) == Fits(pc[w], jobStatus[job[w]], fileStatus[FileOf[job[w]]])

(* What EnqueueConversion and the goroutines leave in them.                *)
Left(j) ==
  /\ enq[j] = "none" => fileStatus[FileOf[j]] = "ready"
  /\ enq[j] \in {"created", "markJob"} => At(j, "queued", "ready")
  /\ enq[j] = "markFile" => At(j, "failed", "ready")
  /\ enq[j] = "refused" => At(j, "failed", "failed")
  /\ enq[j] = "enqueued" => Agreed(j) \/ \E w \in Workers : Handles(w, j, Busy)

(* A job has one message at most: in a queue, its rows as they were when   *)
(* it was created, or with one goroutine.                                  *)
OneCopy(j) ==
  /\ main[<<j, TRUE>>] = 0
  /\ main[<<j, FALSE>>] + retry[j] <= 1
  /\ main[<<j, FALSE>>] + retry[j] = 1 =>
       At(j, "queued", "ready") /\ \A w \in Workers : ~Holds(w, j)
  /\ \A v, w \in Workers : Holds(v, j) /\ Holds(w, j) => v = w

Calm ==
  /\ \A p \in Procs : mode[p] = "consuming"
  /\ \A w \in Workers : /\ pc[w] = Idle => job[w] = NoJob
                        /\ job[w] \in Jobs => Found(w)
  /\ \A j \in Jobs : Left(j) /\ OneCopy(j)

LEMMA CalmInit == Init => Calm
<1> SUFFICES ASSUME Init
             PROVE  Calm
  OBVIOUS
<1>1. ASSUME NEW j \in Jobs
      PROVE  Left(j) /\ OneCopy(j)
  <2>1. /\ main[<<j, TRUE>>] = 0 /\ main[<<j, FALSE>>] = 0 /\ retry[j] = 0
        /\ \A w \in Workers : job[w] # j
    BY TablesAssumption DEF Init, EmptyQueue, Bodies
  <2>2. OneCopy(j)
    BY <2>1 DEF OneCopy, Holds
  <2>3. enq[j] = "none" /\ fileStatus[FileOf[j]] = "ready"
    BY TablesAssumption DEF Init, EmptyQueue
  <2>4. QED
    BY <2>2, <2>3 DEF Left
<1>2. QED
  BY <1>1, TablesAssumption DEF Init, EmptyQueue, Calm

-----------------------------------------------------------------------------
(* A fault is never taken back.                                            *)
LEMMA SpendGrows ==
  ASSUME TypeOK, NEW k \in Faults, Spend(k)
  PROVE  /\ spent'[k] = spent[k] + 1
         /\ \A i \in Faults : spent'[i] >= spent[i]
BY DEF TypeOK, Spend

LEMMA ChargeGrows ==
  ASSUME TypeOK, NEW w, NEW answer, Charge(w, answer)
  PROVE  /\ \A i \in Faults : spent'[i] >= spent[i]
         /\ answer # "ok" /\ ~Cancelled(w) => spent'["db"] > 0 \/ spent'["answer"] > 0
<1>1. FaultOf(answer) \in {"db", "answer"} /\ "db" \in Faults /\ "answer" \in Faults
  BY DEF FaultOf, Faults
<1>2. QED
  BY <1>1 DEF TypeOK, Charge

LEMMA SpentGrows ==
  ASSUME TypeOK, Next
  PROVE  \A i \in Faults : spent'[i] >= spent[i]
<1>0. UNCHANGED spent => \A i \in Faults : spent'[i] >= spent[i]
  BY DEF TypeOK
<1>1. ASSUME NEW k \in Faults, Spend(k)
      PROVE  \A i \in Faults : spent'[i] >= spent[i]
  BY <1>1, SpendGrows
<1>2. ASSUME NEW j \in Jobs, Api(j)
      PROVE  \A i \in Faults : spent'[i] >= spent[i]
  BY <1>0, <1>1, <1>2 DEF Api, CreateJob, Enqueue, EnqueueLost, EnqueueRefused,
     MarkEnqueueFailed, ApiCrash, DuplicatePublish, Faults
<1>3. MalformedPublish => \A i \in Faults : spent'[i] >= spent[i]
  BY <1>1 DEF MalformedPublish, Faults
<1>4. ASSUME NEW p \in Procs, Process(p)
      PROVE  \A i \in Faults : spent'[i] >= spent[i]
  BY <1>0, <1>1, <1>4 DEF Process, LinkDrop, Resubscribe, Stop, Close, Exit, Crash, Start, Faults
<1>5. ASSUME NEW w \in Workers, Goroutine(w)
      PROVE  \A i \in Faults : spent'[i] >= spent[i]
  <2>1. UNCHANGED spent \/ \E answer : Charge(w, answer)
    BY <1>5 DEF Goroutine, Undecodable, Claim, Produce, PublishRetry, PublishDead, Ack, Write,
       MarkFileConverting, MarkJobConverting, MarkFileConverted, MarkJobConverted,
       MarkFileFailed, MarkJobFailed, Requeue
  <2>2. QED
    BY <1>0, <2>1, ChargeGrows
<1>6. QED
  BY <1>0, <1>2, <1>3, <1>4, <1>5 DEF Next, RetryExpires, Deliver

(* In an undisturbed system a call is answered, and no session ends.       *)
LEMMA UndisturbedAnswers ==
  ASSUME TypeOK, Undisturbed', NEW w, NEW answer, Charge(w, answer), ~Cancelled(w)
  PROVE  answer = "ok"
<1>1. spent'["db"] = 0 /\ spent'["answer"] = 0
  BY DEF Undisturbed
<1>2. QED
  BY <1>1, ChargeGrows

LEMMA UndisturbedSpends ==
  ASSUME TypeOK, Undisturbed', NEW k \in {"crash", "drop", "stop", "db", "answer", "duplicate"}
  PROVE  ~Spend(k)
<1>1. k \in Faults /\ spent[k] \in Nat
  BY DEF Faults, TypeOK
<1>2. spent'[k] = 0
  BY DEF Undisturbed
<1>3. QED
  BY <1>1, <1>2, SpendGrows

-----------------------------------------------------------------------------
(* A goroutine moves to its next call, changing rows of its own job only.  *)
LEMMA CalmMove ==
  ASSUME Calm, TypeOK, NEW w \in Workers, NEW next \in Steps, pc[w] \notin {Idle, "ack"},
         pc' = [pc EXCEPT ![w] = next], next \notin {Idle, "delivered"},
         UNCHANGED <<main, job, enq, mode>>,
         job[w] \in Jobs => enq[job[w]] = "enqueued",
         \A i \in Jobs : i # job[w] => /\ jobStatus'[i] = jobStatus[i]
                                       /\ fileStatus'[FileOf[i]] = fileStatus[FileOf[i]]
                                       /\ retry'[i] = retry[i],
         job[w] \in Jobs => Found(w)' /\ (Agreed(job[w])' \/ next \in Busy),
         job[w] \in Jobs => \/ retry'[job[w]] = retry[job[w]]
                            \/ /\ retry'[job[w]] = retry[job[w]] + 1
                               /\ next = "ack" /\ At(job[w], "queued", "ready")'
  PROVE  Calm'
<1>1. /\ pc'[w] = next
      /\ \A v \in Workers : v # w => pc'[v] = pc[v]
  BY DEF TypeOK
<1>2. ASSUME NEW v \in Workers
      PROVE  /\ pc'[v] = Idle => job'[v] = NoJob
             /\ job'[v] \in Jobs => Found(v)'
  <2>1. CASE v = w
    BY <1>1, <2>1
  <2>2. CASE v # w /\ job[v] # job[w]
    BY <1>1, <2>2 DEF Calm, Found
  <2>3. CASE v # w /\ job[v] = job[w] /\ job[w] \in Jobs
    <3>1. OneCopy(job[w]) /\ Holds(w, job[w])
      BY <2>3 DEF Calm, Holds
    <3>2. ~Holds(v, job[w])
      BY <2>3, <3>1 DEF OneCopy
    <3>3. pc[v] = "ack"
      BY <2>3, <3>2 DEF Holds
    <3>4. QED
      BY <1>1, <2>3, <3>3 DEF Found, Fits, Idle
  <2>4. CASE v # w /\ job[v] = job[w] /\ job[w] \notin Jobs
    BY <1>1, <2>4 DEF Calm
  <2>5. QED
    BY <2>1, <2>2, <2>3, <2>4
<1>3. ASSUME NEW i \in Jobs, i # job[w]
      PROVE  Left(i)' /\ OneCopy(i)'
  <2>1. /\ \A v \in Workers : Holds(v, i)' <=> Holds(v, i)
        /\ \A v \in Workers : Handles(v, i, Busy)' <=> Handles(v, i, Busy)
        /\ \A s, t : At(i, s, t)' <=> At(i, s, t)
    BY <1>1, <1>3 DEF Holds, Handles, At
  <2>2. Left(i)'
    BY <1>3, <2>1 DEF Calm, Left, Agreed, At
  <2>3. OneCopy(i)'
    BY <1>3, <2>1 DEF Calm, OneCopy
  <2>4. QED
    BY <2>2, <2>3
<1>4. ASSUME NEW i \in Jobs, i = job[w]
      PROVE  Left(i)' /\ OneCopy(i)'
  <2>1. Holds(w, i) /\ OneCopy(i)
    BY <1>4 DEF Holds, Calm
  <2>2. main[<<i, FALSE>>] \in Nat /\ retry[i] \in Nat
    BY DEF TypeOK, Bodies
  <2>3. main[<<i, FALSE>>] = 0 /\ retry[i] = 0 /\ main[<<i, TRUE>>] = 0
    BY <2>1, <2>2 DEF OneCopy
  <2>4. \A v \in Workers : v # w => ~Holds(v, i) /\ ~Holds(v, i)'
    BY <1>1, <2>1 DEF OneCopy, Holds
  <2>5. next # "ack" => retry'[i] = 0
    BY <1>4, <2>3
  <2>6. \/ retry'[i] = 0
        \/ retry'[i] = 1 /\ At(i, "queued", "ready")' /\ next = "ack"
    <3>1. 0 + 1 = 1
      OBVIOUS
    <3>2. \/ retry'[i] = retry[i]
          \/ retry'[i] = retry[i] + 1 /\ next = "ack" /\ At(i, "queued", "ready")'
      BY <1>4
    <3>3. QED
      BY <2>3, <3>1, <3>2
  <2>7. OneCopy(i)'
    <3>1. main'[<<i, FALSE>>] = 0 /\ main'[<<i, TRUE>>] = 0
      BY <2>3
    <3>2. next = "ack" => ~Holds(w, i)'
      BY <1>1 DEF Holds
    <3>3. \A u, v \in Workers : Holds(u, i)' /\ Holds(v, i)' => u = v
      BY <2>4
    <3>4. QED
      BY <2>4, <2>6, <3>1, <3>2, <3>3 DEF OneCopy
  <2>8. Left(i)'
    BY <1>1, <1>4 DEF Left, Handles
  <2>9. QED
    BY <2>7, <2>8
<1>5. QED
  BY <1>2, <1>3, <1>4 DEF Calm

(* A status write of a goroutine that nothing disturbs.                    *)
LEMMA CalmWrite ==
  ASSUME Calm, Basics, OneJobEach, Undisturbed', NEW w \in Workers, NEW from \in Busy,
         NEW newJobs, NEW newFiles, NEW next \in Steps, NEW onError, NEW s, NEW t,
         newJobs = JobIs(w, s) \/ (newJobs = jobStatus /\ jobStatus[job[w]] = s),
         newFiles = FileIs(w, t) \/ (newFiles = fileStatus /\ fileStatus[FileOf[job[w]]] = t),
         next \notin {Idle, "delivered"}, Fits(next, s, t), Settles(s, t) \/ next \in Busy,
         Write(w, from, newJobs, newFiles, next, onError)
  PROVE  Calm'
<1>t. TypeOK
  BY DEF Basics
<1>1. /\ pc[w] = from /\ job[w] \in Jobs /\ enq[job[w]] = "enqueued"
      /\ pc[w] \notin {Idle, "ack"}
  BY DEF Write, Basics, GoroutineOK, Busy, Converting, Idle
<1>2. ~Cancelled(w)
  BY WorkersAssumption DEF Calm, Cancelled
<1>3. PICK answer :
        /\ IF answer = "error" THEN UNCHANGED <<jobStatus, fileStatus>>
           ELSE jobStatus' = newJobs /\ fileStatus' = newFiles
        /\ Goto(w, IF answer = "ok" THEN next ELSE onError)
        /\ Charge(w, answer)
  BY DEF Write
<1>4. answer = "ok"
  BY <1>t, <1>2, <1>3, UndisturbedAnswers
<1>5. /\ jobStatus' = newJobs /\ fileStatus' = newFiles /\ pc' = [pc EXCEPT ![w] = next]
      /\ UNCHANGED <<main, retry, job, enq, mode>>
  BY <1>3, <1>4 DEF Goto, Write, queues
<1>6. /\ jobStatus'[job[w]] = s /\ fileStatus'[FileOf[job[w]]] = t
      /\ \A i \in Jobs : i # job[w] => /\ jobStatus'[i] = jobStatus[i]
                                       /\ fileStatus'[FileOf[i]] = fileStatus[FileOf[i]]
  BY <1>t, <1>1, <1>5, TablesAssumption DEF TypeOK, JobIs, FileIs, OneJobEach
<1>7. pc'[w] = next
  BY <1>t, <1>5 DEF TypeOK
<1>8. Found(w)' /\ (Agreed(job[w])' \/ next \in Busy)
  BY <1>5, <1>6, <1>7 DEF Found, Agreed
<1>9. QED
  BY <1>t, <1>1, <1>5, <1>6, <1>8, CalmMove

LEMMA CalmGoroutine ==
  ASSUME Calm, Basics, OneJobEach, Undisturbed', NEW w \in Workers, Goroutine(w)
  PROVE  Calm'
<1>t. TypeOK
  BY DEF Basics
<1>n. /\ job[w] \in Jobs => Found(w)
      /\ pc[w] \in Busy => job[w] \in Jobs
      /\ job[w] \in Jobs => enq[job[w]] = "enqueued"
  BY DEF Calm, Basics, GoroutineOK, Busy
<1>s. /\ {"markFile", "markJob", "convert", "fileConverted", "jobConverted", "fileFailed",
          "jobFailed", "requeue", "publishRetry", "publishDead", "ack"} \subseteq Steps
      /\ AfterFailure(w) \in {"publishDead", "requeue"}
  BY DEF AfterFailure, Steps, Converting, Settling
<1>m. mode[ProcOf[w]] = "consuming" /\ ~Cancelled(w) /\ Sent(w) = {1}
  BY WorkersAssumption DEF Calm, Cancelled, Sent
<1>1. CASE Undecodable(w)
  <2>1. /\ pc[w] = "delivered" /\ job[w] \notin Jobs /\ pc' = [pc EXCEPT ![w] = "publishDead"]
        /\ UNCHANGED <<main, retry, job, enq, mode, jobStatus, fileStatus>>
    BY <1>1, TablesAssumption DEF Undecodable, Goto, tables, queues
  <2>2. QED
    BY <1>t, <1>s, <2>1, CalmMove DEF Idle
<1>2. CASE Claim(w)
  <2>1. /\ pc[w] = "delivered" /\ job[w] \in Jobs
        /\ UNCHANGED <<fileStatus, main, retry, job, enq, mode>>
    BY <1>2 DEF Claim, queues
  <2>2. jobStatus[job[w]] = "queued" /\ fileStatus[FileOf[job[w]]] = "ready"
    BY <1>n, <2>1 DEF Found, Fits
  <2>3. Claimable(job[w], redelivered[w])
    BY <2>2 DEF Claimable
  <2>4. PICK answer :
          /\ answer # "error" => jobStatus' = [jobStatus EXCEPT ![job[w]] = "converting"]
          /\ Goto(w, IF answer # "ok" THEN "publishRetry"
                     ELSE IF Claimable(job[w], redelivered[w]) THEN "markFile" ELSE "ack")
          /\ Charge(w, answer)
    BY <1>2, <2>3 DEF Claim
  <2>5. answer = "ok"
    BY <1>t, <1>m, <2>4, UndisturbedAnswers
  <2>6. /\ jobStatus' = [jobStatus EXCEPT ![job[w]] = "converting"]
        /\ pc' = [pc EXCEPT ![w] = "markFile"]
    BY <2>3, <2>4, <2>5 DEF Goto
  <2>7. /\ jobStatus'[job[w]] = "converting" /\ pc'[w] = "markFile"
        /\ \A i \in Jobs : i # job[w] => jobStatus'[i] = jobStatus[i]
    BY <1>t, <2>1, <2>6 DEF TypeOK
  <2>8. Found(w)'
    BY <2>1, <2>2, <2>7 DEF Found, Fits
  <2>9. QED
    BY <1>t, <1>n, <1>s, <2>1, <2>6, <2>7, <2>8, CalmMove DEF Idle, Busy, Converting
<1>3. CASE MarkFileConverting(w)
  <2>1. jobStatus[job[w]] = "converting"
    BY <1>3, <1>n DEF MarkFileConverting, Write, Busy, Converting, Found, Fits
  <2>2. QED
    BY <1>3, <1>s, <2>1, CalmWrite DEF MarkFileConverting, Busy, Converting, Fits, Idle
<1>4. CASE MarkJobConverting(w)
  <2>1. fileStatus[FileOf[job[w]]] = "converting"
    BY <1>4, <1>n DEF MarkJobConverting, Write, Busy, Converting, Found, Fits
  <2>2. QED
    BY <1>4, <1>s, <2>1, CalmWrite DEF MarkJobConverting, Busy, Converting, Fits, Idle
<1>5. CASE Produce(w)
  <2>1. PICK next \in {"fileConverted", "fileFailed"} : pc' = [pc EXCEPT ![w] = next]
    BY <1>5 DEF Produce, Goto
  <2>2. /\ pc[w] = "convert"
        /\ UNCHANGED <<main, retry, job, enq, mode, jobStatus, fileStatus>>
    BY <1>5 DEF Produce, tables, queues
  <2>3. Found(w)'
    BY <1>n, <1>t, <2>1, <2>2 DEF TypeOK, Found, Fits, Busy, Converting
  <2>4. QED
    BY <1>t, <1>n, <1>s, <2>1, <2>2, <2>3, CalmMove DEF Idle, Busy, Converting
<1>6. CASE MarkFileConverted(w)
  <2>1. jobStatus[job[w]] = "converting"
    BY <1>6, <1>n DEF MarkFileConverted, Write, Busy, Converting, Found, Fits
  <2>2. QED
    BY <1>6, <1>s, <2>1, CalmWrite DEF MarkFileConverted, Busy, Converting, Fits, Idle
<1>7. CASE MarkJobConverted(w)
  <2>1. fileStatus[FileOf[job[w]]] = "converted"
    BY <1>7, <1>n DEF MarkJobConverted, Write, Busy, Converting, Found, Fits
  <2>2. QED
    BY <1>7, <1>s, <2>1, CalmWrite DEF MarkJobConverted, Busy, Converting, Fits, Settles, Idle
<1>8. CASE MarkFileFailed(w)
  <2>1. jobStatus[job[w]] = "converting"
    BY <1>8, <1>n DEF MarkFileFailed, Write, Busy, Converting, Found, Fits
  <2>2. QED
    BY <1>8, <1>s, <2>1, CalmWrite DEF MarkFileFailed, Busy, Converting, Fits, Idle
<1>9. CASE MarkJobFailed(w)
  <2>1. fileStatus[FileOf[job[w]]] = "failed"
    BY <1>9, <1>n DEF MarkJobFailed, Write, Busy, Converting, Found, Fits
  <2>2. QED
    BY <1>9, <1>s, <2>1, CalmWrite DEF MarkJobFailed, Busy, Converting, Fits, Settles, Idle
<1>10. CASE Requeue(w)
  BY <1>10, <1>s, CalmWrite DEF Requeue, Busy, Fits, Settles, Idle
<1>11. CASE PublishRetry(w)
  <2>1. /\ pc[w] = "publishRetry" /\ pc' = [pc EXCEPT ![w] = "ack"]
        /\ retry' = [retry EXCEPT ![job[w]] = @ + 1]
        /\ UNCHANGED <<main, job, enq, mode, jobStatus, fileStatus>>
    BY <1>11, <1>m DEF PublishRetry, Goto, tables
  <2>2. /\ \A i \in Jobs : i # job[w] => retry'[i] = retry[i]
        /\ job[w] \in Jobs => retry'[job[w]] = retry[job[w]] + 1
    BY <1>t, <2>1 DEF TypeOK, Bodies
  <2>3. job[w] \in Jobs => At(job[w], "queued", "ready")' /\ Agreed(job[w])' /\ Found(w)'
    BY <1>n, <1>t, <2>1 DEF TypeOK, At, Agreed, Settles, Found, Fits
  <2>4. QED
    BY <1>t, <1>n, <1>s, <2>1, <2>2, <2>3, CalmMove DEF Idle
<1>12. CASE PublishDead(w)
  <2>1. /\ pc[w] = "publishDead" /\ pc' = [pc EXCEPT ![w] = "ack"]
        /\ UNCHANGED <<main, retry, job, enq, mode, jobStatus, fileStatus>>
    BY <1>12 DEF PublishDead, Goto, tables
  <2>2. job[w] \in Jobs => Agreed(job[w])' /\ Found(w)'
    BY <1>n, <1>t, <2>1 DEF TypeOK, Agreed, Settles, Found, Fits
  <2>3. QED
    BY <1>t, <1>n, <1>s, <2>1, <2>2, CalmMove DEF Idle
<1>13. CASE Ack(w)
  <2>1. /\ pc[w] = "ack"
        /\ \A v \in Workers : v # w => pc'[v] = pc[v] /\ job'[v] = job[v]
        /\ pc'[w] = Idle /\ job'[w] = NoJob
        /\ UNCHANGED <<main, retry, enq, mode, jobStatus, fileStatus>>
    BY <1>13 DEF Ack, Forget, tables, queues
  <2>2. ASSUME NEW j \in Jobs
        PROVE  Left(j)' /\ OneCopy(j)'
    <3>1. \A v \in Workers : /\ Holds(v, j)' <=> Holds(v, j)
                             /\ Handles(v, j, Busy)' <=> Handles(v, j, Busy)
      BY <2>1, TablesAssumption DEF Holds, Handles, Busy, Converting
    <3>2. QED
      BY <2>1, <3>1 DEF Calm, Left, OneCopy, At, Agreed
  <2>3. QED
    BY <2>1, <2>2, TablesAssumption DEF Calm, Found
<1>14. QED
  BY <1>1, <1>2, <1>3, <1>4, <1>5, <1>6, <1>7, <1>8, <1>9, <1>10, <1>11, <1>12,
     <1>13 DEF Goroutine

-----------------------------------------------------------------------------
(* Without redelivery a process only consumes.                             *)
LEMMA CalmProcess ==
  ASSUME Calm, Basics, Undisturbed', NEW p \in Procs, Process(p)
  PROVE  FALSE
<1>t. TypeOK
  BY DEF Basics
<1>1. ~LinkDrop(p) /\ ~Stop(p) /\ ~Crash(p)
  BY <1>t, UndisturbedSpends DEF LinkDrop, Stop, Crash
<1>2. mode[p] = "consuming"
  BY DEF Calm
<1>3. QED
  BY <1>1, <1>2 DEF Process, Resubscribe, Close, Exit, Start

(* Moving copies in the queues for one body leaves those of others.        *)
LEMMA MainElsewhere ==
  ASSUME TypeOK, NEW b \in Bodies, NEW n, main' = [main EXCEPT ![<<b, FALSE>>] = n]
  PROVE  /\ \A c \in Bodies : main'[<<c, TRUE>>] = main[<<c, TRUE>>]
         /\ \A c \in Bodies : c # b => main'[<<c, FALSE>>] = main[<<c, FALSE>>]
         /\ main'[<<b, FALSE>>] = n
<1>1. /\ \A c \in Bodies : <<c, TRUE>> \in Bodies \X BOOLEAN /\ <<c, TRUE>> # <<b, FALSE>>
      /\ \A c \in Bodies : <<c, FALSE>> \in Bodies \X BOOLEAN
      /\ \A c \in Bodies : c # b => <<c, FALSE>> # <<b, FALSE>>
  OBVIOUS
<1>2. main \in [Bodies \X BOOLEAN -> Nat]
  BY DEF TypeOK
<1>3. QED
  BY <1>1, <1>2

(* A step that leaves rows and goroutines of j alone, and its messages.    *)
LEMMA CalmElsewhere ==
  ASSUME Calm, NEW j \in Jobs,
         jobStatus'[j] = jobStatus[j], fileStatus'[FileOf[j]] = fileStatus[FileOf[j]],
         enq'[j] = enq[j], retry'[j] = retry[j],
         main'[<<j, TRUE>>] = main[<<j, TRUE>>], main'[<<j, FALSE>>] = main[<<j, FALSE>>],
         \A w \in Workers : /\ Holds(w, j)' <=> Holds(w, j)
                            /\ Handles(w, j, Busy)' <=> Handles(w, j, Busy)
  PROVE  Left(j)' /\ OneCopy(j)'
<1>1. \A s, t : At(j, s, t)' <=> At(j, s, t)
  BY DEF At
<1>2. Left(j) /\ OneCopy(j)
  BY DEF Calm
<1>3. Left(j)'
  BY <1>1, <1>2 DEF Left, Agreed
<1>4. OneCopy(j)'
  BY <1>1, <1>2 DEF OneCopy
<1>5. QED
  BY <1>3, <1>4

LEMMA CalmBroker ==
  ASSUME Calm, Basics, Undisturbed',
         \/ MalformedPublish
         \/ \E b \in Bodies : RetryExpires(b)
         \/ \E w \in Workers, b \in Bodies, r \in BOOLEAN : Deliver(w, b, r)
  PROVE  Calm'
<1>t. TypeOK /\ Jobs \subseteq Bodies
  BY DEF Basics, Bodies
<1>1. CASE MalformedPublish
  <2>1. /\ UNCHANGED <<tables, retry, locals, mode, enq>>
        /\ main' = [main EXCEPT ![<<NoJob, FALSE>>] = @ + 1]
    BY <1>1 DEF MalformedPublish
  <2>2. \A j \in Jobs : /\ main'[<<j, TRUE>>] = main[<<j, TRUE>>]
                        /\ main'[<<j, FALSE>>] = main[<<j, FALSE>>]
    BY <1>t, <2>1, MainElsewhere, TablesAssumption DEF Bodies
  <2>3. \A j \in Jobs : Left(j)' /\ OneCopy(j)'
    BY <2>1, <2>2, CalmElsewhere DEF tables, locals, Holds, Handles
  <2>4. QED
    BY <2>1, <2>3 DEF tables, locals, Calm, Found
<1>2. ASSUME NEW b \in Bodies, RetryExpires(b)
      PROVE  Calm'
  <2>1. /\ UNCHANGED <<jobStatus, fileStatus, pc, job, mode, enq>>
        /\ retry[b] > 0
        /\ retry' = [retry EXCEPT ![b] = @ - 1]
        /\ main' = [main EXCEPT ![<<b, FALSE>>] = @ + 1]
    BY <1>2 DEF RetryExpires, tables, locals
  <2>2. /\ \A c \in Bodies : main'[<<c, TRUE>>] = main[<<c, TRUE>>]
        /\ \A c \in Bodies : c # b => main'[<<c, FALSE>>] = main[<<c, FALSE>>]
        /\ main'[<<b, FALSE>>] = main[<<b, FALSE>>] + 1
        /\ \A c \in Bodies : c # b => retry'[c] = retry[c]
        /\ retry'[b] = retry[b] - 1
    <3>1. retry \in [Bodies -> Nat]
      BY <1>t DEF TypeOK
    <3>2. /\ \A c \in Bodies : c # b => retry'[c] = retry[c]
          /\ retry'[b] = retry[b] - 1
      BY <2>1, <3>1
    <3>3. QED
      BY <1>t, <2>1, <3>2, MainElsewhere
  <2>3. ASSUME NEW j \in Jobs
        PROVE  Left(j)' /\ OneCopy(j)'
    <3>1. CASE j # b
      BY <1>t, <2>1, <2>2, <3>1, CalmElsewhere DEF Holds, Handles
    <3>2. CASE j = b
      <4>1. main[<<j, FALSE>>] \in Nat /\ retry[j] \in Nat
        BY <1>t DEF TypeOK
      <4>2. main'[<<j, FALSE>>] + retry'[j] = main[<<j, FALSE>>] + retry[j]
        BY <2>2, <3>2, <4>1
      <4>h. /\ OneCopy(j) /\ main'[<<j, TRUE>>] = main[<<j, TRUE>>]
            /\ \A v : Holds(v, j)' <=> Holds(v, j)
            /\ At(j, "queued", "ready") => At(j, "queued", "ready")'
        BY <1>t, <2>1, <2>2 DEF Calm, Holds, At
      <4>3. OneCopy(j)'
        BY <4>2, <4>h DEF OneCopy
      <4>4. Left(j)'
        BY <2>1 DEF Calm, Left, At, Agreed, Handles
      <4>5. QED
        BY <4>3, <4>4
    <3>3. QED
      BY <3>1, <3>2
  <2>4. QED
    BY <2>1, <2>3 DEF Calm, Found
<1>3. ASSUME NEW w \in Workers, NEW b \in Bodies, NEW r \in BOOLEAN, Deliver(w, b, r)
      PROVE  Calm'
  <2>1. /\ UNCHANGED <<jobStatus, fileStatus, retry, mode, enq>>
        /\ pc[w] = Idle /\ job[w] = NoJob
        /\ pc'[w] = "delivered" /\ job'[w] = b
        /\ \A v \in Workers : v # w => pc'[v] = pc[v] /\ job'[v] = job[v]
        /\ main[<<b, r>>] > 0
        /\ main' = [main EXCEPT ![<<b, r>>] = @ - 1]
    BY <1>3, <1>t DEF Deliver, tables, TypeOK, Calm
  <2>2. ASSUME b \in Jobs
        PROVE  r = FALSE
    <3>1. main[<<b, TRUE>>] = 0
      BY <2>2 DEF Calm, OneCopy
    <3>2. CASE r
      <4>1. <<b, r>> = <<b, TRUE>>
        BY <3>2
      <4>2. QED
        BY <2>1, <3>1, <4>1
    <3>3. QED
      BY <3>2
  <2>3. ASSUME NEW j \in Jobs, j # b
        PROVE  Left(j)' /\ OneCopy(j)'
    <3>1. main'[<<j, TRUE>>] = main[<<j, TRUE>>] /\ main'[<<j, FALSE>>] = main[<<j, FALSE>>]
      <4>1. /\ <<j, TRUE>> # <<b, r>> /\ <<j, FALSE>> # <<b, r>>
            /\ <<j, TRUE>> \in Bodies \X BOOLEAN /\ <<j, FALSE>> \in Bodies \X BOOLEAN
        BY <1>t, <2>3
      <4>2. QED
        BY <1>t, <2>1, <4>1 DEF TypeOK
    <3>2. \A v \in Workers : /\ Holds(v, j)' <=> Holds(v, j)
                             /\ Handles(v, j, Busy)' <=> Handles(v, j, Busy)
      BY <2>1, <2>3, TablesAssumption DEF Holds, Handles
    <3>3. QED
      BY <2>1, <3>1, <3>2, CalmElsewhere
  <2>4. ASSUME b \in Jobs
        PROVE  /\ Left(b)' /\ OneCopy(b)'
               /\ At(b, "queued", "ready")'
    <3>1. /\ main'[<<b, TRUE>>] = main[<<b, TRUE>>]
          /\ main'[<<b, FALSE>>] = main[<<b, FALSE>>] - 1
          /\ main[<<b, FALSE>>] > 0
      <4>1. main[<<b, FALSE>>] > 0 /\ main' = [main EXCEPT ![<<b, FALSE>>] = main[<<b, FALSE>>] - 1]
        BY <2>1, <2>2, <2>4
      <4>2. QED
        BY <1>t, <2>4, <4>1, MainElsewhere
    <3>2. main[<<b, FALSE>>] \in Nat /\ retry[b] \in Nat
      BY <1>t DEF TypeOK
    <3>3. OneCopy(b)
      BY <2>4 DEF Calm
    <3>4. /\ main[<<b, FALSE>>] = 1 /\ retry[b] = 0 /\ main'[<<b, FALSE>>] = 0
          /\ main[<<b, FALSE>>] + retry[b] = 1 /\ main'[<<b, FALSE>>] + retry'[b] = 0
      <4>1. main[<<b, FALSE>>] + retry[b] <= 1
        BY <3>3 DEF OneCopy
      <4>2. retry'[b] = retry[b]
        BY <2>1
      <4>3. QED
        BY <3>1, <3>2, <4>1, <4>2
    <3>5. At(b, "queued", "ready") /\ (\A v \in Workers : ~Holds(v, b)) /\ main[<<b, TRUE>>] = 0
      BY <3>3, <3>4 DEF OneCopy
    <3>6. \A v \in Workers : v # w => ~Holds(v, b)'
      BY <2>1, <3>5 DEF Holds
    <3>7. OneCopy(b)'
      <4>1. main'[<<b, TRUE>>] = 0
        BY <3>1, <3>5
      <4>2. \A u, v \in Workers : Holds(u, b)' /\ Holds(v, b)' => u = v
        BY <3>6
      <4>3. QED
        BY <3>4, <4>1, <4>2 DEF OneCopy
    <3>8. enq[b] = "enqueued"
      <4>1. JobOK(b) /\ main[<<b, FALSE>>] # 0
        BY <2>4, <3>4 DEF Basics
      <4>2. QED
        BY <4>1 DEF JobOK
    <3>9. At(b, "queued", "ready")' /\ Left(b)'
      BY <2>1, <3>5, <3>8 DEF At, Left, Agreed, Settles
    <3>10. QED
      BY <3>7, <3>9
  <2>5. ASSUME NEW v \in Workers
        PROVE  /\ pc'[v] = Idle => job'[v] = NoJob
               /\ job'[v] \in Jobs => Found(v)'
    <3>1. CASE v = w
      BY <2>1, <2>4, <3>1 DEF Found, Fits, At, Idle
    <3>2. CASE v # w
      BY <2>1, <3>2 DEF Calm, Found
    <3>3. QED
      BY <3>1, <3>2
  <2>6. QED
    BY <2>1, <2>3, <2>4, <2>5 DEF Calm
<1>4. QED
  BY <1>1, <1>2, <1>3

LEMMA CalmApi ==
  ASSUME Calm, Basics, OneJobEach, Undisturbed', NEW j \in Jobs, Api(j)
  PROVE  Calm'
<1>t. TypeOK /\ Jobs \subseteq Bodies
  BY DEF Basics, Bodies
<1>d. ~DuplicatePublish(j) /\ ~Spend("db")
  BY <1>t, UndisturbedSpends DEF DuplicatePublish
<1>1. /\ enq[j] # "enqueued" /\ enq'[j] # "none"
      /\ UNCHANGED <<pc, job, retry, mode>>
      /\ \A i \in Jobs : i # j => enq'[i] = enq[i]
  BY <1>d, <1>t DEF Api, CreateJob, Enqueue, EnqueueLost, EnqueueRefused, MarkEnqueueFailed,
     ApiCrash, tables, queues, locals, TypeOK
<1>2. \A w \in Workers : job[w] # j
  BY <1>1 DEF Basics, GoroutineOK
<1>3. main[<<j, FALSE>>] = 0 /\ main[<<j, TRUE>>] = 0 /\ retry[j] = 0
  BY <1>1 DEF Basics, JobOK
<1>4. ASSUME NEW i \in Jobs, i # j
      PROVE  /\ jobStatus'[i] = jobStatus[i]
             /\ fileStatus'[FileOf[i]] = fileStatus[FileOf[i]]
             /\ main'[<<i, TRUE>>] = main[<<i, TRUE>>] /\ main'[<<i, FALSE>>] = main[<<i, FALSE>>]
  <2>1. UNCHANGED main \/ main' = [main EXCEPT ![<<j, FALSE>>] = @ + 1]
    BY <1>d DEF Api, CreateJob, Enqueue, EnqueueLost, EnqueueRefused, MarkEnqueueFailed,
       ApiCrash, queues
  <2>2. /\ main'[<<i, TRUE>>] = main[<<i, TRUE>>] /\ main'[<<i, FALSE>>] = main[<<i, FALSE>>]
    BY <1>t, <1>4, <2>1, MainElsewhere
  <2>3. FileOf[i] # FileOf[j]
    BY <1>4 DEF OneJobEach
  <2>4. /\ jobStatus'[i] = jobStatus[i]
        /\ fileStatus'[FileOf[i]] = fileStatus[FileOf[i]]
    BY <1>d, <1>t, <1>4, <2>3, TablesAssumption DEF Api, CreateJob, Enqueue, EnqueueLost,
       EnqueueRefused, MarkEnqueueFailed, ApiCrash, tables, TypeOK
  <2>5. QED
    BY <2>2, <2>4
<1>5. ASSUME NEW i \in Jobs, i # j
      PROVE  Left(i)' /\ OneCopy(i)'
  <2>1. enq'[i] = enq[i] /\ retry'[i] = retry[i]
    BY <1>1, <1>5
  <2>2. \A w \in Workers : /\ Holds(w, i)' <=> Holds(w, i)
                           /\ Handles(w, i, Busy)' <=> Handles(w, i, Busy)
    BY <1>1 DEF Holds, Handles
  <2>3. QED
    BY <1>4, <1>5, <2>1, <2>2, CalmElsewhere
<1>6. \A w \in Workers : /\ pc'[w] = Idle => job'[w] = NoJob
                         /\ job'[w] \in Jobs => Found(w)'
  BY <1>1, <1>2, <1>4 DEF Calm, Found
<1>7. Left(j)' /\ main'[<<j, TRUE>>] = 0
        /\ (main'[<<j, FALSE>>] = 0 \/ (main'[<<j, FALSE>>] = 1 /\ At(j, "queued", "ready")'))
  <2>l. Left(j) /\ (enq[j] = "none" => jobStatus[j] = "none")
    BY DEF Calm, Basics, JobOK
  <2>m. UNCHANGED main => main'[<<j, TRUE>>] = 0 /\ main'[<<j, FALSE>>] = 0
    BY <1>3
  <2>1. CASE CreateJob(j)
    <3>1. /\ enq'[j] = "created" /\ jobStatus'[j] = "queued" /\ fileStatus' = fileStatus
          /\ enq[j] = "none" /\ UNCHANGED main
      BY <2>1, <1>t DEF CreateJob, TypeOK, queues
    <3>2. QED
      BY <2>l, <2>m, <3>1 DEF Left, At
  <2>2. CASE Enqueue(j)
    <3>1. /\ enq[j] = "created" /\ enq'[j] = "enqueued" /\ UNCHANGED <<jobStatus, fileStatus>>
          /\ main' = [main EXCEPT ![<<j, FALSE>>] = main[<<j, FALSE>>] + 1]
      BY <2>2, <1>t DEF Enqueue, TypeOK, tables
    <3>2. main'[<<j, TRUE>>] = 0 /\ main'[<<j, FALSE>>] = 1
      <4>1. /\ main' = [main EXCEPT ![<<j, FALSE>>] = 1] /\ j \in Bodies
            /\ main[<<j, TRUE>>] = 0
        BY <1>t, <1>3, <3>1
      <4>2. QED
        BY <1>t, <4>1, MainElsewhere
    <3>3. QED
      BY <2>l, <3>1, <3>2 DEF Left, At, Agreed, Settles
  <2>3. CASE EnqueueLost(j)
    <3>1. /\ enq[j] = "created" /\ enq'[j] = "enqueued" /\ UNCHANGED <<jobStatus, fileStatus, main>>
      BY <2>3, <1>t DEF EnqueueLost, TypeOK, tables, queues
    <3>2. QED
      BY <2>l, <2>m, <3>1 DEF Left, At, Agreed, Settles
  <2>4. CASE EnqueueRefused(j)
    <3>1. /\ enq[j] = "created" /\ enq'[j] = "markJob" /\ UNCHANGED <<jobStatus, fileStatus, main>>
      BY <2>4, <1>t DEF EnqueueRefused, TypeOK, tables, queues
    <3>2. QED
      BY <2>l, <2>m, <3>1 DEF Left, At
  <2>5. CASE MarkEnqueueFailed(j)
    <3>1. UNCHANGED main
      BY <2>5 DEF MarkEnqueueFailed, queues
    <3>2. \/ /\ enq[j] = "markJob" /\ enq'[j] = "markFile"
             /\ jobStatus'[j] = "failed" /\ fileStatus' = fileStatus
          \/ /\ enq[j] = "markFile" /\ enq'[j] = "refused"
             /\ jobStatus' = jobStatus /\ fileStatus'[FileOf[j]] = "failed"
      BY <1>d, <1>t, <2>5, TablesAssumption DEF MarkEnqueueFailed, TypeOK
    <3>3. QED
      BY <2>l, <2>m, <3>1, <3>2 DEF Left, At
  <2>6. CASE ApiCrash(j)
    <3>1. enq'[j] = "abandoned" /\ UNCHANGED main
      BY <2>6, <1>t DEF ApiCrash, TypeOK, queues
    <3>2. QED
      BY <2>m, <3>1 DEF Left
  <2>7. QED
    BY <1>d, <2>1, <2>2, <2>3, <2>4, <2>5, <2>6 DEF Api
<1>8. OneCopy(j)'
  <2>1. \A w \in Workers : ~Holds(w, j)'
    BY <1>1, <1>2 DEF Holds
  <2>2. retry'[j] = 0 /\ 0 + 0 = 0 /\ 1 + 0 = 1
    BY <1>1, <1>3
  <2>3. QED
    BY <1>7, <2>1, <2>2 DEF OneCopy
<1>9. QED
  BY <1>1, <1>5, <1>6, <1>7, <1>8 DEF Calm

(* As long as nothing has disturbed a worker, its session or the database. *)
CalmSoFar == Basics /\ (Undisturbed => Calm)

LEMMA CalmStep == OneJobEach => (CalmSoFar /\ [Next]_vars => CalmSoFar')
<1> SUFFICES ASSUME OneJobEach, CalmSoFar, [Next]_vars
             PROVE  CalmSoFar'
  OBVIOUS
<1>1. Basics /\ TypeOK /\ Basics'
  BY BasicsStep DEF CalmSoFar, Basics
<1>2. ASSUME Undisturbed'
      PROVE  Calm'
  <2>1. CASE UNCHANGED vars
    <3>1. /\ Undisturbed
          /\ UNCHANGED <<jobStatus, fileStatus, main, retry, pc, job, mode, enq>>
      BY <1>2, <2>1 DEF Undisturbed, vars, tables, queues, locals
    <3>2. Calm
      BY <3>1 DEF CalmSoFar
    <3>3. \A j \in Jobs : Left(j)' /\ OneCopy(j)'
      BY <3>1, <3>2, CalmElsewhere DEF Holds, Handles
    <3>4. QED
      BY <3>1, <3>2, <3>3 DEF Calm, Found
  <2>2. CASE Next
    <3>1. Undisturbed
      <4>1. ASSUME NEW k \in {"crash", "drop", "stop", "db", "answer", "duplicate"}
            PROVE  spent[k] = 0
        <5>1. k \in Faults /\ spent[k] \in Nat /\ spent'[k] = 0
          BY <1>1, <1>2 DEF Undisturbed, Faults, TypeOK
        <5>2. spent'[k] >= spent[k]
          BY <1>1, <2>2, <5>1, SpentGrows
        <5>3. QED
          BY <5>1, <5>2
      <4>2. QED
        BY <4>1 DEF Undisturbed
    <3>2. Calm
      BY <3>1 DEF CalmSoFar
    <3>3. QED
      BY <1>1, <1>2, <2>2, <3>2, CalmApi, CalmBroker, CalmProcess, CalmGoroutine DEF Next
  <2>3. QED
    BY <2>1, <2>2
<1>3. QED
  BY <1>1, <1>2 DEF CalmSoFar

LEMMA CalmAlways ==
  ASSUME OneJobEach
  PROVE  Spec => []CalmSoFar
<1>1. Init => CalmSoFar
  BY BasicsInit, CalmInit DEF CalmSoFar
<1>2. CalmSoFar /\ [Next]_vars => CalmSoFar'
  BY CalmStep
<1>3. QED
  BY <1>1, <1>2, PTL DEF Spec

(* A parked message never belongs to a job or a file that still reports    *)
(* the failure of the attempt before it: Requeue comes before the publish. *)
THEOREM RetriesWait ==
  ASSUME OneJobEach
  PROVE  Spec => []RetryIsWaiting
<1>1. CalmSoFar => RetryIsWaiting
  <2> SUFFICES ASSUME CalmSoFar, Undisturbed, NEW j \in Jobs, retry[j] > 0
               PROVE  At(j, "queued", "ready")
    BY DEF RetryIsWaiting, At
  <2>1. main[<<j, FALSE>>] \in Nat /\ retry[j] \in Nat
    BY DEF CalmSoFar, Basics, TypeOK, Bodies
  <2>2. OneCopy(j)
    BY DEF CalmSoFar, Calm
  <2>3. main[<<j, FALSE>>] + retry[j] = 1
    BY <2>1, <2>2 DEF OneCopy
  <2>4. QED
    BY <2>2, <2>3 DEF OneCopy
<1>2. QED
  BY <1>1, CalmAlways, PTL

(* Convert writes the file and the job in two calls, and Requeue both in   *)
(* one transaction: between deliveries the rows tell the same story.       *)
THEOREM RowsTellTheSame ==
  ASSUME OneJobEach
  PROVE  Spec => []RowsAgree
<1>1. CalmSoFar => RowsAgree
  <2> SUFFICES ASSUME CalmSoFar, Undisturbed, NEW j \in Jobs, enq[j] \in {"enqueued", "refused"},
                      \A w \in Workers : ~Handles(w, j, Converting \cup {"requeue"})
               PROVE  fileStatus[FileOf[j]] = IF jobStatus[j] = "queued" THEN "ready"
                                              ELSE jobStatus[j]
    BY DEF RowsAgree
  <2>1. Left(j)
    BY DEF CalmSoFar, Calm
  <2>2. Agreed(j) \/ At(j, "failed", "failed")
    BY <2>1 DEF Left, Busy
  <2>3. QED
    BY <2>2 DEF Agreed, Settles, At
<1>2. QED
  BY <1>1, CalmAlways, PTL

-----------------------------------------------------------------------------
(* What attempts are charged to.  Every claim uses up a copy of the job's  *)
(* message, but for those of a goroutine that may still put it back; so    *)
(* attempts and copies together grow only when a copy is added, by the API *)
(* (once), by a duplicate, or by a crash for each of the goroutines.  A    *)
(* link that drops leaves its goroutines running beside the copies they    *)
(* hold, a stop does so once the channel closes, and a lost answer leaves  *)
(* the claim on the row and the copy with it: each of the three may cost a *)
(* claim that AttemptsAccounted does not count.                            *)
NoStrayCopies == \A k \in {"drop", "stop", "answer"} : Budget[k] = 0

(* The goroutines whose copy of j may be claimed, once more or at all.     *)
Pending(j) ==
  {w \in Workers :
     /\ job[w] = j
     /\ \/ pc[w] \in {"delivered", "requeue", "publishRetry"}
        \/ pc[w] \in Converting /\ attempt[w] < MaxAttempts}

(* The copies of j there are, and the one the API has not published yet.   *)
Copies(j) ==
  main[<<j, FALSE>>] + main[<<j, TRUE>>] + retry[j] + Cardinality(Pending(j))
    + IF enq[j] = "enqueued" THEN 0 ELSE 1

Reached(j) == IF attempts[j] < MaxAttempts THEN MaxAttempts - 1 ELSE attempts[j]

Allowance ==
  MaxAttempts + spent["duplicate"] + Cardinality(Workers) * spent["crash"]

Accounted ==
  /\ \A p \in Procs : mode[p] \in {"consuming", "down"}
  /\ \A j \in Jobs : Reached(j) + Copies(j) <= Allowance

LEMMA PendingCounts ==
  ASSUME NEW j
  PROVE  IsFiniteSet(Pending(j)) /\ Cardinality(Pending(j)) \in Nat
<1>1. Pending(j) \subseteq Workers
  BY DEF Pending
<1>2. QED
  BY <1>1, WorkersAssumption, FS_Subset, FS_CardinalityType

LEMMA CountsOK ==
  ASSUME TypeOK, NEW j \in Jobs
  PROVE  /\ main[<<j, FALSE>>] \in Nat /\ main[<<j, TRUE>>] \in Nat /\ retry[j] \in Nat
         /\ Cardinality(Pending(j)) \in Nat
         /\ attempts[j] \in Nat /\ MaxAttempts \in Nat \ {0}
         /\ Reached(j) \in Nat /\ Copies(j) \in Nat
<1>1. /\ main[<<j, FALSE>>] \in Nat /\ main[<<j, TRUE>>] \in Nat /\ retry[j] \in Nat
      /\ attempts[j] \in Nat /\ MaxAttempts \in Nat \ {0}
  BY AttemptsAssumption DEF TypeOK, Bodies
<1>2. Cardinality(Pending(j)) \in Nat
  BY PendingCounts
<1>3. Reached(j) \in Nat
  BY <1>1 DEF Reached
<1>4. Copies(j) \in Nat
  BY <1>1, <1>2 DEF Copies
<1>5. QED
  BY <1>1, <1>2, <1>3, <1>4

LEMMA Times ==
  ASSUME NEW n \in Nat, NEW c \in Nat, NEW d \in Nat, d >= c
  PROVE  /\ n * c \in Nat /\ n * d \in Nat
         /\ n * d >= n * c
         /\ d = c + 1 => n * d = n * c + n
<1>1. PICK e \in Nat : d = c + e
  <2>1. d - c \in Nat /\ d = c + (d - c)
    OBVIOUS
  <2>2. QED
    BY <2>1
<1>2. n * (c + e) = n * c + n * e /\ n * e \in Nat /\ n * c \in Nat
  OBVIOUS
<1>3. d = c + 1 => n * d = n * c + n
  OBVIOUS
<1>4. QED
  BY <1>1, <1>2, <1>3

(* What is allowed only grows, with a duplicate or a crash by what it may  *)
(* cost.                                                                   *)
LEMMA AllowanceGrows ==
  ASSUME TypeOK, Next
  PROVE  /\ Allowance \in Nat /\ Allowance' \in Nat
         /\ Allowance' >= Allowance
         /\ Spend("duplicate") => Allowance' = Allowance + 1
         /\ Spend("crash") => Allowance' = Allowance + Cardinality(Workers)
<1>1. /\ spent["duplicate"] \in Nat /\ spent["crash"] \in Nat
      /\ spent'["duplicate"] \in Nat /\ spent'["crash"] \in Nat
      /\ "duplicate" \in Faults /\ "crash" \in Faults /\ MaxAttempts \in Nat
  BY TypeStep, AttemptsAssumption DEF TypeOK, Faults
<1>2. Cardinality(Workers) \in Nat
  BY WorkersAssumption, FS_CardinalityType
<1>3. /\ spent'["duplicate"] >= spent["duplicate"]
      /\ spent'["crash"] >= spent["crash"]
  BY <1>1, SpentGrows
<1>4. /\ Cardinality(Workers) * spent["crash"] \in Nat
      /\ Cardinality(Workers) * spent'["crash"] \in Nat
      /\ Cardinality(Workers) * spent'["crash"] >= Cardinality(Workers) * spent["crash"]
      /\ spent'["crash"] = spent["crash"] + 1 =>
           Cardinality(Workers) * spent'["crash"]
             = Cardinality(Workers) * spent["crash"] + Cardinality(Workers)
  BY <1>1, <1>2, <1>3, Times
<1>5. Allowance' = MaxAttempts + spent'["duplicate"] + Cardinality(Workers) * spent'["crash"]
  BY DEF Allowance
<1>6. /\ Spend("duplicate") => /\ spent'["duplicate"] = spent["duplicate"] + 1
                               /\ spent'["crash"] = spent["crash"]
      /\ Spend("crash") => /\ spent'["crash"] = spent["crash"] + 1
                           /\ spent'["duplicate"] = spent["duplicate"]
  BY <1>1 DEF Spend, TypeOK
<1> DEFINE m == Cardinality(Workers) * spent["crash"]
           n == Cardinality(Workers) * spent'["crash"]
           c == Cardinality(Workers)
<1>7. /\ Allowance = MaxAttempts + spent["duplicate"] + m
      /\ Allowance' = MaxAttempts + spent'["duplicate"] + n
      /\ m \in Nat /\ n \in Nat /\ n >= m
      /\ spent'["crash"] = spent["crash"] + 1 => n = m + c
      /\ spent'["crash"] = spent["crash"] => n = m
  BY <1>4, <1>5 DEF Allowance
<1> HIDE DEF m, n, c
<1>8. QED
  <2>1. /\ Spend("duplicate") => Allowance' = Allowance + 1
        /\ Spend("crash") => Allowance' = Allowance + c
    BY <1>1, <1>2, <1>6, <1>7 DEF c
  <2>2. QED
    BY <1>1, <1>3, <1>7, <2>1 DEF c

(* How the count moves when one goroutine alone does.                      *)
LEMMA PendingMoves ==
  ASSUME NEW w \in Workers, NEW j,
         \A v \in Workers : v # w => /\ pc'[v] = pc[v] /\ job'[v] = job[v]
                                     /\ attempt'[v] = attempt[v]
  PROVE  /\ Cardinality(Pending(j)') \in Nat
         /\ Cardinality(Pending(j)') <= Cardinality(Pending(j)) + 1
         /\ (w \in Pending(j)' => w \in Pending(j)) =>
              Cardinality(Pending(j)') <= Cardinality(Pending(j))
         /\ w \in Pending(j) /\ w \notin Pending(j)' =>
              Cardinality(Pending(j)') <= Cardinality(Pending(j)) - 1
<1> DEFINE P == Pending(j)
           Q == Pending(j)'
<1>1. IsFiniteSet(P) /\ Cardinality(P) \in Nat
  BY PendingCounts
<1>2. Q \subseteq P \cup {w} /\ (w \in Q => w \in P) => Q \subseteq P
  OBVIOUS
<1>3. \A v \in Workers : v # w => (v \in Q <=> v \in P)
  BY DEF Pending
<1>4. P \subseteq Workers /\ Q \subseteq Workers
  BY DEF Pending
<1>5. Q \subseteq P \cup {w}
  BY <1>3, <1>4
<1> HIDE DEF P, Q
<1>6. /\ IsFiniteSet(P \cup {w}) /\ Cardinality(P \cup {w}) \in Nat
      /\ Cardinality(P \cup {w}) <= Cardinality(P) + 1
  BY <1>1, FS_AddElement, FS_CardinalityType
<1>7. Cardinality(Q) \in Nat /\ Cardinality(Q) <= Cardinality(P \cup {w})
  BY <1>5, <1>6, FS_Subset, FS_CardinalityType
<1>8. ASSUME w \in Q => w \in P
      PROVE  Cardinality(Q) <= Cardinality(P)
  BY <1>1, <1>2, <1>5, <1>8, FS_Subset
<1>9. ASSUME w \in P, w \notin Q
      PROVE  Cardinality(Q) <= Cardinality(P) - 1
  <2>1. Q \subseteq P \ {w}
    BY <1>5, <1>9
  <2>2. /\ IsFiniteSet(P \ {w}) /\ Cardinality(P \ {w}) = Cardinality(P) - 1
    BY <1>1, <1>9, FS_RemoveElement
  <2>3. QED
    BY <2>1, <2>2, FS_Subset
<1>10. QED
  BY <1>1, <1>6, <1>7, <1>8, <1>9 DEF P, Q

LEMMA CopiesAre ==
  ASSUME TypeOK, NEW j \in Jobs
  PROVE  \E e \in Nat : /\ e = IF enq[j] = "enqueued" THEN 0 ELSE 1
                        /\ Copies(j) = main[<<j, FALSE>>] + main[<<j, TRUE>>] + retry[j]
                                          + Cardinality(Pending(j)) + e
BY DEF Copies

LEMMA CopiesBecome ==
  ASSUME TypeOK', NEW j \in Jobs
  PROVE  /\ main'[<<j, FALSE>>] \in Nat /\ main'[<<j, TRUE>>] \in Nat /\ retry'[j] \in Nat
         /\ Cardinality(Pending(j)') \in Nat
         /\ \E e \in Nat : /\ e = IF enq'[j] = "enqueued" THEN 0 ELSE 1
                           /\ Copies(j)' = main'[<<j, FALSE>>] + main'[<<j, TRUE>>] + retry'[j]
                                              + Cardinality(Pending(j)') + e
<1>1. /\ main'[<<j, FALSE>>] \in Nat /\ main'[<<j, TRUE>>] \in Nat /\ retry'[j] \in Nat
  BY DEF TypeOK, Bodies
<1>2. Cardinality(Pending(j)') \in Nat
  <2>1. Pending(j)' \subseteq Workers
    BY DEF Pending
  <2>2. QED
    BY <2>1, WorkersAssumption, FS_Subset, FS_CardinalityType
<1>3. QED
  BY <1>1, <1>2 DEF Copies

(* What the queues hold of j and the goroutines that may use it balance.   *)
LEMMA CopiesMove ==
  ASSUME TypeOK, TypeOK', NEW j \in Jobs, enq'[j] = enq[j], NEW d \in Int,
         main'[<<j, FALSE>>] + main'[<<j, TRUE>>] + retry'[j] + Cardinality(Pending(j)')
           <= main[<<j, FALSE>>] + main[<<j, TRUE>>] + retry[j] + Cardinality(Pending(j)) + d
  PROVE  Copies(j)' <= Copies(j) + d
<1>1. PICK e \in Nat : /\ e = IF enq[j] = "enqueued" THEN 0 ELSE 1
                       /\ Copies(j) = main[<<j, FALSE>>] + main[<<j, TRUE>>] + retry[j]
                                         + Cardinality(Pending(j)) + e
  BY CopiesAre
<1>2. Copies(j)' = main'[<<j, FALSE>>] + main'[<<j, TRUE>>] + retry'[j]
                     + Cardinality(Pending(j)') + e
  BY <1>1, CopiesBecome
<1>3. /\ main[<<j, FALSE>>] \in Nat /\ main[<<j, TRUE>>] \in Nat /\ retry[j] \in Nat
      /\ Cardinality(Pending(j)) \in Nat
  BY CountsOK
<1>4. /\ main'[<<j, FALSE>>] \in Nat /\ main'[<<j, TRUE>>] \in Nat /\ retry'[j] \in Nat
      /\ Cardinality(Pending(j)') \in Nat
  BY CopiesBecome
<1>5. QED
  BY <1>1, <1>2, <1>3, <1>4

LEMMA CountsOKNext ==
  ASSUME TypeOK', NEW j \in Jobs
  PROVE  /\ attempts'[j] \in Nat
         /\ Reached(j)' = IF attempts'[j] < MaxAttempts THEN MaxAttempts - 1 ELSE attempts'[j]
         /\ Reached(j)' \in Nat /\ Copies(j)' \in Nat
<1>1. attempts'[j] \in Nat /\ MaxAttempts \in Nat \ {0}
  BY AttemptsAssumption DEF TypeOK
<1>2. Reached(j)' = IF attempts'[j] < MaxAttempts THEN MaxAttempts - 1 ELSE attempts'[j]
  BY DEF Reached
<1>3. Copies(j)' \in Nat
  <2>1. PICK e \in Nat : Copies(j)' = main'[<<j, FALSE>>] + main'[<<j, TRUE>>] + retry'[j]
                                       + Cardinality(Pending(j)') + e
    BY CopiesBecome
  <2>2. /\ main'[<<j, FALSE>>] \in Nat /\ main'[<<j, TRUE>>] \in Nat /\ retry'[j] \in Nat
        /\ Cardinality(Pending(j)') \in Nat
    BY CopiesBecome
  <2>3. QED
    BY <2>1, <2>2
<1>4. QED
  BY <1>1, <1>2, <1>3

(* A goroutine goes on to its next call, and brings no copy into being.    *)
LEMMA AccountedMove ==
  ASSUME TypeOK, TypeOK', NEW w \in Workers, NEW j \in Jobs,
         \A v \in Workers : v # w => /\ pc'[v] = pc[v] /\ job'[v] = job[v]
                                     /\ attempt'[v] = attempt[v],
         w \in Pending(j)' => w \in Pending(j),
         UNCHANGED <<main, retry, enq>>, attempts'[j] = attempts[j]
  PROVE  Reached(j)' + Copies(j)' <= Reached(j) + Copies(j)
<1>1. Reached(j)' = Reached(j)
  BY DEF Reached
<1>2. Cardinality(Pending(j)') <= Cardinality(Pending(j)) /\ Cardinality(Pending(j)') \in Nat
  BY PendingMoves
<1>c. /\ main[<<j, FALSE>>] \in Nat /\ main[<<j, TRUE>>] \in Nat /\ retry[j] \in Nat
      /\ Cardinality(Pending(j)) \in Nat /\ Reached(j) \in Nat /\ Copies(j) \in Nat
      /\ Copies(j)' \in Nat
  BY CountsOK, CountsOKNext
<1>3. Copies(j)' <= Copies(j) + 0
  <2>1. /\ main'[<<j, FALSE>>] = main[<<j, FALSE>>] /\ main'[<<j, TRUE>>] = main[<<j, TRUE>>]
        /\ retry'[j] = retry[j] /\ enq'[j] = enq[j] /\ 0 \in Int
    OBVIOUS
  <2>2. main'[<<j, FALSE>>] + main'[<<j, TRUE>>] + retry'[j] + Cardinality(Pending(j)')
          <= main[<<j, FALSE>>] + main[<<j, TRUE>>] + retry[j] + Cardinality(Pending(j)) + 0
    BY <1>2, <1>c, <2>1
  <2>3. QED
    BY <2>1, <2>2, CopiesMove
<1>4. QED
  BY <1>1, <1>3, <1>c

LEMMA AccountedWrite ==
  ASSUME TypeOK, TypeOK', NEW w \in Workers, NEW j \in Jobs, NEW from,
         NEW newJobs, NEW newFiles, NEW next, NEW onError,
         \/ /\ from \in Converting
            /\ {next, onError} \subseteq Converting \cup {"ack", AfterFailure(w)}
         \/ from = "requeue" /\ next = "publishRetry" /\ onError = "publishRetry",
         Write(w, from, newJobs, newFiles, next, onError)
  PROVE  Reached(j)' + Copies(j)' <= Reached(j) + Copies(j)
<1>1. /\ pc[w] = from /\ pc'[w] \in {next, onError}
      /\ UNCHANGED <<attempts, main, retry, job, attempt, enq>>
      /\ \A v \in Workers : v # w => pc'[v] = pc[v]
  BY DEF Write, Goto, queues, TypeOK
<1>2. AfterFailure(w) = "publishDead" \/ (AfterFailure(w) = "requeue" /\ attempt[w] < MaxAttempts)
  BY AttemptsAssumption DEF AfterFailure, TypeOK
<1>3. w \in Pending(j)' => w \in Pending(j)
  BY <1>1, <1>2 DEF Pending, Converting
<1>4. QED
  BY <1>1, <1>3, AccountedMove

LEMMA AccountedClaim ==
  ASSUME TypeOK, TypeOK', NoStrayCopies, NEW w \in Workers, ~Cancelled(w), Claim(w), NEW j \in Jobs
  PROVE  Reached(j)' + Copies(j)' <= Reached(j) + Copies(j)
<1>1. /\ pc[w] = "delivered" /\ job[w] \in Jobs
      /\ UNCHANGED <<main, retry, job, enq>>
  BY DEF Claim, queues
<1>2. PICK answer \in Answers(w) :
        /\ IF Claimable(job[w], redelivered[w]) /\ answer # "error"
           THEN /\ jobStatus' = [jobStatus EXCEPT ![job[w]] = "converting"]
                /\ attempts' = [attempts EXCEPT ![job[w]] = @ + 1]
           ELSE UNCHANGED <<jobStatus, attempts>>
        /\ IF Claimable(job[w], redelivered[w]) /\ answer = "ok"
           THEN attempt' = [attempt EXCEPT ![w] = attempts[job[w]] + 1]
           ELSE UNCHANGED attempt
        /\ Goto(w, IF answer # "ok" THEN "publishRetry"
                   ELSE IF Claimable(job[w], redelivered[w]) THEN "markFile" ELSE "ack")
  BY DEF Claim
<1>3. answer \in {"ok", "error"}
  <2>1. answer \in {"ok", "error"} \/ (answer = "lost" /\ MayFail("answer"))
    BY <1>2 DEF Answers, FaultOf
  <2>2. spent["answer"] \in Nat /\ Budget["answer"] = 0
    BY DEF TypeOK, Faults, NoStrayCopies
  <2>3. ~MayFail("answer")
    BY <2>2 DEF MayFail
  <2>4. QED
    BY <2>1, <2>3
<1>4. \A v \in Workers : v # w => /\ pc'[v] = pc[v] /\ job'[v] = job[v]
                                  /\ attempt'[v] = attempt[v]
  BY <1>1, <1>2 DEF Goto, TypeOK
<1>5. CASE j # job[w]
  <2>1. attempts'[j] = attempts[j]
    BY <1>1, <1>2, <1>5 DEF TypeOK
  <2>2. w \notin Pending(j)'
    BY <1>1, <1>5 DEF Pending
  <2>3. QED
    BY <1>1, <1>4, <2>1, <2>2, AccountedMove
<1>6. CASE j = job[w] /\ ~(Claimable(job[w], redelivered[w]) /\ answer = "ok")
  <2>1. attempts' = attempts
    BY <1>2, <1>3, <1>6
  <2>2. w \in Pending(j)
    BY <1>1, <1>6 DEF Pending
  <2>3. QED
    BY <1>1, <1>4, <2>1, <2>2, AccountedMove
<1>7. CASE j = job[w] /\ Claimable(job[w], redelivered[w]) /\ answer = "ok"
  <2>1. /\ attempts'[j] = attempts[j] + 1 /\ attempt'[w] = attempts[j] + 1
        /\ pc'[w] = "markFile"
    BY <1>1, <1>2, <1>7 DEF Goto, TypeOK
  <2>2. w \in Pending(j)
    BY <1>1, <1>7 DEF Pending
  <2>3. w \in Pending(j)' => attempts[j] + 1 < MaxAttempts
    BY <2>1 DEF Pending, Converting
  <2>4. /\ Cardinality(Pending(j)') \in Nat
        /\ Cardinality(Pending(j)') <= Cardinality(Pending(j))
        /\ w \notin Pending(j)' => Cardinality(Pending(j)') <= Cardinality(Pending(j)) - 1
    BY <1>4, <2>2, PendingMoves
  <2>c. /\ main[<<j, FALSE>>] \in Nat /\ main[<<j, TRUE>>] \in Nat /\ retry[j] \in Nat
        /\ Cardinality(Pending(j)) \in Nat /\ Reached(j) \in Nat /\ Copies(j) \in Nat
        /\ attempts[j] \in Nat /\ MaxAttempts \in Nat \ {0} /\ Copies(j)' \in Nat
    BY CountsOK, CountsOKNext
  <2>5. ASSUME NEW d \in {0, -1}, Cardinality(Pending(j)') <= Cardinality(Pending(j)) + d
        PROVE  Copies(j)' <= Copies(j) + d
    <3>1. /\ main'[<<j, FALSE>>] = main[<<j, FALSE>>] /\ main'[<<j, TRUE>>] = main[<<j, TRUE>>]
          /\ retry'[j] = retry[j] /\ enq'[j] = enq[j] /\ d \in Int
      BY <1>1
    <3>2. main'[<<j, FALSE>>] + main'[<<j, TRUE>>] + retry'[j] + Cardinality(Pending(j)')
            <= main[<<j, FALSE>>] + main[<<j, TRUE>>] + retry[j] + Cardinality(Pending(j)) + d
      BY <2>4, <2>5, <2>c, <3>1
    <3>3. QED
      BY <3>1, <3>2, CopiesMove
  <2>6. /\ Reached(j)' = IF attempts[j] + 1 < MaxAttempts THEN MaxAttempts - 1 ELSE attempts[j] + 1
        /\ Reached(j) = IF attempts[j] < MaxAttempts THEN MaxAttempts - 1 ELSE attempts[j]
    BY <2>1 DEF Reached
  <2>7. CASE attempts[j] + 1 < MaxAttempts
    <3>1. Reached(j)' = Reached(j)
      BY <2>6, <2>7, <2>c
    <3>2. Copies(j)' <= Copies(j) + 0
      BY <2>4, <2>5, <2>c
    <3>3. QED
      BY <3>1, <3>2, <2>c
  <2>8. CASE ~(attempts[j] + 1 < MaxAttempts)
    <3>1. Reached(j)' = Reached(j) + 1
      BY <2>6, <2>8, <2>c
    <3>2. w \notin Pending(j)'
      BY <2>3, <2>8
    <3>3. Copies(j)' <= Copies(j) + (-1)
      <4>1. Cardinality(Pending(j)') <= Cardinality(Pending(j)) + (-1)
        BY <2>4, <2>c, <3>2
      <4>2. QED
        BY <2>5, <4>1
    <3>4. QED
      BY <3>1, <3>3, <2>c
  <2>9. QED
    BY <2>7, <2>8
<1>8. QED
  BY <1>5, <1>6, <1>7

LEMMA AccountedGoroutine ==
  ASSUME TypeOK, TypeOK', NoStrayCopies, NEW w \in Workers, ~Cancelled(w), Goroutine(w), NEW j \in Jobs
  PROVE  Reached(j)' + Copies(j)' <= Reached(j) + Copies(j)
<1> DEFINE Goal == Reached(j)' + Copies(j)' <= Reached(j) + Copies(j)
<1>1. ASSUME Undecodable(w) \/ Produce(w) \/ PublishDead(w)
      PROVE  Goal
  <2>1. /\ UNCHANGED <<attempts, main, retry, job, attempt, enq>>
        /\ \A v \in Workers : v # w => pc'[v] = pc[v]
        /\ \/ pc[w] \in Converting /\ pc'[w] \in Converting
           \/ pc'[w] \in {"publishDead", "ack"}
    BY <1>1 DEF Undecodable, Produce, PublishDead, Goto, Converting, TypeOK, tables, queues
  <2>2. w \in Pending(j)' => w \in Pending(j)
    BY <2>1 DEF Pending, Converting
  <2>3. QED
    BY <2>1, <2>2, AccountedMove
<1>2. ASSUME Ack(w)
      PROVE  Goal
  <2>1. /\ UNCHANGED <<attempts, main, retry, enq>>
        /\ pc'[w] = Idle
        /\ \A v \in Workers : v # w => /\ pc'[v] = pc[v] /\ job'[v] = job[v]
                                       /\ attempt'[v] = attempt[v]
    BY <1>2 DEF Ack, Forget, tables, queues
  <2>2. w \notin Pending(j)'
    BY <2>1 DEF Pending, Converting, Idle
  <2>3. QED
    BY <2>1, <2>2, AccountedMove
<1>3. ASSUME PublishRetry(w)
      PROVE  Goal
  <2>1. /\ UNCHANGED <<attempts, main, job, attempt, enq>>
        /\ pc[w] = "publishRetry" /\ pc'[w] = "ack"
        /\ \A v \in Workers : v # w => pc'[v] = pc[v]
    BY <1>3 DEF PublishRetry, Goto, tables, TypeOK
  <2>2. PICK n \in {0, 1} : retry' = [retry EXCEPT ![job[w]] = @ + n]
    BY <1>3 DEF PublishRetry, Sent
  <2>3. w \notin Pending(j)'
    BY <2>1 DEF Pending, Converting
  <2>c. /\ main[<<j, FALSE>>] \in Nat /\ main[<<j, TRUE>>] \in Nat /\ retry[j] \in Nat
        /\ Cardinality(Pending(j)) \in Nat /\ Reached(j) \in Nat /\ Copies(j) \in Nat
        /\ Copies(j)' \in Nat
    BY CountsOK, CountsOKNext
  <2>4. /\ retry'[j] + Cardinality(Pending(j)') <= retry[j] + Cardinality(Pending(j))
        /\ retry'[j] \in Nat /\ Cardinality(Pending(j)') \in Nat
    <3>1. CASE j # job[w]
      <4>1. retry'[j] = retry[j]
        BY <2>2, <3>1 DEF TypeOK, Bodies
      <4>2. /\ Cardinality(Pending(j)') \in Nat
            /\ Cardinality(Pending(j)') <= Cardinality(Pending(j))
        BY <2>1, <2>3, PendingMoves
      <4>3. QED
        BY <2>c, <4>1, <4>2
    <3>2. CASE j = job[w]
      <4>1. retry'[j] = retry[j] + n
        BY <2>2, <3>2 DEF TypeOK, Bodies
      <4>2. w \in Pending(j)
        BY <2>1, <3>2 DEF Pending
      <4>3. /\ Cardinality(Pending(j)') \in Nat
            /\ Cardinality(Pending(j)') <= Cardinality(Pending(j)) - 1
        BY <2>1, <2>3, <4>2, PendingMoves
      <4>4. QED
        BY <2>c, <4>1, <4>3
    <3>3. QED
      BY <3>1, <3>2
  <2>5. Copies(j)' <= Copies(j) + 0
    <3>1. main'[<<j, FALSE>>] + main'[<<j, TRUE>>] + retry'[j] + Cardinality(Pending(j)')
            <= main[<<j, FALSE>>] + main[<<j, TRUE>>] + retry[j] + Cardinality(Pending(j)) + 0
      BY <2>1, <2>4, <2>c
    <3>2. enq'[j] = enq[j] /\ 0 \in Int
      BY <2>1
    <3>3. QED
      BY <3>1, <3>2, CopiesMove
  <2>6. Reached(j)' = Reached(j)
    BY <2>1 DEF Reached
  <2>7. QED
    BY <2>5, <2>6, <2>c
<1>4. Claim(w) => Goal
  BY AccountedClaim
<1>5. MarkFileConverting(w) => Goal
  BY AccountedWrite DEF MarkFileConverting, Converting
<1>6. MarkJobConverting(w) => Goal
  BY AccountedWrite DEF MarkJobConverting, Converting
<1>7. MarkFileConverted(w) => Goal
  BY AccountedWrite DEF MarkFileConverted, Converting
<1>8. MarkJobConverted(w) => Goal
  BY AccountedWrite DEF MarkJobConverted, Converting
<1>9. MarkFileFailed(w) => Goal
  BY AccountedWrite DEF MarkFileFailed, Converting
<1>10. MarkJobFailed(w) => Goal
  BY AccountedWrite DEF MarkJobFailed, Converting
<1>11. Requeue(w) => Goal
  BY AccountedWrite DEF Requeue
<1> HIDE DEF Goal
<1>12. Goal
  BY <1>1, <1>2, <1>3, <1>4, <1>5, <1>6, <1>7, <1>8, <1>9, <1>10, <1>11 DEF Goroutine
<1>13. QED
  BY <1>12 DEF Goal

(* The API publishes the copy it owes, or something publishes one more.    *)
LEMMA AccountedApi ==
  ASSUME TypeOK, TypeOK', NEW i \in Jobs, Api(i), NEW j \in Jobs
  PROVE  \/ Reached(j)' + Copies(j)' <= Reached(j) + Copies(j)
         \/ Spend("duplicate") /\ Reached(j)' + Copies(j)' <= Reached(j) + Copies(j) + 1
<1>p. Jobs \subseteq Bodies
  BY DEF Bodies
<1>c. /\ main[<<j, FALSE>>] \in Nat /\ main[<<j, TRUE>>] \in Nat /\ retry[j] \in Nat
      /\ Cardinality(Pending(j)) \in Nat /\ Reached(j) \in Nat /\ Copies(j) \in Nat
      /\ Copies(j)' \in Nat
  BY CountsOK, CountsOKNext
<1>1. UNCHANGED <<attempts, retry, pc, job, attempt>>
  BY DEF Api, CreateJob, Enqueue, EnqueueLost, EnqueueRefused, MarkEnqueueFailed, ApiCrash,
     DuplicatePublish, tables, queues, locals
<1>2. Reached(j)' = Reached(j) /\ Pending(j)' = Pending(j)
  BY <1>1 DEF Reached, Pending
<1>a. PICK e \in Nat : /\ e = IF enq[j] = "enqueued" THEN 0 ELSE 1
                       /\ Copies(j) = main[<<j, FALSE>>] + main[<<j, TRUE>>] + retry[j]
                                         + Cardinality(Pending(j)) + e
  BY CopiesAre
<1>b. PICK f \in Nat : /\ f = IF enq'[j] = "enqueued" THEN 0 ELSE 1
                       /\ Copies(j)' = main'[<<j, FALSE>>] + main'[<<j, TRUE>>] + retry'[j]
                                          + Cardinality(Pending(j)') + f
  BY CopiesBecome
<1>3. CASE Enqueue(i) \/ DuplicatePublish(i)
  <2>1. main' = [main EXCEPT ![<<i, FALSE>>] = main[<<i, FALSE>>] + 1]
    BY <1>3 DEF Enqueue, DuplicatePublish
  <2>2. /\ main'[<<j, TRUE>>] = main[<<j, TRUE>>]
        /\ j # i => main'[<<j, FALSE>>] = main[<<j, FALSE>>]
        /\ j = i => main'[<<j, FALSE>>] = main[<<j, FALSE>>] + 1
    BY <1>p, <2>1, MainElsewhere
  <2>3. CASE j # i
    <3>1. f = e
      BY <1>3, <1>a, <1>b, <2>3 DEF Enqueue, DuplicatePublish, TypeOK
    <3>2. Copies(j)' = Copies(j)
      BY <1>1, <1>2, <1>a, <1>b, <2>2, <2>3, <3>1
    <3>3. QED
      BY <1>2, <1>c, <3>2
  <2>4. CASE j = i /\ Enqueue(i)
    <3>1. e = 1 /\ f = 0
      BY <1>a, <1>b, <2>4 DEF Enqueue, TypeOK
    <3>2. Copies(j)' = Copies(j)
      BY <1>1, <1>2, <1>a, <1>b, <1>c, <2>2, <2>4, <3>1
    <3>3. QED
      BY <1>2, <1>c, <3>2
  <2>5. CASE j = i /\ DuplicatePublish(i)
    <3>1. e = f /\ Spend("duplicate")
      BY <1>a, <1>b, <2>5 DEF DuplicatePublish
    <3>2. Copies(j)' = Copies(j) + 1
      BY <1>1, <1>2, <1>a, <1>b, <1>c, <2>2, <2>5, <3>1
    <3>3. QED
      BY <1>2, <1>c, <3>1, <3>2
  <2>6. QED
    BY <1>3, <2>3, <2>4, <2>5
<1>4. CASE CreateJob(i) \/ EnqueueLost(i) \/ EnqueueRefused(i) \/ MarkEnqueueFailed(i) \/ ApiCrash(i)
  <2>1. main' = main
    BY <1>4 DEF CreateJob, EnqueueLost, EnqueueRefused, MarkEnqueueFailed, ApiCrash, queues
  <2>2. enq[i] # "enqueued" /\ \A k \in Jobs : k # i => enq'[k] = enq[k]
    BY <1>4 DEF CreateJob, EnqueueLost, EnqueueRefused, MarkEnqueueFailed, ApiCrash, TypeOK
  <2>3. f <= e
    BY <1>a, <1>b, <2>2
  <2>4. Copies(j)' <= Copies(j)
    BY <1>1, <1>2, <1>a, <1>b, <1>c, <2>1, <2>3
  <2>5. QED
    BY <1>2, <1>c, <2>4
<1>5. QED
  BY <1>3, <1>4 DEF Api

LEMMA AccountedBroker ==
  ASSUME TypeOK, TypeOK', NEW j \in Jobs,
         \/ MalformedPublish
         \/ \E b \in Bodies : RetryExpires(b)
         \/ \E w \in Workers, b \in Bodies, r \in BOOLEAN : Deliver(w, b, r)
  PROVE  Reached(j)' + Copies(j)' <= Reached(j) + Copies(j)
<1>p. Jobs \subseteq Bodies /\ NoJob \in Bodies /\ j # NoJob
  BY TablesAssumption DEF Bodies
<1>c. /\ main[<<j, FALSE>>] \in Nat /\ main[<<j, TRUE>>] \in Nat /\ retry[j] \in Nat
      /\ Cardinality(Pending(j)) \in Nat /\ Reached(j) \in Nat /\ Copies(j) \in Nat
      /\ Copies(j)' \in Nat
  BY CountsOK, CountsOKNext
<1>g. ASSUME enq'[j] = enq[j], attempts'[j] = attempts[j],
             main'[<<j, FALSE>>] + main'[<<j, TRUE>>] + retry'[j] + Cardinality(Pending(j)')
               <= main[<<j, FALSE>>] + main[<<j, TRUE>>] + retry[j] + Cardinality(Pending(j)) + 0
      PROVE  Reached(j)' + Copies(j)' <= Reached(j) + Copies(j)
  <2>1. Copies(j)' <= Copies(j) + 0
    <3>1. 0 \in Int
      OBVIOUS
    <3>2. QED
      BY <1>g, <3>1, CopiesMove
  <2>2. Reached(j)' = Reached(j)
    BY <1>g DEF Reached
  <2>3. QED
    BY <1>c, <2>1, <2>2
<1>1. CASE MalformedPublish
  <2>1. /\ UNCHANGED <<attempts, retry, pc, job, attempt, enq>>
        /\ main' = [main EXCEPT ![<<NoJob, FALSE>>] = main[<<NoJob, FALSE>>] + 1]
    BY <1>1 DEF MalformedPublish, tables, locals
  <2>2. main'[<<j, TRUE>>] = main[<<j, TRUE>>] /\ main'[<<j, FALSE>>] = main[<<j, FALSE>>]
    BY <1>p, <2>1, MainElsewhere
  <2>3. Pending(j)' = Pending(j)
    BY <2>1 DEF Pending
  <2>4. QED
    BY <1>c, <1>g, <2>1, <2>2, <2>3
<1>2. ASSUME NEW b \in Bodies, RetryExpires(b)
      PROVE  Reached(j)' + Copies(j)' <= Reached(j) + Copies(j)
  <2>1. /\ UNCHANGED <<attempts, pc, job, attempt, enq>>
        /\ retry' = [retry EXCEPT ![b] = retry[b] - 1]
        /\ main' = [main EXCEPT ![<<b, FALSE>>] = main[<<b, FALSE>>] + 1]
    BY <1>2 DEF RetryExpires, tables, locals
  <2>2. /\ main'[<<j, TRUE>>] = main[<<j, TRUE>>]
        /\ j # b => main'[<<j, FALSE>>] = main[<<j, FALSE>>]
        /\ j = b => main'[<<j, FALSE>>] = main[<<j, FALSE>>] + 1
    BY <1>p, <2>1, MainElsewhere
  <2>3. /\ j # b => retry'[j] = retry[j]
        /\ j = b => retry'[j] = retry[j] - 1
    <3>1. retry \in [Bodies -> Nat]
      BY DEF TypeOK
    <3>2. QED
      BY <1>p, <2>1, <3>1
  <2>4. Pending(j)' = Pending(j)
    BY <2>1 DEF Pending
  <2>5. main'[<<j, FALSE>>] + main'[<<j, TRUE>>] + retry'[j] + Cardinality(Pending(j)')
          <= main[<<j, FALSE>>] + main[<<j, TRUE>>] + retry[j] + Cardinality(Pending(j)) + 0
    BY <1>c, <2>2, <2>3, <2>4
  <2>6. QED
    BY <1>g, <2>1, <2>5
<1>3. ASSUME NEW w \in Workers, NEW b \in Bodies, NEW r \in BOOLEAN, Deliver(w, b, r)
      PROVE  Reached(j)' + Copies(j)' <= Reached(j) + Copies(j)
  <2>1. /\ UNCHANGED <<attempts, retry, attempt, enq>>
        /\ job'[w] = b
        /\ \A v \in Workers : v # w => pc'[v] = pc[v] /\ job'[v] = job[v]
        /\ main[<<b, r>>] > 0
        /\ main' = [main EXCEPT ![<<b, r>>] = main[<<b, r>>] - 1]
    BY <1>3 DEF Deliver, tables, TypeOK
  <2>2. main \in [Bodies \X BOOLEAN -> Nat] /\ <<j, TRUE>> \in Bodies \X BOOLEAN
          /\ <<j, FALSE>> \in Bodies \X BOOLEAN
    BY <1>p DEF TypeOK
  <2>3. CASE j # b
    <3>1. main'[<<j, TRUE>>] = main[<<j, TRUE>>] /\ main'[<<j, FALSE>>] = main[<<j, FALSE>>]
      <4>1. <<j, TRUE>> # <<b, r>> /\ <<j, FALSE>> # <<b, r>>
        BY <2>3
      <4>2. QED
        BY <2>1, <2>2, <4>1
    <3>2. w \notin Pending(j)'
      BY <2>1, <2>3 DEF Pending
    <3>3. /\ Cardinality(Pending(j)') \in Nat
          /\ Cardinality(Pending(j)') <= Cardinality(Pending(j))
      BY <2>1, <3>2, PendingMoves
    <3>4. main'[<<j, FALSE>>] + main'[<<j, TRUE>>] + retry'[j] + Cardinality(Pending(j)')
            <= main[<<j, FALSE>>] + main[<<j, TRUE>>] + retry[j] + Cardinality(Pending(j)) + 0
      <4>1. retry'[j] = retry[j]
        BY <2>1
      <4>2. QED
        BY <1>c, <3>1, <3>3, <4>1
    <3>5. QED
      BY <1>g, <2>1, <3>4
  <2>4. CASE j = b
    <3>1. main'[<<j, FALSE>>] + main'[<<j, TRUE>>] = main[<<j, FALSE>>] + main[<<j, TRUE>>] - 1
      <4>0. <<j, TRUE>> # <<j, FALSE>>
        OBVIOUS
      <4>1. CASE r
        <5>1. <<b, r>> = <<j, TRUE>>
          BY <2>4, <4>1
        <5>2. main' = [main EXCEPT ![<<j, TRUE>>] = main[<<j, TRUE>>] - 1]
          BY <2>1, <5>1
        <5>3. /\ main'[<<j, TRUE>>] = main[<<j, TRUE>>] - 1
              /\ main'[<<j, FALSE>>] = main[<<j, FALSE>>]
          BY <2>2, <4>0, <5>2
        <5>4. QED
          BY <1>c, <5>3
      <4>2. CASE ~r
        <5>1. <<b, r>> = <<j, FALSE>>
          BY <2>4, <4>2
        <5>2. main' = [main EXCEPT ![<<j, FALSE>>] = main[<<j, FALSE>>] - 1]
          BY <2>1, <5>1
        <5>3. /\ main'[<<j, FALSE>>] = main[<<j, FALSE>>] - 1
              /\ main'[<<j, TRUE>>] = main[<<j, TRUE>>]
          BY <2>2, <4>0, <5>2
        <5>4. QED
          BY <1>c, <5>3
      <4>3. QED
        BY <4>1, <4>2
    <3>2. /\ Cardinality(Pending(j)') \in Nat
          /\ Cardinality(Pending(j)') <= Cardinality(Pending(j)) + 1
      BY <2>1, PendingMoves
    <3>3. main'[<<j, FALSE>>] \in Nat /\ main'[<<j, TRUE>>] \in Nat
      BY CopiesBecome
    <3>4. main'[<<j, FALSE>>] + main'[<<j, TRUE>>] + retry'[j] + Cardinality(Pending(j)')
            <= main[<<j, FALSE>>] + main[<<j, TRUE>>] + retry[j] + Cardinality(Pending(j)) + 0
      <4>1. retry'[j] = retry[j]
        BY <2>1
      <4>2. QED
        BY <1>c, <3>1, <3>2, <3>3, <4>1
    <3>5. QED
      BY <1>g, <2>1, <3>4
  <2>5. QED
    BY <2>3, <2>4
<1>4. QED
  BY <1>1, <1>2, <1>3

(* A crash returns a copy for each delivery it cuts off, one a goroutine.  *)
LEMMA AccountedCrash ==
  ASSUME TypeOK, TypeOK', NEW p \in Procs, Crash(p), NEW j \in Jobs
  PROVE  Reached(j)' + Copies(j)' <= Reached(j) + Copies(j) + Cardinality(Workers)
<1> DEFINE S == {w \in Goroutines(p) : unacked[w] /\ job[w] = j}
           n == Cardinality(Workers)
<1>c. /\ main[<<j, FALSE>>] \in Nat /\ main[<<j, TRUE>>] \in Nat /\ retry[j] \in Nat
      /\ Cardinality(Pending(j)) \in Nat /\ Reached(j) \in Nat /\ Copies(j) \in Nat
      /\ Copies(j)' \in Nat
  BY CountsOK, CountsOKNext
<1>1. /\ main'[<<j, FALSE>>] = main[<<j, FALSE>>] + 0
      /\ main'[<<j, TRUE>>] = main[<<j, TRUE>>] + Cardinality(S)
      /\ UNCHANGED <<attempts, retry, enq>>
  BY DEF Crash, Redeliver, Bodies, tables
<1>2. n \in Nat /\ Cardinality(S) \in Nat /\ Cardinality(S) <= n
  <2>1. S \subseteq Workers
    BY DEF Goroutines
  <2> HIDE DEF S
  <2>2. QED
    BY <2>1, WorkersAssumption, FS_Subset, FS_CardinalityType
<1>3. /\ Cardinality(Pending(j)') \in Nat
      /\ Cardinality(Pending(j)') <= Cardinality(Pending(j))
  <2>1. Pending(j)' \subseteq Pending(j)
    <3>1. \A w \in Workers : pc'[w] = Idle \/ (/\ pc'[w] = pc[w] /\ job'[w] = job[w]
                                               /\ attempt'[w] = attempt[w])
      BY DEF Crash, Forget
    <3>2. QED
      BY <3>1 DEF Pending, Converting, Idle
  <2> DEFINE P == Pending(j)
             Q == Pending(j)'
  <2>2. IsFiniteSet(P) /\ Cardinality(P) \in Nat
    BY PendingCounts
  <2>3. Q \subseteq P
    BY <2>1
  <2> HIDE DEF P, Q
  <2>4. Cardinality(Q) \in Nat /\ Cardinality(Q) <= Cardinality(P)
    BY <2>2, <2>3, FS_Subset, FS_CardinalityType
  <2>5. QED
    BY <2>4 DEF P, Q
<1> HIDE DEF S, n
<1>4. Copies(j)' <= Copies(j) + n
  <2>1. main'[<<j, FALSE>>] + main'[<<j, TRUE>>] + retry'[j] + Cardinality(Pending(j)')
          <= main[<<j, FALSE>>] + main[<<j, TRUE>>] + retry[j] + Cardinality(Pending(j)) + n
    BY <1>1, <1>2, <1>3, <1>c
  <2>2. enq'[j] = enq[j] /\ n \in Int
    BY <1>1, <1>2
  <2>3. QED
    BY <2>1, <2>2, CopiesMove
<1>5. Reached(j)' = Reached(j)
  BY <1>1 DEF Reached
<1>6. Reached(j)' + Copies(j)' <= Reached(j) + Copies(j) + n
  BY <1>2, <1>4, <1>5, <1>c
<1>7. QED
  BY <1>6 DEF n

LEMMA AccountedStep ==
  ASSUME NoStrayCopies
  PROVE  TypeOK /\ Accounted /\ [Next]_vars => Accounted'
<1> SUFFICES ASSUME TypeOK, Accounted, [Next]_vars
             PROVE  Accounted'
  OBVIOUS
<1>t. TypeOK'
  BY TypeStep
<1>1. CASE UNCHANGED vars
  <2>1. Allowance' = Allowance /\ mode' = mode
    BY <1>1 DEF vars, Allowance
  <2>2. \A j \in Jobs : Reached(j)' = Reached(j) /\ Copies(j)' = Copies(j)
    BY <1>1 DEF vars, tables, queues, locals, Reached, Copies, Pending
  <2>3. QED
    BY <2>1, <2>2 DEF Accounted
<1>2. CASE Next
  <2>a. /\ Allowance \in Nat /\ Allowance' \in Nat /\ Allowance' >= Allowance
        /\ Spend("duplicate") => Allowance' = Allowance + 1
        /\ Spend("crash") => Allowance' = Allowance + Cardinality(Workers)
    BY <1>2, AllowanceGrows
  <2>w. Cardinality(Workers) \in Nat
    BY WorkersAssumption, FS_CardinalityType
  <2>n. ~Spend("drop") /\ ~Spend("stop")
    <3>1. /\ "drop" \in Faults /\ "stop" \in Faults /\ Budget["drop"] = 0 /\ Budget["stop"] = 0
      BY DEF Faults, NoStrayCopies
    <3>2. QED
      BY <3>1, NoBudget
  <2>1. ASSUME NEW p \in Procs
        PROVE  mode'[p] \in {"consuming", "down"}
    <3>1. mode[p] \in {"consuming", "down"}
      BY DEF Accounted
    <3>2. CASE \E q \in Procs : Process(q)
      <4>1. PICK q \in Procs : Process(q)
        BY <3>2
      <4>2. mode[q] \in {"consuming", "down"}
        BY DEF Accounted
      <4>3. Crash(q) \/ Start(q)
        BY <2>n, <4>1, <4>2 DEF Process, LinkDrop, Resubscribe, Stop, Close, Exit
      <4>4. QED
        BY <3>1, <4>3 DEF Crash, Start, TypeOK
    <3>3. CASE ~\E q \in Procs : Process(q)
      <4>1. mode' = mode
        BY <1>2, <3>3 DEF Next, Api, CreateJob, Enqueue, EnqueueLost, EnqueueRefused,
           MarkEnqueueFailed, ApiCrash, DuplicatePublish, MalformedPublish, RetryExpires, Deliver,
           Goroutine, Undecodable, Claim, Produce, PublishRetry, PublishDead, Ack, Write,
           MarkFileConverting, MarkJobConverting, MarkFileConverted, MarkJobConverted,
           MarkFileFailed, MarkJobFailed, Requeue
      <4>2. QED
        BY <3>1, <4>1
    <3>4. QED
      BY <3>2, <3>3
  <2>2. ASSUME NEW j \in Jobs
        PROVE  Reached(j)' + Copies(j)' <= Allowance'
    <3>c. /\ Reached(j) \in Nat /\ Copies(j) \in Nat /\ Reached(j)' \in Nat /\ Copies(j)' \in Nat
          /\ Reached(j) + Copies(j) <= Allowance
      BY <1>t, CountsOK, CountsOKNext DEF Accounted
    <3>g. Reached(j)' + Copies(j)' <= Reached(j) + Copies(j) => Reached(j)' + Copies(j)' <= Allowance'
      BY <2>a, <3>c
    <3>1. ASSUME NEW i \in Jobs, Api(i)
          PROVE  Reached(j)' + Copies(j)' <= Allowance'
      <4>1. \/ Reached(j)' + Copies(j)' <= Reached(j) + Copies(j)
            \/ Spend("duplicate") /\ Reached(j)' + Copies(j)' <= Reached(j) + Copies(j) + 1
        BY <1>t, <3>1, AccountedApi
      <4>2. QED
        BY <2>a, <3>c, <3>g, <4>1
    <3>2. CASE \/ MalformedPublish
               \/ \E b \in Bodies : RetryExpires(b)
               \/ \E w \in Workers, b \in Bodies, r \in BOOLEAN : Deliver(w, b, r)
      BY <1>t, <3>2, <3>g, AccountedBroker
    <3>3. ASSUME NEW p \in Procs, Process(p)
          PROVE  Reached(j)' + Copies(j)' <= Allowance'
      <4>1. mode[p] \in {"consuming", "down"}
        BY DEF Accounted
      <4>2. CASE Crash(p)
        <5>1. Spend("crash")
          BY <4>2 DEF Crash
        <5>2. Reached(j)' + Copies(j)' <= Reached(j) + Copies(j) + Cardinality(Workers)
          BY <1>t, <4>2, AccountedCrash
        <5>3. QED
          BY <2>a, <2>w, <3>c, <5>1, <5>2
      <4>3. CASE Start(p)
        <5>1. Reached(j)' = Reached(j) /\ Copies(j)' = Copies(j)
          BY <4>3 DEF Start, tables, queues, locals, Reached, Copies, Pending
        <5>2. QED
          BY <3>c, <3>g, <5>1
      <4>4. QED
        BY <2>n, <3>3, <4>1, <4>2, <4>3 DEF Process, LinkDrop, Resubscribe, Stop, Close, Exit
    <3>4. ASSUME NEW w \in Workers, Goroutine(w)
          PROVE  Reached(j)' + Copies(j)' <= Allowance'
      <4>1. ~Cancelled(w)
        BY WorkersAssumption DEF Accounted, Cancelled
      <4>2. QED
        BY <1>t, <3>4, <3>g, <4>1, AccountedGoroutine
    <3>5. QED
      BY <1>2, <3>1, <3>2, <3>3, <3>4 DEF Next
  <2>3. QED
    BY <2>1, <2>2 DEF Accounted
<1>3. QED
  BY <1>1, <1>2

LEMMA AccountedInit == Init => Accounted
<1> SUFFICES ASSUME Init
             PROVE  Accounted
  OBVIOUS
<1>1. ASSUME NEW j \in Jobs
      PROVE  Reached(j) + Copies(j) <= Allowance
  <2>1. /\ main[<<j, TRUE>>] = 0 /\ main[<<j, FALSE>>] = 0 /\ retry[j] = 0
        /\ enq[j] = "none" /\ attempts[j] = 0
    BY DEF Init, EmptyQueue, Bodies
  <2>2. Pending(j) = {}
    BY TablesAssumption DEF Init, EmptyQueue, Pending
  <2>3. Cardinality(Pending(j)) = 0
    BY <2>2, FS_EmptySet
  <2>4. Copies(j) = 1
    BY <2>1, <2>3 DEF Copies
  <2>5. Reached(j) = MaxAttempts - 1
    BY <2>1, AttemptsAssumption DEF Reached
  <2>6. Allowance = MaxAttempts
    <3>1. /\ spent["duplicate"] = 0 /\ spent["crash"] = 0 /\ Cardinality(Workers) \in Nat
      BY WorkersAssumption, FS_CardinalityType DEF Init, EmptyQueue, Faults
    <3>2. Cardinality(Workers) * 0 = 0
      BY <3>1
    <3>3. QED
      BY <3>1, <3>2, AttemptsAssumption DEF Allowance
  <2>7. QED
    BY <2>4, <2>5, <2>6, AttemptsAssumption
<1>2. QED
  BY <1>1 DEF Init, EmptyQueue, Accounted

(* Attempts never exceed MaxAttempts but by the copies that duplicates and *)
(* crashes have added, whatever database calls and publishes fail: the     *)
(* claim counts an attempt, and a goroutine that has used the last one     *)
(* does not put its copy back (handleFailure).                             *)
THEOREM AttemptsBounded ==
  ASSUME NoStrayCopies
  PROVE  Spec => []AttemptsAccounted
<1>1. TypeOK /\ Accounted => AttemptsAccounted
  <2> SUFFICES ASSUME TypeOK, Accounted, NEW j \in Jobs
               PROVE  attempts[j] <= Allowance
    BY DEF AttemptsAccounted, Allowance
  <2>1. /\ Reached(j) \in Nat /\ Copies(j) \in Nat /\ attempts[j] \in Nat
        /\ Reached(j) + Copies(j) <= Allowance /\ MaxAttempts \in Nat
    BY CountsOK DEF Accounted
  <2>2. attempts[j] <= Reached(j)
    BY <2>1 DEF Reached
  <2>3. Allowance \in Int
    <3>1. /\ spent["duplicate"] \in Nat /\ spent["crash"] \in Nat
          /\ Cardinality(Workers) \in Nat
      BY WorkersAssumption, FS_CardinalityType DEF TypeOK, Faults
    <3>2. Cardinality(Workers) * spent["crash"] \in Nat
      BY <3>1, Times
    <3>3. QED
      BY <2>1, <3>1, <3>2 DEF Allowance
  <2>4. QED
    BY <2>1, <2>2, <2>3
<1>2. Init => TypeOK /\ Accounted
  BY TypeInit, AccountedInit
<1>3. TypeOK /\ Accounted /\ [Next]_vars => (TypeOK /\ Accounted)'
  BY TypeStep, AccountedStep
<1>4. QED
  BY <1>1, <1>2, <1>3, PTL DEF Spec
=============================================================================
