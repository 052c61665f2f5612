---------------------------- MODULE FileRequests ----------------------------
(***************************************************************************)
(* The life of a file as its owner drives it: the UploadURL, Confirm and   *)
(* Retry handlers of the API, one database or storage call per step, on    *)
(* top of the queue and the workers of JobQueue.  The job a request        *)
(* creates has the request's own name, for a request creates at most one.  *)
(*                                                                         *)
(* The workers, their sessions and the broker do not fail here (that is    *)
(* JobQueue's subject), but for the database.                              *)
(***************************************************************************)
EXTENDS JobQueue, Sequences

CONSTANTS Kind,           \* "confirm" or "retry", for each request
          MaxDisconnects  \* how many clients may hang up on their request

ASSUME RequestsAssumption == Kind \in [Jobs -> {"confirm", "retry"}]
                             /\ MaxDisconnects \in Nat

VARIABLES
  at,       \* where each request is in its handler, or what it was answered
  gone,     \* requests whose client hung up: r.Context() is cancelled
  object,   \* the upload in the object store, compared with the declared size
  history,  \* the rows of conversion_jobs of each file, by created_at
  retryOf   \* the attempt a request's job retries; NoJob for NULL

requests == <<at, gone, object, history, retryOf>>
allvars == <<vars, requests>>

-----------------------------------------------------------------------------
InHandler == {"stat", "remove", "delete", "markReady",
              "markRetrying", "latest", "enqueue"}

(* A request is answered "done" (200), "rejected" (404, 409), "error" (500) *)
(* or "unavailable" (503).                                                 *)

RequestsInit ==
  /\ EmptyQueue
  /\ fileStatus = [f \in Files |-> "absent"]
  /\ at = [r \in Jobs |-> "find"]
  /\ gone = {}
  /\ object = [f \in Files |-> "none"]
  /\ history = [f \in Files |-> <<>>]
  /\ retryOf = [r \in Jobs |-> NoJob]

(* A call made for a request whose client is gone fails at once.           *)
Replies(r) == IF r \in gone THEN {"error"}
              ELSE {"ok"} \cup {a \in {"error", "lost"} : MayFail(FaultOf(a))}

Bill(r, a) == spent' = IF a = "ok" \/ r \in gone THEN spent
                       ELSE [spent EXCEPT ![FaultOf(a)] = @ + 1]

(* A call of r that leaves its file row with the given status, and sends r *)
(* on to ok, or to fail when it returns an error.                          *)
FileCall(r, from, status, ok, fail) ==
  /\ at[r] = from
  /\ \E a \in Replies(r) :
       /\ fileStatus' = IF a = "error" THEN fileStatus
                        ELSE [fileStatus EXCEPT ![FileOf[r]] = status]
       /\ at' = [at EXCEPT ![r] = IF a = "ok" THEN ok ELSE fail]
       /\ Bill(r, a)
  /\ UNCHANGED <<jobStatus, attempts, queues, locals, mode, enq>>
  /\ UNCHANGED <<gone, object, history, retryOf>>

FileRow(r) == fileStatus[FileOf[r]]

-----------------------------------------------------------------------------
(* The upload                                                              *)

UploadURL(f) ==
  /\ fileStatus[f] = "absent"
  /\ fileStatus' = [fileStatus EXCEPT ![f] = "pending"]
  /\ UNCHANGED <<jobStatus, attempts, queues, locals, mode, enq, spent, requests>>

(* The browser's PUT to the presigned URL; it may never come, or be cut,   *)
(* and comes once.                                                         *)
Upload(f) ==
  /\ fileStatus[f] = "pending"
  /\ object[f] = "none"
  /\ \E size \in {"whole", "short"} : object' = [object EXCEPT ![f] = size]
  /\ UNCHANGED <<vars, at, gone, history, retryOf>>

-----------------------------------------------------------------------------
(* Confirm and Retry                                                       *)

Find(r) ==
  /\ FileRow(r) # "absent"
  /\ FileCall(r, "find", FileRow(r),
              IF FileRow(r) = "deleted" THEN "rejected"
              ELSE IF Kind[r] = "confirm" THEN "stat" ELSE "markRetrying",
              "error")

Stat(r) ==
  FileCall(r, "stat", FileRow(r),
           CASE object[FileOf[r]] \in {"none", "removed"} -> "rejected"
             [] object[FileOf[r]] = "short" -> "remove"
             [] object[FileOf[r]] = "whole" -> "markReady",
           "rejected")

(* The errors of RemoveObject and Delete are dropped.  No job of the file  *)
(* exists yet, so the cascade to conversion_jobs has nothing to delete.    *)
Remove(r) ==
  /\ at[r] = "remove"
  /\ \E a \in Replies(r) :
       /\ object' = IF a = "error" THEN object
                    ELSE [object EXCEPT ![FileOf[r]] = "removed"]
       /\ Bill(r, a)
  /\ at' = [at EXCEPT ![r] = "delete"]
  /\ UNCHANGED <<tables, queues, locals, mode, enq, gone, history, retryOf>>

Delete(r) == FileCall(r, "delete", "deleted", "rejected", "rejected")

(* The update has no condition on the status it replaces.                  *)
MarkReady(r) ==
  LET found == FileRow(r) # "deleted"
  IN  FileCall(r, "markReady", IF found THEN "ready" ELSE "deleted",
               IF found THEN "enqueue" ELSE "error", "error")

(* Variant: the update without its condition.                              *)
MarkRetryingAnyStatus(r) ==
  FileCall(r, "markRetrying", "converting", "latest", "error")

(* Only the request that finds the file failed goes on to enqueue.         *)
MarkRetrying(r) ==
  LET won == FileRow(r) = "failed"
  IN  FileCall(r, "markRetrying", IF won THEN "converting" ELSE FileRow(r),
               IF won THEN "latest"
               ELSE IF FileRow(r) = "deleted" THEN "error" ELSE "done",
               "error")

(* LatestForFile, and its variant with the order reversed.                 *)
OldestJob(f) == IF history[f] = <<>> THEN NoJob ELSE Head(history[f])
LatestJob(f) == IF history[f] = <<>> THEN NoJob ELSE history[f][Len(history[f])]

LatestForFile(r) ==
  /\ at[r] = "latest"
  /\ \E a \in Replies(r) :
       /\ retryOf' = IF a = "ok"
                     THEN [retryOf EXCEPT ![r] = LatestJob(FileOf[r])]
                     ELSE retryOf
       /\ at' = [at EXCEPT ![r] = IF a = "ok" THEN "enqueue" ELSE "error"]
       /\ Bill(r, a)
  /\ UNCHANGED <<tables, queues, locals, mode, enq, gone, object, history>>

-----------------------------------------------------------------------------
(* EnqueueConversion, for the request's context                            *)

Recorded(r) == history' = [history EXCEPT ![FileOf[r]] = Append(@, r)]

Create(r) ==
  /\ at[r] = "enqueue"
  /\ "ok" \in Replies(r)
  /\ CreateJob(r)
  /\ Recorded(r)
  /\ UNCHANGED <<at, gone, object, retryOf>>

CreateFails(r) ==
  /\ at[r] = "enqueue" /\ enq[r] = "none"
  /\ \E a \in Replies(r) \ {"ok"} :
       /\ Bill(r, a)
       /\ IF a = "lost"
          THEN Recorded(r) /\ jobStatus' = [jobStatus EXCEPT ![r] = "queued"]
          ELSE UNCHANGED <<history, jobStatus>>
  /\ at' = [at EXCEPT ![r] = "unavailable"]
  /\ UNCHANGED <<attempts, fileStatus, queues, locals, mode, enq>>
  /\ UNCHANGED <<gone, object, retryOf>>

(* Publishing does not look at the context.                                *)
Publish(r) ==
  /\ at[r] = "enqueue"
  /\ Enqueue(r) \/ EnqueueRefused(r)
  /\ UNCHANGED requests

(* Variant: the job is marked and the file is not.                         *)
MarkRefusedJobOnly(r) ==
  /\ at[r] = "enqueue"
  /\ enq[r] \in {"markJob", "markFile"}
  /\ IF enq[r] = "markJob" THEN MarkEnqueueFailed(r)
     ELSE /\ enq' = [enq EXCEPT ![r] = "refused"]
          /\ UNCHANGED <<tables, queues, locals, mode, spent>>
  /\ UNCHANGED requests

(* The marks of a request whose client is gone have no effect either.      *)
MarkRefused(r) ==
  /\ at[r] = "enqueue"
  /\ enq[r] \in {"markJob", "markFile"}
  /\ IF r \notin gone THEN MarkEnqueueFailed(r)
     ELSE /\ enq' = [enq EXCEPT ![r] = IF @ = "markJob" THEN "markFile"
                                       ELSE "refused"]
          /\ UNCHANGED <<tables, queues, locals, mode, spent>>
  /\ UNCHANGED requests

Respond(r) ==
  /\ at[r] = "enqueue"
  /\ enq[r] \in {"enqueued", "refused"}
  /\ at' = [at EXCEPT ![r] = IF enq[r] = "enqueued" THEN "done" ELSE "unavailable"]
  /\ UNCHANGED <<vars, gone, object, history, retryOf>>

-----------------------------------------------------------------------------
Disconnect(r) ==
  /\ at[r] \in InHandler
  /\ Cardinality(gone) < MaxDisconnects
  /\ gone' = gone \cup {r}
  /\ UNCHANGED <<vars, at, object, history, retryOf>>

(* The API process dies, or its shutdown deadline passes, mid-request.     *)
Abandon(r) ==
  /\ at[r] \in InHandler
  /\ Spend("apicrash")
  /\ at' = [at EXCEPT ![r] = "abandoned"]
  /\ UNCHANGED <<tables, queues, locals, mode, enq, gone, object, history, retryOf>>

-----------------------------------------------------------------------------
Handle(r) ==
  \/ Stat(r) \/ Remove(r) \/ Delete(r) \/ MarkReady(r)
  \/ MarkRetrying(r) \/ LatestForFile(r)
  \/ Create(r) \/ CreateFails(r) \/ Publish(r) \/ MarkRefused(r) \/ Respond(r)

Broker == \/ \E b \in Bodies : RetryExpires(b)
          \/ \E w \in Workers, b \in Bodies, r \in BOOLEAN : Deliver(w, b, r)

RequestsNext ==
  \/ \E f \in Files : UploadURL(f) \/ Upload(f)
  \/ \E r \in Jobs : Find(r) \/ Handle(r) \/ Disconnect(r) \/ Abandon(r)
  \/ Broker /\ UNCHANGED requests
  \/ (\E w \in Workers : Goroutine(w)) /\ UNCHANGED requests

RequestsSpec == RequestsInit /\ [][RequestsNext]_allvars

(* A handler that has started and a goroutine with a delivery go on, and   *)
(* the broker delivers.  Nobody has to upload, confirm or retry.           *)
RequestsFairness ==
  /\ \A r \in Jobs : WF_allvars(Handle(r))
  /\ WF_allvars(Broker /\ UNCHANGED requests)
  /\ \A w \in Workers : WF_allvars(Goroutine(w) /\ UNCHANGED requests)

FairRequests == RequestsSpec /\ RequestsFairness

-----------------------------------------------------------------------------
(* Properties                                                              *)

(* The job of r is about to be published, or a message of it will be       *)
(* claimed, or a goroutine is converting it and has not failed.            *)
Live(r) ==
  \/ at[r] = "enqueue" /\ enq[r] = "created"
  \/ WillBeClaimed(r)
  \/ \E w \in Workers :
       Handles(w, r, {"markFile", "markJob", "convert", "fileConverted",
                      "jobConverted", "requeue", "publishRetry"})

(* A file never has two jobs that may still be converted: the compare and  *)
(* set of MarkRetrying lets one retry through per failure, and a failure   *)
(* is only on the file once the job that failed is spent.                  *)
OneLiveJob ==
  \A q, r \in Jobs : FileOf[q] = FileOf[r] /\ Live(q) /\ Live(r) => q = r

(* retry_of links the jobs of a file into one list, in the order in which  *)
(* they were created: LatestForFile is read before the row is created, and *)
(* no other job may be created in between.                                 *)
RetryHistoryIsChain ==
  \A f \in Files : \A i \in DOMAIN history[f] :
    retryOf[history[f][i]] = IF i = 1 THEN NoJob ELSE history[f][i - 1]

Waiting(f) == fileStatus[f] \in {"ready", "converting"}

(* Someone is going to change the status of f: a handler on its way to the *)
(* queue, a message that will be claimed, or a goroutine.                  *)
Attended(f) ==
  \E r \in Jobs :
    /\ FileOf[r] = f
    /\ at[r] \in {"latest", "enqueue"} \/ WillBeClaimed(r) \/ InProgress(r)

(* No call of a handler or a goroutine has failed, no client has hung up,  *)
(* and the API is up.                                                      *)
Untroubled ==
  gone = {} /\ \A k \in {"db", "answer", "apicrash"} : spent[k] = 0

(* No file waits for a worker that will never come, in a status that       *)
(* offers the user no retry.                                               *)
NoFileStranded ==
  Untroubled => \A f \in Files : Waiting(f) => Attended(f)

(* At most one Confirm of f has been received, and no job of f has been    *)
(* put back for another attempt.                                           *)
ConfirmedOnce(f) ==
  \A q, r \in Jobs :
    /\ FileOf[q] = f /\ FileOf[r] = f
    /\ Kind[q] = "confirm" /\ Kind[r] = "confirm"
    /\ at[q] # "find" /\ at[r] # "find"
    => q = r

TriedOnce(f) ==
  \A r \in Jobs : FileOf[r] = f =>
    attempts[r] <= 1 /\ \A w \in Workers : ~Handles(w, r, {"requeue"})

(* A published bundle is withdrawn only where the code does not look at    *)
(* the status it replaces: by a second Confirm of the file (MarkReady) or  *)
(* by the job it makes, or by a job that Requeue puts back for another     *)
(* attempt.  No retry, refusal, lost answer, disconnect or late goroutine  *)
(* moves a file confirmed once and tried once out of converted.            *)
PublishedStays ==
  [][\A f \in Files :
       fileStatus[f] = "converted" /\ ConfirmedOnce(f) /\ TriedOnce(f)
       => fileStatus'[f] = "converted"]_allvars

(* A file that waits for its conversion is eventually converted or failed. *)
FileSettles ==
  []Untroubled =>
    \A f \in Files : Waiting(f) ~> fileStatus[f] \in {"converted", "failed"}
=============================================================================
