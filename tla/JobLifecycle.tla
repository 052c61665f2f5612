---------------------------- MODULE JobLifecycle ----------------------------
(***************************************************************************)
(* What the conversion_jobs table promises a reader of one of its rows,    *)
(* with no queue and no worker in sight: a job is taken before it is       *)
(* converting, every take is counted, only a taken job ends, and a         *)
(* converted job never changes again.                                      *)
(***************************************************************************)
EXTENDS Naturals

CONSTANT Jobs

VARIABLES status, attempts

vars == <<status, attempts>>

Init == /\ status = [j \in Jobs |-> "none"]
        /\ attempts = [j \in Jobs |-> 0]

Move(j, from, to) ==
  /\ status[j] \in from
  /\ status' = [status EXCEPT ![j] = to]

Create(j) == Move(j, {"none"}, "queued") /\ UNCHANGED attempts

(* The message of a queued job could not be published.                     *)
Refuse(j) == Move(j, {"queued"}, "failed") /\ UNCHANGED attempts

(* A worker takes the job; one that is converting only because the worker  *)
(* that had it is gone.                                                    *)
Take(j) == /\ Move(j, {"queued", "failed", "converting"}, "converting")
           /\ attempts' = [attempts EXCEPT ![j] = @ + 1]

Finish(j) == Move(j, {"converting"}, "converted") /\ UNCHANGED attempts

Fail(j) == Move(j, {"converting"}, "failed") /\ UNCHANGED attempts

Requeue(j) == Move(j, {"converting", "failed"}, "queued") /\ UNCHANGED attempts

Next == \E j \in Jobs : \/ Create(j) \/ Refuse(j) \/ Take(j)
                        \/ Finish(j) \/ Fail(j) \/ Requeue(j)

Spec == Init /\ [][Next]_vars
=============================================================================
