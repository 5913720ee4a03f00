------------------------------- MODULE JobLife -------------------------------
(***************************************************************************)
(* What the job supervisor promises those who submit jobs, and all that    *)
(* they may rely on: a job is created once, goes between waiting and       *)
(* running until it is told to stop or ends, and then stays ended; an end  *)
(* may still be withdrawn in favour of a review.                           *)
(*                                                                         *)
(* RuntimeJobs implements this; EventIngress and CronSchedule rest on it.  *)
(***************************************************************************)
CONSTANT Jobs

VARIABLE job      \* job -> its status, as far as those who submit it can tell

Ends == {"completed", "failed", "cancelled", "needs-review"}
JobStatus == {"none", "waiting", "running", "cancelling"} \cup Ends

Moves(status) ==
  CASE status = "none"       -> {"waiting"}
    [] status = "waiting"    -> {"running", "cancelling"} \cup Ends
    [] status = "running"    -> {"waiting", "cancelling"} \cup Ends
    [] status = "cancelling" -> Ends
    [] status \in Ends       -> {"needs-review"}

JobsInit == job = [j \in Jobs |-> "none"]

(* A transaction may move several jobs: recovery does. *)
JobsNext ==
  /\ job' \in [Jobs -> JobStatus]
  /\ \A j \in Jobs : job'[j] # job[j] => job'[j] \in Moves(job[j])

JobsSpec == JobsInit /\ [][JobsNext]_job

(* The moves of one job that its supervisor makes by itself. *)
Move(j) ==
  /\ job[j] # "none"
  /\ \E status \in Moves(job[j]) : job' = [job EXCEPT ![j] = status]
=============================================================================
