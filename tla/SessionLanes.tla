----------------------------- MODULE SessionLanes -----------------------------
(***************************************************************************)
(* The durable session lane scheduler: jobs are queued per lane in a       *)
(* dedicated store, one job of a lane runs at a time, several lanes run at *)
(* once.  A timeout, a cancellation or a shutdown settles a job logically  *)
(* while its execution may go on; the lane stays locked until the          *)
(* execution has physically ended.  A store operation that fails, whether  *)
(* or not it was applied, degrades the scheduler for good.                 *)
(*                                                                         *)
(* Grain of atomicity.  The operations under withState are queued on one   *)
(* promise chain and run one at a time, so each is one step; only time,    *)
(* the executor and the process end interleave with its store call.  The   *)
(* order in which queued operations run is left open.                      *)
(*                                                                         *)
(* Source: packages/kernel/src/session-lanes.ts.                           *)
(*                                                                         *)
(* An operator marked "faulty" is an unused variant of the next one, with  *)
(* a mistake in it.                                                        *)
(***************************************************************************)
EXTENDS Naturals, FiniteSets, FiniteSetsExt

CONSTANTS
  Jobs, Lanes,
  NoLane,              \* the lane of a job not yet submitted
  Concurrency, MaxPending, MaxPendingPerLane, MaxPendingBytes,
  Sizes,               \* the sizes a payload may have
  MaxFaults            \* bound on store failures and process crashes

ASSUME LanesAssumption ==
  /\ IsFiniteSet(Jobs) /\ NoLane \notin Lanes
  /\ {Concurrency, MaxPending, MaxPendingPerLane, MaxPendingBytes} \subseteq Nat \ {0}
  /\ Sizes \subseteq Nat /\ MaxFaults \in Nat

VARIABLES
  row,         \* job -> its record in the store
  entry,       \* job -> the scheduler's ActiveLaneJob, NoEntry when forgotten
  locked,      \* lockedLanes
  lifecycle, degraded,
  draining,    \* a drain loop is in progress, or one more round was requested
  faults,      \* faults so far
  executions,  \* ghost: job -> times its executor was called
  returned     \* ghost: job -> how its executor ended

vars == <<row, entry, locked, lifecycle, degraded, draining, faults, executions, returned>>

TERMINAL_STATUSES == {"completed", "failed", "cancelled", "needs-review"}
Outcomes == {"none", "success", "failure"}

RowType == [status : {"absent", "queued", "running"} \cup TERMINAL_STATUSES,
            lane : Lanes \cup {NoLane}, seq : Nat, bytes : Nat]

(* stage: claimed, then launched; execution: the executor's promise; outcome:   *)
(* what Promise.race took; the two flags are executionSettled, logicalSettled.  *)
EntryType == [stage : {"none", "claimed", "launched"},
              execution : {"running"} \cup Outcomes, outcome : Outcomes,
              abort : {"none", "cancel", "timeout", "shutdown"},
              executionSettled : BOOLEAN, logicalSettled : BOOLEAN]

NoEntry == [stage |-> "none", execution |-> "none", outcome |-> "none", abort |-> "none",
            executionSettled |-> FALSE, logicalSettled |-> FALSE]

(* The records of the store and the scheduler's maps keep the shapes declared   *)
(* above (ValidatedLaneJob, ActiveLaneJob, lockedLanes).                       *)
TypeOK ==
  /\ row \in [Jobs -> RowType]
  /\ entry \in [Jobs -> EntryType]
  /\ locked \subseteq Lanes
  /\ lifecycle \in {"stopped", "started", "stopping"}
  /\ degraded \in BOOLEAN /\ draining \in BOOLEAN
  /\ faults \in 0..MaxFaults
  /\ executions \in [Jobs -> Nat]
  /\ returned \in [Jobs -> Outcomes]

Init ==
  /\ row = [j \in Jobs |-> [status |-> "absent", lane |-> NoLane, seq |-> 0, bytes |-> 0]]
  /\ entry = [j \in Jobs |-> NoEntry]
  /\ locked = {} /\ lifecycle = "stopped" /\ degraded = FALSE /\ draining = FALSE
  /\ faults = 0
  /\ executions = [j \in Jobs |-> 0]
  /\ returned = [j \in Jobs |-> "none"]

---------------------------------------------------------------------------
Live(j) == entry[j].stage # "none"                       \* the scheduler still knows it
Active == {j \in Jobs : Live(j) /\ ~entry[j].logicalSettled}   \* the active map
Pending == {j \in Jobs : row[j].status \in {"queued", "running"}}
OfLane(l) == {j \in Jobs : row[j].lane = l}

\* an entry whose job and execution are both settled is dropped
Dropped(e) == IF e.logicalSettled /\ e.executionSettled THEN NoEntry ELSE e

\* faulty: only start makes the loop run
RequestDrainNot == draining' = draining

\* requestDrain, drain: a loop in progress goes round once more
RequestDrain == draining' = (draining \/ (lifecycle = "started" /\ ~degraded'))

(* storeWrite and validateTransitionResult: a call that fails, or whose result  *)
(* is not the expected record, may have been applied or not.                   *)
Applied(r) == row' = r /\ UNCHANGED <<degraded, faults>>
Failed(r) == row' \in {row, r} /\ degraded' = TRUE /\ faults < MaxFaults /\ faults' = faults + 1

WithStatus(j, status) == [row EXCEPT ![j].status = status]

\* controller.abort: the first reason stays, and wins the race if nothing has yet
AbortEntry(e, reason) ==
  IF e.abort # "none" THEN e
  ELSE [e EXCEPT !.abort = reason,
                 !.outcome = IF e.stage = "launched" /\ @ = "none" THEN "failure" ELSE @]

---------------------------------------------------------------------------
(* Admission *)

NextSequence(l) == Max({row[j].seq : j \in OfLane(l)} \cup {0}) + 1

Admissible(l, bytes) ==
  /\ Cardinality(Pending) < MaxPending
  /\ Cardinality(Pending \cap OfLane(l)) < MaxPendingPerLane
  /\ MapThenSumSet(LAMBDA j : row[j].bytes, Pending) + bytes <= MaxPendingBytes

Submit(j, l, bytes) ==
  LET created == [row EXCEPT ![j] = [status |-> "queued", lane |-> l,
                                     seq |-> NextSequence(l), bytes |-> bytes]]
  IN
  /\ ~degraded /\ row[j].status = "absent" /\ Admissible(l, bytes)
  /\ Applied(created) \/ Failed(created)
  /\ RequestDrain
  /\ UNCHANGED <<entry, locked, lifecycle, executions, returned>>

---------------------------------------------------------------------------
(* Dispatch *)

\* faulty: the youngest of the lane
HeadLast(j) ==
  row[j].status = "queued"
  /\ \A i \in OfLane(row[j].lane) : row[i].status = "queued" => row[i].seq <= row[j].seq
Head(j) ==
  row[j].status = "queued"
  /\ \A i \in OfLane(row[j].lane) : row[i].status = "queued" => row[j].seq <= row[i].seq

(* claimOne takes the oldest head of an unlocked lane by createdAt, a wall      *)
(* clock reading that may tie or go back: any head here.                       *)
Claimable(j) == Head(j) /\ row[j].lane \notin locked

\* the loop claims one job after another, each launched before the next claim
CanDrain ==
  /\ draining /\ lifecycle = "started" /\ ~degraded
  /\ Cardinality(Active) < Concurrency
  /\ \A j \in Jobs : entry[j].stage # "claimed"

Claim(j) ==
  /\ CanDrain /\ Claimable(j)
  /\ \/ /\ Applied(WithStatus(j, "running"))
        /\ entry' = [entry EXCEPT ![j] = [NoEntry EXCEPT !.stage = "claimed"]]
        /\ locked' = locked \cup {row[j].lane}
        /\ UNCHANGED draining
     \/ /\ Failed(WithStatus(j, "running"))
        /\ draining' = FALSE
        /\ UNCHANGED <<entry, locked>>
  /\ UNCHANGED <<lifecycle, executions, returned>>

DrainEnd ==
  /\ draining
  /\ \A j \in Jobs : entry[j].stage # "claimed"
  /\ \/ lifecycle # "started" \/ degraded
     \/ Cardinality(Active) >= Concurrency
     \/ \A j \in Jobs : ~Claimable(j)
  /\ draining' = FALSE
  /\ UNCHANGED <<row, entry, locked, lifecycle, degraded, faults, executions, returned>>

(* runClaimed, after the operations that were queued during the claim: a job    *)
(* aborted by one of them is settled without an execution.                     *)
Launch(j) ==
  /\ entry[j].stage = "claimed"
  /\ IF entry[j].abort # "none"
     THEN /\ entry' = [entry EXCEPT ![j].stage = "launched", ![j].execution = "failure"]
          /\ UNCHANGED executions
     ELSE /\ entry' = [entry EXCEPT ![j].stage = "launched", ![j].execution = "running"]
          /\ executions' = [executions EXCEPT ![j] = @ + 1]
  /\ UNCHANGED <<row, locked, lifecycle, degraded, draining, faults, returned>>

---------------------------------------------------------------------------
(* Execution and settlement *)

\* the executor's promise settles, and wins the race if nothing has yet
ExecutorEnds(j) ==
  /\ entry[j].execution = "running"
  /\ \E outcome \in {"success", "failure"} :
       /\ entry' = [entry EXCEPT ![j].execution = outcome,
                                 ![j].outcome = IF @ = "none" THEN outcome ELSE @]
       /\ returned' = [returned EXCEPT ![j] = outcome]
  /\ UNCHANGED <<row, locked, lifecycle, degraded, draining, faults, executions>>

\* the timer is cleared only when the job has settled
Timeout(j) ==
  /\ entry[j].stage = "launched" /\ ~entry[j].logicalSettled /\ entry[j].abort = "none"
  /\ entry' = [entry EXCEPT ![j] = AbortEntry(@, "timeout")]
  /\ UNCHANGED <<row, locked, lifecycle, degraded, draining, faults, executions, returned>>

\* faulty: a timeout counts as a failure
TerminalStatusBlunt(e) ==
  IF e.outcome = "success" THEN "completed"
  ELSE IF e.abort = "cancel" THEN "cancelled" ELSE "failed"

\* faulty: the reason of the abort is stored as the status
TerminalStatusRaw(e) ==
  IF e.outcome = "success" THEN "completed" ELSE IF e.abort # "none" THEN e.abort ELSE "failed"

\* terminalPatch
TerminalStatus(e) ==
  IF e.outcome = "success" THEN "completed"
  ELSE CASE e.abort = "cancel" -> "cancelled"
         [] e.abort \in {"timeout", "shutdown"} -> "needs-review"
         [] OTHER -> "failed"

\* faulty: the lane is unlocked when the job settles
UnlockSettled(j, e) == locked' = IF e.logicalSettled THEN locked \ {row[j].lane} ELSE locked
\* the lane is unlocked by whichever settlement comes second
Unlock(j, e) ==
  locked' = IF e.logicalSettled /\ e.executionSettled THEN locked \ {row[j].lane} ELSE locked

\* finishLogical: the entry is settled even when the outcome could not be stored
FinishLogical(j) ==
  LET settled == [entry[j] EXCEPT !.logicalSettled = TRUE]
      stored == WithStatus(j, TerminalStatus(entry[j]))
  IN
  /\ entry[j].outcome # "none" /\ ~entry[j].logicalSettled
  /\ Applied(stored) \/ Failed(stored)
  /\ entry' = [entry EXCEPT ![j] = Dropped(settled)]
  /\ Unlock(j, settled)
  /\ RequestDrain
  /\ UNCHANGED <<lifecycle, executions, returned>>

\* for a job that was never executed this comes first and hands on the outcome
ExecutionSettled(e) ==
  [e EXCEPT !.executionSettled = TRUE, !.outcome = IF @ = "none" THEN e.execution ELSE @]

\* executionFinished
ExecutionFinished(j) ==
  LET settled == ExecutionSettled(entry[j]) IN
  /\ entry[j].execution \in {"success", "failure"} /\ ~entry[j].executionSettled
  /\ entry' = [entry EXCEPT ![j] = Dropped(settled)]
  /\ Unlock(j, settled)
  /\ UNCHANGED <<row, lifecycle, degraded, faults, executions, returned>>
  /\ RequestDrain

---------------------------------------------------------------------------
(* Control *)

\* cancel: a job in the active map is aborted, a queued one is settled here, an ended
\* one is only reported; each but the first looks at the queue
Cancel(j) ==
  /\ ~degraded
  /\ \/ /\ row[j].status \in {"queued", "running"} /\ j \in Active
        /\ entry[j].abort = "none"
        /\ entry' = [entry EXCEPT ![j] = AbortEntry(@, "cancel")]
        /\ UNCHANGED <<row, degraded, draining, faults>>
     \/ /\ row[j].status = "queued" /\ j \notin Active
        /\ Applied(WithStatus(j, "cancelled")) \/ Failed(WithStatus(j, "cancelled"))
        /\ RequestDrain
        /\ UNCHANGED entry
     \/ /\ row[j].status \in TERMINAL_STATUSES
        /\ UNCHANGED <<row, degraded, faults, entry>>
        /\ RequestDrain
  /\ UNCHANGED <<locked, lifecycle, executions, returned>>

Quarantined(S) == [j \in Jobs |-> IF j \in S THEN [row[j] EXCEPT !.status = "needs-review"] ELSE row[j]]
Running == {j \in Jobs : row[j].status = "running"}

\* start: the jobs a lost process left running are quarantined
Start ==
  /\ lifecycle = "stopped" /\ ~degraded
  /\ lifecycle' = "started"
  /\ Applied(Quarantined(Running))
  /\ draining' = TRUE
  /\ UNCHANGED <<entry, locked, executions, returned>>

\* start fails after some of them
StartFails ==
  /\ lifecycle = "stopped" /\ ~degraded
  /\ faults < MaxFaults /\ faults' = faults + 1
  /\ degraded' = TRUE
  /\ \E S \in SUBSET Running : row' = Quarantined(S)
  /\ UNCHANGED <<entry, locked, lifecycle, draining, executions, returned>>

\* shutdown aborts what is active ...
Shutdown ==
  /\ lifecycle = "started"
  /\ lifecycle' = "stopping"
  /\ entry' = [j \in Jobs |-> IF j \in Active THEN AbortEntry(entry[j], "shutdown") ELSE entry[j]]
  /\ UNCHANGED <<row, locked, degraded, draining, faults, executions, returned>>

\* ... and waits until it has settled, not until its executions have ended
ShutdownDone ==
  /\ lifecycle = "stopping" /\ Active = {}
  /\ lifecycle' = "stopped"
  /\ UNCHANGED <<row, entry, locked, degraded, draining, faults, executions, returned>>

\* a read of start, submit, cancel or claimOne fails
ReadFails ==
  /\ ~degraded
  /\ faults < MaxFaults /\ faults' = faults + 1
  /\ degraded' = TRUE
  /\ UNCHANGED <<row, entry, locked, lifecycle, draining, executions, returned>>

\* the process dies with its executions; a new scheduler opens the store
Crash ==
  /\ faults < MaxFaults /\ faults' = faults + 1
  /\ entry' = [j \in Jobs |-> NoEntry]
  /\ locked' = {} /\ lifecycle' = "stopped" /\ degraded' = FALSE /\ draining' = FALSE
  /\ UNCHANGED <<row, executions, returned>>

---------------------------------------------------------------------------
JobStep(j) ==
  \/ \E l \in Lanes, bytes \in Sizes : Submit(j, l, bytes)
  \/ Claim(j) \/ Launch(j) \/ ExecutorEnds(j) \/ Timeout(j)
  \/ FinishLogical(j) \/ ExecutionFinished(j) \/ Cancel(j)

Next ==
  \/ \E j \in Jobs : JobStep(j)
  \/ DrainEnd \/ Start \/ StartFails \/ Shutdown \/ ShutdownDone \/ ReadFails \/ Crash

Spec == Init /\ [][Next]_vars

(* Fairness.  Operations queued on the promise chain and the drain loop are     *)
(* served; nothing is assumed of clients, timers, faults or executors.         *)
FairSpec ==
  /\ Spec
  /\ \A j \in Jobs :
       WF_vars(Launch(j)) /\ WF_vars(FinishLogical(j)) /\ WF_vars(ExecutionFinished(j))
  /\ WF_vars(DrainEnd \/ \E j \in Jobs : Claim(j))
  /\ WF_vars(ShutdownDone)

---------------------------------------------------------------------------
(* Properties *)

(* One job of a lane executes at a time, though a timeout, a cancellation or a  *)
(* shutdown and restart of the scheduler may have settled the job before its    *)
(* execution ended (executionFinished, finishLogical, lockedLanes).            *)
LaneExclusive ==
  \A i, j \in Jobs :
    /\ i # j /\ entry[i].execution = "running" /\ entry[j].execution = "running"
    => row[i].lane # row[j].lane

(* The jobs of a lane run in the order of their submission: when one is marked  *)
(* running, all earlier ones have ended (submit, claimOne, start).             *)
LaneOrder ==
  \A i, j \in Jobs :
    /\ row[j].status = "running" /\ row[i].lane = row[j].lane /\ row[i].seq < row[j].seq
    => row[i].status \in TERMINAL_STATUSES

(* A lane never holds two jobs with one sequence, which validateDedicatedStore  *)
(* would take for a store that is not its own (submit).                        *)
SequencesUnique ==
  \A i, j \in Jobs :
    i # j /\ row[i].lane = row[j].lane /\ row[i].lane # NoLane => row[i].seq # row[j].seq

(* An executor is called at most once for a job, and never for one that is      *)
(* still queued, over crashes, failed writes and restarts (start, claimOne).    *)
ExecutedOnce ==
  \A j \in Jobs : executions[j] <= (IF row[j].status \in {"absent", "queued"} THEN 0 ELSE 1)

(* completed and failed say how the executor ended; every other end, a timeout  *)
(* or a shutdown among them, is published otherwise (terminalPatch).           *)
OutcomeTold ==
  \A j \in Jobs :
    /\ row[j].status = "completed" => returned[j] = "success"
    /\ row[j].status = "failed" => returned[j] = "failure"

(* A terminal record never changes again: finishLogical writes without looking  *)
(* at the record, so nobody else may have settled it meanwhile (start, cancel). *)
TerminalFinal ==
  [][\A j \in Jobs : row[j].status \in TERMINAL_STATUSES => row'[j] = row[j]]_vars

(* An aborted job settles, and a shutdown ends, even if the executor hangs      *)
(* (runClaimed, finishLogical, shutdown).                                      *)
AbortSettles ==
  /\ \A j \in Jobs : (j \in Active /\ entry[j].abort # "none") ~> (j \notin Active)
  /\ lifecycle = "stopping" ~> lifecycle # "stopping"

(* If every execution ends, a queued job of a healthy, started scheduler does   *)
(* not stay queued: every end of a job or of an execution looks at the queue    *)
(* again, and the loop finds it (drain, requestDrain).                         *)
EventuallyClaimed ==
  (\A i \in Jobs : []<>(entry[i].execution # "running")) =>
  \A j \in Jobs :
    row[j].status = "queued"
      ~> (row[j].status # "queued" \/ lifecycle # "started" \/ degraded)

(* The comment on the class (session-lanes.ts:357-358) says that in degraded    *)
(* mode no further admission or dispatch occurs: no executor is called.        *)
NoDispatchDegraded ==
  [][degraded => executions' = executions]_vars
=============================================================================
