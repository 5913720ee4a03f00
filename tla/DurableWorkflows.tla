--------------------------- MODULE DurableWorkflows ---------------------------
(***************************************************************************)
(* The durable workflow runtime: a process that claims the steps of        *)
(* workflow runs under a lease, dispatches them, and writes what became of *)
(* them, against clients that cancel and resume, leases and deadlines that *)
(* pass, a recovery timer, a store that may fail, shutdowns and crashes.   *)
(*                                                                         *)
(* Grain of atomicity.  A transaction of the store is one step, and so is  *)
(* a handler between two awaits: nothing else runs in the process.  The    *)
(* drain loop has no await: it is several steps, and while it is on no     *)
(* other handler runs.  Leases and deadlines pass at any moment, and the   *)
(* timers set for them fire at any moment after.                           *)
(*                                                                         *)
(* Source: packages/kernel/src/workflows.ts, over WorkflowRows.            *)
(***************************************************************************)
EXTENDS WorkflowRows

CONSTANTS
  Runs, Steps,
  RunOf,         \* step -> its run
  DependsOn,     \* step -> the steps of its run it waits for
  Kinds,         \* step -> the kinds it may be of: [retrySafe, available]
  Concurrency,
  Misses,        \* leases and deadlines may pass while recover() runs
  MaxClaims,     \* bound on the attempts of a step (resume has none)
  MaxFaults      \* bound on store failures, shutdowns and crashes

ASSUME WorkflowsAssumption ==
  /\ IsFiniteSet(Steps) /\ RunOf \in [Steps -> Runs]
  /\ \A r \in Runs : \E s \in Steps : RunOf[s] = r     \* a definition has 1 to 64 steps
  /\ DependsOn \in [Steps -> SUBSET Steps]
  /\ \A s \in Steps : \A d \in DependsOn[s] : RunOf[d] = RunOf[s]
  /\ Kinds \in [Steps -> SUBSET [retrySafe : BOOLEAN, available : BOOLEAN]]
  /\ Concurrency \in 1..4 /\ Misses \in BOOLEAN /\ {MaxClaims, MaxFaults} \subseteq Nat

VARIABLES
  run,        \* run -> its row and the rows of its steps
  entry,      \* step -> its entry of #active and where its execute() is
  up,         \* the process: "down", "up", or "stopping" in shutdown()
  draining,   \* the drain loop is on
  timer,      \* the recovery timer is armed
  waiting,    \* runs with a cancel() that waits for their entries to end
  faults,     \* faults so far
  started,    \* ghost: step -> dispatches, less those that only asked for approval
  answered    \* ghost: step -> what its last dispatch told: that it is done, or failed
              \* or cancelled without effect, or nothing of the kind

vars == <<run, entry, up, draining, timer, waiting, faults, started, answered>>

StepsOf(r) == {s \in Steps : RunOf[s] = r}

(* completed, failed, needs-review, cancelled without effect, awaiting-approval *)
Outcomes == {"completed", "failed", "unsure", "no-effect", "asked"}

EntryType == [pc : {"none", "admitting", "dispatched"}, lease : Nat, aborted : BOOLEAN]
NoEntry == [pc |-> "none", lease |-> 0, aborted |-> FALSE]

(* The rows of runs and steps, and the entries of #active, keep the shapes      *)
(* declared above (the tables of initialize, #active of the runtime).           *)
TypeOK ==
  /\ run \in [Runs -> UNION {RunType(StepsOf(r)) : r \in Runs}]
  /\ \A r \in Runs : run[r] \in RunType(StepsOf(r))
  /\ entry \in [Steps -> EntryType]
  /\ up \in {"down", "up", "stopping"} /\ {draining, timer} \subseteq BOOLEAN
  /\ waiting \subseteq Runs /\ faults \in 0..MaxFaults
  /\ started \in [Steps -> Nat] /\ answered \in [Steps -> {"nothing", "done", "harmless"}]

Init ==
  /\ \E k \in [Steps -> UNION {Kinds[s] : s \in Steps}] :
       /\ \A s \in Steps : k[s] \in Kinds[s]
       /\ run = [r \in Runs |-> NewRun("absent", [s \in StepsOf(r) |-> k[s]])]
  /\ entry = [s \in Steps |-> NoEntry]
  /\ up = "down" /\ draining = FALSE /\ timer = FALSE /\ waiting = {} /\ faults = 0
  /\ started = [s \in Steps |-> 0] /\ answered = [s \in Steps |-> "nothing"]

---------------------------------------------------------------------------
Row(s) == run[RunOf[s]]
Busy(s) == entry[s].pc # "none"
Active == {s \in Steps : Busy(s)}
Local(r) == {s \in StepsOf(r) : Busy(s) /\ Leased(run[r], s, entry[s].lease)}

(* No handler runs while the drain loop does. *)
Idle == up # "down" /\ ~draining

Fault == faults < MaxFaults /\ faults' = faults + 1

(* drain() does nothing in a runtime that is stopping. *)
Drain == draining' = (up = "up")

AbortRun(e, r, except) ==
  [s \in Steps |-> IF RunOf[s] = r /\ s \notin except /\ e[s].pc # "none"
                   THEN [e[s] EXCEPT !.aborted = TRUE] ELSE e[s]]

(* execute() ends with the run as w: its entry is removed, and drain() called. *)
Finish(s, w) ==
  /\ run' = [run EXCEPT ![RunOf[s]] = w]
  /\ entry' = [entry EXCEPT ![s] = NoEntry]
  /\ Drain /\ UNCHANGED timer

(* recordFailure, then the same. *)
FinishFailed(s, uncertain) ==
  LET w    == failStep(Row(s), s, uncertain)
      left == [entry EXCEPT ![s] = NoEntry]
      stop == Status(w) = "stopping"
  IN /\ run' = [run EXCEPT ![RunOf[s]] = w]
     /\ entry' = IF stop THEN AbortRun(left, RunOf[s], {s}) ELSE left
     /\ timer' = (timer \/ (stop /\ up = "up"))
     /\ Drain

(* The catch block of execute(): whatever the store refuses is left alone. *)
Catch(s, dispatchReturned) ==
  LET w == Row(s)
      l == entry[s].lease
      uncertain == ~w.step[s].retrySafe
  IN CASE Status(w) = "cancelling" /\ CanAcknowledge(w, s, l) ->
            Finish(s, acknowledgeCancellation(w, s, dispatchReturned \/ uncertain))
       [] Status(w) = "stopping" /\ CanStop(w, s, l) ->
            Finish(s, acknowledgeStop(w, s, dispatchReturned \/ uncertain))
       [] Status(w) \notin {"cancelling", "stopping"} /\ Leased(w, s, l) /\ w.step[s].past ->
            Finish(s, quarantineStep(w, {s}))
       [] Status(w) \notin {"cancelling", "stopping"} /\ CanSettle(w, s, l) ->
            FinishFailed(s, uncertain)
       [] OTHER -> Finish(s, w)

---------------------------------------------------------------------------
(* Clients. *)

(* submit(): a run that exists is only drained again.  The drain is lost if the *)
(* event cannot be emitted or the client has gone.                              *)
Submit(r) ==
  /\ up = "up" /\ ~draining
  /\ run' = IF run[r].status = "absent" THEN [run EXCEPT ![r].status = "queued"] ELSE run
  /\ draining' \in BOOLEAN
  /\ UNCHANGED <<entry, up, timer, waiting, faults, started, answered>>

Resume(r) ==
  /\ up = "up" /\ ~draining /\ CanResume(run[r])
  /\ run' = [run EXCEPT ![r] = resume(@)]
  /\ draining' \in BOOLEAN
  /\ UNCHANGED <<entry, up, timer, waiting, faults, started, answered>>

(* cancel() up to its wait; with nothing to wait for, to its end. *)
Cancel(r) ==
  LET w    == requestCancellation(run[r])
      wait == Active \cap StepsOf(r) # {}
  IN /\ Idle /\ run[r].status # "absent"
     /\ IF Status(w) # "cancelling"
        THEN run' = [run EXCEPT ![r] = w] /\ UNCHANGED <<entry, timer, waiting>>
        ELSE /\ run' = [run EXCEPT ![r] = IF wait THEN w ELSE finalizeCancellation(w)]
             /\ entry' = AbortRun(entry, r, {})
             /\ timer' = (timer \/ up = "up")
             /\ waiting' = IF wait THEN waiting \cup {r} ELSE waiting
     /\ UNCHANGED <<up, draining, faults, started, answered>>

(* The entries have ended, or the grace period has; a run that ended by then is *)
(* left as it is.                                                              *)
CancelFinalize(r) ==
  /\ Idle /\ r \in waiting
  /\ Active \cap StepsOf(r) = {} \/ run[r].due \/ Terminal(run[r])
  /\ run' = [run EXCEPT ![r] = finalizeCancellation(@)]
  /\ waiting' = waiting \ {r}
  /\ UNCHANGED <<entry, up, draining, timer, faults, started, answered>>

(* The client goes before the wait is over: the request stays. *)
CancelAbandoned(r) ==
  /\ Idle /\ r \in waiting
  /\ waiting' = waiting \ {r}
  /\ UNCHANGED <<run, entry, up, draining, timer, faults, started, answered>>

---------------------------------------------------------------------------
(* The drain loop. *)

Claimable(s) ==
  CanClaim(Row(s), s, DependsOn[s]) /\ Row(s).step[s].attempt < MaxClaims

Redacted == {s \in Steps : Candidate(Row(s), s) /\ ~Row(s).step[s].available}

(* claimNext for every run, of which s, if any, is claimed. *)
GivenUp(D) == [r \in Runs |-> GiveUp(run[r], D \cap StepsOf(r))]

ClaimNext(s) ==
  /\ up = "up" /\ draining /\ Cardinality(Active) < Concurrency /\ Claimable(s)
  /\ \E D \in SUBSET Redacted :
       run' = [GivenUp(D) EXCEPT ![RunOf[s]] = claimNext(@, s)]
  /\ entry' = [entry EXCEPT ![s] = [pc |-> "admitting", lease |-> Row(s).step[s].attempt + 1,
                                    aborted |-> FALSE]]
  /\ timer' = TRUE
  /\ UNCHANGED <<up, draining, waiting, faults, started, answered>>

DrainEnd ==
  /\ up = "up" /\ draining
  /\ \/ Cardinality(Active) >= Concurrency /\ UNCHANGED run
     \/ /\ Cardinality(Active) < Concurrency /\ \A s \in Steps : ~Claimable(s)
        /\ run' = GivenUp(Redacted)
  /\ draining' = FALSE
  /\ UNCHANGED <<entry, up, timer, waiting, faults, started, answered>>

---------------------------------------------------------------------------
(* execute(), from the admission event it awaits to its end. *)

Ends == UNCHANGED <<up, waiting, faults, started, answered>>

Refused(s) == Status(Row(s)) \in {"cancelling", "stopping"} \/ entry[s].aborted

(* After the event: a run that ends, or an aborted entry, is not dispatched. *)
AdmitRefused(s) ==
  LET w == Row(s)
      l == entry[s].lease
  IN /\ Idle /\ entry[s].pc = "admitting" /\ Refused(s)
     /\ CASE Status(w) = "cancelling" /\ CanAcknowledge(w, s, l) ->
               Finish(s, acknowledgeCancellation(w, s, FALSE))
          [] Status(w) = "stopping" /\ CanStop(w, s, l) ->
               Finish(s, acknowledgeStop(w, s, FALSE))
          [] Status(w) \notin {"cancelling", "stopping"} /\ CanSettle(w, s, l) ->
               FinishFailed(s, FALSE)
          [] OTHER -> Catch(s, FALSE)
     /\ Ends

(* The event cannot be emitted. *)
AdmitFails(s) ==
  /\ Idle /\ entry[s].pc = "admitting" /\ Fault /\ Catch(s, FALSE)
  /\ UNCHANGED <<up, waiting, started, answered>>

Dispatch(s) ==
  /\ Idle /\ entry[s].pc = "admitting" /\ ~Refused(s)
  /\ entry' = [entry EXCEPT ![s].pc = "dispatched"]
  /\ started' = [started EXCEPT ![s] = @ + 1]
  /\ UNCHANGED <<run, up, draining, timer, waiting, faults, answered>>

Stopped(s) == Status(Row(s)) = "stopping" \/ entry[s].aborted

Recorded(s, outcome) ==
  CASE outcome = "completed" -> Finish(s, completeStep(Row(s), s))
    [] outcome = "asked"     -> Finish(s, awaitApproval(Row(s), s))
    [] outcome = "failed"    -> FinishFailed(s, FALSE)
    [] outcome \in {"unsure", "no-effect"} -> FinishFailed(s, TRUE)

Settle(s, outcome) ==
  LET w == Row(s)
      l == entry[s].lease
  IN CASE Status(w) = "cancelling" /\ CanAcknowledge(w, s, l) ->
            Finish(s, acknowledgeCancellation(w, s, outcome # "no-effect"))
       [] Status(w) # "cancelling" /\ Stopped(s) /\ CanStop(w, s, l) ->
            Finish(s, acknowledgeStop(w, s, outcome # "no-effect"))
       [] Status(w) # "cancelling" /\ ~Stopped(s) /\ CanSettle(w, s, l) ->
            Recorded(s, outcome)
       [] OTHER -> Catch(s, TRUE)

Answers(s, outcome) ==
  /\ answered' = [answered EXCEPT ![s] = CASE outcome = "completed" -> "done"
                                            [] outcome \in {"failed", "no-effect"} -> "harmless"
                                            [] OTHER -> "nothing"]
  /\ started' = IF outcome = "asked" THEN [started EXCEPT ![s] = @ - 1] ELSE started

DispatchReturns(s, outcome) ==
  /\ Idle /\ entry[s].pc = "dispatched"
  /\ Answers(s, outcome) /\ Settle(s, outcome)
  /\ UNCHANGED <<up, waiting, faults>>

(* The store refuses that write; the catch block may get through or not. *)
SettleFails(s, outcome) ==
  /\ Idle /\ entry[s].pc = "dispatched" /\ Fault
  /\ Answers(s, outcome)
  /\ Catch(s, TRUE) \/ Finish(s, Row(s))
  /\ UNCHANGED <<up, waiting>>

DispatchThrows(s) ==
  /\ Idle /\ entry[s].pc = "dispatched" /\ Catch(s, FALSE) /\ Ends

(* A store that fails throughout: the claim is forgotten. *)
ExecuteLost(s) ==
  /\ Idle /\ Busy(s) /\ Fault /\ Finish(s, Row(s))
  /\ UNCHANGED <<up, waiting, started, answered>>

---------------------------------------------------------------------------
(* Leases and timers. *)

(* The heartbeat of a dispatch: a lease that cannot be renewed aborts it. *)
RenewFails(s) ==
  /\ Idle /\ entry[s].pc = "dispatched" /\ ~entry[s].aborted
  /\ ~CanRenew(Row(s), s, entry[s].lease)
  /\ entry' = [entry EXCEPT ![s].aborted = TRUE]
  /\ UNCHANGED <<run, up, draining, timer, waiting, faults, started, answered>>

LeaseLapses(s) ==
  /\ Row(s).step[s].status = "running" /\ ~Row(s).step[s].past
  /\ run' = [run EXCEPT ![RunOf[s]].step[s].past = TRUE]
  /\ UNCHANGED <<entry, up, draining, timer, waiting, faults, started, answered>>

DeadlinePasses(r) ==
  /\ ~Free(run[r]) /\ ~Terminal(run[r]) /\ ~run[r].due
  /\ run' = [run EXCEPT ![r].due = TRUE]
  /\ UNCHANGED <<entry, up, draining, timer, waiting, faults, started, answered>>

(* The timer of a claim: its step is quarantined if it still has the lease. *)
LeaseTimer(s) ==
  /\ Idle /\ Busy(s)
  /\ LET w    == Row(s)
         held == Leased(w, s, entry[s].lease)
         q    == IF held THEN quarantineStep(w, {s}) ELSE w
         stop == held /\ Status(q) = "stopping"
     IN /\ IF held THEN w.step[s].past ELSE ~entry[s].aborted
        /\ run' = [run EXCEPT ![RunOf[s]] = q]
        /\ entry' = [(IF stop THEN AbortRun(entry, RunOf[s], {s}) ELSE entry)
                       EXCEPT ![s].aborted = TRUE]
  /\ UNCHANGED <<up, draining, timer, waiting, faults, started, answered>>

(* What runs under a lease or a deadline has passed it. *)
LapsedStep(x) == [x EXCEPT !.past = @ \/ x.status = "running"]

Lapsed(w) ==
  [w EXCEPT !.due = @ \/ (~Free(w) /\ ~Terminal(w)),
            !.step = [s \in DOMAIN w.step |-> LapsedStep(w.step[s])]]

(* recover() of every run, and the timer for what lies ahead of it.  Its second *)
(* look at the clock comes later than its first: what passes in between is      *)
(* neither recovered nor scheduled.                                             *)
Recovered(local) ==
  \E Q \in SUBSET Steps, missed \in (IF Misses THEN BOOLEAN ELSE {FALSE}) :
    LET w(r) == recover(run[r], Local(r) \cap local, Q)
    IN /\ run' = [r \in Runs |-> IF missed THEN Lapsed(w(r)) ELSE w(r)]
       /\ timer' = (~missed /\ \E r \in Runs : Pending(w(r)))

TimerMayFire == up = "up" /\ ~draining /\ timer

RecoveryTimer ==
  /\ TimerMayFire
  /\ Recovered(Steps)
  /\ draining' = TRUE
  /\ UNCHANGED <<entry, up, waiting, faults, started, answered>>

---------------------------------------------------------------------------
(* The process. *)

Shutdown ==
  /\ up = "up" /\ ~draining /\ Fault
  /\ up' = "stopping" /\ timer' = FALSE
  /\ entry' = [s \in Steps |-> [entry[s] EXCEPT !.aborted = Busy(s)]]
  /\ UNCHANGED <<run, draining, waiting, started, answered>>

(* After the grace period: what is still active is quarantined. *)
ShutdownDone ==
  /\ up = "stopping"
  /\ run' = [r \in Runs |-> quarantineStep(run[r], Local(r))]
  /\ entry' = [s \in Steps |-> NoEntry]
  /\ up' = "down" /\ waiting' = {}
  /\ UNCHANGED <<draining, timer, faults, started, answered>>

Crash ==
  /\ up # "down" /\ Fault
  /\ entry' = [s \in Steps |-> NoEntry]
  /\ up' = "down" /\ draining' = FALSE /\ timer' = FALSE /\ waiting' = {}
  /\ UNCHANGED <<run, started, answered>>

Start ==
  /\ up = "down"
  /\ Recovered({})
  /\ up' = "up" /\ draining' = TRUE
  /\ UNCHANGED <<entry, waiting, faults, started, answered>>

(* Every step but those of the drain loop, which alone look at what a step waits for. *)
OtherNext ==
  \/ \E r \in Runs : \/ Submit(r) \/ Resume(r) \/ DeadlinePasses(r)
                     \/ Cancel(r) \/ CancelFinalize(r) \/ CancelAbandoned(r)
  \/ \E s \in Steps : \/ AdmitRefused(s) \/ AdmitFails(s) \/ Dispatch(s)
                      \/ DispatchThrows(s) \/ ExecuteLost(s)
                      \/ RenewFails(s) \/ LeaseLapses(s) \/ LeaseTimer(s)
                      \/ \E o \in Outcomes : DispatchReturns(s, o) \/ SettleFails(s, o)
  \/ RecoveryTimer \/ Shutdown \/ ShutdownDone \/ Crash \/ Start

Next == OtherNext \/ DrainEnd \/ \E s \in Steps : ClaimNext(s)

Spec == Init /\ [][Next]_vars

(* Handlers and timers run, a process that went down is started again, and time *)
(* passes for a claim nobody renews; nothing is assumed of clients, of what is   *)
(* dispatched, or of its heartbeat.  The second conjunct is SF_vars(RecoveryTimer) *)
(* with the condition under which the action is enabled written out.             *)
Orphan(s) == Row(s).step[s].status = "running" /\ ~Busy(s)

Fairness ==
  /\ WF_vars(DrainEnd \/ \E s \in Steps : ClaimNext(s))
  /\ ([]<>TimerMayFire) => []<><<RecoveryTimer>>_vars
  /\ []<>(up = "up")
  /\ WF_vars(\E s \in Steps : Orphan(s) /\ LeaseLapses(s))
  /\ WF_vars(\E r \in Runs : DeadlinePasses(r))

FairSpec == Spec /\ Fairness

---------------------------------------------------------------------------
(* Properties. *)

(* The effect of an effectful step is begun at most once, over retries, restarts *)
(* and resumptions: docs/durable-workflows.md:10-11 says that such work is never  *)
(* replayed automatically (claimNext, failStep, recover, resume).                *)
EffectfulOnce ==
  \A s \in Steps : ~Row(s).step[s].retrySafe => started[s] <= 1

(* An effectful step is recorded cancelled or failed only if it was not begun, or *)
(* said itself that it failed or had no effect; completed only if it said so     *)
(* (execute and its catch block, acknowledgeCancellation, acknowledgeStop).      *)
OutcomeKnown ==
  \A s \in Steps : LET x == Row(s).step[s] IN
    /\ x.status = "completed" => answered[s] = "done"
    /\ ~x.retrySafe /\ x.status \in {"cancelled", "failed"} /\ started[s] > 0
         => answered[s] = "harmless"

Whole(w) == \A s \in DOMAIN w.step : w.step[s].available

(* A run and its steps tell one story: the run ends when its last step does, and *)
(* with the gravest of their outcomes.  (For runs of which no input was redacted; *)
(* such a run is left as it is.)  The settling of the run in completeStep,       *)
(* failStep, quarantineStep and recover (settleRunUnsafe).                       *)
RunAgrees ==
  \A r \in Runs : LET w == run[r] IN
    Whole(w) =>
      /\ Terminal(w) => InStatus(w, TERMINAL_STATUSES) = DOMAIN w.step
      /\ Free(w) /\ InStatus(w, TERMINAL_STATUSES) = DOMAIN w.step => Terminal(w)
      /\ w.status = "completed" => InStatus(w, {"completed"}) = DOMAIN w.step
      /\ w.status = "cancelled" => w.cancel /\ InStatus(w, {"needs-review", "failed"}) = {}
      /\ w.status = "failed" => /\ InStatus(w, {"failed"}) # {}
                                /\ InStatus(w, {"needs-review"}) = {}

(* A run that is told to stop, by an operator or by the failure of one of its    *)
(* steps, ends, whatever its dispatches do (recover, the deadlines that           *)
(* requestCancellation and failStep set, and the recovery timer).                *)
StopsInTime ==
  \A r \in Runs : []<>(Status(run[r]) \notin {"cancelling", "stopping"})

(* A step that runs in nobody's hands is taken back: "scheduled fail-closed      *)
(* restart recovery" (docs/runtime-ledger.md:23; scheduleLeaseRecovery).         *)
OrphanRecovered == \A s \in Steps : []<>~Orphan(s)

(* "A workflow in needs-review remains deliberately unresolved until a dedicated *)
(* operator-resolution flow exists" (docs/operator-control-plane.md:70-72).      *)
ReviewStays ==
  [][\A r \in Runs : run[r].status = "needs-review" => run'[r].status = "needs-review"]_run
=============================================================================
