---------------------------- MODULE MCAutomation ----------------------------
(***************************************************************************)
(* DurableWorkflows, SessionLanes, EventIngress and CronSchedule for TLC,   *)
(* side by side: the first state picks one part, only that part moves, and  *)
(* the variables that it lacks stay as they are.  "workflow" is a run of    *)
(* two steps, "chain" one whose second step waits for the first; "lanes"    *)
(* two jobs of two lanes for one worker; "ingress" a watch and a source of  *)
(* two events, or a schedule watch of two occurrences, not both; "cron" a   *)
(* schedule whose plan may change.                                          *)
(***************************************************************************)
EXTENDS MCDurableWorkflows

CONSTANTS
  Parts, MaxTroubles, p1,
  Watches, Matches, Schedules, Occurrences, MaxWatches, MaxEvents, MaxInstant,
  Crons, Plans, Occurs, MaxSchedules, MaxClock, MaxChanges,
  Jobs, LaneNames, NoLane, Workers, MaxPending, MaxPendingPerLane, MaxPendingBytes, Sizes

VARIABLES
  part, job, troubles,
  source, watch, checkpoint, delivery, call, aborted, claims, due, recovery, process,
  row, dispatch, manual, clock, changes, tokens, plannedAt,
  lane, active, locked, lifecycle, degraded, busy, executions, returned

ofIngress == <<source, watch, checkpoint, delivery, call, aborted, claims, due, recovery, process>>
ofCron == <<row, dispatch, manual, clock, changes, tokens, plannedAt>>
ofLanes == <<lane, active, locked, lifecycle, degraded, busy, executions, returned>>
shared == <<job, troubles>>
allVars == <<part, vars, shared, ofIngress, ofCron, ofLanes>>

(* A watch of the second event, a schedule of two occurrences, and two plans *)
(* for a cron schedule, which share one.                                     *)
SecondEvent == [w \in Watches |-> {2}]
TwoInstants == [s \in Schedules |-> {2, 3}]
OneShared == [p \in Plans |-> IF p = p1 THEN {2, 3} ELSE {3}]

Ingress == INSTANCE EventIngress WITH
  MaxFaults <- MaxTroubles, timer <- recovery, up <- process, faults <- troubles

Cron == INSTANCE CronSchedule WITH
  Schedules <- Crons, MaxFaults <- MaxTroubles, faults <- troubles

Session == INSTANCE SessionLanes WITH
  Lanes <- LaneNames, Concurrency <- Workers, MaxFaults <- MaxTroubles,
  row <- lane, entry <- active, draining <- busy, faults <- troubles

Chain == INSTANCE DurableWorkflows WITH DependsOn <- InOrder

NoIngress ==
  /\ source = 0 /\ watch = 0 /\ checkpoint = 0 /\ delivery = 0
  /\ call = 0 /\ aborted = 0 /\ claims = 0 /\ due = 0 /\ recovery = 0 /\ process = 0
NoCron ==
  /\ row = 0 /\ dispatch = 0 /\ manual = 0 /\ clock = 0 /\ changes = 0 /\ tokens = 0
  /\ plannedAt = 0
NoLanes ==
  /\ lane = 0 /\ active = 0 /\ locked = 0 /\ lifecycle = 0 /\ degraded = 0
  /\ busy = 0 /\ executions = 0 /\ returned = 0

SumInit ==
  /\ part \in Parts /\ Init
  /\ \/ part \in {"workflow", "chain"} /\ NoIngress /\ NoCron /\ NoLanes /\ job = 0 /\ troubles = 0
     \/ part = "ingress" /\ Ingress!Init /\ NoCron /\ NoLanes
     \/ part = "cron" /\ Cron!Init /\ NoIngress /\ NoLanes
     \/ part = "lanes" /\ Session!Init /\ NoIngress /\ NoCron /\ job = 0

(* The bound: the source or the schedule. *)
OneKind == ~(source.known /\ \E s \in Schedules : watch[s] # "absent")

OfWorkflow == part \in {"workflow", "chain"}
InWorkflow == OfWorkflow /\ UNCHANGED <<part, shared, ofIngress, ofCron, ofLanes>>
InIngress == part = "ingress" /\ UNCHANGED <<part, vars, ofCron, ofLanes>>
InCron == part = "cron" /\ UNCHANGED <<part, vars, ofIngress, ofLanes>>
InLanes == part = "lanes" /\ UNCHANGED <<part, vars, job, ofIngress, ofCron>>

SumNext ==
  \/ InWorkflow /\ OtherNext
  \/ InWorkflow /\ part = "workflow" /\ (DrainEnd \/ \E s \in Steps : ClaimNext(s))
  \/ InWorkflow /\ part = "chain" /\ (Chain!DrainEnd \/ \E s \in Steps : Chain!ClaimNext(s))
  \/ InIngress /\ Ingress!Next /\ OneKind'
  \/ InCron /\ Cron!Next
  \/ InLanes /\ Session!Next

(* The fairness of DurableWorkflows, for its part.  In the others: dispatch       *)
(* coroutines, the recovery timer, the restart of a process and the cron cycle go *)
(* on; leases that nobody renews lapse; what the scheduler of the lanes has queued *)
(* on its promise chain is served, and its drain loop.  One part moves in a        *)
(* behaviour, so a disjunction over parts is as fair as its disjuncts.            *)
IngressGoesOn ==
  \/ \E k \in Ingress!Keys : Ingress!Progress(k)
  \/ Ingress!Start \/ Ingress!Reconcile \/ (Ingress!Exit /\ process = "closed")

LanesSettle ==
  \/ \E j \in Jobs : Session!Launch(j) \/ Session!FinishLogical(j) \/ Session!ExecutionFinished(j)
  \/ Session!ShutdownDone

SumFairness ==
  /\ WF_allVars(\/ InWorkflow /\ part = "workflow" /\ (DrainEnd \/ \E s \in Steps : ClaimNext(s))
                \/ InWorkflow /\ part = "chain" /\ (Chain!DrainEnd \/ \E s \in Steps : Chain!ClaimNext(s))
                \/ InIngress /\ IngressGoesOn
                \/ InCron /\ \E c \in Crons : Cron!Progress(c)
                \/ InLanes /\ (Session!DrainEnd \/ \E j \in Jobs : Session!Claim(j)))
  /\ WF_allVars(\/ InWorkflow /\ \E s \in Steps : Orphan(s) /\ LeaseLapses(s)
                \/ InLanes /\ LanesSettle)
  /\ WF_allVars(InWorkflow /\ \E r \in Runs : DeadlinePasses(r))
  /\ []<>(OfWorkflow /\ TimerMayFire) => []<><<InWorkflow /\ RecoveryTimer>>_allVars
  /\ []<>(OfWorkflow => up = "up")

SumSpec == SumInit /\ [][SumNext]_allVars /\ SumFairness

---------------------------------------------------------------------------
(* The shapes of rows, memory and files, of each part. *)
TypesOK ==
  /\ TypeOK
  /\ part = "ingress" => Ingress!TypeOK
  /\ part = "cron" => Cron!TypeOK
  /\ part = "lanes" => Session!TypeOK

(* EventIngress!DeliveredOnce and CronSchedule!NoneLost: no trigger is lost or *)
(* dispatched twice, and what a schedule moved past was submitted or is leased. *)
NothingLost ==
  /\ part = "ingress" => Ingress!DeliveredOnce
  /\ part = "cron" => Cron!NoneLost

(* EventIngress!SettledTruly and CronSchedule!OutcomeTrue: what is recorded of an *)
(* occurrence is what became of its job, and nothing older replaces it.           *)
OutcomesTrue ==
  [][/\ part = "ingress" => Ingress!SettledTrulyStep
     /\ part = "cron" => Cron!OutcomeTrueStep]_allVars

(* Again and again nothing is on its way out or to its end: a run that is being     *)
(* stopped has stopped (DurableWorkflows!StopsInTime), an aborted job has settled,  *)
(* though its executor hangs, and a shutdown has ended (SessionLanes!AbortSettles), *)
(* an accepted trigger has its final status, and a due occurrence is submitted      *)
(* (EventIngress!DeliverySettles, CronSchedule!OccurrenceSubmitted).  What has       *)
(* ended stays so, and there is finitely much of it: none stays behind for ever.     *)
AllSettles ==
  []<>(/\ OfWorkflow => \A r \in Runs : Status(run[r]) \notin {"cancelling", "stopping"}
       /\ part = "lanes" => lifecycle # "stopping" /\ \A j \in Session!Active : active[j].abort = "none"
       /\ part = "ingress" => \A k \in due : delivery[k].status \in Ingress!SETTLED
       /\ part = "cron" =>
            \A c \in Crons : row[c].status = "enabled" => row[c].lease = Cron!Never /\ ~Cron!Due(c))

(* Nothing is forgotten: the lapsed lease of a dead execution is recovered           *)
(* (DurableWorkflows!OrphanRecovered), and, if every execution ends, a queued job of  *)
(* a healthy, started scheduler is claimed (SessionLanes!EventuallyClaimed).          *)
NoneForgotten ==
  (\A j \in Jobs : []<>(part = "lanes" => active[j].execution # "running"))
    => []<>(/\ OfWorkflow => \A s \in Steps : ~Orphan(s)
            /\ part = "lanes" /\ lifecycle = "started" /\ ~degraded
                 => \A j \in Jobs : lane[j].status # "queued")
=============================================================================
