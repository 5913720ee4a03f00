---------------------------- MODULE RuntimeJobs ----------------------------
(***************************************************************************)
(* Durable runtime jobs of the Gateway: one JobSupervisor process, the     *)
(* task worker processes it forks, and the SQLite rows they share          *)
(* (module JobRows).                                                       *)
(*                                                                         *)
(* Grain of atomicity.  node:sqlite is synchronous, so a store method is   *)
(* one step, and a supervisor handler whose awaits are all store methods   *)
(* runs to its end before the event loop takes the next macrotask.  The    *)
(* microtasks a handler leaves behind - the settlement of a run whose      *)
(* worker was just killed, and the drain loop - are steps of their own,    *)
(* because worker processes interleave with them and the process may die   *)
(* between them, but no other handler of the supervisor runs first (Idle). *)
(* Worker processes run at their own pace: each of their transactions is a *)
(* step.                                                                   *)
(*                                                                         *)
(* Source: packages/kernel/src/jobs.ts (JobSupervisor and the isolated     *)
(* executor), packages/kernel/src/index.ts (executeTaskThroughAdmission    *)
(* and ExecutionAdmissionService), apps/gateway/src/server.ts.             *)
(*                                                                         *)
(* An operator marked "faulty" is an unused variant of the next one, with  *)
(* a mistake in it.                                                        *)
(***************************************************************************)
EXTENDS JobRows

CONSTANTS
  Jobs,           \* job identities
  NoJob,          \* the job of a token not yet issued
  Concurrency,    \* the supervisor's concurrency
  MaxFaults,      \* bound on process crashes, worker crashes and ownership losses
  Stalls,         \* TRUE: the machine may be suspended past a lease of a live run
  OwnershipLoss   \* TRUE: the Gateway may lose its instance ownership

ASSUME JobsAssumption ==
  /\ IsFiniteSet(Jobs) /\ NoJob \notin Jobs
  /\ Concurrency \in Nat \ {0} /\ MaxFaults \in Nat
  /\ Stalls \in BOOLEAN /\ OwnershipLoss \in BOOLEAN

VARIABLES
  db,          \* job -> its durable row (JobRows!RowType)
  born,        \* job -> created_at, as an ordinal
  run,         \* token -> the run and the worker process it was issued to
  issued,      \* tokens issued so far
  expired,     \* tokens whose lease has run out
  up,          \* the supervisor process
  owned,       \* the process holds the Gateway instance lease
  active,      \* the supervisor's active map: job -> token
  volatile,    \* the supervisor's volatilePayloads
  draining,    \* drain() is in progress or has been called
  timer,       \* lease the recovery timer waits for, NoToken when not armed
  faults,      \* faults so far
  dispatches,  \* ghost: job -> times its effect was started
  outcome      \* ghost: job -> what its last effect is known to have done

vars == <<db, born, run, issued, expired, up, owned, active, volatile, draining,
          timer, faults, dispatches, outcome>>

LiveWorker == {"boot", "bound", "admitted", "started", "returned"}
Reported == {"ok", "approval", "err"}

RunType ==
  [job : Jobs \cup {NoJob}, mode : {"run", "approval"},
   pc : {"none", "exec", "persisted", "done", "lost"},
   abort : {"none", "cancel", "timeout", "lease", "shutdown"},
   dispatched : BOOLEAN,
   wk : {"none", "dead"} \cup LiveWorker \cup Reported,
   killed : BOOLEAN, gen : Nat, replay : BOOLEAN, att : Nat]

NoRun == [job |-> NoJob, mode |-> "run", pc |-> "none", abort |-> "none",
          dispatched |-> FALSE, wk |-> "none", killed |-> FALSE, gen |-> 0,
          replay |-> FALSE, att |-> 0]

(* The rows of the job ledger, the supervisor's runs and the Gateway's memory      *)
(* keep the shapes declared above (RuntimeJobRecord, active, volatilePayloads).  *)
TypeOK ==
  /\ db \in [Jobs -> RowType]
  /\ born \in [Jobs -> Nat]
  /\ run \in [Tokens -> RunType]
  /\ issued \in 0..MaxClaims
  /\ expired \subseteq Tokens
  /\ up \in {"down", "starting", "up", "stopping"}
  /\ owned \in BOOLEAN
  /\ active \in [Jobs -> {NoToken} \cup Tokens]
  /\ volatile \subseteq Jobs
  /\ draining \in BOOLEAN
  /\ timer \in {NoToken} \cup Tokens
  /\ faults \in 0..MaxFaults
  /\ dispatches \in [Jobs -> Nat]
  /\ outcome \in [Jobs -> {"none", "ok", "failed"}]

AbsentRow ==
  [kind |-> CHOOSE k \in Kinds : TRUE, status |-> "absent", attempts |-> 0, lease |-> NoToken, open |-> {},
   num |-> 0, state |-> "none", owner |-> NoToken, bound |-> FALSE,
   audited |-> FALSE, cancelRequested |-> FALSE, persisted |-> FALSE]

Init ==
  /\ db = [j \in Jobs |-> AbsentRow]
  /\ born = [j \in Jobs |-> 0]
  /\ run = [g \in Tokens |-> NoRun]
  /\ issued = 0 /\ expired = {} /\ up = "up" /\ owned = TRUE
  /\ active = [j \in Jobs |-> NoToken]
  /\ volatile = {} /\ draining = FALSE /\ timer = NoToken /\ faults = 0
  /\ dispatches = [j \in Jobs |-> 0]
  /\ outcome = [j \in Jobs |-> "none"]

---------------------------------------------------------------------------
(* A run that is settled or lost and whose worker is gone is not looked at      *)
(* again: only its token remains.                                              *)
Kept(w) ==
  IF w.pc \in {"done", "lost"} /\ w.wk \notin LiveWorker
  THEN [NoRun EXCEPT !.job = w.job, !.pc = "done"] ELSE w

Row(g) == db[run[g].job]
SetRow(j, r) == db' = [db EXCEPT ![j] = r]
Alive(g) == run[g].pc \in {"exec", "persisted"}   \* the run of a live supervisor

(* The executor promise of g has rejected: its worker was killed.  What is left *)
(* of that handler runs before any other one.                                  *)
MustSettle(g) == run[g].pc = "exec" /\ run[g].killed /\ run[g].wk # "none"

Idle ==
  /\ ~draining
  /\ \A g \in Tokens : ~MustSettle(g) /\ run[g].pc # "persisted"

\* controller.abort: the first reason stays; process.exec gets a message, others are killed
Abort(w, reason) ==
  IF w.abort # "none" THEN w
  ELSE [w EXCEPT !.abort = reason,
                 !.killed = @ \/ (w.wk # "none" /\ ~db[w.job].kind.graceful)]

\* the signal of the executor is aborted, by the controller or by the lost ownership
Interrupted(g) == run[g].abort # "none" \/ (Alive(g) /\ ~owned)

\* drain(): none is started once the supervisor is stopping, one in progress goes on
RequestDrain == draining' = (draining \/ up = "up")

\* what every handler of the supervisor leaves alone
UnchangedWorld == UNCHANGED <<born, expired, owned, faults, dispatches, outcome>>

---------------------------------------------------------------------------
(* Supervisor: admission and dispatch *)

\* submit, with its trailing drain
Submit(j, k) ==
  /\ up = "up" /\ owned /\ Idle
  /\ db[j].status = "absent"
  /\ SetRow(j, create(db[j], k))
  /\ born' = [born EXCEPT ![j] = Cardinality({i \in Jobs : db[i].status # "absent"}) + 1]
  /\ volatile' = volatile \cup {j}
  /\ draining' = TRUE
  /\ UNCHANGED <<run, issued, expired, up, owned, active, timer, faults, dispatches,
                 outcome>>

Queued == {j \in Jobs : db[j].status = "queued"}
Oldest(j) == j \in Queued /\ \A i \in Queued : born[j] <= born[i]
\* faulty: off by one
AtCapacityLate == Cardinality({j \in Jobs : active[j] # NoToken}) > Concurrency
AtCapacity == Cardinality({j \in Jobs : active[j] # NoToken}) >= Concurrency

\* drain: nothing left to claim, or no capacity (MaxClaims bounds the model)
DrainEnd ==
  /\ draining
  /\ \A g \in Tokens : run[g].pc # "persisted" /\ ~MustSettle(g)
  /\ AtCapacity \/ Queued = {} \/ issued = MaxClaims
  /\ draining' = FALSE
  /\ UNCHANGED <<db, born, run, issued, expired, up, owned, active, volatile, timer,
                 faults, dispatches, outcome>>

CanClaim(j) ==
  /\ draining /\ ~AtCapacity /\ issued < MaxClaims /\ Oldest(j)
  /\ \A g \in Tokens : run[g].pc # "persisted" /\ ~MustSettle(g)

(* drain: claim the oldest queued job and start its run; without the instance  *)
(* lease the executor throws before it forks a worker.                         *)
DrainDispatch(j) ==
  /\ CanClaim(j)
  /\ db[j].kind.recoverable \/ j \in volatile
  /\ LET g == issued + 1 IN
       /\ issued' = g
       /\ SetRow(j, claimNextQueued(db[j], g))
       /\ run' = [run EXCEPT ![g] = [NoRun EXCEPT !.job = j, !.pc = "exec",
                                                  !.wk = IF owned THEN "boot" ELSE "err",
                                                  !.killed = ~owned,
                                                  !.gen = db[j].attempts + 1]]
       /\ active' = [active EXCEPT ![j] = g]
  /\ UNCHANGED <<up, volatile, draining, timer>> /\ UnchangedWorld

\* drain: a claimed job whose input is gone fails at once
DrainFail(j) ==
  /\ CanClaim(j)
  /\ ~db[j].kind.recoverable /\ j \notin volatile
  /\ issued' = issued + 1
  /\ SetRow(j, update(claimNextQueued(db[j], issued + 1), "failed"))
  /\ UNCHANGED <<run, up, active, volatile, draining, timer>> /\ UnchangedWorld

---------------------------------------------------------------------------
(* Worker process of g: executeTaskThroughAdmission *)

UnchangedSupervisor == UNCHANGED <<born, issued, expired, up, owned, active, volatile,
                                   draining, timer, faults>>

WorkerGoes(g, wk) == run' = [run EXCEPT ![g] = Kept([@ EXCEPT !.wk = wk])]
Recovering(g) == run[g].gen > 1 \/ run[g].mode = "approval"
Deferred(g) == run[g].mode = "approval" \/ Row(g).kind.protected

(* The completed run is replayed; otherwise the request is bound to the run id. *)
(* Only a recovery may go on with a request that was bound before, and only the *)
(* continuation may go on with an attempt that awaits approval.                 *)
WorkerBind(g) ==
  LET r == Row(g)
      refused == \/ r.bound /\ ~Recovering(g)
                 \/ r.bound /\ run[g].mode = "run" /\ r.state = "awaiting-approval"
  IN
  /\ run[g].wk = "boot"
  /\ run' = [run EXCEPT ![g] = Kept([@ EXCEPT
       !.wk = IF r.audited THEN "ok" ELSE IF refused THEN "err" ELSE "bound",
       !.replay = r.bound])]
  /\ SetRow(run[g].job, IF r.audited THEN r ELSE [r EXCEPT !.bound = TRUE])
  /\ UnchangedSupervisor /\ UNCHANGED <<dispatches, outcome>>

\* admit: the first envelope, the queued attempt kept, or a new attempt
WorkerAdmit(g) ==
  LET r == Row(g)
      resuming == run[g].replay /\ r.num > 0
  IN
  /\ run[g].wk = "bound"
  /\ \E after \in
       CASE resuming /\ CanReuse(r, run[g].mode = "approval") -> {r}
         [] resuming /\ CanResume(r) -> {resumeExecution(r)}
         [] ~resuming /\ CanAdmit(r) -> {admitExecution(r)}
         [] OTHER -> {} :
       /\ SetRow(run[g].job, after)
       /\ run' = [run EXCEPT ![g].wk = "admitted", ![g].att = after.num]
  /\ UnchangedSupervisor /\ UNCHANGED <<dispatches, outcome>>

\* the worker fails before an attempt is its own: binding, policy, admission
WorkerRefused(g) ==
  /\ run[g].wk \in {"boot", "bound"}
  /\ WorkerGoes(g, "err")
  /\ UNCHANGED db
  /\ UnchangedSupervisor /\ UNCHANGED <<dispatches, outcome>>

(* start: the dispatch boundary.  The attempt moves to running, unless it is    *)
(* running already.  An approval request has no effect of its own.              *)
WorkerStart(g) ==
  LET r == Row(g)
      running == run[g].att = r.num /\ r.state = "running"
  IN
  /\ run[g].wk = "admitted"
  /\ running \/ CanTransition(r, g, run[g].att, "running")
  /\ SetRow(run[g].job, IF running THEN r ELSE transitionExecutionAttempt(r, g, "running"))
  /\ WorkerGoes(g, "started")
  /\ IF r.kind.approval /\ run[g].mode = "run"
     THEN UNCHANGED <<dispatches, outcome>>
     ELSE /\ dispatches' = [dispatches EXCEPT ![run[g].job] = @ + 1]
          /\ outcome' = [outcome EXCEPT ![run[g].job] = "none"]
  /\ UnchangedSupervisor

\* ExecutionAdmissionService.fail, a no-op under deferred settlement
failAttempt(g, to) ==
  IF ~Deferred(g) /\ CanTransition(Row(g), g, run[g].att, to)
  THEN transitionExecutionAttempt(Row(g), g, to) ELSE Row(g)

(* How the worker closes its attempt on an error: told says that the abort had   *)
(* reached it.  A tool that is neither retry-safe nor pure leaves an uncertain  *)
(* outcome if it was told to stop, or had returned.                            *)
UncertainOr(g, state) ==
  IF Row(g).kind.retrySafe \/ Row(g).kind.protected \/ Row(g).kind.fenced
  THEN state ELSE "needs-review"
ErrorState(g, told) == IF told THEN UncertainOr(g, "cancelled") ELSE "failed"
MayBeTold(g) == IF Interrupted(g) /\ Row(g).kind.graceful THEN BOOLEAN ELSE {FALSE}

\* denied after admission (sentinel, capability token, audit), aborted, or start refused
WorkerDenied(g) ==
  /\ run[g].wk = "admitted"
  /\ \E told \in MayBeTold(g) : SetRow(run[g].job, failAttempt(g, ErrorState(g, told)))
  /\ WorkerGoes(g, "err")
  /\ UnchangedSupervisor /\ UNCHANGED <<dispatches, outcome>>

\* the tool answers approval.required and the attempt waits for the operator
WorkerApproval(g) ==
  /\ run[g].wk = "started"
  /\ Row(g).kind.approval /\ run[g].mode = "run"
  /\ IF CanTransition(Row(g), g, run[g].att, "awaiting-approval")
     THEN /\ SetRow(run[g].job, transitionExecutionAttempt(Row(g), g, "awaiting-approval"))
          /\ WorkerGoes(g, "approval")
     ELSE UNCHANGED db /\ WorkerGoes(g, "err")
  /\ UnchangedSupervisor /\ UNCHANGED <<dispatches, outcome>>

HasEffect(g) == ~(Row(g).kind.approval /\ run[g].mode = "run")
KnownOutcome(g, what) ==
  outcome' = IF HasEffect(g) THEN [outcome EXCEPT ![run[g].job] = what] ELSE outcome

\* the tool throws: it failed, or it was told to stop
WorkerThrows(g) ==
  /\ run[g].wk = "started"
  /\ \E told \in MayBeTold(g) :
       /\ SetRow(run[g].job, failAttempt(g, ErrorState(g, told)))
       /\ IF told THEN UNCHANGED outcome ELSE KnownOutcome(g, "failed")
  /\ WorkerGoes(g, "err")
  /\ UnchangedSupervisor /\ UNCHANGED dispatches

\* the tool returns and task.completed is appended to the audit store
WorkerReturns(g) ==
  /\ run[g].wk = "started" /\ HasEffect(g) /\ ~Row(g).kind.fenced
  /\ SetRow(run[g].job, [Row(g) EXCEPT !.audited = TRUE])
  /\ KnownOutcome(g, "ok")
  /\ WorkerGoes(g, "returned")
  /\ UnchangedSupervisor /\ UNCHANGED dispatches

(* The tool returned, and then its outcome needs review, the abort was noticed, *)
(* or the audit append or the ledger step failed.                              *)
WorkerUncertain(g) ==
  /\ run[g].wk \in {"started", "returned"}
  /\ SetRow(run[g].job, failAttempt(g, UncertainOr(g, "failed")))
  /\ WorkerGoes(g, "err")
  /\ UnchangedSupervisor /\ UNCHANGED <<dispatches, outcome>>

(* agent.delegate answers with the status of its graph, which settles the       *)
(* attempt; nothing is audited as completed.                                   *)
WorkerGraphEnds(g) ==
  LET r == Row(g) IN
  /\ run[g].wk = "started" /\ r.kind.fenced
  /\ IF run[g].att # r.num \/ Settled(r)
     THEN UNCHANGED <<db, outcome>> /\ WorkerGoes(g, "ok")
     ELSE \E status \in TERMINAL_JOB_STATES :
            /\ CanTransition(r, g, run[g].att, status)
            /\ SetRow(run[g].job, transitionExecutionAttempt(r, g, status))
            /\ KnownOutcome(g, IF status = "completed" THEN "ok" ELSE "failed")
            /\ WorkerGoes(g, "ok")
  /\ UnchangedSupervisor /\ UNCHANGED dispatches

\* complete: settle the attempt and report, unless another generation owns it
WorkerSettles(g) ==
  LET r == Row(g)
      live == run[g].att = r.num /\ ~Settled(r) /\ ~Deferred(g)
  IN
  /\ run[g].wk = "returned"
  /\ IF ~live
     THEN UNCHANGED db /\ WorkerGoes(g, "ok")
     ELSE IF CanTransition(r, g, run[g].att, "completed")
     THEN SetRow(run[g].job, transitionExecutionAttempt(r, g, "completed")) /\ WorkerGoes(g, "ok")
     ELSE UNCHANGED db /\ WorkerGoes(g, "err")
  /\ UnchangedSupervisor /\ UNCHANGED <<dispatches, outcome>>

\* a worker told to exit (SIGTERM, disconnect) does so after a while
WorkerExits(g) ==
  /\ run[g].killed /\ run[g].wk \in LiveWorker
  /\ WorkerGoes(g, "dead")
  /\ UNCHANGED db
  /\ UnchangedSupervisor /\ UNCHANGED <<dispatches, outcome>>

\* a worker dies on its own
WorkerCrash(g) ==
  /\ faults < MaxFaults /\ faults' = faults + 1
  /\ ~run[g].killed /\ run[g].wk \in LiveWorker
  /\ WorkerGoes(g, "dead")
  /\ UNCHANGED <<db, born, issued, expired, up, owned, active, volatile, draining, timer,
                 dispatches, outcome>>

WorkerStep(g) ==
  \/ WorkerBind(g) \/ WorkerAdmit(g) \/ WorkerRefused(g) \/ WorkerStart(g)
  \/ WorkerDenied(g) \/ WorkerApproval(g) \/ WorkerThrows(g) \/ WorkerReturns(g)
  \/ WorkerUncertain(g) \/ WorkerGraphEnds(g) \/ WorkerSettles(g) \/ WorkerExits(g)

---------------------------------------------------------------------------
(* Supervisor: the settlement of a run *)

(* The row is written and the finally block runs: the active entry goes, whose  *)
(* ever it is, the input goes unless the job will need it, drain is called.     *)
Finish(g, r) ==
  LET j == run[g].job IN
  /\ SetRow(j, r)
  /\ run' = [run EXCEPT ![g] = Kept([@ EXCEPT !.pc = "done"])]
  /\ active' = [active EXCEPT ![j] = NoToken]
  /\ volatile' = IF r.status \in {"queued", "awaiting-approval"} THEN volatile ELSE volatile \ {j}
  /\ RequestDrain
  /\ UNCHANGED <<issued, up, timer>> /\ UnchangedWorld

Answered(g) ==
  /\ run[g].mode = "run" /\ run[g].pc = "exec"
  /\ run[g].abort = "none" /\ ~run[g].killed /\ Idle

\* execute resolved and nothing has to be persisted first
RunResolved(g) ==
  /\ Answered(g)
  /\ \/ /\ run[g].wk = "approval"
        /\ Finish(g, updateFenced(Row(g), g, "awaiting-approval"))
     \/ /\ run[g].wk = "ok" /\ ~Row(g).kind.protected
        /\ Finish(g, updateFenced(Row(g), g, "completed"))

\* persistResult, before the job may become terminal
RunPersist(g) ==
  /\ Answered(g)
  /\ run[g].wk = "ok" /\ Row(g).kind.protected
  /\ SetRow(run[g].job, [Row(g) EXCEPT !.persisted = TRUE])
  /\ run' = [run EXCEPT ![g].pc = "persisted"]
  /\ UNCHANGED <<issued, up, active, volatile, draining, timer>> /\ UnchangedWorld

\* the settlement that follows it
RunAdopt(g) ==
  /\ run[g].pc = "persisted"
  /\ Finish(g, adoptProtectedResult(Row(g), FALSE))

\* faulty: the error of an aborted run is taken at its word; a cancelled run is retried
CatchStatusTrusting(g, backendReturned) ==
  LET r == Row(g)
      isCancel == run[g].abort = "cancel"
  IN  IF ~isCancel /\ RetryLeft(r) /\ r.kind.recoverable THEN "queued"
      ELSE IF ~r.kind.retrySafe /\ backendReturned THEN "needs-review"
      ELSE IF isCancel THEN "cancelled" ELSE "failed"
CatchStatusRetries(g, backendReturned) ==
  IF RetryLeft(Row(g)) THEN "queued"
  ELSE IF ~Row(g).kind.retrySafe THEN "needs-review" ELSE "failed"

(* The catch block.  The outcome is unknown when a tool that is not retry-safe  *)
(* had returned, was aborted, or lost its worker.                              *)
CatchStatus(g, backendReturned) ==
  LET r == Row(g)
      isCancel == run[g].abort = "cancel"
      exited == run[g].wk = "dead" /\ ~run[g].killed
      unknown == ~r.kind.retrySafe /\ (backendReturned \/ run[g].abort # "none" \/ exited)
  IN  IF ~isCancel /\ RetryLeft(r) /\ r.kind.recoverable THEN "queued"
      ELSE IF unknown THEN "needs-review"
      ELSE IF isCancel THEN "cancelled" ELSE "failed"

\* execute rejected, or resolved after an abort
RunRejected(g) ==
  LET late == run[g].abort # "none" /\ ~run[g].killed /\ run[g].wk \in {"ok", "approval"} IN
  /\ run[g].mode = "run"
  /\ \/ MustSettle(g)
     \/ run[g].pc = "exec" /\ ~run[g].killed /\ Idle /\ (run[g].wk \in {"err", "dead"} \/ late)
  /\ Finish(g, updateFenced(Row(g), g, CatchStatus(g, late)))

\* persistResult fails after execute resolved
RunPersistFails(g) ==
  /\ Answered(g)
  /\ run[g].wk = "ok" /\ Row(g).kind.protected
  /\ Finish(g, updateFenced(Row(g), g, CatchStatus(g, TRUE)))

RunSettles(g) == RunResolved(g) \/ RunPersist(g) \/ RunAdopt(g) \/ RunRejected(g)

---------------------------------------------------------------------------
(* Supervisor: timers, leases and cancellation *)

AbortRun(g, reason) ==
  /\ run' = [run EXCEPT ![g] = Abort(@, reason)]
  /\ UNCHANGED <<db, issued, up, active, volatile, draining, timer>>
  /\ UnchangedWorld

\* the timeout of the run, or of the approval continuation
Timeout(g) ==
  /\ run[g].pc = "exec" /\ run[g].abort = "none" /\ ~run[g].killed /\ Idle
  /\ AbortRun(g, "timeout")

\* the heartbeat finds its lease gone
HeartbeatLost(g) ==
  /\ run[g].pc = "exec" /\ run[g].abort = "none" /\ Idle
  /\ Row(g).lease # g \/ Row(g).status \notin {"running", "cancelling"}
  /\ AbortRun(g, "lease")

\* a process.exec worker that did not stop by itself is killed
GraceExpires(g) ==
  /\ run[g].pc = "exec" /\ Interrupted(g) /\ run[g].wk \in LiveWorker
  /\ Row(g).kind.graceful /\ ~run[g].killed /\ Idle
  /\ run' = [run EXCEPT ![g].killed = TRUE]
  /\ UNCHANGED <<db, issued, up, active, volatile, draining, timer>>
  /\ UnchangedWorld

\* the heartbeat renews a lease, were it too late or not
Renew(g) ==
  /\ run[g].pc = "exec" /\ g \in expired /\ Idle
  /\ Row(g).lease = g /\ Row(g).status \in {"running", "cancelling"}
  /\ expired' = expired \ {g}
  /\ UNCHANGED <<db, born, run, issued, up, owned, active, volatile, draining, timer,
                 faults, dispatches, outcome>>

(* Time passes the end of a lease.  A living run renews its lease and a killed  *)
(* worker exits long before (a lease lasts two minutes and more), unless the    *)
(* machine stalls.                                                             *)
Expire(g) ==
  /\ run[g].pc # "none" /\ Row(g).lease = g /\ g \notin expired
  /\ Stalls \/ (~Alive(g) /\ \A h \in Tokens : run[h].killed => run[h].wk \notin LiveWorker)
  /\ expired' = expired \cup {g}
  /\ UNCHANGED <<db, born, run, issued, up, owned, active, volatile, draining, timer,
                 faults, dispatches, outcome>>

\* cancel: the active run is aborted and settles the row; otherwise the row is settled here
CancelWith(j, r) ==
  /\ SetRow(j, r)
  /\ run' = IF active[j] = NoToken THEN run
            ELSE [run EXCEPT ![active[j]] = Abort(@, "cancel")]
  /\ IF active[j] = NoToken
     THEN volatile' = volatile \ {j} /\ RequestDrain
     ELSE UNCHANGED <<volatile, draining>>
  /\ UNCHANGED <<issued, up, active, timer>> /\ UnchangedWorld

CanCancel(j) ==
  /\ up = "up" /\ owned /\ Idle
  /\ db[j].status \notin TERMINAL_JOB_STATES \cup {"absent"}

Cancel(j) ==
  /\ CanCancel(j)
  /\ CancelWith(j, cancel(db[j]))

\* onCancel throws: the job is quarantined with its lease
CancelFenceFails(j) ==
  /\ CanCancel(j) /\ db[j].kind.fenced
  /\ CancelWith(j, updateKeepingLease(db[j], "needs-review"))

---------------------------------------------------------------------------
(* Supervisor: the approved continuation *)

\* beginApproval: its claim does not look at the concurrency
BeginApproval(j) ==
  LET g == issued + 1 IN
  /\ up = "up" /\ owned /\ Idle /\ issued < MaxClaims
  /\ active[j] = NoToken /\ CanClaimApproval(db[j])
  /\ issued' = g
  /\ SetRow(j, claimApproval(db[j], g))
  /\ run' = [run EXCEPT ![g] = [NoRun EXCEPT !.job = j, !.mode = "approval", !.pc = "exec"]]
  /\ active' = [active EXCEPT ![j] = g]
  /\ UNCHANGED <<up, volatile, draining, timer>> /\ UnchangedWorld

\* markDispatched, then the executor, which throws without the instance lease
ApprovalDispatch(g) ==
  /\ run[g].mode = "approval" /\ run[g].pc = "exec" /\ Idle
  /\ run[g].wk = "none" /\ run[g].abort = "none"
  /\ run' = [run EXCEPT ![g].dispatched = TRUE, ![g].killed = ~owned,
                        ![g].wk = IF owned THEN "boot" ELSE "err"]
  /\ UNCHANGED <<db, issued, up, active, volatile, draining, timer>>
  /\ UnchangedWorld

\* the client of the approval request goes away, which kills the worker
RequestAborted(g) ==
  /\ run[g].mode = "approval" /\ run[g].pc = "exec" /\ Idle
  /\ run[g].wk # "none" /\ run[g].abort = "none" /\ ~Row(g).kind.graceful
  /\ run' = [run EXCEPT ![g].killed = TRUE]
  /\ UNCHANGED <<db, issued, up, active, volatile, draining, timer>>
  /\ UnchangedWorld

(* settleApproval, after the worker answered or before it was dispatched.  A    *)
(* continuation that lost its active entry or its lease changes no row.         *)
ApprovalSettle(g) ==
  LET j == run[g].job
      interrupted == run[g].abort # "none"
      error == run[g].killed \/ run[g].wk # "ok"
      settled == IF CanSettleApproval(Row(g), g)
                 THEN settleApproval(Row(g), run[g].dispatched, interrupted, error) ELSE Row(g)
  IN
  /\ run[g].mode = "approval" /\ run[g].pc = "exec"
  /\ MustSettle(g) \/ (Idle /\ run[g].wk \in {"none", "dead"} \cup Reported)
  /\ run' = [run EXCEPT ![g] = Kept([@ EXCEPT !.pc = "done"])]
  /\ IF active[j] = g
     THEN /\ SetRow(j, settled)
          /\ active' = [active EXCEPT ![j] = NoToken]
          /\ volatile' = volatile \ {j}
          /\ RequestDrain
     ELSE UNCHANGED <<db, active, volatile, draining>>
  /\ UNCHANGED <<issued, up, timer>> /\ UnchangedWorld

---------------------------------------------------------------------------
(* Supervisor process: shutdown, loss and restart *)

\* shutdown: every active run is aborted
Shutdown ==
  /\ up = "up"
  /\ IF owned THEN Idle ELSE \A g \in Tokens : ~MustSettle(g) /\ run[g].pc # "persisted"
  /\ up' = "stopping"
  /\ timer' = NoToken
  /\ run' = [g \in Tokens |->
               IF run[g].job \in Jobs /\ active[run[g].job] = g
               THEN Abort(run[g], "shutdown") ELSE run[g]]
  /\ UNCHANGED <<db, issued, active, volatile, draining>> /\ UnchangedWorld

Memoryless ==
  /\ active' = [j \in Jobs |-> NoToken]
  /\ volatile' = {} /\ draining' = FALSE /\ timer' = NoToken /\ owned' = TRUE

\* shutdown: the active runs have settled and the process ends
ShutdownDone ==
  /\ up = "stopping" /\ Idle
  /\ \A j \in Jobs : active[j] = NoToken
  /\ up' = "down"
  /\ Memoryless
  /\ run' = [g \in Tokens |-> IF Alive(g) THEN Kept([run[g] EXCEPT !.pc = "lost", !.killed = TRUE])
                              ELSE run[g]]
  /\ UNCHANGED <<db, born, issued, expired, faults, dispatches, outcome>>

(* markLost: the ownership signal reaches the executors, not the controllers;   *)
(* the shutdown of the supervisor is only called later.                         *)
LoseOwnership ==
  /\ OwnershipLoss /\ up \in {"up", "stopping"} /\ owned /\ Idle
  /\ faults < MaxFaults /\ faults' = faults + 1
  /\ owned' = FALSE
  /\ run' = [g \in Tokens |->
               IF run[g].pc = "exec" /\ run[g].wk # "none" /\ ~Row(g).kind.graceful
               THEN [run[g] EXCEPT !.killed = TRUE] ELSE run[g]]
  /\ UNCHANGED <<db, born, issued, expired, up, active, volatile, draining, timer,
                 dispatches, outcome>>

\* the process dies: its workers are disconnected, its memory is gone
Crash ==
  /\ up # "down"
  /\ faults < MaxFaults /\ faults' = faults + 1
  /\ up' = "down"
  /\ Memoryless
  /\ run' = [g \in Tokens |-> IF Alive(g) THEN Kept([run[g] EXCEPT !.pc = "lost", !.killed = TRUE])
                              ELSE run[g]]
  /\ UNCHANGED <<db, born, issued, expired, dispatches, outcome>>

\* recoverPersistedChannelResults, on one job
RecoveredResult(r) ==
  IF ~r.kind.protected \/ r.status \notin {"running", "cancelling", "completed"} THEN r
  ELSE IF ~r.persisted THEN IF r.state = "completed" THEN update(r, "needs-review") ELSE r
  ELSE IF r.status = "completed" THEN r ELSE adoptProtectedResult(r, FALSE)

RecoverResults ==
  /\ up = "down"
  /\ up' = "starting"
  /\ db' = [j \in Jobs |-> RecoveredResult(db[j])]
  /\ UNCHANGED <<born, run, issued, expired, owned, active, volatile, draining, timer,
                 faults, dispatches, outcome>>

\* faulty: recovery leaves the jobs it requeued waiting for the next submission
RecoverQuietly ==
  /\ db' = [j \in Jobs |-> IF NeedsRecovery(db[j], expired) THEN recover(db[j]) ELSE db[j]]
  /\ LET waiting == {db'[j].lease : j \in {i \in Jobs : db'[i].status \in {"running", "cancelling"}}}
                    \ (expired \cup {NoToken})
     IN  timer' \in IF waiting = {} THEN {NoToken} ELSE waiting
  /\ UNCHANGED draining

\* recover over all jobs, and the lease the next recovery waits for
Recover ==
  /\ db' = [j \in Jobs |-> IF NeedsRecovery(db[j], expired) THEN recover(db[j]) ELSE db[j]]
  /\ LET waiting == {db'[j].lease : j \in {i \in Jobs : db'[i].status \in {"running", "cancelling"}}}
                    \ (expired \cup {NoToken})
     IN  timer' \in IF waiting = {} THEN {NoToken} ELSE waiting
  /\ draining' = TRUE

\* start
Start ==
  /\ up = "starting"
  /\ up' = "up"
  /\ Recover
  /\ UNCHANGED <<run, issued, active, volatile>> /\ UnchangedWorld

(* The recovery timer fires, no earlier than the end of the lease it was armed  *)
(* for, which a living run has renewed since.                                   *)
RecoveryTimer ==
  /\ up = "up" /\ timer # NoToken /\ Idle
  /\ Alive(timer) \/ timer \in expired \/ Row(timer).lease # timer
  /\ Recover
  /\ UNCHANGED <<run, issued, up, active, volatile>> /\ UnchangedWorld

---------------------------------------------------------------------------
RunStep(g) ==
  \/ WorkerStep(g) \/ WorkerCrash(g)
  \/ RunSettles(g) \/ RunPersistFails(g)
  \/ Timeout(g) \/ HeartbeatLost(g) \/ GraceExpires(g) \/ Renew(g) \/ Expire(g)
  \/ ApprovalDispatch(g) \/ RequestAborted(g) \/ ApprovalSettle(g)

JobStep(j) ==
  \/ \E k \in Kinds : Submit(j, k)
  \/ DrainDispatch(j) \/ DrainFail(j)
  \/ Cancel(j) \/ CancelFenceFails(j) \/ BeginApproval(j)

ProcessStep ==
  \/ DrainEnd \/ Shutdown \/ ShutdownDone \/ LoseOwnership \/ Crash
  \/ RecoverResults \/ Start \/ RecoveryTimer

Next ==
  \/ \E g \in Tokens : RunStep(g)
  \/ \E j \in Jobs : JobStep(j)
  \/ ProcessStep

Spec == Init /\ [][Next]_vars

(* Fairness.  The event loop serves every callback that keeps becoming due      *)
(* (strong: other handlers run in between); the microtasks of a handler, the    *)
(* exit of a worker that was told to and the passing of time need no luck       *)
(* (weak).  A tool itself may hang: nothing else is assumed of a worker.  The   *)
(* process is restarted whenever it is down.  Each run takes its callbacks a    *)
(* bounded number of times, so one condition over all of them is enough.        *)
Callback(g) == RunSettles(g) \/ ApprovalSettle(g) \/ Timeout(g) \/ GraceExpires(g)
FairSpec ==
  /\ Spec
  /\ WF_vars(ShutdownDone \/ RecoverResults \/ Start)
  /\ WF_vars(DrainEnd \/ \E j \in Jobs : DrainDispatch(j) \/ DrainFail(j))
  /\ WF_vars(\E g \in Tokens : WorkerExits(g))
  /\ WF_vars(\E g \in Tokens : Expire(g))
  /\ SF_vars(\E g \in Tokens : Callback(g))
  /\ SF_vars(RecoveryTimer)

---------------------------------------------------------------------------
(* Properties *)

(* The ledger of leases and attempts: a job waiting in a queue or for the       *)
(* operator holds no lease, a job being dispatched holds one, the lease it      *)
(* holds is the only one of its lease rows not released, and an attempt has an  *)
(* owner exactly while it executes (SqliteJobStore, RunLedger).                *)
LedgerConsistent(r) ==
  /\ r.open = {r.lease} \ {NoToken}
  /\ r.status \in {"absent", "queued", "awaiting-approval"} => r.lease = NoToken
  /\ r.status \in {"running", "cancelling"} => r.lease # NoToken
  /\ r.state \in {"running", "cancelling"} <=> r.owner # NoToken
  /\ r.num = 0 <=> r.state = "none"
LeaseLedger == \A j \in Jobs : LedgerConsistent(db[j])

(* The effect of a tool that is not retry-safe is started at most once, that of *)
(* another at most maxAttempts times, through crashes, timeouts, cancellations  *)
(* and restarts, whoever requeues the job (executeTaskThroughAdmission, run,    *)
(* recover).                                                                    *)
AtMostOnceUnsafe ==
  \A j \in Jobs : dispatches[j] <= IF db[j].kind.retrySafe THEN MaxAttempts ELSE 1

\* agent.run and agent.delegate: not retry-safe, but their descriptor is pure
Pure(k) == k.protected \/ k.fenced

(* A published end is the truth.  A job is completed only if a worker of it     *)
(* returned and audited its completion (a graph: reported it), and a channel    *)
(* reply only after its protected result was persisted; once the effect of an   *)
(* unsafe tool was started, its job is failed or cancelled only if the tool     *)
(* reported that it failed (run, its catch block, recover, settleApproval,      *)
(* adoptProtectedResult).                                                       *)
OutcomeHonest ==
  \A j \in Jobs :
    /\ db[j].status = "completed" =>
         /\ IF db[j].kind.fenced THEN outcome[j] = "ok" ELSE db[j].audited
         /\ db[j].kind.protected => db[j].persisted
    /\ /\ ~db[j].kind.retrySafe /\ ~Pure(db[j].kind) /\ dispatches[j] > 0
       /\ db[j].status \in {"failed", "cancelled"}
       => outcome[j] = "failed"

(* The published end of an unsafe job and the end of its attempt agree unless   *)
(* an operator must look, though a killed worker may go on for a while after    *)
(* its job was settled (update, transitionAttempt, createIsolatedTaskExecutor). *)
ProjectionAgrees ==
  \A j \in Jobs :
    /\ ~db[j].kind.retrySafe
    /\ db[j].status \in TERMINAL_JOB_STATES /\ db[j].num > 0
    => db[j].status \in {db[j].state, "needs-review"}

(* While no lease of a live run expires, one worker process at most works on a  *)
(* job, except that the retry of a retry-safe one does not wait for the killed  *)
(* worker to exit; and a run that was not told to stop holds the lease of its   *)
(* job: nobody else can settle it (recover, renewLease, run).                  *)
Working(g) == run[g].wk \in LiveWorker
SingleOwner ==
  /\ \A g, h \in Tokens :
       g # h /\ Working(g) /\ Working(h) /\ run[g].job = run[h].job
       => Row(g).kind.retrySafe /\ (run[g].killed \/ run[h].killed)
  /\ \A g \in Tokens :
       run[g].pc = "exec" /\ run[g].abort = "none" => Row(g).lease = g

(* The runs of a living process, approvals aside, never exceed its concurrency  *)
(* (drain).                                                                    *)
Capacity ==
  Cardinality({g \in Tokens : Alive(g) /\ run[g].mode = "run"}) <= Concurrency

(* What those who submit a job see of it: a queue and a wait for the operator   *)
(* look alike.                                                                 *)
Told(j) ==
  CASE db[j].status = "absent" -> "none"
    [] db[j].status \in {"queued", "awaiting-approval"} -> "waiting"
    [] OTHER -> db[j].status

Life == INSTANCE JobLife WITH job <- [j \in Jobs |-> Told(j)]

(* The supervisor, with its leases, retries, timers, crashes and recoveries,    *)
(* keeps the promise that the event ingress and the cron schedule rest on: a    *)
(* published end gives way to needs-review only, a job told to stop ends        *)
(* (update, cancel, recover, renewLease).                                      *)
ImplementsJobLife == Life!JobsSpec

(* A run whose job was leased to another one changes nothing of that job when   *)
(* it settles (expectedLeaseToken).                                            *)
StaleNeverSettles ==
  [][\A g \in Tokens :
       Alive(g) /\ run'[g].pc = "done" /\ Row(g).lease # g => UNCHANGED db]_vars

(* Every job leaves the queue and the running states: it ends, or waits for the *)
(* operator's approval (drain, timeouts, leases, recovery).  MaxClaims bounds   *)
(* the model, not the program.                                                 *)
Unsettled(j) == db[j].status \in {"queued", "running", "cancelling"}
EventuallySettled ==
  \A j \in Jobs : Unsettled(j) ~> (~Unsettled(j) \/ issued = MaxClaims)

(* server.ts:1005-1008 promises that a fresh input held in memory cannot be     *)
(* mistaken for abandoned input by recover: a living process never fails a      *)
(* queued job whose input it holds.                                            *)
FreshInputKept ==
  [][\A j \in Jobs :
       up = "up" /\ j \in volatile /\ db[j].status = "queued" => db'[j].status # "failed"]_vars

(* docs/runtime-ledger.md:42 says that interrupted unsafe work stops in         *)
(* needs-review: when the run of an unsafe tool is killed after its dispatch,   *)
(* the job does not end failed.                                                *)
InterruptedNeedsReview ==
  \A g \in Tokens :
    /\ run[g].pc = "done" /\ run[g].killed /\ run[g].wk = "started"
    /\ ~Row(g).kind.retrySafe /\ dispatches[run[g].job] > 0 /\ outcome[run[g].job] = "none"
    => Row(g).status # "failed"
=============================================================================
