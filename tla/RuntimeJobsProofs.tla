------------------------- MODULE RuntimeJobsProofs -------------------------
(***************************************************************************)
(* Theorems about RuntimeJobs, for every number of jobs, of lease tokens   *)
(* and of faults, and for every set of kinds of task.                      *)
(***************************************************************************)
EXTENDS RuntimeJobs, FiniteSetTheorems, FunctionTheorems, TLAPS

(* A row of the right type whose leases and attempt agree. *)
Good(r) == r \in RowType /\ LedgerConsistent(r)

USE DEF NoToken, Tokens

---------------------------------------------------------------------------
(* Attempts *)

(* An unconditional move leaves the lease alone and keeps the row good, when a  *)
(* move to cancelling starts from running (transitionAttempt).                 *)
LEMMA TransitionAttemptGood ==
  ASSUME NEW r, Good(r), NEW to \in ATTEMPT_STATES,
         to \in TERMINAL_JOB_STATES \/ (to = "cancelling" /\ r.state = "running")
  PROVE  /\ Good(transitionAttempt(r, to))
         /\ transitionAttempt(r, to).status = r.status
         /\ transitionAttempt(r, to).lease = r.lease
         /\ transitionAttempt(r, to).open = r.open
<1> DEFINE r2 == [r EXCEPT !.state = to, !.owner = IF to \in TERMINAL_JOB_STATES THEN NoToken ELSE @]
<1>1. CASE transitionAttempt(r, to) = r
  BY <1>1
<1>2. CASE ~(r.num = 0 \/ Settled(r) \/ r.state = to)
  <2>1. transitionAttempt(r, to) = r2
    BY <1>2 DEF transitionAttempt
  <2>2. r2 \in RowType
    BY DEF Good, RowType, ATTEMPT_STATES
  <2>3. LedgerConsistent(r2)
    BY <1>2 DEF Good, RowType, LedgerConsistent, TERMINAL_JOB_STATES
  <2> QED
    BY <2>1, <2>2, <2>3 DEF Good, RowType
<1> QED
  BY <1>1, <1>2 DEF transitionAttempt

(* A compare-and-set that passed keeps the row good. *)
LEMMA TransitionExecutionGood ==
  ASSUME NEW r, Good(r), NEW g \in Tokens, NEW n, NEW to \in ATTEMPT_STATES,
         CanTransition(r, g, n, to)
  PROVE  Good(transitionExecutionAttempt(r, g, to))
<1> DEFINE r2 == transitionExecutionAttempt(r, g, to)
<1>1. r.num \in Nat /\ r.num # 0 /\ g # NoToken
  BY BoundsAssumption DEF CanTransition, Good, RowType
<1>2. to = "cancelling" => r.state = "running"
  BY DEF CanTransition, LegalTransition, TERMINAL_JOB_STATES, ATTEMPT_STATES, JOB_STATES, Good, RowType
<1>3. r2 \in RowType
  BY DEF Good, RowType, transitionExecutionAttempt
<1>4. LedgerConsistent(r2)
  BY <1>1, <1>2 DEF Good, RowType, LedgerConsistent, transitionExecutionAttempt, ATTEMPT_STATES,
                    JOB_STATES, TERMINAL_JOB_STATES
<1> QED
  BY <1>3, <1>4 DEF Good

(* Admission and resumption give the run a queued attempt without an owner. *)
LEMMA AdmissionGood ==
  ASSUME NEW r, Good(r)
  PROVE  /\ CanAdmit(r) => Good(admitExecution(r))
         /\ CanResume(r) => Good(resumeExecution(r))
<1>1. ASSUME CanAdmit(r) PROVE Good(admitExecution(r))
  <2>1. r.state = "none" /\ r.owner = NoToken
    BY <1>1 DEF Good, LedgerConsistent, CanAdmit
  <2>2. admitExecution(r) \in RowType
    BY DEF Good, RowType, admitExecution, ATTEMPT_STATES, JOB_STATES
  <2>3. LedgerConsistent(admitExecution(r))
    BY <2>1 DEF Good, RowType, LedgerConsistent, admitExecution
  <2> QED
    BY <2>2, <2>3 DEF Good
<1>2. ASSUME CanResume(r) PROVE Good(resumeExecution(r))
  <2>1. r.num \in Nat /\ r.num + 1 \in Nat /\ r.num + 1 # 0
    BY DEF Good, RowType
  <2> QED
    BY <1>2, <2>1 DEF Good, RowType, LedgerConsistent, CanResume, resumeExecution,
                      ATTEMPT_STATES, JOB_STATES
<1> QED
  BY <1>1, <1>2

---------------------------------------------------------------------------
(* Jobs *)

(* A row whose lease is given up is good in every status but the executing ones. *)
LEMMA ReleaseGood ==
  ASSUME NEW r, Good(r),
         NEW status \in {"queued", "awaiting-approval"} \cup TERMINAL_JOB_STATES
  PROVE  Good(releaseLease([r EXCEPT !.status = status]))
<1> DEFINE r2 == releaseLease([r EXCEPT !.status = status])
<1>1. r2 \in RowType
  BY DEF Good, RowType, releaseLease, JOB_STATES
<1>2. /\ r2.lease = NoToken /\ r2.open = r.open \ {r.lease} /\ r2.status = status
      /\ r2.state = r.state /\ r2.owner = r.owner /\ r2.num = r.num
  BY DEF Good, RowType, releaseLease
<1>3. LedgerConsistent(r2)
  BY <1>2 DEF Good, LedgerConsistent, TERMINAL_JOB_STATES
<1> QED
  BY <1>1, <1>3 DEF Good

(* Taking a lease needs a row without one. *)
LEMMA LeaseGood ==
  ASSUME NEW r, Good(r), r.lease = NoToken, NEW g \in Tokens
  PROVE  Good(Lease(r, g)) /\ Good(claimNextQueued(r, g))
<1> DEFINE r2 == Lease(r, g)
<1>1. r2 \in RowType
  BY DEF Good, RowType, Lease, JOB_STATES
<1>2. /\ r2.lease = g /\ r2.open = r.open \cup {g} /\ r2.status = "running"
      /\ r2.state = r.state /\ r2.owner = r.owner /\ r2.num = r.num
  BY DEF Good, RowType, Lease
<1>3. g # NoToken
  BY BoundsAssumption
<1>4. LedgerConsistent(r2)
  BY <1>2, <1>3 DEF Good, LedgerConsistent
<1>5. claimNextQueued(r, g) \in RowType
  BY <1>1 DEF RowType, claimNextQueued
<1>6. LedgerConsistent(claimNextQueued(r, g))
  BY <1>1, <1>4 DEF RowType, claimNextQueued, LedgerConsistent
<1> QED
  BY <1>1, <1>4, <1>5, <1>6 DEF Good

(* The status an update publishes is the requested one or that of a settled     *)
(* attempt, both terminal or neither.                                          *)
LEMMA TargetStatusKind ==
  ASSUME NEW r, NEW requested \in {"queued", "awaiting-approval"} \cup TERMINAL_JOB_STATES
  PROVE  /\ TargetStatus(r, requested) \in {"queued", "awaiting-approval"} \cup TERMINAL_JOB_STATES
         /\ requested \in TERMINAL_JOB_STATES => TargetStatus(r, requested) \in TERMINAL_JOB_STATES
  BY DEF TargetStatus, Settled

LEMMA UpdateGood ==
  ASSUME NEW r, Good(r), NEW requested \in {"queued", "awaiting-approval"} \cup TERMINAL_JOB_STATES
  PROVE  Good(update(r, requested))
<1> DEFINE target == TargetStatus(r, requested)
           moved == IF target \in TERMINAL_JOB_STATES THEN transitionAttempt(r, target) ELSE r
<1>1. target \in {"queued", "awaiting-approval"} \cup TERMINAL_JOB_STATES
  BY TargetStatusKind
<1>2. Good(moved)
  BY TransitionAttemptGood DEF ATTEMPT_STATES, JOB_STATES
<1>3. update(r, requested) = releaseLease([moved EXCEPT !.status = target])
  BY DEF update, updateKeepingLease
<1> HIDE DEF target, moved
<1> QED
  BY <1>1, <1>2, <1>3, ReleaseGood

(* The fence of an update keeps the row, or releases the lease it names. *)
LEMMA UpdateFencedGood ==
  ASSUME NEW r, Good(r), NEW g,
         NEW requested \in {"queued", "awaiting-approval"} \cup TERMINAL_JOB_STATES
  PROVE  Good(updateFenced(r, g, requested))
  BY UpdateGood DEF updateFenced

(* A quarantined job keeps its lease. *)
LEMMA QuarantineGood ==
  ASSUME NEW r, Good(r)
  PROVE  Good(updateKeepingLease(r, "needs-review"))
<1> DEFINE moved == transitionAttempt(r, "needs-review")
<1>1. Good(moved)
  BY TransitionAttemptGood DEF ATTEMPT_STATES, JOB_STATES, TERMINAL_JOB_STATES
<1>2. updateKeepingLease(r, "needs-review") = [moved EXCEPT !.status = "needs-review"]
  BY DEF updateKeepingLease, TargetStatus, TERMINAL_JOB_STATES
<1> HIDE DEF moved
<1> QED
  BY <1>1, <1>2 DEF Good, RowType, LedgerConsistent, JOB_STATES, TERMINAL_JOB_STATES

(* cancel: an executing job keeps its lease until its run ends. *)
LEMMA CancelGood ==
  ASSUME NEW r, Good(r), r.status # "absent"
  PROVE  Good(cancel(r))
<1>1. CASE r.status \in TERMINAL_JOB_STATES
  BY <1>1 DEF cancel
<1>2. CASE r.status \notin TERMINAL_JOB_STATES /\ Settled(r)
  BY <1>2, ReleaseGood DEF cancel, Settled
<1>3. CASE r.status \notin TERMINAL_JOB_STATES /\ ~Settled(r)
  <2> DEFINE status == IF r.status \in {"running", "cancelling"} THEN "cancelling" ELSE "cancelled"
             moved == IF r.num > 0 /\ r.state = "running" THEN transitionAttempt(r, "cancelling")
                      ELSE IF status = "cancelled" THEN transitionAttempt(r, "cancelled") ELSE r
             requested == moved.cancelRequested \/ r.num > 0
             r2 == [moved EXCEPT !.status = status, !.cancelRequested = requested]
  <2>1. Good(moved) /\ moved.status = r.status /\ moved.lease = r.lease /\ moved.open = r.open
    BY TransitionAttemptGood DEF ATTEMPT_STATES, JOB_STATES, TERMINAL_JOB_STATES
  <2>2. cancel(r) = r2
    BY <1>3 DEF cancel
  <2>3. status \in {"cancelling", "cancelled"} /\ (status = "cancelling" => r.lease # NoToken)
    BY DEF Good, LedgerConsistent
  <2>4. requested \in BOOLEAN
    OBVIOUS
  <2> HIDE DEF status, moved, requested
  <2>5. r2 \in RowType
    BY <2>1, <2>3, <2>4 DEF Good, RowType, JOB_STATES, TERMINAL_JOB_STATES
  <2>6. LedgerConsistent(r2)
    BY <2>1, <2>3 DEF Good, RowType, LedgerConsistent
  <2> QED
    BY <2>2, <2>5, <2>6 DEF Good
<1> QED
  BY <1>1, <1>2, <1>3

(* The settlement of a continuation, and the adoption of a protected result,    *)
(* end the job and its attempt together.                                       *)
LEMMA SettlementGood ==
  ASSUME NEW r, Good(r), NEW target \in TERMINAL_JOB_STATES
  PROVE  Good(releaseLease([transitionAttempt(r, target) EXCEPT !.status = target]))
<1> DEFINE moved == transitionAttempt(r, target)
<1>1. Good(moved)
  BY TransitionAttemptGood DEF ATTEMPT_STATES, JOB_STATES
<1>2. SUFFICES Good(releaseLease([moved EXCEPT !.status = target]))
  OBVIOUS
<1> HIDE DEF moved
<1> QED
  BY <1>1, ReleaseGood

LEMMA SettleApprovalGood ==
  ASSUME NEW r, Good(r), NEW dispatched, NEW interrupted, NEW error
  PROVE  Good(settleApproval(r, dispatched, interrupted, error))
<1> DEFINE target == IF interrupted \/ r.status = "cancelling"
                     THEN IF dispatched THEN "needs-review" ELSE "cancelled"
                     ELSE IF error THEN "needs-review" ELSE "completed"
<1>1. target \in TERMINAL_JOB_STATES
  BY DEF TERMINAL_JOB_STATES
<1>2. settleApproval(r, dispatched, interrupted, error)
        = releaseLease([transitionAttempt(r, target) EXCEPT !.status = target])
  BY DEF settleApproval
<1> HIDE DEF target
<1> QED
  BY <1>1, <1>2, SettlementGood

LEMMA AdoptGood ==
  ASSUME NEW r, Good(r), NEW interrupted
  PROVE  Good(adoptProtectedResult(r, interrupted))
<1> DEFINE target == IF CanAdopt(r, interrupted) THEN "completed" ELSE "needs-review"
<1>1. target \in TERMINAL_JOB_STATES
  BY DEF TERMINAL_JOB_STATES
<1>2. adoptProtectedResult(r, interrupted)
        = releaseLease([transitionAttempt(r, target) EXCEPT !.status = target])
  BY DEF adoptProtectedResult
<1> HIDE DEF target
<1> QED
  BY <1>1, <1>2, SettlementGood

(* Recovery publishes a status that needs no lease. *)
LEMMA RecoveredStatusKind ==
  ASSUME NEW r
  PROVE  RecoveredStatus(r) \in {"queued", "awaiting-approval"} \cup TERMINAL_JOB_STATES
  BY DEF RecoveredStatus, Settled, TERMINAL_JOB_STATES

LEMMA RecoverGood ==
  ASSUME NEW r, Good(r)
  PROVE  Good(recover(r))
<1> DEFINE status == RecoveredStatus(r)
           moved == IF status \in TERMINAL_JOB_STATES THEN transitionAttempt(r, status)
                    ELSE IF status = "queued" /\ r.state \in {"running", "cancelling"}
                    THEN transitionAttempt(r, "failed") ELSE r
<1>1. status \in {"queued", "awaiting-approval"} \cup TERMINAL_JOB_STATES
  BY RecoveredStatusKind
<1>2. recover(r) = releaseLease([moved EXCEPT !.status = status])
  BY DEF recover
<1>3. Good(moved)
  <2> HIDE DEF status
  <2> QED
    BY TransitionAttemptGood DEF ATTEMPT_STATES, JOB_STATES, TERMINAL_JOB_STATES
<1> HIDE DEF status, moved
<1> QED
  BY <1>1, <1>2, <1>3, ReleaseGood

LEMMA RecoveredResultGood ==
  ASSUME NEW r, Good(r)
  PROVE  Good(RecoveredResult(r))
  BY UpdateGood, AdoptGood DEF RecoveredResult, TERMINAL_JOB_STATES

(* The flags of a row play no part in its leases. *)
LEMMA FlagsGood ==
  ASSUME NEW r, Good(r)
  PROVE  /\ Good([r EXCEPT !.bound = TRUE])
         /\ Good([r EXCEPT !.audited = TRUE])
         /\ Good([r EXCEPT !.persisted = TRUE])
  BY DEF Good, RowType, LedgerConsistent

(* A row without a job, and the job created in it. *)
LEMMA AbsentGood == Good(AbsentRow)
<1> DEFINE k == CHOOSE kind \in Kinds : TRUE
<1>1. k \in Kinds
  BY KindsAssumption
<1>2. AbsentRow.open = {} /\ AbsentRow.lease = NoToken /\ AbsentRow.status = "absent"
      /\ AbsentRow.state = "none" /\ AbsentRow.owner = NoToken /\ AbsentRow.num = 0
  BY DEF AbsentRow
<1>3. AbsentRow \in RowType
  BY <1>1 DEF AbsentRow, RowType
<1> QED
  BY <1>2, <1>3 DEF Good, LedgerConsistent

LEMMA CreateGood ==
  ASSUME NEW r, Good(r), r.status = "absent", NEW k \in Kinds
  PROVE  Good(create(r, k))
  BY DEF Good, RowType, LedgerConsistent, create, JOB_STATES

---------------------------------------------------------------------------
(* The inductive invariant *)

(* A token that was given a run, or a worker, belongs to a job: without it the   *)
(* rows those act on would not be rows of the ledger.                          *)
RunsHaveJobs ==
  \A g \in Tokens : run[g].pc # "none" \/ run[g].wk # "none" => run[g].job \in Jobs

IInv == TypeOK /\ RunsHaveJobs /\ LeaseLedger

RowsGood == db \in [Jobs -> RowType] /\ LeaseLedger
RunsGood == run \in [Tokens -> RunType] /\ RunsHaveJobs

(* What an action changes besides the rows and the runs. *)
RestOK ==
  /\ born \in [Jobs -> Nat]
  /\ issued \in 0..MaxClaims
  /\ expired \subseteq Tokens
  /\ up \in {"down", "starting", "up", "stopping"}
  /\ owned \in BOOLEAN
  /\ active \in [Jobs -> {NoToken} \cup Tokens]
  /\ volatile \subseteq Jobs
  /\ draining \in BOOLEAN
  /\ timer \in {NoToken} \cup Tokens
  /\ faults \in 0..MaxFaults
  /\ dispatches \in [Jobs -> Nat]
  /\ outcome \in [Jobs -> {"none", "ok", "failed"}]

LEMMA Parts == IInv <=> RowsGood /\ RunsGood /\ RestOK
  BY DEF IInv, TypeOK, RowsGood, RunsGood, RestOK

LEMMA RowIsGood ==
  ASSUME RowsGood, NEW j \in Jobs
  PROVE  Good(db[j])
  BY DEF RowsGood, LeaseLedger, Good

LEMMA SetRowGood ==
  ASSUME RowsGood, NEW j \in Jobs, NEW r, Good(r), SetRow(j, r)
  PROVE  RowsGood'
  BY DEF RowsGood, LeaseLedger, Good, SetRow

LEMMA SetRunGood ==
  ASSUME RunsGood, NEW g \in Tokens, NEW w \in RunType, w.job \in Jobs,
         run' = [run EXCEPT ![g] = w]
  PROVE  RunsGood'
  BY DEF RunsGood, RunsHaveJobs

(* A run that is forgotten keeps its job. *)
LEMMA KeptGood ==
  ASSUME NEW w \in RunType
  PROVE  Kept(w) \in RunType /\ Kept(w).job = w.job
<1>1. [NoRun EXCEPT !.job = w.job, !.pc = "done"] \in RunType
  BY DEF RunType, NoRun
<1>2. [NoRun EXCEPT !.job = w.job, !.pc = "done"].job = w.job
  BY DEF NoRun
<1> QED
  BY <1>1, <1>2 DEF Kept

LEMMA AbortGood ==
  ASSUME NEW w \in RunType, NEW reason \in {"cancel", "timeout", "lease", "shutdown"}
  PROVE  Abort(w, reason) \in RunType /\ Abort(w, reason).job = w.job
<1> DEFINE killed == w.killed \/ (w.wk # "none" /\ ~db[w.job].kind.graceful)
<1>1. killed \in BOOLEAN
  OBVIOUS
<1>2. Abort(w, reason) = w \/ Abort(w, reason) = [w EXCEPT !.abort = reason, !.killed = killed]
  BY DEF Abort
<1> HIDE DEF killed
<1> QED
  BY <1>1, <1>2 DEF RunType

---------------------------------------------------------------------------
(* The steps of a worker *)

WorkerStates == {"none", "dead"} \cup LiveWorker \cup Reported

LEMMA WorkerGoesGood ==
  ASSUME RunsGood, NEW g \in Tokens, run[g].job \in Jobs, NEW wk \in WorkerStates,
         WorkerGoes(g, wk)
  PROVE  RunsGood'
<1> DEFINE w == [run[g] EXCEPT !.wk = wk]
<1>1. w \in RunType /\ w.job \in Jobs
  BY DEF RunsGood, RunType, WorkerStates
<1>2. run' = [run EXCEPT ![g] = Kept(w)]
  BY DEF WorkerGoes
<1> HIDE DEF w
<1> QED
  BY <1>1, <1>2, KeptGood, SetRunGood

LEMMA WorkerRest ==
  ASSUME RestOK, UnchangedSupervisor, dispatches' \in [Jobs -> Nat],
         outcome' \in [Jobs -> {"none", "ok", "failed"}]
  PROVE  RestOK'
  BY DEF RestOK, UnchangedSupervisor

LEMMA RowsUnchanged == ASSUME RowsGood, UNCHANGED db PROVE RowsGood'
  BY DEF RowsGood, LeaseLedger

LEMMA KnownOutcomeOK ==
  ASSUME RestOK, NEW g \in Tokens, NEW what \in {"ok", "failed"}, KnownOutcome(g, what)
  PROVE  outcome' \in [Jobs -> {"none", "ok", "failed"}]
  BY DEF RestOK, KnownOutcome

LEMMA ErrorStateKind ==
  ASSUME NEW g, NEW told
  PROVE  ErrorState(g, told) \in TERMINAL_JOB_STATES /\ UncertainOr(g, "failed") \in TERMINAL_JOB_STATES
  BY DEF ErrorState, UncertainOr, TERMINAL_JOB_STATES

LEMMA FailAttemptGood ==
  ASSUME RowsGood, NEW g \in Tokens, run[g].job \in Jobs, NEW to \in TERMINAL_JOB_STATES
  PROVE  Good(failAttempt(g, to))
  BY RowIsGood, TransitionExecutionGood DEF failAttempt, Row, ATTEMPT_STATES, JOB_STATES

LEMMA WorkerInv ==
  ASSUME IInv, NEW g \in Tokens, WorkerStep(g)
  PROVE  IInv'
<1> DEFINE j == run[g].job
           r == Row(g)
<1>1. RowsGood /\ RunsGood /\ RestOK
  BY Parts
<1>2. run[g].wk # "none"
  BY DEF WorkerStep, WorkerBind, WorkerAdmit, WorkerRefused, WorkerStart, WorkerDenied,
         WorkerApproval, WorkerThrows, WorkerReturns, WorkerUncertain, WorkerGraphEnds,
         WorkerSettles, WorkerExits, LiveWorker
<1>3. j \in Jobs /\ run[g] \in RunType
  BY <1>1, <1>2 DEF RunsGood, RunsHaveJobs
<1>4. Good(r)
  BY <1>1, <1>3, RowIsGood DEF Row
<1>5. dispatches \in [Jobs -> Nat] /\ outcome \in [Jobs -> {"none", "ok", "failed"}]
  BY <1>1 DEF RestOK
<1>6. SUFFICES RowsGood' /\ RunsGood' /\ RestOK'
  BY Parts, PTL
<1>7. CASE WorkerBind(g)
  <2>1. RowsGood'
    BY <1>1, <1>3, <1>4, <1>7, FlagsGood, SetRowGood DEF WorkerBind
  <2>3. RestOK'
    BY <1>1, <1>5, <1>7, WorkerRest DEF WorkerBind
  <2>2. RunsGood'
    <3>1. PICK wk \in {"ok", "err", "bound"} :
            run' = [run EXCEPT ![g] = Kept([run[g] EXCEPT !.wk = wk, !.replay = r.bound])]
      BY <1>7 DEF WorkerBind
    <3> DEFINE w2 == [run[g] EXCEPT !.wk = wk, !.replay = r.bound]
    <3>2. w2 \in RunType /\ w2.job \in Jobs
      BY <1>3, <1>4 DEF RunType, LiveWorker, Reported, Good, RowType
    <3>3. run' = [run EXCEPT ![g] = Kept(w2)]
      BY <3>1
    <3> HIDE DEF w2
    <3> QED
      BY <1>1, <3>2, <3>3, KeptGood, SetRunGood
  <2> QED
    BY <2>1, <2>2, <2>3
<1>8. CASE WorkerAdmit(g)
  <2>1. PICK after : /\ SetRow(j, after) /\ Good(after)
                     /\ run' = [run EXCEPT ![g] = [run[g] EXCEPT !.wk = "admitted", !.att = after.num]]
    <3>1. PICK after : /\ SetRow(j, after)
                       /\ run' = [run EXCEPT ![g].wk = "admitted", ![g].att = after.num]
                       /\ \/ after = r
                          \/ CanResume(r) /\ after = resumeExecution(r)
                          \/ CanAdmit(r) /\ after = admitExecution(r)
      BY <1>8 DEF WorkerAdmit
    <3>2. Good(after)
      BY <1>4, <3>1, AdmissionGood
    <3>3. run' = [run EXCEPT ![g] = [run[g] EXCEPT !.wk = "admitted", !.att = after.num]]
      BY <1>1, <3>1 DEF RunsGood, RunType
    <3> QED
      BY <3>1, <3>2, <3>3
  <2>2. RowsGood'
    BY <1>1, <1>3, <2>1, SetRowGood
  <2> DEFINE w2 == [run[g] EXCEPT !.wk = "admitted", !.att = after.num]
  <2>3. w2 \in RunType /\ w2.job \in Jobs
    BY <1>3, <2>1 DEF RunType, LiveWorker, Good, RowType
  <2>4. run' = [run EXCEPT ![g] = w2]
    BY <2>1
  <2>5. RestOK'
    BY <1>1, <1>5, <1>8, WorkerRest DEF WorkerAdmit
  <2> HIDE DEF w2
  <2>6. RunsGood'
    BY <1>1, <2>3, <2>4, SetRunGood
  <2> QED
    BY <2>2, <2>5, <2>6
<1>9. CASE WorkerRefused(g) \/ WorkerExits(g)
  <2>1. RowsGood' /\ RestOK'
    BY <1>1, <1>5, <1>9, RowsUnchanged, WorkerRest DEF WorkerRefused, WorkerExits
  <2>2. RunsGood'
    BY <1>1, <1>3, <1>9, WorkerGoesGood DEF WorkerRefused, WorkerExits, WorkerStates, Reported
  <2> QED
    BY <2>1, <2>2
<1>10. CASE WorkerStart(g)
  <2>1. RowsGood'
    BY <1>1, <1>3, <1>4, <1>10, TransitionExecutionGood, SetRowGood
    DEF WorkerStart, ATTEMPT_STATES, JOB_STATES
  <2>2. RunsGood'
    BY <1>1, <1>3, <1>10, WorkerGoesGood DEF WorkerStart, WorkerStates, LiveWorker
  <2>3. RestOK'
    BY <1>1, <1>5, <1>10, WorkerRest DEF WorkerStart
  <2> QED
    BY <2>1, <2>2, <2>3
<1>11. CASE WorkerDenied(g)
  <2>1. RowsGood'
    BY <1>1, <1>3, <1>11, ErrorStateKind, FailAttemptGood, SetRowGood DEF WorkerDenied
  <2>2. RunsGood' /\ RestOK'
    BY <1>1, <1>3, <1>5, <1>11, WorkerGoesGood, WorkerRest DEF WorkerDenied, WorkerStates, Reported
  <2> QED
    BY <2>1, <2>2
<1>12. CASE WorkerApproval(g)
  <2>1. RowsGood'
    BY <1>1, <1>3, <1>4, <1>12, TransitionExecutionGood, SetRowGood, RowsUnchanged
    DEF WorkerApproval, ATTEMPT_STATES, JOB_STATES
  <2>2. RunsGood' /\ RestOK'
    BY <1>1, <1>3, <1>5, <1>12, WorkerGoesGood, WorkerRest DEF WorkerApproval, WorkerStates, Reported
  <2> QED
    BY <2>1, <2>2
<1>13. CASE WorkerThrows(g)
  <2>1. RowsGood'
    BY <1>1, <1>3, <1>13, ErrorStateKind, FailAttemptGood, SetRowGood DEF WorkerThrows
  <2>2. outcome' \in [Jobs -> {"none", "ok", "failed"}]
    BY <1>1, <1>5, <1>13, KnownOutcomeOK DEF WorkerThrows
  <2>3. RunsGood' /\ RestOK'
    BY <1>1, <1>3, <1>5, <1>13, <2>2, WorkerGoesGood, WorkerRest DEF WorkerThrows, WorkerStates, Reported
  <2> QED
    BY <2>1, <2>3
<1>14. CASE WorkerReturns(g)
  <2>1. RowsGood'
    BY <1>1, <1>3, <1>4, <1>14, FlagsGood, SetRowGood DEF WorkerReturns
  <2>2. outcome' \in [Jobs -> {"none", "ok", "failed"}]
    BY <1>1, <1>14, KnownOutcomeOK DEF WorkerReturns
  <2>3. RunsGood' /\ RestOK'
    BY <1>1, <1>3, <1>5, <1>14, <2>2, WorkerGoesGood, WorkerRest
    DEF WorkerReturns, WorkerStates, LiveWorker
  <2> QED
    BY <2>1, <2>3
<1>15. CASE WorkerUncertain(g)
  <2>1. RowsGood'
    BY <1>1, <1>3, <1>15, ErrorStateKind, FailAttemptGood, SetRowGood DEF WorkerUncertain
  <2>2. RunsGood' /\ RestOK'
    BY <1>1, <1>3, <1>5, <1>15, WorkerGoesGood, WorkerRest DEF WorkerUncertain, WorkerStates, Reported
  <2> QED
    BY <2>1, <2>2
<1>16. CASE WorkerGraphEnds(g)
  <2>1. RowsGood'
    BY <1>1, <1>3, <1>4, <1>16, TransitionExecutionGood, SetRowGood, RowsUnchanged
    DEF WorkerGraphEnds, ATTEMPT_STATES, JOB_STATES
  <2>2. outcome' \in [Jobs -> {"none", "ok", "failed"}]
    BY <1>1, <1>5, <1>16, KnownOutcomeOK DEF WorkerGraphEnds
  <2>3. RunsGood' /\ RestOK'
    BY <1>1, <1>3, <1>5, <1>16, <2>2, WorkerGoesGood, WorkerRest
    DEF WorkerGraphEnds, WorkerStates, Reported
  <2> QED
    BY <2>1, <2>3
<1>17. CASE WorkerSettles(g)
  <2>1. RowsGood'
    <3>1. CASE UNCHANGED db
      BY <1>1, <3>1, RowsUnchanged
    <3>2. CASE /\ CanTransition(r, g, run[g].att, "completed")
               /\ SetRow(j, transitionExecutionAttempt(r, g, "completed"))
      <4>1. Good(transitionExecutionAttempt(r, g, "completed"))
        BY <1>4, <3>2, TransitionExecutionGood DEF ATTEMPT_STATES, JOB_STATES, TERMINAL_JOB_STATES
      <4> QED
        BY <1>1, <1>3, <3>2, <4>1, SetRowGood
    <3> QED
      BY <1>17, <3>1, <3>2 DEF WorkerSettles
  <2>2. RunsGood' /\ RestOK'
    BY <1>1, <1>3, <1>5, <1>17, WorkerGoesGood, WorkerRest DEF WorkerSettles, WorkerStates, Reported
  <2> QED
    BY <2>1, <2>2
<1> QED
  BY <1>7, <1>8, <1>9, <1>10, <1>11, <1>12, <1>13, <1>14, <1>15, <1>16, <1>17 DEF WorkerStep

---------------------------------------------------------------------------
(* The steps of the supervisor for one run *)

LEMMA RunRow ==
  ASSUME IInv, NEW g \in Tokens, run[g].pc # "none" \/ run[g].wk # "none"
  PROVE  run[g].job \in Jobs /\ run[g] \in RunType /\ Good(Row(g))
<1>1. run[g].job \in Jobs /\ run[g] \in RunType
  BY DEF IInv, RunsHaveJobs, TypeOK
<1> QED
  BY <1>1, Parts, RowIsGood DEF Row

(* Every handler ends with the run forgotten and its entry gone. *)
LEMMA DoneGood ==
  ASSUME RunsGood, NEW g \in Tokens, run[g].job \in Jobs,
         run' = [run EXCEPT ![g] = Kept([@ EXCEPT !.pc = "done"])]
  PROVE  RunsGood'
<1> DEFINE w == [run[g] EXCEPT !.pc = "done"]
<1>1. w \in RunType /\ w.job \in Jobs
  BY DEF RunsGood, RunType
<1>2. run' = [run EXCEPT ![g] = Kept(w)]
  OBVIOUS
<1> HIDE DEF w
<1> QED
  BY <1>1, <1>2, KeptGood, SetRunGood

LEMMA DrainRest ==
  ASSUME RestOK, RequestDrain \/ UNCHANGED draining
  PROVE  draining' \in BOOLEAN
  BY DEF RestOK, RequestDrain

LEMMA FinishInv ==
  ASSUME IInv, NEW g \in Tokens, run[g].job \in Jobs, NEW r, Good(r), Finish(g, r)
  PROVE  IInv'
<1>1. RowsGood /\ RunsGood /\ RestOK
  BY Parts
<1>2. RowsGood'
  BY <1>1, SetRowGood DEF Finish
<1>3. RunsGood'
  BY <1>1, DoneGood DEF Finish
<1>4. draining' \in BOOLEAN
  BY <1>1, DrainRest DEF Finish
<1>5. RestOK'
  BY <1>1, <1>4 DEF Finish, RestOK, UnchangedWorld
<1> QED
  BY <1>2, <1>3, <1>5, Parts, PTL

LEMMA CatchStatusKind ==
  ASSUME NEW g, NEW backendReturned
  PROVE  CatchStatus(g, backendReturned) \in {"queued"} \cup TERMINAL_JOB_STATES
  BY DEF CatchStatus, TERMINAL_JOB_STATES

LEMMA RunSettlesInv ==
  ASSUME IInv, NEW g \in Tokens, RunSettles(g) \/ RunPersistFails(g)
  PROVE  IInv'
<1>1. run[g].pc # "none"
  BY DEF RunSettles, RunResolved, RunPersist, RunAdopt, RunRejected, RunPersistFails, Answered,
         MustSettle
<1>2. run[g].job \in Jobs /\ run[g] \in RunType /\ Good(Row(g))
  BY <1>1, RunRow
<1>3. CASE RunResolved(g)
  <2>1. PICK status \in {"awaiting-approval", "completed"} :
          Finish(g, updateFenced(Row(g), g, status))
    BY <1>3 DEF RunResolved
  <2>2. Good(updateFenced(Row(g), g, status))
    BY <1>2, UpdateFencedGood DEF TERMINAL_JOB_STATES
  <2> QED
    BY <1>2, <2>1, <2>2, FinishInv
<1>4. CASE RunPersist(g)
  <2>1. RowsGood /\ RunsGood /\ RestOK
    BY Parts
  <2>2. RowsGood'
    BY <1>2, <1>4, <2>1, FlagsGood, SetRowGood DEF RunPersist
  <2> DEFINE w == [run[g] EXCEPT !.pc = "persisted"]
  <2>3. w \in RunType /\ w.job \in Jobs
    BY <1>2 DEF RunType
  <2>4. run' = [run EXCEPT ![g] = w]
    BY <1>4 DEF RunPersist
  <2> HIDE DEF w
  <2>5. RunsGood'
    BY <2>1, <2>3, <2>4, SetRunGood
  <2>6. RestOK'
    BY <1>4, <2>1 DEF RunPersist, RestOK, UnchangedWorld
  <2> QED
    BY <2>2, <2>5, <2>6, Parts, PTL
<1>5. CASE RunAdopt(g)
  BY <1>2, <1>5, AdoptGood, FinishInv DEF RunAdopt
<1>6. CASE RunRejected(g) \/ RunPersistFails(g)
  <2>1. PICK late : Finish(g, updateFenced(Row(g), g, CatchStatus(g, late)))
    BY <1>6 DEF RunRejected, RunPersistFails
  <2>2. CatchStatus(g, late) \in {"queued", "awaiting-approval"} \cup TERMINAL_JOB_STATES
    BY CatchStatusKind
  <2>3. Good(updateFenced(Row(g), g, CatchStatus(g, late)))
    BY <1>2, <2>2, UpdateFencedGood
  <2> QED
    BY <1>2, <2>1, <2>3, FinishInv
<1> QED
  BY <1>3, <1>4, <1>5, <1>6 DEF RunSettles

(* The steps that only tell a run something, or note the passing of time. *)
LEMMA SignalInv ==
  ASSUME IInv, NEW g \in Tokens,
         \/ Timeout(g) \/ HeartbeatLost(g) \/ GraceExpires(g) \/ Renew(g) \/ Expire(g)
         \/ ApprovalDispatch(g) \/ RequestAborted(g) \/ WorkerCrash(g)
  PROVE  IInv'
<1>1. RowsGood /\ RunsGood /\ RestOK
  BY Parts
<1>2. run[g].pc # "none" \/ run[g].wk # "none"
  BY DEF Timeout, HeartbeatLost, GraceExpires, Renew, Expire, ApprovalDispatch, RequestAborted,
         WorkerCrash, LiveWorker
<1>3. run[g].job \in Jobs /\ run[g] \in RunType /\ Good(Row(g))
  BY <1>2, RunRow
<1>4. RowsGood'
  BY <1>1, RowsUnchanged DEF Timeout, HeartbeatLost, GraceExpires, Renew, Expire, AbortRun,
         ApprovalDispatch, RequestAborted, WorkerCrash
<1>5. RestOK'
  <2>1. CASE WorkerCrash(g)
    <3>1. faults' \in 0..MaxFaults
      BY <1>1, <2>1, JobsAssumption DEF RestOK, WorkerCrash
    <3> QED
      BY <1>1, <2>1, <3>1 DEF RestOK, WorkerCrash
  <2>2. CASE Renew(g) \/ Expire(g)
    BY <1>1, <2>2 DEF RestOK, Renew, Expire
  <2>3. CASE Timeout(g) \/ HeartbeatLost(g) \/ GraceExpires(g) \/ ApprovalDispatch(g) \/ RequestAborted(g)
    BY <1>1, <2>3 DEF RestOK, Timeout, HeartbeatLost, GraceExpires, AbortRun, ApprovalDispatch,
                      RequestAborted, UnchangedWorld
  <2> QED
    BY <2>1, <2>2, <2>3
<1>6. RunsGood'
  <2>1. CASE Timeout(g) \/ HeartbeatLost(g)
    <3>1. PICK reason \in {"timeout", "lease"} : run' = [run EXCEPT ![g] = Abort(run[g], reason)]
      BY <2>1 DEF Timeout, HeartbeatLost, AbortRun
    <3> QED
      BY <1>1, <1>3, <3>1, AbortGood, SetRunGood
  <2>2. CASE GraceExpires(g) \/ RequestAborted(g)
    <3> DEFINE w == [run[g] EXCEPT !.killed = TRUE]
    <3>1. w \in RunType /\ w.job \in Jobs
      BY <1>3 DEF RunType
    <3>2. run' = [run EXCEPT ![g] = w]
      BY <2>2 DEF GraceExpires, RequestAborted
    <3> HIDE DEF w
    <3> QED
      BY <1>1, <3>1, <3>2, SetRunGood
  <2>3. CASE Renew(g) \/ Expire(g)
    BY <1>1, <2>3 DEF RunsGood, RunsHaveJobs, Renew, Expire
  <2>4. CASE ApprovalDispatch(g)
    <3> DEFINE w == [run[g] EXCEPT !.dispatched = TRUE, !.killed = ~owned,
                                   !.wk = IF owned THEN "boot" ELSE "err"]
    <3>1. w \in RunType /\ w.job \in Jobs
      BY <1>1, <1>3 DEF RunType, RestOK, LiveWorker, Reported
    <3>2. run' = [run EXCEPT ![g] = w]
      BY <1>1, <2>4 DEF ApprovalDispatch, RunsGood, RunType
    <3> HIDE DEF w
    <3> QED
      BY <1>1, <3>1, <3>2, SetRunGood
  <2>5. CASE WorkerCrash(g)
    BY <1>1, <1>3, <2>5, WorkerGoesGood DEF WorkerCrash, WorkerStates
  <2> QED
    BY <2>1, <2>2, <2>3, <2>4, <2>5
<1> QED
  BY <1>4, <1>5, <1>6, Parts, PTL

LEMMA ApprovalSettleInv ==
  ASSUME IInv, NEW g \in Tokens, ApprovalSettle(g)
  PROVE  IInv'
<1>1. RowsGood /\ RunsGood /\ RestOK
  BY Parts
<1>2. run[g].job \in Jobs /\ run[g] \in RunType /\ Good(Row(g))
  BY RunRow DEF ApprovalSettle
<1>3. RunsGood'
  BY <1>1, <1>2, DoneGood DEF ApprovalSettle
<1>4. RowsGood'
  <2>1. PICK settled :
          /\ \/ settled = Row(g)
             \/ \E interrupted, error \in BOOLEAN :
                  settled = settleApproval(Row(g), run[g].dispatched, interrupted, error)
          /\ SetRow(run[g].job, settled) \/ UNCHANGED db
    BY DEF ApprovalSettle
  <2>2. Good(settled)
    BY <1>2, <2>1, SettleApprovalGood
  <2> QED
    BY <1>1, <1>2, <2>1, <2>2, SetRowGood, RowsUnchanged
<1>5. draining' \in BOOLEAN
  BY <1>1, DrainRest DEF ApprovalSettle
<1>6. RestOK'
  BY <1>1, <1>5 DEF ApprovalSettle, RestOK, UnchangedWorld
<1> QED
  BY <1>3, <1>4, <1>6, Parts, PTL

---------------------------------------------------------------------------
(* The steps of the supervisor for one job *)

(* A new token is given to a new run of the job. *)
LEMMA NewToken ==
  ASSUME RestOK, issued < MaxClaims
  PROVE  issued + 1 \in Tokens /\ issued + 1 \in 0..MaxClaims
  BY BoundsAssumption DEF RestOK

LEMMA SubmitInv ==
  ASSUME IInv, NEW j \in Jobs, NEW k \in Kinds, Submit(j, k)
  PROVE  IInv'
<1>1. RowsGood /\ RunsGood /\ RestOK
  BY Parts
<1>2. RowsGood'
  BY <1>1, RowIsGood, CreateGood, SetRowGood DEF Submit
<1>3. RunsGood'
  BY <1>1 DEF Submit, RunsGood, RunsHaveJobs
<1>4. Cardinality({i \in Jobs : db[i].status # "absent"}) \in Nat
  BY JobsAssumption, FS_Subset, FS_CardinalityType
<1>5. RestOK'
  BY <1>1, <1>4 DEF Submit, RestOK
<1> QED
  BY <1>2, <1>3, <1>5, Parts, PTL

LEMMA DispatchInv ==
  ASSUME IInv, NEW j \in Jobs, DrainDispatch(j) \/ DrainFail(j) \/ BeginApproval(j)
  PROVE  IInv'
<1> DEFINE g == issued + 1
<1>1. RowsGood /\ RunsGood /\ RestOK
  BY Parts
<1>2. g \in Tokens /\ g \in 0..MaxClaims
  BY <1>1, NewToken DEF DrainDispatch, DrainFail, BeginApproval, CanClaim
<1>3. Good(db[j]) /\ db[j].status \in {"queued", "awaiting-approval"}
  BY <1>1, RowIsGood DEF DrainDispatch, DrainFail, BeginApproval, CanClaim, Oldest, Queued,
                         CanClaimApproval
<1>4. db[j].lease = NoToken
  BY <1>3 DEF Good, LedgerConsistent
<1>5. Good(claimNextQueued(db[j], g)) /\ Good(claimApproval(db[j], g))
  BY <1>2, <1>3, <1>4, LeaseGood DEF claimApproval
<1>6. RowsGood'
  <2>1. CASE DrainFail(j)
    BY <1>1, <1>5, <2>1, UpdateGood, SetRowGood DEF DrainFail, TERMINAL_JOB_STATES
  <2>2. CASE DrainDispatch(j) \/ BeginApproval(j)
    BY <1>1, <1>5, <2>2, SetRowGood DEF DrainDispatch, BeginApproval
  <2> QED
    BY <2>1, <2>2
<1>7. RunsGood'
  <2>1. CASE DrainFail(j)
    BY <1>1, <2>1 DEF DrainFail, RunsGood, RunsHaveJobs
  <2>2. CASE DrainDispatch(j)
    <3> DEFINE gen == db[j].attempts + 1
               wk == IF owned THEN "boot" ELSE "err"
               w == [NoRun EXCEPT !.job = j, !.pc = "exec", !.wk = wk, !.killed = ~owned, !.gen = gen]
    <3>1. gen \in Nat /\ wk \in {"boot", "err"} /\ owned \in BOOLEAN
      BY <1>1, <1>3 DEF Good, RowType, RestOK
    <3>2. run' = [run EXCEPT ![g] = w]
      BY <2>2 DEF DrainDispatch
    <3>3. w \in RunType /\ w.job \in Jobs
      <4> HIDE DEF gen, wk
      <4> QED
        BY <3>1 DEF RunType, NoRun, LiveWorker, Reported
    <3> HIDE DEF w
    <3> QED
      BY <1>1, <1>2, <3>2, <3>3, SetRunGood
  <2>3. CASE BeginApproval(j)
    <3> DEFINE w == [NoRun EXCEPT !.job = j, !.mode = "approval", !.pc = "exec"]
    <3>1. run' = [run EXCEPT ![g] = w]
      BY <2>3 DEF BeginApproval
    <3>2. w \in RunType /\ w.job \in Jobs
      BY DEF RunType, NoRun
    <3> HIDE DEF w
    <3> QED
      BY <1>1, <1>2, <3>1, <3>2, SetRunGood
  <2> QED
    BY <2>1, <2>2, <2>3
<1>8. RestOK'
  BY <1>1, <1>2 DEF DrainDispatch, DrainFail, BeginApproval, RestOK, UnchangedWorld
<1> QED
  BY <1>6, <1>7, <1>8, Parts, PTL

LEMMA CancelInv ==
  ASSUME IInv, NEW j \in Jobs, Cancel(j) \/ CancelFenceFails(j)
  PROVE  IInv'
<1>1. RowsGood /\ RunsGood /\ RestOK
  BY Parts
<1>2. PICK r : Good(r) /\ CancelWith(j, r)
  BY <1>1, RowIsGood, CancelGood, QuarantineGood DEF Cancel, CancelFenceFails, CanCancel
<1>3. RowsGood'
  BY <1>1, <1>2, SetRowGood DEF CancelWith
<1>4. RunsGood'
  <2>1. CASE active[j] = NoToken
    BY <1>1, <1>2, <2>1 DEF CancelWith, RunsGood, RunsHaveJobs
  <2>2. CASE active[j] # NoToken
    <3> DEFINE g == active[j]
               w == Abort(run[g], "cancel")
    <3>1. g \in Tokens
      BY <1>1, <2>2 DEF RestOK
    <3>2. run[g] \in RunType
      BY <1>1, <3>1 DEF RunsGood
    <3>3. w \in RunType /\ w.job = run[g].job
      BY <3>2, AbortGood
    <3>4. w.pc = run[g].pc /\ w.wk = run[g].wk
      BY <3>2 DEF Abort, RunType
    <3>5. run' = [run EXCEPT ![g] = w]
      BY <1>2, <2>2 DEF CancelWith
    <3> HIDE DEF w
    <3> QED
      BY <1>1, <3>1, <3>3, <3>4, <3>5 DEF RunsGood, RunsHaveJobs
  <2> QED
    BY <2>1, <2>2
<1>5. draining' \in BOOLEAN
  BY <1>1, <1>2, DrainRest DEF CancelWith
<1>6. RestOK'
  BY <1>1, <1>2, <1>5 DEF Cancel, CancelFenceFails, CancelWith, RestOK, UnchangedWorld
<1> QED
  BY <1>3, <1>4, <1>6, Parts, PTL

---------------------------------------------------------------------------
(* The steps of the supervisor process *)

(* Runs that are told something keep their job and where they are. *)
LEMMA RunsToldGood ==
  ASSUME RunsGood,
         run' = [g \in Tokens |-> run'[g]],
         \A g \in Tokens : run'[g] \in RunType /\ run'[g].job = run[g].job
                           /\ (run'[g].pc = run[g].pc \/ run[g].pc # "none")
                           /\ (run'[g].wk = run[g].wk \/ run'[g].wk = "none")
  PROVE  RunsGood'
  BY DEF RunsGood, RunsHaveJobs

LEMMA LostGood ==
  ASSUME RunsGood,
         run' = [g \in Tokens |-> IF Alive(g) THEN Kept([run[g] EXCEPT !.pc = "lost", !.killed = TRUE])
                                  ELSE run[g]]
  PROVE  RunsGood'
<1> SUFFICES ASSUME NEW g \in Tokens
             PROVE  /\ run'[g] \in RunType /\ run'[g].job = run[g].job
                    /\ (run'[g].pc = run[g].pc \/ run[g].pc # "none")
                    /\ (run'[g].wk = run[g].wk \/ run'[g].wk = "none")
  BY RunsToldGood
<1> DEFINE w == [run[g] EXCEPT !.pc = "lost", !.killed = TRUE]
<1>1. run[g] \in RunType
  BY DEF RunsGood
<1>2. w \in RunType /\ w.job = run[g].job /\ w.wk = run[g].wk
  BY <1>1 DEF RunType
<1>3. run'[g] = IF Alive(g) THEN Kept(w) ELSE run[g]
  OBVIOUS
<1> HIDE DEF w
<1>4. Kept(w) \in RunType /\ Kept(w).job = w.job
  BY <1>2, KeptGood
<1>5. Kept(w).wk = w.wk \/ Kept(w).wk = "none"
  BY DEF Kept, NoRun
<1> QED
  BY <1>1, <1>2, <1>3, <1>4, <1>5 DEF Alive

LEMMA ShutdownInv ==
  ASSUME IInv, Shutdown
  PROVE  IInv'
<1>1. RowsGood /\ RunsGood /\ RestOK
  BY Parts
<1>2. RowsGood'
  BY <1>1, RowsUnchanged DEF Shutdown
<1>3. RestOK'
  BY <1>1 DEF Shutdown, RestOK, UnchangedWorld
<1>4. RunsGood'
  <2> SUFFICES ASSUME NEW g \in Tokens
               PROVE  /\ run'[g] \in RunType /\ run'[g].job = run[g].job
                      /\ run'[g].pc = run[g].pc /\ run'[g].wk = run[g].wk
    BY <1>1, RunsToldGood DEF Shutdown
  <2>1. run[g] \in RunType
    BY <1>1 DEF RunsGood
  <2>2. run'[g] = run[g] \/ run'[g] = Abort(run[g], "shutdown")
    BY DEF Shutdown
  <2>3. Abort(run[g], "shutdown") \in RunType /\ Abort(run[g], "shutdown").job = run[g].job
    BY <2>1, AbortGood
  <2>4. Abort(run[g], "shutdown").pc = run[g].pc /\ Abort(run[g], "shutdown").wk = run[g].wk
    BY <2>1 DEF Abort, RunType
  <2> QED
    BY <2>1, <2>2, <2>3, <2>4
<1> QED
  BY <1>2, <1>3, <1>4, Parts, PTL

LEMMA EndInv ==
  ASSUME IInv, ShutdownDone \/ Crash
  PROVE  IInv'
<1>1. RowsGood /\ RunsGood /\ RestOK
  BY Parts
<1>2. RowsGood'
  BY <1>1, RowsUnchanged DEF ShutdownDone, Crash
<1>3. RunsGood'
  BY <1>1, LostGood DEF ShutdownDone, Crash
<1>4. faults' \in 0..MaxFaults
  <2>1. CASE ShutdownDone
    BY <1>1, <2>1 DEF RestOK, ShutdownDone
  <2>2. CASE Crash
    <3>1. faults \in 0..MaxFaults /\ faults < MaxFaults /\ faults' = faults + 1
      BY <1>1, <2>2 DEF RestOK, Crash
    <3> QED
      BY <3>1, JobsAssumption
  <2> QED
    BY <2>1, <2>2
<1>5. RestOK'
  BY <1>1, <1>4 DEF ShutdownDone, Crash, Memoryless, RestOK
<1> QED
  BY <1>2, <1>3, <1>5, Parts, PTL

LEMMA LoseOwnershipInv ==
  ASSUME IInv, LoseOwnership
  PROVE  IInv'
<1>1. RowsGood /\ RunsGood /\ RestOK
  BY Parts
<1>2. RowsGood'
  BY <1>1, RowsUnchanged DEF LoseOwnership
<1>3. RunsGood'
  <2> SUFFICES ASSUME NEW g \in Tokens
               PROVE  /\ run'[g] \in RunType /\ run'[g].job = run[g].job
                      /\ run'[g].pc = run[g].pc /\ run'[g].wk = run[g].wk
    BY <1>1, RunsToldGood DEF LoseOwnership
  <2>1. run[g] \in RunType
    BY <1>1 DEF RunsGood
  <2>2. run'[g] = run[g] \/ run'[g] = [run[g] EXCEPT !.killed = TRUE]
    BY DEF LoseOwnership
  <2> QED
    BY <2>1, <2>2 DEF RunType
<1>4. faults' \in 0..MaxFaults
  BY <1>1, JobsAssumption DEF RestOK, LoseOwnership
<1>5. RestOK'
  BY <1>1, <1>4 DEF LoseOwnership, RestOK
<1> QED
  BY <1>2, <1>3, <1>5, Parts, PTL

LEMMA RecoverInv ==
  ASSUME IInv, Start \/ RecoveryTimer
  PROVE  IInv'
<1>1. RowsGood /\ RunsGood /\ RestOK
  BY Parts
<1>2. \A j \in Jobs : Good(db'[j])
  BY <1>1, RowIsGood, RecoverGood DEF Start, RecoveryTimer, Recover
<1>3. RowsGood'
  BY <1>2 DEF RowsGood, LeaseLedger, Good, Start, RecoveryTimer, Recover
<1>4. timer' \in {NoToken} \cup Tokens
  BY <1>2 DEF Start, RecoveryTimer, Recover, Good, RowType
<1>5. RunsGood'
  BY <1>1 DEF RunsGood, RunsHaveJobs, Start, RecoveryTimer
<1>6. RestOK'
  BY <1>1, <1>4 DEF Start, RecoveryTimer, Recover, RestOK, UnchangedWorld
<1> QED
  BY <1>3, <1>5, <1>6, Parts, PTL

LEMMA RecoverResultsInv ==
  ASSUME IInv, RecoverResults
  PROVE  IInv'
<1>1. RowsGood /\ RunsGood /\ RestOK
  BY Parts
<1>2. \A j \in Jobs : Good(db'[j])
  BY <1>1, RowIsGood, RecoveredResultGood DEF RecoverResults
<1>3. RowsGood'
  BY <1>2 DEF RowsGood, LeaseLedger, Good, RecoverResults
<1>4. RunsGood' /\ RestOK'
  BY <1>1 DEF RunsGood, RunsHaveJobs, RecoverResults, RestOK
<1> QED
  BY <1>3, <1>4, Parts, PTL

LEMMA DrainEndInv ==
  ASSUME IInv, DrainEnd
  PROVE  IInv'
  BY DEF DrainEnd, IInv, TypeOK, RunsHaveJobs, LeaseLedger

---------------------------------------------------------------------------
LEMMA InitInv == Init => IInv
<1> SUFFICES ASSUME Init PROVE IInv
  OBVIOUS
<1>1. Good(AbsentRow)
  BY AbsentGood
<1>2. RowsGood
  BY <1>1 DEF Init, RowsGood, LeaseLedger, Good
<1>3. NoRun \in RunType /\ NoRun.pc = "none" /\ NoRun.wk = "none"
  BY DEF NoRun, RunType
<1>4. RunsGood
  BY <1>3 DEF Init, RunsGood, RunsHaveJobs
<1>5. RestOK
  <2>1. 0 \in 0..MaxClaims /\ 0 \in 0..MaxFaults
    BY BoundsAssumption, JobsAssumption
  <2>2. owned \in BOOLEAN /\ draining \in BOOLEAN
    BY DEF Init
  <2>3. /\ born \in [Jobs -> Nat] /\ dispatches \in [Jobs -> Nat]
        /\ outcome \in [Jobs -> {"none", "ok", "failed"}]
        /\ active \in [Jobs -> {NoToken} \cup Tokens]
    BY DEF Init
  <2>4. issued \in 0..MaxClaims /\ faults \in 0..MaxFaults
    BY <2>1 DEF Init
  <2>5. /\ expired \subseteq Tokens /\ up \in {"down", "starting", "up", "stopping"}
        /\ volatile \subseteq Jobs /\ timer \in {NoToken} \cup Tokens
    BY DEF Init
  <2> QED
    BY <2>2, <2>3, <2>4, <2>5 DEF RestOK
<1> QED
  BY <1>2, <1>4, <1>5, Parts

(* Every step of every actor keeps the inductive invariant. *)
LEMMA NextInv == IInv /\ [Next]_vars => IInv'
<1> SUFFICES ASSUME IInv, [Next]_vars PROVE IInv'
  OBVIOUS
<1>1. CASE UNCHANGED vars
  BY <1>1 DEF vars, IInv, TypeOK, RunsHaveJobs, LeaseLedger
<1>2. ASSUME NEW g \in Tokens, RunStep(g) PROVE IInv'
  BY <1>2, WorkerInv, RunSettlesInv, SignalInv, ApprovalSettleInv DEF RunStep
<1>3. ASSUME NEW j \in Jobs, JobStep(j) PROVE IInv'
  BY <1>3, SubmitInv, DispatchInv, CancelInv DEF JobStep
<1>4. CASE ProcessStep
  BY <1>4, DrainEndInv, ShutdownInv, EndInv, LoseOwnershipInv, RecoverInv, RecoverResultsInv
  DEF ProcessStep
<1> QED
  BY <1>1, <1>2, <1>3, <1>4 DEF Next

LEMMA Invariance == Spec => []IInv
  BY InitInv, NextInv, PTL DEF Spec

(* Every reachable state has the declared shape: no handler writes a status, a   *)
(* lease or a run outside of what the ledger and the supervisor know.          *)
THEOREM TypeCorrect == Spec => []TypeOK
<1>1. IInv => TypeOK
  BY DEF IInv
<1> QED
  BY <1>1, Invariance, PTL

(* Leases, lease rows, attempt owners and statuses agree in every reachable      *)
(* state, whatever the number of jobs, workers and faults, under stalls and a   *)
(* lost instance lease too (SqliteJobStore, RunLedger).                         *)
THEOREM LeaseLedgerHolds == Spec => []LeaseLedger
<1>1. IInv => LeaseLedger
  BY DEF IInv
<1> QED
  BY <1>1, Invariance, PTL

---------------------------------------------------------------------------
(* RuntimeJobs implements JobLife, while no lease of a live run lapses. *)

USE DEF NoToken, Tokens, TERMINAL_JOB_STATES

(* Neither process.exec nor agent.delegate is retry-safe (their descriptors).    *)
NoUnsafeRetry == \A k \in Kinds : k.graceful \/ k.fenced => ~k.retrySafe

---------------------------------------------------------------------------
(* What the transactions tell of a row *)

Tell(status) ==
  CASE status = "absent" -> "none"
    [] status \in {"queued", "awaiting-approval"} -> "waiting"
    [] OTHER -> status

(* The row goes where JobLife lets it go, or nowhere. *)
Lawful(r, r2) ==
  \/ Tell(r2.status) = Tell(r.status)
  \/ Tell(r2.status) \in Life!Moves(Tell(r.status))

SameRow(r, r2) == r2.status = r.status /\ r2.lease = r.lease /\ r2.kind = r.kind

LEMMA TransitionRow ==
  ASSUME NEW r \in RowType, NEW to
  PROVE  SameRow(r, transitionAttempt(r, to))
         /\ DOMAIN transitionAttempt(r, to) = DOMAIN r
  BY DEF transitionAttempt, SameRow, RowType

(* Every settlement publishes one status and gives the lease back. *)
LEMMA SettledRowIs ==
  ASSUME NEW r \in RowType, NEW to, NEW status, NEW moved,
         moved = r \/ moved = transitionAttempt(r, to)
  PROVE  releaseLease([moved EXCEPT !.status = status]).status = status
  BY TransitionRow DEF releaseLease, RowType, SameRow

LEMMA UpdateIs ==
  ASSUME NEW r \in RowType, NEW requested
  PROVE  /\ update(r, requested).status = TargetStatus(r, requested)
         /\ updateKeepingLease(r, requested).status = TargetStatus(r, requested)
         /\ updateKeepingLease(r, requested).lease = r.lease
         /\ updateKeepingLease(r, requested).kind = r.kind
<1> DEFINE target == TargetStatus(r, requested)
           moved == IF target \in TERMINAL_JOB_STATES THEN transitionAttempt(r, target) ELSE r
<1>1. SameRow(r, moved) /\ DOMAIN moved = DOMAIN r
  BY TransitionRow DEF SameRow
<1>2. moved = r \/ moved = transitionAttempt(r, target)
  OBVIOUS
<1>3. updateKeepingLease(r, requested) = [moved EXCEPT !.status = target]
  BY DEF updateKeepingLease
<1>4. update(r, requested) = releaseLease([moved EXCEPT !.status = target])
  BY <1>3 DEF update
<1>5. DOMAIN r = {"kind", "status", "attempts", "lease", "open", "num", "state", "owner",
                  "bound", "audited", "cancelRequested", "persisted"}
  BY DEF RowType
<1> HIDE DEF target, moved
<1>6. update(r, requested).status = target
  BY <1>2, <1>4, SettledRowIs
<1>7. [moved EXCEPT !.status = target].status = target
      /\ [moved EXCEPT !.status = target].lease = r.lease
      /\ [moved EXCEPT !.status = target].kind = r.kind
  BY <1>1, <1>5 DEF SameRow
<1> QED
  BY <1>3, <1>6, <1>7 DEF target

(* A running job may become anything but absent; one that was told to stop ends; *)
(* one that is under review stays so.                                           *)
LEMMA UpdateLawful ==
  ASSUME NEW r \in RowType, NEW requested \in {"queued", "awaiting-approval"} \cup TERMINAL_JOB_STATES,
         \/ r.status = "running"
         \/ r.status = "cancelling" /\ requested \in TERMINAL_JOB_STATES
         \/ r.status \in {"cancelling"} \cup TERMINAL_JOB_STATES /\ requested = "needs-review"
  PROVE  Lawful(r, update(r, requested))
<1>1. /\ TargetStatus(r, requested) \in {"queued", "awaiting-approval"} \cup TERMINAL_JOB_STATES
      /\ requested \in TERMINAL_JOB_STATES => TargetStatus(r, requested) \in TERMINAL_JOB_STATES
      /\ requested = "needs-review" => TargetStatus(r, requested) = "needs-review"
  BY TargetStatusKind DEF TargetStatus
<1> QED
  BY <1>1, UpdateIs DEF Lawful, Tell, Life!Moves, Life!Ends

LEMMA CancelIs ==
  ASSUME NEW r, Good(r), r.status # "absent"
  PROVE  /\ Lawful(r, cancel(r))
         /\ cancel(r).kind = r.kind
         /\ \/ cancel(r).status \in TERMINAL_JOB_STATES /\ cancel(r).lease \in {NoToken, r.lease}
               /\ (cancel(r).lease = r.lease /\ r.lease # NoToken => cancel(r) = r)
            \/ cancel(r).status = "cancelling" /\ cancel(r).lease = r.lease
<1>1. r \in RowType /\ LedgerConsistent(r)
  BY DEF Good
<1>2. CASE r.status \in TERMINAL_JOB_STATES
  BY <1>1, <1>2 DEF cancel, Lawful
<1>3. CASE r.status \notin TERMINAL_JOB_STATES /\ Settled(r)
  <2>1. cancel(r) = releaseLease([r EXCEPT !.status = r.state])
    BY <1>3 DEF cancel
  <2>2. cancel(r).status = r.state /\ cancel(r).lease = NoToken /\ cancel(r).kind = r.kind
    BY <1>1, <2>1 DEF releaseLease, RowType
  <2>3. r.state \in TERMINAL_JOB_STATES
    BY <1>3 DEF Settled
  <2>4. Lawful(r, cancel(r))
    BY <1>1, <1>3, <2>2, <2>3 DEF Lawful, Tell, Life!Moves, Life!Ends, RowType, JOB_STATES
  <2> QED
    BY <2>2, <2>3, <2>4
<1>4. CASE r.status \notin TERMINAL_JOB_STATES /\ ~Settled(r)
  <2> DEFINE status == IF r.status \in {"running", "cancelling"} THEN "cancelling" ELSE "cancelled"
             moved == IF r.num > 0 /\ r.state = "running" THEN transitionAttempt(r, "cancelling")
                      ELSE IF status = "cancelled" THEN transitionAttempt(r, "cancelled") ELSE r
             requested == moved.cancelRequested \/ r.num > 0
  <2>1. SameRow(r, moved) /\ DOMAIN moved = DOMAIN r
    BY <1>1, TransitionRow DEF SameRow
  <2>2. cancel(r) = [moved EXCEPT !.status = status, !.cancelRequested = requested]
    BY <1>4 DEF cancel
  <2>3. DOMAIN r = {"kind", "status", "attempts", "lease", "open", "num", "state", "owner",
                    "bound", "audited", "cancelRequested", "persisted"}
    BY <1>1 DEF RowType
  <2> HIDE DEF moved, requested
  <2>4. cancel(r).status = status /\ cancel(r).lease = r.lease /\ cancel(r).kind = r.kind
    <3> HIDE DEF status
    <3> QED
      BY <2>1, <2>2, <2>3 DEF SameRow
  <2>5. r.status \in {"queued", "running", "cancelling", "awaiting-approval"}
    BY <1>1, <1>4 DEF RowType, JOB_STATES
  <2>6. status = "cancelled" => r.lease = NoToken
    BY <1>1, <2>5 DEF LedgerConsistent
  <2>7. Lawful(r, cancel(r))
    BY <2>4, <2>5 DEF Lawful, Tell, Life!Moves, Life!Ends
  <2> QED
    BY <2>4, <2>6, <2>7
<1> QED
  BY <1>2, <1>3, <1>4

LEMMA SettleApprovalLawful ==
  ASSUME NEW r \in RowType, r.status \in {"running", "cancelling"},
         NEW dispatched, NEW interrupted, NEW error
  PROVE  Lawful(r, settleApproval(r, dispatched, interrupted, error))
<1> DEFINE target == IF interrupted \/ r.status = "cancelling"
                     THEN IF dispatched THEN "needs-review" ELSE "cancelled"
                     ELSE IF error THEN "needs-review" ELSE "completed"
<1>1. target \in TERMINAL_JOB_STATES
  OBVIOUS
<1>2. settleApproval(r, dispatched, interrupted, error)
        = releaseLease([transitionAttempt(r, target) EXCEPT !.status = target])
  BY DEF settleApproval
<1> HIDE DEF target
<1>3. settleApproval(r, dispatched, interrupted, error).status = target
  BY <1>2, SettledRowIs
<1> QED
  BY <1>1, <1>3 DEF Lawful, Tell, Life!Moves, Life!Ends

LEMMA AdoptLawful ==
  ASSUME NEW r \in RowType, r.status \in {"running", "cancelling"} \cup TERMINAL_JOB_STATES,
         NEW interrupted
  PROVE  Lawful(r, adoptProtectedResult(r, interrupted))
<1>1. PICK target \in {"completed", "needs-review"} :
        /\ target = "completed" => r.status = "running"
        /\ adoptProtectedResult(r, interrupted)
             = releaseLease([transitionAttempt(r, target) EXCEPT !.status = target])
  BY DEF CanAdopt, adoptProtectedResult
<1>2. adoptProtectedResult(r, interrupted).status = target
  BY <1>1, SettledRowIs
<1> QED
  BY <1>1, <1>2 DEF Lawful, Tell, Life!Moves, Life!Ends

LEMMA RecoverLawful ==
  ASSUME NEW r, Good(r), NeedsRecovery(r, expired)
  PROVE  Lawful(r, recover(r))
<1> DEFINE status == RecoveredStatus(r)
           moved == IF status \in TERMINAL_JOB_STATES THEN transitionAttempt(r, status)
                    ELSE IF status = "queued" /\ r.state \in {"running", "cancelling"}
                    THEN transitionAttempt(r, "failed") ELSE r
<1>1. recover(r) = releaseLease([moved EXCEPT !.status = status])
  BY DEF recover
<1>2. \E to : moved = r \/ moved = transitionAttempt(r, to)
  OBVIOUS
<1>3. status \in {"queued", "awaiting-approval"} \cup TERMINAL_JOB_STATES
  BY RecoveredStatusKind
<1>4. r.status = "cancelling" => status \in TERMINAL_JOB_STATES
  BY DEF RecoveredStatus, RetrySettled, Settled
<1>5. r.status \in {"running", "cancelling", "awaiting-approval", "queued"}
  BY DEF NeedsRecovery
<1> HIDE DEF status, moved
<1>6. recover(r).status = status
  BY <1>1, <1>2, SettledRowIs DEF Good
<1> QED
  BY <1>3, <1>4, <1>5, <1>6 DEF Lawful, Tell, Life!Moves, Life!Ends

LEMMA RecoveredResultLawful ==
  ASSUME NEW r, Good(r)
  PROVE  Lawful(r, RecoveredResult(r))
<1>1. CASE RecoveredResult(r) = r
  BY <1>1 DEF Lawful
<1>2. CASE r.status \in {"running", "cancelling", "completed"}
           /\ RecoveredResult(r) = update(r, "needs-review")
  BY <1>2, UpdateLawful DEF Good
<1>3. CASE r.status \in {"running", "cancelling"}
           /\ RecoveredResult(r) = adoptProtectedResult(r, FALSE)
  BY <1>3, AdoptLawful DEF Good
<1> QED
  BY <1>1, <1>2, <1>3 DEF RecoveredResult

---------------------------------------------------------------------------
(* The inductive invariant *)

(* Whoever took the row of a living run out of running has told the run so, and  *)
(* the run will ask for nothing but the end that the row is going to.          *)
Heeds(w, r) ==
  /\ w.abort # "none"
  /\ w.mode = "run" => w.abort = "cancel" \/ ~r.kind.retrySafe
  /\ r.status \in TERMINAL_JOB_STATES => r.status = "needs-review" /\ ~r.kind.retrySafe

(* A run of the living supervisor has the only entry of its job, its lease does  *)
(* not lapse, and its row is leased to it, or was ended and the run was told.   *)
Governed(g) ==
  /\ active[run[g].job] = g /\ g \notin expired
  /\ \/ Row(g).lease = g /\ (Row(g).status = "running" \/ Heeds(run[g], Row(g)))
     \/ Row(g).lease = NoToken /\ Row(g).status \in TERMINAL_JOB_STATES /\ run[g].abort # "none"

(* A run that was told to stop settles before anything else happens, unless its  *)
(* worker may end gracefully or was not started yet.                            *)
Obeys(g) ==
  /\ run[g].mode = "run" => run[g].wk # "none"
  /\ run[g].abort # "none" /\ run[g].wk # "none" => run[g].killed \/ Row(g).kind.graceful

RunsGoverned == \A g \in Tokens : Alive(g) => Governed(g)
RunsObey == \A g \in Tokens : run[g].pc = "exec" => Obeys(g)
FreshTokens ==
  \A g \in Tokens : g > issued => run[g].pc = "none" /\ run[g].wk = "none" /\ g \notin expired
QuietWhenDown == up \in {"down", "starting"} => ~draining /\ \A g \in Tokens : ~Alive(g)

LifeInv == RunsGoverned /\ RunsObey /\ FreshTokens /\ QuietWhenDown

AllLawful == \A j \in Jobs : Lawful(db[j], db'[j])
LifeStep == LifeInv' /\ AllLawful

---------------------------------------------------------------------------
(* What most steps leave alone *)

(* A living run goes on over the same row. *)
Follows(g) ==
  /\ Alive(g) /\ run'[g].job = run[g].job /\ run'[g].mode = run[g].mode
  /\ run[g].abort # "none" => run'[g].abort = run[g].abort
  /\ SameRow(Row(g), db'[run[g].job])
  /\ active'[run[g].job] = g /\ g \notin expired'

LEMMA FollowsGoverned ==
  ASSUME LifeInv, NEW g \in Tokens, Follows(g)
  PROVE  Governed(g)'
<1>1. Governed(g)
  BY DEF LifeInv, RunsGoverned, Follows
<1>2. Row(g)' = db'[run[g].job]
  BY DEF Row, Follows
<1> QED
  BY <1>1, <1>2 DEF Governed, Follows, SameRow, Heeds, Row

(* ... and with it what it was told, and that its worker was started. *)
Keeps(g) ==
  /\ run[g].pc = "exec" /\ run'[g].job = run[g].job /\ run'[g].mode = run[g].mode
  /\ run'[g].abort = run[g].abort
  /\ run[g].wk # "none" => run'[g].wk # "none"
  /\ run'[g].wk # "none" => run[g].wk # "none"
  /\ run[g].killed => run'[g].killed
  /\ db'[run[g].job].kind = Row(g).kind

LEMMA KeepsObeys ==
  ASSUME LifeInv, NEW g \in Tokens, Keeps(g)
  PROVE  Obeys(g)'
<1>1. Obeys(g)
  BY DEF LifeInv, RunsObey, Keeps
<1>2. Row(g)' = db'[run[g].job]
  BY DEF Row, Keeps
<1> QED
  BY <1>1, <1>2 DEF Obeys, Keeps

(* A token with a run or a worker was issued. *)
LEMMA WasIssued ==
  ASSUME LifeInv, NEW g \in Tokens, run[g].pc # "none" \/ run[g].wk # "none"
  PROVE  ~(g > issued)
  BY DEF LifeInv, FreshTokens

(* A job that waits has no living run. *)
LEMMA NoRunOfWaiting ==
  ASSUME IInv, LifeInv, NEW g \in Tokens, Alive(g),
         Row(g).status \in {"absent", "queued", "awaiting-approval"}
  PROVE  FALSE
<1>1. Good(Row(g))
  BY RunRow DEF Alive
<1>2. Governed(g)
  BY DEF LifeInv, RunsGoverned
<1> QED
  BY <1>1, <1>2, BoundsAssumption DEF Good, LedgerConsistent, Governed

(* Two living runs have two jobs. *)
LEMMA OneRunEach ==
  ASSUME LifeInv, NEW g \in Tokens, NEW h \in Tokens, Alive(g), Alive(h), run[g].job = run[h].job
  PROVE  g = h
  BY DEF LifeInv, RunsGoverned, Governed

LEMMA SameLawful ==
  ASSUME \A j \in Jobs : db'[j].status = db[j].status
  PROVE  AllLawful
  BY DEF AllLawful, Lawful

LEMMA KeptRun ==
  ASSUME NEW w \in RunType
  PROVE  /\ w.pc \in {"exec", "persisted"} => Kept(w) = w
         /\ w.pc \notin {"exec", "persisted"} => Kept(w).pc \notin {"exec", "persisted"}
  BY DEF Kept, NoRun, RunType

---------------------------------------------------------------------------
(* The steps of a worker *)

LEMMA TransitionExecutionSame ==
  ASSUME NEW r \in RowType, NEW g, NEW to
  PROVE  SameRow(r, transitionExecutionAttempt(r, g, to))
  BY DEF SameRow, transitionExecutionAttempt, RowType

LEMMA FailAttemptSame ==
  ASSUME NEW g, Row(g) \in RowType, NEW to
  PROVE  SameRow(Row(g), failAttempt(g, to))
  BY TransitionExecutionSame DEF failAttempt, SameRow

(* A worker changes its own run and, of its row, nothing that is told. *)
LEMMA WorkerRows ==
  ASSUME IInv, NEW g \in Tokens, WorkerStep(g) \/ WorkerCrash(g), Row(g) \in RowType, run[g].job \in Jobs
  PROVE  \E r : SameRow(Row(g), r) /\ (SetRow(run[g].job, r) \/ UNCHANGED db)
<1> DEFINE r == Row(g)
<1>1. SameRow(r, r)
  BY DEF SameRow
<1>2. CASE WorkerBind(g)
  <2>1. SameRow(r, [r EXCEPT !.bound = TRUE])
    BY DEF SameRow, RowType
  <2> QED
    BY <1>1, <1>2, <2>1 DEF WorkerBind
<1>3. CASE WorkerAdmit(g)
  <2>1. SameRow(r, admitExecution(r)) /\ SameRow(r, resumeExecution(r))
    BY DEF SameRow, RowType, admitExecution, resumeExecution
  <2> QED
    BY <1>1, <1>3, <2>1 DEF WorkerAdmit
<1>4. CASE WorkerStart(g) \/ WorkerApproval(g) \/ WorkerSettles(g)
  <2>1. \A to : SameRow(r, transitionExecutionAttempt(r, g, to))
    BY TransitionExecutionSame
  <2> QED
    BY <1>1, <1>4, <2>1 DEF WorkerStart, WorkerApproval, WorkerSettles
<1>5. CASE WorkerGraphEnds(g)
  <2>1. \A to : SameRow(r, transitionExecutionAttempt(r, g, to))
    BY TransitionExecutionSame
  <2> QED
    BY <1>1, <1>5, <2>1 DEF WorkerGraphEnds
<1>6. CASE WorkerDenied(g) \/ WorkerThrows(g) \/ WorkerUncertain(g)
  <2>1. \A to : SameRow(r, failAttempt(g, to))
    BY FailAttemptSame
  <2> QED
    BY <1>6, <2>1 DEF WorkerDenied, WorkerThrows, WorkerUncertain
<1>7. CASE WorkerReturns(g)
  <2>1. SameRow(r, [r EXCEPT !.audited = TRUE])
    BY DEF SameRow, RowType
  <2> QED
    BY <1>7, <2>1 DEF WorkerReturns
<1>8. CASE WorkerRefused(g) \/ WorkerExits(g) \/ WorkerCrash(g)
  BY <1>1, <1>8 DEF WorkerRefused, WorkerExits, WorkerCrash
<1> QED
  BY <1>2, <1>3, <1>4, <1>5, <1>6, <1>7, <1>8 DEF WorkerStep

(* The run as a step of its worker leaves it, before it may be forgotten. *)
Worked(g, w) ==
  /\ w.job = run[g].job /\ w.pc = run[g].pc /\ w.mode = run[g].mode
  /\ w.abort = run[g].abort /\ w.killed = run[g].killed /\ w.wk # "none"

LEMMA WorkerRun ==
  ASSUME IInv, NEW g \in Tokens, WorkerStep(g) \/ WorkerCrash(g), run[g] \in RunType,
         Good(Row(g))
  PROVE  \E w \in RunType : Worked(g, w) /\ run' \in {[run EXCEPT ![g] = Kept(w)], [run EXCEPT ![g] = w]}
<1> DEFINE Goal == \E w \in RunType :
             Worked(g, w) /\ run' \in {[run EXCEPT ![g] = Kept(w)], [run EXCEPT ![g] = w]}
<1>1. ASSUME NEW wk \in WorkerStates \ {"none"}, WorkerGoes(g, wk) PROVE Goal
  <2> DEFINE w == [run[g] EXCEPT !.wk = wk]
  <2>1. w \in RunType /\ Worked(g, w)
    BY DEF RunType, WorkerStates, Worked
  <2>2. run' = [run EXCEPT ![g] = Kept(w)]
    BY <1>1 DEF WorkerGoes
  <2> HIDE DEF w
  <2> QED
    BY <2>1, <2>2
<1>2. CASE WorkerBind(g)
  <2>1. PICK wk \in {"ok", "err", "bound"} :
          run' = [run EXCEPT ![g] = Kept([run[g] EXCEPT !.wk = wk, !.replay = Row(g).bound])]
    BY <1>2 DEF WorkerBind
  <2> DEFINE w == [run[g] EXCEPT !.wk = wk, !.replay = Row(g).bound]
  <2>2. w \in RunType /\ Worked(g, w)
    BY DEF RunType, LiveWorker, Reported, Good, RowType, Worked
  <2>3. run' = [run EXCEPT ![g] = Kept(w)]
    BY <2>1
  <2> HIDE DEF w
  <2> QED
    BY <2>2, <2>3
<1>3. CASE WorkerAdmit(g)
  <2>1. PICK att \in Nat : run' = [run EXCEPT ![g] = [run[g] EXCEPT !.wk = "admitted", !.att = att]]
    <3>1. PICK after : /\ run' = [run EXCEPT ![g].wk = "admitted", ![g].att = after.num]
                       /\ \/ after = Row(g)
                          \/ CanResume(Row(g)) /\ after = resumeExecution(Row(g))
                          \/ CanAdmit(Row(g)) /\ after = admitExecution(Row(g))
      BY <1>3 DEF WorkerAdmit
    <3>2. Good(after)
      BY <3>1, AdmissionGood
    <3>3. run' = [run EXCEPT ![g] = [run[g] EXCEPT !.wk = "admitted", !.att = after.num]]
      BY <3>1 DEF IInv, TypeOK, RunType
    <3> QED
      BY <3>2, <3>3 DEF Good, RowType
  <2> DEFINE w == [run[g] EXCEPT !.wk = "admitted", !.att = att]
  <2>2. w \in RunType /\ Worked(g, w)
    BY DEF RunType, LiveWorker, Worked
  <2>3. run' = [run EXCEPT ![g] = w]
    BY <2>1
  <2> HIDE DEF w
  <2> QED
    BY <2>2, <2>3
<1>4. \/ WorkerBind(g) \/ WorkerAdmit(g)
      \/ \E wk \in {"ok", "err", "approval", "dead", "started", "returned"} : WorkerGoes(g, wk)
  <2>1. CASE WorkerRefused(g) \/ WorkerStart(g) \/ WorkerDenied(g) \/ WorkerApproval(g) \/ WorkerThrows(g)
    BY <2>1 DEF WorkerRefused, WorkerStart, WorkerDenied, WorkerApproval, WorkerThrows
  <2>2. CASE WorkerReturns(g) \/ WorkerUncertain(g) \/ WorkerGraphEnds(g) \/ WorkerSettles(g)
    BY <2>2 DEF WorkerReturns, WorkerUncertain, WorkerGraphEnds, WorkerSettles
  <2>3. CASE WorkerExits(g) \/ WorkerCrash(g)
    BY <2>3 DEF WorkerExits, WorkerCrash
  <2> QED
    BY <2>1, <2>2, <2>3 DEF WorkerStep
<1>5. {"ok", "err", "approval", "dead", "started", "returned"} \subseteq WorkerStates \ {"none"}
  BY DEF WorkerStates, LiveWorker, Reported
<1>6. ASSUME NEW wk \in {"ok", "err", "approval", "dead", "started", "returned"}, WorkerGoes(g, wk)
      PROVE  Goal
  <2> HIDE DEF Goal
  <2> QED
    BY <1>1, <1>5, <1>6
<1> QED
  BY <1>2, <1>3, <1>4, <1>6

LEMMA WorkerLife ==
  ASSUME IInv, LifeInv, NEW g \in Tokens, WorkerStep(g) \/ WorkerCrash(g)
  PROVE  LifeStep
<1>1. run[g].wk # "none"
  BY DEF WorkerStep, WorkerBind, WorkerAdmit, WorkerRefused, WorkerStart, WorkerDenied,
         WorkerApproval, WorkerThrows, WorkerReturns, WorkerUncertain, WorkerGraphEnds,
         WorkerSettles, WorkerExits, WorkerCrash, LiveWorker
<1>2. run[g].job \in Jobs /\ run[g] \in RunType /\ Good(Row(g))
  BY <1>1, RunRow
<1>3. UNCHANGED <<active, expired, issued, up, draining>>
  BY DEF WorkerStep, WorkerBind, WorkerAdmit, WorkerRefused, WorkerStart, WorkerDenied,
         WorkerApproval, WorkerThrows, WorkerReturns, WorkerUncertain, WorkerGraphEnds,
         WorkerSettles, WorkerExits, WorkerCrash, UnchangedSupervisor
<1>4. \A j \in Jobs : SameRow(db[j], db'[j])
  <2>1. PICK r : SameRow(Row(g), r) /\ (SetRow(run[g].job, r) \/ UNCHANGED db)
    BY <1>2, WorkerRows DEF Good
  <2> QED
    BY <1>2, <2>1 DEF SameRow, SetRow, Row, IInv, TypeOK
<1>5. PICK w \in RunType : Worked(g, w) /\ run' \in {[run EXCEPT ![g] = Kept(w)], [run EXCEPT ![g] = w]}
  BY <1>2, WorkerRun
<1>6. /\ \A h \in Tokens \ {g} : run'[h] = run[h]
      /\ Alive(g) => run'[g] = w
      /\ ~Alive(g) => ~Alive(g)'
  BY <1>5, KeptRun DEF IInv, TypeOK, Alive, Worked
<1>7. ASSUME NEW h \in Tokens, Alive(h)' PROVE Governed(h)'
  <2>1. Alive(h)
    BY <1>6, <1>7 DEF Alive
  <2>2. run[h].job \in Jobs
    BY <2>1, RunRow DEF Alive
  <2>3. Governed(h)
    BY <2>1 DEF LifeInv, RunsGoverned
  <2>4. Follows(h)
    BY <1>3, <1>4, <1>5, <1>6, <2>1, <2>2, <2>3 DEF Follows, Governed, Row, Worked
  <2> QED
    BY <2>4, FollowsGoverned
<1>8. ASSUME NEW h \in Tokens, run'[h].pc = "exec" PROVE Obeys(h)'
  <2>1. run[h].pc = "exec"
    <3>1. Alive(h)
      BY <1>6, <1>8 DEF Alive
    <3> QED
      BY <1>5, <1>6, <1>8, <3>1 DEF Worked
  <2>2. run[h].job \in Jobs
    BY <2>1, RunRow
  <2>3. Keeps(h)
    BY <1>1, <1>4, <1>5, <1>6, <2>1, <2>2 DEF Keeps, Row, SameRow, Worked, Alive
  <2> QED
    BY <2>3, KeepsObeys
<1>9. FreshTokens'
  BY <1>1, <1>3, <1>6, WasIssued DEF LifeInv, FreshTokens
<1>10. QuietWhenDown'
  BY <1>3, <1>6 DEF LifeInv, QuietWhenDown, Alive
<1>11. AllLawful
  BY <1>4, SameLawful DEF SameRow
<1> QED
  BY <1>7, <1>8, <1>9, <1>10, <1>11 DEF LifeStep, LifeInv, RunsGoverned, RunsObey

---------------------------------------------------------------------------
(* The steps of the supervisor for one run *)

(* A run ends, its entry goes, and its row goes where it may. *)
LEMMA EndLife ==
  ASSUME IInv, LifeInv, NEW g \in Tokens, Alive(g), NEW r, Lawful(Row(g), r),
         SetRow(run[g].job, r),
         run' = [run EXCEPT ![g] = Kept([@ EXCEPT !.pc = "done"])],
         active' = [active EXCEPT ![run[g].job] = NoToken],
         RequestDrain, UNCHANGED <<issued, up, expired>>
  PROVE  LifeStep
<1>1. run[g].job \in Jobs /\ run[g] \in RunType
  BY RunRow DEF Alive
<1> DEFINE w == [run[g] EXCEPT !.pc = "done"]
<1>2. w \in RunType /\ w.pc = "done"
  BY <1>1 DEF RunType
<1>3. run' = [run EXCEPT ![g] = Kept(w)]
  OBVIOUS
<1> HIDE DEF w
<1>4. ~Alive(g)' /\ \A h \in Tokens \ {g} : run'[h] = run[h]
  BY <1>2, <1>3, KeptRun DEF IInv, TypeOK, Alive
<1>5. ASSUME NEW h \in Tokens, Alive(h)' PROVE Governed(h)' /\ (run'[h].pc = "exec" => Obeys(h)')
  <2>1. h # g /\ Alive(h)
    BY <1>4, <1>5 DEF Alive
  <2>2. run[h].job \in Jobs /\ run[h].job # run[g].job
    BY <2>1, OneRunEach, RunRow DEF Alive
  <2>3. Governed(h)
    BY <2>1 DEF LifeInv, RunsGoverned
  <2>4. db'[run[h].job] = Row(h) /\ active'[run[h].job] = active[run[h].job]
    BY <1>1, <2>2 DEF SetRow, Row, IInv, TypeOK
  <2>5. Follows(h) /\ (run'[h].pc = "exec" => Keeps(h))
    BY <1>4, <2>1, <2>3, <2>4 DEF Follows, Keeps, SameRow, Governed
  <2> QED
    BY <2>5, FollowsGoverned, KeepsObeys
<1>6. FreshTokens'
  BY <1>4, WasIssued DEF LifeInv, FreshTokens, Alive
<1>7. QuietWhenDown'
  BY DEF LifeInv, QuietWhenDown
<1>8. AllLawful
  BY <1>1 DEF AllLawful, Lawful, SetRow, Row, IInv, TypeOK
<1> QED
  BY <1>5, <1>6, <1>7, <1>8 DEF LifeStep, LifeInv, RunsGoverned, RunsObey, Alive

(* Where the row of a living run stands. *)
LEMMA LivingRow ==
  ASSUME IInv, LifeInv, NEW g \in Tokens, Alive(g)
  PROVE  /\ Good(Row(g))
         /\ \/ Row(g).status = "running"
            \/ Row(g).status = "cancelling" /\ Heeds(run[g], Row(g))
            \/ Row(g).status \in TERMINAL_JOB_STATES
               /\ (Row(g).lease = g => Heeds(run[g], Row(g)))
<1>1. Good(Row(g)) /\ Governed(g)
  BY RunRow DEF Alive, LifeInv, RunsGoverned
<1> QED
  BY <1>1, BoundsAssumption DEF Good, LedgerConsistent, Governed, RowType, JOB_STATES

(* The fenced update of a run goes where the row may go. *)
LEMMA FencedLawful ==
  ASSUME IInv, LifeInv, NEW g \in Tokens, Alive(g), run[g].mode = "run",
         NEW requested \in {"queued", "awaiting-approval"} \cup TERMINAL_JOB_STATES,
         \/ run[g].abort = "none"
         \/ \E late : requested = CatchStatus(g, late)
  PROVE  Lawful(Row(g), updateFenced(Row(g), g, requested))
<1>1. CASE Row(g).lease # g
  BY <1>1 DEF updateFenced, Lawful
<1>2. CASE Row(g).lease = g /\ Row(g).status = "running"
  BY <1>2, LivingRow, UpdateLawful DEF updateFenced, Good
<1>3. CASE Row(g).lease = g /\ Row(g).status # "running"
  <2>1. Heeds(run[g], Row(g))
    BY <1>3, LivingRow
  <2>2. PICK late : requested = CatchStatus(g, late)
    BY <2>1 DEF Heeds
  <2>3. /\ requested \in TERMINAL_JOB_STATES
        /\ Row(g).status \in TERMINAL_JOB_STATES => requested = "needs-review"
    BY <2>1, <2>2 DEF CatchStatus, Heeds, RetryLeft
  <2> QED
    BY <1>3, <2>3, LivingRow, UpdateLawful DEF updateFenced, Good
<1> QED
  BY <1>1, <1>2, <1>3

LEMMA SettlesLife ==
  ASSUME IInv, LifeInv, NEW g \in Tokens, RunSettles(g) \/ RunPersistFails(g), ~RunPersist(g)
  PROVE  LifeStep
<1>1. Alive(g)
  BY DEF RunSettles, RunResolved, RunAdopt, RunRejected, RunPersistFails, Answered, MustSettle, Alive
<1>2. PICK r : Finish(g, r) /\ Lawful(Row(g), r)
  <2>1. CASE RunResolved(g)
    <3>1. PICK status \in {"awaiting-approval", "completed"} :
            Finish(g, updateFenced(Row(g), g, status))
      BY <2>1 DEF RunResolved
    <3> QED
      BY <1>1, <2>1, <3>1, FencedLawful DEF RunResolved, Answered
  <2>2. CASE RunAdopt(g)
    BY <1>1, <2>2, LivingRow, AdoptLawful DEF RunAdopt, Good
  <2>3. CASE RunRejected(g) \/ RunPersistFails(g)
    <3>1. PICK late : Finish(g, updateFenced(Row(g), g, CatchStatus(g, late)))
      BY <2>3 DEF RunRejected, RunPersistFails
    <3>2. run[g].mode = "run"
      BY <2>3 DEF RunRejected, RunPersistFails, Answered
    <3> QED
      BY <1>1, <3>1, <3>2, FencedLawful, CatchStatusKind
  <2> QED
    BY <2>1, <2>2, <2>3 DEF RunSettles
<1> QED
  BY <1>1, <1>2, EndLife DEF Finish, UnchangedWorld

LEMMA ApprovalSettleLife ==
  ASSUME IInv, LifeInv, NEW g \in Tokens, ApprovalSettle(g)
  PROVE  LifeStep
<1>1. Alive(g)
  BY DEF ApprovalSettle, Alive
<1>2. active[run[g].job] = g /\ Good(Row(g))
  BY <1>1, LivingRow DEF LifeInv, RunsGoverned, Governed
<1>3. PICK r : SetRow(run[g].job, r) /\ Lawful(Row(g), r)
  <2>1. PICK interrupted, error :
          \/ SetRow(run[g].job, Row(g))
          \/ /\ CanSettleApproval(Row(g), g)
             /\ SetRow(run[g].job, settleApproval(Row(g), run[g].dispatched, interrupted, error))
    BY <1>2 DEF ApprovalSettle
  <2> QED
    BY <1>2, <2>1, SettleApprovalLawful DEF CanSettleApproval, Lawful, Good
<1> QED
  BY <1>1, <1>2, <1>3, EndLife DEF ApprovalSettle, UnchangedWorld

LEMMA PersistLife ==
  ASSUME IInv, LifeInv, NEW g \in Tokens, RunPersist(g)
  PROVE  LifeStep
<1>1. Alive(g)
  BY DEF RunPersist, Answered, Alive
<1>2. run[g].job \in Jobs /\ run[g] \in RunType /\ Good(Row(g))
  BY <1>1, RunRow DEF Alive
<1>3. /\ run'[g].pc = "persisted" /\ run'[g].job = run[g].job /\ run'[g].mode = run[g].mode
      /\ run'[g].abort = run[g].abort
      /\ \A h \in Tokens \ {g} : run'[h] = run[h]
  BY <1>2 DEF RunPersist, IInv, TypeOK, RunType
<1>4. \A j \in Jobs : SameRow(db[j], db'[j])
  <2>1. SameRow(Row(g), [Row(g) EXCEPT !.persisted = TRUE])
    BY <1>2 DEF SameRow, Good, RowType
  <2> QED
    BY <1>2, <2>1 DEF RunPersist, SetRow, SameRow, Row, IInv, TypeOK
<1>5. UNCHANGED <<active, expired, issued, up, draining>>
  BY DEF RunPersist, UnchangedWorld
<1>6. ASSUME NEW h \in Tokens, Alive(h)' PROVE Governed(h)' /\ (run'[h].pc = "exec" => Obeys(h)')
  <2>1. Alive(h)
    BY <1>1, <1>3, <1>6 DEF Alive
  <2>2. run[h].job \in Jobs
    BY <2>1, RunRow DEF Alive
  <2>3. Governed(h)
    BY <2>1 DEF LifeInv, RunsGoverned
  <2>4. Follows(h) /\ (run'[h].pc = "exec" => Keeps(h))
    BY <1>3, <1>4, <1>5, <2>1, <2>2, <2>3 DEF Follows, Keeps, SameRow, Governed, Row
  <2> QED
    BY <2>4, FollowsGoverned, KeepsObeys
<1>7. FreshTokens'
  BY <1>1, <1>3, <1>5, WasIssued DEF LifeInv, FreshTokens, Alive
<1>8. QuietWhenDown'
  BY <1>1, <1>5 DEF LifeInv, QuietWhenDown
<1>9. AllLawful
  BY <1>4, SameLawful DEF SameRow
<1> QED
  BY <1>6, <1>7, <1>8, <1>9 DEF LifeStep, LifeInv, RunsGoverned, RunsObey, Alive

---------------------------------------------------------------------------
(* Orders to a run, and the passing of time *)

LEMMA AbortIs ==
  ASSUME NEW w \in RunType, NEW reason, reason # "none"
  PROVE  LET a == Abort(w, reason) IN
         /\ a.job = w.job /\ a.pc = w.pc /\ a.mode = w.mode /\ a.wk = w.wk
         /\ a.abort # "none" /\ (w.abort # "none" => a = w) /\ (w.abort = "none" => a.abort = reason)
         /\ w.killed => a.killed
         /\ w.abort = "none" /\ w.wk # "none" => a.killed \/ db[w.job].kind.graceful
  BY DEF Abort, RunType

(* A run is told something, or not. *)
Informed(g) ==
  /\ run'[g].job = run[g].job /\ run'[g].pc = run[g].pc /\ run'[g].mode = run[g].mode
  /\ run[g].abort # "none" => run'[g].abort = run[g].abort
  /\ run[g].pc = "exec" =>
       /\ run[g].wk # "none" => run'[g].wk # "none"
       /\ run'[g].abort # "none" /\ run'[g].wk # "none" => run'[g].killed \/ Row(g).kind.graceful
  /\ run[g].pc = "none" => run'[g].wk = run[g].wk

LEMMA InformedLife ==
  ASSUME IInv, LifeInv, \A g \in Tokens : Informed(g),
         UNCHANGED <<db, active, expired, issued, draining>>,
         up' \in {up, "stopping"}
  PROVE  LifeStep
<1>1. ASSUME NEW h \in Tokens, Alive(h)' PROVE Governed(h)' /\ (run'[h].pc = "exec" => Obeys(h)')
  <2>1. Alive(h) /\ Informed(h)
    BY <1>1 DEF Alive, Informed
  <2>2. Governed(h) /\ (run[h].pc = "exec" => Obeys(h))
    BY <2>1 DEF LifeInv, RunsGoverned, RunsObey
  <2>3. Follows(h)
    BY <2>1, <2>2 DEF Follows, SameRow, Governed, Row, Informed
  <2>4. run'[h].pc = "exec" => Obeys(h)'
    BY <2>1, <2>2 DEF Informed, Obeys, Row
  <2> QED
    BY <2>3, <2>4, FollowsGoverned
<1>2. FreshTokens'
  BY DEF LifeInv, FreshTokens, Informed
<1>3. QuietWhenDown'
  BY DEF LifeInv, QuietWhenDown, Informed, Alive
<1>4. AllLawful
  BY SameLawful
<1> QED
  BY <1>1, <1>2, <1>3, <1>4 DEF LifeStep, LifeInv, RunsGoverned, RunsObey, Alive

LEMMA SignalLife ==
  ASSUME IInv, LifeInv, NEW g \in Tokens,
         Timeout(g) \/ HeartbeatLost(g) \/ GraceExpires(g) \/ ApprovalDispatch(g) \/ RequestAborted(g)
  PROVE  LifeStep
<1>1. run[g].pc = "exec"
  BY DEF Timeout, HeartbeatLost, GraceExpires, ApprovalDispatch, RequestAborted
<1>2. run[g].job \in Jobs /\ run[g] \in RunType
  BY <1>1, RunRow
<1>3. UNCHANGED <<db, active, expired, issued, draining, up>>
  BY DEF Timeout, HeartbeatLost, GraceExpires, ApprovalDispatch, RequestAborted, AbortRun,
         UnchangedWorld
<1>4. Obeys(g)
  BY <1>1 DEF LifeInv, RunsObey
<1>5. PICK w : /\ run' = [run EXCEPT ![g] = w]
               /\ w.job = run[g].job /\ w.pc = run[g].pc /\ w.mode = run[g].mode
               /\ run[g].abort # "none" => w.abort = run[g].abort
               /\ run[g].wk # "none" => w.wk # "none"
               /\ w.abort # "none" /\ w.wk # "none" => w.killed \/ Row(g).kind.graceful
  <2>1. CASE Timeout(g) \/ HeartbeatLost(g)
    <3>1. PICK reason \in {"timeout", "lease"} : run' = [run EXCEPT ![g] = Abort(run[g], reason)]
      BY <2>1 DEF Timeout, HeartbeatLost, AbortRun
    <3>2. run[g].abort = "none"
      BY <2>1 DEF Timeout, HeartbeatLost
    <3> DEFINE w == Abort(run[g], reason)
    <3>3. /\ w.job = run[g].job /\ w.pc = run[g].pc /\ w.mode = run[g].mode /\ w.wk = run[g].wk
          /\ run[g].wk # "none" => w.killed \/ db[run[g].job].kind.graceful
      BY <1>2, <3>2, AbortIs
    <3>4. run' = [run EXCEPT ![g] = w]
      BY <3>1
    <3> HIDE DEF w
    <3> QED
      BY <3>2, <3>3, <3>4 DEF Row
  <2>2. CASE GraceExpires(g) \/ RequestAborted(g)
    <3> DEFINE w == [run[g] EXCEPT !.killed = TRUE]
    <3>1. run' = [run EXCEPT ![g] = w]
      BY <1>2, <2>2 DEF GraceExpires, RequestAborted, IInv, TypeOK, RunType
    <3>2. /\ w.job = run[g].job /\ w.pc = run[g].pc /\ w.mode = run[g].mode /\ w.wk = run[g].wk
          /\ w.abort = run[g].abort /\ w.killed
      BY <1>2 DEF RunType
    <3> HIDE DEF w
    <3> QED
      BY <3>1, <3>2
  <2>3. CASE ApprovalDispatch(g)
    <3> DEFINE w == [run[g] EXCEPT !.dispatched = TRUE, !.killed = ~owned,
                                   !.wk = IF owned THEN "boot" ELSE "err"]
    <3>1. run' = [run EXCEPT ![g] = w]
      BY <1>2, <2>3 DEF ApprovalDispatch, IInv, TypeOK, RunType
    <3>2. run[g].abort = "none" /\ run[g].wk = "none"
      BY <2>3 DEF ApprovalDispatch
    <3>3. /\ w.job = run[g].job /\ w.pc = run[g].pc /\ w.mode = run[g].mode
          /\ w.abort = run[g].abort
      BY <1>2 DEF RunType
    <3> HIDE DEF w
    <3> QED
      BY <3>1, <3>2, <3>3
  <2> QED
    BY <2>1, <2>2, <2>3
<1>6. run'[g] = w /\ \A h \in Tokens \ {g} : run'[h] = run[h]
  BY <1>5 DEF IInv, TypeOK
<1>7. ASSUME NEW h \in Tokens PROVE Informed(h)
  <2>1. run[h].pc = "exec" => Obeys(h)
    BY DEF LifeInv, RunsObey
  <2> QED
    BY <1>1, <1>5, <1>6, <2>1 DEF Informed, Obeys
<1> QED
  BY <1>3, <1>7, InformedLife

LEMMA TimeLife ==
  ASSUME IInv, LifeInv, ~Stalls, NEW g \in Tokens, Renew(g) \/ Expire(g)
  PROVE  LifeStep
<1>1. /\ UNCHANGED <<db, run, active, issued, draining, up>>
      /\ expired' \subseteq expired \cup {g} /\ (g \in expired' => ~Alive(g))
      /\ run[g].pc # "none"
  BY DEF Renew, Expire, LifeInv, RunsGoverned, Governed
<1>2. ASSUME NEW h \in Tokens, Alive(h)' PROVE Governed(h)' /\ (run'[h].pc = "exec" => Obeys(h)')
  <2>1. Alive(h) /\ Governed(h) /\ (run[h].pc = "exec" => Obeys(h))
    BY <1>1, <1>2 DEF Alive, LifeInv, RunsGoverned, RunsObey
  <2>2. h \notin expired'
    BY <1>1, <2>1 DEF Governed
  <2> QED
    BY <1>1, <2>1, <2>2 DEF Governed, Obeys, Row
<1>3. FreshTokens'
  BY <1>1, WasIssued DEF LifeInv, FreshTokens
<1>4. QuietWhenDown'
  BY <1>1 DEF LifeInv, QuietWhenDown, Alive
<1>5. AllLawful
  BY <1>1, SameLawful
<1> QED
  BY <1>2, <1>3, <1>4, <1>5 DEF LifeStep, LifeInv, RunsGoverned, RunsObey, Alive

---------------------------------------------------------------------------
(* The steps of the supervisor for one job *)

(* Living runs follow when the job that changes is none of theirs. *)
LEMMA OthersFollow ==
  ASSUME IInv, LifeInv, NEW j \in Jobs, NEW r, SetRow(j, r), NEW h \in Tokens, Alive(h),
         run[h].job # j, run'[h] = run[h], expired' = expired,
         \A i \in Jobs \ {j} : active'[i] = active[i]
  PROVE  Governed(h)' /\ (run'[h].pc = "exec" => Obeys(h)')
<1>1. run[h].job \in Jobs
  BY RunRow DEF Alive
<1>2. Governed(h)
  BY DEF LifeInv, RunsGoverned
<1>3. db'[run[h].job] = Row(h)
  BY <1>1 DEF SetRow, Row, IInv, TypeOK
<1>4. Follows(h) /\ (run'[h].pc = "exec" => Keeps(h))
  BY <1>1, <1>2, <1>3 DEF Follows, Keeps, SameRow, Governed
<1> QED
  BY <1>4, FollowsGoverned, KeepsObeys

LEMMA SubmitLife ==
  ASSUME IInv, LifeInv, NEW j \in Jobs, NEW k \in Kinds, Submit(j, k)
  PROVE  LifeStep
<1>1. /\ SetRow(j, create(db[j], k)) /\ db[j].status = "absent"
      /\ UNCHANGED <<run, active, expired, issued, up>> /\ up = "up"
  BY DEF Submit
<1>2. Lawful(db[j], create(db[j], k))
  <2>1. create(db[j], k).status = "queued"
    BY DEF create, IInv, TypeOK, RowType
  <2> QED
    BY <1>1, <2>1 DEF Lawful, Tell, Life!Moves, Life!Ends
<1>3. ASSUME NEW h \in Tokens, Alive(h)' PROVE Governed(h)' /\ (run'[h].pc = "exec" => Obeys(h)')
  <2>1. Alive(h) /\ run[h].job # j
    BY <1>1, <1>3, NoRunOfWaiting DEF Alive, Row
  <2> QED
    BY <1>1, <2>1, OthersFollow
<1>4. FreshTokens' /\ QuietWhenDown'
  BY <1>1 DEF LifeInv, FreshTokens, QuietWhenDown
<1>5. AllLawful
  BY <1>1, <1>2 DEF AllLawful, Lawful, SetRow, IInv, TypeOK
<1> QED
  BY <1>3, <1>4, <1>5 DEF LifeStep, LifeInv, RunsGoverned, RunsObey, Alive

LEMMA DispatchLife ==
  ASSUME IInv, LifeInv, NEW j \in Jobs, DrainDispatch(j) \/ DrainFail(j) \/ BeginApproval(j)
  PROVE  LifeStep
<1> DEFINE g == issued + 1
<1>1. /\ issued \in Nat /\ g \in Tokens /\ issued' = g /\ UNCHANGED <<expired, up>>
      /\ draining' = draining
  BY NewToken, Parts DEF DrainDispatch, DrainFail, BeginApproval, CanClaim, UnchangedWorld, RestOK
<1>2. db[j].status \in {"queued", "awaiting-approval"} /\ Good(db[j])
  BY Parts, RowIsGood DEF DrainDispatch, DrainFail, BeginApproval, CanClaim, Oldest, Queued,
                          CanClaimApproval
<1>3. up \notin {"down", "starting"}
  BY DEF DrainDispatch, DrainFail, BeginApproval, CanClaim, LifeInv, QuietWhenDown
<1>4. g \notin expired /\ ~Alive(g)
  <2>1. g > issued
    BY <1>1
  <2> QED
    BY <1>1, <2>1 DEF LifeInv, FreshTokens, Alive
<1>5. \A h \in Tokens : Alive(h) => run[h].job # j
  BY <1>2, NoRunOfWaiting DEF Row
<1>6. /\ Good(Lease(db[j], g)) /\ Lease(db[j], g).status = "running" /\ Lease(db[j], g).lease = g
      /\ Good(claimNextQueued(db[j], g)) /\ claimNextQueued(db[j], g).status = "running"
      /\ claimNextQueued(db[j], g).lease = g
  <2>1. Lease(db[j], g).status = "running" /\ Lease(db[j], g).lease = g
    BY <1>2 DEF Lease, Good, RowType
  <2>2. claimNextQueued(db[j], g).status = "running" /\ claimNextQueued(db[j], g).lease = g
    BY <1>2 DEF claimNextQueued, Lease, Good, RowType
  <2>3. Good(Lease(db[j], g)) /\ Good(claimNextQueued(db[j], g))
    BY <1>1, <1>2, LeaseGood DEF Good, LedgerConsistent, claimApproval
  <2> QED
    BY <2>1, <2>2, <2>3
<1>7. CASE DrainFail(j)
  <2>1. SetRow(j, update(claimNextQueued(db[j], g), "failed")) /\ UNCHANGED <<run, active>>
    BY <1>7 DEF DrainFail
  <2>2. update(claimNextQueued(db[j], g), "failed").status \in TERMINAL_JOB_STATES
    BY <1>6, UpdateIs, TargetStatusKind DEF Good
  <2>3. Lawful(db[j], update(claimNextQueued(db[j], g), "failed"))
    BY <1>2, <2>2 DEF Lawful, Tell, Life!Moves, Life!Ends
  <2>4. ASSUME NEW h \in Tokens, Alive(h)' PROVE Governed(h)' /\ (run'[h].pc = "exec" => Obeys(h)')
    BY <1>1, <1>5, <2>1, <2>4, OthersFollow DEF Alive
  <2>5. FreshTokens' /\ QuietWhenDown'
    BY <1>1, <1>3, <2>1 DEF LifeInv, FreshTokens, QuietWhenDown
  <2>6. AllLawful
    BY <2>1, <2>3 DEF AllLawful, Lawful, SetRow, IInv, TypeOK
  <2> QED
    BY <2>4, <2>5, <2>6 DEF LifeStep, LifeInv, RunsGoverned, RunsObey, Alive
<1>8. CASE DrainDispatch(j) \/ BeginApproval(j)
  <2>1. PICK r : SetRow(j, r) /\ r.status = "running" /\ r.lease = g
    BY <1>6, <1>8 DEF DrainDispatch, BeginApproval, claimApproval
  <2>2. PICK w : /\ run' = [run EXCEPT ![g] = w] /\ active' = [active EXCEPT ![j] = g]
                 /\ w.job = j /\ w.abort = "none" /\ (w.mode = "run" => w.wk # "none")
    <3>1. CASE DrainDispatch(j)
      <4> DEFINE v == [NoRun EXCEPT !.job = j, !.pc = "exec", !.wk = IF owned THEN "boot" ELSE "err",
                                    !.killed = ~owned, !.gen = db[j].attempts + 1]
      <4>1. run' = [run EXCEPT ![g] = v] /\ active' = [active EXCEPT ![j] = g]
        BY <3>1 DEF DrainDispatch
      <4>2. v.job = j /\ v.abort = "none" /\ v.wk # "none"
        BY DEF NoRun
      <4> HIDE DEF v
      <4> QED
        BY <4>1, <4>2
    <3>2. CASE BeginApproval(j)
      <4> DEFINE v == [NoRun EXCEPT !.job = j, !.mode = "approval", !.pc = "exec"]
      <4>1. run' = [run EXCEPT ![g] = v] /\ active' = [active EXCEPT ![j] = g]
        BY <3>2 DEF BeginApproval
      <4>2. v.job = j /\ v.abort = "none" /\ v.mode = "approval"
        BY DEF NoRun
      <4> HIDE DEF v
      <4> QED
        BY <4>1, <4>2
    <3> QED
      BY <1>8, <3>1, <3>2
  <2>3. /\ run'[g] = w /\ active'[j] = g /\ db'[j] = r
        /\ \A h \in Tokens \ {g} : run'[h] = run[h]
        /\ \A i \in Jobs \ {j} : active'[i] = active[i]
    BY <1>1, <2>1, <2>2 DEF SetRow, IInv, TypeOK
  <2>4. ASSUME NEW h \in Tokens, Alive(h)' PROVE Governed(h)' /\ (run'[h].pc = "exec" => Obeys(h)')
    <3>1. CASE h = g
      BY <1>1, <1>4, <2>1, <2>2, <2>3, <3>1 DEF Governed, Obeys, Row
    <3>2. CASE h # g
      <4>1. Alive(h) /\ run[h].job # j /\ run'[h] = run[h]
        BY <1>5, <2>3, <2>4, <3>2 DEF Alive
      <4> QED
        BY <1>1, <2>1, <2>3, <4>1, OthersFollow
    <3> QED
      BY <3>1, <3>2
  <2>5. FreshTokens' /\ QuietWhenDown'
    BY <1>1, <1>3, <2>3 DEF LifeInv, FreshTokens, QuietWhenDown
  <2>6. Lawful(db[j], r)
    BY <1>2, <2>1 DEF Lawful, Tell, Life!Moves, Life!Ends
  <2>7. AllLawful
    BY <2>1, <2>6 DEF AllLawful, Lawful, SetRow, IInv, TypeOK
  <2> QED
    BY <2>4, <2>5, <2>7 DEF LifeStep, LifeInv, RunsGoverned, RunsObey, Alive
<1> QED
  BY <1>7, <1>8

(* A run whose controller may have aborted is informed. *)
LEMMA AbortInforms ==
  ASSUME IInv, LifeInv, NEW g \in Tokens, NEW reason, reason # "none",
         run'[g] \in {run[g], Abort(run[g], reason)}
  PROVE  Informed(g)
<1>1. run[g] \in RunType /\ (run[g].pc = "exec" => Obeys(g))
  BY DEF IInv, TypeOK, LifeInv, RunsObey
<1> DEFINE a == Abort(run[g], reason)
<1>2. /\ a.job = run[g].job /\ a.pc = run[g].pc /\ a.mode = run[g].mode /\ a.wk = run[g].wk
      /\ run[g].abort # "none" => a = run[g]
      /\ run[g].abort = "none" /\ run[g].wk # "none" => a.killed \/ Row(g).kind.graceful
  BY <1>1, AbortIs DEF Row
<1>3. run'[g] = run[g] \/ run'[g] = a
  OBVIOUS
<1> HIDE DEF a
<1> QED
  BY <1>1, <1>2, <1>3 DEF Informed, Obeys

(* It goes on when its row is left alone. *)
LEMMA InformedGoesOn ==
  ASSUME IInv, LifeInv, NEW h \in Tokens, Alive(h), Informed(h), expired' = expired,
         db'[run[h].job] = Row(h), active'[run[h].job] = active[run[h].job]
  PROVE  Governed(h)' /\ (run'[h].pc = "exec" => Obeys(h)')
<1>1. Governed(h) /\ (run[h].pc = "exec" => Obeys(h))
  BY DEF LifeInv, RunsGoverned, RunsObey
<1>2. Follows(h)
  BY <1>1 DEF Follows, SameRow, Governed, Informed
<1>3. run'[h].pc = "exec" => Obeys(h)'
  BY <1>1 DEF Informed, Obeys, Row
<1> QED
  BY <1>2, <1>3, FollowsGoverned

(* The row of a cancelled job, and whether its run would have to heed it. *)
CancelledRow(r, r2) ==
  /\ Lawful(r, r2) /\ r2.kind = r.kind
  /\ \/ r2.status \in TERMINAL_JOB_STATES /\ r2.lease = NoToken
     \/ r2.status = "cancelling" /\ r2.lease = r.lease
     \/ r2.status = "needs-review" /\ r2.lease = r.lease /\ ~r.kind.retrySafe

LEMMA CancelledRowIs ==
  ASSUME IInv, NoUnsafeRetry, NEW j \in Jobs, Cancel(j) \/ CancelFenceFails(j)
  PROVE  \E r2 : CancelledRow(db[j], r2) /\ CancelWith(j, r2)
<1> DEFINE r == db[j]
<1>1. Good(r) /\ r.status \in {"queued", "running", "cancelling", "awaiting-approval"}
  BY Parts, RowIsGood DEF Cancel, CancelFenceFails, CanCancel, Good, RowType, JOB_STATES
<1>2. CASE Cancel(j)
  <2>1. CancelledRow(r, cancel(r))
    BY <1>1, CancelIs DEF CancelledRow
  <2> QED
    BY <1>2, <2>1 DEF Cancel
<1>3. CASE CancelFenceFails(j)
  <2> DEFINE r2 == updateKeepingLease(r, "needs-review")
  <2>1. r2.status = "needs-review" /\ r2.lease = r.lease /\ r2.kind = r.kind
    BY <1>1, UpdateIs DEF Good, TargetStatus
  <2>2. ~r.kind.retrySafe
    BY <1>1, <1>3 DEF CancelFenceFails, NoUnsafeRetry, Good, RowType
  <2>3. CancelWith(j, r2)
    BY <1>3 DEF CancelFenceFails
  <2> HIDE DEF r2
  <2>4. Lawful(r, r2)
    BY <1>1, <2>1 DEF Lawful, Tell, Life!Moves, Life!Ends
  <2> QED
    BY <2>1, <2>2, <2>3, <2>4 DEF CancelledRow
<1> QED
  BY <1>2, <1>3

LEMMA CancelLife ==
  ASSUME IInv, LifeInv, NoUnsafeRetry, NEW j \in Jobs, Cancel(j) \/ CancelFenceFails(j)
  PROVE  LifeStep
<1> DEFINE g == active[j]
<1>1. PICK r2 : CancelledRow(db[j], r2) /\ CancelWith(j, r2)
  BY CancelledRowIs
<1>2. /\ SetRow(j, r2) /\ UNCHANGED <<issued, up, active, expired>> /\ up = "up" /\ Idle
      /\ db[j].status \notin TERMINAL_JOB_STATES
  BY <1>1 DEF Cancel, CancelFenceFails, CanCancel, CancelWith, UnchangedWorld
<1>3. \A h \in Tokens : run'[h] \in {run[h], Abort(run[h], "cancel")} /\ (h # g => run'[h] = run[h])
  BY <1>1 DEF CancelWith, IInv, TypeOK
<1>4. \A h \in Tokens : Informed(h)
  BY <1>3, AbortInforms
<1>5. db'[j] = r2 /\ \A i \in Jobs \ {j} : db'[i] = db[i]
  BY <1>2 DEF SetRow, IInv, TypeOK
<1>6. ASSUME NEW h \in Tokens, Alive(h)' PROVE Governed(h)' /\ (run'[h].pc = "exec" => Obeys(h)')
  <2>1. Alive(h) /\ Informed(h) /\ run[h].job \in Jobs
    BY <1>4, <1>6, RunRow DEF Alive, Informed
  <2>2. CASE run[h].job # j
    BY <1>2, <1>5, <2>1, <2>2, InformedGoesOn DEF Row
  <2>3. CASE run[h].job = j
    <3>1. Governed(h) /\ run[h].pc = "exec" /\ Obeys(h) /\ ~MustSettle(h)
      BY <1>2, <2>1 DEF LifeInv, RunsGoverned, RunsObey, Idle, Alive
    <3>2. h = g /\ db[j].lease = h /\ Row(h) = db[j] /\ run[h] \in RunType
      BY <1>2, <2>1, <2>3, <3>1, RunRow DEF Governed, Row
    <3>3. run'[h] = Abort(run[h], "cancel")
      BY <1>1, <3>2, BoundsAssumption DEF CancelWith, IInv, TypeOK
    <3>4. /\ run'[h].abort # "none" /\ run'[h].mode = run[h].mode /\ run'[h].job = j
          /\ run[h].abort = "none" => run'[h].abort = "cancel"
      BY <2>3, <3>2, <3>3, AbortIs
    <3>5. run[h].mode = "run" /\ run[h].abort # "none" => ~db[j].kind.retrySafe
      <4>1. db[j].kind \in Kinds
        BY DEF IInv, TypeOK, RowType
      <4> QED
        BY <3>1, <3>2, <4>1 DEF Obeys, MustSettle, NoUnsafeRetry
    <3>6. run'[h].mode = "run" => run'[h].abort = "cancel" \/ ~r2.kind.retrySafe
      BY <1>1, <3>4, <3>5 DEF CancelledRow
    <3>7. Row(h)' = r2
      BY <1>5, <3>4 DEF Row
    <3>8. Governed(h)'
      BY <1>1, <1>2, <3>1, <3>2, <3>4, <3>6, <3>7 DEF Governed, Heeds, CancelledRow
    <3>9. Obeys(h)'
      BY <1>1, <2>1, <3>1, <3>2, <3>7 DEF Obeys, Informed, CancelledRow
    <3> QED
      BY <3>8, <3>9
  <2> QED
    BY <2>2, <2>3
<1>7. FreshTokens'
  BY <1>2, <1>4 DEF LifeInv, FreshTokens, Informed
<1>8. QuietWhenDown'
  BY <1>2 DEF LifeInv, QuietWhenDown
<1>9. AllLawful
  BY <1>1, <1>5 DEF AllLawful, Lawful, CancelledRow
<1> QED
  BY <1>6, <1>7, <1>8, <1>9 DEF LifeStep, LifeInv, RunsGoverned, RunsObey, Alive

---------------------------------------------------------------------------
(* The steps of the supervisor process *)

LEMMA ShutdownLife ==
  ASSUME IInv, LifeInv, Shutdown
  PROVE  LifeStep
<1>1. \A g \in Tokens : run'[g] \in {run[g], Abort(run[g], "shutdown")}
  BY DEF Shutdown
<1>2. UNCHANGED <<db, active, expired, issued, draining>> /\ up' = "stopping"
  BY DEF Shutdown, UnchangedWorld
<1> QED
  BY <1>1, <1>2, AbortInforms, InformedLife

LEMMA LoseOwnershipLife ==
  ASSUME IInv, LifeInv, LoseOwnership
  PROVE  LifeStep
<1>1. ASSUME NEW g \in Tokens PROVE Informed(g)
  <2>1. run[g] \in RunType /\ (run[g].pc = "exec" => Obeys(g))
    BY DEF IInv, TypeOK, LifeInv, RunsObey
  <2> DEFINE w == [run[g] EXCEPT !.killed = TRUE]
  <2>2. run'[g] = run[g] \/ run'[g] = w
    BY DEF LoseOwnership
  <2>3. /\ w.job = run[g].job /\ w.pc = run[g].pc /\ w.mode = run[g].mode /\ w.wk = run[g].wk
        /\ w.abort = run[g].abort /\ w.killed
    BY <2>1 DEF RunType
  <2> HIDE DEF w
  <2> QED
    BY <2>1, <2>2, <2>3 DEF Informed, Obeys
<1>2. UNCHANGED <<db, active, expired, issued, draining, up>>
  BY DEF LoseOwnership
<1> QED
  BY <1>1, <1>2, InformedLife

(* A process that ends leaves no living run. *)
LEMMA EndProcessLife ==
  ASSUME IInv, LifeInv, ShutdownDone \/ Crash
  PROVE  LifeStep
<1>1. ASSUME NEW g \in Tokens
      PROVE  /\ ~Alive(g)'
             /\ run[g].pc = "none" => run'[g] = run[g]
  <2> DEFINE w == [run[g] EXCEPT !.pc = "lost", !.killed = TRUE]
  <2>1. w \in RunType /\ w.pc = "lost"
    <3>1. run[g] \in RunType
      BY DEF IInv, TypeOK
    <3> QED
      BY <3>1 DEF RunType
  <2>2. run'[g] = IF Alive(g) THEN Kept(w) ELSE run[g]
    BY DEF ShutdownDone, Crash
  <2> HIDE DEF w
  <2>3. Kept(w).pc \notin {"exec", "persisted"}
    BY <2>1, KeptRun
  <2> QED
    BY <2>2, <2>3 DEF Alive
<1>2. UNCHANGED <<db, expired, issued>> /\ up' = "down" /\ draining' = FALSE
  BY DEF ShutdownDone, Crash, Memoryless
<1>3. FreshTokens'
  BY <1>1, <1>2 DEF LifeInv, FreshTokens
<1>4. AllLawful
  BY <1>2, SameLawful
<1> QED
  BY <1>1, <1>2, <1>3, <1>4 DEF LifeStep, LifeInv, RunsGoverned, RunsObey, QuietWhenDown, Alive

(* A recovery moves rows that no living run works on, or that have ended. *)
LEMMA RowsMoved ==
  ASSUME IInv, LifeInv, UNCHANGED <<run, active, expired, issued>>,
         \A j \in Jobs : Lawful(db[j], db'[j]),
         \A g \in Tokens : Alive(g) => db'[run[g].job] = Row(g),
         QuietWhenDown'
  PROVE  LifeStep
<1>1. ASSUME NEW h \in Tokens, Alive(h)' PROVE Governed(h)' /\ (run'[h].pc = "exec" => Obeys(h)')
  <2>1. Alive(h) /\ db'[run[h].job] = Row(h)
    BY <1>1 DEF Alive
  <2>2. Governed(h) /\ (run[h].pc = "exec" => Obeys(h))
    BY <2>1 DEF LifeInv, RunsGoverned, RunsObey
  <2>3. Follows(h) /\ (run'[h].pc = "exec" => Keeps(h))
    BY <2>1, <2>2 DEF Follows, Keeps, SameRow, Governed
  <2> QED
    BY <2>3, FollowsGoverned, KeepsObeys
<1>2. FreshTokens'
  BY DEF LifeInv, FreshTokens
<1> QED
  BY <1>1, <1>2 DEF LifeStep, LifeInv, RunsGoverned, RunsObey, AllLawful, Alive

LEMMA RecoverResultsLife ==
  ASSUME IInv, LifeInv, RecoverResults
  PROVE  LifeStep
<1>1. \A j \in Jobs : Lawful(db[j], db'[j])
  BY Parts, RowIsGood, RecoveredResultLawful DEF RecoverResults
<1>2. \A g \in Tokens : ~Alive(g)
  BY DEF RecoverResults, LifeInv, QuietWhenDown
<1>3. UNCHANGED <<run, active, expired, issued, draining>> /\ up = "down"
  BY DEF RecoverResults
<1>4. QuietWhenDown'
  BY <1>2, <1>3 DEF LifeInv, QuietWhenDown, Alive
<1> QED
  BY <1>1, <1>2, <1>3, <1>4, RowsMoved

LEMMA RecoverLife ==
  ASSUME IInv, LifeInv, Start \/ RecoveryTimer
  PROVE  LifeStep
<1>1. /\ db' = [j \in Jobs |-> IF NeedsRecovery(db[j], expired) THEN recover(db[j]) ELSE db[j]]
      /\ UNCHANGED <<run, active, expired, issued>> /\ up' = "up"
  BY DEF Start, RecoveryTimer, Recover, UnchangedWorld
<1>2. \A j \in Jobs : Lawful(db[j], db'[j])
  <2> SUFFICES ASSUME NEW j \in Jobs PROVE Lawful(db[j], db'[j])
    OBVIOUS
  <2>1. CASE NeedsRecovery(db[j], expired)
    BY <1>1, <2>1, Parts, RowIsGood, RecoverLawful
  <2>2. CASE ~NeedsRecovery(db[j], expired)
    BY <1>1, <2>2 DEF Lawful
  <2> QED
    BY <2>1, <2>2
<1>3. ASSUME NEW g \in Tokens, Alive(g) PROVE db'[run[g].job] = Row(g)
  <2>1. run[g].job \in Jobs /\ Governed(g)
    BY <1>3, RunRow DEF Alive, LifeInv, RunsGoverned
  <2>2. ~NeedsRecovery(Row(g), expired)
    <3>1. \/ Row(g).status \in TERMINAL_JOB_STATES
          \/ Row(g).status \in {"running", "cancelling"} /\ Row(g).lease = g
      BY <1>3, <2>1, LivingRow DEF Governed
    <3>2. g # NoToken /\ g \notin expired
      BY <2>1, BoundsAssumption DEF Governed
    <3> QED
      BY <3>1, <3>2 DEF NeedsRecovery
  <2> QED
    BY <1>1, <2>1, <2>2 DEF Row
<1>4. QuietWhenDown'
  BY <1>1 DEF QuietWhenDown
<1> QED
  BY <1>1, <1>2, <1>3, <1>4, RowsMoved

LEMMA DrainEndLife ==
  ASSUME IInv, LifeInv, DrainEnd
  PROVE  LifeStep
<1>1. UNCHANGED <<db, run, active, expired, issued, up>> /\ draining' = FALSE
  BY DEF DrainEnd
<1>2. QuietWhenDown'
  BY <1>1 DEF LifeInv, QuietWhenDown, Alive
<1>3. \A g \in Tokens : db'[run[g].job] = Row(g)
  BY <1>1 DEF Row
<1>4. \A j \in Jobs : Lawful(db[j], db'[j])
  BY <1>1 DEF Lawful
<1> QED
  BY <1>1, <1>2, <1>3, <1>4, RowsMoved

---------------------------------------------------------------------------
(* The refinement *)

LEMMA InitLife == Init => LifeInv
<1>1. NoRun.pc = "none" /\ NoRun.wk = "none"
  BY DEF NoRun
<1> QED
  BY <1>1 DEF Init, LifeInv, RunsGoverned, RunsObey, FreshTokens, QuietWhenDown, Alive

LEMMA NextLife ==
  ASSUME ~Stalls, NoUnsafeRetry, IInv, LifeInv, [Next]_vars
  PROVE  LifeStep
<1>1. CASE UNCHANGED vars
  <2>1. LifeInv'
    BY <1>1 DEF vars, LifeInv, RunsGoverned, RunsObey, FreshTokens, QuietWhenDown, Governed,
                Obeys, Heeds, Alive, Row
  <2> QED
    BY <1>1, <2>1, SameLawful DEF vars, LifeStep
<1>2. ASSUME NEW g \in Tokens, RunStep(g) PROVE LifeStep
  BY <1>2, WorkerLife, SettlesLife, PersistLife, SignalLife, TimeLife, ApprovalSettleLife
  DEF RunStep
<1>3. ASSUME NEW j \in Jobs, JobStep(j) PROVE LifeStep
  BY <1>3, SubmitLife, DispatchLife, CancelLife DEF JobStep
<1>4. CASE ProcessStep
  BY <1>4, DrainEndLife, ShutdownLife, EndProcessLife, LoseOwnershipLife, RecoverResultsLife,
     RecoverLife DEF ProcessStep
<1> QED
  BY <1>1, <1>2, <1>3, <1>4 DEF Next

(* Told is what the rows tell, and a lawful step is one of JobLife. *)
LEMMA StepRefines ==
  ASSUME IInv, IInv', AllLawful
  PROVE  [Life!JobsNext]_([j \in Jobs |-> Told(j)])
<1>1. \A j \in Jobs : Told(j) = Tell(db[j].status) /\ Told(j)' = Tell(db'[j].status)
  BY DEF Told, Tell
<1>2. \A j \in Jobs : Tell(db'[j].status) \in Life!JobStatus
  BY DEF IInv, TypeOK, RowType, JOB_STATES, Tell, Life!JobStatus, Life!Ends
<1> QED
  BY <1>1, <1>2 DEF AllLawful, Lawful, Life!JobsNext

LEMMA InitRefines == Init => Life!JobsInit
  BY DEF Init, Life!JobsInit, Told, AbsentRow

(* What JobLife promises of a job is kept by every row of the ledger, through     *)
(* leases, retries, crashes, recoveries, cancellations and approvals, with or   *)
(* without a loss of the instance lease, for every number of jobs, of lease     *)
(* tokens and of faults, while no lease of a live run lapses and no kind of     *)
(* task that stops gracefully or behind a fence is retry-safe.                  *)
THEOREM ImplementsJobLifeHolds ==
  ASSUME ~Stalls, NoUnsafeRetry
  PROVE  Spec => ImplementsJobLife
<1>1. Init => IInv /\ LifeInv /\ Life!JobsInit
  BY InitInv, InitLife, InitRefines
<1>2. IInv /\ LifeInv /\ [Next]_vars => IInv' /\ LifeInv' /\ AllLawful
  BY NextInv, NextLife DEF LifeStep
<1>3. IInv /\ IInv' /\ AllLawful => [Life!JobsNext]_([j \in Jobs |-> Told(j)])
  BY StepRefines
<1> QED
  BY <1>1, <1>2, <1>3, PTL DEF Spec, ImplementsJobLife, Life!JobsSpec

---------------------------------------------------------------------------
(***************************************************************************)
(* Who works on a job, how often, and who may settle it.                   *)
(***************************************************************************)
USE DEF TERMINAL_JOB_STATES

---------------------------------------------------------------------------
(* The transactions, field by field *)

(* No transaction of the job store touches the kind, the audit or the result.   *)
Alike(r, r2) ==
  /\ r2.kind = r.kind /\ r2.attempts = r.attempts /\ r2.num = r.num
  /\ r2.audited = r.audited /\ r2.persisted = r.persisted

\* the state of an attempt after its unconditional move
MovedState(r, to) == IF r.num = 0 \/ Settled(r) \/ r.state = to THEN r.state ELSE to

RowFields == {"kind", "status", "attempts", "lease", "open", "num", "state", "owner", "bound",
              "audited", "cancelRequested", "persisted"}

LEMMA MoveIs ==
  ASSUME NEW r, DOMAIN r = RowFields, NEW to
  PROVE  LET m == transitionAttempt(r, to) IN
         /\ Alike(r, m) /\ m.status = r.status /\ m.lease = r.lease /\ m.state = MovedState(r, to)
         /\ DOMAIN m = RowFields
<1> DEFINE m == [r EXCEPT !.state = to, !.owner = IF to \in TERMINAL_JOB_STATES THEN NoToken ELSE @]
<1>1. CASE r.num = 0 \/ Settled(r) \/ r.state = to
  BY <1>1 DEF transitionAttempt, MovedState, Alike
<1>2. CASE ~(r.num = 0 \/ Settled(r) \/ r.state = to)
  <2>1. transitionAttempt(r, to) = m /\ MovedState(r, to) = to
    BY <1>2 DEF transitionAttempt, MovedState
  <2>2. Alike(r, m) /\ m.status = r.status /\ m.lease = r.lease /\ m.state = to /\ DOMAIN m = RowFields
    BY DEF Alike, RowFields
  <2> HIDE DEF m
  <2> QED
    BY <2>1, <2>2
<1> QED
  BY <1>1, <1>2

(* A settlement publishes a status and gives the lease back. *)
LEMMA ReleaseIs ==
  ASSUME NEW r, DOMAIN r = RowFields, NEW status
  PROVE  LET m == releaseLease([r EXCEPT !.status = status]) IN
         /\ Alike(r, m) /\ m.status = status /\ m.lease = NoToken /\ m.state = r.state
         /\ DOMAIN m = RowFields
  BY DEF releaseLease, Alike, RowFields

LEMMA MoveReleaseIs ==
  ASSUME NEW r, DOMAIN r = RowFields, NEW to, NEW status
  PROVE  LET m == releaseLease([transitionAttempt(r, to) EXCEPT !.status = status]) IN
         /\ Alike(r, m) /\ m.status = status /\ m.lease = NoToken /\ m.state = MovedState(r, to)
         /\ DOMAIN m = RowFields
<1> DEFINE a == transitionAttempt(r, to)
           m == releaseLease([a EXCEPT !.status = status])
<1>1. Alike(r, a) /\ a.state = MovedState(r, to) /\ DOMAIN a = RowFields
  BY MoveIs
<1> HIDE DEF a
<1>2. Alike(a, m) /\ m.status = status /\ m.lease = NoToken /\ m.state = a.state /\ DOMAIN m = RowFields
  BY <1>1, ReleaseIs
<1> HIDE DEF m
<1>3. Alike(r, m) /\ m.state = MovedState(r, to)
  BY <1>1, <1>2 DEF Alike
<1> QED
  BY <1>2, <1>3 DEF m, a

LEMMA RowDomain == \A r \in RowType : DOMAIN r = RowFields
  BY DEF RowType, RowFields

LEMMA UpdateRowIs ==
  ASSUME NEW r \in RowType, NEW requested
  PROVE  LET m == update(r, requested)  target == TargetStatus(r, requested) IN
         /\ Alike(r, m) /\ m.status = target /\ m.lease = NoToken
         /\ m.state = IF target \in TERMINAL_JOB_STATES THEN MovedState(r, target) ELSE r.state
<1> DEFINE target == TargetStatus(r, requested)
<1>1. update(r, requested)
        = IF target \in TERMINAL_JOB_STATES
          THEN releaseLease([transitionAttempt(r, target) EXCEPT !.status = target])
          ELSE releaseLease([r EXCEPT !.status = target])
  BY DEF update, updateKeepingLease
<1>2. target = TargetStatus(r, requested)
  OBVIOUS
<1> HIDE DEF target
<1>3. CASE target \in TERMINAL_JOB_STATES
  BY <1>1, <1>2, <1>3, RowDomain, MoveReleaseIs
<1>4. CASE target \notin TERMINAL_JOB_STATES
  BY <1>1, <1>2, <1>4, RowDomain, ReleaseIs
<1> QED
  BY <1>3, <1>4

(* The job whose cancellation could not be fenced off. *)
LEMMA QuarantineIs ==
  ASSUME NEW r \in RowType
  PROVE  LET m == updateKeepingLease(r, "needs-review") IN
         /\ Alike(r, m) /\ m.status = "needs-review" /\ m.lease = r.lease
         /\ m.state = MovedState(r, "needs-review")
<1> DEFINE a == transitionAttempt(r, "needs-review")
<1>1. Alike(r, a) /\ a.state = MovedState(r, "needs-review") /\ DOMAIN a = RowFields /\ a.lease = r.lease
  BY MoveIs, RowDomain
<1>2. updateKeepingLease(r, "needs-review") = [a EXCEPT !.status = "needs-review"]
  BY DEF updateKeepingLease, TargetStatus
<1> HIDE DEF a
<1> QED
  BY <1>1, <1>2 DEF Alike, RowFields

LEMMA CancelRowIs ==
  ASSUME NEW r \in RowType, r.status \notin TERMINAL_JOB_STATES
  PROVE  LET m == cancel(r) IN
         /\ Alike(r, m)
         /\ Settled(r) => m.status = r.state /\ m.state = r.state /\ m.lease = NoToken
         /\ ~Settled(r) =>
              /\ m.status = IF r.status \in {"running", "cancelling"} THEN "cancelling" ELSE "cancelled"
              /\ m.lease = r.lease
              /\ m.state = IF r.num > 0 /\ r.state = "running" THEN "cancelling"
                           ELSE IF m.status = "cancelled" THEN MovedState(r, "cancelled")
                           ELSE r.state
<1>1. CASE Settled(r)
  <2>1. cancel(r) = releaseLease([r EXCEPT !.status = r.state])
    BY <1>1 DEF cancel
  <2> QED
    BY <1>1, <2>1, RowDomain, ReleaseIs
<1>2. CASE ~Settled(r)
  <2> DEFINE status == IF r.status \in {"running", "cancelling"} THEN "cancelling" ELSE "cancelled"
             to == IF r.num > 0 /\ r.state = "running" THEN "cancelling" ELSE "cancelled"
             moved == IF r.num > 0 /\ r.state = "running" THEN transitionAttempt(r, "cancelling")
                      ELSE IF status = "cancelled" THEN transitionAttempt(r, "cancelled") ELSE r
             requested == moved.cancelRequested \/ r.num > 0
  <2>1. cancel(r) = [moved EXCEPT !.status = status, !.cancelRequested = requested]
    BY <1>2 DEF cancel
  <2>2. /\ Alike(r, moved) /\ DOMAIN moved = RowFields /\ moved.lease = r.lease
        /\ moved.state = IF r.num > 0 /\ r.state = "running" THEN "cancelling"
                         ELSE IF status = "cancelled" THEN MovedState(r, "cancelled")
                         ELSE r.state
    <3> HIDE DEF status
    <3>1. CASE r.num > 0 /\ r.state = "running"
      <4>1. MovedState(r, "cancelling") = "cancelling"
        BY <1>2, <3>1 DEF MovedState, RowType
      <4> QED
        BY <3>1, <4>1, MoveIs, RowDomain
    <3>2. CASE ~(r.num > 0 /\ r.state = "running") /\ status = "cancelled"
      BY <3>2, MoveIs, RowDomain
    <3>3. CASE ~(r.num > 0 /\ r.state = "running") /\ status # "cancelled"
      BY <3>3, RowDomain DEF Alike
    <3> QED
      BY <3>1, <3>2, <3>3
  <2> HIDE DEF moved, requested
  <2>3. /\ Alike(r, cancel(r)) /\ cancel(r).status = status /\ cancel(r).lease = r.lease
        /\ cancel(r).state = moved.state
    <3> HIDE DEF status
    <3> QED
      BY <2>1, <2>2 DEF Alike, RowFields
  <2> QED
    BY <1>2, <2>2, <2>3
<1> QED
  BY <1>1, <1>2

LEMMA SettleApprovalIs ==
  ASSUME NEW r \in RowType, NEW dispatched, NEW interrupted, NEW error
  PROVE  LET m == settleApproval(r, dispatched, interrupted, error) IN
         /\ Alike(r, m) /\ m.lease = NoToken
         /\ m.status = IF interrupted \/ r.status = "cancelling"
                       THEN IF dispatched THEN "needs-review" ELSE "cancelled"
                       ELSE IF error THEN "needs-review" ELSE "completed"
         /\ m.state = MovedState(r, m.status)
<1> DEFINE target == IF interrupted \/ r.status = "cancelling"
                     THEN IF dispatched THEN "needs-review" ELSE "cancelled"
                     ELSE IF error THEN "needs-review" ELSE "completed"
<1>1. settleApproval(r, dispatched, interrupted, error)
        = releaseLease([transitionAttempt(r, target) EXCEPT !.status = target])
  BY DEF settleApproval
<1>2. target = IF interrupted \/ r.status = "cancelling"
               THEN IF dispatched THEN "needs-review" ELSE "cancelled"
               ELSE IF error THEN "needs-review" ELSE "completed"
  OBVIOUS
<1> HIDE DEF target
<1> QED
  BY <1>1, <1>2, RowDomain, MoveReleaseIs

LEMMA AdoptIs ==
  ASSUME NEW r \in RowType, NEW interrupted
  PROVE  LET m == adoptProtectedResult(r, interrupted) IN
         /\ Alike(r, m) /\ m.lease = NoToken
         /\ m.status = IF CanAdopt(r, interrupted) THEN "completed" ELSE "needs-review"
         /\ m.state = MovedState(r, m.status)
<1> DEFINE target == IF CanAdopt(r, interrupted) THEN "completed" ELSE "needs-review"
<1>1. adoptProtectedResult(r, interrupted)
        = releaseLease([transitionAttempt(r, target) EXCEPT !.status = target])
  BY DEF adoptProtectedResult
<1>2. target = IF CanAdopt(r, interrupted) THEN "completed" ELSE "needs-review"
  OBVIOUS
<1> HIDE DEF target
<1> QED
  BY <1>1, <1>2, RowDomain, MoveReleaseIs

LEMMA RecoverIs ==
  ASSUME NEW r \in RowType
  PROVE  LET m == recover(r)  status == RecoveredStatus(r) IN
         /\ Alike(r, m) /\ m.status = status /\ m.lease = NoToken
         /\ m.state = IF status \in TERMINAL_JOB_STATES THEN MovedState(r, status)
                      ELSE IF status = "queued" /\ r.state \in {"running", "cancelling"}
                      THEN MovedState(r, "failed") ELSE r.state
<1> DEFINE status == RecoveredStatus(r)
<1>1. recover(r)
        = IF status \in TERMINAL_JOB_STATES
          THEN releaseLease([transitionAttempt(r, status) EXCEPT !.status = status])
          ELSE IF status = "queued" /\ r.state \in {"running", "cancelling"}
          THEN releaseLease([transitionAttempt(r, "failed") EXCEPT !.status = status])
          ELSE releaseLease([r EXCEPT !.status = status])
  BY DEF recover
<1>2. status = RecoveredStatus(r)
  OBVIOUS
<1> HIDE DEF status
<1>3. CASE status \in TERMINAL_JOB_STATES
  BY <1>1, <1>2, <1>3, RowDomain, MoveReleaseIs
<1>4. CASE status = "queued" /\ r.state \in {"running", "cancelling"}
  BY <1>1, <1>2, <1>4, RowDomain, MoveReleaseIs
<1>5. CASE status \notin TERMINAL_JOB_STATES /\ ~(status = "queued" /\ r.state \in {"running", "cancelling"})
  BY <1>1, <1>2, <1>5, RowDomain, ReleaseIs
<1> QED
  BY <1>3, <1>4, <1>5

LEMMA LeaseIs ==
  ASSUME NEW r \in RowType, NEW g
  PROVE  /\ LET m == Lease(r, g) IN
            /\ Alike(r, m) /\ m.status = "running" /\ m.lease = g /\ m.state = r.state /\ m.owner = r.owner
         /\ LET m == claimNextQueued(r, g) IN
            /\ m.kind = r.kind /\ m.num = r.num /\ m.audited = r.audited /\ m.persisted = r.persisted
            /\ m.attempts = r.attempts + 1
            /\ m.status = "running" /\ m.lease = g /\ m.state = r.state /\ m.owner = r.owner
  BY DEF Lease, claimNextQueued, Alike, RowType

LEMMA CreateIs ==
  ASSUME NEW r \in RowType, NEW k
  PROVE  LET m == create(r, k) IN
         /\ m.kind = k /\ m.status = "queued" /\ m.lease = r.lease /\ m.num = r.num
         /\ m.attempts = r.attempts /\ m.state = r.state /\ m.audited = r.audited
         /\ m.persisted = r.persisted
  BY DEF create, RowType

LEMMA ExecutionIs ==
  ASSUME NEW r \in RowType, NEW g, NEW to
  PROVE  LET m == transitionExecutionAttempt(r, g, to) IN
         /\ Alike(r, m) /\ SameRow(r, m) /\ m.state = to
         /\ m.owner = IF to = "running" THEN g ELSE IF to = "cancelling" THEN r.owner ELSE NoToken
  BY DEF transitionExecutionAttempt, Alike, SameRow, RowType

LEMMA AdmissionIs ==
  ASSUME NEW r \in RowType
  PROVE  /\ LET m == admitExecution(r) IN
            SameRow(r, m) /\ m.num = 1 /\ m.state = "queued" /\ m.owner = r.owner
            /\ m.attempts = r.attempts /\ m.audited = r.audited /\ m.persisted = r.persisted
         /\ LET m == resumeExecution(r) IN
            SameRow(r, m) /\ m.num = r.num + 1 /\ m.state = "queued" /\ m.owner = r.owner
            /\ m.attempts = r.attempts /\ m.audited = r.audited /\ m.persisted = r.persisted
  BY DEF admitExecution, resumeExecution, SameRow, RowType

LEMMA FlagIs ==
  ASSUME NEW r \in RowType
  PROVE  /\ LET m == [r EXCEPT !.bound = TRUE] IN
            Alike(r, m) /\ SameRow(r, m) /\ m.state = r.state /\ m.owner = r.owner
         /\ LET m == [r EXCEPT !.audited = TRUE] IN
            /\ SameRow(r, m) /\ m.state = r.state /\ m.owner = r.owner /\ m.num = r.num
            /\ m.attempts = r.attempts /\ m.audited /\ m.persisted = r.persisted
         /\ LET m == [r EXCEPT !.persisted = TRUE] IN
            /\ SameRow(r, m) /\ m.state = r.state /\ m.owner = r.owner /\ m.num = r.num
            /\ m.attempts = r.attempts /\ m.audited = r.audited /\ m.persisted
  BY DEF Alike, SameRow, RowType

---------------------------------------------------------------------------
(* What a step leaves of the runs *)

(* A token is in use while its run lives or its worker process does. *)
Present(g) == Alive(g) \/ Working(g)
Taken(g) == run[g].pc # "none" \/ run[g].wk # "none"

(* No step but the claim of a job gives a token something to do, and a worker    *)
(* that outlives its run was killed.                                           *)
Onward(g) ==
  /\ run'[g].job = run[g].job
  /\ Taken(g)' => Taken(g)
  /\ Present(g)' => Present(g) /\ run'[g].mode = run[g].mode
  /\ Alive(g)' => Alive(g)
  /\ Working(g)' /\ ~run'[g].killed /\ ~Alive(g)' => Working(g) /\ ~run[g].killed /\ ~Alive(g)

(* A result is persisted by the run that its worker reported to, was not told to *)
(* stop, and holds the protected reply.                                        *)
PersistedHolds ==
  \A g \in Tokens : run[g].pc = "persisted" =>
    /\ run[g].mode = "run" /\ run[g].abort = "none" /\ ~run[g].killed /\ run[g].wk = "ok"
    /\ Row(g).persisted /\ Row(g).kind.protected

LEMMA KeptIs ==
  ASSUME NEW w \in RunType
  PROVE  \/ Kept(w) = w
         \/ /\ Kept(w).job = w.job /\ Kept(w).pc = "done" /\ Kept(w).wk = "none"
            /\ w.pc \in {"done", "lost"} /\ w.wk \notin LiveWorker
  BY DEF Kept, NoRun

LEMMA StillOnward == ASSUME NEW g \in Tokens, run'[g] = run[g] PROVE Onward(g)
  BY DEF Onward, Taken, Present, Alive, Working

(* A run that is forgotten goes onward if it would as it is. *)
LEMMA KeptOnward ==
  ASSUME NEW g \in Tokens, NEW w \in RunType, run'[g] = w \/ run'[g] = Kept(w), Taken(g),
         w.job = run[g].job, w.mode = run[g].mode,
         w.wk \in LiveWorker => Present(g),
         w.pc \in {"exec", "persisted"} => Alive(g),
         w.wk \in LiveWorker /\ ~w.killed /\ w.pc \notin {"exec", "persisted"}
           => Working(g) /\ ~run[g].killed /\ ~Alive(g)
  PROVE  Onward(g)
<1>1. CASE run'[g] = w
  BY <1>1 DEF Onward, Taken, Present, Alive, Working
<1>2. CASE run'[g] # w
  <2>1. run'[g].job = w.job /\ run'[g].pc = "done" /\ run'[g].wk = "none"
    BY <1>2, KeptIs
  <2> QED
    BY <2>1 DEF Onward, Taken, Present, Alive, Working, LiveWorker
<1> QED
  BY <1>1, <1>2

LEMMA WorkerOnward ==
  ASSUME IInv, NEW g \in Tokens, WorkerStep(g) \/ WorkerCrash(g)
  PROVE  \A h \in Tokens : Onward(h)
<1>1. run[g].wk \in LiveWorker
  BY DEF WorkerStep, WorkerBind, WorkerAdmit, WorkerRefused, WorkerStart, WorkerDenied,
         WorkerApproval, WorkerThrows, WorkerReturns, WorkerUncertain, WorkerGraphEnds,
         WorkerSettles, WorkerExits, WorkerCrash, LiveWorker
<1>2. run[g] \in RunType /\ Good(Row(g)) /\ Taken(g)
  BY <1>1, RunRow DEF Taken, LiveWorker
<1>3. PICK w \in RunType : Worked(g, w) /\ run' \in {[run EXCEPT ![g] = Kept(w)], [run EXCEPT ![g] = w]}
  BY <1>2, WorkerRun
<1>4. /\ run'[g] = w \/ run'[g] = Kept(w)
      /\ \A h \in Tokens \ {g} : run'[h] = run[h]
  BY <1>3 DEF IInv, TypeOK
<1>5. Onward(g)
  BY <1>1, <1>2, <1>3, <1>4, KeptOnward DEF Worked, Present, Working, Alive
<1> QED
  BY <1>4, <1>5, StillOnward

(* The end of a run. *)
LEMMA DoneOnward ==
  ASSUME IInv, NEW g \in Tokens, Alive(g),
         run[g].wk \in LiveWorker => run[g].killed,
         run' = [run EXCEPT ![g] = Kept([@ EXCEPT !.pc = "done"])]
  PROVE  \A h \in Tokens : Onward(h)
<1> DEFINE w == [run[g] EXCEPT !.pc = "done"]
<1>1. run[g] \in RunType /\ Taken(g)
  BY RunRow DEF Alive, Taken
<1>2. /\ w \in RunType /\ w.pc = "done" /\ w.job = run[g].job /\ w.mode = run[g].mode
      /\ w.wk = run[g].wk /\ w.killed = run[g].killed
  BY <1>1 DEF RunType
<1>3. run'[g] = Kept(w) /\ \A h \in Tokens \ {g} : run'[h] = run[h]
  BY DEF IInv, TypeOK
<1> HIDE DEF w
<1>4. Onward(g)
  BY <1>1, <1>2, <1>3, KeptOnward DEF Present
<1> QED
  BY <1>3, <1>4, StillOnward

(* What a run may be told: to stop, and that its worker is killed or forked. *)
LEMMA ToldOnward ==
  ASSUME IInv, NEW g \in Tokens, NEW w, run'[g] = w,
         w.job = run[g].job, w.pc = run[g].pc, w.mode = run[g].mode,
         \/ w.wk = run[g].wk /\ (run[g].killed => w.killed)
         \/ Alive(g)
  PROVE  Onward(g)
  BY DEF Onward, Taken, Present, Alive, Working

LEMMA AbortOnward ==
  ASSUME IInv, NEW g \in Tokens, NEW reason, reason # "none",
         run'[g] = Abort(run[g], reason)
  PROVE  Onward(g)
<1>1. run[g] \in RunType
  BY DEF IInv, TypeOK
<1> DEFINE a == Abort(run[g], reason)
<1>2. /\ a.job = run[g].job /\ a.pc = run[g].pc /\ a.mode = run[g].mode /\ a.wk = run[g].wk
      /\ run[g].killed => a.killed
  BY <1>1, AbortIs
<1> HIDE DEF a
<1> QED
  BY <1>2, ToldOnward DEF a

LEMMA KilledOnward ==
  ASSUME IInv, NEW g \in Tokens, run'[g] = [run[g] EXCEPT !.killed = TRUE], Taken(g)
  PROVE  Onward(g)
<1>1. run[g] \in RunType
  BY DEF IInv, TypeOK
<1> DEFINE w == [run[g] EXCEPT !.killed = TRUE]
<1>2. /\ w.job = run[g].job /\ w.pc = run[g].pc /\ w.mode = run[g].mode /\ w.wk = run[g].wk
      /\ w.killed
  BY <1>1 DEF RunType
<1>3. run'[g] = w
  OBVIOUS
<1> HIDE DEF w
<1> QED
  BY <1>2, <1>3, ToldOnward

(* Every step of a run: its worker, its end, its orders and the passing of time. *)
LEMMA RunOnward ==
  ASSUME IInv, PersistedHolds, NEW g \in Tokens, RunStep(g)
  PROVE  \A h \in Tokens : Onward(h)
<1>1. CASE WorkerStep(g) \/ WorkerCrash(g)
  BY <1>1, WorkerOnward
<1>2. CASE RunResolved(g) \/ RunAdopt(g) \/ RunRejected(g) \/ RunPersistFails(g) \/ ApprovalSettle(g)
  <2>1. Alive(g) /\ run' = [run EXCEPT ![g] = Kept([@ EXCEPT !.pc = "done"])]
    BY <1>2 DEF RunResolved, RunAdopt, RunRejected, RunPersistFails, ApprovalSettle, Answered,
                MustSettle, Alive, Finish
  <2>2. run[g].wk \in LiveWorker => run[g].killed
    <3>1. CASE RunAdopt(g)
      BY <3>1 DEF RunAdopt, PersistedHolds, LiveWorker
    <3>2. CASE ~RunAdopt(g)
      BY <1>2, <3>2 DEF RunResolved, RunRejected, RunPersistFails, ApprovalSettle, MustSettle,
                LiveWorker, Reported
    <3> QED
      BY <3>1, <3>2
  <2> QED
    BY <2>1, <2>2, DoneOnward
<1>3. CASE RunPersist(g)
  <2>1. run[g] \in RunType /\ Taken(g) /\ Alive(g) /\ run[g].wk = "ok"
    BY <1>3 DEF RunPersist, Answered, IInv, TypeOK, Taken, Alive
  <2> DEFINE w == [run[g] EXCEPT !.pc = "persisted"]
  <2>2. w.job = run[g].job /\ w.mode = run[g].mode /\ w.wk = "ok" /\ w \in RunType /\ w.pc = "persisted"
    BY <2>1 DEF RunType
  <2>3. run'[g] = w /\ \A h \in Tokens \ {g} : run'[h] = run[h]
    BY <1>3 DEF RunPersist, IInv, TypeOK
  <2> HIDE DEF w
  <2>4. Onward(g)
    BY <2>1, <2>2, <2>3, KeptOnward DEF LiveWorker
  <2> QED
    BY <2>3, <2>4, StillOnward
<1>4. CASE Timeout(g) \/ HeartbeatLost(g)
  <2>1. PICK reason \in {"timeout", "lease"} : run' = [run EXCEPT ![g] = Abort(@, reason)]
    BY <1>4 DEF Timeout, HeartbeatLost, AbortRun
  <2>2. run'[g] = Abort(run[g], reason) /\ Taken(g) /\ \A h \in Tokens \ {g} : run'[h] = run[h]
    BY <1>4, <2>1 DEF Timeout, HeartbeatLost, Taken, IInv, TypeOK
  <2> QED
    BY <2>2, AbortOnward, StillOnward
<1>5. CASE GraceExpires(g) \/ RequestAborted(g)
  <2>1. /\ run'[g] = [run[g] EXCEPT !.killed = TRUE] /\ Taken(g)
        /\ \A h \in Tokens \ {g} : run'[h] = run[h]
    BY <1>5 DEF GraceExpires, RequestAborted, Taken, IInv, TypeOK
  <2> QED
    BY <2>1, KilledOnward, StillOnward
<1>6. CASE ApprovalDispatch(g)
  <2>1. run[g] \in RunType /\ Taken(g) /\ Alive(g)
    BY <1>6 DEF ApprovalDispatch, IInv, TypeOK, Taken, Alive
  <2> DEFINE w == [run[g] EXCEPT !.dispatched = TRUE, !.killed = ~owned,
                                 !.wk = IF owned THEN "boot" ELSE "err"]
  <2>2. w.job = run[g].job /\ w.pc = run[g].pc /\ w.mode = run[g].mode
    BY <2>1 DEF RunType
  <2>3. run'[g] = w /\ \A h \in Tokens \ {g} : run'[h] = run[h]
    BY <1>6 DEF ApprovalDispatch, IInv, TypeOK, RunType
  <2> HIDE DEF w
  <2> QED
    BY <2>1, <2>2, <2>3, ToldOnward, StillOnward
<1>7. CASE Renew(g) \/ Expire(g)
  BY <1>7, StillOnward DEF Renew, Expire
<1> QED
  BY <1>1, <1>2, <1>3, <1>4, <1>5, <1>6, <1>7 DEF RunStep, RunSettles

(* The step that gives a job a run. *)
Claims(j) == DrainDispatch(j) \/ BeginApproval(j)

LEMMA CancelOnward ==
  ASSUME IInv, NEW j \in Jobs, NEW r, CancelWith(j, r)
  PROVE  \A h \in Tokens : Onward(h)
<1> SUFFICES ASSUME NEW h \in Tokens PROVE Onward(h)
  OBVIOUS
<1>1. run'[h] = run[h] \/ run'[h] = Abort(run[h], "cancel")
  BY DEF CancelWith, IInv, TypeOK
<1> QED
  BY <1>1, AbortOnward, StillOnward

(* Every step of the process and of a job, but the claims. *)
LEMMA JobOnward ==
  ASSUME IInv, NEW j \in Jobs, JobStep(j), ~Claims(j)
  PROVE  \A h \in Tokens : Onward(h)
<1>1. CASE \E k \in Kinds : Submit(j, k)
  BY <1>1, StillOnward DEF Submit
<1>2. CASE DrainFail(j)
  BY <1>2, StillOnward DEF DrainFail
<1>3. CASE Cancel(j) \/ CancelFenceFails(j)
  BY <1>3, CancelOnward DEF Cancel, CancelFenceFails
<1> QED
  BY <1>1, <1>2, <1>3 DEF JobStep, Claims

LEMMA ProcessOnward ==
  ASSUME IInv, ProcessStep
  PROVE  \A h \in Tokens : Onward(h)
<1> SUFFICES ASSUME NEW h \in Tokens PROVE Onward(h)
  OBVIOUS
<1>1. CASE DrainEnd \/ RecoverResults \/ Start \/ RecoveryTimer
  BY <1>1, StillOnward DEF DrainEnd, RecoverResults, Start, RecoveryTimer
<1>2. CASE Shutdown
  <2>1. run'[h] = run[h] \/ run'[h] = Abort(run[h], "shutdown")
    BY <1>2 DEF Shutdown
  <2> QED
    BY <2>1, AbortOnward, StillOnward
<1>3. CASE LoseOwnership
  <2>1. run'[h] = run[h] \/ (Taken(h) /\ run'[h] = [run[h] EXCEPT !.killed = TRUE])
    BY <1>3 DEF LoseOwnership, Taken
  <2> QED
    BY <2>1, KilledOnward, StillOnward
<1>4. CASE ShutdownDone \/ Crash
  <2>1. CASE ~Alive(h)
    BY <1>4, <2>1, StillOnward DEF ShutdownDone, Crash
  <2>2. CASE Alive(h)
    <3>1. run[h] \in RunType /\ Taken(h)
      BY <2>2 DEF IInv, TypeOK, Taken, Alive
    <3> DEFINE w == [run[h] EXCEPT !.pc = "lost", !.killed = TRUE]
    <3>2. /\ w \in RunType /\ w.job = run[h].job /\ w.mode = run[h].mode /\ w.wk = run[h].wk
          /\ w.pc = "lost" /\ w.killed
      BY <3>1 DEF RunType
    <3>3. run'[h] = Kept(w)
      BY <1>4, <2>2 DEF ShutdownDone, Crash
    <3> HIDE DEF w
    <3> QED
      BY <2>2, <3>1, <3>2, <3>3, KeptOnward DEF Present
  <2> QED
    BY <2>1, <2>2
<1> QED
  BY <1>1, <1>2, <1>3, <1>4 DEF ProcessStep

LEMMA StepOnward ==
  ASSUME IInv, PersistedHolds, [Next]_vars, ~\E j \in Jobs : Claims(j)
  PROVE  \A h \in Tokens : Onward(h)
<1>1. CASE UNCHANGED vars
  BY <1>1, StillOnward DEF vars
<1>2. CASE Next
  BY <1>2, RunOnward, JobOnward, ProcessOnward DEF Next
<1> QED
  BY <1>1, <1>2

(* A claim gives the next token to its job and leaves the other runs alone. *)
LEMMA ClaimIs ==
  ASSUME IInv, NEW j \in Jobs, Claims(j)
  PROVE  /\ issued + 1 \in Tokens /\ issued' = issued + 1 /\ issued \in Nat
         /\ UNCHANGED <<expired, dispatches, outcome, owned>>
         /\ \A h \in Tokens \ {issued + 1} : run'[h] = run[h]
         /\ LET w == run'[issued + 1] IN
            /\ w.job = j /\ w.pc = "exec" /\ w.abort = "none" /\ w.mode \in {"run", "approval"}
            /\ ~w.dispatched /\ w.wk \in {"none", "boot", "err"}
            /\ w.mode = "run" <=> DrainDispatch(j)
            /\ w.mode = "approval" => w.wk = "none"
            /\ w.killed => ~owned
         /\ active' = [active EXCEPT ![j] = issued + 1]
         /\ db[j].status \in {"queued", "awaiting-approval"}
         /\ SetRow(j, IF DrainDispatch(j) THEN claimNextQueued(db[j], issued + 1)
                      ELSE Lease(db[j], issued + 1))
<1> DEFINE g == issued + 1
<1>1. g \in Tokens /\ issued \in Nat
  BY NewToken, Parts DEF Claims, DrainDispatch, BeginApproval, CanClaim, RestOK
<1>2. CASE DrainDispatch(j)
  <2> DEFINE v == [NoRun EXCEPT !.job = j, !.pc = "exec", !.wk = IF owned THEN "boot" ELSE "err",
                                !.killed = ~owned, !.gen = db[j].attempts + 1]
  <2>1. /\ v.job = j /\ v.pc = "exec" /\ v.abort = "none" /\ v.mode = "run" /\ ~v.dispatched
        /\ v.wk \in {"boot", "err"} /\ v.killed = ~owned
    BY DEF NoRun
  <2>2. run' = [run EXCEPT ![g] = v]
    BY <1>2 DEF DrainDispatch
  <2> HIDE DEF v
  <2>3. run'[g] = v /\ \A h \in Tokens \ {g} : run'[h] = run[h]
    BY <1>1, <2>2 DEF IInv, TypeOK
  <2>4. db[j].status = "queued"
    BY <1>2 DEF DrainDispatch, CanClaim, Oldest, Queued
  <2> QED
    BY <1>1, <1>2, <2>1, <2>3, <2>4 DEF DrainDispatch, UnchangedWorld
<1>3. CASE BeginApproval(j) /\ ~DrainDispatch(j)
  <2> DEFINE v == [NoRun EXCEPT !.job = j, !.mode = "approval", !.pc = "exec"]
  <2>1. /\ v.job = j /\ v.pc = "exec" /\ v.abort = "none" /\ v.mode = "approval" /\ ~v.dispatched
        /\ v.wk = "none" /\ ~v.killed
    BY DEF NoRun
  <2>2. run' = [run EXCEPT ![g] = v]
    BY <1>3 DEF BeginApproval
  <2> HIDE DEF v
  <2>3. run'[g] = v /\ \A h \in Tokens \ {g} : run'[h] = run[h]
    BY <1>1, <2>2 DEF IInv, TypeOK
  <2>4. db[j].status = "awaiting-approval"
    BY <1>3 DEF BeginApproval, CanClaimApproval
  <2> QED
    BY <1>1, <1>3, <2>1, <2>3, <2>4 DEF BeginApproval, UnchangedWorld, claimApproval
<1> QED
  BY <1>2, <1>3 DEF Claims

---------------------------------------------------------------------------
(* What a step leaves of the rows *)

(* The kind of a job is given once; its audit and its result are never lost. *)
Grown(r, r2) ==
  /\ r2.kind = r.kind
  /\ r.audited => r2.audited
  /\ r.persisted => r2.persisted

LEMMA AlikeGrown ==
  ASSUME NEW r, NEW r2, Alike(r, r2) PROVE Grown(r, r2)
  BY DEF Alike, Grown

LEMMA SetRowGrows ==
  ASSUME IInv, NEW j \in Jobs, NEW r, SetRow(j, r), Grown(db[j], r)
  PROVE  \A i \in Jobs : Grown(db[i], db'[i])
  BY DEF SetRow, IInv, TypeOK, Grown

LEMMA WorkerGrows ==
  ASSUME IInv, NEW g \in Tokens, WorkerStep(g) \/ WorkerCrash(g)
  PROVE  \A j \in Jobs : Grown(db[j], db'[j])
<1> DEFINE r == Row(g)
           j == run[g].job
           Goal == \A i \in Jobs : Grown(db[i], db'[i])
<1>1. run[g].wk \in LiveWorker
  BY DEF WorkerStep, WorkerBind, WorkerAdmit, WorkerRefused, WorkerStart, WorkerDenied,
         WorkerApproval, WorkerThrows, WorkerReturns, WorkerUncertain, WorkerGraphEnds,
         WorkerSettles, WorkerExits, WorkerCrash, LiveWorker
<1>2. j \in Jobs /\ r \in RowType /\ r = db[j]
  BY <1>1, RunRow DEF LiveWorker, Good, Row
<1>3. Grown(r, r) /\ Grown(r, [r EXCEPT !.bound = TRUE]) /\ Grown(r, [r EXCEPT !.audited = TRUE])
  BY <1>2, FlagIs DEF Grown, Alike, SameRow
<1>4. Grown(r, admitExecution(r)) /\ Grown(r, resumeExecution(r))
  BY <1>2, AdmissionIs DEF Grown, SameRow
<1>5. \A to : Grown(r, transitionExecutionAttempt(r, g, to)) /\ Grown(r, failAttempt(g, to))
  BY <1>2, <1>3, ExecutionIs, AlikeGrown DEF failAttempt
<1>6. CASE UNCHANGED db
  BY <1>6 DEF Grown
<1>7. ASSUME NEW r2, SetRow(j, r2), Grown(r, r2) PROVE Goal
  BY <1>2, <1>7, SetRowGrows
<1>8. ASSUME ~UNCHANGED db
      PROVE  \E r2 : SetRow(j, r2) /\ Grown(r, r2)
  <2>1. CASE WorkerBind(g)
    BY <1>3, <2>1 DEF WorkerBind
  <2>2. CASE WorkerAdmit(g)
    BY <1>3, <1>4, <2>2 DEF WorkerAdmit
  <2>3. CASE WorkerStart(g) \/ WorkerApproval(g)
    BY <1>3, <1>5, <1>8, <2>3 DEF WorkerStart, WorkerApproval
  <2>4. CASE WorkerDenied(g) \/ WorkerThrows(g) \/ WorkerUncertain(g)
    BY <1>5, <2>4 DEF WorkerDenied, WorkerThrows, WorkerUncertain
  <2>5. CASE WorkerReturns(g)
    BY <1>3, <2>5 DEF WorkerReturns
  <2>6. CASE WorkerGraphEnds(g) \/ WorkerSettles(g)
    BY <1>5, <1>8, <2>6 DEF WorkerGraphEnds, WorkerSettles
  <2>7. CASE WorkerRefused(g) \/ WorkerExits(g) \/ WorkerCrash(g)
    BY <1>8, <2>7 DEF WorkerRefused, WorkerExits, WorkerCrash
  <2> QED
    BY <2>1, <2>2, <2>3, <2>4, <2>5, <2>6, <2>7 DEF WorkerStep
<1> HIDE DEF Goal, r, j
<1> QED
  BY <1>6, <1>7, <1>8 DEF Goal

(* The row a settlement writes. *)
LEMMA SettledRowGrows ==
  ASSUME NEW r \in RowType
  PROVE  /\ \A requested : Grown(r, update(r, requested))
         /\ \A requested, g : Grown(r, updateFenced(r, g, requested))
         /\ \A d, i, e : Grown(r, settleApproval(r, d, i, e))
         /\ \A i : Grown(r, adoptProtectedResult(r, i))
         /\ Grown(r, recover(r)) /\ Grown(r, RecoveredResult(r))
         /\ r.status \notin TERMINAL_JOB_STATES => Grown(r, cancel(r))
         /\ Grown(r, updateKeepingLease(r, "needs-review"))
         /\ \A g : Grown(r, Lease(r, g)) /\ Grown(r, claimNextQueued(r, g))
         /\ Grown(r, [r EXCEPT !.persisted = TRUE])
<1>1. Grown(r, r)
  BY DEF Grown
<1>2. \A requested : Grown(r, update(r, requested))
  BY UpdateRowIs, AlikeGrown
<1>3. \A requested, g : Grown(r, updateFenced(r, g, requested))
  BY <1>1, <1>2 DEF updateFenced
<1>4. /\ \A d, i, e : Grown(r, settleApproval(r, d, i, e))
      /\ \A i : Grown(r, adoptProtectedResult(r, i))
      /\ Grown(r, recover(r))
      /\ r.status \notin TERMINAL_JOB_STATES => Grown(r, cancel(r))
      /\ Grown(r, updateKeepingLease(r, "needs-review"))
  BY SettleApprovalIs, AdoptIs, RecoverIs, CancelRowIs, QuarantineIs, AlikeGrown
<1>5. Grown(r, RecoveredResult(r))
  BY <1>1, <1>2, <1>4 DEF RecoveredResult
<1>6. /\ \A g : Grown(r, Lease(r, g)) /\ Grown(r, claimNextQueued(r, g))
      /\ Grown(r, [r EXCEPT !.persisted = TRUE])
  BY LeaseIs, FlagIs DEF Grown, Alike, SameRow
<1> QED
  BY <1>2, <1>3, <1>4, <1>5, <1>6

Submits(j) == \E k \in Kinds : Submit(j, k)

LEMMA RowsGrow ==
  ASSUME IInv, [Next]_vars, NEW i \in Jobs
  PROVE  Grown(db[i], db'[i]) \/ Submits(i)
<1>1. \A j \in Jobs : db[j] \in RowType
  BY DEF IInv, TypeOK
<1>2. UNCHANGED db => Grown(db[i], db'[i])
  BY DEF Grown
<1>3. ASSUME NEW g \in Tokens, RunStep(g) PROVE Grown(db[i], db'[i])
  <2>1. CASE WorkerStep(g) \/ WorkerCrash(g)
    BY <2>1, WorkerGrows
  <2>2. CASE RunSettles(g) \/ RunPersistFails(g) \/ ApprovalSettle(g)
    <3>1. run[g].job \in Jobs /\ Row(g) = db[run[g].job] /\ Row(g) \in RowType
      <4>1. run[g].pc # "none"
        BY <2>2 DEF RunSettles, RunResolved, RunPersist, RunAdopt, RunRejected, RunPersistFails,
                    ApprovalSettle, Answered, MustSettle
      <4> QED
        BY <4>1, RunRow DEF Row, Good
    <3>2. CASE UNCHANGED db
      BY <3>2 DEF Grown
    <3>3. CASE ~UNCHANGED db
      <4>1. \E r : SetRow(run[g].job, r) /\ Grown(Row(g), r)
        <5>1. CASE RunResolved(g) \/ RunRejected(g) \/ RunPersistFails(g)
          <6>1. \E requested : SetRow(run[g].job, updateFenced(Row(g), g, requested))
            BY <5>1 DEF RunResolved, RunRejected, RunPersistFails, Finish
          <6> QED
            BY <3>1, <6>1, SettledRowGrows
        <5>2. CASE RunAdopt(g)
          BY <3>1, <5>2, SettledRowGrows DEF RunAdopt, Finish
        <5>3. CASE RunPersist(g)
          BY <3>1, <5>3, SettledRowGrows DEF RunPersist
        <5>4. CASE ApprovalSettle(g)
          <6>1. \E d, n, e : \/ SetRow(run[g].job, settleApproval(Row(g), d, n, e))
                             \/ SetRow(run[g].job, Row(g))
            BY <3>3, <5>4 DEF ApprovalSettle
          <6> QED
            BY <3>1, <6>1, SettledRowGrows DEF Grown
        <5> QED
          BY <2>2, <5>1, <5>2, <5>3, <5>4 DEF RunSettles
      <4> QED
        BY <3>1, <4>1, SetRowGrows
    <3> QED
      BY <3>2, <3>3
  <2>3. CASE ~(WorkerStep(g) \/ WorkerCrash(g) \/ RunSettles(g) \/ RunPersistFails(g) \/ ApprovalSettle(g))
    <3>1. \/ Timeout(g) \/ HeartbeatLost(g) \/ GraceExpires(g) \/ Renew(g) \/ Expire(g)
          \/ ApprovalDispatch(g) \/ RequestAborted(g)
      BY <1>3, <2>3 DEF RunStep
    <3>2. UNCHANGED db
      BY <3>1 DEF Timeout, HeartbeatLost, GraceExpires, Renew, Expire, AbortRun,
                  ApprovalDispatch, RequestAborted
    <3> QED
      BY <1>2, <3>2
  <2> QED
    BY <2>1, <2>2, <2>3
<1>4. ASSUME NEW j \in Jobs, JobStep(j) PROVE Grown(db[i], db'[i]) \/ Submits(i)
  <2>1. CASE Submits(j)
    <3>1. CASE i = j
      BY <2>1, <3>1
    <3>2. CASE i # j
      <4>1. db'[i] = db[i]
        BY <2>1, <3>2 DEF Submits, Submit, SetRow, IInv, TypeOK
      <4> QED
        BY <4>1 DEF Grown
    <3> QED
      BY <3>1, <3>2
  <2>2. CASE ~Submits(j)
    <3>1. \E r : SetRow(j, r) /\ Grown(db[j], r)
      <4>1. CASE DrainDispatch(j) \/ BeginApproval(j)
        BY <1>1, <4>1, SettledRowGrows DEF DrainDispatch, BeginApproval, claimApproval
      <4>2. CASE DrainFail(j)
        <5> DEFINE c == claimNextQueued(db[j], issued + 1)
        <5>1. SetRow(j, update(c, "failed"))
          BY <4>2 DEF DrainFail
        <5>2. Grown(db[j], c)
          BY <1>1, SettledRowGrows
        <5>3. c \in RowType
          BY <4>2, Parts, RowIsGood, NewToken, LeaseGood
          DEF DrainFail, CanClaim, Oldest, Queued, Good, LedgerConsistent, RestOK
        <5> HIDE DEF c
        <5> QED
          BY <5>1, <5>2, <5>3, SettledRowGrows DEF Grown
      <4>3. CASE Cancel(j) \/ CancelFenceFails(j)
        BY <1>1, <4>3, SettledRowGrows DEF Cancel, CancelFenceFails, CanCancel, CancelWith
      <4> QED
        BY <1>4, <2>2, <4>1, <4>2, <4>3 DEF JobStep, Submits
    <3> QED
      BY <3>1, SetRowGrows
  <2> QED
    BY <2>1, <2>2
<1>5. ASSUME ProcessStep PROVE Grown(db[i], db'[i])
  <2>1. CASE RecoverResults
    BY <1>1, <2>1, SettledRowGrows DEF RecoverResults
  <2>2. CASE Start \/ RecoveryTimer
    <3>1. db'[i] \in {db[i], recover(db[i])}
      BY <2>2 DEF Start, RecoveryTimer, Recover
    <3> QED
      BY <1>1, <3>1, SettledRowGrows DEF Grown
  <2>3. CASE ~RecoverResults /\ ~Start /\ ~RecoveryTimer
    <3>1. DrainEnd \/ Shutdown \/ ShutdownDone \/ LoseOwnership \/ Crash
      BY <1>5, <2>3 DEF ProcessStep
    <3>2. UNCHANGED db
      BY <3>1 DEF DrainEnd, Shutdown, ShutdownDone, LoseOwnership, Crash
    <3> QED
      BY <1>2, <3>2
  <2> QED
    BY <2>1, <2>2, <2>3
<1> QED
  BY <1>2, <1>3, <1>4, <1>5 DEF Next, vars

---------------------------------------------------------------------------
(* The run whose result is persisted *)

LEMMA AbortPc ==
  ASSUME NEW w \in RunType, NEW reason
  PROVE  Abort(w, reason).pc = w.pc
  BY DEF Abort, RunType

(* Nothing touches it before it settles. *)
LEMMA PersistedRun ==
  ASSUME IInv, PersistedHolds, [Next]_vars, NEW g \in Tokens, run'[g].pc = "persisted"
  PROVE  run'[g] = run[g] \/ RunPersist(g)
<1>1. run[g] \in RunType
  BY DEF IInv, TypeOK
<1>2. CASE UNCHANGED run
  BY <1>2
<1>3. ASSUME NEW h \in Tokens, RunStep(h) PROVE run'[g] = run[g] \/ RunPersist(g)
  <2>1. CASE WorkerStep(h) \/ WorkerCrash(h)
    <3>1. run[h].wk \in LiveWorker
      BY <2>1 DEF WorkerStep, WorkerBind, WorkerAdmit, WorkerRefused, WorkerStart, WorkerDenied,
             WorkerApproval, WorkerThrows, WorkerReturns, WorkerUncertain, WorkerGraphEnds,
             WorkerSettles, WorkerExits, WorkerCrash, LiveWorker
    <3>2. run[h] \in RunType /\ Good(Row(h))
      BY <3>1, RunRow DEF LiveWorker
    <3>3. PICK w \in RunType : Worked(h, w) /\ run' \in {[run EXCEPT ![h] = Kept(w)], [run EXCEPT ![h] = w]}
      BY <2>1, <3>2, WorkerRun
    <3>4. CASE h = g
      <4>1. run'[g] = w \/ run'[g] = Kept(w)
        BY <3>3, <3>4 DEF IInv, TypeOK
      <4>2. w.pc = "persisted"
        BY <4>1, KeptIs
      <4>3. run[g].wk = "ok"
        BY <3>3, <3>4, <4>2 DEF Worked, PersistedHolds
      <4> QED
        BY <3>1, <3>4, <4>3 DEF LiveWorker
    <3>5. CASE h # g
      BY <3>3, <3>5 DEF IInv, TypeOK
    <3> QED
      BY <3>4, <3>5
  <2>2. CASE RunResolved(h) \/ RunAdopt(h) \/ RunRejected(h) \/ RunPersistFails(h) \/ ApprovalSettle(h)
    <3> DEFINE w == [run[h] EXCEPT !.pc = "done"]
    <3>1. run' = [run EXCEPT ![h] = Kept(w)]
      BY <2>2 DEF RunResolved, RunAdopt, RunRejected, RunPersistFails, ApprovalSettle, Finish
    <3>2. w \in RunType /\ w.pc = "done"
      <4>1. run[h] \in RunType
        BY DEF IInv, TypeOK
      <4> QED
        BY <4>1 DEF RunType
    <3> HIDE DEF w
    <3>3. Kept(w).pc # "persisted"
      BY <3>2, KeptIs
    <3> QED
      BY <3>1, <3>3 DEF IInv, TypeOK
  <2>3. CASE RunPersist(h)
    BY <2>3 DEF RunPersist, IInv, TypeOK
  <2>4. CASE \/ Timeout(h) \/ HeartbeatLost(h) \/ GraceExpires(h) \/ ApprovalDispatch(h)
             \/ RequestAborted(h)
    <3>1. run[h].pc = "exec" /\ run[h] \in RunType
      BY <2>4 DEF Timeout, HeartbeatLost, GraceExpires, ApprovalDispatch, RequestAborted, IInv, TypeOK
    <3>2. run'[h].pc = "exec" /\ \A i \in Tokens \ {h} : run'[i] = run[i]
      <4>1. CASE Timeout(h) \/ HeartbeatLost(h)
        <5>1. \E reason : run' = [run EXCEPT ![h] = Abort(run[h], reason)]
          BY <4>1 DEF Timeout, HeartbeatLost, AbortRun
        <5> QED
          BY <3>1, <5>1, AbortPc DEF IInv, TypeOK
      <4>2. CASE GraceExpires(h) \/ RequestAborted(h)
        <5>1. /\ run'[h] = [run[h] EXCEPT !.killed = TRUE]
              /\ \A i \in Tokens \ {h} : run'[i] = run[i]
          BY <4>2 DEF GraceExpires, RequestAborted, IInv, TypeOK
        <5> QED
          BY <3>1, <5>1 DEF RunType
      <4>3. CASE ApprovalDispatch(h)
        BY <3>1, <4>3 DEF ApprovalDispatch, IInv, TypeOK, RunType
      <4> QED
        BY <2>4, <4>1, <4>2, <4>3
    <3> QED
      BY <3>2
  <2>5. CASE Renew(h) \/ Expire(h)
    BY <2>5 DEF Renew, Expire
  <2> QED
    BY <1>3, <2>1, <2>2, <2>3, <2>4, <2>5 DEF RunStep, RunSettles
<1>4. ASSUME NEW j \in Jobs, JobStep(j) PROVE run'[g] = run[g]
  <2>1. CASE Claims(j)
    <3>1. run'[issued + 1].pc = "exec" /\ \A h \in Tokens \ {issued + 1} : run'[h] = run[h]
      BY <2>1, ClaimIs
    <3> QED
      BY <3>1
  <2>2. CASE Submits(j) \/ DrainFail(j)
    BY <2>2 DEF Submits, Submit, DrainFail
  <2>3. CASE Cancel(j) \/ CancelFenceFails(j)
    <3>1. run[g].pc # "persisted"
      BY <2>3 DEF Cancel, CancelFenceFails, CanCancel, Idle
    <3>2. run'[g] = run[g] \/ run'[g] = Abort(run[g], "cancel")
      BY <2>3 DEF Cancel, CancelFenceFails, CancelWith, IInv, TypeOK
    <3> QED
      BY <1>1, <3>1, <3>2, AbortPc
  <2> QED
    BY <1>4, <2>1, <2>2, <2>3 DEF JobStep, Claims, Submits
<1>5. ASSUME ProcessStep PROVE run'[g] = run[g]
  <2>1. CASE DrainEnd \/ RecoverResults \/ Start \/ RecoveryTimer
    BY <2>1 DEF DrainEnd, RecoverResults, Start, RecoveryTimer
  <2>2. CASE Shutdown
    <3>1. run[g].pc # "persisted"
      BY <2>2 DEF Shutdown, Idle
    <3>2. run'[g] = run[g] \/ run'[g] = Abort(run[g], "shutdown")
      BY <2>2 DEF Shutdown
    <3> QED
      BY <1>1, <3>1, <3>2, AbortPc
  <2>3. CASE LoseOwnership
    <3>1. run'[g] = run[g] \/ (run[g].pc = "exec" /\ run'[g] = [run[g] EXCEPT !.killed = TRUE])
      BY <2>3 DEF LoseOwnership
    <3> QED
      BY <1>1, <3>1 DEF RunType
  <2>4. CASE ShutdownDone \/ Crash
    <3>1. CASE ~Alive(g)
      BY <2>4, <3>1 DEF ShutdownDone, Crash
    <3>2. CASE Alive(g)
      <4> DEFINE w == [run[g] EXCEPT !.pc = "lost", !.killed = TRUE]
      <4>1. w \in RunType /\ w.pc = "lost"
        BY <1>1 DEF RunType
      <4>2. run'[g] = Kept(w)
        BY <2>4, <3>2 DEF ShutdownDone, Crash
      <4> HIDE DEF w
      <4> QED
        BY <4>1, <4>2, KeptIs
    <3> QED
      BY <3>1, <3>2
  <2> QED
    BY <1>5, <2>1, <2>2, <2>3, <2>4 DEF ProcessStep
<1> QED
  BY <1>2, <1>3, <1>4, <1>5 DEF Next, vars

LEMMA PersistedStep ==
  ASSUME IInv, PersistedHolds, [Next]_vars
  PROVE  PersistedHolds'
<1> SUFFICES ASSUME NEW g \in Tokens, run'[g].pc = "persisted"
             PROVE  /\ run'[g].mode = "run" /\ run'[g].abort = "none" /\ ~run'[g].killed
                    /\ run'[g].wk = "ok" /\ Row(g)'.persisted /\ Row(g)'.kind.protected
  BY DEF PersistedHolds
<1>1. CASE RunPersist(g)
  <2>1. run[g].job \in Jobs /\ run[g] \in RunType /\ Row(g) \in RowType
    BY <1>1, RunRow DEF RunPersist, Answered, Good
  <2>2. /\ run'[g].mode = "run" /\ run'[g].abort = "none" /\ ~run'[g].killed
        /\ run'[g].wk = "ok" /\ run'[g].job = run[g].job
    BY <1>1, <2>1 DEF RunPersist, Answered, IInv, TypeOK, RunType
  <2>3. db'[run[g].job].persisted /\ db'[run[g].job].kind.protected
    <3>1. [Row(g) EXCEPT !.persisted = TRUE].persisted
          /\ [Row(g) EXCEPT !.persisted = TRUE].kind = Row(g).kind
      BY <2>1 DEF RowType
    <3> QED
      BY <1>1, <2>1, <3>1 DEF RunPersist, SetRow, IInv, TypeOK
  <2> QED
    BY <2>2, <2>3 DEF Row
<1>2. CASE ~RunPersist(g)
  <2>1. run'[g] = run[g]
    BY <1>2, PersistedRun
  <2>2. /\ run[g].mode = "run" /\ run[g].abort = "none" /\ ~run[g].killed /\ run[g].wk = "ok"
        /\ Row(g).persisted /\ Row(g).kind.protected
    BY <2>1 DEF PersistedHolds
  <2>3. run[g].job \in Jobs /\ ~Submits(run[g].job)
    BY <2>1, RunRow DEF Submits, Submit, Idle
  <2>4. Grown(Row(g), db'[run[g].job])
    BY <2>3, RowsGrow DEF Row
  <2> QED
    BY <2>1, <2>2, <2>4 DEF Grown, Row
<1> QED
  BY <1>1, <1>2

---------------------------------------------------------------------------
(* The end of a run *)

LEMMA OtherRuns ==
  ASSUME IInv, NEW g \in Tokens, RunStep(g), NEW h \in Tokens, h # g
  PROVE  run'[h] = run[h]
<1>1. CASE WorkerStep(g) \/ WorkerCrash(g)
  <2>1. run[g].wk \in LiveWorker
    BY <1>1 DEF WorkerStep, WorkerBind, WorkerAdmit, WorkerRefused, WorkerStart, WorkerDenied,
           WorkerApproval, WorkerThrows, WorkerReturns, WorkerUncertain, WorkerGraphEnds,
           WorkerSettles, WorkerExits, WorkerCrash, LiveWorker
  <2>2. run[g] \in RunType /\ Good(Row(g))
    BY <2>1, RunRow DEF LiveWorker
  <2>3. \E w \in RunType : run' \in {[run EXCEPT ![g] = Kept(w)], [run EXCEPT ![g] = w]}
    BY <1>1, <2>2, WorkerRun
  <2> QED
    BY <2>3 DEF IInv, TypeOK
<1>2. CASE RunResolved(g) \/ RunAdopt(g) \/ RunRejected(g) \/ RunPersistFails(g) \/ ApprovalSettle(g)
  <2>1. run' = [run EXCEPT ![g] = Kept([@ EXCEPT !.pc = "done"])]
    BY <1>2 DEF RunResolved, RunAdopt, RunRejected, RunPersistFails, ApprovalSettle, Finish
  <2> QED
    BY <2>1 DEF IInv, TypeOK
<1>3. CASE RunPersist(g)
  BY <1>3 DEF RunPersist, IInv, TypeOK
<1>4. CASE Timeout(g) \/ HeartbeatLost(g)
  <2>1. \E reason : run' = [run EXCEPT ![g] = Abort(run[g], reason)]
    BY <1>4 DEF Timeout, HeartbeatLost, AbortRun
  <2> QED
    BY <2>1 DEF IInv, TypeOK
<1>5. CASE GraceExpires(g) \/ RequestAborted(g)
  BY <1>5 DEF GraceExpires, RequestAborted, IInv, TypeOK
<1>6. CASE ApprovalDispatch(g)
  BY <1>6 DEF ApprovalDispatch, IInv, TypeOK
<1>7. CASE Renew(g) \/ Expire(g)
  BY <1>7 DEF Renew, Expire
<1> QED
  BY <1>1, <1>2, <1>3, <1>4, <1>5, <1>6, <1>7 DEF RunStep, RunSettles

(* The handlers that end a run: those that write its row, and the end of its process. *)
Settles(g) == RunResolved(g) \/ RunAdopt(g) \/ RunRejected(g) \/ RunPersistFails(g) \/ ApprovalSettle(g)

LEMMA EndedBy ==
  ASSUME IInv, [Next]_vars, NEW g \in Tokens, Alive(g), ~Alive(g)'
  PROVE  Settles(g) \/ ShutdownDone \/ Crash
<1>1. run[g] \in RunType /\ Good(Row(g))
  BY RunRow DEF Alive
<1>2. run'[g] # run[g]
  BY DEF Alive
<1>3. ASSUME NEW h \in Tokens, RunStep(h) PROVE Settles(g)
  <2>1. h = g
    BY <1>2, <1>3, OtherRuns
  <2>2. CASE WorkerStep(g) \/ WorkerCrash(g)
    <3>1. PICK w \in RunType : Worked(g, w) /\ run' \in {[run EXCEPT ![g] = Kept(w)], [run EXCEPT ![g] = w]}
      BY <1>1, <2>2, WorkerRun
    <3>2. w.pc = run[g].pc /\ (run'[g] = w \/ run'[g] = Kept(w))
      BY <3>1 DEF Worked, IInv, TypeOK
    <3> QED
      BY <3>2, KeptIs DEF Alive
  <2>3. CASE RunPersist(g)
    <3>1. run'[g] = [run[g] EXCEPT !.pc = "persisted"]
      BY <2>3 DEF RunPersist, IInv, TypeOK
    <3> QED
      BY <1>1, <3>1 DEF Alive, RunType
  <2>4. CASE Timeout(g) \/ HeartbeatLost(g)
    <3>1. \E reason : run'[g] = Abort(run[g], reason)
      BY <2>4 DEF Timeout, HeartbeatLost, AbortRun, IInv, TypeOK
    <3> QED
      BY <1>1, <3>1, AbortPc DEF Alive
  <2>5. CASE GraceExpires(g) \/ RequestAborted(g)
    <3>1. run'[g] = [run[g] EXCEPT !.killed = TRUE]
      BY <2>5 DEF GraceExpires, RequestAborted, IInv, TypeOK
    <3> QED
      BY <1>1, <3>1 DEF Alive, RunType
  <2>6. CASE ApprovalDispatch(g)
    <3>1. run'[g].pc = run[g].pc
      BY <1>1, <2>6 DEF ApprovalDispatch, IInv, TypeOK, RunType
    <3> QED
      BY <3>1 DEF Alive
  <2>7. CASE Renew(g) \/ Expire(g)
    BY <1>2, <2>7 DEF Renew, Expire
  <2> QED
    BY <1>3, <2>1, <2>2, <2>3, <2>4, <2>5, <2>6, <2>7 DEF RunStep, RunSettles, Settles
<1>4. ASSUME NEW j \in Jobs, JobStep(j) PROVE FALSE
  <2>1. CASE Claims(j)
    BY <1>2, <2>1, ClaimIs DEF Alive
  <2>2. CASE Submits(j) \/ DrainFail(j)
    BY <1>2, <2>2 DEF Submits, Submit, DrainFail
  <2>3. CASE Cancel(j) \/ CancelFenceFails(j)
    <3>1. run'[g] = run[g] \/ run'[g] = Abort(run[g], "cancel")
      BY <2>3 DEF Cancel, CancelFenceFails, CancelWith, IInv, TypeOK
    <3> QED
      BY <1>1, <3>1, AbortPc DEF Alive
  <2> QED
    BY <1>4, <2>1, <2>2, <2>3 DEF JobStep, Claims, Submits
<1>5. ASSUME ProcessStep PROVE ShutdownDone \/ Crash
  <2>1. CASE DrainEnd \/ RecoverResults \/ Start \/ RecoveryTimer
    BY <1>2, <2>1 DEF DrainEnd, RecoverResults, Start, RecoveryTimer
  <2>2. CASE Shutdown
    <3>1. run'[g] = run[g] \/ run'[g] = Abort(run[g], "shutdown")
      BY <2>2 DEF Shutdown
    <3> QED
      BY <1>1, <3>1, AbortPc DEF Alive
  <2>3. CASE LoseOwnership
    <3>1. run'[g] = run[g] \/ run'[g] = [run[g] EXCEPT !.killed = TRUE]
      BY <2>3 DEF LoseOwnership
    <3> QED
      BY <1>1, <3>1 DEF Alive, RunType
  <2> QED
    BY <1>5, <2>1, <2>2, <2>3 DEF ProcessStep
<1> QED
  BY <1>2, <1>3, <1>4, <1>5 DEF Next, vars

(* A write back of the row as it is. *)
LEMMA SameRowWritten ==
  ASSUME IInv, NEW j \in Jobs, SetRow(j, db[j])
  PROVE  UNCHANGED db
  BY DEF SetRow, IInv, TypeOK

LEMMA StaleStep ==
  ASSUME IInv, [Next]_vars, NEW g \in Tokens, Alive(g), run'[g].pc = "done", Row(g).lease # g,
         ~RunAdopt(g)
  PROVE  UNCHANGED db
<1>1. Settles(g) \/ ShutdownDone \/ Crash
  BY EndedBy DEF Alive
<1>2. run[g].job \in Jobs /\ Row(g) = db[run[g].job]
  BY RunRow DEF Alive, Row
<1>3. CASE ShutdownDone \/ Crash
  BY <1>3 DEF ShutdownDone, Crash
<1>4. CASE RunResolved(g) \/ RunRejected(g) \/ RunPersistFails(g)
  <2>1. SetRow(run[g].job, Row(g))
    BY <1>4 DEF RunResolved, RunRejected, RunPersistFails, Finish, updateFenced
  <2> QED
    BY <1>2, <2>1, SameRowWritten
<1>5. CASE ApprovalSettle(g)
  <2>1. UNCHANGED db \/ SetRow(run[g].job, Row(g))
    BY <1>5 DEF ApprovalSettle, CanSettleApproval
  <2> QED
    BY <1>2, <2>1, SameRowWritten
<1> QED
  BY <1>1, <1>3, <1>4, <1>5 DEF Settles

---------------------------------------------------------------------------
(* A stale run settles nothing *)

Steady == ~Stalls /\ NoUnsafeRetry
Protected == \E k \in Kinds : k.protected

StaleInv == IInv /\ PersistedHolds /\ (Steady => LifeInv)

LEMMA InitPersisted == Init => PersistedHolds
<1>1. NoRun.pc = "none"
  BY DEF NoRun
<1> QED
  BY <1>1 DEF Init, PersistedHolds

LEMMA StaleInvStep ==
  ASSUME StaleInv, [Next]_vars PROVE StaleInv'
<1>1. IInv'
  BY NextInv DEF StaleInv
<1>2. PersistedHolds'
  BY PersistedStep DEF StaleInv
<1>3. Steady => LifeInv'
  BY NextLife DEF StaleInv, Steady, LifeStep
<1> QED
  BY <1>1, <1>2, <1>3 DEF StaleInv, Steady, NoUnsafeRetry

(* A run whose job was leased to another one changes nothing of that job when it *)
(* settles: the token of the lease is compared by every settlement but the      *)
(* adoption of a protected result, which is only reached with the lease, while  *)
(* no lease of a live run lapses.  With such lapses it holds for the kinds of   *)
(* task without protected results (run, finally, settleApproval,                *)
(* expectedLeaseToken).                                                        *)
THEOREM StaleNeverSettlesHolds ==
  ASSUME Steady \/ ~Protected
  PROVE  Spec => StaleNeverSettles
<1> DEFINE Step == \A g \in Tokens :
             Alive(g) /\ run'[g].pc = "done" /\ Row(g).lease # g => UNCHANGED db
<1>1. Init => StaleInv
  BY InitInv, InitPersisted, InitLife DEF StaleInv
<1>2. StaleInv /\ [Next]_vars => StaleInv'
  BY StaleInvStep
<1>3. StaleInv /\ [Next]_vars => [Step]_vars
  <2> SUFFICES ASSUME StaleInv, [Next]_vars, NEW g \in Tokens,
                      Alive(g), run'[g].pc = "done", Row(g).lease # g
               PROVE  UNCHANGED db
    OBVIOUS
  <2>1. ~RunAdopt(g)
    <3> SUFFICES ASSUME RunAdopt(g) PROVE FALSE
      OBVIOUS
    <3>1. run[g].abort = "none" /\ Row(g).kind.protected
      BY DEF RunAdopt, StaleInv, PersistedHolds
    <3>2. CASE Steady
      <4>1. Governed(g)
        BY <3>2 DEF StaleInv, LifeInv, RunsGoverned
      <4> QED
        BY <3>1, <4>1 DEF Governed
    <3>3. CASE ~Protected
      <4>1. Row(g).kind \in Kinds
        BY RunRow DEF StaleInv, Alive, Good, RowType
      <4> QED
        BY <3>1, <3>3, <4>1 DEF Protected
    <3> QED
      BY <3>2, <3>3
  <2> QED
    BY <2>1, StaleStep DEF StaleInv
<1> QED
  BY <1>1, <1>2, <1>3, PTL DEF Spec, StaleNeverSettles

---------------------------------------------------------------------------
(* The concurrency of the supervisor *)

(* A living run has the entry of its job, for every step that writes an entry. *)
Entered == \A g \in Tokens : Alive(g) => active[run[g].job] = g

LEMMA SettlesEntries ==
  ASSUME IInv, NEW g \in Tokens, Settles(g)
  PROVE  /\ Alive(g) /\ ~Alive(g)'
         /\ \A j \in Jobs \ {run[g].job} : active'[j] = active[j]
<1>1. Alive(g) /\ run' = [run EXCEPT ![g] = Kept([@ EXCEPT !.pc = "done"])]
  BY DEF Settles, RunResolved, RunAdopt, RunRejected, RunPersistFails, ApprovalSettle, Finish,
         Answered, MustSettle, Alive
<1>2. run[g].job \in Jobs /\ run[g] \in RunType
  BY <1>1, RunRow DEF Alive
<1> DEFINE w == [run[g] EXCEPT !.pc = "done"]
<1>3. w \in RunType /\ w.pc = "done"
  BY <1>2 DEF RunType
<1>4. run'[g] = Kept(w)
  BY <1>1 DEF IInv, TypeOK
<1> HIDE DEF w
<1>5. ~Alive(g)'
  BY <1>3, <1>4, KeptIs DEF Alive
<1>6. active' = active \/ active' = [active EXCEPT ![run[g].job] = NoToken]
  BY DEF Settles, RunResolved, RunAdopt, RunRejected, RunPersistFails, ApprovalSettle, Finish
<1>7. \A j \in Jobs \ {run[g].job} : active'[j] = active[j]
  BY <1>2, <1>6 DEF IInv, TypeOK
<1> QED
  BY <1>1, <1>5, <1>7

LEMMA EntriesKept ==
  ASSUME [Next]_vars, ~\E g \in Tokens : Settles(g), ~\E j \in Jobs : Claims(j),
         ~ShutdownDone, ~Crash
  PROVE  active' = active
<1>1. ASSUME NEW g \in Tokens, RunStep(g) PROVE active' = active
  <2>1. CASE WorkerStep(g) \/ WorkerCrash(g)
    BY <2>1 DEF WorkerStep, WorkerBind, WorkerAdmit, WorkerRefused, WorkerStart, WorkerDenied,
           WorkerApproval, WorkerThrows, WorkerReturns, WorkerUncertain, WorkerGraphEnds,
           WorkerSettles, WorkerExits, WorkerCrash, UnchangedSupervisor
  <2>2. CASE ~WorkerStep(g) /\ ~WorkerCrash(g)
    <3>1. \/ RunPersist(g) \/ Timeout(g) \/ HeartbeatLost(g) \/ GraceExpires(g) \/ Renew(g) \/ Expire(g)
          \/ ApprovalDispatch(g) \/ RequestAborted(g)
      BY <1>1, <2>2 DEF RunStep, RunSettles, Settles
    <3> QED
      BY <3>1 DEF RunPersist, Timeout, HeartbeatLost, GraceExpires, Renew, Expire, ApprovalDispatch,
                  RequestAborted, AbortRun
  <2> QED
    BY <2>1, <2>2
<1>2. ASSUME NEW j \in Jobs, JobStep(j) PROVE active' = active
  BY <1>2 DEF JobStep, Claims, Submit, DrainFail, Cancel, CancelFenceFails, CancelWith
<1>3. ASSUME ProcessStep PROVE active' = active
  BY <1>3 DEF ProcessStep, DrainEnd, Shutdown, LoseOwnership, RecoverResults, Start, RecoveryTimer
<1> QED
  BY <1>1, <1>2, <1>3 DEF Next, vars

LEMMA EndedProcess ==
  ASSUME IInv, ShutdownDone \/ Crash, NEW g \in Tokens
  PROVE  ~Alive(g)'
<1>1. CASE Alive(g)
  <2> DEFINE w == [run[g] EXCEPT !.pc = "lost", !.killed = TRUE]
  <2>1. w \in RunType /\ w.pc = "lost"
    <3>1. run[g] \in RunType
      BY DEF IInv, TypeOK
    <3> QED
      BY <3>1 DEF RunType
  <2>2. run'[g] = Kept(w)
    BY <1>1 DEF ShutdownDone, Crash
  <2> HIDE DEF w
  <2> QED
    BY <2>1, <2>2, KeptIs DEF Alive
<1>2. CASE ~Alive(g)
  BY <1>2 DEF ShutdownDone, Crash, Alive
<1> QED
  BY <1>1, <1>2

EnteredJobs == {j \in Jobs : active[j] # NoToken}
Dispatched == {g \in Tokens : Alive(g) /\ run[g].mode = "run"}

LEMMA SetsFinite ==
  ASSUME IInv
  PROVE  /\ IsFiniteSet(EnteredJobs) /\ Cardinality(EnteredJobs) \in Nat
         /\ IsFiniteSet(Dispatched) /\ Cardinality(Dispatched) \in Nat
<1>1. IsFiniteSet(Jobs) /\ EnteredJobs \in SUBSET Jobs
  BY JobsAssumption DEF EnteredJobs
<1>2. IsFiniteSet(Tokens) /\ Dispatched \in SUBSET Tokens
  BY BoundsAssumption, FS_Interval DEF Dispatched
<1> QED
  BY <1>1, <1>2, FS_Subset, FS_CardinalityType

(* The living runs are no more than the entries of the active map. *)
LEMMA RunsFitEntries ==
  ASSUME IInv, Entered
  PROVE  Cardinality(Dispatched) <= Cardinality(EnteredJobs)
<1> DEFINE f == [g \in Dispatched |-> run[g].job]
<1>1. ASSUME NEW g \in Dispatched PROVE run[g].job \in EnteredJobs /\ active[run[g].job] = g
  <2>1. g \in Tokens /\ Alive(g)
    BY DEF Dispatched
  <2>2. run[g].job \in Jobs
    BY <2>1, RunRow DEF Alive
  <2> QED
    BY <2>1, <2>2, BoundsAssumption DEF Entered, EnteredJobs
<1>2. f \in [Dispatched -> EnteredJobs]
  BY <1>1
<1>3. \A g, h \in Dispatched : f[g] = f[h] => g = h
  BY <1>1
<1>4. f \in Injection(Dispatched, EnteredJobs)
  BY <1>2, <1>3, Fun_IsInj
<1> QED
  BY <1>4, SetsFinite, FS_Injection

(* No entry leads to a living run, unless an entry is that of the run. *)
LEMMA EnteredStep ==
  ASSUME IInv, PersistedHolds, Entered, [Next]_vars,
         \A j \in Jobs : Claims(j) => \A h \in Tokens : Alive(h) => run[h].job # j
  PROVE  Entered'
<1> SUFFICES ASSUME NEW h \in Tokens, Alive(h)' PROVE active'[run'[h].job] = h
  BY DEF Entered, Alive
<1>1. CASE ShutdownDone \/ Crash
  BY <1>1, EndedProcess
<1>2. ASSUME NEW j \in Jobs, Claims(j) PROVE active'[run'[h].job] = h
  <2>1. /\ active' = [active EXCEPT ![j] = issued + 1] /\ run'[issued + 1].job = j
        /\ \A g \in Tokens \ {issued + 1} : run'[g] = run[g]
    BY <1>2, ClaimIs
  <2>2. CASE h = issued + 1
    BY <2>1, <2>2 DEF IInv, TypeOK
  <2>3. CASE h # issued + 1
    <3>1. run'[h] = run[h] /\ Alive(h)
      BY <2>1, <2>3 DEF Alive
    <3>2. run[h].job \in Jobs /\ run[h].job # j
      BY <1>2, <3>1, RunRow DEF Alive
    <3> QED
      BY <2>1, <3>1, <3>2 DEF Entered, IInv, TypeOK
  <2> QED
    BY <2>2, <2>3
<1>3. CASE ~(ShutdownDone \/ Crash) /\ ~\E j \in Jobs : Claims(j)
  <2>1. Alive(h) /\ run'[h].job = run[h].job
    BY <1>3, StepOnward DEF Onward
  <2>2. run[h].job \in Jobs /\ active[run[h].job] = h
    BY <2>1, RunRow DEF Alive, Entered
  <2>3. ASSUME NEW g \in Tokens, Settles(g) PROVE active'[run[h].job] = h
    <3>1. Alive(g) /\ ~Alive(g)'
      BY <2>3, SettlesEntries
    <3>2. run[h].job # run[g].job
      BY <2>1, <3>1 DEF Entered
    <3> QED
      BY <2>2, <2>3, <3>2, SettlesEntries
  <2>4. CASE ~\E g \in Tokens : Settles(g)
    BY <1>3, <2>1, <2>2, <2>4, EntriesKept
  <2> QED
    BY <2>1, <2>3, <2>4
<1> QED
  BY <1>1, <1>2, <1>3

LEMMA CapacityStep ==
  ASSUME IInv, PersistedHolds, Entered, Capacity, [Next]_vars
  PROVE  Capacity'
<1> DEFINE n == issued + 1
<1>1. SUFFICES Cardinality(Dispatched') <= Concurrency
  BY DEF Capacity, Dispatched
<1>2. Cardinality(Dispatched) <= Concurrency /\ Concurrency \in Nat
  BY JobsAssumption DEF Capacity, Dispatched
<1>3. CASE Dispatched' \subseteq Dispatched
  <2>1. Cardinality(Dispatched') <= Cardinality(Dispatched) /\ Cardinality(Dispatched') \in Nat
    BY <1>3, SetsFinite, FS_Subset, FS_CardinalityType
  <2> QED
    BY <1>2, <2>1, SetsFinite
<1>4. ASSUME NEW j \in Jobs, DrainDispatch(j) PROVE Cardinality(Dispatched') <= Concurrency
  <2>1. Dispatched' \subseteq Dispatched \cup {n}
    BY <1>4, ClaimIs DEF Claims, Dispatched, Alive
  <2>2. Cardinality(EnteredJobs) < Concurrency
    <3>1. ~(Cardinality(EnteredJobs) >= Concurrency)
      BY <1>4 DEF DrainDispatch, CanClaim, AtCapacity, EnteredJobs
    <3> QED
      BY <1>2, <3>1, SetsFinite
  <2>3. /\ IsFiniteSet(Dispatched \cup {n})
        /\ Cardinality(Dispatched \cup {n}) <= Cardinality(Dispatched) + 1
        /\ Cardinality(Dispatched \cup {n}) \in Nat
    <3> DEFINE D == Dispatched \cup {n}
    <3>1. IsFiniteSet(Dispatched) /\ Cardinality(Dispatched) \in Nat
      BY SetsFinite
    <3>2. /\ IsFiniteSet(D)
          /\ Cardinality(D) = IF n \in Dispatched THEN Cardinality(Dispatched)
                              ELSE Cardinality(Dispatched) + 1
      BY <3>1, FS_AddElement
    <3> HIDE DEF D
    <3> QED
      BY <3>1, <3>2 DEF D
  <2>4. Cardinality(Dispatched') <= Cardinality(Dispatched \cup {n}) /\ Cardinality(Dispatched') \in Nat
    BY <2>1, <2>3, FS_Subset, FS_CardinalityType
  <2>5. Cardinality(Dispatched) <= Cardinality(EnteredJobs)
    BY RunsFitEntries
  <2> QED
    BY <1>2, <2>2, <2>3, <2>4, <2>5, SetsFinite
<1>5. ASSUME NEW j \in Jobs, Claims(j), ~DrainDispatch(j) PROVE Dispatched' \subseteq Dispatched
  BY <1>5, ClaimIs DEF Dispatched, Alive
<1>6. CASE ~\E j \in Jobs : Claims(j)
  <2>1. \A h \in Tokens : Onward(h)
    BY <1>6, StepOnward
  <2>2. Dispatched' \subseteq Dispatched
    BY <2>1 DEF Dispatched, Onward, Present, Alive
  <2> QED
    BY <1>3, <2>2
<1> QED
  BY <1>3, <1>4, <1>5, <1>6

(* A job that is claimed has no living run. *)
LEMMA ClaimedIsFree ==
  ASSUME StaleInv, Entered, Steady \/ Concurrency = 1, NEW j \in Jobs, Claims(j),
         NEW h \in Tokens, Alive(h), run[h].job = j
  PROVE  FALSE
<1>1. CASE Steady
  <2>1. Row(h).status \in {"queued", "awaiting-approval"}
    BY ClaimIs DEF StaleInv, Row
  <2> QED
    BY <1>1, <2>1, NoRunOfWaiting DEF StaleInv
<1>2. CASE Concurrency = 1
  <2>1. j \in EnteredJobs /\ active[j] # NoToken
    BY BoundsAssumption DEF Entered, EnteredJobs
  <2>2. ~BeginApproval(j)
    BY <2>1 DEF BeginApproval
  <2>3. ~(Cardinality(EnteredJobs) >= 1)
    BY <1>2, <2>2 DEF Claims, DrainDispatch, CanClaim, AtCapacity, EnteredJobs
  <2>4. Cardinality(EnteredJobs) = 0
    BY <2>3, SetsFinite DEF StaleInv
  <2>5. EnteredJobs = {}
    BY <2>4, SetsFinite, FS_EmptySet DEF StaleInv
  <2> QED
    BY <2>1, <2>5
<1> QED
  BY <1>1, <1>2

LEMMA InitEntered == Init => Entered /\ Capacity
<1> SUFFICES ASSUME Init PROVE Entered /\ Capacity
  OBVIOUS
<1>1. \A g \in Tokens : ~Alive(g)
  <2>1. NoRun.pc = "none"
    BY DEF NoRun
  <2> QED
    BY <2>1 DEF Init, Alive
<1>2. Dispatched = {}
  BY <1>1 DEF Dispatched
<1>3. Capacity
  BY <1>2, FS_EmptySet, JobsAssumption DEF Capacity, Dispatched
<1> QED
  BY <1>1, <1>3 DEF Entered

(* The runs of a living process, approvals aside, never exceed its concurrency:  *)
(* a job that a living run works on is never claimed again, so that each of     *)
(* them has an entry of its own in the active map, which drain counts.  When    *)
(* leases of live runs may lapse this rests on a concurrency of one.            *)
THEOREM CapacityHolds ==
  ASSUME Steady \/ Concurrency = 1
  PROVE  Spec => []Capacity
<1>1. Init => StaleInv /\ Entered /\ Capacity
  BY InitInv, InitPersisted, InitLife, InitEntered DEF StaleInv
<1>2. StaleInv /\ Entered /\ Capacity /\ [Next]_vars => StaleInv' /\ Entered' /\ Capacity'
  <2> SUFFICES ASSUME StaleInv, Entered, Capacity, [Next]_vars
               PROVE  StaleInv' /\ Entered' /\ Capacity'
    OBVIOUS
  <2>1. StaleInv'
    BY StaleInvStep
  <2>2. \A j \in Jobs : Claims(j) => \A h \in Tokens : Alive(h) => run[h].job # j
    BY ClaimedIsFree
  <2>3. Entered' /\ Capacity'
    BY <2>2, EnteredStep, CapacityStep DEF StaleInv
  <2> QED
    BY <2>1, <2>3
<1> QED
  BY <1>1, <1>2, PTL DEF Spec

---------------------------------------------------------------------------
(* Who works on a job that may not be repeated *)

LEMMA WorkerWorks ==
  ASSUME IInv, NEW g \in Tokens, WorkerStep(g) \/ WorkerCrash(g)
  PROVE  /\ run[g].wk \in LiveWorker /\ run[g].job \in Jobs /\ run[g] \in RunType /\ Good(Row(g))
         /\ \A i \in Jobs \ {run[g].job} : db'[i] = db[i]
         /\ \A i \in Jobs : SameRow(db[i], db'[i])
<1>1. run[g].wk \in LiveWorker
  BY DEF WorkerStep, WorkerBind, WorkerAdmit, WorkerRefused, WorkerStart, WorkerDenied,
         WorkerApproval, WorkerThrows, WorkerReturns, WorkerUncertain, WorkerGraphEnds,
         WorkerSettles, WorkerExits, WorkerCrash, LiveWorker
<1>2. run[g].job \in Jobs /\ run[g] \in RunType /\ Good(Row(g))
  BY <1>1, RunRow DEF LiveWorker
<1>3. PICK r : SameRow(Row(g), r) /\ (SetRow(run[g].job, r) \/ UNCHANGED db)
  BY <1>2, WorkerRows DEF Good
<1>4. /\ \A i \in Jobs \ {run[g].job} : db'[i] = db[i]
      /\ \A i \in Jobs : SameRow(db[i], db'[i])
  BY <1>2, <1>3 DEF SetRow, SameRow, Row, IInv, TypeOK
<1> QED
  BY <1>1, <1>2, <1>4

(* The steps that may write the row of a job. *)
LEMMA RowTouchedBy ==
  ASSUME IInv, [Next]_vars, NEW i \in Jobs, db'[i] # db[i]
  PROVE  \/ \E g \in Tokens : run[g].job = i /\ (WorkerStep(g) \/ Settles(g) \/ RunPersist(g))
         \/ JobStep(i)
         \/ RecoverResults \/ Start \/ RecoveryTimer
<1>1. ASSUME NEW g \in Tokens, RunStep(g)
      PROVE  run[g].job = i /\ (WorkerStep(g) \/ Settles(g) \/ RunPersist(g))
  <2>1. CASE WorkerStep(g)
    BY <2>1, WorkerWorks
  <2>2. CASE Settles(g) \/ RunPersist(g)
    <3>1. run[g].pc # "none"
      BY <2>2 DEF Settles, RunResolved, RunAdopt, RunRejected, RunPersistFails, ApprovalSettle,
                  Answered, MustSettle, RunPersist
    <3>2. run[g].job \in Jobs
      BY <3>1, RunRow
    <3>3. UNCHANGED db \/ \E r : SetRow(run[g].job, r)
      BY <2>2 DEF Settles, RunResolved, RunAdopt, RunRejected, RunPersistFails, ApprovalSettle,
                  Finish, RunPersist
    <3>4. run[g].job = i
      BY <3>2, <3>3 DEF SetRow, IInv, TypeOK
    <3> QED
      BY <2>2, <3>4
  <2>3. CASE ~WorkerStep(g) /\ ~Settles(g) /\ ~RunPersist(g)
    <3>1. \/ WorkerCrash(g) \/ Timeout(g) \/ HeartbeatLost(g) \/ GraceExpires(g) \/ Renew(g)
          \/ Expire(g) \/ ApprovalDispatch(g) \/ RequestAborted(g)
      BY <1>1, <2>3 DEF RunStep, RunSettles, Settles
    <3>2. UNCHANGED db
      BY <3>1 DEF WorkerCrash, Timeout, HeartbeatLost, GraceExpires, Renew, Expire, ApprovalDispatch,
                  RequestAborted, AbortRun
    <3> QED
      BY <3>2
  <2> QED
    BY <2>1, <2>2, <2>3
<1>2. ASSUME NEW j \in Jobs, JobStep(j) PROVE JobStep(i)
  <2>1. \E r : SetRow(j, r)
    BY <1>2 DEF JobStep, Submit, DrainDispatch, DrainFail, Cancel, CancelFenceFails, CancelWith,
                BeginApproval
  <2>2. i = j
    BY <2>1 DEF SetRow, IInv, TypeOK
  <2> QED
    BY <1>2, <2>2
<1>3. ASSUME ProcessStep PROVE RecoverResults \/ Start \/ RecoveryTimer
  BY <1>3 DEF ProcessStep, DrainEnd, Shutdown, ShutdownDone, LoseOwnership, Crash
<1> QED
  BY <1>1, <1>2, <1>3 DEF Next, vars

(* A token that was given a run has a job that was submitted. *)
Submitted == \A g \in Tokens : Taken(g) => Row(g).status # "absent"

(* A worker that outlives its run was killed. *)
OutlivedKilled == \A g \in Tokens : Working(g) /\ ~run[g].killed => Alive(g)

(* When a lease lapses nobody is at work on its job. *)
LapsedIdle ==
  \A g \in expired :
    /\ ~Present(g)
    /\ Row(g).lease = g => \A h \in Tokens : Present(h) => run[h].job # run[g].job

(* Whoever is at work on a job that may not be repeated holds its lease, until   *)
(* the job has ended.                                                          *)
UnsafeHeld ==
  \A g \in Tokens : Present(g) /\ ~Row(g).kind.retrySafe =>
    \/ Row(g).status \in TERMINAL_JOB_STATES
    \/ Row(g).lease = g /\ Row(g).status \in {"running", "cancelling"}

(* ... and is alone. *)
UnsafeAlone ==
  \A g, h \in Tokens :
    Present(g) /\ Present(h) /\ run[g].job = run[h].job /\ ~Row(g).kind.retrySafe => g = h

OwnInv == Submitted /\ OutlivedKilled /\ LapsedIdle /\ UnsafeHeld /\ UnsafeAlone

(* An end of a job is only ever withdrawn for a review. *)
LEMMA EndsStay ==
  ASSUME NEW r, NEW r2, Lawful(r, r2), r.status \in TERMINAL_JOB_STATES
  PROVE  r2.status \in {r.status, "needs-review"}
<1>1. Tell(r.status) = r.status /\ Life!Moves(Tell(r.status)) = {"needs-review"}
  BY DEF Tell, Life!Moves, Life!Ends
<1>2. Tell(r2.status) \in {r.status, "needs-review"}
  BY <1>1 DEF Lawful
<1> QED
  BY <1>2 DEF Tell

(* A job that was submitted stays in the ledger. *)
LEMMA NeverAbsent ==
  ASSUME NEW r \in RowType, NEW r2, Lawful(r, r2), r.status # "absent"
  PROVE  r2.status # "absent"
<1> DEFINE told == Tell(r.status)
<1>1. told \in {"waiting", "running", "cancelling"} \cup TERMINAL_JOB_STATES
  BY DEF RowType, JOB_STATES, Tell
<1> HIDE DEF told
<1>2. "none" \notin Life!Moves(told) /\ told # "none"
  BY <1>1 DEF Life!Moves, Life!Ends
<1>3. Tell(r2.status) # "none"
  BY <1>2 DEF Lawful, told
<1> QED
  BY <1>3 DEF Tell

(* The settlement of a killed run whose tool may not be repeated ends its job. *)
LEMMA KilledEnds ==
  ASSUME IInv, PersistedHolds, NEW h \in Tokens, Settles(h), Working(h), Row(h).lease = h,
         ~Row(h).kind.retrySafe
  PROVE  db'[run[h].job].status \in TERMINAL_JOB_STATES \/ db'[run[h].job] = Row(h)
<1> DEFINE i == run[h].job
           r == Row(h)
<1>1. i \in Jobs /\ r \in RowType /\ r = db[i]
  BY RunRow DEF Working, LiveWorker, Good, Row
<1>2. ~RunResolved(h) /\ ~RunAdopt(h) /\ ~RunPersistFails(h)
  BY DEF RunResolved, RunAdopt, RunPersistFails, PersistedHolds, Working, LiveWorker
<1>3. CASE RunRejected(h)
  <2>1. PICK late : SetRow(i, updateFenced(r, h, CatchStatus(h, late)))
    BY <1>3 DEF RunRejected, Finish
  <2>2. CatchStatus(h, late) \in TERMINAL_JOB_STATES
    BY DEF CatchStatus, RetryLeft
  <2>3. update(r, CatchStatus(h, late)).status \in TERMINAL_JOB_STATES
    BY <1>1, <2>2, UpdateIs DEF TargetStatus, Settled
  <2> HIDE DEF r
  <2>4. db'[i] = update(r, CatchStatus(h, late))
    BY <1>1, <2>1 DEF updateFenced, SetRow, IInv, TypeOK, r
  <2> QED
    BY <2>3, <2>4
<1>4. CASE ApprovalSettle(h)
  <2>1. \/ UNCHANGED db \/ SetRow(i, r)
        \/ \E n, e : SetRow(i, settleApproval(r, run[h].dispatched, n, e))
    BY <1>4 DEF ApprovalSettle
  <2>2. \A n, e : settleApproval(r, run[h].dispatched, n, e).status \in TERMINAL_JOB_STATES
    BY <1>1, SettleApprovalIs
  <2> HIDE DEF r
  <2> QED
    BY <1>1, <2>1, <2>2 DEF SetRow, IInv, TypeOK, r
<1> QED
  BY <1>2, <1>3, <1>4 DEF Settles

LEMMA RowsHold ==
  ASSUME Steady, IInv, LifeInv, PersistedHolds, OwnInv, [Next]_vars, ~\E j \in Jobs : Claims(j),
         NEW h \in Tokens, Present(h), Present(h)', ~Row(h).kind.retrySafe
  PROVE  LET r == db'[run[h].job] IN
         r.status \in TERMINAL_JOB_STATES \/ (r.lease = h /\ r.status \in {"running", "cancelling"})
<1> DEFINE i == run[h].job
           Goal == \/ db'[i].status \in TERMINAL_JOB_STATES
                   \/ db'[i].lease = h /\ db'[i].status \in {"running", "cancelling"}
<1>1. i \in Jobs /\ Row(h) = db[i] /\ db[i] \in RowType /\ Taken(h)
  BY RunRow DEF Present, Alive, Working, LiveWorker, Good, Row, Taken
<1>2. CASE db[i].status \in TERMINAL_JOB_STATES
  <2>1. Lawful(db[i], db'[i])
    BY <1>1, NextLife DEF LifeStep, AllLawful, Steady
  <2> QED
    BY <1>2, <2>1, EndsStay
<1>3. CASE db[i].lease = h /\ db[i].status \in {"running", "cancelling"}
  <2>1. CASE db'[i] = db[i]
    BY <1>3, <2>1
  <2>2. ASSUME NEW g \in Tokens, run[g].job = i, WorkerStep(g) PROVE Goal
    BY <1>1, <1>3, <2>2, WorkerWorks DEF SameRow
  <2>3. ASSUME NEW g \in Tokens, run[g].job = i, Settles(g) PROVE Goal
    <3>1. Alive(g) /\ ~Alive(g)'
      BY <2>3, SettlesEntries
    <3>2. g = h
      BY <2>3, <3>1 DEF OwnInv, UnsafeAlone, Present
    <3>3. Working(h)
      <4>1. run'[h] = Kept([run[h] EXCEPT !.pc = "done"])
        BY <2>3, <3>2 DEF Settles, RunResolved, RunAdopt, RunRejected, RunPersistFails,
                          ApprovalSettle, Finish, IInv, TypeOK
      <4> DEFINE w == [run[h] EXCEPT !.pc = "done"]
      <4>2. w \in RunType /\ w.wk = run[h].wk
        <5>1. run[h] \in RunType
          BY DEF IInv, TypeOK
        <5> QED
          BY <5>1 DEF RunType
      <4>3. run'[h] = Kept(w)
        BY <4>1
      <4> HIDE DEF w
      <4>4. run'[h].wk \in LiveWorker
        BY <3>1, <3>2 DEF Present, Working
      <4> QED
        BY <4>2, <4>3, <4>4, KeptIs DEF Working, LiveWorker
    <3> QED
      BY <1>1, <1>3, <2>3, <3>2, <3>3, KilledEnds
  <2>4. ASSUME NEW g \in Tokens, run[g].job = i, RunPersist(g) PROVE Goal
    <3>1. SetRow(i, [db[i] EXCEPT !.persisted = TRUE])
      BY <2>4 DEF RunPersist, Row
    <3>2. SameRow(db[i], [db[i] EXCEPT !.persisted = TRUE])
      BY <1>1, FlagIs
    <3> QED
      BY <1>1, <1>3, <3>1, <3>2 DEF SetRow, SameRow, IInv, TypeOK
  <2>5. CASE JobStep(i)
    <3>1. Cancel(i) \/ CancelFenceFails(i)
      BY <1>1, <1>3, <2>5 DEF JobStep, Claims, Submit, DrainFail, CanClaim, Oldest, Queued
    <3>2. PICK r : CancelledRow(db[i], r) /\ SetRow(i, r)
      BY <1>1, <3>1, CancelledRowIs DEF Steady, CancelWith
    <3>3. db'[i] = r
      BY <1>1, <3>2 DEF SetRow, IInv, TypeOK
    <3> QED
      BY <1>3, <3>2, <3>3 DEF CancelledRow
  <2>6. CASE Start \/ RecoveryTimer
    <3>1. h # NoToken /\ h \notin expired
      BY BoundsAssumption DEF OwnInv, LapsedIdle
    <3>2. ~NeedsRecovery(db[i], expired)
      BY <1>3, <3>1 DEF NeedsRecovery
    <3>3. db'[i] = db[i]
      BY <1>1, <2>6, <3>2 DEF Start, RecoveryTimer, Recover
    <3> QED
      BY <2>1, <3>3
  <2>7. CASE RecoverResults
    <3>1. db'[i] = RecoveredResult(db[i])
      BY <1>1, <2>7 DEF RecoverResults
    <3>2. update(db[i], "needs-review").status \in TERMINAL_JOB_STATES
      BY <1>1, UpdateIs DEF TargetStatus, Settled
    <3>3. adoptProtectedResult(db[i], FALSE).status \in TERMINAL_JOB_STATES
      BY <1>1, AdoptIs
    <3>4. db'[i] = db[i] \/ db'[i].status \in TERMINAL_JOB_STATES
      BY <3>1, <3>2, <3>3 DEF RecoveredResult
    <3> QED
      BY <2>1, <3>4
  <2> QED
    BY <1>1, <2>1, <2>2, <2>3, <2>4, <2>5, <2>6, <2>7, RowTouchedBy
<1> QED
  BY <1>1, <1>2, <1>3 DEF OwnInv, UnsafeHeld

(* No step but a claim leases a job. *)
LEMMA LeaseKept ==
  ASSUME IInv, NoUnsafeRetry, [Next]_vars, NEW i \in Jobs, ~Claims(i)
  PROVE  db'[i].lease \in {db[i].lease, NoToken}
<1> DEFINE Goal == db'[i].lease \in {db[i].lease, NoToken}
<1>1. db[i] \in RowType
  BY DEF IInv, TypeOK
<1>2. CASE db'[i] = db[i]
  BY <1>2
<1>3. ASSUME NEW g \in Tokens, run[g].job = i, WorkerStep(g) PROVE Goal
  BY <1>3, WorkerWorks DEF SameRow
<1>4. ASSUME NEW g \in Tokens, run[g].job = i, Settles(g) PROVE Goal
  <2>1. UNCHANGED db \/ \E r : SetRow(i, r) /\ r.lease \in {db[i].lease, NoToken}
    <3>1. CASE RunResolved(g) \/ RunRejected(g) \/ RunPersistFails(g)
      <4>1. PICK requested : SetRow(i, updateFenced(db[i], g, requested))
        BY <1>4, <3>1 DEF RunResolved, RunRejected, RunPersistFails, Finish, Row
      <4> QED
        BY <1>1, <4>1, UpdateRowIs DEF updateFenced
    <3>2. CASE RunAdopt(g)
      BY <1>1, <1>4, <3>2, AdoptIs DEF RunAdopt, Finish, Row
    <3>3. CASE ApprovalSettle(g)
      <4>1. \/ UNCHANGED db \/ SetRow(i, db[i])
            \/ \E n, e : SetRow(i, settleApproval(db[i], run[g].dispatched, n, e))
        BY <1>4, <3>3 DEF ApprovalSettle, Row
      <4> QED
        BY <1>1, <4>1, SettleApprovalIs
    <3> QED
      BY <1>4, <3>1, <3>2, <3>3 DEF Settles
  <2> QED
    BY <2>1 DEF SetRow, IInv, TypeOK
<1>5. ASSUME NEW g \in Tokens, run[g].job = i, RunPersist(g) PROVE Goal
  BY <1>1, <1>5, FlagIs DEF RunPersist, Row, SetRow, SameRow, IInv, TypeOK
<1>6. CASE JobStep(i)
  <2>1. \E r : SetRow(i, r) /\ r.lease \in {db[i].lease, NoToken}
    <3>1. CASE Submits(i)
      BY <1>1, <3>1, CreateIs DEF Submits, Submit
    <3>2. CASE DrainFail(i)
      <4> DEFINE c == claimNextQueued(db[i], issued + 1)
      <4>1. SetRow(i, update(c, "failed"))
        BY <3>2 DEF DrainFail
      <4>2. c \in RowType
        BY <3>2, Parts, RowIsGood, NewToken, LeaseGood
        DEF DrainFail, CanClaim, Oldest, Queued, Good, LedgerConsistent, RestOK
      <4> HIDE DEF c
      <4> QED
        BY <4>1, <4>2, UpdateRowIs
    <3>3. CASE Cancel(i) \/ CancelFenceFails(i)
      BY <3>3, CancelledRowIs DEF CancelledRow, CancelWith
    <3> QED
      BY <1>6, <3>1, <3>2, <3>3 DEF JobStep, Claims, Submits
  <2> QED
    BY <2>1 DEF SetRow, IInv, TypeOK
<1>7. CASE Start \/ RecoveryTimer
  <2>1. db'[i] \in {db[i], recover(db[i])}
    BY <1>7 DEF Start, RecoveryTimer, Recover
  <2> QED
    BY <1>1, <2>1, RecoverIs
<1>8. CASE RecoverResults
  <2>1. db'[i] = RecoveredResult(db[i])
    BY <1>8 DEF RecoverResults
  <2>2. update(db[i], "needs-review").lease = NoToken
    BY <1>1, UpdateRowIs
  <2>3. adoptProtectedResult(db[i], FALSE).lease = NoToken
    BY <1>1, AdoptIs
  <2> QED
    BY <2>1, <2>2, <2>3 DEF RecoveredResult
<1> QED
  BY <1>2, <1>3, <1>4, <1>5, <1>6, <1>7, <1>8, RowTouchedBy

(* A lease lapses by the passing of time, and in no other step. *)
LEMMA LapsesBy ==
  ASSUME [Next]_vars, NEW g \in Tokens, g \notin expired, g \in expired'
  PROVE  Expire(g)
<1>1. expired' # expired
  OBVIOUS
<1>2. ASSUME NEW h \in Tokens, RunStep(h) PROVE Expire(h) \/ Renew(h)
  <2>1. ~WorkerStep(h) /\ ~WorkerCrash(h)
    BY <1>1 DEF WorkerStep, WorkerBind, WorkerAdmit, WorkerRefused, WorkerStart, WorkerDenied,
           WorkerApproval, WorkerThrows, WorkerReturns, WorkerUncertain, WorkerGraphEnds,
           WorkerSettles, WorkerExits, WorkerCrash, UnchangedSupervisor
  <2>2. ~RunSettles(h) /\ ~RunPersistFails(h) /\ ~ApprovalSettle(h)
    BY <1>1 DEF RunSettles, RunResolved, RunPersist, RunAdopt, RunRejected, RunPersistFails,
                ApprovalSettle, Finish, UnchangedWorld
  <2>3. ~(Timeout(h) \/ HeartbeatLost(h) \/ GraceExpires(h) \/ ApprovalDispatch(h) \/ RequestAborted(h))
    BY <1>1 DEF Timeout, HeartbeatLost, GraceExpires, ApprovalDispatch, RequestAborted, AbortRun,
                UnchangedWorld
  <2> QED
    BY <1>2, <2>1, <2>2, <2>3 DEF RunStep
<1>3. \A j \in Jobs : ~JobStep(j)
  BY <1>1 DEF JobStep, Submit, DrainDispatch, DrainFail, Cancel, CancelFenceFails, CancelWith,
              BeginApproval, UnchangedWorld
<1>4. ~ProcessStep
  BY <1>1 DEF ProcessStep, DrainEnd, Shutdown, ShutdownDone, LoseOwnership, Crash, RecoverResults,
              Start, RecoveryTimer, UnchangedWorld
<1>5. PICK h \in Tokens : Expire(h) \/ Renew(h)
  BY <1>1, <1>2, <1>3, <1>4 DEF Next, vars
<1> QED
  BY <1>5 DEF Expire, Renew

(* What a claim finds: nobody at work on a job that may not be repeated. *)
LEMMA ClaimedAlone ==
  ASSUME IInv, OwnInv, NEW j \in Jobs, Claims(j), NEW h \in Tokens, Present(h), run[h].job = j
  PROVE  db[j].kind.retrySafe
<1>1. db[j].status \in {"queued", "awaiting-approval"} /\ Row(h) = db[j]
  BY ClaimIs DEF Row
<1> QED
  BY <1>1 DEF OwnInv, UnsafeHeld

(* The row a claim writes. *)
LEMMA ClaimedRow ==
  ASSUME IInv, NEW j \in Jobs, Claims(j)
  PROVE  /\ db'[j].lease = issued + 1 /\ db'[j].status = "running" /\ db'[j].kind = db[j].kind
         /\ db'[j].num = db[j].num /\ db'[j].state = db[j].state /\ db'[j].owner = db[j].owner
         /\ db'[j].audited = db[j].audited /\ db'[j].persisted = db[j].persisted
         /\ db'[j].attempts = IF DrainDispatch(j) THEN db[j].attempts + 1 ELSE db[j].attempts
         /\ \A i \in Jobs \ {j} : db'[i] = db[i]
<1>1. db[j] \in RowType
  BY DEF IInv, TypeOK
<1>2. SetRow(j, IF DrainDispatch(j) THEN claimNextQueued(db[j], issued + 1)
                ELSE Lease(db[j], issued + 1))
  BY ClaimIs
<1>3. db'[j] = (IF DrainDispatch(j) THEN claimNextQueued(db[j], issued + 1)
               ELSE Lease(db[j], issued + 1))
      /\ \A i \in Jobs \ {j} : db'[i] = db[i]
  BY <1>2 DEF SetRow, IInv, TypeOK
<1> QED
  BY <1>1, <1>3, LeaseIs DEF Alike

LEMMA OwnInvStep ==
  ASSUME Steady, IInv, LifeInv, PersistedHolds, OwnInv, [Next]_vars
  PROVE  OwnInv'
<1>1. LifeInv' /\ AllLawful /\ IInv'
  BY NextLife, NextInv DEF LifeStep, Steady
<1>2. ASSUME NEW j \in Jobs, Claims(j) PROVE OwnInv'
  <2> DEFINE n == issued + 1
  <2>1. /\ n \in Tokens /\ run'[n].job = j /\ run'[n].pc = "exec" /\ expired' = expired
        /\ issued \in Nat /\ \A h \in Tokens \ {n} : run'[h] = run[h]
    BY <1>2, ClaimIs
  <2>2. /\ db'[j].lease = n /\ db'[j].status = "running" /\ db'[j].kind = db[j].kind
        /\ \A i \in Jobs \ {j} : db'[i] = db[i]
    BY <1>2, ClaimedRow
  <2>3. \A h \in Tokens \ {n} : (Present(h)' <=> Present(h)) /\ (Alive(h)' <=> Alive(h))
                                /\ (Taken(h)' <=> Taken(h)) /\ (Working(h)' <=> Working(h))
    BY <2>1 DEF Present, Alive, Working, Taken
  <2>4. \A h \in Tokens : Taken(h)' => run'[h].job \in Jobs
    BY <1>1, RunRow DEF IInv, RunsHaveJobs, Taken
  <2>5. \A h \in Tokens : Present(h)' => Taken(h)'
    BY DEF Present, Alive, Working, LiveWorker, Taken
  <2>6. \A h \in Tokens \ {n} : Present(h) /\ run[h].job = j => db[j].kind.retrySafe
    BY <1>2, ClaimedAlone
  <2>7. Submitted'
    <3> SUFFICES ASSUME NEW g \in Tokens, Taken(g)' PROVE db'[run'[g].job].status # "absent"
      BY DEF Submitted, Row, Taken
    <3>1. CASE g = n
      BY <2>1, <2>2, <3>1
    <3>2. CASE g # n
      BY <2>1, <2>2, <2>3, <2>4, <3>2 DEF OwnInv, Submitted, Row
    <3> QED
      BY <3>1, <3>2
  <2>8. OutlivedKilled'
    BY <2>1, <2>3 DEF OwnInv, OutlivedKilled, Alive
  <2>9. LapsedIdle'
    <3> SUFFICES ASSUME NEW g \in expired
                 PROVE  /\ ~Present(g)'
                        /\ db'[run'[g].job].lease = g =>
                             \A h \in Tokens : Present(h)' => run'[h].job # run'[g].job
      BY <2>1 DEF LapsedIdle, Row, Present, Alive, Working
    <3>1. g \in Tokens /\ g # n
      BY <2>1 DEF IInv, TypeOK, LifeInv, FreshTokens
    <3>2. ~Present(g)'
      BY <2>3, <3>1 DEF OwnInv, LapsedIdle
    <3>3. ASSUME db'[run'[g].job].lease = g, NEW h \in Tokens, Present(h)', run'[h].job = run'[g].job
          PROVE  FALSE
      <4>1. run[g].job \in Jobs /\ run'[g].job = run[g].job
        BY <2>1, <2>4, <2>5, <3>1, <3>3
      <4>2. run[g].job # j /\ h # n /\ db'[run[g].job] = db[run[g].job]
        BY <2>1, <2>2, <3>1, <3>3, <4>1
      <4>3. Present(h) /\ run[h].job = run[g].job /\ Row(g).lease = g
        BY <2>1, <2>3, <3>3, <4>1, <4>2 DEF Row
      <4> QED
        BY <4>3 DEF OwnInv, LapsedIdle
    <3> QED
      BY <3>2, <3>3
  <2>10. UnsafeHeld'
    <3> SUFFICES ASSUME NEW g \in Tokens, Present(g)', ~db'[run'[g].job].kind.retrySafe
                 PROVE  LET r == db'[run'[g].job] IN
                        \/ r.status \in TERMINAL_JOB_STATES
                        \/ r.lease = g /\ r.status \in {"running", "cancelling"}
      BY DEF UnsafeHeld, Row, Present, Alive, Working
    <3>1. CASE g = n
      BY <2>1, <2>2, <3>1
    <3>2. CASE g # n
      <4>1. Present(g) /\ run'[g].job = run[g].job /\ run[g].job \in Jobs /\ run[g].job # j
        BY <2>1, <2>2, <2>3, <2>4, <2>5, <2>6, <3>2
      <4> QED
        BY <2>2, <4>1 DEF OwnInv, UnsafeHeld, Row
    <3> QED
      BY <3>1, <3>2
  <2>11. UnsafeAlone'
    <3> SUFFICES ASSUME NEW g \in Tokens, NEW h \in Tokens, Present(g)', Present(h)',
                        run'[g].job = run'[h].job, ~db'[run'[g].job].kind.retrySafe
                 PROVE  g = h
      BY DEF UnsafeAlone, Row, Present, Alive, Working
    <3>1. CASE g = n \/ h = n
      BY <2>1, <2>2, <2>3, <2>6, <3>1
    <3>2. CASE g # n /\ h # n
      <4>1. Present(g) /\ Present(h) /\ run[g].job = run[h].job /\ run[g].job \in Jobs
        BY <2>1, <2>3, <2>4, <2>5, <3>2
      <4>2. db'[run[g].job].kind = db[run[g].job].kind
        BY <2>2, <4>1
      <4> QED
        BY <2>1, <3>2, <4>1, <4>2 DEF OwnInv, UnsafeAlone, Row
    <3> QED
      BY <3>1, <3>2
  <2> QED
    BY <2>7, <2>8, <2>9, <2>10, <2>11 DEF OwnInv
<1>3. CASE ~\E j \in Jobs : Claims(j)
  <2>1. \A g \in Tokens : Onward(g)
    BY <1>3, StepOnward
  <2>2. \A g \in Tokens : /\ run'[g].job = run[g].job
                          /\ Taken(g)' => Taken(g) /\ run[g].job \in Jobs
                          /\ Present(g)' => Present(g) /\ Taken(g)'
    BY <2>1, RunRow DEF Onward, Taken, Present, Alive, Working, LiveWorker
  <2>3. ASSUME NEW i \in Jobs, db[i].status # "absent" PROVE db'[i].status # "absent"
    <3>1. db[i] \in RowType /\ Lawful(db[i], db'[i])
      BY <1>1 DEF AllLawful, IInv, TypeOK
    <3> QED
      BY <2>3, <3>1, NeverAbsent
  <2>4. Submitted'
    BY <2>2, <2>3 DEF OwnInv, Submitted, Row, Taken
  <2>5. OutlivedKilled'
    BY <2>1 DEF OwnInv, OutlivedKilled, Onward, Working, Alive
  <2>6. LapsedIdle'
    <3> SUFFICES ASSUME NEW g \in expired'
                 PROVE  /\ ~Present(g)'
                        /\ db'[run'[g].job].lease = g =>
                             \A h \in Tokens : Present(h)' => run'[h].job # run'[g].job
      BY DEF LapsedIdle, Row, Present, Alive, Working
    <3>1. g \in Tokens /\ g # NoToken
      BY <1>1, BoundsAssumption DEF IInv, TypeOK
    <3>2. CASE g \in expired
      <4>1. ~Present(g)'
        BY <2>2, <3>1, <3>2 DEF OwnInv, LapsedIdle
      <4>2. ASSUME db'[run'[g].job].lease = g, NEW h \in Tokens, Present(h)',
                   run'[h].job = run'[g].job
            PROVE  FALSE
        <5>1. Present(h) /\ run[h].job = run[g].job /\ run[g].job \in Jobs
          BY <2>2, <3>1, <4>2
        <5>2. db'[run[g].job].lease \in {db[run[g].job].lease, NoToken}
          BY <1>3, <5>1, LeaseKept DEF Steady
        <5>3. Row(g).lease = g
          BY <2>2, <3>1, <4>2, <5>2 DEF Row
        <5> QED
          BY <3>2, <5>1, <5>3 DEF OwnInv, LapsedIdle
      <4> QED
        BY <4>1, <4>2
    <3>3. CASE g \notin expired
      <4>1. Expire(g)
        BY <3>1, <3>3, LapsesBy
      <4>2. /\ Row(g).lease = g /\ ~Alive(g) /\ UNCHANGED <<db, run>>
            /\ \A h \in Tokens : run[h].killed => ~Working(h)
        BY <4>1 DEF Expire, Steady, Working
      <4>3. \A h \in Tokens : Present(h) => Alive(h)
        BY <4>2 DEF Present, OwnInv, OutlivedKilled
      <4>4. ~Present(g)'
        BY <3>1, <2>2, <4>2, <4>3
      <4>5. ASSUME NEW h \in Tokens, Present(h)', run'[h].job = run'[g].job PROVE FALSE
        <5>1. Alive(h) /\ run[h].job = run[g].job
          BY <2>2, <3>1, <4>3, <4>5
        <5>2. Row(h) = Row(g) /\ Governed(h)
          BY <5>1 DEF Row, LifeInv, RunsGoverned
        <5> QED
          BY <3>1, <4>2, <5>1, <5>2 DEF Governed
      <4> QED
        BY <4>4, <4>5
    <3> QED
      BY <3>2, <3>3
  <2>7. ASSUME NEW g \in Tokens, Present(g)' PROVE db'[run[g].job].kind = Row(g).kind
    <3>1. Taken(g) /\ run[g].job \in Jobs
      BY <2>2, <2>7
    <3>2. ~Submits(run[g].job)
      BY <3>1 DEF OwnInv, Submitted, Row, Submits, Submit
    <3> QED
      BY <3>1, <3>2, RowsGrow DEF Grown, Row
  <2>8. UnsafeHeld'
    <3> SUFFICES ASSUME NEW g \in Tokens, Present(g)', ~db'[run'[g].job].kind.retrySafe
                 PROVE  LET r == db'[run'[g].job] IN
                        \/ r.status \in TERMINAL_JOB_STATES
                        \/ r.lease = g /\ r.status \in {"running", "cancelling"}
      BY DEF UnsafeHeld, Row, Present, Alive, Working
    <3> QED
      BY <1>3, <2>2, <2>7, RowsHold
  <2>9. UnsafeAlone'
    <3> SUFFICES ASSUME NEW g \in Tokens, NEW h \in Tokens, Present(g)', Present(h)',
                        run'[g].job = run'[h].job, ~db'[run'[g].job].kind.retrySafe
                 PROVE  g = h
      BY DEF UnsafeAlone, Row, Present, Alive, Working
    <3> QED
      BY <2>2, <2>7 DEF OwnInv, UnsafeAlone
  <2> QED
    BY <2>4, <2>5, <2>6, <2>8, <2>9 DEF OwnInv
<1> QED
  BY <1>2, <1>3

LEMMA InitOwn == Init => OwnInv
<1>1. NoRun.pc = "none" /\ NoRun.wk = "none"
  BY DEF NoRun
<1> QED
  BY <1>1 DEF Init, OwnInv, Submitted, OutlivedKilled, LapsedIdle, UnsafeHeld, UnsafeAlone, Present,
              Alive, Working, LiveWorker, Taken

LEMMA OwnSingle ==
  ASSUME IInv, LifeInv, OwnInv
  PROVE  SingleOwner
<1>1. ASSUME NEW g \in Tokens, NEW h \in Tokens, g # h, Working(g), Working(h), run[g].job = run[h].job
      PROVE  Row(g).kind.retrySafe /\ (run[g].killed \/ run[h].killed)
  BY <1>1, OneRunEach DEF OwnInv, UnsafeAlone, OutlivedKilled, Present
<1>2. ASSUME NEW g \in Tokens, run[g].pc = "exec", run[g].abort = "none" PROVE Row(g).lease = g
  BY <1>2 DEF LifeInv, RunsGoverned, Governed, Alive, Heeds
<1> QED
  BY <1>1, <1>2 DEF SingleOwner

(* While no lease of a live run lapses, a job whose tool may not be repeated has *)
(* one worker process at most, live or killed, and two workers of another are   *)
(* never both unaware that they are to stop; a run that was not told to stop    *)
(* has the lease of its job.  The invariant says who may be at work on a job:   *)
(* whoever holds its lease, and nobody once that lease has lapsed (recover,     *)
(* renewLease, createIsolatedTaskExecutor).                                    *)
THEOREM SingleOwnerHolds ==
  ASSUME Steady
  PROVE  Spec => []SingleOwner
<1> DEFINE Inv == IInv /\ LifeInv /\ PersistedHolds /\ OwnInv
<1>1. Init => Inv
  BY InitInv, InitLife, InitPersisted, InitOwn
<1>2. Inv /\ [Next]_vars => Inv'
  <2> SUFFICES ASSUME Inv, [Next]_vars PROVE Inv'
    OBVIOUS
  <2>1. IInv' /\ LifeInv' /\ PersistedHolds' /\ OwnInv'
    BY NextInv, NextLife, PersistedStep, OwnInvStep DEF Steady, LifeStep
  <2> QED
    BY <2>1
<1>3. Inv => SingleOwner
  BY OwnSingle
<1> QED
  BY <1>1, <1>2, <1>3, PTL DEF Spec

---------------------------------------------------------------------------
(* What the other steps leave of a run at work *)

(* A run at work keeps its worker, unless that dies, and its attempt; it may    *)
(* only be told to stop, or end.                                               *)
Unmoved(h) ==
  Present(h)' =>
    /\ Present(h) /\ run'[h].job = run[h].job /\ run'[h].mode = run[h].mode
    /\ run'[h].att = run[h].att /\ run'[h].dispatched = run[h].dispatched
    /\ run'[h].wk = run[h].wk \/ (run'[h].wk = "dead" /\ run[h].wk \in LiveWorker)
    /\ Alive(h)' => Alive(h)
    /\ run'[h].abort = "none" => run[h].abort = "none"

(* The run w that a step leaves of the token h, before it may be forgotten. *)
LEMMA UnmovedBy ==
  ASSUME NEW h \in Tokens, NEW w \in RunType, run'[h] = w \/ run'[h] = Kept(w),
         w.job = run[h].job, w.mode = run[h].mode, w.att = run[h].att,
         w.dispatched = run[h].dispatched,
         w.wk = run[h].wk \/ (w.wk = "dead" /\ run[h].wk \in LiveWorker),
         w.pc \in {"exec", "persisted"} => Alive(h),
         w.abort = "none" => run[h].abort = "none"
  PROVE  Unmoved(h)
<1>1. CASE run'[h] = w
  BY <1>1 DEF Unmoved, Present, Alive, Working, LiveWorker
<1>2. CASE run'[h] # w
  <2>1. run'[h].pc = "done" /\ run'[h].wk = "none"
    BY <1>2, KeptIs
  <2> QED
    BY <2>1 DEF Unmoved, Present, Alive, Working, LiveWorker
<1> QED
  BY <1>1, <1>2

LEMMA StillUnmoved == ASSUME NEW h \in Tokens, run'[h] = run[h] PROVE Unmoved(h)
  BY DEF Unmoved, Present, Alive, Working

LEMMA AbortUnmoved ==
  ASSUME IInv, NEW h \in Tokens, NEW reason, reason # "none", run'[h] = Abort(run[h], reason)
  PROVE  Unmoved(h)
<1>1. run[h] \in RunType
  BY DEF IInv, TypeOK
<1> DEFINE a == Abort(run[h], reason)
<1>2. a.job = run[h].job /\ a.pc = run[h].pc /\ a.mode = run[h].mode /\ a.wk = run[h].wk
      /\ a.abort # "none"
  BY <1>1, AbortIs
<1>3. a.att = run[h].att /\ a.dispatched = run[h].dispatched
  BY <1>1 DEF Abort, RunType
<1> HIDE DEF a
<1>4. run'[h] = a
  BY DEF a
<1> QED
  BY <1>2, <1>3, <1>4 DEF Unmoved, Present, Alive, Working

LEMMA OthersUnmoved ==
  ASSUME IInv, [Next]_vars, ~\E j \in Jobs : Claims(j), NEW h \in Tokens,
         ~WorkerStep(h), ~ApprovalDispatch(h)
  PROVE  Unmoved(h)
<1>1. run[h] \in RunType
  BY DEF IInv, TypeOK
<1>2. ASSUME NEW g \in Tokens, RunStep(g), g # h PROVE Unmoved(h)
  BY <1>2, OtherRuns, StillUnmoved
<1>3. CASE RunStep(h)
  <2>1. CASE WorkerCrash(h)
    <3> DEFINE w == [run[h] EXCEPT !.wk = "dead"]
    <3>1. /\ w \in RunType /\ w.job = run[h].job /\ w.mode = run[h].mode /\ w.att = run[h].att
          /\ w.dispatched = run[h].dispatched /\ w.wk = "dead" /\ w.pc = run[h].pc
          /\ w.abort = run[h].abort
      BY <1>1 DEF RunType
    <3>2. run'[h] = Kept(w) /\ run[h].wk \in LiveWorker
      BY <2>1 DEF WorkerCrash, WorkerGoes, IInv, TypeOK
    <3> HIDE DEF w
    <3> QED
      BY <3>1, <3>2, UnmovedBy DEF Alive
  <2>2. CASE Settles(h)
    <3> DEFINE w == [run[h] EXCEPT !.pc = "done"]
    <3>1. /\ w \in RunType /\ w.job = run[h].job /\ w.mode = run[h].mode /\ w.att = run[h].att
          /\ w.dispatched = run[h].dispatched /\ w.wk = run[h].wk /\ w.pc = "done"
          /\ w.abort = run[h].abort
      BY <1>1 DEF RunType
    <3>2. run'[h] = Kept(w)
      BY <2>2 DEF Settles, RunResolved, RunAdopt, RunRejected, RunPersistFails, ApprovalSettle,
                  Finish, IInv, TypeOK
    <3> HIDE DEF w
    <3> QED
      BY <3>1, <3>2, UnmovedBy
  <2>3. CASE RunPersist(h)
    <3> DEFINE w == [run[h] EXCEPT !.pc = "persisted"]
    <3>1. /\ w \in RunType /\ w.job = run[h].job /\ w.mode = run[h].mode /\ w.att = run[h].att
          /\ w.dispatched = run[h].dispatched /\ w.wk = run[h].wk /\ w.abort = run[h].abort
      BY <1>1 DEF RunType
    <3>2. run'[h] = w /\ Alive(h)
      BY <2>3 DEF RunPersist, Answered, Alive, IInv, TypeOK
    <3> HIDE DEF w
    <3> QED
      BY <3>1, <3>2, UnmovedBy
  <2>4. CASE Timeout(h) \/ HeartbeatLost(h)
    <3>1. \E reason \in {"timeout", "lease"} : run'[h] = Abort(run[h], reason)
      BY <2>4 DEF Timeout, HeartbeatLost, AbortRun, IInv, TypeOK
    <3> QED
      BY <3>1, AbortUnmoved
  <2>5. CASE GraceExpires(h) \/ RequestAborted(h)
    <3> DEFINE w == [run[h] EXCEPT !.killed = TRUE]
    <3>1. /\ w \in RunType /\ w.job = run[h].job /\ w.mode = run[h].mode /\ w.att = run[h].att
          /\ w.dispatched = run[h].dispatched /\ w.wk = run[h].wk /\ w.pc = run[h].pc
          /\ w.abort = run[h].abort
      BY <1>1 DEF RunType
    <3>2. run'[h] = w
      BY <2>5 DEF GraceExpires, RequestAborted, IInv, TypeOK
    <3> HIDE DEF w
    <3> QED
      BY <3>1, <3>2, UnmovedBy DEF Alive
  <2>6. CASE Renew(h) \/ Expire(h)
    BY <2>6, StillUnmoved DEF Renew, Expire
  <2> QED
    BY <1>3, <2>1, <2>2, <2>3, <2>4, <2>5, <2>6 DEF RunStep, RunSettles, Settles
<1>4. ASSUME NEW j \in Jobs, JobStep(j) PROVE Unmoved(h)
  <2>1. CASE Submits(j) \/ DrainFail(j)
    BY <2>1, StillUnmoved DEF Submits, Submit, DrainFail
  <2>2. CASE Cancel(j) \/ CancelFenceFails(j)
    <3>1. run'[h] = run[h] \/ run'[h] = Abort(run[h], "cancel")
      BY <2>2 DEF Cancel, CancelFenceFails, CancelWith, IInv, TypeOK
    <3> QED
      BY <3>1, AbortUnmoved, StillUnmoved
  <2> QED
    BY <1>4, <2>1, <2>2 DEF JobStep, Claims, Submits
<1>5. CASE ProcessStep
  <2>1. CASE DrainEnd \/ RecoverResults \/ Start \/ RecoveryTimer
    BY <2>1, StillUnmoved DEF DrainEnd, RecoverResults, Start, RecoveryTimer
  <2>2. CASE Shutdown
    <3>1. run'[h] = run[h] \/ run'[h] = Abort(run[h], "shutdown")
      BY <2>2 DEF Shutdown
    <3> QED
      BY <3>1, AbortUnmoved, StillUnmoved
  <2>3. CASE LoseOwnership
    <3> DEFINE w == [run[h] EXCEPT !.killed = TRUE]
    <3>1. /\ w \in RunType /\ w.job = run[h].job /\ w.mode = run[h].mode /\ w.att = run[h].att
          /\ w.dispatched = run[h].dispatched /\ w.wk = run[h].wk /\ w.pc = run[h].pc
          /\ w.abort = run[h].abort
      BY <1>1 DEF RunType
    <3>2. run'[h] = run[h] \/ run'[h] = w
      BY <2>3 DEF LoseOwnership
    <3> HIDE DEF w
    <3> QED
      BY <3>1, <3>2, UnmovedBy, StillUnmoved DEF Alive
  <2>4. CASE ShutdownDone \/ Crash
    <3> DEFINE w == [run[h] EXCEPT !.pc = "lost", !.killed = TRUE]
    <3>1. /\ w \in RunType /\ w.job = run[h].job /\ w.mode = run[h].mode /\ w.att = run[h].att
          /\ w.dispatched = run[h].dispatched /\ w.wk = run[h].wk /\ w.pc = "lost"
          /\ w.abort = run[h].abort
      BY <1>1 DEF RunType
    <3>2. run'[h] = run[h] \/ run'[h] = Kept(w)
      BY <2>4 DEF ShutdownDone, Crash
    <3> HIDE DEF w
    <3> QED
      BY <3>1, <3>2, UnmovedBy, StillUnmoved
  <2> QED
    BY <1>5, <2>1, <2>2, <2>3, <2>4 DEF ProcessStep
<1>6. CASE UNCHANGED vars
  BY <1>6, StillUnmoved DEF vars
<1> QED
  BY <1>2, <1>3, <1>4, <1>5, <1>6 DEF Next

(* Only its worker starts the effect of a job, and knows what became of it. *)
LEMMA GhostsKept ==
  ASSUME IInv, [Next]_vars, NEW i \in Jobs, \A g \in Tokens : run[g].job = i => ~WorkerStep(g)
  PROVE  dispatches'[i] = dispatches[i] /\ outcome'[i] = outcome[i]
<1>1. ASSUME NEW g \in Tokens, WorkerStep(g)
      PROVE  dispatches'[i] = dispatches[i] /\ outcome'[i] = outcome[i]
  <2>1. run[g].job # i /\ run[g].job \in Jobs
    BY <1>1, WorkerWorks
  <2>2. /\ dispatches' = dispatches \/ dispatches' = [dispatches EXCEPT ![run[g].job] = @ + 1]
        /\ outcome' = outcome \/ \E what : outcome' = [outcome EXCEPT ![run[g].job] = what]
    BY <1>1 DEF WorkerStep, WorkerBind, WorkerAdmit, WorkerRefused, WorkerStart, WorkerDenied,
           WorkerApproval, WorkerThrows, WorkerReturns, WorkerUncertain, WorkerGraphEnds,
           WorkerSettles, WorkerExits, KnownOutcome
  <2> QED
    BY <2>1, <2>2 DEF IInv, TypeOK
<1>2. ASSUME NEW g \in Tokens, RunStep(g), ~WorkerStep(g) PROVE UNCHANGED <<dispatches, outcome>>
  BY <1>2 DEF RunStep, WorkerCrash, RunSettles, RunResolved, RunPersist, RunAdopt, RunRejected,
              RunPersistFails, ApprovalSettle, Finish, Timeout, HeartbeatLost, GraceExpires, Renew,
              Expire, ApprovalDispatch, RequestAborted, AbortRun, UnchangedWorld
<1>3. ASSUME NEW j \in Jobs, JobStep(j) PROVE UNCHANGED <<dispatches, outcome>>
  BY <1>3 DEF JobStep, Submit, DrainDispatch, DrainFail, Cancel, CancelFenceFails, CancelWith,
              BeginApproval, UnchangedWorld
<1>4. CASE ProcessStep
  BY <1>4 DEF ProcessStep, DrainEnd, Shutdown, ShutdownDone, LoseOwnership, Crash, RecoverResults,
              Start, RecoveryTimer, UnchangedWorld
<1> QED
  BY <1>1, <1>2, <1>3, <1>4 DEF Next, vars

---------------------------------------------------------------------------
(* How a job moves *)

Kin(r, r2) ==
  /\ r2.kind = r.kind /\ r2.num = r.num /\ r2.audited = r.audited /\ r2.persisted = r.persisted
  /\ r2.attempts \in {r.attempts, r.attempts + 1}

(* The attempt follows its job to the end, and an end of its own goes before. *)
Ended(r, r2) ==
  /\ r2.status \in TERMINAL_JOB_STATES
  /\ r2.state = MovedState(r, r2.status)
  /\ Settled(r) => r2.status \in {r.state, "needs-review"}

LEMMA UpdateEnds ==
  ASSUME NEW r \in RowType, NEW requested
  PROVE  LET m == update(r, requested) IN
         /\ Kin(r, m)
         /\ requested \in TERMINAL_JOB_STATES =>
              Ended(r, m) /\ (~Settled(r) => m.status = requested)
         /\ requested \notin TERMINAL_JOB_STATES => m.status = requested /\ m.state = r.state
<1> DEFINE m == update(r, requested)
<1>1. /\ Alike(r, m) /\ m.status = TargetStatus(r, requested)
      /\ m.state = IF m.status \in TERMINAL_JOB_STATES THEN MovedState(r, m.status) ELSE r.state
  BY UpdateRowIs
<1> HIDE DEF m
<1>2. Kin(r, m)
  BY <1>1 DEF Alike, Kin
<1>3. requested \in TERMINAL_JOB_STATES => Ended(r, m) /\ (~Settled(r) => m.status = requested)
  BY <1>1 DEF TargetStatus, Ended, Settled
<1>4. requested \notin TERMINAL_JOB_STATES => m.status = requested /\ m.state = r.state
  BY <1>1 DEF TargetStatus
<1> QED
  BY <1>2, <1>3, <1>4 DEF m

LEMMA SettlementEnds ==
  ASSUME NEW r \in RowType
  PROVE  /\ LET m == updateKeepingLease(r, "needs-review") IN
            Kin(r, m) /\ Ended(r, m) /\ m.status = "needs-review"
         /\ LET m == adoptProtectedResult(r, FALSE) IN
            Kin(r, m) /\ Ended(r, m) /\ m.status \in {"completed", "needs-review"}
<1>1. /\ LET m == updateKeepingLease(r, "needs-review") IN
         Kin(r, m) /\ Ended(r, m) /\ m.status = "needs-review"
  BY QuarantineIs DEF Kin, Alike, Ended
<1>2. LET m == adoptProtectedResult(r, FALSE) IN
      Kin(r, m) /\ Ended(r, m) /\ m.status \in {"completed", "needs-review"}
  <2> DEFINE m == adoptProtectedResult(r, FALSE)
  <2>1. /\ Alike(r, m) /\ m.state = MovedState(r, m.status)
        /\ m.status = IF CanAdopt(r, FALSE) THEN "completed" ELSE "needs-review"
    BY AdoptIs
  <2> HIDE DEF m
  <2>2. Kin(r, m) /\ m.status \in {"completed", "needs-review"}
    BY <2>1 DEF Kin, Alike
  <2>3. Ended(r, m)
    BY <2>1 DEF Ended, CanAdopt, Settled
  <2> QED
    BY <2>2, <2>3 DEF m
<1> QED
  BY <1>1, <1>2

LEMMA ApprovalEnds ==
  ASSUME NEW r \in RowType, NEW d, NEW n, NEW e, ~Settled(r)
  PROVE  LET m == settleApproval(r, d, n, e) IN
         /\ Kin(r, m) /\ Ended(r, m)
         /\ m.status = "completed" => ~e
         /\ m.status # "completed" => m.status = "needs-review" \/ (m.status = "cancelled" /\ ~d)
<1> DEFINE m == settleApproval(r, d, n, e)
<1>1. /\ Alike(r, m) /\ m.state = MovedState(r, m.status)
      /\ m.status = IF n \/ r.status = "cancelling"
                    THEN IF d THEN "needs-review" ELSE "cancelled"
                    ELSE IF e THEN "needs-review" ELSE "completed"
  BY SettleApprovalIs
<1> HIDE DEF m
<1>2. Kin(r, m) /\ Ended(r, m)
  BY <1>1 DEF Kin, Alike, Ended
<1> QED
  BY <1>1, <1>2 DEF m

(* Why a job ends whose attempt has not: a run of it reports so, its result was  *)
(* persisted, or nothing of it can have been done.                             *)
Cause(i, to) ==
  LET r == db[i] IN
  \/ to = "needs-review"
  \/ to = "completed" /\ r.persisted /\ r.kind.protected
  \/ /\ to = "completed"
     /\ \E g \in Tokens : /\ run[g].job = i /\ Alive(g) /\ run[g].wk = "ok"
                          /\ run[g].mode = "run" => ~r.kind.protected
  \/ to \in {"failed", "cancelled"} /\ r.kind.retrySafe
  \/ to \in {"failed", "cancelled"} /\ r.status \in {"queued", "awaiting-approval"}
  \/ /\ to = "failed" /\ r.status = "running" /\ r.state # "running"
     /\ \A h \in Tokens : Present(h) => run[h].job # i
  \/ /\ to = "failed"
     /\ \E g \in Tokens : /\ run[g].job = i /\ Alive(g) /\ run[g].mode = "run" /\ run[g].abort = "none"
                          /\ run[g].wk = "err" \/ run[g].killed
                          /\ ~Alive(g)'
  \/ /\ to = "cancelled" /\ r.num > 0
     /\ \E g \in Tokens : /\ run[g].job = i /\ Alive(g) /\ run[g].mode = "approval" /\ ~run[g].dispatched

(* The row of a job as a step of its supervisor leaves it: ended, told to stop,  *)
(* waiting for the operator, or back in the queue.                             *)
Ending(i) == Ended(db[i], db'[i]) /\ (Settled(db[i]) \/ Cause(i, db'[i].status))
Stopping(i) ==
  LET r == db[i]  r2 == db'[i] IN
  /\ r2.status = "cancelling" /\ r.status \in {"running", "cancelling"} /\ ~Settled(r)
  /\ r2.state = IF r.num > 0 /\ r.state = "running" THEN "cancelling" ELSE r.state
Asking(i) ==
  LET r == db[i]  r2 == db'[i] IN
  /\ r2.status = "awaiting-approval" /\ r2.state = r.state
  /\ \/ r.status = "awaiting-approval" /\ r.state = "awaiting-approval"
     \/ \E g \in Tokens : /\ run[g].job = i /\ Alive(g) /\ run[g].abort = "none"
                          /\ run[g].mode = "run" /\ run[g].wk = "approval"
Requeued(i) ==
  LET r == db[i]  r2 == db'[i] IN
  /\ r2.status = "queued"
  /\ r2.state = r.state \/ (r2.state = "failed" /\ RetryLeft(r))
  /\ \/ RetryLeft(r)
     \/ /\ r.num = 0 \/ r.state = "queued"
        /\ \/ r.status \in {"queued", "awaiting-approval"}
           \/ \A h \in Tokens : Present(h) => run[h].job # i
\* a queued job is cancelled while the killed worker of its last run goes on
Withdrawn(i) ==
  LET r == db[i]  r2 == db'[i] IN
  /\ r2.status = "cancelled" /\ r2.state = "cancelling"
  /\ r.status \in {"queued", "awaiting-approval"} /\ r.state = "running" /\ ~Settled(r)
Moved(i) ==
  /\ Kin(db[i], db'[i])
  /\ Ending(i) \/ Stopping(i) \/ Asking(i) \/ Requeued(i) \/ Withdrawn(i)

(* A lease is that of the run its token was given to. *)
Leased ==
  \A i \in Jobs : LET g == db[i].lease IN g # NoToken => g <= issued /\ run[g].job = i

LEMMA IssuedGrows ==
  ASSUME IInv, [Next]_vars PROVE issued' \in Nat /\ issued <= issued'
<1>1. issued \in Nat
  BY BoundsAssumption DEF IInv, TypeOK
<1>2. issued' = issued \/ issued' = issued + 1
  <2>1. ASSUME NEW g \in Tokens, RunStep(g) PROVE issued' = issued
    BY <2>1 DEF RunStep, WorkerCrash, WorkerStep, WorkerBind, WorkerAdmit, WorkerRefused, WorkerStart,
           WorkerDenied, WorkerApproval, WorkerThrows, WorkerReturns, WorkerUncertain, WorkerGraphEnds,
           WorkerSettles, WorkerExits, UnchangedSupervisor, RunSettles, RunResolved, RunPersist,
           RunAdopt, RunRejected, RunPersistFails, ApprovalSettle, Finish, Timeout, HeartbeatLost,
           GraceExpires, Renew, Expire, ApprovalDispatch, RequestAborted, AbortRun
  <2>2. ASSUME NEW j \in Jobs, JobStep(j) PROVE issued' = issued \/ issued' = issued + 1
    BY <2>2 DEF JobStep, Submit, DrainDispatch, DrainFail, Cancel, CancelFenceFails, CancelWith,
                BeginApproval
  <2>3. CASE ProcessStep
    BY <2>3 DEF ProcessStep, DrainEnd, Shutdown, ShutdownDone, LoseOwnership, Crash, RecoverResults,
                Start, RecoveryTimer
  <2> QED
    BY <2>1, <2>2, <2>3 DEF Next, vars
<1> QED
  BY <1>1, <1>2

LEMMA LeasedStep ==
  ASSUME NoUnsafeRetry, IInv, PersistedHolds, Leased, [Next]_vars
  PROVE  Leased'
<1> SUFFICES ASSUME NEW i \in Jobs, db'[i].lease # NoToken
             PROVE  db'[i].lease <= issued' /\ run'[db'[i].lease].job = i
  BY DEF Leased
<1>1. issued \in Nat /\ issued' \in Nat /\ issued <= issued'
  BY IssuedGrows, BoundsAssumption DEF IInv, TypeOK
<1>2. db[i].lease \in {NoToken} \cup Tokens
  BY DEF IInv, TypeOK, RowType
<1>3. CASE Claims(i)
  BY <1>1, <1>3, ClaimIs, ClaimedRow
<1>4. CASE ~Claims(i)
  <2>1. db'[i].lease = db[i].lease /\ db[i].lease \in Tokens
    BY <1>2, <1>4, LeaseKept
  <2>2. db[i].lease <= issued /\ run[db[i].lease].job = i
    BY <2>1 DEF Leased
  <2>3. run'[db[i].lease].job = i
    <3>1. ASSUME NEW j \in Jobs, Claims(j) PROVE run'[db[i].lease].job = i
      BY <1>1, <2>1, <2>2, <3>1, ClaimIs
    <3>2. CASE ~\E j \in Jobs : Claims(j)
      BY <2>1, <2>2, <3>2, StepOnward DEF Onward
    <3> QED
      BY <3>1, <3>2
  <2> QED
    BY <1>1, <1>2, <2>1, <2>2, <2>3
<1> QED
  BY <1>3, <1>4

(* How the settlement of a run moves its job. *)
LEMMA SettleMoves ==
  ASSUME IInv, LifeInv, PersistedHolds, [Next]_vars, NEW g \in Tokens, Settles(g)
  PROVE  db'[run[g].job] = db[run[g].job] \/ Moved(run[g].job)
<1> DEFINE i == run[g].job
           r == db[i]
<1>1. i \in Jobs /\ Alive(g) /\ ~Alive(g)' /\ Row(g) = r /\ r \in RowType
  <2>1. Alive(g) /\ ~Alive(g)'
    BY SettlesEntries
  <2> QED
    BY <2>1, RunRow DEF Alive, Row, Good
<1>2. ASSUME NEW r2, SetRow(i, r2) PROVE db'[i] = r2
  BY <1>1, <1>2 DEF SetRow, IInv, TypeOK
<1> HIDE DEF r, i
<1>3. CASE RunResolved(g)
  <2>1. run[g].abort = "none" /\ run[g].mode = "run"
    BY <1>3 DEF RunResolved, Answered
  <2>2. CASE run[g].wk = "approval"
    <3>1. db'[i] = updateFenced(r, g, "awaiting-approval")
      BY <1>1, <1>2, <1>3, <2>2 DEF RunResolved, Finish, i, r
    <3>2. CASE db'[i] = update(r, "awaiting-approval")
      <4>1. Kin(r, db'[i]) /\ db'[i].status = "awaiting-approval" /\ db'[i].state = r.state
        BY <1>1, <3>2, UpdateEnds
      <4>2. Asking(i)
        BY <1>1, <2>1, <2>2, <4>1 DEF Asking, i, r
      <4> QED
        BY <4>1, <4>2 DEF Moved, i, r
    <3> QED
      BY <3>1, <3>2 DEF updateFenced, i, r
  <2>3. CASE run[g].wk = "ok" /\ ~r.kind.protected
    <3>1. db'[i] = updateFenced(r, g, "completed")
      BY <1>1, <1>2, <1>3, <2>3 DEF RunResolved, Finish, i, r
    <3>2. CASE db'[i] = update(r, "completed")
      <4>1. Kin(r, db'[i]) /\ Ended(r, db'[i]) /\ (~Settled(r) => db'[i].status = "completed")
        BY <1>1, <3>2, UpdateEnds
      <4>2. Cause(i, "completed")
        BY <1>1, <2>3 DEF Cause, i, r
      <4> QED
        BY <4>1, <4>2 DEF Moved, Ending, i, r
    <3> QED
      BY <3>1, <3>2 DEF updateFenced, i, r
  <2> QED
    BY <1>1, <1>3, <2>2, <2>3 DEF RunResolved
<1>4. CASE RunAdopt(g)
  <2>1. db'[i] = adoptProtectedResult(r, FALSE)
    BY <1>1, <1>2, <1>4 DEF RunAdopt, Finish, i, r
  <2>2. Kin(r, db'[i]) /\ Ended(r, db'[i]) /\ db'[i].status \in {"completed", "needs-review"}
    BY <1>1, <2>1, SettlementEnds
  <2>3. Cause(i, db'[i].status)
    BY <1>1, <1>4, <2>2 DEF RunAdopt, PersistedHolds, Cause, r, i
  <2> QED
    BY <2>2, <2>3 DEF Moved, Ending, i, r
<1>5. CASE RunRejected(g) \/ RunPersistFails(g)
  <2>1. PICK late \in BOOLEAN :
          /\ db'[i] = updateFenced(r, g, CatchStatus(g, late))
          /\ ~late /\ run[g].abort = "none" => run[g].killed \/ run[g].wk \in {"err", "dead"}
          /\ late => run[g].abort # "none" \/ RunPersistFails(g)
          /\ run[g].mode = "run"
    <3>1. CASE RunRejected(g)
      <4> DEFINE late == run[g].abort # "none" /\ ~run[g].killed /\ run[g].wk \in {"ok", "approval"}
      <4>1. /\ SetRow(run[g].job, updateFenced(Row(g), g, CatchStatus(g, late)))
            /\ run[g].mode = "run"
            /\ MustSettle(g) \/ run[g].wk \in {"err", "dead"} \/ late
        BY <3>1 DEF RunRejected, Finish
      <4> HIDE DEF late
      <4>2. late \in BOOLEAN /\ (late => run[g].abort # "none")
        BY DEF late
      <4> QED
        BY <1>1, <1>2, <4>1, <4>2 DEF MustSettle, i
    <3>2. CASE RunPersistFails(g)
      <4>1. /\ SetRow(run[g].job, updateFenced(Row(g), g, CatchStatus(g, TRUE)))
            /\ run[g].mode = "run"
        BY <3>2 DEF RunPersistFails, Finish, Answered
      <4> QED
        BY <1>1, <1>2, <3>2, <4>1 DEF i
    <3> QED
      BY <1>5, <3>1, <3>2
  <2> DEFINE status == CatchStatus(g, late)
  <2>2. /\ status = "queued" => RetryLeft(r)
        /\ status # "queued" => status \in {"needs-review", "cancelled", "failed"}
        /\ status = "cancelled" => r.kind.retrySafe
        /\ status = "failed" /\ ~r.kind.retrySafe =>
             ~late /\ run[g].abort = "none" /\ ~(run[g].wk = "dead" /\ ~run[g].killed)
    BY <1>1 DEF CatchStatus
  <2> HIDE DEF status
  <2>3. CASE db'[i] = update(r, status)
    <3>1. CASE status = "queued"
      <4>1. Kin(r, db'[i]) /\ db'[i].status = "queued" /\ db'[i].state = r.state
        BY <1>1, <2>3, <3>1, UpdateEnds
      <4> QED
        BY <2>2, <3>1, <4>1 DEF Moved, Requeued, i, r
    <3>2. CASE status # "queued"
      <4>1. Kin(r, db'[i]) /\ Ended(r, db'[i]) /\ (~Settled(r) => db'[i].status = status)
        BY <1>1, <2>2, <2>3, <3>2, UpdateEnds
      <4>2. Cause(i, status)
        BY <1>1, <2>1, <2>2, <3>2 DEF Cause, i, r
      <4> QED
        BY <4>1, <4>2 DEF Moved, Ending, i, r
    <3> QED
      BY <3>1, <3>2
  <2> QED
    BY <2>1, <2>3 DEF updateFenced, i, r, status
<1>6. CASE ApprovalSettle(g)
  <2>1. CASE db'[i] # r
    <3>1. PICK n \in BOOLEAN, e \in BOOLEAN :
            /\ SetRow(i, settleApproval(r, run[g].dispatched, n, e))
            /\ CanSettleApproval(r, g) /\ e = (run[g].killed \/ run[g].wk # "ok")
      <4> DEFINE n == run[g].abort # "none"
                 e == run[g].killed \/ run[g].wk # "ok"
      <4>1. /\ UNCHANGED db \/ SetRow(i, IF CanSettleApproval(r, g)
                                       THEN settleApproval(r, run[g].dispatched, n, e) ELSE r)
        BY <1>1, <1>6 DEF ApprovalSettle, i
      <4> HIDE DEF n
      <4>2. n \in BOOLEAN /\ run[g].killed \in BOOLEAN
        <5>1. run[g] \in RunType
          BY DEF IInv, TypeOK
        <5> QED
          BY <5>1 DEF n, RunType
      <4>3. ~UNCHANGED db /\ ~SetRow(i, r)
        BY <1>2, <2>1 DEF r
      <4>4. /\ CanSettleApproval(r, g)
            /\ SetRow(i, settleApproval(r, run[g].dispatched, n, e))
        BY <4>1, <4>3
      <4>5. e \in BOOLEAN
        BY <4>2
      <4> QED
        BY <4>2, <4>4, <4>5
    <3>2. db'[i] = settleApproval(r, run[g].dispatched, n, e) /\ ~Settled(r)
      BY <1>2, <3>1 DEF CanSettleApproval, Settled
    <3>0. r.num > 0
      BY <3>1 DEF CanSettleApproval
    <3>3. /\ Kin(r, db'[i]) /\ Ended(r, db'[i])
          /\ db'[i].status = "completed" => ~e
          /\ db'[i].status # "completed" =>
               db'[i].status = "needs-review" \/ (db'[i].status = "cancelled" /\ ~run[g].dispatched)
      BY <1>1, <3>2, ApprovalEnds
    <3>4. run[g].mode = "approval"
      BY <1>6 DEF ApprovalSettle
    <3>5. Cause(i, db'[i].status)
      <4>1. CASE db'[i].status = "completed"
        BY <1>1, <3>1, <3>3, <3>4, <4>1 DEF Cause, i, r
      <4>2. CASE db'[i].status # "completed"
        BY <1>1, <3>3, <3>4, <3>0, <4>2 DEF Cause, i, r
      <4> QED
        BY <4>1, <4>2
    <3> QED
      BY <3>3, <3>5 DEF Moved, Ending, i, r
  <2> QED
    BY <2>1 DEF i, r
<1> QED
  BY <1>3, <1>4, <1>5, <1>6 DEF Settles, i, r

(* How recovery moves a row. *)
LEMMA RecoverMoves ==
  ASSUME IInv, NEW i \in Jobs, NeedsRecovery(db[i], expired), db'[i] = recover(db[i]),
         db[i].status \in {"running", "cancelling"} => \A h \in Tokens : Present(h) => run[h].job # i
  PROVE  Moved(i)
<1> DEFINE r == db[i]
           to == RecoveredStatus(r)
<1>1. Good(r) /\ r \in RowType /\ r.num \in Nat
  BY Parts, RowIsGood DEF Good, RowType
<1>2. r.status \in {"queued", "running", "cancelling", "awaiting-approval"}
  BY DEF NeedsRecovery
<1>3. /\ Alike(r, db'[i]) /\ db'[i].status = to
      /\ db'[i].state = IF to \in TERMINAL_JOB_STATES THEN MovedState(r, to)
                        ELSE IF to = "queued" /\ r.state \in {"running", "cancelling"}
                        THEN MovedState(r, "failed") ELSE r.state
  BY <1>1, RecoverIs
<1>4. Kin(r, db'[i])
  BY <1>3 DEF Kin, Alike
<1>5. r.state # "none" <=> r.num > 0
  BY <1>1 DEF Good, LedgerConsistent
<1> HIDE DEF r
<1>6. CASE RetrySettled(r)
  <2>1. to = "queued" /\ RetryLeft(r) /\ r.state \notin {"running", "cancelling"}
    BY <1>6 DEF RecoveredStatus, RetrySettled
  <2> HIDE DEF to
  <2>2. Requeued(i)
    BY <1>3, <2>1 DEF Requeued, r
  <2> QED
    BY <1>4, <2>2 DEF Moved, r
<1>7. CASE Settled(r) /\ ~RetrySettled(r)
  <2>1. to = r.state /\ to \in TERMINAL_JOB_STATES
    BY <1>7 DEF RecoveredStatus, Settled
  <2> HIDE DEF to
  <2>2. Ending(i)
    BY <1>3, <1>7, <2>1 DEF Ending, Ended, r
  <2> QED
    BY <1>4, <2>2 DEF Moved, r
<1>8. CASE ~Settled(r) /\ ~RetrySettled(r)
  <2>1. CASE to \in TERMINAL_JOB_STATES
    <3>1. /\ to \in {"cancelled", "needs-review", "failed"}
          /\ to = "cancelled" => r.kind.retrySafe
          /\ to = "failed" => \/ r.kind.retrySafe
                              \/ r.state # "running" /\ r.status # "cancelling"
      BY <1>8, <2>1 DEF RecoveredStatus
    <3> HIDE DEF to
    <3>2. Cause(i, to)
      BY <1>2, <3>1 DEF Cause, r
    <3>3. Ending(i)
      BY <1>3, <1>8, <2>1, <3>2 DEF Ending, Ended, r
    <3> QED
      BY <1>4, <3>3 DEF Moved, r
  <2>2. CASE to = "awaiting-approval"
    <3>1. r.status = "awaiting-approval" /\ r.state = "awaiting-approval"
      BY <1>8, <2>2 DEF RecoveredStatus
    <3> HIDE DEF to
    <3>2. Asking(i)
      BY <1>3, <2>2, <3>1 DEF Asking, r
    <3> QED
      BY <1>4, <3>2 DEF Moved, r
  <2>3. CASE to = "queued"
    <3>1. r.num = 0 \/ r.state = "queued" \/ RetryLeft(r)
      BY <1>8, <2>3 DEF RecoveredStatus
    <3>2. r.state \in {"running", "cancelling"} => RetryLeft(r)
      BY <1>5, <3>1
    <3> HIDE DEF to
    <3>3. db'[i].state = r.state \/ (db'[i].state = "failed" /\ RetryLeft(r))
      BY <1>3, <2>3, <3>2 DEF MovedState
    <3>4. Requeued(i)
      BY <1>2, <1>3, <2>3, <3>1, <3>3 DEF Requeued, r
    <3> QED
      BY <1>4, <3>4 DEF Moved, r
  <2>4. to \in TERMINAL_JOB_STATES \cup {"awaiting-approval", "queued"}
    BY <1>8 DEF RecoveredStatus
  <2> QED
    BY <2>1, <2>2, <2>3, <2>4
<1> QED
  BY <1>6, <1>7, <1>8

(* How an operator, or the drain loop that has no input for it, moves a job. *)
LEMMA JobMoves ==
  ASSUME IInv, NEW i \in Jobs, DrainFail(i) \/ Cancel(i) \/ CancelFenceFails(i)
  PROVE  Moved(i)
<1> DEFINE r == db[i]
<1>1. r \in RowType
  BY DEF IInv, TypeOK
<1>2. ASSUME NEW r2, SetRow(i, r2) PROVE db'[i] = r2
  BY <1>2 DEF SetRow, IInv, TypeOK
<1> HIDE DEF r
<1>3. CASE DrainFail(i)
  <2> DEFINE c == claimNextQueued(r, issued + 1)
  <2>1. db'[i] = update(c, "failed") /\ r.status = "queued"
    BY <1>2, <1>3 DEF DrainFail, CanClaim, Oldest, Queued, r
  <2>2. c \in RowType
    BY <1>3, Parts, RowIsGood, NewToken, LeaseGood
    DEF DrainFail, CanClaim, Oldest, Queued, Good, LedgerConsistent, RestOK, r
  <2>3. /\ c.kind = r.kind /\ c.num = r.num /\ c.audited = r.audited /\ c.persisted = r.persisted
        /\ c.attempts = r.attempts + 1 /\ c.state = r.state
    BY <1>1, LeaseIs
  <2> HIDE DEF c
  <2>4. Kin(c, db'[i]) /\ Ended(c, db'[i]) /\ (~Settled(c) => db'[i].status = "failed")
    BY <2>1, <2>2, UpdateEnds
  <2>5. Settled(c) <=> Settled(r)
    BY <2>3 DEF Settled
  <2>6. Ended(r, db'[i])
    BY <2>3, <2>4, <2>5 DEF Ended, MovedState
  <2>7. Kin(r, db'[i])
    <3>1. c.attempts = r.attempts + 1 /\ db'[i].attempts = c.attempts
      <4>1. Alike(c, update(c, "failed"))
        BY <2>2, UpdateRowIs
      <4> QED
        BY <2>1, <2>3, <4>1 DEF Alike
    <3> QED
      BY <2>3, <2>4, <3>1 DEF Kin
  <2> QED
    BY <2>1, <2>4, <2>5, <2>6, <2>7 DEF Moved, Ending, Cause, r
<1>4. CASE Cancel(i)
  <2>1. db'[i] = cancel(r) /\ r.status \notin TERMINAL_JOB_STATES \cup {"absent"}
    BY <1>2, <1>4 DEF Cancel, CanCancel, CancelWith, r
  <2>2. /\ Alike(r, db'[i])
        /\ Settled(r) => db'[i].status = r.state /\ db'[i].state = r.state
        /\ ~Settled(r) =>
             /\ db'[i].status = IF r.status \in {"running", "cancelling"} THEN "cancelling" ELSE "cancelled"
             /\ db'[i].state = IF r.num > 0 /\ r.state = "running" THEN "cancelling"
                               ELSE IF db'[i].status = "cancelled" THEN MovedState(r, "cancelled")
                               ELSE r.state
    BY <1>1, <2>1, CancelRowIs
  <2>3. Kin(r, db'[i])
    BY <2>2 DEF Kin, Alike
  <2>4. CASE Settled(r)
    <3>1. Ending(i)
      BY <2>2, <2>4 DEF Ending, Ended, MovedState, Settled, r
    <3> QED
      BY <2>3, <3>1 DEF Moved, r
  <2>5. CASE ~Settled(r) /\ r.status \in {"running", "cancelling"}
    <3>1. Stopping(i)
      BY <2>2, <2>5 DEF Stopping, r
    <3> QED
      BY <2>3, <3>1 DEF Moved, r
  <2>6. CASE ~Settled(r) /\ r.status \notin {"running", "cancelling"}
    <3>1. r.status \in {"queued", "awaiting-approval"}
      BY <1>1, <2>1, <2>6 DEF RowType, JOB_STATES
    <3>2. CASE r.num > 0 /\ r.state = "running"
      <4>1. Withdrawn(i)
        BY <2>2, <2>6, <3>1, <3>2 DEF Withdrawn, r
      <4> QED
        BY <2>3, <4>1 DEF Moved, r
    <3>3. CASE ~(r.num > 0 /\ r.state = "running")
      <4>1. Ending(i)
        BY <2>2, <2>6, <3>1, <3>3 DEF Ending, Ended, Cause, r
      <4> QED
        BY <2>3, <4>1 DEF Moved, r
    <3> QED
      BY <3>2, <3>3
  <2> QED
    BY <2>4, <2>5, <2>6
<1>5. CASE CancelFenceFails(i)
  <2>1. db'[i] = updateKeepingLease(r, "needs-review")
    BY <1>2, <1>5 DEF CancelFenceFails, CancelWith, r
  <2>2. Kin(r, db'[i]) /\ Ended(r, db'[i]) /\ db'[i].status = "needs-review"
    BY <1>1, <2>1, SettlementEnds
  <2> QED
    BY <2>2 DEF Moved, Ending, Cause, r
<1> QED
  BY <1>3, <1>4, <1>5

OwnedInv == IInv /\ LifeInv /\ PersistedHolds /\ OwnInv /\ Leased

(* A job whose lease has lapsed has nobody at work on it. *)
LEMMA LapsedAlone ==
  ASSUME OwnedInv, NEW i \in Jobs, NeedsRecovery(db[i], expired), db[i].status \in {"running", "cancelling"},
         NEW h \in Tokens, Present(h)
  PROVE  run[h].job # i
<1>1. db[i].lease \in expired /\ db[i].lease # NoToken
  BY Parts, RowIsGood DEF OwnedInv, NeedsRecovery, Good, LedgerConsistent
<1>2. run[db[i].lease].job = i
  BY <1>1 DEF OwnedInv, Leased
<1> QED
  BY <1>1, <1>2 DEF OwnedInv, OwnInv, LapsedIdle, Row

(* A step of the supervisor moves a job, or leaves it alone. *)
LEMMA RowMoves ==
  ASSUME OwnedInv, [Next]_vars, NEW i \in Jobs, ~Claims(i), ~Submits(i),
         \A g \in Tokens : run[g].job = i => ~WorkerStep(g) /\ ~RunPersist(g)
  PROVE  db'[i] = db[i] \/ Moved(i)
<1>1. IInv /\ db[i] \in RowType
  BY DEF OwnedInv, IInv, TypeOK
<1>2. ASSUME NEW g \in Tokens, run[g].job = i, Settles(g) PROVE db'[i] = db[i] \/ Moved(i)
  BY <1>2, SettleMoves DEF OwnedInv
<1>3. CASE JobStep(i)
  <2>1. DrainFail(i) \/ Cancel(i) \/ CancelFenceFails(i)
    BY <1>3 DEF JobStep, Claims, Submits
  <2> QED
    BY <1>1, <2>1, JobMoves
<1>4. CASE Start \/ RecoveryTimer
  <2>1. db'[i] = IF NeedsRecovery(db[i], expired) THEN recover(db[i]) ELSE db[i]
    BY <1>4 DEF Start, RecoveryTimer, Recover
  <2> QED
    BY <1>1, <2>1, LapsedAlone, RecoverMoves
<1>5. CASE RecoverResults
  <2>1. db'[i] = RecoveredResult(db[i])
    BY <1>5 DEF RecoverResults
  <2>2. CASE db'[i] = update(db[i], "needs-review")
    <3>1. Kin(db[i], db'[i]) /\ Ended(db[i], db'[i]) /\ (~Settled(db[i]) => db'[i].status = "needs-review")
      BY <1>1, <2>2, UpdateEnds
    <3> QED
      BY <3>1 DEF Moved, Ending, Cause
  <2>3. CASE db'[i] = adoptProtectedResult(db[i], FALSE) /\ db[i].persisted /\ db[i].kind.protected
    <3>1. Kin(db[i], db'[i]) /\ Ended(db[i], db'[i]) /\ db'[i].status \in {"completed", "needs-review"}
      BY <1>1, <2>3, SettlementEnds
    <3> QED
      BY <2>3, <3>1 DEF Moved, Ending, Cause
  <2> QED
    BY <2>1, <2>2, <2>3 DEF RecoveredResult
<1> QED
  BY <1>1, <1>2, <1>3, <1>4, <1>5, RowTouchedBy

(* The row and the run of a job that is claimed. *)
NewRun(w, j) ==
  /\ w.job = j /\ w.pc = "exec" /\ w.abort = "none" /\ w.mode \in {"run", "approval"} /\ ~w.dispatched
  /\ w.wk \in {"none", "boot", "err"}
  /\ w.mode = "approval" => w.wk = "none"

LEMMA ClaimMoves ==
  ASSUME OwnedInv, NEW j \in Jobs, Claims(j)
  PROVE  /\ issued + 1 \in Tokens /\ NewRun(run'[issued + 1], j)
         /\ run'[issued + 1].mode = "run" <=> DrainDispatch(j)
         /\ \A h \in Tokens \ {issued + 1} : run'[h] = run[h] /\ Unmoved(h)
         /\ \A h \in Tokens : Present(h) => h # issued + 1
         /\ db'[j].status = "running" /\ db'[j].kind = db[j].kind
         /\ db'[j].num = db[j].num /\ db'[j].state = db[j].state /\ db'[j].owner = db[j].owner
         /\ db'[j].audited = db[j].audited /\ db'[j].persisted = db[j].persisted
         /\ db'[j].attempts = IF DrainDispatch(j) THEN db[j].attempts + 1 ELSE db[j].attempts
         /\ \A i \in Jobs \ {j} : db'[i] = db[i]
         /\ UNCHANGED <<dispatches, outcome, owned>>
         /\ db[j].status = IF DrainDispatch(j) THEN "queued" ELSE "awaiting-approval"
<1>1. IInv
  BY DEF OwnedInv
<1>2. /\ issued + 1 \in Tokens /\ issued \in Nat /\ NewRun(run'[issued + 1], j)
      /\ run'[issued + 1].mode = "run" <=> DrainDispatch(j)
      /\ \A h \in Tokens \ {issued + 1} : run'[h] = run[h]
      /\ UNCHANGED <<dispatches, outcome, owned>>
  BY <1>1, ClaimIs DEF NewRun
<1>3. \A h \in Tokens \ {issued + 1} : Unmoved(h)
  BY <1>2, StillUnmoved
<1>4. \A h \in Tokens : Present(h) => h # issued + 1
  BY <1>2 DEF OwnedInv, LifeInv, FreshTokens, Present, Alive, Working, LiveWorker
<1>5. db[j].status = IF DrainDispatch(j) THEN "queued" ELSE "awaiting-approval"
  BY DEF Claims, DrainDispatch, CanClaim, Oldest, Queued, BeginApproval, CanClaimApproval
<1> QED
  BY <1>1, <1>2, <1>3, <1>4, <1>5, ClaimedRow

(* A job that is submitted is new. *)
LEMMA SubmitMoves ==
  ASSUME OwnedInv, [Next]_vars, NEW i \in Jobs, Submits(i)
  PROVE  /\ db[i].status = "absent" /\ db'[i].status = "queued" /\ db'[i].num = db[i].num
         /\ db'[i].attempts = db[i].attempts /\ db'[i].state = db[i].state
         /\ db'[i].audited = db[i].audited /\ db'[i].persisted = db[i].persisted
         /\ UNCHANGED <<run, dispatches, outcome, owned>>
         /\ db'[i].kind \in Kinds
         /\ \A h \in Tokens : Taken(h) => run[h].job # i
<1>1. db[i] \in RowType /\ IInv
  BY DEF OwnedInv, IInv, TypeOK
<1>2. PICK k \in Kinds : Submit(i, k)
  BY DEF Submits
<1>3. db'[i] = create(db[i], k)
  BY <1>1, <1>2 DEF Submit, SetRow, IInv, TypeOK
<1>4. db[i].status = "absent"
  BY <1>2 DEF Submit
<1> QED
  BY <1>1, <1>2, <1>3, <1>4, CreateIs DEF Submit, OwnedInv, OwnInv, Submitted, Row

(* A result that is persisted changes nothing else. *)
LEMMA PersistMoves ==
  ASSUME OwnedInv, NEW g \in Tokens, RunPersist(g)
  PROVE  LET r == db[run[g].job]  r2 == db'[run[g].job] IN
         /\ SameRow(r, r2) /\ r2.state = r.state /\ r2.owner = r.owner /\ r2.num = r.num
         /\ r2.attempts = r.attempts /\ r2.audited = r.audited /\ r2.persisted
         /\ Alive(g) /\ run[g].wk = "ok" /\ r.kind.protected /\ run[g].mode = "run"
<1>1. run[g].job \in Jobs /\ Row(g) \in RowType /\ Row(g) = db[run[g].job]
  BY RunRow DEF OwnedInv, RunPersist, Answered, Good, Row
<1>2. db'[run[g].job] = [Row(g) EXCEPT !.persisted = TRUE]
  BY <1>1 DEF RunPersist, SetRow, OwnedInv, IInv, TypeOK
<1> QED
  BY <1>1, <1>2, FlagIs DEF RunPersist, Answered, Alive

---------------------------------------------------------------------------
(* How a worker moves its job *)

Starting == {"boot", "bound", "admitted"}

(* The worker of g goes to state wk, unless it and its run are forgotten. *)
Goes(g, wk) ==
  /\ run'[g].job = run[g].job /\ run'[g].wk \in {wk, "none"}
  /\ Present(g)' =>
       /\ Present(g) /\ run'[g].wk = wk /\ run'[g].pc = run[g].pc /\ run'[g].mode = run[g].mode
       /\ run'[g].abort = run[g].abort /\ run'[g].killed = run[g].killed
       /\ run'[g].dispatched = run[g].dispatched
       /\ run'[g].att = run[g].att \/ wk = "admitted"

LEMMA GoesBy ==
  ASSUME IInv, NEW g \in Tokens, NEW w \in RunType, run'[g] = w \/ run'[g] = Kept(w),
         run[g].wk \in LiveWorker,
         w.job = run[g].job, w.pc = run[g].pc, w.mode = run[g].mode, w.abort = run[g].abort,
         w.killed = run[g].killed, w.dispatched = run[g].dispatched,
         w.att = run[g].att \/ w.wk = "admitted"
  PROVE  Goes(g, w.wk)
<1>1. Present(g)
  BY DEF Present, Working
<1>2. CASE run'[g] = w
  BY <1>1, <1>2 DEF Goes
<1>3. CASE run'[g] # w
  <2>1. run'[g].job = w.job /\ run'[g].pc = "done" /\ run'[g].wk = "none"
    BY <1>3, KeptIs
  <2> QED
    BY <2>1 DEF Goes, Present, Alive, Working, LiveWorker
<1> QED
  BY <1>2, <1>3

LEMMA WorkerGoesBy ==
  ASSUME IInv, NEW g \in Tokens, run[g].wk \in LiveWorker, NEW wk \in WorkerStates, WorkerGoes(g, wk)
  PROVE  Goes(g, wk)
<1>1. run[g] \in RunType
  BY DEF IInv, TypeOK
<1> DEFINE w == [run[g] EXCEPT !.wk = wk]
<1>2. /\ w \in RunType /\ w.job = run[g].job /\ w.pc = run[g].pc /\ w.mode = run[g].mode
      /\ w.abort = run[g].abort /\ w.killed = run[g].killed /\ w.dispatched = run[g].dispatched
      /\ w.att = run[g].att /\ w.wk = wk
  BY <1>1 DEF RunType, WorkerStates
<1>3. run'[g] = Kept(w)
  BY DEF WorkerGoes, IInv, TypeOK
<1> HIDE DEF w
<1> QED
  BY <1>2, <1>3, GoesBy

(* What a worker leaves of its job, whatever it does. *)
Rests(r, r2) == Alike(r, r2) /\ SameRow(r, r2) /\ r2.state = r.state /\ r2.owner = r.owner

(* The attempt of a worker moves as the ledger lets it. *)
Passes(g, r, r2, to) ==
  /\ CanTransition(r, g, run[g].att, to) /\ Alike(r, r2) /\ SameRow(r, r2) /\ r2.state = to
  /\ r2.owner = IF to = "running" THEN g ELSE IF to = "cancelling" THEN r.owner ELSE NoToken

LEMMA WrittenIs ==
  ASSUME IInv, NEW g \in Tokens, run[g].wk \in LiveWorker
  PROVE  /\ run[g].job \in Jobs /\ Row(g) = db[run[g].job] /\ Row(g) \in RowType /\ Good(Row(g))
         /\ \A r : SetRow(run[g].job, r) => db'[run[g].job] = r
         /\ run[g] \in RunType
<1>1. run[g].job \in Jobs /\ Good(Row(g)) /\ run[g] \in RunType
  BY RunRow DEF LiveWorker
<1> QED
  BY <1>1 DEF Good, Row, SetRow, IInv, TypeOK

LEMMA PassesBy ==
  ASSUME IInv, NEW g \in Tokens, NEW r \in RowType, NEW to, CanTransition(r, g, run[g].att, to)
  PROVE  Passes(g, r, transitionExecutionAttempt(r, g, to), to)
  BY ExecutionIs DEF Passes

(* Before its admission, and when it exits, a worker leaves its attempt alone. *)
LEMMA BindMoves ==
  ASSUME IInv, NEW g \in Tokens, WorkerBind(g) \/ WorkerRefused(g) \/ WorkerExits(g)
  PROVE  LET r == db[run[g].job]  r2 == db'[run[g].job] IN
         /\ Rests(r, r2) /\ UNCHANGED <<dispatches, outcome>>
         /\ \/ run[g].wk \in {"boot", "bound"} /\ (Goes(g, "err") \/ Goes(g, "bound"))
            \/ run[g].wk = "boot" /\ r.audited /\ Goes(g, "ok")
            \/ run[g].killed /\ Goes(g, "dead")
<1>1. run[g].wk \in LiveWorker
  BY DEF WorkerBind, WorkerRefused, WorkerExits, LiveWorker
<1>2. /\ run[g].job \in Jobs /\ Row(g) = db[run[g].job] /\ Row(g) \in RowType
      /\ \A r : SetRow(run[g].job, r) => db'[run[g].job] = r
      /\ run[g] \in RunType
  BY <1>1, WrittenIs
<1>3. Rests(Row(g), Row(g)) /\ Rests(Row(g), [Row(g) EXCEPT !.bound = TRUE])
  BY <1>2, FlagIs DEF Rests, Alike, SameRow
<1>4. CASE WorkerBind(g)
  <2> DEFINE r == Row(g)
             refused == \/ r.bound /\ ~Recovering(g)
                        \/ r.bound /\ run[g].mode = "run" /\ r.state = "awaiting-approval"
             wk == IF r.audited THEN "ok" ELSE IF refused THEN "err" ELSE "bound"
             w == [run[g] EXCEPT !.wk = wk, !.replay = r.bound]
  <2>1. run'[g] = Kept(w) /\ run[g].wk = "boot"
    BY <1>4 DEF WorkerBind, IInv, TypeOK
  <2>2. wk \in {"ok", "err", "bound"} /\ (wk = "ok" => r.audited)
    OBVIOUS
  <2> HIDE DEF wk
  <2>3. /\ w \in RunType /\ w.job = run[g].job /\ w.pc = run[g].pc /\ w.mode = run[g].mode
        /\ w.abort = run[g].abort /\ w.killed = run[g].killed /\ w.dispatched = run[g].dispatched
        /\ w.att = run[g].att /\ w.wk = wk
    BY <1>2, <2>2 DEF RunType, LiveWorker, Reported, RowType
  <2> HIDE DEF w
  <2>4. Goes(g, wk)
    BY <1>1, <2>1, <2>3, GoesBy
  <2>5. Rests(r, db'[run[g].job]) /\ UNCHANGED <<dispatches, outcome>>
    BY <1>2, <1>3, <1>4 DEF WorkerBind
  <2> QED
    BY <1>2, <2>1, <2>2, <2>4, <2>5
<1>5. CASE WorkerRefused(g) \/ WorkerExits(g)
  <2>1. Rests(Row(g), db'[run[g].job]) /\ UNCHANGED <<dispatches, outcome>>
    BY <1>2, <1>3, <1>5 DEF WorkerRefused, WorkerExits
  <2>2. \/ run[g].wk \in {"boot", "bound"} /\ WorkerGoes(g, "err")
        \/ run[g].killed /\ WorkerGoes(g, "dead")
    BY <1>5 DEF WorkerRefused, WorkerExits
  <2>3. \/ run[g].wk \in {"boot", "bound"} /\ Goes(g, "err")
        \/ run[g].killed /\ Goes(g, "dead")
    BY <1>1, <2>2, WorkerGoesBy DEF WorkerStates, Reported
  <2> QED
    BY <1>2, <2>1, <2>3
<1> QED
  BY <1>4, <1>5

(* The attempt a worker is admitted with: the first, one that was kept, or the   *)
(* next of a retry-safe tool.                                                  *)
LEMMA AdmitMoves ==
  ASSUME IInv, NEW g \in Tokens, WorkerAdmit(g)
  PROVE  LET r == db[run[g].job]  r2 == db'[run[g].job] IN
         /\ SameRow(r, r2) /\ UNCHANGED <<dispatches, outcome>>
         /\ r2.attempts = r.attempts /\ r2.audited = r.audited /\ r2.persisted = r.persisted
         /\ run[g].wk = "bound" /\ Goes(g, "admitted") /\ run'[g].att = r2.num /\ r2.num > 0
         /\ \/ r2 = r /\ r.state \in {"queued", "awaiting-approval"}
            \/ r.num = 0 /\ r2.num = 1 /\ r2.state = "queued"
            \/ r.kind.retrySafe /\ r2.num = r.num + 1 /\ r2.state = "queued"
<1>1. run[g].wk \in LiveWorker /\ run[g].wk = "bound"
  BY DEF WorkerAdmit, LiveWorker
<1> DEFINE r == Row(g)
<1>2. /\ run[g].job \in Jobs /\ r = db[run[g].job] /\ r \in RowType
      /\ \A x : SetRow(run[g].job, x) => db'[run[g].job] = x
      /\ run[g] \in RunType
  BY <1>1, WrittenIs
<1> HIDE DEF r
<1>3. PICK after : /\ SetRow(run[g].job, after)
                   /\ run' = [run EXCEPT ![g].wk = "admitted", ![g].att = after.num]
                   /\ \/ after = r /\ r.num > 0 /\ r.state \in {"queued", "awaiting-approval"}
                      \/ CanResume(r) /\ after = resumeExecution(r)
                      \/ CanAdmit(r) /\ after = admitExecution(r)
  BY DEF WorkerAdmit, CanReuse, r
<1>4. /\ SameRow(r, after) /\ after.attempts = r.attempts /\ after.audited = r.audited
      /\ after.persisted = r.persisted /\ after.num > 0 /\ after.num \in Nat
      /\ \/ after = r /\ r.state \in {"queued", "awaiting-approval"}
         \/ r.num = 0 /\ after.num = 1 /\ after.state = "queued"
         \/ r.kind.retrySafe /\ after.num = r.num + 1 /\ after.state = "queued"
  <2>1. r.num \in Nat
    BY <1>2 DEF RowType
  <2>2. CASE after = r /\ r.num > 0 /\ r.state \in {"queued", "awaiting-approval"}
    BY <2>1, <2>2 DEF SameRow
  <2>3. CASE CanResume(r) /\ after = resumeExecution(r)
    BY <1>2, <2>1, <2>3, AdmissionIs DEF CanResume
  <2>4. CASE CanAdmit(r) /\ after = admitExecution(r)
    BY <1>2, <2>1, <2>4, AdmissionIs DEF CanAdmit
  <2> QED
    BY <1>3, <2>2, <2>3, <2>4
<1> DEFINE w == [run[g] EXCEPT !.wk = "admitted", !.att = after.num]
<1>5. run'[g] = w
  BY <1>3 DEF IInv, TypeOK, RunType
<1>6. /\ w \in RunType /\ w.job = run[g].job /\ w.pc = run[g].pc /\ w.mode = run[g].mode
      /\ w.abort = run[g].abort /\ w.killed = run[g].killed /\ w.dispatched = run[g].dispatched
      /\ w.att = after.num /\ w.wk = "admitted"
  BY <1>2, <1>4 DEF RunType, LiveWorker
<1> HIDE DEF w
<1>7. Goes(g, "admitted") /\ run'[g].att = after.num
  BY <1>1, <1>5, <1>6, GoesBy
<1>8. UNCHANGED <<dispatches, outcome>> /\ db'[run[g].job] = after
  BY <1>2, <1>3 DEF WorkerAdmit
<1> QED
  BY <1>1, <1>2, <1>4, <1>7, <1>8

(* The effect of a job starts when its attempt executes. *)
LEMMA StartMoves ==
  ASSUME IInv, NEW g \in Tokens, WorkerStart(g)
  PROVE  LET r == db[run[g].job]  r2 == db'[run[g].job]  i == run[g].job IN
         /\ run[g].wk = "admitted" /\ Goes(g, "started")
         /\ \/ r2 = r /\ r.state = "running" /\ run[g].att = r.num
            \/ Passes(g, r, r2, "running")
         /\ HasEffect(g) => dispatches'[i] = dispatches[i] + 1 /\ outcome'[i] = "none"
         /\ ~HasEffect(g) => dispatches'[i] = dispatches[i] /\ outcome'[i] = outcome[i]
<1>1. run[g].wk \in LiveWorker /\ run[g].wk = "admitted"
  BY DEF WorkerStart, LiveWorker
<1>2. /\ run[g].job \in Jobs /\ Row(g) = db[run[g].job] /\ Row(g) \in RowType
      /\ \A x : SetRow(run[g].job, x) => db'[run[g].job] = x
  BY <1>1, WrittenIs
<1>3. Goes(g, "started")
  BY <1>1, WorkerGoesBy DEF WorkerStart, WorkerStates, LiveWorker
<1>4. LET r == Row(g)  r2 == db'[run[g].job] IN
      \/ r2 = r /\ r.state = "running" /\ run[g].att = r.num
      \/ Passes(g, r, r2, "running")
  BY <1>2, PassesBy DEF WorkerStart
<1>5. LET i == run[g].job IN
      /\ HasEffect(g) => dispatches'[i] = dispatches[i] + 1 /\ outcome'[i] = "none"
      /\ ~HasEffect(g) => dispatches'[i] = dispatches[i] /\ outcome'[i] = outcome[i]
  BY <1>2 DEF WorkerStart, HasEffect, IInv, TypeOK
<1> QED
  BY <1>1, <1>2, <1>3, <1>4, <1>5

(* A worker that fails closes its attempt if the ledger lets it. *)
LEMMA ClosesBy ==
  ASSUME IInv, NEW g \in Tokens, run[g].wk \in LiveWorker, NEW to,
         SetRow(run[g].job, failAttempt(g, to))
  PROVE  LET r == db[run[g].job]  r2 == db'[run[g].job] IN
         \/ Rests(r, r2) /\ (Deferred(g) \/ ~CanTransition(r, g, run[g].att, to))
         \/ Passes(g, r, r2, to)
<1>1. /\ run[g].job \in Jobs /\ Row(g) = db[run[g].job] /\ Row(g) \in RowType
      /\ \A x : SetRow(run[g].job, x) => db'[run[g].job] = x
  BY WrittenIs
<1> QED
  BY <1>1, PassesBy DEF failAttempt, Rests, Alike, SameRow

LEMMA CloseMoves ==
  ASSUME IInv, NEW g \in Tokens, WorkerDenied(g) \/ WorkerThrows(g) \/ WorkerUncertain(g)
  PROVE  LET r == db[run[g].job]  r2 == db'[run[g].job]  i == run[g].job IN
         /\ run[g].wk \in {"admitted", "started", "returned"} /\ Goes(g, "err")
         /\ dispatches' = dispatches
         /\ \E told \in BOOLEAN, to \in {"failed", "cancelled", "needs-review"} :
              /\ told => Interrupted(g) /\ r.kind.graceful
              /\ \/ Rests(r, r2) /\ (Deferred(g) \/ ~CanTransition(r, g, run[g].att, to))
                 \/ Passes(g, r, r2, to)
              /\ told => to = UncertainOr(g, "cancelled")
              /\ \/ run[g].wk = "admitted" /\ UNCHANGED outcome
                 \/ told /\ UNCHANGED outcome
                 \/ ~told /\ to = "failed" /\ run[g].wk = "started"
                    /\ outcome'[i] = (IF HasEffect(g) THEN "failed" ELSE outcome[i])
                 \/ ~told /\ to = UncertainOr(g, "failed") /\ run[g].wk \in {"started", "returned"}
                    /\ UNCHANGED outcome
<1>1. run[g].wk \in LiveWorker /\ run[g].wk \in {"admitted", "started", "returned"}
  BY DEF WorkerDenied, WorkerThrows, WorkerUncertain, LiveWorker
<1>2. run[g].job \in Jobs /\ Row(g) = db[run[g].job]
  BY <1>1, WrittenIs
<1>3. Goes(g, "err") /\ dispatches' = dispatches
  BY <1>1, WorkerGoesBy DEF WorkerDenied, WorkerThrows, WorkerUncertain, WorkerStates, Reported
<1>4. PICK told \in BOOLEAN, to \in {"failed", "cancelled", "needs-review"} :
        /\ told => Interrupted(g) /\ Row(g).kind.graceful
        /\ SetRow(run[g].job, failAttempt(g, to))
        /\ told => to = UncertainOr(g, "cancelled")
        /\ \/ run[g].wk = "admitted" /\ to = ErrorState(g, told) /\ UNCHANGED outcome
           \/ told /\ UNCHANGED outcome
           \/ ~told /\ to = "failed" /\ run[g].wk = "started"
              /\ outcome'[run[g].job] = (IF HasEffect(g) THEN "failed" ELSE outcome[run[g].job])
           \/ ~told /\ to = UncertainOr(g, "failed") /\ run[g].wk \in {"started", "returned"}
              /\ UNCHANGED outcome
  <2>1. CASE WorkerDenied(g)
    <3>1. PICK told \in MayBeTold(g) : SetRow(run[g].job, failAttempt(g, ErrorState(g, told)))
      BY <2>1 DEF WorkerDenied
    <3>2. told \in BOOLEAN /\ (told => Interrupted(g) /\ Row(g).kind.graceful)
      BY <3>1 DEF MayBeTold
    <3>3. run[g].wk = "admitted" /\ UNCHANGED outcome
      BY <2>1 DEF WorkerDenied
    <3> QED
      BY <3>1, <3>2, <3>3 DEF ErrorState, UncertainOr
  <2>2. CASE WorkerThrows(g)
    <3>1. PICK told \in MayBeTold(g) :
            /\ SetRow(run[g].job, failAttempt(g, ErrorState(g, told)))
            /\ IF told THEN UNCHANGED outcome ELSE KnownOutcome(g, "failed")
      BY <2>2 DEF WorkerThrows
    <3>2. told \in BOOLEAN /\ (told => Interrupted(g) /\ Row(g).kind.graceful)
      BY <3>1 DEF MayBeTold
    <3>3. ~told => outcome'[run[g].job] = (IF HasEffect(g) THEN "failed" ELSE outcome[run[g].job])
      BY <1>2, <3>1 DEF KnownOutcome, IInv, TypeOK
    <3>4. run[g].wk = "started"
      BY <2>2 DEF WorkerThrows
    <3> QED
      BY <3>1, <3>2, <3>3, <3>4 DEF ErrorState, UncertainOr
  <2>3. CASE WorkerUncertain(g)
    BY <2>3 DEF WorkerUncertain, UncertainOr
  <2> QED
    BY <2>1, <2>2, <2>3
<1>5. LET r == db[run[g].job]  r2 == db'[run[g].job] IN
      \/ Rests(r, r2) /\ (Deferred(g) \/ ~CanTransition(r, g, run[g].att, to))
      \/ Passes(g, r, r2, to)
  BY <1>1, <1>4, ClosesBy
<1> QED
  BY <1>1, <1>2, <1>3, <1>4, <1>5

(* The attempt of an approval request waits for the operator. *)
LEMMA AskMoves ==
  ASSUME IInv, NEW g \in Tokens, WorkerApproval(g)
  PROVE  LET r == db[run[g].job]  r2 == db'[run[g].job] IN
         /\ run[g].wk = "started" /\ r.kind.approval /\ run[g].mode = "run"
         /\ UNCHANGED <<dispatches, outcome>>
         /\ \/ Passes(g, r, r2, "awaiting-approval") /\ Goes(g, "approval")
            \/ Rests(r, r2) /\ ~CanTransition(r, g, run[g].att, "awaiting-approval") /\ Goes(g, "err")
<1>1. run[g].wk \in LiveWorker /\ run[g].wk = "started"
  BY DEF WorkerApproval, LiveWorker
<1>2. /\ run[g].job \in Jobs /\ Row(g) = db[run[g].job] /\ Row(g) \in RowType
      /\ \A x : SetRow(run[g].job, x) => db'[run[g].job] = x
  BY <1>1, WrittenIs
<1>3. /\ Row(g).kind.approval /\ run[g].mode = "run" /\ UNCHANGED <<dispatches, outcome>>
  BY DEF WorkerApproval
<1>4. CASE CanTransition(Row(g), g, run[g].att, "awaiting-approval")
  <2>1. Goes(g, "approval")
    BY <1>1, <1>4, WorkerGoesBy DEF WorkerApproval, WorkerStates, Reported
  <2>2. Passes(g, Row(g), db'[run[g].job], "awaiting-approval")
    BY <1>2, <1>4, PassesBy DEF WorkerApproval
  <2> QED
    BY <1>1, <1>2, <1>3, <2>1, <2>2
<1>5. CASE ~CanTransition(Row(g), g, run[g].att, "awaiting-approval")
  <2>1. Goes(g, "err") /\ UNCHANGED db
    BY <1>1, <1>5, WorkerGoesBy DEF WorkerApproval, WorkerStates, Reported
  <2>2. Rests(Row(g), db'[run[g].job])
    BY <1>2, <2>1 DEF Rests, Alike, SameRow
  <2> QED
    BY <1>1, <1>2, <1>3, <1>5, <2>1, <2>2
<1> QED
  BY <1>4, <1>5

(* The audit store hears of the effect before the ledger does. *)
LEMMA ReturnMoves ==
  ASSUME IInv, NEW g \in Tokens, WorkerReturns(g)
  PROVE  LET r == db[run[g].job]  r2 == db'[run[g].job]  i == run[g].job IN
         /\ run[g].wk = "started" /\ Goes(g, "returned") /\ HasEffect(g) /\ ~r.kind.fenced
         /\ SameRow(r, r2) /\ r2.state = r.state /\ r2.owner = r.owner /\ r2.num = r.num
         /\ r2.attempts = r.attempts /\ r2.audited /\ r2.persisted = r.persisted
         /\ dispatches' = dispatches /\ outcome'[i] = "ok"
<1>1. run[g].wk \in LiveWorker /\ run[g].wk = "started"
  BY DEF WorkerReturns, LiveWorker
<1>2. /\ run[g].job \in Jobs /\ Row(g) = db[run[g].job] /\ Row(g) \in RowType
      /\ \A x : SetRow(run[g].job, x) => db'[run[g].job] = x
  BY <1>1, WrittenIs
<1>3. Goes(g, "returned")
  BY <1>1, WorkerGoesBy DEF WorkerReturns, WorkerStates, LiveWorker
<1>4. db'[run[g].job] = [Row(g) EXCEPT !.audited = TRUE] /\ HasEffect(g) /\ ~Row(g).kind.fenced
  BY <1>2 DEF WorkerReturns
<1>5. dispatches' = dispatches /\ outcome'[run[g].job] = "ok"
  BY <1>2, <1>4 DEF WorkerReturns, KnownOutcome, IInv, TypeOK
<1> QED
  BY <1>1, <1>2, <1>3, <1>4, <1>5, FlagIs

(* A graph settles its attempt as it ended; another tool completes it. *)
LEMMA EndMoves ==
  ASSUME IInv, NEW g \in Tokens, WorkerGraphEnds(g) \/ WorkerSettles(g)
  PROVE  LET r == db[run[g].job]  r2 == db'[run[g].job]  i == run[g].job IN
         /\ dispatches' = dispatches
         /\ \/ /\ run[g].wk = "started" /\ r.kind.fenced /\ Goes(g, "ok")
               /\ \/ Rests(r, r2) /\ (run[g].att # r.num \/ Settled(r)) /\ UNCHANGED outcome
                  \/ \E status \in TERMINAL_JOB_STATES :
                       /\ Passes(g, r, r2, status)
                       /\ outcome'[i] = IF ~HasEffect(g) THEN outcome[i]
                                        ELSE IF status = "completed" THEN "ok" ELSE "failed"
            \/ /\ run[g].wk = "returned" /\ UNCHANGED outcome
               /\ LET live == run[g].att = r.num /\ ~Settled(r) /\ ~Deferred(g) IN
                  \/ ~live /\ Rests(r, r2) /\ Goes(g, "ok")
                  \/ live /\ Passes(g, r, r2, "completed") /\ Goes(g, "ok")
                  \/ live /\ ~CanTransition(r, g, run[g].att, "completed") /\ Rests(r, r2) /\ Goes(g, "err")
<1>1. run[g].wk \in LiveWorker
  BY DEF WorkerGraphEnds, WorkerSettles, LiveWorker
<1>2. /\ run[g].job \in Jobs /\ Row(g) = db[run[g].job] /\ Row(g) \in RowType
      /\ \A x : SetRow(run[g].job, x) => db'[run[g].job] = x
  BY <1>1, WrittenIs
<1>3. dispatches' = dispatches
  BY DEF WorkerGraphEnds, WorkerSettles
<1>4. \A wk \in {"ok", "err"} : WorkerGoes(g, wk) => Goes(g, wk)
  BY <1>1, WorkerGoesBy DEF WorkerStates, Reported
<1>5. Rests(Row(g), Row(g))
  BY DEF Rests, Alike, SameRow
<1>6. CASE WorkerGraphEnds(g)
  <2>1. run[g].wk = "started" /\ Row(g).kind.fenced /\ Goes(g, "ok")
    BY <1>4, <1>6 DEF WorkerGraphEnds
  <2>2. CASE run[g].att # Row(g).num \/ Settled(Row(g))
    BY <1>2, <1>3, <1>5, <1>6, <2>1, <2>2 DEF WorkerGraphEnds
  <2>3. CASE ~(run[g].att # Row(g).num \/ Settled(Row(g)))
    <3>1. PICK status \in TERMINAL_JOB_STATES :
            /\ CanTransition(Row(g), g, run[g].att, status)
            /\ SetRow(run[g].job, transitionExecutionAttempt(Row(g), g, status))
            /\ KnownOutcome(g, IF status = "completed" THEN "ok" ELSE "failed")
      BY <1>6, <2>3 DEF WorkerGraphEnds
    <3>2. Passes(g, Row(g), db'[run[g].job], status)
      BY <1>2, <3>1, PassesBy
    <3>3. outcome'[run[g].job] = IF ~HasEffect(g) THEN outcome[run[g].job]
                                 ELSE IF status = "completed" THEN "ok" ELSE "failed"
      BY <1>2, <3>1 DEF KnownOutcome, IInv, TypeOK
    <3> QED
      BY <1>2, <1>3, <2>1, <3>2, <3>3
  <2> QED
    BY <2>2, <2>3
<1>7. CASE WorkerSettles(g)
  <2> DEFINE live == run[g].att = Row(g).num /\ ~Settled(Row(g)) /\ ~Deferred(g)
  <2>1. run[g].wk = "returned" /\ UNCHANGED outcome
    BY <1>7 DEF WorkerSettles
  <2>2. CASE ~live
    BY <1>2, <1>3, <1>4, <1>5, <1>7, <2>1, <2>2 DEF WorkerSettles
  <2>3. CASE live /\ CanTransition(Row(g), g, run[g].att, "completed")
    <3>1. Passes(g, Row(g), db'[run[g].job], "completed") /\ Goes(g, "ok")
      BY <1>2, <1>4, <1>7, <2>3, PassesBy DEF WorkerSettles
    <3> QED
      BY <1>2, <1>3, <2>1, <2>3, <3>1
  <2>4. CASE live /\ ~CanTransition(Row(g), g, run[g].att, "completed")
    BY <1>2, <1>3, <1>4, <1>5, <1>7, <2>1, <2>4 DEF WorkerSettles
  <2> QED
    BY <2>2, <2>3, <2>4
<1> QED
  BY <1>6, <1>7

(* A step of a worker is seen by its own run only. *)
LEMMA WorkerFrame ==
  ASSUME IInv, NEW g \in Tokens, WorkerStep(g)
  PROVE  /\ run[g].wk \in LiveWorker /\ Present(g) /\ run[g].job \in Jobs /\ run'[g].job = run[g].job
         /\ SameRow(db[run[g].job], db'[run[g].job])
         /\ \A h \in Tokens \ {g} : run'[h] = run[h] /\ (Present(h)' <=> Present(h))
<1>1. run[g].wk \in LiveWorker /\ run[g].job \in Jobs /\ SameRow(db[run[g].job], db'[run[g].job])
  BY WorkerWorks
<1>2. run'[g].job = run[g].job
  BY WorkerOnward DEF Onward
<1>3. \A h \in Tokens \ {g} : run'[h] = run[h]
  BY OtherRuns DEF RunStep
<1>4. \A h \in Tokens \ {g} : Present(h)' <=> Present(h)
  BY <1>3 DEF Present, Alive, Working
<1> QED
  BY <1>1, <1>2, <1>3, <1>4 DEF Present, Working

(* The continuation is given its worker. *)
LEMMA ForkMoves ==
  ASSUME IInv, NEW g \in Tokens, ApprovalDispatch(g)
  PROVE  /\ UNCHANGED <<db, dispatches, outcome, owned>>
         /\ \A h \in Tokens \ {g} : run'[h] = run[h] /\ (Present(h)' <=> Present(h))
         /\ Present(g) /\ Alive(g) /\ run[g].mode = "approval" /\ run[g].wk = "none" /\ run[g].abort = "none"
         /\ run'[g].job = run[g].job /\ run'[g].mode = "approval" /\ run'[g].dispatched
         /\ run'[g].wk \in {"boot", "err"} /\ run'[g].abort = "none" /\ run'[g].pc = "exec"
<1>1. run[g] \in RunType
  BY DEF IInv, TypeOK
<1> DEFINE w == [run[g] EXCEPT !.dispatched = TRUE, !.killed = ~owned,
                               !.wk = IF owned THEN "boot" ELSE "err"]
<1>2. /\ w.job = run[g].job /\ w.pc = run[g].pc /\ w.mode = run[g].mode /\ w.dispatched
      /\ w.wk \in {"boot", "err"} /\ w.abort = run[g].abort
  BY <1>1 DEF RunType
<1>3. run'[g] = w /\ \A h \in Tokens \ {g} : run'[h] = run[h]
  BY <1>1 DEF ApprovalDispatch, IInv, TypeOK, RunType
<1> HIDE DEF w
<1>4. \A h \in Tokens \ {g} : Present(h)' <=> Present(h)
  BY <1>3 DEF Present, Alive, Working
<1> QED
  BY <1>2, <1>3, <1>4 DEF ApprovalDispatch, UnchangedWorld, Present, Alive

LEMMA PersistFrame ==
  ASSUME OwnedInv, NEW g \in Tokens, RunPersist(g)
  PROVE  /\ UNCHANGED <<dispatches, outcome>>
         /\ \A h \in Tokens : run'[h].job = run[h].job /\ Unmoved(h)
<1>1. run[g] \in RunType /\ IInv
  BY DEF OwnedInv, IInv, TypeOK
<1> DEFINE w == [run[g] EXCEPT !.pc = "persisted"]
<1>2. /\ w \in RunType /\ w.job = run[g].job /\ w.mode = run[g].mode /\ w.att = run[g].att
      /\ w.dispatched = run[g].dispatched /\ w.wk = run[g].wk /\ w.abort = run[g].abort
  BY <1>1 DEF RunType
<1>3. run'[g] = w /\ Alive(g) /\ \A h \in Tokens \ {g} : run'[h] = run[h]
  BY <1>1 DEF RunPersist, Answered, Alive, IInv, TypeOK
<1> HIDE DEF w
<1>4. \A h \in Tokens : run'[h].job = run[h].job /\ Unmoved(h)
  BY <1>2, <1>3, UnmovedBy, StillUnmoved
<1> QED
  BY <1>4 DEF RunPersist, UnchangedWorld

(* Every other step: the supervisor moves the job, or leaves it alone. *)
Aside(i) ==
  /\ ~Claims(i) /\ ~Submits(i)
  /\ \A g \in Tokens : run[g].job = i => ~WorkerStep(g) /\ ~RunPersist(g) /\ ~ApprovalDispatch(g)

LEMMA AsideMoves ==
  ASSUME OwnedInv, LifeInv', [Next]_vars, NEW i \in Jobs, Aside(i)
  PROVE  /\ db'[i] = db[i] \/ Moved(i)
         /\ dispatches'[i] = dispatches[i] /\ outcome'[i] = outcome[i]
         /\ \A h \in Tokens : run'[h].job = i /\ Present(h)' => run[h].job = i /\ Unmoved(h)
         /\ \A h \in Tokens : run'[h].job = i /\ Alive(h)' /\ run'[h].abort = "none" => db'[i] = db[i]
<1>1. db'[i] = db[i] \/ Moved(i)
  BY RowMoves DEF Aside
<1>2. dispatches'[i] = dispatches[i] /\ outcome'[i] = outcome[i]
  BY GhostsKept DEF OwnedInv, Aside
<1>3. ASSUME NEW h \in Tokens, run'[h].job = i, Present(h)' PROVE run[h].job = i /\ Unmoved(h)
  <2>1. ASSUME NEW j \in Jobs, Claims(j) PROVE run[h].job = i /\ Unmoved(h)
    <3>1. j # i
      BY <2>1 DEF Aside
    <3>2. h # issued + 1
      BY <1>3, <2>1, <3>1, ClaimMoves DEF NewRun
    <3> QED
      BY <1>3, <2>1, <3>2, ClaimMoves
  <2>2. CASE ~\E j \in Jobs : Claims(j)
    <3>1. run[h].job = i
      BY <1>3, <2>2, StepOnward DEF Onward, OwnedInv
    <3> QED
      BY <2>2, <3>1, OthersUnmoved DEF OwnedInv, Aside
  <2> QED
    BY <2>1, <2>2
<1>4. ASSUME NEW h \in Tokens, run'[h].job = i, Alive(h)', run'[h].abort = "none" PROVE db'[i] = db[i]
  <2>1. db'[i].status = "running"
    BY <1>4 DEF LifeInv, RunsGoverned, Governed, Heeds, Row, Alive
  <2> QED
    BY <1>1, <2>1 DEF Moved, Ending, Ended, Stopping, Asking, Requeued, Withdrawn
<1> QED
  BY <1>1, <1>2, <1>3, <1>4

(* Whatever a step is to a job. *)
LEMMA StepsOf ==
  ASSUME NEW i \in Jobs
  PROVE  \/ Claims(i) \/ Submits(i) \/ Aside(i)
         \/ \E g \in Tokens : run[g].job = i /\ (WorkerStep(g) \/ RunPersist(g) \/ ApprovalDispatch(g))
  BY DEF Aside

---------------------------------------------------------------------------
(* Approvals, and what is known of a job that was not submitted *)

ShapedRun(w, r) ==
  /\ w.mode = "approval" => r.kind.approval
  /\ w.wk = "approval" => r.kind.approval /\ w.mode = "run"
  /\ w.mode = "approval" /\ ~w.dispatched => w.wk = "none"
ShapedRow(r, d) ==
  /\ r.status = "absent" => d = 0 /\ r.num = 0 /\ r.attempts = 0 /\ ~r.audited /\ ~r.persisted
  /\ r.state = "awaiting-approval" \/ r.status = "awaiting-approval" => r.kind.approval
Shaped(i) ==
  /\ ShapedRow(db[i], dispatches[i])
  /\ \A g \in Tokens : run[g].job = i /\ Present(g) => ShapedRun(run[g], db[i])

(* A job waits for the operator, and is continued, only if its tool asks. *)
LEMMA ShapedStep ==
  ASSUME OwnedInv, LifeInv', [Next]_vars, NEW i \in Jobs, Shaped(i)
  PROVE  Shaped(i)'
<1> DEFINE r == db[i]
           r2 == db'[i]
<1> SUFFICES /\ ShapedRow(r2, dispatches'[i])
             /\ \A h \in Tokens : run'[h].job = i /\ Present(h)' => ShapedRun(run'[h], r2)
  BY DEF Shaped, Present, Alive, Working
<1>1. IInv /\ r \in RowType /\ LedgerConsistent(r)
  BY Parts, RowIsGood DEF OwnedInv, Good
<1>2. CASE Claims(i)
  <2>1. ShapedRow(r2, dispatches'[i])
    BY <1>2, ClaimMoves DEF Shaped, ShapedRow
  <2>2. ASSUME NEW h \in Tokens, run'[h].job = i, Present(h)' PROVE ShapedRun(run'[h], r2)
    <3>1. CASE h = issued + 1
      <4>1. /\ NewRun(run'[h], i) /\ r2.kind = r.kind
            /\ run'[h].mode = "run" <=> DrainDispatch(i)
            /\ r.status = IF DrainDispatch(i) THEN "queued" ELSE "awaiting-approval"
        BY <1>2, <3>1, ClaimMoves
      <4> QED
        BY <4>1 DEF NewRun, ShapedRun, Shaped, ShapedRow
    <3>2. CASE h # issued + 1
      <4>1. run'[h] = run[h] /\ Unmoved(h) /\ r2.kind = r.kind
        BY <1>2, <3>2, ClaimMoves
      <4> QED
        BY <2>2, <4>1 DEF Unmoved, Shaped, ShapedRun
    <3> QED
      BY <3>1, <3>2
  <2> QED
    BY <2>1, <2>2
<1>3. CASE Submits(i)
  <2>1. /\ r.status = "absent" /\ r2.status = "queued" /\ r2.state = r.state /\ run' = run
        /\ \A h \in Tokens : Taken(h) => run[h].job # i
    BY <1>3, SubmitMoves
  <2>2. r.state = "none"
    BY <1>1, <2>1 DEF Shaped, ShapedRow, LedgerConsistent
  <2> QED
    BY <2>1, <2>2 DEF ShapedRow, Present, Taken, Alive, Working, LiveWorker
<1>4. ASSUME NEW g \in Tokens, run[g].job = i, WorkerStep(g)
      PROVE  /\ ShapedRow(r2, dispatches'[i])
             /\ \A h \in Tokens : run'[h].job = i /\ Present(h)' => ShapedRun(run'[h], r2)
  <2>1. /\ run[g].wk \in LiveWorker /\ Present(g) /\ SameRow(r, r2)
        /\ \A h \in Tokens \ {g} : run'[h] = run[h] /\ (Present(h)' <=> Present(h))
    BY <1>1, <1>4, WorkerFrame
  <2>2. r.status # "absent"
    BY <1>4, <2>1 DEF OwnedInv, OwnInv, Submitted, Row, Taken, LiveWorker
  <2>3. /\ r2.state = "awaiting-approval" => r.state = "awaiting-approval" \/ r.kind.approval
        /\ Present(g)' => /\ run'[g].mode = run[g].mode /\ run'[g].dispatched = run[g].dispatched
                          /\ run'[g].wk = "approval" => r.kind.approval /\ run[g].mode = "run"
    <3>1. CASE WorkerBind(g) \/ WorkerRefused(g) \/ WorkerExits(g)
      BY <1>1, <1>4, <3>1, BindMoves DEF Goes, Rests
    <3>2. CASE WorkerAdmit(g)
      BY <1>1, <1>4, <3>2, AdmitMoves DEF Goes
    <3>3. CASE WorkerStart(g)
      BY <1>1, <1>4, <3>3, StartMoves DEF Goes, Passes
    <3>4. CASE WorkerDenied(g) \/ WorkerThrows(g) \/ WorkerUncertain(g)
      BY <1>1, <1>4, <3>4, CloseMoves DEF Goes, Passes, Rests
    <3>5. CASE WorkerApproval(g)
      BY <1>1, <1>4, <3>5, AskMoves DEF Goes, Passes, Rests
    <3>6. CASE WorkerReturns(g)
      BY <1>1, <1>4, <3>6, ReturnMoves DEF Goes
    <3>7. CASE WorkerGraphEnds(g) \/ WorkerSettles(g)
      BY <1>1, <1>4, <3>7, EndMoves DEF Goes, Passes, Rests
    <3> QED
      BY <1>4, <3>1, <3>2, <3>3, <3>4, <3>5, <3>6, <3>7 DEF WorkerStep
  <2>4. ShapedRow(r2, dispatches'[i])
    BY <2>1, <2>2, <2>3 DEF Shaped, ShapedRow, SameRow
  <2>5. ShapedRun(run[g], r)
    BY <1>4, <2>1 DEF Shaped
  <2>6. Present(g)' => ShapedRun(run'[g], r2)
    BY <2>1, <2>3, <2>5 DEF ShapedRun, SameRow, LiveWorker
  <2>7. ASSUME NEW h \in Tokens, run'[h].job = i, Present(h)' PROVE ShapedRun(run'[h], r2)
    BY <2>1, <2>6, <2>7 DEF Shaped, ShapedRun, SameRow
  <2> QED
    BY <2>4, <2>7
<1>5. ASSUME NEW g \in Tokens, run[g].job = i, RunPersist(g)
      PROVE  /\ ShapedRow(r2, dispatches'[i])
             /\ \A h \in Tokens : run'[h].job = i /\ Present(h)' => ShapedRun(run'[h], r2)
  <2>1. /\ SameRow(r, r2) /\ r2.state = r.state /\ Alive(g) /\ dispatches' = dispatches
        /\ \A h \in Tokens : run'[h].job = run[h].job /\ Unmoved(h)
    BY <1>5, PersistMoves, PersistFrame
  <2>2. r.status # "absent"
    BY <1>5, <2>1 DEF OwnedInv, OwnInv, Submitted, Row, Taken, Alive
  <2>3. ASSUME NEW h \in Tokens, run'[h].job = i, Present(h)' PROVE ShapedRun(run'[h], r2)
    BY <2>1, <2>3 DEF Shaped, ShapedRun, SameRow, Unmoved, LiveWorker
  <2> QED
    BY <2>1, <2>2, <2>3 DEF Shaped, ShapedRow, SameRow
<1>6. ASSUME NEW g \in Tokens, run[g].job = i, ApprovalDispatch(g)
      PROVE  /\ ShapedRow(r2, dispatches'[i])
             /\ \A h \in Tokens : run'[h].job = i /\ Present(h)' => ShapedRun(run'[h], r2)
  <2>1. r2 = r /\ dispatches' = dispatches
    BY <1>1, <1>6, ForkMoves
  <2>2. ASSUME NEW h \in Tokens, run'[h].job = i, Present(h)' PROVE ShapedRun(run'[h], r2)
    <3>1. CASE h = g
      <4>1. /\ run'[g].mode = "approval" /\ run'[g].dispatched /\ run'[g].wk \in {"boot", "err"}
            /\ Present(g) /\ run[g].mode = "approval"
        BY <1>1, <1>6, ForkMoves
      <4> QED
        BY <1>6, <2>1, <3>1, <4>1 DEF Shaped, ShapedRun
    <3>2. CASE h # g
      BY <1>1, <1>6, <2>1, <2>2, <3>2, ForkMoves DEF Shaped
    <3> QED
      BY <3>1, <3>2
  <2> QED
    BY <2>1, <2>2 DEF Shaped
<1>7. CASE Aside(i)
  <2>1. /\ r2 = r \/ Moved(i)
        /\ dispatches'[i] = dispatches[i]
        /\ \A h \in Tokens : run'[h].job = i /\ Present(h)' => run[h].job = i /\ Unmoved(h)
    BY <1>7, AsideMoves
  <2>2. r2.kind = r.kind
    BY <2>1 DEF Moved, Kin
  <2>3. ASSUME NEW h \in Tokens, run'[h].job = i, Present(h)' PROVE ShapedRun(run'[h], r2)
    BY <2>1, <2>2, <2>3 DEF Shaped, ShapedRun, Unmoved, LiveWorker
  <2>4. ASSUME Moved(i) PROVE ShapedRow(r2, dispatches'[i])
    <3>1. r2.status # "absent"
      BY <2>4 DEF Moved, Ending, Ended, Stopping, Asking, Requeued, Withdrawn
    <3>2. ASSUME r2.state = "awaiting-approval" PROVE r.state = "awaiting-approval"
      BY <2>4, <3>2 DEF Moved, Ending, Ended, Stopping, Asking, Requeued, Withdrawn, MovedState
    <3>3. ASSUME r2.status = "awaiting-approval" PROVE r.kind.approval
      <4>1. Asking(i)
        BY <2>4, <3>3 DEF Moved, Ending, Ended, Stopping, Asking, Requeued, Withdrawn
      <4> QED
        BY <4>1 DEF Asking, Shaped, ShapedRow, ShapedRun, Present
    <3> QED
      BY <2>2, <3>1, <3>2, <3>3 DEF Shaped, ShapedRow
  <2> QED
    BY <2>1, <2>3, <2>4 DEF Shaped
<1> QED
  BY <1>2, <1>3, <1>4, <1>5, <1>6, <1>7, StepsOf

---------------------------------------------------------------------------
(* The effect of a tool that may not be repeated *)

Waiting == {"absent", "queued", "awaiting-approval"}
Executing == {"running", "cancelling"}

(* The worker of a job whose effect was started is past its admission, and one   *)
(* that is not has a job nobody executes.                                      *)
OnceRun(w, r, d) ==
  /\ d > 0 => ~(r.kind.approval /\ w.mode = "run") /\ w.wk \notin Starting \cup {"none"}
  /\ w.wk \in Starting \cup {"none"} => r.state \notin Executing
  /\ w.pc \in {"exec", "persisted"} /\ w.abort = "none" /\ w.wk = "approval"
     => r.state = "awaiting-approval"

(* There is one attempt at most, and while the job waits it has not started.     *)
OnceRow(r, d) ==
  /\ r.num <= 1 /\ d <= 1
  /\ r.status \in {"absent", "queued"} => r.state \in {"none", "queued"}
  /\ r.status = "awaiting-approval" => r.state = "awaiting-approval"
  /\ r.state = "cancelling" => r.status \in {"cancelling"} \cup TERMINAL_JOB_STATES
  /\ d > 0 => r.status \notin Waiting /\ r.state \in Executing \cup TERMINAL_JOB_STATES

Once(i) ==
  ~db[i].kind.retrySafe =>
    /\ OnceRow(db[i], dispatches[i])
    /\ \A g \in Tokens : run[g].job = i /\ Present(g) => OnceRun(run[g], db[i], dispatches[i])

(* A step of the only worker of the job: the attempt goes on, and its effect      *)
(* starts where it had not.                                                    *)
LEMMA OnceWorker ==
  ASSUME OwnedInv, NEW g \in Tokens, WorkerStep(g), Once(run[g].job), ~Row(g).kind.retrySafe
  PROVE  LET i == run[g].job IN
         /\ OnceRow(db'[i], dispatches'[i])
         /\ Present(g)' => OnceRun(run'[g], db'[i], dispatches'[i])
<1> DEFINE i == run[g].job
           r == db[i]
           r2 == db'[i]
           d == dispatches[i]
           d2 == dispatches'[i]
<1>1. IInv /\ i \in Jobs /\ Row(g) = r /\ r \in RowType /\ LedgerConsistent(r) /\ d \in Nat /\ r.num \in Nat
      /\ Present(g) /\ run[g].wk \in LiveWorker /\ SameRow(r, r2)
  BY WorkerFrame, Parts, RowIsGood DEF OwnedInv, Good, Row, IInv, TypeOK, RowType
<1>2. OnceRow(r, d) /\ OnceRun(run[g], r, d) /\ ~r.kind.retrySafe
  BY <1>1 DEF Once
<1>3. r.status \in Executing \cup TERMINAL_JOB_STATES
  BY <1>1, <1>2 DEF OwnedInv, OwnInv, UnsafeHeld, Executing
<1>4. r2.kind = r.kind /\ r2.status = r.status
  BY <1>1 DEF SameRow
<1>5. HasEffect(g) <=> ~(r.kind.approval /\ run[g].mode = "run")
  BY <1>1 DEF HasEffect
<1> DEFINE Goal == OnceRow(r2, d2) /\ (Present(g)' => OnceRun(run'[g], r2, d2))
<1>6. CASE WorkerBind(g) \/ WorkerRefused(g) \/ WorkerExits(g)
  <2>1. /\ r2.state = r.state /\ r2.num = r.num /\ d2 = d
        /\ \/ run[g].wk \in Starting /\ \E wk \in {"err", "bound", "ok"} : Goes(g, wk)
           \/ Goes(g, "dead")
    BY <1>1, <1>6, BindMoves DEF Rests, Alike, Starting
  <2> QED
    BY <1>2, <1>4, <2>1 DEF Goes, OnceRow, OnceRun, Starting
<1>7. CASE WorkerAdmit(g)
  <2>1. /\ d2 = d /\ run[g].wk = "bound" /\ Goes(g, "admitted")
        /\ \/ r2 = r /\ r.state \in {"queued", "awaiting-approval"}
           \/ r2.num = 1 /\ r2.state = "queued"
    BY <1>1, <1>2, <1>7, AdmitMoves
  <2>2. d = 0
    BY <1>1, <1>2, <2>1 DEF OnceRun, Starting
  <2> QED
    BY <1>2, <1>3, <1>4, <2>1, <2>2 DEF Goes, OnceRow, OnceRun, Starting, Executing, Waiting
<1>8. CASE WorkerStart(g)
  <2>1. /\ run[g].wk = "admitted" /\ Goes(g, "started")
        /\ \/ r2 = r /\ r.state = "running"
           \/ r2.state = "running" /\ r2.num = r.num
        /\ d2 = IF HasEffect(g) THEN d + 1 ELSE d
    BY <1>1, <1>8, StartMoves DEF Passes, Alike
  <2>2. d = 0 /\ r.state # "running"
    BY <1>1, <1>2, <2>1 DEF OnceRun, Starting, Executing
  <2>3. OnceRow(r2, d2)
    BY <1>2, <1>3, <1>4, <2>1, <2>2 DEF OnceRow, Executing, Waiting
  <2>4. Present(g)' => OnceRun(run'[g], r2, d2)
    BY <1>4, <1>5, <2>1, <2>2 DEF Goes, OnceRun, Starting, Executing
  <2> QED
    BY <2>3, <2>4
<1>9. ASSUME d2 = d, r2.num = r.num, r2.state \in {r.state} \cup TERMINAL_JOB_STATES,
             NEW wk \in {"err", "returned", "ok"}, Goes(g, wk)
      PROVE  Goal
  <2>1. d > 0 => run[g].wk \notin Starting \cup {"none"}
    BY <1>2 DEF OnceRun
  <2> QED
    BY <1>2, <1>3, <1>4, <1>9 DEF Goes, OnceRow, OnceRun, Starting, Executing, Waiting
<1>10. CASE WorkerDenied(g) \/ WorkerThrows(g) \/ WorkerUncertain(g)
  BY <1>1, <1>9, <1>10, CloseMoves DEF Passes, Rests, Alike
<1>11. CASE WorkerApproval(g)
  <2>1. /\ d2 = d /\ r.kind.approval /\ run[g].mode = "run" /\ r2.num = r.num
        /\ \/ r2.state = "awaiting-approval" /\ Goes(g, "approval")
           \/ r2.state = r.state /\ Goes(g, "err")
    BY <1>1, <1>11, AskMoves DEF Passes, Rests, Alike
  <2>2. d = 0
    BY <1>1, <1>2, <2>1 DEF OnceRun
  <2> QED
    BY <1>2, <1>3, <1>4, <2>1, <2>2 DEF Goes, OnceRow, OnceRun, Starting, Executing, Waiting
<1>12. CASE WorkerReturns(g)
  BY <1>1, <1>9, <1>12, ReturnMoves
<1>13. CASE WorkerGraphEnds(g) \/ WorkerSettles(g)
  <2>1. /\ d2 = d /\ r2.num = r.num /\ r2.state \in {r.state} \cup TERMINAL_JOB_STATES
        /\ \E wk \in {"err", "ok"} : Goes(g, wk)
    BY <1>1, <1>13, EndMoves DEF Passes, Rests, Alike
  <2> QED
    BY <1>9, <2>1
<1> QED
  BY <1>6, <1>7, <1>8, <1>10, <1>11, <1>12, <1>13 DEF WorkerStep

(* A step of the supervisor on the row of a job that it does not start. *)
LEMMA OnceMoved ==
  ASSUME OwnedInv, NEW i \in Jobs, Moved(i), Once(i), ~db[i].kind.retrySafe
  PROVE  /\ OnceRow(db'[i], dispatches[i])
         /\ db[i].state \notin Executing => db'[i].state \notin Executing
<1> DEFINE r == db[i]
           r2 == db'[i]
           d == dispatches[i]
<1>1. r \in RowType /\ LedgerConsistent(r) /\ d \in Nat /\ OnceRow(r, d) /\ r.num \in Nat
  BY Parts, RowIsGood DEF OwnedInv, Good, IInv, TypeOK, Once, RowType
<1>2. r2.kind = r.kind /\ r2.num = r.num
  BY DEF Moved, Kin
<1>3. CASE Ending(i)
  <2>1. /\ r2.status \in TERMINAL_JOB_STATES /\ r2.state \in {r.state} \cup TERMINAL_JOB_STATES
        /\ r.num > 0 => r2.state \in TERMINAL_JOB_STATES
    BY <1>1, <1>3 DEF Ending, Ended, MovedState, Settled
  <2> QED
    BY <1>1, <1>2, <2>1 DEF OnceRow, Executing, Waiting
<1>4. CASE Stopping(i)
  <2>1. r2.status = "cancelling" /\ (r2.state = r.state \/ (r.state = "running" /\ r2.state = "cancelling"))
    BY <1>4 DEF Stopping
  <2> QED
    BY <1>1, <1>2, <2>1 DEF OnceRow, Executing, Waiting
<1>5. CASE Asking(i)
  <2>1. r2.status = "awaiting-approval" /\ r2.state = r.state /\ r.state = "awaiting-approval"
    BY <1>5 DEF Asking, Once, OnceRun, Present, Alive
  <2> QED
    BY <1>1, <1>2, <2>1 DEF OnceRow, Executing
<1>6. CASE Requeued(i)
  <2>1. r2.status = "queued" /\ r2.state = r.state /\ (r.num = 0 \/ r.state = "queued")
    BY <1>6 DEF Requeued, RetryLeft
  <2>2. r.state \in {"none", "queued"}
    BY <1>1, <2>1 DEF LedgerConsistent
  <2> QED
    BY <1>1, <1>2, <2>1, <2>2 DEF OnceRow, Executing
<1>7. CASE Withdrawn(i)
  BY <1>1, <1>7 DEF Withdrawn, OnceRow
<1> QED
  BY <1>3, <1>4, <1>5, <1>6, <1>7 DEF Moved

(* The effect of a tool that may not be repeated is never started again. *)
LEMMA OnceStep ==
  ASSUME OwnedInv, LifeInv', [Next]_vars, NEW i \in Jobs, Shaped(i), Once(i)
  PROVE  Once(i)'
<1> DEFINE r == db[i]
           r2 == db'[i]
           d == dispatches[i]
           d2 == dispatches'[i]
<1> SUFFICES ASSUME ~r2.kind.retrySafe
             PROVE  /\ OnceRow(r2, d2)
                    /\ \A h \in Tokens : run'[h].job = i /\ Present(h)' => OnceRun(run'[h], r2, d2)
  BY DEF Once, Present, Alive, Working
<1>1. IInv /\ r \in RowType /\ LedgerConsistent(r) /\ d \in Nat
  BY Parts, RowIsGood DEF OwnedInv, Good, IInv, TypeOK
<1>2. CASE Submits(i)
  <2>1. /\ r.status = "absent" /\ r2.status = "queued" /\ r2.state = r.state /\ r2.num = r.num
        /\ run' = run /\ d2 = d
        /\ \A h \in Tokens : Taken(h) => run[h].job # i
    BY <1>2, SubmitMoves
  <2>2. r.state = "none" /\ d = 0 /\ r.num = 0
    BY <1>1, <2>1 DEF Shaped, ShapedRow, LedgerConsistent
  <2> QED
    BY <2>1, <2>2 DEF OnceRow, Present, Taken, Alive, Working, LiveWorker
<1>3. ASSUME ~Submits(i)
      PROVE  r2.kind = r.kind /\ ~r.kind.retrySafe /\ OnceRow(r, d)
  <2>1. r2.kind = r.kind
    BY <1>1, <1>3, RowsGrow DEF Grown, OwnedInv
  <2> QED
    BY <2>1 DEF Once
<1>4. CASE Claims(i) /\ ~Submits(i)
  <2>1. /\ r2.status = "running" /\ r2.num = r.num /\ r2.state = r.state /\ d2 = d
        /\ r.status = IF DrainDispatch(i) THEN "queued" ELSE "awaiting-approval"
    BY <1>4, ClaimMoves
  <2>2. d = 0 /\ r.state \in {"none", "queued", "awaiting-approval"} /\ r.num <= 1
    BY <1>1, <1>3, <1>4, <2>1 DEF OnceRow, Waiting
  <2>3. OnceRow(r2, d2)
    BY <2>1, <2>2 DEF OnceRow
  <2>4. ASSUME NEW h \in Tokens, run'[h].job = i, Present(h)' PROVE OnceRun(run'[h], r2, d2)
    <3>1. h = issued + 1
      <4>1. CASE h # issued + 1
        <5>1. Present(h) /\ run[h].job = i
          BY <1>4, <2>4, <4>1, ClaimMoves DEF Unmoved
        <5> QED
          BY <1>1, <1>3, <1>4, <5>1, ClaimedAlone DEF OwnedInv
      <4> QED
        BY <4>1
    <3>2. NewRun(run'[h], i)
      BY <1>4, <3>1, ClaimMoves
    <3> QED
      BY <2>1, <2>2, <3>2 DEF NewRun, OnceRun, Starting, Executing
  <2> QED
    BY <2>3, <2>4
<1>5. ASSUME NEW g \in Tokens, run[g].job = i, WorkerStep(g), ~Submits(i)
      PROVE  /\ OnceRow(r2, d2)
             /\ \A h \in Tokens : run'[h].job = i /\ Present(h)' => OnceRun(run'[h], r2, d2)
  <2>1. /\ Present(g)
        /\ \A h \in Tokens \ {g} : run'[h] = run[h] /\ (Present(h)' <=> Present(h))
    BY <1>1, <1>5, WorkerFrame
  <2>2. \A h \in Tokens \ {g} : ~(Present(h) /\ run[h].job = i)
    BY <1>3, <1>5, <2>1 DEF OwnedInv, OwnInv, UnsafeAlone, Row
  <2>3. OnceRow(r2, d2) /\ (Present(g)' => OnceRun(run'[g], r2, d2))
    BY <1>3, <1>5, OnceWorker DEF Row
  <2> QED
    BY <2>1, <2>2, <2>3
<1>6. ASSUME NEW g \in Tokens, run[g].job = i, RunPersist(g), ~Submits(i)
      PROVE  /\ OnceRow(r2, d2)
             /\ \A h \in Tokens : run'[h].job = i /\ Present(h)' => OnceRun(run'[h], r2, d2)
  <2>1. /\ SameRow(r, r2) /\ r2.state = r.state /\ r2.num = r.num /\ d2 = d
        /\ \A h \in Tokens : run'[h].job = run[h].job /\ Unmoved(h)
    BY <1>6, PersistMoves, PersistFrame
  <2>2. ASSUME NEW h \in Tokens, run'[h].job = i, Present(h)' PROVE OnceRun(run'[h], r2, d2)
    <3>1. run[h].job = i /\ Present(h) /\ OnceRun(run[h], r, d)
      BY <1>3, <1>6, <2>1, <2>2 DEF Unmoved, Once
    <3>2. /\ r2.kind = r.kind /\ r2.state = r.state /\ d2 = d /\ run'[h].mode = run[h].mode
          /\ run'[h].wk = run[h].wk \/ run'[h].wk = "dead"
          /\ Alive(h)' => Alive(h)
          /\ run'[h].abort = "none" => run[h].abort = "none"
      BY <2>1, <2>2 DEF SameRow, Unmoved
    <3>3. d2 > 0 => ~(r2.kind.approval /\ run'[h].mode = "run") /\ run'[h].wk \notin Starting \cup {"none"}
      BY <3>1, <3>2 DEF OnceRun, Starting
    <3>4. run'[h].wk \in Starting \cup {"none"} => r2.state \notin Executing
      BY <3>1, <3>2 DEF OnceRun, Starting
    <3>5. ASSUME run'[h].pc \in {"exec", "persisted"}, run'[h].abort = "none", run'[h].wk = "approval"
          PROVE  r2.state = "awaiting-approval"
      BY <3>1, <3>2, <3>5 DEF OnceRun, Alive
    <3> QED
      BY <3>3, <3>4, <3>5 DEF OnceRun
  <2> QED
    BY <1>3, <1>6, <2>1, <2>2 DEF OnceRow, SameRow
<1>7. ASSUME NEW g \in Tokens, run[g].job = i, ApprovalDispatch(g), ~Submits(i)
      PROVE  /\ OnceRow(r2, d2)
             /\ \A h \in Tokens : run'[h].job = i /\ Present(h)' => OnceRun(run'[h], r2, d2)
  <2>1. /\ r2 = r /\ d2 = d /\ Present(g) /\ run[g].wk = "none"
        /\ \A h \in Tokens \ {g} : run'[h] = run[h] /\ (Present(h)' <=> Present(h))
        /\ run'[g].wk \in {"boot", "err"}
    BY <1>1, <1>7, ForkMoves
  <2>2. OnceRun(run[g], r, d)
    BY <1>3, <1>7, <2>1 DEF Once
  <2>3. d = 0 /\ r.state \notin Executing
    BY <1>1, <2>1, <2>2 DEF OnceRun
  <2>4. OnceRun(run'[g], r2, d2)
    BY <2>1, <2>3 DEF OnceRun
  <2>5. ASSUME NEW h \in Tokens, h # g, run'[h].job = i, Present(h)' PROVE OnceRun(run'[h], r2, d2)
    BY <1>3, <1>7, <2>1, <2>5 DEF Once
  <2> QED
    BY <1>3, <1>7, <2>1, <2>4, <2>5
<1>8. CASE Aside(i) /\ ~Submits(i)
  <2>1. /\ r2 = r \/ Moved(i)
        /\ d2 = d
        /\ \A h \in Tokens : run'[h].job = i /\ Present(h)' => run[h].job = i /\ Unmoved(h)
        /\ \A h \in Tokens : run'[h].job = i /\ Alive(h)' /\ run'[h].abort = "none" => r2 = r
    BY <1>8, AsideMoves
  <2>2. OnceRow(r2, d2) /\ (r.state \notin Executing => r2.state \notin Executing)
    BY <1>3, <1>8, <2>1, OnceMoved
  <2>3. ASSUME NEW h \in Tokens, run'[h].job = i, Present(h)' PROVE OnceRun(run'[h], r2, d2)
    <3>1. run[h].job = i /\ Unmoved(h) /\ Present(h) /\ OnceRun(run[h], r, d)
      BY <1>3, <1>8, <2>1, <2>3 DEF Unmoved, Once
    <3>2. d2 > 0 => ~(r2.kind.approval /\ run'[h].mode = "run") /\ run'[h].wk \notin Starting \cup {"none"}
      BY <1>3, <1>8, <2>1, <2>3, <3>1 DEF Unmoved, OnceRun, Starting
    <3>3. run'[h].wk \in Starting \cup {"none"} => r2.state \notin Executing
      BY <2>2, <2>3, <3>1 DEF Unmoved, OnceRun, Starting
    <3>4. ASSUME run'[h].pc \in {"exec", "persisted"}, run'[h].abort = "none", run'[h].wk = "approval"
          PROVE  r2.state = "awaiting-approval"
      <4>1. Alive(h)' /\ r2 = r
        BY <2>1, <2>3, <3>4 DEF Alive
      <4> QED
        BY <2>3, <3>1, <3>4, <4>1 DEF Unmoved, OnceRun, Alive
    <3> QED
      BY <3>2, <3>3, <3>4 DEF OnceRun
  <2> QED
    BY <2>2, <2>3
<1> QED
  BY <1>2, <1>4, <1>5, <1>6, <1>7, <1>8, StepsOf

---------------------------------------------------------------------------
(* The effect of a tool that may be repeated *)

(* The tools that wait for an approval, run a process, answer a channel or run a *)
(* graph are four and not retry-safe (tool-safety.ts:22-34).                   *)
ToolKinds ==
  \A k \in Kinds :
    /\ k.protected \/ k.fenced \/ k.graceful \/ k.approval => ~k.retrySafe
    /\ k.protected \/ k.fenced => ~k.approval
    /\ ~(k.protected /\ k.fenced)

(* The workers that may still start the effect of a job. *)
Early(i) == {g \in Tokens : run[g].job = i /\ run[g].wk \in Starting}
Spent(i) == dispatches[i] + Cardinality(Early(i))

LEMMA TokenSets ==
  ASSUME NEW T \in SUBSET Tokens
  PROVE  /\ Cardinality(T) \in Nat
         /\ \A S \in SUBSET T : Cardinality(S) <= Cardinality(T)
         /\ \A g \in T : \A S \in SUBSET (T \ {g}) : Cardinality(S) + 1 <= Cardinality(T)
         /\ \A g \in Tokens : \A S \in SUBSET (T \cup {g}) : Cardinality(S) <= Cardinality(T) + 1
<1>1. \A S \in SUBSET Tokens : IsFiniteSet(S) /\ Cardinality(S) \in Nat
  <2>1. IsFiniteSet(Tokens)
    BY BoundsAssumption, FS_Interval
  <2> QED
    BY <2>1, FS_Subset, FS_CardinalityType
<1>2. \A S \in SUBSET T : Cardinality(S) <= Cardinality(T)
  BY <1>1, FS_Subset
<1>3. ASSUME NEW g \in T, NEW S \in SUBSET (T \ {g}) PROVE Cardinality(S) + 1 <= Cardinality(T)
  <2>1. Cardinality(T \ {g}) = Cardinality(T) - 1
    BY <1>1, FS_RemoveElement
  <2>2. Cardinality(S) <= Cardinality(T \ {g})
    BY <1>1, FS_Subset
  <2> QED
    BY <1>1, <2>1, <2>2
<1>4. ASSUME NEW g \in Tokens, NEW S \in SUBSET (T \cup {g}) PROVE Cardinality(S) <= Cardinality(T) + 1
  <2>1. Cardinality(T \cup {g}) <= Cardinality(T) + 1
    BY <1>1, FS_AddElement
  <2>2. Cardinality(S) <= Cardinality(T \cup {g}) /\ Cardinality(T \cup {g}) \in Nat
    BY <1>1, FS_Subset
  <2> QED
    BY <1>1, <2>1, <2>2
<1> QED
  BY <1>1, <1>2, <1>3, <1>4

(* Every start of the effect, done or still to come, is one of the claims that   *)
(* the supervisor counts.                                                      *)
Tried(i) ==
  db[i].kind.retrySafe =>
    /\ Spent(i) <= db[i].attempts /\ Spent(i) <= MaxAttempts
    /\ db[i].status = "queued" => Spent(i) < MaxAttempts
    /\ db[i].state = "queued" => dispatches[i] < MaxAttempts
    /\ db[i].num = 0 => dispatches[i] = 0

(* Nothing was started that had not been, and nobody else may start it. *)
LEMMA TriedAfter ==
  ASSUME OwnedInv, NEW i \in Jobs, Tried(i), db[i].kind.retrySafe, db'[i].kind = db[i].kind,
         dispatches'[i] = dispatches[i], Early(i)' \subseteq Early(i),
         db'[i].attempts \in {db[i].attempts, db[i].attempts + 1},
         db'[i].status = "queued" => db[i].status = "queued" \/ Spent(i)' < MaxAttempts,
         db'[i].state = "queued" => dispatches[i] < MaxAttempts,
         db'[i].num = 0 => db[i].num = 0
  PROVE  Tried(i)'
<1>1. db[i] \in RowType /\ dispatches[i] \in Nat
  BY DEF OwnedInv, IInv, TypeOK
<1>2. db[i].attempts \in Nat /\ MaxAttempts \in Nat
  BY <1>1, BoundsAssumption DEF RowType
<1>3. /\ Cardinality(Early(i)) \in Nat /\ Cardinality(Early(i)') \in Nat
      /\ Cardinality(Early(i)') <= Cardinality(Early(i))
  BY TokenSets DEF Early
<1>4. Spent(i)' <= Spent(i) /\ Spent(i)' \in Nat /\ Spent(i) \in Nat
  BY <1>1, <1>3 DEF Spent
<1>5. Spent(i) <= db[i].attempts /\ Spent(i) <= MaxAttempts
  BY DEF Tried
<1>6. db[i].status = "queued" => Spent(i) < MaxAttempts
  BY DEF Tried
<1>7. db[i].num = 0 => dispatches[i] = 0
  BY DEF Tried
<1> QED
  BY <1>1, <1>2, <1>4, <1>5, <1>6, <1>7 DEF Tried

LEMMA TriedWorker ==
  ASSUME ToolKinds, OwnedInv, NEW g \in Tokens, WorkerStep(g),
         NEW i \in Jobs, run[g].job = i, Tried(i), db[i].kind.retrySafe
  PROVE  Tried(i)'
<1> DEFINE r == db[i]
           r2 == db'[i]
<1>1. IInv /\ i \in Jobs /\ Row(g) = r /\ r \in RowType /\ LedgerConsistent(r) /\ dispatches[i] \in Nat
      /\ run[g].wk \in LiveWorker /\ SameRow(r, r2) /\ run'[g].job = i
      /\ \A h \in Tokens \ {g} : run'[h] = run[h]
  BY WorkerFrame, Parts, RowIsGood DEF OwnedInv, Good, Row, IInv, TypeOK
<1>2. r2.kind = r.kind /\ r2.status = r.status /\ r.kind.retrySafe /\ ~r.kind.approval
      /\ r.num \in Nat
  BY <1>1, KindsAssumption DEF SameRow, RowType, ToolKinds
<1> HIDE DEF r, r2
<1>3. \A h \in Tokens \ {g} : h \in Early(i)' => h \in Early(i)
  BY <1>1 DEF Early
<1>4. ASSUME dispatches'[i] = dispatches[i], g \in Early(i)' => g \in Early(i),
             r2.attempts = r.attempts,
             r2.state = "queued" => dispatches[i] < MaxAttempts,
             r2.num = 0 => r.num = 0
      PROVE  Tried(i)'
  <2>1. Early(i)' \subseteq Early(i)
    BY <1>3, <1>4 DEF Early
  <2> QED
    BY <1>1, <1>2, <1>4, <2>1, TriedAfter DEF r, r2
<1>5. r.state = "queued" => dispatches[i] < MaxAttempts
  BY <1>2 DEF Tried, r
<1>6. ASSUME dispatches'[i] = dispatches[i], r2.attempts = r.attempts, r2.num = r.num,
             r2.state \in {r.state} \cup TERMINAL_JOB_STATES \cup {"awaiting-approval"},
             NEW wk \in {"err", "bound", "ok", "dead", "returned", "approval"}, Goes(g, wk),
             wk = "bound" => run[g].wk \in Starting
      PROVE  Tried(i)'
  BY <1>1, <1>4, <1>5, <1>6 DEF Goes, Early, Starting
<1>7. CASE WorkerBind(g) \/ WorkerRefused(g) \/ WorkerExits(g)
  <2>1. /\ Rests(r, r2) /\ UNCHANGED dispatches
        /\ \/ run[g].wk \in Starting /\ \E wk \in {"err", "bound", "ok"} : Goes(g, wk)
           \/ Goes(g, "dead")
    BY <1>1, <1>7, BindMoves DEF Starting, r, r2
  <2> QED
    BY <1>6, <2>1 DEF Rests, Alike
<1>8. CASE WorkerAdmit(g)
  <2>1. /\ UNCHANGED dispatches /\ r2.attempts = r.attempts /\ r2.num > 0
        /\ run[g].wk = "bound" /\ Goes(g, "admitted")
    BY <1>1, <1>8, AdmitMoves DEF r, r2
  <2>2. g \in Early(i)
    BY <1>2, <2>1 DEF Early, Starting
  <2>3. dispatches[i] < MaxAttempts
    <3>1. Spent(i) <= MaxAttempts
      BY <1>2 DEF Tried, r
    <3>2. Cardinality(Early(i) \ {g}) \in Nat /\ Cardinality(Early(i)) \in Nat
          /\ Cardinality(Early(i) \ {g}) + 1 <= Cardinality(Early(i))
      BY <2>2, TokenSets DEF Early
    <3> QED
      BY <1>1, <3>1, <3>2, BoundsAssumption DEF Spent
  <2>4. r2.num = 0 => r.num = 0
    BY <1>2, <2>1 DEF r2
  <2> QED
    BY <1>4, <2>1, <2>2, <2>3, <2>4
<1>9. CASE WorkerStart(g)
  <2>1. /\ run[g].wk = "admitted" /\ Goes(g, "started")
        /\ r2.state = "running" /\ r2.attempts = r.attempts /\ r2.num = r.num
        /\ dispatches'[i] = dispatches[i] + 1
    BY <1>1, <1>2, <1>9, StartMoves DEF Passes, Alike, HasEffect, r, r2
  <2>2. r.num # 0
    BY <1>1, <1>2, <1>9, StartMoves DEF Passes, CanTransition, LedgerConsistent, r, r2
  <2>3. g \in Early(i) /\ g \notin Early(i)'
    BY <1>2, <2>1 DEF Early, Starting, Goes
  <2>4. Early(i)' \in SUBSET (Early(i) \ {g}) /\ Early(i) \in SUBSET Tokens
    BY <1>3, <2>3 DEF Early
  <2>5. Cardinality(Early(i)) \in Nat /\ Cardinality(Early(i)') \in Nat
        /\ Cardinality(Early(i)') + 1 <= Cardinality(Early(i))
    BY <2>3, <2>4, TokenSets DEF Early
  <2>6. Spent(i)' <= Spent(i) /\ Spent(i)' \in Nat /\ Spent(i) \in Nat
    BY <1>1, <2>1, <2>5 DEF Spent
  <2>7. /\ Spent(i) <= r.attempts /\ Spent(i) <= MaxAttempts
        /\ r.status = "queued" => Spent(i) < MaxAttempts
    BY <1>2 DEF Tried, r
  <2>8. r.attempts \in Nat /\ MaxAttempts \in Nat
    BY <1>1, BoundsAssumption DEF RowType
  <2> QED
    BY <1>2, <2>1, <2>2, <2>6, <2>7, <2>8 DEF Tried, r2
<1>10. CASE WorkerDenied(g) \/ WorkerThrows(g) \/ WorkerUncertain(g)
  <2>1. /\ UNCHANGED dispatches /\ Goes(g, "err")
        /\ \E to \in TERMINAL_JOB_STATES : Rests(r, r2) \/ Passes(g, r, r2, to)
    BY <1>1, <1>10, CloseMoves DEF r, r2
  <2> QED
    BY <1>6, <2>1 DEF Rests, Passes, Alike
<1>11. CASE WorkerApproval(g)
  BY <1>1, <1>2, <1>11, AskMoves DEF r
<1>12. CASE WorkerReturns(g)
  BY <1>1, <1>6, <1>12, ReturnMoves DEF r, r2
<1>13. CASE WorkerGraphEnds(g) \/ WorkerSettles(g)
  <2>1. /\ UNCHANGED dispatches /\ \E wk \in {"err", "ok"} : Goes(g, wk)
        /\ \E to \in TERMINAL_JOB_STATES : Rests(r, r2) \/ Passes(g, r, r2, to)
    BY <1>1, <1>13, EndMoves DEF r, r2
  <2> QED
    BY <1>6, <2>1 DEF Rests, Passes, Alike
<1> QED
  BY <1>7, <1>8, <1>9, <1>10, <1>11, <1>12, <1>13 DEF WorkerStep

(* The supervisor claims a retry-safe job no more often than it may, and returns *)
(* it to its queue only if it may be claimed again.                            *)
LEMMA TriedStep ==
  ASSUME ToolKinds, OwnedInv, LifeInv', [Next]_vars, NEW i \in Jobs, Shaped(i), Tried(i)
  PROVE  Tried(i)'
<1> DEFINE r == db[i]
           r2 == db'[i]
<1> SUFFICES ASSUME r2.kind.retrySafe PROVE Tried(i)'
  BY DEF Tried
<1>1. IInv /\ r \in RowType /\ LedgerConsistent(r) /\ dispatches[i] \in Nat /\ r.attempts \in Nat
  BY Parts, RowIsGood DEF OwnedInv, Good, IInv, TypeOK, RowType
<1>2. CASE Submits(i)
  <2>1. /\ r.status = "absent" /\ r2.state = r.state /\ r2.attempts = r.attempts
        /\ run' = run /\ dispatches'[i] = dispatches[i]
        /\ \A h \in Tokens : Taken(h) => run[h].job # i
    BY <1>2, SubmitMoves
  <2>2. r.state = "none" /\ r.attempts = 0 /\ dispatches[i] = 0
    BY <1>1, <2>1 DEF Shaped, ShapedRow, LedgerConsistent
  <2>3. Early(i)' = {}
    BY <2>1 DEF Early, Starting, Taken
  <2>4. Spent(i)' = 0
    BY <2>1, <2>2, <2>3, FS_EmptySet DEF Spent
  <2> QED
    BY <2>1, <2>2, <2>4, BoundsAssumption DEF Tried
<1>3. ASSUME ~Submits(i)
      PROVE  r2.kind = r.kind /\ r.kind.retrySafe /\ ~r.kind.approval /\ ~r.kind.protected
  <2>1. r2.kind = r.kind
    BY <1>1, <1>3, RowsGrow DEF Grown, OwnedInv
  <2> QED
    BY <1>1, <2>1 DEF ToolKinds, RowType
<1>4. CASE Claims(i) /\ ~Submits(i)
  <2>1. DrainDispatch(i)
    <3>1. ~DrainDispatch(i) => r.status = "awaiting-approval"
      BY <1>4, ClaimMoves
    <3> QED
      BY <1>3, <1>4, <3>1 DEF Shaped, ShapedRow
  <2>2. /\ r2.status = "running" /\ r2.num = r.num /\ r2.state = r.state
        /\ dispatches'[i] = dispatches[i] /\ r.status = "queued" /\ r2.attempts = r.attempts + 1
        /\ issued + 1 \in Tokens
        /\ \A h \in Tokens \ {issued + 1} : run'[h] = run[h]
    BY <1>4, <2>1, ClaimMoves
  <2>3. Early(i)' \in SUBSET (Early(i) \cup {issued + 1}) /\ Early(i) \in SUBSET Tokens
    BY <2>2 DEF Early
  <2>4. /\ Cardinality(Early(i)) \in Nat /\ Cardinality(Early(i)') \in Nat
        /\ Cardinality(Early(i)') <= Cardinality(Early(i)) + 1
    BY <2>2, <2>3, TokenSets DEF Early
  <2>5. Spent(i)' <= Spent(i) + 1 /\ Spent(i)' \in Nat /\ Spent(i) \in Nat
    BY <1>1, <2>2, <2>4 DEF Spent
  <2>6. /\ Spent(i) <= r.attempts /\ Spent(i) < MaxAttempts
        /\ r.state = "queued" => dispatches[i] < MaxAttempts
        /\ r.num = 0 => dispatches[i] = 0
    BY <1>3, <1>4, <2>2 DEF Tried
  <2> QED
    BY <1>1, <2>2, <2>5, <2>6, BoundsAssumption DEF Tried
<1>5. ASSUME NEW g \in Tokens, run[g].job = i, WorkerStep(g), ~Submits(i) PROVE Tried(i)'
  BY <1>3, <1>5, TriedWorker
<1>6. ASSUME NEW g \in Tokens, run[g].job = i, RunPersist(g), ~Submits(i) PROVE Tried(i)'
  BY <1>3, <1>6, PersistMoves
<1>7. ASSUME NEW g \in Tokens, run[g].job = i, ApprovalDispatch(g), ~Submits(i) PROVE Tried(i)'
  BY <1>1, <1>3, <1>7, ForkMoves DEF Shaped, ShapedRun
<1>8. CASE Aside(i) /\ ~Submits(i)
  <2>1. /\ r2 = r \/ Moved(i)
        /\ dispatches'[i] = dispatches[i]
        /\ \A h \in Tokens : run'[h].job = i /\ Present(h)' => run[h].job = i /\ Unmoved(h)
    BY <1>8, AsideMoves
  <2>2. \A h \in Tokens : h \in Early(i)' => Present(h)' /\ run'[h].job = i
    BY DEF Early, Starting, Present, Working, LiveWorker
  <2>3. Early(i)' \subseteq Early(i)
    BY <2>1, <2>2 DEF Early, Starting, Unmoved
  <2>4. CASE r2 = r
    BY <1>3, <1>8, <2>1, <2>3, <2>4, TriedAfter DEF Tried
  <2>5. CASE Moved(i)
    <3>1. r2.attempts \in {r.attempts, r.attempts + 1} /\ r2.num = r.num
      BY <2>5 DEF Moved, Kin
    <3>2. r2.state = "queued" => r.state = "queued"
      BY <2>5 DEF Moved, Ending, Ended, Stopping, Asking, Requeued, Withdrawn, MovedState
    <3>3. ASSUME r2.status = "queued" PROVE r.status = "queued" \/ Spent(i)' < MaxAttempts
      <4>1. Requeued(i)
        BY <2>5, <3>3 DEF Moved, Ending, Ended, Stopping, Asking, Requeued, Withdrawn
      <4>2. /\ Cardinality(Early(i)) \in Nat /\ Cardinality(Early(i)') \in Nat
            /\ Cardinality(Early(i)') <= Cardinality(Early(i))
        BY <2>3, TokenSets DEF Early
      <4>3. Spent(i)' <= Spent(i) /\ Spent(i)' \in Nat /\ Spent(i) \in Nat /\ Spent(i) <= r.attempts
        BY <1>1, <1>3, <1>8, <2>1, <4>2 DEF Spent, Tried
      <4>4. CASE RetryLeft(r)
        BY <1>1, <4>3, <4>4, BoundsAssumption DEF RetryLeft
      <4>5. CASE r.status = "awaiting-approval"
        BY <1>3, <1>8, <4>5 DEF Shaped, ShapedRow
      <4>6. CASE (r.num = 0 \/ r.state = "queued") /\ \A h \in Tokens : Present(h) => run[h].job # i
        <5>1. Early(i)' = {}
          BY <2>3, <4>6 DEF Early, Starting, Present, Working, LiveWorker
        <5>2. dispatches[i] < MaxAttempts
          BY <1>3, <1>8, <4>6, BoundsAssumption DEF Tried
        <5> QED
          BY <1>1, <2>1, <5>1, <5>2, FS_EmptySet DEF Spent
      <4> QED
        BY <4>1, <4>4, <4>5, <4>6 DEF Requeued
    <3> QED
      BY <1>3, <1>8, <2>1, <2>3, <3>1, <3>2, <3>3, TriedAfter DEF Tried
  <2> QED
    BY <2>1, <2>4, <2>5
<1> QED
  BY <1>2, <1>4, <1>5, <1>6, <1>7, <1>8, StepsOf

---------------------------------------------------------------------------
(* How often the effect of a job starts *)

OnceInv ==
  /\ OwnedInv
  /\ \A i \in Jobs : Shaped(i) /\ Once(i) /\ Tried(i)

LEMMA KindsSteady == ToolKinds => NoUnsafeRetry
  BY DEF ToolKinds, NoUnsafeRetry

LEMMA InitOnce == Init => OnceInv
<1> SUFFICES ASSUME Init PROVE OnceInv
  OBVIOUS
<1>1. IInv /\ LifeInv /\ PersistedHolds /\ OwnInv
  BY InitInv, InitLife, InitPersisted, InitOwn
<1>2. AbsentRow \in RowType /\ AbsentRow.status = "absent" /\ AbsentRow.attempts = 0 /\ AbsentRow.num = 0
      /\ AbsentRow.state = "none" /\ AbsentRow.lease = NoToken /\ ~AbsentRow.audited
      /\ ~AbsentRow.persisted
  BY AbsentGood DEF Good, AbsentRow
<1>3. \A g \in Tokens : ~Present(g) /\ run[g].wk = "none"
  BY DEF Init, NoRun, Present, Alive, Working, LiveWorker
<1>4. \A i \in Jobs : db[i] = AbsentRow /\ dispatches[i] = 0
  BY DEF Init
<1>5. Leased
  BY <1>2, <1>4 DEF Leased
<1>6. ASSUME NEW i \in Jobs PROVE Shaped(i) /\ Once(i) /\ Tried(i)
  <2>1. Early(i) = {}
    BY <1>3 DEF Early, Starting
  <2>2. Spent(i) = 0
    BY <1>4, <2>1, FS_EmptySet DEF Spent
  <2>3. Shaped(i) /\ Once(i)
    BY <1>2, <1>3, <1>4 DEF Shaped, ShapedRow, Once, OnceRow
  <2>4. Tried(i)
    BY <1>2, <1>4, <2>2, BoundsAssumption DEF Tried
  <2> QED
    BY <2>3, <2>4
<1> QED
  BY <1>1, <1>5, <1>6 DEF OnceInv, OwnedInv

LEMMA OnceInvStep ==
  ASSUME ~Stalls, ToolKinds, OnceInv, [Next]_vars
  PROVE  OnceInv'
<1>1. NoUnsafeRetry /\ Steady
  BY KindsSteady DEF Steady
<1>2. OwnedInv
  BY DEF OnceInv
<1>3. IInv' /\ LifeInv' /\ PersistedHolds' /\ OwnInv' /\ Leased'
  BY <1>1, <1>2, NextInv, NextLife, PersistedStep, OwnInvStep, LeasedStep DEF OwnedInv, Steady, LifeStep
<1>4. ASSUME NEW i \in Jobs PROVE Shaped(i)' /\ Once(i)' /\ Tried(i)'
  <2>1. Shaped(i) /\ Once(i) /\ Tried(i)
    BY DEF OnceInv
  <2> QED
    BY <1>2, <1>3, <2>1, ShapedStep, OnceStep, TriedStep
<1> QED
  BY <1>3, <1>4 DEF OnceInv, OwnedInv

(* The effect of a tool that is not retry-safe is started at most once, and that *)
(* of another at most as often as a job may be claimed, for every number of      *)
(* crashes, kills, cancellations, timeouts, recoveries and losses of ownership,  *)
(* while no lease of a live run lapses.  The invariant says why: a job that may  *)
(* not be repeated has one attempt, which leaves the waiting states when it      *)
(* starts and never returns; every start of another is paid for by one of its    *)
(* claims (claimNextQueued, start, recover, run).                              *)
THEOREM AtMostOnceUnsafeHolds ==
  ASSUME ~Stalls, ToolKinds
  PROVE  Spec => []AtMostOnceUnsafe
<1>1. Init => OnceInv
  BY InitOnce
<1>2. OnceInv /\ [Next]_vars => OnceInv'
  BY OnceInvStep
<1>3. OnceInv => AtMostOnceUnsafe
  <2> SUFFICES ASSUME OnceInv, NEW i \in Jobs
               PROVE  dispatches[i] <= IF db[i].kind.retrySafe THEN MaxAttempts ELSE 1
    BY DEF AtMostOnceUnsafe
  <2>1. dispatches[i] \in Nat
    BY DEF OnceInv, OwnedInv, IInv, TypeOK
  <2>2. CASE ~db[i].kind.retrySafe
    BY <2>2 DEF OnceInv, Once, OnceRow
  <2>3. CASE db[i].kind.retrySafe
    <3>1. Spent(i) <= MaxAttempts /\ Cardinality(Early(i)) \in Nat
      BY <2>3, TokenSets DEF OnceInv, Tried, Early
    <3> QED
      BY <2>1, <2>3, <3>1, BoundsAssumption DEF Spent
  <2> QED
    BY <2>2, <2>3
<1> QED
  BY <1>1, <1>2, <1>3, PTL DEF Spec

---------------------------------------------------------------------------
(* Why a worker is killed *)

(* The process owns its instance, and kills a worker only when its run was told  *)
(* to stop, or the request that it answers went away.                          *)
KilledFor(w) == w.pc \in {"exec", "persisted"} /\ w.killed => w.abort # "none" \/ w.mode = "approval"
KilledWhy == owned /\ \A g \in Tokens : KilledFor(run[g])

LEMMA OwnedStays ==
  ASSUME ~OwnershipLoss, owned, [Next]_vars PROVE owned'
<1>1. ASSUME NEW g \in Tokens, RunStep(g) PROVE owned' = owned
  BY <1>1 DEF RunStep, WorkerCrash, WorkerStep, WorkerBind, WorkerAdmit, WorkerRefused, WorkerStart,
         WorkerDenied, WorkerApproval, WorkerThrows, WorkerReturns, WorkerUncertain, WorkerGraphEnds,
         WorkerSettles, WorkerExits, UnchangedSupervisor, RunSettles, RunResolved, RunPersist,
         RunAdopt, RunRejected, RunPersistFails, ApprovalSettle, Finish, Timeout, HeartbeatLost,
         GraceExpires, Renew, Expire, ApprovalDispatch, RequestAborted, AbortRun, UnchangedWorld
<1>2. ASSUME NEW j \in Jobs, JobStep(j) PROVE owned' = owned
  BY <1>2 DEF JobStep, Submit, DrainDispatch, DrainFail, Cancel, CancelFenceFails, CancelWith,
              BeginApproval, UnchangedWorld
<1>3. CASE ProcessStep
  BY <1>3 DEF ProcessStep, DrainEnd, Shutdown, ShutdownDone, LoseOwnership, Crash, Memoryless,
              RecoverResults, Start, RecoveryTimer, UnchangedWorld
<1> QED
  BY <1>1, <1>2, <1>3 DEF Next, vars

LEMMA KilledRunStep ==
  ASSUME IInv, KilledWhy, NEW g \in Tokens, RunStep(g)
  PROVE  KilledFor(run'[g])
<1>1. run[g] \in RunType /\ KilledFor(run[g]) /\ owned
  BY DEF IInv, TypeOK, KilledWhy
<1>2. CASE WorkerStep(g) \/ WorkerCrash(g)
  <2>1. run[g].wk \in LiveWorker
    BY <1>2 DEF WorkerStep, WorkerBind, WorkerAdmit, WorkerRefused, WorkerStart, WorkerDenied,
           WorkerApproval, WorkerThrows, WorkerReturns, WorkerUncertain, WorkerGraphEnds,
           WorkerSettles, WorkerExits, WorkerCrash, LiveWorker
  <2>2. Good(Row(g))
    BY <2>1, RunRow DEF LiveWorker
  <2>3. PICK w \in RunType : Worked(g, w) /\ run' \in {[run EXCEPT ![g] = Kept(w)], [run EXCEPT ![g] = w]}
    BY <1>1, <1>2, <2>2, WorkerRun
  <2>4. run'[g] = w \/ run'[g] = Kept(w)
    BY <2>3 DEF IInv, TypeOK
  <2> QED
    BY <1>1, <2>3, <2>4, KeptIs DEF Worked, KilledFor
<1>3. CASE Settles(g)
  BY <1>3, SettlesEntries DEF Alive, KilledFor
<1>4. CASE RunPersist(g)
  <2>1. ~run[g].killed /\ run'[g] = [run[g] EXCEPT !.pc = "persisted"]
    BY <1>4 DEF RunPersist, Answered, IInv, TypeOK
  <2>2. ~run'[g].killed
    BY <1>1, <2>1 DEF RunType
  <2> QED
    BY <2>2 DEF KilledFor
<1>5. CASE Timeout(g) \/ HeartbeatLost(g)
  <2>1. \E reason \in {"timeout", "lease"} : run'[g] = Abort(run[g], reason)
    BY <1>5 DEF Timeout, HeartbeatLost, AbortRun, IInv, TypeOK
  <2> QED
    BY <1>1, <2>1, AbortIs DEF KilledFor
<1>6. CASE GraceExpires(g) \/ RequestAborted(g)
  <2>1. /\ run'[g] = [run[g] EXCEPT !.killed = TRUE]
        /\ run[g].abort # "none" \/ run[g].mode = "approval"
    BY <1>1, <1>6 DEF GraceExpires, RequestAborted, Interrupted, IInv, TypeOK
  <2>2. run'[g].abort = run[g].abort /\ run'[g].mode = run[g].mode
    BY <1>1, <2>1 DEF RunType
  <2> QED
    BY <2>1, <2>2 DEF KilledFor
<1>7. CASE ApprovalDispatch(g)
  BY <1>7, ForkMoves DEF KilledFor
<1>8. CASE Renew(g) \/ Expire(g)
  BY <1>1, <1>8 DEF Renew, Expire
<1> QED
  BY <1>2, <1>3, <1>4, <1>5, <1>6, <1>7, <1>8 DEF RunStep, RunSettles, Settles

LEMMA KilledStep ==
  ASSUME ~OwnershipLoss, IInv, KilledWhy, [Next]_vars
  PROVE  KilledWhy'
<1>1. owned'
  BY OwnedStays DEF KilledWhy
<1> SUFFICES ASSUME NEW h \in Tokens PROVE KilledFor(run'[h])
  BY <1>1 DEF KilledWhy
<1>2. run[h] \in RunType /\ KilledFor(run[h]) /\ owned
  BY DEF IInv, TypeOK, KilledWhy
<1>3. ASSUME NEW reason, reason # "none", run'[h] = Abort(run[h], reason) PROVE KilledFor(run'[h])
  BY <1>2, <1>3, AbortIs DEF KilledFor
<1>4. ASSUME NEW g \in Tokens, RunStep(g) PROVE KilledFor(run'[h])
  BY <1>2, <1>4, OtherRuns, KilledRunStep
<1>5. ASSUME NEW j \in Jobs, JobStep(j) PROVE KilledFor(run'[h])
  <2>1. CASE Claims(j)
    BY <1>2, <2>1, ClaimIs DEF KilledFor
  <2>2. CASE Submits(j) \/ DrainFail(j)
    BY <1>2, <2>2 DEF Submits, Submit, DrainFail
  <2>3. CASE Cancel(j) \/ CancelFenceFails(j)
    <3>1. run'[h] = run[h] \/ run'[h] = Abort(run[h], "cancel")
      BY <2>3 DEF Cancel, CancelFenceFails, CancelWith, IInv, TypeOK
    <3> QED
      BY <1>2, <1>3, <3>1
  <2> QED
    BY <1>5, <2>1, <2>2, <2>3 DEF JobStep, Claims, Submits
<1>6. CASE ProcessStep
  <2>1. CASE DrainEnd \/ RecoverResults \/ Start \/ RecoveryTimer
    BY <1>2, <2>1 DEF DrainEnd, RecoverResults, Start, RecoveryTimer
  <2>2. CASE Shutdown
    <3>1. run'[h] = run[h] \/ run'[h] = Abort(run[h], "shutdown")
      BY <2>2 DEF Shutdown
    <3> QED
      BY <1>2, <1>3, <3>1
  <2>3. CASE ShutdownDone \/ Crash
    <3> DEFINE w == [run[h] EXCEPT !.pc = "lost", !.killed = TRUE]
    <3>1. w \in RunType /\ w.pc = "lost"
      BY <1>2 DEF RunType
    <3>2. run'[h] = run[h] \/ run'[h] = Kept(w)
      BY <2>3 DEF ShutdownDone, Crash
    <3> HIDE DEF w
    <3> QED
      BY <1>2, <3>1, <3>2, KeptIs DEF KilledFor
  <2> QED
    BY <1>6, <2>1, <2>2, <2>3 DEF ProcessStep, LoseOwnership
<1>7. CASE UNCHANGED vars
  BY <1>2, <1>7 DEF vars
<1> QED
  BY <1>4, <1>5, <1>6, <1>7 DEF Next

---------------------------------------------------------------------------
(* What the rows and the runs of a job know of its effect *)

(* A completion was audited, or reported by the graph; the result of a channel   *)
(* was persisted before.                                                       *)
PublishedRow(r, o) ==
  /\ r.persisted => r.audited
  /\ r.kind.fenced => ~r.audited
  /\ r.state = "completed" \/ r.status = "completed" =>
       /\ ~r.kind.fenced => r.audited
       /\ r.kind.protected => r.persisted
       /\ r.kind.fenced => o = "ok" /\ r.state = "completed"

(* Once the effect of an unsafe tool was started its attempt does not fail by    *)
(* itself, and the job ends as its attempt does unless an operator must look.  *)
UnsafeRow(r, o, d) ==
  /\ ~Pure(r.kind) /\ d > 0 /\ r.state \in {"failed", "cancelled"} => o = "failed"
  /\ r.status \in TERMINAL_JOB_STATES /\ r.num > 0 => r.status \in {r.state, "needs-review"}
  /\ r.audited => r.num > 0

(* A worker that reports success has left it in the audit store or the ledger.   *)
ReportedRun(w, r) ==
  /\ w.wk \in {"returned", "ok"} /\ ~r.kind.fenced => r.audited
  /\ w.wk = "ok" /\ r.kind.fenced => Settled(r)
  /\ w.wk = "returned" => ~r.kind.fenced

(* The worker of an unsafe job has its only attempt, which it owns while it works *)
(* and nobody told it to stop; the attempt does not end as the effect does not.  *)
Owns(w, g, r) ==
  w.pc \in {"exec", "persisted"} /\ w.abort = "none" /\ w.mode = "run" /\ w.wk \in {"started", "returned"}
  => r.state = "running" /\ r.owner = g
Failed(w, r, o, d) ==
  /\ w.pc \in {"exec", "persisted"} /\ w.abort = "none" /\ w.mode = "run" /\ w.wk = "err" /\ ~Pure(r.kind)
  => d = 0 \/ o = "failed" \/ Settled(r)
Unended(w, r, d) ==
  w.wk = "started" =>
    /\ r.kind.fenced => r.state # "completed"
    /\ ~Pure(r.kind) /\ d > 0 => r.state \notin {"failed", "cancelled"}
UnsafeRun(w, g, r, o, d) ==
  /\ w.wk \in {"admitted", "started", "returned"} => r.num = 1 /\ w.att = 1
  /\ Owns(w, g, r) /\ Failed(w, r, o, d) /\ Unended(w, r, d)
  /\ r.status \in TERMINAL_JOB_STATES /\ r.num = 0 => r.status = "needs-review"

Published(i) ==
  /\ PublishedRow(db[i], outcome[i])
  /\ \A g \in Tokens : run[g].job = i /\ Present(g) => ReportedRun(run[g], db[i])
UnsafeKnown(i) ==
  ~db[i].kind.retrySafe =>
    /\ UnsafeRow(db[i], outcome[i], dispatches[i])
    /\ \A g \in Tokens : run[g].job = i /\ Present(g) =>
         UnsafeRun(run[g], g, db[i], outcome[i], dispatches[i])
Known(i) == Published(i) /\ UnsafeKnown(i)

(* What is known of a job before a step, together. *)
KnownInv == OnceInv /\ KilledWhy /\ \A i \in Jobs : Known(i)

LEMMA KnownParts ==
  ASSUME ToolKinds, KnownInv, NEW i \in Jobs
  PROVE  LET r == db[i]  d == dispatches[i] IN
         /\ OwnedInv /\ IInv /\ r \in RowType /\ LedgerConsistent(r) /\ r.num \in Nat /\ d \in Nat
         /\ r.num = 0 <=> r.state = "none"
         /\ Shaped(i) /\ Once(i) /\ Published(i)
         /\ r.kind.protected \/ r.kind.fenced => ~r.kind.approval /\ ~r.kind.retrySafe
         /\ r.kind.graceful \/ r.kind.approval => ~r.kind.retrySafe
         /\ ~(r.kind.protected /\ r.kind.fenced)
         /\ ~r.kind.retrySafe => OnceRow(r, d) /\ UnsafeRow(r, outcome[i], d)
<1>1. OwnedInv /\ IInv /\ Shaped(i) /\ Once(i) /\ Known(i)
  BY DEF KnownInv, OnceInv, OwnedInv
<1>2. db[i] \in RowType /\ LedgerConsistent(db[i]) /\ dispatches[i] \in Nat
  BY <1>1, Parts, RowIsGood DEF Good, IInv, TypeOK
<1>3. db[i].num \in Nat /\ db[i].kind \in Kinds
  BY <1>2 DEF RowType
<1>4. db[i].num = 0 <=> db[i].state = "none"
  BY <1>2 DEF LedgerConsistent
<1> QED
  BY <1>1, <1>2, <1>3, <1>4 DEF ToolKinds, Known, UnsafeKnown, Once

(* The worker of an unsafe job is alone with it. *)
LEMMA AloneWith ==
  ASSUME OwnedInv, NEW g \in Tokens, NEW h \in Tokens, Present(g), Present(h), run[h].job = run[g].job,
         ~db[run[g].job].kind.retrySafe
  PROVE  g = h
  BY DEF OwnedInv, OwnInv, UnsafeAlone, Row

(* Why the attempt of a job is completed: it had been reported or persisted.     *)
LEMMA CompletedFor ==
  ASSUME ToolKinds, KnownInv, NEW i \in Jobs, ~Settled(db[i]), Cause(i, "completed")
  PROVE  /\ db[i].audited /\ ~db[i].kind.fenced
         /\ db[i].kind.protected => db[i].persisted
<1> DEFINE r == db[i]
<1>1. /\ OwnedInv /\ Shaped(i) /\ Published(i)
      /\ r.kind.protected \/ r.kind.fenced => ~r.kind.approval /\ ~r.kind.retrySafe
      /\ ~(r.kind.protected /\ r.kind.fenced)
  BY KnownParts
<1>2. CASE r.persisted /\ r.kind.protected
  BY <1>1, <1>2 DEF Published, PublishedRow
<1>3. CASE \E g \in Tokens : /\ run[g].job = i /\ Alive(g) /\ run[g].wk = "ok"
                             /\ run[g].mode = "run" => ~r.kind.protected
  <2>1. PICK g \in Tokens : /\ run[g].job = i /\ Alive(g) /\ run[g].wk = "ok"
                            /\ run[g].mode = "run" => ~r.kind.protected
    BY <1>3
  <2>2. ReportedRun(run[g], r) /\ ShapedRun(run[g], r)
    BY <1>1, <2>1 DEF Published, Shaped, Present
  <2>3. r.audited /\ ~r.kind.fenced
    BY <2>1, <2>2 DEF ReportedRun
  <2>4. ~r.kind.protected
    <3>1. run[g].mode \in {"run", "approval"}
      BY <1>1 DEF OwnedInv, IInv, TypeOK, RunType
    <3> QED
      BY <1>1, <2>1, <2>2, <3>1 DEF ShapedRun
  <2> QED
    BY <2>3, <2>4
<1> QED
  BY <1>2, <1>3 DEF Cause

(* An unsafe job whose effect was started fails only if its tool said so.        *)
LEMMA FailedFor ==
  ASSUME ToolKinds, KnownInv, NEW i \in Jobs, ~Settled(db[i]), NEW to \in {"failed", "cancelled"},
         Cause(i, to), ~db[i].kind.retrySafe, ~Pure(db[i].kind), dispatches[i] > 0
  PROVE  /\ outcome[i] = "failed"
         /\ \A h \in Tokens : run[h].job = i /\ Present(h) => run[h].wk = "err"
<1> DEFINE r == db[i]
           d == dispatches[i]
<1>1. OwnedInv /\ OnceRow(r, d) /\ d \in Nat /\ Shaped(i) /\ r.num \in Nat /\ (r.num = 0 <=> r.state = "none")
      /\ Once(i) /\ UnsafeKnown(i)
  BY KnownParts DEF KnownInv, Known
<1>2. r.status \notin Waiting /\ r.state \in Executing
  BY <1>1 DEF OnceRow, Settled, Executing, Waiting
<1>3. ~(r.status = "running" /\ r.state # "running")
  BY <1>1, <1>2 DEF OnceRow, Executing
<1>4. ASSUME NEW g \in Tokens, run[g].job = i, Alive(g), run[g].mode = "approval", ~run[g].dispatched
      PROVE  FALSE
  <2>1. ShapedRun(run[g], r) /\ OnceRun(run[g], r, d)
    BY <1>1, <1>4 DEF Shaped, Once, Present
  <2> QED
    BY <1>4, <2>1 DEF ShapedRun, OnceRun
<1>5. PICK g \in Tokens : /\ run[g].job = i /\ Alive(g) /\ run[g].mode = "run" /\ run[g].abort = "none"
                          /\ run[g].wk = "err" \/ run[g].killed
  BY <1>2, <1>3, <1>4 DEF Cause, Waiting
<1>6. run[g].wk = "err"
  BY <1>5 DEF KnownInv, KilledWhy, KilledFor, Alive
<1>7. UnsafeRun(run[g], g, r, outcome[i], d)
  BY <1>1, <1>5 DEF UnsafeKnown, Present
<1>8. outcome[i] = "failed"
  BY <1>5, <1>6, <1>7 DEF UnsafeRun, Failed, Alive
<1>9. \A h \in Tokens : run[h].job = i /\ Present(h) => h = g
  BY <1>1, <1>5, AloneWith DEF Present
<1> QED
  BY <1>6, <1>8, <1>9

(* A step of the supervisor that moves a job says what is known of it, and       *)
(* leaves its workers what they know.                                          *)
LEMMA RowKnownMoved ==
  ASSUME ToolKinds, KnownInv, NEW i \in Jobs, Moved(i)
  PROVE  /\ PublishedRow(db'[i], outcome[i])
         /\ ~db[i].kind.retrySafe => UnsafeRow(db'[i], outcome[i], dispatches[i])
<1> DEFINE r == db[i]
           r2 == db'[i]
           o == outcome[i]
           d == dispatches[i]
<1>1. /\ OwnedInv /\ r.num \in Nat /\ d \in Nat /\ (r.num = 0 <=> r.state = "none")
      /\ PublishedRow(r, o)
      /\ r.kind.protected \/ r.kind.fenced => ~r.kind.retrySafe
      /\ ~r.kind.retrySafe => OnceRow(r, d) /\ UnsafeRow(r, o, d)
  BY KnownParts DEF Published
<1>2. r2.kind = r.kind /\ r2.num = r.num /\ r2.audited = r.audited /\ r2.persisted = r.persisted
  BY DEF Moved, Kin
<1>3. CASE Ending(i)
  <2>1. /\ r2.status \in TERMINAL_JOB_STATES /\ r2.state = MovedState(r, r2.status)
        /\ Settled(r) => r2.status \in {r.state, "needs-review"} /\ r2.state = r.state
        /\ ~Settled(r) => Cause(i, r2.status)
    BY <1>3 DEF Ending, Ended, MovedState
  <2>2. CASE Settled(r)
    <3>1. PublishedRow(r2, o)
      BY <1>1, <1>2, <2>1, <2>2 DEF PublishedRow
    <3>2. ~r.kind.retrySafe => UnsafeRow(r2, o, d)
      BY <1>1, <1>2, <2>1, <2>2 DEF UnsafeRow
    <3> QED
      BY <3>1, <3>2
  <2>3. CASE ~Settled(r)
    <3>1. Cause(i, r2.status)
      BY <2>1, <2>3
    <3>2. r2.state \in {r.state, r2.status} /\ (r.num > 0 => r2.state = r2.status)
      BY <1>1, <2>1, <2>3 DEF MovedState
    <3>3. r.state = "completed" => r.num = 0
      BY <1>1, <2>3 DEF Settled
    <3>4. r.state # "completed"
      BY <1>1, <3>3
    <3>5. PublishedRow(r2, o)
      <4>1. CASE r2.status = "completed"
        BY <1>1, <1>2, <2>3, <3>1, <4>1, CompletedFor DEF PublishedRow
      <4>2. CASE r2.status # "completed"
        BY <1>1, <1>2, <3>2, <3>4, <4>2 DEF PublishedRow
      <4> QED
        BY <4>1, <4>2
    <3>6. ASSUME ~r.kind.retrySafe PROVE UnsafeRow(r2, o, d)
      <4>1. ASSUME ~Pure(r2.kind), d > 0, r2.state \in {"failed", "cancelled"} PROVE o = "failed"
        <5>1. r.num > 0
          <6>1. r.state \in Executing \cup TERMINAL_JOB_STATES
            BY <1>1, <3>6, <4>1 DEF OnceRow
          <6> QED
            BY <1>1, <6>1 DEF Executing
        <5>2. r2.status \in {"failed", "cancelled"}
          BY <3>2, <4>1, <5>1
        <5> QED
          BY <1>2, <2>3, <3>1, <3>6, <4>1, <5>2, FailedFor
      <4> QED
        BY <1>1, <1>2, <3>2, <3>6, <4>1 DEF UnsafeRow
    <3> QED
      BY <3>5, <3>6
  <2> QED
    BY <2>2, <2>3
<1>4. CASE Stopping(i) \/ Asking(i)
  <2>1. r2.status \in {"cancelling", "awaiting-approval"} /\ r2.state \in {r.state, "cancelling"}
    BY <1>4 DEF Stopping, Asking
  <2>2. PublishedRow(r2, o)
    BY <1>1, <1>2, <2>1 DEF PublishedRow
  <2>3. ~r.kind.retrySafe => UnsafeRow(r2, o, d)
    BY <1>1, <1>2, <2>1 DEF UnsafeRow
  <2> QED
    BY <2>2, <2>3
<1>5. CASE Requeued(i)
  <2>1. r2.status = "queued" /\ r2.state \in {r.state, "failed"} /\ (~r.kind.retrySafe => r2.state = r.state)
    BY <1>5 DEF Requeued, RetryLeft
  <2>2. PublishedRow(r2, o)
    BY <1>1, <1>2, <2>1 DEF PublishedRow
  <2>3. ~r.kind.retrySafe => UnsafeRow(r2, o, d)
    BY <1>1, <1>2, <2>1 DEF UnsafeRow
  <2> QED
    BY <2>2, <2>3
<1>6. CASE Withdrawn(i)
  <2>1. /\ r2.status = "cancelled" /\ r2.state = "cancelling" /\ r.state = "running"
        /\ r.status \in {"queued", "awaiting-approval"}
    BY <1>6 DEF Withdrawn
  <2>2. r.kind.retrySafe
    BY <1>1, <2>1 DEF OnceRow
  <2>3. PublishedRow(r2, o)
    BY <1>1, <1>2, <2>1 DEF PublishedRow
  <2> QED
    BY <2>2, <2>3
<1> QED
  BY <1>3, <1>4, <1>5, <1>6 DEF Moved

LEMMA SettledStays ==
  ASSUME NEW i \in Jobs, Moved(i), Settled(db[i]), ~db[i].kind.retrySafe PROVE Settled(db'[i])
<1>1. db'[i].num = db[i].num /\ db'[i].state = db[i].state
  BY DEF Moved, Kin, Ending, Ended, MovedState, Stopping, Asking, Requeued, RetryLeft, Withdrawn
<1> QED
  BY <1>1 DEF Settled

(* While the worker of an unsafe job has not reported, its attempt is completed  *)
(* by nobody, and after its effect was started it fails by nobody.             *)
LEMMA UnendedMoved ==
  ASSUME ToolKinds, KnownInv, NEW i \in Jobs, Moved(i), ~db[i].kind.retrySafe,
         NEW h \in Tokens, run[h].job = i, Present(h), run[h].wk = "started"
  PROVE  Unended(run[h], db'[i], dispatches[i])
<1> DEFINE r == db[i]
           r2 == db'[i]
           d == dispatches[i]
<1>1. /\ OwnedInv /\ d \in Nat /\ UnsafeKnown(i) /\ r2.kind = r.kind
      /\ r.num \in Nat /\ (r.num = 0 <=> r.state = "none")
  BY KnownParts DEF KnownInv, Known, Moved, Kin
<1>2. Unended(run[h], r, d)
  BY <1>1 DEF UnsafeKnown, UnsafeRun
<1>3. CASE Ending(i) /\ ~Settled(r)
  <2>1. r2.state \in {r.state, r2.status} /\ Cause(i, r2.status)
    BY <1>3 DEF Ending, Ended, MovedState
  <2>2. ASSUME r.kind.fenced PROVE r2.status # "completed"
    BY <1>3, <2>1, <2>2, CompletedFor
  <2>3. ASSUME ~Pure(r.kind), d > 0 PROVE r2.status \notin {"failed", "cancelled"}
    BY <1>3, <2>1, <2>3, FailedFor
  <2> QED
    BY <1>1, <1>2, <2>1, <2>2, <2>3 DEF Unended
<1>4. CASE ~(Ending(i) /\ ~Settled(r))
  <2>1. r2.state \in {r.state, "cancelling"}
    BY <1>4 DEF Moved, Ending, Ended, MovedState, Stopping, Asking, Requeued, RetryLeft, Withdrawn
  <2> QED
    BY <1>1, <1>2, <2>1 DEF Unended
<1> QED
  BY <1>3, <1>4

(* A job that ends before its attempt exists, with somebody at work on it, needs *)
(* review.                                                                     *)
LEMMA UnbegunEnds ==
  ASSUME ToolKinds, KnownInv, NEW i \in Jobs, Moved(i), ~db[i].kind.retrySafe, db[i].num = 0,
         db'[i].status \in TERMINAL_JOB_STATES,
         NEW h \in Tokens, run[h].job = i, Present(h), Present(h)', Unmoved(h)
  PROVE  db'[i].status = "needs-review"
<1> DEFINE r == db[i]
           to == db'[i].status
<1>1. /\ OwnedInv /\ UnsafeRow(r, outcome[i], dispatches[i]) /\ r.state = "none" /\ ~Settled(r)
  BY KnownParts DEF Settled
<1>2. Cause(i, to)
  BY <1>1 DEF Moved, Ending, Stopping, Asking, Requeued, Withdrawn
<1>3. to # "completed"
  BY <1>1, <1>2, CompletedFor DEF UnsafeRow
<1>4. r.status \notin {"queued", "awaiting-approval"}
  BY <1>1 DEF OwnedInv, OwnInv, UnsafeHeld, Row
<1>5. ASSUME NEW g \in Tokens, run[g].job = i, Alive(g), run[g].mode = "run", run[g].abort = "none",
             run[g].wk = "err" \/ run[g].killed, ~Alive(g)'
      PROVE  FALSE
  <2>1. g = h
    BY <1>1, <1>5, AloneWith DEF Present
  <2>2. run[g].wk = "err"
    BY <1>5 DEF KnownInv, KilledWhy, KilledFor, Alive
  <2>3. run'[h].wk = "err"
    BY <2>1, <2>2 DEF Unmoved, LiveWorker
  <2> QED
    BY <1>5, <2>1, <2>3 DEF Present, Working, LiveWorker
<1> QED
  BY <1>2, <1>3, <1>4, <1>5 DEF Cause

(* A run that a step of the supervisor leaves at work knows what it knew.        *)
LEMMA RunKnownAside ==
  ASSUME ToolKinds, KnownInv, NEW i \in Jobs, db'[i] = db[i] \/ Moved(i),
         NEW h \in Tokens, run[h].job = i, Present(h), Present(h)', Unmoved(h),
         Alive(h)' /\ run'[h].abort = "none" => db'[i] = db[i]
  PROVE  /\ ReportedRun(run'[h], db'[i])
         /\ ~db[i].kind.retrySafe => UnsafeRun(run'[h], h, db'[i], outcome[i], dispatches[i])
<1> DEFINE r == db[i]
           r2 == db'[i]
           o == outcome[i]
           d == dispatches[i]
           w == run[h]
           w2 == run'[h]
<1>1. /\ OwnedInv /\ ReportedRun(w, r)
      /\ r.kind.protected \/ r.kind.fenced => ~r.kind.retrySafe
      /\ r2.kind = r.kind /\ r2.num = r.num /\ r2.audited = r.audited
  BY KnownParts DEF Published, Moved, Kin
<1>2. /\ w2.mode = w.mode /\ w2.att = w.att
      /\ w2.wk = w.wk \/ w2.wk = "dead"
      /\ Alive(h)' => Alive(h)
      /\ w2.abort = "none" => w.abort = "none"
  BY DEF Unmoved
<1>3. ReportedRun(w2, r2)
  <2>1. Settled(r) /\ r.kind.fenced => Settled(r2)
    BY <1>1, SettledStays
  <2> QED
    BY <1>1, <1>2, <2>1 DEF ReportedRun
<1>4. ASSUME ~r.kind.retrySafe PROVE UnsafeRun(w2, h, r2, o, d)
  <2>1. UnsafeRun(w, h, r, o, d)
    BY <1>4 DEF KnownInv, Known, UnsafeKnown
  <2>2. w2.wk \in {"admitted", "started", "returned"} => r2.num = 1 /\ w2.att = 1
    BY <1>1, <1>2, <2>1 DEF UnsafeRun
  <2>3. Owns(w2, h, r2)
    <3> SUFFICES ASSUME w2.pc \in {"exec", "persisted"}, w2.abort = "none", w2.mode = "run",
                        w2.wk \in {"started", "returned"}
                 PROVE  r2.state = "running" /\ r2.owner = h
      BY DEF Owns
    <3>1. r2 = r /\ w.pc \in {"exec", "persisted"} /\ w.abort = "none" /\ w.wk = w2.wk
      BY <1>2 DEF Alive
    <3> QED
      BY <1>2, <2>1, <3>1 DEF UnsafeRun, Owns
  <2>4. Failed(w2, r2, o, d)
    <3> SUFFICES ASSUME w2.pc \in {"exec", "persisted"}, w2.abort = "none", w2.mode = "run",
                        w2.wk = "err", ~Pure(r2.kind)
                 PROVE  d = 0 \/ o = "failed" \/ Settled(r2)
      BY DEF Failed
    <3>1. r2 = r /\ w.pc \in {"exec", "persisted"} /\ w.abort = "none" /\ w.wk = "err"
      BY <1>2 DEF Alive
    <3> QED
      BY <1>2, <2>1, <3>1 DEF UnsafeRun, Failed
  <2>5. Unended(w2, r2, d)
    <3>1. CASE w2.wk # "started"
      BY <3>1 DEF Unended
    <3>2. CASE w2.wk = "started"
      <4>1. w.wk = "started" /\ Unended(w, r, d)
        BY <1>2, <2>1, <3>2 DEF UnsafeRun
      <4>2. Unended(w, r2, d)
        BY <1>4, <4>1, UnendedMoved
      <4> QED
        BY <4>2, <4>1 DEF Unended
    <3> QED
      BY <3>1, <3>2
  <2>6. r2.status \in TERMINAL_JOB_STATES /\ r2.num = 0 => r2.status = "needs-review"
    BY <1>1, <1>4, <2>1, UnbegunEnds DEF UnsafeRun
  <2> QED
    BY <2>2, <2>3, <2>4, <2>5, <2>6 DEF UnsafeRun
<1> QED
  BY <1>3, <1>4

---------------------------------------------------------------------------
(* What a worker does to what is known of its job *)

(* Only an attempt that has not ended passes on.                               *)
LEMMA PassesFrom ==
  ASSUME NEW g \in Tokens, NEW r \in RowType, NEW r2, NEW to, Passes(g, r, r2, to)
  PROVE  /\ r.state \in {"queued", "running", "awaiting-approval", "cancelling"} /\ r.num > 0
         /\ r2.kind = r.kind /\ r2.status = r.status /\ r2.num = r.num /\ r2.audited = r.audited
         /\ r2.persisted = r.persisted /\ r2.state = to
<1>1. LegalTransition(r.state, to) /\ r.num = run[g].att /\ run[g].att > 0
  BY DEF Passes, CanTransition
<1>2. r.state \in {"queued", "running", "awaiting-approval", "cancelling"}
  BY <1>1 DEF LegalTransition
<1> QED
  BY <1>1, <1>2 DEF Passes, Alike, SameRow

(* The attempt goes on, and is completed only after it was audited or reported;  *)
(* it fails with its effect started only if that is known to have failed.       *)
Advances(i) ==
  LET r == db[i]  r2 == db'[i] IN
  /\ r2.kind = r.kind /\ r2.status = r.status /\ r2.persisted = r.persisted
  /\ r.audited => r2.audited
  /\ r2.audited => r.audited \/ (~r.kind.fenced /\ (r.kind.retrySafe \/ r2.num > 0))
  /\ r2.num \in Nat /\ r2.num >= r.num
  /\ r.kind.fenced /\ r.state = "completed" => outcome'[i] = outcome[i]
  /\ \/ r2.state = r.state /\ r2.num = r.num
     \/ /\ r.state \notin TERMINAL_JOB_STATES \/ r.kind.retrySafe
        /\ r2.state = "completed" =>
             IF r.kind.fenced THEN outcome'[i] = "ok" ELSE r.audited /\ ~r.kind.protected
  /\ ~r.kind.retrySafe /\ ~Pure(r.kind) /\ dispatches'[i] > 0 /\ r2.state \in {"failed", "cancelled"} =>
       \/ outcome'[i] = "failed"
       \/ dispatches'[i] = dispatches[i] /\ outcome'[i] = outcome[i] /\ r2.state = r.state

LEMMA RowKnownAdvances ==
  ASSUME ToolKinds, KnownInv, NEW i \in Jobs, NEW g \in Tokens, run[g].job = i, Present(g), Advances(i)
  PROVE  /\ PublishedRow(db'[i], outcome'[i])
         /\ ~db[i].kind.retrySafe => UnsafeRow(db'[i], outcome'[i], dispatches'[i])
<1> DEFINE r == db[i]
           r2 == db'[i]
           o2 == outcome'[i]
           d2 == dispatches'[i]
<1>1. /\ r.num \in Nat /\ PublishedRow(r, outcome[i]) /\ (r.num = 0 <=> r.state = "none")
      /\ r.kind.protected \/ r.kind.fenced => ~r.kind.retrySafe
      /\ ~(r.kind.protected /\ r.kind.fenced)
      /\ ~r.kind.retrySafe => UnsafeRow(r, outcome[i], dispatches[i])
  BY KnownParts DEF Published
<1>2. PublishedRow(r2, o2)
  <2>1. r2.persisted => r2.audited
    BY <1>1 DEF PublishedRow, Advances
  <2>2. r2.kind.fenced => ~r2.audited
    BY <1>1 DEF PublishedRow, Advances
  <2>3. CASE r2.state = r.state /\ r2.num = r.num
    BY <1>1, <2>1, <2>2, <2>3 DEF PublishedRow, Advances
  <2>4. CASE /\ r.state \notin TERMINAL_JOB_STATES \/ r.kind.retrySafe
             /\ r2.state = "completed" =>
                  IF r.kind.fenced THEN o2 = "ok" ELSE r.audited /\ ~r.kind.protected
    <3>1. ASSUME r2.status = "completed" PROVE ~r.kind.fenced
      BY <1>1, <2>4, <3>1 DEF PublishedRow, Advances
    <3> QED
      BY <1>1, <2>1, <2>2, <2>4, <3>1 DEF PublishedRow, Advances
  <2> QED
    BY <2>3, <2>4 DEF Advances
<1>3. ASSUME ~r.kind.retrySafe PROVE UnsafeRow(r2, o2, d2)
  <2>1. UnsafeRow(r, outcome[i], dispatches[i])
    BY <1>1, <1>3
  <2>2. ~Pure(r2.kind) /\ d2 > 0 /\ r2.state \in {"failed", "cancelled"} => o2 = "failed"
    BY <1>3, <2>1 DEF UnsafeRow, Advances
  <2>3. ASSUME r2.status \in TERMINAL_JOB_STATES, r2.num > 0 PROVE r2.status \in {r2.state, "needs-review"}
    <3>1. CASE r2.state = r.state /\ r2.num = r.num
      BY <2>1, <2>3, <3>1 DEF UnsafeRow, Advances
    <3>2. CASE ~(r2.state = r.state /\ r2.num = r.num) /\ r.num > 0
      BY <1>3, <2>1, <2>3, <3>2 DEF UnsafeRow, Advances
    <3>3. CASE ~(r2.state = r.state /\ r2.num = r.num) /\ r.num = 0
      BY <1>3, <2>3, <3>3 DEF KnownInv, Known, UnsafeKnown, UnsafeRun, Advances
    <3> QED
      BY <1>1, <3>1, <3>2, <3>3
  <2>4. r2.audited => r2.num > 0
    BY <1>1, <1>3, <2>1 DEF UnsafeRow, Advances
  <2> QED
    BY <2>2, <2>3, <2>4 DEF UnsafeRow
<1> QED
  BY <1>2, <1>3

(* What its worker knows of the job after its step. *)
Learns(g) ==
  LET i == run[g].job IN
  Present(g)' => /\ ReportedRun(run'[g], db'[i])
                 /\ ~db[i].kind.retrySafe => UnsafeRun(run'[g], g, db'[i], outcome'[i], dispatches'[i])

LEMMA WorkerKnows ==
  ASSUME ToolKinds, KnownInv, NEW g \in Tokens, WorkerStep(g)
  PROVE  LET i == run[g].job  r == db[i]  r2 == db'[i] IN
         /\ i \in Jobs /\ Row(g) = r /\ Present(g) /\ run[g].wk \in LiveWorker
         /\ r2.kind = r.kind /\ r2.status = r.status
         /\ ReportedRun(run[g], r) /\ ShapedRun(run[g], r)
         /\ ~r.kind.retrySafe =>
              /\ OnceRun(run[g], r, dispatches[i]) /\ UnsafeRun(run[g], g, r, outcome[i], dispatches[i])
              /\ OnceRow(r2, dispatches'[i])
         /\ HasEffect(g) <=> ~(r.kind.approval /\ run[g].mode = "run")
         /\ run[g].mode \in {"run", "approval"}
<1> DEFINE i == run[g].job
           r == db[i]
<1>1. OwnedInv /\ IInv
  BY DEF KnownInv, OnceInv, OwnedInv
<1>2. /\ i \in Jobs /\ Present(g) /\ run[g].wk \in LiveWorker /\ SameRow(r, db'[i]) /\ run[g] \in RunType
      /\ Row(g) = r
  BY <1>1, WorkerFrame DEF Row, IInv, TypeOK
<1>3. Shaped(i) /\ Once(i) /\ Known(i)
  BY <1>2 DEF KnownInv, OnceInv
<1>4. ASSUME ~r.kind.retrySafe PROVE OnceRow(db'[i], dispatches'[i])
  BY <1>1, <1>2, <1>3, <1>4, OnceWorker
<1> QED
  BY <1>2, <1>3, <1>4 DEF Shaped, Once, Known, Published, UnsafeKnown, HasEffect, RunType, SameRow

(* What it knows of its job goes with the worker to its next state. *)
LEMMA LearnsBy ==
  ASSUME ToolKinds, KnownInv, NEW g \in Tokens, WorkerStep(g), NEW wk, Goes(g, wk),
         Advances(run[g].job),
         LET i == run[g].job  r == db[i]  r2 == db'[i]  w == run'[g] IN
         Present(g)' =>
           /\ ReportedRun(w, r2)
           /\ ~r.kind.retrySafe =>
                /\ wk \in {"admitted", "started", "returned"} => r2.num = 1 /\ w.att = 1
                /\ Owns(w, g, r2) /\ Failed(w, r2, outcome'[i], dispatches'[i])
                /\ Unended(w, r2, dispatches'[i])
  PROVE  Learns(g)
<1> DEFINE i == run[g].job
           r == db[i]
           r2 == db'[i]
<1>1. /\ i \in Jobs /\ r2.status = r.status
      /\ ~r.kind.retrySafe => UnsafeRun(run[g], g, r, outcome[i], dispatches[i])
  BY WorkerKnows
<1>2. r.num \in Nat /\ r2.num \in Nat /\ r2.num >= r.num
  BY <1>1, KnownParts DEF Advances
<1>3. ~r.kind.retrySafe /\ r2.status \in TERMINAL_JOB_STATES /\ r2.num = 0 => r2.status = "needs-review"
  BY <1>1, <1>2 DEF UnsafeRun
<1>4. Present(g)' => run'[g].wk = wk
  BY DEF Goes
<1> QED
  BY <1>3, <1>4 DEF Learns, UnsafeRun

LEMMA BindKnown ==
  ASSUME ToolKinds, KnownInv, NEW g \in Tokens, WorkerBind(g) \/ WorkerRefused(g) \/ WorkerExits(g)
  PROVE  Advances(run[g].job) /\ Learns(g)
<1> DEFINE i == run[g].job
           r == db[i]
           r2 == db'[i]
<1>1. WorkerStep(g)
  BY DEF WorkerStep
<1>2. /\ i \in Jobs /\ OnceInv /\ IInv /\ PublishedRow(r, outcome[i]) /\ ReportedRun(run[g], r)
      /\ r.num \in Nat /\ dispatches[i] \in Nat
      /\ ~r.kind.retrySafe => OnceRun(run[g], r, dispatches[i])
  BY <1>1, WorkerKnows, KnownParts DEF KnownInv, Published
<1>3. /\ Rests(r, r2) /\ UNCHANGED <<dispatches, outcome>>
      /\ \/ run[g].wk \in {"boot", "bound"} /\ (Goes(g, "err") \/ Goes(g, "bound"))
         \/ run[g].wk = "boot" /\ r.audited /\ Goes(g, "ok")
         \/ run[g].killed /\ Goes(g, "dead")
  BY <1>2, BindMoves
<1>4. /\ r2.kind = r.kind /\ r2.status = r.status /\ r2.persisted = r.persisted /\ r2.audited = r.audited
      /\ r2.num = r.num /\ r2.state = r.state
  BY <1>3 DEF Rests, Alike, SameRow
<1>5. Advances(i)
  BY <1>2, <1>3, <1>4 DEF Advances
<1>6. PICK wk \in {"err", "bound", "ok", "dead"} :
        /\ Goes(g, wk)
        /\ wk = "ok" => r.audited
        /\ wk = "err" => run[g].wk \in Starting
  BY <1>3 DEF Starting
<1>7. ASSUME Present(g)' PROVE ReportedRun(run'[g], r2)
  BY <1>2, <1>4, <1>6, <1>7 DEF ReportedRun, Goes, PublishedRow
<1>8. ASSUME Present(g)', ~r.kind.retrySafe
      PROVE  /\ Owns(run'[g], g, r2) /\ Failed(run'[g], r2, outcome'[i], dispatches'[i])
             /\ Unended(run'[g], r2, dispatches'[i])
  <2>1. wk = "err" => dispatches[i] = 0
    BY <1>2, <1>6, <1>8 DEF OnceRun
  <2>2. run'[g].wk = wk /\ dispatches'[i] = dispatches[i]
    BY <1>3, <1>6, <1>8 DEF Goes
  <2> QED
    BY <2>1, <2>2 DEF Owns, Failed, Unended
<1> QED
  BY <1>1, <1>5, <1>6, <1>7, <1>8, LearnsBy

LEMMA AdmitKnown ==
  ASSUME ToolKinds, KnownInv, NEW g \in Tokens, WorkerAdmit(g)
  PROVE  Advances(run[g].job) /\ Learns(g)
<1> DEFINE i == run[g].job
           r == db[i]
           r2 == db'[i]
<1>1. WorkerStep(g)
  BY DEF WorkerStep
<1>2. /\ i \in Jobs /\ IInv /\ PublishedRow(r, outcome[i])
      /\ r.num \in Nat /\ dispatches[i] \in Nat /\ (r.num = 0 <=> r.state = "none")
      /\ ~r.kind.retrySafe => OnceRun(run[g], r, dispatches[i]) /\ OnceRow(r2, dispatches'[i])
      /\ r.kind.fenced => ~r.kind.retrySafe
  BY <1>1, WorkerKnows, KnownParts DEF KnownInv, Published
<1>3. /\ SameRow(r, r2) /\ UNCHANGED <<dispatches, outcome>>
      /\ r2.audited = r.audited /\ r2.persisted = r.persisted
      /\ run[g].wk = "bound" /\ Goes(g, "admitted") /\ run'[g].att = r2.num /\ r2.num > 0
      /\ \/ r2 = r /\ r.state \in {"queued", "awaiting-approval"}
         \/ r.num = 0 /\ r2.num = 1 /\ r2.state = "queued"
         \/ r.kind.retrySafe /\ r2.num = r.num + 1 /\ r2.state = "queued"
  BY <1>2, AdmitMoves
<1>4. r2.kind = r.kind /\ r2.status = r.status /\ r2.num \in Nat /\ r2.num >= r.num
  BY <1>2, <1>3 DEF SameRow
<1>5. /\ r2.state \in {"queued", "awaiting-approval"}
      /\ \/ r2.state = r.state /\ r2.num = r.num
         \/ r.state \notin TERMINAL_JOB_STATES \/ r.kind.retrySafe
  BY <1>2, <1>3
<1>6. Advances(i)
  BY <1>2, <1>3, <1>4, <1>5 DEF Advances
<1>7. ASSUME Present(g)' PROVE run'[g].wk = "admitted" /\ ReportedRun(run'[g], r2)
  BY <1>3, <1>7 DEF Goes, ReportedRun
<1>8. ASSUME Present(g)', ~r.kind.retrySafe
      PROVE  /\ r2.num = 1 /\ run'[g].att = 1
             /\ Owns(run'[g], g, r2) /\ Failed(run'[g], r2, outcome'[i], dispatches'[i])
             /\ Unended(run'[g], r2, dispatches'[i])
  <2>1. r2.num = 1
    BY <1>2, <1>3, <1>4, <1>8 DEF OnceRow
  <2> QED
    BY <1>3, <1>7, <1>8, <2>1 DEF Owns, Failed, Unended
<1> QED
  BY <1>1, <1>3, <1>6, <1>7, <1>8, LearnsBy

LEMMA StartKnown ==
  ASSUME ToolKinds, KnownInv, NEW g \in Tokens, WorkerStart(g)
  PROVE  Advances(run[g].job) /\ Learns(g)
<1> DEFINE i == run[g].job
           r == db[i]
           r2 == db'[i]
<1>1. WorkerStep(g)
  BY DEF WorkerStep
<1>2. /\ i \in Jobs /\ IInv /\ r \in RowType /\ r.num \in Nat
      /\ r.kind.fenced => ~r.kind.retrySafe
      /\ ~r.kind.retrySafe =>
           OnceRun(run[g], r, dispatches[i]) /\ UnsafeRun(run[g], g, r, outcome[i], dispatches[i])
  BY <1>1, WorkerKnows, KnownParts DEF KnownInv
<1>3. /\ run[g].wk = "admitted" /\ Goes(g, "started")
      /\ \/ r2 = r /\ r.state = "running" /\ run[g].att = r.num
         \/ Passes(g, r, r2, "running")
      /\ HasEffect(g) => dispatches'[i] = dispatches[i] + 1 /\ outcome'[i] = "none"
      /\ ~HasEffect(g) => dispatches'[i] = dispatches[i] /\ outcome'[i] = outcome[i]
  BY <1>2, StartMoves
<1>4. /\ r2.kind = r.kind /\ r2.status = r.status /\ r2.num = r.num /\ r2.audited = r.audited
      /\ r2.persisted = r.persisted /\ r2.state = "running"
      /\ r.state \notin TERMINAL_JOB_STATES
  BY <1>2, <1>3, PassesFrom
<1>5. Advances(i)
  BY <1>2, <1>4 DEF Advances
<1>6. ASSUME Present(g)' PROVE run'[g].wk = "started" /\ ReportedRun(run'[g], r2)
  BY <1>3, <1>6 DEF Goes, ReportedRun
<1>7. ASSUME Present(g)', ~r.kind.retrySafe
      PROVE  /\ r2.num = 1 /\ run'[g].att = 1
             /\ Owns(run'[g], g, r2) /\ Failed(run'[g], r2, outcome'[i], dispatches'[i])
             /\ Unended(run'[g], r2, dispatches'[i])
  <2>1. r2.num = 1 /\ run'[g].att = 1
    BY <1>2, <1>3, <1>4, <1>7 DEF UnsafeRun, Goes
  <2>2. r.state # "running"
    BY <1>2, <1>3, <1>7 DEF OnceRun, Starting, Executing
  <2>3. r2.owner = g
    BY <1>3, <2>2 DEF Passes
  <2> QED
    BY <1>4, <1>6, <1>7, <2>1, <2>3 DEF Owns, Failed, Unended
<1> QED
  BY <1>1, <1>3, <1>5, <1>6, <1>7, LearnsBy

(* A run that nobody told to stop closes its own attempt.                       *)
LEMMA OwnerCloses ==
  ASSUME NEW g \in Tokens, NEW r, r.num = 1, run[g].att = 1, r.state = "running", r.owner = g,
         NEW to \in {"awaiting-approval"} \cup TERMINAL_JOB_STATES
  PROVE  CanTransition(r, g, run[g].att, to)
  BY DEF CanTransition, LegalTransition

LEMMA CloseKnown ==
  ASSUME ToolKinds, KnownInv, NEW g \in Tokens, WorkerDenied(g) \/ WorkerThrows(g) \/ WorkerUncertain(g)
  PROVE  Advances(run[g].job) /\ Learns(g)
<1> DEFINE i == run[g].job
           r == db[i]
           r2 == db'[i]
<1>1. WorkerStep(g)
  BY DEF WorkerStep
<1>2. /\ i \in Jobs /\ IInv /\ r \in RowType /\ r.num \in Nat /\ dispatches[i] \in Nat /\ Row(g) = r
      /\ r.kind.protected \/ r.kind.fenced => ~r.kind.retrySafe
      /\ ~r.kind.retrySafe =>
           OnceRun(run[g], r, dispatches[i]) /\ UnsafeRun(run[g], g, r, outcome[i], dispatches[i])
      /\ HasEffect(g) <=> ~(r.kind.approval /\ run[g].mode = "run")
  BY <1>1, WorkerKnows, KnownParts DEF KnownInv
<1>3. /\ run[g].wk \in {"admitted", "started", "returned"} /\ Goes(g, "err")
      /\ dispatches' = dispatches
  BY <1>2, CloseMoves
<1>4. PICK told \in BOOLEAN, to \in {"failed", "cancelled", "needs-review"} :
        /\ told => Interrupted(g) /\ r.kind.graceful
        /\ \/ Rests(r, r2) /\ (Deferred(g) \/ ~CanTransition(r, g, run[g].att, to))
           \/ Passes(g, r, r2, to)
        /\ told => to = UncertainOr(g, "cancelled")
        /\ \/ run[g].wk = "admitted" /\ UNCHANGED outcome
           \/ told /\ UNCHANGED outcome
           \/ ~told /\ to = "failed" /\ run[g].wk = "started"
              /\ outcome'[i] = (IF HasEffect(g) THEN "failed" ELSE outcome[i])
           \/ ~told /\ to = UncertainOr(g, "failed") /\ run[g].wk \in {"started", "returned"}
              /\ UNCHANGED outcome
  BY <1>2, CloseMoves
<1>5. /\ r2.kind = r.kind /\ r2.status = r.status /\ r2.num = r.num /\ r2.audited = r.audited
      /\ r2.persisted = r.persisted
      /\ r2.state = r.state \/ (r2.state = to /\ r.state \notin TERMINAL_JOB_STATES)
  BY <1>2, <1>4, PassesFrom DEF Rests, Alike, SameRow
<1>6. ASSUME ~r.kind.retrySafe, ~Pure(r.kind), dispatches[i] > 0
      PROVE  to = "needs-review" \/ outcome'[i] = "failed"
  <2>1. run[g].wk # "admitted" /\ HasEffect(g)
    BY <1>2, <1>6 DEF OnceRun, Starting
  <2>2. UncertainOr(g, "cancelled") = "needs-review" /\ UncertainOr(g, "failed") = "needs-review"
    BY <1>2, <1>6 DEF UncertainOr, Pure
  <2> QED
    BY <1>4, <2>1, <2>2
<1>7. ASSUME r.kind.fenced, r.state = "completed" PROVE outcome'[i] = outcome[i]
  <2>1. run[g].wk # "started"
    BY <1>2, <1>7 DEF UnsafeRun, Unended
  <2> QED
    BY <1>4, <2>1
<1>8. outcome'[i] = outcome[i] \/ outcome'[i] = "failed"
  BY <1>4
<1>9. Advances(i)
  BY <1>2, <1>3, <1>5, <1>6, <1>7, <1>8 DEF Advances
<1>10. ASSUME Present(g)' PROVE run'[g].wk = "err" /\ ReportedRun(run'[g], r2)
  BY <1>3, <1>10 DEF Goes, ReportedRun
<1>11. ASSUME Present(g)', ~r.kind.retrySafe
       PROVE  /\ Owns(run'[g], g, r2) /\ Failed(run'[g], r2, outcome'[i], dispatches'[i])
              /\ Unended(run'[g], r2, dispatches'[i])
  <2>1. ASSUME Alive(g), run[g].abort = "none", run[g].mode = "run", ~Pure(r.kind), dispatches[i] > 0
        PROVE  outcome'[i] = "failed" \/ Settled(r2)
    <3> SUFFICES ASSUME to = "needs-review" PROVE Settled(r2)
      BY <1>6, <1>11, <2>1
    <3>1. run[g].wk \in {"started", "returned"} /\ r.num = 1 /\ run[g].att = 1
      BY <1>2, <1>3, <1>11, <2>1 DEF OnceRun, Starting, UnsafeRun
    <3>2. r.state = "running" /\ r.owner = g
      BY <1>2, <1>11, <2>1, <3>1 DEF UnsafeRun, Owns, Alive
    <3>3. CanTransition(r, g, run[g].att, to)
      BY <3>1, <3>2, OwnerCloses
    <3>4. ~Deferred(g)
      BY <1>2, <2>1 DEF Deferred, Pure
    <3>5. r2.state = to
      BY <1>4, <3>3, <3>4 DEF Passes
    <3> QED
      BY <1>5, <3>1, <3>5 DEF Settled
  <2>2. /\ run'[g].wk = "err" /\ run'[g].pc = run[g].pc /\ run'[g].mode = run[g].mode
        /\ run'[g].abort = run[g].abort
    BY <1>3, <1>11 DEF Goes
  <2>3. Failed(run'[g], r2, outcome'[i], dispatches'[i])
    BY <1>2, <1>3, <1>5, <2>1, <2>2 DEF Failed, Alive
  <2> QED
    BY <2>2, <2>3 DEF Owns, Unended
<1> QED
  BY <1>1, <1>3, <1>9, <1>10, <1>11, LearnsBy

LEMMA AskKnown ==
  ASSUME ToolKinds, KnownInv, NEW g \in Tokens, WorkerApproval(g)
  PROVE  Advances(run[g].job) /\ Learns(g)
<1> DEFINE i == run[g].job
           r == db[i]
           r2 == db'[i]
<1>1. WorkerStep(g)
  BY DEF WorkerStep
<1>2. /\ i \in Jobs /\ IInv /\ r \in RowType /\ r.num \in Nat /\ dispatches[i] \in Nat
      /\ ~r.kind.retrySafe => OnceRun(run[g], r, dispatches[i])
  BY <1>1, WorkerKnows, KnownParts DEF KnownInv
<1>3. /\ r.kind.approval /\ run[g].mode = "run" /\ UNCHANGED <<dispatches, outcome>>
      /\ \/ Passes(g, r, r2, "awaiting-approval") /\ Goes(g, "approval")
         \/ Rests(r, r2) /\ Goes(g, "err")
  BY <1>2, AskMoves
<1>4. /\ r2.kind = r.kind /\ r2.status = r.status /\ r2.num = r.num /\ r2.audited = r.audited
      /\ r2.persisted = r.persisted
      /\ r2.state = r.state \/ (r2.state = "awaiting-approval" /\ r.state \notin TERMINAL_JOB_STATES)
  BY <1>2, <1>3, PassesFrom DEF Rests, Alike, SameRow
<1>5. Advances(i)
  BY <1>2, <1>3, <1>4 DEF Advances
<1>6. PICK wk \in {"approval", "err"} : Goes(g, wk)
  BY <1>3
<1>7. ASSUME Present(g)' PROVE run'[g].wk = wk /\ ReportedRun(run'[g], r2)
  BY <1>6, <1>7 DEF Goes, ReportedRun
<1>8. ASSUME Present(g)', ~r.kind.retrySafe
      PROVE  /\ Owns(run'[g], g, r2) /\ Failed(run'[g], r2, outcome'[i], dispatches'[i])
             /\ Unended(run'[g], r2, dispatches'[i])
  <2>1. dispatches'[i] = 0
    BY <1>2, <1>3, <1>8 DEF OnceRun
  <2> QED
    BY <1>7, <1>8, <2>1 DEF Owns, Failed, Unended
<1> QED
  BY <1>1, <1>5, <1>6, <1>7, <1>8, LearnsBy

LEMMA ReturnKnown ==
  ASSUME ToolKinds, KnownInv, NEW g \in Tokens, WorkerReturns(g)
  PROVE  Advances(run[g].job) /\ Learns(g)
<1> DEFINE i == run[g].job
           r == db[i]
           r2 == db'[i]
<1>1. WorkerStep(g)
  BY DEF WorkerStep
<1>2. /\ i \in Jobs /\ IInv /\ r \in RowType /\ r.num \in Nat /\ dispatches[i] \in Nat
      /\ ~r.kind.retrySafe => UnsafeRun(run[g], g, r, outcome[i], dispatches[i])
  BY <1>1, WorkerKnows, KnownParts DEF KnownInv
<1>3. /\ run[g].wk = "started" /\ Goes(g, "returned") /\ HasEffect(g) /\ ~r.kind.fenced
      /\ SameRow(r, r2) /\ r2.state = r.state /\ r2.owner = r.owner /\ r2.num = r.num
      /\ r2.audited /\ r2.persisted = r.persisted
      /\ dispatches' = dispatches
  BY <1>2, ReturnMoves
<1>4. r2.kind = r.kind /\ r2.status = r.status
  BY <1>3 DEF SameRow
<1>5. ~r.kind.retrySafe => r.num = 1 /\ run[g].att = 1 /\ Unended(run[g], r, dispatches[i]) /\ Owns(run[g], g, r)
  BY <1>2, <1>3 DEF UnsafeRun
<1>6. Advances(i)
  BY <1>2, <1>3, <1>4, <1>5 DEF Advances, Unended
<1>7. ASSUME Present(g)' PROVE run'[g].wk = "returned" /\ ReportedRun(run'[g], r2)
  BY <1>3, <1>4, <1>7 DEF Goes, ReportedRun
<1>8. ASSUME Present(g)', ~r.kind.retrySafe
      PROVE  /\ r2.num = 1 /\ run'[g].att = 1
             /\ Owns(run'[g], g, r2) /\ Failed(run'[g], r2, outcome'[i], dispatches'[i])
             /\ Unended(run'[g], r2, dispatches'[i])
  <2>1. /\ run'[g].pc = run[g].pc /\ run'[g].mode = run[g].mode /\ run'[g].abort = run[g].abort
        /\ run'[g].att = run[g].att
    BY <1>3, <1>8 DEF Goes
  <2>2. Owns(run'[g], g, r2)
    BY <1>3, <1>5, <1>8, <2>1 DEF Owns
  <2> QED
    BY <1>3, <1>5, <1>7, <1>8, <2>1, <2>2 DEF Failed, Unended
<1> QED
  BY <1>1, <1>3, <1>6, <1>7, <1>8, LearnsBy

LEMMA EndKnown ==
  ASSUME ToolKinds, KnownInv, NEW g \in Tokens, WorkerGraphEnds(g) \/ WorkerSettles(g)
  PROVE  Advances(run[g].job) /\ Learns(g)
<1> DEFINE i == run[g].job
           r == db[i]
           r2 == db'[i]
<1>1. WorkerStep(g)
  BY DEF WorkerStep
<1>2. /\ i \in Jobs /\ IInv /\ r \in RowType /\ r.num \in Nat /\ dispatches[i] \in Nat /\ Row(g) = r
      /\ r.kind.protected \/ r.kind.fenced => ~r.kind.approval /\ ~r.kind.retrySafe
      /\ ~(r.kind.protected /\ r.kind.fenced)
      /\ ReportedRun(run[g], r)
      /\ ~r.kind.retrySafe =>
           OnceRun(run[g], r, dispatches[i]) /\ UnsafeRun(run[g], g, r, outcome[i], dispatches[i])
      /\ HasEffect(g) <=> ~(r.kind.approval /\ run[g].mode = "run")
  BY <1>1, WorkerKnows, KnownParts DEF KnownInv
<1>3. dispatches' = dispatches
  BY <1>2, EndMoves
<1>4. CASE run[g].wk = "started" /\ r.kind.fenced
  <2>1. Goes(g, "ok")
    BY <1>2, <1>4, EndMoves
  <2>2. /\ HasEffect(g) /\ ~r.kind.retrySafe /\ r.num = 1 /\ run[g].att = 1
        /\ r.state # "completed"
    BY <1>2, <1>4 DEF UnsafeRun, Unended
  <2>3. \/ Rests(r, r2) /\ Settled(r) /\ UNCHANGED outcome
        \/ \E status \in TERMINAL_JOB_STATES :
             /\ Passes(g, r, r2, status)
             /\ outcome'[i] = IF status = "completed" THEN "ok" ELSE "failed"
    BY <1>2, <1>4, <2>2, EndMoves
  <2>4. /\ r2.kind = r.kind /\ r2.status = r.status /\ r2.num = r.num /\ r2.audited = r.audited
        /\ r2.persisted = r.persisted /\ Settled(r2)
        /\ \/ r2.state = r.state
           \/ r.state \notin TERMINAL_JOB_STATES /\ (r2.state = "completed" => outcome'[i] = "ok")
    <3>1. CASE Rests(r, r2) /\ Settled(r)
      BY <3>1 DEF Rests, Alike, SameRow, Settled
    <3>2. ASSUME NEW status \in TERMINAL_JOB_STATES, Passes(g, r, r2, status),
                 outcome'[i] = IF status = "completed" THEN "ok" ELSE "failed"
          PROVE  /\ r2.kind = r.kind /\ r2.status = r.status /\ r2.num = r.num /\ r2.audited = r.audited
                 /\ r2.persisted = r.persisted /\ Settled(r2)
                 /\ r.state \notin TERMINAL_JOB_STATES /\ (r2.state = "completed" => outcome'[i] = "ok")
      BY <1>2, <3>2, PassesFrom DEF Settled
    <3> QED
      BY <2>3, <3>1, <3>2
  <2>5. Advances(i)
    BY <1>2, <1>3, <1>4, <2>2, <2>4 DEF Advances, Pure
  <2>6. ASSUME Present(g)' PROVE run'[g].wk = "ok" /\ ReportedRun(run'[g], r2)
    BY <1>4, <2>1, <2>4, <2>6 DEF Goes, ReportedRun
  <2>7. ASSUME Present(g)'
        PROVE  /\ Owns(run'[g], g, r2) /\ Failed(run'[g], r2, outcome'[i], dispatches'[i])
               /\ Unended(run'[g], r2, dispatches'[i])
    BY <2>6, <2>7 DEF Owns, Failed, Unended
  <2> QED
    BY <1>1, <2>1, <2>5, <2>6, <2>7, LearnsBy
<1>5. CASE run[g].wk = "returned"
  <2> DEFINE live == run[g].att = r.num /\ ~Settled(r) /\ ~Deferred(g)
  <2>1. /\ UNCHANGED outcome
        /\ \/ ~live /\ Rests(r, r2) /\ Goes(g, "ok")
           \/ live /\ Passes(g, r, r2, "completed") /\ Goes(g, "ok")
           \/ live /\ ~CanTransition(r, g, run[g].att, "completed") /\ Rests(r, r2) /\ Goes(g, "err")
    BY <1>2, <1>5, EndMoves
  <2>2. r.audited /\ ~r.kind.fenced
    BY <1>2, <1>5 DEF ReportedRun
  <2>3. live => ~r.kind.protected /\ run[g].mode # "approval"
    BY <1>2 DEF Deferred
  <2>4. /\ r2.kind = r.kind /\ r2.status = r.status /\ r2.num = r.num /\ r2.audited = r.audited
        /\ r2.persisted = r.persisted
        /\ \/ r2.state = r.state
           \/ r.state \notin TERMINAL_JOB_STATES /\ r2.state = "completed" /\ ~r.kind.protected
    BY <1>2, <2>1, <2>3, PassesFrom DEF Rests, Alike, SameRow
  <2>5. Advances(i)
    BY <1>2, <1>3, <2>1, <2>2, <2>4 DEF Advances
  <2>6. PICK wk \in {"ok", "err"} :
          /\ Goes(g, wk)
          /\ wk = "err" => live /\ ~CanTransition(r, g, run[g].att, "completed")
    BY <2>1
  <2>7. ASSUME Present(g)' PROVE run'[g].wk = wk /\ ReportedRun(run'[g], r2)
    BY <2>2, <2>4, <2>6, <2>7 DEF Goes, ReportedRun
  <2>8. ASSUME Present(g)', ~r.kind.retrySafe
        PROVE  /\ Owns(run'[g], g, r2) /\ Failed(run'[g], r2, outcome'[i], dispatches'[i])
               /\ Unended(run'[g], r2, dispatches'[i])
    <3>1. ASSUME wk = "err", Alive(g), run[g].abort = "none", run[g].mode = "run" PROVE FALSE
      <4>1. r.num = 1 /\ run[g].att = 1 /\ r.state = "running" /\ r.owner = g
        BY <1>2, <1>5, <2>8, <3>1 DEF UnsafeRun, Owns, Alive
      <4> QED
        BY <2>6, <3>1, <4>1, OwnerCloses
    <3>2. /\ run'[g].wk = wk /\ run'[g].pc = run[g].pc /\ run'[g].mode = run[g].mode
          /\ run'[g].abort = run[g].abort
      BY <2>6, <2>8 DEF Goes
    <3> QED
      BY <3>1, <3>2 DEF Owns, Failed, Unended, Alive
  <2> QED
    BY <1>1, <2>5, <2>6, <2>7, <2>8, LearnsBy
<1> QED
  BY <1>2, <1>4, <1>5, EndMoves

LEMMA WorkerKnown ==
  ASSUME ToolKinds, KnownInv, NEW g \in Tokens, WorkerStep(g)
  PROVE  Advances(run[g].job) /\ Learns(g)
  BY BindKnown, AdmitKnown, StartKnown, CloseKnown, AskKnown, ReturnKnown, EndKnown DEF WorkerStep

---------------------------------------------------------------------------
(* Whatever happens to a job, its rows and its runs stay true *)

(* The row after a step, and every run still at work on the job.                *)
KnownAfter(i) ==
  LET r2 == db'[i]  o2 == outcome'[i]  d2 == dispatches'[i] IN
  /\ PublishedRow(r2, o2)
  /\ ~r2.kind.retrySafe => UnsafeRow(r2, o2, d2)
  /\ \A h \in Tokens : run'[h].job = i /\ Present(h)' =>
       /\ ReportedRun(run'[h], r2)
       /\ ~r2.kind.retrySafe => UnsafeRun(run'[h], h, r2, o2, d2)

LEMMA SubmitKnown ==
  ASSUME ToolKinds, KnownInv, [Next]_vars, NEW i \in Jobs, Submits(i)
  PROVE  KnownAfter(i)
<1> DEFINE r == db[i]
           r2 == db'[i]
<1>1. OwnedInv /\ Shaped(i) /\ LedgerConsistent(r)
  BY KnownParts
<1>2. /\ r.status = "absent" /\ r2.status = "queued" /\ r2.num = r.num /\ r2.state = r.state
      /\ r2.audited = r.audited /\ r2.persisted = r.persisted
      /\ UNCHANGED <<run, dispatches, outcome>>
      /\ \A h \in Tokens : Taken(h) => run[h].job # i
  BY <1>1, SubmitMoves
<1>3. dispatches[i] = 0 /\ r.num = 0 /\ ~r.audited /\ ~r.persisted /\ r.state = "none"
  BY <1>1, <1>2 DEF Shaped, ShapedRow, LedgerConsistent
<1>4. PublishedRow(r2, outcome'[i]) /\ UnsafeRow(r2, outcome'[i], dispatches'[i])
  BY <1>2, <1>3 DEF PublishedRow, UnsafeRow
<1>5. \A h \in Tokens : ~(run'[h].job = i /\ Present(h)')
  BY <1>2 DEF Present, Taken, Alive, Working, LiveWorker
<1> QED
  BY <1>4, <1>5 DEF KnownAfter

LEMMA ClaimKnown ==
  ASSUME ToolKinds, KnownInv, [Next]_vars, NEW i \in Jobs, Claims(i)
  PROVE  KnownAfter(i)
<1> DEFINE r == db[i]
           r2 == db'[i]
           o == outcome[i]
           d == dispatches[i]
<1>1. /\ OwnedInv /\ IInv /\ OwnInv /\ d \in Nat /\ Published(i)
      /\ ~r.kind.retrySafe => OnceRow(r, d) /\ UnsafeRow(r, o, d)
  BY KnownParts DEF OwnedInv
<1>2. /\ r2.status = "running" /\ r2.kind = r.kind /\ r2.num = r.num /\ r2.state = r.state
      /\ r2.audited = r.audited /\ r2.persisted = r.persisted
      /\ UNCHANGED <<dispatches, outcome>>
      /\ r.status = IF DrainDispatch(i) THEN "queued" ELSE "awaiting-approval"
      /\ NewRun(run'[issued + 1], i)
      /\ \A h \in Tokens \ {issued + 1} : run'[h] = run[h] /\ Unmoved(h)
  BY <1>1, ClaimMoves
<1>3. PublishedRow(r2, o)
  BY <1>1, <1>2 DEF Published, PublishedRow
<1>4. ~r.kind.retrySafe => UnsafeRow(r2, o, d)
  BY <1>1, <1>2 DEF UnsafeRow
<1>5. ASSUME NEW h \in Tokens, run'[h].job = i, Present(h)'
      PROVE  ReportedRun(run'[h], r2) /\ (~r.kind.retrySafe => UnsafeRun(run'[h], h, r2, o, d))
  <2>1. CASE h = issued + 1
    <3>1. run'[h].wk \in {"none", "boot", "err"}
      BY <1>2, <2>1 DEF NewRun
    <3>2. ~r.kind.retrySafe => d = 0
      BY <1>1, <1>2 DEF OnceRow, Waiting
    <3>3. ReportedRun(run'[h], r2)
      BY <3>1 DEF ReportedRun
    <3>4. ASSUME ~r.kind.retrySafe PROVE UnsafeRun(run'[h], h, r2, o, d)
      BY <1>2, <3>1, <3>2, <3>4 DEF UnsafeRun, Owns, Failed, Unended
    <3> QED
      BY <3>3, <3>4
  <2>2. CASE h # issued + 1
    <3>1. run'[h] = run[h] /\ Present(h) /\ run[h].job = i
      BY <1>2, <1>5, <2>2 DEF Unmoved
    <3>2. r.kind.retrySafe
      BY <1>1, <3>1, ClaimedAlone
    <3>3. ReportedRun(run[h], r)
      BY <1>1, <3>1 DEF Published
    <3>4. Settled(r2) <=> Settled(r)
      BY <1>2 DEF Settled
    <3>5. ReportedRun(run'[h], r2)
      BY <1>2, <3>1, <3>3, <3>4 DEF ReportedRun
    <3> QED
      BY <3>2, <3>5
  <2> QED
    BY <2>1, <2>2
<1> QED
  BY <1>2, <1>3, <1>4, <1>5 DEF KnownAfter

LEMMA WorkerKnownAfter ==
  ASSUME ToolKinds, KnownInv, NEW i \in Jobs, NEW g \in Tokens, run[g].job = i, WorkerStep(g)
  PROVE  KnownAfter(i)
<1> DEFINE r == db[i]
           r2 == db'[i]
<1>1. /\ OwnedInv /\ IInv /\ Published(i)
      /\ r.kind.protected \/ r.kind.fenced => ~r.kind.retrySafe
  BY KnownParts DEF OwnedInv
<1>2. /\ Present(g) /\ run'[g].job = i
      /\ \A h \in Tokens \ {g} : run'[h] = run[h] /\ (Present(h)' <=> Present(h))
  BY <1>1, WorkerFrame
<1>3. Advances(i) /\ Learns(g)
  BY WorkerKnown
<1>4. r2.kind = r.kind /\ (r.audited => r2.audited)
  BY <1>3 DEF Advances
<1>5. PublishedRow(r2, outcome'[i]) /\ (~r.kind.retrySafe => UnsafeRow(r2, outcome'[i], dispatches'[i]))
  BY <1>2, <1>3, RowKnownAdvances
<1>6. ASSUME NEW h \in Tokens, run'[h].job = i, Present(h)'
      PROVE  /\ ReportedRun(run'[h], r2)
             /\ ~r.kind.retrySafe => UnsafeRun(run'[h], h, r2, outcome'[i], dispatches'[i])
  <2>1. CASE h = g
    BY <1>3, <1>6, <2>1 DEF Learns
  <2>2. CASE h # g
    <3>1. run'[h] = run[h] /\ Present(h) /\ run[h].job = i
      BY <1>2, <1>6, <2>2
    <3>2. r.kind.retrySafe
      BY <1>1, <1>2, <2>2, <3>1, AloneWith
    <3>3. ReportedRun(run[h], r)
      BY <1>1, <3>1 DEF Published
    <3>4. ReportedRun(run'[h], r2)
      BY <1>1, <1>4, <3>1, <3>2, <3>3 DEF ReportedRun
    <3> QED
      BY <3>2, <3>4
  <2> QED
    BY <2>1, <2>2
<1> QED
  BY <1>4, <1>5, <1>6 DEF KnownAfter

(* A step that leaves the attempt of the job, and what its runs know, alone.     *)
LEMMA RunKnownStill ==
  ASSUME NEW h \in Tokens, NEW r, NEW r2, NEW o, NEW d, NEW w, NEW w2,
         r2.kind = r.kind, r2.status = r.status, r2.num = r.num, r2.state = r.state, r2.owner = r.owner,
         r2.audited = r.audited,
         w2.mode = w.mode, w2.att = w.att, w2.wk = w.wk \/ w2.wk = "dead",
         w2.pc \in {"exec", "persisted"} => w.pc \in {"exec", "persisted"},
         w2.abort = "none" => w.abort = "none"
  PROVE  /\ ReportedRun(w, r) => ReportedRun(w2, r2)
         /\ UnsafeRun(w, h, r, o, d) => UnsafeRun(w2, h, r2, o, d)
<1>1. Settled(r2) <=> Settled(r)
  BY DEF Settled
<1>2. ReportedRun(w, r) => ReportedRun(w2, r2)
  BY <1>1 DEF ReportedRun
<1>3. Owns(w, h, r) => Owns(w2, h, r2)
  BY DEF Owns
<1>4. Failed(w, r, o, d) => Failed(w2, r2, o, d)
  BY <1>1 DEF Failed
<1>5. Unended(w, r, d) => Unended(w2, r2, d)
  BY DEF Unended
<1> QED
  BY <1>2, <1>3, <1>4, <1>5 DEF UnsafeRun

LEMMA PersistKnown ==
  ASSUME ToolKinds, KnownInv, NEW i \in Jobs, NEW g \in Tokens, run[g].job = i, RunPersist(g)
  PROVE  KnownAfter(i)
<1> DEFINE r == db[i]
           r2 == db'[i]
           o == outcome[i]
           d == dispatches[i]
<1>1. /\ OwnedInv /\ Published(i) /\ UnsafeKnown(i)
      /\ ~(r.kind.protected /\ r.kind.fenced)
  BY KnownParts DEF KnownInv, Known
<1>2. /\ SameRow(r, r2) /\ r2.state = r.state /\ r2.owner = r.owner /\ r2.num = r.num
      /\ r2.audited = r.audited /\ r2.persisted
      /\ Alive(g) /\ run[g].wk = "ok" /\ r.kind.protected
      /\ UNCHANGED <<dispatches, outcome>>
      /\ \A h \in Tokens : run'[h].job = run[h].job /\ Unmoved(h)
  BY <1>1, PersistMoves, PersistFrame
<1>3. r2.kind = r.kind /\ r2.status = r.status
  BY <1>2 DEF SameRow
<1>4. r.audited
  BY <1>1, <1>2 DEF Published, ReportedRun, Present
<1>5. PublishedRow(r2, o) /\ (~r.kind.retrySafe => UnsafeRow(r2, o, d))
  BY <1>1, <1>2, <1>3, <1>4 DEF Published, PublishedRow, UnsafeKnown, UnsafeRow
<1>6. ASSUME NEW h \in Tokens, run'[h].job = i, Present(h)'
      PROVE  ReportedRun(run'[h], r2) /\ (~r.kind.retrySafe => UnsafeRun(run'[h], h, r2, o, d))
  <2>1. /\ Present(h) /\ run[h].job = i /\ run'[h].mode = run[h].mode /\ run'[h].att = run[h].att
        /\ run'[h].wk = run[h].wk \/ run'[h].wk = "dead"
        /\ run'[h].pc \in {"exec", "persisted"} => run[h].pc \in {"exec", "persisted"}
        /\ run'[h].abort = "none" => run[h].abort = "none"
    BY <1>2, <1>6 DEF Unmoved, Alive
  <2>2. ReportedRun(run[h], r) /\ (~r.kind.retrySafe => UnsafeRun(run[h], h, r, o, d))
    BY <1>1, <2>1 DEF Published, UnsafeKnown
  <2> HIDE DEF r, r2, o, d
  <2> QED
    BY <1>2, <1>3, <2>1, <2>2, RunKnownStill
<1> QED
  BY <1>2, <1>3, <1>5, <1>6 DEF KnownAfter

LEMMA ForkKnown ==
  ASSUME ToolKinds, KnownInv, NEW i \in Jobs, NEW g \in Tokens, run[g].job = i, ApprovalDispatch(g)
  PROVE  KnownAfter(i)
<1> DEFINE r == db[i]
           o == outcome[i]
           d == dispatches[i]
<1>1. IInv /\ Published(i) /\ UnsafeKnown(i)
  BY KnownParts DEF KnownInv, Known
<1>2. /\ UNCHANGED <<db, dispatches, outcome>>
      /\ \A h \in Tokens \ {g} : run'[h] = run[h] /\ (Present(h)' <=> Present(h))
      /\ Present(g) /\ run'[g].mode = "approval" /\ run'[g].wk \in {"boot", "err"}
  BY <1>1, ForkMoves
<1>3. ASSUME NEW h \in Tokens, run'[h].job = i, Present(h)'
      PROVE  ReportedRun(run'[h], r) /\ (~r.kind.retrySafe => UnsafeRun(run'[h], h, r, o, d))
  <2>1. CASE h = g
    <3>1. ~r.kind.retrySafe => UnsafeRun(run[g], g, r, o, d)
      BY <1>1, <1>2 DEF UnsafeKnown
    <3> QED
      BY <1>2, <2>1, <3>1 DEF ReportedRun, UnsafeRun, Owns, Failed, Unended
  <2>2. CASE h # g
    BY <1>1, <1>2, <1>3, <2>2 DEF Published, UnsafeKnown
  <2> QED
    BY <2>1, <2>2
<1> QED
  BY <1>1, <1>2, <1>3 DEF KnownAfter, Published, UnsafeKnown

LEMMA AsideKnown ==
  ASSUME ToolKinds, KnownInv, LifeInv', [Next]_vars, NEW i \in Jobs, Aside(i)
  PROVE  KnownAfter(i)
<1> DEFINE r == db[i]
           r2 == db'[i]
           o == outcome[i]
           d == dispatches[i]
<1>1. OwnedInv /\ Published(i) /\ UnsafeKnown(i)
  BY KnownParts DEF KnownInv, Known
<1>2. /\ r2 = r \/ Moved(i)
      /\ dispatches'[i] = d /\ outcome'[i] = o
      /\ \A h \in Tokens : run'[h].job = i /\ Present(h)' => run[h].job = i /\ Unmoved(h)
      /\ \A h \in Tokens : run'[h].job = i /\ Alive(h)' /\ run'[h].abort = "none" => r2 = r
  BY <1>1, AsideMoves
<1>3. r2.kind = r.kind
  BY <1>2 DEF Moved, Kin
<1>4. PublishedRow(r2, o) /\ (~r.kind.retrySafe => UnsafeRow(r2, o, d))
  BY <1>1, <1>2, RowKnownMoved DEF Published, UnsafeKnown
<1>5. ASSUME NEW h \in Tokens, run'[h].job = i, Present(h)'
      PROVE  ReportedRun(run'[h], r2) /\ (~r.kind.retrySafe => UnsafeRun(run'[h], h, r2, o, d))
  <2>1. run[h].job = i /\ Unmoved(h) /\ Present(h)
    BY <1>2, <1>5 DEF Unmoved
  <2>2. Alive(h)' /\ run'[h].abort = "none" => r2 = r
    BY <1>2, <1>5
  <2> QED
    BY <1>2, <1>5, <2>1, <2>2, RunKnownAside
<1> QED
  BY <1>2, <1>3, <1>4, <1>5 DEF KnownAfter

LEMMA KnownStep ==
  ASSUME ToolKinds, KnownInv, LifeInv', [Next]_vars, NEW i \in Jobs
  PROVE  Known(i)'
<1>1. KnownAfter(i)
  BY StepsOf, SubmitKnown, ClaimKnown, WorkerKnownAfter, PersistKnown, ForkKnown, AsideKnown
<1> QED
  BY <1>1 DEF KnownAfter, Known, Published, UnsafeKnown, Present, Alive, Working

LEMMA InitKnown == Init => KnownInv
<1> SUFFICES ASSUME Init PROVE KnownInv
  OBVIOUS
<1>1. OnceInv
  BY InitOnce
<1>2. AbsentRow.status = "absent" /\ AbsentRow.num = 0 /\ AbsentRow.state = "none"
      /\ ~AbsentRow.audited /\ ~AbsentRow.persisted
  BY DEF AbsentRow
<1>3. owned /\ \A g \in Tokens : run[g].pc = "none" /\ ~Present(g)
  BY DEF Init, NoRun, Present, Alive, Working, LiveWorker
<1>4. \A i \in Jobs : db[i] = AbsentRow /\ dispatches[i] = 0
  BY DEF Init
<1>5. KilledWhy
  BY <1>3 DEF KilledWhy, KilledFor
<1>6. \A i \in Jobs : Known(i)
  BY <1>2, <1>3, <1>4 DEF Known, Published, UnsafeKnown, PublishedRow, UnsafeRow
<1> QED
  BY <1>1, <1>5, <1>6 DEF KnownInv

LEMMA KnownInvStep ==
  ASSUME ~Stalls, ~OwnershipLoss, ToolKinds, KnownInv, [Next]_vars
  PROVE  KnownInv'
<1>1. OnceInv'
  BY OnceInvStep DEF KnownInv
<1>2. LifeInv'
  BY <1>1 DEF OnceInv, OwnedInv
<1>3. KilledWhy'
  BY KilledStep DEF KnownInv, OnceInv, OwnedInv
<1>4. \A i \in Jobs : Known(i)'
  BY <1>2, KnownStep
<1> QED
  BY <1>1, <1>3, <1>4 DEF KnownInv

(* A published end is the truth, for every number of jobs, claims, crashes,      *)
(* kills, cancellations, timeouts and recoveries: a job is completed only if a   *)
(* worker audited its completion, or its graph reported it, and a channel reply  *)
(* only after its result was persisted; an unsafe job whose effect was started   *)
(* fails or is cancelled only if its tool said that it failed (run, its catch    *)
(* block, recover, settleApproval, adoptProtectedResult).  It is assumed that no *)
(* lease of a live run lapses and that the Gateway keeps its instance: a loss of *)
(* ownership kills a worker of a run that nobody told to stop, and its job then  *)
(* fails though the outcome is unknown (InterruptedNeedsReview).                *)
THEOREM OutcomeHonestHolds ==
  ASSUME ~Stalls, ~OwnershipLoss, ToolKinds
  PROVE  Spec => []OutcomeHonest
<1>1. Init => KnownInv
  BY InitKnown
<1>2. KnownInv /\ [Next]_vars => KnownInv'
  BY KnownInvStep
<1>3. KnownInv => OutcomeHonest
  <2> SUFFICES ASSUME KnownInv, NEW i \in Jobs
               PROVE  /\ db[i].status = "completed" =>
                           /\ IF db[i].kind.fenced THEN outcome[i] = "ok" ELSE db[i].audited
                           /\ db[i].kind.protected => db[i].persisted
                      /\ /\ ~db[i].kind.retrySafe /\ ~Pure(db[i].kind) /\ dispatches[i] > 0
                         /\ db[i].status \in {"failed", "cancelled"}
                         => outcome[i] = "failed"
    BY DEF OutcomeHonest
  <2>1. /\ Published(i)
        /\ ~db[i].kind.retrySafe => OnceRow(db[i], dispatches[i]) /\ UnsafeRow(db[i], outcome[i], dispatches[i])
        /\ db[i].num \in Nat /\ (db[i].num = 0 <=> db[i].state = "none")
    BY KnownParts
  <2>2. ASSUME ~db[i].kind.retrySafe, ~Pure(db[i].kind), dispatches[i] > 0,
               db[i].status \in {"failed", "cancelled"}
        PROVE  outcome[i] = "failed"
    <3>1. db[i].num > 0
      BY <2>1, <2>2 DEF OnceRow, Executing
    <3>2. db[i].state = db[i].status
      BY <2>1, <2>2, <3>1 DEF UnsafeRow
    <3> QED
      BY <2>1, <2>2, <3>2 DEF UnsafeRow
  <2> QED
    BY <2>1, <2>2 DEF Published, PublishedRow
<1> QED
  BY <1>1, <1>2, <1>3, PTL DEF Spec

(* The published end of an unsafe job and the end of its attempt agree unless an *)
(* operator must look: the end of the job moves a live attempt with it, and      *)
(* nobody at work can move the attempt afterwards (update, transitionAttempt,    *)
(* transitionExecutionAttempt).  Where ownership may be lost, a worker that was  *)
(* killed with it may still admit the first attempt of the job that failed.     *)
THEOREM ProjectionAgreesHolds ==
  ASSUME ~Stalls, ~OwnershipLoss, ToolKinds
  PROVE  Spec => []ProjectionAgrees
<1>1. Init => KnownInv
  BY InitKnown
<1>2. KnownInv /\ [Next]_vars => KnownInv'
  BY KnownInvStep
<1>3. KnownInv => ProjectionAgrees
  BY DEF KnownInv, Known, UnsafeKnown, UnsafeRow, ProjectionAgrees
<1> QED
  BY <1>1, <1>2, <1>3, PTL DEF Spec
=============================================================================
