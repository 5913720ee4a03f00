------------------------------ MODULE JobRows ------------------------------
(***************************************************************************)
(* The durable side of a runtime job: one row of runtime_jobs, its lease   *)
(* rows in runtime_job_leases and the latest row of execution_attempts of  *)
(* its run.  Every method of SqliteJobStore, and every method of RunLedger *)
(* that changes an execution attempt, is one SQLite transaction; here it   *)
(* is an operator from the row before to the row after.                    *)
(*                                                                         *)
(* Source: packages/store-sqlite/src/runtime-jobs.ts and                   *)
(* packages/store-sqlite/src/index.ts.                                     *)
(*                                                                         *)
(* Only the latest attempt of a run is kept: resumeExecution adds one only *)
(* when the previous one is terminal, and a terminal attempt never moves.  *)
(*                                                                         *)
(* An operator marked "faulty" is a variant of the one that follows it,    *)
(* with a mistake in it; nothing uses it.  It shows what a property would  *)
(* catch.                                                                  *)
(***************************************************************************)
EXTENDS Naturals, FiniteSets

CONSTANTS
  Kinds,        \* the classes of task a job may carry, see KindType
  MaxClaims,    \* bound on the lease tokens ever issued
  MaxAttempts   \* the supervisor's maxAttempts

ASSUME BoundsAssumption == MaxClaims \in Nat /\ MaxAttempts \in Nat \ {0}

(* retrySafe   - the tool's safety descriptor allows another attempt         *)
(* recoverable - the persisted payload equals the submitted one              *)
(* protected   - channel agent.run: result goes to the protected store and   *)
(*               the supervisor settles the attempt (deferred settlement)    *)
(* approval    - the first dispatch answers approval.required                *)
(* graceful    - process.exec: an abort is a message, the kill comes later   *)
(* fenced      - agent.delegate: cancellation runs a fence that may fail     *)
KindType == [retrySafe : BOOLEAN, recoverable : BOOLEAN, protected : BOOLEAN,
             approval : BOOLEAN, graceful : BOOLEAN, fenced : BOOLEAN]

ASSUME KindsAssumption == Kinds \subseteq KindType /\ Kinds # {}

Tokens == 1..MaxClaims
NoToken == 0

TERMINAL_JOB_STATES == {"completed", "failed", "cancelled", "needs-review"}
JOB_STATES ==
  {"queued", "running", "cancelling", "awaiting-approval"} \cup TERMINAL_JOB_STATES
ATTEMPT_STATES == JOB_STATES

(* status "absent": no row.  num = 0: no envelope, hence no attempt.         *)
(* lease is the dispatch lease of the job row, open the tokens of its lease  *)
(* rows whose released_at is null; owner is the worker generation that owns  *)
(* the attempt, NoToken once owner_released_at is set.                       *)
RowType ==
  [kind : Kinds, status : JOB_STATES \cup {"absent"}, attempts : Nat,
   lease : {NoToken} \cup Tokens, open : SUBSET Tokens,
   num : Nat, state : ATTEMPT_STATES \cup {"none"}, owner : {NoToken} \cup Tokens,
   bound : BOOLEAN, audited : BOOLEAN, cancelRequested : BOOLEAN,
   persisted : BOOLEAN]

---------------------------------------------------------------------------
(* Attempts *)

Settled(r) == r.num > 0 /\ r.state \in TERMINAL_JOB_STATES

\* transitionAttempt of the job store: an unconditional move of a live attempt
transitionAttempt(r, to) ==
  IF r.num = 0 \/ Settled(r) \/ r.state = to THEN r
  ELSE [r EXCEPT !.state = to,
                 !.owner = IF to \in TERMINAL_JOB_STATES THEN NoToken ELSE @]

\* EXECUTION_ATTEMPT_TRANSITIONS
LegalTransition(from, to) ==
  to \in (CASE from = "queued" -> {"running", "failed", "cancelled"}
            [] from = "running" -> {"awaiting-approval", "cancelling"} \cup TERMINAL_JOB_STATES
            [] from = "awaiting-approval" -> {"running"} \cup TERMINAL_JOB_STATES
            [] from = "cancelling" -> TERMINAL_JOB_STATES
            [] OTHER -> {})

(* transitionExecutionAttempt by worker g on attempt n: the compare-and-set    *)
(* holds when n is still the live attempt, the move is legal and the owner     *)
(* rules allow it: entering execution needs no live owner, leaving it needs    *)
(* the caller to be the owner.                                                 *)
CanTransition(r, g, n, to) ==
  /\ n = r.num /\ n > 0
  /\ LegalTransition(r.state, to)
  /\ to = "running" => r.owner = NoToken
  /\ r.state \in {"running", "cancelling"} => r.owner = g

transitionExecutionAttempt(r, g, to) ==
  [r EXCEPT !.state = to,
            !.owner = IF to = "running" THEN g
                      ELSE IF to = "cancelling" THEN @ ELSE NoToken]

\* admitExecution: the envelope is recorded once, with attempt 1
CanAdmit(r) == r.num = 0
admitExecution(r) == [r EXCEPT !.num = 1, !.state = "queued"]

\* resumeExecution reuses a queued (or, for a continuation, an awaiting) attempt
CanReuse(r, continuation) ==
  r.num > 0 /\ (r.state = "queued" \/ (r.state = "awaiting-approval" /\ continuation))

\* resumeExecution: a new attempt after a failed or cancelled retry-safe one
CanResume(r) == r.num > 0 /\ r.kind.retrySafe /\ r.state \in {"failed", "cancelled"}
resumeExecution(r) == [r EXCEPT !.num = @ + 1, !.state = "queued"]

---------------------------------------------------------------------------
(* Jobs *)

\* faulty: the lease row stays open
releaseLeaseKeepsRow(r) == [r EXCEPT !.lease = NoToken]

releaseLease(r) == [r EXCEPT !.open = @ \ {r.lease}, !.lease = NoToken]

create(r, k) == [r EXCEPT !.kind = k, !.status = "queued"]

Lease(r, g) == [r EXCEPT !.status = "running", !.lease = g, !.open = @ \cup {g}]

claimNextQueued(r, g) == [Lease(r, g) EXCEPT !.attempts = @ + 1]

CanClaimApproval(r) ==
  r.status = "awaiting-approval" /\ r.num > 0 /\ r.state = "awaiting-approval"
claimApproval(r, g) == Lease(r, g)

(* update, without the lease: a terminal request gives way to the state of a   *)
(* settled attempt, needs-review gives way to nothing, and a terminal target   *)
(* settles the attempt too.                                                    *)
TargetStatus(r, requested) ==
  IF requested # "needs-review" /\ requested \in TERMINAL_JOB_STATES /\ Settled(r)
  THEN r.state ELSE requested

\* faulty: the attempt does not follow its job
updateKeepingLeaseJobOnly(r, requested) ==
  [r EXCEPT !.status = TargetStatus(r, requested)]

updateKeepingLease(r, requested) ==
  LET target == TargetStatus(r, requested)
      moved == IF target \in TERMINAL_JOB_STATES THEN transitionAttempt(r, target) ELSE r
  IN  [moved EXCEPT !.status = target]

update(r, requested) == releaseLease(updateKeepingLease(r, requested))

\* faulty: the lease token is not compared
updateUnfenced(r, g, requested) == update(r, requested)

\* update with expectedLeaseToken: a stale generation changes nothing
updateFenced(r, g, requested) == IF r.lease # g THEN r ELSE update(r, requested)

\* cancel
cancel(r) ==
  IF r.status \in TERMINAL_JOB_STATES THEN r
  ELSE IF Settled(r) THEN releaseLease([r EXCEPT !.status = r.state])
  ELSE LET status == IF r.status \in {"running", "cancelling"} THEN "cancelling" ELSE "cancelled"
           moved == IF r.num > 0 /\ r.state = "running" THEN transitionAttempt(r, "cancelling")
                    ELSE IF status = "cancelled" THEN transitionAttempt(r, "cancelled") ELSE r
       IN  [moved EXCEPT !.status = status, !.cancelRequested = @ \/ r.num > 0]

(* settleApproval: an interruption after dispatch has an unknown outcome.      *)
CanSettleApproval(r, g) ==
  /\ r.lease = g /\ r.status \in {"running", "cancelling"}
  /\ r.num > 0 /\ r.state \in {"awaiting-approval", "running", "cancelling"}
settleApproval(r, dispatched, interrupted, error) ==
  LET target == IF interrupted \/ r.status = "cancelling"
                THEN IF dispatched THEN "needs-review" ELSE "cancelled"
                ELSE IF error THEN "needs-review" ELSE "completed"
  IN  releaseLease([transitionAttempt(r, target) EXCEPT !.status = target])

(* adoptProtectedResult, with the snapshot it is given taken just before.      *)
CanAdopt(r, interrupted) ==
  /\ r.status = "running" /\ r.num > 0 /\ r.state \in {"running", "completed"}
  /\ ~r.cancelRequested /\ ~interrupted
  /\ r.lease # NoToken /\ r.lease \in r.open
adoptProtectedResult(r, interrupted) ==
  LET target == IF CanAdopt(r, interrupted) THEN "completed" ELSE "needs-review"
  IN  releaseLease([transitionAttempt(r, target) EXCEPT !.status = target])

\* faulty: running jobs whose lease holds are recovered too
NeedsRecoveryOfLeased(r, expired) ==
  r.status \in {"running", "cancelling", "awaiting-approval", "queued"}

(* recover: which rows it looks at, and what each becomes.  expired is the set *)
(* of tokens whose lease has run out.                                          *)
NeedsRecovery(r, expired) ==
  \/ r.status \in {"running", "cancelling"} /\ (r.lease = NoToken \/ r.lease \in expired)
  \/ r.status \in {"awaiting-approval", "queued"}

\* faulty: any tool is retried; attempts are not counted
RetryLeftUnsafe(r) == r.attempts < MaxAttempts
RetryLeft(r) == r.kind.retrySafe /\ r.attempts < MaxAttempts

\* a settled attempt whose job may be given another one
RetrySettled(r) ==
  /\ r.status \in {"queued", "running"} /\ RetryLeft(r)
  /\ r.state = "failed" \/ (r.state = "cancelled" /\ r.status = "queued")

\* faulty: the attempt is mirrored before it has settled
RecoveredStatusMirrors(r) == IF RetrySettled(r) THEN "queued" ELSE r.state

\* the status recovery chooses, its cases in the order the code tests them
RecoveredStatus(r) ==
  IF RetrySettled(r) THEN "queued"
  ELSE IF Settled(r) THEN r.state
  ELSE IF r.status = "cancelling" THEN IF r.kind.retrySafe THEN "cancelled" ELSE "needs-review"
  ELSE IF r.state = "awaiting-approval"
  THEN IF r.status = "awaiting-approval" THEN "awaiting-approval" ELSE "needs-review"
  ELSE IF ~r.kind.recoverable
  THEN IF r.state = "running" /\ ~r.kind.retrySafe THEN "needs-review" ELSE "failed"
  ELSE IF r.num = 0 \/ r.state = "queued" \/ RetryLeft(r) THEN "queued"
  ELSE IF r.kind.retrySafe THEN "failed" ELSE "needs-review"

(* Its attempt follows it, except that a retry closes the interrupted attempt  *)
(* as failed and a queued attempt that never started is kept for the next run. *)
recover(r) ==
  LET status == RecoveredStatus(r)
      moved == IF status \in TERMINAL_JOB_STATES THEN transitionAttempt(r, status)
               ELSE IF status = "queued" /\ r.state \in {"running", "cancelling"}
               THEN transitionAttempt(r, "failed") ELSE r
  IN  releaseLease([moved EXCEPT !.status = status])
============================================================================
