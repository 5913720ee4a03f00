----------------------------- MODULE WorkflowRows -----------------------------
(***************************************************************************)
(* The durable workflow store: what each transaction does to one workflow  *)
(* run and its steps.  A run is a record with the columns of its row and   *)
(* the rows of its steps:                                                  *)
(*                                                                         *)
(*   status   workflow_runs.status, "absent" before the run is created     *)
(*   cancel   cancellation_requested_at is set                             *)
(*   fail     failure_requested_at is set                                  *)
(*   due      the deadline of that cancellation or failure has passed      *)
(*   step     step -> its row; lease is the token (the attempt it was      *)
(*            given to, 0 for NULL), past says lease_expires_at has passed *)
(*                                                                         *)
(* An operator takes the run before and returns the run after; one with a  *)
(* guard Can... throws, and changes nothing, where the guard is false.     *)
(*                                                                         *)
(* Source: packages/store-sqlite/src/workflows.ts.                         *)
(*                                                                         *)
(* An operator marked "faulty" is an unused variant of the next one, with  *)
(* a mistake in it.                                                        *)
(***************************************************************************)
EXTENDS Naturals, FiniteSets

CONSTANT MaxAttempts     \* max_attempts of every step

ASSUME AttemptsAssumption == MaxAttempts \in 1..8

TERMINAL_STATUSES == {"completed", "failed", "cancelled", "needs-review"}
STEP_STATUSES == TERMINAL_STATUSES \cup {"queued", "awaiting-approval", "running"}
RUN_STATUSES == STEP_STATUSES

StepType == [status : STEP_STATUSES, attempt : Nat, lease : Nat, past : BOOLEAN,
             retrySafe : BOOLEAN, available : BOOLEAN]

RunType(S) == [status : RUN_STATUSES \cup {"absent"}, cancel : BOOLEAN, fail : BOOLEAN,
               due : BOOLEAN, step : [S -> StepType]]

(* A step as create inserts it; kind: its retry safety, and whether its input *)
(* survived the redaction of what is persisted.                               *)
NewStep(kind) == [status |-> "queued", attempt |-> 0, lease |-> 0, past |-> FALSE,
                  retrySafe |-> kind.retrySafe, available |-> kind.available]

NewRun(status, kinds) ==
  [status |-> status, cancel |-> FALSE, fail |-> FALSE, due |-> FALSE,
   step |-> [s \in DOMAIN kinds |-> NewStep(kinds[s])]]

Terminal(w) == w.status \in TERMINAL_STATUSES
Free(w) == ~w.cancel /\ ~w.fail
InStatus(w, statuses) == {s \in DOMAIN w.step : w.step[s].status \in statuses}

(* The status get() reports. *)
Status(w) ==
  CASE w.cancel /\ ~Terminal(w)            -> "cancelling"
    [] w.fail /\ ~w.cancel /\ ~Terminal(w) -> "stopping"
    [] OTHER                               -> w.status

(* Every such update of steps clears the lease. *)
SetSteps(w, S, status) ==
  [w EXCEPT !.step = [s \in DOMAIN w.step |->
     IF s \in S THEN [w.step[s] EXCEPT !.status = status, !.lease = 0, !.past = FALSE]
                ELSE w.step[s]]]

DropUnstarted(w) == SetSteps(w, InStatus(w, {"queued", "awaiting-approval"}), "cancelled")

Leased(w, s, lease) == lease # 0 /\ w.step[s].lease = lease
Held(w, s, lease) == Leased(w, s, lease) /\ ~w.step[s].past

---------------------------------------------------------------------------
(* Settlement of a run whose steps have all ended. *)

Quarantined(w) == SetSteps(w, InStatus(w, {"running"}), "needs-review")

(* faulty: overlooks that a step had failed *)
settleCancellationLax(w, quarantineRunning) ==
  LET d == DropUnstarted(IF quarantineRunning THEN Quarantined(w) ELSE w)
  IN IF InStatus(d, {"running"}) # {} \/ ~d.cancel \/ Terminal(d) THEN d
     ELSE [d EXCEPT !.status = IF InStatus(d, {"needs-review"}) # {}
                               THEN "needs-review" ELSE "cancelled"]

settleCancellation(w, quarantineRunning) ==
  LET d == DropUnstarted(IF quarantineRunning THEN Quarantined(w) ELSE w)
  IN IF InStatus(d, {"running"}) # {} \/ ~d.cancel \/ Terminal(d) THEN d
     ELSE [d EXCEPT !.status = IF InStatus(d, {"needs-review", "failed"}) # {}
                               THEN "needs-review" ELSE "cancelled"]

settleFailure(w, quarantineRunning) ==
  LET d == DropUnstarted(IF quarantineRunning THEN Quarantined(w) ELSE w)
  IN IF InStatus(d, {"running"}) # {} \/ d.cancel \/ ~d.fail \/ Terminal(d) THEN d
     ELSE [d EXCEPT !.status = IF InStatus(d, {"needs-review"}) # {}
                               THEN "needs-review" ELSE "failed"]

beginFailureStop(w, due) ==
  LET d == DropUnstarted(w)
  IN IF Terminal(d) THEN d
     ELSE settleFailure([d EXCEPT !.status = "running", !.fail = TRUE,
                                  !.due = IF d.fail THEN d.due ELSE due], FALSE)

Verdict(w) ==
  LET Some(status) == InStatus(w, {status}) # {}
  IN IF Some("needs-review") THEN "needs-review"
     ELSE IF Some("failed") THEN "failed"
     ELSE IF Some("cancelled") THEN "cancelled" ELSE "completed"

settleRun(w) ==
  IF w.cancel THEN settleCancellation(w, FALSE)
  ELSE IF w.fail THEN settleFailure(w, FALSE)
  ELSE IF InStatus(w, TERMINAL_STATUSES) = DOMAIN w.step
          /\ w.status \notin {"cancelled", "needs-review"}
  THEN [w EXCEPT !.status = Verdict(w)]
  ELSE w

---------------------------------------------------------------------------
(* The life of one step. *)

(* faulty: effectful steps are retried as well *)
RetryLeftAny(w, s) == w.step[s].attempt < MaxAttempts

RetryLeft(w, s) == w.step[s].retrySafe /\ w.step[s].attempt < MaxAttempts

(* claimNext: a queued step of a run that is neither stopping nor waiting. *)
Candidate(w, s) == w.step[s].status = "queued" /\ w.status \in {"queued", "running"} /\ Free(w)

CanClaim(w, s, dependencies) ==
  /\ Candidate(w, s) /\ w.step[s].available
  /\ \A d \in dependencies : w.step[d].status = "completed"

(* The candidates D before it in the list whose input was redacted are given up. *)
GiveUp(w, D) ==
  IF D = {} THEN w ELSE [SetSteps(w, D, "needs-review") EXCEPT !.status = "needs-review"]

Claimed(x) ==
  [x EXCEPT !.status = "running", !.attempt = @ + 1, !.lease = x.attempt + 1, !.past = FALSE]

claimNext(w, s) ==
  [w EXCEPT !.status = IF @ = "queued" THEN "running" ELSE @, !.step[s] = Claimed(w.step[s])]

CanSettle(w, s, lease) == Held(w, s, lease) /\ Free(w)

completeStep(w, s) == settleRun(SetSteps(w, {s}, "completed"))

failStep(w, s, uncertain) ==
  IF ~uncertain /\ RetryLeft(w, s) THEN SetSteps(w, {s}, "queued")
  ELSE beginFailureStop(SetSteps(w, {s}, IF uncertain THEN "needs-review" ELSE "failed"), FALSE)

(* The lease stays on the step; the status of the run is overwritten. *)
awaitApproval(w, s) ==
  [w EXCEPT !.step[s].status = "awaiting-approval", !.status = "awaiting-approval"]

CanResume(w) == Status(w) \notin {"absent", "cancelling", "stopping", "needs-review"}

resume(w) ==
  IF w.status # "awaiting-approval" THEN w
  ELSE [SetSteps(w, InStatus(w, {"awaiting-approval"}), "queued") EXCEPT !.status = "queued"]

---------------------------------------------------------------------------
(* Cancellation, stop and quarantine. *)

requestCancellation(w) ==
  IF Terminal(w) THEN w
  ELSE [DropUnstarted(w) EXCEPT !.cancel = TRUE, !.due = w.cancel /\ w.due]

CanAcknowledge(w, s, lease) == Held(w, s, lease) /\ w.cancel

(* faulty: every end of a cancelled step counts as cancelled *)
acknowledgeCancellationBlunt(w, s, uncertain) ==
  settleCancellation(SetSteps(w, {s}, "cancelled"), FALSE)

acknowledgeCancellation(w, s, uncertain) ==
  settleCancellation(SetSteps(w, {s}, IF uncertain THEN "needs-review" ELSE "cancelled"), FALSE)

CanStop(w, s, lease) == Held(w, s, lease) /\ w.fail /\ ~w.cancel

acknowledgeStop(w, s, uncertain) ==
  settleFailure(SetSteps(w, {s}, IF uncertain THEN "needs-review" ELSE "cancelled"), FALSE)

finalizeCancellation(w) ==
  IF ~w.cancel \/ Terminal(w) THEN w ELSE settleCancellation(w, TRUE)

(* One step after another of S; the lease need not be current, only unchanged. *)
quarantineStep(w, S) ==
  LET q == SetSteps(w, S, "needs-review")
  IN IF S = {} THEN w
     ELSE IF w.cancel THEN settleCancellation(q, FALSE)
     ELSE settleFailure(beginFailureStop(q, FALSE), FALSE)

(* renewStepLease changes nothing the model tells apart where it succeeds. *)
CanRenew(w, s, lease) == Held(w, s, lease) /\ w.step[s].status = "running" /\ Free(w)

---------------------------------------------------------------------------
(* recover(): deadlines first, then expired leases, then what is left of   *)
(* the cancellations.  local: the steps whose lease the process still      *)
(* holds; Q: the retryable steps its query lists before one that is not.   *)

Deadlines(w) ==
  IF Terminal(w) \/ ~w.due THEN w
  ELSE IF w.cancel THEN settleCancellation(w, TRUE) ELSE settleFailure(w, TRUE)

Expired(w) == {s \in InStatus(w, {"running"}) : w.step[s].past}

Retryable(w, local) == {s \in Expired(w) \ local : Free(w) /\ RetryLeft(w, s)}

Leases(w, local, Q) ==
  LET retryable == Retryable(w, local)
      lost      == Expired(w) \ retryable
      marked    == SetSteps(SetSteps(w, lost, "needs-review"), Q \cap retryable, "queued")
  IN IF lost = {} THEN SetSteps(w, retryable, "queued")
     ELSE IF w.cancel THEN settleCancellation(marked, TRUE)
     ELSE settleFailure(beginFailureStop(marked, TRUE), TRUE)

recover(w, local, Q) ==
  LET d == Leases(Deadlines(w), local, Q)
  IN IF d.cancel /\ ~Terminal(d) THEN settleCancellation(d, FALSE) ELSE d

(* What the next recovery is scheduled for. *)
Pending(w) ==
  \/ \E s \in InStatus(w, {"running"}) : ~w.step[s].past
  \/ ~Free(w) /\ ~Terminal(w) /\ ~w.due
=============================================================================
