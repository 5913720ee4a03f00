----------------------------- MODULE ApprovalFlow -----------------------------
(***************************************************************************)
(* One approval: a tool that asks first proposes an exact request, which   *)
(* the store keeps sealed; operators approve, deny or cancel it, each in a *)
(* request of the Gateway that awaits between the store and the job; the   *)
(* worker of an approved request consumes it and only then has its effect. *)
(*                                                                         *)
(* Grain of atomicity.  An operation of the store is one step: it reads,   *)
(* purges what has expired, changes and renames its file under the lock    *)
(* (FileLocks).  Every await of a request lies between two steps.          *)
(*                                                                         *)
(* Source: packages/kernel/src/approvals.ts, apps/gateway/src/server.ts,   *)
(* packages/kernel/src/index.ts (the trusted continuation) and jobs.ts     *)
(* (runApproval, cancel).                                                  *)
(*                                                                         *)
(* An operator marked "faulty" is an unused variant of the next one, with  *)
(* a mistake in it.                                                        *)
(***************************************************************************)
EXTENDS Naturals

CONSTANTS
  Approvers, Deniers, Cancellers,   \* requests of operators, by what they ask
  MaxFaults                         \* bound on refused accesses and crashes

Requests == Approvers \cup Deniers \cup Cancellers

VARIABLES
  row,       \* the approval in the store: "none", "pending", "approved"
  lapsed,    \* its five minutes are over
  job,       \* the job it was proposed by: a status, or "direct" when none
  pc,        \* request -> where it is
  marked,    \* requests past markDispatched()
  worker,    \* request -> its worker: "none", "recover", "consume", "ok", "denied"
  killed,    \* requests whose worker was told to die
  faults,
  effects,   \* ghost: effects so far
  granted,   \* ghost: an operator's approval was accepted
  denied     \* ghost: a request revoked it

vars == <<row, lapsed, job, pc, marked, worker, killed, faults, effects, granted, denied>>

Ends == {"completed", "cancelled", "needs-review"}

(* Store, job and requests keep their shapes. *)
TypeOK ==
  /\ row \in {"none", "pending", "approved"}
  /\ job \in {"direct", "asking", "awaiting", "running", "cancelling"} \cup Ends
  /\ pc \in [Requests -> {"idle", "status", "begin", "claim", "recover", "dispatch", "work",
                          "revoke", "stale", "cancel"}]
  /\ worker \in [Approvers -> {"none", "recover", "consume", "ok", "denied"}]
  /\ marked \subseteq Approvers /\ killed \subseteq Approvers
  /\ lapsed \in BOOLEAN /\ granted \in BOOLEAN /\ denied \in BOOLEAN
  /\ faults \in 0..MaxFaults /\ effects \in Nat

(* "asking": the job is running and its tool has not answered yet. *)
Init ==
  /\ row = "none" /\ lapsed = FALSE /\ job \in {"direct", "asking"}
  /\ pc = [r \in Requests |-> "idle"] /\ worker = [r \in Approvers |-> "none"]
  /\ marked = {} /\ killed = {} /\ faults = 0
  /\ effects = 0 /\ granted = FALSE /\ denied = FALSE

Fault == faults < MaxFaults /\ faults' = faults + 1

(* expire(): what the operations but revoke() find. *)
Found == IF lapsed THEN "none" ELSE row

Go(r, to) == pc' = [pc EXCEPT ![r] = to]

---------------------------------------------------------------------------
(* The tool asks: create(); then its job waits for the operator. *)

Create ==
  /\ row = "none" /\ ~lapsed /\ ~denied /\ effects = 0 /\ job \in {"direct", "asking"}
  /\ row' = "pending"
  /\ UNCHANGED <<lapsed, job, pc, marked, worker, killed, faults, effects, granted, denied>>

Await ==
  /\ job = "asking" /\ (row # "none" \/ denied \/ lapsed) /\ job' = "awaiting"
  /\ UNCHANGED <<row, lapsed, pc, marked, worker, killed, faults, effects, granted, denied>>

Lapse ==
  /\ row # "none" /\ ~lapsed /\ lapsed' = TRUE
  /\ UNCHANGED <<row, job, pc, marked, worker, killed, faults, effects, granted, denied>>

---------------------------------------------------------------------------
(* approveGatewayApproval().  One at a time: activeGatewayApprovalExecutions. *)

(* list() shows the approval, or there is nothing to approve. *)
ApprovePreview(r) ==
  /\ pc[r] = "idle" /\ \A q \in Approvers : pc[q] = "idle"
  /\ row' = Found /\ Found # "none" /\ Go(r, "status")
  /\ UNCHANGED <<lapsed, job, marked, worker, killed, faults, effects, granted, denied>>

(* What is refused is revoked, but while another run has the job. *)
Refuse(r) ==
  /\ row' = IF job \in {"asking", "running"} THEN row ELSE "none"
  /\ denied' = (denied \/ (row' = "none" /\ row # "none"))
  /\ Go(r, "idle")

ApproveStatus(r) ==
  /\ pc[r] = "status"
  /\ IF job \in {"direct", "awaiting"}
     THEN Go(r, IF job = "direct" THEN "claim" ELSE "begin") /\ UNCHANGED <<row, denied>>
     ELSE Refuse(r)
  /\ UNCHANGED <<lapsed, job, marked, worker, killed, faults, effects, granted>>

(* beginApproval() *)
ApproveBegin(r) ==
  /\ pc[r] = "begin"
  /\ IF job = "awaiting" THEN job' = "running" /\ Go(r, "claim") /\ UNCHANGED <<row, denied>>
                         ELSE UNCHANGED job /\ Refuse(r)
  /\ UNCHANGED <<lapsed, marked, worker, killed, faults, effects, granted>>

(* settleApproval(): interrupted, by a cancellation or by the signal of the job, *)
(* is cancelled before the dispatch and unknown after it, whatever was said.     *)
Settled(r, how) ==
  IF job = "cancelling" \/ (job = "running" /\ how = "interrupted")
  THEN (IF r \in marked THEN "needs-review" ELSE "cancelled")
  ELSE IF job = "running" THEN (IF how = "ok" THEN "completed" ELSE "needs-review")
  ELSE job

Settle(r, how) == job' = Settled(r, how) /\ Go(r, "idle") /\ marked' = marked \ {r}

(* claim(): pending becomes approved; what is approved already stays so. *)
ApproveClaim(r) ==
  /\ pc[r] = "claim"
  /\ row' = IF Found = "none" THEN "none" ELSE "approved"
  /\ IF Found = "none"
     THEN Settle(r, "error") /\ UNCHANGED granted
     ELSE Go(r, "recover") /\ granted' = TRUE /\ UNCHANGED <<job, marked>>
  /\ UNCHANGED <<lapsed, worker, killed, faults, effects, denied>>

(* recover() does not consume; what it cannot recover is revoked. *)
ApproveRecover(r) ==
  /\ pc[r] = "recover"
  /\ IF Found = "approved"
     THEN Go(r, "dispatch") /\ UNCHANGED <<row, job, marked, denied>>
     ELSE Settle(r, "error") /\ row' = "none" /\ denied' = (denied \/ row # "none")
  /\ UNCHANGED <<lapsed, worker, killed, faults, effects, granted>>

(* markDispatched() refuses a job told to stop; then the worker starts. *)
ApproveDispatch(r) ==
  /\ pc[r] = "dispatch" /\ worker[r] = "none"
  /\ IF job = "cancelling"
     THEN Settle(r, "error") /\ UNCHANGED <<worker, killed>>
     ELSE /\ marked' = marked \cup {r} /\ Go(r, "work") /\ killed' = killed \ {r}
          /\ worker' = [worker EXCEPT ![r] = "recover"] /\ UNCHANGED job
  /\ UNCHANGED <<row, lapsed, faults, effects, granted, denied>>

(* A step fails: the lock stays taken, the client aborts the request, or the     *)
(* signal of the job does (its deadline, its lease).                             *)
ApproveFails(r) ==
  /\ pc[r] \in {"claim", "recover", "dispatch"}
  /\ IF job = "cancelling" THEN UNCHANGED faults ELSE Fault
  /\ \E how \in {"error", "interrupted"} : Settle(r, how)
  /\ UNCHANGED <<row, lapsed, worker, killed, effects, granted, denied>>

ApproveEnds(r) ==
  /\ pc[r] = "work" /\ worker[r] \in {"ok", "denied"}
  /\ Settle(r, IF worker[r] = "ok" THEN "ok" ELSE "error") /\ worker' = [worker EXCEPT ![r] = "none"]
  /\ UNCHANGED <<row, lapsed, killed, faults, effects, granted, denied>>

(* The request does not wait for the worker that it kills. *)
ApproveAborted(r) ==
  /\ pc[r] = "work" /\ worker[r] # "none"
  /\ IF job = "cancelling" THEN UNCHANGED faults ELSE Fault
  /\ Settle(r, "interrupted") /\ killed' = killed \cup {r}
  /\ UNCHANGED <<row, lapsed, worker, effects, granted, denied>>

---------------------------------------------------------------------------
(* The worker, a process of its own. *)

WorkerRecover(r) ==
  /\ worker[r] = "recover" /\ row' = Found
  /\ worker' = [worker EXCEPT ![r] = IF Found = "approved" THEN "consume" ELSE "denied"]
  /\ UNCHANGED <<lapsed, job, pc, marked, killed, faults, effects, granted, denied>>

(* faulty: what was recovered is trusted. *)
ConsumableStill == "approved"

Consumable == Found

(* consume(): the approval is gone before its effect starts. *)
WorkerConsume(r) ==
  /\ worker[r] = "consume"
  /\ row' = IF Consumable = "approved" THEN "none" ELSE Found
  /\ effects' = IF Consumable = "approved" THEN effects + 1 ELSE effects
  /\ worker' = [worker EXCEPT ![r] = IF Consumable = "approved" THEN "ok" ELSE "denied"]
  /\ UNCHANGED <<lapsed, job, pc, marked, killed, faults, granted, denied>>

(* The lock stays taken, or the tool reports an error. *)
WorkerFails(r) ==
  /\ worker[r] \in {"recover", "consume", "ok"} /\ Fault
  /\ worker' = [worker EXCEPT ![r] = "denied"]
  /\ UNCHANGED <<row, lapsed, job, pc, marked, killed, effects, granted, denied>>

WorkerDies(r) ==
  /\ r \in killed /\ worker[r] # "none" /\ worker' = [worker EXCEPT ![r] = "none"]
  /\ UNCHANGED <<row, lapsed, job, pc, marked, killed, faults, effects, granted, denied>>

---------------------------------------------------------------------------
(* denyGatewayApproval(), and the cancellation of the job. *)

Show(r) ==
  /\ r \in Deniers \cup Cancellers /\ pc[r] = "idle" /\ row' = Found
  /\ IF r \in Deniers THEN Found # "none" /\ Go(r, "status")
     ELSE job # "direct" /\ Go(r, IF Found = "none" THEN "cancel" ELSE "revoke")
  /\ UNCHANGED <<lapsed, job, marked, worker, killed, faults, effects, granted, denied>>

DenyStatus(r) ==
  /\ r \in Deniers /\ pc[r] = "status"
  /\ Go(r, IF job \in {"direct", "awaiting"} THEN "revoke" ELSE "stale")
  /\ UNCHANGED <<row, lapsed, job, marked, worker, killed, faults, effects, granted, denied>>

(* revoke(): whoever removes it is told so. *)
Revoke(r) ==
  /\ pc[r] \in {"revoke", "stale"} /\ row' = "none" /\ denied' = (denied \/ row # "none")
  /\ Go(r, IF pc[r] = "stale" \/ job = "direct" \/ (r \in Deniers /\ row = "none") THEN "idle" ELSE "cancel")
  /\ UNCHANGED <<lapsed, job, marked, worker, killed, faults, effects, granted>>

(* supervisor.cancel() *)
Cancelled ==
  CASE job = "awaiting" -> "cancelled"
    [] job \in {"asking", "running"} -> "cancelling"
    [] OTHER -> job

CancelJob(r) ==
  /\ pc[r] = "cancel" /\ job' = Cancelled /\ Go(r, "idle")
  /\ UNCHANGED <<row, lapsed, marked, worker, killed, faults, effects, granted, denied>>

RequestFails(r) ==
  /\ r \in Deniers \cup Cancellers /\ pc[r] \in {"revoke", "stale", "cancel"} /\ Fault /\ Go(r, "idle")
  /\ UNCHANGED <<row, lapsed, job, marked, worker, killed, effects, granted, denied>>

(* The asking tool of a cancelled job gives up. *)
AskingEnds ==
  /\ job = "cancelling" /\ \A r \in Approvers : pc[r] \in {"idle", "status", "begin"}
  /\ job' = "cancelled"
  /\ UNCHANGED <<row, lapsed, pc, marked, worker, killed, faults, effects, granted, denied>>

(* The Gateway dies and is restarted: recover() of its jobs. *)
Crash ==
  /\ Fault /\ pc' = [r \in Requests |-> "idle"] /\ marked' = {} /\ killed' = Approvers
  /\ job' = IF job \in {"asking", "running", "cancelling"} THEN "needs-review" ELSE job
  /\ UNCHANGED <<row, lapsed, worker, effects, granted, denied>>

---------------------------------------------------------------------------
ApproveNext(r) ==
  ApprovePreview(r) \/ ApproveStatus(r) \/ ApproveBegin(r) \/ ApproveClaim(r) \/ ApproveRecover(r)
  \/ ApproveDispatch(r) \/ ApproveFails(r) \/ ApproveEnds(r) \/ ApproveAborted(r)
WorkerNext(r) == WorkerRecover(r) \/ WorkerConsume(r) \/ WorkerFails(r) \/ WorkerDies(r)
RefusalNext(r) == Show(r) \/ DenyStatus(r) \/ Revoke(r) \/ CancelJob(r) \/ RequestFails(r)

Next ==
  \/ Create \/ Await \/ Lapse \/ AskingEnds \/ Crash
  \/ \E r \in Approvers : ApproveNext(r) \/ WorkerNext(r)
  \/ \E r \in Deniers \cup Cancellers : RefusalNext(r)

Spec == Init /\ [][Next]_vars

---------------------------------------------------------------------------
(* What must hold. *)

(* An approval stands for one effect at most, of a request that an operator has *)
(* accepted and nobody was told to have revoked, whoever claims, recovers,      *)
(* consumes, denies, cancels or dies in between (consume, revoke); and a job    *)
(* whose effect began ends neither cancelled nor completed without it.          *)
EffectApproved ==
  /\ effects <= 1
  /\ effects > 0 => granted /\ ~denied /\ job # "cancelled"
  /\ job = "completed" => effects = 1
=============================================================================
