--------------------------- MODULE SandboxRecovery ---------------------------
(***************************************************************************)
(* Containers of the sandbox and their journal.  A container's record is   *)
(* written before the engine is asked to create it and goes when the       *)
(* container is proved absent; a record that could not be cleared is       *)
(* reconciled before the next execution, or quarantines it.                *)
(*                                                                         *)
(* Grain of atomicity.  A rewrite of the journal is one step; so is a      *)
(* clean-up up to the look that ends it (kill, wait, rm, ps), since what    *)
(* the engine does in between only changes what the look sees.  A create    *)
(* or start request may be fulfilled after its client is gone.  Executions  *)
(* are serialized by the locks of FileLocks: one record, that of the        *)
(* latest execution, is pending at a time.                                  *)
(*                                                                         *)
(* Source: packages/kernel/src/sandbox-recovery.ts, sandbox-backend.ts,    *)
(* sandbox-process.ts.                                                     *)
(*                                                                         *)
(* An operator marked "faulty" is an unused variant of the next one, with  *)
(* a mistake in it.                                                        *)
(***************************************************************************)
EXTENDS Naturals

CONSTANTS
  MaxExecutions,
  MaxFaults      \* bound on writes that fail and deaths of the process

VARIABLES
  latest,   \* the latest execution
  record,   \* its record: [phase, reason]
  box,      \* execution -> its container in the engine: "none", "asked", "created",
            \* "starting", "running", "exited"
  pc,       \* the execution: "idle", "reserved", "prepare", "attest", "attested", "started"
  unproved, \* executions of which the journal may not know that their create is in flight
  faults

vars == <<latest, record, box, pc, unproved, faults>>

Executions == 1..MaxExecutions
Cleared == [phase |-> "none", reason |-> "none"]
Uncertain == [phase |-> "cleanup-uncertain", reason |-> "other"]
Pending == record.phase # "none"

(* Records and containers keep their shapes (SandboxRecoveryRecord). *)
TypeOK ==
  /\ latest \in 0..MaxExecutions
  /\ record \in [phase : {"none", "creating", "created", "attested", "starting", "running", "cleanup-uncertain"},
                 reason : {"none", "create", "other"}]
  /\ box \in [Executions -> {"none", "asked", "created", "starting", "running", "exited"}]
  /\ pc \in {"idle", "reserved", "prepare", "attest", "attested", "started"}
  /\ unproved \subseteq Executions /\ faults \in 0..MaxFaults

Init ==
  /\ latest = 0 /\ record = Cleared /\ box = [e \in Executions |-> "none"]
  /\ pc = "idle" /\ unproved = {} /\ faults = 0

Fault == faults < MaxFaults /\ faults' = faults + 1

Exists(e) == box[e] \in {"created", "starting", "running", "exited"}

(* The create of the latest execution is in flight, and its record will not tell. *)
Forgotten == unproved' = IF box'[latest] = "asked" THEN unproved \cup {latest} ELSE unproved

(* Kill, wait and rm: they may fail. *)
Removed ==
  \/ UNCHANGED box
  \/ Exists(latest) /\ box' = [box EXCEPT ![latest] = "none"]

(* locateManagedContainer() after that *)
Absent == box'[latest] \in {"none", "asked"}

Write(phase, reason) == record' = [phase |-> phase, reason |-> reason] /\ UNCHANGED faults
WriteFails == Fault /\ UNCHANGED record

(* proveAbsentAndClear(): absent and seen to be, or kept. *)
ProvedOrKept ==
  \/ Absent /\ record' = Cleared /\ UNCHANGED faults
  \/ record' = Uncertain /\ UNCHANGED faults
  \/ WriteFails

---------------------------------------------------------------------------
(* faulty: absence is absence. *)
MayClearAbsent == TRUE

(* "A create request that failed or timed out can still materialize later." *)
MayClear == record.reason # "create"

(* reconcileUnlocked(), before every execution and at startup. *)
Reconcile ==
  /\ pc = "idle" /\ Pending
  /\ \/ ~Exists(latest) /\ UNCHANGED <<box, unproved>>
        /\ record' = IF MayClear THEN Cleared ELSE [record EXCEPT !.phase = "cleanup-uncertain"]
     \/ UNCHANGED box /\ record' = Uncertain   \* the engine does not tell
        /\ Forgotten
     \/ Exists(latest) /\ Removed /\ UNCHANGED unproved
        /\ record' = IF Absent THEN Cleared ELSE Uncertain
  /\ UNCHANGED <<latest, pc, faults>>

(* The same, and the journal cannot be written. *)
ReconcileFails ==
  /\ pc = "idle" /\ Pending /\ Removed /\ WriteFails
  /\ UNCHANGED <<latest, pc, unproved>>

Reserve ==
  /\ pc = "idle" /\ ~Pending /\ latest < MaxExecutions
  /\ latest' = latest + 1 /\ Write("creating", "none") /\ pc' = "reserved"
  /\ UNCHANGED <<box, unproved>>

Prepare ==
  /\ pc = "reserved" /\ pc' = "prepare" /\ box' = [box EXCEPT ![latest] = "asked"]
  /\ UNCHANGED <<latest, record, unproved, faults>>

Created ==
  /\ pc = "prepare" /\ Exists(latest) /\ pc' = "attest"
  /\ Write("created", "none") \/ WriteFails
  /\ UNCHANGED <<latest, box, unproved>>

(* The client of the create fails, times out or is killed: the engine may yet do it. *)
PrepareFails ==
  /\ pc = "prepare" /\ pc' = "idle" /\ Removed
  /\ \/ Write("cleanup-uncertain", "create") /\ UNCHANGED unproved
     \/ WriteFails /\ Forgotten
  /\ UNCHANGED latest

Attest ==
  /\ pc = "attest" /\ record.phase = "created" /\ Write("attested", "none") /\ pc' = "attested"
  /\ UNCHANGED <<latest, box, unproved>>

(* Not attested, cancelled, not authorized or not recorded: provePreStartCleanup(). *)
NotStarted ==
  /\ pc \in {"attest", "attested"} /\ pc' = "idle" /\ Removed /\ ProvedOrKept
  /\ UNCHANGED <<latest, unproved>>

Start ==
  /\ pc = "attested" /\ Write("starting", "none") /\ pc' = "started"
  /\ box' = [box EXCEPT ![latest] = "starting"]
  /\ UNCHANGED <<latest, unproved>>

Running ==
  /\ pc = "started" /\ record.phase = "starting" /\ Write("running", "none")
  /\ UNCHANGED <<latest, box, pc, unproved>>

(* What ends an execution: it closes, is cancelled, times out, or fails. *)
Settle ==
  /\ pc = "started" /\ pc' = "idle" /\ Removed /\ ProvedOrKept
  /\ UNCHANGED <<latest, unproved>>

(* The engine, in its own time. *)
Engine ==
  /\ \E e \in Executions :
       \/ box[e] = "asked" /\ box' \in {[box EXCEPT ![e] = "created"], [box EXCEPT ![e] = "none"]}
       \/ box[e] = "starting" /\ box' = [box EXCEPT ![e] = "running"]
       \/ box[e] = "running" /\ box' = [box EXCEPT ![e] = "exited"]
  /\ UNCHANGED <<latest, record, pc, unproved, faults>>

Crash ==
  /\ pc # "idle" /\ Fault /\ pc' = "idle"
  /\ UNCHANGED <<latest, record, box>> /\ Forgotten

Next ==
  \/ Reconcile \/ ReconcileFails \/ Reserve \/ Prepare \/ Created \/ PrepareFails \/ Attest
  \/ NotStarted \/ Start \/ Running \/ Settle \/ Engine \/ Crash

Spec == Init /\ [][Next]_vars

---------------------------------------------------------------------------
Known(e) == Pending /\ e = latest

(* A container is in the journal as long as it exists, so that the next execution *)
(* begins when it is gone.  One may be unknown only if the process died or the     *)
(* journal failed with its create in flight, or the engine was silent when it was  *)
(* reconciled; and it never runs (proveAbsentAndClear, reconcileUnlocked).         *)
BoxesKnown ==
  \A e \in Executions :
    Exists(e) => Known(e) \/ (e \in unproved /\ box[e] = "created")

(* "A create request that failed or timed out can still materialize later in the *)
(* daemon. A point-in-time absence cannot safely clear that ambiguity; retain    *)
(* the record" (sandbox-recovery.ts).                                            *)
AmbiguityKept == \A e \in Executions : Exists(e) => Known(e)
=============================================================================
