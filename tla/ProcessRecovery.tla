--------------------------- MODULE ProcessRecovery ---------------------------
(***************************************************************************)
(* A supervised process and its journal.  Its record is written before the *)
(* spawn and goes when the process and what it started are proved absent;  *)
(* a record that the supervisor did not outlive quarantines execution.     *)
(*                                                                         *)
(* Grain of atomicity.  A rewrite of the journal is one step (a temporary  *)
(* file and a rename); so is a look at the process group.  The lock of the *)
(* state directory is held for a whole execution, so that one supervisor   *)
(* is at work, and one record pending, at a time; a dead one's lock is     *)
(* recovered (FileLocks).  The child is detached: it outlives the death of *)
(* its supervisor.  On Windows, where no group can be seen, "tree" would   *)
(* look absent: the model is that of the other systems.                    *)
(*                                                                         *)
(* Source: packages/kernel/src/process-supervisor.ts, workspace-tools.ts,  *)
(* apps/gateway/src/server.ts, apps/cli/src/cli.ts.                        *)
(*                                                                         *)
(* An operator marked "faulty" is an unused variant of the next one, with  *)
(* a mistake in it.                                                        *)
(***************************************************************************)
EXTENDS Naturals

CONSTANT MaxFaults  \* bound on writes that fail and deaths of the supervisor

VARIABLES
  record,  \* the pending record: [phase, pid]; pid: a pid is recorded
  child,   \* "none", "alive", "tree" (its descendants live), "gone"
  pc,      \* the supervisor: "idle", "reserved", "spawned", "running", "closed", "unsettled"
  faults

vars == <<record, child, pc, faults>>

Cleared == [phase |-> "none", pid |-> FALSE]

(* The record and the child keep their shapes (ProcessRecoveryRecord). *)
TypeOK ==
  /\ record \in [phase : {"none", "launching", "running", "terminating", "needs-review"}, pid : BOOLEAN]
  /\ child \in {"none", "alive", "tree", "gone"}
  /\ pc \in {"idle", "reserved", "spawned", "running", "closed", "unsettled"}
  /\ faults \in 0..MaxFaults

Init == record = Cleared /\ child = "none" /\ pc = "idle" /\ faults = 0

Lives == child \in {"alive", "tree"}

(* inspect(): a record without a pid tells nothing. *)
Seen(look) ==
  \/ look = "unknown"
  \/ record.pid /\ look = IF Lives THEN "present" ELSE "absent"

(* SIGKILL to the group: it may be gone when one looks again, or not yet. *)
Killed == child' \in IF Lives THEN {child, "gone"} ELSE {child}

Write(phase) == record' = [record EXCEPT !.phase = phase] /\ UNCHANGED faults
WriteFails == faults < MaxFaults /\ faults' = faults + 1 /\ UNCHANGED record

---------------------------------------------------------------------------
(* reconcile(), at startup and before every execution: what is found is killed, *)
(* if it can be told to be the child, and the record is kept whatever was seen.  *)
Reconcile ==
  /\ pc = "idle" /\ record.phase # "none"
  /\ \E look \in {"present", "absent", "unknown"} :
       /\ Seen(look)
       /\ IF look = "present" THEN Killed ELSE UNCHANGED child
       /\ Write("needs-review") \/ WriteFails
  /\ UNCHANGED pc

Reserve ==
  /\ pc = "idle" /\ record.phase = "none"
  /\ record' = [phase |-> "launching", pid |-> FALSE] /\ pc' = "reserved"
  /\ UNCHANGED <<child, faults>>

(* abortBeforeLaunch(): cancelled, or the spawn fails; no pid, no child. *)
AbortBeforeLaunch ==
  /\ pc = "reserved"
  /\ \/ record' = Cleared /\ pc' = "idle" /\ UNCHANGED faults
     \/ WriteFails /\ pc' = "unsettled"
  /\ UNCHANGED child

Spawn ==
  /\ pc = "reserved" /\ pc' = "spawned" /\ child' = "alive"
  /\ UNCHANGED <<record, faults>>

MarkRunning ==
  /\ pc = "spawned" /\ pc' = "running"
  /\ \/ record' = [phase |-> "running", pid |-> TRUE] /\ UNCHANGED faults
     \/ WriteFails
  /\ UNCHANGED child

(* terminate(): a signal, a timeout, too much output, or a launch that could not *)
(* be recorded, which goes to review.                                            *)
Terminate ==
  /\ pc = "running" /\ Killed
  /\ \/ record.phase = "running" /\ Write("terminating")
     \/ record.phase = "launching" /\ Write("needs-review")
     \/ record.phase \in {"running", "launching"} /\ WriteFails
  /\ UNCHANGED pc

Exit ==
  /\ \/ child = "alive" /\ child' \in {"tree", "gone"}
     \/ child = "tree" /\ child' = "gone"
  /\ UNCHANGED <<record, pc, faults>>

(* The child's streams are closed; its descendants may go on. *)
Close ==
  /\ pc = "running" /\ child # "alive" /\ pc' = "closed"
  /\ UNCHANGED <<record, child, faults>>

(* faulty: a process that has closed has ended. *)
ProvedByClose == record.pid /\ record.phase # "needs-review"

(* settle(), clear(): what was alive has been killed, and is seen to be absent. *)
Proved == record.pid /\ record.phase # "needs-review" /\ child' \notin {"alive", "tree"}

SettleClears ==
  /\ pc = "closed" /\ Killed /\ Proved
  /\ record' = Cleared /\ pc' = "idle"
  /\ UNCHANGED faults

(* Not absent, not to be told, or not to be written: for review. *)
SettleFails ==
  /\ pc = "closed" /\ pc' = "unsettled"
  /\ IF Seen("present") THEN Killed ELSE UNCHANGED child
  /\ UNCHANGED <<record, faults>>

(* The execution ends without proof: markNeedsReview(). *)
MarkNeedsReview ==
  /\ pc = "unsettled" /\ pc' = "idle"
  /\ Write("needs-review") \/ WriteFails
  /\ UNCHANGED child

Crash ==
  /\ pc # "idle" /\ pc' = "idle" /\ faults < MaxFaults /\ faults' = faults + 1
  /\ UNCHANGED <<record, child>>

Next ==
  \/ Reconcile \/ Reserve \/ AbortBeforeLaunch \/ Spawn \/ MarkRunning \/ Terminate \/ Exit
  \/ Close \/ SettleClears \/ SettleFails \/ MarkNeedsReview \/ Crash

Spec == Init /\ [][Next]_vars

---------------------------------------------------------------------------
(* No process lives that the journal does not know, so that nothing is spawned  *)
(* beside a stray, whichever write failed and whenever the supervisor died      *)
(* (reserve, settle, clear, reconcileUnlocked).                                 *)
NoStray == Lives => record.phase # "none"

(* What is left for review stays so, and nothing is spawned beside it. *)
Quarantined ==
  record.phase = "needs-review" =>
    record'.phase = "needs-review" /\ (child' = "alive" => child = "alive")
=============================================================================
