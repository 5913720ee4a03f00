---------------------------- MODULE JournalProofs ----------------------------
(***************************************************************************)
(* What an agent runs outside its own process, and what is written down of *)
(* it, for any number of failing writes and deaths: a container that       *)
(* exists is in the journal of SandboxRecovery, but for a create that the  *)
(* journal cannot know of, which never runs; a process that lives is in    *)
(* that of ProcessRecovery, and what is left for review stays there; the   *)
(* row of a graph, its audit and its children agree (AgentGraphs, for any  *)
(* nodes and dependencies); what a client is told of a call is what its    *)
(* tool did (McpHost, for any finite set of calls).                        *)
(***************************************************************************)
EXTENDS MCServices, FiniteSetTheorems, TLAPS

---------------------------------------------------------------------------
(* Containers *)

Boxes == {"none", "asked", "created", "starting", "running", "exited"}
Records == [phase : {"none", "creating", "created", "attested", "starting", "running", "cleanup-uncertain"},
            reason : {"none", "create", "other"}]
Shapes ==
  /\ record \in Records
  /\ latest \in 0..MaxExecutions
  /\ box \in [Executions -> Boxes]
  /\ \A e \in Executions : e > latest => box[e] = "none"

(* An execution at work has its record; what it has asked for. *)
AtWork ==
  /\ Pending => latest \in Executions
  /\ pc # "idle" => Pending
  /\ pc = "reserved" => box[latest] = "none"
  /\ pc \in {"attest", "attested", "started"} => box[latest] # "asked"

(* A create in flight is one that its execution waits for, that its record *)
(* tells of, or that counts as unproved.                                   *)
AskedKnown ==
  \A e \in Executions : box[e] = "asked" =>
    \/ e \in unproved
    \/ e = latest /\ Pending /\ (pc = "prepare" \/ record.reason = "create")

IInv == Shapes /\ AtWork /\ AskedKnown /\ BoxesKnown

LEMMA InitInv == ASSUME MaxExecutions \in Nat, Init PROVE IInv
  BY DEF Init, IInv, Shapes, AtWork, AskedKnown, BoxesKnown, Exists, Pending, Cleared,
         Executions, Boxes, Records

(* A removal takes the container of the latest execution, or nothing. *)
LEMMA RemovedKeeps ==
  ASSUME Shapes, latest \in Executions, Removed
  PROVE /\ box' \in [Executions -> Boxes]
        /\ \A e \in Executions : box'[e] = box[e] \/ (box'[e] = "none" /\ e = latest)
        /\ box[latest] = "asked" => box'[latest] = "asked"
  BY DEF Shapes, Removed, Exists, Boxes

(* What becomes of a record: cleared, kept, or rewritten and still pending. *)
LEMMA RecordKeeps ==
  ASSUME record \in Records,
         \/ record' = record \/ record' = Cleared \/ record' = Uncertain
         \/ record' = [record EXCEPT !.phase = "cleanup-uncertain"]
         \/ \E now \in {"creating", "created", "attested", "starting", "running", "cleanup-uncertain"},
               reason \in {"none", "create", "other"} : record' = [phase |-> now, reason |-> reason]
  PROVE /\ record' \in Records
        /\ ~Pending' => record' = Cleared \/ record' = record
<1>1. CASE record' = record
  BY <1>1
<1>2. CASE record' = Cleared
  BY <1>2 DEF Cleared, Records
<1>3. CASE record' = Uncertain
  BY <1>3 DEF Uncertain, Records, Pending
<1>4. CASE record' = [record EXCEPT !.phase = "cleanup-uncertain"]
  BY <1>4 DEF Records, Pending
<1>5. ASSUME NEW now \in {"creating", "created", "attested", "starting", "running", "cleanup-uncertain"},
             NEW reason \in {"none", "create", "other"},
             record' = [phase |-> now, reason |-> reason]
      PROVE record' \in Records /\ Pending'
  BY <1>5 DEF Records, Pending
<1> QED
  BY <1>1, <1>2, <1>3, <1>4, <1>5

(* The end of an execution, or of a reconciliation: containers may go, and a   *)
(* record is given up only when the latest has none, or one that is unproved.  *)
LEMMA GivenUp ==
  ASSUME IInv, latest \in Executions, latest' = latest, record' \in Records,
         Removed \/ UNCHANGED box,
         unproved \subseteq unproved',
         pc' = "idle",
         \/ Pending' /\ (box'[latest] = "asked" => record'.reason = "create" \/ latest \in unproved')
         \/ box'[latest] = "none"
         \/ box'[latest] = "asked" /\ latest \in unproved'
  PROVE IInv'
<1> USE DEF IInv, Shapes
<1>1. /\ box' \in [Executions -> Boxes]
      /\ \A e \in Executions : box'[e] = box[e] \/ (box'[e] = "none" /\ e = latest)
  BY RemovedKeeps
<1>2. Shapes'
  BY <1>1
<1>3. AtWork'
  BY DEF AtWork
<1>4. AskedKnown'
  <2> SUFFICES ASSUME NEW e \in Executions, box'[e] = "asked", e \notin unproved'
               PROVE e = latest /\ Pending' /\ record'.reason = "create"
    BY DEF AskedKnown
  <2>1. box[e] = "asked" /\ e \notin unproved
    BY <1>1
  <2>2. e = latest
    BY <2>1 DEF AskedKnown
  <2> QED
    BY <2>2
<1>5. BoxesKnown'
  <2> SUFFICES ASSUME NEW e \in Executions, Exists(e)'
               PROVE Known(e)' \/ (e \in unproved' /\ box'[e] = "created")
    BY DEF BoxesKnown
  <2>1. box'[e] = box[e] /\ Exists(e)
    BY <1>1 DEF Exists
  <2>2. CASE e = latest
    BY <2>1, <2>2 DEF Known, Exists
  <2>3. CASE e # latest
    BY <2>1, <2>3 DEF BoxesKnown, Known
  <2> QED
    BY <2>2, <2>3
<1> QED
  BY <1>2, <1>3, <1>4, <1>5

(* A step of an execution that writes its record and lets the engine be: its *)
(* container, if it changes, is one that is about to start.                  *)
LEMMA WentOn ==
  ASSUME IInv, latest \in Executions, latest' = latest, record' \in Records, Pending, Pending',
         UNCHANGED unproved, pc' \in {"attest", "attested", "started"},
         box[latest] # "asked",
         box' = box \/ box' = [box EXCEPT ![latest] = "starting"]
  PROVE IInv'
<1> USE DEF IInv, Shapes
<1>1. /\ box' \in [Executions -> Boxes] /\ box'[latest] # "asked"
      /\ \A e \in Executions : e # latest => box'[e] = box[e]
  BY DEF Boxes
<1>2. Shapes'
  <2>1. latest \in 0..MaxExecutions /\ Executions = 1..MaxExecutions
    BY DEF Executions
  <2> QED
    BY <1>1, <2>1
<1>3. AtWork'
  BY <1>1 DEF AtWork
<1>4. AskedKnown'
  BY <1>1 DEF AskedKnown
<1>5. BoxesKnown'
  BY <1>1 DEF BoxesKnown, Known, Exists
<1> QED
  BY <1>2, <1>3, <1>4, <1>5

LEMMA ReconcileInv == ASSUME IInv, Reconcile \/ ReconcileFails PROVE IInv'
<1> USE DEF IInv
<1>1. /\ pc = "idle" /\ pc' = "idle" /\ latest' = latest /\ Pending
      /\ latest \in Executions /\ record \in Records /\ box[latest] \in Boxes
  BY DEF Reconcile, ReconcileFails, AtWork, Shapes
<1>2. CASE ~Exists(latest) /\ UNCHANGED <<box, unproved>>
           /\ record' = IF MayClear THEN Cleared ELSE [record EXCEPT !.phase = "cleanup-uncertain"]
  <2>1. box[latest] \in {"none", "asked"}
    BY <1>1, <1>2 DEF Exists, Boxes
  <2>2. record' \in Records
    BY <1>1, <1>2, RecordKeeps
  <2>3. CASE record.reason = "create"
    <3>1. Pending' /\ record'.reason = "create"
      BY <1>1, <1>2, <2>3 DEF MayClear, Pending, Records
    <3> QED
      BY <1>1, <1>2, <2>2, <3>1, GivenUp
  <2>4. CASE record.reason # "create"
    <3>1. box[latest] = "asked" => latest \in unproved
      BY <1>1, <2>4 DEF AskedKnown
    <3> QED
      BY <1>1, <1>2, <2>1, <2>2, <3>1, GivenUp
  <2> QED
    BY <2>3, <2>4
<1>3. CASE UNCHANGED box /\ record' = Uncertain /\ Forgotten
  <2>1. record' \in Records /\ Pending'
    BY <1>1, <1>3, RecordKeeps DEF Uncertain, Pending
  <2> QED
    BY <1>1, <1>3, <2>1, GivenUp DEF Forgotten
<1>4. CASE Exists(latest) /\ Removed /\ UNCHANGED unproved
           /\ record' = IF Absent THEN Cleared ELSE Uncertain
  <2>1. record' \in Records /\ (~Absent => Pending')
    BY <1>1, <1>4, RecordKeeps DEF Uncertain, Pending
  <2>2. box'[latest] # "asked"
    BY <1>1, <1>4, RemovedKeeps DEF Exists
  <2> QED
    BY <1>1, <1>4, <2>1, <2>2, GivenUp DEF Absent
<1>5. CASE ReconcileFails
  <2>1. Removed /\ UNCHANGED <<record, unproved>>
    BY <1>5 DEF ReconcileFails, WriteFails
  <2>2. box'[latest] = "asked" => record.reason = "create" \/ latest \in unproved
    BY <1>1, <2>1, RemovedKeeps DEF AskedKnown
  <2> QED
    BY <1>1, <2>1, <2>2, GivenUp DEF Pending
<1> QED
  BY <1>2, <1>3, <1>4, <1>5 DEF Reconcile

(* The ends of an execution: its create failed, it was not started, it is over, *)
(* or the process died.                                                         *)
LEMMA EndsInv ==
  ASSUME IInv, PrepareFails \/ NotStarted \/ Settle \/ Crash PROVE IInv'
<1> USE DEF IInv
<1>1. /\ pc # "idle" /\ pc' = "idle" /\ latest' = latest /\ Pending
      /\ latest \in Executions /\ record \in Records /\ box[latest] \in Boxes
  BY DEF PrepareFails, NotStarted, Settle, Crash, AtWork, Shapes
<1>2. CASE PrepareFails
  <2>1. CASE Write("cleanup-uncertain", "create") /\ UNCHANGED unproved
    <3>1. record' \in Records /\ Pending' /\ record'.reason = "create"
      BY <1>1, <2>1, RecordKeeps DEF Write, Pending
    <3> QED
      BY <1>1, <1>2, <2>1, <3>1, GivenUp DEF PrepareFails
  <2>2. CASE WriteFails /\ Forgotten
    BY <1>1, <1>2, <2>2, GivenUp DEF PrepareFails, WriteFails, Forgotten, Pending
  <2> QED
    BY <1>2, <2>1, <2>2 DEF PrepareFails
<1>3. CASE NotStarted \/ Settle
  <2>1. Removed /\ ProvedOrKept /\ UNCHANGED unproved /\ box[latest] # "asked"
    BY <1>3 DEF NotStarted, Settle, AtWork
  <2>2. box'[latest] # "asked"
    BY <1>1, <2>1, RemovedKeeps
  <2>3. record' \in Records
    BY <1>1, <2>1, RecordKeeps DEF ProvedOrKept, WriteFails
  <2>4. Absent \/ Pending'
    BY <1>1, <2>1 DEF ProvedOrKept, WriteFails, Pending, Uncertain
  <2> QED
    BY <1>1, <2>1, <2>2, <2>3, <2>4, GivenUp DEF Absent
<1>4. CASE Crash
  BY <1>1, <1>4, GivenUp DEF Crash, Forgotten, Pending
<1> QED
  BY <1>2, <1>3, <1>4

LEMMA WorkInv ==
  ASSUME IInv, Created \/ Attest \/ Start \/ Running PROVE IInv'
<1> USE DEF IInv
<1>1. /\ latest' = latest /\ Pending /\ latest \in Executions /\ record \in Records
      /\ UNCHANGED unproved /\ pc' \in {"attest", "attested", "started"}
      /\ box[latest] # "asked"
      /\ box' = box \/ box' = [box EXCEPT ![latest] = "starting"]
  BY DEF Created, Attest, Start, Running, AtWork, Shapes, Exists
<1>2. record' = record \/ \E now \in {"created", "attested", "starting", "running"} :
                            record' = [phase |-> now, reason |-> "none"]
  BY DEF Created, Attest, Start, Running, Write, WriteFails
<1>3. record' \in Records /\ Pending'
  BY <1>1, <1>2, RecordKeeps DEF Pending
<1> QED
  BY <1>1, <1>3, WentOn

LEMMA ReserveInv == ASSUME MaxExecutions \in Nat, IInv, Reserve PROVE IInv'
<1> USE DEF IInv, Shapes
<1>1. /\ ~Pending /\ latest' = latest + 1 /\ latest' \in Executions /\ pc' = "reserved"
      /\ record' \in Records /\ Pending' /\ UNCHANGED <<box, unproved>>
      /\ box[latest'] = "none"
  BY DEF Reserve, Write, Records, Pending, Executions
<1>2. Shapes'
  BY <1>1 DEF Executions
<1>3. AtWork'
  BY <1>1 DEF AtWork
<1>4. AskedKnown'
  BY <1>1 DEF AskedKnown
<1>5. BoxesKnown'
  BY <1>1 DEF BoxesKnown, Known, Exists
<1> QED
  BY <1>2, <1>3, <1>4, <1>5

LEMMA PrepareInv == ASSUME IInv, Prepare PROVE IInv'
<1> USE DEF IInv, Shapes
<1>1. /\ Pending /\ latest \in Executions /\ pc' = "prepare" /\ box' = [box EXCEPT ![latest] = "asked"]
      /\ UNCHANGED <<latest, record, unproved>> /\ Pending'
  BY DEF Prepare, AtWork, Pending
<1>2. Shapes'
  BY <1>1 DEF Boxes, Executions
<1>3. AtWork'
  BY <1>1 DEF AtWork
<1>4. AskedKnown'
  BY <1>1 DEF AskedKnown
<1>5. BoxesKnown'
  BY <1>1 DEF BoxesKnown, Known, Exists
<1> QED
  BY <1>2, <1>3, <1>4, <1>5

(* What the engine does in its own time to a container that it was asked for. *)
LEMMA EngineInv == ASSUME IInv, Engine PROVE IInv'
<1> USE DEF IInv, Shapes
<1>1. PICK e \in Executions, status \in Boxes :
        /\ box' = [box EXCEPT ![e] = status]
        /\ \/ box[e] = "asked" /\ status \in {"created", "none"}
           \/ box[e] \in {"starting", "running"} /\ status \in {"running", "exited"}
  BY DEF Engine, Boxes
<1>2. UNCHANGED <<latest, record, pc, unproved>> /\ (Pending' <=> Pending)
  BY DEF Engine, Pending
<1>3. box[e] # "none" /\ status # "asked"
  BY <1>1
<1>4. Shapes'
  BY <1>1, <1>2, <1>3
<1>5. AtWork'
  BY <1>1, <1>2, <1>3 DEF AtWork
<1>6. AskedKnown'
  BY <1>1, <1>2, <1>3 DEF AskedKnown
<1>7. BoxesKnown'
  <2>1. ASSUME NEW d \in Executions, d # e, Exists(d)'
        PROVE Known(d)' \/ (d \in unproved' /\ box'[d] = "created")
    BY <1>1, <1>2, <2>1 DEF BoxesKnown, Known, Exists
  <2>2. CASE box[e] = "asked"
    <3>1. e \in unproved \/ Known(e)
      BY <2>2 DEF AskedKnown, Known
    <3>2. Exists(e)' => box'[e] = "created"
      BY <1>1, <2>2 DEF Exists
    <3> QED
      BY <1>2, <2>1, <3>1, <3>2 DEF BoxesKnown, Known
  <2>3. CASE box[e] \in {"starting", "running"}
    <3>1. Known(e)
      BY <2>3 DEF BoxesKnown, Exists
    <3> QED
      BY <1>2, <2>1, <3>1 DEF BoxesKnown, Known
  <2> QED
    BY <1>1, <2>2, <2>3
<1> QED
  BY <1>4, <1>5, <1>6, <1>7

LEMMA BoxesStep == ASSUME MaxExecutions \in Nat, IInv, [Next]_vars PROVE IInv'
<1>1. CASE Next
  BY <1>1, ReconcileInv, EndsInv, WorkInv, ReserveInv, PrepareInv, EngineInv DEF Next
<1>2. CASE UNCHANGED vars
  BY <1>2 DEF vars, IInv, Shapes, AtWork, AskedKnown, BoxesKnown, Known, Exists, Pending
<1> QED
  BY <1>1, <1>2

(* The rest of the types: where an execution stands, and the bounds. *)
Standing ==
  /\ pc \in {"idle", "reserved", "prepare", "attest", "attested", "started"}
  /\ unproved \subseteq Executions /\ faults \in 0..MaxFaults

LEMMA StandingStep ==
  ASSUME MaxFaults \in Nat, IInv, Standing, [Next]_vars PROVE Standing'
<1> USE DEF Standing
<1>1. faults' = faults \/ (faults < MaxFaults /\ faults' = faults + 1)
  BY DEF Next, vars, Reconcile, ReconcileFails, Reserve, Prepare, Created, PrepareFails,
     Attest, NotStarted, Start, Running, Settle, Engine, Crash, Write, WriteFails, Fault,
     ProvedOrKept
<1>2. pc' \in {"idle", "reserved", "prepare", "attest", "attested", "started"}
  BY DEF Next, vars, Reconcile, ReconcileFails, Reserve, Prepare, Created, PrepareFails,
     Attest, NotStarted, Start, Running, Settle, Engine, Crash
<1>3. unproved' = unproved \/ (unproved' \subseteq unproved \cup {latest} /\ latest \in Executions)
  BY DEF Next, vars, Reconcile, ReconcileFails, Reserve, Prepare, Created, PrepareFails,
     Attest, NotStarted, Start, Running, Settle, Engine, Crash, Forgotten, IInv, AtWork
<1> QED
  BY <1>1, <1>2, <1>3

(* A container is in the journal as long as it exists, but for a create that was *)
(* in flight when the process died, its write failed or the engine was silent;   *)
(* and that one never runs (proveAbsentAndClear, reconcileUnlocked).             *)
THEOREM BoxesKnownAlways == ASSUME MaxExecutions \in Nat PROVE Spec => []BoxesKnown
<1>1. Init => IInv
  BY InitInv
<1>2. IInv /\ [Next]_vars => IInv'
  BY BoxesStep
<1>3. IInv => BoxesKnown
  BY DEF IInv
<1> QED
  BY <1>1, <1>2, <1>3, PTL DEF Spec

---------------------------------------------------------------------------
(* Processes *)

Phases == {"none", "launching", "running", "terminating", "needs-review"}
ProcessShapes ==
  /\ kept \in [phase : Phases, pid : BOOLEAN]
  /\ spawned \in {"none", "alive", "tree", "gone"}

(* A supervisor at work has its record, one still launching what it launches. *)
SupervisorAtWork ==
  /\ supervisor # "idle" => kept.phase # "none"
  /\ supervisor \in {"reserved", "spawned"} => kept.phase = "launching"
  /\ supervisor = "reserved" => ~Process!Lives

ProcessInv == ProcessShapes /\ SupervisorAtWork /\ Process!NoStray

LEMMA ProcessInit == ASSUME Process!Init PROVE ProcessInv
  BY DEF Process!Init, ProcessInv, ProcessShapes, SupervisorAtWork, Process!NoStray, Process!Lives, Process!Cleared, Phases

(* Rewriting the phase of a record, or failing to, leaves no gap in it. *)
LEMMA WriteKeeps ==
  ASSUME ProcessShapes, NEW now \in Phases \ {"none"}, Process!Write(now) \/ Process!WriteFails
  PROVE /\ kept' \in [phase : Phases, pid : BOOLEAN]
        /\ kept.phase # "none" => kept'.phase # "none"
  BY DEF ProcessShapes, Process!Write, Process!WriteFails, Phases

(* A kill makes nothing alive. *)
LEMMA KilledKeeps ==
  ASSUME ProcessShapes, Process!Killed \/ UNCHANGED spawned
  PROVE spawned' \in {"none", "alive", "tree", "gone"} /\ (Process!Lives' => Process!Lives)
  BY DEF ProcessShapes, Process!Killed, Process!Lives

LEMMA ProcessNext == ASSUME ProcessInv, [Process!Next]_(Process!vars) PROVE ProcessInv'
<1> USE DEF ProcessInv, ProcessShapes, SupervisorAtWork, Process!NoStray
<1>1. CASE Process!Reconcile
  <2>1. /\ kept.phase # "none" /\ supervisor = "idle" /\ supervisor' = supervisor
        /\ Process!Killed \/ UNCHANGED spawned
        /\ Process!Write("needs-review") \/ Process!WriteFails
    BY <1>1 DEF Process!Reconcile
  <2> QED
    BY <2>1, WriteKeeps, KilledKeeps DEF Phases
<1>2. CASE Process!Reserve
  BY <1>2 DEF Process!Reserve, Process!Lives, Phases
<1>3. CASE Process!AbortBeforeLaunch
  <2>1. ~Process!Lives /\ ~Process!Lives' /\ spawned' = spawned /\ kept.phase # "none"
    BY <1>3 DEF Process!AbortBeforeLaunch, Process!Lives
  <2>2. CASE kept' = Process!Cleared /\ supervisor' = "idle"
    <3>1. kept' \in [phase : Phases, pid : BOOLEAN]
      BY <2>2 DEF Process!Cleared, Phases
    <3> QED
      BY <2>1, <2>2, <3>1
  <2>3. CASE kept' = kept /\ supervisor' = "unsettled"
    BY <2>1, <2>3
  <2> QED
    BY <1>3, <2>2, <2>3 DEF Process!AbortBeforeLaunch, Process!WriteFails
<1>4. CASE Process!Spawn
  BY <1>4 DEF Process!Spawn, Process!Lives
<1>5. CASE Process!MarkRunning
  <2>1. /\ kept' = kept \/ kept' = [phase |-> "running", pid |-> TRUE]
        /\ supervisor = "spawned" /\ supervisor' = "running" /\ spawned' = spawned
    BY <1>5 DEF Process!MarkRunning, Process!WriteFails
  <2>2. CASE kept' = kept
    BY <2>1, <2>2 DEF Process!Lives
  <2>3. CASE kept' = [phase |-> "running", pid |-> TRUE]
    <3>1. kept' \in [phase : Phases, pid : BOOLEAN]
      BY <2>3 DEF Phases
    <3> QED
      BY <2>1, <2>3, <3>1 DEF Process!Lives
  <2> QED
    BY <2>1, <2>2, <2>3
<1>6. CASE Process!Terminate
  <2>1. /\ kept.phase # "none" /\ supervisor = "running" /\ supervisor' = supervisor
        /\ Process!Killed
        /\ \E step \in Phases \ {"none"} : Process!Write(step) \/ Process!WriteFails
    BY <1>6 DEF Process!Terminate, Phases
  <2> QED
    BY <2>1, WriteKeeps, KilledKeeps
<1>7. CASE Process!Exit
  BY <1>7 DEF Process!Exit, Process!Lives
<1>8. CASE Process!Close
  BY <1>8 DEF Process!Close, Process!Lives
<1>9. CASE Process!SettleClears
  BY <1>9, KilledKeeps DEF Process!SettleClears, Process!Proved, Process!Cleared, Process!Lives, Phases
<1>10. CASE Process!SettleFails
  <2>1. Process!Killed \/ UNCHANGED spawned
    BY <1>10 DEF Process!SettleFails
  <2> QED
    BY <1>10, <2>1, KilledKeeps DEF Process!SettleFails
<1>11. CASE Process!MarkNeedsReview
  BY <1>11, WriteKeeps DEF Process!MarkNeedsReview, Process!Lives, Phases
<1>12. CASE Process!Crash
  BY <1>12 DEF Process!Crash, Process!Lives
<1>13. CASE UNCHANGED Process!vars
  BY <1>13 DEF Process!vars, Process!Lives
<1> QED
  BY <1>1, <1>2, <1>3, <1>4, <1>5, <1>6, <1>7, <1>8, <1>9, <1>10, <1>11, <1>12, <1>13 DEF Process!Next

LEMMA ProcessTypes ==
  ASSUME MaxFaults \in Nat, ProcessInv, Process!TypeOK, [Process!Next]_(Process!vars)
  PROVE Process!TypeOK'
<1> USE DEF Process!TypeOK
<1>1. ProcessShapes'
  BY ProcessNext DEF ProcessInv
<1>2. faults' = faults \/ (faults < MaxFaults /\ faults' = faults + 1)
  BY DEF Process!Next, Process!vars, Process!Reconcile, Process!Reserve,
     Process!AbortBeforeLaunch, Process!Spawn, Process!MarkRunning, Process!Terminate,
     Process!Exit, Process!Close, Process!SettleClears, Process!SettleFails,
     Process!MarkNeedsReview, Process!Crash, Process!Write, Process!WriteFails
<1>3. supervisor' \in {"idle", "reserved", "spawned", "running", "closed", "unsettled"}
  BY DEF Process!Next, Process!vars, Process!Reconcile, Process!Reserve,
     Process!AbortBeforeLaunch, Process!Spawn, Process!MarkRunning, Process!Terminate,
     Process!Exit, Process!Close, Process!SettleClears, Process!SettleFails,
     Process!MarkNeedsReview, Process!Crash
<1> QED
  BY <1>1, <1>2, <1>3 DEF ProcessShapes, Phases

(* No process lives that the journal does not know, however many writes fail and *)
(* supervisors die: reserve() writes before the spawn, and clear() only what is  *)
(* seen to be absent.                                                            *)
THEOREM NoStrayHolds == Process!Spec => []Process!NoStray
<1>1. Process!Init => ProcessInv
  BY ProcessInit
<1>2. ProcessInv /\ [Process!Next]_(Process!vars) => ProcessInv'
  BY ProcessNext
<1>3. ProcessInv => Process!NoStray
  BY DEF ProcessInv
<1> QED
  BY <1>1, <1>2, <1>3, PTL DEF Process!Spec

LEMMA QuarantineStep ==
  ASSUME ProcessInv, [Process!Next]_(Process!vars) PROVE [Process!Quarantined]_(Process!vars)
<1> SUFFICES ASSUME ProcessInv, Process!Next, kept.phase = "needs-review"
             PROVE kept'.phase = "needs-review" /\ (spawned' = "alive" => spawned = "alive")
  BY DEF Process!Quarantined
<1> USE DEF ProcessInv, ProcessShapes, SupervisorAtWork
<1>1. CASE Process!Reconcile
  BY <1>1 DEF Process!Reconcile, Process!Write, Process!WriteFails, Process!Killed, Process!Lives
<1>2. CASE Process!SettleClears \/ Process!SettleFails
  BY <1>2 DEF Process!SettleClears, Process!SettleFails, Process!Proved, Process!Killed, Process!Lives
<1>3. CASE Process!Terminate
  BY <1>3 DEF Process!Terminate, Process!Write, Process!WriteFails, Process!Killed, Process!Lives
<1>4. CASE Process!MarkNeedsReview
  BY <1>4 DEF Process!MarkNeedsReview, Process!Write, Process!WriteFails
<1>5. CASE Process!Exit \/ Process!Close \/ Process!Crash
  BY <1>5 DEF Process!Exit, Process!Close, Process!Crash
<1>6. ~(Process!Reserve \/ Process!AbortBeforeLaunch \/ Process!Spawn \/ Process!MarkRunning)
  BY DEF Process!Reserve, Process!AbortBeforeLaunch, Process!Spawn, Process!MarkRunning
<1> QED
  BY <1>1, <1>2, <1>3, <1>4, <1>5, <1>6 DEF Process!Next

(* What is left for review stays so, and nothing is spawned beside it. *)
THEOREM QuarantinedHolds == Process!Spec => [][Process!Quarantined]_(Process!vars)
<1>1. Process!Init => ProcessInv
  BY ProcessInit
<1>2. ProcessInv /\ [Process!Next]_(Process!vars) => ProcessInv'
  BY ProcessNext
<1>3. ProcessInv /\ [Process!Next]_(Process!vars) => [Process!Quarantined]_(Process!vars)
  BY QuarantineStep
<1> QED
  BY <1>1, <1>2, <1>3, PTL DEF Process!Spec

---------------------------------------------------------------------------
(* Agent graphs (AgentGraphs, with its call under the name of answer): how    *)
(* far the call of a node has come tells of its child, and each phase of the  *)
(* executor of what the row may say.                                          *)

(* A node depends on nodes. *)
GraphAssumption == DependsOn \in [Nodes -> SUBSET Nodes] /\ GraphFaults \in Nat

Open == {"validated", "running"}

(* How far the call of a node has come tells of its child. *)
CallTrue(n) ==
  /\ answer[n] \in {"start", "event"} => child[n] = "none"
  /\ answer[n] = "child" => child[n] = "running"
  /\ answer[n] = "record" => child[n] \in {"ok", "bad", "unknown"}
  /\ answer[n] = "none" /\ phase \in {"none", "run"} => child[n] = "none"

(* A node is dispatched once all it depends on has gone well. *)
Founded(n) ==
  answer[n] # "none" \/ child[n] # "none" => \A d \in DependsOn[n] : child[d] = "ok"

(* Success is that of the child, and while the graph is open, of its row. *)
Earned(n) ==
  /\ node[n] = "completed" \/ result[n] = "completed" => child[n] = "ok"
  /\ phase = "run" /\ graph.status \in Open /\ answer[n] \in {"event", "child", "record"}
       => node[n] = "running"
  /\ phase # "gone" /\ result[n] = "completed" /\ graph.status # "needs-review"
       => node[n] = "completed"

(* What the graph may be in each phase of its executor. *)
Phased ==
  /\ phase = "none" => /\ graph.status = "none" /\ said = {}
                       /\ \A n \in Nodes : result[n] = "none" /\ answer[n] = "none"
  /\ phase # "none" => graph.status # "none"
  /\ phase = "run" => graph.status \in Open \cup {"needs-review"} /\ said = {}
  /\ phase \in {"audit", "complete"} => graph.status \in {"publishing", "needs-review"}
  /\ phase = "audit" => said = {}
  /\ phase = "amend" => graph.status = "needs-review" /\ Graph!Unsettled = {}
  /\ phase \in {"audit", "complete", "amend", "returned"} => Graph!Left = {}
  /\ phase = "complete" => last = Graph!Overall
  /\ graph.status = "completed" => \A n \in Nodes : node[n] = "completed"
  /\ "completed" \in said => \A n \in Nodes : child[n] = "ok"
  /\ job = "completed" => graph.status \in Graph!Terminal
  /\ Graph!LastWord

GraphInv == Graph!TypeOK /\ Phased /\ \A n \in Nodes : CallTrue(n) /\ Founded(n) /\ Earned(n)

LEMMA AdmitKeeps ==
  ASSUME GraphInv, GraphAssumption, Graph!Admit
  PROVE  GraphInv'
<1>0. Graph!TypeOK /\ Phased /\ \A n \in Nodes : CallTrue(n) /\ Founded(n) /\ Earned(n)
  BY DEF GraphInv
<1>1. Graph!TypeOK'
  BY <1>0 DEF Graph!TypeOK, Graph!Live, Graph!Admit
<1>2. Phased'
  BY <1>0 DEF Phased, Graph!LastWord, Open, Graph!Admit
<1>3. ASSUME NEW n \in Nodes PROVE CallTrue(n)'
  BY <1>0 DEF CallTrue, Graph!Admit
<1>4. ASSUME NEW n \in Nodes PROVE Founded(n)'
  BY <1>0 DEF Founded, Graph!Admit
<1>5. ASSUME NEW n \in Nodes PROVE Earned(n)'
  BY <1>0 DEF Phased, Earned, Graph!Admit
<1> QED
  BY <1>1, <1>2, <1>3, <1>4, <1>5 DEF GraphInv

LEMMA AdmitFailsKeeps ==
  ASSUME GraphInv, GraphAssumption, Graph!AdmitFails
  PROVE  GraphInv'
<1>0. Graph!TypeOK /\ Phased /\ \A n \in Nodes : CallTrue(n) /\ Founded(n) /\ Earned(n)
  BY DEF GraphInv
<1>1. Graph!TypeOK'
  BY <1>0 DEF GraphAssumption, Graph!TypeOK, Graph!Terminal, Graph!Settled, Graph!AdmitFails,
     Graph!Fault
<1>2. Phased'
  BY <1>0 DEF Phased, Graph!LastWord, Graph!AdmitFails
<1>3. ASSUME NEW n \in Nodes PROVE CallTrue(n)'
  BY <1>0 DEF CallTrue, Graph!AdmitFails
<1>4. ASSUME NEW n \in Nodes PROVE Founded(n)'
  BY <1>0 DEF Founded, Graph!AdmitFails
<1>5. ASSUME NEW n \in Nodes PROVE Earned(n)'
  BY <1>0 DEF Earned, Graph!AdmitFails
<1> QED
  BY <1>1, <1>2, <1>3, <1>4, <1>5 DEF GraphInv

LEMMA NextBatchKeeps ==
  ASSUME GraphInv, GraphAssumption, Graph!NextBatch
  PROVE  GraphInv'
<1>0. Graph!TypeOK /\ Phased /\ \A n \in Nodes : CallTrue(n) /\ Founded(n) /\ Earned(n)
  BY DEF GraphInv
<1>1. Graph!TypeOK'
  BY <1>0 DEF Graph!TypeOK, Graph!Terminal, Graph!Settled, Graph!NextBatch
<1>2. Phased'
  BY <1>0 DEF Phased, Graph!LastWord, Graph!NextBatch
<1>3. ASSUME NEW n \in Nodes PROVE CallTrue(n)'
  BY <1>0 DEF CallTrue, Graph!Left, Graph!NextBatch, Graph!Wave, Graph!Awaited
<1>4. ASSUME NEW n \in Nodes PROVE Founded(n)'
  BY <1>0 DEF GraphAssumption, Founded, Earned, Graph!NextBatch, Graph!Blocked
<1>5. ASSUME NEW n \in Nodes PROVE Earned(n)'
  BY <1>0 DEF Earned, Graph!NextBatch
<1> QED
  BY <1>1, <1>2, <1>3, <1>4, <1>5 DEF GraphInv

LEMMA DeadlineKeeps ==
  ASSUME GraphInv, GraphAssumption, Graph!Deadline
  PROVE  GraphInv'
<1>0. Graph!TypeOK /\ Phased /\ \A n \in Nodes : CallTrue(n) /\ Founded(n) /\ Earned(n)
  BY DEF GraphInv
<1>1. Graph!TypeOK'
  BY <1>0 DEF Graph!TypeOK, Graph!Terminal, Graph!Settled, Graph!Deadline, Graph!Uncertain
<1>2. Phased'
  BY <1>0 DEF Phased, Graph!LastWord, Graph!Deadline
<1>3. ASSUME NEW n \in Nodes PROVE CallTrue(n)'
  BY <1>0 DEF CallTrue, Graph!Deadline
<1>4. ASSUME NEW n \in Nodes PROVE Founded(n)'
  BY <1>0 DEF Founded, Graph!Deadline
<1>5. ASSUME NEW n \in Nodes PROVE Earned(n)'
  BY <1>0 DEF Earned, Graph!Deadline, Graph!Uncertain
<1> QED
  BY <1>1, <1>2, <1>3, <1>4, <1>5 DEF GraphInv

LEMMA AbortKeeps ==
  ASSUME GraphInv, GraphAssumption, Graph!Abort
  PROVE  GraphInv'
<1>0. Graph!TypeOK /\ Phased /\ \A n \in Nodes : CallTrue(n) /\ Founded(n) /\ Earned(n)
  BY DEF GraphInv
<1>1. Graph!TypeOK'
  BY <1>0 DEF Graph!TypeOK, Graph!Terminal, Graph!Settled, Graph!Abort, Graph!Uncertain,
     Graph!Quarantine
<1>2. Phased'
  BY <1>0 DEF Phased, Graph!LastWord, Graph!Terminal, Graph!Abort, Graph!Quarantine
<1>3. ASSUME NEW n \in Nodes PROVE CallTrue(n)'
  BY <1>0 DEF CallTrue, Graph!Abort
<1>4. ASSUME NEW n \in Nodes PROVE Founded(n)'
  BY <1>0 DEF Founded, Graph!Abort
<1>5. ASSUME NEW n \in Nodes PROVE Earned(n)'
  BY <1>0 DEF Earned, Open, Graph!Abort, Graph!Uncertain, Graph!Quarantine
<1> QED
  BY <1>1, <1>2, <1>3, <1>4, <1>5 DEF GraphInv

LEMMA BeginCompletionKeeps ==
  ASSUME GraphInv, GraphAssumption, Graph!BeginCompletion
  PROVE  GraphInv'
<1>0. Graph!TypeOK /\ Phased /\ \A n \in Nodes : CallTrue(n) /\ Founded(n) /\ Earned(n)
  BY DEF GraphInv
<1>1. Graph!TypeOK'
  BY <1>0 DEF Graph!TypeOK, Graph!Live, Graph!BeginCompletion, Graph!ReportRecorded
<1>2. Phased'
  BY <1>0 DEF Phased, Graph!LastWord, Graph!Left, Open, Graph!Terminal, Graph!BeginCompletion
<1>3. ASSUME NEW n \in Nodes PROVE CallTrue(n)'
  BY <1>0 DEF CallTrue, Graph!BeginCompletion
<1>4. ASSUME NEW n \in Nodes PROVE Founded(n)'
  BY <1>0 DEF Founded, Graph!BeginCompletion
<1>5. ASSUME NEW n \in Nodes PROVE Earned(n)'
  BY <1>0 DEF Earned, Graph!BeginCompletion, Graph!ReportRecorded
<1> QED
  BY <1>1, <1>2, <1>3, <1>4, <1>5 DEF GraphInv

LEMMA PublishKeeps ==
  ASSUME GraphInv, GraphAssumption, Graph!Publish
  PROVE  GraphInv'
<1>0. Graph!TypeOK /\ Phased /\ \A n \in Nodes : CallTrue(n) /\ Founded(n) /\ Earned(n)
  BY DEF GraphInv
<1>1. Graph!TypeOK'
  BY <1>0 DEF Graph!TypeOK, Graph!Overall, Graph!Terminal, Graph!Publish, Graph!Say
<1>2. Phased'
  BY <1>0 DEF Graph!TypeOK, Phased, Earned, Graph!LastWord, Graph!Left, Graph!Overall,
     Graph!Terminal, Graph!Settled, Graph!Publish, Graph!Say
<1>3. ASSUME NEW n \in Nodes PROVE CallTrue(n)'
  BY <1>0 DEF CallTrue, Graph!Publish
<1>4. ASSUME NEW n \in Nodes PROVE Founded(n)'
  BY <1>0 DEF Founded, Graph!Publish
<1>5. ASSUME NEW n \in Nodes PROVE Earned(n)'
  BY <1>0 DEF Earned, Graph!Publish
<1> QED
  BY <1>1, <1>2, <1>3, <1>4, <1>5 DEF GraphInv

LEMMA CompleteKeeps ==
  ASSUME GraphInv, GraphAssumption, Graph!Complete
  PROVE  GraphInv'
<1>0. Graph!TypeOK /\ Phased /\ \A n \in Nodes : CallTrue(n) /\ Founded(n) /\ Earned(n)
  BY DEF GraphInv
<1>1. Graph!TypeOK'
  BY <1>0 DEF Graph!TypeOK, Graph!Overall, Graph!Terminal, Graph!Settled, Graph!Complete,
     Graph!Completed
<1>2. Phased'
  BY <1>0 DEF Graph!TypeOK, Phased, Earned, Graph!LastWord, Graph!Unsettled, Graph!Left,
     Graph!Overall, Graph!Terminal, Graph!Settled, Graph!Complete, Graph!Completed
<1>3. ASSUME NEW n \in Nodes PROVE CallTrue(n)'
  BY <1>0 DEF CallTrue, Graph!Complete
<1>4. ASSUME NEW n \in Nodes PROVE Founded(n)'
  BY <1>0 DEF Founded, Graph!Complete
<1>5. ASSUME NEW n \in Nodes PROVE Earned(n)'
  BY <1>0 DEF Earned, Graph!Terminal, Graph!Complete, Graph!Completed
<1> QED
  BY <1>1, <1>2, <1>3, <1>4, <1>5 DEF GraphInv

LEMMA AmendKeeps ==
  ASSUME GraphInv, GraphAssumption, Graph!Amend
  PROVE  GraphInv'
<1>0. Graph!TypeOK /\ Phased /\ \A n \in Nodes : CallTrue(n) /\ Founded(n) /\ Earned(n)
  BY DEF GraphInv
<1>1. Graph!TypeOK'
  BY <1>0 DEF Graph!TypeOK, Graph!Terminal, Graph!Amend, Graph!Say
<1>2. Phased'
  BY <1>0 DEF Phased, Graph!LastWord, Graph!Unsettled, Graph!Left, Graph!Terminal,
     Graph!Amend, Graph!Say
<1>3. ASSUME NEW n \in Nodes PROVE CallTrue(n)'
  BY <1>0 DEF CallTrue, Graph!Amend
<1>4. ASSUME NEW n \in Nodes PROVE Founded(n)'
  BY <1>0 DEF Founded, Graph!Amend
<1>5. ASSUME NEW n \in Nodes PROVE Earned(n)'
  BY <1>0 DEF Earned, Graph!Amend
<1> QED
  BY <1>1, <1>2, <1>3, <1>4, <1>5 DEF GraphInv

LEMMA PublicationFailsKeeps ==
  ASSUME GraphInv, GraphAssumption, Graph!PublicationFails
  PROVE  GraphInv'
<1>0. Graph!TypeOK /\ Phased /\ \A n \in Nodes : CallTrue(n) /\ Founded(n) /\ Earned(n)
  BY DEF GraphInv
<1>1. Graph!TypeOK'
  <2>1. /\ graph' \in [status : {"none"} \cup Graph!Live \cup Graph!Terminal, listed : BOOLEAN]
        /\ node' \in [Nodes -> {"none", "queued", "running"} \cup Graph!Settled]
    BY <1>0 DEF Graph!TypeOK, Graph!PublicationFails, Graph!Completed, Graph!Terminal,
       Graph!Settled
  <2>2. said' \subseteq Graph!Terminal /\ last' \in said' \cup {"none"}
    BY <1>0 DEF Graph!TypeOK, Graph!PublicationFails, Graph!Say, Graph!Terminal
  <2>3. phase' = "gone" /\ faults' \in 0..GraphFaults
        /\ UNCHANGED <<result, answer, child, aborted, fenced, timedOut, job>>
    BY <1>0 DEF Graph!TypeOK, Graph!PublicationFails, Graph!Fault, GraphAssumption
  <2> QED
    BY <1>0, <2>1, <2>2, <2>3 DEF Graph!TypeOK
<1>2. Phased'
  BY <1>0 DEF Phased, Graph!LastWord, Graph!Terminal, Graph!PublicationFails, Graph!Completed,
     Graph!Say
<1>3. ASSUME NEW n \in Nodes PROVE CallTrue(n)'
  BY <1>0 DEF CallTrue, Graph!PublicationFails
<1>4. ASSUME NEW n \in Nodes PROVE Founded(n)'
  BY <1>0 DEF Founded, Graph!PublicationFails
<1>5. ASSUME NEW n \in Nodes PROVE Earned(n)'
  BY <1>0 DEF Earned, Graph!PublicationFails, Graph!Completed
<1> QED
  BY <1>1, <1>2, <1>3, <1>4, <1>5 DEF GraphInv

LEMMA CancelKeeps ==
  ASSUME GraphInv, GraphAssumption, Graph!Cancel
  PROVE  GraphInv'
<1>0. Graph!TypeOK /\ Phased /\ \A n \in Nodes : CallTrue(n) /\ Founded(n) /\ Earned(n)
  BY DEF GraphInv
<1>1. Graph!TypeOK'
  BY <1>0 DEF Graph!TypeOK, Graph!Terminal, Graph!Settled, Graph!Cancel, Graph!Quarantine
<1>2. Phased'
  BY <1>0 DEF Phased, Graph!LastWord, Graph!Unsettled, Graph!Left, Graph!Overall, Graph!Live,
     Graph!Terminal, Graph!Cancel, Graph!Quarantine
<1>3. ASSUME NEW n \in Nodes PROVE CallTrue(n)'
  BY <1>0 DEF CallTrue, Graph!Cancel
<1>4. ASSUME NEW n \in Nodes PROVE Founded(n)'
  BY <1>0 DEF Founded, Graph!Cancel
<1>5. ASSUME NEW n \in Nodes PROVE Earned(n)'
  BY <1>0 DEF Earned, Open, Graph!Cancel, Graph!Quarantine
<1> QED
  BY <1>1, <1>2, <1>3, <1>4, <1>5 DEF GraphInv

LEMMA WorkerDiesKeeps ==
  ASSUME GraphInv, GraphAssumption, Graph!WorkerDies
  PROVE  GraphInv'
<1>0. Graph!TypeOK /\ Phased /\ \A n \in Nodes : CallTrue(n) /\ Founded(n) /\ Earned(n)
  BY DEF GraphInv
<1>1. Graph!TypeOK'
  BY <1>0 DEF GraphAssumption, Graph!TypeOK, Graph!WorkerDies, Graph!Dead, Graph!Fault
<1>2. Phased'
  BY <1>0 DEF Phased, Graph!LastWord, Graph!WorkerDies, Graph!Dead
<1>3. ASSUME NEW n \in Nodes PROVE CallTrue(n)'
  BY <1>0 DEF CallTrue, Graph!WorkerDies
<1>4. ASSUME NEW n \in Nodes PROVE Founded(n)'
  BY <1>0 DEF GraphAssumption, Founded, Graph!WorkerDies, Graph!Dead
<1>5. ASSUME NEW n \in Nodes PROVE Earned(n)'
  BY <1>0 DEF Earned, Graph!WorkerDies, Graph!Dead
<1> QED
  BY <1>1, <1>2, <1>3, <1>4, <1>5 DEF GraphInv

LEMMA JobEndsKeeps ==
  ASSUME GraphInv, GraphAssumption, Graph!JobEnds
  PROVE  GraphInv'
<1>0. Graph!TypeOK /\ Phased /\ \A n \in Nodes : CallTrue(n) /\ Founded(n) /\ Earned(n)
  BY DEF GraphInv
<1>1. Graph!TypeOK'
  BY <1>0 DEF Graph!TypeOK, Graph!Terminal, Graph!JobEnds
<1>2. Phased'
  BY <1>0 DEF Phased, Graph!LastWord, Graph!Unsettled, Graph!Left, Graph!JobEnds
<1>3. ASSUME NEW n \in Nodes PROVE CallTrue(n)'
  BY <1>0 DEF CallTrue, Graph!JobEnds
<1>4. ASSUME NEW n \in Nodes PROVE Founded(n)'
  BY <1>0 DEF Founded, Graph!JobEnds
<1>5. ASSUME NEW n \in Nodes PROVE Earned(n)'
  BY <1>0 DEF Earned, Graph!JobEnds
<1> QED
  BY <1>1, <1>2, <1>3, <1>4, <1>5 DEF GraphInv

LEMMA RestartKeeps ==
  ASSUME GraphInv, GraphAssumption, Graph!Restart
  PROVE  GraphInv'
<1>0. Graph!TypeOK /\ Phased /\ \A n \in Nodes : CallTrue(n) /\ Founded(n) /\ Earned(n)
  BY DEF GraphInv
<1>1. Graph!TypeOK'
  <2>1. job' \in {"running", "cancelling"} \cup Graph!Terminal
    BY <1>0 DEF Graph!TypeOK, Graph!Restart, Graph!Terminal
  <2>2. job' \in Graph!Terminal
    BY <1>0 DEF Graph!TypeOK, Graph!Restart, Graph!Terminal
  <2>3. /\ graph' \in [status : {"none"} \cup Graph!Live \cup Graph!Terminal, listed : BOOLEAN]
        /\ node' \in [Nodes -> {"none", "queued", "running"} \cup Graph!Settled]
    BY <1>0, <2>2 DEF Graph!TypeOK, Graph!Restart, Graph!Reconciled, Graph!Terminal,
       Graph!Settled
  <2>4. said' \subseteq Graph!Terminal /\ last' \in said' \cup {"none"}
    BY <1>0 DEF Graph!TypeOK, Graph!Restart, Graph!Say
  <2>5. /\ answer' \in [Nodes -> {"none", "start", "event", "child", "record", "done"}]
        /\ child' \in [Nodes -> {"none", "running", "ok", "bad", "unknown"}]
    BY <1>0 DEF Graph!TypeOK, Graph!Restart, Graph!Dead
  <2>6. phase' = "gone" /\ faults' \in 0..GraphFaults
        /\ UNCHANGED <<result, aborted, fenced, timedOut>>
    BY <1>0 DEF Graph!TypeOK, Graph!Restart, Graph!Fault, GraphAssumption
  <2> QED
    BY <1>0, <2>1, <2>3, <2>4, <2>5, <2>6 DEF Graph!TypeOK
<1>2. Phased'
  BY <1>0 DEF Graph!TypeOK, Phased, Graph!LastWord, Graph!Terminal, Graph!Restart,
     Graph!Reconciled, Graph!Say, Graph!Dead
<1>3. ASSUME NEW n \in Nodes PROVE CallTrue(n)'
  BY <1>0 DEF CallTrue, Graph!Restart
<1>4. ASSUME NEW n \in Nodes PROVE Founded(n)'
  BY <1>0 DEF GraphAssumption, Founded, Graph!Restart, Graph!Dead
<1>5. ASSUME NEW n \in Nodes PROVE Earned(n)'
  BY <1>0 DEF Earned, Graph!Restart, Graph!Reconciled, Graph!Dead
<1> QED
  BY <1>1, <1>2, <1>3, <1>4, <1>5 DEF GraphInv

LEMMA StartKeeps ==
  ASSUME GraphInv, GraphAssumption, NEW m \in Nodes, Graph!Start(m)
  PROVE  GraphInv'
<1>0. Graph!TypeOK /\ Phased /\ \A n \in Nodes : CallTrue(n) /\ Founded(n) /\ Earned(n)
  BY DEF GraphInv
<1>1. Graph!TypeOK'
  BY <1>0 DEF Graph!TypeOK, Graph!Live, Graph!Start
<1>2. Phased'
  BY <1>0 DEF Phased, Graph!LastWord, Open, Graph!Terminal, Graph!Start, Graph!CanStart
<1>3. ASSUME NEW n \in Nodes PROVE CallTrue(n)'
  BY <1>0 DEF CallTrue, Graph!Start
<1>4. ASSUME NEW n \in Nodes PROVE Founded(n)'
  BY <1>0 DEF Founded, Graph!Start
<1>5. ASSUME NEW n \in Nodes PROVE Earned(n)'
  BY <1>0 DEF Graph!TypeOK, Earned, Open, Graph!Start, Graph!CanStart
<1> QED
  BY <1>1, <1>2, <1>3, <1>4, <1>5 DEF GraphInv

LEMMA StartRefusedKeeps ==
  ASSUME GraphInv, GraphAssumption, NEW m \in Nodes, Graph!StartRefused(m)
  PROVE  GraphInv'
<1>0. Graph!TypeOK /\ Phased /\ \A n \in Nodes : CallTrue(n) /\ Founded(n) /\ Earned(n)
  BY DEF GraphInv
<1>1. Graph!TypeOK'
  BY <1>0 DEF GraphAssumption, Graph!TypeOK, Graph!Terminal, Graph!Settled,
     Graph!StartRefused, Graph!Fault, Graph!Quarantine, Graph!Receipt
<1>2. Phased'
  BY <1>0 DEF Phased, Graph!LastWord, Graph!Unsettled, Graph!Left, Graph!Overall, Graph!Live,
     Graph!Terminal, Graph!StartRefused, Graph!Quarantine, Graph!Receipt
<1>3. ASSUME NEW n \in Nodes PROVE CallTrue(n)'
  BY <1>0 DEF CallTrue, Graph!StartRefused, Graph!Receipt
<1>4. ASSUME NEW n \in Nodes PROVE Founded(n)'
  BY <1>0 DEF Founded, Graph!StartRefused, Graph!Receipt
<1>5. ASSUME NEW n \in Nodes PROVE Earned(n)'
  BY <1>0 DEF Earned, Open, Graph!StartRefused, Graph!Quarantine, Graph!Receipt
<1> QED
  BY <1>1, <1>2, <1>3, <1>4, <1>5 DEF GraphInv

LEMMA RunChildKeeps ==
  ASSUME GraphInv, GraphAssumption, NEW m \in Nodes, Graph!RunChild(m)
  PROVE  GraphInv'
<1>0. Graph!TypeOK /\ Phased /\ \A n \in Nodes : CallTrue(n) /\ Founded(n) /\ Earned(n)
  BY DEF GraphInv
<1>1. Graph!TypeOK'
  BY <1>0 DEF Graph!TypeOK, Graph!RunChild
<1>2. Phased'
  BY <1>0 DEF Phased, CallTrue, Graph!LastWord, Graph!Unsettled, Graph!Left, Graph!Overall,
     Graph!RunChild
<1>3. ASSUME NEW n \in Nodes PROVE CallTrue(n)'
  BY <1>0 DEF Graph!TypeOK, CallTrue, Graph!RunChild
<1>4. ASSUME NEW n \in Nodes PROVE Founded(n)'
  BY <1>0 DEF CallTrue, Founded, Graph!RunChild
<1>5. ASSUME NEW n \in Nodes PROVE Earned(n)'
  BY <1>0 DEF CallTrue, Earned, Graph!RunChild
<1> QED
  BY <1>1, <1>2, <1>3, <1>4, <1>5 DEF GraphInv

LEMMA EventFailsKeeps ==
  ASSUME GraphInv, GraphAssumption, NEW m \in Nodes, Graph!EventFails(m)
  PROVE  GraphInv'
<1>0. Graph!TypeOK /\ Phased /\ \A n \in Nodes : CallTrue(n) /\ Founded(n) /\ Earned(n)
  BY DEF GraphInv
<1>1. Graph!TypeOK'
  BY <1>0 DEF GraphAssumption, Graph!TypeOK, Graph!Terminal, Graph!Settled, Graph!EventFails,
     Graph!Fault, Graph!Recorded, Graph!Receipt
<1>2. Phased'
  BY <1>0 DEF Phased, Graph!LastWord, Graph!Unsettled, Graph!Left, Graph!Overall,
     Graph!EventFails, Graph!Recorded, Graph!Receipt
<1>3. ASSUME NEW n \in Nodes PROVE CallTrue(n)'
  BY <1>0 DEF CallTrue, Graph!EventFails, Graph!Receipt
<1>4. ASSUME NEW n \in Nodes PROVE Founded(n)'
  BY <1>0 DEF Founded, Graph!EventFails, Graph!Receipt
<1>5. ASSUME NEW n \in Nodes PROVE Earned(n)'
  BY <1>0 DEF Graph!TypeOK, Earned, Graph!EventFails, Graph!Recorded, Graph!Receipt
<1> QED
  BY <1>1, <1>2, <1>3, <1>4, <1>5 DEF GraphInv

LEMMA NodeRecordKeeps ==
  ASSUME GraphInv, GraphAssumption, NEW m \in Nodes, Graph!Record(m)
  PROVE  GraphInv'
<1>0. Graph!TypeOK /\ Phased /\ \A n \in Nodes : CallTrue(n) /\ Founded(n) /\ Earned(n)
  BY DEF GraphInv
<1>1. Graph!TypeOK'
  BY <1>0 DEF Graph!TypeOK, Graph!Terminal, Graph!Settled, Graph!Record, Graph!Recorded,
     Graph!Receipt, Graph!StatusOf
<1>2. Phased'
  BY <1>0 DEF Phased, Graph!LastWord, Graph!Unsettled, Graph!Left, Graph!Overall,
     Graph!Record, Graph!Recorded, Graph!Receipt
<1>3. ASSUME NEW n \in Nodes PROVE CallTrue(n)'
  BY <1>0 DEF CallTrue, Graph!Record, Graph!Receipt
<1>4. ASSUME NEW n \in Nodes PROVE Founded(n)'
  BY <1>0 DEF Founded, Graph!Record, Graph!Receipt
<1>5. ASSUME NEW n \in Nodes PROVE Earned(n)'
  BY <1>0 DEF Graph!TypeOK, Phased, Earned, Open, Graph!Record, Graph!Recorded, Graph!Receipt,
     Graph!StatusOf
<1> QED
  BY <1>1, <1>2, <1>3, <1>4, <1>5 DEF GraphInv

LEMMA RecordFailsKeeps ==
  ASSUME GraphInv, GraphAssumption, NEW m \in Nodes, Graph!RecordFails(m)
  PROVE  GraphInv'
<1>0. Graph!TypeOK /\ Phased /\ \A n \in Nodes : CallTrue(n) /\ Founded(n) /\ Earned(n)
  BY DEF GraphInv
<1>1. Graph!TypeOK'
  BY <1>0 DEF GraphAssumption, Graph!TypeOK, Graph!Terminal, Graph!Settled, Graph!RecordFails,
     Graph!Recorded, Graph!Receipt, Graph!StatusOf, Graph!Fault
<1>2. Phased'
  BY <1>0 DEF Phased, Graph!LastWord, Graph!Unsettled, Graph!Left, Graph!Overall,
     Graph!RecordFails, Graph!Recorded, Graph!Receipt
<1>3. ASSUME NEW n \in Nodes PROVE CallTrue(n)'
  BY <1>0 DEF CallTrue, Graph!RecordFails, Graph!Receipt
<1>4. ASSUME NEW n \in Nodes PROVE Founded(n)'
  BY <1>0 DEF Founded, Graph!RecordFails, Graph!Receipt
<1>5. ASSUME NEW n \in Nodes PROVE Earned(n)'
  BY <1>0 DEF Graph!TypeOK, Earned, Graph!RecordFails, Graph!Recorded, Graph!Receipt,
     Graph!StatusOf
<1> QED
  BY <1>1, <1>2, <1>3, <1>4, <1>5 DEF GraphInv

LEMMA NodeTimesOutKeeps ==
  ASSUME GraphInv, GraphAssumption, NEW m \in Nodes, Graph!NodeTimesOut(m)
  PROVE  GraphInv'
<1>0. Graph!TypeOK /\ Phased /\ \A n \in Nodes : CallTrue(n) /\ Founded(n) /\ Earned(n)
  BY DEF GraphInv
<1>1. Graph!TypeOK'
  BY <1>0 DEF Graph!TypeOK, Graph!Terminal, Graph!Settled, Graph!NodeTimesOut, Graph!Uncertain
<1>2. Phased'
  BY <1>0 DEF Phased, Graph!LastWord, Graph!NodeTimesOut
<1>3. ASSUME NEW n \in Nodes PROVE CallTrue(n)'
  BY <1>0 DEF CallTrue, Graph!NodeTimesOut
<1>4. ASSUME NEW n \in Nodes PROVE Founded(n)'
  BY <1>0 DEF Founded, Graph!NodeTimesOut
<1>5. ASSUME NEW n \in Nodes PROVE Earned(n)'
  BY <1>0 DEF Earned, Graph!NodeTimesOut, Graph!Uncertain
<1> QED
  BY <1>1, <1>2, <1>3, <1>4, <1>5 DEF GraphInv

LEMMA ChildEndsKeeps ==
  ASSUME GraphInv, GraphAssumption, NEW m \in Nodes, NEW how \in {"ok", "bad", "unknown"},
         Graph!ChildEnds(m, how)
  PROVE  GraphInv'
<1>0. Graph!TypeOK /\ Phased /\ \A n \in Nodes : CallTrue(n) /\ Founded(n) /\ Earned(n)
  BY DEF GraphInv
<1>1. Graph!TypeOK'
  BY <1>0 DEF Graph!TypeOK, Graph!ChildEnds
<1>2. Phased'
  BY <1>0 DEF Phased, CallTrue, Graph!LastWord, Graph!Unsettled, Graph!Left, Graph!Overall,
     Graph!ChildEnds
<1>3. ASSUME NEW n \in Nodes PROVE CallTrue(n)'
  BY <1>0 DEF Graph!TypeOK, CallTrue, Graph!ChildEnds
<1>4. ASSUME NEW n \in Nodes PROVE Founded(n)'
  BY <1>0 DEF CallTrue, Founded, Graph!ChildEnds
<1>5. ASSUME NEW n \in Nodes PROVE Earned(n)'
  BY <1>0 DEF CallTrue, Earned, Graph!ChildEnds
<1> QED
  BY <1>1, <1>2, <1>3, <1>4, <1>5 DEF GraphInv

LEMMA GraphInit == ASSUME GraphAssumption PROVE Graph!Init => GraphInv
<1> SUFFICES ASSUME Graph!Init PROVE GraphInv
  OBVIOUS
<1>1. Graph!TypeOK
  <2>1. /\ graph \in [status : {"none"} \cup Graph!Live \cup Graph!Terminal, listed : BOOLEAN]
        /\ faults \in 0..GraphFaults
    BY DEF GraphAssumption, Graph!Init
  <2>2. /\ node \in [Nodes -> {"none", "queued", "running"} \cup Graph!Settled]
        /\ result \in [Nodes -> {"none"} \cup Graph!Settled]
        /\ answer \in [Nodes -> {"none", "start", "event", "child", "record", "done"}]
        /\ child \in [Nodes -> {"none", "running", "ok", "bad", "unknown"}]
    BY DEF Graph!Init
  <2>3. /\ phase = "none" /\ aborted \in BOOLEAN /\ fenced \in BOOLEAN /\ timedOut \subseteq Nodes
        /\ said \subseteq Graph!Terminal /\ last \in said \cup {"none"} /\ job = "running"
    BY DEF Graph!Init
  <2> QED
    BY <2>1, <2>2, <2>3 DEF Graph!TypeOK
<1>2. Phased
  BY DEF Graph!Init, Phased, Graph!LastWord, Open
<1>3. \A n \in Nodes : CallTrue(n) /\ Founded(n) /\ Earned(n)
  BY DEF Graph!Init, CallTrue, Founded, Earned
<1> QED
  BY <1>1, <1>2, <1>3 DEF GraphInv

LEMMA GraphStep == ASSUME GraphAssumption PROVE GraphInv /\ [Graph!Next]_Graph!vars => GraphInv'
<1> SUFFICES ASSUME GraphInv, [Graph!Next]_Graph!vars PROVE GraphInv'
  OBVIOUS
<1>1. CASE UNCHANGED Graph!vars
  BY <1>1 DEF Graph!vars, GraphInv, Graph!TypeOK, Phased, CallTrue, Founded, Earned,
     Graph!LastWord, Graph!Unsettled, Graph!Left, Graph!Overall
<1>2. CASE Graph!RunnerNext
  BY <1>2, AdmitKeeps, AdmitFailsKeeps, NextBatchKeeps, DeadlineKeeps, AbortKeeps
     DEF Graph!RunnerNext
<1>3. CASE Graph!PublicationNext
  BY <1>3, BeginCompletionKeeps, PublishKeeps, CompleteKeeps, AmendKeeps, PublicationFailsKeeps
     DEF Graph!PublicationNext
<1>4. CASE Graph!ProcessNext
  BY <1>4, CancelKeeps, WorkerDiesKeeps, JobEndsKeeps, RestartKeeps DEF Graph!ProcessNext
<1>5. ASSUME NEW m \in Nodes, Graph!CallNext(m) PROVE GraphInv'
  BY <1>5, StartKeeps, StartRefusedKeeps, RunChildKeeps, EventFailsKeeps, NodeRecordKeeps,
     RecordFailsKeeps, NodeTimesOutKeeps, ChildEndsKeeps DEF Graph!CallNext
<1> QED
  BY <1>1, <1>2, <1>3, <1>4, <1>5 DEF Graph!Next

(* Rows, results, calls and children keep the shapes the code knows. *)
THEOREM GraphTypesHold == ASSUME GraphAssumption PROVE Graph!Spec => []Graph!TypeOK
<1>1. GraphInv => Graph!TypeOK
  BY DEF GraphInv
<1> QED
  BY <1>1, GraphInit, GraphStep, PTL DEF Graph!Spec

LEMMA HonestFollows == GraphInv => Graph!GraphHonest
<1> SUFFICES ASSUME GraphInv PROVE Graph!GraphHonest
  OBVIOUS
<1>1. phase = "returned" /\ Graph!Overall = "completed" => \A n \in Nodes : result[n] = "completed"
  BY DEF GraphInv, Phased, Graph!TypeOK, Graph!Left, Graph!Overall, Graph!Settled,
     Graph!Terminal
<1> QED
  BY <1>1 DEF GraphInv, Phased, Founded, Earned, Graph!GraphHonest

(* What is said to be completed is, in the row, in the audit and among the     *)
(* children, and a child ran only after all it depends on.                     *)
THEOREM GraphHonestHolds == ASSUME GraphAssumption PROVE Graph!Spec => []Graph!GraphHonest
  BY HonestFollows, GraphInit, GraphStep, PTL DEF Graph!Spec

(* When the executor returns, its row and the audit end with the same word. *)
THEOREM LastWordHolds == ASSUME GraphAssumption PROVE Graph!Spec => []Graph!LastWord
<1>1. GraphInv => Graph!LastWord
  BY DEF GraphInv, Phased
<1> QED
  BY <1>1, GraphInit, GraphStep, PTL DEF Graph!Spec

LEMMA FenceStep ==
  ASSUME GraphInv, [Graph!Next]_Graph!vars PROVE [Graph!FenceStrict]_Graph!vars
<1>0. Graph!TypeOK /\ Phased
  BY DEF GraphInv
<1> USE DEF Graph!TypeOK, Phased, Graph!LastWord, Open, Graph!Live, Graph!Terminal,
    Graph!Settled, Graph!Unsettled
<1>1. ASSUME Graph!Restart PROVE Graph!FenceStrict
  <2>1. job' \in Graph!Terminal /\ (job' = "completed" => graph.status \in Graph!Terminal)
    BY <1>0, <1>1 DEF Graph!Restart
  <2>2. graph'.status \in Graph!Terminal
    BY <1>0, <1>1, <2>1 DEF Graph!Restart, Graph!Reconciled
  <2>3. graph'.listed /\ graph'.status # "completed" => graph'.status \in said'
    BY <1>0, <1>1, <2>2 DEF Graph!Restart, Graph!Say
  <2>4. \A n \in Nodes : node'[n] # node[n] => node'[n] \notin {"running", "completed"}
    BY <1>0, <1>1, <2>1 DEF Graph!Restart, Graph!Reconciled
  <2>5. graph.status \in Graph!Terminal => graph'.status \in {graph.status, "needs-review"}
    BY <1>0, <1>1, <2>1 DEF Graph!Restart, Graph!Reconciled
  <2> QED
    BY <2>2, <2>3, <2>4, <2>5 DEF Graph!FenceStrict
<1>2. ASSUME ~Graph!Restart,
             graph.status \notin Open =>
               \A n \in Nodes : node'[n] # node[n] => node'[n] \notin {"running", "completed"},
             graph.status \in Graph!Terminal => graph'.status \in {graph.status, "needs-review"}
      PROVE  Graph!FenceStrict
  BY <1>2 DEF Graph!FenceStrict
<1>3. ASSUME ~Graph!Restart, Graph!Next PROVE Graph!FenceStrict
  <2>1. ASSUME Graph!RunnerNext PROVE Graph!FenceStrict
    BY <1>0, <1>2, <1>3, <2>1 DEF Graph!RunnerNext, Graph!Admit, Graph!AdmitFails,
       Graph!NextBatch, Graph!Deadline, Graph!Abort, Graph!Quarantine
  <2>2. ASSUME Graph!PublicationNext PROVE Graph!FenceStrict
    BY <1>0, <1>2, <1>3, <2>2 DEF Graph!PublicationNext, Graph!BeginCompletion,
       Graph!Publish, Graph!Complete, Graph!Amend, Graph!PublicationFails, Graph!Completed,
       Graph!ReportRecorded
  <2>3. ASSUME Graph!ProcessNext PROVE Graph!FenceStrict
    BY <1>0, <1>2, <1>3, <2>3 DEF Graph!ProcessNext, Graph!Cancel, Graph!WorkerDies,
       Graph!JobEnds, Graph!Quarantine
  <2>4. ASSUME NEW m \in Nodes, Graph!CallNext(m) PROVE Graph!FenceStrict
    <3>1. graph.status \notin Open =>
            \A n \in Nodes : node'[n] # node[n] => node'[n] \notin {"running", "completed"}
      BY <1>0, <2>4 DEF Graph!CallNext, Graph!Start, Graph!StartRefused, Graph!RunChild,
         Graph!EventFails, Graph!Record, Graph!RecordFails, Graph!NodeTimesOut,
         Graph!ChildEnds, Graph!Recorded, Graph!CanStart, Graph!Quarantine
    <3>2. graph.status \in Graph!Terminal => graph'.status \in {graph.status, "needs-review"}
      BY <1>0, <2>4 DEF Graph!CallNext, Graph!Start, Graph!StartRefused, Graph!RunChild,
         Graph!EventFails, Graph!Record, Graph!RecordFails, Graph!NodeTimesOut,
         Graph!ChildEnds, Graph!CanStart, Graph!Quarantine
    <3> QED
      BY <1>2, <1>3, <3>1, <3>2
  <2> QED
    BY <1>3, <2>1, <2>2, <2>3, <2>4 DEF Graph!Next
<1>4. CASE UNCHANGED Graph!vars
  BY <1>4
<1> QED
  BY <1>1, <1>3, <1>4

(* A fenced graph gets no late result and starts no node, and what a restart *)
(* leaves is settled and told.                                               *)
THEOREM FenceHoldsAlways == ASSUME GraphAssumption PROVE Graph!Spec => Graph!FenceHolds
<1>1. GraphInv /\ [Graph!Next]_Graph!vars => [Graph!FenceStrict]_Graph!vars
  BY FenceStep
<1> QED
  BY <1>1, GraphInit, GraphStep, PTL DEF Graph!Spec, Graph!FenceHolds

---------------------------------------------------------------------------
(* The cached MCP host (McpHost): how far a call has come tells of its tool,  *)
(* and a host that stops has told all its calls to.                           *)

(* There are finitely many calls, and version 1 is one of the versions. *)
HostAssumption ==
  /\ IsFiniteSet(Calls) /\ 1 \in Versions
  /\ {MaxConcurrency, MaxChanges, MaxDiscoveries, HostFaults} \subseteq Nat

CallRows ==
  [at : {"out", "assert", "dispatch", "launch", "tool", "audit", "done"},
   pin : Mcp!Pins, of : Versions \cup {0},
   told : {"none", "refused", "error", "completed", "failed", "needs-review"},
   aborted : BOOLEAN, tool : {"none", "running", "ok", "bad", "unknown"}]

Discoveries ==
  [at : {"none", "assert", "list", "audit"}, of : Versions \cup {0}, waiting : BOOLEAN]

(* How far a call has come tells of its tool, and what its client may know. *)
CallSound(c) ==
  /\ call[c].at \in {"out", "assert"} => call[c].told = "none" /\ call[c].tool = "none"
  /\ call[c].at \in {"dispatch", "launch"} => call[c].tool = "none"
  /\ call[c].at = "tool" <=> call[c].tool = "running"
  /\ call[c].at = "audit" => call[c].tool \in {"ok", "bad"}
  /\ Mcp!Physical(c) => call[c].told \in {"none", "needs-review"}
  /\ call[c].told = "completed" => call[c].tool = "ok"
  /\ call[c].told \in {"failed", "error", "refused"} => call[c].tool \in {"none", "bad"}

(* A host that stops has told its calls to. *)
StopTold == life \in {"stopping", "stopped"} => \A c \in Mcp!PhysicalCalls : call[c].aborted

(* A generation was discovered; the discovery under way is a further one. *)
Counted == snap.gen + (IF disc.at = "none" THEN 0 ELSE 1) <= sequence

Crowded == Cardinality(Mcp!PhysicalCalls) <= MaxConcurrency

HostInv == Mcp!TypeOK /\ StopTold /\ Counted /\ Crowded /\ \A c \in Calls : CallSound(c)

(* The host counts as we do. *)
LEMMA SameCount == ASSUME NEW S PROVE Mcp!Cardinality(S) = Cardinality(S)
  BY DEF Mcp!Cardinality, Cardinality

(* When less is under way, the host is no more crowded than before. *)
LEMMA Fewer ==
  ASSUME HostAssumption, Mcp!PhysicalCalls' \subseteq Mcp!PhysicalCalls, Crowded
  PROVE  Crowded'
<1>1. IsFiniteSet(Mcp!PhysicalCalls) /\ Mcp!PhysicalCalls \subseteq Calls
  BY FS_Subset DEF HostAssumption, Mcp!PhysicalCalls
<1>2. /\ Cardinality(Mcp!PhysicalCalls') <= Cardinality(Mcp!PhysicalCalls)
      /\ IsFiniteSet(Mcp!PhysicalCalls')
  BY <1>1, FS_Subset
<1>3. Cardinality(Mcp!PhysicalCalls) \in Nat /\ Cardinality(Mcp!PhysicalCalls') \in Nat
  BY <1>1, <1>2, FS_CardinalityType
<1> QED
  BY <1>2, <1>3 DEF Crowded, HostAssumption

(* What a reply, or the end of a host, makes of the calls are calls. *)
LEMMA ReplyIs ==
  ASSUME call \in [Calls -> CallRows], NEW d \in Calls,
         NEW status \in {"error", "completed", "failed", "needs-review"},
         NEW tool \in {"none", "ok", "bad", "unknown"}
  PROVE  Mcp!Reply(d, status, tool) \in [Calls -> CallRows]
<1> DEFINE new == [call[d] EXCEPT !.at = "done", !.tool = tool,
                                  !.told = IF @ = "none" THEN status ELSE @]
<1>1. new \in CallRows
  <2>1. call[d] \in CallRows
    OBVIOUS
  <2>2. (IF call[d].told = "none" THEN status ELSE call[d].told)
          \in {"none", "refused", "error", "completed", "failed", "needs-review"}
    BY <2>1 DEF CallRows
  <2> QED
    BY <2>1, <2>2 DEF CallRows
<1>2. Mcp!Reply(d, status, tool) = [call EXCEPT ![d] = new]
  BY DEF Mcp!Reply
<1> QED
  BY <1>1, <1>2

LEMMA UncertainIs ==
  ASSUME call \in [Calls -> CallRows], NEW S
  PROVE  Mcp!Uncertain(S) \in [Calls -> CallRows]
<1>1. ASSUME NEW c \in Calls
      PROVE  [call[c] EXCEPT !.aborted = TRUE,
                             !.told = IF @ = "none" THEN "needs-review" ELSE @] \in CallRows
  <2>1. call[c] \in CallRows
    OBVIOUS
  <2>2. (IF call[c].told = "none" THEN "needs-review" ELSE call[c].told)
          \in {"none", "refused", "error", "completed", "failed", "needs-review"}
    BY <2>1 DEF CallRows
  <2> QED
    BY <2>1, <2>2 DEF CallRows
<1> QED
  BY <1>1 DEF Mcp!Uncertain

(* Discoveries, what the operator changes, and calls, one action at a time. *)
LEMMA AskKeeps ==
  ASSUME HostInv, HostAssumption, Mcp!Ask
  PROVE  HostInv'
<1>0. Mcp!TypeOK /\ StopTold /\ Counted /\ Crowded /\ \A c \in Calls : CallSound(c)
  BY DEF HostInv
<1>1. Mcp!TypeOK'
  BY <1>0 DEF Mcp!TypeOK, Mcp!Pins, Counted, Mcp!Physical, Mcp!Ask
<1>2. StopTold'
  BY <1>0 DEF StopTold, Mcp!PhysicalCalls, Mcp!Physical, Mcp!Ask
<1>3. Counted'
  BY <1>0 DEF Counted, HostAssumption, Mcp!Ask
<1>4. Crowded'
  BY <1>0, Fewer DEF Mcp!PhysicalCalls, Mcp!Physical, Mcp!Ask
<1>5. ASSUME NEW c \in Calls PROVE CallSound(c)'
  BY <1>0 DEF CallSound, Mcp!Physical, Mcp!Ask
<1> QED
  BY <1>1, <1>2, <1>3, <1>4, <1>5 DEF HostInv

LEMMA CachedKeeps ==
  ASSUME HostInv, HostAssumption, Mcp!Cached
  PROVE  HostInv'
<1>0. Mcp!TypeOK /\ StopTold /\ Counted /\ Crowded /\ \A c \in Calls : CallSound(c)
  BY DEF HostInv
<1>1. Mcp!TypeOK'
  BY <1>0 DEF Mcp!TypeOK, Mcp!Pins, Counted, Mcp!Physical, Mcp!Cached, Mcp!Told
<1>2. StopTold'
  BY <1>0 DEF StopTold, Mcp!PhysicalCalls, Mcp!Physical, Mcp!Cached, Mcp!Told
<1>3. Counted'
  BY <1>0 DEF Counted, HostAssumption, Mcp!Cached, Mcp!Told
<1>4. Crowded'
  BY <1>0, Fewer DEF Mcp!PhysicalCalls, Mcp!Physical, Mcp!Cached, Mcp!Told
<1>5. ASSUME NEW c \in Calls PROVE CallSound(c)'
  BY <1>0 DEF CallSound, Mcp!Physical, Mcp!Cached, Mcp!Told
<1> QED
  BY <1>1, <1>2, <1>3, <1>4, <1>5 DEF HostInv

LEMMA DiscoverKeeps ==
  ASSUME HostInv, HostAssumption, Mcp!Discover
  PROVE  HostInv'
<1>0. Mcp!TypeOK /\ StopTold /\ Counted /\ Crowded /\ \A c \in Calls : CallSound(c)
  BY DEF HostInv
<1>1. Mcp!TypeOK'
  <2>1. /\ life' \in {"none", "idle", "running", "stopping", "stopped"} /\ asking' = "no"
        /\ UNCHANGED <<closed, enabled, recorded, snap, pins, call, changes, faults>>
    BY <1>0 DEF Mcp!Discover
  <2>2. sequence' \in 0..MaxDiscoveries
    BY <1>0 DEF Mcp!TypeOK, Mcp!Discover, HostAssumption
  <2>3. disc' \in Discoveries
    <3>1. disc' = disc \/ disc' = [at |-> "assert", of |-> 0, waiting |-> TRUE]
      BY DEF Mcp!Discover
    <3>2. [at |-> "assert", of |-> 0, waiting |-> TRUE] \in Discoveries
      BY DEF Discoveries
    <3> QED
      BY <1>0, <3>1, <3>2 DEF Discoveries, Mcp!TypeOK
  <2> QED
    BY <1>0, <2>1, <2>2, <2>3 DEF Discoveries, Mcp!TypeOK
<1>2. StopTold'
  BY <1>0 DEF StopTold, Mcp!PhysicalCalls, Mcp!Physical, Mcp!Discover
<1>3. Counted'
  BY <1>0 DEF Mcp!TypeOK, Counted, HostAssumption, Mcp!Discover
<1>4. Crowded'
  BY <1>0, Fewer DEF Mcp!PhysicalCalls, Mcp!Physical, Mcp!Discover
<1>5. ASSUME NEW c \in Calls PROVE CallSound(c)'
  BY <1>0 DEF CallSound, Mcp!Physical, Mcp!Discover
<1> QED
  BY <1>1, <1>2, <1>3, <1>4, <1>5 DEF HostInv

LEMMA AskRefusedKeeps ==
  ASSUME HostInv, HostAssumption, Mcp!AskRefused
  PROVE  HostInv'
<1>0. Mcp!TypeOK /\ StopTold /\ Counted /\ Crowded /\ \A c \in Calls : CallSound(c)
  BY DEF HostInv
<1>1. Mcp!TypeOK'
  BY <1>0 DEF Mcp!TypeOK, Mcp!Pins, Counted, Mcp!Physical, Mcp!AskRefused
<1>2. StopTold'
  BY <1>0 DEF StopTold, Mcp!PhysicalCalls, Mcp!Physical, Mcp!AskRefused
<1>3. Counted'
  BY <1>0 DEF Counted, HostAssumption, Mcp!AskRefused
<1>4. Crowded'
  BY <1>0, Fewer DEF Mcp!PhysicalCalls, Mcp!Physical, Mcp!AskRefused
<1>5. ASSUME NEW c \in Calls PROVE CallSound(c)'
  BY <1>0 DEF CallSound, Mcp!Physical, Mcp!AskRefused
<1> QED
  BY <1>1, <1>2, <1>3, <1>4, <1>5 DEF HostInv

LEMMA ListKeeps ==
  ASSUME HostInv, HostAssumption, Mcp!List
  PROVE  HostInv'
<1>0. Mcp!TypeOK /\ StopTold /\ Counted /\ Crowded /\ \A c \in Calls : CallSound(c)
  BY DEF HostInv
<1>1. Mcp!TypeOK'
  BY <1>0 DEF Mcp!TypeOK, Mcp!Pins, Counted, Mcp!Physical, Mcp!List
<1>2. StopTold'
  BY <1>0 DEF StopTold, Mcp!PhysicalCalls, Mcp!Physical, Mcp!List
<1>3. Counted'
  BY <1>0 DEF Counted, HostAssumption, Mcp!List
<1>4. Crowded'
  BY <1>0, Fewer DEF Mcp!PhysicalCalls, Mcp!Physical, Mcp!List
<1>5. ASSUME NEW c \in Calls PROVE CallSound(c)'
  BY <1>0 DEF CallSound, Mcp!Physical, Mcp!List
<1> QED
  BY <1>1, <1>2, <1>3, <1>4, <1>5 DEF HostInv

LEMMA ListedKeeps ==
  ASSUME HostInv, HostAssumption, Mcp!Listed
  PROVE  HostInv'
<1>0. Mcp!TypeOK /\ StopTold /\ Counted /\ Crowded /\ \A c \in Calls : CallSound(c)
  BY DEF HostInv
<1>1. Mcp!TypeOK'
  BY <1>0 DEF Mcp!TypeOK, Mcp!Pins, Counted, Mcp!Physical, Mcp!Listed
<1>2. StopTold'
  BY <1>0 DEF StopTold, Mcp!PhysicalCalls, Mcp!Physical, Mcp!Listed
<1>3. Counted'
  BY <1>0 DEF Counted, HostAssumption, Mcp!Listed
<1>4. Crowded'
  BY <1>0, Fewer DEF Mcp!PhysicalCalls, Mcp!Physical, Mcp!Listed
<1>5. ASSUME NEW c \in Calls PROVE CallSound(c)'
  BY <1>0 DEF CallSound, Mcp!Physical, Mcp!Listed
<1> QED
  BY <1>1, <1>2, <1>3, <1>4, <1>5 DEF HostInv

LEMMA DiscoveryEndsKeeps ==
  ASSUME HostInv, HostAssumption, Mcp!DiscoveryEnds
  PROVE  HostInv'
<1>0. Mcp!TypeOK /\ StopTold /\ Counted /\ Crowded /\ \A c \in Calls : CallSound(c)
  BY DEF HostInv
<1>1. Mcp!TypeOK'
  <2>1. /\ snap.gen + 1 \in 0..MaxDiscoveries
        /\ disc.of \in Versions \cup {0} /\ recorded \in Versions \cup {0}
    BY <1>0 DEF Mcp!TypeOK, Mcp!DiscoveryEnds, Counted, HostAssumption
  <2>2. snap' \in [gen : 0..MaxDiscoveries, of : Versions \cup {0}, fresh : BOOLEAN]
    <3>1. snap' = snap \/ snap' = [gen |-> snap.gen + 1, of |-> disc.of, fresh |-> TRUE]
      BY DEF Mcp!DiscoveryEnds
    <3>2. [gen |-> snap.gen + 1, of |-> disc.of, fresh |-> TRUE]
            \in [gen : 0..MaxDiscoveries, of : Versions \cup {0}, fresh : BOOLEAN]
      BY <2>1
    <3> QED
      BY <1>0, <3>1, <3>2 DEF Mcp!TypeOK
  <2>3. pins' \subseteq Mcp!Pins
    BY <1>0, <2>1 DEF Mcp!TypeOK, Mcp!DiscoveryEnds, Mcp!Told, Mcp!Pins
  <2>4. disc' \in Discoveries
    BY DEF Discoveries, Mcp!DiscoveryEnds, Mcp!NoDiscovery
  <2> QED
    BY <1>0, <2>2, <2>3, <2>4 DEF Discoveries, Mcp!TypeOK, Mcp!DiscoveryEnds
<1>2. StopTold'
  BY <1>0 DEF StopTold, Mcp!PhysicalCalls, Mcp!Physical, Mcp!DiscoveryEnds, Mcp!Accepts,
     Mcp!Told, Mcp!NoDiscovery
<1>3. Counted'
  BY <1>0 DEF Mcp!TypeOK, Counted, HostAssumption, Mcp!DiscoveryEnds, Mcp!Accepts, Mcp!Told,
     Mcp!NoDiscovery
<1>4. Crowded'
  BY <1>0, Fewer DEF Mcp!PhysicalCalls, Mcp!Physical, Mcp!DiscoveryEnds, Mcp!Accepts,
     Mcp!Told, Mcp!NoDiscovery
<1>5. ASSUME NEW c \in Calls PROVE CallSound(c)'
  BY <1>0 DEF CallSound, Mcp!Physical, Mcp!DiscoveryEnds, Mcp!Accepts, Mcp!Told, Mcp!NoDiscovery
<1> QED
  BY <1>1, <1>2, <1>3, <1>4, <1>5 DEF HostInv

LEMMA DiscoveryFailsKeeps ==
  ASSUME HostInv, HostAssumption, Mcp!DiscoveryFails
  PROVE  HostInv'
<1>0. Mcp!TypeOK /\ StopTold /\ Counted /\ Crowded /\ \A c \in Calls : CallSound(c)
  BY DEF HostInv
<1>1. Mcp!TypeOK'
  BY <1>0 DEF Mcp!TypeOK, HostAssumption, Mcp!Pins, Counted, Mcp!Physical, Mcp!DiscoveryFails,
     Mcp!Fault, Mcp!NoDiscovery
<1>2. StopTold'
  BY <1>0 DEF StopTold, Mcp!PhysicalCalls, Mcp!Physical, Mcp!DiscoveryFails, Mcp!Fault,
     Mcp!NoDiscovery
<1>3. Counted'
  BY <1>0 DEF Mcp!TypeOK, Counted, HostAssumption, Mcp!DiscoveryFails, Mcp!Fault,
     Mcp!NoDiscovery
<1>4. Crowded'
  BY <1>0, Fewer DEF Mcp!PhysicalCalls, Mcp!Physical, Mcp!DiscoveryFails, Mcp!Fault,
     Mcp!NoDiscovery
<1>5. ASSUME NEW c \in Calls PROVE CallSound(c)'
  BY <1>0 DEF CallSound, Mcp!Physical, Mcp!DiscoveryFails, Mcp!Fault, Mcp!NoDiscovery
<1> QED
  BY <1>1, <1>2, <1>3, <1>4, <1>5 DEF HostInv

LEMMA DiscoveryTimesOutKeeps ==
  ASSUME HostInv, HostAssumption, Mcp!DiscoveryTimesOut
  PROVE  HostInv'
<1>0. Mcp!TypeOK /\ StopTold /\ Counted /\ Crowded /\ \A c \in Calls : CallSound(c)
  BY DEF HostInv
<1>1. Mcp!TypeOK'
  BY <1>0 DEF Mcp!TypeOK, Mcp!Pins, Counted, Mcp!Physical, Mcp!DiscoveryTimesOut
<1>2. StopTold'
  BY <1>0 DEF StopTold, Mcp!PhysicalCalls, Mcp!Physical, Mcp!DiscoveryTimesOut
<1>3. Counted'
  BY <1>0 DEF Counted, HostAssumption, Mcp!DiscoveryTimesOut
<1>4. Crowded'
  BY <1>0, Fewer DEF Mcp!PhysicalCalls, Mcp!Physical, Mcp!DiscoveryTimesOut
<1>5. ASSUME NEW c \in Calls PROVE CallSound(c)'
  BY <1>0 DEF CallSound, Mcp!Physical, Mcp!DiscoveryTimesOut
<1> QED
  BY <1>1, <1>2, <1>3, <1>4, <1>5 DEF HostInv

LEMMA ExpireKeeps ==
  ASSUME HostInv, HostAssumption, Mcp!Expire
  PROVE  HostInv'
<1>0. Mcp!TypeOK /\ StopTold /\ Counted /\ Crowded /\ \A c \in Calls : CallSound(c)
  BY DEF HostInv
<1>1. Mcp!TypeOK'
  BY <1>0 DEF Mcp!TypeOK, Mcp!Pins, Counted, Mcp!Physical, Mcp!Expire
<1>2. StopTold'
  BY <1>0 DEF StopTold, Mcp!PhysicalCalls, Mcp!Physical, Mcp!Expire
<1>3. Counted'
  BY <1>0 DEF Counted, HostAssumption, Mcp!Expire
<1>4. Crowded'
  BY <1>0, Fewer DEF Mcp!PhysicalCalls, Mcp!Physical, Mcp!Expire
<1>5. ASSUME NEW c \in Calls PROVE CallSound(c)'
  BY <1>0 DEF CallSound, Mcp!Physical, Mcp!Expire
<1> QED
  BY <1>1, <1>2, <1>3, <1>4, <1>5 DEF HostInv

LEMMA ChangeKeeps ==
  ASSUME HostInv, HostAssumption, Mcp!Change
  PROVE  HostInv'
<1>0. Mcp!TypeOK /\ StopTold /\ Counted /\ Crowded /\ \A c \in Calls : CallSound(c)
  BY DEF HostInv
<1>1. Mcp!TypeOK'
  BY <1>0 DEF Mcp!TypeOK, HostAssumption, Mcp!Pins, Counted, Mcp!Physical, Mcp!Change
<1>2. StopTold'
  BY <1>0 DEF StopTold, Mcp!PhysicalCalls, Mcp!Physical, Mcp!Change
<1>3. Counted'
  BY <1>0 DEF Counted, HostAssumption, Mcp!Change
<1>4. Crowded'
  BY <1>0, Fewer DEF Mcp!PhysicalCalls, Mcp!Physical, Mcp!Change
<1>5. ASSUME NEW c \in Calls PROVE CallSound(c)'
  BY <1>0 DEF CallSound, Mcp!Physical, Mcp!Change
<1> QED
  BY <1>1, <1>2, <1>3, <1>4, <1>5 DEF HostInv

LEMMA CloseKeeps ==
  ASSUME HostInv, HostAssumption, Mcp!Close
  PROVE  HostInv'
<1>0. Mcp!TypeOK /\ StopTold /\ Counted /\ Crowded /\ \A c \in Calls : CallSound(c)
  BY DEF HostInv
<1>1. Mcp!TypeOK'
  <2>1. call \in [Calls -> CallRows] /\ pins \subseteq Mcp!Pins /\ snap.of \in Versions \cup {0}
    BY <1>0 DEF Mcp!TypeOK, CallRows
  <2>2. call' \in [Calls -> CallRows]
    BY <2>1, UncertainIs DEF Mcp!Close
  <2> QED
    BY <1>0, <2>2 DEF Mcp!TypeOK, CallRows, Mcp!Close
<1>2. StopTold'
  BY <1>0 DEF Mcp!TypeOK, StopTold, Mcp!PhysicalCalls, Mcp!Physical, Mcp!Close, Mcp!Uncertain
<1>3. Counted'
  BY <1>0 DEF Counted, HostAssumption, Mcp!Close, Mcp!Uncertain
<1>4. Crowded'
  BY <1>0, Fewer DEF Mcp!PhysicalCalls, Mcp!Physical, Mcp!Close, Mcp!Uncertain
<1>5. ASSUME NEW c \in Calls PROVE CallSound(c)'
  BY <1>0 DEF Mcp!TypeOK, CallSound, Mcp!Physical, Mcp!Close, Mcp!Uncertain
<1> QED
  BY <1>1, <1>2, <1>3, <1>4, <1>5 DEF HostInv

LEMMA StopKeeps ==
  ASSUME HostInv, HostAssumption, Mcp!Stop
  PROVE  HostInv'
<1>0. Mcp!TypeOK /\ StopTold /\ Counted /\ Crowded /\ \A c \in Calls : CallSound(c)
  BY DEF HostInv
<1>1. Mcp!TypeOK'
  BY <1>0 DEF Mcp!TypeOK, Mcp!Pins, Counted, Mcp!Physical, Mcp!Stop
<1>2. StopTold'
  BY <1>0 DEF StopTold, Mcp!PhysicalCalls, Mcp!Physical, Mcp!Stop
<1>3. Counted'
  BY <1>0 DEF Counted, HostAssumption, Mcp!Stop
<1>4. Crowded'
  BY <1>0, Fewer DEF Mcp!PhysicalCalls, Mcp!Physical, Mcp!Stop
<1>5. ASSUME NEW c \in Calls PROVE CallSound(c)'
  BY <1>0 DEF CallSound, Mcp!Physical, Mcp!Stop
<1> QED
  BY <1>1, <1>2, <1>3, <1>4, <1>5 DEF HostInv

LEMMA InvokeKeeps ==
  ASSUME HostInv, HostAssumption, NEW d \in Calls, Mcp!Invoke(d)
  PROVE  HostInv'
<1>0. Mcp!TypeOK /\ StopTold /\ Counted /\ Crowded /\ \A c \in Calls : CallSound(c)
  BY DEF HostInv
<1>1. Mcp!TypeOK'
  <2>1. call \in [Calls -> CallRows] /\ pins \subseteq Mcp!Pins /\ snap.of \in Versions \cup {0}
    BY <1>0 DEF Mcp!TypeOK, CallRows
  <2>2. call' \in [Calls -> CallRows]
    <3>1. PICK p \in pins : call' = [call EXCEPT ![d] = [call[d] EXCEPT !.at = "assert", !.pin = p]]
      BY DEF Mcp!Invoke
    <3>2. [call[d] EXCEPT !.at = "assert", !.pin = p] \in CallRows
      BY <2>1 DEF CallRows
    <3> QED
      BY <2>1, <3>1, <3>2
  <2> QED
    BY <1>0, <2>2 DEF Mcp!TypeOK, CallRows, Mcp!Invoke
<1>2. StopTold'
  BY <1>0 DEF Mcp!TypeOK, StopTold, Mcp!PhysicalCalls, Mcp!Physical, Mcp!Invoke
<1>3. Counted'
  BY <1>0 DEF Counted, HostAssumption, Mcp!Invoke
<1>4. Crowded'
  BY <1>0, Fewer DEF Mcp!TypeOK, Mcp!PhysicalCalls, Mcp!Physical, Mcp!Invoke
<1>5. ASSUME NEW c \in Calls PROVE CallSound(c)'
  BY <1>0 DEF Mcp!TypeOK, CallSound, Mcp!Physical, Mcp!Invoke
<1> QED
  BY <1>1, <1>2, <1>3, <1>4, <1>5 DEF HostInv

LEMMA CallAdmitKeeps ==
  ASSUME HostInv, HostAssumption, NEW d \in Calls, Mcp!Admit(d)
  PROVE  HostInv'
<1>0. Mcp!TypeOK /\ StopTold /\ Counted /\ Crowded /\ \A c \in Calls : CallSound(c)
  BY DEF HostInv
<1>1. Mcp!TypeOK'
  <2>1. call \in [Calls -> CallRows] /\ pins \subseteq Mcp!Pins /\ snap.of \in Versions \cup {0}
    BY <1>0 DEF Mcp!TypeOK, CallRows
  <2>2. call' \in [Calls -> CallRows]
    <3>1. /\ [call[d] EXCEPT !.at = "dispatch", !.of = snap.of] \in CallRows
          /\ [call[d] EXCEPT !.at = "done", !.told = "refused"] \in CallRows
      BY <2>1 DEF CallRows
    <3>2. \/ call' = [call EXCEPT ![d] = [call[d] EXCEPT !.at = "dispatch", !.of = snap.of]]
          \/ call' = [call EXCEPT ![d] = [call[d] EXCEPT !.at = "done", !.told = "refused"]]
      BY DEF Mcp!Admit
    <3> QED
      BY <2>1, <3>1, <3>2
  <2> QED
    BY <1>0, <2>2 DEF Mcp!TypeOK, CallRows, Mcp!Admit
<1>2. StopTold'
  BY <1>0 DEF Mcp!TypeOK, StopTold, Mcp!PhysicalCalls, Mcp!Physical, Mcp!Admit, Mcp!Pinned,
     Mcp!Room
<1>3. Counted'
  BY <1>0 DEF Counted, HostAssumption, Mcp!Admit, Mcp!Pinned, Mcp!Room
<1>4. Crowded'
  <2>1. \/ Mcp!PhysicalCalls' \subseteq Mcp!PhysicalCalls
        \/ Mcp!Room /\ Mcp!PhysicalCalls' = Mcp!PhysicalCalls \cup {d} /\ d \notin Mcp!PhysicalCalls
    BY <1>0 DEF Mcp!TypeOK, Mcp!PhysicalCalls, Mcp!Physical, Mcp!Admit
  <2>2. CASE Mcp!Room /\ Mcp!PhysicalCalls' = Mcp!PhysicalCalls \cup {d} /\ d \notin Mcp!PhysicalCalls
    <3>1. IsFiniteSet(Mcp!PhysicalCalls)
      BY FS_Subset DEF HostAssumption, Mcp!PhysicalCalls
    <3>2. /\ Cardinality(Mcp!PhysicalCalls') = Cardinality(Mcp!PhysicalCalls) + 1
          /\ Cardinality(Mcp!PhysicalCalls) \in Nat
      BY <2>2, <3>1, FS_AddElement, FS_CardinalityType
    <3>3. Cardinality(Mcp!PhysicalCalls) < MaxConcurrency /\ MaxConcurrency \in Nat
      BY <2>2, SameCount DEF Mcp!Room, HostAssumption
    <3> QED
      BY <3>2, <3>3 DEF Crowded
  <2> QED
    BY <1>0, <2>1, <2>2, Fewer
<1>5. ASSUME NEW c \in Calls PROVE CallSound(c)'
  BY <1>0 DEF Mcp!TypeOK, CallSound, Mcp!Physical, Mcp!Admit, Mcp!Pinned, Mcp!Room
<1> QED
  BY <1>1, <1>2, <1>3, <1>4, <1>5 DEF HostInv

LEMMA DispatchKeeps ==
  ASSUME HostInv, HostAssumption, NEW d \in Calls, Mcp!Dispatch(d)
  PROVE  HostInv'
<1>0. Mcp!TypeOK /\ StopTold /\ Counted /\ Crowded /\ \A c \in Calls : CallSound(c)
  BY DEF HostInv
<1>1. Mcp!TypeOK'
  <2>1. call \in [Calls -> CallRows] /\ pins \subseteq Mcp!Pins /\ snap.of \in Versions \cup {0}
    BY <1>0 DEF Mcp!TypeOK, CallRows
  <2>2. call' \in [Calls -> CallRows]
    <3>1. [call[d] EXCEPT !.at = "launch"] \in CallRows
      BY <2>1 DEF CallRows
    <3>2. \/ call' = [call EXCEPT ![d] = [call[d] EXCEPT !.at = "launch"]]
          \/ call' = Mcp!Reply(d, "error", "none")
      BY DEF Mcp!Dispatch
    <3> QED
      BY <2>1, <3>1, <3>2, ReplyIs
  <2> QED
    BY <1>0, <2>2 DEF Mcp!TypeOK, CallRows, Mcp!Dispatch
<1>2. StopTold'
  BY <1>0 DEF Mcp!TypeOK, StopTold, Mcp!PhysicalCalls, Mcp!Physical, Mcp!Dispatch, Mcp!Reply
<1>3. Counted'
  BY <1>0 DEF Counted, HostAssumption, Mcp!Dispatch, Mcp!Reply
<1>4. Crowded'
  BY <1>0, Fewer DEF Mcp!TypeOK, Mcp!PhysicalCalls, Mcp!Physical, Mcp!Dispatch, Mcp!Reply
<1>5. ASSUME NEW c \in Calls PROVE CallSound(c)'
  BY <1>0 DEF Mcp!TypeOK, CallSound, Mcp!Physical, Mcp!Dispatch, Mcp!Reply
<1> QED
  BY <1>1, <1>2, <1>3, <1>4, <1>5 DEF HostInv

LEMMA LaunchKeeps ==
  ASSUME HostInv, HostAssumption, NEW d \in Calls, Mcp!Launch(d)
  PROVE  HostInv'
<1>0. Mcp!TypeOK /\ StopTold /\ Counted /\ Crowded /\ \A c \in Calls : CallSound(c)
  BY DEF HostInv
<1>1. Mcp!TypeOK'
  <2>1. call \in [Calls -> CallRows] /\ pins \subseteq Mcp!Pins /\ snap.of \in Versions \cup {0}
    BY <1>0 DEF Mcp!TypeOK, CallRows
  <2> DEFINE new == [call[d] EXCEPT !.at = "tool", !.tool = "running"]
  <2>3. new \in CallRows
    BY <2>1 DEF CallRows
  <2>4. call' = [call EXCEPT ![d] = new]
    BY DEF Mcp!Launch
  <2>2. call' \in [Calls -> CallRows]
    BY <2>1, <2>3, <2>4
  <2> QED
    BY <1>0, <2>2 DEF Mcp!TypeOK, CallRows, Mcp!Launch
<1>2. StopTold'
  BY <1>0 DEF StopTold, Mcp!PhysicalCalls, Mcp!Physical, Mcp!Launch
<1>3. Counted'
  BY <1>0 DEF Counted, HostAssumption, Mcp!Launch
<1>4. Crowded'
  BY <1>0, Fewer DEF Mcp!TypeOK, Mcp!PhysicalCalls, Mcp!Physical, Mcp!Launch
<1>5. ASSUME NEW c \in Calls PROVE CallSound(c)'
  BY <1>0 DEF Mcp!TypeOK, CallSound, Mcp!Physical, Mcp!Launch
<1> QED
  BY <1>1, <1>2, <1>3, <1>4, <1>5 DEF HostInv

LEMMA LaunchFailsKeeps ==
  ASSUME HostInv, HostAssumption, NEW d \in Calls, Mcp!LaunchFails(d)
  PROVE  HostInv'
<1>0. Mcp!TypeOK /\ StopTold /\ Counted /\ Crowded /\ \A c \in Calls : CallSound(c)
  BY DEF HostInv
<1>1. Mcp!TypeOK'
  <2>1. call \in [Calls -> CallRows] /\ pins \subseteq Mcp!Pins /\ snap.of \in Versions \cup {0}
    BY <1>0 DEF Mcp!TypeOK, CallRows
  <2>2. call' \in [Calls -> CallRows]
    BY <2>1, ReplyIs DEF Mcp!LaunchFails
  <2> QED
    BY <1>0, <2>2 DEF Mcp!TypeOK, CallRows, Mcp!LaunchFails, Mcp!Fault, HostAssumption
<1>2. StopTold'
  BY <1>0 DEF Mcp!TypeOK, StopTold, Mcp!PhysicalCalls, Mcp!Physical, Mcp!LaunchFails,
     Mcp!Reply, Mcp!Fault
<1>3. Counted'
  BY <1>0 DEF Counted, HostAssumption, Mcp!LaunchFails, Mcp!Reply, Mcp!Fault
<1>4. Crowded'
  BY <1>0, Fewer DEF Mcp!TypeOK, Mcp!PhysicalCalls, Mcp!Physical, Mcp!LaunchFails, Mcp!Reply,
     Mcp!Fault
<1>5. ASSUME NEW c \in Calls PROVE CallSound(c)'
  BY <1>0 DEF Mcp!TypeOK, CallSound, Mcp!Physical, Mcp!LaunchFails, Mcp!Reply, Mcp!Fault
<1> QED
  BY <1>1, <1>2, <1>3, <1>4, <1>5 DEF HostInv

LEMMA AuditedKeeps ==
  ASSUME HostInv, HostAssumption, NEW d \in Calls, Mcp!Audited(d)
  PROVE  HostInv'
<1>0. Mcp!TypeOK /\ StopTold /\ Counted /\ Crowded /\ \A c \in Calls : CallSound(c)
  BY DEF HostInv
<1>1. Mcp!TypeOK'
  <2>1. call \in [Calls -> CallRows] /\ pins \subseteq Mcp!Pins /\ snap.of \in Versions \cup {0}
    BY <1>0 DEF Mcp!TypeOK, CallRows
  <2>2. call' \in [Calls -> CallRows]
    BY <1>0, <2>1, ReplyIs DEF Mcp!Audited, CallSound
  <2> QED
    BY <1>0, <2>2 DEF Mcp!TypeOK, CallRows, Mcp!Audited
<1>2. StopTold'
  BY <1>0 DEF Mcp!TypeOK, StopTold, Mcp!PhysicalCalls, Mcp!Physical, Mcp!Audited, Mcp!Reply
<1>3. Counted'
  BY <1>0 DEF Counted, HostAssumption, Mcp!Audited, Mcp!Reply
<1>4. Crowded'
  BY <1>0, Fewer DEF Mcp!TypeOK, Mcp!PhysicalCalls, Mcp!Physical, Mcp!Audited, Mcp!Reply
<1>5. ASSUME NEW c \in Calls PROVE CallSound(c)'
  BY <1>0 DEF Mcp!TypeOK, CallSound, Mcp!Physical, Mcp!Audited, Mcp!Reply
<1> QED
  BY <1>1, <1>2, <1>3, <1>4, <1>5 DEF HostInv

LEMMA AuditFailsKeeps ==
  ASSUME HostInv, HostAssumption, NEW d \in Calls, Mcp!AuditFails(d)
  PROVE  HostInv'
<1>0. Mcp!TypeOK /\ StopTold /\ Counted /\ Crowded /\ \A c \in Calls : CallSound(c)
  BY DEF HostInv
<1>1. Mcp!TypeOK'
  <2>1. call \in [Calls -> CallRows] /\ pins \subseteq Mcp!Pins /\ snap.of \in Versions \cup {0}
    BY <1>0 DEF Mcp!TypeOK, CallRows
  <2>2. call' \in [Calls -> CallRows]
    BY <1>0, <2>1, ReplyIs DEF Mcp!AuditFails, Mcp!Unaudited, CallSound
  <2> QED
    BY <1>0, <2>2 DEF Mcp!TypeOK, CallRows, Mcp!AuditFails, Mcp!Fault, HostAssumption
<1>2. StopTold'
  BY <1>0 DEF Mcp!TypeOK, StopTold, Mcp!PhysicalCalls, Mcp!Physical, Mcp!AuditFails,
     Mcp!Reply, Mcp!Fault, Mcp!Unaudited
<1>3. Counted'
  BY <1>0 DEF Counted, HostAssumption, Mcp!AuditFails, Mcp!Reply, Mcp!Fault, Mcp!Unaudited
<1>4. Crowded'
  BY <1>0, Fewer DEF Mcp!TypeOK, Mcp!PhysicalCalls, Mcp!Physical, Mcp!AuditFails, Mcp!Reply,
     Mcp!Fault, Mcp!Unaudited
<1>5. ASSUME NEW c \in Calls PROVE CallSound(c)'
  BY <1>0 DEF Mcp!TypeOK, CallSound, Mcp!Physical, Mcp!AuditFails, Mcp!Reply, Mcp!Fault,
     Mcp!Unaudited
<1> QED
  BY <1>1, <1>2, <1>3, <1>4, <1>5 DEF HostInv

LEMMA GiveUpKeeps ==
  ASSUME HostInv, HostAssumption, NEW d \in Calls, Mcp!GiveUp(d)
  PROVE  HostInv'
<1>0. Mcp!TypeOK /\ StopTold /\ Counted /\ Crowded /\ \A c \in Calls : CallSound(c)
  BY DEF HostInv
<1>1. Mcp!TypeOK'
  <2>1. call \in [Calls -> CallRows] /\ pins \subseteq Mcp!Pins /\ snap.of \in Versions \cup {0}
    BY <1>0 DEF Mcp!TypeOK, CallRows
  <2>2. call' \in [Calls -> CallRows]
    BY <2>1, UncertainIs DEF Mcp!GiveUp
  <2> QED
    BY <1>0, <2>2 DEF Mcp!TypeOK, CallRows, Mcp!GiveUp
<1>2. StopTold'
  BY <1>0 DEF Mcp!TypeOK, StopTold, Mcp!PhysicalCalls, Mcp!Physical, Mcp!GiveUp, Mcp!Uncertain
<1>3. Counted'
  BY <1>0 DEF Counted, HostAssumption, Mcp!GiveUp, Mcp!Uncertain
<1>4. Crowded'
  BY <1>0, Fewer DEF Mcp!PhysicalCalls, Mcp!Physical, Mcp!GiveUp, Mcp!Uncertain
<1>5. ASSUME NEW c \in Calls PROVE CallSound(c)'
  <2>1. CASE c = d
    <3>1. call'[c] = [call[c] EXCEPT !.aborted = TRUE, !.told = "needs-review"]
      BY <1>0, <2>1 DEF Mcp!GiveUp, Mcp!Uncertain
    <3>2. /\ call'[c].at = call[c].at /\ call'[c].tool = call[c].tool
          /\ call'[c].told = "needs-review"
      BY <1>0, <3>1
    <3> QED
      BY <1>0, <2>1, <3>2 DEF CallSound, Mcp!Physical, Mcp!GiveUp
  <2>2. CASE c # d
    <3>1. call'[c] = call[c]
      BY <2>2 DEF Mcp!GiveUp, Mcp!Uncertain
    <3> QED
      BY <1>0, <3>1 DEF CallSound, Mcp!Physical
  <2> QED
    BY <2>1, <2>2
<1> QED
  BY <1>1, <1>2, <1>3, <1>4, <1>5 DEF HostInv

LEMMA ToolEndsKeeps ==
  ASSUME HostInv, HostAssumption, NEW d \in Calls, NEW how \in {"ok", "bad", "unknown"},
         Mcp!ToolEnds(d, how)
  PROVE  HostInv'
<1>0. Mcp!TypeOK /\ StopTold /\ Counted /\ Crowded /\ \A c \in Calls : CallSound(c)
  BY DEF HostInv
<1>1. Mcp!TypeOK'
  <2>1. call \in [Calls -> CallRows] /\ pins \subseteq Mcp!Pins /\ snap.of \in Versions \cup {0}
    BY <1>0 DEF Mcp!TypeOK, CallRows
  <2>2. call' \in [Calls -> CallRows]
    <3>1. [call[d] EXCEPT !.at = "audit", !.tool = how] \in CallRows
      BY <2>1 DEF CallRows
    <3>2. \/ call' = [call EXCEPT ![d] = [call[d] EXCEPT !.at = "audit", !.tool = how]]
          \/ call' = Mcp!Reply(d, "needs-review", how)
      BY DEF Mcp!ToolEnds
    <3> QED
      BY <2>1, <3>1, <3>2, ReplyIs
  <2> QED
    BY <1>0, <2>2 DEF Mcp!TypeOK, CallRows, Mcp!ToolEnds
<1>2. StopTold'
  BY <1>0 DEF Mcp!TypeOK, StopTold, Mcp!PhysicalCalls, Mcp!Physical, Mcp!ToolEnds, Mcp!Reply
<1>3. Counted'
  BY <1>0 DEF Counted, HostAssumption, Mcp!ToolEnds, Mcp!Reply
<1>4. Crowded'
  BY <1>0, Fewer DEF Mcp!TypeOK, Mcp!PhysicalCalls, Mcp!Physical, Mcp!ToolEnds, Mcp!Reply
<1>5. ASSUME NEW c \in Calls PROVE CallSound(c)'
  BY <1>0 DEF Mcp!TypeOK, CallSound, Mcp!Physical, Mcp!ToolEnds, Mcp!Reply
<1> QED
  BY <1>1, <1>2, <1>3, <1>4, <1>5 DEF HostInv

LEMMA HostInit == ASSUME HostAssumption PROVE Mcp!Init => HostInv
<1> SUFFICES ASSUME Mcp!Init PROVE HostInv
  OBVIOUS
<1> DEFINE fresh == [at |-> "out", pin |-> [gen |-> 0, ext |-> 0], of |-> 0,
                     told |-> "none", aborted |-> FALSE, tool |-> "none"]
<1>1. call \in [Calls -> CallRows]
  <2>1. fresh \in CallRows
    BY DEF CallRows, Mcp!Pins, HostAssumption
  <2> QED
    BY <2>1 DEF Mcp!Init
<1>2. /\ snap \in [gen : 0..MaxDiscoveries, of : Versions \cup {0}, fresh : BOOLEAN]
      /\ disc \in Discoveries
  BY DEF Discoveries, Mcp!Init, Mcp!NoDiscovery, HostAssumption
<1>3. Mcp!TypeOK
  <2>1. /\ closed = FALSE /\ life = "none" /\ enabled = 1 /\ recorded = 0 /\ asking = "no" /\ pins = {}
        /\ sequence = 0 /\ changes = 0 /\ faults = 0
    BY DEF Mcp!Init
  <2>2. {enabled, recorded} \subseteq Versions \cup {0} /\ pins \subseteq Mcp!Pins
    BY <2>1 DEF HostAssumption
  <2>3. sequence \in 0..MaxDiscoveries /\ changes \in 0..MaxChanges /\ faults \in 0..HostFaults
    BY <2>1 DEF HostAssumption
  <2> QED
    BY <1>1, <1>2, <2>1, <2>2, <2>3 DEF Discoveries, Mcp!TypeOK, CallRows
<1>4. Mcp!PhysicalCalls = {}
  BY DEF Mcp!Init, Mcp!PhysicalCalls, Mcp!Physical
<1>5. StopTold /\ Counted
  BY <1>4 DEF Mcp!Init, StopTold, Counted, Mcp!NoDiscovery
<1>6. Crowded
  BY <1>4, FS_EmptySet DEF Crowded, HostAssumption
<1>7. \A c \in Calls : CallSound(c)
  BY DEF Mcp!Init, CallSound, Mcp!Physical
<1> QED
  BY <1>3, <1>5, <1>6, <1>7 DEF HostInv

LEMMA HostStep == ASSUME HostAssumption PROVE HostInv /\ [Mcp!Next]_Mcp!vars => HostInv'
<1> SUFFICES ASSUME HostInv, [Mcp!Next]_Mcp!vars PROVE HostInv'
  OBVIOUS
<1>1. CASE UNCHANGED Mcp!vars
  BY <1>1 DEF Mcp!vars, HostInv, Mcp!TypeOK, StopTold, Counted, Crowded, CallSound,
     Mcp!PhysicalCalls, Mcp!Physical
<1>2. CASE Mcp!DiscoveryNext
  BY <1>2, AskKeeps, CachedKeeps, DiscoverKeeps, AskRefusedKeeps, ListKeeps, ListedKeeps,
     DiscoveryEndsKeeps, DiscoveryFailsKeeps, DiscoveryTimesOutKeeps, ExpireKeeps
     DEF Mcp!DiscoveryNext
<1>3. CASE Mcp!Change \/ Mcp!Close \/ Mcp!Stop
  BY <1>3, ChangeKeeps, CloseKeeps, StopKeeps
<1>4. ASSUME NEW d \in Calls, Mcp!CallNext(d) PROVE HostInv'
  BY <1>4, InvokeKeeps, CallAdmitKeeps, DispatchKeeps, LaunchKeeps, LaunchFailsKeeps,
     AuditedKeeps, AuditFailsKeeps, GiveUpKeeps, ToolEndsKeeps DEF Mcp!CallNext
<1> QED
  BY <1>1, <1>2, <1>3, <1>4 DEF Mcp!Next

(* The host, its discoveries, calls and pins keep the shapes the code knows. *)
THEOREM HostTypesHold == ASSUME HostAssumption PROVE Mcp!Spec => []Mcp!TypeOK
<1>1. HostInv => Mcp!TypeOK
  BY DEF HostInv
<1> QED
  BY <1>1, HostInit, HostStep, PTL DEF Mcp!Spec

LEMMA TruthFollows == ASSUME HostAssumption, HostInv PROVE Mcp!McpTruth
<1> DEFINE running == {c \in Calls : call[c].tool = "running"}
<1>1. running \subseteq Mcp!PhysicalCalls /\ IsFiniteSet(Mcp!PhysicalCalls)
  BY FS_Subset DEF HostInv, CallSound, Mcp!PhysicalCalls, Mcp!Physical, HostAssumption
<1>2. Cardinality(running) <= Cardinality(Mcp!PhysicalCalls)
      /\ Cardinality(running) \in Nat /\ Cardinality(Mcp!PhysicalCalls) \in Nat
  BY <1>1, FS_Subset, FS_CardinalityType
<1>3. Cardinality(running) <= MaxConcurrency
  BY <1>2 DEF HostInv, Crowded, HostAssumption
<1>4. \A c \in Calls : call[c].told \in {"failed", "error", "refused"} => call[c].at = "done"
  BY DEF HostInv, CallSound, Mcp!TypeOK, Mcp!Physical
<1> QED
  BY <1>3, <1>4, SameCount DEF HostInv, CallSound, Mcp!McpTruth

(* What a client is told of a call is what its tool did, no more tools run   *)
(* than the host allows, and a call is over before its failure is told.      *)
THEOREM McpTruthHolds == ASSUME HostAssumption PROVE Mcp!Spec => []Mcp!McpTruth
<1>1. HostInv => Mcp!McpTruth
  BY TruthFollows
<1> QED
  BY <1>1, HostInit, HostStep, PTL DEF Mcp!Spec

LEMMA StopStep == ASSUME HostInv, [Mcp!Next]_Mcp!vars PROVE [Mcp!StopStrict]_Mcp!vars
<1> SUFFICES ASSUME Mcp!Next, life \in {"stopping", "stopped"} PROVE Mcp!StopStrict
  BY DEF Mcp!StopStrict
<1>1. Mcp!TypeOK /\ StopTold /\ \A c \in Calls : CallSound(c)
  BY DEF HostInv
<1>2. snap'.gen = snap.gen
  BY <1>1 DEF Mcp!Next, Mcp!DiscoveryNext, Mcp!CallNext, Mcp!Ask, Mcp!Cached, Mcp!Discover,
     Mcp!AskRefused, Mcp!List, Mcp!Listed, Mcp!DiscoveryEnds, Mcp!Accepts,
     Mcp!DiscoveryFails, Mcp!DiscoveryTimesOut, Mcp!Expire, Mcp!Change, Mcp!Close, Mcp!Stop,
     Mcp!Invoke, Mcp!Admit, Mcp!Dispatch, Mcp!Launch, Mcp!LaunchFails, Mcp!Audited,
     Mcp!AuditFails, Mcp!GiveUp, Mcp!ToolEnds, Mcp!TypeOK
<1>3. ASSUME NEW c \in Calls, call'[c].tool = "running" PROVE call[c].tool = "running"
  <2>1. CASE Mcp!DiscoveryNext \/ Mcp!Change \/ Mcp!Stop
    BY <1>3, <2>1 DEF Mcp!DiscoveryNext, Mcp!Ask, Mcp!Cached, Mcp!Discover, Mcp!AskRefused,
       Mcp!List, Mcp!Listed, Mcp!DiscoveryEnds, Mcp!DiscoveryFails, Mcp!DiscoveryTimesOut,
       Mcp!Expire, Mcp!Change, Mcp!Stop
  <2>2. CASE Mcp!Close
    <3>1. call[c] \in CallRows
      BY <1>1 DEF Mcp!TypeOK, CallRows
    <3>2. \/ call'[c] = call[c]
          \/ call'[c] = [call[c] EXCEPT !.aborted = TRUE,
                                        !.told = IF @ = "none" THEN "needs-review" ELSE @]
      BY <2>2 DEF Mcp!Close, Mcp!Uncertain
    <3>3. call'[c].tool = call[c].tool
      BY <3>1, <3>2 DEF CallRows
    <3> QED
      BY <1>3, <3>3
  <2>3. ASSUME NEW d \in Calls, Mcp!CallNext(d) PROVE call[c].tool = "running"
    <3>1. ~ Mcp!Launch(d)
      BY <1>1 DEF Mcp!Launch, StopTold, Mcp!PhysicalCalls, Mcp!Physical
    <3>2. CASE Mcp!GiveUp(d)
      BY <1>1, <1>3, <3>2 DEF Mcp!GiveUp, Mcp!Uncertain, Mcp!TypeOK
    <3>3. CASE \/ Mcp!Invoke(d) \/ Mcp!Admit(d) \/ Mcp!Dispatch(d) \/ Mcp!LaunchFails(d)
               \/ Mcp!Audited(d) \/ Mcp!AuditFails(d)
               \/ \E how \in {"ok", "bad", "unknown"} : Mcp!ToolEnds(d, how)
      BY <1>1, <1>3, <3>3 DEF Mcp!Invoke, Mcp!Admit, Mcp!Dispatch, Mcp!LaunchFails,
         Mcp!Audited, Mcp!AuditFails, Mcp!ToolEnds, Mcp!Reply, Mcp!TypeOK, CallSound
    <3> QED
      BY <2>3, <3>1, <3>2, <3>3 DEF Mcp!CallNext
  <2> QED
    BY <2>1, <2>2, <2>3 DEF Mcp!Next
<1> QED
  BY <1>2, <1>3 DEF Mcp!StopStrict

(* A host that stops lists no more tools and starts none, whatever was under *)
(* way when it was stopped or closed (stop, close).                          *)
THEOREM StopHolds == ASSUME HostAssumption PROVE Mcp!Spec => [][Mcp!StopStrict]_Mcp!vars
<1>1. HostInv /\ [Mcp!Next]_Mcp!vars => [Mcp!StopStrict]_Mcp!vars
  BY StopStep
<1> QED
  BY <1>1, HostInit, HostStep, PTL DEF Mcp!Spec

---------------------------------------------------------------------------
(* The parts side by side, as MCServices runs them: each is what its own     *)
(* specification says, while the others wait.                                *)

ServicesAssumption ==
  /\ GraphAssumption /\ HostAssumption
  /\ MaxExecutions \in Nat /\ MaxFaults \in Nat

ServicesInv ==
  /\ part = "graph" => GraphInv
  /\ part = "mcp" => HostInv
  /\ part = "process" => ProcessInv /\ Process!TypeOK
  /\ part = "sandbox" => IInv /\ Standing

LEMMA ServicesInit == ASSUME ServicesAssumption PROVE SumInit => ServicesInv
<1> SUFFICES ASSUME SumInit PROVE ServicesInv
  OBVIOUS
<1>1. CASE part = "graph"
  BY <1>1, GraphInit DEF SumInit, ServicesInv, ServicesAssumption
<1>2. CASE part = "mcp"
  BY <1>2, HostInit DEF SumInit, ServicesInv, ServicesAssumption
<1>3. CASE part = "process"
  <2>1. Process!Init
    BY <1>3 DEF SumInit
  <2>2. Process!TypeOK
    BY <2>1 DEF Process!Init, Process!TypeOK, Process!Cleared, ServicesAssumption
  <2> QED
    BY <1>3, <2>1, <2>2, ProcessInit DEF ServicesInv
<1>4. CASE part = "sandbox"
  BY <1>4, InitInv DEF SumInit, Init, Standing, ServicesInv, ServicesAssumption
<1> QED
  BY <1>1, <1>2, <1>3, <1>4 DEF ServicesInv

(* A step is one of the part, or leaves it alone. *)
LEMMA OnePart ==
  ASSUME [SumNext]_allVars
  PROVE  /\ part' = part
         /\ part = "graph" => [Graph!Next]_Graph!vars
         /\ part = "mcp" => [Mcp!Next]_Mcp!vars
         /\ part = "process" => [Process!Next]_Process!vars
         /\ part = "sandbox" => [Next]_vars
<1>1. CASE UNCHANGED allVars
  BY <1>1 DEF allVars, ofGraph, ofMcp, ofProcess, ofSandbox, Graph!vars, Mcp!vars,
     Process!vars, vars
<1>2. CASE SumNext
  BY <1>2 DEF SumNext, InGraph, InMcp, InProcess, InSandbox
<1> QED
  BY <1>1, <1>2

LEMMA ServicesStep ==
  ASSUME ServicesAssumption PROVE ServicesInv /\ [SumNext]_allVars => ServicesInv'
<1> SUFFICES ASSUME ServicesInv, [SumNext]_allVars PROVE ServicesInv'
  OBVIOUS
<1>1. CASE part = "graph"
  BY <1>1, OnePart, GraphStep DEF ServicesInv, ServicesAssumption
<1>2. CASE part = "mcp"
  BY <1>2, OnePart, HostStep DEF ServicesInv, ServicesAssumption
<1>3. CASE part = "process"
  BY <1>3, OnePart, ProcessNext, ProcessTypes DEF ServicesInv, ServicesAssumption
<1>4. CASE part = "sandbox"
  BY <1>4, OnePart, BoxesStep, StandingStep DEF ServicesInv, ServicesAssumption
<1> QED
  BY <1>1, <1>2, <1>3, <1>4, OnePart DEF ServicesInv

(* Rows, hosts and journals keep the shapes the code knows, in every part. *)
THEOREM ServicesTypesHold == ASSUME ServicesAssumption PROVE SumSpec => []TypesOK
<1>1. ServicesInv => TypesOK
  <2>1. IInv /\ Standing => TypeOK
    BY DEF IInv, Shapes, Standing, TypeOK, Records, Boxes
  <2> QED
    BY <2>1 DEF ServicesInv, TypesOK, GraphInv, HostInv
<1> QED
  BY <1>1, ServicesInit, ServicesStep, PTL DEF SumSpec

(* Row, audit and children of a graph agree, and its last word is one word *)
(* (GraphHonestHolds and LastWordHolds).                                   *)
THEOREM ServicesGraphTruth == ASSUME ServicesAssumption PROVE SumSpec => []GraphTruth
<1>1. ServicesInv => GraphTruth
  BY HonestFollows DEF ServicesInv, GraphTruth, GraphInv, Phased
<1> QED
  BY <1>1, ServicesInit, ServicesStep, PTL DEF SumSpec

(* What a client is told of a call is what its tool did (McpTruthHolds). *)
THEOREM ServicesMcpTruth == ASSUME ServicesAssumption PROVE SumSpec => []McpTruth
<1>1. ServicesInv => McpTruth
  BY TruthFollows DEF ServicesInv, McpTruth, ServicesAssumption
<1> QED
  BY <1>1, ServicesInit, ServicesStep, PTL DEF SumSpec

(* A process that lives is in the journal (NoStrayHolds). *)
THEOREM ServicesNoStray == ASSUME ServicesAssumption PROVE SumSpec => []NoStray
<1>1. ServicesInv => NoStray
  BY DEF ServicesInv, NoStray, ProcessInv
<1> QED
  BY <1>1, ServicesInit, ServicesStep, PTL DEF SumSpec

(* A fenced graph gets no late result (FenceHoldsAlways). *)
THEOREM ServicesGraphFenced == ASSUME ServicesAssumption PROVE SumSpec => GraphFenced
<1>1. ServicesInv /\ [SumNext]_allVars => [part = "graph" => Graph!FenceStrict]_allVars
  <2> SUFFICES ASSUME ServicesInv, SumNext, part = "graph" PROVE Graph!FenceStrict \/ UNCHANGED allVars
    OBVIOUS
  <2>1. [Graph!FenceStrict]_Graph!vars
    BY OnePart, FenceStep DEF ServicesInv
  <2>2. InGraph
    BY DEF SumNext, InMcp, InProcess, InSandbox
  <2> QED
    BY <2>1, <2>2 DEF InGraph, allVars, Graph!vars, ofGraph
<1> QED
  BY <1>1, ServicesInit, ServicesStep, PTL DEF SumSpec, GraphFenced

(* A stopped host takes no late tools, and nothing is spawned beside what is *)
(* left for review (StopHolds and QuarantinedHolds).                         *)
THEOREM ServicesStopsHold == ASSUME ServicesAssumption PROVE SumSpec => StopsHold
<1>1. ServicesInv /\ [SumNext]_allVars =>
        [/\ part = "mcp" => Mcp!StopStrict
         /\ part = "process" => Process!Quarantined]_allVars
  <2> SUFFICES ASSUME ServicesInv, SumNext
               PROVE  \/ /\ part = "mcp" => Mcp!StopStrict
                         /\ part = "process" => Process!Quarantined
                      \/ UNCHANGED allVars
    OBVIOUS
  <2>1. CASE part = "mcp"
    <3>1. [Mcp!StopStrict]_Mcp!vars
      BY <2>1, OnePart, StopStep DEF ServicesInv
    <3>2. InMcp
      BY <2>1 DEF SumNext, InGraph, InProcess, InSandbox
    <3> QED
      BY <2>1, <3>1, <3>2 DEF InMcp, allVars, Mcp!vars, ofMcp
  <2>2. CASE part = "process"
    <3>1. [Process!Quarantined]_Process!vars
      BY <2>2, OnePart, QuarantineStep DEF ServicesInv
    <3>2. InProcess
      BY <2>2 DEF SumNext, InGraph, InMcp, InSandbox
    <3> QED
      BY <2>2, <3>1, <3>2 DEF InProcess, allVars, Process!vars, ofProcess
  <2> QED
    BY <2>1, <2>2
<1> QED
  BY <1>1, ServicesInit, ServicesStep, PTL DEF SumSpec, StopsHold
=============================================================================
