----------------------------- MODULE AgentGraphs -----------------------------
(***************************************************************************)
(* A governed agent graph: a parent task dispatches child agents along a   *)
(* graph of dependencies, in waves, while its rows, the signed audit and   *)
(* the physical children go their own ways.  The parent's job may be       *)
(* cancelled by the supervisor of another process at any moment.           *)
(*                                                                         *)
(* Grain of atomicity.  A transaction on the rows is one step; so is what  *)
(* the runner does between two awaits.  A result is the runner's opinion   *)
(* of a node, its row the durable one, and its child the physical truth.   *)
(*                                                                         *)
(* Source: packages/kernel/src/agent-run-graphs.ts, agent-graph-runtime.ts,*)
(* packages/store-sqlite/src/index.ts, apps/gateway/src/server.ts.         *)
(*                                                                         *)
(* An operator marked "faulty" is an unused variant of the next one, with  *)
(* a mistake in it.                                                        *)
(***************************************************************************)
EXTENDS Naturals, FiniteSets

CONSTANTS
  Nodes,
  DependsOn,    \* node -> the nodes it depends on
  Concurrency,  \* maxConcurrency
  Slots,        \* maxPhysicalSlots
  MaxFaults     \* bound on failed writes, deaths and restarts

VARIABLES
  graph,    \* its row: [status, listed]; listed: the error code is one that
            \* recovery publishes
  node,     \* node -> status of its row
  phase,    \* the executor: "none", "run", "audit", "complete", "amend",
            \* "returned", or "gone" (threw, or died)
  result,   \* node -> the runner's result, or "none"
  call,     \* node -> its physical dispatch: "none", "start", "event", "child", "record", "done"
  child,    \* node -> "none", "running", or how the child ended: "ok", "bad", "unknown"
  aborted,  \* the run's controller has aborted
  fenced,   \* cancellationFenced
  timedOut, \* nodes whose own timer has aborted them
  said,     \* terminal statuses in the audit
  last,     \* the last of them
  job,      \* the parent's job: "running", "cancelling", or an end
  faults

rows == <<graph, node>>
vars == <<graph, node, phase, result, call, child, aborted, fenced, timedOut, said, last, job, faults>>

Live == {"validated", "running", "publishing"}
Terminal == {"completed", "failed", "cancelled", "needs-review"}
Settled == Terminal \cup {"blocked"}

(* Rows, results and calls keep their shapes (AgentRunNodeResult, the CHECKs). *)
TypeOK ==
  /\ graph \in [status : {"none"} \cup Live \cup Terminal, listed : BOOLEAN]
  /\ node \in [Nodes -> {"none", "queued", "running"} \cup Settled]
  /\ phase \in {"none", "run", "audit", "complete", "amend", "returned", "gone"}
  /\ result \in [Nodes -> {"none"} \cup Settled]
  /\ call \in [Nodes -> {"none", "start", "event", "child", "record", "done"}]
  /\ child \in [Nodes -> {"none", "running", "ok", "bad", "unknown"}]
  /\ aborted \in BOOLEAN /\ fenced \in BOOLEAN /\ timedOut \subseteq Nodes
  /\ said \subseteq Terminal /\ last \in said \cup {"none"}
  /\ job \in {"running", "cancelling"} \cup Terminal /\ faults \in 0..MaxFaults

Init ==
  /\ graph = [status |-> "none", listed |-> FALSE]
  /\ node = [n \in Nodes |-> "none"] /\ phase = "none"
  /\ result = [n \in Nodes |-> "none"] /\ call = [n \in Nodes |-> "none"]
  /\ child = [n \in Nodes |-> "none"]
  /\ aborted = FALSE /\ fenced = FALSE /\ timedOut = {}
  /\ said = {} /\ last = "none" /\ job = "running" /\ faults = 0

Fault == faults < MaxFaults /\ faults' = faults + 1

---------------------------------------------------------------------------
(* Transactions. *)

Unsettled == {n \in Nodes : node[n] \in {"queued", "running"}}

(* cancelAgentGraphRun(), cancelAgentGraphRunsForParent() *)
Quarantine(listed) ==
  /\ graph' = IF graph.status \in Live THEN [status |-> "needs-review", listed |-> graph.listed \/ listed] ELSE graph
  /\ node' = [n \in Nodes |-> IF graph.status \in Live /\ n \in Unsettled THEN "needs-review" ELSE node[n]]

(* startAgentGraphNode() *)
CanStart(n) == graph.status \in {"validated", "running"} /\ node[n] = "queued"

(* faulty: the status of the graph is not looked at. *)
RecordedAnyway(n, status) == IF node[n] = "running" THEN [node EXCEPT ![n] = status] ELSE node

(* recordAgentGraphNodeResult() by the dispatch that runs n. *)
Recorded(n, status) ==
  IF node[n] = "running" /\ graph.status \in {"validated", "running"} THEN [node EXCEPT ![n] = status] ELSE node

(* The same by the runner, for its whole report: it names no attempt, so that it *)
(* settles only what was never dispatched.                                       *)
ReportRecorded ==
  [n \in Nodes |-> IF node[n] = "queued" /\ graph.status \in {"validated", "running"}
                      /\ ~fenced /\ result[n] \in {"blocked", "cancelled"}
                   THEN result[n] ELSE node[n]]

(* completeAgentGraphRun(): never a completion over unsettled nodes. *)
CanComplete(status) == graph.status \in Terminal \/ status # "completed" \/ Unsettled = {}

Completed(status) ==
  LET final == IF graph.status \in Terminal
               THEN (IF Unsettled = {} THEN graph.status ELSE "needs-review")
               ELSE (IF Unsettled = {} THEN status ELSE "needs-review") IN
    /\ graph' = [status |-> final,
                 listed |-> graph.listed \/ (graph.status \notin Terminal /\ final = "needs-review")]
    /\ node' = [n \in Nodes |-> IF n \in Unsettled THEN "needs-review" ELSE node[n]]

Say(status) == said' = said \cup {status} /\ last' = status

---------------------------------------------------------------------------
(* The runner. *)

Admit ==
  /\ phase = "none" /\ job = "running" /\ phase' = "run"
  /\ graph' = [graph EXCEPT !.status = "validated"]
  /\ node' = [n \in Nodes |-> "queued"]
  /\ UNCHANGED <<result, call, child, aborted, fenced, timedOut, said, last, job, faults>>

(* The event of the admission cannot be written. *)
AdmitFails ==
  /\ phase = "none" /\ job = "running" /\ Fault /\ phase' = "gone"
  /\ graph' = [status |-> "needs-review", listed |-> FALSE]
  /\ node' = [n \in Nodes |-> "needs-review"]
  /\ UNCHANGED <<result, call, child, aborted, fenced, timedOut, said, last, job>>

Level[n \in Nodes] ==
  IF DependsOn[n] = {} THEN 0
  ELSE 1 + (CHOOSE l \in {Level[d] : d \in DependsOn[n]} : \A d \in DependsOn[n] : Level[d] <= l)

Physical == {n \in Nodes : call[n] \notin {"none", "done"}}
Awaited == {n \in Nodes : call[n] # "none" /\ result[n] = "none"}
Left == {n \in Nodes : result[n] = "none"}
Wave == {n \in Left : \A m \in Left : Level[n] <= Level[m]}

(* faulty: a node is blocked only by a dependency that failed. *)
BlockedByFailure(n) == \E d \in DependsOn[n] : result[d] \in {"failed", "blocked"}

Blocked(n) == \E d \in DependsOn[n] : result[d] # "completed"

(* The next batch of the wave: blocked, cancelled, or dispatched. *)
NextBatch ==
  /\ phase = "run" /\ Left # {} /\ Awaited = {}
  /\ \E batch \in SUBSET Wave :
       LET blocked == {n \in batch : ~aborted /\ Blocked(n)}
           runnable == batch \ blocked
           room == ~aborted /\ Cardinality(Physical) + Cardinality(runnable) <= Slots
       IN
         /\ Cardinality(batch) = IF Cardinality(Wave) < Concurrency THEN Cardinality(Wave) ELSE Concurrency
         /\ result' = [n \in Nodes |-> IF n \in blocked THEN "blocked"
                                       ELSE IF n \in runnable /\ ~room THEN "cancelled" ELSE result[n]]
         /\ call' = [n \in Nodes |-> IF n \in runnable /\ room THEN "start" ELSE call[n]]
         /\ aborted' = ~room
  /\ UNCHANGED <<graph, node, phase, child, fenced, timedOut, said, last, job, faults>>

(* The receipt of n: of no interest when its result is there already. *)
Receipt(n, status) ==
  /\ call' = [call EXCEPT ![n] = "done"]
  /\ result' = [result EXCEPT ![n] = IF @ = "none" /\ phase = "run" THEN status ELSE @]

Start(n) ==
  /\ call[n] = "start" /\ CanStart(n)
  /\ node' = [node EXCEPT ![n] = "running"] /\ graph' = [graph EXCEPT !.status = "running"]
  /\ call' = [call EXCEPT ![n] = "event"]
  /\ UNCHANGED <<phase, result, child, aborted, fenced, timedOut, said, last, job, faults>>

(* The row does not admit the start, or the write is uncertain: all is fenced. *)
StartRefused(n) ==
  /\ call[n] = "start"
  /\ IF CanStart(n) THEN Fault ELSE UNCHANGED faults
  /\ Quarantine(FALSE) /\ Receipt(n, "needs-review")
  /\ UNCHANGED <<phase, child, aborted, fenced, timedOut, said, last, job>>

RunChild(n) ==
  /\ call[n] = "event"
  /\ call' = [call EXCEPT ![n] = "child"] /\ child' = [child EXCEPT ![n] = "running"]
  /\ UNCHANGED <<graph, node, phase, result, aborted, fenced, timedOut, said, last, job, faults>>

EventFails(n) ==
  /\ call[n] = "event" /\ Fault
  /\ node' = Recorded(n, "needs-review") /\ Receipt(n, "needs-review")
  /\ UNCHANGED <<graph, phase, child, aborted, fenced, timedOut, said, last, job>>

(* unknown: nothing in the child's audit says how it ended. *)
ChildEnds(n, how) ==
  /\ call[n] = "child"
  /\ call' = [call EXCEPT ![n] = "record"] /\ child' = [child EXCEPT ![n] = how]
  /\ UNCHANGED <<graph, node, phase, result, aborted, fenced, timedOut, said, last, job, faults>>

(* faulty: the status of the child, as it is. *)
StatusOfChild(n, threw) == IF child[n] = "ok" THEN "completed" ELSE child[n]

(* A child that throws under an abort is unknown; one that answers that it *)
(* failed has failed, aborted or not.                                       *)
StatusOf(n, threw) ==
  IF child[n] = "ok" THEN "completed"
  ELSE IF child[n] = "unknown" \/ (threw /\ (aborted \/ n \in timedOut)) THEN "needs-review" ELSE "failed"

Record(n) ==
  /\ call[n] = "record"
  /\ \E threw \in BOOLEAN : node' = Recorded(n, StatusOf(n, threw)) /\ Receipt(n, StatusOf(n, threw))
  /\ UNCHANGED <<graph, phase, child, aborted, fenced, timedOut, said, last, job, faults>>

(* The row cannot be written; or it is, and the event that follows is not. *)
RecordFails(n) ==
  /\ call[n] = "record" /\ Fault
  /\ node' \in {node} \cup {Recorded(n, StatusOf(n, threw)) : threw \in BOOLEAN}
  /\ Receipt(n, "needs-review")
  /\ UNCHANGED <<graph, phase, child, aborted, fenced, timedOut, said, last, job>>

(* An abort settles what is awaited: its outcome is uncertain. *)
Uncertain(aborting) ==
  [n \in Nodes |-> IF n \in Awaited \cap aborting /\ phase = "run" THEN "needs-review" ELSE result[n]]

NodeTimesOut(n) ==
  /\ phase = "run" /\ n \in Awaited /\ n \notin timedOut
  /\ timedOut' = timedOut \cup {n} /\ result' = Uncertain({n})
  /\ UNCHANGED <<graph, node, phase, call, child, aborted, fenced, said, last, job, faults>>

(* maxRunMs *)
Deadline ==
  /\ phase = "run" /\ ~aborted
  /\ aborted' = TRUE /\ result' = Uncertain(Nodes)
  /\ UNCHANGED <<graph, node, phase, call, child, fenced, timedOut, said, last, job, faults>>

(* The parent's signal: it fences the graph, until publication has begun. *)
Abort ==
  /\ phase = "run" /\ ~fenced
  /\ aborted' = TRUE /\ fenced' = TRUE /\ result' = Uncertain(Nodes)
  /\ Quarantine(TRUE)
  /\ UNCHANGED <<phase, call, child, timedOut, said, last, job, faults>>

---------------------------------------------------------------------------
(* Publication. *)

Overall ==
  LET some(S) == \E n \in Nodes : result[n] \in S IN
    IF fenced \/ some({"needs-review"}) THEN "needs-review"
    ELSE IF some({"failed", "blocked"}) THEN "failed"
    ELSE IF some({"cancelled"}) THEN "cancelled" ELSE "completed"

(* The report is recorded, then the graph is fenced: beginAgentGraphCompletion(). *)
BeginCompletion ==
  /\ phase = "run" /\ Left = {} /\ phase' = "audit"
  /\ node' = ReportRecorded
  /\ graph' = [graph EXCEPT !.status = IF @ \in {"validated", "running"} THEN "publishing" ELSE @]
  /\ UNCHANGED <<result, call, child, aborted, fenced, timedOut, said, last, job, faults>>

Publish ==
  /\ phase = "audit" /\ phase' = "complete" /\ Say(Overall)
  /\ UNCHANGED <<graph, node, result, call, child, aborted, fenced, timedOut, job, faults>>

Complete ==
  /\ phase = "complete" /\ CanComplete(Overall) /\ Completed(Overall)
  /\ phase' = IF graph'.status = "needs-review" /\ Overall # "needs-review" THEN "amend" ELSE "returned"
  /\ UNCHANGED <<result, call, child, aborted, fenced, timedOut, said, last, job, faults>>

Amend ==
  /\ phase = "amend" /\ phase' = "returned" /\ Say("needs-review")
  /\ UNCHANGED <<graph, node, result, call, child, aborted, fenced, timedOut, job, faults>>

(* Publication fails in the middle: the graph is for review, and so the audit, *)
(* if it can still be written.                                                 *)
PublicationFails ==
  /\ phase \in {"audit", "complete", "amend"}
  /\ IF phase = "complete" /\ ~CanComplete(Overall) THEN UNCHANGED faults ELSE Fault
  /\ Completed("needs-review") /\ phase' = "gone"
  /\ (Say("needs-review") \/ UNCHANGED <<said, last>>)
  /\ UNCHANGED <<result, call, child, aborted, fenced, timedOut, job>>

---------------------------------------------------------------------------
(* The supervisor and the processes. *)

(* The fence comes before the signal (onCancel). *)
Cancel ==
  /\ job = "running" /\ job' = "cancelling" /\ Quarantine(TRUE)
  /\ UNCHANGED <<phase, result, call, child, aborted, fenced, timedOut, said, last, faults>>

Dead == [n \in Nodes |-> IF child[n] = "running" THEN "unknown" ELSE child[n]]

(* The isolated worker dies with its children. *)
WorkerDies ==
  /\ phase \notin {"none", "gone"} /\ Fault
  /\ phase' = "gone" /\ call' = [n \in Nodes |-> "none"] /\ child' = Dead
  /\ UNCHANGED <<graph, node, result, aborted, fenced, timedOut, said, last, job>>

JobEnds ==
  /\ job \in {"running", "cancelling"} /\ phase \in {"returned", "gone"}
  /\ job' \in IF phase = "returned" /\ Overall = "completed" /\ job = "running"
              THEN {"completed"} ELSE {"failed", "cancelled", "needs-review"}
  /\ UNCHANGED <<graph, node, phase, result, call, child, aborted, fenced, timedOut, said, last, faults>>

(* reconcileAgentGraphRuns(): the graph follows its job; one that was being *)
(* published, or ended with nodes unsettled, goes to review.                *)
Reconciled(end) ==
  LET status == IF graph.status \in Live /\ end # "completed" THEN end
                ELSE IF graph.status = "publishing" \/ (graph.status \in Terminal /\ Unsettled # {})
                THEN "needs-review" ELSE graph.status IN
    /\ graph' = [status |-> status, listed |-> graph.listed \/ status # graph.status]
    /\ node' = [n \in Nodes |-> IF status \in Terminal /\ n \in Unsettled THEN status ELSE node[n]]

(* The Gateway restarts: its job is recovered first, then the graph, then what *)
(* the audit lacks is published.                                               *)
Restart ==
  /\ phase # "none" /\ Fault /\ phase' = "gone"
  /\ job' = IF job \in {"running", "cancelling"} THEN "needs-review" ELSE job
  /\ Reconciled(job')
  /\ IF graph'.status \in Terminal \ {"completed"} /\ graph'.listed /\ graph'.status \notin said
     THEN Say(graph'.status) ELSE UNCHANGED <<said, last>>
  /\ call' = [n \in Nodes |-> "none"] /\ child' = Dead
  /\ UNCHANGED <<result, aborted, fenced, timedOut>>

---------------------------------------------------------------------------
RunnerNext == Admit \/ AdmitFails \/ NextBatch \/ Deadline \/ Abort
CallNext(n) ==
  \/ Start(n) \/ StartRefused(n) \/ RunChild(n) \/ EventFails(n) \/ Record(n) \/ RecordFails(n)
  \/ NodeTimesOut(n) \/ \E how \in {"ok", "bad", "unknown"} : ChildEnds(n, how)
PublicationNext == BeginCompletion \/ Publish \/ Complete \/ Amend \/ PublicationFails
ProcessNext == Cancel \/ WorkerDies \/ JobEnds \/ Restart

Next == RunnerNext \/ PublicationNext \/ ProcessNext \/ \E n \in Nodes : CallNext(n)

Spec == Init /\ [][Next]_vars

(* The timers fire and the executor goes on; nothing is assumed of a child. *)
Progress == NextBatch \/ Deadline \/ BeginCompletion \/ Publish \/ Complete \/ Amend \/ PublicationFails

---------------------------------------------------------------------------
(* What must hold. *)

(* What is said to be completed is: row, audit and children agree, and a child *)
(* ran only after all it depends on (blocked, completeAgentGraphRun).          *)
GraphHonest ==
  /\ graph.status = "completed" => \A n \in Nodes : node[n] = "completed"
  /\ "completed" \in said \/ (phase = "returned" /\ Overall = "completed")
       => \A n \in Nodes : child[n] = "ok"
  /\ \A n \in Nodes : node[n] = "completed" => child[n] = "ok"
  /\ \A n \in Nodes : child[n] # "none" => \A d \in DependsOn[n] : child[d] = "ok"

(* Row and audit end with the same word: when the executor returns, whatever the *)
(* supervisor did meanwhile, and nothing is left unsettled behind it.            *)
LastWord ==
  phase = "returned" => /\ graph.status \in Terminal
                        /\ last = graph.status
                        /\ Unsettled = {}

(* Once fenced, a graph gets no result and starts no node, however late its      *)
(* children answer, and what a restart leaves is settled and, where its code is  *)
(* one that recovery knows, told (startNode, recordNode, reconcileAgentGraphRuns)*)
FenceStrict ==
  /\ graph.status \notin {"validated", "running"} =>
       \A n \in Nodes : node'[n] # node[n] => node'[n] \notin {"running", "completed"}
  /\ graph.status \in Terminal => graph'.status \in {graph.status, "needs-review"}
  /\ Restart => /\ graph'.status \in Terminal
                /\ graph'.listed /\ graph'.status # "completed" => graph'.status \in said'

FenceHolds == [][FenceStrict]_vars

(* "The graph-wide deadline returns ... without awaiting such a dispatch." *)
(* (docs/agent-run-graphs.md)                                              *)
RunReturns == phase = "run" ~> phase \in {"returned", "gone"}
=============================================================================
