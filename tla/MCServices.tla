----------------------------- MODULE MCServices -----------------------------
(***************************************************************************)
(* What an agent runs outside its own process, for TLC, side by side: the   *)
(* first state picks one part, only that part moves, and the variables that *)
(* it lacks stay as they are, those of SandboxRecovery where they start.    *)
(* "graph" is AgentGraphs with three agents, one of which depends on        *)
(* another; "mcp" is McpHost with two calls of a server that may be         *)
(* replaced once; "process" is ProcessRecovery, and "sandbox"               *)
(* SandboxRecovery.                                                         *)
(***************************************************************************)
EXTENDS SandboxRecovery, FiniteSets

CONSTANTS
  Parts,
  Nodes, DependsOn, Concurrency, Slots, GraphFaults,
  Calls, MaxConcurrency, Versions, MaxChanges, MaxDiscoveries, HostFaults

VARIABLES
  part,
  graph, node, phase, result, answer, child, aborted, fenced, timedOut, said, last, job,
  closed, life, enabled, recorded, snap, disc, sequence, asking, pins, call, changes,
  kept, spawned, supervisor

ofGraph == <<graph, node, phase, result, answer, child, aborted, fenced, timedOut, said, last, job>>
ofMcp == <<closed, life, enabled, recorded, snap, disc, sequence, asking, pins, call, changes>>
ofProcess == <<kept, spawned, supervisor>>
ofSandbox == <<latest, record, box, pc, unproved>>
allVars == <<part, faults, ofGraph, ofMcp, ofProcess, ofSandbox>>

(* One agent waits for another. *)
OneWaits == [n \in Nodes |-> IF n = "n3" THEN {"n1"} ELSE {}]

Graph == INSTANCE AgentGraphs WITH MaxFaults <- GraphFaults, call <- answer
Mcp == INSTANCE McpHost WITH MaxFaults <- HostFaults
Process == INSTANCE ProcessRecovery WITH record <- kept, child <- spawned, pc <- supervisor

NoGraph ==
  /\ graph = 0 /\ node = 0 /\ phase = 0 /\ result = 0 /\ answer = 0 /\ child = 0
  /\ aborted = 0 /\ fenced = 0 /\ timedOut = 0 /\ said = 0 /\ last = 0 /\ job = 0
NoMcp ==
  /\ closed = 0 /\ life = 0 /\ enabled = 0 /\ recorded = 0 /\ snap = 0 /\ disc = 0
  /\ sequence = 0 /\ asking = 0 /\ pins = 0 /\ call = 0 /\ changes = 0
NoProcess == kept = 0 /\ spawned = 0 /\ supervisor = 0

SumInit ==
  /\ part \in Parts /\ Init
  /\ \/ part = "graph" /\ Graph!Init /\ NoMcp /\ NoProcess
     \/ part = "mcp" /\ Mcp!Init /\ NoGraph /\ NoProcess
     \/ part = "process" /\ Process!Init /\ NoGraph /\ NoMcp
     \/ part = "sandbox" /\ NoGraph /\ NoMcp /\ NoProcess

InGraph == part = "graph" /\ UNCHANGED <<part, ofMcp, ofProcess, ofSandbox>>
InMcp == part = "mcp" /\ UNCHANGED <<part, ofGraph, ofProcess, ofSandbox>>
InProcess == part = "process" /\ UNCHANGED <<part, ofGraph, ofMcp, ofSandbox>>
InSandbox == part = "sandbox" /\ UNCHANGED <<part, ofGraph, ofMcp, ofProcess>>

SumNext ==
  \/ InGraph /\ Graph!Next
  \/ InMcp /\ Mcp!Next
  \/ InProcess /\ Process!Next
  \/ InSandbox /\ Next

SumSpec == SumInit /\ [][SumNext]_allVars

(* Timers fire, and the executor of a graph goes on; nothing is assumed of a   *)
(* child or a server.                                                        *)
FairSpec == SumSpec /\ WF_allVars((InGraph /\ Graph!Progress) \/ (InMcp /\ Mcp!Progress))

---------------------------------------------------------------------------
(* The shapes of rows, hosts and journals, of each part. *)
TypesOK ==
  /\ part = "graph" => Graph!TypeOK
  /\ part = "mcp" => Mcp!TypeOK
  /\ part = "process" => Process!TypeOK
  /\ part = "sandbox" => TypeOK

(* AgentGraphs!GraphHonest and !LastWord: row, audit and children agree. *)
GraphTruth == part = "graph" => Graph!GraphHonest /\ Graph!LastWord

(* McpHost!McpTruth: what a client is told of a call is what its tool did. *)
McpTruth == part = "mcp" => Mcp!McpTruth

(* AgentGraphs!FenceStrict: a fenced graph gets no late result. *)
GraphFenced == [][part = "graph" => Graph!FenceStrict]_allVars

(* ProcessRecovery!NoStray: a process that lives is in the journal. *)
NoStray == part = "process" => Process!NoStray

(* McpHost!StopStrict and ProcessRecovery!Quarantined: a stopped host takes no late *)
(* tools, and nothing is spawned beside what is left for review.                   *)
StopsHold ==
  [][/\ part = "mcp" => Mcp!StopStrict
     /\ part = "process" => Process!Quarantined]_allVars

(* Again and again nobody waits (AgentGraphs!RunReturns, McpHost!Answered): a run *)
(* of a graph returns though its children hang, calls, discoveries and shutdowns  *)
(* of a host are answered though its server hangs.                               *)
NobodyWaits ==
  []<>(/\ part = "graph" => phase # "run"
       /\ part = "mcp" => Mcp!Answered)
=============================================================================
