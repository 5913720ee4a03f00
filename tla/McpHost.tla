------------------------------- MODULE McpHost -------------------------------
(***************************************************************************)
(* The cached host of one MCP server: its tools are listed once, clients   *)
(* are told the pins of what was listed (a generation and the fingerprint  *)
(* of the executable), and a call names its pins.  Listing and calling run *)
(* the enabled extension; an operator may replace or disable it meanwhile, *)
(* and the runtime may be closed.                                          *)
(*                                                                         *)
(* Grain of atomicity.  What runs between two awaits is one step.  A call  *)
(* and a discovery live twice: the promise that its client holds, and the  *)
(* physical work, which outlives a timeout.                                *)
(*                                                                         *)
(* Source: packages/kernel/src/mcp-host.ts, mcp-runtime.ts, extensions.ts. *)
(*                                                                         *)
(* An operator marked "faulty" is an unused variant of the next one, with  *)
(* a mistake in it.                                                        *)
(***************************************************************************)
EXTENDS Naturals, FiniteSets

CONSTANTS
  Calls,
  MaxConcurrency,  \* physical calls at a time
  Versions,        \* executables of the extension, from 1 on; 0: none is enabled
  MaxChanges,      \* bound on what the operator changes
  MaxDiscoveries,  \* bound on #requestSequence
  MaxFaults        \* bound on writes to the audit that fail

VARIABLES
  closed,    \* #closed of the runtime
  life,      \* #lifecycle of the host, "none" when there is none
  enabled,   \* the version that the registry has enabled
  recorded,  \* #manifestFingerprints
  snap,      \* #snapshot: [gen, of, fresh]; of: the version that listed it
  disc,      \* the physical discovery: [at, of, waiting]; waiting: #discoveryPromise
  sequence,  \* #requestSequence
  asking,    \* a discover() that awaits the registry: "no", "start", "refresh"
  pins,      \* what clients were told: [gen, ext]
  call,      \* call -> [at, pin, of, told, aborted, tool]; of: snap.of at admission
  changes,
  faults

vars == <<closed, life, enabled, recorded, snap, disc, sequence, asking, pins, call, changes, faults>>

Physical(c) == call[c].at \in {"dispatch", "launch", "tool", "audit"}
PhysicalCalls == {c \in Calls : Physical(c)}
Pins == [gen : 0..MaxDiscoveries, ext : Versions \cup {0}]

(* The host's fields and the calls keep their shapes (McpHostStatus). *)
TypeOK ==
  /\ closed \in BOOLEAN
  /\ life \in {"none", "idle", "running", "stopping", "stopped"}
  /\ {enabled, recorded} \subseteq Versions \cup {0}
  /\ snap \in [gen : 0..MaxDiscoveries, of : Versions \cup {0}, fresh : BOOLEAN]
  /\ disc \in [at : {"none", "assert", "list", "audit"}, of : Versions \cup {0}, waiting : BOOLEAN]
  /\ sequence \in 0..MaxDiscoveries /\ asking \in {"no", "start", "refresh"}
  /\ pins \subseteq Pins
  /\ call \in [Calls -> [at : {"out", "assert", "dispatch", "launch", "tool", "audit", "done"},
                         pin : Pins, of : Versions \cup {0},
                         told : {"none", "refused", "error", "completed", "failed", "needs-review"},
                         aborted : BOOLEAN, tool : {"none", "running", "ok", "bad", "unknown"}]]
  /\ changes \in 0..MaxChanges /\ faults \in 0..MaxFaults

NoDiscovery == [at |-> "none", of |-> 0, waiting |-> FALSE]

Init ==
  /\ closed = FALSE /\ life = "none" /\ enabled = 1 /\ recorded = 0
  /\ snap = [gen |-> 0, of |-> 0, fresh |-> FALSE]
  /\ disc = NoDiscovery /\ sequence = 0 /\ asking = "no" /\ pins = {}
  /\ call = [c \in Calls |-> [at |-> "out", pin |-> [gen |-> 0, ext |-> 0], of |-> 0,
                              told |-> "none", aborted |-> FALSE, tool |-> "none"]]
  /\ changes = 0 /\ faults = 0

Fault == faults < MaxFaults /\ faults' = faults + 1

---------------------------------------------------------------------------
(* Discovery. *)

(* discover() has found the runtime open and asks the registry. *)
Ask ==
  /\ ~closed /\ asking = "no" /\ asking' \in {"start", "refresh"}
  /\ UNCHANGED <<closed, life, enabled, recorded, snap, disc, sequence, pins, call, changes, faults>>

(* snapshotResult() *)
Told(gen) == pins \cup (IF recorded = 0 THEN {} ELSE {[gen |-> gen, ext |-> recorded]})

(* host.start() answers at once from what is cached ... *)
Cached ==
  /\ asking = "start" /\ enabled # 0 /\ life \in {"none", "idle", "running"} /\ snap.gen > 0
  /\ asking' = "no" /\ life' = "running" /\ pins' = Told(snap.gen)
  /\ UNCHANGED <<closed, enabled, recorded, snap, disc, sequence, call, changes, faults>>

(* ... or, like host.refresh(), joins the discovery under way or begins one: *)
(* never while an earlier one is physically pending.                         *)
Discover ==
  /\ enabled # 0
  /\ \/ asking = "start" /\ life \in {"none", "idle", "running"} /\ snap.gen = 0
     \/ asking = "refresh" /\ life = "running"
  /\ asking' = "no" /\ life' = "running"
  /\ IF disc.at = "none"
     THEN /\ sequence < MaxDiscoveries /\ sequence' = sequence + 1
          /\ disc' = [at |-> "assert", of |-> 0, waiting |-> TRUE]
     ELSE UNCHANGED <<disc, sequence>>
  /\ UNCHANGED <<closed, enabled, recorded, snap, pins, call, changes, faults>>

(* The extension is disabled, the host has not been started or has been stopped. *)
AskRefused ==
  /\ asking # "no"
  /\ enabled = 0 \/ life \in {"stopping", "stopped"} \/ (asking = "refresh" /\ life # "running")
  /\ asking' = "no"
  /\ life' = IF enabled # 0 /\ life = "none" THEN "idle" ELSE life
  /\ UNCHANGED <<closed, enabled, recorded, snap, disc, sequence, pins, call, changes, faults>>

(* #discoverTransport *)
List ==
  /\ disc.at = "assert" /\ enabled # 0
  /\ disc' = [disc EXCEPT !.at = "list", !.of = enabled]
  /\ UNCHANGED <<closed, life, enabled, recorded, snap, sequence, asking, pins, call, changes, faults>>

(* The tools are there: the executable is recorded before anything else. *)
Listed ==
  /\ disc.at = "list"
  /\ disc' = [disc EXCEPT !.at = "audit"] /\ recorded' = disc.of
  /\ UNCHANGED <<closed, life, enabled, snap, sequence, asking, pins, call, changes, faults>>

(* faulty: whoever answers is believed, the host being stopped or not. *)
AcceptsAnyway == disc.waiting

(* Its caller still waits, and the host runs. *)
Accepts == disc.waiting /\ life = "running"

DiscoveryEnds ==
  /\ disc.at = "audit"
  /\ disc' = NoDiscovery
  /\ IF Accepts
     THEN /\ snap' = [gen |-> snap.gen + 1, of |-> disc.of, fresh |-> TRUE]
          /\ pins' = Told(snap.gen + 1)
     ELSE UNCHANGED <<snap, pins>>
  /\ UNCHANGED <<closed, life, enabled, recorded, sequence, asking, call, changes, faults>>

(* The extension is gone or changed, tools/list or the audit fails. *)
DiscoveryFails ==
  /\ disc.at \in {"assert", "list", "audit"}
  /\ IF disc.at = "assert" /\ enabled = 0 THEN UNCHANGED faults ELSE Fault
  /\ disc' = NoDiscovery
  /\ UNCHANGED <<closed, life, enabled, recorded, snap, sequence, asking, pins, call, changes>>

(* The client gives up; the work goes on. *)
DiscoveryTimesOut ==
  /\ disc.waiting /\ disc' = [disc EXCEPT !.waiting = FALSE]
  /\ UNCHANGED <<closed, life, enabled, recorded, snap, sequence, asking, pins, call, changes, faults>>

(* snapshotState() *)
Expire ==
  /\ snap.fresh /\ snap' = [snap EXCEPT !.fresh = FALSE]
  /\ UNCHANGED <<closed, life, enabled, recorded, disc, sequence, asking, pins, call, changes, faults>>

---------------------------------------------------------------------------
(* Calls. *)

Invoke(c) ==
  /\ ~closed /\ call[c].at = "out"
  /\ \E p \in pins : call' = [call EXCEPT ![c].at = "assert", ![c].pin = p]
  /\ UNCHANGED <<closed, life, enabled, recorded, snap, disc, sequence, asking, pins, changes, faults>>

Pinned(c) ==
  /\ enabled = call[c].pin.ext /\ recorded = call[c].pin.ext
  /\ life = "running" /\ snap.fresh /\ snap.gen = call[c].pin.gen

Room == Cardinality(PhysicalCalls) < MaxConcurrency

Admit(c) ==
  /\ call[c].at = "assert"
  /\ call' = IF Pinned(c) /\ Room THEN [call EXCEPT ![c].at = "dispatch", ![c].of = snap.of]
             ELSE [call EXCEPT ![c].at = "done", ![c].told = "refused"]
  /\ UNCHANGED <<closed, life, enabled, recorded, snap, disc, sequence, asking, pins, changes, faults>>

(* What the physical call of c says: nobody listens once it was given up. *)
Reply(c, status, tool) ==
  [call EXCEPT ![c].at = "done", ![c].tool = tool,
               ![c].told = IF @ = "none" THEN status ELSE @]

Dispatch(c) ==
  /\ call[c].at = "dispatch"
  /\ call' = IF enabled # call[c].pin.ext THEN Reply(c, "error", "none")
             ELSE [call EXCEPT ![c].at = "launch"]
  /\ UNCHANGED <<closed, life, enabled, recorded, snap, disc, sequence, asking, pins, changes, faults>>

(* onDispatchAuthorized, and the container runs. *)
Launch(c) ==
  /\ call[c].at = "launch" /\ ~call[c].aborted /\ enabled = call[c].pin.ext
  /\ call' = [call EXCEPT ![c].at = "tool", ![c].tool = "running"]
  /\ UNCHANGED <<closed, life, enabled, recorded, snap, disc, sequence, asking, pins, changes, faults>>

(* It never runs; after the authorization the outcome counts as uncertain. *)
LaunchFails(c) ==
  /\ call[c].at = "launch"
  /\ IF call[c].aborted \/ enabled # call[c].pin.ext THEN UNCHANGED faults ELSE Fault
  /\ \E status \in {"failed", "needs-review"} : call' = Reply(c, status, "none")
  /\ UNCHANGED <<closed, life, enabled, recorded, snap, disc, sequence, asking, pins, changes>>

(* bad: the tool's own error.  unknown: killed, or its answer is lost. *)
ToolEnds(c, how) ==
  /\ call[c].at = "tool"
  /\ call' = IF how = "unknown" \/ (how = "ok" /\ call[c].aborted) THEN Reply(c, "needs-review", how)
             ELSE [call EXCEPT ![c].at = "audit", ![c].tool = how]
  /\ UNCHANGED <<closed, life, enabled, recorded, snap, disc, sequence, asking, pins, changes, faults>>

Audited(c) ==
  /\ call[c].at = "audit"
  /\ call' = Reply(c, IF call[c].tool = "ok" THEN "completed" ELSE "failed", call[c].tool)
  /\ UNCHANGED <<closed, life, enabled, recorded, snap, disc, sequence, asking, pins, changes, faults>>

(* faulty: what cannot be told of is told to have failed. *)
UnauditedFailed == "failed"

(* MCP_AUDIT_CORRELATION_FAILED *)
Unaudited == "needs-review"

AuditFails(c) ==
  /\ call[c].at = "audit" /\ Fault
  /\ call' = Reply(c, Unaudited, call[c].tool)
  /\ UNCHANGED <<closed, life, enabled, recorded, snap, disc, sequence, asking, pins, changes>>

Uncertain(S) ==
  [c \in Calls |-> IF c \in S /\ Physical(c)
                   THEN [call[c] EXCEPT !.aborted = TRUE,
                                        !.told = IF @ = "none" THEN "needs-review" ELSE @]
                   ELSE call[c]]

(* faulty: the tool is told to stop, and the client waits for it. *)
GiveUpLate(c) ==
  /\ Physical(c) /\ ~call[c].aborted
  /\ call' = [call EXCEPT ![c].aborted = TRUE]
  /\ UNCHANGED <<closed, life, enabled, recorded, snap, disc, sequence, asking, pins, changes, faults>>

(* timeout, or the client's signal *)
GiveUp(c) ==
  /\ Physical(c) /\ call[c].told = "none"
  /\ call' = Uncertain({c})
  /\ UNCHANGED <<closed, life, enabled, recorded, snap, disc, sequence, asking, pins, changes, faults>>

---------------------------------------------------------------------------
(* The operator, and the end. *)

Change ==
  /\ changes < MaxChanges /\ changes' = changes + 1
  /\ enabled' \in (Versions \cup {0}) \ {enabled}
  /\ UNCHANGED <<closed, life, recorded, snap, disc, sequence, asking, pins, call, faults>>

(* close(), and shutdown() of the host *)
Close ==
  /\ ~closed /\ closed' = TRUE
  /\ life' = IF life = "none" THEN "none" ELSE "stopping"
  /\ recorded' = IF life = "none" THEN 0 ELSE recorded
  /\ call' = Uncertain(Calls)
  /\ UNCHANGED <<enabled, snap, disc, sequence, asking, pins, changes, faults>>

(* The work has ended, or the deadline has. *)
Stop ==
  /\ life = "stopping" /\ life' = "stopped" /\ recorded' = 0
  /\ UNCHANGED <<closed, enabled, snap, disc, sequence, asking, pins, call, changes, faults>>

---------------------------------------------------------------------------
DiscoveryNext ==
  \/ Ask \/ Cached \/ Discover \/ AskRefused \/ List \/ Listed \/ DiscoveryEnds
  \/ DiscoveryFails \/ DiscoveryTimesOut \/ Expire
CallNext(c) ==
  \/ Invoke(c) \/ Admit(c) \/ Dispatch(c) \/ Launch(c) \/ LaunchFails(c) \/ Audited(c)
  \/ AuditFails(c) \/ GiveUp(c) \/ \E how \in {"ok", "bad", "unknown"} : ToolEnds(c, how)

Next == DiscoveryNext \/ Change \/ Close \/ Stop \/ \E c \in Calls : CallNext(c)

Spec == Init /\ [][Next]_vars

(* Timers; nothing is assumed of a server. *)
Progress == DiscoveryTimesOut \/ Stop \/ \E c \in Calls : GiveUp(c)

---------------------------------------------------------------------------
(* What must hold. *)

(* A client is told that a call was completed only if its tool did the work, and  *)
(* that it failed only if the tool said so or never ran and never will; what is   *)
(* still running counts against maxConcurrency, given up or not (#dispatchTransport,*)
(* invoke).                                                                       *)
McpTruth ==
  /\ \A c \in Calls :
       /\ call[c].told = "completed" => call[c].tool = "ok"
       /\ call[c].told \in {"failed", "error", "refused"} =>
            call[c].at = "done" /\ call[c].tool \in {"none", "bad"}
  /\ Cardinality({c \in Calls : call[c].tool = "running"}) <= MaxConcurrency

(* Once it has been told to stop, a host takes no tools from a late discovery and *)
(* runs no tool (#discover, shutdown).                                            *)
StopStrict ==
  life \in {"stopping", "stopped"} =>
    snap'.gen = snap.gen /\ \A c \in Calls : call'[c].tool = "running" => call[c].tool = "running"

(* "configured MCP executable changed since discovery; rediscover before invoking" *)
(* (mcp-runtime.ts): the tools a call was checked against are those of the         *)
(* executable that it names.                                                       *)
PinnedTools == \A c \in Calls : call[c].tool # "none" => call[c].of = call[c].pin.ext

(* Nobody waits on a server: calls, discoveries and the shutdown are answered. *)
Answered ==
  /\ life # "stopping" /\ ~disc.waiting
  /\ \A c \in Calls : Physical(c) => call[c].told # "none"
=============================================================================
