----------------------------- MODULE MCPlatform -----------------------------
(***************************************************************************)
(* What an installation controls and shares besides its queues, for TLC,    *)
(* side by side: the first state picks one part, only that part moves, and  *)
(* the variables that it lacks stay pinned, those of GatewayInstances where *)
(* they start.  "approval" is ApprovalFlow, "instances" GatewayInstances,   *)
(* "workspace" WorkspaceMutations, "approvals" and "state" are FileLocks    *)
(* with and without recovery of a torn file, "upgrade" is StateLifecycle,   *)
(* "telemetry" AsyncTelemetry and "channel" ChannelRouter; "unix" and        *)
(* "windows" are Installer, from nothing and from the second of three        *)
(* versions, with activations that are deferred.                             *)
(***************************************************************************)
EXTENDS GatewayInstances, Sequences

CONSTANTS
  Parts,
  Approvers, Deniers, Cancellers, ApprovalFaults,
  Editors, Documents, MaxBoundaries, MaxTroubles,
  Lockers, MaxDeaths,
  MaxWrites, MaxStops, DirectGateway,
  MaxQueue, MaxBatch, Flushers, MaxRecords,
  Messages, Conversations, ConversationOf, MaxConcurrency, MaxPendingPerConversation,
  MaxAttempts, MaxDeliveries, MaxMishaps,
  Commands, Tokens, UnixVersions, UnixFirst, UnixRuns,
  WindowsVersions, WindowsFirst, WindowsRuns, InstallFaults, ActivationAttempts

VARIABLES
  part, job,
  row, lapsed, pc, marked, worker, killed, effects, granted, denied,
  files, boundaries, lock, proc, troubles,
  file, alive, want, deaths,
  root, staging, displaced, aside, backups, marker, chosen, current, written, stops,
  state, queue, batch, pump, answer, physical, wedged, scheduled, micro, timer, delayed,
  count, flushes, lost,
  entry, chatJob, run, queues, activeKeys, pending, mishaps, replies, pardons, orphans,
  installed, copying, pointer, record, launcher, gens, activation, installLock, me, spent,
  failures, before, razed, gone, stolen, told, crossed, torn, overtaken

onlyApproval == <<row, job, lapsed, marked, worker, killed, effects, granted, denied>>
onlyInstances == <<owner, held, epoch, up, mine, flight, excused>>
onlyWorkspace == <<files, boundaries, lock, proc, troubles>>
onlyLocks == <<file, alive, want, deaths>>
onlyUpgrade == <<root, staging, displaced, aside, backups, marker, chosen, current, written, stops>>
onlyTelemetry == <<state, queue, batch, pump, answer, physical, wedged, scheduled, micro,
                   timer, delayed, count, flushes, lost>>
onlyChannel == <<entry, chatJob, run, queues, activeKeys, pending, mishaps, replies, pardons,
                 orphans>>
control == <<faults, onlyApproval, onlyInstances>>
onlyInstaller == <<installed, copying, pointer, record, launcher, gens, activation, installLock,
                   me, spent, failures, before, razed, gone, stolen, told, crossed, torn, overtaken>>
onlyFlow == <<onlyTelemetry, onlyChannel>>
notInstaller == <<onlyWorkspace, onlyLocks, onlyUpgrade, onlyFlow>>
disk == <<notInstaller, onlyInstaller>>
allVars == <<part, control, pc, disk>>

(* Three Gateways on one host and one, "c", on another. *)
HostOf == [i \in Instances |-> IF i = "c" THEN "h2" ELSE "h1"]

(* A conversation for each message. *)
OwnConversation == [m \in Messages |-> m]

Approval == INSTANCE ApprovalFlow WITH MaxFaults <- ApprovalFaults

Workspace == INSTANCE WorkspaceMutations WITH
  Processes <- Editors, Files <- Documents, rows <- boundaries

ApprovalLock == INSTANCE FileLocks WITH Processes <- Lockers, RecoversTorn <- TRUE
StateLock == INSTANCE FileLocks WITH Processes <- Lockers, RecoversTorn <- FALSE

Upgrade == INSTANCE StateLifecycle

Telemetry == INSTANCE AsyncTelemetry WITH call <- flushes

Channel == INSTANCE ChannelRouter WITH
  MaxFaults <- MaxMishaps, job <- chatJob, faults <- mishaps, excused <- pardons

Unix == INSTANCE Installer WITH
  Versions <- UnixVersions, First <- UnixFirst, Windows <- FALSE, MaxRuns <- UnixRuns,
  MaxFaults <- InstallFaults, MaxAttempts <- ActivationAttempts,
  staging <- copying, marker <- activation, lock <- installLock, faults <- failures
Deferred == INSTANCE Installer WITH
  Versions <- WindowsVersions, First <- WindowsFirst, Windows <- TRUE, MaxRuns <- WindowsRuns,
  MaxFaults <- InstallFaults, MaxAttempts <- ActivationAttempts,
  staging <- copying, marker <- activation, lock <- installLock, faults <- failures

NoApproval ==
  /\ row = 0 /\ job = 0 /\ lapsed = 0 /\ marked = 0 /\ worker = 0 /\ killed = 0
  /\ effects = 0 /\ granted = 0 /\ denied = 0
NoControl == NoApproval /\ Init
NoWorkspace == files = 0 /\ boundaries = 0 /\ lock = 0 /\ proc = 0 /\ troubles = 0
NoLocks == file = 0 /\ alive = 0 /\ want = 0 /\ deaths = 0
NoUpgrade ==
  /\ root = 0 /\ staging = 0 /\ displaced = 0 /\ aside = 0 /\ backups = 0
  /\ marker = 0 /\ chosen = 0 /\ current = 0 /\ written = 0 /\ stops = 0
NoTelemetry ==
  /\ state = 0 /\ queue = 0 /\ batch = 0 /\ pump = 0 /\ answer = 0 /\ physical = 0
  /\ wedged = 0 /\ scheduled = 0 /\ micro = 0 /\ timer = 0 /\ delayed = 0
  /\ count = 0 /\ flushes = 0 /\ lost = 0
NoChannel ==
  /\ entry = 0 /\ chatJob = 0 /\ run = 0 /\ queues = 0 /\ activeKeys = 0 /\ pending = 0
  /\ mishaps = 0 /\ replies = 0 /\ pardons = 0 /\ orphans = 0
NoInstaller ==
  /\ installed = 0 /\ copying = 0 /\ pointer = 0 /\ record = 0 /\ launcher = 0 /\ gens = 0
  /\ activation = 0 /\ installLock = 0 /\ me = 0 /\ spent = 0 /\ failures = 0 /\ before = 0
  /\ razed = 0 /\ gone = 0 /\ stolen = 0 /\ told = 0 /\ crossed = 0 /\ torn = 0 /\ overtaken = 0
NoFlow == NoTelemetry /\ NoChannel
NoOther == NoWorkspace /\ NoLocks /\ NoUpgrade /\ NoFlow
NoDisk == NoOther /\ NoInstaller

SumInit ==
  /\ part \in Parts
  /\ part \notin {"unix", "windows"} => NoInstaller
  /\ \/ part = "approval" /\ Approval!Init /\ Init /\ NoDisk
     \/ part = "instances" /\ Init /\ NoApproval /\ pc = 0 /\ NoDisk
     \/ part = "workspace" /\ Workspace!Init /\ NoControl /\ pc = 0 /\ NoLocks /\ NoUpgrade
                             /\ NoFlow
     \/ part = "approvals" /\ ApprovalLock!Init /\ NoControl /\ NoWorkspace /\ NoUpgrade /\ NoFlow
     \/ part = "state" /\ StateLock!Init /\ NoControl /\ NoWorkspace /\ NoUpgrade /\ NoFlow
     \/ part = "upgrade" /\ Upgrade!Init /\ NoControl /\ NoWorkspace /\ NoLocks /\ NoFlow
     \/ part = "telemetry" /\ Telemetry!Init /\ NoControl /\ pc = 0 /\ NoWorkspace /\ NoLocks
                             /\ NoUpgrade /\ NoChannel
     \/ part = "channel" /\ Channel!Init /\ NoControl /\ pc = 0 /\ NoWorkspace /\ NoLocks
                           /\ NoUpgrade /\ NoTelemetry
     \/ part = "unix" /\ Unix!Init /\ NoControl /\ pc = 0 /\ NoOther
     \/ part = "windows" /\ Deferred!Init /\ NoControl /\ pc = 0 /\ NoOther

In(name) == part = name /\ UNCHANGED part
InApproval == In("approval") /\ UNCHANGED <<onlyInstances, disk>>
InGateways == In("instances") /\ UNCHANGED <<onlyApproval, pc, disk>>
InWorkspace == In("workspace") /\ UNCHANGED <<control, pc, onlyLocks, onlyUpgrade, onlyFlow, onlyInstaller>>
InApprovals == In("approvals") /\ UNCHANGED <<control, onlyWorkspace, onlyUpgrade, onlyFlow, onlyInstaller>>
InState == In("state") /\ UNCHANGED <<control, onlyWorkspace, onlyUpgrade, onlyFlow, onlyInstaller>>
InUpgrade == In("upgrade") /\ UNCHANGED <<control, onlyWorkspace, onlyLocks, onlyFlow, onlyInstaller>>
InTelemetry == In("telemetry") /\ UNCHANGED <<control, pc, onlyWorkspace, onlyLocks, onlyUpgrade, onlyChannel, onlyInstaller>>
InChannel == In("channel") /\ UNCHANGED <<control, pc, onlyWorkspace, onlyLocks, onlyUpgrade, onlyTelemetry, onlyInstaller>>
InInstaller(name) == In(name) /\ UNCHANGED <<control, pc, notInstaller>>

SumNext ==
  \/ InApproval /\ Approval!Next
  \/ InGateways /\ Next
  \/ InWorkspace /\ Workspace!Next
  \/ InApprovals /\ ApprovalLock!Next
  \/ InState /\ StateLock!Next
  \/ InUpgrade /\ Upgrade!Next
  \/ InTelemetry /\ Telemetry!Next
  \/ InChannel /\ Channel!Next
  \/ InInstaller("unix") /\ Unix!Next
  \/ InInstaller("windows") /\ Deferred!Next

SumSpec == SumInit /\ [][SumNext]_allVars

(* A process that finds a dead owner's lock goes on recovering it; the event  *)
(* loop runs what telemetry and the router have under way, and jobs end.      *)
FairSpec ==
  /\ SumSpec
  /\ WF_allVars((InTelemetry /\ Telemetry!Progress) \/ (InChannel /\ Channel!Progress))
  /\ \A l \in Lockers :
       WF_allVars(\/ InApprovals /\ ApprovalLock!Recovers(l)
                  \/ InState /\ StateLock!Recovers(l))

---------------------------------------------------------------------------
(* The shapes of rows, requests, leases, locks and trees, of each part. *)
TypesOK ==
  /\ part = "approval" => Approval!TypeOK
  /\ part = "instances" => TypeOK
  /\ part = "workspace" => Workspace!TypeOK
  /\ part = "approvals" => ApprovalLock!TypeOK
  /\ part = "state" => StateLock!TypeOK
  /\ part = "upgrade" => Upgrade!TypeOK
  /\ part = "telemetry" => Telemetry!TypeOK
  /\ part = "channel" => Channel!TypeOK
  /\ part = "unix" => Unix!TypeOK
  /\ part = "windows" => Deferred!TypeOK

(* ApprovalFlow!EffectApproved: one effect at most, approved and not revoked. *)
EffectApproved == part = "approval" => Approval!EffectApproved

(* WorkspaceMutations!NoLostUpdate: an edit replaces only what its preview saw.   *)
(* Installer!InstallTold: what an update or an activation has reported stays so.  *)
UpdatesKept ==
  [][/\ part = "workspace" => Workspace!NoLostUpdateStep
     /\ part = "unix" => Unix!InstallTold
     /\ part = "windows" => Deferred!InstallTold]_allVars

(* WorkspaceMutations!TornStaysBlocked: nothing is built on a half-done change    *)
(* whose review nobody may overrule.                                             *)
HalfDoneBlocks == part = "workspace" => Workspace!TornStaysBlocked

(* WorkspaceMutations!ReviewStaysStep: a half-done change stays under review. *)
HalfDoneReviewed == [][part = "workspace" => Workspace!ReviewStaysStep]_allVars

(* FileLocks!LockExclusive: one owner, and no living one loses its lock. *)
LockExclusive ==
  /\ part = "approvals" => ApprovalLock!LockExclusive
  /\ part = "state" => StateLock!LockExclusive

(* AsyncTelemetry!LedgerExact, !FlushHonest and !Awake: no record is lost  *)
(* silently, and none is left lying.                                       *)
TelemetryTruth ==
  part = "telemetry" => Telemetry!LedgerExact /\ Telemetry!FlushHonest /\ Telemetry!Awake

(* ChannelRouter!RepliedOnce, !ClaimsHeld and !CountsTrue: one reply, no      *)
(* count that nobody gives back, and no claim but what a death or a throwing  *)
(* write of the dedupe file leaves.                                           *)
ChannelTruth ==
  part = "channel" => Channel!RepliedOnce /\ Channel!ClaimsHeld /\ Channel!CountsTrue

(* Again and again nobody waits: CallsReturn of AsyncTelemetry and ChannelRouter *)
(* (flushes, the shutdown and deliveries end) and FileLocks!StaleLockFreed (the   *)
(* lock of a dead owner goes away, unless it is torn and nobody may tell).        *)
NobodyWaits ==
  []<>(/\ part = "telemetry" => Telemetry!AllReturned
       /\ part = "channel" => Channel!Idle
       /\ part = "approvals" => ~ApprovalLock!Orphaned
       /\ part = "state" => ~StateLock!Orphaned \/ StateLock!Torn)

(* StateLifecycle!DataSurvives: a whole copy of the newest data is kept.        *)
(* Installer!InstallationSound: the launchers start what is there, the version   *)
(* to roll back to is known, and an uninstall is final.                          *)
UpgradesSound ==
  /\ part = "upgrade" => Upgrade!DataSurvives
  /\ part = "unix" => Unix!InstallationSound
  /\ part = "windows" => Deferred!InstallationSound

(* StateLifecycle!OpensTheState: a start opens the user's state. *)
OpensTheState == part = "upgrade" => Upgrade!OpensTheState
=============================================================================
