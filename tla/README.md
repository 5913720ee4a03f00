# A TLA+ verification of Odinn Forge

Odinn Forge runs tools, agents and automations for an operator behind policy,
approval and audit boundaries. Its promise is about durability: whatever is
interrupted, the records must say what is known about it, nothing with an effect
is done twice, and nothing waits for ever. That promise is kept by a handful of
schedulers over SQLite and over locked files, each a small distributed system: a
process that may die, workers that outlive the order to stop, leases, timers,
retries, cancellations, several processes over one state directory. These modules
model them from their source.

Contents: [Inventory](#inventory) · [Modules](#modules) · [Runs](#runs) ·
[Fairness](#fairness) · [Theorems](#theorems) · [Findings](#findings) · [Observations](#observations) ·
[Not modelled](#not-modelled) · [Plan](#plan)

To check: `tlc -config RuntimeJobs_core.cfg MCRuntimeJobs.tla` (and the other
configurations below), and `tlapm` on each of the `*Proofs.tla`.

## Inventory

### The parts that carry the program's own logic

| part | source | state | operations | what makes it hard | what makes it correct |
|---|---|---|---|---|---|
| Runtime job store | `store-sqlite/src/runtime-jobs.ts` | job rows, lease rows, the attempt of each job | create, claim, update, renew, cancel, approval claim and settlement, adoption of a protected result, recovery | transactions of several actors interleave; a row, its lease and its attempt must agree after each | lease ledger, one end per job, no effect made up |
| Run ledger (attempts) | `store-sqlite/src/index.ts` | envelopes, attempts, owners | admit, resume, transition | compare-and-set on attempt number, owner and state | legal transitions, one owner while executing |
| Job supervisor, isolated executor | `kernel/src/jobs.ts` | active map, volatile payloads, drain flag, recovery timer | submit, drain, run, cancel, approval, heartbeat, timeout, shutdown, start | callbacks race; a killed worker lingers; memory and row disagree after a restart | at most once, bounded retries, no lost wakeup |
| Execution admission | `kernel/src/index.ts`, `task-worker-host.ts`, `tool-safety.ts` | the attempt, from the worker's side | bind, admit, start, dispatch, settle | runs in another process than its supervisor | effect only after the attempt is marked running |
| Gateway wiring | `apps/gateway/src/server.ts` | in-flight requests, protected channel results | executor, approval continuation, cancellation fence, shutdown | three writers of one job | final outcomes |
| Instance ownership | `apps/gateway/src/instance-ownership.ts` | lease row, epoch, signal | acquire, renew, lose, take over, release | two Gateways over one state directory | what two owners have in flight does not overlap |
| Session lanes | `kernel/src/session-lanes.ts` | job records, lanes, active jobs, degraded flag | submit, claim, run, cancel, timeout, shutdown, start | logical and physical end of a job differ; writes of unknown outcome | order and exclusion per lane |
| Durable workflows | `kernel/src/workflows.ts`, `store-sqlite/src/workflows.ts` | runs, steps, step leases, deadlines, `#active`, recovery timer | submit, claim, dispatch, settle, resume, cancel, recover, shutdown | parallel steps of one run end each other; deadlines; approvals | one story told by run and steps, effects once, stops end |
| Event ingress | `kernel/src/event-ingress.ts`, `gateway/src/durable-dispatch.ts` | sources, watches, deliveries, checkpoints | ingest, heartbeat, claim, dispatch, settle, recover | duplicates; a dispatch outlives its claim; a crash between two stores | no trigger lost or run twice, outcomes true |
| Cron schedule | `CronStore` and `runDueCronJobs` in `server.ts` | a file of schedules with leases and dispatches | create, change, claim, submit, acknowledge, settle, run by hand | the schedule moves on, or changes, while an occurrence is in flight | what it moved past was submitted or is leased |
| Agent graphs | `kernel/src/agent-graph-runtime.ts`, `agent-run-graphs.ts` | graph and node rows, audit, results | admit, release a wave, dispatch, fence, audit, complete, restart | a fence races results, audit and completion, each a transaction | a fenced graph takes no late result; rows, audit and children agree |
| Approvals | `kernel/src/approvals.ts`, `server.ts` | sealed requests, their statuses, grants | propose, approve, deny, cancel, consume, expire | every request awaits between store and job | one effect at most, approved and not denied |
| Workspace mutations | `kernel/src/workspace-mutations.ts`, `checkpoint-coordinator.ts` | files, boundaries, the lock | preview, apply, undo, restore, rewind, recover | death between two writes; recovery without the lock | a half-done change blocks; no update is lost |
| State migration and backup | `kernel/src/state/*` | state tree, staging, displaced tree, backups, marker | upgrade, recover, back up, restore | a crash between any two file operations, then any entry point | the user's last change is in some tree |
| Installation and updates | `scripts/install.ts`, `cli/src/lifecycle.ts` | versions, launchers, pointer, record, activation marker, lock | install, update, roll back, uninstall, finalize, start | a death or a failing write between any two; a detached finalizer, other commands between an upgrade and its health check | the launchers start what is there; what to roll back to is known; an uninstall is final |
| File locks | `kernel/src/state-mutation.ts`, `approvals.ts` | lock file, stale markers, markers of markers | acquire, release, recover a dead owner's | several processes recover one lock at once, and die at it | exclusion; a dead owner's lock is freed |
| Async telemetry | `kernel/src/async-telemetry.ts` | queue, batch, pump, timers, wedge | offer, export, time out, flush, shut down | an answer after its deadline, with flushes waiting | every record counted once; every call returns |
| Channels | `channels/src/index.ts`, `server.ts` | dedupe claims, conversation queues, retries | deliver, claim, queue, run, reply, commit, release | a redelivery while the first waits, replies or died | one reply, counts true, no claim left |
| Cached MCP host | `kernel/src/mcp-host.ts`, `mcp-runtime.ts` | snapshot, generation, fingerprint pins, calls | discover, refresh, call, cancel, time out, close | answers after their deadline; the extension is replaced or disabled meanwhile | what a caller is told of a call is what the server did; a stopped server stays stopped |
| Process supervisor, sandbox | `kernel/src/process-supervisor.ts`, `sandbox-recovery.ts`, `sandbox-backend.ts` | a journal each, and what lives outside the program | reserve, launch, terminate, prove absent, review, reconcile | a death or a failing write between launch, record and proof; an engine that answers late | whatever is alive is in a journal |
| File store, memory, skills, policy, protocol, adapters, CLI | see `PROJECT.json` | | | see [Not modelled](#not-modelled) | |

### How they interact

The Gateway accepts a request (HTTP, channel, cron, event) and submits a *job*
to the supervisor, which stores it and drains the queue. A claimed job is handed
to an isolated worker process; the worker admits the execution to the *run
ledger*, dispatches the tool, and settles the attempt in the same SQLite file as
the supervisor settles the job: two processes write one row. A tool that needs
consent leaves the job `awaiting-approval`; the operator's decision dispatches
it inside the Gateway, as a run of its own. *Events* and *cron* occurrences are
claimed under leases of their own stores and submit jobs under idempotency keys,
then poll until they end; *channels* do the same for a chat message. *Workflow*
steps call the same admission; an *agent graph* is what the tool of one job runs,
with children of its own; *session lanes* serialize the turns of one session.
Cancellation, timeout, lease expiry and shutdown abort a controller and, later,
kill a worker; the answer may come first. What a tool starts outside the program
(a child process, a container, a server of the MCP) outlives the program's
patience and perhaps the program, so it is journalled or pinned before it is
used. A second process (a new Gateway, a
command-line run) meets the first at the instance lease, at the file locks, and
where it recovers what it takes for abandoned.

`PROJECT.json` lists every component with what is modelled of it, and every
hazard with its line and the properties that cover it.

## Modules

| module | what it is |
|---|---|
| `JobRows` | the durable row of one job, and every transaction of `SqliteJobStore` and of the ledger's attempts on it, as operators on a record |
| `RuntimeJobs`, `MCRuntimeJobs`, `RuntimeJobsProofs` | the supervisor, its workers, the Gateway's part, faults and time, over `JobRows`; the kinds of task and symmetry; theorems |
| `JobLife` | the abstract specification of a job: what those who submit one may rely on |
| `SessionLanes`, `MCSessionLanes`, `SessionLanesProofs` | the lane scheduler, its instances, theorems |
| `WorkflowRows` | one workflow run with its steps, and every transaction of `SqliteWorkflowStore` on it |
| `DurableWorkflows`, `MCDurableWorkflows` | the workflow runtime, and its instances |
| `EventIngress` | sources, watches, deliveries and their dispatches, over `JobLife` |
| `CronSchedule` | the schedule file, the cycle and its dispatches, over `JobLife` |
| `AutomationProofs` | theorems about `EventIngress` and `CronSchedule`, alone and in `MCAutomation` |
| `AgentGraphs` | one governed graph: runner, rows, audit, children, fences |
| `ApprovalFlow` | one approval from its proposal to its use |
| `GatewayInstances` | Gateways over one state directory |
| `FileLocks`, `FileLocksProofs` | the two locks shared through the file system, theorems |
| `WorkspaceMutations` | governed changes of files by several processes |
| `StateLifecycle` | upgrade, interrupted upgrade, backup and restore |
| `Installer`, `InstallerProofs` | installation, update, rollback and removal of the program, theorems |
| `AsyncTelemetry` | the telemetry buffer |
| `ChannelRouter` | the way of a chat message |
| `McpHost` | the cached host of one MCP server |
| `ProcessRecovery`, `SandboxRecovery` | the journals of spawned processes and of containers |
| `JournalProofs` | theorems about what `MCServices` runs: graphs, the MCP host and both journals |
| `DurableWorkflowsProofs` | theorems about `DurableWorkflows` and the transactions of `WorkflowRows` |
| `MCAutomation` | `DurableWorkflows`, `SessionLanes`, `EventIngress`, `CronSchedule` side by side |
| `MCServices` | `AgentGraphs`, `McpHost`, `ProcessRecovery`, `SandboxRecovery` side by side |
| `MCPlatform` | the remaining small components side by side |
| `PlatformProofs` | theorems about what `MCPlatform` runs: approvals, Gateways, workspace, upgrades, telemetry, channels, and beside them locks and installations |

An operator marked *faulty* is a mistake the code does not make; it is used by
nothing, and stands before the operator that it is a variant of. Each property of
a run has one that it was seen to find.

### RuntimeJobs

`db[j]` is the row of a job: status, attempts, lease (a token), the lease rows
not yet released (`open`), and the current attempt (`num`, `state`, `owner`)
with what the worker wrote into it. A token `g` stands for one run: the
supervisor's handler (`run[g].pc`), the worker process it started (`run[g].wk`),
the reason of its abort, and whether the worker was killed. `active`,
`volatile`, `draining` and `timer` are the supervisor's fields. A *kind*
(`MCRuntimeJobs`) says what the program distinguishes of a task: retry-safe or
not, recoverable from its redacted row or not, needing approval, with a
protected result (`agent.run` of a channel), with a cancellation fence
(`agent.delegate`), ending gracefully (`process.exec`).

* Grain: a transaction is one step, and so is a handler between two awaits.
  `MustSettle` and `Idle` make the microtasks of a settled promise run before
  the next timer, as the event loop does. The drain loop is several steps, since
  each of its claims awaits.
* A killed worker may go on for a while (its signal and disconnect handlers are
  asynchronous): it may still admit, dispatch or settle. It ends by itself at
  some moment (`WorkerExits`).
* The workers of a dead supervisor end before its leases do (`Expire`), unless
  `Stalls` is set: the machine may then sleep past a lease.
* Whether the worker's checks refuse a task is a choice (`WorkerRefused`,
  `WorkerDenied`); policy is not modelled.
* When the instance lease is lost every executor throws in `assertOwned`, so the
  drain loop burns through the queue until the shutdown (`LoseOwnership`).
  A shutdown that exceeds its own deadline is a `Crash`; the executor's own
  shutdown, which kills its children, is `GraceExpires`.

### JobLife, and what rests on it

`JobLife` knows eight statuses of a job: none, waiting, running, cancelling and
the four ends. A job is created once; goes between waiting and running; once it
is told to stop it can only end; and stays ended, except that an end may be
withdrawn in favour of a review. `RuntimeJobs` implements it: `Life == INSTANCE
JobLife WITH job <- ...` maps a row to its status, and `ImplementsJobLife`
(`Life!JobsSpec`) is both a property of the run `core` and a theorem.
`EventIngress` and `CronSchedule` see a job through `JobLife` only (they
INSTANCE it over their own jobs), so what they are shown to do holds for
anything that keeps that promise. The fairness they ask of a job, that it ends,
is `EventuallySettled` of `RuntimeJobs`.

### SessionLanes

`row[j]` is the stored record, `entry[j]` the scheduler's `ActiveLaneJob`:
`execution` is the executor's promise, `outcome` what the race against the abort
took, and the two flags are `executionSettled` and `logicalSettled`; `locked` is
`lockedLanes`. Operations under `withState` are queued on one promise chain, so
each is one step; only time, executors, faults and the end of the process
interleave with its store call. A write that fails may have been applied or not.
`draining` merges `drainPromise` and `drainRequested`: the gap between the end of
the loop and the `finally` that clears the promise is a microtask in which no
operation of the scheduler can run. Creation times are abstracted: the head of
any unlocked lane may be claimed next.

### DurableWorkflows

`run[r]` holds the columns of `workflow_runs` and, in `step`, the rows of its
steps; a lease token is the number of the attempt it was given to, `past` says
that `lease_expires_at` has passed and `due` that the deadline of a cancellation
or of a failure stop has. `entry[s]` is the entry of `#active` together with the
point `execute()` has reached (waiting for its admission event, or for its
dispatch), and `aborted` is its controller. The drain loop is synchronous: while
`draining` no other handler runs. `claimNext` is faithful to its order of work:
redacted candidates that come before the claimed one are given up in the same
transaction, and a step of the same run may still be claimed. `recover` treats
the runs one by one; which retryable rows its query lists before one that is not
is left open (`Q`). `Misses` stands for the two readings of the clock in
recovery (see [Observations](#observations)).

### EventIngress

`source`, `watch`, `checkpoint` and `delivery` are the rows of its store, `call`
and `aborted` its `#active` map, `timer` the recovery timer. `ingest`, the
heartbeat, the constructor and the timer await nothing: one step each, but for a
crash between their transactions (`IngestDies`, `HeartbeatDies`, `StartDies`,
which leave any part of the deliveries claimed). A dispatch is a coroutine that
submits, then polls, and outlives the claim that was taken from it. Events are
numbers below a cursor, which watch matches which is a constant, and a schedule
is a set of instants.

### CronSchedule

`row[c]` is an entry of the schedule file, which every writer replaces as a whole
under the state-mutation lock (one step, all or nothing); `dispatch` holds the
coroutines that claim, submit, acknowledge and wait, of any process, and `manual`
the runs by hand. A plan is a set of instants.

### AgentGraphs

A node lives three times: its row (`node`), the runner's opinion (`result`) and
the physical child (`child`, `call`); the property that they agree is the point.
`phase` is the executor of the parent's tool, `job` the parent's job, which the
supervisor of another process may cancel at any moment. Waves are levels of the
dependency graph.

### ApprovalFlow

`row` is the sealed request, `pc[r]` the point of each HTTP request (approve,
deny, cancel) between its awaits, `worker[r]` the worker of an approved one. An
operation of the store is one step; it purges what has expired. A job that was aborted
before its dispatch ends `cancelled`, later it needs a review (`Settled`).

### GatewayInstances

`owner`, `held` and `epoch` are the lease row; `up[i]` and `mine[i]` a Gateway and
the epoch that it acquired; `flight` holds the instances with an admitted
operation on its way. An instance is one process and does not come back.

### FileLocks

One call of the file system is one step. The lock of the approval store may
recover a file without a readable owner (`RecoversTorn`), that of state mutations
may not. Markers are named after the very file they recover, and are recovered in
the same way.

### WorkspaceMutations

A file's content is the number of the boundary that wrote it; `rows` the
boundaries with their statuses and whether their manifest is there; `proc[p]` the
point of a process between two file operations. Recovery runs at the start of a
process, outside the lock, from statuses that it read once. What throws may be the
ledger itself, so that neither failure nor review is recorded (`Throws`, `Settle`).
The ghost `fate` says what became of a change when its owner left it: `applied`,
`undone`, all `written`, or half done. One that is half done is `torn` when nothing
may take it for complete any more: its manifest was never bound, or its failure is on
record and nobody has read it as `verifying` before. The others are `disputed`: a
recovery that trusts `verifying` completes them, whatever their files say (finding
`half_done`). `TornStaysBlocked` speaks of the torn, `ReviewStaysStep` of both; the
second is what the document says, and what the code does not do.

### StateLifecycle

A tree is its schema and the number of the user's last change. Every copy, rename,
marker and removal is a step of its own, with a crash or an exception between any
two. `DirectGateway` is the entry that creates the directory before it recovers.

### Installer

`me[p]` is a process: the command that the user gave (`cmd`), the installer that it
runs for it (`child`) and the point this has reached; `run` makes a pid of its name.
The files of the prefix are the other variables, each written by a step of its own
under the lock. A process dies at any point; a failing write ends the installer,
which gives the lock back, and with it the command, or starts its rollback. On
Windows an activation writes a marker, and a finalizer that the command leaves behind
waits for its exit; the next command or start may be sooner. A launcher is known by
the token of its activation; version 1 has the layout without them. The ghosts say
what a property needs of the past: `before` what the pointer was, `crossed`, `torn`
and `overtaken` the cases of [Observations](#observations) that it leaves out. Once a
lock was taken from a living process (`stolen`) the model ends.

### AsyncTelemetry, ChannelRouter

Both follow the callbacks of one process. In the first, what settles a batch, the
continuation that counts it and the `finally` of the pump are separate, because
the exporter may settle between them. In the second, a delivery goes claim, queue,
run, poll, send, commit or release; a claim names no owner and lapses when it likes.
Every write of the dedupe file may throw, since its lock is bounded and fails closed.
In the commit the delivery is tried as a failure, in the catch of `run` the rejection
ends the process, and in the admission (the claim, and the release of a message
that is refused) it only rejects `deliver()`: the adapter lives on, and the claim
stays without a delivery until it lapses. The ghost `orphans` holds the messages with
such a claim, and with one that a crash left; `ClaimsHeld` says that there are no others.

### McpHost, ProcessRecovery, SandboxRecovery

`McpHost` keeps apart the promise that a client holds and the physical work that
outlives a timeout, both for calls (`told`, `tool`) and for a discovery
(`waiting`, `at`). `ProcessRecovery` and `SandboxRecovery` are a journal and what
it stands for, the child or the container: a rewrite of the journal, a spawn and a
look are separate steps, a write may fail and the program may die after each. The
engine may create or start a container after the client that asked is gone
(`Engine`).

### Side by side

The small components share no state, so a run may hold several: the first state of
an MC bundle picks a part, only that part moves, and the variables it lacks stay
pinned. The run then asks one question (*what is recorded is true*; *nothing is
lost*; *nobody waits*) of each part, and its state space is the sum of theirs. The
formulas in the bundles name those of the modules, where they are explained.

## Runs

| run | configuration | shows | distinct states |
|---|---|---|---|
| `core` | one job of each kind, three leases, two attempts, two faults | leases, rows and attempts agree; an unsafe effect starts once; outcomes are neither made up nor lost; one owner; the job lives the life of `JobLife`; it ends or waits for the operator | 128 879 |
| `stalls_pair` | two jobs, one slot, the machine may sleep past a lease, the instance lease may be lost | no run too many; a stale run settles nothing | 892 034 |
| `lanes_core` | three jobs, two lanes, two slots, two faults | order and exclusion of a lane; published outcomes are true | 931 491 |
| `automation` | a workflow of two steps (side by side, and in a chain), two lanes with one slot, an event source and a schedule watch, a cron schedule | no trigger lost or run twice, effects once, outcomes true, run and steps agree, stops end, nothing is forgotten | 294 897 |
| `platform` | approvals, four Gateways, two processes at two files, two file locks with four processes, the installer on Unix and on Windows, upgrade and restore of the state, telemetry, channels | effects approved; handovers clean; a half-done change blocks, no update is lost; locks exclude and are freed; installations start and can be rolled back; the last change survives; records and replies are counted once; nobody waits | 1 151 753 |
| `services` | a graph of three nodes, an MCP server with two calls, a process, three executions of a container | row, audit and children agree; callers are told what happened; what lives is in a journal; what is stopped or in review takes nothing late; nobody waits | 874 183 |
| `fresh_input`, `interrupted`, `wf_review`, `half_done`, `upgrade`, `sandbox_create` | | a finding each, see [Findings](#findings) | |

`PROJECT.json` lists the properties of each run, and for each a mutant: a
plausible mistake in the code under which the run finds the property violated.

### Bounds, and why they are enough

* *Jobs.* A lease token (`MaxClaims`) is used up by every dispatch: three allow a
  first run, a retry and the refusal of another, or a run, an approval and a
  restart; `MaxAttempts = 2` makes both sides of the limit reachable. Jobs interact
  only through the slot, the drain loop and the recovery that runs over all of
  them, so two show every interaction in pairs. `MaxFaults` counts crashes, worker
  crashes, store failures and lost ownerships: two are a fault, and another during
  or after the recovery from it.
* *Lanes.* Three jobs allow two in one lane while another lane is busy, or three in
  one; the liveness properties use two jobs and one slot.
* *Workflows.* Two independent steps are the smallest run in which the failure of
  one stops another, two chained ones the smallest in which one waits; a second
  claim is a retry, or the continuation after an approval. `MaxClaims` also bounds
  resumptions, which the program does not.
* *Events, cron.* Two events and two instants give a duplicate, a successor and a
  gap; the source and the schedule are not explored together (`OneKind`). Two
  plans, two changes and three instants let a plan change under a leased occurrence.
* *Approvals.* Two approvers, a denier and a canceller are every pair of competing
  requests. *Gateways.* Four, one of them on another host: an owner that stalls, its
  successor, and two that compete to follow; two stalls or deaths. *Locks.* An owner
  that dies, a recoverer that dies at its marker, and two more that compete for it.
* *Workspace.* Two processes, two files, two changes, two troubles: a change that dies
  and one that comes upon it, or one whose publication fails and whose rollback dies,
  with a process that starts beside it. *State.* Two changes by the user and three
  interruptions: a crash, one in its recovery, one more.
* *Installation.* Unix: two processes that run two commands each, from nothing, with a
  failure: an installation, an update, and what comes between or after it. Windows:
  two commands on an installation, with a failure, finalizers and starts beside them,
  and versions on both sides of the legacy layout. `MaxAttempts` is one instead of 100.
* *Telemetry.* A queue and a batch of two with three records: overflow, a full and a
  partial batch, one flush beside the pump. *Channels.* Two messages in two
  conversations with room for one, three deliveries: a redelivery beside the
  first and a conversation that waits.
* *Graphs.* Three nodes with one edge, two slots: a wave of two and one that
  depends. *MCP.* Two calls with room for one, two versions, one change, two
  discoveries: every pin may be stale. *Process, sandbox.* Three troubles (failing
  writes and deaths): one in an execution, one in its clean-up, one in the
  reconciliation; three containers, so that a lost one meets two later executions.

Deadlock is checked for `RuntimeJobs`. The other passing configurations say
`CHECK_DEADLOCK FALSE`: a degraded scheduler that was shut down, an instance that
is gone, a call that was answered really stop, and the bounds stop the rest.

Not claimed, because the program does not have it: under `Stalls` an effect may
be started twice, an attempt limit exceeded, and two workers overlap. A lease is
a lease: recovery gives away the job of a machine that sleeps. What holds then is
what `stalls_pair` checks, and only for kinds without a protected result: a
stalled channel run may still move its requeued job to `needs-review`
(`adoptProtectedResult` is fenced by a snapshot read at settlement). With a lost
instance lease `OutcomeHonest` and `ProjectionAgrees` do not hold either; the
finding `interrupted` is the reason. `OutcomeHonest` leaves out `agent.run` and
`agent.delegate`, whose descriptors say that they are pure though they are not
retry-safe.

## Fairness

* `RuntimeJobs!FairSpec`: the event loop serves every callback that keeps
  becoming due (strong fairness, since other handlers run in between); the drain
  loop goes on, a worker that was told to exit does, time passes, and a process
  that is down is started again (weak). A tool may hang for ever, clients and
  operators may never act. The ends of jobs then rest on the program's own
  timeouts, leases and recovery.
* `MCAutomation!SumFairness`: for workflows, the drain loop goes on, the recovery
  timer fires if it keeps being armed (strong; its enabling condition is written
  out, as the action is too large to be expanded again in every state), a process
  that is down comes up again, leases that nobody renews lapse, deadlines pass.
  Nothing of dispatches, heartbeats or clients: a stop must end by its deadline
  alone. For lanes, what is queued on the promise chain and the drain loop are
  served; nothing of executors or timers (`NoneForgotten` assumes in its statement
  that executions end). For events and cron, dispatch coroutines, the timer, the
  cycle and the restart go on, leases lapse, and jobs end, which is
  `EventuallySettled` of `RuntimeJobs`.
* `MCPlatform!FairSpec`: a process that has begun to recover a dead owner's lock
  goes on; the event loop runs what telemetry and the router have under way, and a
  chat job ends. Nothing of exporters, approvers or Gateways.
* `MCServices!FairSpec`: timers fire and the executor of a graph goes on. Nothing
  of children, servers or engines.

One part moves in a behaviour, so fairness of a disjunction over parts is the
fairness of each. The modules state their liveness properties for themselves
(`AbortSettles`, `StopsInTime`, `DeliverySettles`, `RunReturns`, ...); the bundles
check them as one `[]<>` each.

## Theorems

TLC shows the properties on the instances above; TLAPS proves these for all.

* `RuntimeJobsProofs`, for any finite set of jobs, any kinds, any number of lease
  tokens and faults, with and without stalls and loss of ownership (assumptions
  `JobsAssumption` and those of `JobRows` on the bounds and on the kinds):
  `TypeCorrect` and `LeaseLedgerHolds`. The ledger alone is not inductive: the
  steps of a run read the row of *its* job, and a run with a token that was never
  issued has none. `IInv` adds `RunsHaveJobs` (every run beyond its start has a
  job) and the types. One lemma for each operator of `JobRows` (what it keeps of
  `LedgerConsistent`), one step for each action.
* There too, `ImplementsJobLifeHolds`: `RuntimeJobs` implements `JobLife`,
  with or without loss of the instance lease, for kinds that are not
  retry-safe if they end gracefully or need a fence (`NoUnsafeRetry`: `process.exec` and
  `agent.delegate`) and while no lease of a live run lapses
  (`~Stalls`). The invariant is `IInv` with four parts: a run that goes on
  holds its row (`RunsGoverned`) and obeys its abort (`RunsObey`),
  tokens above the last are fresh (`FreshTokens`), and a supervisor that is down
  has no run (`QuietWhenDown`). Every action keeps them and moves each row
  lawfully (`AllLawful`); the mapping `Told` turns a lawful move into one of
  `JobLife` or a stutter. Under `Stalls` the refinement may fail: the entry of a
  second run is deleted by the id of its job, and a quarantined job may then end
  `failed`.
* There too, on who works on a job, how often, and who may settle it, for any finite set
  of jobs, any number of tokens, of faults and of claims. A run may be forgotten by its supervisor and go on in its worker, so each
  invariant speaks of whoever is *present* (a handler or a worker).
  * `StaleNeverSettlesHolds`, an action property, and `CapacityHolds`. Both are proved
    while no lease of a live run lapses and nothing but the retry-safe is retried
    (`Steady`); with such lapses the first is proved for kinds without protected results,
    and the second for a concurrency of one. Neither condition can be dropped, see
    [Observations](#observations). The invariants are `StaleInv` (what was persisted was
    so with the lease) and `Entered` (every run has the entry of its job in the active
    map, so that counting entries counts runs).
  * `SingleOwnerHolds`, under `Steady`. `OwnInv` says who is present on a job that may
    not be repeated: whoever holds its lease, alone, until it has ended (`UnsafeHeld`,
    `UnsafeAlone`); when a lease lapses nobody is present (`LapsedIdle`).
  * `AtMostOnceUnsafeHolds`, under `~Stalls` and `ToolKinds` (what needs approval is not
    retry-safe: `tool-safety.ts:22-34`). `OnceInv` has three parts for each job:
    `Shaped` says that a job waits for the operator, and is continued, only if its tool
    asks; `Once` says that an unsafe job has one attempt, and that its effect takes it
    out of the waiting states for good; `Tried` counts: effects and runs that may still
    start one never exceed the claims of the job. To prove them every action is first
    digested to what it may do to one job (`StepsOf`, `Moved`, `Goes`, `Aside`), with a
    `Cause` for every end of a job whose attempt has not ended.
  * `OutcomeHonestHolds` and `ProjectionAgreesHolds`, under `~Stalls`, `ToolKinds` and
    `~OwnershipLoss`: without the last neither is true (finding `interrupted`; a worker
    killed with the lost instance may still admit the first attempt of its failed job).
    `KnownInv` adds to `OnceInv` why a worker is killed (`KilledWhy`) and for each job
    what its rows and its present runs know of the effect: a completion was audited,
    or reported by the graph, before anything repeats it (`PublishedRow`,
    `ReportedRun`); the worker of an unsafe job owns its attempt until it is told to
    stop (`Owns`), so one that fails has closed it (`Failed`), and nobody ends it while
    the effect is under way but for a review (`Unended`, `UnsafeRow`).
* `SessionLanesProofs`, for any finite jobs and any lanes, limits, sizes and faults
  (`LanesAssumption`): `LanesTypeCorrect`, `LaneExclusiveHolds`, `LaneOrderHolds`,
  `SequencesUniqueHolds`, `ExecutedOnceHolds`, `OutcomeToldHolds` and the action
  property `TerminalFinalHolds`. All follow from one invariant, whose parts need
  each other: `Entries` (which flags, promises and outcomes of an entry go
  together), `Records` (an entry that has not settled has a running record, and
  only such a one), `Returns`, `LanesApart` (a physical execution keeps its lane
  locked), `StoppedIdle` (a stopped scheduler has no unsettled entry: this lets
  `start` quarantine running records without losing one), `LaneOrder` and
  `SequencesUnique`. That a new sequence is above all of its lane needs a maximum
  over a finite set, hence `Bounded`, which TLC cannot evaluate and does not need.
* `DurableWorkflowsProofs`, for any runs and steps, whatever they depend on and of
  whatever kinds, any attempts, claims and faults, and with or without leases that pass
  while `recover()` runs (`WorkflowsAssumption`; that a run has a step is the parser's
  rule, `protocol/src/workflow.ts:182`): `WorkflowTypesHold`, `EffectfulOnceHolds`,
  `OutcomeKnownHolds` and `RunAgreesHolds`. The invariant has one part for each step and
  one for each run. `StepSound` relates the row of a step, its entry of `#active` and
  what was dispatched: whoever is in an entry runs under the lease of that entry or was
  sent to review, one that ended has no lease, and an effectful step that is queued,
  waits for approval or is being admitted has not begun, which is why no retry,
  recovery or resumption repeats it. `RunSound` says
  that a run is over exactly when its steps are, that a step that went wrong has begun
  the end of its run, and conversely; it is claimed of the runs of which no input was
  redacted, as `RunAgrees` is, since `claimNext` leaves the rest of such a run alone.
  `QuietWhenDown` is what makes a restart safe: `start` recovers without looking at
  entries, and there are none. Each transaction of `WorkflowRows` has a lemma that says
  what it does to the steps (`Milder`: one not begun is cancelled, one that runs is put
  to review, one that ended is left alone) and that it keeps `RunSound`; each handler
  then has to be looked at for one step or one run only.
* `AutomationProofs` has both kinds of triggers, `CronSchedule` as an instance.
  `DeliveredOnceHolds`, `SettledTrulyHolds` (an action property) and
  `IngressTypesHold`, for any watches, schedules, events and faults (`Declarations`:
  watches and schedules have names of their own, and an occurrence is an instant after
  `NoTick`). The invariant is about keys: one that nobody claimed has a
  row that was never claimed, and what is dispatched or has a job was claimed
  (`ClaimsTrue`). Every transaction that writes rows before they are claimed, complete or
  cut short by a death, is one of those that only add rows and send some to review
  (`RowsKept`), so that one lemma serves them all (`DispatchSound`); `TickedDue` shows
  that a checkpoint never passes two occurrences at once. `NoneLostHolds`,
  `OutcomeTrueHolds` (an action property) and `CronTypesHold`, for any schedules, plans and changes of them
  (`Calendar`: the occurrences of a plan are instants of the clock). The invariant adds
  that a dispatch past its submission has its job (`DispatchTrue`), which is why an
  acknowledgement may give up the lease; that `nextCronWake()` finds the first
  occurrence, so that a claim moves past one at most, needs the well-foundedness of the
  naturals (`FirstInstant`, `NextAfterFirst`).
* `PlatformProofs`, `HandoverCleanAlways`, for any instances, hosts, stalls
  and deaths: what two Gateways have in flight never overlaps, but for one that
  stalled for a whole lease while another host was there to take over, or one that
  gave up its lease at the deadline of its shutdown. The invariant adds that the row
  says truly where its owner is and which epoch it acquired (`RowTrue`), that an
  owner with work in flight whose lease expired or was given back is excused
  (`OwnerExcused`), and so is whatever else is in flight beside the owner
  (`FlightTrue`).
* There too, with `ApprovalFlow` as an instance, `EffectApprovedAlways`, for any requests, cancellations and
  crashes (`Disjoint`: an approve request is neither a denial nor a cancellation): of one approval at most
  one effect starts, and only when approved and not denied. The invariant adds that
  what the store holds was not denied and is gone once there was an effect
  (`ApprovalTrue`), that one approve request at a time is at work, for a job that is its
  own (`OneAtWork`), and that workers and effects belong to it while the job goes on
  (`WorkOwned`).
* There too, `LedgerExactHolds`, `FlushHonestHolds`, `AwakeHolds` and `TelemetryTypesHold`
  of `AsyncTelemetry`, for any bounds, flushes and records. `Ledger` says that records are
  settled in the order of their sequence: what is settled, the batch and the queue are
  consecutive, so that `settled` alone tells which are out. `FailuresKnown` adds what a
  call of `flush` has seen when it looks again, and `Wakeful` that a pump, a timer or an
  exporter that has not let go stands for whatever waits.
* There too, `NoLostUpdateHolds` (an action property) and `ChangesShapesHold` of
  `WorkspaceMutations`, for any processes, files, boundaries and troubles
  (`ChangesAssumption`: no process is called "free" or "dead"). The invariant ties what a
  process reads to the lock: who is past `lock` holds it, and only the holder writes, so that
  the files still are what it compared with its preview. On this stands
  `TornBlocksHolds` (`TornStaysBlocked`), for any number of troubles too. `HonestInv` says
  that a torn boundary without its manifest is not complete and that one with it has its
  failure on record (`RowHonest`, `Sealed`), that nobody who is starting has read the
  latter as `verifying` (`Misread`), hence no recovery completes either; and whoever found
  one at its start keeps it for review (`Reviewed`) and begins nothing.
* There too, `DataSurvivesHolds` and `UpgradeTypesHold` of `StateLifecycle`, for any number
  of changes and interruptions: a whole copy of the newest data is in a protected backup, or
  is the active tree, and until there is such a backup nothing touches that tree.
* There too, `RepliedOnceHolds`, `ClaimsHeldHolds`, `CountsTrueHolds` and `RouterTypesHold`
  of `ChannelRouter`, for any messages, deliveries and faults and finitely many
  conversations (`RouterAssumption`; a message is tried at least once), whichever
  writes of the dedupe file throw. One reply is
  not inductive: the invariant counts with the replies that got through the deliveries that may
  still answer and, while nobody has claimed the message, the claim itself; together
  they never exceed one and what is excused (`Answered`). Of a conversation it says
  that its queue holds those that wait, each once, and that exactly one delivery is at
  work in it while it is active (`Waiting`, `Manned`). `DrainKeeps` says once what the
  drain at the end of two handlers does to both.
* `JournalProofs` has both journals, `ProcessRecovery` as an instance.
  `NoStrayHolds` and `QuarantinedHolds`, for any number of failing writes and deaths: a
  process that lives is in the journal, and what is left for review stays there, with
  nothing spawned beside it. The invariant adds where the supervisor is: at work it has
  its record, one that has not spawned yet has no child, and one that has still says
  `launching` (`SupervisorAtWork`). `BoxesKnownAlways`, for any number of executions and
  faults: a container that exists is in the journal, but for one that the journal
  cannot know of, which never runs. The invariant adds that a create in flight is one
  that its execution waits for, or that the record's reason tells of, or that is
  unproved (`AskedKnown`), and what an execution has asked for where it stands
  (`AtWork`).
* There too, `GraphHonestHolds`, `LastWordHolds`, `FenceHoldsAlways` (an action property)
  and `GraphTypesHold` of `AgentGraphs`, for any nodes, any dependencies and any number of
  faults. Of each node the invariant says what the place of its call tells of its child
  (`CallTrue`), and of the executor what each of its phases tells of the row: while it runs
  nothing is published, and its last word is that of the row.
* There too, `McpTruthHolds`, `StopHolds` (an action property) and `HostTypesHold` of
  `McpHost`, for a finite set of calls and any versions, changes, discoveries and faults
  (`HostAssumption`). The invariant gives for each call what its place tells of its tool
  (`CallSound`); it counts what was launched and not only what runs (`Crowded`), since a
  launch is admitted before its tool begins, and a host that stops has told its calls to
  (`StopTold`), so that a launch that comes late is refused.
* `FileLocksProofs`, for any processes (`LocksAssumption`: none of them is called
  "none"), any number of deaths, with and without the recovery of files that name
  nobody: `LockExclusiveHolds` and `LockShapesHold`. The property
  is short of inductive by little, and that little is the idea of the lock: a process
  about to set a file aside has seen whose it was, and it still is (`Aims`). Nobody else
  may have moved it meanwhile, for a second one that aims at the same file has seen the
  same owner, so wants the same marker, and a marker has one owner (`StepKeeps`). Besides,
  a marker's path names the dead, each once, and not the owner of the file at it
  (`FileSound`, `WantSound`): therefore a chain of markers is not longer than
  there were deaths (`ShortEnough`, by the pigeonhole principle of the library).

* `InstallerProofs`, on Unix and on Windows, for any commands, activations, runs, faults and
  versions (`InstallerAssumption`: versions are numbered from 1, and an activation is not
  called like a command or "none", "plain" or "defer"): `InstallerSound` (what the launchers
  start is there, the version before is the one to roll back to, an uninstall is final) and
  `InstallerTypes`. The property speaks of what a command finds when nobody holds the lock;
  the invariant says what is on the disk between any two writes. Nobody but the holder of
  the lock writes (`Locked`), and of each process `Standing` says what its place tells: the
  version it goes to is installed and the one to come back to is chosen before the launchers
  change (`Aimed`), launchers and marker say what it has written of its activation (`Marked`),
  an activation that is completed starts from the pointer before it or at it (`Applied`), and
  an uninstall has removed what it has passed (`Removed`). `Known` says of the record and
  the marker together what was current before: that is what makes a write cut short
  recoverable from either.

  `InstallerTells` is the action property `InstallTold`, over a second invariant,
  `KInv`. Any process may complete an activation later, from its marker alone, so the
  marker must tell for whom it is (`Signed`: a command past its marker is the one that
  the marker names, and where it has moved the pointer to is the version there) and,
  once that command has reported, the pointer must be there already (`Noted`). What an
  update reports is harder, for it runs a second installer, the rollback, which takes
  its target from a record that others write: from the moment its release is on the
  pointer until the update ends, the record, the marker and every errand that goes to
  the same version have the version before as the one to go back to (`Behind`,
  `Recorded`), unless another command moved the pointer; `Course` follows one update
  through both installers.

* *Side by side.* The bundles run these parts as they are, and the last section of
  `JournalProofs`, `AutomationProofs` and `PlatformProofs` carries the theorems over to
  them, so that the very formulas of the runs are proved: `ServicesTypesHold`,
  `ServicesGraphTruth`, `ServicesMcpTruth`, `ServicesNoStray`, `ServicesGraphFenced` and
  `ServicesStopsHold`; `NothingLostHolds`, `OutcomesTrueHolds` and `AutomationTypesHold`; `PlatformEffectApproved`,
  `PlatformTypesHold`, `PlatformLockExclusive`, `PlatformTelemetryTruth`,
  `PlatformChannelTruth`, `PlatformUpgradesSound`, `PlatformUpdatesKept` and
  `PlatformHalfDoneBlocks`. For this the bundles take the values
  of all their parts as constants, and the configurations give them; the assumptions are
  those of the parts together. Each part's initial states and steps keep its invariant
  while it is the part that moves, and a part that waits is not spoken of. Both
  locks are instances of `FileLocks`, and both installations of `Installer`:
  `PlatformProofs` takes their invariants from instances of `FileLocksProofs` and of
  `InstallerProofs`, as `AutomationProofs` takes that of lanes from one of
  `SessionLanesProofs`. Of workflows only the claims look at what a step waits for
  (`OtherNext` is all the rest): for the part "chain" they are those of an instance of
  `DurableWorkflowsProofs` with its dependencies. The types of Gateways need that there are finitely many: an epoch is
  the number of those that ever had the lease (`Successions`).

Only model-checked are the liveness properties: the prover has no fairness. Every safety
property that a passing run checks is proved; of
`DurableWorkflows` the fairness that `StopsInTime` and `OrphanRecovered` need is not
within the prover's reach.

## Findings

Each is a run whose property is a sentence of the repository and which TLC
violates. `PROJECT.json` quotes the lines.

1. `fresh_input`: the recovery timer of a running supervisor fails a queued job
   with redacted input although the supervisor still holds that input.
2. `interrupted`: when the instance lease is lost, an unsafe run that was killed
   after its dispatch is recorded `failed`, not `needs-review`.
3. `wf_review`: a run in `needs-review` is brought back by a sibling step that
   asks for approval.
4. `half_done`: a process that starts and reads `verifying` completes that boundary
   later, although its publication has failed meanwhile, its review is on record and
   its rollback died between two files: the change is half done, and nothing blocks.
5. `upgrade`: after a crash between the two renames of an upgrade, a Gateway that
   is started directly creates an empty state directory, takes it for the upgraded
   tree and deletes the displaced one; only the protected backup keeps the data.
6. `sandbox_create`: a reconciliation to which the engine does not answer replaces
   the reason that would keep the record of an uncertain create, and the next one
   clears it.

## Observations

Seen while modelling. The first four disagree with a sentence of the repository,
and TLC refutes the operator or shows the behaviour, in an instance that is not one
of the runs; the others have no sentence against them, or were seen while reading.

* `session-lanes.ts:619`: a scheduler that has just become degraded launches the
  job it had claimed (`NoDispatchDegraded` of `SessionLanes`; comment at 357-358).
* `store-sqlite/src/workflows.ts:505`: recovery misses a lease that lapses between
  its two readings of the clock (`Misses = TRUE` refutes `OrphanRecovered`;
  `docs/runtime-ledger.md:23`). It needs two leases that end within milliseconds,
  a concurrency above the Gateway's one, and a quiet system.
* `mcp-runtime.ts:293`: a refresh that lists a new executable but then fails its
  audit, times out or is late has recorded the fingerprint already; a cached
  discovery then gives the old tools with the new fingerprint, and a call passes
  (`PinnedTools` of `McpHost`; `docs/cached-mcp-host.md`).
* `checkpoint-coordinator.ts:357`: a process that starts while another publishes its
  boundary sends that boundary to review, though nothing was interrupted; from then on
  every governed change is refused (`ReviewMeansTrouble` of `WorkspaceMutations`;
  `docs/operator-console.md:128-130` keeps `needs-review` for an interruption).
* Runtime jobs: a live timeout leaves a retry-safe attempt `running` and its retries
  refused (`store-sqlite/src/index.ts:1087`); a failed cancellation fence leaves a
  lease row open on a terminal job (`runtime-jobs.ts:740`); an entry of
  `volatilePayloads` outlives its job (`jobs.ts:665`).
* Runtime jobs under stalls: the active map is keyed by the id of the job, so a second
  run of a job replaces the entry of the first, and with a concurrency above one a run
  too many may start (`jobs.ts:672`; `stalls_pair` has a concurrency of one);
  `adoptProtectedResult` does not compare the lease token, so a run that was suspended
  may publish its persisted result over the lease of another (`stalls_pair` has kinds
  without protected results). A queued job whose killed worker still runs may be
  cancelled, and its attempt stays `cancelling` (`Withdrawn` of `RuntimeJobsProofs`).
* Workflows: with a concurrency above one recovery may quarantine a sibling that is
  then dispatched all the same (`workflows.ts:200`); the Gateway replaces the abort
  signal of a step by that of its instance lease (`server.ts:973`).
* Events: a schedule without a checkpoint looks back one millisecond at its first
  heartbeat. Cron: what a manual run records may replace a later outcome.
* Graphs: those of direct tasks stay live for ever after a crash; two of the codes
  that a graph may end with are not among those recovery publishes
  (`NODE_DISPATCH_PERSISTENCE_UNCERTAIN`, `GRAPH_VALIDATION_PUBLICATION_UNCERTAIN`).
* Locks: a process that dies between the creation of a state-mutation lock and the
  write of its owner leaves a lock that nobody recovers.
* Workspace: a boundary whose process dies with its rollback before the failure is on
  record stays `verifying`, and the next start completes it whatever the files say
  (`disputed`); a process that waits for the lock of one that dies in the middle of a
  change is not blocked by it.
* State: a crash after the marker says `cutover-started` and before the rename makes
  every later start throw; a restore that dies between its renames leaves no marker.
* Installation. `lifecycle.ts:218` takes an upgrade for a switch only when the installer
  returned: if it fails after the pointer, the update reports a failure and the new
  version stays (`torn`; `docs/user-guide.md:153` says that a failed switch restores
  the previous one). The lock is not held from an upgrade to its rollback: a rollback
  may undo another command's update (`crossed`). Two commands that saw the same dead
  owner may take a lock from the living (`install.ts:1295`, `stolen`). After a crash
  between pointer and record, `update` and `rollback` refuse until an installer has run
  (`assertActivePackage` reads the record as it is). On Windows, a plain `install` does
  not retire a pending activation, which may undo it and then tells of the version to roll
  back to as it was before that install (`overtaken`: `RollbackTarget` claims the latter only
  without such an install; `install.ts:133-154`, `409-417`), and an update that
  failed after its marker was written is completed by the next start. A first
  installation cut short before its record leaves no version to roll back to; an
  interrupted uninstall, whose own lock it does not recover, makes other installations
  fail.
* Improvements: the catch block of an application that was refused because the
  configuration had changed writes its stale original back (`improvements.ts:401-405`,
  unlike the rollback, which refuses at line 446);
  two learners at once may record one application as recovered and as applied.
* Audit store: an integrity check reads the pages and then the head, outside a
  transaction, so an append between the two is reported as a mismatch
  (`store-sqlite/src/audit.ts`).
* Telemetry: after the shutdown, `flush()` returns true while a batch that a
  concurrent flush had started is still out.
* Channels: a claim names no owner, so a commit may overwrite another's; a claim
  left by a crash, or by a write of the dedupe file that failed in the admission
  (`channels/src/index.ts:450`, `455`), drops redeliveries until it lapses; a failing write in the catch
  of `run` rejects a promise that nobody handles; a stale lock of the dedupe file is
  not recovered.
* MCP: a `discover()` that races `close()` starts a host after it; one that ends
  from the cache deletes the context of a concurrent refresh; a late answer after a
  timeout is counted twice.
* Processes and containers: a record without an identity and a process id that was
  used again would be taken for the child; nothing in `src/` clears a record that is
  left for review; a crash while a create is in flight leaves a record without the
  reason that would keep it (`unproved` of `SandboxRecovery`).

## Not modelled

In the parts above:

* Jobs: the integrity check of a protected result, the one-time import of the legacy
  job file, the compatibility `FileJobStore`, the reservation of a reassignment, the
  unused `claim(id)`, the persistent browser worker, and the reconciliation of direct
  tasks (`reconcileExecutionAttemptOwnership`); that a tool other than `agent.delegate`
  may name its own terminal status in its output (`jobs.ts:602-608`, `638`); jobs of equal creation time are
  ordered as if they differed. `recoverPersistedChannelResults` is one step before
  `start`, though it handles one job after another; nothing else runs yet.
* Lanes: a store that holds foreign records, and an error of the scheduler's own
  bookkeeping, which degrades it like a failed read.
* Workflows: digests, projections and listings; a second `start` of a running
  runtime; executions that outlive a shutdown (their leases are gone, so they settle
  nothing).
* Installation: the verification of a release, the check that the state is compatible
  and its backup (`StateLifecycle` has it), the history file, a lock whose owner was not
  yet written (ten minutes of refusal), and a process id that was used again.
* Events: a store that fails in `claimDelivery`, which leaves a queued delivery
  without a token, and so without a dispatch, until a restart. State: the restore that takes
  no backup first (`skipCurrentBackup`, after a failed update, `lifecycle.ts:267-272`).
* Cron: the quarantine of tools that may not run unattended (`quarantineLiveOnly`).
  Graphs: the reassignment of a node, and the replay of an admitted graph. Channels:
  `stop()`, drafts, what the limits by sender and over all conversations
  count (they may refuse any message). MCP: the table of results, the
  refusal of a `callId` that was used before, and a discovery
  that begins while the runtime is closed. Processes: Windows, where no group is seen.

Whole parts: the Gateway's barrier of mutations and its shutdown, live-only sessions,
the authoritative stores of `store-sqlite`, the audit store, skills, improvements,
snapshots and capsules, memory, policy, protocol, remote adapters, console and the
command line but for its installation and lifecycle commands. Most of them are file operations behind approvals, pure decisions over one
request, parsing, or presentation; the HTTP routes of `server.ts` and the command line,
which make up much of the source, carry little state of their own. `PROJECT.json`
names the reason for each.

## Plan

Left, in order:

1. `AttemptOwnership`: direct tasks, reconciled by another process; the Gateway's
   barrier of mutations and its shutdown.
2. `LaneQueue`: a FIFO queue per lane as an abstract specification, implemented by
   `SessionLanes`.
