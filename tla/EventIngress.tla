---------------------------- MODULE EventIngress ----------------------------
(***************************************************************************)
(* Durable event ingress: the events of an authenticated source arrive in  *)
(* the order of its cursor, perhaps more than once; every watch that       *)
(* matches gets a delivery, and every delivery is claimed under a lease    *)
(* and becomes a durable job (JobLife), whose end settles it.  Schedules   *)
(* are advanced by a heartbeat.                                            *)
(*                                                                         *)
(* Grain of atomicity.  ingest, heartbeat, the constructor and the timer   *)
(* await nothing, so each is one step, but for a crash between their       *)
(* transactions.  A dispatch is a coroutine: it submits, then polls.  It   *)
(* outlives the claim that was taken away from it.                         *)
(*                                                                         *)
(* Time.  The instant of a heartbeat is any (an operator may pass one), so *)
(* no clock is kept; what a lease does is in LeaseLapses.                  *)
(*                                                                         *)
(* Source: packages/kernel/src/event-ingress.ts, automation-primitives.ts, *)
(* apps/gateway/src/durable-dispatch.ts.                                   *)
(*                                                                         *)
(* An operator marked "faulty" is an unused variant of the next one, with  *)
(* a mistake in it.                                                        *)
(***************************************************************************)
EXTENDS Naturals, FiniteSets

CONSTANTS
  Watches,       \* event watches
  Matches,       \* watch -> the events its declaration matches
  Schedules,     \* schedule watches
  Occurrences,   \* schedule -> its occurrences, as instants
  MaxWatches,    \* the capacity of enabled watches
  MaxEvents,     \* bound on the events of the source
  MaxInstant,    \* bound on the instants a heartbeat passes
  MaxFaults      \* bound on store failures, shutdowns and crashes

Events == 1..MaxEvents

(* The idempotency keys: a declaration and what triggered it. *)
Keys == (UNION {{<<w, n>> : n \in Matches[w]} : w \in Watches})
        \cup (UNION {{<<s, t>> : t \in Occurrences[s]} : s \in Schedules})

VARIABLES
  source,      \* the row of the source: [known, enabled, newest]
  watch,       \* watch -> "absent", "enabled", "disabled"
  checkpoint,  \* schedule -> its last tick, or NoTick
  delivery,    \* key -> its row
  call,        \* key -> where its dispatch is: "none", "submit", "poll"
  aborted,     \* keys whose outcome was forced: their dispatch goes on unheeded
  timer,       \* the recovery timer is armed
  up,          \* the process: "down", "up", or "closed" after shutdown()
  job,         \* key -> its durable job
  faults,      \* faults so far
  claims,      \* ghost: key -> claims of its delivery
  due          \* ghost: the keys that the cursor or a checkpoint has passed while
               \* their watch was enabled

dispatchVars == <<delivery, call, aborted, timer, claims>>
vars == <<source, watch, checkpoint, dispatchVars, up, job, faults, due>>

Supervisor == INSTANCE JobLife WITH Jobs <- Keys

NoTick == 0

SETTLED == {"completed", "failed", "needs-review"}

DeliveryType == [status : {"absent", "queued"} \cup SETTLED, token : BOOLEAN, lapsed : BOOLEAN]
Row(status) == [status |-> status, token |-> FALSE, lapsed |-> FALSE]

Declared == Watches \cup Schedules

(* Rows and memory keep the shapes declared above (initialize, #active). *)
TypeOK ==
  /\ source \in [known : BOOLEAN, enabled : BOOLEAN, newest : 0..MaxEvents]
  /\ watch \in [Declared -> {"absent", "enabled", "disabled"}]
  /\ checkpoint \in [Schedules -> 0..MaxInstant]
  /\ delivery \in [Keys -> DeliveryType]
  /\ call \in [Keys -> {"none", "submit", "poll"}]
  /\ aborted \subseteq {k \in Keys : call[k] # "none"} /\ due \subseteq Keys
  /\ timer \in BOOLEAN /\ up \in {"down", "up", "closed"}
  /\ job \in [Keys -> Supervisor!JobStatus]
  /\ faults \in 0..MaxFaults /\ claims \in [Keys -> Nat]

Init ==
  /\ source = [known |-> FALSE, enabled |-> FALSE, newest |-> 0]
  /\ watch = [w \in Declared |-> "absent"]
  /\ checkpoint = [s \in Schedules |-> NoTick]
  /\ delivery = [k \in Keys |-> Row("absent")]
  /\ call = [k \in Keys |-> "none"]
  /\ aborted = {} /\ timer = FALSE /\ up = "down"
  /\ Supervisor!JobsInit
  /\ faults = 0
  /\ claims = [k \in Keys |-> 0] /\ due = {}

---------------------------------------------------------------------------
Fault == faults < MaxFaults /\ faults' = faults + 1

Queued(k) == delivery[k].status = "queued"
Held(k) == Queued(k) /\ delivery[k].token
Lapsed == {k \in Keys : Held(k) /\ delivery[k].lapsed}
Tokenless == {k \in Keys : Queued(k) /\ ~delivery[k].token}

(* #active: the dispatches whose outcome is still waited for. *)
Active == {k \in Keys : call[k] # "none"} \ aborted

(* faulty: a restart does not arm the timer for the claims it finds. *)
RearmOwn == timer' = (up' = "up" /\ \E k \in Keys : call'[k] # "none" /\ delivery'[k].token)

(* scheduleRecovery(): armed exactly while there are claims. *)
Rearm == timer' = (up' = "up" /\ \E k \in Keys : delivery'[k].status = "queued" /\ delivery'[k].token)

(* persistCandidate(): INSERT OR IGNORE, for each of K. *)
Persisted(K) == [k \in Keys |-> IF k \in K /\ delivery[k].status = "absent" THEN Row("queued")
                                ELSE delivery[k]]

(* The rows of K, sent to review. *)
Reviewed(rows, K) == [k \in Keys |-> IF k \in K THEN Row("needs-review") ELSE rows[k]]

(* claimDelivery(): only a queued delivery that nobody ever claimed. *)
Claimable(rows, K) == {k \in K : rows[k].status = "queued" /\ ~rows[k].token}

Claimed(rows, C) ==
  /\ delivery' = [k \in Keys |-> IF k \in C THEN [Row("queued") EXCEPT !.token = TRUE] ELSE rows[k]]
  /\ claims' = [k \in Keys |-> IF k \in C THEN claims[k] + 1 ELSE claims[k]]

(* startDispatch() for K, over rows just written: what is claimed is dispatched. *)
Dispatched(rows, K) ==
  LET C == Claimable(rows, K) IN
    /\ Claimed(rows, C)
    /\ call' = [k \in Keys |-> IF k \in C THEN "submit" ELSE call[k]]
    /\ aborted' = aborted \ C

(* The process ends: what it held in memory is gone. *)
Gone == up' = "down" /\ timer' = FALSE /\ aborted' = {} /\ call' = [k \in Keys |-> "none"]

(* The process dies after it has written rows, and claimed some of K. *)
DiesHaving(rows, K) == Fault /\ Gone /\ \E C \in SUBSET Claimable(rows, K) : Claimed(rows, C)

---------------------------------------------------------------------------
(* Sources and watches. *)

RegisterSource(enabled) ==
  /\ up = "up"
  /\ source' = [source EXCEPT !.known = TRUE, !.enabled = enabled]
  /\ UNCHANGED <<watch, checkpoint, dispatchVars, up, job, faults, due>>

Enabled == {w \in Declared : watch[w] = "enabled"}

RegisterWatch(w) ==
  /\ up = "up" /\ (w \in Enabled \/ Cardinality(Enabled) < MaxWatches)
  /\ watch' = [watch EXCEPT ![w] = "enabled"]
  /\ UNCHANGED <<source, checkpoint, dispatchVars, up, job, faults, due>>

DisableWatch(w) ==
  /\ up = "up" /\ watch[w] = "enabled"
  /\ watch' = [watch EXCEPT ![w] = "disabled"]
  /\ UNCHANGED <<source, checkpoint, dispatchVars, up, job, faults, due>>

---------------------------------------------------------------------------
(* Events.  A source sends an event again with the same content. *)

Admissible(n) == source.known /\ source.enabled /\ n \in {source.newest, source.newest + 1} \cap Events

Candidates(n) == {<<w, n>> : w \in {v \in Enabled \cap Watches : n \in Matches[v]}}

(* ingest(): the cursor moves and the deliveries are inserted in one transaction. *)
Ingested(n) ==
  /\ up = "up" /\ Admissible(n)
  /\ source' = [source EXCEPT !.newest = n]
  /\ due' = IF n > source.newest THEN due \cup Candidates(n) ELSE due
  /\ UNCHANGED <<watch, checkpoint, job>>

Ingest(n) ==
  /\ Ingested(n) /\ Dispatched(Persisted(Candidates(n)), Candidates(n))
  /\ UNCHANGED <<up, faults>> /\ Rearm

IngestDies(n) == Ingested(n) /\ DiesHaving(Persisted(Candidates(n)), Candidates(n))

(* nextAutomationDue() *)
NextDue(s, after) == {t \in Occurrences[s] : t > after /\ \A u \in Occurrences[s] : u > after => t <= u}

(* Without a checkpoint the heartbeat looks back one millisecond. *)
After(s, now) == IF checkpoint[s] # NoTick THEN checkpoint[s] ELSE now - 1

Ticks(now) ==
  {k \in Keys : k[1] \in Enabled \cap Schedules /\ k[2] <= now /\ k[2] \in NextDue(k[1], After(k[1], now))}

(* heartbeat(): each schedule of T gets its delivery and its checkpoint in one  *)
(* transaction.  The timer passes the clock, an operator any instant.           *)
Ticked(T) ==
  /\ up = "up" /\ T # {}
  /\ checkpoint' = [s \in Schedules |->
       IF \E t \in Occurrences[s] : <<s, t>> \in T
       THEN CHOOSE t \in Occurrences[s] : <<s, t>> \in T ELSE checkpoint[s]]
  /\ due' = due \cup T \cup {k \in Keys : k[1] \in Schedules /\ checkpoint[k[1]] # NoTick
                                          /\ checkpoint[k[1]] < k[2] /\ k[2] <= checkpoint'[k[1]]}
  /\ UNCHANGED <<source, watch, job>>

Heartbeat(now) ==
  /\ Ticked(Ticks(now)) /\ Dispatched(Persisted(Ticks(now)), Ticks(now))
  /\ UNCHANGED <<up, faults>> /\ Rearm

HeartbeatDies(now) == \E T \in SUBSET Ticks(now) : Ticked(T) /\ DiesHaving(Persisted(T), T)

---------------------------------------------------------------------------
(* Dispatch: submitDurableEventJob(), then waitForDurableJobTerminal().  *)

(* settleDelivery(): a claim that was lost or has lapsed settles for review; once  *)
(* closed, nothing is written.                                                     *)
SettledRow(k, status) ==
  IF up = "closed" \/ ~Queued(k) THEN delivery[k]
  ELSE IF Held(k) /\ ~delivery[k].lapsed THEN Row(status) ELSE Row("needs-review")

(* The dispatch of k is over, with an outcome that counts unless one was forced. *)
Finish(k, status) ==
  /\ call' = [call EXCEPT ![k] = "none"]
  /\ aborted' = aborted \ {k}
  /\ delivery' = IF k \in aborted THEN delivery ELSE [delivery EXCEPT ![k] = SettledRow(k, status)]
  /\ UNCHANGED <<source, watch, checkpoint, up, due, claims>> /\ Rearm

Submitted(k) == [job EXCEPT ![k] = IF @ = "none" THEN "waiting" ELSE @]

(* Nothing stops a submission that was told to abort: only its poll is. *)
Submit(k) ==
  /\ call[k] = "submit" /\ k \notin aborted
  /\ job' = Submitted(k) /\ call' = [call EXCEPT ![k] = "poll"]
  /\ UNCHANGED <<source, watch, checkpoint, delivery, aborted, timer, up, faults, due, claims>>

SubmitUnheeded(k) ==
  /\ call[k] = "submit" /\ k \in aborted
  /\ job' = Submitted(k) /\ Finish(k, "needs-review") /\ UNCHANGED faults

SubmitFails(k) ==
  /\ call[k] = "submit" /\ Fault
  /\ job' \in {job, Submitted(k)} /\ Finish(k, "needs-review")

(* faulty: the status of the job, as it is. *)
StatusForRaw(status) == status

(* eventDeliveryStatusForJob() *)
StatusFor(status) ==
  CASE status = "completed" -> "completed"
    [] status \in {"failed", "cancelled"} -> "failed"
    [] OTHER -> "needs-review"

(* faulty: a poll that was told to abort settles like any other. *)
PollEndedAnyway(k) ==
  /\ call[k] = "poll" /\ job[k] \in Supervisor!Ends
  /\ call' = [call EXCEPT ![k] = "none"] /\ aborted' = aborted \ {k}
  /\ delivery' = [delivery EXCEPT ![k] = Row(StatusFor(job[k]))]
  /\ UNCHANGED <<source, watch, checkpoint, up, due, claims, faults, job>> /\ Rearm

PollEnded(k) ==
  /\ call[k] = "poll" /\ job[k] \in Supervisor!Ends
  /\ Finish(k, StatusFor(job[k])) /\ UNCHANGED <<faults, job>>

(* renewLease() fails, or the poll sees its signal: either ends the wait. *)
PollLeaves(k) ==
  /\ call[k] = "poll" /\ job[k] \notin Supervisor!Ends
  /\ k \in aborted \/ delivery[k].lapsed
  /\ Finish(k, "needs-review") /\ UNCHANGED <<faults, job>>

(* Time passes.  A poll renews its lease well before it lapses, unless the whole *)
(* process stalls; a submission never renews.                                    *)
LeaseLapses(k) ==
  /\ Held(k) /\ ~delivery[k].lapsed
  /\ IF call[k] = "poll" THEN Fault ELSE UNCHANGED faults
  /\ delivery' = [delivery EXCEPT ![k].lapsed = TRUE]
  /\ UNCHANGED <<source, watch, checkpoint, call, aborted, timer, claims, up, job, due>>

(* reconcileExpiredDispatches(), as the recovery timer fires. *)
Reconcile ==
  /\ timer /\ Lapsed # {}
  /\ delivery' = Reviewed(delivery, Lapsed)
  /\ aborted' = aborted \cup (Lapsed \cap Active)
  /\ UNCHANGED <<source, watch, checkpoint, call, claims, up, job, faults, due>> /\ Rearm

---------------------------------------------------------------------------
(* The process. *)

(* The constructor: lapsed claims to review, unclaimed deliveries dispatched, *)
(* those whose candidate cannot be read to review.                            *)
Start ==
  /\ up = "down" /\ up' = "up"
  /\ \E unreadable \in SUBSET Tokenless :
       /\ IF unreadable = {} THEN UNCHANGED faults ELSE Fault
       /\ Dispatched(Reviewed(delivery, Lapsed \cup unreadable), Tokenless)
  /\ Rearm /\ UNCHANGED <<source, watch, checkpoint, job, due>>

StartDies ==
  /\ up = "down" /\ DiesHaving(Reviewed(delivery, Lapsed), Tokenless)
  /\ UNCHANGED <<source, watch, checkpoint, job, due>>

(* shutdown(): what is active goes to review at once. *)
Shutdown ==
  /\ up = "up" /\ Fault /\ up' = "closed" /\ timer' = FALSE
  /\ delivery' = Reviewed(delivery, {k \in Active : Queued(k)})
  /\ aborted' = aborted \cup Active
  /\ UNCHANGED <<source, watch, checkpoint, call, claims, job, due>>

Exit ==
  /\ up = "closed" \/ (up = "up" /\ faults < MaxFaults)
  /\ faults' = IF up = "up" THEN faults + 1 ELSE faults
  /\ Gone /\ UNCHANGED <<source, watch, checkpoint, delivery, claims, job, due>>

(* What the supervisor does with a job before it ends is not seen from here. *)
JobEnds(k) ==
  /\ up # "down" /\ Supervisor!Move(k) /\ job'[k] \in Supervisor!Ends
  /\ UNCHANGED <<source, watch, checkpoint, dispatchVars, up, faults, due>>

---------------------------------------------------------------------------
ProcessNext == Start \/ StartDies \/ Shutdown \/ Exit \/ Reconcile

RequestNext ==
  \/ \E b \in BOOLEAN : RegisterSource(b)
  \/ \E w \in Declared : RegisterWatch(w) \/ DisableWatch(w)
  \/ \E n \in Events : Ingest(n) \/ IngestDies(n)
  \/ \E now \in 1..MaxInstant : Heartbeat(now) \/ HeartbeatDies(now)

DispatchNext(k) ==
  \/ Submit(k) \/ SubmitUnheeded(k) \/ SubmitFails(k) \/ PollEnded(k) \/ PollLeaves(k)
  \/ LeaseLapses(k) \/ JobEnds(k)

Next == ProcessNext \/ RequestNext \/ \E k \in Keys : DispatchNext(k)

Spec == Init /\ [][Next]_vars

(* The steps the code's own scheduling sees to; jobs end (RuntimeJobs, EventuallySettled). *)
Progress(k) ==
  \/ Submit(k) \/ PollEnded(k) \/ PollLeaves(k)
  \/ LeaseLapses(k) /\ call[k] # "poll"
  \/ JobEnds(k)

---------------------------------------------------------------------------
(* What must hold. *)

(* Neither a crash nor a duplicate loses or repeats a trigger: each key that the  *)
(* cursor or a checkpoint has passed has its delivery, and none is claimed twice. *)
(* (ingest's transaction, persistCandidate, claimDelivery, heartbeat_checkpoints) *)
DeliveredOnce ==
  /\ \A k \in due : delivery[k].status # "absent"
  /\ \A k \in Keys : claims[k] <= 1 /\ (job[k] # "none" => claims[k] = 1)

(* A delivery tells the truth about its job, and what settled it stays: a dispatch *)
(* that outlives its claim changes nothing (settleDelivery, force, #closed).       *)
SettledTrulyStep ==
  \A k \in Keys :
    /\ delivery[k].status \in SETTLED => delivery'[k] = delivery[k]
    /\ delivery[k] # delivery'[k] /\ delivery'[k].status = "completed"
         => job[k] = "completed" /\ Held(k) /\ ~delivery[k].lapsed
    /\ delivery[k] # delivery'[k] /\ delivery'[k].status = "failed"
         => job[k] \in {"failed", "cancelled"} /\ Held(k)
SettledTruly == [][SettledTrulyStep]_vars

(* Every trigger accepted settles in the end, through crashes and shutdowns: the  *)
(* lease of an abandoned claim lapses, and the timer or a restart sees to it.     *)
DeliverySettles == \A k \in Keys : k \in due ~> delivery[k].status \in SETTLED
=============================================================================
