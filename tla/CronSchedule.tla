---------------------------- MODULE CronSchedule ----------------------------
(***************************************************************************)
(* The Gateway's cron schedules: a state file that every writer replaces   *)
(* as a whole under a lock, a cycle that claims the occurrences that are   *)
(* due under a lease, submits each as a durable job (JobLife) named by the *)
(* occurrence, and records how it ended.                                   *)
(*                                                                         *)
(* Grain of atomicity.  A mutation of the file (CronStore.mutate) reads,   *)
(* changes and renames under the state-mutation lock: one step, all or     *)
(* nothing.  A dispatch is a coroutine that claims, submits, acknowledges  *)
(* and waits; any number of them may be about, of several processes.       *)
(*                                                                         *)
(* Source: apps/gateway/src/server.ts, CronStore and runDueCronJobs.       *)
(*                                                                         *)
(* An operator marked "faulty" is an unused variant of the next one, with  *)
(* a mistake in it.                                                        *)
(***************************************************************************)
EXTENDS Naturals, FiniteSets

CONSTANTS
  Schedules,     \* ids of schedules
  Plans,         \* cron expressions
  Occurs,        \* plan -> its instants
  MaxSchedules,  \* CRON_MAX_JOBS
  MaxClock,      \* bound on the clock
  MaxChanges,    \* bound on requests that change a schedule
  MaxFaults      \* bound on failed submissions, stalls and crashes

Instants == 1..MaxClock
CronKeys == Schedules \X UNION {Occurs[p] : p \in Plans}

VARIABLES
  row,        \* schedule -> its entry in the file
  dispatch,   \* the dispatches in progress: [of, token, at]
  manual,     \* manual runs in progress: <<schedule, start>>
  job,        \* occurrence -> its durable job
  clock, changes, faults,
  tokens,     \* occurrence -> claims so far: the last is the current token
  plannedAt   \* ghost: schedule -> when its plan was last set

vars == <<row, dispatch, manual, job, clock, changes, faults, tokens, plannedAt>>

Supervisor == INSTANCE JobLife WITH Jobs <- CronKeys

Never == 0     \* no next occurrence, no lease, no run

NoRun == [at |-> Never, ok |-> FALSE]

(* nextCronWake(): searches strictly after t. *)
NextAfter(p, t) ==
  LET later == {u \in Occurs[p] : u > t}
  IN IF later = {} THEN Never ELSE CHOOSE u \in later : \A v \in later : u <= v

RowType ==
  [status : {"absent", "disabled", "enabled"}, plan : Plans, next : 0..MaxClock,
   lease : 0..MaxClock, lapsed : BOOLEAN, ran : [at : 0..MaxClock, ok : BOOLEAN]]

(* The file, the coroutines and the jobs keep their shapes (normalizeCronJob). *)
TypeOK ==
  /\ row \in [Schedules -> RowType]
  /\ \A d \in dispatch : d.of \in CronKeys /\ d.token \in Nat /\ d.at \in {"submit", "acknowledge", "settle"}
  /\ manual \subseteq Schedules \X Instants
  /\ job \in [CronKeys -> Supervisor!JobStatus]
  /\ clock \in Instants /\ changes \in 0..MaxChanges /\ faults \in 0..MaxFaults
  /\ tokens \in [CronKeys -> Nat] /\ plannedAt \in [Schedules -> 0..MaxClock]

Absent(p) == [status |-> "absent", plan |-> p, next |-> Never, lease |-> Never,
              lapsed |-> FALSE, ran |-> NoRun]

Init ==
  /\ row = [c \in Schedules |-> Absent(CHOOSE p \in Plans : TRUE)]
  /\ dispatch = {} /\ manual = {}
  /\ Supervisor!JobsInit
  /\ clock = 1 /\ changes = 0 /\ faults = 0
  /\ tokens = [o \in CronKeys |-> 0]
  /\ plannedAt = [c \in Schedules |-> Never]

---------------------------------------------------------------------------
Fault == faults < MaxFaults /\ faults' = faults + 1
Change == changes < MaxChanges /\ changes' = changes + 1

Present(c) == row[c].status # "absent"

(* Requests. *)

Create(c, p, status) ==
  /\ Change /\ ~Present(c)
  /\ Cardinality({s \in Schedules : Present(s)}) < MaxSchedules
  /\ row' = [row EXCEPT ![c] = [Absent(p) EXCEPT !.status = status, !.next = NextAfter(p, clock)]]
  /\ plannedAt' = [plannedAt EXCEPT ![c] = clock]
  /\ UNCHANGED <<dispatch, manual, job, clock, faults, tokens>>

Enable(c, status) ==
  /\ Change /\ Present(c)
  /\ row' = [row EXCEPT ![c].status = status]
  /\ UNCHANGED <<dispatch, manual, job, clock, faults, tokens, plannedAt>>

(* update() with a schedule or a timezone. *)
Replan(c, p) ==
  /\ Change /\ Present(c) /\ row[c].lease = Never
  /\ row' = [row EXCEPT ![c].plan = p, ![c].next = NextAfter(p, clock)]
  /\ plannedAt' = [plannedAt EXCEPT ![c] = clock]
  /\ UNCHANGED <<dispatch, manual, job, clock, faults, tokens>>

Remove(c) ==
  /\ Change /\ Present(c)
  /\ row' = [row EXCEPT ![c] = Absent(row[c].plan)]
  /\ UNCHANGED <<dispatch, manual, job, clock, faults, tokens, plannedAt>>

(* runCronJob(): runs the tool at once, then records the run, whatever was *)
(* recorded meanwhile.                                                     *)
RunStart(c) ==
  /\ Change /\ Present(c) /\ manual' = manual \cup {<<c, clock>>}
  /\ UNCHANGED <<row, dispatch, job, clock, faults, tokens, plannedAt>>

RunEnd(r, ok) ==
  /\ r \in manual /\ manual' = manual \ {r}
  /\ row' = IF Present(r[1]) THEN [row EXCEPT ![r[1]].ran = [at |-> r[2], ok |-> ok]] ELSE row
  /\ UNCHANGED <<dispatch, job, clock, changes, faults, tokens, plannedAt>>

---------------------------------------------------------------------------
(* The cycle. *)

Due(c) ==
  /\ row[c].status = "enabled"
  /\ IF row[c].lease # Never THEN row[c].lapsed ELSE row[c].next # Never /\ row[c].next <= clock

(* The occurrence that a claim is for: the one of a lapsed lease first. *)
ToRun(c) == IF row[c].lease # Never THEN row[c].lease ELSE row[c].next

(* faulty: what was missed is skipped. *)
FollowingSkips(c) == IF row[c].lease # Never THEN row[c].next ELSE NextAfter(row[c].plan, clock)

Following(c) == IF row[c].lease # Never THEN row[c].next ELSE NextAfter(row[c].plan, row[c].next)

(* claimDueOccurrence(), by a cycle: the schedule moves on and the lease is *)
(* taken in one write.                                                      *)
Claim(c) ==
  LET o == <<c, ToRun(c)>> IN
    /\ Due(c)
    /\ row' = [row EXCEPT ![c].lease = ToRun(c), ![c].lapsed = FALSE, ![c].next = Following(c)]
    /\ tokens' = [tokens EXCEPT ![o] = @ + 1]
    /\ dispatch' = dispatch \cup {[of |-> o, token |-> tokens[o] + 1, at |-> "submit"]}
    /\ UNCHANGED <<manual, job, clock, changes, faults, plannedAt>>

Step(d, at) == dispatch' = (dispatch \ {d}) \cup {[d EXCEPT !.at = at]}
Stop(d) == dispatch' = dispatch \ {d}

(* supervisor.submit() with the occurrence as id, idempotent. *)
Submit(d) ==
  /\ d.at = "submit" /\ Step(d, "acknowledge")
  /\ job' = [job EXCEPT ![d.of] = IF @ = "none" THEN "waiting" ELSE @]
  /\ UNCHANGED <<row, manual, clock, changes, faults, tokens, plannedAt>>

SubmitFails(d) ==
  /\ d.at = "submit" /\ Fault /\ Stop(d)
  /\ UNCHANGED <<row, manual, job, clock, changes, tokens, plannedAt>>

(* The lease is this occurrence's, and was not taken over. *)
Holds(d) == row[d.of[1]].lease = d.of[2] /\ tokens[d.of] = d.token

(* acknowledgeSubmitted(); rejects when the schedule was removed. *)
Acknowledge(d) ==
  LET c == d.of[1] IN
    /\ d.at = "acknowledge"
    /\ row' = IF Holds(d) THEN [row EXCEPT ![c].lease = Never, ![c].lapsed = FALSE] ELSE row
    /\ IF Present(c) THEN Step(d, "settle") ELSE Stop(d)
    /\ UNCHANGED <<manual, job, clock, changes, faults, tokens, plannedAt>>

(* recordOutcome() does not go back. *)
Newer(c, t) == row[c].ran.at <= t

(* settleCronOccurrence(): the job has ended. *)
Settle(d) ==
  LET c == d.of[1] IN
    /\ d.at = "settle" /\ job[d.of] \in Supervisor!Ends /\ Stop(d)
    /\ row' = IF Present(c) /\ Newer(c, d.of[2])
              THEN [row EXCEPT ![c].ran = [at |-> d.of[2], ok |-> job[d.of] = "completed"]] ELSE row
    /\ UNCHANGED <<manual, job, clock, changes, faults, tokens, plannedAt>>

(* The wait is as long as a lease: after that the outcome is nobody's concern. *)
GiveUp(d) ==
  /\ d.at = "settle" /\ Fault /\ Stop(d)
  /\ UNCHANGED <<row, manual, job, clock, changes, tokens, plannedAt>>

(* A lease lapses under a dispatch that stalls, or one that is gone. *)
LeaseLapses(c) ==
  /\ row[c].lease # Never /\ ~row[c].lapsed
  /\ IF \E d \in dispatch : d.of = <<c, row[c].lease>> /\ d.token = tokens[d.of]
     THEN Fault ELSE UNCHANGED faults
  /\ row' = [row EXCEPT ![c].lapsed = TRUE]
  /\ UNCHANGED <<dispatch, manual, job, clock, changes, tokens, plannedAt>>

Crash ==
  /\ Fault /\ dispatch' = {} /\ manual' = {}
  /\ UNCHANGED <<row, job, clock, changes, tokens, plannedAt>>

Tick ==
  /\ clock < MaxClock /\ clock' = clock + 1
  /\ UNCHANGED <<row, dispatch, manual, job, changes, faults, tokens, plannedAt>>

JobEnds(o) ==
  /\ Supervisor!Move(o) /\ job'[o] \in Supervisor!Ends
  /\ UNCHANGED <<row, dispatch, manual, clock, changes, faults, tokens, plannedAt>>

---------------------------------------------------------------------------
RequestNext(c) ==
  \/ \E p \in Plans : Replan(c, p) \/ \E status \in {"enabled", "disabled"} : Create(c, p, status)
  \/ \E status \in {"enabled", "disabled"} : Enable(c, status)
  \/ Remove(c) \/ RunStart(c)

DispatchNext(d) == Submit(d) \/ SubmitFails(d) \/ Acknowledge(d) \/ Settle(d) \/ GiveUp(d)

Next ==
  \/ \E c \in Schedules : RequestNext(c) \/ Claim(c) \/ LeaseLapses(c)
  \/ \E r \in manual, ok \in BOOLEAN : RunEnd(r, ok)
  \/ \E d \in dispatch : DispatchNext(d)
  \/ \E o \in CronKeys : JobEnds(o)
  \/ Crash \/ Tick

Spec == Init /\ [][Next]_vars

(* The cycle comes back every 30 seconds, leases lapse, coroutines go on. *)
Progress(c) ==
  \/ Claim(c)
  \/ (LeaseLapses(c) /\ faults' = faults)
  \/ \E d \in dispatch : d.of[1] = c /\ (Submit(d) \/ Acknowledge(d))

---------------------------------------------------------------------------
(* What must hold. *)

(* The occurrences of c's plan that the schedule has moved past. *)
Passed(c) ==
  {t \in Occurs[row[c].plan] : plannedAt[c] < t /\ (row[c].next = Never \/ t < row[c].next)}

(* No occurrence is lost: each that a schedule has moved past was submitted, or *)
(* is still leased and will be (claimDueOccurrence, acknowledgeSubmitted), over *)
(* crashes, failed submissions, takeovers, and changes of the plan.             *)
NoneLost ==
  \A c \in Schedules : Present(c) =>
    \A t \in Passed(c) : job[<<c, t>>] # "none" \/ row[c].lease = t

(* An outcome is that of its occurrence's job, and no scheduled outcome replaces *)
(* that of a later run (recordOutcome, settleCronOccurrence).                    *)
OutcomeTrueStep ==
  \A c \in Schedules :
    row'[c].ran # row[c].ran /\ Present(c) /\ row'[c].status # "absent" /\ manual' = manual
      => /\ job[<<c, row'[c].ran.at>>] \in Supervisor!Ends
         /\ row'[c].ran.ok = (job[<<c, row'[c].ran.at>>] = "completed")
         /\ row[c].ran.at <= row'[c].ran.at
OutcomeTrue == [][OutcomeTrueStep]_vars

(* What is due while its schedule stays enabled is submitted: an abandoned lease *)
(* lapses and the next cycle takes the same occurrence again.                    *)
OccurrenceSubmitted ==
  \A c \in Schedules, t \in Instants :
    row[c].status = "enabled" /\ (row[c].lease = t \/ (row[c].next = t /\ t <= clock))
      ~> row[c].status # "enabled" \/ (row[c].lease # t /\ row[c].next # t)
=============================================================================
