----------------------- MODULE DurableWorkflowsProofs -----------------------
(***************************************************************************)
(* Theorems about DurableWorkflows, for every set of runs and of steps,    *)
(* whatever the steps depend on, and for any number of attempts, claims    *)
(* and faults.                                                             *)
(***************************************************************************)
EXTENDS DurableWorkflows, TLAPS

---------------------------------------------------------------------------
(* The invariant *)

(* A step's row, its entry of #active and the ghosts agree.  Only a claim, and   *)
(* only of a queued step, puts it into an entry; while it is in one it runs under *)
(* the lease of that entry or waits for review; a step that ended has no lease.   *)
StepSound(x, e, n, a) ==
  /\ x.status \in TERMINAL_STATUSES \cup {"queued"} => x.lease = 0
  /\ x.status = "running" => x.lease # 0
  /\ e.pc # "none" => \/ x.status = "needs-review"
                      \/ x.status = "running" /\ x.lease = e.lease
  /\ e.pc = "dispatched" => n > 0
  /\ ~x.retrySafe => n <= 1
  /\ ~x.retrySafe /\ (e.pc = "admitting" \/ x.status \in {"queued", "awaiting-approval"}) => n = 0
  /\ x.status = "completed" => a = "done"
  /\ ~x.retrySafe /\ x.status \in {"cancelled", "failed"} /\ n > 0 => a = "harmless"

StepsSound == \A s \in Steps : StepSound(Row(s).step[s], entry[s], started[s], answered[s])

AllIn(w, X) == \A s \in DOMAIN w.step : w.step[s].status \in X
SomeIn(w, X) == \E s \in DOMAIN w.step : w.step[s].status \in X
Bad(w) == SomeIn(w, {"failed", "needs-review"})

(* What a run of which no input was redacted is known by: a step that went wrong *)
(* has begun the end of the run.                                                 *)
RunSound(w) ==
  /\ Terminal(w) => AllIn(w, TERMINAL_STATUSES)
  /\ Free(w) /\ AllIn(w, TERMINAL_STATUSES) => Terminal(w)
  /\ Free(w) => ~SomeIn(w, {"failed", "needs-review", "cancelled"})
  /\ w.fail => Bad(w)
  /\ w.due => ~Free(w)
  /\ w.status = "completed" => AllIn(w, {"completed"})
  /\ w.status = "cancelled" => w.cancel /\ ~Bad(w)
  /\ w.status = "failed" => SomeIn(w, {"failed"}) /\ ~SomeIn(w, {"needs-review"})

RunsSound == \A r \in Runs : Whole(run[r]) => RunSound(run[r])

QuietWhenDown == up = "down" => \A s \in Steps : entry[s] = NoEntry

Inv == TypeOK /\ StepsSound /\ RunsSound /\ QuietWhenDown

---------------------------------------------------------------------------
(* What the transactions do to the steps of a run *)

Ended(x, status) == [x EXCEPT !.status = status, !.lease = 0, !.past = FALSE]

(* What the end of a run does to a step: one not begun is cancelled, one that runs *)
(* is put to review, and one that ended is left alone.                            *)
Mild(x, y) ==
  \/ y = x
  \/ x.status \in {"queued", "awaiting-approval"} /\ y = Ended(x, "cancelled")
  \/ x.status = "running" /\ y = Ended(x, "needs-review")

Milder(w, v) == \A s \in DOMAIN w.step : Mild(w.step[s], v.step[s])

LEMMA EndedType ==
  ASSUME NEW x \in StepType, NEW status \in STEP_STATUSES
  PROVE  /\ Ended(x, status) \in StepType
         /\ Ended(x, status).status = status /\ Ended(x, status).lease = 0
         /\ Ended(x, status).retrySafe = x.retrySafe
         /\ Ended(x, status).available = x.available
         /\ Ended(x, status).attempt = x.attempt
  BY DEF Ended, StepType

LEMMA MildFacts ==
  ASSUME NEW x \in StepType, NEW y, Mild(x, y)
  PROVE  /\ y \in StepType
         /\ y.retrySafe = x.retrySafe /\ y.available = x.available
         /\ \/ y = x
            \/ x.status \in {"queued", "awaiting-approval"} /\ y.status = "cancelled" /\ y.lease = 0
            \/ x.status = "running" /\ y.status = "needs-review" /\ y.lease = 0
  BY EndedType DEF Mild, STEP_STATUSES, TERMINAL_STATUSES

LEMMA MildTrans ==
  ASSUME NEW x \in StepType, NEW y, NEW z, Mild(x, y), Mild(y, z)
  PROVE  Mild(x, z)
<1>1. CASE y = x
  BY <1>1
<1>2. CASE y # x
  <2>1. y.status \in {"cancelled", "needs-review"}
    BY <1>2, MildFacts
  <2> QED
    BY <1>2, <2>1 DEF Mild
<1> QED
  BY <1>1, <1>2

LEMMA SetStepsIs ==
  ASSUME NEW S, NEW w \in RunType(S), NEW T, NEW status \in STEP_STATUSES
  PROVE  LET v == SetSteps(w, T, status) IN
         /\ v \in RunType(S) /\ DOMAIN v.step = S
         /\ v.status = w.status /\ v.cancel = w.cancel /\ v.fail = w.fail /\ v.due = w.due
         /\ \A s \in S : v.step[s] = IF s \in T THEN Ended(w.step[s], status) ELSE w.step[s]
<1> DEFINE g == [s \in DOMAIN w.step |-> IF s \in T THEN Ended(w.step[s], status) ELSE w.step[s]]
           v == [w EXCEPT !.step = g]
<1>1. SetSteps(w, T, status) = v
  BY DEF SetSteps, Ended
<1>2. DOMAIN w.step = S /\ \A s \in S : w.step[s] \in StepType
  BY DEF RunType
<1>3. g \in [S -> StepType] /\ DOMAIN g = S
  BY <1>2, EndedType
<1>4. \A s \in S : g[s] = IF s \in T THEN Ended(w.step[s], status) ELSE w.step[s]
  BY <1>2
<1> HIDE DEF g
<1>5. /\ v \in RunType(S) /\ v.step = g
      /\ v.status = w.status /\ v.cancel = w.cancel /\ v.fail = w.fail /\ v.due = w.due
  BY <1>3 DEF RunType
<1> HIDE DEF v
<1> QED
  BY <1>1, <1>3, <1>4, <1>5

LEMMA InStatusIs ==
  ASSUME NEW S, NEW w \in RunType(S), NEW X
  PROVE  /\ DOMAIN w.step = S /\ \A s \in S : w.step[s] \in StepType
         /\ InStatus(w, X) = {s \in S : w.step[s].status \in X}
         /\ InStatus(w, X) # {} <=> SomeIn(w, X)
         /\ InStatus(w, X) = DOMAIN w.step <=> AllIn(w, X)
<1>1. DOMAIN w.step = S /\ \A s \in S : w.step[s] \in StepType
  BY DEF RunType
<1>2. InStatus(w, X) = {s \in S : w.step[s].status \in X}
  BY <1>1 DEF InStatus
<1>3. InStatus(w, X) # {} <=> SomeIn(w, X)
  BY <1>1, <1>2 DEF SomeIn
<1>4. InStatus(w, X) = DOMAIN w.step <=> AllIn(w, X)
  BY <1>1, <1>2 DEF AllIn
<1> QED
  BY <1>1, <1>2, <1>3, <1>4

(* All that a transaction keeps of a row beside its steps. *)
SameFlags(w, v) == v.status = w.status /\ v.cancel = w.cancel /\ v.fail = w.fail /\ v.due = w.due

Dropped(w, quarantineRunning) ==
  DropUnstarted(IF quarantineRunning THEN Quarantined(w) ELSE w)

LEMMA MilderTrans ==
  ASSUME NEW S, NEW w \in RunType(S), NEW v \in RunType(S), NEW u \in RunType(S),
         Milder(w, v), Milder(v, u)
  PROVE  Milder(w, u)
<1>1. DOMAIN w.step = S /\ DOMAIN v.step = S /\ \A s \in S : w.step[s] \in StepType
  BY DEF RunType
<1>2. ASSUME NEW s \in S PROVE Mild(w.step[s], u.step[s])
  <2>1. Mild(w.step[s], v.step[s]) /\ Mild(v.step[s], u.step[s])
    BY <1>1 DEF Milder
  <2> QED
    BY <1>1, <2>1, MildTrans
<1> QED
  BY <1>1, <1>2 DEF Milder

LEMMA DropUnstartedIs ==
  ASSUME NEW S, NEW w \in RunType(S)
  PROVE  LET d == DropUnstarted(w) IN
         /\ d \in RunType(S) /\ SameFlags(w, d) /\ Milder(w, d)
         /\ \A s \in S : d.step[s].status \notin {"queued", "awaiting-approval"}
         /\ \A s \in S : d.step[s].status = "running" => w.step[s].status = "running"
<1> DEFINE T == InStatus(w, {"queued", "awaiting-approval"})
           d == SetSteps(w, T, "cancelled")
<1>1. /\ DOMAIN w.step = S /\ \A s \in S : w.step[s] \in StepType
      /\ T = {s \in S : w.step[s].status \in {"queued", "awaiting-approval"}}
  BY InStatusIs
<1>2. "cancelled" \in STEP_STATUSES
  BY DEF STEP_STATUSES, TERMINAL_STATUSES
<1> HIDE DEF T
<1>3. /\ d \in RunType(S) /\ SameFlags(w, d)
      /\ \A s \in S : d.step[s] = IF s \in T THEN Ended(w.step[s], "cancelled") ELSE w.step[s]
  BY <1>2, SetStepsIs DEF SameFlags
<1> HIDE DEF d
<1>4. Milder(w, d)
  BY <1>1, <1>3 DEF Milder, Mild
<1>5. \A s \in S : d.step[s].status \notin {"queued", "awaiting-approval"}
  BY <1>1, <1>2, <1>3, EndedType
<1>6. \A s \in S : d.step[s].status = "running" => w.step[s].status = "running"
  BY <1>1, <1>2, <1>3, EndedType
<1> QED
  BY <1>3, <1>4, <1>5, <1>6 DEF DropUnstarted, T, d

LEMMA QuarantinedIs ==
  ASSUME NEW S, NEW w \in RunType(S)
  PROVE  LET d == Quarantined(w) IN
         /\ d \in RunType(S) /\ SameFlags(w, d) /\ Milder(w, d)
         /\ \A s \in S : d.step[s].status # "running"
<1> DEFINE T == InStatus(w, {"running"})
           d == SetSteps(w, T, "needs-review")
<1>1. /\ DOMAIN w.step = S /\ \A s \in S : w.step[s] \in StepType
      /\ T = {s \in S : w.step[s].status \in {"running"}}
  BY InStatusIs
<1>2. "needs-review" \in STEP_STATUSES
  BY DEF STEP_STATUSES, TERMINAL_STATUSES
<1> HIDE DEF T
<1>3. /\ d \in RunType(S) /\ SameFlags(w, d)
      /\ \A s \in S : d.step[s] = IF s \in T THEN Ended(w.step[s], "needs-review") ELSE w.step[s]
  BY <1>2, SetStepsIs DEF SameFlags
<1> HIDE DEF d
<1>4. Milder(w, d)
  BY <1>1, <1>3 DEF Milder, Mild
<1>5. \A s \in S : d.step[s].status # "running"
  BY <1>1, <1>2, <1>3, EndedType
<1> QED
  BY <1>3, <1>4, <1>5 DEF Quarantined, T, d

LEMMA MilderRefl == ASSUME NEW w PROVE Milder(w, w)
  BY DEF Milder, Mild

LEMMA DroppedIs ==
  ASSUME NEW S, NEW w \in RunType(S), NEW q \in BOOLEAN
  PROVE  LET d == Dropped(w, q) IN
         /\ d \in RunType(S) /\ SameFlags(w, d) /\ Milder(w, d)
         /\ \A s \in S : d.step[s].status \notin {"queued", "awaiting-approval"}
         /\ q => \A s \in S : d.step[s].status # "running"
<1> DEFINE v == IF q THEN Quarantined(w) ELSE w
           d == DropUnstarted(v)
<1>1. /\ v \in RunType(S) /\ SameFlags(w, v) /\ Milder(w, v)
      /\ q => \A s \in S : v.step[s].status # "running"
  BY QuarantinedIs, MilderRefl DEF SameFlags
<1> HIDE DEF v
<1>2. /\ d \in RunType(S) /\ SameFlags(v, d) /\ Milder(v, d)
      /\ \A s \in S : d.step[s].status \notin {"queued", "awaiting-approval"}
      /\ \A s \in S : d.step[s].status = "running" => v.step[s].status = "running"
  BY <1>1, DropUnstartedIs
<1>3. Dropped(w, q) = d
  BY DEF Dropped, v, d
<1> HIDE DEF d
<1>4. Milder(w, d) /\ SameFlags(w, d)
  BY <1>1, <1>2, MilderTrans DEF SameFlags
<1> QED
  BY <1>1, <1>2, <1>3, <1>4
---------------------------------------------------------------------------
(* The end of a run *)

LEMMA StatusKept ==
  ASSUME NEW S, NEW w \in RunType(S), NEW v \in RunType(S), Milder(w, v)
  PROVE  /\ Bad(w) => Bad(v)
         /\ SomeIn(w, {"failed"}) <=> SomeIn(v, {"failed"})
         /\ AllIn(w, TERMINAL_STATUSES) =>
              /\ AllIn(v, TERMINAL_STATUSES) /\ \A X : SomeIn(w, X) <=> SomeIn(v, X)
              /\ \A X : AllIn(w, X) <=> AllIn(v, X)
         /\ Whole(w) <=> Whole(v)
<1>1. DOMAIN w.step = S /\ DOMAIN v.step = S /\ \A s \in S : w.step[s] \in StepType
  BY DEF RunType
<1>2. \A s \in S : Mild(w.step[s], v.step[s])
  BY <1>1 DEF Milder
<1>3. ASSUME NEW s \in S
      PROVE  /\ v.step[s].available = w.step[s].available
             /\ \/ v.step[s] = w.step[s]
                \/ w.step[s].status \in {"queued", "awaiting-approval"} /\ v.step[s].status = "cancelled"
                \/ w.step[s].status = "running" /\ v.step[s].status = "needs-review"
  BY <1>1, <1>2, MildFacts
<1>4. Bad(w) => Bad(v)
  BY <1>1, <1>3 DEF Bad, SomeIn
<1>5. SomeIn(w, {"failed"}) <=> SomeIn(v, {"failed"})
  BY <1>1, <1>3 DEF SomeIn
<1>6. ASSUME AllIn(w, TERMINAL_STATUSES)
      PROVE  /\ AllIn(v, TERMINAL_STATUSES) /\ \A X : SomeIn(w, X) <=> SomeIn(v, X)
             /\ \A X : AllIn(w, X) <=> AllIn(v, X)
  <2>1. \A s \in S : v.step[s] = w.step[s]
    BY <1>1, <1>3, <1>6 DEF AllIn, TERMINAL_STATUSES
  <2> QED
    BY <1>1, <1>6, <2>1 DEF AllIn, SomeIn
<1>7. Whole(w) <=> Whole(v)
  BY <1>1, <1>3 DEF Whole
<1> QED
  BY <1>4, <1>5, <1>6, <1>7

LEMMA SoundKept ==
  ASSUME NEW S, NEW w \in RunType(S), NEW v \in RunType(S),
         Milder(w, v), SameFlags(w, v), Terminal(w), RunSound(w)
  PROVE  RunSound(v)
<1>1. AllIn(w, TERMINAL_STATUSES)
  BY DEF RunSound
<1>2. /\ AllIn(v, TERMINAL_STATUSES) /\ \A X : SomeIn(w, X) <=> SomeIn(v, X)
      /\ \A X : AllIn(w, X) <=> AllIn(v, X)
  BY <1>1, StatusKept
<1> QED
  BY <1>2 DEF RunSound, SameFlags, Terminal, Free, Bad

(* A run that is on its way out, not yet settled, or one that has ended.         *)
Ending(w) ==
  /\ w.fail => Bad(w)
  /\ Terminal(w) => RunSound(w)
  /\ Terminal(w) \/ ~Free(w)

SettleFlags(w, v) == v.cancel = w.cancel /\ v.fail = w.fail /\ v.due = w.due

LEMMA WithStatus ==
  ASSUME NEW S, NEW w \in RunType(S), NEW status \in RUN_STATUSES
  PROVE  LET v == [w EXCEPT !.status = status] IN
         /\ v \in RunType(S) /\ v.status = status /\ v.step = w.step /\ SettleFlags(w, v)
  BY DEF RunType, SettleFlags

(* A run whose steps all ended takes its status from them. *)
LEMMA SettledSound ==
  ASSUME NEW S, NEW d \in RunType(S), Ending(d), ~Terminal(d),
         \A s \in S : d.step[s].status \notin {"queued", "awaiting-approval", "running"},
         NEW v \in RunType(S), v.step = d.step, SettleFlags(d, v),
         \/ v.status = "needs-review"
         \/ v.status = "cancelled" /\ d.cancel /\ ~Bad(d)
         \/ v.status = "failed" /\ ~d.cancel /\ ~SomeIn(d, {"needs-review"})
  PROVE  RunSound(v)
<1>1. DOMAIN d.step = S /\ \A s \in S : d.step[s].status \in STEP_STATUSES
  BY DEF RunType, StepType
<1>2. AllIn(v, TERMINAL_STATUSES)
  BY <1>1 DEF AllIn, STEP_STATUSES, TERMINAL_STATUSES
<1>3. Terminal(v) /\ ~Free(v)
  BY DEF Terminal, TERMINAL_STATUSES, Ending, Free, SettleFlags
<1>4. (Bad(v) <=> Bad(d)) /\ \A X : SomeIn(v, X) <=> SomeIn(d, X)
  BY DEF Bad, SomeIn
<1>5. v.status = "failed" => SomeIn(d, {"failed"}) /\ ~SomeIn(d, {"needs-review"})
  <2> SUFFICES ASSUME v.status = "failed" PROVE SomeIn(d, {"failed"}) /\ ~SomeIn(d, {"needs-review"})
    OBVIOUS
  <2>1. d.fail /\ Bad(d) /\ ~SomeIn(d, {"needs-review"})
    BY DEF Ending, Free
  <2> QED
    BY <2>1 DEF Bad, SomeIn
<1>6. v.status # "completed"
  OBVIOUS
<1>7. v.fail => Bad(v)
  BY <1>4 DEF Ending, SettleFlags
<1>8. v.status = "cancelled" => v.cancel /\ ~Bad(v)
  BY <1>4 DEF SettleFlags
<1> QED
  BY <1>2, <1>3, <1>4, <1>5, <1>6, <1>7, <1>8 DEF RunSound

(* One that cannot be settled yet says nothing. *)
LEMMA UnsettledSound ==
  ASSUME NEW v, ~Terminal(v), ~Free(v), v.fail => Bad(v)
  PROVE  RunSound(v)
  BY DEF RunSound, Terminal, TERMINAL_STATUSES

LEMMA EndingKept ==
  ASSUME NEW S, NEW w \in RunType(S), NEW d \in RunType(S),
         Milder(w, d), SameFlags(w, d), Ending(w)
  PROVE  Ending(d)
<1>1. Bad(w) => Bad(d)
  BY StatusKept
<1>2. (Terminal(d) <=> Terminal(w)) /\ (Free(d) <=> Free(w))
  BY DEF SameFlags, Terminal, Free
<1>3. Terminal(d) => RunSound(d)
  BY <1>2, SoundKept DEF Ending
<1> QED
  BY <1>1, <1>2, <1>3 DEF Ending, SameFlags

LEMMA SettleCancellationIs ==
  ASSUME NEW S, NEW w \in RunType(S), NEW q \in BOOLEAN
  PROVE  LET v == settleCancellation(w, q) IN
         /\ v \in RunType(S) /\ Milder(w, v) /\ SettleFlags(w, v)
         /\ Terminal(w) => v.status = w.status
         /\ Ending(w) => RunSound(v)
<1> DEFINE d == Dropped(w, q)
           X == IF InStatus(d, {"needs-review", "failed"}) # {} THEN "needs-review" ELSE "cancelled"
           u == [d EXCEPT !.status = X]
           v == settleCancellation(w, q)
<1>1. /\ d \in RunType(S) /\ SameFlags(w, d) /\ Milder(w, d)
      /\ \A s \in S : d.step[s].status \notin {"queued", "awaiting-approval"}
  BY DroppedIs
<1>2. v = IF InStatus(d, {"running"}) # {} \/ ~d.cancel \/ Terminal(d) THEN d ELSE u
  BY DEF settleCancellation, Dropped
<1> HIDE DEF d, v
<1>3. Ending(w) => Ending(d)
  BY <1>1, EndingKept
<1>4. CASE InStatus(d, {"running"}) # {} \/ ~d.cancel \/ Terminal(d)
  <2>1. v = d
    BY <1>2, <1>4
  <2>2. Ending(d) => RunSound(d)
    BY UnsettledSound DEF Ending
  <2> QED
    BY <1>1, <1>3, <2>1, <2>2 DEF SameFlags, SettleFlags, v
<1>5. CASE ~(InStatus(d, {"running"}) # {} \/ ~d.cancel \/ Terminal(d))
  <2>1. v = u
    BY <1>2, <1>5
  <2>2. X \in RUN_STATUSES
    BY DEF RUN_STATUSES, STEP_STATUSES, TERMINAL_STATUSES
  <2>3. X = "needs-review" \/ (X = "cancelled" /\ ~Bad(d))
    BY <1>1, InStatusIs DEF Bad, SomeIn
  <2> HIDE DEF X
  <2>4. u \in RunType(S) /\ u.status = X /\ u.step = d.step /\ SettleFlags(d, u)
    BY <1>1, <2>2, WithStatus
  <2>5. \A s \in S : d.step[s].status \notin {"queued", "awaiting-approval", "running"}
    BY <1>1, <1>5, InStatusIs
  <2> HIDE DEF u
  <2>6. Ending(d) => RunSound(u)
    BY <1>1, <1>5, <2>3, <2>4, <2>5, SettledSound
  <2>7. Milder(w, u)
    BY <1>1, <2>4 DEF Milder
  <2>8. ~Terminal(w)
    BY <1>1, <1>5 DEF SameFlags, Terminal
  <2> QED
    BY <1>1, <1>3, <2>1, <2>4, <2>6, <2>7, <2>8 DEF SameFlags, SettleFlags, v
<1> QED
  BY <1>4, <1>5 DEF v

LEMMA SettleFailureIs ==
  ASSUME NEW S, NEW w \in RunType(S), NEW q \in BOOLEAN
  PROVE  LET v == settleFailure(w, q) IN
         /\ v \in RunType(S) /\ Milder(w, v) /\ SettleFlags(w, v)
         /\ Terminal(w) => v.status = w.status
         /\ Ending(w) => RunSound(v)
<1> DEFINE d == Dropped(w, q)
           X == IF InStatus(d, {"needs-review"}) # {} THEN "needs-review" ELSE "failed"
           u == [d EXCEPT !.status = X]
           v == settleFailure(w, q)
<1>1. /\ d \in RunType(S) /\ SameFlags(w, d) /\ Milder(w, d)
      /\ \A s \in S : d.step[s].status \notin {"queued", "awaiting-approval"}
  BY DroppedIs
<1>2. v = IF InStatus(d, {"running"}) # {} \/ d.cancel \/ ~d.fail \/ Terminal(d) THEN d ELSE u
  BY DEF settleFailure, Dropped
<1> HIDE DEF d, v
<1>3. Ending(w) => Ending(d)
  BY <1>1, EndingKept
<1>4. CASE InStatus(d, {"running"}) # {} \/ d.cancel \/ ~d.fail \/ Terminal(d)
  <2>1. v = d
    BY <1>2, <1>4
  <2>2. Ending(d) => RunSound(d)
    BY UnsettledSound DEF Ending
  <2> QED
    BY <1>1, <1>3, <2>1, <2>2 DEF SameFlags, SettleFlags, v
<1>5. CASE ~(InStatus(d, {"running"}) # {} \/ d.cancel \/ ~d.fail \/ Terminal(d))
  <2>1. v = u
    BY <1>2, <1>5
  <2>2. X \in RUN_STATUSES
    BY DEF RUN_STATUSES, STEP_STATUSES, TERMINAL_STATUSES
  <2>3. X = "needs-review" \/ (X = "failed" /\ ~SomeIn(d, {"needs-review"}))
    BY <1>1, InStatusIs DEF SomeIn
  <2> HIDE DEF X
  <2>4. u \in RunType(S) /\ u.status = X /\ u.step = d.step /\ SettleFlags(d, u)
    BY <1>1, <2>2, WithStatus
  <2>5. \A s \in S : d.step[s].status \notin {"queued", "awaiting-approval", "running"}
    BY <1>1, <1>5, InStatusIs
  <2> HIDE DEF u
  <2>6. Ending(d) => RunSound(u)
    BY <1>1, <1>5, <2>3, <2>4, <2>5, SettledSound
  <2>7. Milder(w, u)
    BY <1>1, <2>4 DEF Milder
  <2>8. ~Terminal(w)
    BY <1>1, <1>5 DEF SameFlags, Terminal
  <2> QED
    BY <1>1, <1>3, <2>1, <2>4, <2>6, <2>7, <2>8 DEF SameFlags, SettleFlags, v
<1> QED
  BY <1>4, <1>5 DEF v
LEMMA SoundEnding ==
  ASSUME NEW w, RunSound(w), Terminal(w) \/ ~Free(w)
  PROVE  Ending(w)
  BY DEF RunSound, Ending

LEMMA BeginFailureStopIs ==
  ASSUME NEW S, NEW w \in RunType(S), NEW due \in BOOLEAN
  PROVE  LET v == beginFailureStop(w, due) IN
         /\ v \in RunType(S) /\ Milder(w, v) /\ v.cancel = w.cancel
         /\ Bad(w) /\ (Terminal(w) => RunSound(w)) => RunSound(v) /\ Ending(v)
<1> DEFINE d == DropUnstarted(w)
           x == [d EXCEPT !.status = "running", !.fail = TRUE, !.due = IF d.fail THEN d.due ELSE due]
           u == settleFailure(x, FALSE)
           v == beginFailureStop(w, due)
<1>1. d \in RunType(S) /\ SameFlags(w, d) /\ Milder(w, d)
  BY DropUnstartedIs
<1>2. v = IF Terminal(d) THEN d ELSE u
  BY DEF beginFailureStop
<1> HIDE DEF d, v
<1>3. CASE Terminal(d)
  <2>1. v = d /\ Terminal(w)
    BY <1>1, <1>2, <1>3 DEF SameFlags, Terminal
  <2>2. ASSUME Bad(w), Terminal(w) => RunSound(w) PROVE RunSound(v) /\ Ending(v)
    <3>1. RunSound(d)
      BY <1>1, <2>1, <2>2, SoundKept
    <3> QED
      BY <1>3, <2>1, <3>1, SoundEnding
  <2> QED
    BY <1>1, <2>1, <2>2 DEF SameFlags, v
<1>4. CASE ~Terminal(d)
  <2>1. /\ x \in RunType(S) /\ x.status = "running" /\ x.fail /\ x.cancel = d.cancel
        /\ x.step = d.step
    BY <1>1 DEF RunType, RUN_STATUSES, STEP_STATUSES, TERMINAL_STATUSES
  <2> HIDE DEF x
  <2>2. /\ u \in RunType(S) /\ Milder(x, u) /\ SettleFlags(x, u)
        /\ Ending(x) => RunSound(u)
    BY <2>1, SettleFailureIs
  <2> HIDE DEF u
  <2>3. Milder(w, x)
    BY <1>1, <2>1 DEF Milder
  <2>4. Milder(w, u)
    BY <2>1, <2>2, <2>3, MilderTrans
  <2>5. ASSUME Bad(w) PROVE RunSound(u) /\ Ending(u)
    <3>1. Bad(x)
      BY <2>1, <2>3, <2>5, StatusKept
    <3>2. Ending(x)
      BY <2>1, <3>1 DEF Ending, Terminal, TERMINAL_STATUSES, Free
    <3>3. RunSound(u) /\ ~Free(u)
      BY <2>1, <2>2, <3>2 DEF SettleFlags, Free
    <3> QED
      BY <3>3, SoundEnding
  <2>6. v = u
    BY <1>2, <1>4
  <2> QED
    BY <1>1, <2>1, <2>2, <2>4, <2>5, <2>6 DEF SettleFlags, SameFlags, v
<1> QED
  BY <1>3, <1>4 DEF v

LEMMA RequestCancellationIs ==
  ASSUME NEW S, NEW w \in RunType(S)
  PROVE  LET v == requestCancellation(w) IN
         /\ v \in RunType(S) /\ Milder(w, v)
         /\ Terminal(w) \/ v.cancel
         /\ RunSound(w) => RunSound(v)
<1>1. CASE Terminal(w)
  BY <1>1, MilderRefl DEF requestCancellation
<1>2. CASE ~Terminal(w)
  <2> DEFINE d == DropUnstarted(w)
             v == [d EXCEPT !.cancel = TRUE, !.due = w.cancel /\ w.due]
  <2>1. requestCancellation(w) = v
    BY <1>2 DEF requestCancellation
  <2>2. d \in RunType(S) /\ SameFlags(w, d) /\ Milder(w, d)
    BY DropUnstartedIs
  <2> HIDE DEF d
  <2>3. w.cancel \in BOOLEAN /\ w.due \in BOOLEAN
    BY DEF RunType
  <2>4. (w.cancel /\ w.due) \in BOOLEAN
    OBVIOUS
  <2>5. /\ v \in RunType(S) /\ v.cancel /\ v.status = d.status /\ v.fail = d.fail
        /\ v.step = d.step
    BY <2>2, <2>4 DEF RunType
  <2> HIDE DEF v
  <2>6. Milder(w, v)
    BY <2>2, <2>5 DEF Milder
  <2>7. ASSUME RunSound(w) PROVE RunSound(v)
    <3>1. v.fail => Bad(v)
      BY <2>2, <2>5, <2>6, <2>7, StatusKept DEF RunSound, SameFlags
    <3>2. ~Terminal(v) /\ ~Free(v)
      BY <1>2, <2>2, <2>5 DEF SameFlags, Terminal, Free
    <3> QED
      BY <3>1, <3>2, UnsettledSound
  <2> QED
    BY <2>1, <2>5, <2>6, <2>7
<1> QED
  BY <1>1, <1>2

LEMMA FinalizeCancellationIs ==
  ASSUME NEW S, NEW w \in RunType(S)
  PROVE  LET v == finalizeCancellation(w) IN
         /\ v \in RunType(S) /\ Milder(w, v)
         /\ RunSound(w) => RunSound(v)
<1>1. CASE ~w.cancel \/ Terminal(w)
  BY <1>1, MilderRefl DEF finalizeCancellation
<1>2. CASE ~(~w.cancel \/ Terminal(w))
  <2>1. finalizeCancellation(w) = settleCancellation(w, TRUE)
    BY <1>2 DEF finalizeCancellation
  <2>2. RunSound(w) => Ending(w)
    BY <1>2, SoundEnding DEF Free
  <2> QED
    BY <2>1, <2>2, SettleCancellationIs
<1> QED
  BY <1>1, <1>2

(* A step that runs, taken out of its run's hands. *)
LEMMA SetRunning ==
  ASSUME NEW S, NEW w \in RunType(S), NEW T \in SUBSET S, NEW status \in STEP_STATUSES,
         \A s \in T : w.step[s].status = "running"
  PROVE  LET v == SetSteps(w, T, status) IN
         /\ v \in RunType(S) /\ SameFlags(w, v)
         /\ Bad(w) => Bad(v)
         /\ T # {} /\ RunSound(w) => ~Terminal(v)
         /\ T # {} /\ RunSound(w) /\ ~Free(w) => Ending(v)
         /\ T # {} /\ status \in {"failed", "needs-review"} => Bad(v)
         /\ \A s \in S \ T : v.step[s] = w.step[s]
         /\ \A s \in T : v.step[s] = Ended(w.step[s], status)
         /\ status = "needs-review" => Milder(w, v)
<1> DEFINE v == SetSteps(w, T, status)
<1>1. /\ v \in RunType(S) /\ SameFlags(w, v) /\ DOMAIN v.step = S
      /\ \A s \in S : v.step[s] = IF s \in T THEN Ended(w.step[s], status) ELSE w.step[s]
  BY SetStepsIs DEF SameFlags
<1> HIDE DEF v
<1>2. DOMAIN w.step = S /\ \A s \in S : w.step[s] \in StepType
  BY DEF RunType
<1>3. \A s \in T : v.step[s].status = status
  BY <1>1, <1>2, EndedType
<1>4. Bad(w) => Bad(v)
  BY <1>1, <1>2 DEF Bad, SomeIn
<1>5. T # {} /\ RunSound(w) => ~Terminal(v)
  BY <1>1, <1>2 DEF RunSound, AllIn, Terminal, TERMINAL_STATUSES, SameFlags
<1>6. T # {} /\ RunSound(w) /\ ~Free(w) => Ending(v)
  BY <1>1, <1>4, <1>5 DEF RunSound, Ending, SameFlags, Free
<1>7. T # {} /\ status \in {"failed", "needs-review"} => Bad(v)
  BY <1>1, <1>3 DEF Bad, SomeIn
<1>8. status = "needs-review" => Milder(w, v)
  BY <1>1, <1>2 DEF Milder, Mild
<1> QED
  BY <1>1, <1>2, <1>4, <1>5, <1>6, <1>7, <1>8 DEF v

LEMMA QuarantineStepIs ==
  ASSUME NEW S, NEW w \in RunType(S), NEW T \in SUBSET S, \A s \in T : w.step[s].status = "running"
  PROVE  LET v == quarantineStep(w, T) IN
         /\ v \in RunType(S) /\ Milder(w, v)
         /\ RunSound(w) => RunSound(v)
<1>1. CASE T = {}
  BY <1>1, MilderRefl DEF quarantineStep
<1>2. CASE T # {}
  <2> DEFINE q == SetSteps(w, T, "needs-review")
             f == beginFailureStop(q, FALSE)
  <2>1. "needs-review" \in STEP_STATUSES
    BY DEF STEP_STATUSES, TERMINAL_STATUSES
  <2>2. quarantineStep(w, T) = IF w.cancel THEN settleCancellation(q, FALSE) ELSE settleFailure(f, FALSE)
    BY <1>2 DEF quarantineStep
  <2>3. /\ q \in RunType(S) /\ SameFlags(w, q) /\ Milder(w, q) /\ Bad(q)
        /\ RunSound(w) => ~Terminal(q)
    BY <1>2, <2>1, SetRunning
  <2> HIDE DEF q
  <2>4. /\ f \in RunType(S) /\ Milder(q, f)
        /\ RunSound(w) => Ending(f)
    BY <2>3, BeginFailureStopIs
  <2> HIDE DEF f
  <2>5. CASE w.cancel
    <3>1. RunSound(w) => Ending(q)
      BY <2>3, <2>5 DEF Ending, SameFlags, Free
    <3>2. /\ settleCancellation(q, FALSE) \in RunType(S) /\ Milder(q, settleCancellation(q, FALSE))
          /\ Ending(q) => RunSound(settleCancellation(q, FALSE))
      BY <2>3, SettleCancellationIs
    <3>3. Milder(w, settleCancellation(q, FALSE))
      BY <2>3, <3>2, MilderTrans
    <3> QED
      BY <2>2, <2>5, <3>1, <3>2, <3>3
  <2>6. CASE ~w.cancel
    <3>1. /\ settleFailure(f, FALSE) \in RunType(S) /\ Milder(f, settleFailure(f, FALSE))
          /\ Ending(f) => RunSound(settleFailure(f, FALSE))
      BY <2>4, SettleFailureIs
    <3>2. Milder(w, settleFailure(f, FALSE))
      BY <2>3, <2>4, <3>1, MilderTrans
    <3> QED
      BY <2>2, <2>4, <2>6, <3>1, <3>2
  <2> QED
    BY <2>5, <2>6
<1> QED
  BY <1>1, <1>2
---------------------------------------------------------------------------
(* The end of a step *)

(* The step is given that status, and the end of its run may follow. *)
Taken(w, s, v, status) ==
  /\ \A t \in DOMAIN w.step \ {s} : Mild(w.step[t], v.step[t])
  /\ Mild(Ended(w.step[s], status), v.step[s])

LEMMA TakenIs ==
  ASSUME NEW S, NEW w \in RunType(S), NEW s \in S, NEW status \in STEP_STATUSES,
         NEW v, Milder(SetSteps(w, {s}, status), v)
  PROVE  Taken(w, s, v, status)
<1> DEFINE x == SetSteps(w, {s}, status)
<1>1. /\ DOMAIN x.step = S
      /\ \A t \in S : x.step[t] = IF t \in {s} THEN Ended(w.step[t], status) ELSE w.step[t]
  BY SetStepsIs
<1>2. \A t \in DOMAIN x.step : Mild(x.step[t], v.step[t])
  BY DEF Milder
<1> HIDE DEF x
<1>3. DOMAIN w.step = S
  BY DEF RunType
<1> QED
  BY <1>1, <1>2, <1>3 DEF Taken

LEMMA SetOneRunning ==
  ASSUME NEW S, NEW w \in RunType(S), NEW s \in S, w.step[s].status = "running",
         NEW status \in STEP_STATUSES
  PROVE  LET v == SetSteps(w, {s}, status) IN
         /\ v \in RunType(S) /\ SameFlags(w, v) /\ Taken(w, s, v, status)
         /\ RunSound(w) => ~Terminal(v)
         /\ status \in {"failed", "needs-review"} => Bad(v)
         /\ \A t \in S \ {s} : v.step[t] = w.step[t]
         /\ v.step[s] = Ended(w.step[s], status)
<1> DEFINE T == {s}
           v == SetSteps(w, T, status)
<1>1. T \in SUBSET S /\ T # {} /\ (\A t \in T : w.step[t].status = "running") /\ s \in T
      /\ S \ {s} = S \ T
  OBVIOUS
<1>2. Milder(SetSteps(w, {s}, status), v)
  BY MilderRefl
<1>3. Taken(w, s, v, status)
  BY <1>2, TakenIs
<1> HIDE DEF T
<1>4. /\ v \in RunType(S) /\ SameFlags(w, v)
      /\ RunSound(w) => ~Terminal(v)
      /\ status \in {"failed", "needs-review"} => Bad(v)
  BY <1>1, SetRunning
<1>5. \A t \in S : v.step[t] = IF t \in T THEN Ended(w.step[t], status) ELSE w.step[t]
  BY SetStepsIs
<1> HIDE DEF v
<1>6. (\A t \in S \ {s} : v.step[t] = w.step[t]) /\ v.step[s] = Ended(w.step[s], status)
  BY <1>1, <1>5
<1> QED
  BY <1>3, <1>4, <1>6 DEF v, T

LEMMA CompleteStepIs ==
  ASSUME NEW S, NEW w \in RunType(S), NEW s \in S, w.step[s].status = "running", Free(w)
  PROVE  LET v == completeStep(w, s) IN
         /\ v \in RunType(S) /\ Taken(w, s, v, "completed")
         /\ RunSound(w) => RunSound(v)
<1> DEFINE x == SetSteps(w, {s}, "completed")
           done == InStatus(x, TERMINAL_STATUSES) = DOMAIN x.step
                     /\ x.status \notin {"cancelled", "needs-review"}
           u == [x EXCEPT !.status = Verdict(x)]
           v == completeStep(w, s)
<1>1. "completed" \in STEP_STATUSES
  BY DEF STEP_STATUSES, TERMINAL_STATUSES
<1>2. /\ x \in RunType(S) /\ SameFlags(w, x)
      /\ RunSound(w) => ~Terminal(x)
  BY <1>1, SetOneRunning
<1>3. Taken(w, s, x, "completed")
  BY <1>1, SetOneRunning
<1>14. \A t \in S : x.step[t] = IF t \in {s} THEN Ended(w.step[t], "completed") ELSE w.step[t]
  BY <1>1, SetStepsIs
<1> HIDE DEF x
<1>4. ~x.cancel /\ ~x.fail
  BY <1>2 DEF SameFlags, Free
<1>5. v = IF done THEN u ELSE x
  BY <1>4 DEF completeStep, settleRun, x
<1> HIDE DEF v
<1>6. DOMAIN w.step = S /\ DOMAIN x.step = S /\ \A t \in S : w.step[t] \in StepType
  BY <1>2 DEF RunType
<1>7. x.step[s].status = "completed"
  BY <1>1, <1>6, <1>14, EndedType
<1>8. Verdict(x) \in RUN_STATUSES
  BY DEF Verdict, RUN_STATUSES, STEP_STATUSES, TERMINAL_STATUSES
<1>9. u \in RunType(S) /\ u.status = Verdict(x) /\ u.step = x.step /\ SettleFlags(x, u)
  BY <1>2, <1>8, WithStatus
<1>10. Taken(w, s, u, "completed")
  BY <1>3, <1>9 DEF Taken
<1> HIDE DEF u
<1>11. ASSUME RunSound(w) PROVE ~SomeIn(x, {"failed", "needs-review", "cancelled"})
  BY <1>2, <1>6, <1>7, <1>11, <1>14 DEF RunSound, SomeIn
<1>12. CASE done
  <2>1. AllIn(x, TERMINAL_STATUSES)
    BY <1>2, <1>12, InStatusIs
  <2>2. ASSUME RunSound(w) PROVE RunSound(u)
    <3>1. AllIn(x, {"completed"})
      BY <1>11, <2>1, <2>2 DEF AllIn, SomeIn, TERMINAL_STATUSES
    <3>2. InStatus(x, {"needs-review"}) = {} /\ InStatus(x, {"failed"}) = {} /\ InStatus(x, {"cancelled"}) = {}
      BY <1>2, <1>6, <3>1, InStatusIs DEF AllIn
    <3>3. Verdict(x) = "completed"
      BY <3>2 DEF Verdict
    <3>4. AllIn(u, {"completed"}) /\ AllIn(u, TERMINAL_STATUSES)
          /\ ~SomeIn(u, {"failed", "needs-review", "cancelled"})
      BY <1>9, <1>11, <2>1, <2>2, <3>1 DEF AllIn, SomeIn
    <3> QED
      BY <1>2, <1>4, <1>9, <2>2, <3>3, <3>4
         DEF RunSound, SettleFlags, SameFlags, Free, Terminal, TERMINAL_STATUSES
  <2> QED
    BY <1>5, <1>9, <1>10, <1>12, <2>2 DEF v
<1>13. CASE ~done
  <2>1. ASSUME RunSound(w) PROVE RunSound(x)
    <3>1. ~Terminal(x)
      BY <1>2, <2>1
    <3>2. ~AllIn(x, TERMINAL_STATUSES)
      BY <1>2, <1>13, <3>1, InStatusIs DEF Terminal, TERMINAL_STATUSES
    <3> QED
      BY <1>2, <1>4, <1>11, <2>1, <3>1, <3>2
         DEF RunSound, Terminal, TERMINAL_STATUSES, SameFlags, Free
  <2> QED
    BY <1>2, <1>3, <1>5, <1>13, <2>1 DEF v
<1> QED
  BY <1>12, <1>13 DEF v

FailStatus(w, s, uncertain) ==
  IF uncertain THEN "needs-review" ELSE IF RetryLeft(w, s) THEN "queued" ELSE "failed"

LEMMA FailStepIs ==
  ASSUME NEW S, NEW w \in RunType(S), NEW s \in S, w.step[s].status = "running", Free(w),
         NEW uncertain \in BOOLEAN
  PROVE  LET v == failStep(w, s, uncertain) IN
         /\ v \in RunType(S) /\ Taken(w, s, v, FailStatus(w, s, uncertain))
         /\ RunSound(w) => RunSound(v)
<1> DEFINE X == FailStatus(w, s, uncertain)
           x == SetSteps(w, {s}, X)
           u == beginFailureStop(x, FALSE)
           v == failStep(w, s, uncertain)
<1>1. X \in STEP_STATUSES /\ X \in {"queued", "failed", "needs-review"}
  BY DEF FailStatus, STEP_STATUSES, TERMINAL_STATUSES
<1>2. v = IF X = "queued" THEN x ELSE u
  BY DEF failStep, FailStatus
<1> HIDE DEF X, v
<1>3. /\ x \in RunType(S) /\ SameFlags(w, x)
      /\ RunSound(w) => ~Terminal(x)
      /\ X \in {"failed", "needs-review"} => Bad(x)
      /\ \A t \in S \ {s} : x.step[t] = w.step[t]
      /\ x.step[s] = Ended(w.step[s], X)
  BY <1>1, SetOneRunning
<1>5. Taken(w, s, x, X)
  BY <1>1, SetOneRunning
<1>6. /\ u \in RunType(S) /\ Milder(x, u)
      /\ Bad(x) /\ (Terminal(x) => RunSound(x)) => RunSound(u)
  BY <1>3, BeginFailureStopIs
<1>7. Taken(w, s, u, X)
  BY <1>1, <1>6, TakenIs
<1> HIDE DEF x, u
<1>8. CASE X = "queued"
  <2>1. DOMAIN w.step = S /\ DOMAIN x.step = S /\ \A t \in S : w.step[t] \in StepType
    BY <1>3 DEF RunType
  <2>2. x.step[s].status = "queued"
    BY <1>1, <1>3, <1>8, <2>1, EndedType
  <2>3. ASSUME RunSound(w) PROVE RunSound(x)
    <3>1. ~Terminal(x) /\ Free(x)
      BY <1>3, <2>3 DEF SameFlags, Free
    <3>2. ~AllIn(x, TERMINAL_STATUSES)
      BY <2>1, <2>2 DEF AllIn, TERMINAL_STATUSES
    <3>3. ~SomeIn(x, {"failed", "needs-review", "cancelled"})
      BY <1>3, <2>1, <2>2, <2>3 DEF RunSound, SomeIn
    <3> QED
      BY <1>3, <2>3, <3>1, <3>2, <3>3
         DEF RunSound, Terminal, TERMINAL_STATUSES, SameFlags, Free
  <2> QED
    BY <1>2, <1>3, <1>5, <1>8, <2>3 DEF v, X
<1>9. CASE X # "queued"
  <2>1. RunSound(w) => RunSound(u)
    BY <1>1, <1>3, <1>6, <1>9
  <2> QED
    BY <1>2, <1>6, <1>7, <1>9, <2>1 DEF v, X
<1> QED
  BY <1>8, <1>9 DEF v, X

LEMMA AcknowledgeCancellationIs ==
  ASSUME NEW S, NEW w \in RunType(S), NEW s \in S, w.step[s].status = "running", w.cancel,
         NEW uncertain \in BOOLEAN
  PROVE  LET v == acknowledgeCancellation(w, s, uncertain) IN
         /\ v \in RunType(S)
         /\ Taken(w, s, v, IF uncertain THEN "needs-review" ELSE "cancelled")
         /\ RunSound(w) => RunSound(v)
<1> DEFINE X == IF uncertain THEN "needs-review" ELSE "cancelled"
           x == SetSteps(w, {s}, X)
           v == settleCancellation(x, FALSE)
<1>1. X \in STEP_STATUSES
  BY DEF STEP_STATUSES, TERMINAL_STATUSES
<1>2. acknowledgeCancellation(w, s, uncertain) = v
  BY DEF acknowledgeCancellation
<1> HIDE DEF X
<1>3. x \in RunType(S) /\ (RunSound(w) => Ending(x))
  BY <1>1, SetRunning DEF Free
<1>4. v \in RunType(S) /\ Milder(x, v) /\ (Ending(x) => RunSound(v))
  BY <1>3, SettleCancellationIs
<1>5. Taken(w, s, v, X)
  BY <1>1, <1>4, TakenIs
<1> HIDE DEF v
<1> QED
  BY <1>2, <1>3, <1>4, <1>5 DEF X

LEMMA AcknowledgeStopIs ==
  ASSUME NEW S, NEW w \in RunType(S), NEW s \in S, w.step[s].status = "running", w.fail,
         NEW uncertain \in BOOLEAN
  PROVE  LET v == acknowledgeStop(w, s, uncertain) IN
         /\ v \in RunType(S)
         /\ Taken(w, s, v, IF uncertain THEN "needs-review" ELSE "cancelled")
         /\ RunSound(w) => RunSound(v)
<1> DEFINE X == IF uncertain THEN "needs-review" ELSE "cancelled"
           x == SetSteps(w, {s}, X)
           v == settleFailure(x, FALSE)
<1>1. X \in STEP_STATUSES
  BY DEF STEP_STATUSES, TERMINAL_STATUSES
<1>2. acknowledgeStop(w, s, uncertain) = v
  BY DEF acknowledgeStop
<1> HIDE DEF X
<1>3. x \in RunType(S) /\ (RunSound(w) => Ending(x))
  BY <1>1, SetRunning DEF Free
<1>4. v \in RunType(S) /\ Milder(x, v) /\ (Ending(x) => RunSound(v))
  BY <1>3, SettleFailureIs
<1>5. Taken(w, s, v, X)
  BY <1>1, <1>4, TakenIs
<1> HIDE DEF v
<1> QED
  BY <1>2, <1>3, <1>4, <1>5 DEF X
---------------------------------------------------------------------------
(* Approval, claims and recovery *)

LEMMA AwaitApprovalIs ==
  ASSUME NEW S, NEW w \in RunType(S), NEW s \in S, w.step[s].status = "running", Free(w)
  PROVE  LET v == awaitApproval(w, s) IN
         /\ v \in RunType(S)
         /\ \A t \in S \ {s} : v.step[t] = w.step[t]
         /\ v.step[s] = [w.step[s] EXCEPT !.status = "awaiting-approval"]
         /\ RunSound(w) => RunSound(v)
<1> DEFINE x == [w.step[s] EXCEPT !.status = "awaiting-approval"]
           g == [w.step EXCEPT ![s] = x]
           v == [w EXCEPT !.step = g, !.status = "awaiting-approval"]
<1>1. w.step \in [S -> StepType] /\ DOMAIN w.step = S
  BY DEF RunType
<1>2. x \in StepType /\ x.status = "awaiting-approval" /\ x.available = w.step[s].available
  BY <1>1 DEF StepType, STEP_STATUSES
<1>3. awaitApproval(w, s) = v
  BY <1>1 DEF awaitApproval, RunType, StepType
<1> HIDE DEF x
<1>4. g \in [S -> StepType] /\ g[s] = x /\ \A t \in S \ {s} : g[t] = w.step[t]
  BY <1>1, <1>2
<1> HIDE DEF g
<1>5. /\ v \in RunType(S) /\ v.step = g /\ v.status = "awaiting-approval"
      /\ v.cancel = w.cancel /\ v.fail = w.fail /\ v.due = w.due
  BY <1>4 DEF RunType, RUN_STATUSES, STEP_STATUSES
<1> HIDE DEF v
<1>6. ASSUME RunSound(w) PROVE RunSound(v)
  <2>1. DOMAIN v.step = S
    BY <1>5 DEF RunType
  <2>2. ~AllIn(v, TERMINAL_STATUSES) /\ ~Terminal(v) /\ Free(v)
    BY <1>2, <1>4, <1>5, <2>1 DEF AllIn, Terminal, TERMINAL_STATUSES, Free
  <2>3. ~SomeIn(v, {"failed", "needs-review", "cancelled"})
    BY <1>1, <1>2, <1>4, <1>5, <1>6, <2>1 DEF RunSound, SomeIn
  <2> QED
    BY <1>5, <1>6, <2>2, <2>3 DEF RunSound, Terminal, TERMINAL_STATUSES, Free
<1> QED
  BY <1>3, <1>4, <1>5, <1>6 DEF x

(* The steps that wait for a decision are queued again, and no other is touched. *)
Resumed(x, y) == y = x \/ (x.status = "awaiting-approval" /\ y = Ended(x, "queued"))

LEMMA ResumeIs ==
  ASSUME NEW S, NEW w \in RunType(S), CanResume(w)
  PROVE  LET v == resume(w) IN
         /\ v \in RunType(S)
         /\ \A s \in S : Resumed(w.step[s], v.step[s])
         /\ RunSound(w) => RunSound(v)
<1>1. CASE w.status # "awaiting-approval"
  BY <1>1 DEF resume, Resumed
<1>2. CASE w.status = "awaiting-approval"
  <2> DEFINE T == InStatus(w, {"awaiting-approval"})
             x == SetSteps(w, T, "queued")
             v == [x EXCEPT !.status = "queued"]
  <2>1. /\ DOMAIN w.step = S /\ \A s \in S : w.step[s] \in StepType
        /\ T = {s \in S : w.step[s].status \in {"awaiting-approval"}}
    BY InStatusIs
  <2>2. "queued" \in STEP_STATUSES /\ "queued" \in RUN_STATUSES
    BY DEF STEP_STATUSES, RUN_STATUSES
  <2>3. resume(w) = v
    BY <1>2 DEF resume
  <2> HIDE DEF T
  <2>4. /\ x \in RunType(S) /\ SameFlags(w, x)
        /\ \A s \in S : x.step[s] = IF s \in T THEN Ended(w.step[s], "queued") ELSE w.step[s]
    BY <2>2, SetStepsIs DEF SameFlags
  <2> HIDE DEF x
  <2>5. v \in RunType(S) /\ v.status = "queued" /\ v.step = x.step /\ SettleFlags(x, v)
    BY <2>2, <2>4, WithStatus
  <2> HIDE DEF v
  <2>6. \A s \in S : Resumed(w.step[s], v.step[s])
    BY <2>1, <2>4, <2>5 DEF Resumed
  <2>7. Free(w) /\ ~Terminal(w)
    BY <1>2 DEF CanResume, Status, Free, Terminal, TERMINAL_STATUSES
  <2>8. ASSUME RunSound(w) PROVE RunSound(v)
    <3>1. PICK s \in S : w.step[s].status \notin TERMINAL_STATUSES
      BY <2>1, <2>7, <2>8 DEF RunSound, AllIn
    <3>2. \A t \in S : v.step[t].status = IF t \in T THEN "queued" ELSE w.step[t].status
      BY <2>1, <2>2, <2>4, <2>5, EndedType
    <3>3. DOMAIN v.step = S
      BY <2>5 DEF RunType
    <3>4. ~AllIn(v, TERMINAL_STATUSES)
      BY <3>1, <3>2, <3>3 DEF AllIn, TERMINAL_STATUSES
    <3>5. ~SomeIn(v, {"failed", "needs-review", "cancelled"})
      BY <2>1, <2>7, <2>8, <3>2, <3>3 DEF RunSound, SomeIn
    <3>6. Free(v) /\ ~v.due /\ ~Terminal(v) /\ ~v.fail
      BY <2>4, <2>5, <2>7, <2>8 DEF SameFlags, SettleFlags, Free, RunSound, Terminal, TERMINAL_STATUSES
    <3> QED
      BY <2>5, <3>4, <3>5, <3>6 DEF RunSound
  <2> QED
    BY <2>3, <2>5, <2>6, <2>8
<1> QED
  BY <1>1, <1>2

LEMMA ClaimNextIs ==
  ASSUME NEW S, NEW w \in RunType(S), NEW s \in S
  PROVE  LET v == claimNext(w, s) IN
         /\ v \in RunType(S)
         /\ \A t \in S \ {s} : v.step[t] = w.step[t]
         /\ v.step[s] = Claimed(w.step[s])
         /\ RunSound(w) /\ Candidate(w, s) => RunSound(v)
<1> DEFINE x == Claimed(w.step[s])
           g == [w.step EXCEPT ![s] = x]
           X == IF w.status = "queued" THEN "running" ELSE w.status
           v == [w EXCEPT !.status = X, !.step = g]
<1>1. w.step \in [S -> StepType] /\ DOMAIN w.step = S
  BY DEF RunType
<1>8. w.step[s] \in StepType /\ w.step[s].attempt \in Nat /\ w.step[s].attempt + 1 \in Nat
  BY <1>1 DEF StepType
<1>2. x \in StepType /\ x.status = "running"
  BY <1>8 DEF StepType, STEP_STATUSES, Claimed
<1>3. claimNext(w, s) = v
  BY DEF claimNext
<1> HIDE DEF x
<1>4. g \in [S -> StepType] /\ g[s] = x /\ \A t \in S \ {s} : g[t] = w.step[t]
  BY <1>1, <1>2
<1> HIDE DEF g
<1>5. X \in RUN_STATUSES \cup {"absent"}
  BY DEF RunType, RUN_STATUSES, STEP_STATUSES
<1>6. /\ v \in RunType(S) /\ v.step = g /\ v.status = X
      /\ v.cancel = w.cancel /\ v.fail = w.fail /\ v.due = w.due
  BY <1>4, <1>5 DEF RunType
<1> HIDE DEF v
<1>7. ASSUME RunSound(w), Candidate(w, s) PROVE RunSound(v)
  <2>1. DOMAIN v.step = S
    BY <1>6 DEF RunType
  <2>2. Free(v) /\ ~Terminal(v) /\ ~v.due /\ ~v.fail
    BY <1>6, <1>7 DEF Candidate, RunSound, Free, Terminal, TERMINAL_STATUSES
  <2>3. ~AllIn(v, TERMINAL_STATUSES)
    BY <1>2, <1>4, <1>6, <2>1 DEF AllIn, TERMINAL_STATUSES
  <2>4. ~SomeIn(v, {"failed", "needs-review", "cancelled"})
    BY <1>1, <1>2, <1>4, <1>6, <1>7, <2>1 DEF RunSound, SomeIn, Candidate
  <2> QED
    BY <2>2, <2>3, <2>4 DEF RunSound, Terminal, TERMINAL_STATUSES
<1> QED
  BY <1>3, <1>4, <1>6, <1>7 DEF x

LEMMA GiveUpIs ==
  ASSUME NEW S, NEW w \in RunType(S), NEW D \in SUBSET S
  PROVE  LET v == GiveUp(w, D) IN
         /\ v \in RunType(S)
         /\ \A s \in S : v.step[s] = IF s \in D THEN Ended(w.step[s], "needs-review") ELSE w.step[s]
         /\ D = {} => v = w
<1>1. CASE D = {}
  BY <1>1 DEF GiveUp
<1>2. CASE D # {}
  <2> DEFINE x == SetSteps(w, D, "needs-review")
             v == [x EXCEPT !.status = "needs-review"]
  <2>1. "needs-review" \in STEP_STATUSES /\ "needs-review" \in RUN_STATUSES
    BY DEF STEP_STATUSES, RUN_STATUSES, TERMINAL_STATUSES
  <2>2. GiveUp(w, D) = v
    BY <1>2 DEF GiveUp
  <2>3. /\ x \in RunType(S)
        /\ \A s \in S : x.step[s] = IF s \in D THEN Ended(w.step[s], "needs-review") ELSE w.step[s]
    BY <2>1, SetStepsIs
  <2> HIDE DEF x
  <2>4. v \in RunType(S) /\ v.step = x.step
    BY <2>1, <2>3, WithStatus
  <2> HIDE DEF v
  <2> QED
    BY <1>2, <2>2, <2>3, <2>4
<1> QED
  BY <1>1, <1>2
(* recover: what runs under a lease that lapsed is put to review, or, if it may  *)
(* be repeated and nobody here still works on it, queued again.                  *)
Recovers(x, y, local) ==
  \/ Mild(x, y)
  \/ x.status = "running" /\ x.retrySafe /\ ~local /\ Mild(Ended(x, "queued"), y)

LEMMA DeadlinesIs ==
  ASSUME NEW S, NEW w \in RunType(S)
  PROVE  LET v == Deadlines(w) IN
         /\ v \in RunType(S) /\ Milder(w, v)
         /\ RunSound(w) => RunSound(v)
<1>1. CASE Terminal(w) \/ ~w.due
  BY <1>1, MilderRefl DEF Deadlines
<1>2. CASE ~(Terminal(w) \/ ~w.due)
  <2>1. Deadlines(w) = IF w.cancel THEN settleCancellation(w, TRUE) ELSE settleFailure(w, TRUE)
    BY <1>2 DEF Deadlines
  <2>2. RunSound(w) => Ending(w)
    BY <1>2, SoundEnding DEF RunSound
  <2> QED
    BY <2>1, <2>2, SettleCancellationIs, SettleFailureIs
<1> QED
  BY <1>1, <1>2

LEMMA SameStatuses ==
  ASSUME NEW S, NEW w \in RunType(S), NEW v \in RunType(S), SameFlags(w, v),
         \A s \in S : v.step[s].status = w.step[s].status
  PROVE  RunSound(w) => RunSound(v)
<1>1. DOMAIN w.step = S /\ DOMAIN v.step = S
  BY DEF RunType
<1>2. \A X : (AllIn(w, X) <=> AllIn(v, X)) /\ (SomeIn(w, X) <=> SomeIn(v, X))
  BY <1>1 DEF AllIn, SomeIn
<1> QED
  BY <1>2 DEF RunSound, SameFlags, Terminal, Free, Bad

LEMMA RetriedIs ==
  ASSUME NEW S, NEW w \in RunType(S), NEW T \in SUBSET S,
         \A s \in T : w.step[s].status = "running" /\ Free(w)
  PROVE  LET v == SetSteps(w, T, "queued") IN
         /\ v \in RunType(S) /\ SameFlags(w, v)
         /\ \A s \in S : v.step[s] = IF s \in T THEN Ended(w.step[s], "queued") ELSE w.step[s]
         /\ RunSound(w) => RunSound(v)
         /\ Bad(w) => Bad(v)
<1> DEFINE v == SetSteps(w, T, "queued")
<1>1. "queued" \in STEP_STATUSES
  BY DEF STEP_STATUSES
<1>2. /\ v \in RunType(S) /\ SameFlags(w, v)
      /\ \A s \in S : v.step[s] = IF s \in T THEN Ended(w.step[s], "queued") ELSE w.step[s]
  BY <1>1, SetStepsIs DEF SameFlags
<1> HIDE DEF v
<1>3. DOMAIN w.step = S /\ DOMAIN v.step = S /\ \A s \in S : w.step[s] \in StepType
  BY <1>2 DEF RunType
<1>4. \A s \in S : v.step[s].status = IF s \in T THEN "queued" ELSE w.step[s].status
  BY <1>1, <1>2, <1>3, EndedType
<1>5. Bad(w) => Bad(v)
  BY <1>3, <1>4 DEF Bad, SomeIn
<1>6. CASE T = {}
  BY <1>2, <1>5, <1>6, SameStatuses DEF v
<1>7. CASE T # {}
  <2>1. ASSUME RunSound(w) PROVE RunSound(v)
    <3>1. PICK s \in T : w.step[s].status = "running" /\ Free(w)
      BY <1>7
    <3>2. ~Terminal(w) /\ ~AllIn(v, TERMINAL_STATUSES)
      BY <1>3, <1>4, <2>1, <3>1 DEF RunSound, AllIn, TERMINAL_STATUSES
    <3>3. ~SomeIn(v, {"failed", "needs-review", "cancelled"})
      BY <1>3, <1>4, <2>1, <3>1 DEF RunSound, SomeIn
    <3> QED
      BY <1>2, <2>1, <3>1, <3>2, <3>3
         DEF RunSound, SameFlags, Terminal, TERMINAL_STATUSES, Free
  <2> QED
    BY <1>2, <1>5, <2>1 DEF v
<1> QED
  BY <1>6, <1>7 DEF v

LEMMA LeasesIs ==
  ASSUME NEW S, NEW w \in RunType(S), NEW local \in SUBSET S, NEW Q
  PROVE  LET v == Leases(w, local, Q) IN
         /\ v \in RunType(S)
         /\ \A s \in S : Recovers(w.step[s], v.step[s], s \in local)
         /\ RunSound(w) => RunSound(v)
<1> DEFINE R == Retryable(w, local)
           L == Expired(w) \ R
           T == Q \cap R
           x == SetSteps(w, L, "needs-review")
           y == SetSteps(x, T, "queued")
           b == beginFailureStop(y, TRUE)
           u == IF L = {} THEN SetSteps(w, R, "queued")
                ELSE IF w.cancel THEN settleCancellation(y, TRUE) ELSE settleFailure(b, TRUE)
<1>1. Leases(w, local, Q) = u
  BY DEF Leases
<1>2. DOMAIN w.step = S /\ \A s \in S : w.step[s] \in StepType
  BY DEF RunType
<1>3. Expired(w) \subseteq S /\ \A s \in Expired(w) : w.step[s].status = "running"
  BY InStatusIs DEF Expired
<1>4. /\ R \in SUBSET S
      /\ \A s \in R : w.step[s].status = "running" /\ Free(w) /\ w.step[s].retrySafe /\ s \notin local
  BY <1>3 DEF Retryable, RetryLeft
<1>5. L \in SUBSET S /\ (\A s \in L : w.step[s].status = "running") /\ L \cap R = {}
  BY <1>3
<1>6. "needs-review" \in STEP_STATUSES /\ "queued" \in STEP_STATUSES
  BY DEF STEP_STATUSES, TERMINAL_STATUSES
<1> HIDE DEF R, L
<1>7. CASE L = {}
  <2>1. /\ u \in RunType(S)
        /\ \A s \in S : u.step[s] = IF s \in R THEN Ended(w.step[s], "queued") ELSE w.step[s]
        /\ RunSound(w) => RunSound(u)
    BY <1>4, <1>7, RetriedIs
  <2> HIDE DEF u
  <2>2. \A s \in S : Recovers(w.step[s], u.step[s], s \in local)
    BY <1>4, <2>1 DEF Recovers, Mild
  <2> QED
    BY <1>1, <2>1, <2>2
<1>8. CASE L # {}
  <2>1. /\ x \in RunType(S) /\ SameFlags(w, x) /\ Bad(x)
        /\ RunSound(w) => ~Terminal(x)
    BY <1>5, <1>6, <1>8, SetRunning
  <2>2. \A s \in S : x.step[s] = IF s \in L THEN Ended(w.step[s], "needs-review") ELSE w.step[s]
    BY <1>6, SetStepsIs
  <2> HIDE DEF x
  <2>3. T \in SUBSET S /\ \A s \in T : x.step[s].status = "running" /\ Free(x)
    BY <1>4, <1>5, <2>1, <2>2 DEF SameFlags, Free
  <2> HIDE DEF T
  <2>4. /\ y \in RunType(S) /\ SameFlags(x, y) /\ Bad(y)
        /\ \A s \in S : y.step[s] = IF s \in T THEN Ended(x.step[s], "queued") ELSE x.step[s]
    BY <2>1, <2>3, RetriedIs
  <2> HIDE DEF y
  <2>5. RunSound(w) => ~Terminal(y)
    BY <2>1, <2>4 DEF SameFlags, Terminal
  <2>6. ASSUME NEW s \in S, NEW z, Mild(y.step[s], z)
        PROVE  Recovers(w.step[s], z, s \in local)
    <3>1. CASE s \in T
      <4>1. s \in R /\ s \notin L
        BY <1>5, <3>1 DEF T
      <4>2. y.step[s] = Ended(w.step[s], "queued")
        BY <2>2, <2>4, <3>1, <4>1
      <4> QED
        BY <1>4, <2>6, <4>1, <4>2 DEF Recovers
    <3>2. CASE s \notin T
      <4>1. y.step[s] = x.step[s] /\ Mild(w.step[s], x.step[s])
        BY <1>5, <2>2, <2>4, <3>2 DEF Mild
      <4> QED
        BY <1>2, <2>6, <4>1, MildTrans DEF Recovers
    <3> QED
      BY <3>1, <3>2
  <2>7. CASE w.cancel
    <3>1. RunSound(w) => Ending(y)
      BY <2>1, <2>4, <2>5, <2>7 DEF SameFlags, Ending, Free
    <3>2. u = settleCancellation(y, TRUE)
      BY <1>8, <2>7
    <3> HIDE DEF u
    <3>3. u \in RunType(S) /\ Milder(y, u) /\ (Ending(y) => RunSound(u))
      BY <2>4, <3>2, SettleCancellationIs
    <3>4. \A s \in S : Recovers(w.step[s], u.step[s], s \in local)
      BY <2>4, <2>6, <3>3, InStatusIs DEF Milder
    <3> QED
      BY <1>1, <3>1, <3>3, <3>4
  <2>8. CASE ~w.cancel
    <3>1. /\ b \in RunType(S) /\ Milder(y, b)
          /\ RunSound(w) => Ending(b)
      BY <2>4, <2>5, BeginFailureStopIs
    <3> HIDE DEF b
    <3>2. u = settleFailure(b, TRUE)
      BY <1>8, <2>8
    <3> HIDE DEF u
    <3>3. u \in RunType(S) /\ Milder(b, u) /\ (Ending(b) => RunSound(u))
      BY <3>1, <3>2, SettleFailureIs
    <3>4. Milder(y, u)
      BY <2>4, <3>1, <3>3, MilderTrans
    <3>5. \A s \in S : Recovers(w.step[s], u.step[s], s \in local)
      BY <2>4, <2>6, <3>4, InStatusIs DEF Milder
    <3> QED
      BY <1>1, <3>1, <3>3, <3>5
  <2> QED
    BY <2>7, <2>8
<1> QED
  BY <1>7, <1>8

LEMMA RecoverIs ==
  ASSUME NEW S, NEW w \in RunType(S), NEW local \in SUBSET S, NEW Q
  PROVE  LET v == recover(w, local, Q) IN
         /\ v \in RunType(S)
         /\ \A s \in S : Recovers(w.step[s], v.step[s], s \in local)
         /\ RunSound(w) => RunSound(v)
<1> DEFINE x == Deadlines(w)
           y == Leases(x, local, Q)
           v == recover(w, local, Q)
<1>1. x \in RunType(S) /\ Milder(w, x) /\ (RunSound(w) => RunSound(x))
  BY DeadlinesIs
<1>2. v = IF y.cancel /\ ~Terminal(y) THEN settleCancellation(y, FALSE) ELSE y
  BY DEF recover
<1> HIDE DEF x
<1>3. /\ y \in RunType(S) /\ \A s \in S : Recovers(x.step[s], y.step[s], s \in local)
      /\ RunSound(x) => RunSound(y)
  BY <1>1, LeasesIs
<1> HIDE DEF y, v
<1>4. DOMAIN w.step = S /\ DOMAIN y.step = S /\ DOMAIN x.step = S
      /\ \A s \in S : w.step[s] \in StepType /\ x.step[s] \in StepType
  BY <1>1, <1>3 DEF RunType
<1>5. ASSUME y.cancel /\ ~Terminal(y)
      PROVE /\ v \in RunType(S) /\ Milder(y, v)
            /\ RunSound(y) => RunSound(v)
  <2>1. RunSound(y) => Ending(y)
    BY <1>5, SoundEnding DEF Free
  <2> QED
    BY <1>2, <1>3, <1>5, <2>1, SettleCancellationIs
<1>6. v \in RunType(S) /\ Milder(y, v) /\ (RunSound(y) => RunSound(v))
  BY <1>2, <1>3, <1>5, MilderRefl
<1>7. ASSUME NEW s \in S PROVE Recovers(w.step[s], v.step[s], s \in local)
  <2>1. Mild(w.step[s], x.step[s]) /\ Mild(y.step[s], v.step[s])
    BY <1>1, <1>4, <1>6 DEF Milder
  <2>2. Recovers(x.step[s], y.step[s], s \in local)
    BY <1>3
  <2>3. CASE Mild(x.step[s], y.step[s])
    <3>1. y.step[s] \in StepType /\ Mild(w.step[s], y.step[s])
      BY <1>4, <2>1, <2>3, MildTrans, MildFacts
    <3> QED
      BY <1>4, <2>1, <3>1, MildTrans DEF Recovers
  <2>4. CASE /\ x.step[s].status = "running" /\ x.step[s].retrySafe /\ s \notin local
             /\ Mild(Ended(x.step[s], "queued"), y.step[s])
    <3>1. x.step[s] = w.step[s]
      BY <1>4, <2>1, <2>4, MildFacts
    <3>2. Ended(x.step[s], "queued") \in StepType
      BY <1>4, EndedType DEF STEP_STATUSES
    <3>3. Mild(Ended(x.step[s], "queued"), v.step[s])
      BY <2>1, <2>4, <3>2, MildTrans
    <3> QED
      BY <2>4, <3>1, <3>3 DEF Recovers
  <2> QED
    BY <2>2, <2>3, <2>4 DEF Recovers
<1> QED
  BY <1>1, <1>3, <1>6, <1>7 DEF v
---------------------------------------------------------------------------
(* What the invariant says of a step, through each of these changes *)

SameKind(x, y) == y.retrySafe = x.retrySafe /\ y.available = x.available

LEMMA SoundMild ==
  ASSUME NEW x \in StepType, NEW y, NEW e, NEW f, NEW n, NEW a,
         StepSound(x, e, n, a), Mild(x, y), f.pc = e.pc, f.lease = e.lease
  PROVE  y \in StepType /\ SameKind(x, y) /\ StepSound(y, f, n, a)
<1>1. /\ y \in StepType /\ SameKind(x, y)
      /\ \/ y = x
         \/ x.status \in {"queued", "awaiting-approval"} /\ y.status = "cancelled" /\ y.lease = 0
         \/ x.status = "running" /\ y.status = "needs-review" /\ y.lease = 0
  BY MildFacts DEF SameKind
<1>2. CASE y = x
  BY <1>1, <1>2 DEF StepSound
<1>3. CASE x.status \in {"queued", "awaiting-approval"} /\ y.status = "cancelled" /\ y.lease = 0
  BY <1>1, <1>3 DEF StepSound, SameKind, TERMINAL_STATUSES
<1>4. CASE x.status = "running" /\ y.status = "needs-review" /\ y.lease = 0
  BY <1>1, <1>4 DEF StepSound, SameKind, TERMINAL_STATUSES
<1> QED
  BY <1>1, <1>2, <1>3, <1>4

LEMMA SoundRecovers ==
  ASSUME NEW x \in StepType, NEW y, NEW e, NEW f, NEW n, NEW a, NEW local,
         StepSound(x, e, n, a), Recovers(x, y, local), f.pc = e.pc, f.lease = e.lease,
         e.pc # "none" /\ x.status = "running" => local
  PROVE  y \in StepType /\ SameKind(x, y) /\ StepSound(y, f, n, a)
<1>1. CASE Mild(x, y)
  BY <1>1, SoundMild
<1>2. CASE x.status = "running" /\ x.retrySafe /\ ~local /\ Mild(Ended(x, "queued"), y)
  <2> DEFINE q == Ended(x, "queued")
  <2>1. q \in StepType /\ q.status = "queued" /\ q.lease = 0 /\ SameKind(x, q)
    BY EndedType DEF STEP_STATUSES, SameKind
  <2> HIDE DEF q
  <2>2. StepSound(q, e, n, a)
    BY <1>2, <2>1 DEF StepSound, SameKind, TERMINAL_STATUSES
  <2>3. Mild(q, y)
    BY <1>2 DEF q
  <2> QED
    BY <2>1, <2>2, <2>3, SoundMild DEF SameKind
<1> QED
  BY <1>1, <1>2 DEF Recovers

(* What must be known of a step to give it that status: n and a are the dispatches *)
(* begun, and what the last of them told.                                         *)
Allowed(status, x, n, a) ==
  /\ status = "completed" => a = "done"
  /\ status = "queued" => x.retrySafe
  /\ status \in {"cancelled", "failed"} /\ ~x.retrySafe /\ n > 0 => a = "harmless"

EndsAs(x, y, n, a) ==
  \/ Mild(x, y)
  \/ /\ x.status = "running"
     /\ \E status \in TERMINAL_STATUSES \cup {"queued"} :
          Allowed(status, x, n, a) /\ Mild(Ended(x, status), y)
  \/ /\ x.status = "running" /\ (~x.retrySafe => n = 0)
     /\ y = [x EXCEPT !.status = "awaiting-approval"]

LEMMA SoundEnds ==
  ASSUME NEW x \in StepType, NEW y, NEW e, NEW n, NEW a, NEW m \in Nat, NEW b,
         StepSound(x, e, n, a), e.pc # "none", ~x.retrySafe => m <= 1, EndsAs(x, y, m, b)
  PROVE  y \in StepType /\ SameKind(x, y) /\ StepSound(y, NoEntry, m, b)
<1>1. x.status \in {"running", "needs-review"} /\ (x.status = "needs-review" => x.lease = 0)
  BY DEF StepSound, TERMINAL_STATUSES
<1>2. StepSound(x, NoEntry, m, b)
  BY <1>1 DEF StepSound, NoEntry, TERMINAL_STATUSES
<1>3. CASE Mild(x, y)
  BY <1>2, <1>3, SoundMild
<1>4. CASE /\ x.status = "running"
           /\ \E status \in TERMINAL_STATUSES \cup {"queued"} :
                Allowed(status, x, m, b) /\ Mild(Ended(x, status), y)
  <2>1. PICK status \in TERMINAL_STATUSES \cup {"queued"} :
           Allowed(status, x, m, b) /\ Mild(Ended(x, status), y)
    BY <1>4
  <2> DEFINE q == Ended(x, status)
  <2>2. q \in StepType /\ q.status = status /\ q.lease = 0 /\ SameKind(x, q)
    BY EndedType DEF STEP_STATUSES, SameKind
  <2>3. Mild(q, y)
    BY <2>1
  <2> HIDE DEF q
  <2>4. StepSound(q, NoEntry, m, b)
    BY <2>1, <2>2 DEF StepSound, SameKind, TERMINAL_STATUSES, Allowed, NoEntry
  <2> QED
    BY <2>2, <2>3, <2>4, SoundMild DEF SameKind
<1>5. CASE /\ x.status = "running" /\ (~x.retrySafe => m = 0)
           /\ y = [x EXCEPT !.status = "awaiting-approval"]
  <2>1. y \in StepType /\ y.status = "awaiting-approval" /\ SameKind(x, y)
    BY <1>5 DEF StepType, STEP_STATUSES, SameKind
  <2> QED
    BY <1>5, <2>1 DEF StepSound, SameKind, TERMINAL_STATUSES, NoEntry
<1> QED
  BY <1>3, <1>4, <1>5 DEF EndsAs

LEMMA WholeKept ==
  ASSUME NEW S, NEW w \in RunType(S), NEW v \in RunType(S),
         \A s \in S : v.step[s].available = w.step[s].available
  PROVE  Whole(w) <=> Whole(v)
<1>1. DOMAIN w.step = S /\ DOMAIN v.step = S
  BY DEF RunType
<1> QED
  BY <1>1 DEF Whole
---------------------------------------------------------------------------
(* What the steps of the process have in common *)

LEMMA RowIs ==
  ASSUME TypeOK, NEW s \in Steps
  PROVE  /\ RunOf[s] \in Runs /\ s \in StepsOf(RunOf[s])
         /\ Row(s) \in RunType(StepsOf(RunOf[s]))
         /\ Row(s).step[s] \in StepType
<1>1. RunOf[s] \in Runs /\ s \in StepsOf(RunOf[s])
  BY WorkflowsAssumption DEF StepsOf
<1>2. Row(s) \in RunType(StepsOf(RunOf[s]))
  BY <1>1 DEF TypeOK, Row
<1> QED
  BY <1>1, <1>2, InStatusIs

RowsOK ==
  /\ run \in [Runs -> UNION {RunType(StepsOf(r)) : r \in Runs}]
  /\ \A r \in Runs : run[r] \in RunType(StepsOf(r))

(* Entries may be aborted, and no more. *)
EntriesAged ==
  /\ entry' \in [Steps -> EntryType]
  /\ \A s \in Steps : entry'[s].pc = entry[s].pc /\ entry'[s].lease = entry[s].lease

LEMMA AbortRunIs ==
  ASSUME NEW e \in [Steps -> EntryType], NEW r, NEW X
  PROVE  /\ AbortRun(e, r, X) \in [Steps -> EntryType]
         /\ \A s \in Steps : /\ AbortRun(e, r, X)[s].pc = e[s].pc
                             /\ AbortRun(e, r, X)[s].lease = e[s].lease
         /\ \A s \in X \cap Steps : AbortRun(e, r, X)[s] = e[s]
  BY DEF AbortRun, EntryType

(* One run's row changes. *)
LEMMA OnlyOneRun ==
  ASSUME TypeOK, RunsSound, NEW r \in Runs, NEW v \in RunType(StepsOf(r)),
         run' = [run EXCEPT ![r] = v],
         RunSound(run[r]) => RunSound(v),
         \A s \in StepsOf(r) : SameKind(run[r].step[s], v.step[s])
  PROVE  /\ RowsOK' /\ RunsSound'
         /\ \A s \in Steps : Row(s)' = IF RunOf[s] = r THEN v ELSE Row(s)
<1>1. run \in [Runs -> UNION {RunType(StepsOf(q)) : q \in Runs}]
      /\ \A q \in Runs : run[q] \in RunType(StepsOf(q))
  BY DEF TypeOK
<1>2. \A q \in Runs : run'[q] = IF q = r THEN v ELSE run[q]
  BY <1>1
<1>3. RowsOK'
  <2>1. v \in UNION {RunType(StepsOf(q)) : q \in Runs}
    OBVIOUS
  <2>2. run' \in [Runs -> UNION {RunType(StepsOf(q)) : q \in Runs}]
    BY <1>1, <2>1
  <2> QED
    BY <1>1, <1>2, <2>2 DEF RowsOK
<1>4. RunsSound'
  <2>1. Whole(run[r]) <=> Whole(v)
    BY <1>1, WholeKept DEF SameKind
  <2> QED
    BY <1>2, <2>1 DEF RunsSound
<1>5. \A s \in Steps : Row(s)' = IF RunOf[s] = r THEN v ELSE Row(s)
  BY <1>2, WorkflowsAssumption DEF Row
<1> QED
  BY <1>3, <1>4, <1>5

LEMMA OneRunMilder ==
  ASSUME TypeOK, RunsSound, StepsSound, NEW r \in Runs, NEW v \in RunType(StepsOf(r)),
         Milder(run[r], v), run' = [run EXCEPT ![r] = v],
         RunSound(run[r]) => RunSound(v),
         EntriesAged, UNCHANGED <<started, answered>>
  PROVE  RowsOK' /\ RunsSound' /\ StepsSound'
<1>1. run[r] \in RunType(StepsOf(r))
  BY DEF TypeOK
<1>2. \A s \in StepsOf(r) : Mild(run[r].step[s], v.step[s]) /\ run[r].step[s] \in StepType
  BY <1>1, InStatusIs DEF Milder
<1>3. \A s \in StepsOf(r) : SameKind(run[r].step[s], v.step[s])
  BY <1>2, MildFacts DEF SameKind
<1>4. /\ RowsOK' /\ RunsSound'
      /\ \A s \in Steps : Row(s)' = IF RunOf[s] = r THEN v ELSE Row(s)
  BY <1>3, OnlyOneRun
<1>5. ASSUME NEW s \in Steps
      PROVE  StepSound(Row(s).step[s], entry[s], started[s], answered[s])'
  <2>1. StepSound(Row(s).step[s], entry[s], started[s], answered[s]) /\ Row(s).step[s] \in StepType
    BY RowIs DEF StepsSound
  <2>2. entry'[s].pc = entry[s].pc /\ entry'[s].lease = entry[s].lease
        /\ started'[s] = started[s] /\ answered'[s] = answered[s]
    BY DEF EntriesAged
  <2>3. Mild(Row(s).step[s], Row(s)'.step[s])
    BY <1>2, <1>4 DEF Row, Mild, StepsOf
  <2>4. StepSound(Row(s)'.step[s], entry'[s], started[s], answered[s])
    BY <2>1, <2>2, <2>3, SoundMild
  <2> QED
    BY <2>2, <2>4
<1> QED
  BY <1>4, <1>5 DEF StepsSound
---------------------------------------------------------------------------
(* execute() ends *)

Others(s) ==
  \A t \in Steps \ {s} : entry'[t].pc = entry[t].pc /\ entry'[t].lease = entry[t].lease

EntryDropped(s) == entry' \in [Steps -> EntryType] /\ entry'[s] = NoEntry /\ Others(s)

FinishedAs(s, v, n, a) ==
  /\ v \in RunType(StepsOf(RunOf[s]))
  /\ RunSound(Row(s)) => RunSound(v)
  /\ \A t \in StepsOf(RunOf[s]) \ {s} : Mild(Row(s).step[t], v.step[t])
  /\ EndsAs(Row(s).step[s], v.step[s], n, a)

(* n and a are what the ghosts say of the step after that. *)
Finished(s, n, a) ==
  /\ \E v : FinishedAs(s, v, n, a) /\ run' = [run EXCEPT ![RunOf[s]] = v]
  /\ EntryDropped(s) /\ draining' \in BOOLEAN /\ timer' \in BOOLEAN

LEMMA DropIs ==
  ASSUME TypeOK, NEW s \in Steps
  PROVE  LET left == [entry EXCEPT ![s] = NoEntry] IN
         /\ left \in [Steps -> EntryType] /\ left[s] = NoEntry
         /\ \A t \in Steps \ {s} : left[t] = entry[t]
  BY DEF TypeOK, EntryType, NoEntry

LEMMA FinishIs ==
  ASSUME TypeOK, NEW s \in Steps, NEW v, NEW n, NEW a, FinishedAs(s, v, n, a), Finish(s, v)
  PROVE  Finished(s, n, a)
<1>1. EntryDropped(s)
  BY DropIs DEF Finish, EntryDropped, Others
<1>2. draining' \in BOOLEAN /\ timer' \in BOOLEAN
  BY DEF Finish, Drain, TypeOK
<1> QED
  BY <1>1, <1>2 DEF Finish, Finished

LEMMA TakenFinishes ==
  ASSUME TypeOK, NEW s \in Steps, NEW v \in RunType(StepsOf(RunOf[s])), NEW n, NEW a,
         NEW status \in TERMINAL_STATUSES \cup {"queued"},
         Row(s).step[s].status = "running", Taken(Row(s), s, v, status),
         RunSound(Row(s)) => RunSound(v),
         Allowed(status, Row(s).step[s], n, a)
  PROVE  FinishedAs(s, v, n, a)
<1>1. DOMAIN Row(s).step = StepsOf(RunOf[s])
  BY RowIs, InStatusIs
<1>2. EndsAs(Row(s).step[s], v.step[s], n, a)
  BY DEF EndsAs, Taken
<1> QED
  BY <1>1, <1>2 DEF FinishedAs, Taken

LEMMA NothingFinishes ==
  ASSUME TypeOK, NEW s \in Steps, NEW n, NEW a
  PROVE  FinishedAs(s, Row(s), n, a)
  BY RowIs DEF FinishedAs, EndsAs, Mild

LEMMA MilderFinishes ==
  ASSUME TypeOK, NEW s \in Steps, NEW v \in RunType(StepsOf(RunOf[s])), NEW n, NEW a,
         Milder(Row(s), v), RunSound(Row(s)) => RunSound(v)
  PROVE  FinishedAs(s, v, n, a)
<1>1. DOMAIN Row(s).step = StepsOf(RunOf[s]) /\ s \in StepsOf(RunOf[s])
  BY RowIs, InStatusIs
<1> QED
  BY <1>1 DEF FinishedAs, EndsAs, Milder

(* While a step is in an entry, the lease of that entry is its own only if it runs. *)
LEMMA LeasedRuns ==
  ASSUME TypeOK, StepsSound, NEW s \in Steps, Busy(s), Leased(Row(s), s, entry[s].lease)
  PROVE  Row(s).step[s].status = "running"
  BY DEF StepsSound, StepSound, Busy, Leased, TERMINAL_STATUSES

LEMMA FinishFailedIs ==
  ASSUME TypeOK, NEW s \in Steps, NEW n, NEW a, NEW uncertain \in BOOLEAN,
         Row(s).step[s].status = "running", Free(Row(s)),
         ~Row(s).step[s].retrySafe => uncertain \/ n = 0 \/ a = "harmless",
         n \in Nat,
         FinishFailed(s, uncertain)
  PROVE  Finished(s, n, a)
<1> DEFINE w == Row(s)
           v == failStep(w, s, uncertain)
           X == FailStatus(w, s, uncertain)
           left == [entry EXCEPT ![s] = NoEntry]
<1>1. w \in RunType(StepsOf(RunOf[s])) /\ s \in StepsOf(RunOf[s])
  BY RowIs
<1>2. /\ v \in RunType(StepsOf(RunOf[s])) /\ Taken(w, s, v, X)
      /\ RunSound(w) => RunSound(v)
  BY <1>1, FailStepIs
<1>3. X \in TERMINAL_STATUSES \cup {"queued"} /\ Allowed(X, w.step[s], n, a)
  BY DEF FailStatus, TERMINAL_STATUSES, Allowed, RetryLeft
<1>4. FinishedAs(s, v, n, a)
  <2> HIDE DEF v, X
  <2> QED
    BY <1>2, <1>3, TakenFinishes
<1>5. left \in [Steps -> EntryType] /\ left[s] = NoEntry /\ \A t \in Steps \ {s} : left[t] = entry[t]
  BY DropIs
<1>6. entry' = AbortRun(left, RunOf[s], {s}) \/ entry' = left
  BY DEF FinishFailed
<1> HIDE DEF left
<1>7. EntryDropped(s)
  BY <1>5, <1>6, AbortRunIs DEF EntryDropped, Others
<1>8. draining' \in BOOLEAN /\ timer' \in BOOLEAN
  BY DEF FinishFailed, Drain, TypeOK
<1> QED
  BY <1>4, <1>7, <1>8 DEF Finished, FinishFailed

LEMMA FinishedKeeps ==
  ASSUME Inv, NEW s \in Steps, Busy(s), NEW n \in Nat, NEW a \in {"nothing", "done", "harmless"},
         Finished(s, n, a), ~Row(s).step[s].retrySafe => n <= 1,
         started' = [started EXCEPT ![s] = n], answered' = [answered EXCEPT ![s] = a],
         up # "down", UNCHANGED <<up, waiting>>, faults' \in 0..MaxFaults
  PROVE  Inv'
<1>1. TypeOK /\ StepsSound /\ RunsSound
  BY DEF Inv
<1>2. PICK v : FinishedAs(s, v, n, a) /\ run' = [run EXCEPT ![RunOf[s]] = v]
  BY DEF Finished
<1>3. /\ EntryDropped(s) /\ draining' \in BOOLEAN /\ timer' \in BOOLEAN
  BY DEF Finished
<1>4. RunOf[s] \in Runs /\ s \in StepsOf(RunOf[s]) /\ Row(s) \in RunType(StepsOf(RunOf[s]))
      /\ \A t \in StepsOf(RunOf[s]) : Row(s).step[t] \in StepType
  BY <1>1, RowIs, InStatusIs
<1>5. StepSound(Row(s).step[s], entry[s], started[s], answered[s])
  BY <1>1 DEF StepsSound
<1>6. /\ v.step[s] \in StepType /\ SameKind(Row(s).step[s], v.step[s])
      /\ StepSound(v.step[s], NoEntry, n, a)
  BY <1>2, <1>4, <1>5, SoundEnds DEF Busy, FinishedAs
<1>7. ASSUME NEW t \in StepsOf(RunOf[s]) PROVE SameKind(Row(s).step[t], v.step[t])
  <2>1. CASE t = s
    BY <1>6, <2>1
  <2>2. CASE t # s
    BY <1>2, <1>4, <2>2, MildFacts DEF FinishedAs, SameKind
  <2> QED
    BY <2>1, <2>2
<1>8. /\ RowsOK' /\ RunsSound'
      /\ \A t \in Steps : Row(t)' = IF RunOf[t] = RunOf[s] THEN v ELSE Row(t)
  BY <1>1, <1>2, <1>4, <1>7, OnlyOneRun DEF FinishedAs, Row
<1>9. /\ started' \in [Steps -> Nat] /\ started'[s] = n
      /\ \A t \in Steps \ {s} : started'[t] = started[t]
      /\ answered' \in [Steps -> {"nothing", "done", "harmless"}] /\ answered'[s] = a
      /\ \A t \in Steps \ {s} : answered'[t] = answered[t]
  BY <1>1 DEF TypeOK
<1>10. ASSUME NEW t \in Steps
       PROVE  StepSound(Row(t)'.step[t], entry'[t], started'[t], answered'[t])
  <2>1. CASE t = s
    BY <1>3, <1>6, <1>8, <1>9, <2>1 DEF EntryDropped
  <2>2. CASE t # s
    <3>1. StepSound(Row(t).step[t], entry[t], started[t], answered[t]) /\ Row(t).step[t] \in StepType
      BY <1>1, RowIs DEF StepsSound
    <3>2. Mild(Row(t).step[t], Row(t)'.step[t])
      BY <1>2, <1>8, <2>2 DEF FinishedAs, Row, Mild, StepsOf
    <3>3. entry'[t].pc = entry[t].pc /\ entry'[t].lease = entry[t].lease
      BY <1>3, <2>2 DEF EntryDropped, Others
    <3> QED
      BY <1>9, <2>2, <3>1, <3>2, <3>3, SoundMild
  <2> QED
    BY <2>1, <2>2
<1>11. StepsSound'
  BY <1>10 DEF StepsSound
<1>12. TypeOK'
  BY <1>1, <1>3, <1>8, <1>9 DEF TypeOK, RowsOK, EntryDropped
<1>13. QuietWhenDown'
  BY DEF QuietWhenDown
<1> QED
  BY <1>8, <1>11, <1>12, <1>13 DEF Inv
LEMMA AcknowledgedFinishes ==
  ASSUME TypeOK, NEW s \in Steps, NEW n, NEW a, NEW uncertain \in BOOLEAN,
         Row(s).step[s].status = "running",
         ~Row(s).step[s].retrySafe /\ n > 0 => uncertain \/ a = "harmless"
  PROVE  /\ Row(s).cancel => FinishedAs(s, acknowledgeCancellation(Row(s), s, uncertain), n, a)
         /\ Row(s).fail => FinishedAs(s, acknowledgeStop(Row(s), s, uncertain), n, a)
<1> DEFINE w == Row(s)
           X == IF uncertain THEN "needs-review" ELSE "cancelled"
<1>1. w \in RunType(StepsOf(RunOf[s])) /\ s \in StepsOf(RunOf[s])
  BY RowIs
<1>2. X \in TERMINAL_STATUSES \cup {"queued"} /\ Allowed(X, w.step[s], n, a)
  BY DEF TERMINAL_STATUSES, Allowed
<1>3. ASSUME w.cancel PROVE FinishedAs(s, acknowledgeCancellation(w, s, uncertain), n, a)
  <2> DEFINE v == acknowledgeCancellation(w, s, uncertain)
  <2>1. v \in RunType(StepsOf(RunOf[s])) /\ Taken(w, s, v, X) /\ (RunSound(w) => RunSound(v))
    BY <1>1, <1>3, AcknowledgeCancellationIs
  <2> HIDE DEF v, X
  <2>2. FinishedAs(s, v, n, a)
    BY <1>2, <2>1, TakenFinishes
  <2> QED
    BY <2>2 DEF v
<1>4. ASSUME w.fail PROVE FinishedAs(s, acknowledgeStop(w, s, uncertain), n, a)
  <2> DEFINE v == acknowledgeStop(w, s, uncertain)
  <2>1. v \in RunType(StepsOf(RunOf[s])) /\ Taken(w, s, v, X) /\ (RunSound(w) => RunSound(v))
    BY <1>1, <1>4, AcknowledgeStopIs
  <2> HIDE DEF v, X
  <2>2. FinishedAs(s, v, n, a)
    BY <1>2, <2>1, TakenFinishes
  <2> QED
    BY <2>2 DEF v
<1> QED
  BY <1>3, <1>4

(* Whatever the catch block does, an effectful step is not called harmless by it. *)
LEMMA CatchIs ==
  ASSUME TypeOK, StepsSound, NEW s \in Steps, Busy(s), NEW n \in Nat, NEW a,
         NEW returned \in BOOLEAN, Catch(s, returned)
  PROVE  Finished(s, n, a)
<1> DEFINE w == Row(s)
           l == entry[s].lease
           unsure == ~w.step[s].retrySafe
<1>1. w \in RunType(StepsOf(RunOf[s])) /\ s \in StepsOf(RunOf[s]) /\ w.step[s].retrySafe \in BOOLEAN
  BY RowIs DEF StepType
<1>2. Leased(w, s, l) => w.step[s].status = "running"
  BY LeasedRuns
<1>3. unsure \in BOOLEAN /\ (returned \/ unsure) \in BOOLEAN
  BY <1>1
<1>4. CASE Status(w) = "cancelling" /\ CanAcknowledge(w, s, l)
  <2>1. Finish(s, acknowledgeCancellation(w, s, returned \/ unsure))
    BY <1>4 DEF Catch
  <2>2. w.step[s].status = "running" /\ w.cancel
    BY <1>2, <1>4 DEF CanAcknowledge, Held
  <2>3. FinishedAs(s, acknowledgeCancellation(w, s, returned \/ unsure), n, a)
    BY <1>3, <2>2, AcknowledgedFinishes
  <2> QED
    BY <2>1, <2>3, FinishIs
<1>5. CASE Status(w) = "stopping" /\ CanStop(w, s, l)
  <2>1. Finish(s, acknowledgeStop(w, s, returned \/ unsure))
    BY <1>5 DEF Catch
  <2>2. w.step[s].status = "running" /\ w.fail
    BY <1>2, <1>5 DEF CanStop, Held
  <2>3. FinishedAs(s, acknowledgeStop(w, s, returned \/ unsure), n, a)
    BY <1>3, <2>2, AcknowledgedFinishes
  <2> QED
    BY <2>1, <2>3, FinishIs
<1>6. CASE Status(w) \notin {"cancelling", "stopping"} /\ Leased(w, s, l) /\ w.step[s].past
  <2>1. Finish(s, quarantineStep(w, {s}))
    BY <1>6 DEF Catch, CanSettle, Held
  <2>2. {s} \in SUBSET StepsOf(RunOf[s]) /\ \A t \in {s} : w.step[t].status = "running"
    BY <1>1, <1>2, <1>6
  <2>3. /\ quarantineStep(w, {s}) \in RunType(StepsOf(RunOf[s])) /\ Milder(w, quarantineStep(w, {s}))
        /\ RunSound(w) => RunSound(quarantineStep(w, {s}))
    BY <1>1, <2>2, QuarantineStepIs
  <2>4. FinishedAs(s, quarantineStep(w, {s}), n, a)
    BY <2>3, MilderFinishes
  <2> QED
    BY <2>1, <2>4, FinishIs
<1>7. CASE Status(w) \notin {"cancelling", "stopping"} /\ CanSettle(w, s, l)
  <2>1. FinishFailed(s, unsure)
    BY <1>7 DEF Catch, CanSettle, Held
  <2>2. w.step[s].status = "running" /\ Free(w)
    BY <1>2, <1>7 DEF CanSettle, Held
  <2> QED
    BY <1>3, <2>1, <2>2, FinishFailedIs
<1>8. CASE /\ ~(Status(w) = "cancelling" /\ CanAcknowledge(w, s, l))
           /\ ~(Status(w) = "stopping" /\ CanStop(w, s, l))
           /\ ~(Status(w) \notin {"cancelling", "stopping"} /\ Leased(w, s, l) /\ w.step[s].past)
           /\ ~(Status(w) \notin {"cancelling", "stopping"} /\ CanSettle(w, s, l))
  <2>1. Finish(s, w)
    BY <1>8 DEF Catch
  <2> QED
    BY <2>1, NothingFinishes, FinishIs
<1> QED
  BY <1>4, <1>5, <1>6, <1>7, <1>8

(* Nothing but the entry and the row changes: the ghosts stay. *)
LEMMA SameGhosts ==
  ASSUME Inv, NEW s \in Steps, Busy(s), Finished(s, started[s], answered[s]),
         up # "down", UNCHANGED <<up, waiting, started, answered>>, faults' \in 0..MaxFaults
  PROVE  Inv'
<1>1. TypeOK /\ StepsSound
  BY DEF Inv
<1>2. /\ started[s] \in Nat /\ answered[s] \in {"nothing", "done", "harmless"}
      /\ started' = [started EXCEPT ![s] = started[s]]
      /\ answered' = [answered EXCEPT ![s] = answered[s]]
  BY <1>1 DEF TypeOK
<1>3. ~Row(s).step[s].retrySafe => started[s] <= 1
  BY <1>1 DEF StepsSound, StepSound
<1> QED
  BY <1>2, <1>3, FinishedKeeps

LEMMA AdmitRefusedKeeps ==
  ASSUME Inv, NEW s \in Steps, AdmitRefused(s)
  PROVE  Inv'
<1> DEFINE w == Row(s)
           l == entry[s].lease
           n == started[s]
           a == answered[s]
<1>1. TypeOK /\ StepsSound
  BY DEF Inv
<1>2. /\ Idle /\ entry[s].pc = "admitting" /\ Busy(s) /\ n \in Nat
      /\ UNCHANGED <<up, waiting, faults, started, answered>> /\ up # "down"
      /\ faults' \in 0..MaxFaults
  BY <1>1 DEF AdmitRefused, Ends, Busy, Idle, TypeOK
<1>3. Leased(w, s, l) => w.step[s].status = "running"
  BY <1>1, <1>2, LeasedRuns
<1>4. ~w.step[s].retrySafe => n = 0
  BY <1>1, <1>2 DEF StepsSound, StepSound
<1>6. ~w.step[s].retrySafe /\ n > 0 => FALSE \/ a = "harmless"
  BY <1>2, <1>4
<1>5. Finished(s, n, a)
  <2>1. CASE Status(w) = "cancelling" /\ CanAcknowledge(w, s, l)
    <3>1. Finish(s, acknowledgeCancellation(w, s, FALSE))
      BY <2>1 DEF AdmitRefused
    <3>2. w.step[s].status = "running" /\ w.cancel
      BY <1>3, <2>1 DEF CanAcknowledge, Held
    <3>3. FinishedAs(s, acknowledgeCancellation(w, s, FALSE), n, a)
      BY <1>1, <1>2, <1>6, <3>2, AcknowledgedFinishes
    <3> QED
      BY <1>1, <3>1, <3>3, FinishIs
  <2>2. CASE Status(w) = "stopping" /\ CanStop(w, s, l)
    <3>1. Finish(s, acknowledgeStop(w, s, FALSE))
      BY <2>2 DEF AdmitRefused
    <3>2. w.step[s].status = "running" /\ w.fail
      BY <1>3, <2>2 DEF CanStop, Held
    <3>3. FinishedAs(s, acknowledgeStop(w, s, FALSE), n, a)
      BY <1>1, <1>2, <1>6, <3>2, AcknowledgedFinishes
    <3> QED
      BY <1>1, <3>1, <3>3, FinishIs
  <2>3. CASE Status(w) \notin {"cancelling", "stopping"} /\ CanSettle(w, s, l)
    <3>1. FinishFailed(s, FALSE)
      BY <2>3 DEF AdmitRefused
    <3>2. w.step[s].status = "running" /\ Free(w)
      BY <1>3, <2>3 DEF CanSettle, Held
    <3> QED
      BY <1>1, <1>2, <1>4, <3>1, <3>2, FinishFailedIs
  <2>4. CASE /\ ~(Status(w) = "cancelling" /\ CanAcknowledge(w, s, l))
             /\ ~(Status(w) = "stopping" /\ CanStop(w, s, l))
             /\ ~(Status(w) \notin {"cancelling", "stopping"} /\ CanSettle(w, s, l))
    <3>1. Catch(s, FALSE)
      BY <2>4 DEF AdmitRefused
    <3> QED
      BY <1>1, <1>2, <3>1, CatchIs
  <2> QED
    BY <2>1, <2>2, <2>3, <2>4
<1> QED
  BY <1>2, <1>5, SameGhosts

LEMMA AdmitFailsKeeps ==
  ASSUME Inv, NEW s \in Steps, AdmitFails(s)
  PROVE  Inv'
<1>1. TypeOK /\ StepsSound
  BY DEF Inv
<1>2. /\ Catch(s, FALSE) /\ Busy(s) /\ started[s] \in Nat /\ up # "down"
      /\ UNCHANGED <<up, waiting, started, answered>>
  BY <1>1 DEF AdmitFails, Busy, Idle, TypeOK
<1>3. faults' \in 0..MaxFaults
  BY <1>1, WorkflowsAssumption DEF AdmitFails, Fault, TypeOK
<1>4. Finished(s, started[s], answered[s])
  BY <1>1, <1>2, CatchIs
<1> QED
  BY <1>2, <1>3, <1>4, SameGhosts

LEMMA DispatchThrowsKeeps ==
  ASSUME Inv, NEW s \in Steps, DispatchThrows(s)
  PROVE  Inv'
<1>1. TypeOK /\ StepsSound
  BY DEF Inv
<1>2. /\ Catch(s, FALSE) /\ Busy(s) /\ started[s] \in Nat /\ up # "down"
      /\ UNCHANGED <<up, waiting, started, answered>> /\ faults' \in 0..MaxFaults
  BY <1>1 DEF DispatchThrows, Ends, Busy, Idle, TypeOK
<1>3. Finished(s, started[s], answered[s])
  BY <1>1, <1>2, CatchIs
<1> QED
  BY <1>2, <1>3, SameGhosts

LEMMA ExecuteLostKeeps ==
  ASSUME Inv, NEW s \in Steps, ExecuteLost(s)
  PROVE  Inv'
<1>1. TypeOK /\ StepsSound
  BY DEF Inv
<1>2. /\ Finish(s, Row(s)) /\ Busy(s) /\ up # "down"
      /\ UNCHANGED <<up, waiting, started, answered>>
  BY DEF ExecuteLost, Idle
<1>3. faults' \in 0..MaxFaults
  BY <1>1, WorkflowsAssumption DEF ExecuteLost, Fault, TypeOK
<1>4. Finished(s, started[s], answered[s])
  BY <1>1, <1>2, NothingFinishes, FinishIs
<1> QED
  BY <1>2, <1>3, <1>4, SameGhosts
(* What the answers leave in the ghosts. *)
Begun(s, outcome) == IF outcome = "asked" THEN started[s] - 1 ELSE started[s]

Told(outcome) ==
  IF outcome = "completed" THEN "done"
  ELSE IF outcome \in {"failed", "no-effect"} THEN "harmless" ELSE "nothing"

LEMMA AnswersIs ==
  ASSUME TypeOK, StepsSound, NEW s \in Steps, NEW outcome \in Outcomes,
         entry[s].pc = "dispatched", Answers(s, outcome)
  PROVE  /\ Begun(s, outcome) \in Nat /\ Told(outcome) \in {"nothing", "done", "harmless"}
         /\ started' = [started EXCEPT ![s] = Begun(s, outcome)]
         /\ answered' = [answered EXCEPT ![s] = Told(outcome)]
         /\ ~Row(s).step[s].retrySafe => /\ Begun(s, outcome) <= 1
                                         /\ outcome = "asked" => Begun(s, outcome) = 0
<1>1. /\ started \in [Steps -> Nat] /\ started[s] > 0
      /\ ~Row(s).step[s].retrySafe => started[s] <= 1
  BY DEF TypeOK, StepsSound, StepSound
<1>2. started[s] \in Nat /\ started[s] - 1 \in Nat
  BY <1>1
<1>3. started' = [started EXCEPT ![s] = Begun(s, outcome)]
  BY <1>1 DEF Answers, Begun
<1>4. answered' = [answered EXCEPT ![s] = Told(outcome)]
  BY DEF Answers, Told, Outcomes
<1> QED
  BY <1>1, <1>2, <1>3, <1>4 DEF Begun, Told

LEMMA SettleIs ==
  ASSUME TypeOK, StepsSound, NEW s \in Steps, NEW outcome \in Outcomes, Busy(s),
         NEW n \in Nat, ~Row(s).step[s].retrySafe /\ outcome = "asked" => n = 0,
         Settle(s, outcome)
  PROVE  Finished(s, n, Told(outcome))
<1> DEFINE w == Row(s)
           l == entry[s].lease
           a == Told(outcome)
<1>1. w \in RunType(StepsOf(RunOf[s])) /\ s \in StepsOf(RunOf[s])
      /\ \A t \in StepsOf(RunOf[s]) : w.step[t] \in StepType
  BY RowIs, InStatusIs
<1>2. Leased(w, s, l) => w.step[s].status = "running"
  BY LeasedRuns
<1>3. (outcome # "no-effect") \in BOOLEAN
      /\ (~w.step[s].retrySafe /\ n > 0 => outcome # "no-effect" \/ a = "harmless")
  BY DEF Told
<1>4. CASE Status(w) = "cancelling" /\ CanAcknowledge(w, s, l)
  <2>1. Finish(s, acknowledgeCancellation(w, s, outcome # "no-effect"))
    BY <1>4 DEF Settle
  <2>2. w.step[s].status = "running" /\ w.cancel
    BY <1>2, <1>4 DEF CanAcknowledge, Held
  <2>3. FinishedAs(s, acknowledgeCancellation(w, s, outcome # "no-effect"), n, a)
    BY <1>3, <2>2, AcknowledgedFinishes
  <2> QED
    BY <2>1, <2>3, FinishIs
<1>5. CASE Status(w) # "cancelling" /\ Stopped(s) /\ CanStop(w, s, l)
  <2>1. Finish(s, acknowledgeStop(w, s, outcome # "no-effect"))
    BY <1>5 DEF Settle
  <2>2. w.step[s].status = "running" /\ w.fail
    BY <1>2, <1>5 DEF CanStop, Held
  <2>3. FinishedAs(s, acknowledgeStop(w, s, outcome # "no-effect"), n, a)
    BY <1>3, <2>2, AcknowledgedFinishes
  <2> QED
    BY <2>1, <2>3, FinishIs
<1>6. CASE Status(w) # "cancelling" /\ ~Stopped(s) /\ CanSettle(w, s, l)
  <2>1. Recorded(s, outcome)
    BY <1>6 DEF Settle
  <2>2. w.step[s].status = "running" /\ Free(w)
    BY <1>2, <1>6 DEF CanSettle, Held
  <2>3. CASE outcome = "completed"
    <3> DEFINE v == completeStep(w, s)
               X == "completed"
    <3>1. v \in RunType(StepsOf(RunOf[s])) /\ Taken(w, s, v, X) /\ (RunSound(w) => RunSound(v))
      BY <1>1, <2>2, CompleteStepIs
    <3>2. X \in TERMINAL_STATUSES \cup {"queued"} /\ Allowed(X, w.step[s], n, a)
      BY <2>3 DEF TERMINAL_STATUSES, Allowed, Told
    <3>3. Finish(s, v)
      BY <2>1, <2>3 DEF Recorded
    <3> HIDE DEF v, X
    <3>4. FinishedAs(s, v, n, a)
      BY <2>2, <3>1, <3>2, TakenFinishes
    <3> QED
      BY <3>3, <3>4, FinishIs
  <2>4. CASE outcome = "asked"
    <3> DEFINE v == awaitApproval(w, s)
    <3>1. /\ v \in RunType(StepsOf(RunOf[s]))
          /\ \A t \in StepsOf(RunOf[s]) \ {s} : v.step[t] = w.step[t]
          /\ v.step[s] = [w.step[s] EXCEPT !.status = "awaiting-approval"]
          /\ RunSound(w) => RunSound(v)
      BY <1>1, <2>2, AwaitApprovalIs
    <3>2. Finish(s, v)
      BY <2>1, <2>4 DEF Recorded
    <3> HIDE DEF v
    <3>3. EndsAs(w.step[s], v.step[s], n, a)
      BY <2>2, <2>4, <3>1 DEF EndsAs
    <3>4. FinishedAs(s, v, n, a)
      BY <3>1, <3>3 DEF FinishedAs, Mild
    <3> QED
      BY <3>2, <3>4, FinishIs
  <2>5. CASE outcome = "failed"
    <3>1. FinishFailed(s, FALSE) /\ a = "harmless"
      BY <2>1, <2>5 DEF Recorded, Told
    <3> QED
      BY <2>2, <3>1, FinishFailedIs
  <2>6. CASE outcome \in {"unsure", "no-effect"}
    <3>1. FinishFailed(s, TRUE)
      BY <2>1, <2>6 DEF Recorded
    <3> QED
      BY <2>2, <3>1, FinishFailedIs
  <2> QED
    BY <2>3, <2>4, <2>5, <2>6 DEF Outcomes
<1>7. CASE /\ ~(Status(w) = "cancelling" /\ CanAcknowledge(w, s, l))
           /\ ~(Status(w) # "cancelling" /\ Stopped(s) /\ CanStop(w, s, l))
           /\ ~(Status(w) # "cancelling" /\ ~Stopped(s) /\ CanSettle(w, s, l))
  <2>1. Catch(s, TRUE)
    BY <1>7 DEF Settle
  <2> QED
    BY <2>1, CatchIs
<1> QED
  BY <1>4, <1>5, <1>6, <1>7

LEMMA DispatchReturnsKeeps ==
  ASSUME Inv, NEW s \in Steps, NEW outcome \in Outcomes, DispatchReturns(s, outcome)
  PROVE  Inv'
<1>1. TypeOK /\ StepsSound
  BY DEF Inv
<1>2. /\ entry[s].pc = "dispatched" /\ Busy(s) /\ up # "down"
      /\ Answers(s, outcome) /\ Settle(s, outcome)
      /\ UNCHANGED <<up, waiting>> /\ faults' \in 0..MaxFaults
  BY <1>1 DEF DispatchReturns, Busy, Idle, TypeOK
<1> DEFINE n == Begun(s, outcome)
           a == Told(outcome)
<1>3. /\ n \in Nat /\ a \in {"nothing", "done", "harmless"}
      /\ started' = [started EXCEPT ![s] = n] /\ answered' = [answered EXCEPT ![s] = a]
      /\ ~Row(s).step[s].retrySafe => n <= 1 /\ (outcome = "asked" => n = 0)
  BY <1>1, <1>2, AnswersIs
<1> HIDE DEF n
<1>4. Finished(s, n, a)
  BY <1>1, <1>2, <1>3, SettleIs
<1> QED
  BY <1>2, <1>3, <1>4, FinishedKeeps

LEMMA SettleFailsKeeps ==
  ASSUME Inv, NEW s \in Steps, NEW outcome \in Outcomes, SettleFails(s, outcome)
  PROVE  Inv'
<1>1. TypeOK /\ StepsSound
  BY DEF Inv
<1>2. /\ entry[s].pc = "dispatched" /\ Busy(s) /\ up # "down"
      /\ Answers(s, outcome) /\ (Catch(s, TRUE) \/ Finish(s, Row(s)))
      /\ UNCHANGED <<up, waiting>>
  BY <1>1 DEF SettleFails, Busy, Idle
<1>3. faults' \in 0..MaxFaults
  BY <1>1, WorkflowsAssumption DEF SettleFails, Fault, TypeOK
<1> DEFINE n == Begun(s, outcome)
           a == Told(outcome)
<1>4. /\ n \in Nat /\ a \in {"nothing", "done", "harmless"}
      /\ started' = [started EXCEPT ![s] = n] /\ answered' = [answered EXCEPT ![s] = a]
      /\ ~Row(s).step[s].retrySafe => n <= 1
  BY <1>1, <1>2, AnswersIs
<1> HIDE DEF n
<1>5. Finished(s, n, a)
  BY <1>1, <1>2, <1>4, CatchIs, NothingFinishes, FinishIs
<1> QED
  BY <1>2, <1>3, <1>4, <1>5, FinishedKeeps
---------------------------------------------------------------------------
(* The other steps of the process and of its clients *)

(* The moment a lease lapses at matters to nothing the invariant says.           *)
LEMMA SoundAlike ==
  ASSUME NEW x, NEW y, NEW e, NEW f, NEW n, NEW a, StepSound(x, e, n, a),
         y.status = x.status, y.lease = x.lease, y.retrySafe = x.retrySafe,
         f.pc = e.pc, f.lease = e.lease
  PROVE  StepSound(y, f, n, a)
  BY DEF StepSound

LEMMA SameRows ==
  ASSUME Inv, UNCHANGED <<run, started, answered>>, EntriesAged
  PROVE  RowsOK' /\ StepsSound' /\ RunsSound'
<1>1. RowsOK' /\ RunsSound'
  BY DEF Inv, TypeOK, RowsOK, RunsSound
<1>2. ASSUME NEW s \in Steps
      PROVE  StepSound(Row(s).step[s], entry'[s], started[s], answered[s])
  BY SoundAlike DEF Inv, StepsSound, EntriesAged
<1> QED
  BY <1>1, <1>2 DEF StepsSound, Row

LEMMA EntriesSame ==
  ASSUME TypeOK, UNCHANGED entry
  PROVE  EntriesAged
  BY DEF TypeOK, EntriesAged

(* What is left of Inv once rows, steps and entries are settled. *)
LEMMA InvFrom ==
  ASSUME Inv, RowsOK', StepsSound', RunsSound', EntriesAged, UNCHANGED <<started, answered>>,
         up' \in {"up", "stopping"}, draining' \in BOOLEAN, timer' \in BOOLEAN,
         waiting' \subseteq Runs, faults' \in 0..MaxFaults
  PROVE  Inv'
<1>1. TypeOK'
  BY DEF Inv, TypeOK, RowsOK, EntriesAged
<1>2. QuietWhenDown'
  BY DEF QuietWhenDown
<1> QED
  BY <1>1, <1>2 DEF Inv

LEMMA DispatchKeeps ==
  ASSUME Inv, NEW s \in Steps, Dispatch(s)
  PROVE  Inv'
<1>1. TypeOK /\ StepsSound /\ RunsSound
  BY DEF Inv
<1>2. /\ up # "down" /\ entry[s].pc = "admitting" /\ started[s] \in Nat
      /\ UNCHANGED <<run, up, draining, timer, waiting, faults, answered>>
      /\ entry' \in [Steps -> EntryType] /\ entry'[s].pc = "dispatched"
      /\ entry'[s].lease = entry[s].lease
      /\ \A t \in Steps \ {s} : entry'[t] = entry[t]
      /\ started' \in [Steps -> Nat] /\ started'[s] = started[s] + 1
      /\ \A t \in Steps \ {s} : started'[t] = started[t]
  BY <1>1 DEF Dispatch, Idle, TypeOK, EntryType
<1>3. ASSUME NEW t \in Steps
      PROVE  StepSound(Row(t).step[t], entry'[t], started'[t], answered[t])
  <2>1. StepSound(Row(t).step[t], entry[t], started[t], answered[t])
    BY <1>1 DEF StepsSound
  <2>2. CASE t = s
    BY <1>2, <2>1, <2>2 DEF StepSound, TERMINAL_STATUSES
  <2>3. CASE t # s
    BY <1>2, <2>1, <2>3
  <2> QED
    BY <2>2, <2>3
<1>4. StepsSound' /\ RunsSound'
  BY <1>1, <1>2, <1>3 DEF StepsSound, RunsSound, Row
<1>5. TypeOK'
  BY <1>1, <1>2 DEF TypeOK
<1>6. QuietWhenDown'
  BY <1>2 DEF QuietWhenDown
<1> QED
  BY <1>4, <1>5, <1>6 DEF Inv

LEMMA RenewFailsKeeps ==
  ASSUME Inv, NEW s \in Steps, RenewFails(s)
  PROVE  Inv'
<1>1. EntriesAged
  BY DEF RenewFails, Inv, TypeOK, EntriesAged, EntryType
<1>2. RowsOK' /\ StepsSound' /\ RunsSound'
  BY <1>1, SameRows DEF RenewFails
<1>3. up \in {"up", "stopping"}
  BY DEF RenewFails, Idle, Inv, TypeOK
<1> QED
  BY <1>1, <1>2, <1>3, InvFrom DEF RenewFails, Inv, TypeOK

LEMMA ShutdownKeeps ==
  ASSUME Inv, Shutdown
  PROVE  Inv'
<1>1. EntriesAged
  BY DEF Shutdown, Inv, TypeOK, EntriesAged, EntryType, Busy
<1>2. RowsOK' /\ StepsSound' /\ RunsSound'
  BY <1>1, SameRows DEF Shutdown
<1>3. faults' \in 0..MaxFaults
  BY WorkflowsAssumption DEF Shutdown, Fault, Inv, TypeOK
<1> QED
  BY <1>1, <1>2, <1>3, InvFrom DEF Shutdown, Inv, TypeOK

LEMMA CancelAbandonedKeeps ==
  ASSUME Inv, NEW r \in Runs, CancelAbandoned(r)
  PROVE  Inv'
<1>1. EntriesAged
  BY EntriesSame DEF CancelAbandoned, Inv
<1>2. RowsOK' /\ StepsSound' /\ RunsSound'
  BY <1>1, SameRows DEF CancelAbandoned
<1> QED
  BY <1>1, <1>2, InvFrom DEF CancelAbandoned, Idle, Inv, TypeOK

(* Crash and the end of a shutdown leave no entry. *)
LEMMA SoundWithout ==
  ASSUME NEW x, NEW e, NEW n, NEW a, StepSound(x, e, n, a)
  PROVE  StepSound(x, NoEntry, n, a)
  BY DEF StepSound, NoEntry

LEMMA NoEntries ==
  ASSUME entry' = [s \in Steps |-> NoEntry]
  PROVE  entry' \in [Steps -> EntryType] /\ \A s \in Steps : entry'[s] = NoEntry
  BY DEF NoEntry, EntryType

LEMMA CrashKeeps ==
  ASSUME Inv, Crash
  PROVE  Inv'
<1>1. entry' \in [Steps -> EntryType] /\ \A s \in Steps : entry'[s] = NoEntry
  BY NoEntries DEF Crash
<1>2. faults' \in 0..MaxFaults
  BY WorkflowsAssumption DEF Crash, Fault, Inv, TypeOK
<1>3. UNCHANGED <<run, started, answered>>
  BY DEF Crash
<1>4. TypeOK'
  BY <1>1, <1>2, <1>3 DEF Crash, Inv, TypeOK
<1>5. ASSUME NEW s \in Steps
      PROVE  StepSound(Row(s).step[s], NoEntry, started[s], answered[s])
  BY SoundWithout DEF Inv, StepsSound
<1>6. StepsSound' /\ RunsSound'
  BY <1>1, <1>3, <1>5 DEF Inv, StepsSound, RunsSound, Row
<1>7. QuietWhenDown'
  BY <1>1 DEF QuietWhenDown
<1> QED
  BY <1>4, <1>6, <1>7 DEF Inv
LEMMA SubmitKeeps ==
  ASSUME Inv, NEW r \in Runs, Submit(r)
  PROVE  Inv'
<1>1. TypeOK /\ StepsSound /\ RunsSound /\ EntriesAged
  BY EntriesSame DEF Inv, Submit
<1>2. CASE run[r].status = "absent"
  <2> DEFINE v == [run[r] EXCEPT !.status = "queued"]
  <2>1. run' = [run EXCEPT ![r] = v]
    BY <1>2 DEF Submit
  <2>2. run[r] \in RunType(StepsOf(r)) /\ "queued" \in RUN_STATUSES
    BY <1>1 DEF TypeOK, RUN_STATUSES, STEP_STATUSES
  <2>3. /\ v \in RunType(StepsOf(r)) /\ v.status = "queued" /\ v.step = run[r].step
        /\ SettleFlags(run[r], v)
    BY <2>2, WithStatus
  <2> HIDE DEF v
  <2>4. Milder(run[r], v)
    BY <2>3 DEF Milder, Mild
  <2>5. ASSUME RunSound(run[r]) PROVE RunSound(v)
    <3>1. \A X : (AllIn(v, X) <=> AllIn(run[r], X)) /\ (SomeIn(v, X) <=> SomeIn(run[r], X))
      BY <2>3 DEF AllIn, SomeIn
    <3> QED
      BY <1>2, <2>3, <2>5, <3>1 DEF RunSound, SettleFlags, Free, Bad, Terminal, TERMINAL_STATUSES
  <2>6. RowsOK' /\ RunsSound' /\ StepsSound'
    BY <1>1, <2>1, <2>3, <2>4, <2>5, OneRunMilder DEF Submit
  <2> QED
    BY <1>1, <2>6, InvFrom DEF Submit, Inv, TypeOK
<1>3. CASE run[r].status # "absent"
  <2>1. RowsOK' /\ StepsSound' /\ RunsSound'
    BY <1>1, <1>3, SameRows DEF Submit
  <2> QED
    BY <1>1, <2>1, InvFrom DEF Submit, Inv, TypeOK
<1> QED
  BY <1>2, <1>3

LEMMA DeadlinePassesKeeps ==
  ASSUME Inv, NEW r \in Runs, DeadlinePasses(r)
  PROVE  Inv'
<1>1. TypeOK /\ StepsSound /\ RunsSound /\ EntriesAged
  BY EntriesSame DEF Inv, DeadlinePasses
<1> DEFINE v == [run[r] EXCEPT !.due = TRUE]
<1>2. run' = [run EXCEPT ![r] = v]
  BY DEF DeadlinePasses
<1>3. run[r] \in RunType(StepsOf(r))
  BY <1>1 DEF TypeOK
<1>4. /\ v \in RunType(StepsOf(r)) /\ v.step = run[r].step /\ v.status = run[r].status
      /\ v.cancel = run[r].cancel /\ v.fail = run[r].fail
  BY <1>3 DEF RunType
<1> HIDE DEF v
<1>5. Milder(run[r], v)
  BY <1>4 DEF Milder, Mild
<1>6. ASSUME RunSound(run[r]) PROVE RunSound(v)
  <2>1. \A X : (AllIn(v, X) <=> AllIn(run[r], X)) /\ (SomeIn(v, X) <=> SomeIn(run[r], X))
    BY <1>4 DEF AllIn, SomeIn
  <2> QED
    BY <1>4, <1>6, <2>1 DEF RunSound, Free, Bad, Terminal, DeadlinePasses
<1>7. RowsOK' /\ RunsSound' /\ StepsSound'
  BY <1>1, <1>2, <1>4, <1>5, <1>6, OneRunMilder DEF DeadlinePasses
<1>8. CASE up = "down"
  <2>1. TypeOK' /\ QuietWhenDown'
    BY <1>7, <1>8 DEF DeadlinePasses, Inv, TypeOK, RowsOK, QuietWhenDown
  <2> QED
    BY <1>7, <2>1 DEF Inv
<1>9. CASE up # "down"
  BY <1>1, <1>7, <1>9, InvFrom DEF DeadlinePasses, Inv, TypeOK
<1> QED
  BY <1>8, <1>9

LEMMA LeaseLapsesKeeps ==
  ASSUME Inv, NEW s \in Steps, LeaseLapses(s)
  PROVE  Inv'
<1>1. TypeOK /\ StepsSound /\ RunsSound
  BY DEF Inv
<1> DEFINE w == Row(s)
           S == StepsOf(RunOf[s])
           x == [w.step[s] EXCEPT !.past = TRUE]
           g == [w.step EXCEPT ![s] = x]
           v == [w EXCEPT !.step = g]
<1>2. /\ RunOf[s] \in Runs /\ s \in S /\ w \in RunType(S) /\ w.step \in [S -> StepType]
      /\ run \in [Runs -> UNION {RunType(StepsOf(r)) : r \in Runs}]
  BY <1>1, RowIs DEF RunType, TypeOK
<1>3. run' = [run EXCEPT ![RunOf[s]] = v]
  BY DEF LeaseLapses, Row
<1>4. /\ x \in StepType /\ x.status = w.step[s].status /\ x.lease = w.step[s].lease
      /\ SameKind(w.step[s], x)
  BY <1>2 DEF StepType, SameKind
<1> HIDE DEF x
<1>5. g \in [S -> StepType] /\ g[s] = x /\ \A t \in S \ {s} : g[t] = w.step[t]
  BY <1>2, <1>4
<1> HIDE DEF g
<1>6. /\ v \in RunType(S) /\ v.step = g /\ SameFlags(w, v)
  BY <1>2, <1>5 DEF RunType, SameFlags
<1> HIDE DEF v
<1>7. \A t \in S : /\ v.step[t].status = w.step[t].status /\ v.step[t].lease = w.step[t].lease
                   /\ SameKind(w.step[t], v.step[t])
  BY <1>4, <1>5, <1>6 DEF SameKind
<1>8. RunSound(w) => RunSound(v)
  BY <1>2, <1>6, <1>7, SameStatuses
<1>9. /\ RowsOK' /\ RunsSound'
      /\ \A t \in Steps : Row(t)' = IF RunOf[t] = RunOf[s] THEN v ELSE Row(t)
  <2>1. w = run[RunOf[s]]
    BY DEF Row
  <2>2. RunSound(run[RunOf[s]]) => RunSound(v)
    BY <1>8, <2>1
  <2>3. \A t \in S : SameKind(run[RunOf[s]].step[t], v.step[t])
    BY <1>7, <2>1
  <2> QED
    BY <1>1, <1>2, <1>3, <1>6, <2>2, <2>3, OnlyOneRun
<1>10. ASSUME NEW t \in Steps
       PROVE  StepSound(Row(t)'.step[t], entry[t], started[t], answered[t])
  <2>1. StepSound(Row(t).step[t], entry[t], started[t], answered[t])
    BY <1>1 DEF StepsSound
  <2>2. /\ Row(t)'.step[t].status = Row(t).step[t].status
        /\ Row(t)'.step[t].lease = Row(t).step[t].lease
        /\ Row(t)'.step[t].retrySafe = Row(t).step[t].retrySafe
    BY <1>7, <1>9 DEF Row, StepsOf, SameKind
  <2> QED
    BY <2>1, <2>2, SoundAlike
<1>11. UNCHANGED <<entry, up, draining, timer, waiting, faults, started, answered>>
  BY DEF LeaseLapses
<1>12. StepsSound'
  BY <1>10, <1>11 DEF StepsSound
<1>13. TypeOK' /\ QuietWhenDown'
  BY <1>9, <1>11 DEF Inv, TypeOK, RowsOK, QuietWhenDown
<1> QED
  BY <1>9, <1>12, <1>13 DEF Inv

LEMMA ResumeKeeps ==
  ASSUME Inv, NEW r \in Runs, Resume(r)
  PROVE  Inv'
<1>1. TypeOK /\ StepsSound /\ RunsSound /\ EntriesAged
  BY EntriesSame DEF Inv, Resume
<1> DEFINE v == resume(run[r])
<1>2. run[r] \in RunType(StepsOf(r)) /\ CanResume(run[r])
      /\ \A s \in StepsOf(r) : run[r].step[s] \in StepType
  BY <1>1, InStatusIs DEF TypeOK, Resume
<1>3. run' = [run EXCEPT ![r] = v]
  BY DEF Resume
<1>4. /\ v \in RunType(StepsOf(r)) /\ \A s \in StepsOf(r) : Resumed(run[r].step[s], v.step[s])
      /\ RunSound(run[r]) => RunSound(v)
  BY <1>2, ResumeIs
<1> HIDE DEF v
<1>5. \A s \in StepsOf(r) :
        \/ v.step[s] = run[r].step[s]
        \/ /\ run[r].step[s].status = "awaiting-approval" /\ v.step[s].status = "queued"
           /\ v.step[s].lease = 0 /\ SameKind(run[r].step[s], v.step[s])
  BY <1>2, <1>4, EndedType DEF Resumed, SameKind, STEP_STATUSES
<1>6. /\ RowsOK' /\ RunsSound'
      /\ \A s \in Steps : Row(s)' = IF RunOf[s] = r THEN v ELSE Row(s)
  BY <1>1, <1>3, <1>4, <1>5, OnlyOneRun DEF SameKind
<1>7. ASSUME NEW s \in Steps
      PROVE  StepSound(Row(s)'.step[s], entry[s], started[s], answered[s])
  <2>1. StepSound(Row(s).step[s], entry[s], started[s], answered[s])
    BY <1>1 DEF StepsSound
  <2>2. \/ Row(s)'.step[s] = Row(s).step[s]
        \/ /\ Row(s).step[s].status = "awaiting-approval" /\ Row(s)'.step[s].status = "queued"
           /\ Row(s)'.step[s].lease = 0 /\ SameKind(Row(s).step[s], Row(s)'.step[s])
    BY <1>5, <1>6 DEF Row, StepsOf
  <2> QED
    BY <2>1, <2>2 DEF StepSound, SameKind, TERMINAL_STATUSES
<1>8. StepsSound'
  BY <1>7 DEF StepsSound, Resume
<1> QED
  BY <1>1, <1>6, <1>8, InvFrom DEF Resume, Inv, TypeOK
LEMMA CancelKeeps ==
  ASSUME Inv, NEW r \in Runs, Cancel(r)
  PROVE  Inv'
<1> DEFINE w == requestCancellation(run[r])
           u == finalizeCancellation(w)
           S == StepsOf(r)
<1>1. TypeOK /\ StepsSound /\ RunsSound /\ entry \in [Steps -> EntryType] /\ run[r] \in RunType(S)
  BY DEF Inv, TypeOK
<1>2. w \in RunType(S) /\ Milder(run[r], w) /\ (RunSound(run[r]) => RunSound(w))
  BY <1>1, RequestCancellationIs
<1>3. /\ run' = [run EXCEPT ![r] = w] \/ run' = [run EXCEPT ![r] = u]
      /\ entry' = entry \/ entry' = AbortRun(entry, r, {})
      /\ timer' = timer \/ timer' = (timer \/ up = "up")
      /\ waiting' = waiting \/ waiting' = waiting \cup {r}
      /\ up # "down" /\ UNCHANGED <<up, draining, faults, started, answered>>
  BY DEF Cancel, Idle
<1> HIDE DEF w
<1>4. u \in RunType(S) /\ Milder(w, u) /\ (RunSound(w) => RunSound(u))
  BY <1>2, FinalizeCancellationIs
<1> HIDE DEF u
<1>5. Milder(run[r], u) /\ (RunSound(run[r]) => RunSound(u))
  BY <1>1, <1>2, <1>4, MilderTrans
<1>6. EntriesAged
  BY <1>1, <1>3, AbortRunIs, EntriesSame DEF EntriesAged
<1>7. RowsOK' /\ RunsSound' /\ StepsSound'
  BY <1>1, <1>2, <1>3, <1>4, <1>5, <1>6, OneRunMilder
<1>8. timer' \in BOOLEAN /\ waiting' \subseteq Runs
  BY <1>1, <1>3 DEF TypeOK
<1> QED
  BY <1>3, <1>6, <1>7, <1>8, InvFrom DEF Inv, TypeOK

LEMMA CancelFinalizeKeeps ==
  ASSUME Inv, NEW r \in Runs, CancelFinalize(r)
  PROVE  Inv'
<1> DEFINE u == finalizeCancellation(run[r])
<1>1. TypeOK /\ StepsSound /\ RunsSound /\ EntriesAged /\ run[r] \in RunType(StepsOf(r))
  BY EntriesSame DEF Inv, TypeOK, CancelFinalize
<1>2. u \in RunType(StepsOf(r)) /\ Milder(run[r], u) /\ (RunSound(run[r]) => RunSound(u))
  BY <1>1, FinalizeCancellationIs
<1>3. run' = [run EXCEPT ![r] = u]
  BY DEF CancelFinalize
<1> HIDE DEF u
<1>4. RowsOK' /\ RunsSound' /\ StepsSound'
  BY <1>1, <1>2, <1>3, OneRunMilder DEF CancelFinalize
<1> QED
  BY <1>1, <1>4, InvFrom DEF CancelFinalize, Idle, Inv, TypeOK

LEMMA LeaseTimerKeeps ==
  ASSUME Inv, NEW s \in Steps, LeaseTimer(s)
  PROVE  Inv'
<1> DEFINE w == Row(s)
           held == Leased(w, s, entry[s].lease)
           q == IF held THEN quarantineStep(w, {s}) ELSE w
           S == StepsOf(RunOf[s])
<1>1. /\ TypeOK /\ StepsSound /\ RunsSound /\ entry \in [Steps -> EntryType]
      /\ up # "down" /\ Busy(s) /\ UNCHANGED <<up, draining, timer, waiting, faults, started, answered>>
  BY DEF Inv, TypeOK, LeaseTimer, Idle
<1>2. RunOf[s] \in Runs /\ s \in S /\ w \in RunType(S) /\ w = run[RunOf[s]]
  BY <1>1, RowIs DEF Row
<1>3. q \in RunType(S) /\ Milder(w, q) /\ (RunSound(w) => RunSound(q))
  <2>1. CASE held
    <3>1. {s} \in SUBSET S /\ \A t \in {s} : w.step[t].status = "running"
      BY <1>1, <1>2, <2>1, LeasedRuns
    <3> QED
      BY <1>2, <2>1, <3>1, QuarantineStepIs
  <2>2. CASE ~held
    BY <1>2, <2>2, MilderRefl
  <2> QED
    BY <2>1, <2>2
<1>4. /\ run' = [run EXCEPT ![RunOf[s]] = q]
      /\ \/ entry' = [entry EXCEPT ![s].aborted = TRUE]
         \/ entry' = [AbortRun(entry, RunOf[s], {s}) EXCEPT ![s].aborted = TRUE]
  BY DEF LeaseTimer
<1> HIDE DEF q
<1>5. EntriesAged
  <2>1. ASSUME NEW e \in [Steps -> EntryType],
               \A t \in Steps : e[t].pc = entry[t].pc /\ e[t].lease = entry[t].lease,
               entry' = [e EXCEPT ![s].aborted = TRUE]
        PROVE  EntriesAged
    BY <2>1 DEF EntriesAged, EntryType
  <2>2. /\ AbortRun(entry, RunOf[s], {s}) \in [Steps -> EntryType]
        /\ \A t \in Steps : /\ AbortRun(entry, RunOf[s], {s})[t].pc = entry[t].pc
                            /\ AbortRun(entry, RunOf[s], {s})[t].lease = entry[t].lease
    BY <1>1, AbortRunIs
  <2> QED
    BY <1>1, <1>4, <2>1, <2>2
<1>6. RowsOK' /\ RunsSound' /\ StepsSound'
  BY <1>1, <1>2, <1>3, <1>4, <1>5, OneRunMilder
<1> QED
  BY <1>1, <1>5, <1>6, InvFrom DEF Inv, TypeOK

(* Every run's row changes. *)
LEMMA AllRuns ==
  ASSUME TypeOK, RunsSound, run' = [r \in Runs |-> run'[r]],
         \A r \in Runs : run'[r] \in RunType(StepsOf(r)),
         \A r \in Runs : Whole(run[r]) /\ RunSound(run[r]) => RunSound(run'[r]),
         \A r \in Runs : \A s \in StepsOf(r) : SameKind(run[r].step[s], run'[r].step[s])
  PROVE  RowsOK' /\ RunsSound'
<1>1. run' \in [Runs -> UNION {RunType(StepsOf(r)) : r \in Runs}]
  <2>1. \A r \in Runs : run'[r] \in UNION {RunType(StepsOf(q)) : q \in Runs}
    OBVIOUS
  <2> QED
    BY <2>1
<1>2. ASSUME NEW r \in Runs PROVE Whole(run[r]) <=> Whole(run'[r])
  BY WholeKept DEF TypeOK, SameKind
<1> QED
  BY <1>1, <1>2 DEF RowsOK, RunsSound

LEMMA GivenUpIs ==
  ASSUME TypeOK, NEW D \in SUBSET Redacted, NEW r \in Runs
  PROVE  /\ GivenUp(D)[r] \in RunType(StepsOf(r))
         /\ Whole(run[r]) => GivenUp(D)[r] = run[r]
         /\ \A s \in StepsOf(r) :
              GivenUp(D)[r].step[s] = IF s \in D THEN Ended(run[r].step[s], "needs-review")
                                      ELSE run[r].step[s]
<1> DEFINE E == D \cap StepsOf(r)
           v == GiveUp(run[r], E)
<1>1. GivenUp(D)[r] = v
  BY DEF GivenUp
<1>2. run[r] \in RunType(StepsOf(r)) /\ E \in SUBSET StepsOf(r)
  BY DEF TypeOK
<1>3. /\ v \in RunType(StepsOf(r)) /\ (E = {} => v = run[r])
      /\ \A s \in StepsOf(r) : v.step[s] = IF s \in E THEN Ended(run[r].step[s], "needs-review")
                                           ELSE run[r].step[s]
  BY <1>2, GiveUpIs
<1>4. Whole(run[r]) => E = {}
  <2>1. DOMAIN run[r].step = StepsOf(r)
    BY <1>2, InStatusIs
  <2>2. \A s \in E : s \in StepsOf(r) /\ ~run[r].step[s].available
    BY DEF Redacted, Row, StepsOf
  <2> QED
    BY <2>1, <2>2 DEF Whole
<1> HIDE DEF v
<1> QED
  BY <1>1, <1>3, <1>4

(* A candidate is in no entry; given up, it waits for review. *)
LEMMA GivenUpSound ==
  ASSUME TypeOK, StepsSound, NEW s \in Steps, Candidate(Row(s), s), NEW e, e.pc = entry[s].pc
  PROVE  StepSound(Ended(Row(s).step[s], "needs-review"), e, started[s], answered[s])
<1>1. Row(s).step[s] \in StepType
  BY RowIs
<1>2. StepSound(Row(s).step[s], entry[s], started[s], answered[s])
  BY DEF StepsSound
<1> DEFINE y == Ended(Row(s).step[s], "needs-review")
<1>3. y.status = "needs-review" /\ y.lease = 0 /\ y.retrySafe = Row(s).step[s].retrySafe
  BY <1>1, EndedType DEF STEP_STATUSES, TERMINAL_STATUSES
<1> HIDE DEF y
<1>4. Row(s).step[s].status = "queued"
  BY DEF Candidate
<1>5. StepSound(y, e, started[s], answered[s])
  BY <1>2, <1>3, <1>4 DEF StepSound, TERMINAL_STATUSES
<1> QED
  BY <1>5 DEF y

LEMMA DrainEndKeeps ==
  ASSUME Inv, DrainEnd
  PROVE  Inv'
<1>1. /\ TypeOK /\ StepsSound /\ RunsSound /\ EntriesAged
      /\ UNCHANGED <<entry, up, timer, waiting, faults, started, answered>>
      /\ up = "up" /\ draining' = FALSE
  BY EntriesSame DEF Inv, DrainEnd
<1>2. CASE UNCHANGED run
  <2>1. RowsOK' /\ StepsSound' /\ RunsSound'
    BY <1>1, <1>2, SameRows
  <2> QED
    BY <1>1, <2>1, InvFrom DEF Inv, TypeOK
<1>3. CASE run' = GivenUp(Redacted)
  <2>1. /\ run' = [r \in Runs |-> run'[r]]
        /\ \A r \in Runs : /\ run'[r] \in RunType(StepsOf(r))
                           /\ Whole(run[r]) => run'[r] = run[r]
                           /\ \A s \in StepsOf(r) :
                                run'[r].step[s] = IF s \in Redacted THEN Ended(run[r].step[s], "needs-review")
                                                  ELSE run[r].step[s]
    <3>1. Redacted \in SUBSET Redacted /\ GivenUp(Redacted) = [r \in Runs |-> GivenUp(Redacted)[r]]
      BY DEF GivenUp
    <3> QED
      BY <1>1, <1>3, <3>1, GivenUpIs
  <2>2. "needs-review" \in STEP_STATUSES
    BY DEF STEP_STATUSES, TERMINAL_STATUSES
  <2>3. \A r \in Runs : \A s \in StepsOf(r) : run[r].step[s] \in StepType
    BY <1>1, InStatusIs DEF TypeOK
  <2>4. \A r \in Runs : \A s \in StepsOf(r) : SameKind(run[r].step[s], run'[r].step[s])
    BY <2>1, <2>2, <2>3, EndedType DEF SameKind
  <2>5. RowsOK' /\ RunsSound'
    BY <1>1, <2>1, <2>4, AllRuns
  <2>6. ASSUME NEW s \in Steps
        PROVE  StepSound(Row(s)'.step[s], entry[s], started[s], answered[s])
    <3>1. Row(s)'.step[s] = IF s \in Redacted THEN Ended(Row(s).step[s], "needs-review") ELSE Row(s).step[s]
      BY <1>1, <2>1, RowIs DEF Row
    <3> QED
      BY <1>1, <3>1, GivenUpSound DEF StepsSound, Redacted
  <2>7. StepsSound'
    BY <1>1, <2>6 DEF StepsSound
  <2> QED
    BY <1>1, <2>5, <2>7, InvFrom DEF Inv, TypeOK
<1> QED
  BY <1>2, <1>3 DEF DrainEnd
LEMMA ClaimNextKeeps ==
  ASSUME Inv, NEW s \in Steps, ClaimNext(s)
  PROVE  Inv'
<1> DEFINE R == RunOf[s]
<1>1. /\ TypeOK /\ StepsSound /\ RunsSound /\ entry \in [Steps -> EntryType]
      /\ UNCHANGED <<up, draining, waiting, faults, started, answered>>
      /\ up = "up" /\ timer' = TRUE /\ Claimable(s)
      /\ entry' = [entry EXCEPT ![s] = [pc |-> "admitting", lease |-> Row(s).step[s].attempt + 1,
                                        aborted |-> FALSE]]
  BY DEF Inv, TypeOK, ClaimNext
<1>2. PICK D \in SUBSET Redacted :
        run' = [GivenUp(D) EXCEPT ![RunOf[s]] = claimNext(GivenUp(D)[RunOf[s]], s)]
  BY DEF ClaimNext
<1>3. /\ R \in Runs /\ s \in StepsOf(R) /\ Row(s) = run[R]
      /\ Row(s).step[s] \in StepType /\ Row(s).step[s].attempt \in Nat
      /\ Row(s).step[s].attempt + 1 \in Nat
  BY <1>1, RowIs DEF Row, StepType
<1>4. /\ DOMAIN GivenUp(D) = Runs
      /\ \A r \in Runs : /\ GivenUp(D)[r] \in RunType(StepsOf(r))
                         /\ Whole(run[r]) => GivenUp(D)[r] = run[r]
                         /\ \A t \in StepsOf(r) :
                              GivenUp(D)[r].step[t] = IF t \in D THEN Ended(run[r].step[t], "needs-review")
                                                      ELSE run[r].step[t]
  BY <1>1, GivenUpIs DEF GivenUp
<1>5. Candidate(run[R], s) /\ s \notin D
  BY <1>1, <1>3 DEF Claimable, CanClaim, Redacted, R
<1> DEFINE G == GivenUp(D)[R]
           v == claimNext(G, s)
<1>6. /\ v \in RunType(StepsOf(R))
      /\ \A t \in StepsOf(R) \ {s} : v.step[t] = G.step[t]
      /\ v.step[s] = Claimed(G.step[s])
      /\ RunSound(G) /\ Candidate(G, s) => RunSound(v)
  BY <1>3, <1>4, ClaimNextIs
<1>7. /\ run' = [r \in Runs |-> run'[r]]
      /\ \A r \in Runs : run'[r] = IF r = R THEN v ELSE GivenUp(D)[r]
  BY <1>2, <1>4 DEF GivenUp
<1> HIDE DEF v
<1>8. \A r \in Runs : run'[r] \in RunType(StepsOf(r))
  BY <1>4, <1>6, <1>7
<1>9. \A r \in Runs : Whole(run[r]) /\ RunSound(run[r]) => RunSound(run'[r])
  BY <1>4, <1>5, <1>6, <1>7
<1>10. "needs-review" \in STEP_STATUSES
  BY DEF STEP_STATUSES, TERMINAL_STATUSES
<1>11. \A r \in Runs : \A t \in StepsOf(r) : run[r].step[t] \in StepType
  BY <1>1, InStatusIs DEF TypeOK
<1>12. /\ Claimed(Row(s).step[s]).status = "running"
       /\ Claimed(Row(s).step[s]).lease = Row(s).step[s].attempt + 1
       /\ SameKind(Row(s).step[s], Claimed(Row(s).step[s]))
  BY <1>3 DEF Claimed, StepType, SameKind
<1>13. /\ \A r \in Runs : \A t \in StepsOf(r) \ {s} :
            run'[r].step[t] = IF t \in D THEN Ended(run[r].step[t], "needs-review") ELSE run[r].step[t]
       /\ run'[R].step[s] = Claimed(Row(s).step[s])
  BY <1>3, <1>4, <1>5, <1>6, <1>7
<1>14. \A r \in Runs : \A t \in StepsOf(r) : SameKind(run[r].step[t], run'[r].step[t])
  <2> SUFFICES ASSUME NEW r \in Runs, NEW t \in StepsOf(r)
               PROVE  SameKind(run[r].step[t], run'[r].step[t])
    OBVIOUS
  <2>1. CASE t = s
    <3>1. r = R
      BY <2>1 DEF StepsOf
    <3> QED
      BY <1>3, <1>12, <1>13, <2>1, <3>1
  <2>2. CASE t # s
    BY <1>10, <1>11, <1>13, <2>2, EndedType DEF SameKind
  <2> QED
    BY <2>1, <2>2
<1>15. RowsOK' /\ RunsSound'
  BY <1>1, <1>7, <1>8, <1>9, <1>14, AllRuns
<1>16. /\ entry' \in [Steps -> EntryType] /\ entry'[s].pc = "admitting"
       /\ entry'[s].lease = Row(s).step[s].attempt + 1
       /\ \A t \in Steps \ {s} : entry'[t] = entry[t]
  BY <1>1, <1>3 DEF EntryType
<1>17. ASSUME NEW t \in Steps
       PROVE  StepSound(Row(t)'.step[t], entry'[t], started[t], answered[t])
  <2>1. StepSound(Row(t).step[t], entry[t], started[t], answered[t])
    BY <1>1 DEF StepsSound
  <2>2. CASE t = s
    <3>1. Row(t)'.step[t] = Claimed(Row(s).step[s]) /\ Row(s).step[s].status = "queued"
      BY <1>3, <1>5, <1>13, <2>2 DEF Row, Candidate
    <3> QED
      BY <1>3, <1>12, <1>16, <2>1, <2>2, <3>1 DEF StepSound, SameKind, TERMINAL_STATUSES
  <2>3. CASE t # s
    <3>1. Row(t)'.step[t] = IF t \in D THEN Ended(Row(t).step[t], "needs-review") ELSE Row(t).step[t]
      BY <1>1, <1>13, <2>3, RowIs DEF Row
    <3>2. t \in D => Candidate(Row(t), t)
      BY DEF Redacted
    <3> QED
      BY <1>1, <1>16, <2>1, <2>3, <3>1, <3>2, GivenUpSound
  <2> QED
    BY <2>2, <2>3
<1>18. StepsSound'
  BY <1>1, <1>17 DEF StepsSound
<1>19. TypeOK' /\ QuietWhenDown'
  BY <1>1, <1>15, <1>16 DEF TypeOK, RowsOK, QuietWhenDown
<1> QED
  BY <1>15, <1>18, <1>19 DEF Inv

LEMMA LapsedIs ==
  ASSUME NEW S, NEW w \in RunType(S)
  PROVE  LET v == Lapsed(w) IN
         /\ v \in RunType(S)
         /\ \A s \in S : /\ v.step[s].status = w.step[s].status /\ v.step[s].lease = w.step[s].lease
                         /\ SameKind(w.step[s], v.step[s])
         /\ RunSound(w) => RunSound(v)
<1> DEFINE g == [s \in DOMAIN w.step |-> LapsedStep(w.step[s])]
           X == w.due \/ (~Free(w) /\ ~Terminal(w))
           v == [w EXCEPT !.due = X, !.step = g]
<1>1. DOMAIN w.step = S /\ \A s \in S : w.step[s] \in StepType
  BY DEF RunType
<1>2. \A s \in S : /\ LapsedStep(w.step[s]) \in StepType
                   /\ LapsedStep(w.step[s]).status = w.step[s].status
                   /\ LapsedStep(w.step[s]).lease = w.step[s].lease
                   /\ SameKind(w.step[s], LapsedStep(w.step[s]))
  BY <1>1 DEF LapsedStep, StepType, SameKind
<1>3. g \in [S -> StepType] /\ \A s \in S : g[s] = LapsedStep(w.step[s])
  BY <1>1, <1>2
<1>4. X \in BOOLEAN
  BY DEF RunType
<1>5. Lapsed(w) = v
  BY DEF Lapsed
<1> HIDE DEF g, X
<1>6. /\ v \in RunType(S) /\ v.step = g /\ v.status = w.status /\ v.cancel = w.cancel
      /\ v.fail = w.fail /\ v.due = X
  BY <1>3, <1>4 DEF RunType
<1> HIDE DEF v
<1>7. \A s \in S : /\ v.step[s].status = w.step[s].status /\ v.step[s].lease = w.step[s].lease
                   /\ SameKind(w.step[s], v.step[s])
  BY <1>2, <1>3, <1>6
<1>8. ASSUME RunSound(w) PROVE RunSound(v)
  <2>1. DOMAIN v.step = S
    BY <1>6 DEF RunType
  <2>2. \A Y : (AllIn(v, Y) <=> AllIn(w, Y)) /\ (SomeIn(v, Y) <=> SomeIn(w, Y))
    BY <1>1, <1>7, <2>1 DEF AllIn, SomeIn
  <2>3. v.due => ~Free(v)
    BY <1>6, <1>8 DEF X, RunSound, Free
  <2> QED
    BY <1>6, <1>8, <2>2, <2>3 DEF RunSound, Free, Bad, Terminal
<1> QED
  BY <1>5, <1>6, <1>7, <1>8

LEMMA RecoveredIs ==
  ASSUME TypeOK, StepsSound, RunsSound, NEW local,
         \A s \in Steps : Busy(s) => s \in local,
         Recovered(local), UNCHANGED <<entry, started, answered>>
  PROVE  RowsOK' /\ RunsSound' /\ StepsSound' /\ timer' \in BOOLEAN
<1>1. PICK Q \in SUBSET Steps, missed \in BOOLEAN :
        /\ run' = [r \in Runs |-> IF missed THEN Lapsed(recover(run[r], Local(r) \cap local, Q))
                                  ELSE recover(run[r], Local(r) \cap local, Q)]
        /\ timer' \in BOOLEAN
  BY WorkflowsAssumption DEF Recovered
<1> DEFINE M(r) == Local(r) \cap local
           w(r) == recover(run[r], M(r), Q)
<1>2. ASSUME NEW r \in Runs
      PROVE  /\ run[r] \in RunType(StepsOf(r)) /\ \A s \in StepsOf(r) : run[r].step[s] \in StepType
             /\ w(r) \in RunType(StepsOf(r))
             /\ \A s \in StepsOf(r) : Recovers(run[r].step[s], w(r).step[s], s \in M(r))
             /\ RunSound(run[r]) => RunSound(w(r))
  <2>1. run[r] \in RunType(StepsOf(r)) /\ M(r) \in SUBSET StepsOf(r)
    BY DEF TypeOK, Local
  <2> HIDE DEF M
  <2> QED
    BY <2>1, RecoverIs, InStatusIs
<1>3. \A r \in Runs : run'[r] = IF missed THEN Lapsed(w(r)) ELSE w(r)
  BY <1>1
<1> HIDE DEF w
<1>4. ASSUME NEW s \in Steps, entry[s].pc # "none", Row(s).step[s].status = "running"
      PROVE  s \in M(RunOf[s])
  <2>1. Busy(s) /\ Leased(Row(s), s, entry[s].lease)
    BY <1>4 DEF StepsSound, StepSound, Busy, Leased
  <2> QED
    BY <2>1, RowIs DEF Local, Row
<1> HIDE DEF M
<1>5. ASSUME NEW s \in Steps
      PROVE  /\ w(RunOf[s]).step[s] \in StepType /\ SameKind(Row(s).step[s], w(RunOf[s]).step[s])
             /\ StepSound(w(RunOf[s]).step[s], entry[s], started[s], answered[s])
  <2>1. StepSound(Row(s).step[s], entry[s], started[s], answered[s]) /\ Row(s).step[s] \in StepType
    BY RowIs DEF StepsSound
  <2>2. Recovers(Row(s).step[s], w(RunOf[s]).step[s], s \in M(RunOf[s]))
    BY <1>2, RowIs DEF Row
  <2> DEFINE l == s \in M(RunOf[s])
  <2>3. entry[s].pc # "none" /\ Row(s).step[s].status = "running" => l
    BY <1>4
  <2> HIDE DEF l
  <2>4. Recovers(Row(s).step[s], w(RunOf[s]).step[s], l)
    BY <2>2 DEF l
  <2> QED
    BY <2>1, <2>3, <2>4, SoundRecovers
<1>6. ASSUME NEW r \in Runs
      PROVE  /\ run'[r] \in RunType(StepsOf(r))
             /\ RunSound(run[r]) => RunSound(run'[r])
             /\ \A s \in StepsOf(r) : /\ run'[r].step[s].status = w(r).step[s].status
                                      /\ run'[r].step[s].lease = w(r).step[s].lease
                                      /\ SameKind(w(r).step[s], run'[r].step[s])
  BY <1>2, <1>3, LapsedIs DEF SameKind
<1>7. ASSUME NEW r \in Runs, NEW s \in StepsOf(r)
      PROVE  SameKind(run[r].step[s], run'[r].step[s])
  <2>1. s \in Steps /\ RunOf[s] = r
    BY DEF StepsOf
  <2> QED
    BY <1>5, <1>6, <2>1 DEF SameKind, Row
<1>8. RowsOK' /\ RunsSound'
  <2>1. run' = [r \in Runs |-> run'[r]]
    BY <1>1
  <2> QED
    BY <1>6, <1>7, <2>1, AllRuns
<1>9. ASSUME NEW s \in Steps
      PROVE  StepSound(Row(s)'.step[s], entry[s], started[s], answered[s])
  <2>1. RunOf[s] \in Runs /\ s \in StepsOf(RunOf[s]) /\ Row(s)' = run'[RunOf[s]]
    BY RowIs DEF Row
  <2> QED
    BY <1>5, <1>6, <2>1, SoundAlike DEF SameKind
<1>10. StepsSound'
  BY <1>9 DEF StepsSound
<1> QED
  BY <1>1, <1>8, <1>10

LEMMA RecoveryTimerKeeps ==
  ASSUME Inv, RecoveryTimer
  PROVE  Inv'
<1>1. RowsOK' /\ RunsSound' /\ StepsSound' /\ timer' \in BOOLEAN
  BY RecoveredIs DEF RecoveryTimer, Inv
<1>2. EntriesAged
  BY EntriesSame DEF RecoveryTimer, Inv
<1> QED
  BY <1>1, <1>2, InvFrom DEF RecoveryTimer, TimerMayFire, Inv, TypeOK

(* A process that starts has no entries: it recovers whatever has lapsed.        *)
LEMMA StartKeeps ==
  ASSUME Inv, Start
  PROVE  Inv'
<1>1. \A s \in Steps : ~Busy(s)
  BY DEF Start, Inv, QuietWhenDown, Busy, NoEntry
<1>2. RowsOK' /\ RunsSound' /\ StepsSound' /\ timer' \in BOOLEAN
  BY <1>1, RecoveredIs DEF Start, Inv
<1>3. EntriesAged
  BY EntriesSame DEF Start, Inv
<1> QED
  BY <1>2, <1>3, InvFrom DEF Start, Inv, TypeOK

LEMMA ShutdownDoneKeeps ==
  ASSUME Inv, ShutdownDone
  PROVE  Inv'
<1>1. /\ TypeOK /\ StepsSound /\ RunsSound
      /\ run' = [r \in Runs |-> quarantineStep(run[r], Local(r))]
      /\ up' = "down" /\ waiting' = {}
      /\ UNCHANGED <<draining, timer, faults, started, answered>>
  BY DEF Inv, ShutdownDone
<1>2. entry' \in [Steps -> EntryType] /\ \A s \in Steps : entry'[s] = NoEntry
  BY NoEntries DEF ShutdownDone
<1>3. ASSUME NEW r \in Runs
      PROVE  /\ run'[r] \in RunType(StepsOf(r)) /\ Milder(run[r], run'[r])
             /\ RunSound(run[r]) => RunSound(run'[r])
             /\ run[r] \in RunType(StepsOf(r))
  <2>1. run[r] \in RunType(StepsOf(r)) /\ run'[r] = quarantineStep(run[r], Local(r))
    BY <1>1 DEF TypeOK
  <2>2. ASSUME NEW s \in Local(r) PROVE run[r].step[s].status = "running"
    BY <1>1, LeasedRuns DEF Local, StepsOf, Row
  <2>3. Local(r) \in SUBSET StepsOf(r)
    BY DEF Local
  <2> QED
    BY <2>1, <2>2, <2>3, QuarantineStepIs
<1>4. ASSUME NEW s \in Steps
      PROVE  /\ SameKind(Row(s).step[s], Row(s)'.step[s])
             /\ StepSound(Row(s)'.step[s], NoEntry, started[s], answered[s])
  <2>1. RunOf[s] \in Runs /\ s \in StepsOf(RunOf[s]) /\ Row(s)' = run'[RunOf[s]]
        /\ Row(s).step[s] \in StepType
    BY <1>1, RowIs DEF Row
  <2>2. s \in DOMAIN Row(s).step
    BY <1>3, <2>1 DEF RunType, Row
  <2>3. Mild(Row(s).step[s], Row(s)'.step[s])
    BY <1>3, <2>1, <2>2 DEF Milder, Row
  <2>4. StepSound(Row(s).step[s], entry[s], started[s], answered[s])
    BY <1>1 DEF StepsSound
  <2> QED
    BY <2>1, <2>3, <2>4, SoundMild, SoundWithout
<1>5. ASSUME NEW r \in Runs, NEW s \in StepsOf(r)
      PROVE  SameKind(run[r].step[s], run'[r].step[s])
  <2>1. s \in Steps /\ RunOf[s] = r
    BY DEF StepsOf
  <2> QED
    BY <1>4, <2>1 DEF Row
<1>6. RowsOK' /\ RunsSound'
  <2>1. run' = [r \in Runs |-> run'[r]]
    BY <1>1
  <2> QED
    BY <1>1, <1>3, <1>5, <2>1, AllRuns
<1>7. StepsSound'
  BY <1>1, <1>2, <1>4 DEF StepsSound
<1>8. TypeOK' /\ QuietWhenDown'
  BY <1>1, <1>2, <1>6 DEF TypeOK, RowsOK, QuietWhenDown
<1> QED
  BY <1>6, <1>7, <1>8 DEF Inv

---------------------------------------------------------------------------
(* The beginning, and every step *)

LEMMA InitInv ==
  ASSUME Init
  PROVE  Inv
<1>1. PICK k \in [Steps -> UNION {Kinds[s] : s \in Steps}] :
        /\ \A s \in Steps : k[s] \in Kinds[s]
        /\ run = [r \in Runs |-> NewRun("absent", [s \in StepsOf(r) |-> k[s]])]
  BY DEF Init
<1>2. \A s \in Steps : /\ NewStep(k[s]) \in StepType /\ NewStep(k[s]).status = "queued"
                       /\ NewStep(k[s]).lease = 0
  <2>1. \A s \in Steps : k[s].retrySafe \in BOOLEAN /\ k[s].available \in BOOLEAN
    BY <1>1, WorkflowsAssumption
  <2> QED
    BY <2>1 DEF NewStep, StepType, STEP_STATUSES
<1>3. ASSUME NEW r \in Runs
      PROVE  /\ run[r] \in RunType(StepsOf(r))
             /\ run[r].status = "absent" /\ ~run[r].cancel /\ ~run[r].fail /\ ~run[r].due
             /\ \A s \in StepsOf(r) : run[r].step[s] = NewStep(k[s])
  <2> DEFINE g == [s \in StepsOf(r) |-> k[s]]
             h == [s \in DOMAIN g |-> NewStep(g[s])]
  <2>1. /\ run[r].step = h
        /\ run[r] = [status |-> "absent", cancel |-> FALSE, fail |-> FALSE, due |-> FALSE, step |-> h]
    BY <1>1 DEF NewRun
  <2>2. h \in [StepsOf(r) -> StepType] /\ \A s \in StepsOf(r) : h[s] = NewStep(k[s])
    BY <1>2 DEF StepsOf
  <2> HIDE DEF h
  <2> QED
    BY <2>1, <2>2 DEF RunType
<1>4. run \in [Runs -> UNION {RunType(StepsOf(r)) : r \in Runs}]
  <2>1. \A r \in Runs : run[r] \in UNION {RunType(StepsOf(q)) : q \in Runs}
    BY <1>3
  <2> QED
    BY <1>1, <2>1
<1>5. /\ entry \in [Steps -> EntryType] /\ \A s \in Steps : entry[s] = NoEntry
      /\ started \in [Steps -> Nat] /\ \A s \in Steps : started[s] = 0
      /\ answered \in [Steps -> {"nothing", "done", "harmless"}]
  BY DEF Init, NoEntry, EntryType
<1>6. TypeOK
  <2>1. faults \in 0..MaxFaults
    BY WorkflowsAssumption DEF Init
  <2> QED
    BY <1>3, <1>4, <1>5, <2>1 DEF Init, TypeOK
<1>7. ASSUME NEW s \in Steps
      PROVE  StepSound(Row(s).step[s], entry[s], started[s], answered[s])
  <2>1. Row(s).step[s] = NewStep(k[s])
    BY <1>3, <1>6, RowIs DEF Row
  <2> QED
    BY <1>2, <1>5, <2>1 DEF StepSound, NoEntry, TERMINAL_STATUSES
<1>8. ASSUME NEW r \in Runs
      PROVE  RunSound(run[r])
  <2>0. DOMAIN run[r].step = StepsOf(r)
    BY <1>3 DEF RunType
  <2>1. \E s \in DOMAIN run[r].step : TRUE
    BY <2>0, WorkflowsAssumption DEF StepsOf
  <2>2. \A s \in DOMAIN run[r].step : run[r].step[s].status = "queued"
    BY <1>2, <1>3, <2>0 DEF StepsOf
  <2>3. ~AllIn(run[r], TERMINAL_STATUSES)
    BY <2>1, <2>2 DEF AllIn, TERMINAL_STATUSES
  <2>4. ~SomeIn(run[r], {"failed", "needs-review", "cancelled"})
    BY <2>2 DEF SomeIn
  <2>5. ~Terminal(run[r]) /\ run[r].status = "absent" /\ Free(run[r])
    BY <1>3 DEF Terminal, TERMINAL_STATUSES, Free
  <2> QED
    BY <1>3, <2>3, <2>4, <2>5 DEF RunSound
<1>9. StepsSound /\ RunsSound /\ QuietWhenDown
  BY <1>5, <1>7, <1>8 DEF StepsSound, RunsSound, QuietWhenDown
<1> QED
  BY <1>6, <1>9 DEF Inv

LEMMA StutterKeeps ==
  ASSUME Inv, UNCHANGED vars
  PROVE  Inv'
  BY DEF Inv, TypeOK, StepsSound, RunsSound, QuietWhenDown, Row, vars

LEMMA NextKeeps ==
  ASSUME Inv, [Next]_vars
  PROVE  Inv'
<1>1. ASSUME NEW r \in Runs,
             \/ Submit(r) \/ Resume(r) \/ DeadlinePasses(r)
             \/ Cancel(r) \/ CancelFinalize(r) \/ CancelAbandoned(r)
      PROVE  Inv'
  BY <1>1, SubmitKeeps, ResumeKeeps, DeadlinePassesKeeps, CancelKeeps, CancelFinalizeKeeps,
     CancelAbandonedKeeps
<1>2. ASSUME NEW s \in Steps,
             \/ ClaimNext(s) \/ AdmitRefused(s) \/ AdmitFails(s) \/ Dispatch(s)
             \/ DispatchThrows(s) \/ ExecuteLost(s)
             \/ RenewFails(s) \/ LeaseLapses(s) \/ LeaseTimer(s)
      PROVE  Inv'
  BY <1>2, ClaimNextKeeps, AdmitRefusedKeeps, AdmitFailsKeeps, DispatchKeeps,
     DispatchThrowsKeeps, ExecuteLostKeeps, RenewFailsKeeps, LeaseLapsesKeeps, LeaseTimerKeeps
<1>3. ASSUME NEW s \in Steps, NEW o \in Outcomes, DispatchReturns(s, o) \/ SettleFails(s, o)
      PROVE  Inv'
  BY <1>3, DispatchReturnsKeeps, SettleFailsKeeps
<1>4. ASSUME DrainEnd \/ RecoveryTimer \/ Shutdown \/ ShutdownDone \/ Crash \/ Start
      PROVE  Inv'
  BY <1>4, DrainEndKeeps, RecoveryTimerKeeps, ShutdownKeeps, ShutdownDoneKeeps, CrashKeeps,
     StartKeeps
<1> QED
  BY <1>1, <1>2, <1>3, <1>4, StutterKeeps DEF Next, OtherNext

LEMMA InvHolds == Spec => []Inv
<1>1. Init => Inv
  BY InitInv
<1>2. Inv /\ [Next]_vars => Inv'
  BY NextKeeps
<1> QED
  BY <1>1, <1>2, PTL DEF Spec

---------------------------------------------------------------------------
(* The theorems *)

(* The rows that initialize declares, and the entries of #active, keep their     *)
(* shape through every transaction of the store and every handler of the runtime. *)
THEOREM WorkflowTypesHold == Spec => []TypeOK
<1>1. Inv => TypeOK
  BY DEF Inv
<1> QED
  BY <1>1, InvHolds, PTL

(* An effectful step is dispatched at most once, whatever fails, restarts, is     *)
(* retried or is resumed: once it has begun, no transaction queues it again       *)
(* (claimNext, failStep, awaitApproval, resume, recover).                         *)
THEOREM EffectfulOnceHolds == Spec => []EffectfulOnce
<1>1. Inv => EffectfulOnce
  BY DEF Inv, StepsSound, StepSound, EffectfulOnce
<1> QED
  BY <1>1, InvHolds, PTL

(* No step is recorded completed but by the dispatch that said so, and no        *)
(* effectful step that was begun is recorded cancelled or failed unless its own   *)
(* answer makes that safe (execute, its catch block, acknowledgeCancellation,     *)
(* acknowledgeStop, quarantineStep, recover).                                     *)
THEOREM OutcomeKnownHolds == Spec => []OutcomeKnown
<1>1. Inv => OutcomeKnown
  BY DEF Inv, StepsSound, StepSound, OutcomeKnown
<1> QED
  BY <1>1, InvHolds, PTL

(* A run of which no input was redacted ends with its last step, and with the    *)
(* gravest outcome of its steps, whoever settles it: a step that completes or     *)
(* fails, a client that cancels, the recovery, a lease timer or a shutdown        *)
(* (settleRunUnsafe, settleCancellationUnsafe, settleFailureUnsafe).              *)
THEOREM RunAgreesHolds == Spec => []RunAgrees
<1>1. ASSUME Inv PROVE RunAgrees
  <2> SUFFICES ASSUME NEW r \in Runs, Whole(run[r])
               PROVE  LET w == run[r] IN
                      /\ Terminal(w) => InStatus(w, TERMINAL_STATUSES) = DOMAIN w.step
                      /\ Free(w) /\ InStatus(w, TERMINAL_STATUSES) = DOMAIN w.step => Terminal(w)
                      /\ w.status = "completed" => InStatus(w, {"completed"}) = DOMAIN w.step
                      /\ w.status = "cancelled"
                           => w.cancel /\ InStatus(w, {"needs-review", "failed"}) = {}
                      /\ w.status = "failed" => /\ InStatus(w, {"failed"}) # {}
                                                /\ InStatus(w, {"needs-review"}) = {}
    BY DEF RunAgrees
  <2>1. RunSound(run[r]) /\ run[r] \in RunType(StepsOf(r))
    BY <1>1 DEF Inv, RunsSound, TypeOK
  <2>2. \A X : /\ InStatus(run[r], X) # {} <=> SomeIn(run[r], X)
               /\ InStatus(run[r], X) = DOMAIN run[r].step <=> AllIn(run[r], X)
    BY <2>1, InStatusIs
  <2>3. SomeIn(run[r], {"needs-review", "failed"}) => Bad(run[r])
    BY DEF SomeIn, Bad
  <2> QED
    BY <2>1, <2>2, <2>3 DEF RunSound
<1> QED
  BY <1>1, InvHolds, PTL
=============================================================================
