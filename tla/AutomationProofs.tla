-------------------------- MODULE AutomationProofs --------------------------
(***************************************************************************)
(* The triggers of EventIngress and CronSchedule, for any number of        *)
(* watches, schedules, events and failures.  Ingress: a row that nobody    *)
(* claimed was never claimed, and only what was claimed is dispatched or    *)
(* has a job.  Cron: a dispatch past its submission has its job, so a lease *)
(* is given back only for an occurrence that has one.  And, beside them,   *)
(* workflows and lanes by the theorems of DurableWorkflowsProofs and of    *)
(* SessionLanesProofs.                                                     *)
(***************************************************************************)
EXTENDS MCAutomation, DurableWorkflowsProofs, WellFoundedInduction

---------------------------------------------------------------------------
(* Event ingress *)

(* The declarations: watches and schedules have names of their own, and an *)
(* occurrence is an instant after NoTick.                                  *)
Declarations ==
  /\ Watches \cap Schedules = {}
  /\ Matches \in [Watches -> SUBSET Ingress!Events]
  /\ Occurrences \in [Schedules -> SUBSET (Nat \ {Ingress!NoTick})]
  /\ MaxEvents \in Nat /\ MaxInstant \in Nat /\ MaxTroubles \in Nat

(* Nobody has claimed this row yet. *)
Unclaimed(r) == r.status = "absent" \/ (r.status = "queued" /\ ~r.token)

(* A key is claimed at most once: a row that is unclaimed never was, and what *)
(* is dispatched or has a job was claimed.                                    *)
ClaimsTrue ==
  \A k \in Ingress!Keys :
    /\ claims[k] <= 1
    /\ Unclaimed(delivery[k]) => claims[k] = 0
    /\ call[k] # "none" \/ job[k] # "none" => claims[k] = 1

DueTrue == \A k \in due : delivery[k].status # "absent"

IInv == Ingress!TypeOK /\ ClaimsTrue /\ DueTrue

(* What a transaction makes of the rows before they are claimed: it adds rows *)
(* and sends some to review, and leaves a row that is settled alone.          *)
RowsKept(rows) ==
  /\ rows \in [Ingress!Keys -> Ingress!DeliveryType]
  /\ \A k \in Ingress!Keys :
       /\ Unclaimed(rows[k]) => Unclaimed(delivery[k])
       /\ delivery[k].status \in Ingress!SETTLED => rows[k] = delivery[k]
       /\ rows[k].status \in {"completed", "failed"} => rows[k] = delivery[k]
       /\ delivery[k].status # "absent" => rows[k].status # "absent"

(* A key of a watch, and of a schedule. *)
LEMMA KeyOfWatch ==
  ASSUME NEW w \in Watches, NEW n \in Matches[w] PROVE <<w, n>> \in Ingress!Keys
<1>1. <<w, n>> \in {<<w, m>> : m \in Matches[w]}
  OBVIOUS
<1>2. <<w, n>> \in UNION {{<<v, m>> : m \in Matches[v]} : v \in Watches}
  BY <1>1, Zenon
<1>3. QED
  BY <1>2 DEF Ingress!Keys

LEMMA CandidatesKeys == ASSUME NEW n PROVE Ingress!Candidates(n) \subseteq Ingress!Keys
  BY KeyOfWatch DEF Ingress!Candidates

LEMMA TicksKeys == ASSUME NEW now PROVE Ingress!Ticks(now) \subseteq Ingress!Keys
  BY DEF Ingress!Ticks

(* In the first state nothing is known and nothing runs. *)
LEMMA IngressInit == ASSUME Declarations, Ingress!Init PROVE IInv
<1>1. Ingress!TypeOK
  <2>1. source \in [known : BOOLEAN, enabled : BOOLEAN, newest : 0..MaxEvents]
        /\ checkpoint \in [Schedules -> 0..MaxInstant] /\ troubles \in 0..MaxTroubles
    BY DEF Declarations, Ingress!Init, Ingress!NoTick
  <2>2. Ingress!Row("absent") \in Ingress!DeliveryType
    BY DEF Ingress!Row, Ingress!DeliveryType
  <2>3. delivery \in [Ingress!Keys -> Ingress!DeliveryType] /\ claims \in [Ingress!Keys -> Nat]
        /\ call \in [Ingress!Keys -> {"none", "submit", "poll"}]
    BY <2>2 DEF Ingress!Init
  <2>4. job \in [Ingress!Keys -> Ingress!Supervisor!JobStatus]
    BY DEF Ingress!Init, Ingress!Supervisor!JobsInit, Ingress!Supervisor!JobStatus
  <2>5. QED
    BY <2>1, <2>3, <2>4 DEF Ingress!Init, Ingress!TypeOK
<1>2. ClaimsTrue /\ DueTrue
  BY DEF Ingress!Init, ClaimsTrue, DueTrue, Unclaimed, Ingress!Row, Ingress!Supervisor!JobsInit
<1>3. QED
  BY <1>1, <1>2 DEF IInv

(* persistCandidate() adds rows. *)
LEMMA PersistedKept ==
  ASSUME Ingress!TypeOK, NEW K \in SUBSET Ingress!Keys
  PROVE RowsKept(Ingress!Persisted(K)) /\ \A k \in K : Ingress!Persisted(K)[k].status # "absent"
  BY DEF Ingress!TypeOK, RowsKept, Ingress!Persisted, Ingress!Row, Ingress!DeliveryType,
     Unclaimed, Ingress!SETTLED

(* A review takes rows that are not settled. *)
LEMMA ReviewedKept ==
  ASSUME Ingress!TypeOK, NEW K \in SUBSET Ingress!Keys, \A k \in K : Ingress!Queued(k) PROVE RowsKept(Ingress!Reviewed(delivery, K))
  BY DEF Ingress!TypeOK, RowsKept, Ingress!Reviewed, Ingress!Row, Ingress!DeliveryType,
     Unclaimed, Ingress!SETTLED, Ingress!Queued

(* What is claimed was never claimed before, and no claim touches what is settled. *)
LEMMA ClaimSound ==
  ASSUME IInv, NEW rows, RowsKept(rows), NEW K \in SUBSET Ingress!Keys, NEW C \in SUBSET Ingress!Claimable(rows, K),
         Ingress!Claimed(rows, C), job' = job,
         \A k \in Ingress!Keys : call'[k] # "none" => k \in C \/ call[k] # "none"
  PROVE /\ delivery' \in [Ingress!Keys -> Ingress!DeliveryType] /\ claims' \in [Ingress!Keys -> Nat]
        /\ \A k \in Ingress!Keys : delivery'[k].status = rows[k].status
        /\ ClaimsTrue' /\ Ingress!SettledTrulyStep
<1>1. C \subseteq Ingress!Keys /\ \A k \in C : rows[k].status = "queued" /\ ~rows[k].token
  BY DEF Ingress!Claimable
<1>2. /\ delivery' = [k \in Ingress!Keys |-> IF k \in C THEN [Ingress!Row("queued") EXCEPT !.token = TRUE] ELSE rows[k]]
      /\ claims' = [k \in Ingress!Keys |-> IF k \in C THEN claims[k] + 1 ELSE claims[k]]
  BY DEF Ingress!Claimed
<1>3. \A k \in Ingress!Keys :
        /\ k \in C => /\ delivery'[k] = [status |-> "queued", token |-> TRUE, lapsed |-> FALSE]
                      /\ claims'[k] = claims[k] + 1
        /\ k \notin C => delivery'[k] = rows[k] /\ claims'[k] = claims[k]
  BY <1>2 DEF Ingress!Row
<1>4. delivery' \in [Ingress!Keys -> Ingress!DeliveryType] /\ claims' \in [Ingress!Keys -> Nat]
  <2>1. [status |-> "queued", token |-> TRUE, lapsed |-> FALSE] \in Ingress!DeliveryType
    BY DEF Ingress!DeliveryType
  <2>2. \A k \in Ingress!Keys : delivery'[k] \in Ingress!DeliveryType
    BY <1>3, <2>1 DEF RowsKept
  <2>3. \A k \in Ingress!Keys : claims'[k] \in Nat
    BY <1>3 DEF IInv, Ingress!TypeOK
  <2>4. QED
    BY <1>2, <2>2, <2>3
<1>5. \A k \in Ingress!Keys : delivery'[k].status = rows[k].status
  BY <1>1, <1>3
<1>6. \A k \in C : claims[k] = 0
  BY <1>1 DEF RowsKept, Unclaimed, IInv, ClaimsTrue
<1>7. ClaimsTrue'
  BY <1>1, <1>3, <1>6 DEF IInv, ClaimsTrue, RowsKept, Unclaimed
<1>8. Ingress!SettledTrulyStep
  BY <1>1, <1>3 DEF Ingress!SettledTrulyStep, RowsKept, Ingress!SETTLED
<1>9. QED
  BY <1>4, <1>5, <1>7, <1>8

(* startDispatch() and a death before it is through. *)
LEMMA DispatchSound ==
  ASSUME IInv, NEW rows, RowsKept(rows), NEW K \in SUBSET Ingress!Keys, job' = job,
         Ingress!Dispatched(rows, K) \/ Ingress!DiesHaving(rows, K)
  PROVE /\ delivery' \in [Ingress!Keys -> Ingress!DeliveryType] /\ claims' \in [Ingress!Keys -> Nat]
        /\ call' \in [Ingress!Keys -> {"none", "submit", "poll"}]
        /\ aborted' \subseteq {k \in Ingress!Keys : call'[k] # "none"}
        /\ \A k \in Ingress!Keys : delivery'[k].status = rows[k].status
        /\ ClaimsTrue' /\ Ingress!SettledTrulyStep
<1>1. CASE Ingress!Dispatched(rows, K)
  <2> DEFINE C == Ingress!Claimable(rows, K)
  <2>1. /\ Ingress!Claimed(rows, C) /\ C \subseteq K
        /\ call' = [k \in Ingress!Keys |-> IF k \in C THEN "submit" ELSE call[k]]
        /\ aborted' = aborted \ C
    BY <1>1 DEF Ingress!Dispatched, Ingress!Claimable
  <2>2. \A k \in Ingress!Keys : call'[k] # "none" => k \in C \/ call[k] # "none"
    BY <2>1
  <2>3. call' \in [Ingress!Keys -> {"none", "submit", "poll"}] /\ aborted' \subseteq {k \in Ingress!Keys : call'[k] # "none"}
    BY <2>1 DEF IInv, Ingress!TypeOK
  <2>4. QED
    BY <2>1, <2>2, <2>3, ClaimSound
<1>2. CASE Ingress!DiesHaving(rows, K)
  <2>1. PICK C \in SUBSET Ingress!Claimable(rows, K) : Ingress!Claimed(rows, C)
    BY <1>2 DEF Ingress!DiesHaving
  <2>2. call' = [k \in Ingress!Keys |-> "none"] /\ aborted' = {}
    BY <1>2 DEF Ingress!DiesHaving, Ingress!Gone
  <2>3. \A k \in Ingress!Keys : call'[k] # "none" => k \in C \/ call[k] # "none"
    BY <2>2
  <2>4. QED
    BY <2>1, <2>2, <2>3, ClaimSound
<1>3. QED
  BY <1>1, <1>2

(* The timer and the process after a dispatch or a death. *)
LEMMA MemoryTyped ==
  ASSUME Declarations, Ingress!TypeOK, NEW rows, NEW K,
         \/ Ingress!Dispatched(rows, K) /\ process' \in {"down", "up", "closed"} /\ Ingress!Rearm /\ (UNCHANGED troubles \/ Ingress!Fault)
         \/ Ingress!DiesHaving(rows, K)
  PROVE recovery' \in BOOLEAN /\ process' \in {"down", "up", "closed"} /\ troubles' \in 0..MaxTroubles
<1>1. recovery' \in BOOLEAN
  BY DEF Ingress!DiesHaving, Ingress!Gone, Ingress!Rearm
<1>2. troubles' \in 0..MaxTroubles
  BY DEF Declarations, Ingress!TypeOK, Ingress!Fault, Ingress!DiesHaving
<1>3. QED
  BY <1>1, <1>2 DEF Ingress!DiesHaving, Ingress!Gone

(* Declarations of sources and watches. *)
LEMMA DeclareSound ==
  ASSUME IInv, \/ \E on \in BOOLEAN : Ingress!RegisterSource(on)
               \/ \E w \in Ingress!Declared : Ingress!RegisterWatch(w) \/ Ingress!DisableWatch(w)
  PROVE IInv' /\ Ingress!SettledTrulyStep
<1>1. /\ UNCHANGED <<checkpoint, delivery, call, aborted, recovery, claims, process, job, troubles, due>>
      /\ source' \in [known : BOOLEAN, enabled : BOOLEAN, newest : 0..MaxEvents]
      /\ watch' \in [Ingress!Declared -> {"absent", "enabled", "disabled"}]
  BY DEF Ingress!RegisterSource, Ingress!RegisterWatch, Ingress!DisableWatch,
     Ingress!dispatchVars, IInv, Ingress!TypeOK
<1>2. QED
  BY <1>1 DEF IInv, Ingress!TypeOK, ClaimsTrue, DueTrue, Ingress!SettledTrulyStep

(* An event: what its cursor passes has its row. *)
LEMMA IngestSound ==
  ASSUME Declarations, IInv, NEW n \in Ingress!Events, Ingress!Ingest(n) \/ Ingress!IngestDies(n) PROVE IInv' /\ Ingress!SettledTrulyStep
<1> DEFINE K == Ingress!Candidates(n)
<1>1. K \in SUBSET Ingress!Keys
  BY CandidatesKeys
<1>2. RowsKept(Ingress!Persisted(K)) /\ \A k \in K : Ingress!Persisted(K)[k].status # "absent"
  BY <1>1, PersistedKept DEF IInv
<1>3. Ingress!Ingested(n) /\ job' = job
  BY DEF Ingress!Ingest, Ingress!IngestDies, Ingress!Ingested
<1>4. Ingress!Dispatched(Ingress!Persisted(K), K) \/ Ingress!DiesHaving(Ingress!Persisted(K), K)
  BY DEF Ingress!Ingest, Ingress!IngestDies
<1>5. /\ delivery' \in [Ingress!Keys -> Ingress!DeliveryType] /\ claims' \in [Ingress!Keys -> Nat]
      /\ call' \in [Ingress!Keys -> {"none", "submit", "poll"}]
      /\ aborted' \subseteq {k \in Ingress!Keys : call'[k] # "none"}
      /\ \A k \in Ingress!Keys : delivery'[k].status = Ingress!Persisted(K)[k].status
      /\ ClaimsTrue' /\ Ingress!SettledTrulyStep
  BY <1>1, <1>2, <1>3, <1>4, DispatchSound
<1>6. recovery' \in BOOLEAN /\ process' \in {"down", "up", "closed"} /\ troubles' \in 0..MaxTroubles
  BY MemoryTyped DEF Ingress!Ingest, Ingress!IngestDies, IInv, Ingress!TypeOK
<1>7. /\ source' \in [known : BOOLEAN, enabled : BOOLEAN, newest : 0..MaxEvents]
      /\ due' \subseteq due \cup K /\ UNCHANGED <<watch, checkpoint>>
  BY <1>3 DEF Ingress!Ingested, IInv, Ingress!TypeOK, Ingress!Events
<1>8. Ingress!TypeOK'
  BY <1>1, <1>3, <1>5, <1>6, <1>7 DEF IInv, Ingress!TypeOK
<1>9. DueTrue'
  BY <1>1, <1>2, <1>5, <1>7 DEF IInv, Ingress!TypeOK, DueTrue, RowsKept
<1>10. QED
  BY <1>5, <1>8, <1>9 DEF IInv

(* A key of a schedule is one of its occurrences. *)
LEMMA KeyOfSchedule ==
  ASSUME Declarations, NEW k \in Ingress!Keys, k[1] \in Schedules
  PROVE k = <<k[1], k[2]>> /\ k[2] \in Occurrences[k[1]]
<1> DEFINE OfWatches == UNION {{<<w, n>> : n \in Matches[w]} : w \in Watches}
           OfSchedules == UNION {{<<s, t>> : t \in Occurrences[s]} : s \in Schedules}
<1>0. k \in OfWatches \/ k \in OfSchedules
  BY DEF Ingress!Keys
<1>1. CASE k \in OfWatches
  <2>1. PICK w \in Watches : k \in {<<w, n>> : n \in Matches[w]}
    BY <1>1
  <2>2. k[1] = w
    BY <2>1
  <2>3. QED
    BY <2>2 DEF Declarations
<1>2. CASE k \in OfSchedules
  <2>1. PICK s \in Schedules : k \in {<<s, t>> : t \in Occurrences[s]}
    BY <1>2
  <2>2. QED
    BY <2>1
<1>3. QED
  BY <1>0, <1>1, <1>2, Zenon

(* A heartbeat passes no occurrence but those it ticks. *)
LEMMA TickedDue ==
  ASSUME Declarations, Ingress!TypeOK, NEW now \in 1..MaxInstant, NEW T \in SUBSET Ingress!Ticks(now), Ingress!Ticked(T)
  PROVE due' \subseteq due \cup T /\ checkpoint' \in [Schedules -> 0..MaxInstant]
<1> DEFINE Hit(s) == \E t \in Occurrences[s] : <<s, t>> \in T
           At(s) == CHOOSE t \in Occurrences[s] : <<s, t>> \in T
<1>1. checkpoint' = [s \in Schedules |-> IF Hit(s) THEN At(s) ELSE checkpoint[s]]
  BY DEF Ingress!Ticked
<1>2. ASSUME NEW s \in Schedules, Hit(s)
      PROVE /\ At(s) \in Occurrences[s] /\ <<s, At(s)>> \in T
            /\ At(s) \in Nat /\ At(s) <= now
            /\ At(s) \in Ingress!NextDue(s, Ingress!After(s, now))
  <2>1. At(s) \in Occurrences[s] /\ <<s, At(s)>> \in T
    BY <1>2
  <2>2. <<s, At(s)>> \in Ingress!Ticks(now)
    BY <2>1
  <2>3. At(s) <= now /\ At(s) \in Ingress!NextDue(s, Ingress!After(s, now))
    BY <2>2 DEF Ingress!Ticks
  <2>4. QED
    BY <2>1, <2>3 DEF Declarations
<1>3. ASSUME NEW s \in Schedules PROVE checkpoint'[s] \in 0..MaxInstant
  <2> HIDE DEF Hit, At
  <2>1. CASE Hit(s)
    <3>1. checkpoint'[s] = At(s)
      BY <1>1, <2>1
    <3>2. At(s) \in Nat /\ At(s) <= now
      BY <1>2, <2>1
    <3>3. now <= MaxInstant /\ now \in Nat /\ MaxInstant \in Nat
      BY DEF Declarations
    <3>4. QED
      BY <3>1, <3>2, <3>3
  <2>2. CASE ~Hit(s)
    BY <1>1, <2>2 DEF Ingress!TypeOK
  <2>3. QED
    BY <2>1, <2>2
<1>4. checkpoint' \in [Schedules -> 0..MaxInstant]
  BY <1>1, <1>3
<1>5. ASSUME NEW k \in Ingress!Keys, k[1] \in Schedules, checkpoint[k[1]] # Ingress!NoTick,
             checkpoint[k[1]] < k[2], k[2] <= checkpoint'[k[1]]
      PROVE k \in T
  <2> DEFINE s == k[1]
  <2>0. s \in Schedules /\ checkpoint[s] # Ingress!NoTick /\ checkpoint[s] < k[2] /\ k[2] <= checkpoint'[s]
    BY <1>5
  <2>1. k = <<s, k[2]>> /\ k[2] \in Occurrences[s]
    BY <1>5, KeyOfSchedule
  <2>2. k[2] \in Nat /\ checkpoint[s] \in Nat
    BY <2>0, <2>1 DEF Declarations, Ingress!TypeOK
  <2> HIDE DEF s, Hit, At
  <2>3. Hit(s)
    <3> SUFFICES ASSUME ~Hit(s) PROVE FALSE
      OBVIOUS
    <3>1. checkpoint'[s] = checkpoint[s]
      BY <1>1, <2>0
    <3>2. QED
      BY <2>0, <2>2, <3>1
  <2>4. checkpoint'[s] = At(s)
    BY <1>1, <2>0, <2>3
  <2>5. At(s) \in Ingress!NextDue(s, checkpoint[s]) /\ At(s) \in Nat /\ <<s, At(s)>> \in T
    BY <1>2, <2>0, <2>3 DEF Ingress!After
  <2>6. At(s) <= k[2]
    BY <2>0, <2>1, <2>5 DEF Ingress!NextDue
  <2>7. k[2] = At(s)
    BY <2>0, <2>2, <2>4, <2>5, <2>6
  <2>8. QED
    BY <2>1, <2>5, <2>7
<1>6. due' \subseteq due \cup T
  BY <1>5 DEF Ingress!Ticked
<1>7. QED
  BY <1>4, <1>6

(* A heartbeat: what a checkpoint passes has its row. *)
LEMMA HeartbeatSound ==
  ASSUME Declarations, IInv, NEW now \in 1..MaxInstant, Ingress!Heartbeat(now) \/ Ingress!HeartbeatDies(now)
  PROVE IInv' /\ Ingress!SettledTrulyStep
<1>1. PICK T \in SUBSET Ingress!Ticks(now) :
        /\ Ingress!Ticked(T)
        /\ \/ Ingress!Dispatched(Ingress!Persisted(T), T) /\ UNCHANGED <<process, troubles>> /\ Ingress!Rearm
           \/ Ingress!DiesHaving(Ingress!Persisted(T), T)
  BY DEF Ingress!Heartbeat, Ingress!HeartbeatDies
<1>2. T \in SUBSET Ingress!Keys
  BY <1>1, TicksKeys
<1>3. RowsKept(Ingress!Persisted(T)) /\ \A k \in T : Ingress!Persisted(T)[k].status # "absent"
  BY <1>2, PersistedKept DEF IInv
<1>4. UNCHANGED <<source, watch, job>>
  BY <1>1 DEF Ingress!Ticked
<1>5. /\ delivery' \in [Ingress!Keys -> Ingress!DeliveryType] /\ claims' \in [Ingress!Keys -> Nat]
      /\ call' \in [Ingress!Keys -> {"none", "submit", "poll"}]
      /\ aborted' \subseteq {k \in Ingress!Keys : call'[k] # "none"}
      /\ \A k \in Ingress!Keys : delivery'[k].status = Ingress!Persisted(T)[k].status
      /\ ClaimsTrue' /\ Ingress!SettledTrulyStep
  BY <1>1, <1>2, <1>3, <1>4, DispatchSound
<1>6. recovery' \in BOOLEAN /\ process' \in {"down", "up", "closed"} /\ troubles' \in 0..MaxTroubles
  BY <1>1, MemoryTyped DEF IInv, Ingress!TypeOK
<1>7. due' \subseteq due \cup T /\ checkpoint' \in [Schedules -> 0..MaxInstant]
  BY <1>1, TickedDue DEF IInv
<1>8. Ingress!TypeOK'
  BY <1>2, <1>4, <1>5, <1>6, <1>7 DEF IInv, Ingress!TypeOK
<1>9. DueTrue'
  BY <1>2, <1>3, <1>5, <1>7 DEF IInv, Ingress!TypeOK, DueTrue, RowsKept
<1>10. QED
  BY <1>5, <1>8, <1>9 DEF IInv

(* A start: what a dead process claimed is reviewed, the rest dispatched. *)
LEMMA StartSound ==
  ASSUME Declarations, IInv, Ingress!Start \/ Ingress!StartDies PROVE IInv' /\ Ingress!SettledTrulyStep
<1>1. PICK R \in SUBSET Ingress!Keys :
        /\ \A k \in R : Ingress!Queued(k)
        /\ \/ /\ Ingress!Dispatched(Ingress!Reviewed(delivery, R), Ingress!Tokenless)
              /\ process' = "up" /\ Ingress!Rearm /\ (UNCHANGED troubles \/ Ingress!Fault)
           \/ Ingress!DiesHaving(Ingress!Reviewed(delivery, R), Ingress!Tokenless)
  <2>1. CASE Ingress!Start
    <3>1. PICK unreadable \in SUBSET Ingress!Tokenless :
            /\ UNCHANGED troubles \/ Ingress!Fault
            /\ Ingress!Dispatched(Ingress!Reviewed(delivery, Ingress!Lapsed \cup unreadable), Ingress!Tokenless)
      BY <2>1 DEF Ingress!Start
    <3>2. /\ Ingress!Lapsed \cup unreadable \in SUBSET Ingress!Keys
          /\ \A k \in Ingress!Lapsed \cup unreadable : Ingress!Queued(k)
      BY DEF Ingress!Lapsed, Ingress!Tokenless, Ingress!Held
    <3>3. QED
      BY <2>1, <3>1, <3>2 DEF Ingress!Start
  <2>2. CASE Ingress!StartDies
    BY <2>2 DEF Ingress!StartDies, Ingress!Lapsed, Ingress!Held
  <2>3. QED
    BY <2>1, <2>2
<1>2. RowsKept(Ingress!Reviewed(delivery, R))
  BY <1>1, ReviewedKept DEF IInv
<1>3. UNCHANGED <<source, watch, checkpoint, job, due>> /\ Ingress!Tokenless \in SUBSET Ingress!Keys
  BY DEF Ingress!Start, Ingress!StartDies, Ingress!Tokenless
<1>4. /\ delivery' \in [Ingress!Keys -> Ingress!DeliveryType] /\ claims' \in [Ingress!Keys -> Nat]
      /\ call' \in [Ingress!Keys -> {"none", "submit", "poll"}]
      /\ aborted' \subseteq {k \in Ingress!Keys : call'[k] # "none"}
      /\ \A k \in Ingress!Keys : delivery'[k].status = Ingress!Reviewed(delivery, R)[k].status
      /\ ClaimsTrue' /\ Ingress!SettledTrulyStep
  BY <1>1, <1>2, <1>3, DispatchSound
<1>5. recovery' \in BOOLEAN /\ process' \in {"down", "up", "closed"} /\ troubles' \in 0..MaxTroubles
  BY <1>1, MemoryTyped DEF IInv
<1>6. Ingress!TypeOK'
  BY <1>3, <1>4, <1>5 DEF IInv, Ingress!TypeOK
<1>7. DueTrue'
  BY <1>2, <1>3, <1>4 DEF IInv, Ingress!TypeOK, DueTrue, RowsKept
<1>8. QED
  BY <1>4, <1>6, <1>7 DEF IInv

(* A dispatch that is over settles its own claim, or nothing. *)
LEMMA FinishSound ==
  ASSUME IInv, NEW k \in Ingress!Keys, NEW status \in Ingress!SETTLED, call[k] # "none", Ingress!Finish(k, status),
         job' \in {job, Ingress!Submitted(k)}, troubles' \in 0..MaxTroubles,
         status = "completed" => job[k] = "completed",
         status = "failed" => job[k] \in {"failed", "cancelled"}
  PROVE IInv' /\ Ingress!SettledTrulyStep
<1>1. /\ call' = [call EXCEPT ![k] = "none"] /\ aborted' = aborted \ {k}
      /\ UNCHANGED <<source, watch, checkpoint, process, due, claims>> /\ recovery' \in BOOLEAN
  BY DEF Ingress!Finish, Ingress!Rearm
<1>2. PICK left \in {delivery[k], Ingress!Row("needs-review")} \cup
                   (IF Ingress!Held(k) /\ ~delivery[k].lapsed THEN {Ingress!Row(status)} ELSE {}) :
        /\ delivery' = [delivery EXCEPT ![k] = left]
        /\ left # delivery[k] => Ingress!Queued(k)
  <2>1. CASE k \in aborted
    BY <2>1 DEF Ingress!Finish, IInv, Ingress!TypeOK
  <2>2. CASE k \notin aborted
    BY <2>2 DEF Ingress!Finish, Ingress!SettledRow
  <2>3. QED
    BY <2>1, <2>2
<1>3. \A s \in Ingress!SETTLED : Ingress!Row(s) \in Ingress!DeliveryType /\ Ingress!Row(s).status = s
  BY DEF Ingress!Row, Ingress!DeliveryType
<1>4. left \in Ingress!DeliveryType /\ (left = delivery[k] \/ left.status \in Ingress!SETTLED)
  BY <1>2, <1>3 DEF IInv, Ingress!TypeOK, Ingress!SETTLED
<1>5. \A j \in Ingress!Keys : delivery'[j] = IF j = k THEN left ELSE delivery[j]
  BY <1>2 DEF IInv, Ingress!TypeOK
<1>6. job' \in [Ingress!Keys -> Ingress!Supervisor!JobStatus] /\ \A j \in Ingress!Keys : job'[j] # "none" => job[j] # "none" \/ j = k
  BY DEF IInv, Ingress!TypeOK, Ingress!Submitted, Ingress!Supervisor!JobStatus
<1>7. Ingress!TypeOK'
  <2>1. delivery' \in [Ingress!Keys -> Ingress!DeliveryType]
    BY <1>2, <1>4 DEF IInv, Ingress!TypeOK
  <2>2. call' \in [Ingress!Keys -> {"none", "submit", "poll"}] /\ aborted' \subseteq {j \in Ingress!Keys : call'[j] # "none"}
    BY <1>1 DEF IInv, Ingress!TypeOK
  <2>3. QED
    BY <1>1, <1>6, <2>1, <2>2 DEF IInv, Ingress!TypeOK
<1>8. ClaimsTrue'
  <2> SUFFICES ASSUME NEW j \in Ingress!Keys
               PROVE /\ claims[j] <= 1
                     /\ Unclaimed(delivery'[j]) => claims[j] = 0
                     /\ call'[j] # "none" \/ job'[j] # "none" => claims[j] = 1
    BY <1>1 DEF ClaimsTrue
  <2>1. call'[j] # "none" \/ job'[j] # "none" => call[j] # "none" \/ job[j] # "none"
    BY <1>1, <1>6 DEF IInv, Ingress!TypeOK
  <2>2. Unclaimed(delivery'[j]) => Unclaimed(delivery[j])
    BY <1>4, <1>5 DEF Unclaimed, Ingress!SETTLED
  <2>3. QED
    BY <2>1, <2>2 DEF IInv, ClaimsTrue
<1>9. DueTrue'
  BY <1>1, <1>4, <1>5 DEF IInv, DueTrue, Ingress!TypeOK, Ingress!SETTLED
<1>10. Ingress!SettledTrulyStep
  <2> SUFFICES ASSUME NEW j \in Ingress!Keys
               PROVE /\ delivery[j].status \in Ingress!SETTLED => delivery'[j] = delivery[j]
                     /\ delivery[j] # delivery'[j] /\ delivery'[j].status = "completed"
                          => job[j] = "completed" /\ Ingress!Held(j) /\ ~delivery[j].lapsed
                     /\ delivery[j] # delivery'[j] /\ delivery'[j].status = "failed"
                          => job[j] \in {"failed", "cancelled"} /\ Ingress!Held(j)
    BY DEF Ingress!SettledTrulyStep
  <2>1. CASE left = delivery[k] \/ j # k
    BY <1>5, <2>1
  <2>2. CASE left # delivery[k] /\ j = k
    <3>1. Ingress!Queued(k) /\ delivery'[k] = left
      BY <1>2, <1>5, <2>2
    <3>2. left.status \in {"completed", "failed"} =>
            Ingress!Held(k) /\ ~delivery[k].lapsed /\ left.status = status
      BY <1>2, <1>3, <2>2 DEF Ingress!SETTLED
    <3>3. QED
      BY <2>2, <3>1, <3>2 DEF Ingress!Queued, Ingress!SETTLED
  <2>3. QED
    BY <2>1, <2>2
<1>11. QED
  BY <1>7, <1>8, <1>9, <1>10 DEF IInv

(* A dispatch: it submits, polls, and is over. *)
LEMMA DispatchNextSound ==
  ASSUME Declarations, IInv, NEW k \in Ingress!Keys, Ingress!DispatchNext(k) PROVE IInv' /\ Ingress!SettledTrulyStep
<1>1. CASE Ingress!Submit(k)
  <2>1. /\ call[k] = "submit" /\ call' = [call EXCEPT ![k] = "poll"]
        /\ job' = [job EXCEPT ![k] = IF job[k] = "none" THEN "waiting" ELSE job[k]]
        /\ UNCHANGED <<source, watch, checkpoint, delivery, aborted, recovery, process, troubles, due, claims>>
    BY <1>1 DEF Ingress!Submit, Ingress!Submitted
  <2>2. call' \in [Ingress!Keys -> {"none", "submit", "poll"}] /\ job' \in [Ingress!Keys -> Ingress!Supervisor!JobStatus]
    BY <2>1 DEF IInv, Ingress!TypeOK, Ingress!Supervisor!JobStatus
  <2>3. \A j \in Ingress!Keys : call'[j] # "none" \/ job'[j] # "none" => call[j] # "none" \/ job[j] # "none"
    BY <2>1 DEF IInv, Ingress!TypeOK
  <2>4. \A j \in Ingress!Keys : call[j] # "none" => call'[j] # "none"
    BY <2>1 DEF IInv, Ingress!TypeOK
  <2>5. Ingress!TypeOK'
    BY <2>1, <2>2, <2>4 DEF IInv, Ingress!TypeOK
  <2>6. ClaimsTrue'
    BY <2>1, <2>3 DEF IInv, ClaimsTrue
  <2>7. QED
    BY <2>1, <2>5, <2>6 DEF IInv, DueTrue, Ingress!SettledTrulyStep
<1>2. CASE Ingress!SubmitUnheeded(k) \/ Ingress!SubmitFails(k) \/ Ingress!PollLeaves(k)
  <2>1. /\ Ingress!Finish(k, "needs-review") /\ call[k] # "none" /\ job' \in {job, Ingress!Submitted(k)}
        /\ UNCHANGED troubles \/ Ingress!Fault
    BY <1>2 DEF Ingress!SubmitUnheeded, Ingress!SubmitFails, Ingress!PollLeaves
  <2>2. troubles' \in 0..MaxTroubles
    BY <2>1 DEF Declarations, IInv, Ingress!TypeOK, Ingress!Fault
  <2>3. QED
    BY <2>1, <2>2, FinishSound DEF Ingress!SETTLED
<1>3. CASE Ingress!PollEnded(k)
  <2>1. /\ Ingress!Finish(k, Ingress!StatusFor(job[k])) /\ call[k] # "none" /\ UNCHANGED <<troubles, job>>
    BY <1>3 DEF Ingress!PollEnded
  <2>2. /\ Ingress!StatusFor(job[k]) \in Ingress!SETTLED
        /\ Ingress!StatusFor(job[k]) = "completed" => job[k] = "completed"
        /\ Ingress!StatusFor(job[k]) = "failed" => job[k] \in {"failed", "cancelled"}
    BY DEF Ingress!StatusFor, Ingress!SETTLED
  <2>3. troubles' \in 0..MaxTroubles
    BY <2>1 DEF IInv, Ingress!TypeOK
  <2>4. QED
    BY <2>1, <2>2, <2>3, FinishSound
<1>4. CASE Ingress!LeaseLapses(k)
  <2>1. /\ delivery[k].status = "queued" /\ delivery[k].token
        /\ delivery' = [delivery EXCEPT ![k].lapsed = TRUE] /\ (UNCHANGED troubles \/ Ingress!Fault)
        /\ UNCHANGED <<source, watch, checkpoint, call, aborted, recovery, claims, process, job, due>>
    BY <1>4 DEF Ingress!LeaseLapses, Ingress!Held, Ingress!Queued
  <2>2. delivery' \in [Ingress!Keys -> Ingress!DeliveryType]
    BY <2>1 DEF IInv, Ingress!TypeOK, Ingress!DeliveryType
  <2>3. \A j \in Ingress!Keys :
          /\ delivery'[j].status = delivery[j].status /\ delivery'[j].token = delivery[j].token
          /\ j # k => delivery'[j] = delivery[j]
    BY <2>1 DEF IInv, Ingress!TypeOK, Ingress!DeliveryType
  <2>4. Ingress!TypeOK'
    <3>1. troubles' \in 0..MaxTroubles
      BY <2>1 DEF Declarations, IInv, Ingress!TypeOK, Ingress!Fault
    <3>2. QED
      BY <2>1, <2>2, <3>1 DEF IInv, Ingress!TypeOK
  <2>5. ClaimsTrue'
    BY <2>1, <2>3 DEF IInv, ClaimsTrue, Unclaimed
  <2>6. DueTrue'
    BY <2>1, <2>3 DEF IInv, Ingress!TypeOK, DueTrue
  <2>7. Ingress!SettledTrulyStep
    BY <2>1, <2>3 DEF Ingress!SettledTrulyStep, Ingress!SETTLED
  <2>8. QED
    BY <2>4, <2>5, <2>6, <2>7 DEF IInv
<1>5. CASE Ingress!JobEnds(k)
  <2>1. /\ job[k] # "none" /\ \E status \in Ingress!Supervisor!Moves(job[k]) : job' = [job EXCEPT ![k] = status]
        /\ job'[k] \in Ingress!Supervisor!Ends
        /\ UNCHANGED <<source, watch, checkpoint, delivery, call, aborted, recovery, claims, process, troubles, due>>
    BY <1>5 DEF Ingress!JobEnds, Ingress!Supervisor!Move, Ingress!dispatchVars
  <2>2. job' \in [Ingress!Keys -> Ingress!Supervisor!JobStatus]
    BY <2>1 DEF IInv, Ingress!TypeOK, Ingress!Supervisor!JobStatus
  <2>3. \A j \in Ingress!Keys : job'[j] # "none" => job[j] # "none"
    BY <2>1 DEF IInv, Ingress!TypeOK
  <2>4. QED
    BY <2>1, <2>2, <2>3 DEF IInv, Ingress!TypeOK, ClaimsTrue, DueTrue, Ingress!SettledTrulyStep
<1>6. QED
  BY <1>1, <1>2, <1>3, <1>4, <1>5 DEF Ingress!DispatchNext

(* Deliveries that go to review because their dispatch is given up. *)
LEMMA ReviewSound ==
  ASSUME IInv, NEW K \in SUBSET Ingress!Keys, \A k \in K : Ingress!Queued(k), delivery' = Ingress!Reviewed(delivery, K),
         aborted' \subseteq {k \in Ingress!Keys : call[k] # "none"}, recovery' \in BOOLEAN,
         process' \in {"down", "up", "closed"}, troubles' \in 0..MaxTroubles,
         UNCHANGED <<source, watch, checkpoint, call, claims, job, due>>
  PROVE IInv' /\ Ingress!SettledTrulyStep
<1>1. RowsKept(delivery')
  BY ReviewedKept DEF IInv
<1>2. Ingress!TypeOK'
  BY <1>1 DEF IInv, Ingress!TypeOK, RowsKept
<1>3. ClaimsTrue' /\ DueTrue'
  BY <1>1 DEF IInv, Ingress!TypeOK, ClaimsTrue, DueTrue, RowsKept
<1>4. Ingress!SettledTrulyStep
  BY <1>1 DEF Ingress!SettledTrulyStep, RowsKept
<1>5. QED
  BY <1>2, <1>3, <1>4 DEF IInv

(* The timer, the shutdown and the end of the process. *)
LEMMA ProcessSound ==
  ASSUME Declarations, IInv, Ingress!Reconcile \/ Ingress!Shutdown \/ Ingress!Exit PROVE IInv' /\ Ingress!SettledTrulyStep
<1>1. CASE Ingress!Reconcile
  <2>1. Ingress!Lapsed \in SUBSET Ingress!Keys /\ \A k \in Ingress!Lapsed : Ingress!Queued(k)
    BY DEF Ingress!Lapsed, Ingress!Held
  <2>2. aborted' \subseteq {k \in Ingress!Keys : call[k] # "none"}
    BY <1>1 DEF Ingress!Reconcile, Ingress!Active, IInv, Ingress!TypeOK
  <2>3. recovery' \in BOOLEAN /\ process' \in {"down", "up", "closed"} /\ troubles' \in 0..MaxTroubles
    BY <1>1 DEF Ingress!Reconcile, Ingress!Rearm, IInv, Ingress!TypeOK
  <2>4. QED
    BY <1>1, <2>1, <2>2, <2>3, ReviewSound DEF Ingress!Reconcile
<1>2. CASE Ingress!Shutdown
  <2> DEFINE K == {k \in Ingress!Active : Ingress!Queued(k)}
  <2>1. K \in SUBSET Ingress!Keys /\ \A k \in K : Ingress!Queued(k)
    BY DEF Ingress!Active
  <2>2. aborted' \subseteq {k \in Ingress!Keys : call[k] # "none"}
    BY <1>2 DEF Ingress!Shutdown, Ingress!Active, IInv, Ingress!TypeOK
  <2>3. recovery' \in BOOLEAN /\ process' \in {"down", "up", "closed"} /\ troubles' \in 0..MaxTroubles
    <3>1. troubles < MaxTroubles /\ troubles' = troubles + 1 /\ recovery' = FALSE /\ process' = "closed"
      BY <1>2 DEF Ingress!Shutdown, Ingress!Fault
    <3>2. troubles' \in 0..MaxTroubles
      BY <3>1 DEF Declarations, IInv, Ingress!TypeOK
    <3>3. QED
      BY <3>1, <3>2
  <2>4. QED
    BY <1>2, <2>1, <2>2, <2>3, ReviewSound DEF Ingress!Shutdown
<1>3. CASE Ingress!Exit
  <2>1. /\ call' = [k \in Ingress!Keys |-> "none"] /\ aborted' = {} /\ recovery' = FALSE /\ process' = "down"
        /\ troubles' \in 0..MaxTroubles
        /\ UNCHANGED <<source, watch, checkpoint, delivery, claims, job, due>>
    BY <1>3 DEF Ingress!Exit, Ingress!Gone, Declarations, IInv, Ingress!TypeOK
  <2>2. QED
    BY <2>1 DEF IInv, Ingress!TypeOK, ClaimsTrue, DueTrue, Ingress!SettledTrulyStep
<1>4. QED
  BY <1>1, <1>2, <1>3

(* Every step keeps the invariant and what is settled. *)
LEMMA IngressStepSound ==
  ASSUME Declarations, IInv, [Ingress!Next]_Ingress!vars PROVE IInv' /\ [Ingress!SettledTrulyStep]_Ingress!vars
<1>1. CASE Ingress!ProcessNext
  BY <1>1, StartSound, ProcessSound DEF Ingress!ProcessNext
<1>2. CASE Ingress!RequestNext
  BY <1>2, DeclareSound, IngestSound, HeartbeatSound DEF Ingress!RequestNext
<1>3. CASE \E k \in Ingress!Keys : Ingress!DispatchNext(k)
  BY <1>3, DispatchNextSound
<1>4. CASE UNCHANGED Ingress!vars
  BY <1>4 DEF Ingress!vars, Ingress!dispatchVars, IInv, Ingress!TypeOK, ClaimsTrue, DueTrue
<1>5. QED
  BY <1>1, <1>2, <1>3, <1>4 DEF Ingress!Next

LEMMA IngressInvHolds == ASSUME Declarations PROVE Ingress!Spec => []IInv
<1>1. Ingress!Init => IInv
  BY IngressInit
<1>2. IInv /\ [Ingress!Next]_Ingress!vars => IInv'
  BY IngressStepSound
<1>3. QED
  BY <1>1, <1>2, PTL DEF Ingress!Spec

(* Rows and memory keep their shapes (event-ingress.ts initialize, #active). *)
THEOREM IngressTypesHold == ASSUME Declarations PROVE Ingress!Spec => []Ingress!TypeOK
<1>1. IInv => Ingress!TypeOK
  BY DEF IInv
<1>2. QED
  BY <1>1, IngressInvHolds, PTL

(* DeliveredOnce (event-ingress.ts ingest, heartbeat, persistCandidate,         *)
(* claimDelivery): through crashes at any point, no trigger that the cursor or a *)
(* checkpoint has passed is lost, and none is claimed twice or has a job unclaimed. *)
THEOREM DeliveredOnceHolds == ASSUME Declarations PROVE Ingress!Spec => []Ingress!DeliveredOnce
<1>1. IInv => Ingress!DeliveredOnce
  BY DEF IInv, ClaimsTrue, DueTrue, Ingress!DeliveredOnce
<1>2. QED
  BY <1>1, IngressInvHolds, PTL

(* SettledTruly (event-ingress.ts settleDelivery, reconcileExpiredDispatches,   *)
(* shutdown): what is settled stays, and tells the truth about its job.          *)
THEOREM SettledTrulyHolds == ASSUME Declarations PROVE Ingress!Spec => Ingress!SettledTruly
<1>1. IInv /\ [Ingress!Next]_Ingress!vars => [Ingress!SettledTrulyStep]_Ingress!vars
  BY IngressStepSound
<1>2. QED
  BY <1>1, IngressInvHolds, PTL DEF Ingress!Spec, Ingress!SettledTruly

---------------------------------------------------------------------------
(* The cron schedule *)

(* The calendar: a plan's occurrences are instants of the clock. *)
Calendar ==
  /\ Plans # {} /\ MaxClock \in Nat \ {0} /\ MaxChanges \in Nat /\ MaxTroubles \in Nat
  /\ Occurs \in [Plans -> SUBSET Cron!Instants]

CalendarInstants == UNION {Occurs[p] : p \in Plans}

Dispatches == [of : Cron!CronKeys, token : Nat, at : {"submit", "acknowledge", "settle"}]

(* A dispatch that is past its submission has its job; what a schedule waits *)
(* for, and what is leased, is an occurrence.                                *)
DispatchTrue ==
  /\ dispatch \subseteq Dispatches
  /\ \A d \in dispatch : d.at # "submit" => job[d.of] # "none"
RowsTrue ==
  \A c \in Crons : {row[c].next, row[c].lease} \subseteq {Cron!Never} \cup CalendarInstants

CronInv == Cron!TypeOK /\ DispatchTrue /\ RowsTrue /\ Cron!NoneLost

(* What is owed to the occurrence t of c, were r its row and at its planning. *)
Owed(c, r, at) ==
  r.status # "absent" =>
    \A t \in Occurs[r.plan] : at < t /\ (r.next = Cron!Never \/ t < r.next)
                                => job[<<c, t>>] # "none" \/ r.lease = t

(* A set of instants has a first one. *)
LEMMA FirstInstant ==
  ASSUME NEW S \in SUBSET Nat, S # {} PROVE \E u \in S : \A v \in S : u <= v
<1>1. PICK u \in S : \A v \in S : ~(<<v, u>> \in OpToRel(<, Nat))
  BY NatLessThanWellFounded, WFMin, Zenon
<1>2. ASSUME NEW v \in S PROVE u <= v
  <2>1. <<v, u>> \notin OpToRel(<, Nat)
    BY <1>1
  <2>2. ~(v < u)
    BY <2>1, Zenon DEF OpToRel
  <2>3. QED
    BY <2>2
<1>3. QED
  BY <1>2

(* nextCronWake(): the first occurrence after t, if there is one. *)
LEMMA NextAfterFirst ==
  ASSUME Calendar, NEW p \in Plans, NEW t \in Nat
  PROVE LET u == Cron!NextAfter(p, t) IN
          /\ u \in {Cron!Never} \cup Occurs[p]
          /\ u \in 0..MaxClock
          /\ u # Cron!Never => u > t
          /\ \A v \in Occurs[p] : v > t => u # Cron!Never /\ u <= v
<1> DEFINE later == {u \in Occurs[p] : u > t}
           u == Cron!NextAfter(p, t)
<1>1. Occurs[p] \subseteq Cron!Instants /\ Cron!Instants \subseteq Nat \ {0}
      /\ Cron!Instants \subseteq 0..MaxClock
  BY DEF Calendar, Cron!Instants
<1>2. CASE later = {}
  <2>1. u = Cron!Never
    BY <1>2 DEF Cron!NextAfter
  <2>2. \A v \in Occurs[p] : ~(v > t)
    BY <1>2
  <2>3. QED
    BY <2>1, <2>2 DEF Calendar, Cron!Never
<1>3. CASE later # {}
  <2>1. \E x \in later : \A v \in later : x <= v
    BY <1>1, <1>3, FirstInstant
  <2>2. u = CHOOSE x \in later : \A v \in later : x <= v
    BY <1>3 DEF Cron!NextAfter
  <2> HIDE DEF u
  <2>3. u \in later /\ \A v \in later : u <= v
    BY <2>1, <2>2
  <2>4. u \in Occurs[p] /\ u > t /\ \A v \in Occurs[p] : v > t => u <= v
    BY <2>3
  <2>5. QED
    BY <1>1, <2>4 DEF Cron!Never, u
<1>4. QED
  BY <1>2, <1>3

LEMMA OccurrenceKey ==
  ASSUME NEW c \in Crons, NEW p \in Plans, NEW t \in Occurs[p]
  PROVE <<c, t>> \in Cron!CronKeys /\ t \in CalendarInstants
  BY DEF Cron!CronKeys, CalendarInstants

(* NoneLost, row by row. *)
LEMMA OwedToAll ==
  ASSUME Cron!TypeOK PROVE Cron!NoneLost <=> \A c \in Crons : Owed(c, row[c], plannedAt[c])
  BY DEF Cron!NoneLost, Cron!Passed, Cron!Present, Owed

LEMMA CronInit == ASSUME Calendar, Cron!Init PROVE CronInv
<1>1. row \in [Crons -> Cron!RowType] /\ \A c \in Crons : row[c].status = "absent"
        /\ row[c].next = Cron!Never /\ row[c].lease = Cron!Never
  <2> DEFINE p == CHOOSE q \in Plans : TRUE
  <2>1. p \in Plans
    BY DEF Calendar
  <2> HIDE DEF p
  <2>2. Cron!Absent(p) \in Cron!RowType /\ Cron!Absent(p).status = "absent"
        /\ Cron!Absent(p).next = Cron!Never /\ Cron!Absent(p).lease = Cron!Never
    BY <2>1 DEF Calendar, Cron!Absent, Cron!RowType, Cron!NoRun, Cron!Never
  <2>3. row = [c \in Crons |-> Cron!Absent(p)]
    BY DEF Cron!Init, p
  <2>4. QED
    BY <2>2, <2>3
<1>2. Cron!TypeOK
  BY <1>1 DEF Calendar, Cron!Init, Cron!TypeOK, Cron!Instants, Cron!Never,
     Cron!Supervisor!JobsInit, Cron!Supervisor!JobStatus
<1>3. DispatchTrue /\ RowsTrue
  BY <1>1 DEF Cron!Init, DispatchTrue, RowsTrue
<1>4. Cron!NoneLost
  BY <1>1 DEF Cron!NoneLost, Cron!Present
<1>5. QED
  BY <1>2, <1>3, <1>4 DEF CronInv

(* A new row for c, which owes nothing. *)
LEMMA RowSet ==
  ASSUME Calendar, CronInv, NEW c \in Crons, NEW r \in Cron!RowType, row' = [row EXCEPT ![c] = r],
         {r.next, r.lease} \subseteq {Cron!Never} \cup CalendarInstants,
         plannedAt' \in [Crons -> 0..MaxClock], \A s \in Crons \ {c} : plannedAt'[s] = plannedAt[s],
         Owed(c, r, plannedAt'[c]), job' = job
  PROVE row' \in [Crons -> Cron!RowType] /\ RowsTrue' /\ Cron!NoneLost'
<1>1. \A s \in Crons : row'[s] = IF s = c THEN r ELSE row[s]
  BY DEF CronInv, Cron!TypeOK
<1>2. row' \in [Crons -> Cron!RowType]
  BY DEF CronInv, Cron!TypeOK
<1>3. RowsTrue'
  BY <1>1 DEF CronInv, RowsTrue
<1>4. \A s \in Crons : Owed(s, row[s], plannedAt[s])
  BY OwedToAll DEF CronInv
<1>5. ASSUME NEW s \in Crons PROVE Owed(s, row[s], plannedAt[s])'
  <2>1. CASE s = c
    <3>1. row'[s] = r
      BY <1>1, <2>1
    <3>2. QED
      BY <2>1, <3>1 DEF Owed
  <2>2. CASE s # c
    <3>1. row'[s] = row[s] /\ plannedAt'[s] = plannedAt[s]
      BY <1>1, <2>2
    <3>2. QED
      BY <1>4, <3>1 DEF Owed
  <2>3. QED
    BY <2>1, <2>2
<1>6. Cron!NoneLost'
  BY <1>5 DEF Cron!NoneLost, Cron!Passed, Cron!Present, Owed
<1>7. QED
  BY <1>2, <1>3, <1>6

(* What is recorded of a run, or that a lease has lapsed, settles no debt. *)
LEMMA OwedStill ==
  ASSUME CronInv, NEW c \in Crons, NEW r,
         r.status = "absent" \/ row[c].status # "absent",
         r.plan = row[c].plan, r.next = row[c].next, r.lease = row[c].lease
  PROVE Owed(c, r, plannedAt[c]) /\ {r.next, r.lease} \subseteq {Cron!Never} \cup CalendarInstants
<1>1. Owed(c, row[c], plannedAt[c])
  BY OwedToAll DEF CronInv
<1>2. QED
  BY <1>1 DEF Owed, CronInv, RowsTrue

(* Requests. *)
LEMMA CronRequest ==
  ASSUME Calendar, CronInv, NEW c \in Crons, Cron!RequestNext(c)
  PROVE CronInv' /\ Cron!OutcomeTrueStep
<1> USE DEF CronInv
<1>0. clock \in Nat /\ clock \in 0..MaxClock /\ row[c] \in Cron!RowType
  BY DEF Calendar, Cron!TypeOK, Cron!Instants
<1>1. ASSUME NEW r \in Cron!RowType, row' = [row EXCEPT ![c] = r],
             {r.next, r.lease} \subseteq {Cron!Never} \cup CalendarInstants,
             plannedAt' \in [Crons -> 0..MaxClock], \A s \in Crons \ {c} : plannedAt'[s] = plannedAt[s],
             Owed(c, r, plannedAt'[c]), Cron!Change, UNCHANGED <<dispatch, manual, job, clock, troubles, tokens>>,
             r.ran = row[c].ran \/ row[c].status = "absent" \/ r.status = "absent"
      PROVE CronInv' /\ Cron!OutcomeTrueStep
  <2>1. row' \in [Crons -> Cron!RowType] /\ RowsTrue' /\ Cron!NoneLost'
    BY <1>1, RowSet
  <2>2. changes' \in 0..MaxChanges
    BY <1>1 DEF Calendar, Cron!Change, Cron!TypeOK
  <2>3. Cron!TypeOK'
    BY <1>1, <2>1, <2>2 DEF Cron!TypeOK
  <2>4. \A s \in Crons : row'[s] = IF s = c THEN r ELSE row[s]
    BY <1>1 DEF Cron!TypeOK
  <2>5. Cron!OutcomeTrueStep
    BY <1>1, <2>4 DEF Cron!OutcomeTrueStep, Cron!Present
  <2>6. DispatchTrue'
    BY <1>1 DEF DispatchTrue
  <2>7. QED
    BY <2>1, <2>3, <2>5, <2>6
<1>2. ASSUME NEW p \in Plans, NEW status \in {"enabled", "disabled"}, Cron!Create(c, p, status)
      PROVE CronInv' /\ Cron!OutcomeTrueStep
  <2> DEFINE next == Cron!NextAfter(p, clock)
             r == [Cron!Absent(p) EXCEPT !.status = status, !.next = next]
  <2>1. next \in {Cron!Never} \cup CalendarInstants /\ next \in 0..MaxClock
        /\ \A v \in Occurs[p] : v > clock => next # Cron!Never /\ next <= v
    BY <1>0, NextAfterFirst DEF CalendarInstants
  <2>2. row' = [row EXCEPT ![c] = r]
    BY <1>2 DEF Cron!Create
  <2> HIDE DEF next
  <2>3. r \in Cron!RowType /\ r.plan = p /\ r.next = next /\ r.lease = Cron!Never
    <3>1. Cron!Absent(p) \in Cron!RowType /\ Cron!Absent(p).plan = p /\ Cron!Absent(p).lease = Cron!Never
      BY DEF Calendar, Cron!Absent, Cron!RowType, Cron!NoRun, Cron!Never
    <3>2. QED
      BY <2>1, <3>1 DEF Cron!RowType
  <2> HIDE DEF r
  <2>4. plannedAt' = [plannedAt EXCEPT ![c] = clock] /\ row[c].status = "absent"
    BY <1>2 DEF Cron!Create, Cron!Present
  <2>5. plannedAt'[c] = clock /\ plannedAt' \in [Crons -> 0..MaxClock]
        /\ \A s \in Crons \ {c} : plannedAt'[s] = plannedAt[s]
    BY <1>0, <2>4 DEF Cron!TypeOK
  <2>6. Occurs[p] \subseteq Nat /\ next \in Nat
    BY <2>1 DEF Calendar, Cron!Instants
  <2>7. Owed(c, r, plannedAt'[c])
    BY <1>0, <2>1, <2>3, <2>5, <2>6 DEF Owed
  <2>8. QED
    BY <1>1, <1>2, <2>1, <2>2, <2>3, <2>4, <2>5, <2>7 DEF Cron!Create
<1>3. ASSUME NEW p \in Plans, Cron!Replan(c, p) PROVE CronInv' /\ Cron!OutcomeTrueStep
  <2> DEFINE next == Cron!NextAfter(p, clock)
             r == [row[c] EXCEPT !.plan = p, !.next = next]
  <2>1. next \in {Cron!Never} \cup CalendarInstants /\ next \in 0..MaxClock
        /\ \A v \in Occurs[p] : v > clock => next # Cron!Never /\ next <= v
    BY <1>0, NextAfterFirst DEF CalendarInstants
  <2> HIDE DEF next
  <2>2. row' = [row EXCEPT ![c] = r]
    BY <1>0, <1>3 DEF Cron!Replan, next, Cron!TypeOK, Cron!RowType
  <2>3. r \in Cron!RowType /\ r.plan = p /\ r.next = next /\ r.lease = row[c].lease /\ r.ran = row[c].ran
    BY <1>0, <2>1 DEF Cron!RowType
  <2> HIDE DEF r
  <2>4. plannedAt' = [plannedAt EXCEPT ![c] = clock]
    BY <1>3 DEF Cron!Replan
  <2>5. plannedAt'[c] = clock /\ plannedAt' \in [Crons -> 0..MaxClock]
        /\ \A s \in Crons \ {c} : plannedAt'[s] = plannedAt[s]
    BY <1>0, <2>4 DEF Cron!TypeOK
  <2>6. Occurs[p] \subseteq Nat /\ next \in Nat
    BY <2>1 DEF Calendar, Cron!Instants
  <2>7. Owed(c, r, plannedAt'[c])
    BY <1>0, <2>1, <2>3, <2>5, <2>6 DEF Owed
  <2>8. {r.next, r.lease} \subseteq {Cron!Never} \cup CalendarInstants
    BY <2>1, <2>3 DEF RowsTrue
  <2>9. QED
    BY <1>1, <1>3, <2>2, <2>3, <2>5, <2>7, <2>8 DEF Cron!Replan
<1>4. ASSUME NEW status \in {"enabled", "disabled"}, Cron!Enable(c, status)
      PROVE CronInv' /\ Cron!OutcomeTrueStep
  <2> DEFINE r == [row[c] EXCEPT !.status = status]
  <2>1. row' = [row EXCEPT ![c] = r] /\ row[c].status # "absent"
    BY <1>0, <1>4 DEF Cron!Enable, Cron!TypeOK, Cron!RowType, Cron!Present
  <2>2. /\ r \in Cron!RowType /\ r.plan = row[c].plan /\ r.next = row[c].next
        /\ r.lease = row[c].lease /\ r.ran = row[c].ran
    BY <1>0 DEF Cron!RowType
  <2> HIDE DEF r
  <2>3. plannedAt' = plannedAt /\ plannedAt \in [Crons -> 0..MaxClock]
    BY <1>4 DEF Cron!Enable, Cron!TypeOK
  <2>4. Owed(c, r, plannedAt[c]) /\ {r.next, r.lease} \subseteq {Cron!Never} \cup CalendarInstants
    BY <2>1, <2>2, OwedStill
  <2>5. QED
    BY <1>1, <1>4, <2>1, <2>2, <2>3, <2>4 DEF Cron!Enable
<1>5. CASE Cron!Remove(c)
  <2> DEFINE r == [status |-> "absent", plan |-> row[c].plan, next |-> Cron!Never,
      lease |-> Cron!Never,
                   lapsed |-> FALSE, ran |-> Cron!NoRun]
  <2>1. row' = [row EXCEPT ![c] = r] /\ r.status = "absent"
    BY <1>5 DEF Cron!Remove, Cron!Absent
  <2>2. r \in Cron!RowType
    BY <1>0 DEF Calendar, Cron!RowType, Cron!Never, Cron!NoRun
  <2>3. plannedAt' = plannedAt /\ plannedAt \in [Crons -> 0..MaxClock]
    BY <1>5 DEF Cron!Remove, Cron!TypeOK
  <2>4. Owed(c, r, plannedAt'[c])
    BY DEF Owed
  <2>5. QED
    BY <1>1, <1>5, <2>1, <2>2, <2>3, <2>4 DEF Cron!Remove
<1>6. CASE Cron!RunStart(c)
  <2>1. /\ manual' = manual \cup {<<c, clock>>} /\ changes < MaxChanges /\ changes' = changes + 1
        /\ UNCHANGED <<row, dispatch, job, clock, troubles, tokens, plannedAt>>
    BY <1>6 DEF Cron!RunStart, Cron!Change
  <2>2. changes' \in 0..MaxChanges /\ manual' \subseteq Crons \X Cron!Instants
    BY <2>1 DEF Calendar, Cron!TypeOK
  <2>3. Cron!TypeOK'
    BY <2>1, <2>2 DEF Cron!TypeOK
  <2>4. DispatchTrue' /\ RowsTrue' /\ Cron!NoneLost'
    BY <2>1 DEF DispatchTrue, RowsTrue, Cron!NoneLost, Cron!Passed, Cron!Present
  <2>5. QED
    BY <2>1, <2>3, <2>4 DEF Cron!OutcomeTrueStep
<1>7. QED
  BY <1>2, <1>3, <1>4, <1>5, <1>6 DEF Cron!RequestNext

(* A claim: the schedule moves past one occurrence, which is now leased. *)
LEMMA CronClaim ==
  ASSUME Calendar, CronInv, NEW c \in Crons, Cron!Claim(c) PROVE CronInv' /\ Cron!OutcomeTrueStep
<1> USE DEF CronInv
<1> DEFINE t == Cron!ToRun(c)
           next == Cron!Following(c)
           r == [row[c] EXCEPT !.lease = t, !.lapsed = FALSE, !.next = next]
<1>0. row[c] \in Cron!RowType /\ row[c].plan \in Plans /\ row[c].next \in 0..MaxClock
      /\ row[c].lease \in 0..MaxClock /\ row[c].status = "enabled"
      /\ {row[c].next, row[c].lease} \subseteq {Cron!Never} \cup CalendarInstants
      /\ Owed(c, row[c], plannedAt[c])
  BY OwedToAll DEF Cron!TypeOK, Cron!RowType, RowsTrue, Cron!Claim, Cron!Due
<1>1. t \in CalendarInstants /\ t \in 0..MaxClock
  BY <1>0 DEF Cron!Claim, Cron!Due, Cron!ToRun, Cron!Never
<1>2. next \in 0..MaxClock /\ next \in {Cron!Never} \cup CalendarInstants
  <2>1. CASE row[c].lease # Cron!Never
    BY <1>0, <2>1 DEF Cron!Following
  <2>2. CASE row[c].lease = Cron!Never
    <3>1. next = Cron!NextAfter(row[c].plan, row[c].next)
      BY <2>2 DEF Cron!Following
    <3>2. QED
      BY <1>0, <3>1, NextAfterFirst DEF Calendar, CalendarInstants
  <2>3. QED
    BY <2>1, <2>2
<1>3. /\ r \in Cron!RowType /\ r.plan = row[c].plan /\ r.status = row[c].status
      /\ r.next = next /\ r.lease = t /\ r.ran = row[c].ran
      /\ row' = [row EXCEPT ![c] = r]
  <2>1. /\ r \in Cron!RowType /\ r.plan = row[c].plan /\ r.status = row[c].status
        /\ r.next = next /\ r.lease = t /\ r.ran = row[c].ran
    BY <1>0, <1>1, <1>2 DEF Cron!RowType
  <2>2. row' = [row EXCEPT ![c].lease = t, ![c].lapsed = FALSE, ![c].next = next]
    BY DEF Cron!Claim
  <2>3. row' = [row EXCEPT ![c] = r]
    BY <1>0, <2>2 DEF Cron!TypeOK, Cron!RowType
  <2>4. QED
    BY <2>1, <2>3
<1>4. Owed(c, r, plannedAt[c])
  <2>1. CASE row[c].lease # Cron!Never
    <3>1. t = row[c].lease /\ next = row[c].next
      BY <2>1 DEF Cron!ToRun, Cron!Following
    <3> HIDE DEF r, t, next
    <3>2. QED
      BY <1>0, <1>3, <3>1, OwedStill
  <2>2. CASE row[c].lease = Cron!Never
    <3>1. t = row[c].next /\ next = Cron!NextAfter(row[c].plan, row[c].next)
          /\ row[c].next # Cron!Never
      BY <2>2 DEF Cron!ToRun, Cron!Following, Cron!Claim, Cron!Due
    <3>2. \A v \in Occurs[row[c].plan] : v > t => next # Cron!Never /\ next <= v
      BY <1>0, <3>1, NextAfterFirst
    <3> HIDE DEF r, t, next
    <3>3. ASSUME NEW u \in Occurs[row[c].plan], plannedAt[c] < u, next = Cron!Never \/ u < next
          PROVE job[<<c, u>>] # "none" \/ t = u
      <4>1. u \in Nat \ {0} /\ t \in Nat /\ next \in Nat
        BY <1>0, <1>1, <1>2 DEF Calendar, Cron!Instants
      <4>2. ~(u > t)
        BY <3>2, <3>3, <4>1
      <4>3. CASE u < t
        BY <1>0, <2>2, <3>1, <3>3, <4>1, <4>3 DEF Owed, Cron!Never
      <4>4. QED
        BY <4>1, <4>2, <4>3
    <3>4. QED
      BY <1>3, <3>3 DEF Owed
  <2>3. QED
    BY <2>1, <2>2
<1> DEFINE o == <<c, t>>
<1>5. o \in Cron!CronKeys
  BY <1>1 DEF Cron!CronKeys, CalendarInstants
<1>6. /\ tokens' = [tokens EXCEPT ![o] = tokens[o] + 1]
      /\ dispatch' = dispatch \cup {[of |-> o, token |-> tokens[o] + 1, at |-> "submit"]}
      /\ UNCHANGED <<manual, job, clock, changes, troubles, plannedAt>>
  BY DEF Cron!Claim
<1> HIDE DEF r, t, next, o
<1>7. tokens' \in [Cron!CronKeys -> Nat] /\ tokens[o] + 1 \in Nat
  BY <1>5, <1>6 DEF Cron!TypeOK
<1>8. DispatchTrue'
  BY <1>5, <1>6, <1>7 DEF DispatchTrue, Dispatches
<1>9. row' \in [Crons -> Cron!RowType] /\ RowsTrue' /\ Cron!NoneLost'
  <2>1. plannedAt' \in [Crons -> 0..MaxClock] /\ \A s \in Crons \ {c} : plannedAt'[s] = plannedAt[s]
    BY <1>6 DEF Cron!TypeOK
  <2>2. QED
    BY <1>1, <1>2, <1>3, <1>4, <1>6, <2>1, RowSet
<1>10. Cron!TypeOK'
  BY <1>6, <1>7, <1>8, <1>9 DEF Cron!TypeOK, DispatchTrue, Dispatches
<1>11. \A s \in Crons : row'[s].ran = row[s].ran
  BY <1>3 DEF Cron!TypeOK
<1>12. QED
  BY <1>8, <1>9, <1>10, <1>11 DEF Cron!OutcomeTrueStep

(* What leaves the rows but for the run they record, their leases that lapse  *)
(* and the lease of an occurrence that has its job.                           *)
LEMMA RowsSimilar ==
  ASSUME Calendar, CronInv, row' \in [Crons -> Cron!RowType], plannedAt' = plannedAt,
         \A o \in Cron!CronKeys : job[o] # "none" => job'[o] # "none",
         \A c \in Crons :
           /\ row'[c].status = row[c].status /\ row'[c].plan = row[c].plan
           /\ row'[c].next = row[c].next
           /\ \/ row'[c].lease = row[c].lease
              \/ row'[c].lease = Cron!Never /\ job[<<c, row[c].lease>>] # "none"
  PROVE RowsTrue' /\ Cron!NoneLost'
<1>1. RowsTrue'
  BY DEF CronInv, RowsTrue
<1>2. ASSUME NEW c \in Crons, row'[c].status # "absent", NEW t \in Occurs[row'[c].plan],
             plannedAt'[c] < t, row'[c].next = Cron!Never \/ t < row'[c].next
      PROVE job'[<<c, t>>] # "none" \/ row'[c].lease = t
  <2>1. job[<<c, t>>] # "none" \/ row[c].lease = t
    BY <1>2, OwedToAll DEF CronInv, Owed
  <2>2. <<c, t>> \in Cron!CronKeys
    <3>1. row[c].plan \in Plans /\ t \in Occurs[row[c].plan]
      BY <1>2 DEF CronInv, Cron!TypeOK, Cron!RowType
    <3>2. QED
      BY <3>1, OccurrenceKey
  <2>3. CASE job[<<c, t>>] # "none"
    BY <2>2, <2>3
  <2>4. CASE row[c].lease = t /\ row'[c].lease # t
    BY <2>2, <2>4
  <2>5. QED
    BY <2>1, <2>3, <2>4
<1>3. Cron!NoneLost'
  BY <1>2 DEF Cron!NoneLost, Cron!Passed, Cron!Present
<1>4. QED
  BY <1>1, <1>3

(* A dispatch: submitted, acknowledged, settled or given up. *)
LEMMA CronDispatch ==
  ASSUME Calendar, CronInv, NEW d \in dispatch, Cron!DispatchNext(d) PROVE CronInv' /\ Cron!OutcomeTrueStep
<1> USE DEF CronInv
<1> DEFINE c == d.of[1]
<1>0. /\ d \in Dispatches /\ d.of \in Cron!CronKeys /\ d.of = <<c, d.of[2]>> /\ c \in Crons
      /\ row[c] \in Cron!RowType /\ d.of[2] \in CalendarInstants
  BY DEF DispatchTrue, Dispatches, Cron!CronKeys, Cron!TypeOK, CalendarInstants
<1>1. d.of[2] \in 1..MaxClock
  BY <1>0 DEF Calendar, CalendarInstants, Cron!Instants
<1>2. UNCHANGED <<manual, clock, changes, tokens, plannedAt>> /\ (UNCHANGED troubles \/ Cron!Fault)
  BY DEF Cron!DispatchNext, Cron!Submit, Cron!SubmitFails, Cron!Acknowledge, Cron!Settle,
     Cron!GiveUp
<1>3. troubles' \in 0..MaxTroubles
  BY <1>2 DEF Calendar, Cron!Fault, Cron!TypeOK
<1>4. ASSUME row' \in [Crons -> Cron!RowType], RowsTrue', Cron!NoneLost', DispatchTrue',
             job' \in [Cron!CronKeys -> Cron!Supervisor!JobStatus], Cron!OutcomeTrueStep
      PROVE CronInv' /\ Cron!OutcomeTrueStep
  BY <1>2, <1>3, <1>4 DEF Cron!TypeOK, DispatchTrue, Dispatches
<1>5. CASE Cron!Submit(d)
  <2> DEFINE e == [d EXCEPT !.at = "acknowledge"]
  <2>1. /\ job' = [job EXCEPT ![d.of] = IF job[d.of] = "none" THEN "waiting" ELSE job[d.of]]
        /\ dispatch' = (dispatch \ {d}) \cup {e} /\ row' = row
    BY <1>5 DEF Cron!Submit, Cron!Step
  <2>2. e \in Dispatches /\ e.of = d.of
    BY <1>0 DEF Dispatches
  <2> HIDE DEF e
  <2>3. job' \in [Cron!CronKeys -> Cron!Supervisor!JobStatus]
    BY <2>1 DEF Cron!TypeOK, Cron!Supervisor!JobStatus
  <2>4. job'[d.of] # "none" /\ \A o \in Cron!CronKeys : job[o] # "none" => job'[o] # "none"
    BY <1>0, <2>1 DEF Cron!TypeOK
  <2>5. DispatchTrue'
    BY <2>1, <2>2, <2>4 DEF DispatchTrue, Dispatches
  <2>6. RowsTrue' /\ Cron!NoneLost' /\ row' \in [Crons -> Cron!RowType]
    BY <1>2, <2>1, <2>4, RowsSimilar DEF Cron!TypeOK
  <2>7. Cron!OutcomeTrueStep
    BY <2>1 DEF Cron!OutcomeTrueStep
  <2>8. QED
    BY <1>4, <2>3, <2>5, <2>6, <2>7
<1>6. CASE Cron!SubmitFails(d) \/ Cron!GiveUp(d)
  <2>1. dispatch' = dispatch \ {d} /\ UNCHANGED <<row, job>>
    BY <1>6 DEF Cron!SubmitFails, Cron!GiveUp, Cron!Stop
  <2>2. DispatchTrue'
    BY <2>1 DEF DispatchTrue
  <2>3. RowsTrue' /\ Cron!NoneLost' /\ row' \in [Crons -> Cron!RowType]
    BY <1>2, <2>1, RowsSimilar DEF Cron!TypeOK
  <2>4. QED
    BY <1>4, <2>1, <2>2, <2>3 DEF Cron!OutcomeTrueStep, Cron!TypeOK
<1>7. CASE Cron!Acknowledge(d)
  <2>1. /\ d.at = "acknowledge" /\ job' = job
        /\ row' = IF Cron!Holds(d) THEN [row EXCEPT ![c].lease = Cron!Never, ![c].lapsed = FALSE] ELSE row
        /\ dispatch' = (dispatch \ {d}) \cup {[d EXCEPT !.at = "settle"]} \/ dispatch' = dispatch \ {d}
    BY <1>7 DEF Cron!Acknowledge, Cron!Step, Cron!Stop
  <2>2. job[d.of] # "none"
    BY <2>1 DEF DispatchTrue
  <2>3. [d EXCEPT !.at = "settle"] \in Dispatches /\ [d EXCEPT !.at = "settle"].of = d.of
    BY <1>0 DEF Dispatches
  <2>4. DispatchTrue'
    BY <2>1, <2>2, <2>3 DEF DispatchTrue
  <2>5. /\ row' \in [Crons -> Cron!RowType]
        /\ \A s \in Crons :
             /\ row'[s].status = row[s].status /\ row'[s].plan = row[s].plan
             /\ row'[s].next = row[s].next /\ row'[s].ran = row[s].ran
             /\ \/ row'[s].lease = row[s].lease
                \/ row'[s].lease = Cron!Never /\ s = c /\ row[s].lease = d.of[2]
    <3>1. CASE Cron!Holds(d)
      <4> DEFINE r == [row[c] EXCEPT !.lease = Cron!Never, !.lapsed = FALSE]
      <4>1. row' = [row EXCEPT ![c] = r]
        BY <1>0, <2>1, <3>1 DEF Cron!TypeOK, Cron!RowType
      <4>2. r \in Cron!RowType /\ r.status = row[c].status /\ r.plan = row[c].plan
            /\ r.next = row[c].next /\ r.ran = row[c].ran /\ r.lease = Cron!Never
        <5>1. Cron!Never \in 0..MaxClock
          BY DEF Calendar, Cron!Never
        <5>2. QED
          BY <1>0, <5>1 DEF Cron!RowType
      <4>3. row[c].lease = d.of[2]
        BY <3>1 DEF Cron!Holds
      <4> HIDE DEF r
      <4>4. QED
        BY <1>0, <4>1, <4>2, <4>3 DEF Cron!TypeOK
    <3>2. CASE ~Cron!Holds(d)
      BY <2>1, <3>2 DEF Cron!TypeOK
    <3>3. QED
      BY <3>1, <3>2
  <2>6. RowsTrue' /\ Cron!NoneLost'
    BY <1>0, <1>2, <2>1, <2>2, <2>5, RowsSimilar
  <2>7. QED
    BY <1>4, <2>1, <2>4, <2>5, <2>6 DEF Cron!OutcomeTrueStep, Cron!TypeOK
<1>8. CASE Cron!Settle(d)
  <2> DEFINE ran == [at |-> d.of[2], ok |-> job[d.of] = "completed"]
             r == [row[c] EXCEPT !.ran = ran]
  <2>1. /\ dispatch' = dispatch \ {d} /\ job' = job /\ job[d.of] \in Cron!Supervisor!Ends
        /\ row' = IF Cron!Present(c) /\ Cron!Newer(c, d.of[2]) THEN [row EXCEPT ![c].ran = ran] ELSE row
    BY <1>8 DEF Cron!Settle, Cron!Stop
  <2>2. DispatchTrue'
    BY <2>1 DEF DispatchTrue
  <2>3. CASE ~(Cron!Present(c) /\ Cron!Newer(c, d.of[2]))
    <3>1. row' = row
      BY <2>1, <2>3
    <3>2. RowsTrue' /\ Cron!NoneLost' /\ row' \in [Crons -> Cron!RowType]
      BY <1>2, <2>1, <3>1, RowsSimilar DEF Cron!TypeOK
    <3>3. QED
      BY <1>4, <2>1, <2>2, <3>1, <3>2 DEF Cron!OutcomeTrueStep, Cron!TypeOK
  <2>4. CASE Cron!Present(c) /\ Cron!Newer(c, d.of[2])
    <3>1. ran \in [at : 0..MaxClock, ok : BOOLEAN] /\ ran.at = d.of[2] /\ ran.ok = (job[d.of] = "completed")
      BY <1>1 DEF Calendar
    <3>2. row' = [row EXCEPT ![c] = r]
      BY <1>0, <2>1, <2>4 DEF Cron!TypeOK, Cron!RowType
    <3> HIDE DEF ran
    <3>3. r \in Cron!RowType /\ r.status = row[c].status /\ r.plan = row[c].plan
          /\ r.next = row[c].next /\ r.ran = ran /\ r.lease = row[c].lease
      BY <1>0, <3>1 DEF Cron!RowType
    <3> HIDE DEF r
    <3>4. row' \in [Crons -> Cron!RowType] /\ \A s \in Crons : row'[s] = IF s = c THEN r ELSE row[s]
      BY <3>2, <3>3 DEF Cron!TypeOK
    <3>5. RowsTrue' /\ Cron!NoneLost'
      BY <1>2, <2>1, <3>3, <3>4, RowsSimilar
    <3>6. row[c].ran.at <= ran.at
      BY <2>4, <3>1 DEF Cron!Newer
    <3>7. Cron!OutcomeTrueStep
      BY <1>0, <2>1, <3>1, <3>3, <3>4, <3>6 DEF Cron!OutcomeTrueStep
    <3>8. QED
      BY <1>4, <2>1, <2>2, <3>4, <3>5, <3>7 DEF Cron!TypeOK
  <2>5. QED
    BY <2>3, <2>4
<1>9. QED
  BY <1>5, <1>6, <1>7, <1>8 DEF Cron!DispatchNext

(* What the clock, a manual run, a stall, a crash and the end of a job do. *)
LEMMA CronRest ==
  ASSUME Calendar, CronInv,
         \/ \E c \in Crons : Cron!LeaseLapses(c)
         \/ \E r \in manual, ok \in BOOLEAN : Cron!RunEnd(r, ok)
         \/ \E o \in Cron!CronKeys : Cron!JobEnds(o)
         \/ Cron!Crash \/ Cron!Tick
  PROVE CronInv' /\ Cron!OutcomeTrueStep
<1> USE DEF CronInv
<1>1. ASSUME NEW c \in Crons, Cron!LeaseLapses(c) PROVE CronInv' /\ Cron!OutcomeTrueStep
  <2> DEFINE r == [row[c] EXCEPT !.lapsed = TRUE]
  <2>1. /\ row' = [row EXCEPT ![c].lapsed = TRUE]
        /\ UNCHANGED <<dispatch, manual, job, clock, changes, tokens, plannedAt>>
        /\ UNCHANGED troubles \/ Cron!Fault
    BY <1>1 DEF Cron!LeaseLapses
  <2>2. row[c] \in Cron!RowType
    BY DEF Cron!TypeOK
  <2>3. row' = [row EXCEPT ![c] = r]
    BY <2>1, <2>2 DEF Cron!TypeOK, Cron!RowType
  <2>4. r \in Cron!RowType /\ r.status = row[c].status /\ r.plan = row[c].plan
        /\ r.next = row[c].next /\ r.ran = row[c].ran /\ r.lease = row[c].lease
    BY <2>2 DEF Cron!RowType
  <2> HIDE DEF r
  <2>5. row' \in [Crons -> Cron!RowType] /\ \A s \in Crons : row'[s] = IF s = c THEN r ELSE row[s]
    BY <2>3, <2>4 DEF Cron!TypeOK
  <2>6. RowsTrue' /\ Cron!NoneLost'
    BY <2>1, <2>4, <2>5, RowsSimilar
  <2>7. troubles' \in 0..MaxTroubles
    BY <2>1 DEF Calendar, Cron!Fault, Cron!TypeOK
  <2>8. Cron!TypeOK' /\ DispatchTrue'
    BY <2>1, <2>5, <2>7 DEF Cron!TypeOK, DispatchTrue
  <2>9. Cron!OutcomeTrueStep
    BY <2>4, <2>5 DEF Cron!OutcomeTrueStep
  <2>10. QED
    BY <2>6, <2>8, <2>9
<1>2. ASSUME NEW x \in manual, NEW ok \in BOOLEAN, Cron!RunEnd(x, ok) PROVE CronInv' /\ Cron!OutcomeTrueStep
  <2> DEFINE c == x[1]
             ran == [at |-> x[2], ok |-> ok]
             r == [row[c] EXCEPT !.ran = ran]
  <2>1. /\ manual' = manual \ {x} /\ UNCHANGED <<dispatch, job, clock, changes, troubles, tokens, plannedAt>>
        /\ row' = IF Cron!Present(c) THEN [row EXCEPT ![c].ran = ran] ELSE row
    BY <1>2 DEF Cron!RunEnd
  <2>2. c \in Crons /\ row[c] \in Cron!RowType /\ x[2] \in 0..MaxClock
    BY DEF Cron!TypeOK, Cron!Instants, Calendar
  <2>3. ran \in [at : 0..MaxClock, ok : BOOLEAN]
    BY <2>2
  <2> HIDE DEF ran, c
  <2>4. r \in Cron!RowType /\ r.status = row[c].status /\ r.plan = row[c].plan
        /\ r.next = row[c].next /\ r.lease = row[c].lease
    BY <2>2, <2>3 DEF Cron!RowType
  <2>5. row' = row \/ row' = [row EXCEPT ![c] = r]
    BY <2>1, <2>2 DEF Cron!TypeOK, Cron!RowType
  <2> HIDE DEF r
  <2>6. row' \in [Crons -> Cron!RowType] /\ \A s \in Crons : row'[s] = row[s] \/ (s = c /\ row'[s] = r)
    BY <2>4, <2>5 DEF Cron!TypeOK
  <2>7. RowsTrue' /\ Cron!NoneLost'
    BY <2>1, <2>4, <2>6, RowsSimilar
  <2>8. Cron!TypeOK' /\ DispatchTrue'
    BY <2>1, <2>6 DEF Cron!TypeOK, DispatchTrue
  <2>9. manual' # manual
    BY <2>1
  <2>10. QED
    BY <2>7, <2>8, <2>9 DEF Cron!OutcomeTrueStep
<1>3. ASSUME NEW o \in Cron!CronKeys, Cron!JobEnds(o) PROVE CronInv' /\ Cron!OutcomeTrueStep
  <2>1. /\ job[o] # "none" /\ job'[o] \in Cron!Supervisor!Ends
        /\ \E status \in Cron!Supervisor!Moves(job[o]) : job' = [job EXCEPT ![o] = status]
        /\ UNCHANGED <<row, dispatch, manual, clock, changes, troubles, tokens, plannedAt>>
    BY <1>3 DEF Cron!JobEnds, Cron!Supervisor!Move
  <2>2. job'[o] # "none"
    BY <2>1 DEF Cron!Supervisor!Ends
  <2>3. job' \in [Cron!CronKeys -> Cron!Supervisor!JobStatus]
        /\ \A k \in Cron!CronKeys : job[k] # "none" => job'[k] # "none"
    BY <2>1, <2>2 DEF Cron!TypeOK, Cron!Supervisor!JobStatus
  <2>4. RowsTrue' /\ Cron!NoneLost'
    BY <2>1, <2>3, RowsSimilar DEF Cron!TypeOK
  <2>5. Cron!TypeOK'
    BY <2>1, <2>3 DEF Cron!TypeOK
  <2>6. DispatchTrue'
    BY <2>1, <2>3 DEF DispatchTrue, Dispatches
  <2>7. QED
    BY <2>1, <2>4, <2>5, <2>6 DEF Cron!OutcomeTrueStep
<1>4. CASE Cron!Crash
  <2>1. /\ dispatch' = {} /\ manual' = {} /\ UNCHANGED <<row, job, clock, changes, tokens, plannedAt>>
        /\ troubles < MaxTroubles /\ troubles' = troubles + 1
    BY <1>4 DEF Cron!Crash, Cron!Fault
  <2>2. troubles' \in 0..MaxTroubles
    BY <2>1 DEF Calendar, Cron!TypeOK
  <2>3. RowsTrue' /\ Cron!NoneLost'
    BY <2>1, RowsSimilar DEF Cron!TypeOK
  <2>4. Cron!TypeOK' /\ DispatchTrue'
    BY <2>1, <2>2 DEF Cron!TypeOK, DispatchTrue
  <2>5. QED
    BY <2>1, <2>3, <2>4 DEF Cron!OutcomeTrueStep
<1>5. CASE Cron!Tick
  <2>1. /\ clock < MaxClock /\ clock' = clock + 1
        /\ UNCHANGED <<row, dispatch, manual, job, changes, troubles, tokens, plannedAt>>
    BY <1>5 DEF Cron!Tick
  <2>2. clock' \in Cron!Instants
    BY <2>1 DEF Calendar, Cron!TypeOK, Cron!Instants
  <2>3. RowsTrue' /\ Cron!NoneLost'
    BY <2>1, RowsSimilar DEF Cron!TypeOK
  <2>4. Cron!TypeOK' /\ DispatchTrue'
    BY <2>1, <2>2 DEF Cron!TypeOK, DispatchTrue
  <2>5. QED
    BY <2>1, <2>3, <2>4 DEF Cron!OutcomeTrueStep
<1>6. QED
  BY <1>1, <1>2, <1>3, <1>4, <1>5

LEMMA CronStepSound ==
  ASSUME Calendar, CronInv, [Cron!Next]_Cron!vars PROVE CronInv' /\ [Cron!OutcomeTrueStep]_Cron!vars
<1>1. CASE Cron!Next
  BY <1>1, CronRequest, CronClaim, CronDispatch, CronRest DEF Cron!Next
<1>2. CASE UNCHANGED Cron!vars
  BY <1>2 DEF Cron!vars, CronInv, Cron!TypeOK, DispatchTrue, RowsTrue, Cron!NoneLost,
     Cron!Passed, Cron!Present
<1>3. QED
  BY <1>1, <1>2

LEMMA CronInvHolds == ASSUME Calendar PROVE Cron!Spec => []CronInv
<1>1. Cron!Init => CronInv
  BY CronInit
<1>2. CronInv /\ [Cron!Next]_Cron!vars => CronInv'
  BY CronStepSound
<1>3. QED
  BY <1>1, <1>2, PTL DEF Cron!Spec

(* NoneLost (cron.ts claimDueOccurrence, acknowledgeSubmitted): an occurrence that *)
(* a schedule has moved past has its job, or its lease, through crashes, failed    *)
(* submissions, takeovers of lapsed leases and changes of the plan.                *)
THEOREM NoneLostHolds == ASSUME Calendar PROVE Cron!Spec => []Cron!NoneLost
<1>1. CronInv => Cron!NoneLost
  BY DEF CronInv
<1>2. QED
  BY <1>1, CronInvHolds, PTL

(* OutcomeTrue (cron.ts recordOutcome, settleCronOccurrence): the outcome on record *)
(* is that of its occurrence's job, and no scheduled one replaces a later one.      *)
THEOREM OutcomeTrueHolds == ASSUME Calendar PROVE Cron!Spec => Cron!OutcomeTrue
<1>1. CronInv /\ [Cron!Next]_Cron!vars => [Cron!OutcomeTrueStep]_Cron!vars
  BY CronStepSound
<1>2. QED
  BY <1>1, CronInvHolds, PTL DEF Cron!Spec, Cron!OutcomeTrue

(* The file, the coroutines and the jobs keep their shapes (normalizeCronJob). *)
THEOREM CronTypesHold == ASSUME Calendar PROVE Cron!Spec => []Cron!TypeOK
<1>1. CronInv => Cron!TypeOK
  BY DEF CronInv
<1>2. QED
  BY <1>1, CronInvHolds, PTL
---------------------------------------------------------------------------
(* Side by side, as MCAutomation runs them: each is what its own           *)
(* specification says, while the others wait.                              *)

AutomationInv ==
  /\ part = "ingress" => IInv
  /\ part = "cron" => CronInv

LEMMA AutomationInit == ASSUME Declarations, Calendar PROVE SumInit => AutomationInv
<1>1. CASE part = "ingress"
  BY <1>1, IngressInit DEF SumInit, AutomationInv
<1>2. CASE part = "cron"
  BY <1>2, CronInit DEF SumInit, AutomationInv
<1>3. QED
  BY <1>1, <1>2 DEF AutomationInv

(* A step is one of the part, or leaves it alone. *)
LEMMA OnePart ==
  ASSUME [SumNext]_allVars
  PROVE  /\ part' = part
         /\ part = "ingress" => [Ingress!Next]_Ingress!vars
         /\ part = "cron" => [Cron!Next]_Cron!vars
<1>1. CASE UNCHANGED allVars
  BY <1>1 DEF allVars, shared, ofIngress, ofCron, Ingress!vars, Ingress!dispatchVars, Cron!vars
<1>2. CASE SumNext
  BY <1>2 DEF SumNext, InWorkflow, OfWorkflow, InIngress, InCron, InLanes
<1>3. QED
  BY <1>1, <1>2

LEMMA AutomationStep ==
  ASSUME Declarations, Calendar PROVE AutomationInv /\ [SumNext]_allVars => AutomationInv'
<1> SUFFICES ASSUME AutomationInv, [SumNext]_allVars PROVE AutomationInv'
  OBVIOUS
<1>1. CASE part = "ingress"
  BY <1>1, OnePart, IngressStepSound DEF AutomationInv
<1>2. CASE part = "cron"
  BY <1>2, OnePart, CronStepSound DEF AutomationInv
<1>3. QED
  BY <1>1, <1>2, OnePart DEF AutomationInv

(* No trigger is lost or dispatched twice, and what a schedule moved past was *)
(* submitted or is leased (DeliveredOnceHolds and NoneLostHolds).             *)
THEOREM NothingLostHolds == ASSUME Declarations, Calendar PROVE SumSpec => []NothingLost
<1>1. AutomationInv => NothingLost
  BY DEF AutomationInv, IInv, ClaimsTrue, DueTrue, CronInv, NothingLost, Ingress!DeliveredOnce
<1>2. QED
  BY <1>1, AutomationInit, AutomationStep, PTL DEF SumSpec

(* What is recorded of an occurrence is what became of its job, and nothing *)
(* older replaces it (SettledTrulyHolds and OutcomeTrueHolds).              *)
THEOREM OutcomesTrueHolds == ASSUME Declarations, Calendar PROVE SumSpec => OutcomesTrue
<1>1. AutomationInv /\ [SumNext]_allVars =>
        [/\ part = "ingress" => Ingress!SettledTrulyStep
         /\ part = "cron" => Cron!OutcomeTrueStep]_allVars
  <2> SUFFICES ASSUME AutomationInv, SumNext
               PROVE  \/ /\ part = "ingress" => Ingress!SettledTrulyStep
                         /\ part = "cron" => Cron!OutcomeTrueStep
                      \/ UNCHANGED allVars
    OBVIOUS
  <2>1. CASE part = "ingress"
    <3>1. [Ingress!SettledTrulyStep]_Ingress!vars
      BY <2>1, OnePart, IngressStepSound DEF AutomationInv
    <3>2. InIngress /\ UNCHANGED <<row, dispatch, manual, clock, changes, tokens, plannedAt>>
      BY <2>1 DEF SumNext, InWorkflow, OfWorkflow, InIngress, InCron, InLanes, ofCron
    <3>3. QED
      BY <2>1, <3>1, <3>2
         DEF InIngress, allVars, shared, ofIngress, ofCron, Ingress!vars, Ingress!dispatchVars
  <2>2. CASE part = "cron"
    <3>1. [Cron!OutcomeTrueStep]_Cron!vars
      BY <2>2, OnePart, CronStepSound DEF AutomationInv
    <3>2. InCron
      BY <2>2 DEF SumNext, InWorkflow, OfWorkflow, InIngress, InCron, InLanes
    <3>3. QED
      BY <2>2, <3>1, <3>2 DEF InCron, allVars, shared, ofCron, Cron!vars
  <2>3. QED
    BY <2>1, <2>2
<1>2. QED
  BY <1>1, AutomationInit, AutomationStep, PTL DEF SumSpec, OutcomesTrue

---------------------------------------------------------------------------
(* Workflows and lanes.  The two steps of "chain" are claimed in order: its claims *)
(* are those of DurableWorkflowsProofs with these dependencies, all else is as it  *)
(* is in "workflow".  Of lanes, SessionLanesProofs speaks.                         *)

Ordered == INSTANCE DurableWorkflowsProofs WITH DependsOn <- InOrder
Queues == INSTANCE SessionLanesProofs WITH
  Lanes <- LaneNames, Concurrency <- Workers, MaxFaults <- MaxTroubles,
  row <- lane, entry <- active, draining <- busy, faults <- troubles

(* The step that waits and the one it waits for are of one run. *)
OneChain == b \in Steps => a \in Steps /\ RunOf[a] = RunOf[b]

Queueing ==
  /\ IsFiniteSet(Jobs) /\ NoLane \notin LaneNames
  /\ {Workers, MaxPending, MaxPendingPerLane, MaxPendingBytes} \subseteq Nat \ {0}
  /\ Sizes \subseteq Nat /\ MaxTroubles \in Nat

LEMMA OrderedSame == OneChain => Ordered!WorkflowsAssumption
<1> SUFFICES ASSUME OneChain PROVE Ordered!WorkflowsAssumption
  OBVIOUS
<1>1. /\ InOrder \in [Steps -> SUBSET Steps]
      /\ \A s \in Steps : \A d \in InOrder[s] : RunOf[d] = RunOf[s]
  BY DEF OneChain, InOrder
<1> QED
  BY <1>1, WorkflowsAssumption DEF Ordered!WorkflowsAssumption, Ordered!IsFiniteSet,
     IsFiniteSet

LEMMA OrderedInv == Inv <=> Ordered!Inv
  BY DEF Inv, Ordered!Inv, TypeOK, Ordered!TypeOK, EntryType, Ordered!EntryType, NoEntry,
     Ordered!NoEntry, RunType, Ordered!RunType, RUN_STATUSES, Ordered!RUN_STATUSES,
     StepType, Ordered!StepType, STEP_STATUSES, Ordered!STEP_STATUSES, StepsOf,
     Ordered!StepsOf, StepsSound, Ordered!StepsSound, StepSound, Ordered!StepSound, Row,
     Ordered!Row, TERMINAL_STATUSES, Ordered!TERMINAL_STATUSES, RunsSound,
     Ordered!RunsSound, Whole, Ordered!Whole, RunSound, Ordered!RunSound, Terminal,
     Ordered!Terminal, Free, Ordered!Free, AllIn, Ordered!AllIn, SomeIn, Ordered!SomeIn,
     Bad, Ordered!Bad, QuietWhenDown, Ordered!QuietWhenDown

LEMMA OrderedInvNext == Inv' <=> Ordered!Inv'
  BY DEF Inv, Ordered!Inv, TypeOK, Ordered!TypeOK, EntryType, Ordered!EntryType, NoEntry,
     Ordered!NoEntry, RunType, Ordered!RunType, RUN_STATUSES, Ordered!RUN_STATUSES,
     StepType, Ordered!StepType, STEP_STATUSES, Ordered!STEP_STATUSES, StepsOf,
     Ordered!StepsOf, StepsSound, Ordered!StepsSound, StepSound, Ordered!StepSound, Row,
     Ordered!Row, TERMINAL_STATUSES, Ordered!TERMINAL_STATUSES, RunsSound,
     Ordered!RunsSound, Whole, Ordered!Whole, RunSound, Ordered!RunSound, Terminal,
     Ordered!Terminal, Free, Ordered!Free, AllIn, Ordered!AllIn, SomeIn, Ordered!SomeIn,
     Bad, Ordered!Bad, QuietWhenDown, Ordered!QuietWhenDown

LEMMA OrderedClaim == ASSUME NEW s, Chain!ClaimNext(s) PROVE Ordered!ClaimNext(s)
  BY DEF Chain!ClaimNext, Ordered!ClaimNext, Chain!claimNext, Ordered!claimNext,
     Chain!Claimed, Ordered!Claimed, Chain!Row, Ordered!Row, Chain!Active, Ordered!Active,
     Chain!Busy, Ordered!Busy, Chain!Claimable, Ordered!Claimable, Chain!CanClaim,
     Ordered!CanClaim, Chain!Candidate, Ordered!Candidate, Chain!Free, Ordered!Free,
     Chain!Redacted, Ordered!Redacted, Chain!GivenUp, Ordered!GivenUp, Chain!GiveUp,
     Ordered!GiveUp, Chain!SetSteps, Ordered!SetSteps, Chain!StepsOf, Ordered!StepsOf,
     Chain!Cardinality, Ordered!Cardinality

LEMMA OrderedDrain == ASSUME Chain!DrainEnd PROVE Ordered!DrainEnd
  BY DEF Chain!DrainEnd, Ordered!DrainEnd, Chain!Active, Ordered!Active, Chain!Busy,
     Ordered!Busy, Chain!Claimable, Ordered!Claimable, Chain!CanClaim, Ordered!CanClaim,
     Chain!Candidate, Ordered!Candidate, Chain!Free, Ordered!Free, Chain!Row, Ordered!Row,
     Chain!Redacted, Ordered!Redacted, Chain!GivenUp, Ordered!GivenUp, Chain!GiveUp,
     Ordered!GiveUp, Chain!SetSteps, Ordered!SetSteps, Chain!StepsOf, Ordered!StepsOf,
     Chain!Cardinality, Ordered!Cardinality

LEMMA ChainKeeps ==
  ASSUME OneChain, Inv, Chain!DrainEnd \/ \E s \in Steps : Chain!ClaimNext(s)
  PROVE  Inv'
<1>1. Ordered!WorkflowsAssumption /\ Ordered!AttemptsAssumption /\ Ordered!Inv
  BY OrderedSame, OrderedInv, AttemptsAssumption DEF Ordered!AttemptsAssumption
<1>2. ASSUME NEW s \in Steps, Chain!ClaimNext(s) PROVE Ordered!Inv'
  BY <1>1, <1>2, OrderedClaim, Ordered!ClaimNextKeeps
<1>3. CASE Chain!DrainEnd
  <2>1. Ordered!Inv'
    BY <1>1, <1>3, OrderedDrain, Ordered!DrainEndKeeps
  <2> QED
    BY <2>1, OrderedInvNext
<1> QED
  BY <1>2, <1>3, OrderedInvNext

LEMMA QueuesSame == Queueing => Queues!LanesAssumption
  BY DEF Queueing, Queues!LanesAssumption, Queues!IsFiniteSet, IsFiniteSet

LEMMA QueuesInit == ASSUME Queueing, Session!Init PROVE Queues!IInv
<1>1. Queues!Init
  BY DEF Session!Init, Queues!Init, Session!NoEntry, Queues!NoEntry
<1> QED
  BY <1>1, QueuesSame, Queues!InitOK

LEMMA QueuesStep == ASSUME Queueing, Queues!IInv, [Session!Next]_Session!vars PROVE Queues!IInv'
<1>1. [Queues!Next]_Queues!vars
  BY DEF Session!Outcomes, Queues!Outcomes, Session!TERMINAL_STATUSES,
     Queues!TERMINAL_STATUSES, Session!NoEntry, Queues!NoEntry, Session!Next, Queues!Next,
     Session!DrainEnd, Queues!DrainEnd, Session!Active, Queues!Active, Session!Live,
     Queues!Live, Session!Claimable, Queues!Claimable, Session!Head, Queues!Head,
     Session!OfLane, Queues!OfLane, Session!Cardinality, Queues!Cardinality, Session!Start,
     Queues!Start, Session!Applied, Queues!Applied, Session!Quarantined, Queues!Quarantined,
     Session!Running, Queues!Running, Session!StartFails, Queues!StartFails,
     Session!Shutdown, Queues!Shutdown, Session!AbortEntry, Queues!AbortEntry,
     Session!ShutdownDone, Queues!ShutdownDone, Session!ReadFails, Queues!ReadFails,
     Session!Crash, Queues!Crash, Session!JobStep, Queues!JobStep, Session!Submit,
     Queues!Submit, Session!RequestDrain, Queues!RequestDrain, Session!Failed,
     Queues!Failed, Session!NextSequence, Queues!NextSequence, Session!Max, Queues!Max,
     Session!Admissible, Queues!Admissible, Session!Pending, Queues!Pending,
     Session!MapThenSumSet, Queues!MapThenSumSet, Session!MapThenFoldSet,
     Queues!MapThenFoldSet, Session!Claim, Queues!Claim, Session!WithStatus,
     Queues!WithStatus, Session!CanDrain, Queues!CanDrain, Session!Launch, Queues!Launch,
     Session!ExecutorEnds, Queues!ExecutorEnds, Session!Timeout, Queues!Timeout,
     Session!FinishLogical, Queues!FinishLogical, Session!Dropped, Queues!Dropped,
     Session!TerminalStatus, Queues!TerminalStatus, Session!Unlock, Queues!Unlock,
     Session!ExecutionFinished, Queues!ExecutionFinished, Session!ExecutionSettled,
     Queues!ExecutionSettled, Session!Cancel, Queues!Cancel, Session!vars, Queues!vars
<1> QED
  BY <1>1, QueuesSame, Queues!StepOK

LEMMA QueuesFollow == ASSUME Queues!IInv PROVE Session!TypeOK
<1>1. Queues!TypeOK
  BY DEF Queues!IInv
<1> QED
  BY <1>1 DEF Session!TypeOK, Queues!TypeOK, Session!Outcomes, Queues!Outcomes,
     Session!RowType, Queues!RowType, Session!TERMINAL_STATUSES, Queues!TERMINAL_STATUSES,
     Session!EntryType, Queues!EntryType

(* Both are so, whichever part runs. *)
RowsInv == Inv /\ (part = "lanes" => Queues!IInv)

LEMMA RowsInit == ASSUME Queueing PROVE SumInit => RowsInv
  BY InitInv, QueuesInit DEF SumInit, RowsInv

LEMMA RowsStep ==
  ASSUME OneChain, Queueing PROVE RowsInv /\ [SumNext]_allVars => RowsInv'
<1> SUFFICES ASSUME RowsInv, [SumNext]_allVars PROVE RowsInv'
  OBVIOUS
<1>1. \/ [Next]_vars
      \/ Chain!DrainEnd \/ \E s \in Steps : Chain!ClaimNext(s)
  BY DEF SumNext, InWorkflow, InIngress, InCron, InLanes, allVars, Next
<1>2. Inv'
  BY <1>1, NextKeeps, ChainKeeps DEF RowsInv
<1>3. part' = part /\ (part = "lanes" => [Session!Next]_Session!vars)
  BY DEF SumNext, InWorkflow, OfWorkflow, InIngress, InCron, InLanes, allVars, shared,
     ofLanes, Session!vars
<1> QED
  BY <1>2, <1>3, QueuesStep DEF RowsInv

(* The rows of runs and steps, of jobs and deliveries, of schedules and lanes, and *)
(* what the process remembers of them, keep the shapes of their parts, whichever   *)
(* runs.                                                                           *)
THEOREM AutomationTypesHold ==
  ASSUME Declarations, Calendar, OneChain, Queueing PROVE SumSpec => []TypesOK
<1>1. AutomationInv /\ RowsInv => TypesOK
  BY QueuesFollow DEF AutomationInv, RowsInv, TypesOK, Inv, IInv, CronInv
<1> QED
  BY <1>1, AutomationInit, AutomationStep, RowsInit, RowsStep, PTL DEF SumSpec
=============================================================================
