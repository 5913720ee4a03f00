------------------------- MODULE SessionLanesProofs -------------------------
(***************************************************************************)
(* Theorems about SessionLanes, for every set of jobs and lanes, every     *)
(* limit and any number of store failures and crashes.                     *)
(***************************************************************************)
EXTENDS SessionLanes, FiniteSetTheorems, TLAPS

(* An entry is forgotten exactly when its job and its execution have settled;   *)
(* what the race took agrees with the executor unless the job was aborted.      *)
EntryOK(e) ==
  /\ e.stage = "none" => e = NoEntry
  /\ e.stage = "claimed" =>
       e.execution = "none" /\ e.outcome = "none" /\ ~e.logicalSettled /\ ~e.executionSettled
  /\ e.stage = "launched" => e.execution # "none"
  /\ ~(e.logicalSettled /\ e.executionSettled)
  /\ e.executionSettled => e.execution \in {"success", "failure"}
  /\ e.outcome = "success" => e.execution = "success"
  /\ e.outcome = "failure" /\ e.abort = "none" => e.execution = "failure"
  /\ e.execution \in {"success", "failure"} /\ e.outcome = "none" =>
       e.execution = "failure" /\ e.abort # "none"

(* A job and its entry: who is active is running, who is running under a        *)
(* healthy scheduler is active, and neither executes again once it has ended.   *)
JobOK(j) ==
  /\ row[j].status = "absent" <=> row[j].lane = NoLane
  /\ Live(j) => row[j].lane \in locked /\ row[j].status \notin {"absent", "queued"}
  /\ executions[j] <= 1
  /\ (row[j].status \in {"absent", "queued"} \/ entry[j].stage = "claimed") => executions[j] = 0
  /\ j \in Active => row[j].status = "running"
  /\ row[j].status = "running" /\ lifecycle # "stopped" /\ ~degraded => j \in Active

(* What the executor of a job returned, and what is made of it. *)
ReturnOK(j) ==
  /\ entry[j].outcome = "success" => returned[j] = "success"
  /\ entry[j].outcome = "failure" /\ entry[j].abort = "none" => returned[j] = "failure"
  /\ row[j].status = "completed" => returned[j] = "success" /\ entry[j].execution # "running"
  /\ row[j].status = "failed" => returned[j] = "failure" /\ entry[j].execution # "running"

Entries == \A j \in Jobs : EntryOK(entry[j])
Records == \A j \in Jobs : JobOK(j)
Returns == \A j \in Jobs : ReturnOK(j)
LanesApart == \A i, j \in Jobs : i # j /\ Live(i) /\ Live(j) => row[i].lane # row[j].lane
StoppedIdle == lifecycle = "stopped" => Active = {}
Bounded == \E n \in Nat : \A j \in Jobs : row[j].seq <= n

(* The inductive invariant. *)
Consistent == Entries /\ Records /\ Returns /\ LanesApart /\ StoppedIdle /\ LaneOrder /\ SequencesUnique
IInv == TypeOK /\ Bounded /\ Consistent

---------------------------------------------------------------------------
(* Data *)

(* A bounded set of numbers has a largest one, which Max chooses. *)
LEMMA MaxOfBounded ==
  ASSUME NEW S \in SUBSET Nat, S # {}, NEW n \in Nat, \A x \in S : x <= n
  PROVE  Max(S) \in S /\ \A x \in S : x <= Max(S)
<1> DEFINE Above(x) == {y \in S : y >= x}
           T == {Above(x) : x \in S}
           R == StrictSubsetOrdering(S)
<1>1. IsFiniteSet(S)
  BY FS_BoundedSetOfNaturals
<1>2. T \subseteq FiniteSubsetsOf(S) /\ T # {}
  <2>1. \A x \in S : Above(x) \in SUBSET S /\ IsFiniteSet(Above(x))
    BY <1>1, FS_Subset
  <2> QED
    BY <2>1 DEF FiniteSubsetsOf
<1>3. PICK U \in T : \A V \in T : ~ (<<V, U>> \in R)
  <2>1. IsWellFoundedOn(R, FiniteSubsetsOf(S))
    BY FS_StrictSubsetOrderingWellFounded
  <2> HIDE DEF T, R
  <2> QED
    BY <1>2, <2>1, WFMin
<1>4. PICK m \in S : U = Above(m)
  OBVIOUS
<1>5. ASSUME NEW x \in S PROVE x <= m
  <2>1. SUFFICES ASSUME x > m PROVE FALSE
    OBVIOUS
  <2>2. Above(x) \in SUBSET Above(m) /\ m \in Above(m) /\ m \notin Above(x)
    <3>1. \A y \in S : y \in Nat
      OBVIOUS
    <3>2. m \in Above(m) /\ m \notin Above(x)
      BY <2>1, <3>1
    <3>3. \A y \in S : y >= x => y >= m
      BY <2>1, <3>1
    <3> QED
      BY <3>2, <3>3
  <2>3. <<Above(x), Above(m)>> \in R
    BY <2>2 DEF StrictSubsetOrdering
  <2> QED
    BY <1>3, <1>4, <2>3
<1>6. \E k \in S : \A y \in S : k >= y
  BY <1>5
<1>7. Max(S) \in S /\ \A y \in S : Max(S) >= y
  BY <1>6 DEF Max
<1> QED
  BY <1>7

(* A new sequence is larger than those of the lane (submit). *)
LEMMA NextSequenceAbove ==
  ASSUME TypeOK, Bounded, NEW l \in Lanes
  PROVE  NextSequence(l) \in Nat /\ \A j \in OfLane(l) : row[j].seq < NextSequence(l)
<1> DEFINE S == {row[j].seq : j \in OfLane(l)} \cup {0}
<1>1. PICK n \in Nat : \A j \in Jobs : row[j].seq <= n
  BY DEF Bounded
<1>2. S \in SUBSET Nat /\ S # {} /\ \A x \in S : x <= n
  BY <1>1 DEF TypeOK, RowType, OfLane
<1>3. Max(S) \in S /\ \A x \in S : x <= Max(S)
  BY <1>2, MaxOfBounded
<1>4. Max(S) \in Nat /\ NextSequence(l) = Max(S) + 1
  BY <1>2, <1>3 DEF NextSequence
<1>5. \A j \in OfLane(l) : row[j].seq \in S
  OBVIOUS
<1>6. \A x \in S : x \in Nat
  BY <1>2
<1> HIDE DEF S
<1> QED
  BY <1>3, <1>4, <1>5, <1>6

(* An abort of an active entry leaves it alone but for its reason and outcome. *)
LEMMA AbortEntryOK ==
  ASSUME NEW e \in EntryType, EntryOK(e), e.stage # "none", ~e.logicalSettled,
         NEW reason \in {"cancel", "timeout", "shutdown"}
  PROVE  LET f == AbortEntry(e, reason) IN
         /\ f \in EntryType /\ EntryOK(f)
         /\ f.stage = e.stage /\ f.execution = e.execution
         /\ f.logicalSettled = e.logicalSettled /\ f.executionSettled = e.executionSettled
         /\ f.outcome = "success" => e.outcome = "success"
         /\ f.outcome = "failure" /\ f.abort = "none" => e.outcome = "failure" /\ e.abort = "none"
BY DEF AbortEntry, EntryType, EntryOK, NoEntry, Outcomes

---------------------------------------------------------------------------
(* One lemma per action: the step preserves the invariant.                      *)

(* A store call leaves the store as it was or as intended; it is as intended    *)
(* unless the scheduler is degraded.                                           *)
LEMMA StoreCall ==
  ASSUME TypeOK, NEW r, Applied(r) \/ Failed(r)
  PROVE  /\ row' = row \/ row' = r
         /\ ~degraded' => row' = r /\ ~degraded
         /\ degraded' \in BOOLEAN /\ faults' \in 0..MaxFaults
<1>1. row' = row \/ row' = r
  BY DEF Applied, Failed
<1>2. (~degraded' => row' = r /\ ~degraded) /\ degraded' \in BOOLEAN
  BY DEF Applied, Failed, TypeOK
<1>3. faults' \in 0..MaxFaults
  BY LanesAssumption DEF Applied, Failed, TypeOK
<1> QED
  BY <1>1, <1>2, <1>3

LEMMA DrainType == RequestDrain => draining' \in BOOLEAN
BY DEF RequestDrain

LEMMA InitOK == Init => IInv
<1> SUFFICES ASSUME Init PROVE IInv
  OBVIOUS
<1>1. TypeOK
  <2>1. row \in [Jobs -> RowType]
    BY DEF Init, RowType
  <2>2. entry \in [Jobs -> EntryType]
    BY DEF Init, EntryType, NoEntry, Outcomes
  <2>3. degraded \in BOOLEAN /\ draining \in BOOLEAN
    BY DEF Init
  <2>4. faults \in 0..MaxFaults /\ executions \in [Jobs -> Nat] /\ returned \in [Jobs -> Outcomes]
    BY LanesAssumption DEF Init, Outcomes
  <2>5. locked \subseteq Lanes /\ lifecycle \in {"stopped", "started", "stopping"}
    BY DEF Init
  <2> QED
    BY <2>1, <2>2, <2>3, <2>4, <2>5 DEF TypeOK
<1>2. Bounded
  BY DEF Init, Bounded
<1>3. Entries
  BY DEF Init, Entries, EntryOK, NoEntry
<1>4. \A j \in Jobs : ~Live(j) /\ j \notin Active
  BY DEF Init, Live, Active, NoEntry
<1>5. Records /\ LanesApart /\ StoppedIdle
  BY <1>4 DEF Init, Records, JobOK, LanesApart, StoppedIdle, Active, NoEntry
<1>6. Returns
  BY DEF Init, Returns, ReturnOK, NoEntry
<1>7. LaneOrder /\ SequencesUnique
  BY DEF Init, LaneOrder, SequencesUnique
<1> QED
  BY <1>1, <1>2, <1>3, <1>5, <1>6, <1>7 DEF IInv, Consistent

LEMMA SubmitOK ==
  ASSUME IInv, NEW j \in Jobs, NEW l \in Lanes, NEW bytes \in Sizes, Submit(j, l, bytes)
  PROVE  IInv'
<1> DEFINE new == [status |-> "queued", lane |-> l, seq |-> NextSequence(l), bytes |-> bytes]
<1> USE DEF IInv, Consistent
<1>1. /\ row[j].status = "absent"
      /\ row' = row \/ row' = [row EXCEPT ![j] = new]
      /\ degraded' \in BOOLEAN /\ (~degraded' => ~degraded) /\ faults' \in 0..MaxFaults
      /\ draining' \in BOOLEAN
      /\ UNCHANGED <<entry, locked, lifecycle, executions, returned>>
  BY StoreCall, DrainType DEF Submit
<1>2. NextSequence(l) \in Nat /\ \A i \in OfLane(l) : row[i].seq < NextSequence(l)
  BY NextSequenceAbove
<1>3. new \in RowType
  BY <1>2, LanesAssumption DEF RowType
<1>4. TypeOK'
  BY <1>1, <1>3 DEF TypeOK
<1>5. \A i \in Jobs : row'[i] = row[i] \/ (i = j /\ row'[i] = new)
  BY <1>1 DEF TypeOK
<1>6. Bounded'
  <2>1. PICK n \in Nat : \A i \in Jobs : row[i].seq <= n
    BY DEF Bounded
  <2>2. CASE NextSequence(l) <= n
    BY <1>2, <1>5, <2>1, <2>2 DEF Bounded
  <2>3. CASE n < NextSequence(l)
    <3>1. \A i \in Jobs : row[i].seq \in Nat
      BY DEF TypeOK, RowType
    <3>2. \A i \in Jobs : row[i].seq <= NextSequence(l)
      BY <1>2, <2>1, <2>3, <3>1
    <3>3. \A i \in Jobs : row'[i].seq <= NextSequence(l)
      BY <1>2, <1>5, <3>2
    <3> QED
      BY <1>2, <3>3 DEF Bounded
  <2> QED
    BY <1>2, <2>2, <2>3
<1>7. ~Live(j) /\ executions[j] = 0
  BY <1>1 DEF Records, JobOK
<1>8. Entries' /\ StoppedIdle'
  BY <1>1 DEF Entries, EntryOK, StoppedIdle, Active, Live
<1>9. Records'
  <2> SUFFICES ASSUME NEW i \in Jobs PROVE JobOK(i)'
    BY DEF Records
  <2>1. CASE row'[i] = row[i]
    BY <1>1, <2>1 DEF Records, JobOK, Live, Active
  <2>2. CASE i = j /\ row'[i] = new
    BY <1>1, <1>7, <2>2, LanesAssumption DEF Records, JobOK, Live, Active
  <2> QED
    BY <1>5, <2>1, <2>2
<1>10. Returns' /\ LanesApart'
  BY <1>1, <1>5, <1>7 DEF Returns, ReturnOK, LanesApart, Live
<1>11. LaneOrder' /\ SequencesUnique'
  <2>1. \A i \in Jobs : row[i].lane = l => row[i].seq < NextSequence(l)
    BY <1>2 DEF OfLane
  <2>2. \A i \in Jobs : row[i].seq \in Nat
    BY DEF TypeOK, RowType
  <2>3. LaneOrder'
    BY <1>2, <1>5, <2>1, <2>2 DEF LaneOrder
  <2>4. SequencesUnique'
    BY <1>2, <1>5, <2>1, <2>2 DEF SequencesUnique
  <2> QED
    BY <2>3, <2>4
<1> QED
  BY <1>4, <1>6, <1>8, <1>9, <1>10, <1>11

LEMMA DrainEndOK == IInv /\ DrainEnd => IInv'
<1> SUFFICES ASSUME IInv, DrainEnd PROVE IInv'
  OBVIOUS
<1>1. draining' = FALSE /\ UNCHANGED <<row, entry, locked, lifecycle, degraded, faults, executions, returned>>
  BY DEF DrainEnd
<1> QED
  BY <1>1 DEF IInv, TypeOK, Bounded, Consistent, Entries, EntryOK, Records, JobOK, Returns, ReturnOK,
              LanesApart, StoppedIdle, LaneOrder, SequencesUnique, Active, Live, OfLane

(* What a change of one live entry, neither dropped nor settled by it, leaves   *)
(* alone.                                                                      *)
LEMMA EntryFrame ==
  ASSUME IInv, NEW j \in Jobs, Live(j), NEW f \in EntryType, EntryOK(f), f.stage # "none",
         f.logicalSettled = entry[j].logicalSettled,
         entry' = [entry EXCEPT ![j] = f],
         UNCHANGED <<row, locked, lifecycle, degraded>>
  PROVE  /\ entry' \in [Jobs -> EntryType]
         /\ Bounded' /\ Entries' /\ LanesApart' /\ StoppedIdle' /\ LaneOrder' /\ SequencesUnique'
         /\ Active' = Active /\ \A i \in Jobs : Live(i)' <=> Live(i)
<1> USE DEF IInv, Consistent
<1>1. entry' \in [Jobs -> EntryType] /\ entry'[j] = f /\ \A i \in Jobs \ {j} : entry'[i] = entry[i]
  BY DEF TypeOK
<1>2. Entries'
  BY <1>1 DEF Entries, EntryOK
<1>3. \A i \in Jobs : Live(i)' <=> Live(i)
  BY <1>1 DEF Live
<1>4. Active' = Active
  <2>1. \A i \in Jobs : entry'[i].logicalSettled = entry[i].logicalSettled
    BY <1>1
  <2> QED
    BY <1>3, <2>1 DEF Active
<1>5. Bounded' /\ LaneOrder' /\ SequencesUnique'
  BY DEF Bounded, LaneOrder, SequencesUnique
<1>6. LanesApart' /\ StoppedIdle'
  BY <1>3, <1>4 DEF LanesApart, StoppedIdle
<1> QED
  BY <1>1, <1>2, <1>3, <1>4, <1>5, <1>6

LEMMA ClaimOK == ASSUME IInv, NEW j \in Jobs, Claim(j) PROVE IInv'
<1> DEFINE running == WithStatus(j, "running")
           claimed == [NoEntry EXCEPT !.stage = "claimed"]
<1> USE DEF IInv, Consistent
<1>1. /\ row[j].status = "queued" /\ row[j].lane \notin locked
      /\ lifecycle = "started" /\ ~degraded
      /\ \A i \in OfLane(row[j].lane) : row[i].status = "queued" => row[j].seq <= row[i].seq
      /\ UNCHANGED <<lifecycle, executions, returned>>
  BY DEF Claim, CanDrain, Claimable, Head
<1>2. ~Live(j) /\ j \notin Active /\ executions[j] = 0 /\ row[j].lane \in Lanes
  <2>1. row[j].lane \in Lanes \cup {NoLane}
    BY DEF TypeOK, RowType
  <2> QED
    BY <1>1, <2>1 DEF Records, JobOK, Active
<1>3. /\ row' = row \/ row' = running
      /\ degraded' \in BOOLEAN /\ faults' \in 0..MaxFaults /\ draining' \in BOOLEAN
      /\ \/ /\ row' = running
            /\ entry' = [entry EXCEPT ![j] = claimed]
            /\ locked' = locked \cup {row[j].lane}
         \/ degraded' /\ UNCHANGED <<entry, locked>>
  <2>1. Applied(running) \/ Failed(running)
    BY DEF Claim
  <2>2. /\ row' = row \/ row' = running
        /\ degraded' \in BOOLEAN /\ faults' \in 0..MaxFaults
    BY <2>1, StoreCall
  <2>3. CASE /\ Applied(running)
             /\ entry' = [entry EXCEPT ![j] = claimed]
             /\ locked' = locked \cup {row[j].lane}
             /\ UNCHANGED draining
    <3>1. draining' \in BOOLEAN /\ row' = running
      BY <2>3 DEF TypeOK, Applied
    <3> QED
      BY <2>2, <2>3, <3>1
  <2>4. CASE Failed(running) /\ draining' = FALSE /\ UNCHANGED <<entry, locked>>
    <3>1. draining' \in BOOLEAN /\ degraded'
      BY <2>4 DEF Failed
    <3> QED
      BY <2>2, <2>4, <3>1
  <2> QED
    BY <2>3, <2>4 DEF Claim
<1>4. \A i \in Jobs : \/ row'[i] = row[i]
                      \/ i = j /\ row'[i] = [row[i] EXCEPT !.status = "running"]
  BY <1>3 DEF TypeOK, WithStatus
<1>5. row' \in [Jobs -> RowType]
  BY <1>3 DEF TypeOK, RowType, WithStatus
<1>6. claimed \in EntryType /\ EntryOK(claimed) /\ ~claimed.logicalSettled
  BY DEF EntryType, EntryOK, NoEntry, Outcomes
<1>7. /\ entry' \in [Jobs -> EntryType] /\ locked' \subseteq Lanes /\ locked \subseteq locked'
      /\ \A i \in Jobs : \/ entry'[i] = entry[i]
                         \/ /\ i = j /\ entry'[i] = claimed /\ row[i].lane \in locked'
                            /\ row'[i].status = "running"
  BY <1>2, <1>3, <1>6 DEF TypeOK, WithStatus, RowType
<1>8. TypeOK'
  BY <1>1, <1>3, <1>5, <1>7 DEF TypeOK
<1>9. \A i \in Jobs : row'[i].lane = row[i].lane /\ row'[i].seq = row[i].seq
  BY <1>4 DEF TypeOK, RowType
<1>10. Bounded' /\ SequencesUnique'
  BY <1>9 DEF Bounded, SequencesUnique
<1>11. Entries'
  BY <1>6, <1>7 DEF Entries, EntryOK
<1>12. Records'
  <2> SUFFICES ASSUME NEW i \in Jobs PROVE JobOK(i)'
    BY DEF Records
  <2>1. JobOK(i) /\ row[i] \in RowType
    BY DEF Records, TypeOK
  <2>2. CASE i # j
    <3>1. row'[i] = row[i] /\ entry'[i] = entry[i] /\ (degraded' \/ ~degraded)
      BY <1>1, <1>4, <1>7, <2>2
    <3> QED
      BY <1>1, <1>7, <2>1, <3>1 DEF JobOK, Live, Active
  <2>3. CASE i = j
    <3>1. row'[j].status \in {"queued", "running"} /\ row'[j].lane = row[j].lane
      BY <1>1, <1>4, <1>9, <2>1, <2>3 DEF RowType
    <3>2. CASE entry'[j] = entry[j] /\ degraded'
      BY <1>1, <1>2, <1>7, <2>1, <2>3, <3>1, <3>2 DEF JobOK, Live, Active
    <3>3. CASE entry'[j] = claimed /\ row'[j].status = "running" /\ row[j].lane \in locked'
      BY <1>1, <1>2, <1>6, <2>1, <2>3, <3>1, <3>3 DEF JobOK, Live, Active, NoEntry
    <3> QED
      BY <1>3, <1>7, <2>3, <3>2, <3>3 DEF TypeOK, WithStatus, RowType
  <2> QED
    BY <2>2, <2>3
<1>13. Returns'
  <2> SUFFICES ASSUME NEW i \in Jobs PROVE ReturnOK(i)'
    BY DEF Returns
  <2>1. ReturnOK(i) /\ row[i] \in RowType
    BY DEF Returns, TypeOK
  <2>2. row'[i].status \in {row[i].status, "running"}
    BY <1>4, <2>1 DEF RowType
  <2>3. CASE entry'[i] = entry[i]
    BY <1>1, <2>1, <2>2, <2>3 DEF ReturnOK
  <2>4. CASE i = j /\ entry'[i] = claimed /\ row'[i].status = "running"
    BY <1>1, <2>4 DEF ReturnOK, NoEntry
  <2> QED
    BY <1>7, <2>3, <2>4
<1>14. LanesApart'
  <2>1. \A i \in Jobs : Live(i) => row[i].lane # row[j].lane
    BY <1>1 DEF Records, JobOK
  <2> QED
    BY <1>7, <1>9, <2>1 DEF LanesApart, Live
<1>15. StoppedIdle'
  BY <1>1 DEF StoppedIdle
<1>16. LaneOrder'
  <2>1. \A i \in Jobs : row[i].lane = row[j].lane /\ row[i].seq < row[j].seq => row[i].status \in TERMINAL_STATUSES
    <3> SUFFICES ASSUME NEW i \in Jobs, row[i].lane = row[j].lane, row[i].seq < row[j].seq
                 PROVE  row[i].status \in TERMINAL_STATUSES
      OBVIOUS
    <3>1. row[i].status # "queued"
      <4>1. row[i].seq \in Nat /\ row[j].seq \in Nat
        BY DEF TypeOK, RowType
      <4> QED
        BY <1>1, <4>1 DEF OfLane
    <3>2. row[i].status # "absent"
      BY <1>2, LanesAssumption DEF Records, JobOK
    <3>3. row[i].status # "running"
      BY <1>1 DEF Records, JobOK, Active
    <3> QED
      BY <3>1, <3>2, <3>3 DEF TypeOK, RowType
  <2>2. \A i \in Jobs : row[i].status \in TERMINAL_STATUSES => row'[i].status \in TERMINAL_STATUSES
    BY <1>1, <1>4 DEF TERMINAL_STATUSES
  <2>3. \A i \in Jobs \ {j} : row'[i].status = row[i].status
    BY <1>4
  <2> QED
    BY <1>9, <2>1, <2>2, <2>3 DEF LaneOrder
<1> QED
  BY <1>8, <1>10, <1>11, <1>12, <1>13, <1>14, <1>15, <1>16

LEMMA LaunchOK == ASSUME IInv, NEW j \in Jobs, Launch(j) PROVE IInv'
<1> DEFINE refused == [entry[j] EXCEPT !.stage = "launched", !.execution = "failure"]
           started == [entry[j] EXCEPT !.stage = "launched", !.execution = "running"]
           f == IF entry[j].abort # "none" THEN refused ELSE started
<1> USE DEF IInv, Consistent
<1>1. /\ entry[j].stage = "claimed" /\ UNCHANGED <<row, locked, lifecycle, degraded, draining, faults, returned>>
      /\ IF entry[j].abort # "none" THEN UNCHANGED executions
         ELSE executions' = [executions EXCEPT ![j] = @ + 1]
  BY DEF Launch
<1>2. entry[j] \in EntryType /\ EntryOK(entry[j])
  BY DEF TypeOK, Entries
<1>3. entry' = [entry EXCEPT ![j] = f]
  BY <1>2 DEF Launch, EntryType, TypeOK
<1>4. f \in EntryType /\ EntryOK(f) /\ f.stage # "none" /\ f.logicalSettled = entry[j].logicalSettled
      /\ f.outcome = "none"
  BY <1>1, <1>2 DEF EntryType, EntryOK, Outcomes
<1> HIDE DEF f
<1>5. Live(j) /\ j \in Active /\ row[j].status = "running" /\ executions[j] = 0
  BY <1>1, <1>2 DEF Live, Active, EntryOK, Records, JobOK
<1>6. /\ entry' \in [Jobs -> EntryType]
      /\ Bounded' /\ Entries' /\ LanesApart' /\ StoppedIdle' /\ LaneOrder' /\ SequencesUnique'
      /\ Active' = Active /\ \A i \in Jobs : Live(i)' <=> Live(i)
  BY <1>1, <1>3, <1>4, <1>5, EntryFrame
<1>7. /\ executions' \in [Jobs -> Nat] /\ executions'[j] <= 1
      /\ \A i \in Jobs \ {j} : executions'[i] = executions[i]
  BY <1>1, <1>5 DEF TypeOK
<1>8. TypeOK'
  BY <1>1, <1>6, <1>7 DEF TypeOK
<1>9. Records'
  <2> SUFFICES ASSUME NEW i \in Jobs PROVE JobOK(i)'
    BY DEF Records
  <2>1. JobOK(i)
    BY DEF Records
  <2>2. CASE i # j
    BY <1>1, <1>3, <1>6, <1>7, <2>1, <2>2 DEF JobOK, TypeOK
  <2>3. CASE i = j
    <3>1. entry'[j].stage = "launched"
      BY <1>2, <1>3 DEF f, TypeOK, EntryType
    <3> QED
      BY <1>1, <1>5, <1>6, <1>7, <2>1, <2>3, <3>1 DEF JobOK
  <2> QED
    BY <2>2, <2>3
<1>10. Returns'
  <2> SUFFICES ASSUME NEW i \in Jobs PROVE ReturnOK(i)'
    BY DEF Returns
  <2>1. CASE i # j
    BY <1>1, <1>3, <2>1 DEF Returns, ReturnOK, TypeOK
  <2>2. CASE i = j
    BY <1>1, <1>3, <1>4, <1>5, <2>2 DEF Returns, ReturnOK, TypeOK
  <2> QED
    BY <2>1, <2>2
<1> QED
  BY <1>6, <1>8, <1>9, <1>10

LEMMA ExecutorEndsOK == ASSUME IInv, NEW j \in Jobs, ExecutorEnds(j) PROVE IInv'
<1> USE DEF IInv, Consistent
<1>1. PICK o \in {"success", "failure"} :
        /\ entry' = [entry EXCEPT ![j].execution = o, ![j].outcome = IF @ = "none" THEN o ELSE @]
        /\ returned' = [returned EXCEPT ![j] = o]
  BY DEF ExecutorEnds
<1> DEFINE f == [entry[j] EXCEPT !.execution = o, !.outcome = IF @ = "none" THEN o ELSE @]
<1>2. entry[j].execution = "running" /\ UNCHANGED <<row, locked, lifecycle, degraded, draining, faults, executions>>
  BY DEF ExecutorEnds
<1>3. entry[j] \in EntryType /\ EntryOK(entry[j])
  BY DEF TypeOK, Entries
<1>4. entry' = [entry EXCEPT ![j] = f]
  BY <1>1, <1>3 DEF EntryType, TypeOK
<1>5. entry[j].stage = "launched" /\ entry[j].outcome # "success"
  BY <1>2, <1>3 DEF EntryOK, EntryType, NoEntry
<1>6. /\ f.stage = entry[j].stage /\ f.logicalSettled = entry[j].logicalSettled
      /\ f.executionSettled = entry[j].executionSettled /\ f.execution = o /\ f.abort = entry[j].abort
      /\ f.outcome = IF entry[j].outcome = "none" THEN o ELSE entry[j].outcome
  BY <1>3 DEF EntryType
<1>7. f \in EntryType
  BY <1>3 DEF EntryType, Outcomes
<1> HIDE DEF f
<1>8. EntryOK(f)
  BY <1>2, <1>3, <1>5, <1>6 DEF EntryOK, EntryType
<1>9. Live(j)
  BY <1>5 DEF Live
<1>10. /\ entry' \in [Jobs -> EntryType]
       /\ Bounded' /\ Entries' /\ LanesApart' /\ StoppedIdle' /\ LaneOrder' /\ SequencesUnique'
       /\ Active' = Active /\ \A i \in Jobs : Live(i)' <=> Live(i)
  BY <1>2, <1>4, <1>5, <1>6, <1>7, <1>8, <1>9, EntryFrame
<1>11. TypeOK'
  BY <1>1, <1>2, <1>10 DEF TypeOK, Outcomes
<1>12. \A i \in Jobs : entry'[i].stage = entry[i].stage
  BY <1>4, <1>6 DEF TypeOK
<1>13. Records'
  BY <1>2, <1>10, <1>12 DEF Records, JobOK
<1>14. Returns'
  <2> SUFFICES ASSUME NEW i \in Jobs PROVE ReturnOK(i)'
    BY DEF Returns
  <2>1. ReturnOK(i)
    BY DEF Returns
  <2>2. CASE i # j
    BY <1>1, <1>2, <1>4, <2>1, <2>2 DEF ReturnOK, TypeOK
  <2>3. CASE i = j
    <3>1. entry'[j] = f /\ returned'[j] = o
      BY <1>1, <1>4 DEF TypeOK
    <3> QED
      BY <1>2, <1>3, <1>5, <1>6, <2>1, <2>3, <3>1 DEF ReturnOK, EntryOK, EntryType, Outcomes
  <2> QED
    BY <2>2, <2>3
<1> QED
  BY <1>10, <1>11, <1>13, <1>14

(* An abort of one active entry, by a timer or a cancellation. *)
LEMMA AbortStepOK ==
  ASSUME IInv, NEW j \in Jobs, j \in Active, NEW reason \in {"cancel", "timeout", "shutdown"},
         entry' = [entry EXCEPT ![j] = AbortEntry(@, reason)],
         UNCHANGED <<row, locked, lifecycle, degraded, draining, faults, executions, returned>>
  PROVE  IInv'
<1> DEFINE f == AbortEntry(entry[j], reason)
<1> USE DEF IInv, Consistent
<1>1. entry[j] \in EntryType /\ EntryOK(entry[j]) /\ entry[j].stage # "none" /\ ~entry[j].logicalSettled /\ Live(j)
  BY DEF TypeOK, Entries, Active, Live
<1>2. /\ f \in EntryType /\ EntryOK(f)
      /\ f.stage = entry[j].stage /\ f.execution = entry[j].execution
      /\ f.logicalSettled = entry[j].logicalSettled
      /\ f.outcome = "success" => entry[j].outcome = "success"
      /\ f.outcome = "failure" /\ f.abort = "none" => entry[j].outcome = "failure" /\ entry[j].abort = "none"
  BY <1>1, AbortEntryOK
<1>3. entry' = [entry EXCEPT ![j] = f]
  OBVIOUS
<1> HIDE DEF f
<1>4. /\ entry' \in [Jobs -> EntryType]
      /\ Bounded' /\ Entries' /\ LanesApart' /\ StoppedIdle' /\ LaneOrder' /\ SequencesUnique'
      /\ Active' = Active /\ \A i \in Jobs : Live(i)' <=> Live(i)
  BY <1>1, <1>2, <1>3, EntryFrame
<1>5. TypeOK'
  BY <1>4 DEF TypeOK
<1>6. \A i \in Jobs : entry'[i].stage = entry[i].stage /\ entry'[i].execution = entry[i].execution
  BY <1>2, <1>3 DEF TypeOK
<1>7. Records'
  BY <1>4, <1>6 DEF Records, JobOK
<1>8. Returns'
  BY <1>2, <1>3, <1>6 DEF Returns, ReturnOK, TypeOK
<1> QED
  BY <1>4, <1>5, <1>7, <1>8

LEMMA TimeoutOK == ASSUME IInv, NEW j \in Jobs, Timeout(j) PROVE IInv'
<1>1. j \in Active
  BY DEF Timeout, Active, Live
<1> QED
  BY <1>1, AbortStepOK DEF Timeout

(* Settling an entry: it is dropped, and its lane unlocked, when that was the    *)
(* second settlement; the lanes of the other live entries stay locked.          *)
LEMMA SettleFrame ==
  ASSUME IInv, NEW j \in Jobs, Live(j), NEW f \in EntryType, f.stage = entry[j].stage,
         (f.logicalSettled /\ f.executionSettled) \/ EntryOK(f),
         entry' = [entry EXCEPT ![j] = Dropped(f)], Unlock(j, f)
  PROVE  /\ entry' \in [Jobs -> EntryType] /\ locked' \subseteq Lanes /\ Entries'
         /\ \A i \in Jobs \ {j} : entry'[i] = entry[i]
         /\ entry'[j] = f \/ (entry'[j] = NoEntry /\ f.logicalSettled)
         /\ \A i \in Jobs : Live(i)' => Live(i) /\ row[i].lane \in locked'
<1> USE DEF IInv, Consistent
<1>1. NoEntry \in EntryType /\ EntryOK(NoEntry)
  BY DEF EntryType, NoEntry, Outcomes, EntryOK
<1>2. \/ /\ f.logicalSettled /\ f.executionSettled
         /\ Dropped(f) = NoEntry /\ locked' = locked \ {row[j].lane}
      \/ /\ ~(f.logicalSettled /\ f.executionSettled)
         /\ Dropped(f) = f /\ locked' = locked
  BY DEF Dropped, Unlock
<1>3. Dropped(f) \in EntryType /\ EntryOK(Dropped(f))
  BY <1>1, <1>2
<1>4. entry' \in [Jobs -> EntryType] /\ entry'[j] = Dropped(f) /\ \A i \in Jobs \ {j} : entry'[i] = entry[i]
  BY <1>3 DEF TypeOK
<1>5. locked' \subseteq Lanes
  BY <1>2 DEF TypeOK
<1>6. Entries'
  BY <1>3, <1>4 DEF Entries, EntryOK
<1>7. ASSUME NEW i \in Jobs, Live(i)' PROVE Live(i) /\ row[i].lane \in locked'
  <2>1. CASE i # j
    <3>1. Live(i)
      BY <1>4, <1>7, <2>1 DEF Live
    <3>2. row[i].lane \in locked /\ row[i].lane # row[j].lane
      BY <2>1, <3>1 DEF Records, JobOK, LanesApart
    <3> QED
      BY <1>2, <3>1, <3>2
  <2>2. CASE i = j
    <3>1. row[j].lane \in locked
      BY DEF Records, JobOK
    <3>2. Dropped(f) # NoEntry
      BY <1>4, <1>7, <2>2 DEF Live, NoEntry
    <3> QED
      BY <1>2, <2>2, <3>1, <3>2
  <2> QED
    BY <2>1, <2>2
<1> QED
  BY <1>2, <1>4, <1>5, <1>6, <1>7

LEMMA FinishLogicalOK == ASSUME IInv, NEW j \in Jobs, FinishLogical(j) PROVE IInv'
<1> DEFINE settled == [entry[j] EXCEPT !.logicalSettled = TRUE]
           st == TerminalStatus(entry[j])
           stored == WithStatus(j, st)
<1> USE DEF IInv, Consistent
<1>1. /\ entry[j].outcome # "none" /\ ~entry[j].logicalSettled
      /\ Applied(stored) \/ Failed(stored)
      /\ entry' = [entry EXCEPT ![j] = Dropped(settled)] /\ Unlock(j, settled)
      /\ RequestDrain /\ UNCHANGED <<lifecycle, executions, returned>>
  BY DEF FinishLogical
<1>2. entry[j] \in EntryType /\ EntryOK(entry[j]) /\ row[j] \in RowType /\ JobOK(j) /\ ReturnOK(j)
  BY DEF TypeOK, Entries, Records, Returns
<1>3. Live(j) /\ j \in Active /\ row[j].status = "running" /\ entry[j].stage = "launched"
  BY <1>1, <1>2 DEF EntryOK, NoEntry, Live, Active, JobOK, EntryType
<1>4. /\ settled \in EntryType /\ settled.stage = entry[j].stage
      /\ settled.logicalSettled /\ settled.execution = entry[j].execution
      /\ settled.outcome = entry[j].outcome /\ settled.abort = entry[j].abort
      /\ settled.executionSettled = entry[j].executionSettled
  BY <1>2 DEF EntryType
<1> HIDE DEF settled
<1>5. (settled.logicalSettled /\ settled.executionSettled) \/ EntryOK(settled)
  BY <1>2, <1>3, <1>4 DEF EntryOK
<1>6. /\ entry' \in [Jobs -> EntryType] /\ locked' \subseteq Lanes /\ Entries'
      /\ \A i \in Jobs \ {j} : entry'[i] = entry[i]
      /\ entry'[j] = settled \/ (entry'[j] = NoEntry /\ settled.logicalSettled)
      /\ \A i \in Jobs : Live(i)' => Live(i) /\ row[i].lane \in locked'
  BY <1>1, <1>3, <1>4, <1>5, SettleFrame
<1>7. /\ row' = row \/ row' = stored
      /\ ~degraded' => row' = stored /\ ~degraded
      /\ degraded' \in BOOLEAN /\ faults' \in 0..MaxFaults /\ draining' \in BOOLEAN
  BY <1>1, StoreCall, DrainType
<1>8. st \in TERMINAL_STATUSES
  BY <1>1, <1>2 DEF TerminalStatus, TERMINAL_STATUSES, EntryType
<1>9. /\ st = "completed" => entry[j].outcome = "success"
      /\ st = "failed" => entry[j].outcome = "failure" /\ entry[j].abort = "none"
  BY <1>1, <1>2 DEF TerminalStatus, EntryType, Outcomes
<1> HIDE DEF st
<1>10. row' \in [Jobs -> RowType]
  BY <1>7, <1>8 DEF TypeOK, WithStatus, RowType
<1>11. /\ \A i \in Jobs \ {j} : row'[i] = row[i]
       /\ \A i \in Jobs : row'[i].lane = row[i].lane /\ row'[i].seq = row[i].seq
       /\ row'[j].status = "running" \/ row'[j].status = st
       /\ ~degraded' => row'[j].status = st
  BY <1>3, <1>7 DEF TypeOK, WithStatus, RowType
<1>12. TypeOK'
  BY <1>1, <1>6, <1>7, <1>10 DEF TypeOK
<1>13. Bounded' /\ SequencesUnique' /\ LaneOrder'
  <2>1. \A i \in Jobs : row[i].status \in TERMINAL_STATUSES => row'[i].status \in TERMINAL_STATUSES
    BY <1>8, <1>11, <1>3 DEF TERMINAL_STATUSES
  <2>2. \A i \in Jobs : row'[i].status = "running" => row[i].status = "running"
    BY <1>3, <1>11
  <2> QED
    BY <1>11, <2>1, <2>2 DEF Bounded, SequencesUnique, LaneOrder
<1>14. Records'
  <2> SUFFICES ASSUME NEW i \in Jobs PROVE JobOK(i)'
    BY DEF Records
  <2>1. JobOK(i) /\ row[i] \in RowType /\ (~degraded' => ~degraded)
    BY <1>7 DEF Records, TypeOK
  <2>2. CASE i # j
    BY <1>1, <1>6, <1>11, <2>1, <2>2 DEF JobOK, Live, Active
  <2>3. CASE i = j
    <3>1. entry'[j].stage # "claimed" /\ j \notin Active'
      BY <1>3, <1>4, <1>6 DEF NoEntry, Active, Live
    <3>2. row'[j].status \notin {"absent", "queued"} /\ row'[j].lane = row[j].lane
      BY <1>8, <1>11 DEF TERMINAL_STATUSES
    <3>3. row'[j].status = "running" => degraded'
      BY <1>8, <1>11 DEF TERMINAL_STATUSES
    <3> QED
      BY <1>1, <1>3, <1>6, <2>1, <2>3, <3>1, <3>2, <3>3 DEF JobOK
  <2> QED
    BY <2>2, <2>3
<1>15. Returns'
  <2> SUFFICES ASSUME NEW i \in Jobs PROVE ReturnOK(i)'
    BY DEF Returns
  <2>1. CASE i # j
    BY <1>1, <1>6, <1>11, <2>1 DEF Returns, ReturnOK
  <2>2. CASE i = j
    <3>1. row'[j].status = "completed" => returned[j] = "success" /\ entry'[j].execution # "running"
      BY <1>2, <1>4, <1>6, <1>9, <1>11 DEF ReturnOK, EntryOK, NoEntry
    <3>2. row'[j].status = "failed" => returned[j] = "failure" /\ entry'[j].execution # "running"
      BY <1>2, <1>4, <1>6, <1>9, <1>11 DEF ReturnOK, EntryOK, NoEntry
    <3> QED
      BY <1>1, <1>2, <1>4, <1>6, <2>2, <3>1, <3>2 DEF ReturnOK, NoEntry
  <2> QED
    BY <2>1, <2>2
<1>16. LanesApart'
  BY <1>6, <1>11 DEF LanesApart
<1>17. StoppedIdle'
  BY <1>1, <1>3 DEF StoppedIdle
<1> QED
  BY <1>6, <1>12, <1>13, <1>14, <1>15, <1>16, <1>17

LEMMA ExecutionFinishedOK == ASSUME IInv, NEW j \in Jobs, ExecutionFinished(j) PROVE IInv'
<1> DEFINE settled == ExecutionSettled(entry[j])
<1> USE DEF IInv, Consistent
<1>1. /\ entry[j].execution \in {"success", "failure"} /\ ~entry[j].executionSettled
      /\ entry' = [entry EXCEPT ![j] = Dropped(settled)] /\ Unlock(j, settled)
      /\ UNCHANGED <<row, lifecycle, degraded, faults, executions, returned>> /\ RequestDrain
  BY DEF ExecutionFinished
<1>2. entry[j] \in EntryType /\ EntryOK(entry[j]) /\ JobOK(j) /\ ReturnOK(j)
  BY DEF TypeOK, Entries, Records, Returns
<1>3. Live(j) /\ entry[j].stage = "launched"
  BY <1>1, <1>2 DEF EntryOK, NoEntry, Live, EntryType
<1>4. /\ settled.stage = entry[j].stage /\ settled.execution = entry[j].execution
      /\ settled.abort = entry[j].abort
      /\ settled.logicalSettled = entry[j].logicalSettled /\ settled.executionSettled
      /\ settled.outcome = IF entry[j].outcome = "none" THEN entry[j].execution ELSE entry[j].outcome
  BY <1>2 DEF EntryType, ExecutionSettled
<1>5. settled \in EntryType
  BY <1>1, <1>2 DEF EntryType, ExecutionSettled, Outcomes
<1> HIDE DEF settled
<1>6. (settled.logicalSettled /\ settled.executionSettled) \/ EntryOK(settled)
  BY <1>1, <1>2, <1>3, <1>4 DEF EntryOK
<1>7. /\ entry' \in [Jobs -> EntryType] /\ locked' \subseteq Lanes /\ Entries'
      /\ \A i \in Jobs \ {j} : entry'[i] = entry[i]
      /\ entry'[j] = settled \/ (entry'[j] = NoEntry /\ settled.logicalSettled)
      /\ \A i \in Jobs : Live(i)' => Live(i) /\ row[i].lane \in locked'
  BY <1>1, <1>3, <1>4, <1>5, <1>6, SettleFrame
<1>8. draining' \in BOOLEAN
  BY <1>1, DrainType
<1>9. TypeOK'
  BY <1>1, <1>7, <1>8 DEF TypeOK
<1>10. Active' = Active
  <2>1. j \in Active' <=> j \in Active
    BY <1>3, <1>4, <1>7 DEF Active, Live, NoEntry
  <2>2. \A i \in Jobs \ {j} : i \in Active' <=> i \in Active
    BY <1>7 DEF Active, Live
  <2> QED
    BY <2>1, <2>2 DEF Active
<1>11. Bounded' /\ SequencesUnique' /\ LaneOrder' /\ StoppedIdle'
  BY <1>1, <1>10 DEF Bounded, SequencesUnique, LaneOrder, StoppedIdle
<1>12. Records'
  <2> SUFFICES ASSUME NEW i \in Jobs PROVE JobOK(i)'
    BY DEF Records
  <2>1. JobOK(i) /\ (entry'[i].stage = "claimed" => entry[i].stage = "claimed")
    BY <1>4, <1>7 DEF Records, NoEntry
  <2> QED
    BY <1>1, <1>7, <1>10, <2>1 DEF JobOK
<1>13. Returns'
  <2> SUFFICES ASSUME NEW i \in Jobs PROVE ReturnOK(i)'
    BY DEF Returns
  <2>1. CASE i # j
    BY <1>1, <1>7, <2>1 DEF Returns, ReturnOK
  <2>2. CASE i = j
    BY <1>1, <1>2, <1>4, <1>7, <2>2 DEF ReturnOK, EntryOK, NoEntry
  <2> QED
    BY <2>1, <2>2
<1>14. LanesApart'
  BY <1>1, <1>7 DEF LanesApart
<1> QED
  BY <1>7, <1>9, <1>11, <1>12, <1>13, <1>14

(* What a change of the status of records without an entry leaves alone. *)
LEMMA StatusFrame ==
  ASSUME IInv, row' \in [Jobs -> RowType],
         \A i \in Jobs : row'[i].lane = row[i].lane /\ row'[i].seq = row[i].seq,
         \A i \in Jobs : row[i].status \in TERMINAL_STATUSES => row'[i].status \in TERMINAL_STATUSES,
         \A i \in Jobs : row'[i].status = "running" => row[i].status = "running",
         UNCHANGED entry
  PROVE  /\ Bounded' /\ Entries' /\ LanesApart' /\ LaneOrder' /\ SequencesUnique'
         /\ Active' = Active /\ \A i \in Jobs : Live(i)' <=> Live(i)
<1> USE DEF IInv, Consistent
<1>1. Active' = Active /\ \A i \in Jobs : Live(i)' <=> Live(i)
  BY DEF Active, Live
<1>2. Bounded' /\ LaneOrder' /\ SequencesUnique'
  BY DEF Bounded, LaneOrder, SequencesUnique
<1>3. Entries' /\ LanesApart'
  BY <1>1 DEF Entries, EntryOK, LanesApart
<1> QED
  BY <1>1, <1>2, <1>3

LEMMA CancelOK == ASSUME IInv, NEW j \in Jobs, Cancel(j) PROVE IInv'
<1> DEFINE ended == WithStatus(j, "cancelled")
<1> USE DEF IInv, Consistent
<1>1. /\ ~degraded /\ UNCHANGED <<locked, lifecycle, executions, returned>>
      /\ \/ /\ j \in Active
            /\ entry' = [entry EXCEPT ![j] = AbortEntry(@, "cancel")]
            /\ UNCHANGED <<row, degraded, draining, faults>>
         \/ /\ row[j].status = "queued" /\ j \notin Active
            /\ Applied(ended) \/ Failed(ended)
            /\ RequestDrain /\ UNCHANGED entry
         \/ UNCHANGED <<row, degraded, faults, entry>> /\ RequestDrain
  BY DEF Cancel
<1>2. CASE /\ j \in Active
           /\ entry' = [entry EXCEPT ![j] = AbortEntry(@, "cancel")]
           /\ UNCHANGED <<row, degraded, draining, faults>>
  BY <1>1, <1>2, AbortStepOK
<1>3. CASE UNCHANGED <<row, degraded, faults, entry>> /\ RequestDrain
  <2>1. TypeOK'
    BY <1>1, <1>3, DrainType DEF TypeOK
  <2> QED
    BY <1>1, <1>3, <2>1 DEF Bounded, Entries, EntryOK, Records, JobOK, Returns, ReturnOK,
       LanesApart, StoppedIdle, LaneOrder, SequencesUnique, Active, Live
<1>4. CASE /\ row[j].status = "queued" /\ j \notin Active
           /\ Applied(ended) \/ Failed(ended)
           /\ RequestDrain /\ UNCHANGED entry
  <2>1. /\ row' = row \/ row' = ended
        /\ ~degraded' => ~degraded
        /\ degraded' \in BOOLEAN /\ faults' \in 0..MaxFaults /\ draining' \in BOOLEAN
    BY <1>4, StoreCall, DrainType
  <2>2. row' \in [Jobs -> RowType]
    BY <2>1 DEF TypeOK, WithStatus, RowType, TERMINAL_STATUSES
  <2>3. /\ \A i \in Jobs \ {j} : row'[i] = row[i]
        /\ \A i \in Jobs : row'[i].lane = row[i].lane /\ row'[i].seq = row[i].seq
        /\ row'[j].status \in {"queued", "cancelled"}
    BY <1>4, <2>1 DEF TypeOK, WithStatus, RowType
  <2>4. /\ Bounded' /\ Entries' /\ LanesApart' /\ LaneOrder' /\ SequencesUnique'
        /\ Active' = Active /\ \A i \in Jobs : Live(i)' <=> Live(i)
    <3>1. \A i \in Jobs : row[i].status \in TERMINAL_STATUSES => row'[i].status \in TERMINAL_STATUSES
      BY <1>4, <2>3 DEF TERMINAL_STATUSES
    <3>2. \A i \in Jobs : row'[i].status = "running" => row[i].status = "running"
      BY <2>3
    <3> QED
      BY <1>4, <2>2, <2>3, <3>1, <3>2, StatusFrame
  <2>5. TypeOK'
    BY <1>1, <1>4, <2>1, <2>2 DEF TypeOK
  <2>6. Records'
    <3> SUFFICES ASSUME NEW i \in Jobs PROVE JobOK(i)'
      BY DEF Records
    <3>1. JobOK(i) /\ JobOK(j)
      BY DEF Records
    <3>2. CASE i # j
      BY <1>1, <1>4, <2>1, <2>3, <2>4, <3>1, <3>2 DEF JobOK
    <3>3. CASE i = j
      BY <1>1, <1>4, <2>1, <2>3, <2>4, <3>1, <3>3 DEF JobOK
    <3> QED
      BY <3>2, <3>3
  <2>7. Returns' /\ StoppedIdle'
    BY <1>1, <1>4, <2>3, <2>4 DEF Returns, ReturnOK, StoppedIdle
  <2> QED
    BY <2>4, <2>5, <2>6, <2>7
<1> QED
  BY <1>1, <1>2, <1>3, <1>4

(* Quarantine at a start: nothing is active then, so nothing runs afterwards     *)
(* unless the quarantine failed.                                               *)
LEMMA QuarantineOK ==
  ASSUME IInv, lifecycle = "stopped", NEW S \in SUBSET Running, row' = Quarantined(S),
         S = Running \/ degraded' \/ lifecycle' = "stopped",
         lifecycle' \in {"stopped", "started"}, degraded' \in BOOLEAN, draining' \in BOOLEAN,
         faults' \in 0..MaxFaults, UNCHANGED <<entry, locked, executions, returned>>
  PROVE  IInv'
<1> USE DEF IInv, Consistent
<1>1. /\ row' \in [Jobs -> RowType]
      /\ \A i \in Jobs : row'[i].lane = row[i].lane /\ row'[i].seq = row[i].seq
      /\ \A i \in Jobs : row'[i].status = row[i].status
                         \/ (row[i].status = "running" /\ row'[i].status = "needs-review")
      /\ S = Running => \A i \in Jobs : row'[i].status # "running"
  <2>1. \A i \in Jobs : row'[i] = IF i \in S THEN [row[i] EXCEPT !.status = "needs-review"] ELSE row[i]
    BY DEF Quarantined
  <2>2. \A i \in Jobs : row[i] \in RowType /\ (i \in Running <=> row[i].status = "running")
    BY DEF Running, TypeOK
  <2>3. ASSUME NEW i \in Jobs
        PROVE  /\ row'[i] \in RowType /\ row'[i].lane = row[i].lane /\ row'[i].seq = row[i].seq
               /\ row'[i].status = row[i].status
                  \/ (row[i].status = "running" /\ row'[i].status = "needs-review")
               /\ S = Running => row'[i].status # "running"
    <3>1. row[i] \in RowType
      BY <2>2
    <3>2. CASE i \in S
      <4>1. row'[i] = [row[i] EXCEPT !.status = "needs-review"] /\ row[i].status = "running"
        BY <2>1, <2>2, <3>2
      <4> QED
        BY <3>1, <4>1 DEF RowType, TERMINAL_STATUSES
    <3>3. CASE i \notin S
      BY <2>1, <2>2, <3>1, <3>3
    <3> QED
      BY <3>2, <3>3
  <2>4. row' \in [Jobs -> RowType]
    BY <2>3 DEF Quarantined
  <2> QED
    BY <2>3, <2>4
<1>2. Active = {}
  BY DEF StoppedIdle
<1>3. /\ Bounded' /\ Entries' /\ LanesApart' /\ LaneOrder' /\ SequencesUnique'
      /\ Active' = Active /\ \A i \in Jobs : Live(i)' <=> Live(i)
  <2>1. \A i \in Jobs : row[i].status \in TERMINAL_STATUSES => row'[i].status \in TERMINAL_STATUSES
    BY <1>1 DEF TERMINAL_STATUSES
  <2>2. \A i \in Jobs : row'[i].status = "running" => row[i].status = "running"
    BY <1>1
  <2> QED
    BY <1>1, <2>1, <2>2, StatusFrame
<1>4. TypeOK'
  BY <1>1 DEF TypeOK
<1>5. Records'
  BY <1>1, <1>2, <1>3 DEF Records, JobOK
<1>6. Returns'
  BY <1>1 DEF Returns, ReturnOK
<1>7. StoppedIdle'
  BY <1>2, <1>3 DEF StoppedIdle
<1> QED
  BY <1>3, <1>4, <1>5, <1>6, <1>7

LEMMA StartOK == IInv /\ (Start \/ StartFails) => IInv'
<1>1. ASSUME IInv, Start PROVE IInv'
  <2>1. row' = Quarantined(Running) /\ lifecycle' = "started" /\ UNCHANGED <<degraded, faults>>
    BY <1>1 DEF Start, Applied
  <2>2. degraded' \in BOOLEAN /\ draining' \in BOOLEAN /\ faults' \in 0..MaxFaults
    BY <1>1, <2>1 DEF Start, IInv, TypeOK
  <2> QED
    BY <1>1, <2>1, <2>2, QuarantineOK DEF Start
<1>2. ASSUME IInv, StartFails PROVE IInv'
  <2>1. PICK S \in SUBSET Running : row' = Quarantined(S)
    BY <1>2 DEF StartFails
  <2>2. degraded' \in BOOLEAN /\ draining' \in BOOLEAN /\ degraded'
    BY <1>2 DEF StartFails, IInv, TypeOK
  <2>3. faults' \in 0..MaxFaults
    BY <1>2, LanesAssumption DEF StartFails, IInv, TypeOK
  <2> QED
    BY <1>2, <2>1, <2>2, <2>3, QuarantineOK DEF StartFails
<1> QED
  BY <1>1, <1>2

LEMMA ShutdownOK == IInv /\ Shutdown => IInv'
<1> SUFFICES ASSUME IInv, Shutdown PROVE IInv'
  OBVIOUS
<1> USE DEF IInv, Consistent
<1>1. /\ lifecycle = "started" /\ lifecycle' = "stopping"
      /\ UNCHANGED <<row, locked, degraded, draining, faults, executions, returned>>
  BY DEF Shutdown
<1>2. \A i \in Jobs : entry'[i] = IF i \in Active THEN AbortEntry(entry[i], "shutdown") ELSE entry[i]
  BY DEF Shutdown
<1>3. ASSUME NEW i \in Jobs
      PROVE  /\ entry'[i] \in EntryType /\ EntryOK(entry'[i])
             /\ entry'[i].stage = entry[i].stage /\ entry'[i].execution = entry[i].execution
             /\ entry'[i].logicalSettled = entry[i].logicalSettled
             /\ entry'[i].outcome = "success" => entry[i].outcome = "success"
             /\ entry'[i].outcome = "failure" /\ entry'[i].abort = "none" =>
                  entry[i].outcome = "failure" /\ entry[i].abort = "none"
  <2>1. entry[i] \in EntryType /\ EntryOK(entry[i])
    BY DEF TypeOK, Entries
  <2>2. CASE i \in Active
    <3>1. entry[i].stage # "none" /\ ~entry[i].logicalSettled
      BY <2>2 DEF Active, Live
    <3> QED
      BY <1>2, <2>1, <2>2, <3>1, AbortEntryOK
  <2>3. CASE i \notin Active
    BY <1>2, <2>1, <2>3
  <2> QED
    BY <2>2, <2>3
<1>4. entry' \in [Jobs -> EntryType]
  BY <1>3 DEF Shutdown
<1>5. TypeOK'
  BY <1>1, <1>4 DEF TypeOK
<1>6. Active' = Active /\ \A i \in Jobs : Live(i)' <=> Live(i)
  BY <1>3 DEF Active, Live
<1>7. Bounded' /\ LaneOrder' /\ SequencesUnique'
  BY <1>1 DEF Bounded, LaneOrder, SequencesUnique
<1>8. Entries'
  BY <1>3 DEF Entries, EntryOK
<1>9. Records'
  BY <1>1, <1>3, <1>6 DEF Records, JobOK
<1>10. Returns'
  BY <1>1, <1>3 DEF Returns, ReturnOK
<1>11. LanesApart' /\ StoppedIdle'
  BY <1>1, <1>6 DEF LanesApart, StoppedIdle
<1> QED
  BY <1>5, <1>7, <1>8, <1>9, <1>10, <1>11

(* The end of a shutdown and a failing read change nothing but the mode. *)
LEMMA ModeOK == IInv /\ (ShutdownDone \/ ReadFails) => IInv'
<1> SUFFICES ASSUME IInv, ShutdownDone \/ ReadFails PROVE IInv'
  OBVIOUS
<1> USE DEF IInv, Consistent
<1>1. /\ UNCHANGED <<row, entry, locked, draining, executions, returned>>
      /\ degraded' \in BOOLEAN /\ (~degraded' => ~degraded)
      /\ lifecycle' = lifecycle \/ (lifecycle' = "stopped" /\ Active = {})
  BY DEF ShutdownDone, ReadFails, TypeOK
<1>2. faults' \in 0..MaxFaults
  BY LanesAssumption DEF ShutdownDone, ReadFails, TypeOK
<1>3. Active' = Active /\ \A i \in Jobs : Live(i)' <=> Live(i)
  BY <1>1 DEF Active, Live
<1>4. TypeOK'
  BY <1>1, <1>2 DEF TypeOK
<1>5. Bounded' /\ LaneOrder' /\ SequencesUnique'
  BY <1>1 DEF Bounded, LaneOrder, SequencesUnique
<1>6. Entries' /\ Returns'
  BY <1>1 DEF Entries, EntryOK, Returns, ReturnOK
<1>7. Records'
  BY <1>1, <1>3 DEF Records, JobOK
<1>8. LanesApart' /\ StoppedIdle'
  BY <1>1, <1>3 DEF LanesApart, StoppedIdle
<1> QED
  BY <1>4, <1>5, <1>6, <1>7, <1>8

LEMMA CrashOK == IInv /\ Crash => IInv'
<1> SUFFICES ASSUME IInv, Crash PROVE IInv'
  OBVIOUS
<1> USE DEF IInv, Consistent
<1>1. /\ entry' = [i \in Jobs |-> NoEntry] /\ locked' = {} /\ lifecycle' = "stopped"
      /\ UNCHANGED <<row, executions, returned>>
  BY DEF Crash
<1>2. degraded' \in BOOLEAN /\ draining' \in BOOLEAN
  BY DEF Crash
<1>3. faults' \in 0..MaxFaults
  BY LanesAssumption DEF Crash, TypeOK
<1>4. entry' \in [Jobs -> EntryType]
  BY <1>1 DEF EntryType, NoEntry, Outcomes
<1>5. TypeOK'
  BY <1>1, <1>2, <1>3, <1>4 DEF TypeOK
<1>6. Active' = {} /\ \A i \in Jobs : ~Live(i)'
  BY <1>1 DEF Active, Live, NoEntry
<1>7. Bounded' /\ LaneOrder' /\ SequencesUnique'
  BY <1>1 DEF Bounded, LaneOrder, SequencesUnique
<1>8. Entries' /\ Returns'
  BY <1>1 DEF Entries, EntryOK, Returns, ReturnOK, NoEntry
<1>9. Records'
  BY <1>1, <1>6 DEF Records, JobOK, NoEntry
<1>10. LanesApart' /\ StoppedIdle'
  BY <1>6 DEF LanesApart, StoppedIdle
<1> QED
  BY <1>5, <1>7, <1>8, <1>9, <1>10

---------------------------------------------------------------------------
(* Theorems *)

LEMMA JobStepOK == ASSUME IInv, NEW j \in Jobs, JobStep(j) PROVE IInv'
BY SubmitOK, ClaimOK, LaunchOK, ExecutorEndsOK, TimeoutOK, FinishLogicalOK, ExecutionFinishedOK,
   CancelOK DEF JobStep

LEMMA StutterOK == IInv /\ UNCHANGED vars => IInv'
BY DEF vars, IInv, TypeOK, Bounded, Consistent, Entries, EntryOK, Records, JobOK, Returns, ReturnOK,
       LanesApart, StoppedIdle, LaneOrder, SequencesUnique, Active, Live

LEMMA StepOK == ASSUME IInv, [Next]_vars PROVE IInv'
BY JobStepOK, DrainEndOK, StartOK, ShutdownOK, ModeOK, CrashOK, StutterOK DEF Next

LEMMA Invariance == Spec => []IInv
<1>1. IInv /\ [Next]_vars => IInv'
  BY StepOK
<1> QED
  BY InitOK, <1>1, PTL DEF Spec

(* The shape of the scheduler's state, over every operation of it. *)
THEOREM LanesTypeCorrect == Spec => []TypeOK
<1>1. IInv => TypeOK
  BY DEF IInv
<1> QED
  BY Invariance, <1>1, PTL

(* Two executions of a lane never overlap, whatever was timed out, cancelled,   *)
(* shut down or restarted in between: an execution that goes on has an entry,   *)
(* the entry locks the lane, and only an unlocked lane is claimed               *)
(* (executionFinished, finishLogical, claimOne).                               *)
THEOREM LaneExclusiveHolds == Spec => []LaneExclusive
<1>1. IInv => LaneExclusive
  BY DEF IInv, Consistent, Entries, EntryOK, LanesApart, LaneExclusive, Live, NoEntry
<1> QED
  BY Invariance, <1>1, PTL

(* The jobs of a lane are dispatched in the order of their submission (submit,  *)
(* claimOne, start).                                                           *)
THEOREM LaneOrderHolds == Spec => []LaneOrder
<1>1. IInv => LaneOrder
  BY DEF IInv, Consistent
<1> QED
  BY Invariance, <1>1, PTL

(* No two jobs of a lane have one sequence (submit). *)
THEOREM SequencesUniqueHolds == Spec => []SequencesUnique
<1>1. IInv => SequencesUnique
  BY DEF IInv, Consistent
<1> QED
  BY Invariance, <1>1, PTL

(* An executor is called at most once for a job, and never for one that is      *)
(* still queued (start, claimOne, runClaimed).                                 *)
THEOREM ExecutedOnceHolds == Spec => []ExecutedOnce
<1>1. IInv => ExecutedOnce
  BY DEF IInv, Consistent, TypeOK, Records, JobOK, ExecutedOnce
<1> QED
  BY Invariance, <1>1, PTL

(* completed and failed are published only for what the executor returned       *)
(* (terminalPatch).                                                            *)
THEOREM OutcomeToldHolds == Spec => []OutcomeTold
<1>1. IInv => OutcomeTold
  BY DEF IInv, Consistent, Returns, ReturnOK, OutcomeTold
<1> QED
  BY Invariance, <1>1, PTL

(* A terminal record never changes: the one writer that does not look at the    *)
(* record, finishLogical, serves jobs that are still marked running.           *)
THEOREM TerminalFinalHolds == Spec => TerminalFinal
<1>1. ASSUME IInv, [Next]_vars, NEW j \in Jobs, row[j].status \in TERMINAL_STATUSES
      PROVE  row'[j] = row[j]
  <2> USE DEF TERMINAL_STATUSES
  <2>1. row[j] \in RowType /\ row \in [Jobs -> RowType]
    BY <1>1 DEF IInv, TypeOK
  <2>2. ASSUME NEW i \in Jobs, NEW status, row[i].status \notin TERMINAL_STATUSES,
               Applied(WithStatus(i, status)) \/ Failed(WithStatus(i, status))
        PROVE  row'[j] = row[j]
    BY <1>1, <2>1, <2>2 DEF Applied, Failed, WithStatus
  <2>3. CASE \E i \in Jobs, l \in Lanes, bytes \in Sizes : Submit(i, l, bytes)
    BY <1>1, <2>1, <2>3 DEF Submit, Applied, Failed
  <2>4. CASE \E i \in Jobs : Claim(i)
    BY <2>2, <2>4 DEF Claim, Claimable, Head
  <2>5. CASE \E i \in Jobs : FinishLogical(i)
    <3>1. PICK i \in Jobs : FinishLogical(i)
      BY <2>5
    <3>2. row[i].status = "running"
      BY <1>1, <3>1 DEF FinishLogical, IInv, Consistent, Entries, EntryOK, NoEntry, Records, JobOK,
                        Active, Live
    <3> QED
      BY <2>2, <3>1, <3>2 DEF FinishLogical
  <2>6. CASE \E i \in Jobs : Cancel(i)
    BY <2>2, <2>6 DEF Cancel
  <2>7. CASE Start \/ StartFails
    BY <1>1, <2>7 DEF Start, StartFails, Applied, Quarantined, Running
  <2>8. CASE \E i \in Jobs : Launch(i) \/ ExecutorEnds(i) \/ Timeout(i) \/ ExecutionFinished(i)
    BY <2>8 DEF Launch, ExecutorEnds, Timeout, ExecutionFinished
  <2>9. CASE DrainEnd \/ Shutdown \/ ShutdownDone \/ ReadFails \/ Crash
    BY <2>9 DEF DrainEnd, Shutdown, ShutdownDone, ReadFails, Crash
  <2> QED
    BY <1>1, <2>3, <2>4, <2>5, <2>6, <2>7, <2>8, <2>9 DEF Next, JobStep, vars
<1>2. IInv /\ [Next]_vars =>
        [\A j \in Jobs : row[j].status \in TERMINAL_STATUSES => row'[j] = row[j]]_vars
  BY <1>1
<1> QED
  BY Invariance, <1>2, PTL DEF Spec, TerminalFinal

=============================================================================
