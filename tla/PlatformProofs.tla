---------------------------- MODULE PlatformProofs ----------------------------
(***************************************************************************)
(* What MCPlatform runs, for any values of its constants: GatewayInstances *)
(* (any instances, hosts and stalls), ApprovalFlow (any requests and       *)
(* faults), AsyncTelemetry (any bounds, flushes and records),              *)
(* WorkspaceMutations (any processes, files, boundaries and troubles),     *)
(* StateLifecycle (any changes and interruptions) and ChannelRouter (any   *)
(* messages, conversations, limits and faults), each first alone and then  *)
(* beside the others; and both locks and both installations, by the        *)
(* theorems of FileLocksProofs and InstallerProofs.                        *)
(*                                                                         *)
(* The invariant of the instances follows the owner of the row: whoever    *)
(* still works and is not the owner any more was excused when the lease    *)
(* left it, because nobody else takes a lease from a process that is       *)
(* there.  That of approvals: one approve request at a time is past its    *)
(* preview, and while it is, its job is neither waiting nor over; a worker *)
(* that is still about after that belongs to a job that needs review, or   *)
(* to no job.                                                              *)
(***************************************************************************)
EXTENDS MCPlatform, SequenceTheorems, FiniteSetTheorems, TLAPS

---------------------------------------------------------------------------
(* Gateway instances *)

States == {"down", "up", "lost", "closed", "dead"}

(* What excuses an instance that works without the lease. *)
Excuse(i) == i \in excused /\ (up[i] = "closed" \/ \E h \in Instances : Host[h] # Host[i])

Shapes ==
  /\ up \in [Instances -> States] /\ mine \in [Instances -> Nat] /\ epoch \in Nat
  /\ flight \in SUBSET Instances
  /\ owner \in Instances \cup {"none"} /\ held \in {"none", "live", "expired", "released"}

(* The row and the processes: a row without a lease has had no owner, and a *)
(* lease that is live or given back says where its owner is.                *)
RowTrue ==
  /\ held = "none" => \A i \in Instances : up[i] = "down"
  /\ held # "none" => owner \in Instances /\ mine[owner] = epoch /\ up[owner] # "down"
  /\ held = "live" => up[owner] \in {"up", "dead"}

(* The owner in flight after its lease: it stalled, or overran its shutdown. *)
OwnerExcused ==
  owner \in flight =>
    /\ held = "expired" => owner \in excused
    /\ held = "released" => owner \in excused /\ up[owner] = "closed"

FlightTrue ==
  \A i \in flight : up[i] \in {"up", "lost", "closed"} /\ (i # owner => Excuse(i))

IInv == Shapes /\ RowTrue /\ OwnerExcused /\ FlightTrue

(* In the first state nobody works and nobody owns. *)
LEMMA InitInv == ASSUME Init PROVE IInv
  BY DEF Init, IInv, Shapes, RowTrue, OwnerExcused, FlightTrue, States

(* A takeover: the instance it takes over from does not work, or is excused. *)
LEMMA AcquireInv == ASSUME IInv, NEW i \in Instances, Acquire(i) PROVE IInv'
<1> USE DEF IInv, Acquire
<1>1. i \notin flight
  BY DEF FlightTrue, Shapes
<1>2. Shapes'
  BY DEF Shapes, States
<1>3. RowTrue'
  BY DEF RowTrue, Shapes, States
<1>4. OwnerExcused'
  BY DEF OwnerExcused
<1>5. ASSUME NEW j \in flight' PROVE up'[j] \in {"up", "lost", "closed"} /\ (j # owner' => Excuse(j)')
  <2>1. j # i /\ j \in flight /\ j \in Instances /\ up'[j] = up[j]
    BY <1>1, <1>5 DEF Shapes
  <2>2. up[j] \in {"up", "lost", "closed"}
    BY <2>1 DEF FlightTrue
  <2>3. Excuse(j)
    <3>1. CASE j # owner
      BY <3>1, <2>1 DEF FlightTrue
    <3>2. CASE j = owner /\ held = "none"
      BY <3>2, <2>1, <2>2 DEF RowTrue
    <3>3. CASE j = owner /\ held = "released"
      BY <3>3, <2>1 DEF OwnerExcused, Excuse
    <3>4. CASE j = owner /\ held = "expired"
      <4>1. ~(Host[j] = Host[i])
        BY <3>4, <2>2 DEF Free, ProcessAlive
      <4>2. QED
        BY <4>1, <3>4, <2>1 DEF OwnerExcused, Excuse
    <3>5. QED
      BY <3>1, <3>2, <3>3, <3>4 DEF Free
  <2>4. QED
    BY <2>1, <2>2, <2>3 DEF Excuse
<1>6. QED
  BY <1>2, <1>3, <1>4, <1>5 DEF FlightTrue

(* Only the owner of a live lease takes on work. *)
LEMMA AdmitInv == ASSUME IInv, NEW i \in Instances, Admit(i) PROVE IInv'
<1> USE DEF IInv, Admit
<1>1. CASE Owned(i)
  BY <1>1 DEF Owned, Shapes, RowTrue, OwnerExcused, FlightTrue, Excuse
<1>2. CASE ~Owned(i)
  <2>1. held = "live" => i # owner
    BY <1>2 DEF Owned, RowTrue
  <2>2. up' = [up EXCEPT ![i] = "lost"] /\ UNCHANGED <<owner, held, epoch, mine, flight, excused>>
    BY <1>2
  <2>3. Shapes' /\ RowTrue'
    BY <2>1, <2>2 DEF Shapes, RowTrue, States
  <2>4. OwnerExcused' /\ FlightTrue'
    BY <2>1, <2>2 DEF Shapes, OwnerExcused, FlightTrue, Excuse, States
  <2>5. QED
    BY <2>3, <2>4
<1>3. QED
  BY <1>1, <1>2

LEMMA HeartbeatInv == ASSUME IInv, NEW i \in Instances, HeartbeatLost(i) PROVE IInv'
<1> USE DEF IInv, HeartbeatLost
<1>1. held = "live" => i # owner
  BY DEF Owned, RowTrue
<1>2. Shapes' /\ RowTrue'
  BY <1>1 DEF Shapes, RowTrue, States
<1>3. OwnerExcused' /\ FlightTrue'
  BY <1>1 DEF Shapes, OwnerExcused, FlightTrue, Excuse, States
<1>4. QED
  BY <1>2, <1>3

LEMMA ExpireInv == ASSUME IInv, Expire PROVE IInv'
<1> USE DEF IInv, Expire
<1>1. Shapes' /\ RowTrue'
  BY DEF Shapes, RowTrue
<1>2. OwnerExcused'
  BY DEF RowTrue, OwnerExcused, FlightTrue
<1>3. FlightTrue'
  BY DEF FlightTrue, Excuse
<1>4. QED
  BY <1>1, <1>2, <1>3

(* Leaving: an instance that drains works no more, one that overruns is excused. *)
LEMMA ShutdownInv ==
  ASSUME IInv, NEW i \in Instances, Shutdown(i) \/ ShutdownOverruns(i) PROVE IInv'
<1> USE DEF IInv
<1>1. /\ up[i] \in {"up", "lost"} /\ up' = [up EXCEPT ![i] = "closed"]
      /\ Released(i) /\ UNCHANGED <<owner, epoch, mine, flight>>
      /\ excused \subseteq excused' /\ (i \in flight => i \in excused')
  BY DEF Shutdown, ShutdownOverruns, Drained
<1>2. Shapes'
  BY <1>1 DEF Shapes, States, Released
<1>3. RowTrue'
  BY <1>1, <1>2 DEF Shapes, RowTrue, Released, States
<1>4. OwnerExcused'
  BY <1>1 DEF Shapes, OwnerExcused, RowTrue, Released, States
<1>5. FlightTrue'
  BY <1>1 DEF Shapes, FlightTrue, Excuse, States
<1>6. QED
  BY <1>2, <1>3, <1>4, <1>5

LEMMA DoneInv == ASSUME IInv, NEW i \in Instances, Done(i) PROVE IInv'
  BY DEF IInv, Done, Shapes, RowTrue, OwnerExcused, FlightTrue, Excuse

LEMMA DieInv == ASSUME IInv, NEW i \in Instances, Die(i) PROVE IInv'
<1> USE DEF IInv, Die
<1>1. Shapes' /\ RowTrue'
  BY DEF Shapes, RowTrue, ProcessAlive, States
<1>2. OwnerExcused' /\ FlightTrue'
  BY DEF Shapes, OwnerExcused, FlightTrue, Excuse, States
<1>3. QED
  BY <1>1, <1>2

LEMMA InstancesStep == IInv /\ [Next]_vars => IInv'
<1> SUFFICES ASSUME IInv, [Next]_vars PROVE IInv'
  OBVIOUS
<1>1. CASE Next
  BY <1>1, AcquireInv, AdmitInv, HeartbeatInv, ExpireInv, ShutdownInv, DoneInv, DieInv DEF Next
<1>2. CASE UNCHANGED vars
  BY <1>2 DEF vars, IInv, Shapes, RowTrue, OwnerExcused, FlightTrue, Excuse
<1>3. QED
  BY <1>1, <1>2

(* A succession for each process that ever had the lease, of finitely many.  *)
Successions ==
  /\ epoch = Cardinality({i \in Instances : up[i] # "down"})
  /\ \A i \in Instances : mine[i] <= epoch
  /\ excused \subseteq Instances /\ faults \in 0..MaxStalls

InstancesAssumption == IsFiniteSet(Instances) /\ MaxStalls \in Nat

LEMMA SuccessionsInit == ASSUME InstancesAssumption, Init PROVE Successions
<1>1. {i \in Instances : up[i] # "down"} = {}
  BY DEF Init
<1> QED
  BY <1>1, FS_EmptySet DEF Init, Successions, InstancesAssumption

LEMMA SuccessionsStep ==
  ASSUME InstancesAssumption, IInv, Successions, [Next]_vars PROVE Successions'
<1>1. CASE UNCHANGED vars
  BY <1>1 DEF vars, Successions
<1>2. ASSUME NEW i \in Instances, Acquire(i) PROVE Successions'
  <2> DEFINE Risen == {j \in Instances : up[j] # "down"}
  <2>1. Risen' = Risen \cup {i} /\ i \notin Risen
    BY <1>2 DEF Acquire, IInv, Shapes
  <2>2. IsFiniteSet(Risen)
    BY FS_Subset DEF InstancesAssumption
  <2>3. Cardinality(Risen') = Cardinality(Risen) + 1
    <3> HIDE DEF Risen
    <3> QED
      BY <2>1, <2>2, FS_AddElement
  <2>4. epoch' = epoch + 1 /\ mine' = [mine EXCEPT ![i] = epoch + 1]
        /\ UNCHANGED <<faults, excused>>
    BY <1>2 DEF Acquire
  <2>5. \A j \in Instances : mine'[j] <= epoch'
    BY <2>4 DEF IInv, Shapes, Successions
  <2> QED
    BY <2>3, <2>4, <2>5 DEF Successions
<1>3. ASSUME UNCHANGED <<epoch, mine>>,
             \A j \in Instances : (up'[j] = "down") <=> (up[j] = "down"),
             excused' \subseteq Instances, faults' \in 0..MaxStalls
      PROVE  Successions'
  <2>1. {j \in Instances : up'[j] # "down"} = {j \in Instances : up[j] # "down"}
    BY <1>3
  <2> QED
    BY <1>3, <2>1 DEF Successions
<1>4. Fault => faults' \in 0..MaxStalls
  BY DEF Fault, Successions, InstancesAssumption
<1>5. CASE Expire
  <2>1. owner \in Instances
    BY <1>5 DEF Expire, IInv, RowTrue
  <2> QED
    BY <1>3, <1>4, <1>5, <2>1 DEF Expire, Successions
<1>6. ASSUME NEW i \in Instances,
             Admit(i) \/ Done(i) \/ HeartbeatLost(i) \/ Shutdown(i) \/ ShutdownOverruns(i) \/ Die(i)
      PROVE  Successions'
  BY <1>3, <1>4, <1>6 DEF Admit, Done, HeartbeatLost, Shutdown, ShutdownOverruns, Die,
     ProcessAlive, Successions, IInv, Shapes
<1> QED
  BY <1>1, <1>2, <1>5, <1>6 DEF Next

LEMMA InstanceTypes == ASSUME InstancesAssumption, IInv, Successions PROVE TypeOK
<1>1. IsFiniteSet({i \in Instances : up[i] # "down"})
      /\ Cardinality({i \in Instances : up[i] # "down"}) <= Cardinality(Instances)
  BY FS_Subset DEF InstancesAssumption
<1>2. epoch \in 0..Cardinality(Instances) /\ Cardinality(Instances) \in Nat
  BY <1>1, FS_CardinalityType DEF Successions, InstancesAssumption, IInv, Shapes
<1>3. \A i \in Instances : mine[i] \in 0..Cardinality(Instances)
  BY <1>2 DEF Successions, IInv, Shapes
<1> QED
  BY <1>2, <1>3 DEF TypeOK, IInv, Shapes, Successions, States

(* HandoverClean (instance-ownership.ts): what two Gateways have in flight never *)
(* overlaps, unless one of them stalled for a lease while another host was there *)
(* or released its lease at the shutdown deadline.                               *)
THEOREM HandoverCleanAlways == Spec => []HandoverClean
<1>1. Init => IInv
  BY InitInv
<1>2. IInv /\ [Next]_vars => IInv'
  BY InstancesStep
<1>3. IInv => HandoverClean
  <2> SUFFICES ASSUME IInv, NEW i \in flight, NEW j \in flight, i # j
               PROVE \E k \in {i, j} \cap excused : up[k] = "closed" \/ \E h \in Instances : Host[h] # Host[k]
    BY DEF HandoverClean
  <2>1. Excuse(i) \/ Excuse(j)
    BY DEF IInv, FlightTrue
  <2>2. QED
    BY <2>1 DEF Excuse
<1>4. QED
  BY <1>1, <1>2, <1>3, PTL DEF Spec

---------------------------------------------------------------------------
(* Approvals *)

Statuses == {"direct", "asking", "awaiting", "running", "cancelling"} \cup Approval!Ends
Places == {"idle", "status", "begin", "claim", "recover", "dispatch", "work", "revoke", "stale", "cancel"}
Committed == {"claim", "recover", "dispatch", "work"}

ApprovalShapes ==
  /\ row \in {"none", "pending", "approved"} /\ job \in Statuses
  /\ pc \in [Approval!Requests -> Places]
  /\ worker \in [Approvers -> {"none", "recover", "consume", "ok", "denied"}]
  /\ effects \in Nat /\ granted \in BOOLEAN /\ denied \in BOOLEAN

(* The store: what it holds was not revoked, and nothing is left of it once *)
(* there was an effect.                                                     *)
ApprovalTrue ==
  /\ row = "approved" => granted
  /\ row # "none" => ~denied /\ effects = 0
  /\ effects <= 1
  /\ effects = 1 => granted /\ ~denied

(* One approve request at a time, of a job that is its own. *)
OneAtWork ==
  /\ \A r, q \in Approvers : pc[r] # "idle" /\ pc[q] # "idle" => r = q
  /\ \A r \in Approvers : pc[r] \in Committed => job \in {"direct", "running", "cancelling"}
  /\ \A r \in Approvers : pc[r] = "work" => r \in marked

(* Work and effects belong to the request at work while the job goes on. *)
Begun == effects = 1 \/ \E r \in Approvers : worker[r] # "none"
WorkOwned ==
  /\ job \in {"asking", "awaiting", "cancelled"} => ~Begun
  /\ job \in {"running", "cancelling"} =>
       /\ \A r \in Approvers : worker[r] # "none" => pc[r] = "work"
       /\ effects = 1 => \E r \in Approvers : pc[r] = "work"
  /\ \A r \in Approvers : worker[r] = "ok" => effects = 1
  /\ job = "completed" => effects = 1

ApprovalInv == ApprovalShapes /\ ApprovalTrue /\ OneAtWork /\ WorkOwned

Disjoint == Approvers \cap (Deniers \cup Cancellers) = {}

(* In the first state nothing is asked and nobody works. *)
LEMMA ApprovalInitInv == ASSUME Approval!Init PROVE ApprovalInv
<1>1. \A r \in Approvers : pc[r] = "idle" /\ worker[r] = "none"
  BY DEF Approval!Init, Approval!Requests
<1>2. ApprovalShapes
  BY DEF Approval!Init, ApprovalShapes, Statuses, Places
<1>3. ApprovalTrue
  BY DEF Approval!Init, ApprovalTrue
<1>4. OneAtWork
  BY <1>1 DEF OneAtWork, Committed
<1>5. WorkOwned
  BY <1>1 DEF Approval!Init, WorkOwned, Begun
<1>6. QED
  BY <1>2, <1>3, <1>4, <1>5 DEF ApprovalInv

(* The store's own steps and the tool that asks. *)
LEMMA StoreInv == ASSUME ApprovalInv, Approval!Create \/ Approval!Await \/ Approval!Lapse \/ Approval!AskingEnds PROVE ApprovalInv'
<1> USE DEF ApprovalInv
<1>1. CASE Approval!Create
  BY <1>1 DEF Approval!Create, ApprovalShapes, ApprovalTrue, OneAtWork, WorkOwned, Begun
<1>2. CASE Approval!Await
  BY <1>2 DEF Approval!Await, ApprovalShapes, ApprovalTrue, OneAtWork, WorkOwned, Begun,
     Committed, Statuses
<1>3. CASE Approval!Lapse
  BY <1>3 DEF Approval!Lapse, ApprovalShapes, ApprovalTrue, OneAtWork, WorkOwned, Begun
<1>4. CASE Approval!AskingEnds
  <2>1. ~Begun
    BY <1>4 DEF Approval!AskingEnds, WorkOwned, Begun
  <2>2. QED
    BY <1>4, <2>1 DEF Approval!AskingEnds, ApprovalShapes, ApprovalTrue, OneAtWork, WorkOwned,
       Begun, Committed, Statuses, Approval!Ends
<1>5. QED
  BY <1>1, <1>2, <1>3, <1>4

(* A restart: what had begun needs review. *)
LEMMA CrashInv == ASSUME ApprovalInv, Approval!Crash PROVE ApprovalInv'
<1> USE DEF ApprovalInv, Approval!Crash
<1>1. ApprovalShapes' /\ ApprovalTrue'
  BY DEF ApprovalShapes, ApprovalTrue, Statuses, Approval!Ends, Places
<1>2. OneAtWork' /\ WorkOwned'
  BY DEF OneAtWork, WorkOwned, Begun, ApprovalShapes, Approval!Requests, Committed
<1>3. QED
  BY <1>1, <1>2

(* What settles a job: a request past its claim, on its own, which says that it *)
(* is completed only after its effect.                                          *)
LEMMA SettleInv ==
  ASSUME ApprovalInv, NEW r \in Approvers, NEW how \in {"ok", "error", "interrupted"},
         pc[r] \in Committed, Approval!Settle(r, how),
         pc[r] # "work" => how # "ok", how = "ok" => effects = 1,
         effects' = effects, granted' = granted,
         \/ UNCHANGED <<row, denied>>
         \/ row' = "none" /\ effects = 0 /\ denied' \in BOOLEAN
         \/ row = "none" /\ row' = "none" /\ denied' = denied,
         worker' = worker \/ (pc[r] = "work" /\ worker' = [worker EXCEPT ![r] = "none"])
  PROVE ApprovalInv'
<1> USE DEF ApprovalInv
<1>1. r \in Approval!Requests /\ pc' = [pc EXCEPT ![r] = "idle"] /\ job' = Approval!Settled(r, how)
      /\ marked' = marked \ {r} /\ job \in {"direct", "running", "cancelling"}
      /\ pc[r] # "idle" /\ \A q \in Approvers : q # r => pc[q] = "idle"
  BY DEF Approval!Settle, Approval!Go, Approval!Requests, OneAtWork, Committed
<1>2. job' \in Statuses
  BY <1>1 DEF Approval!Settled, ApprovalShapes, Statuses, Approval!Ends
<1>3. ApprovalShapes'
  BY <1>1, <1>2 DEF ApprovalShapes, Places
<1>4. ApprovalTrue'
  BY DEF ApprovalTrue, ApprovalShapes
<1>5. \A q \in Approvers : pc'[q] = "idle"
  BY <1>1 DEF ApprovalShapes
<1>6. OneAtWork'
  BY <1>5 DEF OneAtWork, Committed
<1>7. job' \in {"direct", "needs-review", "completed", "cancelled"}
  BY <1>1 DEF Approval!Settled
<1>8. ASSUME job' = "cancelled" PROVE ~Begun /\ ~Begun'
  <2>1. job \in {"running", "cancelling"} /\ r \notin marked
    BY <1>1, <1>8 DEF Approval!Settled
  <2>2. pc[r] # "work"
    BY <2>1 DEF OneAtWork
  <2>3. \A q \in Approvers : pc[q] # "work"
    BY <1>1, <2>2
  <2>4. QED
    BY <2>1, <2>2, <2>3 DEF WorkOwned, Begun
<1>9. \A q \in Approvers : worker'[q] = "ok" => worker[q] = "ok"
  BY DEF ApprovalShapes
<1>10. job' = "completed" => effects = 1
  BY <1>1 DEF Approval!Settled
<1>11. WorkOwned'
  BY <1>7, <1>8, <1>9, <1>10 DEF WorkOwned
<1>12. QED
  BY <1>3, <1>4, <1>6, <1>11

(* An approve request that goes on, its job as it was or claimed. *)
LEMMA GoInv ==
  ASSUME ApprovalInv, NEW r \in Approvers, NEW to \in Places, Approval!Go(r, to),
         \A q \in Approvers : q # r => pc[q] = "idle",
         pc[r] # "work", to # "work",
         to \in Committed => job' \in {"direct", "running", "cancelling"},
         job' = job \/ (job = "awaiting" /\ job' = "running"),
         ApprovalShapes', ApprovalTrue', effects' = effects, worker' = worker, marked' = marked
  PROVE ApprovalInv'
<1> USE DEF ApprovalInv
<1>1. r \in Approval!Requests /\ pc' = [pc EXCEPT ![r] = to]
  BY DEF Approval!Go, Approval!Requests
<1>2. \A q \in Approvers : q # r => pc'[q] = "idle"
  BY <1>1 DEF ApprovalShapes
<1>3. pc'[r] = to
  BY <1>1 DEF ApprovalShapes
<1>4. OneAtWork'
  BY <1>2, <1>3 DEF OneAtWork, Committed
<1>5. WorkOwned'
  BY DEF WorkOwned, Begun
<1>6. QED
  BY <1>4, <1>5

(* An approve request, from its preview to its verdict. *)
LEMMA ApproveInv == ASSUME ApprovalInv, NEW r \in Approvers, Approval!ApproveNext(r) PROVE ApprovalInv'
<1> USE DEF ApprovalInv
<1>0. pc[r] # "idle" => \A q \in Approvers : q # r => pc[q] = "idle"
  BY DEF OneAtWork
<1>1. CASE Approval!ApprovePreview(r)
  <2>1. ApprovalShapes' /\ ApprovalTrue'
    BY <1>1 DEF Approval!ApprovePreview, Approval!Found, ApprovalShapes, ApprovalTrue,
       Approval!Go, Approval!Requests, Places
  <2>2. QED
    BY <1>1, <2>1, GoInv DEF Approval!ApprovePreview, Places, Committed
<1>2. CASE Approval!ApproveStatus(r) \/ Approval!ApproveBegin(r)
  <2>1. PICK to \in {"idle", "begin", "claim"} :
          Approval!Go(r, to) /\ (to = "claim" => job' \in {"direct", "running"})
    BY <1>2 DEF Approval!ApproveStatus, Approval!ApproveBegin, Approval!Refuse
  <2>2. /\ \/ UNCHANGED <<row, denied>>
           \/ row' = row /\ denied' = (denied \/ FALSE)
           \/ row' = "none" /\ denied' = (denied \/ row # "none")
        /\ job' \in {job, "running"} /\ UNCHANGED <<worker, effects, granted>>
    BY <1>2 DEF Approval!ApproveStatus, Approval!ApproveBegin, Approval!Refuse
  <2>3. ApprovalShapes'
    BY <2>1, <2>2 DEF ApprovalShapes, Approval!Go, Approval!Requests, Places, Statuses
  <2>4. ApprovalTrue'
    BY <2>2 DEF ApprovalShapes, ApprovalTrue
  <2>5. QED
    BY <1>0, <1>2, <2>1, <2>3, <2>4, GoInv DEF Approval!ApproveStatus, Approval!ApproveBegin,
       Places, Committed
<1>3. CASE Approval!ApproveClaim(r)
  <2>1. CASE Approval!Found = "none"
    BY <1>3, <2>1, SettleInv DEF Approval!ApproveClaim, Committed, ApprovalTrue, ApprovalShapes
  <2>2. CASE Approval!Found # "none"
    <3>1. ApprovalShapes' /\ ApprovalTrue'
      BY <1>3, <2>2 DEF Approval!ApproveClaim, Approval!Found, ApprovalShapes, ApprovalTrue,
         Approval!Go, Approval!Requests, Places
    <3>2. QED
      BY <1>0, <1>3, <2>2, <3>1, GoInv DEF Approval!ApproveClaim, Places, Committed, OneAtWork
  <2>3. QED
    BY <2>1, <2>2
<1>4. CASE Approval!ApproveRecover(r)
  <2>1. CASE Approval!Found # "approved"
    BY <1>4, <2>1, SettleInv DEF Approval!ApproveRecover, Committed, ApprovalTrue, ApprovalShapes
  <2>2. CASE Approval!Found = "approved"
    <3>1. ApprovalShapes' /\ ApprovalTrue'
      BY <1>4, <2>2 DEF Approval!ApproveRecover, ApprovalShapes, ApprovalTrue, Approval!Go,
         Approval!Requests, Places
    <3>2. QED
      BY <1>0, <1>4, <2>2, <3>1, GoInv DEF Approval!ApproveRecover, Places, Committed, OneAtWork
  <2>3. QED
    BY <2>1, <2>2
<1>5. CASE Approval!ApproveDispatch(r)
  <2>1. CASE job = "cancelling"
    BY <1>5, <2>1, SettleInv DEF Approval!ApproveDispatch, Committed
  <2>2. CASE job # "cancelling"
    <3>1. /\ pc' = [pc EXCEPT ![r] = "work"] /\ worker' = [worker EXCEPT ![r] = "recover"]
          /\ marked' = marked \cup {r} /\ pc[r] = "dispatch" /\ job' = job
          /\ UNCHANGED <<row, effects, granted, denied>> /\ r \in Approval!Requests
      BY <1>5, <2>2 DEF Approval!ApproveDispatch, Approval!Go, Approval!Requests
    <3>2. job \in {"direct", "running"}
      BY <2>2, <3>1 DEF OneAtWork, Committed
    <3>3. ApprovalShapes' /\ ApprovalTrue'
      BY <3>1 DEF ApprovalShapes, ApprovalTrue, Places
    <3>4. pc'[r] = "work" /\ worker'[r] = "recover"
          /\ \A q \in Approvers : q # r => pc'[q] = "idle" /\ worker'[q] = worker[q]
      BY <1>0, <3>1 DEF ApprovalShapes
    <3>5. OneAtWork'
      BY <3>1, <3>2, <3>4 DEF OneAtWork, Committed
    <3>6. WorkOwned'
      BY <1>0, <3>1, <3>2, <3>4 DEF WorkOwned, Begun
    <3>7. QED
      BY <3>3, <3>5, <3>6
  <2>3. QED
    BY <2>1, <2>2
<1>6. CASE Approval!ApproveFails(r)
  BY <1>6, SettleInv DEF Approval!ApproveFails, Committed
<1>7. CASE Approval!ApproveEnds(r)
  <2>1. worker[r] = "ok" => effects = 1
    BY DEF WorkOwned
  <2>2. QED
    BY <1>7, <2>1, SettleInv DEF Approval!ApproveEnds, Committed
<1>8. CASE Approval!ApproveAborted(r)
  BY <1>8, SettleInv DEF Approval!ApproveAborted, Committed
<1>9. QED
  BY <1>1, <1>2, <1>3, <1>4, <1>5, <1>6, <1>7, <1>8 DEF Approval!ApproveNext

(* A worker: what it consumes is an approval that nobody revoked. *)
LEMMA WorkerInv == ASSUME ApprovalInv, NEW r \in Approvers, Approval!WorkerNext(r) PROVE ApprovalInv'
<1> USE DEF ApprovalInv
<1>1. /\ UNCHANGED <<job, pc, marked, granted, denied>> /\ worker[r] # "none"
      /\ row' \in {row, "none"}
      /\ \E w \in {"none", "consume", "ok", "denied"} : worker' = [worker EXCEPT ![r] = w]
  BY DEF Approval!WorkerNext, Approval!WorkerRecover, Approval!WorkerConsume,
     Approval!WorkerFails, Approval!WorkerDies, Approval!Found
<1>2. CASE Approval!WorkerConsume(r) /\ Approval!Consumable = "approved"
  <2>1. row = "approved" /\ effects = 0 /\ row' = "none" /\ effects' = 1
        /\ worker' = [worker EXCEPT ![r] = "ok"]
    BY <1>2 DEF Approval!WorkerConsume, Approval!Consumable, Approval!Found, ApprovalTrue,
       ApprovalShapes
  <2>2. ApprovalShapes' /\ ApprovalTrue'
    BY <1>1, <2>1 DEF ApprovalShapes, ApprovalTrue
  <2>3. OneAtWork'
    BY <1>1 DEF OneAtWork
  <2>4. job \notin {"asking", "awaiting", "cancelled"}
    BY <1>1 DEF WorkOwned, Begun
  <2>5. job \in {"running", "cancelling"} => pc[r] = "work"
    BY <1>1 DEF WorkOwned
  <2>6. \A q \in Approvers : worker'[q] # "none" => worker[q] # "none"
    BY <1>1, <2>1 DEF ApprovalShapes
  <2>7. WorkOwned'
    BY <1>1, <2>1, <2>4, <2>5, <2>6 DEF WorkOwned
  <2>8. QED
    BY <2>2, <2>3, <2>7
<1>3. CASE ~(Approval!WorkerConsume(r) /\ Approval!Consumable = "approved")
  <2>1. effects' = effects
    BY <1>3 DEF Approval!WorkerNext, Approval!WorkerRecover, Approval!WorkerConsume,
       Approval!WorkerFails, Approval!WorkerDies
  <2>2. \E w \in {"none", "consume", "denied"} : worker' = [worker EXCEPT ![r] = w]
    BY <1>3 DEF Approval!WorkerNext, Approval!WorkerRecover, Approval!WorkerConsume,
       Approval!WorkerFails, Approval!WorkerDies
  <2>3. \A q \in Approvers : /\ worker'[q] # "none" => worker[q] # "none"
                             /\ worker'[q] = "ok" => worker[q] = "ok"
    BY <1>1, <2>2 DEF ApprovalShapes
  <2>4. ApprovalShapes' /\ ApprovalTrue'
    BY <1>1, <2>1, <2>2 DEF ApprovalShapes, ApprovalTrue
  <2>5. OneAtWork'
    BY <1>1 DEF OneAtWork
  <2>6. WorkOwned'
    BY <1>1, <2>1, <2>3 DEF WorkOwned, Begun
  <2>7. QED
    BY <2>4, <2>5, <2>6
<1>4. QED
  BY <1>2, <1>3

(* Denials and cancellations: they revoke, or tell the job to stop. *)
LEMMA RefusalInv ==
  ASSUME Disjoint, ApprovalInv, NEW r \in Deniers \cup Cancellers, Approval!RefusalNext(r) PROVE ApprovalInv'
<1> USE DEF ApprovalInv
<1>1. /\ \E to \in Places : pc' = [pc EXCEPT ![r] = to]
      /\ UNCHANGED <<worker, marked, effects, granted>>
  BY DEF Approval!RefusalNext, Approval!Show, Approval!DenyStatus, Approval!Revoke,
     Approval!CancelJob, Approval!RequestFails, Approval!Go, Places
<1>2. job' = job \/ job' = Approval!Cancelled
  BY DEF Approval!RefusalNext, Approval!Show, Approval!DenyStatus, Approval!Revoke,
     Approval!CancelJob, Approval!RequestFails
<1>3. \/ row' \in {row, "none"} /\ denied' = denied
      \/ row # "none" /\ row' = "none" /\ denied' = TRUE
  BY DEF Approval!RefusalNext, Approval!Show, Approval!DenyStatus, Approval!Revoke,
     Approval!CancelJob, Approval!RequestFails, Approval!Found, ApprovalShapes
<1>4. \A q \in Approvers : pc'[q] = pc[q]
  BY <1>1 DEF Disjoint, ApprovalShapes
<1>5. ApprovalShapes'
  BY <1>1, <1>2, <1>3 DEF ApprovalShapes, Statuses, Approval!Ends, Approval!Cancelled,
     Approval!Requests
<1>6. ApprovalTrue'
  BY <1>1, <1>3 DEF ApprovalTrue, ApprovalShapes
<1>7. OneAtWork'
  BY <1>1, <1>2, <1>4 DEF OneAtWork, Approval!Cancelled, Committed
<1>8. Begun' <=> Begun
  BY <1>1 DEF Begun
<1>9. WorkOwned'
  BY <1>1, <1>2, <1>4, <1>8 DEF WorkOwned, Approval!Cancelled, Begun
<1>10. QED
  BY <1>5, <1>6, <1>7, <1>9

LEMMA ApprovalStep ==
  ASSUME Disjoint PROVE ApprovalInv /\ [Approval!Next]_Approval!vars => ApprovalInv'
<1> SUFFICES ASSUME ApprovalInv, [Approval!Next]_Approval!vars PROVE ApprovalInv'
  OBVIOUS
<1>1. CASE Approval!Next
  BY <1>1, StoreInv, CrashInv, ApproveInv, WorkerInv, RefusalInv DEF Approval!Next
<1>2. CASE UNCHANGED Approval!vars
  BY <1>2 DEF Approval!vars, ApprovalInv, ApprovalShapes, ApprovalTrue, OneAtWork, WorkOwned, Begun
<1>3. QED
  BY <1>1, <1>2

(* What the invariant leaves out of the shapes. *)
ApprovalsRest ==
  /\ marked \subseteq Approvers /\ killed \subseteq Approvers /\ lapsed \in BOOLEAN
  /\ faults \in 0..ApprovalFaults

LEMMA RestInit == ASSUME ApprovalFaults \in Nat, Approval!Init PROVE ApprovalsRest
<1>1. lapsed \in BOOLEAN
  BY Zenon DEF Approval!Init
<1>2. marked = {} /\ killed = {} /\ faults \in 0..ApprovalFaults
  BY DEF Approval!Init
<1> QED
  BY <1>1, <1>2, Zenon DEF ApprovalsRest

LEMMA ApprovalsRestStep ==
  ASSUME ApprovalFaults \in Nat, ApprovalsRest, [Approval!Next]_Approval!vars
  PROVE  ApprovalsRest'
<1>1. faults' = faults \/ (faults < ApprovalFaults /\ faults' = faults + 1)
  BY DEF Approval!Next, Approval!vars, Approval!Create, Approval!Await, Approval!Lapse,
     Approval!AskingEnds, Approval!Crash, Approval!Fault, Approval!ApproveNext,
     Approval!ApprovePreview, Approval!ApproveStatus, Approval!ApproveBegin,
     Approval!ApproveClaim, Approval!ApproveRecover, Approval!ApproveDispatch,
     Approval!ApproveFails, Approval!ApproveEnds, Approval!ApproveAborted, Approval!WorkerNext,
     Approval!WorkerRecover, Approval!WorkerConsume, Approval!WorkerFails, Approval!WorkerDies,
     Approval!RefusalNext, Approval!Show, Approval!DenyStatus, Approval!Revoke,
     Approval!CancelJob, Approval!RequestFails
<1>2. lapsed' \in {lapsed, TRUE}
  BY DEF Approval!Next, Approval!vars, Approval!Create, Approval!Await, Approval!Lapse,
     Approval!AskingEnds, Approval!Crash, Approval!ApproveNext,
     Approval!ApprovePreview, Approval!ApproveStatus, Approval!ApproveBegin,
     Approval!ApproveClaim, Approval!ApproveRecover, Approval!ApproveDispatch,
     Approval!ApproveFails, Approval!ApproveEnds, Approval!ApproveAborted, Approval!WorkerNext,
     Approval!WorkerRecover, Approval!WorkerConsume, Approval!WorkerFails, Approval!WorkerDies,
     Approval!RefusalNext, Approval!Show, Approval!DenyStatus, Approval!Revoke,
     Approval!CancelJob, Approval!RequestFails
<1>3. marked' \subseteq Approvers /\ killed' \subseteq Approvers
  BY DEF ApprovalsRest, Approval!Next, Approval!vars, Approval!Create, Approval!Await,
     Approval!Lapse, Approval!AskingEnds, Approval!Crash, Approval!ApproveNext, Approval!Settle,
     Approval!ApprovePreview, Approval!ApproveStatus, Approval!ApproveBegin,
     Approval!ApproveClaim, Approval!ApproveRecover, Approval!ApproveDispatch,
     Approval!ApproveFails, Approval!ApproveEnds, Approval!ApproveAborted, Approval!WorkerNext,
     Approval!WorkerRecover, Approval!WorkerConsume, Approval!WorkerFails, Approval!WorkerDies,
     Approval!RefusalNext, Approval!Show, Approval!DenyStatus, Approval!Revoke,
     Approval!CancelJob, Approval!RequestFails
<1>4. lapsed' \in BOOLEAN
  BY <1>2, Zenon DEF ApprovalsRest
<1>5. faults' \in 0..ApprovalFaults
  BY <1>1 DEF ApprovalsRest
<1> QED
  BY <1>3, <1>4, <1>5, Zenon DEF ApprovalsRest

LEMMA ApprovalTypes == ASSUME ApprovalInv, ApprovalsRest PROVE Approval!TypeOK
  BY DEF ApprovalInv, ApprovalShapes, ApprovalsRest, Approval!TypeOK, Statuses, Places

LEMMA EffectFollows == ApprovalInv => Approval!EffectApproved
<1> SUFFICES ASSUME ApprovalInv PROVE Approval!EffectApproved
  OBVIOUS
<1>1. effects > 0 => effects = 1
  BY DEF ApprovalInv, ApprovalShapes, ApprovalTrue
<1>2. QED
  BY <1>1 DEF ApprovalInv, ApprovalTrue, WorkOwned, Begun, Approval!EffectApproved

(* EffectApproved (approvals.ts consume, revoke; server.ts approveGatewayApproval; *)
(* jobs.ts settleApproval): one effect at most, of a request that was approved and *)
(* not revoked, and a job's end that tells of it.                                  *)
THEOREM EffectApprovedAlways == ASSUME Disjoint PROVE Approval!Spec => []Approval!EffectApproved
<1>1. Approval!Init => ApprovalInv
  BY ApprovalInitInv
<1>2. ApprovalInv /\ [Approval!Next]_Approval!vars => ApprovalInv'
  BY ApprovalStep
<1>3. ApprovalInv => Approval!EffectApproved
  BY EffectFollows
<1>4. QED
  BY <1>1, <1>2, <1>3, PTL DEF Approval!Spec

---------------------------------------------------------------------------
(* Telemetry (AsyncTelemetry): records are numbered without a gap, settled   *)
(* ones first, and a wakeup is never revoked but by a flush that drains.     *)

TelemetryAssumption ==
  /\ MaxQueue \in Nat /\ MaxBatch \in Nat /\ MaxRecords \in Nat

Counts == [accepted : Nat, overflow : Nat, exported : Nat, dropped : Nat, settled : Nat,
           firstFailed : Nat, failures : Nat]
FlushCalls == [at : {"idle", "loop", "wait", "resumed"} \cup Telemetry!Returned,
               mark : Nat, failures : Nat]

BufferShapes ==
  /\ state \in {"running", "stopping", "stopped"}
  /\ queue \in Seq(1..MaxRecords) /\ batch \in Seq(1..MaxRecords)
  /\ Len(queue) + Len(batch) <= MaxQueue /\ Len(batch) <= MaxBatch
  /\ pump \in {"none", "racing", "late", "answered", "ended"}
  /\ answer \in 0..Telemetry!NoAnswer /\ micro \in Nat
  /\ physical \in BOOLEAN /\ wedged \in BOOLEAN /\ scheduled \in BOOLEAN
  /\ timer \in BOOLEAN /\ delayed \in BOOLEAN
  /\ count \in Counts /\ flushes \in [Telemetry!Callers -> FlushCalls]
  /\ count.accepted + count.overflow <= MaxRecords /\ micro <= count.accepted

(* Records carry the numbers of their acceptance: first what is settled,   *)
(* then the batch, then the queue, and nothing is in between.              *)
Numbered ==
  /\ count.settled = count.accepted - Len(queue) - Len(batch)
  /\ \A i \in 1..Len(batch) : batch[i] = count.settled + i
  /\ \A i \in 1..Len(queue) : queue[i] = count.settled + Len(batch) + i

Ledger ==
  /\ count.accepted = Len(queue) + Len(batch) + count.exported + count.dropped
  /\ batch # <<>> <=> pump \in {"racing", "late", "answered"}
  /\ pump \in {"late", "answered"} => answer \in 0..Len(batch) \cup {Telemetry!NoAnswer}

(* #firstFailedSequence is a bound of all that was lost. *)
FailuresKnown ==
  /\ count.firstFailed <= count.settled
  /\ \A s \in lost : /\ s \in Nat /\ count.firstFailed # 0
                     /\ count.firstFailed <= s /\ s <= count.settled
  /\ \A c \in Telemetry!Callers :
       flushes[c].at = "true" => count.settled >= flushes[c].mark /\ \A s \in lost : s > flushes[c].mark
  /\ wedged => physical

(* A wakeup that is marked as scheduled comes; and the flush that revoked   *)
(* one has records of the queue to wait for.                                *)
Wakeful ==
  /\ scheduled => micro > 0 \/ timer
  /\ state = "running" /\ queue # <<>> =>
       \/ pump # "none" \/ physical
       \/ scheduled
       \/ \E c \in Telemetry!Callers : flushes[c].at = "loop" /\ count.settled < flushes[c].mark

TelemetryInv == BufferShapes /\ Numbered /\ Ledger /\ FailuresKnown /\ Wakeful

(* The empty buffer. *)
LEMMA TelemetryInit ==
  ASSUME TelemetryAssumption, Telemetry!Init
  PROVE TelemetryInv
<1> USE DEF TelemetryAssumption, Telemetry!Init
<1>1. queue = <<>> /\ batch = <<>> /\ Len(queue) = 0 /\ Len(batch) = 0
      /\ queue \in Seq(1..MaxRecords) /\ batch \in Seq(1..MaxRecords)
  BY EmptySeq
<1>2. count \in Counts /\ flushes \in [Telemetry!Callers -> FlushCalls]
  BY DEF Counts, FlushCalls, Telemetry!Returned
<1>3. count.accepted + count.overflow <= MaxRecords /\ micro <= count.accepted
      /\ answer \in 0..Telemetry!NoAnswer
  BY DEF Telemetry!NoAnswer
<1>5. /\ state \in {"running", "stopping", "stopped"} /\ micro \in Nat
      /\ pump \in {"none", "racing", "late", "answered", "ended"}
      /\ Len(queue) + Len(batch) <= MaxQueue /\ Len(batch) <= MaxBatch
  BY <1>1
<1>6. /\ physical \in BOOLEAN /\ wedged \in BOOLEAN /\ scheduled \in BOOLEAN
      /\ timer \in BOOLEAN /\ delayed \in BOOLEAN
  OBVIOUS
<1>4. BufferShapes BY <1>1, <1>2, <1>3, <1>5, <1>6, Zenon DEF BufferShapes
<1> QED BY <1>1, <1>4 DEF TelemetryInv, Numbered, Ledger, FailuresKnown, Wakeful

(* schedulePump marks a wakeup that comes, and leaves a running buffer awake. *)
LEMMA Scheduled ==
  ASSUME TelemetryAssumption, TelemetryInv, NEW later \in BOOLEAN, Telemetry!SchedulePump(later),
         later \/ micro = 0
  PROVE /\ scheduled' \in BOOLEAN /\ timer' \in BOOLEAN /\ micro' \in Nat
        /\ micro' <= count.accepted
        /\ scheduled' => micro' > 0 \/ timer'
        /\ state = "running" /\ queue # <<>> => scheduled' \/ pump' # "none" \/ physical'
<1>1. queue # <<>> => count.accepted >= 1
  <2>1. queue # <<>> => Len(queue) >= 1
    BY EmptySeq DEF TelemetryInv, BufferShapes
  <2> QED BY <2>1, LenProperties DEF TelemetryInv, BufferShapes, Numbered, Counts
<1> DEFINE now == /\ state = "running" /\ ~scheduled /\ pump' = "none" /\ ~physical'
                  /\ queue # <<>> \/ later
<1> USE DEF Telemetry!SchedulePump
<1>2. /\ scheduled \in BOOLEAN /\ timer \in BOOLEAN /\ micro \in Nat /\ micro <= count.accepted
      /\ count.accepted \in Nat /\ (scheduled => micro > 0 \/ timer)
  BY DEF TelemetryInv, BufferShapes, Wakeful, Counts
<1>3. CASE now /\ later
  <2>1. scheduled' = TRUE /\ micro' = micro /\ timer' = (timer \/ later) BY <1>3, Zenon
  <2>2. timer' = TRUE BY <2>1, <1>3
  <2> QED BY <2>1, <2>2, <1>2
<1>4. CASE now /\ ~later
  <2>1. scheduled' = TRUE /\ micro' = micro + 1 /\ timer' = (timer \/ later) BY <1>4, Zenon
  <2>2. timer' \in BOOLEAN BY <2>1
  <2>3. micro = 0 /\ queue # <<>> BY <1>4, Zenon
  <2> QED BY <2>1, <2>2, <2>3, <1>1, <1>2
<1>5. CASE ~now
  <2>1. scheduled' = scheduled /\ micro' = micro /\ timer' = timer
    BY <1>5, Zenon DEF Telemetry!wakeups
  <2>2. state = "running" /\ queue # <<>> => scheduled \/ pump' # "none" \/ physical'
    BY <1>5, Zenon
  <2> QED BY <2>1, <2>2, <1>2
<1> QED BY <1>3, <1>4, <1>5

(* What is taken from a queue and what stays of it. *)
LEMMA SplitQueue ==
  ASSUME NEW S, NEW q \in Seq(S), NEW n \in Nat, 1 <= n, n <= Len(q)
  PROVE /\ SubSeq(q, 1, n) \in Seq(S) /\ SubSeq(q, n + 1, Len(q)) \in Seq(S)
        /\ Len(SubSeq(q, 1, n)) = n /\ Len(SubSeq(q, n + 1, Len(q))) = Len(q) - n
        /\ SubSeq(q, 1, n) # <<>>
        /\ \A i \in 1..n : SubSeq(q, 1, n)[i] = q[i]
        /\ \A i \in 1..(Len(q) - n) : SubSeq(q, n + 1, Len(q))[i] = q[n + i]
<1>1. Len(q) \in Nat BY LenProperties
<1>2. \A i \in 1..n : q[i] \in S BY <1>1, ElementOfSeq
<1>3. \A i \in (n + 1)..Len(q) : q[i] \in S BY <1>1, ElementOfSeq
<1>4. /\ SubSeq(q, 1, n) \in Seq(S) /\ Len(SubSeq(q, 1, n)) = n
      /\ \A i \in 1..n : SubSeq(q, 1, n)[i] = q[i]
  BY <1>1, SubSeqProperties
<1>5. /\ SubSeq(q, n + 1, Len(q)) \in Seq(S) /\ Len(SubSeq(q, n + 1, Len(q))) = Len(q) - n
      /\ \A i \in 1..(Len(q) - n) : SubSeq(q, n + 1, Len(q))[i] = q[n + i]
  BY <1>1, SubSeqProperties
<1>6. SubSeq(q, 1, n) # <<>>
  BY <1>4, Len(<<>>) = 0
<1> QED BY <1>4, <1>5, <1>6

(* drainOne: the batch continues what is settled, the queue continues the    *)
(* batch; an empty queue ends the pump.                                      *)
LEMMA PumpStarts ==
  ASSUME TelemetryAssumption, TelemetryInv, Telemetry!StartPump, pump = "none",
         UNCHANGED <<state, answer, wedged, delayed, count, lost>>,
         flushes' \in [Telemetry!Callers -> FlushCalls],
         scheduled' \in BOOLEAN, timer' \in BOOLEAN, micro' \in Nat, micro' <= count.accepted,
         scheduled' => micro' > 0 \/ timer',
         \A c \in Telemetry!Callers : flushes'[c].at = "true" => flushes[c] = flushes'[c]
  PROVE TelemetryInv'
<1> USE DEF TelemetryInv
<1>1. CASE queue = <<>>
  <2>1. pump' = "ended" /\ UNCHANGED <<queue, batch, physical>> BY <1>1 DEF Telemetry!StartPump
  <2>2. BufferShapes' BY <2>1 DEF BufferShapes
  <2>3. Numbered' BY <2>1 DEF Numbered
  <2>4. Ledger' BY <2>1 DEF Ledger
  <2>5. FailuresKnown' BY <2>1 DEF FailuresKnown
  <2>6. Wakeful' BY <2>1 DEF Wakeful
  <2> QED BY <2>2, <2>3, <2>4, <2>5, <2>6
<1>2. CASE queue # <<>>
  <2>1. PICK n \in 1..MaxBatch :
          /\ n <= Len(queue)
          /\ batch' = SubSeq(queue, 1, n) /\ queue' = SubSeq(queue, n + 1, Len(queue))
          /\ pump' = "racing" /\ physical' = TRUE
    BY <1>2 DEF Telemetry!StartPump
  <2>2. /\ n \in Nat /\ 1 <= n /\ queue \in Seq(1..MaxRecords) /\ n <= MaxBatch
    BY DEF TelemetryAssumption, BufferShapes
  <2>3. /\ batch' \in Seq(1..MaxRecords) /\ queue' \in Seq(1..MaxRecords)
        /\ Len(batch') = n /\ Len(queue') = Len(queue) - n /\ batch' # <<>>
        /\ \A i \in 1..n : batch'[i] = queue[i]
        /\ \A i \in 1..(Len(queue) - n) : queue'[i] = queue[n + i]
    BY <2>1, <2>2, SplitQueue
  <2>4. batch = <<>> /\ Len(batch) = 0 BY EmptySeq DEF Ledger
  <2>5. BufferShapes'
    <3>1. Len(queue') + Len(batch') <= MaxQueue /\ Len(batch') <= MaxBatch
      BY <2>2, <2>3, <2>4, LenProperties DEF TelemetryAssumption, BufferShapes
    <3> QED BY <2>1, <2>3, <3>1 DEF BufferShapes
  <2>a. /\ Len(queue) \in Nat /\ count.settled \in Nat /\ count.accepted \in Nat
        /\ count.exported \in Nat /\ count.dropped \in Nat
    BY LenProperties DEF BufferShapes, Counts
  <2>6. Numbered'
    <3>1. count'.settled = count'.accepted - Len(queue') - Len(batch')
      BY <2>2, <2>3, <2>4, <2>a DEF Numbered
    <3>2. \A i \in 1..Len(batch') : batch'[i] = count'.settled + i
      <4>1. ASSUME NEW i \in 1..n PROVE batch'[i] = count.settled + i
        <5>1. i \in 1..Len(queue) BY <2>1, <2>2, <2>a
        <5>2. queue[i] = count.settled + Len(batch) + i BY <5>1 DEF Numbered
        <5>3. batch'[i] = queue[i] BY <2>3
        <5> QED BY <2>2, <2>4, <2>a, <5>2, <5>3
      <4>2. count'.settled = count.settled OBVIOUS
      <4>3. Len(batch') = n BY <2>3
      <4> QED BY ONLY <4>1, <4>2, <4>3
    <3>3. \A i \in 1..Len(queue') : queue'[i] = count'.settled + Len(batch') + i
      <4>1. ASSUME NEW i \in 1..(Len(queue) - n)
            PROVE queue'[i] = count.settled + n + i
        <5>1. n + i \in 1..Len(queue) BY <2>2, <2>a
        <5>2. queue[n + i] = count.settled + Len(batch) + (n + i) BY <5>1 DEF Numbered
        <5>3. queue'[i] = queue[n + i] BY <2>3
        <5> QED BY <2>2, <2>4, <2>a, <5>2, <5>3
      <4>2. count'.settled = count.settled OBVIOUS
      <4>3. Len(queue') = Len(queue) - n /\ Len(batch') = n BY <2>3
      <4> QED BY ONLY <4>1, <4>2, <4>3
    <3> QED BY <3>1, <3>2, <3>3 DEF Numbered
  <2>7. Ledger'
    <3>1. count'.accepted = Len(queue') + Len(batch') + count'.exported + count'.dropped
      BY <2>2, <2>3, <2>4, <2>a DEF Ledger
    <3> QED BY <2>1, <2>3, <3>1 DEF Ledger
  <2>8. FailuresKnown' BY <2>1 DEF FailuresKnown
  <2>9. Wakeful' BY <2>1 DEF Wakeful
  <2> QED BY <2>5, <2>6, <2>7, <2>8, <2>9
<1> QED BY <1>1, <1>2

(* Record: a full buffer drops the new record; else it takes the next number. *)
LEMMA NewRecordKeeps ==
  ASSUME TelemetryAssumption, TelemetryInv, Telemetry!Record
  PROVE TelemetryInv'
<1> USE DEF TelemetryInv
<1>1. /\ Len(queue) \in Nat /\ Len(batch) \in Nat /\ count \in Counts
      /\ count.accepted \in Nat /\ count.overflow \in Nat /\ count.settled \in Nat
      /\ count.exported \in Nat /\ count.dropped \in Nat
      /\ state = "running" /\ count.accepted + count.overflow < MaxRecords
  BY LenProperties DEF BufferShapes, Counts, Telemetry!Record
<1>2. CASE Len(queue) + Len(batch) >= MaxQueue
  <2>1. count' = [count EXCEPT !.overflow = @ + 1] /\ UNCHANGED <<queue, Telemetry!wakeups>>
    BY <1>2 DEF Telemetry!Record
  <2>2. UNCHANGED <<state, batch, pump, answer, physical, wedged, delayed, flushes, lost>>
    BY DEF Telemetry!Record
  <2>3. /\ count' \in Counts /\ count'.overflow = count.overflow + 1
        /\ count'.accepted = count.accepted /\ count'.settled = count.settled
        /\ count'.exported = count.exported /\ count'.dropped = count.dropped
        /\ count'.firstFailed = count.firstFailed
    BY <1>1, <2>1 DEF Counts
  <2>4. BufferShapes'
    BY <1>1, <2>1, <2>2, <2>3 DEF BufferShapes, Telemetry!wakeups, TelemetryAssumption
  <2>5. Numbered' BY <2>1, <2>2, <2>3 DEF Numbered
  <2>6. Ledger' BY <2>1, <2>2, <2>3 DEF Ledger
  <2>7. FailuresKnown' BY <2>1, <2>2, <2>3 DEF FailuresKnown
  <2>8. Wakeful' BY <2>1, <2>2, <2>3 DEF Wakeful, Telemetry!wakeups
  <2> QED BY <2>4, <2>5, <2>6, <2>7, <2>8
<1>3. CASE ~(Len(queue) + Len(batch) >= MaxQueue)
  <2>1. /\ count' = [count EXCEPT !.accepted = @ + 1]
        /\ queue' = Append(queue, count.accepted + 1)
    BY <1>3 DEF Telemetry!Record
  <2>2. UNCHANGED <<state, batch, pump, answer, physical, wedged, delayed, flushes, lost>>
    BY DEF Telemetry!Record
  <2>3. /\ count' \in Counts /\ count'.accepted = count.accepted + 1
        /\ count'.overflow = count.overflow /\ count'.settled = count.settled
        /\ count'.exported = count.exported /\ count'.dropped = count.dropped
        /\ count'.firstFailed = count.firstFailed
    <3>1. count' = [count EXCEPT !.accepted = @ + 1] BY <2>1
    <3> QED BY ONLY <1>1, <3>1 DEF Counts
  <2>4. IF ~scheduled /\ pump = "none" /\ ~physical
        THEN scheduled' = TRUE /\ micro' = micro + 1 /\ UNCHANGED timer
        ELSE UNCHANGED Telemetry!wakeups
    BY <1>3, Zenon DEF Telemetry!Record
  <2>5. count.accepted + 1 \in 1..MaxRecords
    BY <1>1 DEF TelemetryAssumption
  <2>6. /\ queue' \in Seq(1..MaxRecords) /\ Len(queue') = Len(queue) + 1
        /\ \A i \in 1..Len(queue) : queue'[i] = queue[i]
        /\ queue'[Len(queue) + 1] = count.accepted + 1
    BY <2>1, <2>5, AppendProperties DEF BufferShapes
  <2>7. /\ scheduled' \in BOOLEAN /\ timer' \in BOOLEAN /\ micro' \in Nat
        /\ micro' <= count.accepted + 1
        /\ scheduled' => micro' > 0 \/ timer'
        /\ scheduled' \/ pump # "none" \/ physical
    <3>1. CASE ~scheduled /\ pump = "none" /\ ~physical
      BY <1>1, <2>4, <3>1 DEF BufferShapes
    <3>2. CASE ~(~scheduled /\ pump = "none" /\ ~physical)
      <4>1. scheduled' = scheduled /\ micro' = micro /\ timer' = timer
        BY <2>4, <3>2 DEF Telemetry!wakeups
      <4> QED BY <1>1, <4>1, <3>2 DEF BufferShapes, Wakeful
    <3> QED BY <3>1, <3>2
  <2>8. BufferShapes'
    <3>1. Len(queue') + Len(batch') <= MaxQueue /\ Len(batch') <= MaxBatch
      BY <1>1, <1>3, <2>2, <2>6 DEF BufferShapes, TelemetryAssumption
    <3>2. count'.accepted + count'.overflow <= MaxRecords /\ micro' <= count'.accepted
      BY <1>1, <2>3, <2>7 DEF TelemetryAssumption
    <3> QED BY <2>2, <2>3, <2>6, <2>7, <3>1, <3>2 DEF BufferShapes
  <2>9. Numbered'
    <3>1. count'.settled = count'.accepted - Len(queue') - Len(batch')
      BY <1>1, <2>2, <2>3, <2>6 DEF Numbered
    <3>2. ASSUME NEW i \in 1..(Len(queue) + 1)
          PROVE queue'[i] = count.settled + Len(batch) + i
      <4>1. CASE i \in 1..Len(queue) BY <4>1, <2>6 DEF Numbered
      <4>2. CASE i = Len(queue) + 1 BY <4>2, <1>1, <2>6 DEF Numbered
      <4> QED BY <4>1, <4>2, <1>1
    <3>3. count'.settled = count.settled /\ batch' = batch /\ Len(queue') = Len(queue) + 1
      BY <2>2, <2>3, <2>6
    <3>4. \A i \in 1..Len(queue') : queue'[i] = count'.settled + Len(batch') + i
      BY ONLY <3>2, <3>3
    <3> QED BY <3>1, <3>3, <3>4 DEF Numbered
  <2>10. Ledger' BY <1>1, <2>2, <2>3, <2>6 DEF Ledger
  <2>11. FailuresKnown' BY <2>2, <2>3 DEF FailuresKnown
  <2>12. Wakeful' BY <2>2, <2>7 DEF Wakeful
  <2> QED BY <2>8, <2>9, <2>10, <2>11, <2>12
<1> QED BY <1>2, <1>3

(* Wakeup: the pump starts, unless one runs or the exporter has not let go. *)
LEMMA WakeupKeeps ==
  ASSUME TelemetryAssumption, TelemetryInv, Telemetry!Wakeup
  PROVE TelemetryInv'
<1> USE DEF TelemetryInv
<1>1. /\ scheduled' = FALSE /\ timer' \in BOOLEAN /\ micro' \in Nat
      /\ micro' <= count.accepted
  <2>1. /\ micro \in Nat /\ micro <= count.accepted /\ timer \in BOOLEAN
        /\ count.accepted \in Nat
    BY DEF BufferShapes, Counts
  <2>2. CASE micro > 0 /\ micro' = micro - 1 /\ UNCHANGED timer
    BY <2>1, <2>2 DEF Telemetry!Wakeup
  <2>3. CASE micro = 0 /\ timer /\ timer' = FALSE /\ UNCHANGED micro
    BY <2>1, <2>3 DEF Telemetry!Wakeup
  <2>4. \/ micro > 0 /\ micro' = micro - 1 /\ UNCHANGED timer
        \/ micro = 0 /\ timer /\ timer' = FALSE /\ UNCHANGED micro
    BY DEF Telemetry!Wakeup
  <2> QED BY <2>2, <2>3, <2>4
<1>2. UNCHANGED <<state, answer, wedged, delayed, count, flushes, lost>> BY DEF Telemetry!Wakeup
<1>3. CASE pump = "none" /\ ~physical
  <2>1. Telemetry!StartPump BY <1>3 DEF Telemetry!Wakeup
  <2>2. flushes' \in [Telemetry!Callers -> FlushCalls] BY <1>2 DEF BufferShapes
  <2> QED BY <1>1, <1>2, <1>3, <2>1, <2>2, PumpStarts
<1>4. CASE ~(pump = "none" /\ ~physical)
  <2>1. UNCHANGED <<pump, queue, batch, physical>> BY <1>4 DEF Telemetry!Wakeup
  <2>2. BufferShapes' BY <1>1, <1>2, <2>1 DEF BufferShapes
  <2>3. Numbered' BY <1>2, <2>1 DEF Numbered
  <2>4. Ledger' BY <1>2, <2>1 DEF Ledger
  <2>5. FailuresKnown' BY <1>2, <2>1 DEF FailuresKnown
  <2>6. Wakeful' BY <1>1, <1>2, <1>4, <2>1 DEF Wakeful
  <2> QED BY <2>2, <2>3, <2>4, <2>5, <2>6
<1> QED BY <1>3, <1>4

(* The exporter settles in time, times out, or settles late. *)
LEMMA ExporterKeeps ==
  ASSUME TelemetryAssumption, TelemetryInv,
         Telemetry!Answer \/ Telemetry!Timeout \/ Telemetry!LateAnswer
  PROVE TelemetryInv'
<1> USE DEF TelemetryInv
<1>1. UNCHANGED <<state, queue, batch, count, flushes, lost>>
  BY DEF Telemetry!Answer, Telemetry!Timeout, Telemetry!LateAnswer
<1>2. Numbered' BY <1>1 DEF Numbered
<1>3. Len(batch) \in Nat BY LenProperties DEF BufferShapes
<1>4. CASE Telemetry!Answer \/ Telemetry!Timeout
  <2>1. /\ pump = "racing" /\ pump' \in {"answered", "late"}
        /\ answer' \in 0..Len(batch) \cup {Telemetry!NoAnswer}
        /\ UNCHANGED <<delayed, Telemetry!wakeups>>
    BY <1>4 DEF Telemetry!Answer, Telemetry!Timeout
  <2>2. /\ physical' \in BOOLEAN /\ wedged' \in BOOLEAN /\ (wedged' => physical')
    <3>1. CASE Telemetry!Answer BY <3>1 DEF Telemetry!Answer, BufferShapes, FailuresKnown
    <3>2. CASE Telemetry!Timeout BY <3>2 DEF Telemetry!Timeout, BufferShapes
    <3> QED BY <1>4, <3>1, <3>2
  <2>3. answer' \in 0..Telemetry!NoAnswer
    BY <1>3, <2>1 DEF BufferShapes, Telemetry!NoAnswer, TelemetryAssumption
  <2>4. BufferShapes' BY <1>1, <2>1, <2>2, <2>3 DEF BufferShapes, Telemetry!wakeups
  <2>5. Ledger' BY <1>1, <2>1 DEF Ledger
  <2>6. FailuresKnown' BY <1>1, <2>2 DEF FailuresKnown
  <2>7. Wakeful' BY <1>1, <2>1 DEF Wakeful, Telemetry!wakeups
  <2> QED BY <1>2, <2>4, <2>5, <2>6, <2>7
<1>5. CASE Telemetry!LateAnswer
  <2>1. /\ physical' = FALSE /\ wedged' = FALSE /\ delayed' = FALSE
        /\ UNCHANGED <<pump, answer>> /\ Telemetry!SchedulePump(TRUE)
    BY <1>5 DEF Telemetry!LateAnswer
  <2>2. /\ scheduled' \in BOOLEAN /\ timer' \in BOOLEAN /\ micro' \in Nat
        /\ micro' <= count.accepted
        /\ scheduled' => micro' > 0 \/ timer'
        /\ state = "running" /\ queue # <<>> => scheduled' \/ pump' # "none" \/ physical'
    BY <2>1, Scheduled
  <2>3. BufferShapes' BY <1>1, <2>1, <2>2 DEF BufferShapes
  <2>4. Ledger' BY <1>1, <2>1 DEF Ledger
  <2>5. FailuresKnown' BY <1>1, <2>1 DEF FailuresKnown
  <2>6. Wakeful' BY <1>1, <2>2 DEF Wakeful
  <2> QED BY <1>2, <2>3, <2>4, <2>5, <2>6
<1> QED BY <1>4, <1>5

(* Settle: the batch is counted, and lost as a whole when it failed. *)
LEMMA SettleKeeps ==
  ASSUME TelemetryAssumption, TelemetryInv, Telemetry!Settle
  PROVE TelemetryInv'
<1> USE DEF TelemetryInv
<1> DEFINE taken == IF answer = Telemetry!NoAnswer THEN 0 ELSE answer
           failed == pump = "late" \/ taken < Len(batch)
           first == IF failed THEN Telemetry!FirstFailed(count.firstFailed) ELSE count.firstFailed
<1>1. /\ Len(queue) \in Nat /\ Len(batch) \in Nat /\ Len(batch) >= 1
      /\ batch # <<>> /\ pump \in {"answered", "late"}
  BY LenProperties, EmptySeq DEF Telemetry!Settle, Ledger, BufferShapes
<1>2. taken \in 0..Len(batch) BY <1>1 DEF Ledger
<1>3. /\ count \in Counts
      /\ count.accepted \in Nat /\ count.overflow \in Nat /\ count.settled \in Nat
      /\ count.exported \in Nat /\ count.dropped \in Nat /\ count.firstFailed \in Nat
      /\ count.failures \in Nat
  BY DEF BufferShapes, Counts
<1>4. batch[Len(batch)] = count.settled + Len(batch) /\ batch[1] = count.settled + 1
  BY <1>1, <1>3 DEF Numbered
<1>5. count' = [count EXCEPT
              !.exported = @ + taken, !.dropped = @ + (Len(batch) - taken),
              !.settled = batch[Len(batch)],
              !.firstFailed = IF failed THEN Telemetry!FirstFailed(@) ELSE @,
              !.failures = IF failed THEN @ + 1 ELSE @]
  BY DEF Telemetry!Settle
<1>6. /\ delayed' = (failed /\ (delayed \/ state = "running"))
      /\ lost' = IF failed THEN lost \cup {batch[i] : i \in 1..Len(batch)} ELSE lost
      /\ batch' = <<>> /\ pump' = "ended"
      /\ UNCHANGED <<state, queue, answer, physical, wedged, Telemetry!wakeups, flushes>>
  BY DEF Telemetry!Settle
<1>7. /\ first \in Nat
      /\ failed => first # 0 /\ first <= count.settled + 1
      /\ first # count.firstFailed => failed
      /\ count.firstFailed # 0 => first = count.firstFailed
      /\ ~failed => first = count.firstFailed
  BY <1>3, <1>4 DEF Telemetry!FirstFailed, FailuresKnown
<1>8. /\ count' \in Counts
      /\ count'.accepted = count.accepted /\ count'.overflow = count.overflow
      /\ count'.exported = count.exported + taken
      /\ count'.dropped = count.dropped + (Len(batch) - taken)
      /\ count'.settled = count.settled + Len(batch)
      /\ count'.firstFailed = first
  <2> DEFINE e == count.exported + taken
             d == count.dropped + (Len(batch) - taken)
             f == IF failed THEN count.failures + 1 ELSE count.failures
  <2>1. e \in Nat /\ d \in Nat BY <1>1, <1>2, <1>3
  <2>2. f \in Nat BY <1>3
  <2>3. batch[Len(batch)] = count.settled + Len(batch) /\ batch[Len(batch)] \in Nat
    BY <1>1, <1>3, <1>4
  <2>4. count' = [count EXCEPT !.exported = e, !.dropped = d, !.settled = batch[Len(batch)],
                               !.firstFailed = first, !.failures = f]
    BY <1>5
  <2>5. first \in Nat BY <1>7
  <2> HIDE DEF e, d, f, first
  <2>6. /\ count' \in Counts
        /\ count'.accepted = count.accepted /\ count'.overflow = count.overflow
        /\ count'.exported = e /\ count'.dropped = d
        /\ count'.settled = batch[Len(batch)] /\ count'.firstFailed = first
    BY <1>3, <2>1, <2>2, <2>3, <2>4, <2>5 DEF Counts
  <2> QED BY <2>3, <2>6 DEF e, d
<1> HIDE DEF taken, failed, first
<1>9. BufferShapes'
  <2>1. batch' \in Seq(1..MaxRecords) /\ Len(batch') = 0 BY <1>6, EmptySeq
  <2>2. Len(queue') + Len(batch') <= MaxQueue /\ Len(batch') <= MaxBatch
    BY <1>1, <1>6, <2>1 DEF BufferShapes, TelemetryAssumption
  <2>3. delayed' \in BOOLEAN BY <1>6
  <2> QED BY <1>6, <1>8, <2>1, <2>2, <2>3 DEF BufferShapes, Telemetry!wakeups
<1>10. Numbered'
  <2>1. Len(batch') = 0 /\ queue' = queue BY <1>6, EmptySeq
  <2>2. count'.settled = count'.accepted - Len(queue') - Len(batch')
    BY <1>1, <1>3, <1>8, <2>1 DEF Numbered
  <2>3. ASSUME NEW i \in 1..Len(queue)
        PROVE queue'[i] = count'.settled + Len(batch') + i
    BY <1>1, <1>3, <1>8, <2>1 DEF Numbered
  <2> QED BY <2>1, <2>2, <2>3 DEF Numbered
<1>11. Ledger'
  <2>1. Len(batch') = 0 /\ queue' = queue BY <1>6, EmptySeq
  <2> QED BY <1>1, <1>2, <1>3, <1>6, <1>8, <2>1 DEF Ledger
<1>12. FailuresKnown'
  <2>1. count'.firstFailed <= count'.settled
    <3>1. CASE failed BY <1>1, <1>3, <1>7, <1>8, <3>1
    <3>2. CASE ~failed BY <1>1, <1>3, <1>7, <1>8, <3>2 DEF FailuresKnown
    <3> QED BY <3>1, <3>2
  <2>2. ASSUME NEW s \in lost'
        PROVE /\ s \in Nat /\ count'.firstFailed # 0 /\ count'.firstFailed <= s
              /\ s <= count'.settled /\ (s \in lost \/ s > count.settled)
    <3>1. CASE s \in lost
      BY <1>1, <1>3, <1>7, <1>8, <3>1 DEF FailuresKnown
    <3>2. CASE s \notin lost
      <4>1. failed BY <1>6, <3>2
      <4>2. s \in {batch[i] : i \in 1..Len(batch)} BY <1>6, <3>2
      <4>3. PICK i \in 1..Len(batch) : s = batch[i] BY <4>2
      <4>4. s = count.settled + i BY <4>3 DEF Numbered
      <4>5. i \in Nat /\ 1 <= i /\ i <= Len(batch) BY <1>1
      <4>6. first \in Nat /\ first # 0 /\ first <= count.settled + 1 BY <1>7, <4>1
      <4>7. s \in Nat /\ s > count.settled /\ s <= count.settled + Len(batch) /\ first <= s
        <5>1. count.settled \in Nat /\ Len(batch) \in Nat BY <1>1, <1>3
        <5> QED BY ONLY <5>1, <4>4, <4>5, <4>6
      <4> QED BY <1>8, <4>6, <4>7
    <3> QED BY <3>1, <3>2
  <2>3. ASSUME NEW c \in Telemetry!Callers, flushes'[c].at = "true"
        PROVE count'.settled >= flushes'[c].mark /\ \A s \in lost' : s > flushes'[c].mark
    <3>1. flushes' = flushes /\ flushes[c] \in FlushCalls BY <1>6 DEF BufferShapes
    <3>2. flushes[c].mark \in Nat BY <3>1 DEF FlushCalls
    <3>3. count.settled >= flushes[c].mark /\ \A s \in lost : s > flushes[c].mark
      BY <2>3, <3>1 DEF FailuresKnown
    <3> QED BY <1>1, <1>3, <1>8, <2>2, <3>1, <3>2, <3>3
  <2>4. wedged' => physical' BY <1>6 DEF FailuresKnown
  <2> QED BY <2>1, <2>2, <2>3, <2>4 DEF FailuresKnown
<1>13. Wakeful' BY <1>6 DEF Wakeful, Telemetry!wakeups
<1> QED BY <1>9, <1>10, <1>11, <1>12, <1>13

(* PumpEnd: whoever waited resumes, and what is still queued is scheduled.  *)
LEMMA PumpEndKeeps ==
  ASSUME TelemetryAssumption, TelemetryInv, Telemetry!PumpEnd
  PROVE TelemetryInv'
<1> USE DEF TelemetryInv
<1>1. /\ pump = "ended" /\ micro = 0 /\ pump' = "none" /\ physical' = physical
      /\ UNCHANGED <<state, queue, batch, answer, wedged, count, lost>>
  BY DEF Telemetry!PumpEnd
<1>2. /\ flushes' \in [Telemetry!Callers -> FlushCalls]
      /\ \A c \in Telemetry!Callers : flushes'[c].at = "true" => flushes'[c] = flushes[c]
  <2>1. flushes' = [c \in Telemetry!Callers |->
                   IF flushes[c].at = "wait" THEN [flushes[c] EXCEPT !.at = "resumed"] ELSE flushes[c]]
    BY DEF Telemetry!PumpEnd
  <2>2. ASSUME NEW c \in Telemetry!Callers
        PROVE flushes'[c] \in FlushCalls /\ (flushes'[c].at = "true" => flushes'[c] = flushes[c])
    <3>1. flushes[c] \in FlushCalls BY DEF BufferShapes
    <3> QED BY <2>1, <3>1 DEF FlushCalls
  <2> QED BY <2>1, <2>2
<1>3. \/ physical /\ delayed' = delayed /\ UNCHANGED Telemetry!wakeups
      \/ delayed' = FALSE /\ Telemetry!SchedulePump(TRUE)
      \/ delayed' = delayed /\ Telemetry!SchedulePump(FALSE)
  BY Zenon DEF Telemetry!PumpEnd
<1>4. /\ scheduled' \in BOOLEAN /\ timer' \in BOOLEAN /\ micro' \in Nat
      /\ micro' <= count.accepted
      /\ scheduled' => micro' > 0 \/ timer'
      /\ state = "running" /\ queue # <<>> => scheduled' \/ pump' # "none" \/ physical'
      /\ delayed' \in BOOLEAN
  <2>1. CASE physical /\ delayed' = delayed /\ UNCHANGED Telemetry!wakeups
    <3>1. scheduled' = scheduled /\ micro' = micro /\ timer' = timer
      BY <2>1 DEF Telemetry!wakeups
    <3> QED BY <1>1, <2>1, <3>1 DEF BufferShapes, Wakeful
  <2>2. CASE delayed' = FALSE /\ Telemetry!SchedulePump(TRUE) BY <2>2, Scheduled
  <2>3. CASE delayed' = delayed /\ Telemetry!SchedulePump(FALSE)
    BY <1>1, <2>3, Scheduled DEF BufferShapes
  <2> QED BY <1>3, <2>1, <2>2, <2>3
<1>5. BufferShapes' BY <1>1, <1>2, <1>4 DEF BufferShapes
<1>6. Numbered' BY <1>1 DEF Numbered
<1>7. Ledger' BY <1>1 DEF Ledger
<1>8. FailuresKnown' BY <1>1, <1>2 DEF FailuresKnown
<1>9. Wakeful' BY <1>1, <1>4 DEF Wakeful
<1> QED BY <1>5, <1>6, <1>7, <1>8, <1>9

(* Flush and Shutdown revoke what is scheduled, and wait for what is queued. *)
LEMMA FlushKeeps ==
  ASSUME TelemetryAssumption, TelemetryInv,
         Telemetry!Shutdown \/ \E c \in Flushers : Telemetry!Flush(c)
  PROVE TelemetryInv'
<1> USE DEF TelemetryInv
<1>1. UNCHANGED <<queue, batch, pump, answer, physical, wedged, delayed, count, lost>>
  BY DEF Telemetry!Shutdown, Telemetry!Flush
<1>2. /\ Len(queue) \in Nat /\ Len(batch) \in Nat /\ count.accepted \in Nat
      /\ count.settled \in Nat /\ flushes \in [Telemetry!Callers -> FlushCalls]
      /\ queue # <<>> => count.settled < count.accepted
  <2>1. queue # <<>> => Len(queue) >= 1 BY EmptySeq DEF BufferShapes
  <2> QED BY <2>1, LenProperties DEF BufferShapes, Counts, Numbered
<1> DEFINE asked(at) == [at |-> at, mark |-> count.accepted, failures |-> 0]
<1>3. ASSUME NEW c \in Telemetry!Callers, NEW at \in {"loop", "clear", "false"},
             flushes' = [flushes EXCEPT ![c] = asked(at)]
      PROVE /\ flushes' \in [Telemetry!Callers -> FlushCalls]
            /\ \A d \in Telemetry!Callers : flushes'[d].at = "true" => flushes'[d] = flushes[d]
            /\ flushes'[c].at = at /\ flushes'[c].mark = count.accepted
  <2>1. asked(at) \in FlushCalls BY <1>2 DEF FlushCalls, Telemetry!Returned
  <2>2. asked(at).at = at /\ asked(at).mark = count.accepted OBVIOUS
  <2> HIDE DEF asked
  <2> QED BY <1>2, <1>3, <2>1, <2>2
<1>4. PICK c \in Telemetry!Callers :
        \/ /\ state' \in {"running", "stopping", "stopped"}
           /\ flushes' = [flushes EXCEPT ![c] = asked("loop")] /\ Telemetry!ClearBackoff
        \/ /\ state = "stopped" /\ state' = state /\ UNCHANGED Telemetry!wakeups
           /\ \E at \in {"clear", "false"} : flushes' = [flushes EXCEPT ![c] = asked(at)]
  <2>1. CASE Telemetry!Shutdown
    <3>1. Telemetry!Stopper \in Telemetry!Callers BY DEF Telemetry!Callers
    <3> QED BY <2>1, <3>1 DEF Telemetry!Shutdown
  <2>2. ASSUME NEW c \in Flushers, Telemetry!Flush(c)
        PROVE /\ c \in Telemetry!Callers
              /\ \/ /\ state' \in {"running", "stopping", "stopped"}
                    /\ flushes' = [flushes EXCEPT ![c] = asked("loop")] /\ Telemetry!ClearBackoff
                 \/ /\ state = "stopped" /\ state' = state /\ UNCHANGED Telemetry!wakeups
                    /\ \E at \in {"clear", "false"} : flushes' = [flushes EXCEPT ![c] = asked(at)]
    <3>1. state' = state /\ state \in {"running", "stopping", "stopped"}
      BY <2>2 DEF Telemetry!Flush, BufferShapes
    <3> QED BY <2>2, <3>1 DEF Telemetry!Flush, Telemetry!Callers
  <2> QED BY <2>1, <2>2
<1> HIDE DEF asked
<1>5. Numbered' BY <1>1 DEF Numbered
<1>6. Ledger' BY <1>1 DEF Ledger
<1>7. CASE /\ state' \in {"running", "stopping", "stopped"}
           /\ flushes' = [flushes EXCEPT ![c] = asked("loop")] /\ Telemetry!ClearBackoff
  <2>1. /\ flushes' \in [Telemetry!Callers -> FlushCalls]
        /\ \A d \in Telemetry!Callers : flushes'[d].at = "true" => flushes'[d] = flushes[d]
        /\ flushes'[c].at = "loop" /\ flushes'[c].mark = count.accepted
    BY <1>3, <1>7
  <2>2. scheduled' = FALSE /\ timer' = FALSE /\ micro' = micro
    BY <1>7 DEF Telemetry!ClearBackoff
  <2>3. BufferShapes' BY <1>1, <1>7, <2>1, <2>2 DEF BufferShapes
  <2>4. FailuresKnown' BY <1>1, <2>1 DEF FailuresKnown
  <2>5. Wakeful' BY <1>1, <1>2, <2>1, <2>2 DEF Wakeful
  <2> QED BY <1>5, <1>6, <2>3, <2>4, <2>5
<1>8. CASE /\ state = "stopped" /\ state' = state /\ UNCHANGED Telemetry!wakeups
           /\ \E at \in {"clear", "false"} : flushes' = [flushes EXCEPT ![c] = asked(at)]
  <2>1. /\ flushes' \in [Telemetry!Callers -> FlushCalls]
        /\ \A d \in Telemetry!Callers : flushes'[d].at = "true" => flushes'[d] = flushes[d]
    BY <1>3, <1>8
  <2>2. BufferShapes' BY <1>1, <1>8, <2>1 DEF BufferShapes, Telemetry!wakeups
  <2>3. FailuresKnown' BY <1>1, <2>1 DEF FailuresKnown
  <2>4. Wakeful' BY <1>1, <1>8 DEF Wakeful, Telemetry!wakeups
  <2> QED BY <1>5, <1>6, <2>2, <2>3, <2>4
<1> QED BY <1>4, <1>7, <1>8

(* flushWithin answers by what has failed so far, gives up on an exporter   *)
(* that hangs, or waits for a pump.                                         *)
LEMMA FlushLoopKeeps ==
  ASSUME TelemetryAssumption, TelemetryInv, NEW c \in Telemetry!Callers, Telemetry!FlushLoop(c)
  PROVE TelemetryInv'
<1> USE DEF TelemetryInv
<1>1. /\ UNCHANGED <<state, answer, wedged, Telemetry!wakeups, delayed, count, lost>>
      /\ flushes[c].at = "loop"
      /\ scheduled' = scheduled /\ micro' = micro /\ timer' = timer
  BY DEF Telemetry!FlushLoop, Telemetry!wakeups
<1>2. /\ flushes \in [Telemetry!Callers -> FlushCalls] /\ flushes[c] \in FlushCalls /\ flushes[c].mark \in Nat
      /\ count.settled \in Nat /\ count.firstFailed \in Nat /\ count.failures \in Nat
  BY DEF BufferShapes, Counts, FlushCalls
<1>3. CASE /\ count.settled >= flushes[c].mark
           /\ flushes' = [flushes EXCEPT ![c].at = Telemetry!Verdict(Telemetry!Clean(flushes[c].mark))]
           /\ UNCHANGED <<pump, queue, batch, physical>>
  <2>1. flushes' \in [Telemetry!Callers -> FlushCalls]
    BY <1>2, <1>3 DEF Telemetry!Verdict, FlushCalls, Telemetry!Returned
  <2>2. /\ \A d \in Telemetry!Callers \ {c} : flushes'[d] = flushes[d]
        /\ flushes'[c].mark = flushes[c].mark
        /\ flushes'[c].at = Telemetry!Verdict(Telemetry!Clean(flushes[c].mark))
    BY <1>2, <1>3
  <2>3. BufferShapes' BY <1>1, <1>3, <2>1 DEF BufferShapes
  <2>4. Numbered' BY <1>1, <1>3 DEF Numbered
  <2>5. Ledger' BY <1>1, <1>3 DEF Ledger
  <2>6. FailuresKnown'
    <3>1. ASSUME flushes'[c].at = "true"
          PROVE \A s \in lost : s > flushes[c].mark
      <4>1. count.firstFailed = 0 \/ count.firstFailed > flushes[c].mark
        BY <2>2, <3>1 DEF Telemetry!Verdict, Telemetry!Clean
      <4> QED BY <1>2, <4>1 DEF FailuresKnown
    <3> QED BY <1>1, <1>3, <2>2, <3>1 DEF FailuresKnown
  <2>7. Wakeful' BY <1>1, <1>2, <1>3, <2>2 DEF Wakeful
  <2> QED BY <2>3, <2>4, <2>5, <2>6, <2>7
<1>4. CASE /\ count.settled < flushes[c].mark /\ Telemetry!Hung
           /\ flushes' = [flushes EXCEPT ![c].at = "false"]
           /\ UNCHANGED <<pump, queue, batch, physical>>
  <2>1. flushes' \in [Telemetry!Callers -> FlushCalls] BY <1>2, <1>4 DEF FlushCalls, Telemetry!Returned
  <2>2. \A d \in Telemetry!Callers : flushes'[d].at = "true" => flushes'[d] = flushes[d] BY <1>2, <1>4
  <2>3. BufferShapes' BY <1>1, <1>4, <2>1 DEF BufferShapes
  <2>4. Numbered' BY <1>1, <1>4 DEF Numbered
  <2>5. Ledger' BY <1>1, <1>4 DEF Ledger
  <2>6. FailuresKnown' BY <1>1, <1>4, <2>2 DEF FailuresKnown
  <2>7. physical' BY <1>4 DEF Telemetry!Hung, FailuresKnown
  <2>8. Wakeful' BY <1>1, <2>7 DEF Wakeful
  <2> QED BY <2>3, <2>4, <2>5, <2>6, <2>8
<1>5. CASE /\ count.settled < flushes[c].mark /\ ~Telemetry!Hung
           /\ flushes' = [flushes EXCEPT ![c].at = "wait", ![c].failures = count.failures]
           /\ IF pump = "none" /\ ~physical THEN Telemetry!StartPump
              ELSE UNCHANGED <<pump, queue, batch, physical>>
  <2>1. /\ flushes' \in [Telemetry!Callers -> FlushCalls]
        /\ \A d \in Telemetry!Callers : flushes'[d].at = "true" => flushes'[d] = flushes[d]
    <3> DEFINE next == [flushes[c] EXCEPT !.at = "wait", !.failures = count.failures]
    <3>1. next \in FlushCalls /\ next.at = "wait" BY <1>2 DEF FlushCalls
    <3>2. flushes' = [flushes EXCEPT ![c] = next] BY <1>2, <1>5
    <3> HIDE DEF next
    <3> QED BY <1>2, <3>1, <3>2
  <2>2. CASE pump = "none" /\ ~physical
    <3>1. Telemetry!StartPump BY <1>5, <2>2
    <3>2. /\ scheduled' \in BOOLEAN /\ timer' \in BOOLEAN /\ micro' \in Nat
          /\ micro' <= count.accepted /\ (scheduled' => micro' > 0 \/ timer')
      BY <1>1 DEF BufferShapes, Wakeful
    <3>3. \A d \in Telemetry!Callers : flushes'[d].at = "true" => flushes[d] = flushes'[d] BY <2>1
    <3> QED BY <1>1, <2>1, <2>2, <3>1, <3>2, <3>3, PumpStarts
  <2>3. CASE ~(pump = "none" /\ ~physical)
    <3>1. UNCHANGED <<pump, queue, batch, physical>> BY <1>5, <2>3
    <3>2. BufferShapes' BY <1>1, <2>1, <3>1 DEF BufferShapes
    <3>3. Numbered' BY <1>1, <3>1 DEF Numbered
    <3>4. Ledger' BY <1>1, <3>1 DEF Ledger
    <3>5. FailuresKnown' BY <1>1, <2>1, <3>1 DEF FailuresKnown
    <3>6. Wakeful' BY <1>1, <2>3, <3>1 DEF Wakeful
    <3> QED BY <3>2, <3>3, <3>4, <3>5, <3>6
  <2> QED BY <2>2, <2>3
<1> QED BY <1>3, <1>4, <1>5 DEF Telemetry!FlushLoop

(* A flush that resumes goes round again or gives up; the end of a shutdown *)
(* changes nothing but the state.                                           *)
LEMMA ResumeKeeps ==
  ASSUME TelemetryAssumption, TelemetryInv,
         Telemetry!ShutdownDone \/ \E c \in Telemetry!Callers : Telemetry!FlushResumes(c)
  PROVE TelemetryInv'
<1> USE DEF TelemetryInv
<1>1. /\ UNCHANGED <<queue, batch, pump, answer, physical, wedged, Telemetry!wakeups, delayed,
                     count, lost>>
      /\ scheduled' = scheduled /\ micro' = micro /\ timer' = timer
  BY DEF Telemetry!ShutdownDone, Telemetry!FlushResumes, Telemetry!wakeups
<1>2. /\ state' \in {"running", "stopping", "stopped"}
      /\ flushes' \in [Telemetry!Callers -> FlushCalls]
      /\ \A d \in Telemetry!Callers :
           /\ flushes'[d].at = "true" => flushes'[d] = flushes[d]
           /\ flushes[d].at = "loop" => flushes'[d] = flushes[d]
      /\ state' = "running" => state = "running"
  <2>1. CASE Telemetry!ShutdownDone BY <2>1 DEF Telemetry!ShutdownDone, BufferShapes
  <2>2. ASSUME NEW c \in Telemetry!Callers, Telemetry!FlushResumes(c)
        PROVE /\ state' = state /\ flushes' \in [Telemetry!Callers -> FlushCalls]
              /\ \A d \in Telemetry!Callers :
                   /\ flushes'[d].at = "true" => flushes'[d] = flushes[d]
                   /\ flushes[d].at = "loop" => flushes'[d] = flushes[d]
    <3>1. PICK at \in {"loop", "false"} : flushes' = [flushes EXCEPT ![c].at = at]
      BY <2>2 DEF Telemetry!FlushResumes
    <3>2. flushes \in [Telemetry!Callers -> FlushCalls] /\ state' = state /\ flushes[c].at = "resumed"
      BY <2>2 DEF BufferShapes, Telemetry!FlushResumes
    <3>3. flushes' \in [Telemetry!Callers -> FlushCalls] BY <3>1, <3>2 DEF FlushCalls, Telemetry!Returned
    <3> QED BY <3>1, <3>2, <3>3
  <2> QED BY <2>1, <2>2 DEF BufferShapes
<1>3. BufferShapes' BY <1>1, <1>2 DEF BufferShapes
<1>4. Numbered' BY <1>1 DEF Numbered
<1>5. Ledger' BY <1>1 DEF Ledger
<1>6. FailuresKnown' BY <1>1, <1>2 DEF FailuresKnown
<1>7. Wakeful'
  <2> SUFFICES ASSUME state' = "running", queue' # <<>>, pump' = "none", ~physical', ~scheduled'
               PROVE \E d \in Telemetry!Callers :
                       flushes'[d].at = "loop" /\ count'.settled < flushes'[d].mark
    BY <1>1 DEF Wakeful
  <2>1. PICK d \in Telemetry!Callers : flushes[d].at = "loop" /\ count.settled < flushes[d].mark
    BY <1>1, <1>2 DEF Wakeful
  <2> QED BY <1>1, <1>2, <2>1
<1> QED BY <1>3, <1>4, <1>5, <1>6, <1>7

LEMMA TelemetryStep ==
  ASSUME TelemetryAssumption
  PROVE TelemetryInv /\ [Telemetry!Next]_Telemetry!vars => TelemetryInv'
<1> SUFFICES ASSUME TelemetryInv, [Telemetry!Next]_Telemetry!vars PROVE TelemetryInv' OBVIOUS
<1>1. CASE UNCHANGED Telemetry!vars
  BY <1>1 DEF Telemetry!vars, Telemetry!wakeups, TelemetryInv, BufferShapes, Numbered,
     Ledger, FailuresKnown, Wakeful
<1>2. CASE Telemetry!Next
  BY <1>2, NewRecordKeeps, WakeupKeeps, ExporterKeeps, SettleKeeps, PumpEndKeeps,
     FlushKeeps, FlushLoopKeeps, ResumeKeeps DEF Telemetry!Next, Telemetry!Progress
<1> QED BY <1>1, <1>2

LEMMA TelemetryInvHolds ==
  ASSUME TelemetryAssumption
  PROVE Telemetry!Spec => []TelemetryInv
<1>1. Telemetry!Init => TelemetryInv BY TelemetryInit
<1>2. TelemetryInv /\ [Telemetry!Next]_Telemetry!vars => TelemetryInv' BY TelemetryStep
<1> QED BY <1>1, <1>2, PTL DEF Telemetry!Spec

LEMMA BufferFollows == ASSUME TelemetryAssumption, TelemetryInv PROVE Telemetry!TypeOK
<1>1. micro \in 0..MaxRecords
  BY DEF TelemetryInv, BufferShapes, Counts, TelemetryAssumption
<1>2. {physical, wedged, scheduled, timer, delayed} \subseteq BOOLEAN
  BY DEF TelemetryInv, BufferShapes
<1> QED BY <1>1, <1>2 DEF TelemetryInv, BufferShapes, Telemetry!TypeOK, FlushCalls

(* The counters, wakeups and calls of the buffer keep their shapes, and     *)
(* what is queued and in flight stays within the limit (#enqueue).          *)
THEOREM TelemetryTypesHold ==
  ASSUME TelemetryAssumption
  PROVE Telemetry!Spec => []Telemetry!TypeOK
<1>1. TelemetryInv => Telemetry!TypeOK BY BufferFollows
<1> QED BY <1>1, TelemetryInvHolds, PTL

(* Every accepted record is queued, in flight, exported or dropped, and     *)
(* counted once, whatever times out or settles late (drainOne, status).     *)
THEOREM LedgerExactHolds ==
  ASSUME TelemetryAssumption
  PROVE Telemetry!Spec => []Telemetry!LedgerExact
<1>1. TelemetryInv => Telemetry!LedgerExact BY DEF TelemetryInv, Ledger, Telemetry!LedgerExact
<1> QED BY <1>1, TelemetryInvHolds, PTL

(* A flush that returned true vouches for every record accepted before it   *)
(* was called (flushWithin, #firstFailedSequence, #settledThrough).         *)
THEOREM FlushHonestHolds ==
  ASSUME TelemetryAssumption
  PROVE Telemetry!Spec => []Telemetry!FlushHonest
<1>1. TelemetryInv => Telemetry!FlushHonest
  BY DEF TelemetryInv, FailuresKnown, Telemetry!FlushHonest
<1> QED BY <1>1, TelemetryInvHolds, PTL

(* What a running buffer holds is on its way out, or waits for a pump that  *)
(* will come or for an exporter that has not let go (schedulePump).         *)
THEOREM AwakeHolds ==
  ASSUME TelemetryAssumption
  PROVE Telemetry!Spec => []Telemetry!Awake
<1>1. TelemetryInv => Telemetry!Awake BY DEF TelemetryInv, Wakeful, Telemetry!Awake
<1> QED BY <1>1, TelemetryInvHolds, PTL

---------------------------------------------------------------------------
(* Changes of the workspace, under the lock. *)

(* "free" and "dead" are no processes. *)
ChangesAssumption ==
  /\ Editors \cap {"free", "dead"} = {}
  /\ MaxBoundaries \in Nat /\ MaxTroubles \in Nat

Contents == 0..MaxBoundaries
Images == {<<>>} \cup UNION {[fs -> Contents] : fs \in SUBSET Documents}
Phases == {"off", "recovering", "idle", "waiting", "locked", "begun", "writing", "publishing",
           "verifying", "undoing", "failing"}
Changing == {"begun", "writing", "publishing", "verifying", "undoing", "failing"}
Working == Changing \cup {"locked"}
Kinds == {"none", "edit", "restore", "rewind"}
Checkpoints == Workspace!Unstable \cup {"completed", "needs-review"}
Boundary == [group : {"created", "checkpointing", "completed", "needs-review"},
             checkpoint : Checkpoints, bound : BOOLEAN, before : Images, after : Images,
             fate : {"open", "applied", "undone", "written", "torn", "disputed"}]
Doing == [pc : Phases, kind : Kinds, before : Images, after : Images, id : Contents,
          left : SUBSET Documents, pending : SUBSET (Contents \X Checkpoints), knew : SUBSET Contents]

ChangeShapes ==
  /\ files \in [Documents -> Contents]
  /\ boundaries \in Seq(Boundary) /\ Len(boundaries) <= MaxBoundaries
  /\ lock \in Editors \cup {"free", "dead"}
  /\ proc \in [Editors -> Doing]
  /\ troubles \in 0..MaxTroubles

(* What a process is about: an image of the same files before and after. *)
Planned(p) == proc[p].pc \in {"waiting"} \cup Working => DOMAIN proc[p].before = DOMAIN proc[p].after

(* Its boundary is there and tells of the change it makes. *)
Bounded(p) ==
  IF proc[p].pc \in Changing
  THEN /\ proc[p].id \in Workspace!Ids /\ boundaries[proc[p].id].after = proc[p].after
       /\ proc[p].pc # "begun" => proc[p].left \subseteq DOMAIN proc[p].after
  ELSE proc[p].id = 0

(* What it has not replaced is what its preview saw. *)
Unseen(p) ==
  /\ proc[p].pc = "begun" => proc[p].kind = "rewind" \/ Workspace!On(files, proc[p].before)
  /\ proc[p].pc = "writing" =>
       \A f \in proc[p].left : proc[p].kind = "rewind" \/ files[f] = proc[p].before[f]

(* What stands in a file of the change is the content before it or after it. *)
Halfway(p) ==
  proc[p].pc \in Changing =>
    \A f \in DOMAIN proc[p].after : files[f] \in {boundaries[proc[p].id].before[f], proc[p].after[f]}

Change(p) == Planned(p) /\ Bounded(p) /\ Unseen(p) /\ Halfway(p)

ChangeInv ==
  /\ ChangeShapes
  /\ \A i \in Workspace!Ids : DOMAIN boundaries[i].before = DOMAIN boundaries[i].after
  /\ \A p \in Editors :
       /\ proc[p].pc \in Working => lock = p
       /\ \A seen \in proc[p].pending : seen[1] \in Workspace!Ids
       /\ Change(p)

---------------------------------------------------------------------------
(* Rows *)

(* A boundary keeps its images whatever becomes of its statuses. *)
RowsKept ==
  /\ boundaries' \in Seq(Boundary) /\ Len(boundaries') = Len(boundaries)
  /\ \A i \in Workspace!Ids : boundaries'[i].before = boundaries[i].before /\ boundaries'[i].after = boundaries[i].after

LEMMA RowSet ==
  ASSUME boundaries \in Seq(Boundary), NEW i \in Workspace!Ids, NEW line \in Boundary,
         line.before = boundaries[i].before, line.after = boundaries[i].after,
         boundaries' = [boundaries EXCEPT ![i] = line]
  PROVE  RowsKept
<1>1. i \in 1..Len(boundaries)
  BY LenProperties DEF Workspace!Ids
<1>2. boundaries' \in Seq(Boundary) /\ Len(boundaries') = Len(boundaries)
  BY <1>1, ExceptSeq
<1>3. \A j \in 1..Len(boundaries) : boundaries'[j] = IF j = i THEN line ELSE boundaries[j]
  BY <1>1, LenProperties
<1> QED
  BY <1>1, <1>2, <1>3, LenProperties DEF RowsKept, Workspace!Ids

LEMMA RowIs ==
  ASSUME boundaries \in Seq(Boundary), NEW i \in Workspace!Ids
  PROVE  boundaries[i] \in Boundary /\ i \in 1..Len(boundaries)
BY ElementOfSeq, LenProperties DEF Workspace!Ids

LEMMA Marked ==
  ASSUME boundaries \in Seq(Boundary), NEW i \in Workspace!Ids, NEW group, NEW checkpoint,
         group \in {"created", "checkpointing", "completed", "needs-review"},
         checkpoint \in Checkpoints, Workspace!Mark(i, group, checkpoint)
  PROVE  RowsKept
<1> DEFINE line == [boundaries[i] EXCEPT !.group = group, !.checkpoint = checkpoint]
<1>1. boundaries[i] \in Boundary
  BY RowIs
<1>2. line \in Boundary /\ line.before = boundaries[i].before /\ line.after = boundaries[i].after
  BY <1>1 DEF Boundary
<1>3. boundaries' = [boundaries EXCEPT ![i] = line]
  BY <1>1 DEF Workspace!Mark, Workspace!Ids
<1> QED
  BY <1>2, <1>3, RowSet

LEMMA Settled ==
  ASSUME boundaries \in Seq(Boundary), NEW i \in Workspace!Ids, NEW status \in {"completed", "needs-review"},
         NEW fate \in {"open", "applied", "undone", "written", "torn", "disputed"},
         boundaries' = [boundaries EXCEPT ![i] =
                    [boundaries[i] EXCEPT !.group = status, !.checkpoint = status, !.fate = fate]]
  PROVE  RowsKept
<1> DEFINE line == [boundaries[i] EXCEPT !.group = status, !.checkpoint = status, !.fate = fate]
<1>1. boundaries[i] \in Boundary
  BY RowIs
<1>2. line \in Boundary /\ line.before = boundaries[i].before /\ line.after = boundaries[i].after
  BY <1>1 DEF Boundary, Checkpoints
<1> QED
  BY <1>2, RowSet

LEMMA Fated ==
  ASSUME boundaries \in Seq(Boundary), NEW i \in Workspace!Ids, NEW c,
         boundaries' = [boundaries EXCEPT ![i].fate = Workspace!Fate(i, c)]
  PROVE  RowsKept
<1> DEFINE line == [boundaries[i] EXCEPT !.fate = Workspace!Fate(i, c)]
<1>1. boundaries[i] \in Boundary
  BY RowIs
<1>2. line \in Boundary /\ line.before = boundaries[i].before /\ line.after = boundaries[i].after
  BY <1>1 DEF Boundary, Workspace!Fate
<1>3. boundaries' = [boundaries EXCEPT ![i] = line]
  BY <1>1 DEF Workspace!Ids
<1> QED
  BY <1>2, <1>3, RowSet

---------------------------------------------------------------------------
(* A step of one process leaves the changes of the others alone: it writes a  *)
(* file only under the lock that they need to have one.                       *)

LEMMA Bystanders ==
  ASSUME ChangeInv, ChangeShapes', NEW q \in Editors,
         \A p \in Editors \ {q} : proc'[p] = proc[p],
         Workspace!Ids \subseteq Workspace!Ids',
         \A i \in Workspace!Ids : boundaries'[i].before = boundaries[i].before /\ boundaries'[i].after = boundaries[i].after,
         \A i \in Workspace!Ids' : DOMAIN boundaries'[i].before = DOMAIN boundaries'[i].after,
         files' = files \/ lock = q,
         lock' = lock \/ lock \in {"free", "dead", q},
         proc'[q].pc \in Working => lock' = q,
         \A seen \in proc'[q].pending : seen[1] \in Workspace!Ids',
         Change(q)', ChangesAssumption
  PROVE  ChangeInv'
<1>1. ASSUME NEW p \in Editors, p # q
      PROVE  /\ proc'[p].pc \in Working => lock' = p
             /\ \A seen \in proc'[p].pending : seen[1] \in Workspace!Ids'
             /\ Change(p)'
  <2>1. proc'[p] = proc[p]
    BY <1>1
  <2>2. /\ proc[p].pc \in Working => lock = p
        /\ \A seen \in proc[p].pending : seen[1] \in Workspace!Ids
        /\ Change(p)
    BY DEF ChangeInv
  <2>3. proc[p].pc \in Working => lock' = p /\ files' = files
    BY <1>1, <2>2 DEF ChangesAssumption
  <2>4. Changing \subseteq Working /\ "begun" \in Changing /\ "writing" \in Changing
    BY DEF Changing, Working
  <2>5. Planned(p)' /\ Bounded(p)'
    BY <2>1, <2>2 DEF Change, Planned, Bounded
  <2>6. Unseen(p)' /\ Halfway(p)'
    BY <2>1, <2>2, <2>3, <2>4 DEF Change, Unseen, Halfway, Workspace!On, Bounded
  <2> QED
    BY <2>1, <2>2, <2>3, <2>5, <2>6 DEF Change
<1> QED
  BY <1>1 DEF ChangeInv

LEMMA KeptRows ==
  ASSUME ChangeInv, RowsKept \/ boundaries' = boundaries
  PROVE  /\ boundaries' \in Seq(Boundary) /\ Len(boundaries') <= MaxBoundaries /\ Workspace!Ids' = Workspace!Ids
         /\ \A i \in Workspace!Ids : boundaries'[i].before = boundaries[i].before /\ boundaries'[i].after = boundaries[i].after
         /\ \A i \in Workspace!Ids' : DOMAIN boundaries'[i].before = DOMAIN boundaries'[i].after
<1>1. boundaries' \in Seq(Boundary) /\ Len(boundaries') <= MaxBoundaries
  BY DEF ChangeInv, ChangeShapes, RowsKept
<1>2. Workspace!Ids' = Workspace!Ids
  BY <1>1, LenProperties DEF Workspace!Ids, RowsKept, ChangeInv, ChangeShapes
<1>3. \A i \in Workspace!Ids : boundaries'[i].before = boundaries[i].before /\ boundaries'[i].after = boundaries[i].after
  BY DEF RowsKept
<1> QED
  BY <1>1, <1>2, <1>3 DEF ChangeInv

(* The lemma the steps cite: the rows keep their images, and p moves. *)
LEMMA Moves ==
  ASSUME ChangeInv, ChangesAssumption, NEW p \in Editors, NEW doing \in Doing,
         proc' = [proc EXCEPT ![p] = doing], RowsKept \/ boundaries' = boundaries,
         files' \in [Documents -> Contents], troubles' \in 0..MaxTroubles,
         files' = files \/ lock = p,
         lock' \in Editors \cup {"free", "dead"},
         lock' = lock \/ lock \in {"free", "dead", p},
         doing.pc \in Working => lock' = p,
         \A seen \in doing.pending : seen[1] \in Workspace!Ids,
         Change(p)'
  PROVE  ChangeInv'
<1>1. proc' \in [Editors -> Doing] /\ proc'[p] = doing
      /\ \A r \in Editors \ {p} : proc'[r] = proc[r]
  BY DEF ChangeInv, ChangeShapes
<1>2. /\ boundaries' \in Seq(Boundary) /\ Len(boundaries') <= MaxBoundaries /\ Workspace!Ids' = Workspace!Ids
      /\ \A i \in Workspace!Ids : boundaries'[i].before = boundaries[i].before /\ boundaries'[i].after = boundaries[i].after
      /\ \A i \in Workspace!Ids' : DOMAIN boundaries'[i].before = DOMAIN boundaries'[i].after
  BY KeptRows
<1>3. ChangeShapes'
  BY <1>1, <1>2 DEF ChangeShapes
<1> QED
  BY <1>1, <1>2, <1>3, Bystanders

(* A process that is not about a change has nothing to tell of one. *)
LEMMA AtRest ==
  ASSUME NEW p \in Editors, NEW doing \in Doing, ChangeInv,
         doing.pc \notin {"waiting"} \cup Working, doing.id = 0,
         proc' = [proc EXCEPT ![p] = doing]
  PROVE  Change(p)'
<1>1. proc'[p] = doing
  BY DEF ChangeInv, ChangeShapes
<1>2. Changing \subseteq Working /\ "begun" \in Changing /\ "writing" \in Changing
  BY DEF Changing, Working
<1> QED
  BY <1>1, <1>2 DEF Change, Planned, Bounded, Unseen, Halfway

LEMMA DoingIs ==
  ASSUME ChangeInv, ChangesAssumption, NEW p \in Editors
  PROVE  /\ proc[p] \in Doing
         /\ proc[p].pc \in Working => lock = p
         /\ \A seen \in proc[p].pending : seen[1] \in Workspace!Ids
         /\ Change(p) /\ files \in [Documents -> Contents] /\ boundaries \in Seq(Boundary)
         /\ Workspace!Ids \subseteq Contents /\ 0 \in Contents /\ lock \in Editors \cup {"free", "dead"}
         /\ troubles \in 0..MaxTroubles
<1>1. boundaries \in Seq(Boundary) /\ Len(boundaries) <= MaxBoundaries /\ Len(boundaries) \in Nat
      /\ Workspace!Ids = 1..Len(boundaries)
  BY LenProperties DEF ChangeInv, ChangeShapes, Workspace!Ids
<1>2. Workspace!Ids \subseteq Contents /\ 0 \in Contents
  BY <1>1 DEF Contents, ChangesAssumption
<1> QED
  BY <1>1, <1>2 DEF ChangeInv, ChangeShapes

---------------------------------------------------------------------------
(* Steps *)

LEMMA IdleIs == ASSUME ChangesAssumption PROVE Workspace!Idle \in Doing /\ Workspace!Off \in Doing
                  /\ Workspace!Idle.pc = "idle" /\ Workspace!Off.pc = "off" /\ Workspace!Idle.id = 0 /\ Workspace!Off.id = 0
                  /\ Workspace!Idle.pending = {} /\ Workspace!Off.pending = {}
<1>1. <<>> \in Images /\ 0 \in Contents
  BY DEF Images, Contents, ChangesAssumption
<1> QED
  BY <1>1 DEF Workspace!Idle, Workspace!Off, Doing, Phases, Kinds

LEMMA StartStep ==
  ASSUME ChangeInv, ChangesAssumption, NEW p \in Editors, Workspace!Start(p)
  PROVE  ChangeInv'
<1> DEFINE stale == {<<i, boundaries[i].checkpoint>> : i \in {j \in Workspace!Ids : boundaries[j].checkpoint \in Workspace!Unstable}}
           knew == {i \in Workspace!Ids : boundaries[i].fate = "torn"}
           doing == [Workspace!Idle EXCEPT !.pc = "recovering", !.pending = stale, !.knew = knew]
<1>1. proc' = [proc EXCEPT ![p] = doing] /\ UNCHANGED <<files, boundaries, lock, troubles>>
  BY DEF Workspace!Start
<1>2. stale \subseteq Contents \X Checkpoints /\ knew \subseteq Contents
      /\ \A seen \in stale : seen[1] \in Workspace!Ids
  BY DoingIs DEF Checkpoints
<1>3. doing \in Doing /\ doing.pc = "recovering" /\ doing.id = 0 /\ doing.pending = stale
  BY <1>2, IdleIs DEF Doing, Phases
<1>4. Change(p)'
  BY <1>1, <1>3, AtRest DEF Working, Changing
<1> QED
  BY <1>1, <1>2, <1>3, <1>4, Moves, DoingIs DEF Working, Changing

LEMMA RecoverStep ==
  ASSUME ChangeInv, ChangesAssumption, NEW p \in Editors, Workspace!Recover(p)
  PROVE  ChangeInv'
<1>1. PICK seen \in proc[p].pending, intact \in BOOLEAN :
        /\ IF intact THEN UNCHANGED troubles ELSE Workspace!Trouble
        /\ Workspace!Mark(seen[1], Workspace!RecoveredAs(seen[1], seen[2], intact), Workspace!RecoveredAs(seen[1], seen[2], intact))
        /\ proc' = [proc EXCEPT ![p].pending = @ \ {seen}]
  BY DEF Workspace!Recover
<1>2. proc[p] \in Doing /\ proc[p].pc = "recovering" /\ proc[p].id = 0
  BY DoingIs DEF Workspace!Recover, Change, Bounded, Changing
<1>3. RowsKept
  <2>1. Workspace!RecoveredAs(seen[1], seen[2], intact) \in {"completed", "needs-review"}
    BY DEF Workspace!RecoveredAs
  <2> QED
    BY <1>1, <2>1, Marked, DoingIs DEF Checkpoints
<1> DEFINE doing == [proc[p] EXCEPT !.pending = @ \ {seen}]
<1>4. proc' = [proc EXCEPT ![p] = doing]
  BY <1>1
<1>5. doing \in Doing /\ doing.pc = "recovering" /\ doing.id = 0
      /\ doing.pending \subseteq proc[p].pending
  BY <1>2 DEF Doing
<1>6. troubles' \in 0..MaxTroubles
  BY <1>1, DoingIs DEF Workspace!Trouble, ChangesAssumption
<1>7. Change(p)'
  BY <1>4, <1>5, AtRest DEF Working, Changing
<1> QED
  BY <1>3, <1>4, <1>5, <1>6, <1>7, Moves, DoingIs DEF Working, Changing, Workspace!Recover

LEMMA RestStep ==
  ASSUME ChangeInv, ChangesAssumption, NEW p \in Editors, Workspace!Ready(p) \/ Workspace!Exit(p) \/ Workspace!GiveUp(p)
  PROVE  ChangeInv'
<1>1. UNCHANGED <<files, boundaries, lock, troubles>>
  BY DEF Workspace!Ready, Workspace!Exit, Workspace!GiveUp
<1>2. PICK doing \in Doing : /\ proc' = [proc EXCEPT ![p] = doing]
                             /\ doing.pc \in {"idle", "off"} /\ doing.id = 0 /\ doing.pending = {}
  <2>1. CASE Workspace!Ready(p)
    <3> DEFINE doing == [proc[p] EXCEPT !.pc = "idle"]
    <3>1. proc[p] \in Doing /\ proc[p].pc = "recovering" /\ proc[p].id = 0 /\ proc[p].pending = {}
      BY <2>1, DoingIs DEF Workspace!Ready, Change, Bounded, Changing
    <3>2. doing \in Doing /\ doing.pc = "idle" /\ doing.id = 0 /\ doing.pending = {}
      BY <3>1 DEF Doing, Phases
    <3>3. proc' = [proc EXCEPT ![p] = doing]
      BY <2>1 DEF Workspace!Ready
    <3> QED
      BY <3>2, <3>3
  <2>2. CASE Workspace!Exit(p)
    BY <2>2, IdleIs DEF Workspace!Exit
  <2>3. CASE Workspace!GiveUp(p)
    <3> DEFINE doing == [Workspace!Idle EXCEPT !.knew = proc[p].knew]
    <3>1. doing \in Doing /\ doing.pc = "idle" /\ doing.id = 0 /\ doing.pending = {}
      BY DoingIs, IdleIs DEF Doing
    <3> QED
      BY <2>3, <3>1 DEF Workspace!GiveUp
  <2> QED
    BY <2>1, <2>2, <2>3
<1>3. Change(p)'
  BY <1>2, AtRest DEF Working, Changing
<1> QED
  BY <1>1, <1>2, <1>3, Moves, DoingIs DEF Working, Changing

LEMMA PreviewStep ==
  ASSUME ChangeInv, ChangesAssumption, NEW p \in Editors,
         Workspace!PreviewEdit(p) \/ Workspace!PreviewRestore(p) \/ Workspace!PreviewRewind(p)
  PROVE  ChangeInv'
<1>1. UNCHANGED <<files, boundaries, lock, troubles>> /\ proc[p].pc = "idle"
  BY DEF Workspace!PreviewEdit, Workspace!PreviewRestore, Workspace!PreviewRewind
<1>2. PICK kind \in Kinds, was \in Images, after \in Images :
        Workspace!Wants(p, kind, was, after) /\ DOMAIN was = DOMAIN after
  <2>1. CASE Workspace!PreviewEdit(p)
    <3>1. PICK fs \in SUBSET Documents : Workspace!Wants(p, "edit", Workspace!Image(fs), [f \in fs |-> Len(boundaries) + 1])
      BY <2>1 DEF Workspace!PreviewEdit
    <3>2. Len(boundaries) + 1 \in Contents
      BY <2>1, LenProperties DEF Workspace!PreviewEdit, Contents, ChangeInv, ChangeShapes,
         ChangesAssumption
    <3>3. Workspace!Image(fs) \in [fs -> Contents] /\ [f \in fs |-> Len(boundaries) + 1] \in [fs -> Contents]
      BY <3>2, DoingIs DEF Workspace!Image
    <3> QED
      BY <3>1, <3>3 DEF Images, Kinds
  <2>2. CASE Workspace!PreviewRestore(p)
    <3>1. PICK i \in Workspace!Ids : Workspace!Wants(p, "restore", boundaries[i].after, boundaries[i].before)
      BY <2>2 DEF Workspace!PreviewRestore
    <3>2. boundaries[i] \in Boundary /\ DOMAIN boundaries[i].before = DOMAIN boundaries[i].after
      BY RowIs DEF ChangeInv, ChangeShapes
    <3>3. boundaries[i].before \in Images /\ boundaries[i].after \in Images
      BY <3>2 DEF Boundary
    <3> QED
      BY <3>1, <3>2, <3>3 DEF Kinds
  <2>3. CASE Workspace!PreviewRewind(p)
    <3>1. PICK i \in Workspace!Ids : Workspace!Wants(p, "rewind", boundaries[i].before, boundaries[i].before)
      BY <2>3 DEF Workspace!PreviewRewind
    <3>2. boundaries[i].before \in Images
      BY RowIs DEF ChangeInv, ChangeShapes, Boundary
    <3> QED
      BY <3>1, <3>2 DEF Kinds
  <2> QED
    BY <2>1, <2>2, <2>3
<1> DEFINE doing == [proc[p] EXCEPT !.pc = "waiting", !.kind = kind, !.before = was, !.after = after]
<1>3. proc' = [proc EXCEPT ![p] = doing]
  BY <1>2, DoingIs DEF Workspace!Wants, ChangeInv, ChangeShapes
<1>4. proc[p] \in Doing /\ proc[p].id = 0
  BY <1>1, DoingIs DEF Change, Bounded, Changing
<1>5. /\ doing \in Doing /\ doing.pc = "waiting" /\ doing.id = 0 /\ doing.pending = proc[p].pending
      /\ doing.before = was /\ doing.after = after
  BY <1>4 DEF Doing, Phases
<1>6. proc'[p] = doing
  BY <1>3 DEF ChangeInv, ChangeShapes
<1>7. Change(p)'
  BY <1>2, <1>5, <1>6 DEF Change, Planned, Bounded, Unseen, Halfway, Changing
<1> QED
  BY <1>1, <1>3, <1>5, <1>7, Moves, DoingIs DEF Working, Changing

LEMMA AcquireStep ==
  ASSUME ChangeInv, ChangesAssumption, NEW p \in Editors, Workspace!Acquire(p)
  PROVE  ChangeInv'
<1> DEFINE doing == [proc[p] EXCEPT !.pc = "locked"]
<1>1. proc' = [proc EXCEPT ![p] = doing] /\ UNCHANGED <<files, boundaries, troubles>>
  BY DEF Workspace!Acquire
<1>2. proc[p] \in Doing /\ proc[p].id = 0 /\ DOMAIN proc[p].before = DOMAIN proc[p].after
  BY DoingIs DEF Workspace!Acquire, Change, Bounded, Planned, Changing
<1>3. /\ doing \in Doing /\ doing.pc = "locked" /\ doing.id = 0 /\ doing.pending = proc[p].pending
      /\ doing.before = proc[p].before /\ doing.after = proc[p].after
  BY <1>2 DEF Doing, Phases
<1>4. proc'[p] = doing
  BY <1>1 DEF ChangeInv, ChangeShapes
<1>5. Change(p)'
  BY <1>2, <1>3, <1>4 DEF Change, Planned, Bounded, Unseen, Halfway, Changing
<1> QED
  BY <1>1, <1>3, <1>5, Moves, DoingIs DEF Workspace!Acquire

(* A change ends, or its process. *)
LEMMA Ends ==
  ASSUME ChangeInv, ChangesAssumption, NEW p \in Editors, RowsKept \/ boundaries' = boundaries,
         UNCHANGED files, troubles' \in 0..MaxTroubles,
         \/ Workspace!Leave(p) /\ proc[p].pc \in Working
         \/ lock' = (IF lock = p THEN "dead" ELSE lock) /\ proc' = [proc EXCEPT ![p] = Workspace!Off]
  PROVE  ChangeInv'
<1>1. PICK doing \in Doing : /\ proc' = [proc EXCEPT ![p] = doing]
                             /\ doing.pc \in {"idle", "off"} /\ doing.id = 0 /\ doing.pending = {}
  <2>1. CASE Workspace!Leave(p)
    <3> DEFINE doing == [Workspace!Idle EXCEPT !.knew = proc[p].knew]
    <3>1. doing \in Doing /\ doing.pc = "idle" /\ doing.id = 0 /\ doing.pending = {}
      BY DoingIs, IdleIs DEF Doing
    <3> QED
      BY <2>1, <3>1 DEF Workspace!Leave
  <2>2. CASE proc' = [proc EXCEPT ![p] = Workspace!Off]
    BY <2>2, IdleIs
  <2> QED
    BY <2>1, <2>2
<1>2. Change(p)'
  BY <1>1, AtRest DEF Working, Changing
<1>3. lock' \in {"free", "dead", lock} /\ (lock' = lock \/ lock = p)
  BY DoingIs DEF Workspace!Leave
<1> QED
  BY <1>1, <1>2, <1>3, Moves, DoingIs DEF Working, Changing

LEMMA ImageIs ==
  ASSUME NEW a \in Images
  PROVE  DOMAIN a \subseteq Documents /\ \A f \in DOMAIN a : a[f] \in Contents
<1>1. CASE a = <<>>
  <2>1. DOMAIN a = {}
    BY <1>1
  <2> QED
    BY <2>1
<1>2. CASE a \in UNION {[fs -> Contents] : fs \in SUBSET Documents}
  BY <1>2
<1> QED
  BY <1>1, <1>2 DEF Images

LEMMA BeginStep ==
  ASSUME ChangeInv, ChangesAssumption, NEW p \in Editors, Workspace!Begin(p)
  PROVE  ChangeInv'
<1> DEFINE n == Len(boundaries) + 1
           fs == DOMAIN proc[p].after
           line == [group |-> "created", checkpoint |-> "checkpointing", bound |-> FALSE,
                   before |-> Workspace!Image(fs), after |-> proc[p].after, fate |-> "open"]
           doing == [proc[p] EXCEPT !.pc = "begun", !.id = n]
<1>1. /\ boundaries' = Append(boundaries, line) /\ proc' = [proc EXCEPT ![p] = doing]
      /\ UNCHANGED <<files, lock, troubles>> /\ proc[p].pc = "locked" /\ Workspace!Fresh(p)
      /\ Len(boundaries) < MaxBoundaries
  BY DEF Workspace!Begin
<1>2. /\ proc[p] \in Doing /\ DOMAIN proc[p].before = fs /\ proc[p].after \in Images
      /\ fs \subseteq Documents /\ \A f \in fs : proc[p].after[f] \in Contents
  <2>1. proc[p] \in Doing /\ DOMAIN proc[p].before = fs
    BY <1>1, DoingIs DEF Change, Planned, Working
  <2>2. proc[p].after \in Images
    BY <2>1 DEF Doing
  <2> QED
    BY <2>1, <2>2, ImageIs
<1>3. Workspace!Image(fs) \in Images /\ DOMAIN Workspace!Image(fs) = fs /\ \A f \in fs : Workspace!Image(fs)[f] = files[f]
  <2>1. Workspace!Image(fs) \in [fs -> Contents]
    BY <1>2, DoingIs DEF Workspace!Image
  <2> QED
    BY <1>2, <2>1 DEF Images, Workspace!Image
<1>4. line \in Boundary /\ line.before = Workspace!Image(fs) /\ line.after = proc[p].after
  BY <1>2, <1>3 DEF Boundary, Checkpoints, Workspace!Unstable
<1>5. /\ boundaries \in Seq(Boundary) /\ Len(boundaries) \in Nat /\ Workspace!Ids = 1..Len(boundaries)
      /\ n <= MaxBoundaries
  BY <1>1, DoingIs, LenProperties DEF Workspace!Ids, ChangesAssumption
<1>6. /\ boundaries' \in Seq(Boundary) /\ Len(boundaries') = n
      /\ \A i \in 1..Len(boundaries) : boundaries'[i] = boundaries[i]
      /\ boundaries'[n] = line
  BY <1>1, <1>4, <1>5, AppendProperties
<1>7. Workspace!Ids' = 1..n
  BY <1>6, LenProperties DEF Workspace!Ids
<1>8. n \in Contents
  BY <1>1, <1>5 DEF Contents, ChangesAssumption
<1>9. /\ doing \in Doing /\ doing.pc = "begun" /\ doing.id = n /\ doing.pending = proc[p].pending
      /\ doing.before = proc[p].before /\ doing.after = proc[p].after
      /\ doing.kind = proc[p].kind /\ doing.left = proc[p].left
  BY <1>2, <1>8 DEF Doing, Phases
<1>10. /\ proc' \in [Editors -> Doing] /\ proc'[p] = doing
       /\ \A r \in Editors \ {p} : proc'[r] = proc[r]
  BY <1>1, <1>9 DEF ChangeInv, ChangeShapes
<1>11. ChangeShapes'
  BY <1>1, <1>5, <1>6, <1>10 DEF ChangeShapes, ChangeInv
<1>12. Change(p)'
  <2>2. Planned(p)' /\ Bounded(p)'
    BY <1>2, <1>4, <1>5, <1>6, <1>7, <1>9, <1>10 DEF Planned, Bounded, Changing
  <2>3. Unseen(p)'
    BY <1>1, <1>9, <1>10 DEF Unseen, Workspace!Fresh, Workspace!On
  <2>4. Halfway(p)'
    BY <1>1, <1>3, <1>4, <1>6, <1>9, <1>10 DEF Halfway
  <2> QED
    BY <2>2, <2>3, <2>4 DEF Change
<1>13. \A i \in Workspace!Ids' : DOMAIN boundaries'[i].before = DOMAIN boundaries'[i].after
  BY <1>3, <1>4, <1>5, <1>6, <1>7 DEF ChangeInv
<1>14. Workspace!Ids \subseteq Workspace!Ids' /\ \A i \in Workspace!Ids : boundaries'[i] = boundaries[i]
  BY <1>5, <1>6, <1>7
<1> HIDE DEF doing, line, n, fs
<1>15. lock' = p /\ \A seen \in proc'[p].pending : seen[1] \in Workspace!Ids'
  BY <1>1, <1>9, <1>10, <1>14, DoingIs DEF Working
<1> QED
  BY <1>1, <1>10, <1>11, <1>12, <1>13, <1>14, <1>15, Bystanders

(* A change under way goes on. *)
LEMMA Continues ==
  ASSUME ChangeInv, ChangesAssumption, NEW p \in Editors, proc[p].pc \in Changing,
         NEW doing \in Doing, proc' = [proc EXCEPT ![p] = doing],
         doing.pc \in Changing \ {"begun"}, doing.left \subseteq DOMAIN proc[p].after,
         doing.before = proc[p].before, doing.after = proc[p].after, doing.id = proc[p].id,
         doing.kind = proc[p].kind, doing.pending = proc[p].pending,
         RowsKept \/ boundaries' = boundaries, lock' = lock, troubles' \in 0..MaxTroubles,
         files' \in [Documents -> Contents],
         \A f \in DOMAIN proc[p].after :
           files'[f] \in {files[f], boundaries[proc[p].id].before[f], proc[p].after[f]},
         doing.pc = "writing" =>
           \A f \in doing.left : proc[p].kind = "rewind" \/ files'[f] = proc[p].before[f]
  PROVE  ChangeInv'
<1>1. proc'[p] = doing
  BY DEF ChangeInv, ChangeShapes
<1>2. /\ lock = p /\ DOMAIN proc[p].before = DOMAIN proc[p].after
      /\ proc[p].id \in Workspace!Ids /\ boundaries[proc[p].id].after = proc[p].after
      /\ \A f \in DOMAIN proc[p].after : files[f] \in {boundaries[proc[p].id].before[f], proc[p].after[f]}
  BY DoingIs DEF Change, Planned, Bounded, Halfway, Working
<1>3. /\ Workspace!Ids' = Workspace!Ids
      /\ \A i \in Workspace!Ids : boundaries'[i].before = boundaries[i].before /\ boundaries'[i].after = boundaries[i].after
  BY KeptRows
<1>4. Planned(p)' /\ Bounded(p)'
  BY <1>1, <1>2, <1>3 DEF Planned, Bounded
<1>5. Unseen(p)'
  BY <1>1 DEF Unseen
<1>6. Halfway(p)'
  BY <1>1, <1>2, <1>3 DEF Halfway
<1>7. Change(p)'
  BY <1>4, <1>5, <1>6 DEF Change
<1> QED
  BY <1>2, <1>7, Moves, DoingIs

LEMMA ChangingIs ==
  ASSUME ChangeInv, ChangesAssumption, NEW p \in Editors, proc[p].pc \in Changing
  PROVE  /\ lock = p /\ DOMAIN proc[p].before = DOMAIN proc[p].after
         /\ proc[p].id \in Workspace!Ids /\ boundaries[proc[p].id].after = proc[p].after
         /\ DOMAIN boundaries[proc[p].id].before = DOMAIN proc[p].after
         /\ proc[p].pc # "begun" => proc[p].left \subseteq DOMAIN proc[p].after
         /\ proc[p].after \in Images /\ DOMAIN proc[p].after \subseteq Documents
         /\ \A f \in DOMAIN proc[p].after : /\ proc[p].after[f] \in Contents
                                            /\ boundaries[proc[p].id].before[f] \in Contents
<1>1. /\ lock = p /\ DOMAIN proc[p].before = DOMAIN proc[p].after
      /\ proc[p].id \in Workspace!Ids /\ boundaries[proc[p].id].after = proc[p].after
      /\ proc[p].pc # "begun" => proc[p].left \subseteq DOMAIN proc[p].after
  BY DoingIs DEF Change, Planned, Bounded, Working
<1>2. DOMAIN boundaries[proc[p].id].before = DOMAIN proc[p].after
  BY <1>1 DEF ChangeInv
<1>3. boundaries[proc[p].id].before \in Images /\ proc[p].after \in Images
  BY <1>1, RowIs, DoingIs DEF Boundary, Doing
<1> QED
  BY <1>1, <1>2, <1>3, ImageIs

LEMMA RecordStep ==
  ASSUME ChangeInv, ChangesAssumption, NEW p \in Editors, Workspace!Record(p)
  PROVE  ChangeInv'
<1> DEFINE doing == [proc[p] EXCEPT !.pc = "writing", !.left = DOMAIN proc[p].after]
<1>1. proc' = [proc EXCEPT ![p] = doing] /\ UNCHANGED <<files, lock, troubles>> /\ proc[p].pc = "begun"
  BY DoingIs DEF Workspace!Record, ChangeInv, ChangeShapes
<1>2. proc[p].pc \in Changing
  BY <1>1 DEF Changing
<1>3. DOMAIN proc[p].after \subseteq Documents /\ DOMAIN proc[p].after = DOMAIN proc[p].before
  BY <1>2, ChangingIs
<1>4. /\ doing \in Doing /\ doing.pc = "writing" /\ doing.left = DOMAIN proc[p].after
      /\ doing.before = proc[p].before /\ doing.after = proc[p].after /\ doing.id = proc[p].id
      /\ doing.kind = proc[p].kind /\ doing.pending = proc[p].pending
  BY <1>3, DoingIs DEF Doing, Phases
<1>5. RowsKept
  BY <1>2, ChangingIs, Marked, DoingIs DEF Workspace!Record, Checkpoints, Workspace!Unstable
<1>6. proc[p].kind = "rewind" \/ \A f \in DOMAIN proc[p].before : files[f] = proc[p].before[f]
  BY <1>1, DoingIs DEF Change, Unseen, Workspace!On
<1> QED
  BY <1>1, <1>2, <1>3, <1>4, <1>5, <1>6, Continues, DoingIs DEF Changing

LEMMA WriteStep ==
  ASSUME ChangeInv, ChangesAssumption, NEW p \in Editors, Workspace!Write(p)
  PROVE  ChangeInv'
<1>1. PICK f \in proc[p].left : /\ files' = [files EXCEPT ![f] = proc[p].after[f]]
                                /\ proc' = [proc EXCEPT ![p].left = @ \ {f}]
                                /\ UNCHANGED <<boundaries, lock, troubles>>
  BY DEF Workspace!Write
<1> DEFINE doing == [proc[p] EXCEPT !.left = @ \ {f}]
<1>2. proc[p].pc = "writing" /\ proc[p].pc \in Changing
  BY DEF Workspace!Write, Changing
<1>3. proc' = [proc EXCEPT ![p] = doing]
  BY <1>1
<1>4. /\ doing \in Doing /\ doing.pc = "writing" /\ doing.left = proc[p].left \ {f}
      /\ doing.before = proc[p].before /\ doing.after = proc[p].after /\ doing.id = proc[p].id
      /\ doing.kind = proc[p].kind /\ doing.pending = proc[p].pending
  BY <1>2, DoingIs DEF Doing
<1>5. /\ proc[p].left \subseteq DOMAIN proc[p].after
      /\ DOMAIN proc[p].after \subseteq Documents /\ proc[p].after[f] \in Contents
  BY <1>2, ChangingIs
<1>6. /\ files' \in [Documents -> Contents]
      /\ \A g \in DOMAIN proc[p].after : files'[g] \in {files[g], proc[p].after[g]}
      /\ \A g \in DOMAIN proc[p].after \ {f} : files'[g] = files[g]
  BY <1>1, <1>5, DoingIs
<1>7. \A g \in proc[p].left : proc[p].kind = "rewind" \/ files[g] = proc[p].before[g]
  BY <1>2, DoingIs DEF Change, Unseen
<1>8. \A g \in DOMAIN proc[p].after :
        files'[g] \in {files[g], boundaries[proc[p].id].before[g], proc[p].after[g]}
  BY <1>6
<1> HIDE DEF doing
<1>9. doing.pc \in Changing \ {"begun"} /\ doing.left \subseteq DOMAIN proc[p].after
  BY <1>4, <1>5 DEF Changing
<1>10. \A g \in doing.left : proc[p].kind = "rewind" \/ files'[g] = proc[p].before[g]
  BY <1>4, <1>5, <1>6, <1>7
<1>11. /\ boundaries' = boundaries /\ lock' = lock /\ troubles' \in 0..MaxTroubles
       /\ files' \in [Documents -> Contents]
  BY <1>1, <1>6, DoingIs
<1> QED
  BY <1>2, <1>3, <1>4, <1>8, <1>9, <1>10, <1>11, Continues

LEMMA UndoStep ==
  ASSUME ChangeInv, ChangesAssumption, NEW p \in Editors, Workspace!Undo(p)
  PROVE  ChangeInv'
<1>1. PICK f \in proc[p].left : /\ files' = [files EXCEPT ![f] = boundaries[proc[p].id].before[f]]
                                /\ proc' = [proc EXCEPT ![p].left = @ \ {f}]
                                /\ UNCHANGED <<boundaries, lock, troubles>>
  BY DEF Workspace!Undo
<1> DEFINE doing == [proc[p] EXCEPT !.left = @ \ {f}]
<1>2. proc[p].pc = "undoing" /\ proc[p].pc \in Changing
  BY DEF Workspace!Undo, Changing
<1>3. proc' = [proc EXCEPT ![p] = doing]
  BY <1>1
<1>4. /\ doing \in Doing /\ doing.pc = "undoing" /\ doing.left = proc[p].left \ {f}
      /\ doing.before = proc[p].before /\ doing.after = proc[p].after /\ doing.id = proc[p].id
      /\ doing.kind = proc[p].kind /\ doing.pending = proc[p].pending
  BY <1>2, DoingIs DEF Doing
<1>5. /\ proc[p].left \subseteq DOMAIN proc[p].after
      /\ DOMAIN proc[p].after \subseteq Documents /\ boundaries[proc[p].id].before[f] \in Contents
  BY <1>2, ChangingIs
<1>6. /\ files' \in [Documents -> Contents]
      /\ \A g \in DOMAIN proc[p].after : files'[g] \in {files[g], boundaries[proc[p].id].before[g]}
  BY <1>1, <1>5, DoingIs
<1>7. \A g \in DOMAIN proc[p].after :
        files'[g] \in {files[g], boundaries[proc[p].id].before[g], proc[p].after[g]}
  BY <1>6
<1> HIDE DEF doing
<1>8. doing.pc \in Changing \ {"begun"} /\ doing.pc # "writing" /\ doing.left \subseteq DOMAIN proc[p].after
  BY <1>4, <1>5 DEF Changing
<1>9. /\ boundaries' = boundaries /\ lock' = lock /\ troubles' \in 0..MaxTroubles
      /\ files' \in [Documents -> Contents]
  BY <1>1, <1>6, DoingIs
<1> QED
  BY <1>2, <1>3, <1>4, <1>7, <1>8, <1>9, Continues

LEMMA PublishStep ==
  ASSUME ChangeInv, ChangesAssumption, NEW p \in Editors, Workspace!Publish(p) \/ Workspace!Bind(p) \/ Workspace!Undone(p)
  PROVE  ChangeInv'
<1>1. proc[p].pc \in Changing \ {"begun"} /\ UNCHANGED <<files, lock>>
  BY DEF Workspace!Publish, Workspace!Bind, Workspace!Undone, Changing
<1>2. troubles' \in 0..MaxTroubles
  BY DoingIs DEF Workspace!Publish, Workspace!Bind, Workspace!Undone, Workspace!Trouble,
     ChangesAssumption
<1>3. PICK phase \in Changing \ {"begun", "writing"}, left \in {{}, proc[p].left} :
        proc' = [proc EXCEPT ![p] = [proc[p] EXCEPT !.pc = phase, !.left = left]]
  <2> DEFINE same == [proc[p] EXCEPT !.left = proc[p].left]
  <2>1. same = proc[p]
    BY DoingIs DEF Doing
  <2>2. CASE Workspace!Publish(p)
    <3>1. [proc[p] EXCEPT !.pc = "publishing", !.left = proc[p].left] = [proc[p] EXCEPT !.pc = "publishing"]
      BY DoingIs DEF Doing
    <3>2. proc' = [proc EXCEPT ![p] = [proc[p] EXCEPT !.pc = "publishing"]]
      BY <2>2 DEF Workspace!Publish
    <3> QED
      BY <3>1, <3>2 DEF Changing
  <2>3. CASE Workspace!Bind(p)
    <3>1. [proc[p] EXCEPT !.pc = "verifying", !.left = proc[p].left] = [proc[p] EXCEPT !.pc = "verifying"]
      BY DoingIs DEF Doing
    <3>2. proc' = [proc EXCEPT ![p] = [proc[p] EXCEPT !.pc = "verifying"]]
      BY <2>3 DEF Workspace!Bind
    <3> QED
      BY <3>1, <3>2 DEF Changing
  <2>4. CASE Workspace!Undone(p)
    <3>1. proc' = [proc EXCEPT ![p] = [proc[p] EXCEPT !.pc = "failing", !.left = {}]]
      BY <2>4, DoingIs DEF Workspace!Undone, ChangeInv, ChangeShapes
    <3> QED
      BY <3>1 DEF Changing
  <2> QED
    BY <2>2, <2>3, <2>4
<1> DEFINE doing == [proc[p] EXCEPT !.pc = phase, !.left = left]
<1>4. /\ doing \in Doing /\ doing.pc = phase /\ doing.left = left
      /\ doing.before = proc[p].before /\ doing.after = proc[p].after /\ doing.id = proc[p].id
      /\ doing.kind = proc[p].kind /\ doing.pending = proc[p].pending
  BY DoingIs DEF Doing, Phases, Changing
<1>5. RowsKept \/ boundaries' = boundaries
  <2>1. CASE Workspace!Publish(p)
    <3> DEFINE line == [boundaries[proc[p].id] EXCEPT !.checkpoint = "publishing"]
    <3>1. proc[p].id \in Workspace!Ids /\ boundaries[proc[p].id] \in Boundary
      BY <1>1, ChangingIs, RowIs, DoingIs
    <3>2. line \in Boundary /\ line.before = boundaries[proc[p].id].before /\ line.after = boundaries[proc[p].id].after
      BY <3>1 DEF Boundary, Checkpoints, Workspace!Unstable
    <3>3. boundaries' = [boundaries EXCEPT ![proc[p].id] = line]
      BY <2>1 DEF Workspace!Publish
    <3> HIDE DEF line
    <3> QED
      BY <3>1, <3>2, <3>3, RowSet, DoingIs
  <2>2. CASE Workspace!Bind(p)
    <3> DEFINE line == [boundaries[proc[p].id] EXCEPT !.checkpoint = "verifying", !.bound = TRUE]
    <3>1. proc[p].id \in Workspace!Ids /\ boundaries[proc[p].id] \in Boundary
      BY <1>1, ChangingIs, RowIs, DoingIs
    <3>2. line \in Boundary /\ line.before = boundaries[proc[p].id].before /\ line.after = boundaries[proc[p].id].after
      BY <3>1 DEF Boundary, Checkpoints, Workspace!Unstable
    <3>3. boundaries' = [boundaries EXCEPT ![proc[p].id] = line]
      BY <2>2, <3>1 DEF Workspace!Bind, Workspace!Ids
    <3> HIDE DEF line
    <3> QED
      BY <3>1, <3>2, <3>3, RowSet, DoingIs
  <2>3. CASE Workspace!Undone(p)
    BY <2>3 DEF Workspace!Undone
  <2> QED
    BY <2>1, <2>2, <2>3
<1>6. left \subseteq DOMAIN proc[p].after
  BY <1>1, ChangingIs
<1> HIDE DEF doing
<1> QED
  BY <1>1, <1>2, <1>3, <1>4, <1>5, <1>6, Continues, DoingIs DEF doing

LEMMA ThrowsStep ==
  ASSUME ChangeInv, ChangesAssumption, NEW p \in Editors, Workspace!Throws(p)
  PROVE  ChangeInv'
<1> DEFINE phase == IF Workspace!Undoes(p) THEN "undoing" ELSE "failing"
           left == IF Workspace!Undoes(p) THEN DOMAIN proc[p].after ELSE {}
           doing == [proc[p] EXCEPT !.pc = phase, !.left = left]
<1>1. /\ proc[p].pc \in Changing /\ UNCHANGED <<files, lock>>
      /\ proc' = [proc EXCEPT ![p] = doing]
  BY DoingIs DEF Workspace!Throws, Changing, ChangeInv, ChangeShapes
<1>2. troubles' \in 0..MaxTroubles
  BY DoingIs DEF Workspace!Throws, Workspace!Trouble, ChangesAssumption
<1>3. left \subseteq DOMAIN proc[p].after /\ DOMAIN proc[p].after \subseteq Documents
  BY <1>1, ChangingIs
<1>4. /\ doing \in Doing /\ doing.pc \in {"undoing", "failing"} /\ doing.left = left
      /\ doing.before = proc[p].before /\ doing.after = proc[p].after /\ doing.id = proc[p].id
      /\ doing.kind = proc[p].kind /\ doing.pending = proc[p].pending
  BY <1>3, DoingIs DEF Doing, Phases
<1>5. RowsKept \/ boundaries' = boundaries
  <2>1. CASE boundaries' = boundaries
    BY <2>1
  <2>2. CASE Workspace!Mark(proc[p].id, "needs-review", "needs-review")
    BY <1>1, <2>2, ChangingIs, Marked, DoingIs DEF Checkpoints
  <2>3. CASE Workspace!Mark(proc[p].id, "completed", "completed")
    BY <1>1, <2>3, ChangingIs, Marked, DoingIs DEF Checkpoints
  <2> QED
    BY <2>1, <2>2, <2>3 DEF Workspace!Throws
<1> HIDE DEF doing, left
<1> QED
  BY <1>1, <1>2, <1>3, <1>4, <1>5, Continues, DoingIs DEF Changing

LEMMA EndStep ==
  ASSUME ChangeInv, ChangesAssumption, NEW p \in Editors,
         Workspace!Refuse(p) \/ Workspace!Complete(p) \/ Workspace!Settle(p) \/ Workspace!Die(p)
  PROVE  ChangeInv'
<1>1. UNCHANGED files
  BY DEF Workspace!Refuse, Workspace!Complete, Workspace!Settle, Workspace!Die
<1>2. troubles' \in 0..MaxTroubles
  BY DoingIs DEF Workspace!Refuse, Workspace!Complete, Workspace!Settle, Workspace!Die,
     Workspace!Trouble, ChangesAssumption
<1>3. \/ Workspace!Leave(p) /\ proc[p].pc \in Working
      \/ lock' = (IF lock = p THEN "dead" ELSE lock) /\ proc' = [proc EXCEPT ![p] = Workspace!Off]
  BY DEF Workspace!Refuse, Workspace!Complete, Workspace!Settle, Workspace!Die, Working, Changing
<1>4. proc[p].id # 0 => proc[p].pc \in Changing /\ proc[p].id \in Workspace!Ids
  BY DoingIs DEF Change, Bounded
<1>5. RowsKept \/ boundaries' = boundaries
  <2>1. CASE Workspace!Refuse(p)
    BY <2>1 DEF Workspace!Refuse
  <2>2. CASE Workspace!Complete(p)
    <3>1. proc[p].id \in Workspace!Ids
      BY <2>2, ChangingIs DEF Workspace!Complete, Changing
    <3>2. boundaries' = [boundaries EXCEPT ![proc[p].id] =
                     [boundaries[proc[p].id] EXCEPT !.group = "completed", !.checkpoint = "completed",
                                              !.fate = "applied"]]
      BY <2>2, <3>1 DEF Workspace!Complete, Workspace!Ids
    <3> QED
      BY <3>1, <3>2, Settled, DoingIs
  <2>3. CASE Workspace!Settle(p)
    <3>1. proc[p].id \in Workspace!Ids
      BY <2>3, ChangingIs DEF Workspace!Settle, Changing
    <3>2. CASE boundaries' = [boundaries EXCEPT ![proc[p].id].fate =
                                Workspace!Fate(proc[p].id, boundaries[proc[p].id].checkpoint)]
      BY <3>1, <3>2, Fated, DoingIs
    <3>3. CASE boundaries' = [boundaries EXCEPT ![proc[p].id].group = "needs-review",
                                    ![proc[p].id].checkpoint = "needs-review",
                                    ![proc[p].id].fate = Workspace!Fate(proc[p].id, "needs-review")]
      <4> DEFINE fate == Workspace!Fate(proc[p].id, "needs-review")
      <4>1. fate \in {"open", "applied", "undone", "written", "torn", "disputed"}
        BY DEF Workspace!Fate
      <4>2. boundaries' = [boundaries EXCEPT ![proc[p].id] =
                       [boundaries[proc[p].id] EXCEPT !.group = "needs-review", !.checkpoint = "needs-review",
                                                !.fate = fate]]
        BY <3>1, <3>3 DEF Workspace!Ids
      <4> HIDE DEF fate
      <4> QED
        BY <3>1, <4>1, <4>2, Settled, DoingIs
    <3> QED
      BY <2>3, <3>2, <3>3 DEF Workspace!Settle
  <2>4. CASE Workspace!Die(p)
    BY <1>4, <2>4, Fated, DoingIs DEF Workspace!Die
  <2> QED
    BY <2>1, <2>2, <2>3, <2>4
<1> QED
  BY <1>1, <1>2, <1>3, <1>5, Ends

LEMMA ChangeInit == ASSUME ChangesAssumption PROVE Workspace!Init => ChangeInv
<1> SUFFICES ASSUME Workspace!Init PROVE ChangeInv
  OBVIOUS
<1>1. boundaries \in Seq(Boundary) /\ Len(boundaries) = 0 /\ Workspace!Ids = {}
  BY EmptySeq, LenProperties DEF Workspace!Init, Workspace!Ids
<1>2. ChangeShapes
  BY <1>1, IdleIs DEF Workspace!Init, ChangeShapes, Contents, ChangesAssumption
<1>3. \A p \in Editors : proc[p] = Workspace!Off
  BY DEF Workspace!Init
<1>4. \A p \in Editors : proc[p].pc \notin {"waiting"} \cup Working
  BY <1>3, IdleIs DEF Working, Changing
<1>5. \A p \in Editors : Change(p)
  BY <1>3, <1>4, IdleIs DEF Change, Planned, Bounded, Unseen, Halfway, Working, Changing
<1> QED
  BY <1>1, <1>2, <1>3, <1>4, <1>5, IdleIs DEF ChangeInv

LEMMA ChangeStep ==
  ASSUME ChangesAssumption
  PROVE  ChangeInv /\ [Workspace!Next]_Workspace!vars => ChangeInv'
<1> SUFFICES ASSUME ChangeInv, [Workspace!Next]_Workspace!vars PROVE ChangeInv'
  OBVIOUS
<1>1. CASE UNCHANGED Workspace!vars
  BY <1>1 DEF Workspace!vars, ChangeInv, ChangeShapes, Change, Planned, Bounded, Unseen, Halfway,
     Workspace!Ids, Workspace!On
<1>2. ASSUME NEW p \in Editors,
             \/ Workspace!Start(p) \/ Workspace!Recover(p) \/ Workspace!Ready(p) \/ Workspace!Exit(p)
             \/ Workspace!PreviewEdit(p) \/ Workspace!PreviewRestore(p) \/ Workspace!PreviewRewind(p)
             \/ Workspace!GiveUp(p) \/ Workspace!Acquire(p) \/ Workspace!Refuse(p) \/ Workspace!Begin(p) \/ Workspace!Record(p) \/ Workspace!Write(p)
             \/ Workspace!Publish(p) \/ Workspace!Bind(p) \/ Workspace!Complete(p)
             \/ Workspace!Throws(p) \/ Workspace!Undo(p) \/ Workspace!Undone(p) \/ Workspace!Settle(p) \/ Workspace!Die(p)
      PROVE  ChangeInv'
  BY <1>2, StartStep, RecoverStep, RestStep, PreviewStep, AcquireStep, BeginStep, RecordStep,
     WriteStep, PublishStep, ThrowsStep, UndoStep, EndStep
<1> QED
  BY <1>1, <1>2 DEF Workspace!Next

LEMMA ChangeFollows == ASSUME ChangesAssumption, ChangeInv PROVE Workspace!TypeOK
<1>1. \A i \in Workspace!Ids : boundaries[i] \in Boundary
  BY RowIs DEF ChangeInv, ChangeShapes
<1>2. ASSUME NEW p \in Editors PROVE proc[p].id \in 0..Len(boundaries)
  BY DoingIs, LenProperties DEF Change, Bounded, Workspace!Ids
<1> QED
  BY <1>1, <1>2 DEF Workspace!TypeOK, ChangeInv, ChangeShapes, Boundary, Checkpoints, Contents

(* Rows, phases and contents keep the shapes the code knows; a process works *)
(* on a boundary that is there.                                               *)
THEOREM ChangesShapesHold == ASSUME ChangesAssumption PROVE Workspace!Spec => []Workspace!TypeOK
<1>1. ChangeInv => Workspace!TypeOK
  BY ChangeFollows
<1>2. Workspace!Init => ChangeInv
  BY ChangeInit
<1>3. ChangeInv /\ [Workspace!Next]_Workspace!vars => ChangeInv'
  BY ChangeStep
<1> QED
  BY <1>1, <1>2, <1>3, PTL DEF Workspace!Spec

(* What a write replaces, its preview saw; what an undo replaces, it has written. *)
LEMMA WritesSeen ==
  ASSUME ChangesAssumption, ChangeInv, Workspace!Next
  PROVE  Workspace!NoLostUpdateStep
<1>1. PICK p \in Editors : files' # files => Workspace!Write(p) \/ Workspace!Undo(p)
  BY DEF Workspace!Next, Workspace!Start, Workspace!Recover, Workspace!Ready,
     Workspace!Exit, Workspace!PreviewEdit, Workspace!PreviewRestore, Workspace!PreviewRewind,
     Workspace!GiveUp, Workspace!Acquire, Workspace!Refuse, Workspace!Begin, Workspace!Record,
     Workspace!Publish, Workspace!Bind, Workspace!Complete, Workspace!Throws, Workspace!Undone,
     Workspace!Settle, Workspace!Die
<1>2. ASSUME NEW g \in Documents, files'[g] # files[g], Workspace!Write(p)
      PROVE  lock = p /\ proc[p].pc = "writing"
             /\ (proc[p].kind = "rewind" \/ files[g] = proc[p].before[g])
  <2>1. lock = p /\ proc[p].pc = "writing"
    BY <1>2, ChangingIs DEF Workspace!Write, Changing
  <2>2. g \in proc[p].left
    BY <1>2, DoingIs DEF Workspace!Write
  <2> QED
    BY <2>1, <2>2, DoingIs DEF Change, Unseen
<1>3. ASSUME NEW g \in Documents, files'[g] # files[g], Workspace!Undo(p)
      PROVE  lock = p /\ proc[p].pc = "undoing" /\ files[g] = boundaries[proc[p].id].after[g]
  <2>1. lock = p /\ proc[p].pc = "undoing" /\ proc[p].pc \in Changing
    BY <1>3, ChangingIs DEF Workspace!Undo, Changing
  <2>2. g \in proc[p].left /\ files'[g] = boundaries[proc[p].id].before[g]
    BY <1>3, DoingIs DEF Workspace!Undo
  <2>3. g \in DOMAIN proc[p].after /\ boundaries[proc[p].id].after = proc[p].after
    BY <2>1, <2>2, ChangingIs
  <2>4. files[g] \in {boundaries[proc[p].id].before[g], proc[p].after[g]}
    BY <2>1, <2>3, DoingIs DEF Change, Halfway
  <2> QED
    BY <1>3, <2>1, <2>2, <2>3, <2>4
<1> QED
  BY <1>1, <1>2, <1>3 DEF Workspace!NoLostUpdateStep

(* No governed change is lost: what stands in a file when a change of the      *)
(* workspace replaces it is what its preview saw (ensureNoStaleState), and what *)
(* a rollback replaces is what the same change had put there.                   *)
THEOREM NoLostUpdateHolds == ASSUME ChangesAssumption PROVE Workspace!Spec => Workspace!NoLostUpdate
<1>1. ChangeInv /\ [Workspace!Next]_Workspace!vars => [Workspace!NoLostUpdateStep]_Workspace!vars
  BY WritesSeen
<1>2. Workspace!Init => ChangeInv
  BY ChangeInit
<1>3. ChangeInv /\ [Workspace!Next]_Workspace!vars => ChangeInv'
  BY ChangeStep
<1> QED
  BY <1>1, <1>2, <1>3, PTL DEF Workspace!Spec, Workspace!NoLostUpdate

---------------------------------------------------------------------------
(* A half-done change: of one whose manifest is bound the failure is on record *)
(* and nobody has read it as verifying, one without is never taken for        *)
(* complete, so a recovery leaves each of them for review.                    *)

Sealed(i) == boundaries[i].fate = "torn" /\ boundaries[i].bound

RowHonest(i) ==
  /\ "completed" \in {boundaries[i].group, boundaries[i].checkpoint} => boundaries[i].bound
  /\ boundaries[i].checkpoint = "needs-review" => boundaries[i].group = "needs-review"
  /\ Sealed(i) => boundaries[i].checkpoint = "needs-review"

OwnerHonest(p) ==
  proc[p].pc \in Changing =>
    /\ boundaries[proc[p].id].fate = "open"
    /\ proc[p].pc = "verifying" => boundaries[proc[p].id].bound

(* Half-done changes a process found at its start wait for review, once it has *)
(* reconciled them; it begins none of its own.                                 *)
Reviewed(p, i) ==
  /\ i \in Workspace!Ids /\ boundaries[i].fate = "torn"
  /\ \/ boundaries[i].group = "needs-review"
     \/ proc[p].pc = "recovering" /\ \E seen \in proc[p].pending : seen[1] = i
Misread(p, i) == <<i, "verifying">> \in proc[p].pending
Knowing(p) ==
  /\ (proc[p].id # 0 => proc[p].knew = {}) /\ \A i \in proc[p].knew : Reviewed(p, i)
  /\ \A i \in Workspace!Ids : Misread(p, i) => ~ Sealed(i)

HonestInv ==
  /\ \A i \in Workspace!Ids : RowHonest(i)
  /\ \A p \in Editors : OwnerHonest(p) /\ Knowing(p)

(* A half-done boundary stays one, and for review once it is; one with its     *)
(* manifest becomes one when nobody has read it as verifying.                  *)
TornKept ==
  \A i \in Workspace!Ids :
    /\ i \in Workspace!Ids'
    /\ boundaries[i].fate = "torn" =>
         /\ boundaries'[i].fate = "torn"
         /\ boundaries[i].group = "needs-review" => boundaries'[i].group = "needs-review"
    /\ Sealed(i)' => Sealed(i) \/ \A q \in Editors : ~ Misread(q, i)

(* What another process may do while p has a change under way: settle statuses. *)
Steady ==
  \A i \in Workspace!Ids :
    boundaries'[i].fate = boundaries[i].fate /\ boundaries'[i].bound = boundaries[i].bound

(* A boundary that p adds, nobody has read. *)
LEMMA Witnesses ==
  ASSUME HonestInv, ChangeInv, ChangesAssumption, NEW p \in Editors,
         \A q \in Editors \ {p} : proc'[q] = proc[q],
         TornKept, Steady \/ lock = p,
         \A i \in Workspace!Ids' : RowHonest(i)', OwnerHonest(p)', Knowing(p)'
  PROVE  HonestInv'
<1>1. ASSUME NEW q \in Editors, q # p PROVE OwnerHonest(q)' /\ Knowing(q)'
  <2>1. proc'[q] = proc[q] /\ OwnerHonest(q) /\ Knowing(q)
    BY <1>1 DEF HonestInv
  <2>2. OwnerHonest(q)'
    <3>1. CASE proc[q].pc \notin Changing
      BY <2>1, <3>1 DEF OwnerHonest
    <3>2. CASE proc[q].pc \in Changing
      <4>1. lock = q /\ proc[q].id \in Workspace!Ids
        BY <3>2, ChangingIs
      <4>2. Steady
        BY <1>1, <4>1
      <4> DEFINE i == proc[q].id
      <4>3. boundaries'[i].fate = boundaries[i].fate /\ boundaries'[i].bound = boundaries[i].bound
        BY <4>1, <4>2 DEF Steady
      <4>4. boundaries[i].fate = "open" /\ (proc[q].pc = "verifying" => boundaries[i].bound)
        BY <2>1, <3>2 DEF OwnerHonest
      <4> QED
        BY <2>1, <4>3, <4>4, Zenon DEF OwnerHonest
    <3> QED
      BY <3>1, <3>2
  <2>3. ASSUME NEW i \in Workspace!Ids', Misread(q, i)' PROVE ~ Sealed(i)'
    <3>1. Misread(q, i)
      BY <2>1, <2>3 DEF Misread
    <3>2. i \in Workspace!Ids
      <4>1. \A seen \in proc[q].pending : seen[1] \in Workspace!Ids
        BY DoingIs
      <4>2. <<i, "verifying">> \in proc[q].pending
        BY <3>1 DEF Misread
      <4> QED
        BY <4>1, <4>2
    <3> QED
      BY <2>1, <3>1, <3>2 DEF Knowing, TornKept
  <2>4. Knowing(q)'
    BY <2>1, <2>3 DEF Knowing, Reviewed, TornKept
  <2> QED
    BY <2>2, <2>4
<1> QED
  BY <1>1 DEF HonestInv

(* One row changes. *)
LEMMA OneRow ==
  ASSUME HonestInv, ChangeInv, NEW i \in Workspace!Ids, NEW line \in Boundary,
         boundaries' = [boundaries EXCEPT ![i] = line],
         line.before = boundaries[i].before, line.after = boundaries[i].after,
         "completed" \in {line.group, line.checkpoint} => line.bound,
         line.checkpoint = "needs-review" => line.group = "needs-review",
         line.fate = "torn" /\ line.bound =>
           /\ line.checkpoint = "needs-review"
           /\ Sealed(i) \/ \A q \in Editors : ~ Misread(q, i),
         boundaries[i].fate = "torn" => line.fate = "torn" /\ line.group = "needs-review"
  PROVE  /\ TornKept /\ \A j \in Workspace!Ids' : RowHonest(j)'
         /\ Workspace!Ids' = Workspace!Ids
         /\ \A j \in Workspace!Ids : boundaries'[j] = IF j = i THEN line ELSE boundaries[j]
<1>1. RowsKept
  BY RowSet DEF ChangeInv, ChangeShapes
<1>2. Workspace!Ids' = Workspace!Ids
  BY <1>1, KeptRows
<1>3. \A j \in Workspace!Ids : boundaries'[j] = IF j = i THEN line ELSE boundaries[j]
  BY DEF Workspace!Ids
<1>4. TornKept
  BY <1>2, <1>3 DEF TornKept, Sealed
<1>5. ASSUME NEW j \in Workspace!Ids' PROVE RowHonest(j)'
  <2>1. CASE j = i
    <3>1. boundaries'[j] = line
      BY <1>3, <2>1
    <3> QED
      BY <3>1, Zenon DEF RowHonest, Sealed
  <2>2. CASE j # i
    <3>1. boundaries'[j] = boundaries[j] /\ RowHonest(j)
      BY <1>2, <1>3, <2>2 DEF HonestInv
    <3> QED
      BY <3>1, Zenon DEF RowHonest, Sealed
  <2> QED
    BY <2>1, <2>2
<1> QED
  BY <1>2, <1>3, <1>4, <1>5

(* The rows stay as they are, and p ends with no change under way. *)
LEMMA Quiet ==
  ASSUME HonestInv, ChangeInv, ChangesAssumption, NEW p \in Editors,
         \A q \in Editors \ {p} : proc'[q] = proc[q], boundaries' = boundaries,
         proc'[p].pc \notin Changing, proc'[p].id = 0, \A i \in proc'[p].knew : Reviewed(p, i)',
         \A i \in Workspace!Ids : Misread(p, i)' => ~ Sealed(i)
  PROVE  HonestInv'
<1>1. TornKept /\ Steady /\ Workspace!Ids' = Workspace!Ids
  BY DEF TornKept, Steady, Sealed, Workspace!Ids
<1>2. \A i \in Workspace!Ids' : RowHonest(i)'
  BY DEF HonestInv, RowHonest, Sealed, Workspace!Ids
<1>3. OwnerHonest(p)' /\ Knowing(p)'
  BY <1>1 DEF OwnerHonest, Knowing, Sealed
<1> QED
  BY <1>1, <1>2, <1>3, Witnesses

(* The row of the change of p changes. *)
LEMMA OwnRow ==
  ASSUME HonestInv, ChangeInv, ChangesAssumption, NEW p \in Editors, proc[p].pc \in Changing,
         NEW line \in Boundary, boundaries' = [boundaries EXCEPT ![proc[p].id] = line],
         line.before = boundaries[proc[p].id].before, line.after = boundaries[proc[p].id].after,
         "completed" \in {line.group, line.checkpoint} => line.bound,
         line.checkpoint = "needs-review" => line.group = "needs-review",
         line.fate = "torn" /\ line.bound =>
           /\ line.checkpoint = "needs-review"
           /\ \A q \in Editors : ~ Misread(q, proc[p].id),
         \A q \in Editors \ {p} : proc'[q] = proc[q],
         proc'[p].knew \in {{}, proc[p].knew}, proc'[p].pending \subseteq proc[p].pending,
         proc'[p].pc \in Changing =>
           /\ proc'[p].id = proc[p].id /\ line.fate = "open"
           /\ proc'[p].pc = "verifying" => line.bound
  PROVE  HonestInv'
<1>1. /\ lock = p /\ proc[p].id \in Workspace!Ids /\ proc[p].id # 0
      /\ boundaries[proc[p].id] \in Boundary
  BY ChangingIs, DoingIs, RowIs DEF ChangesAssumption
<1>2. boundaries[proc[p].id].fate = "open" /\ proc[p].knew = {}
  BY <1>1 DEF HonestInv, OwnerHonest, Knowing
<1>3. boundaries[proc[p].id].fate = "torn" => line.fate = "torn" /\ line.group = "needs-review"
  BY <1>2
<1>4. /\ TornKept /\ (\A j \in Workspace!Ids' : RowHonest(j)') /\ Workspace!Ids' = Workspace!Ids
      /\ boundaries'[proc[p].id] = line
  <2> DEFINE n == proc[p].id
  <2>1. n \in Workspace!Ids
    BY <1>1
  <2>2. /\ boundaries' = [boundaries EXCEPT ![n] = line]
        /\ line.before = boundaries[n].before /\ line.after = boundaries[n].after
        /\ boundaries[n].fate = "torn" => line.fate = "torn" /\ line.group = "needs-review"
    BY <1>3
  <2>3. line.fate = "torn" /\ line.bound =>
          /\ line.checkpoint = "needs-review"
          /\ Sealed(n) \/ \A q \in Editors : ~ Misread(q, n)
    OBVIOUS
  <2> HIDE DEF n
  <2>4. /\ "completed" \in {line.group, line.checkpoint} => line.bound
        /\ line.checkpoint = "needs-review" => line.group = "needs-review"
    OBVIOUS
  <2>5. /\ TornKept /\ (\A j \in Workspace!Ids' : RowHonest(j)') /\ Workspace!Ids' = Workspace!Ids
        /\ \A j \in Workspace!Ids : boundaries'[j] = IF j = n THEN line ELSE boundaries[j]
    BY ONLY <2>1, <2>2, <2>3, <2>4, line \in Boundary, HonestInv, ChangeInv, OneRow
  <2> QED
    BY <2>1, <2>5 DEF n
<1>5. ASSUME NEW i \in Workspace!Ids', Misread(p, i)' PROVE ~ Sealed(i)'
  <2>1. Misread(p, i) /\ i \in Workspace!Ids
    BY <1>4, <1>5 DEF Misread
  <2>2. ~ Sealed(i)
    BY <2>1 DEF HonestInv, Knowing
  <2> QED
    BY <2>1, <2>2, <1>4 DEF TornKept
<1>6. Knowing(p)'
  BY <1>2, <1>5 DEF Knowing
<1>7. OwnerHonest(p)'
  BY <1>4, Zenon DEF OwnerHonest
<1> QED
  BY <1>1, <1>4, <1>6, <1>7, Witnesses

(* The rows stay as they are, and the change of p goes on. *)
LEMMA SameRows ==
  ASSUME HonestInv, ChangeInv, ChangesAssumption, NEW p \in Editors, proc[p].pc \in Changing,
         boundaries' = boundaries, \A q \in Editors \ {p} : proc'[q] = proc[q],
         proc'[p].knew = proc[p].knew, proc'[p].id = proc[p].id,
         proc'[p].pending = proc[p].pending,
         proc'[p].pc \in {proc[p].pc, "undoing", "failing"}
  PROVE  HonestInv'
<1> DEFINE line == boundaries[proc[p].id]
<1>1. proc[p].id \in Workspace!Ids /\ line \in Boundary
  BY ChangingIs, DoingIs, RowIs
<1>2. boundaries' = [boundaries EXCEPT ![proc[p].id] = line]
  BY <1>1, DoingIs DEF Workspace!Ids
<1>3. RowHonest(proc[p].id) /\ OwnerHonest(p)
  BY <1>1 DEF HonestInv
<1>4. line.fate = "open" /\ (proc'[p].pc = "verifying" => line.bound)
  BY <1>3 DEF OwnerHonest
<1>5. /\ "completed" \in {line.group, line.checkpoint} => line.bound
      /\ line.checkpoint = "needs-review" => line.group = "needs-review"
  BY <1>3, Zenon DEF RowHonest
<1> HIDE DEF line
<1> QED
  BY <1>1, <1>2, <1>4, <1>5, OwnRow DEF line

---------------------------------------------------------------------------
(* Steps of a process that has no change under way *)

LEMMA HonestRest ==
  ASSUME HonestInv, ChangeInv, ChangesAssumption, NEW p \in Editors,
         \/ Workspace!Start(p) \/ Workspace!Ready(p) \/ Workspace!Exit(p)
         \/ Workspace!PreviewEdit(p) \/ Workspace!PreviewRestore(p) \/ Workspace!PreviewRewind(p)
         \/ Workspace!GiveUp(p) \/ Workspace!Acquire(p) \/ Workspace!Refuse(p)
  PROVE  HonestInv'
<1>1. files' = files /\ boundaries' = boundaries /\ troubles' = troubles
  BY DEF Workspace!Start, Workspace!Ready, Workspace!Exit, Workspace!PreviewEdit, Workspace!PreviewRestore,
     Workspace!PreviewRewind, Workspace!GiveUp, Workspace!Acquire, Workspace!Refuse
<1>2. Workspace!Ids' = Workspace!Ids
  BY <1>1 DEF Workspace!Ids
<1>3. proc \in [Editors -> Doing] /\ proc[p] \in Doing
  BY DoingIs DEF ChangeInv, ChangeShapes
<1>4. CASE Workspace!Start(p)
  <2> DEFINE stale == {<<i, boundaries[i].checkpoint>> : i \in {j \in Workspace!Ids : boundaries[j].checkpoint \in Workspace!Unstable}}
             knew == {i \in Workspace!Ids : boundaries[i].fate = "torn"}
             doing == [Workspace!Idle EXCEPT !.pc = "recovering", !.pending = stale, !.knew = knew]
  <2>1. proc' = [proc EXCEPT ![p] = doing]
    BY <1>4 DEF Workspace!Start
  <2>2. doing.pc = "recovering" /\ doing.id = 0 /\ doing.pending = stale /\ doing.knew = knew
    BY DEF Workspace!Idle
  <2>3. proc'[p] = doing /\ \A q \in Editors \ {p} : proc'[q] = proc[q]
    BY <1>3, <2>1
  <2>4. ASSUME NEW i \in knew PROVE boundaries[i].group = "needs-review" \/ \E seen \in stale : seen[1] = i
    <3>1. RowHonest(i) /\ boundaries[i] \in Boundary /\ boundaries[i].fate = "torn"
      BY DoingIs, RowIs DEF HonestInv
    <3>2. boundaries[i].checkpoint # "completed"
      BY <3>1, Zenon DEF RowHonest, Sealed
    <3>3. boundaries[i].checkpoint \in Workspace!Unstable \/ boundaries[i].group = "needs-review"
      BY <3>1, <3>2 DEF RowHonest, Boundary, Checkpoints
    <3>4. boundaries[i].checkpoint \in Workspace!Unstable => <<i, boundaries[i].checkpoint>> \in stale
      OBVIOUS
    <3>5. <<i, boundaries[i].checkpoint>>[1] = i
      OBVIOUS
    <3> HIDE DEF stale
    <3> QED
      BY <3>3, <3>4, <3>5
  <2>6. ASSUME NEW i \in Workspace!Ids, <<i, "verifying">> \in stale PROVE ~ Sealed(i)
    <3>1. PICK j \in Workspace!Ids : <<i, "verifying">> = <<j, boundaries[j].checkpoint>>
      BY <2>6
    <3>2. boundaries[i].checkpoint = "verifying"
      BY <3>1
    <3>3. Sealed(i) => boundaries[i].checkpoint = "needs-review"
      BY DEF HonestInv, RowHonest
    <3> QED
      BY <3>2, <3>3
  <2> HIDE DEF stale, doing
  <2>7. \A i \in Workspace!Ids : Misread(p, i)' => ~ Sealed(i)
    BY <2>2, <2>3, <2>6 DEF Misread
  <2>5. ASSUME NEW i \in proc'[p].knew PROVE Reviewed(p, i)'
    <3>1. i \in knew
      BY <2>2, <2>3, <2>5
    <3> QED
      BY <1>1, <1>2, <2>2, <2>3, <2>4, <3>1 DEF Reviewed
  <2> QED
    BY <1>1, <2>2, <2>3, <2>5, <2>7, Quiet DEF Changing
<1>5. CASE ~ Workspace!Start(p)
  <2>1. \A q \in Editors \ {p} : proc'[q] = proc[q]
    BY <1>3, <1>5 DEF Workspace!Ready, Workspace!Exit, Workspace!PreviewEdit, Workspace!PreviewRestore,
       Workspace!PreviewRewind, Workspace!Wants, Workspace!GiveUp, Workspace!Acquire, Workspace!Refuse, Workspace!Leave
  <2>2. proc[p].pc \notin Changing /\ proc[p].id = 0
    <3>1. proc[p].pc \in {"recovering", "idle", "waiting", "locked"}
      BY <1>5 DEF Workspace!Ready, Workspace!Exit, Workspace!PreviewEdit, Workspace!PreviewRestore,
         Workspace!PreviewRewind, Workspace!GiveUp, Workspace!Acquire, Workspace!Refuse
    <3> QED
      BY <3>1, DoingIs DEF Change, Bounded, Changing
  <2>3. /\ proc'[p].pc \in {"idle", "off", "waiting", "locked"} /\ proc'[p].id = 0
        /\ proc'[p].knew \in {{}, proc[p].knew} /\ proc'[p].pending \in {{}, proc[p].pending}
    <3>1. CASE Workspace!Ready(p) \/ Workspace!Acquire(p)
      BY <1>3, <2>2, <3>1 DEF Workspace!Ready, Workspace!Acquire, Doing
    <3>2. CASE Workspace!Exit(p) \/ Workspace!GiveUp(p) \/ Workspace!Refuse(p)
      BY <1>3, <3>2 DEF Workspace!Exit, Workspace!GiveUp, Workspace!Refuse, Workspace!Leave, Workspace!Idle, Workspace!Off
    <3>3. CASE Workspace!PreviewEdit(p) \/ Workspace!PreviewRestore(p) \/ Workspace!PreviewRewind(p)
      <4>1. PICK kind, was, after : Workspace!Wants(p, kind, was, after)
        BY <3>3 DEF Workspace!PreviewEdit, Workspace!PreviewRestore, Workspace!PreviewRewind
      <4> QED
        BY <1>3, <2>2, <4>1 DEF Workspace!Wants, Doing
    <3> QED
      BY <1>5, <3>1, <3>2, <3>3
  <2>4. proc[p].pc = "recovering" => proc[p].pending = {}
    BY <1>5 DEF Workspace!Ready, Workspace!Exit, Workspace!PreviewEdit, Workspace!PreviewRestore,
       Workspace!PreviewRewind, Workspace!GiveUp, Workspace!Acquire, Workspace!Refuse
  <2>5. \A i \in proc[p].knew : i \in Workspace!Ids /\ boundaries[i].fate = "torn" /\ boundaries[i].group = "needs-review"
    BY <2>4 DEF HonestInv, Knowing, Reviewed
  <2>6. \A i \in proc'[p].knew : Reviewed(p, i)'
    BY <1>1, <1>2, <2>3, <2>5 DEF Reviewed
  <2>7. \A i \in Workspace!Ids : Misread(p, i)' => ~ Sealed(i)
    BY <2>3 DEF Misread, HonestInv, Knowing
  <2> QED
    BY <1>1, <2>1, <2>3, <2>6, <2>7, Quiet DEF Changing
<1> QED
  BY <1>4, <1>5

LEMMA HonestRecover ==
  ASSUME HonestInv, ChangeInv, ChangesAssumption, NEW p \in Editors, Workspace!Recover(p)
  PROVE  HonestInv'
<1>1. PICK seen \in proc[p].pending, intact \in BOOLEAN :
        /\ IF intact THEN UNCHANGED troubles ELSE Workspace!Trouble
        /\ Workspace!Mark(seen[1], Workspace!RecoveredAs(seen[1], seen[2], intact), Workspace!RecoveredAs(seen[1], seen[2], intact))
        /\ proc' = [proc EXCEPT ![p].pending = @ \ {seen}]
  BY DEF Workspace!Recover
<1>2. proc[p] \in Doing /\ proc \in [Editors -> Doing] /\ proc[p].pc = "recovering" /\ proc[p].id = 0
      /\ seen = <<seen[1], seen[2]>>
  <2>1. proc[p] \in Doing /\ Change(p) /\ proc \in [Editors -> Doing]
    BY DoingIs DEF ChangeInv, ChangeShapes
  <2>2. proc[p].pc = "recovering"
    BY DEF Workspace!Recover
  <2>3. proc[p].id = 0
    BY <2>1, <2>2 DEF Change, Bounded, Changing
  <2>4. proc[p].pending \subseteq Contents \X Checkpoints
    BY <2>1 DEF Doing
  <2>5. seen = <<seen[1], seen[2]>>
    BY <2>4
  <2> QED
    BY <2>1, <2>2, <2>3, <2>5
<1> DEFINE s == Workspace!RecoveredAs(seen[1], seen[2], intact)
           n == seen[1]
           line == [boundaries[n] EXCEPT !.group = s, !.checkpoint = s]
<1>3. n \in Workspace!Ids /\ boundaries[n] \in Boundary /\ RowHonest(n)
  BY DoingIs, RowIs DEF HonestInv
<1>4. s \in {"completed", "needs-review"} /\ (s = "completed" => boundaries[n].bound)
  BY Zenon DEF Workspace!RecoveredAs
<1>5. boundaries' = [boundaries EXCEPT ![n] = line]
  BY <1>1, <1>3 DEF Workspace!Mark, Workspace!Ids
<1> HIDE DEF s
<1>6. /\ line \in Boundary /\ line.before = boundaries[n].before /\ line.after = boundaries[n].after
      /\ line.fate = boundaries[n].fate /\ line.bound = boundaries[n].bound
      /\ line.group = s /\ line.checkpoint = s
  BY <1>3, <1>4 DEF Boundary, Checkpoints
<1> HIDE DEF line
<1>7. /\ "completed" \in {line.group, line.checkpoint} => line.bound
      /\ line.checkpoint = "needs-review" => line.group = "needs-review"
  BY <1>4, <1>6
<1>8. boundaries[n].fate = "torn" => s = "needs-review"
  <2> SUFFICES ASSUME boundaries[n].fate = "torn" PROVE s # "completed"
    BY <1>4
  <2>1. Misread(p, n) => ~ Sealed(n)
    BY <1>3 DEF HonestInv, Knowing
  <2>2. seen[2] = "verifying" => Misread(p, n)
    BY <1>2 DEF Misread
  <2>3. ~ (seen[2] = "verifying" /\ boundaries[n].bound)
    BY <2>1, <2>2 DEF Sealed
  <2> QED
    BY <2>3, Zenon DEF s, Workspace!RecoveredAs
<1>9. boundaries[n].fate = "torn" => line.fate = "torn" /\ line.group = "needs-review"
  BY <1>6, <1>8
<1>17. line.fate = "torn" /\ line.bound =>
         /\ line.checkpoint = "needs-review"
         /\ Sealed(n) \/ \A q \in Editors : ~ Misread(q, n)
  BY <1>6, <1>8 DEF Sealed
<1>10. /\ TornKept /\ (\A j \in Workspace!Ids' : RowHonest(j)') /\ Workspace!Ids' = Workspace!Ids
       /\ \A j \in Workspace!Ids : boundaries'[j] = IF j = n THEN line ELSE boundaries[j]
  BY <1>3, <1>5, <1>6, <1>7, <1>9, <1>17, OneRow
<1>11. Steady
  BY <1>2, <1>6, <1>10 DEF Steady
<1>12. /\ proc'[p].pc = "recovering" /\ proc'[p].id = 0 /\ proc'[p].knew = proc[p].knew
       /\ proc'[p].pending = proc[p].pending \ {seen}
       /\ \A q \in Editors \ {p} : proc'[q] = proc[q]
  BY <1>1, <1>2 DEF Doing
<1>13. OwnerHonest(p)'
  BY <1>12 DEF OwnerHonest, Changing
<1>14. ASSUME NEW i \in proc[p].knew PROVE Reviewed(p, i)'
  <2>1. Reviewed(p, i)
    BY DEF HonestInv, Knowing
  <2>2. i \in Workspace!Ids' /\ boundaries'[i].fate = "torn"
    BY <1>10, <2>1 DEF Reviewed, TornKept
  <2>3. CASE i = n
    <3>1. boundaries'[i].group = "needs-review"
      BY <1>9, <1>10, <2>1, <2>3 DEF Reviewed
    <3> QED
      BY <2>2, <3>1 DEF Reviewed
  <2>4. CASE i # n
    BY <1>10, <1>12, <2>1, <2>2, <2>4 DEF Reviewed, TornKept
  <2> QED
    BY <2>3, <2>4
<1>15. Knowing(p)'
  <2>1. ASSUME NEW i \in Workspace!Ids', Misread(p, i)' PROVE ~ Sealed(i)'
    <3>1. Misread(p, i) /\ i \in Workspace!Ids
      BY <1>10, <1>12, <2>1 DEF Misread
    <3>2. ~ Sealed(i)
      BY <3>1 DEF HonestInv, Knowing
    <3> QED
      BY <3>1, <3>2, <1>10 DEF TornKept
  <2> QED
    BY <1>12, <1>14, <2>1 DEF Knowing
<1> QED
  BY <1>10, <1>11, <1>12, <1>13, <1>15, Witnesses

---------------------------------------------------------------------------
(* Steps of a change *)

LEMMA HonestBegin ==
  ASSUME HonestInv, ChangeInv, ChangesAssumption, NEW p \in Editors, Workspace!Begin(p)
  PROVE  HonestInv'
<1> DEFINE n == Len(boundaries) + 1
           fs == DOMAIN proc[p].after
           line == [group |-> "created", checkpoint |-> "checkpointing", bound |-> FALSE,
                   before |-> Workspace!Image(fs), after |-> proc[p].after, fate |-> "open"]
           doing == [proc[p] EXCEPT !.pc = "begun", !.id = n]
<1>1. /\ boundaries' = Append(boundaries, line) /\ proc' = [proc EXCEPT ![p] = doing]
      /\ UNCHANGED <<files, lock, troubles>> /\ proc[p].pc = "locked" /\ Workspace!AllReady
  BY DEF Workspace!Begin
<1>2. proc[p] \in Doing /\ proc \in [Editors -> Doing] /\ lock = p /\ troubles \in Nat
  BY <1>1, DoingIs DEF Working, ChangeInv, ChangeShapes, ChangesAssumption
<1>3. /\ Len(boundaries) \in Nat /\ Workspace!Ids = 1..Len(boundaries) /\ Workspace!Ids' = 1..n
      /\ (\A i \in Workspace!Ids : boundaries'[i] = boundaries[i]) /\ boundaries'[n] = line
  <2>1. ChangeInv'
    BY BeginStep
  <2>2. boundaries \in Seq(Boundary) /\ boundaries' \in Seq(Boundary)
    BY <2>1 DEF ChangeInv, ChangeShapes
  <2>3. /\ Len(boundaries) \in Nat /\ Workspace!Ids = 1..Len(boundaries)
        /\ Workspace!Ids' = 1..Len(boundaries')
    BY <2>2, LenProperties DEF Workspace!Ids
  <2> HIDE DEF line
  <2>4. Len(boundaries') = n /\ boundaries'[n] = line /\ \A i \in 1..Len(boundaries) : boundaries'[i] = boundaries[i]
    BY <1>1, <2>2, <2>3
  <2> QED
    BY <2>3, <2>4
<1>4. /\ doing.pc = "begun" /\ doing.id = n /\ doing.knew = proc[p].knew
      /\ doing.pending = proc[p].pending /\ proc'[p] = doing /\ \A q \in Editors \ {p} : proc'[q] = proc[q]
  BY <1>1, <1>2 DEF Doing
<1>5. TornKept
  <2>1. ASSUME NEW i \in Workspace!Ids PROVE i \in Workspace!Ids' /\ boundaries'[i] = boundaries[i]
    BY <1>3
  <2> HIDE DEF n, line
  <2> QED
    BY <2>1 DEF TornKept, Sealed
<1>6. ASSUME NEW i \in Workspace!Ids' PROVE RowHonest(i)'
  <2>1. CASE i = n
    BY <1>3, <2>1 DEF RowHonest, Sealed
  <2>2. CASE i # n
    <3>1. i \in Workspace!Ids /\ boundaries'[i] = boundaries[i]
      BY <1>3, <2>2
    <3>2. RowHonest(i)
      BY <3>1 DEF HonestInv
    <3> QED
      BY <3>1, <3>2, Zenon DEF RowHonest, Sealed
  <2> QED
    BY <2>1, <2>2
<1>7. proc[p].knew = {}
  BY <1>1 DEF HonestInv, Knowing, Reviewed, Workspace!AllReady
<1>8. Knowing(p)'
  <2>1. ASSUME NEW i \in Workspace!Ids', Misread(p, i)' PROVE ~ Sealed(i)'
    <3>1. CASE i = n
      BY <1>3, <3>1 DEF Sealed
    <3>2. CASE i # n
      <4>1. Misread(p, i) /\ i \in Workspace!Ids /\ boundaries'[i] = boundaries[i]
        BY <1>3, <1>4, <2>1, <3>2 DEF Misread
      <4> QED
        BY <4>1 DEF HonestInv, Knowing, Sealed
    <3> QED
      BY <3>1, <3>2
  <2> QED
    BY <1>4, <1>7, <2>1 DEF Knowing
<1>9. OwnerHonest(p)'
  <2>1. boundaries'[proc'[p].id] = line /\ proc'[p].pc = "begun"
    BY <1>3, <1>4
  <2>2. line.fate = "open"
    OBVIOUS
  <2> QED
    BY <2>1, <2>2 DEF OwnerHonest
<1> QED
  BY <1>1, <1>2, <1>4, <1>5, <1>6, <1>8, <1>9, Witnesses

(* The owner moves to another phase, and its row may. *)
LEMMA PhaseMoves ==
  ASSUME HonestInv, ChangeInv, ChangesAssumption, NEW p \in Editors, proc[p].pc \in Changing,
         NEW phase, NEW left, proc' = [proc EXCEPT ![p] = [proc[p] EXCEPT !.pc = phase, !.left = left]]
  PROVE  /\ proc'[p].pc = phase /\ proc'[p].left = left /\ proc'[p].id = proc[p].id
         /\ proc'[p].knew = proc[p].knew /\ proc'[p].pending = proc[p].pending
         /\ \A q \in Editors \ {p} : proc'[q] = proc[q]
<1> DEFINE doing == [proc[p] EXCEPT !.pc = phase, !.left = left]
<1>1. proc[p] \in Doing /\ proc \in [Editors -> Doing]
  BY DoingIs DEF ChangeInv, ChangeShapes
<1>2. /\ doing.pc = phase /\ doing.left = left /\ doing.id = proc[p].id
      /\ doing.knew = proc[p].knew /\ doing.pending = proc[p].pending
  BY <1>1 DEF Doing
<1> HIDE DEF doing
<1>3. proc' = [proc EXCEPT ![p] = doing]
  BY DEF doing
<1> QED
  BY <1>1, <1>2, <1>3

LEMMA OwnRowIs ==
  ASSUME HonestInv, ChangeInv, ChangesAssumption, NEW p \in Editors, proc[p].pc \in Changing
  PROVE  /\ boundaries[proc[p].id] \in Boundary /\ boundaries[proc[p].id].fate = "open"
         /\ RowHonest(proc[p].id) /\ OwnerHonest(p)
         /\ proc[p].id \in Workspace!Ids /\ proc[p].id # 0 /\ proc[p].knew = {}
<1>1. proc[p].id \in Workspace!Ids /\ proc[p].id # 0 /\ boundaries[proc[p].id] \in Boundary
  BY ChangingIs, DoingIs, RowIs DEF ChangesAssumption
<1>2. RowHonest(proc[p].id) /\ OwnerHonest(p) /\ Knowing(p)
  BY <1>1 DEF HonestInv
<1> QED
  BY <1>1, <1>2 DEF OwnerHonest, Knowing

LEMMA HonestForward ==
  ASSUME HonestInv, ChangeInv, ChangesAssumption, NEW p \in Editors,
         Workspace!Record(p) \/ Workspace!Publish(p) \/ Workspace!Bind(p)
  PROVE  HonestInv'
<1>1. proc[p].pc \in Changing
  BY DEF Workspace!Record, Workspace!Publish, Workspace!Bind, Changing
<1> DEFINE n == proc[p].id
<1>2. /\ boundaries[n] \in Boundary /\ boundaries[n].fate = "open" /\ RowHonest(n)
      /\ n \in Workspace!Ids /\ n # 0 /\ proc \in [Editors -> Doing] /\ proc[p] \in Doing
      /\ boundaries = [i \in Workspace!Ids |-> boundaries[i]]
  BY <1>1, OwnRowIs, DoingIs DEF ChangeInv, ChangeShapes, Workspace!Ids
<1>3. "completed" \in {boundaries[n].group, boundaries[n].checkpoint} => boundaries[n].bound
  BY <1>2, Zenon DEF RowHonest
<1>4. CASE Workspace!Record(p)
  <2> DEFINE line == [boundaries[n] EXCEPT !.group = "checkpointing", !.checkpoint = "ready"]
  <2>1. /\ line \in Boundary /\ line.before = boundaries[n].before /\ line.after = boundaries[n].after
        /\ line.fate = "open" /\ line.group = "checkpointing" /\ line.checkpoint = "ready"
    BY <1>2 DEF Boundary, Checkpoints, Workspace!Unstable
  <2>2. boundaries' = [boundaries EXCEPT ![n] = line]
    BY <1>2, <1>4 DEF Workspace!Record, Workspace!Mark, Workspace!Ids
  <2>3. /\ proc'[p].pc = "writing" /\ proc'[p].id = n /\ proc'[p].knew = proc[p].knew
        /\ proc'[p].pending = proc[p].pending /\ \A q \in Editors \ {p} : proc'[q] = proc[q]
    BY <1>2, <1>4 DEF Workspace!Record, Doing
  <2> HIDE DEF line
  <2> QED
    BY <1>1, <2>1, <2>2, <2>3, OwnRow
<1>5. CASE Workspace!Publish(p)
  <2> DEFINE line == [boundaries[n] EXCEPT !.checkpoint = "publishing"]
  <2>1. /\ line \in Boundary /\ line.before = boundaries[n].before /\ line.after = boundaries[n].after
        /\ line.fate = "open" /\ line.group = boundaries[n].group /\ line.checkpoint = "publishing"
        /\ line.bound = boundaries[n].bound
    BY <1>2 DEF Boundary, Checkpoints, Workspace!Unstable
  <2>2. boundaries' = [boundaries EXCEPT ![n] = line]
    BY <1>5 DEF Workspace!Publish
  <2>3. /\ proc'[p].pc = "publishing" /\ proc'[p].id = n /\ proc'[p].knew = proc[p].knew
        /\ proc'[p].pending = proc[p].pending /\ \A q \in Editors \ {p} : proc'[q] = proc[q]
    BY <1>2, <1>5 DEF Workspace!Publish, Doing
  <2> HIDE DEF line
  <2> QED
    BY <1>1, <1>3, <2>1, <2>2, <2>3, OwnRow
<1>6. CASE Workspace!Bind(p)
  <2> DEFINE line == [boundaries[n] EXCEPT !.checkpoint = "verifying", !.bound = TRUE]
  <2>1. /\ line \in Boundary /\ line.before = boundaries[n].before /\ line.after = boundaries[n].after
        /\ line.fate = "open" /\ line.checkpoint = "verifying" /\ line.bound
    BY <1>2 DEF Boundary, Checkpoints, Workspace!Unstable
  <2>2. boundaries' = [boundaries EXCEPT ![n] = line]
    BY <1>2, <1>6 DEF Workspace!Bind, Workspace!Ids
  <2>3. /\ proc'[p].pc = "verifying" /\ proc'[p].id = n /\ proc'[p].knew = proc[p].knew
        /\ proc'[p].pending = proc[p].pending /\ \A q \in Editors \ {p} : proc'[q] = proc[q]
    BY <1>2, <1>6 DEF Workspace!Bind, Doing
  <2> HIDE DEF line
  <2> QED
    BY <1>1, <2>1, <2>2, <2>3, OwnRow
<1> QED
  BY <1>4, <1>5, <1>6

LEMMA HonestWrite ==
  ASSUME HonestInv, ChangeInv, ChangesAssumption, NEW p \in Editors,
         Workspace!Write(p) \/ Workspace!Undo(p)
  PROVE  HonestInv'
<1>1. proc[p].pc \in Changing /\ boundaries' = boundaries
  BY DEF Workspace!Write, Workspace!Undo, Changing
<1>2. PICK f \in proc[p].left : proc' = [proc EXCEPT ![p].left = @ \ {f}]
  BY DEF Workspace!Write, Workspace!Undo
<1>3. proc \in [Editors -> Doing] /\ proc[p] \in Doing
  BY DoingIs DEF ChangeInv, ChangeShapes
<1>4. /\ proc'[p].pc = proc[p].pc /\ proc'[p].id = proc[p].id /\ proc'[p].knew = proc[p].knew
      /\ proc'[p].pending = proc[p].pending /\ \A q \in Editors \ {p} : proc'[q] = proc[q]
  BY <1>2, <1>3 DEF Doing
<1> QED
  BY <1>1, <1>4, SameRows

LEMMA HonestThrows ==
  ASSUME HonestInv, ChangeInv, ChangesAssumption, NEW p \in Editors, Workspace!Throws(p)
  PROVE  HonestInv'
<1> DEFINE n == proc[p].id
           phase == IF Workspace!Undoes(p) THEN "undoing" ELSE "failing"
           left == IF Workspace!Undoes(p) THEN DOMAIN proc[p].after ELSE {}
<1>1. proc[p].pc \in Changing
  BY DEF Workspace!Throws, Changing
<1>2. /\ n \in Workspace!Ids /\ boundaries[n] \in Boundary /\ boundaries[n].fate = "open"
      /\ OwnerHonest(p) /\ boundaries = [i \in Workspace!Ids |-> boundaries[i]]
  BY <1>1, OwnRowIs DEF ChangeInv, ChangeShapes, Workspace!Ids
<1>3. proc' = [proc EXCEPT ![p] = [proc[p] EXCEPT !.pc = phase, !.left = left]]
  BY DoingIs DEF Workspace!Throws, ChangeInv, ChangeShapes
<1>4. /\ proc'[p].pc = phase /\ proc'[p].id = n /\ proc'[p].knew = proc[p].knew
      /\ proc'[p].pending = proc[p].pending /\ \A q \in Editors \ {p} : proc'[q] = proc[q]
  <2> HIDE DEF phase, left
  <2> QED
    BY <1>1, <1>3, PhaseMoves
<1>5. phase \in {"undoing", "failing"}
  OBVIOUS
<1> HIDE DEF phase
<1>6. ASSUME NEW status \in {"completed", "needs-review"}, Workspace!Mark(n, status, status),
             status = "completed" => boundaries[n].bound
      PROVE  HonestInv'
  <2> DEFINE line == [boundaries[n] EXCEPT !.group = status, !.checkpoint = status]
  <2>1. /\ line \in Boundary /\ line.before = boundaries[n].before /\ line.after = boundaries[n].after
        /\ line.fate = "open" /\ line.group = status /\ line.checkpoint = status
        /\ line.bound = boundaries[n].bound
    BY <1>2 DEF Boundary, Checkpoints
  <2>2. boundaries' = [boundaries EXCEPT ![n] = line]
    BY <1>2, <1>6 DEF Workspace!Mark
  <2> HIDE DEF line
  <2> QED
    BY <1>1, <1>4, <1>5, <1>6, <2>1, <2>2, OwnRow
<1>7. proc[p].pc = "verifying" => boundaries[n].bound
  BY <1>1, <1>2 DEF OwnerHonest
<1>8. CASE boundaries' = boundaries
  BY <1>1, <1>4, <1>5, <1>8, SameRows
<1> QED
  BY <1>6, <1>7, <1>8 DEF Workspace!Throws

LEMMA HonestUndone ==
  ASSUME HonestInv, ChangeInv, ChangesAssumption, NEW p \in Editors, Workspace!Undone(p)
  PROVE  HonestInv'
<1>1. proc[p].pc \in Changing /\ boundaries' = boundaries
  BY DEF Workspace!Undone, Changing
<1>2. proc' = [proc EXCEPT ![p] = [proc[p] EXCEPT !.pc = "failing", !.left = {}]]
  BY DoingIs DEF Workspace!Undone, ChangeInv, ChangeShapes
<1>3. /\ proc'[p].pc = "failing" /\ proc'[p].id = proc[p].id /\ proc'[p].knew = proc[p].knew
      /\ proc'[p].pending = proc[p].pending /\ \A q \in Editors \ {p} : proc'[q] = proc[q]
  BY <1>1, <1>2, PhaseMoves
<1> QED
  BY <1>1, <1>3, SameRows

(* A change left half done with its manifest bound has its failure on record,  *)
(* and nobody has read it as verifying.                                        *)
LEMMA FateKnown ==
  ASSUME NEW n, NEW checkpoint, Workspace!Fate(n, checkpoint) = "torn", boundaries[n].bound
  PROVE  checkpoint = "needs-review" /\ \A q \in Editors : ~ Misread(q, n)
BY DEF Workspace!Fate, Workspace!Disputed, Misread

LEMMA HonestEnd ==
  ASSUME HonestInv, ChangeInv, ChangesAssumption, NEW p \in Editors,
         Workspace!Complete(p) \/ Workspace!Settle(p) \/ Workspace!Die(p)
  PROVE  HonestInv'
<1> DEFINE n == proc[p].id
<1>1. proc \in [Editors -> Doing] /\ proc[p] \in Doing
  BY DoingIs DEF ChangeInv, ChangeShapes
<1>2. /\ proc'[p].pc \in {"idle", "off"} /\ proc'[p].id = 0 /\ proc'[p].knew \in {{}, proc[p].knew}
      /\ proc'[p].pending = {} /\ \A q \in Editors \ {p} : proc'[q] = proc[q]
  BY <1>1 DEF Workspace!Complete, Workspace!Settle, Workspace!Die, Workspace!Leave, Workspace!Idle, Workspace!Off
<1>3. CASE proc[p].pc \notin Changing
  <2>1. Workspace!Die(p) /\ proc[p].id = 0
    BY <1>3, DoingIs DEF Workspace!Complete, Workspace!Settle, Changing, Change, Bounded
  <2>2. boundaries' = boundaries /\ proc'[p].knew = {}
    BY <1>1, <2>1 DEF Workspace!Die, Workspace!Idle, Workspace!Off
  <2>3. \A i \in Workspace!Ids : Misread(p, i)' => ~ Sealed(i)
    BY <1>2 DEF Misread
  <2> QED
    BY <1>2, <2>2, <2>3, Quiet DEF Changing
<1>4. CASE proc[p].pc \in Changing
  <2>1. /\ n \in Workspace!Ids /\ n # 0 /\ boundaries[n] \in Boundary /\ RowHonest(n) /\ OwnerHonest(p)
        /\ boundaries = [i \in Workspace!Ids |-> boundaries[i]]
    BY <1>4, OwnRowIs DEF ChangeInv, ChangeShapes, Workspace!Ids
  <2>2. PICK group \in {"completed", "needs-review", boundaries[n].group},
             checkpoint \in {"completed", "needs-review", boundaries[n].checkpoint} :
          \E fate \in {"applied", Workspace!Fate(n, checkpoint)} :
            /\ boundaries' = [boundaries EXCEPT ![n].group = group, ![n].checkpoint = checkpoint,
                                                ![n].fate = fate]
            /\ \/ group = "completed" /\ checkpoint = "completed" /\ boundaries[n].bound
               \/ group = "needs-review" /\ checkpoint = "needs-review"
               \/ group = boundaries[n].group /\ checkpoint = boundaries[n].checkpoint
    <3>1. CASE Workspace!Complete(p)
      <4>1. boundaries[n].bound
        BY <1>4, <2>1, <3>1 DEF Workspace!Complete, OwnerHonest
      <4> QED
        BY <3>1, <4>1 DEF Workspace!Complete
    <3>2. CASE boundaries' = [boundaries EXCEPT ![n].fate = Workspace!Fate(n, boundaries[n].checkpoint)]
      <4>1. boundaries' = [boundaries EXCEPT ![n].group = boundaries[n].group,
                             ![n].checkpoint = boundaries[n].checkpoint,
                             ![n].fate = Workspace!Fate(n, boundaries[n].checkpoint)]
        BY <2>1, <3>2 DEF Boundary
      <4> QED
        BY <4>1
    <3>3. CASE Workspace!Settle(p)
      BY <3>2, <3>3 DEF Workspace!Settle
    <3>4. CASE Workspace!Die(p)
      BY <2>1, <3>2, <3>4 DEF Workspace!Die
    <3> QED
      BY <3>1, <3>3, <3>4
  <2>3. PICK fate \in {"applied", Workspace!Fate(n, checkpoint)} :
          boundaries' = [boundaries EXCEPT ![n].group = group, ![n].checkpoint = checkpoint, ![n].fate = fate]
    BY <2>2
  <2> DEFINE line == [boundaries[n] EXCEPT !.group = group, !.checkpoint = checkpoint, !.fate = fate]
  <2>4. fate \in {"applied", "undone", "written", "torn", "disputed"}
    BY <2>3 DEF Workspace!Fate
  <2>5. /\ line \in Boundary /\ line.before = boundaries[n].before /\ line.after = boundaries[n].after
        /\ line.fate = fate /\ line.group = group /\ line.checkpoint = checkpoint /\ line.bound = boundaries[n].bound
    BY <2>1, <2>4 DEF Boundary, Checkpoints
  <2>6. boundaries' = [boundaries EXCEPT ![n] = line]
    BY <2>1, <2>3
  <2> HIDE DEF line
  <2>7. line.fate = "torn" /\ line.bound =>
          /\ line.checkpoint = "needs-review"
          /\ \A q \in Editors : ~ Misread(q, n)
    BY <2>3, <2>5, FateKnown
  <2>8. /\ "completed" \in {boundaries[n].group, boundaries[n].checkpoint} => boundaries[n].bound
        /\ boundaries[n].checkpoint = "needs-review" => boundaries[n].group = "needs-review"
    BY <2>1, Zenon DEF RowHonest
  <2>9. /\ "completed" \in {line.group, line.checkpoint} => line.bound
        /\ line.checkpoint = "needs-review" => line.group = "needs-review"
    BY <2>2, <2>5, <2>8
  <2> QED
    BY <1>2, <1>4, <2>5, <2>6, <2>7, <2>9, OwnRow DEF Changing
<1> QED
  BY <1>3, <1>4

LEMMA HonestInit == ASSUME ChangesAssumption, Workspace!Init PROVE HonestInv
<1>1. Workspace!Ids = {} /\ \A p \in Editors : proc[p] = Workspace!Off
  BY DEF Workspace!Init, Workspace!Ids
<1>2. Workspace!Off.pc = "off" /\ Workspace!Off.id = 0 /\ Workspace!Off.knew = {}
  BY DEF Workspace!Off, Workspace!Idle
<1> QED
  BY <1>1, <1>2 DEF HonestInv, OwnerHonest, Knowing, Changing

LEMMA HonestStep ==
  ASSUME ChangesAssumption, HonestInv, ChangeInv, [Workspace!Next]_Workspace!vars
  PROVE  HonestInv'
<1>1. CASE UNCHANGED Workspace!vars
  BY <1>1 DEF Workspace!vars, HonestInv, RowHonest, OwnerHonest, Sealed, Knowing, Misread, Reviewed,
     Workspace!Ids
<1>2. CASE Workspace!Next
  BY <1>2, HonestRest, HonestRecover, HonestBegin, HonestForward, HonestWrite, HonestThrows,
     HonestUndone, HonestEnd DEF Workspace!Next
<1> QED
  BY <1>1, <1>2

LEMMA HonestFollows ==
  ASSUME HonestInv, ChangeInv PROVE Workspace!TornStaysBlocked
<1>1. ASSUME NEW i \in Workspace!Ids, boundaries[i].fate = "torn" PROVE boundaries[i].group # "completed"
  <2>1. RowHonest(i)
    BY DEF HonestInv
  <2> QED
    BY <1>1, <2>1, Zenon DEF RowHonest, Sealed
<1> QED
  BY <1>1 DEF HonestInv, Knowing, Workspace!TornStaysBlocked

(* recover and assertReady together: a process that starts after a change was  *)
(* left half done begins none of its own on top of it, and the half-done       *)
(* boundary never counts as completed, however many calls throw and processes  *)
(* die; for one with its manifest its failure must be on record, and no        *)
(* starting process may have read it as verifying before.                      *)
THEOREM TornBlocksHolds ==
  ASSUME ChangesAssumption PROVE Workspace!Spec => []Workspace!TornStaysBlocked
<1> DEFINE Honest == ChangeInv /\ HonestInv
<1>1. Workspace!Init => Honest
  BY ChangeInit, HonestInit
<1>2. Honest /\ [Workspace!Next]_Workspace!vars => Honest'
  BY ChangeStep, HonestStep
<1>3. Honest => Workspace!TornStaysBlocked
  BY HonestFollows
<1> HIDE DEF Honest
<1> QED
  BY <1>1, <1>2, <1>3, PTL DEF Workspace!Spec

---------------------------------------------------------------------------
(* The state directory across upgrades (StateLifecycle; its pc is the pc    *)
(* here): a protected copy is made before the active tree is touched, and   *)
(* no step takes a protected copy away.                                     *)

UpgradeAssumption == MaxWrites \in Nat /\ MaxStops \in Nat

Trees == [schema : {"none", "empty", "torn", "old", "new"}, data : 0..MaxWrites]

UpgradeShapes ==
  /\ {root, staging, displaced, aside, chosen} \subseteq Trees /\ backups \subseteq Trees
  /\ \A t \in backups : Upgrade!Whole(t)
  /\ marker \in {"none", "backup-created", "staging-verified", "cutover-started", "activated"}
  /\ written \in 0..MaxWrites /\ current \in 0..MaxWrites

(* A copy of the newest data is out of harm's way from the backup before a  *)
(* migration or a restore until the user's next change ...                  *)
InBackups == \E t \in backups : Upgrade!Whole(t) /\ t.data = current

(* ... and until the next backup nothing touches the active tree.           *)
InRoot ==
  /\ Upgrade!Whole(root) /\ root.data = current /\ marker = "none"
  /\ pc \in {"down", "recover", "plan", "backup", "open", "refused"}

UpgradeInv ==
  /\ UpgradeShapes
  /\ InBackups \/ InRoot
  /\ pc \in {"plan", "backup", "open"} => marker = "none"
  /\ pc = "backup" => Upgrade!Whole(root)
  /\ pc \in {"restore", "restore-swap", "restore-verify"} => chosen \in backups
  /\ pc = "restore-verify" => root = chosen

(* The trees that steps make are trees. *)
LEMMA MadeTrees ==
  ASSUME UpgradeAssumption
  PROVE /\ Upgrade!None \in Trees /\ Upgrade!Empty \in Trees /\ Upgrade!Torn \in Trees
        /\ ~Upgrade!Whole(Upgrade!None) /\ ~Upgrade!Whole(Upgrade!Empty)
        /\ ~Upgrade!Whole(Upgrade!Torn)
        /\ \A t \in Trees : /\ t.schema \in {"none", "empty", "torn", "old", "new"}
                            /\ t.data \in 0..MaxWrites
        /\ \A t \in Trees : Upgrade!Removed(t) \in Trees /\ Upgrade!Tree("new", t.data) \in Trees
BY DEF UpgradeAssumption, Upgrade!None, Upgrade!Empty, Upgrade!Torn, Upgrade!Tree, Trees,
   Upgrade!Whole, Upgrade!Removed

LEMMA UpgradeInvInit ==
  ASSUME UpgradeAssumption, Upgrade!Init
  PROVE UpgradeInv
BY DEF UpgradeAssumption, Upgrade!Init, UpgradeInv, UpgradeShapes, InRoot, Upgrade!Whole,
   Upgrade!Tree, Trees, Upgrade!None

(* Start and recovery: no protected tree is touched, and with no marker the *)
(* active tree is not either.                                               *)
LEMMA RecoveryKeeps ==
  ASSUME UpgradeAssumption, UpgradeInv,
         \/ Upgrade!Start \/ Upgrade!RecoverNothing \/ Upgrade!RecoverForward
         \/ Upgrade!RecoverRefuse \/ Upgrade!RecoverSetAside
         \/ Upgrade!RecoverBack \/ Upgrade!ClearDisplaced \/ Upgrade!ClearStaging
         \/ Upgrade!Refused
  PROVE UpgradeInv'
<1> USE DEF UpgradeInv, UpgradeShapes, InBackups, InRoot, Upgrade!Whole, Upgrade!Goto,
    Upgrade!work, Upgrade!trees
<1>1. CASE Upgrade!Start BY <1>1, MadeTrees DEF Upgrade!Start
<1>2. CASE Upgrade!RecoverNothing BY <1>2 DEF Upgrade!RecoverNothing, Upgrade!Switching
<1>3. CASE Upgrade!RecoverForward BY <1>3 DEF Upgrade!RecoverForward, Upgrade!Switching
<1>4. CASE Upgrade!RecoverRefuse BY <1>4 DEF Upgrade!RecoverRefuse, Upgrade!Switching
<1>5. CASE Upgrade!RecoverSetAside
  BY <1>5, MadeTrees DEF Upgrade!RecoverSetAside, Upgrade!Switching
<1>6. CASE Upgrade!RecoverBack BY <1>6, MadeTrees DEF Upgrade!RecoverBack, Upgrade!Switching
<1>7. CASE Upgrade!ClearDisplaced BY <1>7, MadeTrees DEF Upgrade!ClearDisplaced
<1>8. CASE Upgrade!ClearStaging BY <1>8, MadeTrees DEF Upgrade!ClearStaging
<1>9. CASE Upgrade!Refused BY <1>9 DEF Upgrade!Refused
<1> QED BY <1>1, <1>2, <1>3, <1>4, <1>5, <1>6, <1>7, <1>8, <1>9

(* A migration copies the active tree away before anything replaces it.     *)
LEMMA MigrationKeeps ==
  ASSUME UpgradeAssumption, UpgradeInv,
         \/ Upgrade!Plan \/ Upgrade!Backup \/ Upgrade!Mark \/ Upgrade!Stage
         \/ Upgrade!MarkVerified \/ Upgrade!MarkCutover
         \/ Upgrade!Displace \/ Upgrade!Activate \/ Upgrade!MarkActivated
  PROVE UpgradeInv'
<1> USE DEF UpgradeInv, UpgradeShapes, InBackups, InRoot, Upgrade!Whole, Upgrade!Goto,
    Upgrade!work, Upgrade!trees
<1>1. CASE Upgrade!Plan BY <1>1, MadeTrees DEF Upgrade!Plan
<1>2. CASE Upgrade!Backup BY <1>2 DEF Upgrade!Backup, Upgrade!Protected
<1>3. CASE Upgrade!Mark BY <1>3 DEF Upgrade!Mark, Upgrade!Marks
<1>4. CASE Upgrade!Stage BY <1>4, MadeTrees DEF Upgrade!Stage
<1>5. CASE Upgrade!MarkVerified BY <1>5 DEF Upgrade!MarkVerified, Upgrade!Marks
<1>6. CASE Upgrade!MarkCutover BY <1>6 DEF Upgrade!MarkCutover, Upgrade!Marks
<1>7. CASE Upgrade!Displace BY <1>7, MadeTrees DEF Upgrade!Displace
<1>8. CASE Upgrade!Activate BY <1>8, MadeTrees DEF Upgrade!Activate
<1>9. CASE Upgrade!MarkActivated BY <1>9 DEF Upgrade!MarkActivated, Upgrade!Marks
<1> QED BY <1>1, <1>2, <1>3, <1>4, <1>5, <1>6, <1>7, <1>8, <1>9
(* Changes, backups and restores; and a stop, which leaves the trees alone. *)
LEMMA UseKeeps ==
  ASSUME UpgradeAssumption, UpgradeInv,
         \/ Upgrade!UserWrites \/ Upgrade!CreateBackup \/ Upgrade!Close
         \/ Upgrade!RestoreStart \/ Upgrade!RestoreDisplace \/ Upgrade!RestoreSwap
         \/ Upgrade!RestoreDone \/ Upgrade!RestoreFails
         \/ Upgrade!Stop
  PROVE UpgradeInv'
<1> USE DEF UpgradeInv, UpgradeShapes, InBackups, InRoot, Upgrade!Whole, Upgrade!Goto,
    Upgrade!work, Upgrade!trees
<1>1. CASE Upgrade!UserWrites
  <2>1. /\ written' \in 0..MaxWrites /\ root' = [root EXCEPT !.data = written']
        /\ current' = written' /\ marker = "none" /\ pc = "open" /\ Upgrade!Whole(root)
    BY <1>1 DEF Upgrade!UserWrites, UpgradeAssumption
  <2>2. root' \in Trees /\ root'.schema = root.schema /\ root'.data = current'
    BY <2>1 DEF Trees
  <2> QED BY <1>1, <2>1, <2>2 DEF Upgrade!UserWrites
<1>2. CASE Upgrade!CreateBackup BY <1>2 DEF Upgrade!CreateBackup
<1>3. CASE Upgrade!Close BY <1>3 DEF Upgrade!Close
<1>4. CASE Upgrade!RestoreStart BY <1>4 DEF Upgrade!RestoreStart, Upgrade!Protected
<1>5. CASE Upgrade!RestoreDisplace BY <1>5, MadeTrees DEF Upgrade!RestoreDisplace
<1>6. CASE Upgrade!RestoreSwap BY <1>6 DEF Upgrade!RestoreSwap
<1>7. CASE Upgrade!RestoreDone BY <1>7, MadeTrees DEF Upgrade!RestoreDone
<1>8. CASE Upgrade!RestoreFails BY <1>8, MadeTrees DEF Upgrade!RestoreFails
<1>9. CASE Upgrade!Stop BY <1>9, MadeTrees DEF Upgrade!Stop
<1> QED BY <1>1, <1>2, <1>3, <1>4, <1>5, <1>6, <1>7, <1>8, <1>9

LEMMA UpgradeStep ==
  ASSUME UpgradeAssumption
  PROVE UpgradeInv /\ [Upgrade!Next]_Upgrade!vars => UpgradeInv'
<1> SUFFICES ASSUME UpgradeInv, [Upgrade!Next]_Upgrade!vars PROVE UpgradeInv' OBVIOUS
<1>1. CASE UNCHANGED Upgrade!vars
  BY <1>1 DEF Upgrade!vars, Upgrade!work, UpgradeInv, UpgradeShapes, InBackups, InRoot,
     Upgrade!Whole
<1>2. CASE Upgrade!Next BY <1>2, RecoveryKeeps, MigrationKeeps, UseKeeps DEF Upgrade!Next
<1> QED BY <1>1, <1>2

LEMMA UpgradeInvHolds ==
  ASSUME UpgradeAssumption
  PROVE Upgrade!Spec => []UpgradeInv
<1>1. Upgrade!Init => UpgradeInv BY UpgradeInvInit
<1>2. UpgradeInv /\ [Upgrade!Next]_Upgrade!vars => UpgradeInv' BY UpgradeStep
<1> QED BY <1>1, <1>2, PTL DEF Upgrade!Spec

LEMMA UpgradeFollows ==
  ASSUME UpgradeAssumption, UpgradeInv
  PROVE Upgrade!TypeOK /\ Upgrade!DataSurvives
<1>1. Upgrade!TypeOK
  BY MadeTrees DEF UpgradeInv, UpgradeShapes, Upgrade!TypeOK, Upgrade!Whole
<1>2. Upgrade!DataSurvives
  BY DEF UpgradeInv, UpgradeShapes, InBackups, InRoot, Upgrade!DataSurvives
<1> QED BY <1>1, <1>2

(* Every tree on the disk is a tree with a known schema and with data no    *)
(* newer than the last change, and only whole trees are ever protected      *)
(* (the sources of cp to the backup location).                              *)
THEOREM UpgradeTypesHold ==
  ASSUME UpgradeAssumption
  PROVE Upgrade!Spec => []Upgrade!TypeOK
<1>1. UpgradeInv => Upgrade!TypeOK BY UpgradeFollows
<1> QED BY <1>1, UpgradeInvHolds, PTL

(* Wherever a migration, its recovery or a restore stops, and whatever the  *)
(* next starts make of it, a whole copy of the user's newest data is on the *)
(* disk: in a protected backup, or still in the active tree.                *)
THEOREM DataSurvivesHolds ==
  ASSUME UpgradeAssumption
  PROVE Upgrade!Spec => []Upgrade!DataSurvives
<1>1. UpgradeInv => Upgrade!DataSurvives BY UpgradeFollows
<1> QED BY <1>1, UpgradeInvHolds, PTL
---------------------------------------------------------------------------
(* The way of a chat message (ChannelRouter; its job is chatJob here, its    *)
(* faults mishaps, its excused pardons): who is at work in a conversation is *)
(* one, and what a message may still be answered by is counted.              *)

(* There are finitely many conversations, and a message is tried once. *)
RouterAssumption ==
  /\ IsFiniteSet(Conversations) /\ ConversationOf \in [Messages -> Conversations]
  /\ MaxConcurrency \in Nat /\ MaxPendingPerConversation \in Nat /\ MaxAttempts \in Nat \ {0}

Stations == {"claim", "refused", "queued"} \cup Channel!Working \cup {"returned"}
Deliveries ==
  [at : Stations, of : Messages, attempt : 1..MaxAttempts, answered : BOOLEAN]

RouterShapes ==
  /\ entry \in [Messages -> {"none", "claimed", "committed"}]
  /\ chatJob \in [Messages -> {"none", "active", "completed", "failed"}]
  /\ run \in Seq(Deliveries)
  /\ queues \in [Conversations -> Seq(DOMAIN run)]
  /\ activeKeys \in SUBSET Conversations /\ Cardinality(activeKeys) <= MaxConcurrency
  /\ pending \in [Conversations -> 0..MaxPendingPerConversation]
  /\ replies \in [Messages -> Nat] /\ pardons \in [Messages -> Nat]

(* A queue holds deliveries of its conversation that wait, each once. *)
Waiting(waiting, calls, c) ==
  /\ \A i \in 1..Len(waiting[c]) :
       calls[waiting[c][i]].at = "queued" /\ ConversationOf[calls[waiting[c][i]].of] = c
  /\ \A i, j \in 1..Len(waiting[c]) : waiting[c][i] = waiting[c][j] => i = j

(* One delivery is at work in a conversation that is active, and none in another. *)
Workers(calls, c) ==
  {d \in DOMAIN calls : ConversationOf[calls[d].of] = c /\ calls[d].at \in Channel!Working}
Manned(waiting, busy, calls, counts, c) ==
  /\ c \notin busy => Workers(calls, c) = {} /\ counts[c] = Len(waiting[c])
  /\ c \in busy => /\ \E d \in DOMAIN calls : Workers(calls, c) = {d}
                   /\ counts[c] = Len(waiting[c]) + 1

(* Who holds the claim of a message, and who may still answer it. *)
Holding == {"refused", "queued"} \cup Channel!Working
Hoping == {"refused", "queued", "run", "poll", "send", "release"}
Among(calls, m, places) == {d \in DOMAIN calls : calls[d].of = m /\ calls[d].at \in places}

Answered(m) ==
  replies[m] + Cardinality(Among(run, m, Hoping)) + (IF entry[m] = "none" THEN 1 ELSE 0)
    <= 1 + pardons[m]

Claimed(m) ==
  /\ entry[m] = "claimed" => m \in orphans \/ Among(run, m, Holding) # {}
  /\ pardons[m] = 0 => /\ entry[m] = "none" => Among(run, m, Holding) = {}
                       /\ \A d, e \in Among(run, m, Holding) : d = e

RouterInv ==
  /\ RouterShapes
  /\ \A c \in Conversations :
       Waiting(queues, run, c) /\ Manned(queues, activeKeys, run, pending, c)
  /\ \A m \in Messages : Answered(m) /\ Claimed(m)

(* The router counts as we do. *)
LEMMA RouterCount == ASSUME NEW S PROVE Channel!Cardinality(S) = Cardinality(S)
  BY DEF Channel!Cardinality, Cardinality

LEMMA CallsAre ==
  ASSUME NEW calls \in Seq(Deliveries)
  PROVE  /\ DOMAIN calls = 1..Len(calls) /\ Len(calls) \in Nat /\ IsFiniteSet(DOMAIN calls)
         /\ \A d \in DOMAIN calls : calls[d] \in Deliveries
<1>1. DOMAIN calls = 1..Len(calls) /\ Len(calls) \in Nat
  BY LenProperties
<1>2. \A d \in DOMAIN calls : calls[d] \in Deliveries
  BY <1>1, ElementOfSeq
<1> QED
  BY <1>1, <1>2, FS_Interval

(* Draining starts the first delivery of some idle conversations: all else is as *)
(* the action left it.                                                           *)
Started(calls) ==
  /\ run' \in Seq(Deliveries) /\ DOMAIN run' = DOMAIN calls
  /\ \A d \in DOMAIN calls :
       \/ run'[d] = calls[d]
       \/ calls[d].at = "queued" /\ run'[d] = [calls[d] EXCEPT !.at = "run"]

LEMMA DrainKeeps ==
  ASSUME RouterAssumption, NEW calls \in Seq(Deliveries),
         NEW busy \in SUBSET Conversations, Cardinality(busy) <= MaxConcurrency,
         NEW waiting \in [Conversations -> Seq(DOMAIN calls)],
         NEW counts,
         \A c \in Conversations :
           Waiting(waiting, calls, c) /\ Manned(waiting, busy, calls, counts, c),
         Channel!Drain(waiting, busy, calls)
  PROVE  /\ Started(calls)
         /\ queues' \in [Conversations -> Seq(DOMAIN calls)]
         /\ activeKeys' \in SUBSET Conversations /\ Cardinality(activeKeys') <= MaxConcurrency
         /\ \A c \in Conversations : /\ Waiting(queues', run', c)
                                     /\ Manned(queues', activeKeys', run', counts, c)
<1> DEFINE idle == {c \in Conversations : waiting[c] # <<>> /\ c \notin busy}
<1>1. PICK S \in SUBSET idle :
        /\ Cardinality(S) <= MaxConcurrency - Cardinality(busy)
        /\ queues' = [c \in Conversations |-> IF c \in S THEN Tail(waiting[c]) ELSE waiting[c]]
        /\ activeKeys' = busy \cup S
        /\ run' = [d \in DOMAIN calls |->
             IF \E c \in S : Head(waiting[c]) = d THEN [calls[d] EXCEPT !.at = "run"] ELSE calls[d]]
  BY RouterCount DEF Channel!Drain, Channel!Room
<1> DEFINE first(d) == /\ ConversationOf[calls[d].of] \in S
                       /\ Head(waiting[ConversationOf[calls[d].of]]) = d
<1> HIDE DEF idle
<1>2. /\ DOMAIN calls = 1..Len(calls) /\ Len(calls) \in Nat
      /\ \A d \in DOMAIN calls : calls[d] \in Deliveries
  BY CallsAre
<1>3. ASSUME NEW c \in Conversations
      PROVE  /\ waiting[c] \in Seq(DOMAIN calls) /\ Len(waiting[c]) \in Nat
             /\ DOMAIN waiting[c] = 1..Len(waiting[c])
             /\ \A i \in 1..Len(waiting[c]) : waiting[c][i] \in DOMAIN calls
  BY LenProperties, ElementOfSeq
<1>4. ASSUME NEW c \in S
      PROVE  /\ c \in Conversations /\ c \notin busy /\ Len(waiting[c]) >= 1
             /\ Head(waiting[c]) = waiting[c][1] /\ Head(waiting[c]) \in DOMAIN calls
             /\ calls[Head(waiting[c])].at = "queued"
             /\ ConversationOf[calls[Head(waiting[c])].of] = c
             /\ Tail(waiting[c]) \in Seq(DOMAIN calls)
             /\ Len(Tail(waiting[c])) = Len(waiting[c]) - 1
             /\ \A i \in 1..Len(Tail(waiting[c])) : Tail(waiting[c])[i] = waiting[c][i + 1]
  <2>1. c \in Conversations /\ c \notin busy /\ waiting[c] # <<>>
    BY <1>1 DEF idle
  <2>2. Len(waiting[c]) >= 1
    BY <1>3, <2>1, EmptySeq
  <2>3. Head(waiting[c]) = waiting[c][1] /\ waiting[c][1] \in DOMAIN calls
    BY <1>3, <2>1, <2>2
  <2>4. /\ Tail(waiting[c]) \in Seq(DOMAIN calls) /\ Len(Tail(waiting[c])) = Len(waiting[c]) - 1
        /\ \A i \in 1..Len(Tail(waiting[c])) : Tail(waiting[c])[i] = waiting[c][i + 1]
    BY <1>3, <2>1, HeadTailProperties
  <2>5. calls[waiting[c][1]].at = "queued" /\ ConversationOf[calls[waiting[c][1]].of] = c
    BY <1>3, <2>1, <2>2 DEF Waiting
  <2> QED
    BY <2>1, <2>2, <2>3, <2>4, <2>5
<1>5. ASSUME NEW d \in DOMAIN calls
      PROVE  /\ first(d) => calls[d].at = "queued" /\ run'[d] = [calls[d] EXCEPT !.at = "run"]
             /\ ~first(d) => run'[d] = calls[d]
  <2>1. run'[d] = IF \E c \in S : Head(waiting[c]) = d THEN [calls[d] EXCEPT !.at = "run"] ELSE calls[d]
    BY <1>1
  <2>2. ASSUME NEW c \in S, Head(waiting[c]) = d PROVE ConversationOf[calls[d].of] = c
    BY <1>4, <2>2
  <2> QED
    BY <2>1, <2>2, <1>4
<1>6. Started(calls)
  <2>1. ASSUME NEW d \in DOMAIN calls PROVE run'[d] \in Deliveries
    <3>1. calls[d] \in Deliveries
      BY <1>2
    <3>2. [calls[d] EXCEPT !.at = "run"] \in Deliveries
      BY <3>1 DEF Deliveries, Stations, Channel!Working
    <3> HIDE DEF first
    <3> QED
      BY <1>5, <3>1, <3>2
  <2>2. run' \in Seq(Deliveries) /\ DOMAIN run' = DOMAIN calls
    BY <1>1, <1>2, <2>1
  <2>3. ASSUME NEW d \in DOMAIN calls
        PROVE  \/ run'[d] = calls[d]
               \/ calls[d].at = "queued" /\ run'[d] = [calls[d] EXCEPT !.at = "run"]
    <3> HIDE DEF first
    <3> QED
      BY <1>5
  <2> QED
    BY <2>2, <2>3 DEF Started
<1>7. queues' \in [Conversations -> Seq(DOMAIN calls)]
  BY <1>1, <1>3, <1>4
<1>8. activeKeys' \in SUBSET Conversations /\ Cardinality(activeKeys') <= MaxConcurrency
  <2>1. IsFiniteSet(busy) /\ IsFiniteSet(S) /\ S \subseteq Conversations /\ busy \cap S = {}
    BY <1>1, <1>4, FS_Subset DEF RouterAssumption
  <2>2. Cardinality(busy \cup S) = Cardinality(busy) + Cardinality(S)
    <3>1. Cardinality(busy \cap S) = 0
      BY <2>1, FS_EmptySet
    <3>2. Cardinality(busy \cup S) = Cardinality(busy) + Cardinality(S) - Cardinality(busy \cap S)
      BY <2>1, FS_Union
    <3> QED
      BY <2>1, <3>1, <3>2, FS_CardinalityType
  <2> QED
    BY <1>1, <2>1, <2>2, FS_CardinalityType DEF RouterAssumption
<1>9. ASSUME NEW c \in Conversations PROVE Waiting(queues', run', c)
  <2>1. CASE c \in S
    <3>1. queues'[c] = Tail(waiting[c])
      BY <1>1, <2>1
    <3>2. ASSUME NEW i \in 1..Len(Tail(waiting[c]))
          PROVE  /\ Tail(waiting[c])[i] = waiting[c][i + 1] /\ i + 1 \in 1..Len(waiting[c])
                 /\ run'[waiting[c][i + 1]] = calls[waiting[c][i + 1]]
      <4>1. i + 1 \in 1..Len(waiting[c]) /\ Tail(waiting[c])[i] = waiting[c][i + 1]
        BY <1>3, <1>4, <2>1
      <4>2. waiting[c][i + 1] # waiting[c][1]
        BY <1>3, <1>4, <2>1, <4>1 DEF Waiting
      <4>3. ConversationOf[calls[waiting[c][i + 1]].of] = c
        BY <4>1 DEF Waiting
      <4>4. waiting[c][i + 1] \in DOMAIN calls /\ Head(waiting[c]) = waiting[c][1]
        BY <1>3, <1>4, <2>1, <4>1
      <4>5. ~first(waiting[c][i + 1])
        BY <4>2, <4>3, <4>4
      <4> QED
        BY <1>5, <4>1, <4>4, <4>5
    <3> QED
      BY <1>3, <2>1, <3>1, <3>2 DEF Waiting
  <2>2. CASE c \notin S
    <3>1. queues'[c] = waiting[c]
      BY <1>1, <2>2
    <3>2. ASSUME NEW i \in 1..Len(waiting[c])
          PROVE  run'[waiting[c][i]] = calls[waiting[c][i]]
      <4>1. waiting[c][i] \in DOMAIN calls /\ ConversationOf[calls[waiting[c][i]].of] = c
        BY <1>3 DEF Waiting
      <4> QED
        BY <1>5, <2>2, <4>1
    <3>3. Waiting(waiting, calls, c)
      OBVIOUS
    <3>4. \A i \in 1..Len(waiting[c]) :
            /\ run'[waiting[c][i]].at = "queued"
            /\ ConversationOf[run'[waiting[c][i]].of] = c
      BY <3>2, <3>3 DEF Waiting
    <3>5. Waiting(waiting, run', c)
      BY <3>3, <3>4 DEF Waiting
    <3> QED
      BY <3>1, <3>5 DEF Waiting
  <2> QED
    BY <2>1, <2>2
<1>10. ASSUME NEW c \in Conversations PROVE Manned(queues', activeKeys', run', counts, c)
  <2>0. DOMAIN run' = DOMAIN calls
    BY <1>6 DEF Started
  <2>1. CASE c \in S
    <3>1. Workers(calls, c) = {} /\ counts[c] = Len(waiting[c])
      BY <1>4, <2>1 DEF Manned
    <3>2. Workers(run', c) = {Head(waiting[c])}
      <4>1. ASSUME NEW d \in DOMAIN calls, d # Head(waiting[c])
            PROVE  d \notin Workers(run', c)
        <5>1. CASE ConversationOf[calls[d].of] = c
          BY <1>5, <3>1, <4>1, <5>1 DEF Workers
        <5>2. CASE ConversationOf[calls[d].of] # c
          <6>1. run'[d].of = calls[d].of
            BY <1>2, <1>5 DEF Deliveries
          <6> QED
            BY <5>2, <6>1 DEF Workers
        <5> QED
          BY <5>1, <5>2
      <4>2. Head(waiting[c]) \in Workers(run', c)
        <5> DEFINE h == Head(waiting[c])
        <5>1. h \in DOMAIN calls /\ ConversationOf[calls[h].of] = c
          BY <1>4, <2>1
        <5>2. run'[h] = [calls[h] EXCEPT !.at = "run"] /\ calls[h] \in Deliveries
          BY <1>2, <1>5, <2>1, <5>1
        <5>3. run'[h].at = "run" /\ run'[h].of = calls[h].of
          BY <5>2 DEF Deliveries
        <5> QED
          BY <2>0, <5>1, <5>3 DEF Workers, Channel!Working
      <4> QED
        BY <2>0, <4>1, <4>2 DEF Workers
    <3>3. queues'[c] = Tail(waiting[c]) /\ c \in activeKeys'
      BY <1>1, <2>1
    <3>4. counts[c] = Len(queues'[c]) + 1
      BY <1>3, <1>4, <2>1, <3>1, <3>3
    <3> QED
      BY <1>4, <2>0, <2>1, <3>2, <3>3, <3>4 DEF Manned
  <2>2. CASE c \notin S
    <3>1. queues'[c] = waiting[c] /\ (c \in activeKeys' <=> c \in busy)
      BY <1>1, <2>2
    <3>2. ASSUME NEW d \in DOMAIN calls
          PROVE  d \in Workers(run', c) <=> d \in Workers(calls, c)
      <4>1. CASE ConversationOf[calls[d].of] = c
        BY <1>5, <2>0, <2>2, <4>1 DEF Workers
      <4>2. CASE ConversationOf[calls[d].of] # c
        <5>1. run'[d].of = calls[d].of
          BY <1>2, <1>5 DEF Deliveries
        <5> QED
          BY <4>2, <5>1 DEF Workers
      <4> QED
        BY <4>1, <4>2
    <3>3. Workers(run', c) = Workers(calls, c)
      BY <2>0, <3>2 DEF Workers
    <3> QED
      BY <2>0, <3>1, <3>3 DEF Manned
  <2> QED
    BY <2>1, <2>2
<1> QED
  BY <1>6, <1>7, <1>8, <1>9, <1>10

(* One delivery moves: the others stay, or begin to run. *)
Onward(d, where) ==
  /\ run' \in Seq(Deliveries) /\ DOMAIN run' = DOMAIN run /\ run'[d].of = run[d].of
  /\ \/ run'[d].at = where
     \/ where = "queued" /\ run'[d].at = "run"
  /\ \A e \in DOMAIN run \ {d} :
       \/ run'[e] = run[e]
       \/ run[e].at = "queued" /\ run'[e] = [run[e] EXCEPT !.at = "run"]

LEMMA AmongAfter ==
  ASSUME run \in Seq(Deliveries), NEW d \in DOMAIN run, NEW where, Onward(d, where),
         NEW places \in {Holding, Hoping}, NEW m
  PROVE  Among(run, m, places)' =
           IF m # run[d].of THEN Among(run, m, places)
           ELSE IF where \in places THEN Among(run, m, places) \cup {d}
           ELSE Among(run, m, places) \ {d}
<1>1. "queued" \in places /\ "run" \in places
  BY DEF Holding, Hoping, Channel!Working
<1>2. ASSUME NEW e \in DOMAIN run, e # d
      PROVE  e \in Among(run, m, places)' <=> e \in Among(run, m, places)
  <2>1. run[e] \in Deliveries
    BY CallsAre
  <2>2. /\ run'[e].of = run[e].of
        /\ \/ run'[e].at = run[e].at
           \/ run[e].at = "queued" /\ run'[e].at = "run"
    BY <1>2, <2>1 DEF Onward, Deliveries
  <2> QED
    BY <1>1, <1>2, <2>2 DEF Among, Onward
<1>3. d \in Among(run, m, places)' <=> m = run[d].of /\ where \in places
  BY <1>1 DEF Among, Onward
<1>4. d \in Among(run, m, places) => m = run[d].of
  BY DEF Among
<1>5. Among(run, m, places)' \subseteq DOMAIN run /\ Among(run, m, places) \subseteq DOMAIN run
  BY DEF Among, Onward
<1> DEFINE old == Among(run, m, places)
           new == Among(run, m, places)'
<1> HIDE DEF old, new
<1>6. CASE m # run[d].of
  <2>1. ASSUME NEW e PROVE e \in new <=> e \in old
    BY <1>2, <1>3, <1>4, <1>5, <1>6 DEF old, new
  <2>2. new = old
    BY <2>1
  <2> QED
    BY <1>6, <2>2 DEF old, new
<1>7. CASE m = run[d].of /\ where \in places
  <2>1. new = old \cup {d}
    BY <1>2, <1>3, <1>5, <1>7 DEF old, new
  <2> QED
    BY <1>7, <2>1 DEF old, new
<1>8. CASE m = run[d].of /\ where \notin places
  <2>1. new = old \ {d}
    BY <1>2, <1>3, <1>5, <1>8 DEF old, new
  <2> QED
    BY <1>8, <2>1 DEF old, new
<1> QED
  BY <1>6, <1>7, <1>8

(* How the count of those who may still answer changes. *)
LEMMA Hopes ==
  ASSUME run \in Seq(Deliveries), NEW d \in DOMAIN run, NEW where, Onward(d, where),
         NEW m, m = run[d].of
  PROVE  LET hopes == Cardinality(Among(run, m, Hoping))
         IN  /\ hopes \in Nat /\ hopes' \in Nat
             /\ run[d].at \in Hoping /\ where \in Hoping => hopes' = hopes
             /\ run[d].at \in Hoping /\ where \notin Hoping => hopes' = hopes - 1
             /\ run[d].at \notin Hoping /\ where \in Hoping => hopes' = hopes + 1
             /\ run[d].at \notin Hoping /\ where \notin Hoping => hopes' = hopes
<1> DEFINE A == Among(run, m, Hoping)
<1>1. IsFiniteSet(A) /\ (d \in A <=> run[d].at \in Hoping)
  BY CallsAre, FS_Subset DEF Among
<1>2. A' = IF where \in Hoping THEN A \cup {d} ELSE A \ {d}
  BY AmongAfter
<1> HIDE DEF A
<1>3. /\ Cardinality(A \cup {d}) = IF d \in A THEN Cardinality(A) ELSE Cardinality(A) + 1
      /\ Cardinality(A \ {d}) = IF d \in A THEN Cardinality(A) - 1 ELSE Cardinality(A)
      /\ Cardinality(A \cup {d}) \in Nat /\ Cardinality(A \ {d}) \in Nat /\ Cardinality(A) \in Nat
  BY <1>1, FS_AddElement, FS_RemoveElement, FS_CardinalityType
<1>4. Cardinality(A)' = Cardinality(A')
  OBVIOUS
<1>5. /\ Cardinality(A) \in Nat /\ Cardinality(A)' \in Nat
      /\ run[d].at \in Hoping /\ where \in Hoping => Cardinality(A)' = Cardinality(A)
      /\ run[d].at \in Hoping /\ where \notin Hoping => Cardinality(A)' = Cardinality(A) - 1
      /\ run[d].at \notin Hoping /\ where \in Hoping => Cardinality(A)' = Cardinality(A) + 1
      /\ run[d].at \notin Hoping /\ where \notin Hoping => Cardinality(A)' = Cardinality(A)
  BY <1>1, <1>2, <1>3, <1>4
<1> QED
  BY <1>5 DEF A

(* The messages of the other deliveries. *)
Elsewhere(m) ==
  \A n \in Messages \ {m} :
    /\ entry'[n] = entry[n] /\ replies'[n] = replies[n] /\ pardons'[n] = pardons[n]
    /\ n \in orphans' <=> n \in orphans

LEMMA Others ==
  ASSUME RouterInv, NEW d \in DOMAIN run, NEW where, Onward(d, where), Elsewhere(run[d].of),
         NEW n \in Messages, n # run[d].of
  PROVE  Answered(n)' /\ Claimed(n)'
<1>1. /\ Among(run, n, Hoping)' = Among(run, n, Hoping)
      /\ Among(run, n, Holding)' = Among(run, n, Holding)
  BY AmongAfter DEF RouterInv, RouterShapes
<1>2. /\ entry'[n] = entry[n] /\ replies'[n] = replies[n] /\ pardons'[n] = pardons[n]
      /\ n \in orphans' <=> n \in orphans
  BY DEF Elsewhere
<1>3. Answered(n) /\ Claimed(n)
  BY DEF RouterInv
<1>4. Answered(n)'
  BY <1>1, <1>2, <1>3 DEF Answered
<1>5. Claimed(n)'
  BY <1>1, <1>2, <1>3 DEF Claimed
<1> QED
  BY <1>4, <1>5

(* Conversations do not notice a delivery that goes on working, or not. *)
LEMMA Unnoticed ==
  ASSUME RouterInv, NEW d \in DOMAIN run, run[d].at # "queued",
         run' \in Seq(Deliveries), DOMAIN run' = DOMAIN run, run'[d].of = run[d].of,
         run[d].at \in Channel!Working <=> run'[d].at \in Channel!Working,
         \A e \in DOMAIN run \ {d} : run'[e] = run[e],
         UNCHANGED <<queues, activeKeys, pending>>, NEW c \in Conversations
  PROVE  Waiting(queues, run, c)' /\ Manned(queues, activeKeys, run, pending, c)'
<1>1. Waiting(queues, run, c) /\ Manned(queues, activeKeys, run, pending, c)
  BY DEF RouterInv
<1>2. \A i \in 1..Len(queues[c]) : queues[c][i] \in DOMAIN run
  BY LenProperties, ElementOfSeq DEF RouterInv, RouterShapes
<1>3. \A i \in 1..Len(queues[c]) : run'[queues[c][i]] = run[queues[c][i]]
  BY <1>1, <1>2 DEF Waiting
<1>4. Waiting(queues, run, c)'
  BY <1>1, <1>3 DEF Waiting
<1>5. Workers(run, c)' = Workers(run, c)
  BY DEF Workers
<1> QED
  BY <1>1, <1>4, <1>5 DEF Manned

Hope(place) == IF place \in Hoping THEN 1 ELSE 0
Vacant(word) == IF word = "none" THEN 1 ELSE 0

LEMMA AnsweredAfter ==
  ASSUME RouterInv, NEW d \in DOMAIN run, NEW where, Onward(d, where), NEW m, m = run[d].of,
         replies' \in [Messages -> Nat], pardons' \in [Messages -> Nat],
         replies'[m] + Hope(where) + Vacant(entry'[m]) + pardons[m]
           <= replies[m] + Hope(run[d].at) + Vacant(entry[m]) + pardons'[m]
  PROVE  Answered(m)'
<1>1. /\ run \in Seq(Deliveries) /\ replies \in [Messages -> Nat] /\ pardons \in [Messages -> Nat]
  BY DEF RouterInv, RouterShapes
<1>2. m \in Messages
  BY <1>1, CallsAre DEF Deliveries
<1> DEFINE hopes == Cardinality(Among(run, m, Hoping))
<1>3. /\ hopes \in Nat /\ hopes' \in Nat
      /\ hopes' = hopes + Hope(where) - Hope(run[d].at)
  BY <1>1, Hopes DEF Hope
<1>4. replies[m] + hopes + Vacant(entry[m]) <= 1 + pardons[m]
  BY <1>2 DEF RouterInv, Answered, Vacant
<1>5. /\ {replies[m], replies'[m], pardons[m], pardons'[m]} \subseteq Nat
      /\ {Hope(where), Hope(run[d].at), Vacant(entry[m]), Vacant(entry'[m])} \subseteq Nat
  BY <1>1, <1>2 DEF Hope, Vacant
<1> HIDE DEF hopes
<1>6. replies'[m] + hopes' + Vacant(entry'[m]) <= 1 + pardons'[m]
  BY <1>3, <1>4, <1>5
<1> QED
  BY <1>6 DEF Answered, Vacant, hopes

LEMMA ClaimedAfter ==
  ASSUME RouterInv, NEW d \in DOMAIN run, NEW where, Onward(d, where), NEW m, m = run[d].of,
         entry'[m] = "claimed" =>
           \/ where \in Holding \/ m \in orphans'
           \/ run[d].at \notin Holding /\ entry[m] = "claimed" /\ orphans' = orphans,
         pardons'[m] = 0 =>
           /\ pardons[m] = 0
           /\ \/ /\ where \in Holding /\ run[d].at \in Holding
                 /\ entry'[m] = "none" => entry[m] = "none"
              \/ where \notin Holding /\ run[d].at \in Holding
              \/ /\ where \notin Holding /\ run[d].at \notin Holding
                 /\ entry'[m] = "none" => entry[m] = "none"
              \/ /\ where \in Holding /\ run[d].at \notin Holding
                 /\ entry[m] = "none" /\ entry'[m] # "none"
  PROVE  Claimed(m)'
<1>1. run \in Seq(Deliveries)
  BY DEF RouterInv, RouterShapes
<1>2. m \in Messages
  BY <1>1, CallsAre DEF Deliveries
<1> DEFINE holders == Among(run, m, Holding)
<1>3. holders' = IF where \in Holding THEN holders \cup {d} ELSE holders \ {d}
  BY <1>1, AmongAfter
<1>4. d \in holders <=> run[d].at \in Holding
  BY DEF Among
<1>5. /\ entry[m] = "claimed" => m \in orphans \/ holders # {}
      /\ pardons[m] = 0 => /\ entry[m] = "none" => holders = {}
                           /\ \A a, b \in holders : a = b
  BY <1>2 DEF RouterInv, Claimed
<1> HIDE DEF holders
<1>6. entry'[m] = "claimed" => m \in orphans' \/ holders' # {}
  BY <1>3, <1>4, <1>5
<1>7. ASSUME pardons'[m] = 0
      PROVE  /\ entry'[m] = "none" => holders' = {}
             /\ \A a, b \in holders' : a = b
  BY <1>3, <1>4, <1>5, <1>7
<1> QED
  BY <1>6, <1>7 DEF Claimed, holders

LEMMA RouterFrom ==
  ASSUME RouterInv, NEW d \in DOMAIN run, NEW where, Onward(d, where), RouterShapes',
         \A c \in Conversations :
           Waiting(queues, run, c)' /\ Manned(queues, activeKeys, run, pending, c)',
         NEW m, m = run[d].of, Elsewhere(m), Answered(m)', Claimed(m)'
  PROVE  RouterInv'
<1>1. ASSUME NEW n \in Messages PROVE Answered(n)' /\ Claimed(n)'
  <2>1. CASE n = m
    BY <2>1
  <2>2. CASE n # m
    BY <2>2, Others
  <2> QED
    BY <2>1, <2>2
<1> QED
  BY <1>1 DEF RouterInv

LEMMA RowAfter ==
  ASSUME run \in Seq(Deliveries), NEW d \in DOMAIN run, NEW line \in Deliveries
  PROVE  LET calls == [run EXCEPT ![d] = line]
         IN  /\ calls \in Seq(Deliveries) /\ DOMAIN calls = DOMAIN run /\ calls[d] = line
             /\ \A e \in DOMAIN run \ {d} : calls[e] = run[e]
<1> DEFINE calls == [run EXCEPT ![d] = line]
<1>1. DOMAIN run = 1..Len(run) /\ Len(run) \in Nat /\ \A e \in DOMAIN run : run[e] \in Deliveries
  BY CallsAre
<1>2. DOMAIN calls = DOMAIN run /\ calls[d] = line /\ \A e \in DOMAIN run \ {d} : calls[e] = run[e]
  BY <1>1
<1>3. calls \in Seq(Deliveries)
  BY <1>1, ExceptSeq
<1> QED
  BY <1>2, <1>3

LEMMA StartedMoves ==
  ASSUME NEW d \in DOMAIN run, NEW calls \in Seq(Deliveries), DOMAIN calls = DOMAIN run,
         calls[d].of = run[d].of, \A e \in DOMAIN run \ {d} : calls[e] = run[e],
         Started(calls)
  PROVE  Onward(d, calls[d].at)
<1>1. calls[d] \in Deliveries
  BY CallsAre
<1>2. run' \in Seq(Deliveries) /\ DOMAIN run' = DOMAIN run
  BY DEF Started
<1>3. \/ run'[d] = calls[d]
      \/ calls[d].at = "queued" /\ run'[d] = [calls[d] EXCEPT !.at = "run"]
  BY DEF Started
<1>4. /\ run'[d].of = run[d].of
      /\ \/ run'[d].at = calls[d].at
         \/ calls[d].at = "queued" /\ run'[d].at = "run"
  BY <1>1, <1>3 DEF Deliveries
<1>5. ASSUME NEW e \in DOMAIN run \ {d}
      PROVE  \/ run'[e] = run[e]
             \/ run[e].at = "queued" /\ run'[e] = [run[e] EXCEPT !.at = "run"]
  BY DEF Started
<1> QED
  BY <1>2, <1>4, <1>5 DEF Onward

(* A delivery at work goes on working. *)
LEMMA WorkingKeeps ==
  ASSUME RouterInv, NEW d \in DOMAIN run, NEW line \in Deliveries,
         NEW m, m = run[d].of, m = line.of,
         run[d].at \in Channel!Working, line.at \in Channel!Working,
         run' = [run EXCEPT ![d] = line],
         UNCHANGED <<entry, queues, activeKeys, pending, orphans>>,
         chatJob' \in [Messages -> {"none", "active", "completed", "failed"}],
         replies' \in [Messages -> Nat], pardons' \in [Messages -> Nat],
         \A n \in Messages \ {m} : replies'[n] = replies[n] /\ pardons'[n] = pardons[n],
         pardons'[m] = 0 => pardons[m] = 0,
         replies'[m] + Hope(line.at) + pardons[m]
           <= replies[m] + Hope(run[d].at) + pardons'[m]
  PROVE  RouterInv'
<1>1. run \in Seq(Deliveries) /\ replies \in [Messages -> Nat] /\ pardons \in [Messages -> Nat]
  BY DEF RouterInv, RouterShapes
<1>2. /\ run' \in Seq(Deliveries) /\ DOMAIN run' = DOMAIN run /\ run'[d] = line
      /\ \A e \in DOMAIN run \ {d} : run'[e] = run[e]
  BY <1>1, RowAfter
<1>3. Onward(d, line.at)
  BY <1>2 DEF Onward
<1>4. RouterShapes'
  BY <1>2 DEF RouterInv, RouterShapes
<1>5. \A c \in Conversations :
        Waiting(queues, run, c)' /\ Manned(queues, activeKeys, run, pending, c)'
  BY <1>2, Unnoticed DEF Channel!Working
<1>6. Elsewhere(m)
  BY DEF Elsewhere
<1>7. m \in Messages
  BY DEF Deliveries
<1>8. Answered(m)'
  <2>1. /\ {replies[m], replies'[m], pardons[m], pardons'[m]} \subseteq Nat
        /\ {Hope(line.at), Hope(run[d].at), Vacant(entry[m])} \subseteq Nat
    BY <1>1, <1>7 DEF Hope, Vacant
  <2>2. replies'[m] + Hope(line.at) + Vacant(entry'[m]) + pardons[m]
          <= replies[m] + Hope(run[d].at) + Vacant(entry[m]) + pardons'[m]
    BY <2>1
  <2> QED
    BY <1>3, <2>2, AnsweredAfter
<1>9. Claimed(m)'
  BY <1>3, ClaimedAfter DEF Holding
<1> QED
  BY <1>3, <1>4, <1>5, <1>6, <1>8, <1>9, RouterFrom

(* A delivery ends, and the next of its conversation begins (finally of drain). *)
LEMMA FinishKeeps ==
  ASSUME RouterAssumption, RouterInv, NEW d \in DOMAIN run, run[d].at \in Channel!Working,
         NEW m, m = run[d].of,
         NEW entries \in [Messages -> {"none", "claimed", "committed"}],
         Channel!Finish(d, entries),
         \A n \in Messages \ {m} : entries[n] = entry[n],
         entries[m] # "claimed", Vacant(entries[m]) <= Hope(run[d].at) + Vacant(entry[m])
  PROVE  RouterInv'
<1> DEFINE here == ConversationOf[m]
           line == [run[d] EXCEPT !.at = "returned", !.attempt = 1, !.answered = FALSE]
           calls == [run EXCEPT ![d] = line]
           counts == [pending EXCEPT ![here] = @ - 1]
           busy == activeKeys \ {here}
<1>1. /\ run \in Seq(Deliveries) /\ run[d] \in Deliveries /\ m \in Messages
      /\ here \in Conversations /\ replies \in [Messages -> Nat] /\ pardons \in [Messages -> Nat]
  <2>1. run \in Seq(Deliveries) /\ replies \in [Messages -> Nat] /\ pardons \in [Messages -> Nat]
    BY DEF RouterInv, RouterShapes
  <2>2. run[d] \in Deliveries
    BY <2>1, CallsAre
  <2> QED
    BY <2>1, <2>2 DEF Deliveries, RouterAssumption
<1>2. line \in Deliveries /\ line.of = m /\ line.at = "returned"
  <2>1. 1 \in 1..MaxAttempts /\ "returned" \in Stations
    BY DEF RouterAssumption, Stations
  <2>2. line \in Deliveries
    BY <1>1, <2>1 DEF Deliveries
  <2> QED
    BY <1>1, <2>2 DEF Deliveries
<1>3. /\ entry' = entries /\ pending' = counts
      /\ Channel!Drain(queues, busy, calls)
      /\ UNCHANGED <<chatJob, replies, pardons, orphans>>
  BY DEF Channel!Finish, Channel!Freed, Channel!Group, Channel!Over, Channel!ledger
<1> HIDE DEF line
<1>4. /\ calls \in Seq(Deliveries) /\ DOMAIN calls = DOMAIN run /\ calls[d] = line
      /\ \A e \in DOMAIN run \ {d} : calls[e] = run[e]
  BY <1>1, <1>2, RowAfter
<1> HIDE DEF calls
<1>5. Manned(queues, activeKeys, run, pending, here) /\ d \in Workers(run, here)
  BY <1>1 DEF RouterInv, Workers
<1>6. here \in activeKeys /\ Workers(run, here) = {d} /\ pending[here] = Len(queues[here]) + 1
  BY <1>5 DEF Manned
<1>7. queues \in [Conversations -> Seq(DOMAIN calls)] /\ \A c \in Conversations : Len(queues[c]) \in Nat
  BY <1>4, LenProperties DEF RouterInv, RouterShapes
<1>8. counts \in [Conversations -> 0..MaxPendingPerConversation]
  <2>1. pending \in [Conversations -> 0..MaxPendingPerConversation]
    BY DEF RouterInv, RouterShapes
  <2>2. pending[here] - 1 \in 0..MaxPendingPerConversation
    BY <1>1, <1>6, <1>7, <2>1 DEF RouterAssumption
  <2> QED
    BY <2>1, <2>2
<1>9. ASSUME NEW c \in Conversations
      PROVE  Waiting(queues, calls, c) /\ Manned(queues, busy, calls, counts, c)
  <2>1. Waiting(queues, run, c) /\ Manned(queues, activeKeys, run, pending, c)
    BY DEF RouterInv
  <2>2. \A i \in 1..Len(queues[c]) : queues[c][i] \in DOMAIN run
    BY <1>4, <1>7, LenProperties, ElementOfSeq
  <2>3. \A i \in 1..Len(queues[c]) : calls[queues[c][i]] = run[queues[c][i]]
    BY <1>4, <2>1, <2>2 DEF Waiting, Channel!Working
  <2>4. Waiting(queues, calls, c)
    BY <2>1, <2>3 DEF Waiting
  <2>5. Workers(calls, c) = Workers(run, c) \ {d}
    BY <1>2, <1>4 DEF Workers, Channel!Working
  <2>6. CASE c = here
    <3>1. Workers(calls, c) = {} /\ c \notin busy
      BY <1>6, <2>5, <2>6
    <3>2. counts[c] = Len(queues[c])
      BY <1>1, <1>6, <1>7, <2>6 DEF RouterInv, RouterShapes
    <3> QED
      BY <2>4, <3>1, <3>2 DEF Manned
  <2>7. CASE c # here
    <3>1. Workers(calls, c) = Workers(run, c) /\ (c \in busy <=> c \in activeKeys)
      BY <2>5, <2>7 DEF Workers
    <3>2. counts[c] = pending[c]
      BY <2>7 DEF RouterInv, RouterShapes
    <3> HIDE DEF busy, counts
    <3> QED
      BY <1>4, <2>1, <2>4, <3>1, <3>2 DEF Manned
  <2> QED
    BY <2>6, <2>7
<1>10. busy \in SUBSET Conversations /\ Cardinality(busy) <= MaxConcurrency
  <2>1. activeKeys \in SUBSET Conversations /\ Cardinality(activeKeys) <= MaxConcurrency
    BY DEF RouterInv, RouterShapes
  <2>2. IsFiniteSet(activeKeys)
    BY <2>1, FS_Subset DEF RouterAssumption
  <2>3. /\ Cardinality(busy) \in Nat /\ Cardinality(activeKeys) \in Nat
        /\ Cardinality(busy) <= Cardinality(activeKeys)
    BY <2>2, FS_Subset, FS_CardinalityType
  <2> QED
    BY <2>1, <2>3 DEF RouterAssumption
<1> HIDE DEF busy, counts
<1>11. /\ Started(calls)
       /\ queues' \in [Conversations -> Seq(DOMAIN calls)]
       /\ activeKeys' \in SUBSET Conversations /\ Cardinality(activeKeys') <= MaxConcurrency
       /\ \A c \in Conversations : /\ Waiting(queues', run', c)
                                   /\ Manned(queues', activeKeys', run', counts, c)
  BY <1>3, <1>4, <1>7, <1>9, <1>10, DrainKeeps
<1>12. Onward(d, "returned")
  BY <1>2, <1>4, <1>11, StartedMoves
<1>13. RouterShapes'
  BY <1>3, <1>4, <1>8, <1>11 DEF RouterInv, RouterShapes, Started
<1>14. \A c \in Conversations :
         Waiting(queues, run, c)' /\ Manned(queues, activeKeys, run, pending, c)'
  BY <1>3, <1>11
<1>15. Elsewhere(m)
  BY <1>3 DEF Elsewhere
<1>16. Answered(m)'
  <2>1. /\ {replies[m], pardons[m], Hope("returned"), Vacant(entries[m]), Vacant(entry[m]),
            Hope(run[d].at)} \subseteq Nat
        /\ Hope("returned") = 0
    BY <1>1 DEF Hope, Vacant, Hoping
  <2>2. replies'[m] + Hope("returned") + Vacant(entry'[m]) + pardons[m]
          <= replies[m] + Hope(run[d].at) + Vacant(entry[m]) + pardons'[m]
    BY <1>3, <2>1
  <2> QED
    BY <1>1, <1>3, <1>12, <2>2, AnsweredAfter
<1>17. Claimed(m)'
  BY <1>3, <1>12, ClaimedAfter DEF Holding, Channel!Working
<1> QED
  BY <1>12, <1>13, <1>14, <1>15, <1>16, <1>17, RouterFrom

LEMMA RouterInit == ASSUME RouterAssumption, Channel!Init PROVE RouterInv
<1>1. /\ entry = [m \in Messages |-> "none"] /\ chatJob = [m \in Messages |-> "none"]
      /\ run = <<>> /\ queues = [c \in Conversations |-> <<>>] /\ activeKeys = {}
      /\ pending = [c \in Conversations |-> 0] /\ replies = [m \in Messages |-> 0]
      /\ pardons = [m \in Messages |-> 0]
  BY DEF Channel!Init
<1>2. run \in Seq(Deliveries) /\ DOMAIN run = {} /\ <<>> \in Seq(DOMAIN run) /\ Len(<<>>) = 0
  BY <1>1, EmptySeq
<1>3. Cardinality({}) = 0
  BY FS_EmptySet
<1>4. RouterShapes
  BY <1>1, <1>2, <1>3 DEF RouterShapes, RouterAssumption
<1>5. ASSUME NEW c \in Conversations
      PROVE  Waiting(queues, run, c) /\ Manned(queues, activeKeys, run, pending, c)
  BY <1>1, <1>2 DEF Waiting, Manned, Workers
<1>6. ASSUME NEW m \in Messages PROVE Answered(m) /\ Claimed(m)
  <2>1. Among(run, m, Hoping) = {} /\ Among(run, m, Holding) = {}
    BY <1>2 DEF Among
  <2>2. /\ Cardinality(Among(run, m, Hoping)) = 0
        /\ entry[m] = "none" /\ replies[m] = 0 /\ pardons[m] = 0
    BY <1>1, <1>3, <2>1
  <2> QED
    BY <2>1, <2>2 DEF Answered, Claimed
<1> QED
  BY <1>4, <1>5, <1>6 DEF RouterInv

LEMMA DeliverKeeps ==
  ASSUME RouterAssumption, RouterInv, NEW m \in Messages, Channel!Deliver(m)
  PROVE  RouterInv'
<1> DEFINE line == [at |-> "claim", of |-> m, attempt |-> 1, answered |-> FALSE]
<1>1. /\ run' = Append(run, line)
      /\ UNCHANGED <<entry, chatJob, queues, activeKeys, pending, mishaps, replies, pardons, orphans>>
  BY DEF Channel!Deliver, Channel!ledger
<1>2. line \in Deliveries
  BY DEF Deliveries, Stations, RouterAssumption
<1>3. run \in Seq(Deliveries)
  BY DEF RouterInv, RouterShapes
<1>4. /\ run' \in Seq(Deliveries) /\ DOMAIN run \subseteq DOMAIN run'
      /\ \A d \in DOMAIN run : run'[d] = run[d]
      /\ \A d \in DOMAIN run' \ DOMAIN run : run'[d] = line
  <2>1. /\ run' \in Seq(Deliveries) /\ Len(run') = Len(run) + 1
        /\ \A i \in 1..Len(run) : run'[i] = run[i]
        /\ run'[Len(run) + 1] = line
    BY <1>1, <1>2, <1>3, AppendProperties
  <2>2. DOMAIN run = 1..Len(run) /\ DOMAIN run' = 1..(Len(run) + 1) /\ Len(run) \in Nat
    BY <1>3, <2>1, LenProperties
  <2> QED
    BY <2>1, <2>2
<1>5. RouterShapes'
  <2>1. queues' \in [Conversations -> Seq(DOMAIN run')]
    <3>1. \A c \in Conversations : queues[c] \in Seq(DOMAIN run')
      BY <1>4 DEF RouterInv, RouterShapes
    <3> QED
      BY <1>1, <3>1 DEF RouterInv, RouterShapes
  <2> QED
    BY <1>1, <1>4, <2>1 DEF RouterInv, RouterShapes
<1>6. line.at \notin Channel!Working /\ line.at \notin Holding /\ line.at \notin Hoping
  BY DEF Channel!Working, Holding, Hoping
<1> HIDE DEF line
<1>7. ASSUME NEW c \in Conversations
      PROVE  Waiting(queues, run, c)' /\ Manned(queues, activeKeys, run, pending, c)'
  <2>1. Waiting(queues, run, c) /\ Manned(queues, activeKeys, run, pending, c)
    BY DEF RouterInv
  <2>2. \A i \in 1..Len(queues[c]) : queues[c][i] \in DOMAIN run
    BY LenProperties, ElementOfSeq DEF RouterInv, RouterShapes
  <2>3. Waiting(queues, run, c)'
    BY <1>1, <1>4, <2>1, <2>2 DEF Waiting
  <2>4. Workers(run, c)' = Workers(run, c)
    BY <1>4, <1>6 DEF Workers
  <2> QED
    BY <1>1, <1>4, <2>1, <2>3, <2>4 DEF Manned
<1>8. ASSUME NEW n \in Messages PROVE Answered(n)' /\ Claimed(n)'
  <2>1. Among(run, n, Hoping)' = Among(run, n, Hoping)
    BY <1>4, <1>6 DEF Among
  <2>2. Among(run, n, Holding)' = Among(run, n, Holding)
    BY <1>4, <1>6 DEF Among
  <2>3. Answered(n) /\ Claimed(n)
    BY DEF RouterInv
  <2>4. Answered(n)'
    BY <1>1, <2>1, <2>3 DEF Answered
  <2>5. Claimed(n)'
    BY <1>1, <2>2, <2>3 DEF Claimed
  <2> QED
    BY <2>4, <2>5
<1> QED
  BY <1>5, <1>7, <1>8 DEF RouterInv

LEMMA LapseKeeps ==
  ASSUME RouterAssumption, RouterInv, NEW m \in Messages, Channel!Lapse(m)
  PROVE  RouterInv'
<1>1. /\ entry[m] # "none" /\ entry' = [entry EXCEPT ![m] = "none"]
      /\ pardons' = [pardons EXCEPT ![m] = @ + 1] /\ orphans' = orphans \ {m}
      /\ UNCHANGED <<chatJob, run, queues, activeKeys, pending, replies>>
  BY DEF Channel!Lapse
<1>2. RouterShapes'
  BY <1>1 DEF RouterInv, RouterShapes
<1>3. ASSUME NEW c \in Conversations
      PROVE  Waiting(queues, run, c)' /\ Manned(queues, activeKeys, run, pending, c)'
  BY <1>1 DEF RouterInv, Waiting, Manned, Workers
<1>4. ASSUME NEW n \in Messages PROVE Answered(n)' /\ Claimed(n)'
  <2>1. /\ Among(run, n, Hoping)' = Among(run, n, Hoping)
        /\ Among(run, n, Holding)' = Among(run, n, Holding)
        /\ Answered(n) /\ Claimed(n)
    BY <1>1 DEF RouterInv, Among
  <2>2. /\ pardons \in [Messages -> Nat] /\ replies \in [Messages -> Nat]
        /\ entry \in [Messages -> {"none", "claimed", "committed"}] /\ run \in Seq(Deliveries)
    BY DEF RouterInv, RouterShapes
  <2>3. Cardinality(Among(run, n, Hoping)) \in Nat
    BY <2>2, CallsAre, FS_Subset, FS_CardinalityType DEF Among
  <2>4. CASE n = m
    <3>1. entry'[n] = "none" /\ pardons'[n] = pardons[n] + 1 /\ replies'[n] = replies[n]
      BY <1>1, <2>2, <2>4
    <3>2. Answered(n)'
      BY <1>1, <2>1, <2>2, <2>3, <2>4, <3>1 DEF Answered
    <3>3. Claimed(n)'
      BY <2>2, <3>1 DEF Claimed
    <3> QED
      BY <3>2, <3>3
  <2>5. CASE n # m
    <3>1. /\ entry'[n] = entry[n] /\ pardons'[n] = pardons[n] /\ replies'[n] = replies[n]
          /\ n \in orphans' <=> n \in orphans
      BY <1>1, <2>2, <2>5
    <3>2. Answered(n)'
      BY <2>1, <3>1 DEF Answered
    <3>3. Claimed(n)'
      BY <2>1, <3>1 DEF Claimed
    <3> QED
      BY <3>2, <3>3
  <2> QED
    BY <2>4, <2>5
<1> QED
  BY <1>2, <1>3, <1>4 DEF RouterInv

LEMMA JobEndsKeeps ==
  ASSUME RouterInv, NEW m \in Messages, Channel!JobEnds(m)
  PROVE  RouterInv'
<1>1. /\ UNCHANGED <<entry, run, queues, activeKeys, pending, mishaps, replies, pardons, orphans>>
      /\ chatJob' \in [Messages -> {"none", "active", "completed", "failed"}]
  BY DEF Channel!JobEnds, Channel!ledger, RouterInv, RouterShapes
<1>2. RouterShapes'
  BY <1>1 DEF RouterInv, RouterShapes
<1>3. ASSUME NEW c \in Conversations
      PROVE  Waiting(queues, run, c)' /\ Manned(queues, activeKeys, run, pending, c)'
  BY <1>1 DEF RouterInv, Waiting, Manned, Workers
<1>4. ASSUME NEW n \in Messages PROVE Answered(n)' /\ Claimed(n)'
  BY <1>1 DEF RouterInv, Answered, Claimed, Among
<1> QED
  BY <1>2, <1>3, <1>4 DEF RouterInv

LEMMA CrashKeeps ==
  ASSUME RouterAssumption, RouterInv, Channel!Crash
  PROVE  RouterInv'
<1>1. run \in Seq(Deliveries) /\ DOMAIN run = 1..Len(run) /\ Len(run) \in Nat
      /\ \A d \in DOMAIN run : run[d] \in Deliveries
  BY CallsAre DEF RouterInv, RouterShapes
<1>2. /\ run' = [d \in DOMAIN run |->
                   [run[d] EXCEPT !.at = "returned", !.attempt = 1, !.answered = FALSE]]
      /\ queues' = [c \in Conversations |-> <<>>] /\ activeKeys' = {}
      /\ pending' = [c \in Conversations |-> 0]
      /\ orphans' = {m \in Messages : entry[m] = "claimed"}
      /\ UNCHANGED <<entry, chatJob, replies, pardons>>
  BY <1>1 DEF Channel!Crash, Channel!Calls, Channel!Over
<1>3. ASSUME NEW d \in DOMAIN run PROVE run'[d] \in Deliveries /\ run'[d].at = "returned"
  <2>1. 1 \in 1..MaxAttempts /\ "returned" \in Stations
    BY DEF RouterAssumption, Stations
  <2> QED
    BY <1>1, <1>2, <2>1 DEF Deliveries
<1>4. run' \in Seq(Deliveries) /\ DOMAIN run' = DOMAIN run
  <2>1. DOMAIN run' = 1..Len(run)
    BY <1>1, <1>2
  <2>2. run' = [d \in 1..Len(run) |-> run'[d]]
    BY <1>1, <1>2
  <2>3. \A d \in 1..Len(run) : run'[d] \in Deliveries
    BY <1>1, <1>3
  <2> HIDE <1>2
  <2> QED
    BY <1>1, <2>1, <2>2, <2>3
<1>5. <<>> \in Seq(DOMAIN run') /\ Len(<<>>) = 0 /\ Cardinality({}) = 0
  BY EmptySeq, FS_EmptySet
<1>6. RouterShapes'
  <2>1. queues' \in [Conversations -> Seq(DOMAIN run')]
    BY <1>2, <1>5
  <2>2. /\ activeKeys' \in SUBSET Conversations /\ Cardinality(activeKeys') <= MaxConcurrency
        /\ pending' \in [Conversations -> 0..MaxPendingPerConversation]
    <3>1. activeKeys' = {} /\ Cardinality(activeKeys') = 0
      BY <1>2, <1>5
    <3>2. 0 \in 0..MaxPendingPerConversation /\ 0 <= MaxConcurrency
      BY DEF RouterAssumption
    <3>3. pending' \in [Conversations -> 0..MaxPendingPerConversation]
      BY <1>2, <3>2
    <3> QED
      BY <3>1, <3>2, <3>3
  <2> QED
    BY <1>2, <1>4, <2>1, <2>2 DEF RouterInv, RouterShapes
<1>7. ASSUME NEW c \in Conversations
      PROVE  Waiting(queues, run, c)' /\ Manned(queues, activeKeys, run, pending, c)'
  <2>1. queues'[c] = <<>> /\ pending'[c] = 0 /\ activeKeys' = {}
    BY <1>2
  <2>2. Workers(run, c)' = {}
    BY <1>3, <1>4 DEF Workers, Channel!Working
  <2>3. Waiting(queues, run, c)'
    BY <1>5, <2>1 DEF Waiting
  <2> QED
    BY <1>5, <2>1, <2>2, <2>3 DEF Manned
<1>8. ASSUME NEW m \in Messages PROVE Answered(m)' /\ Claimed(m)'
  <2>1. Among(run, m, Hoping)' = {} /\ Among(run, m, Holding)' = {}
    BY <1>3, <1>4 DEF Among, Hoping, Holding, Channel!Working
  <2>2. Answered(m)
    BY DEF RouterInv
  <2>3. /\ Cardinality(Among(run, m, Hoping)) \in Nat /\ replies[m] \in Nat /\ pardons[m] \in Nat
    BY <1>1, CallsAre, FS_Subset, FS_CardinalityType DEF Among, RouterInv, RouterShapes
  <2>4. Cardinality(Among(run, m, Hoping))' = 0
    BY <1>5, <2>1
  <2>5. Answered(m)'
    <3>1. entry'[m] = entry[m] /\ replies'[m] = replies[m] /\ pardons'[m] = pardons[m]
      BY <1>2
    <3> QED
      BY <2>2, <2>3, <2>4, <3>1 DEF Answered
  <2>6. Claimed(m)'
    BY <1>2, <2>1 DEF Claimed
  <2> QED
    BY <2>5, <2>6
<1> QED
  BY <1>6, <1>7, <1>8 DEF RouterInv

(* A delivery that was not admitted leaves its conversation alone. *)
LEMMA OutsideKeeps ==
  ASSUME RouterInv, NEW d \in DOMAIN run, NEW m, m = run[d].of, NEW where \in Stations,
         run[d].at \in {"claim", "refused"}, where \in {"refused", "returned"},
         run' = [run EXCEPT ![d].at = where],
         entry' \in [Messages -> {"none", "claimed", "committed"}],
         UNCHANGED <<chatJob, queues, activeKeys, pending, replies, pardons>>,
         \A n \in Messages \ {m} : entry'[n] = entry[n] /\ (n \in orphans' <=> n \in orphans),
         \/ /\ run[d].at = "claim" /\ where = "returned" /\ entry'[m] = entry[m]
            /\ orphans' = orphans
         \/ /\ run[d].at = "claim" /\ where = "refused" /\ entry[m] = "none"
            /\ entry'[m] = "claimed"
         \/ /\ run[d].at = "claim" /\ where = "returned" /\ entry[m] = "none"
            /\ entry'[m] = "claimed" /\ m \in orphans'
         \/ /\ run[d].at = "refused" /\ where = "returned"
            /\ entry'[m] # "claimed" \/ m \in orphans'
  PROVE  RouterInv'
<1> DEFINE line == [run[d] EXCEPT !.at = where]
<1>1. /\ run \in Seq(Deliveries) /\ run[d] \in Deliveries /\ m \in Messages
      /\ replies \in [Messages -> Nat] /\ pardons \in [Messages -> Nat]
  <2>1. run \in Seq(Deliveries) /\ replies \in [Messages -> Nat] /\ pardons \in [Messages -> Nat]
    BY DEF RouterInv, RouterShapes
  <2>2. run[d] \in Deliveries
    BY <2>1, CallsAre
  <2> QED
    BY <2>1, <2>2 DEF Deliveries
<1>2. line \in Deliveries /\ line.of = m /\ line.at = where /\ run' = [run EXCEPT ![d] = line]
  BY <1>1 DEF Deliveries
<1> HIDE DEF line
<1>3. /\ run' \in Seq(Deliveries) /\ DOMAIN run' = DOMAIN run /\ run'[d] = line
      /\ \A e \in DOMAIN run \ {d} : run'[e] = run[e]
  <2>1. run \in Seq(Deliveries) /\ line \in Deliveries /\ d \in DOMAIN run
    BY <1>1, <1>2
  <2>2. run' = [run EXCEPT ![d] = line]
    BY <1>2
  <2>3. LET calls == [run EXCEPT ![d] = line]
        IN  /\ calls \in Seq(Deliveries) /\ DOMAIN calls = DOMAIN run /\ calls[d] = line
            /\ \A e \in DOMAIN run \ {d} : calls[e] = run[e]
    BY ONLY <2>1, RowAfter
  <2> QED
    BY ONLY <2>2, <2>3
<1>4. Onward(d, where)
  BY <1>2, <1>3 DEF Onward
<1>5. RouterShapes'
  BY <1>3 DEF RouterInv, RouterShapes
<1>6. \A c \in Conversations :
        Waiting(queues, run, c)' /\ Manned(queues, activeKeys, run, pending, c)'
  BY <1>2, <1>3, Unnoticed DEF Channel!Working
<1>7. Elsewhere(m)
  BY DEF Elsewhere
<1>8. Answered(m)'
  <2>1. {replies[m], pardons[m], Hope(where), Hope(run[d].at), Vacant(entry[m]), Vacant(entry'[m])}
          \subseteq Nat
    BY <1>1 DEF Hope, Vacant
  <2>2. Hope(where) + Vacant(entry'[m]) <= Hope(run[d].at) + Vacant(entry[m])
    BY DEF Hope, Vacant, Hoping
  <2>3. replies'[m] + Hope(where) + Vacant(entry'[m]) + pardons[m]
          <= replies[m] + Hope(run[d].at) + Vacant(entry[m]) + pardons'[m]
    BY <2>1, <2>2
  <2> QED
    BY <1>1, <1>4, <2>3, AnsweredAfter
<1>9. Claimed(m)'
  BY <1>4, ClaimedAfter DEF Holding, Channel!Working
<1> QED
  BY <1>4, <1>5, <1>6, <1>7, <1>8, <1>9, RouterFrom

(* enqueue, with the drain that it begins. *)
LEMMA EnqueueKeeps ==
  ASSUME RouterAssumption, RouterInv, NEW d \in DOMAIN run, run[d].at = "claim",
         NEW m, m = run[d].of, NEW here, here = ConversationOf[m],
         entry[m] = "none", entry' = [entry EXCEPT ![m] = "claimed"], orphans' = orphans \ {m},
         UNCHANGED <<chatJob, replies, pardons>>,
         pending[here] < MaxPendingPerConversation,
         pending' = [pending EXCEPT ![here] = @ + 1],
         Channel!Drain([queues EXCEPT ![here] = Append(@, d)], activeKeys,
                       [run EXCEPT ![d].at = "queued"])
  PROVE  RouterInv'
<1> DEFINE line == [run[d] EXCEPT !.at = "queued"]
           calls == [run EXCEPT ![d] = line]
           counts == [pending EXCEPT ![here] = @ + 1]
           waiting == [queues EXCEPT ![here] = Append(@, d)]
<1>1. /\ run \in Seq(Deliveries) /\ run[d] \in Deliveries /\ m \in Messages
      /\ here \in Conversations /\ replies \in [Messages -> Nat] /\ pardons \in [Messages -> Nat]
      /\ entry \in [Messages -> {"none", "claimed", "committed"}]
  <2>1. /\ run \in Seq(Deliveries) /\ replies \in [Messages -> Nat] /\ pardons \in [Messages -> Nat]
        /\ entry \in [Messages -> {"none", "claimed", "committed"}]
    BY DEF RouterInv, RouterShapes
  <2>2. run[d] \in Deliveries
    BY <2>1, CallsAre
  <2> QED
    BY <2>1, <2>2 DEF Deliveries, RouterAssumption
<1>2. line \in Deliveries /\ line.of = m /\ line.at = "queued"
  BY <1>1 DEF Deliveries, Stations
<1>3. Channel!Drain(waiting, activeKeys, calls) /\ pending' = counts
  BY <1>1
<1> HIDE DEF line
<1>4. /\ calls \in Seq(Deliveries) /\ DOMAIN calls = DOMAIN run /\ calls[d] = line
      /\ \A e \in DOMAIN run \ {d} : calls[e] = run[e]
  BY ONLY <1>1, <1>2, d \in DOMAIN run, RowAfter
<1> HIDE DEF calls
<1>5. /\ queues \in [Conversations -> Seq(DOMAIN run)]
      /\ pending \in [Conversations -> 0..MaxPendingPerConversation]
      /\ activeKeys \in SUBSET Conversations /\ Cardinality(activeKeys) <= MaxConcurrency
      /\ \A c \in Conversations : Len(queues[c]) \in Nat
  BY LenProperties DEF RouterInv, RouterShapes
<1>6. counts \in [Conversations -> 0..MaxPendingPerConversation]
  BY <1>1, <1>5 DEF RouterAssumption
<1>7. /\ Append(queues[here], d) \in Seq(DOMAIN calls)
      /\ Len(Append(queues[here], d)) = Len(queues[here]) + 1
      /\ \A i \in 1..Len(queues[here]) : Append(queues[here], d)[i] = queues[here][i]
      /\ Append(queues[here], d)[Len(queues[here]) + 1] = d
  BY <1>1, <1>4, <1>5, AppendProperties
<1>8. /\ waiting \in [Conversations -> Seq(DOMAIN calls)]
      /\ waiting[here] = Append(queues[here], d)
      /\ \A c \in Conversations \ {here} : waiting[c] = queues[c]
  BY <1>1, <1>4, <1>5, <1>7
<1> HIDE DEF waiting
<1>9. ASSUME NEW c \in Conversations
      PROVE  Waiting(waiting, calls, c) /\ Manned(waiting, activeKeys, calls, counts, c)
  <2>1. Waiting(queues, run, c) /\ Manned(queues, activeKeys, run, pending, c)
    BY DEF RouterInv
  <2>2. \A i \in 1..Len(queues[c]) : queues[c][i] \in DOMAIN run /\ queues[c][i] # d
    BY <1>5, <2>1, LenProperties, ElementOfSeq DEF Waiting
  <2>3. \A i \in 1..Len(queues[c]) : calls[queues[c][i]] = run[queues[c][i]]
    BY <1>4, <2>2
  <2>4. Waiting(queues, calls, c)
    BY <2>1, <2>3 DEF Waiting
  <2>5. Workers(calls, c) = Workers(run, c)
    BY <1>2, <1>4 DEF Workers, Channel!Working
  <2>6. CASE c = here
    <3>1. Len(waiting[c]) = Len(queues[c]) + 1 /\ Len(queues[c]) \in Nat
      BY <1>5, <1>7, <1>8, <2>6
    <3>2. /\ \A i \in 1..Len(queues[c]) : waiting[c][i] = queues[c][i]
          /\ waiting[c][Len(queues[c]) + 1] = d
      BY <1>7, <1>8, <2>6
    <3>3. calls[d].at = "queued" /\ ConversationOf[calls[d].of] = c
      BY <1>2, <1>4, <2>6
    <3>4. Waiting(waiting, calls, c)
      <4>1. ASSUME NEW i \in 1..Len(waiting[c])
            PROVE  i \in 1..Len(queues[c]) \/ i = Len(queues[c]) + 1
        BY <3>1
      <4>2. \A i \in 1..Len(waiting[c]) : /\ calls[waiting[c][i]].at = "queued"
                                          /\ ConversationOf[calls[waiting[c][i]].of] = c
        BY <2>4, <3>2, <3>3, <4>1 DEF Waiting
      <4>3. ASSUME NEW i \in 1..Len(waiting[c]), NEW j \in 1..Len(waiting[c]),
                   waiting[c][i] = waiting[c][j]
            PROVE  i = j
        <5>1. CASE i \in 1..Len(queues[c]) /\ j \in 1..Len(queues[c])
          BY <2>1, <3>2, <4>3, <5>1 DEF Waiting
        <5>2. CASE i = Len(queues[c]) + 1 /\ j \in 1..Len(queues[c])
          BY <2>2, <3>2, <4>3, <5>2
        <5>3. CASE i \in 1..Len(queues[c]) /\ j = Len(queues[c]) + 1
          BY <2>2, <3>2, <4>3, <5>3
        <5> QED
          BY <4>1, <5>1, <5>2, <5>3
      <4> QED
        BY <4>2, <4>3 DEF Waiting
    <3>5. counts[c] = pending[c] + 1 /\ pending[c] \in Nat
      BY <1>5, <2>6 DEF RouterAssumption
    <3> HIDE DEF counts
    <3>6. Manned(waiting, activeKeys, calls, counts, c)
      <4>1. CASE c \in activeKeys
        BY <1>4, <2>1, <2>5, <3>1, <3>5, <4>1 DEF Manned
      <4>2. CASE c \notin activeKeys
        BY <1>4, <2>1, <2>5, <3>1, <3>5, <4>2 DEF Manned
      <4> QED
        BY <4>1, <4>2
    <3> QED
      BY <3>4, <3>6
  <2>7. CASE c # here
    <3>1. waiting[c] = queues[c] /\ counts[c] = pending[c]
      BY <1>5, <1>8, <2>7
    <3> HIDE DEF counts
    <3>2. Waiting(waiting, calls, c)
      BY <2>4, <3>1 DEF Waiting
    <3> QED
      BY <1>4, <2>1, <2>5, <3>1, <3>2 DEF Manned
  <2> QED
    BY <2>6, <2>7
<1> HIDE DEF counts
<1>10. /\ Started(calls)
       /\ queues' \in [Conversations -> Seq(DOMAIN calls)]
       /\ activeKeys' \in SUBSET Conversations /\ Cardinality(activeKeys') <= MaxConcurrency
       /\ \A c \in Conversations : /\ Waiting(queues', run', c)
                                   /\ Manned(queues', activeKeys', run', counts, c)
  BY <1>3, <1>4, <1>5, <1>8, <1>9, DrainKeeps
<1>11. Onward(d, "queued")
  BY <1>2, <1>4, <1>10, StartedMoves
<1>12. RouterShapes'
  BY <1>1, <1>3, <1>4, <1>6, <1>10 DEF RouterInv, RouterShapes, Started
<1>13. \A c \in Conversations :
         Waiting(queues, run, c)' /\ Manned(queues, activeKeys, run, pending, c)'
  BY <1>3, <1>10
<1>14. Elsewhere(m)
  BY <1>1 DEF Elsewhere
<1>15. entry'[m] = "claimed"
  BY <1>1
<1>16. Answered(m)'
  <2>1. /\ {replies[m], pardons[m]} \subseteq Nat
        /\ Hope("queued") = 1 /\ Hope(run[d].at) = 0 /\ Vacant(entry[m]) = 1 /\ Vacant(entry'[m]) = 0
    BY <1>1, <1>15 DEF Hope, Vacant, Hoping
  <2>2. replies'[m] + Hope("queued") + Vacant(entry'[m]) + pardons[m]
          <= replies[m] + Hope(run[d].at) + Vacant(entry[m]) + pardons'[m]
    BY <2>1
  <2> QED
    BY <1>1, <1>11, <2>2, AnsweredAfter
<1>17. Claimed(m)'
  BY <1>11, <1>15, ClaimedAfter DEF Holding, Channel!Working
<1> QED
  BY <1>11, <1>12, <1>13, <1>14, <1>16, <1>17, RouterFrom

LEMMA ClaimKeeps ==
  ASSUME RouterAssumption, RouterInv, NEW d \in DOMAIN run, Channel!Claim(d)
  PROVE  RouterInv'
<1>1. PICK m : m = run[d].of
  OBVIOUS
<1>2. PICK here : here = ConversationOf[m]
  OBVIOUS
<1>3. /\ m \in Messages /\ here \in Conversations
      /\ entry \in [Messages -> {"none", "claimed", "committed"}]
      /\ pending \in [Conversations -> 0..MaxPendingPerConversation]
  <2>1. run[d] \in Deliveries
    BY CallsAre DEF RouterInv, RouterShapes
  <2> QED
    BY <1>1, <1>2, <2>1 DEF Deliveries, RouterAssumption, RouterInv, RouterShapes
<1>4. run[d].at = "claim" /\ UNCHANGED <<chatJob, replies, pardons>>
  BY DEF Channel!Claim
<1>5. CASE /\ run' = [run EXCEPT ![d].at = "returned"]
           /\ UNCHANGED <<entry, queues, activeKeys, pending, orphans>>
  <2>1. "returned" \in Stations
    BY DEF Stations
  <2> QED
    BY <1>1, <1>3, <1>4, <1>5, <2>1, OutsideKeeps
<1>6. CASE /\ entry[m] = "none" /\ entry' = [entry EXCEPT ![m] = "claimed"]
           /\ orphans' = orphans \ {m} /\ run' = [run EXCEPT ![d].at = "refused"]
           /\ UNCHANGED <<queues, activeKeys, pending>>
  <2>1. "refused" \in Stations
    BY DEF Stations
  <2>2. /\ entry' \in [Messages -> {"none", "claimed", "committed"}] /\ entry'[m] = "claimed"
        /\ \A n \in Messages \ {m} : entry'[n] = entry[n] /\ (n \in orphans' <=> n \in orphans)
    BY <1>3, <1>6
  <2>3. /\ d \in DOMAIN run /\ m = run[d].of /\ run[d].at = "claim" /\ entry[m] = "none"
        /\ run' = [run EXCEPT ![d].at = "refused"]
        /\ UNCHANGED <<chatJob, queues, activeKeys, pending, replies, pardons>>
    BY <1>1, <1>4, <1>6
  <2> QED
    BY ONLY RouterInv, <2>1, <2>2, <2>3, OutsideKeeps
<1>7. CASE /\ entry[m] = "none" /\ entry' = [entry EXCEPT ![m] = "claimed"]
           /\ orphans' = orphans \ {m} /\ pending[here] < MaxPendingPerConversation
           /\ pending' = [pending EXCEPT ![here] = @ + 1] /\ Channel!Enqueue(d)
  <2>1. Channel!Drain([queues EXCEPT ![here] = Append(@, d)], activeKeys,
                      [run EXCEPT ![d].at = "queued"])
    BY <1>1, <1>2, <1>7 DEF Channel!Enqueue, Channel!Group
  <2> QED
    BY <1>1, <1>2, <1>4, <1>7, <2>1, EnqueueKeeps
<1>8. CASE /\ entry[m] = "none" /\ entry' = [entry EXCEPT ![m] = "claimed"]
           /\ orphans' = orphans \cup {m} /\ run' = [run EXCEPT ![d].at = "returned"]
           /\ UNCHANGED <<queues, activeKeys, pending>>
  <2>1. "returned" \in Stations
    BY DEF Stations
  <2>2. /\ entry' \in [Messages -> {"none", "claimed", "committed"}] /\ entry'[m] = "claimed"
        /\ \A n \in Messages \ {m} : entry'[n] = entry[n] /\ (n \in orphans' <=> n \in orphans)
        /\ m \in orphans'
    BY <1>3, <1>8
  <2>3. /\ d \in DOMAIN run /\ m = run[d].of /\ run[d].at = "claim" /\ entry[m] = "none"
        /\ run' = [run EXCEPT ![d].at = "returned"]
        /\ UNCHANGED <<chatJob, queues, activeKeys, pending, replies, pardons>>
    BY <1>1, <1>4, <1>8
  <2> QED
    BY ONLY RouterInv, <2>1, <2>2, <2>3, OutsideKeeps
<1> QED
  BY <1>1, <1>2, <1>5, <1>6, <1>7, <1>8
  DEF Channel!Claim, Channel!Unseen, Channel!Group, Channel!Returned

LEMMA RefusedKeeps ==
  ASSUME RouterAssumption, RouterInv, NEW d \in DOMAIN run, Channel!Refused(d)
  PROVE  RouterInv'
<1>1. PICK m : m = run[d].of
  OBVIOUS
<1>2. m \in Messages /\ entry \in [Messages -> {"none", "claimed", "committed"}]
  <2>1. run[d] \in Deliveries
    BY CallsAre DEF RouterInv, RouterShapes
  <2> QED
    BY <1>1, <2>1 DEF Deliveries, RouterInv, RouterShapes
<1>3. /\ run[d].at = "refused" /\ run' = [run EXCEPT ![d].at = "returned"]
      /\ UNCHANGED <<chatJob, queues, activeKeys, pending, replies, pardons>>
  BY DEF Channel!Refused, Channel!Returned
<1>4. /\ entry' \in [Messages -> {"none", "claimed", "committed"}]
      /\ entry'[m] # "claimed" \/ m \in orphans'
      /\ \A n \in Messages \ {m} : entry'[n] = entry[n] /\ (n \in orphans' <=> n \in orphans)
  <2>1. CASE entry' = Channel!Released(m) /\ UNCHANGED orphans
    BY <1>2, <2>1 DEF Channel!Released
  <2>2. CASE UNCHANGED entry /\ orphans' = orphans \cup {m}
    BY <1>2, <2>2
  <2> QED
    BY <1>1, <2>1, <2>2 DEF Channel!Refused
<1>5. "returned" \in Stations
  BY DEF Stations
<1> QED
  BY <1>1, <1>3, <1>4, <1>5, OutsideKeeps

(* What the steps of a delivery at work make of it. *)
LEMMA ToIs ==
  ASSUME RouterInv, NEW d \in DOMAIN run, NEW where \in Channel!Working, Channel!To(d, where)
  PROVE  \E line \in Deliveries :
           /\ line.of = run[d].of /\ line.at = where /\ run' = [run EXCEPT ![d] = line]
           /\ UNCHANGED <<entry, queues, activeKeys, pending, orphans>>
<1> DEFINE line == [run[d] EXCEPT !.at = where]
<1>1. run[d] \in Deliveries
  BY CallsAre DEF RouterInv, RouterShapes
<1>2. line \in Deliveries /\ line.of = run[d].of /\ line.at = where
  BY <1>1 DEF Deliveries, Stations
<1>3. run' = [run EXCEPT ![d] = line] /\ UNCHANGED <<entry, queues, activeKeys, pending, orphans>>
  BY DEF Channel!To
<1> HIDE DEF line
<1> QED
  BY <1>2, <1>3

LEMMA AgainIs ==
  ASSUME RouterAssumption, RouterInv, NEW d \in DOMAIN run, Channel!TryAgain(d)
  PROVE  \E line \in Deliveries :
           /\ line.of = run[d].of /\ line.at \in {"release", "send", "run"}
           /\ run' = [run EXCEPT ![d] = line]
           /\ UNCHANGED <<entry, queues, activeKeys, pending, orphans>>
<1> DEFINE next == IF run[d].attempt = MaxAttempts THEN "release"
                   ELSE IF run[d].answered THEN "send" ELSE "run"
           more == IF run[d].attempt = MaxAttempts THEN run[d].attempt ELSE run[d].attempt + 1
           line == [run[d] EXCEPT !.at = next, !.attempt = more]
<1>1. run[d] \in Deliveries
  BY CallsAre DEF RouterInv, RouterShapes
<1>2. run' = [run EXCEPT ![d] = line] /\ UNCHANGED <<entry, queues, activeKeys, pending, orphans>>
  BY <1>1 DEF Channel!TryAgain, Deliveries
<1>3. next \in {"release", "send", "run"} /\ next \in Stations
  BY DEF Stations, Channel!Working
<1>4. more \in 1..MaxAttempts
  BY <1>1 DEF Deliveries, RouterAssumption
<1> HIDE DEF next, more
<1>5. line \in Deliveries /\ line.of = run[d].of /\ line.at = next
  BY <1>1, <1>3, <1>4 DEF Deliveries
<1> HIDE DEF line
<1> QED
  BY <1>2, <1>3, <1>5

LEMMA HandleKeeps ==
  ASSUME RouterAssumption, RouterInv, NEW d \in DOMAIN run, Channel!Handle(d)
  PROVE  RouterInv'
<1>1. run[d].at = "run" /\ UNCHANGED <<replies, pardons>>
  BY DEF Channel!Handle
<1>2. chatJob' \in [Messages -> {"none", "active", "completed", "failed"}]
  BY DEF Channel!Handle, Channel!Submitted, RouterInv, RouterShapes
<1>3. PICK line \in Deliveries :
        /\ line.of = run[d].of /\ line.at \in {"poll", "release", "send", "run", "drop"}
        /\ run' = [run EXCEPT ![d] = line]
        /\ UNCHANGED <<entry, queues, activeKeys, pending, orphans>>
  <2>1. Channel!To(d, "poll") \/ Channel!TryAgain(d) \/ Channel!To(d, "drop")
    BY DEF Channel!Handle
  <2>2. "poll" \in Channel!Working /\ "drop" \in Channel!Working
    BY DEF Channel!Working
  <2> QED
    BY <2>1, <2>2, ToIs, AgainIs
<1>4. line.at \in Channel!Working /\ run[d].at \in Channel!Working
      /\ Hope(line.at) <= Hope(run[d].at)
  BY <1>1, <1>3 DEF Channel!Working, Hope, Hoping
<1>5. PICK m : m = run[d].of /\ m = line.of
  BY <1>3
<1>6. m \in Messages /\ replies \in [Messages -> Nat] /\ pardons \in [Messages -> Nat]
  BY <1>5 DEF Deliveries, RouterInv, RouterShapes
<1>7. replies'[m] + Hope(line.at) + pardons[m] <= replies[m] + Hope(run[d].at) + pardons'[m]
  BY <1>1, <1>4, <1>6 DEF Hope
<1> QED
  BY <1>1, <1>2, <1>3, <1>4, <1>5, <1>6, <1>7, WorkingKeeps

LEMMA PollKeeps ==
  ASSUME RouterAssumption, RouterInv, NEW d \in DOMAIN run, Channel!Poll(d)
  PROVE  RouterInv'
<1>1. run[d].at = "poll" /\ UNCHANGED <<chatJob, replies, pardons>>
  BY DEF Channel!Poll
<1>2. chatJob' \in [Messages -> {"none", "active", "completed", "failed"}]
  BY <1>1 DEF RouterInv, RouterShapes
<1>3. PICK line \in Deliveries :
        /\ line.of = run[d].of /\ line.at \in {"release", "send", "run", "drop"}
        /\ run' = [run EXCEPT ![d] = line]
        /\ UNCHANGED <<entry, queues, activeKeys, pending, orphans>>
  <2>1. CASE /\ run' = [run EXCEPT ![d].at = "send", ![d].answered = TRUE]
             /\ UNCHANGED <<entry, queues, activeKeys, pending, mishaps, orphans>>
    <3> DEFINE line == [run[d] EXCEPT !.at = "send", !.answered = TRUE]
    <3>1. run[d] \in Deliveries
      BY CallsAre DEF RouterInv, RouterShapes
    <3>2. line \in Deliveries /\ line.of = run[d].of /\ line.at = "send"
      BY <3>1 DEF Deliveries, Stations, Channel!Working
    <3>3. run' = [run EXCEPT ![d] = line]
      BY <2>1, <3>1 DEF Deliveries
    <3> HIDE DEF line
    <3> QED
      BY <2>1, <3>2, <3>3
  <2>2. CASE Channel!To(d, "drop")
    BY <2>2, ToIs DEF Channel!Working
  <2>3. CASE Channel!TryAgain(d)
    BY <2>3, AgainIs
  <2> QED
    BY <2>1, <2>2, <2>3 DEF Channel!Poll
<1>4. line.at \in Channel!Working /\ run[d].at \in Channel!Working
      /\ Hope(line.at) <= Hope(run[d].at)
  BY <1>1, <1>3 DEF Channel!Working, Hope, Hoping
<1>5. PICK m : m = run[d].of /\ m = line.of
  BY <1>3
<1>6. m \in Messages /\ replies \in [Messages -> Nat] /\ pardons \in [Messages -> Nat]
  BY <1>5 DEF Deliveries, RouterInv, RouterShapes
<1>7. replies'[m] + Hope(line.at) + pardons[m] <= replies[m] + Hope(run[d].at) + pardons'[m]
  BY <1>1, <1>4, <1>6 DEF Hope
<1> QED
  BY <1>1, <1>2, <1>3, <1>4, <1>5, <1>6, <1>7, WorkingKeeps

LEMMA SendKeeps ==
  ASSUME RouterAssumption, RouterInv, NEW d \in DOMAIN run, Channel!Send(d)
  PROVE  RouterInv'
<1>1. PICK m : m = run[d].of
  OBVIOUS
<1>2. /\ m \in Messages /\ replies \in [Messages -> Nat] /\ pardons \in [Messages -> Nat]
      /\ chatJob \in [Messages -> {"none", "active", "completed", "failed"}]
  <2>1. run[d] \in Deliveries
    BY CallsAre DEF RouterInv, RouterShapes
  <2> QED
    BY <1>1, <2>1 DEF Deliveries, RouterInv, RouterShapes
<1>3. run[d].at = "send" /\ UNCHANGED chatJob
  BY DEF Channel!Send
<1>4. \/ /\ replies' = [replies EXCEPT ![m] = @ + 1] /\ UNCHANGED pardons /\ Channel!To(d, "sent")
      \/ /\ \/ UNCHANGED <<replies, pardons>>
            \/ /\ replies' = [replies EXCEPT ![m] = @ + 1]
               /\ pardons' = [pardons EXCEPT ![m] = @ + 1]
         /\ Channel!TryAgain(d) \/ Channel!To(d, "drop")
  BY <1>1 DEF Channel!Send
<1>5. PICK line \in Deliveries :
        /\ line.of = m /\ run' = [run EXCEPT ![d] = line]
        /\ UNCHANGED <<entry, queues, activeKeys, pending, orphans>>
        /\ line.at \in Channel!Working
        /\ \/ /\ line.at = "sent"
              /\ replies' = [replies EXCEPT ![m] = @ + 1] /\ UNCHANGED pardons
           \/ /\ UNCHANGED <<replies, pardons>>
           \/ /\ replies' = [replies EXCEPT ![m] = @ + 1]
              /\ pardons' = [pardons EXCEPT ![m] = @ + 1]
  <2>1. CASE /\ replies' = [replies EXCEPT ![m] = @ + 1] /\ UNCHANGED pardons
             /\ Channel!To(d, "sent")
    BY <1>1, <2>1, ToIs DEF Channel!Working
  <2>2. CASE /\ \/ UNCHANGED <<replies, pardons>>
                \/ /\ replies' = [replies EXCEPT ![m] = @ + 1]
                   /\ pardons' = [pardons EXCEPT ![m] = @ + 1]
             /\ Channel!TryAgain(d) \/ Channel!To(d, "drop")
    <3>1. \E line \in Deliveries :
            /\ line.of = m /\ run' = [run EXCEPT ![d] = line]
            /\ UNCHANGED <<entry, queues, activeKeys, pending, orphans>>
            /\ line.at \in Channel!Working
      BY <1>1, <2>2, ToIs, AgainIs DEF Channel!Working
    <3> QED
      BY <2>2, <3>1
  <2> QED
    BY <1>4, <2>1, <2>2
<1>6. /\ replies' \in [Messages -> Nat] /\ pardons' \in [Messages -> Nat]
      /\ \A n \in Messages \ {m} : replies'[n] = replies[n] /\ pardons'[n] = pardons[n]
      /\ pardons'[m] = 0 => pardons[m] = 0
  BY <1>2, <1>5
<1>7. Hope("send") = 1 /\ Hope("sent") = 0 /\ Hope(line.at) \in {0, 1}
  BY DEF Hope, Hoping
<1>8. replies'[m] + Hope(line.at) + pardons[m] <= replies[m] + Hope(run[d].at) + pardons'[m]
  <2>1. CASE line.at = "sent" /\ replies' = [replies EXCEPT ![m] = @ + 1] /\ UNCHANGED pardons
    BY <1>2, <1>3, <1>7, <2>1
  <2>2. CASE UNCHANGED <<replies, pardons>>
    BY <1>2, <1>3, <1>7, <2>2
  <2>3. CASE /\ replies' = [replies EXCEPT ![m] = @ + 1]
             /\ pardons' = [pardons EXCEPT ![m] = @ + 1]
    BY <1>2, <1>3, <1>7, <2>3
  <2> QED
    BY <1>5, <2>1, <2>2, <2>3
<1>9. run[d].at \in Channel!Working
  BY <1>3 DEF Channel!Working
<1> QED
  BY <1>1, <1>2, <1>3, <1>5, <1>6, <1>8, <1>9, WorkingKeeps

(* What the two ends of a delivery make of its entry. *)
LEMMA EntriesAre ==
  ASSUME RouterInv, NEW d \in DOMAIN run, NEW m, m = run[d].of,
         NEW entries \in {Channel!Committed(m), Channel!Released(m)}
  PROVE  /\ m \in Messages /\ entries \in [Messages -> {"none", "claimed", "committed"}]
         /\ \A n \in Messages \ {m} : entries[n] = entry[n]
         /\ entries[m] # "claimed"
         /\ entries = Channel!Committed(m) => Vacant(entries[m]) <= Vacant(entry[m])
         /\ Vacant(entries[m]) \in {0, 1} /\ Vacant(entry[m]) \in {0, 1}
<1>1. m \in Messages /\ entry \in [Messages -> {"none", "claimed", "committed"}]
  <2>1. run[d] \in Deliveries
    BY CallsAre DEF RouterInv, RouterShapes
  <2> QED
    BY <2>1 DEF Deliveries, RouterInv, RouterShapes
<1>2. Vacant(entries[m]) \in {0, 1} /\ Vacant(entry[m]) \in {0, 1}
  BY DEF Vacant
<1>3. CASE entries = Channel!Committed(m)
  BY <1>1, <1>2, <1>3 DEF Channel!Committed, Vacant
<1>4. CASE entries = Channel!Released(m) /\ entries # Channel!Committed(m)
  BY <1>1, <1>2, <1>4 DEF Channel!Released
<1> QED
  BY <1>3, <1>4

LEMMA CommitKeeps ==
  ASSUME RouterAssumption, RouterInv, NEW d \in DOMAIN run, Channel!Commit(d)
  PROVE  RouterInv'
<1>1. PICK m : m = run[d].of
  OBVIOUS
<1>2. run[d].at = "sent" /\ "sent" \in Channel!Working /\ "drop" \in Channel!Working
  BY DEF Channel!Commit, Channel!Working
<1>3. CASE Channel!Finish(d, Channel!Committed(m))
  <2> DEFINE entries == Channel!Committed(m)
  <2>1. /\ entries \in [Messages -> {"none", "claimed", "committed"}]
        /\ \A n \in Messages \ {m} : entries[n] = entry[n]
        /\ entries[m] # "claimed" /\ Vacant(entries[m]) <= Vacant(entry[m])
        /\ Vacant(entries[m]) \in {0, 1} /\ Vacant(entry[m]) \in {0, 1}
    BY <1>1, EntriesAre
  <2>2. Channel!Finish(d, entries)
    BY <1>3
  <2> HIDE DEF entries
  <2>3. Vacant(entries[m]) <= Hope(run[d].at) + Vacant(entry[m])
    BY <2>1 DEF Hope
  <2> QED
    BY <1>1, <1>2, <2>1, <2>2, <2>3, FinishKeeps
<1>4. CASE Channel!To(d, "drop") /\ UNCHANGED <<chatJob, replies, pardons>>
  <2>1. PICK line \in Deliveries :
          /\ line.of = m /\ line.at = "drop" /\ run' = [run EXCEPT ![d] = line]
          /\ UNCHANGED <<entry, queues, activeKeys, pending, orphans>>
    BY <1>1, <1>2, <1>4, ToIs
  <2>2. /\ m \in Messages /\ replies \in [Messages -> Nat] /\ pardons \in [Messages -> Nat]
        /\ chatJob' \in [Messages -> {"none", "active", "completed", "failed"}]
    BY <1>4, <2>1 DEF Deliveries, RouterInv, RouterShapes
  <2>3. replies'[m] + Hope(line.at) + pardons[m] <= replies[m] + Hope(run[d].at) + pardons'[m]
    BY <1>2, <1>4, <2>1, <2>2 DEF Hope, Hoping
  <2> QED
    BY <1>1, <1>2, <1>4, <2>1, <2>2, <2>3, WorkingKeeps
<1> QED
  BY <1>1, <1>3, <1>4 DEF Channel!Commit

LEMMA DropKeeps ==
  ASSUME RouterAssumption, RouterInv, NEW d \in DOMAIN run, Channel!Drop(d)
  PROVE  RouterInv'
<1>1. PICK m : m = run[d].of
  OBVIOUS
<1>2. run[d].at = "drop" /\ run[d].at \in Channel!Working
  BY DEF Channel!Drop, Channel!Working
<1> DEFINE entries == Channel!Committed(m)
<1>3. /\ entries \in [Messages -> {"none", "claimed", "committed"}]
      /\ \A n \in Messages \ {m} : entries[n] = entry[n]
      /\ entries[m] # "claimed" /\ Vacant(entries[m]) <= Vacant(entry[m])
      /\ Vacant(entries[m]) \in {0, 1} /\ Vacant(entry[m]) \in {0, 1}
  BY <1>1, EntriesAre
<1>4. Channel!Finish(d, entries)
  BY <1>1 DEF Channel!Drop
<1> HIDE DEF entries
<1>5. Vacant(entries[m]) <= Hope(run[d].at) + Vacant(entry[m])
  BY <1>3 DEF Hope
<1> QED
  BY <1>1, <1>2, <1>3, <1>4, <1>5, FinishKeeps

LEMMA ReleaseKeeps ==
  ASSUME RouterAssumption, RouterInv, NEW d \in DOMAIN run, Channel!Release(d)
  PROVE  RouterInv'
<1>1. PICK m : m = run[d].of
  OBVIOUS
<1>2. run[d].at = "release" /\ run[d].at \in Channel!Working
  BY DEF Channel!Release, Channel!Working
<1> DEFINE entries == Channel!Released(m)
<1>3. /\ entries \in [Messages -> {"none", "claimed", "committed"}]
      /\ \A n \in Messages \ {m} : entries[n] = entry[n]
      /\ entries[m] # "claimed"
      /\ Vacant(entries[m]) \in {0, 1} /\ Vacant(entry[m]) \in {0, 1}
  BY <1>1, EntriesAre
<1>4. Channel!Finish(d, entries)
  BY <1>1 DEF Channel!Release
<1> HIDE DEF entries
<1>5. Vacant(entries[m]) <= Hope(run[d].at) + Vacant(entry[m])
  BY <1>2, <1>3 DEF Hope, Hoping
<1> QED
  BY <1>1, <1>2, <1>3, <1>4, <1>5, FinishKeeps

LEMMA RouterStep ==
  ASSUME RouterAssumption, RouterInv, [Channel!Next]_Channel!vars
  PROVE  RouterInv'
<1>1. ASSUME NEW m \in Messages, Channel!Deliver(m) \/ Channel!Lapse(m) \/ Channel!JobEnds(m)
      PROVE  RouterInv'
  BY <1>1, DeliverKeeps, LapseKeeps, JobEndsKeeps
<1>2. ASSUME NEW d \in DOMAIN run, Channel!Work(d) PROVE RouterInv'
  BY <1>2, ClaimKeeps, RefusedKeeps, HandleKeeps, PollKeeps, SendKeeps, CommitKeeps, DropKeeps,
     ReleaseKeeps
  DEF Channel!Work
<1>3. Channel!Calls = DOMAIN run
  BY CallsAre DEF Channel!Calls, RouterInv, RouterShapes
<1>4. CASE Channel!Crash
  BY <1>4, CrashKeeps
<1>5. CASE UNCHANGED Channel!vars
  <2>1. UNCHANGED <<entry, chatJob, run, queues, activeKeys, pending, replies, pardons, orphans>>
    BY <1>5 DEF Channel!vars
  <2>2. RouterShapes'
    BY <2>1 DEF RouterInv, RouterShapes
  <2>3. \A c \in Conversations :
          Waiting(queues, run, c)' /\ Manned(queues, activeKeys, run, pending, c)'
    BY <2>1 DEF RouterInv, Waiting, Manned, Workers
  <2>4. \A m \in Messages : Answered(m)' /\ Claimed(m)'
    BY <2>1 DEF RouterInv, Answered, Claimed, Among
  <2> QED
    BY <2>2, <2>3, <2>4 DEF RouterInv
<1> QED
  BY <1>1, <1>2, <1>3, <1>4, <1>5 DEF Channel!Next

(* What the invariant says of replies, claims and counts. *)
LEMMA RouterFollows ==
  ASSUME RouterAssumption, RouterInv
  PROVE  /\ Channel!TypeOK /\ Channel!RepliedOnce /\ Channel!ClaimsHeld /\ Channel!CountsTrue
<1>1. /\ run \in Seq(Deliveries) /\ Channel!Calls = DOMAIN run
      /\ \A d \in DOMAIN run : run[d] \in Deliveries
      /\ replies \in [Messages -> Nat] /\ pardons \in [Messages -> Nat]
      /\ IsFiniteSet(DOMAIN run)
  <2>1. run \in Seq(Deliveries) /\ replies \in [Messages -> Nat] /\ pardons \in [Messages -> Nat]
    BY DEF RouterInv, RouterShapes
  <2> QED
    BY <2>1, CallsAre DEF Channel!Calls
<1>2. Channel!TypeOK
  <2>1. Cardinality(activeKeys) = Channel!Cardinality(activeKeys)
    BY RouterCount
  <2>2. Channel!Cardinality(activeKeys) <= MaxConcurrency
    BY <2>1 DEF RouterInv, RouterShapes
  <2>3. queues \in [Conversations -> Seq(Channel!Calls)]
    BY <1>1 DEF RouterInv, RouterShapes
  <2>4. ASSUME NEW d \in Channel!Calls
        PROVE  run[d] \in [at : {"claim", "refused", "queued"} \cup Channel!Working \cup {"returned"},
                           of : Messages, attempt : 1..MaxAttempts, answered : BOOLEAN]
    BY <1>1 DEF Deliveries, Stations
  <2> QED
    BY <2>2, <2>3, <2>4 DEF RouterInv, RouterShapes, Channel!TypeOK
<1>3. Channel!RepliedOnce
  <2>1. ASSUME NEW m \in Messages PROVE replies[m] <= 1 + pardons[m]
    <3>1. replies[m] + Cardinality(Among(run, m, Hoping)) + Vacant(entry[m]) <= 1 + pardons[m]
      BY DEF RouterInv, Answered, Vacant
    <3>2. IsFiniteSet(Among(run, m, Hoping))
      BY <1>1, FS_Subset DEF Among
    <3>3. Cardinality(Among(run, m, Hoping)) \in Nat
      BY <3>2, FS_CardinalityType
    <3>4. Vacant(entry[m]) \in Nat /\ replies[m] \in Nat /\ pardons[m] \in Nat
      BY <1>1 DEF Vacant
    <3> QED
      BY <3>1, <3>3, <3>4
  <2> QED
    BY <2>1 DEF Channel!RepliedOnce
<1>4. Channel!ClaimsHeld
  <2>1. ASSUME NEW m \in Messages
        PROVE  /\ entry[m] = "claimed" =>
                    m \in orphans
                    \/ \E d \in Channel!OfMessage(m) : Channel!Live(d) \/ run[d].at = "refused"
               /\ pardons[m] = 0 =>
                    \A d, e \in Channel!OfMessage(m) :
                      Channel!Live(d) /\ Channel!Live(e) => d = e
    <3>1. Claimed(m)
      BY DEF RouterInv
    <3>2. \A d : d \in Among(run, m, Holding) <=>
                   /\ d \in Channel!OfMessage(m)
                   /\ Channel!Live(d) \/ run[d].at = "refused"
      BY <1>1 DEF Among, Holding, Channel!OfMessage, Channel!Live
    <3>3. entry[m] = "claimed" =>
            \/ m \in orphans
            \/ \E d \in Channel!OfMessage(m) : Channel!Live(d) \/ run[d].at = "refused"
      BY <3>1, <3>2 DEF Claimed
    <3>4. pardons[m] = 0 =>
            \A d, e \in Channel!OfMessage(m) : Channel!Live(d) /\ Channel!Live(e) => d = e
      BY <3>1, <3>2 DEF Claimed
    <3> QED
      BY <3>3, <3>4
  <2> QED
    BY <2>1 DEF Channel!ClaimsHeld
<1>5. Channel!CountsTrue
  <2>1. ASSUME NEW c \in Conversations
        PROVE  LET working == {d \in Channel!Calls : Channel!Group(d) = c
                                                     /\ run[d].at \in Channel!Working}
               IN  /\ pending[c] = Len(queues[c]) + Channel!Cardinality(working)
                   /\ Channel!Cardinality(working) = IF c \in activeKeys THEN 1 ELSE 0
    <3>1. Manned(queues, activeKeys, run, pending, c)
      BY DEF RouterInv
    <3>2. {d \in Channel!Calls : Channel!Group(d) = c /\ run[d].at \in Channel!Working}
            = Workers(run, c)
      BY <1>1 DEF Channel!Group, Workers
    <3>3. Len(queues[c]) \in Nat
      BY LenProperties DEF RouterInv, RouterShapes
    <3>4. Channel!Cardinality(Workers(run, c)) = Cardinality(Workers(run, c))
      BY RouterCount
    <3>5. CASE c \in activeKeys
      <4>1. PICK d : Workers(run, c) = {d}
        BY <3>1, <3>5 DEF Manned
      <4>2. Cardinality(Workers(run, c)) = 1
        BY <4>1, FS_Singleton
      <4>3. pending[c] = Len(queues[c]) + 1
        BY <3>1, <3>5 DEF Manned
      <4> QED
        BY <3>2, <3>4, <3>5, <4>2, <4>3
    <3>6. CASE c \notin activeKeys
      <4>1. Workers(run, c) = {} /\ pending[c] = Len(queues[c])
        BY <3>1, <3>6 DEF Manned
      <4>2. Cardinality(Workers(run, c)) = 0
        BY <4>1, FS_EmptySet
      <4>3. pending[c] = Len(queues[c]) + 0
        BY <3>3, <4>1
      <4> QED
        BY <3>2, <3>4, <3>6, <4>2, <4>3
    <3> QED
      BY <3>5, <3>6
  <2> QED
    BY <2>1 DEF Channel!CountsTrue
<1> QED
  BY <1>2, <1>3, <1>4, <1>5

LEMMA RouterInvHolds == ASSUME RouterAssumption PROVE Channel!Spec => []RouterInv
<1>1. Channel!Init => RouterInv
  BY RouterInit
<1>2. RouterInv /\ [Channel!Next]_Channel!vars => RouterInv'
  BY RouterStep
<1> QED
  BY <1>1, <1>2, PTL DEF Channel!Spec

(* Entries, calls and queues keep their shapes, and no more conversations    *)
(* are active than may be (parseDedupeState, drain).                         *)
THEOREM RouterTypesHold == ASSUME RouterAssumption PROVE Channel!Spec => []Channel!TypeOK
<1>1. RouterInv => Channel!TypeOK
  BY RouterFollows
<1> QED
  BY <1>1, RouterInvHolds, PTL

(* However deliveries, retries, lapses and crashes interleave, a message is  *)
(* answered once, but for a claim that lapsed and a send that failed though  *)
(* it got through (run: handlerCompleted, commit, release).                  *)
THEOREM RepliedOnceHolds ==
  ASSUME RouterAssumption PROVE Channel!Spec => []Channel!RepliedOnce
<1>1. RouterInv => Channel!RepliedOnce
  BY RouterFollows
<1> QED
  BY <1>1, RouterInvHolds, PTL

(* A claim is held by a delivery, or was left by a process that died or by a *)
(* write of the dedupe file that threw; while none lapsed, it is held by one *)
(* (enqueue, run).                                                           *)
THEOREM ClaimsHeldHolds ==
  ASSUME RouterAssumption PROVE Channel!Spec => []Channel!ClaimsHeld
<1>1. RouterInv => Channel!ClaimsHeld
  BY RouterFollows
<1> QED
  BY <1>1, RouterInvHolds, PTL

(* A conversation's count is what waits in its queue and what is at work,    *)
(* one at a time, so it never closes for good (drain).                       *)
THEOREM CountsTrueHolds ==
  ASSUME RouterAssumption PROVE Channel!Spec => []Channel!CountsTrue
<1>1. RouterInv => Channel!CountsTrue
  BY RouterFollows
<1> QED
  BY <1>1, RouterInvHolds, PTL
---------------------------------------------------------------------------
(* The two locks: FileLocksProofs speaks of each.                            *)

ApprovalLocks == INSTANCE FileLocksProofs WITH Processes <- Lockers, RecoversTorn <- TRUE
StateLocks == INSTANCE FileLocksProofs WITH Processes <- Lockers, RecoversTorn <- FALSE

LockersAssumption == "none" \notin Lockers /\ MaxDeaths \in Nat

LEMMA ApprovalLockInit == ASSUME LockersAssumption, ApprovalLock!Init PROVE ApprovalLocks!IInv
<1>1. ApprovalLocks!Init
  BY DEF ApprovalLock!Init, ApprovalLocks!Init, ApprovalLock!Paths, ApprovalLocks!Paths,
     ApprovalLock!NoFile, ApprovalLocks!NoFile, ApprovalLock!Lock, ApprovalLocks!Lock
<1> QED
  BY <1>1, ApprovalLocks!InitInv DEF LockersAssumption, ApprovalLocks!LocksAssumption

LEMMA ApprovalLockStep ==
  ASSUME LockersAssumption, ApprovalLocks!IInv, [ApprovalLock!Next]_ApprovalLock!vars
  PROVE  ApprovalLocks!IInv'
<1>1. [ApprovalLocks!Next]_ApprovalLocks!vars
  BY DEF ApprovalLock!Next, ApprovalLocks!Next, ApprovalLock!vars, ApprovalLocks!vars,
     ApprovalLock!Open, ApprovalLocks!Open, ApprovalLock!Write, ApprovalLocks!Write,
     ApprovalLock!Leave, ApprovalLocks!Leave, ApprovalLock!Release, ApprovalLocks!Release,
     ApprovalLock!Recovery, ApprovalLocks!Recovery, ApprovalLock!FindStale,
     ApprovalLocks!FindStale, ApprovalLock!CreateMarker, ApprovalLocks!CreateMarker,
     ApprovalLock!Descend, ApprovalLocks!Descend, ApprovalLock!MarkerTaken,
     ApprovalLocks!MarkerTaken, ApprovalLock!WriteMarker, ApprovalLocks!WriteMarker,
     ApprovalLock!Check, ApprovalLocks!Check, ApprovalLock!Move, ApprovalLocks!Move,
     ApprovalLock!Unmark, ApprovalLocks!Unmark, ApprovalLock!Die, ApprovalLocks!Die,
     ApprovalLock!Abandoned, ApprovalLocks!Abandoned, ApprovalLock!StillThere,
     ApprovalLocks!StillThere, ApprovalLock!Stale, ApprovalLocks!Stale, ApprovalLock!Go,
     ApprovalLocks!Go, ApprovalLock!Target, ApprovalLocks!Target, ApprovalLock!Expected,
     ApprovalLocks!Expected, ApprovalLock!Nameless, ApprovalLocks!Nameless,
     ApprovalLock!Named, ApprovalLocks!Named, ApprovalLock!NoFile, ApprovalLocks!NoFile,
     ApprovalLock!Lock, ApprovalLocks!Lock
<1> QED
  BY <1>1, ApprovalLocks!NextInv DEF LockersAssumption, ApprovalLocks!LocksAssumption

LEMMA ApprovalLockFollows ==
  ASSUME ApprovalLocks!IInv PROVE ApprovalLock!LockExclusive /\ ApprovalLock!TypeOK
<1>1. ApprovalLock!LockExclusive
  BY DEF ApprovalLocks!IInv, ApprovalLocks!Owns, ApprovalLocks!HasLock, ApprovalLocks!HasMarker, ApprovalLocks!Lock, ApprovalLock!Lock,
     ApprovalLock!LockExclusive
<1>2. ApprovalLocks!TypeOK
  BY ApprovalLocks!ShapesFollow
<1>3. ApprovalLock!TypeOK
  BY <1>2 DEF ApprovalLock!TypeOK, ApprovalLocks!TypeOK, ApprovalLock!Paths, ApprovalLocks!Paths, ApprovalLock!NoFile, ApprovalLocks!NoFile,
     ApprovalLock!Nameless, ApprovalLocks!Nameless, ApprovalLock!Named, ApprovalLocks!Named, ApprovalLock!Lock, ApprovalLocks!Lock
<1> QED
  BY <1>1, <1>3

LEMMA StateLockInit == ASSUME LockersAssumption, StateLock!Init PROVE StateLocks!IInv
<1>1. StateLocks!Init
  BY DEF StateLock!Init, StateLocks!Init, StateLock!Paths, StateLocks!Paths,
     StateLock!NoFile, StateLocks!NoFile, StateLock!Lock, StateLocks!Lock
<1> QED
  BY <1>1, StateLocks!InitInv DEF LockersAssumption, StateLocks!LocksAssumption

LEMMA StateLockStep ==
  ASSUME LockersAssumption, StateLocks!IInv, [StateLock!Next]_StateLock!vars
  PROVE  StateLocks!IInv'
<1>1. [StateLocks!Next]_StateLocks!vars
  BY DEF StateLock!Next, StateLocks!Next, StateLock!vars, StateLocks!vars,
     StateLock!Open, StateLocks!Open, StateLock!Write, StateLocks!Write,
     StateLock!Leave, StateLocks!Leave, StateLock!Release, StateLocks!Release,
     StateLock!Recovery, StateLocks!Recovery, StateLock!FindStale,
     StateLocks!FindStale, StateLock!CreateMarker, StateLocks!CreateMarker,
     StateLock!Descend, StateLocks!Descend, StateLock!MarkerTaken,
     StateLocks!MarkerTaken, StateLock!WriteMarker, StateLocks!WriteMarker,
     StateLock!Check, StateLocks!Check, StateLock!Move, StateLocks!Move,
     StateLock!Unmark, StateLocks!Unmark, StateLock!Die, StateLocks!Die,
     StateLock!Abandoned, StateLocks!Abandoned, StateLock!StillThere,
     StateLocks!StillThere, StateLock!Stale, StateLocks!Stale, StateLock!Go,
     StateLocks!Go, StateLock!Target, StateLocks!Target, StateLock!Expected,
     StateLocks!Expected, StateLock!Nameless, StateLocks!Nameless,
     StateLock!Named, StateLocks!Named, StateLock!NoFile, StateLocks!NoFile,
     StateLock!Lock, StateLocks!Lock
<1> QED
  BY <1>1, StateLocks!NextInv DEF LockersAssumption, StateLocks!LocksAssumption

LEMMA StateLockFollows ==
  ASSUME StateLocks!IInv PROVE StateLock!LockExclusive /\ StateLock!TypeOK
<1>1. StateLock!LockExclusive
  BY DEF StateLocks!IInv, StateLocks!Owns, StateLocks!HasLock, StateLocks!HasMarker, StateLocks!Lock, StateLock!Lock,
     StateLock!LockExclusive
<1>2. StateLocks!TypeOK
  BY StateLocks!ShapesFollow
<1>3. StateLock!TypeOK
  BY <1>2 DEF StateLock!TypeOK, StateLocks!TypeOK, StateLock!Paths, StateLocks!Paths, StateLock!NoFile, StateLocks!NoFile,
     StateLock!Nameless, StateLocks!Nameless, StateLock!Named, StateLocks!Named, StateLock!Lock, StateLocks!Lock
<1> QED
  BY <1>1, <1>3

---------------------------------------------------------------------------
(* The installation, on Unix and on Windows: InstallerProofs speaks of each. *)

Units == INSTANCE InstallerProofs WITH
  Versions <- UnixVersions, First <- UnixFirst, Windows <- FALSE, MaxRuns <- UnixRuns,
  MaxFaults <- InstallFaults, MaxAttempts <- ActivationAttempts,
  staging <- copying, marker <- activation, lock <- installLock, faults <- failures
Deferrals == INSTANCE InstallerProofs WITH
  Versions <- WindowsVersions, First <- WindowsFirst, Windows <- TRUE, MaxRuns <- WindowsRuns,
  MaxFaults <- InstallFaults, MaxAttempts <- ActivationAttempts,
  staging <- copying, marker <- activation, lock <- installLock, faults <- failures

(* The versions are numbered from 1, and names of activations are no other words. *)
InstallationAssumption ==
  /\ UnixVersions \subseteq Nat \ {0} /\ UnixFirst \in UnixVersions \cup {0}
  /\ WindowsVersions \subseteq Nat \ {0} /\ WindowsFirst \in WindowsVersions \cup {0}
  /\ Commands \cap Tokens = {} /\ {"none", "plain", "defer"} \cap Tokens = {}
  /\ InstallFaults \in Nat

LEMMA UnixSame == InstallationAssumption => Units!InstallerAssumption
  BY DEF InstallationAssumption, Units!InstallerAssumption

LEMMA UnixInit ==
  ASSUME InstallationAssumption, Unix!Init PROVE Units!IInv /\ Units!KInv
<1>1. Units!Init
  BY DEF Unix!Init, Units!Init, Unix!None, Units!None, Unix!Unlocked, Units!Unlocked,
     Unix!Idle, Units!Idle, Unix!Processes, Units!Processes
<1> QED
  BY <1>1, UnixSame, Units!InitInv, Units!ToldInit

LEMMA UnixNext == [Unix!Next]_Unix!vars => [Units!Next]_Units!vars
  BY DEF Unix!files, Units!files, Unix!ghosts, Units!ghosts, Unix!vars, Units!vars,
     Unix!Processes, Units!Processes, Unix!None, Units!None, Unix!Missing, Units!Missing,
     Unix!Idle, Units!Idle, Unix!Pid, Units!Pid, Unix!Alive, Units!Alive, Unix!Unlocked,
     Units!Unlocked, Unix!Init, Units!Init, Unix!Go, Units!Go, Unix!At, Units!At, Unix!Keeps,
     Units!Keeps, Unix!Recovered, Units!Recovered, Unix!Unread, Units!Unread, Unix!Acquire,
     Units!Acquire, Unix!SeeStale, Units!SeeStale, Unix!TakeStale, Units!TakeStale, Unix!Fails,
     Units!Fails, Unix!Refused, Units!Refused, Unix!Release, Units!Release, Unix!Own,
     Units!Own, Unix!AfterReconcile, Units!AfterReconcile, Unix!Waits, Units!Waits,
     Unix!NothingPending, Units!NothingPending, Unix!Admitted, Units!Admitted, Unix!BeginApply,
     Units!BeginApply, Unix!ApplyLaunchers, Units!ApplyLaunchers, Unix!Points, Units!Points,
     Unix!ApplyPointer, Units!ApplyPointer, Unix!Legacy, Units!Legacy, Unix!ApplyRecord,
     Units!ApplyRecord, Unix!ApplyPlain, Units!ApplyPlain, Unix!ApplyRetire, Units!ApplyRetire,
     Unix!Stage, Units!Stage, Unix!Place, Units!Place, Unix!Deferred, Units!Deferred,
     Unix!Read, Units!Read, Unix!Fresh, Units!Fresh, Unix!Retire, Units!Retire, Unix!Launch,
     Units!Launch, Unix!Marker, Units!Marker, Unix!Mark, Units!Mark, Unix!Point, Units!Point,
     Unix!Record, Units!Record, Unix!Clear, Units!Clear, Unix!Spawn, Units!Spawn,
     Unix!Uninstall, Units!Uninstall, Unix!Runs, Units!Runs, Unix!Deferral, Units!Deferral,
     Unix!UpdateApplication, Units!UpdateApplication, Unix!RollbackApplication,
     Units!RollbackApplication, Unix!Install, Units!Install, Unix!UninstallApplication,
     Units!UninstallApplication, Unix!StartProgram, Units!StartProgram, Unix!Report,
     Units!Report, Unix!RollBack, Units!RollBack, Unix!Await, Units!Await, Unix!Applying,
     Units!Applying, Unix!Writing, Units!Writing, Unix!WriteFails, Units!WriteFails, Unix!Die,
     Units!Die, Unix!CommandNext, Units!CommandNext, Unix!ProcessNext, Units!ProcessNext,
     Unix!Next, Units!Next

LEMMA UnixStep ==
  ASSUME InstallationAssumption, Units!IInv, Units!KInv, [Unix!Next]_Unix!vars
  PROVE  Units!IInv' /\ Units!KInv'
<1>1. [Units!Next]_Units!vars
  BY UnixNext
<1> QED
  BY <1>1, UnixSame, Units!InstallerStep, Units!ToldStep

(* What is reported, of a step. *)
LEMMA UnixTells ==
  ASSUME InstallationAssumption, Units!IInv, Units!KInv, Unix!Next
  PROVE  Unix!InstallTold
<1>1. Units!UpdateTold
  BY Units!UpdatesTell
<1>2. [Units!Next]_Units!vars
  BY UnixNext
<1>3. Units!LateQuiet
  BY <1>2, UnixSame, Units!LateKeepsQuiet
<1>4. Unix!UpdateTold
  BY <1>1 DEF Unix!UpdateTold, Units!UpdateTold, Unix!At, Units!At
<1>5. Unix!LateQuiet
  BY <1>3 DEF Unix!LateQuiet, Units!LateQuiet, Unix!At, Units!At, Unix!Processes, Units!Processes
<1> QED
  BY <1>4, <1>5 DEF Unix!InstallTold

LEMMA UnixFollows ==
  ASSUME InstallationAssumption, Units!IInv
  PROVE  Unix!InstallationSound /\ Unix!TypeOK
<1>1. Units!InstallationSound /\ Units!TypeOK
  BY UnixSame, Units!SoundHolds, Units!TypesHold
<1>2. Unix!InstallationSound
  BY <1>1 DEF Unix!InstallationSound, Units!InstallationSound, Unix!Launchable, Units!Launchable,
     Unix!RollbackTarget, Units!RollbackTarget, Unix!UninstallFinal, Units!UninstallFinal,
     Unix!Recovered, Units!Recovered, Unix!Unlocked, Units!Unlocked, Unix!Missing,
     Units!Missing, Unix!None, Units!None
<1>3. Unix!TypeOK
  BY <1>1 DEF Unix!TypeOK, Units!TypeOK
<1> QED
  BY <1>2, <1>3

LEMMA WindowsSame == InstallationAssumption => Deferrals!InstallerAssumption
  BY DEF InstallationAssumption, Deferrals!InstallerAssumption

LEMMA WindowsInit ==
  ASSUME InstallationAssumption, Deferred!Init PROVE Deferrals!IInv /\ Deferrals!KInv
<1>1. Deferrals!Init
  BY DEF Deferred!Init, Deferrals!Init, Deferred!None, Deferrals!None, Deferred!Unlocked,
     Deferrals!Unlocked, Deferred!Idle, Deferrals!Idle, Deferred!Processes,
     Deferrals!Processes
<1> QED
  BY <1>1, WindowsSame, Deferrals!InitInv, Deferrals!ToldInit

LEMMA WindowsNext == [Deferred!Next]_Deferred!vars => [Deferrals!Next]_Deferrals!vars
  BY DEF Deferred!files, Deferrals!files, Deferred!ghosts, Deferrals!ghosts, Deferred!vars,
     Deferrals!vars, Deferred!Processes, Deferrals!Processes, Deferred!None, Deferrals!None,
     Deferred!Missing, Deferrals!Missing, Deferred!Idle, Deferrals!Idle, Deferred!Pid,
     Deferrals!Pid, Deferred!Alive, Deferrals!Alive, Deferred!Unlocked, Deferrals!Unlocked,
     Deferred!Init, Deferrals!Init, Deferred!Go, Deferrals!Go, Deferred!At, Deferrals!At,
     Deferred!Keeps, Deferrals!Keeps, Deferred!Recovered, Deferrals!Recovered, Deferred!Unread,
     Deferrals!Unread, Deferred!Acquire, Deferrals!Acquire, Deferred!SeeStale,
     Deferrals!SeeStale, Deferred!TakeStale, Deferrals!TakeStale, Deferred!Fails,
     Deferrals!Fails, Deferred!Refused, Deferrals!Refused, Deferred!Release, Deferrals!Release,
     Deferred!Own, Deferrals!Own, Deferred!AfterReconcile, Deferrals!AfterReconcile,
     Deferred!Waits, Deferrals!Waits, Deferred!NothingPending, Deferrals!NothingPending,
     Deferred!Admitted, Deferrals!Admitted, Deferred!BeginApply, Deferrals!BeginApply,
     Deferred!ApplyLaunchers, Deferrals!ApplyLaunchers, Deferred!Points, Deferrals!Points,
     Deferred!ApplyPointer, Deferrals!ApplyPointer, Deferred!Legacy, Deferrals!Legacy,
     Deferred!ApplyRecord, Deferrals!ApplyRecord, Deferred!ApplyPlain, Deferrals!ApplyPlain,
     Deferred!ApplyRetire, Deferrals!ApplyRetire, Deferred!Stage, Deferrals!Stage,
     Deferred!Place, Deferrals!Place, Deferred!Deferred, Deferrals!Deferred, Deferred!Read,
     Deferrals!Read, Deferred!Fresh, Deferrals!Fresh, Deferred!Retire, Deferrals!Retire,
     Deferred!Launch, Deferrals!Launch, Deferred!Marker, Deferrals!Marker, Deferred!Mark,
     Deferrals!Mark, Deferred!Point, Deferrals!Point, Deferred!Record, Deferrals!Record,
     Deferred!Clear, Deferrals!Clear, Deferred!Spawn, Deferrals!Spawn, Deferred!Uninstall,
     Deferrals!Uninstall, Deferred!Runs, Deferrals!Runs, Deferred!Deferral, Deferrals!Deferral,
     Deferred!UpdateApplication, Deferrals!UpdateApplication, Deferred!RollbackApplication,
     Deferrals!RollbackApplication, Deferred!Install, Deferrals!Install,
     Deferred!UninstallApplication, Deferrals!UninstallApplication, Deferred!StartProgram,
     Deferrals!StartProgram, Deferred!Report, Deferrals!Report, Deferred!RollBack,
     Deferrals!RollBack, Deferred!Await, Deferrals!Await, Deferred!Applying,
     Deferrals!Applying, Deferred!Writing, Deferrals!Writing, Deferred!WriteFails,
     Deferrals!WriteFails, Deferred!Die, Deferrals!Die, Deferred!CommandNext,
     Deferrals!CommandNext, Deferred!ProcessNext, Deferrals!ProcessNext, Deferred!Next,
     Deferrals!Next

LEMMA WindowsStep ==
  ASSUME InstallationAssumption, Deferrals!IInv, Deferrals!KInv, [Deferred!Next]_Deferred!vars
  PROVE  Deferrals!IInv' /\ Deferrals!KInv'
<1>1. [Deferrals!Next]_Deferrals!vars
  BY WindowsNext
<1> QED
  BY <1>1, WindowsSame, Deferrals!InstallerStep, Deferrals!ToldStep

(* What is reported, of a step. *)
LEMMA WindowsTells ==
  ASSUME InstallationAssumption, Deferrals!IInv, Deferrals!KInv, Deferred!Next
  PROVE  Deferred!InstallTold
<1>1. Deferrals!UpdateTold
  BY Deferrals!UpdatesTell
<1>2. [Deferrals!Next]_Deferrals!vars
  BY WindowsNext
<1>3. Deferrals!LateQuiet
  BY <1>2, WindowsSame, Deferrals!LateKeepsQuiet
<1>4. Deferred!UpdateTold
  BY <1>1 DEF Deferred!UpdateTold, Deferrals!UpdateTold, Deferred!At, Deferrals!At
<1>5. Deferred!LateQuiet
  BY <1>3 DEF Deferred!LateQuiet, Deferrals!LateQuiet, Deferred!At, Deferrals!At, Deferred!Processes, Deferrals!Processes
<1> QED
  BY <1>4, <1>5 DEF Deferred!InstallTold

LEMMA WindowsFollows ==
  ASSUME InstallationAssumption, Deferrals!IInv
  PROVE  Deferred!InstallationSound /\ Deferred!TypeOK
<1>1. Deferrals!InstallationSound /\ Deferrals!TypeOK
  BY WindowsSame, Deferrals!SoundHolds, Deferrals!TypesHold
<1>2. Deferred!InstallationSound
  BY <1>1 DEF Deferred!InstallationSound, Deferrals!InstallationSound, Deferred!Launchable,
     Deferrals!Launchable, Deferred!RollbackTarget, Deferrals!RollbackTarget,
     Deferred!UninstallFinal, Deferrals!UninstallFinal, Deferred!Recovered,
     Deferrals!Recovered, Deferred!Unlocked, Deferrals!Unlocked, Deferred!Missing,
     Deferrals!Missing, Deferred!None, Deferrals!None
<1>3. Deferred!TypeOK
  BY <1>1 DEF Deferred!TypeOK, Deferrals!TypeOK
<1> QED
  BY <1>2, <1>3

---------------------------------------------------------------------------
(* Side by side, as MCPlatform runs them: each is what its own specification *)
(* says, while the others wait.                                              *)

PlatformAssumption ==
  /\ InstancesAssumption /\ Disjoint /\ ApprovalFaults \in Nat /\ ChangesAssumption
  /\ LockersAssumption /\ UpgradeAssumption /\ TelemetryAssumption /\ RouterAssumption
  /\ InstallationAssumption

PlatformInv ==
  /\ part = "approval" => ApprovalInv /\ ApprovalsRest
  /\ part = "instances" => IInv /\ Successions
  /\ part = "workspace" => ChangeInv
  /\ part = "approvals" => ApprovalLocks!IInv
  /\ part = "state" => StateLocks!IInv
  /\ part = "upgrade" => UpgradeInv
  /\ part = "telemetry" => TelemetryInv
  /\ part = "channel" => RouterInv
  /\ part = "unix" => Units!IInv /\ Units!KInv
  /\ part = "windows" => Deferrals!IInv /\ Deferrals!KInv

LEMMA PlatformInit == ASSUME PlatformAssumption PROVE SumInit => PlatformInv
<1> SUFFICES ASSUME SumInit PROVE PlatformInv
  OBVIOUS
<1> USE DEF SumInit, PlatformAssumption
<1>1. CASE part = "approval"
  BY <1>1, ApprovalInitInv, RestInit DEF PlatformInv
<1>2. CASE part = "instances"
  BY <1>2, InitInv, SuccessionsInit DEF PlatformInv
<1>3. CASE part = "workspace"
  BY <1>3, ChangeInit DEF PlatformInv
<1>4. CASE part = "approvals"
  BY <1>4, ApprovalLockInit DEF PlatformInv
<1>5. CASE part = "state"
  BY <1>5, StateLockInit DEF PlatformInv
<1>6. CASE part = "upgrade"
  BY <1>6, UpgradeInvInit DEF PlatformInv
<1>7. CASE part = "telemetry"
  BY <1>7, TelemetryInit DEF PlatformInv
<1>8. CASE part = "channel"
  BY <1>8, RouterInit DEF PlatformInv
<1>9. CASE part = "unix"
  BY <1>9, UnixInit DEF PlatformInv
<1>10. CASE part = "windows"
  BY <1>10, WindowsInit DEF PlatformInv
<1> QED
  BY <1>1, <1>2, <1>3, <1>4, <1>5, <1>6, <1>7, <1>8, <1>9, <1>10 DEF PlatformInv

(* A step is one of the part, or leaves it alone. *)
LEMMA OnePart ==
  ASSUME [SumNext]_allVars
  PROVE  /\ part' = part
         /\ part = "approval" => [Approval!Next]_Approval!vars
         /\ part = "instances" => [Next]_vars
         /\ part = "workspace" => [Workspace!Next]_Workspace!vars
         /\ part = "approvals" => [ApprovalLock!Next]_ApprovalLock!vars
         /\ part = "state" => [StateLock!Next]_StateLock!vars
         /\ part = "upgrade" => [Upgrade!Next]_Upgrade!vars
         /\ part = "telemetry" => [Telemetry!Next]_Telemetry!vars
         /\ part = "channel" => [Channel!Next]_Channel!vars
         /\ part = "unix" => [Unix!Next]_Unix!vars
         /\ part = "windows" => [Deferred!Next]_Deferred!vars
<1>1. CASE UNCHANGED allVars
  <2>1. UNCHANGED <<part, onlyApproval, onlyInstances, onlyWorkspace, onlyLocks, onlyUpgrade,
                    onlyTelemetry, onlyChannel, onlyInstaller, pc, faults>>
    BY <1>1 DEF allVars, control, disk, notInstaller, onlyFlow
  <2>2. UNCHANGED Approval!vars /\ UNCHANGED vars /\ UNCHANGED Workspace!vars
        /\ UNCHANGED ApprovalLock!vars /\ UNCHANGED StateLock!vars
    BY <2>1 DEF onlyApproval, onlyInstances, onlyWorkspace, onlyLocks, Approval!vars, vars,
       Workspace!vars, ApprovalLock!vars, StateLock!vars
  <2>3. UNCHANGED Upgrade!vars /\ UNCHANGED Telemetry!vars /\ UNCHANGED Channel!vars
    BY <2>1 DEF onlyUpgrade, onlyTelemetry, onlyChannel, Upgrade!vars, Upgrade!work,
       Telemetry!vars, Telemetry!wakeups, Channel!vars
  <2>4. UNCHANGED Unix!vars /\ UNCHANGED Deferred!vars
    BY <2>1 DEF onlyInstaller, Unix!vars, Unix!files, Unix!ghosts, Deferred!vars,
       Deferred!files, Deferred!ghosts
  <2> QED
    BY <2>1, <2>2, <2>3, <2>4
<1>2. CASE SumNext
  BY <1>2 DEF SumNext, In, InApproval, InGateways, InWorkspace, InApprovals, InState,
     InUpgrade, InTelemetry, InChannel, InInstaller
<1> QED
  BY <1>1, <1>2

LEMMA PlatformStep ==
  ASSUME PlatformAssumption PROVE PlatformInv /\ [SumNext]_allVars => PlatformInv'
<1> SUFFICES ASSUME PlatformInv, [SumNext]_allVars PROVE PlatformInv'
  OBVIOUS
<1> USE DEF PlatformInv, PlatformAssumption
<1>1. CASE part = "approval"
  BY <1>1, OnePart, ApprovalStep, ApprovalsRestStep
<1>2. CASE part = "instances"
  BY <1>2, OnePart, InstancesStep, SuccessionsStep
<1>3. CASE part = "workspace"
  BY <1>3, OnePart, ChangeStep
<1>4. CASE part = "approvals"
  BY <1>4, OnePart, ApprovalLockStep
<1>5. CASE part = "state"
  BY <1>5, OnePart, StateLockStep
<1>6. CASE part = "upgrade"
  BY <1>6, OnePart, UpgradeStep
<1>7. CASE part = "telemetry"
  BY <1>7, OnePart, TelemetryStep
<1>8. CASE part = "channel"
  BY <1>8, OnePart, RouterStep
<1>9. CASE part = "unix"
  BY <1>9, OnePart, UnixStep
<1>10. CASE part = "windows"
  BY <1>10, OnePart, WindowsStep
<1> QED
  BY <1>1, <1>2, <1>3, <1>4, <1>5, <1>6, <1>7, <1>8, <1>9, <1>10, OnePart

(* Rows, requests, leases, counters, locks, trees and versions keep the shapes *)
(* of their parts, whichever runs.                                             *)
THEOREM PlatformTypesHold == ASSUME PlatformAssumption PROVE SumSpec => []TypesOK
<1>1. PlatformInv => TypesOK
  <2> SUFFICES ASSUME PlatformInv PROVE TypesOK
    OBVIOUS
  <2> USE DEF PlatformInv, PlatformAssumption
  <2>1. /\ part = "approval" => Approval!TypeOK
        /\ part = "instances" => TypeOK
    BY ApprovalTypes, InstanceTypes
  <2>2. part = "workspace" => Workspace!TypeOK
    BY ChangeFollows
  <2>3. /\ part = "approvals" => ApprovalLock!TypeOK
        /\ part = "state" => StateLock!TypeOK
    BY ApprovalLockFollows, StateLockFollows
  <2>4. /\ part = "upgrade" => Upgrade!TypeOK
        /\ part = "telemetry" => Telemetry!TypeOK
        /\ part = "channel" => Channel!TypeOK
    BY UpgradeFollows, BufferFollows, RouterFollows
  <2>5. /\ part = "unix" => Unix!TypeOK
        /\ part = "windows" => Deferred!TypeOK
    BY UnixFollows, WindowsFollows
  <2> QED
    BY <2>1, <2>2, <2>3, <2>4, <2>5 DEF TypesOK
<1> QED
  BY <1>1, PlatformInit, PlatformStep, PTL DEF SumSpec

(* One effect at most, approved and not revoked (EffectApprovedAlways). *)
THEOREM PlatformEffectApproved == ASSUME PlatformAssumption PROVE SumSpec => []EffectApproved
<1>1. PlatformInv => EffectApproved
  BY EffectFollows DEF PlatformInv, EffectApproved
<1> QED
  BY <1>1, PlatformInit, PlatformStep, PTL DEF SumSpec

(* Of either lock there is one owner, and no living one loses it            *)
(* (LockExclusiveHolds of FileLocksProofs, with and without the recovery of *)
(* files that name nobody).                                                 *)
THEOREM PlatformLockExclusive == ASSUME PlatformAssumption PROVE SumSpec => []LockExclusive
<1>1. PlatformInv => LockExclusive
  BY ApprovalLockFollows, StateLockFollows DEF PlatformInv, LockExclusive
<1> QED
  BY <1>1, PlatformInit, PlatformStep, PTL DEF SumSpec

(* No record is lost silently, none is left lying, and a flush that returned *)
(* true is honest (LedgerExactHolds, FlushHonestHolds, AwakeHolds).          *)
THEOREM PlatformTelemetryTruth == ASSUME PlatformAssumption PROVE SumSpec => []TelemetryTruth
<1>1. PlatformInv => TelemetryTruth
  BY DEF PlatformInv, TelemetryTruth, TelemetryInv, Ledger, FailuresKnown, Wakeful,
     Telemetry!LedgerExact, Telemetry!FlushHonest, Telemetry!Awake
<1> QED
  BY <1>1, PlatformInit, PlatformStep, PTL DEF SumSpec

(* One reply, no count that nobody gives back, and no claim but what a death *)
(* or a throwing write of the dedupe file leaves                             *)
(* (RepliedOnceHolds, ClaimsHeldHolds, CountsTrueHolds).                     *)
THEOREM PlatformChannelTruth == ASSUME PlatformAssumption PROVE SumSpec => []ChannelTruth
<1>1. PlatformInv => ChannelTruth
  BY RouterFollows DEF PlatformInv, ChannelTruth, PlatformAssumption
<1> QED
  BY <1>1, PlatformInit, PlatformStep, PTL DEF SumSpec

(* A whole copy of the newest data is on the disk (DataSurvivesHolds), what the *)
(* launchers start is there, the version before is the one to roll back to, and *)
(* an uninstall is final (InstallerSound of InstallerProofs).                    *)
THEOREM PlatformUpgradesSound == ASSUME PlatformAssumption PROVE SumSpec => []UpgradesSound
<1>1. PlatformInv => UpgradesSound
  BY UpgradeFollows, UnixFollows, WindowsFollows DEF PlatformInv, PlatformAssumption, UpgradesSound
<1> QED
  BY <1>1, PlatformInit, PlatformStep, PTL DEF SumSpec

(* A governed edit replaces only what its preview saw (NoLostUpdateHolds), and what *)
(* an update or a completed activation has reported of the installed version stays  *)
(* so, on Unix and on Windows (InstallerTells of InstallerProofs).                  *)
THEOREM PlatformUpdatesKept == ASSUME PlatformAssumption PROVE SumSpec => UpdatesKept
<1>1. PlatformInv /\ SumNext =>
        /\ part = "workspace" => Workspace!NoLostUpdateStep
        /\ part = "unix" => Unix!InstallTold
        /\ part = "windows" => Deferred!InstallTold
  <2> SUFFICES ASSUME PlatformInv, SumNext
               PROVE  /\ part = "workspace" => Workspace!NoLostUpdateStep
                      /\ part = "unix" => Unix!InstallTold
                      /\ part = "windows" => Deferred!InstallTold
    OBVIOUS
  <2> USE DEF PlatformInv, PlatformAssumption
  <2>1. /\ part = "workspace" => Workspace!Next
        /\ part = "unix" => Unix!Next
        /\ part = "windows" => Deferred!Next
    BY DEF SumNext, In, InApproval, InGateways, InWorkspace, InApprovals, InState,
       InUpgrade, InTelemetry, InChannel, InInstaller
  <2>2. part = "workspace" => Workspace!NoLostUpdateStep
    BY <2>1, WritesSeen
  <2>3. part = "unix" => Unix!InstallTold
    BY <2>1, UnixTells
  <2>4. part = "windows" => Deferred!InstallTold
    BY <2>1, WindowsTells
  <2> QED
    BY <2>2, <2>3, <2>4
<1> QED
  BY <1>1, PlatformInit, PlatformStep, PTL DEF SumSpec, UpdatesKept

(* A half-done change blocks those after it (TornBlocksHolds). *)
THEOREM PlatformHalfDoneBlocks ==
  ASSUME PlatformAssumption PROVE SumSpec => []HalfDoneBlocks
<1> DEFINE Honest == PlatformInv /\ (part = "workspace" => HonestInv)
<1>1. SumInit => Honest
  <2> SUFFICES ASSUME SumInit PROVE Honest
    OBVIOUS
  <2>1. PlatformInv
    BY PlatformInit
  <2>2. part = "workspace" => HonestInv
    BY HonestInit DEF SumInit, PlatformAssumption
  <2> QED
    BY <2>1, <2>2
<1>2. Honest /\ [SumNext]_allVars => Honest'
  <2> SUFFICES ASSUME Honest, [SumNext]_allVars PROVE Honest'
    OBVIOUS
  <2>1. PlatformInv'
    BY PlatformStep
  <2>2. part' = "workspace" => HonestInv'
    BY OnePart, HonestStep DEF PlatformInv, PlatformAssumption
  <2> QED
    BY <2>1, <2>2
<1>3. Honest => HalfDoneBlocks
  BY HonestFollows DEF PlatformInv, HalfDoneBlocks
<1> HIDE DEF Honest
<1> QED
  BY <1>1, <1>2, <1>3, PTL DEF SumSpec
=============================================================================
