--------------------------- MODULE FileLocksProofs ---------------------------
(***************************************************************************)
(* Theorems about FileLocks, for any processes and any number of deaths,   *)
(* with and without the recovery of files that name nobody.                *)
(***************************************************************************)
EXTENDS FileLocks, FiniteSets, FiniteSetTheorems, SequenceTheorems, TLAPS

(* "none" is no process. *)
LocksAssumption == "none" \notin Processes /\ MaxDeaths \in Nat

---------------------------------------------------------------------------
(* Paths *)

LEMMA PathIs ==
  ASSUME LocksAssumption, NEW t
  PROVE  t \in Paths <=> t \in Seq(Processes) /\ Len(t) <= MaxDeaths
<1>1. ASSUME t \in Paths PROVE t \in Seq(Processes) /\ Len(t) <= MaxDeaths
  <2>1. PICK n \in 0..MaxDeaths : t \in [1..n -> Processes]
    BY <1>1 DEF Paths
  <2>2. n \in Nat /\ n <= MaxDeaths
    BY <2>1 DEF LocksAssumption
  <2>3. t \in Seq(Processes) /\ Len(t) = n
    BY <2>1, <2>2
  <2> QED
    BY <2>2, <2>3
<1>2. ASSUME t \in Seq(Processes), Len(t) <= MaxDeaths PROVE t \in Paths
  <2>1. Len(t) \in 0..MaxDeaths /\ t \in [1..Len(t) -> Processes]
    BY <1>2, LenProperties DEF LocksAssumption
  <2> QED
    BY <2>1 DEF Paths
<1> QED
  BY <1>1, <1>2

LEMMA LockIs ==
  ASSUME LocksAssumption
  PROVE  Lock \in Paths /\ Len(Lock) = 0
<1>1. Lock \in Seq(Processes) /\ Len(Lock) = 0
  BY EmptySeq DEF Lock
<1>2. Len(Lock) <= MaxDeaths
  BY <1>1 DEF LocksAssumption
<1> QED
  BY <1>1, <1>2, PathIs

(* A marker names the file it is for. *)
LEMMA MarkerIs ==
  ASSUME LocksAssumption, NEW m \in Paths, m # Lock
  PROVE  /\ Len(m) \in 1..MaxDeaths /\ m \in Seq(Processes)
         /\ Target(m) \in Paths /\ Len(Target(m)) = Len(m) - 1 /\ Target(m) # m
         /\ \A i \in 1..Len(m) - 1 : Target(m)[i] = m[i]
         /\ Expected(m) \in Processes
         /\ Target(m) \in Seq(Processes)
         /\ Target(m) = Lock <=> Len(m) = 1
<1>1. m \in Seq(Processes) /\ Len(m) <= MaxDeaths
  BY PathIs
<1>2. Len(m) \in Nat \ {0}
  BY <1>1, EmptySeq DEF Lock
<1>3. /\ Target(m) \in Seq(Processes) /\ Len(Target(m)) = Len(m) - 1
      /\ \A i \in 1..Len(m) - 1 : Target(m)[i] = m[i]
  <2> DEFINE n == Len(m) - 1
             u == SubSeq(m, 1, n)
  <2>1. n \in Nat /\ \A i \in 1..n : m[i] \in Processes
    BY <1>1, <1>2, ElementOfSeq
  <2>2. Target(m) = u
    BY DEF Target
  <2> HIDE DEF n
  <2>3. /\ u \in Seq(Processes) /\ Len(u) = IF 1 <= n THEN n - 1 + 1 ELSE 0
        /\ \A i \in 1..n - 1 + 1 : u[i] = m[1 + i - 1]
    BY <2>1, SubSeqProperties
  <2> HIDE DEF u
  <2>4. Len(u) = n /\ \A i \in 1..n : u[i] = m[i]
    BY <2>1, <2>3
  <2> QED
    BY <2>2, <2>3, <2>4 DEF n
<1>4. Target(m) \in Paths
  <2>1. Len(Target(m)) <= MaxDeaths
    BY <1>1, <1>2, <1>3 DEF LocksAssumption
  <2> QED
    BY <1>3, <2>1, PathIs
<1>5. Expected(m) \in Processes
  BY <1>1, <1>2, ElementOfSeq DEF Expected
<1>6. Target(m) = Lock <=> Len(m) = 1
  <2>1. Target(m) # Lock => Len(Target(m)) \in Nat \ {0}
    BY <1>3, EmptySeq DEF Lock
  <2>2. Target(m) = Lock => Len(Target(m)) = 0
    BY LockIs
  <2> QED
    BY <1>2, <1>3, <2>1, <2>2
<1>7. Len(m) \in 1..MaxDeaths /\ Target(m) # m
  BY <1>1, <1>2, <1>3
<1> QED
  BY <1>1, <1>3, <1>4, <1>5, <1>6, <1>7

LEMMA SameMarker ==
  ASSUME LocksAssumption, NEW m \in Paths, NEW n \in Paths, m # Lock, n # Lock,
         Target(m) = Target(n), Expected(m) = Expected(n)
  PROVE  m = n
<1>1. /\ m \in Seq(Processes) /\ n \in Seq(Processes)
      /\ Len(m) \in 1..MaxDeaths /\ Len(n) \in 1..MaxDeaths
      /\ Len(m) - 1 = Len(n) - 1
      /\ \A i \in 1..Len(m) - 1 : Target(m)[i] = m[i]
      /\ \A i \in 1..Len(n) - 1 : Target(m)[i] = n[i]
  BY MarkerIs
<1>2. Len(m) = Len(n) /\ \A i \in 1..Len(m) : m[i] = n[i]
  BY <1>1 DEF Expected, LocksAssumption
<1> QED
  BY <1>1, <1>2, SeqEqual

---------------------------------------------------------------------------
(* The invariant *)

Files == [owner : Processes, named : BOOLEAN] \cup {NoFile}
Points == {"idle", "open", "held", "free", "mark", "again", "marking", "check", "move", "done",
           "failed"}
HasLock == {"open", "held", "free"}
HasMarker == {"marking", "check", "move", "done", "failed"}
WantsMarker == HasMarker \cup {"mark", "again"}

Shapes ==
  /\ file \in [Paths -> Files]
  /\ alive \subseteq Processes
  /\ pc \in [Processes -> Points]
  /\ want \in [Processes -> Paths]
  /\ deaths \in 0..MaxDeaths

(* Whoever died is counted, so that the dead are finitely many. *)
Gone == Processes \ alive
DeathsCounted == IsFiniteSet(Gone) /\ Cardinality(Gone) <= deaths

(* A path names the dead, each once. *)
NamesDead(t) ==
  /\ \A i \in 1..Len(t) : t[i] \in Gone
  /\ \A i, j \in 1..Len(t) : t[i] = t[j] => i = j

(* A file is at a path that names the dead, and not its owner. *)
FileSound(t) ==
  file[t] # NoFile => NamesDead(t) /\ \A i \in 1..Len(t) : t[i] # file[t].owner

WantSound(p) == NamesDead(want[p]) /\ (p \in alive /\ pc[p] \in WantsMarker => want[p] # Lock)

(* What a process has created is there, and still its own. *)
Owns(p) ==
  /\ pc[p] \in HasLock => file[Lock].owner = p
  /\ pc[p] \in HasMarker => file[want[p]].owner = p

(* What a process is about to set aside is what it has seen. *)
Aims(p) == pc[p] = "move" => file[Target(want[p])].owner = Expected(want[p])

IInv ==
  /\ Shapes /\ DeathsCounted
  /\ \A t \in Paths : FileSound(t)
  /\ \A p \in Processes : WantSound(p)
  /\ \A p \in alive : Owns(p) /\ Aims(p)

---------------------------------------------------------------------------
(* What the steps have in common *)

LEMMA OwnerIs ==
  ASSUME LocksAssumption, NEW f \in Files
  PROVE  /\ f = NoFile <=> f.owner = "none"
         /\ f # NoFile => f.owner \in Processes
  BY DEF LocksAssumption, Files, NoFile

LEMMA LockNamesNone ==
  ASSUME LocksAssumption
  PROVE  NamesDead(Lock)
  BY LockIs DEF NamesDead

(* There are not more dead than deaths: a chain of markers is not longer.        *)
LEMMA ShortEnough ==
  ASSUME LocksAssumption, Shapes, DeathsCounted, NEW t \in Seq(Processes), NamesDead(t)
  PROVE  t \in Paths
<1> DEFINE n == Len(t)
<1>1. n \in Nat /\ DOMAIN t = 1..n /\ t \in [1..n -> Processes]
  BY LenProperties
<1>2. t \in [1..n -> Gone]
  BY <1>1 DEF NamesDead
<1>3. t \in Injection(1..n, Gone)
  BY <1>1, <1>2 DEF NamesDead, Injection, IsInjective
<1>4. Cardinality(1..n) <= Cardinality(Gone) /\ Cardinality(1..n) = n
  <2>1. Cardinality(1..n) = n
    BY <1>1, FS_Interval
  <2> QED
    BY <1>3, <2>1, FS_Injection DEF DeathsCounted
<1>5. Cardinality(Gone) \in Nat /\ deaths \in Nat /\ deaths <= MaxDeaths
  BY FS_CardinalityType DEF DeathsCounted, Shapes, LocksAssumption
<1> QED
  BY <1>1, <1>4, <1>5, PathIs DEF DeathsCounted, LocksAssumption

(* One process goes on: at most one file changes, which was nobody's, or its own, *)
(* or what it has seen to be of a dead owner.                                    *)
LEMMA StepKeeps ==
  ASSUME LocksAssumption, IInv, NEW p \in alive,
         NEW t \in Paths, NEW f \in Files, NEW u \in Paths, NEW c \in Points,
         file' = [file EXCEPT ![t] = f], want' = [want EXCEPT ![p] = u],
         pc' = [pc EXCEPT ![p] = c], UNCHANGED <<alive, deaths>>,
         \/ f = file[t]
         \/ file[t].owner \in {"none", p}
         \/ pc[p] = "move" /\ t = Target(want[p]),
         f = file[t] \/ f = NoFile \/ (f.owner = p /\ NamesDead(t)),
         NamesDead(u), c \in WantsMarker => u # Lock,
         c \in HasLock => file'[Lock].owner = p,
         c \in HasMarker => file'[u].owner = p,
         c = "move" => file'[Target(u)].owner = Expected(u)
  PROVE  IInv'
<1>1. /\ p \in Processes /\ p # "none"
      /\ file \in [Paths -> Files] /\ want \in [Processes -> Paths] /\ pc \in [Processes -> Points]
      /\ alive \subseteq Processes
  BY DEF IInv, Shapes, LocksAssumption
<1>2. /\ file' \in [Paths -> Files] /\ want' \in [Processes -> Paths] /\ pc' \in [Processes -> Points]
      /\ file'[t] = f /\ \A q \in Paths \ {t} : file'[q] = file[q]
      /\ want'[p] = u /\ \A q \in Processes \ {p} : want'[q] = want[q]
      /\ pc'[p] = c /\ \A q \in Processes \ {p} : pc'[q] = pc[q]
  BY <1>1
<1>3. Shapes' /\ DeathsCounted'
  BY <1>2 DEF IInv, Shapes, DeathsCounted, Gone
<1>4. \A q : NamesDead(q)' <=> NamesDead(q)
  BY DEF NamesDead, Gone
<1>5. ASSUME NEW q \in Paths PROVE FileSound(q)'
  <2>1. FileSound(q)
    BY DEF IInv
  <2>2. CASE file'[q] = file[q]
    BY <2>1, <2>2 DEF FileSound, NamesDead, Gone
  <2>3. CASE file'[q] # file[q]
    <3>1. q = t /\ file'[q] = f /\ f # file[t]
      BY <1>2, <2>3
    <3>2. CASE f = NoFile
      BY <3>1, <3>2 DEF FileSound
    <3>3. CASE f.owner = p /\ NamesDead(t)
      <4>1. \A i \in 1..Len(t) : t[i] # p
        BY <3>3 DEF NamesDead, Gone
      <4> QED
        BY <1>4, <3>1, <3>3, <4>1 DEF FileSound
    <3> QED
      BY <3>1, <3>2, <3>3
  <2> QED
    BY <2>2, <2>3
<1>6. ASSUME NEW q \in Processes PROVE WantSound(q)'
  <2>1. WantSound(q)
    BY DEF IInv
  <2>2. CASE q = p
    BY <1>1, <1>2, <1>4, <2>2 DEF WantSound
  <2>3. CASE q # p
    BY <1>2, <1>4, <2>1, <2>3 DEF WantSound
  <2> QED
    BY <2>2, <2>3
<1>7. ASSUME NEW q \in alive PROVE Owns(q)' /\ Aims(q)'
  <2>1. CASE q = p
    BY <1>1, <1>2, <2>1 DEF Owns, Aims
  <2>2. CASE q # p
    <3>1. /\ pc'[q] = pc[q] /\ want'[q] = want[q] /\ want[q] \in Paths /\ q \in Processes
          /\ q # "none" /\ Owns(q) /\ Aims(q) /\ Aims(p) /\ Owns(p) /\ WantSound(q) /\ WantSound(p)
      BY <1>1, <1>2, <2>2 DEF IInv, LocksAssumption
    <3>2. ASSUME pc[p] = "move"
          PROVE  /\ want[p] \in Paths /\ want[p] # Lock /\ Expected(want[p]) \notin alive
                 /\ file[Target(want[p])].owner = Expected(want[p])
                 /\ file[want[p]].owner = p
      <4>1. want[p] \in Paths /\ want[p] # Lock
        BY <1>1, <3>1, <3>2 DEF WantSound, WantsMarker, HasMarker
      <4>2. Len(want[p]) \in 1..Len(want[p])
        BY <4>1, MarkerIs DEF LocksAssumption
      <4>3. Expected(want[p]) \in Gone
        BY <3>1, <4>2 DEF WantSound, NamesDead, Expected
      <4> QED
        BY <3>1, <3>2, <4>1, <4>3 DEF Gone, Aims, Owns, HasMarker
    <3>3. ASSUME NEW v \in Paths, file[v].owner = q PROVE file'[v] = file[v]
      BY <1>1, <1>2, <2>2, <3>1, <3>2, <3>3
    <3>4. Owns(q)'
      <4>1. file[Lock].owner = q => file'[Lock].owner = q
        BY <3>3, LockIs
      <4>2. file[want[q]].owner = q => file'[want[q]].owner = q
        BY <3>1, <3>3
      <4> QED
        BY <3>1, <4>1, <4>2 DEF Owns
    <3>5. Aims(q)'
      <4> SUFFICES ASSUME pc[q] = "move"
                   PROVE  file'[Target(want[q])].owner = Expected(want[q])
        BY <3>1 DEF Aims
      <4>1. want[q] # Lock /\ file[want[q]].owner = q
            /\ file[Target(want[q])].owner = Expected(want[q])
        BY <3>1 DEF WantSound, WantsMarker, HasMarker, Owns, Aims
      <4>2. Target(want[q]) \in Paths /\ Expected(want[q]) \in Processes
            /\ Len(want[q]) \in 1..Len(want[q])
        BY <3>1, <4>1, MarkerIs DEF LocksAssumption
      <4>3. Expected(want[q]) \in Gone
        BY <3>1, <4>2 DEF WantSound, NamesDead, Expected
      <4>4. Expected(want[q]) \notin {"none", p}
        BY <4>2, <4>3 DEF Gone, LocksAssumption
      <4>5. ~(pc[p] = "move" /\ Target(want[p]) = Target(want[q]))
        <5> SUFFICES ASSUME pc[p] = "move", Target(want[p]) = Target(want[q]) PROVE FALSE
          OBVIOUS
        <5>1. want[p] = want[q]
          BY <3>1, <3>2, <4>1, SameMarker
        <5> QED
          BY <2>2, <3>2, <4>1, <5>1
      <4> QED
        BY <1>2, <4>1, <4>2, <4>4, <4>5
    <3> QED
      BY <3>4, <3>5
  <2> QED
    BY <2>1, <2>2
<1> QED
  BY <1>3, <1>5, <1>6, <1>7 DEF IInv

(* Where a process is, and what it has there. *)
LEMMA HereIs ==
  ASSUME LocksAssumption, IInv, NEW p \in alive
  PROVE  /\ p \in Processes /\ p # "none" /\ want[p] \in Paths /\ pc[p] \in Points
         /\ want = [want EXCEPT ![p] = want[p]] /\ NamesDead(want[p])
         /\ Lock \in Paths /\ NoFile \in Files
         /\ Nameless(p) \in Files /\ Named(p) \in Files
         /\ Nameless(p).owner = p /\ Named(p).owner = p /\ NoFile.owner = "none"
         /\ pc[p] \in WantsMarker => want[p] # Lock
         /\ Owns(p) /\ Aims(p)
         /\ \A t \in Paths : file[t] \in Files /\ file = [file EXCEPT ![t] = file[t]]
<1>1. p \in Processes /\ p # "none"
  BY DEF IInv, Shapes, LocksAssumption
<1>2. /\ want[p] \in Paths /\ pc[p] \in Points /\ want = [want EXCEPT ![p] = want[p]]
      /\ \A t \in Paths : file[t] \in Files /\ file = [file EXCEPT ![t] = file[t]]
  BY <1>1 DEF IInv, Shapes
<1>3. /\ NoFile \in Files /\ Nameless(p) \in Files /\ Named(p) \in Files
      /\ Nameless(p).owner = p /\ Named(p).owner = p /\ NoFile.owner = "none"
  BY <1>1 DEF Files, NoFile, Nameless, Named
<1>4. WantSound(p) /\ Owns(p) /\ Aims(p)
  BY <1>1 DEF IInv
<1> QED
  BY <1>1, <1>2, <1>3, <1>4, LockIs DEF WantSound

(* No file changes. *)
LEMMA WalkKeeps ==
  ASSUME LocksAssumption, IInv, NEW p \in alive, NEW u \in Paths, NEW c \in Points,
         want' = [want EXCEPT ![p] = u], pc' = [pc EXCEPT ![p] = c],
         UNCHANGED <<file, alive, deaths>>,
         NamesDead(u), c \in WantsMarker => u # Lock,
         c \in HasLock => file[Lock].owner = p,
         c \in HasMarker => file[u].owner = p,
         c = "move" => file[Target(u)].owner = Expected(u)
  PROVE  IInv'
<1> DEFINE f == file[Lock]
<1>1. f \in Files /\ Lock \in Paths /\ file = [file EXCEPT ![Lock] = f]
  BY HereIs
<1>2. file' = file /\ f = file[Lock] /\ alive' = alive /\ deaths' = deaths
  OBVIOUS
<1> HIDE DEF f
<1>3. file' = [file EXCEPT ![Lock] = f]
  BY <1>1, <1>2
<1> QED
  BY <1>1, <1>2, <1>3, StepKeeps

(* What a process does to the lock itself. *)
LEMMA LockStepsKeep ==
  ASSUME LocksAssumption, IInv, NEW p \in alive, Open(p) \/ Write(p) \/ Leave(p) \/ Release(p)
  PROVE  IInv'
<1> USE HereIs, LockNamesNone DEF Go, HasLock, HasMarker, WantsMarker, Points
<1>1. CASE Open(p)
  <2>1. file'[Lock].owner = p
    BY <1>1 DEF Open, IInv, Shapes
  <2> QED
    BY <1>1, <2>1, StepKeeps DEF Open
<1>2. CASE Write(p)
  <2>1. file'[Lock].owner = p /\ file[Lock].owner = p
    BY <1>2 DEF Write, IInv, Shapes, Owns
  <2> QED
    BY <1>2, <2>1, StepKeeps DEF Write
<1>3. CASE Leave(p)
  <2>1. file[Lock].owner = p
    BY <1>3 DEF Leave, Owns
  <2> QED
    BY <1>3, <2>1, WalkKeeps DEF Leave
<1>4. CASE Release(p)
  <2>1. file[Lock].owner = p
    BY <1>4 DEF Release, Owns
  <2> QED
    BY <1>4, <2>1, StepKeeps DEF Release
<1> QED
  BY <1>1, <1>2, <1>3, <1>4

(* The lock, or the marker that is wanted, is of a dead owner. *)
LEMMA FindStaleKeeps ==
  ASSUME LocksAssumption, IInv, NEW p \in alive, FindStale(p)
  PROVE  IInv'
<1> DEFINE d == file[Lock].owner
           u == <<d>>
<1>1. d \in Gone
  <2>1. file[Lock] # NoFile /\ file[Lock] \in Files /\ d \notin alive
    BY HereIs DEF FindStale, Stale
  <2> QED
    BY <2>1, OwnerIs DEF Gone
<1>2. d \in Processes
  BY <1>1 DEF Gone
<1> HIDE DEF d
<1>3. u \in Seq(Processes) /\ Len(u) = 1 /\ u[1] = d
  BY <1>2
<1>4. NamesDead(u) /\ u # Lock
  BY <1>1, <1>3, LockIs DEF NamesDead
<1>5. u \in Paths
  BY <1>3, <1>4, ShortEnough DEF IInv
<1>6. /\ want' = [want EXCEPT ![p] = u] /\ pc' = [pc EXCEPT ![p] = "mark"]
      /\ UNCHANGED <<file, alive, deaths>>
  BY DEF FindStale, Go, d
<1> HIDE DEF u
<1> QED
  BY <1>4, <1>5, <1>6, HereIs, WalkKeeps DEF HasLock, HasMarker, WantsMarker, Points

LEMMA DescendKeeps ==
  ASSUME LocksAssumption, IInv, NEW p \in alive, Descend(p)
  PROVE  IInv'
<1> DEFINE m == want[p]
           d == file[m].owner
           u == Append(m, d)
<1>1. m \in Paths /\ m \in Seq(Processes) /\ Len(m) \in Nat /\ NamesDead(m)
  BY HereIs, PathIs, LenProperties
<1>2. d \in Gone /\ \A i \in 1..Len(m) : m[i] # d
  <2>1. file[m] # NoFile /\ file[m] \in Files /\ d \notin alive
    BY <1>1, HereIs DEF Descend, Abandoned, Stale
  <2>2. FileSound(m)
    BY <1>1 DEF IInv
  <2> QED
    BY <2>1, <2>2, OwnerIs DEF Gone, FileSound
<1>3. d \in Processes
  BY <1>2 DEF Gone
<1>4. /\ want' = [want EXCEPT ![p] = u] /\ pc' = pc /\ pc[p] = "mark"
      /\ UNCHANGED <<file, alive, deaths>>
  BY HereIs DEF Descend, Abandoned, IInv, Shapes
<1> HIDE DEF d, m
<1>5. /\ u \in Seq(Processes) /\ Len(u) = Len(m) + 1 /\ u[Len(m) + 1] = d
      /\ \A i \in 1..Len(m) : u[i] = m[i]
  BY <1>1, <1>3, AppendProperties
<1>6. u # Lock
  BY <1>1, <1>5, LockIs
<1> HIDE DEF u
<1>7. NamesDead(u)
  BY <1>1, <1>2, <1>5 DEF NamesDead
<1>8. u \in Paths
  BY <1>5, <1>7, ShortEnough DEF IInv
<1>9. pc' = [pc EXCEPT ![p] = "mark"]
  BY <1>4 DEF IInv, Shapes
<1> QED
  BY <1>4, <1>6, <1>7, <1>8, <1>9, HereIs, WalkKeeps DEF HasLock, HasMarker, WantsMarker, Points

(* What a process does to the marker it wants. *)
LEMMA MarkerStepsKeep ==
  ASSUME LocksAssumption, IInv, NEW p \in alive,
         CreateMarker(p) \/ MarkerTaken(p) \/ WriteMarker(p) \/ Check(p)
  PROVE  IInv'
<1> USE HereIs, LockNamesNone DEF Go, HasLock, HasMarker, WantsMarker, Points
<1>1. CASE CreateMarker(p)
  <2>1. file'[want[p]].owner = p
    BY <1>1 DEF CreateMarker, IInv, Shapes
  <2> QED
    BY <1>1, <2>1, StepKeeps DEF CreateMarker
<1>2. CASE MarkerTaken(p)
  BY <1>2, WalkKeeps DEF MarkerTaken
<1>3. CASE WriteMarker(p)
  <2>1. file'[want[p]].owner = p /\ file[want[p]].owner = p
    BY <1>3 DEF WriteMarker, IInv, Shapes, Owns
  <2> QED
    BY <1>3, <2>1, StepKeeps DEF WriteMarker
<1>4. CASE Check(p)
  <2>1. file[want[p]].owner = p
    BY <1>4 DEF Check, Owns
  <2>2. CASE StillThere(want[p])
    <3>1. file[Target(want[p])].owner = Expected(want[p])
      BY <2>2 DEF StillThere
    <3> QED
      BY <1>4, <2>1, <2>2, <3>1, WalkKeeps DEF Check
  <2>3. CASE ~StillThere(want[p])
    BY <1>4, <2>1, <2>3, WalkKeeps DEF Check
  <2> QED
    BY <2>2, <2>3
<1> QED
  BY <1>1, <1>2, <1>3, <1>4

(* Out goes what was expected, which is not the marker itself. *)
LEMMA MoveKeeps ==
  ASSUME LocksAssumption, IInv, NEW p \in alive, Move(p)
  PROVE  IInv'
<1> DEFINE t == Target(want[p])
<1>1. pc[p] = "move" /\ want[p] \in Paths /\ want[p] # Lock
  BY HereIs DEF Move, WantsMarker, HasMarker
<1>2. t \in Paths /\ t # want[p]
  BY <1>1, MarkerIs
<1>3. file[want[p]].owner = p
  BY <1>1, HereIs DEF Owns, HasMarker
<1>4. PICK c \in {"done", "failed"} :
        /\ pc' = [pc EXCEPT ![p] = c] /\ file' = [file EXCEPT ![t] = NoFile]
        /\ UNCHANGED <<alive, want, deaths>>
  BY DEF Move, Go
<1> HIDE DEF t
<1>5. file'[want[p]].owner = p
  BY <1>1, <1>2, <1>3, <1>4 DEF IInv, Shapes
<1>6. pc[p] = "move" /\ t = Target(want[p])
  BY <1>1 DEF t
<1> QED
  BY <1>1, <1>2, <1>4, <1>5, <1>6, HereIs, StepKeeps DEF HasLock, HasMarker, WantsMarker, Points

LEMMA UnmarkKeeps ==
  ASSUME LocksAssumption, IInv, NEW p \in alive, Unmark(p)
  PROVE  IInv'
<1>1. /\ want[p] \in Paths /\ want[p] # Lock /\ file[want[p]].owner = p /\ NamesDead(want[p])
  BY HereIs DEF Unmark, Owns, HasMarker, WantsMarker
<1> DEFINE Up == pc[p] = "done" /\ Len(want[p]) > 1
           u == IF Up THEN Target(want[p]) ELSE Lock
           c == IF Up THEN "again" ELSE "idle"
<1>2. /\ file' = [file EXCEPT ![want[p]] = NoFile]
      /\ want' = [want EXCEPT ![p] = u] /\ pc' = [pc EXCEPT ![p] = c]
      /\ UNCHANGED <<alive, deaths>>
  BY HereIs DEF Unmark, Go
<1>3. /\ Target(want[p]) \in Paths /\ Len(want[p]) \in Nat
      /\ Len(want[p]) > 1 => Target(want[p]) # Lock
      /\ NamesDead(Target(want[p]))
  <2>1. /\ Len(want[p]) \in 1..MaxDeaths /\ Target(want[p]) \in Paths
        /\ Len(Target(want[p])) = Len(want[p]) - 1
        /\ \A i \in 1..Len(want[p]) - 1 : Target(want[p])[i] = want[p][i]
        /\ Target(want[p]) = Lock <=> Len(want[p]) = 1
    BY <1>1, MarkerIs
  <2>2. MaxDeaths \in Nat
    BY DEF LocksAssumption
  <2> QED
    BY <1>1, <2>1, <2>2 DEF NamesDead
<1>4. /\ u \in Paths /\ c \in {"again", "idle"} /\ NamesDead(u)
      /\ c = "again" => u # Lock
  BY <1>3, LockIs, LockNamesNone
<1> HIDE DEF u, c
<1> QED
  BY <1>1, <1>2, <1>4, HereIs, StepKeeps DEF HasLock, HasMarker, WantsMarker, Points

(* A death: what the process had stays where it is. *)
LEMMA DieKeeps ==
  ASSUME LocksAssumption, IInv, NEW p \in alive, Die(p)
  PROVE  IInv'
<1>1. /\ alive' = alive \ {p} /\ file' = file /\ pc' = [pc EXCEPT ![p] = "idle"]
      /\ want' = [want EXCEPT ![p] = Lock] /\ deaths' = deaths + 1 /\ deaths < MaxDeaths
  BY DEF Die, Go
<1>2. p \in Processes /\ Lock \in Paths
  BY HereIs
<1>3. Shapes'
  BY <1>1, <1>2 DEF IInv, Shapes, Points, LocksAssumption
<1>4. Gone' = Gone \cup {p} /\ p \notin Gone
  BY <1>1, <1>2 DEF Gone, IInv, Shapes
<1>5. DeathsCounted'
  <2>1. IsFiniteSet(Gone) /\ Cardinality(Gone) <= deaths /\ deaths \in Nat
    BY DEF IInv, DeathsCounted, Shapes, LocksAssumption
  <2>2. IsFiniteSet(Gone \cup {p}) /\ Cardinality(Gone \cup {p}) = Cardinality(Gone) + 1
    BY <1>4, <2>1, FS_AddElement
  <2>3. Cardinality(Gone) \in Nat
    BY <2>1, FS_CardinalityType
  <2> QED
    BY <1>1, <1>4, <2>1, <2>2, <2>3 DEF DeathsCounted
<1>6. \A t : NamesDead(t) => NamesDead(t)'
  BY <1>4 DEF NamesDead
<1>7. \A t \in Paths : FileSound(t)'
  BY <1>1, <1>6 DEF IInv, FileSound
<1>8. ASSUME NEW q \in Processes PROVE WantSound(q)'
  <2>1. CASE q = p
    BY <1>1, <1>2, <1>6, <2>1, LockNamesNone DEF WantSound, IInv, Shapes
  <2>2. CASE q # p
    <3>1. want'[q] = want[q] /\ pc'[q] = pc[q] /\ WantSound(q)
      BY <1>1, <2>2 DEF IInv, Shapes
    <3> QED
      BY <1>1, <1>6, <3>1 DEF WantSound
  <2> QED
    BY <2>1, <2>2
<1>9. ASSUME NEW q \in alive' PROVE Owns(q)' /\ Aims(q)'
  <2>1. q \in alive /\ q # p /\ q \in Processes
    BY <1>1 DEF IInv, Shapes
  <2>2. want'[q] = want[q] /\ pc'[q] = pc[q] /\ Owns(q) /\ Aims(q)
    BY <1>1, <2>1 DEF IInv, Shapes
  <2> QED
    BY <1>1, <2>2 DEF Owns, Aims
<1> QED
  BY <1>3, <1>5, <1>7, <1>8, <1>9 DEF IInv

---------------------------------------------------------------------------
(* The theorems *)

LEMMA InitInv ==
  ASSUME LocksAssumption, Init
  PROVE  IInv
<1>1. /\ \A t \in Paths : file[t] = NoFile
      /\ \A p \in Processes : pc[p] = "idle" /\ want[p] = Lock
      /\ alive = Processes /\ Gone = {}
  BY DEF Init, Gone
<1>2. Shapes
  BY LockIs DEF Init, Shapes, Files, Points, LocksAssumption
<1>3. DeathsCounted
  BY <1>1, FS_EmptySet DEF DeathsCounted, Init
<1>4. \A t \in Paths : FileSound(t)
  BY <1>1 DEF FileSound
<1>5. \A p \in Processes : WantSound(p) /\ Owns(p) /\ Aims(p)
  BY <1>1, LockNamesNone DEF WantSound, Owns, Aims, HasLock, HasMarker, WantsMarker
<1> QED
  BY <1>1, <1>2, <1>3, <1>4, <1>5 DEF IInv

LEMMA NextInv ==
  ASSUME LocksAssumption, IInv, [Next]_vars
  PROVE  IInv'
<1>1. ASSUME NEW p \in alive,
             Open(p) \/ Write(p) \/ Leave(p) \/ Release(p) \/ Recovery(p) \/ Die(p)
      PROVE  IInv'
  BY <1>1, LockStepsKeep, FindStaleKeeps, DescendKeeps, MarkerStepsKeep, MoveKeeps, UnmarkKeeps,
     DieKeeps DEF Recovery
<1>2. CASE UNCHANGED vars
  BY <1>2 DEF vars, IInv, Shapes, DeathsCounted, Gone, FileSound, WantSound, NamesDead, Owns, Aims
<1> QED
  BY <1>1, <1>2 DEF Next

(* One process at most has the lock, and one each marker, and what a living       *)
(* process has created stays its own: whoever sets aside the file of a dead owner *)
(* holds the marker that is named after this very file, so that the file it has   *)
(* seen is the one it moves, over the deaths of other recoverers and the recovery *)
(* of their markers (quarantineDeadOwnerLock, quarantineStaleApprovalLock).       *)
THEOREM LockExclusiveHolds == ASSUME LocksAssumption PROVE Spec => []LockExclusive
<1>1. Init => IInv
  BY InitInv
<1>2. IInv /\ [Next]_vars => IInv'
  BY NextInv
<1>3. IInv => LockExclusive
  BY DEF IInv, Owns, HasLock, HasMarker, LockExclusive
<1> QED
  BY <1>1, <1>2, <1>3, PTL DEF Spec

LEMMA ShapesFollow == ASSUME IInv PROVE TypeOK
<1> SUFFICES ASSUME Shapes PROVE TypeOK
  BY DEF IInv
<1>1. ASSUME NEW t \in Paths
      PROVE  file[t] = NoFile \/ \E p \in Processes : file[t] \in {Nameless(p), Named(p)}
  <2>1. file[t] \in Files
    BY DEF Shapes
  <2>2. ASSUME NEW f \in [owner : Processes, named : BOOLEAN]
        PROVE  f.owner \in Processes /\ f \in {Nameless(f.owner), Named(f.owner)}
    BY DEF Nameless, Named
  <2> QED
    BY <2>1, <2>2 DEF Files
<1> QED
  BY <1>1 DEF Shapes, TypeOK, Points

(* Files and control points keep their shapes: a chain of markers, each for the   *)
(* marker of a recoverer that died, is never longer than there were deaths.       *)
THEOREM LockShapesHold == ASSUME LocksAssumption PROVE Spec => []TypeOK
<1>1. Init => IInv
  BY InitInv
<1>2. IInv /\ [Next]_vars => IInv'
  BY NextInv
<1>3. IInv => TypeOK
  BY ShapesFollow
<1> QED
  BY <1>1, <1>2, <1>3, PTL DEF Spec
=============================================================================
