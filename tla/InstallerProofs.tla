---------------------------- MODULE InstallerProofs ----------------------------
(***************************************************************************)
(* Theorems about Installer, on Unix and on Windows, for any commands,     *)
(* activations, versions, runs and faults.                                 *)
(*                                                                         *)
(* The invariant says what is on the disk between any two writes: what the *)
(* place of the process that has the lock tells of them, and what the      *)
(* record and the marker together tell of the version before.  A second    *)
(* one, over the first, says what a command may report of them.            *)
(***************************************************************************)
EXTENDS Installer, TLAPS

InstallerAssumption ==
  /\ Versions \subseteq Nat \ {0} /\ First \in Versions \cup {0} /\ Windows \in BOOLEAN
  /\ Commands \cap Tokens = {} /\ {"none", "plain", "defer"} \cap Tokens = {}
  /\ MaxFaults \in Nat

---------------------------------------------------------------------------
(* The invariant *)

Busy ==
  Applying \cup {"reconcile", "stage", "place", "read", "retire", "launch", "mark", "point", "record",
                 "clear", "spawn", "versions", "bin", "state", "pointer", "marker", "unlock", "abandon"}
Places == Busy \cup {"idle", "lock", "again", "stale", "await", "returned", "failed"}

Some == Versions \cup {0}
Errands ==
  [cmd : {"none", "update", "rollback", "undo", "install", "uninstall", "start", "finalize"},
   child : {"none", "upgrade", "rollback", "install", "uninstall", "start", "finalize"},
   at : Places, target : Some, from : Some, previous : Some,
   token : Tokens \cup {"none", "defer"}, run : Nat]
Markers ==
  [token : Tokens, op : {"upgrade", "rollback", "install"}, phase : {"prepared", "waiting", "applying", "failed"},
   version : Some, source : Some, previous : Some, waits : Processes \X Nat, attempts : Nat]

Shapes ==
  /\ installed \in SUBSET Versions /\ staging \in BOOLEAN /\ pointer \in Some
  /\ record \in [current : Some, previous : Some, written : BOOLEAN]
  /\ launcher \in Tokens \cup {"none", "plain"} /\ gens \in SUBSET Tokens /\ spent \in SUBSET Tokens
  /\ marker \in Markers \cup {None} /\ faults \in 0..MaxFaults
  /\ me \in [Processes -> Errands]
  /\ before \in Some /\ razed \in BOOLEAN /\ gone \in BOOLEAN /\ stolen \in BOOLEAN

(* Whoever is at work has the lock. *)
Locked == \A p \in Processes : me[p].at \in Busy /\ ~stolen => lock = Pid(p)

(* What a process is about. *)
Sent(w, p) ==
  /\ w.at = "idle" <=> w.cmd = "none"
  /\ w.at # "idle" => w.child # "none" /\ w.run # 0
  /\ p \in Tokens => w.child \in {"none", "finalize"}
  /\ w.child \in {"install", "upgrade"} => w.target # 0
  /\ w.at \in {"stage", "place"} => w.child \in {"install", "upgrade"}
  /\ w.at \in {"read", "retire", "launch", "mark", "point", "record", "spawn"} =>
       w.child \in {"install", "upgrade", "rollback"}
  /\ w.at \in {"reconcile"} \cup Applying => w.child # "uninstall"
  /\ w.at \in {"launch", "mark", "point", "record", "spawn"} /\ w.token \in Tokens => Windows
  /\ w.at \in {"mark", "spawn"} => w.token \in Tokens

(* The version to go to is there, and the one to come back to is chosen. *)
Aimed(w) ==
  /\ w.at = "read" /\ w.child # "rollback" => w.target \in installed /\ ~gone
  /\ w.at \in {"retire", "launch", "mark", "point", "record"} =>
       /\ w.target \in installed /\ ~gone
       /\ ~razed => w.previous \in installed \cup {0}
  /\ w.at \in {"retire", "launch", "mark", "point"} /\ ~razed =>
       /\ w.previous = IF record.current \notin {0, w.target} THEN record.current ELSE record.previous
       /\ record.written => record.current = pointer /\ (overtaken = {} => record.previous = before)
  /\ w.at = "record" /\ ~razed => pointer = w.target /\ (overtaken = {} => before = w.previous)

(* The launchers and the marker of an activation. *)
Marked(w) ==
  /\ w.at \in {"mark", "point", "record", "spawn"} /\ w.token \in Tokens => launcher = w.token
  /\ w.at \in {"point", "record", "clear"} /\ (w.token \notin Tokens \/ w.at = "clear") => launcher = "plain"
  /\ w.at \in {"point", "record", "spawn"} /\ w.token \in Tokens =>
       marker # None /\ marker.token = w.token /\ marker.version = w.target /\ marker.previous = w.previous
  /\ w.at \in {"launch", "point"} /\ w.token \notin Tokens /\ marker # None => overtaken # {}

(* An activation that is completed. *)
Applied(w) ==
  /\ w.at \in Applying => marker # None
  /\ w.at = "applyPoint" => launcher = marker.token
  /\ w.at \in {"applyLaunch", "applyPoint"} /\ ~razed =>
       /\ record.written /\ record.current = pointer /\ pointer \in {marker.version, marker.source} \ {0}
       /\ overtaken = {} => record.previous = before
  /\ w.at = "applyRecord" /\ ~razed =>
       /\ pointer = marker.version /\ record.written
       /\ overtaken = {} /\ marker.previous = 0 => record.current = marker.version /\ record.previous = 0

(* An uninstall, from one of its targets to the next. *)
Removed(w) ==
  /\ w.at \in {"bin", "state", "pointer", "marker"} => installed = {} /\ razed
  /\ w.at \in {"state", "pointer", "marker"} => launcher = "none" /\ gens = {}
  /\ w.at \in {"pointer", "marker"} => record = Missing
  /\ w.at = "marker" => pointer = 0

Standing(p) == Sent(me[p], p) /\ Aimed(me[p]) /\ Marked(me[p]) /\ Applied(me[p]) /\ Removed(me[p])

Disk ==
  /\ launcher \in Tokens => launcher \in gens
  /\ ~razed => /\ pointer # 0 => pointer \in installed /\ launcher # "none"
               /\ {record.current, record.previous} \subseteq installed \cup {0}
  /\ UninstallFinal
  /\ marker # None =>
       /\ Windows /\ marker.version # 0
       /\ ~razed => marker.version \in installed /\ marker.previous \in installed \cup {0}

(* The record and the marker know what was current before. *)
Known ==
  /\ pointer = 0 => before = 0
  /\ ~record.written => record = Missing /\ (~razed => before = 0)
  /\ record.written /\ ~razed => pointer # 0 /\ (overtaken = {} => Recovered.previous = before)
  /\ marker # None /\ ~razed /\ overtaken = {} =>
       /\ marker.source \notin {0, marker.version} => marker.previous = marker.source
       /\ pointer = marker.version => before = marker.previous

IInv == Shapes /\ Locked /\ (\A p \in Processes : Standing(p)) /\ Disk /\ Known

---------------------------------------------------------------------------
(* What one process turns to, and what it need not know. *)

Turn(p, w) ==
  me' \in [Processes -> Errands] /\ me'[p] = w /\ \A q \in Processes \ {p} : me'[q] = me[q]

Same(w, v) ==
  /\ w.cmd = v.cmd /\ w.child = v.child /\ w.target = v.target /\ w.from = v.from
  /\ w.previous = v.previous /\ w.token = v.token /\ w.run = v.run

LEMMA TurnIs ==
  ASSUME Shapes, NEW p \in Processes, NEW w \in Errands, me' = [me EXCEPT ![p] = w]
  PROVE  Turn(p, w)
  BY DEF Shapes, Turn

LEMMA GoIs ==
  ASSUME Shapes, NEW p \in Processes, NEW at \in Places, Go(p, at)
  PROVE  \E w \in Errands : Turn(p, w) /\ w.at = at /\ Same(w, me[p])
<1> DEFINE w == [me[p] EXCEPT !.at = at]
<1>1. me[p] \in Errands
  BY DEF Shapes
<1>2. w \in Errands /\ w.at = at /\ Same(w, me[p])
  BY <1>1 DEF Errands, Same
<1>3. me' = [me EXCEPT ![p] = w]
  BY DEF Go
<1> HIDE DEF w
<1> QED
  BY <1>2, <1>3, TurnIs

(* An errand that claims nothing of the files. *)
Claiming == Busy \ {"reconcile", "versions", "unlock", "abandon", "stage", "place"}

LEMMA OffDuty ==
  ASSUME NEW w, w.at \notin Claiming
  PROVE  Aimed(w) /\ Marked(w) /\ Applied(w) /\ Removed(w)
  BY DEF Claiming, Busy, Applying, Aimed, Marked, Applied, Removed

LEMMA OffDutyNext ==
  ASSUME NEW w, w.at \notin Claiming
  PROVE  Aimed(w)' /\ Marked(w)' /\ Applied(w)' /\ Removed(w)'
  BY DEF Claiming, Busy, Applying, Aimed, Marked, Applied, Removed

LEMMA SameFiles ==
  ASSUME NEW w, UNCHANGED <<files, before, razed, gone, overtaken>>,
         Aimed(w), Marked(w), Applied(w), Removed(w)
  PROVE  Aimed(w)' /\ Marked(w)' /\ Applied(w)' /\ Removed(w)'
<1>1. /\ UNCHANGED <<installed, pointer, record, launcher, gens, marker>>
      /\ UNCHANGED <<before, razed, gone, overtaken>>
  BY DEF files
<1> QED
  BY <1>1 DEF Aimed, Marked, Applied, Removed

LEMMA SameDisk ==
  ASSUME Disk, Known, UNCHANGED <<files, before, razed, gone, overtaken>>
  PROVE  Disk' /\ Known'
<1>1. /\ UNCHANGED <<installed, pointer, record, launcher, gens, marker>>
      /\ UNCHANGED <<before, razed, gone, overtaken>>
  BY DEF files
<1> QED
  BY <1>1 DEF Disk, Known, UninstallFinal, Recovered

LEMMA Alone ==
  ASSUME IInv, ~stolen, NEW p \in Processes, me[p].at \in Busy, NEW q \in Processes, q # p
  PROVE  me[q].at \notin Busy
  BY DEF IInv, Locked, Pid

LEMMA Nobody ==
  ASSUME IInv, ~stolen, lock = Unlocked, NEW q \in Processes
  PROVE  me[q].at \notin Busy
<1>1. me[q].at \in Busy => me[q].run # 0
  BY DEF IInv, Standing, Sent, Busy, Applying
<1> QED
  BY <1>1 DEF IInv, Locked, Pid, Unlocked

(* A step of one that works. *)
LEMMA WorkKeeps ==
  ASSUME IInv, ~stolen, stolen' = stolen, lock' = lock, NEW p \in Processes, me[p].at \in Busy,
         NEW w \in Errands, Turn(p, w), w.run = me[p].run, Shapes', Disk', Known',
         Sent(w, p), Aimed(w)', Marked(w)', Applied(w)', Removed(w)'
  PROVE  IInv'
<1>1. \A q \in Processes \ {p} : me'[q] = me[q] /\ me[q].at \notin Busy
  BY Alone DEF Turn
<1>2. Locked'
  BY <1>1 DEF IInv, Locked, Pid, Turn
<1>3. ASSUME NEW q \in Processes PROVE Standing(q)'
  <2>1. CASE q = p
    BY <2>1 DEF Standing, Turn, Sent
  <2>2. CASE q # p
    <3>1. PICK v : v = me[q]
      OBVIOUS
    <3>2. me'[q] = v /\ Sent(v, q) /\ v.at \notin Claiming
      BY <1>1, <2>2, <3>1 DEF IInv, Standing, Claiming
    <3>3. Aimed(v)' /\ Marked(v)' /\ Applied(v)' /\ Removed(v)'
      BY <3>2, OffDutyNext
    <3> QED
      BY <3>2, <3>3 DEF Standing, Sent
  <2> QED
    BY <2>1, <2>2
<1> QED
  BY <1>2, <1>3 DEF IInv

(* A step that leaves the files and the lock alone, of one that does not work. *)
LEMMA RestKeeps ==
  ASSUME IInv, UNCHANGED <<files, before, razed, gone, overtaken, lock, stolen, spent>>,
         faults' \in 0..MaxFaults, NEW p \in Processes, NEW w \in Errands, Turn(p, w),
         w.at \notin Busy, Sent(w, p)
  PROVE  IInv'
<1>1. \A q \in Processes \ {p} : me'[q] = me[q]
  BY DEF Turn
<1>2. Locked'
  BY <1>1 DEF IInv, Locked, Pid, Turn
<1>3. Shapes'
  BY DEF IInv, Shapes, Turn, files
<1>4. Disk' /\ Known'
  BY SameDisk DEF IInv
<1>5. ASSUME NEW q \in Processes PROVE Standing(q)'
  <2>1. CASE q = p
    <3>1. Aimed(w)' /\ Marked(w)' /\ Applied(w)' /\ Removed(w)'
      BY OffDutyNext DEF Claiming
    <3> QED
      BY <2>1, <3>1 DEF Standing, Turn, Sent
  <2>2. CASE q # p
    <3>1. PICK v : v = me[q]
      OBVIOUS
    <3>2. me'[q] = v /\ Sent(v, q) /\ Aimed(v) /\ Marked(v) /\ Applied(v) /\ Removed(v)
      BY <1>1, <2>2, <3>1 DEF IInv, Standing
    <3>3. Aimed(v)' /\ Marked(v)' /\ Applied(v)' /\ Removed(v)'
      BY <3>2, SameFiles
    <3> QED
      BY <3>2, <3>3 DEF Standing, Sent
  <2> QED
    BY <2>1, <2>2
<1> QED
  BY <1>2, <1>3, <1>4, <1>5 DEF IInv

---------------------------------------------------------------------------
(* The beginning, and the steps that leave the files alone *)

LEMMA InitInv == ASSUME InstallerAssumption, Init PROVE IInv
<1>1. /\ Idle \in Errands /\ Idle.at = "idle" /\ Idle.cmd = "none" /\ Idle.child = "none"
  BY DEF Idle, Errands, Places, Some
<1>2. /\ me = [p \in Processes |-> Idle] /\ marker = None /\ before = 0 /\ pointer = First
      /\ installed = {First} \ {0} /\ ~razed /\ ~gone /\ ~stolen /\ overtaken = {} /\ gens = {}
      /\ launcher = (IF First = 0 THEN "none" ELSE "plain")
      /\ record = [current |-> First, previous |-> 0, written |-> First # 0]
  BY DEF Init
<1>3. Shapes
  <2>1. First # 0 => First \in Versions
    BY DEF InstallerAssumption
  <2>2. record \in [current : Some, previous : Some, written : BOOLEAN]
    BY <1>2, <2>1 DEF Some
  <2>3. me \in [Processes -> Errands]
    BY <1>1, <1>2
  <2>4. /\ installed \in SUBSET Versions /\ launcher \in Tokens \cup {"none", "plain"}
        /\ gens \in SUBSET Tokens /\ pointer \in Some /\ before \in Some
    BY <1>2, <2>1 DEF Some
  <2>5. /\ staging \in BOOLEAN /\ spent \in SUBSET Tokens /\ faults \in 0..MaxFaults
        /\ razed \in BOOLEAN /\ gone \in BOOLEAN /\ stolen \in BOOLEAN
    <3>1. /\ staging \in BOOLEAN /\ spent = {} /\ faults = 0
          /\ razed = FALSE /\ gone = FALSE /\ stolen = FALSE
      BY DEF Init
    <3>2. faults \in 0..MaxFaults
      BY <3>1 DEF InstallerAssumption
    <3> QED
      BY <3>1, <3>2
  <2>6. marker \in Markers \cup {None}
    BY <1>2
  <2> QED
    BY <2>2, <2>3, <2>4, <2>5, <2>6 DEF Shapes
<1>4. ASSUME NEW p \in Processes PROVE Standing(p) /\ me[p].at \notin Busy
  <2>1. me[p] = Idle
    BY <1>2
  <2>2. Idle.at \notin Busy /\ Idle.at \notin Claiming
    BY <1>1 DEF Busy, Applying, Claiming
  <2>3. Sent(Idle, p)
    BY <1>1 DEF Sent, Applying
  <2> QED
    BY <2>1, <2>2, <2>3, OffDuty DEF Standing
<1>5. Disk
  BY <1>2 DEF Disk, UninstallFinal, InstallerAssumption
<1>6. Known
  <2>1. First = 0 => record = Missing
    BY <1>2 DEF Missing
  <2>2. record.written <=> First # 0
    BY <1>2
  <2>3. Recovered = record
    BY <1>2 DEF Recovered
  <2> QED
    BY <1>2, <2>1, <2>2, <2>3 DEF Known
<1> QED
  BY <1>3, <1>4, <1>5, <1>6 DEF IInv, Locked

LEMMA RunsKeeps ==
  ASSUME InstallerAssumption, IInv, NEW p \in Commands,
         NEW cmd \in {"update", "rollback", "install", "uninstall", "start"},
         NEW child \in {"upgrade", "rollback", "install", "uninstall", "start"},
         NEW target \in Some, NEW token \in Tokens \cup {"none", "defer"},
         child \in {"install", "upgrade"} => target # 0,
         Runs(p, cmd, child, target, token)
  PROVE  IInv'
<1> DEFINE w == [cmd |-> cmd, child |-> child, at |-> "lock", target |-> target,
                 from |-> pointer, previous |-> 0, token |-> token, run |-> me[p].run + 1]
<1>1. p \in Processes /\ p \notin Tokens
  BY DEF Processes, InstallerAssumption
<1>2. me[p].run \in Nat
  BY <1>1 DEF IInv, Shapes, Errands
<1>3. w \in Errands /\ w.at = "lock" /\ w.cmd = cmd /\ w.child = child /\ w.target = target /\ w.run # 0
  BY <1>2 DEF IInv, Shapes, Errands, Places, Some
<1>4. me' = [me EXCEPT ![p] = w]
      /\ UNCHANGED <<files, lock, spent, faults, before, razed, gone, stolen, overtaken>>
  BY DEF Runs
<1> HIDE DEF w
<1>5. Turn(p, w)
  BY <1>1, <1>3, <1>4, TurnIs DEF IInv
<1>6. Sent(w, p) /\ w.at \notin Busy
  BY <1>1, <1>3 DEF Sent, Busy, Applying
<1> QED
  BY <1>1, <1>3, <1>4, <1>5, <1>6, RestKeeps DEF IInv, Shapes

LEMMA CommandKeeps ==
  ASSUME InstallerAssumption, IInv, ~stolen, NEW p \in Commands, CommandNext(p)
  PROVE  IInv'
<1>0. /\ Versions \subseteq Some \ {0} /\ 0 \in Some
      /\ \A version : Deferral(version) \in Tokens \cup {"none", "defer"}
  BY DEF Some, InstallerAssumption, Deferral
<1>1. CASE UpdateApplication(p)
  BY <1>0, <1>1, RunsKeeps DEF UpdateApplication
<1>2. CASE RollbackApplication(p)
  BY <1>0, <1>2, RunsKeeps DEF RollbackApplication
<1>3. CASE Install(p)
  BY <1>0, <1>3, RunsKeeps DEF Install
<1>4. CASE UninstallApplication(p)
  BY <1>0, <1>4, RunsKeeps DEF UninstallApplication
<1>5. CASE StartProgram(p)
  <2>1. launcher \in Tokens
    BY <1>5 DEF StartProgram, IInv, Shapes
  <2> QED
    BY <1>0, <1>5, <2>1, RunsKeeps DEF StartProgram
<1>6. CASE RollBack(p)
  <2> DEFINE back == [me[p] EXCEPT !.child = "rollback", !.at = "lock", !.token = Deferral(2)]
             undo == [me[p] EXCEPT !.cmd = "undo", !.at = "lock",
                                   !.token = IF me[p].token \in Tokens THEN "defer" ELSE "none"]
  <2>1. p \in Processes /\ p \notin Tokens
    BY DEF Processes, InstallerAssumption
  <2>2. me[p] \in Errands /\ me[p].at = "returned" /\ Sent(me[p], p)
    BY <1>6, <2>1 DEF RollBack, At, IInv, Shapes, Standing
  <2>3. /\ back \in Errands /\ back.at = "lock" /\ back.child = "rollback" /\ back.run = me[p].run
        /\ back.cmd = me[p].cmd
    BY <1>0, <2>2 DEF Errands, Places
  <2>4. /\ undo \in Errands /\ undo.at = "lock" /\ undo.child = me[p].child /\ undo.run = me[p].run
        /\ undo.cmd = "undo" /\ undo.target = me[p].target
    BY <2>2 DEF Errands, Places
  <2>5. /\ me' = [me EXCEPT ![p] = back] \/ me' = [me EXCEPT ![p] = undo]
        /\ UNCHANGED <<files, lock, spent, faults, before, razed, gone, stolen, overtaken>>
    BY <1>6 DEF RollBack, ghosts
  <2>6. Sent(back, p) /\ Sent(undo, p)
    BY <2>1, <2>2, <2>3, <2>4 DEF Sent, Applying
  <2>7. back.at \notin Busy /\ undo.at \notin Busy
    BY <2>3, <2>4 DEF Busy, Applying
  <2> HIDE DEF back, undo
  <2>8. CASE me' = [me EXCEPT ![p] = back]
    <3>1. Turn(p, back)
      BY <2>1, <2>3, <2>8, TurnIs DEF IInv
    <3> QED
      BY <2>1, <2>3, <2>5, <2>6, <2>7, <3>1, RestKeeps DEF IInv, Shapes
  <2>9. CASE me' = [me EXCEPT ![p] = undo]
    <3>1. Turn(p, undo)
      BY <2>1, <2>4, <2>9, TurnIs DEF IInv
    <3> QED
      BY <2>1, <2>4, <2>5, <2>6, <2>7, <3>1, RestKeeps DEF IInv, Shapes
  <2> QED
    BY <2>5, <2>8, <2>9
<1> QED
  BY <1>1, <1>2, <1>3, <1>4, <1>5, <1>6 DEF CommandNext

LEMMA FailsIs ==
  ASSUME IInv, NEW p \in Processes, me[p].at # "idle", NEW at \in Places \ {"idle"}, Go(p, at)
  PROVE  \E w \in Errands :
           /\ Turn(p, w) /\ w.at = at /\ Same(w, me[p])
           /\ at \notin Busy => Sent(w, p)
<1>1. PICK w \in Errands : Turn(p, w) /\ w.at = at /\ Same(w, me[p])
  BY GoIs DEF IInv
<1>2. Sent(me[p], p)
  BY DEF IInv, Standing
<1>3. at \notin Busy => Sent(w, p)
  BY <1>1, <1>2 DEF Sent, Same, Busy, Applying
<1> QED
  BY <1>1, <1>3

LEMMA AcquireKeeps ==
  ASSUME IInv, ~stolen, NEW p \in Processes, Acquire(p)
  PROVE  IInv'
<1>1. /\ me[p].at \in {"lock", "again"} /\ lock = Unlocked /\ lock' = Pid(p)
      /\ UNCHANGED <<files, spent, faults, ghosts>>
  BY DEF Acquire
<1>2. PICK at \in {"versions", "reconcile"} :
        /\ Go(p, at)
        /\ at = "reconcile" => me[p].child # "uninstall"
  BY DEF Acquire
<1>3. at \in Places /\ at \notin Claiming
  BY DEF Places, Busy, Applying, Claiming
<1>4. PICK w \in Errands : Turn(p, w) /\ w.at = at /\ Same(w, me[p])
  BY <1>2, <1>3, GoIs DEF IInv
<1>5. Sent(w, p)
  <2>1. Sent(me[p], p)
    BY DEF IInv, Standing
  <2> QED
    BY <1>1, <1>2, <1>4, <2>1 DEF Sent, Same, Applying
<1>6. UNCHANGED <<before, razed, gone, overtaken, stolen>>
  BY <1>1 DEF ghosts
<1>7. \A q \in Processes : me[q].at \notin Busy
  BY <1>1, Nobody
<1>8. Locked'
  BY <1>1, <1>4, <1>7 DEF Locked, Turn, Pid, Same
<1>9. Shapes'
  BY <1>1, <1>4, <1>6 DEF IInv, Shapes, Turn, files
<1>10. Disk' /\ Known'
  BY <1>1, <1>6, SameDisk DEF IInv
<1>11. ASSUME NEW q \in Processes PROVE Standing(q)'
  <2>1. PICK v : v = me'[q]
    OBVIOUS
  <2>2. v.at \notin Claiming /\ Sent(v, q)
    BY <1>3, <1>4, <1>5, <1>7, <2>1 DEF Turn, Claiming, IInv, Standing
  <2>3. Aimed(v)' /\ Marked(v)' /\ Applied(v)' /\ Removed(v)'
    BY <2>2, OffDutyNext
  <2> QED
    BY <2>1, <2>2, <2>3 DEF Standing, Sent
<1> QED
  BY <1>8, <1>9, <1>10, <1>11 DEF IInv

LEMMA SeeStaleKeeps ==
  ASSUME IInv, NEW p \in Processes, SeeStale(p)
  PROVE  IInv'
<1>1. /\ me[p].at = "lock" /\ Go(p, "stale") /\ "stale" \in Places /\ "stale" \notin Busy
      /\ UNCHANGED <<files, lock, spent, faults, ghosts>>
  BY DEF SeeStale, At, Places, Busy, Applying
<1>2. PICK w \in Errands : Turn(p, w) /\ w.at = "stale" /\ Sent(w, p)
  BY <1>1, FailsIs
<1>3. UNCHANGED <<files, before, razed, gone, overtaken, lock, stolen, spent>>
      /\ faults' \in 0..MaxFaults
  BY <1>1 DEF ghosts, IInv, Shapes
<1> QED
  BY <1>1, <1>2, <1>3, RestKeeps

LEMMA RefusedKeeps ==
  ASSUME IInv, NEW p \in Processes, Refused(p)
  PROVE  IInv'
<1>1. /\ me[p].at \in {"lock", "again"} /\ Go(p, "failed")
      /\ "failed" \in Places /\ "failed" \notin Busy
      /\ UNCHANGED <<files, lock, spent, faults, ghosts>>
  BY DEF Refused, Fails, Go, At, Places, Busy, Applying
<1>2. PICK w \in Errands : Turn(p, w) /\ w.at = "failed" /\ Sent(w, p)
  BY <1>1, FailsIs
<1>3. UNCHANGED <<files, before, razed, gone, overtaken, lock, stolen, spent>>
      /\ faults' \in 0..MaxFaults
  BY <1>1 DEF ghosts, IInv, Shapes
<1> QED
  BY <1>1, <1>2, <1>3, RestKeeps

LEMMA TakeStaleKeeps ==
  ASSUME IInv, ~stolen, NEW p \in Processes, TakeStale(p)
  PROVE  IInv'
<1>1. /\ me[p].at = "stale" /\ Go(p, "again") /\ "again" \in Places /\ "again" \notin Busy
      /\ lock' = Unlocked
      /\ stolen' = (stolen \/ (lock # Unlocked /\ Alive(lock)))
      /\ UNCHANGED <<files, spent, faults, before, razed, gone, overtaken>>
  BY DEF TakeStale, At, Places, Busy, Applying
<1>2. PICK w \in Errands : Turn(p, w) /\ w.at = "again" /\ Sent(w, p)
  BY <1>1, FailsIs
<1>3. stolen' \in BOOLEAN
  BY <1>1
<1>4. Locked'
  <2>1. SUFFICES ASSUME NEW q \in Processes, me'[q].at \in Busy, ~stolen' PROVE FALSE
    BY DEF Locked
  <2>2. q # p /\ me[q].at \in Busy
    BY <1>1, <1>2, <2>1 DEF Turn
  <2>3. lock = Pid(q) /\ me[q].cmd # "none" /\ me[q].run # 0
    BY <2>2 DEF IInv, Locked, Standing, Sent, Busy, Applying
  <2>4. lock[1] = q /\ lock[2] = me[q].run /\ lock # Unlocked
    BY <2>3 DEF Pid, Unlocked
  <2>5. Alive(lock)
    BY <2>3, <2>4 DEF Alive
  <2> QED
    BY <1>1, <2>1, <2>4, <2>5
<1>5. Shapes'
  BY <1>1, <1>2, <1>3 DEF IInv, Shapes, Turn, files
<1>6. Disk' /\ Known'
  BY <1>1, SameDisk DEF IInv
<1>7. ASSUME NEW q \in Processes PROVE Standing(q)'
  <2>1. PICK v : v = me'[q]
    OBVIOUS
  <2>2. CASE q = p
    <3>1. v = w /\ v.at \notin Claiming
      BY <1>1, <1>2, <2>1, <2>2 DEF Turn, Claiming
    <3>2. Aimed(v)' /\ Marked(v)' /\ Applied(v)' /\ Removed(v)'
      BY <3>1, OffDutyNext
    <3> QED
      BY <1>2, <2>1, <2>2, <3>1, <3>2 DEF Standing, Sent
  <2>3. CASE q # p
    <3>1. v = me[q]
      BY <1>2, <2>1, <2>3 DEF Turn
    <3>2. Sent(v, q) /\ Aimed(v) /\ Marked(v) /\ Applied(v) /\ Removed(v)
      BY <3>1 DEF IInv, Standing
    <3>3. Aimed(v)' /\ Marked(v)' /\ Applied(v)' /\ Removed(v)'
      BY <1>1, <3>2, SameFiles
    <3> QED
      BY <2>1, <3>2, <3>3 DEF Standing, Sent
  <2> QED
    BY <2>2, <2>3
<1> QED
  BY <1>4, <1>5, <1>6, <1>7 DEF IInv

LEMMA ReleaseKeeps ==
  ASSUME IInv, ~stolen, NEW p \in Processes, Release(p)
  PROVE  IInv'
<1>1. /\ me[p].at \in {"unlock", "abandon"} /\ UNCHANGED <<files, spent, faults, ghosts>>
      /\ \E at \in {"returned", "failed"} : Go(p, at)
      /\ lock' = IF lock = Pid(p) THEN Unlocked ELSE lock
  BY DEF Release
<1>2. PICK at \in {"returned", "failed"} : Go(p, at)
  BY <1>1
<1>3. at \in Places \ {"idle"} /\ at \notin Busy /\ at \notin Claiming
  BY DEF Places, Busy, Applying, Claiming
<1>4. PICK w \in Errands : Turn(p, w) /\ w.at = at /\ Sent(w, p)
  BY <1>1, <1>2, <1>3, FailsIs
<1>5. me[p].at \in Busy /\ lock = Pid(p)
  BY <1>1 DEF Busy, IInv, Locked
<1>6. \A q \in Processes : me'[q].at \notin Busy
  BY <1>3, <1>4, <1>5, Alone DEF Turn
<1>7. Shapes'
  <2>1. UNCHANGED <<before, razed, gone, overtaken, stolen>>
    BY <1>1 DEF ghosts
  <2> QED
    BY <1>1, <1>4, <2>1 DEF IInv, Shapes, Turn, files
<1>8. Disk' /\ Known'
  BY <1>1, SameDisk DEF IInv, ghosts
<1>9. ASSUME NEW q \in Processes PROVE Standing(q)'
  <2>1. PICK v : v = me'[q]
    OBVIOUS
  <2>2. v.at \notin Claiming /\ Sent(v, q)
    BY <1>4, <1>6, <2>1 DEF Turn, Claiming, IInv, Standing
  <2>3. Aimed(v)' /\ Marked(v)' /\ Applied(v)' /\ Removed(v)'
    BY <2>2, OffDutyNext
  <2> QED
    BY <2>1, <2>2, <2>3 DEF Standing, Sent
<1> QED
  BY <1>6, <1>7, <1>8, <1>9 DEF IInv, Locked

(* What the files claim of a marker is not said of its phase. *)
LEMMA PhaseIs ==
  ASSUME NEW M \in Markers, NEW phase \in {"prepared", "waiting", "applying", "failed"}
  PROVE  LET N == [M EXCEPT !.phase = phase]
         IN  /\ N \in Markers /\ N.token = M.token /\ N.version = M.version
             /\ N.source = M.source /\ N.previous = M.previous
  BY DEF Markers

LEMMA NoneIs ==
  ASSUME InstallerAssumption, NEW M \in Markers \cup {None}
  PROVE  /\ M # None <=> M \in Markers
         /\ M # None <=> M.token \in Tokens
         /\ M.token \in Tokens \cup {"none"}
<1>1. None.token = "none" /\ "none" \notin Tokens
  BY DEF None, InstallerAssumption
<1>2. M \in Markers => M.token \in Tokens
  BY DEF Markers
<1> QED
  BY <1>1, <1>2

Phased == marker' = marker \/ /\ marker # None /\ marker' \in Markers
                              /\ marker'.token = marker.token /\ marker'.version = marker.version
                              /\ marker'.source = marker.source /\ marker'.previous = marker.previous

LEMMA PhasedDisk ==
  ASSUME InstallerAssumption, Disk, Known, Phased,
         UNCHANGED <<installed, pointer, record, launcher, gens, before, razed, gone, overtaken>>
  PROVE  Disk' /\ Known'
<1>1. /\ marker' # None <=> marker # None
      /\ marker # None => /\ marker'.version = marker.version
                          /\ marker'.source = marker.source /\ marker'.previous = marker.previous
  BY NoneIs DEF Phased
<1> QED
  BY <1>1 DEF Disk, Known, UninstallFinal, Recovered

LEMMA AwaitKeeps ==
  ASSUME InstallerAssumption, IInv, ~stolen, NEW t \in Tokens, Await(t)
  PROVE  IInv'
<1>1. /\ t \in Processes /\ me[t].at = "await"
      /\ UNCHANGED <<installed, staging, pointer, record, launcher, gens, spent, faults, ghosts, lock>>
  BY DEF Await, Processes, At
<1>2. UNCHANGED <<before, razed, gone, overtaken, stolen>>
  BY <1>1 DEF ghosts
<1>3. \E w \in Errands : Turn(t, w) /\ w.at \notin Busy /\ Sent(w, t)
  <2>1. CASE me' = [me EXCEPT ![t] = Idle]
    <3>1. /\ Idle \in Errands /\ Idle.at = "idle" /\ Idle.cmd = "none" /\ Idle.child = "none"
      BY DEF Idle, Errands, Places, Some
    <3>2. Sent(Idle, t) /\ Idle.at \notin Busy
      BY <3>1 DEF Sent, Applying, Busy
    <3>3. Turn(t, Idle)
      BY <1>1, <2>1, <3>1, TurnIs DEF IInv
    <3> QED
      BY <3>1, <3>2, <3>3
  <2>2. CASE Go(t, "lock")
    <3>1. "lock" \in Places \ {"idle"} /\ "lock" \notin Busy
      BY DEF Places, Busy, Applying
    <3> QED
      BY <1>1, <2>2, <3>1, FailsIs
  <2> QED
    BY <2>1, <2>2 DEF Await
<1>4. PICK w \in Errands : Turn(t, w) /\ w.at \notin Busy /\ Sent(w, t)
  BY <1>3
<1>5. CASE marker' = marker
  <2>1. UNCHANGED <<files, before, razed, gone, overtaken, lock, stolen, spent>>
        /\ faults' \in 0..MaxFaults
    BY <1>1, <1>2, <1>5 DEF files, IInv, Shapes
  <2> QED
    BY <1>1, <1>4, <2>1, RestKeeps
<1>6. CASE marker' # marker
  <2>1. marker' = [marker EXCEPT !.phase = "failed"] /\ lock = Unlocked /\ marker.token = t
    BY <1>6 DEF Await
  <2>2. marker \in Markers
    BY <2>1, NoneIs DEF IInv, Shapes
  <2>3. Phased
    BY <2>1, <2>2, PhaseIs, NoneIs DEF Phased
  <2>4. Disk' /\ Known'
    BY <1>1, <1>2, <2>3, PhasedDisk DEF IInv
  <2>5. \A q \in Processes : me'[q].at \notin Busy
    BY <1>4, <2>1, Nobody DEF Turn
  <2>6. Shapes'
    BY <1>1, <1>2, <1>4, <2>1, <2>2, <2>3 DEF IInv, Shapes, Turn, Phased
  <2>7. ASSUME NEW q \in Processes PROVE Standing(q)'
    <3>1. PICK v : v = me'[q]
      OBVIOUS
    <3>2. v.at \notin Claiming /\ Sent(v, q)
      BY <1>4, <2>5, <3>1 DEF Turn, Claiming, IInv, Standing
    <3>3. Aimed(v)' /\ Marked(v)' /\ Applied(v)' /\ Removed(v)'
      BY <3>2, OffDutyNext
    <3> QED
      BY <3>1, <3>2, <3>3 DEF Standing, Sent
  <2> QED
    BY <2>4, <2>5, <2>6, <2>7 DEF IInv, Locked
<1> QED
  BY <1>5, <1>6

LEMMA DieKeeps ==
  ASSUME InstallerAssumption, IInv, Die
  PROVE  IInv'
<1>1. PICK dead : me' = [p \in Processes |-> IF p \in dead THEN [Idle EXCEPT !.run = me[p].run] ELSE me[p]]
  BY DEF Die
<1>2. /\ UNCHANGED <<files, lock, spent, before, razed, gone, overtaken, stolen>>
      /\ faults' \in 0..MaxFaults
  BY DEF Die, ghosts, IInv, Shapes, InstallerAssumption
<1>3. ASSUME NEW p \in Processes
      PROVE  /\ [Idle EXCEPT !.run = me[p].run] \in Errands
             /\ [Idle EXCEPT !.run = me[p].run].at = "idle"
             /\ [Idle EXCEPT !.run = me[p].run].cmd = "none"
             /\ [Idle EXCEPT !.run = me[p].run].child = "none"
             /\ me[p] \in Errands
  BY DEF Idle, Errands, Places, Some, IInv, Shapes
<1>4. me' \in [Processes -> Errands]
  BY <1>1, <1>3
<1>5. ASSUME NEW p \in Processes
      PROVE  me'[p] = me[p] \/ (me'[p].at = "idle" /\ me'[p].cmd = "none" /\ me'[p].child = "none")
  BY <1>1, <1>3
<1>6. Shapes'
  BY <1>2, <1>4 DEF IInv, Shapes, files
<1>7. Disk' /\ Known'
  BY <1>2, SameDisk DEF IInv
<1>8. Locked'
  BY <1>2, <1>5 DEF IInv, Locked, Pid, Busy, Applying
<1>9. ASSUME NEW q \in Processes PROVE Standing(q)'
  <2>1. PICK v : v = me'[q]
    OBVIOUS
  <2>2. CASE v = me[q]
    <3>1. Sent(v, q) /\ Aimed(v) /\ Marked(v) /\ Applied(v) /\ Removed(v)
      BY <2>2 DEF IInv, Standing
    <3>2. Aimed(v)' /\ Marked(v)' /\ Applied(v)' /\ Removed(v)'
      BY <1>2, <3>1, SameFiles
    <3> QED
      BY <2>1, <3>1, <3>2 DEF Standing, Sent
  <2>3. CASE v.at = "idle" /\ v.cmd = "none" /\ v.child = "none"
    <3>1. v.at \notin Claiming /\ Sent(v, q)
      BY <2>3 DEF Claiming, Busy, Applying, Sent
    <3>2. Aimed(v)' /\ Marked(v)' /\ Applied(v)' /\ Removed(v)'
      BY <3>1, OffDutyNext
    <3> QED
      BY <2>1, <3>1, <3>2 DEF Standing, Sent
  <2> QED
    BY <1>5, <2>1, <2>2, <2>3
<1> QED
  BY <1>6, <1>7, <1>8, <1>9 DEF IInv

---------------------------------------------------------------------------
(* Reconciling: an activation is completed *)

LEMMA RecoveredIs ==
  ASSUME Shapes
  PROVE  /\ Recovered \in [current : Some, previous : Some, written : BOOLEAN]
         /\ Recovered.written = record.written
         /\ ~record.written => Recovered = record
         /\ pointer = 0 => Recovered = record
         /\ record.written /\ pointer # 0 => Recovered.current = pointer
         /\ {Recovered.current, Recovered.previous} \subseteq {pointer, record.current, record.previous}
<1>1. record \in [current : Some, previous : Some, written : BOOLEAN] /\ pointer \in Some
  BY DEF Shapes
<1> QED
  BY <1>1 DEF Recovered

(* Recovering is done once. *)
LEMMA RecoveredOnce ==
  ASSUME Shapes, record' = Recovered, pointer' = pointer
  PROVE  Recovered' = Recovered
<1>1. CASE ~record.written \/ pointer = 0
  <2>1. record' = record
    BY <1>1, RecoveredIs
  <2> QED
    BY <2>1 DEF Recovered
<1>2. CASE record.written /\ pointer # 0
  <2>1. record'.current = pointer'
    BY <1>2, RecoveredIs
  <2> QED
    BY <2>1 DEF Recovered
<1> QED
  BY <1>1, <1>2

LEMMA RecoveredKeeps ==
  ASSUME IInv, record' = Recovered,
         UNCHANGED <<installed, pointer, launcher, gens, marker, before, razed, gone, overtaken>>
  PROVE  Disk' /\ Known'
<1>1. Shapes /\ Disk /\ Known
  BY DEF IInv
<1>2. Recovered' = Recovered
  BY <1>1, RecoveredOnce
<1>3. Disk'
  <2>1. ~razed => {record'.current, record'.previous} \subseteq installed \cup {0}
    BY <1>1, RecoveredIs DEF Disk
  <2>2. gone => record' = Missing
    <3>1. gone => pointer = 0
      BY <1>1 DEF Disk, UninstallFinal
    <3> QED
      BY <1>1, <3>1, RecoveredIs DEF Disk, UninstallFinal
  <2> QED
    BY <1>1, <2>1, <2>2 DEF Disk, UninstallFinal
<1>4. Known'
  BY <1>1, <1>2, RecoveredIs DEF Known
<1> QED
  BY <1>3, <1>4

(* What comes after it. *)
LEMMA AfterKeeps ==
  ASSUME InstallerAssumption, IInv, ~stolen, NEW p \in Processes,
         me[p].at \in {"reconcile", "applyRetire"}, Go(p, AfterReconcile(p)),
         UNCHANGED <<lock, stolen>>, Disk', Known',
         UNCHANGED <<installed, staging, pointer, launcher, gens, spent, faults, before, razed, gone>>,
         record' \in [current : Some, previous : Some, written : BOOLEAN],
         marker' \in Markers \cup {None}
  PROVE  IInv'
<1>1. PICK at \in {"unlock", "read", "stage"} :
        /\ Go(p, at)
        /\ at = "read" => me[p].child = "rollback"
        /\ at = "stage" => me[p].child \notin {"start", "finalize", "rollback"}
  BY DEF AfterReconcile
<1>2. PICK w \in Errands : Turn(p, w) /\ w.at = at /\ Same(w, me[p])
  <2>1. at \in Places
    BY DEF Places, Busy
  <2> QED
    BY <1>1, <2>1, GoIs DEF IInv
<1>3. me[p] \in Errands /\ Sent(me[p], p) /\ me[p].at \in Busy
  BY DEF IInv, Shapes, Standing, Busy, Applying
<1>4. Sent(w, p)
  <2>1. me[p].child \in {"none", "upgrade", "rollback", "install", "uninstall", "start", "finalize"}
        /\ me[p].child \notin {"none", "uninstall"} /\ me[p].at # "idle"
    BY <1>3 DEF Sent, Applying, Errands
  <2> QED
    BY <1>1, <1>2, <1>3, <2>1 DEF Sent, Same, Applying
<1>5. Aimed(w)' /\ Marked(w)' /\ Applied(w)' /\ Removed(w)'
  BY <1>1, <1>2 DEF Same, Aimed, Marked, Applied, Removed, Applying
<1>6. Shapes'
  BY <1>2 DEF IInv, Shapes, Turn
<1> QED
  BY <1>2, <1>3, <1>4, <1>5, <1>6, WorkKeeps DEF Same

LEMMA NothingPendingKeeps ==
  ASSUME InstallerAssumption, IInv, ~stolen, NEW p \in Processes, NothingPending(p)
  PROVE  IInv'
<1>1. /\ me[p].at = "reconcile" /\ Go(p, AfterReconcile(p))
      /\ UNCHANGED <<installed, staging, pointer, record, launcher, gens, lock, spent, faults>>
      /\ UNCHANGED <<before, razed, gone, overtaken, stolen>>
      /\ marker' \in IF Own(p) THEN {marker, [marker EXCEPT !.phase = "failed"]} ELSE {marker}
  BY DEF NothingPending, Keeps, ghosts, At
<1>2. marker \in Markers \cup {None} /\ record \in [current : Some, previous : Some, written : BOOLEAN]
  BY DEF IInv, Shapes
<1>3. Phased /\ marker' \in Markers \cup {None}
  BY <1>1, <1>2, PhaseIs DEF Phased, Own
<1>4. Disk' /\ Known'
  BY <1>1, <1>3, PhasedDisk DEF IInv
<1> QED
  BY <1>1, <1>2, <1>3, <1>4, AfterKeeps

LEMMA BeginApplyKeeps ==
  ASSUME InstallerAssumption, IInv, ~stolen, NEW p \in Processes, BeginApply(p)
  PROVE  IInv'
<1>1. /\ me[p].at = "reconcile" /\ marker # None
      /\ UNCHANGED <<installed, staging, pointer, launcher, gens, lock, spent, faults>>
      /\ UNCHANGED <<before, razed, gone, overtaken, stolen>>
      /\ record' = IF Unread THEN record ELSE Recovered
  BY DEF BeginApply, Keeps, ghosts, At, Own
<1>2. Shapes /\ Disk /\ Known /\ me[p].at \in Busy /\ Sent(me[p], p)
  BY <1>1 DEF IInv, Standing, Busy
<1>3. marker \in Markers
  BY <1>1, <1>2, NoneIs DEF Shapes
<1>4. record' \in [current : Some, previous : Some, written : BOOLEAN]
  BY <1>1, <1>2, RecoveredIs DEF Shapes
(* The record as it is recovered, and then the marker. *)
<1>5. ASSUME marker' = None \/ (marker' \in Markers /\ Phased)
      PROVE  Disk' /\ Known'
  <2>1. marker' # None => /\ marker'.version = marker.version /\ marker'.source = marker.source
                          /\ marker'.previous = marker.previous
    BY <1>3, <1>5, NoneIs DEF Phased
  <2>2. CASE Unread
    BY <1>1, <1>2, <2>1, <2>2 DEF Disk, Known, UninstallFinal, Recovered
  <2>3. CASE ~Unread
    <3>1. record' = Recovered /\ Recovered' = Recovered
      BY <1>1, <1>2, <2>3, RecoveredOnce
    <3>2. ~razed => {record'.current, record'.previous} \subseteq installed \cup {0}
      BY <1>2, <3>1, RecoveredIs DEF Disk
    <3>3. ~gone
      BY <1>1, <1>2 DEF Disk, UninstallFinal
    <3>4. Disk'
      BY <1>1, <1>2, <2>1, <3>2, <3>3 DEF Disk, UninstallFinal
    <3>5. Known'
      BY <1>1, <1>2, <2>1, <3>1, RecoveredIs DEF Known
    <3> QED
      BY <3>4, <3>5
  <2> QED
    BY <2>2, <2>3
<1>6. ASSUME Go(p, "abandon"), marker' = None \/ (marker' \in Markers /\ Phased)
      PROVE  IInv'
  <2>1. PICK w \in Errands : Turn(p, w) /\ w.at = "abandon" /\ Same(w, me[p])
    <3>1. "abandon" \in Places
      BY DEF Places, Busy
    <3> QED
      BY <1>2, <1>6, <3>1, GoIs
  <2>2. Sent(w, p) /\ w.at \notin Claiming
    BY <1>1, <1>2, <2>1 DEF Sent, Same, Applying, Claiming
  <2>3. Shapes'
    BY <1>1, <1>2, <1>4, <1>6, <2>1 DEF Shapes, Turn
  <2>4. Aimed(w)' /\ Marked(w)' /\ Applied(w)' /\ Removed(w)'
    BY <2>2, OffDutyNext
  <2> QED
    BY <1>1, <1>2, <1>5, <1>6, <2>1, <2>2, <2>3, <2>4, WorkKeeps DEF Same
<1>7. CASE Unread /\ Go(p, "abandon") /\ UNCHANGED marker
  <2>1. Phased
    BY <1>7 DEF Phased
  <2> QED
    BY <1>3, <1>6, <1>7, <2>1
<1>8. CASE ~Unread /\ ~Admitted /\ marker' = None /\ Go(p, AfterReconcile(p))
  BY <1>1, <1>4, <1>5, <1>8, AfterKeeps
<1>9. CASE /\ marker' = [marker EXCEPT !.phase = "failed"]
           /\ Go(p, IF me[p].child = "start" THEN "abandon" ELSE AfterReconcile(p))
  <2>1. marker' \in Markers /\ Phased
    BY <1>1, <1>3, <1>9, PhaseIs DEF Phased
  <2>2. CASE me[p].child = "start"
    BY <1>6, <1>9, <2>1, <2>2
  <2>3. CASE me[p].child # "start"
    BY <1>1, <1>4, <1>5, <1>9, <2>1, <2>3, AfterKeeps
  <2> QED
    BY <2>2, <2>3
<1>10. CASE /\ ~Unread /\ Admitted
            /\ marker' = [marker EXCEPT !.phase = "applying", !.attempts = @ + 1]
            /\ Go(p, "applyLaunch")
  <2>1. marker' \in Markers /\ Phased
    <3>1. PICK n \in Nat : n = marker.attempts + 1
      BY <1>3 DEF Markers
    <3>2. marker' = [marker EXCEPT !.phase = "applying", !.attempts = n]
      BY <1>10, <3>1
    <3>3. marker' \in Markers
      BY <1>3, <3>2 DEF Markers
    <3>4. /\ marker'.token = marker.token /\ marker'.version = marker.version
          /\ marker'.source = marker.source /\ marker'.previous = marker.previous
      BY <1>3, <3>2 DEF Markers
    <3> QED
      BY <1>1, <3>3, <3>4 DEF Phased
  <2>2. Disk' /\ Known'
    BY <1>5, <2>1
  <2>3. PICK w \in Errands : Turn(p, w) /\ w.at = "applyLaunch" /\ Same(w, me[p])
    <3>1. "applyLaunch" \in Places
      BY DEF Places, Busy, Applying
    <3> QED
      BY <1>2, <1>10, <3>1, GoIs
  <2>4. Sent(w, p)
    BY <1>1, <1>2, <2>3 DEF Sent, Same, Applying
  <2>5. Shapes'
    BY <1>1, <1>2, <1>4, <2>1, <2>3 DEF Shapes, Turn
  <2>6. record' = Recovered /\ {Recovered.current, pointer} \subseteq {marker.version, marker.source} \ {0}
    BY <1>1, <1>10 DEF Admitted
  <2>7. /\ marker' # None
        /\ ~razed =>
             /\ record'.written /\ record'.current = pointer
             /\ pointer \in {marker'.version, marker'.source} \ {0}
             /\ overtaken = {} => record'.previous = before
    <3>1. marker'.version = marker.version /\ marker'.source = marker.source /\ marker' # None
      BY <2>1, NoneIs DEF Phased
    <3>2. record.written
      <4>1. ~record.written => Recovered = Missing
        BY <1>2, RecoveredIs DEF Known
      <4> QED
        BY <2>6, <4>1 DEF Missing
    <3> QED
      BY <1>2, <2>6, <3>1, <3>2, RecoveredIs DEF Known
  <2>8. Aimed(w)' /\ Marked(w)' /\ Applied(w)' /\ Removed(w)'
    BY <1>1, <2>3, <2>7 DEF Aimed, Marked, Applied, Removed, Applying
  <2> QED
    BY <1>1, <1>2, <2>2, <2>3, <2>4, <2>5, <2>8, WorkKeeps DEF Same
<1> QED
  BY <1>7, <1>8, <1>9, <1>10 DEF BeginApply

LEMMA ApplyLaunchersKeeps ==
  ASSUME InstallerAssumption, IInv, ~stolen, NEW p \in Processes, ApplyLaunchers(p)
  PROVE  IInv'
<1>1. /\ me[p].at = "applyLaunch" /\ Go(p, "applyPoint")
      /\ launcher' = marker.token /\ gens' = gens \cup {marker.token}
      /\ UNCHANGED <<installed, staging, pointer, record, marker, lock, spent, faults>>
      /\ UNCHANGED <<before, razed, gone, overtaken, stolen>>
  BY DEF ApplyLaunchers, Keeps, ghosts, At
<1>2. Shapes /\ Disk /\ Known /\ me[p].at \in Busy /\ Sent(me[p], p) /\ Applied(me[p])
  BY <1>1 DEF IInv, Standing, Busy, Applying
<1>3. marker \in Markers /\ marker.token \in Tokens /\ marker # None
  BY <1>1, <1>2, NoneIs DEF Shapes, Applied, Applying
<1>4. PICK w \in Errands : Turn(p, w) /\ w.at = "applyPoint" /\ Same(w, me[p])
  <2>1. "applyPoint" \in Places
    BY DEF Places, Busy, Applying
  <2> QED
    BY <1>1, <1>2, <2>1, GoIs
<1>5. Sent(w, p)
  BY <1>1, <1>2, <1>4 DEF Sent, Same, Applying
<1>6. Shapes'
  BY <1>1, <1>2, <1>3, <1>4 DEF Shapes, Turn
<1>7. Disk' /\ Known'
  <2>1. launcher' # "none" /\ ~gone
    BY <1>1, <1>2, <1>3 DEF Disk, UninstallFinal, InstallerAssumption
  <2> QED
    BY <1>1, <1>2, <1>3, <2>1 DEF Disk, Known, UninstallFinal, Recovered
<1>8. Aimed(w)' /\ Marked(w)' /\ Applied(w)' /\ Removed(w)'
  BY <1>1, <1>2, <1>3, <1>4 DEF Aimed, Marked, Applied, Removed, Applying
<1> QED
  BY <1>1, <1>2, <1>4, <1>5, <1>6, <1>7, <1>8, WorkKeeps DEF Same

(* What was current before stays known when the pointer moves. *)
LEMMA PointsIs ==
  ASSUME Shapes, Known, NEW version \in Some \ {0}, pointer' = version, record' = record,
         before' = IF version = pointer THEN before ELSE IF record.written THEN pointer ELSE 0,
         UNCHANGED <<razed, overtaken>>,
         record.written /\ ~razed => record.current = pointer
  PROVE  /\ before' \in Some
         /\ ~record.written /\ ~razed => before' = 0
         /\ record.written /\ ~razed /\ overtaken = {} => Recovered'.previous = before'
<1>1. /\ record \in [current : Some, previous : Some, written : BOOLEAN]
      /\ before \in Some /\ pointer \in Some /\ 0 \in Some
  BY DEF Shapes, Some
<1>2. ~record.written /\ ~razed => before' = 0
  BY DEF Known
<1>3. record.written /\ ~razed /\ overtaken = {} => Recovered'.previous = before'
  <2>1. SUFFICES ASSUME record.written, ~razed, overtaken = {} PROVE Recovered'.previous = before'
    OBVIOUS
  <2>2. pointer # 0 /\ record.current = pointer /\ Recovered.previous = before
    BY <2>1 DEF Known
  <2>3. CASE version = pointer
    BY <2>2, <2>3 DEF Recovered
  <2>4. CASE version # pointer
    BY <2>1, <2>2, <2>4 DEF Recovered
  <2> QED
    BY <2>3, <2>4
<1> QED
  BY <1>1, <1>2, <1>3

LEMMA ApplyPointerKeeps ==
  ASSUME InstallerAssumption, IInv, ~stolen, NEW p \in Processes, ApplyPointer(p)
  PROVE  IInv'
<1>1. /\ me[p].at = "applyPoint" /\ Go(p, "applyRecord")
      /\ pointer' = marker.version
      /\ before' = IF marker.version = pointer THEN before ELSE IF record.written THEN pointer ELSE 0
      /\ UNCHANGED <<installed, staging, record, launcher, gens, marker, lock, spent, faults>>
      /\ UNCHANGED <<razed, gone, overtaken, stolen>>
  BY DEF ApplyPointer, Points, At
<1>2. Shapes /\ Disk /\ Known /\ me[p].at \in Busy /\ Sent(me[p], p) /\ Applied(me[p])
  BY <1>1 DEF IInv, Standing, Busy, Applying
<1>3. /\ marker \in Markers /\ marker.token \in Tokens /\ marker # None
      /\ marker.version \in Some \ {0} /\ ~gone
  <2>1. marker # None
    BY <1>1, <1>2 DEF Applied, Applying
  <2>2. marker \in Markers
    BY <1>2, <2>1, NoneIs DEF Shapes
  <2> QED
    BY <1>2, <2>1, <2>2 DEF Markers, Disk, UninstallFinal
<1>4. ~razed =>
        /\ record.written /\ record.current = pointer /\ pointer \in {marker.version, marker.source} \ {0}
        /\ overtaken = {} => record.previous = before
  BY <1>1, <1>2 DEF Applied
<1>5. /\ before' \in Some
      /\ ~record.written /\ ~razed => before' = 0
      /\ record.written /\ ~razed /\ overtaken = {} => Recovered'.previous = before'
  BY <1>1, <1>2, <1>3, <1>4, PointsIs
<1>6. PICK w \in Errands : Turn(p, w) /\ w.at = "applyRecord" /\ Same(w, me[p])
  <2>1. "applyRecord" \in Places
    BY DEF Places, Busy, Applying
  <2> QED
    BY <1>1, <1>2, <2>1, GoIs
<1>7. Sent(w, p)
  BY <1>1, <1>2, <1>6 DEF Sent, Same, Applying
<1>8. Shapes'
  BY <1>1, <1>2, <1>3, <1>5, <1>6 DEF Shapes, Turn
<1>9. Disk'
  <2>1. launcher # "none"
    BY <1>1, <1>2, <1>3 DEF Applied, InstallerAssumption
  <2> QED
    BY <1>1, <1>2, <1>3, <2>1 DEF Disk, UninstallFinal
<1>10. ~razed /\ overtaken = {} => before' = marker.previous
  <2>1. SUFFICES ASSUME ~razed, overtaken = {} PROVE before' = marker.previous
    OBVIOUS
  <2>2. CASE marker.version = pointer
    BY <1>1, <1>2, <1>3, <2>1, <2>2 DEF Known
  <2>3. CASE marker.version # pointer
    <3>1. marker.source = pointer /\ marker.source \notin {0, marker.version}
      BY <1>4, <2>1, <2>3
    <3>2. marker.previous = marker.source
      BY <1>2, <1>3, <2>1, <3>1 DEF Known
    <3> QED
      BY <1>1, <1>4, <2>1, <2>3, <3>1, <3>2
  <2> QED
    BY <2>2, <2>3
<1>11. Known'
  BY <1>1, <1>2, <1>3, <1>4, <1>5, <1>10 DEF Known
<1>12. ~razed /\ overtaken = {} /\ marker.previous = 0 =>
         record.current = marker.version /\ record.previous = 0
  <2>1. SUFFICES ASSUME ~razed, overtaken = {}, marker.previous = 0
                 PROVE  record.current = marker.version /\ record.previous = 0
    OBVIOUS
  <2>2. pointer = marker.version
    BY <1>2, <1>3, <1>4, <2>1 DEF Known
  <2> QED
    BY <1>2, <1>3, <1>4, <2>1, <2>2 DEF Known
<1>13. Aimed(w)' /\ Marked(w)' /\ Applied(w)' /\ Removed(w)'
  BY <1>1, <1>3, <1>4, <1>6, <1>12 DEF Aimed, Marked, Applied, Removed, Applying
<1> QED
  BY <1>1, <1>2, <1>6, <1>7, <1>8, <1>9, <1>11, <1>13, WorkKeeps DEF Same

LEMMA ApplyRecordKeeps ==
  ASSUME InstallerAssumption, IInv, ~stolen, NEW p \in Processes, ApplyRecord(p)
  PROVE  IInv'
<1>1. /\ me[p].at = "applyRecord"
      /\ record' = [current |-> marker.version, written |-> TRUE,
                    previous |-> IF marker.previous # 0 THEN marker.previous
                                 ELSE IF record.current = marker.version THEN record.previous
                                 ELSE record.current]
      /\ UNCHANGED <<installed, staging, pointer, launcher, gens, marker, lock, spent, faults>>
      /\ UNCHANGED <<before, razed, gone, overtaken, stolen>>
  BY DEF ApplyRecord, Keeps, ghosts, At
<1>2. PICK at \in {"applyPlain", "applyRetire"} : Go(p, at)
  BY DEF ApplyRecord
<1>3. Shapes /\ Disk /\ Known /\ me[p].at \in Busy /\ Sent(me[p], p) /\ Applied(me[p])
  BY <1>1 DEF IInv, Standing, Busy, Applying
<1>4. /\ marker \in Markers /\ marker # None /\ marker.version \in Some \ {0} /\ ~gone
      /\ marker.previous \in Some
  <2>1. marker # None
    BY <1>1, <1>3 DEF Applied, Applying
  <2>2. marker \in Markers
    BY <1>3, <2>1, NoneIs DEF Shapes
  <2> QED
    BY <1>3, <2>1, <2>2 DEF Markers, Disk, UninstallFinal
<1>5. ~razed =>
        /\ pointer = marker.version /\ record.written
        /\ overtaken = {} /\ marker.previous = 0 => record.current = marker.version /\ record.previous = 0
  BY <1>1, <1>3 DEF Applied
<1>6. PICK w \in Errands : Turn(p, w) /\ w.at = at /\ Same(w, me[p])
  <2>1. at \in Places
    BY <1>2 DEF Places, Busy, Applying
  <2> QED
    BY <1>2, <1>3, <2>1, GoIs
<1>7. Sent(w, p)
  BY <1>1, <1>2, <1>3, <1>6 DEF Sent, Same, Applying
<1>8. record \in [current : Some, previous : Some, written : BOOLEAN]
  BY <1>3 DEF Shapes
<1>9. PICK previous \in Some :
        /\ record' = [current |-> marker.version, written |-> TRUE, previous |-> previous]
        /\ previous \in {marker.previous, record.previous, record.current}
        /\ marker.previous # 0 => previous = marker.previous
        /\ marker.previous = 0 /\ record.current = marker.version => previous = record.previous
  BY <1>1, <1>4, <1>8
<1>10. /\ record' \in [current : Some, previous : Some, written : BOOLEAN]
       /\ record'.current = marker.version /\ record'.written /\ record'.previous = previous
  BY <1>4, <1>9
<1>11. Shapes'
  BY <1>1, <1>3, <1>6, <1>10 DEF Shapes, Turn
<1>12. Disk'
  BY <1>1, <1>3, <1>4, <1>9, <1>10 DEF Disk, UninstallFinal
<1>13. Known'
  <2>1. ~razed => Recovered' = record'
    BY <1>1, <1>5, <1>10 DEF Recovered
  <2>2. ~razed /\ overtaken = {} => previous = before
    BY <1>3, <1>4, <1>5, <1>9 DEF Known
  <2> QED
    BY <1>1, <1>3, <1>4, <1>5, <1>10, <2>1, <2>2 DEF Known
<1>14. Aimed(w)' /\ Marked(w)' /\ Applied(w)' /\ Removed(w)'
  BY <1>1, <1>2, <1>4, <1>6 DEF Aimed, Marked, Applied, Removed, Applying
<1> QED
  BY <1>1, <1>3, <1>6, <1>7, <1>11, <1>12, <1>13, <1>14, WorkKeeps DEF Same

LEMMA ApplyPlainKeeps ==
  ASSUME InstallerAssumption, IInv, ~stolen, NEW p \in Processes, ApplyPlain(p)
  PROVE  IInv'
<1>1. /\ me[p].at = "applyPlain" /\ Go(p, "applyRetire") /\ launcher' = "plain" /\ gens' = {}
      /\ UNCHANGED <<installed, staging, pointer, record, marker, lock, spent, faults>>
      /\ UNCHANGED <<before, razed, gone, overtaken, stolen>>
  BY DEF ApplyPlain, Keeps, ghosts, At
<1>2. Shapes /\ Disk /\ Known /\ me[p].at \in Busy /\ Sent(me[p], p) /\ Applied(me[p])
  BY <1>1 DEF IInv, Standing, Busy, Applying
<1>3. marker # None
  BY <1>1, <1>2 DEF Applied, Applying
<1>4. PICK w \in Errands : Turn(p, w) /\ w.at = "applyRetire" /\ Same(w, me[p])
  <2>1. "applyRetire" \in Places
    BY DEF Places, Busy, Applying
  <2> QED
    BY <1>1, <1>2, <2>1, GoIs
<1>5. Sent(w, p)
  BY <1>1, <1>2, <1>4 DEF Sent, Same, Applying
<1>6. Shapes'
  BY <1>1, <1>2, <1>4 DEF Shapes, Turn
<1>7. Disk' /\ Known'
  <2>1. launcher' # "none" /\ launcher' \notin Tokens
    BY <1>1 DEF InstallerAssumption
  <2> QED
    BY <1>1, <1>2, <1>3, <2>1 DEF Disk, Known, UninstallFinal, Recovered
<1>8. Aimed(w)' /\ Marked(w)' /\ Applied(w)' /\ Removed(w)'
  BY <1>1, <1>3, <1>4 DEF Aimed, Marked, Applied, Removed, Applying
<1> QED
  BY <1>1, <1>2, <1>4, <1>5, <1>6, <1>7, <1>8, WorkKeeps DEF Same

LEMMA NoMarker ==
  ASSUME IInv, marker' = None,
         UNCHANGED <<installed, pointer, record, launcher, gens, before, razed, gone>>,
         overtaken' = {} => overtaken = {}
  PROVE  Disk' /\ Known'
<1>1. Disk /\ Known
  BY DEF IInv
<1> QED
  BY <1>1 DEF Disk, Known, UninstallFinal, Recovered

LEMMA ApplyRetireKeeps ==
  ASSUME InstallerAssumption, IInv, ~stolen, NEW p \in Processes, ApplyRetire(p)
  PROVE  IInv'
<1>1. /\ me[p].at = "applyRetire" /\ Go(p, AfterReconcile(p)) /\ marker' = None
      /\ UNCHANGED <<installed, staging, pointer, record, launcher, gens, lock, spent, faults>>
      /\ UNCHANGED <<before, razed, gone, overtaken, stolen>>
  BY DEF ApplyRetire, Keeps, ghosts, At
<1>2. Disk' /\ Known'
  BY <1>1, NoMarker
<1>3. record' \in [current : Some, previous : Some, written : BOOLEAN]
  BY <1>1 DEF IInv, Shapes
<1> QED
  BY <1>1, <1>2, <1>3, AfterKeeps

---------------------------------------------------------------------------
(* Installing and rolling back, write by write *)

LEMMA StageKeeps ==
  ASSUME IInv, ~stolen, NEW p \in Processes, Stage(p)
  PROVE  IInv'
<1>1. /\ me[p].at = "stage" /\ Go(p, "place") /\ staging' = TRUE
      /\ UNCHANGED <<installed, pointer, record, launcher, gens, marker, lock, spent, faults>>
      /\ UNCHANGED <<before, razed, gone, overtaken, stolen>>
  BY DEF Stage, Keeps, ghosts, At
<1>2. Shapes /\ Disk /\ Known /\ me[p].at \in Busy /\ Sent(me[p], p)
  BY <1>1 DEF IInv, Standing, Busy
<1>3. PICK w \in Errands : Turn(p, w) /\ w.at = "place" /\ Same(w, me[p])
  <2>1. "place" \in Places
    BY DEF Places, Busy
  <2> QED
    BY <1>1, <1>2, <2>1, GoIs
<1>4. Sent(w, p) /\ w.at \notin Claiming
  BY <1>1, <1>2, <1>3 DEF Sent, Same, Applying, Claiming
<1>5. Shapes'
  BY <1>1, <1>2, <1>3 DEF Shapes, Turn
<1>6. Disk' /\ Known'
  BY <1>1, <1>2 DEF Disk, Known, UninstallFinal, Recovered
<1>7. Aimed(w)' /\ Marked(w)' /\ Applied(w)' /\ Removed(w)'
  BY <1>4, OffDutyNext
<1> QED
  BY <1>1, <1>2, <1>3, <1>4, <1>5, <1>6, <1>7, WorkKeeps DEF Same

LEMMA PlaceKeeps ==
  ASSUME IInv, ~stolen, NEW p \in Processes, Place(p)
  PROVE  IInv'
<1>1. /\ me[p].at = "place" /\ Go(p, "read") /\ staging' = FALSE
      /\ installed' = installed \cup {me[p].target} /\ gone' = FALSE
      /\ UNCHANGED <<pointer, record, launcher, gens, marker, lock, spent, faults>>
      /\ UNCHANGED <<before, razed, overtaken, stolen>>
  BY DEF Place, At
<1>2. Shapes /\ Disk /\ Known /\ me[p].at \in Busy /\ Sent(me[p], p) /\ me[p] \in Errands
  BY <1>1 DEF IInv, Shapes, Standing, Busy
<1>3. PICK w \in Errands : Turn(p, w) /\ w.at = "read" /\ Same(w, me[p])
  <2>1. "read" \in Places
    BY DEF Places, Busy
  <2> QED
    BY <1>1, <1>2, <2>1, GoIs
<1>4. Sent(w, p) /\ me[p].target \in Versions
  BY <1>1, <1>2, <1>3 DEF Sent, Same, Applying, Errands, Some
<1>5. Shapes'
  BY <1>1, <1>2, <1>3, <1>4 DEF Shapes, Turn
<1>6. Disk' /\ Known'
  BY <1>1, <1>2 DEF Disk, Known, UninstallFinal, Recovered
<1>7. Aimed(w)' /\ Marked(w)' /\ Applied(w)' /\ Removed(w)'
  BY <1>1, <1>3 DEF Aimed, Marked, Applied, Removed, Applying, Same
<1> QED
  BY <1>1, <1>2, <1>3, <1>4, <1>5, <1>6, <1>7, WorkKeeps DEF Same

LEMMA ReadKeeps ==
  ASSUME IInv, ~stolen, NEW p \in Processes, Read(p)
  PROVE  IInv'
<1>1. /\ me[p].at = "read" /\ staging' = (staging /\ me[p].child # "rollback")
      /\ UNCHANGED <<installed, pointer, launcher, gens, marker, lock, spent, faults>>
      /\ UNCHANGED <<before, razed, gone, overtaken, stolen>>
  BY DEF Read, Keeps, ghosts, At
<1>2. /\ Shapes /\ Disk /\ Known /\ me[p].at \in Busy /\ me[p] \in Errands
      /\ Sent(me[p], p) /\ Aimed(me[p])
  BY <1>1 DEF IInv, Shapes, Standing, Busy
<1>3. staging' \in BOOLEAN
  BY <1>1
<1>4. record' = record \/ record' = Recovered
  BY DEF Read
<1>5. record' \in [current : Some, previous : Some, written : BOOLEAN]
  BY <1>2, <1>4, RecoveredIs DEF Shapes
<1>6. Disk' /\ Known'
  <2>1. CASE record' = record
    BY <1>1, <1>2, <2>1 DEF Disk, Known, UninstallFinal, Recovered
  <2>2. CASE record' = Recovered
    BY <1>1, <2>2, RecoveredKeeps
  <2> QED
    BY <1>4, <2>1, <2>2
<1>7. CASE Go(p, "abandon")
  <2>1. PICK w \in Errands : Turn(p, w) /\ w.at = "abandon" /\ Same(w, me[p])
    <3>1. "abandon" \in Places
      BY DEF Places, Busy
    <3> QED
      BY <1>2, <1>7, <3>1, GoIs
  <2>2. Sent(w, p) /\ w.at \notin Claiming
    BY <1>1, <1>2, <2>1 DEF Sent, Same, Applying, Claiming
  <2>3. Shapes'
    BY <1>1, <1>2, <1>3, <1>5, <2>1 DEF Shapes, Turn
  <2>4. Aimed(w)' /\ Marked(w)' /\ Applied(w)' /\ Removed(w)'
    BY <2>2, OffDutyNext
  <2> QED
    BY <1>1, <1>2, <1>6, <2>1, <2>2, <2>3, <2>4, WorkKeeps DEF Same
<1>8. CASE ~Go(p, "abandon")
  <2> DEFINE back == me[p].child = "rollback"
             target == IF back THEN Recovered.previous ELSE me[p].target
             previous == IF back \/ Recovered.current \notin {0, target}
                         THEN Recovered.current ELSE Recovered.previous
             w == [me[p] EXCEPT !.at = "retire", !.target = target, !.previous = previous]
  <2>1. /\ ~(Unread \/ (back /\ (Recovered.previous = 0 \/ Recovered.previous \notin installed)))
        /\ record' = Recovered
        /\ me' = [me EXCEPT ![p].at = "retire", ![p].target = target, ![p].previous = previous]
    BY <1>8 DEF Read
  <2>2. target \in Some /\ previous \in Some
    BY <1>2, RecoveredIs DEF Errands
  <2>3. target \in installed /\ ~gone
    <3>1. CASE back
      <4>1. Recovered.previous \in installed /\ target = Recovered.previous
        BY <2>1, <3>1
      <4> QED
        BY <1>2, <4>1 DEF Disk, UninstallFinal
    <3>2. CASE ~back
      BY <1>1, <1>2, <3>2 DEF Aimed
    <3> QED
      BY <3>1, <3>2
  <2>4. ~razed => /\ previous \in installed \cup {0}
                  /\ previous = IF record'.current \notin {0, target} THEN record'.current ELSE record'.previous
                  /\ record'.written => record'.current = pointer
                                        /\ (overtaken = {} => record'.previous = before)
    <3>1. SUFFICES ASSUME ~razed
                   PROVE  /\ previous \in installed \cup {0}
                          /\ previous = IF record'.current \notin {0, target} THEN record'.current
                                        ELSE record'.previous
                          /\ record'.written => record'.current = pointer
                                                /\ (overtaken = {} => record'.previous = before)
      OBVIOUS
    <3>2. {Recovered.current, Recovered.previous} \subseteq installed \cup {0}
      BY <1>2, <3>1, RecoveredIs DEF Disk
    <3>3. previous \in {Recovered.current, Recovered.previous}
      OBVIOUS
    <3>4. Recovered.written => pointer # 0 /\ Recovered.current = pointer
                               /\ (overtaken = {} => Recovered.previous = before)
      BY <1>2, <3>1, RecoveredIs DEF Known
    <3>5. CASE back
      <4>1. target = Recovered.previous /\ previous = Recovered.current /\ Recovered.previous # 0
        BY <2>1, <3>5
      <4>2. Recovered.written
        BY <1>2, <4>1, RecoveredIs DEF Known, Missing
      <4>3. Recovered.current # 0
        BY <3>4, <4>2
      <4> QED
        BY <2>1, <3>2, <3>3, <3>4, <4>1, <4>3
    <3>6. CASE ~back
      BY <2>1, <3>2, <3>3, <3>4, <3>6
    <3> QED
      BY <3>5, <3>6
  <2>5. /\ w \in Errands /\ w.at = "retire" /\ w.target = target /\ w.previous = previous
        /\ w.cmd = me[p].cmd /\ w.child = me[p].child /\ w.run = me[p].run /\ w.token = me[p].token
    <3>1. "retire" \in Places
      BY DEF Places, Busy
    <3> HIDE DEF target, previous
    <3> QED
      BY <1>2, <2>2, <3>1 DEF Errands
  <2>6. me' = [me EXCEPT ![p] = w]
    <3> HIDE DEF target, previous
    <3> QED
      BY <2>1
  <2> HIDE DEF w, target, previous
  <2>7. PICK e \in Errands : e = w
    BY <2>5
  <2>8. Turn(p, e)
    BY <1>2, <2>5, <2>6, <2>7, TurnIs
  <2>9. Sent(e, p)
    <3>1. me[p].child \in {"install", "upgrade"} => target = me[p].target
      BY DEF target
    <3> QED
      BY <1>1, <1>2, <2>5, <2>7, <3>1 DEF Sent, Applying
  <2>10. Shapes'
    BY <1>1, <1>2, <1>3, <1>5, <2>8 DEF Shapes, Turn
  <2>11. Aimed(e)' /\ Marked(e)' /\ Applied(e)' /\ Removed(e)'
    BY <1>1, <2>3, <2>4, <2>5, <2>7 DEF Aimed, Marked, Applied, Removed, Applying
  <2> QED
    BY <1>1, <1>2, <1>6, <2>5, <2>7, <2>8, <2>9, <2>10, <2>11, WorkKeeps
<1> QED
  BY <1>7, <1>8

LEMMA RetireKeeps ==
  ASSUME InstallerAssumption, IInv, ~stolen, NEW p \in Processes, Retire(p)
  PROVE  IInv'
<1>1. /\ me[p].at = "retire"
      /\ UNCHANGED <<installed, staging, pointer, record, launcher, gens, lock, faults>>
      /\ UNCHANGED <<before, razed, gone, stolen>>
      /\ overtaken' = IF me[p].child = "install" /\ marker # None
                      THEN overtaken \cup {marker.token} ELSE overtaken
  BY DEF Retire, At
<1>2. /\ Shapes /\ Disk /\ Known /\ me[p].at \in Busy /\ me[p] \in Errands
      /\ Sent(me[p], p) /\ Aimed(me[p])
  BY <1>1 DEF IInv, Shapes, Standing, Busy
<1>3. PICK token \in Tokens \cup {"none"} :
        /\ me' = [me EXCEPT ![p].at = "launch", ![p].token = token]
        /\ token \in Tokens => marker' = None /\ Windows /\ spent' = spent \cup {token}
        /\ token \notin Tokens =>
             /\ marker' = IF me[p].child = "rollback" THEN None ELSE marker
             /\ me[p].child = "upgrade" => ~Windows
             /\ spent' = spent
  <2>1. CASE Deferred(p)
    <3>1. Fresh \in Tokens
      BY <2>1 DEF Retire, Fresh
    <3> QED
      BY <2>1, <3>1 DEF Retire, Deferred
  <2>2. CASE ~Deferred(p)
    <3>1. "none" \notin Tokens
      BY DEF InstallerAssumption
    <3> QED
      BY <2>2, <3>1 DEF Retire, Deferred
  <2> QED
    BY <2>1, <2>2
<1>4. marker' = None \/ (marker' = marker /\ token \notin Tokens /\ me[p].child # "rollback")
  BY <1>3
<1>5. overtaken' = {} => overtaken = {}
  BY <1>1
<1>6. Disk' /\ Known'
  <2>1. CASE marker' = None
    BY <1>1, <1>5, <2>1, NoMarker
  <2>2. CASE marker' = marker
    BY <1>1, <1>2, <1>5, <2>2 DEF Disk, Known, UninstallFinal, Recovered
  <2> QED
    BY <1>4, <2>1, <2>2
<1>7. PICK w \in Errands : w = [me[p] EXCEPT !.at = "launch", !.token = token]
  <2>1. "launch" \in Places
    BY DEF Places, Busy
  <2> QED
    BY <1>2, <2>1 DEF Errands
<1>8. /\ w.at = "launch" /\ w.token = token /\ w.cmd = me[p].cmd /\ w.child = me[p].child
      /\ w.run = me[p].run /\ w.target = me[p].target /\ w.previous = me[p].previous
  BY <1>2, <1>7 DEF Errands
<1>9. Turn(p, w)
  <2>1. me' = [me EXCEPT ![p] = w]
    BY <1>3, <1>7
  <2> QED
    BY <1>2, <2>1, TurnIs
<1>10. Sent(w, p)
  BY <1>1, <1>2, <1>3, <1>8 DEF Sent, Applying
<1>11. Shapes'
  BY <1>1, <1>2, <1>3, <1>4, <1>9 DEF Shapes, Turn
<1>12. Aimed(w)'
  BY <1>1, <1>2, <1>5, <1>8 DEF Aimed
<1>13. Marked(w)'
  <2>1. token \notin Tokens /\ marker' # None => overtaken' # {}
    <3>1. SUFFICES ASSUME token \notin Tokens, marker' # None PROVE overtaken' # {}
      OBVIOUS
    <3>2. me[p].child = "install" /\ marker # None
      BY <1>1, <1>2, <1>3, <3>1 DEF Sent, Disk
    <3> QED
      BY <1>1, <3>2
  <2> QED
    BY <1>8, <2>1 DEF Marked
<1>14. Applied(w)' /\ Removed(w)'
  BY <1>8 DEF Applied, Removed, Applying
<1> QED
  BY <1>1, <1>2, <1>6, <1>8, <1>9, <1>10, <1>11, <1>12, <1>13, <1>14, WorkKeeps

LEMMA LaunchKeeps ==
  ASSUME InstallerAssumption, IInv, ~stolen, NEW p \in Processes, Launch(p)
  PROVE  IInv'
<1>1. /\ me[p].at = "launch"
      /\ UNCHANGED <<installed, staging, pointer, record, marker, lock, spent, faults>>
      /\ UNCHANGED <<before, razed, gone, overtaken, stolen>>
  BY DEF Launch, Keeps, ghosts, At
<1>2. /\ Shapes /\ Disk /\ Known /\ me[p].at \in Busy /\ me[p] \in Errands
      /\ Sent(me[p], p) /\ Aimed(me[p]) /\ Marked(me[p])
  BY <1>1 DEF IInv, Shapes, Standing, Busy
<1>3. PICK at \in {"mark", "point"} :
        /\ Go(p, at)
        /\ at = "mark" <=> me[p].token \in Tokens
        /\ at = "mark" => launcher' = me[p].token /\ gens' = gens \cup {me[p].token}
        /\ at = "point" => launcher' = "plain" /\ gens' \in {{}, gens}
  BY DEF Launch
<1>4. PICK w \in Errands : Turn(p, w) /\ w.at = at /\ Same(w, me[p])
  <2>1. at \in Places
    BY <1>3 DEF Places, Busy
  <2> QED
    BY <1>2, <1>3, <2>1, GoIs
<1>5. Sent(w, p)
  BY <1>1, <1>2, <1>3, <1>4 DEF Sent, Same, Applying
<1>6. Shapes'
  BY <1>1, <1>2, <1>3, <1>4 DEF Shapes, Turn
<1>7. Disk' /\ Known'
  <2>1. launcher' # "none" /\ (launcher' \in Tokens => launcher' \in gens') /\ ~gone
    BY <1>1, <1>2, <1>3 DEF InstallerAssumption, Aimed
  <2> QED
    BY <1>1, <1>2, <2>1 DEF Disk, Known, UninstallFinal, Recovered
<1>8. Aimed(w)'
  BY <1>1, <1>2, <1>3, <1>4 DEF Aimed, Same
<1>9. Marked(w)'
  BY <1>1, <1>2, <1>3, <1>4 DEF Marked, Same
<1>10. Applied(w)' /\ Removed(w)'
  BY <1>3, <1>4 DEF Applied, Removed, Applying
<1> QED
  BY <1>1, <1>2, <1>4, <1>5, <1>6, <1>7, <1>8, <1>9, <1>10, WorkKeeps DEF Same

LEMMA MarkKeeps ==
  ASSUME InstallerAssumption, IInv, ~stolen, NEW p \in Processes, Mark(p)
  PROVE  IInv'
<1>1. /\ me[p].at = "mark" /\ Go(p, "point") /\ marker' = Marker(p, "prepared")
      /\ UNCHANGED <<installed, staging, pointer, record, launcher, gens, lock, spent, faults>>
      /\ UNCHANGED <<before, razed, gone, overtaken, stolen>>
  BY DEF Mark, Keeps, ghosts, At
<1>2. /\ Shapes /\ Disk /\ Known /\ me[p].at \in Busy /\ me[p] \in Errands
      /\ Sent(me[p], p) /\ Aimed(me[p]) /\ Marked(me[p])
  BY <1>1 DEF IInv, Shapes, Standing, Busy
<1>3. PICK w \in Errands : Turn(p, w) /\ w.at = "point" /\ Same(w, me[p])
  <2>1. "point" \in Places
    BY DEF Places, Busy
  <2> QED
    BY <1>1, <1>2, <2>1, GoIs
<1>4. Sent(w, p)
  BY <1>1, <1>2, <1>3 DEF Sent, Same, Applying
<1>5. me[p].token \in Tokens /\ me[p].child \in {"upgrade", "rollback", "install"} /\ Windows
  BY <1>1, <1>2 DEF Sent
<1>6. record \in [current : Some, previous : Some, written : BOOLEAN]
  BY <1>2 DEF Shapes
<1>7. /\ marker' \in Markers /\ marker'.token = me[p].token /\ marker'.version = me[p].target
      /\ marker'.source = record.current /\ marker'.previous = me[p].previous
  <2>1. Pid(p) \in Processes \X Nat
    BY <1>2 DEF Pid, Errands
  <2> QED
    BY <1>1, <1>2, <1>5, <1>6, <2>1 DEF Marker, Markers, Errands
<1>8. marker' # None
  BY <1>5, <1>7 DEF None, InstallerAssumption
<1>9. Shapes'
  BY <1>1, <1>2, <1>3, <1>7 DEF Shapes, Turn
<1>10. /\ me[p].target \in installed /\ ~gone
       /\ ~razed =>
            /\ me[p].previous \in installed \cup {0}
            /\ me[p].previous = IF record.current \notin {0, me[p].target} THEN record.current ELSE record.previous
            /\ record.written => record.current = pointer /\ (overtaken = {} => record.previous = before)
  BY <1>1, <1>2 DEF Aimed
<1>11. me[p].target # 0
  BY <1>2, <1>10 DEF Shapes, InstallerAssumption
<1>12. Disk'
  BY <1>1, <1>2, <1>5, <1>7, <1>10, <1>11 DEF Disk, UninstallFinal
<1>13. Known'
  <2>1. SUFFICES ASSUME ~razed, overtaken = {}
                 PROVE  /\ record.current \notin {0, me[p].target} => me[p].previous = record.current
                        /\ pointer = me[p].target => before = me[p].previous
    BY <1>1, <1>2, <1>7 DEF Known, Recovered
  <2>2. CASE record.written
    BY <1>2, <1>10, <2>1, <2>2 DEF Known
  <2>3. CASE ~record.written
    BY <1>2, <1>10, <2>1, <2>3 DEF Known, Missing
  <2> QED
    BY <2>2, <2>3
<1>14. Aimed(w)'
  BY <1>1, <1>3, <1>10 DEF Aimed, Same
<1>15. Marked(w)'
  BY <1>1, <1>2, <1>3, <1>5, <1>7, <1>8 DEF Marked, Same
<1>16. Applied(w)' /\ Removed(w)'
  BY <1>3 DEF Applied, Removed, Applying
<1> QED
  BY <1>1, <1>2, <1>3, <1>4, <1>9, <1>12, <1>13, <1>14, <1>15, <1>16, WorkKeeps DEF Same

LEMMA PointKeeps ==
  ASSUME InstallerAssumption, IInv, ~stolen, NEW p \in Processes, Point(p)
  PROVE  IInv'
<1>1. /\ me[p].at = "point" /\ Go(p, "record") /\ pointer' = me[p].target
      /\ before' = IF me[p].target = pointer THEN before ELSE IF record.written THEN pointer ELSE 0
      /\ UNCHANGED <<installed, staging, record, launcher, gens, marker, lock, spent, faults>>
      /\ UNCHANGED <<razed, gone, overtaken, stolen>>
  BY DEF Point, Points, At
<1>2. /\ Shapes /\ Disk /\ Known /\ me[p].at \in Busy /\ me[p] \in Errands
      /\ Sent(me[p], p) /\ Aimed(me[p]) /\ Marked(me[p])
  BY <1>1 DEF IInv, Shapes, Standing, Busy
<1>3. PICK w \in Errands : Turn(p, w) /\ w.at = "record" /\ Same(w, me[p])
  <2>1. "record" \in Places
    BY DEF Places, Busy
  <2> QED
    BY <1>1, <1>2, <2>1, GoIs
<1>4. Sent(w, p)
  BY <1>1, <1>2, <1>3 DEF Sent, Same, Applying
<1>5. /\ me[p].target \in installed /\ ~gone
      /\ ~razed =>
           /\ me[p].previous \in installed \cup {0}
           /\ me[p].previous = IF record.current \notin {0, me[p].target} THEN record.current ELSE record.previous
           /\ record.written => record.current = pointer /\ (overtaken = {} => record.previous = before)
  BY <1>1, <1>2 DEF Aimed
<1>6. me[p].target \in Some \ {0}
  BY <1>2, <1>5 DEF Shapes, InstallerAssumption, Some
<1>7. /\ before' \in Some
      /\ ~record.written /\ ~razed => before' = 0
      /\ record.written /\ ~razed /\ overtaken = {} => Recovered'.previous = before'
  BY <1>1, <1>2, <1>5, <1>6, PointsIs
<1>8. Shapes'
  BY <1>1, <1>2, <1>3, <1>6, <1>7 DEF Shapes, Turn
<1>9. ~razed /\ overtaken = {} => before' = me[p].previous
  <2>1. SUFFICES ASSUME ~razed, overtaken = {} PROVE before' = me[p].previous
    OBVIOUS
  <2>2. CASE record.written
    <3>1. record.current = pointer /\ record.previous = before /\ pointer # 0
      BY <1>2, <1>5, <2>1, <2>2 DEF Known
    <3> QED
      BY <1>1, <1>5, <2>1, <2>2, <3>1
  <2>3. CASE ~record.written
    <3>1. record.current = 0 /\ record.previous = 0 /\ before' = 0
      BY <1>2, <1>7, <2>1, <2>3 DEF Known, Missing
    <3> QED
      BY <1>5, <2>1, <3>1
  <2> QED
    BY <2>2, <2>3
<1>10. launcher # "none"
  BY <1>1, <1>2 DEF Marked, InstallerAssumption
<1>11. Disk'
  BY <1>1, <1>2, <1>5, <1>10 DEF Disk, UninstallFinal
<1>12. marker # None /\ overtaken = {} => marker.version = me[p].target /\ marker.previous = me[p].previous
  BY <1>1, <1>2 DEF Marked
<1>13. Known'
  BY <1>1, <1>2, <1>6, <1>7, <1>9, <1>12 DEF Known
<1>14. Aimed(w)'
  BY <1>1, <1>3, <1>5, <1>9 DEF Aimed, Same
<1>15. Marked(w)'
  BY <1>1, <1>2, <1>3 DEF Marked, Same
<1>16. Applied(w)' /\ Removed(w)'
  BY <1>3 DEF Applied, Removed, Applying
<1> QED
  BY <1>1, <1>2, <1>3, <1>4, <1>8, <1>11, <1>13, <1>14, <1>15, <1>16, WorkKeeps DEF Same

LEMMA RecordKeeps ==
  ASSUME InstallerAssumption, IInv, ~stolen, NEW p \in Processes, Record(p)
  PROVE  IInv'
<1>1. /\ me[p].at = "record"
      /\ record' = [current |-> me[p].target, previous |-> me[p].previous, written |-> TRUE]
      /\ UNCHANGED <<installed, staging, pointer, launcher, gens, marker, lock, spent, faults>>
      /\ UNCHANGED <<before, razed, gone, overtaken, stolen>>
  BY DEF Record, Keeps, ghosts, At
<1>2. /\ Shapes /\ Disk /\ Known /\ me[p].at \in Busy /\ me[p] \in Errands
      /\ Sent(me[p], p) /\ Aimed(me[p]) /\ Marked(me[p])
  BY <1>1 DEF IInv, Shapes, Standing, Busy
<1>3. PICK at \in {"spawn", "clear", "unlock"} :
        /\ Go(p, at)
        /\ at = "spawn" <=> me[p].token \in Tokens
  BY DEF Record
<1>4. PICK w \in Errands : Turn(p, w) /\ w.at = at /\ Same(w, me[p])
  <2>1. at \in Places
    BY <1>3 DEF Places, Busy
  <2> QED
    BY <1>2, <1>3, <2>1, GoIs
<1>5. Sent(w, p)
  BY <1>1, <1>2, <1>3, <1>4 DEF Sent, Same, Applying
<1>6. /\ record' \in [current : Some, previous : Some, written : BOOLEAN]
      /\ record'.current = me[p].target /\ record'.previous = me[p].previous /\ record'.written
  BY <1>1, <1>2 DEF Errands
<1>7. Shapes'
  BY <1>1, <1>2, <1>4, <1>6 DEF Shapes, Turn
<1>8. /\ me[p].target \in installed /\ ~gone
      /\ ~razed =>
           /\ me[p].previous \in installed \cup {0} /\ pointer = me[p].target
           /\ overtaken = {} => before = me[p].previous
  BY <1>1, <1>2 DEF Aimed
<1>9. me[p].target # 0
  BY <1>2, <1>8 DEF Shapes, InstallerAssumption
<1>10. Disk'
  BY <1>1, <1>2, <1>6, <1>8 DEF Disk, UninstallFinal
<1>11. Known'
  <2>1. ~razed => Recovered' = record'
    BY <1>1, <1>6, <1>8 DEF Recovered
  <2> QED
    BY <1>1, <1>2, <1>6, <1>8, <1>9, <2>1 DEF Known
<1>12. Aimed(w)'
  BY <1>3, <1>4 DEF Aimed
<1>13. Marked(w)'
  BY <1>1, <1>2, <1>3, <1>4 DEF Marked, Same
<1>14. Applied(w)' /\ Removed(w)'
  BY <1>3, <1>4 DEF Applied, Removed, Applying
<1> QED
  BY <1>1, <1>2, <1>4, <1>5, <1>7, <1>10, <1>11, <1>12, <1>13, <1>14, WorkKeeps DEF Same

LEMMA ClearKeeps ==
  ASSUME InstallerAssumption, IInv, ~stolen, NEW p \in Processes, Clear(p)
  PROVE  IInv'
<1>1. /\ me[p].at = "clear" /\ Go(p, "unlock") /\ marker' = None /\ gens' = {}
      /\ UNCHANGED <<installed, staging, pointer, record, launcher, lock, spent, faults>>
      /\ UNCHANGED <<before, razed, gone, overtaken, stolen>>
  BY DEF Clear, Keeps, ghosts, At
<1>2. Shapes /\ Disk /\ Known /\ me[p].at \in Busy /\ Sent(me[p], p) /\ Marked(me[p])
  BY <1>1 DEF IInv, Standing, Busy
<1>3. PICK w \in Errands : Turn(p, w) /\ w.at = "unlock" /\ Same(w, me[p])
  <2>1. "unlock" \in Places
    BY DEF Places, Busy
  <2> QED
    BY <1>1, <1>2, <2>1, GoIs
<1>4. Sent(w, p) /\ w.at \notin Claiming
  BY <1>1, <1>2, <1>3 DEF Sent, Same, Applying, Claiming
<1>5. Shapes'
  BY <1>1, <1>2, <1>3 DEF Shapes, Turn
<1>6. Disk' /\ Known'
  <2>1. launcher = "plain" /\ launcher \notin Tokens
    BY <1>1, <1>2 DEF Marked, InstallerAssumption
  <2> QED
    BY <1>1, <1>2, <2>1 DEF Disk, Known, UninstallFinal, Recovered
<1>7. Aimed(w)' /\ Marked(w)' /\ Applied(w)' /\ Removed(w)'
  BY <1>4, OffDutyNext
<1> QED
  BY <1>1, <1>2, <1>3, <1>4, <1>5, <1>6, <1>7, WorkKeeps DEF Same

(* The marker notes what became of the finalizer, or of the application. *)
LEMMA NotedKeeps ==
  ASSUME InstallerAssumption, IInv, ~stolen, NEW p \in Processes, me[p].at \in Busy,
         NEW at \in {"unlock", "abandon"}, Go(p, at), Phased, staging' \in BOOLEAN, faults' \in 0..MaxFaults,
         UNCHANGED <<installed, pointer, record, launcher, gens, lock, spent>>,
         UNCHANGED <<before, razed, gone, overtaken, stolen>>
  PROVE  IInv'
<1>1. Shapes /\ Disk /\ Known /\ Sent(me[p], p)
  BY DEF IInv, Standing
<1>2. PICK w \in Errands : Turn(p, w) /\ w.at = at /\ Same(w, me[p])
  <2>1. at \in Places
    BY DEF Places, Busy
  <2> QED
    BY <1>1, <2>1, GoIs
<1>3. Sent(w, p) /\ w.at \notin Claiming
  BY <1>1, <1>2 DEF Sent, Same, Applying, Claiming, Busy
<1>4. Shapes'
  BY <1>1, <1>2 DEF Shapes, Turn, Phased
<1>5. Disk' /\ Known'
  BY <1>1, PhasedDisk
<1>6. Aimed(w)' /\ Marked(w)' /\ Applied(w)' /\ Removed(w)'
  BY <1>3, OffDutyNext
<1> QED
  BY <1>1, <1>2, <1>3, <1>4, <1>5, <1>6, WorkKeeps DEF Same

LEMMA SpawnKeeps ==
  ASSUME InstallerAssumption, IInv, ~stolen, NEW p \in Processes, Spawn(p)
  PROVE  IInv'
<1>1. /\ me[p].at = "spawn"
      /\ UNCHANGED <<installed, staging, pointer, record, launcher, gens, lock, spent, faults>>
      /\ UNCHANGED <<before, razed, gone, overtaken, stolen>>
  BY DEF Spawn, Keeps, ghosts, At
<1>2. /\ Shapes /\ Disk /\ Known /\ me[p].at \in Busy /\ me[p] \in Errands
      /\ Sent(me[p], p) /\ Marked(me[p])
  BY <1>1 DEF IInv, Shapes, Standing, Busy
<1>3. me[p].token \in Tokens /\ p \notin Tokens /\ marker # None
  BY <1>1, <1>2 DEF Sent, Marked
<1>4. marker \in Markers
  BY <1>2, <1>3, NoneIs DEF Shapes
<1>5. CASE marker' = [marker EXCEPT !.phase = "failed"] /\ Go(p, "unlock")
  <2>1. Phased
    BY <1>3, <1>4, <1>5, PhaseIs DEF Phased
  <2>2. staging' \in BOOLEAN /\ faults' \in 0..MaxFaults
    BY <1>1, <1>2 DEF Shapes
  <2> QED
    BY <1>1, <1>2, <1>5, <2>1, <2>2, NotedKeeps
<1>6. CASE ~(marker' = [marker EXCEPT !.phase = "failed"] /\ Go(p, "unlock"))
  <2>1. PICK t \in Tokens : t = me[p].token
    BY <1>3
  <2> DEFINE child == [Idle EXCEPT !.cmd = "finalize", !.child = "finalize", !.at = "await",
                                   !.token = t, !.run = 1]
  <2>2. /\ marker' = [marker EXCEPT !.phase = "waiting"]
        /\ me' = [me EXCEPT ![p].at = "unlock", ![t] = child]
    BY <1>6, <2>1 DEF Spawn
  <2>3. t \in Processes /\ t # p /\ me[t].at \notin Busy
    <3>1. t \in Processes /\ t # p
      BY <1>3 DEF Processes
    <3> QED
      BY <1>2, <3>1, Alone
  <2>4. /\ child \in Errands /\ child.at = "await" /\ child.cmd = "finalize"
        /\ child.child = "finalize" /\ child.run = 1
    BY DEF Idle, Errands, Places, Some
  <2>5. PICK w \in Errands : w = [me[p] EXCEPT !.at = "unlock"]
    <3>1. "unlock" \in Places
      BY DEF Places, Busy
    <3> QED
      BY <1>2, <3>1 DEF Errands
  <2>6. w.at = "unlock" /\ Same(w, me[p])
    BY <1>2, <2>5 DEF Errands, Same
  <2> HIDE DEF child
  <2>7. /\ me' \in [Processes -> Errands] /\ me'[p] = w /\ me'[t] = child
        /\ \A q \in Processes \ {p, t} : me'[q] = me[q] /\ me[q].at \notin Busy
    <3>1. me' = [[me EXCEPT ![p] = w] EXCEPT ![t] = child]
      BY <1>2, <2>2, <2>3, <2>5 DEF Shapes
    <3>2. \A q \in Processes \ {p, t} : me[q].at \notin Busy
      BY <1>2, Alone
    <3> QED
      BY <1>2, <2>3, <2>4, <3>1, <3>2 DEF Shapes
  <2>8. Phased /\ marker' \in Markers
    BY <1>3, <1>4, <2>2, PhaseIs DEF Phased
  <2>9. Disk' /\ Known'
    BY <1>1, <1>2, <2>8, PhasedDisk
  <2>10. Shapes'
    BY <1>1, <1>2, <2>7, <2>8 DEF Shapes
  <2>11. Locked'
    <3>1. lock = Pid(p)
      BY <1>2 DEF IInv, Locked
    <3>2. child.at \notin Busy
      BY <2>4 DEF Busy, Applying
    <3> QED
      BY <1>1, <2>6, <2>7, <3>1, <3>2 DEF Locked, Pid, Same
  <2>12. ASSUME NEW q \in Processes PROVE Standing(q)'
    <3>1. PICK v : v = me'[q]
      OBVIOUS
    <3>2. v.at \notin Claiming /\ Sent(v, q)
      <4>1. CASE q = p
        BY <1>1, <1>2, <2>6, <2>7, <3>1, <4>1 DEF Claiming, Sent, Same, Applying
      <4>2. CASE q = t
        BY <2>4, <2>7, <3>1, <4>2 DEF Claiming, Busy, Sent, Applying
      <4>3. CASE q \notin {p, t}
        BY <2>7, <3>1, <4>3 DEF IInv, Standing, Claiming
      <4> QED
        BY <4>1, <4>2, <4>3
    <3>3. Aimed(v)' /\ Marked(v)' /\ Applied(v)' /\ Removed(v)'
      BY <3>2, OffDutyNext
    <3> QED
      BY <3>1, <3>2, <3>3 DEF Standing, Sent
  <2> QED
    BY <2>9, <2>10, <2>11, <2>12 DEF IInv
<1> QED
  BY <1>5, <1>6

LEMMA UninstallKeeps ==
  ASSUME InstallerAssumption, IInv, ~stolen, NEW p \in Processes, Uninstall(p)
  PROVE  IInv'
<1>1. UNCHANGED <<staging, lock, spent, faults, stolen, overtaken>>
  BY DEF Uninstall
<1>2. /\ me[p].at \in {"versions", "bin", "state", "pointer", "marker"}
      /\ \E at \in {"abandon", "bin", "state", "pointer", "marker", "unlock"} : Go(p, at)
  BY DEF Uninstall, At
<1>3. /\ Shapes /\ Disk /\ Known /\ me[p].at \in Busy /\ me[p] \in Errands
      /\ Sent(me[p], p) /\ Removed(me[p])
  BY <1>2 DEF IInv, Shapes, Standing, Busy
(* Each target, with what stays to be shown of it. *)
<1>4. ASSUME NEW at \in {"abandon", "bin", "state", "pointer", "marker", "unlock"}, Go(p, at),
             installed' \in {installed, {}}, launcher' \in {launcher, "none"}, gens' \in {gens, {}},
             record' \in {record, Missing}, pointer' \in {pointer, 0}, marker' \in {marker, None},
             before' \in {before, 0}, razed' \in BOOLEAN, gone' \in BOOLEAN, Disk', Known',
             \A w \in Errands : w.at = at => Removed(w)'
      PROVE  IInv'
  <2>1. PICK w \in Errands : Turn(p, w) /\ w.at = at /\ Same(w, me[p])
    <3>1. at \in Places
      BY DEF Places, Busy
    <3> QED
      BY <1>3, <1>4, <3>1, GoIs
  <2>2. Sent(w, p)
    BY <1>2, <1>3, <2>1 DEF Sent, Same, Applying
  <2>3. Shapes'
    <3>1. Missing \in [current : Some, previous : Some, written : BOOLEAN] /\ 0 \in Some
      BY DEF Missing, Some
    <3> QED
      BY <1>1, <1>3, <1>4, <2>1, <3>1 DEF Shapes, Turn
  <2>4. Aimed(w)' /\ Marked(w)' /\ Applied(w)'
    BY <2>1 DEF Aimed, Marked, Applied, Applying
  <2> QED
    BY <1>1, <1>3, <1>4, <2>1, <2>2, <2>3, <2>4, WorkKeeps DEF Same
<1>5. razed \in BOOLEAN /\ gone \in BOOLEAN /\ "none" \notin Tokens
  BY <1>3 DEF Shapes, InstallerAssumption
<1>6. CASE /\ me[p].at = "versions" /\ Go(p, "abandon")
           /\ UNCHANGED <<installed, launcher, gens, record, pointer, marker, before, razed, gone>>
  <2>1. Disk' /\ Known'
    BY <1>1, <1>3, <1>6 DEF Disk, Known, UninstallFinal, Recovered
  <2>2. \A w : w.at = "abandon" => Removed(w)'
    BY DEF Removed
  <2> QED
    BY <1>4, <1>5, <1>6, <2>1, <2>2
<1>7. CASE /\ me[p].at = "versions" /\ Go(p, "bin") /\ installed' = {} /\ razed' = TRUE
           /\ UNCHANGED <<launcher, gens, record, pointer, marker, before, gone>>
  <2>1. Disk' /\ Known'
    BY <1>1, <1>3, <1>7 DEF Disk, Known, UninstallFinal, Recovered
  <2>2. \A w : w.at = "bin" => Removed(w)'
    BY <1>7 DEF Removed
  <2> QED
    BY <1>4, <1>5, <1>7, <2>1, <2>2
<1>8. CASE /\ me[p].at = "bin" /\ Go(p, "state") /\ launcher' = "none" /\ gens' = {}
           /\ UNCHANGED <<installed, record, pointer, marker, before, razed, gone>>
  <2>1. installed = {} /\ razed
    BY <1>3, <1>8 DEF Removed
  <2>2. Disk' /\ Known'
    BY <1>1, <1>3, <1>5, <1>8, <2>1 DEF Disk, Known, UninstallFinal, Recovered
  <2>3. \A w : w.at = "state" => Removed(w)'
    BY <1>8, <2>1 DEF Removed
  <2> QED
    BY <1>4, <1>5, <1>8, <2>2, <2>3
<1>9. CASE /\ me[p].at = "state" /\ Go(p, "pointer") /\ record' = Missing
           /\ UNCHANGED <<installed, launcher, gens, pointer, marker, before, razed, gone>>
  <2>1. installed = {} /\ razed /\ launcher = "none" /\ gens = {}
    BY <1>3, <1>9 DEF Removed
  <2>2. Disk' /\ Known'
    <3>1. ~Missing.written
      BY DEF Missing
    <3> QED
      BY <1>1, <1>3, <1>9, <2>1, <3>1 DEF Disk, Known, UninstallFinal
  <2>3. \A w : w.at = "pointer" => Removed(w)'
    BY <1>9, <2>1 DEF Removed
  <2> QED
    BY <1>4, <1>5, <1>9, <2>2, <2>3
<1>10. CASE /\ me[p].at = "pointer" /\ Go(p, "marker") /\ pointer' = 0
            /\ before' = IF 0 = pointer THEN before ELSE IF record.written THEN pointer ELSE 0
            /\ UNCHANGED <<installed, launcher, gens, record, marker, razed, gone>>
  <2>1. /\ installed = {} /\ razed /\ launcher = "none" /\ gens = {} /\ record = Missing
        /\ ~record.written
    BY <1>3, <1>10 DEF Removed, Missing
  <2>2. before' = 0
    BY <1>3, <1>10, <2>1 DEF Known
  <2>3. Disk' /\ Known'
    BY <1>1, <1>3, <1>10, <2>1, <2>2 DEF Disk, Known, UninstallFinal
  <2>4. \A w : w.at = "marker" => Removed(w)'
    BY <1>10, <2>1 DEF Removed
  <2> QED
    BY <1>4, <1>5, <1>10, <2>2, <2>3, <2>4
<1>11. CASE /\ me[p].at = "marker" /\ Go(p, "unlock") /\ marker' = None /\ razed' = FALSE /\ gone' = TRUE
            /\ UNCHANGED <<installed, launcher, gens, record, pointer, before>>
  <2>1. /\ installed = {} /\ razed /\ launcher = "none" /\ gens = {} /\ record = Missing
        /\ ~record.written /\ pointer = 0 /\ record.current = 0 /\ record.previous = 0
    BY <1>3, <1>11 DEF Removed, Missing
  <2>2. Disk' /\ Known'
    BY <1>1, <1>3, <1>5, <1>11, <2>1 DEF Disk, Known, UninstallFinal
  <2>3. \A w : w.at = "unlock" => Removed(w)'
    BY DEF Removed
  <2> QED
    BY <1>4, <1>5, <1>11, <2>2, <2>3
<1> QED
  BY <1>6, <1>7, <1>8, <1>9, <1>10, <1>11 DEF Uninstall, Points, At

LEMMA ReportKeeps ==
  ASSUME IInv, NEW p \in Processes, Report(p)
  PROVE  IInv'
<1>1. /\ me' = [me EXCEPT ![p] = [Idle EXCEPT !.run = me[p].run]]
      /\ UNCHANGED <<files, before, razed, gone, overtaken, lock, stolen, spent>>
      /\ faults' \in 0..MaxFaults
  BY DEF Report, IInv, Shapes
<1>2. PICK w \in Errands : /\ w = [Idle EXCEPT !.run = me[p].run]
                           /\ w.at = "idle" /\ w.cmd = "none" /\ w.child = "none"
  <2>1. PICK n \in Nat : n = me[p].run
    BY DEF IInv, Shapes, Errands
  <2>2. [Idle EXCEPT !.run = n] \in Errands
    BY DEF Idle, Errands, Places, Some
  <2> QED
    BY <2>1, <2>2 DEF Idle
<1>3. Turn(p, w)
  BY <1>1, <1>2, TurnIs DEF IInv
<1>4. Sent(w, p) /\ w.at \notin Busy
  BY <1>2 DEF Sent, Busy, Applying
<1> QED
  BY <1>1, <1>3, <1>4, RestKeeps

LEMMA WriteFailsKeeps ==
  ASSUME InstallerAssumption, IInv, ~stolen, NEW p \in Processes, WriteFails(p)
  PROVE  IInv'
<1>1. /\ me[p].at \in Busy /\ Go(p, "abandon")
      /\ UNCHANGED <<installed, pointer, record, launcher, gens, lock, spent>>
      /\ UNCHANGED <<before, razed, gone, overtaken, stolen>>
  BY DEF WriteFails, Writing, Busy
<1>2. staging' \in BOOLEAN
  BY DEF WriteFails
<1>3. faults' \in 0..MaxFaults
  BY DEF WriteFails, IInv, Shapes, InstallerAssumption
<1>4. Phased
  <2>1. CASE marker # None
    <3>1. marker \in Markers
      BY <2>1, NoneIs DEF IInv, Shapes
    <3> QED
      BY <2>1, <3>1, PhaseIs DEF WriteFails, Phased
  <2>2. CASE marker = None
    BY <2>2 DEF WriteFails, Phased
  <2> QED
    BY <2>1, <2>2
<1> QED
  BY <1>1, <1>2, <1>3, <1>4, NotedKeeps

---------------------------------------------------------------------------
(* The theorems *)

(* A step of anyone preserves the invariant. *)
LEMMA InstallerStep ==
  ASSUME InstallerAssumption, IInv, [Next]_vars
  PROVE  IInv'
<1>1. CASE UNCHANGED vars
  <2>1. UNCHANGED <<files, before, razed, gone, overtaken, lock, stolen, spent, faults, me>>
    BY <1>1 DEF vars, ghosts
  <2>2. Shapes'
    BY <2>1 DEF IInv, Shapes, files
  <2>3. Disk' /\ Known'
    BY <2>1, SameDisk DEF IInv
  <2>4. ASSUME NEW q \in Processes PROVE Standing(q)'
    <3>1. PICK v : v = me[q]
      OBVIOUS
    <3>2. Sent(v, q) /\ Aimed(v) /\ Marked(v) /\ Applied(v) /\ Removed(v)
      BY <3>1 DEF IInv, Standing
    <3>3. Aimed(v)' /\ Marked(v)' /\ Applied(v)' /\ Removed(v)'
      BY <2>1, <3>2, SameFiles
    <3> QED
      BY <2>1, <3>1, <3>2, <3>3 DEF Standing, Sent
  <2>5. Locked'
    BY <2>1 DEF IInv, Locked, Pid
  <2> QED
    BY <2>2, <2>3, <2>4, <2>5 DEF IInv
<1>2. CASE Next
  <2>1. ~stolen
    BY <1>2 DEF Next
  <2>2. ASSUME NEW p \in Commands, CommandNext(p) PROVE IInv'
    BY <2>1, <2>2, CommandKeeps
  <2>3. ASSUME NEW p \in Processes, ProcessNext(p) PROVE IInv'
    BY <2>1, <2>3, AcquireKeeps, SeeStaleKeeps, TakeStaleKeeps, RefusedKeeps, ReleaseKeeps,
       NothingPendingKeeps, BeginApplyKeeps, ApplyLaunchersKeeps, ApplyPointerKeeps,
       ApplyRecordKeeps, ApplyPlainKeeps, ApplyRetireKeeps, StageKeeps, PlaceKeeps, ReadKeeps,
       RetireKeeps, LaunchKeeps, MarkKeeps, PointKeeps, RecordKeeps, ClearKeeps, SpawnKeeps,
       UninstallKeeps, ReportKeeps, WriteFailsKeeps
       DEF ProcessNext
  <2>4. ASSUME NEW t \in Tokens, Await(t) PROVE IInv'
    BY <2>1, <2>4, AwaitKeeps
  <2>5. CASE Die
    BY <2>5, DieKeeps
  <2> QED
    BY <1>2, <2>2, <2>3, <2>4, <2>5 DEF Next
<1> QED
  BY <1>1, <1>2

LEMMA InstallerHolds == ASSUME InstallerAssumption PROVE Spec => []IInv
<1>1. Init => IInv
  BY InitInv
<1>2. IInv /\ [Next]_vars => IInv'
  BY InstallerStep
<1> QED
  BY <1>1, <1>2, PTL DEF Spec

LEMMA TypesHold == ASSUME InstallerAssumption, IInv PROVE TypeOK
<1>1. marker.token \in Tokens \cup {"none"}
  BY NoneIs DEF IInv, Shapes
<1> QED
  BY <1>1 DEF IInv, Shapes, Some, TypeOK

(* While no one works, the record is as the next command finds it. *)
LEMMA SoundHolds == ASSUME InstallerAssumption, IInv PROVE InstallationSound
<1>1. Shapes /\ Disk /\ Known
  BY DEF IInv
<1>2. Launchable
  BY <1>1 DEF Disk, Launchable
<1>3. RollbackTarget
  <2>1. ~razed /\ record.written => pointer # 0 /\ (overtaken = {} => Recovered.previous = before)
    BY <1>1 DEF Known
  <2> QED
    BY <1>1, <2>1, RecoveredIs DEF RollbackTarget
<1>4. UninstallFinal
  BY <1>1 DEF Disk
<1> QED
  BY <1>2, <1>3, <1>4 DEF InstallationSound

(* The types of the installation, whatever is cut short (scripts/install.ts). *)
THEOREM InstallerTypes == ASSUME InstallerAssumption PROVE Spec => []TypeOK
<1>1. IInv => TypeOK
  BY TypesHold
<1> QED
  BY <1>1, InstallerHolds, PTL

(* Whichever write was the last, what the launchers start is there, the version *)
(* before is the one to roll back to, and nothing returns after an uninstall.   *)
THEOREM InstallerSound == ASSUME InstallerAssumption PROVE Spec => []InstallationSound
<1>1. IInv => InstallationSound
  BY SoundHolds
<1> QED
  BY <1>1, InstallerHolds, PTL

---------------------------------------------------------------------------
(* What is reported.  A second invariant, beside the first: of the marker, whose *)
(* it is, and that what its command reported is on the pointer; of an update,    *)
(* that once its release is on the pointer nothing that is on record, or still   *)
(* to be recorded, has another version to go back to than the one it replaced.   *)

Chosen == {"retire", "launch", "mark", "point", "record"}
Moved == {"record", "spawn", "clear", "unlock", "returned"}
Targets == {"versions", "bin", "state", "pointer", "marker"}

(* Whose a marker is, and that its command reports it only when the pointer is there. *)
Signed(w, p) ==
  /\ w.at \in Targets => w.child = "uninstall"
  /\ w.at \in {"launch", "mark"} /\ w.child # "install" => marker = None
  /\ w.at \in {"point", "record", "spawn"} /\ w.child # "install" /\ marker # None =>
       w.token = marker.token /\ marker.waits = <<p, w.run>>
  /\ w.at \in {"launch", "point"} /\ w.child = "install" /\ marker # None => marker.token \in overtaken
  /\ w.at \in {"launch", "mark", "point", "record", "spawn"} /\ w.token \in Tokens =>
       w.token \in spent \ told /\ w.child # "install"
  /\ w.at \in {"applyLaunch", "applyPoint"} => pointer # 0
  /\ w.at = "applyRecord" /\ marker # None => pointer = marker.version
  /\ w.at = "record" => pointer = w.target
  /\ w.at # "idle" /\ marker # None /\ marker.waits = <<p, w.run>> =>
       /\ w.child \in {"upgrade", "rollback"}
       /\ w.at \in Moved /\ marker.token \notin overtaken => pointer \in {marker.version, 0}

Noted ==
  /\ told \subseteq spent
  /\ marker # None =>
       /\ marker.token \in spent /\ marker.waits[1] \in Commands
       /\ marker.waits[2] <= me[marker.waits[1]].run
       /\ marker.token \in told \ overtaken => pointer \in {marker.version, 0}

Reported == Noted /\ \A p \in Processes : Signed(me[p], p)

(* After an update: its release is on the pointer, and all that will be on    *)
(* record beside it has the version before as the one to go back to.          *)
Behind(from) ==
  /\ pointer \notin {from, 0}
  /\ marker # None /\ marker.version = pointer => marker.previous \in {from, 0}
  /\ \A q \in Processes : me[q].at \in Chosen /\ me[q].target = pointer => me[q].previous \in {from, 0}
Recorded(from) == record.written => record.current = pointer /\ record.previous \in {from, 0}

Course(w, p) ==
  w.cmd = "update" =>
    /\ w.child \in {"upgrade", "rollback"} /\ w.from # 0
    /\ w.child = "upgrade" => w.target # w.from
    /\ p \notin crossed \cup torn /\ w.child = "upgrade" =>
         /\ w.at \notin Moved => pointer = w.from /\ (w.at \in Chosen => w.previous \in {w.from, 0})
         /\ w.at \in Moved => pointer = w.target /\ Behind(w.from)
         /\ w.at \in Moved \ {"record"} => Recorded(w.from)
    /\ p \notin crossed \cup torn /\ w.child = "rollback" =>
         /\ w.at \notin Moved \cup {"abandon", "failed"} => Behind(w.from) /\ Recorded(w.from)
         /\ w.at \in Chosen => w.target = w.from
         /\ w.at \in Moved => pointer = w.from

Courses == \A p \in Processes : Course(me[p], p)

KInv == Reported /\ Courses

Lasting ==
  marker' = None \/ /\ marker # None /\ marker'.token = marker.token /\ marker'.waits = marker.waits
                    /\ marker'.version = marker.version /\ marker'.previous = marker.previous

---------------------------------------------------------------------------
LEMMA ReportsKeep ==
  ASSUME InstallerAssumption, IInv, ~stolen, Reported, NEW p \in Processes, NEW w \in Errands,
         Turn(p, w), p \in Tokens \/ me[p].run <= w.run, told' = told, spent \subseteq spent', overtaken \subseteq overtaken', Lasting,
         \/ pointer' = pointer
         \/ /\ me[p].at \in Busy
            /\ marker' = None \/ marker'.token \in overtaken' \/ pointer' \in {marker'.version, 0},
         Signed(w, p)'
  PROVE  Reported'
<1>1. \A q \in Commands : me[q].run \in Nat /\ me'[q].run \in Nat /\ me[q].run <= me'[q].run
  BY DEF IInv, Shapes, Errands, Turn, Processes, InstallerAssumption
<1>2. marker # None => marker.waits[2] \in Nat /\ marker.waits[1] \in Processes
  BY DEF IInv, Shapes, Markers
<1>3. Noted'
  <2>1. SUFFICES ASSUME marker' # None
                 PROVE  /\ marker'.token \in spent' /\ marker'.waits[1] \in Commands
                        /\ marker'.waits[2] <= me'[marker'.waits[1]].run
                        /\ marker'.token \in told' \ overtaken' => pointer' \in {marker'.version, 0}
    BY DEF Reported, Noted
  <2>2. /\ marker # None /\ marker'.token = marker.token /\ marker'.waits = marker.waits
        /\ marker'.version = marker.version
    BY <2>1 DEF Lasting
  <2>3. /\ marker.token \in spent /\ marker.waits[1] \in Commands
        /\ marker.waits[2] <= me[marker.waits[1]].run
        /\ marker.token \in told \ overtaken => pointer \in {marker.version, 0}
    BY <2>2 DEF Reported, Noted
  <2>4. marker.waits[2] <= me'[marker.waits[1]].run
    BY <1>1, <1>2, <2>2, <2>3
  <2> QED
    BY <2>1, <2>2, <2>3, <2>4
<1>4. ASSUME NEW q \in Processes PROVE Signed(me[q], q)'
  <2>1. CASE q = p
    BY <2>1 DEF Turn
  <2>2. CASE q # p
    <3>1. PICK v : v = me[q]
      OBVIOUS
    <3>2. me'[q] = v /\ Signed(v, q)
      BY <2>2, <3>1 DEF Turn, Reported
    <3>3. pointer' = pointer \/ v.at \notin Busy
      BY <2>2, <3>1, Alone
    <3>4. ASSUME v.at \notin Busy PROVE Signed(v, q)'
      BY <3>2, <3>3, <3>4 DEF Signed, Lasting, Busy, Applying, Targets
    <3>5. ASSUME pointer' = pointer PROVE Signed(v, q)'
      BY <3>2, <3>5 DEF Signed, Lasting
    <3>6. Signed(v, q)'
      BY <3>3, <3>4, <3>5
    <3> QED
      BY <3>2, <3>6
  <2> QED
    BY <2>1, <2>2
<1> QED
  BY <1>3, <1>4 DEF Reported

LEMMA CoursesKeep ==
  ASSUME IInv, ~stolen, Courses, NEW p \in Processes, NEW w \in Errands, Turn(p, w),
         \A q \in Processes \ {p} : (q \in crossed => q \in crossed') /\ (q \in torn => q \in torn'),
         \/ pointer' = pointer /\ \A f \in Some : Behind(f) => Behind(f)' /\ (Recorded(f) => Recorded(f)')
         \/ /\ pointer' = pointer /\ me[p].at \in Busy
            /\ \A f \in Some : Behind(f) /\ Recorded(f) => Behind(f)' /\ Recorded(f)'
         \/ \A q \in Commands \ {p} : me[q].cmd = "update" => q \in crossed',
         Course(w, p)'
  PROVE  Courses'
<1>1. SUFFICES ASSUME NEW q \in Processes PROVE Course(me[q], q)'
  BY DEF Courses
<1>2. CASE q = p
  BY <1>2 DEF Turn
<1>3. CASE q # p
  <2>1. PICK v : v = me[q]
    OBVIOUS
  <2>2. me'[q] = v /\ Course(v, q) /\ v.from \in Some
    BY <1>3, <2>1 DEF Turn, Courses, IInv, Shapes, Errands
  <2>3. v.cmd = "update" => q \in Commands
    <3>1. q \in Tokens => v.child \in {"none", "finalize"}
      BY <2>1 DEF IInv, Standing, Sent
    <3> QED
      BY <2>2, <3>1 DEF Course, Processes
  <2>4. ASSUME q \in crossed' PROVE Course(v, q)'
    BY <2>2, <2>4 DEF Course
  <2>5. ASSUME q \notin crossed', v.cmd = "update" PROVE Course(v, q)'
    <3>1. pointer' = pointer /\ q \notin crossed
      BY <1>3, <2>1, <2>3, <2>5
    <3>2. q \in torn => q \in torn'
      BY <1>3
    <3>3. CASE Behind(v.from) => Behind(v.from)' /\ (Recorded(v.from) => Recorded(v.from)')
      BY <2>2, <3>1, <3>2, <3>3 DEF Course
    <3>4. CASE /\ me[p].at \in Busy
               /\ Behind(v.from) /\ Recorded(v.from) => Behind(v.from)' /\ Recorded(v.from)'
      <4>1. v.at # "record"
        BY <1>3, <2>1, <3>4, Alone DEF Busy
      <4> QED
        BY <2>2, <3>1, <3>2, <3>4, <4>1 DEF Course
    <3> QED
      BY <1>3, <2>1, <2>2, <2>3, <2>5, <3>3, <3>4
  <2>6. Course(v, q)'
    BY <2>4, <2>5 DEF Course
  <2> QED
    BY <2>2, <2>6
<1> QED
  BY <1>2, <1>3

LEMMA BehindKeeps ==
  ASSUME NEW p \in Processes, NEW w \in Errands, Turn(p, w), pointer' = pointer, Lasting,
         w.at \in Chosen => /\ me[p].at \in Chosen
                            /\ w.target = me[p].target /\ w.previous = me[p].previous,
         NEW f, Behind(f)
  PROVE  Behind(f)'
  BY DEF Behind, Turn, Lasting

LEMMA RecordedKeeps ==
  ASSUME pointer' = pointer, record' \in {record, Recovered, Missing}, NEW f, Recorded(f)
  PROVE  Recorded(f)'
  BY DEF Recorded, Recovered, Missing

(* A step of one process that moves no pointer, and chooses no version. *)
LEMMA Calm ==
  ASSUME InstallerAssumption, IInv, ~stolen, KInv, NEW p \in Processes, NEW w \in Errands, Turn(p, w), Same(w, me[p]),
         me[p].at # "idle", UNCHANGED <<pointer, told, overtaken, crossed, spent>>, torn \subseteq torn',
         Lasting, record' \in {record, Recovered, Missing},
         w.at \notin Chosen \cup {"spawn", "clear", "idle", "applyRecord"},
         w.at \in Targets => me[p].child = "uninstall",
         w.at \in {"applyLaunch", "applyPoint"} => pointer # 0,
         w.at \in Moved => me[p].child \notin {"upgrade", "rollback"} \/ me[p].at \in Moved \ {"record"},
         me[p].at \in Moved =>
           w.at \in Moved \/ (w.at = "abandon" /\ (me[p].child = "upgrade" => p \in torn')),
         me[p].at \in {"abandon", "failed"} => w.at \in {"abandon", "failed"}
  PROVE  KInv'
<1>1. PICK u : u = me[p]
  OBVIOUS
<1>2. u \in Errands /\ Signed(u, p) /\ Course(u, p) /\ Same(w, u)
  BY <1>1 DEF IInv, Shapes, KInv, Reported, Courses
<1>3. Signed(w, p)'
  <2>1. /\ w.child = u.child /\ w.token = u.token /\ w.run = u.run
        /\ w.at \notin Chosen \cup {"spawn"}
    BY <1>2 DEF Same
  <2>2. w.at \notin {"launch", "mark", "point", "record", "spawn", "applyRecord"}
    BY <2>1 DEF Chosen
  <2>3. marker' # None /\ marker'.waits = <<p, w.run>> =>
          /\ w.child \in {"upgrade", "rollback"}
          /\ w.at \in Moved /\ marker'.token \notin overtaken' => pointer' \in {marker'.version, 0}
    <3>1. SUFFICES ASSUME marker' # None, marker'.waits = <<p, w.run>>
                   PROVE  /\ w.child \in {"upgrade", "rollback"}
                          /\ w.at \in Moved /\ marker'.token \notin overtaken' =>
                               pointer' \in {marker'.version, 0}
      OBVIOUS
    <3>2. /\ marker # None /\ marker.waits = <<p, u.run>> /\ marker'.token = marker.token
          /\ marker'.version = marker.version
      BY <2>1, <3>1 DEF Lasting
    <3>3. /\ u.child \in {"upgrade", "rollback"}
          /\ u.at \in Moved /\ marker.token \notin overtaken => pointer \in {marker.version, 0}
      BY <1>1, <1>2, <3>2 DEF Signed
    <3> QED
      BY <1>1, <2>1, <3>2, <3>3
  <2> QED
    BY <1>1, <2>1, <2>2, <2>3 DEF Signed
<1>4. \A f \in Some : Behind(f) => Behind(f)' /\ (Recorded(f) => Recorded(f)')
  BY BehindKeeps, RecordedKeeps
<1>5. Course(w, p)'
  <2>1. /\ w.cmd = u.cmd /\ w.child = u.child /\ w.target = u.target /\ w.from = u.from
        /\ u.from \in Some /\ w.at \notin Chosen /\ w.at # "record"
    BY <1>2 DEF Same, Errands, Chosen
  <2>2. SUFFICES ASSUME w.cmd = "update" PROVE Course(w, p)'
    BY DEF Course
  <2>3. /\ w.child \in {"upgrade", "rollback"} /\ w.from # 0
        /\ w.child = "upgrade" => w.target # w.from
    BY <1>2, <2>1, <2>2 DEF Course
  <2>4. SUFFICES ASSUME p \notin crossed' \cup torn'
                 PROVE  /\ w.child = "upgrade" =>
                             /\ w.at \notin Moved => pointer' = w.from
                             /\ w.at \in Moved => pointer' = w.target /\ Behind(w.from)' /\ Recorded(w.from)'
                        /\ w.child = "rollback" =>
                             /\ w.at \notin Moved \cup {"abandon", "failed"} => Behind(w.from)' /\ Recorded(w.from)'
                             /\ w.at \in Moved => pointer' = w.from
    BY <2>1, <2>3 DEF Course
  <2>5. p \notin crossed \cup torn
    BY <2>4
  <2>6. Behind(w.from) => Behind(w.from)' /\ (Recorded(w.from) => Recorded(w.from)')
    BY <1>4, <2>1
  <2>7. CASE w.child = "upgrade"
    <3>1. u.at \in Moved <=> w.at \in Moved
      BY <1>1, <2>1, <2>4, <2>7
    <3>2. w.at \in Moved => u.at # "record"
      BY <1>1, <2>1, <2>7
    <3> QED
      BY <1>2, <2>1, <2>2, <2>5, <2>6, <2>7, <3>1, <3>2 DEF Course
  <2>8. CASE w.child = "rollback"
    <3>1. w.at \in Moved => u.at \in Moved
      BY <1>1, <2>1, <2>8
    <3>2. w.at \notin Moved \cup {"abandon", "failed"} => u.at \notin Moved \cup {"abandon", "failed"}
      BY <1>1
    <3> QED
      BY <1>2, <2>1, <2>2, <2>5, <2>6, <2>8, <3>1, <3>2 DEF Course
  <2> QED
    BY <2>3, <2>7, <2>8
<1>6. w.run = me[p].run /\ me[p].run \in Nat
  BY <1>1, <1>2 DEF Same, Errands
<1>7. Reported'
  BY <1>3, <1>6, ReportsKeep DEF KInv
<1>8. Courses'
  BY <1>4, <1>5, CoursesKeep DEF KInv
<1> QED
  BY <1>7, <1>8 DEF KInv

LEMMA CalmGo ==
  ASSUME InstallerAssumption, IInv, ~stolen, KInv, NEW p \in Processes, NEW at \in Places, Go(p, at),
         me[p].at # "idle", UNCHANGED <<pointer, told, overtaken, crossed, spent>>, torn \subseteq torn',
         Lasting, record' \in {record, Recovered, Missing},
         at \notin Chosen \cup {"spawn", "clear", "idle", "applyRecord"},
         at \in Targets => me[p].child = "uninstall",
         at \in {"applyLaunch", "applyPoint"} => pointer # 0,
         at \in Moved => me[p].child \notin {"upgrade", "rollback"} \/ me[p].at \in Moved \ {"record"},
         me[p].at \in Moved =>
           at \in Moved \/ (at = "abandon" /\ (me[p].child = "upgrade" => p \in torn')),
         me[p].at \in {"abandon", "failed"} => at \in {"abandon", "failed"}
  PROVE  KInv'
<1>1. PICK w \in Errands : Turn(p, w) /\ w.at = at /\ Same(w, me[p])
  BY GoIs DEF IInv
<1> QED
  BY <1>1, Calm

LEMMA Unmarked == ASSUME marker' = marker \/ marker' = None PROVE Lasting
  BY DEF Lasting

(* The places a process goes to, by kind. *)
LEMMA PlacesAre ==
  /\ {"lock", "again", "stale", "await", "returned", "failed"} \subseteq Places
  /\ Busy \subseteq Places /\ Applying \subseteq Busy /\ Targets \subseteq Busy
  /\ {"reconcile", "stage", "place", "read", "unlock", "abandon", "clear", "spawn"} \subseteq Busy
  /\ Chosen \subseteq Busy
  BY DEF Places, Busy, Applying, Targets, Chosen

LEMMA LockTold ==
  ASSUME InstallerAssumption, IInv, ~stolen, KInv, NEW p \in Processes,
         Acquire(p) \/ SeeStale(p) \/ TakeStale(p) \/ Refused(p) \/ Release(p)
  PROVE  KInv'
<1>1. /\ UNCHANGED <<pointer, record, marker, told, overtaken, crossed, torn, spent>>
      /\ torn \subseteq torn' /\ Lasting /\ record' \in {record, Recovered, Missing}
  <2>1. /\ UNCHANGED <<pointer, record, marker, told, overtaken, crossed, torn, spent>>
        /\ marker' = marker
    BY DEF Acquire, SeeStale, TakeStale, Refused, Release, files, ghosts
  <2> QED
    BY <2>1, Unmarked
<1>2. CASE Acquire(p)
  <2>1. PICK at \in {"versions", "reconcile"} :
          Go(p, at) /\ (at = "versions" => me[p].child = "uninstall")
    BY <1>2 DEF Acquire
  <2>2. me[p].at \in {"lock", "again"}
    BY <1>2 DEF Acquire
  <2>3. at \in Places
    BY <2>1, PlacesAre DEF Targets
  <2> QED
    BY <1>1, <2>1, <2>2, <2>3, CalmGo DEF Chosen, Moved, Targets
<1>3. CASE SeeStale(p)
  <2>1. me[p].at = "lock" /\ Go(p, "stale") /\ "stale" \in Places
    BY <1>3, PlacesAre DEF SeeStale, At
  <2> QED
    BY <1>1, <2>1, CalmGo DEF Chosen, Moved, Targets
<1>4. CASE TakeStale(p)
  <2>1. me[p].at = "stale" /\ Go(p, "again") /\ "again" \in Places
    BY <1>4, PlacesAre DEF TakeStale, At
  <2> QED
    BY <1>1, <2>1, CalmGo DEF Chosen, Moved, Targets
<1>5. CASE Refused(p)
  <2>1. me[p].at \in {"lock", "again"} /\ Go(p, "failed") /\ "failed" \in Places
    BY <1>5, PlacesAre DEF Refused, Fails, Go, At
  <2> QED
    BY <1>1, <2>1, CalmGo DEF Chosen, Moved, Targets
<1>6. CASE Release(p)
  <2>1. me[p].at \in {"unlock", "abandon"} /\ me[p].at \in Busy
    BY <1>6, PlacesAre DEF Release
  <2>2. lock = Pid(p)
    BY <2>1 DEF IInv, Locked
  <2>3. Go(p, IF me[p].at = "unlock" THEN "returned" ELSE "failed")
    BY <1>6, <2>2 DEF Release, At
  <2>4. CASE me[p].at = "unlock"
    <3>1. Go(p, "returned") /\ "returned" \in Places
      BY <2>3, <2>4, PlacesAre
    <3> QED
      BY <1>1, <2>4, <3>1, CalmGo DEF Chosen, Moved, Targets
  <2>5. CASE me[p].at = "abandon"
    <3>1. Go(p, "failed") /\ "failed" \in Places
      BY <2>3, <2>5, PlacesAre
    <3> QED
      BY <1>1, <2>5, <3>1, CalmGo DEF Chosen, Moved, Targets
  <2> QED
    BY <2>1, <2>4, <2>5
<1> QED
  BY <1>2, <1>3, <1>4, <1>5, <1>6

(* What follows once nothing is pending, or it is completed. *)
LEMMA AfterTold ==
  ASSUME InstallerAssumption, IInv, ~stolen, KInv, NEW p \in Processes, me[p].at \in {"reconcile", "applyRetire"},
         Go(p, AfterReconcile(p)), UNCHANGED <<pointer, told, overtaken, crossed, torn, spent>>,
         Lasting, record' \in {record, Recovered}
  PROVE  KInv'
<1>1. PICK at \in {"unlock", "read", "stage"} :
        Go(p, at) /\ (at = "unlock" => me[p].child \in {"start", "finalize"})
  BY DEF AfterReconcile
<1>2. at \in Places
  BY PlacesAre
<1> QED
  BY <1>1, <1>2, CalmGo DEF Chosen, Moved, Targets

LEMMA PhaseLasts ==
  ASSUME InstallerAssumption, IInv, marker # None,
         NEW phase \in {"prepared", "waiting", "applying", "failed"}, NEW n,
         marker' = [marker EXCEPT !.phase = phase] \/ marker' = [marker EXCEPT !.phase = phase, !.attempts = n]
  PROVE  Lasting
<1>1. marker \in Markers
  BY NoneIs DEF IInv, Shapes
<1> QED
  BY <1>1 DEF Lasting, Markers

LEMMA ReconcileTold ==
  ASSUME InstallerAssumption, IInv, ~stolen, KInv, NEW p \in Processes,
         NothingPending(p) \/ BeginApply(p) \/ ApplyLaunchers(p) \/ ApplyPlain(p) \/ ApplyRetire(p)
  PROVE  KInv'
<1>1. UNCHANGED <<pointer, told, overtaken, crossed, torn, spent>> /\ torn \subseteq torn'
  BY DEF NothingPending, BeginApply, ApplyLaunchers, ApplyPlain, ApplyRetire, Keeps, ghosts
<1>2. CASE NothingPending(p)
  <2>1. me[p].at = "reconcile" /\ Go(p, AfterReconcile(p)) /\ record' = record
    BY <1>2 DEF NothingPending, Keeps, At
  <2>2. Lasting
    <3>1. CASE marker' = marker
      BY <3>1, Unmarked
    <3>2. CASE marker' # marker
      <4>1. marker # None /\ marker' = [marker EXCEPT !.phase = "failed"]
        BY <1>2, <3>2 DEF NothingPending, Own
      <4> QED
        BY <4>1, PhaseLasts
    <3> QED
      BY <3>1, <3>2
  <2> QED
    BY <1>1, <2>1, <2>2, AfterTold
<1>3. CASE BeginApply(p)
  <2>1. /\ me[p].at = "reconcile" /\ marker # None
        /\ record' \in {record, Recovered}
    BY <1>3 DEF BeginApply, Keeps, At, Own
  <2>2. CASE marker' = marker /\ Go(p, "abandon")
    <3>1. Lasting /\ "abandon" \in Places
      BY <2>2, Unmarked, PlacesAre
    <3> QED
      BY <1>1, <2>1, <2>2, <3>1, CalmGo DEF Chosen, Moved, Targets
  <2>3. CASE marker' = None /\ Go(p, AfterReconcile(p))
    BY <1>1, <2>1, <2>3, Unmarked, AfterTold
  <2>4. CASE /\ marker' = [marker EXCEPT !.phase = "failed"]
             /\ Go(p, IF me[p].child = "start" THEN "abandon" ELSE AfterReconcile(p))
    <3>1. Lasting /\ "abandon" \in Places
      BY <2>1, <2>4, PhaseLasts, PlacesAre
    <3>2. CASE me[p].child = "start"
      <4>1. Go(p, "abandon")
        BY <2>4, <3>2
      <4> QED
        BY <1>1, <2>1, <3>1, <4>1, CalmGo DEF Chosen, Moved, Targets
    <3>3. CASE me[p].child # "start"
      <4>1. Go(p, AfterReconcile(p))
        BY <2>4, <3>3
      <4> QED
        BY <1>1, <2>1, <3>1, <4>1, AfterTold
    <3> QED
      BY <3>2, <3>3
  <2>5. CASE /\ Admitted /\ marker' = [marker EXCEPT !.phase = "applying", !.attempts = @ + 1]
             /\ Go(p, "applyLaunch")
    <3>1. Lasting /\ "applyLaunch" \in Places
      BY <2>1, <2>5, PhaseLasts, PlacesAre DEF Applying
    <3>2. pointer # 0
      BY <2>5 DEF Admitted
    <3> QED
      BY <1>1, <2>1, <2>5, <3>1, <3>2, CalmGo DEF Chosen, Moved, Targets
  <2> QED
    BY <1>3, <2>2, <2>3, <2>4, <2>5 DEF BeginApply
<1>4. CASE ApplyLaunchers(p)
  <2>1. me[p].at = "applyLaunch" /\ Go(p, "applyPoint") /\ record' = record /\ marker' = marker
    BY <1>4 DEF ApplyLaunchers, Keeps, At
  <2>2. pointer # 0
    BY <2>1 DEF KInv, Reported, Signed
  <2>3. Lasting /\ "applyPoint" \in Places
    BY <2>1, Unmarked, PlacesAre DEF Applying
  <2> QED
    BY <1>1, <2>1, <2>2, <2>3, CalmGo DEF Chosen, Moved, Targets
<1>5. CASE ApplyPlain(p)
  <2>1. me[p].at = "applyPlain" /\ Go(p, "applyRetire") /\ record' = record /\ marker' = marker
    BY <1>5 DEF ApplyPlain, Keeps, At
  <2>2. Lasting /\ "applyRetire" \in Places
    BY <2>1, Unmarked, PlacesAre DEF Applying
  <2> QED
    BY <1>1, <2>1, <2>2, CalmGo DEF Chosen, Moved, Targets
<1>6. CASE ApplyRetire(p)
  <2>1. me[p].at = "applyRetire" /\ Go(p, AfterReconcile(p)) /\ record' = record /\ marker' = None
    BY <1>6 DEF ApplyRetire, Keeps, At
  <2> QED
    BY <1>1, <2>1, Unmarked, AfterTold
<1> QED
  BY <1>2, <1>3, <1>4, <1>5, <1>6

LEMMA StageTold ==
  ASSUME InstallerAssumption, IInv, ~stolen, KInv, NEW p \in Processes, Stage(p) \/ Place(p) \/ Clear(p)
  PROVE  KInv'
<1>1. /\ UNCHANGED <<pointer, record, told, overtaken, crossed, torn, spent>> /\ torn \subseteq torn'
      /\ marker' = marker \/ marker' = None
  BY DEF Stage, Place, Clear, Keeps, ghosts
<1>2. Lasting /\ record' \in {record, Recovered, Missing}
  BY <1>1, Unmarked
<1>3. /\ \/ me[p].at = "stage" /\ Go(p, "place")
         \/ me[p].at = "place" /\ Go(p, "read")
         \/ me[p].at = "clear" /\ Go(p, "unlock")
      /\ {"place", "read", "unlock"} \subseteq Places
  BY PlacesAre DEF Stage, Place, Clear, At
<1>4. PICK at \in {"place", "read", "unlock"} :
        Go(p, at) /\ (at = "unlock" => me[p].at = "clear") /\ (at # "unlock" => me[p].at \in {"stage", "place"})
  BY <1>3
<1> QED
  BY <1>1, <1>2, <1>3, <1>4, CalmGo DEF Chosen, Moved, Targets

(* A write that fails, before the pointer is moved or after it. *)
LEMMA FailureTold ==
  ASSUME InstallerAssumption, IInv, ~stolen, KInv, NEW p \in Processes, WriteFails(p)
  PROVE  KInv'
<1>1. /\ UNCHANGED <<pointer, record, told, overtaken, crossed, spent>> /\ torn \subseteq torn'
      /\ me[p].at \in Writing /\ Go(p, "abandon") /\ "abandon" \in Places
      /\ me[p].child = "upgrade" /\ me[p].at \in {"record", "spawn"} => p \in torn'
  BY PlacesAre DEF WriteFails, At
<1>2. Lasting
  <2>1. CASE marker' = marker
    BY <2>1, Unmarked
  <2>2. CASE marker' # marker
    <3>1. marker # None /\ marker' = [marker EXCEPT !.phase = "failed"]
      BY <2>2 DEF WriteFails
    <3> QED
      BY <3>1, PhaseLasts
  <2> QED
    BY <2>1, <2>2
<1>3. me[p].at \in Moved => me[p].at \in {"record", "spawn"}
  BY <1>1 DEF Writing, Applying, Moved
<1>4. me[p].at \notin {"idle", "abandon", "failed"}
  BY <1>1 DEF Writing, Applying
<1> QED
  BY <1>1, <1>2, <1>3, <1>4, CalmGo DEF Chosen, Moved, Targets

(* The pointer is moved: an update of another is crossed. *)
LEMMA CrossedTold ==
  ASSUME IInv, ~stolen, KInv, NEW p \in Processes, NEW w \in Errands, Turn(p, w), torn' = torn,
         pointer' # pointer => \A q \in Commands \ {p} : me[q].cmd = "update" => q \in crossed',
         crossed \subseteq crossed', Lasting, record' \in {record, Recovered, Missing},
         w.at \in Chosen => /\ me[p].at \in Chosen
                            /\ w.target = me[p].target /\ w.previous = me[p].previous,
         Course(w, p)'
  PROVE  Courses'
<1>1. ASSUME pointer' = pointer
      PROVE  \A f \in Some : Behind(f) => Behind(f)' /\ (Recorded(f) => Recorded(f)')
  BY <1>1, BehindKeeps, RecordedKeeps
<1> QED
  BY <1>1, CoursesKeep DEF KInv

LEMMA UninstallTold ==
  ASSUME InstallerAssumption, IInv, ~stolen, KInv, NEW p \in Processes, Uninstall(p)
  PROVE  KInv'
<1>1. /\ UNCHANGED <<told, overtaken, torn, spent>> /\ torn \subseteq torn'
      /\ me[p].at \in Targets /\ Lasting /\ record' \in {record, Recovered, Missing}
  <2>1. /\ UNCHANGED <<told, overtaken, torn, spent>> /\ me[p].at \in Targets
        /\ marker' = marker \/ marker' = None
        /\ record' = record \/ record' = Missing
    BY DEF Uninstall, At, Targets
  <2> QED
    BY <2>1, Unmarked
<1>2. me[p].child = "uninstall"
  BY <1>1 DEF KInv, Reported, Signed
<1>3. CASE me[p].at # "pointer"
  <2>1. /\ UNCHANGED <<pointer, crossed>>
        /\ \E at \in {"abandon", "bin", "state", "pointer", "unlock"} : Go(p, at)
    BY <1>3 DEF Uninstall, At
  <2>2. PICK at \in {"abandon", "bin", "state", "pointer", "unlock"} : Go(p, at)
    BY <2>1
  <2>3. at \in Places
    BY <2>2, PlacesAre DEF Targets
  <2> QED
    BY <1>1, <1>2, <2>1, <2>2, <2>3, CalmGo DEF Chosen, Moved, Targets
<1>4. CASE me[p].at = "pointer"
  <2>1. Go(p, "marker") /\ Points(0, Commands) /\ UNCHANGED <<record, marker>>
    BY <1>4 DEF Uninstall, At
  <2>2. /\ pointer' = 0 /\ crossed \subseteq crossed'
        /\ pointer' # pointer => \A q \in Commands : me[q].cmd = "update" => q \in crossed'
    BY <2>1 DEF Points
  <2>3. PICK w \in Errands : Turn(p, w) /\ w.at = "marker" /\ Same(w, me[p])
    <3>1. "marker" \in Places
      BY PlacesAre DEF Targets
    <3> QED
      BY <2>1, <3>1, GoIs DEF IInv
  <2>4. me[p].at \in Busy /\ me[p].run \in Nat /\ w.run = me[p].run /\ w.child = "uninstall"
    BY <1>1, <1>2, <2>3, PlacesAre DEF IInv, Shapes, Errands, Same
  <2>5. Signed(w, p)'
    <3>1. ~(marker # None /\ marker.waits = <<p, me[p].run>>)
      BY <1>2, <1>4 DEF KInv, Reported, Signed
    <3> QED
      BY <2>1, <2>3, <2>4, <3>1 DEF Signed, Targets, Moved
  <2>6. Course(w, p)'
    <3>1. me[p].cmd # "update"
      BY <1>2 DEF KInv, Courses, Course
    <3> QED
      BY <2>3, <3>1 DEF Course, Same
  <2>7. Reported'
    BY <1>1, <2>2, <2>3, <2>4, <2>5, ReportsKeep DEF KInv
  <2>8. Courses'
    BY <1>1, <2>2, <2>3, <2>6, CrossedTold DEF Chosen
  <2> QED
    BY <2>7, <2>8 DEF KInv
<1> QED
  BY <1>3, <1>4

LEMMA ApplyPointerTold ==
  ASSUME InstallerAssumption, IInv, ~stolen, KInv, NEW p \in Processes, ApplyPointer(p)
  PROVE  KInv'
<1>1. /\ me[p].at = "applyPoint" /\ Go(p, "applyRecord") /\ Points(marker.version, Commands)
      /\ UNCHANGED <<record, marker, spent, told, torn, overtaken>>
  BY DEF ApplyPointer, At
<1>2. /\ pointer' = marker.version /\ crossed \subseteq crossed' /\ Lasting
      /\ pointer' # pointer => \A q \in Commands : me[q].cmd = "update" => q \in crossed'
  BY <1>1, Unmarked DEF Points
<1>3. PICK w \in Errands : Turn(p, w) /\ w.at = "applyRecord" /\ Same(w, me[p])
  <2>1. "applyRecord" \in Places
    BY PlacesAre DEF Applying
  <2> QED
    BY <1>1, <2>1, GoIs DEF IInv
<1>4. me[p].at \in Busy /\ me[p].run \in Nat /\ w.run = me[p].run
  BY <1>1, <1>3, PlacesAre DEF IInv, Shapes, Errands, Same, Applying
<1>5. Signed(w, p)'
  <2>1. marker # None /\ marker.waits = <<p, me[p].run>> => me[p].child \in {"upgrade", "rollback"}
    BY <1>1 DEF KInv, Reported, Signed
  <2> QED
    BY <1>1, <1>2, <1>3, <2>1 DEF Signed, Targets, Moved, Same
<1>6. Course(w, p)'
  <2>1. CASE pointer' # pointer
    <3>1. me[p].cmd = "update" => p \in Commands
      <4>1. p \in Tokens => me[p].child \in {"none", "finalize"}
        BY DEF IInv, Standing, Sent
      <4> QED
        BY <4>1 DEF KInv, Courses, Course, Processes
    <3>2. me[p].cmd = "update" => p \in crossed'
      BY <1>2, <2>1, <3>1
    <3>3. w.at \notin Chosen
      BY <1>3 DEF Chosen
    <3> QED
      BY <1>3, <3>2, <3>3 DEF KInv, Courses, Course, Same
  <2>2. CASE pointer' = pointer
    <3>1. \A f \in Some : Behind(f) => Behind(f)' /\ (Recorded(f) => Recorded(f)')
      BY <1>1, <1>2, <1>3, <2>2, BehindKeeps, RecordedKeeps DEF Chosen
    <3>2. /\ w.at \notin Moved \cup {"abandon", "failed"} /\ w.at \notin Chosen
          /\ me[p].at \notin Moved \cup {"abandon", "failed"} /\ me[p].from \in Some
      BY <1>1, <1>3 DEF Moved, Chosen, IInv, Shapes, Errands
    <3>3. crossed \subseteq crossed' /\ torn' = torn
      BY <1>1, <1>2
    <3> QED
      BY <1>3, <2>2, <3>1, <3>2, <3>3 DEF KInv, Courses, Course, Same
  <2> QED
    BY <2>1, <2>2
<1>7. Reported'
  BY <1>1, <1>2, <1>3, <1>4, <1>5, ReportsKeep DEF KInv
<1>8. Courses'
  BY <1>1, <1>2, <1>3, <1>6, CrossedTold DEF Chosen
<1> QED
  BY <1>7, <1>8 DEF KInv

(* The record after an applied marker has what the record or the marker had. *)
LEMMA ApplyRecordTold ==
  ASSUME InstallerAssumption, IInv, ~stolen, KInv, NEW p \in Processes, ApplyRecord(p)
  PROVE  KInv'
<1>1. /\ me[p].at = "applyRecord" /\ UNCHANGED <<pointer, marker, spent, told, crossed, torn, overtaken>>
      /\ record' = [current |-> marker.version, written |-> TRUE,
                    previous |-> IF marker.previous # 0 THEN marker.previous
                                 ELSE IF record.current = marker.version THEN record.previous
                                 ELSE record.current]
      /\ \E at \in {"applyPlain", "applyRetire"} : Go(p, at)
  BY DEF ApplyRecord, Keeps, ghosts, At
<1>2. me[p].at \in Busy /\ me[p] \in Errands /\ Signed(me[p], p) /\ Course(me[p], p)
  BY <1>1, PlacesAre DEF Applying, IInv, Shapes, KInv, Reported, Courses
<1>3. marker # None /\ pointer = marker.version /\ Lasting
  <2>1. marker # None
    BY <1>1 DEF IInv, Standing, Applied, Applying
  <2> QED
    BY <1>1, <1>2, <2>1, Unmarked DEF Signed
<1>4. PICK at \in {"applyPlain", "applyRetire"} : Go(p, at)
  BY <1>1
<1>5. PICK w \in Errands : Turn(p, w) /\ w.at = at /\ Same(w, me[p])
  <2>1. at \in Places
    BY PlacesAre DEF Applying
  <2> QED
    BY <1>4, <2>1, GoIs DEF IInv
<1>6. /\ w.at \notin Moved \cup Chosen \cup Targets \cup {"spawn", "idle", "abandon", "failed"}
      /\ me[p].at \notin Moved \cup Chosen \cup {"abandon", "failed"}
  BY <1>1, <1>5 DEF Moved, Chosen, Targets
<1>7. \A f \in Some : Behind(f) => Behind(f)' /\ (Recorded(f) => Recorded(f)')
  <2>1. SUFFICES ASSUME NEW f \in Some, Behind(f) PROVE Behind(f)' /\ (Recorded(f) => Recorded(f)')
    OBVIOUS
  <2>2. Behind(f)'
    BY <1>1, <1>3, <1>5, <1>6, <2>1, BehindKeeps
  <2>3. marker.previous \in {f, 0}
    BY <1>3, <2>1 DEF Behind
  <2>4. ~record.written => record.current = 0 /\ record.previous = 0
    BY DEF IInv, Known, Missing
  <2>5. Recorded(f) => Recorded(f)'
    BY <1>1, <1>3, <2>3, <2>4 DEF Recorded
  <2> QED
    BY <2>2, <2>5
<1>8. Signed(w, p)'
  BY <1>1, <1>2, <1>5, <1>6 DEF Signed, Same, Chosen
<1>9. Course(w, p)'
  <2>1. me[p].from \in Some
    BY <1>2 DEF Errands
  <2> QED
    BY <1>1, <1>2, <1>5, <1>6, <1>7, <2>1 DEF Course, Same
<1>10. Reported'
  BY <1>1, <1>2, <1>3, <1>5, <1>8, ReportsKeep DEF KInv, Same, Errands
<1>11. Courses'
  BY <1>1, <1>5, <1>7, <1>9, CoursesKeep DEF KInv
<1> QED
  BY <1>10, <1>11 DEF KInv

(* The version to go back to is read from the record. *)
LEMMA ReadIs ==
  ASSUME IInv, NEW p \in Processes, Read(p)
  PROVE  \/ Go(p, "abandon")
         \/ \E w \in Errands :
              /\ Turn(p, w) /\ w.at = "retire" /\ w.cmd = me[p].cmd /\ w.child = me[p].child
              /\ w.from = me[p].from /\ w.run = me[p].run
              /\ w.child = "rollback" => w.target = Recovered.previous /\ w.target # 0
              /\ w.child # "rollback" => w.target = me[p].target
              /\ w.previous = IF w.child = "rollback" \/ Recovered.current \notin {0, w.target}
                              THEN Recovered.current ELSE Recovered.previous
<1> DEFINE target == IF me[p].child = "rollback" THEN Recovered.previous ELSE me[p].target
           previous == IF me[p].child = "rollback" \/ Recovered.current \notin {0, target}
                       THEN Recovered.current ELSE Recovered.previous
           w == [me[p] EXCEPT !.at = "retire", !.target = target, !.previous = previous]
<1>1. Go(p, "abandon") \/ (me' = [me EXCEPT ![p] = w] /\ (me[p].child = "rollback" => Recovered.previous # 0))
  BY DEF Read
<1>2. me[p] \in Errands
  BY DEF IInv, Shapes
<1>3. Recovered \in [current : Some, previous : Some, written : BOOLEAN]
  BY RecoveredIs DEF IInv
<1>4. target \in Some /\ previous \in Some /\ "retire" \in Places
  BY <1>2, <1>3, PlacesAre DEF Errands, Chosen
<1> HIDE DEF target, previous
<1>5. /\ w \in Errands /\ w.at = "retire" /\ w.target = target /\ w.previous = previous
      /\ w.cmd = me[p].cmd /\ w.child = me[p].child /\ w.from = me[p].from /\ w.run = me[p].run
  BY <1>2, <1>4 DEF Errands
<1> HIDE DEF w
<1>6. me' = [me EXCEPT ![p] = w] => Turn(p, w)
  BY <1>5, TurnIs DEF IInv
<1> QED
  BY <1>1, <1>5, <1>6 DEF target, previous

LEMMA ReadTold ==
  ASSUME InstallerAssumption, IInv, ~stolen, KInv, NEW p \in Processes, Read(p)
  PROVE  KInv'
<1>1. /\ me[p].at = "read" /\ UNCHANGED <<pointer, marker, spent, told, crossed, torn, overtaken>>
      /\ record' \in {record, Recovered, Missing}
      /\ torn \subseteq torn' /\ Lasting
  <2>1. marker' = marker
    BY DEF Read, Keeps
  <2> QED
    BY <2>1, Unmarked DEF Read, Keeps, ghosts, At
<1>2. me[p].at \in Busy /\ me[p] \in Errands /\ Signed(me[p], p) /\ Course(me[p], p)
  BY <1>1, PlacesAre DEF IInv, Shapes, KInv, Reported, Courses
<1>3. CASE Go(p, "abandon")
  <2>1. "abandon" \in Places
    BY PlacesAre
  <2> QED
    BY <1>1, <1>3, <2>1, CalmGo DEF Chosen, Moved, Targets
<1>4. ASSUME NEW w \in Errands, Turn(p, w), w.at = "retire", w.cmd = me[p].cmd, w.child = me[p].child,
             w.from = me[p].from, w.run = me[p].run,
             w.child = "rollback" => w.target = Recovered.previous /\ w.target # 0,
             w.child # "rollback" => w.target = me[p].target,
             w.previous = IF w.child = "rollback" \/ Recovered.current \notin {0, w.target}
                          THEN Recovered.current ELSE Recovered.previous
      PROVE  KInv'
  <2>1. /\ ~record.written => record.current = 0 /\ record.previous = 0 /\ Recovered = record
        /\ record.written /\ pointer # 0 => Recovered.current = pointer
    BY RecoveredIs DEF IInv, Known, Missing
  <2>2. ASSUME NEW f \in Some, Behind(f), Recorded(f)
        PROVE  Behind(f)' /\ Recorded(f)' /\ (w.child = "rollback" => w.target = f)
    <3>1. pointer \notin {f, 0} /\ (record.written => record.current = pointer /\ record.previous \in {f, 0})
      BY <2>2 DEF Behind, Recorded
    <3>2. Recovered = record
      BY <2>1, <3>1 DEF Recovered
    <3>3. w.target = pointer => w.previous \in {f, 0}
      BY <1>4, <2>1, <3>1, <3>2
    <3>4. Behind(f)'
      BY <1>1, <1>4, <2>2, <3>3 DEF Behind, Turn, Lasting
    <3>5. Recorded(f)'
      BY <1>1, <2>2, RecordedKeeps
    <3>6. w.child = "rollback" => w.target = f
      BY <1>4, <2>1, <3>1, <3>2
    <3> QED
      BY <3>4, <3>5, <3>6
  <2>3. Signed(w, p)'
    BY <1>1, <1>2, <1>4 DEF Signed, Moved, Targets
  <2>4. Course(w, p)'
    <3>1. SUFFICES ASSUME w.cmd = "update" PROVE Course(w, p)'
      BY DEF Course
    <3>2. w.child \in {"upgrade", "rollback"} /\ w.from # 0 /\ w.from \in Some
      BY <1>2, <1>4, <3>1 DEF Course, Errands
    <3>3. CASE w.child = "upgrade"
      <4>1. w.target # w.from
        BY <1>2, <1>4, <3>1, <3>3 DEF Course
      <4>2. p \notin crossed \cup torn => pointer = w.from
        BY <1>1, <1>2, <1>4, <3>1, <3>3 DEF Course, Moved
      <4>3. p \notin crossed \cup torn => w.previous \in {w.from, 0}
        BY <1>4, <2>1, <3>2, <3>3, <4>1, <4>2
      <4> QED
        BY <1>1, <1>4, <3>2, <3>3, <4>1, <4>2, <4>3 DEF Course, Moved
    <3>4. CASE w.child = "rollback"
      <4>1. p \notin crossed \cup torn => Behind(w.from) /\ Recorded(w.from)
        BY <1>1, <1>2, <1>4, <3>1, <3>4 DEF Course, Moved
      <4>2. p \notin crossed \cup torn => Behind(w.from)' /\ Recorded(w.from)' /\ w.target = w.from
        BY <2>2, <3>2, <3>4, <4>1
      <4> QED
        BY <1>1, <1>4, <3>2, <3>4, <4>2 DEF Course, Moved
    <3> QED
      BY <3>2, <3>3, <3>4
  <2>5. Reported'
    BY <1>1, <1>2, <1>4, <2>3, ReportsKeep DEF KInv, Errands
  <2>6. Courses'
    BY <1>1, <1>2, <1>4, <2>2, <2>4, CoursesKeep DEF KInv
  <2> QED
    BY <2>5, <2>6 DEF KInv
<1> QED
  BY <1>3, <1>4, ReadIs

(* From the choice of a version until the pointer is moved, of one process. *)
LEMMA OnwardCourse ==
  ASSUME NEW p \in Processes, NEW w \in Errands, Course(me[p], p), me[p] \in Errands,
         w.cmd = me[p].cmd, w.child = me[p].child, w.target = me[p].target, w.from = me[p].from,
         w.previous = me[p].previous, me[p].at \in Chosen \ {"record"}, w.at \in Chosen \ {"record"},
         UNCHANGED <<pointer, crossed, torn>>,
         \A f \in Some : Behind(f) => Behind(f)' /\ (Recorded(f) => Recorded(f)')
  PROVE  Course(w, p)'
<1>1. me[p].from \in Some
  BY DEF Errands
<1>2. me[p].at \notin Moved \cup {"abandon", "failed"} /\ w.at \notin Moved \cup {"abandon", "failed"}
  BY DEF Chosen, Moved
<1> QED
  BY <1>1, <1>2 DEF Course, Chosen

LEMMA RetireTold ==
  ASSUME InstallerAssumption, IInv, ~stolen, KInv, NEW p \in Processes, Retire(p)
  PROVE  KInv'
<1>1. /\ me[p].at = "retire" /\ UNCHANGED <<pointer, record, told, crossed, torn>>
      /\ overtaken' = IF me[p].child = "install" /\ marker # None
                      THEN overtaken \cup {marker.token} ELSE overtaken
  BY DEF Retire, At
<1>2. /\ me[p].at \in Busy /\ me[p] \in Errands /\ Signed(me[p], p) /\ Course(me[p], p)
      /\ me[p].child \in {"install", "upgrade", "rollback"} /\ me[p].run \in Nat
  BY <1>1, PlacesAre DEF Chosen, IInv, Shapes, Errands, KInv, Reported, Courses, Standing, Sent
<1>3. PICK token \in Tokens \cup {"none"} :
        /\ me' = [me EXCEPT ![p].at = "launch", ![p].token = token]
        /\ token \in Tokens =>
             /\ marker' = None /\ spent' = spent \cup {token} /\ token \notin spent
             /\ me[p].child # "install"
        /\ token \notin Tokens =>
             /\ marker' = IF me[p].child = "rollback" THEN None ELSE marker
             /\ me[p].child = "upgrade" => ~Windows
             /\ spent' = spent
  <2>1. CASE Deferred(p)
    <3>1. Fresh \in Tokens /\ Fresh \notin spent
      BY <2>1 DEF Retire, Fresh
    <3>2. me[p].child # "install"
      BY <2>1 DEF Deferred
    <3> QED
      BY <2>1, <3>1, <3>2 DEF Retire
  <2>2. CASE ~Deferred(p)
    <3>1. "none" \notin Tokens
      BY DEF InstallerAssumption
    <3> QED
      BY <2>2, <3>1 DEF Retire, Deferred
  <2> QED
    BY <2>1, <2>2
<1>4. PICK w \in Errands : w = [me[p] EXCEPT !.at = "launch", !.token = token]
  <2>1. "launch" \in Places
    BY PlacesAre DEF Chosen
  <2> QED
    BY <1>2, <2>1 DEF Errands
<1>5. /\ w.at = "launch" /\ w.token = token /\ w.cmd = me[p].cmd /\ w.child = me[p].child
      /\ w.run = me[p].run /\ w.target = me[p].target /\ w.previous = me[p].previous /\ w.from = me[p].from
  BY <1>2, <1>4 DEF Errands
<1>6. Turn(p, w)
  <2>1. me' = [me EXCEPT ![p] = w]
    BY <1>3, <1>4
  <2> QED
    BY <1>2, <2>1, TurnIs DEF IInv
<1>7. Lasting /\ spent \subseteq spent' /\ overtaken \subseteq overtaken'
      /\ record' \in {record, Recovered, Missing}
  BY <1>1, <1>3, Unmarked
<1>8. Signed(w, p)'
  <2>1. w.child # "install" => marker' = None
    <3>1. ~Windows => marker = None
      BY DEF IInv, Disk
    <3> QED
      BY <1>2, <1>3, <1>5, <3>1
  <2>2. w.child = "install" /\ marker' # None => marker'.token \in overtaken'
    BY <1>1, <1>3, <1>5
  <2>3. w.token \in Tokens => w.token \in spent' \ told' /\ w.child # "install"
    BY <1>1, <1>3, <1>5 DEF KInv, Reported, Noted
  <2>4. marker' # None /\ marker'.waits = <<p, w.run>> => w.child \in {"upgrade", "rollback"}
    BY <1>1, <1>2, <1>3, <1>5 DEF Signed
  <2> QED
    BY <1>5, <2>1, <2>2, <2>3, <2>4 DEF Signed, Targets, Moved
<1>9. \A f \in Some : Behind(f) => Behind(f)' /\ (Recorded(f) => Recorded(f)')
  BY <1>1, <1>5, <1>6, <1>7, BehindKeeps, RecordedKeeps DEF Chosen
<1>10. Course(w, p)'
  BY <1>1, <1>2, <1>5, <1>9, OnwardCourse DEF Chosen
<1>11. Reported'
  BY <1>1, <1>2, <1>5, <1>6, <1>7, <1>8, ReportsKeep DEF KInv
<1>12. Courses'
  BY <1>1, <1>6, <1>9, <1>10, CoursesKeep DEF KInv
<1> QED
  BY <1>11, <1>12 DEF KInv

LEMMA LaunchTold ==
  ASSUME InstallerAssumption, IInv, ~stolen, KInv, NEW p \in Processes, Launch(p)
  PROVE  KInv'
<1>1. /\ me[p].at = "launch"
      /\ UNCHANGED <<pointer, record, marker, spent, told, crossed, torn, overtaken>>
  BY DEF Launch, Keeps, ghosts, At
<1>2. /\ me[p] \in Errands /\ Signed(me[p], p) /\ Course(me[p], p) /\ me[p].run \in Nat
      /\ Lasting /\ record' \in {record, Recovered, Missing}
  BY <1>1, Unmarked DEF IInv, Shapes, Errands, KInv, Reported, Courses
<1>3. PICK at \in {"mark", "point"} : Go(p, at) /\ (at = "mark" <=> me[p].token \in Tokens)
  BY DEF Launch
<1>4. PICK w \in Errands : Turn(p, w) /\ w.at = at /\ Same(w, me[p])
  <2>1. at \in Places
    BY PlacesAre DEF Chosen
  <2> QED
    BY <1>3, <2>1, GoIs DEF IInv
<1>5. Signed(w, p)'
  BY <1>1, <1>2, <1>3, <1>4 DEF Signed, Same, Targets, Moved
<1>6. \A f \in Some : Behind(f) => Behind(f)' /\ (Recorded(f) => Recorded(f)')
  BY <1>1, <1>2, <1>4, BehindKeeps, RecordedKeeps DEF Chosen, Same
<1>7. Course(w, p)'
  BY <1>1, <1>2, <1>4, <1>6, OnwardCourse DEF Chosen, Same
<1>8. Reported'
  BY <1>1, <1>2, <1>4, <1>5, ReportsKeep DEF KInv, Same
<1>9. Courses'
  BY <1>1, <1>4, <1>6, <1>7, CoursesKeep DEF KInv
<1> QED
  BY <1>8, <1>9 DEF KInv

(* A new marker is of a command that is there, and has reported nothing. *)
LEMMA MarkTold ==
  ASSUME InstallerAssumption, IInv, ~stolen, KInv, NEW p \in Processes, Mark(p)
  PROVE  KInv'
<1>1. /\ me[p].at = "mark" /\ Go(p, "point") /\ marker' = Marker(p, "prepared") /\ marker = None
      /\ UNCHANGED <<pointer, record, spent, told, crossed, torn, overtaken>>
  BY DEF Mark, Keeps, ghosts, At
<1>2. /\ me[p].at \in Busy /\ me[p] \in Errands /\ Signed(me[p], p) /\ Course(me[p], p)
      /\ me[p].run \in Nat /\ me[p].token \in Tokens /\ Noted
      /\ me[p].child \in {"upgrade", "rollback"}
  <2>1. me[p].at \in Busy /\ me[p] \in Errands /\ Signed(me[p], p) /\ Course(me[p], p) /\ Noted
    BY <1>1, PlacesAre DEF Chosen, IInv, Shapes, KInv, Reported, Courses
  <2>2. me[p].token \in Tokens /\ me[p].child \in {"install", "upgrade", "rollback"}
    BY <1>1 DEF IInv, Standing, Sent
  <2> QED
    BY <1>1, <2>1, <2>2 DEF Signed, Errands
<1>3. p \in Commands
  BY <1>2 DEF IInv, Standing, Sent, Processes
<1>4. PICK w \in Errands : Turn(p, w) /\ w.at = "point" /\ Same(w, me[p])
  <2>1. "point" \in Places
    BY PlacesAre DEF Chosen
  <2> QED
    BY <1>1, <2>1, GoIs DEF IInv
<1>5. /\ marker'.token = me[p].token /\ marker'.waits = <<p, me[p].run>>
      /\ marker'.version = me[p].target /\ marker'.previous = me[p].previous
  BY <1>1 DEF Marker, Pid
<1>6. me[p].token \in spent \ told
  BY <1>1, <1>2 DEF Signed
<1>7. Noted'
  <2>1. me'[p].run = me[p].run
    BY <1>4 DEF Turn, Same
  <2> QED
    BY <1>1, <1>2, <1>3, <1>5, <1>6, <2>1 DEF Noted
<1>8. ASSUME NEW q \in Processes PROVE Signed(me[q], q)'
  <2>1. CASE q = p
    <3>1. Signed(w, p)'
      BY <1>1, <1>2, <1>4, <1>5, <1>6 DEF Signed, Same, Targets, Moved
    <3> QED
      BY <1>4, <2>1, <3>1 DEF Turn
  <2>2. CASE q # p
    <3>1. PICK v : v = me[q]
      OBVIOUS
    <3>2. me'[q] = v /\ v.at \notin Busy
      BY <1>2, <1>4, <2>2, <3>1, Alone DEF Turn
    <3>3. Signed(v, q)'
      BY <1>5, <2>2, <3>2 DEF Signed, Busy, Applying, Targets
    <3> QED
      BY <3>2, <3>3
  <2> QED
    BY <2>1, <2>2
<1>9. \A f \in Some : Behind(f) => Behind(f)' /\ (Recorded(f) => Recorded(f)')
  <2>1. SUFFICES ASSUME NEW f \in Some, Behind(f) PROVE Behind(f)' /\ (Recorded(f) => Recorded(f)')
    OBVIOUS
  <2>2. me[p].target = pointer => me[p].previous \in {f, 0}
    BY <1>1, <2>1 DEF Behind, Chosen
  <2>3. Behind(f)'
    BY <1>1, <1>4, <1>5, <2>1, <2>2 DEF Behind, Turn, Same
  <2> QED
    BY <1>1, <2>3 DEF Recorded
<1>10. Course(w, p)'
  BY <1>1, <1>2, <1>4, <1>9, OnwardCourse DEF Chosen, Same
<1>11. Courses'
  BY <1>1, <1>4, <1>9, <1>10, CoursesKeep DEF KInv
<1> QED
  BY <1>7, <1>8, <1>11 DEF KInv, Reported

(* The pointer is moved: an update of another is crossed, and one's own is behind. *)
LEMMA PointTold ==
  ASSUME InstallerAssumption, IInv, ~stolen, KInv, NEW p \in Processes, Point(p)
  PROVE  KInv'
<1>1. /\ me[p].at = "point" /\ Go(p, "record") /\ pointer' = me[p].target
      /\ UNCHANGED <<record, marker, spent, told, torn, overtaken>>
      /\ crossed' = IF me[p].target = pointer THEN crossed
                    ELSE crossed \cup {q \in Commands \ {p} : me[q].cmd = "update"}
  BY DEF Point, Points, At
<1>2. /\ me[p].at \in Busy /\ me[p] \in Errands /\ Signed(me[p], p) /\ Course(me[p], p)
      /\ me[p].child \in {"install", "upgrade", "rollback"} /\ me[p].run \in Nat
      /\ Lasting /\ record' \in {record, Recovered, Missing} /\ crossed \subseteq crossed'
      /\ me[p].from \in Some /\ Marked(me[p])
  BY <1>1, PlacesAre, Unmarked
     DEF Chosen, IInv, Shapes, Errands, KInv, Reported, Courses, Standing, Sent
<1>3. PICK w \in Errands : Turn(p, w) /\ w.at = "record" /\ Same(w, me[p])
  <2>1. "record" \in Places
    BY PlacesAre DEF Chosen
  <2> QED
    BY <1>1, <2>1, GoIs DEF IInv
<1>4. w.target # 0 /\ w.target = me[p].target
  <2>1. me[p].target \in installed /\ installed \subseteq Versions
    BY <1>1 DEF IInv, Standing, Aimed, Shapes
  <2> QED
    BY <1>3, <2>1 DEF Same, InstallerAssumption
<1>5. marker # None =>
        \/ me[p].child = "install" /\ marker.token \in overtaken
        \/ /\ me[p].child # "install" /\ marker.version = me[p].target
           /\ marker.previous = me[p].previous
  <2>1. SUFFICES ASSUME marker # None, me[p].child # "install"
                 PROVE  marker.version = me[p].target /\ marker.previous = me[p].previous
    BY <1>1, <1>2 DEF Signed
  <2>2. me[p].token = marker.token /\ marker.token \in Tokens
    BY <1>1, <1>2, <2>1, NoneIs DEF Signed, IInv, Shapes
  <2> QED
    BY <1>1, <1>2, <2>2 DEF Marked
<1>6. Signed(w, p)'
  BY <1>1, <1>2, <1>3, <1>4, <1>5 DEF Signed, Same, Targets, Moved
<1>7. Course(w, p)'
  <2>1. SUFFICES ASSUME w.cmd = "update" PROVE Course(w, p)'
    BY DEF Course
  <2>2. w.child \in {"upgrade", "rollback"} /\ w.from # 0 /\ w.at \in Moved /\ w.at \in Chosen
    BY <1>2, <1>3, <2>1 DEF Course, Same, Moved, Chosen
  <2>3. me[p].at \in Chosen /\ me[p].at \notin Moved
    BY <1>1 DEF Chosen, Moved
  <2>4. p \notin crossed' \cup torn' => p \notin crossed \cup torn
    BY <1>1, <1>2
  <2>5. CASE w.child = "upgrade"
    <3>1. w.target # w.from
      BY <1>2, <1>3, <2>1, <2>5 DEF Course, Same
    <3>2. p \notin crossed \cup torn => w.previous \in {w.from, 0}
      BY <1>2, <1>3, <2>1, <2>3, <2>5 DEF Course, Same
    <3>3. p \notin crossed \cup torn => Behind(w.from)'
      <4>1. SUFFICES ASSUME p \notin crossed \cup torn PROVE Behind(w.from)'
        OBVIOUS
      <4>2. pointer' \notin {w.from, 0}
        BY <1>1, <1>4, <3>1
      <4>3. marker' # None => marker'.previous \in {w.from, 0}
        BY <1>1, <1>3, <1>5, <2>5, <3>2, <4>1 DEF Same
      <4>4. ASSUME NEW q \in Processes, me'[q].at \in Chosen PROVE me'[q].previous \in {w.from, 0}
        <5>1. q # p => me'[q].at \notin Busy
          BY <1>2, <1>3, Alone DEF Turn
        <5>2. q = p
          BY <4>4, <5>1, PlacesAre
        <5> QED
          BY <1>3, <3>2, <4>1, <5>2 DEF Turn
      <4> QED
        BY <4>2, <4>3, <4>4 DEF Behind
    <3> QED
      BY <1>1, <1>3, <1>4, <2>2, <2>4, <2>5, <3>1, <3>2, <3>3 DEF Course
  <2>6. CASE w.child = "rollback"
    <3>1. p \notin crossed \cup torn => w.target = w.from
      BY <1>2, <1>3, <2>1, <2>3, <2>6 DEF Course, Same
    <3> QED
      BY <1>1, <1>4, <2>2, <2>4, <2>6, <3>1 DEF Course
  <2> QED
    BY <2>2, <2>5, <2>6
<1>8. Reported'
  <2>1. marker' = None \/ marker'.token \in overtaken' \/ pointer' \in {marker'.version, 0}
    BY <1>1, <1>5
  <2> QED
    BY <1>1, <1>2, <1>3, <1>6, <2>1, ReportsKeep DEF KInv, Same
<1>9. Courses'
  BY <1>1, <1>2, <1>3, <1>7, CrossedTold DEF Chosen, Same
<1> QED
  BY <1>8, <1>9 DEF KInv

LEMMA RecordTold ==
  ASSUME InstallerAssumption, IInv, ~stolen, KInv, NEW p \in Processes, Record(p)
  PROVE  KInv'
<1>1. /\ me[p].at = "record"
      /\ record' = [current |-> me[p].target, previous |-> me[p].previous, written |-> TRUE]
      /\ UNCHANGED <<pointer, marker, spent, told, crossed, torn, overtaken>>
  BY DEF Record, Keeps, ghosts, At
<1>2. /\ me[p].at \in Busy /\ me[p] \in Errands /\ Signed(me[p], p) /\ Course(me[p], p)
      /\ me[p].child \in {"install", "upgrade", "rollback"} /\ me[p].run \in Nat
      /\ Lasting /\ me[p].from \in Some /\ pointer = me[p].target
  BY <1>1, PlacesAre, Unmarked
     DEF Chosen, IInv, Shapes, Errands, KInv, Reported, Courses, Standing, Sent, Signed
<1>3. PICK at \in {"spawn", "clear", "unlock"} :
        /\ Go(p, at)
        /\ at = "spawn" <=> me[p].token \in Tokens
  BY DEF Record
<1>4. PICK w \in Errands : Turn(p, w) /\ w.at = at /\ Same(w, me[p])
  <2>1. at \in Places
    BY PlacesAre
  <2> QED
    BY <1>3, <2>1, GoIs DEF IInv
<1>5. Signed(w, p)'
  BY <1>1, <1>2, <1>3, <1>4 DEF Signed, Same, Targets, Moved
<1>6. w.at \in Moved /\ w.at \notin Chosen /\ me[p].at \in Moved /\ me[p].at \in Chosen
  BY <1>1, <1>3, <1>4 DEF Moved, Chosen
<1>7. ASSUME NEW f \in Some, Behind(f) PROVE Behind(f)' /\ Recorded(f)'
  <2>1. me[p].previous \in {f, 0}
    BY <1>2, <1>6, <1>7 DEF Behind
  <2>2. Behind(f)'
    BY <1>1, <1>2, <1>4, <1>6, <1>7, BehindKeeps
  <2> QED
    BY <1>1, <1>2, <2>1, <2>2 DEF Recorded
<1>8. Course(w, p)'
  BY <1>1, <1>2, <1>4, <1>6, <1>7 DEF Course, Same
<1>9. Reported'
  BY <1>1, <1>2, <1>4, <1>5, ReportsKeep DEF KInv, Same
<1>10. Courses'
  BY <1>1, <1>2, <1>4, <1>7, <1>8, CoursesKeep DEF KInv
<1> QED
  BY <1>9, <1>10 DEF KInv

(* The finalizer is a process of the name of its activation, which no command has. *)
LEMMA SpawnTold ==
  ASSUME InstallerAssumption, IInv, ~stolen, KInv, NEW p \in Processes, Spawn(p)
  PROVE  KInv'
<1>1. me[p].at = "spawn" /\ UNCHANGED <<pointer, record, spent, told, crossed, torn, overtaken>>
  BY DEF Spawn, Keeps, ghosts, At
<1>2. /\ me[p].at \in Busy /\ me[p] \in Errands /\ Signed(me[p], p) /\ Course(me[p], p)
      /\ me[p].token \in Tokens /\ p \notin Tokens /\ me[p].run \in Nat /\ me[p].from \in Some
  BY <1>1, PlacesAre DEF IInv, Shapes, Errands, KInv, Reported, Courses, Standing, Sent
<1>3. marker # None
  BY <1>1, <1>2 DEF IInv, Standing, Marked
<1>4. Lasting
  <2>1. PICK phase \in {"failed", "waiting"} : marker' = [marker EXCEPT !.phase = phase]
    BY DEF Spawn
  <2> QED
    BY <1>3, <2>1, PhaseLasts
<1>5. CASE Go(p, "unlock")
  <2>1. "unlock" \in Places
    BY PlacesAre
  <2> QED
    BY <1>1, <1>4, <1>5, <2>1, CalmGo DEF Chosen, Moved, Targets
<1>6. CASE ~Go(p, "unlock")
  <2>1. PICK t \in Tokens : t = me[p].token
    BY <1>2
  <2> DEFINE child == [Idle EXCEPT !.cmd = "finalize", !.child = "finalize", !.at = "await",
                                   !.token = t, !.run = 1]
  <2>2. me' = [me EXCEPT ![p].at = "unlock", ![t] = child]
    BY <1>6, <2>1 DEF Spawn
  <2>3. t \in Processes /\ t # p /\ t \notin Commands
    BY <1>2 DEF Processes, InstallerAssumption
  <2>4. /\ child \in Errands /\ child.at = "await" /\ child.cmd = "finalize"
        /\ child.child = "finalize" /\ child.run = 1
    BY PlacesAre DEF Idle, Errands, Some
  <2>5. PICK w \in Errands : w = [me[p] EXCEPT !.at = "unlock"]
    <3>1. "unlock" \in Places
      BY PlacesAre
    <3> QED
      BY <1>2, <3>1 DEF Errands
  <2>6. w.at = "unlock" /\ Same(w, me[p])
    BY <1>2, <2>5 DEF Errands, Same
  <2> HIDE DEF child
  <2>7. /\ me'[p] = w /\ me'[t] = child
        /\ \A q \in Processes \ {p, t} : me'[q] = me[q] /\ me[q].at \notin Busy
    <3>1. me' = [[me EXCEPT ![p] = w] EXCEPT ![t] = child] /\ me \in [Processes -> Errands]
      BY <2>2, <2>3, <2>5 DEF IInv, Shapes
    <3>2. \A q \in Processes \ {p, t} : me[q].at \notin Busy
      BY <1>2, Alone
    <3> QED
      BY <2>3, <3>1, <3>2
  <2>8. marker'.waits = marker.waits /\ marker'.token = marker.token /\ marker'.version = marker.version
        /\ marker.waits[1] \in Commands
    <3>1. marker' # None
      <4>1. marker' = [marker EXCEPT !.phase = "waiting"]
        BY <1>6 DEF Spawn
      <4> QED
        BY <1>3, <4>1, NoneIs, PhaseIs DEF IInv, Shapes
    <3> QED
      BY <1>3, <1>4, <3>1 DEF Lasting, KInv, Reported, Noted
  <2>9. Noted'
    <3>1. me'[marker.waits[1]].run = me[marker.waits[1]].run
      BY <2>3, <2>6, <2>7, <2>8 DEF Processes, Same
    <3> QED
      BY <1>1, <1>3, <2>8, <3>1 DEF KInv, Reported, Noted
  <2>10. Signed(w, p)'
    BY <1>1, <1>2, <1>3, <2>6, <2>8 DEF Signed, Same, Targets, Moved
  <2>11. Signed(child, t)'
    BY <2>3, <2>4, <2>8 DEF Signed, Targets
  <2>12. ASSUME NEW q \in Processes PROVE Signed(me[q], q)'
    <3>1. CASE q \notin {p, t}
      <4>1. PICK v : v = me[q]
        OBVIOUS
      <4>2. me'[q] = v /\ Signed(v, q)
        BY <2>7, <3>1, <4>1 DEF KInv, Reported
      <4>3. Signed(v, q)'
        BY <1>1, <1>3, <2>8, <4>2 DEF Signed
      <4> QED
        BY <4>2, <4>3
    <3> QED
      BY <2>7, <2>10, <2>11, <3>1
  <2>13. ASSUME NEW f, Behind(f) PROVE Behind(f)'
    <3>1. \A q \in Processes : me'[q].at \in Chosen => q \notin {p, t}
      BY <2>4, <2>6, <2>7 DEF Chosen
    <3> QED
      BY <1>1, <1>4, <2>7, <2>13, <3>1 DEF Behind, Lasting
  <2>14. ASSUME NEW f, Recorded(f) PROVE Recorded(f)'
    BY <1>1, <2>14 DEF Recorded
  <2>15. ASSUME NEW q \in Processes PROVE Course(me[q], q)'
    <3>1. CASE q = p
      <4>1. Course(w, p)'
        BY <1>1, <1>2, <2>6, <2>13, <2>14 DEF Course, Same, Moved, Chosen
      <4> QED
        BY <2>7, <3>1, <4>1
    <3>2. CASE q = t
      <4>1. Course(child, t)'
        BY <2>4 DEF Course
      <4> QED
        BY <2>7, <3>2, <4>1
    <3>3. CASE q \notin {p, t}
      <4>1. PICK v : v = me[q]
        OBVIOUS
      <4>2. me'[q] = v /\ Course(v, q)
        BY <2>7, <3>3, <4>1 DEF KInv, Courses
      <4>3. Course(v, q)'
        BY <1>1, <2>13, <2>14, <4>2 DEF Course
      <4> QED
        BY <4>2, <4>3
    <3> QED
      BY <3>1, <3>2, <3>3
  <2> QED
    BY <2>9, <2>12, <2>15 DEF KInv, Reported, Courses
<1> QED
  BY <1>5, <1>6

---------------------------------------------------------------------------
(* The commands: what they report *)

(* A step that leaves the files alone, of one that takes up another errand. *)
LEMMA TurnTold ==
  ASSUME InstallerAssumption, IInv, ~stolen, KInv, NEW p \in Processes, NEW w \in Errands, Turn(p, w),
         p \in Tokens \/ me[p].run <= w.run, UNCHANGED <<pointer, record, told, overtaken, spent>>, Lasting,
         \A q \in Processes \ {p} : (q \in crossed => q \in crossed') /\ (q \in torn => q \in torn'),
         w.at \notin Chosen, Signed(w, p)', Course(w, p)'
  PROVE  KInv'
<1>1. Reported'
  BY ReportsKeep DEF KInv
<1>2. \A f \in Some : Behind(f) => Behind(f)' /\ (Recorded(f) => Recorded(f)')
  BY BehindKeeps, RecordedKeeps
<1>3. Courses'
  BY <1>2, CoursesKeep DEF KInv
<1> QED
  BY <1>1, <1>3 DEF KInv

LEMMA RunsTold ==
  ASSUME InstallerAssumption, IInv, ~stolen, KInv, NEW p \in Commands,
         NEW cmd \in {"update", "rollback", "install", "uninstall", "start"},
         NEW child \in {"upgrade", "rollback", "install", "uninstall", "start"},
         NEW target \in Some, NEW token \in Tokens \cup {"none", "defer"},
         cmd = "update" => child = "upgrade" /\ pointer # 0 /\ target # pointer,
         Runs(p, cmd, child, target, token)
  PROVE  KInv'
<1>1. p \in Processes /\ me[p].run \in Nat /\ pointer \in Some
  BY DEF Processes, IInv, Shapes, Errands
<1>2. PICK w \in Errands :
        /\ w = [cmd |-> cmd, child |-> child, at |-> "lock", target |-> target,
                from |-> pointer, previous |-> 0, token |-> token, run |-> me[p].run + 1]
        /\ w.at = "lock" /\ w.cmd = cmd /\ w.child = child /\ w.target = target
        /\ w.run = me[p].run + 1 /\ w.from = pointer
  <2>1. [cmd |-> cmd, child |-> child, at |-> "lock", target |-> target,
         from |-> pointer, previous |-> 0, token |-> token, run |-> me[p].run + 1] \in Errands
    BY <1>1, PlacesAre DEF Errands, Some
  <2> QED
    BY <2>1
<1>3. /\ me' = [me EXCEPT ![p] = w]
      /\ UNCHANGED <<pointer, record, marker, told, overtaken, spent>>
      /\ crossed' = crossed \ {p} /\ torn' = torn \ {p}
  BY <1>2 DEF Runs, files
<1>4. Turn(p, w) /\ Lasting
  BY <1>1, <1>2, <1>3, TurnIs, Unmarked DEF IInv
<1>5. w.at \notin Chosen \cup Moved \cup Targets
  BY <1>2 DEF Chosen, Moved, Targets
<1>6. Signed(w, p)'
  <2>1. ~(marker # None /\ marker.waits = <<p, me[p].run + 1>>)
    BY <1>1 DEF KInv, Reported, Noted
  <2> QED
    BY <1>2, <1>3, <1>5, <2>1 DEF Signed
<1>7. Course(w, p)'
  BY <1>2, <1>3, <1>5 DEF Course
<1> QED
  BY <1>1, <1>2, <1>3, <1>4, <1>5, <1>6, <1>7, TurnTold

LEMMA CommandTold ==
  ASSUME InstallerAssumption, IInv, ~stolen, KInv, NEW p \in Commands, CommandNext(p)
  PROVE  KInv'
<1>0. /\ Versions \subseteq Some \ {0} /\ 0 \in Some /\ Versions \subseteq Nat
      /\ \A version : Deferral(version) \in Tokens \cup {"none", "defer"}
  BY DEF Some, InstallerAssumption, Deferral
<1>1. CASE UpdateApplication(p)
  <2>1. PICK version \in Versions :
          pointer \in installed /\ version > pointer /\ Runs(p, "update", "upgrade", version, "none")
    BY <1>1 DEF UpdateApplication
  <2>2. pointer \in Nat /\ pointer # 0 /\ version # pointer
    BY <1>0, <2>1 DEF IInv, Shapes, InstallerAssumption
  <2> QED
    BY <1>0, <2>1, <2>2, RunsTold
<1>2. CASE RollbackApplication(p)
  BY <1>0, <1>2, RunsTold DEF RollbackApplication
<1>3. CASE Install(p)
  BY <1>0, <1>3, RunsTold DEF Install
<1>4. CASE UninstallApplication(p)
  BY <1>0, <1>4, RunsTold DEF UninstallApplication
<1>5. CASE StartProgram(p)
  <2>1. launcher \in Tokens
    BY <1>5 DEF StartProgram, IInv, Shapes
  <2> QED
    BY <1>0, <1>5, <2>1, RunsTold DEF StartProgram
<1>6. CASE RollBack(p)
  <2>1. /\ p \in Processes /\ me[p] \in Errands /\ me[p].at = "returned" /\ me[p].run \in Nat
        /\ Signed(me[p], p) /\ Course(me[p], p)
    BY <1>6 DEF RollBack, At, Processes, IInv, Shapes, Errands, KInv, Reported, Courses
  <2>2. /\ UNCHANGED <<pointer, record, marker, told, overtaken, crossed, torn, spent>> /\ Lasting
    <3>1. marker' = marker
      BY <1>6 DEF RollBack, files
    <3> QED
      BY <1>6, <3>1, Unmarked DEF RollBack, files, ghosts
  <2>3. CASE /\ me[p].cmd = "update" /\ me[p].child = "upgrade"
             /\ me' = [me EXCEPT ![p].child = "rollback", ![p].at = "lock", ![p].token = Deferral(2)]
    <3>1. PICK w \in Errands : w = [me[p] EXCEPT !.child = "rollback", !.at = "lock", !.token = Deferral(2)]
      BY <1>0, <2>1, PlacesAre DEF Errands
    <3>2. /\ w.at = "lock" /\ w.child = "rollback" /\ w.cmd = "update" /\ w.from = me[p].from
          /\ w.run = me[p].run /\ w.target = me[p].target
      BY <2>1, <2>3, <3>1 DEF Errands
    <3>3. me' = [me EXCEPT ![p] = w]
      BY <2>3, <3>1
    <3>4. Turn(p, w)
      BY <2>1, <3>3, TurnIs DEF IInv
    <3>5. w.at \notin Chosen \cup Moved \cup Targets /\ me[p].at \in Moved \ {"record"}
      BY <2>1, <3>2 DEF Chosen, Moved, Targets
    <3>6. Signed(w, p)'
      BY <2>1, <2>2, <3>2, <3>5 DEF Signed
    <3>7. Course(w, p)'
      <4>1. \A f \in Some : Behind(f) => Behind(f)' /\ (Recorded(f) => Recorded(f)')
        BY <2>1, <2>2, <3>4, <3>5, BehindKeeps, RecordedKeeps
      <4>2. me[p].from \in Some
        BY <2>1 DEF Errands
      <4> QED
        BY <2>1, <2>2, <2>3, <3>2, <3>5, <4>1, <4>2 DEF Course
    <3> QED
      BY <2>1, <2>2, <3>2, <3>4, <3>5, <3>6, <3>7, TurnTold
  <2>4. CASE me' = [me EXCEPT ![p].cmd = "undo", ![p].at = "lock",
                      ![p].token = IF me[p].token \in Tokens THEN "defer" ELSE "none"]
    <3>1. PICK w \in Errands : w = [me[p] EXCEPT !.cmd = "undo", !.at = "lock",
                                      !.token = IF me[p].token \in Tokens THEN "defer" ELSE "none"]
      BY <2>1, PlacesAre DEF Errands
    <3>2. w.at = "lock" /\ w.child = me[p].child /\ w.cmd = "undo" /\ w.run = me[p].run
      BY <2>1, <3>1 DEF Errands
    <3>3. me' = [me EXCEPT ![p] = w]
      BY <2>4, <3>1
    <3>4. Turn(p, w)
      BY <2>1, <3>3, TurnIs DEF IInv
    <3>5. w.at \notin Chosen \cup Moved \cup Targets
      BY <3>2 DEF Chosen, Moved, Targets
    <3>6. Signed(w, p)'
      BY <2>1, <2>2, <3>2, <3>5 DEF Signed
    <3>7. Course(w, p)'
      BY <3>2 DEF Course
    <3> QED
      BY <2>1, <2>2, <3>2, <3>4, <3>5, <3>6, <3>7, TurnTold
  <2> QED
    BY <1>6, <2>3, <2>4 DEF RollBack
<1> QED
  BY <1>1, <1>2, <1>3, <1>4, <1>5, <1>6 DEF CommandNext

(* What is reported is on the pointer. *)
LEMMA ReportTold ==
  ASSUME InstallerAssumption, IInv, ~stolen, KInv, NEW p \in Processes, Report(p)
  PROVE  KInv'
<1>1. /\ me' = [me EXCEPT ![p] = [Idle EXCEPT !.run = me[p].run]]
      /\ me[p].at \in {"failed", "returned"}
      /\ UNCHANGED <<pointer, record, marker, overtaken, crossed, torn, spent>>
      /\ told' = IF me[p].at = "returned" /\ marker # None /\ p \in Commands /\ marker.waits = Pid(p)
                 THEN told \cup {marker.token} ELSE told
  BY DEF Report, files, At
<1>2. PICK w \in Errands : /\ w = [Idle EXCEPT !.run = me[p].run]
                           /\ w.at = "idle" /\ w.cmd = "none" /\ w.child = "none" /\ w.run = me[p].run
  <2>1. PICK n \in Nat : n = me[p].run
    BY DEF IInv, Shapes, Errands
  <2>2. [Idle EXCEPT !.run = n] \in Errands
    BY PlacesAre DEF Idle, Errands, Places, Some
  <2> QED
    BY <2>1, <2>2 DEF Idle
<1>3. Turn(p, w)
  BY <1>1, <1>2, TurnIs DEF IInv
<1>4. w.at \notin Chosen \cup Moved \cup Targets
  BY <1>2 DEF Chosen, Moved, Targets
<1>5. ASSUME told' # told
      PROVE  /\ marker # None /\ marker.waits = <<p, me[p].run>> /\ told' = told \cup {marker.token}
             /\ marker.token \notin overtaken => pointer \in {marker.version, 0}
  <2>1. marker # None /\ marker.waits = <<p, me[p].run>> /\ me[p].at = "returned"
        /\ told' = told \cup {marker.token}
    BY <1>1, <1>5 DEF Pid
  <2> QED
    BY <2>1 DEF KInv, Reported, Signed, Moved
<1>6. Noted'
  <2>1. \A q \in Processes : me'[q].run = me[q].run
    BY <1>2, <1>3 DEF Turn
  <2>2. Noted /\ Commands \subseteq Processes
    BY DEF KInv, Reported, Processes
  <2>3. told' \subseteq spent'
    BY <1>1, <1>5, <2>2 DEF Noted
  <2>4. marker # None /\ marker.token \in told' \ overtaken => pointer \in {marker.version, 0}
    BY <1>5, <2>2 DEF Noted
  <2> QED
    BY <1>1, <2>1, <2>2, <2>3, <2>4 DEF Noted
<1>7. ASSUME NEW q \in Processes PROVE Signed(me[q], q)'
  <2>1. CASE q = p
    <3>1. Signed(w, p)'
      BY <1>2, <1>4 DEF Signed
    <3> QED
      BY <1>3, <2>1, <3>1 DEF Turn
  <2>2. CASE q # p
    <3>1. PICK v : v = me[q]
      OBVIOUS
    <3>2. me'[q] = v /\ Signed(v, q)
      BY <1>3, <2>2, <3>1 DEF Turn, KInv, Reported
    <3>3. v.at \in {"launch", "mark", "point", "record", "spawn"} /\ v.token \in Tokens => v.token \notin told'
      <4>1. SUFFICES ASSUME v.at \in {"launch", "mark", "point", "record", "spawn"}, v.token \in Tokens,
                            told' # told
                     PROVE  v.token \notin told'
        BY <3>2 DEF Signed
      <4>2. v.token \notin told /\ v.child # "install"
        BY <3>2, <4>1 DEF Signed
      <4>3. marker # None /\ marker.waits = <<p, me[p].run>> /\ told' = told \cup {marker.token}
        BY <1>5, <4>1
      <4>4. FALSE
        BY <2>2, <3>2, <4>1, <4>2, <4>3 DEF Signed
      <4> QED
        BY <4>4
    <3>4. Signed(v, q)'
      BY <1>1, <3>2, <3>3 DEF Signed
    <3> QED
      BY <3>2, <3>4
  <2> QED
    BY <2>1, <2>2
<1>8. Courses'
  <2>1. Lasting
    BY <1>1, Unmarked
  <2>2. \A f \in Some : Behind(f) => Behind(f)' /\ (Recorded(f) => Recorded(f)')
    BY <1>1, <1>3, <1>4, <2>1, BehindKeeps, RecordedKeeps
  <2>3. Course(w, p)'
    BY <1>2 DEF Course
  <2> QED
    BY <1>1, <1>3, <2>2, <2>3, CoursesKeep DEF KInv
<1> QED
  BY <1>6, <1>7, <1>8 DEF KInv, Reported

LEMMA AwaitTold ==
  ASSUME InstallerAssumption, IInv, ~stolen, KInv, NEW t \in Tokens, Await(t)
  PROVE  KInv'
<1>1. /\ t \in Processes /\ me[t].at = "await"
      /\ UNCHANGED <<pointer, record, spent, told, overtaken, crossed, torn>>
  BY DEF Await, Processes, At, ghosts
<1>2. Lasting
  <2>1. CASE marker' = marker
    BY <2>1, Unmarked
  <2>2. CASE marker' # marker
    <3>1. marker' = [marker EXCEPT !.phase = "failed"] /\ marker.token = t
      BY <2>2 DEF Await
    <3>2. marker # None
      BY <3>1, NoneIs DEF IInv, Shapes
    <3> QED
      BY <3>1, <3>2, PhaseLasts
  <2> QED
    BY <2>1, <2>2
<1>3. CASE Go(t, "lock")
  <2>1. "lock" \in Places
    BY PlacesAre
  <2> QED
    BY <1>1, <1>2, <1>3, <2>1, CalmGo DEF Chosen, Moved, Targets
<1>4. CASE me' = [me EXCEPT ![t] = Idle]
  <2>1. /\ Idle \in Errands /\ Idle.at = "idle" /\ Idle.cmd = "none"
        /\ Idle.at \notin Chosen \cup Moved \cup Targets
    BY PlacesAre DEF Idle, Errands, Places, Some, Chosen, Moved, Targets
  <2>2. Turn(t, Idle)
    BY <1>1, <1>4, <2>1, TurnIs DEF IInv
  <2>3. Signed(Idle, t)' /\ Course(Idle, t)'
    BY <2>1 DEF Signed, Course
  <2> QED
    BY <1>1, <1>2, <2>1, <2>2, <2>3, TurnTold
<1> QED
  BY <1>3, <1>4 DEF Await

LEMMA DieTold ==
  ASSUME InstallerAssumption, IInv, KInv, Die
  PROVE  KInv'
<1>1. PICK dead : me' = [p \in Processes |-> IF p \in dead THEN [Idle EXCEPT !.run = me[p].run] ELSE me[p]]
  BY DEF Die
<1>2. UNCHANGED <<pointer, record, marker, told, overtaken, crossed, torn, spent>>
  BY DEF Die, files, ghosts
<1>3. ASSUME NEW p \in Processes
      PROVE  /\ me'[p].run = me[p].run
             /\ me'[p] = me[p] \/ (me'[p].at = "idle" /\ me'[p].cmd = "none")
  BY <1>1 DEF Idle
<1>4. Noted'
  BY <1>2, <1>3 DEF KInv, Reported, Noted, Processes
<1>5. \A f : Behind(f) => Behind(f)'
  BY <1>2, <1>3 DEF Behind, Chosen
<1>6. \A f : Recorded(f) => Recorded(f)'
  BY <1>2 DEF Recorded
<1>7. ASSUME NEW p \in Processes PROVE Signed(me[p], p)' /\ Course(me[p], p)'
  <2>1. PICK v : v = me'[p]
    OBVIOUS
  <2>2. CASE v = me[p]
    <3>1. Signed(v, p) /\ Course(v, p)
      BY <2>2 DEF KInv, Reported, Courses
    <3>2. Signed(v, p)'
      BY <1>2, <3>1 DEF Signed
    <3>3. Course(v, p)'
      BY <1>2, <1>5, <1>6, <3>1 DEF Course
    <3> QED
      BY <2>1, <3>2, <3>3
  <2>3. CASE v.at = "idle" /\ v.cmd = "none"
    <3>1. Signed(v, p)' /\ Course(v, p)'
      BY <2>3 DEF Signed, Course, Targets
    <3> QED
      BY <2>1, <3>1
  <2> QED
    BY <1>3, <2>1, <2>2, <2>3
<1> QED
  BY <1>4, <1>7 DEF KInv, Reported, Courses

---------------------------------------------------------------------------
LEMMA ToldInit == ASSUME InstallerAssumption, Init PROVE KInv
<1>1. \A p \in Processes : me[p].at = "idle" /\ me[p].cmd = "none"
  BY DEF Init, Idle
<1>2. marker = None /\ told = {}
  BY DEF Init
<1>3. ASSUME NEW p \in Processes PROVE Signed(me[p], p) /\ Course(me[p], p)
  BY <1>1, <1>2 DEF Signed, Course, Targets
<1>4. Noted
  BY <1>2 DEF Noted
<1> QED
  BY <1>3, <1>4 DEF KInv, Reported, Courses

LEMMA ToldStep ==
  ASSUME InstallerAssumption, IInv, KInv, [Next]_vars
  PROVE  KInv'
<1>1. CASE UNCHANGED vars
  <2>1. UNCHANGED <<pointer, record, marker, me, told, overtaken, crossed, torn, spent>>
    BY <1>1 DEF vars, files, ghosts
  <2>2. Noted'
    BY <2>1 DEF KInv, Reported, Noted
  <2>3. \A f : (Behind(f) => Behind(f)') /\ (Recorded(f) => Recorded(f)')
    BY <2>1 DEF Behind, Recorded
  <2>4. ASSUME NEW p \in Processes PROVE Signed(me[p], p)' /\ Course(me[p], p)'
    <3>1. PICK v : v = me[p]
      OBVIOUS
    <3>2. me'[p] = v /\ Signed(v, p) /\ Course(v, p)
      BY <2>1, <3>1 DEF KInv, Reported, Courses
    <3>3. Signed(v, p)'
      BY <2>1, <3>2 DEF Signed
    <3>4. Course(v, p)'
      BY <2>1, <2>3, <3>2 DEF Course
    <3> QED
      BY <3>2, <3>3, <3>4
  <2> QED
    BY <2>2, <2>4 DEF KInv, Reported, Courses
<1>2. CASE Next
  <2>1. ~stolen
    BY <1>2 DEF Next
  <2>2. ASSUME NEW p \in Commands, CommandNext(p) PROVE KInv'
    BY <2>1, <2>2, CommandTold
  <2>3. ASSUME NEW p \in Processes, ProcessNext(p) PROVE KInv'
    BY <2>1, <2>3, LockTold, ReconcileTold, ApplyPointerTold, ApplyRecordTold, StageTold, ReadTold,
       RetireTold, LaunchTold, MarkTold, PointTold, RecordTold, SpawnTold, UninstallTold, ReportTold,
       FailureTold
       DEF ProcessNext
  <2>4. ASSUME NEW t \in Tokens, Await(t) PROVE KInv'
    BY <2>1, <2>4, AwaitTold
  <2>5. CASE Die
    BY <2>5, DieTold
  <2> QED
    BY <1>2, <2>2, <2>3, <2>4, <2>5 DEF Next
<1> QED
  BY <1>1, <1>2

LEMMA ToldHolds == ASSUME InstallerAssumption PROVE Spec => [](IInv /\ KInv)
<1>1. Init => IInv /\ KInv
  BY InitInv, ToldInit
<1>2. IInv /\ KInv /\ [Next]_vars => IInv' /\ KInv'
  BY InstallerStep, ToldStep
<1> QED
  BY <1>1, <1>2, PTL DEF Spec

(* An update tells of the version that is on the pointer. *)
LEMMA UpdatesTell == ASSUME KInv PROVE UpdateTold
<1>1. SUFFICES ASSUME NEW p \in Commands, me[p].cmd = "update", me[p].at \in {"failed", "returned"},
                      p \notin crossed \cup torn
               PROVE  CASE me[p].child = "upgrade" /\ At(p, "returned") -> pointer = me[p].target
                        [] me[p].child = "rollback" /\ At(p, "failed") -> TRUE
                        [] OTHER -> pointer = me[p].from
  BY DEF UpdateTold
<1>2. Course(me[p], p)
  BY DEF KInv, Courses, Processes
<1>3. me[p].child = "upgrade" /\ me[p].at = "returned" => pointer = me[p].target
  BY <1>1, <1>2 DEF Course, Moved
<1>4. me[p].child = "upgrade" /\ me[p].at = "failed" => pointer = me[p].from
  BY <1>1, <1>2 DEF Course, Moved
<1>5. me[p].child = "rollback" /\ me[p].at = "returned" => pointer = me[p].from
  BY <1>1, <1>2 DEF Course, Moved
<1>6. me[p].child \in {"upgrade", "rollback"}
  BY <1>1, <1>2 DEF Course
<1> QED
  BY <1>1, <1>3, <1>4, <1>5, <1>6 DEF At

(* An activation that is completed after its command has reported moves nothing. *)
LEMMA LateKeepsQuiet ==
  ASSUME InstallerAssumption, IInv, KInv, [Next]_vars
  PROVE  LateQuiet
<1>1. SUFFICES ASSUME marker.token \in told \ overtaken, pointer' # pointer,
                      NEW p \in Processes, me[p].at = "applyPoint", me'[p] # me[p]
               PROVE  FALSE
  BY DEF LateQuiet, At
<1>2. Next /\ ~stolen /\ me[p].at \in Busy
  BY <1>1, PlacesAre DEF Next, Applying, vars, files
<1>3. /\ marker # None /\ pointer # 0 /\ pointer \in {marker.version, 0}
  BY <1>1 DEF IInv, Standing, Applied, Applying, KInv, Reported, Noted, Signed
<1>4. ASSUME NEW q \in Processes, ApplyPointer(q) \/ Point(q) \/ Uninstall(q) PROVE FALSE
  <2>1. me[q].at \in Busy
    BY <1>4, PlacesAre DEF ApplyPointer, Point, Uninstall, At, Applying, Chosen, Targets
  <2>2. q = p
    BY <1>2, <2>1, Alone
  <2>3. ApplyPointer(p)
    BY <1>1, <1>4, <2>2 DEF Point, Uninstall, At
  <2>4. pointer' = marker.version
    BY <2>3 DEF ApplyPointer, Points
  <2> QED
    BY <1>1, <1>3, <2>4
<1>5. ASSUME NEW q \in Processes, ProcessNext(q), ~(ApplyPointer(q) \/ Point(q) \/ Uninstall(q)) PROVE FALSE
  BY <1>1, <1>5 DEF ProcessNext, Acquire, SeeStale, TakeStale, Refused, Release, NothingPending, BeginApply,
     ApplyLaunchers, ApplyRecord, ApplyPlain, ApplyRetire, Stage, Place, Read, Retire, Launch, Mark, Record,
     Clear, Spawn, Report, WriteFails, Keeps, files
<1>6. ASSUME NEW q \in Commands, CommandNext(q) PROVE FALSE
  BY <1>1, <1>6 DEF CommandNext, UpdateApplication, RollbackApplication, Install, UninstallApplication,
     StartProgram, RollBack, Runs, files
<1>7. ASSUME NEW t \in Tokens, Await(t) PROVE FALSE
  BY <1>1, <1>7 DEF Await
<1>8. CASE Die
  BY <1>1, <1>8 DEF Die, files
<1> QED
  BY <1>2, <1>4, <1>5, <1>6, <1>7, <1>8 DEF Next

(* What an update or an activation has reported stays so, whatever is cut short, *)
(* fails or goes on beside it (updateApplication, applyLauncherActivation).       *)
THEOREM InstallerTells == ASSUME InstallerAssumption PROVE Spec => [][InstallTold]_vars
<1>1. IInv /\ KInv /\ [Next]_vars => [InstallTold]_vars
  BY UpdatesTell, LateKeepsQuiet DEF InstallTold
<1> QED
  BY <1>1, ToldHolds, PTL DEF Spec
=============================================================================
