------------------------------ MODULE Installer ------------------------------
(***************************************************************************)
(* The installation of the program and the commands that change it:         *)
(* scripts/install.ts and apps/cli/src/lifecycle.ts.  Immutable versions,    *)
(* the pointer to the current one, the install state, the launchers and, on  *)
(* Windows, an activation that a detached finalizer or the next start         *)
(* completes once the command that made it has exited.  Commands share a      *)
(* lock; a process may die before each write, and a write may fail.           *)
(***************************************************************************)
EXTENDS Integers, FiniteSets

CONSTANTS
  Commands,     \* the processes that run commands, and starts of the program
  Tokens,       \* activations; the finalizer of one is a process of its name
  Versions,     \* installable versions, by age; 1 has the legacy layout
  Windows,      \* activations are deferred
  First,        \* the version that is installed at the beginning, or 0
  MaxRuns,      \* bound: commands that one process runs, one after the other
  MaxFaults,    \* bound: writes that fail, and deaths
  MaxAttempts   \* LAUNCHER_ACTIVATION_MAXIMUM_ATTEMPTS

VARIABLES
  installed,    \* version directories
  staging,      \* a copy is left in .staging-*
  pointer,      \* the file current; 0: none
  record,       \* install-state.json
  launcher,     \* the stable launchers: "none", "plain", or those of a token
  gens,         \* generations of launchers in bin/
  marker,       \* .launcher-activation.json
  lock,         \* the pid in .install.lock
  me,           \* what a process does
  spent,        \* tokens in use or used
  faults,
  before,       \* ghost: what pointer was before it last changed
  razed,        \* ghost: an uninstall has begun, and not ended
  gone,         \* ghost: an uninstall has ended, and nothing was installed since
  stolen,       \* ghost: the lock was taken away from a living process
  told,         \* ghost: activations whose command has reported success
  crossed,      \* ghost: updates during which the pointer moved for another command
  torn,         \* ghost: updates whose upgrade failed after it moved the pointer
  overtaken     \* ghost: activations during which a plain install went on

files == <<installed, staging, pointer, record, launcher, gens, marker>>
ghosts == <<before, razed, gone, stolen, told, crossed, torn, overtaken>>
vars == <<files, lock, me, spent, faults, ghosts>>

Processes == Commands \cup Tokens
None == [token |-> "none"]
Missing == [current |-> 0, previous |-> 0, written |-> FALSE]
Idle == [cmd |-> "none", child |-> "none", at |-> "idle", target |-> 0, from |-> 0,
         previous |-> 0, token |-> "none", run |-> 0]

Pid(p) == <<p, me[p].run>>
Alive(pid) == me[pid[1]].run = pid[2] /\ me[pid[1]].cmd # "none"
Unlocked == <<"nobody", 0>>

(* A copy may be left from an earlier command that was cut short. *)
Init ==
  /\ installed = {First} \ {0} /\ staging \in BOOLEAN /\ pointer = First
  /\ record = [current |-> First, previous |-> 0, written |-> First # 0]
  /\ launcher = (IF First = 0 THEN "none" ELSE "plain") /\ gens = {} /\ marker = None /\ lock = Unlocked
  /\ me = [p \in Processes |-> Idle] /\ spent = {} /\ faults = 0
  /\ before = 0 /\ razed = FALSE /\ gone = FALSE /\ stolen = FALSE
  /\ told = {} /\ crossed = {} /\ torn = {} /\ overtaken = {}

Go(p, at) == me' = [me EXCEPT ![p].at = at]
At(p, at) == me[p].at = at
Keeps(written) == UNCHANGED <<spent, faults, ghosts, lock>> /\ written

(* readState: a pointer that the record does not tell of is an activation cut short. *)
Recovered ==
  IF ~record.written \/ pointer = 0 \/ pointer = record.current THEN record
  ELSE [current |-> pointer, written |-> TRUE,
        previous |-> IF record.current # 0 THEN record.current ELSE record.previous]

(* It fails when the version that it names is not there. *)
Unread == pointer # 0 /\ record.written /\ pointer \notin installed

---------------------------------------------------------------------------
(* The lock: a stale one is renamed away, whoever holds it by then. *)
Acquire(p) ==
  /\ me[p].at \in {"lock", "again"} /\ lock = Unlocked
  /\ lock' = Pid(p)
  /\ Go(p, IF me[p].child = "uninstall" THEN "versions" ELSE "reconcile")
  /\ UNCHANGED <<files, spent, faults, ghosts>>

SeeStale(p) ==
  /\ At(p, "lock") /\ lock # Unlocked /\ ~Alive(lock) /\ me[p].child # "uninstall"
  /\ Go(p, "stale") /\ UNCHANGED <<files, lock, spent, faults, ghosts>>

TakeStale(p) ==
  /\ At(p, "stale") /\ Go(p, "again") /\ lock' = Unlocked
  /\ stolen' = (stolen \/ (lock # Unlocked /\ Alive(lock)))
  /\ UNCHANGED <<files, spent, faults, before, razed, gone, told, crossed, torn, overtaken>>

(* What the caller of an installer command learns. *)
Fails(p) == me' = [me EXCEPT ![p].at = "failed"]

Refused(p) ==
  /\ \/ At(p, "lock") /\ lock # Unlocked /\ (Alive(lock) \/ me[p].child = "uninstall")
     \/ At(p, "again") /\ lock # Unlocked
  /\ Fails(p) /\ UNCHANGED <<files, lock, spent, faults, ghosts>>

(* The release tells when another has the lock. *)
Release(p) ==
  /\ me[p].at \in {"unlock", "abandon"}
  /\ lock' = IF lock = Pid(p) THEN Unlocked ELSE lock
  /\ Go(p, IF At(p, "unlock") /\ lock \in {Pid(p), Unlocked} THEN "returned" ELSE "failed")
  /\ UNCHANGED <<files, spent, faults, ghosts>>

---------------------------------------------------------------------------
(* reconcileDeferredLauncherActivation and applyLauncherActivation. *)
Own(p) == marker # None /\ (me[p].child \in {"start", "finalize"} => marker.token = me[p].token)
AfterReconcile(p) ==
  CASE me[p].child \in {"start", "finalize"} -> "unlock"
    [] me[p].child = "rollback" -> "read"
    [] OTHER -> "stage"
Waits(p) ==
  me[p].child \notin {"start", "finalize"} /\ marker.phase # "applying" /\ Alive(marker.waits)

NothingPending(p) ==
  /\ At(p, "reconcile") /\ (Own(p) => Waits(p))
  /\ Go(p, AfterReconcile(p))
  /\ marker' \in IF Own(p) THEN {marker, [marker EXCEPT !.phase = "failed"]} ELSE {marker}
  /\ Keeps(UNCHANGED <<installed, staging, pointer, record, launcher, gens>>)

Admitted == {Recovered.current, pointer} \subseteq {marker.version, marker.source} \ {0}

BeginApply(p) ==
  /\ At(p, "reconcile") /\ Own(p) /\ ~Waits(p)
  /\ record' = IF Unread THEN record ELSE Recovered
  /\ \/ Unread /\ Go(p, "abandon") /\ UNCHANGED marker
     \/ ~Unread /\ ~Admitted /\ marker' = None /\ Go(p, AfterReconcile(p))
     \/ /\ ~Unread /\ Admitted /\ marker.attempts >= MaxAttempts
        /\ marker' = [marker EXCEPT !.phase = "failed"]
        /\ Go(p, IF me[p].child = "start" THEN "abandon" ELSE AfterReconcile(p))
     \/ /\ ~Unread /\ Admitted /\ marker.attempts < MaxAttempts
        /\ marker' = [marker EXCEPT !.phase = "applying", !.attempts = @ + 1]
        /\ Go(p, "applyLaunch")
  /\ Keeps(UNCHANGED <<installed, staging, pointer, launcher, gens>>)

ApplyLaunchers(p) ==
  /\ At(p, "applyLaunch") /\ Go(p, "applyPoint")
  /\ launcher' = marker.token /\ gens' = gens \cup {marker.token}
  /\ Keeps(UNCHANGED <<installed, staging, pointer, record, marker>>)

Points(version, others) ==
  /\ pointer' = version
  /\ before' = IF version = pointer THEN before ELSE IF record.written THEN pointer ELSE 0
  /\ crossed' = IF version = pointer THEN crossed
                ELSE crossed \cup {q \in others : me[q].cmd = "update"}

ApplyPointer(p) ==
  /\ At(p, "applyPoint") /\ Go(p, "applyRecord") /\ Points(marker.version, Commands)
  /\ UNCHANGED <<installed, staging, record, launcher, gens, marker, lock, spent, faults,
                 razed, gone, stolen, told, torn, overtaken>>

Legacy(version) == version = 1
ApplyRecord(p) ==
  /\ At(p, "applyRecord")
  /\ record' = [current |-> marker.version, written |-> TRUE,
                previous |-> IF marker.previous # 0 THEN marker.previous
                             ELSE IF record.current = marker.version THEN record.previous
                             ELSE record.current]
  /\ Go(p, IF Legacy(marker.version) \/ (marker.op = "upgrade" /\ Legacy(marker.source))
           THEN "applyPlain" ELSE "applyRetire")
  /\ Keeps(UNCHANGED <<installed, staging, pointer, launcher, gens, marker>>)

ApplyPlain(p) ==
  /\ At(p, "applyPlain") /\ Go(p, "applyRetire")
  /\ launcher' = "plain" /\ gens' = {}
  /\ Keeps(UNCHANGED <<installed, staging, pointer, record, marker>>)

ApplyRetire(p) ==
  /\ At(p, "applyRetire") /\ Go(p, AfterReconcile(p)) /\ marker' = None
  /\ Keeps(UNCHANGED <<installed, staging, pointer, record, launcher, gens>>)

---------------------------------------------------------------------------
(* install(): install and upgrade. *)
Stage(p) ==
  /\ At(p, "stage") /\ Go(p, "place") /\ staging' = TRUE
  /\ Keeps(UNCHANGED <<installed, pointer, record, launcher, gens, marker>>)

Place(p) ==
  /\ At(p, "place") /\ Go(p, "read")
  /\ staging' = FALSE /\ installed' = installed \cup {me[p].target} /\ gone' = FALSE
  /\ UNCHANGED <<pointer, record, launcher, gens, marker, lock, spent, faults,
                 before, razed, stolen, told, crossed, torn, overtaken>>

(* readState, and the version a rollback goes to. *)
Deferred(p) == Windows /\ (me[p].child = "upgrade" \/ (me[p].child = "rollback" /\ me[p].token = "defer"))
Read(p) ==
  /\ At(p, "read")
  /\ staging' = (staging /\ me[p].child # "rollback")
  /\ IF Unread \/ (me[p].child = "rollback" /\ (Recovered.previous = 0 \/ Recovered.previous \notin installed))
     THEN Go(p, "abandon") /\ record' = IF Unread THEN record ELSE Recovered
     ELSE /\ record' = Recovered
          /\ LET target == IF me[p].child = "rollback" THEN Recovered.previous ELSE me[p].target
             IN me' = [me EXCEPT ![p].at = "retire", ![p].target = target,
                         ![p].previous =
                           IF me[p].child = "rollback" \/ Recovered.current \notin {0, target}
                           THEN Recovered.current ELSE Recovered.previous]
  /\ Keeps(UNCHANGED <<installed, pointer, launcher, gens, marker>>)

(* prepareDeferredLauncherActivation; a synchronous rollback retires as well. *)
Fresh == CHOOSE t \in Tokens : t \notin spent
Retire(p) ==
  /\ At(p, "retire")
  /\ IF Deferred(p)
     THEN /\ marker' = None /\ Tokens \ spent # {} /\ spent' = spent \cup {Fresh}
          /\ me' = [me EXCEPT ![p].at = "launch", ![p].token = Fresh]
     ELSE /\ marker' = IF me[p].child = "rollback" THEN None ELSE marker
          /\ UNCHANGED spent
          /\ me' = [me EXCEPT ![p].at = "launch", ![p].token = "none"]
  /\ overtaken' = IF me[p].child = "install" /\ marker # None
                  THEN overtaken \cup {marker.token} ELSE overtaken
  /\ UNCHANGED <<installed, staging, pointer, record, launcher, gens, lock, faults,
                 before, razed, gone, stolen, told, crossed, torn>>

Launch(p) ==
  /\ At(p, "launch")
  /\ IF me[p].token \in Tokens
     THEN launcher' = me[p].token /\ gens' = gens \cup {me[p].token} /\ Go(p, "mark")
     ELSE /\ launcher' = "plain" /\ Go(p, "point")
          /\ gens' = IF me[p].child = "rollback" THEN {} ELSE gens
  /\ Keeps(UNCHANGED <<installed, staging, pointer, record, marker>>)

Marker(p, phase) ==
  [token |-> me[p].token, op |-> me[p].child, phase |-> phase, version |-> me[p].target,
   source |-> record.current, previous |-> me[p].previous, waits |-> Pid(p), attempts |-> 0]

(* Created exclusively: under the lock there is none in the way. *)
Mark(p) ==
  /\ At(p, "mark") /\ marker = None
  /\ Go(p, "point") /\ marker' = Marker(p, "prepared")
  /\ Keeps(UNCHANGED <<installed, staging, pointer, record, launcher, gens>>)

Point(p) ==
  /\ At(p, "point") /\ Go(p, "record") /\ Points(me[p].target, Commands \ {p})
  /\ UNCHANGED <<installed, staging, record, launcher, gens, marker, lock, spent, faults,
                 razed, gone, stolen, told, torn, overtaken>>

Record(p) ==
  /\ At(p, "record")
  /\ record' = [current |-> me[p].target, previous |-> me[p].previous, written |-> TRUE]
  /\ Go(p, IF me[p].token \in Tokens THEN "spawn"
           ELSE IF me[p].child = "rollback" THEN "clear" ELSE "unlock")
  /\ Keeps(UNCHANGED <<installed, staging, pointer, launcher, gens, marker>>)

(* The end of a synchronous rollback. *)
Clear(p) ==
  /\ At(p, "clear") /\ Go(p, "unlock") /\ marker' = None /\ gens' = {}
  /\ Keeps(UNCHANGED <<installed, staging, pointer, record, launcher>>)

(* startDeferredLauncherFinalizer; a failing spawn is only noted in the marker. *)
Spawn(p) ==
  /\ At(p, "spawn")
  /\ \/ marker' = [marker EXCEPT !.phase = "failed"] /\ Go(p, "unlock")
     \/ /\ marker' = [marker EXCEPT !.phase = "waiting"]
        /\ me' = [me EXCEPT ![p].at = "unlock",
                    ![me[p].token] = [Idle EXCEPT !.cmd = "finalize", !.child = "finalize",
                                                  !.at = "await", !.token = me[p].token, !.run = 1]]
  /\ Keeps(UNCHANGED <<installed, staging, pointer, record, launcher, gens>>)

---------------------------------------------------------------------------
(* uninstallApplication, in the order of its targets. *)
Uninstall(p) ==
  /\ \/ /\ At(p, "versions") /\ staging /\ Go(p, "abandon")
        /\ UNCHANGED <<installed, launcher, gens, record, pointer, marker, before, crossed, razed, gone>>
     \/ /\ At(p, "versions") /\ ~staging /\ Go(p, "bin") /\ installed' = {} /\ razed' = TRUE
        /\ UNCHANGED <<launcher, gens, record, pointer, marker, before, crossed, gone>>
     \/ /\ At(p, "bin") /\ Go(p, "state") /\ launcher' = "none" /\ gens' = {}
        /\ UNCHANGED <<installed, record, pointer, marker, before, crossed, razed, gone>>
     \/ /\ At(p, "state") /\ Go(p, "pointer") /\ record' = Missing
        /\ UNCHANGED <<installed, launcher, gens, pointer, marker, before, crossed, razed, gone>>
     \/ /\ At(p, "pointer") /\ Go(p, "marker") /\ Points(0, Commands)
        /\ UNCHANGED <<installed, launcher, gens, record, marker, razed, gone>>
     \/ /\ At(p, "marker") /\ Go(p, "unlock") /\ marker' = None /\ razed' = FALSE /\ gone' = TRUE
        /\ UNCHANGED <<installed, launcher, gens, record, pointer, before, crossed>>
  /\ UNCHANGED <<staging, lock, spent, faults, stolen, told, torn, overtaken>>

---------------------------------------------------------------------------
(* The commands.  update and rollback run only from the version on record, and  *)
(* refuse while a copy is left.                                                *)
Runs(p, cmd, child, target, token) ==
  /\ me[p].cmd = "none" /\ me[p].run < MaxRuns
  /\ me' = [me EXCEPT ![p] = [cmd |-> cmd, child |-> child, at |-> "lock", target |-> target,
                              from |-> pointer, previous |-> 0, token |-> token,
                              run |-> me[p].run + 1]]
  /\ crossed' = crossed \ {p} /\ torn' = torn \ {p}
  /\ UNCHANGED <<files, lock, spent, faults, before, razed, gone, stolen, told, overtaken>>

Deferral(version) == IF Windows /\ ~Legacy(version) THEN "defer" ELSE "none"
UpdateApplication(p) ==
  \E version \in Versions :
    /\ ~staging /\ pointer \in installed /\ record.current \in {0, pointer} /\ version > pointer
    /\ Runs(p, "update", "upgrade", version, "none")
RollbackApplication(p) ==
  /\ ~staging /\ pointer \in installed /\ record.current = pointer /\ record.previous # 0
  /\ Runs(p, "rollback", "rollback", 0, Deferral(record.previous))
Install(p) == \E version \in Versions : Runs(p, "install", "install", version, "none")
UninstallApplication(p) == pointer # 0 /\ Runs(p, "uninstall", "uninstall", 0, "none")

(* A start by a launcher of an activation, while there is one. *)
StartProgram(p) ==
  launcher \in gens /\ marker # None /\ Runs(p, "start", "start", 0, launcher)

(* The command reports, and exits. *)
Report(p) ==
  /\ me[p].at \in {"failed", "returned"}
  /\ (At(p, "returned") /\ me[p].cmd = "update" /\ me[p].child = "upgrade" =>
        record.current = me[p].target)
  /\ me' = [me EXCEPT ![p] = [Idle EXCEPT !.run = me[p].run]]
  /\ told' = IF At(p, "returned") /\ marker # None /\ p \in Commands /\ marker.waits = Pid(p)
             THEN told \cup {marker.token} ELSE told
  /\ UNCHANGED <<files, lock, spent, faults, before, razed, gone, stolen, crossed, torn, overtaken>>

(* The health check fails, or the installed version is another one. *)
RollBack(p) ==
  /\ At(p, "returned")
  /\ \/ me[p].cmd = "update" /\ me[p].child = "upgrade"
        /\ me' = [me EXCEPT ![p].child = "rollback", ![p].at = "lock", ![p].token = Deferral(2)]
     \/ me[p].cmd = "rollback"
        /\ me' = [me EXCEPT ![p].cmd = "undo", ![p].at = "lock",
                    ![p].token = IF me[p].token \in Tokens THEN "defer" ELSE "none"]
  /\ UNCHANGED <<files, lock, spent, faults, ghosts>>

(* finalizeDeferredLaunchers: until its command has exited. *)
Await(t) ==
  /\ At(t, "await")
  /\ \/ /\ marker.token # t
        /\ me' = [me EXCEPT ![t] = Idle] /\ UNCHANGED <<marker, lock>>
     \/ /\ marker.token = t /\ Alive(marker.waits)
        /\ me' = [me EXCEPT ![t] = Idle]
        /\ marker' = IF lock = Unlocked THEN [marker EXCEPT !.phase = "failed"] ELSE marker
        /\ UNCHANGED lock
     \/ /\ marker.token = t /\ ~Alive(marker.waits) /\ Go(t, "lock") /\ UNCHANGED <<marker, lock>>
  /\ UNCHANGED <<installed, staging, pointer, record, launcher, gens, spent, faults, ghosts>>

---------------------------------------------------------------------------
(* A write fails: a failing application of a marker is noted in it. *)
Applying == {"applyLaunch", "applyPoint", "applyRecord", "applyPlain", "applyRetire"}
Writing == Applying \cup {"stage", "place", "read", "retire", "launch", "mark", "point", "record", "spawn"}
WriteFails(p) ==
  /\ me[p].at \in Writing /\ faults < MaxFaults /\ faults' = faults + 1
  /\ Go(p, "abandon")
  /\ staging' = (staging /\ ~At(p, "place"))
  /\ marker' = IF me[p].at \in Applying /\ marker # None THEN [marker EXCEPT !.phase = "failed"] ELSE marker
  /\ torn' = IF me[p].child = "upgrade" /\ me[p].at \in {"record", "spawn"} THEN torn \cup {p} ELSE torn
  /\ UNCHANGED <<installed, pointer, record, launcher, gens, lock, spent,
                 before, razed, gone, stolen, told, crossed, overtaken>>

(* A process dies, or the power goes. *)
Die ==
  /\ faults < MaxFaults /\ faults' = faults + 1
  /\ \E dead \in {{p} : p \in Processes} \cup {Processes} :
       /\ \E p \in dead : me[p].cmd # "none"
       /\ me' = [p \in Processes |-> IF p \in dead THEN [Idle EXCEPT !.run = me[p].run] ELSE me[p]]
  /\ UNCHANGED <<files, lock, spent, ghosts>>

CommandNext(p) ==
  \/ UpdateApplication(p) \/ RollbackApplication(p) \/ Install(p) \/ UninstallApplication(p)
  \/ StartProgram(p) \/ RollBack(p)
ProcessNext(p) ==
  \/ Acquire(p) \/ SeeStale(p) \/ TakeStale(p) \/ Refused(p) \/ Release(p)
  \/ NothingPending(p) \/ BeginApply(p) \/ ApplyLaunchers(p) \/ ApplyPointer(p)
  \/ ApplyRecord(p) \/ ApplyPlain(p) \/ ApplyRetire(p)
  \/ Stage(p) \/ Place(p) \/ Read(p) \/ Retire(p) \/ Launch(p) \/ Mark(p) \/ Point(p)
  \/ Record(p) \/ Clear(p) \/ Spawn(p) \/ Uninstall(p) \/ Report(p) \/ WriteFails(p)
(* Once a lock was stolen, two commands write at a time: nothing is said of that. *)
Next ==
  /\ ~stolen
  /\ \/ \E p \in Commands : CommandNext(p)
     \/ \E p \in Processes : ProcessNext(p)
     \/ \E t \in Tokens : Await(t)
     \/ Die

Spec == Init /\ [][Next]_vars

---------------------------------------------------------------------------
TypeOK ==
  /\ installed \subseteq Versions /\ staging \in BOOLEAN /\ pointer \in Versions \cup {0}
  /\ record \in [current : Versions \cup {0}, previous : Versions \cup {0}, written : BOOLEAN]
  /\ launcher \in Tokens \cup {"none", "plain"} /\ gens \subseteq Tokens /\ spent \subseteq Tokens
  /\ marker.token \in Tokens \cup {"none"} /\ faults \in 0..MaxFaults

(* What the launchers start is there, whichever write was the last: a version  *)
(* before the launchers, these before the pointer, and no generation goes away *)
(* that a launcher calls (install, rollback, applyLauncherActivation).        *)
Launchable ==
  ~razed => /\ pointer # 0 => pointer \in installed /\ launcher # "none"
            /\ launcher \in Tokens => launcher \in gens
            /\ {record.current, record.previous} \subseteq installed \cup {0}

(* "recover-interrupted-activation": whatever was cut short, the next command   *)
(* finds the version on the pointer, and what was current before it as the one  *)
(* to roll back to (readState), unless a plain install went on during an         *)
(* activation: the marker brings the version of its own time back.               *)
RollbackTarget ==
  lock = Unlocked /\ ~razed /\ ~stolen /\ record.written =>
    Recovered.current = pointer /\ (overtaken = {} => Recovered.previous = before)

(* "a finalizer cannot recreate launchers after a successful uninstall" *)
(* (user-guide.md).                                                       *)
UninstallFinal ==
  gone =>
    installed = {} /\ pointer = 0 /\ record = Missing /\ launcher = "none" /\ marker = None

InstallationSound == Launchable /\ RollbackTarget /\ UninstallFinal

(* What an update reports is so: the release, or what was there before.  Not if   *)
(* another command moved the pointer meanwhile, or the upgrade failed after it did. *)
UpdateTold ==
  \A p \in Commands :
    me[p].cmd = "update" /\ me'[p].cmd = "none" /\ me[p].at \in {"failed", "returned"}
      /\ faults' = faults /\ p \notin crossed \cup torn =>
        CASE me[p].child = "upgrade" /\ At(p, "returned") -> pointer = me[p].target
          [] me[p].child = "rollback" /\ At(p, "failed") -> TRUE
          [] OTHER -> pointer = me[p].from

(* What a command has reported done stays: a late finalizer or a start only seals it  *)
(* (finalizeDeferredLaunchers, applyLauncherActivation).                        *)
LateQuiet ==
  marker.token \in told \ overtaken /\ pointer' # pointer =>
    \A p \in Processes : ~At(p, "applyPoint") \/ me'[p] = me[p]

InstallTold == UpdateTold /\ LateQuiet
=============================================================================
