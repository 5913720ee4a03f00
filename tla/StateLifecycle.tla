--------------------------- MODULE StateLifecycle ---------------------------
(***************************************************************************)
(* The state directory across upgrades: the schema migration every start    *)
(* may perform (backup, staging tree, switch by two renames, an external    *)
(* in-progress marker), its recovery after an interruption, and the restore *)
(* of a backup, which switches trees the same way but leaves no marker.     *)
(* All of it runs under the state-mutation lock, so one process at a time;  *)
(* it may stop (crash, or throw) between any two file operations.           *)
(*                                                                         *)
(* A tree is its schema and the number of the last change the user made to  *)
(* it.  Bounds: MaxWrites changes, MaxStops interruptions.                  *)
(***************************************************************************)
EXTENDS Naturals, FiniteSets

CONSTANTS
  MaxWrites, MaxStops,
  DirectGateway    \* a Gateway is started by itself, not by the command line

VARIABLES
  root,       \* the active tree
  staging,    \* .migration-stage-*
  displaced,  \* .migration-old-*
  aside,      \* .restore-old-*, known only to the running restore
  backups,    \* the protected trees under *.backups
  marker,     \* phase of .migration-in-progress.json, or "none"
  pc,         \* what the process holding the lock does next
  chosen,     \* the backup being restored
  current,    \* the data the user left the state with
  written,    \* changes made so far
  stops       \* interruptions so far

work == <<chosen, current, written, stops>>
vars == <<root, staging, displaced, aside, backups, marker, pc, work>>
trees == <<root, staging, displaced, aside, backups>>

Tree(schema, data) == [schema |-> schema, data |-> data]
None == Tree("none", 0)
Empty == Tree("empty", 0)     \* a directory without any store
Torn == Tree("torn", 0)       \* partly copied, partly deleted
Whole(t) == t.schema \in {"old", "new"}

Init ==
  /\ root = Tree("old", 0)
  /\ staging = None /\ displaced = None /\ aside = None
  /\ backups = {} /\ marker = "none"
  /\ pc = "down" /\ chosen = None
  /\ current = 0 /\ written = 0 /\ stops = 0

Goto(next) == pc' = next /\ UNCHANGED work

(* Recursive removal is not atomic: a tree is torn, then gone.              *)
Removed(t) == IF t.schema = "torn" THEN None ELSE Torn

-----------------------------------------------------------------------------
(* ensureStateCompatibility at the start of a process.  A Gateway started   *)
(* by itself first makes sure that its state directory exists.              *)

Start ==
  /\ pc = "down"
  /\ \/ UNCHANGED root
     \/ DirectGateway /\ root' = IF root = None THEN Empty ELSE root
  /\ Goto("recover")
  /\ UNCHANGED <<staging, displaced, aside, backups, marker>>

(* inspectStateSchemas: a store that does not exist is at its target.       *)
AtTarget(t) == t.schema \in {"new", "empty"}

Switching == marker \in {"cutover-started", "activated"}

RecoverNothing ==
  /\ pc = "recover" /\ ~ Switching
  /\ Goto(IF marker = "none" THEN "plan" ELSE "clear-staging")
  /\ UNCHANGED <<trees, marker>>

RecoverForward ==
  /\ pc = "recover" /\ Switching /\ root # None /\ AtTarget(root)
  /\ Goto("finish")
  /\ UNCHANGED <<trees, marker>>

RecoverRefuse ==
  /\ pc = "recover" /\ Switching /\ ~ AtTarget(root) /\ displaced = None
  /\ Goto("refused")
  /\ UNCHANGED <<trees, marker>>

RecoverSetAside ==
  /\ pc = "recover" /\ Switching
  /\ root # None /\ ~ AtTarget(root) /\ displaced # None
  /\ root' = None
  /\ Goto("recover")
  /\ UNCHANGED <<staging, displaced, aside, backups, marker>>

RecoverBack ==
  /\ pc = "recover" /\ Switching /\ root = None /\ displaced # None
  /\ root' = displaced /\ displaced' = None
  /\ Goto("clear-staging")
  /\ UNCHANGED <<staging, aside, backups, marker>>

(* The new tree is in place: the displaced one goes, then the staging tree, *)
(* then the marker.  After a switch that is undone only the last two.       *)
ClearDisplaced ==
  /\ pc = "finish"
  /\ IF displaced = None
     THEN Goto("clear-staging") /\ UNCHANGED displaced
     ELSE Goto("finish") /\ displaced' = Removed(displaced)
  /\ UNCHANGED <<root, staging, aside, backups, marker>>

ClearStaging ==
  /\ pc = "clear-staging"
  /\ IF staging = None
     THEN Goto("plan") /\ marker' = "none" /\ UNCHANGED staging
     ELSE Goto("clear-staging") /\ staging' = Removed(staging) /\ UNCHANGED marker
  /\ UNCHANGED <<root, displaced, aside, backups>>

Refused == pc = "refused" /\ Goto("down") /\ UNCHANGED <<trees, marker>>

(* The plan: nothing to do opens the state, or a fresh one where there is   *)
(* none; anything old is migrated.  What is left of a torn tree may pass    *)
(* the inspection or be refused.                                            *)
Plan ==
  /\ pc = "plan"
  /\ \E torn \in {"open", "refused"} :
       Goto(CASE root.schema = "old" -> "backup"
              [] root.schema = "torn" -> torn
              [] OTHER -> "open")
  /\ root' = IF root = None THEN Empty ELSE root
  /\ UNCHANGED <<staging, displaced, aside, backups, marker>>

-----------------------------------------------------------------------------
(* applyStateMigrationPlanUnlocked, one file operation per action.          *)

(* A faulty variant: the tree is not copied away first.                     *)
ProtectedNot(t) == backups

Protected(t) == backups \union {t}

Backup ==
  /\ pc = "backup"
  /\ backups' = Protected(root)
  /\ Goto("mark")
  /\ UNCHANGED <<root, staging, displaced, aside, marker>>

Marks(from, phase, next) ==
  /\ pc = from
  /\ marker' = phase
  /\ Goto(next)
  /\ UNCHANGED trees

Mark == Marks("mark", "backup-created", "stage")

Stage ==
  /\ pc = "stage"
  /\ IF staging = Torn
     THEN staging' = Tree("new", root.data) /\ Goto("verified")
     ELSE staging' = Torn /\ Goto("stage")
  /\ UNCHANGED <<root, displaced, aside, backups, marker>>

MarkVerified == Marks("verified", "staging-verified", "cut")
MarkCutover == Marks("cut", "cutover-started", "displace")

Displace ==
  /\ pc = "displace"
  /\ displaced' = root /\ root' = None
  /\ Goto("activate")
  /\ UNCHANGED <<staging, aside, backups, marker>>

Activate ==
  /\ pc = "activate"
  /\ root' = staging /\ staging' = None
  /\ Goto("activated")
  /\ UNCHANGED <<displaced, aside, backups, marker>>

MarkActivated == Marks("activated", "activated", "finish")

-----------------------------------------------------------------------------
(* The state in use, and an operator's backup of it.                        *)

UserWrites ==
  /\ pc = "open" /\ Whole(root) /\ written < MaxWrites
  /\ written' = written + 1
  /\ root' = [root EXCEPT !.data = written']
  /\ current' = written'
  /\ UNCHANGED <<staging, displaced, aside, backups, marker, pc, chosen, stops>>

CreateBackup ==
  /\ pc = "open" /\ Whole(root)
  /\ backups' = backups \union {root}
  /\ UNCHANGED <<root, staging, displaced, aside, marker, pc, work>>

Close == pc = "open" /\ Goto("down") /\ UNCHANGED <<trees, marker>>

-----------------------------------------------------------------------------
(* restoreStateBackupUnlocked: not preceded by a compatibility check, and   *)
(* not interested in a migration's marker.  An unhealthy tree is refused.   *)

RestoreStart ==
  /\ pc = "down" /\ root.schema # "torn"
  /\ chosen' \in backups
  /\ backups' = IF Whole(root) THEN Protected(root) ELSE backups
  /\ pc' = "restore"
  /\ UNCHANGED <<root, staging, displaced, aside, marker, current, written, stops>>

RestoreDisplace ==
  /\ pc = "restore"
  /\ aside' = root /\ root' = None
  /\ Goto("restore-swap")
  /\ UNCHANGED <<staging, displaced, backups, marker>>

RestoreSwap ==
  /\ pc = "restore-swap"
  /\ root' = chosen
  /\ Goto("restore-verify")
  /\ UNCHANGED <<staging, displaced, aside, backups, marker>>

RestoreDone ==
  /\ pc = "restore-verify"
  /\ aside' = None /\ chosen' = None /\ pc' = "down"
  /\ current' = root.data
  /\ UNCHANGED <<root, staging, displaced, backups, marker, written, stops>>

(* Verification of the activated tree fails: the displaced one comes back.  *)
RestoreFails ==
  /\ pc = "restore-verify" /\ stops < MaxStops
  /\ root' = aside /\ aside' = None
  /\ chosen' = None /\ pc' = "down" /\ stops' = stops + 1
  /\ UNCHANGED <<staging, displaced, backups, marker, current, written>>

(* The process stops; a restore's own trees are known to nobody any more.   *)
Stop ==
  /\ pc \notin {"down", "open", "refused"} /\ stops < MaxStops
  /\ stops' = stops + 1
  /\ pc' = "down" /\ aside' = None /\ chosen' = None
  /\ UNCHANGED <<root, staging, displaced, backups, marker, current, written>>

Next ==
  \/ Start \/ RecoverNothing \/ RecoverForward \/ RecoverRefuse
  \/ RecoverSetAside \/ RecoverBack \/ ClearDisplaced \/ ClearStaging \/ Refused
  \/ Plan \/ Backup \/ Mark \/ Stage \/ MarkVerified \/ MarkCutover
  \/ Displace \/ Activate \/ MarkActivated
  \/ UserWrites \/ CreateBackup \/ Close
  \/ RestoreStart \/ RestoreDisplace \/ RestoreSwap \/ RestoreDone \/ RestoreFails
  \/ Stop

Spec == Init /\ [][Next]_vars

-----------------------------------------------------------------------------
(* Type invariant of the module: the phases of the marker, the trees.       *)
TypeOK ==
  /\ marker \in {"none", "backup-created", "staging-verified", "cutover-started",
                 "activated"}
  /\ \A t \in {root, staging, displaced, aside, chosen} \union backups :
       t.schema \in {"none", "empty", "torn", "old", "new"} /\ t.data \in 0..MaxWrites
  /\ \A t \in backups : Whole(t)

(* Backup before replace (cp to the backup location, pre-restore backup):   *)
(* wherever the migration, its recovery or a restore stops, and whatever    *)
(* the next starts make of it, a whole copy of the user's newest data is in *)
(* the active tree, in the displaced one or in a protected backup.          *)
DataSurvives ==
  \E t \in {root, displaced, aside} \union backups : Whole(t) /\ t.data = current

(* What the compatibility document promises of the marker (an interrupted   *)
(* switch is recoverable) and the test of the interrupted cutover: the      *)
(* state a start opens is the user's, whole and with the newest data.       *)
OpensTheState == pc = "open" => Whole(root) /\ root.data = current

(* The same promise from the other side: recovery never gives up while the  *)
(* active tree is a whole state.                                            *)
NeverStuck == pc = "refused" => ~ Whole(root)
=============================================================================
