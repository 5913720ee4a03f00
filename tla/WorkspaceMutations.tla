------------------------- MODULE WorkspaceMutations -------------------------
(***************************************************************************)
(* Governed changes to the workspace: the edit, move and delete tools, the  *)
(* restore of a checkpoint and the rewind to a snapshot, each between a     *)
(* boundary's first row and its published manifest, run by processes that   *)
(* share the state directory (a Gateway, command-line runs) and take turns  *)
(* under the state-mutation lock (module FileLocks).                        *)
(*                                                                         *)
(* A file's content is the number of the boundary that wrote it, 0 for what *)
(* the user had.  A process that starts reconciles the boundaries it finds  *)
(* WITHOUT the lock, from statuses it read once.  Bounds: MaxBoundaries     *)
(* boundaries, MaxTroubles throwing calls or dead processes in all.         *)
(***************************************************************************)
EXTENDS Naturals, FiniteSets, Sequences

CONSTANTS Processes, Files, MaxBoundaries, MaxTroubles

VARIABLES
  files,     \* [Files -> content]
  rows,      \* mutation_groups and mutation_checkpoints, one boundary each
  lock,      \* "free", a live owner, or "dead": the file of a dead one
  proc,      \* what each process is doing
  troubles   \* calls that threw and processes that died so far

vars == <<files, rows, lock, proc, troubles>>

Idle == [pc |-> "idle", kind |-> "none", before |-> <<>>, after |-> <<>>,
         id |-> 0, left |-> {}, pending |-> {}, knew |-> {}]
Off == [Idle EXCEPT !.pc = "off"]

Init ==
  /\ files = [f \in Files |-> 0]
  /\ rows = <<>>
  /\ lock = "free"
  /\ proc = [p \in Processes |-> Off]
  /\ troubles = 0

Ids == DOMAIN rows
Trouble == troubles < MaxTroubles /\ troubles' = troubles + 1

On(content, image) == \A f \in DOMAIN image : content[f] = image[f]
Image(fs) == [f \in fs |-> files[f]]

(* A half-done boundary with its manifest whose review a recovery may yet   *)
(* overrule: its failure is not on record, or a process that is starting    *)
(* has read it as verifying.                                                *)
Disputed(i, checkpoint) ==
  /\ rows[i].bound
  /\ \/ checkpoint # "needs-review"
     \/ \E p \in Processes : <<i, "verifying">> \in proc[p].pending

(* What has really become of boundary i, its owner gone or given up.       *)
Fate(i, checkpoint) ==
  IF On(files, rows[i].before) THEN "undone"
  ELSE IF On(files, rows[i].after) THEN "written"
  ELSE IF Disputed(i, checkpoint) THEN "disputed" ELSE "torn"

Mark(i, group, checkpoint) ==
  rows' = [rows EXCEPT ![i].group = group, ![i].checkpoint = checkpoint]

-----------------------------------------------------------------------------
(* A process starts: recover() before anything else, then work.            *)

Unstable == {"created", "checkpointing", "publishing", "verifying", "ready"}

Start(p) ==
  /\ proc[p].pc = "off"
  /\ proc' = [proc EXCEPT ![p] = [Idle EXCEPT
       !.pc = "recovering",
       !.pending = {<<i, rows[i].checkpoint>> :
                      i \in {j \in Ids : rows[j].checkpoint \in Unstable}},
       !.knew = {i \in Ids : rows[i].fate = "torn"}]]
  /\ UNCHANGED <<files, rows, lock, troubles>>

(* A faulty variant: a recorded change counts as complete.                  *)
RecoveredAsRecorded(i, status, intact) ==
  IF status \in {"verifying", "ready"} /\ intact
  THEN "completed" ELSE "needs-review"

(* classifyRecoveredCheckpoint: only a boundary that was verifying and has *)
(* its manifest is complete; a boundary with a journal is for review.      *)
RecoveredAs(i, status, intact) ==
  IF status = "verifying" /\ rows[i].bound /\ intact
  THEN "completed" ELSE "needs-review"

Recover(p) ==
  /\ proc[p].pc = "recovering"
  /\ \E seen \in proc[p].pending, intact \in BOOLEAN :
       /\ IF intact THEN UNCHANGED troubles ELSE Trouble
       /\ LET s == RecoveredAs(seen[1], seen[2], intact) IN Mark(seen[1], s, s)
       /\ proc' = [proc EXCEPT ![p].pending = @ \ {seen}]
  /\ UNCHANGED <<files, lock>>

Ready(p) ==
  /\ proc[p].pc = "recovering" /\ proc[p].pending = {}
  /\ proc' = [proc EXCEPT ![p].pc = "idle"]
  /\ UNCHANGED <<files, rows, lock, troubles>>

Exit(p) ==
  /\ proc[p].pc = "idle"
  /\ proc' = [proc EXCEPT ![p] = Off]
  /\ UNCHANGED <<files, rows, lock, troubles>>

-----------------------------------------------------------------------------
(* A preview of what the tool would do, taken outside the lock.            *)

AllReady == \A i \in Ids : rows[i].group # "needs-review"

Wants(p, kind, before, after) ==
  proc' = [proc EXCEPT ![p].pc = "waiting", ![p].kind = kind,
                       ![p].before = before, ![p].after = after]

PreviewEdit(p) ==
  /\ proc[p].pc = "idle" /\ Len(rows) < MaxBoundaries
  /\ \E fs \in SUBSET Files \ {{}} :
       Wants(p, "edit", Image(fs), [f \in fs |-> Len(rows) + 1])
  /\ UNCHANGED <<files, rows, lock, troubles>>

(* planCheckpointRestore: the inverse of a completed boundary.             *)
PreviewRestore(p) ==
  /\ proc[p].pc = "idle" /\ Len(rows) < MaxBoundaries /\ AllReady
  /\ \E i \in Ids :
       /\ rows[i].checkpoint = "completed" /\ rows[i].bound
       /\ Wants(p, "restore", rows[i].after, rows[i].before)
  /\ UNCHANGED <<files, rows, lock, troubles>>

(* The rewind to a snapshot, here one taken before an earlier boundary: it  *)
(* is to overwrite whatever is there, so what was there is read only later. *)
PreviewRewind(p) ==
  /\ proc[p].pc = "idle" /\ Len(rows) < MaxBoundaries
  /\ \E i \in Ids : Wants(p, "rewind", rows[i].before, rows[i].before)
  /\ UNCHANGED <<files, rows, lock, troubles>>

GiveUp(p) ==
  /\ proc[p].pc = "waiting" /\ lock # "free"
  /\ proc' = [proc EXCEPT ![p] = [Idle EXCEPT !.knew = proc[p].knew]]
  /\ UNCHANGED <<files, rows, lock, troubles>>

-----------------------------------------------------------------------------
(* Under the lock: boundary, recovery snapshot, journal, change, manifest. *)

Acquire(p) ==
  /\ proc[p].pc = "waiting" /\ lock \in {"free", "dead"}
  /\ lock' = p
  /\ proc' = [proc EXCEPT ![p].pc = "locked"]
  /\ UNCHANGED <<files, rows, troubles>>

Leave(p) ==
  /\ lock' = "free"
  /\ proc' = [proc EXCEPT ![p] = [Idle EXCEPT !.knew = proc[p].knew]]

(* A faulty variant: the preview is trusted.                                *)
FreshUnchecked(p) == TRUE

(* ensureNoStaleState: a rewind has no such check.                          *)
Fresh(p) == proc[p].kind = "rewind" \/ On(files, proc[p].before)

Refuse(p) ==
  /\ proc[p].pc = "locked" /\ ~ (AllReady /\ Fresh(p))
  /\ Leave(p)
  /\ UNCHANGED <<files, rows, troubles>>

Begin(p) ==
  /\ proc[p].pc = "locked" /\ AllReady /\ Fresh(p)
  /\ Len(rows) < MaxBoundaries
  /\ rows' = Append(rows, [group |-> "created", checkpoint |-> "checkpointing",
                           bound |-> FALSE, before |-> Image(DOMAIN proc[p].after),
                           after |-> proc[p].after, fate |-> "open"])
  /\ proc' = [proc EXCEPT ![p].pc = "begun", ![p].id = Len(rows) + 1]
  /\ UNCHANGED <<files, lock, troubles>>

(* recordMutationPreview refuses a boundary a recovery has settled; the     *)
(* refusal is thrown like any other failure.                                *)
Record(p) ==
  /\ proc[p].pc = "begun" /\ rows[proc[p].id].group \in Unstable
  /\ Mark(proc[p].id, "checkpointing", "ready")
  /\ proc' = [proc EXCEPT ![p].pc = "writing", ![p].left = DOMAIN proc[p].after]
  /\ UNCHANGED <<files, lock, troubles>>

Write(p) ==
  /\ proc[p].pc = "writing"
  /\ \E f \in proc[p].left :
       /\ files' = [files EXCEPT ![f] = proc[p].after[f]]
       /\ proc' = [proc EXCEPT ![p].left = @ \ {f}]
  /\ UNCHANGED <<rows, lock, troubles>>

(* verifyPostWrite has found the files as planned; publishBoundary does not *)
(* look at the status a concurrent recovery may have given the boundary.    *)
Publish(p) ==
  /\ proc[p].pc = "writing" /\ proc[p].left = {} /\ On(files, proc[p].after)
  /\ rows' = [rows EXCEPT ![proc[p].id].checkpoint = "publishing"]
  /\ proc' = [proc EXCEPT ![p].pc = "publishing"]
  /\ UNCHANGED <<files, lock, troubles>>

Bind(p) ==
  /\ proc[p].pc = "publishing"
  /\ rows' = [rows EXCEPT ![proc[p].id].checkpoint = "verifying",
                          ![proc[p].id].bound = TRUE]
  /\ proc' = [proc EXCEPT ![p].pc = "verifying"]
  /\ UNCHANGED <<files, lock, troubles>>

Complete(p) ==
  /\ proc[p].pc = "verifying"
  /\ rows' = [rows EXCEPT ![proc[p].id].group = "completed",
                          ![proc[p].id].checkpoint = "completed",
                          ![proc[p].id].fate = "applied"]
  /\ Leave(p)
  /\ UNCHANGED <<files, troubles>>

-----------------------------------------------------------------------------
(* Something throws.  Once the change has begun the recovery snapshot is put *)
(* back; a rewind undoes its own swap but not a failure after it.  If it is  *)
(* the ledger that fails, publishBoundary cannot record the review either,   *)
(* maybe only once it has recorded the boundary as completed.                *)

Undoes(p) ==
  \/ proc[p].pc = "writing"
  \/ /\ proc[p].pc \in {"publishing", "verifying"}
     /\ proc[p].kind # "rewind"

Throws(p) ==
  /\ \/ proc[p].pc = "begun" /\ rows[proc[p].id].group \notin Unstable
        /\ UNCHANGED troubles
     \/ proc[p].pc \in {"begun", "writing", "publishing", "verifying"} /\ Trouble
  /\ \/ proc[p].pc \in {"publishing", "verifying"}
        /\ Mark(proc[p].id, "needs-review", "needs-review")
     \/ UNCHANGED rows
     \/ proc[p].pc = "verifying" /\ Mark(proc[p].id, "completed", "completed")
  /\ proc' = [proc EXCEPT ![p].pc = IF Undoes(p) THEN "undoing" ELSE "failing",
                          ![p].left = IF Undoes(p) THEN DOMAIN proc[p].after ELSE {}]
  /\ UNCHANGED <<files, lock>>

Undo(p) ==
  /\ proc[p].pc = "undoing"
  /\ \E f \in proc[p].left :
       /\ files' = [files EXCEPT ![f] = rows[proc[p].id].before[f]]
       /\ proc' = [proc EXCEPT ![p].left = @ \ {f}]
  /\ UNCHANGED <<rows, lock, troubles>>

(* The rollback is done, or throws before its first swap.                   *)
Undone(p) ==
  /\ proc[p].pc = "undoing"
  /\ \/ proc[p].left = {} /\ UNCHANGED troubles
     \/ proc[p].left = DOMAIN proc[p].after /\ Trouble
  /\ proc' = [proc EXCEPT ![p].pc = "failing", ![p].left = {}]
  /\ UNCHANGED <<files, rows, lock>>

(* failBoundary; its own failure is swallowed.                              *)
Settle(p) ==
  /\ proc[p].pc = "failing"
  /\ \/ /\ rows' = [rows EXCEPT ![proc[p].id].group = "needs-review",
                                ![proc[p].id].checkpoint = "needs-review",
                                ![proc[p].id].fate = Fate(proc[p].id, "needs-review")]
        /\ UNCHANGED troubles
     \/ /\ rows' = [rows EXCEPT ![proc[p].id].fate =
                        Fate(proc[p].id, rows[proc[p].id].checkpoint)]
        /\ Trouble
  /\ Leave(p)
  /\ UNCHANGED files

Die(p) ==
  /\ proc[p].pc # "off"
  /\ Trouble
  /\ rows' = IF proc[p].id = 0 THEN rows
             ELSE [rows EXCEPT ![proc[p].id].fate =
                     Fate(proc[p].id, rows[proc[p].id].checkpoint)]
  /\ lock' = IF lock = p THEN "dead" ELSE lock
  /\ proc' = [proc EXCEPT ![p] = Off]
  /\ UNCHANGED files

Next == \E p \in Processes :
  \/ Start(p) \/ Recover(p) \/ Ready(p) \/ Exit(p)
  \/ PreviewEdit(p) \/ PreviewRestore(p) \/ PreviewRewind(p)
  \/ GiveUp(p) \/ Acquire(p) \/ Refuse(p) \/ Begin(p) \/ Record(p) \/ Write(p)
  \/ Publish(p) \/ Bind(p) \/ Complete(p)
  \/ Throws(p) \/ Undo(p) \/ Undone(p) \/ Settle(p) \/ Die(p)

Spec == Init /\ [][Next]_vars

-----------------------------------------------------------------------------
(* Type invariant of the module: the statuses and phases the code knows.    *)
TypeOK ==
  /\ files \in [Files -> 0..MaxBoundaries]
  /\ lock \in Processes \union {"free", "dead"}
  /\ Len(rows) <= MaxBoundaries /\ troubles \in 0..MaxTroubles
  /\ \A i \in Ids :
       /\ rows[i].group \in {"created", "checkpointing", "completed", "needs-review"}
       /\ rows[i].checkpoint \in Unstable \union {"completed", "needs-review"}
       /\ rows[i].fate \in {"open", "applied", "undone", "written", "torn", "disputed"}
  /\ \A p \in Processes : proc[p].id \in 0..Len(rows)

(* No governed change is lost (ensureNoStaleState under the state-mutation  *)
(* lock): an edit or a restore only ever replaces a content its preview     *)
(* saw, or puts back one it replaced itself, whatever other processes did   *)
(* between the preview and the lock, and the lock passes on from the dead.  *)
NoLostUpdateStep ==
  \A f \in Files : files'[f] # files[f] =>
    \E p \in Processes :
      /\ lock = p
      /\ \/ proc[p].pc = "writing"
            /\ (proc[p].kind = "rewind" \/ files[f] = proc[p].before[f])
         \/ proc[p].pc = "undoing" /\ files[f] = rows[proc[p].id].after[f]
NoLostUpdate == [][NoLostUpdateStep]_vars

(* recover and assertReady together: a process that starts after a change   *)
(* was left half done never begins one of its own on top of it, and the     *)
(* half-done boundary never counts as completed, however many calls throw   *)
(* and processes die.  A change is left half done by a process that dies or *)
(* cannot roll back; it is torn while its manifest is not bound, or when    *)
(* its failure was on record and no process was starting that had read it   *)
(* as verifying.  The others, disputed, may be taken for complete.          *)
TornStaysBlocked ==
  /\ \A p \in Processes : proc[p].id # 0 => proc[p].knew = {}
  /\ \A i \in Ids : rows[i].fate = "torn" => rows[i].group # "completed"

(* "Startup reconciliation ... blocks new governed mutations while an        *)
(* unresolved needs-review boundary remains" (docs/operator-console.md:122):  *)
(* of a change left half done, a review on record is not lifted by a         *)
(* recovery; only a resolution could, and the code has none (recover).       *)
ReviewStaysStep ==
  \A i \in Ids : rows[i].fate \in {"torn", "disputed"} /\ rows[i].group = "needs-review"
                 => rows'[i].group = "needs-review"

(* What the status and its recorded reason say (recovered after             *)
(* interruption): a boundary for review belongs to a change that failed or  *)
(* whose process died, never to one whose caller was told it was applied.   *)
ReviewMeansTrouble ==
  \A i \in Ids : rows[i].fate = "applied" => rows[i].group # "needs-review"

=============================================================================
