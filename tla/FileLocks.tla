------------------------------ MODULE FileLocks ------------------------------
(***************************************************************************)
(* The locks that Gateway, command line and workers share through the file *)
(* system: an exclusively created file that names its owner.  What a dead  *)
(* owner left behind is set aside by whoever gets hold of a marker named   *)
(* after that very file; the marker is a file of the same kind, and so is  *)
(* recovered in the same way when its own owner dies.                      *)
(*                                                                         *)
(* Grain of atomicity: one call of the file system.  A process that dies   *)
(* does not come back: its successor is another process.                   *)
(*                                                                         *)
(* Assumed: no process stalls for five seconds between the creation of a   *)
(* lock and the write that names its owner, no process id is used again,   *)
(* and nobody removes a lock by hand.                                      *)
(*                                                                         *)
(* Source: packages/kernel/src/state-mutation.ts and the lock of           *)
(* packages/kernel/src/approvals.ts.                                       *)
(*                                                                         *)
(* An operator marked "faulty" is an unused variant of the next one, with  *)
(* a mistake in it.                                                        *)
(***************************************************************************)
EXTENDS Naturals, Sequences

CONSTANTS
  Processes,
  MaxDeaths,     \* bound on deaths
  RecoversTorn   \* a file without a name is recovered (approvals), or never (state mutations)

VARIABLES
  file,      \* path -> the file there, or NoFile
  alive,     \* processes that have not died
  pc,        \* process -> where it is
  want,      \* process -> the marker it wants or has
  deaths

vars == <<file, alive, pc, want, deaths>>

(* The lock is at Lock; the marker for the file of p at path t is at Append(t, p). *)
Lock == <<>>
Paths == UNION {[1..n -> Processes] : n \in 0..MaxDeaths}
Target(m) == SubSeq(m, 1, Len(m) - 1)
Expected(m) == m[Len(m)]

NoFile == [owner |-> "none", named |-> FALSE]
Nameless(p) == [owner |-> p, named |-> FALSE]
Named(p) == [owner |-> p, named |-> TRUE]

(* Files and control points keep their shapes. *)
TypeOK ==
  /\ \A t \in Paths : file[t] = NoFile \/ \E p \in Processes : file[t] \in {Nameless(p), Named(p)}
  /\ DOMAIN file = Paths /\ alive \subseteq Processes
  /\ pc \in [Processes -> {"idle", "open", "held", "free", "mark", "again", "marking",
                           "check", "move", "done", "failed"}]
  /\ want \in [Processes -> Paths] /\ deaths \in 0..MaxDeaths

Init ==
  /\ file = [t \in Paths |-> NoFile]
  /\ alive = Processes
  /\ pc = [p \in Processes |-> "idle"]
  /\ want = [p \in Processes |-> Lock]
  /\ deaths = 0

(* faulty: a file that does not name its owner yet is nobody's. *)
StaleUnnamed(f) == f # NoFile /\ (~f.named \/ f.owner \notin alive)

(* deadOwner(), staleApprovalSnapshot() *)
Stale(f) == f # NoFile /\ f.owner \notin alive /\ (f.named \/ RecoversTorn)

Go(p, to) == pc' = [pc EXCEPT ![p] = to]

---------------------------------------------------------------------------
(* withStateMutationLock(), withLock(). *)

Open(p) ==
  /\ pc[p] = "idle" /\ file[Lock] = NoFile
  /\ file' = [file EXCEPT ![Lock] = Nameless(p)] /\ Go(p, "open")
  /\ UNCHANGED <<alive, want, deaths>>

Write(p) ==
  /\ pc[p] = "open"
  /\ file' = [file EXCEPT ![Lock] = Named(p)] /\ Go(p, "held")
  /\ UNCHANGED <<alive, want, deaths>>

(* The operation is over, or was aborted.  removeOwnedLock() reads its name. *)
Leave(p) ==
  /\ pc[p] = "held"
  /\ Go(p, IF file[Lock] = Named(p) THEN "free" ELSE "idle")
  /\ UNCHANGED <<file, alive, want, deaths>>

Release(p) ==
  /\ pc[p] = "free"
  /\ file' = [file EXCEPT ![Lock] = NoFile] /\ Go(p, "idle")
  /\ UNCHANGED <<alive, want, deaths>>

---------------------------------------------------------------------------
(* quarantineDeadOwnerLock(), quarantineStaleApprovalLock(): the lock is taken, *)
(* by an owner that is dead.                                                    *)

FindStale(p) ==
  /\ pc[p] = "idle" /\ Stale(file[Lock])
  /\ want' = [want EXCEPT ![p] = <<file[Lock].owner>>] /\ Go(p, "mark")
  /\ UNCHANGED <<file, alive, deaths>>

CreateMarker(p) ==
  /\ pc[p] \in {"mark", "again"} /\ file[want[p]] = NoFile
  /\ file' = [file EXCEPT ![want[p]] = Nameless(p)] /\ Go(p, "marking")
  /\ UNCHANGED <<alive, want, deaths>>

(* The marker is there, of a dead owner. *)
Abandoned(p) == pc[p] = "mark" /\ Stale(file[want[p]])

(* It is recovered first, but only once. *)
Descend(p) ==
  /\ Abandoned(p)
  /\ want' = [want EXCEPT ![p] = Append(@, file[want[p]].owner)]
  /\ UNCHANGED <<file, alive, pc, deaths>>

(* The marker is somebody's: back to waiting for the lock, or to the error. *)
MarkerTaken(p) ==
  /\ pc[p] \in {"mark", "again"} /\ file[want[p]] # NoFile
  /\ ~Abandoned(p)
  /\ want' = [want EXCEPT ![p] = Lock] /\ Go(p, "idle")
  /\ UNCHANGED <<file, alive, deaths>>

WriteMarker(p) ==
  /\ pc[p] = "marking"
  /\ file' = [file EXCEPT ![want[p]] = Named(p)] /\ Go(p, "check")
  /\ UNCHANGED <<alive, want, deaths>>

StillThere(m) == file[Target(m)].owner = Expected(m) /\ Stale(file[Target(m)])

Check(p) ==
  /\ pc[p] = "check"
  /\ Go(p, IF StillThere(want[p]) THEN "move" ELSE "failed")
  /\ UNCHANGED <<file, alive, want, deaths>>

(* Whatever is there is set aside; if it is not what was expected, it is an error. *)
Move(p) ==
  /\ pc[p] = "move"
  /\ file' = [file EXCEPT ![Target(want[p])] = NoFile]
  /\ Go(p, IF file[Target(want[p])].owner \in {Expected(want[p]), "none"} THEN "done" ELSE "failed")
  /\ UNCHANGED <<alive, want, deaths>>

(* Out goes the marker (removeOwnedLock); below it is the one that was wanted first. *)
Unmark(p) ==
  LET up == pc[p] = "done" /\ Len(want[p]) > 1 IN
    /\ pc[p] \in {"done", "failed"}
    /\ file' = [file EXCEPT ![want[p]] = NoFile]
    /\ want' = [want EXCEPT ![p] = IF up THEN Target(@) ELSE Lock]
    /\ Go(p, IF up THEN "again" ELSE "idle")
    /\ UNCHANGED <<alive, deaths>>

Die(p) ==
  /\ deaths < MaxDeaths /\ deaths' = deaths + 1
  /\ alive' = alive \ {p} /\ Go(p, "idle") /\ want' = [want EXCEPT ![p] = Lock]
  /\ UNCHANGED file

---------------------------------------------------------------------------
Recovery(p) ==
  FindStale(p) \/ CreateMarker(p) \/ Descend(p) \/ MarkerTaken(p) \/ WriteMarker(p)
  \/ Check(p) \/ Move(p) \/ Unmark(p)

Next ==
  \E p \in alive : Open(p) \/ Write(p) \/ Leave(p) \/ Release(p) \/ Recovery(p) \/ Die(p)

Spec == Init /\ [][Next]_vars

(* What a living process does to recover a lock; it keeps trying. *)
Recovers(p) == p \in alive /\ Recovery(p)

---------------------------------------------------------------------------
(* What must hold. *)

(* One process at most has the lock, and its file is there as long as it thinks *)
(* so: no contender sets aside the lock of a living owner, whatever it saw      *)
(* earlier and whoever died meanwhile (quarantineDeadOwnerLock).                *)
LockExclusive ==
  \A p \in alive :
    /\ pc[p] \in {"open", "held", "free"} => file[Lock].owner = p
    /\ pc[p] \in {"marking", "check", "move", "done", "failed"} => file[want[p]].owner = p

(* The lock of a dead owner goes away, over the deaths of those who see to it,  *)
(* unless one of them left a file without a name where that is not recovered.   *)
Torn == ~RecoversTorn /\ \E t \in Paths : file[t].owner # "none" /\ file[t].owner \notin alive /\ ~file[t].named
Orphaned == file[Lock] # NoFile /\ file[Lock].owner \notin alive
StaleLockFreed == Orphaned ~> ~Orphaned \/ Torn
=============================================================================
