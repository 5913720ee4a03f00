--------------------------- MODULE GatewayInstances ---------------------------
(***************************************************************************)
(* Gateways that compete for one state directory: a lease in a database    *)
(* beside it names the owner and counts its successions; whatever an       *)
(* instance admits, it admits as owner, and what is in flight goes on      *)
(* until it is told to stop.                                               *)
(*                                                                         *)
(* An instance is one process; it does not come back.  The clock of the    *)
(* lease is abstract: an owner that renews in time keeps it, one that      *)
(* stalls or dies loses it some time later.                                *)
(*                                                                         *)
(* Source: apps/gateway/src/instance-ownership.ts and its uses in          *)
(* apps/gateway/src/server.ts.                                             *)
(*                                                                         *)
(* An operator marked "faulty" is an unused variant of the next one, with  *)
(* a mistake in it.                                                        *)
(***************************************************************************)
EXTENDS Naturals, FiniteSets

CONSTANTS
  Instances,
  Host,        \* instance -> its host
  MaxStalls    \* bound on stalls, overrun shutdowns and deaths

VARIABLES
  owner,      \* the owner in the row, or "none"
  held,       \* its lease: "none", "live", "expired", "released"
  epoch,      \* successions so far
  up,         \* instance -> "down", "up", "lost", "closed", "dead"
  mine,       \* instance -> the epoch it acquired
  flight,     \* instances with an admitted operation in flight
  faults,
  excused     \* ghost: instances that stalled for a lease, or whose shutdown overran

vars == <<owner, held, epoch, up, mine, flight, faults, excused>>

(* Row and instances keep their shapes (LEASE_DDL). *)
TypeOK ==
  /\ owner \in Instances \cup {"none"} /\ held \in {"none", "live", "expired", "released"}
  /\ epoch \in 0..Cardinality(Instances) /\ mine \in [Instances -> 0..Cardinality(Instances)]
  /\ up \in [Instances -> {"down", "up", "lost", "closed", "dead"}]
  /\ flight \subseteq Instances /\ excused \subseteq Instances /\ faults \in 0..MaxStalls

Init ==
  /\ owner = "none" /\ held = "none" /\ epoch = 0
  /\ up = [i \in Instances |-> "down"] /\ mine = [i \in Instances |-> 0]
  /\ flight = {} /\ faults = 0 /\ excused = {}

Fault == faults < MaxStalls /\ faults' = faults + 1

ProcessAlive(i) == up[i] \notin {"down", "dead"}

(* What #acquire() takes over: nothing live, and no expired lease of a process *)
(* of the same host that is still there.                                       *)
Free(i) ==
  held \in {"none", "released"} \/ (held = "expired" /\ ~(Host[owner] = Host[i] /\ ProcessAlive(owner)))

Acquire(i) ==
  /\ up[i] = "down" /\ Free(i)
  /\ owner' = i /\ held' = "live" /\ epoch' = epoch + 1
  /\ mine' = [mine EXCEPT ![i] = epoch + 1] /\ up' = [up EXCEPT ![i] = "up"]
  /\ UNCHANGED <<flight, faults, excused>>

(* isOwned() *)
Owned(i) == up[i] = "up" /\ owner = i /\ mine[i] = epoch /\ held = "live"

(* assertOwned() at the start of every request, task and cycle. *)
Admit(i) ==
  /\ up[i] = "up"
  /\ IF Owned(i) THEN flight' = flight \cup {i} /\ UNCHANGED up
                 ELSE up' = [up EXCEPT ![i] = "lost"] /\ UNCHANGED flight
  /\ UNCHANGED <<owner, held, epoch, mine, faults, excused>>

Done(i) ==
  /\ i \in flight /\ flight' = flight \ {i}
  /\ UNCHANGED <<owner, held, epoch, up, mine, faults, excused>>

(* heartbeat(), when it is too late: #markLost() aborts what is in flight.  In *)
(* time, it leaves the lease as it is.                                         *)
HeartbeatLost(i) ==
  /\ up[i] = "up" /\ ~Owned(i) /\ up' = [up EXCEPT ![i] = "lost"]
  /\ UNCHANGED <<owner, held, epoch, mine, flight, faults, excused>>

(* No heartbeat came for a whole lease. *)
Expire ==
  /\ held = "live"
  /\ IF up[owner] = "up" THEN Fault /\ excused' = excused \cup {owner} ELSE UNCHANGED <<faults, excused>>
  /\ held' = "expired"
  /\ UNCHANGED <<owner, epoch, up, mine, flight>>

(* release(), by whoever still owns the row. *)
Released(i) == held' = IF owner = i /\ mine[i] = epoch /\ held # "released" THEN "released" ELSE held

(* faulty: the lease is released first. *)
DrainedNot(i) == TRUE

Drained(i) == i \notin flight

(* The Gateway closes: it drains, then releases. *)
Shutdown(i) ==
  /\ up[i] \in {"up", "lost"} /\ Drained(i) /\ Released(i) /\ up' = [up EXCEPT ![i] = "closed"]
  /\ UNCHANGED <<owner, epoch, mine, flight, faults, excused>>

(* The drain takes longer than the shutdown deadline, which does not keep the *)
(* lease from being released.                                                 *)
ShutdownOverruns(i) ==
  /\ up[i] \in {"up", "lost"} /\ i \in flight /\ Fault
  /\ Released(i) /\ up' = [up EXCEPT ![i] = "closed"] /\ excused' = excused \cup {i}
  /\ UNCHANGED <<owner, epoch, mine, flight>>

Die(i) ==
  /\ ProcessAlive(i)
  /\ IF up[i] = "closed" THEN UNCHANGED faults ELSE Fault
  /\ up' = [up EXCEPT ![i] = "dead"] /\ flight' = flight \ {i}
  /\ UNCHANGED <<owner, held, epoch, mine, excused>>

Next ==
  \/ Expire
  \/ \E i \in Instances :
       Acquire(i) \/ Admit(i) \/ Done(i) \/ HeartbeatLost(i) \/ Shutdown(i) \/ ShutdownOverruns(i) \/ Die(i)

Spec == Init /\ [][Next]_vars

---------------------------------------------------------------------------
(* What must hold. *)

(* What two instances have in flight never overlaps, through deaths, restarts   *)
(* and takeovers, unless one of them stalled for a whole lease while another    *)
(* host was there to take over, or released its lease at the shutdown deadline  *)
(* (#acquire, assertOwned, release).                                            *)
HandoverClean ==
  \A i, j \in flight : i # j =>
    \E k \in {i, j} \cap excused : up[k] = "closed" \/ \E h \in Instances : Host[h] # Host[k]
=============================================================================
