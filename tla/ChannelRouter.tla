--------------------------- MODULE ChannelRouter ---------------------------
(***************************************************************************)
(* The way of a chat message: an adapter delivers it, maybe more than once; *)
(* the router claims its key in the dedupe file, queues it behind the       *)
(* others of its conversation, has the Gateway run it as a durable job of   *)
(* the same key, and sends the reply.  What fails for now is tried again,   *)
(* a reply that is there is only sent again; in the end the key is          *)
(* committed or released for a redelivery.                                  *)
(*                                                                         *)
(* A claim names no owner and lapses: after it, a second delivery of the    *)
(* message runs beside the first, and each ends the other's claim.          *)
(*                                                                         *)
(* Grain of atomicity.  One step is what runs between two awaits; a         *)
(* mutation of the dedupe file is one step with what follows it at once.    *)
(* That mutation may throw (its lock is bounded, its writes are checked):   *)
(* in deliver() the call is rejected and the process goes on, at the end of *)
(* run the process dies.                                                    *)
(*                                                                         *)
(* Abstracted: the time (a claim or a commit lapses whenever it likes),     *)
(* texts, drafts and typing, session bindings, and stop().  The limits by    *)
(* sender and over all conversations may refuse any message.                *)
(*                                                                         *)
(* Source: packages/channels/src/index.ts, apps/gateway/src/server.ts.      *)
(*                                                                         *)
(* An operator marked "faulty" is an unused variant of the next one, with   *)
(* a mistake in it.                                                         *)
(***************************************************************************)
EXTENDS Naturals, Sequences, FiniteSets

CONSTANTS
  Messages, Conversations,
  ConversationOf,      \* message -> conversation
  MaxConcurrency, MaxPendingPerConversation, MaxAttempts,
  MaxDeliveries,       \* bound on calls of deliver()
  MaxFaults            \* bound on failures, lapses and crashes

VARIABLES
  entry,       \* message -> its entry in channel-dedupe.json
  job,         \* message -> the durable job of its key
  run,         \* deliveries so far: [at, of, attempt, answered]
  queues,      \* conversation -> deliveries that wait
  activeKeys,  \* conversations with a delivery at work
  pending,     \* conversation -> #pendingByConversation
  faults,
  replies,     \* ghost: message -> replies that reached the chat
  excused,     \* ghost: message -> lapses, and sends that failed and yet got through
  orphans      \* ghost: claims left behind, by a dead process or by a mutation that threw

vars == <<entry, job, run, queues, activeKeys, pending, faults, replies, excused, orphans>>
ledger == <<replies, excused, orphans>>

Calls == 1..Len(run)
Working == {"run", "poll", "send", "sent", "drop", "release"}
Over(call) == [call EXCEPT !.at = "returned", !.attempt = 1, !.answered = FALSE]
Live(d) == run[d].at \in {"queued"} \cup Working
OfMessage(m) == {d \in Calls : run[d].of = m}
Group(d) == ConversationOf[run[d].of]

(* Entries, calls and queues keep their shapes (parseDedupeState). *)
TypeOK ==
  /\ entry \in [Messages -> {"none", "claimed", "committed"}]
  /\ job \in [Messages -> {"none", "active", "completed", "failed"}]
  /\ \A d \in Calls :
       run[d] \in [at : {"claim", "refused", "queued"} \cup Working \cup {"returned"},
                   of : Messages, attempt : 1..MaxAttempts, answered : BOOLEAN]
  /\ queues \in [Conversations -> Seq(Calls)]
  /\ activeKeys \subseteq Conversations /\ Cardinality(activeKeys) <= MaxConcurrency
  /\ pending \in [Conversations -> 0..MaxPendingPerConversation]

Init ==
  /\ entry = [m \in Messages |-> "none"] /\ job = [m \in Messages |-> "none"]
  /\ run = <<>> /\ queues = [c \in Conversations |-> <<>>]
  /\ activeKeys = {} /\ pending = [c \in Conversations |-> 0] /\ faults = 0
  /\ replies = [m \in Messages |-> 0] /\ excused = [m \in Messages |-> 0] /\ orphans = {}

Fault == faults < MaxFaults /\ faults' = faults + 1

---------------------------------------------------------------------------
(* The dedupe file *)

\* claim
Unseen(m) == entry[m] = "none"
\* commit: of an entry that is still there
Committed(m) == [entry EXCEPT ![m] = IF @ = "none" THEN @ ELSE "committed"]
Released(m) == [entry EXCEPT ![m] = IF @ = "claimed" THEN "none" ELSE @]

\* prune, of an entry past its time
Lapse(m) ==
  /\ entry[m] # "none" /\ Fault
  /\ entry' = [entry EXCEPT ![m] = "none"]
  /\ excused' = [excused EXCEPT ![m] = @ + 1] /\ orphans' = orphans \ {m}
  /\ UNCHANGED <<job, run, queues, activeKeys, pending, replies>>

---------------------------------------------------------------------------
(* Admission *)

\* faulty: one conversation too many
RoomLate(busy) == 1 + MaxConcurrency - Cardinality(busy)
Room(busy) == MaxConcurrency - Cardinality(busy)

(* drain: as many conversations that wait as there is room for; those of the    *)
(* first queues in the code, any here.                                          *)
Drain(waiting, busy, calls) ==
  LET idle == {c \in Conversations : waiting[c] # <<>> /\ c \notin busy}
  IN  \E S \in SUBSET idle :
        /\ Cardinality(S) <= Room(busy) /\ (Cardinality(S) = Room(busy) \/ S = idle)
        /\ queues' = [c \in Conversations |-> IF c \in S THEN Tail(waiting[c]) ELSE waiting[c]]
        /\ activeKeys' = busy \cup S
        /\ run' = [d \in DOMAIN calls |->
             IF \E c \in S : Head(waiting[c]) = d THEN [calls[d] EXCEPT !.at = "run"] ELSE calls[d]]

\* an adapter calls deliver(), of a message it may have delivered before
Deliver(m) ==
  /\ Len(run) < MaxDeliveries
  /\ run' = Append(run, [at |-> "claim", of |-> m, attempt |-> 1, answered |-> FALSE])
  /\ UNCHANGED <<entry, job, queues, activeKeys, pending, faults, ledger>>

\* faulty: only a delivery that ends makes the next one start
EnqueueQuietly(d) ==
  /\ queues' = [queues EXCEPT ![Group(d)] = Append(@, d)]
  /\ run' = [run EXCEPT ![d].at = "queued"] /\ UNCHANGED activeKeys
Enqueue(d) ==
  Drain([queues EXCEPT ![Group(d)] = Append(@, d)], activeKeys, [run EXCEPT ![d].at = "queued"])

Returned(d) ==
  run' = [run EXCEPT ![d].at = "returned"] /\ UNCHANGED <<queues, activeKeys, pending>>

(* enqueue.  A message that is claimed may be refused, if not for what waits in   *)
(* its conversation then for its sender or for what waits in all (admitSender);   *)
(* a claim that throws may have written the entry.                                *)
Claim(d) ==
  LET m == run[d].of
      c == Group(d)
      claimed == [entry EXCEPT ![m] = "claimed"]
  IN  /\ run[d].at = "claim"
      /\ UNCHANGED <<job, replies, excused>>
      /\ \/ ~Unseen(m) /\ Returned(d) /\ UNCHANGED <<entry, faults, orphans>>
         \/ /\ Unseen(m) /\ UNCHANGED faults
            /\ entry' = claimed /\ orphans' = orphans \ {m}
            /\ \/ /\ run' = [run EXCEPT ![d].at = "refused"]
                  /\ UNCHANGED <<queues, activeKeys, pending>>
               \/ /\ pending[c] < MaxPendingPerConversation
                  /\ pending' = [pending EXCEPT ![c] = @ + 1]
                  /\ Enqueue(d)
         \/ /\ Fault /\ Returned(d)
            /\ \/ UNCHANGED <<entry, orphans>>
               \/ Unseen(m) /\ entry' = claimed /\ orphans' = orphans \cup {m}

\* faulty: the claim is kept
RefusedUnreleased(d) ==
  /\ run[d].at = "refused" /\ Returned(d)
  /\ UNCHANGED <<entry, job, faults, ledger>>

(* refused: the claim is given back, or the call is rejected and leaves it *)
Refused(d) ==
  LET m == run[d].of
  IN  /\ run[d].at = "refused" /\ Returned(d)
      /\ UNCHANGED <<job, replies, excused>>
      /\ \/ entry' = Released(m) /\ UNCHANGED <<faults, orphans>>
         \/ Fault /\ UNCHANGED entry /\ orphans' = orphans \cup {m}

---------------------------------------------------------------------------
(* One delivery at work *)
To(d, where) ==
  /\ run' = [run EXCEPT ![d].at = where]
  /\ UNCHANGED <<entry, queues, activeKeys, pending, orphans>>

\* the catch of run, of an error that may go away
TryAgain(d) ==
  /\ run' = [run EXCEPT ![d].at =
       IF run[d].attempt = MaxAttempts THEN "release"
       ELSE IF run[d].answered THEN "send" ELSE "run",
       ![d].attempt = IF @ = MaxAttempts THEN @ ELSE @ + 1]
  /\ UNCHANGED <<entry, queues, activeKeys, pending, orphans>>

\* what POST /jobs does with a key it knows: nothing
Submitted(m) == [job EXCEPT ![m] = IF @ = "none" THEN "active" ELSE @]

(* handle, up to the receipt of its job *)
Handle(d) ==
  /\ run[d].at = "run" /\ UNCHANGED <<replies, excused>>
  /\ \/ job' = Submitted(run[d].of) /\ To(d, "poll") /\ UNCHANGED faults
     \/ job' \in {job, Submitted(run[d].of)} /\ TryAgain(d) /\ Fault
     \/ UNCHANGED job /\ To(d, "drop") /\ Fault

(* reconcileJob, and the reply kept in the session *)
Poll(d) ==
  /\ run[d].at = "poll" /\ UNCHANGED <<job, replies, excused>>
  /\ \/ /\ job[run[d].of] = "completed"
        /\ run' = [run EXCEPT ![d].at = "send", ![d].answered = TRUE]
        /\ UNCHANGED <<entry, queues, activeKeys, pending, faults, orphans>>
     \/ job[run[d].of] = "failed" /\ To(d, "drop") /\ UNCHANGED faults
     \/ (TryAgain(d) \/ To(d, "drop")) /\ Fault

\* the job runs and ends by itself; every other end is to the router what failed is
JobEnds(m) ==
  /\ job[m] = "active"
  /\ job' \in {[job EXCEPT ![m] = s] : s \in {"completed", "failed"}}
  /\ UNCHANGED <<entry, run, queues, activeKeys, pending, faults, ledger>>

(* adapter.send; one that fails may have got through *)
Send(d) ==
  LET m == run[d].of
  IN  /\ run[d].at = "send" /\ UNCHANGED job
      /\ \/ /\ replies' = [replies EXCEPT ![m] = @ + 1] /\ UNCHANGED <<faults, excused>>
            /\ To(d, "sent")
         \/ /\ Fault
            /\ \/ UNCHANGED <<replies, excused>>
               \/ /\ replies' = [replies EXCEPT ![m] = @ + 1]
                  /\ excused' = [excused EXCEPT ![m] = @ + 1]
            /\ (TryAgain(d) \/ To(d, "drop"))

\* the count of a conversation, one less
Freed(c) == [pending EXCEPT ![c] = @ - 1]

(* the end of run, and the finally of drain *)
Finish(d, entries) ==
  /\ entry' = entries
  /\ pending' = Freed(Group(d))
  /\ Drain(queues, activeKeys \ {Group(d)}, [run EXCEPT ![d] = Over(@)])
  /\ UNCHANGED <<job, ledger>>

Commit(d) ==
  /\ run[d].at = "sent"
  /\ \/ Finish(d, Committed(run[d].of)) /\ UNCHANGED faults
     \/ To(d, "drop") /\ Fault /\ UNCHANGED <<job, replies, excused>>

Drop(d) == run[d].at = "drop" /\ Finish(d, Committed(run[d].of)) /\ UNCHANGED faults

Release(d) == run[d].at = "release" /\ Finish(d, Released(run[d].of)) /\ UNCHANGED faults

(* The process dies: by itself, or because the dedupe file could not be written  *)
(* in the catch of run, whose rejection nobody handles.                          *)
Crash ==
  /\ Fault
  /\ run' = [d \in Calls |-> Over(run[d])]
  /\ queues' = [c \in Conversations |-> <<>>] /\ activeKeys' = {}
  /\ pending' = [c \in Conversations |-> 0]
  /\ orphans' = {m \in Messages : entry[m] = "claimed"}
  /\ UNCHANGED <<entry, job, replies, excused>>

---------------------------------------------------------------------------
Work(d) ==
  Claim(d) \/ Refused(d) \/ Handle(d) \/ Poll(d) \/ Send(d) \/ Commit(d) \/ Drop(d) \/ Release(d)

Next ==
  \/ \E m \in Messages : Deliver(m) \/ Lapse(m) \/ JobEnds(m)
  \/ \E d \in Calls : Work(d)
  \/ Crash

(* The event loop goes on, and a job ends. *)
Progress == (\E d \in Calls : Work(d)) \/ \E m \in Messages : JobEnds(m)
Spec == Init /\ [][Next]_vars /\ WF_vars(Progress)

---------------------------------------------------------------------------
(* Properties *)

(* However deliveries, retries and crashes interleave, a message is answered     *)
(* once, but for a claim that lapsed on the way and a send that failed though    *)
(* it got through (run: handlerCompleted, commit, release).                      *)
RepliedOnce == \A m \in Messages : replies[m] <= 1 + excused[m]

(* Until a claim lapses a redelivery is dropped as a duplicate (enqueue, run).   *)
(* So a claim has a delivery behind it that will settle it, and a living process  *)
(* whose file could be written leaves none behind, whatever was refused, retried  *)
(* or dropped on the way; what a crash or a mutation that threw may leave is in   *)
(* orphans.  And while no claim of a message lapsed, one delivery at most has it. *)
ClaimsHeld ==
  /\ \A m \in Messages : entry[m] = "claimed" =>
       m \in orphans \/ \E d \in OfMessage(m) : Live(d) \/ run[d].at = "refused"
  /\ \A m \in Messages : excused[m] = 0 =>
       \A d, e \in OfMessage(m) : Live(d) /\ Live(e) => d = e

(* A conversation's count is what waits and what is at work, one at a time: one  *)
(* that leaked would close the conversation for good (drain).                    *)
CountsTrue ==
  \A c \in Conversations :
    LET working == {d \in Calls : Group(d) = c /\ run[d].at \in Working}
    IN  /\ pending[c] = Len(queues[c]) + Cardinality(working)
        /\ Cardinality(working) = IF c \in activeKeys THEN 1 ELSE 0

(* Every call of deliver() returns: nothing waits in a queue that nobody drains. *)
Idle == \A d \in Calls : run[d].at = "returned"
CallsReturn == []<>Idle
=============================================================================
