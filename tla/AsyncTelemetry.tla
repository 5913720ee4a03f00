--------------------------- MODULE AsyncTelemetry ---------------------------
(***************************************************************************)
(* The telemetry buffer of the Gateway: records are queued in memory and a *)
(* single pump hands them to the exporter in batches, each under a         *)
(* timeout.  A batch that fails or times out is dropped, never retried,    *)
(* and delays the next one; an exporter that ignores its abort wedges the  *)
(* buffer until it physically settles.  flush() and shutdown() drive the   *)
(* same pump, and tell whether all that was accepted got out.              *)
(*                                                                         *)
(* Grain of atomicity.  JavaScript callbacks: one step is what runs        *)
(* between two awaits.  What settles a batch, the continuation that counts *)
(* it and the finally of the pump are steps of their own, because the      *)
(* exporter may settle between them; no call of a client comes between a   *)
(* settled batch and the continuation that counts it (Quiet).              *)
(*                                                                         *)
(* Abstracted: sizes in bytes (a batch takes any part of the queue up to   *)
(* maxBatch), contents, and the listeners of single records.               *)
(*                                                                         *)
(* Source: packages/kernel/src/async-telemetry.ts.                         *)
(*                                                                         *)
(* An operator marked "faulty" is an unused variant of the next one, with  *)
(* a mistake in it.                                                        *)
(***************************************************************************)
EXTENDS Naturals, Sequences, FiniteSets

CONSTANTS
  MaxQueue, MaxBatch,
  Flushers,      \* calls of flush(), one each
  MaxRecords     \* bound on records offered

VARIABLES
  state,        \* "running", "stopping", "stopped"
  queue,        \* sequence numbers
  batch,        \* in flight: sequence numbers
  pump,         \* the pump: "none", "racing", "late", "answered", "ended"
  answer,       \* how many of the batch the exporter took; NoAnswer when it threw
  physical,     \* the exporter's promise is pending
  wedged,
  scheduled, micro, timer,   \* #scheduled; a queued microtask; an armed timer
  delayed,      \* #retryDelay is set
  count,        \* [accepted, overflow, exported, dropped, settled, firstFailed, failures]
  call,         \* caller -> its flush: [at, mark, failures]
  lost          \* ghost: records of batches that were not taken in full, in time

vars == <<state, queue, batch, pump, answer, physical, wedged, scheduled, micro, timer,
          delayed, count, call, lost>>
wakeups == <<scheduled, micro, timer>>

Stopper == "shutdown"
Callers == Flushers \cup {Stopper}
NoAnswer == MaxBatch + 1
Returned == {"true", "clear", "false"}
Quiet == pump \notin {"late", "answered"}

(* Counters, wakeups and calls keep their shapes (TelemetryStatus). *)
TypeOK ==
  /\ state \in {"running", "stopping", "stopped"}
  /\ queue \in Seq(1..MaxRecords) /\ batch \in Seq(1..MaxRecords)
  /\ Len(queue) + Len(batch) <= MaxQueue
  /\ pump \in {"none", "racing", "late", "answered", "ended"}
  /\ answer \in 0..NoAnswer /\ micro \in 0..MaxRecords
  /\ {physical, wedged, scheduled, timer, delayed} \subseteq BOOLEAN
  /\ call \in [Callers -> [at : {"idle", "loop", "wait", "resumed"} \cup Returned,
                           mark : Nat, failures : Nat]]

Init ==
  /\ state = "running" /\ queue = <<>> /\ batch = <<>>
  /\ pump = "none" /\ answer = 0 /\ physical = FALSE /\ wedged = FALSE
  /\ scheduled = FALSE /\ micro = 0 /\ timer = FALSE /\ delayed = FALSE
  /\ count = [accepted |-> 0, overflow |-> 0, exported |-> 0, dropped |-> 0,
              settled |-> 0, firstFailed |-> 0, failures |-> 0]
  /\ call = [c \in Callers |-> [at |-> "idle", mark |-> 0, failures |-> 0]]
  /\ lost = {}

---------------------------------------------------------------------------
(* schedulePump, of a buffer whose pump and exporter are as they will be *)
SchedulePump(later) ==
  IF /\ state = "running" /\ ~scheduled /\ pump' = "none" /\ ~physical'
     /\ queue # <<>> \/ later
  THEN /\ scheduled' = TRUE
       /\ micro' = IF later THEN micro ELSE micro + 1
       /\ timer' = (timer \/ later)
  ELSE UNCHANGED wakeups

\* recordEvent, recordSpan, recordMetric: #enqueue
Record ==
  /\ Quiet /\ state = "running" /\ count.accepted + count.overflow < MaxRecords
  /\ IF Len(queue) + Len(batch) >= MaxQueue
     THEN count' = [count EXCEPT !.overflow = @ + 1] /\ UNCHANGED <<queue, wakeups>>
     ELSE /\ count' = [count EXCEPT !.accepted = @ + 1]
          /\ queue' = Append(queue, count.accepted + 1)
          /\ IF ~scheduled /\ pump = "none" /\ ~physical
             THEN scheduled' = TRUE /\ micro' = micro + 1 /\ UNCHANGED timer
             ELSE UNCHANGED wakeups
  /\ UNCHANGED <<state, batch, pump, answer, physical, wedged, delayed, call, lost>>

\* drainOne, up to its await
StartPump ==
  IF queue = <<>> THEN pump' = "ended" /\ UNCHANGED <<queue, batch, physical>>
  ELSE \E n \in 1..MaxBatch :
         /\ n <= Len(queue)
         /\ batch' = SubSeq(queue, 1, n) /\ queue' = SubSeq(queue, n + 1, Len(queue))
         /\ pump' = "racing" /\ physical' = TRUE

\* the callback of schedulePump, as a microtask or of the timer; runPump
Wakeup ==
  /\ \/ micro > 0 /\ micro' = micro - 1 /\ UNCHANGED timer
     \/ micro = 0 /\ timer /\ timer' = FALSE /\ UNCHANGED micro
  /\ scheduled' = FALSE
  /\ IF pump = "none" /\ ~physical THEN StartPump ELSE UNCHANGED <<pump, queue, batch, physical>>
  /\ UNCHANGED <<state, answer, wedged, delayed, count, call, lost>>

\* the exporter settles in time: it took n of the batch, or threw
Answer ==
  /\ physical /\ ~wedged /\ pump = "racing"
  /\ physical' = FALSE /\ pump' = "answered"
  /\ answer' \in 0..Len(batch) \cup {NoAnswer}
  /\ UNCHANGED <<state, queue, batch, wedged, wakeups, delayed, count, call, lost>>

\* the timeout of #exportBatch: whole kinds of records may have been reported as taken
Timeout ==
  /\ physical /\ ~wedged /\ pump = "racing"
  /\ wedged' = TRUE /\ pump' = "late"
  /\ answer' \in 0..Len(batch)
  /\ UNCHANGED <<state, queue, batch, physical, wakeups, delayed, count, call, lost>>

\* faulty: a released buffer waits for the next record
LateAnswerQuietly ==
  /\ physical /\ wedged /\ micro = 0
  /\ physical' = FALSE /\ wedged' = FALSE /\ delayed' = FALSE
  /\ UNCHANGED wakeups
  /\ UNCHANGED <<state, queue, batch, pump, answer, count, call, lost>>

\* #physicalExportSettled of a wedged buffer, the microtasks before it being done
LateAnswer ==
  /\ physical /\ wedged /\ micro = 0
  /\ physical' = FALSE /\ wedged' = FALSE /\ delayed' = FALSE
  /\ UNCHANGED pump
  /\ SchedulePump(TRUE)
  /\ UNCHANGED <<state, queue, batch, answer, count, call, lost>>

\* #firstFailedSequence ??= queuedBatch[0].sequence
FirstFailed(first) == IF first = 0 THEN batch[1] ELSE first

\* drainOne, after its await: the batch is counted, whatever became of it
Settle ==
  /\ pump \in {"answered", "late"}
  /\ LET taken == IF answer = NoAnswer THEN 0 ELSE answer
         failed == pump = "late" \/ taken < Len(batch)
     IN  /\ count' = [count EXCEPT
              !.exported = @ + taken, !.dropped = @ + (Len(batch) - taken),
              !.settled = batch[Len(batch)],
              !.firstFailed = IF failed THEN FirstFailed(@) ELSE @,
              !.failures = IF failed THEN @ + 1 ELSE @]
         /\ delayed' = (failed /\ (delayed \/ state = "running"))
         /\ lost' = IF failed THEN lost \cup {batch[i] : i \in 1..Len(batch)} ELSE lost
  /\ batch' = <<>> /\ pump' = "ended"
  /\ UNCHANGED <<state, queue, answer, physical, wedged, wakeups, call>>

\* the finally of runPump; those who wait for it resume
PumpEnd ==
  /\ pump = "ended" /\ micro = 0
  /\ pump' = "none" /\ UNCHANGED physical
  /\ IF delayed /\ state = "running"
     THEN IF physical THEN UNCHANGED <<delayed, wakeups>>
          ELSE delayed' = FALSE /\ SchedulePump(TRUE)
     ELSE UNCHANGED delayed /\ SchedulePump(FALSE)
  /\ call' = [c \in Callers |-> IF call[c].at = "wait" THEN [call[c] EXCEPT !.at = "resumed"]
                                ELSE call[c]]
  /\ UNCHANGED <<state, queue, batch, answer, wedged, count, lost>>

---------------------------------------------------------------------------
(* flush and shutdown *)
ClearBackoff == scheduled' = FALSE /\ timer' = FALSE /\ UNCHANGED micro
Clean(mark) == count.firstFailed = 0 \/ count.firstFailed > mark
Verdict(ok) == IF ok THEN "true" ELSE "false"

(* A call of flush(); a stopped buffer answers at once, by its queue and what  *)
(* failed so far: "clear" says nothing of a batch that another flush has out.  *)

Flush(c) ==
  /\ Quiet /\ call[c].at = "idle"
  /\ IF state = "stopped"
     THEN /\ call' = [call EXCEPT ![c] = [at |-> IF queue = <<>> /\ Clean(count.accepted) THEN "clear" ELSE "false",
                                          mark |-> count.accepted, failures |-> 0]]
          /\ UNCHANGED wakeups
     ELSE /\ call' = [call EXCEPT ![c] = [at |-> "loop", mark |-> count.accepted, failures |-> 0]]
          /\ ClearBackoff
  /\ UNCHANGED <<state, queue, batch, pump, answer, physical, wedged, delayed, count, lost>>

Shutdown ==
  /\ Quiet /\ state = "running"
  /\ state' = "stopping"
  /\ call' = [call EXCEPT ![Stopper] = [at |-> "loop", mark |-> count.accepted, failures |-> 0]]
  /\ ClearBackoff
  /\ UNCHANGED <<queue, batch, pump, answer, physical, wedged, delayed, count, lost>>

\* this.#wedged || this.#physicalExportPromise && !this.#pumpPromise
Hung == wedged \/ (physical /\ pump = "none")

(* flushWithin: one round of its loop, up to the await of the pump *)
FlushLoop(c) ==
  /\ call[c].at = "loop"
  /\ UNCHANGED <<state, answer, wedged, wakeups, delayed, count, lost>>
  /\ \/ /\ count.settled >= call[c].mark
        /\ call' = [call EXCEPT ![c].at = Verdict(Clean(call[c].mark))]
        /\ UNCHANGED <<pump, queue, batch, physical>>
     \/ /\ count.settled < call[c].mark /\ Hung
        /\ call' = [call EXCEPT ![c].at = "false"]
        /\ UNCHANGED <<pump, queue, batch, physical>>
     \/ /\ count.settled < call[c].mark /\ ~Hung
        /\ call' = [call EXCEPT ![c].at = "wait", ![c].failures = count.failures]
        /\ IF pump = "none" /\ ~physical THEN StartPump
           ELSE UNCHANGED <<pump, queue, batch, physical>>

\* the pump it waited for has ended; the deadline may have passed as well
FlushResumes(c) ==
  /\ call[c].at = "resumed"
  /\ \/ call[c].failures = count.failures /\ call' = [call EXCEPT ![c].at = "loop"]
     \/ count.settled < call[c].mark /\ call' = [call EXCEPT ![c].at = "false"]
     \/ call[c].failures < count.failures /\ call' = [call EXCEPT ![c].at = "false"]
  /\ UNCHANGED <<state, queue, batch, pump, answer, physical, wedged, wakeups, delayed, count, lost>>

\* finishShutdown, once the flush is over; the exporter's own shutdown is bounded
ShutdownDone ==
  /\ state = "stopping" /\ call[Stopper].at \in Returned
  /\ state' = "stopped"
  /\ UNCHANGED <<queue, batch, pump, answer, physical, wedged, wakeups, delayed, count, call, lost>>

---------------------------------------------------------------------------
(* What the event loop runs without anybody's help. *)
Progress ==
  \/ Wakeup \/ Timeout \/ Settle \/ PumpEnd \/ ShutdownDone
  \/ \E c \in Callers : FlushLoop(c) \/ FlushResumes(c)

Next ==
  \/ Record \/ Answer \/ LateAnswer \/ Progress
  \/ \E c \in Flushers : Flush(c)
  \/ Shutdown

Spec == Init /\ [][Next]_vars /\ WF_vars(Progress)

---------------------------------------------------------------------------
(* Properties *)

(* Every accepted record is queued, in flight, exported or dropped, and counted *)
(* once, whatever times out or settles late (drainOne, status).                *)
LedgerExact ==
  count.accepted = Len(queue) + Len(batch) + count.exported + count.dropped

(* A flush that returned true, asked before the buffer stopped, vouches for     *)
(* every record accepted before it was called: all were taken, in time, by an   *)
(* export that did not fail; a wedge is an exporter that is still at it         *)
(* (flushWithin, #firstFailedSequence, #settledThrough).                        *)
FlushHonest ==
  /\ \A c \in Callers :
       call[c].at = "true" =>
         count.settled >= call[c].mark /\ \A s \in lost : s > call[c].mark
  /\ wedged => physical

(* No wakeup gets lost between timeout, late settlement, flush and timer: what *)
(* a running buffer holds is on its way out, or waits for a pump that is        *)
(* scheduled or for an exporter that has not let go (schedulePump, clearBackoff). *)
Awake ==
  state = "running" /\ queue # <<>> =>
    \/ pump # "none" \/ physical
    \/ scheduled /\ (micro > 0 \/ timer)
    \/ \E c \in Callers : call[c].at = "loop"

(* A flush and a shutdown return though the exporter hangs (flushWithin).       *)
AllReturned == state # "stopping" /\ \A c \in Callers : call[c].at \in {"idle"} \cup Returned
CallsReturn == []<>AllReturned
=============================================================================
