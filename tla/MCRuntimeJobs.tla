--------------------------- MODULE MCRuntimeJobs ---------------------------
(***************************************************************************)
(* Instances of RuntimeJobs for TLC: the kinds of task each run submits.   *)
(***************************************************************************)
EXTENDS RuntimeJobs, TLC

Plain == [retrySafe |-> FALSE, recoverable |-> TRUE, protected |-> FALSE,
          approval |-> FALSE, graceful |-> FALSE, fenced |-> FALSE]

RetrySafe == [Plain EXCEPT !.retrySafe = TRUE]          \* web.fetch
Unsafe == Plain                                         \* workspace.write
Volatile == [Plain EXCEPT !.recoverable = FALSE]        \* input kept in memory only
Channel == [Plain EXCEPT !.protected = TRUE]            \* agent.run of a channel
Approved == [Plain EXCEPT !.approval = TRUE]            \* a tool that asks first
Process == [Approved EXCEPT !.graceful = TRUE]          \* process.exec
Delegate == [Plain EXCEPT !.fenced = TRUE]              \* agent.delegate

RetryKinds == {RetrySafe}
UnsafeKinds == {Unsafe}
VolatileKinds == {Volatile, [RetrySafe EXCEPT !.recoverable = FALSE]}
ChannelKinds == {Channel}
ApprovalKinds == {Approved, [Approved EXCEPT !.recoverable = FALSE]}
ProcessKinds == {Process, Delegate}
AllKinds == RetryKinds \cup UnsafeKinds \cup VolatileKinds \cup ChannelKinds
            \cup ApprovalKinds \cup ProcessKinds

Identical == Permutations(Jobs)
=============================================================================
