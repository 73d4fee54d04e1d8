------------------------------- MODULE Daemon -------------------------------
(***************************************************************************)
(* A storage daemon as the controller meets it: a table of tasks kept in   *)
(* memory (tasks/threaded.py), an engine that moves the data and can be    *)
(* stopped (engines/rsync.py), and reports that carry a sequence number    *)
(* per transfer (clients/events.py).  Nothing here survives a restart.     *)
(*                                                                         *)
(* A report that reaches the controller becomes a member of events, from   *)
(* which the handler takes it; one that does not is logged and forgotten.  *)
(***************************************************************************)
EXTENDS Integers, Rules

CONSTANTS
    Transfers,      \* ids of transfer rows
    NoTransfer,     \* stands for no transfer at all
    TaskIds,        \* the task numbers one run of the daemon may hand out
    Failures,       \* the failure classes the engine may end with
    MaxReports      \* bound: no progress reports past this sequence number

ASSUME NoTransferAssumption == NoTransfer \notin Transfers
ASSUME TaskIdsAssumption == TaskIds \subseteq Nat \ {0}
ASSUME FailuresAssumption == Failures \subseteq FailureClasses
ASSUME MaxReportsAssumption == MaxReports \in Nat

VARIABLES
    task,           \* TaskIds -> what the daemon knows of the task
    reported,       \* Transfers -> the last sequence number it gave a report
    events          \* reports on their way to the controller

daemonVars == <<task, reported, events>>

TaskStates == {"IDLE", "SUBMITTED", "RUNNING", "SUCCEEDED", "FAILED"}

NoFailure == "none"

Task ==
    [of: Transfers \cup {NoTransfer}, state: TaskStates,
     failure: FailureClasses \cup {NoFailure}, stop: BOOLEAN]

EventKinds == {"started", "progress", "finished", "failed"}

Event ==
    [t: Transfers, seq: Nat \ {0}, kind: EventKinds,
     failure: FailureClasses \cup {NoFailure}]

DaemonTypeOK ==
    /\ task \in [TaskIds -> Task]
    /\ reported \in [Transfers -> Nat]
    /\ events \subseteq Event

NoTask ==
    [of |-> NoTransfer, state |-> "IDLE", failure |-> NoFailure, stop |-> FALSE]

Idle(k) == task[k].state = "IDLE"

\* The engine is moving data for this task, or will as soon as a thread is free.
Live(k) == task[k].state \in {"SUBMITTED", "RUNNING"}

LiveFor(t) == {k \in TaskIds : Live(k) /\ task[k].of = t}

-----------------------------------------------------------------------------
DaemonInit ==
    /\ task = [k \in TaskIds |-> NoTask]
    /\ reported = [t \in Transfers |-> 0]
    /\ events = {}

\* Mutant: the numbers start again with every task.
ReportPerTask(t, kind, failure, heard) ==
    /\ reported' = [reported EXCEPT ![t] =
                       IF kind \in {"finished", "failed"} THEN 0 ELSE @ + 1]
    /\ events' =
         IF heard
         THEN events \cup {[t |-> t, seq |-> reported[t] + 1, kind |-> kind,
                            failure |-> failure]}
         ELSE events

\* A report takes the next number whether or not anybody hears it.
Report(t, kind, failure, heard) ==
    /\ reported' = [reported EXCEPT ![t] = @ + 1]
    /\ events' =
         IF heard
         THEN events \cup {[t |-> t, seq |-> reported[t] + 1, kind |-> kind,
                            failure |-> failure]}
         ELSE events

\* Mutant: the number of a task that has ended is handed out again.
TaskSubmitReused(t, k) ==
    /\ ~Live(k)
    /\ task' = [task EXCEPT ![k] = [NoTask EXCEPT !.of = t, !.state = "SUBMITTED"]]

\* Task numbers are handed out in order.
TaskSubmit(t, k) ==
    /\ Idle(k)
    /\ \A j \in TaskIds : j < k => ~Idle(j)
    /\ task' = [task EXCEPT ![k] = [NoTask EXCEPT !.of = t, !.state = "SUBMITTED"]]

\* A thread takes the task: it says so, then starts moving data.
TaskRun(k, heard) ==
    /\ task[k].state = "SUBMITTED"
    /\ Report(task[k].of, "started", NoFailure, heard)
    /\ task' = [task EXCEPT ![k].state = "RUNNING"]

TaskProgress(k, heard) ==
    /\ task[k].state = "RUNNING"
    /\ reported[task[k].of] < MaxReports
    /\ Report(task[k].of, "progress", NoFailure, heard)
    /\ UNCHANGED task

TaskSucceed(k, heard) ==
    /\ task[k].state = "RUNNING"
    /\ ~task[k].stop
    /\ Report(task[k].of, "finished", NoFailure, heard)
    /\ task' = [task EXCEPT ![k].state = "SUCCEEDED"]

\* A stop that was asked for decides the class however the engine ended, unless the
\* engine could not even be started.
TaskFail(k, failure, heard) ==
    /\ task[k].state = "RUNNING"
    /\ failure \in IF task[k].stop THEN {"cancelled"} \cup (Failures \cap {"internal"})
                                 ELSE Failures
    /\ Report(task[k].of, "failed", failure, heard)
    /\ task' = [task EXCEPT ![k].state = "FAILED", ![k].failure = failure]

\* Marks the task and stops the engine if it has begun; a task still waiting for
\* a thread runs to its end all the same, and is then reported as cancelled.
TaskAbort(k) ==
    task' = [task EXCEPT ![k].stop = @ \/ Live(k)]

\* The process is gone, with its table, its counters and what it was moving.
DaemonRestart ==
    /\ task' = [k \in TaskIds |-> NoTask]
    /\ reported' = [t \in Transfers |-> 0]
    /\ UNCHANGED events
=============================================================================
