----------------------------- MODULE TaskRunner ------------------------------
(***************************************************************************)
(* Inside a storage daemon: a pool of threads that takes tasks in the      *)
(* order they came (tasks/threaded.py), the rsync process of each          *)
(* (engines/rsync.py), requests that stop a task, and the drain of a       *)
(* daemon that is shut down.                                               *)
(*                                                                         *)
(* The steps of a thread are cut wherever another thread can look: at the  *)
(* locks, at the process and at each report.  A daemon drains after its    *)
(* last request has been answered, so nothing is submitted or stopped      *)
(* beside a drain.  Marks for tasks that have ended are never looked at    *)
(* and are left out, as is taking a mark back.                             *)
(***************************************************************************)
EXTENDS Integers, FiniteSets, FiniteSetsExt, Rules

CONSTANTS
    Transfers,      \* ids of transfer rows
    NoTransfer,     \* stands for no transfer at all
    TaskIds,        \* the task numbers one run of the daemon may hand out
    Failures,       \* the failure classes a transfer may end with
    MaxReports,     \* bound: no progress reports past this sequence number
    PoolSize        \* worker_pool_size

ASSUME PoolSizeAssumption == PoolSize \in Nat \ {0}
ASSUME NoTransferAssumption == NoTransfer \notin Transfers
ASSUME TaskIdsAssumption == TaskIds \subseteq Nat \ {0} /\ IsFiniteSet(TaskIds)
ASSUME FailuresAssumption == Failures \subseteq FailureClasses
ASSUME MaxReportsAssumption == MaxReports \in Nat

VARIABLES
    of,             \* TaskIds -> the transfer it carries out
    at,             \* TaskIds -> how far its thread is
    known,          \* TaskIds -> what the table answers a request
    process,        \* TaskIds -> its rsync, or how that ended
    outcome,        \* TaskIds -> what execute_transfer returned
    cancelled,      \* tasks marked to be stopped
    reported,       \* Transfers -> the last sequence number given a report
    told,           \* tasks whose end has been reported, by whomever
    drain,          \* how far the shutdown is
    left            \* tasks the drain has still to look at

tableVars == <<of, known>>
drainVars == <<drain, left>>
vars == <<tableVars, at, process, outcome, cancelled, reported, told, drainVars>>

\* Where a thread that holds a task may be.
Busy == {"launching", "launched", "moving", "collected", "settled"}

Places == {"none", "queued", "ended", "dropped"} \cup Busy

TypeOK ==
    /\ of \in [TaskIds -> Transfers \cup {NoTransfer}]
    /\ at \in [TaskIds -> Places]
    /\ known \in [TaskIds -> {"IDLE", "SUBMITTED", "RUNNING", "SUCCEEDED", "FAILED"}]
    /\ process \in [TaskIds -> {"none", "alive", "killed", "ok"} \cup Failures]
    /\ outcome \in [TaskIds -> {"none", "ok"} \cup FailureClasses]
    /\ cancelled \subseteq TaskIds
    /\ reported \in [Transfers -> Nat]
    /\ told \subseteq TaskIds
    /\ drain \in {"open", "waiting", "cutting", "telling", "shut"}
    /\ left \subseteq TaskIds
    \* Whoever is at work works on something.
    /\ \A k \in TaskIds : of[k] = NoTransfer <=> at[k] = "none"

Init ==
    /\ of = [k \in TaskIds |-> NoTransfer]
    /\ at = [k \in TaskIds |-> "none"]
    /\ known = [k \in TaskIds |-> "IDLE"]
    /\ process = [k \in TaskIds |-> "none"]
    /\ outcome = [k \in TaskIds |-> "none"]
    /\ cancelled = {}
    /\ reported = [t \in Transfers |-> 0]
    /\ told = {}
    /\ drain = "open"
    /\ left = {}

-----------------------------------------------------------------------------
(* Requests.                                                               *)

Submit(t, k) ==
    /\ drain = "open"
    /\ at[k] = "none"
    /\ \A j \in TaskIds : j < k => at[j] # "none"
    /\ of' = [of EXCEPT ![k] = t]
    /\ at' = [at EXCEPT ![k] = "queued"]
    /\ known' = [known EXCEPT ![k] = "SUBMITTED"]
    /\ UNCHANGED <<process, outcome, cancelled, reported, told, drainVars>>

\* RsyncEngine.cancel: what is not registered is marked, and nothing more.
Stop(k) ==
    /\ cancelled' = IF at[k] \in {"collected", "settled", "ended"} THEN cancelled
                    ELSE cancelled \cup {k}
    /\ process' = IF at[k] = "moving" /\ process[k] = "alive"
                  THEN [process EXCEPT ![k] = "killed"] ELSE process

Abort(k) ==
    /\ drain = "open"
    /\ at[k] # "none"
    /\ Stop(k)
    /\ UNCHANGED <<tableVars, at, outcome, reported, told, drainVars>>

-----------------------------------------------------------------------------
(* A thread and its process.                                               *)

Say(t) == reported' = [reported EXCEPT ![t] = @ + 1]

Move(k, from, to) ==
    /\ at[k] = from
    /\ at' = [at EXCEPT ![k] = to]

\* The pool takes tasks in the order they came, while it has a thread to spare.
\* The thread says so and marks the table, which nobody compares in between.
Begin(k) ==
    /\ Move(k, "queued", "launching")
    /\ \A j \in TaskIds : j < k => at[j] # "queued"
    /\ Cardinality({j \in TaskIds : at[j] \in Busy}) < PoolSize
    /\ Say(of[k])
    /\ known' = [known EXCEPT ![k] = "RUNNING"]
    /\ UNCHANGED <<of, process, outcome, cancelled, told, drainVars>>

Launch(k) ==
    /\ Move(k, "launching", "launched")
    /\ process' = [process EXCEPT ![k] = "alive"]
    /\ UNCHANGED <<tableVars, outcome, cancelled, reported, told, drainVars>>

\* The source is refused, or no process can be had.
LaunchFails(k) ==
    /\ "internal" \in Failures
    /\ Move(k, "launching", "collected")
    /\ outcome' = [outcome EXCEPT ![k] = "internal"]
    /\ UNCHANGED <<tableVars, process, cancelled, reported, told, drainVars>>

Register(k) ==
    /\ Move(k, "launched", "moving")
    /\ UNCHANGED <<tableVars, process, outcome, cancelled, reported, told, drainVars>>

\* Numbers taken, counting the end of a task as said once it has been collected.
Promised(t) ==
    reported[t] +
    Cardinality({k \in TaskIds : of[k] = t /\ at[k] \in {"collected", "settled"}})

Progress(k) ==
    /\ at[k] = "moving"
    /\ Promised(of[k]) < MaxReports
    /\ Say(of[k])
    /\ UNCHANGED <<tableVars, at, process, outcome, cancelled, told, drainVars>>

Exit(k) ==
    /\ process[k] = "alive"
    /\ \E how \in {"ok"} \cup Failures : process' = [process EXCEPT ![k] = how]
    /\ UNCHANGED <<tableVars, at, outcome, cancelled, reported, told, drainVars>>

\* Mutant: the output has ended, so the process is taken to have.
CollectEarly(k) ==
    /\ Move(k, "moving", "collected")
    /\ outcome' = [outcome EXCEPT ![k] =
                     IF k \in cancelled THEN "cancelled"
                     ELSE IF process[k] = "alive" THEN "ok" ELSE process[k]]
    /\ UNCHANGED <<tableVars, process, cancelled, reported, told, drainVars>>

\* Mutant: a stop is believed only of a process that failed.
CollectExit(k) ==
    /\ process[k] # "alive"
    /\ Move(k, "moving", "collected")
    /\ outcome' = [outcome EXCEPT ![k] =
                     IF process[k] = "killed" THEN "cancelled" ELSE process[k]]
    /\ UNCHANGED <<tableVars, process, cancelled, reported, told, drainVars>>

\* The process is waited for; whether it was to be stopped decides before its exit.
Collect(k) ==
    /\ process[k] # "alive"
    /\ Move(k, "moving", "collected")
    /\ outcome' = [outcome EXCEPT ![k] =
                     IF k \in cancelled THEN "cancelled" ELSE process[k]]
    /\ UNCHANGED <<tableVars, process, cancelled, reported, told, drainVars>>

Settle(k) ==
    /\ Move(k, "collected", "settled")
    /\ known' = [known EXCEPT ![k] = IF outcome[k] = "ok" THEN "SUCCEEDED" ELSE "FAILED"]
    /\ UNCHANGED <<of, process, outcome, cancelled, reported, told, drainVars>>

SayEnd(k) ==
    /\ Move(k, "settled", "ended")
    /\ Say(of[k])
    /\ told' = told \cup {k}
    /\ UNCHANGED <<tableVars, process, outcome, cancelled, drainVars>>

ThreadStep(k) ==
    \/ Begin(k)
    \/ Launch(k) \/ LaunchFails(k) \/ Register(k)
    \/ Collect(k) \/ Settle(k) \/ SayEnd(k)

-----------------------------------------------------------------------------
(* The drain.                                                              *)

DrainBegins ==
    /\ drain = "open"
    /\ drain' = "waiting"
    /\ UNCHANGED <<tableVars, at, process, outcome, cancelled, reported, told, left>>

\* Everything has ended, or time is up.
DrainWaited ==
    /\ drain = "waiting"
    /\ drain' = "cutting"
    /\ left' = {k \in TaskIds : at[k] # "none"}
    /\ UNCHANGED <<tableVars, at, process, outcome, cancelled, reported, told>>

DrainSpares(k) ==
    /\ drain = "cutting"
    /\ k = Min(left)
    /\ at[k] = "ended"
    /\ left' = left \ {k}
    /\ UNCHANGED <<tableVars, at, process, outcome, cancelled, reported, told, drain>>

\* Mutant: only what a process moves is cut off.
CutOffMoving(k) ==
    /\ drain = "cutting"
    /\ k = Min(left)
    /\ at[k] # "ended"
    /\ Stop(k)
    /\ drain' = IF at[k] = "moving" THEN "telling" ELSE "cutting"
    /\ left' = IF at[k] = "moving" THEN left ELSE left \ {k}
    /\ UNCHANGED <<tableVars, at, outcome, reported, told>>

CutOff(k) ==
    /\ drain = "cutting"
    /\ k = Min(left)
    /\ at[k] # "ended"
    /\ Stop(k)
    /\ drain' = "telling"
    /\ UNCHANGED <<tableVars, at, outcome, reported, told, left>>

SayCutOff(k) ==
    /\ drain = "telling"
    /\ k = Min(left)
    /\ known' = [known EXCEPT ![k] = "FAILED"]
    /\ Say(of[k])
    /\ told' = told \cup {k}
    /\ left' = left \ {k}
    /\ drain' = "cutting"
    /\ UNCHANGED <<of, at, process, outcome, cancelled>>

\* What no thread has taken by now never will be.
PoolShut ==
    /\ drain = "cutting"
    /\ left = {}
    /\ drain' = "shut"
    /\ at' = [k \in TaskIds |-> IF at[k] = "queued" THEN "dropped" ELSE at[k]]
    /\ UNCHANGED <<tableVars, process, outcome, cancelled, reported, told, left>>

DrainStep ==
    \/ DrainWaited
    \/ \E k \in left : DrainSpares(k) \/ CutOff(k) \/ SayCutOff(k)
    \/ PoolShut

Next ==
    \/ \E k \in TaskIds :
         \/ \E t \in Transfers : Submit(t, k)
         \/ Abort(k)
         \/ ThreadStep(k) \/ Progress(k) \/ Exit(k)
    \/ DrainBegins \/ DrainStep

Spec == Init /\ [][Next]_vars

(***************************************************************************)
(* Threads and the drain are scheduled, and an rsync ends some day.  That  *)
(* is an assumption: until its stdout closes it has no time limit, and its *)
(* stderr is a pipe nobody reads before then (_collect), so that an rsync  *)
(* that fills it waits for ever.                                           *)
(***************************************************************************)
Fairness ==
    /\ \A k \in TaskIds : WF_vars(ThreadStep(k)) /\ WF_vars(Exit(k))
    /\ WF_vars(DrainStep)

FairSpec == Spec /\ Fairness

-----------------------------------------------------------------------------
(* Properties.                                                             *)

\* A task as Daemon has it: it runs from its first report, and ends when its
\* process has been waited for, with the last report as good as sent.
TaskSeen(k) ==
    [of |-> of[k],
     state |-> CASE at[k] = "none" -> "IDLE"
                 [] at[k] \in {"queued", "dropped"} -> "SUBMITTED"
                 [] at[k] \in {"launching", "launched", "moving"} -> "RUNNING"
                 [] OTHER -> IF outcome[k] = "ok" THEN "SUCCEEDED" ELSE "FAILED",
     failure |-> IF outcome[k] = "ok" THEN "none" ELSE outcome[k],
     stop |-> k \in cancelled]

TasksSeen == [k \in TaskIds |-> TaskSeen(k)]

ReportsSeen == [t \in Transfers |-> Promised(t)]

D == INSTANCE Daemon WITH task <- TasksSeen, reported <- ReportsSeen, events <- {}

\* What Controller lets a daemon do, and the reports of a drain besides.
DaemonNext ==
    \/ \E k \in TaskIds :
         \/ \E t \in Transfers : D!TaskSubmit(t, k) /\ UNCHANGED ReportsSeen
         \/ D!TaskAbort(k) /\ UNCHANGED ReportsSeen
         \/ D!TaskRun(k, FALSE) \/ D!TaskProgress(k, FALSE) \/ D!TaskSucceed(k, FALSE)
         \/ \E failure \in FailureClasses : D!TaskFail(k, failure, FALSE)
    \/ \E t \in Transfers :
         D!Report(t, "failed", "daemon_shutdown", FALSE) /\ UNCHANGED TasksSeen

\* The pool, its processes and their locks carry out what the controller's model
\* takes a daemon to do: one end for each task, and "cancelled" for what was stopped.
ImplementsDaemon == D!DaemonInit /\ [][DaemonNext]_(D!daemonVars)

\* Nothing moves for a task that the table, or a report, says has ended, until a
\* drain cuts tasks off.
EndedMovesNothing ==
    drain \in {"open", "waiting"} =>
      \A k \in TaskIds :
        known[k] \in {"SUCCEEDED", "FAILED"} \/ k \in told => process[k] # "alive"

\* The controller is told of the end of every task, whatever is cut off.
EveryEndIsTold == \A k \in TaskIds : at[k] = "queued" ~> k \in told
=============================================================================
