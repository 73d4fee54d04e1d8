-------------------------- MODULE TaskRunnerProofs --------------------------
(***************************************************************************)
(* What is proved of TaskRunner, for every number of tasks, transfers and  *)
(* threads: its types, that nothing moves for a task that has ended until  *)
(* a drain cuts tasks off, and that threads, processes and drain together  *)
(* carry out Daemon, the one thing Controller knows of them.               *)
(***************************************************************************)
EXTENDS TaskRunner, FiniteSetTheorems, TLAPS

USE PoolSizeAssumption, NoTransferAssumption, TaskIdsAssumption,
    FailuresAssumption, MaxReportsAssumption

\* A thread that has not yet learnt how its task ended.
Undecided == {"none", "queued", "dropped", "launching", "launched", "moving"}

\* What one task is, whatever the others and the drain do.  A process lives only
\* between its launch and its end being collected, which is registered with a
\* process that was started, and is killed only once the task is marked.
TaskSound(k) ==
    /\ at[k] \in Undecided <=> outcome[k] = "none"
    /\ process[k] = "alive" => at[k] \in {"launched", "moving"}
    /\ at[k] \in {"launched", "moving"} => process[k] # "none"
    /\ process[k] = "killed" => k \in cancelled
    /\ k \in cancelled \cup left \cup told => at[k] # "none"

\* Until a drain cuts tasks off, the table and the reports follow the threads.
ToldInTime(k) ==
    drain \in {"open", "waiting"} =>
      /\ known[k] \in {"SUCCEEDED", "FAILED"} => at[k] \in {"settled", "ended"}
      /\ k \in told => at[k] = "ended"

\* The inductive invariant: types, and what each task is.
Inv == TypeOK /\ \A k \in TaskIds : TaskSound(k) /\ ToldInTime(k)

\* Every task is what it should be at the start.
LEMMA InitInv == Init => Inv
<1> SUFFICES ASSUME Init PROVE Inv
  OBVIOUS
<1>1. TypeOK
  BY DEF Init, TypeOK, Places, Busy
<1>2. \A k \in TaskIds : TaskSound(k) /\ ToldInTime(k)
  BY DEF Init, TaskSound, ToldInTime, Undecided
<1> QED
  BY <1>1, <1>2 DEF Inv

\* A task is handed out.
LEMMA SubmitInv ==
    ASSUME Inv, NEW k \in TaskIds, NEW t \in Transfers, Submit(t, k)
    PROVE  Inv'
<1>1. TypeOK'
  BY DEF Submit, Inv, TypeOK, Places, Busy, tableVars, drainVars
<1>2. ASSUME NEW j \in TaskIds PROVE TaskSound(j)' /\ ToldInTime(j)'
  <2>1. TaskSound(j) /\ ToldInTime(j)
    BY DEF Inv
  <2> QED
    BY <2>1 DEF Submit, Inv, TypeOK, TaskSound, ToldInTime, Undecided, tableVars,
                drainVars
<1> QED
  BY <1>1, <1>2 DEF Inv

\* A request stops a task.
LEMMA AbortInv ==
    ASSUME Inv, NEW k \in TaskIds, Abort(k)
    PROVE  Inv'
<1>1. TypeOK'
  BY DEF Abort, Stop, Inv, TypeOK, Places, Busy, tableVars, drainVars
<1>2. ASSUME NEW j \in TaskIds PROVE TaskSound(j)' /\ ToldInTime(j)'
  <2>1. TaskSound(j) /\ ToldInTime(j)
    BY DEF Inv
  <2> QED
    BY <2>1 DEF Abort, Stop, Inv, TypeOK, TaskSound, ToldInTime, Undecided, tableVars,
                drainVars
<1> QED
  BY <1>1, <1>2 DEF Inv

\* A thread takes a task.
LEMMA BeginInv ==
    ASSUME Inv, NEW k \in TaskIds, Begin(k)
    PROVE  Inv'
<1>1. TypeOK'
  BY DEF Begin, Move, Say, Inv, TypeOK, Places, Busy, tableVars, drainVars
<1>2. ASSUME NEW j \in TaskIds PROVE TaskSound(j)' /\ ToldInTime(j)'
  <2>1. TaskSound(j) /\ ToldInTime(j)
    BY DEF Inv
  <2> QED
    BY <2>1 DEF Begin, Move, Say, Inv, TypeOK, TaskSound, ToldInTime, Undecided, tableVars,
                drainVars
<1> QED
  BY <1>1, <1>2 DEF Inv

\* The process of a task is started.
LEMMA LaunchInv ==
    ASSUME Inv, NEW k \in TaskIds, Launch(k)
    PROVE  Inv'
<1>1. TypeOK'
  BY DEF Launch, Move, Inv, TypeOK, Places, Busy, tableVars, drainVars
<1>2. ASSUME NEW j \in TaskIds PROVE TaskSound(j)' /\ ToldInTime(j)'
  <2>1. TaskSound(j) /\ ToldInTime(j)
    BY DEF Inv
  <2> QED
    BY <2>1 DEF Launch, Move, Inv, TypeOK, TaskSound, ToldInTime, Undecided, tableVars,
                drainVars
<1> QED
  BY <1>1, <1>2 DEF Inv

\* No process can be had.
LEMMA LaunchFailsInv ==
    ASSUME Inv, NEW k \in TaskIds, LaunchFails(k)
    PROVE  Inv'
<1>1. TypeOK'
  BY DEF LaunchFails, Move, FailureClasses, Inv, TypeOK, Places, Busy, tableVars, drainVars
<1>2. ASSUME NEW j \in TaskIds PROVE TaskSound(j)' /\ ToldInTime(j)'
  <2>1. TaskSound(j) /\ ToldInTime(j)
    BY DEF Inv
  <2> QED
    BY <2>1 DEF LaunchFails, Move, Inv, TypeOK, TaskSound, ToldInTime, Undecided, tableVars,
                drainVars
<1> QED
  BY <1>1, <1>2 DEF Inv

\* The process is made known to those who stop tasks.
LEMMA RegisterInv ==
    ASSUME Inv, NEW k \in TaskIds, Register(k)
    PROVE  Inv'
<1>1. TypeOK'
  BY DEF Register, Move, Inv, TypeOK, Places, Busy, tableVars, drainVars
<1>2. ASSUME NEW j \in TaskIds PROVE TaskSound(j)' /\ ToldInTime(j)'
  <2>1. TaskSound(j) /\ ToldInTime(j)
    BY DEF Inv
  <2> QED
    BY <2>1 DEF Register, Move, Inv, TypeOK, TaskSound, ToldInTime, Undecided, tableVars,
                drainVars
<1> QED
  BY <1>1, <1>2 DEF Inv

\* A process moves on.
LEMMA ProgressInv ==
    ASSUME Inv, NEW k \in TaskIds, Progress(k)
    PROVE  Inv'
<1>1. TypeOK'
  BY DEF Progress, Say, Inv, TypeOK, Places, Busy, tableVars, drainVars
<1>2. ASSUME NEW j \in TaskIds PROVE TaskSound(j)' /\ ToldInTime(j)'
  <2>1. TaskSound(j) /\ ToldInTime(j)
    BY DEF Inv
  <2> QED
    BY <2>1 DEF Progress, Say, Inv, TypeOK, TaskSound, ToldInTime, Undecided, tableVars,
                drainVars
<1> QED
  BY <1>1, <1>2 DEF Inv

\* A process ends.
LEMMA ExitInv ==
    ASSUME Inv, NEW k \in TaskIds, Exit(k)
    PROVE  Inv'
<1>1. TypeOK'
  BY DEF Exit, FailureClasses, Inv, TypeOK, Places, Busy, tableVars, drainVars
<1>2. ASSUME NEW j \in TaskIds PROVE TaskSound(j)' /\ ToldInTime(j)'
  <2>1. TaskSound(j) /\ ToldInTime(j)
    BY DEF Inv
  <2> QED
    BY <2>1 DEF Exit, FailureClasses, Inv, TypeOK, TaskSound, ToldInTime, Undecided, tableVars,
                drainVars
<1> QED
  BY <1>1, <1>2 DEF Inv

\* A process is waited for; what killed it was a stop.
LEMMA CollectInv ==
    ASSUME Inv, NEW k \in TaskIds, Collect(k)
    PROVE  Inv'
<1>1. TypeOK'
  <2>1. process[k] \in {"killed", "ok"} \cup Failures /\ TaskSound(k)
    BY DEF Collect, Move, Inv, TypeOK, TaskSound
  <2>2. (IF k \in cancelled THEN "cancelled" ELSE process[k])
           \in {"ok"} \cup FailureClasses
    BY <2>1 DEF TaskSound, FailureClasses
  <2> QED
    BY <2>2 DEF Collect, Move, Inv, TypeOK, Places, Busy, tableVars, drainVars
<1>2. ASSUME NEW j \in TaskIds PROVE TaskSound(j)' /\ ToldInTime(j)'
  <2>1. TaskSound(j) /\ ToldInTime(j)
    BY DEF Inv
  <2> QED
    BY <2>1 DEF Collect, Move, Inv, TypeOK, TaskSound, ToldInTime, Undecided, tableVars,
                drainVars
<1> QED
  BY <1>1, <1>2 DEF Inv

\* The table learns how a task ended.
LEMMA SettleInv ==
    ASSUME Inv, NEW k \in TaskIds, Settle(k)
    PROVE  Inv'
<1>1. TypeOK'
  BY DEF Settle, Move, Inv, TypeOK, Places, Busy, tableVars, drainVars
<1>2. ASSUME NEW j \in TaskIds PROVE TaskSound(j)' /\ ToldInTime(j)'
  <2>1. TaskSound(j) /\ ToldInTime(j)
    BY DEF Inv
  <2> QED
    BY <2>1 DEF Settle, Move, Inv, TypeOK, TaskSound, ToldInTime, Undecided, tableVars,
                drainVars
<1> QED
  BY <1>1, <1>2 DEF Inv

\* The end of a task is reported.
LEMMA SayEndInv ==
    ASSUME Inv, NEW k \in TaskIds, SayEnd(k)
    PROVE  Inv'
<1>1. TypeOK'
  BY DEF SayEnd, Move, Say, Inv, TypeOK, Places, Busy, tableVars, drainVars
<1>2. ASSUME NEW j \in TaskIds PROVE TaskSound(j)' /\ ToldInTime(j)'
  <2>1. TaskSound(j) /\ ToldInTime(j)
    BY DEF Inv
  <2> QED
    BY <2>1 DEF SayEnd, Move, Say, Inv, TypeOK, TaskSound, ToldInTime, Undecided, tableVars,
                drainVars
<1> QED
  BY <1>1, <1>2 DEF Inv

\* The daemon is told to go.
LEMMA DrainBeginsInv ==
    ASSUME Inv, DrainBegins
    PROVE  Inv'
<1>1. TypeOK'
  BY DEF DrainBegins, Inv, TypeOK, Places, Busy, tableVars, drainVars
<1>2. ASSUME NEW j \in TaskIds PROVE TaskSound(j)' /\ ToldInTime(j)'
  <2>1. TaskSound(j) /\ ToldInTime(j)
    BY DEF Inv
  <2> QED
    BY <2>1 DEF DrainBegins, Inv, TypeOK, TaskSound, ToldInTime, Undecided, tableVars,
                drainVars
<1> QED
  BY <1>1, <1>2 DEF Inv

\* The drain has waited long enough.
LEMMA DrainWaitedInv ==
    ASSUME Inv, DrainWaited
    PROVE  Inv'
<1>1. TypeOK'
  BY DEF DrainWaited, Inv, TypeOK, Places, Busy, tableVars, drainVars
<1>2. ASSUME NEW j \in TaskIds PROVE TaskSound(j)' /\ ToldInTime(j)'
  <2>1. TaskSound(j) /\ ToldInTime(j)
    BY DEF Inv
  <2> QED
    BY <2>1 DEF DrainWaited, Inv, TypeOK, TaskSound, ToldInTime, Undecided, tableVars,
                drainVars
<1> QED
  BY <1>1, <1>2 DEF Inv

\* The drain passes over a task that has ended.
LEMMA DrainSparesInv ==
    ASSUME Inv, NEW k \in left, DrainSpares(k)
    PROVE  Inv'
<1>1. TypeOK'
  BY DEF DrainSpares, Inv, TypeOK, Places, Busy, tableVars, drainVars
<1>2. ASSUME NEW j \in TaskIds PROVE TaskSound(j)' /\ ToldInTime(j)'
  <2>1. TaskSound(j) /\ ToldInTime(j)
    BY DEF Inv
  <2> QED
    BY <2>1 DEF DrainSpares, Inv, TypeOK, TaskSound, ToldInTime, Undecided, tableVars,
                drainVars
<1> QED
  BY <1>1, <1>2 DEF Inv

\* The drain stops a task.
LEMMA CutOffInv ==
    ASSUME Inv, NEW k \in left, CutOff(k)
    PROVE  Inv'
<1>1. TypeOK'
  BY DEF CutOff, Stop, Inv, TypeOK, Places, Busy, tableVars, drainVars
<1>2. ASSUME NEW j \in TaskIds PROVE TaskSound(j)' /\ ToldInTime(j)'
  <2>1. TaskSound(j) /\ ToldInTime(j)
    BY DEF Inv
  <2> QED
    BY <2>1 DEF CutOff, Stop, Inv, TypeOK, TaskSound, ToldInTime, Undecided, tableVars,
                drainVars
<1> QED
  BY <1>1, <1>2 DEF Inv

\* The drain reports a task it has stopped.
LEMMA SayCutOffInv ==
    ASSUME Inv, NEW k \in left, SayCutOff(k)
    PROVE  Inv'
<1>1. TypeOK'
  <2>1. k \in TaskIds /\ of[k] \in Transfers
    BY DEF Inv, TypeOK, TaskSound
  <2>2. known' \in [TaskIds -> {"IDLE", "SUBMITTED", "RUNNING", "SUCCEEDED", "FAILED"}]
    BY <2>1 DEF SayCutOff, Inv, TypeOK
  <2>3. reported' \in [Transfers -> Nat]
    BY <2>1 DEF SayCutOff, Say, Inv, TypeOK
  <2>4. told' \subseteq TaskIds /\ left' \subseteq TaskIds /\ drain' = "cutting"
    BY <2>1 DEF SayCutOff, Inv, TypeOK
  <2> QED
    BY <2>2, <2>3, <2>4 DEF SayCutOff, Inv, TypeOK
<1>2. ASSUME NEW j \in TaskIds PROVE TaskSound(j)' /\ ToldInTime(j)'
  <2>1. TaskSound(j) /\ ToldInTime(j)
    BY DEF Inv
  <2> QED
    BY <2>1 DEF SayCutOff, Say, Inv, TypeOK, TaskSound, ToldInTime, Undecided, tableVars,
                drainVars
<1> QED
  BY <1>1, <1>2 DEF Inv

\* What no thread has taken is dropped.
LEMMA PoolShutInv ==
    ASSUME Inv, PoolShut
    PROVE  Inv'
<1>1. TypeOK'
  BY DEF PoolShut, Inv, TypeOK, Places, Busy, tableVars, drainVars
<1>2. ASSUME NEW j \in TaskIds PROVE TaskSound(j)' /\ ToldInTime(j)'
  <2>1. TaskSound(j) /\ ToldInTime(j)
    BY DEF Inv
  <2> QED
    BY <2>1 DEF PoolShut, Inv, TypeOK, TaskSound, ToldInTime, Undecided, tableVars,
                drainVars
<1> QED
  BY <1>1, <1>2 DEF Inv

\* No step breaks the invariant.
LEMMA StepInv == Inv /\ [Next]_vars => Inv'
<1> SUFFICES ASSUME Inv, [Next]_vars PROVE Inv'
  OBVIOUS
<1>1. ASSUME NEW k \in TaskIds, NEW t \in Transfers, Submit(t, k) PROVE Inv'
  BY <1>1, SubmitInv
<1>2. ASSUME NEW k \in TaskIds, Abort(k) PROVE Inv'
  BY <1>2, AbortInv
<1>3. ASSUME NEW k \in TaskIds, ThreadStep(k) PROVE Inv'
  BY <1>3, BeginInv, LaunchInv, LaunchFailsInv, RegisterInv, CollectInv, SettleInv,
     SayEndInv DEF ThreadStep
<1>4. ASSUME NEW k \in TaskIds, Progress(k) \/ Exit(k) PROVE Inv'
  BY <1>4, ProgressInv, ExitInv
<1>5. CASE DrainBegins
  BY <1>5, DrainBeginsInv
<1>6. CASE DrainStep
  BY <1>6, DrainWaitedInv, DrainSparesInv, CutOffInv, SayCutOffInv, PoolShutInv
     DEF DrainStep
<1>7. CASE UNCHANGED vars
  BY <1>7 DEF Inv, TypeOK, TaskSound, ToldInTime, vars, tableVars, drainVars
<1> QED
  BY <1>1, <1>2, <1>3, <1>4, <1>5, <1>6, <1>7 DEF Next

\* Threads, processes and the drain keep their state well typed, and every task is
\* what it should be (tasks/threaded.py, engines/rsync.py).
THEOREM RunnerInvariant == Spec => []Inv
BY InitInv, StepInv, PTL DEF Spec

\* Nothing is moved for a task that the table or a report says has ended, until a
\* drain cuts tasks off: the table is written, and the report sent, only by a thread
\* that has waited for its process (engines/rsync.py execute_transfer).
THEOREM EndedMoveNothing == Spec => []EndedMovesNothing
<1>1. Inv => EndedMovesNothing
  BY DEF Inv, TaskSound, ToldInTime, EndedMovesNothing
<1> QED
  BY RunnerInvariant, <1>1, PTL

-----------------------------------------------------------------------------
(* The refinement.                                                         *)

\* A thread at work, and one that has learnt how its task ended.
Working == {"launching", "launched", "moving"}
Decided == {"collected", "settled", "ended"}

\* The tasks whose end is decided and not yet reported.
Owing(t) == {k \in TaskIds : of[k] = t /\ at[k] \in {"collected", "settled"}}

\* Reports are counted: each taken number, and each end still to be reported.
LEMMA Counted ==
    /\ \A t : IsFiniteSet(Owing(t)) /\ Cardinality(Owing(t)) \in Nat
    /\ \A t : Promised(t) = reported[t] + Cardinality(Owing(t))
<1>1. ASSUME NEW t PROVE IsFiniteSet(Owing(t))
  BY FS_Subset DEF Owing
<1> QED
  BY <1>1, FS_CardinalityType DEF Promised, Owing

\* A task that stays in the same part of its life is seen to stay as it is.
LEMMA SeenStays ==
    ASSUME NEW j \in TaskIds,
           of'[j] = of[j],
           outcome'[j] = outcome[j],
           (j \in cancelled') <=> (j \in cancelled),
           \/ at'[j] = at[j]
           \/ at[j] \in {"queued", "dropped"} /\ at'[j] \in {"queued", "dropped"}
           \/ at[j] \in Working /\ at'[j] \in Working
           \/ at[j] \in Decided /\ at'[j] \in Decided
    PROVE  TaskSeen(j)' = TaskSeen(j)
BY DEF TaskSeen, Working, Decided

\* When one task changes and the others stay, that is what is seen of the table.
LEMMA SeenChanges ==
    ASSUME NEW k \in TaskIds, NEW new,
           \A j \in TaskIds \ {k} : TaskSeen(j)' = TaskSeen(j),
           TaskSeen(k)' = new
    PROVE  TasksSeen' = [TasksSeen EXCEPT ![k] = new]
BY DEF TasksSeen

\* No task changes in the eyes of the controller.
LEMMA SeenSame ==
    ASSUME \A j \in TaskIds : TaskSeen(j)' = TaskSeen(j)
    PROVE  TasksSeen' = TasksSeen
BY DEF TasksSeen

\* A report that is sent while as many ends are owed as before counts for one.
LEMMA SaidCounts ==
    ASSUME TypeOK, NEW t \in Transfers, Say(t),
           \A u \in Transfers : Owing(u)' = Owing(u)
    PROVE  ReportsSeen' = [ReportsSeen EXCEPT ![t] = @ + 1]
<1>1. ASSUME NEW u \in Transfers
      PROVE  Promised(u)' = IF u = t THEN Promised(u) + 1 ELSE Promised(u)
  <2>1. Promised(u) = reported[u] + Cardinality(Owing(u))
    BY Counted
  <2>2. Promised(u)' = reported'[u] + Cardinality(Owing(u))
    BY DEF Promised, Owing
  <2>3. reported[u] \in Nat /\ Cardinality(Owing(u)) \in Nat
    BY Counted DEF TypeOK
  <2>4. reported'[u] = IF u = t THEN reported[u] + 1 ELSE reported[u]
    BY DEF Say, TypeOK
  <2> QED
    BY <2>1, <2>2, <2>3, <2>4
<1> QED
  BY <1>1 DEF ReportsSeen

\* Nothing is said and nothing more is owed.
LEMMA NothingCounts ==
    ASSUME reported' = reported, \A u \in Transfers : Owing(u)' = Owing(u)
    PROVE  ReportsSeen' = ReportsSeen
BY DEF ReportsSeen, Promised, Owing

\* The end of a task counts as said once it is decided.
LEMMA OwedCounts ==
    ASSUME TypeOK, NEW k \in TaskIds, at[k] \notin {"none", "collected", "settled"},
           at' = [at EXCEPT ![k] = "collected"], of' = of, reported' = reported
    PROVE  ReportsSeen' = [ReportsSeen EXCEPT ![of[k]] = @ + 1]
<1>1. ASSUME NEW u \in Transfers
      PROVE  Promised(u)' = IF u = of[k] THEN Promised(u) + 1 ELSE Promised(u)
  <2>1. Promised(u) = reported[u] + Cardinality(Owing(u)) /\ IsFiniteSet(Owing(u))
    BY Counted
  <2>2. k \notin Owing(u)
    BY DEF Owing
  <2>3. Promised(u)' = reported[u] +
          Cardinality(IF u = of[k] THEN Owing(u) \cup {k} ELSE Owing(u))
    <3>1. Owing(u)' = IF u = of[k] THEN Owing(u) \cup {k} ELSE Owing(u)
      BY DEF Owing, TypeOK
    <3> QED
      BY <3>1 DEF Promised, Owing
  <2>4. Cardinality(Owing(u) \cup {k}) = Cardinality(Owing(u)) + 1
    BY <2>1, <2>2, FS_AddElement
  <2>5. reported[u] \in Nat /\ Cardinality(Owing(u)) \in Nat
    BY Counted DEF TypeOK
  <2> QED
    BY <2>1, <2>3, <2>4, <2>5
<1> QED
  BY <1>1 DEF ReportsSeen

\* Reporting an end that counted as said changes nothing.
LEMMA OwedSaid ==
    ASSUME TypeOK, NEW k \in TaskIds, at[k] = "settled",
           at' = [at EXCEPT ![k] = "ended"], of' = of, Say(of[k])
    PROVE  ReportsSeen' = ReportsSeen
<1>1. ASSUME NEW u \in Transfers PROVE Promised(u)' = Promised(u)
  <2>1. Promised(u) = reported[u] + Cardinality(Owing(u)) /\ IsFiniteSet(Owing(u))
    BY Counted
  <2>2. reported[u] \in Nat /\ Cardinality(Owing(u)) \in Nat
    BY Counted DEF TypeOK
  <2>3. CASE u = of[k]
    <3>1. k \in Owing(u)
      BY <2>3 DEF Owing
    <3>2. Cardinality(Owing(u) \ {k}) = Cardinality(Owing(u)) - 1
      BY <2>1, <3>1, FS_RemoveElement
    <3>3. Owing(u)' = Owing(u) \ {k}
      BY <2>3 DEF Owing, TypeOK
    <3>4. Promised(u)' = reported'[u] + Cardinality(Owing(u) \ {k})
      BY <3>3 DEF Promised, Owing
    <3>5. reported'[u] = reported[u] + 1
      BY <2>3 DEF Say, TypeOK
    <3> QED
      BY <2>1, <2>2, <3>2, <3>4, <3>5
  <2>4. CASE u # of[k]
    <3>1. Owing(u)' = Owing(u) /\ reported'[u] = reported[u]
      BY <2>4 DEF Owing, Say, TypeOK
    <3> QED
      BY <3>1 DEF Promised, Owing
  <2> QED
    BY <2>3, <2>4
<1> QED
  BY <1>1 DEF ReportsSeen

\* Two fields replaced at once are replaced one after the other.
LEMMA PutTwice ==
    ASSUME NEW r, NEW x, NEW y
    PROVE  /\ [r EXCEPT !.of = x, !.state = y] = [[r EXCEPT !.of = x] EXCEPT !.state = y]
           /\ [r EXCEPT !.state = x, !.failure = y]
                = [[r EXCEPT !.state = x] EXCEPT !.failure = y]
OBVIOUS

\* Inv, in the part of it the refinement needs of one task.
LEMMA SeenTask ==
    ASSUME Inv, NEW k \in TaskIds
    PROVE  /\ TypeOK /\ TaskSound(k)
           /\ at[k] # "none" => of[k] \in Transfers
           /\ TasksSeen[k] = TaskSeen(k)
           /\ ReportsSeen \in [Transfers -> Nat]
<1>1. \A t \in Transfers : Promised(t) \in Nat
  BY Counted DEF Inv, TypeOK
<1> QED
  BY <1>1 DEF Inv, TypeOK, TasksSeen, ReportsSeen

\* How far a thread is, in the words of the controller.
LEMMA StateSeen ==
    ASSUME Inv, NEW k \in TaskIds
    PROVE  /\ TasksSeen[k].of = of[k]
           /\ TasksSeen[k].state = "IDLE" <=> at[k] = "none"
           /\ TasksSeen[k].state = "SUBMITTED" <=> at[k] \in {"queued", "dropped"}
           /\ TasksSeen[k].state = "RUNNING"
                <=> at[k] \in {"launching", "launched", "moving"}
           /\ TasksSeen[k].stop = (k \in cancelled)
<1>1. at[k] \in Places /\ (at[k] \in Undecided <=> outcome[k] = "none")
  BY SeenTask DEF TypeOK, TaskSound
<1>2. TasksSeen[k] = TaskSeen(k)
  BY SeenTask
<1>3. TaskSeen(k).of = of[k] /\ TaskSeen(k).stop = (k \in cancelled)
  BY DEF TaskSeen
<1>4. CASE at[k] = "none"
  BY <1>2, <1>3, <1>4 DEF TaskSeen
<1>5. CASE at[k] \in {"queued", "dropped"}
  BY <1>2, <1>3, <1>5 DEF TaskSeen
<1>6. CASE at[k] \in {"launching", "launched", "moving"}
  <2>1. outcome[k] = "none"
    BY <1>1, <1>6 DEF Undecided
  <2> QED
    BY <1>2, <1>3, <1>6, <2>1 DEF TaskSeen
<1>7. CASE at[k] \in {"collected", "settled", "ended"}
  <2>1. outcome[k] # "none"
    BY <1>1, <1>7 DEF Undecided
  <2>2. TaskSeen(k).state \in {"SUCCEEDED", "FAILED"}
    BY <1>7, <2>1 DEF TaskSeen
  <2> QED
    BY <1>2, <1>3, <1>7, <2>2
<1> QED
  BY <1>1, <1>4, <1>5, <1>6, <1>7 DEF Places, Busy

\* A task that is handed out.
LEMMA SubmitSeen ==
    ASSUME Inv, NEW k \in TaskIds, NEW t \in Transfers, Submit(t, k)
    PROVE  D!TaskSubmit(t, k) /\ UNCHANGED ReportsSeen
<1>1. \A j \in TaskIds : D!Idle(j) <=> at[j] = "none"
  BY StateSeen DEF D!Idle
<1>2. D!Idle(k) /\ \A j \in TaskIds : j < k => ~D!Idle(j)
  BY <1>1 DEF Submit
<1>3. \A j \in TaskIds \ {k} : TaskSeen(j)' = TaskSeen(j)
  BY DEF Submit, Inv, TypeOK, TaskSeen
<1>4. TaskSeen(k)' = [D!NoTask EXCEPT !.of = t, !.state = "SUBMITTED"]
  <2>1. outcome[k] = "none" /\ k \notin cancelled
    BY DEF Submit, Inv, TaskSound, Undecided
  <2> QED
    <3>1. /\ of'[k] = t /\ at'[k] = "queued" /\ outcome'[k] = "none"
          /\ (k \in cancelled') = FALSE
      BY <2>1 DEF Submit, Inv, TypeOK
    <3>2. TaskSeen(k)' = [of |-> t, state |-> "SUBMITTED", failure |-> "none",
                          stop |-> FALSE]
      BY <3>1 DEF TaskSeen
    <3>3. [D!NoTask EXCEPT !.of = t, !.state = "SUBMITTED"] =
            [of |-> t, state |-> "SUBMITTED", failure |-> "none", stop |-> FALSE]
      <4>1. PICK r, q, no : /\ no = FALSE /\ r = D!NoTask
                            /\ q = [r EXCEPT !.of = t]
        OBVIOUS
      <4>2. r = [of |-> NoTransfer, state |-> "IDLE", failure |-> "none", stop |-> no]
        BY <4>1 DEF D!NoTask, D!NoFailure
      <4>3. q = [of |-> t, state |-> "IDLE", failure |-> "none", stop |-> no]
        BY <4>1, <4>2
      <4>4. [q EXCEPT !.state = "SUBMITTED"]
              = [of |-> t, state |-> "SUBMITTED", failure |-> "none", stop |-> no]
        BY <4>3
      <4> QED
        BY <4>1, <4>4, PutTwice, Zenon
    <3> QED
      BY <3>2, <3>3
<1>5. UNCHANGED ReportsSeen
  <2>1. \A u \in Transfers : Owing(u)' = Owing(u)
    BY DEF Owing, Submit, Inv, TypeOK
  <2> QED
    BY <2>1, NothingCounts DEF Submit
<1> QED
  BY <1>2, <1>3, <1>4, <1>5, SeenChanges DEF D!TaskSubmit

\* What Stop does is what the controller sees of a task being stopped.
LEMMA StopSeen ==
    ASSUME Inv, NEW k \in TaskIds, at[k] # "none", Stop(k),
           UNCHANGED <<of, at, outcome, reported>>
    PROVE  D!TaskAbort(k) /\ UNCHANGED ReportsSeen
<1>1. \A j \in TaskIds \ {k} : TaskSeen(j)' = TaskSeen(j)
  BY DEF Stop, Inv, TypeOK, TaskSeen
<1>2. D!Live(k) <=> at[k] \notin {"collected", "settled", "ended"}
  <2>1. at[k] \in Places
    BY DEF Inv, TypeOK
  <2> QED
    BY <2>1, StateSeen DEF D!Live, Places, Busy
<1>3. TaskSeen(k)' = [TasksSeen[k] EXCEPT !.stop = @ \/ D!Live(k)]
  <2>1. (k \in cancelled') = (TasksSeen[k].stop \/ D!Live(k))
    <3>1. TasksSeen[k].stop = (k \in cancelled)
      BY StateSeen
    <3>2. CASE D!Live(k)
      BY <1>2, <3>2 DEF Stop
    <3>3. CASE ~D!Live(k)
      <4>1. cancelled' = cancelled
        BY <1>2, <3>3, SeenTask DEF Stop, TypeOK, Places, Busy
      <4>2. PICK stop : stop = (k \in cancelled)
        OBVIOUS
      <4>3. stop \in BOOLEAN
        BY <4>2
      <4>4. stop = (stop \/ D!Live(k))
        BY <3>3, <4>3
      <4> QED
        BY <3>1, <4>1, <4>2, <4>4, Zenon
    <3> QED
      BY <3>2, <3>3
  <2>2. TaskSeen(k)' = [TaskSeen(k) EXCEPT !.stop = k \in cancelled']
    <3>1. PICK r, was, is : /\ r = TaskSeen(k)
                            /\ was = (k \in cancelled) /\ is = (k \in cancelled')
      OBVIOUS
    <3>2. r = [of |-> of[k], state |-> TaskSeen(k).state,
               failure |-> TaskSeen(k).failure, stop |-> was]
      BY <3>1 DEF TaskSeen
    <3>3. [r EXCEPT !.stop = is] = [of |-> of[k], state |-> TaskSeen(k).state,
                                    failure |-> TaskSeen(k).failure, stop |-> is]
      BY <3>2
    <3>4. TaskSeen(k)' = [of |-> of[k], state |-> TaskSeen(k).state,
                          failure |-> TaskSeen(k).failure, stop |-> is]
      BY <3>1 DEF TaskSeen
    <3> QED
      BY <3>1, <3>3, <3>4, Zenon
  <2>3. TasksSeen[k] = TaskSeen(k)
    BY SeenTask
  <2> QED
    BY <2>1, <2>2, <2>3
<1>4. UNCHANGED ReportsSeen
  <2>1. \A u \in Transfers : Owing(u)' = Owing(u)
    BY DEF Owing
  <2> QED
    BY <2>1, NothingCounts
<1> QED
  BY <1>1, <1>3, <1>4, SeenChanges DEF D!TaskAbort

\* A task that a thread takes.
LEMMA BeginSeen ==
    ASSUME Inv, NEW k \in TaskIds, Begin(k)
    PROVE  D!TaskRun(k, FALSE)
<1>1. \A j \in TaskIds \ {k} : TaskSeen(j)' = TaskSeen(j)
  BY DEF Begin, Move, Inv, TypeOK, TaskSeen
<1>2. TaskSeen(k)' = [TasksSeen[k] EXCEPT !.state = "RUNNING"]
  <2>1. outcome[k] = "none"
    BY DEF Begin, Move, Inv, TaskSound, Undecided
  <2>2. TasksSeen[k] = TaskSeen(k) /\ at[k] = "queued" /\ at'[k] = "launching"
    BY SeenTask DEF Begin, Move, TypeOK
  <2>3. TaskSeen(k) = [of |-> of[k], state |-> "SUBMITTED", failure |-> "none",
                       stop |-> k \in cancelled]
    BY <2>1, <2>2 DEF TaskSeen
  <2>4. TaskSeen(k)' = [of |-> of[k], state |-> "RUNNING", failure |-> "none",
                        stop |-> k \in cancelled]
    BY <2>1, <2>2 DEF Begin, TaskSeen
  <2>5. PICK r, stop : r = TaskSeen(k) /\ stop = (k \in cancelled)
    OBVIOUS
  <2>6. r = [of |-> of[k], state |-> "SUBMITTED", failure |-> "none", stop |-> stop]
    BY <2>3, <2>5, Zenon
  <2>7. [r EXCEPT !.state = "RUNNING"]
          = [of |-> of[k], state |-> "RUNNING", failure |-> "none", stop |-> stop]
    BY <2>6
  <2> QED
    BY <2>2, <2>4, <2>5, <2>7, Zenon
<1>3. TasksSeen[k].state = "SUBMITTED" /\ TasksSeen[k].of = of[k]
  BY StateSeen DEF Begin, Move
<1>4. ReportsSeen' = [ReportsSeen EXCEPT ![of[k]] = @ + 1]
  <2>1. \A u \in Transfers : Owing(u)' = Owing(u)
    BY DEF Owing, Begin, Move, Inv, TypeOK
  <2>2. of[k] \in Transfers
    BY SeenTask DEF Begin, Move
  <2> QED
    BY <2>1, <2>2, SaidCounts DEF Begin, Inv
<1> QED
  BY <1>1, <1>2, <1>3, <1>4, SeenChanges DEF D!TaskRun, D!Report

\* A report of how far a task has come.
LEMMA ProgressSeen ==
    ASSUME Inv, NEW k \in TaskIds, Progress(k)
    PROVE  D!TaskProgress(k, FALSE)
<1>1. UNCHANGED TasksSeen
  BY DEF Progress, tableVars, TasksSeen, TaskSeen
<1>2. TasksSeen[k].state = "RUNNING" /\ TasksSeen[k].of = of[k] /\ of[k] \in Transfers
  BY SeenTask, StateSeen DEF Progress
<1>3. ReportsSeen[of[k]] < MaxReports
  BY <1>2 DEF Progress, ReportsSeen
<1>4. ReportsSeen' = [ReportsSeen EXCEPT ![of[k]] = @ + 1]
  <2>1. \A u \in Transfers : Owing(u)' = Owing(u)
    BY DEF Owing, Progress, tableVars
  <2> QED
    BY <1>2, <2>1, SaidCounts DEF Progress, Inv
<1> QED
  BY <1>1, <1>2, <1>3, <1>4 DEF D!TaskProgress, D!Report

\* A task ends, well or badly, and says so.
TaskEnds(k) ==
    \/ D!TaskSucceed(k, FALSE)
    \/ \E failure \in FailureClasses : D!TaskFail(k, failure, FALSE)

\* An end that is decided: as the process ended, or as it was stopped.
LEMMA DecidedSeen ==
    ASSUME Inv, NEW k \in TaskIds, at[k] \in {"launching", "moving"},
           at' = [at EXCEPT ![k] = "collected"],
           \A j \in TaskIds \ {k} : outcome'[j] = outcome[j],
           UNCHANGED <<of, cancelled, reported>>,
           \/ outcome'[k] = "ok" /\ k \notin cancelled
           \/ outcome'[k] = "cancelled" /\ k \in cancelled
           \/ outcome'[k] = "internal" /\ "internal" \in Failures
           \/ outcome'[k] \in Failures /\ k \notin cancelled
    PROVE  TaskEnds(k)
<1>0. PICK end : end = outcome'[k]
  OBVIOUS
<1>1. \A j \in TaskIds \ {k} : TaskSeen(j)' = TaskSeen(j)
  BY DEF Inv, TypeOK, TaskSeen
<1>2. /\ TasksSeen[k] = TaskSeen(k) /\ of[k] \in Transfers
      /\ outcome[k] = "none" /\ outcome'[k] = end /\ at'[k] = "collected"
  BY <1>0, SeenTask DEF TypeOK, TaskSound, Undecided
<1>3. /\ TasksSeen[k].state = "RUNNING" /\ TasksSeen[k].of = of[k]
      /\ TasksSeen[k].stop = (k \in cancelled)
  BY StateSeen
<1>4. ReportsSeen' = [ReportsSeen EXCEPT ![of[k]] = @ + 1]
  BY OwedCounts DEF Inv
<1>5. CASE end = "ok"
  <2>1. k \notin cancelled
    BY <1>0, <1>5 DEF FailureClasses
  <2>2. TaskSeen(k)' = [TasksSeen[k] EXCEPT !.state = "SUCCEEDED"]
    BY <1>2, <1>5 DEF TaskSeen
  <2> QED
    BY <1>1, <1>3, <1>4, <2>1, <2>2, SeenChanges DEF TaskEnds, D!TaskSucceed, D!Report
<1>6. CASE end # "ok"
  <2>1. end \in FailureClasses /\ end # "none"
    BY <1>0, <1>6 DEF FailureClasses
  <2>2. TaskSeen(k)' = [TasksSeen[k] EXCEPT !.state = "FAILED", !.failure = end]
    <3>1. PICK r, q, stop : /\ r = TaskSeen(k) /\ stop = (k \in cancelled)
                            /\ q = [r EXCEPT !.state = "FAILED"]
      OBVIOUS
    <3>2. r = [of |-> of[k], state |-> TaskSeen(k).state,
               failure |-> TaskSeen(k).failure, stop |-> stop]
      BY <3>1 DEF TaskSeen
    <3>3. q = [of |-> of[k], state |-> "FAILED",
               failure |-> TaskSeen(k).failure, stop |-> stop]
      BY <3>1, <3>2
    <3>4. [q EXCEPT !.failure = end]
            = [of |-> of[k], state |-> "FAILED", failure |-> end, stop |-> stop]
      BY <3>3
    <3>5. TaskSeen(k)' = [of |-> of[k], state |-> "FAILED", failure |-> end,
                          stop |-> stop]
      BY <1>2, <1>6, <2>1, <3>1 DEF TaskSeen
    <3> QED
      BY <1>2, <3>1, <3>4, <3>5, PutTwice, Zenon
  <2>3. end \in IF TasksSeen[k].stop THEN {"cancelled"} \cup (Failures \cap {"internal"})
                                     ELSE Failures
    BY <1>0, <1>3, <1>6
  <2>4. TasksSeen' = [TasksSeen EXCEPT ![k].state = "FAILED", ![k].failure = end]
    <3>1. TasksSeen' = [TasksSeen EXCEPT ![k] =
                          [TasksSeen[k] EXCEPT !.state = "FAILED", !.failure = end]]
      BY <1>1, <2>2, SeenChanges
    <3> QED
      BY <3>1, <1>2 DEF TasksSeen
  <2>5. D!TaskFail(k, end, FALSE)
    BY <1>3, <1>4, <2>3, <2>4 DEF D!TaskFail, D!Report
  <2> QED
    BY <2>1, <2>5 DEF TaskEnds
<1> QED
  BY <1>5, <1>6

\* A step the controller does not see.
LEMMA HiddenSeen ==
    ASSUME Inv, NEW k \in TaskIds,
           \/ Launch(k) \/ Register(k) \/ Settle(k) \/ SayEnd(k) \/ Exit(k)
    PROVE  UNCHANGED <<TasksSeen, ReportsSeen>>
<1>1. TypeOK
  BY DEF Inv
<1>2. of' = of /\ outcome' = outcome /\ cancelled' = cancelled
  BY DEF Launch, Register, Settle, SayEnd, Exit, tableVars, drainVars
<1>3. \A j \in TaskIds :
        \/ at'[j] = at[j]
        \/ at[j] \in Working /\ at'[j] \in Working
        \/ at[j] \in Decided /\ at'[j] \in Decided
  BY <1>1 DEF Launch, Register, Settle, SayEnd, Exit, Move, TypeOK, Working, Decided
<1>4. UNCHANGED TasksSeen
  BY <1>2, <1>3, SeenStays, SeenSame
<1>5. CASE SayEnd(k)
  BY <1>1, <1>2, <1>4, <1>5, OwedSaid DEF SayEnd, Move, tableVars
<1>6. CASE Launch(k) \/ Register(k) \/ Settle(k) \/ Exit(k)
  <2>1. \A u \in Transfers : Owing(u)' = Owing(u)
    BY <1>1, <1>6 DEF Launch, Register, Settle, Exit, Move, TypeOK, Owing, tableVars
  <2>2. reported' = reported
    BY <1>6 DEF Launch, Register, Settle, Exit
  <2> QED
    BY <1>4, <2>1, <2>2, NothingCounts
<1> QED
  BY <1>4, <1>5, <1>6

\* The drain takes its time, passes over what has ended and drops what never began.
LEMMA DrainHidden ==
    ASSUME Inv,
           \/ DrainBegins \/ DrainWaited \/ PoolShut
           \/ \E k \in left : DrainSpares(k)
    PROVE  UNCHANGED <<TasksSeen, ReportsSeen>>
<1>1. TypeOK
  BY DEF Inv
<1>2. UNCHANGED <<of, outcome, cancelled, reported>>
  BY DEF DrainBegins, DrainWaited, PoolShut, DrainSpares, tableVars
<1>3. \A j \in TaskIds :
        \/ at'[j] = at[j]
        \/ at[j] = "queued" /\ at'[j] = "dropped"
  BY <1>1 DEF DrainBegins, DrainWaited, PoolShut, DrainSpares, TypeOK
<1>4. \A u \in Transfers : Owing(u)' = Owing(u)
  BY <1>2, <1>3 DEF Owing
<1> QED
  BY <1>2, <1>3, <1>4, SeenStays, SeenSame, NothingCounts

\* The drain's own report of a task it has stopped.
LEMMA SayCutOffSeen ==
    ASSUME Inv, NEW k \in left, SayCutOff(k)
    PROVE  /\ D!Report(of[k], "failed", "daemon_shutdown", FALSE)
           /\ of[k] \in Transfers /\ UNCHANGED TasksSeen
<1>1. k \in TaskIds /\ of[k] \in Transfers
  BY SeenTask DEF Inv, TypeOK, TaskSound
<1>2. UNCHANGED TasksSeen
  BY DEF SayCutOff, TasksSeen, TaskSeen
<1>3. \A u \in Transfers : Owing(u)' = Owing(u)
  BY DEF SayCutOff, Owing
<1>4. ReportsSeen' = [ReportsSeen EXCEPT ![of[k]] = @ + 1]
  BY <1>1, <1>3, SaidCounts DEF SayCutOff, Inv
<1> QED
  BY <1>1, <1>2, <1>4 DEF D!Report

\* What a thread does is hidden, or a step of the daemon the controller knows.
LEMMA ThreadSeen ==
    ASSUME Inv, NEW k \in TaskIds, ThreadStep(k)
    PROVE  DaemonNext \/ UNCHANGED <<TasksSeen, ReportsSeen>>
<1>1. CASE Begin(k)
  BY <1>1, BeginSeen DEF DaemonNext
<1>2. CASE LaunchFails(k)
  <2>1. /\ at[k] = "launching" /\ at' = [at EXCEPT ![k] = "collected"]
        /\ outcome'[k] = "internal" /\ "internal" \in Failures
        /\ \A j \in TaskIds \ {k} : outcome'[j] = outcome[j]
        /\ UNCHANGED <<of, cancelled, reported>>
    BY <1>2 DEF LaunchFails, Move, tableVars, Inv, TypeOK
  <2>2. TaskEnds(k)
    BY <2>1, DecidedSeen
  <2> QED
    BY <2>2 DEF TaskEnds, DaemonNext
<1>3. CASE Collect(k)
  <2>1. /\ at[k] = "moving" /\ at' = [at EXCEPT ![k] = "collected"]
        /\ outcome'[k] = IF k \in cancelled THEN "cancelled" ELSE process[k]
        /\ \A j \in TaskIds \ {k} : outcome'[j] = outcome[j]
        /\ UNCHANGED <<of, cancelled, reported>>
    BY <1>3 DEF Collect, Move, tableVars, Inv, TypeOK
  <2>2. \/ outcome'[k] = "ok" /\ k \notin cancelled
        \/ outcome'[k] = "cancelled" /\ k \in cancelled
        \/ outcome'[k] \in Failures /\ k \notin cancelled
    BY <1>3, <2>1, SeenTask DEF Collect, TypeOK, TaskSound
  <2>3. TaskEnds(k)
    BY <2>1, <2>2, DecidedSeen
  <2> QED
    BY <2>3 DEF TaskEnds, DaemonNext
<1> QED
  BY <1>1, <1>2, <1>3, HiddenSeen DEF ThreadStep

\* Every step is a step of the daemon the controller knows, or hidden from it.
LEMMA StepSeen ==
    ASSUME Inv, [Next]_vars
    PROVE  DaemonNext \/ UNCHANGED <<TasksSeen, ReportsSeen>>
<1>1. ASSUME NEW k \in TaskIds, NEW t \in Transfers, Submit(t, k) PROVE DaemonNext
  BY <1>1, SubmitSeen DEF DaemonNext
<1>2. ASSUME NEW k \in TaskIds, Abort(k) PROVE DaemonNext
  BY <1>2, StopSeen DEF Abort, tableVars, DaemonNext
<1>3. ASSUME NEW k \in TaskIds, Progress(k) PROVE DaemonNext
  BY <1>3, ProgressSeen DEF DaemonNext
<1>4. ASSUME NEW k \in left, CutOff(k) PROVE DaemonNext
  <2>1. k \in TaskIds /\ at[k] # "none"
    BY DEF Inv, TypeOK, TaskSound
  <2> QED
    BY <1>4, <2>1, StopSeen DEF CutOff, tableVars, DaemonNext
<1>5. ASSUME NEW k \in left, SayCutOff(k) PROVE DaemonNext
  BY <1>5, SayCutOffSeen DEF DaemonNext
<1>6. CASE UNCHANGED vars
  BY <1>6 DEF vars, tableVars, TasksSeen, TaskSeen, ReportsSeen, Promised
<1> QED
  BY <1>1, <1>2, <1>3, <1>4, <1>5, <1>6, ThreadSeen, HiddenSeen, DrainHidden
     DEF Next, DrainStep

\* What is seen of the start is the start of that daemon.
LEMMA InitSeen == Init => D!DaemonInit
<1> SUFFICES ASSUME Init PROVE D!DaemonInit
  OBVIOUS
<1>1. \A k \in TaskIds : TaskSeen(k) = D!NoTask
  <2> SUFFICES ASSUME NEW k \in TaskIds PROVE TaskSeen(k) = D!NoTask
    OBVIOUS
  <2>1. PICK no \in BOOLEAN : no = (k \in cancelled)
    <3>1. (k \in cancelled) \in BOOLEAN
      OBVIOUS
    <3> QED
      BY <3>1, Zenon
  <2>2. no = FALSE
    <3>1. ~no
      BY <2>1 DEF Init
    <3> QED
      BY <3>1
  <2>3. TaskSeen(k) = [of |-> NoTransfer, state |-> "IDLE", failure |-> "none",
                       stop |-> no]
    BY <2>1 DEF Init, TaskSeen
  <2>4. D!NoTask = [of |-> NoTransfer, state |-> "IDLE", failure |-> "none", stop |-> no]
    BY <2>2 DEF D!NoTask, D!NoFailure
  <2> QED
    BY <2>3, <2>4, Zenon
<1>2. \A t \in Transfers : Promised(t) = 0
  <2>1. \A t \in Transfers : Owing(t) = {}
    BY DEF Init, Owing
  <2> QED
    BY <2>1, Counted, FS_EmptySet DEF Init
<1> QED
  BY <1>1, <1>2 DEF D!DaemonInit, TasksSeen, ReportsSeen

\* The pool of threads, the processes and the drain carry out the daemon that
\* Controller composes with: tasks begin once, end once, and end as "cancelled" when
\* they were to be stopped, with the same numbers on the reports (tasks/threaded.py,
\* engines/rsync.py, clients/events.py).
THEOREM RunnerImplementsDaemon == Spec => ImplementsDaemon
<1>1. Inv /\ [Next]_vars => [DaemonNext]_(D!daemonVars)
  BY StepSeen DEF D!daemonVars
<1> QED
  BY <1>1, InitSeen, RunnerInvariant, PTL DEF Spec, ImplementsDaemon
=============================================================================
