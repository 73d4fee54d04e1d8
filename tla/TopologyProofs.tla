--------------------------- MODULE TopologyProofs ---------------------------
(***************************************************************************)
(* Safety of Topology for every set of documents, daemons and transfers:   *)
(* where data ends up, whom a task number is told to and which tasks a     *)
(* pass may forget, while the config changes under all of them.            *)
(*                                                                         *)
(* The inductive invariant ties three things to one another.  Numbers of a *)
(* daemon have no gap, so the next one is new.  Whoever names a task by    *)
(* number (a row, or a pass that has yet to commit) names one that exists  *)
(* and is its own.  And where a storage stays with its daemon, every       *)
(* document that knows it finds the daemon that was asked.                 *)
(***************************************************************************)
EXTENDS Topology, FiniteSetTheorems, TLAPS

USE DocumentsAssumption, RouteAssumption, DeclarationsAssumption, FlushesAssumption,
    NothingAssumption, BoundsAssumption, StartAssumption

-----------------------------------------------------------------------------
(* What a document that validates promises.                                *)

\* In a document that validates, whoever is looked up is a daemon of the config: a lookup
\* fails by the storage alone.
LEMMA LookupFinds ==
    ASSUME NEW doc \in Valid, NEW s \in Known(doc)
    PROVE  DaemonFor(doc, s) \in Daemons /\ Finds(doc, s)
<1> DEFINE At == CHOOSE i \in DOMAIN doc.storages : doc.storages[i].id = s
<1>1. At \in DOMAIN doc.storages
  BY DEF Known
<1>2. ~StorageProblem(doc, doc.storages[At])
  BY <1>1 DEF Valid, Problems
<1>3. DaemonFor(doc, s) = doc.storages[At].daemon
  BY DEF DaemonFor, StorageOf
<1>4. DaemonFor(doc, s) \in Range(doc.daemons)
  BY <1>2, <1>3 DEF StorageProblem
<1>5. \A i \in DOMAIN doc.daemons : doc.daemons[i] \in Daemons
  BY DEF Valid, IsDocument
<1> QED
  BY <1>4, <1>5 DEF Range, Finds

\* A source or target is a storage.
LEMMA EndsAreStorages ==
    \A t \in Transfers : Source(t) \in Storages /\ Target(t) \in Storages
BY DEF Source, Target

\* Two documents that know a storage which is never moved agree on its daemon.
LEMMA FixedAgrees ==
    ASSUME NEW s \in Fixed, NEW one \in Valid, NEW other \in Valid,
           s \in Known(one), s \in Known(other)
    PROVE  DaemonFor(one, s) = DaemonFor(other, s)
BY DEF Fixed

-----------------------------------------------------------------------------
(* Types.                                                                  *)

\* Before anything is asked for, everything is empty and by the first document.
LEMMA TypeInit == Init => TypeOK
<1> SUFFICES ASSUME Init PROVE TypeOK
  OBVIOUS
<1>1. \A i \in DOMAIN Start.storages : Start.storages[i].id \in Storages
  BY DEF Valid, IsDocument
<1>2. serves \in [Daemons -> SUBSET Storages]
  BY <1>1 DEF Init, StoragesOf
<1>3. row \in [Transfers -> Rows]
  BY DEF Init, Rows, RowStates
<1>4. pass \in Passes
  BY DEF Init, NoPass, Passes
<1>5. /\ running \in Valid /\ wired \in Valid
      /\ tasks \subseteq Tasks /\ recovery \subseteq Transfers /\ restarts \in 0 .. MaxRestarts
  BY DEF Init
<1> QED
  BY <1>2, <1>3, <1>4, <1>5 DEF TypeOK

\* A row may go to any state, and be given a daemon and a number.
LEMMA RowUpdates ==
    ASSUME NEW r \in Rows
    PROVE  /\ \A state \in RowStates :
                /\ [r EXCEPT !.state = state] \in Rows
                /\ \A prepared \in BOOLEAN :
                     [r EXCEPT !.state = state, !.prepared = prepared] \in Rows
           /\ \A on \in Daemons, number \in 1 .. MaxTasks :
                [r EXCEPT !.state = "assigned", !.on = on, !.number = number] \in Rows
<1>1. ASSUME NEW state \in RowStates PROVE [r EXCEPT !.state = state] \in Rows
  BY <1>1 DEF Rows
<1>2. ASSUME NEW state \in RowStates, NEW prepared \in BOOLEAN
      PROVE  [r EXCEPT !.state = state, !.prepared = prepared] \in Rows
  BY <1>2 DEF Rows
<1>3. ASSUME NEW on \in Daemons, NEW number \in 1 .. MaxTasks
      PROVE  [r EXCEPT !.state = "assigned", !.on = on, !.number = number] \in Rows
  <2>1. "assigned" \in RowStates /\ number \in 0 .. MaxTasks
    BY <1>3 DEF RowStates
  <2> QED
    BY <1>3, <2>1 DEF Rows
<1> QED
  BY <1>1, <1>2, <1>3

\* A task changes nothing but its state.
LEMMA TaskUpdates ==
    ASSUME NEW k \in Tasks, NEW state \in {"alive", "ended", "killed"}
    PROVE  LET l == [k EXCEPT !.state = state]
           IN  /\ l \in Tasks
               /\ l.on = k.on /\ l.number = k.number /\ l.transfer = k.transfer
               /\ l.into = k.into /\ l.state = state
BY DEF Tasks

\* A daemon has given finitely many numbers.
LEMMA GivenIsNatural ==
    ASSUME TypeOK, NEW d \in Daemons
    PROVE  Given(d) \in Nat
<1>1. Numbers(d) \subseteq 1 .. MaxTasks
  BY DEF TypeOK, Numbers, Tasks
<1>2. IsFiniteSet(1 .. MaxTasks)
  BY FS_Interval
<1>3. IsFiniteSet(Numbers(d))
  BY <1>1, <1>2, FS_Subset
<1> QED
  BY <1>3, FS_CardinalityType DEF Given

\* A pass that has something left works by a document that validates.
LEMMA PassHasDocument ==
    ASSUME TypeOK, NEW t \in pass.todo
    PROVE  pass.doc \in Valid /\ pass # NoPass
BY DEF TypeOK, Passes, NoPass

\* What a pass has left are transfers, and what it has sent is numbered.
LEMMA PassIsTyped ==
    ASSUME TypeOK
    PROVE  /\ pass.todo \subseteq Transfers
           /\ pass.sent \subseteq [transfer : Transfers, on : Daemons, number : 1 .. MaxTasks]
<1>1. CASE pass = NoPass
  BY <1>1 DEF NoPass
<1>2. CASE pass # NoPass
  BY <1>2 DEF TypeOK, Passes
<1> QED
  BY <1>1, <1>2

\* What a pass starts is a task of a daemon, on the disk of a daemon.
LEMMA StartedIsTask ==
    ASSUME TypeOK, NEW t \in Transfers, PassStart(t)
    PROVE  /\ pass.doc \in Valid
           /\ Ends(t) \subseteq Known(pass.doc)
           /\ Source(t) \in Known(wired)
           /\ DaemonFor(wired, Source(t)) \in Daemons
           /\ Into(pass.doc, t, DaemonFor(wired, Source(t))) \in Daemons
<1>1. Source(t) \in Known(wired) /\ Ends(t) \subseteq Known(pass.doc)
  BY DEF PassStart, Unknown, Finds, Ends
<1>2. pass.doc \in Valid
  BY PassHasDocument DEF PassStart
<1>3. DaemonFor(wired, Source(t)) \in Daemons
  BY <1>1, LookupFinds DEF TypeOK
<1>4. DaemonFor(pass.doc, Target(t)) \in Daemons
  BY <1>1, <1>2, LookupFinds DEF Ends
<1> QED
  BY <1>1, <1>2, <1>3, <1>4 DEF Into

\* Every step keeps the types.
LEMMA TypeNext == TypeOK /\ [Next]_vars => TypeOK'
<1> SUFFICES ASSUME TypeOK, [Next]_vars PROVE TypeOK'
  OBVIOUS
<1>1. ASSUME NEW doc \in Documents, Reload(doc) \/ Restart(doc) PROVE TypeOK'
  BY <1>1 DEF Reload, Restart, TypeOK, In, Passes, NoPass
<1>2. ASSUME NEW d \in Daemons, NEW declared \in Declarations, DaemonRestart(d, declared)
      PROVE  TypeOK'
  BY <1>2 DEF DaemonRestart, TypeOK, configVars, Passes
<1>3. CASE PassBegin
  BY <1>3 DEF PassBegin, TypeOK, configVars, Passes, In
<1>4. CASE PassCommit
  <2>1. ASSUME NEW t \in Transfers PROVE row'[t] \in Rows
    <3>1. CASE \E k \in pass.sent : k.transfer = t
      <4> DEFINE k == CHOOSE k \in pass.sent : k.transfer = t
      <4>1. k \in pass.sent
        BY <3>1
      <4>2. k.on \in Daemons /\ k.number \in 1 .. MaxTasks
        BY <4>1, PassIsTyped
      <4>3. row'[t] = [row[t] EXCEPT !.state = "assigned", !.on = k.on, !.number = k.number]
        BY <1>4, <3>1 DEF PassCommit
      <4>4. row[t] \in Rows
        BY DEF TypeOK
      <4> HIDE DEF k
      <4>5. [row[t] EXCEPT !.state = "assigned", !.on = k.on, !.number = k.number] \in Rows
        BY <4>2, <4>4, RowUpdates
      <4> QED
        BY <4>3, <4>5
    <3>2. CASE ~\E k \in pass.sent : k.transfer = t
      BY <1>4, <3>2 DEF PassCommit, TypeOK
    <3> QED
      BY <3>1, <3>2
  <2>2. row' \in [Transfers -> Rows]
    BY <1>4, <2>1 DEF PassCommit
  <2> QED
    BY <1>4, <2>2 DEF PassCommit, TypeOK, configVars, NoPass, Passes
<1>5. ASSUME NEW t \in Transfers,
             SubmitWarm(t) \/ SubmitFlush(t) \/ CancelWaiting(t)
      PROVE  TypeOK'
  BY <1>5 DEF SubmitWarm, SubmitFlush, CancelWaiting, TypeOK, configVars, Rows, RowStates,
              Reaches
<1>6. ASSUME NEW t \in Transfers, CancelAssigned(t) PROVE TypeOK'
  <2>1. ASSUME NEW l \in tasks' PROVE l \in Tasks
    <3>1. PICK k \in tasks : l = k \/ l = [k EXCEPT !.state = "killed"]
      BY <1>6 DEF CancelAssigned
    <3> QED
      BY <3>1, TaskUpdates DEF TypeOK
  <2> QED
    BY <1>6, <2>1, RowUpdates DEF CancelAssigned, TypeOK, configVars, RowStates
<1>7. ASSUME NEW t \in Transfers, PassStart(t) PROVE TypeOK'
  <2> DEFINE on == DaemonFor(wired, Source(t))
             number == Given(on) + 1
             into == Into(pass.doc, t, on)
  <2>1. on \in Daemons /\ pass.doc \in Valid /\ pass # NoPass
    BY <1>7, StartedIsTask, PassHasDocument DEF PassStart
  <2>2. into \in Daemons
    BY <1>7, <2>1, StartedIsTask
  <2>3. number \in 1 .. MaxTasks
    BY <1>7, <2>1, GivenIsNatural DEF PassStart
  <2>4. tasks' = tasks \cup {[on |-> on, number |-> number, transfer |-> t,
                              into |-> into, state |-> "alive"]}
        /\ pass' = [pass EXCEPT
                      !.todo = @ \ {t},
                      !.sent = @ \cup {[transfer |-> t, on |-> on, number |-> number]}]
        /\ UNCHANGED <<configVars, serves, row, recovery, restarts>>
    BY <1>7 DEF PassStart
  <2> HIDE DEF on, number, into
  <2>5. tasks' \subseteq Tasks
    BY <2>1, <2>2, <2>3, <2>4 DEF TypeOK, Tasks
  <2>6. [transfer |-> t, on |-> on, number |-> number]
          \in [transfer : Transfers, on : Daemons, number : 1 .. MaxTasks]
    BY <2>1, <2>3
  <2>7. pass \in [doc : Valid, todo : SUBSET Transfers,
                  sent : SUBSET [transfer : Transfers, on : Daemons, number : 1 .. MaxTasks]]
    BY <2>1 DEF TypeOK, Passes
  <2>8. pass' \in Passes
    BY <2>4, <2>6, <2>7 DEF Passes
  <2> QED
    BY <2>4, <2>5, <2>8 DEF TypeOK, configVars
<1>8. ASSUME NEW t \in Transfers, PassRefused(t) \/ PassRaises(t) PROVE TypeOK'
  BY <1>8 DEF PassRefused, PassRaises, TypeOK, configVars, Passes, NoPass
<1>9. ASSUME NEW k \in tasks, EndTold(k) \/ EndLost(k) \/ KillTold(k) PROVE TypeOK'
  <2>1. k \in Tasks
    BY DEF TypeOK
  <2>2. [k EXCEPT !.state = "ended"] \in Tasks /\ tasks \subseteq Tasks
    BY <2>1, TaskUpdates DEF TypeOK
  <2>3. tasks' \subseteq Tasks
    BY <1>9, <2>2 DEF EndTold, EndLost, KillTold
  <2>4. /\ k.transfer \in Transfers
        /\ row[k.transfer] \in Rows /\ row[k.transfer].state \in RowStates
    BY <2>1 DEF TypeOK, Tasks, Rows
  <2>5. /\ [row[k.transfer] EXCEPT !.state = "told"] \in Rows
        /\ [row[k.transfer] EXCEPT !.state = row[k.transfer].state] \in Rows
    BY <2>4, RowUpdates DEF RowStates
  <2>6. row' = row \/ row' = [row EXCEPT ![k.transfer].state = "told"]
        \/ row' = [row EXCEPT ![k.transfer].state = row[k.transfer].state]
    BY <1>9 DEF EndTold, EndLost, KillTold
  <2>7. row' \in [Transfers -> Rows]
    BY <2>4, <2>5, <2>6 DEF TypeOK
  <2> QED
    BY <1>9, <2>3, <2>7 DEF EndTold, EndLost, KillTold, TypeOK, configVars
<1>10. ASSUME NEW t \in Transfers, ReconcileStep(t) PROVE TypeOK'
  <2>1. \/ row' = row
        \/ \E state \in RowStates : row' = [row EXCEPT ![t].state = state]
    BY <1>10
       DEF ReconcileStep, ReconcileAdopts, ReconcileWaits, ReconcileGivesUp, ReconcileRaises,
           Settled, RowStates
  <2>2. \A state \in RowStates : [row[t] EXCEPT !.state = state] \in Rows
    BY RowUpdates DEF TypeOK
  <2>3. row' \in [Transfers -> Rows]
    BY <2>1, <2>2 DEF TypeOK
  <2> QED
    BY <1>10, <2>3
       DEF ReconcileStep, ReconcileAdopts, ReconcileWaits, ReconcileGivesUp, ReconcileRaises,
           Settled, TypeOK, configVars
<1>11. CASE UNCHANGED vars
  BY <1>11 DEF vars, configVars, TypeOK
<1> QED
  BY <1>1, <1>2, <1>3, <1>4, <1>5, <1>6, <1>7, <1>8, <1>9, <1>10, <1>11 DEF Next, PassStep

\* Controller, daemons, rows and tasks are well typed, under every sequence of documents.
THEOREM TypeCorrect == Spec => []TypeOK
BY TypeInit, TypeNext, PTL DEF Spec

-----------------------------------------------------------------------------
(* What a step does to tasks and to rows.                                  *)

Same(k, l) ==
    /\ k.on = l.on /\ k.number = l.number
    /\ k.transfer = l.transfer /\ k.into = l.into
    /\ k.state # "alive" => l = k

\* No task is lost, and one that is over stays as it is.
TasksLast == \A k \in tasks : \E l \in tasks' : Same(k, l)

\* And there is none that was not there before.
NoneGiven == \A l \in tasks' : \E k \in tasks : Same(k, l)

\* No step takes a task away, and only the start of one adds any.
LEMMA TaskSteps ==
    ASSUME TypeOK, [Next]_vars
    PROVE  TasksLast /\ (NoneGiven \/ \E t \in Transfers : PassStart(t))
<1>1. CASE UNCHANGED tasks
  BY <1>1 DEF TasksLast, NoneGiven, Same
<1>2. ASSUME NEW t \in Transfers, CancelAssigned(t) PROVE TasksLast /\ NoneGiven
  <2> DEFINE Stopped(k) == IF k \in Named(t) /\ k.state = "alive"
                           THEN [k EXCEPT !.state = "killed"] ELSE k
  <2>1. tasks' = {Stopped(k) : k \in tasks}
    BY <1>2 DEF CancelAssigned
  <2>2. ASSUME NEW k \in tasks PROVE Same(k, Stopped(k))
    BY TaskUpdates DEF TypeOK, Same
  <2> HIDE DEF Stopped
  <2> QED
    BY <2>1, <2>2 DEF TasksLast, NoneGiven
<1>3. ASSUME NEW t \in Transfers, PassStart(t) PROVE TasksLast
  BY <1>3 DEF PassStart, TasksLast, Same
<1>4. ASSUME NEW k \in tasks, EndTold(k) \/ EndLost(k) PROVE TasksLast /\ NoneGiven
  <2> DEFINE ended == [k EXCEPT !.state = "ended"]
  <2>1. tasks' = (tasks \ {k}) \cup {ended} /\ k.state = "alive"
    BY <1>4 DEF EndTold, EndLost
  <2>2. Same(k, ended) /\ \A l \in tasks : Same(l, l)
    BY <2>1, TaskUpdates DEF TypeOK, Same
  <2> HIDE DEF ended
  <2> QED
    BY <2>1, <2>2 DEF TasksLast, NoneGiven
<1>5. [Next]_vars =>
        \/ UNCHANGED tasks
        \/ \E t \in Transfers : CancelAssigned(t) \/ PassStart(t)
        \/ \E k \in tasks : EndTold(k) \/ EndLost(k)
  BY DEF Next, Reload, Restart, DaemonRestart, PassBegin, PassCommit, SubmitWarm, SubmitFlush,
         CancelWaiting, PassStep, PassRefused, PassRaises, ReconcileStep, ReconcileAdopts,
         ReconcileWaits, ReconcileGivesUp, ReconcileRaises, Settled, KillTold, vars
<1> QED
  BY <1>1, <1>2, <1>3, <1>4, <1>5

\* Where a row may go without a pass.
Onward(from, to) ==
    \/ to = from
    \/ from = "none" /\ to = "waiting"
    \/ from = "waiting" /\ to = "cancelled"
    \/ from = "assigned" /\ to \in {"told", "adopted", "given_up", "cancelled"}

RowsMove ==
    \A t \in Transfers :
      /\ row'[t].on = row[t].on
      /\ row'[t].number = row[t].number
      /\ Onward(row[t].state, row'[t].state)

\* A row is numbered by the commit of a pass alone.
LEMMA RowSteps ==
    ASSUME TypeOK, recovery \subseteq In("assigned"), [Next]_vars
    PROVE  RowsMove \/ PassCommit
<1>1. ASSUME NEW t \in Transfers, NEW state \in RowStates, Onward(row[t].state, state),
             row' = [row EXCEPT ![t].state = state]
      PROVE  RowsMove
  BY <1>1 DEF RowsMove, Onward, TypeOK, Rows
<1>2. ASSUME UNCHANGED row PROVE RowsMove
  BY <1>2 DEF RowsMove, Onward
<1>3. ASSUME NEW t \in Transfers, SubmitWarm(t) \/ SubmitFlush(t) PROVE RowsMove
  <2>1. PICK prepared \in BOOLEAN :
          row' = [row EXCEPT ![t].state = "waiting", ![t].prepared = prepared]
    BY <1>3 DEF SubmitWarm, SubmitFlush, Reaches
  <2>2. row[t].state = "none"
    BY <1>3 DEF SubmitWarm, SubmitFlush
  <2> QED
    BY <2>1, <2>2 DEF RowsMove, Onward, TypeOK, Rows
<1>4. ASSUME NEW t \in Transfers, CancelWaiting(t) \/ CancelAssigned(t) PROVE RowsMove
  BY <1>1, <1>4 DEF CancelWaiting, CancelAssigned, Onward, RowStates
<1>5. ASSUME NEW k \in tasks, EndTold(k) \/ KillTold(k) PROVE RowsMove
  <2>1. k.transfer \in Transfers
    BY DEF TypeOK, Tasks
  <2>2. CASE row' = [row EXCEPT ![k.transfer].state = "told"]
             /\ row[k.transfer].state = "assigned"
    BY <1>1, <2>1, <2>2 DEF Onward, RowStates
  <2>3. CASE row' = [row EXCEPT ![k.transfer].state = row[k.transfer].state]
    BY <2>1, <2>3 DEF RowsMove, Onward, TypeOK, Rows
  <2> QED
    BY <1>5, <2>2, <2>3 DEF EndTold, KillTold
<1>6. ASSUME NEW t \in Transfers, ReconcileStep(t) PROVE RowsMove
  <2>1. t \in recovery => row[t].state = "assigned"
    BY DEF In
  <2>2. ASSUME NEW state \in {"adopted", "assigned", "given_up"}, Settled(t, state)
        PROVE  RowsMove
    <3>1. row[t].state = "assigned" /\ state \in RowStates
      BY <2>1, <2>2 DEF Settled, RowStates
    <3>2. Onward(row[t].state, state)
      BY <3>1 DEF Onward
    <3> QED
      BY <1>1, <2>2, <3>1, <3>2 DEF Settled
  <2>3. CASE ReconcileRaises(t)
    <3>1. UNCHANGED row
      BY <2>3 DEF ReconcileRaises
    <3> QED
      BY <1>2, <3>1
  <2> QED
    BY <1>6, <2>2, <2>3 DEF ReconcileStep, ReconcileAdopts, ReconcileWaits, ReconcileGivesUp
<1>7. [Next]_vars =>
        \/ UNCHANGED row \/ PassCommit
        \/ \E t \in Transfers :
             \/ SubmitWarm(t) \/ SubmitFlush(t) \/ CancelWaiting(t) \/ CancelAssigned(t)
             \/ ReconcileStep(t)
        \/ \E k \in tasks : EndTold(k) \/ KillTold(k)
  BY DEF Next, Reload, Restart, DaemonRestart, PassBegin, PassStep, PassStart, PassRefused,
         PassRaises, EndLost, vars
<1> QED
  BY <1>2, <1>3, <1>4, <1>5, <1>6, <1>7

-----------------------------------------------------------------------------
(* The inductive invariant.                                                *)

\* A daemon was given the task for the transfer under that number.
Own(t, on, number) ==
    \E k \in tasks : k.transfer = t /\ k.on = on /\ k.number = number

\* Whoever looks the source up finds that daemon, unless the source was moved.
AsksRight(t, on) ==
    Source(t) \in Fixed =>
      \A doc \in Valid : Source(t) \in Known(doc) => DaemonFor(doc, Source(t)) = on

NumbersSound ==
    /\ \A d \in Daemons : \E n \in Nat : Numbers(d) = 1 .. n
    /\ \A k, l \in tasks : k.on = l.on /\ k.number = l.number => k.transfer = l.transfer

RowSound(t) ==
    /\ row[t].state \in {"none", "waiting"} => row[t].number = 0
    /\ row[t].state = "assigned" => row[t].number # 0
    /\ row[t].number # 0 =>
         Own(t, row[t].on, row[t].number) /\ AsksRight(t, row[t].on)

RowsSound ==
    /\ recovery \subseteq In("assigned")
    /\ \A t \in Transfers : RowSound(t)

SentSound(sent) ==
    /\ sent.transfer \notin pass.todo
    /\ row[sent.transfer].number = 0
    /\ Own(sent.transfer, sent.on, sent.number)
    /\ AsksRight(sent.transfer, sent.on)

PassSound ==
    /\ recovery # {} => pass = NoPass
    /\ \A t \in pass.todo : row[t].number = 0
    /\ \A sent \in pass.sent : SentSound(sent)
    /\ \A one, other \in pass.sent : one.transfer = other.transfer => one = other

\* A cancel that named a task leaves its number in the row.
KillsSound ==
    \A k \in tasks :
      k.state = "killed" =>
        \/ row[k.transfer].state = "cancelled" /\ row[k.transfer].number # 0
        \/ \E t \in Transfers :
             row[t].state = "cancelled" /\ row[t].number # 0 /\ Source(t) \notin Fixed

TopologyInv ==
    /\ TypeOK /\ NumbersSound /\ RowsSound /\ PassSound
    /\ LandsAtTarget /\ AdoptedHasEnded /\ KillsSound

\* At first there are no tasks, no numbers and no pass.
LEMMA InvInit == Init => TopologyInv
<1> SUFFICES ASSUME Init PROVE TopologyInv
  OBVIOUS
<1>1. tasks = {} /\ recovery = {} /\ pass = NoPass
      /\ \A t \in Transfers : row[t].state = "none" /\ row[t].number = 0
  BY DEF Init
<1>2. \A d \in Daemons : Numbers(d) = 1 .. 0
  BY <1>1 DEF Numbers
<1>3. NumbersSound
  BY <1>1, <1>2 DEF NumbersSound
<1>4. RowsSound /\ PassSound
  BY <1>1 DEF RowsSound, RowSound, PassSound, SentSound, NoPass
<1>5. LandsAtTarget /\ AdoptedHasEnded /\ KillsSound
  BY <1>1 DEF LandsAtTarget, AdoptedHasEnded, KillsSound, In
<1> QED
  BY TypeInit, <1>3, <1>4, <1>5 DEF TopologyInv

\* The number a daemon gives next is one that it has not given before.
LEMMA NextNumberIsNew ==
    ASSUME NumbersSound, NEW d \in Daemons
    PROVE  /\ Given(d) \in Nat
           /\ Numbers(d) = 1 .. Given(d)
           /\ \A k \in tasks : k.on = d => k.number # Given(d) + 1
<1>1. PICK n \in Nat : Numbers(d) = 1 .. n
  BY DEF NumbersSound
<1>2. Given(d) = n
  BY <1>1, FS_Interval DEF Given
<1>3. \A k \in tasks : k.on = d => k.number \in Numbers(d)
  BY DEF Numbers
<1> QED
  BY <1>1, <1>2, <1>3

\* Numbers stay without a gap, and each stays with one transfer.
LEMMA NumbersStaySound ==
    ASSUME TypeOK, NumbersSound, [Next]_vars
    PROVE  NumbersSound'
<1>1. CASE NoneGiven
  <2>1. \A d \in Daemons : Numbers(d)' = Numbers(d)
    BY <1>1, TaskSteps DEF NoneGiven, TasksLast, Same, Numbers
  <2>2. \A k, l \in tasks' : k.on = l.on /\ k.number = l.number => k.transfer = l.transfer
    BY <1>1 DEF NoneGiven, Same, NumbersSound
  <2> QED
    BY <2>1, <2>2 DEF NumbersSound
<1>2. ASSUME NEW t \in Transfers, PassStart(t) PROVE NumbersSound'
  <2>1. PICK on \in Daemons, new \in tasks' :
          /\ tasks' = tasks \cup {new}
          /\ new.on = on /\ new.number = Given(on) + 1
    <3> DEFINE on == DaemonFor(wired, Source(t))
               new == [on |-> on, number |-> Given(on) + 1, transfer |-> t,
                       into |-> Into(pass.doc, t, on), state |-> "alive"]
    <3>1. on \in Daemons /\ tasks' = tasks \cup {new}
      BY <1>2, StartedIsTask DEF PassStart
    <3>2. new.on = on /\ new.number = Given(on) + 1
      OBVIOUS
    <3> HIDE DEF new, on
    <3> QED
      BY <3>1, <3>2
  <2>2. \A d \in Daemons : d # on => Numbers(d)' = Numbers(d)
    BY <2>1 DEF Numbers
  <2>3. Numbers(on)' = Numbers(on) \cup {Given(on) + 1}
    <3>1. ASSUME NEW n \in Numbers(on)' PROVE n \in Numbers(on) \cup {Given(on) + 1}
      <4>1. PICK k \in tasks' : k.on = on /\ n = k.number
        BY DEF Numbers
      <4> QED
        BY <2>1, <4>1 DEF Numbers
    <3>2. Numbers(on) \subseteq Numbers(on)'
      BY <2>1 DEF Numbers
    <3>3. Given(on) + 1 \in Numbers(on)'
      BY <2>1 DEF Numbers
    <3> QED
      BY <3>1, <3>2, <3>3
  <2>4. Numbers(on)' = 1 .. (Given(on) + 1) /\ Given(on) + 1 \in Nat
    BY <2>1, <2>3, NextNumberIsNew
  <2>5. ASSUME NEW d \in Daemons PROVE \E n \in Nat : Numbers(d)' = 1 .. n
    <3>1. CASE d = on
      BY <2>4, <3>1
    <3>2. CASE d # on
      BY <2>2, <3>2 DEF NumbersSound
    <3> QED
      BY <3>1, <3>2
  <2>6. \A k, l \in tasks' : k.on = l.on /\ k.number = l.number => k.transfer = l.transfer
    BY <2>1, NextNumberIsNew DEF NumbersSound
  <2> QED
    BY <2>5, <2>6 DEF NumbersSound
<1> QED
  BY <1>1, <1>2, TaskSteps

\* What a daemon was given for a transfer, it was given for good.
LEMMA OwnStays ==
    ASSUME TypeOK, [Next]_vars, NEW t, NEW on, NEW number, Own(t, on, number)
    PROVE  Own(t, on, number)'
BY TaskSteps DEF Own, TasksLast, Same

\* A commit copies into every row that was sent what was noted for it, and no other row
\* changes.
LEMMA CommitCopies ==
    ASSUME TypeOK, PassSound, PassCommit, NEW t \in Transfers
    PROVE  \/ row'[t] = row[t] /\ \A sent \in pass.sent : sent.transfer # t
           \/ \E sent \in pass.sent :
                /\ sent.transfer = t
                /\ row'[t].state = "assigned"
                /\ row'[t].on = sent.on
                /\ row'[t].number = sent.number
<1>1. CASE \E k \in pass.sent : k.transfer = t
  <2> DEFINE k == CHOOSE k \in pass.sent : k.transfer = t
  <2>1. k \in pass.sent /\ k.transfer = t
    BY <1>1
  <2>2. row'[t] = [row[t] EXCEPT !.state = "assigned", !.on = k.on, !.number = k.number]
    BY <1>1 DEF PassCommit
  <2>3. row[t] \in Rows
    BY DEF TypeOK
  <2> HIDE DEF k
  <2> QED
    BY <2>1, <2>2, <2>3 DEF Rows
<1>2. CASE ~\E k \in pass.sent : k.transfer = t
  BY <1>2 DEF PassCommit
<1> QED
  BY <1>1, <1>2

\* Rows that reconciliation has yet to look at change by its own steps alone, and no pass
\* runs beside it.
LEMMA RecoverySteps ==
    ASSUME TypeOK, PassSound, [Next]_vars
    PROVE  \/ recovery' = In("assigned") /\ pass = NoPass /\ UNCHANGED <<row, pass>>
           \/ /\ recovery' \subseteq recovery
              /\ \A t \in recovery' : row'[t] = row[t]
              /\ recovery' # {} => pass' = pass
<1> DEFINE Goal == \/ recovery' = In("assigned") /\ pass = NoPass /\ UNCHANGED <<row, pass>>
                   \/ /\ recovery' \subseteq recovery
                      /\ \A t \in recovery' : row'[t] = row[t]
                      /\ recovery' # {} => pass' = pass
<1>1. ASSUME Serving, UNCHANGED recovery PROVE Goal
  BY <1>1 DEF Serving
<1>2. ASSUME NEW doc \in Documents, Restart(doc) PROVE Goal
  BY <1>2 DEF Restart
<1>3. ASSUME UNCHANGED <<row, pass, recovery>> PROVE Goal
  BY <1>3
<1>4. ASSUME NEW t \in Transfers, ReconcileStep(t) PROVE Goal
  <2>1. ASSUME NEW state \in {"adopted", "assigned", "given_up"}, Settled(t, state)
        PROVE  Goal
    <3>1. \A u \in Transfers : u # t => row'[u] = row[u]
      BY <2>1 DEF Settled, TypeOK
    <3>2. recovery' = recovery \ {t} /\ pass' = pass /\ recovery \subseteq Transfers
      BY <2>1 DEF Settled, TypeOK
    <3> QED
      BY <3>1, <3>2
  <2>2. CASE ReconcileRaises(t)
    BY <2>2 DEF ReconcileRaises
  <2> QED
    BY <1>4, <2>1, <2>2 DEF ReconcileStep, ReconcileAdopts, ReconcileWaits, ReconcileGivesUp
<1>5. ASSUME pass # NoPass, UNCHANGED recovery PROVE Goal
  BY <1>5 DEF PassSound
<1>6. ASSUME NEW t \in Transfers, PassStep(t) PROVE pass # NoPass /\ UNCHANGED recovery
  BY <1>6, PassHasDocument DEF PassStep, PassStart, PassRefused, PassRaises
<1>7. [Next]_vars =>
        \/ Serving /\ UNCHANGED recovery
        \/ pass # NoPass /\ UNCHANGED recovery
        \/ UNCHANGED <<row, pass, recovery>>
        \/ \E doc \in Documents : Restart(doc)
        \/ \E t \in Transfers : ReconcileStep(t)
  BY <1>6
     DEF Next, Reload, DaemonRestart, PassBegin, PassCommit, SubmitWarm, SubmitFlush,
         CancelWaiting, CancelAssigned, EndTold, EndLost, KillTold, vars
<1> QED
  BY <1>1, <1>2, <1>3, <1>4, <1>5, <1>7

\* A row that is numbered names its own task, on the daemon that would be asked.
LEMMA RowsStaySound ==
    ASSUME TypeOK, RowsSound, PassSound, [Next]_vars
    PROVE  RowsSound'
<1>1. ASSUME NEW t \in Transfers PROVE RowSound(t)'
  <2>1. ASSUME NEW on, NEW number,
               row'[t].on = on, row'[t].number = number,
               row'[t].state \in {"none", "waiting"} => number = 0,
               row'[t].state = "assigned" => number # 0,
               number # 0 => Own(t, on, number) /\ AsksRight(t, on)
        PROVE  RowSound(t)'
    <3>1. number # 0 => Own(t, on, number)'
      BY <2>1, OwnStays
    <3> QED
      BY <2>1, <3>1 DEF RowSound, Own, AsksRight
  <2>2. CASE RowsMove
    <3>1. row'[t].on = row[t].on /\ row'[t].number = row[t].number
          /\ Onward(row[t].state, row'[t].state)
      BY <2>2 DEF RowsMove
    <3> QED
      BY <2>1, <3>1 DEF RowsSound, RowSound, Onward
  <2>3. CASE PassCommit
    <3>1. CASE row'[t] = row[t]
      BY <2>1, <3>1 DEF RowsSound, RowSound
    <3>2. CASE row'[t] # row[t]
      <4>1. PICK sent \in pass.sent :
              /\ sent.transfer = t
              /\ row'[t].state = "assigned"
              /\ row'[t].on = sent.on /\ row'[t].number = sent.number
        BY <2>3, <3>2, CommitCopies
      <4>2. Own(t, sent.on, sent.number) /\ AsksRight(t, sent.on)
        BY <4>1 DEF PassSound, SentSound
      <4>3. sent.number # 0
        BY PassIsTyped
      <4> QED
        BY <2>1, <4>1, <4>2, <4>3
    <3> QED
      BY <3>1, <3>2
  <2> QED
    BY <2>2, <2>3, RowSteps DEF RowsSound
<1>2. (recovery \subseteq In("assigned"))'
  BY RecoverySteps DEF RowsSound, In, TypeOK
<1> QED
  BY <1>1, <1>2 DEF RowsSound

\* What a pass notes as sent is sound while its rows keep their numbers.
LEMMA SentStaySound ==
    ASSUME TypeOK, PassSound, RowsMove, [Next]_vars, NEW sent \in pass.sent,
           pass'.todo \subseteq pass.todo
    PROVE  SentSound(sent)'
<1>1. SentSound(sent) /\ sent.transfer \in Transfers
  BY PassIsTyped DEF PassSound
<1>2. Own(sent.transfer, sent.on, sent.number)'
  BY <1>1, OwnStays DEF SentSound
<1>3. row'[sent.transfer].number = 0
  BY <1>1 DEF SentSound, RowsMove
<1> QED
  BY <1>1, <1>2, <1>3 DEF SentSound, AsksRight

\* A pass knows each of its transfers as waiting or sent, and what it sent as the
\* transfer's own.
LEMMA PassStaysSound ==
    ASSUME TypeOK, NumbersSound, RowsSound, PassSound, [Next]_vars
    PROVE  PassSound'
<1>1. (recovery # {} => pass = NoPass)'
  BY RecoverySteps DEF PassSound, NoPass
<1>2. CASE pass' = pass /\ RowsMove
  <2>1. \A t \in pass.todo : row'[t].number = 0
    BY <1>2, PassIsTyped DEF PassSound, RowsMove
  <2>2. \A sent \in pass.sent : SentSound(sent)'
    BY <1>2, SentStaySound
  <2> QED
    BY <1>1, <1>2, <2>1, <2>2 DEF PassSound
<1>3. CASE pass' = NoPass
  BY <1>1, <1>3 DEF PassSound, NoPass
<1>4. CASE PassBegin
  <2>1. pass'.todo = In("waiting") /\ pass'.sent = {} /\ row' = row
    BY <1>4 DEF PassBegin
  <2>2. \A t \in In("waiting") : row[t].number = 0
    BY DEF In, RowsSound, RowSound
  <2> QED
    BY <1>1, <2>1, <2>2 DEF PassSound
<1>5. ASSUME NEW t \in Transfers, PassRefused(t) PROVE PassSound'
  <2>1. /\ pass'.todo = pass.todo \ {t} /\ pass'.sent = pass.sent
        /\ UNCHANGED <<row, tasks>>
    BY <1>5 DEF PassRefused, TypeOK, Passes, NoPass
  <2>2. \A sent \in pass.sent : SentSound(sent)'
    BY <2>1 DEF PassSound, SentSound, Own, AsksRight
  <2> QED
    BY <1>1, <2>1, <2>2 DEF PassSound
<1>6. ASSUME NEW t \in Transfers, PassStart(t) PROVE PassSound'
  <2>1. PICK on \in Daemons, new \in pass'.sent, k \in tasks' :
          /\ t \in pass.todo /\ row' = row /\ on = DaemonFor(wired, Source(t))
          /\ pass'.todo = pass.todo \ {t} /\ pass'.sent = pass.sent \cup {new}
          /\ tasks \subseteq tasks'
          /\ new.transfer = t /\ new.on = on
          /\ k.transfer = t /\ k.on = on /\ k.number = new.number
    <3> DEFINE on == DaemonFor(wired, Source(t))
               number == Given(on) + 1
               new == [transfer |-> t, on |-> on, number |-> number]
               k == [on |-> on, number |-> number, transfer |-> t,
                     into |-> Into(pass.doc, t, on), state |-> "alive"]
    <3>1. /\ t \in pass.todo /\ row' = row /\ tasks' = tasks \cup {k}
          /\ pass' = [pass EXCEPT !.todo = @ \ {t}, !.sent = @ \cup {new}]
      BY <1>6 DEF PassStart
    <3>2. on \in Daemons
      BY <1>6, StartedIsTask
    <3>3. /\ new.transfer = t /\ new.on = on /\ k.transfer = t
          /\ k.on = on /\ k.number = new.number
      OBVIOUS
    <3> HIDE DEF new, k
    <3>4. pass'.todo = pass.todo \ {t} /\ pass'.sent = pass.sent \cup {new}
      BY <3>1 DEF TypeOK, Passes, NoPass
    <3> HIDE DEF number
    <3> QED
      BY <3>1, <3>2, <3>3, <3>4
  <2>2. AsksRight(t, on)
    BY <1>6, <2>1, StartedIsTask, FixedAgrees DEF AsksRight, TypeOK
  <2>3. \A sent \in pass.sent : SentSound(sent) /\ sent.transfer # t
    BY <2>1 DEF PassSound, SentSound
  <2>4. \A sent \in pass.sent : SentSound(sent)'
    BY <2>1, <2>3 DEF SentSound, Own, AsksRight
  <2>5. SentSound(new)'
    BY <2>1, <2>2 DEF SentSound, Own, AsksRight, PassSound
  <2> QED
    BY <1>1, <2>1, <2>3, <2>4, <2>5 DEF PassSound
<1>7. \/ pass' = NoPass \/ PassBegin
      \/ \E t \in Transfers : PassRefused(t) \/ PassStart(t)
      \/ pass' = pass /\ ~PassCommit
  BY DEF Next, Reload, Restart, DaemonRestart, SubmitWarm, SubmitFlush, CancelWaiting,
         CancelAssigned, PassCommit, PassStep, PassRaises, EndTold, EndLost, KillTold,
         ReconcileStep, ReconcileAdopts, ReconcileWaits, ReconcileGivesUp, ReconcileRaises,
         Settled, vars
<1> QED
  BY <1>2, <1>3, <1>4, <1>5, <1>6, <1>7, RowSteps DEF RowsSound

\* What is started goes to the daemon of its target: both ends are looked up in the
\* document of the pass, and a daemon that does not move is the same in every document.
LEMMA LandsStays ==
    ASSUME TypeOK, LandsAtTarget, [Next]_vars
    PROVE  LandsAtTarget'
<1> DEFINE Lands(k) == Ends(k.transfer) \subseteq Fixed =>
                         \A doc \in Valid :
                           Target(k.transfer) \in Known(doc) =>
                             k.into = DaemonFor(doc, Target(k.transfer))
<1>1. \A k \in tasks : Lands(k)
  BY DEF LandsAtTarget
<1>2. CASE NoneGiven
  <2> SUFFICES ASSUME NEW l \in tasks' PROVE Lands(l)
    BY DEF LandsAtTarget
  <2>1. PICK k \in tasks : l.transfer = k.transfer /\ l.into = k.into
    BY <1>2 DEF NoneGiven, Same
  <2> QED
    BY <1>1, <2>1
<1>3. ASSUME NEW t \in Transfers, PassStart(t) PROVE LandsAtTarget'
  <2>1. PICK on \in Daemons, k \in tasks' :
          /\ on = DaemonFor(wired, Source(t))
          /\ tasks' = tasks \cup {k}
          /\ k.transfer = t /\ k.into = Into(pass.doc, t, on)
    <3> DEFINE on == DaemonFor(wired, Source(t))
               k == [on |-> on, number |-> Given(on) + 1, transfer |-> t,
                     into |-> Into(pass.doc, t, on), state |-> "alive"]
    <3>1. tasks' = tasks \cup {k}
      BY <1>3 DEF PassStart
    <3>2. on \in Daemons
      BY <1>3, StartedIsTask
    <3>3. k.transfer = t /\ k.into = Into(pass.doc, t, on)
      OBVIOUS
    <3> HIDE DEF k
    <3> QED
      BY <3>1, <3>2, <3>3
  <2>2. ASSUME Ends(t) \subseteq Fixed, NEW doc \in Valid, Target(t) \in Known(doc)
        PROVE  Into(pass.doc, t, on) = DaemonFor(doc, Target(t))
    <3>1. /\ pass.doc \in Valid /\ wired \in Valid /\ Source(t) \in Known(wired)
          /\ Source(t) \in Known(pass.doc) /\ Target(t) \in Known(pass.doc)
      BY <1>3, StartedIsTask DEF Ends, TypeOK
    <3>2. on = DaemonFor(pass.doc, Source(t))
      BY <2>1, <2>2, <3>1, FixedAgrees DEF Ends
    <3>3. DaemonFor(pass.doc, Target(t)) = DaemonFor(doc, Target(t))
      BY <2>2, <3>1, FixedAgrees DEF Ends
    <3> QED
      BY <3>2, <3>3 DEF Into
  <2>3. Lands(k)
    BY <2>1, <2>2
  <2>4. \A l \in tasks' : Lands(l)
    BY <1>1, <2>1, <2>3
  <2> QED
    BY <2>4 DEF LandsAtTarget
<1> QED
  BY <1>2, <1>3, TaskSteps

\* A task that is named by a row in flight is the row's own, unless its source was moved:
\* the daemon that is asked is the one that gave the number.
LEMMA NamedIsOwn ==
    ASSUME TypeOK, NumbersSound, RowsSound, NEW t \in In("assigned"),
           Source(t) \in Fixed, Source(t) \in Known(wired), NEW k \in Named(t)
    PROVE  k \in tasks /\ k.transfer = t /\ k.number = row[t].number
<1>1. Own(t, row[t].on, row[t].number) /\ AsksRight(t, row[t].on)
  BY DEF RowsSound, RowSound, In
<1>2. DaemonFor(wired, Source(t)) = row[t].on
  BY <1>1 DEF AsksRight, TypeOK
<1> QED
  BY <1>1, <1>2 DEF Named, Own, NumbersSound

\* Nothing but reconciliation adopts.
LEMMA AdoptsByReconciling ==
    ASSUME TypeOK, PassSound, [Next]_vars, NEW t \in Transfers,
           row[t].state # "adopted", row'[t].state = "adopted"
    PROVE  ReconcileAdopts(t)
<1>1. ASSUME NEW u \in Transfers, NEW state,
             row' = [row EXCEPT ![u].state = state]
      PROVE  u = t /\ state = "adopted"
  BY <1>1 DEF TypeOK, Rows
<1>2. ASSUME NEW u \in Transfers, SubmitWarm(u) \/ SubmitFlush(u) PROVE FALSE
  <2>1. PICK prepared \in BOOLEAN :
          row' = [row EXCEPT ![u].state = "waiting", ![u].prepared = prepared]
    BY <1>2 DEF SubmitWarm, SubmitFlush, Reaches
  <2> QED
    BY <2>1 DEF TypeOK, Rows
<1>3. ASSUME NEW u \in Transfers, CancelWaiting(u) \/ CancelAssigned(u) PROVE FALSE
  <2>1. row' = [row EXCEPT ![u].state = "cancelled"]
    BY <1>3 DEF CancelWaiting, CancelAssigned
  <2> QED
    BY <1>1, <2>1
<1>4. ASSUME NEW k \in tasks, EndTold(k) \/ KillTold(k) PROVE FALSE
  <2>1. k.transfer \in Transfers
    BY DEF TypeOK, Tasks
  <2>2. \/ row' = [row EXCEPT ![k.transfer].state = "told"]
        \/ row' = [row EXCEPT ![k.transfer].state = row[k.transfer].state]
    BY <1>4 DEF EndTold, KillTold
  <2> QED
    BY <1>1, <2>1, <2>2
<1>5. ASSUME NEW u \in Transfers, ReconcileStep(u) PROVE ReconcileAdopts(t)
  <2>1. ASSUME NEW state \in {"adopted", "assigned", "given_up"}, Settled(u, state)
        PROVE  u = t /\ state = "adopted"
    BY <1>1, <2>1 DEF Settled
  <2>2. ~ReconcileRaises(u)
    BY DEF ReconcileRaises
  <2>3. ~ReconcileWaits(u) /\ ~ReconcileGivesUp(u) /\ (ReconcileAdopts(u) => u = t)
    BY <2>1 DEF ReconcileAdopts, ReconcileWaits, ReconcileGivesUp
  <2> QED
    BY <1>5, <2>2, <2>3 DEF ReconcileStep
<1>6. ~PassCommit
  BY CommitCopies
<1>7. ~UNCHANGED row
  OBVIOUS
<1> QED
  BY <1>2, <1>3, <1>4, <1>5, <1>6, <1>7
     DEF Next, Reload, Restart, DaemonRestart, PassBegin, PassStep, PassStart, PassRefused,
         PassRaises, EndLost, vars

\* An end is adopted from the row's own task alone.
LEMMA AdoptedStays ==
    ASSUME TypeOK, NumbersSound, RowsSound, PassSound, AdoptedHasEnded, [Next]_vars
    PROVE  AdoptedHasEnded'
<1> SUFFICES ASSUME NEW t \in Transfers, row'[t].state = "adopted", Source(t) \in Fixed
             PROVE  \E k \in tasks' :
                      k.transfer = t /\ k.number = row'[t].number /\ k.state # "alive"
  BY DEF AdoptedHasEnded, In
<1>1. row'[t].number = row[t].number /\ Onward(row[t].state, row'[t].state)
  BY RowSteps, CommitCopies DEF RowsMove, RowsSound, Onward
<1>2. ASSUME NEW k \in tasks, k.transfer = t, k.number = row[t].number, k.state # "alive"
      PROVE  k \in tasks'
  BY <1>2, TaskSteps DEF TasksLast, Same
<1>3. CASE row[t].state = "adopted"
  BY <1>1, <1>2, <1>3 DEF AdoptedHasEnded, In
<1>4. CASE row[t].state = "assigned"
  <2>1. ReconcileAdopts(t)
    BY <1>4, AdoptsByReconciling
  <2>2. PICK k \in Named(t) : k.state # "alive"
    BY <2>1 DEF ReconcileAdopts
  <2>3. k \in tasks /\ k.transfer = t /\ k.number = row[t].number
    BY <1>4, <2>1, NamedIsOwn DEF ReconcileAdopts, Settled, Finds, In
  <2> QED
    BY <1>1, <1>2, <2>2, <2>3
<1> QED
  BY <1>1, <1>3, <1>4 DEF Onward

\* Nothing but a cancel kills.
LEMMA KillsByCancelling ==
    ASSUME TypeOK, [Next]_vars, NEW l \in tasks', l.state = "killed", l \notin tasks
    PROVE  \E t \in Transfers :
             /\ CancelAssigned(t)
             /\ \E k \in Named(t) : k.transfer = l.transfer
<1>1. ASSUME NEW t \in Transfers, CancelAssigned(t)
      PROVE  \E k \in Named(t) : k.transfer = l.transfer
  <2>1. PICK k \in tasks :
          l = IF k \in Named(t) /\ k.state = "alive" THEN [k EXCEPT !.state = "killed"] ELSE k
    BY <1>1 DEF CancelAssigned
  <2>2. k \in Named(t) /\ l = [k EXCEPT !.state = "killed"]
    BY <2>1
  <2> QED
    BY <2>2, TaskUpdates DEF TypeOK
<1>2. ASSUME NEW t \in Transfers, PassStart(t) PROVE FALSE
  BY <1>2 DEF PassStart
<1>3. ASSUME NEW k \in tasks, EndTold(k) \/ EndLost(k) PROVE FALSE
  <2>1. l = [k EXCEPT !.state = "ended"]
    BY <1>3 DEF EndTold, EndLost
  <2> QED
    BY <2>1, TaskUpdates DEF TypeOK
<1>4. ~UNCHANGED tasks
  OBVIOUS
<1> QED
  BY <1>1, <1>2, <1>3, <1>4
     DEF Next, Reload, Restart, DaemonRestart, PassBegin, PassCommit, SubmitWarm, SubmitFlush,
         CancelWaiting, PassStep, PassRefused, PassRaises, ReconcileStep, ReconcileAdopts,
         ReconcileWaits, ReconcileGivesUp, ReconcileRaises, Settled, KillTold, vars

\* A cancelled row that was in flight stays cancelled: no pass has it.
LEMMA CancelledStays ==
    ASSUME TypeOK, RowsSound, PassSound, [Next]_vars, NEW t \in Transfers,
           row[t].state = "cancelled", row[t].number # 0
    PROVE  row'[t].state = "cancelled" /\ row'[t].number # 0
<1>1. CASE RowsMove
  BY <1>1 DEF RowsMove, Onward
<1>2. CASE PassCommit
  BY <1>2, CommitCopies DEF PassSound, SentSound
<1> QED
  BY <1>1, <1>2, RowSteps DEF RowsSound

\* A task is killed for its own row, unless a source was moved.
LEMMA KillsStay ==
    ASSUME TypeOK, NumbersSound, RowsSound, PassSound, KillsSound, [Next]_vars
    PROVE  KillsSound'
<1> DEFINE Killer(t) == row[t].state = "cancelled" /\ row[t].number # 0
<1> SUFFICES ASSUME NEW l \in tasks', l.state = "killed"
             PROVE  \/ Killer(l.transfer)'
                    \/ \E t \in Transfers : Killer(t)' /\ Source(t) \notin Fixed
  BY DEF KillsSound
<1>1. \A t \in Transfers : Killer(t) => Killer(t)'
  BY CancelledStays
<1>2. CASE l \in tasks
  <2>1. l.transfer \in Transfers
    BY <1>2 DEF TypeOK, Tasks
  <2>2. \/ Killer(l.transfer)
        \/ \E t \in Transfers : Killer(t) /\ Source(t) \notin Fixed
    BY <1>2 DEF KillsSound
  <2> QED
    BY <1>1, <2>1, <2>2
<1>3. CASE l \notin tasks
  <2>1. PICK t \in Transfers :
          CancelAssigned(t) /\ \E k \in Named(t) : k.transfer = l.transfer
    BY <1>3, KillsByCancelling
  <2>2. t \in In("assigned") /\ row[t].number # 0 /\ Source(t) \in Known(wired)
    BY <2>1 DEF CancelAssigned, In, RowsSound, RowSound, Finds
  <2>3. Killer(t)'
    BY <2>1, <2>2 DEF CancelAssigned, TypeOK, Rows
  <2>4. Source(t) \in Fixed => l.transfer = t
    BY <2>1, <2>2, NamedIsOwn
  <2> QED
    BY <2>3, <2>4
<1> QED
  BY <1>2, <1>3

\* Every step keeps the invariant.
LEMMA InvNext == TopologyInv /\ [Next]_vars => TopologyInv'
BY TypeNext, NumbersStaySound, RowsStaySound, PassStaysSound, LandsStays, AdoptedStays,
   KillsStay DEF TopologyInv

\* The invariant holds in every state.
LEMMA InvAlways == Spec => []TopologyInv
BY InvInit, InvNext, PTL DEF Spec

-----------------------------------------------------------------------------
(* What follows.                                                           *)

\* Data ends up on the daemon that serves the target, unless an end was moved to another
\* daemon: however many documents came and went between submitting, planning and starting.
THEOREM LandsThere == Spec => []LandsAtTarget
<1>1. TopologyInv => LandsAtTarget
  BY DEF TopologyInv
<1> QED
  BY <1>1, InvAlways, PTL

\* What reconciliation adopts and what a cancel stops is the row's own task, under every
\* config, unless a source was moved.
THEOREM OwnWork == Spec => []OwnWorkOnly
<1>1. TopologyInv => OwnWorkOnly
  BY DEF TopologyInv, OwnWorkOnly, KillsSound, KillsItsOwn, In
<1> QED
  BY <1>1, InvAlways, PTL

\* A task that a daemon was given is forgotten only when its pass comes to a transfer of a
\* storage that some config is without.
THEOREM Forgets == Spec => ForgetsOnlyOverLost
<1> DEFINE Kept == \A sent \in pass.sent :
                     sent \in pass'.sent
                     \/ row'[sent.transfer].number = sent.number
                     \/ \E t \in pass.todo : ~(Ends(t) \subseteq Lasting)
<1>1. TopologyInv /\ Next => Kept
  <2> SUFFICES ASSUME TopologyInv, Next, NEW sent \in pass.sent PROVE
                 sent \in pass'.sent
                 \/ row'[sent.transfer].number = sent.number
                 \/ \E t \in pass.todo : ~(Ends(t) \subseteq Lasting)
    OBVIOUS
  <2> USE DEF TopologyInv
  <2>1. ASSUME NEW t \in Transfers, PassStep(t)
        PROVE  sent \in pass'.sent \/ \E u \in pass.todo : ~(Ends(u) \subseteq Lasting)
    <3>1. CASE PassStart(t) \/ PassRefused(t)
      BY <3>1 DEF PassStart, PassRefused, TypeOK, Passes, NoPass
    <3>2. CASE PassRaises(t)
      <4>1. t \in pass.todo /\ pass.doc \in Valid /\ wired \in Valid
        BY <3>2, PassHasDocument DEF PassRaises, TypeOK
      <4>2. Ends(t) \subseteq Storages
        BY EndsAreStorages DEF Ends
      <4>3. ~(Ends(t) \subseteq Known(pass.doc)) \/ ~(Ends(t) \subseteq Known(wired))
        BY <3>2, <4>1, LookupFinds DEF PassRaises, Unknown, Ends
      <4>4. ~(Ends(t) \subseteq Lasting)
        BY <4>1, <4>2, <4>3 DEF Lasting
      <4> QED
        BY <4>1, <4>4
    <3> QED
      BY <2>1, <3>1, <3>2 DEF PassStep
  <2>2. CASE PassCommit
    <3>1. PICK other \in pass.sent :
            other.transfer = sent.transfer /\ row'[sent.transfer].number = other.number
      BY <2>2, PassIsTyped, CommitCopies
    <3> QED
      BY <3>1 DEF PassSound
  <2>3. CASE pass # NoPass /\ UNCHANGED pass
    BY <2>3
  <2>4. CASE pass = NoPass
    BY <2>4 DEF NoPass
  <2>5. \/ pass = NoPass \/ PassCommit \/ UNCHANGED pass
        \/ \E t \in Transfers : PassStep(t)
    BY DEF Next, Reload, Restart, DaemonRestart, PassBegin, SubmitWarm, SubmitFlush,
           CancelWaiting, CancelAssigned, EndTold, EndLost, KillTold, ReconcileStep,
           ReconcileAdopts, ReconcileWaits, ReconcileGivesUp, ReconcileRaises, Settled
  <2> QED
    BY <2>1, <2>2, <2>3, <2>4, <2>5
<1>2. TopologyInv /\ [Next]_vars => [Kept]_pass
  BY <1>1 DEF vars
<1> QED
  BY <1>2, InvAlways, PTL DEF Spec, ForgetsOnlyOverLost
=============================================================================
