------------------------------ MODULE Topology ------------------------------
(***************************************************************************)
(* A cluster config that changes under transfers.                          *)
(*                                                                         *)
(* Three copies of the topology are in force at once: the one the running  *)
(* controller looks storages up in (running, replaced by a reload), the    *)
(* one its clients find daemons by (wired, replaced by a start only), and  *)
(* the storages every daemon opened when it started (serves).  A pass      *)
(* works by the copy it began with.                                        *)
(*                                                                         *)
(* A row in flight is "assigned", be it ASSIGNED or RUNNING: retries,      *)
(* refused moves and the contents of reports are Controller's, limits and  *)
(* the order of the queue Dispatching's, fetching a config Distribution's. *)
(* Files of an id twice over, of a storage nobody serves and so on are     *)
(* among the documents: what a document must not say is Problems.          *)
(***************************************************************************)
EXTENDS Integers, Sequences, FiniteSets, SequencesExt

CONSTANTS
    Documents,      \* what an operator may write: see IsDocument
    Start,          \* the document of the first start
    Transfers,
    Route,          \* Transfers -> [source, target]: two storages
    Flushes,        \* the transfers that write a fileset back
    Storages,
    Daemons,
    Declarations,   \* what a daemon may be told to serve: sets of storages
    NoDocument, NoDaemon,
    MaxRestarts,    \* bound: restarts of the controller
    MaxTasks        \* bound: tasks a daemon is given

IsDocument(doc) ==
    /\ doc.rev \in Nat
    /\ doc.minRate \in Nat /\ doc.maxRate \in Nat
    /\ \A i \in DOMAIN doc.storages : doc.storages[i].id \in Storages
    /\ \A i \in DOMAIN doc.daemons : doc.daemons[i] \in Daemons
    /\ doc.throughput \subseteq Storages \X Storages

ASSUME DocumentsAssumption == \A doc \in Documents : IsDocument(doc)
ASSUME RouteAssumption ==
    Route \in [Transfers -> [source : Storages, target : Storages]]
ASSUME DeclarationsAssumption == Declarations \subseteq SUBSET Storages
ASSUME FlushesAssumption == Flushes \subseteq Transfers
ASSUME NothingAssumption == NoDocument \notin Documents /\ NoDaemon \notin Daemons
ASSUME BoundsAssumption == MaxRestarts \in Nat /\ MaxTasks \in Nat

-----------------------------------------------------------------------------
(* What a config may say.                                                  *)

Known(doc) == {doc.storages[i].id : i \in DOMAIN doc.storages}

\* The first of that id, as a lookup finds it: a config that runs has no second.
StorageOf(doc, s) ==
    doc.storages[CHOOSE i \in DOMAIN doc.storages : doc.storages[i].id = s]

DaemonFor(doc, s) == StorageOf(doc, s).daemon

\* Looking for the daemon of a storage finds one.
Finds(doc, s) == s \in Known(doc) /\ DaemonFor(doc, s) \in Range(doc.daemons)

StoragesOf(doc, d) == {i \in DOMAIN doc.storages : doc.storages[i].daemon = d}

Twice(ids) == \E i, j \in DOMAIN ids : i < j /\ ids[i] = ids[j]

\* Inside, and not the same.
IsInside(inner, outer) == IsStrictPrefix(outer, inner)

\* Mutant: nobody asks whether the daemon of a storage exists.
UndeclaredWillDo(doc, entry) ==
    \/ entry.location \notin Range(doc.locations)
    \/ "cache" \in entry.roles /\ ~entry.sized

StorageProblem(doc, entry) ==
    \/ entry.location \notin Range(doc.locations)
    \/ entry.daemon \notin Range(doc.daemons)
    \/ "cache" \in entry.roles /\ ~entry.sized

NestedRoots(doc) ==
    \E i \in DOMAIN doc.storages :
      \E j \in StoragesOf(doc, doc.storages[i].daemon) :
        /\ doc.storages[i].id # doc.storages[j].id
        /\ IsInside(doc.storages[i].root, doc.storages[j].root)

\* Any of them, and the file is refused whole.
Problems(doc) ==
    \/ Twice(doc.locations)
    \/ Twice(doc.daemons)
    \/ Twice([i \in DOMAIN doc.storages |-> doc.storages[i].id])
    \/ \E i \in DOMAIN doc.storages : StorageProblem(doc, doc.storages[i])
    \/ NestedRoots(doc)
    \/ \E route \in doc.throughput : ~({route[1], route[2]} \subseteq Known(doc))
    \/ doc.minRate > doc.maxRate

Valid == {doc \in Documents : ~Problems(doc)}

ASSUME StartAssumption == Start \in Valid

-----------------------------------------------------------------------------
VARIABLES
    running,        \* the document requests and passes look storages up in
    wired,          \* the document the clients find daemons by
    serves,         \* Daemons -> the storages the daemon has opened
    row,            \* Transfers -> state, daemon, task number, and whether a directory was prepared
    tasks,          \* what daemons were given: see Tasks
    pass,           \* the document of the pass, what it has left, what it started
    recovery,       \* rows that reconciliation has yet to look at
    restarts

configVars == <<running, wired>>
vars == <<configVars, serves, row, tasks, pass, recovery, restarts>>

RowStates ==
    {"none", "waiting", "assigned", "told", "adopted", "given_up", "cancelled"}

Rows ==
    [state : RowStates, on : Daemons \cup {NoDaemon}, number : 0 .. MaxTasks,
     prepared : BOOLEAN]

\* into: the daemon on whose disk the data ends up.
Tasks ==
    [on : Daemons, number : 1 .. MaxTasks, transfer : Transfers,
     into : Daemons, state : {"alive", "ended", "killed"}]

NoPass == [doc |-> NoDocument, todo |-> {}, sent |-> {}]

Passes ==
    {NoPass} \cup
    [doc : Valid, todo : SUBSET Transfers,
     sent : SUBSET [transfer : Transfers, on : Daemons, number : 1 .. MaxTasks]]

TypeOK ==
    /\ running \in Valid /\ wired \in Valid
    /\ serves \in [Daemons -> SUBSET Storages]
    /\ row \in [Transfers -> Rows]
    /\ tasks \subseteq Tasks
    /\ pass \in Passes
    /\ recovery \subseteq Transfers
    /\ restarts \in 0 .. MaxRestarts

Init ==
    /\ running = Start
    /\ wired = Start
    /\ serves = [d \in Daemons |-> {Start.storages[i].id : i \in StoragesOf(Start, d)}]
    /\ row = [t \in Transfers |->
                [state |-> "none", on |-> NoDaemon, number |-> 0, prepared |-> FALSE]]
    /\ tasks = {}
    /\ pass = NoPass
    /\ recovery = {}
    /\ restarts = 0

Source(t) == Route[t].source
Target(t) == Route[t].target
Ends(t) == {Source(t), Target(t)}

In(state) == {t \in Transfers : row[t].state = state}

\* Reconciliation comes before the first request, signal, report or pass.
Serving == recovery = {}

\* Mutant: a number is a number, whichever daemon gave it.
NamedAnywhere(t) == {k \in tasks : k.number = row[t].number}

\* What the daemon of the source, as the clients know it, calls by the row's task number.
Named(t) == {k \in tasks : k.on = DaemonFor(wired, Source(t)) /\ k.number = row[t].number}

-----------------------------------------------------------------------------
(* The operator.                                                           *)

\* The file as it is at a SIGHUP.
Reload(doc) ==
    /\ Serving
    /\ doc \in Valid
    /\ doc.rev > running.rev
    /\ running' = doc
    /\ UNCHANGED <<wired, serves, row, tasks, pass, recovery, restarts>>

\* Between two passes; a crash in the middle of one is Controller's.
Restart(doc) ==
    /\ restarts < MaxRestarts
    /\ pass = NoPass
    /\ doc \in Valid
    /\ running' = doc
    /\ wired' = doc
    /\ recovery' = In("assigned")
    /\ restarts' = restarts + 1
    /\ UNCHANGED <<serves, row, tasks, pass>>

\* A daemon that was told which storages to serve, and has run nothing yet.
DaemonRestart(d, declared) ==
    /\ \A k \in tasks : k.on # d
    /\ declared # serves[d]
    /\ declared \subseteq Known(running)
    /\ \A s \in declared : DaemonFor(running, s) = d
    /\ serves' = [serves EXCEPT ![d] = declared]
    /\ UNCHANGED <<configVars, row, tasks, pass, recovery, restarts>>

-----------------------------------------------------------------------------
(* Requests.  What is asked of a daemon about a storage the clients do not *)
(* know raises, and the request is over where it stands.                   *)

HasRole(doc, s, role) == s \in Known(doc) /\ role \in StorageOf(doc, s).roles

Reaches(s) == Finds(wired, s) /\ s \in serves[DaemonFor(wired, s)]

\* The source is probed, the row committed, and then the directory asked for.
SubmitWarm(t) ==
    /\ Serving
    /\ t \notin Flushes
    /\ row[t].state = "none"
    /\ HasRole(running, Source(t), "source")
    /\ HasRole(running, Target(t), "cache")
    /\ Reaches(Source(t))
    /\ row' = [row EXCEPT ![t].state = "waiting", ![t].prepared = Reaches(Target(t))]
    /\ UNCHANGED <<configVars, serves, tasks, pass, recovery, restarts>>

\* The fileset is there whatever the config says of its storage, and both are probed.
SubmitFlush(t) ==
    /\ Serving
    /\ t \in Flushes
    /\ row[t].state = "none"
    /\ HasRole(running, Target(t), "source")
    /\ \A s \in Ends(t) : Reaches(s)
    /\ row' = [row EXCEPT ![t].state = "waiting", ![t].prepared = TRUE]
    /\ UNCHANGED <<configVars, serves, tasks, pass, recovery, restarts>>

\* Nothing of a waiting transfer is anywhere else.
CancelWaiting(t) ==
    /\ Serving
    /\ row[t].state = "waiting"
    /\ row' = [row EXCEPT ![t].state = "cancelled"]
    /\ UNCHANGED <<configVars, serves, tasks, pass, recovery, restarts>>

\* The task is stopped on the daemon that the clients know for the source.
CancelAssigned(t) ==
    /\ Serving
    /\ row[t].state = "assigned"
    /\ Finds(wired, Source(t))
    /\ tasks' =
         {IF k \in Named(t) /\ k.state = "alive" THEN [k EXCEPT !.state = "killed"] ELSE k :
            k \in tasks}
    /\ row' = [row EXCEPT ![t].state = "cancelled"]
    /\ UNCHANGED <<configVars, serves, pass, recovery, restarts>>

-----------------------------------------------------------------------------
(* The pass.                                                               *)

PassBegin ==
    /\ Serving
    /\ pass = NoPass
    /\ In("waiting") # {}
    /\ pass' = [doc |-> running, todo |-> In("waiting"), sent |-> {}]
    /\ UNCHANGED <<configVars, serves, row, tasks, recovery, restarts>>

\* A storage the pass or the clients look up and do not find.
Unknown(doc, t) ==
    \/ \E s \in Ends(t) : ~Finds(doc, s)
    \/ ~Finds(wired, Source(t))
    \/ t \in Flushes /\ ~Finds(wired, Target(t))

\* Who answers for the source, and for the target of a flush, serves it.
Accepted(t) ==
    /\ Reaches(Source(t))
    /\ t \in Flushes => Reaches(Target(t))

\* The target of a flush is asked for its path before anything is looked up in the pass's
\* document, and it may not serve it.
TurnedAway(t) == t \in Flushes /\ Finds(wired, Target(t)) /\ ~Reaches(Target(t))

\* Mutant: a path is a path.
IntoItsOwn(doc, t, on) == on

\* A bare path when one daemon owns both ends, a host in front of it otherwise.
Into(doc, t, on) ==
    IF DaemonFor(doc, Source(t)) = DaemonFor(doc, Target(t))
    THEN on
    ELSE DaemonFor(doc, Target(t))

Numbers(d) == {k.number : k \in {task \in tasks : task.on = d}}

Given(d) == Cardinality(Numbers(d))

PassStart(t) ==
    LET on == DaemonFor(wired, Source(t))
        number == Given(on) + 1
    IN  /\ t \in pass.todo
        /\ ~Unknown(pass.doc, t)
        /\ Accepted(t)
        /\ Given(on) < MaxTasks
        /\ tasks' = tasks \cup {[on |-> on, number |-> number, transfer |-> t,
                                into |-> Into(pass.doc, t, on), state |-> "alive"]}
        /\ pass' = [pass EXCEPT !.todo = @ \ {t},
                                !.sent = @ \cup {[transfer |-> t, on |-> on, number |-> number]}]
        /\ UNCHANGED <<configVars, serves, row, recovery, restarts>>

\* Mutant: a refusal is not caught either.
RefusedRaises(t) ==
    /\ t \in pass.todo
    /\ TurnedAway(t) \/ (~Unknown(pass.doc, t) /\ ~Accepted(t))
    /\ pass' = NoPass
    /\ UNCHANGED <<configVars, serves, row, tasks, recovery, restarts>>

\* The daemon does not serve it: the transfer stays where it is.
PassRefused(t) ==
    /\ t \in pass.todo
    /\ TurnedAway(t) \/ (~Unknown(pass.doc, t) /\ ~Accepted(t))
    /\ pass' = [pass EXCEPT !.todo = @ \ {t}]
    /\ UNCHANGED <<configVars, serves, row, tasks, recovery, restarts>>

\* Nothing catches a storage that is not found: the pass is over, and what it has
\* started is rolled back with it.
PassRaises(t) ==
    /\ t \in pass.todo
    /\ Unknown(pass.doc, t)
    /\ ~TurnedAway(t)
    /\ pass' = NoPass
    /\ UNCHANGED <<configVars, serves, row, tasks, recovery, restarts>>

\* The pass read these rows before, and its columns are written whatever they say now.
PassCommit ==
    /\ pass # NoPass
    /\ pass.todo = {}
    /\ row' = [t \in Transfers |->
                 IF \E k \in pass.sent : k.transfer = t
                 THEN LET k == CHOOSE k \in pass.sent : k.transfer = t
                      IN  [row[t] EXCEPT !.state = "assigned", !.on = k.on, !.number = k.number]
                 ELSE row[t]]
    /\ pass' = NoPass
    /\ UNCHANGED <<configVars, serves, tasks, recovery, restarts>>

-----------------------------------------------------------------------------
(* Daemons and reports; a report of a row that is not in flight is dropped. *)

EndTold(k) ==
    /\ Serving
    /\ k.state = "alive"
    /\ tasks' = (tasks \ {k}) \cup {[k EXCEPT !.state = "ended"]}
    /\ row' = [row EXCEPT ![k.transfer].state = IF @ = "assigned" THEN "told" ELSE @]
    /\ UNCHANGED <<configVars, serves, pass, recovery, restarts>>

EndLost(k) ==
    /\ k.state = "alive"
    /\ tasks' = (tasks \ {k}) \cup {[k EXCEPT !.state = "ended"]}
    /\ UNCHANGED <<configVars, serves, row, pass, recovery, restarts>>

\* The thread of a killed task says so: to a row that may have been nobody's to kill.
KillTold(k) ==
    /\ Serving
    /\ k.state = "killed"
    /\ row[k.transfer].state = "assigned"
    /\ row' = [row EXCEPT ![k.transfer].state = "told"]
    /\ UNCHANGED <<configVars, serves, tasks, pass, recovery, restarts>>

-----------------------------------------------------------------------------
(* Reconciliation, row by row.                                             *)

Settled(t, state) ==
    /\ t \in recovery
    /\ Finds(wired, Source(t))
    /\ row' = [row EXCEPT ![t].state = state]
    /\ recovery' = recovery \ {t}
    /\ UNCHANGED <<configVars, serves, tasks, pass, restarts>>

\* The daemon that is asked knows a task of that number, and it is over.
ReconcileAdopts(t) == Settled(t, "adopted") /\ \E k \in Named(t) : k.state # "alive"

\* It still runs, or nobody knows of it and there is time left.
ReconcileWaits(t) == Settled(t, "assigned") /\ \A k \in Named(t) : k.state = "alive"

\* Nobody knows of it, and the time is over.
ReconcileGivesUp(t) == Settled(t, "given_up") /\ Named(t) = {}

\* A storage that is not found ends reconciliation for every row; the start goes on.
ReconcileRaises(t) ==
    /\ t \in recovery
    /\ ~Finds(wired, Source(t))
    /\ recovery' = {}
    /\ UNCHANGED <<configVars, serves, row, tasks, pass, restarts>>

-----------------------------------------------------------------------------
PassStep(t) == PassStart(t) \/ PassRefused(t) \/ PassRaises(t)

ReconcileStep(t) ==
    \/ ReconcileAdopts(t) \/ ReconcileWaits(t) \/ ReconcileGivesUp(t) \/ ReconcileRaises(t)

Next ==
    \/ \E doc \in Documents : Reload(doc) \/ Restart(doc)
    \/ \E d \in Daemons, declared \in Declarations : DaemonRestart(d, declared)
    \/ PassBegin \/ PassCommit
    \/ \E t \in Transfers :
         \/ SubmitWarm(t) \/ SubmitFlush(t) \/ CancelWaiting(t) \/ CancelAssigned(t)
         \/ PassStep(t) \/ ReconcileStep(t)
    \/ \E k \in tasks : EndTold(k) \/ EndLost(k) \/ KillTold(k)

Spec == Init /\ [][Next]_vars

(***************************************************************************)
(* The loop sleeps and runs another pass whatever the last one raised, and *)
(* daemons answer.  Nobody need edit a file, restart or ask for anything.  *)
(***************************************************************************)
Fairness ==
    /\ WF_vars(PassBegin)
    /\ WF_vars(PassCommit \/ \E t \in Transfers : PassStep(t))
    /\ WF_vars(\E t \in Transfers : ReconcileStep(t))

FairSpec == Spec /\ Fairness

-----------------------------------------------------------------------------
(* Properties.                                                             *)

\* Storages that no document gives to another daemon.
Fixed == {s \in Storages :
            \A one, other \in Valid :
              s \in Known(one) \cap Known(other) => DaemonFor(one, s) = DaemonFor(other, s)}

\* Storages that every document has.
Lasting == {s \in Storages : \A doc \in Valid : s \in Known(doc)}

\* Data ends up on the daemon that serves the target, unless an end was moved to another
\* daemon: however many documents came and went between submitting, planning and starting.
LandsAtTarget ==
    \A k \in tasks :
      Ends(k.transfer) \subseteq Fixed =>
        \A doc \in Valid :
          Target(k.transfer) \in Known(doc) => k.into = DaemonFor(doc, Target(k.transfer))

\* A task that a daemon was given is forgotten only when its pass comes to a transfer
\* of a storage that some config is without.
ForgetsOnlyOverLost ==
    [][\A sent \in pass.sent :
         sent \in pass'.sent
         \/ row'[sent.transfer].number = sent.number
         \/ \E t \in pass.todo : ~(Ends(t) \subseteq Lasting)]_pass

\* A row of which reconciliation adopts an end has ended, unless its source was moved.
AdoptedHasEnded ==
    \A t \in In("adopted") :
      Source(t) \in Fixed =>
        \E k \in tasks : k.transfer = t /\ k.number = row[t].number /\ k.state # "alive"

\* Nobody stops a task of somebody else, unless a source was moved.
KillsItsOwn ==
    \A k \in tasks :
      k.state = "killed" =>
        \/ row[k.transfer].state = "cancelled"
        \/ \E t \in In("cancelled") : Source(t) \notin Fixed

\* Numbers are counted by every daemon for itself: whom a number is told to, by
\* reconciliation and by a cancel, is the one who gave it, under every config.
OwnWorkOnly == AdoptedHasEnded /\ KillsItsOwn

\* A transfer that could be started is started, or stops waiting, or one whose storage
\* the config has lost waits as well and ends every pass (or the numbers are used up).
StartedSomeDay ==
    \A t \in Transfers :
      []<>~(/\ row[t].state = "waiting"
            /\ \A u \in In("waiting") : ~Unknown(running, u)
            /\ Accepted(t)
            /\ \A d \in Daemons : Given(d) < MaxTasks)

\* "Every transfer it thinks is in flight is checked against the daemon that was running
\* it": the first words of services/reconcile.py, and CHANGELOG.md.
AsksWhoRanIt ==
    \A t \in recovery :
      Finds(wired, Source(t)) => DaemonFor(wired, Source(t)) = row[t].on

\* A task is where one and the same document has both ends of its transfer.
OneDocumentPerTask ==
    \A k \in tasks : \E doc \in Valid :
      /\ Ends(k.transfer) \subseteq Known(doc)
      /\ k.on = DaemonFor(doc, Source(k.transfer))
      /\ k.into = DaemonFor(doc, Target(k.transfer))

\* Whatever is moved has a directory that was asked for.
PreparedBeforeMoved == \A k \in tasks : row[k.transfer].prepared

\* A transfer in flight can be cancelled.
CanBeCancelled == \A t \in In("assigned") : Finds(wired, Source(t))
=============================================================================
