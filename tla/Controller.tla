----------------------------- MODULE Controller -----------------------------
(***************************************************************************)
(* The life of transfers and filesets in stashd's controller, together     *)
(* with the daemon that carries the transfers out.                         *)
(*                                                                         *)
(* The controller keeps its truth in database rows.  A handler reads rows, *)
(* may wait for a daemon, and then commits: what it commits are the        *)
(* columns it changed, computed from the copy it read.  Each handler is    *)
(* therefore cut at its HTTP calls, and keeps in its request record what   *)
(* it read before them.  A stretch of code with no call to a daemon in it  *)
(* is one transaction and one step.                                        *)
(*                                                                         *)
(* What the surroundings may do is the constant Env, what users ask for    *)
(* the constant Ops, so that a property can be checked against exactly the *)
(* surroundings it survives.                                               *)
(***************************************************************************)
EXTENDS Integers, FiniteSets, Rules, Daemon

CONSTANTS
    Filesets,       \* ids of fileset rows
    NoFileset,      \* stands for no fileset at all
    Handlers,       \* user requests in progress at one time (a bound)
    EventHandlers,  \* event handlers releasing after a flush (a bound)
    RetryCount,     \* transfer.retries.count
    RetryOn,        \* transfer.retries.retry_on
    Ops,            \* what users ask for: see AllOps
    Env,            \* what the surroundings may do: see AllEnv
    MaxCrashes      \* bound: restarts of the controller and of the daemon

AllOps == {"create", "warm", "refresh", "flush", "release", "cancel"}

AllEnv ==
    {"lost_event",        \* a report does not reach the controller
     "reordered_event",   \* reports on one transfer overtake each other
     "release_gap",       \* a request comes between a flush's end and its release
     "refusal",           \* a daemon refuses, or the plan leaves a transfer out
     "lost_reply",        \* a daemon takes a task and its answer is lost
     "unreachable",       \* a daemon does not answer
     "controller_crash",
     "daemon_restart"}

ASSUME NoFilesetAssumption == NoFileset \notin Filesets
ASSUME HandlersAssumption == Handlers \cap EventHandlers = {}
ASSUME RetryAssumption == RetryCount \in Nat /\ RetryOn \subseteq FailureClasses
ASSUME OpsAssumption == Ops \subseteq AllOps
ASSUME EnvAssumption == Env \subseteq AllEnv
ASSUME MaxCrashesAssumption == MaxCrashes \in Nat

VARIABLES
    transfer,       \* Transfers -> row of the transfers table
    fileset,        \* Filesets -> row of the filesets table, and its directory
    request,        \* Slots -> the request a handler is working on
    todo,           \* scheduler pass: read as waiting and not yet offered
    sent,           \* scheduler pass: task ids received, not yet committed
    up,             \* FALSE while the controller reconciles after a restart
    recovery,       \* what reconciliation has still to look at
    crashes         \* restarts so far

controllerVars == <<transfer, fileset, request, todo, sent, up, recovery, crashes>>
vars == <<controllerVars, daemonVars>>

Slots == Handlers \cup EventHandlers

TaskRef == TaskIds \cup {0}        \* 0 is NULL

TransferRow ==
    [state: TransferStates \cup {"NONE"}, kind: TransferKinds,
     fs: Filesets \cup {NoFileset}, attempt: Nat \ {0}, seq: Nat,
     task: TaskRef, after: BOOLEAN]

FilesetRow ==
    [state: FilesetStates \cup {"NONE"}, kind: {"cached", "output"},
     path: BOOLEAN, dir: BOOLEAN]       \* path: the row says where its directory is

Request ==
    [op: AllOps \cup {"none"},
     at: {"idle", "checked", "calling", "refused", "due", "answered"},
     f: Filesets \cup {NoFileset}, t: Transfers \cup {NoTransfer}, k: TaskRef,
     seen: FilesetStates \cup {"NONE"}]

TypeOK ==
    /\ DaemonTypeOK
    /\ transfer \in [Transfers -> TransferRow]
    /\ \A t \in Transfers : transfer[t].state # "NONE" => transfer[t].fs \in Filesets
    /\ fileset \in [Filesets -> FilesetRow]
    /\ request \in [Slots -> Request]
    /\ todo \subseteq Transfers
    /\ sent \in [Transfers -> TaskRef]
    /\ up \in BOOLEAN
    /\ recovery \subseteq Transfers
    /\ crashes \in Nat

Resting ==
    [op |-> "none", at |-> "idle", f |-> NoFileset, t |-> NoTransfer, k |-> 0,
     seen |-> "NONE"]

NoRow ==
    [state |-> "NONE", kind |-> "warm", fs |-> NoFileset, attempt |-> 1, seq |-> 0,
     task |-> 0, after |-> FALSE]

Init ==
    /\ DaemonInit
    /\ transfer = [t \in Transfers |-> NoRow]
    /\ fileset = [f \in Filesets |->
                    [state |-> "NONE", kind |-> "cached", path |-> FALSE, dir |-> FALSE]]
    /\ request = [h \in Slots |-> Resting]
    /\ todo = {}
    /\ sent = [t \in Transfers |-> 0]
    /\ up = TRUE
    /\ recovery = {}
    /\ crashes = 0

-----------------------------------------------------------------------------
(* Shared by the handlers.                                                 *)

At(h, op, at) == request[h].op = op /\ request[h].at = at

Free(h) ==
    /\ up
    /\ request[h] = Resting
    /\ "release_gap" \in Env \/ \A g \in Slots : ~At(g, "release", "due")

Goto(h, at) == request' = [request EXCEPT ![h].at = at]

Done(h) == request' = [request EXCEPT ![h] = Resting]

\* live_fileset: a released fileset has given up its name.
IsLive(f) == fileset[f].state \notin {"NONE", "RELEASED"}

SetFileset(f, state) == fileset' = [fileset EXCEPT ![f].state = state]

\* A new row of the transfers table.
Insert(t, kind, f, state, after) ==
    /\ transfer[t].state = "NONE"
    /\ transfer' = [transfer EXCEPT ![t] =
                      [NoRow EXCEPT !.state = state, !.kind = kind, !.fs = f,
                                    !.after = after]]

schedulerVars == <<todo, sent>>
restartVars == <<up, recovery, crashes>>
elsewhere == <<schedulerVars, restartVars>>

-----------------------------------------------------------------------------
(* Creating an output fileset: reserve, make the directory, READY.         *)

CreateBegin(h, f) ==
    /\ "create" \in Ops
    /\ Free(h)
    /\ fileset[f].state = "NONE"
    /\ fileset' = [fileset EXCEPT ![f].state = "CREATING", ![f].kind = "output"]
    /\ request' = [request EXCEPT ![h] =
                     [Resting EXCEPT !.op = "create", !.at = "calling", !.f = f]]
    /\ UNCHANGED <<daemonVars, transfer, elsewhere>>

CreateAnswered(h) ==
    /\ At(h, "create", "calling")
    /\ fileset' = [fileset EXCEPT ![request[h].f].state = "READY",
                                  ![request[h].f].path = TRUE,
                                  ![request[h].f].dir = TRUE]
    /\ Done(h)
    /\ UNCHANGED <<daemonVars, transfer, elsewhere>>

\* The row is deleted, whether or not the daemon had made the directory; the
\* database refuses that once a transfer refers to it.
CreateFails(h) ==
    LET f == request[h].f
        referred == \E t \in Transfers : transfer[t].fs = f IN
    /\ "unreachable" \in Env
    /\ At(h, "create", "calling")
    /\ \E made \in BOOLEAN :
         fileset' = [fileset EXCEPT ![f].state = IF referred THEN @ ELSE "NONE",
                                    ![f].dir = @ \/ made]
    /\ Done(h)
    /\ UNCHANGED <<daemonVars, transfer, elsewhere>>

-----------------------------------------------------------------------------
(* Warming.  The preflight looks at the fileset; the submission, under the *)
(* user's lock, looks only whether it exists, commits the row, and asks    *)
(* the daemon for the directory afterwards.                                *)

WarmCheck(h, f) ==
    /\ Free(h)
    /\ \/ "warm" \in Ops /\ fileset[f].state = "NONE"
       \/ /\ "refresh" \in Ops
          /\ IsLive(f)
          /\ fileset[f].kind = "cached"
          /\ fileset[f].state # "POPULATING"
    /\ request' = [request EXCEPT ![h] =
                     [Resting EXCEPT !.op = "warm", !.at = "checked", !.f = f]]
    /\ UNCHANGED <<daemonVars, transfer, fileset, elsewhere>>

\* The lookup goes by name and is made anew: a fileset released since the
\* preflight is not found, and a new one is made.
WarmSubmit(h, f, t) ==
    LET old == request[h].f IN
    /\ At(h, "warm", "checked")
    /\ f = old \/ (fileset[old].state = "RELEASED" /\ fileset[f].state = "NONE")
    /\ fileset[f].state # "RELEASED"
    /\ Insert(t, "warm", f, "SUBMITTED", FALSE)
    /\ fileset' = IF IsLive(f) THEN fileset
                  ELSE [fileset EXCEPT ![f].state = "CREATING", ![f].kind = "cached"]
    /\ request' = [request EXCEPT ![h] =
                     [@ EXCEPT !.at = "calling", !.f = f, !.t = t,
                        !.seen = IF IsLive(f) THEN fileset[f].state
                                 ELSE "CREATING"]]
    /\ UNCHANGED <<daemonVars, elsewhere>>

\* Over the queue limit, or not admitted: only the refusal is recorded.
WarmRefused(h) ==
    /\ At(h, "warm", "checked")
    /\ Done(h)
    /\ UNCHANGED <<daemonVars, transfer, fileset, elsewhere>>

\* Written from the state seen before the call, whatever the row says by now.  A
\* move the table lacks raises: the directory is there, nothing is committed.
WarmPrepared(h) ==
    LET f == request[h].f
        ready == IF request[h].seen = "CREATING" THEN "READY" ELSE request[h].seen IN
    /\ At(h, "warm", "calling")
    /\ fileset' = IF "POPULATING" \in FilesetMoves[ready]
                  THEN [fileset EXCEPT ![f].state = "POPULATING", ![f].path = TRUE,
                                       ![f].dir = TRUE]
                  ELSE [fileset EXCEPT ![f].dir = TRUE]
    /\ Done(h)
    /\ UNCHANGED <<daemonVars, transfer, elsewhere>>

\* The row committed before the call stays, and waits for the scheduler.
WarmUnprepared(h) ==
    /\ "unreachable" \in Env
    /\ At(h, "warm", "calling")
    /\ \E made \in BOOLEAN :
         fileset' = [fileset EXCEPT ![request[h].f].dir = @ \/ made]
    /\ Done(h)
    /\ UNCHANGED <<daemonVars, transfer, elsewhere>>

-----------------------------------------------------------------------------
(* Flushing.  The fileset is read before two probes and written after.     *)

FlushCheck(h, f) ==
    /\ "flush" \in Ops
    /\ Free(h)
    /\ IsLive(f)
    /\ request' = [request EXCEPT ![h] =
                     [Resting EXCEPT !.op = "flush", !.at = "checked", !.f = f,
                                     !.seen = fileset[f].state]]
    /\ UNCHANGED <<daemonVars, transfer, fileset, elsewhere>>

FlushSubmit(h, t, after) ==
    /\ At(h, "flush", "checked")
    /\ "FLUSHING" \in FilesetMoves[request[h].seen]
    /\ Insert(t, "flush", request[h].f, "SUBMITTED", after)
    /\ SetFileset(request[h].f, "FLUSHING")
    /\ Done(h)
    /\ UNCHANGED <<daemonVars, elsewhere>>

\* A probe fails, the queue is full, or the fileset may not be flushed.
FlushRefused(h) ==
    /\ At(h, "flush", "checked")
    /\ Done(h)
    /\ UNCHANGED <<daemonVars, transfer, fileset, elsewhere>>

-----------------------------------------------------------------------------
(* Releasing: delete the directory, then free the reservation.             *)

\* The row is born SUBMITTED and moved to RUNNING before it is ever committed.  A
\* fileset that was never given its path names no directory a daemon would delete.
BeginRelease(h, f, t) ==
    /\ Insert(t, "release", f, "RUNNING", FALSE)
    /\ SetFileset(f, "RELEASING")
    /\ request' = [request EXCEPT ![h] =
                     [Resting EXCEPT !.op = "release", !.f = f, !.t = t,
                                     !.at = IF fileset[f].path THEN "calling"
                                            ELSE "refused"]]
    /\ UNCHANGED <<daemonVars, elsewhere>>

ReleaseBegin(h, f, t) ==
    /\ "release" \in Ops
    /\ Free(h)
    /\ IsLive(f)
    /\ "RELEASING" \in FilesetMoves[fileset[f].state]
    /\ BeginRelease(h, f, t)

\* The release a successful flush asked for, in the handler of its last event.
ReleaseAfterFlush(h, t) ==
    /\ At(h, "release", "due")
    /\ BeginRelease(h, request[h].f, t)

ReleaseDelete(h) ==
    /\ At(h, "release", "calling")
    /\ fileset' = [fileset EXCEPT ![request[h].f].dir = FALSE]
    /\ Goto(h, "answered")
    /\ UNCHANGED <<daemonVars, transfer, elsewhere>>

\* Mutant: the reservation is freed before the directory is deleted.
ReleaseCommitEarly(h) ==
    /\ At(h, "release", "calling")
    /\ SetFileset(request[h].f, "RELEASED")
    /\ transfer' = [transfer EXCEPT ![request[h].t].state = "SUCCEEDED"]
    /\ Done(h)
    /\ UNCHANGED <<daemonVars, elsewhere>>

ReleaseCommit(h) ==
    /\ At(h, "release", "answered")
    /\ SetFileset(request[h].f, "RELEASED")
    /\ transfer' = [transfer EXCEPT ![request[h].t].state = "SUCCEEDED"]
    /\ Done(h)
    /\ UNCHANGED <<daemonVars, elsewhere>>

\* The reservation stays until the owner releases the fileset again.
ReleaseFails(h) ==
    /\ \/ At(h, "release", "refused")
       \/ /\ "unreachable" \in Env
          /\ At(h, "release", "calling") \/ At(h, "release", "answered")
    /\ SetFileset(request[h].f, "FAILED")
    /\ transfer' = [transfer EXCEPT ![request[h].t].state = "FAILED"]
    /\ Done(h)
    /\ UNCHANGED <<daemonVars, elsewhere>>

-----------------------------------------------------------------------------
(* Cancelling: stop the task where it runs, then settle the rows.          *)

Cancelled(t) ==
    LET f == transfer[t].fs IN
    /\ transfer' = [transfer EXCEPT ![t].state = "CANCELLED"]
    /\ fileset' = IF HoldsAllocation(fileset[f].state)
                  THEN [fileset EXCEPT ![f].state = "FAILED"] ELSE fileset

\* No task is known: there is nobody to ask, and one transaction settles it.
CancelAtOnce(h, t) ==
    /\ "cancel" \in Ops
    /\ Free(h)
    /\ transfer[t].state # "NONE"
    /\ CanCancel(transfer[t].state)
    /\ transfer[t].task = 0
    /\ Cancelled(t)
    /\ UNCHANGED <<daemonVars, request, elsewhere>>

CancelBegin(h, t) ==
    /\ "cancel" \in Ops
    /\ Free(h)
    /\ transfer[t].state # "NONE"
    /\ CanCancel(transfer[t].state)
    /\ transfer[t].task # 0
    /\ request' = [request EXCEPT ![h] =
                     [Resting EXCEPT !.op = "cancel", !.at = "calling", !.t = t,
                                     !.k = transfer[t].task]]
    /\ UNCHANGED <<daemonVars, transfer, fileset, elsewhere>>

\* The daemon is asked by task number alone.
CancelAbort(h) ==
    /\ At(h, "cancel", "calling")
    /\ TaskAbort(request[h].k)
    /\ Goto(h, "answered")
    /\ UNCHANGED <<reported, events, transfer, fileset, elsewhere>>

\* A daemon that cannot be reached is only logged.
CancelUnreachable(h) ==
    /\ "unreachable" \in Env
    /\ At(h, "cancel", "calling")
    /\ Goto(h, "answered")
    /\ UNCHANGED <<daemonVars, transfer, fileset, elsewhere>>

\* Decided on the row as it was read before the daemon was asked.
CancelCommit(h) ==
    /\ At(h, "cancel", "answered")
    /\ Cancelled(request[h].t)
    /\ Done(h)
    /\ UNCHANGED <<daemonVars, elsewhere>>

-----------------------------------------------------------------------------
(* The scheduler: one pass reads what waits, hands over one transfer after *)
(* another, and commits all of it at the end.                              *)

Passing == todo # {} \/ \E t \in Transfers : sent[t] # 0

\* Mutant: the lock is given up once the plan is carried out, before the commit.
LockFreeEarly == todo = {}

\* The advisory lock is held from the first query of a pass to its commit.
LockFree == ~Passing

\* Mutant: a transfer that failed for good is offered again.
WaitingFailed(t) == transfer[t].state \in {"SUBMITTED", "FAILED"}

\* Mutant: a retry is never offered again.
WaitingFirst(t) == transfer[t].state = "SUBMITTED" /\ transfer[t].attempt = 1

Waiting(t) == transfer[t].state = "SUBMITTED"

\* Which ones fit, and whose backoff has run out, is left open.  A warm waits from
\* its submission on: the daemon may still be making its directory.
PassBegin(chosen) ==
    /\ up
    /\ LockFree
    /\ chosen # {}
    /\ \A t \in chosen : Waiting(t)
    /\ todo' = chosen
    /\ UNCHANGED <<daemonVars, transfer, fileset, request, sent, restartVars>>

PassStart(t, k) ==
    /\ t \in todo
    /\ TaskSubmit(t, k)
    /\ todo' = todo \ {t}
    /\ sent' = [sent EXCEPT ![t] = k]
    /\ UNCHANGED <<reported, events, transfer, fileset, request, restartVars>>

\* The daemon has taken the task, but the pass sees an error: still queued.
PassReplyLost(t, k) ==
    /\ "lost_reply" \in Env
    /\ t \in todo
    /\ TaskSubmit(t, k)
    /\ todo' = todo \ {t}
    /\ UNCHANGED <<reported, events, transfer, fileset, request, sent, restartVars>>

PassRefused(t) ==
    /\ "refusal" \in Env
    /\ t \in todo
    /\ todo' = todo \ {t}
    /\ UNCHANGED <<daemonVars, transfer, fileset, request, sent, restartVars>>

\* Mutant: the task's number is not kept.
PassCommitNoTask ==
    /\ todo = {}
    /\ Passing
    /\ transfer' = [t \in Transfers |->
                      IF sent[t] = 0 THEN transfer[t]
                      ELSE [transfer[t] EXCEPT !.state = "ASSIGNED"]]
    /\ sent' = [t \in Transfers |-> 0]
    /\ UNCHANGED <<daemonVars, fileset, request, todo, restartVars>>

\* The rows were read SUBMITTED with no task: both columns are written.
PassCommit ==
    /\ todo = {}
    /\ Passing
    /\ transfer' = [t \in Transfers |->
                      IF sent[t] = 0 THEN transfer[t]
                      ELSE [transfer[t] EXCEPT !.state = "ASSIGNED", !.task = sent[t]]]
    /\ sent' = [t \in Transfers |-> 0]
    /\ UNCHANGED <<daemonVars, fileset, request, todo, restartVars>>

-----------------------------------------------------------------------------
(* Daemon events.                                                          *)

\* apply_event drops it: older than what was applied, or a step back.
Ignored(t, seq, kind) ==
    \/ seq <= transfer[t].seq
    \/ /\ IsBackwards(transfer[t].state, TargetState[kind])
       /\ transfer[t].state # TargetState[kind]

Retrying(t, kind, failure) ==
    kind = "failed" /\ ShouldRetry(failure, transfer[t].attempt, RetryCount, RetryOn)

\* Mutant: a failure leaves the fileset as it is.
FilesetTargetKept(t, kind, failure) ==
    IF kind = "finished" THEN "READY" ELSE fileset[transfer[t].fs].state

\* Mutant: a failure that will be retried fails the fileset already.
FilesetTargetFails(t, kind, failure) ==
    CASE kind = "finished" -> "READY"
      [] kind = "failed" -> "FAILED"
      [] OTHER -> fileset[transfer[t].fs].state

\* Where it sends the fileset: nowhere unless the transfer is over.
FilesetTarget(t, kind, failure) ==
    CASE kind = "finished" -> "READY"
      [] kind = "failed" /\ ~Retrying(t, kind, failure) -> "FAILED"
      [] OTHER -> fileset[transfer[t].fs].state

\* Neither table refuses the move; an event of the state it is in passes too.
Allowed(t, kind, failure) ==
    LET target == TargetState[kind]
        was == fileset[transfer[t].fs].state IN
    /\ transfer[t].state = target \/ target \in TransferMoves[transfer[t].state]
    /\ \/ kind \in {"started", "progress"} \/ Retrying(t, kind, failure)
       \/ FilesetTarget(t, kind, failure) \in FilesetMoves[was]

Applies(t, seq, kind, failure) == ~Ignored(t, seq, kind) /\ Allowed(t, kind, failure)

Raises(t, seq, kind, failure) == ~Ignored(t, seq, kind) /\ ~Allowed(t, kind, failure)

\* Mutant: the fileset is not told.
ApplyEventRowOnly(t, seq, kind, failure) ==
    LET row == transfer[t] IN
    /\ transfer' = [transfer EXCEPT ![t] =
         IF Retrying(t, kind, failure)
         THEN [row EXCEPT !.state = "SUBMITTED", !.attempt = row.attempt + 1,
                          !.task = 0, !.seq = seq]
         ELSE [row EXCEPT !.state = TargetState[kind], !.seq = seq]]
    /\ UNCHANGED fileset

\* A retry goes back to the queue with its attempt counted and its task forgotten;
\* the sequence number applied last stays.
ApplyEvent(t, seq, kind, failure) ==
    LET row == transfer[t] IN
    /\ transfer' = [transfer EXCEPT ![t] =
         IF Retrying(t, kind, failure)
         THEN [row EXCEPT !.state = "SUBMITTED", !.attempt = row.attempt + 1,
                          !.task = 0, !.seq = seq]
         ELSE [row EXCEPT !.state = TargetState[kind], !.seq = seq]]
    /\ SetFileset(transfer[t].fs, FilesetTarget(t, kind, failure))

\* Mutant: the flag is read the wrong way round.
ReleaseDueInverted(t, kind) ==
    kind = "finished" /\ transfer[t].kind = "flush" /\ ~transfer[t].after

\* A flush that is done and asked for it is followed by the release.
ReleaseDue(t, kind) ==
    kind = "finished" /\ transfer[t].kind = "flush" /\ transfer[t].after

\* A report is handled as it comes, often before the pass that caused it commits.
Deliverable(e) ==
    /\ up
    /\ e \in events
    /\ "reordered_event" \in Env \/ \A d \in events : d.t = e.t => e.seq <= d.seq

EventApplied(e) ==
    /\ Deliverable(e)
    /\ Applies(e.t, e.seq, e.kind, e.failure)
    /\ ~ReleaseDue(e.t, e.kind)
    /\ ApplyEvent(e.t, e.seq, e.kind, e.failure)
    /\ events' = events \ {e}
    /\ UNCHANGED <<task, reported, request, elsewhere>>

EventAppliedRelease(h, e) ==
    /\ Deliverable(e)
    /\ Free(h)
    /\ Applies(e.t, e.seq, e.kind, e.failure)
    /\ ReleaseDue(e.t, e.kind)
    /\ ApplyEvent(e.t, e.seq, e.kind, e.failure)
    /\ request' = [request EXCEPT ![h] =
                     [Resting EXCEPT !.op = "release", !.at = "due",
                                     !.f = transfer[e.t].fs]]
    /\ events' = events \ {e}
    /\ UNCHANGED <<task, reported, elsewhere>>

EventIgnored(e) ==
    /\ Deliverable(e)
    /\ Ignored(e.t, e.seq, e.kind)
    /\ events' = events \ {e}
    /\ UNCHANGED <<task, reported, controllerVars>>

\* The handler raises and commits nothing; the daemon does not look at the answer.
EventRaises(e) ==
    /\ Deliverable(e)
    /\ Raises(e.t, e.seq, e.kind, e.failure)
    /\ events' = events \ {e}
    /\ UNCHANGED <<task, reported, controllerVars>>

-----------------------------------------------------------------------------
(* The daemon at work.  While the controller is down nobody hears it.      *)

Heard == IF ~up THEN {FALSE} ELSE IF "lost_event" \in Env THEN BOOLEAN ELSE {TRUE}

DaemonStep(k) ==
    /\ \E heard \in Heard :
         \/ TaskRun(k, heard)
         \/ TaskProgress(k, heard)
         \/ TaskSucceed(k, heard)
         \/ \E failure \in Failures \cup {"cancelled"} : TaskFail(k, failure, heard)
    /\ UNCHANGED controllerVars

RestartDaemon ==
    /\ "daemon_restart" \in Env
    /\ crashes < MaxCrashes
    /\ DaemonRestart
    /\ crashes' = crashes + 1
    /\ UNCHANGED <<transfer, fileset, request, schedulerVars, up, recovery>>

-----------------------------------------------------------------------------
(* A restart of the controller.  Whatever a handler or a pass had not yet  *)
(* committed is gone, reports under way fail, and the rows in flight are   *)
(* reconciled before the first request or pass.                            *)

ControllerCrash ==
    /\ "controller_crash" \in Env
    /\ crashes < MaxCrashes
    /\ crashes' = crashes + 1
    /\ up' = FALSE
    /\ request' = [h \in Slots |-> Resting]
    /\ todo' = {}
    /\ sent' = [t \in Transfers |-> 0]
    /\ events' = {}
    /\ recovery' = {t \in Transfers : transfer[t].state \in InFlight}
    /\ UNCHANGED <<task, reported, transfer, fileset>>

\* The task of that number: unknown after a restart of the daemon, or another's.
Known(t) == transfer[t].task \in TaskIds /\ ~Idle(transfer[t].task)

\* Mutant: every task that has ended is taken for one that ended well.
FoundKindEnded(t) ==
    CASE task[transfer[t].task].state \in {"SUCCEEDED", "FAILED"} -> "finished"
      [] OTHER -> "none"

\* What reconcile makes of the daemon's answer.
FoundKind(t) ==
    CASE task[transfer[t].task].state = "SUCCEEDED" -> "finished"
      [] task[transfer[t].task].state = "FAILED" -> "failed"
      [] OTHER -> "none"

Reconciling(t) == ~up /\ t \in recovery

\* No task id: offered again if the table lets it; if not, the refused move ends
\* the reconciliation of everything else too.
ReconcileRequeue(t) ==
    LET allowed == "SUBMITTED" \in TransferMoves[transfer[t].state] IN
    /\ Reconciling(t)
    /\ transfer[t].task = 0
    /\ transfer' = [transfer EXCEPT ![t].state = IF allowed THEN "SUBMITTED" ELSE @]
    /\ recovery' = IF allowed THEN recovery \ {t} ELSE {}
    /\ UNCHANGED <<daemonVars, fileset, request, schedulerVars, up, crashes>>

\* The synthetic event has the next number, and nobody to release for it.
Adopt(t, kind, failure) ==
    /\ Applies(t, transfer[t].seq + 1, kind, failure)
    /\ ApplyEvent(t, transfer[t].seq + 1, kind, failure)
    /\ recovery' = recovery \ {t}
    /\ UNCHANGED <<daemonVars, request, schedulerVars, up, crashes>>

ReconcileAdopt(t) ==
    /\ Reconciling(t)
    /\ Known(t)
    /\ FoundKind(t) # "none"
    /\ Adopt(t, FoundKind(t), task[transfer[t].task].failure)

\* Still running, or the daemon does not know and the grace has not run out.
ReconcileWait(t) ==
    /\ Reconciling(t)
    /\ transfer[t].task # 0
    /\ Known(t) => FoundKind(t) = "none" \/ "unreachable" \in Env
    /\ recovery' = recovery \ {t}
    /\ UNCHANGED <<daemonVars, transfer, fileset, request, schedulerVars, up, crashes>>

ReconcileGiveUp(t) ==
    /\ Reconciling(t)
    /\ transfer[t].task # 0
    /\ ~Known(t) \/ "unreachable" \in Env
    /\ Adopt(t, "failed", "daemon_unreachable")

\* One event that may not be applied ends it in the same way.
ReconcileRaises(t) ==
    /\ Reconciling(t)
    /\ \/ /\ Known(t)
          /\ FoundKind(t) # "none"
          /\ Raises(t, transfer[t].seq + 1, FoundKind(t), task[transfer[t].task].failure)
       \/ /\ transfer[t].task # 0
          /\ ~Known(t) \/ "unreachable" \in Env
          /\ Raises(t, transfer[t].seq + 1, "failed", "daemon_unreachable")
    /\ recovery' = {}
    /\ UNCHANGED <<daemonVars, transfer, fileset, request, schedulerVars, up, crashes>>

ReconcileDone ==
    /\ ~up
    /\ recovery = {}
    /\ up' = TRUE
    /\ UNCHANGED <<daemonVars, transfer, fileset, request, schedulerVars, recovery, crashes>>

-----------------------------------------------------------------------------
RequestStep(h) ==
    \/ \E f \in Filesets :
         \/ CreateBegin(h, f)
         \/ WarmCheck(h, f)
         \/ FlushCheck(h, f)
         \/ \E t \in Transfers : WarmSubmit(h, f, t) \/ ReleaseBegin(h, f, t)
    \/ \E t \in Transfers :
         \/ \E after \in BOOLEAN : FlushSubmit(h, t, after)
         \/ CancelAtOnce(h, t)
         \/ CancelBegin(h, t)
    \/ WarmRefused(h) \/ FlushRefused(h)

\* How a handler goes on once its daemon has answered, or failed to.
AnswerStep(h) ==
    \/ \E t \in Transfers : ReleaseAfterFlush(h, t)
    \/ CreateAnswered(h) \/ CreateFails(h)
    \/ WarmPrepared(h) \/ WarmUnprepared(h)
    \/ ReleaseDelete(h) \/ ReleaseCommit(h) \/ ReleaseFails(h)
    \/ CancelAbort(h) \/ CancelUnreachable(h) \/ CancelCommit(h)

PassStep ==
    \/ \E chosen \in SUBSET Transfers : PassBegin(chosen)
    \/ \E t \in Transfers :
         \/ \E k \in TaskIds : PassStart(t, k) \/ PassReplyLost(t, k)
         \/ PassRefused(t)
    \/ PassCommit

EventStep ==
    \E e \in events :
      \/ EventApplied(e) \/ EventIgnored(e) \/ EventRaises(e)
      \/ \E h \in EventHandlers : EventAppliedRelease(h, e)

RestartStep ==
    \/ RestartDaemon
    \/ ControllerCrash
    \/ \E t \in Transfers :
         \/ ReconcileRequeue(t) \/ ReconcileAdopt(t) \/ ReconcileWait(t)
         \/ ReconcileGiveUp(t) \/ ReconcileRaises(t)
    \/ ReconcileDone

Next ==
    \/ \E h \in Handlers : RequestStep(h)
    \/ \E h \in Slots : AnswerStep(h)
    \/ PassStep
    \/ EventStep
    \/ \E k \in TaskIds : DaemonStep(k)
    \/ RestartStep

Spec == Init /\ [][Next]_vars

(***************************************************************************)
(* What the code's scheduling gives: handlers, the scheduler's loop, the   *)
(* daemon's threads and the delivery of reports all keep going.  Nothing   *)
(* makes a user ask for anything.                                          *)
(***************************************************************************)
Fairness ==
    /\ \A h \in Slots : WF_vars(AnswerStep(h))
    /\ WF_vars(PassStep)
    /\ WF_vars(EventStep)
    /\ \A k \in TaskIds : WF_vars(DaemonStep(k))
    /\ WF_vars(\E t \in Transfers :
                 \/ ReconcileRequeue(t) \/ ReconcileAdopt(t) \/ ReconcileWait(t)
                 \/ ReconcileGiveUp(t) \/ ReconcileRaises(t))
    /\ WF_vars(ReconcileDone)

FairSpec == Spec /\ Fairness

-----------------------------------------------------------------------------
(* Properties.                                                             *)

MovesData(t) == transfer[t].state # "NONE" /\ transfer[t].kind # "release"

\* A transfer is never carried out by two tasks at once: the scheduler's lock,
\* the commit at the end of its pass and the retry rules together see to it.
OneTaskPerTransfer ==
    \A t \in Transfers : \A j, k \in LiveFor(t) : j = k

\* Two transfers never move data into or out of the same fileset at once.
OneMoverPerFileset ==
    \A t, u \in Transfers :
      LiveFor(t) # {} /\ LiveFor(u) # {} /\ transfer[t].fs = transfer[u].fs => t = u

\* A transfer in flight that moves data has the number of its task, so
\* reconciliation and cancellation can always ask the daemon about it.
InFlightHasTask ==
    \A t \in Transfers :
      MovesData(t) /\ transfer[t].state \in InFlight => transfer[t].task # 0

\* The number a transfer in flight holds never names another transfer's task: what
\* is asked, adopted or stopped by that number is its own work.
TaskNamesOwnWork ==
    \A t \in Transfers :
      transfer[t].state \in InFlight /\ transfer[t].task # 0 =>
        task[transfer[t].task].of \in {t, NoTransfer}

\* A transfer that says it succeeded did: a task of its own ended well.
SucceededIsTrue ==
    \A t \in Transfers :
      MovesData(t) /\ transfer[t].state = "SUCCEEDED" =>
        \E k \in TaskIds : task[k].of = t /\ task[k].state = "SUCCEEDED"

\* No transfer is tried more often than the configuration allows.
AttemptsBounded == \A t \in Transfers : transfer[t].attempt <= RetryCount + 1

\* Data moves only where there is a directory for it.
MoversHaveADirectory ==
    \A t \in Transfers : LiveFor(t) # {} => fileset[transfer[t].fs].dir

\* No release deletes a directory that a task is moving data into or out of.
NothingDeletedUnderMovers ==
    [][\A f \in Filesets :
         fileset[f].dir /\ ~fileset'[f].dir =>
           \A t \in Transfers : transfer[t].fs = f => LiveFor(t) = {}]_vars

Unsettled(f, kind) ==
    \E t \in Transfers :
      /\ transfer[t].fs = f
      /\ transfer[t].kind = kind
      /\ transfer[t].state \in TransferStates \ Terminal

\* A fileset that is busy is busy for a reason: the transfer it waits for is
\* still to end.
Reason(f) ==
    /\ fileset[f].state = "POPULATING" => Unsettled(f, "warm")
    /\ fileset[f].state = "FLUSHING" => Unsettled(f, "flush")
    /\ fileset[f].state = "RELEASING" => Unsettled(f, "release")

AlwaysBusyForAReason == \A f \in Filesets : Reason(f)

\* The handler of a warm that has ended marks the fileset as being filled.
PreparedTooLate(h, f) ==
    /\ At(h, "warm", "calling")
    /\ request[h].f = f
    /\ transfer[request[h].t].state \in Terminal
    /\ ~At(h, "warm", "calling")'

\* Nothing leaves a fileset busy for nothing, where nobody can release it, but a
\* preparation that takes longer than the warm it is for.
BusyForAReason ==
    [][\A f \in Filesets :
         Reason(f) /\ ~Reason(f)' => \E h \in Slots : PreparedTooLate(h, f)]_vars

\* A released fileset has no directory any more: never the other way round.
ReleasedIsDeleted ==
    \A f \in Filesets : fileset[f].state = "RELEASED" => ~fileset[f].dir

\* How a transfer ended stays how it ended, except that a failure may be retried.
EndStaysEnd ==
    [][\A t \in Transfers :
         transfer[t].state \in Terminal /\ transfer'[t].state # transfer[t].state =>
           transfer[t].state = "FAILED" /\ transfer'[t].state = "SUBMITTED"]_transfer

\* Who has read the row of t and will write it without looking again: a pass that
\* offers it or has handed it over, and the requests that cancel it or carry it out.
HandedOver(t) == t \in todo \/ sent[t] # 0

Writers(t) == {h \in Slots : request[h].t = t /\ request[h].op \in {"cancel", "release"}}

\* An end, except a failure that is retried, is written over only by who read the
\* row before it: a pass at its commit, which undoes no success, or a request at its
\* own; and neither a pass nor a request takes up a transfer that has ended.
EndIsFinal ==
    [][\A t \in Transfers :
         transfer[t].state \in Terminal =>
           /\ transfer'[t].state # transfer[t].state =>
                \/ transfer[t].state = "FAILED" /\ transfer'[t].state = "SUBMITTED"
                \/ /\ transfer[t].state # "SUCCEEDED" /\ transfer'[t].state = "ASSIGNED"
                   /\ HandedOver(t) /\ ~HandedOver(t)'
                \/ Writers(t)' # Writers(t)
           /\ HandedOver(t)' => HandedOver(t)
           /\ Writers(t)' \subseteq Writers(t)]_vars

\* No report, cancellation or reconciliation touches a fileset that was released: if
\* anything does, it is a request that was at it before.
ReleasedIsLeftAlone ==
    [][\A f \in Filesets :
         fileset[f].state = "RELEASED" /\ fileset'[f] # fileset[f] =>
           \E h \in Slots : request[h].f = f /\ request'[h] # request[h]]_fileset

\* A released fileset stays released, and its directory stays gone.
ReleaseIsFinal ==
    [][\A f \in Filesets :
         fileset[f].state = "RELEASED" => fileset'[f] = fileset[f]]_fileset

\* The report of an end is never taken for a stale one while the transfer goes on.
NoEndIsMissed ==
    [][\A e \in events :
         EventIgnored(e) /\ e.kind \in {"finished", "failed"} =>
           transfer[e.t].state \in Terminal \cup {"SUBMITTED"}]_vars

\* No report is refused: every one is applied or known to be stale.
NoReportIsRefused ==
    [][\A e \in events : ~EventRaises(e)]_vars

\* A report is refused only when it came before the commit of the pass that caused
\* it, or when it tells the success of a transfer whose start was not heard: once the
\* row says RUNNING, every report is applied or known to be stale.
EveryReportIsTaken ==
    [][\A e \in events :
         EventRaises(e) =>
           \/ transfer[e.t].state = "SUBMITTED" /\ sent[e.t] # 0
           \/ transfer[e.t].state = "ASSIGNED" /\ e.kind = "finished"]_vars

\* A transfer nobody will report on any more: its row says it is with its daemon,
\* whose task has ended, and what was told of it came too early or was refused.
Forgotten(t) ==
    /\ transfer[t].state = "ASSIGNED"
    /\ transfer[t].task \in TaskIds
    /\ ~Idle(transfer[t].task)
    /\ LiveFor(t) = {}
    /\ \A e \in events : e.t # t

\* Every transfer submitted comes to an end.
EveryTransferEnds ==
    \A t \in Transfers :
      transfer[t].state = "SUBMITTED" ~> transfer[t].state \in Terminal

\* Every transfer submitted comes to an end, or its task does and is forgotten.
TransfersSettle ==
    \A t \in Transfers :
      transfer[t].state = "SUBMITTED" ~> transfer[t].state \in Terminal \/ Forgotten(t)

InRest(f) == fileset[f].state \in {"READY", "FAILED", "RELEASED", "NONE"}

\* Every fileset comes to rest: one a user can use, flush or release.
EveryFilesetRests == \A f \in Filesets : ~InRest(f) ~> InRest(f)

\* What a fileset waits for will not come: the transfer was forgotten, or the warm
\* had ended before its preparation was written.
Stranded(f) ==
    \/ \E t \in Transfers :
         /\ transfer[t].fs = f
         /\ Forgotten(t)
         /\ transfer[t].kind = IF fileset[f].state = "FLUSHING" THEN "flush" ELSE "warm"
    \/ fileset[f].state = "POPULATING" /\ ~Unsettled(f, "warm")

\* Every fileset comes to rest, unless what it waits for will not come.
FilesetsSettle == \A f \in Filesets : ~InRest(f) ~> InRest(f) \/ Stranded(f)

\* A flush that was to release its fileset is followed by the release.
ToBeReleased(t) ==
    /\ transfer[t].kind = "flush" /\ transfer[t].after
    /\ transfer[t].state = "SUCCEEDED"
    /\ fileset[transfer[t].fs].state = "READY"

\* The bound on rows is all that may keep a release from starting.
RowsUsedUp == \A t \in Transfers : transfer[t].state # "NONE"

FlushReleases == \A t \in Transfers : ToBeReleased(t) ~> ~ToBeReleased(t) \/ RowsUsedUp

\* A warm never fills an output fileset: that would overwrite what jobs wrote.
OutputsAreNotFilled ==
    \A t \in Transfers :
      transfer[t].state # "NONE" /\ transfer[t].kind = "warm" =>
        fileset[transfer[t].fs].kind = "cached"

\* A task that was stopped before a thread took it never begins to move data.
StoppedNeverStarts ==
    [][\A k \in TaskIds :
         task[k].stop /\ task[k].state = "SUBMITTED" => task'[k].state # "RUNNING"]_task

\* Reconciliation brings every transfer whose task has ended to an end as well.
ReconcileSettlesEnded ==
    [][\A t \in recovery :
         Known(t) /\ FoundKind(t) # "none" /\ t \notin recovery' =>
           transfer'[t].state \in Terminal \cup {"SUBMITTED"}]_recovery

\* Reconciliation offers again whatever never reached a daemon.
ReconcileOffersAgain ==
    [][\A t \in recovery :
         transfer[t].task = 0 /\ t \notin recovery' =>
           transfer'[t].state = "SUBMITTED"]_recovery
=============================================================================
