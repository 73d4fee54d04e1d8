-------------------------- MODULE ControllerProofs --------------------------
(***************************************************************************)
(* Safety of Controller, for every set of transfers, filesets, tasks and   *)
(* handlers.                                                               *)
(*                                                                         *)
(* First types: a handler writes, after it has waited for a daemon, to the *)
(* row it remembers, so what it remembers has to be a row that exists, and *)
(* so has what tasks, reports, passes and reconciliation refer to.         *)
(* TypeInv says so.                                                        *)
(*                                                                         *)
(* Then transfers: what every row owes to the scheduler and the retries,   *)
(* why a success is never invented, and why no transfer is carried out     *)
(* twice at once.                                                          *)
(*                                                                         *)
(* Then filesets, and that an end is final.  A fileset is written by       *)
(* requests that remember what they read before a daemon was called, and   *)
(* by reports of transfers that were queued before.  Each theorem says in  *)
(* which surroundings none of these finds the fileset in a state it does   *)
(* not expect: that it waits for somebody, is deleted before it is         *)
(* released, has one mover, loses no directory under it, and refuses       *)
(* reports only for the two reasons there are.                             *)
(***************************************************************************)
EXTENDS Controller, TLAPS

USE NoTransferAssumption, TaskIdsAssumption, FailuresAssumption,
    NoFilesetAssumption, RetryAssumption, HandlersAssumption

\* A row of the transfers table that has been inserted.
Exists(t) == transfer[t].state # "NONE"

\* The rows are well typed, and every one inserted belongs to a fileset.
TransfersOK ==
    /\ transfer \in [Transfers -> TransferRow]
    /\ \A t \in Transfers : Exists(t) => transfer[t].fs \in Filesets

\* The filesets are well typed.
FilesetsOK == fileset \in [Filesets -> FilesetRow]

\* What a handler keeps of its request names what the rest of it will write to.
WellFormed(r) ==
    /\ r \in Request
    /\ r.op \in {"create", "warm", "flush", "release"} => r.f \in Filesets
    /\ r.op \in {"release", "cancel"} /\ r.at \in {"calling", "refused", "answered"} =>
         r.t \in Transfers

\* Every handler rests or keeps a well-formed request.
RequestsOK ==
    /\ request \in [Slots -> Request]
    /\ \A h \in Slots : WellFormed(request[h])

\* What a pass keeps is well typed.
PassOK == todo \subseteq Transfers /\ sent \in [Transfers -> TaskRef]

\* What a restart keeps is well typed.
RestartOK == up \in BOOLEAN /\ recovery \subseteq Transfers /\ crashes \in Nat

\* A task is known only for a transfer that has a row.
TasksNamed ==
    \A k \in TaskIds : ~Idle(k) => task[k].of \in Transfers /\ Exists(task[k].of)
\* A report is only about a transfer that has a row.
EventsNamed == \A e \in events : Exists(e.t)
\* A pass reads and hands over rows that exist.
PassNamed ==
    /\ \A t \in todo : Exists(t)
    /\ \A t \in Transfers : sent[t] # 0 => Exists(t)
\* Reconciliation looks at rows that exist.
RecoveryNamed == \A t \in recovery : Exists(t)
\* A handler remembers rows that exist.
RequestsNamed == \A h \in Slots : request[h].t # NoTransfer => Exists(request[h].t)

\* The inductive invariant behind TypeOK: a row is written only after it exists.
TypeInv ==
    /\ DaemonTypeOK /\ TransfersOK /\ FilesetsOK /\ RequestsOK /\ PassOK /\ RestartOK
    /\ TasksNamed /\ EventsNamed /\ PassNamed /\ RecoveryNamed /\ RequestsNamed

\* No step takes a row away.
RowsStay == \A t \in Transfers : Exists(t) => Exists(t)'

\* An inserted row is well typed, and exists from then on.
LEMMA InsertType ==
    ASSUME TransfersOK, NEW t \in Transfers, NEW kind \in TransferKinds,
           NEW f \in Filesets, NEW state \in TransferStates, NEW after \in BOOLEAN,
           Insert(t, kind, f, state, after)
    PROVE  TransfersOK' /\ RowsStay /\ Exists(t)'
<1> DEFINE new == [NoRow EXCEPT !.state = state, !.kind = kind, !.fs = f,
                                !.after = after]
<1>1. NoRow \in TransferRow
  BY DEF NoRow, TransferRow, TransferKinds, TaskRef
<1>2. new \in TransferRow
  BY <1>1, Zenon DEF TransferRow
<1>3. new.state = state /\ new.fs = f /\ state # "NONE"
  BY <1>1 DEF TransferRow, TransferStates
<1>4. transfer' = [transfer EXCEPT ![t] = new]
  BY DEF Insert
<1> QED
  BY <1>2, <1>3, <1>4 DEF TransfersOK, RowsStay, Exists

\* Moving a row that exists to another state keeps the rows well typed.
LEMMA SetStateType ==
    ASSUME TransfersOK, NEW t \in Transfers, Exists(t), NEW state \in TransferStates,
           transfer' = [transfer EXCEPT ![t].state = state]
    PROVE  TransfersOK' /\ RowsStay
<1>1. transfer[t] \in TransferRow
  BY DEF TransfersOK
<1>2. [transfer[t] EXCEPT !.state = state] \in TransferRow
  BY <1>1 DEF TransferRow
<1>3. /\ [transfer[t] EXCEPT !.state = state].state = state
      /\ [transfer[t] EXCEPT !.state = state].fs = transfer[t].fs
  BY <1>1 DEF TransferRow
<1>4. state # "NONE"
  BY DEF TransferStates
<1> QED
  BY <1>2, <1>3, <1>4 DEF TransfersOK, RowsStay, Exists

\* A step that leaves the rows alone keeps them well typed.
LEMMA SameTransfers ==
    ASSUME TransfersOK, UNCHANGED transfer
    PROVE  TransfersOK' /\ RowsStay
BY DEF TransfersOK, RowsStay, Exists

\* A row of a fileset stays one when a column of it is written.
LEMMA FilesetColumns ==
    ASSUME NEW r \in FilesetRow
    PROVE  /\ \A state \in FilesetStates \cup {"NONE"} : [r EXCEPT !.state = state] \in FilesetRow
           /\ \A kind \in {"cached", "output"} : [r EXCEPT !.kind = kind] \in FilesetRow
           /\ \A dir \in BOOLEAN : [r EXCEPT !.dir = dir] \in FilesetRow
           /\ \A path \in BOOLEAN : [r EXCEPT !.path = path] \in FilesetRow
<1>1. \A state \in FilesetStates \cup {"NONE"} : [r EXCEPT !.state = state] \in FilesetRow
  BY Zenon DEF FilesetRow
<1>2. \A kind \in {"cached", "output"} : [r EXCEPT !.kind = kind] \in FilesetRow
  BY Zenon DEF FilesetRow
<1>3. \A dir \in BOOLEAN : [r EXCEPT !.dir = dir] \in FilesetRow
  BY Zenon DEF FilesetRow
<1>4. \A path \in BOOLEAN : [r EXCEPT !.path = path] \in FilesetRow
  BY Zenon DEF FilesetRow
<1> QED
  BY <1>1, <1>2, <1>3, <1>4, Zenon

\* So does the table.
LEMMA FilesetWrites ==
    ASSUME NEW rows \in [Filesets -> FilesetRow], NEW f
    PROVE  /\ \A state \in FilesetStates \cup {"NONE"} :
                [rows EXCEPT ![f].state = state] \in [Filesets -> FilesetRow]
           /\ \A kind \in {"cached", "output"} :
                [rows EXCEPT ![f].kind = kind] \in [Filesets -> FilesetRow]
           /\ \A dir \in BOOLEAN : [rows EXCEPT ![f].dir = dir] \in [Filesets -> FilesetRow]
           /\ \A path \in BOOLEAN : [rows EXCEPT ![f].path = path] \in [Filesets -> FilesetRow]
<1>1. \A state \in FilesetStates \cup {"NONE"} :
        [rows EXCEPT ![f].state = state] \in [Filesets -> FilesetRow]
  BY FilesetColumns, Zenon
<1>2. \A kind \in {"cached", "output"} :
        [rows EXCEPT ![f].kind = kind] \in [Filesets -> FilesetRow]
  BY FilesetColumns, Zenon
<1>3. \A dir \in BOOLEAN : [rows EXCEPT ![f].dir = dir] \in [Filesets -> FilesetRow]
  BY FilesetColumns, Zenon
<1>4. \A path \in BOOLEAN : [rows EXCEPT ![f].path = path] \in [Filesets -> FilesetRow]
  BY FilesetColumns, Zenon
<1> QED
  BY <1>1, <1>2, <1>3, <1>4, Zenon

\* Moving a fileset to another state keeps the filesets well typed.
LEMMA SetFilesetType ==
    ASSUME FilesetsOK, NEW f, NEW state \in FilesetStates, SetFileset(f, state)
    PROVE  FilesetsOK'
BY FilesetWrites, Zenon DEF SetFileset, FilesetsOK

\* Making a fileset row keeps the filesets well typed.
LEMMA NewFilesetType ==
    ASSUME FilesetsOK, NEW f \in Filesets, NEW state \in FilesetStates,
           NEW kind \in {"cached", "output"}
    PROVE  [fileset EXCEPT ![f].state = state, ![f].kind = kind] \in
             [Filesets -> FilesetRow]
<1> DEFINE moved == [fileset EXCEPT ![f].state = state]
<1>1. moved \in [Filesets -> FilesetRow]
  BY FilesetWrites, Zenon DEF FilesetsOK
<1>2. [fileset EXCEPT ![f].state = state, ![f].kind = kind] = [moved EXCEPT ![f].kind = kind]
  OBVIOUS
<1> HIDE DEF moved
<1>3. [moved EXCEPT ![f].kind = kind] \in [Filesets -> FilesetRow]
  BY <1>1, FilesetWrites, Zenon
<1> QED
  BY <1>2, <1>3, Zenon

\* A handler with nothing to do is well formed.
LEMMA RestingType ==
    WellFormed(Resting) /\ Resting.op = "none" /\ Resting.t = NoTransfer
BY DEF Resting, Request, TaskRef, WellFormed

\* Taking on a well-formed request keeps the requests well formed.
LEMMA PutRequest ==
    ASSUME RequestsOK, RequestsNamed, RowsStay, NEW h \in Slots,
           NEW r, WellFormed(r), r.t # NoTransfer => transfer'[r.t].state # "NONE",
           request' = [request EXCEPT ![h] = r]
    PROVE  RequestsOK' /\ RequestsNamed'
<1>1. RequestsOK'
  BY DEF RequestsOK, WellFormed
<1>2. RequestsNamed'
  BY DEF RequestsOK, RequestsNamed, RowsStay, WellFormed, Request, Exists
<1> QED
  BY <1>1, <1>2

\* Going on after the daemon has answered keeps the requests well formed.
LEMMA GoOn ==
    ASSUME RequestsOK, RequestsNamed, RowsStay, NEW h \in Slots,
           request[h].op \in {"release", "cancel"}, request[h].at = "calling",
           Goto(h, "answered")
    PROVE  RequestsOK' /\ RequestsNamed'
<1> DEFINE r == [request[h] EXCEPT !.at = "answered"]
<1>1. request[h] \in Request /\ WellFormed(request[h])
  BY DEF RequestsOK
<1>2. r \in Request
  BY <1>1 DEF Request
<1>3. /\ r.op = request[h].op /\ r.f = request[h].f /\ r.t = request[h].t
      /\ r.at = "answered"
  BY <1>1 DEF Request
<1>4. WellFormed(r)
  BY <1>1, <1>2, <1>3 DEF WellFormed
<1>5. request' = [request EXCEPT ![h] = r]
  BY DEF Goto
<1> HIDE DEF r
<1>6. r.t # NoTransfer => transfer'[r.t].state # "NONE"
  BY <1>1, <1>3 DEF RequestsNamed, RowsStay, Request, Exists
<1> QED
  BY <1>4, <1>5, <1>6, PutRequest

\* A step that leaves the scheduler and reconciliation alone keeps their part.
LEMMA Elsewhere ==
    ASSUME TypeInv, UNCHANGED elsewhere, RowsStay
    PROVE  PassOK' /\ RestartOK' /\ PassNamed' /\ RecoveryNamed'
BY DEF TypeInv, PassOK, RestartOK, PassNamed, RecoveryNamed, RowsStay, elsewhere,
       schedulerVars, restartVars

\* A step that leaves the daemon alone keeps its part.
LEMMA DaemonStays ==
    ASSUME TypeInv, UNCHANGED daemonVars, RowsStay
    PROVE  DaemonTypeOK' /\ TasksNamed' /\ EventsNamed'
BY DEF TypeInv, TasksNamed, EventsNamed, RowsStay, Idle, DaemonTypeOK, Event, daemonVars

\* A handler that takes on a well-formed request keeps the invariant.
LEMMA RequestChange ==
    ASSUME TypeInv, UNCHANGED <<daemonVars, elsewhere>>,
           TransfersOK', RowsStay, FilesetsOK',
           NEW h \in Slots, NEW r, WellFormed(r),
           r.t # NoTransfer => transfer'[r.t].state # "NONE",
           request' = [request EXCEPT ![h] = r]
    PROVE  TypeInv'
<1>1. RequestsOK' /\ RequestsNamed'
  BY PutRequest DEF TypeInv
<1>2. PassOK' /\ RestartOK' /\ PassNamed' /\ RecoveryNamed'
  BY Elsewhere
<1>3. DaemonTypeOK' /\ TasksNamed' /\ EventsNamed'
  BY DaemonStays
<1> QED
  BY <1>1, <1>2, <1>3 DEF TypeInv

\* A handler that is done keeps the invariant.
LEMMA DoneType ==
    ASSUME TypeInv, UNCHANGED <<daemonVars, elsewhere>>,
           TransfersOK', RowsStay, FilesetsOK', NEW h \in Slots, Done(h)
    PROVE  TypeInv'
BY RestingType, RequestChange DEF Done

\* A handler that goes on after an answer keeps the invariant.
LEMMA GotoType ==
    ASSUME TypeInv, DaemonTypeOK', TasksNamed', EventsNamed', UNCHANGED elsewhere,
           TransfersOK', RowsStay, FilesetsOK', NEW h \in Slots,
           request[h].op \in {"release", "cancel"}, request[h].at = "calling",
           Goto(h, "answered")
    PROVE  TypeInv'
<1>1. RequestsOK' /\ RequestsNamed'
  BY GoOn DEF TypeInv
<1>2. PassOK' /\ RestartOK' /\ PassNamed' /\ RecoveryNamed'
  BY Elsewhere
<1> QED
  BY <1>1, <1>2 DEF TypeInv

\* Starting a release keeps the invariant.
LEMMA BeginReleaseType ==
    ASSUME TypeInv, NEW h \in Slots, NEW f \in Filesets, NEW t \in Transfers,
           BeginRelease(h, f, t)
    PROVE  TypeInv'
<1> DEFINE at == IF fileset[f].path THEN "calling" ELSE "refused"
           r == [Resting EXCEPT !.op = "release", !.f = f, !.t = t, !.at = at]
<1>0. at \in {"calling", "refused"}
  OBVIOUS
<1>1. TransfersOK' /\ RowsStay /\ Exists(t)'
  BY InsertType DEF BeginRelease, TypeInv, TransferKinds, TransferStates
<1>2. FilesetsOK'
  BY SetFilesetType DEF BeginRelease, TypeInv, FilesetStates
<1>5. request' = [request EXCEPT ![h] = r]
  BY DEF BeginRelease
<1> HIDE DEF at
<1>3. r \in Request
  <2>1. at \in {"idle", "checked", "calling", "refused", "due", "answered"}
    BY <1>0
  <2> QED
    BY <2>1, RestingType, Zenon DEF Request, AllOps, WellFormed
<1>4. r.f \in Filesets /\ r.op = "release" /\ r.t = t
  BY RestingType DEF Request, WellFormed
<1> HIDE DEF r
<1> QED
  BY <1>1, <1>2, <1>3, <1>4, <1>5, RequestChange DEF BeginRelease, WellFormed, Exists

\* Settling a cancelled transfer keeps rows and filesets well typed.
LEMMA CancelledType ==
    ASSUME TransfersOK, FilesetsOK, NEW t \in Transfers, Exists(t), Cancelled(t)
    PROVE  TransfersOK' /\ RowsStay /\ FilesetsOK'
<1>1. TransfersOK' /\ RowsStay
  BY SetStateType DEF Cancelled, TransferStates
<1>2. FilesetsOK'
  BY SetFilesetType DEF Cancelled, SetFileset, FilesetStates, FilesetsOK
<1> QED
  BY <1>1, <1>2

\* What a request does before it waits for a daemon keeps the invariant.
LEMMA RequestStepType ==
    ASSUME TypeInv, NEW h \in Handlers, RequestStep(h)
    PROVE  TypeInv'
<1>0. h \in Slots
  BY DEF Slots
<1>1. ASSUME NEW f \in Filesets, CreateBegin(h, f) PROVE TypeInv'
  <2> DEFINE r == [Resting EXCEPT !.op = "create", !.at = "calling", !.f = f]
  <2>1. FilesetsOK'
    BY <1>1, NewFilesetType DEF TypeInv, CreateBegin, FilesetsOK, FilesetStates
  <2>2. r \in Request
    BY RestingType, Zenon DEF Request, AllOps, WellFormed
  <2>3. r.f \in Filesets /\ r.op = "create" /\ r.t = NoTransfer
    BY RestingType DEF Request, WellFormed
  <2>4. request' = [request EXCEPT ![h] = r]
    BY <1>1 DEF CreateBegin
  <2>5. TransfersOK' /\ RowsStay
    BY <1>1, SameTransfers DEF CreateBegin, TypeInv
  <2> QED
    BY <1>0, <1>1, <2>1, <2>2, <2>3, <2>4, <2>5, RequestChange
       DEF CreateBegin, WellFormed
<1>2. ASSUME NEW f \in Filesets, WarmCheck(h, f) PROVE TypeInv'
  <2> DEFINE r == [Resting EXCEPT !.op = "warm", !.at = "checked", !.f = f]
  <2>2. r \in Request
    BY RestingType, Zenon DEF Request, AllOps, WellFormed
  <2>3. r.f \in Filesets /\ r.op = "warm" /\ r.t = NoTransfer
    BY RestingType DEF Request, WellFormed
  <2>4. request' = [request EXCEPT ![h] = r]
    BY <1>2 DEF WarmCheck
  <2>5. TransfersOK' /\ RowsStay /\ FilesetsOK'
    BY <1>2, SameTransfers DEF WarmCheck, TypeInv, FilesetsOK
  <2> QED
    BY <1>0, <1>2, <2>2, <2>3, <2>4, <2>5, RequestChange DEF WarmCheck, WellFormed
<1>3. ASSUME NEW f \in Filesets, FlushCheck(h, f) PROVE TypeInv'
  <2> DEFINE r == [Resting EXCEPT !.op = "flush", !.at = "checked", !.f = f,
                                  !.seen = fileset[f].state]
  <2>1. fileset[f].state \in FilesetStates \cup {"NONE"}
    BY DEF TypeInv, FilesetsOK, FilesetRow
  <2>2. r \in Request
    BY <2>1, RestingType, Zenon DEF Request, AllOps, WellFormed
  <2>3. r.f \in Filesets /\ r.op = "flush" /\ r.t = NoTransfer
    BY RestingType DEF Request, WellFormed
  <2>4. request' = [request EXCEPT ![h] = r]
    BY <1>3 DEF FlushCheck
  <2>5. TransfersOK' /\ RowsStay /\ FilesetsOK'
    BY <1>3, SameTransfers DEF FlushCheck, TypeInv, FilesetsOK
  <2> QED
    BY <1>0, <1>3, <2>2, <2>3, <2>4, <2>5, RequestChange DEF FlushCheck, WellFormed
<1>4. ASSUME NEW f \in Filesets, NEW t \in Transfers, WarmSubmit(h, f, t) PROVE TypeInv'
  <2> DEFINE seen == IF IsLive(f) THEN fileset[f].state ELSE "CREATING"
             r == [request[h] EXCEPT !.at = "calling", !.f = f, !.t = t, !.seen = seen]
  <2>1. FilesetsOK'
    BY <1>4, NewFilesetType DEF WarmSubmit, TypeInv, FilesetsOK, FilesetStates
  <2>2. TransfersOK' /\ RowsStay /\ Exists(t)'
    BY <1>4, InsertType DEF WarmSubmit, TypeInv, TransferKinds, TransferStates
  <2>3. /\ fileset[f].state \in FilesetStates \cup {"NONE"}
        /\ request[h] \in Request
        /\ request[h].op = "warm"
    BY <1>0, <1>4 DEF TypeInv, FilesetsOK, FilesetRow, RequestsOK, WarmSubmit, At
  <2>4. seen \in FilesetStates \cup {"NONE"}
    BY <2>3 DEF Request, FilesetStates
  <2>5. r \in Request
    <3> HIDE DEF seen
    <3> QED
      BY <2>3, <2>4, Zenon DEF Request
  <2>6. r.f \in Filesets /\ r.op = "warm" /\ r.t = t
    <3> HIDE DEF seen
    <3> QED
      BY <2>3 DEF Request
  <2>7. request' = [request EXCEPT ![h] = r]
    BY <1>4 DEF WarmSubmit
  <2> HIDE DEF r
  <2> QED
    BY <1>0, <1>4, <2>1, <2>2, <2>5, <2>6, <2>7, RequestChange, Zenon
       DEF WarmSubmit, WellFormed, Exists
<1>5. ASSUME NEW f \in Filesets, NEW t \in Transfers, ReleaseBegin(h, f, t) PROVE TypeInv'
  BY <1>0, <1>5, BeginReleaseType DEF ReleaseBegin
<1>6. ASSUME NEW t \in Transfers, NEW after \in BOOLEAN, FlushSubmit(h, t, after)
      PROVE  TypeInv'
  <2>1. request[h].f \in Filesets
    BY <1>0, <1>6 DEF FlushSubmit, At, TypeInv, RequestsOK, WellFormed
  <2>2. TransfersOK' /\ RowsStay
    BY <1>6, <2>1, InsertType DEF FlushSubmit, TypeInv, TransferKinds, TransferStates
  <2>3. FilesetsOK'
    BY <1>6, <2>1, SetFilesetType DEF FlushSubmit, TypeInv, FilesetStates
  <2> QED
    BY <1>0, <1>6, <2>2, <2>3, DoneType DEF FlushSubmit
<1>7. ASSUME NEW t \in Transfers, CancelAtOnce(h, t) PROVE TypeInv'
  <2>1. TransfersOK' /\ RowsStay /\ FilesetsOK'
    BY <1>7, CancelledType DEF CancelAtOnce, TypeInv, Exists
  <2>2. /\ request[h] \in Request /\ WellFormed(request[h])
        /\ request' = [request EXCEPT ![h] = request[h]]
        /\ request[h].t # NoTransfer => transfer'[request[h].t].state # "NONE"
    BY <1>0, <1>7, <2>1 DEF CancelAtOnce, TypeInv, RequestsOK, RequestsNamed, RowsStay,
         Exists, Request
  <2> QED
    BY <1>0, <1>7, <2>1, <2>2, RequestChange DEF CancelAtOnce
<1>8. ASSUME NEW t \in Transfers, CancelBegin(h, t) PROVE TypeInv'
  <2> DEFINE r == [Resting EXCEPT !.op = "cancel", !.at = "calling", !.t = t,
                                  !.k = transfer[t].task]
  <2>1. transfer[t].task \in TaskRef
    BY DEF TypeInv, TransfersOK, TransferRow
  <2>2. r \in Request
    BY <2>1, RestingType, Zenon DEF Request, AllOps, WellFormed
  <2>3. r.op = "cancel" /\ r.t = t
    BY RestingType DEF Request, WellFormed
  <2>4. request' = [request EXCEPT ![h] = r]
    BY <1>8 DEF CancelBegin
  <2>5. TransfersOK' /\ RowsStay /\ FilesetsOK'
    BY <1>8, SameTransfers DEF CancelBegin, TypeInv, FilesetsOK
  <2> HIDE DEF r
  <2> QED
    BY <1>0, <1>8, <2>2, <2>3, <2>4, <2>5, RequestChange DEF CancelBegin, WellFormed, Exists
<1>9. ASSUME WarmRefused(h) \/ FlushRefused(h) PROVE TypeInv'
  <2>1. TransfersOK' /\ RowsStay /\ FilesetsOK'
    BY <1>9, SameTransfers DEF WarmRefused, FlushRefused, TypeInv, FilesetsOK
  <2> QED
    BY <1>0, <1>9, <2>1, DoneType DEF WarmRefused, FlushRefused
<1> QED
  BY <1>1, <1>2, <1>3, <1>4, <1>5, <1>6, <1>7, <1>8, <1>9 DEF RequestStep

\* Making or losing a directory keeps the filesets well typed.
LEMMA FilesetMadeType ==
    ASSUME FilesetsOK, NEW f, NEW state \in FilesetStates \cup {"NONE"},
           NEW dir \in BOOLEAN, NEW path \in BOOLEAN
    PROVE  /\ [fileset EXCEPT ![f].state = state, ![f].dir = dir] \in
                [Filesets -> FilesetRow]
           /\ [fileset EXCEPT ![f].state = state, ![f].path = path, ![f].dir = dir] \in
                [Filesets -> FilesetRow]
<1>1. fileset \in [Filesets -> FilesetRow]
  BY DEF FilesetsOK
<1> DEFINE moved == [fileset EXCEPT ![f].state = state]
           placed == [moved EXCEPT ![f].path = path]
<1>2. moved \in [Filesets -> FilesetRow]
  BY <1>1, FilesetWrites, Zenon
<1>3. placed \in [Filesets -> FilesetRow]
  <2> HIDE DEF moved
  <2> QED
    BY <1>2, FilesetWrites, Zenon
<1>4. [placed EXCEPT ![f].dir = dir] \in [Filesets -> FilesetRow]
  <2> HIDE DEF placed
  <2> QED
    BY <1>3, FilesetWrites, Zenon
<1>5. [moved EXCEPT ![f].dir = dir] \in [Filesets -> FilesetRow]
  <2> HIDE DEF moved
  <2> QED
    BY <1>2, FilesetWrites, Zenon
<1> QED
  BY <1>4, <1>5

\* A fileset that was not created is gone, unless a transfer refers to it; what
\* directory there was stays.
LEMMA FailedColumns ==
    ASSUME FilesetsOK, RequestsOK, NEW h \in Slots, CreateFails(h)
    PROVE  \E state \in {"NONE", fileset[request[h].f].state}, dir \in BOOLEAN :
             /\ state \in FilesetStates \cup {"NONE"} /\ (fileset[request[h].f].dir => dir)
             /\ fileset' = [fileset EXCEPT ![request[h].f].state = state,
                                           ![request[h].f].dir = dir]
<1> DEFINE f == request[h].f
           referred == \E t \in Transfers : transfer[t].fs = f
           state == IF referred THEN fileset[f].state ELSE "NONE"
<1>1. f \in Filesets /\ fileset[f] \in FilesetRow /\ fileset \in [Filesets -> FilesetRow]
  BY DEF FilesetsOK, RequestsOK, CreateFails, At, WellFormed
<1>2. PICK made \in BOOLEAN :
        fileset' = [fileset EXCEPT ![f].state = IF referred THEN @ ELSE "NONE",
                                   ![f].dir = @ \/ made]
  BY DEF CreateFails
<1> DEFINE dir == fileset[f].dir \/ made
<1>3. fileset' = [fileset EXCEPT ![f].state = state, ![f].dir = dir]
  BY <1>1, <1>2 DEF FilesetRow
<1>4. /\ dir \in BOOLEAN /\ (fileset[f].dir => dir)
      /\ state \in FilesetStates \cup {"NONE"} /\ state \in {"NONE", fileset[f].state}
  BY <1>1, <1>2 DEF FilesetRow
<1> HIDE DEF state, dir
<1> QED
  BY <1>3, <1>4

\* The end of a warm request keeps the filesets well typed.
LEMMA FilesetWarmedType ==
    ASSUME FilesetsOK, NEW h \in Slots, request[h].f \in Filesets,
           WarmPrepared(h) \/ WarmUnprepared(h)
    PROVE  FilesetsOK'
<1>1. fileset \in [Filesets -> FilesetRow]
  BY DEF FilesetsOK
<1>2. CASE WarmPrepared(h)
  <2> DEFINE f == request[h].f
  <2>1. \/ fileset' = [fileset EXCEPT ![f].state = "POPULATING", ![f].path = TRUE,
                                      ![f].dir = TRUE]
        \/ fileset' = [fileset EXCEPT ![f].dir = TRUE]
    BY <1>2 DEF WarmPrepared
  <2>2. "POPULATING" \in FilesetStates
    BY DEF FilesetStates
  <2>3. /\ [fileset EXCEPT ![f].state = "POPULATING", ![f].path = TRUE, ![f].dir = TRUE]
             \in [Filesets -> FilesetRow]
        /\ [fileset EXCEPT ![f].dir = TRUE] \in [Filesets -> FilesetRow]
    BY <1>1, <2>2, FilesetWrites, FilesetMadeType, Zenon
  <2> QED
    BY <2>1, <2>3, Zenon DEF FilesetsOK
<1>3. CASE WarmUnprepared(h)
  <2> DEFINE f == request[h].f
  <2>1. PICK dir \in BOOLEAN : fileset' = [fileset EXCEPT ![f].dir = dir]
    BY <1>1, <1>3 DEF WarmUnprepared, FilesetRow
  <2> QED
    BY <1>1, <2>1, FilesetWrites, Zenon DEF FilesetsOK
<1> QED
  BY <1>2, <1>3

\* Asking for a stop keeps the tasks well typed.
LEMMA AbortType ==
    ASSUME DaemonTypeOK, TasksNamed, NEW k \in TaskRef, TaskAbort(k),
           UNCHANGED <<reported, events, transfer>>
    PROVE  DaemonTypeOK' /\ TasksNamed'
<1>1. task \in [TaskIds -> Task]
  BY DEF DaemonTypeOK
<1>2. task' \in [TaskIds -> Task]
  <2> DEFINE stop == task[k].stop \/ Live(k)
  <2>1. \A r \in Task, b \in BOOLEAN : [r EXCEPT !.stop = b] \in Task
    BY Zenon DEF Task
  <2>2. task' = [task EXCEPT ![k].stop = stop]
    BY DEF TaskAbort
  <2>3. stop \in BOOLEAN
    BY Zenon
  <2> HIDE DEF stop
  <2> QED
    BY <1>1, <2>1, <2>2, <2>3, Zenon
<1>3. \A j \in TaskIds : task'[j].of = task[j].of /\ task'[j].state = task[j].state
  BY <1>1 DEF TaskAbort, Task
<1> QED
  BY <1>2, <1>3 DEF DaemonTypeOK, TasksNamed, Idle, Exists

\* What a handler does after its daemon answered keeps the invariant.
LEMMA AnswerStepType ==
    ASSUME TypeInv, NEW h \in Slots, AnswerStep(h)
    PROVE  TypeInv'
<1>0. /\ WellFormed(request[h]) /\ request[h] \in Request
      /\ request[h].t # NoTransfer => Exists(request[h].t)
  BY DEF TypeInv, RequestsOK, RequestsNamed
<1>1. ASSUME NEW t \in Transfers, ReleaseAfterFlush(h, t) PROVE TypeInv'
  BY <1>0, <1>1, BeginReleaseType DEF ReleaseAfterFlush, At, WellFormed
<1>2. ASSUME CreateAnswered(h) \/ CreateFails(h) PROVE TypeInv'
  <2>1. TransfersOK' /\ RowsStay
    BY <1>2, SameTransfers DEF CreateAnswered, CreateFails, TypeInv
  <2>2. FilesetsOK'
    <3>1. CASE CreateAnswered(h)
      BY <3>1, FilesetMadeType DEF CreateAnswered, TypeInv, FilesetsOK, FilesetStates
    <3>2. CASE CreateFails(h)
      <4>1. PICK state \in FilesetStates \cup {"NONE"}, made \in BOOLEAN :
              fileset' = [fileset EXCEPT ![request[h].f].state = state,
                                         ![request[h].f].dir = made]
        BY <3>2, FailedColumns DEF TypeInv
      <4> QED
        BY <4>1, FilesetMadeType, Zenon DEF TypeInv, FilesetsOK
    <3> QED
      BY <1>2, <3>1, <3>2, Zenon
  <2> QED
    BY <1>2, <2>1, <2>2, DoneType DEF CreateAnswered, CreateFails
<1>3. ASSUME WarmPrepared(h) \/ WarmUnprepared(h) PROVE TypeInv'
  <2>1. TransfersOK' /\ RowsStay
    <3>1. UNCHANGED transfer
      BY <1>3, SMTT(30) DEF WarmPrepared, WarmUnprepared
    <3> QED
      BY <3>1, SameTransfers DEF TypeInv
  <2>2. FilesetsOK'
    BY <1>0, <1>3, FilesetWarmedType DEF WarmPrepared, WarmUnprepared, TypeInv, At, WellFormed
  <2> QED
    BY <1>3, <2>1, <2>2, DoneType DEF WarmPrepared, WarmUnprepared
<1>4. ASSUME ReleaseDelete(h) PROVE TypeInv'
  <2>1. TransfersOK' /\ RowsStay
    BY <1>4, SameTransfers DEF ReleaseDelete, TypeInv
  <2>2. FilesetsOK'
    BY <1>4, FilesetWrites, Zenon DEF ReleaseDelete, TypeInv, FilesetsOK
  <2> QED
    BY <1>4, <2>1, <2>2, DaemonStays, GotoType DEF ReleaseDelete, At
<1>5. ASSUME ReleaseCommit(h) \/ ReleaseFails(h) PROVE TypeInv'
  <2>1. request[h].t \in Transfers /\ Exists(request[h].t)
    BY <1>0, <1>5 DEF ReleaseCommit, ReleaseFails, At, WellFormed
  <2>2. TransfersOK' /\ RowsStay
    BY <1>5, <2>1, SetStateType DEF ReleaseCommit, ReleaseFails, TypeInv, TransferStates
  <2>3. FilesetsOK'
    BY <1>5, SetFilesetType DEF ReleaseCommit, ReleaseFails, TypeInv, FilesetStates
  <2> QED
    BY <1>5, <2>2, <2>3, DoneType DEF ReleaseCommit, ReleaseFails
<1>6. ASSUME CancelAbort(h) PROVE TypeInv'
  <2>1. DaemonTypeOK' /\ TasksNamed'
    BY <1>0, <1>6, AbortType DEF CancelAbort, TypeInv, Request
  <2>2. TransfersOK' /\ RowsStay /\ FilesetsOK' /\ EventsNamed'
    BY <1>6, SameTransfers DEF CancelAbort, TypeInv, FilesetsOK, EventsNamed, Exists
  <2> QED
    BY <1>6, <2>1, <2>2, GotoType DEF CancelAbort, At
<1>7. ASSUME CancelUnreachable(h) PROVE TypeInv'
  <2>1. TransfersOK' /\ RowsStay /\ FilesetsOK'
    BY <1>7, SameTransfers DEF CancelUnreachable, TypeInv, FilesetsOK
  <2> QED
    BY <1>7, <2>1, DaemonStays, GotoType DEF CancelUnreachable, At
<1>8. ASSUME CancelCommit(h) PROVE TypeInv'
  <2>1. request[h].t \in Transfers /\ Exists(request[h].t)
    BY <1>0, <1>8 DEF CancelCommit, At, WellFormed
  <2>2. TransfersOK' /\ RowsStay /\ FilesetsOK'
    BY <1>8, <2>1, CancelledType DEF CancelCommit, TypeInv
  <2> QED
    BY <1>8, <2>2, DoneType DEF CancelCommit
<1> QED
  BY <1>1, <1>2, <1>3, <1>4, <1>5, <1>6, <1>7, <1>8 DEF AnswerStep

\* A step that leaves the requests alone keeps them well formed.
LEMMA SameRequests ==
    ASSUME RequestsOK, RequestsNamed, RowsStay, UNCHANGED request
    PROVE  RequestsOK' /\ RequestsNamed'
BY DEF RequestsOK, RequestsNamed, RowsStay, WellFormed, Request, Exists

\* A task submitted for a row that exists keeps the daemon well typed.
LEMMA TaskSubmitType ==
    ASSUME DaemonTypeOK, TasksNamed, EventsNamed, NEW t \in Transfers, Exists(t),
           NEW k \in TaskIds, TaskSubmit(t, k), UNCHANGED <<reported, events, transfer>>
    PROVE  DaemonTypeOK' /\ TasksNamed' /\ EventsNamed'
<1> DEFINE new == [NoTask EXCEPT !.of = t, !.state = "SUBMITTED"]
<1>1. NoTask \in Task
  BY DEF NoTask, Task, TaskStates
<1>2. new \in Task
  BY <1>1, Zenon DEF Task, TaskStates
<1>3. new.of = t
  BY <1>1 DEF Task
<1>4. task' = [task EXCEPT ![k] = new]
  BY DEF TaskSubmit
<1> HIDE DEF new
<1> QED
  BY <1>2, <1>3, <1>4 DEF DaemonTypeOK, TasksNamed, EventsNamed, Idle, Exists

\* The steps of a scheduler pass keep the invariant.
LEMMA PassStepType ==
    ASSUME TypeInv, PassStep
    PROVE  TypeInv'
<1>1. ASSUME NEW chosen \in SUBSET Transfers, PassBegin(chosen) PROVE TypeInv'
  <2>1. TransfersOK' /\ RowsStay /\ FilesetsOK'
    BY <1>1, SameTransfers DEF PassBegin, TypeInv, FilesetsOK
  <2>2. PassOK' /\ PassNamed' /\ RestartOK' /\ RecoveryNamed'
    BY <1>1 DEF PassBegin, TypeInv, PassOK, PassNamed, RestartOK, RecoveryNamed, Waiting,
                Exists, restartVars
  <2> QED
    BY <1>1, <2>1, <2>2, DaemonStays, SameRequests DEF PassBegin, TypeInv
<1>2. ASSUME NEW t \in Transfers, NEW k \in TaskIds, PassStart(t, k) \/ PassReplyLost(t, k)
      PROVE  TypeInv'
  <2>1. Exists(t)
    BY <1>2 DEF PassStart, PassReplyLost, TypeInv, PassNamed
  <2>2. TransfersOK' /\ RowsStay /\ FilesetsOK'
    BY <1>2, SameTransfers DEF PassStart, PassReplyLost, TypeInv, FilesetsOK
  <2>3. DaemonTypeOK' /\ TasksNamed' /\ EventsNamed'
    BY <1>2, <2>1, TaskSubmitType DEF PassStart, PassReplyLost, TypeInv
  <2>4. PassOK' /\ PassNamed' /\ RestartOK' /\ RecoveryNamed'
    BY <1>2, <2>1 DEF PassStart, PassReplyLost, TypeInv, PassOK, PassNamed, RestartOK,
         RecoveryNamed, Exists, restartVars, TaskRef
  <2> QED
    BY <1>2, <2>2, <2>3, <2>4, SameRequests DEF PassStart, PassReplyLost, TypeInv
<1>3. ASSUME NEW t \in Transfers, PassRefused(t) PROVE TypeInv'
  <2>1. TransfersOK' /\ RowsStay /\ FilesetsOK'
    BY <1>3, SameTransfers DEF PassRefused, TypeInv, FilesetsOK
  <2>2. PassOK' /\ PassNamed' /\ RestartOK' /\ RecoveryNamed'
    BY <1>3 DEF PassRefused, TypeInv, PassOK, PassNamed, RestartOK, RecoveryNamed,
                Exists, restartVars
  <2> QED
    BY <1>3, <2>1, <2>2, DaemonStays, SameRequests DEF PassRefused, TypeInv
<1>4. ASSUME PassCommit PROVE TypeInv'
  <2>1. \A t \in Transfers :
          /\ transfer'[t] \in TransferRow
          /\ transfer'[t].fs = transfer[t].fs
          /\ Exists(t)' <=> Exists(t) 
    <3> SUFFICES ASSUME NEW t \in Transfers
                 PROVE  /\ transfer'[t] \in TransferRow
                        /\ transfer'[t].fs = transfer[t].fs
                        /\ transfer'[t].state = "NONE" <=> transfer[t].state = "NONE"
      BY DEF Exists
    <3>1. transfer[t] \in TransferRow /\ sent[t] \in TaskRef
      BY DEF TypeInv, TransfersOK, PassOK
    <3>2. sent[t] # 0 => transfer[t].state # "NONE"
      BY DEF TypeInv, PassNamed, Exists
    <3>3. CASE sent[t] = 0
      BY <1>4, <3>1, <3>3, Zenon DEF PassCommit
    <3>4. CASE sent[t] # 0
      <4> DEFINE new == [transfer[t] EXCEPT !.state = "ASSIGNED", !.task = sent[t]]
      <4>1. new \in TransferRow
        BY <3>1, Zenon DEF TransferRow, TransferStates
      <4>2. new.fs = transfer[t].fs /\ new.state = "ASSIGNED"
        BY <3>1 DEF TransferRow
      <4>3. transfer'[t] = new
        BY <1>4, <3>4, Zenon DEF PassCommit
      <4> HIDE DEF new
      <4> QED
        BY <3>2, <3>4, <4>1, <4>2, <4>3
    <3> QED
      BY <3>3, <3>4
  <2>2. TransfersOK' /\ RowsStay
    <3>1. transfer' = [t \in Transfers |-> transfer'[t]]
      BY <1>4, Zenon DEF PassCommit
    <3> QED
      BY <2>1, <3>1 DEF TransfersOK, TypeInv, RowsStay, Exists
  <2>3. PassOK' /\ PassNamed' /\ RestartOK' /\ RecoveryNamed'
    BY <1>4, <2>2, Zenon DEF PassCommit, TypeInv, PassOK, PassNamed, RestartOK, RecoveryNamed,
                RowsStay, TaskRef, restartVars
  <2> QED
    BY <1>4, <2>2, <2>3, DaemonStays, SameRequests, Zenon DEF PassCommit, TypeInv, FilesetsOK
<1> QED
  BY <1>1, <1>2, <1>3, <1>4 DEF PassStep

\* A report on a row that exists keeps the daemon well typed.
LEMMA ReportType ==
    ASSUME DaemonTypeOK, EventsNamed, UNCHANGED transfer,
           NEW t \in Transfers, Exists(t), NEW kind \in EventKinds,
           NEW failure \in FailureClasses \cup {NoFailure}, NEW heard,
           Report(t, kind, failure, heard)
    PROVE  reported' \in [Transfers -> Nat] /\ events' \subseteq Event /\ EventsNamed'
<1> DEFINE new == [t |-> t, seq |-> reported[t] + 1, kind |-> kind, failure |-> failure]
<1>1. reported[t] + 1 \in Nat \ {0}
  BY DEF DaemonTypeOK
<1>2. new \in Event /\ new.t = t
  BY <1>1 DEF Event
<1>3. events' \subseteq events \cup {new}
  BY DEF Report
<1>4. reported' \in [Transfers -> Nat]
  BY <1>1 DEF Report, DaemonTypeOK
<1> HIDE DEF new
<1> QED
  BY <1>2, <1>3, <1>4 DEF DaemonTypeOK, EventsNamed, Exists

\* The steps of the daemon keep the invariant.
LEMMA DaemonStepType ==
    ASSUME TypeInv, NEW k \in TaskIds, DaemonStep(k)
    PROVE  TypeInv'
<1>0. /\ task[k] \in Task /\ task \in [TaskIds -> Task]
      /\ DaemonTypeOK /\ EventsNamed /\ TasksNamed
      /\ UNCHANGED controllerVars
      /\ UNCHANGED transfer
  BY DEF TypeInv, DaemonTypeOK, DaemonStep, controllerVars
<1>1. PICK heard \in BOOLEAN :
         \/ TaskRun(k, heard)
         \/ TaskProgress(k, heard)
         \/ TaskSucceed(k, heard)
         \/ \E failure \in Failures \cup {"cancelled"} : TaskFail(k, failure, heard)
  BY DEF DaemonStep, Heard
<1>2. task[k].of \in Transfers /\ Exists(task[k].of)
  <2>1. ~Idle(k)
    BY <1>1 DEF TaskRun, TaskProgress, TaskSucceed, TaskFail, Idle
  <2> QED
    BY <2>1 DEF TypeInv, TasksNamed
<1>3. DaemonTypeOK' /\ TasksNamed' /\ EventsNamed'
  <2>1. ASSUME TaskRun(k, heard)
        PROVE  DaemonTypeOK' /\ TasksNamed' /\ EventsNamed'
    <3>1. task' = [task EXCEPT ![k].state = "RUNNING"]
      BY <2>1 DEF TaskRun
    <3>2. task' \in [TaskIds -> Task] /\ TasksNamed'
      BY <1>0, <1>2, <3>1 DEF Task, TaskStates, TasksNamed, Idle, Exists
    <3> QED
      BY <1>0, <1>2, <2>1, <3>2, ReportType DEF TaskRun, EventKinds, DaemonTypeOK
  <2>2. ASSUME TaskProgress(k, heard)
        PROVE  DaemonTypeOK' /\ TasksNamed' /\ EventsNamed'
    <3>1. task' \in [TaskIds -> Task] /\ TasksNamed'
      BY <1>0, <2>2 DEF TaskProgress, TasksNamed, Idle, Exists
    <3> QED
      BY <1>0, <1>2, <2>2, <3>1, ReportType DEF TaskProgress, EventKinds, DaemonTypeOK
  <2>3. ASSUME TaskSucceed(k, heard)
        PROVE  DaemonTypeOK' /\ TasksNamed' /\ EventsNamed'
    <3>1. task' = [task EXCEPT ![k].state = "SUCCEEDED"]
      BY <2>3 DEF TaskSucceed
    <3>2. task' \in [TaskIds -> Task] /\ TasksNamed'
      BY <1>0, <1>2, <3>1 DEF Task, TaskStates, TasksNamed, Idle, Exists
    <3> QED
      BY <1>0, <1>2, <2>3, <3>2, ReportType DEF TaskSucceed, EventKinds, DaemonTypeOK
  <2>4. ASSUME NEW failure \in Failures \cup {"cancelled"}, TaskFail(k, failure, heard)
        PROVE  DaemonTypeOK' /\ TasksNamed' /\ EventsNamed'
    <3>1. task' = [task EXCEPT ![k].state = "FAILED", ![k].failure = failure]
      BY <2>4 DEF TaskFail
    <3>2. failure \in FailureClasses \cup {NoFailure}
      BY DEF FailureClasses
    <3>3. task' \in [TaskIds -> Task]
      BY <1>0, <3>1, <3>2, Zenon DEF Task, TaskStates
    <3>4. \A j \in TaskIds : task'[j].of = task[j].of /\ (j # k => task'[j].state = task[j].state)
      BY <1>0, <3>1 DEF Task
    <3>5. TasksNamed'
      BY <1>0, <1>2, <3>4 DEF TasksNamed, Idle, Exists
    <3> QED
      BY <1>0, <1>2, <2>4, <3>2, <3>3, <3>5, ReportType DEF TaskFail, EventKinds, DaemonTypeOK
  <2> QED
    BY <1>1, <2>1, <2>2, <2>3, <2>4
<1> QED
  BY <1>0, <1>3, SameTransfers, SameRequests, Elsewhere
     DEF TypeInv, controllerVars, FilesetsOK, elsewhere, schedulerVars, restartVars

\* Applying an event keeps rows and filesets well typed.
LEMMA ApplyEventType ==
    ASSUME TransfersOK, FilesetsOK, NEW t \in Transfers, Exists(t), NEW seq \in Nat,
           NEW kind \in EventKinds, NEW failure, ApplyEvent(t, seq, kind, failure)
    PROVE  TransfersOK' /\ RowsStay /\ FilesetsOK'
<1>1. transfer[t] \in TransferRow /\ transfer[t].fs \in Filesets
  BY DEF TransfersOK
<1>2. TargetState[kind] \in TransferStates
  BY DEF TargetState, EventKinds, TransferStates
<1>3. TransfersOK' /\ RowsStay
  <2>1. CASE Retrying(t, kind, failure)
    <3> DEFINE next == transfer[t].attempt + 1
               new == [transfer[t] EXCEPT !.state = "SUBMITTED", !.attempt = next,
                                          !.task = 0, !.seq = seq]
    <3>1. next \in Nat \ {0}
      BY <1>1 DEF TransferRow
    <3>2. new \in TransferRow
      <4> HIDE DEF next
      <4> QED
        BY <1>1, <3>1, Zenon DEF TransferRow, TransferStates, TaskRef
    <3>3. new.state = "SUBMITTED" /\ new.fs = transfer[t].fs
      BY <1>1 DEF TransferRow
    <3>4. transfer' = [transfer EXCEPT ![t] = new]
      BY <2>1 DEF ApplyEvent
    <3> HIDE DEF new
    <3> QED
      BY <1>1, <3>2, <3>3, <3>4 DEF TransfersOK, RowsStay, Exists
  <2>2. CASE ~Retrying(t, kind, failure)
    <3> DEFINE new == [transfer[t] EXCEPT !.state = TargetState[kind], !.seq = seq]
    <3>1. new \in TransferRow
      <4>1. PICK state \in TransferStates : state = TargetState[kind]
        BY <1>2
      <4>2. [transfer[t] EXCEPT !.state = state, !.seq = seq] \in TransferRow
        BY <1>1, Zenon DEF TransferRow
      <4> QED
        BY <4>1, <4>2
    <3>2. new.state = TargetState[kind] /\ new.fs = transfer[t].fs
      BY <1>1 DEF TransferRow
    <3>3. TargetState[kind] # "NONE"
      BY <1>2 DEF TransferStates
    <3>4. transfer' = [transfer EXCEPT ![t] = new]
      BY <2>2 DEF ApplyEvent
    <3> HIDE DEF new
    <3> QED
      BY <1>1, <3>1, <3>2, <3>3, <3>4 DEF TransfersOK, RowsStay, Exists
  <2> QED
    BY <2>1, <2>2
<1>4. FilesetsOK'
  <2>1. PICK state \in FilesetStates \cup {"NONE"} : SetFileset(transfer[t].fs, state)
    BY <1>1 DEF ApplyEvent, FilesetTarget, FilesetStates, FilesetsOK, FilesetRow
  <2> QED
    BY <2>1, FilesetWrites, Zenon DEF SetFileset, FilesetsOK
<1> QED
  BY <1>3, <1>4

\* The handling of an event keeps the invariant.
LEMMA EventStepType ==
    ASSUME TypeInv, EventStep
    PROVE  TypeInv'
<1>1. PICK e \in events :
        \/ EventApplied(e) \/ EventIgnored(e) \/ EventRaises(e)
        \/ \E h \in EventHandlers : EventAppliedRelease(h, e)
  BY DEF EventStep
<1>2. /\ e.t \in Transfers /\ e.seq \in Nat /\ e.kind \in EventKinds /\ Exists(e.t)
      /\ transfer[e.t].fs \in Filesets
  BY DEF TypeInv, DaemonTypeOK, Event, EventsNamed, TransfersOK
<1>3. ASSUME UNCHANGED <<task, reported>>, events' = events \ {e}, RowsStay
      PROVE  DaemonTypeOK' /\ TasksNamed' /\ EventsNamed'
  BY <1>3 DEF TypeInv, DaemonTypeOK, TasksNamed, EventsNamed, RowsStay, Idle, Event
<1>4. ASSUME EventApplied(e) PROVE TypeInv'
  <2>1. TransfersOK' /\ RowsStay /\ FilesetsOK'
    BY <1>2, <1>4, ApplyEventType DEF EventApplied, TypeInv
  <2> QED
    BY <1>3, <1>4, <2>1, SameRequests, Elsewhere DEF EventApplied, TypeInv
<1>5. ASSUME NEW h \in EventHandlers, EventAppliedRelease(h, e) PROVE TypeInv'
  <2> DEFINE r == [Resting EXCEPT !.op = "release", !.at = "due", !.f = transfer[e.t].fs]
  <2>1. TransfersOK' /\ RowsStay /\ FilesetsOK'
    BY <1>2, <1>5, ApplyEventType DEF EventAppliedRelease, TypeInv
  <2>2. r \in Request
    BY <1>2, RestingType, Zenon DEF Request, AllOps, WellFormed
  <2>3. r.f = transfer[e.t].fs /\ r.op = "release" /\ r.at = "due" /\ r.t = NoTransfer
    BY RestingType DEF Request, WellFormed
  <2>4. request' = [request EXCEPT ![h] = r] /\ h \in Slots
    BY <1>5 DEF EventAppliedRelease, Slots
  <2> HIDE DEF r
  <2>5. WellFormed(r)
    BY <1>2, <2>2, <2>3 DEF WellFormed
  <2>6. RequestsOK' /\ RequestsNamed'
    BY <2>1, <2>3, <2>4, <2>5, PutRequest DEF TypeInv
  <2> QED
    BY <1>3, <1>5, <2>1, <2>6, Elsewhere DEF EventAppliedRelease, TypeInv
<1>6. ASSUME EventIgnored(e) \/ EventRaises(e) PROVE TypeInv'
  <2>1. /\ UNCHANGED <<task, reported, transfer, fileset, request, elsewhere>>
        /\ events' = events \ {e}
    BY <1>6 DEF EventIgnored, EventRaises, controllerVars, elsewhere, schedulerVars,
                restartVars
  <2>2. TransfersOK' /\ RowsStay /\ FilesetsOK'
    BY <2>1, SameTransfers DEF TypeInv, FilesetsOK
  <2> QED
    BY <1>3, <2>1, <2>2, SameRequests, Elsewhere DEF TypeInv
<1> QED
  BY <1>1, <1>4, <1>5, <1>6

\* Restarts and reconciliation keep the invariant.
LEMMA RestartStepType ==
    ASSUME TypeInv, RestartStep
    PROVE  TypeInv'
<1>1. ASSUME RestartDaemon PROVE TypeInv'
  <2>1. TransfersOK' /\ RowsStay /\ FilesetsOK' /\ EventsNamed'
    BY <1>1, SameTransfers
       DEF RestartDaemon, DaemonRestart, TypeInv, FilesetsOK, EventsNamed, Exists
  <2>2. NoTask \in Task /\ NoTask.state = "IDLE"
    BY DEF NoTask, Task, TaskStates
  <2>3. DaemonTypeOK' /\ TasksNamed'
    BY <1>1, <2>2 DEF RestartDaemon, DaemonRestart, TypeInv, DaemonTypeOK, TasksNamed, Idle
  <2>4. PassOK' /\ PassNamed' /\ RestartOK' /\ RecoveryNamed'
    BY <1>1 DEF RestartDaemon, TypeInv, PassOK, PassNamed, RestartOK, RecoveryNamed,
                Exists, schedulerVars
  <2> QED
    BY <1>1, <2>1, <2>3, <2>4, SameRequests DEF RestartDaemon, TypeInv
<1>2. ASSUME ControllerCrash PROVE TypeInv'
  <2>1. TransfersOK' /\ RowsStay /\ FilesetsOK'
    BY <1>2, SameTransfers DEF ControllerCrash, TypeInv, FilesetsOK
  <2>2. RequestsOK' /\ RequestsNamed'
    BY <1>2, RestingType DEF ControllerCrash, RequestsOK, RequestsNamed, WellFormed
  <2>3. PassOK' /\ PassNamed' /\ RestartOK'
    <3>1. /\ todo' = {} /\ sent' = [t \in Transfers |-> 0] /\ up' = FALSE
          /\ crashes' = crashes + 1 /\ recovery' \subseteq Transfers
      BY <1>2 DEF ControllerCrash
    <3>2. crashes' \in Nat
      BY <3>1 DEF TypeInv, RestartOK
    <3> QED
      BY <3>1, <3>2 DEF PassOK, PassNamed, RestartOK, TaskRef
  <2>4. RecoveryNamed'
    BY <1>2 DEF ControllerCrash, RecoveryNamed, InFlight, Exists
  <2>5. DaemonTypeOK' /\ TasksNamed' /\ EventsNamed'
    BY <1>2 DEF ControllerCrash, TypeInv, DaemonTypeOK, TasksNamed, EventsNamed, Idle,
                Exists
  <2> QED
    BY <2>1, <2>2, <2>3, <2>4, <2>5 DEF TypeInv
<1>3. ASSUME UNCHANGED <<daemonVars, request, schedulerVars, crashes>>, up' \in BOOLEAN,
             recovery' \subseteq recovery, TransfersOK', RowsStay, FilesetsOK'
      PROVE  TypeInv'
  <2>1. PassOK' /\ PassNamed' /\ RestartOK' /\ RecoveryNamed'
    BY <1>3 DEF TypeInv, PassOK, PassNamed, RestartOK, RecoveryNamed, RowsStay,
                schedulerVars
  <2> QED
    BY <1>3, <2>1, DaemonStays, SameRequests DEF TypeInv
<1>4. ASSUME NEW t \in Transfers, Reconciling(t)
      PROVE  Exists(t) /\ transfer[t].seq + 1 \in Nat /\ up \in BOOLEAN
  BY <1>4 DEF Reconciling, TypeInv, RecoveryNamed, TransfersOK, TransferRow, RestartOK
<1>5. ASSUME NEW t \in Transfers, Reconciling(t), NEW kind \in EventKinds, NEW failure,
             Adopt(t, kind, failure)
      PROVE  TypeInv'
  <2>1. TransfersOK' /\ RowsStay /\ FilesetsOK'
    BY <1>4, <1>5, ApplyEventType DEF Adopt, TypeInv
  <2> QED
    BY <1>3, <1>4, <1>5, <2>1 DEF Adopt
<1>6. ASSUME NEW t \in Transfers, ReconcileRequeue(t) PROVE TypeInv'
  <2>1. Exists(t) /\ Reconciling(t) /\ transfer[t].state \in TransferStates
    BY <1>4, <1>6 DEF ReconcileRequeue, TypeInv, TransfersOK, TransferRow, Exists
  <2>2. PICK state \in TransferStates : transfer' = [transfer EXCEPT ![t].state = state]
    BY <1>6, <2>1 DEF ReconcileRequeue, TransferStates
  <2>3. TransfersOK' /\ RowsStay
    BY <2>1, <2>2, SetStateType DEF TypeInv
  <2> QED
    BY <1>3, <1>4, <1>6, <2>1, <2>3 DEF ReconcileRequeue, TypeInv, FilesetsOK
<1>7. ASSUME NEW t \in Transfers, ReconcileAdopt(t) \/ ReconcileGiveUp(t) PROVE TypeInv'
  BY <1>5, <1>7 DEF ReconcileAdopt, ReconcileGiveUp, FoundKind, EventKinds
<1>8. ASSUME NEW t \in Transfers, ReconcileWait(t) \/ ReconcileRaises(t) PROVE TypeInv'
  <2>1. TransfersOK' /\ RowsStay /\ FilesetsOK'
    BY <1>8, SameTransfers DEF ReconcileWait, ReconcileRaises, TypeInv, FilesetsOK
  <2> QED
    BY <1>3, <1>8, <2>1 DEF ReconcileWait, ReconcileRaises, TypeInv, RestartOK
<1>9. ASSUME ReconcileDone PROVE TypeInv'
  <2>1. TransfersOK' /\ RowsStay /\ FilesetsOK'
    BY <1>9, SameTransfers DEF ReconcileDone, TypeInv, FilesetsOK
  <2> QED
    BY <1>3, <1>9, <2>1 DEF ReconcileDone
<1> QED
  BY <1>1, <1>2, <1>6, <1>7, <1>8, <1>9 DEF RestartStep

\* The initial state satisfies the invariant.
LEMMA InitType == Init => TypeInv
<1> SUFFICES ASSUME Init PROVE TypeInv
  OBVIOUS
<1>1. DaemonTypeOK /\ TasksNamed /\ EventsNamed
  <2>1. NoTask \in Task /\ NoTask.state = "IDLE"
    BY DEF NoTask, Task, TaskStates
  <2> QED
    BY <2>1 DEF Init, DaemonInit, DaemonTypeOK, TasksNamed, EventsNamed, Idle
<1>2. TransfersOK
  <2>1. NoRow \in TransferRow /\ NoRow.state = "NONE"
    BY DEF NoRow, TransferRow, TransferKinds, TaskRef
  <2> QED
    BY <2>1 DEF Init, TransfersOK, Exists
<1>3. FilesetsOK
  BY DEF Init, FilesetsOK, FilesetRow
<1>4. RequestsOK /\ RequestsNamed
  BY RestingType DEF Init, RequestsOK, RequestsNamed, WellFormed
<1>5. PassOK /\ PassNamed /\ RestartOK /\ RecoveryNamed
  BY DEF Init, PassOK, PassNamed, RestartOK, RecoveryNamed, TaskRef
<1> QED
  BY <1>1, <1>2, <1>3, <1>4, <1>5 DEF TypeInv

\* Every step keeps the invariant.
LEMMA TypeStep == TypeInv /\ [Next]_vars => TypeInv'
<1> SUFFICES ASSUME TypeInv, [Next]_vars PROVE TypeInv'
  OBVIOUS
<1>1. CASE Next
  BY <1>1, RequestStepType, AnswerStepType, PassStepType, EventStepType, DaemonStepType,
     RestartStepType DEF Next
<1>2. CASE UNCHANGED vars
  BY <1>2, SameTransfers, SameRequests, DaemonStays, Elsewhere
     DEF vars, controllerVars, elsewhere, schedulerVars, restartVars, TypeInv, FilesetsOK
<1> QED
  BY <1>1, <1>2

\* Whatever a handler, pass, report or reconciliation writes to exists by then.
THEOREM TypeInvariant == Spec => []TypeInv
BY InitType, TypeStep, PTL DEF Spec

\* Every variable keeps its type, and every row belongs to a fileset: no handler
\* writes to a row, or through a reference, that was never made.
THEOREM TypeCorrect == Spec => []TypeOK
<1>1. TypeInv => TypeOK
  BY DEF TypeInv, TypeOK, TransfersOK, FilesetsOK, RequestsOK, PassOK, RestartOK, Exists
<1> QED
  BY <1>1, TypeInvariant, PTL

-----------------------------------------------------------------------------
(* Every way in which the table of transfers changes.                      *)

\* Somebody says that the transfer has come as far as this.
Vouched(t, kind) ==
    \/ \E e \in events : e.t = t /\ e.kind = kind
    \/ transfer[t].task \in TaskIds /\ FoundKind(t) = kind
    \/ kind = "failed"

\* A row comes into being, as a request inserts it.
Inserted ==
    \E t \in Transfers, kind \in TransferKinds, f \in Filesets, after \in BOOLEAN :
      \/ Insert(t, kind, f, "SUBMITTED", after)
      \/ Insert(t, "release", f, "RUNNING", after)

\* A row is cancelled, fails, or is offered again by reconciliation.
Moved ==
    \E t \in Transfers, state \in {"SUBMITTED", "FAILED", "CANCELLED"} :
      Exists(t) /\ transfer' = [transfer EXCEPT ![t].state = state]

\* A release whose directory is gone succeeds.
Released ==
    \E h \in Slots :
      /\ request[h].op = "release" /\ request[h].at = "answered"
      /\ request[h].t \in Transfers
      /\ transfer' = [transfer EXCEPT ![request[h].t].state = "SUCCEEDED"]

\* An event, or what reconciliation makes of a task, is applied.
Told ==
    \E t \in Transfers, seq \in Nat, kind \in EventKinds :
      \E failure :
        /\ Exists(t) /\ Vouched(t, kind)
        /\ Applies(t, seq, kind, failure)
        /\ ApplyEvent(t, seq, kind, failure)

\* These are all the ways in which the table of transfers changes.
LEMMA HowRowsChange ==
    ASSUME TypeInv, Next
    PROVE  UNCHANGED transfer \/ Inserted \/ Moved \/ Released \/ Told \/ PassCommit
<1> DEFINE Goal == UNCHANGED transfer \/ Inserted \/ Moved \/ Released \/ Told \/ PassCommit
<1>1. ASSUME NEW h \in Slots, RequestStep(h) \/ AnswerStep(h) PROVE Goal
  <2>0. WellFormed(request[h]) /\ (request[h].t # NoTransfer => Exists(request[h].t))
    BY DEF TypeInv, RequestsOK, RequestsNamed
  <2>1. ASSUME NEW f \in Filesets, NEW t \in Transfers, WarmSubmit(h, f, t) PROVE Inserted
    BY <2>1 DEF WarmSubmit, Inserted, TransferKinds
  <2>2. ASSUME NEW f \in Filesets, NEW t \in Transfers, BeginRelease(h, f, t) PROVE Inserted
    BY <2>2 DEF BeginRelease, Inserted, TransferKinds
  <2>3. ASSUME NEW t \in Transfers, NEW after \in BOOLEAN, FlushSubmit(h, t, after)
        PROVE  Inserted
    <3>1. request[h].f \in Filesets
      BY <2>0, <2>3 DEF FlushSubmit, At, WellFormed
    <3> QED
      BY <2>3, <3>1 DEF FlushSubmit, Inserted, TransferKinds
  <2>4. ASSUME NEW t \in Transfers, Exists(t), Cancelled(t) PROVE Moved
    BY <2>4 DEF Cancelled, Moved
  <2>5. ASSUME CancelCommit(h) PROVE Moved
    <3>1. request[h].t \in Transfers /\ Exists(request[h].t)
      BY <2>0, <2>5, NoTransferAssumption DEF CancelCommit, At, WellFormed
    <3> QED
      BY <2>4, <2>5, <3>1 DEF CancelCommit
  <2>6. ASSUME ReleaseFails(h) PROVE Moved
    <3>1. request[h].t \in Transfers /\ Exists(request[h].t)
      BY <2>0, <2>6, NoTransferAssumption DEF ReleaseFails, At, WellFormed
    <3> QED
      BY <2>6, <3>1 DEF ReleaseFails, Moved
  <2>7. ASSUME ReleaseCommit(h) PROVE Released
    BY <2>0, <2>7 DEF ReleaseCommit, At, WellFormed, Released
  <2>8. ASSUME NEW t \in Transfers, ReleaseAfterFlush(h, t) PROVE Inserted
    BY <2>0, <2>2, <2>8 DEF ReleaseAfterFlush, At, WellFormed
  <2>9. ASSUME NEW t \in Transfers, CancelAtOnce(h, t) PROVE Moved
    BY <2>4, <2>9 DEF CancelAtOnce, Exists
  <2>10. CASE RequestStep(h)
    <3>1. ASSUME NEW f \in Filesets, NEW t \in Transfers, ReleaseBegin(h, f, t)
          PROVE  Goal
      BY <2>2, <3>1 DEF ReleaseBegin
    <3>2. ASSUME NEW f \in Filesets, CreateBegin(h, f) \/ WarmCheck(h, f) \/ FlushCheck(h, f)
          PROVE  UNCHANGED transfer
      BY <3>2 DEF CreateBegin, WarmCheck, FlushCheck
    <3>3. ASSUME NEW t \in Transfers, CancelBegin(h, t) PROVE UNCHANGED transfer
      BY <3>3 DEF CancelBegin
    <3>4. ASSUME WarmRefused(h) \/ FlushRefused(h) PROVE UNCHANGED transfer
      BY <3>4 DEF WarmRefused, FlushRefused
    <3> QED
      BY <2>1, <2>2, <2>3, <2>9, <2>10, <3>1, <3>2, <3>3, <3>4 DEF RequestStep
  <2>11. CASE AnswerStep(h)
    BY <2>5, <2>6, <2>7, <2>8, <2>11, Zenon
       DEF AnswerStep, CreateAnswered, CreateFails, WarmPrepared, WarmUnprepared,
           ReleaseDelete, CancelAbort, CancelUnreachable
  <2> QED
    BY <1>1, <2>10, <2>11
<1>2. ASSUME PassStep PROVE Goal
  BY <1>2 DEF PassStep, PassBegin, PassStart, PassReplyLost, PassRefused
<1>3. ASSUME EventStep PROVE Goal
  <2>1. PICK e \in events :
          \/ EventApplied(e) \/ EventIgnored(e) \/ EventRaises(e)
          \/ \E h \in EventHandlers : EventAppliedRelease(h, e)
    BY <1>3 DEF EventStep
  <2>2. /\ e.t \in Transfers /\ e.seq \in Nat /\ e.kind \in EventKinds
        /\ Exists(e.t) /\ Vouched(e.t, e.kind)
    BY DEF TypeInv, DaemonTypeOK, Event, EventsNamed, Vouched
  <2>3. CASE EventIgnored(e) \/ EventRaises(e)
    BY <2>3 DEF EventIgnored, EventRaises, controllerVars
  <2>4. ASSUME Applies(e.t, e.seq, e.kind, e.failure), ApplyEvent(e.t, e.seq, e.kind, e.failure)
        PROVE  Told
    BY <2>2, <2>4 DEF Told
  <2> QED
    BY <2>1, <2>3, <2>4 DEF EventApplied, EventAppliedRelease
<1>4. ASSUME NEW k \in TaskIds, DaemonStep(k) PROVE Goal
  BY <1>4 DEF DaemonStep, controllerVars
<1>5. ASSUME RestartStep PROVE Goal
  <2>1. ASSUME NEW t \in Transfers, NEW kind \in EventKinds, NEW failure, Reconciling(t),
               Vouched(t, kind), Adopt(t, kind, failure)
        PROVE  Told
    <3>1. Exists(t) /\ transfer[t].seq + 1 \in Nat
      BY <2>1 DEF Reconciling, TypeInv, RecoveryNamed, TransfersOK, TransferRow
    <3> QED
      BY <2>1, <3>1 DEF Adopt, Told
  <2>2. ASSUME NEW t \in Transfers, ReconcileAdopt(t) PROVE Told
    <3>1. FoundKind(t) \in EventKinds /\ Vouched(t, FoundKind(t))
      BY <2>2 DEF ReconcileAdopt, FoundKind, EventKinds, Vouched, Known
    <3> QED
      BY <2>1, <2>2, <3>1 DEF ReconcileAdopt
  <2>3. ASSUME NEW t \in Transfers, ReconcileGiveUp(t) PROVE Told
    BY <2>1, <2>3 DEF ReconcileGiveUp, EventKinds, Vouched
  <2>4. ASSUME NEW t \in Transfers, ReconcileRequeue(t) PROVE UNCHANGED transfer \/ Moved
    <3>1. Exists(t)
      BY <2>4 DEF ReconcileRequeue, Reconciling, TypeInv, RecoveryNamed
    <3>2. CASE "SUBMITTED" \in TransferMoves[transfer[t].state]
      BY <2>4, <3>1, <3>2 DEF ReconcileRequeue, Moved
    <3>3. CASE "SUBMITTED" \notin TransferMoves[transfer[t].state]
      BY <2>4, <3>3 DEF ReconcileRequeue, TypeInv, TransfersOK, TransferRow
    <3> QED
      BY <3>2, <3>3
  <2> QED
    BY <1>5, <2>2, <2>3, <2>4
       DEF RestartStep, RestartDaemon, ControllerCrash, ReconcileWait, ReconcileRaises,
           ReconcileDone
<1> QED
  BY <1>1, <1>2, <1>3, <1>4, <1>5 DEF Next, Slots

-----------------------------------------------------------------------------
(* Rows: a task for what is in flight, and an end to the retries.          *)

\* What the scheduler, the retries and reconciliation owe to one row.
RowSound(row) ==
    /\ row.state \in InFlight /\ row.kind # "release" => row.task # 0
    /\ row.attempt <= RetryCount + 1

\* The columns of a new row.
LEMMA InsertedRow ==
    ASSUME NEW kind \in TransferKinds, NEW f \in Filesets, NEW state, NEW after \in BOOLEAN
    PROVE  LET row == [NoRow EXCEPT !.state = state, !.kind = kind, !.fs = f,
                                    !.after = after]
           IN  row.state = state /\ row.kind = kind /\ row.attempt = 1
BY DEF NoRow

\* Only a transfer in flight can be told that it is running.
LEMMA RunningMeansAssigned ==
    ASSUME TypeInv, NEW t \in Transfers, Exists(t), NEW kind \in {"started", "progress"},
           NEW failure, Allowed(t, kind, failure)
    PROVE  transfer[t].state \in InFlight
<1>1. transfer[t].state \in TransferStates
  BY DEF TypeInv, TransfersOK, TransferRow, Exists
<1>2. TargetState[kind] = "RUNNING"
  BY DEF TargetState
<1> QED
  BY <1>1, <1>2 DEF Allowed, TransferStates, TransferMoves, InFlight

\* Every step keeps every row sound.
LEMMA RowsStaySound ==
    ASSUME TypeInv, \A t \in Transfers : RowSound(transfer[t]), Next
    PROVE  \A t \in Transfers : RowSound(transfer'[t])
<1>0. /\ transfer \in [Transfers -> TransferRow]
      /\ RetryCount \in Nat
  BY RetryAssumption DEF TypeInv, TransfersOK
<1> SUFFICES ASSUME NEW u \in Transfers PROVE RowSound(transfer'[u])
  OBVIOUS
<1>1. CASE UNCHANGED transfer
  BY <1>1
<1>2. CASE Inserted
  <2>1. PICK t \in Transfers, kind \in TransferKinds, f \in Filesets, after \in BOOLEAN :
          \/ Insert(t, kind, f, "SUBMITTED", after)
          \/ Insert(t, "release", f, "RUNNING", after)
    BY <1>2 DEF Inserted
  <2>2. ASSUME NEW row, row.attempt = 1, row.state = "SUBMITTED" \/ row.kind = "release",
               transfer' = [transfer EXCEPT ![t] = row]
        PROVE  RowSound(transfer'[u])
    BY <1>0, <2>2 DEF RowSound, InFlight
  <2>3. "release" \in TransferKinds
    BY DEF TransferKinds
  <2>4. CASE Insert(t, kind, f, "SUBMITTED", after)
    <3> DEFINE new == [NoRow EXCEPT !.state = "SUBMITTED", !.kind = kind, !.fs = f,
                                    !.after = after]
    <3>1. new.attempt = 1 /\ new.state = "SUBMITTED"
      BY InsertedRow
    <3>2. transfer' = [transfer EXCEPT ![t] = new]
      BY <2>4 DEF Insert
    <3> HIDE DEF new
    <3> QED
      BY <2>2, <3>1, <3>2
  <2>5. CASE Insert(t, "release", f, "RUNNING", after)
    <3> DEFINE new == [NoRow EXCEPT !.state = "RUNNING", !.kind = "release", !.fs = f,
                                    !.after = after]
    <3>1. new.attempt = 1 /\ new.kind = "release"
      BY <2>3, InsertedRow
    <3>2. transfer' = [transfer EXCEPT ![t] = new]
      BY <2>5 DEF Insert
    <3> HIDE DEF new
    <3> QED
      BY <2>2, <3>1, <3>2
  <2> QED
    BY <2>1, <2>4, <2>5
<1>3. ASSUME NEW t \in Transfers, NEW state \in TransferStates \ InFlight,
             transfer' = [transfer EXCEPT ![t].state = state]
      PROVE  RowSound(transfer'[u])
  BY <1>0, <1>3 DEF RowSound, TransferRow
<1>4. CASE Moved
  BY <1>3, <1>4 DEF Moved, TransferStates, InFlight
<1>5. CASE Released
  <2>1. PICK t \in Transfers : transfer' = [transfer EXCEPT ![t].state = "SUCCEEDED"]
    BY <1>5 DEF Released
  <2> QED
    BY <1>3, <2>1 DEF TransferStates, InFlight
<1>6. CASE PassCommit
  <2>1. CASE sent[u] = 0
    BY <1>6, <2>1, Zenon DEF PassCommit
  <2>2. CASE sent[u] # 0
    <3> DEFINE new == [transfer[u] EXCEPT !.state = "ASSIGNED", !.task = sent[u]]
    <3>1. transfer'[u] = new
      BY <1>6, <2>2, Zenon DEF PassCommit
    <3>2. new.task # 0 /\ new.attempt = transfer[u].attempt
      BY <1>0, <2>2 DEF TransferRow
    <3> HIDE DEF new
    <3> QED
      BY <3>1, <3>2 DEF RowSound
  <2> QED
    BY <2>1, <2>2
<1>7. CASE Told
  <2>1. PICK t \in Transfers, seq \in Nat, kind \in EventKinds :
          \E failure : /\ Exists(t) /\ Applies(t, seq, kind, failure)
                      /\ ApplyEvent(t, seq, kind, failure)
    BY <1>7 DEF Told
  <2>2. PICK failure : /\ Exists(t) /\ Applies(t, seq, kind, failure)
                       /\ ApplyEvent(t, seq, kind, failure)
    BY <2>1
  <2>3. CASE u # t
    BY <1>0, <2>2, <2>3 DEF ApplyEvent
  <2>4. CASE u = t /\ Retrying(t, kind, failure)
    <3> DEFINE next == transfer[t].attempt + 1
               new == [transfer[t] EXCEPT !.state = "SUBMITTED", !.attempt = next,
                                          !.task = 0, !.seq = seq]
    <3>1. transfer'[t] = new
      BY <1>0, <2>2, <2>4 DEF ApplyEvent
    <3>2. new.state = "SUBMITTED" /\ new.attempt = next
      BY <1>0 DEF TransferRow
    <3>3. next <= RetryCount + 1
      BY <1>0, <2>4 DEF Retrying, ShouldRetry, TransferRow
    <3> HIDE DEF new, next
    <3> QED
      BY <2>4, <3>1, <3>2, <3>3 DEF RowSound, InFlight
  <2>5. CASE u = t /\ ~Retrying(t, kind, failure)
    <3> DEFINE new == [transfer[t] EXCEPT !.state = TargetState[kind], !.seq = seq]
    <3>1. transfer'[t] = new
      BY <1>0, <2>2, <2>5 DEF ApplyEvent
    <3>2. /\ new.state = TargetState[kind] /\ new.attempt = transfer[t].attempt
          /\ new.kind = transfer[t].kind /\ new.task = transfer[t].task
      BY <1>0 DEF TransferRow
    <3>3. TargetState[kind] \in InFlight => transfer[t].state \in InFlight
      BY <2>2, RunningMeansAssigned DEF Applies, EventKinds, TargetState, InFlight
    <3> HIDE DEF new
    <3> QED
      BY <2>5, <3>1, <3>2, <3>3 DEF RowSound
  <2> QED
    BY <2>3, <2>4, <2>5
<1> QED
  BY <1>1, <1>2, <1>4, <1>5, <1>6, <1>7, HowRowsChange

\* Every row is sound in every state.
LEMMA RowsSound == Spec => [](\A t \in Transfers : RowSound(transfer[t]))
<1> DEFINE Inv == \A t \in Transfers : RowSound(transfer[t])
<1>1. Init => Inv
  BY RetryAssumption DEF Init, NoRow, RowSound, InFlight
<1>2. TypeInv /\ Inv /\ [Next]_vars => Inv'
  BY RowsStaySound DEF vars, controllerVars
<1> QED
  BY <1>1, <1>2, TypeInvariant, PTL DEF Spec

\* In whatever surroundings, a transfer in flight that moves data has the number of
\* its task: reconciliation (services/reconcile.py) offers nothing again that a daemon
\* may be working on, and its branch for rows without a task is left to releases.
THEOREM HasTask == Spec => []InFlightHasTask
<1>1. (\A t \in Transfers : RowSound(transfer[t])) => InFlightHasTask
  BY DEF RowSound, InFlightHasTask, MovesData
<1> QED
  BY <1>1, RowsSound, PTL

\* In whatever surroundings, no transfer is tried more often than transfer.retries
\* allows (domain/transfers.py should_retry, services/events.py).
THEOREM Attempts == Spec => []AttemptsBounded
<1>1. (\A t \in Transfers : RowSound(transfer[t])) => AttemptsBounded
  BY DEF RowSound, AttemptsBounded
<1> QED
  BY <1>1, RowsSound, PTL

-----------------------------------------------------------------------------
(* Successes: the daemon remembers, so nothing is invented.                *)

\* A task of this transfer ended well.
EndedWell(t) == \E k \in TaskIds : task[k].of = t /\ task[k].state = "SUCCEEDED"

\* A handler that is deleting a directory.
Deleting(h) == request[h].op = "release" /\ request[h].at \in {"calling", "answered"}

\* A task nobody submitted belongs to nobody.
TasksClean == \A k \in TaskIds : Idle(k) => task[k].of = NoTransfer
\* The task a row names is its own.
RowsOwn == \A t \in Transfers : transfer[t].task # 0 => task[transfer[t].task].of = t
\* The task a pass was given for a transfer is its own.
SentOwn == \A t \in Transfers : sent[t] # 0 => task[sent[t]].of = t
\* A report that a transfer is finished is true.
EventsTrue == \A e \in events : e.kind = "finished" => EndedWell(e.t)
\* A row that says its data has been moved is right.
RowsTrue ==
    \A t \in Transfers :
      transfer[t].state = "SUCCEEDED" /\ transfer[t].kind # "release" => EndedWell(t)
\* A handler deletes directories for releases only.
DeletesRelease ==
    \A h \in Slots : Deleting(h) => transfer[request[h].t].kind = "release"

\* The invariant that holds as long as no daemon forgets its tasks.
OwnWorkInv ==
    TasksClean /\ RowsOwn /\ SentOwn /\ EventsTrue /\ RowsTrue /\ DeletesRelease

\* A task keeps its transfer, and how it ended.
TasksGrow ==
    \A k \in TaskIds :
      /\ Idle(k)' => task'[k].of = NoTransfer
      /\ task[k].of # NoTransfer =>
           /\ task'[k].of = task[k].of
           /\ task[k].state = "SUCCEEDED" => task'[k].state = "SUCCEEDED"

\* Submitting a task takes a number nobody has.
LEMMA SubmitGrows ==
    ASSUME TypeInv, TasksClean, NEW t \in Transfers, NEW k \in TaskIds, TaskSubmit(t, k)
    PROVE  TasksGrow /\ task'[k].of = t
<1> DEFINE new == [NoTask EXCEPT !.of = t, !.state = "SUBMITTED"]
<1>1. new.of = t /\ new.state = "SUBMITTED"
  BY DEF NoTask
<1>2. task' = [task EXCEPT ![k] = new] /\ task \in [TaskIds -> Task] /\ Idle(k)
  BY DEF TaskSubmit, TypeInv, DaemonTypeOK
<1> HIDE DEF new
<1> QED
  BY <1>1, <1>2 DEF TasksGrow, TasksClean, Idle

\* A request that has not asked a daemon touches neither tasks nor the scheduler.
LEMMA RequestsLeave ==
    ASSUME NEW h \in Slots, RequestStep(h)
    PROVE  UNCHANGED daemonVars /\ UNCHANGED elsewhere
<1>1. ASSUME NEW f \in Filesets, CreateBegin(h, f) \/ WarmCheck(h, f) \/ FlushCheck(h, f)
      PROVE  UNCHANGED daemonVars /\ UNCHANGED elsewhere
  BY <1>1 DEF CreateBegin, WarmCheck, FlushCheck
<1>2. ASSUME NEW f \in Filesets, NEW t \in Transfers, WarmSubmit(h, f, t)
      PROVE  UNCHANGED daemonVars /\ UNCHANGED elsewhere
  BY <1>2 DEF WarmSubmit
<1>3. ASSUME NEW f \in Filesets, NEW t \in Transfers, ReleaseBegin(h, f, t)
      PROVE  UNCHANGED daemonVars /\ UNCHANGED elsewhere
  BY <1>3 DEF ReleaseBegin, BeginRelease
<1>4. ASSUME NEW t \in Transfers, NEW after \in BOOLEAN, FlushSubmit(h, t, after)
      PROVE  UNCHANGED daemonVars /\ UNCHANGED elsewhere
  BY <1>4 DEF FlushSubmit
<1>5. ASSUME NEW t \in Transfers, CancelAtOnce(h, t) \/ CancelBegin(h, t)
      PROVE  UNCHANGED daemonVars /\ UNCHANGED elsewhere
  BY <1>5 DEF CancelAtOnce, CancelBegin
<1>6. ASSUME WarmRefused(h) \/ FlushRefused(h)
      PROVE  UNCHANGED daemonVars /\ UNCHANGED elsewhere
  BY <1>6 DEF WarmRefused, FlushRefused
<1> QED
  BY <1>1, <1>2, <1>3, <1>4, <1>5, <1>6, Zenon DEF RequestStep

\* Neither does one that has been answered, but for a cancel that is.
LEMMA AnswersLeave ==
    ASSUME NEW h \in Slots, AnswerStep(h)
    PROVE  /\ UNCHANGED elsewhere
           /\ UNCHANGED daemonVars \/ CancelAbort(h)
<1>1. ASSUME NEW t \in Transfers, ReleaseAfterFlush(h, t)
      PROVE  UNCHANGED daemonVars /\ UNCHANGED elsewhere
  BY <1>1 DEF ReleaseAfterFlush, BeginRelease
<1>2. ASSUME CreateAnswered(h) \/ CreateFails(h)
      PROVE  UNCHANGED daemonVars /\ UNCHANGED elsewhere
  BY <1>2 DEF CreateAnswered, CreateFails
<1>3. ASSUME WarmPrepared(h) \/ WarmUnprepared(h)
      PROVE  UNCHANGED daemonVars /\ UNCHANGED elsewhere
  BY <1>3 DEF WarmPrepared, WarmUnprepared
<1>4. ASSUME ReleaseDelete(h) \/ ReleaseCommit(h) \/ ReleaseFails(h)
      PROVE  UNCHANGED daemonVars /\ UNCHANGED elsewhere
  BY <1>4 DEF ReleaseDelete, ReleaseCommit, ReleaseFails
<1>5. ASSUME CancelUnreachable(h) \/ CancelCommit(h)
      PROVE  UNCHANGED daemonVars /\ UNCHANGED elsewhere
  BY <1>5 DEF CancelUnreachable, CancelCommit
<1>6. CancelAbort(h) => UNCHANGED elsewhere
  BY DEF CancelAbort
<1> QED
  BY <1>1, <1>2, <1>3, <1>4, <1>5, <1>6, Zenon DEF AnswerStep

\* Nothing but a restart makes the daemon forget a task.
LEMMA TasksOnlyGrow ==
    ASSUME TypeInv, TasksClean, Next, "daemon_restart" \notin Env
    PROVE  TasksGrow
<1>0. task \in [TaskIds -> Task]
  BY DEF TypeInv, DaemonTypeOK
<1>1. CASE UNCHANGED task
  BY <1>1 DEF TasksGrow, TasksClean, Idle
<1>2. ASSUME NEW h \in Slots, CancelAbort(h) PROVE TasksGrow
  <2>1. \A k \in TaskIds : task'[k].of = task[k].of /\ task'[k].state = task[k].state
    BY <1>0, <1>2 DEF CancelAbort, TaskAbort, Task
  <2> QED
    BY <2>1 DEF TasksGrow, TasksClean, Idle
<1>3. ASSUME NEW k \in TaskIds, DaemonStep(k) PROVE TasksGrow
  <2>1. \A j \in TaskIds : /\ task'[j].of = task[j].of
                           /\ task'[j].state = "IDLE" => task[j].state = "IDLE"
                           /\ task[j].state = "SUCCEEDED" => task'[j].state = "SUCCEEDED"
    BY <1>0, <1>3 DEF DaemonStep, TaskRun, TaskProgress, TaskSucceed, TaskFail, Task
  <2> QED
    BY <2>1 DEF TasksGrow, TasksClean, Idle
<1>4. ASSUME NEW t \in Transfers, NEW k \in TaskIds, PassStart(t, k) \/ PassReplyLost(t, k)
      PROVE  TasksGrow
  BY <1>4, SubmitGrows DEF PassStart, PassReplyLost
<1>5. ASSUME NEW h \in Slots, RequestStep(h) PROVE UNCHANGED task
  BY <1>5, RequestsLeave DEF daemonVars
<1>6. ASSUME NEW h \in Slots, AnswerStep(h) PROVE TasksGrow
  BY <1>1, <1>2, <1>6, AnswersLeave DEF daemonVars
<1>7. ASSUME PassStep PROVE TasksGrow
  BY <1>1, <1>4, <1>7, Zenon DEF PassStep, PassBegin, PassRefused, PassCommit, daemonVars
<1>8. ASSUME EventStep PROVE UNCHANGED task
  BY <1>8 DEF EventStep, EventApplied, EventIgnored, EventRaises, EventAppliedRelease
<1>9. ASSUME RestartStep PROVE UNCHANGED task
  BY <1>9 DEF RestartStep, RestartDaemon, ControllerCrash, ReconcileRequeue,
       ReconcileAdopt, ReconcileWait, ReconcileGiveUp, ReconcileRaises, ReconcileDone,
       Adopt, daemonVars
<1> QED
  BY <1>1, <1>3, <1>5, <1>6, <1>7, <1>8, <1>9 DEF Next, Slots

\* A transfer whose task ended well stays so.
LEMMA EndsStay ==
    ASSUME TypeInv, TasksGrow, NEW t \in Transfers, EndedWell(t)
    PROVE  EndedWell(t)'
BY NoTransferAssumption DEF TasksGrow, EndedWell

\* Every step keeps the reports true.
LEMMA EventsStayTrue ==
    ASSUME TypeInv, OwnWorkInv, TasksGrow, Next
    PROVE  EventsTrue'
<1>0. \A e \in events : e.t \in Transfers
  BY DEF TypeInv, DaemonTypeOK, Event
<1>1. CASE events' \subseteq events
  BY <1>0, <1>1, EndsStay DEF EventsTrue, OwnWorkInv
<1>2. ASSUME NEW k \in TaskIds, DaemonStep(k) PROVE EventsTrue'
  <2>1. PICK t \in Transfers : t = task[k].of
    BY <1>2 DEF DaemonStep, TaskRun, TaskProgress, TaskSucceed, TaskFail, TypeInv,
         TasksNamed, Idle
  <2>2. PICK new : /\ events' \subseteq events \cup {new} /\ new.t = t
                   /\ new.kind = "finished" => task'[k].state = "SUCCEEDED"
    <3>1. PICK kind, failure, heard :
             /\ Report(t, kind, failure, heard)
             /\ kind = "finished" => task'[k].state = "SUCCEEDED"
      BY <1>2, <2>1 DEF DaemonStep, TaskRun, TaskProgress, TaskSucceed, TaskFail, TypeInv,
                        DaemonTypeOK, Task
    <3> DEFINE new == [t |-> t, seq |-> reported[t] + 1, kind |-> kind,
                       failure |-> failure]
    <3>2. events' \subseteq events \cup {new} /\ new.t = t /\ new.kind = kind
      BY <3>1 DEF Report
    <3> HIDE DEF new
    <3> QED
      BY <3>1, <3>2
  <2>3. new.kind = "finished" => EndedWell(t)'
    BY <2>1, <2>2, NoTransferAssumption DEF TasksGrow, EndedWell
  <2> QED
    BY <1>0, <2>2, <2>3, EndsStay DEF EventsTrue, OwnWorkInv
<1>3. ASSUME NEW h \in Slots, RequestStep(h) PROVE UNCHANGED events
  BY <1>3, RequestsLeave DEF daemonVars
<1>4. ASSUME NEW h \in Slots, AnswerStep(h) PROVE UNCHANGED events
  <2>1. CancelAbort(h) => UNCHANGED events
    BY DEF CancelAbort
  <2> QED
    BY <1>4, <2>1, AnswersLeave DEF daemonVars
<1>5. ASSUME PassStep PROVE UNCHANGED events
  BY <1>5, Zenon DEF PassStep, PassBegin, PassStart, PassReplyLost, PassRefused, PassCommit,
                      daemonVars
<1>6. ASSUME EventStep PROVE events' \subseteq events
  BY <1>6 DEF EventStep, EventApplied, EventIgnored, EventRaises, EventAppliedRelease
<1>7. ASSUME RestartStep PROVE events' \subseteq events
  BY <1>7 DEF RestartStep, RestartDaemon, DaemonRestart, ControllerCrash, ReconcileRequeue,
       ReconcileAdopt, ReconcileWait, ReconcileGiveUp, ReconcileRaises, ReconcileDone,
       Adopt, daemonVars
<1> QED
  BY <1>1, <1>2, <1>3, <1>4, <1>5, <1>6, <1>7 DEF Next, Slots

\* What one step makes of the row of a transfer.
RowHonest(u) ==
    /\ Exists(u) => transfer'[u].kind = transfer[u].kind
    /\ transfer'[u].task \in {0, transfer[u].task, sent[u]}
    /\ transfer'[u].state = "SUCCEEDED" /\ transfer'[u].kind # "release" =>
         EndedWell(u) \/ transfer[u].state = "SUCCEEDED"

\* No step makes more of a row than it may.
LEMMA RowsHonest ==
    ASSUME TypeInv, OwnWorkInv, Next
    PROVE  \A u \in Transfers : RowHonest(u)
<1>0. transfer \in [Transfers -> TransferRow]
  BY DEF TypeInv, TransfersOK
<1> SUFFICES ASSUME NEW u \in Transfers PROVE RowHonest(u)
  OBVIOUS
<1>1. CASE UNCHANGED transfer
  BY <1>1 DEF RowHonest
<1>2. CASE Inserted
  <2>1. PICK t \in Transfers, kind \in TransferKinds, f \in Filesets, after \in BOOLEAN,
             state \in {"SUBMITTED", "RUNNING"} :
          Insert(t, kind, f, state, after)
    BY <1>2 DEF Inserted, TransferKinds
  <2> DEFINE new == [NoRow EXCEPT !.state = state, !.kind = kind, !.fs = f,
                                  !.after = after]
  <2>2. new.task = 0 /\ new.state = state
    BY DEF NoRow
  <2>3. transfer' = [transfer EXCEPT ![t] = new] /\ ~Exists(t)
    BY <2>1 DEF Insert, Exists
  <2> HIDE DEF new
  <2> QED
    BY <1>0, <2>2, <2>3 DEF RowHonest
<1>3. ASSUME NEW t \in Transfers, NEW state,
             transfer' = [transfer EXCEPT ![t].state = state],
             state = "SUCCEEDED" => transfer[t].kind = "release"
      PROVE  RowHonest(u)
  BY <1>0, <1>3 DEF RowHonest, TransferRow
<1>4. CASE Moved
  <2>1. PICK t \in Transfers, state \in {"SUBMITTED", "FAILED", "CANCELLED"} :
          transfer' = [transfer EXCEPT ![t].state = state]
    BY <1>4 DEF Moved
  <2> QED
    BY <1>3, <2>1
<1>5. CASE Released
  <2>1. PICK h \in Slots :
          /\ request[h].op = "release" /\ request[h].at = "answered"
          /\ request[h].t \in Transfers
          /\ transfer' = [transfer EXCEPT ![request[h].t].state = "SUCCEEDED"]
    BY <1>5 DEF Released
  <2>2. transfer[request[h].t].kind = "release"
    BY <2>1 DEF OwnWorkInv, DeletesRelease, Deleting
  <2> QED
    BY <1>3, <2>1, <2>2
<1>6. CASE PassCommit
  <2>1. CASE sent[u] = 0
    BY <1>6, <2>1, Zenon DEF PassCommit, RowHonest
  <2>2. CASE sent[u] # 0
    <3> DEFINE new == [transfer[u] EXCEPT !.state = "ASSIGNED", !.task = sent[u]]
    <3>1. transfer'[u] = new
      BY <1>6, <2>2, Zenon DEF PassCommit
    <3>2. new.task = sent[u] /\ new.state = "ASSIGNED" /\ new.kind = transfer[u].kind
      BY <1>0 DEF TransferRow
    <3> HIDE DEF new
    <3> QED
      BY <3>1, <3>2 DEF RowHonest
  <2> QED
    BY <2>1, <2>2
<1>7. CASE Told
  <2>1. PICK t \in Transfers, seq \in Nat, kind \in EventKinds :
          \E failure : Vouched(t, kind) /\ ApplyEvent(t, seq, kind, failure)
    BY <1>7 DEF Told
  <2>2. PICK failure : Vouched(t, kind) /\ ApplyEvent(t, seq, kind, failure)
    BY <2>1
  <2>3. CASE u # t
    BY <1>0, <2>2, <2>3 DEF ApplyEvent, RowHonest
  <2>4. CASE u = t /\ Retrying(t, kind, failure)
    <3> DEFINE new == [transfer[t] EXCEPT !.state = "SUBMITTED",
                         !.attempt = transfer[t].attempt + 1, !.task = 0, !.seq = seq]
    <3>1. transfer'[t] = new
      BY <1>0, <2>2, <2>4 DEF ApplyEvent
    <3>2. new.state = "SUBMITTED" /\ new.task = 0 /\ new.kind = transfer[t].kind
      BY <1>0 DEF TransferRow
    <3> HIDE DEF new
    <3> QED
      BY <2>4, <3>1, <3>2 DEF RowHonest
  <2>5. CASE u = t /\ ~Retrying(t, kind, failure)
    <3> DEFINE new == [transfer[t] EXCEPT !.state = TargetState[kind], !.seq = seq]
    <3>1. transfer'[t] = new
      BY <1>0, <2>2, <2>5 DEF ApplyEvent
    <3>2. /\ new.state = TargetState[kind] /\ new.task = transfer[t].task
          /\ new.kind = transfer[t].kind
      BY <1>0 DEF TransferRow
    <3>3. TargetState[kind] = "SUCCEEDED" => kind = "finished"
      BY DEF TargetState, EventKinds
    <3>4. ASSUME kind = "finished" PROVE EndedWell(t)
      <4>1. CASE \E e \in events : e.t = t /\ e.kind = kind
        BY <3>4, <4>1 DEF OwnWorkInv, EventsTrue
      <4>2. CASE transfer[t].task \in TaskIds /\ FoundKind(t) = kind
        <5>1. task[transfer[t].task].state = "SUCCEEDED"
          BY <3>4, <4>2 DEF FoundKind
        <5>2. task[transfer[t].task].of = t
          BY <4>2, TaskIdsAssumption DEF OwnWorkInv, RowsOwn
        <5> QED
          BY <4>2, <5>1, <5>2 DEF EndedWell
      <4> QED
        BY <2>2, <3>4, <4>1, <4>2 DEF Vouched
    <3> HIDE DEF new
    <3> QED
      BY <2>5, <3>1, <3>2, <3>3, <3>4 DEF RowHonest
  <2> QED
    BY <2>3, <2>4, <2>5
<1> QED
  BY <1>1, <1>2, <1>4, <1>5, <1>6, <1>7, HowRowsChange

\* Every step keeps the rows true, and their tasks their own.
LEMMA RowsStayOwn ==
    ASSUME TypeInv, OwnWorkInv, TasksGrow, Next
    PROVE  RowsOwn' /\ RowsTrue'
<1>1. \A t \in Transfers : transfer[t].task \in TaskRef /\ sent[t] \in TaskRef
  BY DEF TypeInv, TransfersOK, TransferRow, PassOK
<1>2. RowsOwn'
  <2> SUFFICES ASSUME NEW t \in Transfers, transfer'[t].task # 0
               PROVE  task'[transfer'[t].task].of = t
    BY DEF RowsOwn
  <2>1. PICK k \in TaskIds : k = transfer'[t].task /\ task[k].of = t
    BY <1>1, RowsHonest DEF RowHonest, OwnWorkInv, RowsOwn, SentOwn, TaskRef
  <2> QED
    BY <2>1, NoTransferAssumption DEF TasksGrow
<1>3. RowsTrue'
  <2> SUFFICES ASSUME NEW t \in Transfers, transfer'[t].state = "SUCCEEDED",
                      transfer'[t].kind # "release"
               PROVE  EndedWell(t)'
    BY DEF RowsTrue
  <2>1. EndedWell(t) \/ (Exists(t) /\ transfer[t].state = "SUCCEEDED")
    BY RowsHonest DEF RowHonest, Exists
  <2>2. EndedWell(t)
    BY <2>1, RowsHonest DEF RowHonest, OwnWorkInv, RowsTrue
  <2> QED
    BY <2>2, EndsStay
<1> QED
  BY <1>2, <1>3

\* Every step keeps the tasks of a pass its own.
LEMMA SentStaysOwn ==
    ASSUME TypeInv, OwnWorkInv, TasksGrow, Next
    PROVE  SentOwn'
<1>0. sent \in [Transfers -> TaskRef]
  BY DEF TypeInv, PassOK
<1>1. ASSUME \A t \in Transfers : sent'[t] \in {0, sent[t]} PROVE SentOwn'
  BY <1>0, <1>1, NoTransferAssumption DEF SentOwn, OwnWorkInv, TasksGrow, TaskRef
<1>2. ASSUME NEW t \in Transfers, NEW k \in TaskIds, PassStart(t, k) PROVE SentOwn'
  <2>1. sent' = [sent EXCEPT ![t] = k] /\ task'[k].of = t
    BY <1>2, SubmitGrows DEF PassStart, OwnWorkInv
  <2> QED
    BY <1>0, <2>1, NoTransferAssumption, Zenon DEF SentOwn, OwnWorkInv, TasksGrow, TaskRef
<1>3. ASSUME NEW h \in Slots, RequestStep(h) PROVE UNCHANGED sent
  BY <1>3, RequestsLeave DEF elsewhere, schedulerVars
<1>4. ASSUME NEW h \in Slots, AnswerStep(h) PROVE UNCHANGED sent
  BY <1>4, AnswersLeave DEF elsewhere, schedulerVars
<1>5. ASSUME PassStep PROVE SentOwn'
  BY <1>1, <1>2, <1>5, Zenon DEF PassStep, PassBegin, PassReplyLost, PassRefused, PassCommit
<1>6. ASSUME EventStep PROVE UNCHANGED sent
  BY <1>6 DEF EventStep, EventApplied, EventIgnored, EventRaises, EventAppliedRelease,
       elsewhere, schedulerVars, controllerVars
<1>7. ASSUME NEW k \in TaskIds, DaemonStep(k) PROVE UNCHANGED sent
  BY <1>7 DEF DaemonStep, controllerVars
<1>8. ASSUME RestartStep PROVE \A t \in Transfers : sent'[t] \in {0, sent[t]}
  BY <1>8 DEF RestartStep, RestartDaemon, ControllerCrash, ReconcileRequeue,
       ReconcileAdopt, ReconcileWait, ReconcileGiveUp, ReconcileRaises, ReconcileDone,
       Adopt, schedulerVars
<1> QED
  BY <1>1, <1>3, <1>4, <1>5, <1>6, <1>7, <1>8 DEF Next, Slots

\* Every step keeps deletions to releases.
LEMMA DeletesStay ==
    ASSUME TypeInv, OwnWorkInv, Next
    PROVE  DeletesRelease'
<1>0. /\ request \in [Slots -> Request]
      /\ \A g \in Slots : Deleting(g) =>
           request[g].t \in Transfers /\ transfer'[request[g].t].kind = "release"
  <2>1. \A g \in Slots : Deleting(g) =>
          /\ request[g].t \in Transfers /\ Exists(request[g].t)
          /\ transfer[request[g].t].kind = "release"
    BY NoTransferAssumption DEF TypeInv, RequestsOK, WellFormed, RequestsNamed, Deleting,
         OwnWorkInv, DeletesRelease
  <2> QED
    BY <2>1, RowsHonest DEF RowHonest, TypeInv, RequestsOK
<1>1. CASE UNCHANGED request
  BY <1>0, <1>1 DEF DeletesRelease, Deleting
<1>2. ASSUME NEW h \in Slots, NEW r, request' = [request EXCEPT ![h] = r],
             r.op = "release" /\ r.at # "due" => transfer'[r.t].kind = "release"
      PROVE  DeletesRelease'
  BY <1>0, <1>2 DEF DeletesRelease, Deleting
<1>3. ASSUME NEW h \in Slots, NEW op \in {"create", "warm", "flush", "cancel"}, NEW r,
             r.op = op, request' = [request EXCEPT ![h] = r]
      PROVE  DeletesRelease'
  BY <1>2, <1>3
<1>4. ASSUME NEW h \in Slots, Done(h) PROVE DeletesRelease'
  BY <1>2, <1>4, RestingType DEF Done
<1>5. ASSUME NEW h \in Slots, request[h].at = "calling", Goto(h, "answered")
      PROVE  DeletesRelease'
  <2> DEFINE r == [request[h] EXCEPT !.at = "answered"]
  <2>1. r.op = request[h].op /\ r.t = request[h].t
    BY <1>0 DEF Request
  <2>2. request' = [request EXCEPT ![h] = r]
    BY <1>5 DEF Goto
  <2> HIDE DEF r
  <2> QED
    BY <1>0, <1>2, <1>5, <2>1, <2>2 DEF Deleting
<1>6. ASSUME NEW h \in Slots, NEW f \in Filesets, NEW t \in Transfers, BeginRelease(h, f, t)
      PROVE  DeletesRelease'
  <2> DEFINE r == [Resting EXCEPT !.op = "release", !.f = f, !.t = t,
                                  !.at = IF fileset[f].path THEN "calling" ELSE "refused"]
             new == [NoRow EXCEPT !.state = "RUNNING", !.kind = "release", !.fs = f,
                                  !.after = FALSE]
  <2>1. r.t = t
    BY RestingType DEF WellFormed, Request
  <2>2. new.kind = "release"
    BY DEF NoRow
  <2>3. request' = [request EXCEPT ![h] = r] /\ transfer' = [transfer EXCEPT ![t] = new]
    BY <1>6 DEF BeginRelease, Insert
  <2> HIDE DEF r, new
  <2>4. transfer'[r.t].kind = "release"
    BY <2>1, <2>2, <2>3 DEF TypeInv, TransfersOK
  <2> QED
    BY <1>2, <2>3, <2>4
<1>7. ASSUME NEW h \in Slots, RequestStep(h) PROVE DeletesRelease'
  <2> USE RestingType DEF WellFormed, Request
  <2>1. ASSUME NEW f \in Filesets, CreateBegin(h, f) PROVE DeletesRelease'
    <3> DEFINE r == [Resting EXCEPT !.op = "create", !.at = "calling", !.f = f]
    <3>1. r.op = "create" /\ request' = [request EXCEPT ![h] = r]
      BY <2>1 DEF CreateBegin
    <3> HIDE DEF r
    <3> QED
      BY <1>3, <3>1
  <2>2. ASSUME NEW f \in Filesets, WarmCheck(h, f) PROVE DeletesRelease'
    <3> DEFINE r == [Resting EXCEPT !.op = "warm", !.at = "checked", !.f = f]
    <3>1. r.op = "warm" /\ request' = [request EXCEPT ![h] = r]
      BY <2>2 DEF WarmCheck
    <3> HIDE DEF r
    <3> QED
      BY <1>3, <3>1
  <2>3. ASSUME NEW f \in Filesets, FlushCheck(h, f) PROVE DeletesRelease'
    <3> DEFINE r == [Resting EXCEPT !.op = "flush", !.at = "checked", !.f = f,
                                    !.seen = fileset[f].state]
    <3>1. r.op = "flush" /\ request' = [request EXCEPT ![h] = r]
      BY <2>3 DEF FlushCheck
    <3> HIDE DEF r
    <3> QED
      BY <1>3, <3>1
  <2>4. ASSUME NEW f \in Filesets, NEW t \in Transfers, WarmSubmit(h, f, t)
        PROVE  DeletesRelease'
    <3>1. PICK seen : request' = [request EXCEPT ![h] =
                        [request[h] EXCEPT !.at = "calling", !.f = f, !.t = t,
                                           !.seen = seen]]
      BY <2>4, Zenon DEF WarmSubmit
    <3> DEFINE r == [request[h] EXCEPT !.at = "calling", !.f = f, !.t = t, !.seen = seen]
    <3>2. r.op = request[h].op /\ request[h].op = "warm"
      BY <1>0, <2>4 DEF WarmSubmit, At
    <3> HIDE DEF r
    <3> QED
      BY <1>3, <3>1, <3>2 DEF r
  <2>5. ASSUME NEW t \in Transfers, CancelBegin(h, t) PROVE DeletesRelease'
    <3> DEFINE r == [Resting EXCEPT !.op = "cancel", !.at = "calling", !.t = t,
                                    !.k = transfer[t].task]
    <3>1. r.op = "cancel" /\ request' = [request EXCEPT ![h] = r]
      BY <2>5 DEF CancelBegin
    <3> HIDE DEF r
    <3> QED
      BY <1>3, <3>1, Zenon
  <2> QED
    BY <1>1, <1>4, <1>6, <1>7, <2>1, <2>2, <2>3, <2>4, <2>5
       DEF RequestStep, ReleaseBegin, FlushSubmit, CancelAtOnce, WarmRefused, FlushRefused
<1>8. ASSUME NEW h \in Slots, AnswerStep(h) PROVE DeletesRelease'
  <2>1. ASSUME NEW t \in Transfers, ReleaseAfterFlush(h, t) PROVE DeletesRelease'
    BY <1>6, <2>1 DEF ReleaseAfterFlush, At, TypeInv, RequestsOK, WellFormed
  <2> QED
    BY <1>4, <1>5, <1>8, <2>1, Zenon
       DEF AnswerStep, CreateAnswered, CreateFails, WarmPrepared, WarmUnprepared,
           ReleaseDelete, ReleaseCommit, ReleaseFails, CancelAbort, CancelUnreachable,
           CancelCommit, At
<1>9. ASSUME PassStep PROVE UNCHANGED request
  BY <1>9, Zenon DEF PassStep, PassBegin, PassStart, PassReplyLost, PassRefused, PassCommit
<1>10. ASSUME EventStep PROVE DeletesRelease'
  <2>1. ASSUME NEW e \in events, NEW h \in EventHandlers, EventAppliedRelease(h, e)
        PROVE  DeletesRelease'
    <3> DEFINE r == [Resting EXCEPT !.op = "release", !.at = "due",
                                    !.f = transfer[e.t].fs]
    <3>1. r.at = "due"
      BY RestingType DEF WellFormed, Request
    <3>2. request' = [request EXCEPT ![h] = r] /\ h \in Slots
      BY <2>1 DEF EventAppliedRelease, Slots
    <3> HIDE DEF r
    <3> QED
      BY <1>2, <3>1, <3>2
  <2> QED
    BY <1>1, <1>10, <2>1
       DEF EventStep, EventApplied, EventIgnored, EventRaises, controllerVars
<1>11. ASSUME NEW k \in TaskIds, DaemonStep(k) PROVE UNCHANGED request
  BY <1>11 DEF DaemonStep, controllerVars
<1>12. ASSUME RestartStep PROVE DeletesRelease'
  <2>1. ASSUME ControllerCrash PROVE DeletesRelease'
    BY <2>1, RestingType DEF ControllerCrash, DeletesRelease, Deleting
  <2> QED
    BY <1>1, <1>12, <2>1
       DEF RestartStep, RestartDaemon, ReconcileRequeue, ReconcileAdopt, ReconcileWait,
           ReconcileGiveUp, ReconcileRaises, ReconcileDone, Adopt
<1> QED
  BY <1>1, <1>7, <1>8, <1>9, <1>10, <1>11, <1>12 DEF Next, Slots

\* The invariant holds in every state.
LEMMA OwnWork ==
    ASSUME "daemon_restart" \notin Env
    PROVE  Spec => []OwnWorkInv
<1>1. Init => OwnWorkInv
  BY RestingType DEF Init, DaemonInit, NoTask, NoRow, OwnWorkInv, TasksClean, RowsOwn,
       SentOwn, EventsTrue, RowsTrue, DeletesRelease, Deleting, Idle
<1>2. TypeInv /\ OwnWorkInv /\ [Next]_vars => OwnWorkInv'
  <2> SUFFICES ASSUME TypeInv, OwnWorkInv, [Next]_vars PROVE OwnWorkInv'
    OBVIOUS
  <2>1. CASE Next
    <3>1. TasksGrow
      BY <2>1, TasksOnlyGrow DEF OwnWorkInv
    <3>2. TasksClean'
      BY <3>1 DEF TasksGrow, TasksClean
    <3> QED
      BY <2>1, <3>1, <3>2, EventsStayTrue, RowsStayOwn, SentStaysOwn, DeletesStay
         DEF OwnWorkInv
  <2>2. CASE UNCHANGED vars
    BY <2>2 DEF vars, controllerVars, daemonVars, OwnWorkInv, TasksClean, RowsOwn,
         SentOwn, EventsTrue, RowsTrue, DeletesRelease, Deleting, Idle, EndedWell
  <2> QED
    BY <2>1, <2>2
<1> QED
  BY <1>1, <1>2, TypeInvariant, PTL DEF Spec

\* As long as no daemon restarts, the task number a transfer in flight holds names
\* its own task: whatever is asked, adopted or stopped by that number
\* (services/reconcile.py, services/cancel.py) is its own work.
THEOREM NamesOwnWork ==
    ASSUME "daemon_restart" \notin Env
    PROVE  Spec => []TaskNamesOwnWork
<1>1. OwnWorkInv => TaskNamesOwnWork
  BY DEF OwnWorkInv, RowsOwn, TaskNamesOwnWork
<1> QED
  BY <1>1, OwnWork, PTL

\* As long as no daemon restarts, a warm or flush that says SUCCEEDED was carried out
\* by a task that ended well: no crash, lost answer, retry, cancellation or
\* reconciliation invents a success (services/events.py, services/reconcile.py).
THEOREM SuccessIsTrue ==
    ASSUME "daemon_restart" \notin Env
    PROVE  Spec => []SucceededIsTrue
<1>1. OwnWorkInv => SucceededIsTrue
  BY DEF OwnWorkInv, RowsTrue, SucceededIsTrue, MovesData, EndedWell
<1> QED
  BY <1>1, OwnWork, PTL

-----------------------------------------------------------------------------
(* One task per transfer.                                                  *)

\* Reports of an end on their way to the controller.
EndEvents(t) == {e \in events : e.t = t /\ e.kind \in {"finished", "failed"}}

\* A daemon is working on the transfer, or has ended and not yet been heard.
Engaged(t) == LiveFor(t) # {} \/ EndEvents(t) # {}

\* The invariant behind OneTaskPerTransfer: nothing engaged waits to be offered.
OneTaskInv ==
    /\ up /\ recovery = {}
    /\ OneTaskPerTransfer
    /\ \A t \in Transfers : EndEvents(t) # {} => LiveFor(t) = {}
    /\ \A t \in Transfers : \A d, e \in EndEvents(t) : d = e
    /\ \A t \in Transfers :
         Engaged(t) => t \notin todo /\ (transfer[t].state = "SUBMITTED" => sent[t] # 0)

\* Not offered again, and nothing a daemon does.
Passive ==
    /\ \A k \in TaskIds : task'[k].of = task[k].of /\ (Live(k)' <=> Live(k))
    /\ UNCHANGED <<events, todo, sent, up, recovery>>
    /\ \A t \in Transfers : 
         transfer'[t].state = "SUBMITTED" => transfer[t].state \in {"SUBMITTED", "NONE"}

\* What a daemon works on has a row.
LEMMA EngagedExists ==
    ASSUME TypeInv, NEW t \in Transfers, Engaged(t)
    PROVE  transfer[t].state # "NONE"
BY DEF TypeInv, Engaged, LiveFor, EndEvents, TasksNamed, EventsNamed, Exists, Live, Idle

\* Passive steps keep the invariant.
LEMMA PassiveKeeps ==
    ASSUME TypeInv, OneTaskInv, Passive
    PROVE  OneTaskInv'
<1>1. \A t \in Transfers : LiveFor(t)' = LiveFor(t) /\ EndEvents(t)' = EndEvents(t)
  BY DEF Passive, LiveFor, EndEvents
<1>2. \A t \in Transfers : Engaged(t)' <=> Engaged(t)
  BY <1>1 DEF Engaged
<1>3. OneTaskPerTransfer'
  BY <1>1 DEF OneTaskInv, OneTaskPerTransfer
<1>4. \A t \in Transfers :
         Engaged(t)' => t \notin todo' /\ (transfer'[t].state = "SUBMITTED" => sent'[t] # 0)
  BY <1>2, EngagedExists DEF OneTaskInv, Passive
<1> QED
  BY <1>1, <1>3, <1>4 DEF OneTaskInv, Passive

\* Inserting a row offers no other one again.
LEMMA InsertStates ==
    ASSUME TypeInv, NEW t \in Transfers, NEW kind, NEW f, NEW state, NEW after,
           Insert(t, kind, f, state, after)
    PROVE  \A u \in Transfers :
             transfer'[u].state = "SUBMITTED" => transfer[u].state \in {"SUBMITTED", "NONE"}
BY DEF Insert, TypeInv, TransfersOK

\* Ending a transfer offers nothing again.
LEMMA SetStateStates ==
    ASSUME TypeInv, NEW t, NEW state, state # "SUBMITTED",
           transfer' = [transfer EXCEPT ![t].state = state]
    PROVE  \A u \in Transfers :
             transfer'[u].state = "SUBMITTED" => transfer[u].state \in {"SUBMITTED", "NONE"}
BY DEF TypeInv, TransfersOK, TransferRow

\* The same tasks are live, and for the same transfers.
LEMMA SameTasks ==
    ASSUME UNCHANGED task
    PROVE  \A k \in TaskIds : task'[k].of = task[k].of /\ (Live(k)' <=> Live(k))
BY DEF Live

\* A stop that is asked for ends nothing by itself.
LEMMA AbortPassive ==
    ASSUME TypeInv, NEW k, TaskAbort(k)
    PROVE  \A j \in TaskIds : task'[j].of = task[j].of /\ (Live(j)' <=> Live(j))
<1>1. task \in [TaskIds -> Task]
  BY DEF TypeInv, DaemonTypeOK
<1>2. \A j \in TaskIds : task'[j].of = task[j].of /\ task'[j].state = task[j].state
  BY <1>1 DEF TaskAbort, Task
<1> QED
  BY <1>2 DEF Live

\* Nothing a request does offers a transfer again.
LEMMA RequestPassive ==
    ASSUME TypeInv, NEW h \in Slots, RequestStep(h) \/ AnswerStep(h)
    PROVE  Passive
<1> USE SameTasks DEF Passive, daemonVars, elsewhere, schedulerVars, restartVars
<1>1. ASSUME NEW f \in Filesets,
             CreateBegin(h, f) \/ WarmCheck(h, f) \/ FlushCheck(h, f)
      PROVE  Passive
  BY <1>1 DEF CreateBegin, WarmCheck, FlushCheck
<1>2. ASSUME NEW f \in Filesets, NEW t \in Transfers, WarmSubmit(h, f, t) PROVE Passive
  BY <1>2, InsertStates DEF WarmSubmit
<1>3. ASSUME NEW f, NEW t \in Transfers, BeginRelease(h, f, t) PROVE Passive
  BY <1>3, InsertStates DEF BeginRelease
<1>4. ASSUME NEW t \in Transfers, NEW after \in BOOLEAN, FlushSubmit(h, t, after)
      PROVE  Passive
  BY <1>4, InsertStates DEF FlushSubmit
<1>5. ASSUME NEW t, Cancelled(t), UNCHANGED <<daemonVars, elsewhere>> PROVE Passive
  BY <1>5, SetStateStates DEF Cancelled
<1>6. ASSUME NEW t \in Transfers, CancelBegin(h, t) PROVE Passive
  BY <1>6 DEF CancelBegin
<1>7. ASSUME \/ WarmRefused(h) \/ FlushRefused(h) \/ CreateAnswered(h) \/ CreateFails(h)
             \/ WarmPrepared(h) \/ WarmUnprepared(h) \/ ReleaseDelete(h)
             \/ CancelUnreachable(h)
      PROVE  Passive
  BY <1>7, Zenon DEF WarmRefused, FlushRefused, CreateAnswered, CreateFails, WarmPrepared,
              WarmUnprepared, ReleaseDelete, CancelUnreachable
<1>8. ASSUME ReleaseCommit(h) \/ ReleaseFails(h) PROVE Passive
  <2>1. CASE ReleaseCommit(h)
    BY <2>1, SetStateStates DEF ReleaseCommit
  <2>2. CASE ReleaseFails(h)
    BY <2>2, SetStateStates DEF ReleaseFails
  <2> QED
    BY <1>8, <2>1, <2>2
<1>9. ASSUME CancelAbort(h) PROVE Passive
  BY <1>9, AbortPassive DEF CancelAbort
<1> QED
  BY <1>1, <1>2, <1>3, <1>4, <1>5, <1>6, <1>7, <1>8, <1>9
     DEF RequestStep, AnswerStep, ReleaseBegin, ReleaseAfterFlush, CancelAtOnce, CancelCommit

\* A pass keeps the invariant: it offers what is waiting, and all it handed over is
\* committed before the next one reads.
LEMMA PassKeepsOneTask ==
    ASSUME TypeInv, OneTaskInv, PassStep, "lost_reply" \notin Env
    PROVE  OneTaskInv'
<1>1. ASSUME NEW chosen \in SUBSET Transfers, PassBegin(chosen) PROVE OneTaskInv'
  <2>1. \A t \in Transfers : /\ LiveFor(t)' = LiveFor(t)
                             /\ EndEvents(t)' = EndEvents(t)
                             /\ Engaged(t)' <=> Engaged(t)
    BY <1>1 DEF PassBegin, daemonVars, LiveFor, Live, EndEvents, Engaged
  <2>2. \A t \in chosen : ~Engaged(t)
    BY <1>1 DEF PassBegin, LockFree, Passing, Waiting, OneTaskInv
  <2> QED
    BY <1>1, <2>1, <2>2 DEF PassBegin, OneTaskInv, OneTaskPerTransfer, restartVars
<1>2. ASSUME NEW t \in Transfers, NEW k \in TaskIds, PassStart(t, k) PROVE OneTaskInv'
  <2> DEFINE new == [NoTask EXCEPT !.of = t, !.state = "SUBMITTED"]
  <2>1. new.of = t /\ new.state = "SUBMITTED"
    BY DEF NoTask
  <2>2. task' = [task EXCEPT ![k] = new] /\ ~Live(k)
    BY <1>2 DEF PassStart, TaskSubmit, Idle, Live
  <2> HIDE DEF new
  <2>3. ~Engaged(t)
    BY <1>2 DEF PassStart, OneTaskInv
  <2>4. LiveFor(t)' = {k}
    BY <2>1, <2>2, <2>3 DEF LiveFor, Live, Engaged, TypeInv, DaemonTypeOK
  <2>5. \A u \in Transfers \ {t} : LiveFor(u)' = LiveFor(u)
    BY <2>1, <2>2 DEF LiveFor, Live, TypeInv, DaemonTypeOK
  <2>6. \A u \in Transfers : EndEvents(u)' = EndEvents(u)
    BY <1>2 DEF PassStart, EndEvents
  <2>7. /\ todo' = todo \ {t} /\ sent' = [sent EXCEPT ![t] = k] /\ k # 0
        /\ UNCHANGED <<transfer, up, recovery>>
    BY <1>2, TaskIdsAssumption DEF PassStart, restartVars
  <2>8. EndEvents(t) = {} /\ sent'[t] # 0
    BY <2>3, <2>7 DEF Engaged, TypeInv, PassOK
  <2>9. \A u \in Transfers \ {t} : (Engaged(u)' <=> Engaged(u)) /\ sent'[u] = sent[u]
    BY <2>5, <2>6, <2>7 DEF Engaged, TypeInv, PassOK
  <2>10. OneTaskPerTransfer'
    BY <2>4, <2>5 DEF OneTaskPerTransfer, OneTaskInv
  <2> QED
    BY <2>4, <2>5, <2>6, <2>7, <2>8, <2>9, <2>10 DEF OneTaskInv
<1>3. ASSUME NEW t \in Transfers, PassRefused(t) PROVE OneTaskInv'
  <2>1. \A u \in Transfers : /\ LiveFor(u)' = LiveFor(u)
                             /\ EndEvents(u)' = EndEvents(u)
                             /\ Engaged(u)' <=> Engaged(u)
    BY <1>3 DEF PassRefused, daemonVars, LiveFor, Live, EndEvents, Engaged
  <2> QED
    BY <1>3, <2>1 DEF PassRefused, OneTaskInv, OneTaskPerTransfer, restartVars
<1>4. ASSUME PassCommit PROVE OneTaskInv'
  <2>1. \A u \in Transfers : /\ LiveFor(u)' = LiveFor(u)
                             /\ EndEvents(u)' = EndEvents(u)
                             /\ Engaged(u)' <=> Engaged(u)
    BY <1>4, Zenon DEF PassCommit, daemonVars, LiveFor, Live, EndEvents, Engaged
  <2>2. ASSUME NEW u \in Transfers, transfer'[u].state = "SUBMITTED"
        PROVE  transfer[u].state = "SUBMITTED" /\ sent[u] = 0
    BY <1>4, <2>2, Zenon DEF PassCommit, TypeInv, TransfersOK, TransferRow
  <2>3. OneTaskPerTransfer'
    BY <2>1 DEF OneTaskInv, OneTaskPerTransfer
  <2>4. \A u \in Transfers :
          Engaged(u)' => u \notin todo' /\ (transfer'[u].state = "SUBMITTED" => sent'[u] # 0)
    BY <1>4, <2>1, <2>2, Zenon DEF PassCommit, OneTaskInv
  <2> QED
    BY <1>4, <2>1, <2>3, <2>4, Zenon DEF PassCommit, OneTaskInv, restartVars
<1> QED
  BY <1>1, <1>2, <1>3, <1>4 DEF PassStep, PassReplyLost

\* An applied event leaves a transfer SUBMITTED only when a failure is retried.
LEMMA ApplyStates ==
    ASSUME TypeInv, NEW t \in Transfers, NEW seq, NEW kind \in EventKinds, NEW failure,
           ApplyEvent(t, seq, kind, failure)
    PROVE  /\ \A u \in Transfers \ {t} : transfer'[u] = transfer[u]
           /\ kind # "failed" => transfer'[t].state # "SUBMITTED"
<1>1. \A u \in Transfers \ {t} : transfer'[u] = transfer[u]
  BY DEF ApplyEvent, TypeInv, TransfersOK
<1>2. ASSUME kind # "failed" PROVE transfer'[t].state # "SUBMITTED"
  <2>1. transfer'[t] = [transfer[t] EXCEPT !.state = TargetState[kind], !.seq = seq]
    BY <1>2 DEF ApplyEvent, Retrying, TypeInv, TransfersOK
  <2>2. TargetState[kind] # "SUBMITTED"
    BY DEF TargetState, EventKinds
  <2> QED
    BY <2>1, <2>2 DEF TypeInv, TransfersOK, TransferRow
<1> QED
  BY <1>1, <1>2

\* An event keeps the invariant: the failure that offers a transfer again is the last
\* there is of the only task it had.
LEMMA EventKeepsOneTask ==
    ASSUME TypeInv, OneTaskInv, EventStep
    PROVE  OneTaskInv'
<1>1. PICK e \in events :
        \/ EventApplied(e) \/ EventIgnored(e) \/ EventRaises(e)
        \/ \E h \in EventHandlers : EventAppliedRelease(h, e)
  BY DEF EventStep
<1>2. e.t \in Transfers /\ e.kind \in EventKinds
  BY DEF TypeInv, DaemonTypeOK, Event
<1>3. /\ UNCHANGED <<task, todo, sent, up, recovery>>
      /\ events' = events \ {e}
      /\ UNCHANGED transfer \/ ApplyEvent(e.t, e.seq, e.kind, e.failure)
  BY <1>1 DEF EventApplied, EventIgnored, EventRaises, EventAppliedRelease, controllerVars,
              elsewhere, schedulerVars, restartVars
<1>4. \A u \in Transfers : /\ LiveFor(u)' = LiveFor(u)
                           /\ EndEvents(u)' \subseteq EndEvents(u)
                           /\ Engaged(u)' => Engaged(u)
  BY <1>3 DEF LiveFor, Live, EndEvents, Engaged
<1>5. ASSUME e.kind \in {"finished", "failed"} PROVE ~Engaged(e.t)'
  <2>1. e \in EndEvents(e.t)
    BY <1>5 DEF EndEvents
  <2>2. EndEvents(e.t) = {e} /\ LiveFor(e.t) = {}
    BY <1>2, <2>1 DEF OneTaskInv
  <2>3. \A d \in events' : ~(d.t = e.t /\ d.kind \in {"finished", "failed"})
    BY <1>3, <2>2 DEF EndEvents
  <2> QED
    BY <1>2, <1>4, <2>2, <2>3 DEF Engaged, EndEvents, LiveFor
<1>6. ASSUME NEW u \in Transfers, Engaged(u)', transfer'[u].state = "SUBMITTED"
      PROVE  transfer[u].state = "SUBMITTED"
  <2>1. CASE UNCHANGED transfer
    BY <1>6, <2>1
  <2>2. CASE ApplyEvent(e.t, e.seq, e.kind, e.failure)
    BY <1>2, <1>5, <1>6, <2>2, ApplyStates
  <2> QED
    BY <1>3, <2>1, <2>2
<1>7. OneTaskPerTransfer'
  BY <1>4 DEF OneTaskInv, OneTaskPerTransfer
<1> QED
  BY <1>3, <1>4, <1>6, <1>7 DEF OneTaskInv

\* The daemon keeps the invariant.
LEMMA DaemonKeepsOneTask ==
    ASSUME TypeInv, OneTaskInv, NEW k \in TaskIds, DaemonStep(k)
    PROVE  OneTaskInv'
<1>0. /\ task[k] \in Task /\ task \in [TaskIds -> Task] /\ up
      /\ UNCHANGED <<transfer, todo, sent, up, recovery>>
  BY DEF TypeInv, DaemonTypeOK, DaemonStep, controllerVars, OneTaskInv
<1>1. PICK heard \in BOOLEAN :
         \/ TaskRun(k, heard)
         \/ TaskProgress(k, heard)
         \/ TaskSucceed(k, heard)
         \/ \E failure \in Failures \cup {"cancelled"} : TaskFail(k, failure, heard)
  BY DEF DaemonStep, Heard
<1>2. PICK t \in Transfers : t = task[k].of /\ Live(k) /\ k \in LiveFor(t)
  <2>1. Live(k) /\ ~Idle(k)
    BY <1>1 DEF TaskRun, TaskProgress, TaskSucceed, TaskFail, Idle, Live
  <2> QED
    BY <2>1 DEF TypeInv, TasksNamed, LiveFor
<1>3. LiveFor(t) = {k} /\ EndEvents(t) = {} /\ Engaged(t)
  <2>1. \A j \in LiveFor(t) : j = k
    BY <1>2 DEF OneTaskInv, OneTaskPerTransfer
  <2>2. LiveFor(t) # {} /\ Engaged(t)
    BY <1>2 DEF Engaged
  <2>3. EndEvents(t) = {}
    BY <2>2 DEF OneTaskInv
  <2> QED
    BY <1>2, <2>1, <2>2, <2>3
<1>4. ASSUME TaskRun(k, heard) \/ TaskProgress(k, heard)
      PROVE  OneTaskInv'
  <2>1. PICK new : new.kind \notin {"finished", "failed"} /\ events' \subseteq events \cup {new}
    <3>1. PICK kind \in {"started", "progress"} :
             Report(t, kind, NoFailure, heard)
      BY <1>2, <1>4 DEF TaskRun, TaskProgress
    <3> DEFINE new == [t |-> t, seq |-> reported[t] + 1, kind |-> kind,
                       failure |-> NoFailure]
    <3>2. new.kind = kind /\ events' \subseteq events \cup {new}
      BY <3>1 DEF Report
    <3> QED
      BY <3>2
  <2>2. \A j \in TaskIds : task'[j].of = task[j].of /\ (Live(j)' => Live(j))
    BY <1>0, <1>2, <1>4 DEF TaskRun, TaskProgress, Live, Task
  <2>3. \A u \in Transfers : /\ LiveFor(u)' \subseteq LiveFor(u)
                             /\ EndEvents(u)' \subseteq EndEvents(u)
                             /\ Engaged(u)' => Engaged(u)
    BY <2>1, <2>2 DEF LiveFor, EndEvents, Engaged
  <2>4. OneTaskPerTransfer'
    BY <2>3 DEF OneTaskInv, OneTaskPerTransfer
  <2> QED
    BY <1>0, <2>3, <2>4 DEF OneTaskInv
<1>5. ASSUME \/ TaskSucceed(k, heard)
             \/ \E failure \in Failures \cup {"cancelled"} : TaskFail(k, failure, heard)
      PROVE  OneTaskInv'
  <2>1. PICK new : events' \subseteq events \cup {new} /\ new.t = t
    <3>1. PICK kind, failure : Report(t, kind, failure, heard)
      BY <1>2, <1>5 DEF TaskSucceed, TaskFail
    <3> DEFINE new == [t |-> t, seq |-> reported[t] + 1, kind |-> kind,
                       failure |-> failure]
    <3>2. new.t = t /\ events' \subseteq events \cup {new}
      BY <3>1 DEF Report
    <3> QED
      BY <3>2
  <2>2. \A j \in TaskIds : /\ task'[j].of = task[j].of
                           /\ Live(j)' <=> Live(j) /\ j # k
    BY <1>0, <1>2, <1>5 DEF TaskSucceed, TaskFail, Live, Task
  <2>3. LiveFor(t)' = {}
    BY <1>3, <2>2 DEF LiveFor
  <2>4. \A d, e \in EndEvents(t)' : d = e
    BY <1>3, <2>1 DEF EndEvents
  <2>5. \A u \in Transfers \ {t} : /\ LiveFor(u)' = LiveFor(u)
                                   /\ EndEvents(u)' \subseteq EndEvents(u)
                                   /\ Engaged(u)' => Engaged(u)
    BY <1>2, <2>1, <2>2 DEF LiveFor, EndEvents, Engaged
  <2>6. OneTaskPerTransfer'
    BY <2>3, <2>5 DEF OneTaskInv, OneTaskPerTransfer
  <2> QED
    BY <1>0, <1>2, <1>3, <2>3, <2>4, <2>5, <2>6 DEF OneTaskInv
<1> QED
  BY <1>1, <1>4, <1>5

\* A restart of the daemon keeps the invariant.
LEMMA RestartKeepsOneTask ==
    ASSUME TypeInv, OneTaskInv, RestartStep, "controller_crash" \notin Env
    PROVE  OneTaskInv'
<1>1. ASSUME RestartDaemon PROVE OneTaskInv'
  <2>1. \A k \in TaskIds : ~Live(k)'
    BY <1>1 DEF RestartDaemon, DaemonRestart, NoTask, Live
  <2>2. \A u \in Transfers : /\ LiveFor(u)' = {}
                             /\ EndEvents(u)' = EndEvents(u)
                             /\ Engaged(u)' => Engaged(u)
    BY <1>1, <2>1 DEF RestartDaemon, DaemonRestart, LiveFor, EndEvents, Engaged
  <2> QED
    BY <1>1, <2>2 DEF RestartDaemon, OneTaskInv, OneTaskPerTransfer, schedulerVars
<1>2. ~ControllerCrash
  BY DEF ControllerCrash
<1>3. \A t \in Transfers : ~Reconciling(t)
  BY DEF Reconciling, OneTaskInv
<1>4. ~ReconcileDone
  BY DEF ReconcileDone, OneTaskInv
<1> QED
  BY <1>1, <1>2, <1>3, <1>4
     DEF RestartStep, ReconcileRequeue, ReconcileAdopt, ReconcileWait, ReconcileGiveUp,
         ReconcileRaises

\* Every step keeps the invariant.
LEMMA OneTaskStep ==
    ASSUME TypeInv, OneTaskInv, [Next]_vars, "controller_crash" \notin Env,
           "lost_reply" \notin Env
    PROVE  OneTaskInv'
<1>1. CASE Next
  <2>1. Handlers \subseteq Slots
    BY DEF Slots
  <2> QED
    BY <1>1, <2>1, RequestPassive, PassiveKeeps, PassKeepsOneTask, EventKeepsOneTask,
       DaemonKeepsOneTask, RestartKeepsOneTask DEF Next
<1>2. CASE UNCHANGED vars
  BY <1>2, SameTasks, PassiveKeeps DEF Passive, vars, controllerVars, daemonVars
<1> QED
  BY <1>1, <1>2

\* The invariant holds in every state.
LEMMA OneTaskInvariant ==
    ASSUME "controller_crash" \notin Env, "lost_reply" \notin Env
    PROVE  Spec => []OneTaskInv
<1>1. Init => OneTaskInv
  BY DEF Init, DaemonInit, OneTaskInv, OneTaskPerTransfer, LiveFor, Live, NoTask,
         EndEvents, Engaged
<1>2. TypeInv /\ OneTaskInv /\ [Next]_vars => OneTaskInv'
  BY OneTaskStep
<1> QED
  BY <1>1, <1>2, TypeInvariant, PTL DEF Spec

\* As long as the controller does not crash and no answer of a daemon to a dispatch is
\* lost, a transfer is never carried out by two tasks at once, whatever the order of
\* events, retries and cancellations, and even if daemons restart
\* (scheduler/loop.py run_pass, services/events.py).
THEOREM OneTask ==
    ASSUME "controller_crash" \notin Env, "lost_reply" \notin Env
    PROVE  Spec => []OneTaskPerTransfer
<1>1. OneTaskInv => OneTaskPerTransfer
  BY DEF OneTaskInv
<1> QED
  BY <1>1, OneTaskInvariant, PTL

-----------------------------------------------------------------------------
(* What the steps of requests do, column by column.                        *)

\* Scheduler, reports and reconciliation stay as they are, and so do tasks but for
\* the mark of a stop.
Aside ==
    /\ UNCHANGED <<reported, events, todo, sent, up, recovery>>
    /\ \A k \in TaskIds : task'[k].of = task[k].of /\ task'[k].state = task[k].state

\* The handler goes on to this, and the others stay where they are.
Keeps(h, op, at, f, t) ==
    /\ request'[h].op = op /\ request'[h].at = at
    /\ request'[h].f = f /\ request'[h].t = t
    /\ \A g \in Slots \ {h} : request'[g] = request[g]

\* The handler has answered its request.
Rests(h) == Keeps(h, "none", "idle", NoFileset, NoTransfer)

\* The fileset comes to this state, and the others keep theirs.
Place(f, state, path, dir) ==
    /\ fileset'[f].state = state /\ fileset'[f].path = path /\ fileset'[f].dir = dir
    /\ \A g \in Filesets \ {f} : fileset'[g] = fileset[g]

\* Only the state of the fileset changes.
State(f, state) == Place(f, state, fileset[f].path, fileset[f].dir)

\* A row is inserted, and the others stay.
NewRow(t, kind, f, state) ==
    /\ ~Exists(t)
    /\ transfer'[t].state = state /\ transfer'[t].kind = kind /\ transfer'[t].fs = f
    /\ transfer'[t].task = 0 /\ transfer'[t].seq = 0
    /\ \A u \in Transfers \ {t} : transfer'[u] = transfer[u]

\* Only the state of the row changes.
RowState(t, state) ==
    /\ transfer'[t].state = state
    /\ transfer'[t].kind = transfer[t].kind /\ transfer'[t].fs = transfer[t].fs
    /\ transfer'[t].task = transfer[t].task /\ transfer'[t].seq = transfer[t].seq
    /\ \A u \in Transfers \ {t} : transfer'[u] = transfer[u]

\* A user's request begins.
Begins(h) == h \in Handlers /\ up /\ request[h] = Resting

\* No release is about to start by itself, unless that is let to overlap.
NoneDue == "release_gap" \in Env \/ \A g \in Slots : ~At(g, "release", "due")

Creates(h, f) ==
    /\ Begins(h) /\ NoneDue
    /\ fileset[f].state = "NONE"
    /\ State(f, "CREATING")
    /\ Keeps(h, "create", "calling", f, NoTransfer)
    /\ UNCHANGED transfer

LooksToWarm(h, f) ==
    /\ Begins(h) /\ NoneDue
    /\ "refresh" \notin Ops => fileset[f].state = "NONE"
    /\ Keeps(h, "warm", "checked", f, NoTransfer)
    /\ UNCHANGED <<transfer, fileset>>

LooksToFlush(h, f) ==
    /\ Begins(h) /\ NoneDue
    /\ IsLive(f)
    /\ Keeps(h, "flush", "checked", f, NoTransfer) /\ request'[h].seen = fileset[f].state
    /\ UNCHANGED <<transfer, fileset>>

Warms(h, f, t) ==
    /\ h \in Handlers /\ At(h, "warm", "checked")
    /\ \/ f = request[h].f
       \/ fileset[request[h].f].state = "RELEASED" /\ fileset[f].state = "NONE"
    /\ fileset[f].state # "RELEASED"
    /\ NewRow(t, "warm", f, "SUBMITTED")
    /\ IsLive(f) => State(f, fileset[f].state)
    /\ ~IsLive(f) => State(f, "CREATING") /\ request'[h].seen = "CREATING"
    /\ Keeps(h, "warm", "calling", f, t)

Refused(h) ==
    /\ At(h, "warm", "checked") \/ At(h, "flush", "checked")
    /\ Rests(h)
    /\ UNCHANGED <<transfer, fileset>>

Flushes(h, f, t) ==
    /\ h \in Handlers /\ At(h, "flush", "checked") /\ f = request[h].f
    /\ "FLUSHING" \in FilesetMoves[request[h].seen]
    /\ NewRow(t, "flush", f, "SUBMITTED")
    /\ State(f, "FLUSHING")
    /\ Rests(h)

Releases(h, f, t) ==
    /\ \/ Begins(h) /\ NoneDue /\ fileset[f].state \in {"READY", "FAILED"}
       \/ At(h, "release", "due") /\ f = request[h].f
    /\ NewRow(t, "release", f, "RUNNING")
    /\ State(f, "RELEASING")
    /\ \/ fileset[f].path /\ Keeps(h, "release", "calling", f, t)
       \/ ~fileset[f].path /\ Keeps(h, "release", "refused", f, t)

Settles(h, t) ==
    /\ Exists(t)
    /\ \/ "cancel" \in Ops /\ up /\ transfer[t].state \notin Terminal /\ UNCHANGED request
       \/ At(h, "cancel", "answered") /\ t = request[h].t /\ Rests(h)
    /\ RowState(t, "CANCELLED")
    /\ fileset[transfer[t].fs].state = "RELEASED" => UNCHANGED fileset
    /\ fileset[transfer[t].fs].state # "RELEASED" => State(transfer[t].fs, "FAILED")

AsksToStop(h, t) ==
    /\ Begins(h) /\ "cancel" \in Ops /\ transfer[t].state \notin Terminal
    /\ Keeps(h, "cancel", "calling", NoFileset, t)
    /\ UNCHANGED <<transfer, fileset>>

Stopped(h) ==
    /\ At(h, "cancel", "calling")
    /\ Keeps(h, "cancel", "answered", request[h].f, request[h].t)
    /\ UNCHANGED <<transfer, fileset>>

Created(h, f) ==
    /\ At(h, "create", "calling") /\ f = request[h].f
    /\ Place(f, "READY", TRUE, TRUE)
    /\ Rests(h)
    /\ UNCHANGED transfer

NotCreated(h, f) ==
    /\ "unreachable" \in Env /\ At(h, "create", "calling") /\ f = request[h].f
    /\ \E state \in {"NONE", fileset[f].state}, dir \in BOOLEAN :
         (fileset[f].dir => dir) /\ Place(f, state, fileset[f].path, dir)
    /\ Rests(h)
    /\ UNCHANGED transfer

Prepared(h, f) ==
    /\ At(h, "warm", "calling") /\ f = request[h].f
    /\ \/ Place(f, "POPULATING", TRUE, TRUE)
       \/ request[h].seen # "CREATING" /\ Place(f, fileset[f].state, fileset[f].path, TRUE)
    /\ Rests(h)
    /\ UNCHANGED transfer

NotPrepared(h, f) ==
    /\ "unreachable" \in Env /\ At(h, "warm", "calling") /\ f = request[h].f
    /\ \E dir \in BOOLEAN :
         (fileset[f].dir => dir) /\ Place(f, fileset[f].state, fileset[f].path, dir)
    /\ Rests(h)
    /\ UNCHANGED transfer

Deletes(h, f) ==
    /\ At(h, "release", "calling") /\ f = request[h].f
    /\ Place(f, fileset[f].state, fileset[f].path, FALSE)
    /\ Keeps(h, "release", "answered", f, request[h].t)
    /\ UNCHANGED transfer

Frees(h, f, t) ==
    /\ At(h, "release", "answered") /\ f = request[h].f /\ t = request[h].t
    /\ State(f, "RELEASED")
    /\ RowState(t, "SUCCEEDED")
    /\ Rests(h)

GivesUp(h, f, t) ==
    /\ \/ At(h, "release", "refused")
       \/ "unreachable" \in Env /\ (At(h, "release", "calling") \/ At(h, "release", "answered"))
    /\ f = request[h].f /\ t = request[h].t
    /\ State(f, "FAILED")
    /\ RowState(t, "FAILED")
    /\ Rests(h)

\* All that a step of a request can do.
Requested(h) ==
    \/ \E f \in Filesets : Creates(h, f) \/ LooksToWarm(h, f) \/ LooksToFlush(h, f)
    \/ \E f \in Filesets, t \in Transfers :
         Warms(h, f, t) \/ Flushes(h, f, t) \/ Releases(h, f, t)
    \/ \E t \in Transfers : Settles(h, t) \/ AsksToStop(h, t)
    \/ Refused(h) \/ Stopped(h)
    \/ \E f \in Filesets :
         \/ Created(h, f) \/ NotCreated(h, f) \/ Prepared(h, f) \/ NotPrepared(h, f)
         \/ Deletes(h, f)
    \/ \E f \in Filesets, t \in Transfers : Frees(h, f, t) \/ GivesUp(h, f, t)

\* The columns of a row that is inserted.
LEMMA InsertColumns ==
    ASSUME TypeInv, NEW t \in Transfers, NEW kind \in TransferKinds, NEW f \in Filesets,
           NEW state \in TransferStates, NEW after \in BOOLEAN,
           Insert(t, kind, f, state, after)
    PROVE  NewRow(t, kind, f, state)
<1> DEFINE new == [NoRow EXCEPT !.state = state, !.kind = kind, !.fs = f,
                                !.after = after]
<1>1. /\ new.state = state /\ new.kind = kind /\ new.fs = f /\ new.task = 0
      /\ new.seq = 0
  BY DEF NoRow
<1>2. transfer' = [transfer EXCEPT ![t] = new] /\ ~Exists(t)
  BY DEF Insert, Exists
<1>3. transfer \in [Transfers -> TransferRow]
  BY DEF TypeInv, TransfersOK
<1> HIDE DEF new
<1> QED
  BY <1>1, <1>2, <1>3 DEF NewRow

\* The columns of a row that moves.
LEMMA MoveColumns ==
    ASSUME TypeInv, NEW t \in Transfers, NEW state,
           transfer' = [transfer EXCEPT ![t].state = state]
    PROVE  RowState(t, state)
BY DEF TypeInv, TransfersOK, TransferRow, RowState

\* The columns of a fileset that moves.
LEMMA StateColumns ==
    ASSUME TypeInv, NEW f \in Filesets, NEW state, SetFileset(f, state)
    PROVE  State(f, state)
BY DEF TypeInv, FilesetsOK, FilesetRow, SetFileset, State, Place

\* The columns of a request that is answered.
LEMMA RestColumns ==
    ASSUME TypeInv, NEW h \in Slots, Done(h)
    PROVE  Rests(h)
BY DEF TypeInv, RequestsOK, Done, Resting, Rests, Keeps

\* The columns of a request that goes on.
LEMMA GoColumns ==
    ASSUME TypeInv, NEW h \in Slots, NEW at, Goto(h, at)
    PROVE  Keeps(h, request[h].op, at, request[h].f, request[h].t)
BY DEF TypeInv, RequestsOK, Request, Goto, Keeps

\* Tasks and the rest stay.
LEMMA AsideIfSame ==
    ASSUME UNCHANGED <<daemonVars, elsewhere>>
    PROVE  Aside
BY DEF Aside, daemonVars, elsewhere, schedulerVars, restartVars

\* A release that begins, whoever asked for it.
LEMMA BeginColumns ==
    ASSUME TypeInv, NEW h \in Slots, NEW f \in Filesets, NEW t \in Transfers,
           BeginRelease(h, f, t)
    PROVE  /\ Aside
           /\ NewRow(t, "release", f, "RUNNING")
           /\ State(f, "RELEASING")
           /\ \/ fileset[f].path /\ Keeps(h, "release", "calling", f, t)
              \/ ~fileset[f].path /\ Keeps(h, "release", "refused", f, t)
<1>1. NewRow(t, "release", f, "RUNNING") /\ State(f, "RELEASING") /\ Aside
  BY InsertColumns, StateColumns, AsideIfSame
     DEF BeginRelease, TransferKinds, TransferStates
<1>2. request \in [Slots -> Request] /\ fileset[f].path \in BOOLEAN
  BY DEF TypeInv, RequestsOK, FilesetsOK, FilesetRow
<1>3. ASSUME NEW at, at = IF fileset[f].path THEN "calling" ELSE "refused"
      PROVE  Keeps(h, "release", at, f, t)
  <2> DEFINE r == [Resting EXCEPT !.op = "release", !.f = f, !.t = t, !.at = at]
  <2>1. r.op = "release" /\ r.at = at /\ r.f = f /\ r.t = t
    BY DEF Resting
  <2>2. request' = [request EXCEPT ![h] = r]
    BY <1>3 DEF BeginRelease
  <2> HIDE DEF r
  <2> QED
    BY <1>2, <2>1, <2>2 DEF Keeps
<1> QED
  BY <1>1, <1>2, <1>3

\* What a request does before it waits for a daemon.
LEMMA RequestColumns ==
    ASSUME TypeInv, NEW h \in Handlers, RequestStep(h)
    PROVE  Aside /\ Requested(h)
<1>0. /\ h \in Slots /\ WellFormed(request[h])
      /\ request \in [Slots -> Request] /\ fileset \in [Filesets -> FilesetRow]
  BY DEF Slots, TypeInv, RequestsOK, FilesetsOK
<1>1. ASSUME NEW op, NEW at, NEW f, NEW t, NEW r,
             r.op = op, r.at = at, r.f = f, r.t = t, request' = [request EXCEPT ![h] = r]
      PROVE  Keeps(h, op, at, f, t)
  BY <1>0, <1>1 DEF Keeps
<1>2. Free(h) => Begins(h) /\ NoneDue
  BY DEF Free, Begins, NoneDue
<1>3. ASSUME NEW f \in Filesets, CreateBegin(h, f) PROVE Aside /\ Creates(h, f)
  <2> DEFINE r == [Resting EXCEPT !.op = "create", !.at = "calling", !.f = f]
  <2>1. r.op = "create" /\ r.at = "calling" /\ r.f = f /\ r.t = NoTransfer
    BY DEF Resting
  <2>2. request' = [request EXCEPT ![h] = r]
    BY <1>3 DEF CreateBegin
  <2>3. State(f, "CREATING")
    BY <1>0, <1>3 DEF CreateBegin, State, Place, FilesetRow
  <2> HIDE DEF r
  <2>4. Keeps(h, "create", "calling", f, NoTransfer)
    BY <1>1, <2>1, <2>2
  <2> QED
    BY <1>2, <1>3, <2>3, <2>4, AsideIfSame DEF CreateBegin, Creates
<1>4. ASSUME NEW f \in Filesets, WarmCheck(h, f) PROVE Aside /\ LooksToWarm(h, f)
  <2> DEFINE r == [Resting EXCEPT !.op = "warm", !.at = "checked", !.f = f]
  <2>1. r.op = "warm" /\ r.at = "checked" /\ r.f = f /\ r.t = NoTransfer
    BY DEF Resting
  <2>2. request' = [request EXCEPT ![h] = r]
    BY <1>4 DEF WarmCheck
  <2> HIDE DEF r
  <2>3. Keeps(h, "warm", "checked", f, NoTransfer)
    BY <1>1, <2>1, <2>2
  <2> QED
    BY <1>2, <1>4, <2>3, AsideIfSame DEF WarmCheck, LooksToWarm, elsewhere
<1>5. ASSUME NEW f \in Filesets, FlushCheck(h, f) PROVE Aside /\ LooksToFlush(h, f)
  <2> DEFINE r == [Resting EXCEPT !.op = "flush", !.at = "checked", !.f = f,
                                  !.seen = fileset[f].state]
  <2>1. /\ r.op = "flush" /\ r.at = "checked" /\ r.f = f /\ r.t = NoTransfer
        /\ r.seen = fileset[f].state
    BY DEF Resting
  <2>2. request' = [request EXCEPT ![h] = r]
    BY <1>5 DEF FlushCheck
  <2> HIDE DEF r
  <2>3. Keeps(h, "flush", "checked", f, NoTransfer) /\ request'[h].seen = fileset[f].state
    BY <1>0, <1>1, <2>1, <2>2
  <2> QED
    BY <1>2, <1>5, <2>3, AsideIfSame DEF FlushCheck, LooksToFlush, elsewhere
<1>6. ASSUME NEW f \in Filesets, NEW t \in Transfers, WarmSubmit(h, f, t)
      PROVE  Aside /\ Warms(h, f, t)
  <2> DEFINE seen == IF IsLive(f) THEN fileset[f].state ELSE "CREATING"
             r == [request[h] EXCEPT !.at = "calling", !.f = f, !.t = t, !.seen = seen]
  <2>1. r.op = "warm" /\ r.at = "calling" /\ r.f = f /\ r.t = t /\ r.seen = seen
    BY <1>0, <1>6 DEF Request, WarmSubmit, At
  <2>2. request' = [request EXCEPT ![h] = r]
    BY <1>6 DEF WarmSubmit
  <2> HIDE DEF r
  <2>3. Keeps(h, "warm", "calling", f, t) /\ (~IsLive(f) => request'[h].seen = "CREATING")
    BY <1>0, <1>1, <2>1, <2>2
  <2>4. /\ IsLive(f) => State(f, fileset[f].state)
        /\ ~IsLive(f) => State(f, "CREATING")
    BY <1>0, <1>6 DEF WarmSubmit, State, Place, FilesetRow
  <2>5. NewRow(t, "warm", f, "SUBMITTED")
    BY <1>6, InsertColumns DEF WarmSubmit, TransferKinds, TransferStates
  <2> QED
    BY <1>6, <2>3, <2>4, <2>5, AsideIfSame DEF WarmSubmit, Warms
<1>7. ASSUME NEW f \in Filesets, NEW t \in Transfers, ReleaseBegin(h, f, t)
      PROVE  Aside /\ Releases(h, f, t)
  <2>1. fileset[f].state \in {"READY", "FAILED"}
    BY <1>0, <1>7 DEF ReleaseBegin, FilesetMoves, FilesetRow, FilesetStates, IsLive
  <2> QED
    BY <1>0, <1>2, <1>7, <2>1, BeginColumns DEF ReleaseBegin, Releases
<1>8. ASSUME NEW t \in Transfers, NEW after \in BOOLEAN, FlushSubmit(h, t, after)
      PROVE  Aside /\ request[h].f \in Filesets /\ Flushes(h, request[h].f, t)
  <2>1. request[h].f \in Filesets
    BY <1>0, <1>8 DEF FlushSubmit, At, WellFormed
  <2> QED
    BY <1>0, <1>8, <2>1, InsertColumns, StateColumns, RestColumns, AsideIfSame
       DEF FlushSubmit, Flushes, TransferKinds, TransferStates
<1>9. ASSUME NEW t \in Transfers, CancelAtOnce(h, t) PROVE Aside /\ Settles(h, t)
  <2>1. transfer[t].fs \in Filesets /\ Exists(t)
    BY <1>9 DEF CancelAtOnce, Exists, TypeInv, TransfersOK
  <2>2. up
    BY <1>2, <1>9 DEF CancelAtOnce, Begins
  <2> QED
    BY <1>9, <2>1, <2>2, MoveColumns, StateColumns, AsideIfSame
       DEF CancelAtOnce, CanCancel, Cancelled, SetFileset, HoldsAllocation, Settles
<1>10. ASSUME NEW t \in Transfers, CancelBegin(h, t) PROVE Aside /\ AsksToStop(h, t)
  <2> DEFINE r == [Resting EXCEPT !.op = "cancel", !.at = "calling", !.t = t,
                                  !.k = transfer[t].task]
  <2>1. r.op = "cancel" /\ r.at = "calling" /\ r.f = NoFileset /\ r.t = t
    BY DEF Resting
  <2>2. request' = [request EXCEPT ![h] = r]
    BY <1>10 DEF CancelBegin
  <2> HIDE DEF r
  <2>3. Keeps(h, "cancel", "calling", NoFileset, t)
    BY <1>1, <2>1, <2>2
  <2> QED
    BY <1>2, <1>10, <2>3, AsideIfSame DEF CancelBegin, CanCancel, AsksToStop, elsewhere
<1>11. ASSUME WarmRefused(h) \/ FlushRefused(h) PROVE Aside /\ Refused(h)
  BY <1>0, <1>11, RestColumns, AsideIfSame DEF WarmRefused, FlushRefused, Refused, elsewhere
<1> QED
  BY <1>3, <1>4, <1>5, <1>6, <1>7, <1>8, <1>9, <1>10, <1>11 DEF RequestStep, Requested

\* What a directory that was made or lost does to its fileset.
LEMMA MadeColumns ==
    ASSUME TypeInv, NEW f \in Filesets, NEW state, NEW dir
    PROVE  /\ fileset' = [fileset EXCEPT ![f].state = state, ![f].dir = dir] =>
                Place(f, state, fileset[f].path, dir)
           /\ fileset' = [fileset EXCEPT ![f].state = state, ![f].path = TRUE,
                                         ![f].dir = dir] =>
                Place(f, state, TRUE, dir)
           /\ fileset' = [fileset EXCEPT ![f].dir = dir] =>
                Place(f, fileset[f].state, fileset[f].path, dir)
BY DEF TypeInv, FilesetsOK, FilesetRow, Place

\* What a handler does after its daemon answered.
LEMMA AnswerColumns ==
    ASSUME TypeInv, NEW h \in Slots, AnswerStep(h)
    PROVE  Aside /\ Requested(h)
<1>0. /\ WellFormed(request[h])
      /\ request[h].t # NoTransfer => Exists(request[h].t)
      /\ request \in [Slots -> Request] /\ fileset \in [Filesets -> FilesetRow]
  BY DEF TypeInv, RequestsOK, FilesetsOK, RequestsNamed
<1> DEFINE f == request[h].f
           t == request[h].t
<1>1. ASSUME NEW new \in Transfers, ReleaseAfterFlush(h, new)
      PROVE  Aside /\ f \in Filesets /\ Releases(h, f, new)
  <2>1. f \in Filesets /\ BeginRelease(h, f, new)
    BY <1>0, <1>1 DEF ReleaseAfterFlush, At, WellFormed
  <2> QED
    BY <1>1, <2>1, BeginColumns DEF ReleaseAfterFlush, Releases
<1>2. ASSUME CreateAnswered(h) PROVE Aside /\ f \in Filesets /\ Created(h, f)
  <2>1. f \in Filesets
    BY <1>0, <1>2 DEF CreateAnswered, At, WellFormed
  <2> QED
    BY <1>2, <2>1, MadeColumns, RestColumns, AsideIfSame, Zenon DEF CreateAnswered, Created
<1>3. ASSUME CreateFails(h) PROVE Aside /\ f \in Filesets /\ NotCreated(h, f)
  <2>1. f \in Filesets
    BY <1>0, <1>3 DEF CreateFails, At, WellFormed
  <2>2. PICK state \in {"NONE", fileset[f].state}, dir \in BOOLEAN :
          /\ fileset[f].dir => dir
          /\ fileset' = [fileset EXCEPT ![f].state = state, ![f].dir = dir]
    BY <1>3, FailedColumns DEF TypeInv
  <2>3. Place(f, state, fileset[f].path, dir)
    BY <2>1, <2>2, MadeColumns, Zenon
  <2>4. \E st \in {"NONE", fileset[f].state}, d \in BOOLEAN :
          (fileset[f].dir => d) /\ Place(f, st, fileset[f].path, d)
    BY <2>2, <2>3, Zenon
  <2> QED
    BY <1>3, <2>1, <2>4, RestColumns, AsideIfSame, Zenon DEF CreateFails, NotCreated
<1>4. ASSUME WarmPrepared(h) PROVE Aside /\ f \in Filesets /\ Prepared(h, f)
  <2>1. f \in Filesets
    BY <1>0, <1>4 DEF WarmPrepared, At, WellFormed
  <2>2. \/ fileset' = [fileset EXCEPT ![f].state = "POPULATING", ![f].path = TRUE,
                                      ![f].dir = TRUE]
        \/ /\ request[h].seen # "CREATING"
           /\ fileset' = [fileset EXCEPT ![f].dir = TRUE]
    BY <1>4 DEF WarmPrepared, FilesetMoves
  <2>3. \/ Place(f, "POPULATING", TRUE, TRUE)
        \/ request[h].seen # "CREATING" /\ Place(f, fileset[f].state, fileset[f].path, TRUE)
    BY <2>1, <2>2, MadeColumns, Zenon
  <2> QED
    BY <1>4, <2>1, <2>3, RestColumns, AsideIfSame DEF WarmPrepared, Prepared
<1>5. ASSUME WarmUnprepared(h) PROVE Aside /\ f \in Filesets /\ NotPrepared(h, f)
  <2>1. f \in Filesets
    BY <1>0, <1>5 DEF WarmUnprepared, At, WellFormed
  <2>2. PICK made \in BOOLEAN :
          fileset' = [fileset EXCEPT ![f].dir = fileset[f].dir \/ made]
    BY <1>0, <1>5, <2>1 DEF WarmUnprepared, FilesetRow
  <2>3. /\ Place(f, fileset[f].state, fileset[f].path, fileset[f].dir \/ made)
        /\ (fileset[f].dir \/ made) \in BOOLEAN
    BY <2>1, <2>2, MadeColumns, Zenon
  <2> QED
    BY <1>5, <2>1, <2>3, RestColumns, AsideIfSame DEF WarmUnprepared, NotPrepared
<1>6. ASSUME ReleaseDelete(h) PROVE Aside /\ f \in Filesets /\ Deletes(h, f)
  <2>1. f \in Filesets
    BY <1>0, <1>6 DEF ReleaseDelete, At, WellFormed
  <2>2. Keeps(h, "release", "answered", f, t)
    BY <1>6, GoColumns DEF ReleaseDelete, At
  <2> QED
    BY <1>6, <2>1, <2>2, MadeColumns, AsideIfSame, Zenon DEF ReleaseDelete, Deletes
<1>7. ASSUME ReleaseCommit(h)
      PROVE  Aside /\ f \in Filesets /\ t \in Transfers /\ Frees(h, f, t)
  <2>1. f \in Filesets /\ t \in Transfers
    BY <1>0, <1>7 DEF ReleaseCommit, At, WellFormed
  <2> QED
    BY <1>7, <2>1, StateColumns, MoveColumns, RestColumns, AsideIfSame
       DEF ReleaseCommit, Frees
<1>8. ASSUME ReleaseFails(h)
      PROVE  Aside /\ f \in Filesets /\ t \in Transfers /\ GivesUp(h, f, t)
  <2>1. f \in Filesets /\ t \in Transfers
    BY <1>0, <1>8 DEF ReleaseFails, At, WellFormed
  <2> QED
    BY <1>8, <2>1, StateColumns, MoveColumns, RestColumns, AsideIfSame
       DEF ReleaseFails, GivesUp
<1>9. ASSUME CancelAbort(h) PROVE Aside /\ Stopped(h)
  <2>1. Keeps(h, "cancel", "answered", f, t)
    BY <1>9, GoColumns DEF CancelAbort, At
  <2>2. \A k \in TaskIds : task'[k].of = task[k].of /\ task'[k].state = task[k].state
    BY <1>9 DEF CancelAbort, TaskAbort, TypeInv, DaemonTypeOK, Task
  <2> QED
    BY <1>9, <2>1, <2>2
       DEF CancelAbort, Stopped, Aside, elsewhere, schedulerVars, restartVars
<1>10. ASSUME CancelUnreachable(h) PROVE Aside /\ Stopped(h)
  <2>1. Keeps(h, "cancel", "answered", f, t)
    BY <1>10, GoColumns, SMTT(30) DEF CancelUnreachable, At
  <2> QED
    BY <1>10, <2>1, AsideIfSame DEF CancelUnreachable, Stopped, elsewhere
<1>11. ASSUME CancelCommit(h) PROVE Aside /\ t \in Transfers /\ Settles(h, t)
  <2>1. t \in Transfers /\ Exists(t)
    BY <1>0, <1>11, NoTransferAssumption DEF CancelCommit, At, WellFormed
  <2>2. transfer[t].fs \in Filesets
    BY <2>1 DEF TypeInv, TransfersOK
  <2> QED
    BY <1>11, <2>1, <2>2, MoveColumns, StateColumns, RestColumns, AsideIfSame
       DEF CancelCommit, Cancelled, SetFileset, HoldsAllocation, Settles
<1> HIDE DEF f, t
<1> QED
  BY <1>1, <1>2, <1>3, <1>4, <1>5, <1>6, <1>7, <1>8, <1>9, <1>10, <1>11
     DEF AnswerStep, Requested

-----------------------------------------------------------------------------
(* What a report does, column by column.                                   *)

\* A report is applied to the row, and the others stay.
RowTold(t, state, seq) ==
    /\ transfer'[t].state = state /\ transfer'[t].seq = seq
    /\ transfer'[t].kind = transfer[t].kind /\ transfer'[t].fs = transfer[t].fs
    /\ \A u \in Transfers \ {t} : transfer'[u] = transfer[u]

\* The transfer is being worked on.
ToldRunning(t, seq, kind) ==
    /\ kind \in {"started", "progress"}
    /\ transfer[t].state \in InFlight
    /\ RowTold(t, "RUNNING", seq)
    /\ UNCHANGED fileset

\* The transfer failed and is offered again.
ToldAgain(t, seq, kind) ==
    /\ kind = "failed"
    /\ transfer[t].state \in {"SUBMITTED", "ASSIGNED", "RUNNING", "FAILED"}
    /\ RowTold(t, "SUBMITTED", seq)
    /\ UNCHANGED fileset

\* The transfer has come to its end, and the fileset with it.
ToldEnd(t, seq, kind) ==
    /\ \/ /\ kind = "finished"
          /\ transfer[t].state \in {"RUNNING", "SUCCEEDED"}
          /\ RowTold(t, "SUCCEEDED", seq)
          /\ State(transfer[t].fs, "READY")
       \/ /\ kind = "failed"
          /\ transfer[t].state \in {"SUBMITTED", "ASSIGNED", "RUNNING", "FAILED"}
          /\ RowTold(t, "FAILED", seq)
          /\ State(transfer[t].fs, "FAILED")
    /\ fileset[transfer[t].fs].state \notin {"FAILED", "RELEASED"}

\* All that a report which is applied can do.
Tells(t, seq, kind) ==
    /\ t \in Transfers /\ Exists(t) /\ transfer[t].fs \in Filesets
    /\ ToldRunning(t, seq, kind) \/ ToldAgain(t, seq, kind) \/ ToldEnd(t, seq, kind)

\* What a report does to a row and its fileset.
LEMMA ToldColumns ==
    ASSUME TypeInv, NEW t \in Transfers, Exists(t), NEW seq \in Nat,
           NEW kind \in EventKinds, NEW failure,
           Allowed(t, kind, failure), ApplyEvent(t, seq, kind, failure)
    PROVE  Tells(t, seq, kind)
<1>0. /\ transfer \in [Transfers -> TransferRow] /\ fileset \in [Filesets -> FilesetRow]
      /\ transfer[t].fs \in Filesets /\ transfer[t].state \in TransferStates
  BY DEF TypeInv, TransfersOK, FilesetsOK, Exists, TransferRow
<1> DEFINE f == transfer[t].fs
           target == FilesetTarget(t, kind, failure)
<1>1. State(f, target)
  BY <1>0, StateColumns DEF ApplyEvent
<1>2. target = fileset[f].state => UNCHANGED fileset
  BY <1>0 DEF ApplyEvent, SetFileset, FilesetRow
<1>3. CASE Retrying(t, kind, failure)
  <2> DEFINE new == [transfer[t] EXCEPT !.state = "SUBMITTED",
                       !.attempt = transfer[t].attempt + 1, !.task = 0, !.seq = seq]
  <2>1. transfer' = [transfer EXCEPT ![t] = new]
    BY <1>3 DEF ApplyEvent
  <2>2. /\ new.state = "SUBMITTED" /\ new.seq = seq
        /\ new.kind = transfer[t].kind /\ new.fs = transfer[t].fs
    BY <1>0 DEF TransferRow
  <2> HIDE DEF new
  <2>3. RowTold(t, "SUBMITTED", seq)
    BY <1>0, <2>1, <2>2 DEF RowTold
  <2>4. kind = "failed" /\ target = fileset[f].state
    BY <1>3 DEF Retrying, FilesetTarget
  <2>5. transfer[t].state \in {"SUBMITTED", "ASSIGNED", "RUNNING", "FAILED"}
    BY <1>0, <2>4 DEF Allowed, TargetState, TransferMoves, TransferStates
  <2> QED
    BY <1>0, <1>2, <2>3, <2>4, <2>5 DEF Tells, ToldAgain
<1>4. CASE ~Retrying(t, kind, failure)
  <2> DEFINE new == [transfer[t] EXCEPT !.state = TargetState[kind], !.seq = seq]
  <2>1. transfer' = [transfer EXCEPT ![t] = new]
    BY <1>4 DEF ApplyEvent
  <2>2. /\ new.state = TargetState[kind] /\ new.seq = seq
        /\ new.kind = transfer[t].kind /\ new.fs = transfer[t].fs
    BY <1>0 DEF TransferRow
  <2> HIDE DEF new
  <2>3. RowTold(t, TargetState[kind], seq)
    BY <1>0, <2>1, <2>2 DEF RowTold
  <2>4. transfer[t].state = TargetState[kind] \/ TargetState[kind] \in TransferMoves[transfer[t].state]
    BY DEF Allowed
  <2>5. CASE kind \in {"started", "progress"}
    <3>1. target = fileset[f].state /\ TargetState[kind] = "RUNNING"
      BY <2>5 DEF FilesetTarget, TargetState
    <3>2. transfer[t].state \in InFlight
      BY <2>5, RunningMeansAssigned
    <3> QED
      BY <1>0, <1>2, <2>3, <2>5, <3>1, <3>2 DEF Tells, ToldRunning
  <2>6. target \in FilesetMoves[fileset[f].state] \/ kind \in {"started", "progress"}
    BY <1>4 DEF Allowed
  <2>7. CASE kind = "finished"
    <3>1. target = "READY" /\ TargetState[kind] = "SUCCEEDED"
      BY <2>7 DEF FilesetTarget, TargetState
    <3>2. transfer[t].state \in {"RUNNING", "SUCCEEDED"}
      BY <1>0, <2>4, <3>1 DEF TransferMoves, TransferStates
    <3>3. fileset[f].state \notin {"FAILED", "RELEASED"}
      BY <2>6, <2>7, <3>1 DEF FilesetMoves
    <3> QED
      BY <1>0, <1>1, <2>3, <2>7, <3>1, <3>2, <3>3 DEF Tells, ToldEnd
  <2>8. CASE kind = "failed"
    <3>1. target = "FAILED" /\ TargetState[kind] = "FAILED"
      BY <1>4, <2>8 DEF FilesetTarget, TargetState
    <3>2. transfer[t].state \in {"SUBMITTED", "ASSIGNED", "RUNNING", "FAILED"}
      BY <1>0, <2>4, <3>1 DEF TransferMoves, TransferStates
    <3>3. fileset[f].state \notin {"FAILED", "RELEASED"}
      BY <2>6, <2>8, <3>1 DEF FilesetMoves
    <3> QED
      BY <1>0, <1>1, <2>3, <2>8, <3>1, <3>2, <3>3 DEF Tells, ToldEnd
  <2> QED
    BY <2>5, <2>7, <2>8 DEF EventKinds
<1> QED
  BY <1>3, <1>4

\* A report is taken from those under way.
Taken(e) ==
    /\ Deliverable(e) /\ e.t \in Transfers /\ Exists(e.t)
    /\ events' = events \ {e}
    /\ UNCHANGED <<task, reported, todo, sent, up, recovery>>

\* The handler of a report is to release next.
NextRelease(h, e) ==
    /\ h \in Slots /\ request[h] = Resting
    /\ e.kind = "finished" /\ transfer[e.t].kind = "flush"
    /\ Keeps(h, "release", "due", transfer[e.t].fs, NoTransfer)

\* What taking a report does.
LEMMA EventColumns ==
    ASSUME TypeInv, EventStep
    PROVE  \E e \in events :
             /\ Taken(e)
             /\ \/ UNCHANGED <<transfer, fileset, request>>
                \/ /\ Tells(e.t, e.seq, e.kind) /\ transfer[e.t].seq < e.seq
                   /\ UNCHANGED request \/ \E h \in Slots : NextRelease(h, e)
<1>1. PICK e \in events :
        \/ EventApplied(e) \/ EventIgnored(e) \/ EventRaises(e)
        \/ \E h \in EventHandlers : EventAppliedRelease(h, e)
  BY DEF EventStep
<1>2. e.t \in Transfers /\ Exists(e.t) /\ e.seq \in Nat /\ e.kind \in EventKinds
  BY DEF TypeInv, DaemonTypeOK, Event, EventsNamed
<1>3. Taken(e)
  BY <1>1, <1>2 DEF EventApplied, EventIgnored, EventRaises, EventAppliedRelease, Taken,
       controllerVars, elsewhere, schedulerVars, restartVars
<1>4. ASSUME Applies(e.t, e.seq, e.kind, e.failure), ApplyEvent(e.t, e.seq, e.kind, e.failure)
      PROVE  Tells(e.t, e.seq, e.kind) /\ transfer[e.t].seq < e.seq
  <2>1. transfer[e.t].seq \in Nat
    BY <1>2 DEF TypeInv, TransfersOK, TransferRow
  <2> QED
    BY <1>2, <1>4, <2>1, ToldColumns DEF Applies, Ignored
<1>5. ASSUME EventApplied(e) PROVE Tells(e.t, e.seq, e.kind) /\ transfer[e.t].seq < e.seq
                                   /\ UNCHANGED request
  BY <1>4, <1>5 DEF EventApplied
<1>6. ASSUME NEW h \in EventHandlers, EventAppliedRelease(h, e)
      PROVE  Tells(e.t, e.seq, e.kind) /\ transfer[e.t].seq < e.seq /\ NextRelease(h, e)
  <2> DEFINE r == [Resting EXCEPT !.op = "release", !.at = "due", !.f = transfer[e.t].fs]
  <2>1. /\ r.op = "release" /\ r.at = "due" /\ r.f = transfer[e.t].fs
        /\ r.t = NoTransfer
    BY DEF Resting
  <2>2. request' = [request EXCEPT ![h] = r] /\ h \in Slots
    BY <1>6 DEF EventAppliedRelease, Slots
  <2> HIDE DEF r
  <2>3. Keeps(h, "release", "due", transfer[e.t].fs, NoTransfer)
    BY <2>1, <2>2 DEF TypeInv, RequestsOK, Keeps
  <2> QED
    BY <1>4, <1>6, <2>2, <2>3 DEF EventAppliedRelease, NextRelease, ReleaseDue, Free
<1>7. ASSUME EventIgnored(e) \/ EventRaises(e)
      PROVE  UNCHANGED <<transfer, fileset, request>>
  BY <1>7 DEF EventIgnored, EventRaises, controllerVars
<1>8. \A h \in EventHandlers : h \in Slots
  BY DEF Slots
<1> QED
  BY <1>1, <1>3, <1>5, <1>6, <1>7, <1>8

-----------------------------------------------------------------------------
(* What passes, daemons and restarts do.                                   *)

\* The daemon has lost its tasks, and numbers from the start.
DaemonLost ==
    /\ "daemon_restart" \in Env
    /\ \A k \in TaskIds : Idle(k)'
    /\ UNCHANGED <<events, transfer, fileset, request, todo, sent, up, recovery>>

\* The controller has lost what it had not committed.
ControllerLost ==
    /\ "controller_crash" \in Env
    /\ ~up' /\ recovery' = {t \in Transfers : transfer[t].state \in InFlight}
    /\ \A h \in Slots : request'[h] = Resting
    /\ todo' = {} /\ events' = {} /\ \A t \in Transfers : sent'[t] = 0
    /\ UNCHANGED <<task, reported, transfer, fileset>>

\* Reconciliation settles a row, or passes it by.
Reconciled ==
    /\ ~up /\ recovery' \subseteq recovery /\ (up' => recovery' = {})
    /\ UNCHANGED <<daemonVars, request, todo, sent>>
    /\ \/ UNCHANGED <<transfer, fileset>>
       \/ \E t \in recovery : /\ Exists(t) /\ transfer[t].task = 0
                              /\ transfer[t].state \in {"ASSIGNED", "FAILED"}
                              /\ RowState(t, "SUBMITTED") /\ UNCHANGED fileset
       \/ \E t \in recovery, seq \in Nat, kind \in {"finished", "failed"} :
            transfer[t].task # 0 /\ Tells(t, seq, kind)

\* What a restart and what follows it do.
LEMMA RestartColumns ==
    ASSUME TypeInv, RestartStep
    PROVE  DaemonLost \/ ControllerLost \/ Reconciled
<1>0. /\ \A t \in Transfers : transfer[t] \in TransferRow
      /\ recovery \subseteq Transfers /\ up \in BOOLEAN
  BY DEF TypeInv, TransfersOK, RestartOK
<1>1. ASSUME RestartDaemon PROVE DaemonLost
  BY <1>1 DEF RestartDaemon, DaemonRestart, NoTask, Idle, DaemonLost, schedulerVars
<1>2. ASSUME ControllerCrash PROVE ControllerLost
  BY <1>2 DEF ControllerCrash, ControllerLost
<1>3. ASSUME NEW t \in Transfers, ReconcileRequeue(t) PROVE Reconciled
  <2>1. Exists(t) /\ transfer[t].state \in TransferStates
    BY <1>0, <1>3 DEF ReconcileRequeue, Reconciling, TypeInv, RecoveryNamed, Exists, TransferRow
  <2>2. CASE "SUBMITTED" \in TransferMoves[transfer[t].state]
    <3>1. transfer[t].state \in {"ASSIGNED", "FAILED"}
      BY <2>1, <2>2 DEF TransferMoves, TransferStates
    <3>2. RowState(t, "SUBMITTED")
      BY <1>3, <2>2, MoveColumns DEF ReconcileRequeue
    <3> QED
      BY <1>3, <2>1, <3>1, <3>2 DEF ReconcileRequeue, Reconciling, Reconciled, schedulerVars
  <2>3. CASE "SUBMITTED" \notin TransferMoves[transfer[t].state]
    <3>1. UNCHANGED transfer
      BY <1>0, <1>3, <2>3 DEF ReconcileRequeue, TypeInv, TransfersOK, TransferRow
    <3> QED
      BY <1>3, <3>1 DEF ReconcileRequeue, Reconciling, Reconciled, schedulerVars
  <2> QED
    BY <2>2, <2>3
<1>4. ASSUME NEW t \in Transfers, NEW kind \in {"finished", "failed"}, NEW failure,
             Reconciling(t), transfer[t].task # 0, Adopt(t, kind, failure)
      PROVE  Reconciled
  <2>1. Exists(t) /\ transfer[t].seq + 1 \in Nat
    BY <1>0, <1>4 DEF Reconciling, TypeInv, RecoveryNamed, TransferRow
  <2>2. Tells(t, transfer[t].seq + 1, kind)
    BY <1>4, <2>1, ToldColumns DEF Adopt, Applies, EventKinds
  <2> QED
    BY <1>4, <2>1, <2>2 DEF Adopt, Reconciling, Reconciled, schedulerVars
<1>5. ASSUME NEW t \in Transfers, ReconcileAdopt(t) PROVE Reconciled
  <2>1. FoundKind(t) \in {"finished", "failed"}
    BY <1>5 DEF ReconcileAdopt, FoundKind
  <2>2. transfer[t].task # 0
    BY <1>5, TaskIdsAssumption DEF ReconcileAdopt, Known
  <2> QED
    BY <1>4, <1>5, <2>1, <2>2 DEF ReconcileAdopt
<1>6. ASSUME NEW t \in Transfers, ReconcileGiveUp(t) PROVE Reconciled
  BY <1>4, <1>6 DEF ReconcileGiveUp
<1>7. ASSUME NEW t \in Transfers,
             ReconcileWait(t) \/ ReconcileRaises(t)
      PROVE  Reconciled
  BY <1>7 DEF ReconcileWait, ReconcileRaises, Reconciling, Reconciled, schedulerVars
<1>8. ASSUME ReconcileDone PROVE Reconciled
  BY <1>8 DEF ReconcileDone, Reconciled, schedulerVars
<1> QED
  BY <1>1, <1>2, <1>3, <1>5, <1>6, <1>7, <1>8 DEF RestartStep

\* A pass reads what is waiting.
Reads(chosen) ==
    /\ up /\ todo = {} /\ \A t \in Transfers : sent[t] = 0
    /\ todo' = chosen
    /\ \A t \in chosen : transfer[t].state = "SUBMITTED"
    /\ UNCHANGED <<task, transfer, sent>>

\* A daemon takes a task for a transfer of the pass.
HandsOver(t, k) ==
    /\ t \in todo /\ todo' = todo \ {t}
    /\ Idle(k) /\ task'[k].of = t /\ task'[k].state = "SUBMITTED"
    /\ \A j \in TaskIds \ {k} : task'[j] = task[j]
    /\ \A u \in Transfers \ {t} : sent'[u] = sent[u]
    /\ \/ sent'[t] = k
       \/ "lost_reply" \in Env /\ sent'[t] = sent[t]
    /\ UNCHANGED transfer

\* The pass passes a transfer by.
PassesBy(t) == t \in todo /\ todo' = todo \ {t} /\ UNCHANGED <<task, transfer, sent>>

\* The pass writes which tasks it was given.
Writes ==
    /\ todo = {} /\ todo' = {}
    /\ \A t \in Transfers :
         /\ sent'[t] = 0
         /\ transfer'[t].kind = transfer[t].kind /\ transfer'[t].fs = transfer[t].fs
         /\ transfer'[t].seq = transfer[t].seq
         /\ sent[t] = 0 => transfer'[t] = transfer[t]
         /\ sent[t] # 0 => transfer'[t].state = "ASSIGNED" /\ transfer'[t].task = sent[t]
    /\ UNCHANGED task

\* What a pass does.
LEMMA PassColumns ==
    ASSUME TypeInv, PassStep
    PROVE  /\ UNCHANGED <<reported, events, fileset, request, up, recovery>>
           /\ \/ \E chosen \in SUBSET Transfers : Reads(chosen)
              \/ \E t \in Transfers, k \in TaskIds : HandsOver(t, k)
              \/ \E t \in Transfers : PassesBy(t)
              \/ Writes
<1>0. /\ task \in [TaskIds -> Task] /\ sent \in [Transfers -> TaskRef]
      /\ transfer \in [Transfers -> TransferRow]
  BY DEF TypeInv, DaemonTypeOK, PassOK, TransfersOK
<1>1. ASSUME NEW chosen \in SUBSET Transfers, PassBegin(chosen)
      PROVE  Reads(chosen) /\ UNCHANGED <<reported, events, fileset, request, up, recovery>>
  BY <1>1 DEF PassBegin, LockFree, Passing, Waiting, Reads, daemonVars, restartVars
<1>2. ASSUME NEW t \in Transfers, NEW k \in TaskIds, PassStart(t, k) \/ PassReplyLost(t, k)
      PROVE  /\ HandsOver(t, k)
             /\ UNCHANGED <<reported, events, fileset, request, up, recovery>>
  <2> DEFINE new == [NoTask EXCEPT !.of = t, !.state = "SUBMITTED"]
  <2>1. new.of = t /\ new.state = "SUBMITTED"
    BY DEF NoTask
  <2>2. task' = [task EXCEPT ![k] = new] /\ Idle(k)
    BY <1>2 DEF PassStart, PassReplyLost, TaskSubmit
  <2> HIDE DEF new
  <2>3. /\ task'[k].of = t /\ task'[k].state = "SUBMITTED"
        /\ \A j \in TaskIds \ {k} : task'[j] = task[j]
    BY <1>0, <2>1, <2>2
  <2>4. /\ t \in todo /\ todo' = todo \ {t}
        /\ UNCHANGED <<transfer, reported, events, fileset, request, up, recovery>>
        /\ \/ sent' = [sent EXCEPT ![t] = k]
           \/ "lost_reply" \in Env /\ sent' = sent
    BY <1>2 DEF PassStart, PassReplyLost, restartVars
  <2> QED
    BY <1>0, <2>2, <2>3, <2>4 DEF HandsOver
<1>3. ASSUME NEW t \in Transfers, PassRefused(t)
      PROVE  PassesBy(t) /\ UNCHANGED <<reported, events, fileset, request, up, recovery>>
  BY <1>3 DEF PassRefused, PassesBy, daemonVars, restartVars
<1>4. ASSUME PassCommit
      PROVE  Writes /\ UNCHANGED <<reported, events, fileset, request, up, recovery>>
  <2>1. ASSUME NEW t \in Transfers
        PROVE  /\ sent'[t] = 0
               /\ transfer'[t].kind = transfer[t].kind /\ transfer'[t].fs = transfer[t].fs
               /\ transfer'[t].seq = transfer[t].seq
               /\ sent[t] = 0 => transfer'[t] = transfer[t]
               /\ sent[t] # 0 => transfer'[t].state = "ASSIGNED" /\ transfer'[t].task = sent[t]
    <3>1. CASE sent[t] = 0
      BY <1>4, <3>1, Zenon DEF PassCommit
    <3>2. CASE sent[t] # 0
      <4> DEFINE new == [transfer[t] EXCEPT !.state = "ASSIGNED", !.task = sent[t]]
      <4>1. transfer'[t] = new /\ sent'[t] = 0
        BY <1>4, <3>2, Zenon DEF PassCommit
      <4>2. /\ new.state = "ASSIGNED" /\ new.task = sent[t]
            /\ new.kind = transfer[t].kind /\ new.fs = transfer[t].fs
            /\ new.seq = transfer[t].seq
        BY <1>0 DEF TransferRow
      <4> HIDE DEF new
      <4> QED
        BY <3>2, <4>1, <4>2
    <3> QED
      BY <3>1, <3>2
  <2> QED
    BY <1>4, <2>1, Zenon DEF PassCommit, Writes, daemonVars, restartVars
<1> QED
  BY <1>1, <1>2, <1>3, <1>4 DEF PassStep

\* The task goes from one state to the next, and says so.
Says(k, kind) ==
    /\ kind = "started"  => task[k].state = "SUBMITTED" /\ task'[k].state = "RUNNING"
    /\ kind = "progress" => task[k].state = "RUNNING" /\ task'[k].state = "RUNNING"
    /\ kind = "finished" => task[k].state = "RUNNING" /\ task'[k].state = "SUCCEEDED"
    /\ kind = "failed"   => task[k].state = "RUNNING" /\ task'[k].state = "FAILED"

\* The report takes the next number of its transfer, and may be lost.
Reports(t, kind) ==
    /\ reported'[t] = reported[t] + 1
    /\ \A u \in Transfers \ {t} : reported'[u] = reported[u]
    /\ \E new : /\ new.t = t /\ new.seq = reported[t] + 1 /\ new.kind = kind
               /\ \/ events' = events \cup {new}
                  \/ events' = events /\ ("lost_event" \in Env \/ ~up)

\* What a daemon does.
LEMMA DaemonColumns ==
    ASSUME TypeInv, NEW k \in TaskIds, DaemonStep(k)
    PROVE  /\ UNCHANGED controllerVars
           /\ Live(k) /\ task[k].of \in Transfers /\ task'[k].of = task[k].of
           /\ \A j \in TaskIds \ {k} : task'[j] = task[j]
           /\ \E kind \in EventKinds : Says(k, kind) /\ Reports(task[k].of, kind)
<1>0. /\ task \in [TaskIds -> Task] /\ reported \in [Transfers -> Nat] /\ up \in BOOLEAN
  BY DEF TypeInv, DaemonTypeOK, RestartOK
<1>1. PICK heard \in Heard :
         \/ TaskRun(k, heard)
         \/ TaskProgress(k, heard)
         \/ TaskSucceed(k, heard)
         \/ \E failure \in Failures \cup {"cancelled"} : TaskFail(k, failure, heard)
  BY DEF DaemonStep
<1>2. heard \in BOOLEAN /\ (~heard => "lost_event" \in Env \/ ~up)
  BY <1>0 DEF Heard
<1>3. Live(k) /\ task[k].of \in Transfers
  BY <1>1 DEF TaskRun, TaskProgress, TaskSucceed, TaskFail, Live, Idle, TypeInv, TasksNamed
<1>4. \E kind \in EventKinds : \E failure :
         Says(k, kind) /\ Report(task[k].of, kind, failure, heard)
  <2>1. CASE TaskRun(k, heard)
    BY <1>0, <2>1 DEF TaskRun, Says, EventKinds
  <2>2. CASE TaskProgress(k, heard)
    BY <1>0, <2>2 DEF TaskProgress, Says, EventKinds
  <2>3. CASE TaskSucceed(k, heard)
    BY <1>0, <2>3 DEF TaskSucceed, Says, EventKinds
  <2>4. ASSUME NEW failure, TaskFail(k, failure, heard)
        PROVE  Says(k, "failed") /\ Report(task[k].of, "failed", failure, heard)
    BY <1>0, <2>4 DEF TaskFail, Says, Task
  <2> QED
    BY <1>1, <2>1, <2>2, <2>3, <2>4 DEF EventKinds
<1>5. ASSUME NEW kind, NEW failure, Report(task[k].of, kind, failure, heard)
      PROVE  Reports(task[k].of, kind)
  <2> DEFINE t == task[k].of
             new == [t |-> t, seq |-> reported[t] + 1, kind |-> kind, failure |-> failure]
  <2>1. new.t = t /\ new.seq = reported[t] + 1 /\ new.kind = kind
    OBVIOUS
  <2>2. events' = events \cup {new} \/ (events' = events /\ ~heard)
    <3>1. CASE heard
      BY <1>5, <3>1, Zenon DEF Report
    <3>2. CASE ~heard
      BY <1>5, <3>2, Zenon DEF Report
    <3> QED
      BY <3>1, <3>2
  <2> HIDE DEF new
  <2>3. /\ reported'[t] = reported[t] + 1
        /\ \A u \in Transfers \ {t} : reported'[u] = reported[u]
    BY <1>0, <1>3, <1>5 DEF Report
  <2> QED
    BY <1>2, <2>1, <2>2, <2>3 DEF Reports
<1>6. /\ task'[k].of = task[k].of
      /\ \A j \in TaskIds \ {k} : task'[j] = task[j]
  BY <1>0, <1>1 DEF TaskRun, TaskProgress, TaskSucceed, TaskFail, Task
<1> QED
  BY <1>3, <1>4, <1>5, <1>6 DEF DaemonStep

-----------------------------------------------------------------------------
(* Rows stay what they are, and released filesets are left alone.          *)

\* A row stays a row of its kind and of its fileset.
RowsPlaced ==
    \A u \in Transfers :
      Exists(u) => /\ Exists(u)'
                   /\ transfer'[u].kind = transfer[u].kind
                   /\ transfer'[u].fs = transfer[u].fs

\* No step makes a row one of another kind or another fileset.
LEMMA RowsStayPlaced ==
    ASSUME TypeInv, Next
    PROVE  RowsPlaced
<1>1. CASE UNCHANGED transfer
  BY <1>1 DEF RowsPlaced, Exists
<1>2. ASSUME NEW t \in Transfers, NEW state, state # "NONE", RowState(t, state)
      PROVE  RowsPlaced
  BY <1>2 DEF RowState, RowsPlaced, Exists
<1>3. ASSUME NEW t \in Transfers, NEW kind, NEW f, NEW state, NewRow(t, kind, f, state)
      PROVE  RowsPlaced
  BY <1>3 DEF NewRow, RowsPlaced, Exists
<1>4. ASSUME NEW t, NEW seq, NEW kind, Tells(t, seq, kind) PROVE RowsPlaced
  BY <1>4 DEF Tells, ToldRunning, ToldAgain, ToldEnd, RowTold, RowsPlaced, Exists
<1>5. ASSUME NEW h \in Slots, Requested(h) PROVE RowsPlaced
  <2>1. ASSUME NEW f \in Filesets, NEW t \in Transfers,
               Warms(h, f, t) \/ Flushes(h, f, t) \/ Releases(h, f, t)
        PROVE  RowsPlaced
    BY <1>3, <2>1 DEF Warms, Flushes, Releases
  <2>2. ASSUME NEW f \in Filesets, NEW t \in Transfers,
               Settles(h, t) \/ Frees(h, f, t) \/ GivesUp(h, f, t)
        PROVE  RowsPlaced
    BY <1>2, <2>2 DEF Settles, Frees, GivesUp
  <2>3. ASSUME NEW t \in Transfers, Settles(h, t) PROVE RowsPlaced
    BY <1>2, <2>3 DEF Settles
  <2> QED
    BY <1>1, <1>5, <2>1, <2>2, <2>3
       DEF Requested, Creates, LooksToWarm, LooksToFlush, AsksToStop, Refused, Stopped,
           Created, NotCreated, Prepared, NotPrepared, Deletes
<1>6. ASSUME PassStep PROVE RowsPlaced
  BY <1>1, <1>6, PassColumns DEF Reads, HandsOver, PassesBy, Writes, RowsPlaced, Exists
<1>7. ASSUME EventStep PROVE RowsPlaced
  BY <1>1, <1>4, <1>7, EventColumns
<1>8. ASSUME RestartStep PROVE RowsPlaced
  <2>1. recovery \subseteq Transfers
    BY DEF TypeInv, RestartOK
  <2> QED
    BY <1>1, <1>2, <1>4, <1>8, <2>1, RestartColumns DEF DaemonLost, ControllerLost, Reconciled
<1>9. ASSUME NEW k \in TaskIds, DaemonStep(k) PROVE RowsPlaced
  BY <1>1, <1>9 DEF DaemonStep, controllerVars
<1> QED
  BY <1>5, <1>6, <1>7, <1>8, <1>9, RequestColumns, AnswerColumns DEF Next, Slots

\* What a step does to a released fileset.
LEMMA ReleasedAlone ==
    ASSUME TypeInv, Next, NEW f \in Filesets, fileset[f].state = "RELEASED",
           fileset'[f] # fileset[f]
    PROVE  \E h \in Slots : request[h].f = f /\ request'[h] # request[h]
<1>0. fileset \in [Filesets -> FilesetRow]
  BY DEF TypeInv, FilesetsOK
<1>1. ~UNCHANGED fileset
  OBVIOUS
<1>2. ASSUME NEW t, NEW seq, NEW kind, Tells(t, seq, kind) PROVE FALSE
  BY <1>1, <1>2 DEF Tells, ToldRunning, ToldAgain, ToldEnd, State, Place
<1>3. ASSUME NEW h \in Slots, Requested(h)
      PROVE  request[h].f = f /\ request'[h] # request[h]
  <2>1. ASSUME NEW g \in Filesets, Creates(h, g) PROVE FALSE
    BY <2>1 DEF Creates, State, Place
  <2>2. ASSUME NEW g \in Filesets, NEW t \in Transfers, Warms(h, g, t) PROVE FALSE
    BY <1>0, <2>2 DEF Warms, State, Place, IsLive, FilesetRow
  <2>3. ASSUME NEW g \in Filesets, NEW t \in Transfers, Flushes(h, g, t)
        PROVE  request[h].f = f /\ request'[h] # request[h]
    BY <2>3 DEF Flushes, State, Place, At, Rests, Keeps
  <2>4. ASSUME NEW g \in Filesets, NEW t \in Transfers, Releases(h, g, t)
        PROVE  request[h].f = f /\ request'[h] # request[h]
    BY <2>4 DEF Releases, State, Place, At, Rests, Keeps
  <2>5. ASSUME NEW t \in Transfers, Settles(h, t) PROVE FALSE
    BY <1>1, <2>5 DEF Settles, State, Place
  <2>6. ASSUME NEW g \in Filesets,
               \/ Created(h, g) \/ NotCreated(h, g) \/ Prepared(h, g)
               \/ NotPrepared(h, g) \/ Deletes(h, g)
        PROVE  request[h].f = f /\ request'[h] # request[h]
    BY <2>6 DEF Created, NotCreated, Prepared, NotPrepared, Deletes, Place, At, Rests, Keeps
  <2>7. ASSUME NEW g \in Filesets, NEW t \in Transfers, Frees(h, g, t) \/ GivesUp(h, g, t)
        PROVE  request[h].f = f /\ request'[h] # request[h]
    BY <2>7 DEF Frees, GivesUp, State, Place, At, Rests, Keeps
  <2> QED
    BY <1>1, <1>3, <2>1, <2>2, <2>3, <2>4, <2>5, <2>6, <2>7
       DEF Requested, LooksToWarm, LooksToFlush, AsksToStop, Refused, Stopped
<1>4. ASSUME NEW k \in TaskIds, DaemonStep(k) PROVE FALSE
  BY <1>1, <1>4 DEF DaemonStep, controllerVars
<1>5. ~PassStep
  BY <1>1, PassColumns
<1>6. ~EventStep
  BY <1>1, <1>2, EventColumns
<1>7. ~RestartStep
  BY <1>1, <1>2, RestartColumns DEF DaemonLost, ControllerLost, Reconciled
<1> QED
  BY <1>3, <1>4, <1>5, <1>6, <1>7, RequestColumns, AnswerColumns DEF Next, Slots

\* In whatever surroundings, a report, a cancellation, a pass or a reconciliation never
\* touches a fileset that was released (domain/filesets.py, services/events.py,
\* services/cancel.py): only a request that was at it before its release can.
THEOREM LeftAlone == Spec => ReleasedIsLeftAlone
<1>1. TypeInv /\ [Next]_vars =>
        [\A f \in Filesets :
           fileset[f].state = "RELEASED" /\ fileset'[f] # fileset[f] =>
             \E h \in Slots : request[h].f = f /\ request'[h] # request[h]]_fileset
  BY ReleasedAlone DEF vars, controllerVars
<1> QED
  BY <1>1, TypeInvariant, PTL DEF Spec, ReleasedIsLeftAlone

-----------------------------------------------------------------------------
(* Busy for a reason.                                                      *)

\* Nobody has asked for a cancellation, and nobody works while the controller is down.
AtWork ==
    /\ \A h \in Slots : request[h].op # "cancel"
    /\ up \/ \A h \in Slots : request[h].op = "none"

\* No pass, task or report is about the transfer.
Untouched(t) ==
    /\ t \notin todo /\ sent[t] = 0
    /\ \A e \in events : e.t # t
    /\ \A k \in TaskIds : ~Idle(k) => task[k].of # t

\* A release that has begun.
Releasing(h) ==
    request[h].op = "release" /\ request[h].at \in {"calling", "refused", "answered"}

\* The handler remembers a row of this kind, and of the fileset it is at.
Owns(h, kind) ==
    \E t \in Transfers :
      /\ t = request[h].t
      /\ transfer[t].kind = kind /\ transfer[t].fs = request[h].f
      /\ Exists(t)

\* A handler that prepares or releases a fileset has a row of it for that.
OwnInv ==
    \A h \in Slots :
      /\ At(h, "warm", "calling") => Owns(h, "warm")
      /\ Releasing(h) => Owns(h, "release")

\* A row that is new is nobody's business yet.
LEMMA NewIsUntouched ==
    ASSUME TypeInv, NEW t \in Transfers, ~Exists(t)
    PROVE  Untouched(t)
BY DEF TypeInv, PassNamed, EventsNamed, TasksNamed, Untouched, PassOK

\* What a request leaves aside stays so.
LEMMA AsideUntouched ==
    ASSUME Aside, NEW t \in Transfers, Untouched(t)
    PROVE  Untouched(t)'
BY DEF Aside, Untouched, Idle

\* Requests go on from where they may be.
LEMMA RequestsAtWork ==
    ASSUME AtWork, "cancel" \notin Ops, NEW h \in Slots, Aside, Requested(h)
    PROVE  /\ AtWork' /\ up
           /\ \A t \in Transfers : ~Settles(h, t) /\ ~AsksToStop(h, t)
           /\ ~Stopped(h)
<1>1. /\ \A t \in Transfers : ~Settles(h, t) /\ ~AsksToStop(h, t)
      /\ ~Stopped(h)
  BY DEF AtWork, Settles, AsksToStop, Stopped, At
<1>2. up
  BY <1>1 DEF AtWork, Requested, Creates, LooksToWarm, LooksToFlush, Begins, Warms, Flushes,
     Releases, Refused, Created, NotCreated, Prepared, NotPrepared, Deletes, Frees, GivesUp, At
<1>3. \E op \in {"none", "create", "warm", "flush", "release"} :
        /\ request'[h].op = op
        /\ \A g \in Slots \ {h} : request'[g] = request[g]
  BY <1>1 DEF Requested, Creates, LooksToWarm, LooksToFlush, Warms, Flushes,
     Releases, Refused, Created, NotCreated, Prepared, NotPrepared, Deletes, Frees, GivesUp,
     Keeps, Rests
<1> QED
  BY <1>1, <1>2, <1>3 DEF AtWork, Aside

\* A step of a request leaves the other requests alone.
LEMMA OthersRest ==
    ASSUME NEW h \in Slots, Requested(h), NEW g \in Slots, g # h
    PROVE  request'[g] = request[g]
BY DEF Requested, Creates, LooksToWarm, LooksToFlush, Warms, Flushes, Releases, Settles,
   AsksToStop, Refused, Stopped, Created, NotCreated, Prepared, NotPrepared, Deletes, Frees,
   GivesUp, Keeps, Rests

\* A request keeps the row it has for its fileset.
LEMMA RequestKeepsOwn ==
    ASSUME TypeInv, OwnInv, RowsPlaced, NEW h \in Slots, Requested(h)
    PROVE  OwnInv'
<1>1. ASSUME NEW g \in Slots, NEW kind, Owns(g, kind),
             request'[g].t = request[g].t, request'[g].f = request[g].f
      PROVE  Owns(g, kind)'
  BY <1>1 DEF Owns, RowsPlaced
<1> SUFFICES ASSUME NEW g \in Slots
             PROVE  /\ At(g, "warm", "calling")' => Owns(g, "warm")'
                    /\ Releasing(g)' => Owns(g, "release")'
  BY DEF OwnInv
<1>2. CASE request'[g] = request[g]
  BY <1>1, <1>2 DEF OwnInv, At, Releasing
<1>3. CASE request'[g] # request[g]
  <2>1. g = h
    BY <1>3, OthersRest
  <2>2. ASSUME NEW f \in Filesets, NEW t \in Transfers, Warms(h, f, t) PROVE Owns(h, "warm")'
    BY <2>2 DEF Warms, NewRow, Keeps, Owns, Exists
  <2>3. ASSUME NEW f \in Filesets, NEW t \in Transfers, Releases(h, f, t)
        PROVE  Owns(h, "release")'
    BY <2>3 DEF Releases, NewRow, Keeps, Owns, Exists
  <2>4. ASSUME NEW f \in Filesets, Deletes(h, f) PROVE Owns(h, "release")'
    BY <1>1, <2>4 DEF Deletes, Keeps, OwnInv, Releasing, At
  <2>5. \/ \E f \in Filesets, t \in Transfers : Warms(h, f, t) \/ Releases(h, f, t)
        \/ \E f \in Filesets : Deletes(h, f)
        \/ request'[h].op \in {"none", "create", "cancel", "flush"}
        \/ At(h, "warm", "checked")'
    BY <1>3, <2>1 DEF Requested, Creates, LooksToWarm, LooksToFlush, Flushes, Settles,
       AsksToStop, Refused, Stopped, Created, NotCreated, Prepared, NotPrepared, Frees, GivesUp,
       Keeps, Rests, At
  <2> QED
    BY <2>1, <2>2, <2>3, <2>4, <2>5 DEF Warms, Releases, Deletes, Keeps, At, Releasing
<1> QED
  BY <1>2, <1>3

\* What is not a request leaves the requests alone, loses them, or begins the release
\* that a flush asked for.
LEMMA OthersRequests ==
    ASSUME TypeInv,
           PassStep \/ EventStep \/ RestartStep \/ \E k \in TaskIds : DaemonStep(k)
    PROVE  \/ \A h \in Slots : request'[h] = Resting
           \/ UNCHANGED request
           \/ \E e \in events, h \in Slots : NextRelease(h, e)
<1>1. ASSUME EventStep
      PROVE  UNCHANGED request \/ \E e \in events, h \in Slots : NextRelease(h, e)
  BY <1>1, EventColumns
<1>2. RestartStep => UNCHANGED request \/ \A h \in Slots : request'[h] = Resting
  BY RestartColumns DEF DaemonLost, ControllerLost, Reconciled
<1>3. ASSUME NEW k \in TaskIds, DaemonStep(k) PROVE UNCHANGED request
  BY <1>3 DEF DaemonStep, controllerVars
<1> QED
  BY <1>1, <1>2, <1>3, PassColumns

\* Every step keeps it so.
LEMMA OwnStep ==
    ASSUME TypeInv, OwnInv, [Next]_vars
    PROVE  OwnInv'
<1>1. CASE UNCHANGED vars
  BY <1>1 DEF vars, controllerVars, OwnInv, Owns, Releasing, At, Exists
<1>2. CASE Next
  <2>1. RowsPlaced
    BY <1>2, RowsStayPlaced
  <2>2. ASSUME NEW h \in Slots, Requested(h) PROVE OwnInv'
    BY <2>1, <2>2, RequestKeepsOwn
  <2>3. ASSUME PassStep \/ EventStep \/ RestartStep \/ \E k \in TaskIds : DaemonStep(k)
        PROVE  OwnInv'
    <3>1. ASSUME NEW g \in Slots, NEW kind, Owns(g, kind), request'[g] = request[g]
          PROVE  Owns(g, kind)'
      BY <2>1, <3>1 DEF Owns, RowsPlaced
    <3>2. CASE \A h \in Slots : request'[h] = Resting
      BY <3>2 DEF OwnInv, Releasing, At, Resting
    <3>3. CASE UNCHANGED request
      BY <3>1, <3>3 DEF OwnInv, Releasing, At
    <3>4. ASSUME NEW e \in events, NEW h \in Slots, NextRelease(h, e) PROVE OwnInv'
      <4>1. /\ request'[h].op = "release" /\ request'[h].at = "due"
            /\ \A g \in Slots \ {h} : request'[g] = request[g]
        BY <3>4 DEF NextRelease, Keeps
      <4> QED
        BY <3>1, <4>1 DEF OwnInv, Releasing, At
    <3> QED
      BY <2>3, <3>2, <3>3, <3>4, OthersRequests
  <2> QED
    BY <1>2, <2>2, <2>3, RequestColumns, AnswerColumns DEF Next, Slots
<1> QED
  BY <1>1, <1>2

\* At the start nobody has begun anything.
LEMMA NothingOwnedYet == Init => OwnInv
BY DEF Init, Resting, OwnInv, Releasing, At

\* No transfer of the fileset comes to an end.
NothingEnds(f) ==
    \A t \in Transfers :
      Exists(t) /\ transfer[t].fs = f /\ transfer'[t].state \in Terminal =>
        transfer[t].state \in Terminal

\* A fileset keeps its reason until its transfer ends.
LEMMA ReasonStays ==
    ASSUME TypeInv', RowsPlaced, NEW f \in Filesets, Reason(f),
           fileset'[f].state = fileset[f].state, NothingEnds(f)
    PROVE  Reason(f)'
<1>1. ASSUME NEW kind, Unsettled(f, kind) PROVE Unsettled(f, kind)'
  <2>1. PICK t \in Transfers : /\ transfer[t].fs = f /\ transfer[t].kind = kind
                               /\ transfer[t].state \in TransferStates \ Terminal
    BY <1>1 DEF Unsettled
  <2>2. Exists(t)
    BY <2>1 DEF Exists, TransferStates
  <2>3. Exists(t)' /\ transfer'[t].kind = kind /\ transfer'[t].fs = f
    BY <2>1, <2>2 DEF RowsPlaced
  <2>4. transfer'[t].state \in TransferStates \ Terminal
    BY <2>1, <2>2, <2>3 DEF NothingEnds, TypeInv, TransfersOK, TransferRow, Exists
  <2> QED
    BY <2>3, <2>4 DEF Unsettled
<1> QED
  BY <1>1 DEF Reason

\* A request leaves a fileset its reason, unless it prepared it too late.
LEMMA RequestKeepsReason ==
    ASSUME TypeInv, TypeInv', OwnInv, RowsPlaced, NEW h \in Slots, Requested(h),
           NEW g \in Filesets, Reason(g)
    PROVE  Reason(g)' \/ PreparedTooLate(h, g)
<1>2. ASSUME fileset'[g].state = fileset[g].state,
             \A t \in Transfers : Exists(t) /\ transfer[t].fs = g => transfer'[t] = transfer[t]
      PROVE  Reason(g)'
  BY <1>2, ReasonStays DEF NothingEnds
<1>3. ASSUME UNCHANGED transfer,
             fileset'[g].state \in {fileset[g].state, "CREATING", "READY", "NONE"}
      PROVE  Reason(g)'
  BY <1>2, <1>3 DEF Reason
<1>4. ASSUME NEW f \in Filesets,
             \/ Creates(h, f) \/ LooksToWarm(h, f) \/ LooksToFlush(h, f)
             \/ Created(h, f) \/ NotCreated(h, f) \/ NotPrepared(h, f) \/ Deletes(h, f)
      PROVE  Reason(g)'
  BY <1>3, <1>4 DEF Creates, LooksToWarm, LooksToFlush, Created, NotCreated, NotPrepared,
     Deletes, State, Place
<1>5. ASSUME NEW t \in Transfers, Refused(h) \/ AsksToStop(h, t) \/ Stopped(h) PROVE Reason(g)'
  BY <1>3, <1>5 DEF Refused, AsksToStop, Stopped
<1>6. ASSUME NEW f \in Filesets, NEW t \in Transfers, Warms(h, f, t) PROVE Reason(g)'
  <2>1. \A u \in Transfers : Exists(u) => transfer'[u] = transfer[u]
    BY <1>6 DEF Warms, NewRow
  <2>2. fileset'[g].state \in {fileset[g].state, "CREATING"}
    BY <1>6 DEF Warms, State, Place
  <2> QED
    BY <1>2, <2>1, <2>2 DEF Reason
<1>7. ASSUME NEW f \in Filesets, NEW t \in Transfers, Flushes(h, f, t) \/ Releases(h, f, t)
      PROVE  Reason(g)'
  <2>1. \A u \in Transfers : Exists(u) => transfer'[u] = transfer[u]
    BY <1>7 DEF Flushes, Releases, NewRow
  <2>2. g # f => fileset'[g].state = fileset[g].state
    BY <1>7 DEF Flushes, Releases, State, Place
  <2>3. CASE g = f
    <3>1. \/ fileset'[f].state = "FLUSHING" /\ transfer'[t].kind = "flush"
          \/ fileset'[f].state = "RELEASING" /\ transfer'[t].kind = "release"
      BY <1>7 DEF Flushes, Releases, NewRow, State, Place
    <3>2. transfer'[t].fs = f /\ transfer'[t].state \in {"SUBMITTED", "RUNNING"}
      BY <1>7 DEF Flushes, Releases, NewRow
    <3> QED
      BY <2>3, <3>1, <3>2 DEF Reason, Unsettled, TransferStates, Terminal
  <2> QED
    BY <1>2, <2>1, <2>2, <2>3
<1>8. ASSUME NEW f \in Filesets, Prepared(h, f) PROVE Reason(g)' \/ PreparedTooLate(h, g)
  <2>1. UNCHANGED transfer /\ f = request[h].f /\ At(h, "warm", "calling")
        /\ ~At(h, "warm", "calling")'
    BY <1>8 DEF Prepared, Rests, Keeps, At
  <2>2. PICK t \in Transfers : /\ t = request[h].t /\ Exists(t)
                               /\ transfer[t].kind = "warm" /\ transfer[t].fs = f
    BY <2>1 DEF OwnInv, Owns
  <2>3. transfer[t].state \in TransferStates
    BY <2>2 DEF TypeInv, TransfersOK, TransferRow, Exists
  <2>4. Unsettled(f, "warm")' \/ PreparedTooLate(h, f)
    BY <2>1, <2>2, <2>3 DEF Unsettled, PreparedTooLate
  <2>5. \/ fileset'[g].state = fileset[g].state
        \/ g = f /\ fileset'[g].state = "POPULATING"
    BY <1>8 DEF Prepared, State, Place
  <2> QED
    BY <1>2, <2>1, <2>4, <2>5 DEF Reason
<1>9. ASSUME NEW f \in Filesets, NEW t \in Transfers, Frees(h, f, t) \/ GivesUp(h, f, t)
      PROVE  Reason(g)'
  <2>1. /\ transfer[t].fs = f
        /\ \A u \in Transfers \ {t} : transfer'[u] = transfer[u]
        /\ \A e \in Filesets \ {f} : fileset'[e] = fileset[e]
        /\ fileset'[f].state \in {"RELEASED", "FAILED"}
    BY <1>9 DEF Frees, GivesUp, RowState, State, Place, OwnInv, Owns, Releasing, At
  <2> QED
    BY <1>2, <2>1 DEF Reason
<1>10. ASSUME NEW t \in Transfers, Settles(h, t) PROVE Reason(g)'
  <2>1. /\ \A u \in Transfers \ {t} : transfer'[u] = transfer[u]
        /\ g # transfer[t].fs => fileset'[g] = fileset[g]
        /\ g = transfer[t].fs => fileset'[g].state \in {"RELEASED", "FAILED"}
    BY <1>10 DEF Settles, RowState, State, Place
  <2> QED
    BY <1>2, <2>1 DEF Reason
<1>11. CASE \E t \in Transfers : Settles(h, t) \/ AsksToStop(h, t)
  BY <1>5, <1>10, <1>11
<1>12. CASE Refused(h) \/ Stopped(h)
  <2>1. UNCHANGED <<transfer, fileset>>
    BY <1>12 DEF Refused, Stopped
  <2> QED
    BY <1>3, <2>1
<1> QED
  BY <1>4, <1>6, <1>7, <1>8, <1>9, <1>11, <1>12 DEF Requested

\* A report leaves a fileset busy only for another transfer that goes on.
LEMMA ReportKeepsReason ==
    ASSUME TypeInv', RowsPlaced, NEW t, NEW seq, NEW kind, Tells(t, seq, kind),
           NEW f \in Filesets, Reason(f)
    PROVE  Reason(f)'
<1>1. t \in Transfers /\ Exists(t)
  BY DEF Tells
<1>2. CASE ToldRunning(t, seq, kind) \/ ToldAgain(t, seq, kind)
  <2>1. fileset' = fileset /\ transfer'[t].state \notin Terminal
        /\ \A u \in Transfers \ {t} : transfer'[u] = transfer[u]
    BY <1>2 DEF ToldRunning, ToldAgain, RowTold, Terminal
  <2> QED
    BY <2>1, ReasonStays DEF NothingEnds
<1>3. CASE ToldEnd(t, seq, kind)
  <2>1. /\ \A u \in Transfers \ {t} : transfer'[u] = transfer[u]
        /\ f = transfer[t].fs => fileset'[f].state \in {"READY", "FAILED"}
        /\ f # transfer[t].fs => fileset'[f] = fileset[f]
    BY <1>3 DEF ToldEnd, RowTold, State, Place
  <2>2. CASE f = transfer[t].fs
    BY <2>1, <2>2 DEF Reason
  <2>3. CASE f # transfer[t].fs
    BY <2>1, <2>3, ReasonStays DEF NothingEnds
  <2> QED
    BY <2>2, <2>3
<1> QED
  BY <1>2, <1>3 DEF Tells

\* A report, a pass, a daemon or a restart leaves a fileset its reason.
LEMMA OthersKeepReason ==
    ASSUME TypeInv, TypeInv', RowsPlaced, NEW f \in Filesets, Reason(f),
           PassStep \/ EventStep \/ RestartStep \/ \E k \in TaskIds : DaemonStep(k)
    PROVE  Reason(f)'
<1>2. ASSUME UNCHANGED <<transfer, fileset>> PROVE Reason(f)'
  BY <1>2, ReasonStays DEF NothingEnds
<1>3. ASSUME PassStep PROVE Reason(f)'
  <2>1. UNCHANGED fileset /\ (UNCHANGED transfer \/ Writes)
    BY <1>3, PassColumns DEF Reads, HandsOver, PassesBy
  <2>2. NothingEnds(f)
    BY <2>1 DEF Writes, NothingEnds, Terminal
  <2> QED
    BY <2>1, <2>2, ReasonStays
<1>4. ASSUME EventStep PROVE Reason(f)'
  BY <1>2, <1>4, EventColumns, ReportKeepsReason
<1>5. ASSUME RestartStep PROVE Reason(f)'
  <2>1. ASSUME NEW t \in Transfers, RowState(t, "SUBMITTED"), UNCHANGED fileset
        PROVE  Reason(f)'
    BY <2>1, ReasonStays DEF RowState, NothingEnds, Terminal
  <2>2. recovery \subseteq Transfers
    BY DEF TypeInv, RestartOK
  <2> QED
    BY <1>2, <1>5, <2>1, <2>2, RestartColumns, ReportKeepsReason
       DEF DaemonLost, ControllerLost, Reconciled
<1>6. ASSUME NEW k \in TaskIds, DaemonStep(k) PROVE Reason(f)'
  BY <1>2, <1>6 DEF DaemonStep, controllerVars
<1> QED
  BY <1>3, <1>4, <1>5, <1>6

\* Only a pass that reads the transfer touches it, or a reconciliation.
LEMMA UntouchedStays ==
    ASSUME TypeInv, ~Reconciled, NEW t \in Transfers, Untouched(t),
           \A chosen : Reads(chosen) => t \notin chosen,
           PassStep \/ EventStep \/ RestartStep \/ \E k \in TaskIds : DaemonStep(k)
    PROVE  transfer'[t] = transfer[t] /\ Untouched(t)'
<1>1. ASSUME PassStep PROVE transfer'[t] = transfer[t] /\ Untouched(t)'
  <2>1. UNCHANGED events
    BY <1>1, PassColumns
  <2>2. ASSUME NEW chosen \in SUBSET Transfers, Reads(chosen)
        PROVE  transfer'[t] = transfer[t] /\ Untouched(t)'
    BY <2>1, <2>2 DEF Reads, Untouched, Idle
  <2>3. ASSUME NEW u \in Transfers, NEW k \in TaskIds, HandsOver(u, k)
        PROVE  transfer'[t] = transfer[t] /\ Untouched(t)'
    BY <2>1, <2>3 DEF HandsOver, Untouched, Idle
  <2>4. ASSUME NEW u \in Transfers, PassesBy(u)
        PROVE  transfer'[t] = transfer[t] /\ Untouched(t)'
    BY <2>1, <2>4 DEF PassesBy, Untouched, Idle
  <2>5. ASSUME Writes PROVE transfer'[t] = transfer[t] /\ Untouched(t)'
    BY <2>1, <2>5 DEF Writes, Untouched, Idle
  <2> QED
    BY <1>1, <2>2, <2>3, <2>4, <2>5, PassColumns
<1>2. ASSUME EventStep PROVE transfer'[t] = transfer[t] /\ Untouched(t)'
  <2>1. PICK e \in events :
           /\ Taken(e)
           /\ \/ UNCHANGED <<transfer, fileset, request>>
              \/ Tells(e.t, e.seq, e.kind)
    BY <1>2, EventColumns
  <2>2. e.t # t
    BY DEF Untouched
  <2>3. transfer'[t] = transfer[t]
    BY <2>1, <2>2 DEF Tells, ToldRunning, ToldAgain, ToldEnd, RowTold
  <2> QED
    BY <2>1, <2>3 DEF Taken, Untouched, Idle
<1>3. ASSUME RestartStep PROVE transfer'[t] = transfer[t] /\ Untouched(t)'
  BY <1>3, RestartColumns DEF DaemonLost, ControllerLost, Untouched, Idle
<1>4. ASSUME NEW k \in TaskIds, DaemonStep(k)
      PROVE  transfer'[t] = transfer[t] /\ Untouched(t)'
  <2>1. /\ UNCHANGED controllerVars
        /\ Live(k) /\ task'[k].of = task[k].of
        /\ \A j \in TaskIds \ {k} : task'[j] = task[j]
        /\ \E kind \in EventKinds : Reports(task[k].of, kind)
    BY <1>4, DaemonColumns
  <2>2. task[k].of # t
    BY <2>1 DEF Untouched, Live, Idle
  <2>3. \A e \in events' : e.t # t
    BY <2>1, <2>2 DEF Reports, Untouched
  <2> QED
    BY <2>1, <2>2, <2>3 DEF controllerVars, schedulerVars, restartVars, elsewhere, Untouched, Idle
<1> QED
  BY <1>1, <1>2, <1>3, <1>4

\* Nobody works while the controller is down, whatever else happens.
LEMMA OthersKeepAtWork ==
    ASSUME TypeInv, AtWork,
           PassStep \/ EventStep \/ RestartStep \/ \E k \in TaskIds : DaemonStep(k)
    PROVE  /\ AtWork'
           /\ \/ \A h \in Slots : request'[h] = Resting
              \/ UNCHANGED request
              \/ \E e \in events, h \in Slots : NextRelease(h, e)
<1>1. CASE ControllerLost
  BY <1>1 DEF ControllerLost, Resting, AtWork
<1>2. CASE ~ControllerLost
  <2>1. \/ UNCHANGED <<request, up>>
        \/ UNCHANGED request /\ ~up
        \/ UNCHANGED up /\ up /\ \E e \in events, h \in Slots : NextRelease(h, e)
    <3>1. ASSUME EventStep
          PROVE  \/ UNCHANGED <<request, up>>
                 \/ UNCHANGED up /\ up /\ \E e \in events, h \in Slots : NextRelease(h, e)
      BY <3>1, EventColumns DEF Taken, Deliverable
    <3>2. RestartStep => UNCHANGED <<request, up>> \/ (UNCHANGED request /\ ~up)
      BY <1>2, RestartColumns DEF DaemonLost, Reconciled
    <3>3. ASSUME NEW k \in TaskIds, DaemonStep(k) PROVE UNCHANGED <<request, up>>
      BY <3>3 DEF DaemonStep, controllerVars
    <3> QED
      BY <3>1, <3>2, <3>3, PassColumns
  <2> QED
    BY <2>1 DEF AtWork, NextRelease, Keeps
<1> QED
  BY <1>1, <1>2

\* Every step keeps it so, as long as nobody may cancel.
LEMMA AtWorkStep ==
    ASSUME TypeInv, AtWork, [Next]_vars, "cancel" \notin Ops
    PROVE  AtWork'
<1>1. CASE UNCHANGED vars
  BY <1>1 DEF vars, controllerVars, AtWork
<1>2. CASE Next
  BY <1>2, RequestColumns, AnswerColumns, RequestsAtWork, OthersKeepAtWork DEF Next, Slots
<1> QED
  BY <1>1, <1>2

\* Whatever crashes, is lost or overtakes, and however many users ask at once for
\* whatever they like, nothing leaves a fileset busy for nothing but a preparation that
\* takes longer than the warm it is for (services/warm.py writes the state it saw before
\* it called the daemon; domain/filesets.py, services/flush.py, services/release.py,
\* services/cancel.py, services/events.py).
THEOREM Busy == Spec => BusyForAReason
<1>1. Init => OwnInv
  BY NothingOwnedYet
<1>2. TypeInv /\ OwnInv /\ [Next]_vars => OwnInv'
  BY OwnStep
<1>3. TypeInv /\ TypeInv' /\ OwnInv /\ [Next]_vars =>
        [\A f \in Filesets :
           Reason(f) /\ ~Reason(f)' => \E h \in Slots : PreparedTooLate(h, f)]_vars
  <2> SUFFICES ASSUME TypeInv, TypeInv', OwnInv, Next, NEW f \in Filesets, Reason(f)
               PROVE  Reason(f)' \/ \E h \in Slots : PreparedTooLate(h, f)
    OBVIOUS
  <2>1. RowsPlaced
    BY RowsStayPlaced
  <2>2. ASSUME NEW h \in Slots, Requested(h) PROVE Reason(f)' \/ PreparedTooLate(h, f)
    BY <2>1, <2>2, RequestKeepsReason
  <2>3. ASSUME PassStep \/ EventStep \/ RestartStep \/ \E k \in TaskIds : DaemonStep(k)
        PROVE  Reason(f)'
    BY <2>1, <2>3, OthersKeepReason
  <2> QED
    BY <2>2, <2>3, RequestColumns, AnswerColumns DEF Next, Slots
<1> QED
  BY <1>1, <1>2, <1>3, TypeInvariant, PTL DEF Spec, BusyForAReason

-----------------------------------------------------------------------------
(* What is released has been deleted.                                      *)

\* A user asks for one thing after another.
OneAtATime == \A g, h \in Handlers : g = h

\* Its directory is being made.
Making(h) == At(h, "create", "calling") \/ At(h, "warm", "calling")

\* Only users' handlers work on anything but releases.
UsersWork == \A h \in Slots : request[h].op \notin {"none", "release"} => h \in Handlers

\* A fileset without a row has no transfers, and nobody is at it who did not check that.
NoneIsNew ==
    \A f \in Filesets :
      fileset[f].state = "NONE" =>
        /\ \A t \in Transfers : Exists(t) => transfer[t].fs # f
        /\ \A h \in Slots : request[h].f = f => At(h, "warm", "checked")

\* Whoever makes a directory is alone with its fileset.
MakersAlone ==
    \A h \in Slots :
      Making(h) =>
        /\ fileset[request[h].f].state \notin {"NONE", "RELEASING", "RELEASED"}
        /\ \A t \in Transfers :
             Exists(t) /\ transfer[t].fs = request[h].f =>
               transfer[t].kind = "warm" /\ request[h].op = "warm" /\ t = request[h].t
        /\ \A g \in Slots \ {h} : request[g].f # request[h].f

\* A warm that has passed its preflight will make its fileset.
CheckedIsNew ==
    \A h \in Slots : At(h, "warm", "checked") => fileset[request[h].f].state = "NONE"

\* A release that was answered has its directory deleted.
DeletedIsGone ==
    \A h \in Slots : At(h, "release", "answered") => ~fileset[request[h].f].dir

\* The invariant behind ReleasedIsDeleted.
NewInv ==
    UsersWork /\ NoneIsNew /\ MakersAlone /\ CheckedIsNew /\ DeletedIsGone /\ ReleasedIsDeleted

\* A step that leaves the filesets alone, and of the requests all that concerns them.
LEMMA SameKeepsNew ==
    ASSUME TypeInv, NewInv, UNCHANGED <<fileset, request>>,
           \A t \in Transfers : Exists(t)' => /\ Exists(t)
                                             /\ transfer'[t].kind = transfer[t].kind
                                             /\ transfer'[t].fs = transfer[t].fs
    PROVE  NewInv'
BY DEF NewInv, UsersWork, NoneIsNew, MakersAlone, Making, CheckedIsNew, DeletedIsGone,
   ReleasedIsDeleted, At

\* A user who begins something finds nobody making or about to make.
LEMMA BeginningKeepsNew ==
    ASSUME TypeInv, NewInv, OneAtATime, "refresh" \notin Ops, NEW h \in Slots, NEW f \in Filesets,
           Creates(h, f) \/ LooksToWarm(h, f) \/ LooksToFlush(h, f)
    PROVE  NewInv'
<1>0. /\ h \in Handlers /\ request[h] = Resting /\ NoFileset \notin Filesets
      /\ \A g \in Slots : request[g].op \in {"create", "warm", "flush"} => request[g].f \in Filesets
      /\ UNCHANGED transfer
  BY NoFilesetAssumption
     DEF Creates, LooksToWarm, LooksToFlush, Begins, TypeInv, RequestsOK, WellFormed
<1>1. \A g \in Slots \ {h} : request[g].op \in {"none", "release"} /\ request'[g] = request[g]
  BY <1>0 DEF NewInv, UsersWork, OneAtATime, Creates, LooksToWarm, LooksToFlush, Keeps
<1>2. request'[h].op \in {"create", "warm", "flush"} /\ request'[h].f = f
      /\ (request'[h].op # "create" => request'[h].at = "checked")
  BY DEF Creates, LooksToWarm, LooksToFlush, Keeps
<1>3. UsersWork'
  BY <1>0, <1>1 DEF NewInv, UsersWork
<1>4. CASE Creates(h, f)
  <2>1. /\ fileset[f].state = "NONE" /\ fileset'[f].state = "CREATING"
        /\ fileset'[f].dir = fileset[f].dir
        /\ \A g \in Filesets \ {f} : fileset'[g] = fileset[g]
        /\ request'[h].op = "create"
    BY <1>4 DEF Creates, State, Place, Keeps
  <2>2. NoneIsNew' /\ CheckedIsNew' /\ DeletedIsGone' /\ ReleasedIsDeleted'
    BY <1>0, <1>1, <1>2, <2>1
       DEF NewInv, NoneIsNew, CheckedIsNew, DeletedIsGone, ReleasedIsDeleted, At, Exists,
           TypeInv, RequestsOK, WellFormed
  <2>3. MakersAlone'
    BY <1>0, <1>1, <1>2, <2>1 DEF NewInv, NoneIsNew, MakersAlone, Making, At, Exists
  <2> QED
    BY <1>3, <2>2, <2>3 DEF NewInv
<1>5. CASE LooksToWarm(h, f) \/ LooksToFlush(h, f)
  <2>1. /\ UNCHANGED fileset
        /\ \/ fileset[f].state = "NONE" /\ request'[h].op = "warm"
           \/ fileset[f].state # "NONE" /\ request'[h].op = "flush"
        /\ request'[h].at = "checked"
    BY <1>5 DEF LooksToWarm, LooksToFlush, Keeps, IsLive
  <2>2. NoneIsNew' /\ CheckedIsNew' /\ DeletedIsGone' /\ ReleasedIsDeleted'
    BY <1>0, <1>1, <1>2, <2>1
       DEF NewInv, NoneIsNew, CheckedIsNew, DeletedIsGone, ReleasedIsDeleted, At, Exists
  <2>3. MakersAlone'
    BY <1>0, <1>1, <1>2, <2>1 DEF NewInv, NoneIsNew, MakersAlone, Making, At, Exists
  <2> QED
    BY <1>3, <2>2, <2>3 DEF NewInv
<1> QED
  BY <1>4, <1>5

\* A warm or a flush that inserts its row.
LEMMA SubmittingKeepsNew ==
    ASSUME TypeInv, NewInv, OneAtATime, NEW h \in Slots, NEW f \in Filesets,
           NEW t \in Transfers, Warms(h, f, t) \/ Flushes(h, f, t)
    PROVE  NewInv'
<1>0. /\ h \in Handlers /\ NoFileset \notin Filesets /\ request[h].op \in {"warm", "flush"}
      /\ \A u \in Transfers \ {t} : transfer'[u] = transfer[u]
      /\ ~Exists(t) /\ transfer'[t].fs = f /\ Exists(t)'
  BY NoFilesetAssumption DEF Warms, Flushes, NewRow, At, Exists
<1>1. \A g \in Slots \ {h} : request[g].op \in {"none", "release"} /\ request'[g] = request[g]
  BY <1>0 DEF NewInv, UsersWork, OneAtATime, Warms, Flushes, Rests, Keeps
<1>2. UsersWork'
  BY <1>0, <1>1 DEF NewInv, UsersWork
<1>3. f = request[h].f
  BY DEF Warms, Flushes, NewInv, CheckedIsNew
<1>4. /\ fileset'[f].state \in {"CREATING", "FLUSHING"} /\ fileset'[f].dir = fileset[f].dir
      /\ \A g \in Filesets \ {f} : fileset'[g] = fileset[g]
  BY <1>3 DEF Warms, Flushes, NewInv, CheckedIsNew, State, Place, IsLive
<1>5. /\ request'[h].f \in {f, NoFileset}
      /\ At(h, "warm", "calling")' \/ request'[h].op = "none"
  BY DEF Warms, Flushes, Rests, Keeps, At
<1>6. \A g \in Slots \ {h} : request[g].f = f => fileset[f].state # "NONE"
  BY <1>1 DEF NewInv, NoneIsNew, At
<1>7. NoneIsNew' /\ CheckedIsNew' /\ DeletedIsGone' /\ ReleasedIsDeleted'
  BY <1>0, <1>1, <1>3, <1>4, <1>5
     DEF NewInv, NoneIsNew, CheckedIsNew, DeletedIsGone, ReleasedIsDeleted, At, Exists,
         TypeInv, RequestsOK, WellFormed
<1>8. MakersAlone'
  <2> SUFFICES ASSUME NEW g \in Slots, Making(g)'
               PROVE  /\ fileset'[request'[g].f].state \notin {"NONE", "RELEASING", "RELEASED"}
                      /\ \A u \in Transfers :
                           Exists(u)' /\ transfer'[u].fs = request'[g].f =>
                             /\ transfer'[u].kind = "warm" /\ request'[g].op = "warm"
                             /\ u = request'[g].t
                      /\ \A i \in Slots \ {g} : request'[i].f # request'[g].f
    BY DEF MakersAlone
  <2>1. g = h /\ Warms(h, f, t)
    BY <1>1 DEF Making, At, Flushes, Rests, Keeps
  <2>2. /\ request'[h].f = f /\ request'[h].t = t /\ request'[h].op = "warm"
        /\ transfer'[t].kind = "warm"
        /\ fileset[f].state = "NONE"
    BY <1>3, <2>1 DEF Warms, Keeps, NewRow, NewInv, CheckedIsNew
  <2> QED
    BY <1>0, <1>1, <1>4, <1>6, <2>1, <2>2 DEF NewInv, NoneIsNew, Exists
<1> QED
  BY <1>2, <1>7, <1>8 DEF NewInv

\* A release that begins, or a row that is settled.
LEMMA MovingKeepsNew ==
    ASSUME TypeInv, NewInv, OneAtATime, NEW h \in Slots, NEW f \in Filesets,
           NEW t \in Transfers,
           \/ Releases(h, f, t) \/ Frees(h, f, t) \/ GivesUp(h, f, t)
           \/ Settles(h, t) /\ f = transfer[t].fs
    PROVE  NewInv'
<1>0. /\ NoFileset \notin Filesets
      /\ \A u \in Transfers \ {t} : transfer'[u] = transfer[u]
  BY NoFilesetAssumption DEF Releases, Frees, GivesUp, Settles, NewRow, RowState
<1>1. /\ \A g \in Slots \ {h} : request'[g] = request[g]
      /\ \/ request'[h] = request[h]
         \/ request'[h].op = "none" /\ request'[h].f = NoFileset
         \/ /\ request'[h].op = "release" /\ request'[h].f = f
            /\ request'[h].at \in {"calling", "refused"}
  BY DEF Releases, Frees, GivesUp, Settles, Rests, Keeps
<1>2. /\ \A g \in Filesets \ {f} : fileset'[g] = fileset[g]
      /\ fileset'[f].dir = fileset[f].dir
      /\ \/ fileset'[f].state \in {"RELEASING", "FAILED", fileset[f].state}
         \/ fileset'[f].state = "RELEASED" /\ Frees(h, f, t)
  BY DEF Releases, Frees, GivesUp, Settles, State, Place
<1>3. fileset[f].state # "NONE"
  BY DEF Releases, Frees, GivesUp, Settles, NewInv, NoneIsNew, At
<1>4. \A g \in Slots : Making(g)' => Making(g) /\ request'[g] = request[g]
  BY <1>1 DEF Making, At
<1>5. \A g \in Slots : Making(g)' =>
        \/ request[g].f # f
        \/ Settles(h, t) /\ fileset'[f].state \in {"FAILED", fileset[f].state}
  <2> SUFFICES ASSUME NEW g \in Slots, Making(g)', request[g].f = f
               PROVE  Settles(h, t) /\ fileset'[f].state \in {"FAILED", fileset[f].state}
    OBVIOUS
  <2>1. Making(g)
    BY <1>4
  <2>2. ~Frees(h, f, t) /\ ~GivesUp(h, f, t)
    BY <2>1 DEF NewInv, MakersAlone, Making, Frees, GivesUp, At
  <2>3. ASSUME Releases(h, f, t) PROVE FALSE
    <3>1. g # h
      BY <2>1, <2>3, <1>4 DEF Releases, Making, Begins, Resting, Keeps, At
    <3>2. ~At(h, "release", "due") \/ f # request[h].f
      BY <2>1, <3>1 DEF NewInv, MakersAlone
    <3>3. h \in Handlers
      BY <2>3, <3>2 DEF Releases, Begins
    <3> QED
      BY <2>1, <3>1, <3>3 DEF NewInv, UsersWork, OneAtATime, Making, At
  <2> QED
    BY <2>2, <2>3 DEF Settles, State, Place
<1>6. UsersWork' /\ DeletedIsGone' /\ ReleasedIsDeleted'
  <2>1. UsersWork'
    BY <1>1 DEF NewInv, UsersWork
  <2>2. DeletedIsGone'
    BY <1>1, <1>2 DEF NewInv, DeletedIsGone, At, TypeInv, RequestsOK, WellFormed
  <2>3. Frees(h, f, t) => ~fileset[f].dir
    BY DEF NewInv, DeletedIsGone, Frees
  <2>4. ReleasedIsDeleted'
    BY <1>2, <2>3 DEF NewInv, ReleasedIsDeleted
  <2> QED
    BY <2>1, <2>2, <2>4
<1>7. CheckedIsNew'
  <2> SUFFICES ASSUME NEW g \in Slots, At(g, "warm", "checked")'
               PROVE  fileset'[request'[g].f].state = "NONE"
    BY DEF CheckedIsNew
  <2>1. At(g, "warm", "checked") /\ request'[g] = request[g]
    BY <1>1 DEF At
  <2> QED
    BY <1>2, <1>3, <2>1 DEF NewInv, CheckedIsNew, At, TypeInv, RequestsOK, WellFormed
<1>8. \/ Exists(t) /\ transfer'[t].kind = transfer[t].kind /\ transfer'[t].fs = transfer[t].fs
      \/ transfer'[t].fs = f /\ Releases(h, f, t)
  <2>1. Releases(h, f, t) => transfer'[t].fs = f
    BY DEF Releases, NewRow
  <2>2. ~Releases(h, f, t) => RowState(t, "SUCCEEDED") \/ RowState(t, "FAILED")
                              \/ RowState(t, "CANCELLED")
    BY DEF Frees, GivesUp, Settles
  <2>3. ~Releases(h, f, t) => Exists(t)
    BY NoTransferAssumption DEF Frees, GivesUp, Settles, TypeInv, RequestsNamed
  <2> QED
    BY <2>1, <2>2, <2>3 DEF RowState
<1>9. NoneIsNew'
  BY <1>0, <1>1, <1>2, <1>3, <1>8 DEF NewInv, NoneIsNew, At, Exists
<1>10. MakersAlone'
  <2> SUFFICES ASSUME NEW g \in Slots, Making(g)'
               PROVE  /\ fileset'[request[g].f].state \notin {"NONE", "RELEASING", "RELEASED"}
                      /\ \A u \in Transfers :
                           Exists(u)' /\ transfer'[u].fs = request[g].f =>
                             /\ transfer'[u].kind = "warm" /\ request[g].op = "warm"
                             /\ u = request[g].t
                      /\ \A i \in Slots \ {g} : request'[i].f # request[g].f
    BY <1>4 DEF MakersAlone
  <2>1. Making(g) /\ request[g].f \in Filesets
    BY <1>4 DEF Making, At, TypeInv, RequestsOK, WellFormed
  <2>2. /\ fileset[request[g].f].state \notin {"NONE", "RELEASING", "RELEASED"}
        /\ \A u \in Transfers :
             Exists(u) /\ transfer[u].fs = request[g].f =>
               transfer[u].kind = "warm" /\ request[g].op = "warm" /\ u = request[g].t
        /\ \A i \in Slots \ {g} : request[i].f # request[g].f
    BY <2>1 DEF NewInv, MakersAlone
  <2>3. fileset'[request[g].f].state \notin {"NONE", "RELEASING", "RELEASED"}
    BY <1>2, <1>5, <2>1, <2>2
  <2>4. \/ request[g].f # f
        \/ ~Releases(h, f, t) /\ UNCHANGED request
        \/ ~Releases(h, f, t) /\ request'[h].f = NoFileset
    BY <1>5 DEF Settles, Releases, RowState, NewRow, Rests, Keeps
  <2>5. \A i \in Slots \ {g} : request'[i].f # request[g].f
    BY <1>0, <1>1, <2>1, <2>2, <2>4
  <2> QED
    BY <1>0, <1>8, <2>1, <2>2, <2>3, <2>4, <2>5 DEF Exists
<1> QED
  BY <1>6, <1>7, <1>9, <1>10 DEF NewInv

\* A directory that was made, or was not.
LEMMA MakingKeepsNew ==
    ASSUME TypeInv, NewInv, NEW h \in Slots, NEW f \in Filesets,
           Created(h, f) \/ NotCreated(h, f) \/ Prepared(h, f) \/ NotPrepared(h, f)
    PROVE  NewInv'
<1>0. /\ NoFileset \notin Filesets /\ UNCHANGED transfer
      /\ Making(h) /\ f = request[h].f
      /\ request'[h].op = "none" /\ request'[h].f = NoFileset
      /\ \A g \in Slots \ {h} : request'[g] = request[g]
      /\ \A g \in Filesets \ {f} : fileset'[g] = fileset[g]
  BY NoFilesetAssumption DEF Created, NotCreated, Prepared, NotPrepared, Making, Place, Rests, Keeps
<1>1. /\ \A g \in Slots \ {h} : request[g].f # f
      /\ fileset[f].state \notin {"NONE", "RELEASING", "RELEASED"}
  BY <1>0 DEF NewInv, MakersAlone
<1>2. \/ fileset'[f].state \in {"READY", "POPULATING", fileset[f].state}
      \/ fileset'[f].state = "NONE" /\ request[h].op = "create"
  BY DEF Created, NotCreated, Prepared, NotPrepared, Place, At
<1>3. \A t \in Transfers : Exists(t) /\ transfer[t].fs = f => request[h].op = "warm"
  BY <1>0 DEF NewInv, MakersAlone
<1>4. NoneIsNew'
  BY <1>0, <1>1, <1>2, <1>3 DEF NewInv, NoneIsNew, At, Exists
<1>5. UsersWork' /\ CheckedIsNew' /\ DeletedIsGone' /\ ReleasedIsDeleted'
  BY <1>0, <1>1, <1>2 DEF NewInv, UsersWork, CheckedIsNew, DeletedIsGone, ReleasedIsDeleted, At,
     TypeInv, RequestsOK, WellFormed
<1>6. MakersAlone'
  <2> SUFFICES ASSUME NEW g \in Slots, Making(g)'
               PROVE  /\ fileset'[request'[g].f].state \notin {"NONE", "RELEASING", "RELEASED"}
                      /\ \A u \in Transfers :
                           Exists(u)' /\ transfer'[u].fs = request'[g].f =>
                             /\ transfer'[u].kind = "warm" /\ request'[g].op = "warm"
                             /\ u = request'[g].t
                      /\ \A i \in Slots \ {g} : request'[i].f # request'[g].f
    BY DEF MakersAlone
  <2>1. g # h /\ Making(g) /\ request'[g] = request[g] /\ request[g].f \in Filesets
    BY <1>0 DEF Making, At, TypeInv, RequestsOK, WellFormed
  <2> QED
    BY <1>0, <1>1, <2>1 DEF NewInv, MakersAlone, Exists
<1> QED
  BY <1>4, <1>5, <1>6 DEF NewInv

\* A request that is refused, asks a daemon to stop, or has its directory deleted.
LEMMA GoingOnKeepsNew ==
    ASSUME TypeInv, NewInv, NEW h \in Slots,
           \/ Refused(h) \/ Stopped(h)
           \/ \E t \in Transfers : AsksToStop(h, t)
           \/ \E f \in Filesets : Deletes(h, f)
    PROVE  NewInv'
<1>0. /\ NoFileset \notin Filesets /\ UNCHANGED transfer
      /\ \A g \in Slots \ {h} : request'[g] = request[g]
      /\ request'[h].f \in {request[h].f, NoFileset}
      /\ \A g \in Filesets : fileset'[g].state = fileset[g].state
  BY NoFilesetAssumption
     DEF Refused, Stopped, AsksToStop, Deletes, Place, Rests, Keeps
<1>1. ~Making(h) /\ ~Making(h)' /\ ~At(h, "warm", "checked")'
  <2>1. ~Making(h)
    <3>1. request[h] = Resting => ~Making(h)
      BY DEF Making, At, Resting
    <3>2. Refused(h) \/ Stopped(h) \/ (\E f \in Filesets : Deletes(h, f)) => ~Making(h)
      BY DEF Refused, Stopped, Deletes, Making, At
    <3> QED
      BY <3>1, <3>2 DEF AsksToStop, Begins
  <2>2. request'[h].op \in {"none", "cancel", "release"}
    BY DEF Refused, Stopped, AsksToStop, Deletes, Rests, Keeps
  <2> QED
    BY <2>1, <2>2 DEF Making, At
<1>2. \A g \in Slots : Making(g)' => Making(g) /\ g # h
  BY <1>0, <1>1 DEF Making, At
<1>3. UsersWork'
  BY <1>0 DEF Refused, Stopped, AsksToStop, Deletes, Rests, Keeps, Begins, NewInv, UsersWork, At
<1>4. NoneIsNew'
  <2>1. At(h, "warm", "checked") => request'[h].f = NoFileset
    BY DEF Refused, Stopped, AsksToStop, Deletes, Rests, Keeps, Begins, Resting, At
  <2> QED
    BY <1>0, <2>1 DEF NewInv, NoneIsNew, At, Exists
<1>5. MakersAlone'
  <2> SUFFICES ASSUME NEW g \in Slots, Making(g)'
               PROVE  /\ fileset'[request'[g].f].state \notin {"NONE", "RELEASING", "RELEASED"}
                      /\ \A u \in Transfers :
                           Exists(u)' /\ transfer'[u].fs = request'[g].f =>
                             /\ transfer'[u].kind = "warm" /\ request'[g].op = "warm"
                             /\ u = request'[g].t
                      /\ \A i \in Slots \ {g} : request'[i].f # request'[g].f
    BY DEF MakersAlone
  <2>1. g # h /\ Making(g) /\ request'[g] = request[g] /\ request[g].f \in Filesets
    BY <1>0, <1>2 DEF Making, At, TypeInv, RequestsOK, WellFormed
  <2> QED
    BY <1>0, <2>1 DEF NewInv, MakersAlone, Exists
<1>6. CheckedIsNew'
  BY <1>0, <1>1 DEF NewInv, CheckedIsNew, At, TypeInv, RequestsOK, WellFormed
<1>7. DeletedIsGone' /\ ReleasedIsDeleted'
  <2>1. ASSUME NEW f \in Filesets, Deletes(h, f) PROVE DeletedIsGone' /\ ReleasedIsDeleted'
    BY <1>0, <2>1 DEF Deletes, Place, Keeps, NewInv, DeletedIsGone, ReleasedIsDeleted, At,
       TypeInv, RequestsOK, WellFormed
  <2>2. CASE \A f \in Filesets : ~Deletes(h, f)
    <3>1. UNCHANGED fileset /\ request'[h].op # "release"
      BY <2>2 DEF Refused, Stopped, AsksToStop, Rests, Keeps
    <3> QED
      BY <1>0, <3>1 DEF NewInv, DeletedIsGone, ReleasedIsDeleted, At
  <2> QED
    BY <2>1, <2>2
<1> QED
  BY <1>3, <1>4, <1>5, <1>6, <1>7 DEF NewInv

\* A report, whoever brings it.
LEMMA ReportKeepsNew ==
    ASSUME TypeInv, NewInv, NEW t, NEW seq, NEW kind, Tells(t, seq, kind),
           \/ UNCHANGED request
           \/ \E h \in Slots : /\ request[h] = Resting /\ transfer[t].kind = "flush"
                               /\ Keeps(h, "release", "due", transfer[t].fs, NoTransfer)
    PROVE  NewInv'
<1> DEFINE f == transfer[t].fs
<1>1. /\ t \in Transfers /\ f \in Filesets /\ Exists(t) /\ Exists(t)'
      /\ transfer'[t].fs = f /\ transfer'[t].kind = transfer[t].kind
      /\ \A u \in Transfers \ {t} : transfer'[u] = transfer[u]
  BY DEF Tells, ToldRunning, ToldAgain, ToldEnd, RowTold, Exists
<1>2. /\ \A g \in Filesets \ {f} : fileset'[g] = fileset[g]
      /\ fileset'[f].dir = fileset[f].dir
      /\ fileset'[f].state \in {"READY", "FAILED", fileset[f].state}
  BY DEF Tells, ToldRunning, ToldAgain, ToldEnd, State, Place
<1>3. fileset[f].state # "NONE" /\ NoFileset \notin Filesets
  BY <1>1, NoFilesetAssumption DEF NewInv, NoneIsNew
<1>4. \/ UNCHANGED request
      \/ \E h \in Slots : /\ request[h] = Resting /\ transfer[t].kind = "flush"
                          /\ request'[h].op = "release" /\ request'[h].at = "due"
                          /\ request'[h].f = f
                          /\ \A g \in Slots \ {h} : request'[g] = request[g]
  BY DEF Keeps
<1> HIDE DEF f
<1>5. UsersWork' /\ DeletedIsGone' /\ ReleasedIsDeleted'
  BY <1>2, <1>4 DEF NewInv, UsersWork, DeletedIsGone, ReleasedIsDeleted, At, TypeInv, RequestsOK,
     WellFormed
<1>6. CheckedIsNew'
  BY <1>2, <1>3, <1>4 DEF NewInv, CheckedIsNew, At, TypeInv, RequestsOK, WellFormed
<1>7. NoneIsNew'
  BY <1>1, <1>2, <1>3, <1>4 DEF NewInv, NoneIsNew, At, Exists, Resting
<1>8. MakersAlone'
  <2> SUFFICES ASSUME NEW g \in Slots, Making(g)'
               PROVE  /\ fileset'[request'[g].f].state \notin {"NONE", "RELEASING", "RELEASED"}
                      /\ \A u \in Transfers :
                           Exists(u)' /\ transfer'[u].fs = request'[g].f =>
                             /\ transfer'[u].kind = "warm" /\ request'[g].op = "warm"
                             /\ u = request'[g].t
                      /\ \A i \in Slots \ {g} : request'[i].f # request'[g].f
    BY DEF MakersAlone
  <2>1. Making(g) /\ request'[g] = request[g] /\ request[g].f \in Filesets
    BY <1>4 DEF Making, At, TypeInv, RequestsOK, WellFormed
  <2>2. transfer[t].kind = "flush" => f # request[g].f
    BY <1>1, <2>1 DEF NewInv, MakersAlone, f
  <2>3. \A i \in Slots \ {g} : request'[i].f # request'[g].f
    BY <1>4, <2>1, <2>2 DEF NewInv, MakersAlone
  <2> QED
    BY <1>1, <1>2, <2>1, <2>3 DEF NewInv, MakersAlone, Exists, f
<1> QED
  BY <1>5, <1>6, <1>7, <1>8 DEF NewInv

\* Every step keeps what is said of new filesets.
LEMMA NewStep ==
    ASSUME TypeInv, NewInv, [Next]_vars, OneAtATime, "refresh" \notin Ops
    PROVE  NewInv'
<1>1. CASE UNCHANGED vars
  BY <1>1, SameKeepsNew DEF vars, controllerVars, Exists
<1>2. ASSUME NEW h \in Slots, Requested(h) PROVE NewInv'
  <2>1. ASSUME NEW t \in Transfers, Settles(h, t) PROVE transfer[t].fs \in Filesets
    BY <2>1 DEF Settles, TypeInv, TransfersOK
  <2>2. ASSUME NEW t \in Transfers, Settles(h, t) PROVE NewInv'
    BY <2>1, <2>2, MovingKeepsNew
  <2> QED
    BY <1>2, <2>2, BeginningKeepsNew, SubmittingKeepsNew, MovingKeepsNew, MakingKeepsNew,
       GoingOnKeepsNew DEF Requested
<1>3. ASSUME PassStep PROVE NewInv'
  <2>1. UNCHANGED <<fileset, request>>
    BY <1>3, PassColumns
  <2>2. ASSUME NEW t \in Transfers, Exists(t)'
        PROVE  /\ Exists(t) /\ transfer'[t].kind = transfer[t].kind
               /\ transfer'[t].fs = transfer[t].fs
    BY <1>3, <2>2, PassColumns DEF Reads, HandsOver, PassesBy, Writes, Exists, TypeInv, PassNamed
  <2> QED
    BY <2>1, <2>2, SameKeepsNew
<1>4. ASSUME EventStep PROVE NewInv'
  <2>1. UNCHANGED <<transfer, fileset, request>> => NewInv'
    BY SameKeepsNew DEF Exists
  <2> QED
    BY <1>4, <2>1, EventColumns, ReportKeepsNew DEF NextRelease
<1>5. ASSUME RestartStep PROVE NewInv'
  <2>1. UNCHANGED <<transfer, fileset, request>> => NewInv'
    BY SameKeepsNew DEF Exists
  <2>2. ControllerLost => NewInv'
    BY NoFilesetAssumption DEF ControllerLost, Resting, NewInv, UsersWork, NoneIsNew, MakersAlone,
       Making, CheckedIsNew, DeletedIsGone, ReleasedIsDeleted, At, Exists
  <2>3. ASSUME NEW t \in Transfers, Exists(t), RowState(t, "SUBMITTED"),
               UNCHANGED <<fileset, request>>
        PROVE  NewInv'
    BY <2>3, SameKeepsNew DEF RowState, Exists
  <2>4. recovery \subseteq Transfers
    BY DEF TypeInv, RestartOK
  <2> QED
    BY <1>5, <2>1, <2>2, <2>3, <2>4, RestartColumns, ReportKeepsNew DEF DaemonLost, Reconciled
<1>6. ASSUME NEW k \in TaskIds, DaemonStep(k) PROVE NewInv'
  BY <1>6, SameKeepsNew DEF DaemonStep, controllerVars, Exists
<1> QED
  BY <1>1, <1>2, <1>3, <1>4, <1>5, <1>6, RequestColumns, AnswerColumns DEF Next, Slots

\* As long as a user asks for one thing after another, and warms nothing again, a fileset
\* that is released has had its directory deleted, in whatever surroundings
\* (services/release.py, services/warm.py): two requests at once can make a directory
\* in a fileset that is being released.
THEOREM DeletedFirst ==
    ASSUME OneAtATime, "refresh" \notin Ops
    PROVE  Spec => []ReleasedIsDeleted
<1>1. Init => NewInv
  BY NoFilesetAssumption DEF Init, Resting, NewInv, UsersWork, NoneIsNew, MakersAlone, Making,
     CheckedIsNew, DeletedIsGone, ReleasedIsDeleted, At, NoRow, Exists
<1>2. TypeInv /\ NewInv /\ [Next]_vars => NewInv'
  BY NewStep
<1>3. NewInv => ReleasedIsDeleted
  BY DEF NewInv
<1> QED
  BY <1>1, <1>2, <1>3, TypeInvariant, PTL DEF Spec

-----------------------------------------------------------------------------
(* The rows of releases, as long as nobody may cancel them.                *)

\* A release is no business of the scheduler or of a daemon's tasks.
ReleasesAside ==
    \A t \in Transfers :
      Exists(t) /\ transfer[t].kind = "release" =>
        transfer[t].state # "SUBMITTED" /\ Untouched(t)

\* The row of a release that has begun is running, and its request's alone.
ReleaseRuns ==
    \A h \in Slots :
      Releasing(h) =>
        /\ request[h].t \in Transfers
        /\ transfer[request[h].t].kind = "release"
        /\ transfer[request[h].t].state = "RUNNING"
        /\ \A g \in Slots \ {h} : Releasing(g) => request[g].t # request[h].t

\* The rows of releases, as long as nobody may cancel them.
ReleaseInv == ReleasesAside /\ ReleaseRuns

\* What a request does to rows: it inserts one, cancels one, or ends its own release.
LEMMA RequestRows ==
    ASSUME NEW h \in Slots, Requested(h)
    PROVE  \/ UNCHANGED transfer
           \/ \E t \in Transfers, f \in Filesets, kind \in {"warm", "flush"} :
                NewRow(t, kind, f, "SUBMITTED") /\ ~Releasing(h)'
           \/ \E t \in Transfers, f \in Filesets : Releases(h, f, t)
           \/ \E t \in Transfers : Settles(h, t)
           \/ \E t \in Transfers, f \in Filesets : Frees(h, f, t) \/ GivesUp(h, f, t)
<1>1. ASSUME NEW t \in Transfers, NEW f \in Filesets, Warms(h, f, t) \/ Flushes(h, f, t)
      PROVE  \E kind \in {"warm", "flush"} :
               NewRow(t, kind, f, "SUBMITTED") /\ ~Releasing(h)'
  BY <1>1 DEF Warms, Flushes, Rests, Keeps, Releasing
<1> QED
  BY <1>1 DEF Requested, Creates, LooksToWarm, LooksToFlush, Refused, AsksToStop, Stopped, Created,
     NotCreated, Prepared, NotPrepared, Deletes

\* Which requests are releasing after a step of one.
LEMMA RequestReleasing ==
    ASSUME NEW h \in Slots, Requested(h), NEW g \in Slots, Releasing(g)'
    PROVE  \/ Releasing(g) /\ request'[g].t = request[g].t
              /\ (g = h => \A t \in Transfers, f \in Filesets : ~Frees(h, f, t) /\ ~GivesUp(h, f, t))
           \/ g = h /\ \E t \in Transfers, f \in Filesets : Releases(h, f, t) /\ request'[g].t = t
<1>1. CASE g # h
  <2>1. request'[g] = request[g]
    BY <1>1 DEF Requested, Creates, LooksToWarm, LooksToFlush, Warms, Flushes, Releases, Settles,
       AsksToStop, Refused, Stopped, Created, NotCreated, Prepared, NotPrepared, Deletes,
       Frees, GivesUp, Rests, Keeps
  <2> QED
    BY <1>1, <2>1 DEF Releasing
<1>2. CASE g = h
  <2>1. ASSUME NEW f \in Filesets, NEW t \in Transfers, Releases(h, f, t)
        PROVE  request'[h].t = t
    BY <2>1 DEF Releases, Keeps
  <2>2. ASSUME NEW f \in Filesets, Deletes(h, f)
        PROVE  Releasing(h) /\ request'[h].t = request[h].t
    BY <2>2 DEF Deletes, Keeps, Releasing, At
  <2>3. ASSUME NEW t \in Transfers, Settles(h, t)
        PROVE  Releasing(h) /\ request'[h].t = request[h].t
    BY <1>2, <2>3 DEF Settles, Rests, Keeps, Releasing
  <2>4. ASSUME NEW f \in Filesets
        PROVE  /\ ~Creates(h, f) /\ ~LooksToWarm(h, f) /\ ~LooksToFlush(h, f)
               /\ ~Created(h, f) /\ ~NotCreated(h, f) /\ ~Prepared(h, f) /\ ~NotPrepared(h, f)
    BY <1>2 DEF Creates, LooksToWarm, LooksToFlush, Created, NotCreated, Prepared, NotPrepared,
       Rests, Keeps, Releasing
  <2>5. /\ ~Refused(h) /\ ~Stopped(h)
        /\ \A t \in Transfers : ~AsksToStop(h, t)
        /\ \A f \in Filesets, t \in Transfers :
             ~Warms(h, f, t) /\ ~Flushes(h, f, t) /\ ~Frees(h, f, t) /\ ~GivesUp(h, f, t)
    BY <1>2 DEF Refused, Stopped, AsksToStop, Warms, Flushes, Frees, GivesUp, Rests, Keeps,
       Releasing
  <2>6. \/ \E f \in Filesets, t \in Transfers : Releases(h, f, t)
        \/ \E f \in Filesets : Deletes(h, f)
        \/ \E t \in Transfers : Settles(h, t)
    BY <2>4, <2>5 DEF Requested
  <2> QED
    BY <1>2, <2>1, <2>2, <2>3, <2>5, <2>6
<1> QED
  BY <1>1, <1>2

\* A request keeps the rows of releases.
LEMMA RequestKeepsReleaseRows ==
    ASSUME TypeInv, ReleaseInv, "cancel" \notin Ops, AtWork, NEW h \in Slots, Aside,
           Requested(h)
    PROVE  ReleaseInv'
<1>0. \A t \in Transfers : ~Settles(h, t)
  BY RequestsAtWork
<1>1. ASSUME NEW t \in Transfers, NEW f \in Filesets, Frees(h, f, t) \/ GivesUp(h, f, t)
      PROVE  /\ Releasing(h) /\ t = request[h].t
             /\ transfer[t].kind = "release" /\ transfer[t].state = "RUNNING"
             /\ RowState(t, "SUCCEEDED") \/ RowState(t, "FAILED")
  BY <1>1 DEF Frees, GivesUp, At, Releasing, ReleaseInv, ReleaseRuns
<1>2. ASSUME NEW t \in Transfers
      PROVE  \/ transfer'[t] = transfer[t]
             \/ ~Exists(t) /\ transfer'[t].state \in {"SUBMITTED", "RUNNING"}
                /\ (transfer'[t].kind = "release" => transfer'[t].state = "RUNNING")
             \/ /\ Releasing(h) /\ t = request[h].t
                /\ transfer[t].kind = "release" /\ transfer[t].state = "RUNNING"
                /\ RowState(t, "SUCCEEDED") \/ RowState(t, "FAILED")
                /\ \E f \in Filesets : Frees(h, f, t) \/ GivesUp(h, f, t)
  BY <1>0, <1>1, RequestRows DEF NewRow, Releases, RowState
<1>3. ReleasesAside'
  <2> SUFFICES ASSUME NEW t \in Transfers, Exists(t)', transfer'[t].kind = "release"
               PROVE  transfer'[t].state # "SUBMITTED" /\ Untouched(t)'
    BY DEF ReleasesAside
  <2>1. Untouched(t)
    BY <1>2, NewIsUntouched DEF ReleaseInv, ReleasesAside, Exists
  <2>2. transfer'[t].state # "SUBMITTED"
    BY <1>2 DEF ReleaseInv, ReleasesAside, Exists, RowState
  <2> QED
    BY <2>1, <2>2, AsideUntouched
<1>4. ReleaseRuns'
  <2> SUFFICES ASSUME NEW g \in Slots, Releasing(g)'
               PROVE  /\ request'[g].t \in Transfers
                      /\ transfer'[request'[g].t].kind = "release"
                      /\ transfer'[request'[g].t].state = "RUNNING"
                      /\ \A i \in Slots \ {g} : Releasing(i)' => request'[i].t # request'[g].t
    BY DEF ReleaseRuns
  <2>1. ASSUME NEW t \in Transfers, NEW f \in Filesets, Releases(h, f, t),
               NEW i \in Slots, Releasing(i)
        PROVE  request[i].t # t
    BY <2>1, NoTransferAssumption
       DEF Releases, NewRow, TypeInv, RequestsNamed, ReleaseInv, ReleaseRuns
  <2>2. CASE /\ Releasing(g) /\ request'[g].t = request[g].t
             /\ g = h => \A t \in Transfers, f \in Filesets : ~Frees(h, f, t) /\ ~GivesUp(h, f, t)
    <3> DEFINE t == request[g].t
    <3>1. /\ t \in Transfers /\ transfer[t].kind = "release" /\ transfer[t].state = "RUNNING"
          /\ \A i \in Slots \ {g} : Releasing(i) => request[i].t # t
      BY <2>2 DEF ReleaseInv, ReleaseRuns
    <3>2. transfer'[t] = transfer[t]
      BY <1>2, <2>2, <3>1 DEF Exists
    <3>3. ASSUME NEW i \in Slots \ {g}, Releasing(i)' PROVE request'[i].t # t
      BY <2>1, <2>2, <3>1, <3>3, RequestReleasing
    <3> QED
      BY <2>2, <3>1, <3>2, <3>3
  <2>3. CASE g = h /\ \E t \in Transfers, f \in Filesets : Releases(h, f, t) /\ request'[g].t = t
    <3>1. PICK t \in Transfers, f \in Filesets : Releases(h, f, t) /\ request'[g].t = t
      BY <2>3
    <3>2. transfer'[t].kind = "release" /\ transfer'[t].state = "RUNNING"
      BY <3>1 DEF Releases, NewRow
    <3>3. ASSUME NEW i \in Slots \ {g}, Releasing(i)' PROVE request'[i].t # t
      BY <2>1, <2>3, <3>1, <3>3, RequestReleasing
    <3> QED
      BY <3>1, <3>2, <3>3
  <2> QED
    BY <2>2, <2>3, RequestReleasing
<1> QED
  BY <1>3, <1>4 DEF ReleaseInv

\* Rows of releases are left to their requests by all the rest.
LEMMA OthersKeepReleaseRows ==
    ASSUME TypeInv, ReleaseInv, OneTaskInv, "controller_crash" \notin Env,
           PassStep \/ EventStep \/ RestartStep \/ \E k \in TaskIds : DaemonStep(k)
    PROVE  ReleaseInv'
<1>0. ~Reconciled /\ ~ControllerLost
  BY DEF OneTaskInv, Reconciled, ControllerLost
<1>2. ASSUME NEW t \in Transfers, Exists(t), transfer[t].kind = "release"
      PROVE  transfer'[t] = transfer[t] /\ Untouched(t)'
  <2>1. transfer[t].state # "SUBMITTED" /\ Untouched(t)
    BY <1>2 DEF ReleaseInv, ReleasesAside
  <2>2. \A chosen : Reads(chosen) => t \notin chosen
    BY <2>1 DEF Reads
  <2> QED
    BY <1>0, <2>1, <2>2, UntouchedStays
<1>3. ReleasesAside'
  <2>1. \A t \in Transfers : Exists(t)' =>
           Exists(t) /\ transfer'[t].kind = transfer[t].kind
    <3>1. ASSUME PassStep, NEW t \in Transfers, Exists(t)'
          PROVE  Exists(t) /\ transfer'[t].kind = transfer[t].kind
      BY <3>1, PassColumns DEF Reads, HandsOver, PassesBy, Writes, Exists, TypeInv, PassNamed
    <3>2. ASSUME EventStep, NEW t \in Transfers, Exists(t)'
          PROVE  Exists(t) /\ transfer'[t].kind = transfer[t].kind
      BY <3>2, EventColumns DEF Tells, ToldRunning, ToldAgain, ToldEnd, RowTold, Exists
    <3>3. RestartStep => UNCHANGED transfer
      BY <1>0, RestartColumns DEF DaemonLost
    <3>4. ASSUME NEW k \in TaskIds, DaemonStep(k) PROVE UNCHANGED transfer
      BY <3>4 DEF DaemonStep, controllerVars
    <3> QED
      BY <3>1, <3>2, <3>3, <3>4 DEF Exists
  <2> QED
    BY <1>2, <2>1 DEF ReleaseInv, ReleasesAside
<1>4. ReleaseRuns'
  <2>1. UNCHANGED request \/ \E e \in events, h \in Slots : NextRelease(h, e)
    BY <1>0, PassColumns, EventColumns, RestartColumns DEF DaemonLost, DaemonStep, controllerVars
  <2>2. \A h \in Slots : Releasing(h)' => Releasing(h) /\ request'[h] = request[h]
    BY <2>1 DEF NextRelease, Keeps, Releasing
  <2>3. ASSUME NEW t \in Transfers, transfer[t].kind = "release", transfer[t].state = "RUNNING"
        PROVE  transfer'[t] = transfer[t]
    BY <1>2, <2>3 DEF Exists
  <2> QED
    BY <2>2, <2>3 DEF ReleaseInv, ReleaseRuns
<1> QED
  BY <1>3, <1>4 DEF ReleaseInv

\* Every step keeps the rows of releases.
LEMMA ReleaseRowsStep ==
    ASSUME TypeInv, ReleaseInv, OneTaskInv, AtWork, [Next]_vars, "cancel" \notin Ops,
           "controller_crash" \notin Env
    PROVE  ReleaseInv'
<1>1. CASE UNCHANGED vars
  BY <1>1 DEF vars, controllerVars, daemonVars, ReleaseInv, ReleasesAside, ReleaseRuns,
     Untouched, Idle, Exists, Releasing
<1>2. CASE Next
  BY <1>2, RequestColumns, AnswerColumns, RequestKeepsReleaseRows, OthersKeepReleaseRows DEF Next, Slots
<1> QED
  BY <1>1, <1>2

-----------------------------------------------------------------------------
(* An end is final, in whatever surroundings.                              *)

\* While the controller is down nobody works, and no pass is under way; reconciliation
\* has nothing to look at once it is up.
Down ==
    /\ ~up => /\ \A h \in Slots : request[h].op = "none"
              /\ todo = {} /\ \A t \in Transfers : sent[t] = 0
    /\ up => recovery = {}

\* What a pass offers or has handed over was waiting; since then it may have failed, or
\* been cancelled, but it cannot have been started or have succeeded.
HandedRows ==
    \A t \in Transfers : HandedOver(t) => transfer[t].state \in {"SUBMITTED", "FAILED", "CANCELLED"}

\* The row of a release runs or has ended, and is no business of passes, tasks, reports
\* or, once it has ended, reconciliation.
ReleaseRows ==
    \A t \in Transfers :
      Exists(t) /\ transfer[t].kind = "release" =>
        /\ transfer[t].state \in {"RUNNING"} \cup Terminal
        /\ transfer[t].task = 0
        /\ Untouched(t)
        /\ t \in recovery => transfer[t].state = "RUNNING"

\* The invariant behind EndIsFinal.
EndInv == Down /\ HandedRows /\ ReleaseRows /\ OwnInv

\* What EndIsFinal says of one transfer.
StaysEnded(t) ==
    transfer[t].state \in Terminal =>
      /\ transfer'[t].state # transfer[t].state =>
           \/ transfer[t].state = "FAILED" /\ transfer'[t].state = "SUBMITTED"
           \/ /\ transfer[t].state # "SUCCEEDED" /\ transfer'[t].state = "ASSIGNED"
              /\ HandedOver(t) /\ ~HandedOver(t)'
           \/ Writers(t)' # Writers(t)
      /\ HandedOver(t)' => HandedOver(t)
      /\ Writers(t)' \subseteq Writers(t)

\* No request takes up a transfer that has ended.
LEMMA RequestWriters ==
    ASSUME NEW h \in Slots, Requested(h), NEW t \in Transfers, transfer[t].state \in Terminal
    PROVE  Writers(t)' \subseteq Writers(t)
<1> SUFFICES ASSUME NEW g \in Slots, request'[g].t = t, request'[g].op \in {"cancel", "release"}
             PROVE  request[g].t = t /\ request[g].op \in {"cancel", "release"}
  BY DEF Writers
<1>1. CASE request'[g] = request[g]
  BY <1>1
<1>2. CASE request'[g] # request[g]
  <2>1. g = h
    BY <1>2, OthersRest
  <2>2. ASSUME NEW f \in Filesets, NEW u \in Transfers, Releases(h, f, u) PROVE FALSE
    BY <2>1, <2>2 DEF Releases, NewRow, Keeps, Exists, Terminal
  <2>3. ASSUME NEW u \in Transfers, AsksToStop(h, u) PROVE FALSE
    BY <2>1, <2>3 DEF AsksToStop, Keeps
  <2>4. ASSUME NEW f \in Filesets, Stopped(h) \/ Deletes(h, f)
        PROVE  request[g].t = t /\ request[g].op \in {"cancel", "release"}
    BY <2>1, <2>4 DEF Stopped, Deletes, Keeps, At
  <2>5. CASE Stopped(h)
    BY <2>1, <2>5 DEF Stopped, Keeps, At
  <2> QED
    BY <1>2, <2>1, <2>2, <2>3, <2>4, <2>5
       DEF Requested, Creates, LooksToWarm, LooksToFlush, Warms, Flushes, Settles, Refused,
           Created, NotCreated, Prepared, NotPrepared, Frees, GivesUp, Keeps, Rests
<1> QED
  BY <1>1, <1>2

\* Nobody asks for anything while the controller is down.
LEMMA RequestsUp ==
    ASSUME Down, RestartOK, NEW h \in Slots, Requested(h)
    PROVE  up
BY DEF Down, RestartOK, Requested, Creates, LooksToWarm, LooksToFlush, Begins, Warms, Flushes,
   Releases, Settles, AsksToStop, Refused, Stopped, Created, NotCreated, Prepared, NotPrepared,
   Deletes, Frees, GivesUp, At

\* A request keeps the invariant, and leaves ends to those who had read the row.
LEMMA RequestKeepsEnds ==
    ASSUME TypeInv, EndInv, OwnInv', NEW h \in Slots, Aside, Requested(h)
    PROVE  EndInv' /\ \A t \in Transfers : StaysEnded(t)
<1>1. up /\ up' /\ recovery = {} /\ recovery' = {}
  BY RequestsUp DEF EndInv, Down, Aside, TypeInv
<1>2. \A t \in Transfers : HandedOver(t)' <=> HandedOver(t)
  BY DEF Aside, HandedOver
<1>3. ASSUME NEW t \in Transfers, NEW f \in Filesets, Frees(h, f, t) \/ GivesUp(h, f, t)
      PROVE  /\ Exists(t) /\ transfer[t].kind = "release"
             /\ h \in Writers(t) /\ h \notin Writers(t)'
             /\ RowState(t, "SUCCEEDED") \/ RowState(t, "FAILED")
  <2>1. Releasing(h) /\ t = request[h].t /\ request'[h].op = "none"
    BY <1>3 DEF Frees, GivesUp, At, Releasing, Rests, Keeps
  <2> QED
    BY <1>3, <2>1 DEF Frees, GivesUp, EndInv, OwnInv, Owns, Writers, Releasing
<1>4. ASSUME NEW t \in Transfers, Settles(h, t)
      PROVE  /\ Exists(t) /\ RowState(t, "CANCELLED")
             /\ transfer[t].state \in Terminal => h \in Writers(t) /\ h \notin Writers(t)'
  BY <1>4 DEF Settles, At, Writers, Rests, Keeps
<1>5. ASSUME NEW t \in Transfers
      PROVE  \/ transfer'[t] = transfer[t]
             \/ /\ ~Exists(t) /\ transfer'[t].state \in {"SUBMITTED", "RUNNING"}
                /\ transfer'[t].task = 0
                /\ transfer'[t].kind = "release" => transfer'[t].state = "RUNNING"
             \/ /\ Exists(t) /\ RowState(t, "CANCELLED")
                /\ transfer[t].state \in Terminal => Writers(t)' # Writers(t)
             \/ /\ Exists(t) /\ transfer[t].kind = "release" /\ Writers(t)' # Writers(t)
                /\ RowState(t, "SUCCEEDED") \/ RowState(t, "FAILED")
  <2>1. CASE UNCHANGED transfer
    BY <2>1
  <2>2. ASSUME NEW u \in Transfers, NEW f \in Filesets, NEW kind \in {"warm", "flush"},
               NewRow(u, kind, f, "SUBMITTED")
        PROVE  \/ transfer'[t] = transfer[t]
               \/ /\ ~Exists(t) /\ transfer'[t].state \in {"SUBMITTED", "RUNNING"}
                  /\ transfer'[t].task = 0
                  /\ transfer'[t].kind = "release" => transfer'[t].state = "RUNNING"
    BY <2>2 DEF NewRow
  <2>3. ASSUME NEW u \in Transfers, NEW f \in Filesets, Releases(h, f, u)
        PROVE  \/ transfer'[t] = transfer[t]
               \/ /\ ~Exists(t) /\ transfer'[t].state \in {"SUBMITTED", "RUNNING"}
                  /\ transfer'[t].task = 0
                  /\ transfer'[t].kind = "release" => transfer'[t].state = "RUNNING"
    BY <2>3 DEF Releases, NewRow
  <2>4. ASSUME NEW u \in Transfers, Settles(h, u)
        PROVE  \/ transfer'[t] = transfer[t]
               \/ /\ Exists(t) /\ RowState(t, "CANCELLED")
                  /\ transfer[t].state \in Terminal => Writers(t)' # Writers(t)
    <3>1. CASE t = u
      BY <1>4, <2>4, <3>1
    <3>2. CASE t # u
      BY <2>4, <3>2 DEF Settles, RowState
    <3> QED
      BY <3>1, <3>2
  <2>5. ASSUME NEW u \in Transfers, NEW f \in Filesets, Frees(h, f, u) \/ GivesUp(h, f, u)
        PROVE  \/ transfer'[t] = transfer[t]
               \/ /\ Exists(t) /\ transfer[t].kind = "release" /\ Writers(t)' # Writers(t)
                  /\ RowState(t, "SUCCEEDED") \/ RowState(t, "FAILED")
    <3>1. CASE t = u
      BY <1>3, <2>5, <3>1
    <3>2. CASE t # u
      BY <2>5, <3>2 DEF Frees, GivesUp, RowState
    <3> QED
      BY <3>1, <3>2
  <2> QED
    BY <2>1, <2>2, <2>3, <2>4, <2>5, RequestRows
<1>6. \A t \in Transfers : StaysEnded(t)
  BY <1>2, <1>5, RequestWriters DEF StaysEnded, Terminal, Exists
<1>7. Down'
  BY <1>1 DEF Down
<1>8. HandedRows'
  <2> SUFFICES ASSUME NEW t \in Transfers, HandedOver(t)
               PROVE  transfer'[t].state \in {"SUBMITTED", "FAILED", "CANCELLED"}
    BY <1>2 DEF HandedRows
  <2>1. Exists(t) /\ transfer[t].state \in {"SUBMITTED", "FAILED", "CANCELLED"}
    BY DEF HandedOver, TypeInv, PassNamed, EndInv, HandedRows
  <2>2. transfer[t].kind # "release"
    BY <2>1 DEF EndInv, ReleaseRows, Untouched, HandedOver
  <2> QED
    BY <1>5, <2>1, <2>2 DEF RowState
<1>9. ReleaseRows'
  <2> SUFFICES ASSUME NEW t \in Transfers, Exists(t)', transfer'[t].kind = "release"
               PROVE  /\ transfer'[t].state \in {"RUNNING"} \cup Terminal
                      /\ transfer'[t].task = 0
                      /\ Untouched(t)'
    BY <1>1 DEF ReleaseRows
  <2>1. Untouched(t)
    BY <1>5, NewIsUntouched DEF EndInv, ReleaseRows, RowState, Exists
  <2>2. transfer'[t].state \in {"RUNNING"} \cup Terminal /\ transfer'[t].task = 0
    BY <1>5 DEF EndInv, ReleaseRows, RowState, Terminal, Exists
  <2> QED
    BY <2>1, <2>2, AsideUntouched
<1> QED
  BY <1>6, <1>7, <1>8, <1>9 DEF EndInv

\* So does reconciliation: of what had ended it only offers failures again.
LEMMA ReconciledKeepsEnds ==
    ASSUME TypeInv, EndInv, OwnInv', Reconciled
    PROVE  EndInv' /\ \A t \in Transfers : StaysEnded(t)
<1>1. /\ ~up /\ recovery' \subseteq recovery /\ (up' => recovery' = {})
      /\ UNCHANGED <<task, events, request, todo, sent>>
  BY DEF Reconciled, daemonVars
<1>2. \A t \in Transfers : ~HandedOver(t) /\ ~HandedOver(t)' /\ Writers(t)' = Writers(t)
  BY <1>1 DEF EndInv, Down, HandedOver, Writers
<1>3. ASSUME NEW t \in Transfers
      PROVE  \/ transfer'[t] = transfer[t]
             \/ /\ t \in recovery /\ Exists(t)
                /\ transfer'[t].state = "SUBMITTED"
                /\ transfer[t].state \in {"ASSIGNED", "FAILED"} /\ transfer[t].task = 0
                /\ transfer'[t].kind = transfer[t].kind
             \/ /\ t \in recovery /\ Exists(t) /\ transfer[t].task # 0
                /\ transfer[t].state \in Terminal /\ transfer'[t].state # transfer[t].state =>
                     transfer[t].state = "FAILED" /\ transfer'[t].state = "SUBMITTED"
                /\ transfer'[t].kind = transfer[t].kind
  <2>1. CASE UNCHANGED <<transfer, fileset>>
    BY <2>1
  <2>2. ASSUME NEW u \in recovery, Exists(u), transfer[u].task = 0,
               transfer[u].state \in {"ASSIGNED", "FAILED"}, RowState(u, "SUBMITTED")
        PROVE  \/ transfer'[t] = transfer[t]
               \/ /\ t \in recovery /\ Exists(t)
                  /\ transfer'[t].state = "SUBMITTED"
                  /\ transfer[t].state \in {"ASSIGNED", "FAILED"} /\ transfer[t].task = 0
                  /\ transfer'[t].kind = transfer[t].kind
    BY <2>2 DEF RowState
  <2>3. ASSUME NEW u \in recovery, NEW seq \in Nat, NEW kind \in {"finished", "failed"},
               transfer[u].task # 0, Tells(u, seq, kind)
        PROVE  \/ transfer'[t] = transfer[t]
               \/ /\ t \in recovery /\ Exists(t) /\ transfer[t].task # 0
                  /\ transfer[t].state \in Terminal /\ transfer'[t].state # transfer[t].state =>
                       transfer[t].state = "FAILED" /\ transfer'[t].state = "SUBMITTED"
                  /\ transfer'[t].kind = transfer[t].kind
    <3>1. CASE t # u
      BY <2>3, <3>1 DEF Tells, ToldRunning, ToldAgain, ToldEnd, RowTold
    <3>2. CASE t = u
      BY <2>3, <3>2 DEF Tells, ToldRunning, ToldAgain, ToldEnd, RowTold, Terminal, InFlight
    <3> QED
      BY <3>1, <3>2
  <2> QED
    BY <2>1, <2>2, <2>3 DEF Reconciled
<1>4. \A t \in Transfers : StaysEnded(t)
  BY <1>2, <1>3 DEF StaysEnded, Terminal
<1>5. Down' /\ HandedRows'
  BY <1>1, <1>2 DEF EndInv, Down, HandedRows
<1>6. ReleaseRows'
  <2> SUFFICES ASSUME NEW t \in Transfers, Exists(t)', transfer'[t].kind = "release"
               PROVE  /\ transfer'[t].state \in {"RUNNING"} \cup Terminal
                      /\ transfer'[t].task = 0
                      /\ Untouched(t)'
                      /\ t \in recovery' => transfer'[t].state = "RUNNING"
    BY DEF ReleaseRows
  <2>1. Exists(t) /\ transfer[t].kind = "release"
    BY <1>3 DEF Exists
  <2>2. /\ transfer[t].state \in {"RUNNING"} \cup Terminal /\ transfer[t].task = 0
        /\ Untouched(t) /\ (t \in recovery => transfer[t].state = "RUNNING")
    BY <2>1 DEF EndInv, ReleaseRows
  <2>3. transfer'[t] = transfer[t]
    BY <1>3, <2>2
  <2> QED
    BY <1>1, <2>2, <2>3 DEF Untouched, Idle
<1> QED
  BY <1>4, <1>5, <1>6 DEF EndInv

\* Reports, passes, daemons and crashes leave ends alone, but for a pass at its commit.
LEMMA OthersKeepEnds ==
    ASSUME TypeInv, EndInv, OwnInv', ~Reconciled, RowsPlaced,
           PassStep \/ EventStep \/ RestartStep \/ \E k \in TaskIds : DaemonStep(k)
    PROVE  EndInv' /\ \A t \in Transfers : StaysEnded(t)
<1>1. ASSUME NEW t \in Transfers, Exists(t), transfer[t].kind = "release"
      PROVE  transfer'[t] = transfer[t] /\ Untouched(t)'
  <2>1. transfer[t].state # "SUBMITTED" /\ Untouched(t)
    BY <1>1 DEF EndInv, ReleaseRows, Terminal
  <2>2. \A chosen : Reads(chosen) => t \notin chosen
    BY <2>1 DEF Reads
  <2> QED
    BY <2>1, <2>2, UntouchedStays
<1>2. ASSUME \A t \in Transfers : Exists(t)' => Exists(t),
             recovery' = recovery \/ recovery' = {t \in Transfers : transfer[t].state \in InFlight}
      PROVE  ReleaseRows'
  <2> SUFFICES ASSUME NEW t \in Transfers, Exists(t)', transfer'[t].kind = "release"
               PROVE  /\ transfer'[t].state \in {"RUNNING"} \cup Terminal
                      /\ transfer'[t].task = 0
                      /\ Untouched(t)'
                      /\ t \in recovery' => transfer'[t].state = "RUNNING"
    BY DEF ReleaseRows
  <2>1. Exists(t) /\ transfer[t].kind = "release"
    BY <1>2 DEF RowsPlaced
  <2>2. /\ transfer[t].state \in {"RUNNING"} \cup Terminal /\ transfer[t].task = 0
        /\ t \in recovery => transfer[t].state = "RUNNING"
    BY <2>1 DEF EndInv, ReleaseRows
  <2>3. t \in recovery' => transfer[t].state = "RUNNING"
    BY <1>2, <2>2 DEF InFlight, Terminal
  <2> QED
    BY <1>1, <2>1, <2>2, <2>3
<1>3. ASSUME PassStep PROVE EndInv' /\ \A t \in Transfers : StaysEnded(t)
  <2>1. /\ UNCHANGED <<events, fileset, request, up, recovery>>
        /\ \/ \E chosen \in SUBSET Transfers : Reads(chosen)
           \/ \E t \in Transfers, k \in TaskIds : HandsOver(t, k)
           \/ \E t \in Transfers : PassesBy(t)
           \/ Writes
    BY <1>3, PassColumns
  <2>2. up
    <3>1. \/ up \/ todo # {} \/ \E t \in Transfers : sent[t] # 0
      BY <1>3 DEF PassStep, PassBegin, PassStart, PassReplyLost, PassRefused, PassCommit, Passing
    <3> QED
      BY <3>1 DEF EndInv, Down
  <2>3. Down'
    BY <2>1, <2>2 DEF EndInv, Down
  <2>4. ASSUME NEW t \in Transfers
        PROVE  /\ \/ HandedOver(t)' => HandedOver(t)
                  \/ transfer[t].state = "SUBMITTED"
               /\ \/ transfer'[t] = transfer[t]
                  \/ /\ HandedOver(t) /\ ~HandedOver(t)'
                     /\ transfer'[t].state = "ASSIGNED"
    <3>1. ASSUME NEW chosen \in SUBSET Transfers, Reads(chosen)
          PROVE  /\ transfer'[t] = transfer[t]
                 /\ HandedOver(t)' => transfer[t].state = "SUBMITTED"
      BY <3>1 DEF Reads, HandedOver
    <3>2. ASSUME NEW u \in Transfers, NEW k \in TaskIds, HandsOver(u, k)
          PROVE  transfer'[t] = transfer[t] /\ (HandedOver(t)' => HandedOver(t))
      BY <3>2 DEF HandsOver, HandedOver
    <3>3. ASSUME NEW u \in Transfers, PassesBy(u)
          PROVE  transfer'[t] = transfer[t] /\ (HandedOver(t)' => HandedOver(t))
      BY <3>3 DEF PassesBy, HandedOver
    <3>4. ASSUME Writes
          PROVE  /\ ~HandedOver(t)'
                 /\ \/ transfer'[t] = transfer[t]
                    \/ HandedOver(t) /\ transfer'[t].state = "ASSIGNED"
      BY <3>4 DEF Writes, HandedOver
    <3> QED
      BY <2>1, <3>1, <3>2, <3>3, <3>4
  <2>5. HandedRows'
    BY <2>4 DEF EndInv, HandedRows
  <2>6. ReleaseRows'
    <3>1. \A t \in Transfers : Exists(t)' => Exists(t)
      BY <2>4 DEF Exists, HandedOver, TypeInv, PassNamed
    <3> QED
      BY <1>2, <2>1, <3>1
  <2>7. ASSUME NEW t \in Transfers PROVE StaysEnded(t)
    <3>1. Writers(t)' = Writers(t)
      BY <2>1 DEF Writers
    <3> QED
      BY <2>4, <3>1 DEF StaysEnded, EndInv, HandedRows, Terminal
  <2> QED
    BY <2>3, <2>5, <2>6, <2>7 DEF EndInv
<1>4. ASSUME EventStep PROVE EndInv' /\ \A t \in Transfers : StaysEnded(t)
  <2>1. PICK e \in events :
           /\ Taken(e)
           /\ UNCHANGED transfer \/ Tells(e.t, e.seq, e.kind)
           /\ UNCHANGED request \/ \E h \in Slots : NextRelease(h, e)
    BY <1>4, EventColumns
  <2>2. up /\ UNCHANGED <<task, todo, sent, up, recovery>> /\ e.t \in Transfers /\ Exists(e.t)
    BY <2>1 DEF Taken, Deliverable
  <2>3. \A t \in Transfers : HandedOver(t)' <=> HandedOver(t)
    BY <2>2 DEF HandedOver
  <2>4. ASSUME NEW t \in Transfers, transfer'[t] # transfer[t]
        PROVE  /\ t = e.t /\ Exists(t)
               /\ transfer[t].state \in Terminal /\ transfer'[t].state # transfer[t].state =>
                    transfer[t].state = "FAILED" /\ transfer'[t].state = "SUBMITTED"
               /\ transfer[t].state \in {"SUBMITTED", "FAILED", "CANCELLED"} =>
                    transfer'[t].state \in {"SUBMITTED", "FAILED", "CANCELLED"}
    <3>1. Tells(e.t, e.seq, e.kind)
      BY <2>1, <2>4
    <3>2. t = e.t
      BY <2>4, <3>1 DEF Tells, ToldRunning, ToldAgain, ToldEnd, RowTold
    <3> QED
      BY <2>2, <3>1, <3>2 DEF Tells, ToldRunning, ToldAgain, ToldEnd, RowTold, Terminal, InFlight
  <2>5. ASSUME NEW t \in Transfers PROVE Writers(t)' \subseteq Writers(t)
    <3>1. CASE UNCHANGED request
      BY <3>1 DEF Writers
    <3>2. ASSUME NEW h \in Slots, NextRelease(h, e) PROVE Writers(t)' \subseteq Writers(t)
      <4>1. /\ request'[h].t = NoTransfer
            /\ \A g \in Slots \ {h} : request'[g] = request[g]
        BY <3>2 DEF NextRelease, Keeps
      <4> QED
        BY <4>1, NoTransferAssumption DEF Writers
    <3> QED
      BY <2>1, <3>1, <3>2
  <2>6. \A t \in Transfers : StaysEnded(t)
    BY <2>3, <2>4, <2>5 DEF StaysEnded
  <2>7. Down' /\ HandedRows'
    BY <2>2, <2>3, <2>4 DEF EndInv, Down, HandedRows
  <2>8. ReleaseRows'
    BY <1>2, <2>2, <2>4 DEF Exists
  <2> QED
    BY <2>6, <2>7, <2>8 DEF EndInv
<1>5. ASSUME ControllerLost PROVE EndInv' /\ \A t \in Transfers : StaysEnded(t)
  <2>1. \A t \in Transfers : ~HandedOver(t)' /\ Writers(t)' = {}
    BY <1>5 DEF ControllerLost, HandedOver, Writers, Resting
  <2>2. \A t \in Transfers : StaysEnded(t)
    BY <1>5, <2>1 DEF ControllerLost, StaysEnded
  <2>3. Down' /\ HandedRows'
    BY <1>5, <2>1 DEF ControllerLost, Down, HandedRows, Resting
  <2>4. ReleaseRows'
    BY <1>2, <1>5 DEF ControllerLost, Exists
  <2> QED
    BY <2>2, <2>3, <2>4 DEF EndInv
<1>6. ASSUME UNCHANGED <<transfer, request, todo, sent, up, recovery>>
      PROVE  EndInv' /\ \A t \in Transfers : StaysEnded(t)
  <2>1. \A t \in Transfers : (HandedOver(t)' <=> HandedOver(t)) /\ Writers(t)' = Writers(t)
    BY <1>6 DEF HandedOver, Writers
  <2>2. \A t \in Transfers : StaysEnded(t)
    BY <1>6, <2>1 DEF StaysEnded
  <2>3. Down' /\ HandedRows'
    BY <1>6, <2>1 DEF EndInv, Down, HandedRows
  <2>4. ReleaseRows'
    BY <1>2, <1>6 DEF Exists
  <2> QED
    BY <2>2, <2>3, <2>4 DEF EndInv
<1>7. RestartStep => ControllerLost \/ UNCHANGED <<transfer, request, todo, sent, up, recovery>>
  BY RestartColumns DEF DaemonLost
<1>8. ASSUME NEW k \in TaskIds, DaemonStep(k)
      PROVE  UNCHANGED <<transfer, request, todo, sent, up, recovery>>
  BY <1>8 DEF DaemonStep, controllerVars
<1> QED
  BY <1>3, <1>4, <1>5, <1>6, <1>7, <1>8

\* Every step keeps the invariant, and every end.
LEMMA EndStep ==
    ASSUME TypeInv, EndInv, [Next]_vars
    PROVE  EndInv' /\ ((\A t \in Transfers : StaysEnded(t)) \/ UNCHANGED vars)
<1>1. CASE UNCHANGED vars
  BY <1>1 DEF vars, controllerVars, daemonVars, EndInv, Down, HandedRows, HandedOver, ReleaseRows,
     OwnInv, Owns, Untouched, Idle, Exists, Releasing, At
<1>2. CASE Next
  <2>1. OwnInv'
    BY OwnStep DEF EndInv
  <2>2. ASSUME NEW h \in Slots, Aside, Requested(h)
        PROVE  EndInv' /\ \A t \in Transfers : StaysEnded(t)
    BY <2>1, <2>2, RequestKeepsEnds
  <2>3. ASSUME PassStep \/ EventStep \/ RestartStep \/ \E k \in TaskIds : DaemonStep(k)
        PROVE  EndInv' /\ \A t \in Transfers : StaysEnded(t)
    BY <1>2, <2>1, <2>3, RowsStayPlaced, ReconciledKeepsEnds, OthersKeepEnds
  <2> QED
    BY <1>2, <2>2, <2>3, RequestColumns, AnswerColumns DEF Next, Slots
<1> QED
  BY <1>1, <1>2

\* Whatever crashes, is lost, overtakes or comes too early, and whoever cancels: an end,
\* unless it is a failure that is retried, is written over only by a pass that handed the
\* transfer over before it ended, which undoes no success, or by a request that had read
\* the row, and neither takes a transfer up that has ended (domain/transfers.py,
\* scheduler/loop.py, services/cancel.py, services/release.py, services/events.py,
\* recovery.py).
THEOREM EndsAreFinal == Spec => EndIsFinal
<1>1. Init => EndInv
  BY NothingOwnedYet
     DEF Init, NoRow, Resting, EndInv, Down, HandedRows, HandedOver, ReleaseRows, Exists
<1>2. TypeInv /\ EndInv /\ [Next]_vars => EndInv'
  BY EndStep
<1>3. TypeInv /\ EndInv /\ [Next]_vars => [\A t \in Transfers : StaysEnded(t)]_vars
  BY EndStep
<1>4. (\A t \in Transfers : StaysEnded(t)) =>
        \A t \in Transfers :
          transfer[t].state \in Terminal =>
            /\ transfer'[t].state # transfer[t].state =>
                 \/ transfer[t].state = "FAILED" /\ transfer'[t].state = "SUBMITTED"
                 \/ /\ transfer[t].state # "SUCCEEDED" /\ transfer'[t].state = "ASSIGNED"
                    /\ HandedOver(t) /\ ~HandedOver(t)'
                 \/ Writers(t)' # Writers(t)
            /\ HandedOver(t)' => HandedOver(t)
            /\ Writers(t)' \subseteq Writers(t)
  BY DEF StaysEnded
<1> QED
  BY <1>1, <1>2, <1>3, <1>4, TypeInvariant, PTL DEF Spec, EndIsFinal

-----------------------------------------------------------------------------
(* No end is missed.                                                       *)

\* Reports carry numbers their daemon gave, each its own.
Numbered ==
    /\ \A t \in Transfers : transfer[t].seq <= reported[t]
    /\ \A e \in events : e.seq <= reported[e.t]
    /\ \A d, e \in events : d.t = e.t /\ d.seq = e.seq => d = e

\* The report of an end is the newest there is on its transfer.
EndsNewest ==
    \A e \in events :
      e.kind \in {"finished", "failed"} => e.seq = reported[e.t] /\ transfer[e.t].seq < e.seq

\* The invariant behind NoEndIsMissed.
NumberInv == Numbered /\ EndsNewest

\* A step that gives no number, and takes none to an old row.
LEMMA SameNumbers ==
    ASSUME TypeInv, NumberInv, UNCHANGED <<reported, events>>,
           \A t \in Transfers : \/ transfer'[t].seq = transfer[t].seq
                                \/ ~Exists(t) /\ transfer'[t].seq = 0
    PROVE  NumberInv'
<1>1. \A t \in Transfers : reported[t] \in Nat
  BY DEF TypeInv, DaemonTypeOK
<1>2. \A e \in events : e.t \in Transfers /\ Exists(e.t)
  BY DEF TypeInv, DaemonTypeOK, Event, EventsNamed
<1> QED
  BY <1>1, <1>2 DEF NumberInv, Numbered, EndsNewest

\* A report that is taken gives its number to its row.
LEMMA TakingKeepsNumbers ==
    ASSUME TypeInv, NumberInv, OneTaskInv, EventStep
    PROVE  NumberInv'
<1>1. PICK e \in events :
         /\ Taken(e)
         /\ UNCHANGED transfer \/ Tells(e.t, e.seq, e.kind)
  BY EventColumns
<1>2. /\ events' = events \ {e} /\ UNCHANGED reported /\ e.t \in Transfers
      /\ \A t \in Transfers \ {e.t} : transfer'[t] = transfer[t]
      /\ transfer'[e.t].seq \in {transfer[e.t].seq, e.seq}
  BY <1>1 DEF Taken, Tells, ToldRunning, ToldAgain, ToldEnd, RowTold
<1>3. /\ \A d \in events : d.seq \in Nat /\ reported[d.t] \in Nat /\ d.t \in Transfers
      /\ \A t \in Transfers : transfer[t].seq \in Nat
  BY DEF TypeInv, DaemonTypeOK, Event, TransfersOK, TransferRow
<1>4. Numbered'
  BY <1>2, <1>3 DEF NumberInv, Numbered
<1>5. EndsNewest'
  <2> SUFFICES ASSUME NEW d \in events, d # e, d.kind \in {"finished", "failed"}
               PROVE  d.seq = reported[d.t] /\ transfer'[d.t].seq < d.seq
    BY <1>2 DEF EndsNewest
  <2>1. d.seq = reported[d.t] /\ transfer[d.t].seq < d.seq
    BY DEF NumberInv, EndsNewest
  <2>2. e.t = d.t => e.seq < d.seq
    BY <1>3, <2>1 DEF NumberInv, Numbered
  <2> QED
    BY <1>2, <1>3, <2>1, <2>2
<1> QED
  BY <1>4, <1>5 DEF NumberInv

\* A daemon gives the next number, and none after that of an end.
LEMMA ReportingKeepsNumbers ==
    ASSUME TypeInv, NumberInv, OneTaskInv, NEW k \in TaskIds, DaemonStep(k)
    PROVE  NumberInv'
<1> DEFINE t == task[k].of
<1>1. /\ UNCHANGED transfer /\ t \in Transfers /\ Live(k)
      /\ \E kind \in EventKinds : Reports(t, kind)
  BY DaemonColumns DEF controllerVars
<1>2. EndEvents(t) = {}
  BY <1>1 DEF OneTaskInv, LiveFor
<1> HIDE DEF t
<1>3. PICK new : /\ new.t = t /\ new.seq = reported[t] + 1
                 /\ events' = events \cup {new} \/ events' = events
  BY <1>1 DEF Reports
<1>4. /\ reported'[t] = reported[t] + 1
      /\ \A u \in Transfers \ {t} : reported'[u] = reported[u]
  BY <1>1 DEF Reports
<1>5. /\ \A d \in events : d.seq \in Nat /\ reported[d.t] \in Nat /\ d.t \in Transfers
      /\ \A u \in Transfers : transfer[u].seq \in Nat /\ reported[u] \in Nat
  BY DEF TypeInv, DaemonTypeOK, Event, TransfersOK, TransferRow
<1>6. Numbered'
  <2>1. \A u \in Transfers : transfer'[u].seq <= reported'[u]
    BY <1>1, <1>4, <1>5 DEF NumberInv, Numbered
  <2>2. \A e \in events : e.seq <= reported[e.t] /\ e.seq <= reported'[e.t]
    BY <1>1, <1>4, <1>5 DEF NumberInv, Numbered
  <2>3. \A e \in events' : e.seq <= reported'[e.t]
    BY <1>1, <1>3, <1>4, <1>5, <2>2
  <2>4. \A e \in events : e.t = t => e.seq # new.seq
    BY <1>1, <1>3, <1>5, <2>2
  <2>5. \A d, e \in events' : d.t = e.t /\ d.seq = e.seq => d = e
    BY <1>3, <2>4 DEF NumberInv, Numbered
  <2> QED
    BY <2>1, <2>3, <2>5 DEF Numbered
<1>7. EndsNewest'
  <2> SUFFICES ASSUME NEW e \in events', e.kind \in {"finished", "failed"}
               PROVE  e.seq = reported'[e.t] /\ transfer[e.t].seq < e.seq
    BY <1>1 DEF EndsNewest
  <2>1. CASE e \in events
    <3>1. e.t # t
      BY <1>2, <2>1 DEF EndEvents
    <3> QED
      BY <1>4, <1>5, <2>1, <3>1 DEF NumberInv, EndsNewest
  <2>2. CASE e \notin events
    <3>1. e = new
      BY <1>3, <2>2
    <3> QED
      BY <1>1, <1>3, <1>4, <1>5, <3>1 DEF NumberInv, Numbered
  <2> QED
    BY <2>1, <2>2
<1> QED
  BY <1>6, <1>7 DEF NumberInv

\* Every step keeps the invariant.
LEMMA NumberStep ==
    ASSUME TypeInv, NumberInv, OneTaskInv, [Next]_vars, "controller_crash" \notin Env,
           "daemon_restart" \notin Env
    PROVE  NumberInv'
<1>1. CASE UNCHANGED vars
  BY <1>1, SameNumbers DEF vars, controllerVars, daemonVars
<1>2. ASSUME NEW h \in Slots, Aside, Requested(h) PROVE NumberInv'
  BY <1>2, RequestRows, SameNumbers DEF Aside, NewRow, Releases, Settles, Frees, GivesUp, RowState
<1>3. ASSUME PassStep PROVE NumberInv'
  <2>1. \A t \in Transfers : transfer'[t].seq = transfer[t].seq
    BY <1>3, PassColumns DEF Reads, HandsOver, PassesBy, Writes
  <2> QED
    BY <1>3, <2>1, PassColumns, SameNumbers
<1>4. ~RestartStep
  BY RestartColumns DEF OneTaskInv, DaemonLost, ControllerLost, Reconciled
<1> QED
  BY <1>1, <1>2, <1>3, <1>4, RequestColumns, AnswerColumns, TakingKeepsNumbers,
     ReportingKeepsNumbers DEF Next, Slots

\* As long as neither side restarts and no answer to a dispatch is lost, the report of an
\* end is never dropped as stale while its transfer goes on, however reports overtake each
\* other or are lost, and whatever is cancelled or tried again (services/events.py,
\* clients/events.py).
THEOREM EndsAreHeard ==
    ASSUME "controller_crash" \notin Env, "lost_reply" \notin Env, "daemon_restart" \notin Env
    PROVE  Spec => NoEndIsMissed
<1>1. Init => NumberInv
  BY DEF Init, DaemonInit, NumberInv, Numbered, EndsNewest, NoRow
<1>2. TypeInv /\ OneTaskInv /\ NumberInv /\ [Next]_vars => NumberInv'
  BY NumberStep
<1>3. ASSUME TypeInv, NumberInv, NEW e \in events, EventIgnored(e),
             e.kind \in {"finished", "failed"}
      PROVE  transfer[e.t].state \in Terminal \cup {"SUBMITTED"}
  <2>1. /\ e.t \in Transfers /\ e.seq \in Nat /\ Exists(e.t)
        /\ transfer[e.t].seq \in Nat /\ transfer[e.t].state \in TransferStates
    <3>1. e.t \in Transfers /\ e.seq \in Nat /\ Exists(e.t)
      BY <1>3 DEF TypeInv, DaemonTypeOK, Event, EventsNamed
    <3>2. transfer[e.t] \in TransferRow
      BY <1>3, <3>1 DEF TypeInv, TransfersOK
    <3> QED
      BY <3>1, <3>2 DEF TransferRow, Exists
  <2>2. IsBackwards(transfer[e.t].state, TargetState[e.kind])
    BY <1>3, <2>1 DEF EventIgnored, Ignored, NumberInv, EndsNewest
  <2>3. Rank[TargetState[e.kind]] = 3
    BY <1>3 DEF Rank, TargetState
  <2> QED
    BY <2>1, <2>2, <2>3 DEF IsBackwards, Rank, TransferStates, Terminal
<1>4. TypeInv /\ NumberInv /\ [Next]_vars =>
        [\A e \in events :
           EventIgnored(e) /\ e.kind \in {"finished", "failed"} =>
             transfer[e.t].state \in Terminal \cup {"SUBMITTED"}]_vars
  BY <1>3
<1> QED
  BY <1>1, <1>2, <1>4, TypeInvariant, OneTaskInvariant, PTL DEF Spec, NoEndIsMissed

-----------------------------------------------------------------------------
(* One mover per fileset.                                                  *)

\* The transfer moves data, or waits for its turn.
Working(t) ==
    /\ Exists(t) /\ transfer[t].kind # "release"
    /\ transfer[t].state = "SUBMITTED" \/ t \in todo \/ Engaged(t)

\* The states of a fileset that something is moved into or out of.
WorkStates(kind) == IF kind = "warm" THEN {"CREATING", "POPULATING"} ELSE {"FLUSHING"}

\* A fileset says that it is worked on.
WorkShown ==
    \A t \in Transfers :
      Working(t) => fileset[transfer[t].fs].state \in WorkStates(transfer[t].kind)

\* Only one works on it.
WorkAlone ==
    \A t, u \in Transfers :
      Working(t) /\ Working(u) /\ transfer[t].fs = transfer[u].fs => t = u

\* The requests there are without cancellations.
Shaped ==
    \A h \in Slots :
      \/ request[h].op = "none" /\ request[h].f = NoFileset
      \/ Making(h) \/ At(h, "warm", "checked") \/ At(h, "flush", "checked")
      \/ At(h, "release", "due") \/ Releasing(h)

\* A flush that is going to be refused.
Stalled(h) == At(h, "flush", "checked") /\ request[h].seen \notin {"READY", "FAILED"}

\* A flush that saw its fileset ready finds it ready.
FlushReady ==
    \A h \in Slots :
      At(h, "flush", "checked") =>
        /\ request[h].seen # "NONE"
        /\ Stalled(h) \/ fileset[request[h].f].state \in {"READY", "FAILED"}

\* Nobody who could change its fileset comes before a release that is due.
DueReady ==
    \A h \in Slots :
      At(h, "release", "due") =>
        /\ fileset[request[h].f].state = "READY"
        /\ \A g \in Slots \ {h} : request[g].f = request[h].f => Stalled(g)

\* Nobody who could change its fileset comes between the steps of a release.
ReleaseAlone ==
    \A h \in Slots :
      Releasing(h) =>
        /\ fileset[request[h].f].state = "RELEASING"
        /\ \A g \in Slots \ {h} : request[g].f = request[h].f => Stalled(g)

\* The invariant behind OneMoverPerFileset.
FilesInv == WorkShown /\ WorkAlone /\ Shaped /\ FlushReady /\ DueReady /\ ReleaseAlone

\* What a report of an end takes off its transfer.
LEMMA EndDisengages ==
    ASSUME TypeInv, OneTaskInv, NEW e \in events, Taken(e), e.kind \in {"finished", "failed"}
    PROVE  Engaged(e.t) /\ ~Engaged(e.t)' /\ e.t \notin todo
<1>1. e \in EndEvents(e.t) /\ e.t \in Transfers
  BY DEF EndEvents, Taken
<1>2. EndEvents(e.t) = {e} /\ LiveFor(e.t) = {} /\ e.t \notin todo
  BY <1>1 DEF OneTaskInv, Engaged
<1>3. events' = events \ {e} /\ UNCHANGED task
  BY DEF Taken
<1>4. EndEvents(e.t)' = {}
  BY <1>2, <1>3 DEF EndEvents
<1>5. LiveFor(e.t)' = {}
  BY <1>2, <1>3 DEF LiveFor, Live
<1> QED
  BY <1>1, <1>2, <1>4, <1>5 DEF Engaged

\* What reports, daemons and restarts of these do makes nothing engaged.
LEMMA EngagedShrinks ==
    ASSUME TypeInv, OneTaskInv, "controller_crash" \notin Env,
           EventStep \/ RestartStep \/ \E k \in TaskIds : DaemonStep(k),
           NEW u \in Transfers, Engaged(u)'
    PROVE  Engaged(u)
<1>1. ASSUME EventStep PROVE Engaged(u)
  <2>1. PICK e \in events : Taken(e)
    BY <1>1, EventColumns
  <2> QED
    BY <2>1 DEF Taken, Engaged, LiveFor, Live, EndEvents
<1>2. ASSUME RestartStep PROVE Engaged(u)
  <2>1. DaemonLost
    BY <1>2, RestartColumns DEF OneTaskInv, ControllerLost, Reconciled
  <2> QED
    BY <2>1 DEF DaemonLost, Engaged, LiveFor, Live, EndEvents, Idle
<1>3. ASSUME NEW k \in TaskIds, DaemonStep(k) PROVE Engaged(u)
  <2>1. /\ Live(k) /\ task[k].of \in Transfers /\ task'[k].of = task[k].of
        /\ \A j \in TaskIds \ {k} : task'[j] = task[j]
        /\ \E kind \in EventKinds : Reports(task[k].of, kind)
    BY <1>3, DaemonColumns
  <2>2. CASE u = task[k].of
    BY <2>1, <2>2 DEF Engaged, LiveFor
  <2>3. CASE u # task[k].of
    <3>1. LiveFor(u)' = LiveFor(u)
      BY <2>1, <2>3 DEF LiveFor, Live
    <3>2. EndEvents(u)' = EndEvents(u)
      BY <2>1, <2>3 DEF Reports, EndEvents
    <3> QED
      BY <3>1, <3>2 DEF Engaged
  <2> QED
    BY <2>2, <2>3
<1> QED
  BY <1>1, <1>2, <1>3

\* Only a request makes a transfer work that did not.
LEMMA WorkShrinks ==
    ASSUME TypeInv, OneTaskInv, "controller_crash" \notin Env,
           PassStep \/ EventStep \/ RestartStep \/ \E k \in TaskIds : DaemonStep(k),
           NEW u \in Transfers, Working(u)'
    PROVE  Working(u) /\ transfer'[u].kind = transfer[u].kind /\ transfer'[u].fs = transfer[u].fs
<1>1. ASSUME PassStep PROVE Working(u) /\ transfer'[u].kind = transfer[u].kind
                            /\ transfer'[u].fs = transfer[u].fs
  <2>0. UNCHANGED events /\ EndEvents(u)' = EndEvents(u)
    BY <1>1, PassColumns DEF EndEvents
  <2>1. ASSUME UNCHANGED task PROVE Engaged(u)' <=> Engaged(u)
    BY <2>0, <2>1 DEF Engaged, LiveFor, Live
  <2>2. ASSUME NEW chosen \in SUBSET Transfers, Reads(chosen)
        PROVE  Working(u) /\ UNCHANGED transfer
    BY <2>1, <2>2 DEF Reads, Working, Exists
  <2>3. ASSUME NEW t \in Transfers, NEW k \in TaskIds, HandsOver(t, k)
        PROVE  Working(u) /\ UNCHANGED transfer
    <3>1. CASE u = t
      BY <2>3, <3>1 DEF HandsOver, Working, Exists
    <3>2. CASE u # t
      <4>1. LiveFor(u)' = LiveFor(u)
        BY <2>3, <3>2 DEF HandsOver, LiveFor, Live, Idle
      <4> QED
        BY <2>0, <2>3, <4>1 DEF HandsOver, Working, Exists, Engaged
    <3> QED
      BY <3>1, <3>2
  <2>4. ASSUME NEW t \in Transfers, PassesBy(t) PROVE Working(u) /\ UNCHANGED transfer
    BY <2>1, <2>4 DEF PassesBy, Working, Exists
  <2>5. ASSUME Writes PROVE Working(u) /\ transfer'[u].kind = transfer[u].kind
                            /\ transfer'[u].fs = transfer[u].fs
    <3>1. Exists(u)
      BY <2>5 DEF Writes, Working, Exists, TypeInv, PassNamed
    <3> QED
      BY <2>1, <2>5, <3>1 DEF Writes, Working
  <2> QED
    BY <1>1, <2>2, <2>3, <2>4, <2>5, PassColumns
<1>2. ASSUME EventStep PROVE Working(u) /\ transfer'[u].kind = transfer[u].kind
                             /\ transfer'[u].fs = transfer[u].fs
  <2>1. PICK e \in events :
           /\ Taken(e)
           /\ UNCHANGED transfer \/ Tells(e.t, e.seq, e.kind)
    BY <1>2, EventColumns
  <2>2. Exists(u) /\ transfer'[u].kind = transfer[u].kind /\ transfer'[u].fs = transfer[u].fs
    BY <2>1 DEF Tells, ToldRunning, ToldAgain, ToldEnd, RowTold, Working, Exists
  <2>3. ASSUME transfer'[u].state = "SUBMITTED" PROVE transfer[u].state = "SUBMITTED" \/ Engaged(u)
    <3>1. ASSUME Tells(e.t, e.seq, e.kind), u = e.t PROVE Engaged(u)
      <4>1. e.kind = "failed"
        BY <2>3, <3>1 DEF Tells, ToldRunning, ToldAgain, ToldEnd, RowTold
      <4> QED
        BY <2>1, <3>1, <4>1, EndDisengages
    <3>2. ASSUME Tells(e.t, e.seq, e.kind), u # e.t PROVE transfer'[u] = transfer[u]
      BY <3>2 DEF Tells, ToldRunning, ToldAgain, ToldEnd, RowTold
    <3> QED
      BY <2>1, <2>3, <3>1, <3>2
  <2> QED
    BY <1>2, <2>1, <2>2, <2>3, EngagedShrinks DEF Taken, Working
<1>3. ASSUME RestartStep \/ \E k \in TaskIds : DaemonStep(k)
      PROVE  Working(u) /\ UNCHANGED transfer
  <2>1. RestartStep => UNCHANGED <<transfer, todo>>
    BY RestartColumns DEF OneTaskInv, ControllerLost, Reconciled, DaemonLost
  <2>2. (\E k \in TaskIds : DaemonStep(k)) => UNCHANGED <<transfer, todo>>
    BY DEF DaemonStep, controllerVars
  <2> QED
    BY <1>3, <2>1, <2>2, EngagedShrinks DEF Working, Exists
<1> QED
  BY <1>1, <1>2, <1>3

\* The hypotheses under which filesets have one mover: a user asks for one thing after
\* another, and neither refreshes nor cancels; no request comes between a flush and the
\* release it asked for; the controller does not crash, and no answer is lost.
Undisturbed ==
    /\ OneAtATime
    /\ Ops \cap {"refresh", "cancel"} = {}
    /\ Env \cap {"release_gap", "controller_crash", "lost_reply"} = {}

\* The invariants it rests on.
Grounds == TypeInv /\ OneTaskInv /\ AtWork /\ NewInv /\ ReleaseInv

\* A step that leaves filesets and requests alone and starts no work.
LEMMA SameKeepsFiles ==
    ASSUME FilesInv, UNCHANGED <<fileset, request>>,
           \A u \in Transfers :
             Working(u)' => /\ Working(u) /\ transfer'[u].kind = transfer[u].kind
                            /\ transfer'[u].fs = transfer[u].fs
    PROVE  FilesInv'
<1>1. WorkShown' /\ WorkAlone'
  BY DEF FilesInv, WorkShown, WorkAlone
<1>2. Shaped' /\ FlushReady' /\ DueReady' /\ ReleaseAlone'
  BY DEF FilesInv, Shaped, FlushReady, DueReady, ReleaseAlone, Stalled, Releasing, Making, At
<1> QED
  BY <1>1, <1>2 DEF FilesInv

\* A report of an end sets free the fileset it worked on, and no other.
LEMMA EndKeepsFiles ==
    ASSUME Grounds, FilesInv, Undisturbed, NEW e \in events, Taken(e),
           ToldEnd(e.t, e.seq, e.kind), EventStep,
           UNCHANGED request \/ \E h \in Slots : NextRelease(h, e)
    PROVE  FilesInv'
<1> DEFINE f == transfer[e.t].fs
<1>1. /\ e.t \in Transfers /\ Exists(e.t) /\ f \in Filesets
      /\ e.kind \in {"finished", "failed"}
  BY DEF Taken, ToldEnd, Grounds, TypeInv, TransfersOK
<1>2. transfer[e.t].kind \in {"warm", "flush"}
  <2>1. transfer[e.t].kind # "release"
    BY <1>1 DEF Grounds, ReleaseInv, ReleasesAside, Untouched
  <2> QED
    BY <1>1, <2>1 DEF Grounds, TypeInv, TransfersOK, TransferRow, TransferKinds
<1>3. Engaged(e.t) /\ ~Engaged(e.t)' /\ e.t \notin todo
  BY <1>1, EndDisengages DEF Grounds
<1>4. Working(e.t)
  BY <1>1, <1>2, <1>3 DEF Working
<1>5. /\ transfer[e.t].kind = "warm" => fileset[f].state \in {"CREATING", "POPULATING"}
      /\ transfer[e.t].kind = "flush" => fileset[f].state = "FLUSHING"
  BY <1>1, <1>4 DEF FilesInv, WorkShown, WorkStates
<1>6. /\ \A g \in Filesets \ {f} : fileset'[g] = fileset[g]
      /\ e.kind = "finished" => fileset'[f].state = "READY"
      /\ fileset'[f].state \in {"READY", "FAILED"}
  BY DEF ToldEnd, State, Place
<1>7. transfer'[e.t].state # "SUBMITTED" /\ todo' = todo
  BY DEF ToldEnd, RowTold, Taken
<1> HIDE DEF f
<1>8. \A u \in Transfers :
         Working(u)' => /\ Working(u) /\ transfer'[u].kind = transfer[u].kind
                        /\ transfer'[u].fs = transfer[u].fs /\ transfer[u].fs # f
  <2> SUFFICES ASSUME NEW u \in Transfers, Working(u)'
               PROVE  /\ Working(u) /\ transfer'[u].kind = transfer[u].kind
                      /\ transfer'[u].fs = transfer[u].fs /\ transfer[u].fs # f
    OBVIOUS
  <2>1. /\ Working(u) /\ transfer'[u].kind = transfer[u].kind
        /\ transfer'[u].fs = transfer[u].fs
    BY WorkShrinks DEF Grounds, Undisturbed
  <2>2. u # e.t
    BY <1>3, <1>7 DEF Working
  <2> QED
    BY <1>1, <1>4, <2>1, <2>2 DEF FilesInv, WorkAlone, f
<1>9. WorkShown' /\ WorkAlone'
  <2>1. \A u \in Transfers : Working(u) => transfer[u].fs \in Filesets
    BY DEF Working, Grounds, TypeInv, TransfersOK
  <2> QED
    BY <1>6, <1>8, <2>1 DEF FilesInv, WorkShown, WorkAlone
<1>10. /\ \A h \in Slots : Making(h) \/ At(h, "warm", "checked") \/ At(h, "flush", "checked")
                           \/ At(h, "release", "due") \/ Releasing(h) => request[h].f \in Filesets
       /\ NoFileset \notin Filesets
  BY NoFilesetAssumption
     DEF Making, At, Releasing, Grounds, TypeInv, RequestsOK, WellFormed
<1>11. CASE UNCHANGED request
  <2>1. Shaped'
    BY <1>11 DEF FilesInv, Shaped, Releasing, Making, At
  <2>2. FlushReady'
    BY <1>6, <1>10, <1>11 DEF FilesInv, FlushReady, Stalled, At
  <2>3. DueReady'
    BY <1>5, <1>2, <1>6, <1>10, <1>11 DEF FilesInv, DueReady, Stalled, At
  <2>4. ReleaseAlone'
    BY <1>5, <1>2, <1>6, <1>10, <1>11 DEF FilesInv, ReleaseAlone, Releasing, Stalled, At
  <2> QED
    BY <1>9, <2>1, <2>2, <2>3, <2>4 DEF FilesInv
<1>12. ASSUME NEW h \in Slots, NextRelease(h, e) PROVE FilesInv'
  <2>1. /\ request[h] = Resting /\ transfer[e.t].kind = "flush" /\ e.kind = "finished"
        /\ request'[h].op = "release" /\ request'[h].at = "due" /\ request'[h].f = f
        /\ \A g \in Slots \ {h} : request'[g] = request[g]
    BY <1>12 DEF NextRelease, Keeps, f
  <2>2. \A g \in Slots \ {h} : request[g].f = f => Stalled(g)
    <3> SUFFICES ASSUME NEW g \in Slots \ {h}, request[g].f = f PROVE Stalled(g)
      OBVIOUS
    <3>1. fileset[f].state = "FLUSHING"
      BY <1>5, <2>1
    <3>2. ~Making(g)
      BY <1>1, <2>1 DEF Grounds, NewInv, MakersAlone, f
    <3>3. ~At(g, "warm", "checked") /\ ~At(g, "release", "due") /\ ~Releasing(g)
      BY <3>1 DEF Grounds, NewInv, CheckedIsNew, FilesInv, DueReady, ReleaseAlone
    <3>4. At(g, "flush", "checked")
      BY <1>1, <1>10, <3>2, <3>3 DEF FilesInv, Shaped
    <3> QED
      BY <3>1, <3>4 DEF FilesInv, FlushReady
  <2>3. Shaped'
    BY <2>1 DEF FilesInv, Shaped, Releasing, Making, At
  <2>4. FlushReady'
    BY <1>6, <1>10, <2>1 DEF FilesInv, FlushReady, Stalled, At
  <2>5. \A g \in Slots \ {h} : Stalled(g) => Stalled(g)'
    BY <2>1 DEF Stalled, At
  <2>6. ASSUME NEW g \in Slots \ {h}, At(g, "release", "due") \/ Releasing(g)
        PROVE  request[g].f # f
    BY <2>2, <2>6 DEF Stalled, At, Releasing
  <2>7. DueReady'
    <3> SUFFICES ASSUME NEW g \in Slots, At(g, "release", "due")'
                 PROVE  /\ fileset'[request'[g].f].state = "READY"
                        /\ \A i \in Slots \ {g} : request'[i].f = request'[g].f => Stalled(i)'
      BY DEF DueReady
    <3>1. CASE g = h
      BY <1>6, <2>1, <2>2, <2>5, <3>1
    <3>2. CASE g # h
      <4>1. At(g, "release", "due") /\ request'[g] = request[g] /\ request[g].f # f
        BY <2>1, <2>6, <3>2 DEF At
      <4>2. \A i \in Slots \ {g} : request[i].f = request[g].f => Stalled(i)
        BY <4>1 DEF FilesInv, DueReady
      <4> QED
        BY <1>6, <1>10, <2>1, <2>5, <4>1, <4>2 DEF FilesInv, DueReady
    <3> QED
      BY <3>1, <3>2
  <2>8. ReleaseAlone'
    <3> SUFFICES ASSUME NEW g \in Slots, Releasing(g)'
                 PROVE  /\ fileset'[request'[g].f].state = "RELEASING"
                        /\ \A i \in Slots \ {g} : request'[i].f = request'[g].f => Stalled(i)'
      BY DEF ReleaseAlone
    <3>1. g # h /\ Releasing(g) /\ request'[g] = request[g]
      BY <2>1 DEF Releasing
    <3>2. request[g].f # f
      BY <2>6, <3>1
    <3>3. \A i \in Slots \ {g} : request[i].f = request[g].f => Stalled(i)
      BY <3>1 DEF FilesInv, ReleaseAlone
    <3> QED
      BY <1>6, <1>10, <2>1, <2>5, <3>1, <3>2, <3>3 DEF FilesInv, ReleaseAlone
  <2> QED
    BY <1>9, <2>3, <2>4, <2>7, <2>8 DEF FilesInv
<1> QED
  BY <1>11, <1>12

\* A report, a pass, a daemon or a restart of one.
LEMMA OthersKeepFiles ==
    ASSUME Grounds, FilesInv, Undisturbed,
           PassStep \/ EventStep \/ RestartStep \/ \E k \in TaskIds : DaemonStep(k)
    PROVE  FilesInv'
<1>1. \A u \in Transfers :
         Working(u)' => /\ Working(u) /\ transfer'[u].kind = transfer[u].kind
                        /\ transfer'[u].fs = transfer[u].fs
  BY WorkShrinks DEF Grounds, Undisturbed
<1>2. UNCHANGED <<fileset, request>> => FilesInv'
  BY <1>1, SameKeepsFiles
<1>3. ASSUME EventStep PROVE FilesInv'
  <2>1. PICK e \in events :
           /\ Taken(e)
           /\ \/ UNCHANGED <<fileset, request>>
              \/ /\ Tells(e.t, e.seq, e.kind)
                 /\ UNCHANGED request \/ \E h \in Slots : NextRelease(h, e)
    BY <1>3, EventColumns DEF Grounds
  <2>2. CASE Tells(e.t, e.seq, e.kind) /\ ~ToldEnd(e.t, e.seq, e.kind)
             /\ (UNCHANGED request \/ \E h \in Slots : NextRelease(h, e))
    BY <1>2, <2>2 DEF Tells, ToldRunning, ToldAgain, NextRelease
  <2> QED
    BY <1>2, <1>3, <2>1, <2>2, EndKeepsFiles
<1>4. RestartStep => UNCHANGED <<fileset, request>>
  BY RestartColumns
     DEF Grounds, Undisturbed, OneTaskInv, ControllerLost, Reconciled, DaemonLost
<1>5. (\E k \in TaskIds : DaemonStep(k)) => UNCHANGED <<fileset, request>>
  BY DEF DaemonStep, controllerVars
<1> QED
  BY <1>2, <1>3, <1>4, <1>5, PassColumns DEF Grounds

\* What a step of a request at a fileset does to the work on filesets.
LEMMA WorkFrame ==
    ASSUME TypeInv, WorkShown, WorkAlone, Aside, NEW f \in Filesets, NEW t,
           \A g \in Filesets \ {f} : fileset'[g] = fileset[g],
           \A u \in Transfers \ {t} : transfer'[u] = transfer[u],
           \A u \in Transfers :
             Working(u) /\ transfer[u].fs = f =>
               fileset'[f].state \in WorkStates(transfer[u].kind),
           \/ transfer'[t] = transfer[t] \/ transfer'[t].kind = "release"
           \/ /\ transfer'[t].fs = f
              /\ fileset'[f].state \in WorkStates(transfer'[t].kind)
              /\ \A u \in Transfers : Working(u) => transfer[u].fs # f
    PROVE  WorkShown' /\ WorkAlone'
<1>1. ASSUME NEW u \in Transfers PROVE Engaged(u)' = Engaged(u)
  <2>1. LiveFor(u)' = LiveFor(u) /\ EndEvents(u)' = EndEvents(u)
    BY DEF Aside, LiveFor, Live, EndEvents
  <2> QED
    BY <2>1 DEF Engaged
<1>2. ASSUME NEW u \in Transfers, Working(u)', u # t \/ transfer'[t] = transfer[t]
      PROVE  /\ Working(u) /\ transfer'[u] = transfer[u] /\ transfer[u].fs \in Filesets
             /\ fileset'[transfer[u].fs].state \in WorkStates(transfer[u].kind)
  <2>1. transfer'[u] = transfer[u]
    BY <1>2
  <2>2. Working(u) /\ transfer[u].fs \in Filesets
    BY <1>1, <1>2, <2>1 DEF Working, Exists, Aside, TypeInv, TransfersOK
  <2> QED
    BY <2>1, <2>2 DEF WorkShown
<1>3. ASSUME t \in Transfers, Working(t)', transfer'[t] # transfer[t]
      PROVE  /\ transfer'[t].fs = f /\ fileset'[f].state \in WorkStates(transfer'[t].kind)
             /\ \A u \in Transfers : Working(u) => transfer[u].fs # f
  BY <1>3 DEF Working
<1>4. WorkShown'
  BY <1>2, <1>3 DEF WorkShown
<1>5. WorkAlone'
  BY <1>2, <1>3 DEF WorkAlone
<1> QED
  BY <1>4, <1>5

\* Whoever else is at the fileset is going to be refused, or finds it as it was and the
\* request gone or going to be refused.
GivesWay(h, f) ==
    \A g \in Slots \ {h} :
      request[g].f = f =>
        \/ Stalled(g)
        \/ fileset'[f].state = fileset[f].state /\ (request'[h].f # f \/ Stalled(h)')

\* What a step of a request at a fileset does to the order of requests.
LEMMA RequestFrame ==
    ASSUME TypeInv, FilesInv, NEW h \in Slots, NEW f \in Filesets, GivesWay(h, f),
           \A g \in Filesets \ {f} : fileset'[g] = fileset[g],
           \A g \in Slots \ {h} : request'[g] = request[g],
           request'[h].f \in {f, NoFileset},
           \/ request'[h].op = "none" /\ request'[h].f = NoFileset
           \/ Making(h)' \/ At(h, "warm", "checked")'
           \/ /\ At(h, "flush", "checked")' /\ request'[h].f = f /\ request'[h].seen # "NONE"
              /\ Stalled(h)' \/ fileset'[f].state \in {"READY", "FAILED"}
           \/ /\ Releasing(h)' /\ request'[h].f = f /\ fileset'[f].state = "RELEASING"
              /\ \A g \in Slots \ {h} : request[g].f = f => Stalled(g)
    PROVE  Shaped' /\ FlushReady' /\ DueReady' /\ ReleaseAlone'
<1>1. ASSUME NEW g \in Slots \ {h}
      PROVE  /\ request'[g] = request[g] /\ Stalled(g)' = Stalled(g)
             /\ Making(g)' = Making(g) /\ Releasing(g)' = Releasing(g)
             /\ \A op, at : At(g, op, at)' = At(g, op, at)
  BY <1>1 DEF Stalled, At, Making, Releasing
<1>2. ASSUME NEW g \in Slots, At(g, "release", "due") \/ Releasing(g) \/ At(g, "flush", "checked")
      PROVE  request[g].f \in Filesets /\ request[g].f # NoFileset
  BY <1>2, NoFilesetAssumption DEF TypeInv, RequestsOK, WellFormed, At, Releasing
<1>3. /\ ~At(h, "release", "due")'
      /\ At(h, "flush", "checked")' =>
           /\ request'[h].f = f /\ request'[h].seen # "NONE"
           /\ Stalled(h)' \/ fileset'[f].state \in {"READY", "FAILED"}
      /\ Releasing(h)' =>
           /\ request'[h].f = f /\ fileset'[f].state = "RELEASING"
           /\ \A g \in Slots \ {h} : request[g].f = f => Stalled(g)
  BY DEF At, Making, Releasing
<1>4. Shaped'
  BY <1>1 DEF FilesInv, Shaped
<1>5. FlushReady'
  <2> SUFFICES ASSUME NEW g \in Slots, At(g, "flush", "checked")'
               PROVE  /\ request'[g].seen # "NONE"
                      /\ Stalled(g)' \/ fileset'[request'[g].f].state \in {"READY", "FAILED"}
    BY DEF FlushReady
  <2>1. CASE g = h
    BY <1>3, <2>1
  <2>2. CASE g # h
    <3>1. At(g, "flush", "checked") /\ request'[g] = request[g] /\ Stalled(g)' = Stalled(g)
      BY <1>1, <2>2
    <3>2. Stalled(g) \/ fileset'[request[g].f].state = fileset[request[g].f].state
      BY <1>2, <2>2, <3>1 DEF GivesWay
    <3> QED
      BY <3>1, <3>2 DEF FilesInv, FlushReady
  <2> QED
    BY <2>1, <2>2
<1>6. ASSUME NEW g \in Slots \ {h}, At(g, "release", "due") \/ Releasing(g)
      PROVE  /\ fileset'[request[g].f].state = fileset[request[g].f].state
             /\ \A i \in Slots \ {g} : request'[i].f = request[g].f => Stalled(i)'
  <2>1. ~Stalled(g) /\ request[g].f \in Filesets /\ request[g].f # NoFileset
    BY <1>2, <1>6 DEF Stalled, At, Releasing
  <2>2. fileset'[request[g].f].state = fileset[request[g].f].state
    BY <2>1 DEF GivesWay
  <2>3. request'[h].f = request[g].f => Stalled(h)'
    BY <2>1 DEF GivesWay
  <2>4. ASSUME NEW i \in Slots \ {g, h}, request[i].f = request[g].f PROVE Stalled(i)
    BY <1>6, <2>4 DEF FilesInv, DueReady, ReleaseAlone
  <2> QED
    BY <1>1, <2>2, <2>3, <2>4
<1>7. DueReady'
  BY <1>1, <1>3, <1>6 DEF FilesInv, DueReady
<1>8. ReleaseAlone'
  <2>1. ASSUME NEW g \in Slots \ {h}, Releasing(g)'
        PROVE  /\ fileset'[request'[g].f].state = "RELEASING"
               /\ \A i \in Slots \ {g} : request'[i].f = request'[g].f => Stalled(i)'
    BY <1>1, <1>6, <2>1 DEF FilesInv, ReleaseAlone
  <2>2. Releasing(h)' => /\ fileset'[request'[h].f].state = "RELEASING"
                         /\ \A i \in Slots \ {h} : request'[i].f = request'[h].f => Stalled(i)'
    BY <1>1, <1>3
  <2> QED
    BY <2>1, <2>2 DEF ReleaseAlone
<1> QED
  BY <1>4, <1>5, <1>7, <1>8

\* Nothing works on a fileset at rest, or on one that is being released.
LEMMA NobodyWorks ==
    ASSUME TypeInv, FilesInv, NEW f \in Filesets,
           fileset[f].state \notin {"CREATING", "POPULATING", "FLUSHING"}
    PROVE  \A u \in Transfers : Working(u) => transfer[u].fs # f
BY DEF FilesInv, WorkShown, WorkStates

\* Beside a user's request there is nobody at a fileset but its releases.
LEMMA OnlyReleasesBeside ==
    ASSUME UsersWork, Shaped, OneAtATime, NEW h \in Handlers, NEW g \in Slots \ {h},
           NEW f \in Filesets, request[g].f = f
    PROVE  At(g, "release", "due") \/ Releasing(g)
<1>1. request[g].op \in {"none", "release"}
  BY DEF UsersWork, OneAtATime
<1>2. ~(request[g].op = "none" /\ request[g].f = NoFileset)
  BY NoFilesetAssumption
<1> QED
  BY <1>1, <1>2 DEF Shaped, Making, At, Releasing

\* The request of a user begins.
LEMMA BeginningKeepsFiles ==
    ASSUME Grounds, FilesInv, Undisturbed, NEW h \in Slots, Aside, NEW f \in Filesets,
           Creates(h, f) \/ LooksToWarm(h, f) \/ LooksToFlush(h, f)
    PROVE  FilesInv'
<1>0. /\ TypeInv /\ NewInv /\ FilesInv /\ OneAtATime
      /\ \A g \in Slots : ~At(g, "release", "due")
      /\ h \in Handlers /\ UNCHANGED transfer /\ NoFileset \notin Filesets
  BY NoFilesetAssumption
     DEF Grounds, Undisturbed, Creates, LooksToWarm, LooksToFlush, Begins, NoneDue
<1>1. \A g \in Slots \ {h} : request[g].f = f => Releasing(g)
  BY <1>0, OnlyReleasesBeside DEF NewInv, FilesInv
<1>2. /\ \A g \in Filesets \ {f} : fileset'[g] = fileset[g]
      /\ \A g \in Slots \ {h} : request'[g] = request[g]
      /\ request'[h].f = f
  BY DEF Creates, LooksToWarm, LooksToFlush, State, Place, Keeps
<1>3. ASSUME Creates(h, f) PROVE FilesInv'
  <2>1. \A g \in Slots \ {h} : request[g].f # f
    BY <1>1, <1>3 DEF Creates, FilesInv, ReleaseAlone
  <2>2. GivesWay(h, f)
    BY <2>1 DEF GivesWay
  <2>3. Making(h)'
    BY <1>3 DEF Creates, Keeps, Making, At
  <2>4. Shaped' /\ FlushReady' /\ DueReady' /\ ReleaseAlone'
    BY <1>0, <1>2, <2>2, <2>3, RequestFrame
  <2>5. \A u \in Transfers : Working(u) => transfer[u].fs # f
    BY <1>0, <1>3, NobodyWorks DEF Creates
  <2>6. WorkShown' /\ WorkAlone'
    BY <1>0, <1>2, <2>5, WorkFrame DEF FilesInv
  <2> QED
    BY <2>4, <2>6 DEF FilesInv
<1>4. ASSUME UNCHANGED fileset PROVE WorkShown' /\ WorkAlone'
  BY <1>0, <1>2, <1>4, WorkFrame DEF FilesInv, WorkShown
<1>5. ASSUME LooksToWarm(h, f) PROVE FilesInv'
  <2>1. fileset[f].state = "NONE" /\ UNCHANGED fileset
    BY <1>5 DEF LooksToWarm, Undisturbed
  <2>2. GivesWay(h, f)
    BY <1>1, <2>1 DEF GivesWay, FilesInv, ReleaseAlone
  <2>3. At(h, "warm", "checked")'
    BY <1>5 DEF LooksToWarm, Keeps, At
  <2>4. Shaped' /\ FlushReady' /\ DueReady' /\ ReleaseAlone'
    BY <1>0, <1>2, <2>2, <2>3, RequestFrame
  <2> QED
    BY <1>4, <2>1, <2>4 DEF FilesInv
<1>6. ASSUME LooksToFlush(h, f) PROVE FilesInv'
  <2>1. /\ UNCHANGED fileset /\ At(h, "flush", "checked")'
        /\ request'[h].seen = fileset[f].state /\ fileset[f].state # "NONE"
    BY <1>6 DEF LooksToFlush, Keeps, At, IsLive
  <2>2. GivesWay(h, f)
    BY <1>1, <2>1 DEF GivesWay, FilesInv, ReleaseAlone, Stalled
  <2>3. Stalled(h)' \/ fileset'[f].state \in {"READY", "FAILED"}
    BY <2>1 DEF Stalled
  <2>4. Shaped' /\ FlushReady' /\ DueReady' /\ ReleaseAlone'
    BY <1>0, <1>2, <2>1, <2>2, <2>3, RequestFrame
  <2> QED
    BY <1>4, <2>1, <2>4 DEF FilesInv
<1> QED
  BY <1>3, <1>5, <1>6

\* A request inserts its row.
LEMMA SubmittingKeepsFiles ==
    ASSUME Grounds, FilesInv, Undisturbed, NEW h \in Slots, Aside, NEW f \in Filesets,
           NEW t \in Transfers, Warms(h, f, t) \/ Flushes(h, f, t) \/ Releases(h, f, t)
    PROVE  FilesInv'
<1>0. /\ TypeInv /\ NewInv /\ FilesInv /\ OneAtATime /\ NoFileset \notin Filesets
  BY NoFilesetAssumption DEF Grounds, Undisturbed
<1>1. /\ transfer'[t].fs = f /\ \A u \in Transfers \ {t} : transfer'[u] = transfer[u]
      /\ \A g \in Filesets \ {f} : fileset'[g] = fileset[g]
      /\ \A g \in Slots \ {h} : request'[g] = request[g]
      /\ request'[h].f \in {f, NoFileset}
  BY DEF Warms, Flushes, Releases, NewRow, State, Place, Keeps, Rests
<1>2. ASSUME Warms(h, f, t) PROVE FilesInv'
  <2>1. fileset[request[h].f].state = "NONE" /\ f = request[h].f
    BY <1>0, <1>2 DEF Warms, NewInv, CheckedIsNew
  <2>2. transfer'[t].kind = "warm" /\ fileset'[f].state = "CREATING" /\ Making(h)'
    BY <1>2, <2>1 DEF Warms, IsLive, NewRow, State, Place, Keeps, Making, At
  <2>3. \A g \in Slots \ {h} : request[g].f # f
    BY <1>0, <1>2, <2>1 DEF Warms, NewInv, NoneIsNew, UsersWork, OneAtATime, At
  <2>4. GivesWay(h, f)
    BY <2>3 DEF GivesWay
  <2>5. Shaped' /\ FlushReady' /\ DueReady' /\ ReleaseAlone'
    BY <1>0, <1>1, <2>2, <2>4, RequestFrame
  <2>6. \A u \in Transfers : Working(u) => transfer[u].fs # f
    BY <1>0, <2>1, NobodyWorks
  <2>7. fileset'[f].state \in WorkStates(transfer'[t].kind)
    BY <2>2 DEF WorkStates
  <2>8. WorkShown' /\ WorkAlone'
    BY <1>0, <1>1, <2>6, <2>7, WorkFrame DEF FilesInv
  <2> QED
    BY <2>5, <2>8 DEF FilesInv
<1>3. ASSUME Flushes(h, f, t) PROVE FilesInv'
  <2>1. request[h].seen # "NONE" /\ ~(request[h].seen \notin {"READY", "FAILED"})
    <3>1. request[h].seen \in FilesetStates \cup {"NONE"}
      BY <1>0 DEF TypeInv, RequestsOK, Request
    <3>2. request[h].seen # "NONE"
      BY <1>0, <1>3 DEF Flushes, FilesInv, FlushReady
    <3> QED
      BY <1>3, <3>1, <3>2 DEF Flushes, FilesetMoves, FilesetStates
  <2>2. fileset[f].state \in {"READY", "FAILED"} /\ ~Stalled(h) /\ h \in Handlers
    BY <1>0, <1>3, <2>1 DEF Flushes, FilesInv, FlushReady, Stalled
  <2>3. \A g \in Slots \ {h} : request[g].f # f
    <3> SUFFICES ASSUME NEW g \in Slots \ {h}, request[g].f = f PROVE FALSE
      OBVIOUS
    <3>1. At(g, "release", "due") \/ Releasing(g)
      BY <1>0, <2>2, OnlyReleasesBeside DEF NewInv, FilesInv
    <3>2. request[h].f = request[g].f
      BY <1>3 DEF Flushes
    <3> QED
      BY <2>2, <3>1, <3>2 DEF FilesInv, DueReady, ReleaseAlone
  <2>4. GivesWay(h, f)
    BY <2>3 DEF GivesWay
  <2>5. request'[h].op = "none" /\ request'[h].f = NoFileset
    BY <1>3 DEF Flushes, Rests, Keeps
  <2>6. Shaped' /\ FlushReady' /\ DueReady' /\ ReleaseAlone'
    BY <1>0, <1>1, <2>4, <2>5, RequestFrame
  <2>7. \A u \in Transfers : Working(u) => transfer[u].fs # f
    BY <1>0, <2>2, NobodyWorks
  <2>8. fileset'[f].state \in WorkStates(transfer'[t].kind)
    BY <1>3 DEF Flushes, State, Place, NewRow, WorkStates
  <2>9. WorkShown' /\ WorkAlone'
    BY <1>0, <1>1, <2>7, <2>8, WorkFrame DEF FilesInv
  <2> QED
    BY <2>6, <2>9 DEF FilesInv
<1>4. ASSUME Releases(h, f, t) PROVE FilesInv'
  <2>1. fileset[f].state \in {"READY", "FAILED"}
    BY <1>0, <1>4 DEF Releases, FilesInv, DueReady
  <2>2. \A g \in Slots \ {h} : request[g].f = f => Stalled(g)
    <3>1. CASE At(h, "release", "due") /\ f = request[h].f
      BY <1>0, <3>1 DEF FilesInv, DueReady
    <3>2. CASE Begins(h) /\ NoneDue
      <4>1. h \in Handlers /\ \A g \in Slots : ~At(g, "release", "due")
        BY <3>2 DEF Begins, NoneDue, Undisturbed
      <4> QED
        BY <1>0, <2>1, <4>1, OnlyReleasesBeside DEF NewInv, FilesInv, ReleaseAlone
    <3> QED
      BY <1>4, <3>1, <3>2 DEF Releases
  <2>3. GivesWay(h, f)
    BY <2>2 DEF GivesWay
  <2>4. /\ Releasing(h)' /\ request'[h].f = f /\ fileset'[f].state = "RELEASING"
        /\ transfer'[t].kind = "release"
    BY <1>4 DEF Releases, Keeps, Releasing, State, Place, NewRow
  <2>5. Shaped' /\ FlushReady' /\ DueReady' /\ ReleaseAlone'
    BY <1>0, <1>1, <2>2, <2>3, <2>4, RequestFrame
  <2>6. \A u \in Transfers : Working(u) => transfer[u].fs # f
    BY <1>0, <2>1, NobodyWorks
  <2>7. WorkShown' /\ WorkAlone'
    BY <1>0, <1>1, <2>4, <2>6, WorkFrame DEF FilesInv
  <2> QED
    BY <2>5, <2>7 DEF FilesInv
<1> QED
  BY <1>2, <1>3, <1>4

\* A daemon has answered, and the request goes on or is done.
LEMMA AnswersKeepFiles ==
    ASSUME Grounds, FilesInv, Undisturbed, NEW h \in Slots, Aside, NEW f \in Filesets,
           \/ Created(h, f) \/ NotCreated(h, f) \/ Prepared(h, f) \/ NotPrepared(h, f)
           \/ Deletes(h, f) \/ \E t \in Transfers : Frees(h, f, t) \/ GivesUp(h, f, t)
    PROVE  FilesInv'
<1>0. /\ TypeInv /\ NewInv /\ FilesInv /\ ReleaseInv /\ NoFileset \notin Filesets
  BY NoFilesetAssumption DEF Grounds
<1>1. /\ \A g \in Filesets \ {f} : fileset'[g] = fileset[g]
      /\ \A g \in Slots \ {h} : request'[g] = request[g]
      /\ request'[h].f \in {f, NoFileset} /\ request[h].f = f
      /\ Making(h) \/ Releasing(h)
  BY DEF Created, NotCreated, Prepared, NotPrepared, Deletes, Frees, GivesUp, Place, State, Keeps,
         Rests, Making, Releasing, At
<1>2. \A g \in Slots \ {h} : request[g].f = f => Stalled(g)
  BY <1>0, <1>1 DEF NewInv, MakersAlone, FilesInv, ReleaseAlone
<1>3. GivesWay(h, f)
  BY <1>2 DEF GivesWay
<1>4. \/ request'[h].op = "none" /\ request'[h].f = NoFileset
      \/ Releasing(h)' /\ request'[h].f = f /\ fileset'[f].state = "RELEASING"
  <2>1. ASSUME Deletes(h, f)
        PROVE  Releasing(h)' /\ request'[h].f = f /\ fileset'[f].state = "RELEASING"
    <3>1. Releasing(h)
      BY <2>1 DEF Deletes, At, Releasing
    <3> QED
      BY <1>0, <2>1, <3>1 DEF Deletes, Keeps, Place, Releasing, FilesInv, ReleaseAlone
  <2>2. ~Deletes(h, f) => request'[h].op = "none" /\ request'[h].f = NoFileset
    BY DEF Created, NotCreated, Prepared, NotPrepared, Frees, GivesUp, Rests, Keeps
  <2> QED
    BY <2>1, <2>2
<1>5. Shaped' /\ FlushReady' /\ DueReady' /\ ReleaseAlone'
  BY <1>0, <1>1, <1>2, <1>3, <1>4, RequestFrame
<1>6. \A u \in Transfers :
        Working(u) /\ transfer[u].fs = f => fileset'[f].state \in WorkStates(transfer[u].kind)
  <2> SUFFICES ASSUME NEW u \in Transfers, Working(u), transfer[u].fs = f
               PROVE  fileset'[f].state \in WorkStates(transfer[u].kind)
    OBVIOUS
  <2>1. fileset[f].state \in WorkStates(transfer[u].kind)
    BY <1>0 DEF FilesInv, WorkShown
  <2>2. ~Releasing(h)
    BY <1>0, <1>1, NobodyWorks DEF FilesInv, ReleaseAlone
  <2>3. transfer[u].kind = "warm" /\ request[h].op = "warm"
    BY <1>0, <1>1, <2>2 DEF NewInv, MakersAlone, Working
  <2>4. Prepared(h, f) \/ NotPrepared(h, f)
    BY <2>2, <2>3 DEF Created, NotCreated, Deletes, Frees, GivesUp, At, Releasing
  <2> QED
    BY <2>1, <2>3, <2>4 DEF Prepared, NotPrepared, Place, WorkStates
<1>7. WorkShown' /\ WorkAlone'
  <2>1. CASE UNCHANGED transfer
    BY <1>0, <1>1, <1>6, <2>1, WorkFrame DEF FilesInv
  <2>2. ASSUME NEW t \in Transfers, Frees(h, f, t) \/ GivesUp(h, f, t)
        PROVE  WorkShown' /\ WorkAlone'
    <3>1. /\ transfer'[t].kind = transfer[t].kind
          /\ \A u \in Transfers \ {t} : transfer'[u] = transfer[u]
      BY <2>2 DEF Frees, GivesUp, RowState
    <3>2. transfer[t].kind = "release"
      BY <1>0, <2>2 DEF Frees, GivesUp, ReleaseInv, ReleaseRuns, Releasing, At
    <3> QED
      BY <1>0, <1>1, <1>6, <3>1, <3>2, WorkFrame DEF FilesInv
  <2> QED
    BY <2>1, <2>2 DEF Created, NotCreated, Prepared, NotPrepared, Deletes
<1> QED
  BY <1>5, <1>7 DEF FilesInv

\* A request is refused.
LEMMA RefusingKeepsFiles ==
    ASSUME Grounds, FilesInv, NEW h \in Slots, Aside, Refused(h)
    PROVE  FilesInv'
<1>0. /\ TypeInv /\ FilesInv /\ request[h].f \in Filesets /\ NoFileset \notin Filesets
      /\ UNCHANGED <<transfer, fileset>>
  BY NoFilesetAssumption DEF Grounds, TypeInv, RequestsOK, WellFormed, Refused, At
<1>1. /\ \A g \in Slots \ {h} : request'[g] = request[g]
      /\ request'[h].op = "none" /\ request'[h].f = NoFileset
  BY DEF Refused, Rests, Keeps
<1>2. GivesWay(h, request[h].f)
  BY <1>0, <1>1 DEF GivesWay
<1>3. Shaped' /\ FlushReady' /\ DueReady' /\ ReleaseAlone'
  BY <1>0, <1>1, <1>2, RequestFrame
<1>4. WorkShown' /\ WorkAlone'
  BY <1>0, WorkFrame DEF FilesInv, WorkShown
<1> QED
  BY <1>3, <1>4 DEF FilesInv

\* Every step keeps filesets in order.
LEMMA FilesStep ==
    ASSUME Grounds, FilesInv, Undisturbed, [Next]_vars
    PROVE  FilesInv'
<1>1. ASSUME NEW h \in Slots, Aside, Requested(h) PROVE FilesInv'
  <2>1. /\ \A t \in Transfers : ~Settles(h, t) /\ ~AsksToStop(h, t)
        /\ ~Stopped(h)
    BY <1>1, RequestsAtWork DEF Grounds, Undisturbed
  <2> QED
    BY <1>1, <2>1, BeginningKeepsFiles, SubmittingKeepsFiles, AnswersKeepFiles,
       RefusingKeepsFiles DEF Requested
<1>2. CASE UNCHANGED vars
  <2>1. UNCHANGED <<fileset, request>>
    BY <1>2 DEF vars, controllerVars
  <2>2. \A u \in Transfers : Working(u)' => Working(u) /\ UNCHANGED transfer
    BY <1>2 DEF vars, controllerVars, daemonVars, Working, Exists, Engaged, LiveFor, Live, EndEvents
  <2> QED
    BY <2>1, <2>2, SameKeepsFiles
<1> QED
  BY <1>1, <1>2, RequestColumns, AnswerColumns, OthersKeepFiles DEF Next, Slots, Grounds

\* All that the order of filesets rests on holds at first.
LEMMA FilesBegin == Init => Grounds /\ FilesInv
<1> SUFFICES ASSUME Init PROVE Grounds /\ FilesInv
  OBVIOUS
<1>1. TypeInv
  BY InitType
<1>2. \A t \in Transfers : ~Exists(t) /\ t \notin todo
  BY DEF Init, NoRow, Exists
<1>3. \A h \in Slots : request[h] = Resting
  BY DEF Init
<1>4. OneTaskInv
  BY DEF Init, DaemonInit, OneTaskInv, OneTaskPerTransfer, LiveFor, Live, NoTask,
         EndEvents, Engaged
<1>5. AtWork /\ ReleaseInv
  BY <1>2, <1>3 DEF AtWork, ReleaseInv, ReleasesAside, ReleaseRuns, Releasing, Resting
<1>6. NewInv
  BY NoFilesetAssumption DEF Init, Resting, NewInv, UsersWork, NoneIsNew, MakersAlone, Making,
     CheckedIsNew, DeletedIsGone, ReleasedIsDeleted, At, NoRow, Exists
<1>7. FilesInv
  BY <1>2, <1>3 DEF FilesInv, WorkShown, WorkAlone, Working, Shaped, FlushReady, DueReady,
     ReleaseAlone, Releasing, Making, At, Resting
<1> QED
  BY <1>1, <1>4, <1>5, <1>6, <1>7 DEF Grounds

\* And stays.
LEMMA GroundsStep ==
    ASSUME Grounds, FilesInv, Undisturbed, [Next]_vars
    PROVE  Grounds' /\ FilesInv'
<1>1. /\ TypeInv /\ OneTaskInv /\ AtWork /\ NewInv /\ ReleaseInv /\ OneAtATime
      /\ "refresh" \notin Ops /\ "cancel" \notin Ops
      /\ "controller_crash" \notin Env /\ "lost_reply" \notin Env
  BY DEF Grounds, Undisturbed
<1>2. TypeInv' /\ OneTaskInv' /\ AtWork' /\ NewInv' /\ ReleaseInv'
  BY <1>1, TypeStep, OneTaskStep, AtWorkStep, NewStep, ReleaseRowsStep
<1> QED
  BY <1>2, FilesStep DEF Grounds

\* A transfer that a daemon moves data for is working.
LEMMA MoversWork ==
    ASSUME Grounds, NEW t \in Transfers, LiveFor(t) # {}
    PROVE  Working(t)
<1>1. PICK k \in TaskIds : ~Idle(k) /\ task[k].of = t
  BY DEF LiveFor, Live, Idle
<1>2. Exists(t)
  BY <1>1 DEF Grounds, TypeInv, TasksNamed
<1>3. transfer[t].kind # "release"
  BY <1>1, <1>2 DEF Grounds, ReleaseInv, ReleasesAside, Untouched
<1> QED
  BY <1>2, <1>3 DEF Working, Engaged

\* Two transfers never move data into or out of one fileset at the same time, if all of
\* this holds: a user asks for one thing after another, and neither refreshes nor cancels;
\* no request comes between a flush's end and the release it asked for; the controller
\* does not crash, and no answer to a dispatch is lost.  A cancel alone breaks it: it
\* leaves the fileset free while the engine is still stopping.  Whichever reports are
\* lost, late, or before their pass's commit makes no difference (services/warm.py,
\* services/flush.py, services/release.py, scheduler/loop.py).
THEOREM OneMover ==
    ASSUME Undisturbed
    PROVE  Spec => []OneMoverPerFileset
<1>1. Grounds /\ FilesInv => OneMoverPerFileset
  BY MoversWork DEF OneMoverPerFileset, FilesInv, WorkAlone
<1> QED
  BY <1>1, FilesBegin, GroundsStep, PTL DEF Spec

\* Whoever is still at a released fileset is going to be refused.
LEMMA ReleasedStays ==
    ASSUME Grounds, FilesInv, Undisturbed, Next, NEW f \in Filesets,
           fileset[f].state = "RELEASED"
    PROVE  fileset'[f] = fileset[f]
<1> SUFFICES ASSUME fileset'[f] # fileset[f] PROVE FALSE
  OBVIOUS
<1>0. TypeInv /\ NewInv /\ FilesInv
  BY DEF Grounds
<1>1. PICK h \in Slots : request[h].f = f /\ request'[h] # request[h]
  BY <1>0, ReleasedAlone
<1>2. ~Making(h) /\ ~At(h, "warm", "checked") /\ ~At(h, "release", "due") /\ ~Releasing(h)
  BY <1>0, <1>1 DEF NewInv, MakersAlone, CheckedIsNew, FilesInv, DueReady, ReleaseAlone
<1>3. At(h, "flush", "checked")
  BY <1>0, <1>1, <1>2, NoFilesetAssumption DEF FilesInv, Shaped
<1>4. Stalled(h) /\ request[h].seen # "NONE" /\ request[h].seen \in FilesetStates \cup {"NONE"}
  BY <1>0, <1>1, <1>3 DEF FilesInv, FlushReady, TypeInv, RequestsOK, Request
<1>5. ASSUME NEW g \in Slots, Requested(g) PROVE FALSE
  <2>1. g = h
    BY <1>1, <1>5 DEF Requested, Creates, LooksToWarm, LooksToFlush, Warms, Flushes, Releases,
       Settles, AsksToStop, Refused, Stopped, Created, NotCreated, Prepared, NotPrepared, Deletes,
       Frees, GivesUp, Rests, Keeps
  <2>2. \A e \in Filesets, t \in Transfers : ~Flushes(h, e, t)
    BY <1>4 DEF Flushes, Stalled, FilesetMoves, FilesetStates
  <2>3. request[h] # Resting
    BY <1>3 DEF At, Resting
  <2>4. UNCHANGED fileset
    BY <1>3, <1>5, <2>1, <2>2, <2>3
       DEF Requested, Creates, LooksToWarm, LooksToFlush, Warms, Releases, Begins, Settles,
           Undisturbed, AsksToStop, Refused, Stopped, Created, NotCreated, Prepared, NotPrepared,
           Deletes, Frees, GivesUp, At
  <2> QED
    BY <2>4
<1>6. ~EventStep
  <2>1. request[h] # Resting
    BY <1>3 DEF At, Resting
  <2> QED
    BY <1>0, <1>1, <2>1, EventColumns DEF NextRelease, Keeps
<1>7. ~PassStep /\ ~RestartStep /\ \A k \in TaskIds : ~DaemonStep(k)
  BY <1>0, <1>1, PassColumns, RestartColumns
     DEF Undisturbed, DaemonLost, ControllerLost, Reconciled, DaemonStep, controllerVars
<1> QED
  BY <1>0, <1>5, <1>6, <1>7, RequestColumns, AnswerColumns DEF Next, Slots

\* A released fileset stays released and its directory gone, if all of this holds: a user
\* asks for one thing after another, and neither refreshes nor cancels; no request comes
\* between a flush's end and the release it asked for; the controller does not crash, and
\* no answer to a dispatch is lost.  Nothing is then left under way at the time of a
\* release that could still write to it (services/release.py, services/events.py).
THEOREM ReleaseStays ==
    ASSUME Undisturbed
    PROVE  Spec => ReleaseIsFinal
<1>1. Grounds /\ FilesInv /\ [Next]_vars =>
        [\A f \in Filesets :
           fileset[f].state = "RELEASED" => fileset'[f] = fileset[f]]_fileset
  BY ReleasedStays DEF vars, controllerVars
<1> QED
  BY <1>1, FilesBegin, GroundsStep, PTL DEF Spec, ReleaseIsFinal

-----------------------------------------------------------------------------
(* Nothing is deleted where data moves.                                    *)

\* Only the request of a release deletes a directory, while it is at its fileset.
LEMMA OnlyReleasesDelete ==
    ASSUME TypeInv, Next, NEW f \in Filesets, fileset[f].dir, ~fileset'[f].dir
    PROVE  \E h \in Slots : Releasing(h) /\ request[h].f = f
<1> SUFFICES ASSUME \A h \in Slots : ~(Releasing(h) /\ request[h].f = f) PROVE FALSE
  OBVIOUS
<1>1. ASSUME NEW t, NEW seq, NEW kind, Tells(t, seq, kind) PROVE FALSE
  BY <1>1 DEF Tells, ToldRunning, ToldAgain, ToldEnd, State, Place
<1>2. ASSUME NEW h \in Slots, Requested(h) PROVE FALSE
  <2>1. ASSUME NEW g \in Filesets,
               \/ Creates(h, g) \/ Created(h, g) \/ NotCreated(h, g)
               \/ Prepared(h, g) \/ NotPrepared(h, g) \/ Deletes(h, g)
        PROVE  FALSE
    BY <2>1 DEF Creates, Created, NotCreated, Prepared, NotPrepared, Deletes, State, Place,
       Releasing, At
  <2>2. ASSUME NEW g \in Filesets, NEW t \in Transfers,
               \/ Warms(h, g, t) \/ Flushes(h, g, t) \/ Releases(h, g, t)
               \/ Frees(h, g, t) \/ GivesUp(h, g, t)
        PROVE  FALSE
    BY <2>2 DEF Warms, Flushes, Releases, Frees, GivesUp, State, Place
  <2>3. ASSUME NEW t \in Transfers, Settles(h, t) PROVE FALSE
    BY <2>3 DEF Settles, State, Place
  <2> QED
    BY <1>2, <2>1, <2>2, <2>3
       DEF Requested, LooksToWarm, LooksToFlush, AsksToStop, Refused, Stopped
<1>3. ~PassStep /\ \A k \in TaskIds : ~DaemonStep(k)
  BY PassColumns DEF DaemonStep, controllerVars
<1>4. ~EventStep
  BY <1>1, EventColumns
<1>5. ~RestartStep
  BY <1>1, RestartColumns DEF DaemonLost, ControllerLost, Reconciled
<1> QED
  BY <1>2, <1>3, <1>4, <1>5, RequestColumns, AnswerColumns DEF Next, Slots

\* In the surroundings of OneMover no directory is deleted while a task moves data into or
\* out of it: a release begins only on a fileset at rest, and what is being filled or
\* flushed is not at rest, whether its directory was made in time, and whether its
\* reports come before or after the commit of the pass (services/release.py,
\* services/warm.py, domain/filesets.py).
THEOREM NothingDeletedUnder ==
    ASSUME Undisturbed
    PROVE  Spec => NothingDeletedUnderMovers
<1>1. ASSUME Grounds, FilesInv, Next, NEW f \in Filesets, fileset[f].dir, ~fileset'[f].dir,
             NEW t \in Transfers, transfer[t].fs = f
      PROVE  LiveFor(t) = {}
  <2>1. TypeInv /\ FilesInv
    BY <1>1 DEF Grounds
  <2>2. fileset[f].state = "RELEASING"
    BY <1>1, <2>1, OnlyReleasesDelete DEF FilesInv, ReleaseAlone
  <2>3. ~Working(t)
    BY <1>1, <2>1, <2>2, NobodyWorks
  <2> QED
    BY <1>1, <2>3, MoversWork
<1>2. Grounds /\ FilesInv /\ [Next]_vars =>
        [\A f \in Filesets :
           fileset[f].dir /\ ~fileset'[f].dir =>
             \A t \in Transfers : transfer[t].fs = f => LiveFor(t) = {}]_vars
  BY <1>1
<1> QED
  BY <1>2, FilesBegin, GroundsStep, PTL DEF Spec, NothingDeletedUnderMovers

-----------------------------------------------------------------------------
(* Which reports are refused.                                              *)

\* What is told of a transfer that still waits is told before its pass has committed.
NewsIsEarly ==
    \A e \in events :
      transfer[e.t].seq < e.seq /\ transfer[e.t].state = "SUBMITTED" => sent[e.t] # 0

\* What this rests on: without the daemon's restarts its numbers tell old from new.
NewsGrounds == Grounds /\ FilesInv /\ NumberInv /\ NewsIsEarly

\* A report leaves nothing newer on a transfer that it sends back to the queue.
LEMMA ReportKeepsNews ==
    ASSUME NewsGrounds, EventStep
    PROVE  NewsIsEarly'
<1>0. TypeInv /\ NumberInv /\ NewsIsEarly
  BY DEF NewsGrounds, Grounds
<1>1. PICK e \in events :
        /\ Taken(e)
        /\ UNCHANGED transfer \/ Tells(e.t, e.seq, e.kind)
  BY <1>0, EventColumns
<1>2. events' = events \ {e} /\ UNCHANGED sent /\ e.t \in Transfers
  BY <1>1 DEF Taken
<1>3. ASSUME NEW d \in events, d # e, d.t = e.t, Tells(e.t, e.seq, e.kind),
             transfer'[d.t].state = "SUBMITTED"
      PROVE  ~(transfer'[d.t].seq < d.seq)
  <2>1. e.kind = "failed" /\ transfer'[d.t].seq = e.seq
    BY <1>3 DEF Tells, ToldRunning, ToldAgain, ToldEnd, RowTold
  <2>2. e.seq = reported[e.t] /\ d.seq <= reported[e.t]
    BY <1>0, <1>3, <2>1 DEF NumberInv, Numbered, EndsNewest
  <2>3. d.seq \in Nat /\ reported[e.t] \in Nat
    BY <1>0, <1>2 DEF TypeInv, DaemonTypeOK, Event
  <2> QED
    BY <2>1, <2>2, <2>3
<1>4. Tells(e.t, e.seq, e.kind) => \A u \in Transfers \ {e.t} : transfer'[u] = transfer[u]
  BY DEF Tells, ToldRunning, ToldAgain, ToldEnd, RowTold
<1>5. \A d \in events : d.t \in Transfers
  BY <1>0 DEF TypeInv, DaemonTypeOK, Event
<1> QED
  BY <1>0, <1>1, <1>2, <1>3, <1>4, <1>5 DEF NewsIsEarly

\* A request touches no row that anything is told of.
LEMMA RequestKeepsNews ==
    ASSUME NewsGrounds, Undisturbed, NEW h \in Slots, Aside, Requested(h)
    PROVE  NewsIsEarly'
<1>0. /\ TypeInv /\ ReleaseInv /\ NewsIsEarly
      /\ \A t \in Transfers : ~Settles(h, t)
  BY RequestsAtWork DEF NewsGrounds, Grounds, Undisturbed
<1>1. ASSUME NEW t \in Transfers PROVE transfer'[t] = transfer[t] \/ Untouched(t)
  <2>1. ~Exists(t) => Untouched(t)
    BY <1>0, NewIsUntouched
  <2>2. ASSUME NEW f \in Filesets, NEW u \in Transfers, Frees(h, f, u) \/ GivesUp(h, f, u)
        PROVE  transfer'[t] = transfer[t] \/ Untouched(t)
    <3>1. u = request[h].t /\ Releasing(h) /\ \A v \in Transfers \ {u} : transfer'[v] = transfer[v]
      BY <2>2 DEF Frees, GivesUp, RowState, Releasing, At
    <3>2. Exists(u) /\ transfer[u].kind = "release"
      BY <1>0, <3>1 DEF ReleaseInv, ReleaseRuns, Exists
    <3> QED
      BY <1>0, <3>1, <3>2 DEF ReleaseInv, ReleasesAside
  <2> QED
    BY <1>0, <2>1, <2>2, RequestRows DEF NewRow, Releases
<1>2. \A e \in events : e.t \in Transfers /\ ~Untouched(e.t)
  BY <1>0 DEF TypeInv, DaemonTypeOK, Event, Untouched
<1> QED
  BY <1>0, <1>1, <1>2 DEF NewsIsEarly, Aside

\* A pass remembers what it has handed over until its commit says so.
LEMMA PassKeepsNews ==
    ASSUME NewsGrounds, "lost_reply" \notin Env, PassStep
    PROVE  NewsIsEarly'
<1>0. TypeInv /\ NewsIsEarly /\ UNCHANGED events /\ \A e \in events : e.t \in Transfers
  BY PassColumns DEF NewsGrounds, Grounds, TypeInv, DaemonTypeOK, Event
<1>1. ASSUME NEW t \in Transfers, NEW k \in TaskIds, HandsOver(t, k) PROVE NewsIsEarly'
  <2>1. sent'[t] # 0 /\ UNCHANGED transfer /\ \A u \in Transfers \ {t} : sent'[u] = sent[u]
    BY <1>1, TaskIdsAssumption DEF HandsOver
  <2> QED
    BY <1>0, <2>1 DEF NewsIsEarly
<1>2. ASSUME Writes PROVE NewsIsEarly'
  BY <1>0, <1>2 DEF Writes, NewsIsEarly
<1>3. UNCHANGED <<transfer, sent>> => NewsIsEarly'
  BY <1>0 DEF NewsIsEarly
<1> QED
  BY <1>0, <1>1, <1>2, <1>3, PassColumns DEF Reads, PassesBy

\* A daemon tells only of what it was handed.
LEMMA DaemonKeepsNews ==
    ASSUME NewsGrounds, NEW k \in TaskIds, DaemonStep(k)
    PROVE  NewsIsEarly'
<1> DEFINE t == task[k].of
<1>0. TypeInv /\ OneTaskInv /\ NewsIsEarly
  BY DEF NewsGrounds, Grounds
<1>1. /\ UNCHANGED <<transfer, sent>> /\ t \in Transfers /\ Live(k)
      /\ \E kind \in EventKinds : Reports(t, kind)
  BY <1>0, DaemonColumns DEF controllerVars, schedulerVars
<1>2. transfer[t].state = "SUBMITTED" => sent[t] # 0
  BY <1>0, <1>1 DEF OneTaskInv, Engaged, LiveFor
<1>3. \A e \in events' \ events : e.t = t
  BY <1>1 DEF Reports
<1> QED
  BY <1>0, <1>1, <1>2, <1>3 DEF NewsIsEarly

\* Every step keeps that, and what it rests on.
LEMMA NewsStep ==
    ASSUME NewsGrounds, Undisturbed, "daemon_restart" \notin Env, [Next]_vars
    PROVE  NewsGrounds'
<1>0. /\ Grounds /\ FilesInv /\ NumberInv /\ NewsIsEarly
      /\ TypeInv /\ OneTaskInv
      /\ "controller_crash" \notin Env /\ "lost_reply" \notin Env
  BY DEF NewsGrounds, Grounds, Undisturbed
<1>1. Grounds' /\ FilesInv' /\ NumberInv'
  BY <1>0, GroundsStep, NumberStep
<1>2. CASE UNCHANGED vars
  <2>1. NewsIsEarly'
    BY <1>0, <1>2 DEF vars, controllerVars, daemonVars, NewsIsEarly
  <2> QED
    BY <1>1, <2>1 DEF NewsGrounds
<1>3. CASE Next
  <2>1. ~RestartStep
    BY <1>0, RestartColumns DEF OneTaskInv, DaemonLost, ControllerLost, Reconciled
  <2>2. NewsIsEarly'
    BY <1>0, <1>3, <2>1, RequestColumns, AnswerColumns, RequestKeepsNews, PassKeepsNews,
       ReportKeepsNews, DaemonKeepsNews DEF Next, Slots
  <2> QED
    BY <1>1, <2>2 DEF NewsGrounds
<1> QED
  BY <1>2, <1>3

\* No end is refused for the sake of its fileset.
LEMMA EndsFitFilesets ==
    ASSUME Grounds, FilesInv, NEW e \in events, e.t \in Transfers, Exists(e.t),
           e.kind \in {"finished", "failed"}
    PROVE  fileset[transfer[e.t].fs].state \in {"CREATING", "POPULATING", "FLUSHING"}
<1>1. Engaged(e.t) /\ TypeInv /\ transfer[e.t].fs \in Filesets
  BY DEF Engaged, EndEvents, Grounds, TypeInv, TransfersOK
<1>2. transfer[e.t].kind # "release"
  BY DEF Grounds, ReleaseInv, ReleasesAside, Untouched
<1>3. Working(e.t)
  BY <1>1, <1>2 DEF Working
<1> QED
  BY <1>1, <1>3, NobodyWorks

\* In the surroundings of OneMover, and as long as daemons do not restart, a report is
\* refused only before the commit of the pass that caused it, or as the success of a
\* transfer whose start was not heard, however reports overtake each other or are lost
\* (services/events.py, domain/transfers.py, domain/filesets.py, scheduler/loop.py).
THEOREM ReportsAreTaken ==
    ASSUME Undisturbed, "daemon_restart" \notin Env
    PROVE  Spec => EveryReportIsTaken
<1>1. Init => NewsGrounds
  <2> SUFFICES ASSUME Init PROVE NumberInv /\ NewsIsEarly
    BY FilesBegin DEF NewsGrounds
  <2> QED
    BY DEF Init, DaemonInit, NumberInv, Numbered, EndsNewest, NoRow, NewsIsEarly
<1>2. NewsGrounds /\ [Next]_vars => NewsGrounds'
  BY NewsStep
<1>3. ASSUME NewsGrounds, NEW e \in events, EventRaises(e)
      PROVE  \/ transfer[e.t].state = "SUBMITTED" /\ sent[e.t] # 0
             \/ transfer[e.t].state = "ASSIGNED" /\ e.kind = "finished"
  <2> DEFINE row == transfer[e.t]
  <2>0. TypeInv /\ NewsIsEarly /\ Grounds /\ FilesInv
    BY <1>3 DEF NewsGrounds, Grounds
  <2>1. /\ e.t \in Transfers /\ e.seq \in Nat /\ e.kind \in EventKinds /\ Exists(e.t)
        /\ row.state \in TransferStates /\ row.seq \in Nat
    <3>1. e.t \in Transfers /\ e.seq \in Nat /\ e.kind \in EventKinds /\ Exists(e.t)
      BY <2>0 DEF TypeInv, DaemonTypeOK, Event, EventsNamed
    <3>2. row \in TransferRow
      BY <2>0, <3>1 DEF TypeInv, TransfersOK
    <3> QED
      BY <3>1, <3>2 DEF TransferRow, Exists
  <2>2. /\ row.seq < e.seq
        /\ IsBackwards(row.state, TargetState[e.kind]) => row.state = TargetState[e.kind]
        /\ ~Allowed(e.t, e.kind, e.failure)
    BY <1>3, <2>1 DEF EventRaises, Raises, Ignored
  <2>3. row.state = "SUBMITTED" => sent[e.t] # 0
    BY <2>0, <2>2 DEF NewsIsEarly
  <2>4. \/ e.kind \in {"started", "progress"}
        \/ FilesetTarget(e.t, e.kind, e.failure) \in FilesetMoves[fileset[row.fs].state]
        \/ Retrying(e.t, e.kind, e.failure)
    BY <2>0, <2>1, EndsFitFilesets DEF FilesetTarget, FilesetMoves, EventKinds
  <2>5. ~(row.state = TargetState[e.kind] \/ TargetState[e.kind] \in TransferMoves[row.state])
    BY <2>2, <2>4 DEF Allowed
  <2>6. row.state \in {"SUBMITTED", "ASSIGNED"}
    BY <2>1, <2>2, <2>5
       DEF IsBackwards, Rank, TargetState, TransferMoves, EventKinds, TransferStates
  <2>7. row.state = "ASSIGNED" => e.kind = "finished"
    BY <2>1, <2>5 DEF TargetState, TransferMoves, EventKinds
  <2> QED
    BY <2>3, <2>6, <2>7
<1>4. NewsGrounds /\ [Next]_vars =>
        [\A e \in events :
           EventRaises(e) =>
             \/ transfer[e.t].state = "SUBMITTED" /\ sent[e.t] # 0
             \/ transfer[e.t].state = "ASSIGNED" /\ e.kind = "finished"]_vars
  BY <1>3
<1> QED
  BY <1>1, <1>2, <1>4, PTL DEF Spec, EveryReportIsTaken
=============================================================================
