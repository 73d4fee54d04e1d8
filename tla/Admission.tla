------------------------------ MODULE Admission -------------------------------
(***************************************************************************)
(* Admission of filesets: who may reserve how much of which cache.         *)
(*                                                                         *)
(* A request takes its user's advisory lock, sums up what is reserved,     *)
(* decides, and inserts or changes the row; its commit frees the lock.     *)
(* Requests of different users, releases, and admins who change a user's   *)
(* limits, are not held back by it.                                        *)
(* The two refusals that no sum decides (a drained storage, a fileset over *)
(* its reservation) are covered by a request that is simply never made.    *)
(* What becomes of a row once it is reserved is Controller's subject: that *)
(* a released row stays released is taken from there (ReleaseIsFinal,      *)
(* proved in ControllerProofs).                                            *)
(***************************************************************************)
EXTENDS Integers, FiniteSets, FiniteSetsExt

CONSTANTS
    Users,
    Storages,       \* the cache storages
    OutputNames,    \* what users call the filesets they create
    CachedNames,    \* what users call the filesets they warm
    Filesets,       \* ids of fileset rows
    Handlers,       \* requests in progress at one time (a bound)
    Nobody,         \* no handler holds the lock
    NoFileset,      \* stands for no fileset at all
    Sizes,          \* how much requests ask for
    UserLimit,      \* a user's limit on each storage, unless an admin sets one
    TotalLimit,     \* a user's limit across all caches, unless an admin sets one
    Settable,       \* the limits admins set: scopes and values (a bound)
    Everywhere,     \* what a limit across all caches is kept under
    Unset,          \* no admin has set the limit
    Usable,         \* capacity of each storage times its fill_limit
    MaxFilesets,    \* limits.max_filesets_per_user
    Ops             \* what users and admins ask for, and crashes: see AllOps

AllOps == {"create", "warm", "resize", "release", "limit", "crash"}

ASSUME NobodyAssumption == Nobody \notin Handlers
ASSUME NoFilesetAssumption == NoFileset \notin Filesets
ASSUME EverywhereAssumption == Everywhere \notin Storages
ASSUME SettableAssumption == Settable \subseteq (Storages \cup {Everywhere}) \X Nat
ASSUME UnsetAssumption == Unset \notin Nat
ASSUME NamesAssumption == OutputNames \cap CachedNames = {}
ASSUME SomeAssumption == Users # {} /\ Storages # {} /\ OutputNames \cup CachedNames # {}
ASSUME FiniteAssumption == IsFiniteSet(Filesets)
ASSUME SizesAssumption == Sizes \subseteq Nat \ {0}
ASSUME LimitsAssumption ==
    /\ UserLimit \in Nat
    /\ TotalLimit \in Nat
    /\ Usable \in Nat
    /\ MaxFilesets \in Nat
ASSUME OpsAssumption == Ops \subseteq AllOps

VARIABLES
    row,            \* Filesets -> row of the filesets table
    lock,           \* Users -> the handler whose transaction holds the user's lock
    request,        \* Handlers -> the request being worked on
    limit           \* Users -> storage or Everywhere -> row of user_limits

vars == <<row, lock, request, limit>>

Scopes == Storages \cup {Everywhere}

Names == OutputNames \cup CachedNames

Row ==
    [state: {"none", "creating", "held", "released"}, kind: {"cached", "output"},
     user: Users, storage: Storages, name: Names, allocated: Nat]

Request ==
    [op: {"none", "create", "warm", "resize"},
     at: {"idle", "read", "admitted", "making"},
     user: Users, storage: Storages, name: Names, size: Nat,
     f: Filesets \cup {NoFileset}, seen: Nat, own: Nat, total: Nat]

TypeOK ==
    /\ row \in [Filesets -> Row]
    /\ lock \in [Users -> Handlers \cup {Nobody}]
    /\ request \in [Handlers -> Request]
    /\ limit \in [Users -> [Scopes -> Nat \cup {Unset}]]

Resting ==
    [op |-> "none", at |-> "idle", user |-> CHOOSE u \in Users : TRUE,
     storage |-> CHOOSE s \in Storages : TRUE, name |-> CHOOSE n \in Names : TRUE,
     size |-> 0, f |-> NoFileset, seen |-> 0, own |-> 0, total |-> 0]

Init ==
    /\ row = [f \in Filesets |->
                [state |-> "none", kind |-> "cached", user |-> Resting.user,
                 storage |-> Resting.storage, name |-> Resting.name, allocated |-> 0]]
    /\ lock = [u \in Users |-> Nobody]
    /\ request = [h \in Handlers |-> Resting]
    /\ limit = [u \in Users |-> [k \in Scopes |-> Unset]]

-----------------------------------------------------------------------------
(* What admission looks at.                                                *)

\* Reserved from CREATING until RELEASED, whatever is used.
Live == {f \in Filesets : row[f].state \in {"creating", "held"}}

OwnedBy(u) == {f \in Live : row[f].user = u}

OnStorage(s) == {f \in Live : row[f].storage = s}

\* live_fileset: the unique index on live names allows at most one.
Named(u, s, n) == {f \in OwnedBy(u) \cap OnStorage(s) : row[f].name = n}

Allocated(fs) == MapThenSumSet(LAMBDA f : row[f].allocated, fs)

\* Clearing a limit falls back to the configured default.
LimitOn(u, s) == IF limit[u][s] = Unset THEN UserLimit ELSE limit[u][s]

TotalOf(u) == IF limit[u][Everywhere] = Unset THEN TotalLimit ELSE limit[u][Everywhere]

\* Mutant: the last fileset a user may have is counted one short.
AdmitsOneMore(u, s, needed) ==
    /\ Cardinality(OwnedBy(u)) <= MaxFilesets
    /\ needed <= LimitOn(u, s) - Allocated(OwnedBy(u) \cap OnStorage(s))
    /\ needed <= TotalOf(u) - Allocated(OwnedBy(u))
    /\ needed <= Usable - Allocated(OnStorage(s))

\* Mutant: the user's limit on the storage is not looked at.
AdmitsAnyOnStorage(u, s, needed) ==
    /\ Cardinality(OwnedBy(u)) < MaxFilesets
    /\ needed <= TotalOf(u) - Allocated(OwnedBy(u))
    /\ needed <= Usable - Allocated(OnStorage(s))

\* Mutant: only the user's own share of the storage counts against its capacity.
AdmitsOwnShare(u, s, needed) ==
    /\ Cardinality(OwnedBy(u)) < MaxFilesets
    /\ needed <= LimitOn(u, s) - Allocated(OwnedBy(u) \cap OnStorage(s))
    /\ needed <= TotalOf(u) - Allocated(OwnedBy(u))
    /\ needed <= Usable - Allocated(OwnedBy(u) \cap OnStorage(s))

Admits(u, s, needed) ==
    /\ Cardinality(OwnedBy(u)) < MaxFilesets
    /\ needed <= LimitOn(u, s) - Allocated(OwnedBy(u) \cap OnStorage(s))
    /\ needed <= TotalOf(u) - Allocated(OwnedBy(u))
    /\ needed <= Usable - Allocated(OnStorage(s))

-----------------------------------------------------------------------------
(* Shared by the requests.                                                 *)

Free(h) == request[h] = Resting

At(h, op, at) == request[h].op = op /\ request[h].at = at

\* Mutant: nothing is waited for.
LockNothing(h, u) == UNCHANGED lock

\* pg_advisory_xact_lock: waits for the transaction that holds it.
Lock(h, u) == lock[u] = Nobody /\ lock' = [lock EXCEPT ![u] = h]

\* Every way a transaction ends frees what it locked.
Unlock(h) == lock' = [u \in Users |-> IF lock[u] = h THEN Nobody ELSE lock[u]]

Done(h) == request' = [request EXCEPT ![h] = Resting]

\* A new row, with an id that no request knows; the unique index refuses a name
\* that is live.
Insert(h, f, state, kind) ==
    LET r == request[h] IN
    /\ row[f].state = "none"
    /\ \A g \in Handlers : request[g].f # f
    /\ Named(r.user, r.storage, r.name) = {}
    /\ row' = [row EXCEPT ![f] = [state |-> state, kind |-> kind, user |-> r.user,
                                  storage |-> r.storage, name |-> r.name,
                                  allocated |-> r.size]]

-----------------------------------------------------------------------------
(* Creating an output fileset: reserve, make the directory, hold it.       *)

CreateAdmit(h, u, s, n, size) ==
    /\ "create" \in Ops
    /\ Free(h)
    /\ Lock(h, u)
    /\ Named(u, s, n) = {}
    /\ Admits(u, s, size)
    /\ request' = [request EXCEPT ![h] =
                     [Resting EXCEPT !.op = "create", !.at = "admitted", !.user = u,
                                     !.storage = s, !.name = n, !.size = size,
                                     !.own = LimitOn(u, s), !.total = TotalOf(u)]]
    /\ UNCHANGED <<row, limit>>

CreateReserve(h, f) ==
    /\ At(h, "create", "admitted")
    /\ Insert(h, f, "creating", "output")
    /\ Unlock(h)
    /\ request' = [request EXCEPT ![h].at = "making", ![h].f = f,
                                  ![h].own = 0, ![h].total = 0]
    /\ UNCHANGED limit

CreateMade(h) ==
    /\ At(h, "create", "making")
    /\ row' = [row EXCEPT ![request[h].f].state = "held"]
    /\ Done(h)
    /\ UNCHANGED <<lock, limit>>

\* Mutant: what could not be made stays reserved.
CreateFailsKeeping(h) ==
    /\ At(h, "create", "making")
    /\ Done(h)
    /\ UNCHANGED <<row, lock, limit>>

\* The row is deleted and its name is free again.
CreateFails(h) ==
    /\ At(h, "create", "making")
    /\ row' = [row EXCEPT ![request[h].f].state = "none"]
    /\ Done(h)
    /\ UNCHANGED <<lock, limit>>

-----------------------------------------------------------------------------
(* Warming: only what the fileset does not hold yet is admitted.           *)

WarmAdmit(h, u, s, n, size) ==
    LET existing == Named(u, s, n) IN
    \E f \in IF existing = {} THEN {NoFileset} ELSE existing :
      LET already == IF f = NoFileset THEN 0 ELSE row[f].allocated IN
      /\ "warm" \in Ops
      /\ Free(h)
      /\ Lock(h, u)
      /\ size > already => Admits(u, s, size - already)
      /\ request' = [request EXCEPT ![h] =
                       [Resting EXCEPT !.op = "warm", !.at = "admitted", !.user = u,
                                       !.storage = s, !.name = n, !.size = size,
                                       !.f = f, !.seen = already,
                                       !.own = LimitOn(u, s), !.total = TotalOf(u)]]
      /\ UNCHANGED <<row, limit>>

\* A reservation only grows: what is written is the larger of the two.  The row
\* and its transfer stay from here on, whatever the daemon answers.
WarmReserve(h, f) ==
    /\ At(h, "warm", "admitted")
    /\ \/ request[h].f = NoFileset /\ Insert(h, f, "held", "cached")
       \/ /\ request[h].f = f
          /\ row' = IF request[h].size > request[h].seen
                    THEN [row EXCEPT ![f].allocated = request[h].size] ELSE row
    /\ Unlock(h)
    /\ Done(h)
    /\ UNCHANGED limit

-----------------------------------------------------------------------------
(* Resizing: the row is read first and the lock is taken after.            *)

ResizeRead(h, f) ==
    /\ "resize" \in Ops
    /\ Free(h)
    /\ f \in Live
    /\ request' = [request EXCEPT ![h] =
                     [Resting EXCEPT !.op = "resize", !.at = "read", !.f = f,
                                     !.user = row[f].user, !.storage = row[f].storage,
                                     !.seen = row[f].allocated]]
    /\ UNCHANGED <<row, lock, limit>>

\* Shrinking, too, takes the lock; only growing is admitted.
ResizeAdmit(h, size) ==
    LET r == request[h] IN
    /\ At(h, "resize", "read")
    /\ Lock(h, r.user)
    /\ size > r.seen => Admits(r.user, r.storage, size - r.seen)
    /\ request' = [request EXCEPT ![h].at = "admitted", ![h].size = size,
                                  ![h].own = LimitOn(r.user, r.storage),
                                  ![h].total = TotalOf(r.user)]
    /\ UNCHANGED <<row, limit>>

\* A size equal to the one read is no change, and nothing is written; a row that
\* was deleted cannot be (ResizeFails).
ResizeCommit(h) ==
    LET r == request[h] IN
    /\ At(h, "resize", "admitted")
    /\ row[r.f].state # "none"
    /\ row' = IF r.size # r.seen THEN [row EXCEPT ![r.f].allocated = r.size] ELSE row
    /\ Unlock(h)
    /\ Done(h)
    /\ UNCHANGED limit

\* The daemon does not set the quota, or the resize is refused: rolled back.
ResizeFails(h) ==
    /\ request[h].op = "resize"
    /\ Unlock(h)
    /\ Done(h)
    /\ UNCHANGED <<row, limit>>

-----------------------------------------------------------------------------
(* What happens beside admission.                                          *)

\* A release takes no lock.
Release(f) ==
    /\ "release" \in Ops
    /\ row[f].state = "held"
    /\ row' = [row EXCEPT ![f].state = "released"]
    /\ UNCHANGED <<lock, request, limit>>

\* An admin changes a user's limit, whatever the user holds or has been admitted for.
ChangeLimit(u, k, value) ==
    /\ "limit" \in Ops
    /\ limit' = [limit EXCEPT ![u][k] = value]
    /\ UNCHANGED <<row, lock, request>>

SetLimit(u) == \E l \in Settable : ChangeLimit(u, l[1], l[2])

ClearLimit(u) == \E k \in Scopes : limit[u][k] # Unset /\ ChangeLimit(u, k, Unset)

\* The database rolls back what was not committed; no handler goes on.
Crash ==
    /\ "crash" \in Ops
    /\ lock' = [u \in Users |-> Nobody]
    /\ request' = [h \in Handlers |-> Resting]
    /\ UNCHANGED <<row, limit>>

Step(h) ==
    \/ \E u \in Users, s \in Storages, size \in Sizes :
         \/ \E n \in OutputNames : CreateAdmit(h, u, s, n, size)
         \/ \E n \in CachedNames : WarmAdmit(h, u, s, n, size)
    \/ \E f \in Filesets : CreateReserve(h, f) \/ WarmReserve(h, f) \/ ResizeRead(h, f)
    \/ \E size \in Sizes : ResizeAdmit(h, size)
    \/ CreateMade(h) \/ CreateFails(h)
    \/ ResizeCommit(h) \/ ResizeFails(h)

Next ==
    \/ \E h \in Handlers : Step(h)
    \/ \E f \in Filesets : Release(f)
    \/ \E u \in Users : SetLimit(u) \/ ClearLimit(u)
    \/ Crash

Spec == Init /\ [][Next]_vars

-----------------------------------------------------------------------------
(* Properties.                                                             *)

\* A resize decided by a size that its fileset does not reserve any more.
StaleResize(u) ==
    \E h \in Handlers :
      LET r == request[h] IN
      At(h, "resize", "admitted") /\ r.user = u /\ row[r.f].allocated # r.seen

\* The request that is admitted for a user; its lock lets there be one.
Decided(u) == {h \in Handlers : request[h].at = "admitted" /\ request[h].user = u}

\* No two requests that fit one by one take a user past the limit on a storage, for
\* sums are taken and rows inserted under lock_user (services/filesets.py).  A limit
\* lowered meanwhile (services/limits.py) lets in what was admitted under it, up to the
\* limit it was admitted under; nothing else gets past it but a resize that read its
\* row before the lock.
NeverPastLimits ==
    [][\A u \in Users :
         /\ \A s \in Storages :
              LET mine == Allocated(OwnedBy(u) \cap OnStorage(s)) IN
              mine' > mine /\ mine' > LimitOn(u, s)
                => StaleResize(u) \/ \E h \in Decided(u) : mine' <= request[h].own
         /\ LET mine == Allocated(OwnedBy(u)) IN
            mine' > mine /\ mine' > TotalOf(u)
              => StaleResize(u) \/ \E h \in Decided(u) : mine' <= request[h].total]_vars

\* A user's reservations on a storage are within the limit, whoever resizes.  (The
\* code breaks it: a resize knows its growth before it has the lock.)
UserWithinLimit ==
    \A u \in Users, s \in Storages : Allocated(OwnedBy(u) \cap OnStorage(s)) <= UserLimit

\* Nor past the number of filesets a user may have, in any case.
CountWithinLimit == \A u \in Users : Cardinality(OwnedBy(u)) <= MaxFilesets

\* The reservations on a storage fit what it may be filled to (domain/allocation.py
\* admit, the last rule): checked under one user's lock, for rows of every user.
StorageWithinCapacity == \A s \in Storages : Allocated(OnStorage(s)) <= Usable

\* What was admitted under a name is never refused by the unique index: the name
\* found free under the lock stays free until the row is in (live_fileset).
AdmittedNameIsFree ==
    \A h \in Handlers :
      LET r == request[h] IN
      r.op \in {"create", "warm"} /\ r.at = "admitted" /\ r.f = NoFileset
        => Named(r.user, r.storage, r.name) = {}

\* An output fileset that is still CREATING is one somebody is making: when its
\* directory could not be made, nothing stays reserved (create_output_fileset).
NothingStaysReserved ==
    \A f \in Filesets :
      row[f].state = "creating" /\ row[f].kind = "output"
        => \E h \in Handlers : At(h, "create", "making") /\ request[h].f = f
=============================================================================
