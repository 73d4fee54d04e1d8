----------------------------- MODULE Accounting ------------------------------
(***************************************************************************)
(* What is remembered of transfers: the fair-share points their users owe  *)
(* (services/fairshare.py), the daily statistics their rows are rolled     *)
(* into before they are removed (services/retention.py), and the usage     *)
(* report that is read from both (services/reports.py).                    *)
(*                                                                         *)
(* Of a transfer's life only what these read is kept; Controller has the   *)
(* rest.  A submission commits the row first and charges it in a second    *)
(* transaction, so others see the row before its points.  Nothing locks an *)
(* account: a transaction reads the row it ends, then the points, and      *)
(* commits both as it has made them (open).                                *)
(*                                                                         *)
(* Time goes in ticks, finer than the seconds that statistics are kept in. *)
(* The code lets points decay at every moment by 2^(-elapsed/half_life);   *)
(* here they halve as a half-life passes, which is the same where a tick   *)
(* is a half-life, and amounts are multiples of a power of two, so that    *)
(* halving is exact.  A pruned row is kept for the properties to look at;  *)
(* nothing else reads it.                                                  *)
(***************************************************************************)
EXTENDS Integers, FiniteSets, FiniteSetsExt, Rules

CONSTANTS
    Transfers,
    Users,
    About,          \* Transfers -> [user, storage, route, kind]
    LocationOf,     \* storages -> locations, as configured
    Size,           \* Transfers -> bytes_total, in tenths of a GiB
    PointsPerGib,   \* scheduling.fairshare.points_per_gib
    Retention,      \* retention.transfers, in ticks
    PerSecond,      \* ticks in a second
    PerDay,         \* ticks in a day
    PerHalfLife,    \* ticks in scheduling.fairshare.half_life
    MaxNow,         \* bound: when the model's time ends
    NoTime,         \* stands for a time that is not set
    Env             \* what the surroundings may do: see AllEnv

AllEnv ==
    {"uncharged",       \* a submission dies, or is refused, before it charges
     "ended_early",     \* a transfer is ended without running before it is charged
     "overlap"}         \* others are served while a transaction is open

ASSUME AboutAssumption ==
    \A t \in Transfers : /\ About[t].user \in Users
                         /\ About[t].storage \in DOMAIN LocationOf
                         /\ About[t].kind \in TransferKinds
ASSUME SizeAssumption == Size \in [Transfers -> Nat \ {0}]
ASSUME TimeAssumption ==
    /\ PerSecond \in Nat \ {0} /\ PerDay \in Nat \ {0} /\ PerHalfLife \in Nat \ {0}
    /\ Retention \in Nat /\ MaxNow \in Nat /\ NoTime \notin Nat
ASSUME ExactAssumption ==
    PointsPerGib \in Nat /\ PointsPerGib % 2^(MaxNow \div PerHalfLife) = 0
ASSUME EnvAssumption == Env \subseteq AllEnv
ASSUME FiniteAssumption == IsFiniteSet(Transfers)

VARIABLES
    now,            \* ticks passed
    row,            \* Transfers -> its row, as last written
    pruned,         \* transfers whose rows have been removed
    charge,         \* Transfers -> how far its submission is with the points
    open,           \* transactions that have read and not committed: see Transactions
    account,        \* Users -> stored points, and when they were last decayed
    pruning,        \* rows as the transaction that removes them has read them
    stats           \* buckets -> their sums; a bucket that is not there has none

rowVars == <<row, pruned>>
retentionVars == <<pruning, stats>>
vars == <<now, rowVars, charge, open, account, retentionVars>>

Times == 0 .. MaxNow

Day(time) == time \div PerDay
HalfLives(time) == time \div PerHalfLife

None == [t \in {} |-> 0]

\* Rows, and what has been left of the others.
Rows == {t \in Transfers : row[t].state # "none"} \ pruned

Row ==
    [state: {"none"} \cup TransferStates, done: Nat, submitted: Times,
     started: Times \cup {NoTime}, finished: Times \cup {NoTime}]

\* at: the half-lives that had passed when the points were last decayed.
Accounts == [points : Nat, at : 0 .. HalfLives(MaxNow)]

\* What it does, the start it read in the row, and the account as it will write it.
Transactions ==
    [of : Transfers, does : {"charge", "fail", "cancel"}, started : Times \cup {NoTime},
     owes : Accounts \cup {NoTime}]

TypeOK ==
    /\ now \in Times
    /\ row \in [Transfers -> Row]
    /\ pruned \subseteq Transfers
    /\ charge \in [Transfers -> {"none", "pending", "reading", "charged", "lost"}]
    /\ open \subseteq Transactions
    /\ account \in [Users -> Accounts]
    /\ DOMAIN pruning \subseteq Transfers /\ \A t \in DOMAIN pruning : pruning[t] \in Row
    /\ \A b \in DOMAIN stats : stats[b].transfers > 0
    \* Time goes forward, and only what has ended has a time of its end.
    /\ \A t \in Transfers :
         /\ row[t].state \in Terminal <=> row[t].finished # NoTime
         /\ row[t].started # NoTime =>
              /\ row[t].submitted <= row[t].started
              /\ row[t].finished # NoTime => row[t].started <= row[t].finished

Init ==
    /\ now = 0
    /\ row = [t \in Transfers |-> [state |-> "none", done |-> 0, submitted |-> 0,
                                   started |-> NoTime, finished |-> NoTime]]
    /\ pruned = {}
    /\ charge = [t \in Transfers |-> "none"]
    /\ open = {}
    /\ account = [u \in Users |-> [points |-> 0, at |-> 0]]
    /\ pruning = None
    /\ stats = None

-----------------------------------------------------------------------------
(* Points.                                                                 *)

\* Every GiB that was begun is paid for; what moves nothing is not.
Points(t) ==
    IF About[t].kind = "release" THEN 0
    ELSE ((Size[t] + 9) \div 10) * PointsPerGib

Decayed(u) == account[u].points \div 2^(HalfLives(now) - account[u].at)

\* Mutant: what is added starts the decay of the rest anew.
WithPointsUndecayed(u, change) ==
    [points |-> Max({account[u].points + change, 0}), at |-> HalfLives(now)]

WithPoints(u, change) ==
    [points |-> Max({Decayed(u) + change, 0}), at |-> HalfLives(now)]

\* What a transaction reads is what is there when it commits.
Calm == (open = {} /\ pruning = None) \/ "overlap" \in Env

\* Mutant: what has run gets its points back, and what never ran does not.
RefundsStarted(x) == x.does # "charge" /\ x.started # NoTime

\* What is known to have never run is given back.
Refunds(x) == x.does # "charge" /\ x.started = NoTime

ChargeReads(t) ==
    /\ Calm
    /\ charge[t] = "pending"
    /\ charge' = [charge EXCEPT ![t] = "reading"]
    /\ open' = open \cup {[of |-> t, does |-> "charge", started |-> NoTime,
                           owes |-> WithPoints(About[t].user, Points(t))]}
    /\ UNCHANGED <<now, rowVars, account, retentionVars>>

ChargeCommits(x) ==
    /\ x.does = "charge"
    /\ account' = [account EXCEPT ![About[x.of].user] = x.owes]
    /\ charge' = [charge EXCEPT ![x.of] = "charged"]
    /\ open' = open \ {x}
    /\ UNCHANGED <<now, rowVars, retentionVars>>

RefundReads(x) ==
    /\ Refunds(x)
    /\ x.owes = NoTime
    /\ open' = (open \ {x}) \cup
                 {[x EXCEPT !.owes = WithPoints(About[x.of].user, - Points(x.of))]}
    /\ UNCHANGED <<now, rowVars, charge, account, retentionVars>>

\* The daemon made no directory, or the controller went down.
ChargeLost(t) ==
    /\ Calm
    /\ "uncharged" \in Env
    /\ charge[t] = "pending"
    /\ charge' = [charge EXCEPT ![t] = "lost"]
    /\ UNCHANGED <<now, rowVars, open, account, retentionVars>>

-----------------------------------------------------------------------------
(* The lives of transfers, as far as they are accounted for.               *)

Submit(t) ==
    /\ Calm
    /\ row[t].state = "none"
    /\ row' = [row EXCEPT ![t].state = "SUBMITTED", ![t].submitted = now]
    /\ charge' = [charge EXCEPT ![t] = "pending"]
    /\ UNCHANGED <<now, pruned, open, account, retentionVars>>

Start(t) ==
    /\ Calm
    /\ t \in Rows
    /\ row[t].state = "SUBMITTED"
    /\ row' = [row EXCEPT ![t].state = "RUNNING",
                          ![t].started = IF @ = NoTime THEN now ELSE @]
    /\ UNCHANGED <<now, pruned, charge, open, account, retentionVars>>

\* One report says how far it came and that it ended.
Ended(t, state, bytes) ==
    [row EXCEPT ![t].state = state, ![t].done = bytes, ![t].finished = now]

Finish(t) ==
    /\ Calm
    /\ row[t].state = "RUNNING"
    /\ row' = Ended(t, "SUCCEEDED", Size[t])
    /\ UNCHANGED <<now, pruned, charge, open, account, retentionVars>>

\* What ends without having run had better been charged.
EndsInTurn(t) ==
    row[t].started = NoTime /\ charge[t] \in {"pending", "reading"} => "ended_early" \in Env

\* The report of a failure for good, or a cancel that asks the daemon next.
EndReads(t, does) ==
    /\ Calm
    /\ t \in Rows
    /\ row[t].state \in {"SUBMITTED", "RUNNING"}
    /\ EndsInTurn(t)
    /\ \A x \in open : x.of = t => x.does # does
    /\ open' = open \cup {[of |-> t, does |-> does, started |-> row[t].started, owes |-> NoTime]}
    /\ UNCHANGED <<now, rowVars, charge, account, retentionVars>>

\* The state is written whatever the row has become, and the points as they were made.
EndCommits(x, state, bytes) ==
    /\ Refunds(x) => x.owes # NoTime
    /\ row' = Ended(x.of, state, bytes)
    /\ account' = IF Refunds(x) THEN [account EXCEPT ![About[x.of].user] = x.owes] ELSE account
    /\ open' = open \ {x}
    /\ UNCHANGED <<now, pruned, charge, retentionVars>>

\* What has run has moved what it moved.
FailCommits(x) ==
    /\ x.does = "fail"
    /\ \E bytes \in {row[x.of].done, Size[x.of] - 1} :
         /\ row[x.of].state = "SUBMITTED" => bytes = row[x.of].done
         /\ bytes >= row[x.of].done
         /\ EndCommits(x, "FAILED", bytes)

CancelCommits(x) ==
    /\ x.does = "cancel"
    /\ EndCommits(x, "CANCELLED", row[x.of].done)

\* It keeps its place, its start and its bytes, and pays nothing again.
Retry(t) ==
    /\ Calm
    /\ row[t].state = "RUNNING"
    /\ row' = [Ended(t, "SUBMITTED", Size[t] - 1) EXCEPT ![t].finished = NoTime]
    /\ UNCHANGED <<now, pruned, charge, open, account, retentionVars>>

Tick ==
    /\ Calm
    /\ now < MaxNow
    /\ now' = now + 1
    /\ UNCHANGED <<rowVars, charge, open, account, retentionVars>>

-----------------------------------------------------------------------------
(* Retention.                                                              *)

WaitOf(r) == IF r.started = NoTime THEN 0 ELSE r.started - r.submitted

RunOf(r) ==
    IF r.started = NoTime \/ r.finished = NoTime THEN 0 ELSE r.finished - r.started

\* What some of these rows come to; of each wait and run only whole units count.
SumOf(rows, ts, unit) ==
    [transfers |-> Cardinality(ts),
     succeeded |-> Cardinality({t \in ts : rows[t].state = "SUCCEEDED"}),
     bytes |-> MapThenSumSet(LAMBDA t : rows[t].done, ts),
     waited |-> MapThenSumSet(LAMBDA t : WaitOf(rows[t]) \div unit, ts),
     running |-> MapThenSumSet(LAMBDA t : RunOf(rows[t]) \div unit, ts)]

Plus(a, b) == [f \in DOMAIN a |-> a[f] + b[f]]

BucketOf(t) == [day |-> Day(pruning[t].submitted), of |-> About[t]]

Into(b) == {t \in DOMAIN pruning : BucketOf(t) = b}

Filled == DOMAIN stats \cup {BucketOf(t) : t \in DOMAIN pruning}

\* Mutant: a bucket is written over.
RollUpOver ==
    [b \in Filled |->
       IF Into(b) = {} THEN stats[b] ELSE SumOf(pruning, Into(b), PerSecond)]

\* A wait and a run go into their bucket in whole seconds.
RollUp ==
    [b \in Filled |->
       LET into == SumOf(pruning, Into(b), PerSecond) IN
       IF b \in DOMAIN stats THEN Plus(stats[b], into) ELSE into]

PastRetention ==
    {t \in Rows : row[t].state \in Terminal /\ row[t].submitted < now - Retention}

PruneReads ==
    /\ Calm
    /\ pruning = None
    /\ PastRetention # {}
    /\ pruning' = [t \in PastRetention |-> row[t]]
    /\ UNCHANGED <<now, rowVars, charge, open, account, stats>>

\* Rolled up is what was read; removed are the rows of those ids, whatever they say now.
PruneCommits ==
    /\ pruning # None
    /\ stats' = RollUp
    /\ pruned' = pruned \cup DOMAIN pruning
    /\ pruning' = None
    /\ UNCHANGED <<now, row, charge, open, account>>

-----------------------------------------------------------------------------
(* The usage report.                                                       *)

GroupBy == {"user", "storage", "route", "location"}

KeyOf(group, about) ==
    IF group = "location" THEN LocationOf[about.storage] ELSE about[group]

Keys(group) == {KeyOf(group, About[t]) : t \in Transfers}

\* A window is open at an end where its time is not set.
Since(time, since) == since = NoTime \/ time >= since
Until(time, until) == until = NoTime \/ time < until

RowsIn(group, key, since, until) ==
    {t \in Rows : /\ row[t].state \in Terminal
                  /\ KeyOf(group, About[t]) = key
                  /\ Since(row[t].submitted, since) /\ Until(row[t].submitted, until)}

DayOrNone(time) == IF time = NoTime THEN NoTime ELSE Day(time)

BucketsIn(group, key, since, until) ==
    {b \in DOMAIN stats : /\ KeyOf(group, b.of) = key
                          /\ Since(b.day, DayOrNone(since)) /\ Until(b.day, DayOrNone(until))}

InTicks(sums) == [sums EXCEPT !.waited = @ * PerSecond, !.running = @ * PerSecond]

\* A key without a transfer has no line; the sums of none stand for that here.
Totals(group, key, since, until) ==
    MapThenFoldSet(Plus, SumOf(row, RowsIn(group, key, since, until), 1),
                   LAMBDA b : InTicks(stats[b]), LAMBDA bs : CHOOSE b \in bs : TRUE,
                   BucketsIn(group, key, since, until))

\* What the mean wait is divided by: a row counts if it started, a bucket in full.
CountedWaits(group, key) ==
    Cardinality({t \in RowsIn(group, key, NoTime, NoTime) : row[t].started # NoTime})
    + MapThenSumSet(LAMBDA b : stats[b].transfers, BucketsIn(group, key, NoTime, NoTime))

-----------------------------------------------------------------------------

Next ==
    \/ \E t \in Transfers :
         \/ Submit(t) \/ ChargeReads(t) \/ ChargeLost(t)
         \/ Start(t) \/ Finish(t) \/ Retry(t) \/ EndReads(t, "fail") \/ EndReads(t, "cancel")
    \/ \E x \in open :
         \/ ChargeCommits(x) \/ RefundReads(x) \/ FailCommits(x) \/ CancelCommits(x)
    \/ Tick \/ PruneReads \/ PruneCommits

Spec == Init /\ [][Next]_vars

-----------------------------------------------------------------------------
(* Properties.                                                             *)

\* Users owe for work that ran or still may, never for what ended without running.
OwesOnlyForWork ==
    \A u \in Users :
      Decayed(u) <=
        MapThenSumSet(Points,
          {t \in Transfers :
             /\ About[t].user = u
             /\ charge[t] = "charged"
             /\ row[t].state \in Terminal => row[t].started # NoTime})

\* Points of what ran are owed still, as far as they have not decayed since it was
\* submitted: "refunded only when it never ran" (services/events.py).
WorkIsOwed ==
    \A u \in Users :
      Decayed(u) >=
        MapThenSumSet(LAMBDA t : Points(t) \div 2^(HalfLives(now) - HalfLives(row[t].submitted)),
          {t \in Transfers :
             About[t].user = u /\ charge[t] = "charged" /\ row[t].started # NoTime})

\* Windows that start and end with a day.
DayBounds == {NoTime} \cup {time \in Times : time % PerDay = 0}

\* What a total is after rows have been removed: waits and runs lose less than a second
\* for every row that has gone, and nothing else moves.
FractionsLost(was, gone) ==
    [transfers : {was.transfers}, succeeded : {was.succeeded}, bytes : {was.bytes},
     waited : was.waited - (PerSecond - 1) * gone .. was.waited,
     running : was.running - (PerSecond - 1) * gone .. was.running]

\* Removing rows moves the totals of no report over whole days, however it is grouped, by
\* more than the fractions of seconds that statistics do not keep, unless a row was
\* changed after it had been read to be removed.
ReportsStay ==
    [][pruned' # pruned /\ (\A t \in DOMAIN pruning : pruning[t] = row[t]) =>
         \A group \in GroupBy, since, until \in DayBounds :
           \A key \in Keys(group) :
             Totals(group, key, since, until)' \in
               FractionsLost(Totals(group, key, since, until),
                 Cardinality(RowsIn(group, key, since, until) \ RowsIn(group, key, since, until)'))]_vars

\* As the documentation has it: no total moves at all.
TotalsStay ==
    [][pruned' # pruned =>
         \A group \in GroupBy, since, until \in DayBounds :
           \A key \in Keys(group) :
             Totals(group, key, since, until)' = Totals(group, key, since, until)]_vars

\* A report over part of a day counts the whole day or nothing of it once its rows
\* have gone: it loses more than fractions.  Nor does the mean wait stay.
ReportsStayAnyTime ==
    [][pruned' # pruned =>
         \A group \in GroupBy, since, until \in Times :
           \A key \in Keys(group) :
             Totals(group, key, since, until)' \in
               FractionsLost(Totals(group, key, since, until),
                 Cardinality(RowsIn(group, key, since, until) \ RowsIn(group, key, since, until)'))]_vars

MeanWaitStays ==
    [][pruned' # pruned =>
         \A group \in GroupBy : \A key \in Keys(group) :
           CountedWaits(group, key)' = CountedWaits(group, key)]_vars

L == INSTANCE Ledger WITH
       Amounts <- {Points(t) : t \in Transfers},
       owed <- [u \in Users |-> Decayed(u)]

\* Points that are decayed when they are read or charged are at every moment what they
\* would be if everybody's were halved as every half-life passes.
DecayIsLazy == L!LedgerSpec
=============================================================================
