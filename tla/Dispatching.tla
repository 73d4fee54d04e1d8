----------------------------- MODULE Dispatching ------------------------------
(***************************************************************************)
(* Which waiting transfers a scheduler pass may start.                     *)
(*                                                                         *)
(* A pass reads what waits and what its users owe, then what runs, walks   *)
(* the queue in fair-share order and picks what fits under the concurrency *)
(* limits, and offers each pick to its daemon.  The dictionaries of        *)
(* plan_dispatch are the cardinalities of one set, the transfers counted   *)
(* so far.  Rows move beside a pass: warms and flushes are queued under    *)
(* the limit of their user's queue, transfers end, are retried and are     *)
(* cancelled, and releases, which no limit holds back, start where they    *)
(* are asked for.                                                          *)
(***************************************************************************)
EXTENDS Integers, FiniteSets, FiniteSetsExt

CONSTANTS
    Movers,         \* warms and flushes, numbered in the order they are queued
    Flushes,        \* the movers that are flushes
    Releases,       \* releases: they take slots and move no data
    Users,
    Storages,
    Drainable,      \* storages an admin may drain (a bound)
    Standings,      \* what the users may owe when a pass reads it (a bound)
    UserOf,         \* who asked for each transfer
    SourceOf,       \* where its data comes from
    TargetOf,       \* where its data goes to
    Number,         \* its place among the submissions
    QueueLimit,     \* limits.queued_transfers_per_user
    Global, PerStorage, PerUser, PerRoute,      \* limits.concurrency
    Aggregate, MaxShare, MinShare               \* limits.bandwidth

Transfers == Movers \cup Releases
Warms == Movers \ Flushes

ASSUME KindsAssumption == Movers \cap Releases = {}
ASSUME FiniteAssumption == IsFiniteSet(Transfers)
ASSUME FlushesAssumption == Flushes \subseteq Movers
ASSUME DrainableAssumption == Drainable \subseteq Storages
ASSUME StandingsAssumption == Standings \subseteq [Users -> Nat]
ASSUME NumberAssumption ==
    /\ Number \in [Movers -> Nat]
    /\ \A t, x \in Movers : Number[t] = Number[x] => t = x
ASSUME TransfersAssumption ==
    /\ UserOf \in [Transfers -> Users]
    /\ SourceOf \in [Transfers -> Storages]
    /\ TargetOf \in [Transfers -> Storages]
ASSUME LimitsAssumption ==
    /\ QueueLimit \in Nat
    /\ Global \in Nat /\ PerStorage \in Nat /\ PerUser \in Nat /\ PerRoute \in Nat
    /\ Aggregate \in Nat /\ MaxShare \in Nat /\ MinShare \in Nat

VARIABLES
    state,          \* Transfers -> where the row is
    share,          \* Transfers -> the bandwidth it was last planned with
    counting,       \* flushes whose request has counted the queue
    revived,        \* movers that ended under a pass and were assigned by it
    phase,          \* what the pass is doing
    left,           \* read as waiting and not yet considered
    owes,           \* the points its users were read with
    counted,        \* running when the load was read, or picked since
    avoid,          \* storages read as drained
    planned,        \* picked and not yet offered
    started,        \* taken by a daemon, not yet committed
    skipped         \* considered and left for a later pass

rowVars == <<state, share, counting, revived>>
passVars == <<phase, left, owes, counted, avoid, planned, started, skipped>>
vars == <<rowVars, passVars>>

TypeOK ==
    /\ state \in [Transfers -> {"none", "waiting", "assigned", "running", "done"}]
    /\ share \in [Transfers -> Nat]
    /\ counting \subseteq Flushes
    /\ revived \subseteq Movers
    /\ phase \in {"idle", "read", "walk"}
    /\ left \subseteq Movers
    /\ owes \in [Users -> Nat]
    /\ counted \subseteq Transfers
    /\ avoid \subseteq Storages
    /\ planned \subseteq Movers
    /\ started \subseteq Movers
    /\ skipped \subseteq Movers

Init ==
    /\ state = [t \in Transfers |-> "none"]
    /\ share = [t \in Transfers |-> 0]
    /\ phase = "idle"
    /\ left = {} /\ counted = {} /\ avoid = {} /\ counting = {} /\ revived = {}
    /\ owes = [u \in Users |-> 0]
    /\ planned = {} /\ started = {} /\ skipped = {}

In(s) == {t \in Transfers : state[t] = s}

Active == In("assigned") \cup In("running")

-----------------------------------------------------------------------------
(* The slots a transfer takes.                                             *)

\* Both ends take a slot; a release has the same storage at both.
Ends(t) == {SourceOf[t], TargetOf[t]}

SameRoute(t, x) == SourceOf[x] = SourceOf[t] /\ TargetOf[x] = TargetOf[t]

OfUser(u, ts) == {x \in ts : UserOf[x] = u}

AtStorage(s, ts) == {x \in ts : s \in Ends(x)}

\* Only what moves data counts on its route.
OnRoute(t, ts) == {x \in ts \cap Movers : SameRoute(t, x)}

\* Would t, too, run within the limits if the transfers ts did?
Fits(t, ts) ==
    /\ Cardinality(ts) < Global
    /\ \A s \in Ends(t) : Cardinality(AtStorage(s, ts)) < PerStorage
    /\ Cardinality(OfUser(UserOf[t], ts)) < PerUser
    /\ t \in Movers => Cardinality(OnRoute(t, ts)) < PerRoute

\* The aggregate split over what would then run on the route, clamped.
BandwidthShare(active) ==
    Max({Min({Aggregate \div (active + 1), MaxShare}), MinShare})

-----------------------------------------------------------------------------
(* A pass.  The advisory lock lets one run at a time.                      *)

\* The order of the queue: who owes less, then who asked sooner.
Before(t, x) ==
    \/ owes[UserOf[t]] < owes[UserOf[x]]
    \/ owes[UserOf[t]] = owes[UserOf[x]] /\ Number[t] < Number[x]

\* A retry that is still waiting out its backoff is not read.
PassReads(waiting, standing) ==
    /\ phase = "idle"
    /\ waiting # {} /\ waiting \subseteq In("waiting")
    /\ left' = waiting
    /\ owes' = standing
    /\ phase' = "read"
    /\ UNCHANGED <<rowVars, counted, avoid, planned, started, skipped>>

\* Mutant: what already runs is not counted.
PassLoadsNothing(drained) ==
    /\ phase = "read"
    /\ counted' = {}
    /\ avoid' = drained
    /\ phase' = "walk"
    /\ UNCHANGED <<rowVars, left, owes, planned, started, skipped>>

PassLoads(drained) ==
    /\ phase = "read"
    /\ counted' = Active
    /\ avoid' = drained
    /\ phase' = "walk"
    /\ UNCHANGED <<rowVars, left, owes, planned, started, skipped>>

\* Mutant: the queue in the order of its submissions.
ConsiderOldest(t) ==
    /\ phase = "walk" /\ t \in left
    /\ \A x \in left \ {t} : Number[t] < Number[x]

\* The transfer whose turn it is.
Consider(t) ==
    /\ phase = "walk" /\ t \in left
    /\ \A x \in left \ {t} : Before(t, x)

\* Mutant: a share of what ran before the pass.
TakeShared(t) ==
    /\ Consider(t)
    /\ Ends(t) \cap avoid = {}
    /\ Fits(t, counted)
    /\ share' = [share EXCEPT ![t] =
                   BandwidthShare(Cardinality(OnRoute(t, counted \ planned)))]
    /\ counted' = counted \cup {t}
    /\ planned' = planned \cup {t}
    /\ left' = left \ {t}
    /\ UNCHANGED <<state, counting, revived, phase, owes, avoid, started, skipped>>

Take(t) ==
    /\ Consider(t)
    /\ Ends(t) \cap avoid = {}
    /\ Fits(t, counted)
    /\ share' = [share EXCEPT ![t] = BandwidthShare(Cardinality(OnRoute(t, counted)))]
    /\ counted' = counted \cup {t}
    /\ planned' = planned \cup {t}
    /\ left' = left \ {t}
    /\ UNCHANGED <<state, counting, revived, phase, owes, avoid, started, skipped>>

Skip(t) ==
    /\ Consider(t)
    /\ Ends(t) \cap avoid # {} \/ ~Fits(t, counted)
    /\ skipped' = skipped \cup {t}
    /\ left' = left \ {t}
    /\ UNCHANGED <<rowVars, phase, owes, counted, avoid, planned, started>>

\* The plan is complete, and its transfers are offered.
Offer(t) == phase = "walk" /\ left = {} /\ t \in planned

Accepted(t) ==
    /\ Offer(t)
    /\ planned' = planned \ {t}
    /\ started' = started \cup {t}
    /\ UNCHANGED <<rowVars, phase, left, owes, counted, avoid, skipped>>

\* A refusal leaves it queued; its slots stay counted for the rest of the pass.
Refused(t) ==
    /\ Offer(t)
    /\ planned' = planned \ {t}
    /\ share' = [share EXCEPT ![t] = 0]
    /\ UNCHANGED <<state, counting, revived, phase, left, owes, counted, avoid, started,
                   skipped>>

\* The assignment is written over whatever the row says by now.
PassCommits ==
    /\ phase = "walk" /\ left = {} /\ planned = {}
    /\ state' = [t \in Transfers |-> IF t \in started THEN "assigned" ELSE state[t]]
    /\ revived' = revived \cup {t \in started : state[t] = "done"}
    /\ phase' = "idle"
    /\ owes' = [u \in Users |-> 0]
    /\ counted' = {} /\ avoid' = {} /\ started' = {} /\ skipped' = {}
    /\ UNCHANGED <<share, counting, left, planned>>

-----------------------------------------------------------------------------
(* What moves rows beside a pass.                                          *)

\* What a user's queue is counted by: what runs has left it.
Queue(u) == OfUser(u, In("waiting") \cup In("assigned"))

\* Mutant: one too many.
HasRoomForOneMore(u) == Cardinality(Queue(u)) <= QueueLimit

HasRoom(u) == Cardinality(Queue(u)) < QueueLimit

\* It is the next submission, and its row is written.
Queues(t) ==
    /\ state[t] = "none"
    /\ \A x \in Movers : Number[x] < Number[t] => state[x] # "none"
    /\ state' = [state EXCEPT ![t] = "waiting"]

\* The count and the row are under the lock of the user: no other warm of the user
\* comes between.
Warm(t) ==
    /\ t \in Warms
    /\ HasRoom(UserOf[t])
    /\ Queues(t)
    /\ UNCHANGED <<share, counting, revived, passVars>>

\* A flush takes no lock between its count and its row.
FlushCounts(t) ==
    /\ t \in Flushes \ counting /\ state[t] = "none"
    /\ HasRoom(UserOf[t])
    /\ counting' = counting \cup {t}
    /\ UNCHANGED <<state, share, revived, passVars>>

Flush(t) ==
    /\ t \in counting
    /\ Queues(t)
    /\ counting' = counting \ {t}
    /\ UNCHANGED <<share, revived, passVars>>

\* A release runs as soon as it is asked for: it never waits for a pass.
ReleaseStarts(t) ==
    /\ t \in Releases /\ state[t] = "none"
    /\ state' = [state EXCEPT ![t] = "running"]
    /\ UNCHANGED <<share, counting, revived, passVars>>

\* Its daemon reports that the data moves.
Runs(t) ==
    /\ state[t] = "assigned"
    /\ state' = [state EXCEPT ![t] = "running"]
    /\ UNCHANGED <<share, counting, revived, passVars>>

\* A transfer that moves data may be requeued for another attempt, past any limit of
\* the queue.  The next attempt is planned with a share of its own.
End(t) ==
    /\ t \in Active
    /\ \E s \in IF t \in Movers THEN {"done", "waiting"} ELSE {"done"} :
         state' = [state EXCEPT ![t] = s]
    /\ share' = [share EXCEPT ![t] = 0]
    /\ revived' = IF state'[t] = "done" THEN revived \ {t} ELSE revived
    /\ UNCHANGED <<counting, passVars>>

Cancel(t) ==
    /\ state[t] = "waiting"
    /\ state' = [state EXCEPT ![t] = "done"]
    /\ revived' = revived \ {t}
    /\ UNCHANGED <<share, counting, passVars>>

PassStep ==
    \/ \E waiting \in SUBSET Movers, standing \in Standings : PassReads(waiting, standing)
    \/ \E drained \in SUBSET Drainable : PassLoads(drained)
    \/ \E t \in Movers : Take(t) \/ Skip(t) \/ Accepted(t) \/ Refused(t)
    \/ PassCommits

Beside ==
    \E t \in Transfers :
      \/ Warm(t) \/ FlushCounts(t) \/ Flush(t) \/ ReleaseStarts(t)
      \/ Runs(t) \/ End(t) \/ Cancel(t)

Next == PassStep \/ Beside

Spec == Init /\ [][Next]_vars

-----------------------------------------------------------------------------
(* Properties.                                                             *)

Within(ts) ==
    /\ Cardinality(ts) <= Global
    /\ \A s \in Storages : Cardinality(AtStorage(s, ts)) <= PerStorage
    /\ \A u \in Users : Cardinality(OfUser(u, ts)) <= PerUser
    /\ \A t \in Movers : Cardinality(OnRoute(t, ts)) <= PerRoute

\* What moves data never runs past a limit, whatever ends, is retried, cancelled or
\* released while a pass works on counts it took before (plan_dispatch and _load).
LimitsHold == Within((Active \cap Movers) \cup started)

\* Who owes less is never passed over for who owes more: a transfer that was skipped
\* would not have fit even if nothing behind it in the queue had been picked
\* (plan_dispatch skips what does not fit and goes on; order_queue sorts).
NobodyIsOvertaken ==
    \A t \in skipped :
      \/ Ends(t) \cap avoid # {}
      \/ ~Fits(t, counted \ {x \in planned : Before(t, x)})

\* What waits, is assigned or runs.
Live == In("waiting") \cup Active

\* The queue of a user is not stuffed: retries come back past its limit and flushes slip
\* by one another, and still no user has more warms than the queue may hold and as many
\* as may run, what a pass revived aside (_check_queue_length counts what is submitted
\* and assigned).
QueueIsBounded ==
    \A u \in Users :
      Cardinality(OfUser(u, (Live \cap Warms) \ revived)) <= QueueLimit + PerUser

\* A share is computed once, from what runs at that moment, and never again: the shares
\* of n transfers on a route may sum to more than its aggregate, but to no more than
\* the shares of the first, the second, up to the n-th (bandwidth_share).
SharesAreHarmonic ==
    \A t \in Movers :
      LET active == OnRoute(t, Active) IN
      MapThenSumSet(LAMBDA x : share[x], active)
        <= MapThenSumSet(BandwidthShare, 0 .. Cardinality(active) - 1)
=============================================================================
