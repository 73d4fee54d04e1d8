-------------------------- MODULE DispatchingProofs ---------------------------
(***************************************************************************)
(* Proofs about Dispatching, for every set of transfers, users and         *)
(* storages and every limit.  LimitsHold is not inductive: a pass works on *)
(* counts that are older than the rows.  What carries it is that the       *)
(* counts cover whatever moves data or is about to (CountsCover), and stay *)
(* within the limits themselves once the releases are left out.  What      *)
(* carries NobodyIsOvertaken is that the walk has come to nothing that is  *)
(* behind what it has not come to (InTurn), and QueueIsBounded rests on    *)
(* LimitsHold: where a warm is queued, what runs is within its limit.      *)
(*                                                                         *)
(* SharesAreHarmonic needs to be said of every part of what occupies a     *)
(* route (SharesInv): of the whole alone it would not survive the end of a *)
(* transfer with a small share.                                            *)
(***************************************************************************)
EXTENDS Dispatching, Sums

\* The transfers that take bandwidth, or will if their daemon takes them.
Occupied == (Active \cap Movers) \cup planned \cup started

\* What a pass counts covers what is or may come to run, and leaves nothing out.
CountsCover ==
    phase = "walk" => Occupied \subseteq counted /\ Within(counted \cap Movers)

\* Between walks nothing is planned, started or skipped, and between passes nothing is left.
Rested ==
    /\ phase # "walk" => planned = {} /\ started = {} /\ skipped = {}
    /\ phase = "idle" => left = {}

\* What the walk has not come to is not counted, and behind what it has come to.
InTurn ==
    /\ left \cap Active = {}
    /\ phase = "walk" => left \cap counted = {}
    /\ \A t \in skipped \cup planned, x \in left : Before(t, x)

\* A pass works on rows there are.
RowsExist == \A t \in left \cup planned \cup started : state[t] # "none"

\* The inductive invariant behind LimitsHold, NobodyIsOvertaken and QueueIsBounded.
Inv ==
    /\ TypeOK /\ Rested /\ RowsExist
    /\ CountsCover /\ LimitsHold
    /\ InTurn /\ NobodyIsOvertaken
    /\ QueueIsBounded

-----------------------------------------------------------------------------

\* A part of a finite set is finite and no larger.
LEMMA PartIsSmaller ==
    ASSUME NEW S, IsFiniteSet(S), NEW T, T \subseteq S
    PROVE  /\ IsFiniteSet(T)
           /\ Cardinality(T) \in Nat /\ Cardinality(S) \in Nat
           /\ Cardinality(T) <= Cardinality(S)
BY FS_Subset, FS_CardinalityType

\* One more transfer where there is room for one keeps the limit.
LEMMA OneMoreFits ==
    ASSUME NEW S, IsFiniteSet(S), NEW x, NEW T, T \subseteq S \cup {x},
           NEW limit \in Nat, Cardinality(S) < limit
    PROVE  Cardinality(T) <= limit
<1>1. Cardinality(S) \in Nat
  BY FS_CardinalityType
<1>2. /\ IsFiniteSet(S \cup {x})
      /\ \/ Cardinality(S \cup {x}) = Cardinality(S)
         \/ Cardinality(S \cup {x}) = Cardinality(S) + 1
  BY FS_AddElement, Zenon
<1>3. /\ Cardinality(T) \in Nat /\ Cardinality(S \cup {x}) \in Nat
      /\ Cardinality(T) <= Cardinality(S \cup {x})
  BY <1>2, PartIsSmaller, Zenon
<1> HIDE DEF Cardinality
<1> QED
  BY <1>1, <1>2, <1>3

\* The slots taken by fewer transfers are fewer slots, in every scope.
LEMMA ScopesAreMonotone ==
    ASSUME NEW us \in SUBSET Transfers, NEW ts \in SUBSET us
    PROVE  /\ Cardinality(ts) <= Cardinality(us)
           /\ \A s : Cardinality(AtStorage(s, ts)) <= Cardinality(AtStorage(s, us))
           /\ \A u : Cardinality(OfUser(u, ts)) <= Cardinality(OfUser(u, us))
           /\ \A t : Cardinality(OnRoute(t, ts)) <= Cardinality(OnRoute(t, us))
<1>1. IsFiniteSet(us)
  BY FiniteAssumption, FS_Subset
<1>2. ASSUME NEW s PROVE Cardinality(AtStorage(s, ts)) <= Cardinality(AtStorage(s, us))
  <2>1. AtStorage(s, us) \subseteq us /\ AtStorage(s, ts) \subseteq AtStorage(s, us)
    BY DEF AtStorage
  <2> QED
    BY <1>1, <2>1, PartIsSmaller
<1>3. ASSUME NEW u PROVE Cardinality(OfUser(u, ts)) <= Cardinality(OfUser(u, us))
  <2>1. OfUser(u, us) \subseteq us /\ OfUser(u, ts) \subseteq OfUser(u, us)
    BY DEF OfUser
  <2> QED
    BY <1>1, <2>1, PartIsSmaller
<1>4. ASSUME NEW t PROVE Cardinality(OnRoute(t, ts)) <= Cardinality(OnRoute(t, us))
  <2>1. OnRoute(t, us) \subseteq us /\ OnRoute(t, ts) \subseteq OnRoute(t, us)
    BY DEF OnRoute
  <2> QED
    BY <1>1, <2>1, PartIsSmaller
<1> QED
  BY <1>1, <1>2, <1>3, <1>4, PartIsSmaller

\* Every scope of a set of transfers is finite.
LEMMA ScopesAreFinite ==
    ASSUME NEW ts \in SUBSET Transfers
    PROVE  /\ IsFiniteSet(ts) /\ Cardinality(ts) \in Nat
           /\ \A s : IsFiniteSet(AtStorage(s, ts)) /\ Cardinality(AtStorage(s, ts)) \in Nat
           /\ \A u : IsFiniteSet(OfUser(u, ts)) /\ Cardinality(OfUser(u, ts)) \in Nat
           /\ \A t : IsFiniteSet(OnRoute(t, ts)) /\ Cardinality(OnRoute(t, ts)) \in Nat
<1>1. IsFiniteSet(ts)
  BY FiniteAssumption, FS_Subset
<1>2. /\ \A s : AtStorage(s, ts) \subseteq ts
      /\ \A u : OfUser(u, ts) \subseteq ts
      /\ \A t : OnRoute(t, ts) \subseteq ts
  BY DEF AtStorage, OfUser, OnRoute
<1> QED
  BY <1>1, <1>2, PartIsSmaller

\* What a set of transfers keeps within the limits, a part of it does.
LEMMA PartIsWithin ==
    ASSUME NEW us \in SUBSET Transfers, NEW ts \in SUBSET us, Within(us)
    PROVE  Within(ts)
<1>1. ts \in SUBSET Transfers
  OBVIOUS
<1>2. Cardinality(ts) <= Global
  BY <1>1, ScopesAreMonotone, ScopesAreFinite, LimitsAssumption DEF Within
<1>3. ASSUME NEW s \in Storages PROVE Cardinality(AtStorage(s, ts)) <= PerStorage
  <2>1. Cardinality(AtStorage(s, ts)) <= Cardinality(AtStorage(s, us))
    BY ScopesAreMonotone
  <2>2. Cardinality(AtStorage(s, us)) <= PerStorage
    BY DEF Within
  <2>3. Cardinality(AtStorage(s, ts)) \in Nat /\ Cardinality(AtStorage(s, us)) \in Nat
    BY <1>1, ScopesAreFinite, Zenon
  <2> QED
    BY <2>1, <2>2, <2>3, LimitsAssumption
<1>4. ASSUME NEW u \in Users PROVE Cardinality(OfUser(u, ts)) <= PerUser
  <2>1. Cardinality(OfUser(u, ts)) <= Cardinality(OfUser(u, us))
    BY ScopesAreMonotone
  <2>2. Cardinality(OfUser(u, us)) <= PerUser
    BY DEF Within
  <2>3. Cardinality(OfUser(u, ts)) \in Nat /\ Cardinality(OfUser(u, us)) \in Nat
    BY <1>1, ScopesAreFinite, Zenon
  <2> QED
    BY <2>1, <2>2, <2>3, LimitsAssumption
<1>5. ASSUME NEW t \in Movers PROVE Cardinality(OnRoute(t, ts)) <= PerRoute
  <2>1. Cardinality(OnRoute(t, ts)) <= Cardinality(OnRoute(t, us))
    BY ScopesAreMonotone
  <2>2. Cardinality(OnRoute(t, us)) <= PerRoute
    BY DEF Within
  <2>3. Cardinality(OnRoute(t, ts)) \in Nat /\ Cardinality(OnRoute(t, us)) \in Nat
    BY <1>1, ScopesAreFinite, Zenon
  <2> QED
    BY <2>1, <2>2, <2>3, LimitsAssumption
<1> QED
  BY <1>2, <1>3, <1>4, <1>5 DEF Within

\* What does not fit beside some transfers does not fit beside more.
LEMMA FitsBesideFewer ==
    ASSUME NEW us \in SUBSET Transfers, NEW ts \in SUBSET us, NEW t, Fits(t, us)
    PROVE  Fits(t, ts)
<1>1. ts \in SUBSET Transfers
  OBVIOUS
<1>2. Cardinality(ts) < Global
  BY <1>1, ScopesAreMonotone, ScopesAreFinite, LimitsAssumption DEF Fits
<1>3. ASSUME NEW s \in Ends(t) PROVE Cardinality(AtStorage(s, ts)) < PerStorage
  <2>1. Cardinality(AtStorage(s, ts)) <= Cardinality(AtStorage(s, us))
    BY ScopesAreMonotone
  <2>2. Cardinality(AtStorage(s, ts)) \in Nat /\ Cardinality(AtStorage(s, us)) \in Nat
    BY <1>1, ScopesAreFinite, Zenon
  <2>3. Cardinality(AtStorage(s, us)) < PerStorage
    BY DEF Fits
  <2> QED
    BY <2>1, <2>2, <2>3, LimitsAssumption
<1>4. Cardinality(OfUser(UserOf[t], ts)) < PerUser
  <2>1. Cardinality(OfUser(UserOf[t], ts)) <= Cardinality(OfUser(UserOf[t], us))
    BY ScopesAreMonotone
  <2>2. Cardinality(OfUser(UserOf[t], ts)) \in Nat /\ Cardinality(OfUser(UserOf[t], us)) \in Nat
    BY <1>1, ScopesAreFinite, Zenon
  <2>3. Cardinality(OfUser(UserOf[t], us)) < PerUser
    BY DEF Fits
  <2> QED
    BY <2>1, <2>2, <2>3, LimitsAssumption
<1>5. ASSUME t \in Movers PROVE Cardinality(OnRoute(t, ts)) < PerRoute
  <2>1. Cardinality(OnRoute(t, ts)) <= Cardinality(OnRoute(t, us))
    BY ScopesAreMonotone
  <2>2. Cardinality(OnRoute(t, ts)) \in Nat /\ Cardinality(OnRoute(t, us)) \in Nat
    BY <1>1, ScopesAreFinite, Zenon
  <2>3. Cardinality(OnRoute(t, us)) < PerRoute
    BY <1>5 DEF Fits
  <2> QED
    BY <2>1, <2>2, <2>3, LimitsAssumption
<1> QED
  BY <1>2, <1>3, <1>4, <1>5 DEF Fits

\* The bandwidth given to a transfer is a number.
LEMMA ShareIsNat == \A active \in Nat : BandwidthShare(active) \in Nat
<1> SUFFICES ASSUME NEW active \in Nat PROVE BandwidthShare(active) \in Nat
  OBVIOUS
<1>1. \A a, b \in Nat : Min({a, b}) \in Nat /\ Max({a, b}) \in Nat
  <2> SUFFICES ASSUME NEW a \in Nat, NEW b \in Nat
               PROVE  Min({a, b}) \in Nat /\ Max({a, b}) \in Nat
    OBVIOUS
  <2>1. /\ \E x \in {a, b} : \A y \in {a, b} : x <= y
        /\ \E x \in {a, b} : \A y \in {a, b} : x >= y
    OBVIOUS
  <2>2. Min({a, b}) \in {a, b} /\ Max({a, b}) \in {a, b}
    BY <2>1, Zenon DEF Min, Max
  <2> QED
    BY <2>2
<1>2. Aggregate \div (active + 1) \in Nat
  BY LimitsAssumption
<1> QED
  BY <1>1, <1>2, LimitsAssumption, Zenon DEF BandwidthShare

\* A transfer that fits what is counted keeps what moves data within the limits.
LEMMA TakingKeepsLimits ==
    ASSUME NEW ts \in SUBSET Transfers, NEW t \in Movers,
           Within(ts \cap Movers), Fits(t, ts)
    PROVE  Within((ts \cup {t}) \cap Movers)
<1> DEFINE new == (ts \cup {t}) \cap Movers
           old == ts \cap Movers
<1>1. new \subseteq ts \cup {t} /\ old \in SUBSET Transfers
  BY DEF Transfers
<1>2. Cardinality(new) <= Global
  BY <1>1, OneMoreFits, ScopesAreFinite, LimitsAssumption DEF Fits
<1>3. ASSUME NEW s \in Storages PROVE Cardinality(AtStorage(s, new)) <= PerStorage
  <2>1. CASE s \in Ends(t)
    <3>1. AtStorage(s, new) \subseteq AtStorage(s, ts) \cup {t}
      BY DEF AtStorage
    <3>2. Cardinality(AtStorage(s, ts)) < PerStorage
      BY <2>1 DEF Fits
    <3> QED
      BY <3>1, <3>2, OneMoreFits, ScopesAreFinite, LimitsAssumption
  <2>2. CASE s \notin Ends(t)
    <3>1. AtStorage(s, new) = AtStorage(s, old)
      BY <2>2 DEF AtStorage
    <3> QED
      BY <3>1 DEF Within
  <2> QED
    BY <2>1, <2>2
<1>4. ASSUME NEW u \in Users PROVE Cardinality(OfUser(u, new)) <= PerUser
  <2>1. CASE u = UserOf[t]
    <3>1. OfUser(u, new) \subseteq OfUser(u, ts) \cup {t}
      BY DEF OfUser
    <3>2. Cardinality(OfUser(u, ts)) < PerUser
      BY <2>1 DEF Fits
    <3> QED
      BY <3>1, <3>2, OneMoreFits, ScopesAreFinite, LimitsAssumption
  <2>2. CASE u # UserOf[t]
    <3>1. OfUser(u, new) = OfUser(u, old)
      BY <2>2 DEF OfUser
    <3> QED
      BY <3>1 DEF Within
  <2> QED
    BY <2>1, <2>2
<1>5. ASSUME NEW x \in Movers PROVE Cardinality(OnRoute(x, new)) <= PerRoute
  <2>1. CASE SameRoute(x, t)
    <3>1. OnRoute(x, new) \subseteq OnRoute(t, ts) \cup {t}
      BY <2>1 DEF OnRoute, SameRoute
    <3>2. Cardinality(OnRoute(t, ts)) < PerRoute
      BY DEF Fits
    <3> QED
      BY <3>1, <3>2, OneMoreFits, ScopesAreFinite, LimitsAssumption
  <2>2. CASE ~SameRoute(x, t)
    <3>1. OnRoute(x, new) = OnRoute(x, old)
      BY <2>2 DEF OnRoute
    <3> QED
      BY <3>1 DEF Within
  <2> QED
    BY <2>1, <2>2
<1> QED
  BY <1>2, <1>3, <1>4, <1>5 DEF Within

-----------------------------------------------------------------------------

\* What a user has queued and running is finite, however it is picked.
LEMMA WarmsAreFinite ==
    ASSUME NEW u
    PROVE  /\ IsFiniteSet(OfUser(u, (Live \cap Warms) \ revived))
           /\ IsFiniteSet(Queue(u)) /\ IsFiniteSet(OfUser(u, Active \cap Movers))
           /\ Cardinality(OfUser(u, (Live \cap Warms) \ revived)) \in Nat
           /\ Cardinality(Queue(u)) \in Nat
           /\ Cardinality(OfUser(u, Active \cap Movers)) \in Nat
<1>1. /\ OfUser(u, (Live \cap Warms) \ revived) \subseteq Transfers
      /\ Queue(u) \subseteq Transfers
      /\ OfUser(u, Active \cap Movers) \subseteq Transfers
  BY DEF OfUser, Queue, Live, Active, In
<1> QED
  BY <1>1, FiniteAssumption, FS_Subset, FS_CardinalityType

\* A warm is queued where the queue has room, so with what runs there is room for it.
LEMMA RoomForAWarm ==
    ASSUME NEW u \in Users, HasRoom(u), LimitsHold, TypeOK,
           NEW t, NEW ts, ts \subseteq OfUser(u, (Live \cap Warms) \ revived) \cup {t}
    PROVE  Cardinality(ts) <= QueueLimit + PerUser
<1> DEFINE old == OfUser(u, (Live \cap Warms) \ revived)
           runs == OfUser(u, Active \cap Movers)
           moving == (Active \cap Movers) \cup started
<1>1. old \subseteq Queue(u) \cup runs
  BY DEF OfUser, Queue, Live, Active, In, Warms
<1>2. /\ IsFiniteSet(Queue(u)) /\ Cardinality(Queue(u)) \in Nat
      /\ IsFiniteSet(runs) /\ Cardinality(runs) \in Nat
      /\ IsFiniteSet(old) /\ Cardinality(old) \in Nat
  BY WarmsAreFinite
<1>3. Cardinality(runs) <= PerUser
  <2>1. moving \subseteq Transfers /\ Active \cap Movers \subseteq moving
    BY DEF TypeOK, Transfers
  <2>2. Cardinality(runs) <= Cardinality(OfUser(u, moving))
    BY <2>1, ScopesAreMonotone
  <2>3. Cardinality(OfUser(u, moving)) <= PerUser
    BY DEF LimitsHold, Within
  <2>4. Cardinality(OfUser(u, moving)) \in Nat
    BY <2>1, ScopesAreFinite
  <2> QED
    BY <1>2, <2>2, <2>3, <2>4, LimitsAssumption
<1>4. Cardinality(Queue(u)) < QueueLimit
  BY DEF HasRoom
<1>5. /\ IsFiniteSet(Queue(u) \cup runs)
      /\ Cardinality(Queue(u) \cup runs) \in Nat
      /\ Cardinality(Queue(u) \cup runs) <= Cardinality(Queue(u)) + Cardinality(runs)
  <2>1. Cardinality(Queue(u) \cup runs) =
          Cardinality(Queue(u)) + Cardinality(runs) - Cardinality(Queue(u) \cap runs)
    BY <1>2, FS_Union, Zenon
  <2>2. IsFiniteSet(Queue(u) \cup runs)
    BY <1>2, FS_Union, Zenon
  <2>3. Cardinality(Queue(u) \cap runs) \in Nat
    BY <1>2, FS_Intersection, FS_CardinalityType
  <2>4. Cardinality(Queue(u) \cup runs) \in Nat
    BY <2>2, FS_CardinalityType
  <2> HIDE DEF runs
  <2> QED
    BY <1>2, <2>1, <2>2, <2>3, <2>4
<1>6. Cardinality(old) <= Cardinality(Queue(u) \cup runs)
  BY <1>1, <1>5, PartIsSmaller
<1>7. Cardinality(old) < QueueLimit + PerUser
  <2> HIDE DEF old, runs
  <2> QED
    BY <1>2, <1>3, <1>4, <1>5, <1>6, LimitsAssumption
<1>8. QueueLimit + PerUser \in Nat
  BY LimitsAssumption
<1> HIDE DEF old
<1> QED
  BY <1>2, <1>7, <1>8, OneMoreFits DEF old

\* Where no user has more warms than before, the queue stays bounded.
LEMMA FewerWarms ==
    ASSUME QueueIsBounded, ((Live \cap Warms) \ revived)' \subseteq (Live \cap Warms) \ revived
    PROVE  QueueIsBounded'
<1> SUFFICES ASSUME NEW u \in Users
             PROVE Cardinality(OfUser(u, (Live \cap Warms) \ revived)') <= QueueLimit + PerUser
  BY DEF QueueIsBounded
<1>1. OfUser(u, (Live \cap Warms) \ revived)' \subseteq OfUser(u, (Live \cap Warms) \ revived)
  BY DEF OfUser
<1>2. /\ IsFiniteSet(OfUser(u, (Live \cap Warms) \ revived))
      /\ Cardinality(OfUser(u, (Live \cap Warms) \ revived)) <= QueueLimit + PerUser
  BY WarmsAreFinite DEF QueueIsBounded
<1> QED
  BY <1>1, <1>2, PartIsSmaller, LimitsAssumption

-----------------------------------------------------------------------------

\* The invariant holds at first: nothing runs.
LEMMA InitInv == Init => Inv
<1> SUFFICES ASSUME Init PROVE Inv
  OBVIOUS
<1>1. /\ TypeOK /\ Rested /\ RowsExist /\ CountsCover /\ InTurn /\ NobodyIsOvertaken
  BY DEF Init, TypeOK, Rested, RowsExist, CountsCover, InTurn, NobodyIsOvertaken
<1>2. (Active \cap Movers) \cup started = {} /\ Live = {}
  BY DEF Init, In, Active, Live, Transfers
<1>3. Within({})
  <2>1. \A s, u, t : AtStorage(s, {}) = {} /\ OfUser(u, {}) = {} /\ OnRoute(t, {}) = {}
    BY DEF AtStorage, OfUser, OnRoute
  <2> QED
    BY <2>1, FS_EmptySet, LimitsAssumption DEF Within
<1>4. QueueIsBounded
  <2>1. \A u : OfUser(u, (Live \cap Warms) \ revived) = {}
    BY <1>2 DEF OfUser
  <2> QED
    BY <2>1, FS_EmptySet, LimitsAssumption DEF QueueIsBounded
<1> QED
  BY <1>1, <1>2, <1>3, <1>4 DEF Inv, LimitsHold

\* A row moved beside a pass leaves what the pass works on as it is.
LEMMA BesideTypes ==
    ASSUME TypeOK, NEW t \in Transfers,
           \/ Warm(t) \/ FlushCounts(t) \/ Flush(t) \/ ReleaseStarts(t)
           \/ Runs(t) \/ End(t) \/ Cancel(t)
    PROVE  /\ UNCHANGED passVars
           /\ TypeOK'
           /\ (Active \cap Movers)' \subseteq Active \cap Movers
           /\ \A x \in Transfers : state[x] # "none" => state'[x] # "none"
<1>1. UNCHANGED passVars
  BY DEF Warm, FlushCounts, Flush, ReleaseStarts, Runs, End, Cancel
<1>2. TypeOK'
  BY <1>1 DEF Warm, FlushCounts, Flush, ReleaseStarts, Runs, End, Cancel, Queues, TypeOK,
              passVars, Active, In
<1>3. (Active \cap Movers)' \subseteq Active \cap Movers
  BY KindsAssumption
     DEF Warm, FlushCounts, Flush, ReleaseStarts, Runs, End, Cancel, Queues, Active, In, TypeOK
<1>4. \A x \in Transfers : state[x] # "none" => state'[x] # "none"
  BY DEF Warm, FlushCounts, Flush, ReleaseStarts, Runs, End, Cancel, Queues, TypeOK, Active, In
<1> QED
  BY <1>1, <1>2, <1>3, <1>4

\* A row moved beside a pass keeps every user's warms within the bound.
LEMMA BesideQueues ==
    ASSUME TypeOK, LimitsHold, QueueIsBounded, NEW t \in Transfers,
           \/ Warm(t) \/ FlushCounts(t) \/ Flush(t) \/ ReleaseStarts(t)
           \/ Runs(t) \/ End(t) \/ Cancel(t)
    PROVE  QueueIsBounded'
<1> DEFINE old == (Live \cap Warms) \ revived
<1>1. CASE Warm(t)
  <2>1. old' = old \cup ({t} \ revived) /\ UserOf[t] \in Users
    BY <1>1, TransfersAssumption DEF Warm, Queues, Live, Active, In, TypeOK
  <2> SUFFICES ASSUME NEW u \in Users PROVE Cardinality(OfUser(u, old')) <= QueueLimit + PerUser
    BY DEF QueueIsBounded, OfUser
  <2>2. CASE u = UserOf[t]
    <3>1. OfUser(u, old') \subseteq OfUser(u, old) \cup {t}
      BY <2>1 DEF OfUser
    <3>2. HasRoom(u)
      BY <1>1, <2>2 DEF Warm
    <3> QED
      BY <3>1, <3>2, RoomForAWarm
  <2>3. CASE u # UserOf[t]
    <3>1. OfUser(u, old') = OfUser(u, old)
      BY <2>1, <2>3 DEF OfUser
    <3> QED
      BY <3>1 DEF QueueIsBounded
  <2> QED
    BY <2>2, <2>3
<1>2. CASE ~Warm(t)
  <2>1. t \in Warms => ~Flush(t) /\ ~ReleaseStarts(t)
    BY KindsAssumption DEF Warms, Flush, ReleaseStarts, TypeOK
  <2>2. old' \subseteq old
    <3>1. CASE FlushCounts(t)
      BY <3>1 DEF FlushCounts, Live, Active, In
    <3>2. CASE Flush(t) \/ ReleaseStarts(t)
      BY <2>1, <3>2 DEF Flush, Queues, ReleaseStarts, Live, Active, In, TypeOK
    <3>3. CASE Runs(t)
      BY <3>3 DEF Runs, Live, Active, In, TypeOK
    <3>4. CASE End(t)
      BY <3>4 DEF End, Live, Active, In, TypeOK
    <3>5. CASE Cancel(t)
      BY <3>5 DEF Cancel, Live, Active, In, TypeOK
    <3> QED
      BY <1>2, <3>1, <3>2, <3>3, <3>4, <3>5
  <2> QED
    BY <2>2, FewerWarms
<1> QED
  BY <1>1, <1>2

\* A step beside a pass lets no more data move than before.
LEMMA BesideKeeps == Inv /\ Beside => Inv'
<1> SUFFICES ASSUME Inv, NEW t \in Transfers,
                    \/ Warm(t) \/ FlushCounts(t) \/ Flush(t) \/ ReleaseStarts(t)
                    \/ Runs(t) \/ End(t) \/ Cancel(t)
             PROVE Inv'
  BY DEF Beside
<1> USE DEF Inv
<1>1. /\ UNCHANGED passVars
      /\ TypeOK'
      /\ (Active \cap Movers)' \subseteq Active \cap Movers
      /\ \A x \in Transfers : state[x] # "none" => state'[x] # "none"
  BY BesideTypes
<1>2. QueueIsBounded'
  BY BesideQueues
<1>3. Rested' /\ NobodyIsOvertaken'
  BY <1>1 DEF Rested, NobodyIsOvertaken, Before, passVars, Fits, Ends, AtStorage, OfUser,
              OnRoute, SameRoute
<1>4. RowsExist'
  BY <1>1 DEF RowsExist, passVars, TypeOK, Transfers
<1>5. InTurn'
  BY <1>1 DEF InTurn, passVars, Before, TypeOK
<1>6. CountsCover'
  BY <1>1 DEF CountsCover, Occupied, passVars, Within
<1>7. LimitsHold'
  <2> DEFINE moving == (Active \cap Movers) \cup started
  <2>1. moving' \subseteq moving /\ moving \in SUBSET Transfers
    BY <1>1 DEF passVars, TypeOK, Transfers
  <2>2. Within(moving')
    BY <2>1, PartIsWithin DEF LimitsHold
  <2> QED
    BY <2>2 DEF LimitsHold, Within
<1> QED
  BY <1>1, <1>2, <1>3, <1>4, <1>5, <1>6, <1>7

\* Where the rows are as they were, no user has more warms than before.
LEMMA SameRowsSameQueue ==
    ASSUME QueueIsBounded, UNCHANGED <<state, revived>>
    PROVE  QueueIsBounded'
BY DEF QueueIsBounded, Live, Active, In, OfUser

\* Picking the transfer whose turn it is takes nothing from those skipped before it.
LEMMA TakeInTurn ==
    ASSUME Inv, NEW t \in Movers, Take(t)
    PROVE  InTurn' /\ NobodyIsOvertaken'
<1> USE DEF Inv
<1>1. /\ phase = "walk" /\ t \in left /\ t \notin counted
      /\ \A x \in left \ {t} : Before(t, x)
      /\ \A x \in skipped : Before(x, t)
  BY DEF Take, Consider, InTurn
<1>2. InTurn'
  BY <1>1 DEF Take, InTurn, Before, Active, In
<1>3. ASSUME NEW s \in skipped
      PROVE (counted \cup {t}) \ {x \in planned \cup {t} : Before(s, x)}
              = counted \ {x \in planned : Before(s, x)}
  BY <1>1, <1>3
<1>4. NobodyIsOvertaken'
  BY <1>3 DEF Take, NobodyIsOvertaken, Before, Fits
<1> QED
  BY <1>2, <1>4

\* Where less is planned, more of what is counted is in the way of those skipped.
LEMMA OfferedInTurn ==
    ASSUME Inv, NEW t, planned' = planned \ {t},
           UNCHANGED <<owes, counted, avoid, skipped>>
    PROVE  NobodyIsOvertaken'
<1> SUFFICES ASSUME NEW s \in skipped,
                    Fits(s, counted \ {x \in planned \ {t} : Before(s, x)})
             PROVE  Ends(s) \cap avoid # {}
  BY DEF NobodyIsOvertaken, Before, Fits
<1>1. /\ counted \ {x \in planned : Before(s, x)}
           \in SUBSET (counted \ {x \in planned \ {t} : Before(s, x)})
      /\ counted \ {x \in planned \ {t} : Before(s, x)} \in SUBSET Transfers
  BY DEF Inv, TypeOK
<1>2. Fits(s, counted \ {x \in planned : Before(s, x)})
  BY <1>1, FitsBesideFewer
<1> QED
  BY <1>2 DEF Inv, NobodyIsOvertaken

\* A step of a pass keeps the counts covering and within the limits.
LEMMA PassKeeps == Inv /\ PassStep => Inv'
<1> SUFFICES ASSUME Inv, PassStep PROVE Inv'
  OBVIOUS
<1> USE DEF Inv
<1>1. ASSUME NEW waiting \in SUBSET Movers, NEW standing \in Standings,
             PassReads(waiting, standing)
      PROVE  Inv'
  <2>1. /\ planned = {} /\ started = {} /\ skipped = {}
        /\ planned' = {} /\ started' = {} /\ skipped' = {}
    BY <1>1 DEF PassReads, Rested, rowVars
  <2>2. TypeOK' /\ Rested'
    BY <1>1, <2>1, StandingsAssumption DEF PassReads, TypeOK, Rested, rowVars
  <2>3. RowsExist' /\ InTurn' /\ NobodyIsOvertaken'
    BY <1>1, <2>1 DEF PassReads, RowsExist, InTurn, NobodyIsOvertaken, Active, In, rowVars
  <2>4. CountsCover' /\ LimitsHold'
    BY <1>1, <2>1 DEF PassReads, CountsCover, LimitsHold, Within, Active, In, rowVars
  <2>5. QueueIsBounded'
    BY <1>1, SameRowsSameQueue DEF PassReads, rowVars
  <2> QED
    BY <2>2, <2>3, <2>4, <2>5
<1>2. ASSUME NEW drained \in SUBSET Drainable, PassLoads(drained) PROVE Inv'
  <2>1. /\ planned = {} /\ started = {} /\ skipped = {}
        /\ planned' = {} /\ started' = {} /\ skipped' = {}
    BY <1>2 DEF PassLoads, Rested
  <2>2. TypeOK' /\ Rested' /\ NobodyIsOvertaken'
    BY <1>2, <2>1, DrainableAssumption
       DEF PassLoads, TypeOK, Rested, NobodyIsOvertaken, Active, In, rowVars
  <2>3. counted' = Active /\ Active' = Active
    BY <1>2 DEF PassLoads, Active, In, rowVars
  <2>4. RowsExist' /\ InTurn'
    BY <1>2, <2>1, <2>3 DEF PassLoads, RowsExist, InTurn, rowVars
  <2>5. Within(Active \cap Movers)
    BY <2>1 DEF LimitsHold
  <2>6. CountsCover' /\ LimitsHold'
    BY <2>1, <2>3, <2>5 DEF CountsCover, Occupied, LimitsHold, Within
  <2>7. QueueIsBounded'
    BY <1>2, SameRowsSameQueue DEF PassLoads, rowVars
  <2> QED
    BY <2>2, <2>4, <2>6, <2>7
<1>3. ASSUME NEW t \in Movers, Take(t) PROVE Inv'
  <2>1. counted \in SUBSET Transfers /\ phase = "walk"
    BY <1>3 DEF TypeOK, Take, Consider
  <2>2. Within((counted \cup {t}) \cap Movers)
    BY <1>3, <2>1, TakingKeepsLimits DEF Take, CountsCover
  <2>3. BandwidthShare(Cardinality(OnRoute(t, counted))) \in Nat
    BY <2>1, ScopesAreFinite, ShareIsNat
  <2>4. TypeOK' /\ Rested' /\ RowsExist'
    BY <1>3, <2>3 DEF Take, Consider, TypeOK, Rested, RowsExist, Transfers
  <2>5. CountsCover'
    BY <1>3, <2>1, <2>2 DEF Take, CountsCover, Occupied, Active, In, Within
  <2>6. LimitsHold'
    BY <1>3 DEF Take, LimitsHold, Active, In, Within
  <2>7. InTurn' /\ NobodyIsOvertaken'
    BY <1>3, TakeInTurn
  <2>8. QueueIsBounded'
    BY <1>3, SameRowsSameQueue DEF Take
  <2> QED
    BY <2>4, <2>5, <2>6, <2>7, <2>8
<1>4. ASSUME NEW t \in Movers, Skip(t) PROVE Inv'
  <2>1. TypeOK' /\ Rested' /\ RowsExist' /\ CountsCover' /\ LimitsHold'
    BY <1>4 DEF Skip, Consider, TypeOK, Rested, RowsExist, CountsCover, Occupied, LimitsHold,
                Within, Active, In, rowVars
  <2>2. InTurn'
    BY <1>4 DEF Skip, Consider, InTurn, Before, Active, In, rowVars
  <2>3. ~Fits(t, counted) => ~Fits(t, counted \ {x \in planned : Before(t, x)})
    <3>1. \A x \in planned : Before(x, t) /\ x \in Movers
      BY <1>4 DEF Skip, Consider, InTurn, TypeOK
    <3>2. \A x \in Movers : Before(x, t) => ~Before(t, x)
      BY TransfersAssumption, NumberAssumption DEF Before, TypeOK, Transfers
    <3>3. counted \ {x \in planned : Before(t, x)} = counted
      BY <3>1, <3>2
    <3> QED
      BY <3>3
  <2>4. NobodyIsOvertaken'
    <3>1. ASSUME NEW s \in skipped \cup {t}
          PROVE  \/ Ends(s) \cap avoid # {}
                 \/ ~Fits(s, counted \ {x \in planned : Before(s, x)})
      BY <1>4, <2>3 DEF Skip, NobodyIsOvertaken
    <3> QED
      BY <1>4, <3>1 DEF Skip, NobodyIsOvertaken, Before, Fits
  <2>5. QueueIsBounded'
    BY <1>4, SameRowsSameQueue DEF Skip, rowVars
  <2> QED
    BY <2>1, <2>2, <2>4, <2>5
<1>5. ASSUME NEW t \in Movers, Accepted(t) PROVE Inv'
  <2>1. TypeOK' /\ Rested' /\ RowsExist' /\ CountsCover'
    BY <1>5 DEF Accepted, Offer, TypeOK, Rested, RowsExist, CountsCover, Occupied, Within,
                Active, In, rowVars
  <2>2. LimitsHold'
    <3> DEFINE moving == (Active \cap Movers) \cup started
    <3>1. moving \cup {t} \subseteq counted \cap Movers /\ counted \subseteq Transfers
      BY <1>5 DEF Accepted, Offer, CountsCover, Occupied, TypeOK
    <3>2. Within(moving \cup {t})
      BY <1>5, <3>1, PartIsWithin DEF Accepted, Offer, CountsCover
    <3>3. moving' = moving \cup {t}
      BY <1>5 DEF Accepted, Active, In, rowVars
    <3> QED
      BY <3>2, <3>3 DEF LimitsHold, Within
  <2>3. InTurn' /\ NobodyIsOvertaken'
    BY <1>5, OfferedInTurn DEF Accepted, InTurn, Before, Active, In, rowVars
  <2>4. QueueIsBounded'
    BY <1>5, SameRowsSameQueue DEF Accepted, rowVars
  <2> QED
    BY <2>1, <2>2, <2>3, <2>4
<1>6. ASSUME NEW t \in Movers, Refused(t) PROVE Inv'
  <2>1. TypeOK' /\ Rested' /\ RowsExist' /\ CountsCover' /\ LimitsHold'
    BY <1>6 DEF Refused, Offer, TypeOK, Rested, RowsExist, CountsCover, Occupied, LimitsHold,
                Within, Active, In, Transfers
  <2>2. InTurn' /\ NobodyIsOvertaken'
    BY <1>6, OfferedInTurn DEF Refused, InTurn, Before, Active, In
  <2>3. QueueIsBounded'
    BY <1>6, SameRowsSameQueue DEF Refused
  <2> QED
    BY <2>1, <2>2, <2>3
<1>7. CASE PassCommits
  <2>1. TypeOK' /\ Rested' /\ RowsExist' /\ CountsCover' /\ InTurn' /\ NobodyIsOvertaken'
    BY <1>7 DEF PassCommits, TypeOK, Rested, RowsExist, CountsCover, InTurn, NobodyIsOvertaken
  <2>2. LimitsHold'
    <3>1. ((Active \cap Movers) \cup started)' = (Active \cap Movers) \cup started
      BY <1>7 DEF PassCommits, Active, In, TypeOK, Transfers
    <3> QED
      BY <3>1 DEF LimitsHold, Within
  <2>3. QueueIsBounded'
    <3>1. ((Live \cap Warms) \ revived)' \subseteq (Live \cap Warms) \ revived
      <4> SUFFICES ASSUME NEW t \in ((Live \cap Warms) \ revived)'
                   PROVE  t \in (Live \cap Warms) \ revived
        OBVIOUS
      <4>1. t \in Transfers /\ t \in Warms /\ t \notin revived
        BY <1>7 DEF PassCommits, Live, Active, In
      <4>2. t \in started => state[t] \notin {"none", "done"}
        BY <1>7, <4>1 DEF PassCommits, RowsExist
      <4>3. t \notin started => state[t] \in {"waiting", "assigned", "running"}
        BY <1>7, <4>1 DEF PassCommits, Live, Active, In
      <4> QED
        BY <4>1, <4>2, <4>3 DEF Live, Active, In, TypeOK
    <3> QED
      BY <3>1, FewerWarms
  <2> QED
    BY <2>1, <2>2, <2>3
<1> QED
  BY <1>1, <1>2, <1>3, <1>4, <1>5, <1>6, <1>7 DEF PassStep

-----------------------------------------------------------------------------

\* The invariant holds throughout, in every instance.
THEOREM Invariant == Spec => []Inv
<1>1. Inv /\ [Next]_vars => Inv'
  <2>1. Inv /\ UNCHANGED vars => Inv'
    <3> SUFFICES ASSUME Inv, UNCHANGED vars PROVE Inv'
      OBVIOUS
    <3>1. /\ TypeOK' /\ Rested' /\ RowsExist' /\ CountsCover' /\ LimitsHold'
      BY DEF vars, rowVars, passVars, Inv, TypeOK, Rested, RowsExist, CountsCover, Occupied,
             LimitsHold, Within, Active, In
    <3>2. InTurn'
      BY DEF vars, rowVars, passVars, Inv, InTurn, Before, Active, In
    <3>3. NobodyIsOvertaken'
      BY DEF vars, rowVars, passVars, Inv, NobodyIsOvertaken, Before, Fits
    <3>4. QueueIsBounded'
      BY SameRowsSameQueue DEF vars, rowVars, Inv
    <3> QED
      BY <3>1, <3>2, <3>3, <3>4 DEF Inv
  <2> QED
    BY <2>1, PassKeeps, BesideKeeps DEF Next
<1> QED
  BY <1>1, InitInv, PTL DEF Spec

\* Type correctness, for every set of transfers and every limit.
THEOREM TypeCorrect == Spec => []TypeOK
BY Invariant, PTL DEF Inv

\* However rows move beside a pass, what moves data stays within every limit.
THEOREM LimitsAlwaysHold == Spec => []LimitsHold
BY Invariant, PTL DEF Inv

\* However long the queue and whatever its users owe, no transfer is passed over for
\* one behind it.
THEOREM NobodyEverOvertaken == Spec => []NobodyIsOvertaken
BY Invariant, PTL DEF Inv

\* However requests, retries, cancels and passes interleave, no user has more warms
\* than the queue may hold and as many as may run.
THEOREM QueueAlwaysBounded == Spec => []QueueIsBounded
BY Invariant, PTL DEF Inv

-----------------------------------------------------------------------------
(* Shares of bandwidth.                                                    *)

\* The share of the transfer planned when so many are active, for each number.
Shares == [k \in Nat |-> BandwidthShare(k)]

\* The shares of the first, the second, up to the n-th.
Harmonic(n) == SumOver(Shares, 0 .. n - 1)

\* Any transfers that occupy a route have shares that some order of planning them
\* one by one would have given: no part of them has more.
SharesInv ==
    \A r \in Movers : \A s \in SUBSET OnRoute(r, Occupied) :
      SumOver(share, s) <= Harmonic(Cardinality(s))

\* The smaller and the larger of two numbers.
LEMMA MinMax ==
    ASSUME NEW a \in Nat, NEW b \in Nat
    PROVE  /\ Min({a, b}) = IF a <= b THEN a ELSE b
           /\ Max({a, b}) = IF a >= b THEN a ELSE b
<1>1. /\ \E x \in {a, b} : \A y \in {a, b} : x <= y
      /\ \E x \in {a, b} : \A y \in {a, b} : x >= y
  OBVIOUS
<1>2. /\ Min({a, b}) \in {a, b} /\ \A y \in {a, b} : Min({a, b}) <= y
      /\ Max({a, b}) \in {a, b} /\ \A y \in {a, b} : Max({a, b}) >= y
  BY <1>1, Zenon DEF Min, Max
<1> QED
  BY <1>2

\* Divided among more, each part is no larger.
LEMMA DividedAmongMore ==
    ASSUME NEW a \in Nat, NEW d \in Nat \ {0}, NEW e \in Nat \ {0}, d <= e
    PROVE  a \div d \in Nat /\ a \div e \in Nat /\ a \div e <= a \div d
<1> DEFINE p == a \div d
           q == a \div e
<1>1. p \in Nat /\ q \in Nat
  OBVIOUS
<1>2. a < d * p + d
  <2>1. a = d * p + (a % d)
    OBVIOUS
  <2>2. a % d \in Nat /\ a % d < d
    OBVIOUS
  <2>3. d * p \in Nat
    BY <1>1
  <2> QED
    BY <2>1, <2>2, <2>3
<1>3. e * q <= a
  <2>1. a = e * q + (a % e)
    OBVIOUS
  <2>2. a % e \in Nat
    OBVIOUS
  <2>3. e * q \in Nat
    BY <1>1
  <2> QED
    BY <2>1, <2>2, <2>3
<1> HIDE DEF p, q
<1>4. ASSUME p + 1 <= q PROVE FALSE
  <2>1. d * (p + 1) = d * p + d /\ d * p \in Nat
    BY <1>1
  <2>2. d * (p + 1) <= d * q
    BY <1>1, <1>4
  <2>3. d * q <= e * q /\ d * q \in Nat /\ e * q \in Nat
    BY <1>1
  <2> QED
    BY <1>2, <1>3, <2>1, <2>2, <2>3
<1>5. q <= p
  BY <1>1, <1>4
<1> QED
  BY <1>1, <1>5 DEF p, q

\* Beside more transfers a share is no larger.
LEMMA SharesFall ==
    ASSUME NEW n \in Nat, NEW c \in Nat, n <= c
    PROVE  BandwidthShare(c) <= BandwidthShare(n)
<1> DEFINE p == Aggregate \div (n + 1)
           q == Aggregate \div (c + 1)
<1>1. p \in Nat /\ q \in Nat /\ q <= p
  <2>1. n + 1 \in Nat \ {0} /\ c + 1 \in Nat \ {0} /\ n + 1 <= c + 1
    OBVIOUS
  <2> QED
    BY <2>1, LimitsAssumption, DividedAmongMore
<1>2. /\ BandwidthShare(n) = Max({Min({p, MaxShare}), MinShare})
      /\ BandwidthShare(c) = Max({Min({q, MaxShare}), MinShare})
  BY DEF BandwidthShare
<1> HIDE DEF p, q
<1>3. /\ Min({p, MaxShare}) \in Nat /\ Min({q, MaxShare}) \in Nat
      /\ Min({q, MaxShare}) <= Min({p, MaxShare})
  BY <1>1, MinMax, LimitsAssumption
<1>4. /\ BandwidthShare(n) = IF Min({p, MaxShare}) >= MinShare THEN Min({p, MaxShare})
                             ELSE MinShare
      /\ BandwidthShare(c) = IF Min({q, MaxShare}) >= MinShare THEN Min({q, MaxShare})
                             ELSE MinShare
  BY <1>2, <1>3, MinMax, LimitsAssumption
<1> QED
  BY <1>3, <1>4, LimitsAssumption

\* One more adds its own share.
LEMMA HarmonicStep ==
    ASSUME NEW n \in Nat
    PROVE  /\ Harmonic(n) \in Nat
           /\ Harmonic(n + 1) = BandwidthShare(n) + Harmonic(n)
<1>1. ASSUME NEW k \in Nat PROVE Summable(Shares, 0 .. k - 1)
  <2>1. IsFiniteSet(0 .. k - 1)
    BY FS_Interval
  <2> QED
    BY <2>1, ShareIsNat DEF Summable, Shares
<1>2. (0 .. (n + 1) - 1) \ {n} = 0 .. n - 1 /\ n \in 0 .. (n + 1) - 1
  OBVIOUS
<1>3. SumOver(Shares, 0 .. (n + 1) - 1) = Shares[n] + SumOver(Shares, 0 .. n - 1)
  BY <1>1, <1>2, SumWithout
<1> QED
  BY <1>1, <1>3, SumIsNat DEF Harmonic, Shares

\* Fewer transfers with no larger shares have no more between them.
LEMMA FewerShares ==
    ASSUME TypeOK, TypeOK', SharesInv, Occupied' \subseteq Occupied,
           \A x \in Occupied' : share'[x] <= share[x]
    PROVE  SharesInv'
<1> SUFFICES ASSUME NEW r \in Movers, NEW s \in SUBSET OnRoute(r, Occupied')
             PROVE  SumOver(share', s) <= Harmonic(Cardinality(s))
  BY DEF SharesInv, Harmonic, SumOver, Units, OnRoute, Shares
<1>1. /\ s \in SUBSET OnRoute(r, Occupied) /\ s \in SUBSET Occupied' /\ s \in SUBSET Transfers
  BY DEF OnRoute, Transfers
<1>2. SumOver(share, s) <= Harmonic(Cardinality(s))
  BY <1>1 DEF SharesInv
<1>3. IsFiniteSet(s) /\ Cardinality(s) \in Nat
  BY <1>1, ScopesAreFinite
<1>4. Summable(share, s)
  BY <1>1, <1>3 DEF TypeOK, Summable
<1>5. \A x \in s : share'[x] \in Nat /\ share[x] \in Nat /\ share'[x] <= share[x]
  BY <1>1 DEF TypeOK
<1>6. SumOver(share', s) \in Nat /\ SumOver(share', s) <= SumOver(share, s)
  <2>1. Units(share', s) \subseteq Units(share, s)
    BY <1>5 DEF Units
  <2>2. IsFiniteSet(Units(share, s))
    BY <1>4, UnitsFinite DEF Summable
  <2> QED
    BY <2>1, <2>2, FS_Subset, FS_CardinalityType DEF SumOver
<1>7. SumOver(share, s) \in Nat /\ Harmonic(Cardinality(s)) \in Nat
  BY <1>3, <1>4, SumIsNat, HarmonicStep
<1> QED
  BY <1>2, <1>6, <1>7

\* The transfer a pass takes gets no more than it would beside any part of what
\* occupies its route.
LEMMA TakenShare ==
    ASSUME Inv, TypeOK', SharesInv, NEW t \in Movers, Take(t)
    PROVE  SharesInv'
<1> USE DEF Inv
<1>1. /\ t \notin Occupied /\ Occupied' = Occupied \cup {t}
      /\ Occupied \subseteq counted /\ counted \subseteq Transfers
  BY DEF Take, Consider, CountsCover, InTurn, TypeOK, Occupied, Active, In
<1> DEFINE c == Cardinality(OnRoute(t, counted))
<1>2. /\ c \in Nat /\ share' = [share EXCEPT ![t] = BandwidthShare(c)]
  BY <1>1, ScopesAreFinite DEF Take
<1> HIDE DEF c
<1> SUFFICES ASSUME NEW r \in Movers, NEW s \in SUBSET OnRoute(r, Occupied')
             PROVE  SumOver(share', s) <= Harmonic(Cardinality(s))
  BY DEF SharesInv, Harmonic, SumOver, Units, OnRoute, Shares
<1>3. s \in SUBSET Transfers /\ IsFiniteSet(s) /\ Cardinality(s) \in Nat
  BY ScopesAreFinite DEF OnRoute, Transfers
<1>4. ASSUME NEW p \in SUBSET s, t \notin p, p \in SUBSET OnRoute(r, Occupied)
      PROVE  SumOver(share', p) <= Harmonic(Cardinality(p))
  <2>1. \A x \in p : share'[x] = share[x]
    BY <1>2, <1>3, <1>4 DEF TypeOK
  <2> QED
    BY <1>4, <2>1, SumAgrees DEF SharesInv
<1>5. CASE t \notin s
  BY <1>1, <1>4, <1>5 DEF OnRoute
<1>6. CASE t \in s
  <2> DEFINE p == s \ {t}
             n == Cardinality(p)
  <2>1. p \in SUBSET OnRoute(r, Occupied) /\ p \in SUBSET OnRoute(t, counted)
    BY <1>1, <1>6 DEF OnRoute, SameRoute
  <2>2. n \in Nat /\ n <= c /\ Cardinality(s) = n + 1
    <3>1. IsFiniteSet(OnRoute(t, counted))
      BY <1>1, ScopesAreFinite
    <3>2. Cardinality(p) <= Cardinality(OnRoute(t, counted))
      BY <2>1, <3>1, PartIsSmaller
    <3>3. Cardinality(p) = Cardinality(s) - 1 /\ IsFiniteSet(p)
      BY <1>3, <1>6, FS_RemoveElement
    <3>4. Cardinality(p) \in Nat
      BY <3>3, FS_CardinalityType
    <3> QED
      BY <1>3, <3>2, <3>3, <3>4 DEF c
  <2>3. Summable(share', s)
    BY <1>3 DEF TypeOK, Summable
  <2>4. SumOver(share', s) = share'[t] + SumOver(share', p) /\ SumOver(share', p) \in Nat
    BY <1>6, <2>3, SumWithout, SumIsNat
  <2>5. SumOver(share', p) <= Harmonic(n)
    BY <1>4, <2>1
  <2>6. share'[t] = BandwidthShare(c)
    BY <1>2 DEF TypeOK, Transfers
  <2> HIDE DEF p, n
  <2>7. BandwidthShare(c) \in Nat /\ BandwidthShare(n) \in Nat
    BY <1>2, <2>2, ShareIsNat
  <2>8. BandwidthShare(c) <= BandwidthShare(n)
    BY <1>2, <2>2, SharesFall
  <2>9. Harmonic(n) \in Nat /\ Harmonic(n + 1) = BandwidthShare(n) + Harmonic(n)
    BY <2>2, HarmonicStep
  <2> QED
    BY <2>2, <2>4, <2>5, <2>6, <2>7, <2>8, <2>9
<1> QED
  BY <1>5, <1>6

\* Nothing else gives a share, or makes a transfer occupy its route.
LEMMA StepsKeepShares ==
    ASSUME Inv, TypeOK', SharesInv, [Next]_vars
    PROVE  SharesInv'
<1> USE DEF Inv
<1>1. ASSUME NEW t \in Movers, Take(t) PROVE SharesInv'
  BY <1>1, TakenShare
<1>2. ASSUME Occupied' \subseteq Occupied, share' = share PROVE SharesInv'
  BY <1>2, FewerShares DEF TypeOK, Occupied, Transfers, Active, In
<1>3. ASSUME Occupied' \subseteq Occupied, NEW t \in Transfers,
             share' = [share EXCEPT ![t] = 0]
      PROVE  SharesInv'
  <2>1. \A x \in Transfers : share'[x] <= share[x]
    BY <1>3 DEF TypeOK
  <2>2. Occupied' \subseteq Transfers
    BY DEF TypeOK, Occupied, Active, In, Transfers
  <2> QED
    BY <1>3, <2>1, <2>2, FewerShares
<1>4. ASSUME NEW waiting \in SUBSET Movers, NEW standing \in Standings,
             PassReads(waiting, standing)
      PROVE  SharesInv'
  BY <1>2, <1>4 DEF PassReads, rowVars, Occupied, Active, In
<1>5. ASSUME NEW drained \in SUBSET Drainable, PassLoads(drained) PROVE SharesInv'
  BY <1>2, <1>5 DEF PassLoads, rowVars, Occupied, Active, In
<1>6. ASSUME NEW t \in Movers, Skip(t) PROVE SharesInv'
  BY <1>2, <1>6 DEF Skip, rowVars, Occupied, Active, In
<1>7. ASSUME NEW t \in Movers, Accepted(t) PROVE SharesInv'
  BY <1>2, <1>7 DEF Accepted, Offer, rowVars, Occupied, Active, In
<1>8. ASSUME NEW t \in Movers, Refused(t) PROVE SharesInv'
  BY <1>3, <1>8 DEF Refused, Occupied, Active, In, Transfers
<1>9. CASE PassCommits
  <2>1. Occupied' \subseteq Occupied
    BY <1>9 DEF PassCommits, Occupied, Active, In, TypeOK
  <2> QED
    BY <1>2, <1>9, <2>1 DEF PassCommits
<1>10. CASE Beside
  <2>1. PICK t \in Transfers : \/ Warm(t) \/ FlushCounts(t) \/ Flush(t) \/ ReleaseStarts(t)
                               \/ Runs(t) \/ End(t) \/ Cancel(t)
    BY <1>10 DEF Beside
  <2>2. Occupied' \subseteq Occupied
    BY <2>1, BesideTypes DEF passVars, Occupied
  <2>3. share' = share \/ share' = [share EXCEPT ![t] = 0]
    BY <2>1 DEF Warm, FlushCounts, Flush, ReleaseStarts, Runs, End, Cancel
  <2> QED
    BY <1>2, <1>3, <2>2, <2>3
<1>11. CASE UNCHANGED vars
  BY <1>2, <1>11 DEF vars, rowVars, passVars, Occupied, Active, In
<1> QED
  BY <1>1, <1>4, <1>5, <1>6, <1>7, <1>8, <1>9, <1>10, <1>11 DEF Next, PassStep

\* The sum by recursion that the property names is the sum.
LEMMA SharesSum ==
    ASSUME TypeOK, NEW s \in SUBSET Transfers
    PROVE  MapThenSumSet(LAMBDA x : share[x], s) = SumOver(share, s)
<1> DEFINE total == CHOOSE sum : Adds(sum, share, s)
<1>1. MapThenSumSet(LAMBDA x : share[x], s) = total[s]
  BY DEF MapThenSumSet, MapThenFoldSet, Adds
<1>2. Summable(share, s)
  BY ScopesAreFinite DEF Summable, TypeOK
<1>3. Adds(total, share, s)
  <2>1. Adds([r \in SUBSET s |-> SumOver(share, r)], share, s)
    BY <1>2, RecursionExists
  <2> QED
    BY <2>1
<1> HIDE DEF total
<1> QED
  BY <1>1, <1>2, <1>3, RecursionSums

\* So is that of the shares of the first n.
LEMMA HarmonicSum ==
    ASSUME NEW n \in Nat
    PROVE  MapThenSumSet(BandwidthShare, 0 .. n - 1) = Harmonic(n)
<1> DEFINE S == 0 .. n - 1
           Recurs(sum) ==
             sum = [s \in SUBSET S |->
                      IF s = {} THEN 0
                      ELSE BandwidthShare(CHOOSE t \in s : TRUE) + sum[s \ {CHOOSE t \in s : TRUE}]]
           total == CHOOSE sum : Recurs(sum)
<1>1. \A sum : Recurs(sum) <=> Adds(sum, Shares, S)
  <2>1. \A s \in SUBSET S : s # {} =>
          BandwidthShare(CHOOSE t \in s : TRUE) = Shares[CHOOSE t \in s : TRUE]
    <3>1. \A k \in Nat : Shares[k] = BandwidthShare(k)
      BY DEF Shares
    <3>2. \A s \in SUBSET S : s # {} => (CHOOSE t \in s : TRUE) \in Nat
      <4> SUFFICES ASSUME NEW s \in SUBSET S, s # {} PROVE (CHOOSE t \in s : TRUE) \in Nat
        OBVIOUS
      <4>1. S \subseteq Nat
        OBVIOUS
      <4> HIDE DEF S
      <4>2. PICK x \in s : x = CHOOSE t \in s : TRUE
        OBVIOUS
      <4> QED
        BY <4>1, <4>2
    <3> QED
      BY <3>1, <3>2
  <2> QED
    BY <2>1 DEF Adds
<1>2. total = CHOOSE sum : Adds(sum, Shares, S)
  <2> HIDE DEF Recurs
  <2> QED
    BY <1>1
<1>3. MapThenSumSet(BandwidthShare, S) = total[S]
  BY DEF MapThenSumSet, MapThenFoldSet
<1>4. Summable(Shares, S)
  <2>1. IsFiniteSet(S)
    BY FS_Interval
  <2> QED
    BY <2>1, ShareIsNat DEF Summable, Shares
<1> HIDE DEF total, Recurs
<1>5. Adds(total, Shares, S)
  <2>1. Adds([s \in SUBSET S |-> SumOver(Shares, s)], Shares, S)
    BY <1>4, RecursionExists
  <2> QED
    BY <1>2, <2>1
<1> QED
  BY <1>3, <1>4, <1>5, RecursionSums DEF Harmonic

\* Shares are never computed again (bandwidth_share): however transfers of a route end
\* and others are planned beside those that stay, n of them never have more than the
\* shares of the first, the second, up to the n-th.
THEOREM SharesAlwaysHarmonic == Spec => []SharesAreHarmonic
<1>1. Init => SharesInv
  <2> SUFFICES ASSUME Init, NEW r \in Movers, NEW s \in SUBSET OnRoute(r, Occupied)
               PROVE  SumOver(share, s) <= Harmonic(Cardinality(s))
    BY DEF SharesInv
  <2>1. s = {}
    BY DEF Init, Occupied, OnRoute, Active, In
  <2>2. SumOver(share, s) = 0 /\ Cardinality(s) = 0
    BY <2>1, SumOfNone, FS_EmptySet
  <2> QED
    BY <2>2, HarmonicStep
<1>2. Inv /\ Inv' /\ SharesInv /\ [Next]_vars => SharesInv'
  BY StepsKeepShares DEF Inv
<1>3. Inv /\ SharesInv => SharesAreHarmonic
  <2> SUFFICES ASSUME Inv, SharesInv, NEW t \in Movers
               PROVE  MapThenSumSet(LAMBDA x : share[x], OnRoute(t, Active))
                        <= MapThenSumSet(BandwidthShare, 0 .. Cardinality(OnRoute(t, Active)) - 1)
    BY DEF SharesAreHarmonic
  <2> DEFINE s == OnRoute(t, Active)
  <2>1. s \in SUBSET OnRoute(t, Occupied) /\ s \in SUBSET Transfers
    BY DEF OnRoute, Occupied, Active, In
  <2>2. Cardinality(s) \in Nat
    BY <2>1, ScopesAreFinite
  <2>3. SumOver(share, s) <= Harmonic(Cardinality(s))
    BY <2>1 DEF SharesInv
  <2> HIDE DEF s
  <2>4. MapThenSumSet(LAMBDA x : share[x], s) = SumOver(share, s)
    BY <2>1, SharesSum DEF Inv
  <2>5. MapThenSumSet(BandwidthShare, 0 .. Cardinality(s) - 1) = Harmonic(Cardinality(s))
    BY <2>2, HarmonicSum
  <2> QED
    BY <2>3, <2>4, <2>5 DEF s
<1> QED
  BY <1>1, <1>2, <1>3, Invariant, PTL DEF Spec
=============================================================================
