--------------------------- MODULE AccountingProofs ---------------------------
(***************************************************************************)
(* Proofs about Accounting, for every set of transfers and users, every    *)
(* price and every time.                                                   *)
(*                                                                         *)
(* Types need arithmetic: that halving leaves numbers (a power of two is   *)
(* the number of subsets of a set), and that sums over rows are numbers.   *)
(* Then, where one transaction on points is over before the next begins    *)
(* (Undisturbed: what it makes of an account is made of what is there),    *)
(* that points decayed when they are looked at are a ledger kept for       *)
(* everybody, and that users owe for what ran or still may: an account     *)
(* never holds more than the charges of its user's work (ForWork), because *)
(* nothing ends without having run before it is charged (InTurn).          *)
(*                                                                         *)
(* And, in every environment, that the totals of a report on whole days    *)
(* lose no more than fractions of seconds when rows are rolled up as they  *)
(* are: every total is a sum of rows and of buckets, field by field, and   *)
(* what leaves the rows of a window comes to its buckets, waits and runs   *)
(* in whole seconds.                                                       *)
(***************************************************************************)
EXTENDS Accounting, Sums

-----------------------------------------------------------------------------
(* Powers of two, and halving.                                             *)

\* A power of two is the number of sets that can be made of so many things.
LEMMA PowerCounts ==
    ASSUME NEW k \in Nat
    PROVE  /\ IsFiniteSet(SUBSET (1 .. k)) /\ Cardinality(SUBSET (1 .. k)) = 2^k
           /\ 2^k \in Nat \ {0}
<1>1. IsFiniteSet(1 .. k) /\ Cardinality(1 .. k) = k
  BY FS_Interval
<1>2. IsFiniteSet(SUBSET (1 .. k)) /\ Cardinality(SUBSET (1 .. k)) = 2^k
  BY <1>1, FS_SUBSET
<1>3. 2^k \in Nat
  BY <1>2, FS_CardinalityType
<1>4. 2^k # 0
  <2>1. {} \in SUBSET (1 .. k)
    OBVIOUS
  <2> QED
    BY <1>2, <2>1, FS_EmptySet
<1> QED
  BY <1>2, <1>3, <1>4

\* Nothing makes one set, which is empty.
LEMMA PowerOfNone == 2^0 = 1
<1>1. 1 .. 0 = {}
  OBVIOUS
<1>2. SUBSET (1 .. 0) = {{}}
  BY <1>1
<1>3. Cardinality(SUBSET (1 .. 0)) = 2^0
  BY PowerCounts
<1> QED
  BY <1>2, <1>3, FS_Singleton

\* One thing more makes twice as many: a set has it or it has not.
LEMMA PowerDoubles == ASSUME NEW k \in Nat PROVE 2^(k + 1) = 2 * 2^k
<1> DEFINE old == SUBSET (1 .. k)
           new == {s \cup {k + 1} : s \in old}
           f == [s \in old |-> s \cup {k + 1}]
<1>1. IsFiniteSet(old) /\ Cardinality(old) = 2^k /\ 2^k \in Nat
  BY PowerCounts
<1>2. ASSUME NEW r \in old, NEW s \in old, r \cup {k + 1} = s \cup {k + 1}
      PROVE  r = s
  <2>1. k + 1 \notin r /\ k + 1 \notin s
    OBVIOUS
  <2> QED
    BY <1>2, <2>1
<1>3. f \in Injection(old, new) /\ f \in Surjection(old, new)
  <2>1. f \in [old -> new] /\ \A s \in old : f[s] = s \cup {k + 1}
    OBVIOUS
  <2>2. \A s \in new : \E r \in old : f[r] = s
    BY <2>1
  <2> HIDE DEF old, f
  <2>3. \A r, s \in old : f[r] = f[s] => r = s
    BY <1>2, <2>1
  <2> QED
    BY <2>1, <2>2, <2>3 DEF Injection, IsInjective, Surjection
<1>4. IsFiniteSet(new) /\ Cardinality(new) = 2^k
  BY <1>1, <1>3, FS_Surjection
<1>5. old \cap new = {}
  <2>1. \A s \in old : k + 1 \notin s
    OBVIOUS
  <2> QED
    BY <2>1
<1>6. SUBSET (1 .. k + 1) = old \cup new
  <2>1. ASSUME NEW s \in SUBSET (1 .. k + 1), k + 1 \in s PROVE s \in new
    <3>1. s \ {k + 1} \in old
      OBVIOUS
    <3>2. s = (s \ {k + 1}) \cup {k + 1}
      BY <2>1
    <3> QED
      BY <3>1, <3>2
  <2>2. ASSUME NEW s \in SUBSET (1 .. k + 1), k + 1 \notin s PROVE s \in old
    BY <2>2
  <2>3. 1 .. k \subseteq 1 .. k + 1 /\ k + 1 \in 1 .. k + 1
    OBVIOUS
  <2>4. \A s \in old : s \subseteq 1 .. k + 1 /\ s \cup {k + 1} \subseteq 1 .. k + 1
    BY <2>3
  <2>5. \A s \in new : s \subseteq 1 .. k + 1
    BY <2>4
  <2>6. old \subseteq SUBSET (1 .. k + 1) /\ new \subseteq SUBSET (1 .. k + 1)
    BY <2>4, <2>5
  <2> HIDE DEF old, new
  <2> QED
    BY <2>1, <2>2, <2>6
<1>7. PICK n \in Nat : n = 2^k
  BY <1>1
<1>8. Cardinality(old \cup new) = n + n
  <2>1. Cardinality(old \cup new) = Cardinality(old) + Cardinality(new) - Cardinality(old \cap new)
    BY <1>1, <1>4, FS_Union
  <2> QED
    <3> HIDE DEF old, new
    <3>1. Cardinality(old \cap new) = 0
      BY <1>5, FS_EmptySet
    <3> QED
      BY <1>1, <1>4, <1>7, <2>1, <3>1
<1>9. Cardinality(SUBSET (1 .. k + 1)) = 2^(k + 1)
  BY PowerCounts
<1> HIDE DEF old, new
<1>10. 2^(k + 1) = n + n
  BY <1>6, <1>8, <1>9, Zenon
<1>11. n + n = 2 * n
  OBVIOUS
<1> QED
  BY <1>7, <1>10, <1>11, Zenon

\* What is left after some half-lives is a number, and no more than there was; after
\* none it is all there, and one more halves it.
LEMMA Halving ==
    ASSUME NEW p \in Nat, NEW k \in Nat
    PROVE  /\ p \div 2^k \in Nat /\ p \div 2^k <= p
           /\ p \div 2^0 = p
           /\ p \div 2^(k + 1) = (p \div 2^k) \div 2
<1>1. PICK m \in Nat \ {0} : m = 2^k
  BY PowerCounts
<1>2. p \div m \in Nat /\ p \div m <= p /\ p \div 1 = p
  OBVIOUS
<1>3. p \div (2 * m) = (p \div m) \div 2
  OBVIOUS
<1>4. 2^(k + 1) = 2 * m /\ 2^0 = 1
  BY <1>1, PowerDoubles, PowerOfNone, Zenon
<1> QED
  BY <1>1, <1>2, <1>3, <1>4, Zenon

\* The greater of a number and nothing.
LEMMA AtLeastNone == ASSUME NEW a \in Int PROVE Max({a, 0}) = IF a < 0 THEN 0 ELSE a
BY DEF Max

-----------------------------------------------------------------------------
(* Types.                                                                  *)

\* A row whose times are in order, and none of them to come.
RowOK(r, time) ==
    /\ r \in Row
    /\ r.state = "none" => r.started = NoTime
    /\ r.state \in Terminal <=> r.finished # NoTime
    /\ r.submitted <= time
    /\ r.started # NoTime =>
         /\ r.submitted <= r.started /\ r.started <= time
         /\ r.finished # NoTime => r.started <= r.finished

RowsOK == row \in [Transfers -> Row] /\ \A t \in Transfers : RowOK(row[t], now)

\* Whatever is about to be written was made by now, and a charge has been made.
OpenOK ==
    /\ open \subseteq Transactions
    /\ \A x \in open :
         /\ x.owes # NoTime => x.owes.at <= HalfLives(now)
         /\ x.does = "charge" => x.owes \in Accounts /\ x.owes.at <= HalfLives(now)

AccountsOK ==
    account \in [Users -> Accounts] /\ \A u \in Users : account[u].at <= HalfLives(now)

\* What is being removed was there, and had ended, when it was read.
PruningOK ==
    /\ DOMAIN pruning \subseteq Transfers \ pruned
    /\ \A t \in DOMAIN pruning : RowOK(pruning[t], now) /\ pruning[t].state \in Terminal

Fields == {"transfers", "succeeded", "bytes", "waited", "running"}

\* Sums of some transfers.
Counts(s) ==
    /\ DOMAIN s = Fields /\ \A f \in Fields : s[f] \in Nat
    /\ s["transfers"] > 0

StatsOK == IsFiniteSet(DOMAIN stats) /\ \A b \in DOMAIN stats : Counts(stats[b])

\* The inductive invariant behind TypeOK.
TypeInv ==
    /\ now \in Times /\ RowsOK /\ pruned \subseteq Transfers
    /\ charge \in [Transfers -> {"none", "pending", "reading", "charged", "lost"}]
    /\ OpenOK /\ AccountsOK /\ PruningOK /\ StatsOK

\* Half-lives are counted, and none or one passes with every tick.
LEMMA HalfLivesCount ==
    ASSUME NEW time \in Times
    PROVE  /\ HalfLives(time) \in Nat /\ HalfLives(time) \in 0 .. HalfLives(MaxNow)
           /\ HalfLives(time + 1) \in {HalfLives(time), HalfLives(time) + 1}
<1> DEFINE p == PerHalfLife
<1>1. p \in Nat \ {0} /\ time \in Nat /\ MaxNow \in Nat /\ time <= MaxNow
  BY TimeAssumption DEF Times
<1> HIDE DEF p
<1>2. ASSUME NEW n \in Nat
      PROVE  n \div p \in Nat /\ p * (n \div p) <= n /\ n < p * (n \div p) + p
  <2>1. n \div p \in Nat
    BY <1>1
  <2>2. n = p * (n \div p) + (n % p)
    BY <1>1
  <2>3. n % p \in Nat /\ n % p < p
    BY <1>1
  <2>4. p * (n \div p) \in Nat
    BY <1>1, <2>1
  <2> QED
    BY <1>1, <2>1, <2>2, <2>3, <2>4
<1>3. ASSUME NEW a \in Nat, NEW b \in Nat, a < b PROVE p * a + p <= p * b
  <2>1. PICK d \in Nat : b = (a + 1) + d
    <3>1. b - (a + 1) \in Nat /\ b = (a + 1) + (b - (a + 1))
      BY <1>3
    <3> QED
      BY <3>1
  <2>2. p * b = (p * a + p) + p * d
    BY <1>1, <2>1
  <2>3. p * d \in Nat /\ p * a \in Nat
    BY <1>1
  <2> QED
    BY <1>1, <2>2, <2>3
<1>4. ASSUME NEW m \in Nat, NEW n \in Nat, m <= n PROVE m \div p <= n \div p
  <2>1. m \div p \in Nat /\ n \div p \in Nat
    BY <1>2
  <2>2. ASSUME n \div p < m \div p PROVE FALSE
    <3>1. p * (n \div p) + p <= p * (m \div p)
      BY <1>3, <2>1, <2>2
    <3>2. n < p * (n \div p) + p /\ p * (m \div p) <= m
      BY <1>2
    <3>3. p * (n \div p) \in Nat /\ p * (m \div p) \in Nat
      BY <1>1, <2>1
    <3> QED
      BY <1>1, <1>4, <3>1, <3>2, <3>3
  <2> QED
    BY <2>1, <2>2
<1>5. (time + 1) \div p <= time \div p + 1
  <2> DEFINE a == time \div p
             b == (time + 1) \div p
  <2>1. a \in Nat /\ b \in Nat /\ time < p * a + p /\ p * b <= time + 1
    BY <1>1, <1>2
  <2> HIDE DEF a, b
  <2>2. ASSUME a + 1 < b PROVE FALSE
    <3>1. p * (a + 1) + p <= p * b
      BY <1>3, <2>1, <2>2
    <3>2. p * (a + 1) = p * a + p /\ p * a \in Nat /\ p * b \in Nat
      BY <1>1, <2>1
    <3> QED
      BY <1>1, <2>1, <3>1, <3>2
  <2>3. b <= a + 1
    BY <2>1, <2>2
  <2> QED
    BY <2>3 DEF a, b
<1>6. /\ time \div p \in Nat /\ MaxNow \div p \in Nat /\ (time + 1) \div p \in Nat
      /\ time \div p <= MaxNow \div p /\ time \div p <= (time + 1) \div p
  BY <1>1, <1>2, <1>4
<1> QED
  BY <1>5, <1>6 DEF HalfLives, p

\* Points are numbers.
LEMMA PointsAreNat == ASSUME NEW t \in Transfers PROVE Points(t) \in Nat
<1>1. Size[t] \in Nat /\ PointsPerGib \in Nat
  BY SizeAssumption, ExactAssumption
<1>2. (Size[t] + 9) \div 10 \in Nat
  BY <1>1
<1>3. \A a, b \in Nat : a * b \in Nat
  OBVIOUS
<1> QED
  BY <1>1, <1>2, <1>3 DEF Points

\* What a user owes is a number, and no more than is stored.
LEMMA DecayedIsNat ==
    ASSUME now \in Times, AccountsOK, NEW u \in Users
    PROVE  /\ Decayed(u) \in Nat /\ Decayed(u) <= account[u].points
           /\ account[u].points \in Nat /\ HalfLives(now) - account[u].at \in Nat
<1>1. account[u].points \in Nat /\ account[u].at \in Nat /\ account[u].at <= HalfLives(now)
  BY DEF AccountsOK, Accounts
<1>2. HalfLives(now) \in Nat /\ HalfLives(now) - account[u].at \in Nat
  BY <1>1, HalfLivesCount
<1> QED
  BY <1>1, <1>2, Halving DEF Decayed

\* Points are never less than nothing, whatever is given back.
LEMMA WithPointsOK ==
    ASSUME now \in Times, AccountsOK, NEW u \in Users, NEW change \in Int
    PROVE  /\ WithPoints(u, change) \in Accounts /\ WithPoints(u, change).at = HalfLives(now)
           /\ WithPoints(u, change).points =
                IF Decayed(u) + change < 0 THEN 0 ELSE Decayed(u) + change
<1>1. Decayed(u) \in Nat
  BY DecayedIsNat
<1>2. Max({Decayed(u) + change, 0})
        = IF Decayed(u) + change < 0 THEN 0 ELSE Decayed(u) + change
  BY <1>1, AtLeastNone
<1>3. HalfLives(now) \in 0 .. HalfLives(MaxNow)
  BY HalfLivesCount
<1> QED
  BY <1>1, <1>2, <1>3 DEF WithPoints, Accounts

-----------------------------------------------------------------------------
(* What a set of transfers comes to.                                       *)

\* The recursion that defines a sum over transfers comes to its units.
LEMMA RecursionIsSum ==
    ASSUME NEW v, NEW ts \in SUBSET Transfers, \A t \in ts : v[t] \in Nat,
           NEW sum, sum = CHOOSE s : Adds(s, v, ts)
    PROVE  sum[ts] = SumOver(v, ts) /\ sum[ts] \in Nat
<1>1. Summable(v, ts)
  BY FiniteAssumption, FS_Subset DEF Summable
<1>2. Adds(sum, v, ts)
  <2>1. Adds([s \in SUBSET ts |-> SumOver(v, s)], v, ts)
    BY <1>1, RecursionExists
  <2> QED
    BY <2>1
<1> QED
  BY <1>1, <1>2, RecursionSums, SumIsNat

PointsOf == [t \in Transfers |-> Points(t)]

\* Points of transfers, summed up.
LEMMA PointsSum ==
    ASSUME NEW ts \in SUBSET Transfers
    PROVE  MapThenSumSet(Points, ts) = SumOver(PointsOf, ts)
<1> DEFINE Recurs(sum) ==
             sum = [s \in SUBSET ts |->
                      IF s = {} THEN 0
                      ELSE Points(CHOOSE t \in s : TRUE) + sum[s \ {CHOOSE t \in s : TRUE}]]
           total == CHOOSE sum : Recurs(sum)
<1>1. \A sum : Recurs(sum) <=> Adds(sum, PointsOf, ts)
  <2>1. \A s \in SUBSET ts : s # {} =>
          Points(CHOOSE t \in s : TRUE) = PointsOf[CHOOSE t \in s : TRUE]
    BY DEF PointsOf
  <2> QED
    BY <2>1 DEF Adds
<1>2. total = CHOOSE sum : Adds(sum, PointsOf, ts)
  <2> HIDE DEF Recurs
  <2> QED
    BY <1>1
<1>3. MapThenSumSet(Points, ts) = total[ts]
  BY DEF MapThenSumSet, MapThenFoldSet
<1>4. \A t \in ts : PointsOf[t] \in Nat
  BY PointsAreNat DEF PointsOf
<1> HIDE DEF total, Recurs
<1> QED
  BY <1>2, <1>3, <1>4, RecursionIsSum

DoneOf(rows) == [t \in DOMAIN rows |-> rows[t].done]
WaitsOf(rows, unit) == [t \in DOMAIN rows |-> WaitOf(rows[t]) \div unit]
RunsOf(rows, unit) == [t \in DOMAIN rows |-> RunOf(rows[t]) \div unit]

\* Rows of these transfers, with their times in order.
InOrder(rows, ts) ==
    ts \subseteq Transfers \cap DOMAIN rows /\ \A t \in ts : RowOK(rows[t], now)

\* Waits and runs are numbers: times are in order.
LEMMA TimesAreNat ==
    ASSUME NEW r, RowOK(r, now)
    PROVE  WaitOf(r) \in Nat /\ RunOf(r) \in Nat
BY TimeAssumption DEF RowOK, Row, WaitOf, RunOf, Times

\* What rows are summed up by are numbers.
LEMMA ColumnsAreNat ==
    ASSUME NEW rows, NEW ts, InOrder(rows, ts), NEW unit \in Nat \ {0}
    PROVE  \A t \in ts : /\ DoneOf(rows)[t] \in Nat
                         /\ WaitsOf(rows, unit)[t] \in Nat /\ RunsOf(rows, unit)[t] \in Nat
<1> SUFFICES ASSUME NEW t \in ts
             PROVE  /\ rows[t].done \in Nat
                    /\ WaitOf(rows[t]) \div unit \in Nat /\ RunOf(rows[t]) \div unit \in Nat
  BY DEF DoneOf, WaitsOf, RunsOf, InOrder
<1>1. RowOK(rows[t], now)
  BY DEF InOrder
<1>2. WaitOf(rows[t]) \in Nat /\ RunOf(rows[t]) \in Nat /\ rows[t].done \in Nat
  BY <1>1, TimesAreNat DEF RowOK, Row
<1> QED
  BY <1>2

\* Bytes of rows, summed up.
LEMMA BytesSum ==
    ASSUME NEW rows, NEW ts, InOrder(rows, ts)
    PROVE  /\ MapThenSumSet(LAMBDA t : rows[t].done, ts) = SumOver(DoneOf(rows), ts)
           /\ SumOver(DoneOf(rows), ts) \in Nat
<1> DEFINE Recurs(sum) ==
             sum = [s \in SUBSET ts |->
                      IF s = {} THEN 0
                      ELSE rows[CHOOSE t \in s : TRUE].done + sum[s \ {CHOOSE t \in s : TRUE}]]
           total == CHOOSE sum : Recurs(sum)
<1>1. \A sum : Recurs(sum) <=> Adds(sum, DoneOf(rows), ts)
  <2>1. \A s \in SUBSET ts : s # {} =>
          rows[CHOOSE t \in s : TRUE].done = DoneOf(rows)[CHOOSE t \in s : TRUE]
    BY DEF DoneOf, InOrder
  <2> QED
    BY <2>1 DEF Adds
<1>2. total = CHOOSE sum : Adds(sum, DoneOf(rows), ts)
  <2> HIDE DEF Recurs
  <2> QED
    BY <1>1
<1>3. MapThenSumSet(LAMBDA t : rows[t].done, ts) = total[ts]
  BY DEF MapThenSumSet, MapThenFoldSet
<1>4. ts \in SUBSET Transfers /\ \A t \in ts : DoneOf(rows)[t] \in Nat
  <2>1. 1 \in Nat \ {0}
    OBVIOUS
  <2> QED
    BY <2>1, ColumnsAreNat DEF InOrder
<1> HIDE DEF total, Recurs
<1> QED
  BY <1>2, <1>3, <1>4, RecursionIsSum

\* Waits of rows, summed up.
LEMMA WaitsSum ==
    ASSUME NEW rows, NEW ts, InOrder(rows, ts), NEW unit \in Nat \ {0}
    PROVE  /\ MapThenSumSet(LAMBDA t : WaitOf(rows[t]) \div unit, ts) = SumOver(WaitsOf(rows, unit), ts)
           /\ SumOver(WaitsOf(rows, unit), ts) \in Nat
<1> DEFINE Recurs(sum) ==
             sum = [s \in SUBSET ts |->
                      IF s = {} THEN 0
                      ELSE WaitOf(rows[CHOOSE t \in s : TRUE]) \div unit + sum[s \ {CHOOSE t \in s : TRUE}]]
           total == CHOOSE sum : Recurs(sum)
<1>1. \A sum : Recurs(sum) <=> Adds(sum, WaitsOf(rows, unit), ts)
  <2>1. \A s \in SUBSET ts : s # {} =>
          WaitOf(rows[CHOOSE t \in s : TRUE]) \div unit = WaitsOf(rows, unit)[CHOOSE t \in s : TRUE]
    BY DEF WaitsOf, InOrder
  <2> QED
    BY <2>1 DEF Adds
<1>2. total = CHOOSE sum : Adds(sum, WaitsOf(rows, unit), ts)
  <2> HIDE DEF Recurs
  <2> QED
    BY <1>1
<1>3. MapThenSumSet(LAMBDA t : WaitOf(rows[t]) \div unit, ts) = total[ts]
  BY DEF MapThenSumSet, MapThenFoldSet
<1>4. ts \in SUBSET Transfers /\ \A t \in ts : WaitsOf(rows, unit)[t] \in Nat
  BY ColumnsAreNat DEF InOrder
<1> HIDE DEF total, Recurs
<1> QED
  BY <1>2, <1>3, <1>4, RecursionIsSum

\* Times rows ran, summed up.
LEMMA RunsSum ==
    ASSUME NEW rows, NEW ts, InOrder(rows, ts), NEW unit \in Nat \ {0}
    PROVE  /\ MapThenSumSet(LAMBDA t : RunOf(rows[t]) \div unit, ts) = SumOver(RunsOf(rows, unit), ts)
           /\ SumOver(RunsOf(rows, unit), ts) \in Nat
<1> DEFINE Recurs(sum) ==
             sum = [s \in SUBSET ts |->
                      IF s = {} THEN 0
                      ELSE RunOf(rows[CHOOSE t \in s : TRUE]) \div unit + sum[s \ {CHOOSE t \in s : TRUE}]]
           total == CHOOSE sum : Recurs(sum)
<1>1. \A sum : Recurs(sum) <=> Adds(sum, RunsOf(rows, unit), ts)
  <2>1. \A s \in SUBSET ts : s # {} =>
          RunOf(rows[CHOOSE t \in s : TRUE]) \div unit = RunsOf(rows, unit)[CHOOSE t \in s : TRUE]
    BY DEF RunsOf, InOrder
  <2> QED
    BY <2>1 DEF Adds
<1>2. total = CHOOSE sum : Adds(sum, RunsOf(rows, unit), ts)
  <2> HIDE DEF Recurs
  <2> QED
    BY <1>1
<1>3. MapThenSumSet(LAMBDA t : RunOf(rows[t]) \div unit, ts) = total[ts]
  BY DEF MapThenSumSet, MapThenFoldSet
<1>4. ts \in SUBSET Transfers /\ \A t \in ts : RunsOf(rows, unit)[t] \in Nat
  BY ColumnsAreNat DEF InOrder
<1> HIDE DEF total, Recurs
<1> QED
  BY <1>2, <1>3, <1>4, RecursionIsSum

\* The rows of these that succeeded.
SucceededOf(rows, ts) == {t \in ts : rows[t].state = "SUCCEEDED"}

\* A set of rows comes to numbers, and some rows to more than none.
LEMMA SumsAreCounts ==
    ASSUME NEW rows, NEW ts, InOrder(rows, ts), NEW unit \in Nat \ {0}
    PROVE  /\ DOMAIN SumOf(rows, ts, unit) = Fields
           /\ \A f \in Fields : SumOf(rows, ts, unit)[f] \in Nat
           /\ ts # {} => Counts(SumOf(rows, ts, unit))
<1>1. IsFiniteSet(ts) /\ Cardinality(ts) \in Nat /\ (ts # {} => Cardinality(ts) > 0)
  <2>1. ts \subseteq Transfers
    BY DEF InOrder
  <2> QED
    BY <2>1, FiniteAssumption, FS_Subset, FS_CardinalityType, FS_EmptySet
<1>2. Cardinality(SucceededOf(rows, ts)) \in Nat
  <2>1. SucceededOf(rows, ts) \in SUBSET ts
    BY DEF SucceededOf
  <2> QED
    BY <1>1, <2>1, FS_Subset, FS_CardinalityType
<1>3. \A a, b, c, d, e \in Nat :
        LET s == [transfers |-> a, succeeded |-> b, bytes |-> c, waited |-> d, running |-> e] IN
        /\ DOMAIN s = Fields /\ \A f \in Fields : s[f] \in Nat
        /\ s["transfers"] = a
  BY DEF Fields
<1>4. SumOf(rows, ts, unit) =
        [transfers |-> Cardinality(ts), succeeded |-> Cardinality(SucceededOf(rows, ts)),
         bytes |-> SumOver(DoneOf(rows), ts), waited |-> SumOver(WaitsOf(rows, unit), ts),
         running |-> SumOver(RunsOf(rows, unit), ts)]
  BY BytesSum, WaitsSum, RunsSum DEF SumOf, SucceededOf
<1>5. /\ SumOver(DoneOf(rows), ts) \in Nat /\ SumOver(WaitsOf(rows, unit), ts) \in Nat
      /\ SumOver(RunsOf(rows, unit), ts) \in Nat
  BY BytesSum, WaitsSum, RunsSum
<1> QED
  BY <1>1, <1>2, <1>3, <1>4, <1>5 DEF Counts

-----------------------------------------------------------------------------
(* Types of every step.                                                    *)

\* A row that is written in order leaves the table so.
LEMMA RowWritten ==
    ASSUME RowsOK, NEW t, NEW r, t \in Transfers => RowOK(r, now),
           row' = [row EXCEPT ![t] = r], now' = now
    PROVE  RowsOK'
<1>1. \A s \in Transfers : RowOK(row'[s], now)
  BY DEF RowsOK
<1>2. RowOK(r, now) => r \in Row
  BY DEF RowOK
<1>3. row' \in [Transfers -> Row]
  BY <1>2 DEF RowsOK
<1> QED
  BY <1>1, <1>3 DEF RowsOK, RowOK

\* What rows there are does not change the times of those that stay.
LEMMA RowsStay == ASSUME RowsOK, UNCHANGED <<row, now>> PROVE RowsOK'
BY DEF RowsOK, RowOK

\* Nor does it change what is being removed.
LEMMA PruningStays ==
    ASSUME PruningOK, UNCHANGED <<pruned, pruning, now>> PROVE PruningOK'
BY DEF PruningOK, RowOK

\* A transaction that has read what is there.
LEMMA OpenGrows ==
    ASSUME OpenOK, now' = now, NEW x \in Transactions,
           x.owes # NoTime => x.owes.at <= HalfLives(now),
           x.does = "charge" => x.owes \in Accounts /\ x.owes.at <= HalfLives(now),
           open' \subseteq open \cup {x}
    PROVE  OpenOK'
BY DEF OpenOK

\* A transaction that is over.
LEMMA OpenShrinks == ASSUME OpenOK, now' = now, open' \subseteq open PROVE OpenOK'
BY DEF OpenOK

\* An account that is written as a transaction has made it.
LEMMA AccountWritten ==
    ASSUME AccountsOK, now' = now, NEW u, NEW a \in Accounts, a.at <= HalfLives(now),
           account' = account \/ account' = [account EXCEPT ![u] = a]
    PROVE  AccountsOK'
BY DEF AccountsOK

\* A row that ends now.
EndedRow(t, state, bytes) ==
    [row[t] EXCEPT !.state = state, !.done = bytes, !.finished = now]

\* The end of a row comes after its start.
LEMMA EndedOK ==
    ASSUME now \in Times, RowsOK, NEW t \in Transfers, NEW state \in Terminal, NEW bytes \in Nat
    PROVE  /\ Ended(t, state, bytes) = [row EXCEPT ![t] = EndedRow(t, state, bytes)]
           /\ RowOK(EndedRow(t, state, bytes), now)
<1> DEFINE r == EndedRow(t, state, bytes)
<1>1. RowOK(row[t], now) /\ now \in Nat /\ NoTime \notin Times
  BY TimeAssumption DEF RowsOK, Times
<1>2. /\ r \in Row
      /\ r.state = state /\ r.finished = now /\ r.started = row[t].started
      /\ r.submitted = row[t].submitted
  BY <1>1 DEF RowOK, Row, Terminal, TransferStates, EndedRow
<1>3. Ended(t, state, bytes) = [row EXCEPT ![t] = r]
  BY DEF Ended, EndedRow
<1> HIDE DEF r
<1>4. r.state # "none"
  BY <1>2 DEF Terminal
<1>5. RowOK(r, now)
  BY <1>1, <1>2, <1>4 DEF RowOK
<1> QED
  BY <1>3, <1>5 DEF r

\* Time, transactions and accounts are left alone by what the transfers do themselves.
LEMMA LivesTyped ==
    ASSUME TypeInv, NEW t \in Transfers,
           Submit(t) \/ Start(t) \/ Finish(t) \/ Retry(t)
    PROVE  TypeInv'
<1>1. /\ now' = now /\ open' = open /\ account' = account /\ stats' = stats
      /\ pruned' = pruned /\ pruning' = pruning
  BY DEF Submit, Start, Finish, Retry, retentionVars
<1>2. charge' \in [Transfers -> {"none", "pending", "reading", "charged", "lost"}]
  BY DEF Submit, Start, Finish, Retry, TypeInv
<1>3. RowOK(row[t], now) /\ now \in Times /\ now \in Nat /\ NoTime \notin Times
  BY TimeAssumption DEF TypeInv, RowsOK, Times
<1>4. Size[t] \in Nat /\ Size[t] - 1 \in Nat
  BY SizeAssumption
<1>5. RowsOK'
  <2>1. CASE Submit(t)
    <3> DEFINE r == [row[t] EXCEPT !.state = "SUBMITTED", !.submitted = now]
    <3>1. row' = [row EXCEPT ![t] = r] /\ row[t].state = "none"
      BY <2>1 DEF Submit
    <3>2. /\ row[t].started = NoTime /\ row[t].finished = NoTime
      BY <1>3, <3>1 DEF RowOK, Terminal
    <3>3. /\ r \in Row /\ r.state = "SUBMITTED" /\ r.submitted = now
          /\ r.started = NoTime /\ r.finished = NoTime
      BY <1>3, <3>2 DEF RowOK, Row, TransferStates
    <3> HIDE DEF r
    <3>4. RowOK(r, now)
      BY <1>3, <3>3 DEF RowOK, Terminal
    <3> QED
      BY <1>1, <3>1, <3>4, RowWritten DEF TypeInv
  <2>2. CASE Start(t)
    <3> DEFINE began == IF row[t].started = NoTime THEN now ELSE row[t].started
               r == [row[t] EXCEPT !.state = "RUNNING", !.started = began]
    <3>1. row' = [row EXCEPT ![t] = r] /\ row[t].state = "SUBMITTED"
      BY <2>2 DEF Start
    <3>2. row[t].finished = NoTime
      BY <1>3, <3>1 DEF RowOK, Terminal
    <3>3. began \in Times /\ began <= now /\ row[t].submitted <= began
      BY <1>3 DEF RowOK, Row, Times
    <3> HIDE DEF began
    <3>4. /\ r \in Row /\ r.state = "RUNNING" /\ r.submitted = row[t].submitted
          /\ r.started = began /\ r.finished = NoTime
      BY <1>3, <3>2, <3>3 DEF RowOK, Row, TransferStates
    <3> HIDE DEF r
    <3>5. RowOK(r, now)
      BY <1>3, <3>3, <3>4 DEF RowOK, Terminal
    <3> QED
      BY <1>1, <3>1, <3>5, RowWritten DEF TypeInv
  <2>3. CASE Finish(t)
    <3>1. row' = Ended(t, "SUCCEEDED", Size[t])
      BY <2>3 DEF Finish
    <3>2. /\ row' = [row EXCEPT ![t] = EndedRow(t, "SUCCEEDED", Size[t])]
          /\ RowOK(EndedRow(t, "SUCCEEDED", Size[t]), now)
      <4>1. "SUCCEEDED" \in Terminal
        BY DEF Terminal
      <4> QED
        BY <1>3, <1>4, <3>1, <4>1, EndedOK DEF TypeInv
    <3> QED
      BY <1>1, <3>2, RowWritten DEF TypeInv
  <2>4. CASE Retry(t)
    <3> DEFINE r == [row[t] EXCEPT !.state = "SUBMITTED", !.done = Size[t] - 1,
                                   !.finished = NoTime]
    <3>1. row' = [row EXCEPT ![t] = r]
      BY <1>3, <2>4 DEF Retry, Ended, RowOK, Row, TypeInv, RowsOK
    <3>2. /\ r \in Row /\ r.state = "SUBMITTED" /\ r.submitted = row[t].submitted
          /\ r.started = row[t].started /\ r.finished = NoTime
      BY <1>3, <1>4 DEF RowOK, Row, TransferStates
    <3> HIDE DEF r
    <3>3. RowOK(r, now)
      BY <1>3, <3>2 DEF RowOK, Terminal
    <3> QED
      BY <1>1, <3>1, <3>3, RowWritten DEF TypeInv
  <2> QED
    BY <2>1, <2>2, <2>3, <2>4
<1> QED
  BY <1>1, <1>2, <1>5, PruningStays DEF TypeInv, OpenOK, AccountsOK, StatsOK

\* What is charged, given back and read for it leaves rows and statistics alone.
LEMMA PointsTyped ==
    ASSUME TypeInv,
           \/ \E t \in Transfers : ChargeReads(t) \/ ChargeLost(t)
           \/ \E x \in open : ChargeCommits(x) \/ RefundReads(x)
    PROVE  TypeInv'
<1>1. /\ now' = now /\ UNCHANGED <<row, now>> /\ pruned' = pruned /\ stats' = stats
      /\ pruning' = pruning /\ now \in Times /\ HalfLives(now) \in Nat
  BY HalfLivesCount
     DEF ChargeReads, ChargeLost, ChargeCommits, RefundReads, rowVars, retentionVars, TypeInv
<1>2. charge' \in [Transfers -> {"none", "pending", "reading", "charged", "lost"}]
  BY DEF ChargeReads, ChargeLost, ChargeCommits, RefundReads, TypeInv
<1>3. RowsOK' /\ StatsOK' /\ PruningOK'
  BY <1>1, RowsStay, PruningStays DEF TypeInv, StatsOK
<1>4. OpenOK' /\ AccountsOK'
  <2>1. CASE \E t \in Transfers : ChargeLost(t)
    BY <1>1, <2>1 DEF ChargeLost, OpenOK, AccountsOK, TypeInv
  <2>2. CASE \E t \in Transfers : ChargeReads(t)
    <3> PICK t \in Transfers : ChargeReads(t)
      BY <2>2
    <3> DEFINE owes == WithPoints(About[t].user, Points(t))
               x == [of |-> t, does |-> "charge", started |-> NoTime, owes |-> owes]
    <3>1. owes \in Accounts /\ owes.at = HalfLives(now)
      <4>1. About[t].user \in Users /\ Points(t) \in Int
        BY AboutAssumption, PointsAreNat
      <4> QED
        BY <1>1, <4>1, WithPointsOK DEF TypeInv
    <3>2. open' = open \cup {x} /\ account' = account
      BY DEF ChargeReads
    <3>3. HalfLives(now) <= HalfLives(now)
      BY <1>1
    <3> HIDE DEF owes
    <3>4. x \in Transactions /\ x.owes = owes
      BY <3>1 DEF Transactions
    <3> HIDE DEF x
    <3>5. OpenOK'
      BY <1>1, <3>1, <3>2, <3>3, <3>4, OpenGrows DEF TypeInv
    <3> QED
      BY <1>1, <3>2, <3>5 DEF TypeInv, AccountsOK
  <2>3. CASE \E x \in open : ChargeCommits(x)
    <3> PICK x \in open : ChargeCommits(x)
      BY <2>3
    <3>1. x.owes \in Accounts /\ x.owes.at <= HalfLives(now)
      BY DEF ChargeCommits, TypeInv, OpenOK
    <3>2. AccountsOK'
      BY <1>1, <3>1, AccountWritten DEF ChargeCommits, TypeInv
    <3> QED
      BY <1>1, <3>2, OpenShrinks DEF ChargeCommits, TypeInv
  <2>4. CASE \E x \in open : RefundReads(x)
    <3> PICK x \in open : RefundReads(x)
      BY <2>4
    <3> DEFINE owes == WithPoints(About[x.of].user, - Points(x.of))
               y == [x EXCEPT !.owes = owes]
    <3>1. x \in Transactions /\ x.does # "charge"
      BY DEF RefundReads, Refunds, TypeInv, OpenOK
    <3>2. owes \in Accounts /\ owes.at = HalfLives(now)
      <4>1. x.of \in Transfers
        BY <3>1 DEF Transactions
      <4>2. About[x.of].user \in Users /\ Points(x.of) \in Nat
        BY <4>1, AboutAssumption, PointsAreNat
      <4>3. - Points(x.of) \in Int
        BY <4>2
      <4> QED
        BY <1>1, <4>2, <4>3, WithPointsOK DEF TypeInv
    <3>3. open' = (open \ {x}) \cup {y} /\ account' = account
      BY DEF RefundReads
    <3>4. HalfLives(now) <= HalfLives(now)
      BY <1>1
    <3> HIDE DEF owes
    <3>5. y \in Transactions /\ y.owes = owes /\ y.does # "charge"
      BY <3>1, <3>2 DEF Transactions
    <3> HIDE DEF y
    <3>6. OpenOK'
      BY <1>1, <3>2, <3>3, <3>4, <3>5, OpenGrows DEF TypeInv
    <3> QED
      BY <1>1, <3>3, <3>6 DEF TypeInv, AccountsOK
  <2> QED
    BY <2>1, <2>2, <2>3, <2>4
<1> QED
  BY <1>1, <1>2, <1>3, <1>4 DEF TypeInv

\* An end is read before it is committed.
LEMMA EndReadTyped ==
    ASSUME TypeInv, NEW t \in Transfers, NEW does \in {"fail", "cancel"}, EndReads(t, does)
    PROVE  TypeInv'
<1> DEFINE x == [of |-> t, does |-> does, started |-> row[t].started, owes |-> NoTime]
<1>1. /\ now' = now /\ UNCHANGED <<row, now>> /\ pruned' = pruned /\ stats' = stats
      /\ charge' = charge /\ account' = account /\ open' = open \cup {x}
      /\ pruning' = pruning
  BY DEF EndReads, rowVars, retentionVars
<1>2. row[t].started \in Times \cup {NoTime}
  BY DEF TypeInv, RowsOK, Row
<1>3. x \in Transactions /\ x.owes = NoTime /\ x.does # "charge"
  BY <1>2 DEF Transactions
<1> HIDE DEF x
<1>4. OpenOK'
  BY <1>1, <1>3, OpenGrows DEF TypeInv
<1>5. RowsOK' /\ StatsOK' /\ AccountsOK' /\ PruningOK'
  BY <1>1, RowsStay, PruningStays DEF TypeInv, StatsOK, AccountsOK
<1> QED
  BY <1>1, <1>4, <1>5 DEF TypeInv

\* An end is committed whatever the row has become meanwhile.
LEMMA EndCommitTyped ==
    ASSUME TypeInv, NEW x \in open, FailCommits(x) \/ CancelCommits(x)
    PROVE  TypeInv'
<1>1. x \in Transactions /\ x.of \in Transfers /\ now \in Times
  BY DEF TypeInv, OpenOK, Transactions
<1>2. PICK state \in Terminal, bytes \in Nat : EndCommits(x, state, bytes)
  <2>1. row[x.of].done \in Nat /\ Size[x.of] - 1 \in Nat
    BY <1>1, SizeAssumption DEF TypeInv, RowsOK, Row
  <2> QED
    BY <2>1 DEF FailCommits, CancelCommits, Terminal
<1>3. RowsOK'
  <2>1. /\ row' = [row EXCEPT ![x.of] = EndedRow(x.of, state, bytes)]
        /\ RowOK(EndedRow(x.of, state, bytes), now) /\ now' = now
    BY <1>1, <1>2, EndedOK DEF EndCommits, TypeInv
  <2> QED
    BY <2>1, RowWritten DEF TypeInv
<1>4. AccountsOK'
  <2>1. CASE ~Refunds(x)
    BY <1>2, <2>1 DEF EndCommits, AccountsOK, TypeInv
  <2>2. CASE Refunds(x)
    <3>1. x.owes # NoTime
      BY <1>2, <2>2 DEF EndCommits
    <3>2. x.owes \in Accounts /\ x.owes.at <= HalfLives(now)
      BY <1>1, <3>1 DEF Transactions, TypeInv, OpenOK
    <3> QED
      BY <1>2, <2>2, <3>2, AccountWritten DEF EndCommits, TypeInv
  <2> QED
    BY <2>1, <2>2
<1>5. OpenOK'
  BY <1>2, OpenShrinks DEF EndCommits, TypeInv
<1>6. PruningOK'
  BY <1>2, PruningStays DEF EndCommits, TypeInv, retentionVars
<1> QED
  BY <1>2, <1>3, <1>4, <1>5, <1>6 DEF EndCommits, TypeInv, StatsOK, retentionVars

\* Time that passes leaves every time in order.
LEMMA TickTyped == ASSUME TypeInv, Tick PROVE TypeInv'
<1>1. /\ now' = now + 1 /\ now' \in Times /\ now \in Nat /\ row' = row /\ pruned' = pruned
      /\ charge' = charge /\ open' = open /\ account' = account /\ stats' = stats
      /\ pruning' = pruning
  BY TimeAssumption DEF Tick, rowVars, retentionVars, TypeInv, Times
<1>2. \A r : RowOK(r, now) => RowOK(r, now + 1)
  <2> SUFFICES ASSUME NEW r, RowOK(r, now) PROVE RowOK(r, now + 1)
    OBVIOUS
  <2>1. r.submitted \in Int /\ (r.started # NoTime => r.started \in Int)
    BY DEF RowOK, Row, Times
  <2> QED
    BY <1>1, <2>1 DEF RowOK
<1>3. RowsOK' /\ PruningOK'
  BY <1>1, <1>2 DEF TypeInv, RowsOK, PruningOK
<1>4. /\ HalfLives(now) \in Nat /\ HalfLives(now)' \in Nat
      /\ HalfLives(now) <= HalfLives(now)'
  BY <1>1, HalfLivesCount DEF TypeInv
<1>5. OpenOK'
  <2>1. \A x \in open : x.owes # NoTime \/ x.does = "charge" => x.owes \in Accounts
    BY DEF TypeInv, OpenOK, Transactions
  <2>2. \A x \in open : x.owes # NoTime \/ x.does = "charge" => x.owes.at \in Int
    BY <2>1 DEF Accounts
  <2> QED
    BY <1>1, <1>4, <2>2 DEF TypeInv, OpenOK
<1>6. AccountsOK'
  BY <1>1, <1>4 DEF TypeInv, AccountsOK, Accounts
<1> QED
  BY <1>1, <1>3, <1>5, <1>6 DEF TypeInv, StatsOK

\* Two sums add up to a sum.
LEMMA PlusCounts ==
    ASSUME NEW a, NEW b, Counts(a), Counts(b)
    PROVE  Counts(Plus(a, b))
<1>1. "transfers" \in Fields
  BY DEF Fields
<1>2. \A f \in Fields : a[f] + b[f] \in Nat
  BY DEF Counts
<1>3. a["transfers"] + b["transfers"] > 0
  BY <1>1 DEF Counts
<1> QED
  BY <1>1, <1>2, <1>3 DEF Counts, Plus

\* What has been read to be removed had its times in order.
LEMMA PruneReadTyped == ASSUME TypeInv, PruneReads PROVE TypeInv'
<1>1. /\ now' = now /\ UNCHANGED <<row, now>> /\ open' = open /\ account' = account
      /\ charge' = charge /\ pruned' = pruned /\ stats' = stats
      /\ pruning' = [t \in PastRetention |-> row[t]]
  BY DEF PruneReads, rowVars
<1>2. PastRetention \subseteq Transfers \ pruned
      /\ \A t \in PastRetention : row[t].state \in Terminal
  BY DEF PastRetention, Rows
<1>3. RowsOK' /\ AccountsOK' /\ OpenOK' /\ StatsOK'
  BY <1>1, RowsStay DEF TypeInv, AccountsOK, OpenOK, StatsOK
<1>4. PruningOK'
  BY <1>1, <1>2 DEF TypeInv, RowsOK, PruningOK
<1> QED
  BY <1>1, <1>3, <1>4 DEF TypeInv

\* What goes into a bucket comes to numbers, and to more than none if anything does.
LEMMA IntoCounts ==
    ASSUME TypeInv, NEW b
    PROVE  LET into == SumOf(pruning, Into(b), PerSecond) IN
           /\ DOMAIN into = Fields /\ \A f \in Fields : into[f] \in Nat
           /\ Into(b) # {} => Counts(into)
<1>1. InOrder(pruning, Into(b))
  BY DEF InOrder, Into, TypeInv, PruningOK
<1>2. PerSecond \in Nat \ {0}
  BY TimeAssumption
<1> QED
  BY <1>1, <1>2, SumsAreCounts

\* The statistics that rows are rolled into stay sums of some transfers.
LEMMA PruneTyped == ASSUME TypeInv, PruneCommits PROVE TypeInv'
<1>1. /\ now' = now /\ UNCHANGED <<row, now>> /\ open' = open /\ account' = account
      /\ charge' = charge /\ pruned' = pruned \cup DOMAIN pruning /\ pruning' = None
  BY DEF PruneCommits
<1>2. DOMAIN pruning \subseteq Transfers
  BY DEF TypeInv, PruningOK
<1>3. RowsOK' /\ AccountsOK' /\ OpenOK' /\ PruningOK'
  BY <1>1, RowsStay DEF TypeInv, AccountsOK, OpenOK, PruningOK, None
<1>4. StatsOK'
  <2>0. IsFiniteSet(DOMAIN stats')
    <3> DEFINE buckets == {BucketOf(t) : t \in DOMAIN pruning}
               f == [t \in DOMAIN pruning |-> BucketOf(t)]
    <3>1. DOMAIN stats' = DOMAIN stats \cup buckets
      BY DEF PruneCommits, RollUp, Filled
    <3>2. IsFiniteSet(DOMAIN pruning) /\ f \in Surjection(DOMAIN pruning, buckets)
      BY <1>2, FiniteAssumption, FS_Subset DEF Surjection
    <3>3. IsFiniteSet(buckets)
      BY <3>2, FS_Surjection
    <3> HIDE DEF buckets
    <3> QED
      BY <3>1, <3>3, FS_Union DEF TypeInv, StatsOK
  <2> SUFFICES ASSUME NEW b \in DOMAIN stats' PROVE Counts(stats'[b])
    BY <2>0 DEF StatsOK
  <2> DEFINE into == SumOf(pruning, Into(b), PerSecond)
  <2>1. /\ b \in DOMAIN stats \cup {BucketOf(t) : t \in DOMAIN pruning}
        /\ stats'[b] = IF b \in DOMAIN stats THEN Plus(stats[b], into) ELSE into
    BY DEF PruneCommits, RollUp, Filled
  <2>2. /\ DOMAIN into = Fields /\ \A f \in Fields : into[f] \in Nat
        /\ Into(b) # {} => Counts(into)
    BY IntoCounts
  <2> HIDE DEF into
  <2>3. CASE b \in DOMAIN stats
    <3>1. Counts(stats[b])
      BY <2>3 DEF TypeInv, StatsOK
    <3>2. "transfers" \in Fields
      BY DEF Fields
    <3>3. \A f \in Fields : stats[b][f] + into[f] \in Nat
      BY <2>2, <3>1 DEF Counts
    <3>4. stats[b]["transfers"] + into["transfers"] > 0
      BY <2>2, <3>1, <3>2 DEF Counts
    <3> QED
      BY <2>1, <2>2, <2>3, <3>1, <3>2, <3>3, <3>4 DEF Counts, Plus
  <2>4. CASE b \notin DOMAIN stats
    <3>1. Into(b) # {}
      BY <2>1, <2>4 DEF Into
    <3> QED
      BY <2>1, <2>2, <2>4, <3>1
  <2> QED
    BY <2>3, <2>4
<1> QED
  BY <1>1, <1>2, <1>3, <1>4 DEF TypeInv

\* Nothing is owed, open or rolled up at first.
LEMMA InitTyped == Init => TypeInv
<1> SUFFICES ASSUME Init PROVE TypeInv
  OBVIOUS
<1>1. now = 0 /\ 0 \in Times /\ NoTime \notin Times
  BY TimeAssumption DEF Init, Times
<1>2. RowsOK
  BY <1>1 DEF Init, RowsOK, RowOK, Row, Terminal
<1>3. AccountsOK
  <2>1. MaxNow \in Times
    BY TimeAssumption DEF Times
  <2>2. HalfLives(now) \in Nat /\ HalfLives(MaxNow) \in Nat
    BY <1>1, <2>1, HalfLivesCount
  <2> QED
    BY <1>1, <2>2 DEF Init, AccountsOK, Accounts
<1>4. PruningOK /\ StatsOK
  BY FS_EmptySet DEF Init, None, PruningOK, StatsOK
<1> QED
  BY <1>1, <1>2, <1>3, <1>4 DEF Init, TypeInv, OpenOK

\* Every step keeps the types.
LEMMA TypesStay == ASSUME TypeInv, [Next]_vars PROVE TypeInv'
<1>1. CASE UNCHANGED vars
  BY <1>1 DEF vars, rowVars, retentionVars, TypeInv, RowsOK, RowOK, OpenOK, AccountsOK,
              PruningOK, StatsOK
<1>2. CASE Next
  BY <1>2, LivesTyped, PointsTyped, EndReadTyped, EndCommitTyped, TickTyped,
     PruneReadTyped, PruneTyped DEF Next
<1> QED
  BY <1>1, <1>2

\* Every value is of its type at every moment, and every row's times are in order.
THEOREM TypeCorrect == Spec => []TypeOK
<1>1. TypeInv => TypeOK
  <2> SUFFICES ASSUME TypeInv PROVE TypeOK
    OBVIOUS
  <2>1. \A b \in DOMAIN stats : stats[b].transfers > 0
    BY DEF TypeInv, StatsOK, Counts, Fields
  <2>2. row \in [Transfers -> Row] /\ \A t \in Transfers : RowOK(row[t], now)
    BY DEF TypeInv, RowsOK
  <2> QED
    BY <2>1, <2>2 DEF TypeInv, TypeOK, RowOK, OpenOK, AccountsOK, PruningOK
<1> QED
  BY <1>1, InitTyped, TypesStay, PTL DEF Spec

-----------------------------------------------------------------------------
(* One transaction on points at a time.                                    *)

\* What a transaction puts on the account of the transfer's user.
Change(x) == IF x.does = "charge" THEN Points(x.of) ELSE - Points(x.of)

\* While a transaction is open nothing else is, and nothing it has read has changed.
Undisturbed ==
    /\ \A x, y \in open : x = y
    /\ \A x \in open :
         x.does = "charge" \/ x.owes # NoTime => x.owes = WithPoints(About[x.of].user, Change(x))

\* What a user owes is read from the account and the clock alone.
LEMMA SameOwed ==
    ASSUME UNCHANGED <<now, account>>
    PROVE  /\ \A u : Decayed(u)' = Decayed(u)
           /\ \A u, change : WithPoints(u, change)' = WithPoints(u, change)
BY DEF Decayed, WithPoints

\* Nothing happens between what a transaction reads and its commit.
LEMMA StepsUndisturbed ==
    ASSUME "overlap" \notin Env, Undisturbed, [Next]_vars
    PROVE  Undisturbed'
<1>1. ASSUME open' \subseteq open, UNCHANGED <<now, account>> \/ open' = {}
      PROVE  Undisturbed'
  <2>1. \A x, y \in open' : x = y
    BY <1>1 DEF Undisturbed
  <2>2. ASSUME UNCHANGED <<now, account>>, NEW x \in open',
               x.does = "charge" \/ x.owes # NoTime
        PROVE  x.owes = WithPoints(About[x.of].user, Change(x))'
    <3>1. WithPoints(About[x.of].user, Change(x))' = WithPoints(About[x.of].user, Change(x))
      BY <2>2, SameOwed DEF Change, Points
    <3> QED
      BY <1>1, <2>2, <3>1 DEF Undisturbed
  <2> QED
    BY <1>1, <2>1, <2>2 DEF Undisturbed, Change, Points
<1>2. CASE UNCHANGED vars
  BY <1>1, <1>2 DEF vars
<1>3. ASSUME NEW t \in Transfers, ChargeReads(t) PROVE Undisturbed'
  <2> PICK x : x = [of |-> t, does |-> "charge", started |-> NoTime,
                    owes |-> WithPoints(About[t].user, Points(t))]
    OBVIOUS
  <2>1. open' = {x} /\ UNCHANGED <<now, account>>
    BY <1>3 DEF ChargeReads, Calm
  <2>2. x.owes = WithPoints(About[x.of].user, Change(x))
    BY DEF Change
  <2>3. WithPoints(About[x.of].user, Change(x))' = WithPoints(About[x.of].user, Change(x))
    BY <2>1, SameOwed DEF Change, Points
  <2> QED
    BY <2>1, <2>2, <2>3 DEF Undisturbed, Change, Points
<1>4. ASSUME NEW t \in Transfers,
             \/ Submit(t) \/ Start(t) \/ Finish(t) \/ Retry(t) \/ ChargeLost(t)
      PROVE  Undisturbed'
  BY <1>1, <1>4 DEF Submit, Start, Finish, Retry, ChargeLost
<1>5. ASSUME NEW t \in Transfers, NEW does \in {"fail", "cancel"}, EndReads(t, does)
      PROVE  Undisturbed'
  <2> DEFINE x == [of |-> t, does |-> does, started |-> row[t].started, owes |-> NoTime]
  <2>1. open' = {x} /\ x.does # "charge" /\ x.owes = NoTime
    BY <1>5 DEF EndReads, Calm
  <2> HIDE DEF x
  <2> QED
    BY <2>1 DEF Undisturbed
<1>6. ASSUME NEW x \in open, ChargeCommits(x) \/ FailCommits(x) \/ CancelCommits(x)
      PROVE  Undisturbed'
  <2>1. open' = open \ {x}
    BY <1>6 DEF ChargeCommits, FailCommits, CancelCommits, EndCommits
  <2>2. open' = {}
    BY <2>1 DEF Undisturbed
  <2> QED
    BY <1>1, <2>2
<1>7. ASSUME NEW x \in open, RefundReads(x) PROVE Undisturbed'
  <2> DEFINE y == [x EXCEPT !.owes = WithPoints(About[x.of].user, - Points(x.of))]
  <2>1. open' = {y} /\ UNCHANGED <<now, account>>
    BY <1>7 DEF RefundReads, Undisturbed
  <2>2. y.owes = WithPoints(About[y.of].user, Change(y))
    BY <1>7 DEF RefundReads, Refunds, Change
  <2> QED
    BY <2>1, <2>2, SameOwed DEF Undisturbed, Change, Points
<1>8. ASSUME Tick PROVE Undisturbed'
  BY <1>1, <1>8 DEF Tick, Calm
<1>9. ASSUME PruneReads \/ PruneCommits PROVE Undisturbed'
  BY <1>1, <1>9 DEF PruneReads, PruneCommits
<1> QED
  BY <1>2, <1>3, <1>4, <1>5, <1>6, <1>7, <1>8, <1>9 DEF Next

-----------------------------------------------------------------------------
(* Decaying when somebody looks.                                           *)

\* What is written at a moment is owed as it was written.
LEMMA OwedAsWritten ==
    ASSUME TypeInv, now' = now, NEW u \in Users, NEW change \in Int,
           account' = [account EXCEPT ![u] = WithPoints(u, change)]
    PROVE  /\ Decayed(u)' = L!AtLeastNothing(Decayed(u) + change)
           /\ \A v \in Users \ {u} : Decayed(v)' = Decayed(v)
<1> DEFINE a == WithPoints(u, change)
<1>1. /\ a.at = HalfLives(now) /\ a.points \in Nat
      /\ a.points = IF Decayed(u) + change < 0 THEN 0 ELSE Decayed(u) + change
  BY WithPointsOK DEF TypeInv, Accounts
<1>2. account'[u] = a /\ \A v \in Users \ {u} : account'[v] = account[v]
  BY DEF TypeInv, AccountsOK
<1> HIDE DEF a
<1>3. HalfLives(now) \in Nat
  BY HalfLivesCount DEF TypeInv
<1>4. Decayed(u)' = a.points
  <2>1. Decayed(u)' = a.points \div 2^(HalfLives(now) - HalfLives(now))
    BY <1>1, <1>2 DEF Decayed
  <2>2. HalfLives(now) - HalfLives(now) = 0
    BY <1>3
  <2> QED
    BY <1>1, <2>1, <2>2, Halving
<1>5. \A v \in Users \ {u} : Decayed(v)' = Decayed(v)
  BY <1>2 DEF Decayed
<1> QED
  BY <1>1, <1>4, <1>5 DEF L!AtLeastNothing

\* Every transaction writes what it reads, so it adds or takes away what it is about.
LEMMA CommitsAreLedgerSteps ==
    ASSUME TypeInv, Undisturbed, NEW x \in open,
           ChargeCommits(x) \/ FailCommits(x) \/ CancelCommits(x)
    PROVE  [L!LedgerNext]_(L!ledgerVars)
<1> DEFINE u == About[x.of].user
           o == [v \in Users |-> Decayed(v)]
<1>1. x \in Transactions /\ x.of \in Transfers /\ u \in Users
  BY AboutAssumption DEF TypeInv, OpenOK, Transactions
<1>2. Points(x.of) \in Nat /\ Points(x.of) \in Int /\ - Points(x.of) \in Int
  BY <1>1, PointsAreNat
<1>3. now' = now
  BY DEF ChargeCommits, FailCommits, CancelCommits, EndCommits
<1>4. Decayed(u) \in Nat
  BY <1>1, DecayedIsNat DEF TypeInv
<1>5. ASSUME account' = account PROVE o' = o
  BY <1>3, <1>5 DEF Decayed
<1>6. CASE ChargeCommits(x)
  <2>1. account' = [account EXCEPT ![u] = WithPoints(u, Points(x.of))]
    BY <1>6 DEF ChargeCommits, Undisturbed, Change
  <2>2. /\ Decayed(u)' = L!AtLeastNothing(Decayed(u) + Points(x.of))
        /\ \A v \in Users \ {u} : Decayed(v)' = Decayed(v)
    BY <1>1, <1>2, <1>3, <2>1, OwedAsWritten
  <2>3. Decayed(u)' = Decayed(u) + Points(x.of)
    BY <1>2, <1>4, <2>2 DEF L!AtLeastNothing
  <2>4. o' = [o EXCEPT ![u] = @ + Points(x.of)]
    BY <1>1, <2>2, <2>3
  <2>5. L!Charged(u, Points(x.of))
    BY <2>4 DEF L!Charged
  <2> QED
    BY <1>1, <2>5 DEF L!LedgerNext
<1>7. CASE FailCommits(x) \/ CancelCommits(x)
  <2>1. CASE ~Refunds(x)
    <3>1. account' = account
      BY <1>7, <2>1 DEF FailCommits, CancelCommits, EndCommits
    <3> QED
      BY <1>5, <3>1 DEF L!ledgerVars
  <2>2. CASE Refunds(x)
    <3>1. account' = [account EXCEPT ![u] = WithPoints(u, - Points(x.of))]
      BY <1>7, <2>2 DEF FailCommits, CancelCommits, EndCommits, Refunds, Undisturbed, Change
    <3>2. /\ Decayed(u)' = L!AtLeastNothing(Decayed(u) + (- Points(x.of)))
          /\ \A v \in Users \ {u} : Decayed(v)' = Decayed(v)
      BY <1>1, <1>2, <1>3, <3>1, OwedAsWritten
    <3>3. Decayed(u) + (- Points(x.of)) = Decayed(u) - Points(x.of)
      BY <1>2, <1>4
    <3>4. o' = [o EXCEPT ![u] = L!AtLeastNothing(@ - Points(x.of))]
      BY <1>1, <3>2, <3>3
    <3>5. L!GivenBack(u, Points(x.of))
      BY <3>4 DEF L!GivenBack
    <3> QED
      BY <1>1, <3>5 DEF L!LedgerNext
  <2> QED
    BY <2>1, <2>2
<1> QED
  BY <1>6, <1>7

\* A half-life that passes halves what everybody owes, whenever it was last decayed; a
\* tick in which none passes is nothing to the ledger.
LEMMA TickIsLedgerStep == ASSUME TypeInv, Tick PROVE [L!LedgerNext]_(L!ledgerVars)
<1> DEFINE h == HalfLives(now)
<1>1. /\ now' = now + 1 /\ account' = account /\ account \in [Users -> Accounts]
      /\ h \in Nat /\ h' \in {h, h + 1} /\ \A u \in Users : account[u].at <= h
  BY HalfLivesCount DEF Tick, TypeInv, AccountsOK
<1> HIDE DEF h
<1>2. ASSUME NEW u \in Users
      PROVE  /\ Decayed(u) = account[u].points \div 2^(h - account[u].at)
             /\ Decayed(u)' = account[u].points \div 2^(h' - account[u].at)
  BY <1>1 DEF Decayed, h
<1>3. CASE h' = h
  BY <1>2, <1>3 DEF L!ledgerVars
<1>4. CASE h' = h + 1
  <2>1. ASSUME NEW u \in Users PROVE Decayed(u)' = Decayed(u) \div 2
    <3>1. account[u].points \in Nat /\ account[u].at \in Nat /\ account[u].at <= h
      BY <1>1 DEF Accounts
    <3>2. PICK k \in Nat : k = h - account[u].at
      BY <1>1, <3>1
    <3>3. h' - account[u].at = k + 1
      BY <1>1, <1>4, <3>1, <3>2
    <3>4. account[u].points \div 2^(k + 1) = (account[u].points \div 2^k) \div 2
      BY <3>1, Halving
    <3> QED
      BY <1>2, <3>2, <3>3, <3>4, Zenon
  <2>2. L!HalfLifePasses
    BY <2>1 DEF L!HalfLifePasses
  <2> QED
    BY <2>2 DEF L!LedgerNext
<1> QED
  BY <1>1, <1>3, <1>4

\* Every step is one of the ledger's, or nothing to it.
LEMMA StepsAreLedgerSteps ==
    ASSUME TypeInv, Undisturbed, [Next]_vars
    PROVE  [L!LedgerNext]_(L!ledgerVars)
<1>1. ASSUME UNCHANGED <<now, account>> PROVE UNCHANGED L!ledgerVars
  BY <1>1, SameOwed DEF L!ledgerVars
<1>2. CASE UNCHANGED vars
  BY <1>1, <1>2 DEF vars
<1>3. ASSUME NEW t \in Transfers,
             \/ Submit(t) \/ Start(t) \/ Finish(t) \/ Retry(t) \/ ChargeReads(t) \/ ChargeLost(t)
             \/ EndReads(t, "fail") \/ EndReads(t, "cancel")
      PROVE  UNCHANGED L!ledgerVars
  BY <1>1, <1>3 DEF Submit, Start, Finish, Retry, ChargeReads, ChargeLost, EndReads
<1>4. ASSUME NEW x \in open, RefundReads(x) PROVE UNCHANGED L!ledgerVars
  BY <1>1, <1>4 DEF RefundReads
<1>5. ASSUME PruneReads \/ PruneCommits PROVE UNCHANGED L!ledgerVars
  BY <1>1, <1>5 DEF PruneReads, PruneCommits
<1> QED
  BY <1>2, <1>3, <1>4, <1>5, CommitsAreLedgerSteps, TickIsLedgerStep DEF Next

\* Nobody owes anything at first.
LEMMA InitIsLedgerInit == Init => L!LedgerInit
<1> SUFFICES ASSUME Init PROVE L!LedgerInit
  OBVIOUS
<1>1. ASSUME NEW u \in Users PROVE Decayed(u) = 0
  <2>1. account[u].points = 0 /\ HalfLives(now) - account[u].at = 0
    <3>1. 0 \in Times /\ now = 0
      BY TimeAssumption DEF Init, Times
    <3>2. HalfLives(0) = 0
      BY TimeAssumption DEF HalfLives
    <3> QED
      BY <3>1, <3>2 DEF Init
  <2>2. 0 \div 2^0 = 0
    BY Halving
  <2> QED
    BY <2>1, <2>2, Zenon DEF Decayed
<1> QED
  BY <1>1 DEF L!LedgerInit

\* Where one transaction on points is over before the next begins, points that are
\* decayed when they are read or charged (domain/fairshare.py) are at every moment what
\* they would be if everybody's were halved with every half-life: the account and its
\* date, which stand still, cannot be told from a ledger that is kept.
THEOREM DecaysLazily ==
    ASSUME "overlap" \notin Env
    PROVE  Spec => DecayIsLazy
<1>1. Init => Undisturbed
  BY DEF Init, Undisturbed
<1>2. Init => L!LedgerInit
  BY InitIsLedgerInit
<1>3. TypeInv /\ Undisturbed /\ [Next]_vars => TypeInv' /\ Undisturbed'
  BY TypesStay, StepsUndisturbed
<1>4. TypeInv /\ Undisturbed /\ [Next]_vars => [L!LedgerNext]_(L!ledgerVars)
  BY StepsAreLedgerSteps
<1> QED
  BY <1>1, <1>2, <1>3, <1>4, InitTyped, PTL DEF Spec, DecayIsLazy, L!LedgerSpec

-----------------------------------------------------------------------------
(* What is owed is owed for work.                                          *)

\* What the user has been charged for that has not ended without running.
Work(u) ==
    {t \in Transfers : /\ About[t].user = u /\ charge[t] = "charged"
                       /\ row[t].state \in Terminal => row[t].started # NoTime}

\* What is not charged yet has not ended without running, and what is being ended is
\* as it was read: charged, lost, or one that ran.
InTurn ==
    /\ \A t \in Transfers :
         /\ row[t].state = "none" => charge[t] = "none"
         /\ row[t].state = "RUNNING" => row[t].started # NoTime
         /\ charge[t] \in {"pending", "reading"} =>
              (row[t].state \in Terminal => row[t].started # NoTime)
    /\ \A x \in open :
         IF x.does = "charge" THEN charge[x.of] = "reading"
         ELSE /\ row[x.of].state \in {"SUBMITTED", "RUNNING"}
              /\ x.started = row[x.of].started
              /\ x.started = NoTime => charge[x.of] \notin {"pending", "reading"}

\* No account holds more than its user's work comes to.
ForWork == \A u \in Users : account[u].points <= SumOver(PointsOf, Work(u))

\* Work comes to a number, and one transfer less to its points less.
LEMMA WorkComesToPoints ==
    ASSUME NEW u \in Users
    PROVE  /\ SumOver(PointsOf, Work(u)) \in Nat
           /\ \A t \in Work(u) :
                SumOver(PointsOf, Work(u)) = Points(t) + SumOver(PointsOf, Work(u) \ {t})
<1>1. Summable(PointsOf, Work(u))
  <2>1. Work(u) \subseteq Transfers
    BY DEF Work
  <2>2. \A t \in Transfers : PointsOf[t] = Points(t) /\ Points(t) \in Nat
    BY PointsAreNat DEF PointsOf
  <2> QED
    BY <2>1, <2>2, FiniteAssumption, FS_Subset DEF Summable
<1>2. \A t \in Work(u) : PointsOf[t] = Points(t)
  BY DEF PointsOf, Work
<1> QED
  BY <1>1, <1>2, SumIsNat, SumWithout

\* Steps that neither charge nor end leave everything in turn, and the work as it was.
LEMMA LivesInTurn ==
    ASSUME TypeInv, InTurn, NEW t \in Transfers,
           Submit(t) \/ Start(t) \/ Finish(t) \/ Retry(t), "overlap" \notin Env
    PROVE  /\ InTurn' /\ account' = account
           /\ \A u \in Users : Work(u)' = Work(u)
<1> DEFINE Ran(r) == r.state \in Terminal => r.started # NoTime
<1>1. open' = {} /\ account' = account /\ now \in Times /\ NoTime \notin Times
  BY TimeAssumption DEF Submit, Start, Finish, Retry, Calm, TypeInv, Times
<1>2. row \in [Transfers -> Row]
  BY DEF TypeInv, RowsOK
<1>3. \A s \in Transfers \ {t} : row'[s] = row[s] /\ charge'[s] = charge[s]
  BY <1>2 DEF Submit, Start, Finish, Retry, Ended, TypeInv
<1>4. /\ Ran(row[t]) /\ Ran(row'[t]) /\ row'[t].state # "none"
      /\ row'[t].state = "RUNNING" => row'[t].started # NoTime
      /\ charge[t] # "charged" => charge'[t] # "charged"
      /\ charge[t] = "charged" => charge'[t] = "charged"
  <2>1. CASE Submit(t)
    <3>1. row'[t].state = "SUBMITTED" /\ charge'[t] = "pending" /\ row[t].state = "none"
      BY <1>2, <2>1 DEF Submit, TypeInv, Row
    <3> QED
      BY <3>1 DEF InTurn, Terminal
  <2>2. CASE Start(t)
    <3>1. /\ row'[t].state = "RUNNING" /\ charge' = charge /\ row[t].state = "SUBMITTED"
          /\ row'[t].started = IF row[t].started = NoTime THEN now ELSE row[t].started
      BY <1>2, <2>2 DEF Start, Row
    <3> QED
      BY <1>1, <3>1 DEF Terminal
  <2>3. CASE Finish(t)
    <3>1. /\ row'[t].state = "SUCCEEDED" /\ charge' = charge /\ row[t].state = "RUNNING"
          /\ row'[t].started = row[t].started
      BY <1>2, <2>3 DEF Finish, Ended, Row
    <3> QED
      BY <3>1 DEF InTurn, Terminal
  <2>4. CASE Retry(t)
    <3>1. row'[t].state = "SUBMITTED" /\ charge' = charge /\ row[t].state = "RUNNING"
      BY <1>2, <2>4 DEF Retry, Ended, Row
    <3> QED
      BY <3>1 DEF Terminal
  <2> QED
    BY <2>1, <2>2, <2>3, <2>4
<1>5. InTurn'
  BY <1>1, <1>3, <1>4 DEF InTurn
<1>6. \A u \in Users : Work(u)' = Work(u)
  BY <1>3, <1>4 DEF Work
<1> QED
  BY <1>1, <1>5, <1>6

\* So do steps that read, wait or remove rows.
LEMMA ReadsInTurn ==
    ASSUME TypeInv, InTurn, "overlap" \notin Env, "ended_early" \notin Env,
           \/ \E t \in Transfers : \/ ChargeReads(t) \/ ChargeLost(t)
                                   \/ EndReads(t, "fail") \/ EndReads(t, "cancel")
           \/ \E x \in open : RefundReads(x)
           \/ Tick \/ PruneReads \/ PruneCommits
    PROVE  /\ InTurn' /\ account' = account
           /\ \A u \in Users : Work(u)' = Work(u)
<1>1. row' = row /\ account' = account
  BY DEF ChargeReads, ChargeLost, EndReads, RefundReads, Tick, PruneReads, PruneCommits, rowVars
<1>2. CASE \E t \in Transfers : ChargeReads(t) \/ ChargeLost(t)
  <2> PICK t \in Transfers : ChargeReads(t) \/ ChargeLost(t)
    BY <1>2
  <2>1. /\ charge[t] = "pending" /\ charge'[t] \in {"reading", "lost"}
        /\ \A s \in Transfers \ {t} : charge'[s] = charge[s]
    BY DEF ChargeReads, ChargeLost, TypeInv
  <2>2. \A x \in open' : x.does = "charge" /\ x.of = t /\ charge'[t] = "reading"
    BY DEF ChargeReads, ChargeLost, Calm, TypeInv
  <2>3. InTurn'
    BY <1>1, <2>1, <2>2 DEF InTurn
  <2>4. \A u \in Users : Work(u)' = Work(u)
    BY <1>1, <2>1 DEF Work
  <2> QED
    BY <1>1, <2>3, <2>4
<1>3. CASE \E t \in Transfers, does \in {"fail", "cancel"} : EndReads(t, does)
  <2> PICK t \in Transfers, does \in {"fail", "cancel"} : EndReads(t, does)
    BY <1>3
  <2>1. /\ charge' = charge /\ row[t].state \in {"SUBMITTED", "RUNNING"}
        /\ row[t].started = NoTime => charge[t] \notin {"pending", "reading"}
        /\ open' = {[of |-> t, does |-> does, started |-> row[t].started, owes |-> NoTime]}
    BY DEF EndReads, EndsInTurn, Calm
  <2>2. \A x \in open' : x.does # "charge" /\ x.of = t /\ x.started = row[t].started
    BY <2>1
  <2>3. InTurn'
    BY <1>1, <2>1, <2>2 DEF InTurn
  <2>4. \A u \in Users : Work(u)' = Work(u)
    BY <1>1, <2>1 DEF Work
  <2> QED
    BY <1>1, <2>3, <2>4
<1>4. CASE \E x \in open : RefundReads(x)
  <2> PICK x \in open : RefundReads(x)
    BY <1>4
  <2>1. PICK y : /\ open' = (open \ {x}) \cup {y} /\ y.of = x.of /\ y.does = x.does
                 /\ y.started = x.started
    <3>1. x \in Transactions
      BY DEF TypeInv, OpenOK
    <3>2. [x EXCEPT !.owes = WithPoints(About[x.of].user, - Points(x.of))].of = x.of
      BY <3>1 DEF Transactions
    <3>3. [x EXCEPT !.owes = WithPoints(About[x.of].user, - Points(x.of))].does = x.does
      BY <3>1 DEF Transactions
    <3>4. [x EXCEPT !.owes = WithPoints(About[x.of].user, - Points(x.of))].started = x.started
      BY <3>1 DEF Transactions
    <3> QED
      BY <3>2, <3>3, <3>4 DEF RefundReads
  <2>2. charge' = charge
    BY DEF RefundReads
  <2>3. InTurn'
    BY <1>1, <2>1, <2>2 DEF InTurn
  <2>4. \A u \in Users : Work(u)' = Work(u)
    BY <1>1, <2>2 DEF Work
  <2> QED
    BY <1>1, <2>3, <2>4
<1>5. CASE Tick \/ PruneReads \/ PruneCommits
  <2>1. charge' = charge /\ open' = open
    BY <1>5 DEF Tick, PruneReads, PruneCommits
  <2> QED
    BY <1>1, <2>1 DEF InTurn, Work
<1> QED
  BY <1>2, <1>3, <1>4, <1>5

\* What is charged is charged for a transfer that ran or still may.
LEMMA ChargesAreForWork ==
    ASSUME TypeInv, Undisturbed, InTurn, ForWork, NEW x \in open, ChargeCommits(x)
    PROVE  InTurn' /\ ForWork'
<1> DEFINE t == x.of
           u == About[t].user
           a == WithPoints(u, Points(t))
<1>1. /\ t \in Transfers /\ u \in Users /\ charge[t] = "reading" /\ x.does = "charge"
      /\ open' = {} /\ row' = row
      /\ account' = [account EXCEPT ![u] = a]
      /\ charge' = [charge EXCEPT ![t] = "charged"]
  BY AboutAssumption
     DEF ChargeCommits, TypeInv, OpenOK, Transactions, InTurn, Undisturbed, Change, rowVars
<1>2. Points(t) \in Nat /\ Decayed(u) \in Nat /\ Decayed(u) <= account[u].points
      /\ account[u].points \in Nat
  BY <1>1, PointsAreNat, DecayedIsNat DEF TypeInv
<1>3. a.points = Decayed(u) + Points(t)
  BY <1>1, <1>2, WithPointsOK DEF TypeInv
<1>4. /\ charge'[t] = "charged" /\ \A s \in Transfers \ {t} : charge'[s] = charge[s]
      /\ row[t].state # "none" /\ (row[t].state \in Terminal => row[t].started # NoTime)
  BY <1>1 DEF TypeInv, InTurn
<1>5. InTurn'
  BY <1>1, <1>4 DEF InTurn
<1>6. /\ Work(u)' = Work(u) \cup {t} /\ t \notin Work(u)
      /\ \A v \in Users \ {u} : Work(v)' = Work(v)
  BY <1>1, <1>4 DEF Work
<1>7. account'[u] = a /\ \A v \in Users \ {u} : account'[v] = account[v]
  BY <1>1 DEF TypeInv, AccountsOK
<1> HIDE DEF a, t, u
<1>8. SumOver(PointsOf, Work(u)') = Points(t) + SumOver(PointsOf, Work(u))
  <2>1. t \in Work(u)' /\ Work(u)' \ {t} = Work(u)
    BY <1>6
  <2>2. Summable(PointsOf, Work(u)')
    <3>1. Work(u)' \subseteq Transfers
      BY DEF Work
    <3>2. \A s \in Transfers : PointsOf[s] \in Nat
      BY PointsAreNat DEF PointsOf
    <3> QED
      BY <3>1, <3>2, FiniteAssumption, FS_Subset DEF Summable
  <2>3. PointsOf[t] = Points(t)
    BY <1>1 DEF PointsOf
  <2> QED
    BY <2>1, <2>2, <2>3, SumWithout
<1>9. account[u].points <= SumOver(PointsOf, Work(u)) /\ SumOver(PointsOf, Work(u)) \in Nat
  BY <1>1, WorkComesToPoints DEF ForWork
<1>10. a.points <= SumOver(PointsOf, Work(u)')
  BY <1>2, <1>3, <1>8, <1>9
<1>11. ForWork'
  BY <1>6, <1>7, <1>10 DEF ForWork, PointsOf
<1> QED
  BY <1>5, <1>11

\* What ends without having run takes its points along if it was charged.
LEMMA EndsAreForWork ==
    ASSUME TypeInv, Undisturbed, InTurn, ForWork, NEW x \in open,
           FailCommits(x) \/ CancelCommits(x)
    PROVE  InTurn' /\ ForWork'
<1> DEFINE t == x.of
           u == About[t].user
<1>1. PICK state \in Terminal, bytes \in Nat : EndCommits(x, state, bytes)
  <2>1. x.of \in Transfers
    BY DEF TypeInv, OpenOK, Transactions
  <2>2. row[x.of].done \in Nat /\ Size[x.of] - 1 \in Nat
    BY <2>1, SizeAssumption DEF TypeInv, RowsOK, Row
  <2> QED
    BY <2>2 DEF FailCommits, CancelCommits, Terminal
<1>2. /\ t \in Transfers /\ u \in Users /\ x.does # "charge" /\ open' = {} /\ charge' = charge
      /\ row[t].state \in {"SUBMITTED", "RUNNING"} /\ x.started = row[t].started
      /\ x.started = NoTime => charge[t] \notin {"pending", "reading"}
  BY <1>1, AboutAssumption
     DEF FailCommits, CancelCommits, EndCommits, TypeInv, OpenOK, Transactions, InTurn, Undisturbed
<1>3. /\ row'[t].state = state /\ row'[t].started = row[t].started
      /\ \A s \in Transfers \ {t} : row'[s] = row[s]
  BY <1>1, <1>2 DEF EndCommits, Ended, TypeInv, RowsOK, Row
<1>4. state \in Terminal /\ row[t].state \notin Terminal /\ state \notin {"none", "RUNNING"}
  BY <1>2 DEF Terminal
<1> HIDE DEF t, u
<1>5. InTurn'
  BY <1>2, <1>3, <1>4 DEF InTurn
<1>6. \A v \in Users \ {u} : Work(v)' = Work(v)
  BY <1>2, <1>3, <1>4 DEF Work, u
<1>7. /\ x.started # NoTime \/ charge[t] # "charged" => Work(u)' = Work(u)
      /\ x.started = NoTime /\ charge[t] = "charged" => Work(u)' = Work(u) \ {t} /\ t \in Work(u)
  BY <1>2, <1>3, <1>4 DEF Work, u
<1>8. /\ SumOver(PointsOf, Work(u)) \in Nat /\ account[u].points <= SumOver(PointsOf, Work(u))
      /\ account[u].points \in Nat
  BY <1>2, WorkComesToPoints, DecayedIsNat DEF ForWork, TypeInv
<1>9. CASE ~Refunds(x)
  <2>1. x.started # NoTime /\ account' = account
    BY <1>1, <1>2, <1>9 DEF EndCommits, Refunds
  <2>2. \A v \in Users : Work(v)' = Work(v)
    BY <1>6, <1>7, <2>1
  <2> QED
    BY <1>5, <2>1, <2>2 DEF ForWork, PointsOf, Points
<1>10. CASE Refunds(x)
  <2> DEFINE a == WithPoints(u, - Points(t))
  <2>1. x.started = NoTime /\ account' = [account EXCEPT ![u] = a]
    BY <1>1, <1>10 DEF EndCommits, Refunds, Undisturbed, Change, t, u
  <2>2. Points(t) \in Nat /\ Decayed(u) \in Nat /\ Decayed(u) <= account[u].points
    BY <1>2, PointsAreNat, DecayedIsNat DEF TypeInv
  <2>3. a.points = IF Decayed(u) + (- Points(t)) < 0 THEN 0 ELSE Decayed(u) + (- Points(t))
    BY <1>2, <2>2, WithPointsOK DEF TypeInv
  <2>4. account'[u] = a /\ \A v \in Users \ {u} : account'[v] = account[v]
    BY <1>2, <2>1 DEF TypeInv, AccountsOK
  <2> HIDE DEF a
  <2>5. a.points <= SumOver(PointsOf, Work(u)')
    <3>1. CASE charge[t] = "charged"
      <4>1. SumOver(PointsOf, Work(u)) = Points(t) + SumOver(PointsOf, Work(u) \ {t})
        BY <1>2, <1>7, <2>1, <3>1, WorkComesToPoints
      <4>2. Summable(PointsOf, Work(u) \ {t})
        <5>1. Work(u) \ {t} \subseteq Transfers
          BY DEF Work
        <5>2. \A s \in Transfers : PointsOf[s] \in Nat
          BY PointsAreNat DEF PointsOf
        <5> QED
          BY <5>1, <5>2, FiniteAssumption, FS_Subset DEF Summable
      <4>3. SumOver(PointsOf, Work(u) \ {t}) \in Nat
        BY <4>2, SumIsNat
      <4>4. a.points <= SumOver(PointsOf, Work(u) \ {t})
        BY <1>8, <2>2, <2>3, <4>1, <4>3
      <4> QED
        BY <1>7, <2>1, <3>1, <4>4
    <3>2. CASE charge[t] # "charged"
      <4>1. a.points <= SumOver(PointsOf, Work(u))
        BY <1>8, <2>2, <2>3
      <4> QED
        BY <1>7, <3>2, <4>1
    <3> QED
      BY <3>1, <3>2
  <2>6. ForWork'
    BY <1>6, <2>4, <2>5 DEF ForWork, PointsOf
  <2> QED
    BY <1>5, <2>6
<1> QED
  BY <1>9, <1>10

\* The inductive invariant behind OwesOnlyForWork.
WorkInv == Undisturbed /\ InTurn /\ ForWork

\* There is no work at first, and nothing is owed for it.
LEMMA InitForWork == Init => WorkInv
<1> SUFFICES ASSUME Init PROVE WorkInv
  OBVIOUS
<1>1. \A u \in Users : account[u].points = 0 /\ SumOver(PointsOf, Work(u)) \in Nat
  BY WorkComesToPoints DEF Init
<1>2. ForWork
  BY <1>1 DEF ForWork
<1> QED
  BY <1>2 DEF Init, WorkInv, Undisturbed, InTurn

\* Every step keeps what is owed within what the work comes to.
LEMMA StepsForWork ==
    ASSUME "overlap" \notin Env, "ended_early" \notin Env, TypeInv, WorkInv, [Next]_vars
    PROVE  WorkInv'
<1> USE DEF WorkInv
<1>1. Undisturbed'
  BY StepsUndisturbed
<1>2. ASSUME InTurn', account' = account, \A u \in Users : Work(u)' = Work(u)
      PROVE  WorkInv'
  BY <1>1, <1>2 DEF ForWork, PointsOf, Points
<1>3. CASE UNCHANGED vars
  BY <1>2, <1>3 DEF vars, rowVars, InTurn, Work
<1>4. ASSUME NEW t \in Transfers, Submit(t) \/ Start(t) \/ Finish(t) \/ Retry(t)
      PROVE  WorkInv'
  BY <1>2, <1>4, LivesInTurn
<1>5. ASSUME \/ \E t \in Transfers : \/ ChargeReads(t) \/ ChargeLost(t)
                                     \/ EndReads(t, "fail") \/ EndReads(t, "cancel")
             \/ \E x \in open : RefundReads(x)
             \/ Tick \/ PruneReads \/ PruneCommits
      PROVE  WorkInv'
  BY <1>2, <1>5, ReadsInTurn
<1>6. ASSUME NEW x \in open, ChargeCommits(x) \/ FailCommits(x) \/ CancelCommits(x)
      PROVE  WorkInv'
  BY <1>1, <1>6, ChargesAreForWork, EndsAreForWork
<1> QED
  BY <1>3, <1>4, <1>5, <1>6 DEF Next

\* Where one transaction on points is over before the next begins, and nothing ends
\* without having run between its submission and its charge, a charge is given back
\* with what never ran (services/events.py, services/cancel.py): users owe for work.
THEOREM OwesForWork ==
    ASSUME "overlap" \notin Env, "ended_early" \notin Env
    PROVE  Spec => []OwesOnlyForWork
<1>1. TypeInv /\ WorkInv /\ [Next]_vars => TypeInv' /\ WorkInv'
  BY TypesStay, StepsForWork
<1>2. TypeInv /\ WorkInv => OwesOnlyForWork
  <2> SUFFICES ASSUME TypeInv, WorkInv, NEW u \in Users
               PROVE  Decayed(u) <= MapThenSumSet(Points, Work(u))
    BY DEF OwesOnlyForWork, Work
  <2>1. Decayed(u) \in Nat /\ Decayed(u) <= account[u].points /\ account[u].points \in Nat
    BY DecayedIsNat DEF TypeInv
  <2>2. Work(u) \in SUBSET Transfers
    BY DEF Work
  <2>3. MapThenSumSet(Points, Work(u)) = SumOver(PointsOf, Work(u))
    BY <2>2, PointsSum
  <2>4. SumOver(PointsOf, Work(u)) \in Nat /\ account[u].points <= SumOver(PointsOf, Work(u))
    BY WorkComesToPoints DEF WorkInv, ForWork
  <2> QED
    BY <2>1, <2>3, <2>4
<1> QED
  BY <1>1, <1>2, InitTyped, InitForWork, PTL DEF Spec

-----------------------------------------------------------------------------
(* Totals of the usage report.                                             *)

\* What every row counts for, field by field.
Columns(rows, unit) ==
    [transfers |-> [t \in DOMAIN rows |-> 1],
     succeeded |-> [t \in DOMAIN rows |-> IF rows[t].state = "SUCCEEDED" THEN 1 ELSE 0],
     bytes |-> DoneOf(rows), waited |-> WaitsOf(rows, unit), running |-> RunsOf(rows, unit)]

\* Each of them is a number, for whatever rows.
LEMMA ColumnsSummable ==
    ASSUME NEW rows, NEW ts, InOrder(rows, ts), NEW unit \in Nat \ {0}, NEW f \in Fields
    PROVE  Summable(Columns(rows, unit)[f], ts)
<1>1. IsFiniteSet(ts)
  <2>1. ts \subseteq Transfers
    BY DEF InOrder
  <2> QED
    BY <2>1, FiniteAssumption, FS_Subset
<1>2. ASSUME NEW t \in ts PROVE Columns(rows, unit)[f][t] \in Nat
  <2>1. t \in DOMAIN rows
    BY DEF InOrder
  <2>2. /\ DoneOf(rows)[t] \in Nat /\ WaitsOf(rows, unit)[t] \in Nat
        /\ RunsOf(rows, unit)[t] \in Nat
    BY ColumnsAreNat
  <2> QED
    BY <2>1, <2>2 DEF Columns, Fields
<1> QED
  BY <1>1, <1>2 DEF Summable

\* A set of rows comes to the sums of its columns.
LEMMA SumOfColumns ==
    ASSUME NEW rows, NEW ts, InOrder(rows, ts), NEW unit \in Nat \ {0}
    PROVE  SumOf(rows, ts, unit) = [f \in Fields |-> SumOver(Columns(rows, unit)[f], ts)]
<1> DEFINE c == Columns(rows, unit)
<1>1. /\ IsFiniteSet(ts) /\ SucceededOf(rows, ts) \in SUBSET ts /\ ts \in SUBSET ts
      /\ ts \subseteq DOMAIN rows
  <2>1. ts \subseteq Transfers /\ ts \subseteq DOMAIN rows
    BY DEF InOrder
  <2> QED
    BY <2>1, FiniteAssumption, FS_Subset DEF SucceededOf
<1>2. SumOver(c["transfers"], ts) = Cardinality(ts)
  <2>1. \A t \in ts : c["transfers"][t] = IF t \in ts THEN 1 ELSE 0
    BY <1>1 DEF Columns
  <2> QED
    BY <1>1, <2>1, SumOfOnes
<1>3. SumOver(c["succeeded"], ts) = Cardinality(SucceededOf(rows, ts))
  <2>1. \A t \in ts : c["succeeded"][t] = IF t \in SucceededOf(rows, ts) THEN 1 ELSE 0
    BY <1>1 DEF Columns, SucceededOf
  <2> QED
    BY <1>1, <2>1, SumOfOnes
<1>4. /\ c["bytes"] = DoneOf(rows) /\ c["waited"] = WaitsOf(rows, unit)
      /\ c["running"] = RunsOf(rows, unit)
  BY DEF Columns
<1>5. /\ MapThenSumSet(LAMBDA t : rows[t].done, ts) = SumOver(DoneOf(rows), ts)
      /\ MapThenSumSet(LAMBDA t : WaitOf(rows[t]) \div unit, ts) = SumOver(WaitsOf(rows, unit), ts)
      /\ MapThenSumSet(LAMBDA t : RunOf(rows[t]) \div unit, ts) = SumOver(RunsOf(rows, unit), ts)
  BY BytesSum, WaitsSum, RunsSum
<1> HIDE DEF c
<1>6. SumOf(rows, ts, unit) =
        [transfers |-> SumOver(c["transfers"], ts), succeeded |-> SumOver(c["succeeded"], ts),
         bytes |-> SumOver(c["bytes"], ts), waited |-> SumOver(c["waited"], ts),
         running |-> SumOver(c["running"], ts)]
  BY <1>2, <1>3, <1>4, <1>5 DEF SumOf, SucceededOf
<1>7. \A g : [transfers |-> g["transfers"], succeeded |-> g["succeeded"], bytes |-> g["bytes"],
              waited |-> g["waited"], running |-> g["running"]]
             = [f \in Fields |-> g[f]]
  BY DEF Fields
<1> DEFINE sums == [f \in Fields |-> SumOver(c[f], ts)]
<1>8. \A f \in Fields : sums[f] = SumOver(c[f], ts)
  OBVIOUS
<1>9. sums = [f \in Fields |-> sums[f]]
  OBVIOUS
<1> HIDE DEF sums
<1>10. SumOf(rows, ts, unit) =
        [transfers |-> sums["transfers"], succeeded |-> sums["succeeded"],
         bytes |-> sums["bytes"], waited |-> sums["waited"], running |-> sums["running"]]
  BY <1>6, <1>8 DEF Fields
<1> QED
  BY <1>7, <1>9, <1>10 DEF sums, c

\* Ticks that one of a field's units is worth in a report.
Worth == [f \in Fields |-> IF f \in {"waited", "running"} THEN PerSecond ELSE 1]

\* Ticks that are less than one of its units.
Spare == [f \in Fields |-> IF f \in {"waited", "running"} THEN PerSecond - 1 ELSE 0]

\* They are numbers.
LEMMA WorthIsNat == \A f \in Fields : Worth[f] \in Nat \ {0} /\ Spare[f] \in Nat
BY TimeAssumption DEF Worth, Spare

\* What a bucket holds is reported in ticks.
LEMMA ReportedInTicks ==
    ASSUME NEW s, DOMAIN s = Fields, \A f \in Fields : s[f] \in Nat
    PROVE  /\ DOMAIN InTicks(s) = Fields
           /\ \A f \in Fields : InTicks(s)[f] = Worth[f] * s[f] /\ InTicks(s)[f] \in Nat
<1>1. PerSecond \in Nat \ {0}
  BY TimeAssumption
<1>2. DOMAIN InTicks(s) = Fields
  BY DEF InTicks
<1>3. /\ InTicks(s)["waited"] = s["waited"] * PerSecond
      /\ InTicks(s)["running"] = s["running"] * PerSecond
      /\ \A f \in Fields \ {"waited", "running"} : InTicks(s)[f] = s[f]
  BY DEF InTicks, Fields
<1>4. ASSUME NEW f \in Fields PROVE InTicks(s)[f] = Worth[f] * s[f]
  <2>1. CASE f \in {"waited", "running"}
    <3>1. InTicks(s)[f] = s[f] * PerSecond /\ Worth[f] = PerSecond /\ s[f] \in Nat
      BY <1>3, <2>1 DEF Worth
    <3> QED
      BY <1>1, <3>1
  <2>2. CASE f \notin {"waited", "running"}
    <3>1. InTicks(s)[f] = s[f] /\ Worth[f] = 1 /\ s[f] \in Nat
      BY <1>3, <2>2 DEF Worth
    <3> QED
      BY <3>1
  <2> QED
    BY <2>1, <2>2
<1>5. ASSUME NEW f \in Fields PROVE Worth[f] * s[f] \in Nat
  <2>1. Worth[f] \in Nat /\ s[f] \in Nat
    BY WorthIsNat
  <2> QED
    BY <2>1
<1> QED
  BY <1>2, <1>4, <1>5

\* What the buckets hold of a field.
StatsOf(f) == [b \in DOMAIN stats |-> InTicks(stats[b])[f]]

\* It is numbers.
LEMMA StatsAreNat ==
    ASSUME StatsOK, NEW b \in DOMAIN stats
    PROVE  /\ DOMAIN InTicks(stats[b]) = Fields
           /\ \A f \in Fields : /\ StatsOf(f)[b] = Worth[f] * stats[b][f]
                                /\ StatsOf(f)[b] = InTicks(stats[b])[f]
                                /\ StatsOf(f)[b] \in Nat
<1>1. DOMAIN stats[b] = Fields /\ \A f \in Fields : stats[b][f] \in Nat
  BY DEF StatsOK, Counts
<1> QED
  BY <1>1, ReportedInTicks DEF StatsOf

\* The recursion by which the sums of rows and buckets are added up.
AddsUp(fold, base, bs) ==
    fold = [s \in SUBSET bs |->
              IF s = {} THEN base
              ELSE Plus(InTicks(stats[CHOOSE b \in s : TRUE]),
                        fold[s \ {CHOOSE b \in s : TRUE}])]

\* It comes to the sum of each field, in whatever order the buckets are taken.
LEMMA FoldOfFields ==
    ASSUME StatsOK, NEW bs \in SUBSET DOMAIN stats,
           NEW base \in [Fields -> Nat],
           NEW fold, fold = CHOOSE g : AddsUp(g, base, bs)
    PROVE  fold[bs] = [f \in Fields |-> base[f] + SumOver(StatsOf(f), bs)]
<1> DEFINE Comes(s) == [f \in Fields |-> base[f] + SumOver(StatsOf(f), s)]
           made == [s \in SUBSET bs |-> Comes(s)]
<1>1. ASSUME NEW s \in SUBSET bs, NEW f \in Fields
      PROVE  Summable(StatsOf(f), s) /\ SumOver(StatsOf(f), s) \in Nat
  <2>1. IsFiniteSet(s)
    BY FS_Subset DEF StatsOK
  <2>2. \A b \in s : StatsOf(f)[b] \in Nat
    BY StatsAreNat
  <2>3. Summable(StatsOf(f), s)
    BY <2>1, <2>2 DEF Summable
  <2> QED
    BY <2>3, SumIsNat
<1>2. Comes({}) = base
  <2>1. \A f \in Fields : base[f] + SumOver(StatsOf(f), {}) = base[f]
    BY SumOfNone
  <2> QED
    BY <2>1
<1>3. ASSUME NEW s \in SUBSET bs, NEW b \in s
      PROVE  Plus(InTicks(stats[b]), Comes(s \ {b})) = Comes(s)
  <2>1. DOMAIN InTicks(stats[b]) = Fields
    BY StatsAreNat
  <2>2. ASSUME NEW f \in Fields
        PROVE  InTicks(stats[b])[f] + (base[f] + SumOver(StatsOf(f), s \ {b}))
                 = base[f] + SumOver(StatsOf(f), s)
    <3>1. Summable(StatsOf(f), s)
      BY <1>1
    <3>2. SumOver(StatsOf(f), s) = StatsOf(f)[b] + SumOver(StatsOf(f), s \ {b})
      BY <3>1, SumWithout
    <3>3. SumOver(StatsOf(f), s \ {b}) \in Nat
      BY <3>1, SumWithout, SumIsNat
    <3>4. StatsOf(f)[b] = InTicks(stats[b])[f] /\ InTicks(stats[b])[f] \in Nat
      BY StatsAreNat
    <3> QED
      BY <3>2, <3>3, <3>4
  <2>3. \A f \in Fields : Comes(s \ {b})[f] = base[f] + SumOver(StatsOf(f), s \ {b})
    OBVIOUS
  <2> QED
    BY <2>1, <2>2, <2>3 DEF Plus
<1> HIDE DEF Comes
<1>4. AddsUp(made, base, bs)
  <2>1. \A s \in SUBSET bs :
          Comes(s) = IF s = {} THEN base
                     ELSE Plus(InTicks(stats[CHOOSE b \in s : TRUE]),
                               made[s \ {CHOOSE b \in s : TRUE}])
    BY <1>2, <1>3
  <2> QED
    BY <2>1 DEF AddsUp
<1>5. AddsUp(fold, base, bs)
  BY <1>4
<1> DEFINE bad == {s \in SUBSET bs : fold[s] # Comes(s)}
<1>6. ASSUME bad # {} PROVE FALSE
  <2>1. IsFiniteSet(bs)
    BY FS_Subset DEF StatsOK
  <2>2. PICK s \in bad : \A b \in s : s \ {b} \notin bad
    BY <1>6, <2>1, SmallestBad
  <2>3. s # {}
    BY <1>2, <1>5 DEF AddsUp
  <2>4. PICK b \in s : b = CHOOSE c \in s : TRUE
    BY <2>3
  <2>5. fold[s] = Plus(InTicks(stats[b]), fold[s \ {b}])
    BY <1>5, <2>3, <2>4 DEF AddsUp
  <2>6. fold[s \ {b}] = Comes(s \ {b})
    BY <2>2, <2>4
  <2> QED
    BY <1>3, <2>2, <2>5, <2>6
<1>7. fold[bs] = Comes(bs)
  BY <1>6
<1> QED
  BY <1>7 DEF Comes

\* What the rows of the table count for.
LiveOf(f) == Columns(row, 1)[f]

\* They are in order.
LEMMA RowsInOrder == ASSUME RowsOK, NEW ts \in SUBSET Transfers PROVE InOrder(row, ts)
BY DEF RowsOK, InOrder

\* So they come to numbers.
LEMMA LiveSummable ==
    ASSUME RowsOK, NEW ts \in SUBSET Transfers, NEW f \in Fields
    PROVE  Summable(LiveOf(f), ts) /\ SumOver(LiveOf(f), ts) \in Nat
<1>1. InOrder(row, ts) /\ 1 \in Nat \ {0}
  BY RowsInOrder
<1>2. Summable(LiveOf(f), ts)
  BY <1>1, ColumnsSummable DEF LiveOf
<1> QED
  BY <1>2, SumIsNat

\* A total is what the rows come to and what the buckets hold.
LEMMA TotalsByField ==
    ASSUME RowsOK, StatsOK, NEW group, NEW key, NEW since, NEW until
    PROVE  Totals(group, key, since, until) =
             [f \in Fields |-> SumOver(LiveOf(f), RowsIn(group, key, since, until))
                               + SumOver(StatsOf(f), BucketsIn(group, key, since, until))]
<1> DEFINE rows == RowsIn(group, key, since, until)
           bs == BucketsIn(group, key, since, until)
           base == SumOf(row, rows, 1)
           fold == CHOOSE g : AddsUp(g, base, bs)
<1>1. rows \in SUBSET Transfers /\ bs \in SUBSET DOMAIN stats
  BY DEF RowsIn, Rows, BucketsIn
<1>2. base = [f \in Fields |-> SumOver(LiveOf(f), rows)]
  <2>1. InOrder(row, rows) /\ 1 \in Nat \ {0}
    BY <1>1, RowsInOrder
  <2> HIDE DEF rows
  <2> QED
    BY <2>1, SumOfColumns DEF LiveOf
<1>3. \A f \in Fields : SumOver(LiveOf(f), rows) \in Nat
  BY <1>1, LiveSummable
<1>4. Totals(group, key, since, until) = fold[bs]
  BY DEF Totals, MapThenFoldSet, AddsUp
<1> HIDE DEF rows, bs, base
<1>5. base \in [Fields -> Nat]
  BY <1>2, <1>3
<1>6. fold[bs] = [f \in Fields |-> base[f] + SumOver(StatsOf(f), bs)]
  BY <1>1, <1>5, FoldOfFields
<1>7. \A f \in Fields : base[f] = SumOver(LiveOf(f), rows)
  BY <1>2
<1> QED
  BY <1>4, <1>6, <1>7 DEF rows, bs

\* Days are numbered in order, and a day begins with its first moment.
LEMMA DaysInOrder ==
    ASSUME NEW n \in Nat, NEW p \in Nat \ {0}, NEW m \in Nat, m % p = 0
    PROVE  /\ n \div p \in Nat /\ m \div p \in Nat
           /\ n >= m <=> n \div p >= m \div p
           /\ n < m <=> n \div p < m \div p
<1>1. /\ n \div p \in Nat /\ m \div p \in Nat
      /\ n = p * (n \div p) + (n % p) /\ n % p \in Nat /\ n % p < p
      /\ m = p * (m \div p)
  <2>1. n \div p \in Nat /\ m \div p \in Nat
    OBVIOUS
  <2>2. n = p * (n \div p) + (n % p)
    OBVIOUS
  <2>3. n % p \in Nat /\ n % p < p
    OBVIOUS
  <2>4. m = p * (m \div p) + (m % p)
    OBVIOUS
  <2>5. p * (m \div p) \in Nat
    BY <2>1
  <2> QED
    BY <2>1, <2>2, <2>3, <2>4, <2>5
<1>2. \A a, b \in Nat : a >= b => p * a >= p * b
  OBVIOUS
<1>3. \A a, b \in Nat : a < b => p * a + p <= p * b
  <2> SUFFICES ASSUME NEW a \in Nat, NEW b \in Nat, a < b PROVE p * a + p <= p * b
    OBVIOUS
  <2>1. a + 1 <= b /\ p * (a + 1) = p * a + p /\ p * a \in Nat /\ p * b \in Nat
    OBVIOUS
  <2> QED
    BY <1>2, <2>1
<1> DEFINE a == n \div p
           b == m \div p
<1>4. p * a \in Nat /\ p * b \in Nat
  BY <1>1
<1>5. a >= b => p * a >= p * b
  BY <1>1, <1>2
<1>6. a < b => p * a + p <= p * b
  BY <1>1, <1>3
<1> HIDE DEF a, b
<1>7. n >= m <=> a >= b
  BY <1>1, <1>4, <1>5, <1>6 DEF a, b
<1> QED
  BY <1>1, <1>7 DEF a, b

\* A window of whole days has a transfer if it has the day of its bucket.
LEMMA WindowOfDays ==
    ASSUME RowsOK, NEW t \in Transfers, NEW since \in DayBounds, NEW until \in DayBounds
    PROVE  /\ Since(row[t].submitted, since) <=> Since(Day(row[t].submitted), DayOrNone(since))
           /\ Until(row[t].submitted, until) <=> Until(Day(row[t].submitted), DayOrNone(until))
<1>1. row[t].submitted \in Nat /\ PerDay \in Nat \ {0} /\ NoTime \notin Nat
  BY TimeAssumption DEF RowsOK, Row, Times
<1>2. \A d \in DayBounds : d # NoTime => d \in Nat /\ d % PerDay = 0
  BY TimeAssumption DEF DayBounds, Times
<1>3. \A d \in DayBounds : d # NoTime => Day(d) # NoTime
  BY <1>1, <1>2, DaysInOrder DEF Day
<1> QED
  BY <1>1, <1>2, <1>3, DaysInOrder DEF Since, Until, DayOrNone, Day

\* Every total is a sum.
TotalsAreSums ==
    \A group, key, since, until :
      Totals(group, key, since, until) =
        [f \in Fields |-> SumOver(LiveOf(f), RowsIn(group, key, since, until))
                          + SumOver(StatsOf(f), BucketsIn(group, key, since, until))]

\* Rows and buckets of the right types make it so.
LEMMA TotalsSum == RowsOK /\ StatsOK => TotalsAreSums
BY TotalsByField DEF TotalsAreSums

\* What is being removed has not been changed since it was read.
ReadAsItIs == \A t \in DOMAIN pruning : pruning[t] = row[t]

\* Ticks that statistics keep of what each of them counts for.
KeptOf(f) == [t \in DOMAIN pruning |-> Worth[f] * Columns(pruning, PerSecond)[f][t]]

\* Whole seconds are kept, and less than one is not.
LEMMA WholeSeconds ==
    ASSUME NEW w \in Nat
    PROVE  /\ w \div 1 = w /\ PerSecond * (w \div PerSecond) \in Nat
           /\ PerSecond * (w \div PerSecond) <= w
           /\ w <= PerSecond * (w \div PerSecond) + (PerSecond - 1)
<1>1. PICK p \in Nat \ {0} : p = PerSecond
  BY TimeAssumption
<1>2. w \div 1 = w /\ w \div p \in Nat
  OBVIOUS
<1>3. w = p * (w \div p) + (w % p)
  OBVIOUS
<1>4. w % p \in Nat /\ w % p < p
  OBVIOUS
<1>5. p * (w \div p) \in Nat
  BY <1>2
<1> QED
  BY <1>1, <1>2, <1>3, <1>4, <1>5

\* A row that is removed as it is counts for the same but fractions of seconds.
LEMMA KeptIsNear ==
    ASSUME TypeInv, ReadAsItIs, NEW f \in Fields, NEW t \in DOMAIN pruning
    PROVE  /\ KeptOf(f)[t] \in Nat /\ KeptOf(f)[t] <= LiveOf(f)[t]
           /\ LiveOf(f)[t] <= KeptOf(f)[t] + Spare[f]
<1>1. pruning[t] = row[t] /\ RowOK(row[t], now) /\ t \in DOMAIN row
  BY DEF TypeInv, PruningOK, RowsOK, ReadAsItIs
<1>2. WaitOf(row[t]) \in Nat /\ RunOf(row[t]) \in Nat /\ row[t].done \in Nat
  BY <1>1, TimesAreNat DEF RowOK, Row
<1>3. KeptOf(f)[t] = Worth[f] * Columns(pruning, PerSecond)[f][t]
  BY DEF KeptOf
<1>4. CASE f = "waited"
  <2>1. /\ KeptOf(f)[t] = PerSecond * (WaitOf(row[t]) \div PerSecond)
        /\ LiveOf(f)[t] = WaitOf(row[t]) \div 1 /\ Spare[f] = PerSecond - 1
    BY <1>1, <1>3, <1>4 DEF Columns, WaitsOf, LiveOf, Worth, Spare
  <2> QED
    BY <1>2, <2>1, WholeSeconds
<1>5. CASE f = "running"
  <2>1. /\ KeptOf(f)[t] = PerSecond * (RunOf(row[t]) \div PerSecond)
        /\ LiveOf(f)[t] = RunOf(row[t]) \div 1 /\ Spare[f] = PerSecond - 1
    BY <1>1, <1>3, <1>5 DEF Columns, RunsOf, LiveOf, Worth, Spare
  <2> QED
    BY <1>2, <2>1, WholeSeconds
<1>6. CASE f \notin {"waited", "running"}
  <2>1. Worth[f] = 1 /\ Spare[f] = 0
    BY <1>6 DEF Worth, Spare
  <2>2. LiveOf(f)[t] \in Nat /\ Columns(pruning, PerSecond)[f][t] = LiveOf(f)[t]
    BY <1>1, <1>2, <1>6 DEF Columns, DoneOf, LiveOf, Fields
  <2> QED
    BY <1>3, <2>1, <2>2
<1> QED
  BY <1>4, <1>5, <1>6

\* What a bucket gets is what is kept of the rows that go into it.
LEMMA IntoIsKept ==
    ASSUME TypeInv, NEW b, NEW f \in Fields
    PROVE  LET into == SumOf(pruning, Into(b), PerSecond) IN
           /\ DOMAIN into = Fields /\ into[f] \in Nat
           /\ Worth[f] * into[f] = SumOver(KeptOf(f), Into(b))
           /\ SumOver(KeptOf(f), Into(b)) \in Nat
<1> DEFINE into == SumOf(pruning, Into(b), PerSecond)
           c == Columns(pruning, PerSecond)
<1>1. InOrder(pruning, Into(b)) /\ PerSecond \in Nat \ {0}
  BY TimeAssumption DEF InOrder, Into, TypeInv, PruningOK
<1>2. into = [g \in Fields |-> SumOver(c[g], Into(b))] /\ Summable(c[f], Into(b))
  BY <1>1, SumOfColumns, ColumnsSummable
<1>3. \A t \in Into(b) : KeptOf(f)[t] = Worth[f] * c[f][t]
  BY DEF KeptOf, Into
<1>4. Worth[f] \in Nat
  BY WorthIsNat
<1> HIDE DEF into, c
<1>5. into[f] = SumOver(c[f], Into(b)) /\ SumOver(c[f], Into(b)) \in Nat
  BY <1>2, SumIsNat
<1>6. /\ Summable(KeptOf(f), Into(b))
      /\ SumOver(KeptOf(f), Into(b)) = Worth[f] * SumOver(c[f], Into(b))
  BY <1>2, <1>3, <1>4, SumOfMultiples
<1> QED
  BY <1>2, <1>5, <1>6, SumIsNat DEF into

\* What leaves the rows of a window comes to its buckets, but for fractions of seconds.
LEMMA PrunedIsRolledUp ==
    ASSUME TypeInv, TypeInv', PruneCommits, ReadAsItIs, NEW f \in Fields,
           NEW group, NEW key, NEW since \in DayBounds, NEW until \in DayBounds,
           NEW was, was = SumOver(LiveOf(f), RowsIn(group, key, since, until))
                          + SumOver(StatsOf(f), BucketsIn(group, key, since, until)),
           NEW is, is = SumOver(LiveOf(f), RowsIn(group, key, since, until)')
                        + SumOver(StatsOf(f)', BucketsIn(group, key, since, until)'),
           NEW gone, gone = Cardinality(RowsIn(group, key, since, until)
                                          \ RowsIn(group, key, since, until)')
    PROVE  /\ was \in Nat /\ is \in Nat /\ gone \in Nat
           /\ is <= was /\ was <= is + Spare[f] * gone
<1> DEFINE all == RowsIn(group, key, since, until)
           stay == RowsIn(group, key, since, until)'
           go == {t \in DOMAIN pruning : t \in RowsIn(group, key, since, until)}
           old == BucketsIn(group, key, since, until)
           new == BucketsIn(group, key, since, until)'
           had == [b \in new |-> IF b \in DOMAIN stats THEN StatsOf(f)[b] ELSE 0]
           came == [b \in new |-> SumOver(KeptOf(f), Into(b))]
           bucket == [t \in DOMAIN pruning |-> BucketOf(t)]
<1>1. /\ row' = row /\ now' = now /\ pruned' = pruned \cup DOMAIN pruning
      /\ DOMAIN pruning \subseteq Rows /\ Rows \subseteq Transfers
      /\ Rows' = Rows \ DOMAIN pruning /\ \A t \in DOMAIN pruning : row[t].state \in Terminal
  <2>1. /\ DOMAIN pruning \subseteq Transfers \ pruned
        /\ \A t \in DOMAIN pruning : row[t].state \in Terminal
    BY DEF TypeInv, PruningOK, ReadAsItIs
  <2>2. "none" \notin Terminal
    BY DEF Terminal
  <2> QED
    BY <2>1, <2>2 DEF PruneCommits, Rows
<1>2. RowsOK /\ StatsOK /\ StatsOK'
  BY DEF TypeInv
<1>3. all = stay \cup go /\ stay \cap go = {} /\ stay \cup go \in SUBSET Transfers /\ go = all \ stay
  BY <1>1 DEF RowsIn
<1>4. /\ SumOver(LiveOf(f), all) = SumOver(LiveOf(f), stay) + SumOver(LiveOf(f), go)
      /\ SumOver(LiveOf(f), stay) \in Nat /\ Summable(LiveOf(f), go)
      /\ SumOver(LiveOf(f), go) \in Nat
  <2> HIDE DEF stay, go, all
  <2>1. Summable(LiveOf(f), stay \cup go)
    BY <1>2, <1>3, LiveSummable
  <2>2. SumOver(LiveOf(f), stay \cup go) = SumOver(LiveOf(f), stay) + SumOver(LiveOf(f), go)
    BY <1>3, <2>1, SumOfBoth
  <2>3. stay \in SUBSET Transfers /\ go \in SUBSET Transfers
    BY <1>3
  <2> QED
    BY <1>2, <1>3, <2>2, <2>3, LiveSummable
<1>5. /\ old \in SUBSET new /\ DOMAIN stats' = Filled
      /\ old = new \cap DOMAIN stats
      /\ IsFiniteSet(new)
  <2>1. DOMAIN stats' = Filled /\ DOMAIN stats \subseteq Filled
    BY DEF PruneCommits, RollUp, Filled
  <2>2. new = {b \in DOMAIN stats' : /\ KeyOf(group, b.of) = key
                                     /\ Since(b.day, DayOrNone(since))
                                     /\ Until(b.day, DayOrNone(until))}
    BY DEF BucketsIn, KeyOf, Since, Until, DayOrNone, Day
  <2>3. IsFiniteSet(new)
    BY <1>2, <2>2, FS_Subset DEF StatsOK
  <2> QED
    BY <2>1, <2>2, <2>3 DEF BucketsIn
<1>6. go = {t \in DOMAIN pruning : bucket[t] \in new}
  <2> SUFFICES ASSUME NEW t \in DOMAIN pruning
               PROVE  t \in RowsIn(group, key, since, until) <=> BucketOf(t) \in new
    OBVIOUS
  <2>1. /\ Since(row[t].submitted, since) <=> Since(Day(row[t].submitted), DayOrNone(since))
        /\ Until(row[t].submitted, until) <=> Until(Day(row[t].submitted), DayOrNone(until))
    BY <1>1, <1>2, WindowOfDays
  <2>2. BucketOf(t).day = Day(row[t].submitted) /\ BucketOf(t).of = About[t]
    BY DEF BucketOf, ReadAsItIs
  <2>3. BucketOf(t) \in new <=>
          /\ KeyOf(group, BucketOf(t).of) = key
          /\ Since(BucketOf(t).day, DayOrNone(since))
          /\ Until(BucketOf(t).day, DayOrNone(until))
    BY <1>5 DEF Filled, BucketsIn, KeyOf, Since, Until, DayOrNone, Day
  <2> QED
    BY <1>1, <2>1, <2>2, <2>3 DEF RowsIn
<1>7. Summable(KeptOf(f), DOMAIN pruning)
  <2>1. DOMAIN pruning \in SUBSET Transfers
    BY <1>1
  <2> QED
    BY <2>1, KeptIsNear, FiniteAssumption, FS_Subset DEF Summable
<1>8. /\ Summable(came, new) /\ SumOver(came, new) = SumOver(KeptOf(f), go)
  <2>1. \A b \in new : came[b] = SumOver(KeptOf(f), Group(DOMAIN pruning, bucket, b))
    <3>1. \A b : Into(b) = Group(DOMAIN pruning, bucket, b)
      BY DEF Group, Into
    <3> QED
      BY <3>1
  <2> HIDE DEF new, came, bucket
  <2>2. /\ Summable(came, new)
        /\ SumOver(came, new) = SumOver(KeptOf(f), Grouped(DOMAIN pruning, bucket, new))
    <3>1. IsFiniteSet(new)
      BY <1>5
    <3> QED
      BY <1>7, <2>1, <3>1, SumOfGroups
  <2> HIDE DEF go
  <2> QED
    BY <1>6, <2>2 DEF Grouped
<1>9. Summable(had, new) /\ SumOver(had, new) = SumOver(StatsOf(f), old)
  <2>1. \A b \in new : had[b] \in Nat
    BY <1>2, StatsAreNat
  <2>2. SumOver(had, new) = SumOver(had, old)
    <3>1. \A b \in new \ old : had[b] = 0
      BY <1>5
    <3> HIDE DEF had, new, old
    <3> QED
      BY <1>5, <3>1, SumOfRest
  <2>3. SumOver(had, old) = SumOver(StatsOf(f), old)
    <3>1. \A b \in old : had[b] = StatsOf(f)[b]
      BY <1>5
    <3> HIDE DEF had, old
    <3> QED
      BY <3>1, SumAgrees
  <2> HIDE DEF had, new, old
  <2> QED
    BY <1>5, <2>1, <2>2, <2>3 DEF Summable
<1>10. \A b \in new : StatsOf(f)'[b] = had[b] + came[b]
  <2> SUFFICES ASSUME NEW b \in new PROVE StatsOf(f)'[b] = had[b] + came[b]
    OBVIOUS
  <2> DEFINE into == SumOf(pruning, Into(b), PerSecond)
  <2>1. b \in DOMAIN stats'
    BY DEF BucketsIn
  <2>2. stats'[b] = IF b \in DOMAIN stats THEN Plus(stats[b], into) ELSE into
    BY <1>5, <2>1 DEF PruneCommits, RollUp
  <2>3. /\ DOMAIN into = Fields /\ into[f] \in Nat
        /\ Worth[f] * into[f] = came[b] /\ came[b] \in Nat
    BY IntoIsKept
  <2>4. StatsOf(f)'[b] = Worth[f] * stats'[b][f]
    <3>1. DOMAIN stats'[b] = Fields /\ \A g \in Fields : stats'[b][g] \in Nat
      BY <1>2, <2>1 DEF StatsOK, Counts
    <3>2. InTicks(stats'[b])[f] = Worth[f] * stats'[b][f]
      BY <3>1, ReportedInTicks
    <3>3. StatsOf(f)'[b] = InTicks(stats'[b])[f]
      BY <2>1 DEF StatsOf, InTicks
    <3> QED
      BY <3>2, <3>3
  <2> HIDE DEF into, came
  <2>5. CASE b \in DOMAIN stats
    <3>1. DOMAIN stats[b] = Fields /\ stats[b][f] \in Nat /\ had[b] = Worth[f] * stats[b][f]
      BY <1>2, <2>5, StatsAreNat DEF StatsOK, Counts
    <3>2. stats'[b][f] = stats[b][f] + into[f]
      BY <2>2, <2>5, <3>1 DEF Plus
    <3>3. Worth[f] \in Nat
      BY WorthIsNat
    <3>4. Worth[f] * (stats[b][f] + into[f]) = Worth[f] * stats[b][f] + Worth[f] * into[f]
      BY <2>3, <3>1, <3>3
    <3> QED
      BY <2>3, <2>4, <3>1, <3>2, <3>4
  <2>6. CASE b \notin DOMAIN stats
    <3>1. had[b] = 0 /\ stats'[b][f] = into[f]
      BY <2>2, <2>6
    <3> QED
      BY <2>3, <2>4, <3>1
  <2> QED
    BY <2>5, <2>6
<1>11. /\ SumOver(KeptOf(f), go) <= SumOver(LiveOf(f), go)
       /\ SumOver(LiveOf(f), go) <= SumOver(KeptOf(f), go) + Spare[f] * gone
       /\ SumOver(KeptOf(f), go) \in Nat
  <2>1. Summable(KeptOf(f), go) /\ go \subseteq DOMAIN pruning
    <3>1. go \in SUBSET DOMAIN pruning
      OBVIOUS
    <3> HIDE DEF go
    <3> QED
      BY <1>7, <3>1, SumOfPart
  <2>2. Spare[f] \in Nat /\ gone = Cardinality(go)
    BY <1>3, WorthIsNat
  <2>3. \A t \in go : KeptOf(f)[t] <= LiveOf(f)[t] /\ LiveOf(f)[t] <= KeptOf(f)[t] + Spare[f]
    BY <2>1, KeptIsNear
  <2> HIDE DEF go
  <2> QED
    BY <1>4, <2>1, <2>2, <2>3, SumOfLess, SumIsNat
<1>12. gone \in Nat /\ Spare[f] * gone \in Nat
  <2>1. IsFiniteSet(all) /\ go \in SUBSET all
    BY <1>3, FiniteAssumption, FS_Subset
  <2>2. gone \in Nat
    BY <1>3, <2>1, FS_Subset, FS_CardinalityType
  <2>3. Spare[f] \in Nat
    BY WorthIsNat
  <2> QED
    BY <2>2, <2>3
<1> HIDE DEF stay, go, old, new, had, came, all
<1>13. SumOver(StatsOf(f)', new) = SumOver(StatsOf(f), old) + SumOver(KeptOf(f), go)
  <2>1. PICK z : z = StatsOf(f)'
    OBVIOUS
  <2>2. Summable(had, new) /\ Summable(came, new) /\ \A b \in new : z[b] = had[b] + came[b]
    BY <1>8, <1>9, <1>10, <2>1
  <2>3. SumOver(z, new) = SumOver(had, new) + SumOver(came, new)
    BY <2>2, SumOfSums
  <2> QED
    BY <1>8, <1>9, <2>1, <2>3
<1>14. SumOver(StatsOf(f), old) \in Nat
  BY <1>9, SumIsNat
<1>15. /\ was = SumOver(LiveOf(f), all) + SumOver(StatsOf(f), old)
       /\ is = SumOver(LiveOf(f), stay) + SumOver(StatsOf(f)', new)
  BY DEF all, stay, old, new
<1> QED
  BY <1>4, <1>11, <1>12, <1>13, <1>14, <1>15

\* A record of a report's sums is known by its fields.
LEMMA WithinFractions ==
    ASSUME NEW was, NEW is, NEW gone \in Nat,
           was = [f \in Fields |-> was[f]], is = [f \in Fields |-> is[f]],
           \A f \in Fields : /\ was[f] \in Nat /\ is[f] \in Nat
                             /\ is[f] <= was[f] /\ was[f] <= is[f] + Spare[f] * gone
    PROVE  is \in FractionsLost(was, gone)
<1>1. /\ is["transfers"] = was["transfers"] /\ is["succeeded"] = was["succeeded"]
      /\ is["bytes"] = was["bytes"]
  <2>1. ASSUME NEW f \in Fields \ {"waited", "running"} PROVE is[f] = was[f]
    <3>1. Spare[f] = 0 /\ 0 * gone = 0
      BY DEF Spare
    <3> QED
      BY <3>1
  <2> QED
    BY <2>1 DEF Fields
<1>2. /\ is["waited"] \in was["waited"] - (PerSecond - 1) * gone .. was["waited"]
      /\ is["running"] \in was["running"] - (PerSecond - 1) * gone .. was["running"]
  <2>1. ASSUME NEW f \in {"waited", "running"}
        PROVE  is[f] \in was[f] - (PerSecond - 1) * gone .. was[f]
    <3>1. f \in Fields /\ Spare[f] = PerSecond - 1
      BY DEF Spare, Fields
    <3>2. PICK k \in Nat : k = (PerSecond - 1) * gone
      <4>1. PerSecond - 1 \in Nat
        BY TimeAssumption
      <4> QED
        BY <4>1
    <3> QED
      BY <3>1, <3>2
  <2> QED
    BY <2>1
<1>3. is = [transfers |-> is["transfers"], succeeded |-> is["succeeded"], bytes |-> is["bytes"],
            waited |-> is["waited"], running |-> is["running"]]
  BY DEF Fields
<1> QED
  BY <1>1, <1>2, <1>3 DEF FractionsLost

\* The rows that go are in the buckets they went to, and nowhere else.
LEMMA FractionsAreLost ==
    ASSUME TypeInv, TypeInv', TotalsAreSums, TotalsAreSums', PruneCommits, ReadAsItIs,
           NEW group, NEW key, NEW since \in DayBounds, NEW until \in DayBounds
    PROVE  Totals(group, key, since, until)' \in
             FractionsLost(Totals(group, key, since, until),
               Cardinality(RowsIn(group, key, since, until) \ RowsIn(group, key, since, until)'))
<1> DEFINE was == Totals(group, key, since, until)
           is == Totals(group, key, since, until)'
           gone == Cardinality(RowsIn(group, key, since, until)
                                 \ RowsIn(group, key, since, until)')
<1>1. ASSUME NEW f PROVE LiveOf(f)' = LiveOf(f)
  <2>1. row' = row
    BY DEF PruneCommits
  <2> QED
    BY <2>1 DEF LiveOf, Columns, DoneOf, WaitsOf, RunsOf, WaitOf, RunOf
<1>2. is = [f \in Fields |-> SumOver(LiveOf(f), RowsIn(group, key, since, until)')
                             + SumOver(StatsOf(f)', BucketsIn(group, key, since, until)')]
  BY <1>1 DEF TotalsAreSums, SumOver, Units
<1>3. was = [f \in Fields |-> SumOver(LiveOf(f), RowsIn(group, key, since, until))
                              + SumOver(StatsOf(f), BucketsIn(group, key, since, until))]
  BY DEF TotalsAreSums
<1> HIDE DEF was, is
<1>4. ASSUME NEW f \in Fields
      PROVE  /\ was[f] \in Nat /\ is[f] \in Nat /\ gone \in Nat
             /\ is[f] <= was[f] /\ was[f] <= is[f] + Spare[f] * gone
  BY <1>2, <1>3, PrunedIsRolledUp
<1>5. gone \in Nat
  BY <1>4 DEF Fields
<1>6. was = [f \in Fields |-> was[f]] /\ is = [f \in Fields |-> is[f]]
  BY <1>2, <1>3
<1> HIDE DEF gone
<1>7. is \in FractionsLost(was, gone)
  BY <1>4, <1>5, <1>6, WithinFractions
<1> QED
  BY <1>7 DEF was, is, gone

\* Whoever asks for whole days is told the same before and after rows are removed as they
\* were read (services/retention.py, services/reports.py), by whatever the report is
\* grouped, but for less than a second of every removed row's wait and run.
THEOREM TotalsSurvive == Spec => ReportsStay
<1>1. ASSUME TypeInv, TypeInv', TotalsAreSums, TotalsAreSums', [Next]_vars
      PROVE  [pruned' # pruned /\ (\A t \in DOMAIN pruning : pruning[t] = row[t]) =>
                \A group \in GroupBy, since, until \in DayBounds :
                  \A key \in Keys(group) :
                    Totals(group, key, since, until)' \in
                      FractionsLost(Totals(group, key, since, until),
                        Cardinality(RowsIn(group, key, since, until)
                                      \ RowsIn(group, key, since, until)'))]_vars
  <2>1. pruned' # pruned => PruneCommits
    BY <1>1 DEF Next, vars, rowVars, Submit, ChargeReads, ChargeLost, Start, Finish, Retry,
         EndReads, ChargeCommits, RefundReads, FailCommits, CancelCommits, EndCommits, Tick,
         PruneReads
  <2> QED
    BY <1>1, <2>1, FractionsAreLost DEF ReadAsItIs
<1>2. TypeInv => RowsOK /\ StatsOK
  BY DEF TypeInv
<1> QED
  BY <1>1, <1>2, TotalsSum, InitTyped, TypesStay, PTL DEF Spec, ReportsStay
=============================================================================
