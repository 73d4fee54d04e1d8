-------------------------------- MODULE Sums ---------------------------------
(***************************************************************************)
(* Sums of numbers over finite sets.                                       *)
(*                                                                         *)
(* A sum is the number of units it counts, so that what is known of        *)
(* cardinalities is known of sums: what an element more adds to one, and   *)
(* that it grows with its set.  That the recursion by which a sum is       *)
(* defined comes to that number is shown by a smallest counterexample.     *)
(***************************************************************************)
EXTENDS Integers, FiniteSets, FiniteSetsExt, FiniteSetTheorems, WellFoundedInduction, TLAPS

\* What v gives to the elements of s, unit by unit.
Units(v, s) == {p \in s \X Nat : p[2] < v[p[1]]}

SumOver(v, s) == Cardinality(Units(v, s))

\* A function that gives numbers to the elements of a finite set.
Summable(v, S) == IsFiniteSet(S) /\ \A x \in S : v[x] \in Nat

\* An element more adds its units to the others'.
LEMMA UnitsStep ==
    ASSUME NEW v, NEW s, NEW x \in s, v[x] \in Nat, IsFiniteSet(Units(v, s \ {x}))
    PROVE  /\ IsFiniteSet(Units(v, s))
           /\ Cardinality(Units(v, s)) = v[x] + Cardinality(Units(v, s \ {x}))
<1> DEFINE upto == 0 .. v[x] - 1
           own == {x} \X upto
<1>1. IsFiniteSet(own) /\ Cardinality(own) = v[x]
  <2>1. IsFiniteSet({x}) /\ Cardinality({x}) = 1
    BY FS_Singleton
  <2>2. IsFiniteSet(upto) /\ Cardinality(upto) = v[x]
    <3>1. 0 \in Int /\ v[x] - 1 \in Int
      OBVIOUS
    <3>2. /\ IsFiniteSet(0 .. v[x] - 1)
          /\ Cardinality(0 .. v[x] - 1) = IF 0 > v[x] - 1 THEN 0 ELSE (v[x] - 1) - 0 + 1
      BY <3>1, FS_Interval, ZenonT(60)
    <3> QED
      BY <3>2
  <2> HIDE DEF upto
  <2>3. /\ IsFiniteSet({x} \X upto)
        /\ Cardinality({x} \X upto) = Cardinality({x}) * Cardinality(upto)
    BY <2>1, <2>2, FS_Product, ZenonT(60)
  <2> QED
    BY <2>1, <2>2, <2>3
<1>2. Units(v, s) = own \cup Units(v, s \ {x})
  BY DEF Units
<1>3. own \cap Units(v, s \ {x}) = {}
  BY DEF Units
<1> HIDE DEF own
<1>4. /\ IsFiniteSet(Units(v, s))
      /\ Cardinality(Units(v, s)) =
           Cardinality(own) + Cardinality(Units(v, s \ {x})) - Cardinality({})
  BY <1>1, <1>2, <1>3, FS_Union, ZenonT(60)
<1>5. Cardinality(Units(v, s \ {x})) \in Nat /\ Cardinality({}) = 0
  BY FS_CardinalityType, FS_EmptySet
<1> QED
  BY <1>1, <1>4, <1>5

\* By a smallest counterexample.
LEMMA UnitsFinite ==
    ASSUME NEW S, IsFiniteSet(S), NEW v, \A x \in S : v[x] \in Nat
    PROVE  \A s \in SUBSET S : IsFiniteSet(Units(v, s))
<1> DEFINE bad == {s \in SUBSET S : ~IsFiniteSet(Units(v, s))}
<1>1. SUFFICES ASSUME bad # {} PROVE FALSE
  OBVIOUS
<1>2. bad \subseteq FiniteSubsetsOf(S)
  BY FS_FiniteSubsetsOfFinite
<1>3. PICK s \in bad : \A r \in bad : <<r, s>> \notin StrictSubsetOrdering(S)
  BY <1>1, <1>2, FS_StrictSubsetOrderingWellFounded, WFMin
<1>4. s # {}
  <2>1. Units(v, {}) = {}
    BY DEF Units
  <2> QED
    BY <2>1, FS_EmptySet
<1>5. PICK x \in s : TRUE
  BY <1>4
<1>6. s \ {x} \notin bad
  BY <1>3, <1>5 DEF StrictSubsetOrdering
<1> QED
  BY <1>5, <1>6, UnitsStep

\* A sum is a number.
LEMMA SumIsNat ==
    ASSUME NEW S, NEW v, Summable(v, S)
    PROVE  SumOver(v, S) \in Nat
BY UnitsFinite, FS_CardinalityType DEF Summable, SumOver

\* Nothing sums to nothing.
LEMMA SumOfNone == \A v : SumOver(v, {}) = 0
<1>1. \A v : Units(v, {}) = {}
  BY DEF Units
<1> QED
  BY <1>1, FS_EmptySet DEF SumOver

\* An element counts for what it is given.
LEMMA SumWithout ==
    ASSUME NEW S, NEW v, Summable(v, S), NEW x \in S
    PROVE  /\ Summable(v, S \ {x})
           /\ SumOver(v, S) = v[x] + SumOver(v, S \ {x})
<1>1. Summable(v, S \ {x})
  BY FS_RemoveElement DEF Summable
<1>2. v[x] \in Nat /\ IsFiniteSet(Units(v, S \ {x}))
  BY UnitsFinite DEF Summable
<1> QED
  BY <1>1, <1>2, UnitsStep DEF SumOver

\* A part sums to no more than the whole.
LEMMA SumOfPart ==
    ASSUME NEW S, NEW v, Summable(v, S), NEW T \in SUBSET S
    PROVE  Summable(v, T) /\ SumOver(v, T) <= SumOver(v, S)
<1>1. Summable(v, T)
  BY FS_Subset DEF Summable
<1>2. IsFiniteSet(Units(v, S)) /\ Units(v, T) \in SUBSET Units(v, S)
  BY UnitsFinite DEF Summable, Units
<1> QED
  BY <1>1, <1>2, FS_Subset DEF SumOver

\* Only what the elements are given counts.
LEMMA SumAgrees ==
    ASSUME NEW S, NEW v, NEW w, \A x \in S : w[x] = v[x]
    PROVE  SumOver(w, S) = SumOver(v, S)
<1>1. Units(w, S) = Units(v, S)
  BY DEF Units
<1> QED
  BY <1>1 DEF SumOver

-----------------------------------------------------------------------------
(* Sums by recursion.                                                      *)

\* The recursion by which MapThenSumSet is defined.
Adds(sum, v, S) ==
    sum = [s \in SUBSET S |->
             IF s = {} THEN 0
             ELSE v[CHOOSE x \in s : TRUE] + sum[s \ {CHOOSE x \in s : TRUE}]]

\* There is a function that the recursion describes.
LEMMA RecursionExists ==
    ASSUME NEW S, NEW v, Summable(v, S)
    PROVE  Adds([s \in SUBSET S |-> SumOver(v, s)], v, S)
<1> DEFINE sum == [s \in SUBSET S |-> SumOver(v, s)]
<1>1. sum[{}] = 0
  BY SumOfNone
<1>2. ASSUME NEW s \in SUBSET S, s # {}
      PROVE  sum[s] = v[CHOOSE x \in s : TRUE] + sum[s \ {CHOOSE x \in s : TRUE}]
  <2>1. (CHOOSE x \in s : TRUE) \in s
    BY <1>2
  <2>2. Summable(v, s)
    BY SumOfPart
  <2> QED
    BY <2>1, <2>2, SumWithout
<1> QED
  BY <1>1, <1>2 DEF Adds

\* There is no other.
LEMMA RecursionSums ==
    ASSUME NEW S, NEW v, Summable(v, S), NEW sum, Adds(sum, v, S)
    PROVE  sum[S] = SumOver(v, S)
<1> DEFINE bad == {s \in SUBSET S : sum[s] # SumOver(v, s)}
<1>1. SUFFICES ASSUME bad # {} PROVE FALSE
  OBVIOUS
<1>2. bad \subseteq FiniteSubsetsOf(S)
  BY FS_FiniteSubsetsOfFinite DEF Summable
<1>3. PICK s \in bad : \A r \in bad : <<r, s>> \notin StrictSubsetOrdering(S)
  BY <1>1, <1>2, FS_StrictSubsetOrderingWellFounded, WFMin
<1>4. s # {}
  BY SumOfNone DEF Adds
<1>5. PICK x \in s : x = CHOOSE y \in s : TRUE
  BY <1>4
<1>6. s \ {x} \notin bad
  <2>1. <<s \ {x}, s>> \in StrictSubsetOrdering(S)
    BY <1>5 DEF StrictSubsetOrdering
  <2> QED
    BY <1>3, <2>1
<1>7. sum[s] = v[x] + sum[s \ {x}]
  BY <1>4, <1>5 DEF Adds
<1>8. SumOver(v, s) = v[x] + SumOver(v, s \ {x})
  BY SumOfPart, SumWithout
<1> QED
  BY <1>6, <1>7, <1>8

-----------------------------------------------------------------------------
(* Sums of sums.                                                           *)

\* A set that is no counterexample, because no smaller one is.
LEMMA SmallestBad ==
    ASSUME NEW S, IsFiniteSet(S), NEW bad \in SUBSET SUBSET S, bad # {}
    PROVE  \E s \in bad : \A x \in s : s \ {x} \notin bad
<1>1. bad \subseteq FiniteSubsetsOf(S)
  BY FS_FiniteSubsetsOfFinite
<1>2. PICK s \in bad : \A r \in bad : <<r, s>> \notin StrictSubsetOrdering(S)
  BY <1>1, FS_StrictSubsetOrderingWellFounded, WFMin
<1>3. \A x \in s : <<s \ {x}, s>> \in StrictSubsetOrdering(S)
  BY DEF StrictSubsetOrdering
<1> QED
  BY <1>2, <1>3

\* What has no part in common sums to both.
LEMMA SumOfBoth ==
    ASSUME NEW A, NEW B, NEW v, A \cap B = {}, Summable(v, A \cup B)
    PROVE  SumOver(v, A \cup B) = SumOver(v, A) + SumOver(v, B)
<1>1. IsFiniteSet(Units(v, A)) /\ IsFiniteSet(Units(v, B))
  BY UnitsFinite DEF Summable
<1>2. Units(v, A \cup B) = Units(v, A) \cup Units(v, B) /\ Units(v, A) \cap Units(v, B) = {}
  BY DEF Units
<1>3. Cardinality(Units(v, A) \cup Units(v, B)) =
        Cardinality(Units(v, A)) + Cardinality(Units(v, B))
          - Cardinality(Units(v, A) \cap Units(v, B))
  BY <1>1, FS_Union
<1>4. Cardinality({}) = 0 /\ Cardinality(Units(v, A)) \in Nat /\ Cardinality(Units(v, B)) \in Nat
  BY <1>1, FS_EmptySet, FS_CardinalityType
<1>5. /\ SumOver(v, A \cup B) = Cardinality(Units(v, A) \cup Units(v, B))
      /\ Cardinality(Units(v, A) \cap Units(v, B)) = 0
  BY <1>2, <1>4, Zenon DEF SumOver
<1> QED
  BY <1>3, <1>4, <1>5 DEF SumOver

\* Elements that are given nothing may be left out.
LEMMA SumOfRest ==
    ASSUME NEW S, NEW T \in SUBSET S, NEW v, \A x \in S \ T : v[x] = 0
    PROVE  SumOver(v, S) = SumOver(v, T)
<1>1. Units(v, S) = Units(v, T)
  BY DEF Units
<1> QED
  BY <1>1 DEF SumOver

\* Elements that count for one each.
LEMMA SumOfOnes ==
    ASSUME NEW S, IsFiniteSet(S), NEW T \in SUBSET S, NEW v,
           \A x \in S : v[x] = IF x \in T THEN 1 ELSE 0
    PROVE  SumOver(v, S) = Cardinality(T)
<1>1. Units(v, S) = T \X {0}
  BY DEF Units
<1>2. IsFiniteSet(T) /\ IsFiniteSet({0}) /\ Cardinality({0}) = 1 /\ Cardinality(T) \in Nat
  BY FS_Subset, FS_Singleton, FS_CardinalityType
<1>3. Cardinality(T \X {0}) = Cardinality(T) * 1
  BY <1>2, FS_Product, Zenon
<1> QED
  BY <1>1, <1>2, <1>3 DEF SumOver

\* What is given twice sums to both sums.
LEMMA SumOfSums ==
    ASSUME NEW S, NEW v, NEW w, NEW z, Summable(v, S), Summable(w, S),
           \A x \in S : z[x] = v[x] + w[x]
    PROVE  Summable(z, S) /\ SumOver(z, S) = SumOver(v, S) + SumOver(w, S)
<1> DEFINE bad == {s \in SUBSET S : SumOver(z, s) # SumOver(v, s) + SumOver(w, s)}
<1>1. Summable(z, S)
  BY DEF Summable
<1>2. ASSUME bad # {} PROVE FALSE
  <2>1. PICK s \in bad : \A x \in s : s \ {x} \notin bad
    BY <1>2, SmallestBad DEF Summable
  <2>2. s # {}
    BY SumOfNone
  <2>3. PICK x \in s : TRUE
    BY <2>2
  <2>4. SumOver(z, s \ {x}) = SumOver(v, s \ {x}) + SumOver(w, s \ {x})
    BY <2>1, <2>3
  <2>5. Summable(v, s) /\ Summable(w, s) /\ Summable(z, s)
    BY <1>1, SumOfPart
  <2>6. /\ SumOver(v, s) = v[x] + SumOver(v, s \ {x})
        /\ SumOver(w, s) = w[x] + SumOver(w, s \ {x})
        /\ SumOver(z, s) = z[x] + SumOver(z, s \ {x})
    BY <2>3, <2>5, SumWithout
  <2>7. SumOver(v, s \ {x}) \in Nat /\ SumOver(w, s \ {x}) \in Nat
    BY <2>3, <2>5, SumWithout, SumIsNat
  <2>8. v[x] \in Nat /\ w[x] \in Nat /\ z[x] = v[x] + w[x]
    BY <2>3 DEF Summable
  <2>9. SumOver(z, s) = SumOver(v, s) + SumOver(w, s)
    BY <2>4, <2>6, <2>7, <2>8
  <2> QED
    BY <2>1, <2>9
<1>3. SumOver(z, S) = SumOver(v, S) + SumOver(w, S)
  BY <1>2
<1> QED
  BY <1>1, <1>3

\* What is given many times over sums to as many sums.
LEMMA SumOfMultiples ==
    ASSUME NEW S, NEW v, NEW z, NEW m \in Nat, Summable(v, S), \A x \in S : z[x] = m * v[x]
    PROVE  Summable(z, S) /\ SumOver(z, S) = m * SumOver(v, S)
<1> DEFINE bad == {s \in SUBSET S : SumOver(z, s) # m * SumOver(v, s)}
<1>1. Summable(z, S)
  BY DEF Summable
<1>2. ASSUME bad # {} PROVE FALSE
  <2>1. PICK s \in bad : \A x \in s : s \ {x} \notin bad
    BY <1>2, SmallestBad DEF Summable
  <2>2. s # {}
    <3>1. SumOver(z, {}) = 0 /\ SumOver(v, {}) = 0
      BY SumOfNone
    <3>2. m * 0 = 0
      OBVIOUS
    <3>3. {} \notin bad
      BY <3>1, <3>2
    <3> QED
      BY <2>1, <3>3
  <2>3. PICK x \in s : TRUE
    BY <2>2
  <2>4. SumOver(z, s \ {x}) = m * SumOver(v, s \ {x})
    BY <2>1, <2>3
  <2>5. Summable(v, s) /\ Summable(z, s)
    BY <1>1, SumOfPart
  <2>6. /\ SumOver(v, s) = v[x] + SumOver(v, s \ {x})
        /\ SumOver(z, s) = z[x] + SumOver(z, s \ {x})
    BY <2>3, <2>5, SumWithout
  <2>7. SumOver(v, s \ {x}) \in Nat /\ v[x] \in Nat /\ z[x] = m * v[x]
    BY <2>3, <2>5, SumWithout, SumIsNat DEF Summable
  <2>8. m * (v[x] + SumOver(v, s \ {x})) = m * v[x] + m * SumOver(v, s \ {x})
    BY <2>7
  <2>9. SumOver(z, s) = m * SumOver(v, s)
    BY <2>4, <2>6, <2>7, <2>8
  <2> QED
    BY <2>1, <2>9
<1>3. SumOver(z, S) = m * SumOver(v, S)
  BY <1>2
<1> QED
  BY <1>1, <1>3

\* What is given a little less sums to less by no more than that for every element.
LEMMA SumOfLess ==
    ASSUME NEW S, NEW v, NEW w, NEW k \in Nat, Summable(v, S), Summable(w, S),
           \A x \in S : v[x] <= w[x] /\ w[x] <= v[x] + k
    PROVE  /\ SumOver(v, S) <= SumOver(w, S)
           /\ SumOver(w, S) <= SumOver(v, S) + k * Cardinality(S)
<1> DEFINE Near(s) == /\ SumOver(v, s) <= SumOver(w, s)
                      /\ SumOver(w, s) <= SumOver(v, s) + k * Cardinality(s)
           bad == {s \in SUBSET S : ~Near(s)}
<1>1. ASSUME bad # {} PROVE FALSE
  <2>1. PICK s \in bad : \A x \in s : s \ {x} \notin bad
    BY <1>1, SmallestBad DEF Summable
  <2>2. s # {}
    <3>1. SumOver(v, {}) = 0 /\ SumOver(w, {}) = 0 /\ Cardinality({}) = 0
      BY SumOfNone, FS_EmptySet
    <3>2. Near({})
      BY <3>1
    <3> QED
      BY <2>1, <3>2
  <2>3. PICK x \in s : TRUE
    BY <2>2
  <2>4. Near(s \ {x})
    BY <2>1, <2>3
  <2>5. Summable(v, s) /\ Summable(w, s)
    BY SumOfPart
  <2>6. /\ SumOver(v, s) = v[x] + SumOver(v, s \ {x})
        /\ SumOver(w, s) = w[x] + SumOver(w, s \ {x})
        /\ SumOver(v, s \ {x}) \in Nat /\ SumOver(w, s \ {x}) \in Nat
    BY <2>3, <2>5, SumWithout, SumIsNat
  <2>7. v[x] \in Nat /\ w[x] \in Nat /\ v[x] <= w[x] /\ w[x] <= v[x] + k
    BY <2>3 DEF Summable
  <2>8. /\ Cardinality(s) = Cardinality(s \ {x}) + 1 /\ Cardinality(s \ {x}) \in Nat
    <3>1. IsFiniteSet(s) /\ IsFiniteSet(s \ {x})
      BY <2>5, FS_RemoveElement DEF Summable
    <3> QED
      BY <2>3, <3>1, FS_RemoveElement, FS_CardinalityType
  <2>9. k * Cardinality(s) = k * Cardinality(s \ {x}) + k /\ k * Cardinality(s \ {x}) \in Nat
    BY <2>8
  <2>10. Near(s)
    BY <2>4, <2>6, <2>7, <2>9
  <2> QED
    BY <2>1, <2>10
<1>2. Near(S)
  BY <1>1
<1> QED
  BY <1>2

\* The elements of S that g puts into a group, and into one of some groups.
Group(S, g, b) == {x \in S : g[x] = b}

Grouped(S, g, groups) == {x \in S : g[x] \in groups}

\* Elements that are summed up group by group.
LEMMA SumOfGroups ==
    ASSUME NEW S, NEW v, Summable(v, S), NEW G, IsFiniteSet(G), NEW g, NEW sums,
           \A b \in G : sums[b] = SumOver(v, Group(S, g, b))
    PROVE  Summable(sums, G) /\ SumOver(sums, G) = SumOver(v, Grouped(S, g, G))
<1> DEFINE In(s) == Grouped(S, g, s)
           Own(b) == Group(S, g, b)
           bad == {s \in SUBSET G : SumOver(sums, s) # SumOver(v, In(s))}
<1>1. Summable(sums, G)
  <2>1. \A b \in G : Summable(v, Own(b))
    BY SumOfPart DEF Grouped, Group
  <2> QED
    BY <2>1, SumIsNat DEF Summable
<1>2. ASSUME bad # {} PROVE FALSE
  <2>1. PICK s \in bad : \A b \in s : s \ {b} \notin bad
    BY <1>2, SmallestBad
  <2>2. s # {}
    <3>1. In({}) = {}
      BY DEF Grouped, Group
    <3> QED
      BY <3>1, SumOfNone
  <2>3. PICK b \in s : TRUE
    BY <2>2
  <2>4. SumOver(sums, s \ {b}) = SumOver(v, In(s \ {b}))
    BY <2>1, <2>3
  <2>5. Summable(sums, s)
    BY <1>1, SumOfPart
  <2>6. SumOver(sums, s) = sums[b] + SumOver(sums, s \ {b})
    BY <2>3, <2>5, SumWithout
  <2>7. SumOver(v, In(s)) = SumOver(v, Own(b)) + SumOver(v, In(s \ {b}))
    <3>1. In(s) = Own(b) \cup In(s \ {b}) /\ Own(b) \cap In(s \ {b}) = {}
      BY <2>3 DEF Grouped, Group
    <3>2. In(s) \in SUBSET S
      BY DEF Grouped, Group
    <3> HIDE DEF In, Own
    <3>3. Summable(v, Own(b) \cup In(s \ {b}))
      BY <3>1, <3>2, SumOfPart
    <3>4. SumOver(v, Own(b) \cup In(s \ {b})) = SumOver(v, Own(b)) + SumOver(v, In(s \ {b}))
      BY <3>1, <3>3, SumOfBoth
    <3> QED
      BY <3>1, <3>4
  <2>8. sums[b] = SumOver(v, Own(b))
    BY <2>3
  <2> HIDE DEF In, Own
  <2>9. SumOver(sums, s) = SumOver(v, In(s))
    BY <2>4, <2>6, <2>7, <2>8
  <2> QED
    BY <2>1, <2>9
<1>3. SumOver(sums, G) = SumOver(v, In(G))
  BY <1>2
<1> QED
  BY <1>1, <1>3
=============================================================================
