--------------------------- MODULE SelectionProofs ---------------------------
(***************************************************************************)
(* What the operators of Selections choose, for every finite set and every *)
(* sequence.  There is no induction: ranks are cardinalities, members with *)
(* different ranks are as many as the set has, so every rank is somebody's. *)
(***************************************************************************)
EXTENDS Selections, FiniteSetTheorems, WellFoundedInduction, TLAPS

\* The members that do not come after a member: of two members, one is not
\* among the other's, and all of its own are.
Ranks(S, upto) ==
    /\ \A i \in S : i \in upto[i] /\ upto[i] \in SUBSET S
    /\ \A i, j \in S : i # j => \/ upto[i] \subseteq upto[j] /\ j \notin upto[i]
                                \/ upto[j] \subseteq upto[i] /\ i \notin upto[j]

\* Members have different ranks, from 1 to the number of members.
LEMMA RanksDiffer ==
    ASSUME NEW S, IsFiniteSet(S), NEW upto, Ranks(S, upto)
    PROVE  /\ Cardinality(S) \in Nat
           /\ \A i \in S : Cardinality(upto[i]) \in 1..Cardinality(S)
           /\ \A i, j \in S : i # j /\ upto[i] \subseteq upto[j]
                => Cardinality(upto[i]) < Cardinality(upto[j])
<1>1. Cardinality(S) \in Nat
  BY FS_CardinalityType
<1>2. ASSUME NEW i \in S
      PROVE  /\ IsFiniteSet(upto[i])
             /\ Cardinality(upto[i]) \in 1..Cardinality(S)
  <2>1. i \in upto[i] /\ upto[i] \in SUBSET S
    BY DEF Ranks
  <2>2. IsFiniteSet(upto[i]) /\ Cardinality(upto[i]) <= Cardinality(S)
    BY <2>1, FS_Subset
  <2>3. Cardinality(upto[i]) \in Nat /\ Cardinality(upto[i]) # 0
    BY <2>1, <2>2, FS_CardinalityType, FS_EmptySet
  <2> QED
    BY <1>1, <2>2, <2>3
<1>3. ASSUME NEW i \in S, NEW j \in S, i # j, upto[i] \subseteq upto[j]
      PROVE  Cardinality(upto[i]) < Cardinality(upto[j])
  <2>1. j \in upto[j] /\ j \notin upto[i]
    BY <1>3 DEF Ranks
  <2>2. upto[i] \in SUBSET upto[j] /\ upto[i] # upto[j]
    BY <1>3, <2>1
  <2>3. Cardinality(upto[i]) <= Cardinality(upto[j]) /\ Cardinality(upto[i]) # Cardinality(upto[j])
    BY <1>2, <2>2, FS_Subset
  <2> QED
    BY <1>2, <2>3
<1> QED
  BY <1>1, <1>2, <1>3

\* Every rank is a member's.
LEMMA RanksAreTaken ==
    ASSUME NEW S, IsFiniteSet(S), NEW upto, Ranks(S, upto), NEW k \in 1..Cardinality(S)
    PROVE  \E i \in S : Cardinality(upto[i]) = k
<1> DEFINE n == Cardinality(S)
           rank == [i \in S |-> Cardinality(upto[i])]
<1>1. n \in Nat /\ \A i \in S : rank[i] \in 1..n
  BY RanksDiffer
<1>2. ASSUME NEW i \in S, NEW j \in S, rank[i] = rank[j]
      PROVE  i = j
  <2>1. CASE i # j /\ upto[i] \subseteq upto[j]
    BY <1>1, <1>2, <2>1, RanksDiffer
  <2>2. CASE i # j /\ upto[j] \subseteq upto[i]
    BY <1>1, <1>2, <2>2, RanksDiffer
  <2> QED
    BY <2>1, <2>2 DEF Ranks
<1>3. rank \in [S -> 1..n]
  BY <1>1
<1>4. rank \in Injection(S, 1..n)
  BY <1>2, <1>3 DEF Injection, IsInjective
<1>5. IsFiniteSet(1..n) /\ Cardinality(1..n) = n
  BY <1>1, FS_Interval
<1> HIDE DEF rank, n
<1>6. rank \in Surjection(S, 1..n)
  BY <1>4, <1>5, FS_Injection DEF n
<1>7. \E i \in S : rank[i] = k
  BY <1>6 DEF Surjection, n
<1> QED
  BY <1>7 DEF rank

\* A ranking lists every member once, each at its rank.
LEMMA RankedIs ==
    ASSUME NEW S, IsFiniteSet(S), NEW upto, Ranks(S, upto)
    PROVE  /\ Ranked(S, upto) \in [1..Cardinality(S) -> S]
           /\ \A k \in 1..Cardinality(S) : Cardinality(upto[Ranked(S, upto)[k]]) = k
           /\ \A i \in S : Ranked(S, upto)[Cardinality(upto[i])] = i
<1> DEFINE n == Cardinality(S)
           At(k) == CHOOSE i \in S : Cardinality(upto[i]) = k
<1>1. \A k \in 1..n : At(k) \in S /\ Cardinality(upto[At(k)]) = k
  BY RanksAreTaken
<1>2. Ranked(S, upto) = [k \in 1..n |-> At(k)]
  BY DEF Ranked
<1>3. \A i \in S : Cardinality(upto[i]) \in 1..n
  BY RanksDiffer
<1> HIDE DEF At
<1>4. ASSUME NEW i \in S
      PROVE  At(Cardinality(upto[i])) = i
  <2> DEFINE j == At(Cardinality(upto[i]))
  <2>1. j \in S /\ Cardinality(upto[j]) = Cardinality(upto[i])
    BY <1>1, <1>3
  <2>2. Cardinality(upto[i]) \in Int
    BY <1>3, RanksDiffer
  <2> HIDE DEF j
  <2>3. CASE i # j /\ upto[i] \subseteq upto[j]
    BY <2>1, <2>2, <2>3, RanksDiffer
  <2>4. CASE i # j /\ upto[j] \subseteq upto[i]
    BY <2>1, <2>2, <2>4, RanksDiffer
  <2>5. i # j => upto[i] \subseteq upto[j] \/ upto[j] \subseteq upto[i]
    BY <2>1 DEF Ranks
  <2> QED
    BY <2>3, <2>4, <2>5 DEF j
<1> QED
  BY <1>1, <1>2, <1>3, <1>4

-----------------------------------------------------------------------------
(* Positions *)

LEMMA PositionsRank ==
    ASSUME NEW n \in Nat, NEW S \in SUBSET (1..n)
    PROVE  /\ IsFiniteSet(S)
           /\ Ranks(S, [i \in S |-> S \cap 1..i])
<1>1. IsFiniteSet(1..n)
  BY FS_Interval
<1>2. IsFiniteSet(S)
  BY <1>1, FS_Subset
<1> QED
  BY <1>2 DEF Ranks

\* order lists the positions in S, from the first to the last.
Lists(order, S) ==
    /\ order \in [1..Cardinality(S) -> S]
    /\ \A k, l \in 1..Cardinality(S) : k < l => order[k] < order[l]
    /\ \A i \in S : \E k \in 1..Cardinality(S) : order[k] = i

LEMMA AscendingIs ==
    ASSUME NEW n \in Nat, NEW S \in SUBSET (1..n)
    PROVE  Cardinality(S) \in Nat /\ Lists(Ascending(S), S)
<1> DEFINE upto == [i \in S |-> S \cap 1..i]
           order == Ascending(S)
           m == Cardinality(S)
<1>1. IsFiniteSet(S) /\ Ranks(S, upto)
  BY PositionsRank
<1>2. order = Ranked(S, upto)
  BY DEF Ascending
<1> HIDE DEF upto, order
<1>3. m \in Nat /\ order \in [1..m -> S]
  BY <1>1, <1>2, RankedIs, FS_CardinalityType
<1>4. /\ \A k \in 1..m : Cardinality(upto[order[k]]) = k
      /\ \A i \in S : order[Cardinality(upto[i])] = i
  BY <1>1, <1>2, RankedIs
<1>5. ASSUME NEW k \in 1..m, NEW l \in 1..m, k < l
      PROVE  order[k] < order[l]
  <2>1. /\ order[k] \in S /\ order[l] \in S
        /\ order[k] \in Int /\ order[l] \in Int
    <3>1. order[k] \in S /\ order[l] \in S
      BY <1>3
    <3>2. S \subseteq Int
      OBVIOUS
    <3> QED
      BY <3>1, <3>2
  <2>2. order[k] # order[l]
    BY <1>3, <1>4, <1>5
  <2>3. ASSUME order[l] < order[k]
        PROVE  FALSE
    <3>1. upto[order[l]] \subseteq upto[order[k]]
      <4>1. 1..order[l] \subseteq 1..order[k]
        BY <2>1, <2>3
      <4> QED
        BY <2>1, <4>1 DEF upto
    <3>2. l < k
      BY <1>1, <1>4, <2>1, <2>2, <3>1, RanksDiffer
    <3> QED
      BY <1>3, <1>5, <3>2
  <2> QED
    BY <2>1, <2>2, <2>3
<1>6. \A i \in S : Cardinality(upto[i]) \in 1..m
  BY <1>1, RanksDiffer
<1>7. \A i \in S : \E k \in 1..m : order[k] = i
  BY <1>4, <1>6
<1>8. Lists(order, S)
  BY <1>3, <1>5, <1>7 DEF Lists
<1> QED
  BY <1>3, <1>8 DEF order

LEMMA AscendingInterval ==
    ASSUME NEW a \in Nat \ {0}, NEW b \in Nat, a <= b + 1
    PROVE  /\ Cardinality(a..b) = b - a + 1
           /\ Ascending(a..b) = [k \in 1..(b - a + 1) |-> a + k - 1]
<1> DEFINE S == a..b
           upto == [i \in S |-> S \cap 1..i]
           order == Ascending(S)
<1>1. S \in SUBSET (1..b) /\ Cardinality(S) = b - a + 1
  <2>1. Cardinality(S) = IF a > b THEN 0 ELSE b - a + 1
    BY FS_Interval
  <2>2. S \in SUBSET (1..b)
    OBVIOUS
  <2> QED
    BY <2>1, <2>2
<1>2. IsFiniteSet(S) /\ Ranks(S, upto) /\ order = Ranked(S, upto)
  BY <1>1, PositionsRank DEF Ascending
<1>3. ASSUME NEW i \in S
      PROVE  Cardinality(upto[i]) = i - a + 1
  <2>1. upto[i] = a..i
    OBVIOUS
  <2>2. a \in Int /\ i \in Int /\ ~(a > i)
    OBVIOUS
  <2> QED
    BY <2>1, <2>2, FS_Interval
<1> HIDE DEF upto, order
<1>4. \A i \in S : order[i - a + 1] = i
  BY <1>2, <1>3, RankedIs
<1>5. order \in [1..(b - a + 1) -> S]
  BY <1>1, <1>2, RankedIs
<1>6. ASSUME NEW k \in 1..(b - a + 1)
      PROVE  order[k] = a + k - 1
  <2>1. a + k - 1 \in S /\ (a + k - 1) - a + 1 = k
    OBVIOUS
  <2> QED
    BY <1>4, <2>1
<1> QED
  BY <1>1, <1>5, <1>6 DEF order

-----------------------------------------------------------------------------
(* Elements of sequences *)

LEMMA PickedIs ==
    ASSUME NEW T, NEW s \in Seq(T), NEW S \in SUBSET (1..Len(s))
    PROVE  /\ Cardinality(S) \in Nat
           /\ Lists(Ascending(S), S)
           /\ Picked(s, S) \in Seq(T)
           /\ Len(Picked(s, S)) = Cardinality(S)
           /\ \A k \in 1..Cardinality(S) : Picked(s, S)[k] = s[Ascending(S)[k]]
<1> DEFINE n == Len(s)
<1>0. n \in Nat /\ S \in SUBSET (1..n)
  OBVIOUS
<1> HIDE DEF n
<1>1. Cardinality(S) \in Nat /\ Lists(Ascending(S), S)
  BY <1>0, AscendingIs
<1>2. Ascending(S) \in [1..Cardinality(S) -> S]
  BY <1>1 DEF Lists
<1>3. Picked(s, S) = [k \in 1..Cardinality(S) |-> s[Ascending(S)[k]]]
  BY <1>2 DEF Picked
<1>4. \A i \in S : s[i] \in T
  OBVIOUS
<1>5. \A k \in 1..Cardinality(S) : s[Ascending(S)[k]] \in T
  BY <1>2, <1>4
<1> HIDE DEF n
<1> QED
  BY <1>1, <1>3, <1>5

LEMMA PickFrom ==
    ASSUME NEW T, NEW s \in Seq(T), NEW a \in 1..(Len(s) + 1)
    PROVE  Picked(s, a..Len(s)) = SubSeq(s, a, Len(s))
<1>1. Ascending(a..Len(s)) = [k \in 1..(Len(s) - a + 1) |-> a + k - 1]
  BY AscendingInterval
<1>2. Picked(s, a..Len(s)) = [k \in 1..(Len(s) - a + 1) |-> s[a + k - 1]]
  BY <1>1 DEF Picked
<1> QED
  BY <1>2

LEMMA PickAll ==
    ASSUME NEW T, NEW s \in Seq(T)
    PROVE  Picked(s, 1..Len(s)) = s
<1>1. 1 \in 1..(Len(s) + 1) /\ SubSeq(s, 1, Len(s)) = s
  OBVIOUS
<1> QED
  BY <1>1, PickFrom

LEMMA PickNone ==
    ASSUME NEW s
    PROVE  Picked(s, {}) = << >>
<1>1. Cardinality({}) = 0
  BY FS_EmptySet
<1>2. DOMAIN Ascending({}) = {}
  BY <1>1 DEF Ascending, Ranked
<1> QED
  BY <1>2 DEF Picked

-----------------------------------------------------------------------------
(* The smallest of a set of numbers *)

LEMMA SmallestExists ==
    ASSUME NEW T, T \subseteq Nat, T # {}
    PROVE  \E x \in T : \A y \in T : x <= y
<1>1. PICK x \in T : \A y \in T : <<y, x>> \notin OpToRel(<, Nat)
  BY NatLessThanWellFounded, WFMin
<1>2. \A y \in T : ~(y < x)
  BY <1>1 DEF OpToRel
<1> QED
  BY <1>2

-----------------------------------------------------------------------------
(* What is picked *)

LEMMA PickedValues ==
    ASSUME NEW T, NEW s \in Seq(T), NEW S \in SUBSET (1..Len(s))
    PROVE  /\ \A k \in 1..Len(Picked(s, S)) : \E i \in S : Picked(s, S)[k] = s[i]
           /\ \A i \in S : \E k \in 1..Len(Picked(s, S)) : Picked(s, S)[k] = s[i]
<1>1. /\ Lists(Ascending(S), S)
      /\ Len(Picked(s, S)) = Cardinality(S)
      /\ \A k \in 1..Cardinality(S) : Picked(s, S)[k] = s[Ascending(S)[k]]
  BY PickedIs
<1>2. /\ \A k \in 1..Cardinality(S) : Ascending(S)[k] \in S
      /\ \A i \in S : \E k \in 1..Cardinality(S) : Ascending(S)[k] = i
  BY <1>1 DEF Lists
<1> DEFINE n == Cardinality(S)
           picked == Picked(s, S)
           order == Ascending(S)
<1>3. /\ \A k \in 1..n : order[k] \in S /\ picked[k] = s[order[k]]
      /\ \A i \in S : \E k \in 1..n : order[k] = i
  BY <1>1, <1>2
<1>4. Len(picked) = n
  BY <1>1
<1> HIDE DEF n, picked, order
<1>5. ASSUME NEW k \in 1..n
      PROVE  \E i \in S : picked[k] = s[i]
  <2>1. order[k] \in S /\ picked[k] = s[order[k]]
    BY <1>3
  <2> QED
    BY <2>1
<1>6. ASSUME NEW i \in S
      PROVE  \E k \in 1..n : picked[k] = s[i]
  <2>1. PICK k \in 1..n : order[k] = i
    BY <1>3
  <2>2. picked[k] = s[i]
    BY <1>3, <2>1
  <2> QED
    BY <2>2
<1> QED
  BY <1>4, <1>5, <1>6 DEF picked
=============================================================================
