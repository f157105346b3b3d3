---------------------------- MODULE IndexLemmas ----------------------------
(***************************************************************************)
(* Least and greatest elements of finite sets of naturals: the first and   *)
(* the last index of a sequence with some property.                        *)
(***************************************************************************)
EXTENDS Naturals, SequencesExt, FiniteSetTheorems, WellFoundedInduction, TLAPS

\* A non-empty finite set of naturals has its minimum, by the finiteness of
\* its initial segments.
LEMMA HasMinimum ==
  ASSUME NEW S \in SUBSET Nat, IsFiniteSet(S), S # {}
  PROVE  \E i \in S : \A j \in S : i =< j
<1> DEFINE upTo(i) == {j \in S : j =< i}
           segments == {upTo(i) : i \in S}
<1>1. IsWellFoundedOn(StrictSubsetOrdering(S), FiniteSubsetsOf(S))
  BY FS_StrictSubsetOrderingWellFounded
<1>2. ASSUME NEW i \in S PROVE upTo(i) \in FiniteSubsetsOf(S)
  <2>1. upTo(i) \in SUBSET S
    OBVIOUS
  <2>2. IsFiniteSet(upTo(i))
    BY <2>1, FS_Subset
  <2> QED
    BY <2>1, <2>2 DEF FiniteSubsetsOf
<1>3. segments \subseteq FiniteSubsetsOf(S) /\ segments # {}
  BY <1>2
<1>4. PICK i \in S : \A j \in S : ~(<<upTo(j), upTo(i)>> \in StrictSubsetOrdering(S))
  <2>1. \E A \in segments : \A B \in segments : ~(<<B, A>> \in StrictSubsetOrdering(S))
    BY <1>1, <1>3, WFMin
  <2> QED
    BY <2>1
<1>5. ASSUME NEW j \in S, j < i PROVE FALSE
  <2>1. upTo(j) \in SUBSET S /\ upTo(i) \in SUBSET S
    OBVIOUS
  <2> j \in Nat /\ i \in Nat /\ \A k \in S : k \in Nat
    OBVIOUS
  <2>2. /\ \A k \in S : k =< j => k =< i
        /\ i =< i /\ ~(i =< j)
    BY <1>5
  <2>3. upTo(j) \subseteq upTo(i) /\ i \in upTo(i) /\ i \notin upTo(j)
    BY <2>2, Zenon
  <2>4. <<upTo(j), upTo(i)>> \in StrictSubsetOrdering(S)
    BY <2>1, <2>3, Zenon DEF StrictSubsetOrdering
  <2> QED
    BY <1>4, <2>4
<1>6. \A j \in S : i =< j
  BY <1>5
<1> QED
  BY <1>6

LEMMA MinIsMember ==
  ASSUME NEW S \in SUBSET Nat, IsFiniteSet(S), S # {}
  PROVE  Min(S) \in S
  BY HasMinimum DEF Min

\* So a non-empty set of indices has a largest one: the one that is the least
\* far from the end.
LEMMA HasMaximum ==
  ASSUME NEW n \in Nat, NEW S \in SUBSET (1..n), S # {}
  PROVE  \E i \in S : \A j \in S : j =< i
<1> DEFINE T == {k \in 0..n : n - k \in S}
<1>1. T \in SUBSET Nat
  OBVIOUS
<1>2. T # {}
  <2>1. PICK i \in S : TRUE
    OBVIOUS
  <2>2. n - i \in T
    BY <2>1
  <2> QED
    BY <2>2
<1>3. IsFiniteSet(T)
  <2>1. IsFiniteSet(0..n)
    BY FS_Interval
  <2> QED
    BY <2>1, FS_Subset
<1>4. PICK k \in T : \A m \in T : k =< m
  <2> HIDE DEF T
  <2> QED
    BY <1>1, <1>2, <1>3, HasMinimum
<1>5. ASSUME NEW j \in S PROVE j =< n - k
  <2>1. n - j \in T
    OBVIOUS
  <2>2. k =< n - j
    BY <1>4, <2>1
  <2> QED
    BY <2>2
<1> QED
  BY <1>5
=============================================================================
