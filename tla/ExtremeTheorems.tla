---------------------------- MODULE ExtremeTheorems ----------------------------
(***************************************************************************)
(* Numbers up to a bound: a nonempty set of them has a least and a         *)
(* greatest element, and what starts at 0 and goes from each to the next   *)
(* holds of them all, a property or a function's definition.               *)
(***************************************************************************)
EXTENDS Integers, FiniteSetTheorems, TLAPS

(* A nonempty set of numbers up to n has a least element.                  *)
LEMMA LeastInRange ==
  ASSUME NEW n \in Nat, NEW S \in SUBSET (0 .. n), S # {}
  PROVE  \E k \in S : \A j \in 0 .. k - 1 : j \notin S
<1> DEFINE R == StrictSubsetOrdering(0 .. n)
           T == {0 .. k : k \in S}
<1>1. IsWellFoundedOn(R, FiniteSubsetsOf(0 .. n))
  BY FS_StrictSubsetOrderingWellFounded
<1>2. FiniteSubsetsOf(0 .. n) = SUBSET (0 .. n)
  <2>1. IsFiniteSet(0 .. n)
    BY FS_Interval
  <2> QED
    BY <2>1, FS_FiniteSubsetsOfFinite
<1>3. \A k \in S : 0 .. k \in SUBSET (0 .. n)
  OBVIOUS
<1>4. T \subseteq SUBSET (0 .. n) /\ T # {}
  BY <1>3
<1>5. \E x \in T : \A y \in T : ~ (<<y, x>> \in R)
  <2> HIDE DEF R, T
  <2> QED BY <1>1, <1>2, <1>4, WFMin
<1>6. PICK k \in S : \A j \in S : ~ (<<0 .. j, 0 .. k>> \in R)
  BY <1>5
<1>7. ASSUME NEW j \in 0 .. k - 1, j \in S PROVE FALSE
  <2>1. k \in 0 .. k /\ k \notin 0 .. j /\ 0 .. j \subseteq 0 .. k
    OBVIOUS
  <2> QED
    BY <1>3, <1>6, <1>7, <2>1 DEF StrictSubsetOrdering
<1> QED
  BY <1>7

LEMMA GreatestInRange ==
  ASSUME NEW n \in Nat, NEW S \in SUBSET (0 .. n), S # {}
  PROVE  \E k \in S : \A j \in S : j <= k
<1> DEFINE T == {n - k : k \in S}
<1>1. T \in SUBSET (0 .. n) /\ T # {}
  <2>1. \A k \in S : n - k \in 0 .. n
    OBVIOUS
  <2>2. PICK k \in S : TRUE
    OBVIOUS
  <2> QED
    BY <2>1, <2>2
<1>2. PICK t \in T : \A j \in 0 .. t - 1 : j \notin T
  <2> HIDE DEF T
  <2> QED BY <1>1, LeastInRange
<1>3. PICK k \in S : t = n - k
  BY <1>2
<1>4. ASSUME NEW j \in S PROVE j <= k
  <2>1. n - j \in T /\ n - j \in Nat /\ j \in Int /\ k \in Int
    BY <1>1
  <2>2. n - j \notin 0 .. t - 1
    BY <1>2, <2>1
  <2> QED
    BY <1>3, <2>1, <2>2
<1> QED
  BY <1>4

(* What holds of 0 and goes from each number to the next holds up to n.    *)
LEMMA InductionUpTo ==
  ASSUME NEW n \in Nat, NEW S, 0 \in S, \A i \in 0 .. n : i \in S /\ i < n => i + 1 \in S
  PROVE  \A i \in 0 .. n : i \in S
<1> DEFINE Others == {i \in 0 .. n : i \notin S}
<1>1. SUFFICES ASSUME Others # {} PROVE FALSE
  OBVIOUS
<1>2. PICK k \in Others : \A j \in 0 .. k - 1 : j \notin Others
  <2>1. Others \in SUBSET (0 .. n)
    OBVIOUS
  <2> HIDE DEF Others
  <2> QED
    BY <1>1, <2>1, LeastInRange
<1>3. k # 0 /\ k \in 0 .. n /\ k \notin S
  BY <1>2
<1>4. k - 1 \in 0 .. n /\ k - 1 \in 0 .. k - 1 /\ k - 1 < n /\ (k - 1) + 1 = k
  BY <1>3
<1>5. k - 1 \in S
  BY <1>2, <1>4
<1> QED
  BY <1>3, <1>4, <1>5

(* A function on the numbers up to n is given by its value at 0 and the    *)
(* step that makes each further value.                                     *)
Follows(f, n, a, step) == f[0] = a /\ \A i \in 1 .. n : f[i] = step[i][f[i - 1]]

LEMMA RecursionUpTo ==
  ASSUME NEW n \in Nat, NEW V, NEW a \in V, NEW step \in [1 .. n -> [V -> V]]
  PROVE  \E f \in [0 .. n -> V] : Follows(f, n, a, step)
<1> DEFINE S == {m \in 0 .. n : \E f \in [0 .. m -> V] : Follows(f, m, a, step)}
<1>1. 0 \in S
  <2> DEFINE f == [i \in 0 .. 0 |-> a]
  <2>1. f \in [0 .. 0 -> V] /\ Follows(f, 0, a, step)
    BY DEF Follows
  <2> QED
    BY <2>1
<1>2. ASSUME NEW m \in 0 .. n, m \in S, m < n PROVE m + 1 \in S
  <2>1. PICK f \in [0 .. m -> V] : Follows(f, m, a, step)
    BY <1>2
  <2> DEFINE g == [i \in 0 .. m + 1 |-> IF i = m + 1 THEN step[m + 1][f[m]] ELSE f[i]]
  <2>2. m + 1 \in 1 .. n /\ m \in 0 .. m
    BY <1>2
  <2>3. step[m + 1][f[m]] \in V
    BY <2>2
  <2>4. g \in [0 .. m + 1 -> V]
    BY <2>3
  <2>5. g[0] = a
    BY <2>1 DEF Follows
  <2>6. ASSUME NEW i \in 1 .. m + 1 PROVE g[i] = step[i][g[i - 1]]
    <3>1. CASE i = m + 1
      <4>1. g[m] = f[m] /\ i - 1 = m /\ g[i] = step[m + 1][f[m]]
        BY <3>1
      <4> HIDE DEF g
      <4> QED
        BY <3>1, <4>1
    <3>2. CASE i \in 1 .. m
      <4>1. g[i] = f[i] /\ g[i - 1] = f[i - 1]
        BY <3>2
      <4> QED
        BY <2>1, <3>2, <4>1 DEF Follows
    <3> QED
      BY <3>1, <3>2
  <2>7. Follows(g, m + 1, a, step)
    <3> HIDE DEF g
    <3> QED
      BY <2>5, <2>6 DEF Follows
  <2>8. m + 1 \in 0 .. n
    BY <1>2
  <2> QED
    BY <2>4, <2>7, <2>8
<1>3. \A i \in 0 .. n : i \in S
  <2> HIDE DEF S
  <2> QED
    BY <1>1, <1>2, InductionUpTo
<1> QED
  BY <1>3
=============================================================================
