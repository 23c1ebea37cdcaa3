------------------------------ MODULE Iteration ------------------------------
(***************************************************************************)
(* Loops as recursive functions over 0 .. n, for the proofs.               *)
(***************************************************************************)
EXTENDS Integers, FiniteSetTheorems, TLAPS

\* Induction along a loop: what holds at 0, and after a turn if before it, holds
\* throughout.
LEMMA Walked ==
  ASSUME NEW n \in Nat, NEW S, 0 \in S, \A i \in 1 .. n : i - 1 \in S => i \in S
  PROVE  \A i \in 0 .. n : i \in S
<1> DEFINE B == {i \in 0 .. n : i \notin S}
<1> SUFFICES ASSUME B # {} PROVE FALSE
  OBVIOUS
<1> DEFINE C == {1 .. i : i \in B}
<1>1. C \subseteq SUBSET (1 .. n) /\ C # {}
  <2>1. \A i \in B : 1 .. i \subseteq 1 .. n
    OBVIOUS
  <2>2. \A i \in B : 1 .. i \in C
    OBVIOUS
  <2> QED BY <2>1, <2>2, Zenon
<1>2. SUBSET (1 .. n) = FiniteSubsetsOf(1 .. n)
  <2>1. IsFiniteSet(1 .. n)
    BY FS_Interval
  <2> QED BY <2>1, FS_FiniteSubsetsOfFinite
<1>3. IsWellFoundedOn(StrictSubsetOrdering(1 .. n), SUBSET (1 .. n))
  BY <1>2, FS_StrictSubsetOrderingWellFounded, ZenonT(40)
<1>4. PICK c \in C : \A d \in C : <<d, c>> \notin StrictSubsetOrdering(1 .. n)
  <2> HIDE DEF C
  <2> QED BY <1>1, <1>3, WFMin
<1>5. PICK k \in B : c = 1 .. k
  OBVIOUS
<1>6. k \in 1 .. n /\ k - 1 \in 0 .. n
  OBVIOUS
<1>7. k - 1 \notin B
  <2> SUFFICES ASSUME k - 1 \in B PROVE FALSE
    OBVIOUS
  <2>1. 1 .. k - 1 \in C /\ 1 .. k - 1 \subseteq c /\ k \in c /\ k \notin 1 .. k - 1
    BY <1>5, <1>6
  <2>2. <<1 .. k - 1, c>> \in StrictSubsetOrdering(1 .. n)
    BY <1>1, <2>1 DEF StrictSubsetOrdering
  <2> QED BY <1>4, <2>1, <2>2
<1> QED BY <1>6, <1>7

\* Some numbers have a least one: where a search that keeps the first it meets ends.
LEMMA Least ==
  ASSUME NEW B \in SUBSET Nat, B # {}
  PROVE  \E i \in B : \A j \in B : i <= j
<1>1. PICK n \in B : TRUE
  OBVIOUS
<1> SUFFICES ASSUME \A i \in B : \E j \in B : j < i PROVE FALSE
  OBVIOUS
<1> DEFINE S == {i \in 0 .. n : \A j \in 0 .. i : j \notin B}
<1>2. 0 \in S
  OBVIOUS
<1>3. \A i \in 1 .. n : i - 1 \in S => i \in S
  <2> SUFFICES ASSUME NEW i \in 1 .. n, i - 1 \in S, i \in B PROVE FALSE
    OBVIOUS
  <2>1. PICK j \in B : j < i
    OBVIOUS
  <2>2. j \in 0 .. (i - 1)
    BY <2>1
  <2> QED BY <2>1, <2>2
<1>4. n \in S
  <2> HIDE DEF S
  <2>1. \A i \in 0 .. n : i \in S
    BY <1>2, <1>3, Walked
  <2> QED BY <2>1
<1> QED BY <1>1, <1>4

\* A loop that starts in a set and does not leave it in a turn stays there.
LEMMA Stays ==
  ASSUME NEW n \in Nat, NEW T, NEW f, f[0] \in T,
         \A i \in 1 .. n : f[i - 1] \in T => f[i] \in T
  PROVE  \A i \in 0 .. n : f[i] \in T
<1> DEFINE S == {i \in 0 .. n : f[i] \in T}
<1>1. 0 \in S /\ \A i \in 1 .. n : i - 1 \in S => i \in S
  OBVIOUS
<1>2. \A i \in 0 .. n : i \in S
  <2> HIDE DEF S
  <2> QED BY <1>1, Walked
<1> QED BY <1>2

\* The run f of a loop of n turns that starts with x.
IsRun(f, n, x, step) == f = [i \in 0 .. n |-> IF i = 0 THEN x ELSE step[i][f[i - 1]]]

\* A loop whose turns stay in a set has a run.
LEMMA Iterates ==
  ASSUME NEW n \in Nat, NEW T, NEW x \in T, NEW step \in [1 .. n -> [T -> T]]
  PROVE  \E f \in [0 .. n -> T] : IsRun(f, n, x, step)
<1> DEFINE Run(k, f) == f \in [0 .. k -> T] /\ f[0] = x
                          /\ \A i \in 1 .. k : f[i] = step[i][f[i - 1]]
           S == {k \in 0 .. n : \E f \in [0 .. k -> T] : Run(k, f)}
<1>1. 0 \in S
  <2> DEFINE f == [i \in 0 .. 0 |-> x]
  <2>1. f \in [0 .. 0 -> T] /\ f[0] = x /\ \A i \in 1 .. 0 : f[i] = step[i][f[i - 1]]
    OBVIOUS
  <2> HIDE DEF f
  <2> QED BY <2>1
<1>2. ASSUME NEW k \in 1 .. n, k - 1 \in S
      PROVE  k \in S
  <2>1. PICK f \in [0 .. k - 1 -> T] : Run(k - 1, f)
    BY <1>2
  <2> DEFINE g == [i \in 0 .. k |-> IF i = k THEN step[k][f[k - 1]] ELSE f[i]]
  <2>2. step[k][f[k - 1]] \in T
    BY <2>1
  <2>3. g \in [0 .. k -> T]
    BY <2>1, <2>2
  <2>4. \A i \in 1 .. k : g[i] = step[i][g[i - 1]]
    BY <2>1
  <2>5. g[0] = x
    BY <2>1
  <2> HIDE DEF g
  <2> QED BY <2>3, <2>4, <2>5, SMTT(20)
<1>3. n \in S
  <2> HIDE DEF S
  <2>1. \A i \in 0 .. n : i \in S
    BY <1>1, <1>2, Walked
  <2> QED BY <2>1
<1>4. PICK f \in [0 .. n -> T] : Run(n, f)
  BY <1>3
<1>5. f = [i \in 0 .. n |-> IF i = 0 THEN x ELSE step[i][f[i - 1]]]
  BY <1>4
<1> QED BY <1>5 DEF IsRun
=============================================================================
