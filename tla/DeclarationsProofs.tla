------------------------- MODULE DeclarationsProofs -------------------------
(***************************************************************************)
(* Proofs about what a scope declares: Metadata, the parse that fills the  *)
(* registries of a scope, and Theming, the styles and colors that hang on  *)
(* its constants.  They are about every set of names, constants, colors    *)
(* and properties, and documents and attribute lists of every length the   *)
(* bounds allow.                                                           *)
(*                                                                         *)
(* Metadata.  The handlers see one tag at a time.  The invariant says of   *)
(* each list of a scope, in terms of the elements alone, what it is        *)
(* (Filed): the elements that the scope was given, filtered by kind, in    *)
(* their order, with what belongs to each.  It is kept because a start tag *)
(* adds one element to the scope under way and to no other (Grown), what   *)
(* was parsed before stays as it is (Rests), and the pointers that the     *)
(* handlers work with are right: the section is the one of the innermost   *)
(* open element, the gradient that is open is the last one listed, and the *)
(* timeline that is open is the one of the context.                        *)
(*                                                                         *)
(* Theming.  A color and the token beside it are written together, so a    *)
(* token names the constant its color was last written as, and a value     *)
(* that changes finds all of those.                                        *)
(*                                                                         *)
(* Loops over lists are followed turn by turn with the lemmas of Iteration.*)
(***************************************************************************)
EXTENDS Metadata, Theming, Iteration, SequenceTheorems

-----------------------------------------------------------------------------
(* Elements in their order.                                                *)

Nothing == <<>>

\* A loop that collects the values it meets of a set.
Collects(f, p, S) ==
  /\ \A i \in 0 .. Len(p) : f[i] \in Seq(Nat)
  /\ f[0] = Nothing
  /\ \A i \in 1 .. Len(p) : f[i] = IF p[i] \in S THEN Append(f[i - 1], p[i]) ELSE f[i - 1]

LEMMA CollectRun ==
  ASSUME NEW p \in Seq(Nat), NEW S
  PROVE  \E f : Collects(f, p, S)
<1>a. PICK n \in Nat : n = Len(p) /\ \A i \in 1 .. n : p[i] \in Nat
  OBVIOUS
<1> DEFINE T == Seq(Nat)
           Turn(x, i) == IF p[i] \in S THEN Append(x, p[i]) ELSE x
           step == [i \in 1 .. n |-> [x \in T |-> Turn(x, i)]]
<1>0. Nothing \in T
  BY DEF Nothing
<1>1. Nothing \in T /\ step \in [1 .. n -> [T -> T]]
  <2>1. \A i \in 1 .. n, x \in T : Append(x, p[i]) \in T
    BY <1>a
  <2> QED BY <1>0, <2>1
<1> HIDE DEF T
<1>2. PICK f \in [0 .. n -> T] : IsRun(f, n, Nothing, step)
  <2> HIDE DEF step
  <2> QED BY <1>1, Iterates
<1> HIDE DEF Turn
<1>3. \A i \in 1 .. n : step[i][f[i - 1]] = Turn(f[i - 1], i)
  <2>1. \A i \in 1 .. n : f[i - 1] \in T
    OBVIOUS
  <2> QED BY <2>1
<1>4. f = [i \in 0 .. n |-> IF i = 0 THEN Nothing ELSE step[i][f[i - 1]]]
  BY <1>2 DEF IsRun
<1> HIDE DEF step
<1>40. PICK x : x = Nothing /\ f = [i \in 0 .. n |-> IF i = 0 THEN x ELSE step[i][f[i - 1]]]
  BY <1>4
<1>5. f[0] = Nothing /\ \A i \in 1 .. n : f[i] = Turn(f[i - 1], i)
  <2>1. f[0] = Nothing /\ \A i \in 1 .. n : f[i] = step[i][f[i - 1]]
    BY <1>40
  <2> QED BY <1>3, <2>1
<1>6. \A i \in 0 .. n : f[i] \in T
  BY <1>2
<1> QED BY <1>a, <1>5, <1>6 DEF T, Turn, Collects

LEMMA OrderedRun ==
  ASSUME NEW S, NEW n \in Nat
  PROVE  \E f :
                /\ \A e \in 0 .. n : f[e] \in Seq(Nat)
                /\ f[0] = Nothing
                /\ \A e \in 1 .. n : f[e] = IF e \in S THEN Append(f[e - 1], e) ELSE f[e - 1]
                /\ Ordered(S, n) = f[n]
<1> DEFINE T == Seq(Nat)
           Turn(x, e) == IF e \in S THEN Append(x, e) ELSE x
           After(f) == f = [e \in 0 .. n |-> IF e = 0 THEN Nothing ELSE Turn(f[e - 1], e)]
           upto == CHOOSE f : After(f)
<1>1. PICK g : (\A i \in 0 .. n : g[i] \in T) /\ g[0] = Nothing /\ \A i \in 1 .. n : g[i] = Turn(g[i - 1], i)
  <2> DEFINE v == [i \in 1 .. n |-> i]
  <2>1. v \in Seq(Nat) /\ Len(v) = n /\ \A i \in 1 .. n : v[i] = i
    OBVIOUS
  <2> HIDE DEF v
  <2>2. PICK p \in Seq(Nat) : Len(p) = n /\ \A i \in 1 .. n : p[i] = i
    BY <2>1
  <2>3. PICK g : Collects(g, p, S)
    <3> HIDE DEF T, Turn, After, upto
    <3> QED BY CollectRun
  <2>4. g[0] = Nothing /\ \A i \in 1 .. n : g[i] = Turn(g[i - 1], i)
    BY <2>2, <2>3 DEF Collects
  <2>5. \A i \in 0 .. n : g[i] \in T
    BY <2>2, <2>3 DEF Collects
  <2> HIDE DEF T, Turn
  <2> QED BY <2>4, <2>5
<1> HIDE DEF T, Turn
<1>2. After([e \in 0 .. n |-> g[e]])
  <2>1. \A e \in 0 .. n : g[e] = IF e = 0 THEN Nothing ELSE Turn(g[e - 1], e)
    BY <1>1
  <2> QED BY <2>1
<1>3. After(upto)
  <2> HIDE DEF After
  <2> QED BY <1>2
<1>4. Ordered(S, n) = upto[n]
  BY DEF Ordered, Turn, Nothing
<1> HIDE DEF upto
<1>5. upto[0] = Nothing /\ \A e \in 1 .. n : upto[e] = Turn(upto[e - 1], e)
  BY <1>3
<1>6. \A e \in 0 .. n : upto[e] = g[e]
  <2> DEFINE I == {e \in 0 .. n : upto[e] = g[e]}
  <2>1. 0 \in I /\ \A i \in 1 .. n : i - 1 \in I => i \in I
    BY <1>1, <1>5
  <2> HIDE DEF I, After
  <2>2. \A e \in 0 .. n : e \in I
    BY <2>1, Walked
  <2> QED BY <2>2 DEF I
<1> QED BY <1>1, <1>4, <1>6 DEF T, Turn

LEMMA OrderedSteps ==
  ASSUME NEW S
  PROVE  /\ Ordered(S, 0) = Nothing
         /\ \A n \in Nat : /\ Ordered(S, n) \in Seq(Nat)
                           /\ Ordered(S, n + 1) = IF n + 1 \in S THEN Append(Ordered(S, n), n + 1)
                                                  ELSE Ordered(S, n)
<1>1. Ordered(S, 0) = Nothing
  BY OrderedRun
<1> SUFFICES ASSUME NEW n \in Nat
             PROVE  /\ Ordered(S, n) \in Seq(Nat)
                    /\ Ordered(S, n + 1) = IF n + 1 \in S THEN Append(Ordered(S, n), n + 1)
                                           ELSE Ordered(S, n)
  BY <1>1
<1>2. PICK f :
               /\ \A e \in 0 .. n : f[e] \in Seq(Nat)
               /\ f[0] = Nothing
               /\ \A e \in 1 .. n : f[e] = IF e \in S THEN Append(f[e - 1], e) ELSE f[e - 1]
               /\ Ordered(S, n) = f[n]
  BY OrderedRun
<1>3. n + 1 \in Nat
  OBVIOUS
<1>4. PICK g :
               /\ g[0] = Nothing
               /\ \A e \in 1 .. n + 1 : g[e] = IF e \in S THEN Append(g[e - 1], e) ELSE g[e - 1]
               /\ Ordered(S, n + 1) = g[n + 1]
  <2>1. PICK m \in Nat : m = n + 1
    BY <1>3
  <2>2. PICK g :
               /\ g[0] = Nothing
               /\ \A e \in 1 .. m : g[e] = IF e \in S THEN Append(g[e - 1], e) ELSE g[e - 1]
               /\ Ordered(S, m) = g[m]
    BY OrderedRun
  <2> QED BY <2>1, <2>2
<1> DEFINE I == {i \in 0 .. n : f[i] = g[i]}
<1>50. 0 \in I
  BY <1>2, <1>4
<1>5. ASSUME NEW i \in 1 .. n, i - 1 \in I
      PROVE  i \in I
  <2>1. f[i - 1] = g[i - 1] /\ i \in 1 .. n + 1
    BY <1>5
  <2>2. /\ f[i] = IF i \in S THEN Append(f[i - 1], i) ELSE f[i - 1]
        /\ g[i] = IF i \in S THEN Append(g[i - 1], i) ELSE g[i - 1]
    BY <1>2, <1>4, <2>1
  <2> QED BY <2>1, <2>2
<1>6. \A i \in 0 .. n : i \in I
  <2> HIDE DEF I
  <2> QED BY <1>50, <1>5, Walked
<1>7. f[n] = g[n] /\ g[n + 1] = IF n + 1 \in S THEN Append(g[n], n + 1) ELSE g[n]
  BY <1>4, <1>6
<1>8. f[n] \in Seq(Nat)
  BY <1>2
<1> QED BY <1>2, <1>4, <1>7, <1>8

LEMMA OrderedSame ==
  ASSUME NEW S, NEW T, NEW n \in Nat, \A e \in 1 .. n : e \in S <=> e \in T
  PROVE  Ordered(S, n) = Ordered(T, n)
<1> DEFINE I == {i \in 0 .. n : Ordered(S, i) = Ordered(T, i)}
<1>1. 0 \in I
  BY OrderedSteps
<1>2. ASSUME NEW i \in 1 .. n, i - 1 \in I
      PROVE  i \in I
  <2>1. i - 1 \in Nat /\ (i - 1) + 1 = i /\ (i \in S <=> i \in T)
    OBVIOUS
  <2>20. /\ Ordered(S, (i - 1) + 1) = IF (i - 1) + 1 \in S
                 THEN Append(Ordered(S, i - 1), (i - 1) + 1) ELSE Ordered(S, i - 1)
         /\ Ordered(T, (i - 1) + 1) = IF (i - 1) + 1 \in T
                 THEN Append(Ordered(T, i - 1), (i - 1) + 1) ELSE Ordered(T, i - 1)
    BY <2>1, OrderedSteps
  <2>2. /\ Ordered(S, i) = IF i \in S THEN Append(Ordered(S, i - 1), i) ELSE Ordered(S, i - 1)
        /\ Ordered(T, i) = IF i \in T THEN Append(Ordered(T, i - 1), i) ELSE Ordered(T, i - 1)
    BY <2>1, <2>20
  <2> QED BY <1>2, <2>1, <2>2
<1>3. \A i \in 0 .. n : i \in I
  <2> HIDE DEF I
  <2> QED BY <1>1, <1>2, Walked
<1> QED BY <1>3

\* Elements that are not in the set do not matter, ...
LEMMA OrderedStays ==
  ASSUME NEW m \in Nat, NEW n \in Nat, m <= n, NEW S, S \subseteq 1 .. m
  PROVE  Ordered(S, n) = Ordered(S, m)
<1> DEFINE I == {i \in 0 .. n - m : Ordered(S, m + i) = Ordered(S, m)}
<1>0. n - m \in Nat
  OBVIOUS
<1>1. 0 \in I
  OBVIOUS
<1>2. ASSUME NEW i \in 1 .. n - m, i - 1 \in I
      PROVE  i \in I
  <2>1. m + (i - 1) \in Nat /\ (m + (i - 1)) + 1 = m + i /\ m + i \notin S
    OBVIOUS
  <2>2. Ordered(S, m + i) = Ordered(S, m + (i - 1))
    BY <2>1, OrderedSteps
  <2> QED BY <1>2, <2>2
<1>3. \A i \in 0 .. n - m : i \in I
  <2> HIDE DEF I
  <2> QED BY <1>0, <1>1, <1>2, Walked
<1>4. n - m \in I /\ m + (n - m) = n
  BY <1>3
<1> QED BY <1>4

LEMMA OrderedEmpty ==
  ASSUME NEW n \in Nat PROVE Ordered({}, n) = Nothing
<1>1. {} \subseteq 1 .. 0 /\ 0 \in Nat /\ 0 <= n
  OBVIOUS
<1>2. Ordered({}, n) = Ordered({}, 0)
  BY <1>1, OrderedStays
<1> QED BY <1>2, OrderedSteps

\* ... and the newest comes last.
LEMMA OrderedAdds ==
  ASSUME NEW n \in Nat, NEW S, S \subseteq 1 .. n
  PROVE  Ordered(S \cup {n + 1}, n + 1) = Append(Ordered(S, n), n + 1)
<1>1. Ordered(S \cup {n + 1}, n + 1) = Append(Ordered(S \cup {n + 1}, n), n + 1)
  BY OrderedSteps
<1>2. \A e \in 1 .. n : e \in S \cup {n + 1} <=> e \in S
  OBVIOUS
<1>3. Ordered(S \cup {n + 1}, n) = Ordered(S, n)
  BY <1>2, OrderedSame
<1> QED BY <1>1, <1>3

LEMMA OrderedOf ==
  ASSUME NEW S, NEW n \in Nat
  PROVE  /\ Ordered(S, n) \in Seq(Nat)
         /\ \A i \in 1 .. Len(Ordered(S, n)) : Ordered(S, n)[i] \in S /\ Ordered(S, n)[i] \in 1 .. n
         /\ \A i, j \in 1 .. Len(Ordered(S, n)) : i < j => Ordered(S, n)[i] < Ordered(S, n)[j]
<1> DEFINE Good(x, m) == /\ x \in Seq(Nat)
                         /\ \A i \in 1 .. Len(x) : x[i] \in S /\ x[i] \in 1 .. m
                         /\ \A i, j \in 1 .. Len(x) : i < j => x[i] < x[j]
           I == {i \in 0 .. n : Good(Ordered(S, i), i)}
<1>1. 0 \in I
  <2>1. Good(Nothing, 0)
    BY DEF Nothing
  <2> HIDE DEF Good
  <2> QED BY <2>1, OrderedSteps
<1>2. ASSUME NEW i \in 1 .. n, i - 1 \in I
      PROVE  i \in I
  <2>1. i - 1 \in Nat /\ (i - 1) + 1 = i
    OBVIOUS
  <2>20. Ordered(S, (i - 1) + 1) = IF (i - 1) + 1 \in S
                 THEN Append(Ordered(S, i - 1), (i - 1) + 1) ELSE Ordered(S, i - 1)
    BY <2>1, OrderedSteps
  <2>2. Ordered(S, i) = IF i \in S THEN Append(Ordered(S, i - 1), i) ELSE Ordered(S, i - 1)
    BY <2>1, <2>20
  <2> DEFINE x == Ordered(S, i - 1)
  <2>3. Good(x, i - 1)
    BY <1>2
  <2> HIDE DEF x
  <2>4. Good(x, i)
    BY <2>3
  <2>5. ASSUME i \in S PROVE Good(Append(x, i), i)
    <3>1. x \in Seq(Nat) /\ i \in Nat
      BY <2>3
    <3>2. /\ Append(x, i) \in Seq(Nat) /\ Len(Append(x, i)) = Len(x) + 1
          /\ Append(x, i)[Len(x) + 1] = i
          /\ \A k \in 1 .. Len(x) : Append(x, i)[k] = x[k]
      BY <3>1, AppendProperties
    <3>3. Len(x) \in Nat
      BY <3>1
    <3> DEFINE y == Append(x, i)
    <3> HIDE DEF y
    <3>4. \A k \in 1 .. Len(y) : y[k] \in S /\ y[k] \in 1 .. i
      BY <2>3, <2>5, <3>2, <3>3 DEF y
    <3>5. \A k, j \in 1 .. Len(y) : k < j => y[k] < y[j]
      BY <2>3, <3>2, <3>3 DEF y
    <3> QED BY <3>2, <3>4, <3>5 DEF y
  <2>6. Ordered(S, i) = IF i \in S THEN Append(x, i) ELSE x
    BY <2>2 DEF x
  <2> HIDE DEF Good
  <2>7. Good(Ordered(S, i), i)
    BY <2>4, <2>5, <2>6
  <2> QED BY <2>7
<1>3. \A i \in 0 .. n : i \in I
  <2> HIDE DEF I
  <2> QED BY <1>1, <1>2, Walked
<1>4. Good(Ordered(S, n), n)
  BY <1>3
<1> QED BY <1>4

\* What an instance plays of a timeline.
LEMMA PlaysRun ==
  ASSUME NEW F, NEW p \in Seq(Nat)
  PROVE  \E f : /\ f[0] = Nothing
                /\ \A k \in 1 .. Len(p) :
                     f[k] = IF p[k] \in F THEN Append(f[k - 1], p[k]) ELSE f[k - 1]
                /\ Plays(p, F) = f[Len(p)]
<1> DEFINE n == Len(p)
           T == Seq(Nat)
           Turn(x, k) == IF p[k] \in F THEN Append(x, p[k]) ELSE x
           After(f) == f = [k \in 0 .. n |-> IF k = 0 THEN Nothing ELSE Turn(f[k - 1], k)]
           upto == CHOOSE f : After(f)
<1>0. n \in Nat /\ \A i \in 1 .. n : p[i] \in Nat
  OBVIOUS
<1>4. Plays(p, F) = upto[n]
  BY DEF Plays, Nothing
<1> HIDE DEF n
<1>1. PICK g : (\A i \in 0 .. n : g[i] \in T) /\ g[0] = Nothing /\ \A i \in 1 .. n : g[i] = Turn(g[i - 1], i)
  <2> HIDE DEF After, upto
  <2>1. PICK g : Collects(g, p, F)
    BY CollectRun
  <2> QED BY <2>1 DEF n, Collects
<1> HIDE DEF T, Turn
<1>2. After([e \in 0 .. n |-> g[e]])
  <2>1. \A e \in 0 .. n : g[e] = IF e = 0 THEN Nothing ELSE Turn(g[e - 1], e)
    BY <1>0, <1>1
  <2> QED BY <1>0, <2>1
<1>3. After(upto)
  <2> HIDE DEF After
  <2> QED BY <1>2
<1> HIDE DEF upto
<1>5. upto[0] = Nothing /\ \A e \in 1 .. n : upto[e] = Turn(upto[e - 1], e)
  BY <1>0, <1>3
<1> HIDE DEF After
<1> QED BY <1>4, <1>5 DEF Turn, n

LEMMA PlaysSteps ==
  ASSUME NEW F
  PROVE  /\ Plays(Nothing, F) = Nothing
         /\ \A p \in Seq(Nat), e \in Nat :
              Plays(Append(p, e), F) = IF e \in F THEN Append(Plays(p, F), e) ELSE Plays(p, F)
<1>1. Plays(Nothing, F) = Nothing
  <2>1. Nothing \in Seq(Nat)
    BY DEF Nothing
  <2>2. Len(Nothing) = 0
    BY DEF Nothing
  <2>3. PICK p \in Seq(Nat) : p = Nothing
    BY <2>1
  <2>4. PICK f : f[0] = Nothing /\ Plays(p, F) = f[Len(p)]
    BY PlaysRun
  <2> QED BY <2>2, <2>3, <2>4
<1> SUFFICES ASSUME NEW p \in Seq(Nat), NEW e \in Nat
             PROVE  Plays(Append(p, e), F) = IF e \in F THEN Append(Plays(p, F), e) ELSE Plays(p, F)
  BY <1>1
<1> DEFINE n == Len(p)
           q == Append(p, e)
<1>2. /\ n \in Nat /\ q \in Seq(Nat) /\ Len(q) = n + 1 /\ q[n + 1] = e
      /\ \A k \in 1 .. n : q[k] = p[k]
  OBVIOUS
<1>3. PICK f : /\ f[0] = Nothing
               /\ \A k \in 1 .. n : f[k] = IF p[k] \in F THEN Append(f[k - 1], p[k]) ELSE f[k - 1]
               /\ Plays(p, F) = f[n]
  BY PlaysRun
<1> HIDE DEF q, n
<1>4. PICK g : /\ g[0] = Nothing
               /\ \A k \in 1 .. n + 1 : g[k] = IF q[k] \in F THEN Append(g[k - 1], q[k]) ELSE g[k - 1]
               /\ Plays(q, F) = g[n + 1]
  <2>1. q \in Seq(Nat) /\ Len(q) = n + 1
    BY <1>2
  <2> QED BY <2>1, PlaysRun
<1> DEFINE I == {i \in 0 .. n : f[i] = g[i]}
<1>5. 0 \in I
  BY <1>2, <1>3, <1>4
<1>6. ASSUME NEW i \in 1 .. n, i - 1 \in I
      PROVE  i \in I
  <2>1. i \in 1 .. n + 1 /\ q[i] = p[i] /\ f[i - 1] = g[i - 1]
    BY <1>2, <1>6
  <2> QED BY <1>3, <1>4, <2>1
<1>7. \A i \in 0 .. n : i \in I
  <2> HIDE DEF I
  <2> QED BY <1>2, <1>5, <1>6, Walked
<1>8. n \in I
  BY <1>2, <1>7
<1>9. f[n] = g[n] /\ (n + 1) - 1 = n /\ n + 1 \in 1 .. n + 1
  BY <1>2, <1>8
<1>10. g[n + 1] = IF e \in F THEN Append(g[n], e) ELSE g[n]
  BY <1>2, <1>4, <1>9
<1> QED BY <1>3, <1>4, <1>9, <1>10 DEF q

LEMMA OrderedPlays ==
  ASSUME NEW S, NEW F, NEW n \in Nat
  PROVE  Plays(Ordered(S, n), F) = Ordered(S \cap F, n)
<1> DEFINE I == {i \in 0 .. n : Plays(Ordered(S, i), F) = Ordered(S \cap F, i)}
<1>1. 0 \in I
  BY OrderedSteps, PlaysSteps
<1>2. ASSUME NEW i \in 1 .. n, i - 1 \in I
      PROVE  i \in I
  <2>1. i - 1 \in Nat /\ (i - 1) + 1 = i /\ i \in Nat
    OBVIOUS
  <2>20. /\ Ordered(S, (i - 1) + 1) = IF (i - 1) + 1 \in S
                 THEN Append(Ordered(S, i - 1), (i - 1) + 1) ELSE Ordered(S, i - 1)
         /\ Ordered(S, i - 1) \in Seq(Nat)
    BY <2>1, OrderedSteps
  <2>21. Ordered(S \cap F, (i - 1) + 1) = IF (i - 1) + 1 \in S \cap F
                 THEN Append(Ordered(S \cap F, i - 1), (i - 1) + 1) ELSE Ordered(S \cap F, i - 1)
    BY <2>1, OrderedSteps
  <2>2. /\ Ordered(S, i) = IF i \in S THEN Append(Ordered(S, i - 1), i) ELSE Ordered(S, i - 1)
        /\ Ordered(S \cap F, i) = IF i \in S \cap F THEN Append(Ordered(S \cap F, i - 1), i)
                                  ELSE Ordered(S \cap F, i - 1)
        /\ Ordered(S, i - 1) \in Seq(Nat)
    BY <2>1, <2>20, <2>21
  <2>3. Plays(Append(Ordered(S, i - 1), i), F) =
          IF i \in F THEN Append(Plays(Ordered(S, i - 1), F), i) ELSE Plays(Ordered(S, i - 1), F)
    BY <2>1, <2>2, PlaysSteps
  <2>4. Plays(Ordered(S, i - 1), F) = Ordered(S \cap F, i - 1)
    BY <1>2
  <2>5. Plays(Ordered(S, i), F) = Ordered(S \cap F, i)
    <3>1. CASE i \in S /\ i \in F
      BY <2>2, <2>3, <2>4, <3>1
    <3>2. CASE i \in S /\ i \notin F
      BY <2>2, <2>3, <2>4, <3>2
    <3>3. CASE i \notin S
      BY <2>2, <2>4, <3>3
    <3> QED BY <3>1, <3>2, <3>3
  <2> QED BY <2>5
<1>3. \A i \in 0 .. n : i \in I
  <2> HIDE DEF I
  <2> QED BY <1>1, <1>2, Walked
<1> QED BY <1>3

-----------------------------------------------------------------------------
(* The lists of a scope.                                                   *)

\* The records of a scope's lists.
RecordSet == [name : Names, by : Nat, parts : Seq(Nat)]

LEMMA RecordIs ==
  /\ \A n \in Names, e \in Nat : /\ Record(n, e) \in RecordSet
                                  /\ Record(n, e).name = n /\ Record(n, e).by = e
                                  /\ Record(n, e).parts = Nothing
  /\ \A r \in RecordSet : r.name \in Names /\ r.by \in Nat /\ r.parts \in Seq(Nat)
  /\ \A r \in RecordSet, e \in Nat :
       LET x == [r EXCEPT !.by = e]
       IN  x \in RecordSet /\ x.name = r.name /\ x.by = e /\ x.parts = r.parts
  /\ \A r \in RecordSet, e \in Nat :
       LET x == [r EXCEPT !.parts = Append(@, e)]
       IN  x \in RecordSet /\ x.name = r.name /\ x.by = r.by /\ x.parts = Append(r.parts, e)
<1>1. \A n \in Names, e \in Nat : /\ Record(n, e) \in RecordSet
                                   /\ Record(n, e).name = n /\ Record(n, e).by = e
                                   /\ Record(n, e).parts = Nothing
  <2>1. Nothing \in Seq(Nat)
    BY DEF Nothing
  <2>2. \A n, e : Record(n, e) = [name |-> n, by |-> e, parts |-> Nothing]
    BY DEF Record, Nothing
  <2> QED BY <2>1, <2>2 DEF RecordSet
<1>2. \A r \in RecordSet : r.name \in Names /\ r.by \in Nat /\ r.parts \in Seq(Nat)
  BY DEF RecordSet
<1>3. ASSUME NEW r \in RecordSet, NEW e \in Nat
      PROVE  LET x == [r EXCEPT !.by = e]
             IN  x \in RecordSet /\ x.name = r.name /\ x.by = e /\ x.parts = r.parts
  BY DEF RecordSet
<1>4. ASSUME NEW r \in RecordSet, NEW e \in Nat
      PROVE  LET x == [r EXCEPT !.parts = Append(@, e)]
             IN  x \in RecordSet /\ x.name = r.name /\ x.by = r.by /\ x.parts = Append(r.parts, e)
  <2>1. PICK q \in Seq(Nat) : q = Append(r.parts, e)
    <3>1. PICK p \in Seq(Nat) : p = r.parts
      BY <1>2
    <3>2. Append(p, e) \in Seq(Nat)
      OBVIOUS
    <3> QED BY <3>1, <3>2
  <2>2. [r EXCEPT !.parts = q] \in RecordSet
    BY DEF RecordSet
  <2>3. [r EXCEPT !.parts = q].name = r.name /\ [r EXCEPT !.parts = q].by = r.by
         /\ [r EXCEPT !.parts = q].parts = q
    BY DEF RecordSet
  <2> QED BY <2>1, <2>2, <2>3
<1> QED BY <1>1, <1>2, <1>3, <1>4

LEMMA SubSeqAppended ==
  ASSUME NEW q \in Seq(Nat), NEW e \in Nat, NEW m \in Nat, m <= Len(q)
  PROVE  /\ SubSeq(Append(q, e), 1, m) = SubSeq(q, 1, m)
         /\ m = Len(q) => SubSeq(Append(q, e), 1, m) = q
<1> DEFINE a == Append(q, e)
           x == SubSeq(a, 1, m)
           y == SubSeq(q, 1, m)
<1>1. /\ a \in Seq(Nat) /\ Len(a) = Len(q) + 1 /\ Len(q) \in Nat
      /\ \A i \in 1 .. Len(q) : a[i] = q[i]
  BY AppendProperties
<1> HIDE DEF a
<1>2. x \in Seq(Nat) /\ Len(x) = m /\ \A i \in 1 .. m : x[i] = a[i]
  BY <1>1
<1>3. y \in Seq(Nat) /\ Len(y) = m /\ \A i \in 1 .. m : y[i] = q[i]
  BY <1>1
<1> HIDE DEF x, y
<1>4. \A i \in 1 .. m : x[i] = q[i]
  <2>1. \A i \in 1 .. m : i \in 1 .. Len(q)
    BY <1>1
  <2> QED BY <1>1, <1>2, <2>1
<1>5. x = y
  BY <1>2, <1>3, <1>4, SeqEqual
<1>6. m = Len(q) => x = q
  BY <1>2, <1>4, SeqEqual
<1> QED BY <1>5, <1>6 DEF x, y, a

\* The stops that a gradient has room for.
LEMMA KeptIs ==
  /\ \A kind : Kept(kind, Nothing) = Nothing
  /\ \A q \in Seq(Nat), e \in Nat : Stopped(q, e) \in Seq(Nat)
  /\ \A q \in Seq(Nat), e \in Nat : Kept("grad", Append(q, e)) = Stopped(Kept("grad", q), e)
<1>1. MaxStops \in Nat
  BY MetadataAssumption
<1>2. ASSUME NEW kind PROVE Kept(kind, Nothing) = Nothing
  BY <1>1 DEF Kept, Nothing
<1>3. ASSUME NEW q \in Seq(Nat), NEW e \in Nat
      PROVE  /\ Stopped(q, e) \in Seq(Nat)
             /\ Kept("grad", Append(q, e)) = Stopped(Kept("grad", q), e)
  <2> DEFINE a == Append(q, e)
             x == SubSeq(q, 1, MaxStops)
  <2>1. a \in Seq(Nat) /\ Len(a) = Len(q) + 1 /\ Len(q) \in Nat
    OBVIOUS
  <2>2. Stopped(q, e) \in Seq(Nat)
    BY <2>1 DEF Stopped
  <2>3. CASE Len(q) < MaxStops
    <3> HIDE DEF a
    <3>1. Kept("grad", a) = a /\ Kept("grad", q) = q
      BY <1>1, <2>1, <2>3 DEF Kept
    <3>2. Stopped(q, e) = a
      BY <1>1, <2>1, <2>3 DEF Stopped, a
    <3> QED BY <2>2, <3>1, <3>2 DEF a
  <2>4. CASE Len(q) = MaxStops
    <3>1. SubSeq(a, 1, MaxStops) = q
      BY <1>1, <2>1, <2>4, SubSeqAppended
    <3> HIDE DEF a
    <3>2. Kept("grad", a) = q /\ Kept("grad", q) = q
      BY <1>1, <2>1, <2>4, <3>1 DEF Kept
    <3>3. Stopped(q, e) = q
      BY <2>4 DEF Stopped
    <3> QED BY <2>2, <3>2, <3>3 DEF a
  <2>5. CASE Len(q) > MaxStops
    <3>1. SubSeq(a, 1, MaxStops) = x
      BY <1>1, <2>1, <2>5, SubSeqAppended
    <3>2. Len(x) = MaxStops
      BY <1>1, <2>1, <2>5
    <3> HIDE DEF a
    <3>3. Kept("grad", a) = x /\ Kept("grad", q) = x
      BY <1>1, <2>1, <2>5, <3>1 DEF Kept
    <3> HIDE DEF x
    <3>4. Stopped(x, e) = x
      BY <3>2 DEF Stopped
    <3> QED BY <2>2, <3>3, <3>4 DEF a
  <2> QED BY <1>1, <2>1, <2>3, <2>4, <2>5
<1> QED BY <1>2, <1>3

LEMMA StoppedIs ==
  ASSUME NEW r \in RecordSet, NEW e \in Nat
  PROVE  LET x == [r EXCEPT !.parts = Stopped(@, e)]
         IN  x \in RecordSet /\ x.name = r.name /\ x.by = r.by /\ x.parts = Stopped(r.parts, e)
<1>1. r.parts \in Seq(Nat)
  BY RecordIs
<1>2. PICK q \in Seq(Nat) : q = Stopped(r.parts, e)
  BY <1>1, KeptIs
<1>3. /\ [r EXCEPT !.parts = q] \in RecordSet
      /\ [r EXCEPT !.parts = q].name = r.name /\ [r EXCEPT !.parts = q].by = r.by
      /\ [r EXCEPT !.parts = q].parts = q
  BY DEF RecordSet
<1> QED BY <1>2, <1>3

LEMMA AtIs ==
  ASSUME NEW list, Len(list) \in Nat, NEW n, Has(list, n)
  PROVE  /\ At(list, n) \in 1 .. Len(list) /\ list[At(list, n)].name = n
         /\ \A j \in 1 .. At(list, n) - 1 : list[j].name # n
<1> DEFINE B == {i \in 1 .. Len(list) : list[i].name = n}
<1>1. B \in SUBSET Nat /\ B # {}
  BY DEF Has
<1>2. PICK i \in B : \A j \in B : i <= j
  <2> HIDE DEF B
  <2> QED BY <1>1, Least
<1>3. \A j \in 1 .. i - 1 : list[j].name # n
  BY <1>2
<1>4. i \in 1 .. Len(list) /\ list[i].name = n
  BY <1>2
<1> HIDE DEF B
<1> QED BY <1>3, <1>4 DEF At

\* A list with a record more, at a place.
Placed(list, new, at, r) ==
  /\ new \in Seq(RecordSet) /\ Len(new) = Len(list) + 1 /\ at \in 1 .. Len(new)
  /\ new[at] = r
  /\ \A i \in 1 .. at - 1 : new[i] = list[i]
  /\ \A i \in at .. Len(list) : new[i + 1] = list[i]

\* A list with a record changed.
Replaced(list, new, at, r) ==
  /\ new \in Seq(RecordSet) /\ Len(new) = Len(list) /\ at \in 1 .. Len(list)
  /\ new[at] = r
  /\ \A i \in 1 .. Len(list) : i # at => new[i] = list[i]

LEMMA FirstIs ==
  ASSUME NEW list \in Seq(RecordSet), NEW n \in Names, NEW e \in Nat
  PROVE  /\ Has(list, n) => PutFirst(list, n, e) = list
         /\ ~Has(list, n) => Placed(list, PutFirst(list, n, e), 1, Record(n, e))
<1>1. ASSUME ~Has(list, n)
      PROVE  Placed(list, PutFirst(list, n, e), 1, Record(n, e))
  <2>1. PICK r \in RecordSet : r = Record(n, e)
    BY RecordIs
  <2>2. PutFirst(list, n, e) = <<r>> \o list
    BY <1>1, <2>1 DEF PutFirst
  <2>3. <<r>> \in Seq(RecordSet) /\ Len(<<r>>) = 1 /\ <<r>>[1] = r /\ Len(list) \in Nat
    OBVIOUS
  <2>4. /\ <<r>> \o list \in Seq(RecordSet) /\ Len(<<r>> \o list) = Len(list) + 1
        /\ (<<r>> \o list)[1] = r
        /\ \A i \in 1 .. Len(list) : (<<r>> \o list)[i + 1] = list[i]
    BY <2>3
  <2> QED BY <2>1, <2>2, <2>3, <2>4 DEF Placed
<1> QED BY <1>1 DEF PutFirst

LEMMA AlwaysIs ==
  ASSUME NEW list \in Seq(RecordSet), NEW n \in Names, NEW e \in Nat
  PROVE  Placed(list, PutAlways(list, n, e), Len(list) + 1, Record(n, e))
<1>1. PICK r \in RecordSet : r = Record(n, e)
  BY RecordIs
<1>2. PutAlways(list, n, e) = Append(list, r)
  BY <1>1 DEF PutAlways
<1>3. /\ Append(list, r) \in Seq(RecordSet) /\ Len(Append(list, r)) = Len(list) + 1
      /\ Append(list, r)[Len(list) + 1] = r
      /\ \A i \in 1 .. Len(list) : Append(list, r)[i] = list[i]
  BY AppendProperties
<1>4. Len(list) \in Nat
  OBVIOUS
<1> QED BY <1>1, <1>2, <1>3, <1>4 DEF Placed

LEMMA ExceptIs ==
  ASSUME NEW list \in Seq(RecordSet), NEW at \in 1 .. Len(list), NEW r \in RecordSet
  PROVE  Replaced(list, [list EXCEPT ![at] = r], at, r)
<1>1. /\ [list EXCEPT ![at] = r] \in Seq(RecordSet) /\ Len([list EXCEPT ![at] = r]) = Len(list)
      /\ \A i \in 1 .. Len(list) : [list EXCEPT ![at] = r][i] = IF i = at THEN r ELSE list[i]
  BY ExceptSeq
<1> QED BY <1>1 DEF Replaced

LEMMA LastIs ==
  ASSUME NEW list \in Seq(RecordSet), NEW n \in Names, NEW e \in Nat
  PROVE  /\ ~Has(list, n) => Placed(list, PutLast(list, n, e), 1, Record(n, e))
         /\ Has(list, n) =>
              Replaced(list, PutLast(list, n, e), At(list, n), [list[At(list, n)] EXCEPT !.by = e])
<1>1. ASSUME Has(list, n)
      PROVE  Replaced(list, PutLast(list, n, e), At(list, n), [list[At(list, n)] EXCEPT !.by = e])
  <2>1. At(list, n) \in 1 .. Len(list)
    BY <1>1, AtIs
  <2>2. list[At(list, n)] \in RecordSet
    BY <2>1
  <2>3. [list[At(list, n)] EXCEPT !.by = e] \in RecordSet
    BY <2>2, RecordIs
  <2>4. PutLast(list, n, e) = [list EXCEPT ![At(list, n)] = [list[At(list, n)] EXCEPT !.by = e]]
    BY <1>1 DEF PutLast
  <2> QED BY <2>1, <2>3, <2>4, ExceptIs
<1> QED BY <1>1, FirstIs DEF PutLast

LEMMA PartIs ==
  ASSUME NEW list \in Seq(RecordSet), NEW n, Has(list, n), NEW e \in Nat
  PROVE  Replaced(list, PutPart(list, n, e), At(list, n),
                  [list[At(list, n)] EXCEPT !.parts = Append(@, e)])
<1>1. At(list, n) \in 1 .. Len(list)
  BY AtIs
<1>2. list[At(list, n)] \in RecordSet
  BY <1>1
<1>3. [list[At(list, n)] EXCEPT !.parts = Append(@, e)] \in RecordSet
  BY <1>2, RecordIs
<1>4. PutPart(list, n, e) =
        [list EXCEPT ![At(list, n)] = [list[At(list, n)] EXCEPT !.parts = Append(@, e)]]
  BY DEF PutPart
<1> QED BY <1>1, <1>3, <1>4, ExceptIs

-----------------------------------------------------------------------------
(* Names keep their places.                                                *)

\* The names of the old list are at the front of the new one, or at its end.
Longer(kind, old, new) ==
  /\ old \in Seq(RecordSet) /\ new \in Seq(RecordSet) /\ Len(old) <= Len(new)
  /\ kind \in {"prop", "grad", "style"} =>
       \A i \in 1 .. Len(old) : new[i].name = old[i].name
  /\ kind \notin {"prop", "grad", "style"} =>
       \A i \in 1 .. Len(old) : new[Len(new) - Len(old) + i].name = old[i].name

LEMMA LongerSame ==
  ASSUME NEW kind, NEW list \in Seq(RecordSet) PROVE Longer(kind, list, list)
<1>1. Len(list) \in Nat
  OBVIOUS
<1> QED BY <1>1 DEF Longer

LEMMA LongerStill ==
  ASSUME NEW kind, NEW a, NEW b, NEW c, Longer(kind, a, b), Longer(kind, b, c)
  PROVE  Longer(kind, a, c)
<1>1. /\ Len(a) \in Nat /\ Len(b) \in Nat /\ Len(c) \in Nat
      /\ Len(a) <= Len(b) /\ Len(b) <= Len(c)
      /\ a \in Seq(RecordSet) /\ c \in Seq(RecordSet)
  BY DEF Longer
<1>2. CASE kind \in {"prop", "grad", "style"}
  BY <1>1, <1>2 DEF Longer
<1>3. CASE kind \notin {"prop", "grad", "style"}
  <2>1. ASSUME NEW i \in 1 .. Len(a)
        PROVE  c[Len(c) - Len(a) + i].name = a[i].name
    <3> DEFINE j == Len(b) - Len(a) + i
    <3>1. j \in 1 .. Len(b) /\ Len(c) - Len(b) + j = Len(c) - Len(a) + i
      BY <1>1
    <3>2. b[j].name = a[i].name
      BY <1>3 DEF Longer
    <3> HIDE DEF j
    <3>3. c[Len(c) - Len(b) + j].name = b[j].name
      BY <1>3, <3>1 DEF Longer
    <3> QED BY <3>1, <3>2, <3>3
  <2> QED BY <1>1, <1>3, <2>1 DEF Longer
<1> QED BY <1>2, <1>3

LEMMA LongerReplaced ==
  ASSUME NEW kind, NEW list \in Seq(RecordSet), NEW new, NEW at, NEW r,
         Replaced(list, new, at, r), r.name = list[at].name
  PROVE  Longer(kind, list, new)
<1>1. Len(list) \in Nat /\ Len(new) = Len(list)
  BY DEF Replaced
<1>2. \A i \in 1 .. Len(list) : new[i].name = list[i].name
  BY DEF Replaced
<1>3. \A i \in 1 .. Len(list) : Len(new) - Len(list) + i = i
  BY <1>1
<1> QED BY <1>1, <1>2, <1>3 DEF Longer, Replaced

LEMMA LongerInserted ==
  ASSUME NEW kind, NEW list \in Seq(RecordSet), NEW new, NEW at, NEW r,
         Placed(list, new, at, r),
         at = IF kind \in {"prop", "grad", "style"} THEN Len(list) + 1 ELSE 1
  PROVE  Longer(kind, list, new)
<1>1. Len(list) \in Nat /\ Len(new) = Len(list) + 1
  BY DEF Placed
<1>2. CASE kind \in {"prop", "grad", "style"}
  <2>1. \A i \in 1 .. Len(list) : new[i] = list[i]
    BY <1>1, <1>2 DEF Placed
  <2> QED BY <1>1, <1>2, <2>1 DEF Longer, Placed
<1>3. CASE kind \notin {"prop", "grad", "style"}
  <2>1. \A i \in 1 .. Len(list) : new[i + 1] = list[i] /\ Len(new) - Len(list) + i = i + 1
    BY <1>1, <1>3 DEF Placed
  <2> QED BY <1>1, <1>3, <2>1 DEF Longer, Placed
<1> QED BY <1>2, <1>3

\* A style is listed, and then extended.
Styled(list, new, n, e) ==
  \E r \in RecordSet : /\ Placed(list, new, Len(list) + 1, r)
                       /\ r.name = n /\ r.by = e /\ r.parts = Append(Nothing, e)

LEMMA MergedNew ==
  ASSUME NEW list \in Seq(RecordSet), NEW n \in Names, NEW e \in Nat, ~Has(list, n)
  PROVE  Styled(list, PutMerged(list, n, e), n, e)
<1> DEFINE l == PutAlways(list, n, e)
<1>1. Placed(list, l, Len(list) + 1, Record(n, e))
  BY AlwaysIs
<1> HIDE DEF l
<1>2. l \in Seq(RecordSet) /\ Len(l) = Len(list) + 1 /\ Len(list) \in Nat
  BY <1>1 DEF Placed
<1>3. l[Len(list) + 1] = Record(n, e) /\ \A i \in 1 .. Len(list) : l[i] = list[i]
  BY <1>1, <1>2 DEF Placed
<1>4. \A i \in 1 .. Len(l) : l[i].name = n <=> i = Len(list) + 1
  <2>1. Record(n, e).name = n
    BY RecordIs
  <2>2. \A i \in 1 .. Len(list) : list[i].name # n
    BY DEF Has
  <2> QED BY <1>2, <1>3, <2>1, <2>2
<1>5. Has(l, n)
  BY <1>2, <1>4 DEF Has
<1>6. At(l, n) = Len(list) + 1
  BY <1>2, <1>4, <1>5, AtIs
<1> DEFINE r == [Record(n, e) EXCEPT !.parts = Append(@, e)]
<1>7. r \in RecordSet /\ r.name = n /\ r.by = e /\ r.parts = Append(Nothing, e)
  <2>1. PICK x \in RecordSet : x = Record(n, e) /\ x.name = n /\ x.by = e /\ x.parts = Nothing
    BY RecordIs
  <2>2. LET y == [x EXCEPT !.parts = Append(@, e)]
        IN  y \in RecordSet /\ y.name = x.name /\ y.by = x.by /\ y.parts = Append(x.parts, e)
    BY RecordIs
  <2> QED BY <2>1, <2>2
<1>8. Replaced(l, PutPart(l, n, e), Len(list) + 1, r)
  BY <1>2, <1>3, <1>5, <1>6, PartIs
<1> HIDE DEF r
<1>9. Placed(list, PutPart(l, n, e), Len(list) + 1, r)
  BY <1>2, <1>3, <1>8 DEF Placed, Replaced
<1>10. PutMerged(list, n, e) = PutPart(l, n, e)
  BY DEF PutMerged, l
<1> QED BY <1>7, <1>9, <1>10 DEF Styled

LEMMA MergedIs ==
  ASSUME NEW list \in Seq(RecordSet), NEW n \in Names, NEW e \in Nat, Has(list, n)
  PROVE  Replaced(list, PutMerged(list, n, e), At(list, n),
                  [list[At(list, n)] EXCEPT !.parts = Append(@, e)])
BY PartIs DEF PutMerged

LEMMA LastLonger ==
  ASSUME NEW kind, kind \notin {"prop", "grad", "style"},
         NEW list \in Seq(RecordSet), NEW n \in Names, NEW e \in Nat
  PROVE  Longer(kind, list, PutLast(list, n, e))
<1>1. CASE Has(list, n)
  <2>1. list[At(list, n)] \in RecordSet
    BY <1>1, AtIs
  <2> QED BY <1>1, <2>1, LastIs, RecordIs, LongerReplaced
<1>2. CASE ~Has(list, n)
  BY <1>2, LastIs, LongerInserted
<1> QED BY <1>1, <1>2

LEMMA PartLonger ==
  ASSUME NEW kind, NEW list \in Seq(RecordSet), NEW n, Has(list, n), NEW e \in Nat
  PROVE  Longer(kind, list, PutPart(list, n, e))
<1>1. list[At(list, n)] \in RecordSet
  BY AtIs
<1> QED BY <1>1, PartIs, RecordIs, LongerReplaced

LEMMA PutLonger ==
  ASSUME NEW kind \in Kinds, NEW list \in Seq(RecordSet), NEW n \in Names, NEW e \in Nat
  PROVE  Longer(kind, list, Put(kind, list, n, e))
<1>1. CASE kind \in {"const", "font", "image", "timeline"}
  <2>1. Put(kind, list, n, e) = PutFirst(list, n, e)
    BY <1>1 DEF Put
  <2> QED BY <1>1, <2>1, FirstIs, LongerSame, LongerInserted
<1>2. CASE kind \in {"subject", "event"}
  <2>1. Put(kind, list, n, e) = PutLast(list, n, e)
    BY <1>2 DEF Put
  <2> QED BY <1>2, <2>1, LastLonger
<1>3. CASE kind \in {"prop", "grad"}
  <2>1. Put(kind, list, n, e) = PutAlways(list, n, e)
    BY <1>3 DEF Put
  <2> QED BY <1>3, <2>1, AlwaysIs, LongerInserted
<1>4. CASE kind = "style"
  <2>1. Put(kind, list, n, e) = PutMerged(list, n, e)
    BY <1>4 DEF Put
  <2>2. CASE Has(list, n)
    <3>1. PICK x \in RecordSet : x = list[At(list, n)]
      BY <2>2, AtIs
    <3>2. [x EXCEPT !.parts = Append(@, e)].name = x.name
      BY RecordIs
    <3>3. Replaced(list, PutMerged(list, n, e), At(list, n), [x EXCEPT !.parts = Append(@, e)])
      BY <2>2, <3>1, MergedIs
    <3>4. PICK y : y = [x EXCEPT !.parts = Append(@, e)] /\ y.name = x.name
      BY <3>2
    <3>5. Longer(kind, list, PutMerged(list, n, e))
      BY <3>1, <3>3, <3>4, LongerReplaced
    <3> QED BY <2>1, <3>5
  <2>3. CASE ~Has(list, n)
    <3>1. Styled(list, PutMerged(list, n, e), n, e)
      BY <2>3, MergedNew
    <3>2. PICK r \in RecordSet : Placed(list, PutMerged(list, n, e), Len(list) + 1, r)
      BY <3>1 DEF Styled
    <3> QED BY <1>4, <2>1, <3>2, LongerInserted
  <2> QED BY <2>2, <2>3
<1> QED BY <1>1, <1>2, <1>3, <1>4 DEF Kinds

-----------------------------------------------------------------------------
(* The document, what is open of it, and the section.                      *)

\* What the start tag of an element says.
ElementSet == [tag : Blocks \cup Elements \cup Calls \cup Roots, name : Names \cup {NoName},
               ok : BOOLEAN, ref : Names \cup {NoName}, up : Nat, root : Nat]

\* The elements of a document, each inside an earlier one or in none.
DocSound(D) ==
  /\ D \in Seq(ElementSet)
  /\ \A e \in 1 .. Len(D) :
       /\ D[e].up < e /\ D[e].root \in 1 .. e
       /\ D[e].up = 0 => D[e].tag \in Roots \cup Calls
       /\ D[e].tag \in Calls => D[e].name \in Names /\ D[e].up = 0
       /\ D[e].up # 0 => /\ D[e].tag \in Allowed(D[D[e].up].tag)
                         /\ D[e].name = NoName <=> D[e].tag \in Unnamed

\* What is open is a chain of elements from the root of the last document.
OpenSound ==
  /\ into \in Roots \cup {"none"}
  /\ open \in Seq(1 .. Len(doc))
  /\ into = "none" <=> Len(open) = 0
  /\ into # "none" =>
       /\ doc[open[1]].tag = into /\ doc[open[1]].up = 0
       /\ \A e \in open[1] .. Len(doc) : doc[e].root = open[1]
  /\ \A i \in 2 .. Len(open) : doc[open[i]].up = open[i - 1]

\* The section that the tag of the innermost element leaves the parser in.
Fits(sec, tag) ==
  CASE tag \in Roots -> sec = "none"
    [] tag = "prop" -> sec = "api"
    [] tag = "const" -> sec = "consts"
    [] tag = "style" -> sec = "styles"
    [] tag = "file" -> sec = "images"
    [] tag = "bin" -> sec = "fonts"
    [] tag = "subject" -> sec = "subjects"
    [] tag = "grad" -> sec \in {"gradients", "stop"}
    [] tag = "timeline" -> sec \in {"timeline", "none"}
    [] OTHER -> sec = tag

\* A note does not matter.
Level(D, e) == IF D[e].tag = "note" THEN D[D[e].up].tag ELSE D[e].tag

\* state->section is the one the innermost open element leaves, and the document is sound.
SectionSound == into # "none" => Fits(section, Level(doc, open[Len(open)]))

Structure == DocSound(doc) /\ OpenSound /\ SectionSound

LEMMA TagsApart ==
  ASSUME NEW up, NEW tag \in Allowed(up)
  PROVE  /\ tag \in Blocks \cup Elements /\ tag \notin Calls /\ tag \notin Roots
         /\ up \in Blocks \cup Elements \cup Roots /\ up # "note"
  BY DEF Allowed, Blocks, Elements, Calls, Roots

\* Only the elements of a block, a timeline or a gradient stand there.
LEMMA AllowedIs ==
  ASSUME NEW up, NEW tag \in Allowed(up)
  PROVE  /\ tag \in Blocks \cup {"timeline", "view"} => up \in Roots
         /\ tag = "prop" => up = "api"
         /\ up = "consts" <=> tag = "const"
         /\ up = "gradients" <=> tag = "grad"
         /\ up = "grad" <=> tag = "stop"
         /\ up = "styles" <=> tag = "style"
         /\ up = "images" <=> tag = "file"
         /\ up = "fonts" <=> tag = "bin"
         /\ up = "subjects" <=> tag = "subject"
         /\ up = "timeline" <=> tag \in {"animation", "include_timeline"}
         /\ tag = "note" => up \in Roots \cup {"api", "view", "prop"}
  BY DEF Allowed, Blocks, Roots

LEMMA OpensFit ==
  ASSUME NEW up, NEW tag \in Allowed(up), Fits(section, up)
  PROVE  Fits(Opened(tag), IF tag = "note" THEN up ELSE tag)
<1>1. CASE up \in Roots
  BY <1>1 DEF Allowed, Fits, Opened, Openers, Blocks, Roots
<1>2. CASE up \in {"api", "consts", "styles", "images", "fonts", "subjects", "view", "prop"}
  BY <1>2 DEF Allowed, Fits, Opened, Openers, Blocks, Roots
<1>3. CASE up \in {"gradients", "grad", "timeline"}
  BY <1>3 DEF Allowed, Fits, Opened, Openers, Blocks, Roots
<1>4. up \in Roots \/ up \in {"api", "consts", "styles", "images", "fonts", "subjects", "view", "prop"}
        \/ up \in {"gradients", "grad", "timeline"}
  BY DEF Allowed, Roots
<1> QED BY <1>1, <1>2, <1>3, <1>4

LEMMA ClosesFit ==
  ASSUME NEW up, NEW tag \in Allowed(up), Fits(section, IF tag = "note" THEN up ELSE tag)
  PROVE  Fits(Closed(tag), up)
<1>1. CASE up \in Roots
  BY <1>1 DEF Allowed, Fits, Closed, Openers, Blocks, Roots
<1>2. CASE up \in {"api", "consts", "styles", "images", "fonts", "subjects", "view", "prop"}
  BY <1>2 DEF Allowed, Fits, Closed, Openers, Blocks, Roots
<1>3. CASE up \in {"gradients", "grad", "timeline"}
  BY <1>3 DEF Allowed, Fits, Closed, Openers, Blocks, Roots
<1>4. up \in Roots \/ up \in {"api", "consts", "styles", "images", "fonts", "subjects", "view", "prop"}
        \/ up \in {"gradients", "grad", "timeline"}
  BY DEF Allowed, Roots
<1> QED BY <1>1, <1>2, <1>3, <1>4

LEMMA TopIs ==
  ASSUME Structure, into # "none"
  PROVE  /\ Len(open) \in Nat \ {0} /\ open[Len(open)] \in 1 .. Len(doc)
         /\ open[1] \in 1 .. Len(doc) /\ Len(doc) \in Nat
         /\ \A i \in 1 .. Len(open) : open[i] \in 1 .. Len(doc)
         /\ Fits(section, Level(doc, open[Len(open)]))
  BY DEF Structure, OpenSound, SectionSound, DocSound

\* What is known of the next start tag.
LEMMA NextTagIs ==
  ASSUME Structure, into # "none", NEW el \in NextTags
  PROVE  /\ el \in ElementSet /\ el.up = open[Len(open)] /\ el.root = open[1]
         /\ el.tag \in Allowed(doc[el.up].tag)
         /\ el.name = NoName <=> el.tag \in Unnamed
         /\ el.name \in Names \cup {NoName} /\ el.ok \in BOOLEAN
         /\ el.ok \/ el.tag \in Fallible
         /\ el.ref # NoName => el.tag \in {"animation", "include_timeline"}
         /\ "latch" \notin Mishaps /\ el.tag = "timeline" =>
              el.ok /\ ~Has(work.lists["timeline"], el.name)
<1> DEFINE R == [tag : tags \ Calls, name : Names \cup {NoName}, ok : BOOLEAN,
                 ref : Names \cup {NoName}, up : {open[Len(open)]}, root : {open[1]}]
<1>1. /\ el \in R /\ el.tag \in Allowed(doc[el.up].tag)
      /\ el.name = NoName <=> el.tag \in Unnamed
      /\ el.ok \/ el.tag \in Fallible
      /\ el.ref # NoName => el.tag \in {"animation", "include_timeline"}
      /\ "latch" \notin Mishaps /\ el.tag = "timeline" =>
           el.ok /\ ~Has(work.lists["timeline"], el.name)
  BY DEF NextTags
<1>2. el.tag \in Blocks \cup Elements \cup Calls \cup Roots
  BY <1>1, TagsApart
<1>3. open[Len(open)] \in Nat /\ open[1] \in Nat
  BY TopIs
<1>4. el \in ElementSet /\ el.up = open[Len(open)] /\ el.root = open[1] /\ el.ok \in BOOLEAN
        /\ el.name \in Names \cup {NoName}
  BY <1>1, <1>2, <1>3 DEF ElementSet
<1> QED BY <1>1, <1>4

\* A document with an element more.
LEMMA DocGrows ==
  ASSUME NEW D, DocSound(D), NEW el \in ElementSet,
         el.up < Len(D) + 1, el.root \in 1 .. Len(D) + 1,
         el.up = 0 => el.tag \in Roots \cup Calls,
         el.tag \in Calls => el.name \in Names /\ el.up = 0,
         el.up # 0 => /\ el.tag \in Allowed(D[el.up].tag)
                      /\ el.name = NoName <=> el.tag \in Unnamed
  PROVE  /\ DocSound(Append(D, el)) /\ Len(Append(D, el)) = Len(D) + 1 /\ Len(D) \in Nat
         /\ Append(D, el)[Len(D) + 1] = el
         /\ \A e \in 1 .. Len(D) : Append(D, el)[e] = D[e]
<1> DEFINE E == Append(D, el)
<1>1. D \in Seq(ElementSet) /\ Len(D) \in Nat
  BY DEF DocSound
<1>2. /\ E \in Seq(ElementSet) /\ Len(E) = Len(D) + 1 /\ E[Len(D) + 1] = el
      /\ \A e \in 1 .. Len(D) : E[e] = D[e]
  BY <1>1, AppendProperties
<1> HIDE DEF E
<1>3. el.up \in Nat
  BY DEF ElementSet
<1>4. ASSUME NEW e \in 1 .. Len(E)
      PROVE  /\ E[e].up < e /\ E[e].root \in 1 .. e
             /\ E[e].up = 0 => E[e].tag \in Roots \cup Calls
             /\ E[e].tag \in Calls => E[e].name \in Names /\ E[e].up = 0
             /\ E[e].up # 0 => /\ E[e].tag \in Allowed(E[E[e].up].tag)
                               /\ E[e].name = NoName <=> E[e].tag \in Unnamed
  <2>1. CASE e = Len(D) + 1
    <3>1. E[e] = el
      BY <1>2, <2>1
    <3>2. el.up # 0 => E[el.up] = D[el.up]
      BY <1>1, <1>2, <1>3
    <3> QED BY <1>1, <2>1, <3>1, <3>2
  <2>2. CASE e # Len(D) + 1
    <3>1. e \in 1 .. Len(D) /\ E[e] = D[e]
      BY <1>1, <1>2, <2>2
    <3>2. D[e].up \in Nat
      <4>1. D[e] \in ElementSet
        BY <1>1, <3>1
      <4> QED BY <4>1 DEF ElementSet
    <3>3. D[e].up < e
      BY <3>1 DEF DocSound
    <3>4. D[e].up # 0 => E[D[e].up] = D[D[e].up]
      BY <1>1, <1>2, <3>1, <3>2, <3>3
    <3> QED BY <3>1, <3>4 DEF DocSound
  <2> QED BY <2>1, <2>2
<1>5. DocSound(E)
  BY <1>2, <1>4 DEF DocSound
<1> QED BY <1>1, <1>2, <1>5 DEF E

LEMMA StructureStarts ==
  ASSUME MetadataInit PROVE Structure
  BY DEF MetadataInit, Structure, DocSound, OpenSound, SectionSound

\* What an element added to the document does to what is open.
LEMMA OpenGrows ==
  ASSUME DocSound(doc), DocSound(doc'), Len(doc') = Len(doc) + 1,
         \A e \in 1 .. Len(doc) : doc'[e] = doc[e]
  PROVE  /\ open \in Seq(1 .. Len(doc)) => open \in Seq(1 .. Len(doc'))
         /\ \A e \in 1 .. Len(doc) : Level(doc', e) = Level(doc, e)
<1>1. Len(doc) \in Nat
  BY DEF DocSound
<1>2. \A e \in 1 .. Len(doc) : e \in 1 .. Len(doc')
  BY <1>1
<1>3. open \in Seq(1 .. Len(doc)) => open \in Seq(1 .. Len(doc'))
  BY <1>2, SeqMonotonic
<1>4. ASSUME NEW e \in 1 .. Len(doc)
      PROVE  Level(doc', e) = Level(doc, e)
  <2>1. doc[e] \in ElementSet /\ doc[e].up < e
    BY DEF DocSound
  <2>2. doc[e].up \in Nat
    BY <2>1 DEF ElementSet
  <2>3. doc[e].tag = "note" => doc[e].up # 0
    BY DEF DocSound, Roots, Calls
  <2>4. doc[e].tag = "note" => doc[e].up \in 1 .. Len(doc)
    BY <1>1, <2>1, <2>2, <2>3
  <2> QED BY <2>4 DEF Level
<1> QED BY <1>3, <1>4

RootElement(root, e) == [tag |-> root, name |-> NoName, ok |-> TRUE, ref |-> NoName, up |-> 0, root |-> e]

LEMMA BeginKeeps ==
  ASSUME Structure, NEW root \in Roots, Begin(root)
  PROVE  /\ Structure'
         /\ doc' = Append(doc, RootElement(root, Len(doc) + 1))
         /\ DocSound(doc) /\ DocSound(doc')
         /\ Len(doc) \in Nat /\ Len(doc') = Len(doc) + 1
         /\ doc'[Len(doc) + 1] = RootElement(root, Len(doc) + 1)
         /\ \A e \in 1 .. Len(doc) : doc'[e] = doc[e]
<1> DEFINE n == Len(doc)
           el == RootElement(root, n + 1)
<1>1. DocSound(doc) /\ n \in Nat
  BY DEF Structure, DocSound
<1>2. doc' = Append(doc, el) /\ open' = <<n + 1>> /\ into' = root /\ section' = "none"
  BY DEF Begin, RootElement
<1>3. el \in ElementSet /\ el.up = 0 /\ el.root = n + 1 /\ el.tag = root
  BY <1>1 DEF ElementSet, RootElement
<1>4. root \notin Calls
  BY DEF Roots, Calls
<1> HIDE DEF el
<1>5. /\ DocSound(doc') /\ Len(doc') = n + 1 /\ doc'[n + 1] = el
      /\ \A e \in 1 .. n : doc'[e] = doc[e]
  BY <1>1, <1>2, <1>3, <1>4, DocGrows
<1>6. open' \in Seq(1 .. Len(doc')) /\ Len(open') = 1 /\ open'[1] = n + 1
  BY <1>1, <1>2, <1>5
<1>7. OpenSound'
  <2>1. \A e \in open'[1] .. Len(doc') : doc'[e].root = open'[1]
    BY <1>1, <1>3, <1>5, <1>6
  <2>2. root # "none"
    BY DEF Roots
  <2> QED BY <1>2, <1>3, <1>5, <1>6, <2>1, <2>2 DEF OpenSound
<1>8. SectionSound'
  <2>1. Level(doc', n + 1) = root
    BY <1>3, <1>5 DEF Level, Roots
  <2>2. open'[Len(open')] = n + 1
    BY <1>6
  <2>3. Fits("none", root)
    BY DEF Fits, Roots
  <2> QED BY <1>2, <2>1, <2>2, <2>3 DEF SectionSound
<1> QED BY <1>1, <1>2, <1>5, <1>7, <1>8 DEF Structure, el

LEMMA StartKeeps ==
  ASSUME Structure, into # "none", NEW el \in NextTags, NEW oom, Start(el, oom)
  PROVE  /\ Structure'
         /\ doc' = Append(doc, el) /\ open' = Append(open, Len(doc) + 1) /\ into' = into
         /\ DocSound(doc) /\ DocSound(doc')
         /\ Len(doc) \in Nat /\ Len(doc') = Len(doc) + 1 /\ doc'[Len(doc) + 1] = el
         /\ \A e \in 1 .. Len(doc) : doc'[e] = doc[e]
         /\ Len(open) \in Nat /\ Len(open') = Len(open) + 1 /\ open'[Len(open) + 1] = Len(doc) + 1
         /\ \A i \in 1 .. Len(open) : open'[i] = open[i]
<1> DEFINE n == Len(doc)
           m == Len(open)
<1>1. DocSound(doc) /\ n \in Nat
  BY DEF Structure, DocSound
<1>2. doc' = Append(doc, el) /\ open' = Append(open, n + 1) /\ into' = into /\ section' = Opened(el.tag)
  BY DEF Start
<1>3. /\ m \in Nat \ {0} /\ open[m] \in 1 .. n /\ open[1] \in 1 .. n
      /\ \A i \in 1 .. m : open[i] \in 1 .. n
      /\ Fits(section, Level(doc, open[m]))
  BY TopIs
<1>4. /\ el \in ElementSet /\ el.up = open[m] /\ el.root = open[1]
      /\ el.tag \in Allowed(doc[el.up].tag)
      /\ el.name = NoName <=> el.tag \in Unnamed
  BY NextTagIs
<1>5. el.tag \notin Calls /\ el.tag \notin Roots /\ doc[el.up].tag # "note"
  BY <1>4, TagsApart
<1>6. el.up < n + 1 /\ el.root \in 1 .. n + 1 /\ el.up # 0
  BY <1>1, <1>3, <1>4
<1>7. /\ DocSound(doc') /\ Len(doc') = n + 1 /\ doc'[n + 1] = el
      /\ \A e \in 1 .. n : doc'[e] = doc[e]
  BY <1>1, <1>2, <1>4, <1>5, <1>6, DocGrows
<1>8. open \in Seq(1 .. n) /\ open \in Seq(1 .. Len(doc'))
  BY <1>1, <1>7, OpenGrows DEF Structure, OpenSound
<1>9. /\ open' \in Seq(1 .. Len(doc')) /\ Len(open') = m + 1 /\ open'[m + 1] = n + 1
      /\ \A i \in 1 .. m : open'[i] = open[i]
  <2>1. n + 1 \in 1 .. Len(doc')
    BY <1>1, <1>7
  <2> QED BY <1>2, <1>8, <2>1, AppendProperties
<1>10. OpenSound'
  <2>1. /\ into \in Roots \cup {"none"}
        /\ doc[open[1]].tag = into /\ doc[open[1]].up = 0
        /\ \A e \in open[1] .. n : doc[e].root = open[1]
        /\ \A i \in 2 .. m : doc[open[i]].up = open[i - 1]
    BY DEF Structure, OpenSound
  <2>2. open'[1] = open[1] /\ doc'[open[1]] = doc[open[1]]
    BY <1>3, <1>7, <1>9
  <2>3. ASSUME NEW e \in open'[1] .. Len(doc') PROVE doc'[e].root = open'[1]
    <3>1. CASE e = n + 1
      BY <1>4, <1>7, <2>2, <3>1
    <3>2. CASE e # n + 1
      <4>1. open[1] \in Nat /\ e \in open[1] .. n /\ e \in 1 .. n
        BY <1>1, <1>3, <1>7, <2>2, <3>2
      <4>2. doc'[e] = doc[e] /\ doc[e].root = open[1]
        BY <1>7, <2>1, <4>1
      <4> QED BY <2>2, <4>2
    <3> QED BY <3>1, <3>2
  <2>4. ASSUME NEW i \in 2 .. Len(open') PROVE doc'[open'[i]].up = open'[i - 1]
    <3>1. CASE i = m + 1
      <4>1. open'[i] = n + 1 /\ i - 1 = m /\ open'[m] = open[m]
        BY <1>3, <1>9, <3>1
      <4> QED BY <1>4, <1>7, <4>1
    <3>2. CASE i # m + 1
      <4>1. i \in 2 .. m /\ i \in 1 .. m /\ i - 1 \in 1 .. m
        BY <1>3, <1>9, <3>2
      <4>2. open'[i] = open[i] /\ open'[i - 1] = open[i - 1] /\ doc'[open[i]] = doc[open[i]]
        BY <1>3, <1>7, <1>9, <4>1
      <4>3. doc[open[i]].up = open[i - 1]
        BY <2>1, <4>1
      <4> QED BY <4>2, <4>3
    <3> QED BY <3>1, <3>2
  <2>5. /\ into' \in Roots \cup {"none"} /\ into' # "none" /\ Len(open') # 0
        /\ doc'[open'[1]].tag = into' /\ doc'[open'[1]].up = 0
    BY <1>2, <1>3, <1>9, <2>1, <2>2
  <2> QED BY <1>9, <2>3, <2>4, <2>5 DEF OpenSound
<1>11. SectionSound'
  <2>1. Level(doc, open[m]) = doc[el.up].tag
    BY <1>4, <1>5 DEF Level
  <2>2. Fits(Opened(el.tag), IF el.tag = "note" THEN doc[el.up].tag ELSE el.tag)
    BY <1>3, <1>4, <2>1, OpensFit
  <2>3. doc'[el.up] = doc[el.up]
    BY <1>3, <1>4, <1>7
  <2>4. Level(doc', n + 1) = IF el.tag = "note" THEN doc[el.up].tag ELSE el.tag
    BY <1>7, <2>3 DEF Level
  <2> QED BY <1>2, <1>9, <2>2, <2>4 DEF SectionSound
<1> QED BY <1>1, <1>2, <1>3, <1>7, <1>9, <1>10, <1>11 DEF Structure

LEMMA EndKeeps ==
  ASSUME Structure, End
  PROVE  /\ Structure' /\ into' = into /\ doc' = doc /\ into # "none"
         /\ Len(open) \in Nat /\ Len(open') = Len(open) - 1
         /\ \A i \in 1 .. Len(open') : open'[i] = open[i]
<1> DEFINE n == Len(doc)
           m == Len(open)
<1>1. /\ m > 1 /\ open' = SubSeq(open, 1, m - 1) /\ doc' = doc /\ into' = into
      /\ section' = Closed(doc[open[m]].tag)
  BY DEF End
<1>2. into # "none" /\ open \in Seq(1 .. n)
  BY <1>1 DEF Structure, OpenSound
<1>3. /\ m \in Nat \ {0} /\ \A i \in 1 .. m : open[i] \in 1 .. n
      /\ Fits(section, Level(doc, open[m]))
  BY <1>2, TopIs
<1>4. /\ open' \in Seq(1 .. n) /\ Len(open') = m - 1
      /\ \A i \in 1 .. m - 1 : open'[i] = open[i]
  BY <1>1, <1>2, <1>3, SubSeqProperties
<1>5. OpenSound'
  <2>1. OpenSound /\ into' # "none" /\ into' = into /\ doc' = doc /\ Len(open') >= 1
    BY <1>1, <1>2, <1>3, <1>4 DEF Structure
  <2>2. open'[1] = open[1] /\ \A i \in 2 .. m - 1 : open'[i] = open[i] /\ open'[i - 1] = open[i - 1]
    BY <1>1, <1>3, <1>4
  <2> HIDE DEF m
  <2>3. \A i \in 2 .. Len(open') : doc'[open'[i]].up = open'[i - 1]
    <3> SUFFICES ASSUME NEW i \in 2 .. Len(open') PROVE doc'[open'[i]].up = open'[i - 1]
      OBVIOUS
    <3>1. i \in 2 .. m /\ i \in 2 .. m - 1
      BY <1>3, <1>4
    <3>2. doc[open[i]].up = open[i - 1]
      BY <2>1, <3>1 DEF OpenSound, m
    <3> QED BY <2>1, <2>2, <3>1, <3>2
  <2> QED BY <1>2, <1>4, <2>1, <2>2, <2>3 DEF OpenSound
<1>6. SectionSound'
  <2>1. doc[open[m]].up = open[m - 1] /\ open[m - 1] \in 1 .. n /\ open[m] \in 1 .. n
    BY <1>1, <1>3 DEF Structure, OpenSound
  <2>2. doc[open[m]].tag \in Allowed(doc[open[m - 1]].tag)
    BY <2>1 DEF Structure, DocSound
  <2>3. doc[open[m - 1]].tag # "note"
    BY <2>2, TagsApart
  <2>4. Level(doc, open[m]) = IF doc[open[m]].tag = "note" THEN doc[open[m - 1]].tag ELSE doc[open[m]].tag
    BY <2>1 DEF Level
  <2>5. Fits(Closed(doc[open[m]].tag), doc[open[m - 1]].tag)
    BY <1>3, <2>2, <2>4, ClosesFit
  <2>6. Level(doc, open[m - 1]) = doc[open[m - 1]].tag /\ open'[Len(open')] = open[m - 1]
    BY <1>1, <1>3, <1>4, <2>3 DEF Level
  <2> QED BY <1>1, <2>5, <2>6 DEF SectionSound
<1> QED BY <1>1, <1>2, <1>3, <1>4, <1>5, <1>6 DEF Structure

LEMMA FinishKeeps ==
  ASSUME Structure, NEW ok, Finish(ok) PROVE Structure' /\ into' = "none" /\ doc' = doc
<1>1. open' = <<>> /\ into' = "none" /\ doc' = doc
  BY DEF Finish
<1>2. open' \in Seq(1 .. Len(doc)) /\ Len(open') = 0
  BY <1>1
<1> QED BY <1>1, <1>2 DEF Structure, OpenSound, SectionSound

CallElement(fn, n, e) == [tag |-> fn, name |-> n, ok |-> TRUE, ref |-> NoName, up |-> 0, root |-> e]

LEMMA CallKeeps ==
  ASSUME Structure, NEW fn \in Calls, NEW s \in Roots, NEW n \in Names, Call(fn, s, n)
  PROVE  /\ Structure' /\ into = "none"
         /\ doc' = Append(doc, CallElement(fn, n, Len(doc) + 1))
         /\ DocSound(doc) /\ DocSound(doc')
         /\ Len(doc) \in Nat /\ Len(doc') = Len(doc) + 1
         /\ doc'[Len(doc) + 1] = CallElement(fn, n, Len(doc) + 1)
         /\ \A e \in 1 .. Len(doc) : doc'[e] = doc[e]
<1> DEFINE k == Len(doc)
           el == CallElement(fn, n, k + 1)
<1>1. DocSound(doc) /\ k \in Nat
  BY DEF Structure, DocSound
<1>2. doc' = Append(doc, el) /\ open' = open /\ into' = into /\ into = "none"
  BY DEF Call, CallElement
<1>3. el \in ElementSet /\ el.up = 0 /\ el.root = k + 1 /\ el.tag = fn /\ el.name = n
  BY <1>1 DEF ElementSet, CallElement
<1> HIDE DEF el
<1>5. /\ DocSound(doc') /\ Len(doc') = k + 1 /\ doc'[k + 1] = el
      /\ \A e \in 1 .. k : doc'[e] = doc[e]
  BY <1>1, <1>2, <1>3, DocGrows
<1>6. open \in Seq(1 .. k) /\ Len(open) = 0
  BY <1>2 DEF Structure, OpenSound
<1>7. open' \in Seq(1 .. Len(doc'))
  BY <1>1, <1>2, <1>5, <1>6, OpenGrows
<1>8. OpenSound' /\ SectionSound'
  BY <1>2, <1>6, <1>7 DEF OpenSound, SectionSound
<1> QED BY <1>1, <1>2, <1>5, <1>8 DEF Structure, el

LEMMA StructureStays ==
  ASSUME Structure, UNCHANGED <<doc, open, into, section>> PROVE Structure'
  BY DEF Structure, DocSound, OpenSound, SectionSound, Level, Fits

-----------------------------------------------------------------------------
(* What a start tag does.                                                  *)

\* The registry that an element of a block belongs to.
KindOf(tag) ==
  CASE tag = "file" -> "image"
    [] tag = "bin" -> "font"
    [] OTHER -> tag

\* What is declared inside a block.
Listed == {"prop", "const", "grad", "style", "file", "bin", "subject"}

LEMMA TagIs ==
  ASSUME NEW up, NEW tag \in Allowed(up)
  PROVE  tag \in Listed \cup Blocks \cup {"note", "view", "timeline", "stop", "animation", "include_timeline"}
  BY DEF Allowed, Blocks, Listed

\* The section is that of the block that the element stands in.
LEMMA SectionIs ==
  ASSUME NEW up, NEW tag \in Allowed(up), Fits(section, up)
  PROVE  /\ tag \in Blocks => section = "none" /\ Opened(tag) = tag
         /\ tag = "timeline" => Opened(tag) = "timeline"
         /\ tag \in {"animation", "include_timeline"} => Opened(tag) = tag
         /\ tag = "stop" => Opened(tag) = "stop"
         /\ tag \in Listed \cup {"note"} => Opened(tag) = section
         /\ tag = "prop" => section = "api"
         /\ tag = "const" => section = "consts"
         /\ tag = "grad" => section = "gradients"
         /\ tag = "style" => section = "styles"
         /\ tag = "file" => section = "images"
         /\ tag = "bin" => section = "fonts"
         /\ tag = "subject" => section = "subjects"
         /\ tag = "note" => section \in {"none", "api", "view"}
<1>1. CASE up \in Roots
  BY <1>1 DEF Allowed, Fits, Opened, Openers, Blocks, Roots, Listed
<1>2. CASE up \in {"api", "consts", "styles", "images", "fonts", "subjects", "view", "prop"}
  BY <1>2 DEF Allowed, Fits, Opened, Openers, Blocks, Roots, Listed
<1>3. CASE up \in {"gradients", "grad", "timeline"}
  BY <1>3 DEF Allowed, Fits, Opened, Openers, Blocks, Roots, Listed
<1>4. up \in Roots \/ up \in {"api", "consts", "styles", "images", "fonts", "subjects", "view", "prop"}
        \/ up \in {"gradients", "grad", "timeline"}
  BY DEF Allowed, Roots
<1> QED BY <1>1, <1>2, <1>3, <1>4

LEMMA StartDoes ==
  ASSUME Structure, into # "none", NEW el \in NextTags, NEW oom, Start(el, oom)
  PROVE  /\ el.tag = "view" => work' = [work EXCEPT !.view = Len(doc) + 1] /\ UNCHANGED <<context, scopes>>
         /\ el.tag = "timeline" => Timeline(el, Len(doc) + 1, oom) /\ UNCHANGED scopes
         /\ el.tag \in {"animation", "include_timeline"} => Animation(el, Len(doc) + 1, oom) /\ UNCHANGED context
         /\ el.tag = "stop" => Stop(Len(doc) + 1) /\ UNCHANGED <<context, scopes>>
         /\ el.tag \in Listed =>
              /\ work' = IF el.ok /\ ~oom THEN With(work, KindOf(el.tag), el.name, Len(doc) + 1) ELSE work
              /\ UNCHANGED <<context, scopes>>
         /\ el.tag \in Blocks \cup {"note"} => UNCHANGED <<work, context, scopes>>
<1> DEFINE e == Len(doc) + 1
           sec == Opened(el.tag)
           up == doc[el.up].tag
<1>1. el.tag \in Allowed(up) /\ el.up = open[Len(open)]
  BY NextTagIs
<1>2. up # "note" /\ Fits(section, up)
  BY <1>1, TagsApart, TopIs DEF Level
<1> HIDE DEF up, sec, e
<1>3. (CASE el.tag = "view" -> work' = [work EXCEPT !.view = e] /\ UNCHANGED <<context, scopes>>
        [] sec = "timeline" -> Timeline(el, e, oom) /\ UNCHANGED scopes
        [] sec \in {"animation", "include_timeline"} -> Animation(el, e, oom) /\ UNCHANGED context
        [] sec = "stop" -> Stop(e) /\ UNCHANGED <<context, scopes>>
        [] OTHER -> Declaration(sec, el, e, oom) /\ UNCHANGED <<context, scopes>>)
  BY DEF Start, e, sec
<1>4. ASSUME el.tag = "view"
      PROVE  work' = [work EXCEPT !.view = e] /\ UNCHANGED <<context, scopes>>
  <2>1. sec = "view"
    BY <1>4 DEF sec, Opened, Openers
  <2> QED BY <1>3, <1>4, <2>1
<1>5. ASSUME el.tag = "timeline"
      PROVE  Timeline(el, e, oom) /\ UNCHANGED scopes
  <2>1. sec = "timeline"
    BY <1>1, <1>2, <1>5, SectionIs DEF sec
  <2> QED BY <1>3, <1>5, <2>1
<1>6. ASSUME el.tag \in {"animation", "include_timeline"}
      PROVE  Animation(el, e, oom) /\ UNCHANGED context
  <2>1. sec = el.tag
    BY <1>1, <1>2, <1>6, SectionIs DEF sec
  <2> QED BY <1>3, <1>6, <2>1
<1>7. ASSUME el.tag = "stop"
      PROVE  Stop(e) /\ UNCHANGED <<context, scopes>>
  <2>1. sec = "stop"
    BY <1>1, <1>2, <1>7, SectionIs DEF sec
  <2> QED BY <1>3, <1>7, <2>1
<1>8. ASSUME el.tag \in Listed
      PROVE  /\ work' = IF el.ok /\ ~oom THEN With(work, KindOf(el.tag), el.name, e) ELSE work
             /\ UNCHANGED <<context, scopes>>
  <2>1. /\ sec = section
        /\ el.tag = "prop" => sec = "api"
        /\ el.tag = "const" => sec = "consts"
        /\ el.tag = "grad" => sec = "gradients"
        /\ el.tag = "style" => sec = "styles"
        /\ el.tag = "file" => sec = "images"
        /\ el.tag = "bin" => sec = "fonts"
        /\ el.tag = "subject" => sec = "subjects"
    BY <1>1, <1>2, <1>8, SectionIs DEF sec
  <2>2. Declares(sec, el) = KindOf(el.tag) /\ KindOf(el.tag) # "none"
    BY <1>8, <2>1 DEF Declares, KindOf, Listed
  <2>3. sec \in Blocks /\ el.tag # "view"
    BY <1>8, <2>1 DEF Listed, Blocks
  <2>4. Declaration(sec, el, e, oom) /\ UNCHANGED <<context, scopes>>
    BY <1>3, <2>3 DEF Blocks
  <2> QED BY <2>1, <2>2, <2>4 DEF Declaration
<1>9. ASSUME el.tag \in Blocks \cup {"note"}
      PROVE  UNCHANGED <<work, context, scopes>>
  <2>1. /\ el.tag \in Blocks => section = "none" /\ sec = el.tag
        /\ el.tag = "note" => sec = section /\ section \in {"none", "api", "view"}
    BY <1>1, <1>2, <1>9, SectionIs DEF sec
  <2>2. sec \in Blocks \cup {"none", "view"} /\ el.tag # "view"
    BY <1>9, <2>1 DEF Blocks
  <2>3. Declaration(sec, el, e, oom) /\ UNCHANGED <<context, scopes>>
    BY <1>3, <2>2 DEF Blocks
  <2>4. sec # section \/ Declares(sec, el) = "none"
    BY <1>9, <2>1 DEF Declares, Blocks
  <2> QED BY <2>3, <2>4 DEF Declaration
<1> QED BY <1>4, <1>5, <1>6, <1>7, <1>8, <1>9 DEF e

\* An element that is recorded has a name.
LEMMA NamedIs ==
  ASSUME Structure, into # "none", NEW el \in NextTags, el.tag \in Listed \cup {"timeline"}
  PROVE  el.name \in Names /\ KindOf(el.tag) \in Kinds
<1>1. el.tag \notin Unnamed
  BY DEF Listed, Unnamed, Blocks
<1>2. KindOf(el.tag) \in Kinds
  BY DEF Listed, KindOf, Kinds
<1> QED BY <1>1, <1>2, NextTagIs

-----------------------------------------------------------------------------
(* The scopes.                                                             *)

\* The scopes.
ScopeSet == [lists : [Kinds -> Seq(RecordSet)], view : Int, from : SUBSET Nat]

\* Every list of a scope has grown.
LongerScope(old, new) == \A k \in Kinds : Longer(k, old.lists[k], new.lists[k])

\* Records stem from elements of the document.
Dated(list, n) == \A i \in 1 .. Len(list) : list[i].by \in 1 .. n
DatedScope(s, n) == \A k \in Kinds : Dated(s.lists[k], n)

LEMMA ScopeIs ==
  /\ EmptyScope \in ScopeSet /\ NoScope \in ScopeSet
  /\ \A k \in Kinds : EmptyScope.lists[k] = Nothing /\ NoScope.lists[k] = Nothing
  /\ EmptyScope.view = 0 /\ NoScope.view = -1 /\ EmptyScope.from = {} /\ NoScope.from = {}
  /\ \A s \in ScopeSet : /\ s.view \in Int /\ s.from \in SUBSET Nat
                         /\ \A k \in Kinds : s.lists[k] \in Seq(RecordSet)
<1> DEFINE none == [k \in Kinds |-> Nothing]
<1>1. none \in [Kinds -> Seq(RecordSet)] /\ \A k \in Kinds : none[k] = Nothing
  <2>1. Nothing \in Seq(RecordSet)
    BY DEF Nothing
  <2> QED BY <2>1
<1>2. EmptyScope = [lists |-> none, view |-> 0, from |-> {}]
  BY DEF EmptyScope, Nothing
<1> HIDE DEF none
<1>3. /\ EmptyScope \in ScopeSet /\ EmptyScope.lists = none
      /\ EmptyScope.view = 0 /\ EmptyScope.from = {}
  BY <1>1, <1>2 DEF ScopeSet
<1>4. NoScope = [lists |-> none, view |-> -1, from |-> {}]
  BY <1>2 DEF NoScope
<1>5. NoScope \in ScopeSet /\ NoScope.lists = none /\ NoScope.view = -1 /\ NoScope.from = {}
  BY <1>1, <1>4 DEF ScopeSet
<1>6. ASSUME NEW s \in ScopeSet
      PROVE  /\ s.view \in Int /\ s.from \in SUBSET Nat
             /\ \A k \in Kinds : s.lists[k] \in Seq(RecordSet)
  BY DEF ScopeSet
<1> QED BY <1>1, <1>3, <1>5, <1>6

\* A scope with a list changed.
Changed(s, t, kind, list) ==
  /\ t \in ScopeSet /\ t.view = s.view /\ t.from = s.from /\ t.lists[kind] = list
  /\ \A k \in Kinds \ {kind} : t.lists[k] = s.lists[k]

LEMMA ChangedIs ==
  ASSUME NEW s \in ScopeSet, NEW kind \in Kinds, NEW list \in Seq(RecordSet)
  PROVE  Changed(s, [s EXCEPT !.lists[kind] = list], kind, list)
BY DEF Changed, ScopeSet

LEMMA ViewIs ==
  ASSUME NEW s \in ScopeSet, NEW e \in Nat
  PROVE  LET t == [s EXCEPT !.view = e]
         IN  t \in ScopeSet /\ t.lists = s.lists /\ t.from = s.from /\ t.view = e
BY DEF ScopeSet

LEMMA FromIs ==
  ASSUME NEW s \in ScopeSet, NEW e \in Nat
  PROVE  LET t == [s EXCEPT !.from = @ \cup {e}]
         IN  t \in ScopeSet /\ t.lists = s.lists /\ t.from = s.from \cup {e} /\ t.view = s.view
<1>1. s.from \cup {e} \in SUBSET Nat
  BY DEF ScopeSet
<1>2. PICK f \in SUBSET Nat : f = s.from \cup {e}
  BY <1>1
<1>3. LET t == [s EXCEPT !.from = f]
      IN  t \in ScopeSet /\ t.lists = s.lists /\ t.from = f /\ t.view = s.view
  BY DEF ScopeSet
<1> QED BY <1>2, <1>3

LEMMA ChangedLonger ==
  ASSUME NEW s \in ScopeSet, NEW t, NEW kind \in Kinds, NEW list,
         Changed(s, t, kind, list), Longer(kind, s.lists[kind], list)
  PROVE  LongerScope(s, t)
<1>1. ASSUME NEW k \in Kinds PROVE Longer(k, s.lists[k], t.lists[k])
  <2>1. s.lists[k] \in Seq(RecordSet)
    BY ScopeIs
  <2> QED BY <2>1, LongerSame DEF Changed
<1> QED BY <1>1 DEF LongerScope

LEMMA LongerScopeSame ==
  ASSUME NEW s \in ScopeSet PROVE LongerScope(s, s)
BY ScopeIs, LongerSame DEF LongerScope

LEMMA LongerScopeStill ==
  ASSUME NEW a, NEW b, NEW c, LongerScope(a, b), LongerScope(b, c) PROVE LongerScope(a, c)
<1> SUFFICES ASSUME NEW k \in Kinds PROVE Longer(k, a.lists[k], c.lists[k])
  BY DEF LongerScope
<1>1. Longer(k, a.lists[k], b.lists[k]) /\ Longer(k, b.lists[k], c.lists[k])
  BY DEF LongerScope
<1> QED BY <1>1, LongerStill

LEMMA LongerHas ==
  ASSUME NEW kind, NEW a, NEW b, Longer(kind, a, b), NEW n, Has(a, n)
  PROVE  Has(b, n)
<1>1. PICK i \in 1 .. Len(a) : a[i].name = n
  BY DEF Has
<1>2. Len(a) \in Nat /\ Len(b) \in Nat /\ Len(a) <= Len(b)
  BY DEF Longer
<1>3. CASE kind \in {"prop", "grad", "style"}
  <2>1. i \in 1 .. Len(b) /\ b[i].name = n
    BY <1>1, <1>2, <1>3 DEF Longer
  <2> QED BY <2>1 DEF Has
<1>4. CASE kind \notin {"prop", "grad", "style"}
  <2>1. Len(b) - Len(a) + i \in 1 .. Len(b) /\ b[Len(b) - Len(a) + i].name = n
    BY <1>1, <1>2, <1>4 DEF Longer
  <2> QED BY <2>1 DEF Has
<1> QED BY <1>3, <1>4

LEMMA InsertedHas ==
  ASSUME NEW list, NEW new, NEW at, NEW r, Placed(list, new, at, r) \/ Replaced(list, new, at, r)
  PROVE  Has(new, r.name)
<1>1. at \in 1 .. Len(new) /\ new[at] = r
  BY DEF Placed, Replaced
<1> QED BY <1>1 DEF Has

LEMMA PutHas ==
  ASSUME NEW kind \in Kinds, NEW list \in Seq(RecordSet), NEW n \in Names, NEW e \in Nat
  PROVE  Has(Put(kind, list, n, e), n)
<1>0. Record(n, e).name = n
  BY RecordIs
<1>1. CASE Has(list, n)
  BY <1>1, PutLonger, LongerHas
<1>2. CASE ~Has(list, n)
  <2>1. CASE kind \in {"const", "font", "image", "timeline"}
    <3>1. Put(kind, list, n, e) = PutFirst(list, n, e)
      BY <2>1 DEF Put
    <3>2. Placed(list, PutFirst(list, n, e), 1, Record(n, e))
      BY <1>2, FirstIs
    <3> QED BY <1>0, <3>1, <3>2, InsertedHas
  <2>2. CASE kind \in {"subject", "event"}
    <3>1. Put(kind, list, n, e) = PutLast(list, n, e)
      BY <2>2 DEF Put
    <3>2. Placed(list, PutLast(list, n, e), 1, Record(n, e))
      BY <1>2, LastIs
    <3> QED BY <1>0, <3>1, <3>2, InsertedHas
  <2>3. CASE kind \in {"prop", "grad"}
    <3>1. Put(kind, list, n, e) = PutAlways(list, n, e)
      BY <2>3 DEF Put
    <3>2. Placed(list, PutAlways(list, n, e), Len(list) + 1, Record(n, e))
      BY AlwaysIs
    <3> QED BY <1>0, <3>1, <3>2, InsertedHas
  <2>4. CASE kind = "style"
    <3>1. Put(kind, list, n, e) = PutMerged(list, n, e)
      BY <2>4 DEF Put
    <3>0. Styled(list, PutMerged(list, n, e), n, e)
      BY <1>2, MergedNew
    <3>2. PICK r \in RecordSet : Placed(list, PutMerged(list, n, e), Len(list) + 1, r) /\ r.name = n
      BY <3>0 DEF Styled
    <3>3. Has(PutMerged(list, n, e), r.name)
      BY <3>2, InsertedHas
    <3> QED BY <3>1, <3>2, <3>3
  <2> QED BY <2>1, <2>2, <2>3, <2>4 DEF Kinds
<1> QED BY <1>1, <1>2

LEMMA WithIs ==
  ASSUME NEW s \in ScopeSet, NEW kind \in Kinds, NEW n \in Names, NEW e \in Nat
  PROVE  /\ Changed(s, With(s, kind, n, e), kind, Put(kind, s.lists[kind], n, e))
         /\ LongerScope(s, With(s, kind, n, e))
         /\ Has(With(s, kind, n, e).lists[kind], n)
<1>1. s.lists[kind] \in Seq(RecordSet)
  BY ScopeIs
<1>2. Longer(kind, s.lists[kind], Put(kind, s.lists[kind], n, e)) /\ Has(Put(kind, s.lists[kind], n, e), n)
  BY <1>1, PutLonger, PutHas
<1>3. Put(kind, s.lists[kind], n, e) \in Seq(RecordSet)
  BY <1>2 DEF Longer
<1>4. With(s, kind, n, e) = [s EXCEPT !.lists[kind] = Put(kind, s.lists[kind], n, e)]
  BY DEF With
<1>5. Changed(s, With(s, kind, n, e), kind, Put(kind, s.lists[kind], n, e))
  BY <1>3, <1>4, ChangedIs
<1>6. LongerScope(s, With(s, kind, n, e))
  BY <1>2, <1>5, ChangedLonger
<1>7. With(s, kind, n, e).lists[kind] = Put(kind, s.lists[kind], n, e)
  BY <1>5 DEF Changed
<1> QED BY <1>2, <1>5, <1>6, <1>7

LEMMA DatedLater ==
  ASSUME NEW list, NEW m \in Nat, NEW n \in Nat, m <= n, Dated(list, m) PROVE Dated(list, n)
BY DEF Dated

LEMMA InsertedDated ==
  ASSUME NEW list \in Seq(RecordSet), NEW new, NEW at, NEW r, NEW n \in Nat, Dated(list, n),
         Placed(list, new, at, r) \/ Replaced(list, new, at, r), r.by \in 1 .. n + 1
  PROVE  Dated(new, n + 1)
<1>0. Len(list) \in Nat
  OBVIOUS
<1> SUFFICES ASSUME NEW i \in 1 .. Len(new) PROVE new[i].by \in 1 .. n + 1
  BY DEF Dated
<1>1. \A j \in 1 .. Len(list) : list[j].by \in 1 .. n + 1
  BY DEF Dated
<1>2. CASE i = at
  BY <1>2 DEF Placed, Replaced
<1>3. CASE i # at /\ Placed(list, new, at, r)
  <2>1. Len(new) = Len(list) + 1 /\ at \in 1 .. Len(new)
    BY <1>3 DEF Placed
  <2>2. CASE i < at
    <3>1. i \in 1 .. at - 1 /\ i \in 1 .. Len(list)
      BY <1>0, <2>1, <2>2
    <3> QED BY <1>1, <1>3, <3>1 DEF Placed
  <2>3. CASE i > at
    <3>1. i - 1 \in at .. Len(list) /\ i - 1 \in 1 .. Len(list) /\ (i - 1) + 1 = i
      BY <1>0, <2>1, <2>3
    <3>2. new[(i - 1) + 1] = list[i - 1]
      BY <1>3, <3>1 DEF Placed
    <3> QED BY <1>1, <3>1, <3>2
  <2> QED BY <1>0, <1>3, <2>1, <2>2, <2>3
<1>4. CASE i # at /\ Replaced(list, new, at, r)
  BY <1>1, <1>4 DEF Replaced
<1> QED BY <1>2, <1>3, <1>4

LEMMA AtDated ==
  ASSUME NEW list \in Seq(RecordSet), NEW n, Has(list, n), NEW m \in Nat, Dated(list, m)
  PROVE  list[At(list, n)] \in RecordSet /\ list[At(list, n)].by \in 1 .. m
BY AtIs DEF Dated

LEMMA LastDated ==
  ASSUME NEW list \in Seq(RecordSet), NEW n \in Names, NEW m \in Nat, NEW e \in Nat, e = m + 1,
         Dated(list, m)
  PROVE  Dated(PutLast(list, n, e), e)
<1>1. CASE Has(list, n)
  <2>1. PICK r \in RecordSet : r = list[At(list, n)]
    BY <1>1, AtDated
  <2>2. [r EXCEPT !.by = e].by = e
    BY RecordIs
  <2>3. PICK x : x = [r EXCEPT !.by = e] /\ x.by = e
    BY <2>2
  <2>4. Replaced(list, PutLast(list, n, e), At(list, n), x)
    BY <1>1, <2>1, <2>3, LastIs
  <2>5. x.by \in 1 .. m + 1
    BY <2>3
  <2> QED BY <2>4, <2>5, InsertedDated
<1>2. CASE ~Has(list, n)
  <2>1. Record(n, e).by \in 1 .. m + 1
    BY RecordIs
  <2>2. Placed(list, PutLast(list, n, e), 1, Record(n, e))
    BY <1>2, LastIs
  <2> QED BY <2>1, <2>2, InsertedDated
<1> QED BY <1>1, <1>2

LEMMA PartDated ==
  ASSUME NEW list \in Seq(RecordSet), NEW n, Has(list, n), NEW m \in Nat, NEW e \in Nat, e = m + 1,
         Dated(list, m)
  PROVE  Dated(PutPart(list, n, e), e)
<1>1. PICK r \in RecordSet : r = list[At(list, n)] /\ r.by \in 1 .. m
  BY AtDated
<1>2. [r EXCEPT !.parts = Append(@, e)].by = r.by
  BY RecordIs
<1>3. PICK x : x = [r EXCEPT !.parts = Append(@, e)] /\ x.by = r.by
  BY <1>2
<1>4. Replaced(list, PutPart(list, n, e), At(list, n), x)
  BY <1>1, <1>3, PartIs
<1>5. x.by \in 1 .. m + 1
  BY <1>1, <1>3
<1> QED BY <1>4, <1>5, InsertedDated

LEMMA PutDated ==
  ASSUME NEW kind \in Kinds, NEW list \in Seq(RecordSet), NEW n \in Names, NEW m \in Nat,
         NEW e \in Nat, e = m + 1, Dated(list, m)
  PROVE  Dated(Put(kind, list, n, e), e)
<1>0. Record(n, e).by \in 1 .. m + 1
  BY RecordIs
<1>1. CASE kind \in {"const", "font", "image", "timeline"}
  <2>1. Put(kind, list, n, e) = PutFirst(list, n, e)
    BY <1>1 DEF Put
  <2>2. CASE Has(list, n)
    BY <2>1, <2>2, FirstIs, DatedLater
  <2>3. CASE ~Has(list, n)
    <3>1. Placed(list, PutFirst(list, n, e), 1, Record(n, e))
      BY <2>3, FirstIs
    <3> QED BY <1>0, <2>1, <3>1, InsertedDated
  <2> QED BY <2>2, <2>3
<1>2. CASE kind \in {"subject", "event"}
  <2>1. Put(kind, list, n, e) = PutLast(list, n, e)
    BY <1>2 DEF Put
  <2> QED BY <2>1, LastDated
<1>3. CASE kind \in {"prop", "grad"}
  <2>1. Put(kind, list, n, e) = PutAlways(list, n, e)
    BY <1>3 DEF Put
  <2>2. Placed(list, PutAlways(list, n, e), Len(list) + 1, Record(n, e))
    BY AlwaysIs
  <2> QED BY <1>0, <2>1, <2>2, InsertedDated
<1>4. CASE kind = "style"
  <2>1. Put(kind, list, n, e) = PutMerged(list, n, e)
    BY <1>4 DEF Put
  <2>2. CASE Has(list, n)
    <3>1. PutMerged(list, n, e) = PutPart(list, n, e)
      BY <2>2 DEF PutMerged
    <3> QED BY <2>1, <2>2, <3>1, PartDated
  <2>3. CASE ~Has(list, n)
    <3>0. Styled(list, PutMerged(list, n, e), n, e)
      BY <2>3, MergedNew
    <3>1. PICK r \in RecordSet : Placed(list, PutMerged(list, n, e), Len(list) + 1, r) /\ r.by = e
      BY <3>0 DEF Styled
    <3>2. r.by \in 1 .. m + 1
      BY <3>1
    <3> QED BY <2>1, <3>1, <3>2, InsertedDated
  <2> QED BY <2>2, <2>3
<1> QED BY <1>1, <1>2, <1>3, <1>4 DEF Kinds

LEMMA ChangedDated ==
  ASSUME NEW s, NEW t, NEW kind \in Kinds, NEW list, Changed(s, t, kind, list),
         NEW m \in Nat, DatedScope(s, m), Dated(list, m + 1)
  PROVE  DatedScope(t, m + 1)
<1> SUFFICES ASSUME NEW k \in Kinds PROVE Dated(t.lists[k], m + 1)
  BY DEF DatedScope
<1>1. CASE k = kind
  BY <1>1 DEF Changed
<1>2. CASE k # kind
  BY <1>2, DatedLater DEF Changed, DatedScope
<1> QED BY <1>1, <1>2

LEMMA ScopeDatedLater ==
  ASSUME NEW s, NEW m \in Nat, DatedScope(s, m) PROVE DatedScope(s, m + 1)
BY DatedLater DEF DatedScope

-----------------------------------------------------------------------------
(* The scopes of a parse, and what every action does to them.              *)

\* The timeline that the next animation goes to is listed.
ContextSound ==
  \/ context = NoContext
  \/ context.of = "own" /\ into # "none" /\ Has(work.lists["timeline"], context.name)
  \/ context.of = "globals" /\ into = "component" /\ Has(scopes["globals"].lists["timeline"], context.name)

\* The copy of the globals holds what the globals hold.
ScopesSound ==
  /\ work \in ScopeSet /\ scopes \in [Roots -> ScopeSet]
  /\ DatedScope(work, Len(doc)) /\ \A r \in Roots : DatedScope(scopes[r], Len(doc))
  /\ section \in Openers \cup {"none", "stop"}
  /\ ContextSound
  /\ into = "globals" => LongerScope(scopes["globals"], work)

LEMMA RootsIs == "globals" \in Roots /\ "component" \in Roots /\ "none" \notin Roots
  BY DEF Roots

LEMMA EmptyDated ==
  \A n \in Nat : DatedScope(EmptyScope, n) /\ DatedScope(NoScope, n)
<1>1. Len(Nothing) = 0
  BY DEF Nothing
<1> QED BY <1>1, ScopeIs DEF DatedScope, Dated

LEMMA ScopesStart ==
  ASSUME MetadataInit PROVE ScopesSound
<1>1. work = EmptyScope /\ section = "none" /\ into = "none" /\ context = NoContext /\ Len(doc) = 0
  BY DEF MetadataInit
<1>2. scopes = [s \in Roots |-> IF s = "globals" THEN EmptyScope ELSE NoScope]
  BY DEF MetadataInit
<1>3. scopes \in [Roots -> ScopeSet]
  BY <1>2, ScopeIs
<1>4. \A r \in Roots : scopes[r] = EmptyScope \/ scopes[r] = NoScope
  BY <1>2
<1>5. \A r \in Roots : DatedScope(scopes[r], Len(doc))
  BY <1>1, <1>4, EmptyDated
<1>6. DatedScope(work, Len(doc)) /\ work \in ScopeSet
  BY <1>1, EmptyDated, ScopeIs
<1>7. ContextSound
  BY <1>1 DEF ContextSound
<1> QED BY <1>1, <1>3, <1>5, <1>6, <1>7 DEF ScopesSound

LEMMA BeginScopes ==
  ASSUME Structure, ScopesSound, NEW root \in Roots, Begin(root)
  PROVE  ScopesSound' /\ scopes' = scopes
<1> DEFINE n == Len(doc)
           s == IF root = "globals" THEN scopes["globals"] ELSE EmptyScope
<1>1. n \in Nat /\ Len(doc') = n + 1
  BY BeginKeeps
<1>2. /\ into' = root /\ section' = "none" /\ context' = NoContext /\ scopes' = scopes
      /\ work' = [s EXCEPT !.from = @ \cup {n + 1}]
  BY DEF Begin
<1>3. s \in ScopeSet /\ DatedScope(s, n)
  BY <1>1, ScopeIs, EmptyDated, RootsIs DEF ScopesSound
<1> HIDE DEF s
<1>4. n + 1 \in Nat
  BY <1>1
<1>5. work' \in ScopeSet /\ work'.lists = s.lists
  BY <1>2, <1>3, <1>4, FromIs
<1>6. DatedScope(work', n + 1) /\ \A r \in Roots : DatedScope(scopes[r], n + 1)
  <2>1. DatedScope(s, n + 1) /\ \A r \in Roots : DatedScope(scopes[r], n + 1)
    BY <1>1, <1>3, ScopeDatedLater DEF ScopesSound
  <2> QED BY <1>5, <2>1 DEF DatedScope
<1>7. root = "globals" => LongerScope(scopes["globals"], work')
  <2>1. ASSUME root = "globals" PROVE LongerScope(scopes["globals"], work')
    <3>1. s = scopes["globals"] /\ LongerScope(s, s)
      BY <1>3, <2>1, LongerScopeSame DEF s
    <3> QED BY <1>5, <3>1 DEF LongerScope
  <2> QED BY <2>1
<1>8. ContextSound'
  BY <1>2 DEF ContextSound, NoContext
<1> QED BY <1>1, <1>2, <1>5, <1>6, <1>7, <1>8 DEF ScopesSound

LEMMA LookupIs ==
  ASSUME NEW kind, NEW s, NEW n
  PROVE  Lookup(kind, s, n)[1] =
           IF Has(s.lists[kind], n) THEN "own"
           ELSE IF Has(scopes["globals"].lists[kind], n) /\ into # "globals" THEN "globals" ELSE "none"
<1>1. CASE Has(s.lists[kind], n)
  BY <1>1 DEF Lookup
<1>2. CASE ~Has(s.lists[kind], n) /\ Has(scopes["globals"].lists[kind], n) /\ into # "globals"
  BY <1>2 DEF Lookup
<1>3. CASE ~Has(s.lists[kind], n) /\ ~(Has(scopes["globals"].lists[kind], n) /\ into # "globals")
  BY <1>3 DEF Lookup
<1> QED BY <1>1, <1>2, <1>3

LEMMA TimelineDoes ==
  ASSUME Structure, ScopesSound, into # "none", NEW el \in NextTags, el.tag = "timeline", NEW oom,
         NEW e, e = Len(doc) + 1, Timeline(el, e, oom), into' = into, scopes' = scopes
  PROVE  /\ work' \in ScopeSet /\ DatedScope(work', e) /\ LongerScope(work, work') /\ ContextSound'
         /\ work'.from = work.from
<1>1. Len(doc) \in Nat /\ e \in Nat /\ el.name \in Names
  BY TopIs, NamedIs
<1>2. work \in ScopeSet /\ DatedScope(work, Len(doc)) /\ ContextSound /\ work.lists["timeline"] \in Seq(RecordSet)
  BY ScopeIs DEF ScopesSound, Kinds
<1>3. LongerScope(work, work) /\ DatedScope(work, e)
  BY <1>1, <1>2, LongerScopeSame, ScopeDatedLater
<1>4. CASE ~el.ok \/ Has(work.lists["timeline"], el.name)
  <2>1. work' = work /\ context' = context
    BY <1>4 DEF Timeline
  <2> QED BY <1>2, <1>3, <2>1 DEF ContextSound
<1>5. CASE el.ok /\ ~Has(work.lists["timeline"], el.name)
  <2> DEFINE w == IF oom THEN work ELSE With(work, "timeline", el.name, e)
             found == Lookup("timeline", w, el.name)[1]
  <2>1. work' = w /\ context' = IF found = "none" THEN NoContext ELSE [of |-> found, name |-> el.name]
    BY <1>5 DEF Timeline
  <2>2. found = IF Has(w.lists["timeline"], el.name) THEN "own"
                ELSE IF Has(scopes["globals"].lists["timeline"], el.name) /\ into # "globals" THEN "globals"
                ELSE "none"
    BY LookupIs
  <2>3. w \in ScopeSet /\ DatedScope(w, e) /\ LongerScope(work, w) /\ w.from = work.from
    <3>1. CASE oom
      BY <1>2, <1>3, <3>1
    <3>2. CASE ~oom
      <4>0. "timeline" \in Kinds
        BY DEF Kinds
      <4>1. w = With(work, "timeline", el.name, e)
        BY <3>2
      <4> HIDE DEF w, found
      <4>2. Changed(work, w, "timeline", Put("timeline", work.lists["timeline"], el.name, e)) /\ LongerScope(work, w)
        BY <1>1, <1>2, <4>0, <4>1, WithIs
      <4>3. Dated(work.lists["timeline"], Len(doc))
        BY <1>2, <4>0 DEF DatedScope
      <4>4. Dated(Put("timeline", work.lists["timeline"], el.name, e), e)
        BY <1>1, <1>2, <4>0, <4>3, PutDated
      <4>5. DatedScope(w, e)
        BY <1>1, <1>2, <4>0, <4>2, <4>4, ChangedDated
      <4> QED BY <4>2, <4>5 DEF Changed
    <3> QED BY <3>1, <3>2
  <2> HIDE DEF w, found
  <2>4. into \in Roots
    BY DEF Structure, OpenSound
  <2>5. ContextSound'
    BY <2>1, <2>2, <2>4 DEF ContextSound, NoContext, Roots
  <2> QED BY <2>1, <2>3, <2>5
<1> QED BY <1>4, <1>5

LEMMA AnimationDoes ==
  ASSUME Structure, ScopesSound, into # "none", NEW el, NEW oom,
         NEW e, e = Len(doc) + 1, Animation(el, e, oom), into' = into, context' = context
  PROVE  /\ work' \in ScopeSet /\ DatedScope(work', e) /\ LongerScope(work, work')
         /\ scopes' \in [Roots -> ScopeSet] /\ \A r \in Roots : DatedScope(scopes'[r], e)
         /\ LongerScope(scopes["globals"], scopes'["globals"])
         /\ into = "globals" => scopes' = scopes
         /\ ContextSound'
         /\ work'.from = work.from /\ \A r \in Roots : scopes'[r].from = scopes[r].from
<1>1. Len(doc) \in Nat /\ e \in Nat
  BY TopIs
<1> DEFINE g == scopes["globals"]
           name == context.name
<1>2. work \in ScopeSet /\ DatedScope(work, Len(doc)) /\ ContextSound
  BY DEF ScopesSound
<1>3. scopes \in [Roots -> ScopeSet] /\ g \in ScopeSet /\ \A r \in Roots : DatedScope(scopes[r], Len(doc))
  BY RootsIs DEF ScopesSound
<1>4. /\ LongerScope(work, work) /\ DatedScope(work, e) /\ LongerScope(g, g)
      /\ \A r \in Roots : DatedScope(scopes[r], e)
  BY <1>1, <1>2, <1>3, LongerScopeSame, ScopeDatedLater
<1>5. "timeline" \in Kinds /\ work.lists["timeline"] \in Seq(RecordSet) /\ g.lists["timeline"] \in Seq(RecordSet)
  BY <1>2, <1>3, ScopeIs DEF Kinds
<1>6. Dated(work.lists["timeline"], Len(doc)) /\ Dated(g.lists["timeline"], Len(doc))
  BY <1>2, <1>3, <1>5, RootsIs DEF DatedScope
<1>7. CASE ~Animates(el, oom)
  <2>1. work' = work /\ scopes' = scopes
    BY <1>7 DEF Animation
  <2> QED BY <1>2, <1>3, <1>4, <2>1 DEF ContextSound
<1>8. CASE Animates(el, oom) /\ context.of = "own"
  <2> DEFINE l == PutPart(work.lists["timeline"], name, e)
  <2>1. work' = [work EXCEPT !.lists["timeline"] = l] /\ scopes' = scopes
    BY <1>8 DEF Animation
  <2>2. context # NoContext
    BY <1>8 DEF Animates
  <2>3. Has(work.lists["timeline"], name)
    BY <1>2, <1>8, <2>2 DEF ContextSound
  <2>4. Longer("timeline", work.lists["timeline"], l) /\ Dated(l, e)
    BY <1>1, <1>5, <1>6, <2>3, PartLonger, PartDated
  <2> HIDE DEF l
  <2>5. l \in Seq(RecordSet)
    BY <2>4 DEF Longer
  <2>6. Changed(work, work', "timeline", l)
    BY <1>2, <1>5, <2>1, <2>5, ChangedIs
  <2>7. LongerScope(work, work') /\ DatedScope(work', e)
    BY <1>1, <1>2, <1>5, <2>4, <2>6, ChangedLonger, ChangedDated
  <2>8. Has(work'.lists["timeline"], name)
    BY <2>3, <2>4, <2>6, LongerHas DEF Changed
  <2>9. ContextSound'
    BY <1>2, <1>8, <2>1, <2>2, <2>8 DEF ContextSound
  <2> QED BY <1>3, <1>4, <2>1, <2>6, <2>7, <2>9 DEF Changed
<1>9. CASE Animates(el, oom) /\ context.of # "own"
  <2> DEFINE l == PutPart(g.lists["timeline"], name, e)
             h == [g EXCEPT !.lists["timeline"] = l]
  <2>1. scopes' = [scopes EXCEPT !["globals"] = h] /\ work' = work
    BY <1>9 DEF Animation
  <2>2. context # NoContext
    BY <1>9 DEF Animates
  <2>3. Has(g.lists["timeline"], name) /\ context.of = "globals" /\ into = "component"
    BY <1>2, <1>9, <2>2 DEF ContextSound
  <2>4. Longer("timeline", g.lists["timeline"], l) /\ Dated(l, e)
    BY <1>1, <1>5, <1>6, <2>3, PartLonger, PartDated
  <2> HIDE DEF l
  <2>5. l \in Seq(RecordSet)
    BY <2>4 DEF Longer
  <2>6. Changed(g, h, "timeline", l)
    BY <1>3, <1>5, <2>5, ChangedIs
  <2> HIDE DEF h
  <2>7. LongerScope(g, h) /\ DatedScope(h, e) /\ h \in ScopeSet
    <3>1. LongerScope(g, h) /\ h \in ScopeSet
      BY <1>3, <1>5, <2>4, <2>6, ChangedLonger DEF Changed
    <3>2. DatedScope(g, Len(doc))
      BY <1>3, RootsIs
    <3>3. DatedScope(h, e)
      BY <1>1, <1>5, <2>4, <2>6, <3>2, ChangedDated
    <3> QED BY <3>1, <3>3
  <2>8. Has(h.lists["timeline"], name)
    BY <2>3, <2>4, <2>6, LongerHas DEF Changed
  <2>9. scopes'["globals"] = h /\ \A r \in Roots : r # "globals" => scopes'[r] = scopes[r]
    BY <1>3, <2>1, RootsIs
  <2>10. scopes' \in [Roots -> ScopeSet] /\ \A r \in Roots : DatedScope(scopes'[r], e)
    BY <1>3, <1>4, <2>1, <2>7, <2>9
  <2>11. ContextSound'
    BY <2>3, <2>8, <2>9 DEF ContextSound
  <2>12. \A r \in Roots : scopes'[r].from = scopes[r].from
    BY <2>6, <2>9 DEF Changed
  <2> QED BY <1>2, <1>4, <2>1, <2>3, <2>7, <2>9, <2>10, <2>11, <2>12
<1> QED BY <1>7, <1>8, <1>9

\* The last gradient collects the stop.
LEMMA StopDoes ==
  ASSUME Structure, ScopesSound, into # "none", NEW e, e = Len(doc) + 1, Stop(e),
         into' = into, context' = context, scopes' = scopes
  PROVE  /\ work' \in ScopeSet /\ DatedScope(work', e) /\ LongerScope(work, work') /\ ContextSound'
         /\ work'.from = work.from
<1> DEFINE list == work.lists["grad"]
           at == Len(list)
<1>1. Len(doc) \in Nat /\ e \in Nat
  BY TopIs
<1>2. work \in ScopeSet /\ DatedScope(work, Len(doc)) /\ ContextSound
  BY DEF ScopesSound
<1>3. "grad" \in Kinds /\ list \in Seq(RecordSet) /\ Dated(list, Len(doc))
  BY <1>2, ScopeIs DEF Kinds, DatedScope
<1>4. at \in 1 .. Len(list)
  <2>1. list # <<>>
    BY DEF Stop
  <2> QED BY <1>3, <2>1
<1>5. PICK r \in RecordSet : r = list[at] /\ r.by \in 1 .. Len(doc)
  BY <1>3, <1>4 DEF Dated
<1>6. LET y == [r EXCEPT !.parts = Stopped(@, e)]
      IN  y \in RecordSet /\ y.name = r.name /\ y.by = r.by
  BY <1>1, StoppedIs
<1>7. PICK x \in RecordSet : x = [r EXCEPT !.parts = Stopped(@, e)] /\ x.name = r.name /\ x.by = r.by
  BY <1>6
<1>8. Replaced(list, [list EXCEPT ![at] = x], at, x)
  BY <1>3, <1>4, ExceptIs
<1>9. work' = [work EXCEPT !.lists["grad"] = [list EXCEPT ![at] = x]]
  BY <1>5, <1>7 DEF Stop
<1>10. PICK l \in Seq(RecordSet) : l = [list EXCEPT ![at] = x]
  BY <1>8 DEF Replaced
<1>11. Longer("grad", list, l) /\ Dated(l, e)
  <2>1. Replaced(list, l, at, x)
    BY <1>8, <1>10, Zenon
  <2>2. x.name = list[at].name /\ x.by = r.by
    BY <1>5, <1>7, Zenon
  <2>3. x.by \in 1 .. Len(doc) + 1
    BY <1>1, <1>5, <2>2
  <2> HIDE DEF list, at
  <2> QED BY <1>1, <1>3, <2>1, <2>2, <2>3, LongerReplaced, InsertedDated
<1>12. Changed(work, work', "grad", l)
  BY <1>2, <1>3, <1>9, <1>10, ChangedIs
<1>13. LongerScope(work, work') /\ DatedScope(work', e)
  BY <1>1, <1>2, <1>3, <1>11, <1>12, ChangedLonger, ChangedDated
<1>14. work'.lists["timeline"] = work.lists["timeline"]
  BY <1>12 DEF Changed, Kinds
<1>15. ContextSound'
  BY <1>2, <1>14 DEF ContextSound
<1> QED BY <1>12, <1>13, <1>15 DEF Changed

\* An element of a block is recorded, or not.
LEMMA ListedDoes ==
  ASSUME Structure, ScopesSound, into # "none", NEW el \in NextTags, el.tag \in Listed, NEW oom,
         NEW e, e = Len(doc) + 1,
         work' = IF el.ok /\ ~oom THEN With(work, KindOf(el.tag), el.name, e) ELSE work,
         into' = into, context' = context, scopes' = scopes
  PROVE  /\ work' \in ScopeSet /\ DatedScope(work', e) /\ LongerScope(work, work') /\ ContextSound'
         /\ work'.from = work.from
<1>1. Len(doc) \in Nat /\ e \in Nat /\ el.name \in Names
  BY TopIs, NamedIs
<1>2. work \in ScopeSet /\ DatedScope(work, Len(doc)) /\ ContextSound
  BY DEF ScopesSound
<1>3. CASE ~(el.ok /\ ~oom)
  BY <1>1, <1>2, <1>3, LongerScopeSame, ScopeDatedLater DEF ContextSound
<1>4. CASE el.ok /\ ~oom
  <2>1. PICK kind \in Kinds : kind = KindOf(el.tag) /\ kind # "timeline"
    <3>1. KindOf(el.tag) # "timeline"
      BY DEF KindOf, Listed
    <3> QED BY <3>1, NamedIs
  <2>2. work' = With(work, kind, el.name, e)
    BY <1>4, <2>1
  <2>3. PICK l : l = Put(kind, work.lists[kind], el.name, e)
    OBVIOUS
  <2>4. Changed(work, work', kind, l) /\ LongerScope(work, work')
    BY <1>1, <1>2, <2>2, <2>3, WithIs
  <2>5. work.lists[kind] \in Seq(RecordSet) /\ Dated(work.lists[kind], Len(doc))
    BY <1>2, ScopeIs DEF DatedScope
  <2>6. Dated(l, e)
    BY <1>1, <2>3, <2>5, PutDated
  <2>7. DatedScope(work', e)
    BY <1>1, <1>2, <2>4, <2>6, ChangedDated
  <2>8. work'.lists["timeline"] = work.lists["timeline"]
    BY <2>1, <2>4 DEF Changed, Kinds
  <2>9. ContextSound'
    BY <1>2, <2>8 DEF ContextSound
  <2> QED BY <2>4, <2>7, <2>9 DEF Changed
<1> QED BY <1>3, <1>4

LEMMA StartScopes ==
  ASSUME Structure, ScopesSound, into # "none", NEW el \in NextTags, NEW oom, Start(el, oom)
  PROVE  /\ ScopesSound' /\ LongerScope(scopes["globals"], scopes'["globals"]) /\ LongerScope(work, work')
         /\ work'.from = work.from /\ \A r \in Roots : scopes'[r].from = scopes[r].from
<1> DEFINE n == Len(doc)
           e == n + 1
<1>1. n \in Nat /\ Len(doc') = e /\ into' = into /\ e \in Nat
  BY StartKeeps
<1>2. /\ work \in ScopeSet /\ DatedScope(work, n) /\ ContextSound
      /\ scopes \in [Roots -> ScopeSet] /\ scopes["globals"] \in ScopeSet
      /\ \A r \in Roots : DatedScope(scopes[r], n)
      /\ into = "globals" => LongerScope(scopes["globals"], work)
  BY RootsIs DEF ScopesSound
<1>3. DatedScope(work, e) /\ \A r \in Roots : DatedScope(scopes[r], e)
  BY <1>1, <1>2, ScopeDatedLater
<1>4. LongerScope(work, work) /\ LongerScope(scopes["globals"], scopes["globals"])
  BY <1>2, LongerScopeSame
<1> HIDE DEF e
<1>5. /\ work' \in ScopeSet /\ DatedScope(work', e) /\ LongerScope(work, work')
      /\ scopes' \in [Roots -> ScopeSet] /\ \A r \in Roots : DatedScope(scopes'[r], e)
      /\ LongerScope(scopes["globals"], scopes'["globals"])
      /\ into = "globals" => scopes' = scopes
      /\ ContextSound'
      /\ work'.from = work.from /\ \A r \in Roots : scopes'[r].from = scopes[r].from
  <2>1. CASE el.tag = "view"
    <3>1. work' = [work EXCEPT !.view = e] /\ UNCHANGED <<context, scopes>>
      BY <2>1, StartDoes DEF e
    <3>2. work' \in ScopeSet /\ work'.lists = work.lists /\ work'.from = work.from
      BY <1>1, <1>2, <3>1, ViewIs
    <3>3. DatedScope(work', e) /\ LongerScope(work, work')
      BY <1>3, <1>4, <3>2 DEF DatedScope, LongerScope
    <3>4. ContextSound'
      BY <1>1, <1>2, <3>1, <3>2 DEF ContextSound
    <3> QED BY <1>2, <1>3, <1>4, <3>1, <3>2, <3>3, <3>4
  <2>2. CASE el.tag = "timeline"
    <3>1. Timeline(el, e, oom) /\ scopes' = scopes
      BY <2>2, StartDoes DEF e
    <3>2. /\ work' \in ScopeSet /\ DatedScope(work', e) /\ LongerScope(work, work') /\ ContextSound'
          /\ work'.from = work.from
      BY <1>1, <2>2, <3>1, TimelineDoes DEF e
    <3> QED BY <1>2, <1>3, <1>4, <3>1, <3>2
  <2>3. CASE el.tag \in {"animation", "include_timeline"}
    <3>1. Animation(el, e, oom) /\ context' = context
      BY <2>3, StartDoes DEF e
    <3> QED BY <1>1, <3>1, AnimationDoes DEF e
  <2>4. CASE el.tag = "stop"
    <3>1. Stop(e) /\ UNCHANGED <<context, scopes>>
      BY <2>4, StartDoes DEF e
    <3>2. /\ work' \in ScopeSet /\ DatedScope(work', e) /\ LongerScope(work, work') /\ ContextSound'
          /\ work'.from = work.from
      BY <1>1, <3>1, StopDoes DEF e
    <3> QED BY <1>2, <1>3, <1>4, <3>1, <3>2
  <2>5. CASE el.tag \in Listed
    <3>1. /\ work' = IF el.ok /\ ~oom THEN With(work, KindOf(el.tag), el.name, e) ELSE work
          /\ UNCHANGED <<context, scopes>>
      BY <2>5, StartDoes DEF e
    <3>2. /\ work' \in ScopeSet /\ DatedScope(work', e) /\ LongerScope(work, work') /\ ContextSound'
          /\ work'.from = work.from
      BY <1>1, <2>5, <3>1, ListedDoes DEF e
    <3> QED BY <1>2, <1>3, <1>4, <3>1, <3>2
  <2>6. CASE el.tag \in Blocks \cup {"note"}
    <3>1. UNCHANGED <<work, context, scopes>>
      BY <2>6, StartDoes
    <3>2. ContextSound'
      BY <1>1, <1>2, <3>1 DEF ContextSound
    <3> QED BY <1>2, <1>3, <1>4, <3>1, <3>2
  <2> QED BY <2>1, <2>2, <2>3, <2>4, <2>5, <2>6, NextTagIs, TagIs
<1>6. section' \in Openers \cup {"none", "stop"}
  <2>1. section' = Opened(el.tag) /\ section \in Openers \cup {"none", "stop"}
    BY DEF Start, ScopesSound
  <2> QED BY <2>1 DEF Opened
<1>7. into' = "globals" => LongerScope(scopes'["globals"], work')
  BY <1>1, <1>2, <1>5, LongerScopeStill
<1> QED BY <1>1, <1>5, <1>6, <1>7 DEF ScopesSound, e

LEMMA EndScopes ==
  ASSUME Structure, ScopesSound, End PROVE ScopesSound' /\ scopes' = scopes
<1>1. into' = into /\ doc' = doc
  BY EndKeeps
<1>2. UNCHANGED <<context, work, scopes>> /\ section' = Closed(doc[open[Len(open)]].tag)
  BY DEF End
<1>3. section' \in Openers \cup {"none", "stop"}
  BY <1>2 DEF Closed, Openers, Blocks, ScopesSound
<1> QED BY <1>1, <1>2, <1>3 DEF ScopesSound, ContextSound

LEMMA TakenIs ==
  ASSUME ScopesSound, into \in Roots, NEW ok
  PROVE  Taken(ok) \in ScopeSet /\ DatedScope(Taken(ok), Len(doc))
BY RootsIs DEF ScopesSound, Taken

LEMMA FinishScopes ==
  ASSUME Structure, ScopesSound, NEW ok, Finish(ok)
  PROVE  /\ ScopesSound' /\ LongerScope(scopes["globals"], scopes'["globals"])
         /\ into = "globals" => scopes'["globals"] = work
<1>1. /\ into # "none" /\ into' = "none" /\ doc' = doc /\ section' = "none" /\ context' = NoContext
      /\ work' = EmptyScope /\ scopes' = [scopes EXCEPT ![into] = Taken(ok)]
  BY DEF Finish
<1>2. into \in Roots /\ Len(doc) \in Nat
  BY <1>1 DEF Structure, OpenSound, DocSound
<1>3. PICK t \in ScopeSet : t = Taken(ok) /\ DatedScope(t, Len(doc))
  BY <1>2, TakenIs
<1>4. scopes \in [Roots -> ScopeSet] /\ \A r \in Roots : DatedScope(scopes[r], Len(doc))
  BY DEF ScopesSound
<1>5. /\ scopes' \in [Roots -> ScopeSet] /\ scopes'[into] = t
      /\ \A r \in Roots : r # into => scopes'[r] = scopes[r]
  BY <1>1, <1>2, <1>3, <1>4
<1>6. \A r \in Roots : DatedScope(scopes'[r], Len(doc))
  BY <1>3, <1>4, <1>5
<1>7. work' \in ScopeSet /\ DatedScope(work', Len(doc))
  BY <1>1, <1>2, ScopeIs, EmptyDated
<1>8. into = "globals" => t = work
  BY <1>3 DEF Taken
<1>9. LongerScope(scopes["globals"], scopes'["globals"])
  <2>1. CASE into = "globals"
    BY <1>5, <1>8, <2>1 DEF ScopesSound
  <2>2. CASE into # "globals"
    BY <1>4, <1>5, <2>2, RootsIs, LongerScopeSame
  <2> QED BY <2>1, <2>2
<1>10. ContextSound'
  BY <1>1 DEF ContextSound, NoContext
<1> QED BY <1>1, <1>5, <1>6, <1>7, <1>8, <1>9, <1>10 DEF ScopesSound

LEMMA CallScopes ==
  ASSUME Structure, ScopesSound, NEW fn \in Calls, NEW s \in Roots, NEW n \in Names, Call(fn, s, n)
  PROVE  /\ ScopesSound' /\ LongerScope(scopes["globals"], scopes'["globals"]) /\ work' = work
         /\ scopes'[s].from = scopes[s].from \cup {Len(doc) + 1}
         /\ \A r \in Roots : r # s => scopes'[r] = scopes[r]
<1> DEFINE m == Len(doc)
           e == m + 1
           kind == IF fn = "event" THEN "event" ELSE "const"
           list == scopes[s].lists[kind]
           l == IF fn = "set_const" THEN PutLast(list, n, e) ELSE Put(kind, list, n, e)
           t == [scopes[s] EXCEPT !.lists[kind] = l]
           u == [t EXCEPT !.from = @ \cup {e}]
<1>1. m \in Nat /\ Len(doc') = e /\ into = "none" /\ e \in Nat
  BY CallKeeps
<1>2. /\ into' = into /\ section' = section /\ context' = context /\ work' = work
  BY DEF Call
<1>3. scopes' = [scopes EXCEPT ![s] = u]
  BY DEF Call
<1>4. /\ scopes \in [Roots -> ScopeSet] /\ scopes[s] \in ScopeSet
      /\ \A r \in Roots : DatedScope(scopes[r], m)
      /\ work \in ScopeSet /\ DatedScope(work, m) /\ ContextSound
      /\ section \in Openers \cup {"none", "stop"}
  BY DEF ScopesSound
<1>5. kind \in Kinds /\ kind \notin {"prop", "grad", "style"}
  BY DEF Kinds
<1> HIDE DEF e, kind
<1>6. list \in Seq(RecordSet) /\ Dated(list, m)
  BY <1>4, <1>5, ScopeIs DEF DatedScope
<1> HIDE DEF list
<1>7. Longer(kind, list, l) /\ Dated(l, e)
  <2>1. CASE fn = "set_const"
    BY <1>1, <1>5, <1>6, <2>1, LastLonger, LastDated DEF e
  <2>2. CASE fn # "set_const"
    BY <1>1, <1>5, <1>6, <2>2, PutLonger, PutDated DEF e
  <2> QED BY <2>1, <2>2
<1> HIDE DEF l
<1>8. l \in Seq(RecordSet)
  BY <1>7 DEF Longer
<1>9. Changed(scopes[s], t, kind, l)
  BY <1>4, <1>5, <1>8, ChangedIs
<1> HIDE DEF t
<1>10. LongerScope(scopes[s], t) /\ DatedScope(t, e) /\ t \in ScopeSet /\ t.from = scopes[s].from
  <2>1. LongerScope(scopes[s], t)
    BY <1>4, <1>5, <1>7, <1>9, ChangedLonger DEF list
  <2>2. DatedScope(t, e)
    BY <1>1, <1>4, <1>5, <1>7, <1>9, ChangedDated DEF e
  <2> QED BY <1>9, <2>1, <2>2 DEF Changed
<1>11. u \in ScopeSet /\ u.lists = t.lists /\ u.from = scopes[s].from \cup {e}
  BY <1>1, <1>10, FromIs
<1> HIDE DEF u
<1>12. LongerScope(scopes[s], u) /\ DatedScope(u, e)
  BY <1>10, <1>11 DEF LongerScope, DatedScope
<1>13. scopes'[s] = u /\ (\A r \in Roots : r # s => scopes'[r] = scopes[r]) /\ scopes' \in [Roots -> ScopeSet]
  BY <1>3, <1>4, <1>11
<1>14. DatedScope(work, e) /\ \A r \in Roots : DatedScope(scopes'[r], e)
  BY <1>1, <1>4, <1>12, <1>13, ScopeDatedLater DEF e
<1>15. LongerScope(scopes["globals"], scopes'["globals"])
  <2>1. CASE s = "globals"
    BY <1>12, <1>13, <2>1
  <2>2. CASE s # "globals"
    BY <1>4, <1>13, <2>2, RootsIs, LongerScopeSame
  <2> QED BY <2>1, <2>2
<1>16. ContextSound'
  BY <1>1, <1>2, <1>4 DEF ContextSound
<1> QED BY <1>1, <1>2, <1>4, <1>11, <1>13, <1>14, <1>15, <1>16 DEF ScopesSound, e

-----------------------------------------------------------------------------
(* The theorems.                                                           *)

\* The part of the inductive invariant that holds whatever happens: the document and
\* what is open of it, the section, and the scopes.
MetadataStructure == Structure /\ ScopesSound

\* Every step keeps the invariant, and the globals keep what they hold.
LEMMA StepKeeps ==
  ASSUME MetadataStructure, MetadataNext
  PROVE  /\ MetadataStructure' /\ LongerScope(scopes["globals"], scopes'["globals"])
         /\ into = "globals" /\ into' = "none" => scopes'["globals"] = work
<1>0. scopes["globals"] \in ScopeSet
  BY RootsIs DEF MetadataStructure, ScopesSound
<1>00. LongerScope(scopes["globals"], scopes["globals"])
  BY <1>0, LongerScopeSame
<1>1. ASSUME NEW root \in Roots, Begin(root)
      PROVE  /\ MetadataStructure' /\ LongerScope(scopes["globals"], scopes'["globals"])
             /\ into = "globals" /\ into' = "none" => scopes'["globals"] = work
  <2>1. into = "none"
    BY <1>1 DEF Begin
  <2> QED BY <1>00, <1>1, <2>1, BeginKeeps, BeginScopes DEF MetadataStructure
<1>2. ASSUME into # "none", NEW el \in NextTags, NEW oom \in BOOLEAN, Start(el, oom)
      PROVE  /\ MetadataStructure' /\ LongerScope(scopes["globals"], scopes'["globals"])
             /\ into = "globals" /\ into' = "none" => scopes'["globals"] = work
  BY <1>2, StartKeeps, StartScopes DEF MetadataStructure
<1>3. ASSUME End
      PROVE  /\ MetadataStructure' /\ LongerScope(scopes["globals"], scopes'["globals"])
             /\ into = "globals" /\ into' = "none" => scopes'["globals"] = work
  BY <1>00, <1>3, EndKeeps, EndScopes DEF MetadataStructure
<1>4. ASSUME NEW ok \in BOOLEAN, Finish(ok)
      PROVE  /\ MetadataStructure' /\ LongerScope(scopes["globals"], scopes'["globals"])
             /\ into = "globals" /\ into' = "none" => scopes'["globals"] = work
  BY <1>4, FinishKeeps, FinishScopes DEF MetadataStructure
<1>5. ASSUME NEW fn \in Calls, NEW s \in Roots, NEW n \in Names, Call(fn, s, n)
      PROVE  /\ MetadataStructure' /\ LongerScope(scopes["globals"], scopes'["globals"])
             /\ into = "globals" /\ into' = "none" => scopes'["globals"] = work
  BY <1>5, CallKeeps, CallScopes DEF MetadataStructure
<1>6. ASSUME NEW found, Instantiate(found)
      PROVE  /\ MetadataStructure' /\ LongerScope(scopes["globals"], scopes'["globals"])
             /\ into = "globals" /\ into' = "none" => scopes'["globals"] = work
  <2>1. UNCHANGED <<doc, open, into, section, context, work, scopes>> /\ into = "none"
    BY <1>6 DEF Instantiate
  <2>2. Structure'
    BY <2>1, StructureStays DEF MetadataStructure
  <2>3. ScopesSound'
    BY <2>1 DEF MetadataStructure, ScopesSound, ContextSound
  <2> QED BY <1>00, <2>1, <2>2, <2>3 DEF MetadataStructure
<1> QED BY <1>1, <1>2, <1>3, <1>4, <1>5, <1>6 DEF MetadataNext

LEMMA StutterKeeps ==
  ASSUME MetadataStructure, UNCHANGED metadataVars PROVE MetadataStructure' /\ scopes' = scopes /\ into' = into
<1>1. UNCHANGED <<doc, open, into, section, context, work, scopes>>
  BY DEF metadataVars
<1> QED BY <1>1, StructureStays DEF MetadataStructure, ScopesSound, ContextSound

\* start_metadata_handler(), end_metadata_handler(): what is open is a chain of elements,
\* state->section is the one that the innermost of them needs, the records of a scope stem
\* from elements that were read, and the copy of the globals that a document for them is
\* parsed into holds all that the globals hold.
THEOREM MetadataStructured == MetadataSpec => []MetadataStructure
<1>1. MetadataInit => MetadataStructure
  BY StructureStarts, ScopesStart DEF MetadataStructure
<1>2. MetadataStructure /\ [MetadataNext]_metadataVars => MetadataStructure'
  BY StepKeeps, StutterKeeps
<1> QED BY <1>1, <1>2, PTL DEF MetadataSpec

\* The types are part of it.
LEMMA StructureTyped == MetadataStructure => MetadataTypeOK
<1> SUFFICES ASSUME MetadataStructure PROVE MetadataTypeOK
  OBVIOUS
<1>1. /\ work \in ScopeSet /\ scopes["globals"] \in ScopeSet /\ scopes["component"] \in ScopeSet
      /\ DatedScope(work, Len(doc)) /\ DatedScope(scopes["globals"], Len(doc))
      /\ DatedScope(scopes["component"], Len(doc))
      /\ section \in Openers \cup {"none", "stop"} /\ ContextSound
  BY RootsIs DEF MetadataStructure, ScopesSound
<1>2. ASSUME NEW s \in {work, scopes["globals"], scopes["component"]}, NEW k \in Kinds, NEW i \in 1 .. Len(s.lists[k])
      PROVE  s.lists[k][i].by \in 1 .. Len(doc) /\ s.lists[k][i].name \in Names
  <2>1. s \in ScopeSet /\ DatedScope(s, Len(doc))
    BY <1>1
  <2>2. s.lists[k] \in Seq(RecordSet)
    BY <2>1, ScopeIs
  <2>3. s.lists[k][i] \in RecordSet
    BY <2>2
  <2> QED BY <2>1, <2>3, RecordIs DEF DatedScope, Dated
<1>3. into \in Roots \cup {"none"} /\ open \in Seq(1 .. Len(doc)) /\ (into = "none" <=> Len(open) = 0)
  BY DEF MetadataStructure, Structure, OpenSound
<1>4. open = <<>> <=> into = "none"
  BY <1>3
<1>5. /\ context.of \in {"none", "own", "globals"}
      /\ context.of = "own" => Has(work.lists["timeline"], context.name)
      /\ context.of = "globals" => Has(scopes["globals"].lists["timeline"], context.name)
  BY <1>1 DEF ContextSound, NoContext
<1> QED BY <1>1, <1>2, <1>3, <1>4, <1>5 DEF MetadataTypeOK

\* The variables have their types, and state->context names a timeline that is listed.
THEOREM MetadataTypes == MetadataSpec => []MetadataTypeOK
BY MetadataStructured, StructureTyped, PTL

\* The names of a list as the property has them.
NamesKept(kind, old, new) ==
  /\ Len(old) <= Len(new)
  /\ kind \in {"prop", "grad", "style"} => NamesOf(old) = SubSeq(NamesOf(new), 1, Len(old))
  /\ kind \notin {"prop", "grad", "style"} =>
       NamesOf(old) = SubSeq(NamesOf(new), Len(new) - Len(old) + 1, Len(new))

LEMMA LongerNames ==
  ASSUME NEW kind, NEW old, NEW new, Longer(kind, old, new)
  PROVE  NamesKept(kind, old, new)
<1>1. PICK a \in Nat, b \in Nat : a = Len(old) /\ b = Len(new) /\ a <= b
  BY DEF Longer
<1>2. /\ old \in Seq(RecordSet) /\ new \in Seq(RecordSet)
  BY DEF Longer
<1>3. PICK p \in Seq(Names), q \in Seq(Names) : /\ p = NamesOf(old) /\ Len(p) = a /\ \A i \in 1 .. a : p[i] = old[i].name
                                                /\ q = NamesOf(new) /\ Len(q) = b /\ \A i \in 1 .. b : q[i] = new[i].name
  <2>1. \A i \in 1 .. a : old[i].name \in Names
    BY <1>1, <1>2, RecordIs
  <2>2. \A i \in 1 .. b : new[i].name \in Names
    BY <1>1, <1>2, RecordIs
  <2>3. NamesOf(old) \in Seq(Names) /\ Len(NamesOf(old)) = a /\ \A i \in 1 .. a : NamesOf(old)[i] = old[i].name
    BY <1>1, <2>1 DEF NamesOf
  <2>4. NamesOf(new) \in Seq(Names) /\ Len(NamesOf(new)) = b /\ \A i \in 1 .. b : NamesOf(new)[i] = new[i].name
    BY <1>1, <2>2 DEF NamesOf
  <2> QED BY <2>3, <2>4
<1>4. ASSUME kind \in {"prop", "grad", "style"} PROVE p = SubSeq(q, 1, a)
  <2>1. \A i \in 1 .. a : q[i] = p[i]
    BY <1>1, <1>3, <1>4 DEF Longer
  <2> QED BY <1>1, <1>3, <2>1
<1>5. ASSUME kind \notin {"prop", "grad", "style"} PROVE p = SubSeq(q, b - a + 1, b)
  <2>1. ASSUME NEW i \in 1 .. a PROVE q[b - a + i] = p[i]
    <3>1. b - a + i \in 1 .. b
      BY <1>1
    <3> QED BY <1>1, <1>3, <1>5, <3>1 DEF Longer
  <2>2. PICK x \in Nat : x = b - a
    BY <1>1
  <2>3. SubSeq(q, x + 1, b) \in Seq(Names) /\ Len(SubSeq(q, x + 1, b)) = a
    BY <1>1, <1>3, <2>2
  <2>4. \A i \in 1 .. a : SubSeq(q, x + 1, b)[i] = q[x + i]
    BY <1>1, <1>3, <2>2
  <2> QED BY <1>1, <1>3, <2>1, <2>2, <2>3, <2>4
<1> QED BY <1>1, <1>3, <1>4, <1>5 DEF NamesKept

\* lv_xml_register_component_from_data() for `globals`, lv_xml_register_const() and the
\* others: nothing that the global scope holds is ever taken out of it or changes its place,
\* whether a document ends well or breaks off, allocations fail, declarations lack their
\* attributes or timelines are declared again.
THEOREM GlobalsAlwaysKept == MetadataSpec => GlobalsKeep
<1>1. MetadataStructure /\ [MetadataNext]_metadataVars =>
        [\A kind \in Kinds :
           LET old == scopes["globals"].lists[kind]
               new == scopes'["globals"].lists[kind]
           IN  /\ Len(old) <= Len(new)
               /\ kind \in {"prop", "grad", "style"} =>
                    NamesOf(old) = SubSeq(NamesOf(new), 1, Len(old))
               /\ kind \notin {"prop", "grad", "style"} =>
                    NamesOf(old) = SubSeq(NamesOf(new), Len(new) - Len(old) + 1, Len(new))
               /\ into = "globals" /\ into' = "none" => new = work.lists[kind]]_metadataVars
  <2> SUFFICES ASSUME MetadataStructure, MetadataNext, NEW kind \in Kinds,
                      NEW old, old = scopes["globals"].lists[kind],
                      NEW new, new = scopes'["globals"].lists[kind]
               PROVE  /\ Len(old) <= Len(new)
                      /\ kind \in {"prop", "grad", "style"} =>
                           NamesOf(old) = SubSeq(NamesOf(new), 1, Len(old))
                      /\ kind \notin {"prop", "grad", "style"} =>
                           NamesOf(old) = SubSeq(NamesOf(new), Len(new) - Len(old) + 1, Len(new))
                      /\ into = "globals" /\ into' = "none" => new = work.lists[kind]
    OBVIOUS
  <2>1. /\ Longer(kind, old, new)
        /\ into = "globals" /\ into' = "none" => scopes'["globals"] = work
    BY StepKeeps DEF LongerScope
  <2>2. NamesKept(kind, old, new)
    BY <2>1, LongerNames
  <2>3. into = "globals" /\ into' = "none" => new = work.lists[kind]
    BY <2>1
  <2> QED BY <2>2, <2>3 DEF NamesKept
<1> QED BY <1>1, MetadataStructured, PTL DEF MetadataSpec, GlobalsKeep

-----------------------------------------------------------------------------
(* What the documents say, read from their elements.                       *)

\* The tags and calls that declare something of a kind.
TagsOf(kind) ==
  CASE kind = "const" -> {"const", "register_const", "set_const"}
    [] kind = "image" -> {"file"}
    [] kind = "font" -> {"bin"}
    [] OTHER -> {kind}

\* The elements that a scope has been given are X; Y are those that its lookups
\* can see.
DeclaredIn(D, X, kind) == {e \in X : D[e].tag \in TagsOf(kind) /\ D[e].ok}
NamedIn(D, X, kind, n) == {e \in DeclaredIn(D, X, kind) : D[e].name = n}
SetIn(D, X, kind, n) == {e \in NamedIn(D, X, kind, n) : D[e].tag = "set_const"}

\* The element whose value a name has: the first, the last for a subject, a callback and a
\* constant that was set.
ValuedIn(D, X, kind, n) ==
  CASE kind \in {"subject", "event"} -> Latest(NamedIn(D, X, kind, n))
    [] kind = "const" /\ SetIn(D, X, kind, n) # {} -> Latest(SetIn(D, X, kind, n))
    [] OTHER -> Earliest(NamedIn(D, X, kind, n))

\* The constant that an element refers to is declared before it, or it refers to none.
Known(D, Y, d) ==
  \/ D[d].ref = NoName
  \/ \E c \in Y : c < d /\ D[c].tag \in TagsOf("const") /\ D[c].ok /\ D[c].name = D[d].ref

\* What belongs to the declaration of a name.
PartsIn(D, X, Y, kind, n, e) ==
  CASE kind = "style" -> NamedIn(D, X, "style", n)
    [] kind = "grad" -> {d \in X : D[d].up = e}
    [] kind = "timeline" -> {d \in X : D[d].up = e /\ D[d].ok /\ Known(D, Y, d)}
    [] OTHER -> {}

\* A list of records that are all kept, ...
Rows(D, X, Y, kind, list) ==
  /\ list \in Seq(RecordSet)
  /\ Len(list) = Len(Ordered(DeclaredIn(D, X, kind), Len(D)))
  /\ \A i \in 1 .. Len(list) :
       /\ list[i].by = Ordered(DeclaredIn(D, X, kind), Len(D))[i]
       /\ list[i].parts = Kept(kind, Ordered(PartsIn(D, X, Y, kind, list[i].name, list[i].by), Len(D)))

\* ... and one with a record for every name.
RecordSound(D, X, Y, kind, r) ==
  /\ r.by = ValuedIn(D, X, kind, r.name)
  /\ r.parts = Ordered(PartsIn(D, X, Y, kind, r.name, r.by), Len(D))

\* The list of a kind that keeps one record for a name.
Files(D, X, Y, kind, list) ==
  /\ list \in Seq(RecordSet)
  /\ \A n \in Names : Has(list, n) <=> NamedIn(D, X, kind, n) # {}
  /\ \A i, j \in 1 .. Len(list) : list[i].name = list[j].name => i = j
  /\ \A i \in 1 .. Len(list) : RecordSound(D, X, Y, kind, list[i])

\* What the list of a kind is, said of the elements alone: no lookup, no order of records.
Filed(D, X, Y, kind, list) ==
  IF kind \in {"prop", "grad"} THEN Rows(D, X, Y, kind, list) ELSE Files(D, X, Y, kind, list)

LEMMA EarliestIs ==
  ASSUME NEW S \in SUBSET Nat, S # {}
  PROVE  Earliest(S) \in S /\ \A d \in S : Earliest(S) <= d
<1>1. PICK e \in S : \A d \in S : e <= d
  BY Least
<1> QED BY <1>1 DEF Earliest

LEMMA EarliestGrows ==
  ASSUME NEW n \in Nat, NEW S, S \subseteq 1 .. n
  PROVE  /\ S # {} => Earliest(S \cup {n + 1}) = Earliest(S)
         /\ S = {} => Earliest(S \cup {n + 1}) = n + 1
<1> DEFINE T == S \cup {n + 1}
<1>1. T \in SUBSET Nat /\ T # {}
  OBVIOUS
<1>2. Earliest(T) \in T /\ \A d \in T : Earliest(T) <= d
  <2> HIDE DEF T
  <2> QED BY <1>1, EarliestIs
<1>3. ASSUME S # {} PROVE Earliest(T) = Earliest(S)
  <2>1. S \in SUBSET Nat
    OBVIOUS
  <2>2. Earliest(S) \in S /\ \A d \in S : Earliest(S) <= d
    BY <1>3, <2>1, EarliestIs
  <2>3. Earliest(S) \in 1 .. n /\ Earliest(S) \in T
    BY <2>2
  <2>4. Earliest(T) <= Earliest(S) /\ Earliest(T) # n + 1
    BY <1>2, <2>3
  <2>5. Earliest(T) \in S
    BY <1>2, <2>4
  <2> HIDE DEF T
  <2>6. Earliest(S) <= Earliest(T)
    BY <2>2, <2>5
  <2>7. Earliest(T) \in Nat /\ Earliest(S) \in Nat
    BY <2>1, <2>2, <2>5
  <2> QED BY <2>4, <2>6, <2>7
<1> QED BY <1>2, <1>3

LEMMA LatestGrows ==
  ASSUME NEW n \in Nat, NEW S, S \subseteq 1 .. n
  PROVE  Latest(S \cup {n + 1}) = n + 1
<1> DEFINE T == S \cup {n + 1}
<1>1. n + 1 \in T /\ \A d \in T : d <= n + 1
  OBVIOUS
<1>2. \A e \in T : (\A d \in T : d <= e) => e = n + 1
  BY <1>1
<1> HIDE DEF T
<1> QED BY <1>1, <1>2 DEF Latest, T

\* A document with an element more, which the scope has been given.
Extends(D, D2, n, el) ==
  /\ DocSound(D) /\ DocSound(D2) /\ n \in Nat /\ Len(D) = n /\ Len(D2) = n + 1
  /\ D2[n + 1] = el /\ el \in ElementSet
  /\ \A e \in 1 .. n : D2[e] = D[e]

\* It is given to a scope whose lookups see as before what its own elements refer to.
Grown(D, D2, n, el, X, X2, Y, Y2) ==
  /\ Extends(D, D2, n, el)
  /\ X \subseteq 1 .. n /\ X2 = X \cup {n + 1}
  /\ \A d \in X : Known(D2, Y2, d) <=> Known(D, Y, d)

\* A set of elements that has a greatest one.
Bounded(X) == \E k \in Nat : X \subseteq 1 .. k

\* An element that declares something of a kind.
OfKind(el, kind) == el.tag \in TagsOf(kind) /\ el.ok

LEMMA DeclaredGrows ==
  ASSUME NEW D, NEW D2, NEW n, NEW el, NEW X, NEW X2, NEW Y, NEW Y2,
         Grown(D, D2, n, el, X, X2, Y, Y2), NEW kind
  PROVE  /\ OfKind(el, kind) => DeclaredIn(D2, X2, kind) = DeclaredIn(D, X, kind) \cup {n + 1}
         /\ ~OfKind(el, kind) => DeclaredIn(D2, X2, kind) = DeclaredIn(D, X, kind)
<1>1. \A e \in X : D2[e] = D[e]
  BY DEF Grown, Extends
<1>2. X2 = X \cup {n + 1} /\ n + 1 \notin X /\ D2[n + 1] = el
  BY DEF Grown, Extends
<1> QED BY <1>1, <1>2 DEF DeclaredIn, OfKind

LEMMA NamedGrows ==
  ASSUME NEW D, NEW D2, NEW n, NEW el, NEW X, NEW X2, NEW Y, NEW Y2,
         Grown(D, D2, n, el, X, X2, Y, Y2), NEW kind, NEW m
  PROVE  /\ OfKind(el, kind) /\ el.name = m =>
              NamedIn(D2, X2, kind, m) = NamedIn(D, X, kind, m) \cup {n + 1}
         /\ ~(OfKind(el, kind) /\ el.name = m) =>
              NamedIn(D2, X2, kind, m) = NamedIn(D, X, kind, m)
<1>1. \A e \in X : D2[e] = D[e]
  BY DEF Grown, Extends
<1>2. \A e \in DeclaredIn(D, X, kind) : D2[e] = D[e]
  BY <1>1 DEF DeclaredIn
<1>3. CASE OfKind(el, kind)
  <2>1. DeclaredIn(D2, X2, kind) = DeclaredIn(D, X, kind) \cup {n + 1}
    BY <1>3, DeclaredGrows
  <2>2. D2[n + 1] = el
    BY DEF Grown, Extends
  <2> QED BY <1>2, <1>3, <2>1, <2>2 DEF NamedIn
<1>4. CASE ~OfKind(el, kind)
  <2>1. DeclaredIn(D2, X2, kind) = DeclaredIn(D, X, kind)
    BY <1>4, DeclaredGrows
  <2> QED BY <1>2, <1>4, <2>1 DEF NamedIn
<1> QED BY <1>3, <1>4

LEMMA NamedWithin ==
  ASSUME NEW D, NEW X, NEW k, X \subseteq 1 .. k, NEW kind, NEW m
  PROVE  /\ DeclaredIn(D, X, kind) \subseteq 1 .. k
         /\ NamedIn(D, X, kind, m) \subseteq 1 .. k
         /\ SetIn(D, X, kind, m) \subseteq 1 .. k
BY DEF DeclaredIn, NamedIn, SetIn

\* The element that a name has its value from.
LEMMA ValuedSame ==
  ASSUME NEW D, NEW D2, NEW X, NEW X2, NEW kind, NEW m,
         NamedIn(D2, X2, kind, m) = NamedIn(D, X, kind, m),
         \A e \in X : D2[e] = D[e]
  PROVE  ValuedIn(D2, X2, kind, m) = ValuedIn(D, X, kind, m)
<1>1. SetIn(D2, X2, kind, m) = SetIn(D, X, kind, m)
  BY DEF SetIn, NamedIn, DeclaredIn
<1> QED BY <1>1 DEF ValuedIn

LEMMA ValuedGrows ==
  ASSUME NEW D, NEW D2, NEW n, NEW el, NEW X, NEW X2, NEW Y, NEW Y2,
         Grown(D, D2, n, el, X, X2, Y, Y2), NEW kind, OfKind(el, kind)
  PROVE  /\ \/ kind \in {"subject", "event"} \/ (kind = "const" /\ el.tag = "set_const")
            \/ NamedIn(D, X, kind, el.name) = {}
            => ValuedIn(D2, X2, kind, el.name) = n + 1
         /\ /\ kind \notin {"subject", "event"} /\ ~(kind = "const" /\ el.tag = "set_const")
            /\ NamedIn(D, X, kind, el.name) # {}
            => ValuedIn(D2, X2, kind, el.name) = ValuedIn(D, X, kind, el.name)
<1> DEFINE all == NamedIn(D, X, kind, el.name)
           set == SetIn(D, X, kind, el.name)
           all2 == NamedIn(D2, X2, kind, el.name)
           set2 == SetIn(D2, X2, kind, el.name)
<1>0. n \in Nat /\ D2[n + 1] = el
  BY DEF Grown, Extends
<1>1. all2 = all \cup {n + 1}
  BY NamedGrows
<1>2. all \subseteq 1 .. n /\ set \subseteq 1 .. n
  BY NamedWithin DEF Grown
<1>3. set2 = IF el.tag = "set_const" THEN set \cup {n + 1} ELSE set
  <2>1. \A e \in all : D2[e] = D[e]
    BY <1>2 DEF Grown, Extends
  <2>2. set2 = {e \in all2 : D2[e].tag = "set_const"} /\ set = {e \in all : D[e].tag = "set_const"}
    BY DEF SetIn
  <2> HIDE DEF all, all2, set, set2
  <2> QED BY <1>0, <1>1, <2>1, <2>2
<1>4. set \subseteq all
  BY DEF SetIn
<1>5. /\ ValuedIn(D, X, kind, el.name) =
           CASE kind \in {"subject", "event"} -> Latest(all)
             [] kind = "const" /\ set # {} -> Latest(set)
             [] OTHER -> Earliest(all)
      /\ ValuedIn(D2, X2, kind, el.name) =
           CASE kind \in {"subject", "event"} -> Latest(all2)
             [] kind = "const" /\ set2 # {} -> Latest(set2)
             [] OTHER -> Earliest(all2)
  BY DEF ValuedIn
<1>6. Latest(all \cup {n + 1}) = n + 1 /\ Latest(set \cup {n + 1}) = n + 1
  BY <1>0, <1>2, LatestGrows
<1>7. /\ all # {} => Earliest(all \cup {n + 1}) = Earliest(all)
      /\ all = {} => Earliest(all \cup {n + 1}) = n + 1
  BY <1>0, <1>2, EarliestGrows
<1> HIDE DEF all, all2, set, set2
<1>8. CASE kind \in {"subject", "event"}
  <2>1. ValuedIn(D2, X2, kind, el.name) = Latest(all2)
    BY <1>5, <1>8
  <2> QED BY <1>1, <1>6, <1>8, <2>1
<1>9. CASE kind = "const" /\ el.tag = "set_const"
  <2>1. set2 = set \cup {n + 1} /\ set2 # {}
    BY <1>3, <1>9
  <2> QED BY <1>5, <1>6, <1>9, <2>1
<1>10. CASE all = {} /\ kind \notin {"subject", "event"} /\ ~(kind = "const" /\ el.tag = "set_const")
  <2>1. kind = "const" => set2 = {}
    BY <1>3, <1>4, <1>10
  <2>2. ValuedIn(D2, X2, kind, el.name) = Earliest(all2)
    BY <1>5, <1>10, <2>1
  <2> QED BY <1>1, <1>7, <1>10, <2>2 DEF all
<1>11. CASE all # {} /\ kind \notin {"subject", "event"} /\ ~(kind = "const" /\ el.tag = "set_const")
  <2>1. kind = "const" => set2 = set
    BY <1>3, <1>11
  <2>2. Earliest(all2) = Earliest(all)
    BY <1>1, <1>7, <1>11
  <2>3. CASE kind = "const" /\ set # {}
    BY <1>5, <1>11, <2>1, <2>3 DEF all
  <2>4. CASE ~(kind = "const" /\ set # {})
    <3>1. ValuedIn(D2, X2, kind, el.name) = Earliest(all2) /\ ValuedIn(D, X, kind, el.name) = Earliest(all)
      BY <1>5, <1>11, <2>1, <2>4
    <3> QED BY <1>11, <2>2, <3>1 DEF all
  <2> QED BY <2>3, <2>4
<1> QED BY <1>8, <1>9, <1>10, <1>11 DEF all

LEMMA ValuedNew ==
  ASSUME NEW D, NEW D2, NEW n, NEW el, NEW X, NEW X2, NEW Y, NEW Y2,
         Grown(D, D2, n, el, X, X2, Y, Y2), NEW kind, OfKind(el, kind),
         \/ kind \in {"subject", "event"} \/ (kind = "const" /\ el.tag = "set_const")
         \/ NamedIn(D, X, kind, el.name) = {}
  PROVE  ValuedIn(D2, X2, kind, el.name) = n + 1
BY ValuedGrows

LEMMA ValuedOld ==
  ASSUME NEW D, NEW D2, NEW n, NEW el, NEW X, NEW X2, NEW Y, NEW Y2,
         Grown(D, D2, n, el, X, X2, Y, Y2), NEW kind, OfKind(el, kind),
         kind \notin {"subject", "event"}, ~(kind = "const" /\ el.tag = "set_const"),
         NamedIn(D, X, kind, el.name) # {}
  PROVE  ValuedIn(D2, X2, kind, el.name) = ValuedIn(D, X, kind, el.name)
BY ValuedGrows

\* The value of a name stems from a declaration of it.
LEMMA ValuedIsNamed ==
  ASSUME NEW D, NEW X, Bounded(X), NEW kind, NEW m, NamedIn(D, X, kind, m) # {}
  PROVE  ValuedIn(D, X, kind, m) \in NamedIn(D, X, kind, m)
<1> DEFINE all == NamedIn(D, X, kind, m)
           set == SetIn(D, X, kind, m)
<1>0. PICK k \in Nat : X \subseteq 1 .. k
  BY DEF Bounded
<1>1. all \subseteq 1 .. k /\ set \subseteq all
  BY <1>0, NamedWithin DEF SetIn
<1>2. \A S \in SUBSET all : S # {} => Latest(S) \in S
  <2> SUFFICES ASSUME NEW S \in SUBSET all, S # {} PROVE Latest(S) \in S
    OBVIOUS
  <2>1. PICK e \in S : \A d \in S : d <= e
    <3> DEFINE B == {k - i : i \in S}
    <3>1. B \in SUBSET Nat /\ B # {}
      BY <1>1
    <3>2. PICK b \in B : \A c \in B : b <= c
      <4> HIDE DEF B
      <4> QED BY <3>1, Least
    <3>3. PICK e \in S : b = k - e
      BY <3>2
    <3>4. \A d \in S : k - e <= k - d
      BY <3>2, <3>3
    <3> QED BY <1>1, <3>3, <3>4
  <2> QED BY <2>1 DEF Latest
<1>3. Earliest(all) \in all
  <2>1. all \in SUBSET Nat
    BY <1>1
  <2> HIDE DEF all
  <2> QED BY <2>1, EarliestIs DEF all
<1>4. ValuedIn(D, X, kind, m) =
        CASE kind \in {"subject", "event"} -> Latest(all)
          [] kind = "const" /\ set # {} -> Latest(set)
          [] OTHER -> Earliest(all)
  BY DEF ValuedIn
<1>5. Latest(all) \in all /\ (set # {} => Latest(set) \in all)
  BY <1>1, <1>2
<1> HIDE DEF all, set
<1>6. ValuedIn(D, X, kind, m) \in all
  BY <1>3, <1>4, <1>5
<1> QED BY <1>6 DEF all

-----------------------------------------------------------------------------
(* An element more, and the lists.                                         *)

LEMMA KnownTags ==
  \A kind \in Kinds, other \in Kinds : kind # other => TagsOf(kind) \cap TagsOf(other) = {}
BY DEF Kinds, TagsOf

LEMMA PartsGrow ==
  ASSUME NEW D, NEW D2, NEW n, NEW el, NEW X, NEW X2, NEW Y, NEW Y2,
         Grown(D, D2, n, el, X, X2, Y, Y2), NEW kind, NEW m, NEW e
  PROVE  /\ PartsIn(D, X, Y, kind, m, e) \subseteq 1 .. n
         /\ n + 1 \in PartsIn(D2, X2, Y2, kind, m, e) =>
              PartsIn(D2, X2, Y2, kind, m, e) = PartsIn(D, X, Y, kind, m, e) \cup {n + 1}
         /\ n + 1 \notin PartsIn(D2, X2, Y2, kind, m, e) =>
              PartsIn(D2, X2, Y2, kind, m, e) = PartsIn(D, X, Y, kind, m, e)
<1>1. /\ n \in Nat /\ X \subseteq 1 .. n /\ X2 = X \cup {n + 1} /\ n + 1 \notin X
      /\ \A d \in X : D2[d] = D[d]
      /\ \A d \in X : Known(D2, Y2, d) <=> Known(D, Y, d)
  BY DEF Grown, Extends
<1>2. CASE kind = "style"
  <2>1. /\ PartsIn(D2, X2, Y2, kind, m, e) = NamedIn(D2, X2, "style", m)
        /\ PartsIn(D, X, Y, kind, m, e) = NamedIn(D, X, "style", m)
    BY <1>2 DEF PartsIn
  <2>2. NamedIn(D, X, "style", m) \subseteq 1 .. n
    BY <1>1, NamedWithin
  <2>3. n + 1 \notin NamedIn(D, X, "style", m)
    BY <1>1, <2>2
  <2>4. \/ NamedIn(D2, X2, "style", m) = NamedIn(D, X, "style", m) \cup {n + 1}
        \/ NamedIn(D2, X2, "style", m) = NamedIn(D, X, "style", m)
    <3>1. CASE OfKind(el, "style") /\ el.name = m
      BY <3>1, NamedGrows
    <3>2. CASE ~(OfKind(el, "style") /\ el.name = m)
      BY <3>2, NamedGrows
    <3> QED BY <3>1, <3>2
  <2> QED BY <2>1, <2>2, <2>3, <2>4
<1>3. CASE kind = "grad"
  BY <1>1, <1>3 DEF PartsIn
<1>4. CASE kind = "timeline"
  <2> DEFINE P == {d \in X : D[d].up = e /\ D[d].ok /\ Known(D, Y, d)}
             P2 == {d \in X2 : D2[d].up = e /\ D2[d].ok /\ Known(D2, Y2, d)}
  <2>1. PartsIn(D2, X2, Y2, kind, m, e) = P2 /\ PartsIn(D, X, Y, kind, m, e) = P
    BY <1>4 DEF PartsIn
  <2>2. \A d \in X : d \in P2 <=> d \in P
    BY <1>1
  <2>3. P \subseteq X /\ P2 \subseteq X2
    OBVIOUS
  <2> HIDE DEF P, P2
  <2> QED BY <1>1, <2>1, <2>2, <2>3
<1>5. CASE kind \notin {"style", "grad", "timeline"}
  BY <1>5 DEF PartsIn
<1> QED BY <1>2, <1>3, <1>4, <1>5

LEMMA PartsOrdered ==
  ASSUME NEW D, NEW D2, NEW n, NEW el, NEW X, NEW X2, NEW Y, NEW Y2,
         Grown(D, D2, n, el, X, X2, Y, Y2), NEW kind, NEW m, NEW e
  PROVE  /\ n + 1 \in PartsIn(D2, X2, Y2, kind, m, e) =>
              Ordered(PartsIn(D2, X2, Y2, kind, m, e), Len(D2)) =
                Append(Ordered(PartsIn(D, X, Y, kind, m, e), Len(D)), n + 1)
         /\ n + 1 \notin PartsIn(D2, X2, Y2, kind, m, e) =>
              Ordered(PartsIn(D2, X2, Y2, kind, m, e), Len(D2)) = Ordered(PartsIn(D, X, Y, kind, m, e), Len(D))
<1> DEFINE P == PartsIn(D, X, Y, kind, m, e)
           P2 == PartsIn(D2, X2, Y2, kind, m, e)
<1>1. n \in Nat /\ Len(D) = n /\ Len(D2) = n + 1 /\ n + 1 \in Nat /\ n <= n + 1
  BY DEF Grown, Extends
<1>2. /\ P \subseteq 1 .. n
      /\ n + 1 \in P2 => P2 = P \cup {n + 1}
      /\ n + 1 \notin P2 => P2 = P
  BY PartsGrow
<1> HIDE DEF P, P2
<1>3. Ordered(P \cup {n + 1}, n + 1) = Append(Ordered(P, n), n + 1)
  BY <1>1, <1>2, OrderedAdds
<1>4. Ordered(P, n + 1) = Ordered(P, n)
  BY <1>1, <1>2, OrderedStays
<1>5. /\ n + 1 \in P2 => Ordered(P2, Len(D2)) = Append(Ordered(P, Len(D)), n + 1)
      /\ n + 1 \notin P2 => Ordered(P2, Len(D2)) = Ordered(P, Len(D))
  BY <1>1, <1>2, <1>3, <1>4
<1> QED BY <1>5 DEF P, P2

\* The new element belongs to the one that it stands in, if that is declared.
LEMMA PartIsIn ==
  ASSUME NEW D, NEW D2, NEW n, NEW el, NEW X, NEW X2, NEW Y, NEW Y2,
         Grown(D, D2, n, el, X, X2, Y, Y2), NEW kind \in Kinds, NEW m, NEW e \in DeclaredIn(D2, X2, kind)
  PROVE  n + 1 \in PartsIn(D2, X2, Y2, kind, m, e) <=>
           \/ kind = "style" /\ OfKind(el, "style") /\ el.name = m
           \/ kind = "grad" /\ el.tag = "stop" /\ el.up = e
           \/ kind = "timeline" /\ el.tag \in {"animation", "include_timeline"} /\ el.up = e /\ el.ok
                /\ Known(D2, Y2, n + 1)
<1>1. /\ n \in Nat /\ X \subseteq 1 .. n /\ X2 = X \cup {n + 1} /\ n + 1 \in X2 /\ D2[n + 1] = el
      /\ DocSound(D2) /\ Len(D2) = n + 1
  BY DEF Grown, Extends
<1>2. e \in 1 .. n + 1 /\ D2[e].tag \in TagsOf(kind)
  BY <1>1 DEF DeclaredIn
<1>3. el.up = e => el.tag \in Allowed(D2[e].tag)
  <2>1. n + 1 \in 1 .. Len(D2) /\ e # 0
    BY <1>1, <1>2
  <2> QED BY <1>1, <2>1 DEF DocSound
<1>4. CASE kind = "style"
  BY <1>1, <1>4 DEF PartsIn, NamedIn, DeclaredIn, OfKind
<1>5. CASE kind = "grad"
  <2>1. D2[e].tag = "grad"
    BY <1>2, <1>5 DEF TagsOf
  <2>2. el.up = e => el.tag = "stop"
    BY <1>3, <2>1, AllowedIs
  <2> QED BY <1>1, <1>5, <2>2 DEF PartsIn
<1>6. CASE kind = "timeline"
  <2>1. D2[e].tag = "timeline"
    BY <1>2, <1>6 DEF TagsOf
  <2>2. el.up = e => el.tag \in {"animation", "include_timeline"}
    BY <1>3, <2>1, AllowedIs
  <2> QED BY <1>1, <1>6, <2>2 DEF PartsIn
<1>7. CASE kind \notin {"style", "grad", "timeline"}
  BY <1>7 DEF PartsIn
<1> QED BY <1>4, <1>5, <1>6, <1>7

\* Nothing stands in it yet.
LEMMA PartsEmpty ==
  ASSUME NEW D, NEW D2, NEW n, NEW el, NEW X, NEW X2, NEW Y, NEW Y2,
         Grown(D, D2, n, el, X, X2, Y, Y2), NEW kind, kind # "style", NEW m
  PROVE  PartsIn(D2, X2, Y2, kind, m, n + 1) = {}
<1>1. n \in Nat /\ X2 \subseteq 1 .. n + 1 /\ DocSound(D2) /\ Len(D2) = n + 1
  BY DEF Grown, Extends
<1>2. \A d \in X2 : D2[d].up # n + 1
  <2> SUFFICES ASSUME NEW d \in X2 PROVE D2[d].up # n + 1
    OBVIOUS
  <2>1. d \in 1 .. Len(D2)
    BY <1>1
  <2>2. D2[d].up < d /\ D2[d] \in ElementSet
    BY <1>1, <2>1 DEF DocSound
  <2>3. D2[d].up \in Nat
    BY <2>2 DEF ElementSet
  <2> QED BY <1>1, <2>1, <2>2, <2>3
<1> QED BY <1>2 DEF PartsIn

LEMMA RecordStays ==
  ASSUME NEW D, NEW D2, NEW n, NEW el, NEW X, NEW X2, NEW Y, NEW Y2,
         Grown(D, D2, n, el, X, X2, Y, Y2), NEW kind, NEW r, RecordSound(D, X, Y, kind, r),
         ValuedIn(D2, X2, kind, r.name) = ValuedIn(D, X, kind, r.name),
         n + 1 \notin PartsIn(D2, X2, Y2, kind, r.name, r.by)
  PROVE  RecordSound(D2, X2, Y2, kind, r)
BY PartsOrdered DEF RecordSound

LEMMA RecordCollects ==
  ASSUME NEW D, NEW D2, NEW n, NEW el, NEW X, NEW X2, NEW Y, NEW Y2,
         Grown(D, D2, n, el, X, X2, Y, Y2), NEW kind, NEW r, RecordSound(D, X, Y, kind, r),
         ValuedIn(D2, X2, kind, r.name) = ValuedIn(D, X, kind, r.name),
         n + 1 \in PartsIn(D2, X2, Y2, kind, r.name, r.by),
         NEW x, x.name = r.name, x.by = r.by, x.parts = Append(r.parts, n + 1)
  PROVE  RecordSound(D2, X2, Y2, kind, x)
BY PartsOrdered DEF RecordSound

LEMMA RecordFresh ==
  ASSUME NEW D2, NEW X2, NEW Y2, NEW kind, NEW r, DocSound(D2),
         r.by = ValuedIn(D2, X2, kind, r.name), r.parts = Nothing,
         PartsIn(D2, X2, Y2, kind, r.name, r.by) = {}
  PROVE  RecordSound(D2, X2, Y2, kind, r)
<1>1. Len(D2) \in Nat
  BY DEF DocSound
<1> QED BY <1>1, OrderedEmpty DEF RecordSound

\* A name more, or a record changed.
NameMore(D, X, D2, X2, kind, new) ==
  \A m \in Names : NamedIn(D2, X2, kind, m) # {} <=> NamedIn(D, X, kind, m) # {} \/ m = new

\* Every record of a list is what its elements say.
AllSound(D2, X2, Y2, kind, list) == \A i \in 1 .. Len(list) : RecordSound(D2, X2, Y2, kind, list[i])

LEMMA FilesInserted ==
  ASSUME NEW D, NEW X, NEW Y, NEW D2, NEW X2, NEW Y2, NEW kind, NEW list, Files(D, X, Y, kind, list),
         NEW new, NEW at, NEW r, Placed(list, new, at, r), ~Has(list, r.name),
         NameMore(D, X, D2, X2, kind, r.name), RecordSound(D2, X2, Y2, kind, r),
         AllSound(D2, X2, Y2, kind, list)
  PROVE  Files(D2, X2, Y2, kind, new)
<1>1. Len(list) \in Nat /\ new \in Seq(RecordSet) /\ Len(new) = Len(list) + 1 /\ at \in 1 .. Len(new) /\ new[at] = r
  BY DEF Files, Placed
\* Where the other records come from.
<1>2. \A i \in 1 .. Len(new) : i # at =>
        \E j \in 1 .. Len(list) : new[i] = list[j] /\ (i < at => j = i) /\ (i > at => j = i - 1)
  <2> SUFFICES ASSUME NEW i \in 1 .. Len(new), i # at
               PROVE  \E j \in 1 .. Len(list) : new[i] = list[j] /\ (i < at => j = i) /\ (i > at => j = i - 1)
    OBVIOUS
  <2>1. CASE i < at
    <3>1. i \in 1 .. at - 1 /\ i \in 1 .. Len(list)
      BY <1>1, <2>1
    <3> QED BY <1>1, <2>1, <3>1 DEF Placed
  <2>2. CASE i > at
    <3>1. i - 1 \in at .. Len(list) /\ i - 1 \in 1 .. Len(list) /\ (i - 1) + 1 = i
      BY <1>1, <2>2
    <3>2. new[(i - 1) + 1] = list[i - 1]
      BY <3>1 DEF Placed
    <3> QED BY <1>1, <2>2, <3>1, <3>2
  <2> QED BY <1>1, <2>1, <2>2
<1>3. \A j \in 1 .. Len(list) : \E i \in 1 .. Len(new) : new[i] = list[j]
  <2> SUFFICES ASSUME NEW j \in 1 .. Len(list) PROVE \E i \in 1 .. Len(new) : new[i] = list[j]
    OBVIOUS
  <2>1. CASE j < at
    <3>1. j \in 1 .. at - 1 /\ j \in 1 .. Len(new)
      BY <1>1, <2>1
    <3> QED BY <3>1 DEF Placed
  <2>2. CASE j >= at
    <3>1. j \in at .. Len(list) /\ j + 1 \in 1 .. Len(new)
      BY <1>1, <2>2
    <3> QED BY <3>1 DEF Placed
  <2> QED BY <1>1, <2>1, <2>2
<1>4. \A m : Has(new, m) <=> Has(list, m) \/ m = r.name
  BY <1>1, <1>2, <1>3 DEF Has
<1>5. \A m \in Names : Has(new, m) <=> NamedIn(D2, X2, kind, m) # {}
  BY <1>4 DEF Files, NameMore
<1>6. \A i, j \in 1 .. Len(new) : new[i].name = new[j].name => i = j
  <2> SUFFICES ASSUME NEW i \in 1 .. Len(new), NEW j \in 1 .. Len(new), new[i].name = new[j].name PROVE i = j
    OBVIOUS
  <2>1. CASE i = at
    BY <1>1, <1>2, <2>1 DEF Has
  <2>2. CASE j = at
    BY <1>1, <1>2, <2>2 DEF Has
  <2>3. CASE i # at /\ j # at
    <3>1. PICK k \in 1 .. Len(list) : new[i] = list[k] /\ (i < at => k = i) /\ (i > at => k = i - 1)
      BY <1>2, <2>3
    <3>2. PICK l \in 1 .. Len(list) : new[j] = list[l] /\ (j < at => l = j) /\ (j > at => l = j - 1)
      BY <1>2, <2>3
    <3>3. k = l
      BY <3>1, <3>2 DEF Files
    <3> QED BY <1>1, <2>3, <3>1, <3>2, <3>3
  <2> QED BY <2>1, <2>2, <2>3
<1>7. \A i \in 1 .. Len(new) : RecordSound(D2, X2, Y2, kind, new[i])
  BY <1>1, <1>2 DEF AllSound
<1> QED BY <1>1, <1>5, <1>6, <1>7 DEF Files

LEMMA FilesReplaced ==
  ASSUME NEW D, NEW X, NEW Y, NEW D2, NEW X2, NEW Y2, NEW kind, NEW list, Files(D, X, Y, kind, list),
         NEW new, NEW at, NEW r, Replaced(list, new, at, r), r.name = list[at].name,
         \A m \in Names : NamedIn(D2, X2, kind, m) # {} <=> NamedIn(D, X, kind, m) # {},
         RecordSound(D2, X2, Y2, kind, r),
         \A i \in 1 .. Len(list) : i # at => RecordSound(D2, X2, Y2, kind, list[i])
  PROVE  Files(D2, X2, Y2, kind, new)
<1>1. /\ new \in Seq(RecordSet) /\ Len(new) = Len(list) /\ at \in 1 .. Len(list) /\ new[at] = r
      /\ \A i \in 1 .. Len(list) : i # at => new[i] = list[i]
  BY DEF Replaced
<1>2. \A i \in 1 .. Len(list) : new[i].name = list[i].name
  BY <1>1
<1>3. \A m : Has(new, m) <=> Has(list, m)
  BY <1>1, <1>2 DEF Has
<1>4. \A m \in Names : Has(new, m) <=> NamedIn(D2, X2, kind, m) # {}
  BY <1>3 DEF Files
<1>5. \A i, j \in 1 .. Len(new) : new[i].name = new[j].name => i = j
  BY <1>1, <1>2 DEF Files
<1>6. \A i \in 1 .. Len(new) : RecordSound(D2, X2, Y2, kind, new[i])
  BY <1>1
<1> QED BY <1>1, <1>4, <1>5, <1>6 DEF Files

LEMMA FilesSame ==
  ASSUME NEW D, NEW X, NEW Y, NEW D2, NEW X2, NEW Y2, NEW kind, NEW list, Files(D, X, Y, kind, list),
         \A m \in Names : NamedIn(D2, X2, kind, m) # {} <=> NamedIn(D, X, kind, m) # {},
         \A i \in 1 .. Len(list) : RecordSound(D2, X2, Y2, kind, list[i])
  PROVE  Files(D2, X2, Y2, kind, list)
BY DEF Files

\* A record of a list stems from a declaration of its name.
LEMMA FilesBy ==
  ASSUME NEW D, NEW X, NEW Y, Bounded(X), NEW kind, NEW list, Files(D, X, Y, kind, list),
         NEW i \in 1 .. Len(list)
  PROVE  /\ list[i] \in RecordSet /\ list[i].name \in Names
         /\ list[i].by \in NamedIn(D, X, kind, list[i].name) /\ list[i].by \in DeclaredIn(D, X, kind)
         /\ D[list[i].by].name = list[i].name
<1>1. list[i] \in RecordSet
  BY DEF Files
<1>2. list[i].name \in Names
  BY <1>1, RecordIs
<1>3. NamedIn(D, X, kind, list[i].name) # {}
  BY <1>2 DEF Files, Has
<1>4. list[i].by \in NamedIn(D, X, kind, list[i].name)
  <2>1. ValuedIn(D, X, kind, list[i].name) \in NamedIn(D, X, kind, list[i].name)
    BY <1>3, ValuedIsNamed
  <2>2. list[i].by = ValuedIn(D, X, kind, list[i].name)
    BY DEF Files, RecordSound
  <2> QED BY <2>1, <2>2
<1> QED BY <1>1, <1>2, <1>4 DEF NamedIn

\* An element that declares nothing of the kind, and belongs to none.
NoPart(D2, Y2, n, el, kind) ==
  /\ ~OfKind(el, kind)
  /\ kind = "grad" => el.tag # "stop"
  /\ kind = "timeline" => ~(el.tag \in {"animation", "include_timeline"} /\ el.ok /\ Known(D2, Y2, n + 1))

LEMMA StaysDeclared ==
  ASSUME NEW D, NEW D2, NEW n, NEW el, NEW X, NEW X2, NEW Y, NEW Y2,
         Grown(D, D2, n, el, X, X2, Y, Y2), NEW kind
  PROVE  /\ DeclaredIn(D, X, kind) \subseteq DeclaredIn(D2, X2, kind)
         /\ \A d \in X : D2[d] = D[d]
         /\ n \in Nat /\ X \subseteq 1 .. n /\ Bounded(X) /\ DocSound(D2)
BY DEF Grown, Extends, DeclaredIn, Bounded

LEMMA FilesDeclared ==
  ASSUME NEW D, NEW D2, NEW n, NEW el, NEW X, NEW X2, NEW Y, NEW Y2,
         Grown(D, D2, n, el, X, X2, Y, Y2), NEW kind, NEW list, Files(D, X, Y, kind, list),
         NEW i \in 1 .. Len(list)
  PROVE  /\ list[i].by \in DeclaredIn(D2, X2, kind) /\ list[i].name \in Names
         /\ D[list[i].by].name = list[i].name
<1>1. Bounded(X) /\ DeclaredIn(D, X, kind) \subseteq DeclaredIn(D2, X2, kind)
  BY StaysDeclared
<1>3. /\ list[i].name \in Names /\ list[i].by \in DeclaredIn(D, X, kind)
      /\ D[list[i].by].name = list[i].name
  BY <1>1, FilesBy
<1> QED BY <1>1, <1>3

LEMMA FilesIdle ==
  ASSUME NEW D, NEW D2, NEW n, NEW el, NEW X, NEW X2, NEW Y, NEW Y2,
         Grown(D, D2, n, el, X, X2, Y, Y2), NEW kind \in Kinds, NEW list, Files(D, X, Y, kind, list),
         NoPart(D2, Y2, n, el, kind)
  PROVE  Files(D2, X2, Y2, kind, list)
<1>1. ~OfKind(el, kind)
  BY DEF NoPart
<1>2. \A m : NamedIn(D2, X2, kind, m) = NamedIn(D, X, kind, m)
  BY <1>1, NamedGrows
<1>3. ASSUME NEW i \in 1 .. Len(list) PROVE RecordSound(D2, X2, Y2, kind, list[i])
  <2>1. list[i].by \in DeclaredIn(D2, X2, kind)
    BY FilesDeclared
  <2>2. n + 1 \notin PartsIn(D2, X2, Y2, kind, list[i].name, list[i].by)
    BY <2>1, PartIsIn DEF NoPart
  <2>3. ValuedIn(D2, X2, kind, list[i].name) = ValuedIn(D, X, kind, list[i].name)
    BY <1>2, StaysDeclared, ValuedSame
  <2>4. RecordSound(D, X, Y, kind, list[i])
    BY DEF Files
  <2> QED BY <2>2, <2>3, <2>4, RecordStays
<1> QED BY <1>2, <1>3, FilesSame

\* Records of other names stay as they are, and so do all that are not extended.
LEMMA OthersStay ==
  ASSUME NEW D, NEW D2, NEW n, NEW el, NEW X, NEW X2, NEW Y, NEW Y2,
         Grown(D, D2, n, el, X, X2, Y, Y2), NEW kind \in Kinds, NEW list, Files(D, X, Y, kind, list),
         OfKind(el, kind), NEW i \in 1 .. Len(list), list[i].name # el.name
  PROVE  RecordSound(D2, X2, Y2, kind, list[i])
<1>1. list[i].by \in DeclaredIn(D2, X2, kind)
  BY FilesDeclared
<1>2. NamedIn(D2, X2, kind, list[i].name) = NamedIn(D, X, kind, list[i].name)
  BY NamedGrows
<1>3. n + 1 \notin PartsIn(D2, X2, Y2, kind, list[i].name, list[i].by)
  <2>1. kind = "grad" => el.tag # "stop"
    BY DEF OfKind, TagsOf
  <2>2. kind = "timeline" => el.tag \notin {"animation", "include_timeline"}
    BY DEF OfKind, TagsOf
  <2> QED BY <1>1, <2>1, <2>2, PartIsIn
<1>4. ValuedIn(D2, X2, kind, list[i].name) = ValuedIn(D, X, kind, list[i].name)
  BY <1>2, StaysDeclared, ValuedSame
<1>5. RecordSound(D, X, Y, kind, list[i])
  BY DEF Files
<1> QED BY <1>3, <1>4, <1>5, RecordStays

\* The names of the kind are those there were, and the new one.
LEMMA NamesGrow ==
  ASSUME NEW D, NEW D2, NEW n, NEW el, NEW X, NEW X2, NEW Y, NEW Y2,
         Grown(D, D2, n, el, X, X2, Y, Y2), NEW kind, OfKind(el, kind), NEW m
  PROVE  NamedIn(D2, X2, kind, m) # {} <=> NamedIn(D, X, kind, m) # {} \/ m = el.name
<1>1. CASE m = el.name
  <2>1. NamedIn(D2, X2, kind, m) = NamedIn(D, X, kind, m) \cup {n + 1}
    BY <1>1, NamedGrows
  <2> QED BY <1>1, <2>1
<1>2. CASE m # el.name
  <2>1. NamedIn(D2, X2, kind, m) = NamedIn(D, X, kind, m)
    BY <1>2, NamedGrows
  <2> QED BY <1>2, <2>1
<1> QED BY <1>1, <1>2

\* A new name.
LEMMA FilesNew ==
  ASSUME NEW D, NEW D2, NEW n, NEW el, NEW X, NEW X2, NEW Y, NEW Y2,
         Grown(D, D2, n, el, X, X2, Y, Y2), NEW kind \in Kinds, NEW list, Files(D, X, Y, kind, list),
         OfKind(el, kind), el.name \in Names, ~Has(list, el.name),
         NEW new, NEW at, NEW r \in RecordSet, Placed(list, new, at, r), r.name = el.name, r.by = n + 1,
         r.parts = IF kind = "style" THEN Append(Nothing, n + 1) ELSE Nothing
  PROVE  Files(D2, X2, Y2, kind, new)
<1>1. NameMore(D, X, D2, X2, kind, r.name)
  BY NamesGrow DEF NameMore
<1>2. NamedIn(D, X, kind, el.name) = {}
  BY DEF Files
<1>3. ValuedIn(D2, X2, kind, el.name) = n + 1
  BY <1>2, ValuedNew
<1>4. RecordSound(D2, X2, Y2, kind, r)
  <2>1. CASE kind # "style"
    <3>1. PartsIn(D2, X2, Y2, kind, r.name, r.by) = {}
      BY <2>1, PartsEmpty
    <3> QED BY <1>3, <2>1, <3>1, StaysDeclared, RecordFresh
  <2>2. CASE kind = "style"
    <3>1. n \in Nat
      BY StaysDeclared
    <3>2. NamedIn(D2, X2, kind, el.name) = {} \cup {n + 1}
      BY <1>2, NamedGrows
    <3>3. PartsIn(D2, X2, Y2, kind, r.name, r.by) = {} \cup {n + 1}
      BY <2>2, <3>2 DEF PartsIn
    <3>4. Ordered({} \cup {n + 1}, n + 1) = Append(Ordered({}, n), n + 1)
      BY <3>1, OrderedAdds
    <3>5. Ordered({}, n) = Nothing /\ Len(D2) = n + 1
      BY <3>1, OrderedEmpty DEF Grown, Extends
    <3>6. Ordered(PartsIn(D2, X2, Y2, kind, r.name, r.by), Len(D2)) = Append(Nothing, n + 1)
      BY <3>3, <3>4, <3>5
    <3> QED BY <1>3, <2>2, <3>6 DEF RecordSound
  <2> QED BY <2>1, <2>2
<1>5. ASSUME NEW i \in 1 .. Len(list) PROVE RecordSound(D2, X2, Y2, kind, list[i])
  <2>1. list[i].name # el.name
    BY DEF Has
  <2> QED BY <2>1, OthersStay
<1>6. ~Has(list, r.name)
  OBVIOUS
<1>7. AllSound(D2, X2, Y2, kind, list)
  BY <1>5 DEF AllSound
<1> QED BY <1>1, <1>4, <1>6, <1>7, FilesInserted

\* A name that is there, and keeps its record.
LEMMA FilesKept ==
  ASSUME NEW D, NEW D2, NEW n, NEW el, NEW X, NEW X2, NEW Y, NEW Y2,
         Grown(D, D2, n, el, X, X2, Y, Y2), NEW kind \in {"const", "font", "image"},
         NEW list, Files(D, X, Y, kind, list),
         OfKind(el, kind), el.tag # "set_const", el.name \in Names, Has(list, el.name)
  PROVE  Files(D2, X2, Y2, kind, list)
<1>0. kind \in Kinds
  BY DEF Kinds
<1>1. NamedIn(D, X, kind, el.name) # {}
  BY DEF Files
<1>2. \A m : NamedIn(D2, X2, kind, m) # {} <=> NamedIn(D, X, kind, m) # {}
  BY <1>1, NamesGrow
<1>3. ASSUME NEW i \in 1 .. Len(list) PROVE RecordSound(D2, X2, Y2, kind, list[i])
  <2>1. CASE list[i].name # el.name
    BY <1>0, <2>1, OthersStay
  <2>2. CASE list[i].name = el.name
    <3>0. kind \notin {"subject", "event"} /\ ~(kind = "const" /\ el.tag = "set_const")
      OBVIOUS
    <3>00. ValuedIn(D2, X2, kind, el.name) = ValuedIn(D, X, kind, el.name)
      BY <1>1, <3>0, ValuedGrows
    <3>1. ValuedIn(D2, X2, kind, list[i].name) = ValuedIn(D, X, kind, list[i].name)
      BY <2>2, <3>00
    <3>2. n + 1 \notin PartsIn(D2, X2, Y2, kind, list[i].name, list[i].by)
      BY DEF PartsIn
    <3>3. RecordSound(D, X, Y, kind, list[i])
      BY DEF Files
    <3> QED BY <3>1, <3>2, <3>3, RecordStays
  <2> QED BY <2>1, <2>2
<1> QED BY <1>2, <1>3, FilesSame

\* A name that is there, and takes the new value.
LEMMA FilesSet ==
  ASSUME NEW D, NEW D2, NEW n, NEW el, NEW X, NEW X2, NEW Y, NEW Y2,
         Grown(D, D2, n, el, X, X2, Y, Y2), NEW kind \in {"subject", "event", "const"},
         kind = "const" => el.tag = "set_const",
         NEW list, Files(D, X, Y, kind, list), OfKind(el, kind), el.name \in Names, Has(list, el.name),
         NEW new, NEW r, Replaced(list, new, At(list, el.name), r),
         r.name = el.name, r.by = n + 1, r.parts = list[At(list, el.name)].parts
  PROVE  Files(D2, X2, Y2, kind, new)
<1> DEFINE at == At(list, el.name)
<1>0. kind \in Kinds
  BY DEF Kinds
<1>1. at \in 1 .. Len(list) /\ list[at].name = el.name
  BY AtIs DEF Files
<1> HIDE DEF at
<1>2. NamedIn(D, X, kind, el.name) # {}
  BY DEF Files
<1>3. \A m : NamedIn(D2, X2, kind, m) # {} <=> NamedIn(D, X, kind, m) # {}
  BY <1>2, NamesGrow
<1>4. RecordSound(D2, X2, Y2, kind, r)
  <2>0. kind \in {"subject", "event"} \/ (kind = "const" /\ el.tag = "set_const")
    OBVIOUS
  <2>1. ValuedIn(D2, X2, kind, el.name) = n + 1
    BY <2>0, ValuedNew
  <2>2. RecordSound(D, X, Y, kind, list[at])
    BY <1>1 DEF Files
  <2>3. \A m, e : PartsIn(D2, X2, Y2, kind, m, e) = {} /\ PartsIn(D, X, Y, kind, m, e) = {}
    BY DEF PartsIn
  <2>4. Len(D) \in Nat /\ DocSound(D2)
    BY DEF Grown, Extends
  <2>5. r.parts = Nothing
    BY <2>2, <2>3, <2>4, OrderedEmpty DEF RecordSound, at
  <2> QED BY <2>1, <2>3, <2>4, <2>5, RecordFresh
<1>5. ASSUME NEW i \in 1 .. Len(list), i # at PROVE RecordSound(D2, X2, Y2, kind, list[i])
  <2>1. list[i].name # el.name
    BY <1>1, <1>5 DEF Files
  <2> QED BY <1>0, <2>1, OthersStay
<1> QED BY <1>1, <1>3, <1>4, <1>5, FilesReplaced DEF at

\* A style that is there is extended.
LEMMA FilesMerged ==
  ASSUME NEW D, NEW D2, NEW n, NEW el, NEW X, NEW X2, NEW Y, NEW Y2,
         Grown(D, D2, n, el, X, X2, Y, Y2), NEW kind, kind = "style", NEW list, Files(D, X, Y, kind, list),
         OfKind(el, kind), el.name \in Names, Has(list, el.name),
         NEW new, NEW r, Replaced(list, new, At(list, el.name), r),
         r.name = el.name, r.by = list[At(list, el.name)].by,
         r.parts = Append(list[At(list, el.name)].parts, n + 1)
  PROVE  Files(D2, X2, Y2, kind, new)
<1> DEFINE at == At(list, el.name)
<1>0. kind \in Kinds
  BY DEF Kinds
<1>1. at \in 1 .. Len(list) /\ list[at].name = el.name
  BY AtIs DEF Files
<1>10. r.by = list[at].by /\ r.parts = Append(list[at].parts, n + 1)
  OBVIOUS
<1> HIDE DEF at
<1>2. NamedIn(D, X, kind, el.name) # {}
  BY DEF Files
<1>3. \A m : NamedIn(D2, X2, kind, m) # {} <=> NamedIn(D, X, kind, m) # {}
  BY <1>2, NamesGrow
<1>4. RecordSound(D2, X2, Y2, kind, r)
  <2>1. ValuedIn(D2, X2, kind, el.name) = ValuedIn(D, X, kind, el.name)
    BY <1>2, ValuedOld
  <2>2. RecordSound(D, X, Y, kind, list[at])
    BY <1>1 DEF Files
  <2>3. list[at].by \in DeclaredIn(D2, X2, kind)
    BY <1>1, FilesDeclared
  <2>4. n + 1 \in PartsIn(D2, X2, Y2, kind, list[at].name, list[at].by)
    BY <1>0, <1>1, <2>3, PartIsIn
  <2> QED BY <1>1, <1>10, <2>1, <2>2, <2>4, RecordCollects
<1>5. ASSUME NEW i \in 1 .. Len(list), i # at PROVE RecordSound(D2, X2, Y2, kind, list[i])
  <2>1. list[i].name # el.name
    BY <1>1, <1>5 DEF Files
  <2> QED BY <1>0, <2>1, OthersStay
<1> QED BY <1>1, <1>3, <1>4, <1>5, FilesReplaced DEF at

\* An animation goes to the timeline that it stands in.
LEMMA FilesAnimated ==
  ASSUME NEW D, NEW D2, NEW n, NEW el, NEW X, NEW X2, NEW Y, NEW Y2,
         Grown(D, D2, n, el, X, X2, Y, Y2), NEW list, Files(D, X, Y, "timeline", list),
         el.tag \in {"animation", "include_timeline"}, el.ok, Known(D2, Y2, n + 1),
         NEW name, Has(list, name), list[At(list, name)].by = el.up,
         NEW new, NEW r, Replaced(list, new, At(list, name), r),
         r.name = name, r.by = el.up, r.parts = Append(list[At(list, name)].parts, n + 1)
  PROVE  Files(D2, X2, Y2, "timeline", new)
<1> DEFINE at == At(list, name)
<1>0. "timeline" \in Kinds /\ ~OfKind(el, "timeline")
  BY DEF Kinds, OfKind, TagsOf
<1>1. at \in 1 .. Len(list) /\ list[at].name = name
  BY AtIs DEF Files
<1>10. r.by = list[at].by /\ r.parts = Append(list[at].parts, n + 1) /\ list[at].by = el.up
  OBVIOUS
<1> HIDE DEF at
<1>2. \A m : NamedIn(D2, X2, "timeline", m) = NamedIn(D, X, "timeline", m)
  BY <1>0, NamedGrows
<1>3. ASSUME NEW i \in 1 .. Len(list)
      PROVE  /\ list[i].by \in DeclaredIn(D2, X2, "timeline")
             /\ ValuedIn(D2, X2, "timeline", list[i].name) = ValuedIn(D, X, "timeline", list[i].name)
             /\ RecordSound(D, X, Y, "timeline", list[i])
             /\ D[list[i].by].name = list[i].name
  <2>1. list[i].by \in DeclaredIn(D2, X2, "timeline")
    BY FilesDeclared
  <2>2. ValuedIn(D2, X2, "timeline", list[i].name) = ValuedIn(D, X, "timeline", list[i].name)
    BY <1>2, StaysDeclared, ValuedSame
  <2>3. RecordSound(D, X, Y, "timeline", list[i])
    BY DEF Files
  <2>4. D[list[i].by].name = list[i].name
    BY FilesDeclared
  <2> QED BY <2>1, <2>2, <2>3, <2>4
<1>4. RecordSound(D2, X2, Y2, "timeline", r)
  <2>1. n + 1 \in PartsIn(D2, X2, Y2, "timeline", list[at].name, list[at].by)
    <3>1. list[at].by \in DeclaredIn(D2, X2, "timeline") /\ el.up = list[at].by
      BY <1>1, <1>3, <1>10
    <3> QED BY <1>0, <3>1, PartIsIn
  <2> QED BY <1>1, <1>3, <1>10, <2>1, RecordCollects
<1>5. ASSUME NEW i \in 1 .. Len(list), i # at PROVE RecordSound(D2, X2, Y2, "timeline", list[i])
  <2>1. list[i].by # el.up
    <3>1. list[i].name # name
      BY <1>1, <1>5 DEF Files
    <3>2. D[list[i].by].name = list[i].name /\ D[list[at].by].name = name
      BY <1>1, <1>3
    <3> QED BY <1>10, <3>1, <3>2
  <2>2. n + 1 \notin PartsIn(D2, X2, Y2, "timeline", list[i].name, list[i].by)
    BY <1>0, <1>3, <2>1, PartIsIn
  <2> QED BY <1>3, <2>2, RecordStays
<1> QED BY <1>1, <1>2, <1>4, <1>5, FilesReplaced DEF at

LEMMA RowsBy ==
  ASSUME NEW D, NEW D2, NEW n, NEW el, NEW X, NEW X2, NEW Y, NEW Y2,
         Grown(D, D2, n, el, X, X2, Y, Y2), NEW kind, NEW list, Rows(D, X, Y, kind, list)
  PROVE  /\ \A i \in 1 .. Len(list) : list[i].by \in DeclaredIn(D2, X2, kind)
         /\ \A i, j \in 1 .. Len(list) : i < j => list[i].by < list[j].by
<1> DEFINE S == DeclaredIn(D, X, kind)
           O == Ordered(S, Len(D))
<1>1. Len(D) \in Nat
  BY DEF Grown, Extends
<1>2. /\ \A i \in 1 .. Len(O) : O[i] \in S
      /\ \A i, j \in 1 .. Len(O) : i < j => O[i] < O[j]
  BY <1>1, OrderedOf
<1>3. Len(list) = Len(O) /\ \A i \in 1 .. Len(list) : list[i].by = O[i]
  BY DEF Rows
<1>4. S \subseteq DeclaredIn(D2, X2, kind)
  BY StaysDeclared
<1> HIDE DEF S, O
<1> QED BY <1>2, <1>3, <1>4

LEMMA RowsIdle ==
  ASSUME NEW D, NEW D2, NEW n, NEW el, NEW X, NEW X2, NEW Y, NEW Y2,
         Grown(D, D2, n, el, X, X2, Y, Y2), NEW kind \in Kinds, NEW list, Rows(D, X, Y, kind, list),
         NoPart(D2, Y2, n, el, kind), kind # "style"
  PROVE  Rows(D2, X2, Y2, kind, list)
<1> DEFINE S == DeclaredIn(D, X, kind)
<1>1. n \in Nat /\ Len(D) = n /\ Len(D2) = n + 1 /\ n + 1 \in Nat /\ n <= n + 1 /\ X \subseteq 1 .. n
  BY DEF Grown, Extends
<1>2. DeclaredIn(D2, X2, kind) = S
  BY DeclaredGrows DEF NoPart
<1>3. S \subseteq 1 .. n
  BY <1>1, NamedWithin
<1> HIDE DEF S
<1>4. Ordered(S, Len(D2)) = Ordered(S, Len(D))
  BY <1>1, <1>3, OrderedStays
<1>5. ASSUME NEW i \in 1 .. Len(list)
      PROVE  list[i].parts = Kept(kind, Ordered(PartsIn(D2, X2, Y2, kind, list[i].name, list[i].by), Len(D2)))
  <2>1. list[i].by \in DeclaredIn(D2, X2, kind)
    BY RowsBy
  <2>2. n + 1 \notin PartsIn(D2, X2, Y2, kind, list[i].name, list[i].by)
    BY <2>1, PartIsIn DEF NoPart
  <2>3. Ordered(PartsIn(D2, X2, Y2, kind, list[i].name, list[i].by), Len(D2)) =
          Ordered(PartsIn(D, X, Y, kind, list[i].name, list[i].by), Len(D))
    BY <2>2, PartsOrdered
  <2> QED BY <2>3 DEF Rows
<1> QED BY <1>2, <1>4, <1>5 DEF Rows, S

LEMMA RowsPut ==
  ASSUME NEW D, NEW D2, NEW n, NEW el, NEW X, NEW X2, NEW Y, NEW Y2,
         Grown(D, D2, n, el, X, X2, Y, Y2), NEW kind \in {"prop", "grad"}, NEW list, Rows(D, X, Y, kind, list),
         OfKind(el, kind), NEW new, NEW r, Placed(list, new, Len(list) + 1, r),
         r.by = n + 1, r.parts = Nothing
  PROVE  Rows(D2, X2, Y2, kind, new)
<1> DEFINE S == DeclaredIn(D, X, kind)
           O == Ordered(S, n)
           S2 == DeclaredIn(D2, X2, kind)
           O2 == Ordered(S2, n + 1)
<1>1. n \in Nat /\ Len(D) = n /\ Len(D2) = n + 1 /\ n + 1 \in Nat /\ X \subseteq 1 .. n
  BY DEF Grown, Extends
<1>2. S2 = S \cup {n + 1}
  BY DeclaredGrows
<1>3. S \subseteq 1 .. n
  BY <1>1, NamedWithin
<1>4. Len(list) = Len(O) /\ \A i \in 1 .. Len(list) : list[i].by = O[i]
  BY <1>1 DEF Rows
<1>5. list \in Seq(RecordSet) /\ Len(list) \in Nat
  BY DEF Rows
<1> HIDE DEF S, S2
<1>6. O2 = Append(O, n + 1) /\ O \in Seq(Nat)
  BY <1>1, <1>2, <1>3, OrderedAdds, OrderedOf
<1> HIDE DEF O, O2
<1>7. Len(O2) = Len(O) + 1 /\ O2[Len(O) + 1] = n + 1 /\ \A i \in 1 .. Len(O) : O2[i] = O[i]
  BY <1>1, <1>6, AppendProperties
<1>8. /\ new \in Seq(RecordSet) /\ Len(new) = Len(list) + 1 /\ new[Len(list) + 1] = r
      /\ \A i \in 1 .. Len(list) : new[i] = list[i]
  BY <1>5 DEF Placed
<1>9. ASSUME NEW i \in 1 .. Len(new)
      PROVE  /\ new[i].by = O2[i]
             /\ new[i].parts = Kept(kind, Ordered(PartsIn(D2, X2, Y2, kind, new[i].name, new[i].by), Len(D2)))
  <2>1. CASE i = Len(list) + 1
    <3>1. PartsIn(D2, X2, Y2, kind, r.name, n + 1) = {}
      BY PartsEmpty
    <3>2. Ordered({}, Len(D2)) = Nothing
      BY <1>1, OrderedEmpty
    <3>3. Kept(kind, Nothing) = Nothing
      BY KeptIs
    <3> QED BY <1>4, <1>7, <1>8, <2>1, <3>1, <3>2, <3>3
  <2>2. CASE i # Len(list) + 1
    <3>1. i \in 1 .. Len(list)
      BY <1>5, <1>8, <2>2
    <3>2. list[i].by \in DeclaredIn(D2, X2, kind)
      BY <3>1, RowsBy
    <3>3. kind \in Kinds /\ (kind = "grad" => el.tag # "stop")
      BY DEF Kinds, OfKind, TagsOf
    <3>4. n + 1 \notin PartsIn(D2, X2, Y2, kind, list[i].name, list[i].by)
      BY <3>2, <3>3, PartIsIn
    <3>5. Ordered(PartsIn(D2, X2, Y2, kind, list[i].name, list[i].by), Len(D2)) =
            Ordered(PartsIn(D, X, Y, kind, list[i].name, list[i].by), Len(D))
      BY <3>4, PartsOrdered
    <3>6. list[i].parts = Kept(kind, Ordered(PartsIn(D, X, Y, kind, list[i].name, list[i].by), Len(D)))
      BY <3>1 DEF Rows
    <3> QED BY <1>4, <1>7, <1>8, <3>1, <3>5, <3>6
  <2> QED BY <2>1, <2>2
<1> QED BY <1>1, <1>4, <1>7, <1>8, <1>9 DEF Rows, O2, S2

\* A stop goes to the gradient that it stands in, the last one.
LEMMA RowsStop ==
  ASSUME NEW D, NEW D2, NEW n, NEW el, NEW X, NEW X2, NEW Y, NEW Y2,
         Grown(D, D2, n, el, X, X2, Y, Y2), NEW kind, kind = "grad", NEW list, Rows(D, X, Y, kind, list),
         el.tag = "stop", NEW at, at = Len(list), list[at].by = el.up,
         NEW new, NEW r, Replaced(list, new, at, r),
         r.name = list[at].name, r.by = el.up, r.parts = Stopped(list[at].parts, n + 1)
  PROVE  Rows(D2, X2, Y2, kind, new)
<1> DEFINE S == DeclaredIn(D, X, kind)
<1>1. n \in Nat /\ Len(D) = n /\ Len(D2) = n + 1 /\ n + 1 \in Nat /\ n <= n + 1 /\ X \subseteq 1 .. n
  BY DEF Grown, Extends
<1>2. ~OfKind(el, kind) /\ kind \in Kinds
  BY DEF OfKind, TagsOf, Kinds
<1>3. DeclaredIn(D2, X2, kind) = S
  BY <1>2, DeclaredGrows
<1>4. S \subseteq 1 .. n
  BY <1>1, NamedWithin
<1> HIDE DEF S
<1>5. Ordered(S, Len(D2)) = Ordered(S, Len(D))
  BY <1>1, <1>4, OrderedStays
<1>6. /\ new \in Seq(RecordSet) /\ Len(new) = Len(list) /\ at \in 1 .. Len(list) /\ new[at] = r
      /\ \A i \in 1 .. Len(list) : i # at => new[i] = list[i]
  BY DEF Replaced
<1>7. ASSUME NEW i \in 1 .. Len(list)
      PROVE  /\ new[i].by = list[i].by
             /\ new[i].parts = Kept(kind, Ordered(PartsIn(D2, X2, Y2, kind, new[i].name, new[i].by), Len(D2)))
  <2>1. list[i].by \in DeclaredIn(D2, X2, kind)
    BY RowsBy
  <2>2. list[i].parts = Kept(kind, Ordered(PartsIn(D, X, Y, kind, list[i].name, list[i].by), Len(D)))
    BY DEF Rows
  <2>3. CASE i = at
    <3>1. n + 1 \in PartsIn(D2, X2, Y2, kind, list[i].name, list[i].by)
      BY <1>2, <2>1, <2>3, PartIsIn
    <3>2. Ordered(PartsIn(D2, X2, Y2, kind, list[i].name, list[i].by), Len(D2)) =
            Append(Ordered(PartsIn(D, X, Y, kind, list[i].name, list[i].by), Len(D)), n + 1)
      BY <3>1, PartsOrdered
    <3>3. PICK q \in Seq(Nat) : q = Ordered(PartsIn(D, X, Y, kind, list[i].name, list[i].by), Len(D))
      BY <1>1, OrderedOf
    <3>4. Kept(kind, Append(q, n + 1)) = Stopped(Kept(kind, q), n + 1)
      BY <1>1, KeptIs
    <3> QED BY <1>6, <2>2, <2>3, <3>2, <3>3, <3>4
  <2>4. CASE i # at
    <3>1. i < at /\ at \in 1 .. Len(list)
      BY <1>6, <2>4
    <3>2. list[i].by < list[at].by /\ list[i].by \in Nat /\ list[at].by \in Nat
      <4>1. list[i] \in RecordSet /\ list[at] \in RecordSet
        BY <3>1 DEF Rows
      <4>2. list[i].by < list[at].by
        BY <3>1, RowsBy
      <4> QED BY <4>1, <4>2, RecordIs
    <3>3. list[i].by # el.up
      BY <3>2
    <3>4. n + 1 \notin PartsIn(D2, X2, Y2, kind, list[i].name, list[i].by)
      BY <1>2, <2>1, <3>3, PartIsIn
    <3>5. Ordered(PartsIn(D2, X2, Y2, kind, list[i].name, list[i].by), Len(D2)) =
            Ordered(PartsIn(D, X, Y, kind, list[i].name, list[i].by), Len(D))
      BY <3>4, PartsOrdered
    <3> QED BY <1>6, <2>2, <2>4, <3>5
  <2> QED BY <2>3, <2>4
<1> QED BY <1>3, <1>5, <1>6, <1>7 DEF Rows, S

-----------------------------------------------------------------------------
(* All lists of a scope.                                                   *)

LEMMA FiledIdle ==
  ASSUME NEW D, NEW D2, NEW n, NEW el, NEW X, NEW X2, NEW Y, NEW Y2,
         Grown(D, D2, n, el, X, X2, Y, Y2), NEW kind \in Kinds, NEW list, Filed(D, X, Y, kind, list),
         NoPart(D2, Y2, n, el, kind)
  PROVE  Filed(D2, X2, Y2, kind, list)
<1>1. CASE kind \in {"prop", "grad"}
  <2>1. kind # "style"
    BY <1>1
  <2> QED BY <1>1, <2>1, RowsIdle DEF Filed
<1>2. CASE kind \notin {"prop", "grad"}
  BY <1>2, FilesIdle DEF Filed
<1> QED BY <1>1, <1>2

LEMMA FiledPut ==
  ASSUME NEW D, NEW D2, NEW n, NEW el, NEW X, NEW X2, NEW Y, NEW Y2,
         Grown(D, D2, n, el, X, X2, Y, Y2), NEW kind \in Kinds, NEW list, Filed(D, X, Y, kind, list),
         OfKind(el, kind), el.name \in Names, el.tag # "set_const",
         kind = "timeline" => ~Has(list, el.name), NEW e, e = n + 1
  PROVE  Filed(D2, X2, Y2, kind, Put(kind, list, el.name, e))
<1>1. e \in Nat
  BY DEF Grown, Extends
<1>2. list \in Seq(RecordSet)
  BY DEF Filed, Rows, Files
<1>3. PICK r0 \in RecordSet : r0 = Record(el.name, e) /\ r0.name = el.name /\ r0.by = e /\ r0.parts = Nothing
  BY <1>1, RecordIs
<1>4. CASE kind \in {"prop", "grad"}
  <2>1. Put(kind, list, el.name, e) = PutAlways(list, el.name, e)
    BY <1>4 DEF Put
  <2>2. Placed(list, PutAlways(list, el.name, e), Len(list) + 1, r0)
    BY <1>1, <1>2, <1>3, AlwaysIs
  <2>3. Rows(D, X, Y, kind, list)
    BY <1>4 DEF Filed
  <2>4. Rows(D2, X2, Y2, kind, PutAlways(list, el.name, e))
    BY <1>3, <1>4, <2>2, <2>3, RowsPut
  <2> QED BY <1>4, <2>1, <2>4 DEF Filed
<1>5. CASE kind \notin {"prop", "grad"}
  <2>0. Files(D, X, Y, kind, list)
    BY <1>5 DEF Filed
  <2> SUFFICES Files(D2, X2, Y2, kind, Put(kind, list, el.name, e))
    BY <1>5 DEF Filed
  <2>1. CASE kind \in {"const", "font", "image", "timeline"}
    <3>1. Put(kind, list, el.name, e) = PutFirst(list, el.name, e)
      BY <2>1 DEF Put
    <3>2. CASE Has(list, el.name)
      <4>1. PutFirst(list, el.name, e) = list /\ kind \in {"const", "font", "image"}
        BY <1>1, <1>2, <2>1, <3>2, FirstIs
      <4>2. Files(D2, X2, Y2, kind, list)
        BY <2>0, <3>2, <4>1, FilesKept
      <4> QED BY <3>1, <4>1, <4>2
    <3>3. CASE ~Has(list, el.name)
      <4>1. Placed(list, PutFirst(list, el.name, e), 1, r0)
        BY <1>1, <1>2, <1>3, <3>3, FirstIs
      <4>2. r0.parts = IF kind = "style" THEN Append(Nothing, n + 1) ELSE Nothing
        BY <1>3, <2>1
      <4>3. r0.by = n + 1 /\ r0.name = el.name
        BY <1>3
      <4>4. Files(D2, X2, Y2, kind, PutFirst(list, el.name, e))
        BY <2>0, <3>3, <4>1, <4>2, <4>3, FilesNew
      <4> QED BY <3>1, <4>4
    <3> QED BY <3>2, <3>3
  <2>2. CASE kind \in {"subject", "event"}
    <3>1. Put(kind, list, el.name, e) = PutLast(list, el.name, e)
      BY <2>2 DEF Put
    <3>2. CASE Has(list, el.name)
      <4>1. PICK x \in RecordSet : x = list[At(list, el.name)] /\ x.name = el.name
        BY <1>2, <3>2, AtIs
      <4>2. LET y == [x EXCEPT !.by = e]
            IN  y \in RecordSet /\ y.name = x.name /\ y.by = e /\ y.parts = x.parts
        BY <1>1, RecordIs
      <4>3. PICK y \in RecordSet : y = [x EXCEPT !.by = e] /\ y.name = x.name /\ y.by = e /\ y.parts = x.parts
        BY <4>2
      <4>4. Replaced(list, PutLast(list, el.name, e), At(list, el.name), y)
        BY <1>1, <1>2, <3>2, <4>1, <4>3, LastIs
      <4>5. y.name = el.name /\ y.by = n + 1 /\ y.parts = list[At(list, el.name)].parts
        BY <4>1, <4>3
      <4>6. kind \in {"subject", "event", "const"} /\ (kind = "const" => el.tag = "set_const")
        BY <2>2
      <4>7. Files(D2, X2, Y2, kind, PutLast(list, el.name, e))
        BY <2>0, <3>2, <4>4, <4>5, <4>6, FilesSet
      <4> QED BY <3>1, <4>7
    <3>3. CASE ~Has(list, el.name)
      <4>1. Placed(list, PutLast(list, el.name, e), 1, r0)
        BY <1>1, <1>2, <1>3, <3>3, LastIs
      <4>2. r0.parts = IF kind = "style" THEN Append(Nothing, n + 1) ELSE Nothing
        BY <1>3, <2>2
      <4>3. r0.by = n + 1 /\ r0.name = el.name
        BY <1>3
      <4>4. Files(D2, X2, Y2, kind, PutLast(list, el.name, e))
        BY <2>0, <3>3, <4>1, <4>2, <4>3, FilesNew
      <4> QED BY <3>1, <4>4
    <3> QED BY <3>2, <3>3
  <2>3. CASE kind = "style"
    <3>1. Put(kind, list, el.name, e) = PutMerged(list, el.name, e)
      BY <2>3 DEF Put
    <3>2. CASE Has(list, el.name)
      <4>1. PICK x \in RecordSet : x = list[At(list, el.name)] /\ x.name = el.name
        BY <1>2, <3>2, AtIs
      <4>2. LET y == [x EXCEPT !.parts = Append(@, e)]
            IN  y \in RecordSet /\ y.name = x.name /\ y.by = x.by /\ y.parts = Append(x.parts, e)
        BY <1>1, RecordIs
      <4>3. PICK y \in RecordSet : y = [x EXCEPT !.parts = Append(@, e)] /\ y.name = x.name /\ y.by = x.by
                                   /\ y.parts = Append(x.parts, e)
        BY <4>2
      <4>4. Replaced(list, PutMerged(list, el.name, e), At(list, el.name), y)
        BY <1>1, <1>2, <3>2, <4>1, <4>3, MergedIs
      <4>5. /\ y.name = el.name /\ y.by = list[At(list, el.name)].by
            /\ y.parts = Append(list[At(list, el.name)].parts, n + 1)
        BY <4>1, <4>3
      <4>7. Files(D2, X2, Y2, kind, PutMerged(list, el.name, e))
        <5>1. Grown(D, D2, n, el, X, X2, Y, Y2) /\ OfKind(el, "style") /\ Files(D, X, Y, "style", list)
          BY <2>0, <2>3
        <5>2. ASSUME NEW new, NEW r, Replaced(list, new, At(list, el.name), r),
                     r.name = el.name, r.by = list[At(list, el.name)].by,
                     r.parts = Append(list[At(list, el.name)].parts, n + 1)
              PROVE  Files(D2, X2, Y2, "style", new)
          BY <3>2, <5>1, <5>2, FilesMerged
        <5> QED BY <2>3, <4>4, <4>5, <5>2
      <4> QED BY <3>1, <4>7
    <3>3. CASE ~Has(list, el.name)
      <4>0. Styled(list, PutMerged(list, el.name, e), el.name, e)
        BY <1>1, <1>2, <3>3, MergedNew
      <4>1. PICK r \in RecordSet : /\ Placed(list, PutMerged(list, el.name, e), Len(list) + 1, r)
                                   /\ r.name = el.name /\ r.by = e /\ r.parts = Append(Nothing, e)
        BY <4>0 DEF Styled
      <4>2. r.parts = IF kind = "style" THEN Append(Nothing, n + 1) ELSE Nothing
        BY <2>3, <4>1
      <4>3. r.by = n + 1 /\ r.name = el.name
        BY <4>1
      <4>4. Files(D2, X2, Y2, kind, PutMerged(list, el.name, e))
        BY <2>0, <3>3, <4>1, <4>2, <4>3, FilesNew
      <4> QED BY <3>1, <4>4
    <3> QED BY <3>2, <3>3
  <2> QED BY <1>5, <2>1, <2>2, <2>3 DEF Kinds
<1> QED BY <1>4, <1>5

\* lv_xml_set_const().
LEMMA FiledSet ==
  ASSUME NEW D, NEW D2, NEW n, NEW el, NEW X, NEW X2, NEW Y, NEW Y2,
         Grown(D, D2, n, el, X, X2, Y, Y2), NEW kind, kind = "const", NEW list, Filed(D, X, Y, kind, list),
         OfKind(el, kind), el.name \in Names, el.tag = "set_const", NEW e, e = n + 1
  PROVE  Filed(D2, X2, Y2, kind, PutLast(list, el.name, e))
<1>1. e \in Nat
  BY DEF Grown, Extends
<1>2. list \in Seq(RecordSet) /\ Files(D, X, Y, kind, list)
  BY DEF Filed, Files
<1>0. kind \in Kinds
  BY DEF Kinds
<1> SUFFICES Files(D2, X2, Y2, kind, PutLast(list, el.name, e))
  BY DEF Filed
<1>3. CASE Has(list, el.name)
  <2>1. PICK x \in RecordSet : x = list[At(list, el.name)] /\ x.name = el.name
    BY <1>2, <1>3, AtIs
  <2>2. LET y == [x EXCEPT !.by = e]
        IN  y \in RecordSet /\ y.name = x.name /\ y.by = e /\ y.parts = x.parts
    BY <1>1, RecordIs
  <2>3. PICK y \in RecordSet : y = [x EXCEPT !.by = e] /\ y.name = x.name /\ y.by = e /\ y.parts = x.parts
    BY <2>2
  <2>4. Replaced(list, PutLast(list, el.name, e), At(list, el.name), y)
    BY <1>1, <1>2, <1>3, <2>1, <2>3, LastIs
  <2>5. y.name = el.name /\ y.by = n + 1 /\ y.parts = list[At(list, el.name)].parts
    BY <2>1, <2>3
  <2>6. kind \in {"subject", "event", "const"}
    OBVIOUS
  <2> QED BY <1>2, <1>3, <2>4, <2>5, <2>6, FilesSet
<1>4. CASE ~Has(list, el.name)
  <2>0. PICK r0 \in RecordSet : r0 = Record(el.name, e) /\ r0.name = el.name /\ r0.by = e /\ r0.parts = Nothing
    BY <1>1, RecordIs
  <2>1. Placed(list, PutLast(list, el.name, e), 1, r0)
    BY <1>1, <1>2, <1>4, <2>0, LastIs
  <2>2. r0.parts = IF kind = "style" THEN Append(Nothing, n + 1) ELSE Nothing
    BY <2>0
  <2>3. r0.by = n + 1 /\ r0.name = el.name
    BY <2>0
  <2> QED BY <1>0, <1>2, <1>4, <2>1, <2>2, <2>3, FilesNew
<1> QED BY <1>3, <1>4

-----------------------------------------------------------------------------
(* What the documents and calls that a scope has been given declare.       *)

\* The elements of the documents and calls that a scope was given, and those that its
\* lookups see: its own and the globals'.
GivenIn(D, from) == {e \in 1 .. Len(D) : D[e].root \in from}
SeenIn(D, from, globals) == GivenIn(D, from) \cup GivenIn(D, globals)

\* The lists of a scope are what its documents declare.
ListFiled(D, s, globals, kind) ==
  Filed(D, GivenIn(D, s.from), SeenIn(D, s.from, globals), kind, s.lists[kind])
ScopeFiled(D, s, globals) == \A kind \in Kinds : ListFiled(D, s, globals, kind)

\* What an instance plays is what its documents have.
LinePlays(D, X, Y, found, line) ==
  line.plays = Ordered(PartsIn(D, X, Y, "timeline", line.name, ValuedIn(D, X, "timeline", line.name))
                         \cap found, Len(D))
\* ... one timeline for every name.
LinesPlay(D, X, Y, found, lines) ==
  /\ {lines[i].name : i \in 1 .. Len(lines)} = {D[e].name : e \in DeclaredIn(D, X, "timeline")}
  /\ \A i \in 1 .. Len(lines) : LinePlays(D, X, Y, found, lines[i])
InstPlays(D, i, globals) == LinesPlay(D, GivenIn(D, i.from), SeenIn(D, i.from, globals), i.found, i.lines)

\* Elements up to here are of documents that have been parsed, and of calls.
Parsed == IF into = "none" THEN Len(doc) ELSE open[1] - 1

\* A scope has been given documents that have been parsed; the one under way
\* goes to the scope under way.
FromSound ==
  /\ \A r \in Roots : scopes[r].from \subseteq 1 .. Parsed
  /\ inst.from \subseteq 1 .. Parsed
  /\ into = "component" => work.from = {open[1]}
  /\ into = "globals" => work.from = scopes["globals"].from \cup {open[1]}

\* The gradient that is open is the last one; the timeline that is open is the
\* one of the context.
GradientHome(D, o, list) ==
  \A i \in 1 .. Len(o) : D[o[i]].tag = "grad" => Len(list) > 0 /\ list[Len(list)].by = o[i]
TimelineHome(D, o, list, ctx) ==
  \A i \in 1 .. Len(o) : D[o[i]].tag = "timeline" =>
    /\ ctx.of = "own" /\ ctx # NoContext /\ Has(list, ctx.name) /\ list[At(list, ctx.name)].by = o[i]

\* Every list of every scope, the one under way included, is what its documents declare,
\* and the last instance plays what its component declared.
AllFiled ==
  /\ into # "none" => ScopeFiled(doc, work, scopes["globals"].from)
  /\ \A r \in Roots : ScopeFiled(doc, scopes[r], scopes["globals"].from)
  /\ GradientHome(doc, open, work.lists["grad"])
  /\ TimelineHome(doc, open, work.lists["timeline"], context)
  /\ InstPlays(doc, inst, scopes["globals"].from)

\* The part of the inductive invariant that needs memory for the records, and timelines that
\* are declared once and have a name.
MetadataFiled ==
  /\ FromSound
  /\ lost = {} /\ "latch" \notin Mishaps => AllFiled

\* A document, and the same one later.
Later(D, D2) ==
  /\ DocSound(D) /\ DocSound(D2) /\ Len(D) \in Nat /\ Len(D2) \in Nat /\ Len(D) <= Len(D2)
  /\ \A e \in 1 .. Len(D) : D2[e] = D[e]
\* What is known stays known, of the elements X and all that they contain.
KnownSame(D, D2, X, Y, Y2) == \A d \in X : Known(D2, Y2, d) <=> Known(D, Y, d)
Rests(D, D2, X, Y, Y2) == Later(D, D2) /\ X \subseteq 1 .. Len(D) /\ KnownSame(D, D2, X, Y, Y2)

LEMMA RestsSame ==
  ASSUME NEW D, NEW D2, NEW X, NEW Y, NEW Y2, Rests(D, D2, X, Y, Y2), NEW kind, NEW m, NEW e
  PROVE  /\ DeclaredIn(D2, X, kind) = DeclaredIn(D, X, kind)
         /\ NamedIn(D2, X, kind, m) = NamedIn(D, X, kind, m)
         /\ ValuedIn(D2, X, kind, m) = ValuedIn(D, X, kind, m)
         /\ PartsIn(D2, X, Y2, kind, m, e) = PartsIn(D, X, Y, kind, m, e)
         /\ DeclaredIn(D, X, kind) \subseteq X /\ PartsIn(D, X, Y, kind, m, e) \subseteq X
<1>1. \A d \in X : D2[d] = D[d]
  BY DEF Rests, Later
<1>2. DeclaredIn(D2, X, kind) = DeclaredIn(D, X, kind) /\ DeclaredIn(D2, X, "style") = DeclaredIn(D, X, "style")
  BY <1>1 DEF DeclaredIn
<1>3. /\ NamedIn(D2, X, kind, m) = NamedIn(D, X, kind, m)
      /\ NamedIn(D2, X, "style", m) = NamedIn(D, X, "style", m)
  <2>1. DeclaredIn(D, X, kind) \subseteq X /\ DeclaredIn(D, X, "style") \subseteq X
    BY DEF DeclaredIn
  <2> QED BY <1>1, <1>2, <2>1 DEF NamedIn
<1>4. ValuedIn(D2, X, kind, m) = ValuedIn(D, X, kind, m)
  BY <1>1, <1>3, ValuedSame
<1>5. PartsIn(D2, X, Y2, kind, m, e) = PartsIn(D, X, Y, kind, m, e)
  <2>1. \A d \in X : Known(D2, Y2, d) <=> Known(D, Y, d)
    BY DEF Rests, KnownSame
  <2>2. CASE kind = "style"
    BY <1>3, <2>2 DEF PartsIn
  <2>3. CASE kind = "grad"
    BY <1>1, <2>3 DEF PartsIn
  <2>4. CASE kind = "timeline"
    BY <1>1, <2>1, <2>4 DEF PartsIn
  <2>5. CASE kind \notin {"style", "grad", "timeline"}
    BY <2>5 DEF PartsIn
  <2> QED BY <2>2, <2>3, <2>4, <2>5
<1>6. DeclaredIn(D, X, kind) \subseteq X
  BY DEF DeclaredIn
<1>7. PartsIn(D, X, Y, kind, m, e) \subseteq X
  BY DEF PartsIn, NamedIn, DeclaredIn
<1> QED BY <1>2, <1>3, <1>4, <1>5, <1>6, <1>7

LEMMA RestsOrdered ==
  ASSUME NEW D, NEW D2, NEW X, NEW Y, NEW Y2, Rests(D, D2, X, Y, Y2), NEW S, S \subseteq X
  PROVE  Ordered(S, Len(D2)) = Ordered(S, Len(D))
<1>1. Len(D) \in Nat /\ Len(D2) \in Nat /\ Len(D) <= Len(D2) /\ S \subseteq 1 .. Len(D)
  BY DEF Rests, Later
<1> QED BY <1>1, OrderedStays

LEMMA RestsFiled ==
  ASSUME NEW D, NEW D2, NEW X, NEW Y, NEW Y2, Rests(D, D2, X, Y, Y2), NEW kind, NEW list,
         Filed(D, X, Y, kind, list)
  PROVE  Filed(D2, X, Y2, kind, list)
<1>1. \A m : NamedIn(D2, X, kind, m) = NamedIn(D, X, kind, m) /\ ValuedIn(D2, X, kind, m) = ValuedIn(D, X, kind, m)
  BY RestsSame
<1>2. \A m, e : Ordered(PartsIn(D2, X, Y2, kind, m, e), Len(D2)) = Ordered(PartsIn(D, X, Y, kind, m, e), Len(D))
  <2> TAKE m, e
  <2>1. PartsIn(D2, X, Y2, kind, m, e) = PartsIn(D, X, Y, kind, m, e) /\ PartsIn(D, X, Y, kind, m, e) \subseteq X
    BY RestsSame
  <2> QED BY <2>1, RestsOrdered
<1>3. Ordered(DeclaredIn(D2, X, kind), Len(D2)) = Ordered(DeclaredIn(D, X, kind), Len(D))
  <2>1. DeclaredIn(D2, X, kind) = DeclaredIn(D, X, kind) /\ DeclaredIn(D, X, kind) \subseteq X
    BY RestsSame
  <2> QED BY <2>1, RestsOrdered
<1>4. CASE kind \in {"prop", "grad"}
  <2>1. Rows(D, X, Y, kind, list)
    BY <1>4 DEF Filed
  <2>2. Rows(D2, X, Y2, kind, list)
    BY <1>2, <1>3, <2>1 DEF Rows
  <2> QED BY <1>4, <2>2 DEF Filed
<1>5. CASE kind \notin {"prop", "grad"}
  <2>1. Files(D, X, Y, kind, list)
    BY <1>5 DEF Filed
  <2>2. \A i \in 1 .. Len(list) : RecordSound(D2, X, Y2, kind, list[i])
    BY <1>1, <1>2, <2>1 DEF Files, RecordSound
  <2>3. \A m \in Names : NamedIn(D2, X, kind, m) # {} <=> NamedIn(D, X, kind, m) # {}
    BY <1>1
  <2>4. Files(D2, X, Y2, kind, list)
    BY <2>1, <2>2, <2>3, FilesSame
  <2> QED BY <1>5, <2>4 DEF Filed
<1> QED BY <1>4, <1>5

LEMMA RestsPlay ==
  ASSUME NEW D, NEW D2, NEW X, NEW Y, NEW Y2, Rests(D, D2, X, Y, Y2), NEW found, NEW lines,
         LinesPlay(D, X, Y, found, lines)
  PROVE  LinesPlay(D2, X, Y2, found, lines)
<1>1. \A m : ValuedIn(D2, X, "timeline", m) = ValuedIn(D, X, "timeline", m)
  BY RestsSame
<1>2. \A m, e : Ordered(PartsIn(D2, X, Y2, "timeline", m, e) \cap found, Len(D2))
                  = Ordered(PartsIn(D, X, Y, "timeline", m, e) \cap found, Len(D))
  <2> TAKE m, e
  <2>1. PartsIn(D2, X, Y2, "timeline", m, e) = PartsIn(D, X, Y, "timeline", m, e)
    BY RestsSame
  <2> DEFINE S == PartsIn(D, X, Y, "timeline", m, e) \cap found
  <2>2. S \subseteq X
    <3>1. PartsIn(D, X, Y, "timeline", m, e) \subseteq X
      BY RestsSame
    <3> QED BY <3>1
  <2> HIDE DEF S
  <2>3. Ordered(S, Len(D2)) = Ordered(S, Len(D))
    BY <2>2, RestsOrdered
  <2> QED BY <2>1, <2>3 DEF S
<1>3. {D2[e].name : e \in DeclaredIn(D2, X, "timeline")} = {D[e].name : e \in DeclaredIn(D, X, "timeline")}
  <2>1. DeclaredIn(D2, X, "timeline") = DeclaredIn(D, X, "timeline") /\ DeclaredIn(D, X, "timeline") \subseteq X
    BY RestsSame
  <2>2. \A d \in X : D2[d] = D[d]
    BY DEF Rests, Later
  <2>3. \A d \in DeclaredIn(D, X, "timeline") : D2[d].name = D[d].name
    BY <2>1, <2>2
  <2> QED BY <2>1, <2>3, Zenon
<1>4. ASSUME NEW i \in 1 .. Len(lines) PROVE LinePlays(D2, X, Y2, found, lines[i])
  <2> DEFINE m == lines[i].name
             e == ValuedIn(D, X, "timeline", m)
  <2>1. lines[i].plays = Ordered(PartsIn(D, X, Y, "timeline", m, e) \cap found, Len(D))
    BY DEF LinesPlay, LinePlays
  <2>2. ValuedIn(D2, X, "timeline", m) = e
    BY <1>1
  <2> HIDE DEF e
  <2>3. lines[i].plays = Ordered(PartsIn(D2, X, Y2, "timeline", m, e) \cap found, Len(D2))
    BY <1>2, <2>1
  <2> QED BY <2>2, <2>3 DEF LinePlays
<1> QED BY <1>3, <1>4 DEF LinesPlay

-----------------------------------------------------------------------------
(* Documents that have been parsed stay as they are.                       *)

\* Behind the element k, all elements are of documents that began behind it.
Cut(D, k) == k \in Nat /\ \A e \in 1 .. Len(D) : D[e].root \in 1 .. k => e <= k

LEMMA GivenRests ==
  ASSUME NEW D, NEW D2, Later(D, D2), NEW k, Cut(D2, k), k <= Len(D), NEW from, from \subseteq 1 .. k
  PROVE  /\ GivenIn(D2, from) = GivenIn(D, from) /\ GivenIn(D, from) \subseteq 1 .. k
         /\ GivenIn(D, from) \subseteq 1 .. Len(D)
<1>1. k \in Nat /\ Len(D) \in Nat /\ Len(D2) \in Nat /\ Len(D) <= Len(D2) /\ k <= Len(D)
  BY DEF Later, Cut
<1>2. \A e \in 1 .. Len(D) : e \in 1 .. Len(D2) /\ D2[e] = D[e]
  BY <1>1 DEF Later
<1>3. \A e \in 1 .. Len(D2) : D2[e].root \in from => e \in 1 .. k
  <2> SUFFICES ASSUME NEW e \in 1 .. Len(D2), D2[e].root \in from PROVE e \in 1 .. k
    OBVIOUS
  <2>1. D2[e].root \in 1 .. k
    OBVIOUS
  <2>2. e <= k
    BY <2>1 DEF Cut
  <2>3. e \in Nat /\ e >= 1
    BY <1>1
  <2> QED BY <1>1, <2>2, <2>3
<1>4. \A e \in 1 .. Len(D) : D[e].root \in from => e \in 1 .. k
  BY <1>2, <1>3
<1>5. GivenIn(D, from) \subseteq 1 .. k /\ GivenIn(D2, from) \subseteq 1 .. k /\ 1 .. k \subseteq 1 .. Len(D)
  BY <1>1, <1>3, <1>4 DEF GivenIn
<1>6. ASSUME NEW e \in 1 .. Len(D) PROVE e \in GivenIn(D2, from) <=> e \in GivenIn(D, from)
  BY <1>2 DEF GivenIn
<1> QED BY <1>5, <1>6

\* A scope more that lookups can see, behind the element k, does not matter.
LEMMA SeenRests ==
  ASSUME NEW D, NEW D2, Later(D, D2), NEW k, Cut(D2, k), k <= Len(D), NEW from, from \subseteq 1 .. k,
         NEW g, NEW g2, g \subseteq 1 .. k, g \subseteq g2, \A r \in g2 \ g : r \in Nat /\ r > k
  PROVE  Rests(D, D2, GivenIn(D, from), SeenIn(D, from, g), SeenIn(D2, from, g2))
<1> DEFINE X == GivenIn(D, from)
           Y == SeenIn(D, from, g)
           Y2 == SeenIn(D2, from, g2)
<1>1. GivenIn(D2, from) = X /\ X \subseteq 1 .. k /\ X \subseteq 1 .. Len(D)
  BY GivenRests
<1>2. GivenIn(D2, g) = GivenIn(D, g) /\ GivenIn(D, g) \subseteq 1 .. k /\ GivenIn(D, g) \subseteq 1 .. Len(D)
  BY GivenRests
<1>3. ASSUME NEW c \in GivenIn(D2, g2), c \notin GivenIn(D2, g) PROVE c > k
  <2>1. c \in 1 .. Len(D2) /\ D2[c].root \in g2 \ g
    BY <1>3 DEF GivenIn
  <2>2. D2[c].root \in 1 .. c /\ k \in Nat
    BY <2>1 DEF Later, DocSound, Cut
  <2> QED BY <2>1, <2>2
<1>4. Y \subseteq Y2 /\ (\A c \in Y2 \ Y : c > k) /\ Y \subseteq 1 .. Len(D) /\ Y2 \subseteq Int
  <2>1. GivenIn(D2, g) \subseteq GivenIn(D2, g2)
    BY DEF GivenIn
  <2>2. Y = X \cup GivenIn(D, g) /\ Y2 = X \cup GivenIn(D2, g2)
    BY <1>1 DEF SeenIn
  <2>3. \A c \in X : c \in Int
    BY <1>1 DEF Cut
  <2>4. \A c \in GivenIn(D2, g2) : c \in Int
    BY DEF GivenIn
  <2> HIDE DEF X, Y, Y2
  <2> QED BY <1>1, <1>2, <1>3, <2>1, <2>2, <2>3, <2>4
<1>5. (\A e \in 1 .. Len(D) : D2[e] = D[e]) /\ k \in Nat
  BY DEF Later, Cut
<1> HIDE DEF X, Y, Y2
<1>6. ASSUME NEW d \in X PROVE Known(D2, Y2, d) <=> Known(D, Y, d)
  <2>1. D2[d] = D[d] /\ d \in 1 .. k
    BY <1>1, <1>5
  <2>2. ASSUME NEW c \in Y2, c < d PROVE c \in Y
    <3>1. c \in Int /\ d \in Int /\ d <= k
      BY <1>4, <1>5, <2>1
    <3> QED BY <1>4, <1>5, <2>2, <3>1
  <2>3. \A c \in Y : c \in Y2 /\ D2[c] = D[c]
    BY <1>4, <1>5
  <2> QED BY <2>1, <2>2, <2>3 DEF Known
<1>7. KnownSame(D, D2, X, Y, Y2)
  BY <1>6 DEF KnownSame
<1> QED BY <1>1, <1>7 DEF Rests, X, Y, Y2

LEMMA ScopeRests ==
  ASSUME NEW D, NEW D2, Later(D, D2), NEW k, Cut(D2, k), k <= Len(D), NEW s, s.from \subseteq 1 .. k,
         NEW g, NEW g2, g \subseteq 1 .. k, g \subseteq g2, \A r \in g2 \ g : r \in Nat /\ r > k,
         ScopeFiled(D, s, g)
  PROVE  ScopeFiled(D2, s, g2)
<1>1. Rests(D, D2, GivenIn(D, s.from), SeenIn(D, s.from, g), SeenIn(D2, s.from, g2))
  BY SeenRests
<1>2. GivenIn(D2, s.from) = GivenIn(D, s.from)
  BY GivenRests
<1> SUFFICES ASSUME NEW kind \in Kinds PROVE ListFiled(D2, s, g2, kind)
  BY DEF ScopeFiled
<1>3. Filed(D, GivenIn(D, s.from), SeenIn(D, s.from, g), kind, s.lists[kind])
  BY DEF ScopeFiled, ListFiled
<1>4. Filed(D2, GivenIn(D, s.from), SeenIn(D2, s.from, g2), kind, s.lists[kind])
  BY <1>1, <1>3, RestsFiled
<1> QED BY <1>2, <1>4 DEF ListFiled

LEMMA InstRests ==
  ASSUME NEW D, NEW D2, Later(D, D2), NEW k, Cut(D2, k), k <= Len(D), NEW i, i.from \subseteq 1 .. k,
         NEW g, NEW g2, g \subseteq 1 .. k, g \subseteq g2, \A r \in g2 \ g : r \in Nat /\ r > k,
         InstPlays(D, i, g)
  PROVE  InstPlays(D2, i, g2)
<1>1. Rests(D, D2, GivenIn(D, i.from), SeenIn(D, i.from, g), SeenIn(D2, i.from, g2))
  BY SeenRests
<1>2. GivenIn(D2, i.from) = GivenIn(D, i.from)
  BY GivenRests
<1>3. LinesPlay(D, GivenIn(D, i.from), SeenIn(D, i.from, g), i.found, i.lines)
  BY DEF InstPlays
<1>4. LinesPlay(D2, GivenIn(D, i.from), SeenIn(D2, i.from, g2), i.found, i.lines)
  BY <1>1, <1>3, RestsPlay
<1> QED BY <1>2, <1>4 DEF InstPlays

-----------------------------------------------------------------------------
(* The lists that collect parts.                                           *)

LEMMA FiledStop ==
  ASSUME NEW D, NEW D2, NEW n, NEW el, NEW X, NEW X2, NEW Y, NEW Y2,
         Grown(D, D2, n, el, X, X2, Y, Y2), NEW kind, kind = "grad", NEW list, Filed(D, X, Y, kind, list),
         el.tag = "stop", NEW at, at = Len(list), list[at].by = el.up,
         NEW new, NEW r, Replaced(list, new, at, r),
         r.name = list[at].name, r.by = list[at].by, r.parts = Stopped(list[at].parts, n + 1)
  PROVE  Filed(D2, X2, Y2, kind, new)
<1>1. Rows(D, X, Y, kind, list)
  BY DEF Filed
<1>2. Rows(D2, X2, Y2, kind, new)
  BY <1>1, RowsStop
<1> QED BY <1>2 DEF Filed

LEMMA FiledAnimated ==
  ASSUME NEW D, NEW D2, NEW n, NEW el, NEW X, NEW X2, NEW Y, NEW Y2,
         Grown(D, D2, n, el, X, X2, Y, Y2), NEW kind, kind = "timeline", NEW list, Filed(D, X, Y, kind, list),
         el.tag \in {"animation", "include_timeline"}, el.ok, Known(D2, Y2, n + 1),
         NEW name, Has(list, name), list[At(list, name)].by = el.up, NEW e, e = n + 1
  PROVE  Filed(D2, X2, Y2, kind, PutPart(list, name, e))
<1>1. Files(D, X, Y, kind, list) /\ list \in Seq(RecordSet) /\ e \in Nat
  BY DEF Filed, Files, Grown, Extends
<1>2. PICK x \in RecordSet : x = list[At(list, name)] /\ x.name = name
  BY <1>1, AtIs
<1>3. LET y == [x EXCEPT !.parts = Append(@, e)]
      IN  y \in RecordSet /\ y.name = x.name /\ y.by = x.by /\ y.parts = Append(x.parts, e)
  BY <1>1, RecordIs
<1>4. PICK y \in RecordSet : y = [x EXCEPT !.parts = Append(@, e)] /\ y.name = x.name /\ y.by = x.by
                             /\ y.parts = Append(x.parts, e)
  BY <1>3
<1>5. Replaced(list, PutPart(list, name, e), At(list, name), y)
  BY <1>1, <1>2, <1>4, PartIs
<1>6. y.name = name /\ y.by = el.up /\ y.parts = Append(list[At(list, name)].parts, n + 1)
  BY <1>2, <1>4
<1>7. Files(D2, X2, Y2, kind, PutPart(list, name, e))
  BY <1>1, <1>5, <1>6, FilesAnimated
<1> QED BY <1>7 DEF Filed

-----------------------------------------------------------------------------
(* A scope that is given an element more.                                  *)

\* All the lists of a scope.
Lists(D, X, Y, lists) == \A kind \in Kinds : Filed(D, X, Y, kind, lists[kind])

LEMMA ScopeLists ==
  ASSUME NEW D, NEW s, NEW g
  PROVE  ScopeFiled(D, s, g) <=> Lists(D, GivenIn(D, s.from), SeenIn(D, s.from, g), s.lists)
BY DEF ScopeFiled, ListFiled, Lists

\* A scope that has been given nothing.
LEMMA ListsEmpty ==
  ASSUME NEW D, DocSound(D), NEW Y, NEW lists, \A kind \in Kinds : lists[kind] = Nothing
  PROVE  Lists(D, {}, Y, lists)
<1> SUFFICES ASSUME NEW kind \in Kinds PROVE Filed(D, {}, Y, kind, lists[kind])
  BY DEF Lists
<1>1. lists[kind] = Nothing
  OBVIOUS
<1>2. Nothing \in Seq(RecordSet) /\ Len(Nothing) = 0 /\ Len(D) \in Nat
  BY DEF Nothing, DocSound
<1>3. PICK l \in Seq(RecordSet) : l = lists[kind] /\ Len(l) = 0
  BY <1>1, <1>2
<1>4. DeclaredIn(D, {}, kind) = {} /\ \A m : NamedIn(D, {}, kind, m) = {}
  BY DEF DeclaredIn, NamedIn
<1>5. Ordered({}, Len(D)) = Nothing
  BY <1>2, OrderedEmpty
<1>6. CASE kind \in {"prop", "grad"}
  <2>1. Len(l) = Len(Ordered(DeclaredIn(D, {}, kind), Len(D)))
    BY <1>2, <1>3, <1>4, <1>5
  <2>2. Rows(D, {}, Y, kind, l)
    BY <1>3, <2>1 DEF Rows
  <2> QED BY <1>3, <1>6, <2>2 DEF Filed
<1>7. CASE kind \notin {"prop", "grad"}
  <2>1. \A m : ~Has(l, m)
    BY <1>3 DEF Has
  <2>2. Files(D, {}, Y, kind, l)
    BY <1>3, <1>4, <2>1 DEF Files
  <2> QED BY <1>3, <1>7, <2>2 DEF Filed
<1> QED BY <1>6, <1>7

LEMMA GivenGrows ==
  ASSUME NEW D, NEW D2, NEW n, NEW el, Extends(D, D2, n, el), NEW from
  PROVE  /\ GivenIn(D, from) \subseteq 1 .. n
         /\ el.root \in from => GivenIn(D2, from) = GivenIn(D, from) \cup {n + 1}
         /\ el.root \notin from => GivenIn(D2, from) = GivenIn(D, from)
<1>1. n \in Nat /\ Len(D) = n /\ Len(D2) = n + 1 /\ D2[n + 1] = el /\ \A e \in 1 .. n : D2[e] = D[e]
  BY DEF Extends
<1>2. 1 .. n + 1 = (1 .. n) \cup {n + 1}
  BY <1>1
<1>3. \A e \in 1 .. n : e \in GivenIn(D2, from) <=> e \in GivenIn(D, from)
  BY <1>1, <1>2 DEF GivenIn
<1>4. n + 1 \in GivenIn(D2, from) <=> el.root \in from
  BY <1>1, <1>2 DEF GivenIn
<1>5. GivenIn(D, from) \subseteq 1 .. n /\ GivenIn(D2, from) \subseteq (1 .. n) \cup {n + 1}
  BY <1>1, <1>2 DEF GivenIn
<1> QED BY <1>3, <1>4, <1>5

\* The document or the call that the element itself begins.
LEMMA GivenBegins ==
  ASSUME NEW D, NEW D2, NEW n, NEW el, Extends(D, D2, n, el), el.root = n + 1, NEW from
  PROVE  GivenIn(D2, from \cup {n + 1}) = GivenIn(D, from) \cup {n + 1}
<1>1. n \in Nat /\ Len(D) = n /\ DocSound(D)
  BY DEF Extends
<1>2. GivenIn(D, from \cup {n + 1}) = GivenIn(D, from)
  <2>1. ASSUME NEW e \in 1 .. n PROVE D[e].root # n + 1
    BY <1>1, <2>1 DEF DocSound
  <2> QED BY <1>1, <2>1 DEF GivenIn
<1> QED BY <1>2, GivenGrows

LEMMA GrownIs ==
  ASSUME NEW D, NEW D2, NEW n, NEW el, Extends(D, D2, n, el), NEW X, X \subseteq 1 .. n,
         NEW X2, X2 = X \cup {n + 1}, NEW Y, Y \subseteq 1 .. n, NEW Y2, Y \subseteq Y2, Y2 \subseteq Y \cup {n + 1}
  PROVE  Grown(D, D2, n, el, X, X2, Y, Y2)
<1>1. n \in Nat /\ \A e \in 1 .. n : D2[e] = D[e]
  BY DEF Extends
<1>2. ASSUME NEW d \in X PROVE Known(D2, Y2, d) <=> Known(D, Y, d)
  <2>1. D2[d] = D[d] /\ d \in 1 .. n
    BY <1>1
  <2>2. \A c \in Y2 : c < d => c \in Y
    BY <1>1, <2>1
  <2>3. \A c \in Y : c \in Y2 /\ D2[c] = D[c]
    BY <1>1
  <2> QED BY <2>1, <2>2, <2>3 DEF Known
<1> QED BY <1>2 DEF Grown

\* An element of the document of the scope.
LEMMA GrownWithin ==
  ASSUME NEW D, NEW D2, NEW n, NEW el, Extends(D, D2, n, el), NEW from, el.root \in from, NEW g
  PROVE  Grown(D, D2, n, el, GivenIn(D, from), GivenIn(D2, from), SeenIn(D, from, g), SeenIn(D2, from, g))
<1>1. GivenIn(D, from) \subseteq 1 .. n /\ GivenIn(D2, from) = GivenIn(D, from) \cup {n + 1}
  BY GivenGrows
<1>2. GivenIn(D, g) \subseteq 1 .. n /\ GivenIn(D2, g) \in {GivenIn(D, g), GivenIn(D, g) \cup {n + 1}}
  BY GivenGrows
<1>3. /\ SeenIn(D, from, g) \subseteq 1 .. n /\ SeenIn(D, from, g) \subseteq SeenIn(D2, from, g)
      /\ SeenIn(D2, from, g) \subseteq SeenIn(D, from, g) \cup {n + 1}
  BY <1>1, <1>2 DEF SeenIn
<1> QED BY <1>1, <1>3, GrownIs

\* An element that begins a document, or a call.
LEMMA GrownBegins ==
  ASSUME NEW D, NEW D2, NEW n, NEW el, Extends(D, D2, n, el), el.root = n + 1, NEW from, NEW from2,
         from2 = from \cup {n + 1}, NEW g, NEW g2, g \subseteq 1 .. n, g2 \in {g, g \cup {n + 1}}
  PROVE  Grown(D, D2, n, el, GivenIn(D, from), GivenIn(D2, from2), SeenIn(D, from, g), SeenIn(D2, from2, g2))
<1>0. n \in Nat
  BY DEF Extends
<1>1. GivenIn(D, from) \subseteq 1 .. n /\ GivenIn(D2, from2) = GivenIn(D, from) \cup {n + 1}
  BY GivenGrows, GivenBegins
<1>2. GivenIn(D, g) \subseteq 1 .. n /\ GivenIn(D2, g2) \in {GivenIn(D, g), GivenIn(D, g) \cup {n + 1}}
  <2>1. CASE g2 = g
    BY <2>1, GivenGrows
  <2>2. CASE g2 = g \cup {n + 1}
    BY <2>2, GivenGrows, GivenBegins
  <2> QED BY <2>1, <2>2
<1>3. /\ SeenIn(D, from, g) \subseteq 1 .. n /\ SeenIn(D, from, g) \subseteq SeenIn(D2, from2, g2)
      /\ SeenIn(D2, from2, g2) \subseteq SeenIn(D, from, g) \cup {n + 1}
  BY <1>1, <1>2 DEF SeenIn
<1> QED BY <1>1, <1>3, GrownIs

-----------------------------------------------------------------------------
(* What the element does to the lists.                                     *)

\* The elements that belong to another one, which was declared before them.
StepTags == {"stop", "animation", "include_timeline"}

LEMMA ListsIdle ==
  ASSUME NEW D, NEW D2, NEW n, NEW el, NEW X, NEW X2, NEW Y, NEW Y2,
         Grown(D, D2, n, el, X, X2, Y, Y2), NEW lists, Lists(D, X, Y, lists),
         \A kind \in Kinds : NoPart(D2, Y2, n, el, kind)
  PROVE  Lists(D2, X2, Y2, lists)
<1> SUFFICES ASSUME NEW kind \in Kinds PROVE Filed(D2, X2, Y2, kind, lists[kind])
  BY DEF Lists
<1>1. Filed(D, X, Y, kind, lists[kind]) /\ NoPart(D2, Y2, n, el, kind)
  BY DEF Lists
<1> QED BY <1>1, FiledIdle

\* The list of a kind has changed, and the element does not matter to the others.
LEMMA ListsChanged ==
  ASSUME NEW D, NEW D2, NEW n, NEW el, NEW X, NEW X2, NEW Y, NEW Y2,
         Grown(D, D2, n, el, X, X2, Y, Y2), NEW s, NEW t, Lists(D, X, Y, s.lists),
         NEW kind \in Kinds, NEW list, Changed(s, t, kind, list), Filed(D2, X2, Y2, kind, list),
         \A k \in Kinds : k # kind => NoPart(D2, Y2, n, el, k)
  PROVE  Lists(D2, X2, Y2, t.lists)
<1> SUFFICES ASSUME NEW k \in Kinds PROVE Filed(D2, X2, Y2, k, t.lists[k])
  BY DEF Lists
<1>1. CASE k = kind
  <2>1. t.lists[k] = list
    BY <1>1 DEF Changed
  <2> QED BY <1>1, <2>1
<1>2. CASE k # kind
  <2>1. t.lists[k] = s.lists[k]
    BY <1>2 DEF Changed
  <2>2. Filed(D, X, Y, k, s.lists[k]) /\ NoPart(D2, Y2, n, el, k)
    BY <1>2 DEF Lists
  <2>3. Filed(D2, X2, Y2, k, s.lists[k])
    BY <2>2, FiledIdle
  <2> QED BY <2>1, <2>3
<1> QED BY <1>1, <1>2

\* A declaration does not matter to the lists of other kinds.
LEMMA DeclarationApart ==
  ASSUME NEW D2, NEW Y2, NEW n, NEW el, NEW kind \in Kinds, OfKind(el, kind), NEW k \in Kinds, k # kind
  PROVE  NoPart(D2, Y2, n, el, k)
<1>1. el.tag \in TagsOf(kind) /\ el.tag \notin TagsOf(k)
  BY KnownTags DEF OfKind
<1>2. el.tag \notin StepTags
  BY <1>1 DEF TagsOf, Kinds, StepTags
<1> QED BY <1>1, <1>2 DEF NoPart, OfKind, StepTags

LEMMA ListsPut ==
  ASSUME NEW D, NEW D2, NEW n, NEW el, NEW X, NEW X2, NEW Y, NEW Y2,
         Grown(D, D2, n, el, X, X2, Y, Y2), NEW s, NEW t, Lists(D, X, Y, s.lists),
         NEW kind \in Kinds, OfKind(el, kind), el.name \in Names, el.tag # "set_const",
         kind = "timeline" => ~Has(s.lists[kind], el.name), NEW e, e = n + 1,
         Changed(s, t, kind, Put(kind, s.lists[kind], el.name, e))
  PROVE  Lists(D2, X2, Y2, t.lists)
<1>1. Filed(D, X, Y, kind, s.lists[kind])
  BY DEF Lists
<1>2. Filed(D2, X2, Y2, kind, Put(kind, s.lists[kind], el.name, e))
  BY <1>1, FiledPut
<1>3. \A k \in Kinds : k # kind => NoPart(D2, Y2, n, el, k)
  BY DeclarationApart
<1> QED BY <1>2, <1>3, ListsChanged

LEMMA ListsSet ==
  ASSUME NEW D, NEW D2, NEW n, NEW el, NEW X, NEW X2, NEW Y, NEW Y2,
         Grown(D, D2, n, el, X, X2, Y, Y2), NEW s, NEW t, Lists(D, X, Y, s.lists),
         NEW kind, kind = "const", OfKind(el, kind), el.name \in Names, el.tag = "set_const",
         NEW e, e = n + 1, Changed(s, t, kind, PutLast(s.lists[kind], el.name, e))
  PROVE  Lists(D2, X2, Y2, t.lists)
<1>0. kind \in Kinds
  BY DEF Kinds
<1>1. Filed(D, X, Y, kind, s.lists[kind])
  BY <1>0 DEF Lists
<1>2. Filed(D2, X2, Y2, kind, PutLast(s.lists[kind], el.name, e))
  BY <1>1, FiledSet
<1>3. \A k \in Kinds : k # kind => NoPart(D2, Y2, n, el, k)
  BY <1>0, DeclarationApart
<1> QED BY <1>0, <1>2, <1>3, ListsChanged

\* An element that declares nothing, and belongs to none.
LEMMA IdleIs ==
  ASSUME NEW D2, NEW Y2, NEW n, NEW el, el.tag \notin StepTags,
         \/ el.tag \in Roots \cup Blocks \cup {"note", "view"} \/ ~el.ok
  PROVE  \A kind \in Kinds : NoPart(D2, Y2, n, el, kind)
<1>1. \A kind \in Kinds : ~OfKind(el, kind)
  BY DEF OfKind, TagsOf, Kinds, Roots, Blocks
<1> QED BY <1>1 DEF NoPart, StepTags

-----------------------------------------------------------------------------
(* The gradient and the timeline that are open.                            *)

\* An element more is read, and is open.
Pushed(D, D2, n, el, o, o2) ==
  /\ Extends(D, D2, n, el) /\ Len(o) \in Nat /\ Len(o2) = Len(o) + 1 /\ o2[Len(o) + 1] = n + 1
  /\ \A i \in 1 .. Len(o) : o2[i] = o[i] /\ o[i] \in 1 .. n

\* What the gradients of a list stem from, and what its timelines stem from.
SameLast(list, new) == Len(list) > 0 => Len(new) > 0 /\ new[Len(new)].by = list[Len(list)].by
SameBy(list, new) ==
  \A m : Has(list, m) => Has(new, m) /\ new[At(new, m)].by = list[At(list, m)].by
\* No element of a tag is open.
NotOpen(D, o, tag) == \A i \in 1 .. Len(o) : D[o[i]].tag # tag

LEMMA PushedIs ==
  ASSUME NEW D, NEW D2, NEW n, NEW el, NEW o, NEW o2, Pushed(D, D2, n, el, o, o2),
         NEW i \in 1 .. Len(o2)
  PROVE  \/ i \in 1 .. Len(o) /\ o2[i] = o[i] /\ D2[o2[i]] = D[o[i]]
         \/ i = Len(o) + 1 /\ o2[i] = n + 1 /\ D2[o2[i]] = el
BY DEF Pushed, Extends

LEMMA GradientStays ==
  ASSUME NEW D, NEW D2, NEW n, NEW el, NEW o, NEW o2, Pushed(D, D2, n, el, o, o2), el.tag # "grad",
         NEW list, NEW new, GradientHome(D, o, list), SameLast(list, new)
  PROVE  GradientHome(D2, o2, new)
<1> SUFFICES ASSUME NEW i \in 1 .. Len(o2), D2[o2[i]].tag = "grad"
             PROVE  Len(new) > 0 /\ new[Len(new)].by = o2[i]
  BY DEF GradientHome
<1>1. i \in 1 .. Len(o) /\ o2[i] = o[i] /\ D[o[i]].tag = "grad"
  BY PushedIs
<1> QED BY <1>1 DEF GradientHome, SameLast

LEMMA GradientNew ==
  ASSUME NEW D, NEW D2, NEW n, NEW el, NEW o, NEW o2, Pushed(D, D2, n, el, o, o2),
         NotOpen(D, o, "grad"), NEW new, Len(new) > 0, new[Len(new)].by = n + 1
  PROVE  GradientHome(D2, o2, new)
<1> SUFFICES ASSUME NEW i \in 1 .. Len(o2), D2[o2[i]].tag = "grad"
             PROVE  o2[i] = n + 1
  BY DEF GradientHome
<1> QED BY PushedIs DEF NotOpen

LEMMA TimelineStays ==
  ASSUME NEW D, NEW D2, NEW n, NEW el, NEW o, NEW o2, Pushed(D, D2, n, el, o, o2), el.tag # "timeline",
         NEW list, NEW new, NEW ctx, TimelineHome(D, o, list, ctx), SameBy(list, new)
  PROVE  TimelineHome(D2, o2, new, ctx)
<1> SUFFICES ASSUME NEW i \in 1 .. Len(o2), D2[o2[i]].tag = "timeline"
             PROVE  /\ ctx.of = "own" /\ ctx # NoContext /\ Has(new, ctx.name)
                    /\ new[At(new, ctx.name)].by = o2[i]
  BY DEF TimelineHome
<1>1. i \in 1 .. Len(o) /\ o2[i] = o[i] /\ D[o[i]].tag = "timeline"
  BY PushedIs
<1>2. ctx.of = "own" /\ ctx # NoContext /\ Has(list, ctx.name) /\ list[At(list, ctx.name)].by = o[i]
  BY <1>1 DEF TimelineHome
<1> QED BY <1>1, <1>2 DEF SameBy

LEMMA TimelineNew ==
  ASSUME NEW D, NEW D2, NEW n, NEW el, NEW o, NEW o2, Pushed(D, D2, n, el, o, o2),
         NotOpen(D, o, "timeline"), NEW new, NEW ctx, ctx.of = "own", ctx # NoContext,
         Has(new, ctx.name), new[At(new, ctx.name)].by = n + 1
  PROVE  TimelineHome(D2, o2, new, ctx)
<1> SUFFICES ASSUME NEW i \in 1 .. Len(o2), D2[o2[i]].tag = "timeline"
             PROVE  o2[i] = n + 1
  BY DEF TimelineHome
<1> QED BY PushedIs DEF NotOpen

\* The record of a name is the only one of it.
LEMMA OnlyAt ==
  ASSUME NEW list, Len(list) \in Nat, NEW m, NEW at \in 1 .. Len(list), list[at].name = m,
         \A i, j \in 1 .. Len(list) : list[i].name = list[j].name => i = j
  PROVE  Has(list, m) /\ At(list, m) = at
<1>1. Has(list, m)
  BY DEF Has
<1>2. At(list, m) \in 1 .. Len(list) /\ list[At(list, m)].name = m
  BY <1>1, AtIs
<1> QED BY <1>1, <1>2

LEMMA PartSameBy ==
  ASSUME NEW list \in Seq(RecordSet), NEW name, Has(list, name), NEW e \in Nat,
         \A i, j \in 1 .. Len(list) : list[i].name = list[j].name => i = j
  PROVE  SameBy(list, PutPart(list, name, e))
<1>1. PICK x \in RecordSet : x = list[At(list, name)] /\ x.name = name
  BY AtIs
<1>2. LET y == [x EXCEPT !.parts = Append(@, e)]
      IN  y \in RecordSet /\ y.name = x.name /\ y.by = x.by
  BY RecordIs
<1>3. PICK y \in RecordSet : y = [x EXCEPT !.parts = Append(@, e)] /\ y.name = x.name /\ y.by = x.by
  BY <1>2
<1> DEFINE at == At(list, name)
           new == PutPart(list, name, e)
<1>4. Replaced(list, new, at, y)
  BY <1>1, <1>3, PartIs
<1>5. at \in 1 .. Len(list) /\ x = list[at]
  BY <1>1, AtIs
<1> HIDE DEF new, at
<1>6. /\ Len(new) = Len(list) /\ new \in Seq(RecordSet)
      /\ \A i \in 1 .. Len(list) : new[i].name = list[i].name /\ new[i].by = list[i].by
  BY <1>3, <1>4, <1>5 DEF Replaced
<1> SUFFICES ASSUME NEW m, Has(list, m)
             PROVE  Has(new, m) /\ new[At(new, m)].by = list[At(list, m)].by
  BY DEF SameBy, new
<1>7. At(list, m) \in 1 .. Len(list) /\ list[At(list, m)].name = m
  BY AtIs
<1>8. PICK k \in 1 .. Len(list) : k = At(list, m) /\ list[k].name = m
  BY <1>7
<1>9. \A i, j \in 1 .. Len(new) : new[i].name = new[j].name => i = j
  BY <1>6
<1>10. k \in 1 .. Len(new) /\ new[k].name = m /\ Len(new) \in Nat
  BY <1>6, <1>8
<1>11. Has(new, m) /\ At(new, m) = k
  BY <1>9, <1>10, OnlyAt
<1> QED BY <1>6, <1>8, <1>11

LEMMA LastStays ==
  ASSUME NEW list \in Seq(RecordSet), NEW new, NEW at, NEW r, Replaced(list, new, at, r), r.by = list[at].by
  PROVE  SameLast(list, new)
BY DEF Replaced, SameLast

\* A root is open only as the first.
LEMMA RootsFirst ==
  ASSUME Structure, into # "none"
  PROVE  /\ \A i \in 1 .. Len(open) : doc[open[i]].tag \in Roots => i = 1
         /\ doc[open[1]].tag \in Roots
<1>1. /\ Len(open) \in Nat /\ \A i \in 1 .. Len(open) : open[i] \in 1 .. Len(doc)
  BY TopIs
<1>2. ASSUME NEW i \in 1 .. Len(open), doc[open[i]].tag \in Roots, i # 1 PROVE FALSE
  <2>1. i \in 2 .. Len(open) /\ i - 1 \in 1 .. Len(open)
    BY <1>1, <1>2
  <2>2. doc[open[i]].up = open[i - 1] /\ open[i - 1] # 0 /\ open[i] \in 1 .. Len(doc)
    BY <1>1, <2>1 DEF Structure, OpenSound
  <2>3. doc[open[i]].tag \in Allowed(doc[doc[open[i]].up].tag)
    BY <2>2 DEF Structure, DocSound
  <2> QED BY <1>2, <2>3, TagsApart
<1>3. doc[open[1]].tag \in Roots
  BY DEF Structure, OpenSound
<1> QED BY <1>2, <1>3

LEMMA NoneOpen ==
  ASSUME Structure, into # "none", NEW el \in NextTags
  PROVE  /\ el.tag = "timeline" => NotOpen(doc, open, "timeline")
         /\ el.tag = "grad" => NotOpen(doc, open, "grad")
<1>1. /\ Len(open) \in Nat \ {0} /\ \A i \in 1 .. Len(open) : open[i] \in 1 .. Len(doc)
  BY TopIs
<1>2. el.up = open[Len(open)] /\ el.tag \in Allowed(doc[open[Len(open)]].tag)
  BY NextTagIs
<1>0. PICK k : k = Len(open) /\ k \in 1 .. k /\ k \in Nat
  BY <1>1
<1>3. ASSUME el.tag = "timeline" PROVE NotOpen(doc, open, "timeline")
  <2>1. doc[open[k]].tag \in Roots
    BY <1>0, <1>2, <1>3, AllowedIs
  <2>2. k = 1
    BY <1>0, <2>1, RootsFirst
  <2>3. \A i \in 1 .. Len(open) : i = k
    BY <1>0, <2>2
  <2> QED BY <2>1, <2>3 DEF NotOpen, Roots
<1>4. ASSUME el.tag = "grad" PROVE NotOpen(doc, open, "grad")
  <2>1. doc[open[k]].tag = "gradients"
    BY <1>0, <1>2, <1>4, AllowedIs
  <2>2. k # 1
    BY <2>1, RootsFirst DEF Roots
  <2>3. k \in Nat /\ k \in 2 .. Len(open) /\ k - 1 \in 1 .. Len(open)
    BY <1>0, <2>2
  <2>4. doc[open[k]].up = open[k - 1] /\ open[k - 1] # 0 /\ open[k] \in 1 .. Len(doc)
    BY <1>1, <2>3 DEF Structure, OpenSound
  <2>5. "gradients" \in Allowed(doc[open[k - 1]].tag)
    BY <2>1, <2>4 DEF Structure, DocSound
  <2>6. doc[open[k - 1]].tag \in Roots
    BY <2>5, AllowedIs DEF Blocks
  <2>7. k - 1 = 1
    BY <2>3, <2>6, RootsFirst
  <2>79. \A j \in Nat : j - 1 = 1 => j = 2
    OBVIOUS
  <2>80. k = 2 /\ Len(open) = 2
    <3>1. k = 2
      BY <2>3, <2>7, <2>79
    <3> QED BY <1>0, <3>1
  <2>81. \A i \in 1 .. 2 : i = 1 \/ i = 2
    OBVIOUS
  <2>8. \A i \in 1 .. Len(open) : i = k \/ i = k - 1
    BY <2>80, <2>81
  <2> QED BY <2>1, <2>6, <2>8 DEF NotOpen, Roots
<1> QED BY <1>3, <1>4

-----------------------------------------------------------------------------
(* A start tag, and the scope under way.                                   *)

\* A constant that a lookup finds is one that is declared before.
LEMMA LookupKnown ==
  ASSUME NEW D, NEW D2, NEW n, NEW el, NEW X, NEW X2, NEW Y, NEW Y2, Grown(D, D2, n, el, X, X2, Y, Y2),
         NEW G, Y = X \cup G, Y \subseteq 1 .. n, Y \subseteq Y2, Y2 \subseteq Y \cup {n + 1},
         NEW here, Files(D, X, Y, "const", here), NEW Z, NEW globals, Files(D, G, Z, "const", globals),
         el.ref \in Names
  PROVE  Known(D2, Y2, n + 1) <=> Has(here, el.ref) \/ Has(globals, el.ref)
<1>1. n \in Nat /\ D2[n + 1] = el /\ \A e \in 1 .. n : D2[e] = D[e]
  BY DEF Grown, Extends
<1>2. el.ref # NoName
  BY MetadataAssumption
<1> DEFINE Is(c) == D[c].tag \in TagsOf("const") /\ D[c].ok /\ D[c].name = el.ref
<1>3. Has(here, el.ref) <=> \E c \in X : Is(c)
  <2>1. Has(here, el.ref) <=> NamedIn(D, X, "const", el.ref) # {}
    BY DEF Files
  <2> QED BY <2>1 DEF NamedIn, DeclaredIn
<1>4. Has(globals, el.ref) <=> \E c \in G : Is(c)
  <2>1. Has(globals, el.ref) <=> NamedIn(D, G, "const", el.ref) # {}
    BY DEF Files
  <2> QED BY <2>1 DEF NamedIn, DeclaredIn
<1>5. Known(D2, Y2, n + 1) <=> \E c \in Y : Is(c)
  <2>1. \A c \in Y2 : c < n + 1 => c \in Y
    BY <1>1
  <2>2. \A c \in Y : c \in Y2 /\ c < n + 1 /\ D2[c] = D[c]
    BY <1>1
  <2>3. Known(D2, Y2, n + 1) <=>
          \E c \in Y2 : c < n + 1 /\ D2[c].tag \in TagsOf("const") /\ D2[c].ok /\ D2[c].name = el.ref
    BY <1>1, <1>2 DEF Known
  <2> QED BY <2>1, <2>2, <2>3
<1> HIDE DEF Is
<1> QED BY <1>3, <1>4, <1>5

\* What is known of a start tag when all records could be allocated.
StartsWith(el, oom, n, X, X2, Y, Y2) ==
  /\ Structure /\ ScopesSound /\ into # "none" /\ el \in NextTags /\ oom = FALSE
  /\ n = Len(doc) /\ Start(el, oom) /\ "latch" \notin Mishaps
  /\ Grown(doc, doc', n, el, X, X2, Y, Y2)
  /\ Lists(doc, X, Y, work.lists)
  /\ GradientHome(doc, open, work.lists["grad"])
  /\ TimelineHome(doc, open, work.lists["timeline"], context)

\* What has to hold after it.
EndsWith(X2, Y2) ==
  /\ Lists(doc', X2, Y2, work'.lists) /\ scopes' = scopes
  /\ GradientHome(doc', open', work'.lists["grad"])
  /\ TimelineHome(doc', open', work'.lists["timeline"], context')

LEMMA StartPushed ==
  ASSUME NEW el, NEW oom, NEW n, NEW X, NEW X2, NEW Y, NEW Y2, StartsWith(el, oom, n, X, X2, Y, Y2)
  PROVE  /\ Pushed(doc, doc', n, el, open, open') /\ n \in Nat
         /\ el.up = open[Len(open)] /\ Len(open) \in 1 .. Len(open)
         /\ el.tag \in Allowed(doc[open[Len(open)]].tag)
<1>1. Structure /\ into # "none" /\ el \in NextTags /\ n = Len(doc) /\ Start(el, oom)
  BY DEF StartsWith
<1>2. Extends(doc, doc', n, el)
  BY DEF StartsWith, Grown
<1>3. /\ Len(open) \in Nat /\ Len(open') = Len(open) + 1 /\ open'[Len(open) + 1] = n + 1
      /\ \A i \in 1 .. Len(open) : open'[i] = open[i]
  BY <1>1, StartKeeps
<1>4. Len(open) \in Nat \ {0} /\ \A i \in 1 .. Len(open) : open[i] \in 1 .. n
  BY <1>1, TopIs
<1>5. el.up = open[Len(open)] /\ el.tag \in Allowed(doc[el.up].tag)
  BY <1>1, NextTagIs
<1> QED BY <1>1, <1>2, <1>3, <1>4, <1>5 DEF Pushed, Extends

\* Nothing is recorded.
LEMMA IdleEnds ==
  ASSUME NEW el, NEW oom, NEW n, NEW X, NEW X2, NEW Y, NEW Y2, StartsWith(el, oom, n, X, X2, Y, Y2),
         el.tag \notin {"grad", "timeline"}, work'.lists = work.lists, context' = context, scopes' = scopes,
         \A kind \in Kinds : NoPart(doc', Y2, n, el, kind)
  PROVE  EndsWith(X2, Y2)
<1>1. Grown(doc, doc', n, el, X, X2, Y, Y2) /\ Lists(doc, X, Y, work.lists)
  BY DEF StartsWith
<1>2. Lists(doc', X2, Y2, work'.lists)
  BY <1>1, ListsIdle
<1>3. Pushed(doc, doc', n, el, open, open')
  BY StartPushed
<1>4. GradientHome(doc', open', work'.lists["grad"])
  <2>1. GradientHome(doc, open, work.lists["grad"]) /\ SameLast(work.lists["grad"], work'.lists["grad"])
    BY DEF StartsWith, SameLast
  <2> QED BY <1>3, <2>1, GradientStays
<1>5. TimelineHome(doc', open', work'.lists["timeline"], context')
  <2>1. /\ TimelineHome(doc, open, work.lists["timeline"], context)
        /\ SameBy(work.lists["timeline"], work'.lists["timeline"])
    BY DEF StartsWith, SameBy
  <2>2. TimelineHome(doc', open', work'.lists["timeline"], context)
    BY <1>3, <2>1, TimelineStays
  <2> QED BY <2>2
<1> QED BY <1>2, <1>4, <1>5 DEF EndsWith

\* An element of a block.
LEMMA ListedEnds ==
  ASSUME NEW el, NEW oom, NEW n, NEW X, NEW X2, NEW Y, NEW Y2, StartsWith(el, oom, n, X, X2, Y, Y2),
         el.tag \in Listed
  PROVE  EndsWith(X2, Y2)
<1> DEFINE e == n + 1
<1>1. /\ Structure /\ ScopesSound /\ into # "none" /\ el \in NextTags /\ oom = FALSE /\ n = Len(doc)
      /\ Start(el, oom) /\ Grown(doc, doc', n, el, X, X2, Y, Y2) /\ Lists(doc, X, Y, work.lists)
      /\ GradientHome(doc, open, work.lists["grad"])
      /\ TimelineHome(doc, open, work.lists["timeline"], context)
  BY DEF StartsWith
<1>2. Pushed(doc, doc', n, el, open, open') /\ n \in Nat
  BY StartPushed
<1>3. /\ work' = IF el.ok /\ ~oom THEN With(work, KindOf(el.tag), el.name, e) ELSE work
      /\ context' = context /\ scopes' = scopes
  BY <1>1, StartDoes
<1>4. work \in ScopeSet /\ el.name \in Names
  BY <1>1, NamedIs DEF ScopesSound
<1>5. CASE ~el.ok
  <2>1. work' = work
    BY <1>3, <1>5
  <2>2. el.tag \notin {"grad", "timeline"}
    <3>1. el.tag \in Fallible
      BY <1>1, <1>5, NextTagIs
    <3>2. el.tag # "timeline"
      BY DEF Listed
    <3>3. "grad" \notin Fallible
      BY DEF Fallible
    <3> QED BY <3>1, <3>2, <3>3
  <2>3. el.tag \notin StepTags
    BY DEF StepTags, Listed
  <2>4. \A kind \in Kinds : NoPart(doc', Y2, n, el, kind)
    BY <1>5, <2>3, IdleIs
  <2> QED BY <1>3, <2>1, <2>2, <2>4, IdleEnds
<1>6. CASE el.ok
  <2>1. PICK kind \in Kinds : kind = KindOf(el.tag) /\ kind # "timeline" /\ (kind = "grad" <=> el.tag = "grad")
    <3>1. KindOf(el.tag) # "timeline" /\ (KindOf(el.tag) = "grad" <=> el.tag = "grad")
      BY DEF KindOf, Listed
    <3> QED BY <1>1, <3>1, NamedIs
  <2>2. OfKind(el, kind) /\ el.tag \notin {"set_const", "timeline"}
    BY <1>6, <2>1 DEF OfKind, TagsOf, KindOf, Listed
  <2>3. PICK l : l = Put(kind, work.lists[kind], el.name, e)
    OBVIOUS
  <2>4. work' = With(work, kind, el.name, e)
    BY <1>1, <1>3, <1>6, <2>1
  <2>5. Changed(work, work', kind, l)
    BY <1>2, <1>4, <2>3, <2>4, WithIs
  <2>6. Lists(doc', X2, Y2, work'.lists)
    BY <1>1, <1>4, <2>1, <2>2, <2>3, <2>5, ListsPut
  <2>7. GradientHome(doc', open', work'.lists["grad"])
    <3>1. CASE kind = "grad"
      <4>1. l = PutAlways(work.lists["grad"], el.name, e) /\ work'.lists["grad"] = l
        BY <2>3, <2>5, <3>1 DEF Put, Changed
      <4>2. work.lists["grad"] \in Seq(RecordSet) /\ e \in Nat
        BY <1>2, <1>4, <3>1, ScopeIs
      <4>3. Placed(work.lists["grad"], l, Len(work.lists["grad"]) + 1, Record(el.name, e))
        BY <1>4, <4>1, <4>2, AlwaysIs
      <4>4. Record(el.name, e).by = e
        BY <1>4, <4>2, RecordIs
      <4>5. Len(l) > 0 /\ l[Len(l)].by = n + 1
        BY <4>2, <4>3, <4>4 DEF Placed
      <4>6. NotOpen(doc, open, "grad")
        BY <1>1, <2>1, <3>1, NoneOpen
      <4> QED BY <1>2, <4>1, <4>5, <4>6, GradientNew
    <3>2. CASE kind # "grad"
      <4>1. work'.lists["grad"] = work.lists["grad"] /\ el.tag # "grad"
        BY <2>1, <2>5, <3>2 DEF Changed, Kinds
      <4>2. SameLast(work.lists["grad"], work'.lists["grad"])
        BY <4>1 DEF SameLast
      <4> QED BY <1>1, <1>2, <4>1, <4>2, GradientStays
    <3> QED BY <3>1, <3>2
  <2>8. TimelineHome(doc', open', work'.lists["timeline"], context')
    <3>1. work'.lists["timeline"] = work.lists["timeline"]
      BY <2>1, <2>5 DEF Changed, Kinds
    <3>2. SameBy(work.lists["timeline"], work'.lists["timeline"])
      BY <3>1 DEF SameBy
    <3>3. TimelineHome(doc', open', work'.lists["timeline"], context)
      BY <1>1, <1>2, <2>2, <3>2, TimelineStays
    <3> QED BY <1>3, <3>3
  <2> QED BY <1>3, <2>6, <2>7, <2>8 DEF EndsWith
<1>7. el.ok \in BOOLEAN
  BY <1>1, NextTagIs
<1> QED BY <1>5, <1>6, <1>7

\* A timeline.
LEMMA TimelineEnds ==
  ASSUME NEW el, NEW oom, NEW n, NEW X, NEW X2, NEW Y, NEW Y2, StartsWith(el, oom, n, X, X2, Y, Y2),
         el.tag = "timeline"
  PROVE  EndsWith(X2, Y2)
<1> DEFINE e == n + 1
           list == work.lists["timeline"]
<1>1. /\ Structure /\ ScopesSound /\ into # "none" /\ el \in NextTags /\ oom = FALSE /\ n = Len(doc)
      /\ Start(el, oom) /\ Grown(doc, doc', n, el, X, X2, Y, Y2) /\ Lists(doc, X, Y, work.lists)
      /\ GradientHome(doc, open, work.lists["grad"]) /\ "latch" \notin Mishaps
  BY DEF StartsWith
<1>2. Pushed(doc, doc', n, el, open, open') /\ n \in Nat
  BY StartPushed
<1>3. Timeline(el, e, oom) /\ scopes' = scopes
  BY <1>1, StartDoes
<1>4. work \in ScopeSet /\ el.name \in Names /\ el.ok /\ ~Has(list, el.name) /\ "timeline" \in Kinds /\ e \in Nat
  BY <1>1, <1>2, NamedIs, NextTagIs DEF ScopesSound, Kinds
<1>5. PICK w : w = With(work, "timeline", el.name, e)
  OBVIOUS
<1>6. /\ work' = w
      /\ context' = IF Lookup("timeline", w, el.name)[1] = "none" THEN NoContext
                    ELSE [of |-> Lookup("timeline", w, el.name)[1], name |-> el.name]
  BY <1>1, <1>3, <1>4, <1>5 DEF Timeline
<1>7. Changed(work, w, "timeline", Put("timeline", list, el.name, e)) /\ Has(w.lists["timeline"], el.name)
  BY <1>4, <1>5, WithIs
<1>8. PICK l : l = Put("timeline", list, el.name, e) /\ l = PutFirst(list, el.name, e)
  BY DEF Put
<1>9. Lookup("timeline", w, el.name)[1] = "own"
  BY <1>7, LookupIs
<1>10. context' = [of |-> "own", name |-> el.name]
  BY <1>6, <1>9
<1>11. context'.of = "own" /\ context'.name = el.name /\ context' # NoContext
  BY <1>10 DEF NoContext
<1>12. OfKind(el, "timeline")
  BY <1>4 DEF OfKind, TagsOf
<1>13. Lists(doc', X2, Y2, work'.lists)
  <2>1. PICK kind \in Kinds : kind = "timeline"
    BY <1>4
  <2>2. Changed(work, work', kind, Put(kind, work.lists[kind], el.name, e)) /\ ~Has(work.lists[kind], el.name)
    BY <1>4, <1>6, <1>7, <2>1
  <2>3. OfKind(el, kind) /\ el.tag # "set_const"
    BY <1>12, <2>1
  <2> QED BY <1>1, <1>4, <2>2, <2>3, ListsPut
<1>14. GradientHome(doc', open', work'.lists["grad"])
  <2>1. work'.lists["grad"] = work.lists["grad"]
    BY <1>6, <1>7 DEF Changed, Kinds
  <2>2. SameLast(work.lists["grad"], work'.lists["grad"])
    BY <2>1 DEF SameLast
  <2> QED BY <1>1, <1>2, <2>2, GradientStays
<1>15. l[At(l, el.name)].by = n + 1 /\ Has(l, el.name) /\ work'.lists["timeline"] = l
  <2>1. list \in Seq(RecordSet)
    BY <1>4, ScopeIs
  <2>2. PICK r \in RecordSet : r = Record(el.name, e) /\ r.name = el.name /\ r.by = e
    BY <1>4, RecordIs
  <2>3. Placed(list, l, 1, r)
    BY <1>4, <1>8, <2>1, <2>2, FirstIs
  <2>4. work'.lists["timeline"] = l
    BY <1>6, <1>7, <1>8 DEF Changed
  <2>5. Has(l, el.name)
    BY <1>6, <1>7, <2>4
  <2> HIDE DEF list, e
  <2>6. Len(list) \in Nat /\ Len(l) = Len(list) + 1 /\ l[1] = r /\ \A i \in 1 .. Len(list) : l[i + 1] = list[i]
    BY <2>1, <2>3 DEF Placed
  <2>7. PICK at \in 1 .. Len(l) : at = At(l, el.name) /\ l[at].name = el.name
    <3>1. Len(l) \in Nat
      BY <2>6
    <3> QED BY <2>5, <3>1, AtIs
  <2>8. at = 1
    <3>1. ASSUME at # 1 PROVE FALSE
      <4>1. at - 1 \in 1 .. Len(list) /\ (at - 1) + 1 = at
        BY <2>6, <3>1
      <4>2. list[at - 1].name = el.name
        BY <2>6, <2>7, <4>1
      <4> QED BY <1>4, <4>1, <4>2 DEF Has
    <3> QED BY <3>1
  <2> QED BY <2>2, <2>4, <2>5, <2>6, <2>7, <2>8 DEF e
<1>16. NotOpen(doc, open, "timeline")
  BY <1>1, NoneOpen
<1>17. TimelineHome(doc', open', work'.lists["timeline"], context')
  BY <1>2, <1>11, <1>15, <1>16, TimelineNew
<1> QED BY <1>3, <1>13, <1>14, <1>17 DEF EndsWith

\* A stop.
LEMMA StopEnds ==
  ASSUME NEW el, NEW oom, NEW n, NEW X, NEW X2, NEW Y, NEW Y2, StartsWith(el, oom, n, X, X2, Y, Y2),
         el.tag = "stop"
  PROVE  EndsWith(X2, Y2)
<1> DEFINE e == n + 1
           list == work.lists["grad"]
           at == Len(list)
<1>1. /\ Structure /\ ScopesSound /\ into # "none" /\ el \in NextTags /\ n = Len(doc)
      /\ Start(el, oom) /\ Grown(doc, doc', n, el, X, X2, Y, Y2) /\ Lists(doc, X, Y, work.lists)
      /\ GradientHome(doc, open, list)
      /\ TimelineHome(doc, open, work.lists["timeline"], context)
  BY DEF StartsWith
<1>2. /\ Pushed(doc, doc', n, el, open, open') /\ n \in Nat /\ el.up = open[Len(open)]
      /\ Len(open) \in 1 .. Len(open) /\ el.tag \in Allowed(doc[open[Len(open)]].tag)
  BY StartPushed
<1>3. Stop(e) /\ context' = context /\ scopes' = scopes
  BY <1>1, StartDoes
<1>4. work \in ScopeSet /\ "grad" \in Kinds /\ list \in Seq(RecordSet) /\ e \in Nat
  BY <1>1, <1>2, ScopeIs DEF ScopesSound, Kinds
<1>5. doc[open[Len(open)]].tag = "grad"
  BY <1>2, AllowedIs
<1>6. at \in 1 .. Len(list) /\ list[at].by = el.up
  <2>1. Len(list) > 0 /\ list[Len(list)].by = el.up
    BY <1>1, <1>2, <1>5 DEF GradientHome
  <2> QED BY <1>4, <2>1
<1>7. PICK r \in RecordSet : r = list[at]
  BY <1>4, <1>6
<1>8. LET y == [r EXCEPT !.parts = Stopped(@, e)]
      IN  y \in RecordSet /\ y.name = r.name /\ y.by = r.by /\ y.parts = Stopped(r.parts, e)
  BY <1>4, StoppedIs
<1>9. PICK x \in RecordSet : x = [r EXCEPT !.parts = Stopped(@, e)] /\ x.name = r.name /\ x.by = r.by
                             /\ x.parts = Stopped(r.parts, e)
  BY <1>8
<1>10. Replaced(list, [list EXCEPT ![at] = x], at, x)
  BY <1>4, <1>6, ExceptIs
<1>11. work' = [work EXCEPT !.lists["grad"] = [list EXCEPT ![at] = x]]
  BY <1>3, <1>7, <1>9 DEF Stop
<1>12. PICK l \in Seq(RecordSet) : l = [list EXCEPT ![at] = x]
  BY <1>10 DEF Replaced
<1>13. Changed(work, work', "grad", l)
  BY <1>4, <1>11, <1>12, ChangedIs
<1>14. Replaced(list, l, at, x)
  BY <1>10, <1>12
<1>15. PICK kind \in Kinds : kind = "grad"
  BY <1>4
<1>16. Filed(doc, X, Y, kind, list)
  BY <1>1, <1>15 DEF Lists
<1>17. Filed(doc', X2, Y2, kind, l)
  <2>1. x.name = list[at].name /\ x.by = list[at].by /\ x.parts = Stopped(list[at].parts, n + 1)
    BY <1>7, <1>9
  <2>2. PICK k : k = Len(list) /\ k = at
    OBVIOUS
  <2>3. list[k].by = el.up /\ Replaced(list, l, k, x) /\ x.name = list[k].name /\ x.by = list[k].by
        /\ x.parts = Stopped(list[k].parts, n + 1)
    BY <1>6, <1>14, <2>1, <2>2
  <2> HIDE DEF list, at
  <2> QED BY <1>1, <1>15, <1>16, <2>2, <2>3, FiledStop
<1>18. \A k \in Kinds : k # kind => NoPart(doc', Y2, n, el, k)
  BY <1>15 DEF NoPart, OfKind, TagsOf, Kinds
<1>19. Lists(doc', X2, Y2, work'.lists)
  <2>1. Changed(work, work', kind, l)
    BY <1>13, <1>15
  <2> QED BY <1>1, <1>17, <1>18, <2>1, ListsChanged
<1>20. GradientHome(doc', open', work'.lists["grad"])
  <2>1. work'.lists["grad"] = l
    BY <1>13 DEF Changed
  <2>2. SameLast(list, l)
    <3>1. x.by = list[at].by
      BY <1>7, <1>9
    <3> QED BY <1>4, <1>14, <3>1, LastStays
  <2> QED BY <1>1, <1>2, <2>1, <2>2, GradientStays
<1>21. TimelineHome(doc', open', work'.lists["timeline"], context')
  <2>1. work'.lists["timeline"] = work.lists["timeline"]
    BY <1>13 DEF Changed, Kinds
  <2>2. SameBy(work.lists["timeline"], work'.lists["timeline"])
    BY <2>1 DEF SameBy
  <2>3. TimelineHome(doc', open', work'.lists["timeline"], context)
    BY <1>1, <1>2, <2>2, TimelineStays
  <2> QED BY <1>3, <2>3
<1> QED BY <1>3, <1>19, <1>20, <1>21 DEF EndsWith

\* An animation.  What lookups can see is what the scope has been given, and the globals.
LEMMA AnimationEnds ==
  ASSUME NEW el, NEW oom, NEW n, NEW X, NEW X2, NEW Y, NEW Y2, StartsWith(el, oom, n, X, X2, Y, Y2),
         el.tag \in {"animation", "include_timeline"},
         NEW G, Y = X \cup G, Y \subseteq 1 .. n, Y \subseteq Y2, Y2 \subseteq Y \cup {n + 1},
         NEW Z, Filed(doc, G, Z, "const", scopes["globals"].lists["const"])
  PROVE  EndsWith(X2, Y2)
<1> DEFINE e == n + 1
           list == work.lists["timeline"]
<1>1. /\ Structure /\ ScopesSound /\ into # "none" /\ el \in NextTags /\ oom = FALSE /\ n = Len(doc)
      /\ Start(el, oom) /\ Grown(doc, doc', n, el, X, X2, Y, Y2) /\ Lists(doc, X, Y, work.lists)
      /\ GradientHome(doc, open, work.lists["grad"])
      /\ TimelineHome(doc, open, list, context)
  BY DEF StartsWith
<1>2. /\ Pushed(doc, doc', n, el, open, open') /\ n \in Nat /\ el.up = open[Len(open)]
      /\ Len(open) \in 1 .. Len(open) /\ el.tag \in Allowed(doc[open[Len(open)]].tag)
  BY StartPushed
<1>3. Animation(el, e, oom) /\ context' = context
  BY <1>1, StartDoes
<1>4. work \in ScopeSet /\ "timeline" \in Kinds /\ "const" \in Kinds /\ list \in Seq(RecordSet) /\ e \in Nat
  BY <1>1, <1>2, ScopeIs DEF ScopesSound, Kinds
<1>5. doc[open[Len(open)]].tag = "timeline"
  BY <1>2, AllowedIs
<1>6. context.of = "own" /\ context # NoContext /\ Has(list, context.name) /\ list[At(list, context.name)].by = el.up
  BY <1>1, <1>2, <1>5 DEF TimelineHome
<1>7. el.ref \in Names \cup {NoName} /\ el.ok \in BOOLEAN
  BY <1>1, NextTagIs DEF ElementSet
<1>8. Known(doc', Y2, n + 1) <=> el.ref = NoName \/ Lookup("const", work, el.ref)[1] # "none"
  <2>1. CASE el.ref = NoName
    <3>1. doc'[n + 1] = el
      BY <1>1 DEF Grown, Extends
    <3> QED BY <2>1, <3>1 DEF Known
  <2>2. CASE el.ref # NoName
    <3> DEFINE here == work.lists["const"]
               globals == scopes["globals"].lists["const"]
    <3>1. Files(doc, X, Y, "const", here)
      <4>1. Filed(doc, X, Y, "const", here)
        BY <1>1, <1>4 DEF Lists
      <4> QED BY <4>1 DEF Filed
    <3>2. Files(doc, G, Z, "const", globals)
      BY DEF Filed
    <3>3. el.ref \in Names
      BY <1>7, <2>2
    <3>4. Lookup("const", work, el.ref)[1] =
            IF Has(here, el.ref) THEN "own"
            ELSE IF Has(globals, el.ref) /\ into # "globals" THEN "globals" ELSE "none"
      BY LookupIs
    <3>5. into = "globals" /\ Has(globals, el.ref) => Has(here, el.ref)
      <4>1. ASSUME into = "globals", Has(globals, el.ref) PROVE Has(here, el.ref)
        <5>1. LongerScope(scopes["globals"], work)
          BY <1>1, <4>1 DEF ScopesSound
        <5>2. Longer("const", globals, here)
          BY <1>4, <5>1 DEF LongerScope
        <5> HIDE DEF here, globals
        <5> QED BY <4>1, <5>2, LongerHas
      <4> QED BY <4>1
    <3> HIDE DEF here, globals
    <3>6. Known(doc', Y2, n + 1) <=> Has(here, el.ref) \/ Has(globals, el.ref)
      BY <1>1, <3>1, <3>2, <3>3, LookupKnown
    <3> QED BY <2>2, <3>4, <3>5, <3>6
  <2> QED BY <2>1, <2>2
<1>9. CASE ~Animates(el, oom)
  <2>1. work' = work /\ scopes' = scopes
    BY <1>3, <1>9 DEF Animation
  <2>2. ~(el.ok /\ Known(doc', Y2, n + 1))
    BY <1>1, <1>6, <1>8, <1>9 DEF Animates
  <2>3. \A kind \in Kinds : NoPart(doc', Y2, n, el, kind)
    <3>1. \A kind \in Kinds : ~OfKind(el, kind)
      BY DEF OfKind, TagsOf, Kinds
    <3> QED BY <2>2, <3>1 DEF NoPart
  <2> QED BY <1>3, <2>1, <2>3, IdleEnds
<1>10. CASE Animates(el, oom)
  <2>1. PICK name : name = context.name
    OBVIOUS
  <2>2. PICK l : l = PutPart(list, name, e)
    OBVIOUS
  <2>3. work' = [work EXCEPT !.lists["timeline"] = l] /\ scopes' = scopes
    BY <1>3, <1>6, <1>10, <2>1, <2>2 DEF Animation
  <2>4. el.ok /\ Known(doc', Y2, n + 1)
    BY <1>8, <1>10 DEF Animates
  <2>5. PICK kind \in Kinds : kind = "timeline"
    BY <1>4
  <2>6. Filed(doc, X, Y, kind, list)
    BY <1>1, <2>5 DEF Lists
  <2>7. Filed(doc', X2, Y2, kind, l)
    <3>1. Has(list, name) /\ list[At(list, name)].by = el.up
      BY <1>6, <2>1
    <3> HIDE DEF list
    <3> QED BY <1>1, <2>2, <2>4, <2>5, <2>6, <3>1, FiledAnimated
  <2>8. l \in Seq(RecordSet)
    BY <2>5, <2>7 DEF Filed, Files
  <2>9. Changed(work, work', "timeline", l)
    BY <1>4, <2>3, <2>8, ChangedIs
  <2>10. \A k \in Kinds : k # kind => NoPart(doc', Y2, n, el, k)
    BY <2>5 DEF NoPart, OfKind, TagsOf, Kinds
  <2>11. Lists(doc', X2, Y2, work'.lists)
    <3>1. Changed(work, work', kind, l)
      BY <2>5, <2>9
    <3> QED BY <1>1, <2>7, <2>10, <3>1, ListsChanged
  <2>12. GradientHome(doc', open', work'.lists["grad"])
    <3>1. work'.lists["grad"] = work.lists["grad"]
      BY <2>9 DEF Changed, Kinds
    <3>2. SameLast(work.lists["grad"], work'.lists["grad"])
      BY <3>1 DEF SameLast
    <3> QED BY <1>1, <1>2, <3>2, GradientStays
  <2>13. TimelineHome(doc', open', work'.lists["timeline"], context')
    <3>1. work'.lists["timeline"] = l
      BY <2>9 DEF Changed
    <3>2. \A i, j \in 1 .. Len(list) : list[i].name = list[j].name => i = j
      BY <2>5, <2>6 DEF Filed, Files
    <3>3. SameBy(list, l)
      BY <1>4, <1>6, <2>1, <2>2, <3>2, PartSameBy
    <3>4. TimelineHome(doc', open', work'.lists["timeline"], context)
      BY <1>1, <1>2, <3>1, <3>3, TimelineStays
    <3> QED BY <1>3, <3>4
  <2> QED BY <2>3, <2>11, <2>12, <2>13 DEF EndsWith
<1> QED BY <1>9, <1>10

-----------------------------------------------------------------------------
(* What every action does to the scopes.                                   *)

LEMMA CutNow ==
  ASSUME Structure
  PROVE  /\ Parsed \in Nat /\ Parsed <= Len(doc) /\ Len(doc) \in Nat /\ Cut(doc, Parsed)
         /\ into = "none" => Parsed = Len(doc)
         /\ into # "none" => Parsed = open[1] - 1 /\ open[1] \in Nat
<1>1. Len(doc) \in Nat /\ DocSound(doc)
  BY DEF Structure, DocSound
<1>2. CASE into = "none"
  BY <1>1, <1>2 DEF Parsed, Cut
<1>3. CASE into # "none"
  <2>1. open[1] \in 1 .. Len(doc) /\ \A e \in open[1] .. Len(doc) : doc[e].root = open[1]
    BY <1>3, TopIs DEF Structure, OpenSound
  <2>2. Parsed = open[1] - 1
    BY <1>3 DEF Parsed
  <2>3. ASSUME NEW e \in 1 .. Len(doc), doc[e].root \in 1 .. Parsed PROVE e <= Parsed
    <3>1. ASSUME ~(e <= Parsed) PROVE FALSE
      <4>1. e \in open[1] .. Len(doc)
        BY <1>1, <2>1, <2>2, <3>1
      <4>2. doc[e].root = open[1]
        BY <2>1, <4>1
      <4> QED BY <1>1, <2>1, <2>2, <2>3, <4>2
    <3> QED BY <3>1
  <2> QED BY <1>1, <1>3, <2>1, <2>2, <2>3 DEF Cut
<1> QED BY <1>2, <1>3

\* A document with an element more, of a document that is not yet parsed.
LEMMA CutGrows ==
  ASSUME NEW D, NEW D2, NEW n, NEW el, Extends(D, D2, n, el), NEW k, Cut(D, k), k <= n,
         el.root \in Nat, el.root > k
  PROVE  Cut(D2, k) /\ Later(D, D2) /\ k <= Len(D)
<1>1. /\ n \in Nat /\ Len(D) = n /\ Len(D2) = n + 1 /\ D2[n + 1] = el /\ \A e \in 1 .. n : D2[e] = D[e]
      /\ DocSound(D) /\ DocSound(D2)
  BY DEF Extends
<1>2. Later(D, D2)
  BY <1>1 DEF Later
<1>3. ASSUME NEW e \in 1 .. Len(D2), D2[e].root \in 1 .. k PROVE e <= k
  <2>1. CASE e = n + 1
    BY <1>1, <1>3, <2>1 DEF Cut
  <2>2. CASE e # n + 1
    <3>1. e \in 1 .. n
      BY <1>1, <2>2
    <3>2. D2[e] = D[e] /\ e \in 1 .. Len(D)
      BY <1>1, <3>1
    <3> QED BY <1>3, <3>2 DEF Cut
  <2> QED BY <2>1, <2>2
<1> QED BY <1>1, <1>2, <1>3 DEF Cut

\* The scopes that are not under way, and the instance.
OthersFiled(D, scs, i, g) ==
  /\ \A r \in Roots : ScopeFiled(D, scs[r], g)
  /\ InstPlays(D, i, g)

LEMMA OthersRest ==
  ASSUME NEW D, NEW D2, Later(D, D2), NEW k, Cut(D2, k), k <= Len(D), NEW scs, NEW i,
         \A r \in Roots : scs[r].from \subseteq 1 .. k, i.from \subseteq 1 .. k,
         NEW g, g = scs["globals"].from, OthersFiled(D, scs, i, g)
  PROVE  OthersFiled(D2, scs, i, g)
<1>1. g \subseteq 1 .. k /\ g \subseteq g /\ \A r \in g \ g : r \in Nat /\ r > k
  BY RootsIs
<1>2. ASSUME NEW r \in Roots PROVE ScopeFiled(D2, scs[r], g)
  <2>1. scs[r].from \subseteq 1 .. k /\ ScopeFiled(D, scs[r], g)
    BY DEF OthersFiled
  <2> QED BY <1>1, <2>1, ScopeRests
<1>3. InstPlays(D2, i, g)
  <2>1. InstPlays(D, i, g)
    BY DEF OthersFiled
  <2> QED BY <1>1, <2>1, InstRests
<1> QED BY <1>2, <1>3 DEF OthersFiled

LEMMA FiledStarts ==
  ASSUME MetadataInit PROVE MetadataFiled
<1>1. /\ doc = Nothing /\ open = Nothing /\ into = "none" /\ work = EmptyScope /\ inst = NoInstance
      /\ \A r \in Roots : scopes[r] \in {EmptyScope, NoScope}
  BY DEF MetadataInit, Nothing
<1>2. \A r \in Roots : scopes[r].from = {} /\ \A kind \in Kinds : scopes[r].lists[kind] = Nothing
  BY <1>1, ScopeIs
<1>3. inst.from = {} /\ inst.lines = Nothing /\ Len(Nothing) = 0
  BY <1>1 DEF NoInstance, Nothing
<1>4. FromSound
  BY <1>1, <1>2, <1>3 DEF FromSound
<1>5. DocSound(doc)
  BY StructureStarts DEF Structure
<1>6. GivenIn(doc, {}) = {}
  BY DEF GivenIn
<1>7. ASSUME NEW r \in Roots PROVE ScopeFiled(doc, scopes[r], scopes["globals"].from)
  <2>1. Lists(doc, {}, SeenIn(doc, {}, scopes["globals"].from), scopes[r].lists)
    BY <1>2, <1>5, ListsEmpty
  <2> QED BY <1>2, <1>6, <2>1, ScopeLists
<1>8. InstPlays(doc, inst, scopes["globals"].from)
  BY <1>3, <1>6 DEF InstPlays, LinesPlay, DeclaredIn
<1>9. AllFiled
  BY <1>1, <1>3, <1>7, <1>8 DEF AllFiled, GradientHome, TimelineHome
<1> QED BY <1>4, <1>9 DEF MetadataFiled

LEMMA BeginFiled ==
  ASSUME MetadataStructure, MetadataFiled, NEW root \in Roots, Begin(root)
  PROVE  MetadataFiled'
<1> DEFINE n == Len(doc)
           el == RootElement(root, n + 1)
           s == IF root = "globals" THEN scopes["globals"] ELSE EmptyScope
           g == scopes["globals"].from
<1>1. Structure /\ ScopesSound /\ FromSound
  BY DEF MetadataStructure, MetadataFiled
<1>2. Extends(doc, doc', n, el) /\ n \in Nat
  <2>1. n \in Nat
    BY <1>1, BeginKeeps
  <2>2. el \in ElementSet
    BY <2>1 DEF RootElement, ElementSet
  <2> QED BY <1>1, <2>1, <2>2, BeginKeeps DEF Extends
<1>3. el.root = n + 1 /\ el.tag = root /\ root \notin {"grad", "timeline"}
  BY DEF RootElement, Roots
<1>4. /\ into = "none" /\ into' = root /\ open' = <<n + 1>> /\ scopes' = scopes /\ inst' = inst
      /\ lost' = lost /\ context' = NoContext /\ work' = [s EXCEPT !.from = @ \cup {n + 1}]
  BY DEF Begin
<1>5. s \in ScopeSet /\ s.from = IF root = "globals" THEN g ELSE {}
  BY <1>1, ScopeIs, RootsIs DEF ScopesSound
<1> HIDE DEF s, el
<1>6. work'.lists = s.lists /\ work'.from = s.from \cup {n + 1}
  BY <1>2, <1>4, <1>5, FromIs
<1>7. Parsed = n /\ Parsed' = n
  <2>1. Parsed = n
    BY <1>4 DEF Parsed
  <2>2. Parsed' = (n + 1) - 1
    BY <1>4, RootsIs DEF Parsed
  <2> QED BY <1>2, <2>1, <2>2
<1>8. FromSound'
  <2>1. \A r \in Roots : scopes'[r].from \subseteq 1 .. Parsed'
    BY <1>1, <1>4, <1>7 DEF FromSound
  <2>2. inst'.from \subseteq 1 .. Parsed'
    BY <1>1, <1>4, <1>7 DEF FromSound
  <2>3. open'[1] = n + 1
    BY <1>4
  <2>4. into' = "component" => work'.from = {open'[1]}
    BY <1>4, <1>5, <1>6, <2>3
  <2>5. into' = "globals" => work'.from = scopes'["globals"].from \cup {open'[1]}
    BY <1>4, <1>5, <1>6, <2>3
  <2> QED BY <2>1, <2>2, <2>4, <2>5 DEF FromSound
<1>9. ASSUME lost' = {}, "latch" \notin Mishaps PROVE AllFiled'
  <2>1. AllFiled
    BY <1>4, <1>9 DEF MetadataFiled
  <2>2. (\A r \in Roots : scopes[r].from \subseteq 1 .. n) /\ inst.from \subseteq 1 .. n /\ g \subseteq 1 .. n
    BY <1>1, <1>7, RootsIs DEF FromSound
  <2>3. Cut(doc', n) /\ Later(doc, doc') /\ n <= Len(doc)
    <3>1. Cut(doc, n) /\ n <= n
      BY <1>1, <1>2, <1>7, CutNow
    <3>2. el.root \in Nat /\ el.root > n
      BY <1>2, <1>3
    <3> HIDE DEF n
    <3> QED BY <1>2, <3>1, <3>2, CutGrows
  <2>4. OthersFiled(doc', scopes, inst, g)
    <3>1. OthersFiled(doc, scopes, inst, g)
      BY <2>1 DEF AllFiled, OthersFiled
    <3> QED BY <2>2, <2>3, <3>1, OthersRest
  <2>5. ScopeFiled(doc', work', g)
    <3>1. Lists(doc, GivenIn(doc, s.from), SeenIn(doc, s.from, g), s.lists)
      <4>1. CASE root = "globals"
        <5>1. s = scopes["globals"]
          BY <4>1 DEF s
        <5>2. ScopeFiled(doc, s, g)
          BY <2>1, <5>1, RootsIs DEF AllFiled
        <5> QED BY <5>2, ScopeLists
      <4>2. CASE root # "globals"
        <5>1. s.from = {} /\ \A kind \in Kinds : s.lists[kind] = Nothing
          BY <4>2, ScopeIs DEF s
        <5>2. GivenIn(doc, s.from) = {}
          BY <5>1 DEF GivenIn
        <5>3. DocSound(doc)
          BY <1>1 DEF Structure
        <5> QED BY <5>1, <5>2, <5>3, ListsEmpty
      <4> QED BY <4>1, <4>2
    <3>2. PICK from2 : from2 = work'.from /\ from2 = s.from \cup {n + 1}
      BY <1>6
    <3>3. Grown(doc, doc', n, el, GivenIn(doc, s.from), GivenIn(doc', from2), SeenIn(doc, s.from, g),
                SeenIn(doc', from2, g))
      BY <1>2, <1>3, <2>2, <3>2, GrownBegins
    <3>4. \A kind \in Kinds : NoPart(doc', SeenIn(doc', from2, g), n, el, kind)
      <4>1. el.tag \notin StepTags /\ el.tag \in Roots \cup Blocks \cup {"note", "view"}
        BY <1>3 DEF StepTags, Roots
      <4> QED BY <4>1, IdleIs
    <3>5. Lists(doc', GivenIn(doc', from2), SeenIn(doc', from2, g), s.lists)
      BY <3>1, <3>3, <3>4, ListsIdle
    <3> QED BY <1>6, <3>2, <3>5, ScopeLists
  <2>6. Len(open') = 1 /\ doc'[open'[1]].tag \notin {"grad", "timeline"}
    <3>1. open'[1] = n + 1 /\ doc'[n + 1] = el
      BY <1>2, <1>4 DEF Extends
    <3> QED BY <1>3, <1>4, <3>1
  <2>7. GradientHome(doc', open', work'.lists["grad"]) /\ TimelineHome(doc', open', work'.lists["timeline"], context')
    BY <2>6 DEF GradientHome, TimelineHome
  <2>8. g = scopes'["globals"].from
    BY <1>4
  <2> HIDE DEF g
  <2> QED BY <1>4, <2>4, <2>5, <2>7, <2>8 DEF AllFiled, OthersFiled
<1> QED BY <1>8, <1>9 DEF MetadataFiled

LEMMA StartFiled ==
  ASSUME MetadataStructure, MetadataFiled, into # "none", NEW el \in NextTags, NEW oom \in BOOLEAN,
         Start(el, oom)
  PROVE  MetadataFiled'
<1> DEFINE n == Len(doc)
           g == scopes["globals"].from
           k == Parsed
<1>1. Structure /\ ScopesSound /\ FromSound
  BY DEF MetadataStructure, MetadataFiled
<1>2. Extends(doc, doc', n, el) /\ n \in Nat
  <2>1. el \in ElementSet
    BY <1>1, NextTagIs
  <2> QED BY <1>1, <2>1, StartKeeps DEF Extends
<1>3. /\ into' = into /\ inst' = inst /\ work'.from = work.from
      /\ \A r \in Roots : scopes'[r].from = scopes[r].from
  BY <1>1, StartScopes DEF Start
<1>4. open'[1] = open[1] /\ el.root = open[1]
  <2>1. Len(open) \in Nat \ {0}
    BY <1>1, TopIs
  <2> QED BY <1>1, <2>1, StartKeeps, NextTagIs
<1>5. Parsed' = Parsed /\ k = open[1] - 1 /\ open[1] \in Nat /\ k \in Nat /\ k <= n /\ Cut(doc, k)
  <2>1. Parsed' = Parsed
    BY <1>3, <1>4 DEF Parsed
  <2> QED BY <1>1, <2>1, CutNow
<1>6. FromSound'
  <2>1. (\A r \in Roots : scopes'[r].from \subseteq 1 .. Parsed') /\ inst'.from \subseteq 1 .. Parsed'
    BY <1>1, <1>3, <1>5 DEF FromSound
  <2>2. into' = "component" => work'.from = {open'[1]}
    BY <1>1, <1>3, <1>4 DEF FromSound
  <2>3. into' = "globals" => work'.from = scopes'["globals"].from \cup {open'[1]}
    BY <1>1, <1>3, <1>4, RootsIs DEF FromSound
  <2> QED BY <2>1, <2>2, <2>3 DEF FromSound
<1>7. ASSUME lost' = {}, "latch" \notin Mishaps PROVE AllFiled'
  <2>1. lost = {} /\ oom = FALSE
    BY <1>7 DEF Start
  <2>2. AllFiled
    BY <1>7, <2>1 DEF MetadataFiled
  <2>3. /\ \A r \in Roots : scopes[r].from \subseteq 1 .. k
        /\ inst.from \subseteq 1 .. k /\ g \subseteq 1 .. k
    BY <1>1, RootsIs DEF FromSound
  <2>4. el.root \in work.from
    BY <1>1, <1>4 DEF FromSound, Structure, OpenSound, Roots
  <2> DEFINE X == GivenIn(doc, work.from)
             X2 == GivenIn(doc', work.from)
             Y == SeenIn(doc, work.from, g)
             Y2 == SeenIn(doc', work.from, g)
             G == GivenIn(doc, g)
             Z == SeenIn(doc, g, g)
  <2>5. Grown(doc, doc', n, el, X, X2, Y, Y2)
    BY <1>2, <2>4, GrownWithin
  <2>6. Y = X \cup G /\ Y \subseteq 1 .. n /\ Y \subseteq Y2 /\ Y2 \subseteq Y \cup {n + 1}
    <3>1. X \subseteq 1 .. n /\ X2 = X \cup {n + 1} /\ G \subseteq 1 .. n
      BY <1>2, <2>4, GivenGrows
    <3>2. GivenIn(doc', g) \in {G, G \cup {n + 1}}
      BY <1>2, GivenGrows
    <3> QED BY <3>1, <3>2 DEF SeenIn
  <2>7. Lists(doc, X, Y, work.lists)
    BY <2>2, ScopeLists DEF AllFiled
  <2>8. Filed(doc, G, Z, "const", scopes["globals"].lists["const"])
    <3>1. ScopeFiled(doc, scopes["globals"], g)
      BY <2>2, RootsIs DEF AllFiled
    <3> QED BY <3>1 DEF ScopeFiled, ListFiled, Kinds
  <2> HIDE DEF X, X2, Y, Y2, G, Z
  <2>9. StartsWith(el, oom, n, X, X2, Y, Y2)
    BY <1>1, <1>7, <2>1, <2>2, <2>5, <2>7 DEF StartsWith, AllFiled
  <2>10. EndsWith(X2, Y2)
    <3>1. CASE el.tag = "view"
      <4>1. work' = [work EXCEPT !.view = n + 1] /\ context' = context /\ scopes' = scopes
        BY <1>1, <3>1, StartDoes
      <4>2. work'.lists = work.lists
        BY <1>1, <1>2, <4>1, ViewIs DEF ScopesSound
      <4>3. el.tag \notin StepTags
        BY <3>1 DEF StepTags
      <4>4. \A kind \in Kinds : NoPart(doc', Y2, n, el, kind)
        BY <3>1, <4>3, IdleIs
      <4> QED BY <2>9, <3>1, <4>1, <4>2, <4>4, IdleEnds
    <3>2. CASE el.tag = "timeline"
      BY <2>9, <3>2, TimelineEnds
    <3>3. CASE el.tag \in {"animation", "include_timeline"}
      BY <2>6, <2>8, <2>9, <3>3, AnimationEnds
    <3>4. CASE el.tag = "stop"
      BY <2>9, <3>4, StopEnds
    <3>5. CASE el.tag \in Listed
      BY <2>9, <3>5, ListedEnds
    <3>6. CASE el.tag \in Blocks \cup {"note"}
      <4>1. UNCHANGED <<work, context, scopes>>
        BY <1>1, <3>6, StartDoes
      <4>2. el.tag \notin StepTags /\ el.tag \notin {"grad", "timeline"}
        BY <3>6 DEF StepTags, Blocks
      <4>3. \A kind \in Kinds : NoPart(doc', Y2, n, el, kind)
        BY <3>6, <4>2, IdleIs
      <4> QED BY <2>9, <4>1, <4>2, <4>3, IdleEnds
    <3> QED BY <1>1, <3>1, <3>2, <3>3, <3>4, <3>5, <3>6, NextTagIs, TagIs
  <2>11. scopes' = scopes
    BY <2>10 DEF EndsWith
  <2>12. OthersFiled(doc', scopes, inst, g)
    <3>1. OthersFiled(doc, scopes, inst, g)
      BY <2>2 DEF AllFiled, OthersFiled
    <3>2. Cut(doc', k) /\ Later(doc, doc') /\ k <= Len(doc)
      <4>1. el.root \in Nat /\ el.root > k
        BY <1>4, <1>5
      <4> HIDE DEF k, n
      <4> QED BY <1>2, <1>5, <4>1, CutGrows
    <3> QED BY <2>3, <3>1, <3>2, OthersRest
  <2>13. ScopeFiled(doc', work', g)
    <3>1. Lists(doc', X2, Y2, work'.lists)
      BY <2>10 DEF EndsWith
    <3> QED BY <1>3, <3>1, ScopeLists DEF X2, Y2
  <2>14. GradientHome(doc', open', work'.lists["grad"]) /\ TimelineHome(doc', open', work'.lists["timeline"], context')
    BY <2>10 DEF EndsWith
  <2>15. g = scopes'["globals"].from
    BY <2>11
  <2> HIDE DEF g
  <2> QED BY <1>3, <2>11, <2>12, <2>13, <2>14, <2>15 DEF AllFiled, OthersFiled
<1> QED BY <1>6, <1>7 DEF MetadataFiled

LEMMA EndFiled ==
  ASSUME MetadataStructure, MetadataFiled, End
  PROVE  MetadataFiled'
<1>1. Structure /\ FromSound
  BY DEF MetadataStructure, MetadataFiled
<1>2. /\ into' = into /\ doc' = doc /\ into # "none" /\ Len(open) \in Nat /\ Len(open') = Len(open) - 1
      /\ \A i \in 1 .. Len(open') : open'[i] = open[i]
  BY <1>1, EndKeeps
<1>3. context' = context /\ work' = work /\ scopes' = scopes /\ inst' = inst /\ lost' = lost /\ Len(open) > 1
  BY DEF End
<1>4. open'[1] = open[1]
  BY <1>2, <1>3
<1>5. FromSound'
  BY <1>1, <1>2, <1>3, <1>4 DEF FromSound, Parsed
<1>6. ASSUME AllFiled PROVE AllFiled'
  <2>1. GradientHome(doc', open', work'.lists["grad"])
    <3>1. GradientHome(doc, open, work.lists["grad"])
      BY <1>6 DEF AllFiled
    <3> QED BY <1>2, <1>3, <3>1 DEF GradientHome
  <2>2. TimelineHome(doc', open', work'.lists["timeline"], context')
    <3>1. TimelineHome(doc, open, work.lists["timeline"], context)
      BY <1>6 DEF AllFiled
    <3> QED BY <1>2, <1>3, <3>1 DEF TimelineHome
  <2> QED BY <1>2, <1>3, <1>6, <2>1, <2>2 DEF AllFiled
<1> QED BY <1>3, <1>5, <1>6 DEF MetadataFiled

LEMMA FinishFiled ==
  ASSUME MetadataStructure, MetadataFiled, NEW ok, Finish(ok)
  PROVE  MetadataFiled'
<1> DEFINE k == Parsed
           g == scopes["globals"].from
           g2 == scopes'["globals"].from
<1>1. Structure /\ ScopesSound /\ FromSound
  BY DEF MetadataStructure, MetadataFiled
<1>2. /\ into \in Roots /\ into # "none" /\ into' = "none" /\ open' = Nothing /\ doc' = doc /\ inst' = inst
      /\ lost' = lost /\ work' = EmptyScope /\ context' = NoContext
      /\ scopes' = [scopes EXCEPT ![into] = Taken(ok)]
  BY <1>1 DEF Finish, Structure, OpenSound, Nothing
<1>3. scopes \in [Roots -> ScopeSet] /\ scopes'[into] = Taken(ok) /\ \A r \in Roots \ {into} : scopes'[r] = scopes[r]
  BY <1>1, <1>2 DEF ScopesSound
<1>4. Taken(ok) = work \/ (Taken(ok) = scopes["component"] /\ into = "component")
  BY <1>2 DEF Taken, Roots
<1>40. into = "globals" => Taken(ok) = work
  BY DEF Taken
<1>5. /\ k \in Nat /\ k <= Len(doc) /\ Len(doc) \in Nat /\ Cut(doc, k) /\ k = open[1] - 1 /\ open[1] \in Nat
      /\ open[1] \in 1 .. Len(doc) /\ Parsed' = Len(doc)
  <2>1. Parsed' = Len(doc)
    BY <1>2 DEF Parsed
  <2> QED BY <1>1, <1>2, <2>1, CutNow, TopIs
<1>6. /\ \A r \in Roots : scopes[r].from \subseteq 1 .. k
      /\ inst.from \subseteq 1 .. k /\ g \subseteq 1 .. k
      /\ work.from = (IF into = "globals" THEN g ELSE {}) \cup {open[1]}
  BY <1>1, <1>2, RootsIs DEF FromSound, Roots
<1>7. FromSound'
  <2> HIDE DEF k
  <2>1. 1 .. k \subseteq 1 .. Len(doc) /\ work.from \subseteq 1 .. Len(doc)
    BY <1>5, <1>6
  <2>2. \A r \in Roots : scopes'[r].from \subseteq 1 .. Parsed'
    <3> SUFFICES ASSUME NEW r \in Roots PROVE scopes'[r].from \subseteq 1 .. Len(doc)
      BY <1>5
    <3>1. scopes[r].from \subseteq 1 .. Len(doc) /\ scopes["component"].from \subseteq 1 .. Len(doc)
      BY <1>6, <2>1, RootsIs
    <3> QED BY <1>3, <1>4, <2>1, <3>1
  <2>3. inst'.from \subseteq 1 .. Parsed'
    BY <1>2, <1>5, <1>6, <2>1
  <2>4. into' \notin {"component", "globals"}
    BY <1>2
  <2> QED BY <2>2, <2>3, <2>4 DEF FromSound
<1>8. ASSUME AllFiled PROVE AllFiled'
  <2>1. g \subseteq g2 /\ \A r \in g2 \ g : r \in Nat /\ r > k
    <3>1. CASE into = "globals"
      <4>1. g2 = g \cup {open[1]}
        BY <1>3, <1>40, <1>6, <3>1
      <4> QED BY <1>5, <4>1
    <3>2. CASE into # "globals"
      <4>1. g2 = g
        BY <1>3, <3>2, RootsIs
      <4> QED BY <4>1
    <3> QED BY <3>1, <3>2
  <2>2. Later(doc, doc)
    BY <1>1, <1>5 DEF Later, Structure
  <2> HIDE DEF g, g2, k
  <2>20. Later(doc, doc) /\ Cut(doc, k) /\ k <= Len(doc) /\ g \subseteq 1 .. k /\ inst.from \subseteq 1 .. k
    BY <1>5, <1>6, <2>2
  <2>3. ASSUME NEW r \in Roots PROVE ScopeFiled(doc, scopes[r], g2)
    <3>1. ScopeFiled(doc, scopes[r], g) /\ scopes[r].from \subseteq 1 .. k
      BY <1>6, <1>8 DEF AllFiled, g
    <3>2. PICK s : s = scopes[r]
      OBVIOUS
    <3>3. ScopeFiled(doc, s, g) /\ s.from \subseteq 1 .. k
      BY <3>1, <3>2
    <3>4. ScopeFiled(doc, s, g2)
      BY <2>1, <2>20, <3>3, ScopeRests
    <3> QED BY <3>2, <3>4
  <2>4. ScopeFiled(doc, work, g2)
    <3>1. ScopeFiled(doc, work, g)
      BY <1>2, <1>8 DEF AllFiled, g
    <3>2. SeenIn(doc, work.from, g2) = SeenIn(doc, work.from, g)
      <4>1. g2 \subseteq work.from \cup g
        <5>1. CASE into = "globals"
          BY <1>3, <1>40, <5>1 DEF g2
        <5>2. CASE into # "globals"
          BY <1>3, <5>2, RootsIs DEF g, g2
        <5> QED BY <5>1, <5>2
      <4> QED BY <2>1, <4>1 DEF SeenIn, GivenIn
    <3> QED BY <3>1, <3>2, ScopeLists
  <2>5. \A r \in Roots : ScopeFiled(doc', scopes'[r], g2)
    <3> SUFFICES ASSUME NEW r \in Roots PROVE ScopeFiled(doc, scopes'[r], g2)
      BY <1>2
    <3>1. scopes'[r] \in {work, scopes[r]}
      BY <1>3, <1>4
    <3> QED BY <2>3, <2>4, <3>1
  <2>6. InstPlays(doc', inst', g2)
    <3>1. InstPlays(doc, inst, g)
      BY <1>8 DEF AllFiled, g
    <3>2. PICK i : i = inst
      OBVIOUS
    <3>3. InstPlays(doc, i, g) /\ i.from \subseteq 1 .. k
      BY <2>20, <3>1, <3>2
    <3>4. InstPlays(doc, i, g2)
      BY <2>1, <2>20, <3>3, InstRests
    <3> QED BY <1>2, <3>2, <3>4
  <2>7. Len(open') = 0
    BY <1>2 DEF Nothing
  <2>8. GradientHome(doc', open', work'.lists["grad"]) /\ TimelineHome(doc', open', work'.lists["timeline"], context')
    BY <2>7 DEF GradientHome, TimelineHome
  <2> QED BY <1>2, <2>5, <2>6, <2>8 DEF AllFiled, g2
<1> QED BY <1>2, <1>7, <1>8 DEF MetadataFiled

LEMMA CallFiled ==
  ASSUME MetadataStructure, MetadataFiled, NEW fn \in Calls, NEW s \in Roots, NEW m \in Names, Call(fn, s, m)
  PROVE  MetadataFiled'
<1> DEFINE n == Len(doc)
           e == n + 1
           el == CallElement(fn, m, n + 1)
           old == scopes[s]
           new == scopes'[s]
           g == scopes["globals"].from
           g2 == scopes'["globals"].from
           kind == IF fn = "event" THEN "event" ELSE "const"
           list == old.lists[kind]
           l == IF fn = "set_const" THEN PutLast(list, m, e) ELSE Put(kind, list, m, e)
           t == [old EXCEPT !.lists[kind] = l]
           u == [t EXCEPT !.from = @ \cup {e}]
<1>1. Structure /\ ScopesSound /\ FromSound
  BY DEF MetadataStructure, MetadataFiled
<1>2. Extends(doc, doc', n, el) /\ n \in Nat
  <2>1. n \in Nat
    BY <1>1, CallKeeps
  <2>2. el \in ElementSet
    BY <2>1 DEF CallElement, ElementSet
  <2> QED BY <1>1, <2>1, <2>2, CallKeeps DEF Extends
<1>3. el.root = n + 1 /\ el.tag = fn /\ el.name = m /\ el.ok = TRUE
  BY DEF CallElement
<1>4. /\ into = "none" /\ into' = into /\ open' = open /\ inst' = inst /\ lost' = lost /\ context' = context
      /\ work' = work /\ scopes' = [scopes EXCEPT ![s] = u]
  BY DEF Call
<1>5. scopes \in [Roots -> ScopeSet] /\ old \in ScopeSet
  BY <1>1 DEF ScopesSound
<1>6. kind \in Kinds /\ (fn = "set_const" => kind = "const") /\ (fn # "set_const" => fn \in TagsOf(kind) /\ fn # "set_const")
      /\ fn \in TagsOf(kind) /\ kind # "timeline"
  BY DEF Kinds, TagsOf, Calls
<1> HIDE DEF el, kind
<1>7. list \in Seq(RecordSet) /\ e \in Nat
  BY <1>2, <1>5, <1>6, ScopeIs
<1>8. l \in Seq(RecordSet)
  <2>1. Longer(kind, list, Put(kind, list, m, e))
    BY <1>6, <1>7, PutLonger
  <2>2. fn = "set_const" => Longer(kind, list, PutLast(list, m, e))
    <3>1. fn = "set_const" => kind \notin {"prop", "grad", "style"}
      BY <1>6
    <3> QED BY <1>7, <3>1, LastLonger
  <2> QED BY <2>1, <2>2 DEF Longer
<1> HIDE DEF l
<1>9. Changed(old, t, kind, l)
  BY <1>5, <1>6, <1>8, ChangedIs
<1> HIDE DEF t
<1>10. u.lists = t.lists /\ u.from = old.from \cup {e} /\ u \in ScopeSet
  <2>1. t \in ScopeSet /\ t.from = old.from
    BY <1>9 DEF Changed
  <2> QED BY <1>7, <2>1, FromIs
<1> HIDE DEF u
<1>11. new = u /\ \A r \in Roots : r # s => scopes'[r] = scopes[r]
  BY <1>4, <1>5, <1>10
<1>12. Parsed = n /\ Parsed' = e /\ Len(open') = 0
  <2>1. Len(doc') = e /\ Len(open) = 0
    BY <1>1, <1>2, <1>4 DEF Extends, Structure, OpenSound
  <2> QED BY <1>4, <2>1 DEF Parsed
<1>13. (\A r \in Roots : scopes[r].from \subseteq 1 .. n) /\ inst.from \subseteq 1 .. n /\ g \subseteq 1 .. n
  BY <1>1, <1>12, RootsIs DEF FromSound
<1>14. FromSound'
  <2>1. 1 .. n \subseteq 1 .. e /\ e \in 1 .. e
    BY <1>2
  <2>2. \A r \in Roots : scopes'[r].from \subseteq 1 .. Parsed'
    BY <1>10, <1>11, <1>12, <1>13, <2>1
  <2>3. inst'.from \subseteq 1 .. Parsed'
    BY <1>4, <1>12, <1>13, <2>1
  <2> QED BY <1>4, <2>2, <2>3 DEF FromSound
<1>15. ASSUME AllFiled PROVE AllFiled'
  <2>1. g2 \in {g, g \cup {e}} /\ (s = "globals" => g2 = g \cup {e})
    BY <1>10, <1>11, RootsIs
  <2>2. g \subseteq g2 /\ \A r \in g2 \ g : r \in Nat /\ r > n
    BY <1>2, <2>1
  <2>3. Cut(doc', n) /\ Later(doc, doc') /\ n <= Len(doc)
    <3>1. Cut(doc, n) /\ n <= n
      BY <1>1, <1>2, <1>12, CutNow
    <3>2. el.root \in Nat /\ el.root > n
      BY <1>2, <1>3
    <3> HIDE DEF n
    <3> QED BY <1>2, <3>1, <3>2, CutGrows
  <2>4. Lists(doc', GivenIn(doc', new.from), SeenIn(doc', new.from, g2), t.lists)
    <3>1. PICK from, from2 : from = old.from /\ from2 = new.from /\ from2 = from \cup {n + 1}
      BY <1>10, <1>11
    <3>2. Grown(doc, doc', n, el, GivenIn(doc, from), GivenIn(doc', from2), SeenIn(doc, from, g),
                SeenIn(doc', from2, g2))
      BY <1>2, <1>3, <1>13, <2>1, <3>1, GrownBegins
    <3>3. Lists(doc, GivenIn(doc, from), SeenIn(doc, from, g), old.lists)
      <4>1. ScopeFiled(doc, old, g)
        BY <1>15 DEF AllFiled
      <4> QED BY <3>1, <4>1, ScopeLists
    <3>4. OfKind(el, kind) /\ el.name \in Names
      BY <1>3, <1>6 DEF OfKind
    <3>5. PICK X, X2, Y, Y2 : /\ X = GivenIn(doc, from) /\ X2 = GivenIn(doc', from2)
                              /\ Y = SeenIn(doc, from, g) /\ Y2 = SeenIn(doc', from2, g2)
      OBVIOUS
    <3>6. Grown(doc, doc', n, el, X, X2, Y, Y2) /\ Lists(doc, X, Y, old.lists)
      BY <3>2, <3>3, <3>5
    <3>7. Lists(doc', X2, Y2, t.lists)
      <4>1. PICK k \in Kinds : k = kind
        BY <1>6
      <4>2. PICK d, o : d = n + 1 /\ o = old
        OBVIOUS
      <4>20. Lists(doc, X, Y, o.lists)
        BY <3>6, <4>2
      <4> HIDE DEF n
      <4>3. CASE fn = "set_const"
        <5>1. k = "const" /\ Changed(o, t, k, PutLast(o.lists[k], el.name, d)) /\ el.tag = "set_const"
              /\ OfKind(el, k)
          BY <1>3, <1>6, <1>9, <3>4, <4>1, <4>2, <4>3 DEF l
        <5> QED BY <3>4, <3>6, <4>2, <4>20, <5>1, ListsSet
      <4>4. CASE fn # "set_const"
        <5>1. k # "timeline" /\ Changed(o, t, k, Put(k, o.lists[k], el.name, d)) /\ el.tag # "set_const"
              /\ OfKind(el, k)
          BY <1>3, <1>6, <1>9, <3>4, <4>1, <4>2, <4>4 DEF l
        <5> QED BY <3>4, <3>6, <4>2, <4>20, <5>1, ListsPut
      <4> QED BY <4>3, <4>4
    <3> QED BY <3>1, <3>5, <3>7
  <2>5. ScopeFiled(doc', new, g2)
    BY <1>10, <1>11, <2>4, ScopeLists
  <2>6. ASSUME NEW r \in Roots, r # s PROVE ScopeFiled(doc', scopes'[r], g2)
    <3>1. PICK x : x = scopes[r]
      OBVIOUS
    <3>2. ScopeFiled(doc, x, g) /\ x.from \subseteq 1 .. n
      BY <1>13, <1>15, <3>1 DEF AllFiled
    <3> HIDE DEF n, g, g2
    <3>3. ScopeFiled(doc', x, g2)
      BY <1>13, <2>2, <2>3, <3>2, ScopeRests
    <3> QED BY <1>11, <2>6, <3>1, <3>3
  <2>7. InstPlays(doc', inst', g2)
    <3>1. PICK i : i = inst
      OBVIOUS
    <3>2. InstPlays(doc, i, g) /\ i.from \subseteq 1 .. n
      BY <1>13, <1>15, <3>1 DEF AllFiled
    <3> HIDE DEF n, g, g2
    <3>3. InstPlays(doc', i, g2)
      BY <1>13, <2>2, <2>3, <3>2, InstRests
    <3> QED BY <1>4, <3>1, <3>3
  <2>8. GradientHome(doc', open', work'.lists["grad"]) /\ TimelineHome(doc', open', work'.lists["timeline"], context')
    BY <1>12 DEF GradientHome, TimelineHome
  <2> HIDE DEF g2
  <2> QED BY <1>4, <2>5, <2>6, <2>7, <2>8 DEF AllFiled, g2
<1> QED BY <1>4, <1>14, <1>15 DEF MetadataFiled

\* A declaration has a name.
LEMMA DeclaredNamed ==
  ASSUME NEW D, DocSound(D), NEW kind \in Kinds, NEW e \in 1 .. Len(D), D[e].tag \in TagsOf(kind)
  PROVE  D[e].name \in Names
<1>1. D[e].tag \notin Roots /\ D[e].tag \notin Unnamed
  BY DEF TagsOf, Kinds, Roots, Unnamed, Blocks
<1>2. D[e] \in ElementSet
  BY DEF DocSound
<1>3. D[e].name \in Names \cup {NoName}
  BY <1>2 DEF ElementSet
<1>4. CASE D[e].up = 0
  <2>1. D[e].tag \in Calls
    BY <1>1, <1>4 DEF DocSound
  <2> QED BY <2>1 DEF DocSound
<1>5. CASE D[e].up # 0
  <2>1. D[e].name # NoName
    BY <1>1, <1>5 DEF DocSound
  <2> QED BY <1>3, <2>1
<1> QED BY <1>4, <1>5

\* The names of a list are those that are declared.
LEMMA FilesNames ==
  ASSUME NEW D, DocSound(D), NEW X, X \subseteq 1 .. Len(D), NEW Y, NEW kind \in Kinds, NEW list,
         Files(D, X, Y, kind, list)
  PROVE  /\ \A i \in 1 .. Len(list) : \E e \in DeclaredIn(D, X, kind) : D[e].name = list[i].name
         /\ \A e \in DeclaredIn(D, X, kind) : D[e].name \in Names /\ Has(list, D[e].name)
<1>1. Bounded(X)
  <2>1. Len(D) \in Nat
    BY DEF DocSound
  <2> QED BY <2>1 DEF Bounded
<1>2. \A i \in 1 .. Len(list) : \E e \in DeclaredIn(D, X, kind) : D[e].name = list[i].name
  <2> TAKE i \in 1 .. Len(list)
  <2>1. list[i].by \in DeclaredIn(D, X, kind) /\ D[list[i].by].name = list[i].name
    BY <1>1, FilesBy
  <2> QED BY <2>1
<1>3. ASSUME NEW e \in DeclaredIn(D, X, kind) PROVE D[e].name \in Names /\ Has(list, D[e].name)
  <2>1. D[e].name \in Names
    BY DeclaredNamed DEF DeclaredIn
  <2>2. NamedIn(D, X, kind, D[e].name) # {}
    BY DEF NamedIn
  <2> QED BY <2>1, <2>2 DEF Files
<1> QED BY <1>2, <1>3

LEMMA InstantiateFiled ==
  ASSUME MetadataStructure, MetadataFiled, NEW found, Instantiate(found)
  PROVE  MetadataFiled'
<1> DEFINE s == scopes["component"]
           list == s.lists["timeline"]
           g == scopes["globals"].from
           n == Len(doc)
<1>1. Structure /\ ScopesSound /\ FromSound
  BY DEF MetadataStructure, MetadataFiled
<1>2. /\ doc' = doc /\ open' = open /\ into' = into /\ context' = context /\ work' = work /\ scopes' = scopes
      /\ lost' = lost
      /\ inst' = [from |-> s.from, found |-> found,
                  lines |-> [i \in 1 .. Len(list) |->
                               [name |-> list[i].name, plays |-> Plays(list[i].parts, found)]]]
  BY DEF Instantiate
<1>3. FromSound'
  <2>1. inst'.from = s.from /\ Parsed' = Parsed
    BY <1>2 DEF Parsed
  <2> QED BY <1>1, <1>2, <2>1, RootsIs DEF FromSound
<1>4. ASSUME AllFiled PROVE AllFiled'
  <2> DEFINE X == GivenIn(doc, s.from)
             Y == SeenIn(doc, s.from, g)
  <2>1. Files(doc, X, Y, "timeline", list)
    <3>1. ScopeFiled(doc, s, g)
      BY <1>4, RootsIs DEF AllFiled
    <3>2. Filed(doc, X, Y, "timeline", list)
      BY <3>1 DEF ScopeFiled, ListFiled, Kinds
    <3> QED BY <3>2 DEF Filed
  <2>2. X \subseteq 1 .. n /\ DocSound(doc) /\ n \in Nat /\ list \in Seq(RecordSet)
    BY <1>1, <2>1 DEF GivenIn, Structure, DocSound, Files
  <2>3. PICK lines : /\ lines = inst'.lines /\ inst'.from = s.from /\ inst'.found = found
                     /\ lines = [i \in 1 .. Len(list) |->
                                   [name |-> list[i].name, plays |-> Plays(list[i].parts, found)]]
    BY <1>2
  <2> HIDE DEF X, Y, list
  <2>4. /\ Len(lines) = Len(list)
        /\ \A i \in 1 .. Len(lines) : lines[i].name = list[i].name /\ lines[i].plays = Plays(list[i].parts, found)
    BY <2>2, <2>3
  <2>5. ASSUME NEW i \in 1 .. Len(lines) PROVE LinePlays(doc, X, Y, found, lines[i])
    <3>1. RecordSound(doc, X, Y, "timeline", list[i])
      BY <2>1, <2>4 DEF Files
    <3>2. PICK P : P = PartsIn(doc, X, Y, "timeline", list[i].name, ValuedIn(doc, X, "timeline", list[i].name))
      OBVIOUS
    <3>3. list[i].parts = Ordered(P, n)
      BY <3>1, <3>2 DEF RecordSound
    <3>4. Plays(list[i].parts, found) = Ordered(P \cap found, n)
      BY <2>2, <3>3, OrderedPlays
    <3> QED BY <2>4, <3>2, <3>4 DEF LinePlays
  <2>6. {lines[i].name : i \in 1 .. Len(lines)} = {doc[e].name : e \in DeclaredIn(doc, X, "timeline")}
    <3>0. PICK kind \in Kinds : kind = "timeline"
      BY DEF Kinds
    <3>00. Files(doc, X, Y, kind, list) /\ X \subseteq 1 .. Len(doc)
      BY <2>1, <2>2, <3>0
    <3>01. /\ \A i \in 1 .. Len(list) : \E e \in DeclaredIn(doc, X, kind) : doc[e].name = list[i].name
           /\ \A e \in DeclaredIn(doc, X, kind) : doc[e].name \in Names /\ Has(list, doc[e].name)
      BY <2>2, <3>00, FilesNames
    <3>1. /\ \A i \in 1 .. Len(list) : \E e \in DeclaredIn(doc, X, "timeline") : doc[e].name = list[i].name
          /\ \A e \in DeclaredIn(doc, X, "timeline") : Has(list, doc[e].name)
      BY <3>0, <3>01
    <3>2. \A e \in DeclaredIn(doc, X, "timeline") : \E i \in 1 .. Len(lines) : lines[i].name = doc[e].name
      BY <2>4, <3>1 DEF Has
    <3>3. \A i \in 1 .. Len(lines) : \E e \in DeclaredIn(doc, X, "timeline") : doc[e].name = lines[i].name
      BY <2>4, <3>1
    <3> QED BY <3>2, <3>3
  <2>7. LinesPlay(doc, X, Y, found, lines)
    BY <2>5, <2>6 DEF LinesPlay
  <2>8. InstPlays(doc', inst', scopes'["globals"].from)
    BY <1>2, <2>3, <2>7 DEF InstPlays, X, Y
  <2> QED BY <1>2, <1>4, <2>8 DEF AllFiled
<1> QED BY <1>2, <1>3, <1>4 DEF MetadataFiled

LEMMA FiledStays ==
  ASSUME MetadataFiled, UNCHANGED metadataVars PROVE MetadataFiled'
<1>1. /\ doc' = doc /\ open' = open /\ into' = into /\ context' = context /\ work' = work /\ scopes' = scopes
      /\ lost' = lost /\ inst' = inst
  BY DEF metadataVars
<1>2. FromSound'
  BY <1>1 DEF MetadataFiled, FromSound, Parsed
<1>3. AllFiled => AllFiled'
  BY <1>1 DEF AllFiled
<1> QED BY <1>1, <1>2, <1>3 DEF MetadataFiled

LEMMA FiledKeeps ==
  ASSUME MetadataStructure, MetadataFiled, [MetadataNext]_metadataVars PROVE MetadataFiled'
<1>1. CASE \E root \in Roots : Begin(root)
  BY <1>1, BeginFiled
<1>2. CASE into # "none" /\ \E el \in NextTags, oom \in BOOLEAN : Start(el, oom)
  BY <1>2, StartFiled
<1>3. CASE End
  BY <1>3, EndFiled
<1>4. CASE \E ok \in BOOLEAN : Finish(ok)
  BY <1>4, FinishFiled
<1>5. CASE \E fn \in Calls, s \in Roots, n \in Names : Call(fn, s, n)
  BY <1>5, CallFiled
<1>6. CASE \E found \in SUBSET Timed(scopes["component"]) : Instantiate(found)
  BY <1>6, InstantiateFiled
<1>7. CASE UNCHANGED metadataVars
  BY <1>7, FiledStays
<1> QED BY <1>1, <1>2, <1>3, <1>4, <1>5, <1>6, <1>7 DEF MetadataNext

\* As long as no record was lost and no timeline is declared again, the lists of every scope
\* are exactly what the documents and calls given to it declare: what the handlers of the
\* metadata parser have filed one tag at a time, knowing a section and a pointer.
THEOREM AlwaysFiled == MetadataSpec => []MetadataFiled
<1>1. MetadataInit => MetadataFiled
  BY FiledStarts
<1>2. MetadataStructure /\ MetadataFiled /\ [MetadataNext]_metadataVars => MetadataFiled'
  BY FiledKeeps
<1> QED BY <1>1, <1>2, MetadataStructured, PTL DEF MetadataSpec

-----------------------------------------------------------------------------
(* What the lists hold is what the properties say of them.                 *)

LEMMA KindIs ==
  ASSUME Structure, NEW e \in 1 .. Len(doc), NEW kind \in Kinds
  PROVE  IsKind(e, kind) <=> doc[e].tag \in TagsOf(kind)
<1>1. CASE doc[e].up = 0
  <2>1. doc[e].tag \in Roots \cup Calls
    BY <1>1 DEF Structure, DocSound
  <2>2. UpTag(e) = ""
    BY <1>1 DEF UpTag
  <2> QED BY <2>1, <2>2 DEF IsKind, TagsOf, Kinds, Roots, Calls
<1>2. CASE doc[e].up # 0
  <2>1. PICK up, tag : up = doc[doc[e].up].tag /\ tag = doc[e].tag /\ tag \in Allowed(up)
    BY <1>2 DEF Structure, DocSound
  <2>2. UpTag(e) = up
    BY <1>2, <2>1 DEF UpTag
  <2>3. tag \notin Calls
    BY <2>1, TagsApart
  <2>4. /\ tag = "prop" => up = "api"
        /\ up = "consts" <=> tag = "const"
        /\ up = "gradients" <=> tag = "grad"
        /\ up = "styles" <=> tag = "style"
        /\ up = "images" <=> tag = "file"
        /\ up = "fonts" <=> tag = "bin"
        /\ up = "subjects" <=> tag = "subject"
    BY <2>1, AllowedIs
  <2> QED BY <2>1, <2>2, <2>3, <2>4 DEF IsKind, TagsOf, Kinds, Calls
<1> QED BY <1>1, <1>2

LEMMA SaidIs ==
  ASSUME Structure, NEW s, NEW kind \in Kinds, NEW n, NEW e
  PROVE  LET X == GivenIn(doc, s.from)
             Y == SeenIn(doc, s.from, scopes["globals"].from)
         IN  /\ Given(s) = X /\ Declared(s, kind) = DeclaredIn(doc, X, kind)
             /\ DeclaredAs(s, kind, n) = NamedIn(doc, X, kind, n)
             /\ Valued(s, kind, n) = ValuedIn(doc, X, kind, n)
             /\ Belonging(s, kind, n, e) = PartsIn(doc, X, Y, kind, n, e)
             /\ X \subseteq 1 .. Len(doc)
<1> DEFINE X == GivenIn(doc, s.from)
           Y == SeenIn(doc, s.from, scopes["globals"].from)
<1>1. Given(s) = X /\ X \subseteq 1 .. Len(doc)
  BY DEF Given, GivenIn
<1>2. Given(s) \cup Given(scopes["globals"]) = Y /\ Y \subseteq 1 .. Len(doc)
  BY DEF Given, SeenIn, GivenIn
<1> HIDE DEF X, Y
<1>3. "style" \in Kinds /\ "const" \in Kinds
  BY DEF Kinds
<1>4. /\ Declared(s, kind) = DeclaredIn(doc, X, kind)
      /\ Declared(s, "style") = DeclaredIn(doc, X, "style")
  BY <1>1, <1>3, KindIs DEF Declared, DeclaredIn
<1>5. /\ DeclaredAs(s, kind, n) = NamedIn(doc, X, kind, n)
      /\ DeclaredAs(s, "style", n) = NamedIn(doc, X, "style", n)
  BY <1>4 DEF DeclaredAs, NamedIn
<1>6. Valued(s, kind, n) = ValuedIn(doc, X, kind, n)
  BY <1>5 DEF Valued, ValuedIn, SetIn
<1>7. Belonging(s, kind, n, e) = PartsIn(doc, X, Y, kind, n, e)
  <2>1. CASE kind = "style"
    BY <1>5, <2>1 DEF Belonging, PartsIn
  <2>2. CASE kind = "grad"
    BY <1>1, <2>2 DEF Belonging, PartsIn
  <2>3. CASE kind = "timeline"
    <3>1. ASSUME NEW d \in X
          PROVE  Known(doc, Y, d) <=>
                   \/ doc[d].ref = NoName
                   \/ \E c \in Given(s) \cup Given(scopes["globals"]) :
                        c < d /\ IsKind(c, "const") /\ doc[c].ok /\ doc[c].name = doc[d].ref
      <4>1. \A c \in Y : IsKind(c, "const") <=> doc[c].tag \in TagsOf("const")
        BY <1>2, <1>3, KindIs
      <4> QED BY <1>2, <4>1 DEF Known
    <3>2. Belonging(s, kind, n, e) =
            {d \in Given(s) : /\ doc[d].up = e /\ doc[d].ok
                              /\ doc[d].ref = NoName
                                   \/ \E c \in Given(s) \cup Given(scopes["globals"]) :
                                        c < d /\ IsKind(c, "const") /\ doc[c].ok /\ doc[c].name = doc[d].ref}
      BY <2>3 DEF Belonging
    <3>3. PartsIn(doc, X, Y, kind, n, e) = {d \in X : doc[d].up = e /\ doc[d].ok /\ Known(doc, Y, d)}
      BY <2>3 DEF PartsIn
    <3> QED BY <1>1, <3>1, <3>2, <3>3
  <2>4. CASE kind \notin {"style", "grad", "timeline"}
    BY <2>4 DEF Belonging, PartsIn
  <2> QED BY <2>1, <2>2, <2>3, <2>4
<1> QED BY <1>1, <1>4, <1>5, <1>6, <1>7 DEF X, Y

\* A list without two records of a name has as many as there are names.
LEMMA NamesCounted ==
  ASSUME NEW list, Len(list) \in Nat, NEW names, \A i \in 1 .. Len(list) : list[i].name \in names,
         \A n \in names : Has(list, n),
         \A i, j \in 1 .. Len(list) : list[i].name = list[j].name => i = j
  PROVE  Len(list) = Cardinality(names)
<1> DEFINE f == [i \in 1 .. Len(list) |-> list[i].name]
<1>1. f \in [1 .. Len(list) -> names]
  OBVIOUS
<1>2. \A i, j \in 1 .. Len(list) : f[i] = f[j] => i = j
  OBVIOUS
<1>3. \A n \in names : \E i \in 1 .. Len(list) : f[i] = n
  BY DEF Has
<1> HIDE DEF f
<1>4. f \in Bijection(1 .. Len(list), names)
  BY <1>1, <1>2, <1>3 DEF Bijection, Injection, Surjection, IsInjective
<1>5. ExistsBijection(1 .. Len(list), names)
  BY <1>4 DEF ExistsBijection
<1> QED BY <1>5, FS_CountingElements

LEMMA FiledMatches ==
  ASSUME Structure, NEW s, ScopeFiled(doc, s, scopes["globals"].from)
  PROVE  Matches(s)
<1> DEFINE X == GivenIn(doc, s.from)
           Y == SeenIn(doc, s.from, scopes["globals"].from)
<1> SUFFICES ASSUME NEW kind \in Kinds
             PROVE  LET list == s.lists[kind]
                        names == {doc[e].name : e \in Declared(s, kind)}
                        recs == {list[i] : i \in 1 .. Len(list)}
                    IN  IF kind \in {"prop", "grad"}
                        THEN [i \in 1 .. Len(list) |-> list[i].by] = InOrder(Declared(s, kind))
                             /\ \A r \in recs : r.parts = Kept(kind, InOrder(Belonging(s, kind, r.name, r.by)))
                        ELSE Len(list) = Cardinality(names)
                             /\ \A n \in names : \E r \in recs :
                                  /\ r.name = n /\ r.by = Valued(s, kind, n)
                                  /\ r.parts = InOrder(Belonging(s, kind, n, r.by))
  BY DEF Matches
<1> DEFINE list == s.lists[kind]
           names == {doc[e].name : e \in Declared(s, kind)}
           recs == {list[i] : i \in 1 .. Len(list)}
<1>1. Filed(doc, X, Y, kind, list)
  BY DEF ScopeFiled, ListFiled
<1>2. /\ Declared(s, kind) = DeclaredIn(doc, X, kind) /\ X \subseteq 1 .. Len(doc)
      /\ \A n : Valued(s, kind, n) = ValuedIn(doc, X, kind, n)
      /\ \A n, e : Belonging(s, kind, n, e) = PartsIn(doc, X, Y, kind, n, e)
  BY SaidIs
<1>3. DocSound(doc) /\ Len(doc) \in Nat
  BY DEF Structure, DocSound
<1> HIDE DEF X, Y
<1>4. CASE kind \in {"prop", "grad"}
  <2>1. Rows(doc, X, Y, kind, list)
    BY <1>1, <1>4 DEF Filed
  <2>2. PICK o : o = InOrder(Declared(s, kind)) /\ o = Ordered(DeclaredIn(doc, X, kind), Len(doc))
    BY <1>2 DEF InOrder
  <2>3. o \in Seq(Nat) /\ Len(list) = Len(o) /\ Len(o) \in Nat /\ \A i \in 1 .. Len(list) : list[i].by = o[i]
    <3>1. o \in Seq(Nat)
      BY <1>3, <2>2, OrderedOf
    <3> QED BY <2>1, <2>2, <3>1 DEF Rows
  <2>4. [i \in 1 .. Len(list) |-> list[i].by] = o
    BY <2>3
  <2>5. \A r \in recs : r.parts = Kept(kind, InOrder(Belonging(s, kind, r.name, r.by)))
    BY <1>2, <2>1 DEF Rows, InOrder
  <2> QED BY <1>4, <2>2, <2>4, <2>5
<1>5. CASE kind \notin {"prop", "grad"}
  <2>1. Files(doc, X, Y, kind, list) /\ Len(list) \in Nat
    BY <1>1, <1>5 DEF Filed, Files
  <2>2. /\ \A i \in 1 .. Len(list) : \E e \in DeclaredIn(doc, X, kind) : doc[e].name = list[i].name
        /\ \A e \in DeclaredIn(doc, X, kind) : doc[e].name \in Names /\ Has(list, doc[e].name)
    BY <1>2, <1>3, <2>1, FilesNames
  <2>3. (\A i \in 1 .. Len(list) : list[i].name \in names) /\ \A n \in names : Has(list, n)
    BY <1>2, <2>2
  <2>4. Len(list) = Cardinality(names)
    <3>1. \A i, j \in 1 .. Len(list) : list[i].name = list[j].name => i = j
      BY <2>1 DEF Files
    <3> HIDE DEF list, names
    <3> QED BY <2>1, <2>3, <3>1, NamesCounted
  <2>5. ASSUME NEW n \in names
        PROVE  \E r \in recs : /\ r.name = n /\ r.by = Valued(s, kind, n)
                               /\ r.parts = InOrder(Belonging(s, kind, n, r.by))
    <3>1. PICK i \in 1 .. Len(list) : list[i].name = n
      BY <2>3 DEF Has
    <3>2. RecordSound(doc, X, Y, kind, list[i])
      BY <2>1 DEF Files
    <3>3. list[i] \in recs
      OBVIOUS
    <3>4. list[i].by = Valued(s, kind, n) /\ list[i].parts = InOrder(Belonging(s, kind, n, list[i].by))
      BY <1>2, <3>1, <3>2 DEF RecordSound, InOrder
    <3> QED BY <3>1, <3>3, <3>4
  <2> QED BY <1>5, <2>4, <2>5
<1> QED BY <1>4, <1>5

LEMMA FiledInstances ==
  ASSUME Structure, InstPlays(doc, inst, scopes["globals"].from)
  PROVE  InstancesPlayDeclared
<1>1. PICK s : s = [EmptyScope EXCEPT !.from = inst.from]
  OBVIOUS
<1>2. s.from = inst.from
  BY <1>1, ScopeIs DEF EmptyScope
<1> DEFINE X == GivenIn(doc, s.from)
           Y == SeenIn(doc, s.from, scopes["globals"].from)
<1>3. "timeline" \in Kinds
  BY DEF Kinds
<1>4. /\ Declared(s, "timeline") = DeclaredIn(doc, X, "timeline")
      /\ \A n : Valued(s, "timeline", n) = ValuedIn(doc, X, "timeline", n)
      /\ \A n, e : Belonging(s, "timeline", n, e) = PartsIn(doc, X, Y, "timeline", n, e)
  BY <1>3, SaidIs
<1>5. LinesPlay(doc, X, Y, inst.found, inst.lines)
  BY <1>2 DEF InstPlays
<1> HIDE DEF X, Y
<1>6. {inst.lines[i].name : i \in 1 .. Len(inst.lines)} = {doc[e].name : e \in Declared(s, "timeline")}
  BY <1>4, <1>5 DEF LinesPlay
<1>7. ASSUME NEW i \in 1 .. Len(inst.lines)
      PROVE  inst.lines[i].plays =
               InOrder(Belonging(s, "timeline", inst.lines[i].name, Valued(s, "timeline", inst.lines[i].name))
                         \cap inst.found)
  <2>1. LinePlays(doc, X, Y, inst.found, inst.lines[i])
    BY <1>5 DEF LinesPlay
  <2> QED BY <1>4, <2>1 DEF LinePlays, InOrder
<1> QED BY <1>1, <1>6, <1>7 DEF InstancesPlayDeclared

\* The properties say what the lists are with operators of the model; the invariant with
\* those of this module.
LEMMA FiledSays ==
  ASSUME MetadataStructure, MetadataFiled, "latch" \notin Mishaps
  PROVE  MetadataMatches /\ InstancesPlayDeclared
<1>1. Structure /\ (lost = {} => AllFiled)
  BY DEF MetadataStructure, MetadataFiled
<1>2. MetadataMatches
  BY <1>1, FiledMatches DEF AllFiled, MetadataMatches
<1>3. InstancesPlayDeclared
  <2>1. CASE lost = {}
    BY <1>1, <2>1, FiledInstances DEF AllFiled
  <2>2. CASE lost # {}
    BY <2>2 DEF InstancesPlayDeclared
  <2> QED BY <2>1, <2>2
<1> QED BY <1>2, <1>3

\* start_metadata_handler(), lv_xml_register_component_from_data(), lv_xml_set_const() and
\* the others: a scope, the one under way included, holds exactly what its documents and
\* calls declare, whatever breaks off or lacks an attribute, if no timeline is declared
\* again or without a name.
THEOREM ScopesAlwaysMatch ==
  ASSUME "latch" \notin Mishaps
  PROVE  MetadataSpec => []MetadataMatches
<1>1. MetadataStructure /\ MetadataFiled => MetadataMatches
  BY FiledSays
<1> QED BY <1>1, MetadataStructured, AlwaysFiled, PTL

\* create_timeline_instances(): an instance has one timeline for each name its component
\* declares, and it plays the animations and includes of that name, in their order, as far
\* as their targets exist.
THEOREM InstancesAlwaysPlay ==
  ASSUME "latch" \notin Mishaps
  PROVE  MetadataSpec => []InstancesPlayDeclared
<1>1. MetadataStructure /\ MetadataFiled => InstancesPlayDeclared
  BY FiledSays
<1> QED BY <1>1, MetadataStructured, AlwaysFiled, PTL
-----------------------------------------------------------------------------
(* Theming.                                                                *)

\* The initial states satisfy the invariant.
LEMMA InitIInv == Init => IInv
<1> SUFFICES ASSUME Init PROVE IInv
  OBVIOUS
<1> USE ThemingAssumption DEF Init
<1>1. TypeOK
  BY DEF TypeOK, NoColors, Unwritten, NoTransition, Settled, StyleRecords, ObjRecords,
         Written, Owners, Motions
<1>2. Registered = {}
  BY DEF Registered
<1>3. IndexSound
  BY <1>2, FS_EmptySet DEF IndexSound
<1>4. ViewSound
  BY <1>2 DEF ViewSound, Settled
<1>5. \A o \in Owners : StyleSound(style[o])
  BY DEF StyleSound, NoColors, Unwritten
<1>6. ObjSound(obj)
  BY DEF ObjSound, NoColors, Unwritten
<1>7. MotionSound
  BY DEF MotionSound, MotionAsWritten, Scaled, NoTransition
<1> QED BY <1>1, <1>3, <1>4, <1>5, <1>6, <1>7 DEF IInv
-----------------------------------------------------------------------------
(* Constants, and the document of the globals.                             *)

\* A constant is registered once, and its index keeps room for as many again.
LEMMA RegisterConstStep ==
  ASSUME IInv, NEW n \in Consts, NEW c \in Colors, NEW oom \in BOOLEAN,
         RegisterConst(n, c, oom)
  PROVE  IInv'
<1> USE ThemingAssumption DEF IInv
<1>1. /\ value[n] = None /\ value' = [value EXCEPT ![n] = c]
      /\ index' = Inserted(oom) /\ view' = ViewAfter(index')
      /\ UNCHANGED <<part, own, style, obj, fresh, scale, trans>>
  BY DEF RegisterConst
<1>2. value' \in [Consts -> Colors \cup {None}]
  BY <1>1 DEF TypeOK
<1>3. Registered' = Registered \cup {n} /\ n \notin Registered
  BY <1>1 DEF TypeOK, Registered
<1>4. \A m \in Registered : value'[m] = value[m]
  BY <1>1, <1>3 DEF TypeOK, Registered
<1>5. /\ Cardinality(Registered) \in Nat /\ IsFiniteSet(Registered')
      /\ Cardinality(Registered') = Cardinality(Registered) + 1
  BY <1>3, FS_AddElement, FS_CardinalityType DEF IndexSound
<1>6. index' \in [cap : Nat, failed : BOOLEAN]
  BY <1>1 DEF TypeOK, Inserted
<1>7. view' \in [kind : {"settled", "list", "empty", "shared", "freed"}, base : SUBSET Consts]
  BY <1>1 DEF TypeOK, ViewAfter
<1>8. TypeOK'
  BY <1>1, <1>2, <1>6, <1>7 DEF TypeOK
<1>9. IndexSound'
  <2>1. CASE index.failed
    BY <1>1, <1>5, <2>1 DEF IndexSound, Inserted
  <2>2. CASE ~index.failed /\ ~Crowded
    BY <1>1, <1>5, <2>2 DEF IndexSound, Inserted, Crowded, TypeOK
  <2>3. CASE ~index.failed /\ Crowded /\ oom
    BY <1>1, <1>5, <2>3 DEF IndexSound, Inserted
  <2>4. CASE ~index.failed /\ Crowded /\ ~oom
    <3>1. index' = [index EXCEPT !.cap = IF @ = 0 THEN FirstCap ELSE 2 * @]
      BY <1>1, <2>4 DEF Inserted
    <3>2. index.cap \in Nat /\ Cardinality(Registered) * 2 <= index.cap
      BY <2>4 DEF IndexSound, TypeOK
    <3>3. index'.cap = IF index.cap = 0 THEN FirstCap ELSE 2 * index.cap
      BY <3>1 DEF TypeOK
    <3>4. (Cardinality(Registered) + 1) * 2 <= index'.cap
      BY <1>5, <3>2, <3>3
    <3> QED BY <1>5, <3>4 DEF IndexSound
  <2> QED BY <2>1, <2>2, <2>3, <2>4
<1>10. ViewSound'
  <2>1. /\ view'.base = view.base
        /\ view' = view \/ (view.kind = "shared" /\ view'.kind = "freed")
    BY <1>1 DEF ViewAfter, TypeOK
  <2>2. view.base \subseteq Registered' /\ Registered' # view.base
    BY <1>3 DEF ViewSound
  <2>3. Settled' = Settled
    BY DEF Settled
  <2> QED BY <2>1, <2>2, <2>3 DEF ViewSound
<1>11. \A o \in Owners : StyleSound(style[o])'
  <2> SUFFICES ASSUME NEW o \in Owners, NEW p \in Props,
                      NEW w, w = style[o].wrote[p]
               PROVE  /\ style[o].token[p] # None => style[o].token[p] \in Registered'
                      /\ "own" \notin Env =>
                           CASE w[1] = "tok" -> /\ style[o].token[p] = w[2] /\ w[2] # None
                                                /\ fresh => style[o].color[p] = value'[w[2]]
                             [] w[1] = "lit" -> style[o].token[p] = None
                                                  /\ style[o].color[p] = w[2]
                             [] OTHER -> style[o].token[p] = None /\ style[o].color[p] = None
    BY <1>1 DEF StyleSound
  <2>1. StyleSound(style[o])
    OBVIOUS
  <2> QED BY <1>3, <1>4, <2>1 DEF StyleSound
<1>12. ObjSound(obj)'
  BY <1>1, <1>3 DEF ObjSound
<1>13. MotionSound'
  BY <1>1 DEF MotionSound, MotionAsWritten, Scaled
<1> QED BY <1>8, <1>9, <1>10, <1>11, <1>12, <1>13

\* A constant that is changed leaves the colors to be set again.
LEMMA SetConstStep ==
  ASSUME IInv, NEW n \in Consts, NEW c \in Colors, SetConst(n, c)
  PROVE  IInv'
<1> USE ThemingAssumption DEF IInv
<1>1. /\ value[n] # None /\ value' = [value EXCEPT ![n] = c] /\ fresh' = FALSE
      /\ UNCHANGED <<part, index, view, own, style, obj, scale, trans>>
  BY DEF SetConst
<1>2. TypeOK'
  BY <1>1, ZenonT(40) DEF TypeOK
<1>3. Registered' = Registered
  BY <1>1 DEF TypeOK, Registered
<1>4. IndexSound' /\ ViewSound'
  BY <1>1, <1>3 DEF IndexSound, ViewSound, Settled
<1>5. \A o \in Owners : StyleSound(style[o])'
  BY <1>1, <1>3 DEF StyleSound
<1>6. ObjSound(obj)'
  BY <1>1, <1>3 DEF ObjSound
<1>7. MotionSound'
  BY <1>1 DEF MotionSound, MotionAsWritten, Scaled
<1> QED BY <1>2, <1>4, <1>5, <1>6, <1>7

\* The document of the globals begins and ends.
LEMMA GlobalsSteps ==
  ASSUME IInv, BeginGlobals \/ EndGlobals
  PROVE  IInv'
<1> USE DEF IInv
<1>1. UNCHANGED <<part, value, index, own, style, obj, fresh, scale, trans>>
  BY DEF BeginGlobals, EndGlobals
<1>2. Registered' = Registered /\ Registered \in SUBSET Consts
  BY <1>1 DEF Registered
<1>3. /\ view' \in [kind : {"settled", "list", "empty", "shared", "freed"},
                    base : SUBSET Consts]
      /\ ViewSound'
  BY <1>1, <1>2 DEF BeginGlobals, EndGlobals, Settled, ViewSound
<1>4. TypeOK'
  BY <1>1, <1>3 DEF TypeOK
<1>5. IndexSound'
  BY <1>1, <1>2 DEF IndexSound
<1>6. \A o \in Owners : StyleSound(style[o])'
  BY <1>1, <1>2 DEF StyleSound
<1>7. ObjSound(obj)'
  BY <1>1, <1>2 DEF ObjSound
<1>8. MotionSound'
  BY <1>1 DEF MotionSound, MotionAsWritten, Scaled
<1> QED BY <1>3, <1>4, <1>5, <1>6, <1>7, <1>8
-----------------------------------------------------------------------------
(* Named styles.                                                           *)

\* Where an attribute of the kinds an author writes leads.
LEMMA ColorFacts ==
  ASSUME IInv, NEW owner \in Owners, NEW val \in ColorValues, ~Skipped(owner, val)
  PROVE  /\ ColorOf(owner, val) \in Colors \cup {None}
         /\ AuthoredAs(owner, val) \in Written
         /\ val[1] \in {"lit", "tok", "remove"}
         /\ val[1] # "remove" => ColorOf(owner, val) # None
         /\ val[1] = "lit" => AuthoredAs(owner, val) = <<"lit", ColorOf(owner, val)>>
         /\ val[1] = "tok" /\ IsGlobal(owner, val[2]) =>
              /\ val[2] \in Registered /\ val[2] # None
              /\ ColorOf(owner, val) = value[val[2]]
              /\ AuthoredAs(owner, val) = <<"tok", val[2]>>
         /\ val[1] = "tok" /\ ~IsGlobal(owner, val[2]) =>
              AuthoredAs(owner, val) = <<"lit", ColorOf(owner, val)>>
         /\ val[1] = "remove" =>
              ColorOf(owner, val) = None /\ AuthoredAs(owner, val) = <<"remove", None>>
<1> USE ThemingAssumption
<1>1. value \in [Consts -> Colors \cup {None}] /\ own \in [Consts -> Colors \cup {None}]
  BY DEF IInv, TypeOK
<1>2. CASE \E c \in Colors : val = <<"lit", c>>
  BY <1>2 DEF ColorOf, AuthoredAs, Written
<1>3. CASE \E n \in Consts : val = <<"tok", n>>
  <2>1. PICK n \in Consts : val = <<"tok", n>>
    BY <1>3
  <2>2. ConstFor(owner, n) \in Colors /\ ConstFor(owner, n) # None
    BY <1>1, <2>1 DEF Skipped, ConstFor
  <2>3. IsGlobal(owner, n) => n \in Registered /\ n # None /\ ConstFor(owner, n) = value[n]
    BY <1>1, <2>1 DEF IsGlobal, Registered, ConstFor
  <2>4. ColorOf(owner, val) = ConstFor(owner, n)
    BY <2>1 DEF ColorOf
  <2>5. AuthoredAs(owner, val) = IF IsGlobal(owner, n) THEN <<"tok", n>>
                                 ELSE <<"lit", ConstFor(owner, n)>>
    BY <2>1 DEF AuthoredAs
  <2>6. AuthoredAs(owner, val) \in Written
    BY <2>2, <2>5 DEF Written
  <2> QED BY <2>1, <2>2, <2>3, <2>4, <2>5, <2>6
<1>4. CASE val = <<"remove", None>>
  BY <1>4 DEF ColorOf, AuthoredAs, Written
<1>5. CASE val = <<"neg", None>>
  BY <1>5 DEF Skipped
<1> QED BY <1>2, <1>3, <1>4, <1>5 DEF ColorValues

\* Outside of a document, and inside one that has declared nothing yet, every global
\* constant is found.
LEMMA SightsAll ==
  ASSUME IInv, NEW sees \in Sights,
         view # Settled => Registered = view.base /\ view.kind # "empty"
  PROVE  sees = Registered
<1>1. view.kind \in {"settled", "list", "empty", "shared", "freed"}
  BY DEF IInv, TypeOK
<1>2. view.kind \in {"list", "empty", "freed"} => view # Settled
  BY DEF Settled
<1>3. view.kind # "empty" /\ view.kind # "freed"
  BY <1>2 DEF IInv, ViewSound
<1> QED BY <1>1, <1>2, <1>3 DEF Sights

\* The styles that agree with what was written.
SoundStyles == {s \in StyleRecords : StyleSound(s)}

\* An attribute leaves a style that agrees with what was written.
LEMMA StyleAttrStays ==
  ASSUME IInv, NEW s \in SoundStyles, NEW owner \in Owners, NEW sees, NEW a \in ColorAttrs,
         "own" \notin Env => sees = Registered
  PROVE  StyleAttr(s, owner, sees, a) \in SoundStyles
<1> USE ThemingAssumption
<1> DEFINE p == a.prop
           n == a.val[2]
           named == a.val[1] = "tok" /\ IsGlobal(owner, n) /\ n \in sees
           t == StyleAttr(s, owner, sees, a)
<1>1. CASE Skipped(owner, a.val)
  BY <1>1 DEF StyleAttr
<1>2. CASE ~Skipped(owner, a.val)
  <2>1. p \in Props /\ a.val \in ColorValues
    BY DEF ColorAttrs
  <2>2. s \in StyleRecords /\ StyleSound(s)
    BY DEF SoundStyles
  <2> DEFINE c == ColorOf(owner, a.val)
             w == AuthoredAs(owner, a.val)
             m == IF named THEN n ELSE None
  <2>3. t = [color |-> [s.color EXCEPT ![p] = c], token |-> [s.token EXCEPT ![p] = m],
             wrote |-> [s.wrote EXCEPT ![p] = w]]
    BY <1>2 DEF StyleAttr, Noted
  <2>4. /\ c \in Colors \cup {None} /\ w \in Written
        /\ m # None => m \in Registered
        /\ Registered \subseteq Consts
    BY <1>2, <2>1, ColorFacts DEF Registered
  <2>5. "own" \notin Env =>
          CASE w[1] = "tok" -> m = w[2] /\ w[2] # None /\ c = value[w[2]]
            [] w[1] = "lit" -> m = None /\ c = w[2]
            [] OTHER -> m = None /\ c = None
    BY <1>2, <2>1, ColorFacts
  <2> HIDE DEF c, w, m, t, p
  <2>6. t \in StyleRecords
    BY <2>1, <2>2, <2>3, <2>4 DEF StyleRecords
  <2>7. /\ t.color[p] = c /\ t.token[p] = m /\ t.wrote[p] = w
        /\ \A q \in Props \ {p} : /\ t.color[q] = s.color[q] /\ t.token[q] = s.token[q]
                                  /\ t.wrote[q] = s.wrote[q]
    BY <2>1, <2>2, <2>3 DEF StyleRecords
  <2>8. StyleSound(t)
    <3> SUFFICES ASSUME NEW q \in Props
                 PROVE  /\ t.token[q] # None => t.token[q] \in Registered
                        /\ "own" \notin Env =>
                             CASE t.wrote[q][1] = "tok" ->
                                    /\ t.token[q] = t.wrote[q][2] /\ t.wrote[q][2] # None
                                    /\ fresh => t.color[q] = value[t.wrote[q][2]]
                               [] t.wrote[q][1] = "lit" ->
                                    t.token[q] = None /\ t.color[q] = t.wrote[q][2]
                               [] OTHER -> t.token[q] = None /\ t.color[q] = None
      BY DEF StyleSound
    <3>1. CASE q = p
      BY <3>1, <2>4, <2>5, <2>7
    <3>2. CASE q # p
      BY <3>2, <2>2, <2>7 DEF StyleSound
    <3> QED BY <3>1, <3>2
  <2> QED BY <2>6, <2>8 DEF SoundStyles, t
<1> QED BY <1>1, <1>2

\* So does the whole loop.
LEMMA StyleAttrsStay ==
  ASSUME IInv, NEW owner \in Owners, NEW sees, NEW attrs \in AttrLists,
         "own" \notin Env => sees = Registered
  PROVE  StyleAttrs(owner, attrs, sees) \in SoundStyles
<1> DEFINE n == Len(attrs)
           After(g) == g = [i \in 0 .. n |-> IF i = 0 THEN style[owner]
                                   ELSE StyleAttr(g[i - 1], owner, sees, attrs[i])]
           after == CHOOSE g : After(g)
           step == [i \in 1 .. n |-> [s \in SoundStyles |-> StyleAttr(s, owner, sees, attrs[i])]]
<1>1. n \in Nat /\ \A i \in 1 .. n : attrs[i] \in ColorAttrs
  BY DEF AttrLists
<1>2. style[owner] \in SoundStyles
  BY DEF SoundStyles, IInv, TypeOK
<1>3. \A i \in 1 .. n, s \in SoundStyles :
        StyleAttr(s, owner, sees, attrs[i]) \in SoundStyles
  BY <1>1, StyleAttrStays
<1>4. step \in [1 .. n -> [SoundStyles -> SoundStyles]]
  BY <1>3
<1>5. PICK g \in [0 .. n -> SoundStyles] : IsRun(g, n, style[owner], step)
  <2> HIDE DEF step, n
  <2> QED BY <1>1, <1>2, <1>4, Iterates
<1>6. After(g)
  <2> HIDE DEF n
  <2>1. \A i \in 0 .. n : i # 0 => i \in 1 .. n /\ i - 1 \in 0 .. n
    BY <1>1
  <2>2. \A i \in 0 .. n : i # 0 =>
          step[i][g[i - 1]] = StyleAttr(g[i - 1], owner, sees, attrs[i])
    BY <2>1
  <2> HIDE DEF step
  <2> QED BY <1>5, <2>2 DEF IsRun
<1>7. After(after)
  <2> HIDE DEF After
  <2> QED BY <1>6
<1>8. after[0] = style[owner]
        /\ \A i \in 1 .. n : after[i] = StyleAttr(after[i - 1], owner, sees, attrs[i])
  <2> HIDE DEF after
  <2> QED BY <1>1, <1>7
<1>9. \A i \in 0 .. n : after[i] \in SoundStyles
  <2> HIDE DEF after, n
  <2>1. \A i \in 1 .. n : after[i - 1] \in SoundStyles => after[i] \in SoundStyles
    BY <1>3, <1>8
  <2>2. after[0] \in SoundStyles
    BY <1>2, <1>8
  <2> QED BY <1>1, <2>1, <2>2, Stays
<1>10. StyleAttrs(owner, attrs, sees) = after[n]
  BY DEF StyleAttrs
<1>11. n \in 0 .. n
  BY <1>1
<1> QED BY <1>9, <1>10, <1>11

\* lv_xml_register_style(), the colors.
LEMMA RegisterStyleStep ==
  ASSUME IInv, NEW owner \in Owners, NEW attrs \in AttrLists, NEW sees \in Sights,
         RegisterStyle(owner, attrs, sees)
  PROVE  IInv'
<1>1. /\ style' = [style EXCEPT ![owner] = StyleAttrs(owner, attrs, sees)]
      /\ UNCHANGED <<part, value, index, view, own, obj, fresh, scale, trans>>
  BY DEF RegisterStyle
<1>2. "own" \notin Env => sees = Registered
  BY SightsAll DEF RegisterStyle
<1>3. StyleAttrs(owner, attrs, sees) \in StyleRecords
        /\ StyleSound(StyleAttrs(owner, attrs, sees))
  BY <1>2, StyleAttrsStay DEF SoundStyles
<1>4. TypeOK'
  BY <1>1, <1>3 DEF IInv, TypeOK
<1>5. Registered' = Registered
  BY <1>1 DEF Registered
<1>6. IndexSound' /\ ViewSound'
  BY <1>1, <1>5 DEF IInv, IndexSound, ViewSound, Settled
<1>7. \A s : StyleSound(s) => StyleSound(s)'
  BY <1>1, <1>5 DEF StyleSound
<1>8. \A o \in Owners : StyleSound(style[o])'
  <2> SUFFICES ASSUME NEW o \in Owners PROVE StyleSound(style[o])'
    OBVIOUS
  <2>1. style' [o] = IF o = owner THEN StyleAttrs(owner, attrs, sees) ELSE style[o]
    BY <1>1 DEF IInv, TypeOK
  <2>2. StyleSound(style'[o])
    BY <1>3, <2>1 DEF IInv
  <2> QED BY <2>2, <1>1, <1>5 DEF StyleSound
<1>9. ObjSound(obj)'
  BY <1>1, <1>5 DEF IInv, ObjSound
<1>10. MotionSound'
  BY <1>1 DEF IInv, MotionSound, MotionAsWritten, Scaled
<1> QED BY <1>4, <1>6, <1>8, <1>9, <1>10 DEF IInv

\* scope_reapply_style_tokens(), token_style_reapply_cb(): every token names a constant
\* that is there, and the color beside it takes its value.
LEMMA ReapplyStep ==
  ASSUME IInv, Reapply
  PROVE  IInv'
<1> USE ThemingAssumption
<1>1. /\ style' = [o \in Owners |-> StyleReapplied(style[o])] /\ obj' = ObjReapplied(obj)
      /\ fresh' = TRUE
      /\ UNCHANGED <<part, value, index, view, own, scale, trans>>
  BY DEF Reapply
<1>2. Registered' = Registered /\ \A n \in Registered : n \in Consts /\ value[n] \in Colors
                                                         /\ value[n] # None
  BY <1>1 DEF Registered, IInv, TypeOK
<1>3. IndexSound' /\ ViewSound' /\ MotionSound'
  BY <1>1, <1>2 DEF IInv, IndexSound, ViewSound, Settled, MotionSound, MotionAsWritten, Scaled
<1>4. ASSUME NEW o \in Owners
      PROVE  style'[o] \in StyleRecords /\ StyleSound(style[o])'
  <2> DEFINE s == style[o]
             color == [p \in Props |-> IF s.token[p] = None THEN s.color[p]
                                       ELSE value[s.token[p]]]
             t == [s EXCEPT !.color = color]
  <2>1. s \in StyleRecords /\ StyleSound(s)
    BY DEF IInv, TypeOK
  <2>2. style'[o] = t
    BY <1>1 DEF StyleReapplied
  <2>3. color \in [Props -> Colors \cup {None}]
    BY <1>2, <2>1 DEF StyleRecords, StyleSound
  <2>4. /\ t \in StyleRecords /\ t.token = s.token /\ t.wrote = s.wrote
        /\ \A p \in Props : t.color[p] = IF s.token[p] = None THEN s.color[p]
                                         ELSE value[s.token[p]]
    BY <2>1, <2>3 DEF StyleRecords
  <2> HIDE DEF s, t, color
  <2>5. ASSUME NEW p \in Props, "own" \notin Env
        PROVE  CASE t.wrote[p][1] = "tok" -> /\ t.token[p] = t.wrote[p][2]
                                             /\ t.wrote[p][2] # None
                                             /\ t.color[p] = value[t.wrote[p][2]]
                 [] t.wrote[p][1] = "lit" -> t.token[p] = None /\ t.color[p] = t.wrote[p][2]
                 [] OTHER -> t.token[p] = None /\ t.color[p] = None
    BY <2>1, <2>4, <2>5 DEF StyleSound
  <2>6. \A p \in Props : t.token[p] # None => t.token[p] \in Registered
    BY <2>1, <2>4 DEF StyleSound
  <2>7. value' = value
    BY <1>1
  <2> QED BY <1>1, <1>2, <2>2, <2>4, <2>5, <2>6, <2>7 DEF StyleSound
<1>5. obj' \in ObjRecords /\ ObjSound(obj)'
  <2> DEFINE moved == {p \in Props : obj.token[p] # None /\ ~Touched(obj, p)}
             now == [p \in Props |-> IF p \in moved THEN value[obj.token[p]]
                                     ELSE obj.color[p]]
             last == [p \in Props |-> IF p \in moved THEN now[p] ELSE obj.last[p]]
             put == [p \in Props |-> IF p \in moved THEN now[p] ELSE obj.put[p]]
  <2>1. obj \in ObjRecords /\ ObjSound(obj)
    BY DEF IInv, TypeOK
  <2>2. obj' = [obj EXCEPT !.color = now, !.last = last, !.put = put]
    BY <1>1 DEF ObjReapplied
  <2>3. \A p \in moved : /\ obj.token[p] \in Registered
                         /\ obj.last[p] # None
    BY <2>1 DEF ObjSound, Touched
  <2>4. /\ now \in [Props -> Colors \cup {None}] /\ last \in [Props -> Colors \cup {None}]
        /\ put \in [Props -> Colors \cup {None}]
    BY <1>2, <2>1, <2>3 DEF ObjRecords
  <2>5. \A p \in Props : /\ last[p] = IF p \in moved THEN now[p] ELSE obj.last[p]
                         /\ put[p] = IF p \in moved THEN now[p] ELSE obj.put[p]
                         /\ p \in moved => now[p] \in Colors /\ now[p] # None
    BY <1>2, <2>3
  <2> HIDE DEF moved, now, last, put
  <2>6. /\ obj' \in ObjRecords /\ obj'.token = obj.token /\ obj'.wrote = obj.wrote
        /\ obj'.authored = obj.authored /\ obj'.last = last /\ obj'.put = put
    BY <2>1, <2>2, <2>4 DEF ObjRecords
  <2> QED BY <1>2, <2>1, <2>3, <2>5, <2>6 DEF ObjSound
<1>6. TypeOK'
  BY <1>1, <1>4, <1>5 DEF IInv, TypeOK, StyleRecords, ObjRecords
<1> QED BY <1>3, <1>4, <1>5, <1>6 DEF IInv
-----------------------------------------------------------------------------
(* Inline colors.                                                          *)

\* The widgets whose record agrees with what was written.
SoundObjs == {o \in ObjRecords : ObjSound(o)}

\* An attribute that sets a color leaves the record of it beside it.
LEMMA InlineAttrStays ==
  ASSUME IInv, NEW o \in SoundObjs, NEW owner \in Owners, NEW slots, NEW a \in ColorAttrs,
         a.val[1] # "remove"
  PROVE  InlineAttr(o, owner, slots, a) \in SoundObjs
<1> USE ThemingAssumption
<1> DEFINE p == a.prop
           c == ColorOf(owner, a.val)
           n == IF a.val[1] = "tok" /\ IsGlobal(owner, a.val[2]) /\ a.val[2] \in slots
                THEN a.val[2] ELSE None
           w == IF n = None THEN <<"lit", c>> ELSE AuthoredAs(owner, a.val)
           t == InlineAttr(o, owner, slots, a)
<1>1. CASE Skipped(owner, a.val)
  BY <1>1 DEF InlineAttr
<1>2. CASE ~Skipped(owner, a.val)
  <2>1. p \in Props /\ a.val \in ColorValues
    BY DEF ColorAttrs
  <2>2. o \in ObjRecords /\ ObjSound(o)
    BY DEF SoundObjs
  <2>3. t = [color |-> [o.color EXCEPT ![p] = c], token |-> [o.token EXCEPT ![p] = n],
             last |-> [o.last EXCEPT ![p] = c], authored |-> o.authored \cup {p},
             wrote |-> [o.wrote EXCEPT ![p] = w], put |-> [o.put EXCEPT ![p] = c]]
    BY <1>2 DEF InlineAttr, Noted
  <2>4. /\ c \in Colors /\ c # None
        /\ n # None => n \in Registered
        /\ Registered \subseteq Consts
    BY <1>2, <2>1, ColorFacts DEF Registered
  <2>5. /\ IF w[1] = "tok" THEN n = w[2] /\ n # None ELSE n = None
        /\ w \in Written
    BY <1>2, <2>1, <2>4, ColorFacts DEF Written
  <2> HIDE DEF c, w, n, t, p
  <2>6. t \in ObjRecords
    BY <2>1, <2>2, <2>3, <2>4, <2>5 DEF ObjRecords
  <2>7. /\ t.token[p] = n /\ t.wrote[p] = w /\ t.last[p] = c /\ t.put[p] = c
        /\ t.authored = o.authored \cup {p}
        /\ \A q \in Props \ {p} : /\ t.token[q] = o.token[q] /\ t.wrote[q] = o.wrote[q]
                                  /\ t.last[q] = o.last[q] /\ t.put[q] = o.put[q]
    BY <2>1, <2>2, <2>3 DEF ObjRecords
  <2>8. ObjSound(t)
    <3> SUFFICES ASSUME NEW q \in Props
                 PROVE  /\ t.token[q] # None => t.token[q] \in Registered
                        /\ t.last[q] = t.put[q] /\ (q \in t.authored <=> t.last[q] # None)
                        /\ IF t.wrote[q][1] = "tok"
                           THEN t.token[q] = t.wrote[q][2] /\ t.token[q] # None
                           ELSE t.token[q] = None
      BY DEF ObjSound
    <3>1. CASE q = p
      BY <3>1, <2>4, <2>5, <2>7
    <3>2. CASE q # p
      BY <3>2, <2>2, <2>7 DEF ObjSound
    <3> QED BY <3>1, <3>2
  <2> QED BY <2>6, <2>8 DEF SoundObjs, t
<1> QED BY <1>1, <1>2

\* So does the whole loop.
LEMMA InlineAttrsStay ==
  ASSUME IInv, NEW owner \in Owners, NEW slots, NEW attrs \in AttrLists,
         \A i \in 1 .. Len(attrs) : attrs[i].val[1] # "remove"
  PROVE  InlineAttrs(owner, attrs, slots) \in SoundObjs
<1> DEFINE n == Len(attrs)
           After(g) == g = [i \in 0 .. n |-> IF i = 0 THEN obj
                                   ELSE InlineAttr(g[i - 1], owner, slots, attrs[i])]
           after == CHOOSE g : After(g)
           step == [i \in 1 .. n |-> [o \in SoundObjs |-> InlineAttr(o, owner, slots, attrs[i])]]
<1>1. n \in Nat /\ \A i \in 1 .. n : attrs[i] \in ColorAttrs
  BY DEF AttrLists
<1>2. obj \in SoundObjs
  BY DEF SoundObjs, IInv, TypeOK
<1>3. \A i \in 1 .. n, o \in SoundObjs : InlineAttr(o, owner, slots, attrs[i]) \in SoundObjs
  BY <1>1, InlineAttrStays
<1>4. step \in [1 .. n -> [SoundObjs -> SoundObjs]]
  BY <1>3
<1>5. PICK g \in [0 .. n -> SoundObjs] : IsRun(g, n, obj, step)
  <2> HIDE DEF step, n
  <2> QED BY <1>1, <1>2, <1>4, Iterates
<1>6. After(g)
  <2> HIDE DEF n
  <2>1. \A i \in 0 .. n : i # 0 => i \in 1 .. n /\ i - 1 \in 0 .. n
    BY <1>1
  <2>2. \A i \in 0 .. n : i # 0 =>
          step[i][g[i - 1]] = InlineAttr(g[i - 1], owner, slots, attrs[i])
    BY <2>1
  <2> HIDE DEF step
  <2> QED BY <1>5, <2>2 DEF IsRun
<1>7. After(after)
  <2> HIDE DEF After
  <2> QED BY <1>6
<1>8. after[0] = obj
        /\ \A i \in 1 .. n : after[i] = InlineAttr(after[i - 1], owner, slots, attrs[i])
  <2> HIDE DEF after
  <2> QED BY <1>1, <1>7
<1>9. \A i \in 0 .. n : after[i] \in SoundObjs
  <2> HIDE DEF after, n
  <2>1. \A i \in 1 .. n : after[i - 1] \in SoundObjs => after[i] \in SoundObjs
    BY <1>3, <1>8
  <2>2. after[0] \in SoundObjs
    BY <1>2, <1>8
  <2> QED BY <1>1, <2>1, <2>2, Stays
<1>10. InlineAttrs(owner, attrs, slots) = after[n]
  BY DEF InlineAttrs
<1>11. n \in 0 .. n
  BY <1>1
<1> QED BY <1>9, <1>10, <1>11

\* apply_styles(), and a color that the application sets or removes: only the
\* widget changes.
LEMMA InlineSteps ==
  ASSUME IInv, obj' \in ObjRecords, ObjSound(obj'),
         UNCHANGED <<part, value, index, view, own, style, fresh, scale, trans>>
  PROVE  IInv'
<1>1. Registered' = Registered
  BY DEF Registered
<1>2. TypeOK'
  BY DEF IInv, TypeOK
<1>3. IndexSound' /\ ViewSound'
  BY <1>1 DEF IInv, IndexSound, ViewSound, Settled
<1>4. \A o \in Owners : StyleSound(style[o])'
  BY <1>1 DEF IInv, StyleSound
<1>5. ObjSound(obj)'
  BY <1>1 DEF ObjSound
<1>6. MotionSound'
  BY DEF IInv, MotionSound, MotionAsWritten, Scaled
<1> QED BY <1>2, <1>3, <1>4, <1>5, <1>6 DEF IInv

LEMMA ApplyInlineStep ==
  ASSUME IInv, NEW owner \in Owners, NEW attrs \in AttrLists, ApplyInline(owner, attrs)
  PROVE  IInv'
<1>1. obj' \in SoundObjs
  BY InlineAttrsStay DEF ApplyInline
<1> QED BY <1>1, InlineSteps DEF ApplyInline, SoundObjs

LEMMA PaintStep ==
  ASSUME IInv, NEW p \in Props, NEW c \in Colors \cup {None}, Paint(p, c)
  PROVE  IInv'
<1>1. obj' = [obj EXCEPT !.color[p] = c] /\ obj \in ObjRecords /\ ObjSound(obj)
  BY DEF Paint, IInv, TypeOK
<1>2. /\ obj' \in ObjRecords /\ obj'.token = obj.token /\ obj'.last = obj.last
      /\ obj'.put = obj.put /\ obj'.authored = obj.authored /\ obj'.wrote = obj.wrote
  BY <1>1 DEF ObjRecords
<1>3. ObjSound(obj')
  BY <1>1, <1>2 DEF ObjSound
<1> QED BY <1>2, <1>3, InlineSteps DEF Paint
-----------------------------------------------------------------------------
(* Transitions.                                                            *)

FieldRecords ==
  [props : {"width", "opa", Bad, None}, duration : {0, 100, 300}, delay : {0, 50},
   easing : {"linear", Bounce}]
Shorthands == [props : {"opa"}, time : Times, tail : Tails]
Longhands == {"props", "duration", "delay", "easing"}

LEMMA NoFieldsFacts ==
  /\ NoFields \in FieldRecords /\ DOMAIN NoFields = Longhands
  /\ NoFields.props = None
BY DEF NoFields, FieldRecords, Longhands

\* What a shorthand sets has a field's type, also when it is refused.
LEMMA ShorthandFacts ==
  ASSUME NEW v \in Shorthands
  PROVE  /\ Shorthand(v).out \in FieldRecords /\ Shorthand(v).ok \in BOOLEAN
         /\ v.time = Bad => Shorthand(v).out = NoFields /\ ~Shorthand(v).ok
<1> USE ThemingAssumption
<1> DEFINE first == [NoFields EXCEPT !.props = v.props, !.duration = v.time]
           n == Len(v.tail)
           Out(g) == g = [k \in 0 .. n |-> IF k = 0 THEN first
                                           ELSE ShortToken(g[k - 1], v.tail[k])]
           out == CHOOSE g : Out(g)
           step == [k \in 1 .. n |-> [o \in FieldRecords |-> ShortToken(o, v.tail[k])]]
<1>1. CASE v.time = Bad
  BY <1>1, NoFieldsFacts DEF Shorthand
<1>2. CASE v.time # Bad
  <2>1. n \in Nat
    BY DEF Shorthands, Tails
  <2>2. first \in FieldRecords
    BY <1>2, ZenonT(40) DEF Shorthands, Times, NoFields, FieldRecords
  <2>3. \A k \in 1 .. n, o \in FieldRecords : ShortToken(o, v.tail[k]) \in FieldRecords
    <3> SUFFICES ASSUME NEW k \in 1 .. n, NEW o \in FieldRecords
                 PROVE  ShortToken(o, v.tail[k]) \in FieldRecords
      OBVIOUS
    <3>1. [o EXCEPT !.delay = 50] \in FieldRecords /\ [o EXCEPT !.easing = Bounce] \in FieldRecords
      BY DEF FieldRecords
    <3> QED BY <3>1 DEF ShortToken
  <2>4. step \in [1 .. n -> [FieldRecords -> FieldRecords]]
    BY <2>3
  <2>5. PICK g \in [0 .. n -> FieldRecords] : IsRun(g, n, first, step)
    <3> HIDE DEF step, n, first
    <3> QED BY <2>1, <2>2, <2>4, Iterates
  <2>6. Out(g)
    <3> HIDE DEF n, first
    <3>1. \A k \in 0 .. n : k # 0 => k \in 1 .. n /\ k - 1 \in 0 .. n
      BY <2>1
    <3>2. \A k \in 0 .. n : k # 0 => step[k][g[k - 1]] = ShortToken(g[k - 1], v.tail[k])
      BY <3>1
    <3> HIDE DEF step
    <3> QED BY <2>5, <3>2 DEF IsRun
  <2>7. Out(out)
    <3> HIDE DEF Out
    <3> QED BY <2>6
  <2>8. out[0] = first /\ \A k \in 1 .. n : out[k] = ShortToken(out[k - 1], v.tail[k])
    <3> HIDE DEF out, first
    <3>1. \A k \in 0 .. n : out[k] = IF k = 0 THEN first ELSE ShortToken(out[k - 1], v.tail[k])
      BY <2>7, Zenon
    <3> HIDE DEF n, Out
    <3>2. 0 \in 0 .. n /\ \A k \in 1 .. n : k \in 0 .. n /\ k # 0
      BY <2>1
    <3> QED BY <3>1, <3>2
  <2>9. \A k \in 0 .. n : out[k] \in FieldRecords
    <3> HIDE DEF out, n, first
    <3>1. \A k \in 1 .. n : out[k - 1] \in FieldRecords => out[k] \in FieldRecords
      BY <2>3, <2>8
    <3>2. out[0] \in FieldRecords
      BY <2>2, <2>8
    <3> QED BY <2>1, <3>1, <3>2, Stays
  <2>10. Shorthand(v) = [ok |-> \A k \in 1 .. n : v.tail[k] # Bad, out |-> out[n]]
    BY <1>2 DEF Shorthand
  <2>11. n \in 0 .. n
    BY <2>1
  <2> HIDE DEF out, n
  <2> QED BY <1>2, <2>9, <2>10, <2>11
<1> QED BY <1>1, <1>2

\* The attributes that count for a field: the refused longhands and shorthands do not.
Counts(a) ==
  CASE a.kind = "transition" -> Shorthand(a.val).ok
    [] a.kind = "props" -> TRUE
    [] OTHER -> a.val # Bad
Collections ==
  [long : FieldRecords, claimed : SUBSET Longhands, short : FieldRecords, seen : BOOLEAN]

\* What the collection knows after the first k attributes: the longhands that count,
\* each with its value, and the shorthand.
Knows(st, attrs, k) ==
  /\ st \in Collections
  /\ \A j \in 1 .. k :
       /\ attrs[j].kind = "transition" => st.short = Shorthand(attrs[j].val).out
       /\ attrs[j].kind # "transition" /\ Counts(attrs[j]) =>
            attrs[j].kind \in st.claimed /\ st.long[attrs[j].kind] = attrs[j].val
       /\ Counts(attrs[j]) => st.seen
  /\ \A f \in st.claimed : \E j \in 1 .. k : attrs[j].kind = f /\ Counts(attrs[j])
  /\ (\A j \in 1 .. k : attrs[j].kind # "transition") => st.short = NoFields
  /\ st.seen => \E j \in 1 .. k : Counts(attrs[j])

LEMMA MotionAttrFacts ==
  ASSUME NEW a \in MotionAttrs
  PROVE  /\ a.kind \in Longhands \cup {"transition"}
         /\ a.kind = "transition" => a.val \in Shorthands
         /\ a.kind = "props" => a.val \in {"width", Bad}
         /\ a.kind = "duration" => a.val \in Times
         /\ a.kind = "delay" => a.val \in Delays
         /\ a.kind = "easing" => a.val \in Easings
BY DEF MotionAttrs, Longhands, Shorthands

LEMMA MotionListFacts ==
  ASSUME NEW attrs \in MotionLists
  PROVE  /\ Len(attrs) \in Nat /\ \A i \in 1 .. Len(attrs) : attrs[i] \in MotionAttrs
         /\ \A i, j \in 1 .. Len(attrs) : attrs[i].kind = attrs[j].kind => i = j
         /\ "refused" \notin Env =>
              \/ Len(attrs) = 1
              \/ \A i \in 1 .. Len(attrs) : attrs[i].kind = "transition" =>
                    Shorthand(attrs[i].val).ok \/ attrs[i].val.time = Bad
BY DEF MotionLists

\* A turn of the loop over the attributes of a style.
LEMMA CollectKnows ==
  ASSUME NEW attrs \in MotionLists, NEW k \in 1 .. Len(attrs), NEW st, Knows(st, attrs, k - 1)
  PROVE  Knows(Collect(st, attrs[k]), attrs, k)
<1> USE ThemingAssumption
<1> DEFINE a == attrs[k]
           t == Collect(st, a)
<1>1. /\ Len(attrs) \in Nat /\ a \in MotionAttrs
      /\ \A j \in 1 .. k - 1 : attrs[j].kind # a.kind /\ attrs[j] \in MotionAttrs
  BY MotionListFacts
<1>2. 1 .. k = (1 .. k - 1) \cup {k}
  BY <1>1
<1>3. CASE a.kind = "transition"
  <2> DEFINE sh == Shorthand(a.val)
  <2>1. sh.out \in FieldRecords /\ sh.ok \in BOOLEAN /\ Counts(a) = sh.ok
    BY <1>1, <1>3, MotionAttrFacts, ShorthandFacts DEF Counts
  <2>2. t = [st EXCEPT !.short = sh.out, !.seen = @ \/ sh.ok]
    BY <1>3 DEF Collect
  <2>3. st \in Collections
    BY DEF Knows
  <2> HIDE DEF sh
  <2>11. t = [long |-> st.long, claimed |-> st.claimed, short |-> sh.out,
              seen |-> (st.seen \/ sh.ok)]
    BY <2>2, <2>3, ZenonT(40) DEF Collections
  <2>4. /\ t.long = st.long /\ t.claimed = st.claimed /\ t.short = sh.out
        /\ t.seen = (st.seen \/ sh.ok) /\ t \in Collections
    <3> HIDE DEF t
    <3> QED BY <2>1, <2>3, <2>11 DEF Collections
  <2> HIDE DEF a, t
  <2>5. \A j \in 1 .. k : attrs[j].kind = "transition" => j = k
    BY <1>1, <1>2, <1>3 DEF a
  <2>6. \A j \in 1 .. k :
          /\ attrs[j].kind = "transition" => t.short = Shorthand(attrs[j].val).out
          /\ attrs[j].kind # "transition" /\ Counts(attrs[j]) =>
               attrs[j].kind \in t.claimed /\ t.long[attrs[j].kind] = attrs[j].val
          /\ Counts(attrs[j]) => t.seen
    <3> SUFFICES ASSUME NEW j \in 1 .. k
                 PROVE  /\ attrs[j].kind = "transition" => t.short = Shorthand(attrs[j].val).out
                        /\ attrs[j].kind # "transition" /\ Counts(attrs[j]) =>
                             attrs[j].kind \in t.claimed /\ t.long[attrs[j].kind] = attrs[j].val
                        /\ Counts(attrs[j]) => t.seen
      OBVIOUS
    <3>1. CASE j = k
      BY <3>1, <1>3, <2>1, <2>4 DEF a, sh
    <3>2. CASE j # k
      <4>1. j \in 1 .. k - 1 /\ attrs[j].kind # "transition"
        BY <3>2, <1>2, <2>5
      <4>2. t.claimed = st.claimed /\ t.long = st.long /\ (st.seen => t.seen)
        BY <2>4
      <4> QED BY <4>1, <4>2 DEF Knows
    <3> QED BY <3>1, <3>2
  <2>7. \A f \in t.claimed : \E j \in 1 .. k : attrs[j].kind = f /\ Counts(attrs[j])
    BY <1>2, <2>4 DEF Knows
  <2>8. t.seen => \E j \in 1 .. k : Counts(attrs[j])
    BY <1>2, <2>1, <2>4 DEF Knows, a
  <2>9. attrs[k].kind = "transition" /\ k \in 1 .. k
    BY <1>2, <1>3 DEF a
  <2>10. Knows(t, attrs, k)
    BY <2>4, <2>6, <2>7, <2>8, <2>9 DEF Knows
  <2> QED BY <2>10 DEF t, a
<1>4. CASE a.kind # "transition" /\ ~Counts(a)
  <2>1. t = st
    BY <1>4 DEF Collect, Counts
  <2>2. \A j \in 1 .. k :
          /\ attrs[j].kind = "transition" => st.short = Shorthand(attrs[j].val).out
          /\ attrs[j].kind # "transition" /\ Counts(attrs[j]) =>
               attrs[j].kind \in st.claimed /\ st.long[attrs[j].kind] = attrs[j].val
          /\ Counts(attrs[j]) => st.seen
    BY <1>2, <1>4 DEF Knows
  <2>3. \A f \in st.claimed : \E j \in 1 .. k : attrs[j].kind = f /\ Counts(attrs[j])
    BY <1>2 DEF Knows
  <2>4. (\A j \in 1 .. k : attrs[j].kind # "transition") => st.short = NoFields
    BY <1>2 DEF Knows
  <2>5. st.seen => \E j \in 1 .. k : Counts(attrs[j])
    BY <1>2 DEF Knows
  <2> HIDE DEF a, t
  <2>6. st \in Collections
    BY DEF Knows
  <2>7. Knows(t, attrs, k)
    BY <2>1, <2>2, <2>3, <2>4, <2>5, <2>6 DEF Knows
  <2> QED BY <2>7 DEF t, a
<1>5. CASE a.kind # "transition" /\ Counts(a)
  <2>1. t = [st EXCEPT !.long[a.kind] = a.val, !.claimed = @ \cup {a.kind}, !.seen = TRUE]
    BY <1>5 DEF Collect, Counts
  <2>2. a.kind \in Longhands /\ (a.val # Bad \/ a.kind = "props")
    BY <1>1, <1>5, MotionAttrFacts DEF Counts
  <2>3. /\ a.kind = "props" => a.val \in {"width", Bad}
        /\ a.kind = "duration" => a.val \in {0, 100, 300}
        /\ a.kind = "delay" => a.val \in {0, 50}
        /\ a.kind = "easing" => a.val \in {"linear", Bounce}
    BY <1>1, <2>2, MotionAttrFacts DEF Times, Delays, Easings
  <2> DEFINE long == [st.long EXCEPT ![a.kind] = a.val]
  <2>4. st \in Collections
    BY DEF Knows
  <2>5. /\ long \in FieldRecords /\ long[a.kind] = a.val
        /\ \A f \in Longhands \ {a.kind} : long[f] = st.long[f]
    BY <2>2, <2>3, <2>4 DEF FieldRecords, Longhands, Collections
  <2>12. t = [long |-> long, claimed |-> st.claimed \cup {a.kind}, short |-> st.short,
              seen |-> TRUE]
    BY <2>1, <2>4, ZenonT(40) DEF Collections
  <2>6. /\ t.long = long /\ t.claimed = st.claimed \cup {a.kind} /\ t.short = st.short
        /\ t.seen = TRUE /\ t \in Collections
    <3> HIDE DEF t, long, a
    <3> QED BY <2>12, <2>2, <2>4, <2>5 DEF Collections
  <2> HIDE DEF a, t, long
  <2>7. ASSUME NEW j \in 1 .. k, attrs[j].kind # "transition", Counts(attrs[j])
        PROVE  attrs[j].kind \in t.claimed /\ t.long[attrs[j].kind] = attrs[j].val
    <3>1. CASE j = k
      BY <3>1, <2>5, <2>6 DEF a
    <3>2. CASE j \in 1 .. k - 1
      <4>1. attrs[j].kind \in st.claimed /\ st.long[attrs[j].kind] = attrs[j].val
        BY <2>7, <3>2 DEF Knows
      <4>2. attrs[j].kind \in Longhands \ {a.kind}
        BY <1>1, <2>7, <3>2, MotionAttrFacts
      <4> QED BY <4>1, <4>2, <2>5, <2>6
    <3> QED BY <1>2, <3>1, <3>2
  <2>8. \A f \in t.claimed : \E j \in 1 .. k : attrs[j].kind = f /\ Counts(attrs[j])
    BY <1>2, <1>5, <2>6 DEF Knows, a
  <2>9. \A j \in 1 .. k : attrs[j].kind = "transition" => t.short = Shorthand(attrs[j].val).out
    BY <1>2, <1>5, <2>6 DEF Knows, a
  <2>10. (\A j \in 1 .. k : attrs[j].kind # "transition") => t.short = NoFields
    BY <1>2, <2>6 DEF Knows
  <2>11. \E j \in 1 .. k : Counts(attrs[j])
    BY <1>2, <1>5 DEF a
  <2>13. \A j \in 1 .. k : Counts(attrs[j]) => t.seen
    BY <2>6
  <2>14. Knows(t, attrs, k)
    BY <2>6, <2>7, <2>8, <2>9, <2>10, <2>11, <2>13 DEF Knows
  <2> QED BY <2>14 DEF t, a
<1> QED BY <1>3, <1>4, <1>5

\* The loop: what it has collected.
LEMMA CollectedKnows ==
  ASSUME NEW attrs \in MotionLists
  PROVE  Knows(CollectedFrom(attrs), attrs, Len(attrs))
<1> DEFINE n == Len(attrs)
           After(g) == g = [i \in 0 .. n |-> IF i = 0 THEN Collected
                                             ELSE Collect(g[i - 1], attrs[i])]
           st == CHOOSE g : After(g)
           step == [i \in 1 .. n |-> [c \in Collections |-> Collect(c, attrs[i])]]
<1>1. n \in Nat /\ \A i \in 1 .. n : attrs[i] \in MotionAttrs
  BY MotionListFacts
<1>2. Collected \in Collections
  BY NoFieldsFacts DEF Collected, Collections
<1>3. \A i \in 1 .. n, c \in Collections : Collect(c, attrs[i]) \in Collections
  <2> SUFFICES ASSUME NEW i \in 1 .. n, NEW c \in Collections
               PROVE  Collect(c, attrs[i]) \in Collections
    OBVIOUS
  <2> DEFINE a == attrs[i]
  <2>1. a \in MotionAttrs
    BY <1>1
  <2>2. CASE a.kind = "transition"
    BY <2>1, <2>2, MotionAttrFacts, ShorthandFacts DEF Collect, Collections
  <2>3. CASE a.kind # "transition" /\ a.val = Bad /\ a.kind # "props"
    BY <2>3 DEF Collect
  <2>4. CASE a.kind # "transition" /\ ~(a.val = Bad /\ a.kind # "props")
    <3>1. /\ a.kind \in Longhands
          /\ a.kind = "props" => a.val \in {"width", Bad}
          /\ a.kind = "duration" => a.val \in {0, 100, 300}
          /\ a.kind = "delay" => a.val \in {0, 50}
          /\ a.kind = "easing" => a.val \in {"linear", Bounce}
      BY <2>1, <2>4, MotionAttrFacts DEF Times, Delays, Easings
    <3> HIDE DEF a
    <3>2. [c.long EXCEPT ![a.kind] = a.val] \in FieldRecords
      BY <3>1 DEF FieldRecords, Longhands, Collections
    <3>3. Collect(c, a) = [c EXCEPT !.long = [c.long EXCEPT ![a.kind] = a.val],
                                    !.claimed = @ \cup {a.kind}, !.seen = TRUE]
      BY <2>4 DEF Collect
    <3>4. Collect(c, a) \in Collections
      <4> DEFINE long == [c.long EXCEPT ![a.kind] = a.val]
      <4>1. Collect(c, a) = [long |-> long, claimed |-> c.claimed \cup {a.kind},
                             short |-> c.short, seen |-> TRUE]
        BY <3>3 DEF Collections
      <4> HIDE DEF long
      <4> QED BY <3>1, <3>2, <4>1 DEF Collections, long
    <3> QED BY <3>4 DEF a
  <2> QED BY <2>2, <2>3, <2>4
<1>4. step \in [1 .. n -> [Collections -> Collections]]
  BY <1>3
<1>5. PICK g \in [0 .. n -> Collections] : IsRun(g, n, Collected, step)
  <2> HIDE DEF step, n
  <2> QED BY <1>1, <1>2, <1>4, Iterates
<1>6. After(g)
  <2> HIDE DEF n
  <2>1. \A i \in 0 .. n : i # 0 => i \in 1 .. n /\ i - 1 \in 0 .. n
    BY <1>1
  <2>2. \A i \in 0 .. n : i # 0 => step[i][g[i - 1]] = Collect(g[i - 1], attrs[i])
    BY <2>1
  <2> HIDE DEF step
  <2> QED BY <1>5, <2>2 DEF IsRun
<1>7. After(st)
  <2> HIDE DEF After
  <2> QED BY <1>6
<1>8. st[0] = Collected /\ \A i \in 1 .. n : st[i] = Collect(st[i - 1], attrs[i])
  <2> HIDE DEF st
  <2> QED BY <1>1, <1>7
<1>9. \A i \in 0 .. n : Knows(st[i], attrs, i)
  <2> DEFINE S == {i \in 0 .. n : Knows(st[i], attrs, i)}
  <2> HIDE DEF st
  <2>1. 0 \in S
    <3>1. Collected.claimed = {} /\ Collected.short = NoFields /\ Collected.seen = FALSE
      BY DEF Collected
    <3>2. 1 .. 0 = {}
      OBVIOUS
    <3>3. Knows(Collected, attrs, 0)
      BY <1>2, <3>1, <3>2 DEF Knows
    <3> QED BY <1>1, <1>8, <3>3
  <2>2. \A i \in 1 .. n : i - 1 \in S => i \in S
    BY <1>1, <1>8, CollectKnows
  <2> HIDE DEF S, n
  <2>3. \A i \in 0 .. n : i \in S
    BY <1>1, <2>1, <2>2, Walked
  <2> QED BY <2>3 DEF S
<1>10. CollectedFrom(attrs) = st[n]
  BY DEF CollectedFrom
<1> QED BY <1>1, <1>9, <1>10

\* Valid() picks out the attributes that count, of each kind one at most.
LEMMA ValidFacts ==
  ASSUME NEW attrs \in MotionLists, NEW kind
  PROVE  /\ \A a \in Valid(attrs, kind) :
              \E j \in 1 .. Len(attrs) : a = attrs[j] /\ attrs[j].kind = kind /\ Counts(attrs[j])
         /\ \A j \in 1 .. Len(attrs) : attrs[j].kind = kind /\ Counts(attrs[j]) =>
              /\ attrs[j] \in Valid(attrs, kind)
              /\ (CHOOSE a \in Valid(attrs, kind) : TRUE) = attrs[j]
<1>1. \A a \in Valid(attrs, kind) :
        \E j \in 1 .. Len(attrs) : a = attrs[j] /\ attrs[j].kind = kind /\ Counts(attrs[j])
  BY DEF Valid, Counts
<1>2. \A j \in 1 .. Len(attrs) : attrs[j].kind = kind /\ Counts(attrs[j]) =>
        attrs[j] \in Valid(attrs, kind)
  BY DEF Valid, Counts
<1>3. ASSUME NEW j \in 1 .. Len(attrs), attrs[j].kind = kind, Counts(attrs[j])
      PROVE  (CHOOSE a \in Valid(attrs, kind) : TRUE) = attrs[j]
  <2>1. (CHOOSE a \in Valid(attrs, kind) : TRUE) \in Valid(attrs, kind)
    BY <1>2, <1>3
  <2>2. \A a \in Valid(attrs, kind) : a = attrs[j]
    BY <1>1, <1>3, MotionListFacts
  <2> QED BY <2>1, <2>2
<1> QED BY <1>1, <1>2, <1>3

\* The collection as the author's fields: a longhand that counts is the field; else the
\* shorthand is, or nothing, if it is accepted or not there or was refused at once.
LEMMA MergedField ==
  ASSUME NEW attrs \in MotionLists, NEW f \in Longhands
  PROVE  /\ Merged(attrs, CollectedFrom(attrs)) \in FieldRecords
         /\ Field(attrs, f) \in {NoFields[f], Merged(attrs, CollectedFrom(attrs))[f]}
         /\ "refused" \notin Env /\ CollectedFrom(attrs).seen =>
              Field(attrs, f) = Merged(attrs, CollectedFrom(attrs))[f]
         /\ ~CollectedFrom(attrs).seen => Field(attrs, f) = NoFields[f]
<1> DEFINE st == CollectedFrom(attrs)
           n == Len(attrs)
           to == Merged(attrs, st)
<1>1. Knows(st, attrs, n)
  BY CollectedKnows
<1> HIDE DEF st
<1>2. st \in Collections
  BY <1>1 DEF Knows
<1>3. to = [g \in Longhands |-> IF g \in st.claimed THEN st.long[g] ELSE st.short[g]]
  BY NoFieldsFacts DEF Merged
<1>4. to \in FieldRecords
  BY <1>2, <1>3 DEF Collections, FieldRecords, Longhands
<1>5. f # "transition"
  BY DEF Longhands
<1>6. CASE f \in st.claimed
  <2>1. PICK j \in 1 .. n : attrs[j].kind = f /\ Counts(attrs[j])
    BY <1>1, <1>6 DEF Knows
  <2>2. st.long[f] = attrs[j].val /\ st.seen
    BY <1>1, <1>5, <2>1 DEF Knows
  <2>3. Field(attrs, f) = attrs[j].val
    <3>1. Valid(attrs, f) # {} /\ (CHOOSE a \in Valid(attrs, f) : TRUE) = attrs[j]
      BY <2>1, ValidFacts
    <3> QED BY <3>1 DEF Field
  <2> QED BY <1>3, <1>4, <1>6, <2>2, <2>3 DEF st
<1>7. CASE f \notin st.claimed
  <2>1. Valid(attrs, f) = {}
    <3> SUFFICES ASSUME NEW a \in Valid(attrs, f) PROVE FALSE
      OBVIOUS
    <3>1. PICK j \in 1 .. n : attrs[j].kind = f /\ Counts(attrs[j])
      BY ValidFacts
    <3> QED BY <1>1, <1>5, <1>7, <3>1 DEF Knows
  <2>2. to[f] = st.short[f]
    BY <1>3, <1>7
  <2>3. CASE Valid(attrs, "transition") # {}
    <3>1. PICK j \in 1 .. n : attrs[j].kind = "transition" /\ Counts(attrs[j])
      BY <2>3, ValidFacts
    <3>2. st.short = Shorthand(attrs[j].val).out /\ st.seen
      BY <1>1, <3>1 DEF Knows
    <3>3. Field(attrs, f) = Shorthand(attrs[j].val).out[f]
      <4>1. (CHOOSE a \in Valid(attrs, "transition") : TRUE) = attrs[j]
        BY <3>1, ValidFacts
      <4> QED BY <2>1, <2>3, <4>1 DEF Field
    <3> QED BY <1>4, <2>2, <3>2, <3>3 DEF st
  <2>4. CASE Valid(attrs, "transition") = {}
    <3>1. Field(attrs, f) = NoFields[f]
      BY <2>1, <2>4 DEF Field
    <3>2. ASSUME "refused" \notin Env, st.seen
          PROVE  st.short = NoFields
      <4>1. CASE \A j \in 1 .. n : attrs[j].kind # "transition"
        BY <1>1, <4>1 DEF Knows
      <4>2. CASE \E j \in 1 .. n : attrs[j].kind = "transition"
        <5>1. PICK j \in 1 .. n : attrs[j].kind = "transition"
          BY <4>2
        <5>2. ~Counts(attrs[j]) /\ ~Shorthand(attrs[j].val).ok
          BY <2>4, <5>1, ValidFacts DEF Counts
        <5>3. PICK i \in 1 .. n : Counts(attrs[i])
          BY <1>1, <3>2 DEF Knows
        <5>4. n # 1
          BY <5>2, <5>3
        <5>5. attrs[j].val.time = Bad /\ attrs[j].val \in Shorthands
          BY <3>2, <5>1, <5>2, <5>4, MotionListFacts, MotionAttrFacts
        <5>6. st.short = Shorthand(attrs[j].val).out
          BY <1>1, <5>1 DEF Knows
        <5> QED BY <5>5, <5>6, ShorthandFacts
      <4> QED BY <4>1, <4>2
    <3> QED BY <1>4, <2>2, <3>1, <3>2 DEF st
  <2> QED BY <2>3, <2>4
<1> QED BY <1>6, <1>7

\* The type of what the author asks for.
LEMMA AskedFacts ==
  ASSUME NEW attrs \in MotionLists
  PROVE  /\ Field(attrs, "props") \notin {None, Bad} =>
              Asked(attrs) \in Motions /\ Asked(attrs) = [f \in Longhands |-> Field(attrs, f)]
         /\ Field(attrs, "props") \in {None, Bad} => Asked(attrs) = trans.wrote
<1>1. ASSUME Field(attrs, "props") \notin {None, Bad}
      PROVE  Asked(attrs) \in Motions
  <2>1. \A f \in Longhands : Field(attrs, f) \in
          {NoFields[f], Merged(attrs, CollectedFrom(attrs))[f]}
    BY MergedField
  <2>2. Merged(attrs, CollectedFrom(attrs)) \in FieldRecords
    BY MergedField DEF Longhands
  <2> DEFINE to == Merged(attrs, CollectedFrom(attrs))
             w == [f \in Longhands |-> Field(attrs, f)]
  <2>3. Asked(attrs) = w
    BY <1>1, NoFieldsFacts DEF Asked
  <2> HIDE DEF to
  <2>4. /\ w["props"] \in {"width", "opa"} /\ w["duration"] \in {0, 100, 300}
        /\ w["delay"] \in {0, 50} /\ w["easing"] \in {"linear", Bounce}
    BY <1>1, <2>1, <2>2 DEF to, Longhands, NoFields, FieldRecords
  <2>5. w = [props |-> w["props"], duration |-> w["duration"], delay |-> w["delay"],
             easing |-> w["easing"]]
    BY DEF Longhands
  <2> HIDE DEF w
  <2> QED BY <2>3, <2>4, <2>5 DEF Motions
<1> QED BY <1>1, NoFieldsFacts DEF Asked

\* lv_xml_register_style(), the transition.
LEMMA RegisterMotionStep ==
  ASSUME IInv, NEW attrs \in MotionLists, RegisterMotion(attrs)
  PROVE  IInv'
<1> USE ThemingAssumption
<1> DEFINE all == CollectedFrom(attrs)
           f == Merged(attrs, all)
           to == IF all.seen THEN Installed(f) ELSE trans
           w == Asked(attrs)
           asks == Field(attrs, "props")
           T == [props : {"width", "opa", None}, time : {0, 100, 300}, delay : {0, 50},
                 easing : {"linear", Bounce}, live : Nat, wrote : Motions \cup {None}]
<1>1. /\ trans' = [to EXCEPT !.wrote = w]
      /\ UNCHANGED <<part, value, index, view, own, style, obj, fresh, scale>>
  BY DEF RegisterMotion
<1>2. f \in FieldRecords
  BY MergedField DEF Longhands
<1>3. trans \in T /\ scale \in Nat
  BY DEF IInv, TypeOK
<1>4. w \in Motions \cup {None}
  BY <1>3, AskedFacts
<1>5. Scaled(f.duration) \in Nat
  BY <1>2, <1>3 DEF Scaled, FieldRecords
<1>6. f.props \notin {None, Bad} =>
        Installed(f) = [props |-> f.props, time |-> f.duration, delay |-> f.delay,
                        easing |-> f.easing, live |-> Scaled(f.duration), wrote |-> trans.wrote]
  BY <1>3, ZenonT(40) DEF Installed
<1>7. f.props \in {None, Bad} => Installed(f) = trans
  BY DEF Installed
<1> HIDE DEF f, all, w, asks
<1>8. to \in T /\ to.wrote = trans.wrote
  BY <1>2, <1>3, <1>5, <1>6, <1>7 DEF FieldRecords
<1>9. /\ to.live = Scaled(to.time)
      /\ to.props = None => to.time = 0
  BY <1>2, <1>3, <1>6, <1>7 DEF IInv, MotionSound
<1>10. trans' = [props |-> to.props, time |-> to.time, delay |-> to.delay,
                 easing |-> to.easing, live |-> to.live, wrote |-> w]
  BY <1>1, <1>8
<1> HIDE DEF to
<1>11. trans' \in T /\ \A t : Scaled(t)' = Scaled(t)
  BY <1>1, <1>4, <1>8, <1>10 DEF Scaled
<1>12. "refused" \notin Env => MotionAsWritten'
  <2> SUFFICES ASSUME "refused" \notin Env
               PROVE  /\ w = None <=> to.props = None
                      /\ w # None => [g \in Longhands |-> IF g = "duration" THEN to.time
                                                          ELSE to[g]] = w
    <3>1. [g \in Longhands |-> IF g = "duration" THEN trans'.time ELSE trans'[g]]
            = [g \in Longhands |-> IF g = "duration" THEN to.time ELSE to[g]]
      BY <1>8, <1>10 DEF Longhands
    <3>2. /\ trans'.live = (trans'.time * scale') \div 256 /\ trans'.wrote = w
          /\ trans'.props = to.props
      BY <1>1, <1>9, <1>10 DEF Scaled
    <3>3. (DOMAIN NoFields)' = Longhands
      BY DEF NoFields, Longhands
    <3> QED BY <3>1, <3>2, <3>3 DEF MotionAsWritten, Scaled
  <2>1. MotionAsWritten
    BY DEF IInv, MotionSound
  <2>2. CASE ~all.seen
    <3>1. asks = None
      BY <2>2, MergedField, NoFieldsFacts DEF all, asks, Longhands
    <3>2. w = trans.wrote /\ to = trans
      BY <2>2, <3>1, AskedFacts DEF asks, w, to
    <3> QED BY <2>1, <3>2, NoFieldsFacts DEF MotionAsWritten
  <2>3. CASE all.seen
    <3>1. \A g \in Longhands : Field(attrs, g) = f[g]
      BY <2>3, MergedField DEF all, f
    <3>2. asks = f.props
      BY <3>1 DEF asks, Longhands
    <3>3. CASE f.props \in {None, Bad}
      <4>1. w = trans.wrote /\ to = trans
        BY <1>7, <2>3, <3>2, <3>3, AskedFacts DEF asks, w, to
      <4> QED BY <2>1, <4>1, NoFieldsFacts DEF MotionAsWritten
    <3>4. CASE f.props \notin {None, Bad}
      <4>1. w \in Motions /\ w = [g \in Longhands |-> f[g]]
        BY <3>1, <3>2, <3>4, AskedFacts DEF asks, w
      <4>2. /\ to.props = f.props /\ to.time = f.duration /\ to.delay = f.delay
            /\ to.easing = f.easing
        BY <1>6, <2>3, <3>4 DEF to
      <4>3. w # None /\ to.props # None
        BY <3>4, <4>1, <4>2
      <4>4. \A g \in Longhands : (IF g = "duration" THEN to.time ELSE to[g]) = f[g]
        BY <4>2 DEF Longhands
      <4> QED BY <4>1, <4>3, <4>4
    <3> QED BY <3>3, <3>4
  <2> QED BY <2>2, <2>3
<1>13. MotionSound'
  BY <1>9, <1>10, <1>11, <1>12 DEF MotionSound
<1>14. TypeOK'
  BY <1>1, <1>11 DEF IInv, TypeOK
<1>15. Registered' = Registered
  BY <1>1 DEF Registered
<1>16. IndexSound' /\ ViewSound' /\ ObjSound(obj)' /\ \A o \in Owners : StyleSound(style[o])'
  BY <1>1, <1>15 DEF IInv, IndexSound, ViewSound, Settled, ObjSound, StyleSound
<1> QED BY <1>13, <1>14, <1>16 DEF IInv

\* lv_xml_set_transition_scale(): the transition runs at the new scale.
LEMMA SetScaleStep ==
  ASSUME IInv, NEW s \in Scales, SetScale(s)
  PROVE  IInv'
<1> DEFINE T == [props : {"width", "opa", None}, time : {0, 100, 300}, delay : {0, 50},
                 easing : {"linear", Bounce}, live : Nat, wrote : Motions \cup {None}]
<1>1. /\ scale' = s /\ s \in Nat
      /\ trans' = IF trans.props = None THEN trans ELSE [trans EXCEPT !.live = Retimed(s)]
      /\ UNCHANGED <<part, value, index, view, own, style, obj, fresh>>
  BY DEF SetScale, Scales
<1>2. trans \in T /\ MotionSound
  BY DEF IInv, TypeOK
<1>3. Retimed(s) \in Nat
  BY <1>1, <1>2 DEF Retimed
<1>4. /\ trans' \in T /\ trans'.props = trans.props /\ trans'.time = trans.time
      /\ trans'.delay = trans.delay /\ trans'.easing = trans.easing
      /\ trans'.wrote = trans.wrote
      /\ trans'.live = IF trans.props = None THEN trans.live ELSE Retimed(s)
  BY <1>1, <1>2, <1>3
<1>5. trans'.live = (trans'.time * scale') \div 256
  <2>1. CASE trans.props = None
    <3>1. trans.time = 0 /\ trans.live = (0 * scale) \div 256
      BY <1>2, <2>1 DEF MotionSound, Scaled
    <3>2. scale \in Nat
      BY DEF IInv, TypeOK
    <3> QED BY <1>1, <1>4, <2>1, <3>1, <3>2
  <2>2. CASE trans.props # None
    BY <1>1, <1>4, <2>2 DEF Retimed
  <2> QED BY <2>1, <2>2
<1>6. "refused" \notin Env => MotionAsWritten'
  <2>1. [f \in Longhands |-> IF f = "duration" THEN trans'.time ELSE trans'[f]]
          = [f \in Longhands |-> IF f = "duration" THEN trans.time ELSE trans[f]]
    BY <1>4 DEF Longhands
  <2>2. (DOMAIN NoFields)' = Longhands /\ DOMAIN NoFields = Longhands
    BY DEF NoFields, Longhands
  <2> QED BY <1>2, <1>4, <1>5, <2>1, <2>2 DEF MotionSound, MotionAsWritten, Scaled
<1>7. MotionSound'
  BY <1>2, <1>4, <1>5, <1>6 DEF MotionSound, Scaled
<1>8. TypeOK'
  BY <1>1, <1>4 DEF IInv, TypeOK
<1>9. Registered' = Registered
  BY <1>1 DEF Registered
<1>10. IndexSound' /\ ViewSound' /\ ObjSound(obj)' /\ \A o \in Owners : StyleSound(style[o])'
  BY <1>1, <1>9 DEF IInv, IndexSound, ViewSound, Settled, ObjSound, StyleSound
<1> QED BY <1>7, <1>8, <1>10 DEF IInv
-----------------------------------------------------------------------------
(* The theorems.                                                           *)

\* Every step, and a stutter, keeps the invariant.
LEMMA NextIInv == IInv /\ [Next]_vars => IInv'
<1> SUFFICES ASSUME IInv, [Next]_vars PROVE IInv'
  OBVIOUS
<1>1. ASSUME NEW n \in Consts, NEW c \in Colors, NEW oom \in BOOLEAN,
             RegisterConst(n, c, oom)
      PROVE  IInv'
  BY <1>1, RegisterConstStep
<1>2. ASSUME NEW n \in Consts, NEW c \in Colors, SetConst(n, c)
      PROVE  IInv'
  BY <1>2, SetConstStep
<1>3. CASE BeginGlobals \/ EndGlobals
  BY <1>3, GlobalsSteps
<1>4. ASSUME NEW o \in Owners, NEW l \in AttrLists, NEW sees \in Sights,
             RegisterStyle(o, l, sees)
      PROVE  IInv'
  BY <1>4, RegisterStyleStep
<1>5. CASE Reapply
  BY <1>5, ReapplyStep
<1>6. ASSUME NEW o \in Owners, NEW l \in AttrLists, ApplyInline(o, l)
      PROVE  IInv'
  BY <1>6, ApplyInlineStep
<1>7. ASSUME NEW p \in Props, NEW c \in Colors \cup {None}, Paint(p, c)
      PROVE  IInv'
  BY <1>7, PaintStep
<1>8. ASSUME NEW l \in MotionLists, RegisterMotion(l)
      PROVE  IInv'
  BY <1>8, RegisterMotionStep
<1>9. ASSUME NEW s \in Scales, SetScale(s)
      PROVE  IInv'
  BY <1>9, SetScaleStep
<1>10. CASE UNCHANGED vars
  <2>1. UNCHANGED <<part, value, index, view, own, style, obj, fresh, scale, trans>>
    BY <1>10 DEF vars
  <2>2. Registered' = Registered
    BY <2>1 DEF Registered
  <2>3. IndexSound' /\ ViewSound' /\ ObjSound(obj)' /\ \A o \in Owners : StyleSound(style[o])'
    BY <2>1, <2>2 DEF IInv, IndexSound, ViewSound, Settled, ObjSound, StyleSound
  <2>4. TypeOK' /\ MotionSound'
    BY <2>1 DEF IInv, TypeOK, MotionSound, MotionAsWritten, Scaled
  <2> QED BY <2>3, <2>4 DEF IInv
<1> QED BY <1>1, <1>2, <1>3, <1>4, <1>5, <1>6, <1>7, <1>8, <1>9, <1>10 DEF Next

LEMMA IInvAlways == Spec => []IInv
BY InitIInv, NextIInv, PTL DEF Spec

\* Every variable keeps its type: colors and the constants noted beside them, and a
\* transition whose record has no holes, whatever is refused on the way.
THEOREM ThemingTypeCorrect == Spec => []TypeOK
<1>1. IInv => TypeOK
  BY DEF IInv
<1> QED BY <1>1, IInvAlways, PTL

\* lv_xml_reapply_style_tokens(): once the colors have been set again, every named
\* style has the values that its constants have now, and what was written as a literal
\* keeps it, whatever documents of the globals, failures of the name index and
\* registrations came in between, when a document has no styles behind constants of
\* its own.
THEOREM ColorsAlwaysFollow ==
  ASSUME "own" \notin Env
  PROVE  Spec => []NamedFollow
<1>1. IInv => NamedFollow
  <2> SUFFICES ASSUME IInv, NEW o \in Owners, NEW p \in Props,
                      NEW w, w = style[o].wrote[p]
               PROVE  CASE w[1] = "tok" -> fresh => style[o].color[p] = value[w[2]]
                        [] w[1] = "lit" -> style[o].color[p] = w[2]
                        [] OTHER -> style[o].color[p] = None
    BY DEF NamedFollow
  <2>1. StyleSound(style[o])
    BY DEF IInv
  <2> QED BY <2>1 DEF StyleSound
<1> QED BY <1>1, IInvAlways, PTL

\* token_style_reapply_cb(): setting the colors again gives the value of its constant
\* to every inline color that the engine has put there last and that was written as
\* one, and touches no other.
THEOREM InlineAlwaysFollows == Spec => InlineFollow
<1>1. IInv /\ [Next]_vars =>
        [Reapply =>
           \A p \in Props :
             obj'.color[p] = IF /\ obj.wrote[p][1] = "tok"
                                /\ obj.color[p] # None /\ obj.color[p] = obj.put[p]
                             THEN value[obj.wrote[p][2]]
                             ELSE obj.color[p]]_vars
  <2> SUFFICES ASSUME IInv, Reapply, NEW p \in Props
               PROVE  obj'.color[p] = IF /\ obj.wrote[p][1] = "tok"
                                         /\ obj.color[p] # None /\ obj.color[p] = obj.put[p]
                                      THEN value[obj.wrote[p][2]]
                                      ELSE obj.color[p]
    OBVIOUS
  <2>1. obj \in ObjRecords /\ ObjSound(obj)
    BY DEF IInv, TypeOK
  <2> DEFINE moved == {q \in Props : obj.token[q] # None /\ ~Touched(obj, q)}
             now == [q \in Props |-> IF q \in moved THEN value[obj.token[q]]
                                     ELSE obj.color[q]]
  <2>2. obj'.color = now
    BY <2>1 DEF Reapply, ObjReapplied, ObjRecords
  <2>3. p \in moved <=> /\ obj.wrote[p][1] = "tok"
                        /\ obj.color[p] # None /\ obj.color[p] = obj.put[p]
    BY <2>1 DEF ObjSound, Touched
  <2>4. p \in moved => obj.token[p] = obj.wrote[p][2]
    BY <2>1 DEF ObjSound
  <2> HIDE DEF moved
  <2> QED BY <2>2, <2>3, <2>4
<1> QED BY <1>1, IInvAlways, PTL DEF Spec, InlineFollow

\* lv_xml_register_style(), lv_xml_set_transition_scale(): a style's transition is what
\* its attributes ask for, in every order of longhands and shorthand, and runs at the
\* present scale, when no refused shorthand stands next to longhands.
THEOREM MotionAlwaysAsWritten ==
  ASSUME "refused" \notin Env
  PROVE  Spec => []MotionAsWritten
<1>1. IInv => MotionAsWritten
  BY DEF IInv, MotionSound
<1> QED BY <1>1, IInvAlways, PTL
=============================================================================
