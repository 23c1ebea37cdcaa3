------------------------------ MODULE Patterns ------------------------------
(***************************************************************************)
(* Regular expressions over symbols, as a grammar's productions write      *)
(* them.  A pattern is followed through a text from a set of positions to  *)
(* a set of positions; the position 0 stands for a text that ended while   *)
(* the pattern wanted more.                                                *)
(***************************************************************************)
EXTENDS Naturals, Sequences

Never         == [op |-> "never"]
Possible(A)   == A.op # "never"
OneOf(S)      == IF S = {} THEN Never ELSE [op |-> "one", of |-> S]
Is(symbol)    == OneOf({symbol})
Either(As)    == LET some == SelectSeq(As, Possible)
                 IN  IF some = <<>> THEN Never ELSE [op |-> "or", of |-> some]
Or(A, B)      == Either(<<A, B>>)
Cat(A, B)     == IF Possible(A) /\ Possible(B) THEN [op |-> "cat", of |-> <<A, B>>]
                 ELSE Never
Cat3(A, B, C) == Cat(A, Cat(B, C))
Empty         == [op |-> "empty"]
Opt(A)        == Or(Empty, A)
Many(A)       == IF Possible(A) THEN [op |-> "many", of |-> A] ELSE Empty
Some(A)       == Cat(A, Many(A))

RECURSIVE Reach(_, _, _)
Reach(A, s, P) ==
  CASE A.op = "one"   -> {p + 1 : p \in {q \in P \cap 1..Len(s) : s[q] \in A.of}}
                         \cup (IF P \cap {0, Len(s) + 1} # {} THEN {0} ELSE {})
    [] A.op = "or"    -> UNION {Reach(A.of[i], s, P) : i \in DOMAIN A.of}
    [] A.op = "cat"   -> LET Q == Reach(A.of[1], s, P)
                         IN  IF Q = {} THEN {} ELSE Reach(A.of[2], s, Q)
    [] A.op = "empty" -> P
    [] A.op = "never" -> {}
    [] A.op = "many"  -> LET more == Reach(A.of, s, P) \ P
                         IN  IF more = {} THEN P ELSE P \cup Reach(A, s, more)

Matches(A, s) == Len(s) + 1 \in Reach(A, s, {1})
Begins(A, s)  == Reach(A, s, {1}) \cap {0, Len(s) + 1} # {}
=============================================================================
