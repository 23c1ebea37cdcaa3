------------------------- MODULE MCReactiveBindings -------------------------
(* Instance of ReactiveBindings for TLC: one input, the subjects derived from *)
(* it, one widget.  The contexts of bindings are interchangeable.             *)
EXTENDS ReactiveBindings, TLC

CONSTANTS a, d, f, o1

mcValues == {0, 1}
mcOwner == [g \in Groups |-> o1]

\* "a and d" follows a directly and, when d is derived from a, through d: a
\* glitch makes it true for a while, though it is never true once d is settled.
mcExprs == {"not a", "a and d"}
mcDeps == "not a" :> {a} @@ "a and d" :> {a, d}
mcEval ==
  [x \in mcExprs |-> [v \in [Subjects -> mcValues] |->
     IF x = "not a" THEN 1 - v[a] ELSE v[a] * v[d]]]

Symmetry == Permutations(Bindings)
=============================================================================
