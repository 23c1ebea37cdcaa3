-------------------------- MODULE MCScopeLifecycle --------------------------
(* Instance of ScopeLifecycle for TLC.  The identities of objects and of      *)
(* scope allocations are interchangeable: no definition tells them apart, and *)
(* the one CHOOSE over scopes has at most one candidate (LookupsExact).       *)
EXTENDS ScopeLifecycle, TLC

Symmetry == Permutations(Objs) \cup Permutations(Scopes)
=============================================================================
