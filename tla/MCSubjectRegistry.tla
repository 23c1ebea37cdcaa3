-------------------------- MODULE MCSubjectRegistry --------------------------
(* Instance of SubjectRegistry for TLC.  Scope allocations, names, and the    *)
(* subjects the parser allocates are interchangeable.                         *)
EXTENDS SubjectRegistry, TLC

Symmetry ==
  Permutations(Scopes) \cup Permutations(Made) \cup Permutations(Names)
=============================================================================
