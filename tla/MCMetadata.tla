------------------------------ MODULE MCMetadata ------------------------------
(* Instance of Metadata for TLC.  Names are interchangeable.                  *)
EXTENDS Metadata, TLC

Symmetry == Permutations(Names)
=============================================================================
