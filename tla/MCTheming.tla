------------------------------ MODULE MCTheming ------------------------------
(* Instance of Theming for TLC.  Constants, colors and properties are         *)
(* interchangeable.                                                           *)
EXTENDS Theming, TLC

Symmetry == Permutations(Consts) \cup Permutations(Colors) \cup Permutations(Props)
=============================================================================
