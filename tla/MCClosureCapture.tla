-------------------------- MODULE MCClosureCapture --------------------------
(***************************************************************************)
(* ClosureCapture for TLC: two names are enough to shadow one another, and *)
(* three variables to shadow one of two; functions nested three deep hand  *)
(* a captured symbol down through a function that does not use it.  The    *)
(* run on the index has three names, as a list of three captured symbols   *)
(* is the shortest one in which the index of an old one is wrong.          *)
(***************************************************************************)
EXTENDS ClosureCapture, TLC

Symmetry == Permutations(Names)
=============================================================================
