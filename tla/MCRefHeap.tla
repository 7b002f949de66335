----------------------------- MODULE MCRefHeap ------------------------------
(***************************************************************************)
(* RefHeap for TLC: three local variables and four slots are enough for an *)
(* association list with one pair and a value, for lists that share a      *)
(* tail, for cycles through a pair, and for a release that destroys a list *)
(* of four cells.  Slots are interchangeable, and so are local variables.  *)
(***************************************************************************)
EXTENDS RefHeap, TLC

Symmetry == Permutations(Slots) \union Permutations(Roots)
=============================================================================
