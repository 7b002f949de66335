------------------------------ MODULE MCMempool -----------------------------
(***************************************************************************)
(* Mempool for TLC: pools that start with one, two or three slots and grow *)
(* (one of them twice) while four slots are enough, so that free lists of  *)
(* up to four slots exist in every order and both kinds of pool run full.  *)
(***************************************************************************)
EXTENDS Mempool
=============================================================================
