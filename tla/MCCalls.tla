------------------------------- MODULE MCCalls ------------------------------
(***************************************************************************)
(* Calls for TLC: every parameter vector of up to two more than the        *)
(* maximum, with at most one & anywhere in it.                             *)
(***************************************************************************)
EXTENDS Calls

MCParams ==
  {p \in UNION {[1 .. n -> {"&", "name"}] : n \in 0 .. MAX_FN_PARAMS + 2} :
     \A i, j \in DOMAIN p : p[i] = "&" /\ p[j] = "&" => i = j}
=============================================================================
