--------------------------- MODULE MCLispyMempool ---------------------------
(***************************************************************************)
(* LispyMempool for TLC: one pool of objects, the classes of 64 bytes (the *)
(* one of the log messages) and of 128, and the pool of the log itself.    *)
(* Each pool starts with one or two slots, so that each one fills up while *)
(* the others are full, partly full or empty.                              *)
(***************************************************************************)
EXTENDS LispyMempool

MCInitialCount ==
  [t \in {"LVAL", "INTERNAL", "CHAR64", "CHAR128"} |-> IF t = "CHAR64" THEN 2 ELSE 1]
=============================================================================
