--------------------------- MODULE MCModuleLoader ---------------------------
(***************************************************************************)
(* ModuleLoader for TLC, with pages so small that the data may need more   *)
(* than there are.  In one instance the program is main and three other    *)
(* namespaces, each with any two dependencies; in the other main and four  *)
(* that depend only on those before them, so that there are no circles.    *)
(***************************************************************************)
EXTENDS ModuleLoader

CONSTANTS a, b, c, d

MCDataSize == [m \in Modules |-> IF m = main THEN 12 ELSE IF m = a THEN 10 ELSE 8]
MCFnTableSize == [m \in Modules |-> IF m = b THEN 0 ELSE IF m = c THEN 3 ELSE 1]

MaxDeps == 2
Pairs(S) ==
  {s \in UNION {[1 .. n -> S] : n \in 0 .. MaxDeps} : Cardinality(Range(s)) = Len(s)}
AnyOrders == [ns \in Namespaces |-> Pairs(Namespaces \ {ns})]

UpTo(ns) ==
  CASE ns = main -> <<a, b, c, d>>
    [] ns = d -> <<a, b, c>>
    [] ns = c -> <<a, b>>
    [] ns = b -> <<a>>
    [] OTHER -> <<>>
Parts(s) == {SelectSeq(s, LAMBDA ns : ns \in S) : S \in SUBSET Range(s)}
OrdersWithoutCircles ==
  [ns \in Namespaces |-> Parts(UpTo(ns)) \union {Reverse(s) : s \in Parts(UpTo(ns))}]
=============================================================================
