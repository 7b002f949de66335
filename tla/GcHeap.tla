------------------------------- MODULE GcHeap -------------------------------
(***************************************************************************)
(* What the program relies on, whatever manages the memory: a heap of      *)
(* slots with two fields each, in which it can get only to what its local  *)
(* variables lead to and to what it allocates, and from which slots        *)
(* disappear only when it can no longer get to them.  RefHeap implements   *)
(* this specification by counting references.                              *)
(***************************************************************************)
CONSTANTS Slots, Roots, NULL

VARIABLES
  ref,    \* what each local variable and each field refers to, or NULL
  live    \* the slots that are allocated

vars == <<ref, live>>

Fields == {"car", "cdr"}

\* The slots one gets to from some slots by following fields.
Closed(set) ==
  \A s \in set, f \in Fields : ref[<<s, f>>] \in set \union {NULL}
ReachableFrom(start) ==
  {s \in live : \A set \in SUBSET live : start \subseteq set /\ Closed(set) => s \in set}
Reachable == ReachableFrom({ref[r] : r \in Roots} \ {NULL})

Init ==
  /\ \A r \in Roots : ref[r] = NULL
  /\ live = {}

\* The program moves references it can get to, into variables and fields it can get to.
Compute ==
  LET new == live' \ live
      within == Reachable \union new
  IN  /\ live \subseteq live'
      /\ \A r \in Roots : ref'[r] \in within \union {NULL}
      /\ \A s \in within, f \in Fields : ref'[<<s, f>>] \in within \union {NULL}
      /\ \A s \in Slots \ within, f \in Fields : ref'[<<s, f>>] = ref[<<s, f>>]

\* The memory manager takes what the program cannot get to, and nothing else changes.
Collect ==
  /\ live' \subseteq live
  /\ Reachable \subseteq live'
  /\ \A r \in Roots : ref'[r] = ref[r]
  /\ \A s \in Reachable, f \in Fields : ref'[<<s, f>>] = ref[<<s, f>>]

Next == Compute \/ Collect

Spec == Init /\ [][Next]_vars
=============================================================================
