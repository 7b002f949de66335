------------------------------ MODULE SlotPool ------------------------------
(***************************************************************************)
(* What a pool of fixed-size slots promises its clients, whatever the data *)
(* structure behind it: alloc_slot hands out a slot of the pool nobody     *)
(* holds, free_slot takes back a slot somebody holds, a pool that may grow *)
(* does so only when every slot is taken, and a pool that may not refuses  *)
(* only then.  Mempool implements this specification.                      *)
(***************************************************************************)
CONSTANT NULL   \* what a refused allocation returns

VARIABLES
  resizable,   \* whether the pool may grow
  slots,       \* the slots the pool owns
  held,        \* the slots handed out and not given back
  ret          \* what the last alloc_slot returned

vars == <<resizable, slots, held, ret>>

Init ==
  /\ held = {}
  /\ ret = NULL

Alloc ==
  /\ slots' = slots
  /\ ret' \in slots \ held
  /\ held' = held \union {ret'}
  /\ UNCHANGED resizable

AllocGrowing ==
  /\ resizable
  /\ held = slots
  /\ slots \subseteq slots'
  /\ ret' \in slots' \ slots
  /\ held' = held \union {ret'}
  /\ UNCHANGED resizable

AllocRefused ==
  /\ ~resizable
  /\ held = slots
  /\ ret' = NULL
  /\ UNCHANGED <<resizable, slots, held>>

Free ==
  /\ \E s \in held : held' = held \ {s}
  /\ UNCHANGED <<resizable, slots, ret>>

Next == Alloc \/ AllocGrowing \/ AllocRefused \/ Free

Spec == Init /\ [][Next]_vars
=============================================================================
