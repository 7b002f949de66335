------------------------------- MODULE Mempool ------------------------------
(***************************************************************************)
(* One memory pool of mempool.c: slots of one size, cut lazily from data   *)
(* blocks that the bump allocator hands out, with the free list threaded   *)
(* through the freed slots themselves.  The variables are the fields of    *)
(* struct memory_pool, the memory of the freed slots, and what the clients *)
(* hold.                                                                   *)
(*                                                                         *)
(* A pointer is <<block, index>>: index slots past the start of the        *)
(* block-th data block.  The pointer <<b, size of b>> one past the end of  *)
(* a block is a value uninitialised_p really takes.                        *)
(***************************************************************************)
EXTENDS Naturals, Sequences, FiniteSets

CONSTANTS
  SlotCounts,  \* slots a pool may be created with (slot_clount of create_mempool)
  MaxSlots,    \* bound of the model: no pool grows beyond this many slots
  NULL         \* what alloc_slot returns when it refuses

ASSUME SlotCountsAssumption == SlotCounts \subseteq Nat \ {0}
ASSUME MaxSlotsAssumption == MaxSlots \in Nat
ASSUME NullAssumption == NULL \notin Nat \X Nat

VARIABLES
  auto_resize,
  blocks,             \* slots of each data block data_pointers lists
  total_slot_count,
  free_slot_count,
  initialised_count,
  uninitialised_p,
  free_slot_p,
  link,               \* first word of each freed slot: the next freed one
  held,               \* the slots the clients hold
  ret                 \* what the last alloc_slot returned

counters == <<total_slot_count, free_slot_count, initialised_count>>
vars == <<auto_resize, blocks, counters, uninitialised_p, free_slot_p, link,
          held, ret>>

Ptr == Nat \X Nat
Successor(p) == <<p[1], p[2] + 1>>

(***************************************************************************)
(* create_mempool, and the add_data_block it ends with.                    *)
(***************************************************************************)
Init ==
  /\ auto_resize \in BOOLEAN
  /\ \E count \in SlotCounts :
       /\ blocks = <<count>>
       /\ total_slot_count = count
       /\ free_slot_count = count
  /\ initialised_count = 0
  /\ uninitialised_p = <<1, 0>>
  /\ free_slot_p = <<1, 0>>
  /\ link = [p \in {} |-> p]
  /\ held = {}
  /\ ret = NULL

Return(slot) ==
  /\ ret' = slot
  /\ held' = held \union {slot}

(***************************************************************************)
(* The second half of alloc_slot, on the values that the first half left   *)
(* in the struct: a slot never used before when all the used ones are      *)
(* taken, and the slot freed last otherwise, whose first word is the next  *)
(* free slot until the client overwrites it.                               *)
(***************************************************************************)
TakeUninitialised(total, free, uninitialised) ==
  /\ initialised_count = total - free
  /\ initialised_count' = initialised_count + 1
  /\ uninitialised_p' = Successor(uninitialised)
  /\ free_slot_p' = Successor(uninitialised)
  /\ Return(uninitialised)
  /\ UNCHANGED link

\* Mutant of TakeFreed: the slot is handed out but not taken off the free list.
TakeFreedKept(total, free, uninitialised, first) ==
  /\ initialised_count # total - free
  /\ uninitialised_p' = uninitialised
  /\ Return(first)
  /\ UNCHANGED <<free_slot_p, link, initialised_count>>

TakeFreed(total, free, uninitialised, first) ==
  /\ initialised_count # total - free
  /\ free_slot_p' = link[first]
  /\ link' = [p \in DOMAIN link \ {first} |-> link[p]]
  /\ uninitialised_p' = uninitialised
  /\ Return(first)
  /\ UNCHANGED initialised_count

TakeSlot(total, free, uninitialised, first) ==
  /\ \/ TakeUninitialised(total, free, uninitialised)
     \/ TakeFreed(total, free, uninitialised, first)
  /\ total_slot_count' = total
  /\ free_slot_count' = free - 1
  /\ UNCHANGED auto_resize

\* Mutant of alloc_slot: the test for an empty pool is missing.
alloc_slot_unchecked ==
  /\ TakeSlot(total_slot_count, free_slot_count, uninitialised_p, free_slot_p)
  /\ UNCHANGED blocks

alloc_slot ==
  /\ free_slot_count # 0
  /\ TakeSlot(total_slot_count, free_slot_count, uninitialised_p, free_slot_p)
  /\ UNCHANGED blocks

\* Mutant of alloc_slot_resizing: uninitialised_p stays at the end of the old block.
alloc_slot_overrunning ==
  LET extra == total_slot_count
  IN  /\ free_slot_count = 0
      /\ auto_resize
      /\ total_slot_count + extra <= MaxSlots
      /\ blocks' = Append(blocks, extra)
      /\ TakeSlot(total_slot_count + extra, extra, uninitialised_p, free_slot_p)

\* add_data_block(mempool, total_slot_count): free_slot_count is overwritten.
alloc_slot_resizing ==
  LET extra == total_slot_count
      block == <<Len(blocks) + 1, 0>>
  IN  /\ free_slot_count = 0
      /\ auto_resize
      /\ total_slot_count + extra <= MaxSlots
      /\ blocks' = Append(blocks, extra)
      /\ TakeSlot(total_slot_count + extra, extra, block, block)

alloc_slot_refused ==
  /\ free_slot_count = 0
  /\ ~auto_resize
  /\ ret' = NULL
  /\ UNCHANGED <<auto_resize, blocks, counters, uninitialised_p, free_slot_p,
                 link, held>>

\* Mutant of free_slot: free_slot_p is set before it is saved in the slot.
free_slot_swapped(slot) ==
  /\ slot \in held
  /\ link' = [p \in DOMAIN link \union {slot} |-> IF p = slot THEN slot ELSE link[p]]
  /\ free_slot_p' = slot
  /\ free_slot_count' = free_slot_count + 1
  /\ held' = held \ {slot}
  /\ UNCHANGED <<auto_resize, blocks, total_slot_count, initialised_count,
                 uninitialised_p, ret>>

\* Clients free what they hold: free_rc_slot is reached once per allocation.
free_slot(slot) ==
  /\ slot \in held
  /\ link' = [p \in DOMAIN link \union {slot} |->
                IF p = slot THEN free_slot_p ELSE link[p]]
  /\ free_slot_p' = slot
  /\ free_slot_count' = free_slot_count + 1
  /\ held' = held \ {slot}
  /\ UNCHANGED <<auto_resize, blocks, total_slot_count, initialised_count,
                 uninitialised_p, ret>>

Next ==
  \/ alloc_slot
  \/ alloc_slot_resizing
  \/ alloc_slot_refused
  \/ \E slot \in held : free_slot(slot)

Spec == Init /\ [][Next]_vars

----------------------------------------------------------------------------
(***************************************************************************)
(* Properties.                                                             *)
(***************************************************************************)
\* The slots of data blocks of these sizes, and those of the pool.
SlotsOf(bs) == UNION {{b} \X (0 .. (bs[b] - 1)) : b \in DOMAIN bs}
PoolSlots == SlotsOf(blocks)

\* The slots that were handed out at least once.
InitialisedSlots ==
  {p \in PoolSlots : p[1] < uninitialised_p[1] \/ p[2] < uninitialised_p[2]}

\* The fields of the struct keep their types.
TypeOK ==
  /\ auto_resize \in BOOLEAN
  /\ blocks \in Seq(Nat \ {0})
  /\ total_slot_count \in Nat
  /\ free_slot_count \in Nat
  /\ initialised_count \in Nat
  /\ uninitialised_p \in Ptr
  /\ free_slot_p \in Ptr
  /\ link = [p \in DOMAIN link |-> link[p]]
  /\ \A p \in DOMAIN link : p \in Ptr /\ link[p] \in Ptr
  /\ held \subseteq Ptr
  /\ ret \in Ptr \union {NULL}

\* How many slots the counts say are on the free list.
ListLength == initialised_count - (total_slot_count - free_slot_count)

\* The free list by position: stack[n] was freed last and is allocated next.  Each
\* slot holds a pointer to the one freed before it, and the first to the rest of
\* the data block that was never handed out.
Threads(stack, n) ==
  /\ stack \in [1 .. n -> DOMAIN link]
  /\ \A i, j \in 1 .. n : stack[i] = stack[j] => i = j
  /\ \A p \in DOMAIN link : \E i \in 1 .. n : stack[i] = p
  /\ free_slot_p = IF n = 0 THEN uninitialised_p ELSE stack[n]
  /\ \A i \in 1 .. n :
       link[stack[i]] = IF i = 1 THEN uninitialised_p ELSE stack[i - 1]

\* alloc_slot decides between fresh and freed slots by comparing counts alone
\* (mempool.c:74): the free list must hold exactly the slots the counts say it
\* does, each once, and end at the uninitialised rest of the last block.
FreeListOK ==
  \E stack \in [1 .. ListLength -> DOMAIN link] : Threads(stack, ListLength)

\* No slot is both handed out and on the free list, and every slot before
\* uninitialised_p is in one of the two: none is lost or given out twice.
SlotsPartitioned ==
  /\ held \intersect DOMAIN link = {}
  /\ held \union DOMAIN link = InitialisedSlots

\* The counters tell the truth about the pool: resizing overwrites free_slot_count
\* (mempool.c:27) instead of adding to it, which is right only when nothing is free.
CountsExact ==
  /\ total_slot_count = Cardinality(PoolSlots)
  /\ free_slot_count = Cardinality(PoolSlots \ held)

\* The uninitialised rest lies in the last data block, where the counts say.
CountsPlaced ==
  LET last == Len(blocks)
  IN  /\ last >= 1
      /\ uninitialised_p[1] = last
      /\ uninitialised_p[2] <= blocks[last]
      /\ total_slot_count >= blocks[last]
      /\ initialised_count = total_slot_count - blocks[last] + uninitialised_p[2]
      /\ free_slot_count <= total_slot_count
      /\ initialised_count >= total_slot_count - free_slot_count

\* Exactly the slots the counts call taken are held.
HeldCounted ==
  IsFiniteSet(held) /\ Cardinality(held) = total_slot_count - free_slot_count

\* The pool keeps the promise of SlotPool: no allocation returns a slot that is
\* still held, and the pool grows or refuses only when every slot is held.
Promise == INSTANCE SlotPool WITH slots <- PoolSlots, resizable <- auto_resize
ImplementsSlotPool == Promise!Spec
=============================================================================
