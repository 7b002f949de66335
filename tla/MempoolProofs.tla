---------------------------- MODULE MempoolProofs ---------------------------
(***************************************************************************)
(* The free-list discipline of mempool.c, for every initial slot count and *)
(* every number of resizes.                                                *)
(***************************************************************************)
EXTENDS Mempool, FiniteSetTheorems, TLAPS

\* The inductive invariant.
IInv ==
  /\ TypeOK
  /\ CountsPlaced
  /\ FreeListOK
  /\ SlotsPartitioned
  /\ HeldCounted

\* A pointer is a slot when its block exists and is long enough.
LEMMA SlotsOfMembership ==
  ASSUME NEW bs \in Seq(Nat \ {0}), NEW p
  PROVE  p \in SlotsOf(bs) <=>
           p \in Ptr /\ p[1] \in 1 .. Len(bs) /\ p[2] < bs[p[1]]
<1>1. /\ DOMAIN bs = 1 .. Len(bs)
      /\ \A b \in 1 .. Len(bs) : bs[b] \in Nat \ {0}
  OBVIOUS
<1>2. ASSUME p \in SlotsOf(bs)
      PROVE  p \in Ptr /\ p[1] \in 1 .. Len(bs) /\ p[2] < bs[p[1]]
  <2>1. PICK b \in 1 .. Len(bs) : p \in {b} \X (0 .. (bs[b] - 1))
    BY <1>1, <1>2 DEF SlotsOf
  <2>2. p = <<p[1], p[2]>> /\ p[1] = b /\ p[2] \in 0 .. (bs[b] - 1)
    BY <2>1
  <2>3. bs[b] \in Nat
    BY <1>1
  <2> QED BY <2>2, <2>3 DEF Ptr
<1>3. ASSUME p \in Ptr, p[1] \in 1 .. Len(bs), p[2] < bs[p[1]]
      PROVE  p \in SlotsOf(bs)
  <2>1. p \in {p[1]} \X (0 .. (bs[p[1]] - 1))
    BY <1>1, <1>3 DEF Ptr
  <2> QED BY <2>1, <1>1, <1>3 DEF SlotsOf
<1> QED BY <1>2, <1>3

\* A freshly created pool satisfies the invariant.
LEMMA InitIInv == Init => IInv
<1> SUFFICES ASSUME Init PROVE IInv
  OBVIOUS
<1>1. PICK count \in Nat \ {0} :
        /\ blocks = <<count>>
        /\ total_slot_count = count
        /\ free_slot_count = count
  BY SlotCountsAssumption DEF Init
<1>2. TypeOK
  BY <1>1 DEF Init, TypeOK, Ptr
<1>3. CountsPlaced
  BY <1>1 DEF Init, CountsPlaced
<1>4. FreeListOK
  <2>1. ListLength = 0
    BY <1>1 DEF Init, ListLength
  <2>2. Threads([i \in 1 .. 0 |-> <<1, 0>>], 0)
    BY DEF Init, Threads
  <2> QED BY <2>1, <2>2 DEF FreeListOK, Threads
<1>5. SlotsPartitioned
  <2>1. \A p : p \notin InitialisedSlots
    BY <1>1, <1>2, SlotsOfMembership DEF InitialisedSlots, PoolSlots, TypeOK, Init, Ptr
  <2>2. held = {} /\ DOMAIN link = {}
    BY DEF Init
  <2> QED BY <2>1, <2>2 DEF SlotsPartitioned
<1>6. HeldCounted
  BY <1>1, FS_EmptySet DEF Init, HeldCounted
<1> QED BY <1>2, <1>3, <1>4, <1>5, <1>6 DEF IInv

\* The counts decide what kind of slot comes next: the free list is empty exactly
\* when every initialised slot is taken, and then some of the last block is left
\* unless nothing is free at all.
LEMMA EmptyListByCounts ==
  ASSUME IInv, initialised_count = total_slot_count - free_slot_count
  PROVE  /\ DOMAIN link = {}
         /\ held = InitialisedSlots
         /\ free_slot_count # 0 => uninitialised_p[2] < blocks[Len(blocks)]
<1>1. ListLength = 0
  BY DEF ListLength, IInv, TypeOK
<1>2. PICK stack : Threads(stack, 0)
  BY <1>1 DEF IInv, FreeListOK
<1>3. DOMAIN link = {}
  BY <1>2 DEF Threads
<1>4. held = InitialisedSlots
  BY <1>3 DEF IInv, SlotsPartitioned
<1>5. blocks[Len(blocks)] \in Nat /\ uninitialised_p[2] \in Nat
  BY DEF IInv, TypeOK, CountsPlaced, Ptr
<1>6. free_slot_count # 0 => uninitialised_p[2] < blocks[Len(blocks)]
  BY <1>5 DEF IInv, TypeOK, CountsPlaced
<1> QED BY <1>3, <1>4, <1>6

\* A pool without a free slot has handed out every slot it owns.
LEMMA FullMeansHeld ==
  ASSUME IInv, free_slot_count = 0
  PROVE  /\ initialised_count = total_slot_count
         /\ total_slot_count > 0
         /\ DOMAIN link = {}
         /\ held = PoolSlots
<1>1. /\ Len(blocks) \in Nat \ {0}
      /\ blocks \in Seq(Nat \ {0})
      /\ blocks[Len(blocks)] \in Nat \ {0}
      /\ uninitialised_p \in Ptr /\ uninitialised_p[2] \in Nat
  BY DEF IInv, TypeOK, CountsPlaced, Ptr
<1>2. /\ initialised_count = total_slot_count
      /\ total_slot_count > 0
      /\ uninitialised_p[2] = blocks[Len(blocks)]
  BY <1>1 DEF IInv, TypeOK, CountsPlaced
<1>3. DOMAIN link = {} /\ held = InitialisedSlots
  BY <1>2, EmptyListByCounts DEF IInv, TypeOK
<1>4. \A p : p \in InitialisedSlots <=> p \in PoolSlots
  <2> TAKE p
  <2>1. p \in PoolSlots => p[1] < uninitialised_p[1] \/ p[2] < uninitialised_p[2]
    BY <1>1, <1>2, SlotsOfMembership DEF PoolSlots, IInv, CountsPlaced, Ptr
  <2> QED BY <2>1 DEF InitialisedSlots
<1> QED BY <1>2, <1>3, <1>4

\* Handing out a slot nobody holds keeps the count of the held.
LEMMA HeldCountedAlloc ==
  ASSUME IInv, NEW slot, slot \notin held, held' = held \union {slot},
         total_slot_count' - free_slot_count'
           = total_slot_count - free_slot_count + 1
  PROVE  HeldCounted'
BY FS_AddElement DEF IInv, HeldCounted

\* Taking a slot back keeps it too; while a slot is held not all of them are free.
LEMMA HeldCountedFree ==
  ASSUME IInv, NEW slot, slot \in held, held' = held \ {slot},
         total_slot_count' - free_slot_count'
           = total_slot_count - free_slot_count - 1
  PROVE  HeldCounted' /\ free_slot_count < total_slot_count
<1>1. HeldCounted'
  BY FS_RemoveElement DEF IInv, HeldCounted
<1>2. Cardinality(held) \in Nat /\ Cardinality(held) # 0
  BY FS_CardinalityType, FS_EmptySet DEF IInv, HeldCounted
<1> QED BY <1>1, <1>2 DEF IInv, HeldCounted, TypeOK

\* Handing out the first uninitialised slot keeps the invariant and returns a slot
\* of the pool that nobody holds.
LEMMA AllocUninitialisedInv ==
  ASSUME IInv, alloc_slot,
         TakeUninitialised(total_slot_count, free_slot_count, uninitialised_p)
  PROVE  /\ IInv'
         /\ ret' \in PoolSlots \ held
         /\ PoolSlots' = PoolSlots
<1> DEFINE last == Len(blocks)
<1>1. /\ free_slot_count # 0
      /\ initialised_count = total_slot_count - free_slot_count
      /\ UNCHANGED <<auto_resize, blocks, total_slot_count, link>>
      /\ free_slot_count' = free_slot_count - 1
      /\ initialised_count' = initialised_count + 1
      /\ uninitialised_p' = Successor(uninitialised_p)
      /\ free_slot_p' = Successor(uninitialised_p)
      /\ ret' = uninitialised_p
      /\ held' = held \union {uninitialised_p}
  BY DEF alloc_slot, TakeSlot, TakeUninitialised, Return, IInv, TypeOK
<1>2. /\ DOMAIN link = {}
      /\ held = InitialisedSlots
      /\ uninitialised_p[2] < blocks[last]
  BY <1>1, EmptyListByCounts
<1>3. /\ uninitialised_p = <<last, uninitialised_p[2]>>
      /\ uninitialised_p[2] \in Nat
      /\ last \in Nat \ {0}
      /\ blocks \in Seq(Nat \ {0}) /\ blocks[last] \in Nat
  BY DEF IInv, TypeOK, CountsPlaced, Ptr
<1>4. uninitialised_p' = <<last, uninitialised_p[2] + 1>>
  BY <1>1, <1>3 DEF Successor
<1>5. TypeOK'
  <2>1. uninitialised_p' \in Ptr /\ uninitialised_p \in Ptr
    BY <1>3, <1>4 DEF Ptr
  <2>2. free_slot_count' \in Nat /\ initialised_count' \in Nat
    BY <1>1 DEF IInv, TypeOK
  <2> QED BY <1>1, <2>1, <2>2 DEF IInv, TypeOK
<1>6. CountsPlaced'
  <2>1. uninitialised_p'[1] = last /\ uninitialised_p'[2] = uninitialised_p[2] + 1
    BY <1>4
  <2>2. initialised_count = total_slot_count - blocks[last] + uninitialised_p[2]
    BY DEF IInv, CountsPlaced
  <2>3. free_slot_count' <= total_slot_count
    BY <1>1 DEF IInv, TypeOK, CountsPlaced
  <2>4. initialised_count' >= total_slot_count - free_slot_count'
    BY <1>1 DEF IInv, TypeOK
  <2>5. initialised_count' = total_slot_count - blocks[last] + uninitialised_p'[2]
    <3>1. initialised_count' = initialised_count + 1
      BY <1>1
    <3>2. /\ initialised_count \in Nat /\ total_slot_count \in Nat
          /\ blocks[last] \in Nat /\ uninitialised_p[2] \in Nat
      BY <1>3 DEF IInv, TypeOK
    <3> QED BY <3>1, <3>2, <2>1, <2>2
  <2>6. uninitialised_p'[2] <= blocks[last] /\ total_slot_count >= blocks[last]
    BY <1>2, <1>3, <2>1 DEF IInv, CountsPlaced
  <2> QED BY <1>1, <1>3, <2>1, <2>3, <2>4, <2>5, <2>6 DEF CountsPlaced
<1>7. FreeListOK'
  <2>1. ListLength' = 0
    BY <1>1 DEF ListLength, IInv, TypeOK
  <2>2. Threads([i \in 1 .. 0 |-> <<1, 0>>], 0)'
    BY <1>1, <1>2 DEF Threads
  <2> QED BY <2>1, <2>2 DEF FreeListOK, Threads
<1>8. PoolSlots' = PoolSlots
  BY <1>1 DEF PoolSlots
<1>9. \A p : p \in InitialisedSlots' <=> p \in InitialisedSlots \/ p = uninitialised_p
  <2> TAKE p
  <2>1. p \in InitialisedSlots' <=>
          /\ p \in PoolSlots
          /\ p[1] < last \/ p[2] < uninitialised_p[2] + 1
    BY <1>4, <1>8 DEF InitialisedSlots
  <2>2. p \in InitialisedSlots <=>
          /\ p \in PoolSlots
          /\ p[1] < last \/ p[2] < uninitialised_p[2]
    BY <1>3 DEF InitialisedSlots
  <2>3. p \in PoolSlots <=> p \in Ptr /\ p[1] \in 1 .. last /\ p[2] < blocks[p[1]]
    BY <1>3, SlotsOfMembership DEF PoolSlots
  <2> QED BY <2>1, <2>2, <2>3, <1>2, <1>3 DEF Ptr
<1>10. SlotsPartitioned'
  BY <1>1, <1>2, <1>9 DEF SlotsPartitioned
<1>11. uninitialised_p \in PoolSlots \ held
  <2>1. uninitialised_p \in PoolSlots
    BY <1>2, <1>3, SlotsOfMembership DEF PoolSlots, Ptr
  <2>2. uninitialised_p \notin InitialisedSlots
    BY <1>3 DEF InitialisedSlots
  <2> QED BY <1>2, <2>1, <2>2
<1>12. HeldCounted'
  <2>1. total_slot_count' - free_slot_count' = total_slot_count - free_slot_count + 1
    BY <1>1 DEF IInv, TypeOK
  <2> QED BY <1>1, <1>11, <2>1, HeldCountedAlloc
<1> QED BY <1>1, <1>5, <1>6, <1>7, <1>8, <1>10, <1>11, <1>12 DEF IInv

\* Handing out the slot freed last keeps the invariant and returns a slot of the
\* pool that nobody holds.
LEMMA AllocFreedInv ==
  ASSUME IInv, alloc_slot,
         TakeFreed(total_slot_count, free_slot_count, uninitialised_p, free_slot_p)
  PROVE  /\ IInv'
         /\ ret' \in PoolSlots \ held
         /\ PoolSlots' = PoolSlots
<1>1. /\ free_slot_count # 0
      /\ initialised_count # total_slot_count - free_slot_count
      /\ UNCHANGED <<auto_resize, blocks, total_slot_count, initialised_count,
                     uninitialised_p>>
      /\ free_slot_count' = free_slot_count - 1
      /\ free_slot_p' = link[free_slot_p]
      /\ link' = [p \in DOMAIN link \ {free_slot_p} |-> link[p]]
      /\ ret' = free_slot_p
      /\ held' = held \union {free_slot_p}
  BY DEF alloc_slot, TakeSlot, TakeFreed, Return, IInv, TypeOK
<1>2. PICK n \in Nat \ {0} : n = ListLength
  <2>1. /\ initialised_count >= total_slot_count - free_slot_count
        /\ free_slot_count <= total_slot_count
    BY DEF IInv, CountsPlaced
  <2> QED BY <1>1, <2>1 DEF IInv, TypeOK, ListLength
<1>3. PICK stack : Threads(stack, n)
  BY <1>2 DEF IInv, FreeListOK
<1>4. /\ stack \in [1 .. n -> DOMAIN link]
      /\ \A i, j \in 1 .. n : stack[i] = stack[j] => i = j
      /\ \A p \in DOMAIN link : \E i \in 1 .. n : stack[i] = p
      /\ free_slot_p = stack[n]
      /\ \A i \in 1 .. n :
           link[stack[i]] = IF i = 1 THEN uninitialised_p ELSE stack[i - 1]
  BY <1>2, <1>3 DEF Threads
<1>5. free_slot_p \in DOMAIN link
  BY <1>2, <1>4
<1>6. TypeOK'
  <2>1. free_slot_count' \in Nat
    BY <1>1 DEF IInv, TypeOK
  <2>2. /\ DOMAIN link' = DOMAIN link \ {free_slot_p}
        /\ \A p \in DOMAIN link' : link'[p] = link[p]
        /\ link' = [p \in DOMAIN link' |-> link'[p]]
    BY <1>1
  <2>3. free_slot_p \in Ptr /\ free_slot_p' \in Ptr
    BY <1>1, <1>5 DEF IInv, TypeOK
  <2> QED BY <1>1, <2>1, <2>2, <2>3 DEF IInv, TypeOK
<1>7. CountsPlaced'
  <2>1. free_slot_count' <= total_slot_count
    BY <1>1 DEF IInv, TypeOK, CountsPlaced
  <2>2. initialised_count' >= total_slot_count - free_slot_count'
    BY <1>1, <1>2 DEF IInv, TypeOK, ListLength
  <2> QED BY <1>1, <2>1, <2>2 DEF IInv, CountsPlaced
<1>8. FreeListOK'
  <2> DEFINE shorter == [i \in 1 .. n - 1 |-> stack[i]]
  <2>1. ListLength' = n - 1
    BY <1>1, <1>2 DEF ListLength, IInv, TypeOK
  <2>2. \A i \in 1 .. n - 1 : i \in 1 .. n /\ i # n
    BY <1>2
  <2>3. \A i \in 1 .. n - 1 : stack[i] \in DOMAIN link /\ stack[i] # free_slot_p
    BY <1>2, <1>4, <2>2
  <2>4. DOMAIN link' = DOMAIN link \ {free_slot_p}
    BY <1>1
  <2>5. shorter \in [1 .. n - 1 -> DOMAIN link']
    BY <2>3, <2>4
  <2>6. \A i, j \in 1 .. n - 1 : shorter[i] = shorter[j] => i = j
    BY <1>4, <2>2
  <2>7. ASSUME NEW p \in DOMAIN link' PROVE \E i \in 1 .. n - 1 : shorter[i] = p
    <3>1. PICK i \in 1 .. n : stack[i] = p
      BY <1>4, <2>4
    <3>2. i \in 1 .. n - 1
      BY <1>2, <1>4, <2>4, <3>1
    <3> QED BY <3>1, <3>2
  <2>8. free_slot_p' = IF n - 1 = 0 THEN uninitialised_p' ELSE shorter[n - 1]
    <3>1. link[stack[n]] = IF n = 1 THEN uninitialised_p ELSE stack[n - 1]
      BY <1>2, <1>4
    <3>2. n # 1 => n - 1 \in 1 .. n - 1
      BY <1>2
    <3> QED BY <1>1, <1>2, <1>4, <3>1, <3>2
  <2>9. ASSUME NEW i \in 1 .. n - 1
        PROVE  link'[shorter[i]] = IF i = 1 THEN uninitialised_p' ELSE shorter[i - 1]
    <3>1. link'[shorter[i]] = link[stack[i]]
      BY <1>1, <2>3
    <3>2. i # 1 => i - 1 \in 1 .. n - 1
      BY <1>2
    <3> QED BY <1>1, <1>4, <2>2, <3>1, <3>2
  <2>10. Threads(shorter, n - 1)'
    BY <2>5, <2>6, <2>7, <2>8, <2>9, <1>1 DEF Threads
  <2> HIDE DEF shorter
  <2> QED BY <2>1, <2>5, <2>10 DEF FreeListOK
<1>9. PoolSlots' = PoolSlots /\ InitialisedSlots' = InitialisedSlots
  BY <1>1 DEF PoolSlots, InitialisedSlots
<1>10. SlotsPartitioned'
  <2>1. DOMAIN link' = DOMAIN link \ {free_slot_p}
    BY <1>1
  <2> QED BY <1>1, <1>5, <1>9, <2>1 DEF IInv, SlotsPartitioned
<1>11. free_slot_p \in PoolSlots \ held
  BY <1>5 DEF IInv, SlotsPartitioned, InitialisedSlots
<1>12. HeldCounted'
  <2>1. total_slot_count' - free_slot_count' = total_slot_count - free_slot_count + 1
    BY <1>1 DEF IInv, TypeOK
  <2> QED BY <1>1, <1>11, <2>1, HeldCountedAlloc
<1> QED BY <1>1, <1>6, <1>7, <1>8, <1>9, <1>10, <1>11, <1>12 DEF IInv

\* A full pool that resizes keeps the invariant, keeps its slots, and returns one
\* of the new block.
LEMMA ResizingInv ==
  ASSUME IInv, alloc_slot_resizing
  PROVE  /\ IInv'
         /\ held = PoolSlots
         /\ PoolSlots \subseteq PoolSlots'
         /\ ret' \in PoolSlots' \ PoolSlots
         /\ held' = held \union {ret'}
         /\ auto_resize /\ UNCHANGED auto_resize
         /\ PoolSlots' = PoolSlots \union
              ({Len(blocks) + 1} \X (0 .. total_slot_count - 1))
         /\ total_slot_count' = total_slot_count + total_slot_count
<1>0. free_slot_count = 0 /\ auto_resize
  BY DEF alloc_slot_resizing
<1>1. PICK extra \in Nat \ {0} : extra = total_slot_count
  BY <1>0, FullMeansHeld DEF IInv, TypeOK
<1>2. PICK last \in Nat \ {0} : last = Len(blocks)
  BY DEF IInv, TypeOK, CountsPlaced
<1>3. /\ free_slot_count = 0 /\ auto_resize
      /\ initialised_count = extra
      /\ DOMAIN link = {}
      /\ held = PoolSlots
  BY <1>0, <1>1, FullMeansHeld
<1>4. ~TakeFreed(extra + extra, extra, <<last + 1, 0>>, <<last + 1, 0>>)
  BY <1>1, <1>3 DEF TakeFreed
<1>5. TakeUninitialised(extra + extra, extra, <<last + 1, 0>>)
  BY <1>1, <1>2, <1>4 DEF alloc_slot_resizing, TakeSlot
<1>6. /\ blocks' = Append(blocks, extra)
      /\ total_slot_count' = extra + extra
      /\ free_slot_count' = extra - 1
      /\ UNCHANGED auto_resize
  BY <1>1, <1>2 DEF alloc_slot_resizing, TakeSlot
<1>7. /\ initialised_count' = extra + 1
      /\ uninitialised_p' = <<last + 1, 1>>
      /\ free_slot_p' = <<last + 1, 1>>
      /\ ret' = <<last + 1, 0>>
      /\ held' = held \union {<<last + 1, 0>>}
      /\ UNCHANGED link
  BY <1>3, <1>5 DEF TakeUninitialised, Return, Successor
<1>8. /\ blocks \in Seq(Nat \ {0}) /\ blocks' \in Seq(Nat \ {0})
      /\ Len(blocks') = last + 1
      /\ blocks'[last + 1] = extra
      /\ \A b \in 1 .. last : blocks'[b] = blocks[b]
  BY <1>2, <1>6 DEF IInv, TypeOK
<1>9. TypeOK'
  <2>1. <<last + 1, 0>> \in Ptr /\ <<last + 1, 1>> \in Ptr
    BY DEF Ptr
  <2>2. /\ total_slot_count' \in Nat /\ free_slot_count' \in Nat
        /\ initialised_count' \in Nat
    BY <1>6, <1>7
  <2>3. held' \subseteq Ptr /\ ret' \in Ptr
    BY <1>7, <2>1 DEF IInv, TypeOK
  <2> QED BY <1>0, <1>3, <1>6, <1>7, <1>8, <2>1, <2>2, <2>3 DEF IInv, TypeOK
<1>10. CountsPlaced'
  BY <1>6, <1>7, <1>8 DEF CountsPlaced
<1>11. FreeListOK'
  <2>1. ListLength' = 0
    <3>1. ListLength' = extra + 1 - (extra + extra - (extra - 1))
      BY <1>6, <1>7 DEF ListLength
    <3> QED BY <3>1
  <2> DEFINE none == [i \in 1 .. 0 |-> <<1, 0>>]
  <2>2. none \in [1 .. 0 -> DOMAIN link']
    OBVIOUS
  <2>3. Threads(none, 0)'
    BY <1>3, <1>7, <2>2 DEF Threads
  <2> HIDE DEF none
  <2> QED BY <2>1, <2>2, <2>3 DEF FreeListOK
<1>12. \A p : p \in PoolSlots' <=>
              p \in PoolSlots \/ (p \in Ptr /\ p[1] = last + 1 /\ p[2] < extra)
  <2> TAKE p
  <2>1. p \in PoolSlots' <=> p \in Ptr /\ p[1] \in 1 .. last + 1 /\ p[2] < blocks'[p[1]]
    BY <1>8, SlotsOfMembership DEF PoolSlots
  <2>2. p \in PoolSlots <=> p \in Ptr /\ p[1] \in 1 .. last /\ p[2] < blocks[p[1]]
    BY <1>2, <1>8, SlotsOfMembership DEF PoolSlots
  <2>3. p \in Ptr => p[1] \in Nat
    BY DEF Ptr
  <2>4. CASE p[1] \in 1 .. last
    BY <1>8, <2>1, <2>2, <2>4
  <2>5. CASE p[1] = last + 1
    BY <1>8, <2>1, <2>2, <2>5
  <2>6. CASE p \notin Ptr \/ p[1] \notin 1 .. last + 1
    BY <2>1, <2>2, <2>6
  <2> QED BY <2>3, <2>4, <2>5, <2>6
<1>13. \A p \in PoolSlots : p \in Ptr /\ p[1] \in Nat /\ p[1] <= last
  BY <1>2, <1>8, SlotsOfMembership DEF PoolSlots, Ptr
<1>14. SlotsPartitioned'
  <2>1. \A p : p \in InitialisedSlots' <=> p \in PoolSlots \/ p = <<last + 1, 0>>
    <3> TAKE p
    <3>1. p \in InitialisedSlots' <=> p \in PoolSlots' /\ (p[1] < last + 1 \/ p[2] < 1)
      BY <1>7 DEF InitialisedSlots
    <3>2. p \in Ptr /\ p[1] = last + 1 /\ p[2] < 1 <=> p = <<last + 1, 0>>
      BY DEF Ptr
    <3> QED BY <3>1, <3>2, <1>1, <1>12, <1>13 DEF Ptr
  <2> QED BY <1>3, <1>7, <2>1 DEF SlotsPartitioned
<1>15. ret' \in PoolSlots' \ PoolSlots
  BY <1>7, <1>12, <1>13 DEF Ptr
<1>16. HeldCounted'
  <2>1. total_slot_count' - free_slot_count' = total_slot_count - free_slot_count + 1
    BY <1>1, <1>3, <1>6
  <2>2. <<last + 1, 0>> \notin held
    BY <1>3, <1>7, <1>15
  <2> QED BY <1>7, <2>1, <2>2, HeldCountedAlloc
<1>17. PoolSlots' = PoolSlots \union
               ({Len(blocks) + 1} \X (0 .. total_slot_count - 1))
  <2>1. \A p : p \in {last + 1} \X (0 .. extra - 1) <=>
                p \in Ptr /\ p[1] = last + 1 /\ p[2] < extra
    BY DEF Ptr
  <2> QED BY <1>1, <1>2, <1>12, <2>1
<1> QED BY <1>1, <1>3, <1>6, <1>7, <1>9, <1>10, <1>11, <1>12, <1>14, <1>15, <1>16, <1>17
        DEF IInv

\* Freeing a held slot keeps the invariant.
LEMMA FreeInv ==
  ASSUME IInv, NEW slot \in held, free_slot(slot)
  PROVE  IInv' /\ PoolSlots' = PoolSlots
<1>1. /\ link' = [p \in DOMAIN link \union {slot} |->
                   IF p = slot THEN free_slot_p ELSE link[p]]
      /\ free_slot_p' = slot
      /\ free_slot_count' = free_slot_count + 1
      /\ held' = held \ {slot}
      /\ UNCHANGED <<auto_resize, blocks, total_slot_count, initialised_count,
                     uninitialised_p, ret>>
  BY DEF free_slot
<1>2. slot \in Ptr /\ slot \notin DOMAIN link /\ slot \in InitialisedSlots
  BY DEF IInv, TypeOK, SlotsPartitioned
<1>3. /\ DOMAIN link' = DOMAIN link \union {slot}
      /\ link'[slot] = free_slot_p
      /\ \A p \in DOMAIN link : link'[p] = link[p]
      /\ link' = [p \in DOMAIN link' |-> link'[p]]
  BY <1>1, <1>2
<1>4. TypeOK'
  <2>1. \A p \in DOMAIN link' : p \in Ptr /\ link'[p] \in Ptr
    BY <1>2, <1>3 DEF IInv, TypeOK
  <2> QED BY <1>1, <1>2, <1>3, <2>1 DEF IInv, TypeOK
<1>5. PICK n \in Nat : n = ListLength
  BY DEF IInv, TypeOK, CountsPlaced, ListLength
<1>6. PICK stack : Threads(stack, n)
  BY <1>5 DEF IInv, FreeListOK
<1>7. /\ stack \in [1 .. n -> DOMAIN link]
      /\ \A i, j \in 1 .. n : stack[i] = stack[j] => i = j
      /\ \A p \in DOMAIN link : \E i \in 1 .. n : stack[i] = p
      /\ free_slot_p = IF n = 0 THEN uninitialised_p ELSE stack[n]
      /\ \A i \in 1 .. n :
           link[stack[i]] = IF i = 1 THEN uninitialised_p ELSE stack[i - 1]
  BY <1>6 DEF Threads
<1>8. PoolSlots' = PoolSlots /\ InitialisedSlots' = InitialisedSlots
  BY <1>1 DEF PoolSlots, InitialisedSlots
<1>9. SlotsPartitioned'
  BY <1>1, <1>2, <1>3, <1>8 DEF IInv, SlotsPartitioned
<1>10. HeldCounted' /\ free_slot_count < total_slot_count
  <2>1. total_slot_count' - free_slot_count' = total_slot_count - free_slot_count - 1
    BY <1>1 DEF IInv, TypeOK
  <2> QED BY <1>1, <2>1, HeldCountedFree
<1>11. CountsPlaced'
  <2>1. /\ free_slot_count' <= total_slot_count
        /\ initialised_count >= total_slot_count - free_slot_count'
    BY <1>1, <1>10 DEF IInv, TypeOK, CountsPlaced
  <2> QED BY <1>1, <2>1 DEF IInv, CountsPlaced
<1>12. FreeListOK'
  <2> DEFINE longer == [i \in 1 .. n + 1 |-> IF i = n + 1 THEN slot ELSE stack[i]]
  <2>1. ListLength' = n + 1
    BY <1>1, <1>5 DEF ListLength, IInv, TypeOK
  <2>2. \A i \in 1 .. n + 1 : i # n + 1 => i \in 1 .. n
    OBVIOUS
  <2>3. /\ longer[n + 1] = slot
        /\ \A i \in 1 .. n : longer[i] = stack[i]
    OBVIOUS
  <2>4. longer \in [1 .. n + 1 -> DOMAIN link']
    BY <1>3, <1>7, <2>2
  <2>5. \A i, j \in 1 .. n + 1 : longer[i] = longer[j] => i = j
    BY <1>2, <1>7, <2>2
  <2>6. ASSUME NEW p \in DOMAIN link' PROVE \E i \in 1 .. n + 1 : longer[i] = p
    <3>1. CASE p = slot
      BY <2>3, <3>1
    <3>2. CASE p # slot
      <4>1. PICK i \in 1 .. n : stack[i] = p
        BY <1>3, <1>7, <3>2
      <4> QED BY <2>3, <4>1
    <3> QED BY <3>1, <3>2
  <2>7. free_slot_p' = IF n + 1 = 0 THEN uninitialised_p' ELSE longer[n + 1]
    BY <1>1, <2>3
  <2>8. ASSUME NEW i \in 1 .. n + 1
        PROVE  link'[longer[i]] = IF i = 1 THEN uninitialised_p' ELSE longer[i - 1]
    <3>1. CASE i = n + 1
      <4>1. i # 1 => n \in 1 .. n /\ longer[i - 1] = stack[n] /\ n # 0
        BY <2>3, <3>1
      <4>2. i = 1 => n = 0
        BY <3>1
      <4> QED BY <1>1, <1>3, <1>7, <2>3, <3>1, <4>1, <4>2
    <3>2. CASE i # n + 1
      <4>1. i \in 1 .. n /\ longer[i] = stack[i]
        BY <2>2, <2>3, <3>2
      <4>2. i # 1 => i - 1 \in 1 .. n /\ longer[i - 1] = stack[i - 1]
        BY <2>3, <4>1
      <4>3. link'[longer[i]] = link[stack[i]]
        BY <1>3, <1>7, <4>1
      <4> QED BY <1>1, <1>7, <4>1, <4>2, <4>3
    <3> QED BY <3>1, <3>2
  <2> HIDE DEF longer
  <2>9. Threads(longer, n + 1)'
    BY <2>4, <2>5, <2>6, <2>7, <2>8 DEF Threads
  <2> QED BY <2>1, <2>4, <2>9 DEF FreeListOK
<1> QED BY <1>4, <1>8, <1>9, <1>10, <1>11, <1>12 DEF IInv

\* A step that leaves the struct and the held slots alone keeps the invariant.
LEMMA UnchangedIInv ==
  ASSUME IInv, ret' \in Ptr \union {NULL},
         UNCHANGED <<auto_resize, blocks, counters, uninitialised_p, free_slot_p,
                     link, held>>
  PROVE  IInv'
<1>1. TypeOK'
  BY DEF IInv, TypeOK, counters
<1>2. CountsPlaced'
  BY DEF IInv, CountsPlaced, counters
<1>3. FreeListOK'
  <2>1. ListLength' = ListLength
    BY DEF ListLength, counters
  <2>2. \A stack, n : Threads(stack, n) => Threads(stack, n)'
    BY DEF Threads
  <2> QED BY <2>1, <2>2 DEF IInv, FreeListOK
<1>4. SlotsPartitioned' /\ HeldCounted'
  BY DEF IInv, SlotsPartitioned, InitialisedSlots, PoolSlots, HeldCounted, counters
<1> QED BY <1>1, <1>2, <1>3, <1>4 DEF IInv

\* Every step keeps the inductive invariant.
LEMMA NextIInv == IInv /\ [Next]_vars => IInv'
<1> SUFFICES ASSUME IInv, [Next]_vars PROVE IInv'
  OBVIOUS
<1>1. CASE alloc_slot
  BY <1>1, AllocUninitialisedInv, AllocFreedInv DEF alloc_slot, TakeSlot
<1>2. CASE alloc_slot_resizing
  BY <1>2, ResizingInv
<1>3. CASE alloc_slot_refused
  BY <1>3, UnchangedIInv DEF alloc_slot_refused
<1>4. ASSUME NEW slot \in held, free_slot(slot) PROVE IInv'
  BY <1>4, FreeInv
<1>5. CASE UNCHANGED vars
  BY <1>5, UnchangedIInv DEF vars, IInv, TypeOK
<1> QED BY <1>1, <1>2, <1>3, <1>4, <1>5 DEF Next

LEMMA InductiveInvariant == Spec => []IInv
BY InitIInv, NextIInv, PTL DEF Spec

\* The struct and what hangs on it keep their types, for every pool.
THEOREM TypeCorrect == Spec => []TypeOK
<1>1. IInv => TypeOK
  BY DEF IInv
<1> QED BY <1>1, InductiveInvariant, PTL

\* The free list holds exactly the slots the counts promise, each once, and ends at
\* the uninitialised rest of the last block: comparing counts (mempool.c:74) never
\* makes alloc_slot follow a link that is not there or pass over one that is.
THEOREM FreeListCorrect == Spec => []FreeListOK
<1>1. IInv => FreeListOK
  BY DEF IInv
<1> QED BY <1>1, InductiveInvariant, PTL

\* No slot is at once held by a client and on the free list, and none is lost.
THEOREM NoSlotLostOrShared == Spec => []SlotsPartitioned
<1>1. IInv => SlotsPartitioned
  BY DEF IInv
<1> QED BY <1>1, InductiveInvariant, PTL

\* What the counts count: the slots of the data blocks, of which the held ones are
\* those not free.
TotalCounted ==
  IsFiniteSet(PoolSlots) /\ Cardinality(PoolSlots) = total_slot_count

LEMMA BlockCounted ==
  ASSUME NEW b, NEW n \in Nat
  PROVE  IsFiniteSet({b} \X (0 .. n - 1)) /\ Cardinality({b} \X (0 .. n - 1)) = n
<1>1. IsFiniteSet({b}) /\ Cardinality({b}) = 1
  BY FS_Singleton
<1>2. IsFiniteSet(0 .. n - 1) /\ Cardinality(0 .. n - 1) = n
  BY FS_Interval
<1>3. /\ IsFiniteSet({b} \X (0 .. n - 1))
      /\ Cardinality({b} \X (0 .. n - 1)) =
           Cardinality({b}) * Cardinality(0 .. n - 1)
  BY <1>1, <1>2, FS_Product
<1>4. 1 * n = n
  OBVIOUS
<1> QED BY <1>1, <1>2, <1>3, <1>4

LEMMA TotalCountedInvariant == Spec => []TotalCounted
<1>1. Init => TotalCounted
  <2> SUFFICES ASSUME Init PROVE TotalCounted
    OBVIOUS
  <2>1. PICK count \in Nat \ {0} : blocks = <<count>> /\ total_slot_count = count
    BY SlotCountsAssumption DEF Init
  <2>2. DOMAIN blocks = {1} /\ blocks[1] = count
    BY <2>1
  <2>3. PoolSlots = {1} \X (0 .. count - 1)
    BY <2>2 DEF PoolSlots, SlotsOf
  <2> QED BY <2>1, <2>3, BlockCounted DEF TotalCounted
<1>2. ASSUME IInv, TotalCounted, alloc_slot_resizing PROVE TotalCounted'
  <2>0. free_slot_count = 0
    BY <1>2 DEF alloc_slot_resizing
  <2>1. /\ PoolSlots' = PoolSlots \union
               ({Len(blocks) + 1} \X (0 .. total_slot_count - 1))
        /\ total_slot_count' = total_slot_count + total_slot_count
    BY <1>2, ResizingInv
  <2>2. total_slot_count \in Nat
    BY <1>2 DEF IInv, TypeOK
  <2>6. blocks \in Seq(Nat \ {0}) /\ Len(blocks) \in Nat
    BY <1>2 DEF IInv, TypeOK
  <2>3. PICK n \in Nat, b \in Nat : n = total_slot_count /\ b = Len(blocks) + 1
    BY <2>2, <2>6
  <2>4. PICK block : block = {b} \X (0 .. n - 1)
    OBVIOUS
  <2>5. IsFiniteSet(block) /\ Cardinality(block) = n
    BY <2>4, BlockCounted
  <2>7. PoolSlots \cap block = {}
    BY <2>3, <2>4, <2>6, SlotsOfMembership DEF PoolSlots
  <2>8. IsFiniteSet(PoolSlots) /\ Cardinality(PoolSlots) = n
    BY <1>2, <2>3 DEF TotalCounted
  <2>9. /\ IsFiniteSet(PoolSlots \union block)
        /\ Cardinality(PoolSlots \union block) = n + n - Cardinality(PoolSlots \cap block)
    BY <2>5, <2>8, FS_Union
  <2>10. Cardinality(PoolSlots \cap block) = 0
    BY <2>7, FS_EmptySet
  <2>11. PoolSlots' = PoolSlots \union block /\ total_slot_count' = n + n
    BY <2>1, <2>3, <2>4
  <2>12. n + n - 0 = n + n
    OBVIOUS
  <2> QED BY <2>9, <2>10, <2>11, <2>12 DEF TotalCounted
<1>3. ASSUME IInv, TotalCounted, [Next]_vars, ~alloc_slot_resizing PROVE TotalCounted'
  <2>1. UNCHANGED <<blocks, total_slot_count>>
    BY <1>3 DEF Next, vars, counters, alloc_slot, TakeSlot, alloc_slot_refused, free_slot
  <2> QED BY <1>3, <2>1 DEF TotalCounted, PoolSlots
<1>4. IInv /\ TotalCounted /\ [Next]_vars => TotalCounted'
  BY <1>2, <1>3
<1> QED BY <1>1, <1>4, InductiveInvariant, PTL DEF Spec

\* The counters tell the truth: in particular free_slot_count is 0 exactly when every
\* slot is held, for every sequence of allocations, frees and resizes.
THEOREM CountersTellTheTruth == Spec => []CountsExact
<1>1. IInv /\ TotalCounted => CountsExact
  <2> SUFFICES ASSUME IInv, TotalCounted PROVE CountsExact
    OBVIOUS
  <2>1. held \subseteq PoolSlots
    BY DEF IInv, SlotsPartitioned, InitialisedSlots
  <2>2. PoolSlots \intersect held = held
    BY <2>1
  <2>3. IsFiniteSet(PoolSlots) /\ Cardinality(PoolSlots) = total_slot_count
    BY DEF TotalCounted
  <2>4. Cardinality(held) = total_slot_count - free_slot_count
    BY DEF IInv, HeldCounted
  <2>5. Cardinality(PoolSlots \ held) = Cardinality(PoolSlots) - Cardinality(PoolSlots \cap held)
    BY <2>3, FS_Difference
  <2>6. free_slot_count \in Nat /\ total_slot_count \in Nat
    BY DEF IInv, TypeOK
  <2>7. free_slot_count = total_slot_count - (total_slot_count - free_slot_count)
    BY <2>6
  <2> QED BY <2>2, <2>3, <2>4, <2>5, <2>7 DEF CountsExact
<1> QED BY <1>1, InductiveInvariant, TotalCountedInvariant, PTL
-----------------------------------------------------------------------------
(***************************************************************************)
(* Mempool implements SlotPool.                                            *)
(***************************************************************************)
LEMMA InitPromise == Init => Promise!Init
BY DEF Init, Promise!Init

\* Every step of a pool is a step its clients were promised.
LEMMA StepPromise == IInv /\ [Next]_vars => [Promise!Next]_(Promise!vars)
<1> SUFFICES ASSUME IInv, [Next]_vars PROVE [Promise!Next]_(Promise!vars)
  OBVIOUS
<1>1. CASE alloc_slot
  <2>1. ret' \in PoolSlots \ held /\ PoolSlots' = PoolSlots
    BY <1>1, AllocUninitialisedInv, AllocFreedInv DEF alloc_slot, TakeSlot
  <2>2. held' = held \union {ret'} /\ UNCHANGED auto_resize
    BY <1>1 DEF alloc_slot, TakeSlot, TakeUninitialised, TakeFreed, Return
  <2>3. Promise!Alloc
    BY <2>1, <2>2 DEF Promise!Alloc
  <2> QED BY <2>3 DEF Promise!Next
<1>2. CASE alloc_slot_resizing
  <2>1. Promise!AllocGrowing
    BY <1>2, ResizingInv DEF Promise!AllocGrowing
  <2> QED BY <2>1 DEF Promise!Next
<1>3. CASE alloc_slot_refused
  <2>1. held = PoolSlots
    BY <1>3, FullMeansHeld DEF alloc_slot_refused
  <2>2. Promise!AllocRefused
    BY <1>3, <2>1 DEF alloc_slot_refused, Promise!AllocRefused, PoolSlots
  <2> QED BY <2>2 DEF Promise!Next
<1>4. ASSUME NEW slot \in held, free_slot(slot) PROVE Promise!Next
  <2>1. PoolSlots' = PoolSlots
    BY <1>4, FreeInv
  <2>2. Promise!Free
    BY <1>4, <2>1 DEF free_slot, Promise!Free
  <2> QED BY <2>2 DEF Promise!Next
<1>5. CASE UNCHANGED vars
  BY <1>5 DEF vars, Promise!vars, PoolSlots
<1> QED BY <1>1, <1>2, <1>3, <1>4, <1>5 DEF Next

\* mempool.c keeps its promise: allocations never return a slot in use, and a pool
\* grows or refuses only when every one of its slots is in use.
THEOREM Implementation == Spec => ImplementsSlotPool
<1>1. Init => Promise!Init
  BY InitPromise
<1>2. IInv /\ [Next]_vars => [Promise!Next]_(Promise!vars)
  BY StepPromise
<1> QED BY <1>1, <1>2, InductiveInvariant, PTL DEF Spec, ImplementsSlotPool, Promise!Spec
=============================================================================
