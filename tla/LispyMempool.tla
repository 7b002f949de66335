---------------------------- MODULE LispyMempool ----------------------------
(***************************************************************************)
(* The typed pools of lispy_mempool.c, all created with MEMPOOL_AUTO_RESIZE,*)
(* by their counts (Mempool shows that the counts stand for the slots).    *)
(*                                                                         *)
(* What makes them one system is the log: alloc_slot of a full pool calls  *)
(* the pool's log BEFORE it adds the data block, and that log allocates    *)
(* from two of the very same pools: a slot of INTERNAL to print into, and, *)
(* through lrealloc, one of the size class of the message.  The variable   *)
(* stack is the C stack of those calls: stack[i + 1] is an alloc_slot that *)
(* the log called by stack[i] waits for.                                   *)
(***************************************************************************)
EXTENDS Naturals, Sequences, FiniteSets

CONSTANTS
  ObjectTypes,   \* the pools lalloc_type is called for: LVAL, CELL, LENV, ...
  Sizes,         \* the sizes lalloc_size and lrealloc are called with
  MessageSize,   \* length of a log message, with its end
  InitialCount,  \* the slots each pool is created with
  MaxTotal,      \* bound of the model: clients let no pool outgrow this
  StackLimit,    \* bound of the model: nested calls that fit on the C stack
  NULL

\* MAX_CHAR_SIZE of lispy_mempool.h.
MaxCharSize == 512

\* Bytes of a slot of each char pool (the MEMPOOL lines of init_lispy_mempools).
SlotBytes ==
  [CHAR8 |-> 8, CHAR16 |-> 16, CHAR32 |-> 32, CHAR64 |-> 64, CHAR128 |-> 128,
   CHAR256 |-> 256, CHAR512 |-> 512]

\* The test (size & bit) of C, for a bit that is a power of two.
HasBit(size, bit) == (size \div bit) % 2 = 1

\* The bits the function tests, from 512 down to 8: the first one set decides, for
\* the class above it.  Only 512 bytes themselves get a slot of their own size.
TestedBits(size) == {bit \in {8, 16, 32, 64, 128, 256, 512} : HasBit(size, bit)}
FirstBit(size) ==
  CHOOSE bit \in TestedBits(size) : \A other \in TestedBits(size) : other <= bit

BytesFor(size) ==
  IF size > MaxCharSize THEN 512
  ELSE IF TestedBits(size) = {} THEN 8
  ELSE IF FirstBit(size) >= 256 THEN 512
  ELSE 2 * FirstBit(size)

get_mempool_chartype(size) ==
  CHOOSE t \in DOMAIN SlotBytes : SlotBytes[t] = BytesFor(size)

CharTypes == {get_mempool_chartype(size) : size \in Sizes \union {MessageSize}}
Types == ObjectTypes \union {"INTERNAL"} \union CharTypes

\* The class of every log message: 54 bytes for a pool of one slot, 63 for one of
\* 51200; only from 100000 slots on does it become CHAR128.
MessageType == get_mempool_chartype(MessageSize)

ASSUME MessageSizeAssumption == MessageSize \in 54 .. 63
ASSUME CountAssumption == InitialCount \in [Types -> Nat \ {0}]
ASSUME InternalAssumption == InitialCount["INTERNAL"] = 1
ASSUME NullAssumption == NULL \notin Types

VARIABLES
  total,   \* total_slot_count of each pool
  free,    \* free_slot_count of each pool
  taken,   \* the slots of each pool that the clients hold
  old,     \* the pool of the slot the client's lrealloc gives back, or NULL
  stack    \* the alloc_slot calls in progress

vars == <<total, free, taken, old, stack>>

Frame(pool, at) == [pool |-> pool, at |-> at]
Top == stack[Len(stack)]
Idle == stack = <<>>
AtTop(label) == ~Idle /\ Top.at = label

Push(pool, at) ==
  /\ Len(stack) < StackLimit
  /\ stack' = Append([stack EXCEPT ![Len(stack)].at = at], Frame(pool, "enter"))

Init ==
  /\ total = InitialCount
  /\ free = InitialCount
  /\ taken = [t \in Types |-> 0]
  /\ old = NULL
  /\ stack = <<>>

----------------------------------------------------------------------------
(***************************************************************************)
(* What clients do.  They call when no call is in progress: the program    *)
(* has one thread.                                                         *)
(***************************************************************************)
Room(t) == free[t] > 0 \/ 2 * total[t] <= MaxTotal

lalloc_type(t) ==
  /\ Idle
  /\ Room(t)
  /\ stack' = <<Frame(t, "enter")>>
  /\ UNCHANGED <<total, free, taken, old>>

lalloc_size(size) == lalloc_type(get_mempool_chartype(size))

\* Only when the class changes does lrealloc do anything: the old slot stays taken
\* until the new one is there.
lrealloc(t, size) ==
  /\ taken[t] > 0
  /\ get_mempool_chartype(size) # t
  /\ Idle
  /\ Room(get_mempool_chartype(size))
  /\ stack' = <<Frame(get_mempool_chartype(size), "enter")>>
  /\ old' = t
  /\ UNCHANGED <<total, free, taken>>

release(t) ==
  /\ Idle
  /\ taken[t] > 0
  /\ taken' = [taken EXCEPT ![t] = @ - 1]
  /\ free' = [free EXCEPT ![t] = @ + 1]
  /\ UNCHANGED <<total, old, stack>>

----------------------------------------------------------------------------
(***************************************************************************)
(* alloc_slot, for the pool of the innermost call.                         *)
(***************************************************************************)
\* There is a slot: the call returns it, to the client or to the log below it.
HasSlot == AtTop("grown") \/ (AtTop("enter") /\ free[Top.pool] > 0)

Given(pools) == [t \in Types |-> pools[t] - (IF t = Top.pool THEN 1 ELSE 0)]
Back(pools, t) == IF t = NULL THEN pools ELSE [pools EXCEPT ![t] = @ + 1]

ReturnToClient ==
  /\ HasSlot
  /\ Len(stack) = 1
  /\ stack' = <<>>
  /\ free' = Back(Given(free), old)
  /\ taken' = [t \in Types |-> taken[t] + (IF t = Top.pool THEN 1 ELSE 0)
                                        - (IF t = old THEN 1 ELSE 0)]
  /\ old' = NULL
  /\ UNCHANGED total

\* The log goes on where it waited: with the message to copy, then to print.
Resumed(frame) == [frame EXCEPT !.at = IF @ = "message" THEN "copy" ELSE "print"]

ReturnToLog ==
  /\ HasSlot
  /\ Len(stack) > 1
  /\ LET caller == Len(stack) - 1
     IN  stack' = [i \in 1 .. caller |->
                     IF i = caller THEN Resumed(stack[i]) ELSE stack[i]]
  /\ free' = Given(free)
  /\ UNCHANGED <<total, taken, old>>

\* Mutant of CallLog: a pool that fills up during a log grows without one.
CallLogOnce ==
  /\ AtTop("enter")
  /\ free[Top.pool] = 0
  /\ IF Len(stack) > 1 THEN stack' = [stack EXCEPT ![Len(stack)].at = "grow"]
                       ELSE Push("INTERNAL", "message")
  /\ UNCHANGED <<total, free, taken, old>>

\* The pool is full: its log allocates the buffer of the message ...
CallLog ==
  /\ AtTop("enter")
  /\ free[Top.pool] = 0
  /\ Push("INTERNAL", "message")
  /\ UNCHANGED <<total, free, taken, old>>

\* ... and lrealloc a slot of the size of the message.
CopyMessage ==
  /\ AtTop("copy")
  /\ Push(MessageType, "print")
  /\ UNCHANGED <<total, free, taken, old>>

\* Mutant of PrintMessage: lrealloc does not release the old slot.
PrintMessageKept ==
  /\ AtTop("print")
  /\ free' = [free EXCEPT ![MessageType] = @ + 1]
  /\ stack' = [stack EXCEPT ![Len(stack)].at = "grow"]
  /\ UNCHANGED <<total, taken, old>>

\* lrealloc releases the buffer, and the log, once printed, the message.
PrintMessage ==
  /\ AtTop("print")
  /\ free' = [free EXCEPT !["INTERNAL"] = @ + 1, ![MessageType] = @ + 1]
  /\ stack' = [stack EXCEPT ![Len(stack)].at = "grow"]
  /\ UNCHANGED <<total, taken, old>>

\* free_slot_count is overwritten, whatever it is by now.
add_data_block ==
  /\ AtTop("grow")
  /\ total' = [total EXCEPT ![Top.pool] = 2 * @]
  /\ free' = [free EXCEPT ![Top.pool] = total[Top.pool]]
  /\ stack' = [stack EXCEPT ![Len(stack)].at = "grown"]
  /\ UNCHANGED <<taken, old>>

alloc_slot ==
  \/ ReturnToClient
  \/ ReturnToLog
  \/ CallLog
  \/ CopyMessage
  \/ PrintMessage
  \/ add_data_block

Next ==
  \/ alloc_slot
  \/ \E t \in ObjectTypes : lalloc_type(t)
  \/ \E size \in Sizes : lalloc_size(size)
  \/ \E t \in CharTypes, size \in Sizes : lrealloc(t, size)
  \/ \E t \in Types : release(t)

\* A call that was made goes on.
Fairness == WF_vars(alloc_slot)

Spec == Init /\ [][Next]_vars /\ Fairness

----------------------------------------------------------------------------
(***************************************************************************)
(* Properties.                                                             *)
(***************************************************************************)
\* The slots of a pool that the logs in progress hold.
HeldByLogs(t) ==
  LET Holding == {i \in DOMAIN stack :
                    \/ t = "INTERNAL" /\ stack[i].at \in {"copy", "print"}
                    \/ t = MessageType /\ stack[i].at = "print" /\ i = Len(stack)}
  IN  Cardinality(Holding)

\* Every slot a pool counts as taken is held by a client or by a log in progress: the
\* log (lispy_mempool.c:19-28) gives back both slots it takes, and overwriting
\* free_slot_count loses none.
CountsAgree ==
  \A t \in Types : total[t] - free[t] = taken[t] + HeldByLogs(t)

\* A pool grows only while it is full: the log that runs between the test of
\* free_slot_count (mempool.c:62) and its overwriting (mempool.c:27) must not have
\* grown the same pool or given slots back to it.
GrowsOnlyWhenFull ==
  [][\A t \in Types : total'[t] # total[t] => free[t] = 0]_vars

\* As long as there is a slot for the message, a call for any pool returns, having
\* grown the pool if it was full.
AllocReturns ==
  (~Idle /\ free[MessageType] > 0) ~> Idle

\* "These pools will dynamically grow as the program requests more of the type of
\* objects" (readme.org:101): a full pool that is asked for a slot gets more slots.
PoolsGrow ==
  \A t \in Types :
    (~Idle /\ stack[1] = Frame(t, "enter") /\ free[t] = 0) ~> (free[t] > 0)
=============================================================================
