------------------------- MODULE LispyMempoolProofs -------------------------
(***************************************************************************)
(* The log that allocates from the pools it reports on loses no slot, no   *)
(* pool grows before it is full, and a call comes to its end or it never   *)
(* can, for any pools, sizes and depth of the C stack.                     *)
(***************************************************************************)
EXTENDS LispyMempool, FiniteSetTheorems, SequenceTheorems, TLAPS

Labels == {"enter", "message", "copy", "print", "grow", "grown"}
Frames == [pool : Types, at : Labels]

TypeOK ==
  /\ total \in [Types -> Nat \ {0}]
  /\ free \in [Types -> Nat]
  /\ taken \in [Types -> Nat]
  /\ old \in Types \union {NULL}
  /\ stack \in Seq(Frames)

\* A log that waits for its buffer waits for INTERNAL, one that waits for the slot of
\* its message waits for the pool of that size class.
Waiting ==
  \A i \in 1 .. Len(stack) : i # Len(stack) =>
    \/ stack[i].at = "message" /\ stack[i + 1].pool = "INTERNAL"
    \/ stack[i].at = "print" /\ stack[i + 1].pool = MessageType

\* A pool whose log runs is full, and stays so until the pool is grown.
FullWhileLogging ==
  \A i \in 1 .. Len(stack) :
    stack[i].at \notin {"enter", "grown"} => free[stack[i].pool] = 0

\* The log of one of the two pools that logs themselves use never gets what it waits
\* for: INTERNAL waits for itself, and the size class of the message for itself too.
LogsOfLogPools ==
  \A i \in 1 .. Len(stack) :
    /\ stack[i].pool = "INTERNAL" => stack[i].at \in {"enter", "message"}
    /\ stack[i].pool = MessageType =>
         \/ stack[i].at \in {"enter", "message", "copy"}
         \/ stack[i].at = "print" /\ i # Len(stack)

GrownHasSlot == AtTop("grown") => free[Top.pool] > 0

OldIsTaken ==
  /\ Idle => old = NULL
  /\ old # NULL => taken[old] > 0

\* The inductive invariant.
IInv ==
  /\ TypeOK
  /\ Waiting
  /\ FullWhileLogging
  /\ LogsOfLogPools
  /\ GrownHasSlot
  /\ OldIsTaken
  /\ CountsAgree

-----------------------------------------------------------------------------
(***************************************************************************)
(* The pools that logs use, and the moves of the stack.                    *)
(***************************************************************************)
\* get_mempool_chartype of a message of 54 to 63 bytes is CHAR64: the highest bit of
\* its size is 32.
LEMMA MessageTypeIsChar64 == MessageType = "CHAR64"
<1>1. /\ HasBit(MessageSize, 32) /\ ~HasBit(MessageSize, 64) /\ ~HasBit(MessageSize, 128)
      /\ ~HasBit(MessageSize, 256) /\ ~HasBit(MessageSize, 512)
      /\ MessageSize \in Nat /\ ~(MessageSize > 512)
  BY MessageSizeAssumption DEF HasBit
<1>2. /\ 32 \in TestedBits(MessageSize)
      /\ \A bit \in TestedBits(MessageSize) : bit \in {8, 16, 32}
  BY <1>1 DEF TestedBits
<1>3. FirstBit(MessageSize) = 32
  <2>1. \A bit \in TestedBits(MessageSize) : bit <= 32
    BY <1>2
  <2>2. \A bit \in TestedBits(MessageSize) :
          (\A other \in TestedBits(MessageSize) : other <= bit) => bit = 32
    BY <1>2
  <2> QED BY <1>2, <2>1, <2>2 DEF FirstBit
<1>4. BytesFor(MessageSize) = 64
  BY <1>1, <1>2, <1>3 DEF BytesFor, MaxCharSize
<1>5. /\ "CHAR64" \in DOMAIN SlotBytes /\ SlotBytes["CHAR64"] = 64
      /\ \A t \in DOMAIN SlotBytes : SlotBytes[t] = 64 => t = "CHAR64"
  BY DEF SlotBytes
<1> QED BY <1>4, <1>5 DEF MessageType, get_mempool_chartype

\* INTERNAL and the pool of the messages are two pools.
LEMMA LogPools ==
  /\ "INTERNAL" \in Types /\ MessageType \in Types /\ MessageType # "INTERNAL"
  /\ NULL # "INTERNAL" /\ NULL # MessageType
<1>1. MessageType \in CharTypes
  BY DEF MessageType, CharTypes
<1> QED BY <1>1, MessageTypeIsChar64, NullAssumption DEF Types

\* A call in progress is of a pool.
LEMMA TopIsCall ==
  ASSUME TypeOK, ~Idle
  PROVE  /\ Len(stack) \in Nat /\ Len(stack) \in 1 .. Len(stack)
         /\ Top = stack[Len(stack)] /\ Top \in Frames /\ Top.pool \in Types
         /\ \A i \in 1 .. Len(stack) : stack[i] \in Frames /\ stack[i].pool \in Types
<1>1. stack \in Seq(Frames) /\ stack # <<>>
  BY DEF TypeOK, Idle
<1>2. Len(stack) \in Nat /\ Len(stack) \in 1 .. Len(stack)
  BY <1>1
<1>3. \A i \in 1 .. Len(stack) : stack[i] \in Frames
  BY <1>1
<1> QED BY <1>2, <1>3 DEF Top, Frames

\* The innermost call goes on.
LEMMA Relabelled ==
  ASSUME TypeOK, ~Idle, NEW label \in Labels,
         stack' = [stack EXCEPT ![Len(stack)].at = label]
  PROVE  /\ stack' \in Seq(Frames) /\ Len(stack') = Len(stack)
         /\ stack'[Len(stack)] = [pool |-> Top.pool, at |-> label]
         /\ \A i \in 1 .. Len(stack) : i # Len(stack) => stack'[i] = stack[i]
<1> DEFINE n == Len(stack)
<1>1. /\ stack \in Seq(Frames) /\ n \in 1 .. n /\ n \in Nat
      /\ Top = stack[n] /\ Top \in Frames /\ Top.pool \in Types
  BY TopIsCall DEF TypeOK
<1>2. [stack[n] EXCEPT !.at = label] = [pool |-> Top.pool, at |-> label]
  BY <1>1 DEF Frames
<1>3. [pool |-> Top.pool, at |-> label] \in Frames
  BY <1>1 DEF Frames
<1>4. stack' = [stack EXCEPT ![n] = [pool |-> Top.pool, at |-> label]]
  BY <1>2
<1> QED BY <1>1, <1>3, <1>4

\* The innermost call makes a log call alloc_slot.
LEMMA Pushed ==
  ASSUME TypeOK, ~Idle, NEW pool \in Types, NEW label \in Labels, Push(pool, label)
  PROVE  /\ stack' \in Seq(Frames) /\ Len(stack') = Len(stack) + 1
         /\ stack'[Len(stack) + 1] = [pool |-> pool, at |-> "enter"]
         /\ stack'[Len(stack)] = [pool |-> Top.pool, at |-> label]
         /\ \A i \in 1 .. Len(stack) : i # Len(stack) => stack'[i] = stack[i]
<1> DEFINE n == Len(stack)
           moved == [stack EXCEPT ![n].at = label]
<1>1. /\ stack \in Seq(Frames) /\ n \in 1 .. n /\ n \in Nat
      /\ Top = stack[n] /\ Top \in Frames /\ Top.pool \in Types
  BY TopIsCall DEF TypeOK
<1>2. /\ moved \in Seq(Frames) /\ Len(moved) = n
      /\ moved[n] = [pool |-> Top.pool, at |-> label]
      /\ \A i \in 1 .. n : i # n => moved[i] = stack[i]
  <2>1. [stack[n] EXCEPT !.at = label] = [pool |-> Top.pool, at |-> label]
    BY <1>1 DEF Frames
  <2>2. [pool |-> Top.pool, at |-> label] \in Frames
    BY <1>1 DEF Frames
  <2>3. moved = [stack EXCEPT ![n] = [pool |-> Top.pool, at |-> label]]
    BY <2>1
  <2> QED BY <1>1, <2>2, <2>3
<1>3. Frame(pool, "enter") = [pool |-> pool, at |-> "enter"] /\ Frame(pool, "enter") \in Frames
  BY DEF Frame, Frames, Labels
<1>4. stack' = Append(moved, Frame(pool, "enter"))
  BY DEF Push
<1> HIDE DEF moved
<1> QED BY <1>1, <1>2, <1>3, <1>4

\* A call in a log returns, and the log goes on.
LEMMA Returned ==
  ASSUME TypeOK, Len(stack) > 1,
         LET caller == Len(stack) - 1
         IN  stack' = [i \in 1 .. caller |->
                         IF i = caller THEN Resumed(stack[i]) ELSE stack[i]]
  PROVE  LET n == Len(stack) - 1
         IN  /\ stack' \in Seq(Frames) /\ Len(stack') = n /\ n \in 1 .. Len(stack)
             /\ stack'[n] = [pool |-> stack[n].pool,
                             at |-> IF stack[n].at = "message" THEN "copy" ELSE "print"]
             /\ \A i \in 1 .. n : i # n => stack'[i] = stack[i]
<1> DEFINE n == Len(stack) - 1
<1>1. stack \in Seq(Frames) /\ n \in 1 .. Len(stack) /\ n \in Nat /\ n \in 1 .. n
  BY DEF TypeOK
<1>2. \A i \in 1 .. n : stack[i] \in Frames
  BY <1>1
<1>3. /\ Resumed(stack[n]) = [pool |-> stack[n].pool,
                              at |-> IF stack[n].at = "message" THEN "copy" ELSE "print"]
      /\ Resumed(stack[n]) \in Frames
  BY <1>1, <1>2 DEF Resumed, Frames, Labels
<1>4. stack' = [i \in 1 .. n |-> IF i = n THEN Resumed(stack[i]) ELSE stack[i]]
  OBVIOUS
<1> HIDE DEF n
<1>5. \A i \in 1 .. n : (IF i = n THEN Resumed(stack[i]) ELSE stack[i]) \in Frames
  BY <1>2, <1>3
<1>6. stack' \in Seq(Frames) /\ Len(stack') = n
  BY <1>1, <1>4, <1>5
<1> QED BY <1>1, <1>3, <1>4, <1>6 DEF n

-----------------------------------------------------------------------------
(***************************************************************************)
(* What the logs hold.                                                     *)
(***************************************************************************)
\* The logs that hold a buffer.
Copying == {i \in 1 .. Len(stack) : stack[i].at \in {"copy", "print"}}
BufferHeld == Cardinality(Copying)
MessageHeld == IF AtTop("print") THEN 1 ELSE 0

\* Only two pools give slots to logs.
LEMMA HeldByLogsIs ==
  ASSUME TypeOK
  PROVE  /\ HeldByLogs("INTERNAL") = BufferHeld
         /\ HeldByLogs(MessageType) = MessageHeld
         /\ \A t : t # "INTERNAL" /\ t # MessageType => HeldByLogs(t) = 0
         /\ BufferHeld \in Nat /\ MessageHeld \in Nat
<1> DEFINE Holding(t) == {i \in DOMAIN stack :
                            \/ t = "INTERNAL" /\ stack[i].at \in {"copy", "print"}
                            \/ t = MessageType /\ stack[i].at = "print" /\ i = Len(stack)}
<1>1. stack \in Seq(Frames) /\ DOMAIN stack = 1 .. Len(stack) /\ Len(stack) \in Nat
  BY DEF TypeOK
<1>2. Holding("INTERNAL") = Copying
  BY <1>1, LogPools DEF Copying
<1>3. Holding(MessageType) = IF AtTop("print") THEN {Len(stack)} ELSE {}
  <2>1. CASE Idle
    BY <1>1, <2>1, LogPools DEF AtTop, Idle
  <2>2. CASE ~Idle
    BY <1>1, <2>2, TopIsCall, LogPools DEF AtTop
  <2> QED BY <2>1, <2>2
<1>4. Cardinality(Holding(MessageType)) = MessageHeld
  BY <1>3, FS_Singleton, FS_EmptySet DEF MessageHeld
<1>5. \A t : t # "INTERNAL" /\ t # MessageType => Cardinality(Holding(t)) = 0
  <2> SUFFICES ASSUME NEW t, t # "INTERNAL", t # MessageType
               PROVE  Cardinality(Holding(t)) = 0
    OBVIOUS
  <2>1. Holding(t) = {}
    OBVIOUS
  <2> QED BY <2>1, FS_EmptySet
<1>6. BufferHeld \in Nat
  <2>1. IsFiniteSet(1 .. Len(stack)) /\ Copying \subseteq 1 .. Len(stack)
    BY <1>1, FS_Interval DEF Copying
  <2> QED BY <2>1, FS_Subset, FS_CardinalityType DEF BufferHeld
<1> QED BY <1>2, <1>4, <1>5, <1>6 DEF HeldByLogs, BufferHeld, MessageHeld

\* The invariant on counts, in these terms.
LEMMA CountsAgreeIs ==
  ASSUME TypeOK
  PROVE  CountsAgree <=>
           \A t \in Types :
             total[t] - free[t] = taken[t] + (IF t = "INTERNAL" THEN BufferHeld ELSE 0)
                                           + (IF t = MessageType THEN MessageHeld ELSE 0)
<1>1. \A t \in Types : HeldByLogs(t) = (IF t = "INTERNAL" THEN BufferHeld ELSE 0)
                                      + (IF t = MessageType THEN MessageHeld ELSE 0)
  BY HeldByLogsIs, LogPools
<1>2. \A t \in Types : taken[t] \in Nat
  BY DEF TypeOK
<1>3. BufferHeld \in Nat /\ MessageHeld \in Nat
  BY HeldByLogsIs
<1>4. ASSUME NEW t \in Types
      PROVE  taken[t] + HeldByLogs(t) = taken[t] + (IF t = "INTERNAL" THEN BufferHeld ELSE 0)
                                           + (IF t = MessageType THEN MessageHeld ELSE 0)
  BY <1>1, <1>2, <1>3
<1> QED BY <1>4 DEF CountsAgree

\* The same after a step.
LEMMA CountsAgreeNext ==
  TypeOK' =>
    (CountsAgree' <=>
       \A t \in Types :
         total'[t] - free'[t] = taken'[t] + (IF t = "INTERNAL" THEN BufferHeld' ELSE 0)
                                          + (IF t = MessageType THEN MessageHeld' ELSE 0))
<1>1. TypeOK' =>
        (CountsAgree' <=>
           (\A t \in Types :
             total[t] - free[t] = taken[t] + (IF t = "INTERNAL" THEN BufferHeld ELSE 0)
                                           + (IF t = MessageType THEN MessageHeld ELSE 0))')
  BY CountsAgreeIs, PTL
<1> QED BY <1>1

\* A step keeps the counts when, for each pool, what it takes is what somebody gets.
LEMMA CountsKept ==
  ASSUME TypeOK, CountsAgree, TypeOK', NEW buffers \in Int, NEW messages \in Int,
         BufferHeld' = BufferHeld + buffers, MessageHeld' = MessageHeld + messages,
         \A t \in Types :
           (total'[t] - free'[t] - taken'[t]) - (total[t] - free[t] - taken[t]) =
              (IF t = "INTERNAL" THEN buffers ELSE 0)
               + (IF t = MessageType THEN messages ELSE 0)
  PROVE  CountsAgree'
<1> SUFFICES ASSUME NEW t \in Types
             PROVE  total'[t] - free'[t] =
                      taken'[t] + (IF t = "INTERNAL" THEN BufferHeld' ELSE 0)
                                + (IF t = MessageType THEN MessageHeld' ELSE 0)
  BY CountsAgreeNext
<1>1. total[t] - free[t] = taken[t] + (IF t = "INTERNAL" THEN BufferHeld ELSE 0)
                                    + (IF t = MessageType THEN MessageHeld ELSE 0)
  BY CountsAgreeIs
<1>2. (total'[t] - free'[t] - taken'[t]) - (total[t] - free[t] - taken[t]) =
        (IF t = "INTERNAL" THEN buffers ELSE 0) + (IF t = MessageType THEN messages ELSE 0)
  OBVIOUS
<1>3. /\ total[t] \in Nat /\ free[t] \in Nat /\ taken[t] \in Nat
      /\ total'[t] \in Nat /\ free'[t] \in Nat /\ taken'[t] \in Nat
  BY DEF TypeOK
<1>4. BufferHeld \in Nat /\ MessageHeld \in Nat
  BY HeldByLogsIs
<1>5. BufferHeld' = BufferHeld + buffers /\ MessageHeld' = MessageHeld + messages
  OBVIOUS
<1>6. "INTERNAL" # MessageType
  BY LogPools
<1>7. CASE t = "INTERNAL"
  BY ONLY <1>7, buffers \in Int, <1>1, <1>2, <1>3, <1>4, <1>5, <1>6
<1>8. CASE t = MessageType
  BY ONLY <1>8, messages \in Int, <1>1, <1>2, <1>3, <1>4, <1>5, <1>6
<1>9. CASE t # "INTERNAL" /\ t # MessageType
  BY ONLY <1>9, <1>1, <1>2, <1>3
<1> QED BY <1>7, <1>8, <1>9

-----------------------------------------------------------------------------
(***************************************************************************)
(* Every step keeps the invariant.                                         *)
(***************************************************************************)
\* Fresh pools have all their slots, and no call is in progress.
LEMMA InitIInv == Init => IInv
<1> SUFFICES ASSUME Init PROVE IInv
  OBVIOUS
<1>1. /\ total = InitialCount /\ free = InitialCount /\ taken = [t \in Types |-> 0]
      /\ old = NULL /\ stack = <<>> /\ Len(stack) = 0 /\ Idle
  BY DEF Init, Idle
<1>2. TypeOK
  BY <1>1, CountAssumption DEF TypeOK
<1>3. Waiting /\ FullWhileLogging /\ LogsOfLogPools /\ GrownHasSlot /\ OldIsTaken
  BY <1>1 DEF Waiting, FullWhileLogging, LogsOfLogPools, GrownHasSlot, OldIsTaken, AtTop
<1>4. Copying = {} /\ ~AtTop("print")
  BY <1>1 DEF Copying, AtTop
<1>5. BufferHeld = 0 /\ MessageHeld = 0
  BY <1>4, FS_EmptySet DEF BufferHeld, MessageHeld
<1>6. CountsAgree
  BY <1>1, <1>2, <1>5, CountsAgreeIs, CountAssumption
<1> QED BY <1>2, <1>3, <1>6 DEF IInv

\* A client's call of alloc_slot, for a new slot or in exchange for an old one.
LEMMA CallIInv ==
  ASSUME IInv, Idle, NEW t \in Types, stack' = <<Frame(t, "enter")>>,
         UNCHANGED <<total, free, taken>>,
         old' = old \/ (old' \in Types /\ taken[old'] > 0)
  PROVE  IInv'
<1>1. /\ total' = total /\ free' = free /\ taken' = taken /\ old = NULL
      /\ Len(stack) = 0 /\ stack = <<>> /\ TypeOK
  BY DEF IInv, OldIsTaken, Idle
<1>2. Frame(t, "enter") = [pool |-> t, at |-> "enter"] /\ Frame(t, "enter") \in Frames
  BY DEF Frame, Frames, Labels
<1>3. /\ Len(stack') = 1 /\ stack' \in Seq(Frames) /\ ~Idle' /\ Top' = Frame(t, "enter")
      /\ 1 .. Len(stack') = {1} /\ stack'[1] = [pool |-> t, at |-> "enter"]
  BY <1>2 DEF Idle, Top
<1>4. TypeOK'
  BY <1>1, <1>3 DEF TypeOK
<1>5. Waiting' /\ FullWhileLogging' /\ LogsOfLogPools' /\ GrownHasSlot'
  BY <1>2, <1>3 DEF Waiting, FullWhileLogging, LogsOfLogPools, GrownHasSlot, AtTop
<1>6. OldIsTaken'
  BY <1>1, <1>3 DEF OldIsTaken
<1>7. Copying = {} /\ ~AtTop("print") /\ Copying' = {} /\ ~AtTop("print")'
  BY <1>1, <1>2, <1>3 DEF Copying, AtTop, Idle
<1>8. BufferHeld' = BufferHeld /\ MessageHeld' = MessageHeld
  BY <1>7 DEF BufferHeld, MessageHeld
<1>9. CountsAgree'
  BY <1>1, <1>4, <1>8, CountsAgreeIs, CountsAgreeNext DEF IInv
<1> QED BY <1>4, <1>5, <1>6, <1>9 DEF IInv

\* A client gives a slot back between two calls.
LEMMA ReleaseIInv ==
  ASSUME IInv, NEW t \in Types, release(t)
  PROVE  IInv'
<1>1. /\ TypeOK /\ total' = total /\ old' = old /\ stack' = stack /\ old = NULL
      /\ taken' = [taken EXCEPT ![t] = @ - 1] /\ free' = [free EXCEPT ![t] = @ + 1]
      /\ taken[t] > 0 /\ stack = <<>> /\ Len(stack) = 0 /\ Idle
  BY DEF IInv, OldIsTaken, release, Idle
<1>2. TypeOK'
  BY <1>1 DEF TypeOK
<1>3. /\ Waiting' /\ FullWhileLogging' /\ LogsOfLogPools' /\ GrownHasSlot' /\ OldIsTaken'
  BY <1>1 DEF Waiting, FullWhileLogging, LogsOfLogPools, GrownHasSlot, OldIsTaken, AtTop, Idle
<1>4. Copying' = Copying /\ (AtTop("print"))' = AtTop("print")
  BY <1>1 DEF Copying, AtTop, Idle, Top
<1>5. BufferHeld' = BufferHeld /\ MessageHeld' = MessageHeld
  BY <1>4 DEF BufferHeld, MessageHeld
<1>6. CountsAgree'
  <2>1. \A u \in Types : total[u] \in Nat /\ free[u] \in Nat /\ taken[u] \in Nat
    BY <1>1 DEF TypeOK
  <2>2. \A u \in Types : total'[u] - free'[u] = total[u] - free[u] - (IF u = t THEN 1 ELSE 0)
    BY <1>1, <2>1 DEF TypeOK
  <2>3. \A u \in Types : taken'[u] = taken[u] - (IF u = t THEN 1 ELSE 0)
    BY <1>1, <2>1 DEF TypeOK
  <2>4. ASSUME NEW u \in Types
        PROVE  (total'[u] - free'[u] - taken'[u]) - (total[u] - free[u] - taken[u]) = 0
    BY <2>1, <2>2, <2>3
  <2>5. BufferHeld' = BufferHeld + 0 /\ MessageHeld' = MessageHeld + 0
    BY <1>1, <1>5, HeldByLogsIs
  <2> QED BY <1>1, <1>2, <2>4, <2>5, CountsKept DEF IInv
<1> QED BY <1>2, <1>3, <1>6 DEF IInv

\* The pool of a call that has a slot to return.
LEMMA HasSlotFacts ==
  ASSUME IInv, HasSlot
  PROVE  /\ ~Idle /\ free[Top.pool] > 0
         /\ Top.at \in {"enter", "grown"}
         /\ \A i \in 1 .. Len(stack) :
              stack[i].pool = Top.pool => stack[i].at \in {"enter", "grown"}
<1>1. ~Idle /\ Top.at \in {"enter", "grown"}
  BY DEF HasSlot, AtTop
<1>2. free[Top.pool] > 0
  BY DEF HasSlot, IInv, GrownHasSlot
<1>3. \A i \in 1 .. Len(stack) :
        stack[i].pool = Top.pool => stack[i].at \in {"enter", "grown"}
  BY <1>2 DEF IInv, FullWhileLogging
<1> QED BY <1>1, <1>2, <1>3

\* alloc_slot returns to the client, which gives back the slot it exchanges.
LEMMA ReturnToClientIInv ==
  ASSUME IInv, ReturnToClient
  PROVE  IInv'
<1>1. /\ TypeOK /\ HasSlot /\ Len(stack) = 1 /\ stack' = <<>> /\ old' = NULL
      /\ total' = total /\ free' = Back(Given(free), old)
      /\ taken' = [t \in Types |-> taken[t] + (IF t = Top.pool THEN 1 ELSE 0)
                                            - (IF t = old THEN 1 ELSE 0)]
  BY DEF IInv, ReturnToClient
<1>2. /\ ~Idle /\ Top.pool \in Types /\ Top = stack[1] /\ free[Top.pool] > 0
      /\ Top.at \in {"enter", "grown"}
      /\ old # NULL => taken[old] > 0
  BY <1>1, HasSlotFacts, TopIsCall DEF IInv, OldIsTaken
<1>3. \A t \in Types : total[t] \in Nat \ {0} /\ free[t] \in Nat /\ taken[t] \in Nat
  BY <1>1 DEF TypeOK
<1>4. /\ Given(free) \in [Types -> Nat]
      /\ \A t \in Types : Given(free)[t] = free[t] - (IF t = Top.pool THEN 1 ELSE 0)
  BY <1>2, <1>3 DEF Given
<1>5. /\ free' \in [Types -> Nat]
      /\ \A t \in Types : free'[t] = free[t] - (IF t = Top.pool THEN 1 ELSE 0)
                                             + (IF t = old THEN 1 ELSE 0)
  <2>1. CASE old = NULL
    BY <1>1, <1>4, <2>1, NullAssumption DEF Back
  <2>2. CASE old # NULL
    <3>1. free' = [Given(free) EXCEPT ![old] = @ + 1] /\ old \in Types
      BY <1>1, <2>2 DEF Back, TypeOK
    <3> QED BY <1>3, <1>4, <3>1
  <2> QED BY <2>1, <2>2
<1>6. /\ taken' \in [Types -> Nat]
      /\ \A t \in Types : taken'[t] = taken[t] + (IF t = Top.pool THEN 1 ELSE 0)
                                               - (IF t = old THEN 1 ELSE 0)
  <2>1. \A t \in Types : taken[t] + (IF t = Top.pool THEN 1 ELSE 0)
                                  - (IF t = old THEN 1 ELSE 0) \in Nat
    <3> SUFFICES ASSUME NEW t \in Types
                 PROVE  taken[t] + (IF t = Top.pool THEN 1 ELSE 0)
                                 - (IF t = old THEN 1 ELSE 0) \in Nat
      OBVIOUS
    <3>1. t = old => taken[t] > 0
      BY <1>2, NullAssumption
    <3> QED BY <1>3, <3>1
  <2> QED BY <1>1, <2>1
<1>7. TypeOK'
  BY <1>1, <1>5, <1>6 DEF TypeOK
<1>8. Len(stack') = 0 /\ Idle'
  BY <1>1 DEF Idle
<1>9. Waiting' /\ FullWhileLogging' /\ LogsOfLogPools' /\ GrownHasSlot' /\ OldIsTaken'
  <2>1. 1 .. Len(stack') = {}
    BY <1>8
  <2> QED BY <1>1, <1>8, <2>1
          DEF Waiting, FullWhileLogging, LogsOfLogPools, GrownHasSlot, OldIsTaken, AtTop
<1>10. Copying = {} /\ ~AtTop("print") /\ Copying' = {} /\ ~AtTop("print")'
  BY <1>1, <1>2, <1>8 DEF Copying, AtTop
<1>11. BufferHeld' = BufferHeld /\ MessageHeld' = MessageHeld
  BY <1>10 DEF BufferHeld, MessageHeld
<1>12. CountsAgree'
  <2>1. ASSUME NEW t \in Types
        PROVE  (total'[t] - free'[t] - taken'[t]) - (total[t] - free[t] - taken[t]) = 0
    <3>1. /\ total'[t] = total[t]
          /\ free'[t] = free[t] - (IF t = Top.pool THEN 1 ELSE 0) + (IF t = old THEN 1 ELSE 0)
          /\ taken'[t] = taken[t] + (IF t = Top.pool THEN 1 ELSE 0)
                                  - (IF t = old THEN 1 ELSE 0)
          /\ total[t] \in Nat /\ free[t] \in Nat /\ taken[t] \in Nat
      BY <1>1, <1>3, <1>5, <1>6
    <3> QED BY ONLY <3>1
  <2>2. BufferHeld' = BufferHeld + 0 /\ MessageHeld' = MessageHeld + 0
    BY <1>1, <1>11, HeldByLogsIs
  <2> QED BY <1>1, <1>7, <2>1, <2>2, CountsKept DEF IInv
<1> QED BY <1>7, <1>9, <1>12 DEF IInv

\* A log that goes on waiting for a pool, first for INTERNAL, then for the pool of the
\* message.
LEMMA PushIInv ==
  ASSUME IInv, ~Idle, NEW pool \in Types, NEW label \in Labels, Push(pool, label),
         UNCHANGED <<total, free, taken, old>>, free[Top.pool] = 0,
         \/ label = "message" /\ pool = "INTERNAL" /\ Top.at = "enter"
         \/ label = "print" /\ pool = MessageType /\ Top.at = "copy"
  PROVE  IInv'
<1> DEFINE n == Len(stack)
<1>1. /\ n \in Nat /\ n \in 1 .. n /\ Top = stack[n] /\ TypeOK
      /\ total' = total /\ free' = free /\ taken' = taken /\ old' = old
  BY TopIsCall DEF IInv
<1>2. /\ stack' \in Seq(Frames) /\ Len(stack') = n + 1
      /\ stack'[n + 1] = [pool |-> pool, at |-> "enter"]
      /\ stack'[n] = [pool |-> Top.pool, at |-> label]
      /\ \A i \in 1 .. n : i # n => stack'[i] = stack[i]
  BY <1>1, Pushed
<1>3. \A i \in 1 .. n + 1 : i = n + 1 \/ i = n \/ (i \in 1 .. n /\ i # n /\ i + 1 \in 1 .. n)
  BY <1>1
<1>4. ~Idle' /\ Top' = [pool |-> pool, at |-> "enter"]
  BY <1>1, <1>2 DEF Idle, Top
<1> HIDE DEF n
<1>5. TypeOK'
  BY <1>1, <1>2 DEF TypeOK
<1>6. Waiting'
  <2>1. \A i \in 1 .. n : i # n =>
          \/ stack[i].at = "message" /\ stack[i + 1].pool = "INTERNAL"
          \/ stack[i].at = "print" /\ stack[i + 1].pool = MessageType
    BY DEF IInv, Waiting, n
  <2>2. \A i \in 1 .. n : stack'[i].pool = stack[i].pool
    BY <1>1, <1>2
  <2> SUFFICES ASSUME NEW i \in 1 .. n + 1, i # n + 1
               PROVE  \/ stack'[i].at = "message" /\ stack'[i + 1].pool = "INTERNAL"
                      \/ stack'[i].at = "print" /\ stack'[i + 1].pool = MessageType
    BY <1>2 DEF Waiting
  <2>3. CASE i = n
    BY <1>2, <2>3
  <2>4. CASE i \in 1 .. n /\ i # n /\ i + 1 \in 1 .. n
    BY <1>2, <2>1, <2>2, <2>4
  <2> QED BY <1>3, <2>3, <2>4
<1>7. FullWhileLogging'
  BY <1>1, <1>2, <1>3 DEF IInv, FullWhileLogging, n
<1>8. LogsOfLogPools'
  <2>1. \A i \in 1 .. n :
          /\ stack[i].pool = "INTERNAL" => stack[i].at \in {"enter", "message"}
          /\ stack[i].pool = MessageType =>
               \/ stack[i].at \in {"enter", "message", "copy"}
               \/ stack[i].at = "print" /\ i # n
    BY DEF IInv, LogsOfLogPools, n
  <2> SUFFICES ASSUME NEW i \in 1 .. n + 1
               PROVE  /\ stack'[i].pool = "INTERNAL" => stack'[i].at \in {"enter", "message"}
                      /\ stack'[i].pool = MessageType =>
                           \/ stack'[i].at \in {"enter", "message", "copy"}
                           \/ stack'[i].at = "print" /\ i # n + 1
    BY <1>2 DEF LogsOfLogPools
  <2>2. CASE i = n + 1
    BY <1>2, <2>2
  <2>3. CASE i = n
    BY <1>1, <1>2, <2>1, <2>3
  <2>4. CASE i \in 1 .. n /\ i # n
    BY <1>2, <1>1, <2>1, <2>4
  <2> QED BY <1>3, <2>2, <2>3, <2>4
<1>9. GrownHasSlot' /\ OldIsTaken'
  BY <1>1, <1>4 DEF IInv, GrownHasSlot, OldIsTaken, AtTop
<1>10. Copying' = Copying
  <2>1. Copying = {i \in 1 .. n : stack[i].at \in {"copy", "print"}}
    BY DEF Copying, n
  <2>2. Copying' = {i \in 1 .. n + 1 : stack'[i].at \in {"copy", "print"}}
    BY <1>2 DEF Copying
  <2>3. \A i \in 1 .. n : i \in 1 .. n + 1
                          /\ (stack'[i].at \in {"copy", "print"}
                                <=> stack[i].at \in {"copy", "print"})
    BY <1>1, <1>2
  <2>4. stack'[n + 1].at = "enter"
    BY <1>2
  <2> QED BY <1>3, <2>1, <2>2, <2>3, <2>4
<1>11. ~AtTop("print") /\ ~AtTop("print")'
  BY <1>4 DEF AtTop
<1>12. BufferHeld' = BufferHeld + 0 /\ MessageHeld' = MessageHeld + 0
  BY <1>1, <1>10, <1>11, HeldByLogsIs DEF BufferHeld, MessageHeld
<1>13. \A t \in Types : (total'[t] - free'[t] - taken'[t]) - (total[t] - free[t] - taken[t]) = 0
  <2>1. \A t \in Types : total[t] \in Nat /\ free[t] \in Nat /\ taken[t] \in Nat
    BY <1>1 DEF TypeOK
  <2> QED BY <1>1, <2>1
<1>14. CountsAgree'
  BY <1>1, <1>5, <1>12, <1>13, CountsKept DEF IInv
<1> QED BY <1>5, <1>6, <1>7, <1>8, <1>9, <1>14 DEF IInv

\* A full pool is about to be logged.
LEMMA CallLogIInv ==
  ASSUME IInv, CallLog
  PROVE  IInv'
BY PushIInv, LogPools DEF CallLog, AtTop, Labels

\* The log has its buffer and wants the slot for the message.
LEMMA CopyMessageIInv ==
  ASSUME IInv, CopyMessage
  PROVE  IInv'
<1>1. TypeOK /\ ~Idle /\ Top.at = "copy"
  BY DEF IInv, CopyMessage, AtTop
<1>2. free[Top.pool] = 0
  BY <1>1, TopIsCall DEF IInv, FullWhileLogging
<1> QED BY <1>1, <1>2, PushIInv, LogPools DEF CopyMessage, Labels

\* A log gets a slot: never the log of the pool the slot is from, since that pool was
\* full when it called its log.
LEMMA ReturnToLogIInv ==
  ASSUME IInv, ReturnToLog
  PROVE  IInv'
<1> DEFINE n == Len(stack) - 1
           from == Top.pool
<1>1. /\ TypeOK /\ HasSlot /\ Len(stack) > 1 /\ free' = Given(free)
      /\ total' = total /\ taken' = taken /\ old' = old
  BY DEF IInv, ReturnToLog
<1>2. /\ stack' \in Seq(Frames) /\ Len(stack') = n
      /\ stack'[n] = [pool |-> stack[n].pool,
                      at |-> IF stack[n].at = "message" THEN "copy" ELSE "print"]
      /\ \A i \in 1 .. n : i # n => stack'[i] = stack[i]
  BY <1>1, Returned DEF ReturnToLog
<1>3. /\ ~Idle /\ Top = stack[n + 1] /\ from \in Types
      /\ n \in Nat /\ n > 0 /\ Len(stack) = n + 1 /\ n \in 1 .. n
      /\ \A i \in 1 .. n : i \in 1 .. n + 1 /\ i # n + 1 /\ (i # n => i + 1 \in 1 .. n)
      /\ \A i \in 1 .. n + 1 : i \in 1 .. n \/ i = n + 1
  <2>1. ~Idle /\ Len(stack) \in Nat
    BY <1>1, HasSlotFacts DEF TypeOK
  <2> QED BY <1>1, <2>1, TopIsCall
<1>4. /\ free[from] > 0 /\ Top.at \in {"enter", "grown"}
      /\ \A i \in 1 .. n : stack[i].pool = from => stack[i].at \in {"enter", "grown"}
  BY <1>1, <1>3, HasSlotFacts
<1>5. \A i \in 1 .. n : \/ stack[i].at = "message" /\ stack[i + 1].pool = "INTERNAL"
                        \/ stack[i].at = "print" /\ stack[i + 1].pool = MessageType
  BY <1>3 DEF IInv, Waiting
<1>6. \A i \in 1 .. n :
        /\ stack[i].pool = "INTERNAL" => stack[i].at \in {"enter", "message"}
        /\ stack[i].pool = MessageType =>
             stack[i].at \in {"enter", "message", "copy"} \/ stack[i].at = "print"
        /\ stack[i].at \notin {"enter", "grown"} => free[stack[i].pool] = 0
  BY <1>3 DEF IInv, LogsOfLogPools, FullWhileLogging
<1> HIDE DEF n, from
<1>7. /\ free' \in [Types -> Nat]
      /\ \A t \in Types : free'[t] = free[t] - (IF t = from THEN 1 ELSE 0)
  BY <1>1, <1>4 DEF Given, TypeOK, from
<1>8. TypeOK'
  BY <1>1, <1>2, <1>7 DEF TypeOK
<1>9. \A i \in 1 .. n : stack'[i].pool = stack[i].pool /\ stack[i].pool \in Types
  <2>1. \A i \in 1 .. n + 1 : stack[i] \in Frames
    BY <1>1, <1>3 DEF TypeOK
  <2> QED BY <1>2, <1>3, <2>1 DEF Frames
<1>10. Waiting'
  BY <1>2, <1>3, <1>5, <1>9 DEF Waiting
<1>11. FullWhileLogging'
  <2> SUFFICES ASSUME NEW i \in 1 .. n PROVE free'[stack'[i].pool] = 0
    BY <1>2 DEF FullWhileLogging
  <2>1. stack[i].at \notin {"enter", "grown"}
    BY <1>5
  <2> QED BY <1>4, <1>6, <1>7, <1>9, <2>1
<1>12. LogsOfLogPools'
  <2> SUFFICES ASSUME NEW i \in 1 .. n
               PROVE  /\ stack'[i].pool = "INTERNAL" => stack'[i].at \in {"enter", "message"}
                      /\ stack'[i].pool = MessageType =>
                           \/ stack'[i].at \in {"enter", "message", "copy"}
                           \/ stack'[i].at = "print" /\ i # n
    BY <1>2 DEF LogsOfLogPools
  <2>1. CASE i # n
    BY <1>2, <1>6, <2>1
  <2>2. CASE i = n
    BY <1>2, <1>3, <1>4, <1>5, <1>6, <2>2 DEF from
  <2> QED BY <2>1, <2>2
<1>13. ~Idle' /\ Top' = stack'[n] /\ Top'.at \in {"copy", "print"}
  BY <1>2, <1>3 DEF Idle, Top
<1>14. GrownHasSlot' /\ OldIsTaken'
  BY <1>1, <1>13 DEF IInv, GrownHasSlot, OldIsTaken, AtTop
<1>15. /\ Copying = {i \in 1 .. n : stack[i].at \in {"copy", "print"}}
       /\ Copying' = {i \in 1 .. n : stack'[i].at \in {"copy", "print"}}
       /\ MessageHeld = 0 /\ BufferHeld \in Nat
  <2>1. Copying = {i \in 1 .. n + 1 : stack[i].at \in {"copy", "print"}}
    BY <1>3 DEF Copying
  <2>2. stack[n + 1].at \notin {"copy", "print"}
    BY <1>3, <1>4
  <2>3. ~AtTop("print")
    BY <1>4 DEF AtTop
  <2> QED BY <1>1, <1>2, <1>3, <2>1, <2>2, <2>3, HeldByLogsIs DEF Copying, MessageHeld
<1>16. \A t \in Types :
         (total'[t] - free'[t] - taken'[t]) - (total[t] - free[t] - taken[t]) =
           IF t = from THEN 1 ELSE 0
  <2>1. \A t \in Types : total[t] \in Nat /\ free[t] \in Nat /\ taken[t] \in Nat
    BY <1>1 DEF TypeOK
  <2> QED BY <1>1, <1>7, <2>1
<1>17. CASE stack[n].at = "message" /\ from = "INTERNAL"
  <2>1. Copying' = Copying \union {n} /\ n \notin Copying
    BY <1>2, <1>3, <1>15, <1>17
  <2>2. IsFiniteSet(Copying)
    <3>1. IsFiniteSet(1 .. n)
      BY <1>3, FS_Interval
    <3> QED BY <1>15, <3>1, FS_Subset
  <2>3. BufferHeld' = BufferHeld + 1
    BY <2>1, <2>2, FS_AddElement DEF BufferHeld
  <2>4. MessageHeld' = MessageHeld + 0
    BY <1>2, <1>13, <1>15, <1>17 DEF MessageHeld, AtTop
  <2>5. \A t \in Types :
          (total'[t] - free'[t] - taken'[t]) - (total[t] - free[t] - taken[t]) =
            (IF t = "INTERNAL" THEN 1 ELSE 0) + (IF t = MessageType THEN 0 ELSE 0)
    BY <1>16, <1>17
  <2>6. CountsAgree'
    BY <1>1, <1>8, <2>3, <2>4, <2>5, CountsKept DEF IInv
  <2> QED BY <1>8, <1>10, <1>11, <1>12, <1>14, <2>6 DEF IInv
<1>18. CASE stack[n].at = "print" /\ from = MessageType
  <2>1. Copying' = Copying
    BY <1>2, <1>3, <1>15, <1>18
  <2>2. BufferHeld' = BufferHeld + 0
    <3>1. BufferHeld' = BufferHeld
      BY <2>1 DEF BufferHeld
    <3>2. BufferHeld \in Nat
      BY <1>15
    <3> QED BY <3>1, <3>2
  <2>3. MessageHeld' = MessageHeld + 1
    BY <1>2, <1>13, <1>15, <1>18 DEF MessageHeld, AtTop
  <2>4. \A t \in Types :
          (total'[t] - free'[t] - taken'[t]) - (total[t] - free[t] - taken[t]) =
            (IF t = "INTERNAL" THEN 0 ELSE 0) + (IF t = MessageType THEN 1 ELSE 0)
    BY <1>16, <1>18
  <2>5. CountsAgree'
    BY <1>1, <1>8, <2>2, <2>3, <2>4, CountsKept DEF IInv
  <2> QED BY <1>8, <1>10, <1>11, <1>12, <1>14, <2>5 DEF IInv
<1> QED BY <1>3, <1>5, <1>17, <1>18 DEF from

\* Only the call the client made gets as far as printing and growing: the nested ones
\* are of the pools that logs use.
LEMMA OnlyTheFirstGrows ==
  ASSUME IInv, ~Idle, Top.at \in {"print", "grow"}
  PROVE  /\ Len(stack) = 1 /\ Top = stack[1] /\ Top \in Frames /\ Top.pool \in Types
         /\ Top.pool # "INTERNAL" /\ Top.pool # MessageType /\ free[Top.pool] = 0
<1> DEFINE n == Len(stack)
<1>1. /\ n \in Nat /\ n \in 1 .. n /\ Top = stack[n] /\ Top \in Frames /\ Top.pool \in Types
  BY TopIsCall DEF IInv
<1>2. Top.pool # "INTERNAL" /\ Top.pool # MessageType /\ free[Top.pool] = 0
  BY <1>1 DEF IInv, LogsOfLogPools, FullWhileLogging
<1>3. ASSUME n # 1 PROVE FALSE
  <2>1. n - 1 \in 1 .. n /\ n - 1 # n /\ (n - 1) + 1 = n
    BY <1>1, <1>3
  <2>2. stack[(n - 1) + 1].pool \in {"INTERNAL", MessageType}
    BY <2>1 DEF IInv, Waiting
  <2> QED BY <1>1, <1>2, <2>1, <2>2
<1> QED BY <1>1, <1>2, <1>3

\* The log gives both its slots back.
LEMMA PrintMessageIInv ==
  ASSUME IInv, PrintMessage
  PROVE  IInv'
<1>1. /\ TypeOK /\ ~Idle /\ Top.at = "print" /\ AtTop("print")
      /\ free' = [free EXCEPT !["INTERNAL"] = @ + 1, ![MessageType] = @ + 1]
      /\ stack' = [stack EXCEPT ![Len(stack)].at = "grow"]
      /\ total' = total /\ taken' = taken /\ old' = old
  BY DEF IInv, PrintMessage, AtTop
<1>2. /\ Len(stack) = 1 /\ Top = stack[1] /\ Top.pool \in Types
      /\ Top.pool # "INTERNAL" /\ Top.pool # MessageType /\ free[Top.pool] = 0
  BY <1>1, OnlyTheFirstGrows
<1>3. /\ stack' \in Seq(Frames) /\ Len(stack') = 1
      /\ stack'[1] = [pool |-> Top.pool, at |-> "grow"]
  BY <1>1, <1>2, Relabelled DEF Labels
<1>4. /\ free' \in [Types -> Nat]
      /\ \A t \in Types : free'[t] = free[t] + (IF t = "INTERNAL" THEN 1 ELSE 0)
                                             + (IF t = MessageType THEN 1 ELSE 0)
  <2>1. /\ free \in [Types -> Nat] /\ "INTERNAL" \in Types /\ MessageType \in Types
        /\ MessageType # "INTERNAL"
    BY <1>1, LogPools DEF TypeOK
  <2>2. free' = [free EXCEPT !["INTERNAL"] = @ + 1, ![MessageType] = @ + 1]
    BY <1>1
  <2> HIDE DEF MessageType, Types
  <2> QED BY ONLY <2>1, <2>2
<1>5. TypeOK'
  BY <1>1, <1>3, <1>4 DEF TypeOK
<1>6. 1 .. Len(stack') = {1} /\ 1 .. Len(stack) = {1}
  BY <1>2, <1>3
<1>7. ~Idle' /\ Top' = [pool |-> Top.pool, at |-> "grow"]
  <2>1. stack' # <<>>
    <3>1. Len(stack') = 1 /\ Len(<<>>) = 0
      BY <1>3
    <3> QED BY ONLY <3>1
  <2>2. Top' = stack'[1]
    <3>1. Top' = stack'[Len(stack')]
      BY DEF Top
    <3> QED BY <1>3, <3>1
  <2> QED BY <1>3, <2>1, <2>2 DEF Idle
<1>8. Waiting' /\ LogsOfLogPools' /\ GrownHasSlot' /\ OldIsTaken'
  BY <1>1, <1>2, <1>3, <1>6, <1>7
     DEF IInv, Waiting, LogsOfLogPools, GrownHasSlot, OldIsTaken, AtTop
<1>9. FullWhileLogging'
  BY <1>2, <1>3, <1>4, <1>6 DEF FullWhileLogging
<1>10. Copying = {1} /\ Copying' = {}
  BY <1>1, <1>2, <1>3, <1>6 DEF Copying
<1>11. BufferHeld = 1 /\ BufferHeld' = 0 /\ MessageHeld = 1 /\ MessageHeld' = 0
  BY <1>1, <1>7, <1>10, FS_Singleton, FS_EmptySet DEF BufferHeld, MessageHeld, AtTop
<1>12. \A t \in Types :
         (total'[t] - free'[t] - taken'[t]) - (total[t] - free[t] - taken[t]) =
           (IF t = "INTERNAL" THEN -1 ELSE 0) + (IF t = MessageType THEN -1 ELSE 0)
  <2>1. \A t \in Types : total[t] \in Nat /\ free[t] \in Nat /\ taken[t] \in Nat
    BY <1>1 DEF TypeOK
  <2> QED BY <1>1, <1>4, <2>1, LogPools
<1>13. CountsAgree'
  <2>1. BufferHeld' = BufferHeld + (-1) /\ MessageHeld' = MessageHeld + (-1)
    BY <1>11
  <2>2. -1 \in Int
    OBVIOUS
  <2>3. TypeOK /\ CountsAgree
    BY DEF IInv
  <2> QED BY <1>5, <1>12, <2>1, <2>2, <2>3, CountsKept
<1> QED BY <1>5, <1>8, <1>9, <1>13 DEF IInv

\* The pool doubles, and overwriting free_slot_count loses nothing.
LEMMA AddDataBlockIInv ==
  ASSUME IInv, add_data_block
  PROVE  IInv'
<1>1. /\ TypeOK /\ ~Idle /\ Top.at = "grow" /\ AtTop("grow")
      /\ total' = [total EXCEPT ![Top.pool] = 2 * @]
      /\ free' = [free EXCEPT ![Top.pool] = total[Top.pool]]
      /\ stack' = [stack EXCEPT ![Len(stack)].at = "grown"]
      /\ taken' = taken /\ old' = old
  BY DEF IInv, add_data_block, AtTop
<1>2. /\ Len(stack) = 1 /\ Top = stack[1] /\ Top.pool \in Types
      /\ Top.pool # "INTERNAL" /\ Top.pool # MessageType /\ free[Top.pool] = 0
  BY <1>1, OnlyTheFirstGrows
<1>3. /\ stack' \in Seq(Frames) /\ Len(stack') = 1
      /\ stack'[1] = [pool |-> Top.pool, at |-> "grown"]
  BY <1>1, <1>2, Relabelled DEF Labels
<1>4. \A t \in Types : total[t] \in Nat \ {0} /\ free[t] \in Nat /\ taken[t] \in Nat
  BY <1>1 DEF TypeOK
<1>5. /\ total' \in [Types -> Nat \ {0}] /\ free' \in [Types -> Nat]
      /\ total'[Top.pool] = 2 * total[Top.pool] /\ free'[Top.pool] = total[Top.pool]
      /\ \A t \in Types : t # Top.pool => total'[t] = total[t] /\ free'[t] = free[t]
  BY <1>1, <1>2, <1>4 DEF TypeOK
<1>6. TypeOK'
  BY <1>1, <1>3, <1>5 DEF TypeOK
<1>7. 1 .. Len(stack') = {1} /\ 1 .. Len(stack) = {1}
  BY <1>2, <1>3
<1>8. ~Idle' /\ Top' = [pool |-> Top.pool, at |-> "grown"]
  BY <1>3 DEF Idle, Top
<1>9. Waiting' /\ LogsOfLogPools' /\ OldIsTaken' /\ FullWhileLogging'
  BY <1>1, <1>2, <1>3, <1>7, <1>8
     DEF IInv, Waiting, LogsOfLogPools, FullWhileLogging, OldIsTaken, AtTop
<1>10. GrownHasSlot'
  BY <1>2, <1>4, <1>5, <1>8 DEF GrownHasSlot
<1>11. Copying = {} /\ Copying' = {}
  BY <1>1, <1>2, <1>3, <1>7 DEF Copying
<1>12. BufferHeld' = BufferHeld + 0 /\ MessageHeld' = MessageHeld + 0
  BY <1>1, <1>8, <1>11, HeldByLogsIs DEF BufferHeld, MessageHeld, AtTop
<1>13. \A t \in Types :
         (total'[t] - free'[t] - taken'[t]) - (total[t] - free[t] - taken[t]) = 0
  <2> SUFFICES ASSUME NEW t \in Types
               PROVE  (total'[t] - free'[t] - taken'[t]) - (total[t] - free[t] - taken[t]) = 0
    OBVIOUS
  <2>1. total[t] \in Nat /\ free[t] \in Nat /\ taken[t] \in Nat /\ taken'[t] = taken[t]
    BY <1>1, <1>4
  <2>2. CASE t = Top.pool
    <3>1. total'[t] = 2 * total[t] /\ free'[t] = total[t] /\ free[t] = 0
      BY <1>2, <1>5, <2>2
    <3> QED BY ONLY <2>1, <3>1
  <2>3. CASE t # Top.pool
    <3>1. total'[t] = total[t] /\ free'[t] = free[t]
      BY <1>5, <2>3
    <3> QED BY ONLY <2>1, <3>1
  <2> QED BY <2>2, <2>3
<1>14. CountsAgree'
  BY <1>1, <1>6, <1>12, <1>13, CountsKept DEF IInv
<1> QED BY <1>6, <1>9, <1>10, <1>14 DEF IInv

\* Every step keeps the invariant.
LEMMA NextIInv == IInv /\ [Next]_vars => IInv'
<1> SUFFICES ASSUME IInv, [Next]_vars PROVE IInv'
  OBVIOUS
<1>1. CASE alloc_slot
  BY <1>1, ReturnToClientIInv, ReturnToLogIInv, CallLogIInv, CopyMessageIInv,
     PrintMessageIInv, AddDataBlockIInv DEF alloc_slot
<1>2. ASSUME NEW t \in ObjectTypes, lalloc_type(t) PROVE IInv'
  BY <1>2, CallIInv DEF lalloc_type, Types
<1>3. ASSUME NEW size \in Sizes, lalloc_size(size) PROVE IInv'
  <2>1. get_mempool_chartype(size) \in Types
    BY DEF Types, CharTypes
  <2> QED BY <1>3, <2>1, CallIInv DEF lalloc_size, lalloc_type
<1>4. ASSUME NEW t \in CharTypes, NEW size \in Sizes, lrealloc(t, size) PROVE IInv'
  <2>1. get_mempool_chartype(size) \in Types /\ t \in Types
    BY DEF Types, CharTypes
  <2> QED BY <1>4, <2>1, CallIInv DEF lrealloc
<1>5. ASSUME NEW t \in Types, release(t) PROVE IInv'
  BY <1>5, ReleaseIInv
<1>6. CASE UNCHANGED vars
  <2>1. /\ total' = total /\ free' = free /\ taken' = taken /\ old' = old /\ stack' = stack
    BY <1>6 DEF vars
  <2> QED BY <2>1 DEF IInv, TypeOK, Waiting, FullWhileLogging, LogsOfLogPools,
                      GrownHasSlot, OldIsTaken, CountsAgree, HeldByLogs, AtTop, Idle, Top
<1> QED BY <1>1, <1>2, <1>3, <1>4, <1>5, <1>6 DEF Next

-----------------------------------------------------------------------------
(***************************************************************************)
(* What the pools guarantee.                                               *)
(***************************************************************************)
\* The invariant holds always.
THEOREM Invariant == Spec => []IInv
BY InitIInv, NextIInv, PTL DEF Spec

\* Every slot that a pool counts as taken is held by a client or by a log in progress,
\* whatever logs do to the pools between the test and the overwriting of
\* free_slot_count.
THEOREM CountsAgreeAlways == Spec => []CountsAgree
<1>1. IInv => CountsAgree
  BY DEF IInv
<1> QED BY <1>1, Invariant, PTL

\* No pool grows while it has a free slot: the log that runs before the data block is
\* added gives the pool no slot back.
THEOREM GrowsOnlyWhenFullAlways == Spec => GrowsOnlyWhenFull
<1>1. IInv /\ [Next]_vars => [\A t \in Types : total'[t] # total[t] => free[t] = 0]_vars
  <2> SUFFICES ASSUME IInv, Next, NEW t \in Types, total'[t] # total[t]
               PROVE  free[t] = 0
    OBVIOUS
  <2>1. CASE add_data_block
    <3>1. /\ ~Idle /\ Top.at = "grow" /\ total' = [total EXCEPT ![Top.pool] = 2 * @]
      BY <2>1 DEF add_data_block, AtTop
    <3>2. t = Top.pool
      BY <3>1 DEF IInv, TypeOK
    <3> QED BY <3>1, <3>2, OnlyTheFirstGrows
  <2>2. CASE total' = total
    BY <2>2
  <2> QED BY <2>1, <2>2
          DEF Next, alloc_slot, ReturnToClient, ReturnToLog, CallLog, CopyMessage,
              PrintMessage, lalloc_type, lalloc_size, lrealloc, release
<1> QED BY <1>1, Invariant, PTL DEF Spec, GrowsOnlyWhenFull

-----------------------------------------------------------------------------
(***************************************************************************)
(* The size classes.                                                       *)
(***************************************************************************)
Bits == {8, 16, 32, 64, 128, 256, 512}

\* The first bit set is the greatest power of two that the size reaches.
LEMMA FirstBitSet ==
  ASSUME NEW size \in 8 .. MaxCharSize
  PROVE  /\ FirstBit(size) \in Bits
         /\ FirstBit(size) <= size /\ size < 2 * FirstBit(size)
         /\ TestedBits(size) # {}
<1>1. PICK bit \in Bits : bit <= size /\ size < 2 * bit
  <2>1. size \in Nat /\ 8 <= size /\ size < 1024
    BY DEF MaxCharSize
  <2> QED BY ONLY <2>1 DEF Bits
<1>2. \A other \in Bits : HasBit(size, other) => other <= bit
  <2> SUFFICES ASSUME NEW other \in Bits, bit < other PROVE ~HasBit(size, other)
    BY <1>1 DEF Bits
  <2>1. size \in Nat /\ size < other /\ other \in Nat \ {0}
    BY <1>1 DEF Bits
  <2>2. size \div other = 0
    BY ONLY <2>1, other \in Bits DEF Bits
  <2> QED BY <2>2 DEF HasBit
<1>3. HasBit(size, bit)
  <2>1. size \div bit = 1
    BY <1>1 DEF Bits
  <2> QED BY <2>1 DEF HasBit
<1>4. bit \in TestedBits(size) /\ \A other \in TestedBits(size) : other <= bit
  BY <1>2, <1>3 DEF TestedBits, Bits
<1>5. FirstBit(size) = bit
  BY <1>4 DEF FirstBit, TestedBits
<1> QED BY <1>1, <1>4, <1>5

\* What get_mempool_chartype (lispy_mempool.c:217) chooses has room for the size, and from
\* eight bytes on at most twice that much: no string is written past the end of its slot,
\* and no more than half of a slot is wasted.
THEOREM ClassFits ==
  ASSUME NEW size \in 0 .. MaxCharSize
  PROVE  /\ get_mempool_chartype(size) \in DOMAIN SlotBytes
         /\ size <= SlotBytes[get_mempool_chartype(size)]
         /\ size >= 8 => SlotBytes[get_mempool_chartype(size)] <= 2 * size
<1>1. \A bytes \in Bits : \E t \in DOMAIN SlotBytes : SlotBytes[t] = bytes
  BY DEF SlotBytes, Bits
<1>2. /\ BytesFor(size) \in Bits /\ size <= BytesFor(size)
      /\ size >= 8 => BytesFor(size) <= 2 * size
  <2>1. CASE size < 8
    <3>1. TestedBits(size) = {}
      <4> SUFFICES ASSUME NEW bit \in Bits PROVE ~HasBit(size, bit)
        BY DEF TestedBits, Bits
      <4>1. size \div bit = 0
        BY <2>1 DEF Bits
      <4> QED BY <4>1 DEF HasBit
    <3>2. BytesFor(size) = 8
      BY <3>1 DEF BytesFor, MaxCharSize
    <3> QED BY <2>1, <3>2 DEF Bits
  <2>2. CASE size >= 8
    <3>1. size \in 8 .. MaxCharSize
      BY <2>2 DEF MaxCharSize
    <3>2. BytesFor(size) = IF FirstBit(size) >= 256 THEN 512 ELSE 2 * FirstBit(size)
      BY <3>1, FirstBitSet DEF BytesFor, MaxCharSize
    <3> QED BY <3>1, <3>2, FirstBitSet DEF Bits, MaxCharSize
  <2> QED BY <2>1, <2>2
<1>3. PICK t \in DOMAIN SlotBytes : SlotBytes[t] = BytesFor(size)
  BY <1>1, <1>2
<1>4. /\ get_mempool_chartype(size) \in DOMAIN SlotBytes
      /\ SlotBytes[get_mempool_chartype(size)] = BytesFor(size)
  BY <1>3 DEF get_mempool_chartype
<1> QED BY <1>2, <1>4
-----------------------------------------------------------------------------
(***************************************************************************)
(* Whether a call returns.                                                 *)
(***************************************************************************)
LogsOwn == {"INTERNAL", MessageType}
\* A log is in progress of a pool that the log itself allocates from.
Hopeless ==
  \E i \in 1 .. Len(stack) :
    stack[i].pool \in LogsOwn /\ stack[i].at \in {"message", "copy", "print"}

\* A call that is hopeless gets no further than to another one that is.
LEMMA HopelessNext ==
  ASSUME IInv, Hopeless, Next
  PROVE  /\ Hopeless' /\ ~Idle /\ (ReturnToLog \/ CallLog \/ CopyMessage)
         /\ UNCHANGED <<total, taken, old>>
<1> DEFINE n == Len(stack)
<1>1. PICK i \in 1 .. n :
        stack[i].pool \in LogsOwn /\ stack[i].at \in {"message", "copy", "print"}
  BY DEF Hopeless
<1>2. TypeOK /\ ~Idle /\ stack # <<>>
  BY <1>1 DEF IInv, TypeOK, Idle
<1>3. /\ n \in Nat /\ n \in 1 .. n /\ Top = stack[n]
      /\ \A j \in 1 .. n : stack[j] \in Frames
  BY <1>2, TopIsCall
<1>4. ~PrintMessage /\ ~add_data_block
  <2> SUFFICES ASSUME PrintMessage \/ add_data_block PROVE FALSE
    OBVIOUS
  <2>1. n = 1 /\ Top.pool \notin LogsOwn
    BY OnlyTheFirstGrows DEF PrintMessage, add_data_block, AtTop, LogsOwn
  <2> QED BY <1>1, <1>3, <2>1
<1>5. ~ReturnToClient
  <2> SUFFICES ASSUME ReturnToClient PROVE FALSE
    OBVIOUS
  <2>1. n = 1 /\ Top.at \in {"enter", "grown"}
    BY HasSlotFacts DEF ReturnToClient
  <2> QED BY <1>1, <1>3, <2>1
<1>6. ReturnToLog \/ CallLog \/ CopyMessage
  <2>1. alloc_slot
    BY <1>2 DEF Next, lalloc_type, lalloc_size, lrealloc, release
  <2> QED BY <1>4, <1>5, <2>1 DEF alloc_slot
<1>7. CASE ReturnToLog
  <2> DEFINE c == n - 1
  <2>1. Top.at \in {"enter", "grown"} /\ n > 1
    BY <1>7, HasSlotFacts DEF ReturnToLog
  <2>2. /\ Len(stack') = c
        /\ stack'[c] = [pool |-> stack[c].pool,
                        at |-> IF stack[c].at = "message" THEN "copy" ELSE "print"]
        /\ \A j \in 1 .. c : j # c => stack'[j] = stack[j]
    BY <1>2, <1>7, <2>1, Returned DEF ReturnToLog
  <2>3. i # n
    BY <1>1, <1>3, <2>1
  <2>4. i \in 1 .. c
    BY <1>3, <2>3
  <2>5. stack'[i].pool \in LogsOwn /\ stack'[i].at \in {"message", "copy", "print"}
    <3>1. CASE i = c
      BY <1>1, <2>2, <3>1
    <3>2. CASE i # c
      BY <1>1, <2>2, <2>4, <3>2
    <3> QED BY <3>1, <3>2
  <2> QED BY <1>2, <1>7, <2>2, <2>4, <2>5 DEF Hopeless, ReturnToLog
<1>8. ASSUME NEW pool \in Types, NEW label \in {"message", "copy", "print"}, Push(pool, label),
             UNCHANGED <<total, free, taken, old>>
      PROVE  Hopeless' /\ ~Idle /\ UNCHANGED <<total, taken, old>>
  <2>1. label \in Labels
    BY DEF Labels
  <2>2. /\ Len(stack') = n + 1
        /\ stack'[n] = [pool |-> Top.pool, at |-> label]
        /\ \A j \in 1 .. n : j # n => stack'[j] = stack[j]
    BY <1>2, <1>8, <2>1, Pushed
  <2>3. i \in 1 .. n + 1
    BY <1>3
  <2>4. stack'[i].pool \in LogsOwn /\ stack'[i].at \in {"message", "copy", "print"}
    <3>1. CASE i = n
      BY <1>1, <1>3, <2>2, <3>1
    <3>2. CASE i # n
      BY <1>1, <2>2, <3>2
    <3> QED BY <3>1, <3>2
  <2> QED BY <1>2, <1>8, <2>2, <2>3, <2>4 DEF Hopeless
<1>9. CASE CallLog
  BY <1>6, <1>8, <1>9, LogPools DEF CallLog
<1>10. CASE CopyMessage
  BY <1>6, <1>8, <1>10, LogPools DEF CopyMessage
<1> QED BY <1>6, <1>7, <1>9, <1>10

\* Once one of the pools of the log (lispy_mempool.c:23, 25) is itself full and logged,
\* no call returns any more, no pool grows and no client gets anything: the log waits
\* for the log.  PoolsGrow fails for every such program, whatever its pools and sizes.
THEOREM HopelessForEver ==
  Spec => [][Hopeless => /\ Hopeless' /\ ~Idle'
                         /\ UNCHANGED <<total, taken, old>>]_vars
<1>1. IInv /\ [Next]_vars =>
        [Hopeless => Hopeless' /\ ~Idle' /\ UNCHANGED <<total, taken, old>>]_vars
  <2> SUFFICES ASSUME IInv, Next, Hopeless
               PROVE  Hopeless' /\ ~Idle' /\ UNCHANGED <<total, taken, old>>
    OBVIOUS
  <2>1. Hopeless' /\ UNCHANGED <<total, taken, old>>
    BY HopelessNext
  <2>2. ~Idle'
    BY <2>1 DEF Hopeless, Idle
  <2> QED BY <2>1, <2>2
<1> QED BY <1>1, Invariant, PTL DEF Spec
\* A size has a class.
LEMMA ClassOfSize ==
  ASSUME NEW size \in Nat
  PROVE  get_mempool_chartype(size) \in DOMAIN SlotBytes
<1>1. CASE size <= MaxCharSize
  <2>1. size \in 0 .. MaxCharSize
    BY <1>1 DEF MaxCharSize
  <2> QED BY <2>1, ClassFits
<1>2. CASE size > MaxCharSize
  <2>1. BytesFor(size) = 512
    BY <1>2 DEF BytesFor
  <2>2. "CHAR512" \in DOMAIN SlotBytes /\ SlotBytes["CHAR512"] = 512
    BY DEF SlotBytes
  <2> QED BY <2>1, <2>2 DEF get_mempool_chartype
<1> QED BY <1>1, <1>2 DEF MaxCharSize

\* INTERNAL is of no size, and nobody calls lalloc_type for it but the log.
InternalForLogs == "INTERNAL" \notin ObjectTypes /\ Sizes \subseteq Nat

LEMMA InternalNoClass ==
  ASSUME InternalForLogs
  PROVE  "INTERNAL" \notin CharTypes
<1>1. MessageSize \in Nat
  BY MessageSizeAssumption
<1>2. \A size \in Sizes \union {MessageSize} :
        get_mempool_chartype(size) \in DOMAIN SlotBytes
  BY <1>1, ClassOfSize DEF InternalForLogs
<1>3. "INTERNAL" \notin DOMAIN SlotBytes
  BY DEF SlotBytes
<1> QED BY <1>2, <1>3 DEF CharTypes

InternalUntaken ==
  /\ taken["INTERNAL"] = 0
  /\ old # "INTERNAL"
  /\ ~Idle => stack[1].pool # "INTERNAL"
\* It began with the message, of which there was no slot.
HopelessFull == Hopeless => free[MessageType] = 0

ReturnsIInv == IInv /\ InternalUntaken /\ HopelessFull

\* While there is hope, a log runs alone or waits for one call, which is not logged.
LEMMA LogsAlone ==
  ASSUME IInv, ~Idle, ~Hopeless
  PROVE  /\ Len(stack) \in {1, 2} /\ 1 \in 1 .. Len(stack)
         /\ Top = stack[Len(stack)] /\ stack[1] \in Frames
         /\ stack[1].pool \in LogsOwn => stack[1].at = "enter"
         /\ Len(stack) = 2 =>
              /\ stack[1].pool \notin LogsOwn
              /\ stack[2].at = "enter"
              /\ \/ stack[1].at = "message" /\ stack[2].pool = "INTERNAL"
                 \/ stack[1].at = "print" /\ stack[2].pool = MessageType
<1> DEFINE n == Len(stack)
<1>1. /\ n \in Nat /\ n \in 1 .. n /\ Top = stack[n]
      /\ \A j \in 1 .. n : stack[j] \in Frames
  BY TopIsCall DEF IInv
<1>2. 1 \in 1 .. n
  BY <1>1
<1>3. \A j \in 1 .. n : stack[j].pool \in LogsOwn => stack[j].at = "enter"
  <2> SUFFICES ASSUME NEW j \in 1 .. n, stack[j].pool \in LogsOwn
               PROVE  stack[j].at = "enter"
    OBVIOUS
  <2>1. stack[j].at \notin {"message", "copy", "print"}
    BY DEF Hopeless
  <2> QED BY <2>1 DEF IInv, LogsOfLogPools, LogsOwn
<1>4. \A j \in 1 .. n : j # n =>
        \/ stack[j].at = "message" /\ stack[j + 1].pool = "INTERNAL"
        \/ stack[j].at = "print" /\ stack[j + 1].pool = MessageType
  BY DEF IInv, Waiting
<1>5. CASE n = 1
  BY <1>1, <1>2, <1>3, <1>5
<1>6. CASE n # 1
  <2>1. 1 # n /\ 2 \in 1 .. n
    <3>1. n \in Nat /\ n \in 1 .. n
      BY <1>1
    <3> HIDE DEF n
    <3> QED BY ONLY <1>6, <3>1
  <2>2. \/ stack[1].at = "message" /\ stack[2].pool = "INTERNAL"
        \/ stack[1].at = "print" /\ stack[2].pool = MessageType
    <3>1. \/ stack[1].at = "message" /\ stack[1 + 1].pool = "INTERNAL"
          \/ stack[1].at = "print" /\ stack[1 + 1].pool = MessageType
      BY <1>2, <1>4, <2>1
    <3> QED BY <3>1
  <2>3. stack[2].at = "enter" /\ stack[1].pool \notin LogsOwn
    <3>1. stack[2].pool \in LogsOwn
      BY <2>2 DEF LogsOwn
    <3>2. stack[2].at = "enter"
      BY <1>3, <2>1, <3>1
    <3>3. stack[1].at # "enter"
      BY <2>2
    <3>4. stack[1].pool \notin LogsOwn
      BY <1>2, <1>3, <3>3
    <3> QED BY <3>2, <3>4
  <2>4. n = 2
    BY <1>1, <1>4, <2>1, <2>3
  <2> QED BY <1>1, <1>2, <1>3, <2>2, <2>3, <2>4
<1> QED BY <1>5, <1>6

\* There is a slot for the buffer of a log that waits for it.
LEMMA BufferFree ==
  ASSUME ReturnsIInv, ~Idle, ~Hopeless, Len(stack) = 2, stack[2].pool = "INTERNAL"
  PROVE  free["INTERNAL"] > 0
<1>1. stack[1].at = "message" /\ stack[2].at = "enter"
  BY LogsAlone, LogPools DEF ReturnsIInv
<1>2. Copying = {}
  <2>1. \A i \in 1 .. Len(stack) : i = 1 \/ i = 2
    OBVIOUS
  <2> QED BY <1>1, <2>1 DEF Copying
<1>3. BufferHeld = 0
  BY <1>2, FS_EmptySet DEF BufferHeld
<1>4. /\ TypeOK /\ "INTERNAL" \in Types /\ "INTERNAL" # MessageType
      /\ total["INTERNAL"] \in Nat \ {0} /\ free["INTERNAL"] \in Nat
      /\ taken["INTERNAL"] = 0
  BY LogPools DEF ReturnsIInv, InternalUntaken, IInv, TypeOK
<1>5. total["INTERNAL"] - free["INTERNAL"] = taken["INTERNAL"] + BufferHeld + 0
  BY <1>4, CountsAgreeIs DEF ReturnsIInv, IInv
<1> QED BY <1>3, <1>4, <1>5
\* The steps a call still has to take, as long as there is hope.
Rank ==
  [enter |-> 6, message |-> 5, copy |-> 4, print |-> 3, grow |-> 2, grown |-> 1]
StepsLeft == IF Idle THEN 0 ELSE 2 * Rank[stack[1].at] + Len(stack)

\* The call has its slot for the message, or there is one.
GetsMessage ==
  \/ Idle
  \/ ~Hopeless /\ \/ free[MessageType] > 0
                  \/ Len(stack) = 1 /\ stack[1].at \in {"print", "grow", "grown"}

\* What there is to show of a step while there is hope.
Advances ==
  /\ ~Hopeless'
  /\ StepsLeft' \in Nat /\ StepsLeft' < StepsLeft
  /\ GetsMessage => GetsMessage'

\* From one state of the stack to the next one.
LEMMA AdvancesBy ==
  ASSUME TypeOK, ~Idle, stack[1] \in Frames, Len(stack) \in {1, 2},
         Len(stack') \in {1, 2}, stack'[1].pool \notin LogsOwn,
         stack'[1].at \in Labels, Len(stack') = 2 => stack'[2].at = "enter",
         2 * Rank[stack'[1].at] + Len(stack') < 2 * Rank[stack[1].at] + Len(stack),
         GetsMessage => \/ free'[MessageType] > 0
                        \/ Len(stack') = 1 /\ stack'[1].at \in {"print", "grow", "grown"}
  PROVE  Advances
<1>1. ~Hopeless'
  <2> SUFFICES ASSUME NEW i \in 1 .. Len(stack')
               PROVE  \/ stack'[i].pool \notin LogsOwn
                      \/ stack'[i].at \notin {"message", "copy", "print"}
    BY DEF Hopeless
  <2>1. CASE Len(stack') = 1
    <3>1. i = 1
      BY <2>1
    <3> QED BY <3>1
  <2>2. CASE Len(stack') = 2
    <3>1. i = 1 \/ i = 2
      BY <2>2
    <3> QED BY <2>2, <3>1
  <2> QED BY <2>1, <2>2
<1>2. ~Idle'
  BY DEF Idle
<1>3. \A label \in Labels : Rank[label] \in Nat
  BY DEF Rank, Labels
<1>4. 2 * Rank[stack'[1].at] + Len(stack') \in Nat
  BY <1>3
<1> QED BY <1>1, <1>2, <1>4 DEF Advances, StepsLeft, GetsMessage

\* A step of a call either brings it nearer to its end, or is the log of the pool of the
\* messages, which is full.
LEMMA HopefulNext ==
  ASSUME ReturnsIInv, ~Idle, ~Hopeless, alloc_slot
  PROVE  \/ CallLog /\ free[MessageType] = 0 /\ Len(stack) = 2
         \/ CallLog /\ free[MessageType] = 0 /\ stack[1].at = "enter"
         \/ Advances
<1> DEFINE n == Len(stack)
<1>1. /\ n \in {1, 2} /\ Top = stack[n] /\ stack[1] \in Frames
      /\ stack[1].pool \in LogsOwn => stack[1].at = "enter"
      /\ n = 2 => /\ stack[1].pool \notin LogsOwn
                  /\ stack[2].at = "enter"
                  /\ \/ stack[1].at = "message" /\ stack[2].pool = "INTERNAL"
                     \/ stack[1].at = "print" /\ stack[2].pool = MessageType
  BY LogsAlone DEF ReturnsIInv
<1>2. /\ TypeOK /\ IInv /\ free \in [Types -> Nat] /\ MessageType \in Types
      /\ stack[1].pool # "INTERNAL" /\ Top.pool \in Types
  BY TopIsCall, LogPools DEF ReturnsIInv, InternalUntaken, IInv, TypeOK
<1>3. CASE ReturnToClient
  <2>1. stack' = <<>> /\ n = 1
    BY <1>3 DEF ReturnToClient
  <2>2. ~Hopeless' /\ Idle' /\ StepsLeft' = 0
    BY <2>1 DEF Hopeless, Idle, StepsLeft
  <2>3. Rank[stack[1].at] \in Nat
    BY <1>1 DEF Rank, Frames, Labels
  <2>4. StepsLeft = 2 * Rank[stack[1].at] + 1
    BY <2>1 DEF StepsLeft
  <2> QED BY <2>2, <2>3, <2>4 DEF Advances, GetsMessage
<1>4. CASE ReturnToLog
  <2>1. n = 2 /\ n - 1 = 1 /\ free' = Given(free)
    BY <1>1, <1>4 DEF ReturnToLog
  <2>2. /\ Len(stack') = 1
        /\ stack'[1] = [pool |-> stack[1].pool,
                        at |-> IF stack[1].at = "message" THEN "copy" ELSE "print"]
    BY <1>2, <1>4, <2>1, Returned DEF ReturnToLog
  <2>3. CASE stack[1].at = "message"
    <3>1. Top.pool = "INTERNAL" /\ stack'[1].at = "copy"
      BY <1>1, <2>1, <2>2, <2>3
    <3>2. free'[MessageType] = free[MessageType]
      BY <1>2, <2>1, <3>1, LogPools DEF Given
    <3>3. GetsMessage => free'[MessageType] > 0
      BY <2>1, <3>2 DEF GetsMessage
    <3>4. 2 * Rank[stack'[1].at] + Len(stack') < 2 * Rank[stack[1].at] + Len(stack)
      BY <2>1, <2>2, <2>3, <3>1 DEF Rank
    <3> QED BY <1>1, <1>2, <2>1, <2>2, <3>1, <3>3, <3>4, AdvancesBy DEF Labels
  <2>4. CASE stack[1].at = "print"
    <3>1. stack'[1].at = "print"
      BY <2>2, <2>4
    <3>2. 2 * Rank[stack'[1].at] + Len(stack') < 2 * Rank[stack[1].at] + Len(stack)
      BY <2>1, <2>2, <2>4, <3>1 DEF Rank
    <3> QED BY <1>1, <1>2, <2>1, <2>2, <3>1, <3>2, AdvancesBy DEF Labels
  <2> QED BY <1>1, <2>1, <2>3, <2>4
<1>5. CASE CallLog
  <2>1. /\ Top.at = "enter" /\ free[Top.pool] = 0 /\ free' = free
        /\ Push("INTERNAL", "message")
    BY <1>5 DEF CallLog, AtTop
  <2>2. CASE n = 1
    <3>1. CASE stack[1].pool = MessageType
      BY <1>1, <1>5, <2>1, <2>2, <3>1
    <3>2. CASE stack[1].pool # MessageType
      <4>1. /\ Len(stack') = 2 /\ stack'[2].at = "enter"
            /\ stack'[1] = [pool |-> stack[1].pool, at |-> "message"]
        <5>1. "INTERNAL" \in Types /\ "message" \in Labels
          BY LogPools DEF Labels
        <5>2. /\ Len(stack') = n + 1
              /\ stack'[n + 1] = [pool |-> "INTERNAL", at |-> "enter"]
              /\ stack'[n] = [pool |-> Top.pool, at |-> "message"]
          BY <1>2, <2>1, <5>1, Pushed
        <5>3. n + 1 = 2 /\ n = 1 /\ Top = stack[1]
          BY <1>1, <2>2
        <5> HIDE DEF n
        <5>4. stack'[2] = [pool |-> "INTERNAL", at |-> "enter"]
          BY <5>2, <5>3
        <5> QED BY <5>2, <5>3, <5>4
      <4>2. stack'[1].pool \notin LogsOwn
        BY <1>2, <3>2, <4>1 DEF LogsOwn
      <4>3. GetsMessage => free'[MessageType] > 0
        BY <1>1, <2>1, <2>2 DEF GetsMessage
      <4>4. 2 * Rank[stack'[1].at] + Len(stack') < 2 * Rank[stack[1].at] + Len(stack)
        BY <1>1, <2>1, <2>2, <4>1 DEF Rank
      <4> QED BY <1>1, <1>2, <2>2, <4>1, <4>2, <4>3, <4>4, AdvancesBy DEF Labels
    <3> QED BY <3>1, <3>2
  <2>3. CASE n = 2
    <3>1. stack[2].pool # "INTERNAL"
      BY <1>1, <2>1, <2>3, BufferFree
    <3>2. Top.pool = MessageType
      BY <1>1, <2>3, <3>1
    <3> QED BY <1>5, <2>1, <2>3, <3>2
  <2> QED BY <1>1, <2>2, <2>3
<1>6. CASE CopyMessage
  <2>1. Top.at = "copy" /\ Push(MessageType, "print") /\ free' = free
    BY <1>6 DEF CopyMessage, AtTop
  <2>2. n = 1
    BY <1>1, <2>1
  <2>3. /\ Len(stack') = 2 /\ stack'[2].at = "enter"
        /\ stack'[1] = [pool |-> stack[1].pool, at |-> "print"]
    <3>1. "print" \in Labels
      BY DEF Labels
    <3>2. /\ Len(stack') = n + 1
          /\ stack'[n + 1] = [pool |-> MessageType, at |-> "enter"]
          /\ stack'[n] = [pool |-> Top.pool, at |-> "print"]
      BY <1>2, <2>1, <3>1, Pushed
    <3>3. n + 1 = 2 /\ n = 1 /\ Top = stack[1]
      BY <1>1, <2>2
    <3> HIDE DEF n
    <3>4. stack'[2] = [pool |-> MessageType, at |-> "enter"]
      BY <3>2, <3>3
    <3> QED BY <3>2, <3>3, <3>4
  <2>4. stack'[1].pool \notin LogsOwn
    BY <1>1, <2>1, <2>2, <2>3
  <2>5. GetsMessage => free'[MessageType] > 0
    BY <1>1, <2>1, <2>2 DEF GetsMessage
  <2>6. 2 * Rank[stack'[1].at] + Len(stack') < 2 * Rank[stack[1].at] + Len(stack)
    BY <1>1, <2>1, <2>2, <2>3 DEF Rank
  <2> QED BY <1>1, <1>2, <2>2, <2>3, <2>4, <2>5, <2>6, AdvancesBy DEF Labels
<1>7. ASSUME NEW label \in Labels, NEW next \in {"grow", "grown"}, Top.at = label,
             stack' = [stack EXCEPT ![Len(stack)].at = next], Rank[next] < Rank[label],
             label # "enter"
      PROVE  Advances
  <2>1. n = 1
    BY <1>1, <1>7
  <2>2. Len(stack') = 1 /\ stack'[1] = [pool |-> stack[1].pool, at |-> next]
    BY <1>1, <1>2, <1>7, <2>1, Relabelled DEF Labels
  <2>3. stack'[1].pool \notin LogsOwn /\ stack'[1].at = next /\ stack[1].at = label
    BY <1>1, <1>7, <2>1, <2>2
  <2>4. Rank[next] \in Nat /\ Rank[label] \in Nat
    BY DEF Rank, Labels
  <2>5. 2 * Rank[stack'[1].at] + Len(stack') < 2 * Rank[stack[1].at] + Len(stack)
    <3> DEFINE r == Rank[next]
               q == Rank[label]
    <3>1. r \in Nat /\ q \in Nat /\ r < q
      BY <1>7, <2>4
    <3>2. /\ Len(stack') = 1 /\ Len(stack) = 1
          /\ Rank[stack'[1].at] = r /\ Rank[stack[1].at] = q
      BY <2>1, <2>2, <2>3
    <3> HIDE DEF r, q
    <3>3. 2 * r + 1 < 2 * q + 1
      BY ONLY <3>1
    <3> QED BY <3>2, <3>3
  <2> QED BY <1>1, <1>2, <2>1, <2>2, <2>3, <2>5, AdvancesBy DEF Labels
<1>8. CASE PrintMessage
  <2>1. Top.at = "print" /\ stack' = [stack EXCEPT ![Len(stack)].at = "grow"]
    BY <1>8 DEF PrintMessage, AtTop
  <2>2. Rank["grow"] < Rank["print"]
    BY DEF Rank
  <2> QED BY <1>7, <2>1, <2>2 DEF Labels
<1>9. CASE add_data_block
  <2>1. Top.at = "grow" /\ stack' = [stack EXCEPT ![Len(stack)].at = "grown"]
    BY <1>9 DEF add_data_block, AtTop
  <2>2. Rank["grown"] < Rank["grow"]
    BY DEF Rank
  <2> QED BY <1>7, <2>1, <2>2 DEF Labels
<1> QED BY <1>3, <1>4, <1>5, <1>6, <1>8, <1>9 DEF alloc_slot
\* No client ever has a slot of INTERNAL.
LEMMA UntakenNext ==
  ASSUME InternalForLogs, IInv, InternalUntaken, Next
  PROVE  InternalUntaken'
<1>1. TypeOK /\ taken["INTERNAL"] = 0 /\ "INTERNAL" \in Types /\ old # "INTERNAL"
  BY LogPools DEF IInv, InternalUntaken
<1>2. CASE ReturnToClient
  <2>1. /\ stack' = <<>> /\ old' = NULL /\ HasSlot /\ Len(stack) = 1
        /\ taken' = [t \in Types |-> taken[t] + (IF t = Top.pool THEN 1 ELSE 0)
                                              - (IF t = old THEN 1 ELSE 0)]
    BY <1>2 DEF ReturnToClient
  <2>2. Top.pool # "INTERNAL"
    BY <2>1, HasSlotFacts DEF Top, InternalUntaken
  <2>3. taken'["INTERNAL"] = 0
    BY <1>1, <2>1, <2>2
  <2> QED BY <2>1, <2>3, LogPools DEF InternalUntaken, Idle
<1>3. ASSUME ~Idle, UNCHANGED <<taken, old>>, stack'[1].pool = stack[1].pool
      PROVE  InternalUntaken'
  BY <1>1, <1>3 DEF InternalUntaken
<1>4. CASE ReturnToLog
  <2> DEFINE c == Len(stack) - 1
  <2>1. ~Idle /\ Len(stack) > 1 /\ UNCHANGED <<taken, old>>
    BY <1>4, HasSlotFacts DEF ReturnToLog
  <2>2. /\ stack'[c].pool = stack[c].pool
        /\ \A i \in 1 .. c : i # c => stack'[i] = stack[i]
    BY <1>1, <1>4, <2>1, Returned DEF ReturnToLog
  <2>3. 1 \in 1 .. c
    <3>1. Len(stack) \in Nat
      BY <1>1 DEF TypeOK
    <3> QED BY <2>1, <3>1
  <2> HIDE DEF c
  <2>4. stack'[1].pool = stack[1].pool
    BY <2>2, <2>3
  <2> QED BY <1>3, <2>1, <2>4
<1>5. ASSUME NEW pool \in Types, NEW label \in Labels, ~Idle, Push(pool, label)
      PROVE  stack'[1].pool = stack[1].pool
  <2>1. /\ stack'[Len(stack)] = [pool |-> Top.pool, at |-> label]
        /\ \A i \in 1 .. Len(stack) : i # Len(stack) => stack'[i] = stack[i]
    BY <1>1, <1>5, Pushed
  <2>2. Len(stack) \in 1 .. Len(stack) /\ Len(stack) \in Nat /\ Top = stack[Len(stack)]
    BY <1>1, <1>5, TopIsCall
  <2>3. 1 \in 1 .. Len(stack)
    BY <2>2
  <2> QED BY <2>1, <2>2, <2>3
<1>6. ASSUME NEW label \in Labels, ~Idle, stack' = [stack EXCEPT ![Len(stack)].at = label]
      PROVE  stack'[1].pool = stack[1].pool
  <2>1. /\ stack'[Len(stack)] = [pool |-> Top.pool, at |-> label]
        /\ \A i \in 1 .. Len(stack) : i # Len(stack) => stack'[i] = stack[i]
    BY <1>1, <1>6, Relabelled
  <2>2. Len(stack) \in 1 .. Len(stack) /\ Len(stack) \in Nat /\ Top = stack[Len(stack)]
    BY <1>1, <1>6, TopIsCall
  <2>3. 1 \in 1 .. Len(stack)
    BY <2>2
  <2> QED BY <2>1, <2>2, <2>3
<1>7. CASE CallLog
  <2>1. ~Idle /\ UNCHANGED <<taken, old>> /\ Push("INTERNAL", "message")
    BY <1>7 DEF CallLog, AtTop
  <2> QED BY <1>1, <1>3, <1>5, <2>1 DEF Labels
<1>8. CASE CopyMessage
  <2>1. ~Idle /\ UNCHANGED <<taken, old>> /\ Push(MessageType, "print")
    BY <1>8 DEF CopyMessage, AtTop
  <2> QED BY <1>3, <1>5, <2>1, LogPools DEF Labels
<1>9. CASE PrintMessage
  <2>1. /\ ~Idle /\ UNCHANGED <<taken, old>>
        /\ stack' = [stack EXCEPT ![Len(stack)].at = "grow"]
    BY <1>9 DEF PrintMessage, AtTop
  <2> QED BY <1>3, <1>6, <2>1 DEF Labels
<1>10. CASE add_data_block
  <2>1. /\ ~Idle /\ UNCHANGED <<taken, old>>
        /\ stack' = [stack EXCEPT ![Len(stack)].at = "grown"]
    BY <1>10 DEF add_data_block, AtTop
  <2> QED BY <1>3, <1>6, <2>1 DEF Labels
<1>11. ASSUME NEW t \in ObjectTypes \union CharTypes, stack' = <<Frame(t, "enter")>>,
              taken' = taken, old' # "INTERNAL"
       PROVE  InternalUntaken'
  <2>1. t # "INTERNAL"
    BY InternalNoClass DEF InternalForLogs
  <2>2. stack'[1].pool = t
    BY <1>11 DEF Frame
  <2> QED BY <1>1, <1>11, <2>1, <2>2 DEF InternalUntaken
<1>12. \A size \in Sizes : get_mempool_chartype(size) \in CharTypes
  BY DEF CharTypes
<1>13. ASSUME NEW t \in ObjectTypes \union CharTypes, lalloc_type(t) PROVE InternalUntaken'
  BY <1>1, <1>11, <1>13 DEF lalloc_type
<1>14. ASSUME NEW size \in Sizes, lalloc_size(size) PROVE InternalUntaken'
  BY <1>12, <1>13, <1>14 DEF lalloc_size
<1>15. ASSUME NEW t \in CharTypes, NEW size \in Sizes, lrealloc(t, size)
       PROVE  InternalUntaken'
  BY <1>11, <1>12, <1>15, InternalNoClass DEF lrealloc
<1>16. ASSUME NEW t \in Types, release(t) PROVE InternalUntaken'
  <2>1. /\ taken' = [taken EXCEPT ![t] = @ - 1] /\ taken[t] > 0
        /\ old' = old /\ stack' = stack /\ Idle
    BY <1>16 DEF release
  <2>2. t # "INTERNAL"
    BY <1>1, <2>1
  <2>3. taken'["INTERNAL"] = 0
    BY <1>1, <2>1, <2>2 DEF TypeOK
  <2> QED BY <1>1, <2>1, <2>3 DEF InternalUntaken, Idle
<1> QED BY <1>2, <1>4, <1>7, <1>8, <1>9, <1>10, <1>13, <1>14, <1>15, <1>16
        DEF Next, alloc_slot

\* There is no hope only if the pool of the messages is full.
LEMMA HopelessFullNext ==
  ASSUME ReturnsIInv, Next
  PROVE  HopelessFull'
<1>1. IInv /\ TypeOK /\ MessageType \in Types /\ free \in [Types -> Nat]
  BY LogPools DEF ReturnsIInv, IInv, TypeOK
<1>2. CASE Hopeless
  <2>1. free[MessageType] = 0
    BY <1>2 DEF ReturnsIInv, HopelessFull
  <2>2. free' = free \/ (ReturnToLog /\ free' = Given(free))
    BY <1>1, <1>2, HopelessNext DEF CallLog, CopyMessage, ReturnToLog
  <2>3. ASSUME ReturnToLog PROVE MessageType # Top.pool
    BY <1>1, <2>1, <2>3, HasSlotFacts DEF ReturnToLog
  <2>4. free'[MessageType] = 0
    BY <1>1, <2>1, <2>2, <2>3 DEF Given
  <2> QED BY <2>4 DEF HopelessFull
<1>3. CASE ~Hopeless /\ ~Idle
  <2>1. alloc_slot
    BY <1>3 DEF Next, lalloc_type, lalloc_size, lrealloc, release
  <2>2. (CallLog /\ free[MessageType] = 0) \/ Advances
    BY <1>3, <2>1, HopefulNext DEF ReturnsIInv
  <2> QED BY <2>2 DEF HopelessFull, CallLog, Advances
<1>4. CASE Idle
  <2>1. ~alloc_slot
    BY <1>1, <1>4, HasSlotFacts
       DEF alloc_slot, ReturnToClient, ReturnToLog, CallLog, CopyMessage, PrintMessage,
           add_data_block, AtTop
  <2>2. stack' = stack \/ \E t : stack' = <<Frame(t, "enter")>>
    BY <2>1 DEF Next, lalloc_type, lalloc_size, lrealloc, release
  <2>3. ~Hopeless'
    <3>1. CASE stack' = stack
      BY <1>4, <3>1 DEF Hopeless, Idle
    <3>2. ASSUME NEW t, stack' = <<Frame(t, "enter")>> PROVE ~Hopeless'
      <4>1. Len(stack') = 1 /\ stack'[1].at = "enter"
        BY <3>2 DEF Frame
      <4>2. \A i \in 1 .. Len(stack') : i = 1
        BY <4>1
      <4> QED BY <4>1, <4>2 DEF Hopeless
    <3> QED BY <2>2, <3>1, <3>2
  <2> QED BY <2>3 DEF HopelessFull
<1> QED BY <1>2, <1>3, <1>4

\* The invariant with what makes calls return.
LEMMA ReturnsInvariant ==
  ASSUME InternalForLogs
  PROVE  Spec => []ReturnsIInv
<1>1. Init => InternalUntaken /\ HopelessFull
  BY LogPools DEF Init, InternalUntaken, HopelessFull, Hopeless, Idle
<1>2. ReturnsIInv /\ [Next]_vars => ReturnsIInv'
  <2> SUFFICES ASSUME ReturnsIInv, [Next]_vars PROVE ReturnsIInv'
    OBVIOUS
  <2>1. IInv'
    BY NextIInv DEF ReturnsIInv
  <2>2. CASE Next
    BY <2>1, <2>2, UntakenNext, HopelessFullNext DEF ReturnsIInv
  <2>3. CASE UNCHANGED vars
    <3>1. /\ taken' = taken /\ free' = free /\ old' = old /\ stack' = stack
      BY <2>3 DEF vars
    <3> QED BY <2>1, <3>1 DEF ReturnsIInv, InternalUntaken, HopelessFull, Hopeless, Idle
  <2> QED BY <2>2, <2>3
<1>3. Init => ReturnsIInv
  BY <1>1, InitIInv DEF ReturnsIInv
<1> QED BY <1>2, <1>3, PTL DEF Spec

\* As long as there is a slot for the message, every step of lalloc_type, lalloc_size or
\* lrealloc (lispy_mempool.c) brings the call nearer to its end, in natural numbers, and
\* that does not change until it has returned: nothing that a log takes or gives back
\* can make the call wait for itself.
THEOREM AllocProgresses ==
  ASSUME InternalForLogs
  PROVE  Spec => /\ [](free[MessageType] > 0 => GetsMessage)
                 /\ [][alloc_slot /\ GetsMessage =>
                         /\ GetsMessage'
                         /\ StepsLeft' \in Nat /\ StepsLeft' < StepsLeft]_vars
<1>1. ReturnsIInv => (free[MessageType] > 0 => GetsMessage)
  <2> SUFFICES ASSUME ReturnsIInv, free[MessageType] > 0 PROVE GetsMessage
    OBVIOUS
  <2>1. ~Hopeless
    BY DEF ReturnsIInv, HopelessFull
  <2> QED BY <2>1 DEF GetsMessage
<1>2. ReturnsIInv /\ [Next]_vars =>
        [alloc_slot /\ GetsMessage => /\ GetsMessage'
                                      /\ StepsLeft' \in Nat /\ StepsLeft' < StepsLeft]_vars
  <2> SUFFICES ASSUME ReturnsIInv, alloc_slot, GetsMessage
               PROVE  GetsMessage' /\ StepsLeft' \in Nat /\ StepsLeft' < StepsLeft
    OBVIOUS
  <2>1. ~Idle
    BY HasSlotFacts
       DEF alloc_slot, ReturnToClient, ReturnToLog, CallLog, CopyMessage, PrintMessage,
           add_data_block, AtTop, ReturnsIInv
  <2>2. ~Hopeless
    BY <2>1 DEF GetsMessage
  <2>3. ~(CallLog /\ free[MessageType] = 0 /\ (Len(stack) = 2 \/ stack[1].at = "enter"))
    BY <2>1, <2>2 DEF GetsMessage
  <2>4. Advances
    BY <2>1, <2>2, <2>3, HopefulNext
  <2> QED BY <2>4 DEF Advances
<1> QED BY <1>1, <1>2, ReturnsInvariant, PTL DEF Spec
=============================================================================
