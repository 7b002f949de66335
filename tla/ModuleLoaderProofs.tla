------------------------- MODULE ModuleLoaderProofs -------------------------
(***************************************************************************)
(* The loader reads no file twice, gives no two modules the same memory,   *)
(* starts the heap above all of them, runs only complete programs and      *)
(* comes to an end, for any programs, sizes of modules and numbers of      *)
(* pages.                                                                  *)
(***************************************************************************)
EXTENDS ModuleLoader, FiniteSetTheorems, SequenceTheorems, WellFoundedInduction,
        TLAPS

Places == [data : Nat, fns : Nat]
Calls == [ns : Namespaces, deps : Seq(Namespaces)]
Blocks == [at : Nat, size : Nat]

TypeOK ==
  /\ status \in {"loading", "linking", "instantiating", "running", "hanging", "failed"}
  /\ deps \in [Namespaces -> Seq(Namespaces)]
  /\ stack \in Seq(Calls)
  /\ trace \in Seq(Namespaces)
  /\ modules \in Seq(Namespaces)
  /\ place \in [Modules -> Places \union {NONE}]
  /\ data_offset \in Nat /\ fn_table_offset \in Nat
  /\ heap_base \in Nat /\ page_count \in Nat /\ free_p \in Nat
  /\ blocks \subseteq Blocks

-----------------------------------------------------------------------------
(***************************************************************************)
(* The calls of load_modules.                                              *)
(***************************************************************************)
OneCallEach ==
  \A i, j \in 1 .. Len(stack) : stack[i].ns = stack[j].ns => i = j
ActiveNotLoaded ==
  \A i \in 1 .. Len(stack), k \in 1 .. Len(modules) : stack[i].ns # modules[k]
AddedOnce ==
  \A k, l \in 1 .. Len(modules) : modules[k] = modules[l] => k = l
ActiveOnTrace ==
  \A i \in 1 .. Len(stack) : \E p \in 1 .. Len(trace) : trace[p] = stack[i].ns

\* The last entry of the trace, the one that a call takes off when it returns, is of no
\* call below it: what the calls put on it comes in the order of the calls.
TraceInOrder ==
  \A i, j \in 1 .. Len(stack) : i < j =>
    \A p, q \in 1 .. Len(trace) :
      trace[p] = stack[i].ns /\ trace[q] = stack[j].ns => p < q

CallsOK == OneCallEach /\ ActiveNotLoaded /\ AddedOnce /\ ActiveOnTrace /\ TraceInOrder

-----------------------------------------------------------------------------
(***************************************************************************)
(* The memory of the modules.                                              *)
(***************************************************************************)
\* All that was given out is below the offsets of the next module.
PlacedBelow ==
  \A m \in Modules : place[m] # NONE =>
    /\ place[m].data + DataSize[m] <= data_offset
    /\ place[m].fns + FnTableSize[m] <= fn_table_offset
PlacesApart ==
  \A m, n \in Modules : place[m] # NONE /\ place[n] # NONE /\ m # n =>
    /\ Apart(place[m].data, DataSize[m], place[n].data, DataSize[n])
    /\ Apart(place[m].fns, FnTableSize[m], place[n].fns, FnTableSize[n])
HavePlaces ==
  /\ place[builtin] # NONE
  /\ \A i \in 1 .. Len(stack) : place[stack[i].ns] # NONE
  /\ \A k \in 1 .. Len(modules) : place[modules[k]] # NONE

PlacesOK == PlacedBelow /\ PlacesApart /\ HavePlaces

-----------------------------------------------------------------------------
(***************************************************************************)
(* The heap above it, and the modules of the program.                      *)
(***************************************************************************)
Based == status \in {"linking", "instantiating", "running", "hanging"}
Started == status \in {"running", "hanging"}

HeapOK ==
  /\ page_count <= max_page_count
  /\ status = "loading" => page_count = initial_page_count
  /\ Based => heap_base = HeapBase /\ heap_base <= page_count * page_size
  /\ Started => heap_base <= free_p /\ free_p <= page_count * page_size
  /\ ~Started => blocks = {}

\* The blocks are below what comes next, and apart.
BlocksOK ==
  /\ \A b \in blocks : heap_base <= b.at /\ b.at + b.size <= free_p
  /\ \A b, c \in blocks : b # c => Apart(b.at, b.size, c.at, c.size)

Linked ==
  status \in {"instantiating", "running", "hanging"} =>
    \A k \in 1 .. Len(modules) : Available(modules[k])
Instantiated ==
  /\ instantiated \subseteq {builtin} \union Range(modules)
  /\ Started => Range(modules) \subseteq instantiated

\* The inductive invariant.
IInv ==
  /\ TypeOK
  /\ CallsOK
  /\ PlacesOK
  /\ HeapOK
  /\ BlocksOK
  /\ Linked
  /\ Instantiated

-----------------------------------------------------------------------------
(***************************************************************************)
(* Sequences.                                                              *)
(***************************************************************************)
\* The parts of a sequence that the calls of load_modules take apart.
LEMMA FrontAndLast ==
  ASSUME NEW S, NEW s \in Seq(S), s # <<>>
  PROVE  /\ Len(s) \in Nat /\ Len(s) \in 1 .. Len(s)
         /\ Last(s) = s[Len(s)] /\ Last(s) \in S
         /\ Front(s) \in Seq(S) /\ Len(Front(s)) = Len(s) - 1
         /\ \A i \in 1 .. Len(s) - 1 : Front(s)[i] = s[i]
<1> DEFINE n == Len(s) - 1
<1>1. Len(s) \in Nat /\ Len(s) \in 1 .. Len(s) /\ s[Len(s)] \in S
  OBVIOUS
<1>2. n \in 0 .. Len(s) /\ n = Len(s) - 1 /\ n - 1 + 1 = n
  BY <1>1
<1> HIDE DEF n
<1>3. /\ SubSeq(s, 1, n) \in Seq(S) /\ Len(SubSeq(s, 1, n)) = n
      /\ \A i \in 1 .. n : SubSeq(s, 1, n)[i] = s[i]
  BY <1>1, <1>2, SubSeqProperties
<1> QED BY <1>1, <1>2, <1>3 DEF Front, Last

\* The elements of a sequence, by their places.
LEMMA ElementsOf ==
  ASSUME NEW S, NEW s \in Seq(S)
  PROVE  /\ Len(s) \in Nat /\ DOMAIN s = 1 .. Len(s)
         /\ \A i \in 1 .. Len(s) : s[i] \in S /\ s[i] \in Range(s)
         /\ \A x \in Range(s) : \E i \in 1 .. Len(s) : x = s[i]
BY DEF Range

\* What a sequence holds once an element is added.
LEMMA AppendedTo ==
  ASSUME NEW S, NEW s \in Seq(S), NEW x \in S
  PROVE  /\ Append(s, x) \in Seq(S) /\ Len(Append(s, x)) = Len(s) + 1
         /\ Append(s, x)[Len(s) + 1] = x
         /\ \A i \in 1 .. Len(s) : Append(s, x)[i] = s[i]
OBVIOUS

\* A sequence in which every element is there once has as many as it is long.
LEMMA EachOnce ==
  ASSUME NEW S, NEW s \in Seq(S), \A i, j \in 1 .. Len(s) : s[i] = s[j] => i = j
  PROVE  Cardinality({s[i] : i \in 1 .. Len(s)}) = Len(s)
<1> DEFINE n == Len(s)
           T == {s[i] : i \in 1 .. n}
<1>1. n \in Nat /\ s \in [1 .. n -> S]
  OBVIOUS
<1>2. s \in Bijection(1 .. n, T)
  <2>1. s \in [1 .. n -> T]
    BY <1>1
  <2>2. s \in Injection(1 .. n, T)
    BY <2>1 DEF Injection, IsInjective
  <2>3. s \in Surjection(1 .. n, T)
    BY <2>1 DEF Surjection
  <2> QED BY <2>2, <2>3 DEF Bijection
<1>3. ExistsBijection(1 .. n, T)
  BY <1>2 DEF ExistsBijection
<1>4. IsFiniteSet(1 .. n) /\ Cardinality(1 .. n) = n
  BY <1>1, FS_Interval
<1> HIDE DEF n, T
<1>5. Cardinality(T) = n
  BY <1>3, <1>4, FS_Bijection
<1> QED BY <1>5 DEF n, T

-----------------------------------------------------------------------------
(***************************************************************************)
(* Numbers.                                                                *)
(***************************************************************************)
\* What is aligned is not less.
LEMMA PadNotLess ==
  ASSUME NEW s \in Nat
  PROVE  pad(s) \in Nat /\ pad(s) >= s
BY DEF pad

\* What malloc takes for a block is more than the block.
LEMMA AlignedMore ==
  ASSUME NEW size \in Nat
  PROVE  Aligned(size) \in Nat /\ Aligned(size) > size
BY DEF Aligned

\* Division by the size of a page.
LEMMA PageDivision ==
  ASSUME NEW bytes \in Nat
  PROVE  /\ bytes \div page_size \in Nat
         /\ (bytes \div page_size) * page_size <= bytes
         /\ bytes < (bytes \div page_size) * page_size + page_size
BY PagesAssumption

\* More pages are more memory.
LEMMA MorePages ==
  ASSUME NEW m \in Nat, NEW n \in Nat, m <= n
  PROVE  m * page_size \in Nat /\ n * page_size \in Nat /\ m * page_size <= n * page_size
BY PagesAssumption

\* The pages set_heap_base asks for are enough.
LEMMA PagesForEnough ==
  ASSUME NEW bytes \in Nat
  PROVE  PagesFor(bytes) \in Nat /\ bytes <= PagesFor(bytes) * page_size
<1> DEFINE more == bytes + page_size - 1
<1>1. page_size \in Nat /\ page_size > 0
  BY PagesAssumption
<1>2. more \in Nat
  BY <1>1
<1>3. /\ more \div page_size \in Nat
      /\ more < (more \div page_size) * page_size + page_size
  BY <1>2, PageDivision
<1>4. (more \div page_size) * page_size \in Nat
  BY <1>1, <1>3
<1> QED BY <1>1, <1>3, <1>4 DEF PagesFor

\* The pages malloc asks for are enough, and more than there are.
LEMMA EnoughForEnough ==
  ASSUME NEW bytes \in Nat
  PROVE  /\ EnoughFor(bytes) \in Nat /\ bytes <= EnoughFor(bytes) * page_size
         /\ \A pages \in Nat : pages * page_size <= bytes => pages <= EnoughFor(bytes)
<1> DEFINE n == bytes \div page_size
<1>1. page_size \in Nat /\ page_size > 0
  BY PagesAssumption
<1>2. n \in Nat /\ bytes < n * page_size + page_size
  BY PageDivision
<1> HIDE DEF n
<1>3. (n + 1) * page_size = n * page_size + page_size /\ n * page_size \in Nat
  BY <1>1, <1>2
<1>4. ASSUME NEW pages \in Nat, pages * page_size <= bytes
      PROVE  pages <= n + 1
  <2> SUFFICES ASSUME n + 1 <= pages PROVE pages <= n + 1
    BY <1>2
  <2>1. (n + 1) * page_size <= pages * page_size
    BY <1>2, MorePages
  <2>2. pages * page_size \in Nat
    BY <1>1
  <2> QED BY <1>1, <1>2, <1>3, <1>4, <2>1, <2>2
<1> QED BY <1>1, <1>2, <1>3, <1>4 DEF EnoughFor, n

-----------------------------------------------------------------------------
(***************************************************************************)
(* The calls of load_modules move on.                                      *)
(***************************************************************************)
\* The innermost call goes on with other dependencies.
LEMMA Replaced ==
  ASSUME TypeOK, stack # <<>>, NEW ds \in Seq(Namespaces)
  PROVE  LET moved == Append(Below, [Top EXCEPT !.deps = ds])
         IN  /\ moved \in Seq(Calls) /\ Len(moved) = Len(stack) /\ Len(stack) \in Nat
             /\ \A i \in 1 .. Len(stack) : moved[i].ns = stack[i].ns
<1> DEFINE n == Len(stack)
           top == [Top EXCEPT !.deps = ds]
<1>1. /\ n \in Nat /\ n \in 1 .. n /\ Top = stack[n] /\ Top \in Calls
      /\ Below \in Seq(Calls) /\ Len(Below) = n - 1
      /\ \A i \in 1 .. n - 1 : Below[i] = stack[i]
  BY FrontAndLast DEF TypeOK, Top, Below
<1>2. top \in Calls /\ top.ns = stack[n].ns
  BY <1>1 DEF Calls
<1> HIDE DEF top
<1>3. /\ Append(Below, top) \in Seq(Calls) /\ Len(Append(Below, top)) = n
      /\ Append(Below, top)[n] = top
      /\ \A i \in 1 .. n - 1 : Append(Below, top)[i] = stack[i]
  BY <1>1, <1>2
<1>4. \A i \in 1 .. n : Append(Below, top)[i].ns = stack[i].ns
  BY <1>1, <1>2, <1>3
<1> QED BY <1>1, <1>3, <1>4 DEF top

\* The innermost call, and what is left of its dependencies.
LEMMA TopCall ==
  ASSUME TypeOK, stack # <<>>
  PROVE  /\ Len(stack) \in Nat /\ Len(stack) \in 1 .. Len(stack) /\ Top = stack[Len(stack)]
         /\ Top.ns \in Namespaces /\ Top.deps \in Seq(Namespaces)
         /\ Top.deps # <<>> =>
              Head(Top.deps) \in Namespaces /\ Tail(Top.deps) \in Seq(Namespaces)
<1>1. /\ Len(stack) \in Nat /\ Len(stack) \in 1 .. Len(stack)
      /\ Top = stack[Len(stack)] /\ Top \in Calls
  BY FrontAndLast DEF TypeOK, Top
<1>2. Top.ns \in Namespaces /\ Top.deps \in Seq(Namespaces)
  BY <1>1 DEF Calls
<1> QED BY <1>1, <1>2

\* Nothing but the loader's own state changes while modules are loaded.
LEMMA HeapWhileLoading ==
  ASSUME IInv, InLoop, status' \in {"loading", "failed"},
         \A k \in 1 .. Len(modules) : k \in 1 .. Len(modules') /\ modules'[k] = modules[k],
         modules' \in Seq(Namespaces)
  PROVE  HeapOK' /\ BlocksOK' /\ Linked' /\ Instantiated'
<1>1. /\ status = "loading" /\ ~Started /\ ~Started' /\ ~Based'
      /\ instantiated' = instantiated /\ heap_base' = heap_base /\ page_count' = page_count
      /\ free_p' = free_p /\ blocks' = blocks
  BY DEF InLoop, heap, Started, Based
<1>2. blocks = {} /\ page_count <= max_page_count /\ page_count = initial_page_count
  BY <1>1 DEF IInv, HeapOK
<1>3. HeapOK'
  BY <1>1, <1>2 DEF HeapOK
<1>4. BlocksOK'
  BY <1>1, <1>2 DEF BlocksOK
<1>5. Linked'
  <2>1. status' \notin {"instantiating", "running", "hanging"}
    OBVIOUS
  <2> QED BY <2>1 DEF Linked, Available
<1>6. Range(modules) \subseteq Range(modules')
  <2>1. modules \in Seq(Namespaces)
    BY DEF IInv, TypeOK
  <2> SUFFICES ASSUME NEW m \in Range(modules) PROVE m \in Range(modules')
    OBVIOUS
  <2>2. PICK k \in 1 .. Len(modules) : m = modules[k]
    BY <2>1, ElementsOf
  <2>3. k \in 1 .. Len(modules') /\ modules'[k] = m
    BY <2>2
  <2> QED BY <2>3, ElementsOf
<1>7. Instantiated'
  BY <1>1, <1>6 DEF IInv, Instantiated
<1> QED BY <1>3, <1>4, <1>5, <1>7

\* A call that goes on, having put on the trace at most a module that is loaded.
LEMMA GoesOnIInv ==
  ASSUME IInv, InLoop, status' \in {"loading", "failed"},
         stack' \in Seq(Calls), Len(stack') = Len(stack),
         \A i \in 1 .. Len(stack) : stack'[i].ns = stack[i].ns,
         trace' = trace \/ (\E x \in Range(modules) : trace' = Append(trace, x)),
         UNCHANGED <<deps, modules, place, data_offset, fn_table_offset>>
  PROVE  IInv'
<1> DEFINE n == Len(stack)
           tn == Len(trace)
<1>1. /\ TypeOK /\ n \in Nat /\ tn \in Nat /\ modules \in Seq(Namespaces)
      /\ modules' = modules /\ stack \in Seq(Calls) /\ trace \in Seq(Namespaces)
  BY DEF IInv, TypeOK
<1>2. \A k \in 1 .. Len(modules) : modules[k] \in Namespaces
  BY <1>1
<1>3. PICK x \in Range(modules) \union {NONE} :
        trace' = trace \/ (x \in Range(modules) /\ trace' = Append(trace, x))
  OBVIOUS
<1>4. /\ trace' \in Seq(Namespaces) /\ Len(trace') >= tn /\ Len(trace') \in Nat
      /\ \A p \in 1 .. tn : trace'[p] = trace[p]
      /\ \A p \in 1 .. Len(trace') : p \notin 1 .. tn =>
           \E k \in 1 .. Len(modules) : trace'[p] = modules[k]
  <2>1. CASE trace' = trace
    BY <1>1, <2>1
  <2>2. CASE x \in Range(modules) /\ trace' = Append(trace, x)
    <3>1. PICK k \in 1 .. Len(modules) : x = modules[k]
      BY <1>1, <2>2, ElementsOf
    <3>2. x \in Namespaces
      BY <1>2, <3>1
    <3>3. /\ trace' \in Seq(Namespaces) /\ Len(trace') = tn + 1 /\ trace'[tn + 1] = x
          /\ \A p \in 1 .. tn : trace'[p] = trace[p]
      BY <1>1, <2>2, <3>2, AppendedTo
    <3> QED BY <1>1, <3>1, <3>3
  <2> QED BY <1>3, <2>1, <2>2
<1>5. TypeOK'
  BY <1>1, <1>4 DEF TypeOK, InLoop, heap
<1>6. OneCallEach' /\ ActiveNotLoaded' /\ AddedOnce'
  BY <1>1 DEF IInv, CallsOK, OneCallEach, ActiveNotLoaded, AddedOnce
<1>7. ActiveOnTrace'
  <2> SUFFICES ASSUME NEW i \in 1 .. n
               PROVE  \E p \in 1 .. Len(trace') : trace'[p] = stack'[i].ns
    BY <1>1 DEF ActiveOnTrace
  <2>1. PICK p \in 1 .. tn : trace[p] = stack[i].ns
    BY DEF IInv, CallsOK, ActiveOnTrace
  <2> QED BY <1>1, <1>4, <2>1
<1>8. TraceInOrder'
  <2> SUFFICES ASSUME NEW i \in 1 .. n, NEW j \in 1 .. n, i < j,
                      NEW p \in 1 .. Len(trace'), NEW q \in 1 .. Len(trace'),
                      trace'[p] = stack'[i].ns, trace'[q] = stack'[j].ns
               PROVE  p < q
    BY <1>1 DEF TraceInOrder
  <2>1. p \in 1 .. tn /\ q \in 1 .. tn
    BY <1>4 DEF IInv, CallsOK, ActiveNotLoaded
  <2>2. trace[p] = stack[i].ns /\ trace[q] = stack[j].ns
    BY <1>4, <2>1
  <2> QED BY <2>1, <2>2 DEF IInv, CallsOK, TraceInOrder
<1>9. CallsOK'
  BY <1>6, <1>7, <1>8 DEF CallsOK
<1>10. PlacesOK'
  BY <1>1 DEF IInv, PlacesOK, PlacedBelow, PlacesApart, HavePlaces
<1>11. HeapOK' /\ BlocksOK' /\ Linked' /\ Instantiated'
  BY <1>1, HeapWhileLoading
<1> QED BY <1>5, <1>9, <1>10, <1>11 DEF IInv

\* A file is read: a call, an entry of the trace and a place for its module.
LEMMA EnterIInv ==
  ASSUME IInv, InLoop, UNCHANGED <<status, modules>>,
         NEW ns \in Namespaces, NEW rest \in Seq(Calls), Enter(ns, rest),
         Len(rest) = Len(stack), \A i \in 1 .. Len(stack) : rest[i].ns = stack[i].ns,
         ns \notin Range(modules), ns \notin Range(trace) \/ stack = <<>>
  PROVE  IInv'
<1> DEFINE n == Len(stack)
           tn == Len(trace)
<1>1. /\ TypeOK /\ n \in Nat /\ tn \in Nat /\ modules' = modules /\ status' = status
      /\ stack \in Seq(Calls) /\ trace \in Seq(Namespaces) /\ modules \in Seq(Namespaces)
      /\ place \in [Modules -> Places \union {NONE}] /\ ns \in Modules
      /\ data_offset \in Nat /\ fn_table_offset \in Nat /\ status = "loading"
  BY DEF IInv, TypeOK, InLoop, Modules
<1>2. PICK order \in DepOrders[ns] :
        /\ deps' = [deps EXCEPT ![ns] = order]
        /\ stack' = rest \o <<[ns |-> ns, deps |-> order]>>
        /\ trace' = Append(trace, ns)
        /\ place' = [place EXCEPT ![ns] = NewPlace]
        /\ data_offset' = data_offset + pad(DataSize[ns])
        /\ fn_table_offset' = fn_table_offset + FnTableSize[ns]
  BY DEF Enter
<1>3. order \in Seq(Namespaces)
  BY OrdersAssumption
<1>4. /\ stack' \in Seq(Calls) /\ Len(stack') = n + 1 /\ stack'[n + 1].ns = ns
      /\ \A i \in 1 .. n : stack'[i].ns = stack[i].ns
  <2> DEFINE call == [ns |-> ns, deps |-> order]
  <2>1. call \in Calls /\ call.ns = ns
    BY <1>3 DEF Calls
  <2> HIDE DEF call
  <2>2. stack' = rest \o <<call>>
    BY <1>2 DEF call
  <2>3. /\ stack' \in Seq(Calls) /\ Len(stack') = n + 1 /\ stack'[n + 1] = call
        /\ \A i \in 1 .. n : stack'[i] = rest[i]
    <3> DEFINE rn == Len(rest)
    <3>1. rest \o <<call>> = Append(rest, call) /\ rest \in Seq(Calls)
      BY <2>1
    <3>2. rn \in Nat /\ rn = n
      OBVIOUS
    <3>3. /\ stack' \in Seq(Calls) /\ Len(stack') = rn + 1 /\ stack'[rn + 1] = call
          /\ \A i \in 1 .. rn : stack'[i] = rest[i]
      <4>1. stack' = Append(rest, call)
        BY <2>2, <3>1
      <4> QED BY ONLY <2>1, <3>1, <4>1, AppendedTo
    <3> QED BY <3>2, <3>3
  <2> QED BY <2>1, <2>3
<1>5. /\ trace' \in Seq(Namespaces) /\ Len(trace') = tn + 1 /\ trace'[tn + 1] = ns
      /\ \A p \in 1 .. tn : trace'[p] = trace[p]
  BY <1>1, <1>2, AppendedTo
<1>6. /\ DataSize[ns] \in Nat /\ FnTableSize[ns] \in Nat
      /\ pad(DataSize[ns]) \in Nat /\ pad(DataSize[ns]) >= DataSize[ns]
  BY <1>1, SizesAssumption, PadNotLess
<1>7. data_offset' \in Nat /\ fn_table_offset' \in Nat
  BY <1>1, <1>2, <1>6
<1>8. NewPlace \in Places /\ NewPlace.data = data_offset /\ NewPlace.fns = fn_table_offset
  BY <1>1 DEF NewPlace, Places
<1>9. /\ place' \in [Modules -> Places \union {NONE}] /\ place'[ns] = NewPlace
      /\ \A m \in Modules : m # ns => place'[m] = place[m]
  BY <1>1, <1>2, <1>8
<1>10. deps' \in [Namespaces -> Seq(Namespaces)]
  BY <1>1, <1>2, <1>3 DEF TypeOK
<1>11. TypeOK'
  BY <1>1, <1>4, <1>5, <1>7, <1>9, <1>10 DEF TypeOK, InLoop, heap
<1>12. \A k \in 1 .. Len(modules) : modules[k] # ns
  BY <1>1, ElementsOf
<1>13. \A i \in 1 .. n : stack[i].ns # ns
  <2> SUFFICES ASSUME NEW i \in 1 .. n, stack[i].ns = ns PROVE FALSE
    OBVIOUS
  <2>1. PICK p \in 1 .. tn : trace[p] = ns
    BY DEF IInv, CallsOK, ActiveOnTrace
  <2>2. stack # <<>>
    BY <1>1
  <2> QED BY <1>1, <2>1, <2>2, ElementsOf
<1>14. OneCallEach' /\ ActiveNotLoaded' /\ AddedOnce'
  <2>1. OneCallEach'
    <3>1. \A i, j \in 1 .. n : stack[i].ns = stack[j].ns => i = j
      BY DEF IInv, CallsOK, OneCallEach
    <3> SUFFICES ASSUME NEW i \in 1 .. n + 1, NEW j \in 1 .. n + 1,
                        stack'[i].ns = stack'[j].ns
                 PROVE  i = j
      BY <1>4 DEF OneCallEach
    <3>2. i \in 1 .. n \/ i = n + 1
      BY <1>1
    <3>3. j \in 1 .. n \/ j = n + 1
      BY <1>1
    <3>4. /\ i \in 1 .. n => stack'[i].ns = stack[i].ns /\ stack[i].ns # ns
          /\ j \in 1 .. n => stack'[j].ns = stack[j].ns /\ stack[j].ns # ns
          /\ stack'[n + 1].ns = ns
      BY <1>4, <1>13
    <3> QED BY <3>1, <3>2, <3>3, <3>4
  <2>2. ActiveNotLoaded'
    <3>1. \A i \in 1 .. n, k \in 1 .. Len(modules) : stack[i].ns # modules[k]
      BY DEF IInv, CallsOK, ActiveNotLoaded
    <3>2. modules' = modules
      BY <1>1
    <3> SUFFICES ASSUME NEW i \in 1 .. n + 1, NEW k \in 1 .. Len(modules)
                 PROVE  stack'[i].ns # modules[k]
      BY <1>4, <3>2 DEF ActiveNotLoaded
    <3>3. i \in 1 .. n \/ i = n + 1
      BY <1>1
    <3>4. /\ i \in 1 .. n => stack'[i].ns = stack[i].ns
          /\ stack'[n + 1].ns = ns
      BY <1>4
    <3> QED BY ONLY <1>12, <3>1, <3>3, <3>4
  <2>3. AddedOnce'
    BY <1>1 DEF IInv, CallsOK, AddedOnce
  <2> QED BY <2>1, <2>2, <2>3
<1>15. ActiveOnTrace'
  <2> SUFFICES ASSUME NEW i \in 1 .. n + 1
               PROVE  \E p \in 1 .. tn + 1 : trace'[p] = stack'[i].ns
    BY <1>4, <1>5 DEF ActiveOnTrace
  <2>1. CASE i = n + 1
    BY <1>1, <1>4, <1>5, <2>1
  <2>2. CASE i \in 1 .. n
    <3>1. PICK p \in 1 .. tn : trace[p] = stack[i].ns
      BY <2>2 DEF IInv, CallsOK, ActiveOnTrace
    <3> QED BY <1>1, <1>4, <1>5, <2>2, <3>1
  <2> QED BY <1>1, <2>1, <2>2
<1>16. TraceInOrder'
  <2> SUFFICES ASSUME NEW i \in 1 .. n + 1, NEW j \in 1 .. n + 1, i < j,
                      NEW p \in 1 .. tn + 1, NEW q \in 1 .. tn + 1,
                      trace'[p] = stack'[i].ns, trace'[q] = stack'[j].ns
               PROVE  p < q
    <3>1. Len(stack') = n + 1 /\ Len(trace') = tn + 1
      BY <1>4, <1>5
    <3> QED BY <3>1 DEF TraceInOrder
  <2>1. i \in 1 .. n /\ stack'[i].ns = stack[i].ns /\ stack[i].ns # ns
    BY <1>1, <1>4, <1>13
  <2>2. p \in 1 .. tn /\ trace[p] = stack[i].ns
    BY <1>1, <1>5, <2>1
  <2>3. CASE j = n + 1
    <3>1. stack # <<>>
      BY <1>1, <2>1
    <3>2. \A r \in 1 .. tn : trace[r] # ns
      BY <1>1, <3>1, ElementsOf
    <3>3. q = tn + 1
      <4>1. trace'[q] = ns
        BY <1>4, <2>3
      <4>2. q \in 1 .. tn => trace[q] = ns
        BY <1>5, <4>1
      <4> QED BY <1>1, <3>2, <4>2
    <3> QED BY <1>1, <2>2, <3>3
  <2>4. CASE j \in 1 .. n
    <3>1. stack'[j].ns = stack[j].ns /\ stack[j].ns # ns
      BY <1>4, <1>13, <2>4
    <3>2. q \in 1 .. tn /\ trace[q] = stack[j].ns
      BY <1>1, <1>5, <3>1
    <3> QED BY <2>1, <2>2, <2>4, <3>2 DEF IInv, CallsOK, TraceInOrder
  <2> QED BY <1>1, <2>3, <2>4
<1>17. CallsOK'
  BY <1>14, <1>15, <1>16 DEF CallsOK
<1>18. \A m \in Modules : place[m] # NONE =>
         /\ place[m].data \in Nat /\ place[m].fns \in Nat
         /\ DataSize[m] \in Nat /\ FnTableSize[m] \in Nat
         /\ place[m].data + DataSize[m] <= data_offset
         /\ place[m].fns + FnTableSize[m] <= fn_table_offset
  BY <1>1, SizesAssumption DEF IInv, PlacesOK, PlacedBelow, Places
<1>19. PlacedBelow'
  <2> SUFFICES ASSUME NEW m \in Modules, place'[m] # NONE
               PROVE  /\ place'[m].data + DataSize[m] <= data_offset'
                      /\ place'[m].fns + FnTableSize[m] <= fn_table_offset'
    BY DEF PlacedBelow
  <2>1. CASE m = ns
    BY <1>1, <1>2, <1>6, <1>8, <1>9, <2>1
  <2>2. CASE m # ns
    <3>1. /\ place[m].data \in Nat /\ place[m].fns \in Nat
          /\ DataSize[m] \in Nat /\ FnTableSize[m] \in Nat
          /\ place[m].data + DataSize[m] <= data_offset
          /\ place[m].fns + FnTableSize[m] <= fn_table_offset
          /\ place'[m] = place[m]
      BY <1>9, <1>18, <2>2
    <3>2. /\ data_offset' = data_offset + pad(DataSize[ns])
          /\ fn_table_offset' = fn_table_offset + FnTableSize[ns]
          /\ data_offset \in Nat /\ fn_table_offset \in Nat
      BY <1>1, <1>2
    <3>3. place'[m].data + DataSize[m] <= data_offset'
      <4>1. place'[m].data = place[m].data
        BY <3>1
      <4> QED BY ONLY <1>6, <3>1, <3>2, <4>1
    <3>4. place'[m].fns + FnTableSize[m] <= fn_table_offset'
      <4>1. place'[m].fns = place[m].fns
        BY <3>1
      <4> QED BY ONLY <1>6, <3>1, <3>2, <4>1
    <3> QED BY <3>3, <3>4
  <2> QED BY <2>1, <2>2
<1>20. PlacesApart'
  <2> SUFFICES ASSUME NEW m \in Modules, NEW k \in Modules,
                      place'[m] # NONE, place'[k] # NONE, m # k
               PROVE  /\ Apart(place'[m].data, DataSize[m], place'[k].data, DataSize[k])
                      /\ Apart(place'[m].fns, FnTableSize[m], place'[k].fns, FnTableSize[k])
    BY DEF PlacesApart, Apart
  <2>1. CASE m # ns /\ k # ns
    BY <1>9, <2>1 DEF IInv, PlacesOK, PlacesApart
  <2>2. CASE m = ns
    <3>1. place'[k] = place[k] /\ place'[m] = NewPlace
      BY <1>9, <2>2
    <3> QED BY <1>8, <1>18, <3>1 DEF Apart
  <2>3. CASE k = ns
    <3>1. place'[m] = place[m] /\ place'[k] = NewPlace
      BY <1>9, <2>3
    <3> QED BY <1>8, <1>18, <3>1 DEF Apart
  <2> QED BY <2>1, <2>2, <2>3
<1>21. HavePlaces'
  <2>1. NewPlace # NONE
    BY <1>8, NoneAssumption DEF Places
  <2>2. /\ builtin \in Modules /\ builtin # ns
        /\ \A k \in 1 .. Len(modules) : modules[k] \in Modules
        /\ \A i \in 1 .. n : stack[i].ns \in Modules
    <3>1. builtin \in Modules /\ builtin # ns
      BY NamesAssumption DEF Modules
    <3>2. \A k \in 1 .. Len(modules) : modules[k] \in Modules
      BY <1>1, ElementsOf DEF Modules
    <3>3. \A i \in 1 .. n : stack[i] \in Calls
      BY <1>1, ElementsOf
    <3> QED BY <3>1, <3>2, <3>3 DEF Modules, Calls
  <2>3. place'[builtin] # NONE
    BY <1>9, <2>2 DEF IInv, PlacesOK, HavePlaces
  <2>4. \A k \in 1 .. Len(modules) : place'[modules[k]] # NONE
    BY <1>9, <1>12, <2>2 DEF IInv, PlacesOK, HavePlaces
  <2>5. \A i \in 1 .. n : place'[stack[i].ns] # NONE
    BY <1>9, <1>13, <2>2 DEF IInv, PlacesOK, HavePlaces
  <2>6. \A i \in 1 .. n + 1 : place'[stack'[i].ns] # NONE
    <3> SUFFICES ASSUME NEW i \in 1 .. n + 1 PROVE place'[stack'[i].ns] # NONE
      OBVIOUS
    <3>1. CASE i = n + 1
      BY <1>4, <1>9, <2>1, <3>1
    <3>2. CASE i \in 1 .. n
      BY <1>4, <2>5, <3>2
    <3> QED BY <1>1, <3>1, <3>2
  <2> QED BY <1>1, <1>4, <2>3, <2>4, <2>6 DEF HavePlaces
<1>22. HeapOK' /\ BlocksOK' /\ Linked' /\ Instantiated'
  BY <1>1, HeapWhileLoading
<1> QED BY <1>11, <1>17, <1>19, <1>20, <1>21, <1>22 DEF IInv, PlacesOK

\* A call returns: it takes the last entry off the trace, whatever that is.
LEMMA ModuleLoadedIInv ==
  ASSUME IInv, module_loaded
  PROVE  IInv'
<1> DEFINE n == Len(stack)
           tn == Len(trace)
           mn == Len(modules)
<1>1. /\ TypeOK /\ InLoop /\ status' = status /\ status = "loading" /\ stack # <<>>
      /\ modules' = Append(modules, Top.ns) /\ trace' = Front(trace) /\ stack' = Below
      /\ deps' = deps /\ place' = place /\ data_offset' = data_offset
      /\ fn_table_offset' = fn_table_offset
  BY DEF IInv, module_loaded, InLoop
<1>2. /\ stack \in Seq(Calls) /\ trace \in Seq(Namespaces) /\ modules \in Seq(Namespaces)
      /\ n \in Nat /\ n \in 1 .. n /\ tn \in Nat /\ mn \in Nat
      /\ Top = stack[n] /\ Top.ns \in Namespaces
  BY <1>1, TopCall DEF TypeOK
<1>3. /\ stack' \in Seq(Calls) /\ Len(stack') = n - 1
      /\ \A i \in 1 .. n - 1 : stack'[i] = stack[i] /\ i \in 1 .. n /\ i < n
  <2>1. stack' = Front(stack) /\ stack # <<>> /\ stack \in Seq(Calls)
    BY <1>1, <1>2 DEF Below
  <2>2. stack' \in Seq(Calls) /\ Len(stack') = n - 1 /\ \A i \in 1 .. n - 1 : stack'[i] = stack[i]
    BY ONLY <2>1, FrontAndLast
  <2> QED BY <1>2, <2>2
<1>4. PICK r \in 1 .. tn : trace[r] = stack[n].ns
  BY <1>2 DEF IInv, CallsOK, ActiveOnTrace
<1>5. /\ trace' \in Seq(Namespaces) /\ Len(trace') = tn - 1
      /\ \A p \in 1 .. tn - 1 : trace'[p] = trace[p] /\ p \in 1 .. tn
  <2>1. trace # <<>>
    BY <1>2, <1>4
  <2>2. trace' = Front(trace) /\ trace \in Seq(Namespaces)
    BY <1>1, <1>2
  <2>3. /\ trace' \in Seq(Namespaces) /\ Len(trace') = tn - 1
        /\ \A p \in 1 .. tn - 1 : trace'[p] = trace[p]
    BY ONLY <2>1, <2>2, FrontAndLast
  <2> QED BY <1>2, <2>3
<1>6. /\ modules' \in Seq(Namespaces) /\ Len(modules') = mn + 1
      /\ modules'[mn + 1] = stack[n].ns
      /\ \A k \in 1 .. mn : modules'[k] = modules[k]
  BY <1>1, <1>2, AppendedTo
<1>7. TypeOK'
  BY <1>1, <1>3, <1>5, <1>6 DEF TypeOK, InLoop, heap
<1>8. OneCallEach'
  BY <1>3 DEF IInv, CallsOK, OneCallEach
<1>9. ActiveNotLoaded'
  <2> SUFFICES ASSUME NEW i \in 1 .. n - 1, NEW k \in 1 .. mn + 1
               PROVE  stack'[i].ns # modules'[k]
    BY <1>3, <1>6 DEF ActiveNotLoaded
  <2>1. stack'[i] = stack[i] /\ i \in 1 .. n /\ i # n
    BY <1>2, <1>3
  <2>2. CASE k = mn + 1
    BY <1>2, <1>6, <2>1, <2>2 DEF IInv, CallsOK, OneCallEach
  <2>3. CASE k \in 1 .. mn
    BY <1>6, <2>1, <2>3 DEF IInv, CallsOK, ActiveNotLoaded
  <2> QED BY <1>2, <2>2, <2>3
<1>10. AddedOnce'
  <2> SUFFICES ASSUME NEW k \in 1 .. mn + 1, NEW l \in 1 .. mn + 1,
                      modules'[k] = modules'[l]
               PROVE  k = l
    BY <1>6 DEF AddedOnce
  <2>1. \A j \in 1 .. mn : modules[j] # stack[n].ns
    BY <1>2 DEF IInv, CallsOK, ActiveNotLoaded
  <2>2. k \in 1 .. mn => modules'[k] = modules[k] /\ modules[k] # stack[n].ns
    BY <1>6, <2>1
  <2>3. l \in 1 .. mn => modules'[l] = modules[l] /\ modules[l] # stack[n].ns
    BY <1>6, <2>1
  <2>4. (k \in 1 .. mn \/ k = mn + 1) /\ (l \in 1 .. mn \/ l = mn + 1)
    BY <1>2
  <2>5. \A i, j \in 1 .. mn : modules[i] = modules[j] => i = j
    BY DEF IInv, CallsOK, AddedOnce
  <2> QED BY <1>6, <2>2, <2>3, <2>4, <2>5
\* The entry of a call below comes before one of the call that returns, so it stays.
<1>11. ActiveOnTrace'
  <2> SUFFICES ASSUME NEW i \in 1 .. n - 1
               PROVE  \E p \in 1 .. tn - 1 : trace'[p] = stack'[i].ns
    BY <1>3, <1>5 DEF ActiveOnTrace
  <2>1. stack'[i] = stack[i] /\ i \in 1 .. n /\ i < n
    BY <1>3
  <2>2. PICK p \in 1 .. tn : trace[p] = stack[i].ns
    BY <2>1 DEF IInv, CallsOK, ActiveOnTrace
  <2>3. p < r
    BY <1>2, <1>4, <2>1, <2>2 DEF IInv, CallsOK, TraceInOrder
  <2>4. p \in 1 .. tn - 1
    BY <1>2, <2>3
  <2> QED BY <1>5, <2>1, <2>2, <2>4
<1>12. TraceInOrder'
  <2> SUFFICES ASSUME NEW i \in 1 .. n - 1, NEW j \in 1 .. n - 1, i < j,
                      NEW p \in 1 .. tn - 1, NEW q \in 1 .. tn - 1,
                      trace'[p] = stack'[i].ns, trace'[q] = stack'[j].ns
               PROVE  p < q
    <3>1. Len(stack') = n - 1 /\ Len(trace') = tn - 1
      BY <1>3, <1>5
    <3> QED BY <3>1 DEF TraceInOrder
  <2>1. i \in 1 .. n /\ j \in 1 .. n /\ p \in 1 .. tn /\ q \in 1 .. tn
    BY <1>3, <1>5
  <2>2. trace[p] = stack[i].ns /\ trace[q] = stack[j].ns
    BY <1>3, <1>5
  <2> QED BY <2>1, <2>2 DEF IInv, CallsOK, TraceInOrder
<1>13. HavePlaces'
  <2>1. place[stack[n].ns] # NONE
    BY <1>2 DEF IInv, PlacesOK, HavePlaces
  <2>2. \A k \in 1 .. mn + 1 : place[modules'[k]] # NONE
    <3> SUFFICES ASSUME NEW k \in 1 .. mn + 1 PROVE place[modules'[k]] # NONE
      OBVIOUS
    <3>1. CASE k = mn + 1
      BY <1>6, <2>1, <3>1
    <3>2. CASE k \in 1 .. mn
      BY <1>6, <3>2 DEF IInv, PlacesOK, HavePlaces
    <3> QED BY <1>2, <3>1, <3>2
  <2>3. \A i \in 1 .. n - 1 : place[stack'[i].ns] # NONE
    BY <1>3 DEF IInv, PlacesOK, HavePlaces
  <2> QED BY <1>1, <1>3, <1>6, <2>2, <2>3 DEF IInv, PlacesOK, HavePlaces
<1>14. PlacedBelow' /\ PlacesApart'
  BY <1>1 DEF IInv, PlacesOK, PlacedBelow, PlacesApart
<1>15. HeapOK' /\ BlocksOK' /\ Linked' /\ Instantiated'
  <2>1. \A k \in 1 .. mn : k \in 1 .. Len(modules') /\ modules'[k] = modules[k]
    BY <1>2, <1>6
  <2> QED BY <1>1, <1>6, <2>1, HeapWhileLoading
<1> QED BY <1>7, <1>8, <1>9, <1>10, <1>11, <1>12, <1>13, <1>14, <1>15
        DEF IInv, CallsOK, PlacesOK

-----------------------------------------------------------------------------
(***************************************************************************)
(* Memory, linking, instantiating and running.                             *)
(***************************************************************************)
\* What has been loaded stays as it is.
LEMMA LoadedStays ==
  ASSUME IInv, UNCHANGED loading
  PROVE  CallsOK' /\ PlacesOK' /\ HeapBase' = HeapBase
<1>1. /\ deps' = deps /\ stack' = stack /\ trace' = trace /\ modules' = modules
      /\ place' = place /\ data_offset' = data_offset /\ fn_table_offset' = fn_table_offset
  BY DEF loading
<1>2. CallsOK'
  <2>1. CallsOK
    BY DEF IInv
  <2> QED BY ONLY <1>1, <2>1 DEF CallsOK, OneCallEach, ActiveNotLoaded, AddedOnce,
                                 ActiveOnTrace, TraceInOrder
<1>3. PlacesOK'
  BY <1>1 DEF IInv, PlacesOK, PlacedBelow, PlacesApart, HavePlaces
<1> QED BY <1>1, <1>2, <1>3 DEF HeapBase

\* The heap begins where the data of the modules ends, in the memory there is.
LEMMA SetHeapBaseIInv ==
  ASSUME IInv, set_heap_base
  PROVE  IInv'
<1>1. /\ TypeOK /\ status = "loading" /\ heap_base' = HeapBase /\ UNCHANGED loading
      /\ instantiated' = instantiated /\ free_p' = free_p /\ blocks' = blocks
      /\ \/ PagesNeeded > max_page_count /\ status' = "failed" /\ page_count' = page_count
         \/ PagesNeeded <= max_page_count /\ status' = "linking" /\ page_count' = PagesNeeded
  <2>1. PagesNeeded \in Nat /\ max_page_count \in Nat
    <3>1. HeapBase \in Nat
      BY PagesAssumption DEF IInv, TypeOK, HeapBase
    <3>2. PagesFor(HeapBase) \in Nat
      BY <3>1, PagesForEnough
    <3>3. page_count \in Nat
      BY DEF IInv, TypeOK
    <3>4. max_page_count \in Nat
      BY PagesAssumption
    <3> QED BY <3>2, <3>3, <3>4 DEF PagesNeeded
  <2> QED BY <2>1 DEF IInv, set_heap_base, heap
<1>2. HeapBase \in Nat /\ page_count \in Nat /\ data_offset \in Nat
  BY <1>1, PagesAssumption DEF TypeOK, HeapBase
<1>3. CallsOK' /\ PlacesOK' /\ HeapBase' = HeapBase
  BY <1>1, LoadedStays
<1>4. PagesNeeded \in Nat /\ HeapBase <= PagesNeeded * page_size
  <2>1. CASE HeapBase >= initial_memory_size
    BY <1>2, <2>1, PagesForEnough DEF PagesNeeded
  <2>2. CASE ~(HeapBase >= initial_memory_size)
    <3>1. page_count = initial_page_count /\ initial_memory_size = page_count * page_size
      BY <1>1 DEF IInv, HeapOK, initial_memory_size
    <3>2. initial_memory_size \in Nat
      BY <1>2, <3>1, PagesAssumption
    <3>3. HeapBase <= initial_memory_size
      BY <1>2, <2>2, <3>2
    <3> QED BY <1>2, <2>2, <3>1, <3>3 DEF PagesNeeded
  <2> QED BY <2>1, <2>2
<1>5. TypeOK'
  BY <1>1, <1>2, <1>4 DEF TypeOK, loading
<1>6. ~Started /\ ~Started' /\ blocks' = {}
  BY <1>1 DEF Started, IInv, HeapOK
<1>7. HeapOK'
  <2>1. page_count <= max_page_count
    BY DEF IInv, HeapOK
  <2>2. status' # "loading" /\ page_count' <= max_page_count
    BY <1>1, <2>1
  <2>3. Based' => heap_base' <= page_count' * page_size
    BY <1>1, <1>4 DEF Based
  <2> QED BY <1>1, <1>3, <1>6, <2>2, <2>3 DEF HeapOK
<1>8. BlocksOK'
  BY <1>6 DEF BlocksOK
<1>9. Linked'
  BY <1>1 DEF Linked, Available
<1>10. Instantiated'
  BY <1>1, <1>6 DEF IInv, Instantiated, loading
<1> QED BY <1>3, <1>5, <1>7, <1>8, <1>9, <1>10 DEF IInv

\* Linking: only when nothing is missing does it go on.
LEMMA LinkModulesIInv ==
  ASSUME IInv, link_modules
  PROVE  IInv'
<1>1. /\ TypeOK /\ status = "linking" /\ status' \in {"instantiating", "failed"}
      /\ UNCHANGED loading /\ instantiated' = instantiated /\ heap_base' = heap_base
      /\ page_count' = page_count /\ free_p' = free_p /\ blocks' = blocks
      /\ deps' = deps /\ modules' = modules
      /\ status' = "instantiating" => \A ns \in Range(modules) : Available(ns)
  BY DEF IInv, link_modules, heap, loading
<1>2. CallsOK' /\ PlacesOK' /\ HeapBase' = HeapBase
  BY <1>1, LoadedStays
<1>3. TypeOK'
  BY <1>1 DEF TypeOK, loading
<1>4. ~Started /\ ~Started' /\ Based /\ status' # "loading" /\ blocks' = {}
  BY <1>1 DEF Started, Based, IInv, HeapOK
<1>5. HeapOK'
  BY <1>1, <1>2, <1>4 DEF IInv, HeapOK
<1>6. BlocksOK'
  BY <1>4 DEF BlocksOK
<1>7. Linked'
  <2>1. modules \in Seq(Namespaces)
    BY <1>1 DEF TypeOK
  <2>2. status' = "instantiating" => \A k \in 1 .. Len(modules) : Available(modules[k])
    BY <1>1, <2>1, ElementsOf
  <2> QED BY <1>1, <2>2 DEF Linked, Available
<1>8. Instantiated'
  BY <1>1, <1>4 DEF IInv, Instantiated
<1> QED BY <1>2, <1>3, <1>5, <1>6, <1>7, <1>8 DEF IInv

\* One module after the other, and when all are there the program runs.
LEMMA InstantiateIInv ==
  ASSUME IInv, instantiate_module \/ init_malloc
  PROVE  IInv'
<1>1. /\ TypeOK /\ status = "instantiating" /\ status' \in {"instantiating", "running"}
      /\ UNCHANGED loading /\ heap_base' = heap_base
      /\ page_count' = page_count /\ blocks' = blocks
      /\ deps' = deps /\ modules' = modules
      /\ status' = "instantiating" => free_p' = free_p
      /\ status' = "running" =>
           free_p' = heap_base /\ Range(modules) \subseteq instantiated
      /\ \/ instantiated' = instantiated
         \/ \E i \in DOMAIN modules : instantiated' = instantiated \union {modules[i]}
  BY DEF IInv, instantiate_module, init_malloc, heap, loading
<1>2. CallsOK' /\ PlacesOK' /\ HeapBase' = HeapBase
  BY <1>1, LoadedStays
<1>3. free_p' \in Nat
  BY <1>1 DEF TypeOK
<1>4. TypeOK'
  BY <1>1, <1>3 DEF TypeOK, loading
<1>5. /\ ~Started /\ Based /\ Based' /\ status' # "loading" /\ blocks' = {}
      /\ Started' => status' = "running"
  BY <1>1 DEF Started, Based, IInv, HeapOK
<1>6. HeapOK'
  <2>1. /\ page_count <= max_page_count /\ heap_base = HeapBase /\ heap_base \in Nat
        /\ heap_base <= page_count * page_size
    BY <1>1, <1>5 DEF IInv, HeapOK, TypeOK
  <2> QED BY <1>1, <1>2, <1>5, <2>1 DEF HeapOK
<1>7. BlocksOK'
  BY <1>5 DEF BlocksOK
<1>8. Linked'
  <2>1. \A k \in 1 .. Len(modules) : Available(modules[k])
    BY <1>1 DEF IInv, Linked
  <2> QED BY <1>1, <2>1 DEF Linked, Available
<1>9. Instantiated'
  <2>1. \A i \in DOMAIN modules : modules[i] \in Range(modules)
    BY DEF Range
  <2>2. instantiated' \subseteq {builtin} \union Range(modules)
    BY <1>1, <2>1 DEF IInv, Instantiated
  <2>3. instantiated \subseteq instantiated'
    BY <1>1
  <2> QED BY <1>1, <1>5, <2>2, <2>3 DEF Instantiated
<1> QED BY <1>2, <1>4, <1>6, <1>7, <1>8, <1>9 DEF IInv

\* The program asks for a block.
LEMMA MallocIInv ==
  ASSUME IInv, NEW size \in Sizes, malloc(size)
  PROVE  IInv'
<1> DEFINE next_free_p == free_p + Aligned(size)
           pages == IF next_free_p >= page_count * page_size
                    THEN EnoughFor(next_free_p) ELSE page_count
           block == [at |-> free_p, size |-> size]
<1>1. /\ TypeOK /\ status = "running" /\ UNCHANGED loading /\ heap_base' = heap_base
      /\ instantiated' = instantiated /\ deps' = deps /\ modules' = modules
      /\ \/ /\ pages > max_page_count
            /\ status' = "hanging" /\ page_count' = max_page_count
            /\ free_p' = free_p /\ blocks' = blocks
         \/ /\ ~(pages > max_page_count)
            /\ status' = "running" /\ page_count' = pages
            /\ free_p' = next_free_p /\ blocks' = blocks \union {block}
  BY DEF IInv, malloc, heap, loading
<1>2. /\ size \in Nat /\ Aligned(size) \in Nat /\ Aligned(size) > size
      /\ free_p \in Nat /\ page_count \in Nat /\ max_page_count \in Nat /\ heap_base \in Nat
      /\ page_count * page_size \in Nat /\ next_free_p \in Nat
  <2>1. size \in Nat /\ max_page_count \in Nat /\ page_size \in Nat
    BY SizesAssumption, PagesAssumption
  <2>2. Aligned(size) \in Nat /\ Aligned(size) > size
    BY <2>1, AlignedMore
  <2>3. free_p \in Nat /\ page_count \in Nat /\ heap_base \in Nat
    BY <1>1 DEF TypeOK
  <2> QED BY <2>1, <2>2, <2>3
<1>3. Started /\ Based /\ Started' /\ Based' /\ status' # "loading"
  BY <1>1 DEF Started, Based
<1>4. /\ page_count <= max_page_count /\ heap_base = HeapBase
      /\ heap_base <= page_count * page_size
      /\ heap_base <= free_p /\ free_p <= page_count * page_size
  BY <1>3 DEF IInv, HeapOK
<1>5. CallsOK' /\ PlacesOK' /\ HeapBase' = HeapBase
  BY <1>1, LoadedStays
<1>6. pages \in Nat /\ next_free_p <= pages * page_size /\ page_count <= pages
  <2>1. CASE next_free_p >= page_count * page_size
    <3>1. page_count * page_size <= next_free_p
      BY <1>2, <2>1
    <3> HIDE DEF next_free_p
    <3> QED BY <1>2, <2>1, <3>1, EnoughForEnough
  <2>2. CASE ~(next_free_p >= page_count * page_size)
    BY <1>2, <2>2
  <2> QED BY <2>1, <2>2
<1> HIDE DEF pages
<1>7. page_count' \in Nat /\ page_count <= page_count' /\ page_count' <= max_page_count
  BY <1>1, <1>2, <1>4, <1>6
<1>8. page_count * page_size <= page_count' * page_size /\ page_count' * page_size \in Nat
  BY <1>2, <1>7, MorePages
<1>9. free_p' \in Nat /\ free_p <= free_p' /\ free_p' <= page_count' * page_size
  <2>1. CASE free_p' = free_p
    BY <1>2, <1>4, <1>8, <2>1
  <2>2. CASE free_p' = next_free_p /\ page_count' = pages
    BY <1>2, <1>6, <2>2
  <2> QED BY <1>1, <2>1, <2>2
<1>10. block \in Blocks /\ block.at = free_p /\ block.size = size
  BY <1>2 DEF Blocks
<1>11. TypeOK'
  BY <1>1, <1>7, <1>9, <1>10 DEF TypeOK, loading
<1>12. HeapOK'
  <2>1. heap_base' <= page_count' * page_size /\ heap_base' <= free_p'
    BY <1>1, <1>2, <1>4, <1>8, <1>9
  <2> QED BY <1>1, <1>3, <1>4, <1>5, <1>7, <1>9, <2>1 DEF HeapOK
<1>13. \A b \in blocks : /\ b.at \in Nat /\ b.size \in Nat
                         /\ heap_base <= b.at /\ b.at + b.size <= free_p
  BY <1>1 DEF IInv, BlocksOK, TypeOK, Blocks
<1>14. BlocksOK'
  <2>1. CASE blocks' = blocks
    <3>1. \A b \in blocks : heap_base <= b.at /\ b.at + b.size <= free_p'
      BY <1>2, <1>9, <1>13
    <3> QED BY <1>1, <2>1, <3>1 DEF IInv, BlocksOK
  <2>2. CASE blocks' = blocks \union {block} /\ free_p' = next_free_p
    <3> HIDE DEF block
    <3>1. heap_base <= block.at /\ block.at + block.size <= free_p'
      BY <1>2, <1>4, <1>10, <2>2
    <3>2. \A b \in blocks : heap_base <= b.at /\ b.at + b.size <= free_p'
      BY <1>2, <1>9, <1>13
    <3>3. \A b \in blocks : /\ Apart(b.at, b.size, block.at, block.size)
                            /\ Apart(block.at, block.size, b.at, b.size)
      BY <1>10, <1>13 DEF Apart
    <3>4. \A b, c \in blocks : b # c => Apart(b.at, b.size, c.at, c.size)
      BY DEF IInv, BlocksOK
    <3>5. \A b, c \in blocks' : b # c => Apart(b.at, b.size, c.at, c.size)
      BY <2>2, <3>3, <3>4
    <3> QED BY <1>1, <2>2, <3>1, <3>2, <3>5 DEF BlocksOK, Apart
  <2> QED BY <1>1, <2>1, <2>2
<1>15. Linked'
  <2>1. \A k \in 1 .. Len(modules) : Available(modules[k])
    BY <1>1 DEF IInv, Linked
  <2> QED BY <1>1, <2>1 DEF Linked, Available
<1>16. Instantiated'
  BY <1>1, <1>3 DEF IInv, Instantiated
<1> QED BY <1>5, <1>11, <1>12, <1>14, <1>15, <1>16 DEF IInv

-----------------------------------------------------------------------------
(***************************************************************************)
(* Every step keeps the invariant.                                         *)
(***************************************************************************)
\* Before anything is loaded, the built-in functions have their place.
LEMMA InitIInv == Init => IInv
<1> SUFFICES ASSUME Init PROVE IInv
  OBVIOUS
<1>1. /\ status = "loading" /\ deps = [ns \in Namespaces |-> <<>>]
      /\ stack = <<>> /\ trace = <<>> /\ modules = <<>> /\ Len(stack) = 0
      /\ Len(modules) = 0 /\ Len(trace) = 0
      /\ place = [m \in Modules |-> IF m = builtin THEN [data |-> 0, fns |-> 0] ELSE NONE]
      /\ data_offset = pad(DataSize[builtin]) /\ fn_table_offset = FnTableSize[builtin]
      /\ instantiated = {builtin} /\ heap_base = 0 /\ page_count = initial_page_count
      /\ free_p = 0 /\ blocks = {}
  BY DEF Init
<1>2. /\ builtin \in Modules /\ DataSize[builtin] \in Nat /\ FnTableSize[builtin] \in Nat
      /\ pad(DataSize[builtin]) \in Nat /\ DataSize[builtin] <= pad(DataSize[builtin])
  BY SizesAssumption, PadNotLess DEF Modules
<1>3. [data |-> 0, fns |-> 0] \in Places /\ [data |-> 0, fns |-> 0] # NONE
  BY NoneAssumption DEF Places
<1>4. place \in [Modules -> Places \union {NONE}]
  BY <1>1, <1>3
<1>5. page_count \in Nat /\ page_count <= max_page_count
  BY <1>1, PagesAssumption
<1>6. TypeOK
  BY <1>1, <1>2, <1>4, <1>5 DEF TypeOK
<1>7. CallsOK
  BY <1>1 DEF CallsOK, OneCallEach, ActiveNotLoaded, AddedOnce, ActiveOnTrace, TraceInOrder
<1>8. PlacesOK
  <2>1. place[builtin] = [data |-> 0, fns |-> 0] /\ place[builtin] # NONE
    BY <1>1, <1>2, <1>3
  <2>2. \A m \in Modules : place[m] # NONE => m = builtin
    BY <1>1
  <2>3. PlacedBelow
    BY <1>1, <1>2, <2>1, <2>2 DEF PlacedBelow
  <2>4. PlacesApart
    BY <2>2 DEF PlacesApart
  <2>5. HavePlaces
    BY <1>1, <2>1 DEF HavePlaces
  <2> QED BY <2>3, <2>4, <2>5 DEF PlacesOK
<1>9. HeapOK /\ BlocksOK /\ Linked /\ Instantiated
  BY <1>1, <1>5 DEF HeapOK, BlocksOK, Linked, Instantiated, Based, Started
<1> QED BY <1>6, <1>7, <1>8, <1>9 DEF IInv

\* What load_modules does with the dependencies of a module.
LEMMA LoadModulesIInv ==
  ASSUME IInv, load_main \/ load_module_fails \/ cyclical_dependency
                 \/ dep_already_loaded \/ load_dep
  PROVE  IInv'
<1>1. TypeOK /\ modules \in Seq(Namespaces) /\ trace \in Seq(Namespaces)
  BY DEF IInv, TypeOK
<1>2. CASE load_main
  <2>1. /\ InLoop /\ stack = <<>> /\ modules = <<>> /\ Enter(main, <<>>)
        /\ UNCHANGED <<status, modules>>
    BY <1>2 DEF load_main
  <2>2. Len(stack) = 0 /\ <<>> \in Seq(Calls) /\ Len(<<>>) = 0 /\ main \in Namespaces
    BY <2>1, NamesAssumption
  <2>3. main \notin Range(modules)
    BY <2>1 DEF Range
  <2> QED BY <2>1, <2>2, <2>3, EnterIInv
<1>3. CASE load_module_fails
  <2>1. InLoop /\ status' = "failed" /\ UNCHANGED loading
    BY <1>3 DEF load_module_fails
  <2>2. stack' = stack /\ trace' = trace
        /\ UNCHANGED <<deps, modules, place, data_offset, fn_table_offset>>
    BY <2>1 DEF loading
  <2>3. stack' \in Seq(Calls) /\ Len(stack') = Len(stack)
        /\ \A i \in 1 .. Len(stack) : stack'[i].ns = stack[i].ns
    BY <1>1, <2>2 DEF TypeOK
  <2> QED BY <2>1, <2>2, <2>3, GoesOnIInv
<1>4. CASE cyclical_dependency
  <2>1. /\ InLoop /\ status' = status /\ stack # <<>> /\ trace' = trace
        /\ stack' = Append(Below, [Top EXCEPT !.deps = <<>>])
        /\ UNCHANGED <<deps, modules, place, data_offset, fn_table_offset>>
    BY <1>4 DEF cyclical_dependency, NextDep
  <2>2. stack' \in Seq(Calls) /\ Len(stack') = Len(stack)
        /\ \A i \in 1 .. Len(stack) : stack'[i].ns = stack[i].ns
    <3>1. <<>> \in Seq(Namespaces)
      OBVIOUS
    <3> QED BY <1>1, <2>1, <3>1, Replaced
  <2>3. status' \in {"loading", "failed"}
    BY <2>1 DEF InLoop
  <2> QED BY <2>1, <2>2, <2>3, GoesOnIInv
<1>5. ASSUME NextDep
      PROVE  /\ Head(Top.deps) \in Namespaces
             /\ Advanced \in Seq(Calls) /\ Len(Advanced) = Len(stack)
             /\ \A i \in 1 .. Len(stack) : Advanced[i].ns = stack[i].ns
  <2>1. stack # <<>> /\ Top.deps # <<>>
    BY <1>5 DEF NextDep
  <2>2. Head(Top.deps) \in Namespaces /\ Tail(Top.deps) \in Seq(Namespaces)
    BY <1>1, <2>1, TopCall
  <2>3. Advanced = Append(Below, [Top EXCEPT !.deps = Tail(Top.deps)])
    BY DEF Advanced
  <2> QED BY <1>1, <2>1, <2>2, <2>3, Replaced
<1>6. CASE dep_already_loaded
  <2>1. /\ InLoop /\ status' = status /\ NextDep /\ stack' = Advanced
        /\ Head(Top.deps) \in Range(modules) /\ trace' = Append(trace, Head(Top.deps))
        /\ UNCHANGED <<deps, modules, place, data_offset, fn_table_offset>>
    BY <1>6 DEF dep_already_loaded
  <2>2. stack' \in Seq(Calls) /\ Len(stack') = Len(stack)
        /\ \A i \in 1 .. Len(stack) : stack'[i].ns = stack[i].ns
    BY <1>5, <2>1
  <2>3. status' \in {"loading", "failed"}
    BY <2>1 DEF InLoop
  <2> QED BY <2>1, <2>2, <2>3, GoesOnIInv
<1>7. CASE load_dep
  <2>1. /\ InLoop /\ NextDep /\ UNCHANGED <<status, modules>>
        /\ Head(Top.deps) \notin Range(trace) /\ Head(Top.deps) \notin Range(modules)
        /\ Enter(Head(Top.deps), Advanced)
    BY <1>7 DEF load_dep, OnTrace
  <2> QED BY <1>5, <2>1, EnterIInv
<1> QED BY <1>2, <1>3, <1>4, <1>6, <1>7

\* Every step keeps the invariant.
LEMMA NextIInv == IInv /\ [Next]_vars => IInv'
<1> SUFFICES ASSUME IInv, [Next]_vars PROVE IInv'
  OBVIOUS
<1>1. CASE Load
  BY <1>1, LoadModulesIInv, ModuleLoadedIInv, SetHeapBaseIInv, LinkModulesIInv,
     InstantiateIInv DEF Load
<1>2. ASSUME NEW size \in Sizes, malloc(size) PROVE IInv'
  BY <1>2, MallocIInv
<1>3. CASE UNCHANGED vars
  <2>1. /\ status' = status /\ UNCHANGED loading /\ instantiated' = instantiated
        /\ heap_base' = heap_base /\ page_count' = page_count /\ free_p' = free_p
        /\ blocks' = blocks /\ deps' = deps /\ modules' = modules
    BY <1>3 DEF vars, loading, heap
  <2>2. CallsOK' /\ PlacesOK' /\ HeapBase' = HeapBase
    BY <2>1, LoadedStays
  <2>3. TypeOK'
    BY <2>1 DEF IInv, TypeOK, loading
  <2>4. HeapOK' /\ BlocksOK'
    BY <2>1, <2>2 DEF IInv, HeapOK, BlocksOK, Based, Started
  <2>5. Linked' /\ Instantiated'
    BY <2>1 DEF IInv, Linked, Instantiated, Available, Started
  <2> QED BY <2>2, <2>3, <2>4, <2>5 DEF IInv
<1> QED BY <1>1, <1>2, <1>3 DEF Next

-----------------------------------------------------------------------------
(***************************************************************************)
(* What the loader guarantees.                                             *)
(***************************************************************************)
\* The invariant holds always.
THEOREM Invariant == Spec => []IInv
BY InitIInv, NextIInv, PTL DEF Spec

\* Whatever refers to what, in circles or not, no file is read a second time.
THEOREM LoadedOnceAlways == Spec => []LoadedOnce
<1>1. IInv => LoadedOnce
  <2> SUFFICES ASSUME IInv PROVE LoadedOnce
    OBVIOUS
  <2> DEFINE n == Len(stack)
             names == [i \in 1 .. n |-> stack[i].ns]
  <2>1. /\ stack \in Seq(Calls) /\ modules \in Seq(Namespaces) /\ trace \in Seq(Namespaces)
        /\ n \in Nat /\ DOMAIN stack = 1 .. n /\ \A i \in 1 .. n : stack[i] \in Calls
    BY ElementsOf DEF IInv, TypeOK
  <2>2. Cardinality(Active) = Len(stack)
    <3>1. names \in Seq(Namespaces) /\ Len(names) = n
      BY <2>1 DEF Calls
    <3>2. \A i \in 1 .. n : names[i] = stack[i].ns
      OBVIOUS
    <3>3. \A i, j \in 1 .. n : names[i] = names[j] => i = j
      BY DEF IInv, CallsOK, OneCallEach
    <3>4. Active = {names[i] : i \in 1 .. n}
      BY <2>1, <3>2 DEF Active
    <3> HIDE DEF names
    <3> QED BY <3>1, <3>3, <3>4, EachOnce
  <2>3. Cardinality(Range(modules)) = Len(modules)
    <3>1. Range(modules) = {modules[k] : k \in 1 .. Len(modules)}
      BY <2>1 DEF Range
    <3>2. \A k, l \in 1 .. Len(modules) : modules[k] = modules[l] => k = l
      BY DEF IInv, CallsOK, AddedOnce
    <3> QED BY <2>1, <3>1, <3>2, EachOnce
  <2>4. Active \intersect Range(modules) = {}
    BY <2>1, ElementsOf DEF Active, IInv, CallsOK, ActiveNotLoaded
  <2>5. Active \subseteq Range(trace)
    BY <2>1, ElementsOf DEF Active, IInv, CallsOK, ActiveOnTrace
  <2> QED BY <2>2, <2>3, <2>4, <2>5 DEF LoadedOnce
<1> QED BY <1>1, Invariant, PTL

\* No two modules share a byte of memory or a place in the function table, and the heap
\* begins above all of them.
THEOREM RangesDisjointAlways == Spec => []RangesDisjoint
<1>1. IInv => RangesDisjoint
  <2> SUFFICES ASSUME IInv PROVE RangesDisjoint
    OBVIOUS
  <2>1. modules \in Seq(Namespaces) /\ data_offset \in Nat /\ data_start \in Nat
    BY PagesAssumption DEF IInv, TypeOK
  <2>2. ASSUME status \in {"linking", "instantiating", "running"},
               NEW m \in instantiated \union Range(modules)
        PROVE  data_start + place[m].data + DataSize[m] <= heap_base
    <3>1. m \in Modules /\ place[m] # NONE
      <4>1. CASE m = builtin
        BY <4>1 DEF Modules, IInv, PlacesOK, HavePlaces
      <4>2. CASE m \in Range(modules)
        BY <2>1, <4>2, ElementsOf DEF Modules, IInv, PlacesOK, HavePlaces
      <4> QED BY <4>1, <4>2 DEF IInv, Instantiated
    <3>2. /\ place[m].data \in Nat /\ DataSize[m] \in Nat
          /\ place[m].data + DataSize[m] <= data_offset
      BY <3>1, SizesAssumption DEF IInv, TypeOK, Places, PlacesOK, PlacedBelow
    <3>3. heap_base = data_start + data_offset
      BY <2>2 DEF IInv, HeapOK, Based, HeapBase
    <3> QED BY ONLY <2>1, <3>2, <3>3
  <2> QED BY <2>2 DEF RangesDisjoint, IInv, PlacesOK, PlacesApart
<1> QED BY <1>1, Invariant, PTL

\* What the program is given is above the data of the modules, within the memory there
\* is, and apart.
THEOREM HeapInMemoryAlways == Spec => []HeapInMemory
<1>1. IInv => HeapInMemory
  <2> SUFFICES ASSUME IInv PROVE HeapInMemory
    OBVIOUS
  <2>1. status \in {"linking", "instantiating", "running"} =>
          heap_base <= page_count * page_size
    BY DEF IInv, HeapOK, Based
  <2>2. ASSUME NEW b \in blocks
        PROVE  b.at >= heap_base /\ b.at + b.size <= page_count * page_size
    <3>1. /\ b.at \in Nat /\ b.size \in Nat /\ heap_base \in Nat /\ free_p \in Nat
          /\ page_count * page_size \in Nat
      BY PagesAssumption DEF IInv, TypeOK, Blocks
    <3>2. heap_base <= b.at /\ b.at + b.size <= free_p
      BY DEF IInv, BlocksOK
    <3>3. free_p <= page_count * page_size
      BY DEF IInv, HeapOK
    <3> QED BY <3>1, <3>2, <3>3
  <2> QED BY <2>1, <2>2 DEF HeapInMemory, IInv, BlocksOK
<1> QED BY <1>1, Invariant, PTL

\* A program that runs has all that its modules refer to.
THEOREM RunsCompleteAlways == Spec => []RunsComplete
<1>1. IInv => RunsComplete
  <2> SUFFICES ASSUME IInv, status = "running", NEW m \in instantiated \ {builtin}
               PROVE  Range(deps[m]) \subseteq instantiated
    BY DEF RunsComplete
  <2>1. m \in Range(modules) /\ Range(modules) \subseteq instantiated
    BY DEF IInv, Instantiated, Started
  <2>2. PICK k \in 1 .. Len(modules) : m = modules[k]
    BY <2>1, ElementsOf DEF IInv, TypeOK
  <2>3. Range(deps[m]) \subseteq Range(modules)
    BY <2>2 DEF IInv, Linked, Available
  <2> QED BY <2>1, <2>3
<1> QED BY <1>1, Invariant, PTL
-----------------------------------------------------------------------------
(***************************************************************************)
(* Loading comes to an end.                                                *)
(***************************************************************************)
\* What is left to do: the phases to come, the modules that are not loaded or not
\* instantiated yet, the calls in progress, and what the innermost has not looked at.
Phase ==
  CASE status = "loading" -> 3
    [] status = "linking" -> 2
    [] status = "instantiating" -> 1
    [] OTHER -> 0
ToLoad == Namespaces \ (Active \union Range(modules))
ToInstantiate == Range(modules) \ instantiated
ToDo == Cardinality(IF status = "loading" THEN ToLoad ELSE ToInstantiate)
DepsLeft == IF stack = <<>> THEN 0 ELSE Len(Top.deps)
Left == <<Phase, ToDo, Len(stack), DepsLeft>>

Quadruples == [1 .. 4 -> Nat]
Smaller == {mn \in Nat \X Nat : mn[1] < mn[2]}
\* Quadruples by their first difference.
Less == LexProductOrdering(Smaller, Nat, 4)

\* No quadruples get less for ever.
LEMMA LessEnds == IsWellFoundedOn(Less, Quadruples)
<1>1. IsWellFoundedOn(Smaller, Nat)
  BY NatLessThanWellFounded DEF OpToRel, Smaller
<1> QED BY <1>1, WFLexProductOrdering DEF Less, Quadruples

\* The first difference decides.
LEMMA FirstDifference ==
  ASSUME NEW p \in Nat, NEW t \in Nat, NEW c \in Nat, NEW d \in Nat,
         NEW pp \in Nat, NEW tt \in Nat, NEW cc \in Nat, NEW dd \in Nat,
         \/ pp < p
         \/ pp = p /\ tt < t
         \/ pp = p /\ tt = t /\ cc < c
         \/ pp = p /\ tt = t /\ cc = c /\ dd < d
  PROVE  <<<<pp, tt, cc, dd>>, <<p, t, c, d>>>> \in Less
<1> DEFINE m == <<pp, tt, cc, dd>>
           n == <<p, t, c, d>>
<1>1. /\ m \in [1 .. 4 -> Nat] /\ m[1] = pp /\ m[2] = tt /\ m[3] = cc /\ m[4] = dd
      /\ n \in [1 .. 4 -> Nat] /\ n[1] = p /\ n[2] = t /\ n[3] = c /\ n[4] = d
  OBVIOUS
<1> HIDE DEF m, n
<1>2. ASSUME NEW j \in 1 .. 4, \A i \in 1 .. (j - 1) : m[i] = n[i], m[j] < n[j]
      PROVE  <<m, n>> \in Less
  <2>1. m[j] \in Nat /\ n[j] \in Nat
    BY <1>1
  <2>2. <<m[j], n[j]>> \in Smaller
    BY <1>2, <2>1 DEF Smaller
  <2>3. \E k \in 1 .. 4 : (\A i \in 1 .. (k - 1) : m[i] = n[i]) /\ <<m[k], n[k]>> \in Smaller
    BY <1>2, <2>2
  <2> QED BY <1>1, <2>3 DEF Less, LexProductOrdering
<1>3. CASE pp < p
  BY <1>1, <1>2, <1>3
<1>4. CASE pp = p /\ tt < t
  BY <1>1, <1>2, <1>4
<1>5. CASE pp = p /\ tt = t /\ cc < c
  BY <1>1, <1>2, <1>5
<1>6. CASE pp = p /\ tt = t /\ cc = c /\ dd < d
  BY <1>1, <1>2, <1>6
<1> QED BY <1>3, <1>4, <1>5, <1>6 DEF m, n
\* What is left to do is a quadruple of numbers.
LEMMA LeftTyped ==
  IsFiniteSet(Namespaces) /\ TypeOK =>
    Phase \in Nat /\ ToDo \in Nat /\ Len(stack) \in Nat /\ DepsLeft \in Nat
<1> SUFFICES ASSUME IsFiniteSet(Namespaces), TypeOK
             PROVE  Phase \in Nat /\ ToDo \in Nat /\ Len(stack) \in Nat /\ DepsLeft \in Nat
  OBVIOUS
<1>1. Phase \in Nat
  BY DEF Phase
<1>2. ToLoad \subseteq Namespaces /\ ToInstantiate \subseteq Namespaces
  <2>1. modules \in Seq(Namespaces)
    BY DEF TypeOK
  <2>2. \A x \in Range(modules) : \E i \in 1 .. Len(modules) : x = modules[i]
    BY <2>1, ElementsOf
  <2>3. \A i \in 1 .. Len(modules) : modules[i] \in Namespaces
    BY <2>1, ElementsOf
  <2> QED BY <2>2, <2>3 DEF ToLoad, ToInstantiate
<1>3. ToDo \in Nat
  BY <1>2, FS_Subset, FS_CardinalityType DEF ToDo
<1>4. Len(stack) \in Nat
  BY DEF TypeOK
<1>5. DepsLeft \in Nat
  <2>1. CASE stack = <<>>
    BY <2>1 DEF DepsLeft
  <2>2. CASE stack # <<>>
    BY <2>2, TopCall DEF DepsLeft
  <2> QED BY <2>1, <2>2
<1> QED BY <1>1, <1>3, <1>4, <1>5

\* Less is left to do in the first respect that changes.
LEMMA GetsLess ==
  ASSUME IsFiniteSet(Namespaces), TypeOK, TypeOK',
         \/ Phase' < Phase
         \/ Phase' = Phase /\ ToDo' < ToDo
         \/ Phase' = Phase /\ ToDo' = ToDo /\ Len(stack') < Len(stack)
         \/ /\ Phase' = Phase /\ ToDo' = ToDo /\ Len(stack') = Len(stack)
            /\ DepsLeft' < DepsLeft
  PROVE  <<Left', Left>> \in Less
<1>1. Phase \in Nat /\ ToDo \in Nat /\ Len(stack) \in Nat /\ DepsLeft \in Nat
  BY LeftTyped
<1>2. IsFiniteSet(Namespaces)' /\ TypeOK' =>
        (Phase \in Nat /\ ToDo \in Nat /\ Len(stack) \in Nat /\ DepsLeft \in Nat)'
  BY LeftTyped, PTL
<1>3. Phase' \in Nat /\ ToDo' \in Nat /\ Len(stack') \in Nat /\ DepsLeft' \in Nat
  BY <1>2
<1> DEFINE p == Phase    t == ToDo    c == Len(stack)    d == DepsLeft
           pp == Phase'  tt == ToDo'  cc == Len(stack')  dd == DepsLeft'
<1>4. <<<<pp, tt, cc, dd>>, <<p, t, c, d>>>> \in Less
  <2>1. /\ p \in Nat /\ t \in Nat /\ c \in Nat /\ d \in Nat
        /\ pp \in Nat /\ tt \in Nat /\ cc \in Nat /\ dd \in Nat
        /\ \/ pp < p
           \/ pp = p /\ tt < t
           \/ pp = p /\ tt = t /\ cc < c
           \/ pp = p /\ tt = t /\ cc = c /\ dd < d
    BY <1>1, <1>3
  <2> HIDE DEF p, t, c, d, pp, tt, cc, dd
  <2> QED BY ONLY <2>1, FirstDifference
<1> QED BY <1>4 DEF Left

\* Fewer modules are left.
LEMMA Fewer ==
  ASSUME IsFiniteSet(Namespaces), NEW S, S \subseteq Namespaces,
         NEW T, T \subseteq S, NEW m \in S, m \notin T
  PROVE  Cardinality(T) < Cardinality(S)
<1>1. IsFiniteSet(S)
  BY FS_Subset
<1>2. Cardinality(T) <= Cardinality(S) /\ (Cardinality(S) = Cardinality(T) => S = T)
  BY <1>1, FS_Subset
<1>3. Cardinality(S) \in Nat /\ Cardinality(T) \in Nat
  BY <1>1, FS_Subset, FS_CardinalityType
<1> QED BY <1>2, <1>3

\* The modules of the calls in progress.
LEMMA ActiveIs ==
  TypeOK => Active = {stack[i].ns : i \in 1 .. Len(stack)}
BY DEF TypeOK, Active

\* A call that goes on has less of its dependencies left.
LEMMA GoesOnLess ==
  ASSUME IsFiniteSet(Namespaces), IInv, IInv', InLoop, NextDep, UNCHANGED <<status, modules>>,
         NEW ds \in Seq(Namespaces), Len(ds) < Len(Top.deps),
         stack' = Append(Below, [Top EXCEPT !.deps = ds])
  PROVE  <<Left', Left>> \in Less
<1>1. TypeOK /\ TypeOK' /\ stack # <<>>
  BY DEF IInv, NextDep
<1>2. /\ stack' \in Seq(Calls) /\ Len(stack') = Len(stack) /\ Len(stack) \in Nat
      /\ \A i \in 1 .. Len(stack) : stack'[i].ns = stack[i].ns
  BY <1>1, Replaced
<1>3. Active' = Active
  <2>1. TypeOK' => (Active = {stack[i].ns : i \in 1 .. Len(stack)})'
    BY ActiveIs, PTL
  <2>2. Active' = {stack'[i].ns : i \in 1 .. Len(stack')}
    BY <1>1, <2>1
  <2> QED BY <1>1, <1>2, <2>2, ActiveIs
<1>4. Phase' = Phase /\ ToDo' = ToDo
  BY <1>3 DEF Phase, ToDo, ToLoad, ToInstantiate, InLoop
<1>5. DepsLeft' < DepsLeft
  <2> DEFINE top == [Top EXCEPT !.deps = ds]
  <2>1. Top \in Calls /\ Below \in Seq(Calls)
    BY <1>1, FrontAndLast DEF TypeOK, Top, Below
  <2>2. stack' # <<>> /\ Last(stack') = top
    <3>1. top \in Calls
      BY <2>1 DEF Calls
    <3> HIDE DEF top
    <3>2. stack' = Append(Below, top)
      BY DEF top
    <3>3. /\ Len(stack') = Len(Below) + 1 /\ Len(Below) \in Nat
          /\ stack'[Len(Below) + 1] = top
      BY <2>1, <3>1, <3>2
    <3>4. stack'[Len(stack')] = top
      BY <3>3
    <3>5. stack' # <<>>
      BY <1>1, <1>2
    <3> QED BY <3>4, <3>5 DEF Last
  <2>3. top.deps = ds
    BY <2>1 DEF Calls
  <2> QED BY <1>1, <2>2, <2>3 DEF DepsLeft, Top
<1> QED BY <1>1, <1>2, <1>4, <1>5, GetsLess
\* A module whose file is read is not left to load.
LEMMA EnterLess ==
  ASSUME IsFiniteSet(Namespaces), IInv, IInv', InLoop, UNCHANGED <<status, modules>>,
         NEW ns \in Namespaces, NEW rest \in Seq(Calls), Enter(ns, rest),
         Len(rest) = Len(stack), \A i \in 1 .. Len(stack) : rest[i].ns = stack[i].ns,
         ns \notin Active, ns \notin Range(modules)
  PROVE  <<Left', Left>> \in Less
<1> DEFINE n == Len(stack)
<1>1. TypeOK /\ TypeOK' /\ n \in Nat
  BY DEF IInv, TypeOK
<1>2. PICK order \in DepOrders[ns] : stack' = rest \o <<[ns |-> ns, deps |-> order]>>
  BY DEF Enter
<1>3. order \in Seq(Namespaces)
  BY OrdersAssumption
<1>4. /\ Len(stack') = n + 1 /\ stack'[n + 1].ns = ns
      /\ \A i \in 1 .. n : stack'[i].ns = stack[i].ns
  <2> DEFINE call == [ns |-> ns, deps |-> order]
  <2>1. call \in Calls /\ call.ns = ns
    BY <1>3 DEF Calls
  <2> HIDE DEF call
  <2>2. stack' = rest \o <<call>>
    BY <1>2 DEF call
  <2>3. stack' = Append(rest, call)
    BY <2>1, <2>2
  <2>4. /\ Len(stack') = n + 1 /\ stack'[n + 1] = call
        /\ \A i \in 1 .. n : stack'[i] = rest[i]
    BY <1>1, <2>1, <2>3
  <2> QED BY <2>1, <2>4
<1>5. ns \in Active' /\ Active \subseteq Active'
  <2>1. TypeOK' => (Active = {stack[i].ns : i \in 1 .. Len(stack)})'
    BY ActiveIs, PTL
  <2>2. Active' = {stack'[i].ns : i \in 1 .. n + 1}
    BY <1>1, <1>4, <2>1
  <2>3. Active = {stack[i].ns : i \in 1 .. n}
    BY <1>1, ActiveIs
  <2>4. n + 1 \in 1 .. n + 1 /\ \A i \in 1 .. n : i \in 1 .. n + 1
    BY <1>1
  <2> QED BY <1>4, <2>2, <2>3, <2>4
<1>6. Phase' = Phase /\ ToDo' = Cardinality(ToLoad') /\ ToDo = Cardinality(ToLoad)
  BY DEF Phase, ToDo, InLoop
<1>7. Cardinality(ToLoad') < Cardinality(ToLoad)
  <2>1. /\ ToLoad \subseteq Namespaces /\ ToLoad' \subseteq ToLoad
        /\ ns \in ToLoad /\ ns \notin ToLoad'
    BY <1>5 DEF ToLoad
  <2> QED BY <2>1, Fewer
<1> QED BY <1>1, <1>6, <1>7, GetsLess

\* A module that is loaded was the one of the call that returns.
LEMMA ModuleLoadedLess ==
  ASSUME IsFiniteSet(Namespaces), IInv, IInv', module_loaded
  PROVE  <<Left', Left>> \in Less
<1> DEFINE n == Len(stack)
           k == Len(modules)
<1>1. /\ TypeOK /\ TypeOK' /\ stack # <<>> /\ modules \in Seq(Namespaces)
      /\ k \in Nat /\ status = "loading" /\ status' = "loading"
      /\ stack' = Below /\ modules' = Append(modules, Top.ns) /\ modules' \in Seq(Namespaces)
  BY DEF IInv, TypeOK, module_loaded, InLoop
<1>2. /\ n \in Nat /\ n \in 1 .. n /\ Top = stack[n] /\ Top.ns \in Namespaces
      /\ Len(stack') = n - 1 /\ \A i \in 1 .. n - 1 : stack'[i] = stack[i]
  BY <1>1, TopCall, FrontAndLast DEF TypeOK, Below
<1>3. Active = Active' \union {Top.ns}
  <2>1. TypeOK' => (Active = {stack[i].ns : i \in 1 .. Len(stack)})'
    BY ActiveIs, PTL
  <2>2. Active' = {stack'[i].ns : i \in 1 .. n - 1}
    BY <1>1, <1>2, <2>1
  <2>3. Active = {stack[i].ns : i \in 1 .. n}
    BY <1>1, ActiveIs
  <2>4. \A i \in 1 .. n : i \in 1 .. n - 1 \/ i = n
    BY <1>2
  <2>5. \A i \in 1 .. n - 1 : i \in 1 .. n
    BY <1>2
  <2> QED BY <1>2, <2>2, <2>3, <2>4, <2>5
<1>4. Range(modules') = Range(modules) \union {Top.ns}
  <2>1. /\ Len(modules') = k + 1 /\ modules'[k + 1] = Top.ns
        /\ \A i \in 1 .. k : modules'[i] = modules[i]
    BY <1>1, <1>2, AppendedTo
  <2>2. Range(modules) = {modules[i] : i \in 1 .. k}
    BY <1>1 DEF Range
  <2>3. Range(modules') = {modules'[i] : i \in 1 .. k + 1}
    BY <1>1, <2>1 DEF Range
  <2>4. \A i \in 1 .. k + 1 : i \in 1 .. k \/ i = k + 1
    BY <1>1
  <2>5. k + 1 \in 1 .. k + 1 /\ \A i \in 1 .. k : i \in 1 .. k + 1
    BY <1>1
  <2> QED BY <2>1, <2>2, <2>3, <2>4, <2>5
<1>5. ToLoad' = ToLoad
  BY <1>3, <1>4 DEF ToLoad
<1>6. Phase' = Phase /\ ToDo' = ToDo
  BY <1>1, <1>5 DEF Phase, ToDo
<1>7. Len(stack') < Len(stack)
  BY <1>2
<1> QED BY <1>1, <1>6, <1>7, GetsLess

\* A module that is instantiated is not left to instantiate.
LEMMA InstantiateLess ==
  ASSUME IsFiniteSet(Namespaces), IInv, IInv', instantiate_module
  PROVE  <<Left', Left>> \in Less
<1>1. /\ TypeOK /\ TypeOK' /\ modules \in Seq(Namespaces) /\ modules' = modules
      /\ status = "instantiating" /\ status' = "instantiating"
  BY DEF IInv, TypeOK, instantiate_module, loading
<1>2. PICK i \in DOMAIN modules :
        modules[i] \notin instantiated /\ instantiated' = instantiated \union {modules[i]}
  BY DEF instantiate_module
<1>3. Range(modules) \subseteq Namespaces /\ modules[i] \in Range(modules)
  BY <1>1 DEF Range
<1>4. /\ ToInstantiate \subseteq Namespaces /\ ToInstantiate' \subseteq ToInstantiate
      /\ modules[i] \in ToInstantiate /\ modules[i] \notin ToInstantiate'
  BY <1>1, <1>2, <1>3 DEF ToInstantiate
<1>5. Cardinality(ToInstantiate') < Cardinality(ToInstantiate)
  BY <1>4, Fewer
<1>6. Phase' = Phase /\ ToDo = Cardinality(ToInstantiate) /\ ToDo' = Cardinality(ToInstantiate')
  BY <1>1 DEF Phase, ToDo
<1> QED BY <1>1, <1>5, <1>6, GetsLess
\* Every step of the loader leaves less to do.
LEMMA LoadLess ==
  ASSUME IsFiniteSet(Namespaces), IInv, IInv', Load
  PROVE  <<Left', Left>> \in Less
<1>1. /\ TypeOK /\ TypeOK' /\ trace \in Seq(Namespaces) /\ stack \in Seq(Calls)
      /\ Len(stack) \in Nat
  BY DEF IInv, TypeOK
<1>2. CASE load_main
  <2>1. stack = <<>> /\ modules = <<>> /\ InLoop /\ Enter(main, <<>>)
        /\ UNCHANGED <<status, modules>>
    BY <1>2 DEF load_main
  <2>2. Len(<<>>) = Len(stack) /\ \A i \in 1 .. Len(stack) : <<>>[i].ns = stack[i].ns
    BY <2>1
  <2>3. main \notin Active /\ main \notin Range(modules) /\ <<>> \in Seq(Calls)
    BY <1>1, <2>1 DEF Active, Range
  <2> QED BY <2>1, <2>2, <2>3, NamesAssumption, EnterLess
<1>3. CASE load_module_fails
  <2>1. Phase = 3 /\ Phase' = 0
    BY <1>3 DEF load_module_fails, InLoop, Phase
  <2> QED BY <1>1, <2>1, GetsLess
<1>4. CASE cyclical_dependency
  <2>1. /\ InLoop /\ NextDep /\ UNCHANGED <<status, modules>>
        /\ stack' = Append(Below, [Top EXCEPT !.deps = <<>>])
    BY <1>4 DEF cyclical_dependency
  <2>2. Top.deps \in Seq(Namespaces) /\ Top.deps # <<>>
    BY <1>1, <2>1, TopCall DEF NextDep
  <2>3. <<>> \in Seq(Namespaces) /\ Len(<<>>) < Len(Top.deps)
    BY <2>2
  <2> QED BY <2>1, <2>3, GoesOnLess
<1>5. CASE dep_already_loaded
  <2>1. /\ InLoop /\ NextDep /\ UNCHANGED <<status, modules>>
        /\ stack' = Append(Below, [Top EXCEPT !.deps = Tail(Top.deps)])
    BY <1>5 DEF dep_already_loaded, Advanced
  <2>2. Top.deps \in Seq(Namespaces) /\ Top.deps # <<>>
    BY <1>1, <2>1, TopCall DEF NextDep
  <2>3. Tail(Top.deps) \in Seq(Namespaces) /\ Len(Tail(Top.deps)) < Len(Top.deps)
    BY <2>2
  <2> QED BY <2>1, <2>3, GoesOnLess
<1>6. CASE load_dep
  <2> DEFINE ns == Head(Top.deps)
  <2>1. /\ InLoop /\ NextDep /\ UNCHANGED <<status, modules>> /\ Enter(ns, Advanced)
        /\ ~OnTrace(ns) /\ ns \notin Range(modules)
    BY <1>6 DEF load_dep
  <2>2. /\ stack # <<>> /\ Top.deps \in Seq(Namespaces) /\ Top.deps # <<>>
        /\ ns \in Namespaces /\ Tail(Top.deps) \in Seq(Namespaces)
    BY <1>1, <2>1, TopCall DEF NextDep
  <2>3. /\ Advanced \in Seq(Calls) /\ Len(Advanced) = Len(stack)
        /\ \A i \in 1 .. Len(stack) : Advanced[i].ns = stack[i].ns
    <3>1. Advanced = Append(Below, [Top EXCEPT !.deps = Tail(Top.deps)])
      BY DEF Advanced
    <3> QED BY <1>1, <2>2, <3>1, Replaced
  <2>4. ns \notin Active
    <3>1. \A i \in 1 .. Len(stack) : stack[i].ns \in Range(trace)
      <4>1. \A p \in 1 .. Len(trace) : trace[p] \in Range(trace)
        BY <1>1, ElementsOf
      <4> QED BY <4>1 DEF IInv, CallsOK, ActiveOnTrace
    <3> QED BY <1>1, <2>1, <3>1, ActiveIs DEF OnTrace
  <2> HIDE DEF ns
  <2> QED BY <2>1, <2>2, <2>3, <2>4, EnterLess
<1>7. CASE module_loaded
  BY <1>7, ModuleLoadedLess
<1>8. CASE set_heap_base
  <2>1. Phase = 3 /\ Phase' \in {0, 2}
    BY <1>8 DEF set_heap_base, Phase
  <2> QED BY <1>1, <2>1, GetsLess
<1>9. CASE link_modules
  <2>1. Phase = 2 /\ Phase' \in {0, 1}
    BY <1>9 DEF link_modules, Phase
  <2> QED BY <1>1, <2>1, GetsLess
<1>10. CASE instantiate_module
  BY <1>10, InstantiateLess
<1>11. CASE init_malloc
  <2>1. Phase = 1 /\ Phase' = 0
    BY <1>11 DEF init_malloc, Phase
  <2> QED BY <1>1, <2>1, GetsLess
<1> QED BY <1>2, <1>3, <1>4, <1>5, <1>6, <1>7, <1>8, <1>9, <1>10, <1>11 DEF Load

\* Every step of the loader leaves less to do, and there is no getting less for ever:
\* nodejs.js reads, links and instantiates no more than the modules there are, whatever
\* refers to what.
THEOREM LoadingProgresses ==
  ASSUME IsFiniteSet(Namespaces)
  PROVE  /\ IsWellFoundedOn(Less, Quadruples)
         /\ Spec => [][Load => <<Left', Left>> \in Less]_vars
<1>1. IInv /\ IInv' => (Load => <<Left', Left>> \in Less)
  BY LoadLess
<1>2. IInv /\ [Next]_vars => [Load => <<Left', Left>> \in Less]_vars
  BY <1>1, NextIInv
<1>3. Spec => [][Load => <<Left', Left>> \in Less]_vars
  BY <1>2, Invariant, PTL DEF Spec
<1> QED BY <1>3, LessEnds
=============================================================================
