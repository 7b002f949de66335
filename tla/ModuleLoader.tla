---------------------------- MODULE ModuleLoader ----------------------------
(***************************************************************************)
(* The module loader (nodejs.js): the modules of a program are found by    *)
(* following their dependencies from main, each is given the next free     *)
(* range of memory and of the function table, then they are linked and     *)
(* instantiated.  What is left of the memory is the heap of the runtime    *)
(* (malloc.c).                                                             *)
(*                                                                         *)
(* Everything is awaited, one file after the other: the loader is          *)
(* sequential.  The dependencies of a module are known when its file is    *)
(* read.  Programs may be circular.                                        *)
(***************************************************************************)
EXTENDS Integers, Sequences, FiniteSets, SequencesExt

CONSTANTS
  Namespaces,
  main,
  DepOrders,         \* per namespace: what its file may depend on, in order
  builtin,           \* not a namespace: the module of the built-in functions
  data_start,        \* end of the data of the runtime
  DataSize,          \* per module, in bytes
  FnTableSize,       \* per module
  page_size,
  initial_page_count,
  max_page_count,
  Sizes,             \* bytes that the running program asks for at once
  MaxBlocks,         \* bound of the model: how often it asks
  NONE

Modules == Namespaces \union {builtin}

ASSUME NamesAssumption == main \in Namespaces /\ builtin \notin Namespaces
ASSUME SizesAssumption ==
  /\ DataSize \in [Modules -> Nat]
  /\ FnTableSize \in [Modules -> Nat]
  /\ Sizes \subseteq Nat
ASSUME OrdersAssumption == DepOrders \in [Namespaces -> SUBSET Seq(Namespaces)]
ASSUME NoneAssumption == NONE \notin [data : Nat, fns : Nat]
ASSUME PagesAssumption ==
  /\ page_size \in Nat \ {0}
  /\ max_page_count \in Nat /\ initial_page_count \in 1 .. max_page_count
  /\ data_start \in Nat /\ (data_start % 4) = 0

VARIABLES
  status,        \* "loading", "linking", "instantiating", "running", "hanging" or "failed"
  deps,          \* per namespace: the namespaces it refers to, in order
  stack,         \* calls of load_modules: the namespace and what is left of its deps
  trace,         \* env.trace
  modules,       \* env.modules, in the order they were added
  place,         \* per module: its data and function table offsets
  data_offset,   \* env.data_offset
  fn_table_offset,
  instantiated,
  heap_base,
  page_count,
  free_p,        \* start of the memory not given out yet
  blocks         \* what was given out

loading == <<deps, stack, trace, modules, place, data_offset, fn_table_offset>>
heap == <<free_p, blocks>>
vars == <<status, loading, instantiated, heap_base, page_count, heap>>

\* Mutant of pad: rounded down.
padDown(s) == s - (s % 4)
pad(s) == IF s % 4 = 0 THEN s ELSE s + 4 - (s % 4)

\* A module gets its place when its file has been read.
NewPlace == [data |-> data_offset, fns |-> fn_table_offset]

Enter(ns, rest) ==
  \E order \in DepOrders[ns] :
    /\ deps' = [deps EXCEPT ![ns] = order]
    /\ stack' = rest \o <<[ns |-> ns, deps |-> order]>>
    /\ trace' = Append(trace, ns)
    /\ place' = [place EXCEPT ![ns] = NewPlace]
    /\ data_offset' = data_offset + pad(DataSize[ns])
    /\ fn_table_offset' = fn_table_offset + FnTableSize[ns]

\* The built-in functions are there before anything is loaded.
Init ==
  /\ status = "loading"
  /\ deps = [ns \in Namespaces |-> <<>>]
  /\ stack = <<>>
  /\ trace = <<>>
  /\ modules = <<>>
  /\ place = [m \in Modules |-> IF m = builtin THEN [data |-> 0, fns |-> 0] ELSE NONE]
  /\ data_offset = pad(DataSize[builtin])
  /\ fn_table_offset = FnTableSize[builtin]
  /\ instantiated = {builtin}
  /\ heap_base = 0
  /\ page_count = initial_page_count
  /\ free_p = 0
  /\ blocks = {}

----------------------------------------------------------------------------
(***************************************************************************)
(* load_modules.                                                           *)
(***************************************************************************)
Top == Last(stack)
Below == Front(stack)
\* The frame on top has been through the first of its dependencies.
Advanced == Append(Below, [Top EXCEPT !.deps = Tail(@)])

InLoop == status = "loading" /\ UNCHANGED <<instantiated, heap_base, page_count, heap>>

load_main ==
  /\ InLoop
  /\ stack = <<>>
  /\ modules = <<>>
  /\ Enter(main, <<>>)
  /\ UNCHANGED <<status, modules>>

\* A file that is not there, or is no module of this compiler.
load_module_fails ==
  /\ InLoop
  /\ stack = <<>> => modules = <<>>
  /\ stack # <<>> => /\ Top.deps # <<>>
                     /\ Head(Top.deps) \notin Range(trace) \union Range(modules)
  /\ status' = "failed"
  /\ UNCHANGED loading

NextDep == stack # <<>> /\ Top.deps # <<>>

\* Mutant of OnTrace: only the module itself is looked at.
OnTraceLast(ns) == ns = Last(trace)
OnTrace(ns) == ns \in Range(trace)

\* The loop over the dependencies ends here.
cyclical_dependency ==
  /\ InLoop
  /\ NextDep
  /\ OnTrace(Head(Top.deps))
  /\ stack' = Append(Below, [Top EXCEPT !.deps = <<>>])
  /\ UNCHANGED <<status, deps, trace, modules, place, data_offset, fn_table_offset>>

\* Mutant of dep_already_loaded: the loop does not go on.
dep_already_loaded_again ==
  /\ InLoop
  /\ NextDep
  /\ ~OnTrace(Head(Top.deps))
  /\ Head(Top.deps) \in Range(modules)
  /\ UNCHANGED <<status, loading>>

\* It is put on the trace, and left there.
dep_already_loaded ==
  /\ InLoop
  /\ NextDep
  /\ ~OnTrace(Head(Top.deps))
  /\ Head(Top.deps) \in Range(modules)
  /\ trace' = Append(trace, Head(Top.deps))
  /\ stack' = Advanced
  /\ UNCHANGED <<status, deps, modules, place, data_offset, fn_table_offset>>

load_dep ==
  /\ InLoop
  /\ NextDep
  /\ ~OnTrace(Head(Top.deps))
  /\ Head(Top.deps) \notin Range(modules)
  /\ Enter(Head(Top.deps), Advanced)
  /\ UNCHANGED <<status, modules>>

module_loaded ==
  /\ InLoop
  /\ stack # <<>>
  /\ Top.deps = <<>>
  /\ modules' = Append(modules, Top.ns)
  /\ trace' = Front(trace)
  /\ stack' = Below
  /\ UNCHANGED <<status, deps, place, data_offset, fn_table_offset>>

----------------------------------------------------------------------------
(***************************************************************************)
(* Memory, linking and instantiating.                                      *)
(***************************************************************************)
initial_memory_size == initial_page_count * page_size

\* Mutant of PagesFor: rounded down.
PagesForFloor(bytes) == bytes \div page_size
PagesFor(bytes) == (bytes + page_size - 1) \div page_size

HeapBase == data_start + data_offset
PagesNeeded == IF HeapBase >= initial_memory_size THEN PagesFor(HeapBase) ELSE page_count

\* Memory.grow throws when the maximum does not allow for it.
set_heap_base ==
  /\ status = "loading"
  /\ stack = <<>>
  /\ modules # <<>>
  /\ heap_base' = HeapBase
  /\ IF PagesNeeded > max_page_count
     THEN status' = "failed" /\ UNCHANGED page_count
     ELSE status' = "linking" /\ page_count' = PagesNeeded
  /\ UNCHANGED <<loading, instantiated, heap>>

Available(ns) == Range(deps[ns]) \subseteq Range(modules)

\* Mutant of link_modules: only main is linked.
link_modules_main ==
  /\ status = "linking"
  /\ \/ Available(main) /\ status' = "instantiating"
     \/ status' = "failed"
  /\ UNCHANGED <<loading, instantiated, heap_base, page_count, heap>>

\* It fails for a module that is not there, or for a symbol that is not in it.
link_modules ==
  /\ status = "linking"
  /\ \/ (\A ns \in Range(modules) : Available(ns)) /\ status' = "instantiating"
     \/ (\E ns \in Range(modules) : deps[ns] # <<>>) /\ status' = "failed"
  /\ UNCHANGED <<loading, instantiated, heap_base, page_count, heap>>

instantiate_module ==
  /\ status = "instantiating"
  /\ \E i \in DOMAIN modules :
       /\ modules[i] \notin instantiated
       /\ \A j \in 1 .. i - 1 : modules[j] \in instantiated
       /\ instantiated' = instantiated \union {modules[i]}
  /\ UNCHANGED <<status, loading, heap_base, page_count, heap>>

init_malloc ==
  /\ status = "instantiating"
  /\ Range(modules) \subseteq instantiated
  /\ status' = "running"
  /\ free_p' = heap_base
  /\ UNCHANGED <<loading, instantiated, heap_base, page_count, blocks>>

----------------------------------------------------------------------------
(***************************************************************************)
(* _malloc in the running program.  grow_memory adds pages one by one.     *)
(***************************************************************************)
Aligned(size) == size + (4 - (size % 4))

\* Mutant of EnoughFor: rounded down.
EnoughForLess(next_free_p) == next_free_p \div page_size

EnoughFor(next_free_p) == next_free_p \div page_size + 1

malloc(size) ==
  LET next_free_p == free_p + Aligned(size)
      pages == IF next_free_p >= page_count * page_size
               THEN EnoughFor(next_free_p) ELSE page_count
  IN  /\ status = "running"
      /\ Cardinality(blocks) < MaxBlocks
      /\ IF pages > max_page_count
         THEN \* grow_memory returns 0 for ever
              /\ status' = "hanging"
              /\ page_count' = max_page_count
              /\ UNCHANGED heap
         ELSE /\ page_count' = pages
              /\ blocks' = blocks \union {[at |-> free_p, size |-> size]}
              /\ free_p' = next_free_p
              /\ UNCHANGED status
      /\ UNCHANGED <<loading, instantiated, heap_base>>

Load ==
  \/ load_main
  \/ load_module_fails
  \/ cyclical_dependency
  \/ dep_already_loaded
  \/ load_dep
  \/ module_loaded
  \/ set_heap_base
  \/ link_modules
  \/ instantiate_module
  \/ init_malloc

Next == Load \/ \E size \in Sizes : malloc(size)

\* Promises that are awaited are resolved or rejected; the program need not allocate.
Spec == Init /\ [][Next]_vars /\ WF_vars(Load)

----------------------------------------------------------------------------
(***************************************************************************)
(* Properties.                                                             *)
(***************************************************************************)
Active == {stack[i].ns : i \in DOMAIN stack}

\* No file is read a second time, also in a circle: of a module there is one call, and
\* none once it is loaded (nodejs.js:344-346, 364-373).  That depends on the trace, of
\* which each call takes off the last entry whatever it is: those of the calls that go
\* on must still be on it.
LoadedOnce ==
  /\ Cardinality(Active) = Len(stack)
  /\ Active \intersect Range(modules) = {}
  /\ Cardinality(Range(modules)) = Len(modules)
  /\ Active \subseteq Range(trace)

\* Modules have memory and places in the function table of their own, and their data
\* ends where the heap begins (nodejs.js:357-361, 423).
Apart(a, m, b, n) == a + m <= b \/ b + n <= a
RangesDisjoint ==
  /\ \A m, n \in {x \in Modules : place[x] # NONE} : m # n =>
       /\ Apart(place[m].data, DataSize[m], place[n].data, DataSize[n])
       /\ Apart(place[m].fns, FnTableSize[m], place[n].fns, FnTableSize[n])
  /\ status \in {"linking", "instantiating", "running"} =>
       \A m \in instantiated \union Range(modules) :
         data_start + place[m].data + DataSize[m] <= heap_base

\* What the program is given is above the data, within the memory there is, and no two
\* blocks share a byte (malloc.c:12-29, nodejs.js:426-437).
HeapInMemory ==
  /\ status \in {"linking", "instantiating", "running"} => heap_base <= page_count * page_size
  /\ \A b \in blocks : b.at >= heap_base /\ b.at + b.size <= page_count * page_size
  /\ \A b, c \in blocks : b # c => Apart(b.at, b.size, c.at, c.size)

\* When the program runs, all that its modules refer to has been instantiated
\* (nodejs.js:384).
RunsComplete ==
  status = "running" => \A m \in instantiated \ {builtin} : Range(deps[m]) \subseteq instantiated

\* Loading comes to an end, whatever refers to what.
LoadingEnds == <>(status \in {"running", "hanging", "failed"})

\* "WARNING: Cyclical dependency from namespace" (nodejs.js:365) is said where the loop
\* over the dependencies is left: if there is no circle it is not left, and no module is
\* missing when the others are linked.
Circular ==
  \E S \in SUBSET Namespaces \ {{}} : \A ns \in S : Range(deps[ns]) \intersect S # {}
NothingMissing ==
  (status = "linking" /\ ~Circular) => \A ns \in Range(modules) : Available(ns)
=============================================================================
