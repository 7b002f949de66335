# Wajure in TLA+

Wajure is a small Clojure written in C.  The same sources make an interpreter, which
loads a program of namespaces that `require` one another, a compiler, which loads the
program the same way and then turns what the namespaces hold into one wasm module
each, and the runtime those modules call: memory pools, reference counts, lists and
values, compiled to wasm themselves.  `nodejs.js` loads, links and runs the modules.

Everything runs on one thread.  What makes the program hard is not parallelism but
re-entry and sharing: a log that allocates from the pool it logs, destructors that
release recursively, one global `current_ns` that every call changes, closures whose
layout is decided while their body is still being compiled, files that load files.

These modules model that core.  TLC checks them on small instances; for the pools, the
heap, the loading of namespaces, closures, calls and the module loader, TLAPS proves in
the modules named `...Proofs` that the same properties hold on every instance.

## The system

| part | state | operations | what must hold |
|------|-------|------------|----------------|
| fixed-size pools (`mempool.c`) | blocks, free list threaded through the slots, counts | `alloc_slot`, `add_data_block`, `free_slot` | no slot lost or held twice, counts true |
| typed pools (`lispy_mempool.c`) | one pool per type and size class, a log per pool | `lalloc_type`, `lalloc_size`, `lrealloc`, the log | the log that allocates inside `alloc_slot` harms nothing and ends |
| reference counts (`refcount.c`), cells and lists (`cell.c`, `list.c`) | a count and a destructor per slot | `retain`, `release`, `list_*`, `alist_*` | counts exact, nothing freed that is held, nothing left but cycles |
| bump allocator (`malloc.c`, `platform.c`, `grow_memory` of `nodejs.js`) | next address, page count | `_malloc`, `grow_memory` | nothing handed out past the memory there is |
| iterators (`iter.c`) | position, borrowed references | `iter_new`, `iter_next`, `next_arg` | what is borrowed stays alive while other code runs |
| environments (`env.c`) | association list, parent | `lenv_put`, `lenv_get` | innermost binding first |
| reader (`read.c`, numbers of `lib.c`, `print.c`) | position in the text, `lval_err`, `merrno` | `read_expr` and what it calls, `print` | the text is read as it is written, errors end every list around them, nothing behind the text is read |
| evaluator (`eval.c`, `special_fns.c`) | the C stack, `current_ns` | `lval_eval`, special forms, calls | scoping, errors go up to the nearest `try`, `current_ns` restored, everything owned is released once on every path |
| namespaces (`namespace.c`, `misc_fns.c`, `run.c`) | the table of namespaces, each with env, as, refer, required | `load`, `require`, `in-ns` | `require` loads no file inside itself, the namespace restored, no error lost |
| compiler (`compile*.c`, `make_wasm_fn.c`) | contexts, environments, captured symbols, locals | `lval_compile` and what it calls | the compiled function finds the values the interpreted one would, its code releases what it owns and nothing else |
| data section (`wasm_util.c`, `datafy.c`, `inter.c`, `wasm.c`) | data, pools of constants, offsets | `datafy_lval`, `inter_*` | every pointer relocated once |
| incremental compilation (`compile_main.c`) | a flag per namespace | `mark*`, `maybe_compile` | all that depends on a change is compiled |
| runtime (`runtime.c`) | none | `bundle_rest_args`, `rewrite_pointers` | arguments and pointers as the compiler lays them out |
| module loader (`nodejs.js`) | modules, trace, offsets | `load_modules`, `link_modules` | dependencies before use, ranges disjoint |

The evaluator allocates through the typed pools and shares what it allocates through
counts; the compiler runs after the evaluator on the same values; the runtime is the
pools, counts and lists again.  String primitives, hashing, the vendored `printf` (but for
the `%li` that prints numbers, `_ntoa_long` in `Reader`) and the binaryen examples have no
state of their own and are left out.

## The modules

**`Mempool`** is one pool of `mempool.c`.  A slot is a pair of block and index
(`Ptr`), `next` is the word that a free slot holds inside itself, and `alloc_slot` is
split by what it runs into: `alloc_slot` proper (a slot is there), `alloc_slot_resizing`
(the pool is full and may grow: `add_data_block`, then a slot of the new block) and
`alloc_slot_refused`.  `free_slot` pushes.  What the client holds is a history variable.
**`SlotPool`** is what a pool promises: it hands out slots that nobody holds, and grows
or refuses only when all are held.  `Mempool` refines it.

**`LispyMempool`** puts the pools of all types together, as counts, with the stack of C
calls: `alloc_slot` of a full pool calls the log *before* it adds the block
(`mempool.c:64-66`), the log copies its message into a slot with `lrealloc`
(`CopyMessage`), prints and releases it (`PrintMessage`), and only then does the block
come (`add_data_block`).  `get_mempool_chartype` is the choice of the size class, bit by
bit as in the code.

**`RefHeap`** is the heap: slots with a count, a destructor and two fields, and the
references the program has.  `release` is a stack of frames: the count goes to zero,
the destructor releases one field after the other (`destroy_field`), each of which may
enter `release` again, then the slot goes back (`free_rc_slot`).  The program is any
sequence of `retain`, `release`, `list_cons`, `list_first`, `list_rest` and `alist_put`
on references it has; a body that closes over itself gives cycles.  **`GcHeap`** is what
it promises: a heap where nothing the program can reach goes away.  `RefHeap` refines it.

**`Namespaces`** is the interpreter loading a program: `load`, `require`, `in-ns`, `def`,
`do`, `try`, calls and the resolution of symbols.  `stack` is the C stack, cut down to
the calls that hold something across an evaluation (a saved namespace, the symbol to be
bound, whether a form of the file failed, the state of a `try`), and `result` is the
value on its way to the caller.  A `try` is the little state machine of `eval_try`: its
frame has the mode and what the `try` was worth so far, and each clause is a step.
Files are not given: whenever an expression is due it is any expression.  A file is
loaded by `load_main`, by `require` and by the builtin `load` (`load_fn`).  The first two
put `current_ns` back, `load_fn` does not: the `home` of a `load` or `call` frame is the
namespace its code last went to, by an `in-ns` of its own or of a file that it called
`load` on (`Unloaded` hands it down), and exists for `CurrentIsHome` only.

**`ClosureCapture`** is closure conversion: functions nested in functions, each with
arities, parameters and `let`s that may shadow, as `compile_lval_ref` and
`compile_local_lambda` see them.  Every use of a symbol is a step; for a captured one
the step records which place of the closure block the emitted load reads.  When the
function is left (`leave_lambda`) the enclosing function emits the stores.

**`Calls`** is one function with several arities: overloads are entered one by one
(`eval_lambdas`, a parameter vector at a time), the function may be given arguments in
advance (`partial_fn`), and is compiled into a switch on the number of arguments
(`switch_on_args_count`).  The three ways of calling it are operators on that state:
`eval_lambda_call` of the interpreter, `compile_application` with its `Operands` for a
function that the compiler knows, and `call_fn_by_ref`, where the arguments are put
into a block that the function itself takes apart (`FromBlock`).

**`DataSection`** is what becomes of values.  The interpreter makes a program of two
namespaces (`def_literal`, `def_list`, `def_fn`, `def_partial`, `def_again`), then each
namespace is compiled a symbol at a time (`compile_entry`): `datafy_lval` interns the
value and all it refers to, threading the values (whose `lval_ptr` it sets), the module
and the pointer it returns as one record `S`, as the C functions share them.  Afterwards
`reset_lval` forgets the pointers, and when all is compiled and linked,
`instantiate_module` does what `rewrite_pointers` does in the runtime.  `Is` reads the
memory back as a value.

**`ModuleLoader`** is `nodejs.js` from the first `load_modules` to the running program:
`stack` holds the calls of `load_modules` with what is left of their loops, `trace` and
`modules` are those of the code.  What a file depends on is chosen when it is read
(`Enter`).  Then come the heap base, the pages, linking, instantiating in the order of
`modules`, and `_malloc` with `grow_memory`.

**`Reader`** is `read.c` under `load` and `read-string`.  A text is a sequence of
characters, one for each class that the reader tells apart, in memory with a terminator
and other bytes behind it.  `stack` is the recursion of `lval_read_list` and
`reader_macro`, `lval` what `lval_read` has just returned, and `lval_err` and `merrno`
are the globals, which are kept from one text to the next.  The loops over characters are
recursive functions of the position they start from.

**`ReadPrint`** adds what runs check and proofs do not reach.  `print_fn` prints what was
read, which is then read again.  The other half is a reference: `Tokens` cuts a text into
tokens by rules on characters, `Expressions` is a grammar over tokens, both without
positions or globals.

**`EvalRefs`** is the evaluator as an owner of references: `load` over a file of forms,
every special form, the list builtins, `partial`, `apply`, `eval`, functions and macros.
A step is the C code between two calls of `lval_eval`.  A frame of `frames` says what a C
function owns (`own`: its scoped variables, and what it releases by hand at its end) and
what it only points to (`env`, the iterator `i`, `x`); values are counted objects whose
`kids` the destructors release.  References that the code loses are counted in `lost`
where it loses them, so that `CountsExact` means: these and no others.

**`CompiledRefs`** is the other owner, compiled code.  Its first half is the compiler:
`lval_compile` and what it calls return the code of an expression as instructions of a
stack machine, with `is_fn_call` (who gets the value owns it) and the next free local,
just as `CResult` and `local_count` do.  Its second half runs this code, an instruction a
step, over counted objects, a data section whose counts change like all others, and the
blocks of arguments, partials and closures.

The pieces meet at the values they share and not in one big module: the counts of
`RefHeap` live in slots of `Mempool`, the overloads that `Calls` compiles are the
functions of which `DataSection` stores the table index, the data and table sizes of its
modules are what `ModuleLoader` adds up, `EvalRefs` and `CompiledRefs` are two programs
of the kind that `RefHeap` serves, and the `free_p` of `ModuleLoader` is where the
blocks of `Mempool` come from.

## The runs

| run | instance | shows |
|-----|----------|-------|
| `mempool` | blocks of 1, 2 or 3 slots, at most 4 slots, with and without resizing | free list, counts, no slot lost, refinement of `SlotPool` |
| `lispy_mempool` | one object type and two sizes of strings, pools of up to 4 slots | the log inside `alloc_slot` leaves the counts right, and every allocation returns as long as the message finds a slot |
| `lispy_mempool_growth` | the same | **violated** (`PoolsGrow`): a full CHAR64 pool makes the log call itself without end |
| `refheap` | 4 slots, 3 references of the program | exact counts, nothing dangling, only cycles leak, a release always gets on, refinement of `GcHeap` |
| `reader` | every text over seven alphabets of 4 to 10 characters, up to 3 to 5 long; numbers from -16 to 15 | what is read is what the reference says, up to the first error; what is printed reads back; nothing behind the text is read; reading ends |
| `eval_refs` | a file that defines a list, a macro and three functions, then one of 54 forms around 4 expressions, or around one of 45 forms around a list | nothing in use is given back, counts exact between two forms, lists never change |
| `namespaces` | two files, one symbol, one alias, 5 expressions | `require` and calls restore `current_ns` on every path and what `load` leaves stays with its caller, no file inside itself by `require`, no error lost or caught twice |
| `closure_capture` | 2 names, 3 variables, 3 levels | captured symbols tracked and handed down, first load and store agree |
| `calls` | `MAX_FN_PARAMS` 4 for 20, 3 overloads, 2 arguments in advance | overload rules in any order, the right overload for every number, compiled calls agree with the interpreter |
| `compiled_refs` | 2,100 programs: forms around 5 leaves and forms around forms around 3 of them, three root functions, five arguments | nothing in use is given back, counts balance when `main` returns, no local is shared |
| `data_section` | two namespaces, 3 defs, 2 elements, a number, a string | what compiled code refers to is what the interpreter had; functions link |
| `module_loader` | main and 3 namespaces, any 2 dependencies each | loaded once, ranges apart, heap inside memory, complete before it runs, loading ends |

Six more configurations reproduce findings: each is violated by a short behaviour.
`MCClosureCaptureIndex.cfg` (`LoadsRight`: a later load of a captured variable reads
another place), `MCDataSectionPartials.cfg` (`PartialsOfTheirFunction`: a partial of a
function of another namespace calls function 0), `MCModuleLoaderAcyclic.cfg`
(`NothingMissing`: a module is skipped as circular where there is no circle),
`MCReaderBlanks.cfg` (`BlanksInEmptyList`: `( )` is an error),
`MCCompiledRefsPartials.cfg` (`PartialsHeld`: an argument given to a partial function at
run time is gone before the function is) and `MCCompiledRefsErrors.cfg`
(`NothingDangles`: the value of `(first (first 1))` is a freed slot).

Bounds.  A pool of two blocks is where old and new block can be mixed up, three slots
where the free list has an inner element.  Four heap slots are enough for a shared tail,
a chain that is freed recursively and a cycle through a third; the counts are bounded by
what the slots and the references of the program can hold.  Two namespaces make the
circular require and the call from one into the other; with five expressions a file can
define, require inside a `try`, call what it got, fail and be handled.  Two names make
shadowing; three captured variables are the least at which the wrong index of
`alist_index_of` shows.  Three overloads are a rest overload with one before and one
after it, and arities up to four leave room for a gap below the rest overload, partials
on either side of it and a rest list of two.  Three defs make a function of one
namespace, a partial of it and a function that uses that one in the other.  Three
namespaces besides main make every diamond and circle of two and three.  Five characters
are an error inside a list inside a quote, a string of two escapes, or a number with a
sign past either end of the range with something behind it.  Two levels of forms put
every expression that owns its value, borrows it or fails into every place where another
form holds something of its own; the prelude of `eval_refs` adds a shared tail, a function
that replaces itself while it runs, a rest parameter and a macro.  `Forms`,
`MaxDefs`, `MaxBlocks` and the other bounds are named in the modules; none is in the
code.

Liveness.  `AllocReturns` and `PoolsGrow` (`LispyMempool`) assume weak fairness of the
steps inside a call of `alloc_slot`, `LoadingEnds` (`ModuleLoader`) of the steps of the
loader, `ReadEnds` (`Reader`) of those of the reader and the loop of `load`: all are
sequential code, in which a call that can go on does, and the promises the loader awaits
are resolved or rejected.  The client and the running program are never assumed to call,
and nobody to read another text.  `ReleaseProgresses` (`RefHeap`) needs no fairness: it is
a variant that every step of a release decreases.  `CHECK_DEADLOCK FALSE` stands where the
system ends: a loaded program, a function that is complete, a C stack that is full, `main`
returned.

## The proofs

Every invariant and every action property that a run checks of the modules below is also
a theorem of the specification, for all values of the constants that satisfy the
assumptions of the module (of the reader, whatever is stated without the reference of
`ReadPrint`).  Few of these properties are inductive.  Each
proof module therefore begins with an invariant `IInv` that is (it was first checked by
TLC as an invariant of the run), shows action by action that it is kept, and reads the
theorems off it.

| module | proves | for every |
|--------|--------|-----------|
| `MempoolProofs` | `TypeOK`, `FreeListOK`, `SlotsPartitioned`, `CountsExact`, refinement of `SlotPool` | block size, number of blocks, bound |
| `LispyMempoolProofs` | `CountsAgree`, `GrowsOnlyWhenFull`, room in every size class (`ClassFits`), calls return (`AllocProgresses`) or never do (`HopelessForEver`) | set of pools, sizes, depth of the C stack |
| `RefHeapProofs` | `CountsExact`, `NoDangling`, `DestroyedOnce`, `LeaksAreCycles`, `ReleaseProgresses`, refinement of `GcHeap` | number of slots and of variables |
| `NamespacesProofs` | `TypeOK`, `CurrentIsHome`, `NoFileInsideItself`, `ErrorsSurface` | set of files, symbols and aliases, number of forms |
| `ClosureCaptureProofs` | `FirstLoadsRight`; `AllTracked` and `HandedDown` where captured symbols are not called | nesting, set of names |
| `CallsProofs` | `OverloadRules`, `LambdaByArity`, `CompiledCallsAgree` for vectors with at most one `&` | maximum of parameters, overloads, partials, arguments |
| `ModuleLoaderProofs` | `LoadedOnce`, `RangesDisjoint`, `HeapInMemory`, `RunsComplete`, that every step leaves less to do (`LoadingProgresses`) | program, module sizes, number of pages |
| `ReaderProofs` | `StaysInText`, that every step leaves less to do (`ReaderProgresses`), numbers exact at both ends of their range (`NumbersExact`), strings and numbers read back as printed (`StringsReadBack`, `NumbersReadBack`) | texts, memory behind them, range of numbers |

**`MempoolProofs`.**  That the counts are right needs that the free list has no slot
twice, which needs to know where it ends:

    IInv == TypeOK /\ CountsPlaced /\ FreeListOK /\ SlotsPartitioned /\ HeldCounted

`CountsPlaced` says where the data of the last block begins and ends in terms of the
counts; `FreeListOK` says that there is a sequence of slots without repetition that
begins at the head, follows `next` and ends at the first slot of the last block that was
never used (the code has this sequence only as pointers, so it is quantified and not a
variable); `SlotsPartitioned` that every slot handed out so far is held or in that
sequence and not both; `HeldCounted` ties the number of held slots to the counts by the
library's theorems on finite sets.  Each action changes one end of the sequence, and the
proof of each names the sequence afterwards as witness.

**`LispyMempoolProofs`.**  The step that looks wrong is `add_data_block`, which overwrites
`free_slot_count` after a log ran in between.  It loses nothing because the pool is still
full then (`FullWhileLogging`), which holds because the only pools that a log gives slots
back to are the two it allocates from, and their own logs never come to an end
(`LogsOfLogPools`, from `Waiting`: who on the C stack waits for which pool).  `ClassFits`
needs no invariant: it follows the bits that `get_mempool_chartype` tests.

`AllocProgresses` and `HopelessForEver` are the two sides of the finding about `PoolsGrow`.
A call is `Hopeless` when the log runs of one of the pools that the log itself allocates
from.  Then it stays so, and no client gets anything any more.  Otherwise at most one call
waits for one other (`LogsAlone`), the buffer it waits for is there, since only logs use
`INTERNAL` (`BufferFree`, from the counts), and the steps it still has to take are a number
that each step decreases.  The first theorem has the hypothesis `InternalForLogs`, that
nobody else calls `lalloc_type(INTERNAL)`, which is so in the code.

**`RefHeapProofs`.**  The count of a slot is the cardinality of a set of locations.
`CountsExact` and `NoDangling` need each other, `DestroyedOnce` (the frames of the release
in progress are of different slots), `FieldsReleased` (which fields they have emptied) and
`LiveCounted` (a live slot that is not being destroyed has a count above zero).
`ReleaseAlwaysProgresses` takes one thing to do out of a finite set (`Work`) with every
step.  For `OnlyCyclesLeak`, take among the garbage that no cycle leads to a slot that the
fewest others lead to: garbage refers to it, so the same slots lead to that one, so it is
on a cycle.  In the refinement of `GcHeap` the steps of the program are `Compute` and
those of the destructors `Collect`; what a destructor touches has count zero, and by
`CountsExact` and `NoDangling` the program cannot reach it.

**`NamespacesProofs`.**  The invariant speaks of the C stack: what every frame waits for
(`Waits`), what a frame may be called from, that a saved namespace is the one of the frame
that will run again (`SavedIsHome`), that the namespace of a file is there while it is loaded
except before its first form, when the program is still where the code that loaded it is
(`LoaderHome`; this is what `Unloaded` hands down), that no file that a `require` loads is
being loaded below it (`Again`), and that an error was returned just when it is on its way or some frame holds it (`Held`, the flag
of `load` and the mode of `try`).  These are stated of any sequence of frames, so that
pushing and popping are lemmas.

**`ClosureCaptureProofs`.**  `IInv` says that the variables in scope are nested as the
functions are and that the index recorded for a first load is the place counted from the
end of the list.  `AllTracked` and `HandedDown` need `NamesOK`: what a function captured
is the innermost variable of its name around it.  That fails with the finding about
captured symbols that are called (they share a key), so these two theorems have the
hypothesis `Uses \subseteq {"value"}`, as the run has.

**`CallsProofs`.**  `lambdas` is filled in place, in an order that matters for every single
step; `IInv` says what it is after any overloads without mentioning an order (`LambdasOK`),
and what `max_param_count` and `has_rest_arg` are (`MaxOK`, `RestOK`).  Reading a vector is
a recursive function, which `IsReading` describes step by step.  `Branches` shows that the table, which ends before the
rest overload, leads to the overload that `lambdas` has for the number of arguments.
The hypothesis `AtMostOne` leaves out vectors such as `[& & x]`, which the code reads as
`[& x]` (a finding).  `AnyNumberOfArguments` says of all numbers what the run checks up to
one over the maximum.

**`ModuleLoaderProofs`.**  `load_modules` takes the last entry off the trace whatever it
is.  It still never loses the entry of a call in progress, since what the calls put on the
trace comes in the order of the calls (`TraceInOrder`).  `PlacesOK` and `BlocksOK` keep all
that was given out below the next offset.  `LoadingProgresses` needs four numbers, since
how many dependencies a module has is only known when its file is read: the phases to
come, the modules to load or to instantiate, the calls in progress and what the innermost
has not looked at.  The first that changes gets less in every step, and the library's
theorem on lexicographic orders says that this cannot go on for ever; that a circle adds
nothing to the modules to load is `ActiveOnTrace`.

**`ReaderProofs`.**  The loops of the reader are recursive functions, each of which first
has to be shown to exist: `Recursion` does that for any function whose value comes from
one other value, at a place of lower rank, and is used for skipped characters, strings,
numbers and printed strings.  What they do is shown by induction on the position.

A reader that goes from place to place is measured against one that reads every character
in turn: `Mode[k]` is what character k is part of, code, a comment, a string or an escape,
and depends on nothing but the characters up to it.  The invariant is

    IInv == TypeOK /\ WellPlaced

where `WellPlaced` says that a position is where `Mode` says that an expression may start
(`Between`), or, once a string turned out to be wrong, at what is wrong with it (`Torn`),
or that the text ends in a comment or an escape and nothing remains to be read.  Each loop
leads from such a place to such a place (`SkipPlaces`, `SymbolPlaces`, `StringPlaces`).
The attempt showed that `StaysInText` was false as first stated, with its exception for
texts that end in a comment or a backslash taken from the tokens of the reference: in
`"\;`, the escape is wrong, and `read_expr` skips what is behind it as a comment, past the
terminator, though as a string the text has no comment.  The exception is now in terms
of `Mode`, for which a character that cannot be escaped is none of the string, and the run
has an alphabet with such texts.

`ReaderProgresses` needs a measure that decreases where the position stays: three for each
byte that is left, the depth of the stack, and what the step still has to do with a value.
It is the safety part of `ReadEnds`: with the fairness of the reader, which only TLC can
use, such a measure means that reading ends.  `NumbersExact` compares the accumulation of
`_strtol` with the number written, for any width: the test before each digit refuses just
the digits that would leave the range.  `StringsReadBack` follows `FlattenSeq` from left
to right to find where each character was printed, and `StringFrom` from right to left.  `NumbersReadBack`
shows by induction on the number that the digits of all but the last place are those of
the number divided by ten, and that `_strtol` accumulates them to it again; the least
number of a `long` is read back too, though its magnitude is not a `long`.

The theorems are about the specification of `Reader`, for any set of texts.  A run reads
what was printed besides (`read_printed`), which is one more text to start with; the lemma
`StartsPlaced` is about any text that is started.

Loops that walk a sequence are recursive functions in all modules that have theorems; the
provers can instantiate no theorem that takes a predicate, so induction is stated with a
set (`Induction`, from the least number of a set that is not empty).

The assumptions are those of the modules, which TLC evaluates in every run: there is at
least one slot in a block, slots and roots are finitely many and apart, a number is
not `NONE`, sizes are numbers.  The bounds of the runs are constants there, so the theorems
hold for any bound.

Left to TLC: the liveness properties (`AllocReturns`, `PoolsGrow`, `LoadingEnds`,
`ReadEnds`), of which the prover can do no more than the measures above; `ReadsTheText` and `PrintedReadsBack`, which
compare the reader with a grammar and a printer that are recursive over values; and
`DataSection`, `EvalRefs` and `CompiledRefs`, whose definitions are recursive over data
(values, forms, code), so that what they say of every value would need an induction over
data.

## Findings

`PROJECT.json` lists where the code and what is said about it differ.  One has a run
and six a configuration (above); the others were met while reading or modelling:

- two captured functions that are called in one body share a key, so that the second is
  never captured; `closure_capture` therefore has uses as values only;
- `def` binds in one namespace and names the function after another if its value changes
  the namespace;
- with one argument too few, a compiled function may take its rest overload and read past
  its arguments; with one too many, the interpreter takes an overload of 20 parameters;
  the branch table is one entry short for these;
- values other than functions cannot be linked between namespaces, and inside lists and
  partials neither built-ins nor named values of another namespace get the right pointer
  (`PlainValuesLoaded` leaves these out);
- the builtin `load` leaves the program in the namespace of the file, unlike `require`,
  and lets a file load itself without end;
- system errors are caught by `try` although the comment says not, and an error in
  `catch` skips `finally`;
- `[& & x]` is accepted as a vector of parameters and read as `[& x]`;
- `require` ignores the errors of its own argument, dependants are recorded only after
  they were needed, and the readme's account of wasted bytes is wrong at powers of two.
- the reader takes the terminator for a character in two places (a comment that ends the
  text, a backslash that does), and after one number out of range refuses all numbers
  (`ReadsTheText` takes the latter as it is);
- references lost by the evaluator: the list of partials and arguments of every call, the
  list `apply` makes, the value that stands for an unbound symbol, the last result of a
  file with errors; references taken that were never given: a map, the spliced list of a
  quasiquote when it is not the last form, the 21st argument;
- references lost by compiled code: the blocks of closures and partials, the list of rest
  arguments; taken that were never given: the function in `((partial f) x)`, an error that `first`
  is given and returns; and values in closure blocks are not retained at all.

## Not modelled

Maps, which the evaluator returns without counting them; namespaced names and hashes; the
try of compiled code, which the compiler only refuses; calls from compiled code into
javascript; the marking of namespaces (`maybe_compile` compiles all of them anyway);
arithmetic and predicates; string primitives, logs and I/O, which have no state.
Redefinitions, partials of built-ins and anonymous functions inside values are left out
of `DataSection`.  Where a finding says that a reference is taken which was never given,
the instances of `EvalRefs` and `CompiledRefs` have no form that does so, because nothing
can be said of a run after it: splices of fresh lists other than in the last place,
`apply` of a builtin, `(def)`; `((partial f) x)`, errors given to `first` (they go
everywhere else), a closure over a value that does not
outlive it, partial application at run time to a borrowed value that goes.  `EvalRefs` has
one overload a function and one namespace (`Calls` and `Namespaces` have the rest), and
nil for all that is not true.

## Plan

1. done: `Mempool` with its proofs, `SlotPool`, `LispyMempool`, `RefHeap`, `GcHeap`,
   `Namespaces`, `ClosureCapture`, `Calls`, `DataSection`, `ModuleLoader`, `Reader`,
   `ReadPrint`, `EvalRefs`, `CompiledRefs`.
2. done: proofs of the state machines that have no recursion over data, and of the reader
   without its reference.
3. proofs about parts of `DataSection` (ranges and relocation, which need no induction) in
   modules that do without `RECURSIVE`.
4. marking in `compile_main.c`, should its result come to be used; several overloads in
   `EvalRefs`.
