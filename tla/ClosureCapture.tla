--------------------------- MODULE ClosureCapture ---------------------------
(***************************************************************************)
(* How the compiler gives nested functions their free variables: compile_  *)
(* lval_ref and compile_local_lambda of compile.c, the function contexts   *)
(* of make_wasm_fn.c, and the association list of list.c they depend on.   *)
(*                                                                         *)
(* A reference to a variable of the function being compiled is a local.    *)
(* Any other one becomes a load from the closure block of the function, at *)
(* the index that symbol_to_ref, the function's list of captured symbols,  *)
(* gives it.  When the function is done, the function around it compiles   *)
(* the code that fills such a block, which may capture symbols in turn.    *)
(*                                                                         *)
(* The model compiles every program of nested functions, bindings and uses *)
(* of symbols, and follows what each load will find in its block.          *)
(***************************************************************************)
EXTENDS Integers, Sequences, SequencesExt

CONSTANTS
  Names,         \* the names programs give to variables
  Uses,          \* how they use them: as a value, or by calling them
  MaxDepth,      \* bound of the model: functions nested in one another
  MaxVariables,  \* bound of the model: variables in scope
  MaxCaptured,   \* bound of the model: symbols captured by one function
  NONE           \* what is read outside of a closure block

ASSUME UsesAssumption == Uses \subseteq {"value", "call"}

VARIABLES
  env,   \* the variables in scope, innermost last
  fns    \* the functions being compiled, outermost first

vars == <<env, fns>>

Depth == Len(fns)
Current == fns[Depth]

\* A variable of the function at this depth; number tells it from its namesakes.
Variable(name, number, depth) == [name |-> name, number |-> number, depth |-> depth]

\* A function being compiled: its symbol_to_ref, newest first, and its closure loads.
Function(captured, loads) == [captured |-> captured, loads |-> loads]

Init ==
  /\ env = <<>>
  /\ fns = <<Function(<<>>, {})>>

----------------------------------------------------------------------------
(***************************************************************************)
(* One reference.                                                          *)
(***************************************************************************)
\* i counts the cells passed, and is subtracted from the length of the rest.
alist_index_of(alist, key) ==
  LET matches == {i \in 0 .. Len(alist) - 1 : alist[i + 1].key = key}
      first == CHOOSE i \in matches : \A j \in matches : i <= j
  IN  IF matches = {} THEN -1 ELSE (Len(alist) - first) - first - 1

\* Mutant of closure_index: counted once the symbol was added.
closure_index_late(captured, key) ==
  LET found == alist_index_of(captured, key)
  IN  IF found = -1 THEN Len(captured) + 1 ELSE found

closure_index(captured, key) ==
  LET found == alist_index_of(captured, key)
  IN  IF found = -1 THEN Len(captured) ELSE found

\* Mutant of compile_lval_ref: the variables of the function around are not captured.
compile_lval_ref_near(fn, depth, key, variable) ==
  LET new == alist_index_of(fn.captured, key) = -1
      entry == [key |-> key, variable |-> variable]
      load == [variable |-> variable, index |-> closure_index(fn.captured, key), new |-> new]
  IN  IF variable.depth >= depth - 1 THEN fn
      ELSE Function(IF new THEN <<entry>> \o fn.captured ELSE fn.captured,
                    fn.loads \union {load})

\* compile_lval_ref in the function at this depth: code for a local, or a load of a
\* symbol, which is captured unless its key is found.
compile_lval_ref(fn, depth, key, variable) ==
  LET new == alist_index_of(fn.captured, key) = -1
      entry == [key |-> key, variable |-> variable]
      load == [variable |-> variable, index |-> closure_index(fn.captured, key), new |-> new]
  IN  IF variable.depth = depth THEN fn
      ELSE Function(IF new THEN <<entry>> \o fn.captured ELSE fn.captured,
                    fn.loads \union {load})

\* What that code reads at run time, given a block with what the function captured.
Reads(fn, depth, key, variable) ==
  LET captured == Reverse(compile_lval_ref(fn, depth, key, variable).captured)
      slot == closure_index(fn.captured, key) + 1
  IN  IF variable.depth = depth THEN variable
      ELSE IF slot \in DOMAIN captured THEN captured[slot].variable
      ELSE NONE

\* Mutant of Key: every symbol is captured under the same key.
KeyOfLval(name, use) == "lval"

\* The key of a captured symbol is its name.  But a symbol that is called passes its
\* lval in place of the name (compile_fn_call.c:474), and read as strings, the
\* lvals of all symbols are the same: the bytes of their type and their group.
Key(name, use) == IF use = "value" THEN name ELSE "lval"

----------------------------------------------------------------------------
(***************************************************************************)
(* Compiling a program.                                                    *)
(***************************************************************************)
\* The variables around the function being compiled: its own come after them.
Around ==
  LET outer == CHOOSE n \in 0 .. Len(env) :
                 \A i \in DOMAIN env : env[i].depth < Depth <=> i <= n
  IN  SubSeq(env, 1, outer)

\* A parameter of the current function, or a local of a let in it.
bind(name) ==
  /\ Len(env) < MaxVariables
  /\ env' = Append(env, Variable(name, Len(env) + 1, Depth))
  /\ UNCHANGED fns

leave_let ==
  /\ env # Around
  /\ env' = Front(env)
  /\ UNCHANGED fns

\* A symbol is the innermost variable of its name.
use_symbol(name, use) ==
  LET namesakes == {i \in DOMAIN env : env[i].name = name}
      variable == env[CHOOSE i \in namesakes : \A j \in namesakes : j <= i]
      fn == compile_lval_ref(Current, Depth, Key(name, use), variable)
  IN  /\ namesakes # {}
      /\ Len(fn.captured) <= MaxCaptured
      /\ fns' = [fns EXCEPT ![Depth] = fn]
      /\ UNCHANGED env

\* compile_local_lambda begins a function in the current one.
enter_lambda ==
  /\ Depth < MaxDepth
  /\ fns' = Append(fns, Function(<<>>, {}))
  /\ UNCHANGED env

\* make_local_lambda: the next arity has parameters of its own, but goes on with the
\* list of the arities before it, as they all share one block.
next_arity ==
  /\ Depth > 1
  /\ env' = Around
  /\ UNCHANGED fns

\* The function around stores the value of a captured symbol.  The list begins with
\* the newest, so the block is filled from its end.
Store(filled, entry) ==
  LET depth == Depth - 1
  IN  [fn |-> compile_lval_ref(filled.fn, depth, entry.key, entry.variable),
       block |-> <<Reads(filled.fn, depth, entry.key, entry.variable)>> \o filled.block,
       stored |-> <<entry.variable>> \o filled.stored]

\* The block that the current function is given when it is left.
Filled ==
  LET captured == Current.captured
      after[k \in 0 .. Len(captured)] ==
        IF k = 0 THEN [fn |-> fns[Depth - 1], block |-> <<>>, stored |-> <<>>]
        ELSE Store(after[k - 1], captured[k])
  IN  after[Len(captured)]

leave_lambda ==
  /\ Depth > 1
  /\ fns' = [Front(fns) EXCEPT ![Depth - 1] = Filled.fn]
  /\ env' = Around

Next ==
  \/ \E name \in Names : bind(name)
  \/ leave_let
  \/ \E name \in Names, use \in Uses : use_symbol(name, use)
  \/ enter_lambda
  \/ next_arity
  \/ leave_lambda

Spec == Init /\ [][Next]_vars

----------------------------------------------------------------------------
(***************************************************************************)
(* Properties.                                                             *)
(***************************************************************************)
\* The index a symbol gets when it is captured (compile.c:180) stays right until the
\* block is filled, in another function and in the opposite order (compile.c:260-281),
\* whatever is captured after it and in whichever arity.
FirstLoadsRight ==
  Depth > 1 => \A load \in Current.loads :
    load.new => /\ load.index + 1 \in DOMAIN Filled.stored
                /\ Filled.stored[load.index + 1] = load.variable

\* What a finished function captured is at hand where its block is filled: it is a
\* local there that is still in scope, or captured there in turn.
HandedDown ==
  [][\A i \in DOMAIN Current.captured :
       LET variable == Current.captured[i].variable
       IN  Len(fns') < Depth =>
             IF variable.depth = Depth - 1
             THEN \E k \in DOMAIN env' : env'[k] = variable
             ELSE \E e \in ToSet(fns'[Depth - 1].captured) : e.variable = variable]_vars

\* "We keep track of all symbols that are not local (param or let local) we encounter
\* while compiling a fn in the function_context->symbol_to_ref alist"
\* (compile.c:166-168): every closure load is for a captured variable.  Names tell the
\* free variables of a function apart, though lets and nested functions may shadow
\* them, because what is in scope around a function is fixed while it is compiled.
AllTracked ==
  \A d \in DOMAIN fns : \A load \in fns[d].loads :
    \E e \in ToSet(fns[d].captured) : e.variable = load.variable

\* Every load finds in the block the variable it was compiled for.  It does if the
\* index in the list is what "Returns index of key as added to alist (so first one
\* added has index 0 ..." (list.c:151) says.
LoadsRight ==
  Depth > 1 => \A load \in Current.loads :
    /\ load.index + 1 \in DOMAIN Filled.block
    /\ Filled.block[load.index + 1] = load.variable
=============================================================================
