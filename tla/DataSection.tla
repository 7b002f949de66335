----------------------------- MODULE DataSection ----------------------------
(***************************************************************************)
(* The data section: what the compiler makes of the values that a          *)
(* namespace holds when its program has been loaded, and what the loader   *)
(* makes of that (datafy.c, inter.c, compile_main.c and rewrite_pointers   *)
(* of runtime.c).                                                          *)
(*                                                                         *)
(* A value is interned the first time it is met; a pointer into the data   *)
(* of the module being compiled is remembered on the value itself          *)
(* (lval_ptr), and has to be forgotten before the next namespace is        *)
(* compiled, where it means something else.  Pointers are relative to the  *)
(* module until rewrite_pointers adds its offset to each.                  *)
(*                                                                         *)
(* An lval, a cell, a string and an array of partials take one place each. *)
(***************************************************************************)
EXTENDS Integers, Sequences, FiniteSets, SequencesExt

CONSTANTS
  Namespaces,    \* in the order in which their files are loaded
  Texts,         \* numbers and strings, all in the range that is deduped
  Strings,       \* which of them are strings
  DataOffset,    \* per namespace: where the loader puts its data
  FnTableOffset, \* and its functions
  SysPtr,        \* address of the only built-in function
  MaxDefs,       \* bound of the model: defs of the program
  MaxElems,      \* bound of the model: elements of its lists, altogether
  NONE

ASSUME TextsAssumption == Strings \subseteq Texts
ASSUME OffsetsAssumption ==
  /\ DataOffset \in [Range(Namespaces) -> Nat]
  /\ FnTableOffset \in [Range(Namespaces) -> Nat]

VARIABLES
  lvals,    \* the values, by number
  env,      \* per namespace: the values its symbols are bound to, in order
  loaded,   \* how many namespaces the interpreter has loaded
  wasm,     \* per namespace: the module made of it
  current,  \* the namespace that is being compiled
  entry,    \* which of its symbols is next
  memory    \* per namespace: its data after the module is instantiated

vars == <<lvals, env, loaded, wasm, current, entry, memory>>

Ns == Range(Namespaces)

----------------------------------------------------------------------------
(***************************************************************************)
(* The program.  A symbol is the namespace and the number of the def.      *)
(***************************************************************************)
Lval(kind, ns, named) ==
  [kind |-> kind, ns |-> ns, cname |-> named, text |-> NONE, elems |-> <<>>,
   body |-> NONE, cfn |-> NONE, lval_ptr |-> 0, fn_table_index |-> -1]

Plus == 1

Init ==
  /\ lvals = <<Lval("sys", NONE, FALSE)>>
  /\ env = [ns \in Ns |-> <<>>]
  /\ loaded = 0
  /\ wasm = [ns \in Ns |-> NONE]
  /\ current = NONE
  /\ entry = 0
  /\ memory = [ns \in Ns |-> NONE]

Loading == Namespaces[loaded + 1]
Defs == FoldLeft(LAMBDA n, ns : n + Len(env[ns]), 0, Namespaces)
CanDef == loaded < Len(Namespaces) /\ Defs < MaxDefs

Literal(text) == [Lval("literal", Loading, FALSE) EXCEPT !.text = text]

Bind(lval, more) ==
  /\ lvals' = lvals \o more \o <<[lval EXCEPT !.cname = TRUE]>>
  /\ env' = [env EXCEPT ![Loading] = Append(@, Len(lvals'))]
  /\ UNCHANGED <<loaded, wasm, current, entry, memory>>

def_literal(text) == CanDef /\ Bind(Literal(text), <<>>)

Elements == FoldLeft(LAMBDA n, lval : n + Len(lval.elems), 0, lvals)

\* The elements are what there is already, or literals.
def_list(elems) ==
  /\ CanDef
  /\ Elements + Len(elems) <= MaxElems
  /\ LET texts == SelectSeq(elems, LAMBDA e : e \in Texts)
         literals == [i \in DOMAIN texts |-> Literal(texts[i])]
         Place(i) == Len(SelectSeq(SubSeq(elems, 1, i), LAMBDA e : e \in Texts))
     IN  Bind([Lval("list", Loading, FALSE) EXCEPT
                 !.elems = [i \in DOMAIN elems |-> IF elems[i] \in Texts
                                                   THEN Len(lvals) + Place(i) ELSE elems[i]]],
              literals)

\* The body is a literal, or a symbol, which need not be bound yet.
Value(v) == [ns |-> NONE, def |-> v]

def_fn_of_literal(text) ==
  /\ CanDef
  /\ Bind([Lval("lambda", Loading, FALSE) EXCEPT !.body = Value(Len(lvals) + 1)],
          <<Literal(text)>>)

def_fn(body) ==
  /\ CanDef
  /\ Bind([Lval("lambda", Loading, FALSE) EXCEPT !.body = body], <<>>)

def_partial(fn, arg) ==
  /\ CanDef
  /\ lvals[fn].kind \in {"lambda", "partial"}
  /\ Elements + Len(lvals[fn].elems) < MaxElems
  /\ Bind([Lval("partial", Loading, FALSE) EXCEPT
             !.cfn = IF lvals[fn].kind = "lambda" THEN fn ELSE lvals[fn].cfn,
             !.elems = Append(lvals[fn].elems, arg)], <<>>)

\* A second name for a value: the first one stays its cname.
def_again(v) ==
  /\ CanDef
  /\ lvals' = IF lvals[v].cname THEN lvals
              ELSE [lvals EXCEPT ![v].cname = TRUE, ![v].ns = Loading]
  /\ env' = [env EXCEPT ![Loading] = Append(@, v)]
  /\ UNCHANGED <<loaded, wasm, current, entry, memory>>

file_loaded ==
  /\ loaded < Len(Namespaces)
  /\ loaded' = loaded + 1
  /\ UNCHANGED <<lvals, env, wasm, current, entry, memory>>

----------------------------------------------------------------------------
(***************************************************************************)
(* Interning.  S is what the compiler changes: the values, the module and  *)
(* the pointer to what was just interned.                                  *)
(***************************************************************************)
init_wasm(ns) ==
  [ns |-> ns, data |-> <<>>, lval_offsets |-> <<>>, cell_offsets |-> <<>>,
   pool |-> [t \in Texts |-> 0], string_pool |-> [t \in Texts |-> 0],
   fn_names |-> <<>>, symbol_table |-> {}, deps |-> {}, code |-> {}]

add_to_data(S, item) ==
  [S EXCEPT !.wasm.data = Append(@, item), !.ret = Len(S.wasm.data) + 1]

Slot(kind, d, fn_table_index, partials) ==
  [slot |-> kind, d |-> d, fn_table_index |-> fn_table_index, partials |-> partials]

inter_data_lval(S, item, ptr) ==
  [S EXCEPT !.wasm.data[ptr] = item, !.wasm.lval_offsets = Append(@, ptr), !.ret = ptr]

reserve_data(S) == add_to_data(S, NONE)

add_string_to_data(S, text) ==
  IF S.wasm.string_pool[text] # 0 THEN [S EXCEPT !.ret = S.wasm.string_pool[text]]
  ELSE LET S1 == add_to_data(S, [slot |-> "string", text |-> text])
       IN  [S1 EXCEPT !.wasm.string_pool[text] = S1.ret]

inter_literal(S, v) ==
  LET text == S.lvals[v].text
      S1 == IF text \in Strings THEN add_string_to_data(S, text) ELSE [S EXCEPT !.ret = text]
      S2 == reserve_data(S1)
      S3 == inter_data_lval(S2, Slot(IF text \in Strings THEN "str" ELSE "num",
                                     S1.ret, 0, 0), S2.ret)
  IN  IF S.wasm.pool[text] # 0 THEN [S EXCEPT !.ret = S.wasm.pool[text]]
      ELSE [S3 EXCEPT !.wasm.pool[text] = S3.ret]

\* Every lval knows the namespace it was made in, a built-in has none.
IsExternal(S, v) == S.lvals[v].ns # NONE /\ S.lvals[v].ns # S.wasm.ns
HasGlobal(S, v) == IsExternal(S, v) /\ S.lvals[v].cname

\* Mutant of Cached: a pointer into the data of another module is used.
CachedAnywhere(S, v) == S.lvals[v].lval_ptr > 0
Cached(S, v) == ~IsExternal(S, v) /\ S.lvals[v].lval_ptr > 0

RECURSIVE datafy_lval(_, _)

\* One after the other, and the pointers to them.
datafy_all(S, vs) ==
  FoldLeft(LAMBDA acc, v : LET R == datafy_lval(acc.S, v)
                           IN  [S |-> R, ptrs |-> Append(acc.ptrs, R.ret)],
           [S |-> S, ptrs |-> <<>>], vs)

\* Cells are added from the last one to the first.
inter_list(S, v) ==
  LET all == datafy_all(S, S.lvals[v].elems)
      AddCell(acc, car) ==
        LET R == add_to_data(acc, [slot |-> "cell", car |-> car, cdr |-> acc.ret])
        IN  [R EXCEPT !.wasm.cell_offsets = Append(@, R.ret)]
      cells == FoldLeft(AddCell, [all.S EXCEPT !.ret = 0], Reverse(all.ptrs))
      list == reserve_data(cells)
  IN  inter_data_lval(list, Slot("list", cells.ret, 0, 0), list.ret)

\* What a body refers to: the value that its symbol is bound to now.
Resolved(body) == IF body.ns = NONE THEN body.def ELSE env[body.ns][body.def]

Reference(S, v, ptr) ==
  [v |-> v,
   how |-> IF lvals[v].kind = "sys" THEN "absolute"
           ELSE IF HasGlobal(S, v) THEN "global" ELSE "own",
   ptr |-> ptr]

\* The function of each arity goes into the table before the one that switches.
add_root_fn(S, fn) ==
  LET v == Resolved(S.lvals[fn].body)
      R == datafy_lval(S, v)
      index == Len(R.wasm.fn_names)
  IN  [R EXCEPT !.wasm.code = @ \union {Reference(S, v, R.ret)},
                !.wasm.fn_names = @ \o <<<<fn, "arity">>, <<fn, "fn">>>>,
                !.wasm.symbol_table = @ \union {[name |-> <<fn, "arity">>, ptr |-> -1]},
                !.lvals[fn].fn_table_index = index + 1]

datafy_partials(S, elems) ==
  LET all == datafy_all(S, elems)
  IN  IF elems = <<>> THEN [S EXCEPT !.ret = 0]
      ELSE add_to_data(all.S, [slot |-> "ptrs", ptrs |-> all.ptrs])

\* The place of the function is known before its body is compiled, which may refer
\* to it.  The function of a partial is compiled if it has not been yet.
datafy_root_fn(S, v) ==
  LET S1 == reserve_data(S)
      ptr == S1.ret
      S2 == [S1 EXCEPT !.lvals[v].lval_ptr = ptr]
      fn == IF S.lvals[v].kind = "partial" THEN S.lvals[v].cfn ELSE v
      S3 == IF fn = v \/ S2.lvals[fn].fn_table_index = -1 THEN add_root_fn(S2, fn) ELSE S2
      S4 == datafy_partials(S3, S.lvals[v].elems)
  IN  inter_data_lval(S4, Slot("fn", 0, S3.lvals[fn].fn_table_index, S4.ret), ptr)

datafy_lval(S, v) ==
  LET lval == S.lvals[v]
      adopted == IF IsExternal(S, v) /\ ~lval.cname THEN [S EXCEPT !.lvals[v].ns = S.wasm.ns]
                 ELSE IF HasGlobal(S, v) THEN [S EXCEPT !.wasm.deps = @ \union {v}]
                 ELSE S
      R == IF lval.kind = "sys" THEN [adopted EXCEPT !.ret = SysPtr]
           ELSE IF HasGlobal(S, v) THEN [adopted EXCEPT !.ret = 0]
           ELSE IF lval.kind = "list" THEN inter_list(adopted, v)
           ELSE IF lval.kind = "literal" THEN inter_literal(adopted, v)
           ELSE datafy_root_fn(adopted, v)
      index == IF lval.kind \in {"lambda", "partial"} /\ ~HasGlobal(S, v)
               THEN R.lvals[v].fn_table_index ELSE 0
  IN  IF Cached(S, v) THEN [S EXCEPT !.ret = lval.lval_ptr]
      ELSE [R EXCEPT !.lvals[v].lval_ptr = R.ret, !.lvals[v].fn_table_index = index]

----------------------------------------------------------------------------
(***************************************************************************)
(* Compiling a namespace, a symbol at a time.                              *)
(***************************************************************************)
Refers(body) == body.ns # NONE => body.def <= Len(env[body.ns])

\* A symbol that is not bound ends the compiler: such programs are left out.
AllBound == \A v \in DOMAIN lvals : lvals[v].kind = "lambda" => Refers(lvals[v].body)

start_compile(ns) ==
  /\ loaded = Len(Namespaces)
  /\ AllBound
  /\ current = NONE
  /\ wasm[ns] = NONE
  /\ current' = ns
  /\ entry' = 1
  /\ wasm' = [wasm EXCEPT ![ns] = init_wasm(ns)]
  /\ UNCHANGED <<lvals, env, loaded, memory>>

\* Functions are listed by their cname, other values by the symbol.
\* Mutant of SymbolName: functions too are listed by the symbol.
SymbolNameOfDef(v) == <<v, "symbol">>

IsLambda(v) == lvals[v].kind \in {"lambda", "partial"}
SymbolName(v) == IF IsLambda(v) THEN <<v, "cname">> ELSE <<v, "symbol">>

compile_entry ==
  /\ current # NONE
  /\ entry <= Len(env[current])
  /\ LET v == env[current][entry]
         R == datafy_lval([lvals |-> lvals, wasm |-> wasm[current], ret |-> 0], v)
         line == [name |-> SymbolName(v), ptr |-> R.lvals[v].lval_ptr]
     IN  IF lvals[v].kind = "sys" THEN UNCHANGED <<lvals, wasm>>
         ELSE /\ lvals' = R.lvals
              /\ wasm' = [wasm EXCEPT
                   ![current] = [R.wasm EXCEPT !.symbol_table = @ \union {line}]]
  /\ entry' = entry + 1
  /\ UNCHANGED <<env, loaded, current, memory>>

\* A list goes on into the partials, of its last element; these are reset anyway.
RECURSIVE reset_lval(_, _)
reset_lval(ls, v) ==
  FoldLeft(reset_lval, [ls EXCEPT ![v].lval_ptr = 0, ![v].fn_table_index = 0], ls[v].elems)

end_compile ==
  /\ current # NONE
  /\ entry > Len(env[current])
  /\ lvals' = FoldLeft(reset_lval, lvals, env[current])
  /\ current' = NONE
  /\ entry' = 0
  /\ UNCHANGED <<env, loaded, wasm, memory>>
----------------------------------------------------------------------------
(***************************************************************************)
(* Loading it.                                                             *)
(***************************************************************************)
CompiledAll == loaded = Len(Namespaces) /\ current = NONE /\ \A ns \in Ns : wasm[ns] # NONE

\* The line of the symbol table that a global of another module is linked to.
Line(v) == {line \in wasm[lvals[v].ns].symbol_table : line.name = <<v, "cname">>}
Linked == \A ns \in Ns : \A v \in wasm[ns].deps : Line(v) # {}

Moved(ptr, offset) == IF ptr = 0 THEN 0 ELSE ptr + offset

RewriteLval(data, ptr, ns) ==
  LET partials == data[ptr].partials
      moved == [data EXCEPT
        ![ptr].d = IF data[ptr].slot = "num" THEN @ ELSE Moved(@, DataOffset[ns]),
        ![ptr].fn_table_index = IF data[ptr].slot = "fn" THEN @ + FnTableOffset[ns] ELSE @,
        ![ptr].partials = Moved(@, DataOffset[ns])]
  IN  IF partials = 0 THEN moved
      ELSE [moved EXCEPT ![partials].ptrs = [i \in DOMAIN @ |-> @[i] + DataOffset[ns]]]

RewriteCell(data, ptr, ns) ==
  [data EXCEPT ![ptr].car = Moved(@, DataOffset[ns]), ![ptr].cdr = Moved(@, DataOffset[ns])]

rewrite_pointers(ns) ==
  FoldLeft(LAMBDA data, ptr : RewriteCell(data, ptr, ns),
           FoldLeft(LAMBDA data, ptr : RewriteLval(data, ptr, ns),
                    wasm[ns].data, wasm[ns].lval_offsets),
           wasm[ns].cell_offsets)

instantiate_module(ns) ==
  /\ CompiledAll
  /\ Linked
  /\ memory[ns] = NONE
  /\ memory' = [memory EXCEPT ![ns] = rewrite_pointers(ns)]
  /\ UNCHANGED <<lvals, env, loaded, wasm, current, entry>>

Elems == Texts \union DOMAIN lvals
Lists == UNION {[1 .. n -> Elems] : n \in 0 .. MaxElems}
\* A file may use those that were loaded before it.
Visible == {Namespaces[n] : n \in 1 .. loaded + 1}
Symbols == [ns : Visible, def : 1 .. MaxDefs]

Next ==
  \/ \E text \in Texts : def_literal(text)
  \/ CanDef /\ \E elems \in Lists : def_list(elems)
  \/ \E text \in Texts : def_fn_of_literal(text)
  \/ CanDef /\ \E body \in Symbols \union {Value(Plus)} : def_fn(body)
  \/ \E fn, arg \in DOMAIN lvals : def_partial(fn, arg)
  \/ \E v \in DOMAIN lvals : def_again(v)
  \/ file_loaded
  \/ \E ns \in Ns : start_compile(ns)
  \/ compile_entry
  \/ end_compile
  \/ \E ns \in Ns : instantiate_module(ns)

Spec == Init /\ [][Next]_vars

----------------------------------------------------------------------------
(***************************************************************************)
(* Properties.                                                             *)
(***************************************************************************)
\* What is at an address, once everything is loaded.
At(a) ==
  LET found == {ns \in Ns : a - DataOffset[ns] \in DOMAIN memory[ns]}
  IN  IF found = {} THEN [slot |-> "none"]
      ELSE LET ns == CHOOSE ns \in found : TRUE IN memory[ns][a - DataOffset[ns]]

FnAt(i) ==
  LET found == {ns \in Ns : i - FnTableOffset[ns] + 1 \in DOMAIN wasm[ns].fn_names}
  IN  IF found = {} THEN NONE
      ELSE LET ns == CHOOSE ns \in found : TRUE IN wasm[ns].fn_names[i - FnTableOffset[ns] + 1]

\* The data at an address is the value v that the interpreter has.  Of a partial
\* function these are its arguments.
RECURSIVE Is(_, _), AreCells(_, _)
Is(a, v) ==
  LET lval == lvals[v]
      there == At(a)
  IN  CASE lval.kind = "sys" -> a = SysPtr
        [] lval.kind = "literal" ->
             IF lval.text \in Strings
             THEN there.slot = "str" /\ At(there.d) = [slot |-> "string", text |-> lval.text]
             ELSE there.slot = "num" /\ there.d = lval.text
        [] lval.kind = "list" -> there.slot = "list" /\ AreCells(there.d, lval.elems)
        [] lval.kind = "lambda" ->
             there.slot = "fn" /\ FnAt(there.fn_table_index) = <<v, "fn">> /\ there.partials = 0
        [] OTHER ->
             /\ there.slot = "fn"
             /\ At(there.partials).slot = "ptrs"
             /\ Len(At(there.partials).ptrs) = Len(lval.elems)
             /\ \A i \in DOMAIN lval.elems : Is(At(there.partials).ptrs[i], lval.elems[i])
AreCells(a, elems) ==
  IF elems = <<>> THEN a = 0
  ELSE At(a).slot = "cell" /\ Is(At(a).car, Head(elems)) /\ AreCells(At(a).cdr, Tail(elems))

\* A value none of whose parts is a built-in or has its name in another namespace.
RECURSIVE Plain(_)
Plain(v) ==
  \A i \in DOMAIN lvals[v].elems :
    LET e == lvals[v].elems[i]
    IN  /\ lvals[e].kind # "sys"
        /\ lvals[e].cname => lvals[e].ns = lvals[v].ns
        /\ Plain(e)

LoadedAll == \A ns \in Ns : memory[ns] # NONE
Address(ns, ref) ==
  CASE ref.how = "absolute" -> ref.ptr
    [] ref.how = "own" -> DataOffset[ns] + ref.ptr
    [] OTHER -> DataOffset[lvals[ref.v].ns] + (CHOOSE line \in Line(ref.v) : TRUE).ptr

\* What a compiled function uses is, once all modules are loaded, the value that the
\* interpreter found for it (datafy.c:19, runtime.c:122): every pointer to it and in
\* it was made relative to one module and moved once, by the offset of that module.
PlainValuesLoaded ==
  LoadedAll =>
    \A ns \in Ns : \A ref \in wasm[ns].code : Plain(ref.v) => Is(Address(ns, ref), ref.v)

\* A function of another namespace that a module refers to is in the symbol table of
\* that namespace (special_fns.c:113-115), whichever of them is compiled first.
FunctionsLink ==
  CompiledAll => \A ns \in Ns : \A v \in wasm[ns].deps : IsLambda(v) => Line(v) # {}

\* "Add the canonical fn for this partial if we haven't already" (datafy.c:73): the
\* function that a partial function calls is the one it was made of.
PartialsOfTheirFunction ==
  LoadedAll =>
    \A ns \in Ns : \A ref \in wasm[ns].code :
      lvals[ref.v].kind = "partial" =>
        FnAt(At(Address(ns, ref)).fn_table_index) = <<lvals[ref.v].cfn, "fn">>
=============================================================================
