---------------------------- MODULE CompiledRefs ----------------------------
(* The references that compiled code holds.  A compiled function keeps its  *)
(* temporaries in wasm locals and gives back by hand what it owns: every    *)
(* compile_* function tells by is_fn_call whether the value its code leaves *)
(* is owned by whoever gets it, and the others retain, track and release    *)
(* accordingly.  The first half of this module is the compiler: each        *)
(* operator returns the code of an expression as a sequence of              *)
(* instructions of a stack machine, together with is_fn_call and the next   *)
(* free local.  The second half runs that code over a heap of counted       *)
(* objects, one instruction a step.                                         *)
(* Expressions are <<"literal">>, <<"symbol", name>>, <<"vector", args>>,   *)
(* <<"let", bindings, body>>, <<"fn*", params, has_rest, body>> and         *)
(* <<"call", head, args>>.  Expressions for which the compiler quits are    *)
(* not among Programs.                                                      *)
EXTENDS Integers, SequencesExt

CONSTANTS Roots,     \* functions of the namespace by name: [params, has_rest, partials, body]
          Programs   \* the bodies of main, a function of one parameter, "p"

ASSUME RootsAssumption ==
  \A f \in DOMAIN Roots : /\ DOMAIN Roots[f] = {"params", "has_rest", "partials", "body"}
                          /\ Roots[f].partials \in Nat

SysFns == {"list", "first"}

-----------------------------------------------------------------------------
(* Addresses.  The data section holds a literal, nil, and for each root     *)
(* function its value and the block of its partials; all are made with a    *)
(* count of 1.  Behind it is the list that may be the argument of main.     *)

NULL == 0
Literal == 1
Nil == 2
RootNames == SetToSeq(DOMAIN Roots)
RootAddress(f) == 1 + 2 * CHOOSE i \in DOMAIN RootNames : RootNames[i] = f
DataEnd == 2 + 2 * Len(RootNames)
ArgumentList == DataEnd + 1

Object(kind, kids, held) ==
  [kind |-> kind, count |-> 1, lost |-> 0, kids |-> kids, held |-> held, fn |-> <<>>]

DataSection ==
  <<Object("number", <<>>, <<>>), Object("nil", <<>>, <<>>)>> \o
  FlattenSeq([i \in DOMAIN RootNames |->
    << [Object("lambda", <<>>, <<NULL, 2 + 2 * i>>) EXCEPT !.fn = <<"root", RootNames[i]>>],
       Object("partials", <<>>, [k \in 1 .. Roots[RootNames[i]].partials |-> Literal]) >>])

-----------------------------------------------------------------------------
(* The compiler.                                                            *)

RECURSIVE lval_compile(_, _, _), Statements(_, _, _, _), compile_list(_, _, _),
          Bind(_, _, _, _), Operands(_, _, _, _, _, _), compile_args_into_block(_, _, _, _, _), Uses(_)

CResult(code, is_fn_call, next) == [code |-> code, is_fn_call |-> is_fn_call, next |-> next]

UsesOf(exprs) == UNION {Uses(exprs[i]) : i \in DOMAIN exprs}

\* The symbols of an expression.
Uses(e) ==
  CASE e[1] = "literal" -> {}
    [] e[1] = "symbol"  -> {e[2]}
    [] e[1] = "vector"  -> UsesOf(e[2])
    [] e[1] = "let"     -> UsesOf([i \in DOMAIN e[2] |-> e[2][i][2]]) \cup
                           (UsesOf(e[3]) \ {e[2][i][1] : i \in DOMAIN e[2]})
    [] e[1] = "fn*"     -> UsesOf(e[4]) \ Range(e[2])
    [] e[1] = "call"    -> Uses(e[2]) \cup UsesOf(e[3])

\* The value, retained unless it is owned already.
Retained(r) == IF r.is_fn_call THEN r.code ELSE Append(r.code, <<"retain">>)

Untracked(r, li) == [code |-> r.code, li |-> li, next |-> r.next]

\* An owned value is kept in a tracked local as well.
Tracked(r, li) ==
  IF r.is_fn_call THEN [code |-> Append(r.code, <<"tee", r.next>>), li |-> Append(li, r.next), next |-> r.next + 1]
                  ELSE [code |-> r.code, li |-> li, next |-> r.next]

li_release(li) == FlattenSeq([i \in DOMAIN li |-> <<<<"get", li[i]>>, <<"release">>>>])

li_release_before_result(li, result, n) ==
  CResult(IF li = <<>> THEN result ELSE li_release(li) \o result, TRUE, n)

li_result_with_release(li, result, n) ==
  IF li = <<>>
  THEN CResult(result, TRUE, n)
  ELSE CResult(result \o <<<<"set", n>>>> \o li_release(li) \o <<<<"get", n>>>>, TRUE, n + 1)

compile_lval_ref(env, x) == <<env[x]>>

\* The body of a do, a let or a function: all values but the last are
\* dropped, the owned ones through a tracked local.
Statements(exprs, env, n, li) ==
  IF exprs = <<>>
  THEN [before |-> <<>>, result |-> <<<<"const", Nil>>, <<"retain">>>>, li |-> li, next |-> n]
  ELSE LET r == lval_compile(Head(exprs), env, n) IN
    IF Len(exprs) = 1
    THEN [before |-> <<>>, result |-> Retained(r), li |-> li, next |-> r.next]
    ELSE LET rest == IF r.is_fn_call
                     THEN Statements(Tail(exprs), env, r.next + 1, Append(li, r.next))
                     ELSE Statements(Tail(exprs), env, r.next, li)
         IN [rest EXCEPT !.before = r.code \o (IF r.is_fn_call THEN <<<<"set", r.next>>>> ELSE <<<<"drop">>>>) \o @]

Body(body) == [li_result_with_release(body.li, body.result, body.next) EXCEPT !.code = body.before \o @]

compile_do_list(exprs, env, n) == Body(Statements(exprs, env, n, <<>>))

AfterBindingUncounted(n) == n

AfterBinding(n) == n + 1

\* The bindings of a let, one after the other.
Bind(bindings, env, n, li) ==
  IF bindings = <<>>
  THEN [code |-> <<>>, env |-> env, li |-> li, next |-> n]
  ELSE LET r == lval_compile(bindings[1][2], env, n)
           rest == Bind(Tail(bindings), (bindings[1][1] :> <<"get", r.next>>) @@ env, AfterBinding(r.next),
                        IF r.is_fn_call THEN Append(li, r.next) ELSE li)
       IN [rest EXCEPT !.code = r.code \o <<<<"set", r.next>>>> \o @]

BodyAfter(bound, exprs) ==
  [Body(Statements(exprs, bound.env, bound.next, bound.li)) EXCEPT !.code = bound.code \o @]

compile_let(bindings, exprs, env, n) == BodyAfter(Bind(bindings, env, n, <<>>), exprs)

compile_if(args, env, n) ==
  LET cond == Tracked(lval_compile(args[1], env, n), <<>>)
      then == lval_compile(args[2], env, cond.next)
      else == IF Len(args) = 3 THEN lval_compile(args[3], env, then.next)
                               ELSE CResult(<<<<"const", Nil>>>>, FALSE, then.next)
      branch == Append(cond.code, <<"if", Retained(then), Retained(else)>>)
  IN li_result_with_release(cond.li, branch, else.next)

\* A chain of cells that owns its elements.
compile_list(args, env, n) ==
  IF args = <<>>
  THEN CResult(<<<<"const", NULL>>>>, FALSE, n)
  ELSE LET r == lval_compile(Head(args), env, n)
           rest == compile_list(Tail(args), env, r.next)
       IN CResult(Retained(r) \o rest.code \o <<<<"new_cell">>>>, FALSE, rest.next)

compile_vector(args, env, n) ==
  LET list == compile_list(args, env, n)
  IN CResult(Append(list.code, <<"new_lval", "vector">>), TRUE, list.next)

compile_sys_call(f, args, env, n) ==
  LET list == compile_list(args, env, n)
      call == list.code \o <<<<"new_lval", "list">>, <<"tee", list.next>>, <<"sys", f>>>>
  IN li_result_with_release(<<list.next>>, call, list.next + 1)

-----------------------------------------------------------------------------
(* Calls of a root function by its name: operands, the rest of them in a    *)
(* list that owns its elements.                                             *)

MinParams(f) == Len(Roots[f].params) - (IF Roots[f].has_rest THEN 1 ELSE 0)

RestList(count) ==
  <<<<"const", NULL>>>> \o [i \in 1 .. count |-> <<"new_cell">>] \o <<<<"new_lval", "list">>>>

\* What a function with a rest parameter gets for it, count values long.
RestOperand(f, count, n, li) ==
  CASE ~ Roots[f].has_rest -> [code |-> <<>>, li |-> li, next |-> n]
    [] Roots[f].has_rest /\ count = 0 -> [code |-> <<<<"const", Nil>>>>, li |-> li, next |-> n]
    [] OTHER -> Tracked(CResult(RestList(count), TRUE, n), li)

\* The arguments from position p on.
Operands(f, args, p, env, n, li) ==
  IF args = <<>>
  THEN RestOperand(f, p - 1 - MinParams(f), n, li)
  ELSE LET r == lval_compile(Head(args), env, n)
           arg == IF p <= MinParams(f) THEN Tracked(r, li)
                                       ELSE [code |-> Retained(r), li |-> li, next |-> r.next]
           rest == Operands(f, Tail(args), p + 1, env, arg.next, arg.li)
       IN [rest EXCEPT !.code = arg.code \o @]

\* The partials of the function as it is known to the compiler.
Partials(f) ==
  FlattenSeq([p \in 1 .. Roots[f].partials |->
                IF p <= MinParams(f) THEN <<<<"const", Literal>>>> ELSE <<<<"const", Literal>>, <<"retain">>>>])

compile_args_into_operands(f, args, env, n) ==
  [Operands(f, args, Roots[f].partials + 1, env, n, <<>>) EXCEPT !.code = Partials(f) \o @]

\* The result of a call goes into a local, then the tracked arguments go.
ResultOfCall(args, call, after) ==
  CResult(args.code \o call \o <<<<"set", args.next>>>> \o li_release(args.li) \o after \o <<<<"get", args.next>>>>,
          TRUE, args.next + 1)

apply_by_name(f, args, env, n) ==
  ResultOfCall(compile_args_into_operands(f, args, env, n), <<<<"call", f>>>>, <<>>)

(* Calls by reference: the arguments go into a block, behind the partials   *)
(* of the function value in local wval.                                     *)

compile_args_into_block(args, block, env, n, li) ==
  IF args = <<>>
  THEN [code |-> <<>>, li |-> li, next |-> n]
  ELSE LET arg == Tracked(lval_compile(Head(args), env, n), li)
           rest == compile_args_into_block(Tail(args), block, env, arg.next, arg.li)
       IN [rest EXCEPT !.code = arg.code \o <<<<"store", block>>>> \o @]

\* The locals from n on are the block, the function, the counts, the size, and
\* the place of the arguments, if there are any.
call_fn_by_ref(wval, args, env, n) ==
  LET block == [compile_args_into_block(args, n, env, n + (IF args = <<>> THEN 5 ELSE 6), <<>>)
                EXCEPT !.code = wval \o <<<<"set", n + 1>>, <<"args_block", n + 1, n>>>> \o @]
  IN ResultOfCall(block, <<<<"call_indirect", n + 1, n>>>>, <<<<"get", n>>, <<"release">>>>)

\* ((f ...) args): the function is the result of a call, and released.
CallOfResult(fn, args, env) ==
  [call_fn_by_ref(<<<<"get", fn.next>>>>, args, env, fn.next + 2)
   EXCEPT !.code = fn.code \o <<<<"set", fn.next>>>> \o @ \o
                   <<<<"set", fn.next + 1>>, <<"get", fn.next>>, <<"release">>, <<"get", fn.next + 1>>>>]

compile_as_fn_call(head, args, env, n) == CallOfResult(lval_compile(head, env, n), args, env)

-----------------------------------------------------------------------------
(* Function values.  A local function gets a block with what it closes      *)
(* over; its code finds the function value in local 0, the block of         *)
(* arguments in local 1 and puts its parameters into locals from 3 on.      *)

args_into_locals(params, has_rest) ==
  FlattenSeq([i \in DOMAIN params |->
    << IF has_rest /\ i = Len(params) THEN <<"listify", i>> ELSE <<"arg", i>>, <<"set", 2 + i>> >>])

compile_local_lambda(params, has_rest, exprs, env, n) ==
  LET closed == SetToSeq((UsesOf(exprs) \ ToSet(params)) \cap DOMAIN env)
      inner == [x \in ToSet(params) |-> <<"get", 2 + CHOOSE i \in DOMAIN params : params[i] = x>>] @@
               [x \in ToSet(closed) |-> <<"closed", CHOOSE i \in DOMAIN closed : closed[i] = x>>]
      body == compile_do_list(exprs, inner, 3 + Len(params))
      fn == <<"local", Len(params), has_rest, args_into_locals(params, has_rest) \o body.code>>
      stores == FlattenSeq([i \in DOMAIN closed |-> compile_lval_ref(env, closed[i]) \o <<<<"store", n>>>>])
  IN CResult(<<<<"lalloc", "closure">>, <<"set", n>>>> \o stores \o
             <<<<"get", n>>, <<"const", NULL>>, <<"make_lambda", fn>>>>, TRUE, n + 1)

RECURSIVE PartialArgs(_, _, _, _), UnretainedArgs(_, _, _, _), SideEffects(_, _, _)

\* The result of wasm_retain is not used: nothing is retained.
UnretainedArgs(args, partials, env, n) ==
  IF args = <<>>
  THEN CResult(<<>>, FALSE, n)
  ELSE LET r == lval_compile(Head(args), env, n)
           rest == UnretainedArgs(Tail(args), partials, env, r.next)
       IN CResult(r.code \o <<<<"store", partials>>>> \o rest.code, FALSE, rest.next)

\* Values that are not owned are retained: the function value is to own them.
PartialArgs(args, partials, env, n) ==
  IF args = <<>>
  THEN CResult(<<>>, FALSE, n)
  ELSE LET r == lval_compile(Head(args), env, n)
           rest == PartialArgs(Tail(args), partials, env, r.next)
       IN CResult(Retained(r) \o <<<<"store", partials>>>> \o rest.code, FALSE, rest.next)

\* Only arguments that are owned are run, and released.
SideEffects(args, env, n) ==
  IF args = <<>>
  THEN CResult(<<>>, FALSE, n)
  ELSE LET r == lval_compile(Head(args), env, n)
           rest == SideEffects(Tail(args), env, r.next)
       IN CResult((IF r.is_fn_call THEN Append(r.code, <<"release">>) ELSE <<>>) \o rest.code, FALSE, rest.next)

\* Locals: the function, its count, the new count, the new block, the place
\* behind the old partials.
compile_rt_partial_call(fn, args, env) ==
  LET wval == fn.next
      block == fn.next + 3
      rest == UnretainedArgs(args, block, env, fn.next + 5)
  IN CResult(fn.code \o <<<<"set", wval>>, <<"copy_and_retain", wval, block>>>> \o rest.code \o
             <<<<"closure_of", wval>>, <<"retain">>, <<"get", block>>, <<"make_lambda", <<"same", wval>>>>>>,
             TRUE, rest.next)

compile_partial_of_root(f, args, env, n) ==
  LET given == FlattenSeq([k \in 1 .. Roots[f].partials |->
                             <<<<"const", Literal>>, <<"retain">>, <<"store", n>>>>])
      rest == PartialArgs(args, n, env, n + 1)
  IN CResult(<<<<"lalloc", "partials">>, <<"set", n>>>> \o given \o rest.code \o
             <<<<"const", NULL>>, <<"get", n>>, <<"make_lambda", <<"root", f>>>>>>, TRUE, rest.next)

IsRoot(e, env) == e[1] = "symbol" /\ e[2] \in DOMAIN Roots \ DOMAIN env
IsRef(e, env) == e[1] = "symbol" /\ e[2] \in DOMAIN env

compile_partial_call(args, env, n) ==
  LET fn == lval_compile(args[1], env, n)
      rest == SideEffects(Tail(args), env, fn.next)
  IN CASE Len(args) = 1                              -> fn
       [] Len(args) > 1 /\ (fn.is_fn_call \/ IsRef(args[1], env))
                                                     -> compile_rt_partial_call(fn, Tail(args), env)
       [] Len(args) > 1 /\ IsRoot(args[1], env)      -> compile_partial_of_root(args[1][2], Tail(args), env, n)
       [] OTHER                                      -> CResult(rest.code \o fn.code, FALSE, rest.next)

compile_application(head, args, env, n) ==
  LET x == head[2] IN
  CASE head[1] # "symbol"                  -> compile_as_fn_call(head, args, env, n)
    [] IsRef(head, env)                    -> call_fn_by_ref(compile_lval_ref(env, x), args, env, n)
    [] IsRoot(head, env)                   -> apply_by_name(x, args, env, n)
    [] x = "do" /\ ~ IsRef(head, env)      -> compile_do_list(args, env, n)
    [] x = "if" /\ ~ IsRef(head, env)      -> compile_if(args, env, n)
    [] x = "partial" /\ ~ IsRef(head, env) -> compile_partial_call(args, env, n)
    [] x \in SysFns /\ ~ IsRef(head, env)  -> compile_sys_call(x, args, env, n)

lval_compile(e, env, n) ==
  CASE e[1] = "literal" -> CResult(<<<<"const", Literal>>>>, FALSE, n)
    [] e[1] = "vector"  -> compile_vector(e[2], env, n)
    [] e[1] = "let"     -> compile_let(e[2], e[3], env, n)
    [] e[1] = "fn*"     -> compile_local_lambda(e[2], e[3], e[4], env, n)
    [] e[1] = "call"    -> compile_application(e[2], e[3], env, n)
    [] IsRef(e, env)    -> CResult(compile_lval_ref(env, e[2]), FALSE, n)
    [] IsRoot(e, env)   -> CResult(<<<<"const", RootAddress(e[2])>>>>, FALSE, n)

\* A root function takes its parameters as wasm parameters.
add_wasm_function(f) ==
  LET params == Roots[f].params
      env == [x \in ToSet(params) |-> <<"get", (CHOOSE i \in DOMAIN params : params[i] = x) - 1>>]
  IN compile_do_list(Roots[f].body, env, Len(params)).code

\* Called by reference it is called through a function that loads them.
make_fn_call_operands(f) ==
  [i \in DOMAIN Roots[f].params |->
     IF Roots[f].has_rest /\ i = Len(Roots[f].params) THEN <<"listify", i>> ELSE <<"arg", i>>] \o <<<<"call", f>>>>

-----------------------------------------------------------------------------
(* The run.  frames is the call stack, the running function first; the      *)
(* stack of a frame holds its operands, the last pushed first.  lost counts *)
(* the references to an object that nothing will give back.                 *)

VARIABLES heap, frames, result

vars == <<heap, frames, result>>

Running == 0       \* values of result that are no address of an object
Trapped == -1

Live(a) == heap[a].count > 0

Retain(h, a) == IF a = NULL THEN h ELSE [h EXCEPT ![a].count = @ + 1]

RECURSIVE Release(_, _)

Release(h, a) ==
  CASE a = NULL         -> h
    [] a # NULL /\ h[a].count > 1 -> [h EXCEPT ![a].count = @ - 1]
    [] OTHER -> FoldLeft(Release, [h EXCEPT ![a] = [Object("free", <<>>, <<>>) EXCEPT !.count = 0]], h[a].kids)

Frame(code, locals) == [code |-> code, locals |-> locals, stack |-> <<>>]

Init ==
  \E body \in Programs, argument \in {ArgumentList, Nil} \cup {RootAddress(f) : f \in DOMAIN Roots} :
    /\ heap = DataSection \o << Object("list", <<ArgumentList + 1>>, <<>>),
                                Object("cell", <<ArgumentList + 2, NULL>>, <<>>),
                                Object("number", <<>>, <<>>) >>
    /\ frames = << Frame(compile_do_list(<<body>>, "p" :> <<"get", 0>>, 1).code, 0 :> argument) >>
    /\ result = Running

frame == frames[1]
Op(name) == frames # <<>> /\ frame.code # <<>> /\ frame.code[1][1] = name
Arg(i) == frame.code[1][1 + i]
Popped(k) == SubSeq(frame.stack, k + 1, Len(frame.stack))

\* The running frame goes on with code, stack and locals.
Go(code, stack, locals) ==
  /\ frames' = [frames EXCEPT ![1] = [code |-> code, stack |-> stack, locals |-> locals]]
  /\ UNCHANGED result

Leave(stack) == Go(Tail(frame.code), stack, frame.locals)
Push(a, k) == Leave(<<a>> \o Popped(k))
\* Locals begin as 0.
Local(i) == IF i \in DOMAIN frame.locals THEN frame.locals[i] ELSE NULL
SetLocal(i, a) == (i :> a) @@ frame.locals

\* A new object, on the stack in the place of its k operands.
Make(h, object, k) ==
  /\ heap' = Append(h, object)
  /\ Push(Len(h) + 1, k)

ClosureOf(object) == IF object.kind = "lambda" THEN object.held[1] ELSE NULL

\* What is in the block of partials of a function value.
PartialsOf(h, w) == IF h[w].kind = "lambda" /\ h[w].held[2] # NULL THEN h[h[w].held[2]].held ELSE <<>>

Lose(h, a) == IF a = NULL THEN h ELSE [h EXCEPT ![a].lost = @ + 1]

RECURSIVE Elements(_, _)

Elements(h, cell) == IF cell = NULL THEN <<>> ELSE <<h[cell].kids[1]>> \o Elements(h, h[cell].kids[2])

\* Wasm instructions.
const == Op("const") /\ Push(Arg(1), 0) /\ UNCHANGED heap
local_get == Op("get") /\ Push(Local(Arg(1)), 0) /\ UNCHANGED heap
local_set == Op("set") /\ Go(Tail(frame.code), Popped(1), SetLocal(Arg(1), frame.stack[1])) /\ UNCHANGED heap
local_tee == Op("tee") /\ Go(Tail(frame.code), frame.stack, SetLocal(Arg(1), frame.stack[1])) /\ UNCHANGED heap
drop == Op("drop") /\ Leave(Popped(1)) /\ UNCHANGED heap

\* nil is the only value the programs have that is not true.
if ==
  /\ Op("if")
  /\ Go((IF heap[frame.stack[1]].kind = "nil" THEN Arg(2) ELSE Arg(1)) \o Tail(frame.code), Popped(1), frame.locals)
  /\ UNCHANGED heap

store ==
  /\ Op("store")
  /\ heap' = [heap EXCEPT ![frame.locals[Arg(1)]].held = Append(@, frame.stack[1])]
  /\ Leave(Popped(1))

closed == Op("closed") /\ Push(heap[heap[frame.locals[0]].held[1]].held[Arg(1)], 0) /\ UNCHANGED heap
arg == Op("arg") /\ Push(heap[frame.locals[1]].held[Arg(1)], 0) /\ UNCHANGED heap
closure_of == Op("closure_of") /\ Push(ClosureOf(heap[frame.locals[Arg(1)]]), 0) /\ UNCHANGED heap

\* Functions of the runtime.
retain == Op("retain") /\ heap' = Retain(heap, frame.stack[1]) /\ Leave(frame.stack)
release == Op("release") /\ heap' = Release(heap, frame.stack[1]) /\ Leave(Popped(1))
new_cell == Op("new_cell") /\ Make(heap, Object("cell", <<frame.stack[2], frame.stack[1]>>, <<>>), 2)
new_lval == Op("new_lval") /\ Make(heap, Object(Arg(1), <<frame.stack[1]>>, <<>>), 1)
lalloc_size == Op("lalloc") /\ Make(heap, Object(Arg(1), <<>>, <<>>), 0)

\* A block of arguments begins with the partials of the function.
args_block ==
  /\ Op("args_block")
  /\ heap' = Append(heap, Object("args", <<>>, PartialsOf(heap, frame.locals[Arg(1)])))
  /\ Go(Tail(frame.code), frame.stack, SetLocal(Arg(2), Len(heap) + 1))

copy_and_retain ==
  /\ Op("copy_and_retain")
  /\ LET partials == PartialsOf(heap, frame.locals[Arg(1)])
     IN heap' = Append(FoldLeft(Retain, heap, partials), Object("partials", <<>>, partials))
  /\ Go(Tail(frame.code), frame.stack, SetLocal(Arg(2), Len(heap) + 1))

\* The function value takes over the references to its blocks and, when it
\* is destroyed, gives back neither.
make_lval_wasm_lambda ==
  /\ Op("make_lambda")
  /\ LET fn == IF Arg(1)[1] = "same" THEN heap[frame.locals[Arg(1)[2]]].fn ELSE Arg(1)
         blocks == <<frame.stack[2], frame.stack[1]>>
     IN Make(FoldLeft(Lose, heap, blocks), [Object("lambda", <<>>, blocks) EXCEPT !.fn = fn], 2)

\* list_cons retains the head it is given, and nobody releases the list.
listify_args ==
  /\ Op("listify")
  /\ LET rest == SubSeq(heap[frame.locals[1]].held, Arg(1), Len(heap[frame.locals[1]].held))
         h == FoldLeft(Retain, heap, rest)
         Cell(k) == [Object("cell", <<rest[Len(rest) + 1 - k], IF k = 1 THEN NULL ELSE Len(heap) + k - 1>>, <<>>)
                     EXCEPT !.count = IF k = Len(rest) THEN 1 ELSE 2, !.lost = IF k = Len(rest) THEN 0 ELSE 1]
         cells == h \o [k \in DOMAIN rest |-> Cell(k)]
     IN Make(cells, [Object(IF rest = <<>> THEN "nil" ELSE "list", IF rest = <<>> THEN <<>> ELSE <<Len(cells)>>, <<>>)
                     EXCEPT !.lost = 1], 0)

\* (list ...) makes cells of its own, (first x) retains what it returns; an
\* error it is given it returns as it is, without a reference of its own.
list_fn ==
  /\ Op("sys") /\ Arg(1) = "list"
  /\ LET args == Elements(heap, heap[frame.stack[1]].kids[1])
         n == Len(args)
         h == FoldLeft(Retain, heap, args) \o
              [k \in 1 .. n |-> Object("cell", <<args[n + 1 - k], IF k = 1 THEN NULL ELSE Len(heap) + k - 1>>, <<>>)]
     IN Make(h, Object("list", <<IF n = 0 THEN NULL ELSE Len(h)>>, <<>>), 1)

first_fn ==
  /\ Op("sys") /\ Arg(1) = "first"
  /\ LET x == heap[heap[frame.stack[1]].kids[1]].kids[1]
         head == heap[x].kids[1]
     IN CASE heap[x].kind = "error" -> Push(x, 1) /\ UNCHANGED heap
          [] heap[x].kind = "nil"   -> Push(x, 1) /\ heap' = Retain(heap, x)
          [] heap[x].kind \in {"list", "vector"} ->
               IF head = NULL THEN Make(heap, Object("nil", <<>>, <<>>), 1)
               ELSE Push(heap[head].kids[1], 1) /\ heap' = Retain(heap, heap[head].kids[1])
          [] OTHER -> Make(heap, Object("error", <<>>, <<>>), 1)

call ==
  /\ Op("call")
  /\ LET k == Len(Roots[Arg(1)].params)
         locals == [i \in 0 .. k - 1 |-> frame.stack[k - i]]
     IN frames' = << Frame(add_wasm_function(Arg(1)), locals),
                     [frame EXCEPT !.code = Tail(@), !.stack = Popped(k)] >> \o Tail(frames)
  /\ UNCHANGED <<heap, result>>

\* The function of a function value switches on the number of arguments.
Callable(fn, count) ==
  CASE fn = <<>>        -> FALSE
    [] fn # <<>> /\ fn[1] = "root"  -> count = Len(Roots[fn[2]].params) \/ (Roots[fn[2]].has_rest /\ count >= MinParams(fn[2]))
    [] OTHER            -> count = fn[2] \/ (fn[3] /\ count >= fn[2] - 1)

call_indirect ==
  /\ Op("call_indirect")
  /\ LET w == frame.locals[Arg(1)]
         block == frame.locals[Arg(2)]
         fn == heap[w].fn
         code == IF fn[1] = "root" THEN make_fn_call_operands(fn[2]) ELSE fn[4]
     IN /\ Callable(fn, Len(heap[block].held))
        /\ frames' = << Frame(code, 0 :> w @@ 1 :> block @@ 2 :> NULL), [frame EXCEPT !.code = Tail(@)] >> \o Tail(frames)
  /\ UNCHANGED <<heap, result>>

\* Not a function, or not with so many arguments: the runtime throws.
runtime_error ==
  /\ Op("call_indirect")
  /\ ~ Callable(heap[frame.locals[Arg(1)]].fn, Len(heap[frame.locals[Arg(2)]].held))
  /\ frames' = <<>>
  /\ result' = Trapped
  /\ UNCHANGED heap

return ==
  /\ frames # <<>> /\ frame.code = <<>>
  /\ IF Len(frames) = 1
     THEN frames' = <<>> /\ result' = frame.stack[1]
     ELSE /\ frames' = [Tail(frames) EXCEPT ![1].stack = <<frame.stack[1]>> \o @]
          /\ UNCHANGED result
  /\ UNCHANGED heap

Next ==
  \/ const \/ local_get \/ local_set \/ local_tee \/ drop \/ if \/ store \/ closed \/ arg \/ closure_of
  \/ retain \/ release \/ new_cell \/ new_lval \/ lalloc_size \/ args_block \/ copy_and_retain
  \/ make_lval_wasm_lambda \/ listify_args \/ list_fn \/ first_fn \/ call \/ call_indirect
  \/ runtime_error \/ return

Spec == Init /\ [][Next]_vars

-----------------------------------------------------------------------------
(* Properties.                                                              *)

Objects == DOMAIN heap

\* The references to a that are due to objects: those in lists and cells,
\* and those in the blocks of partials made at run time.
References(seq, a) == Cardinality({i \in DOMAIN seq : seq[i] = a})
HeldBy(o) == heap[o].kids \o (IF heap[o].kind = "partials" /\ o > DataEnd THEN heap[o].held ELSE <<>>)
ReferencesTo(a) == FoldLeft(LAMBDA n, o : n + References(HeldBy(o), a), 0, [o \in Objects |-> o])

\* The data section and the caller's list are referred to from outside.
Outside(a) == IF a <= ArgumentList THEN 1 ELSE 0

\* The arguments given to a partial function live as long as it does: "we
\* want to be able to release all partials when the fn is released"
\* (compile_partial.c:164).
PartialsHeld ==
  \A o \in Objects : Live(o) /\ heap[o].kind = "lambda" =>
    \A a \in ToSet(PartialsOf(heap, o)) : Live(a)

\* Nothing that compiled code still uses was given back: no operand of a
\* function on the call stack, no element of a live list, no argument that a
\* function value was given in advance, and no value of the data section,
\* whose counts change like all others (the releases that compile_fn_call.c,
\* compile.c and compile_special.c put into the code), for programs in which
\* errors are not given to first, which returns them unretained, nor borrowed
\* values to partial at run time, which does not retain them (PartialsHeld).
NothingDangles ==
  /\ PartialsHeld
  /\ \A a \in 1 .. DataEnd : Live(a)
  /\ \A i \in DOMAIN frames : \A a \in ToSet(frames[i].stack) : a = NULL \/ Live(a)
  /\ \A o \in Objects : Live(o) => \A a \in ToSet(heap[o].kids) : a = NULL \/ Live(a)

\* When main returns, each object has as many references as there are lists,
\* blocks of partials and the result to account for them: everything owned
\* was released once, nothing borrowed was, whatever the expression.  What
\* function values and lists of rest arguments never give back is in lost.
Balanced ==
  result > 0 => \A a \in Objects : Live(a) =>
    heap[a].count = Outside(a) + ReferencesTo(a) + heap[a].lost + (IF result = a THEN 1 ELSE 0)

\* No two temporaries share a local: nothing is written to a local that was
\* written in this activation (local_count of the function context).
LocalsWrittenOnce ==
  frames # <<>> /\ frame.code # <<>> /\ frame.code[1][1] \in {"set", "tee"} => Arg(1) \notin DOMAIN frame.locals
=============================================================================
