------------------------------ MODULE EvalRefs ------------------------------
(* The references that the evaluator holds.  eval.c and special_fns.c walk  *)
(* the text of a program, lists of counted cells, with iterators that count *)
(* nothing; every value they make or look up is owned by one C variable at  *)
(* a time, and scoped variables give back what they hold at their end.      *)
(* This module runs load() over a file, one piece of C code between two     *)
(* calls of lval_eval a step: frames is the C stack, and each frame says    *)
(* what its variables own and what they merely point to.                    *)
(* Forms are <<kind, name>> and <<"list", forms>>, <<"vector", forms>>.     *)
EXTENDS Integers, SequencesExt

CONSTANT Forms   \* a sequence of sets: what the forms of the file may be, one after the other

NULL == 0

SpecialFns == <<"quote", "quasiquote", "def", "if", "fn*", "macro", "try", "throw", "do", "let">>
SysFns == <<"cons", "first", "list", "rest", "concat", "count", "nth", "partial", "apply", "eval">>

-----------------------------------------------------------------------------
(* The heap: a sequence of objects, by address.  kids are the counted       *)
(* references an object gives back when it goes, lost the references to it  *)
(* that nothing will give back.                                             *)
(*   list, vector  <<head>>           cell    <<car, cdr>>                  *)
(*   env           <<kv, parent_env>> Lambda  <<params, body>>              *)
(*   fn, macro     <<partials, closure>>                                    *)

Object(kind, name, kids) ==
  [kind |-> kind, name |-> name, kids |-> kids, count |-> 1, lost |-> 0, partials |-> NULL, lambda |-> NULL]

Live(h, a) == h[a].count > 0
Retain(h, a) == IF a = NULL THEN h ELSE [h EXCEPT ![a].count = @ + 1]
Lose(h, a) == IF a = NULL THEN h ELSE [h EXCEPT ![a].lost = @ + 1]

RECURSIVE Release(_, _), Items(_, _), Read(_, _), Find(_, _, _), Lookup(_, _, _), LastCell(_, _)

Release(h, a) ==
  CASE a = NULL                   -> h
    [] a # NULL /\ h[a].count > 1 -> [h EXCEPT ![a].count = @ - 1]
    [] OTHER -> FoldLeft(Release, [h EXCEPT ![a] = [Object("free", "", <<>>) EXCEPT !.count = 0]], h[a].kids)

\* What the cells from cell on hold.
Items(h, cell) == IF cell = NULL THEN <<>> ELSE <<h[cell].kids[1]>> \o Items(h, h[cell].kids[2])

LastCell(h, cell) ==
  IF cell = NULL \/ h[cell].kids[2] = NULL THEN cell ELSE LastCell(h, h[cell].kids[2])

IsList(o) == o.kind \in {"list", "vector"}

\* New cells for items, which they take over, in front of tail.
Cells(h, items, tail) ==
  h \o [k \in DOMAIN items |-> Object("cell", "", <<items[Len(items) + 1 - k], IF k = 1 THEN tail ELSE Len(h) + k - 1>>)]
Chain(h, items, tail) ==
  [heap |-> Cells(h, items, tail), head |-> IF items = <<>> THEN tail ELSE Len(h) + Len(items)]

\* A new list of items, which are retained.
ListOf(h, items) ==
  LET c == Chain(FoldLeft(Retain, h, items), items, NULL) IN Append(c.heap, Object("list", "", <<c.head>>))

\* read_expr makes objects of a form; the last one is its value.
Read(h, form) ==
  IF ~ IsList([kind |-> form[1]])
  THEN Append(h, Object(form[1], form[2], <<>>))
  ELSE LET part == FoldLeft(LAMBDA p, x : LET r == Read(p.heap, x) IN [heap |-> r, items |-> Append(p.items, Len(r))],
                            [heap |-> h, items |-> <<>>], form[2])
           c == Chain(part.heap, part.items, NULL)
       IN Append(c.heap, Object(form[1], "", <<c.head>>))

list_concat_in_place(h, list1, list2) ==
  CASE list1 = NULL                   -> [heap |-> Retain(h, list2), head |-> list2]
    [] list1 # NULL /\ list2 = NULL   -> [heap |-> Retain(h, list1), head |-> list1]
    [] list1 # NULL /\ list2 # NULL   ->
         [heap |-> [Retain(Retain(h, list2), list1) EXCEPT ![LastCell(h, list1)].kids[2] = list2], head |-> list1]

\* Copies list1 in front of list2, which is shared.
list_concat(h, list1, list2) ==
  CASE list1 = NULL                   -> [heap |-> Retain(h, list2), head |-> list2]
    [] list1 # NULL /\ list2 = NULL   -> [heap |-> Retain(h, list1), head |-> list1]
    [] list1 # NULL /\ list2 # NULL   -> Chain(Retain(FoldLeft(Retain, h, Items(h, list1)), list2), Items(h, list1), list2)

-----------------------------------------------------------------------------
(* Environments: an association list and a parent.  The builtins are found  *)
(* behind the last parent.                                                  *)

NsEnv == 1
Builtins == SysFns \o SpecialFns
BuiltinAddress(name) == 1 + CHOOSE i \in DOMAIN Builtins : Builtins[i] = name
LastBuiltin == 1 + Len(Builtins)

\* The pair of a symbol in an association list.
Find(h, kv, name) ==
  IF kv = NULL THEN NULL
  ELSE IF h[h[h[kv].kids[1]].kids[1]].name = name THEN h[kv].kids[1] ELSE Find(h, h[kv].kids[2], name)

\* lenv_get and the builtins behind it: a value, or NULL.
Lookup(h, env, name) ==
  LET pair == Find(h, h[env].kids[1], name) IN
  CASE pair # NULL -> h[pair].kids[2]
    [] pair = NULL /\ h[env].kids[2] # NULL -> Lookup(h, h[env].kids[2], name)
    [] OTHER -> IF name \in ToSet(Builtins) THEN BuiltinAddress(name) ELSE NULL

\* A pair in front of kv; key, value and kv are taken over.
alist_prepend(h, kv, key, value) ==
  LET new == h \o << Object("cell", "", <<key, value>>), Object("cell", "", <<Len(h) + 1, kv>>) >>
  IN [heap |-> new, kv |-> Len(new)]

lenv_put(h, env, sym, value) ==
  LET pair == Find(h, h[env].kids[1], h[sym].name)
      new == alist_prepend(Retain(Retain(h, sym), value), h[env].kids[1], sym, value)
  IN IF pair # NULL
     THEN Release([Retain(h, value) EXCEPT ![pair].kids[2] = value], h[pair].kids[2])
     ELSE [new.heap EXCEPT ![env].kids[1] = new.kv]

\* A new environment with one more pair; env is given back.
lenv_prepend(h, env, sym, value) ==
  LET new == alist_prepend(Retain(h, h[env].kids[1]), h[env].kids[1], sym, value)
      all == Append(Retain(new.heap, h[env].kids[2]), Object("env", "", <<new.kv, h[env].kids[2]>>))
  IN [heap |-> Release(all, env), env |-> Len(all)]

-----------------------------------------------------------------------------
(* The C stack, the running function first.  A frame owns what its scoped   *)
(* and local variables give back; env, i (the iterator: the next cell), x   *)
(* and as are borrowed or plain.  value is what was returned to the frame   *)
(* on top, or NULL while it runs by itself.  todo forms are left to read.   *)

VARIABLES heap, frames, value, todo

vars == <<heap, frames, value, todo>>

F(at, env, i, own) == [at |-> at, env |-> env, i |-> i, own |-> own, x |-> NULL, as |-> ""]
Eval(env, x) == F("lval_eval", env, x, <<>>)
Do(env, cell) == F("do", env, cell, <<>>)
Scope(own) == F("scope", NULL, NULL, own)

top == frames[1]
below == Tail(frames)
Runs(label) == frames # <<>> /\ value = NULL /\ top.at = label
Returned(label) == frames # <<>> /\ value # NULL /\ top.at = label
IsError(a) == heap[a].kind = "error"

Go(h, stack, v) == heap' = h /\ frames' = stack /\ value' = v /\ UNCHANGED todo
Return(h, v) == Go(FoldLeft(Release, h, top.own), below, v)

\* A new value is returned.
Make(h, object) == LET all == Append(h, object) IN Return(all, Len(all))
Error == Object("error", "", <<>>)
NilValue == Object("nil", "", <<>>)

Args == Items(heap, top.i)

\* Whatever waits for a value with nothing left to do but to give back what
\* its variables own.
return == Returned("scope") /\ Return(heap, value)

Init ==
  /\ heap = <<Object("env", "", <<NULL, NULL>>)>> \o
            [i \in DOMAIN Builtins |-> Object(IF i <= Len(SysFns) THEN "sys" ELSE "special", Builtins[i], <<>>)]
  /\ frames = <<F("load", NsEnv, NULL, <<>>)>>
  /\ value = NULL
  /\ todo = Len(Forms)

-----------------------------------------------------------------------------
(* load: the form is held while it is evaluated, the last result until the  *)
(* next form was read.  x is set once there was an error.                   *)

read_expr ==
  /\ Runs("load") /\ todo > 0
  /\ \E form \in Forms[Len(Forms) + 1 - todo] : LET h == Read(FoldLeft(Release, heap, top.own), form) IN
        /\ heap' = h
        /\ frames' = <<Eval(NsEnv, Len(h)), [top EXCEPT !.own = <<>>, !.i = Len(h)]>>
  /\ todo' = todo - 1
  /\ UNCHANGED value

evalled_expr ==
  /\ Returned("load")
  /\ Go(Release(heap, top.i),
        <<[top EXCEPT !.own = <<value>>, !.i = NULL, !.as = IF IsError(value) THEN "error" ELSE @]>>, NULL)

\* After an error the last result is forgotten.
end_load ==
  /\ Runs("load") /\ todo = 0
  /\ LET h == Append(FoldLeft(Lose, heap, top.own), Error)
         nil == Append(heap, NilValue)
     IN CASE top.as = "error"                     -> Go(h, <<>>, Len(h))
          [] top.as # "error" /\ top.own # <<>>   -> Go(heap, <<>>, top.own[1])
          [] OTHER                                -> Go(nil, <<>>, Len(nil))

-----------------------------------------------------------------------------
(* lval_eval.                                                               *)

Evaluated == heap[top.i]

eval_value_unretained ==
  /\ Runs("lval_eval")
  /\ ~ IsList(Evaluated) /\ Evaluated.kind # "symbol"
  /\ Return(heap, top.i)

\* Maps are left out: they are returned like this, but not retained.
eval_value ==
  /\ Runs("lval_eval")
  /\ ~ IsList(Evaluated) /\ Evaluated.kind # "symbol"
  /\ Return(Retain(heap, top.i), top.i)

eval_symbol ==
  /\ Runs("lval_eval") /\ Evaluated.kind = "symbol"
  /\ LET found == Lookup(heap, top.env, Evaluated.name)
     IN IF found = NULL THEN Make(heap, Error) ELSE Return(Retain(heap, found), found)

\* A list under construction is owned; x is the object whose last field
\* takes the next cell.
MapEval(h, kind, env, cell) ==
  [heap |-> Append(h, Object(kind, "", <<NULL>>)),
   frame |-> [F("map_eval", env, cell, <<Len(h) + 1>>) EXCEPT !.x = Len(h) + 1]]

Store(h, at, cell) == [h EXCEPT ![at].kids[Len(h[at].kids)] = cell]

\* a goes into a new cell at the end of the list.
Add(h, a, fr) ==
  LET all == Append(h, Object("cell", "", <<a, NULL>>))
  IN [heap |-> Store(all, fr.x, Len(all)), frame |-> [fr EXCEPT !.x = Len(all)]]

eval_vector ==
  /\ Runs("lval_eval") /\ Evaluated.kind = "vector"
  /\ LET m == MapEval(heap, "vector", top.env, Evaluated.kids[1]) IN Go(m.heap, <<m.frame>> \o below, NULL)

map_eval ==
  /\ Runs("map_eval")
  /\ IF top.i = NULL
     THEN Go(heap, below, top.own[1])
     ELSE Go(heap, <<Eval(top.env, heap[top.i].kids[1]), [top EXCEPT !.i = heap[top.i].kids[2]]>> \o below, NULL)

map_evalled_unreleased ==
  /\ Returned("map_eval")
  /\ LET added == Add(heap, value, top)
     IN IF IsError(value) THEN Go(heap, below, value) ELSE Go(added.heap, <<added.frame>> \o below, NULL)

map_evalled ==
  /\ Returned("map_eval")
  /\ LET added == Add(heap, value, top)
     IN IF IsError(value) THEN Return(heap, value) ELSE Go(added.heap, <<added.frame>> \o below, NULL)

\* All values but the last are given back.
do_list ==
  /\ Runs("do")
  /\ IF top.i = NULL
     THEN Make(heap, NilValue)
     ELSE Go(heap, <<Eval(top.env, heap[top.i].kids[1]), [top EXCEPT !.i = heap[top.i].kids[2]]>> \o below, NULL)

did_one ==
  /\ Returned("do")
  /\ IF top.i = NULL \/ IsError(value) THEN Return(heap, value) ELSE Go(Release(heap, value), frames, NULL)

-----------------------------------------------------------------------------
(* eval_application.                                                        *)

eval_application ==
  /\ Runs("lval_eval") /\ Evaluated.kind = "list"
  /\ LET cell == Evaluated.kids[1]
     IN IF cell = NULL
        THEN Make(heap, Object("list", "", <<NULL>>))
        ELSE Go(heap, <<Eval(top.env, heap[cell].kids[1]), [top EXCEPT !.at = "head"]>> \o below, NULL)

rest_list(h, items) == IF items = <<>> THEN Append(h, NilValue) ELSE ListOf(h, items)

Bound(h, params, args) ==
  FoldLeft(LAMBDA b, k : alist_prepend(Retain(Retain(b.heap, params[k]), args[k]), b.kv, params[k], args[k]),
           [heap |-> h, kv |-> NULL], [k \in DOMAIN args |-> k])

\* The call of a function with the values in the cells from args on: what
\* is put on the stack.  The list of partials and arguments is walked to its
\* end with the variable that was to give it back.
eval_lambda_call(h, fn, args, stack) ==
  LET lambda == h[h[fn].lambda]
      params == Items(h, h[lambda.kids[1]].kids[1])
      all == list_concat(h, h[fn].partials, args)
      values == Items(all.heap, all.head)
      bound == Bound(Lose(all.heap, all.head), params, SubSeq(values, 1, lambda.name.min))
      rest == rest_list(bound.heap, SubSeq(values, lambda.name.min + 1, Len(values)))
      with_rest == IF lambda.name.rest
                   THEN alist_prepend(Retain(rest, params[lambda.name.min + 2]), bound.kv, params[lambda.name.min + 2], Len(rest))
                   ELSE bound
      bindings_env == Append(Retain(with_rest.heap, h[fn].kids[2]), Object("env", "", <<with_rest.kv, h[fn].kids[2]>>))
      env == Len(bindings_env)
      count == Len(Items(h, h[fn].partials)) + Len(Items(h, args))
      error == Append(h, Error)
  IN IF count = lambda.name.min \/ (lambda.name.rest /\ count > lambda.name.min)
     THEN Go(bindings_env, <<Do(env, bindings_env[lambda.kids[2]].kids[1]), Scope(<<env>>)>> \o stack, NULL)
     ELSE Go(error, stack, Len(error))

\* The head is a value: a special form gets its arguments as they are, the
\* expansion of a macro is evaluated where the macro was called.
evalled_head ==
  /\ Returned("head")
  /\ LET rest == heap[heap[top.i].kids[1]].kids[2]
         list == Append(Retain(heap, rest), Object("list", "", <<rest>>))
         held == <<value, Len(list)>>
         args == MapEval(list, "list", top.env, rest)
         error == Append(Release(heap, value), Error)
     IN CASE heap[value].kind = "error"         -> Return(heap, value)
          [] heap[value].kind = "special"       ->
               Go(list, <<F(heap[value].name, top.env, rest, <<>>), Scope(held)>> \o below, NULL)
          [] heap[value].kind = "macro"         ->
               eval_lambda_call(list, value, rest, <<F("expand", top.env, NULL, <<>>), Scope(held)>> \o below)
          [] heap[value].kind \in {"sys", "fn"} ->
               Go(args.heap, <<args.frame, F("args", top.env, NULL, held)>> \o below, NULL)
          [] OTHER                              -> Go(error, below, Len(error))

eval_macro_call ==
  /\ Returned("expand")
  /\ IF IsError(value) THEN Return(heap, value)
     ELSE Go(heap, <<Eval(top.env, value), Scope(<<value>>)>> \o below, NULL)

call_lambda ==
  /\ Returned("args") /\ ~ IsError(value) /\ heap[top.own[1]].kind = "fn"
  /\ eval_lambda_call(heap, top.own[1], heap[value].kids[1], <<Scope(<<value>> \o top.own)>> \o below)

argument_error == Returned("args") /\ IsError(value) /\ Return(heap, value)

\* A builtin gets a list of its own of its partials and the arguments, and
\* the list it was made from is walked to its end as well.
call_sys ==
  /\ Returned("args") /\ ~ IsError(value) /\ heap[top.own[1]].kind = "sys"
  /\ LET f == heap[top.own[1]]
         all == list_concat(heap, f.partials, heap[value].kids[1])
         rest_arg == ListOf(Lose(all.heap, all.head), Items(all.heap, all.head))
     IN Go(rest_arg, <<F(f.name, top.env, rest_arg[Len(rest_arg)].kids[1], <<>>),
                       Scope(<<Len(rest_arg), value>> \o top.own)>> \o below, NULL)

-----------------------------------------------------------------------------
(* Builtins: list_fns.c, and those of misc_fns.c that evaluate.  i is the   *)
(* first cell of the arguments.                                             *)

IsCollection(a) == IsList(heap[a])
HeadOf(a) == IF IsCollection(a) THEN heap[a].kids[1] ELSE NULL

list_fn == Runs("list") /\ Return(ListOf(heap, Args), Len(ListOf(heap, Args)))

\* The list that was to be the result stays behind when the second argument
\* is no collection.
cons_fn ==
  /\ Runs("cons")
  /\ IF Len(Args) # 2 THEN Make(heap, Error)
     ELSE IF ~ IsCollection(Args[2]) /\ heap[Args[2]].kind # "nil"
     THEN Make(Append(heap, [Object("list", "", <<NULL>>) EXCEPT !.lost = 1]), Error)
     ELSE LET c == Chain(Retain(Retain(heap, Args[1]), HeadOf(Args[2])), <<Args[1]>>, HeadOf(Args[2]))
          IN Make(c.heap, Object("list", "", <<c.head>>))

first_fn ==
  /\ Runs("first")
  /\ LET head == HeadOf(Args[1]) IN
     CASE Len(Args) # 1                -> Make(heap, Error)
       [] Len(Args) = 1 /\ heap[Args[1]].kind = "nil" -> Return(Retain(heap, Args[1]), Args[1])
       [] Len(Args) = 1 /\ IsCollection(Args[1]) ->
            IF head = NULL THEN Make(heap, NilValue) ELSE Return(Retain(heap, heap[head].kids[1]), heap[head].kids[1])
       [] OTHER                        -> Make(heap, Error)

rest_fn ==
  /\ Runs("rest")
  /\ LET head == HeadOf(Args[1])
         cdr == IF head = NULL THEN NULL ELSE heap[head].kids[2]
     IN IF Len(Args) # 1 \/ ~ IsCollection(Args[1]) THEN Make(heap, Error)
        ELSE Make(Retain(heap, cdr), Object("list", "", <<cdr>>))

concat_fn ==
  /\ Runs("concat")
  /\ LET both == list_concat(heap, HeadOf(Args[1]), HeadOf(Args[2])) IN
     IF Len(Args) # 2 \/ \E k \in DOMAIN Args : heap[Args[k]].kind # "list" THEN Make(heap, Error)
     ELSE Make(both.heap, Object("list", "", <<both.head>>))

count_fn ==
  /\ Runs("count")
  /\ IF Len(Args) # 1 \/ ~ (IsCollection(Args[1]) \/ heap[Args[1]].kind = "nil") THEN Make(heap, Error)
     ELSE Make(heap, Object("number", Len(Items(heap, HeadOf(Args[1]))), <<>>))

nth_fn ==
  /\ Runs("nth")
  /\ LET items == Items(heap, HeadOf(Args[1]))
         n == heap[Args[2]].name
     IN IF Len(Args) # 2 \/ ~ IsCollection(Args[1]) \/ heap[Args[2]].kind # "number" \/ n \notin 0 .. Len(items) - 1
        THEN Make(heap, Error)
        ELSE Return(Retain(heap, items[n + 1]), items[n + 1])

\* The partials share the cells of the argument list.  The destructor of a
\* builtin does not know of partials.
partial_fn ==
  /\ Runs("partial")
  /\ LET f == heap[Args[1]]
         all == list_concat(heap, f.partials, heap[top.i].kids[2])
         closure == f.kids[2]
     IN CASE Args = <<>> \/ f.kind \in {"macro", "special"} -> Make(heap, Error)
          [] Args # <<>> /\ f.kind = "sys" ->
               Make(Lose(all.heap, all.head), [Object("sys", f.name, <<>>) EXCEPT !.partials = all.head])
          [] Args # <<>> /\ f.kind = "fn"  ->
               Make(Retain(all.heap, closure),
                    [Object("fn", f.name, <<all.head, closure>>) EXCEPT !.partials = all.head, !.lambda = f.lambda])
          [] OTHER -> Return(Retain(heap, Args[1]), Args[1])

\* The list of arguments it makes is given to the function and to nobody
\* after it.  A builtin has no lambda to call: Forms has no such call.
apply_fn ==
  /\ Runs("apply")
  /\ LET last == Args[Len(Args)]
         given == SubSeq(Args, 2, Len(Args) - 1)
         args == ListOf(heap, given \o Items(heap, HeadOf(last)))
         lost == Lose(args, Len(args))
     IN CASE Len(Args) < 2 \/ heap[Args[1]].kind \notin {"fn", "sys"} -> Make(heap, Error)
          [] Len(Args) >= 2 /\ heap[last].kind \notin {"list", "nil"} ->
               Make(Lose(ListOf(heap, given), Len(ListOf(heap, given))), Error)
          [] OTHER -> eval_lambda_call(lost, Args[1], args[Len(args)].kids[1], below)

eval_fn ==
  /\ Runs("eval")
  /\ IF Len(Args) # 1 THEN Make(heap, Error) ELSE Go(heap, <<Eval(top.env, Args[1])>> \o below, NULL)

-----------------------------------------------------------------------------
(* Special forms.  Their frames stand for special_fns.c; the one below      *)
(* gives back the function and the list of arguments.                       *)

Sym(a) == heap[a].kind = "symbol"
Rest(cell) == heap[cell].kids[2]

eval_quote == Runs("quote") /\ (IF Len(Args) # 1 THEN Make(heap, Error) ELSE Return(Retain(heap, Args[1]), Args[1]))

eval_throw == Runs("throw") /\ Make(heap, Error)

\* Whether there are too few or too many arguments is seen after the condition;
\* nil stands for all that is not true.
eval_if ==
  /\ Runs("if")
  /\ IF Args = <<>> THEN Make(heap, Error)
     ELSE Go(heap, <<Eval(top.env, Args[1]), [top EXCEPT !.at = "branch"]>> \o below, NULL)

eval_branch ==
  /\ Returned("branch")
  /\ LET k == IF heap[value].kind = "nil" THEN 3 ELSE 2
         h == Release(heap, value)
     IN CASE IsError(value)               -> Return(heap, value)
          [] ~ IsError(value) /\ Len(Args) \notin {2, 3} -> Go(Append(h, Error), below, Len(h) + 1)
          [] ~ IsError(value) /\ Len(Args) \in {2, 3} /\ k > Len(Args) -> Go(Append(h, NilValue), below, Len(h) + 1)
          [] OTHER -> Go(heap, <<Eval(top.env, Args[k]), Scope(<<value>>)>> \o below, NULL)

\* (def) without a symbol is not among Forms: it reads a null pointer.
\* A symbol that is defined for the first time is there before its value:
\* as unbound, an object that is retained and never given back.
unbound(h, sym) ==
  LET new == Append(h, [Object("unbound", "", <<>>) EXCEPT !.lost = 1]) IN lenv_put(new, NsEnv, sym, Len(new))

eval_def ==
  /\ Runs("def")
  /\ LET sym == Args[1]
         h == IF Lookup(heap, NsEnv, heap[sym].name) = NULL THEN unbound(heap, sym) ELSE heap
     IN CASE ~ Sym(sym) -> Make(heap, Error)
          [] Sym(sym) /\ Len(Args) = 1 -> Make(h, NilValue)
          [] Sym(sym) /\ Len(Args) = 2 -> Go(h, <<Eval(top.env, Args[2]), [top EXCEPT !.at = "defined", !.x = sym]>> \o below, NULL)
          [] OTHER -> Make(h, Error)

evalled_def ==
  /\ Returned("defined")
  /\ IF IsError(value) THEN Return(heap, value)
     ELSE Make(Release(lenv_put(heap, NsEnv, top.x, value), value), NilValue)

\* A function shares its parameters and its body with the form it is made
\* of.  A Lambda is referred to by a table that does not count.
eval_lambda_form(h, form) ==
  LET params == h[h[form].kids[1]].kids[1]
      body == h[h[form].kids[1]].kids[2]
      all == Append(Retain(Retain(h, params), body), Object("list", "", <<body>>))
      names == Items(h, h[params].kids[1])
      rest == \E k \in DOMAIN names : h[names[k]].name = "&"
  IN Append(all, [Object("Lambda", [min |-> Len(names) - (IF rest THEN 2 ELSE 0), rest |-> rest], <<params, Len(all)>>)
                  EXCEPT !.lost = 1])

\* With a name in front, the function is in its own closure.
eval_lambdas(kind) ==
  LET named == Sym(Args[1])
      form == IF named THEN Args[2] ELSE Args[1]
      lambda == eval_lambda_form(heap, form)
      h == Append(Retain(lambda, top.env), [Object(kind, "", <<NULL, top.env>>) EXCEPT !.lambda = Len(lambda)])
      fn == Len(h)
      closed == lenv_prepend(Retain(Retain(h, Args[1]), fn), top.env, Args[1], fn)
  IN IF named THEN Return([closed.heap EXCEPT ![fn].kids[2] = closed.env], fn) ELSE Return(h, fn)

eval_lambda == Runs("fn*") /\ (IF Args = <<>> THEN Make(heap, Error) ELSE eval_lambdas("fn"))
eval_macro == Runs("macro") /\ (IF Args = <<>> THEN Make(heap, Error) ELSE eval_lambdas("macro"))

\* let: a new environment for every binding, which gives back the one before.
\* x is the first cell of the body.
eval_let ==
  /\ Runs("let")
  /\ LET h == Append(Retain(heap, top.env), Object("env", "", <<NULL, top.env>>))
         env == Len(h)
     IN IF Args = <<>> \/ heap[Args[1]].kind # "vector" \/ Len(Items(heap, heap[Args[1]].kids[1])) % 2 = 1
        THEN Make(heap, Error)
        ELSE Go(h, <<[F("bind", env, heap[Args[1]].kids[1], <<env>>) EXCEPT !.x = Rest(top.i)]>> \o below, NULL)

eval_binding ==
  /\ Runs("bind")
  /\ LET body == Append(Retain(heap, top.x), Object("list", "", <<top.x>>)) IN
     CASE top.i = NULL -> Go(body, <<Do(top.env, top.x), Scope(<<top.env, Len(body)>>)>> \o below, NULL)
       [] top.i # NULL /\ ~ Sym(heap[top.i].kids[1]) -> Make(heap, Error)
       [] OTHER -> Go(heap, <<Eval(top.env, heap[Rest(top.i)].kids[1])>> \o frames, NULL)

evalled_binding ==
  /\ Returned("bind")
  /\ LET sym == heap[top.i].kids[1]
         new == lenv_prepend(Retain(heap, sym), top.env, sym, value)
     IN IF IsError(value) THEN Return(heap, value)
        ELSE Go(new.heap, <<[top EXCEPT !.env = new.env, !.own = <<new.env>>, !.i = Rest(Rest(top.i))]>> \o below, NULL)

-----------------------------------------------------------------------------
(* quasiquote.  as tells the frame what to do with the value it waits for.  *)

IsFnCall(a, name, count) ==
  LET items == Items(heap, heap[a].kids[1])
  IN heap[a].kind = "list" /\ Len(items) >= count /\ Sym(items[1]) /\ heap[items[1]].name = name
Second(a) == Items(heap, heap[a].kids[1])[2]
TakesOne(a) == Len(Items(heap, heap[a].kids[1])) = 2

Nodes(h, a, env) ==
  LET m == MapEval(h, h[a].kind, env, h[a].kids[1]) IN [m EXCEPT !.frame.at = "quasiquote_nodes"]

eval_quasiquote ==
  /\ Runs("quasiquote")
  /\ LET arg == Args[1]
         nodes == Nodes(heap, arg, top.env)
     IN IF Len(Args) # 1 THEN Make(heap, Error)
        ELSE CASE ~ IsCollection(arg) -> Return(Retain(heap, arg), arg)
               [] IsFnCall(arg, "unquote", 2) ->
                    IF TakesOne(arg) THEN Go(heap, <<Eval(top.env, Second(arg))>> \o below, NULL) ELSE Make(heap, Error)
               [] IsFnCall(arg, "splice-unquote", 2) -> Make(heap, Error)
               [] OTHER -> Go(nodes.heap, <<nodes.frame>> \o below, NULL)

eval_quasiquote_nodes ==
  /\ Runs("quasiquote_nodes")
  /\ LET arg == heap[top.i].kids[1]
         next == [top EXCEPT !.i = Rest(top.i)]
         nodes == Nodes(heap, arg, top.env)
         kept == Add(Retain(heap, arg), arg, next)
         Unquotes(name) == Go(heap, <<Eval(top.env, Second(arg)), [next EXCEPT !.as = name]>> \o below, NULL)
     IN IF top.i = NULL THEN Go(heap, below, top.own[1])
        ELSE CASE ~ IsCollection(arg) -> Go(kept.heap, <<kept.frame>> \o below, NULL)
               [] IsFnCall(arg, "unquote", 2) \/ IsFnCall(arg, "splice-unquote", 2) ->
                    IF TakesOne(arg) THEN Unquotes(heap[heap[heap[arg].kids[1]].kids[1]].name) ELSE Make(heap, Error)
               [] OTHER -> Go(nodes.heap, <<nodes.frame, [next EXCEPT !.as = "unquote"]>> \o below, NULL)

\* The cells of a spliced list are shared.  The list is given back before its
\* last cell is looked up in it: when nobody else has it, there is none, and
\* what followed would be written through a null pointer.
evalled_node ==
  /\ Returned("quasiquote_nodes")
  /\ LET added == Add(heap, value, top)
         head == HeadOf(value)
         spliced == Release(Store(Retain(heap, head), top.x, head), value)
         last == IF Live(spliced, value) THEN LastCell(spliced, head) ELSE NULL
         kind == heap[value].kind
     IN CASE kind = "error" -> Return(heap, value)
          [] kind # "error" /\ top.as = "unquote" -> Go(added.heap, <<added.frame>> \o below, NULL)
          [] top.as = "splice-unquote" /\ kind \in {"list", "vector", "nil"} ->
               Go(spliced, <<[top EXCEPT !.x = last]>> \o below, NULL)
          [] OTHER -> Make(Lose(heap, value), Error)

-----------------------------------------------------------------------------
(* try.  as is the state of its little state machine, own the value so far. *)

Node == heap[top.i].kids[1]
NextNode == [top EXCEPT !.i = Rest(top.i)]
Failed == IsError(top.own[1])

eval_try ==
  /\ Runs("try")
  /\ LET h == Append(heap, Object("list", "", <<NULL>>))
     IN Go(h, <<[top EXCEPT !.at = "clauses", !.as = "EXPR", !.own = <<Len(h)>>]>> \o below, NULL)

end_try == Runs("clauses") /\ top.i = NULL /\ Go(heap, below, top.own[1])

\* An expression: after an error it is skipped.
try_expr ==
  /\ Runs("clauses") /\ top.i # NULL /\ top.as = "EXPR"
  /\ ~ IsFnCall(Node, "catch", 1) /\ ~ IsFnCall(Node, "finally", 1)
  /\ IF Failed THEN Go(heap, <<NextNode>> \o below, NULL)
     ELSE Go(Release(heap, top.own[1]), <<Eval(top.env, Node), [NextNode EXCEPT !.own = <<>>]>> \o below, NULL)

\* The symbol is looked up by list_nth, which retains it; a new environment
\* binds it to the message.
try_catch ==
  /\ Runs("clauses") /\ top.i # NULL /\ top.as = "EXPR" /\ IsFnCall(Node, "catch", 1)
  /\ LET clause == Items(heap, heap[Node].kids[1])
         body == Rest(Rest(Rest(heap[Node].kids[1])))
         bound == alist_prepend(Append(Retain(heap, clause[3]), Object("string", "", <<>>)), NULL, clause[3], Len(heap) + 1)
         catch_env == Append(Retain(bound.heap, top.env), Object("env", "", <<bound.kv, top.env>>))
         catch_body == Append(Retain(catch_env, body), Object("list", "", <<body>>))
     IN CASE ~ Failed -> Go(heap, <<[NextNode EXCEPT !.as = "CATCH"]>> \o below, NULL)
          [] Failed /\ (Len(clause) < 4 \/ ~ Sym(clause[3])) -> Make(heap, Error)
          [] OTHER -> Go(Release(catch_body, top.own[1]),
                         <<Do(Len(catch_env), body), Scope(<<Len(catch_env), Len(catch_body)>>),
                           [NextNode EXCEPT !.as = "CATCH", !.own = <<>>]>> \o below, NULL)

\* The value of a finally is given back, unless it is an error.
try_finally ==
  /\ Runs("clauses") /\ top.i # NULL /\ top.as # "FINALLY" /\ IsFnCall(Node, "finally", 1)
  /\ LET rest == Rest(heap[Node].kids[1])
         body == Append(Retain(heap, rest), Object("list", "", <<rest>>))
     IN Go(body, <<Do(top.env, rest), Scope(<<Len(body)>>), [NextNode EXCEPT !.as = "FINALLY"]>> \o below, NULL)

bad_clause ==
  /\ Runs("clauses") /\ top.i # NULL
  /\ top.as = "FINALLY" \/ (top.as = "CATCH" /\ ~ IsFnCall(Node, "catch", 1) /\ ~ IsFnCall(Node, "finally", 1))
  /\ Make(heap, Error)

ignored_catch ==
  /\ Runs("clauses") /\ top.i # NULL /\ top.as = "CATCH" /\ IsFnCall(Node, "catch", 1)
  /\ Go(heap, <<NextNode>> \o below, NULL)

\* What an expression or a catch returns is the value of the try so far.
evalled_clause ==
  /\ Returned("clauses")
  /\ CASE top.as = "EXPR"    -> Go(heap, <<[top EXCEPT !.own = <<value>>]>> \o below, NULL)
       [] top.as = "CATCH"   -> IF IsError(value) THEN Return(heap, value)
                                ELSE Go(heap, <<[top EXCEPT !.own = <<value>>]>> \o below, NULL)
       [] top.as = "FINALLY" -> IF IsError(value) THEN Return(heap, value)
                                ELSE Go(Release(heap, value), <<top>> \o below, NULL)

Next ==
  \/ read_expr \/ evalled_expr \/ end_load \/ return
  \/ eval_value \/ eval_symbol \/ eval_vector \/ map_eval \/ map_evalled \/ do_list \/ did_one
  \/ eval_application \/ evalled_head \/ eval_macro_call \/ call_lambda \/ argument_error \/ call_sys
  \/ list_fn \/ cons_fn \/ first_fn \/ rest_fn \/ concat_fn \/ count_fn \/ nth_fn
  \/ partial_fn \/ apply_fn \/ eval_fn
  \/ eval_quote \/ eval_throw \/ eval_if \/ eval_branch \/ eval_def \/ evalled_def
  \/ eval_lambda \/ eval_macro \/ eval_let \/ eval_binding \/ evalled_binding
  \/ eval_quasiquote \/ eval_quasiquote_nodes \/ evalled_node
  \/ eval_try \/ end_try \/ try_expr \/ try_catch \/ try_finally \/ bad_clause \/ ignored_catch \/ evalled_clause

Spec == Init /\ [][Next]_vars

-----------------------------------------------------------------------------
(* Properties.                                                              *)

\* Whatever the evaluator still reads is there: the list that an iterator
\* stands in, the environment, the function that runs, even one that defines
\* itself anew; and whatever a live object refers to (the releases of eval.c
\* and special_fns.c against the iterators of iter.c, which retain nothing).
NothingDangles ==
  /\ \A k \in DOMAIN frames :
       \A a \in {frames[k].env, frames[k].i, frames[k].x} \cup ToSet(frames[k].own) : a = NULL \/ Live(heap, a)
  /\ value = NULL \/ Live(heap, value)
  /\ \A o \in DOMAIN heap : \A a \in ToSet(heap[o].kids) : a = NULL \/ Live(heap, a)

\* Between two forms every object is referred to as often as it is counted:
\* by other objects, by load for the last result, by the namespace, and by
\* the references that were lost.
Referring(a, k) == Cardinality({o \in DOMAIN heap : k \in DOMAIN heap[o].kids /\ heap[o].kids[k] = a})
Held(a) == IF value = a \/ (frames # <<>> /\ a \in ToSet(top.own)) THEN 1 ELSE 0
CountsExact ==
  frames = <<>> \/ Runs("load") =>
    \A a \in DOMAIN heap : Live(heap, a) =>
      heap[a].count = Referring(a, 1) + Referring(a, 2) + Held(a) + heap[a].lost + (IF a <= LastBuiltin THEN 1 ELSE 0)

\* A list never changes once it was made: the cells that lists share are
\* written only by the function that makes them.
Made(h, stack) ==
  {a \in DOMAIN h : Live(h, a) /\ IsList(h[a])} \
  UNION {ToSet(fr.own) : fr \in {f \in ToSet(stack) : f.at \in {"map_eval", "quasiquote_nodes"}}}
ListsNeverChange ==
  [][\A a \in Made(heap, frames) :
       Live(heap', a) => Items(heap', heap'[a].kids[1]) = Items(heap, heap[a].kids[1])]_vars
=============================================================================
