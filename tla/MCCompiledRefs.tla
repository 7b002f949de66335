--------------------------- MODULE MCCompiledRefs ---------------------------
(* Every program that puts an expression into every place of every form,    *)
(* two levels deep.                                                         *)
EXTENDS CompiledRefs

Sym(x) == <<"symbol", x>>
Lit == <<"literal">>
Call(f, args) == <<"call", Sym(f), args>>
Fn(params, has_rest, body) == <<"fn*", params, has_rest, body>>
Let(x, e, body) == <<"let", <<<<x, e>>>>, body>>

MCRoots == "id"     :> [params |-> <<"a">>, has_rest |-> FALSE, partials |-> 0, body |-> <<Sym("a")>>] @@
           "second" :> [params |-> <<"a", "b">>, has_rest |-> FALSE, partials |-> 0, body |-> <<Sym("b")>>] @@
           "given"  :> [params |-> <<"a", "b">>, has_rest |-> TRUE, partials |-> 1, body |-> <<Sym("a"), Sym("b")>>]

Fresh == Call("list", <<Lit>>)
\* An error, that the code goes on with like with any other value.
Failing == Call("first", <<Lit>>)
Leaves == {Lit, Sym("p"), Sym("x"), Fresh, Failing}

\* Expressions whose values are owned.
IsOwned(e) == e[1] \notin {"literal", "symbol"} /\ ~ (e[1] = "call" /\ e[2] = Sym("partial") /\ e[3][1] = Lit)

\* The forms around an expression.  What is given to first contains no first, the only
\* function with an error for its result: an error that first is given it returns without
\* a reference of its own (ErrorPrograms).
Around(e) ==
  { Call("do", <<e, Sym("p")>>), Call("do", <<Fresh, e>>),
    Let("y", e, <<Sym("y")>>), Let("y", Fresh, <<e>>), Let("y", e, <<Sym("y"), Sym("x")>>), Let("y", e, <<>>),
    <<"let", <<<<"y", Fresh>>, <<"z", e>>>>, <<Call("list", <<Sym("z"), Sym("y")>>)>>>>,
    Call("if", <<e, Sym("x"), Lit>>), Call("if", <<Sym("p"), e>>), Call("if", <<Fresh, Lit, e>>),
    Call("list", <<e, Sym("p")>>), Call("first", <<<<"vector", <<e, Fresh>>>>>>),
    Call("id", <<e>>), Call("second", <<Fresh, e>>), Call("given", <<e>>), Call("given", <<>>),
    Call("given", <<Sym("p"), e>>),
    Call("p", <<e>>), Call("p", <<Fresh, e>>),
    <<"call", Fn(<<"y">>, FALSE, <<Sym("y")>>), <<e>>>>,
    <<"call", Call("partial", <<Sym("second"), e>>), <<Fresh>>>>,
    Call("partial", <<Lit, e>>), Call("partial", <<Sym("second"), e, Lit>>) }
  \cup (IF IsOwned(e) THEN {Let("q", Call("partial", <<Sym("p"), e>>), <<Call("q", <<Sym("x")>>)>>)} ELSE {})
  \cup (IF "x" \notin Uses(e) THEN {Fn(<<>>, FALSE, <<e>>), <<"call", Fn(<<"y">>, TRUE, <<e, Sym("y")>>), <<Sym("x")>>>>} ELSE {})
  \cup (IF "first" \notin Uses(e) THEN {Call("first", <<e>>)} ELSE {})
  \cup {Let("f", Fn(<<>>, FALSE, <<e>>), <<Call("f", <<>>)>>)}

Nested(E) == UNION {Around(e) : e \in E}

MCPrograms == {Let("x", Fresh, <<e>>) : e \in Nested(Leaves) \cup Nested(Nested({Sym("x"), Fresh, Failing}))}

\* A partial function of the argument of main and of a variable of a let,
\* which is its result.
PartialPrograms == {Let("x", Fresh, <<Call("partial", <<Sym("p"), Sym("x")>>)>>)}

\* An error that is given to first.
ErrorPrograms == {Let("x", Fresh, <<Call("first", <<Failing>>)>>)}
=============================================================================
