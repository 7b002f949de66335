----------------------------- MODULE MCEvalRefs -----------------------------
(* Files that define a value, a function and a macro, and then put every    *)
(* expression into every place of every form.                               *)
EXTENDS EvalRefs

S(x) == <<"symbol", x>>
N(n) == <<"number", n>>
L(items) == <<"list", items>>
V(items) == <<"vector", items>>
Call(f, args) == L(<<S(f)>> \o args)
Fn(params, body) == Call("fn*", <<L(<<V(params)>> \o body)>>)
Def(x, e) == Call("def", <<S(x), e>>)
Let(x, e, body) == Call("let", <<V(<<S(x), e>>)>> \o body)
Quote(e) == Call("quote", <<e>>)
Qq(e) == Call("quasiquote", <<e>>)
Unquote(e) == Call("unquote", <<e>>)
Splice(e) == Call("splice-unquote", <<e>>)
Throw == Call("throw", <<<<"string", "">>>>)

\* A list, a function that defines itself anew while it runs, one with a
\* rest parameter, and a macro.
Prelude ==
  << Def("c", Quote(L(<<N(1), N(2)>>))),
     Def("d", Call("concat", <<S("c"), Quote(L(<<N(3)>>))>>)),
     Def("again", Fn(<<S("a")>>, <<Def("again", Fn(<<S("b")>>, <<S("b"), S("c")>>)), S("a")>>)),
     Def("rest_of", Fn(<<S("a"), S("&"), S("more")>>, <<Call("cons", <<S("a"), S("more")>>)>>)),
     Def("twice", Call("macro", <<L(<<V(<<S("e")>>), Qq(L(<<S("do"), Unquote(S("e")), Unquote(S("e"))>>))>>)>>)) >>

Leaves == {N(0), S("c"), Call("list", <<N(1)>>), S("nowhere")}

\* Forms that end in an error when e is a list.
Failing(e) ==
  { Call("if", <<e>>), Call("let", <<V(<<N(1), e>>)>>), Call("nth", <<S("c"), e>>), Call("again", <<e, e>>), L(<<e, N(1)>>),
    Call("partial", <<e, N(1)>>), Call("apply", <<e>>), Qq(V(<<Call("unquote", <<e, e>>)>>)), Call("throw", <<e>>) }

Working(e) ==
  { V(<<N(3), e>>), Call("do", <<e, S("c")>>), Call("do", <<>>), Call("if", <<e, S("c"), e>>), Call("if", <<<<"nil", "">>, e>>),
    Let("x", e, <<S("x"), S("x")>>), Let("x", S("c"), <<e>>),
    Call("list", <<e, S("c")>>), Call("cons", <<e, S("c")>>), Call("cons", <<S("c"), e>>), Call("first", <<e>>),
    Call("rest", <<e>>), Call("concat", <<S("c"), e>>), Call("concat", <<e, S("c")>>), Call("count", <<e>>),
    Call("nth", <<e, N(0)>>),
    Call("again", <<e>>), Call("rest_of", <<e>>), Call("rest_of", <<e, S("c"), N(3)>>), Call("twice", <<e>>),
    L(<<Call("partial", <<S("rest_of"), e>>), S("c")>>), L(<<Call("partial", <<S("list"), e>>), S("c")>>),
    L(<<Call("partial", <<Call("partial", <<S("rest_of"), N(4)>>), e>>)>>),
    Call("partial", <<S("if"), e>>), Call("apply", <<S("rest_of"), N(5), e>>),
    Call("eval", <<Quote(e)>>), Quote(e), Qq(e), Qq(Unquote(e)), Qq(L(<<N(1), Unquote(e), V(<<e>>)>>)),
    Qq(L(<<N(1), Splice(e)>>)), Qq(L(<<Splice(e)>>)),
    Fn(<<>>, <<e>>), L(<<Fn(<<S("y")>>, <<S("y"), e>>), S("c")>>), L(<<Let("x", e, <<Fn(<<>>, <<S("x")>>)>>)>>),
    L(<<Call("fn*", <<S("self"), L(<<V(<<S("y")>>), S("y")>>)>>), e>>), Def("c", e), Def("new", e), Def("new", Fn(<<>>, <<e>>)),
    Call("try", <<e, Call("catch", <<S("E"), S("m"), S("m"), e>>), Call("finally", <<e>>)>>),
    Call("try", <<e, Throw, N(1), Call("catch", <<S("E"), S("m"), S("m"), S("c")>>), Call("catch", <<>>), Call("finally", <<e>>)>>),
    Call("try", <<e, Call("finally", <<N(1)>>)>>), Call("try", <<Call("finally", <<N(1)>>), e>>),
    Call("try", <<N(1), Call("catch", <<>>), e>>), Call("try", <<Throw, Call("catch", <<e>>)>>) }

Around(e) == Working(e) \cup Failing(e)

Nested(E) == UNION {Around(e) : e \in E}

\* The last form of the file.
LastForms == Nested(Leaves) \cup Nested(Working(Call("list", <<S("c")>>)))

MCForms == [k \in 1 .. Len(Prelude) |-> {Prelude[k]}] \o <<LastForms, {S("c")}>>
=============================================================================
