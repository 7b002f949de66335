----------------------------- MODULE Namespaces -----------------------------
(***************************************************************************)
(* How the interpreter loads a program made of files that require one      *)
(* another: load, require and in-ns of misc_fns.c, def, do and try of      *)
(* special_fns.c, the resolution of symbols and the calls of eval.c, on    *)
(* the tables of namespace.c.                                              *)
(*                                                                         *)
(* The interpreter is one recursive function; stack is its C stack, cut    *)
(* down to the calls that hold something across an evaluation.  Files and  *)
(* function bodies are not given: whenever an expression is to be          *)
(* evaluated it is any expression, so the model has every program, and     *)
(* some more, as a body may differ from one call to the next.  Values are  *)
(* functions or data.                                                      *)
(***************************************************************************)
EXTENDS Naturals, Sequences, SequencesExt

CONSTANTS
  Names,    \* the namespaces of the program: each has a file that begins with in-ns
  Main,     \* the one loaded first (config->main)
  User,     \* the namespace the interpreter starts in (config->user)
  Symbols,
  Aliases,
  Forms,    \* bound of the model: expressions evaluated
  NONE

ASSUME MainAssumption == Main \in Names /\ User \notin Names
ASSUME NoneAssumption == NONE \notin Names \union {User} \union Symbols \union Aliases
ASSUME AliasesAssumption == Aliases \intersect Names = {}
ASSUME FormsAssumption == Forms \in Nat

VARIABLES
  namespaces,  \* state->namespaces
  bound,       \* env of each namespace: the value of each symbol
  as,          \* as of each namespace: the namespace each name stands for
  refer,       \* refer of each namespace: where it refers to for each symbol
  current_ns,
  stack,
  result,      \* what the last evaluation returned, if its caller has yet to take it
  forms,       \* how many expressions were evaluated
  erred        \* whether an evaluation returned an error so far that no catch was given

tables == <<namespaces, bound, as, refer>>
vars == <<tables, current_ns, stack, result, forms, erred>>

AllNames == Names \union {User}

\* Values and results.
Nothing == [kind |-> "nothing"]
Data == [kind |-> "data"]
Error == [kind |-> "error"]
Absent == [kind |-> "absent"]
Unbound == [kind |-> "unbound"]
\* ns is Lval.ns, env the namespace the closure ends in, named whether it has a cname.
Fn(ns, env, named) == [kind |-> "fn", ns |-> ns, env |-> env, named |-> named]

\* The frames of the stack.  home is where the code of a file or of a function last
\* went, by itself or by a file that it loaded with load; nothing in the program reads it.
Loading(file) == [at |-> "load", file |-> file, failed |-> FALSE, home |-> NONE]
Requiring(ns, alias, symbol) ==
  [at |-> "require", ns |-> ns, alias |-> alias, symbol |-> symbol, saved |-> current_ns]
Defining(symbol, env) ==
  [at |-> "def", ns |-> current_ns, symbol |-> symbol, env |-> env]
Doing(env) == [at |-> "do", env |-> env]
\* value is what the expressions of the try were worth so far.
Trying(env) ==
  [at |-> "try", env |-> env, mode |-> "EXPR", value |-> Data, erred |-> erred]
Handling(clause, env) == [at |-> clause, env |-> env]
Calling(fn) == [at |-> "call", fn |-> fn, old_ns |-> current_ns, home |-> fn.ns]

Top == Last(stack)
Below == Front(stack)
Returned(at) == stack # <<>> /\ Top.at = at /\ result # Nothing

\* The frame of s whose code is running: the innermost file or function.
RunningIn(s) ==
  CHOOSE i \in DOMAIN s :
    /\ s[i].at \in {"load", "call"}
    /\ \A j \in i + 1 .. Len(s) : s[j].at \notin {"load", "call"}

Running == RunningIn(stack)

Init ==
  /\ namespaces = {User}
  /\ bound = [n \in AllNames |-> [s \in Symbols |-> Absent]]
  /\ as = [n \in AllNames |-> [a \in AllNames \union Aliases |-> NONE]]
  /\ refer = [n \in AllNames |-> [s \in Symbols |-> NONE]]
  /\ current_ns = User
  /\ stack = <<[at |-> "main", saved |-> User], Loading(Main)>>
  /\ result = Nothing
  /\ forms = 0
  /\ erred = FALSE

----------------------------------------------------------------------------
(***************************************************************************)
(* Evaluating an expression.                                               *)
(***************************************************************************)
\* An expression is due: in a file that has begun, in a body, in a do, or as the value
\* of a def.
Due ==
  /\ result = Nothing
  /\ stack # <<>>
  /\ \/ Top.at \in {"call", "def", "do", "catch", "finally"}
     \/ Top.at = "load" /\ Top.home # NONE
     \/ Top.at = "try" /\ Top.mode = "EXPR" /\ Top.value # Error
  /\ forms < Forms
  /\ forms' = forms + 1

Return(value) ==
  /\ result' = value
  /\ erred' = (erred \/ value = Error)

\* The environment of the expression ends in that of a namespace.
Env ==
  CASE Top.at = "load" -> current_ns
    [] Top.at = "call" -> Top.fn.env
    [] OTHER -> Top.env

OrError(value) == IF value = Absent THEN Error ELSE value

\* Symbols: in their environment, then in the namespace that the CURRENT one refers to.
\* The standard library and the builtins have none of them.
eval_symbol(env, symbol) ==
  IF bound[env][symbol] # Absent THEN bound[env][symbol]
  ELSE IF refer[current_ns][symbol] # NONE
       THEN OrError(bound[refer[current_ns][symbol]][symbol])
       ELSE Error

eval_namespaced_symbol(name, symbol) ==
  IF as[current_ns][name] = NONE THEN Error
  ELSE OrError(bound[as[current_ns][name]][symbol])

\* What expressions without an effect are worth: literals, fn* forms, symbols, and all
\* that fails.
Worth ==
  {Data, Error, Fn(current_ns, Env, FALSE)}
    \union {eval_symbol(Env, s) : s \in Symbols}
    \union {eval_namespaced_symbol(a, s) : a \in Names \union Aliases, s \in Symbols}

lval_eval ==
  /\ Due
  /\ \E value \in Worth : Return(value)
  /\ UNCHANGED <<tables, current_ns, stack>>

\* A function runs in the namespace it is said to be of.
eval_lambda_call ==
  /\ Due
  /\ \E fn \in Worth :
       /\ fn.kind = "fn"
       /\ stack' = Append(stack, Calling(fn))
       /\ current_ns' = fn.ns
  /\ UNCHANGED <<tables, result, erred>>

\* The expressions of a do, one after the other in the environment of the whole.
eval_do ==
  /\ Due
  /\ stack' = Append(stack, Doing(Env))
  /\ UNCHANGED <<tables, current_ns, result, erred>>

eval_try ==
  /\ Due
  /\ stack' = Append(stack, Trying(Env))
  /\ UNCHANGED <<tables, current_ns, result, erred>>

\* What begins a def: the symbol is there, unbound, while its value is evaluated.
eval_def(symbol) ==
  /\ Due
  /\ bound' = IF eval_symbol(current_ns, symbol) = Error
              THEN [bound EXCEPT ![current_ns][symbol] = Unbound]
              ELSE bound
  /\ \/ Return(Data) /\ UNCHANGED stack
     \/ /\ stack' = Append(stack, Defining(symbol, Env))
        /\ UNCHANGED <<result, erred>>
  /\ UNCHANGED <<namespaces, as, refer, current_ns>>

EnterNs(ns) ==
  /\ namespaces' = namespaces \union {ns}
  /\ current_ns' = ns
  /\ stack' = [stack EXCEPT ![Running].home = ns]
  /\ Return(Data)
  /\ UNCHANGED <<bound, as, refer>>

in_ns_fn(ns) == Due /\ EnterNs(ns)

\* A file begins with the in-ns of its own namespace.
begin_file ==
  /\ result = Nothing
  /\ stack # <<>>
  /\ Top.at = "load"
  /\ Top.home = NONE
  /\ EnterNs(Top.file)
  /\ UNCHANGED forms

\* What require does to the namespace it was called in once ns is there.  An error in
\* the symbol referred to comes after the rest was done.
Required(ns, alias, symbol, in) ==
  /\ as' = [as EXCEPT ![in] =
              [a \in DOMAIN as[in] |-> IF a \in {ns, alias} THEN ns ELSE @[a]]]
  /\ IF symbol = NONE THEN Return(Data) /\ UNCHANGED refer
     ELSE IF bound[ns][symbol] = Absent \/ bound[in][symbol] # Absent
          THEN Return(Error) /\ UNCHANGED refer
          ELSE Return(Data) /\ refer' = [refer EXCEPT ![in][symbol] = ns]
  /\ UNCHANGED <<namespaces, bound>>

\* Mutant of require_fn: a namespace is loaded whether or not it is there.
require_fn_always(ns, alias, symbol) ==
  /\ Due
  /\ stack' = stack \o <<Requiring(ns, alias, symbol), Loading(ns)>>
  /\ UNCHANGED <<tables, current_ns, result, erred>>

\* A namespace that exists is not loaded again, even if its file is still being loaded
\* or could not be.  A vector that parse_require_vector has an error for counts up to
\* there: require_fn does not look at the error.
require_fn(ns, alias, symbol) ==
  /\ Due
  /\ IF ns \in namespaces
     THEN Required(ns, alias, symbol, current_ns) /\ UNCHANGED <<stack, current_ns>>
     ELSE /\ stack' = stack \o <<Requiring(ns, alias, symbol), Loading(ns)>>
          /\ UNCHANGED <<tables, current_ns, result, erred>>

\* load is also a builtin, for any expression to call: it loads the file whether or not
\* its namespace is there, or the file is being loaded, and restores nothing.
load_fn(file) ==
  /\ Due
  /\ stack' = Append(stack, Loading(file))
  /\ UNCHANGED <<tables, current_ns, result, erred>>

----------------------------------------------------------------------------
(***************************************************************************)
(* Returning from one.                                                     *)
(***************************************************************************)
\* Mutant of next_form: the last form of the file decides.
next_form_last ==
  /\ Returned("load")
  /\ stack' = [stack EXCEPT ![Len(stack)].failed = result = Error]
  /\ result' = Nothing
  /\ UNCHANGED <<tables, current_ns, forms, erred>>

\* load goes on with the next form even if one failed.
next_form ==
  /\ Returned("load")
  /\ stack' = [stack EXCEPT ![Len(stack)].failed = @ \/ result = Error]
  /\ result' = Nothing
  /\ UNCHANGED <<tables, current_ns, forms, erred>>

\* What is left of the stack when the file on top ends.  Only main and require restore
\* the namespace: the code that called load_fn is where the file went.
Unloaded ==
  IF Last(Below).at \in {"main", "require"} \/ Top.home = NONE
  THEN Below ELSE [Below EXCEPT ![RunningIn(Below)].home = Top.home]

\* The file ends, or what follows cannot be read.
end_load ==
  /\ result = Nothing
  /\ stack # <<>>
  /\ Top.at = "load"
  /\ \/ Return(IF Top.failed THEN Error ELSE Data)
     \/ Return(Error)
  /\ stack' = Unloaded
  /\ UNCHANGED <<tables, current_ns, forms>>

\* Mutant of end_require: the namespace is not restored when the load failed.
end_require_unrestored ==
  /\ Returned("require")
  /\ stack' = Below
  /\ IF result = Error \/ Top.ns \notin namespaces
     THEN Return(Error) /\ UNCHANGED <<tables, current_ns>>
     ELSE Required(Top.ns, Top.alias, Top.symbol, Top.saved) /\ current_ns' = Top.saved
  /\ UNCHANGED forms

\* Mutant of end_require: a file that was loaded is taken to have begun with its in-ns.
end_require_trusting ==
  /\ Returned("require")
  /\ stack' = Below
  /\ current_ns' = Top.saved
  /\ IF result = Error
     THEN Return(Error) /\ UNCHANGED tables
     ELSE Required(Top.ns, Top.alias, Top.symbol, Top.saved)
  /\ UNCHANGED forms

\* A file that did not make its namespace is an error.  The current namespace is
\* restored before the outcome of the load is looked at.
end_require ==
  /\ Returned("require")
  /\ stack' = Below
  /\ current_ns' = Top.saved
  /\ IF result = Error \/ Top.ns \notin namespaces
     THEN Return(Error) /\ UNCHANGED tables
     ELSE Required(Top.ns, Top.alias, Top.symbol, Top.saved)
  /\ UNCHANGED forms

\* The symbol is bound in the namespace that was current before the evaluation.  A
\* function that has no cname gets one, and the namespace that is current now.
end_def ==
  /\ Returned("def")
  /\ stack' = Below
  /\ IF result = Error
     THEN UNCHANGED <<bound, result>>
     ELSE LET value == IF result.kind = "fn" /\ ~result.named
                       THEN Fn(current_ns, result.env, TRUE) ELSE result
          IN  /\ bound' = [bound EXCEPT ![Top.ns][Top.symbol] = value]
              /\ result' = Data
  /\ UNCHANGED <<namespaces, as, refer, current_ns, forms, erred>>

----------------------------------------------------------------------------
(***************************************************************************)
(* The clauses of a try, and its end.  While it waits for the next of its  *)
(* arguments nothing is returned.                                          *)
(***************************************************************************)
AtClause == result = Nothing /\ stack # <<>> /\ Top.at = "try"

next_in_try ==
  /\ Returned("try")
  /\ stack' = [stack EXCEPT ![Len(stack)].value = result]
  /\ result' = Nothing
  /\ UNCHANGED <<tables, current_ns, forms, erred>>

Handle(clause, mode) ==
  /\ stack' = Append([stack EXCEPT ![Len(stack)].mode = mode], Handling(clause, Top.env))
  /\ UNCHANGED <<tables, current_ns, result>>

\* Errors of every kind are caught.
catch ==
  /\ AtClause
  /\ Top.mode = "EXPR"
  /\ Top.value = Error
  /\ Handle("catch", "CATCH")
  /\ erred' = Top.erred
  /\ UNCHANGED forms

catch_nothing ==
  /\ AtClause
  /\ Top.mode = "EXPR"
  /\ Top.value # Error
  /\ stack' = [stack EXCEPT ![Len(stack)].mode = "CATCH"]
  /\ UNCHANGED <<tables, current_ns, result, forms, erred>>

finally ==
  /\ AtClause
  /\ Top.mode # "FINALLY"
  /\ Handle("finally", "FINALLY")
  /\ UNCHANGED <<forms, erred>>

\* A catch without its parts, or something after catch or finally that may not be there.
bad_clause ==
  /\ AtClause
  /\ Top.mode = "EXPR" => Top.value = Error
  /\ stack' = Below
  /\ Return(Error)
  /\ UNCHANGED <<tables, current_ns, forms>>

\* An error of a catch or of a finally is what the try returns: no clause follows.
end_clause ==
  /\ Returned("catch") \/ Returned("finally")
  /\ IF result = Error
     THEN stack' = Front(Below) /\ UNCHANGED result
     ELSE /\ result' = Nothing
          /\ stack' = IF Top.at = "catch"
                      THEN [Below EXCEPT ![Len(Below)].value = result] ELSE Below
  /\ UNCHANGED <<tables, current_ns, forms, erred>>

end_try ==
  /\ AtClause
  /\ stack' = Below
  /\ result' = Top.value
  /\ UNCHANGED <<tables, current_ns, forms, erred>>

----------------------------------------------------------------------------
(***************************************************************************)
(* Bodies, calls and the program.                                          *)
(***************************************************************************)
next_in_body ==
  /\ Returned("call") \/ Returned("do") \/ Returned("catch") \/ Returned("finally")
  /\ result # Error
  /\ result' = Nothing
  /\ UNCHANGED <<tables, current_ns, stack, forms, erred>>

end_do ==
  /\ Returned("do")
  /\ stack' = Below
  /\ UNCHANGED <<tables, current_ns, result, forms, erred>>

end_call ==
  /\ Returned("call")
  /\ stack' = Below
  /\ current_ns' = Top.old_ns
  /\ UNCHANGED <<tables, result, forms, erred>>

end_main ==
  /\ Returned("main")
  /\ stack' = Below
  /\ current_ns' = Top.saved
  /\ UNCHANGED <<tables, result, forms, erred>>

Next ==
  \/ lval_eval
  \/ eval_lambda_call
  \/ eval_do
  \/ eval_try
  \/ \E symbol \in Symbols : eval_def(symbol)
  \/ begin_file
  \/ \E ns \in AllNames : in_ns_fn(ns)
  \/ \E ns \in Names, alias \in Aliases \union {NONE}, symbol \in Symbols \union {NONE} :
       require_fn(ns, alias, symbol)
  \/ \E file \in Names : load_fn(file)
  \/ next_form
  \/ end_load
  \/ end_require
  \/ end_def
  \/ next_in_try
  \/ catch
  \/ catch_nothing
  \/ finally
  \/ bad_clause
  \/ end_clause
  \/ end_try
  \/ next_in_body
  \/ end_do
  \/ end_call
  \/ end_main

Spec == Init /\ [][Next]_vars

----------------------------------------------------------------------------
(***************************************************************************)
(* Properties.                                                             *)
(***************************************************************************)
Values ==
  {Data, Unbound} \union {Fn(n, e, b) : n \in AllNames, e \in AllNames, b \in BOOLEAN}
Frames ==
  [at : {"main"}, saved : {User}]
    \union [at : {"load"}, file : Names, failed : BOOLEAN, home : AllNames \union {NONE}]
    \union [at : {"require"}, ns : Names, alias : Aliases \union {NONE},
            symbol : Symbols \union {NONE}, saved : AllNames]
    \union [at : {"def"}, ns : AllNames, symbol : Symbols, env : AllNames]
    \union [at : {"do"}, env : AllNames]
    \union [at : {"try"}, env : AllNames, mode : {"EXPR", "CATCH", "FINALLY"},
            value : Values \union {Error}, erred : BOOLEAN]
    \union [at : {"catch", "finally"}, env : AllNames]
    \union [at : {"call"}, fn : Values, old_ns : AllNames, home : AllNames]

\* The tables hold names and values, and a name or a symbol that stands for a
\* namespace stands for one that exists.
TypeOK ==
  /\ namespaces \subseteq AllNames
  /\ bound \in [AllNames -> [Symbols -> Values \union {Absent}]]
  /\ as \in [AllNames -> [AllNames \union Aliases -> namespaces \union {NONE}]]
  /\ refer \in [AllNames -> [Symbols -> namespaces \union {NONE}]]
  /\ current_ns \in namespaces
  /\ stack \in Seq(Frames)
  /\ result \in Values \union {Nothing, Error}
  /\ forms \in 0 .. Forms
  /\ erred \in BOOLEAN

\* The code of a file or of a function finds itself in the namespace it last went to:
\* what it required, called and defined in between, however that ended, left the
\* current namespace as it was (eval.c:134-139, misc_fns.c:211-215).  A file loaded by
\* the builtin load is as if its forms stood in the place of the call, in-ns and all
\* (misc_fns.c:155-160): the code that loaded it finds itself where that file went.
CurrentIsHome ==
  (result = Nothing /\ stack # <<>> /\ stack[Running].home # NONE) =>
    current_ns = stack[Running].home

\* require never loads a file while it is being loaded, by require, load or run:
\* namespaces may require one another in circles, because a namespace exists from the
\* first form of its file on.  A file that calls load may well load itself, without end.
NoFileInsideItself ==
  \A i, j \in DOMAIN stack :
    ( /\ i < j
      /\ stack[i].at = "load"
      /\ stack[j].at = "load"
      /\ stack[j - 1].at = "require" ) => stack[i].file # stack[j].file

\* When main is loaded, load_main (run.c:31-39) knows whether an evaluation failed
\* anywhere: an error that no catch was given (special_fns.c:475-515) is lost neither in
\* the forms, files and clauses evaluated after it, nor in those that were waiting, and
\* one that was caught is over.
ErrorsSurface ==
  stack = <<>> => (erred <=> result = Error)
=============================================================================
