-------------------------------- MODULE Calls -------------------------------
(***************************************************************************)
(* Functions with several arities, and the three ways of calling one: the  *)
(* interpreter's eval_lambda_call, the direct call that the compiler makes *)
(* of a function it knows, and the call by reference, in which the         *)
(* function itself switches on the number of arguments that it finds in a  *)
(* block.  They have to mean the same.                                     *)
(*                                                                         *)
(* A function is made overload by overload (eval_lambdas of                *)
(* special_fns.c), then compiled (switch_on_args_count of make_wasm_fn.c), *)
(* and may be given some of its arguments in advance (partial_fn).  An     *)
(* argument is its number.                                                 *)
(***************************************************************************)
EXTENDS Integers, Sequences, SequencesExt

CONSTANTS
  MAX_FN_PARAMS,
  MaxForms,     \* bound of the model: overloads of a function
  MaxPartials,  \* bound of the model: arguments given in advance
  Params,       \* the parameter vectors of the model, in each "&" or "name"
  NIL,
  NONE

ASSUME MaxAssumption == MAX_FN_PARAMS \in Nat \ {0}
ASSUME NoneAssumption == NONE \notin Nat
ASSUME ParamsAssumption == Params \subseteq Seq({"&", "name"})

VARIABLES
  forms,            \* the overloads so far
  lambdas,          \* by number of arguments: which overload
  max_param_count,  \* as far as there is none with a rest parameter
  has_rest_arg,
  err,
  made,             \* whether there is a function now
  partials,         \* the arguments it was given in advance
  table             \* br_table and the default of the compiled function

overloads == <<forms, lambdas, max_param_count, has_rest_arg, err>>
vars == <<overloads, made, partials, table>>

Arities == 0 .. MAX_FN_PARAMS

Init ==
  /\ forms = <<>>
  /\ lambdas = [n \in Arities |-> NONE]
  /\ max_param_count = 0
  /\ has_rest_arg = 0
  /\ err = FALSE
  /\ made = FALSE
  /\ partials = <<>>
  /\ table = NONE

----------------------------------------------------------------------------
(***************************************************************************)
(* Making a function.                                                      *)
(***************************************************************************)
\* One parameter of the vector: rest_arg_index is the number of the one that & is
\* followed by.
Param(read, param) ==
  IF read.err \/ (read.has_rest_arg # 0 /\ read.param_count = read.has_rest_arg)
  THEN [read EXCEPT !.err = TRUE]
  ELSE IF param = "&" THEN [read EXCEPT !.has_rest_arg = read.param_count + 1]
       ELSE [read EXCEPT !.param_count = @ + 1]

eval_lambda_form(params) ==
  LET after[k \in 0 .. Len(params)] ==
        IF k = 0 THEN [param_count |-> 0, has_rest_arg |-> 0, err |-> FALSE]
        ELSE Param(after[k - 1], params[k])
      read == after[Len(params)]
  IN  [read EXCEPT !.err =
         \/ @
         \/ read.has_rest_arg # 0 /\ read.param_count # read.has_rest_arg
         \/ read.param_count > MAX_FN_PARAMS]

\* Mutant of FillFrom: the rest overload takes every number from its least one on.
FillFromLeast(rest) == rest - 1

\* The rest overload takes every number that is not too small for it, but the least one
\* only if it is free.
FillFrom(rest) == IF lambdas[rest - 1] # NONE THEN rest ELSE rest - 1

\* Mutant of TooMany: one more is let through.
TooManyLate(fixed, rest) == rest # 0 /\ fixed > rest

TooMany(fixed, rest) == rest # 0 /\ fixed >= rest

add_rest(lambda) ==
  /\ UNCHANGED max_param_count
  /\ IF has_rest_arg # 0
     THEN err' = TRUE /\ UNCHANGED <<lambdas, has_rest_arg>>
     ELSE /\ has_rest_arg' = lambda.has_rest_arg
          /\ lambdas' = [n \in Arities |->
                           IF n >= FillFrom(lambda.has_rest_arg)
                           THEN Len(forms) + 1 ELSE lambdas[n]]
          /\ err' = TooMany(max_param_count, lambda.has_rest_arg)

HasRest(n) == eval_lambda_form(forms[lambdas[n]]).has_rest_arg # 0

add_fixed(count) ==
  /\ UNCHANGED has_rest_arg
  /\ IF /\ lambdas[count] # NONE
        /\ \/ has_rest_arg = 0
           \/ count < has_rest_arg - 1
           \/ count = has_rest_arg - 1 /\ ~HasRest(count)
     THEN err' = TRUE /\ UNCHANGED <<lambdas, max_param_count>>
     ELSE /\ max_param_count' = IF count > max_param_count THEN count ELSE max_param_count
          /\ lambdas' = [lambdas EXCEPT ![count] = Len(forms) + 1]
          /\ err' = TooMany(max_param_count', has_rest_arg)

\* One round of the loop of eval_lambdas.
eval_lambdas(params) ==
  LET lambda == eval_lambda_form(params)
  IN  /\ ~err
      /\ ~made
      /\ Len(forms) < MaxForms
      /\ forms' = Append(forms, params)
      /\ IF lambda.err
         THEN err' = TRUE /\ UNCHANGED <<lambdas, max_param_count, has_rest_arg>>
         ELSE IF lambda.has_rest_arg # 0
              THEN add_rest(lambda)
              ELSE add_fixed(lambda.param_count)
      /\ UNCHANGED <<made, partials, table>>

make_lval_lambda ==
  /\ ~err
  /\ ~made
  /\ forms # <<>>
  /\ made' = TRUE
  /\ UNCHANGED <<overloads, partials, table>>

\* Arguments are numbered in the order in which they are given.
partial_fn ==
  /\ made
  /\ Len(partials) < MaxPartials
  /\ partials' = Append(partials, Len(partials) + 1)
  /\ UNCHANGED <<overloads, made, table>>

----------------------------------------------------------------------------
(***************************************************************************)
(* Compiling it: a branch for each number of arguments.                    *)
(***************************************************************************)
RestArities == {n \in Arities : lambdas[n] # NONE /\ HasRest(n)}
FixedArities == {n \in Arities : lambdas[n] # NONE /\ ~HasRest(n)}
Least(S) == CHOOSE n \in S : \A m \in S : n <= m
Greatest(S) == CHOOSE n \in S : \A m \in S : m <= n

\* The last branch that the table may have: before the rest overload, or the last one.
MaxArity == IF RestArities # {} THEN Least(RestArities) - 1 ELSE Greatest(FixedArities)

\* The branch of the table for n arguments: an overload or an error.
Branch(n) == IF lambdas[n] = NONE THEN NONE ELSE n

\* The last branch is left to the rest overload if nothing else takes it.
TableSize ==
  IF RestArities # {} /\ MaxArity >= 0 /\ lambdas[MaxArity] = NONE
  THEN MaxArity ELSE MaxArity + 1

switch_on_args_count ==
  /\ made
  /\ table = NONE
  /\ table' = [branch |-> [i \in 1 .. TableSize |-> Branch(i - 1)],
               default |-> IF RestArities # {} THEN Least(RestArities) ELSE NONE]
  /\ UNCHANGED <<overloads, made, partials>>

Next ==
  \/ \E params \in Params : eval_lambdas(params)
  \/ make_lval_lambda
  \/ partial_fn
  \/ switch_on_args_count

Spec == Init /\ [][Next]_vars

----------------------------------------------------------------------------
(***************************************************************************)
(* Calling it: what the parameters are bound to, NONE if there is no       *)
(* overload for the call.                                                  *)
(***************************************************************************)
Smaller(m, n) == IF m <= n THEN m ELSE n
Lambda(n) == eval_lambda_form(forms[lambdas[n]])
MinParams(lambda) ==
  IF lambda.has_rest_arg # 0 THEN lambda.param_count - 1 ELSE lambda.param_count
From(args, n) == SubSeq(args, n + 1, Len(args))
AsList(args) == IF args = <<>> THEN NIL ELSE args

\* The interpreter.
eval_lambda_call(given) ==
  LET args == partials \o given
      arity == Smaller(Len(args), MAX_FN_PARAMS)
      lambda == Lambda(arity)
  IN  IF lambdas[arity] = NONE THEN NONE
      ELSE [fixed |-> SubSeq(args, 1, MinParams(lambda)),
            rest |-> IF lambda.has_rest_arg # 0
                     THEN AsList(From(args, MinParams(lambda))) ELSE NONE]

\* Mutant of Operands: a rest parameter without arguments is an empty list.
OperandsEmpty(lambda, args) ==
  [fixed |-> SubSeq(args, 1, MinParams(lambda)),
   rest |-> IF lambda.has_rest_arg # 0 THEN From(args, MinParams(lambda)) ELSE NONE]

\* compile_args_into_operands: partials and arguments in one array, what is over the
\* fixed parameters in a list made of cells, last one first.
Operands(lambda, args) ==
  LET rest_arg_count == Len(args) - MinParams(lambda)
  IN  [fixed |-> SubSeq(args, 1, MinParams(lambda)),
       rest |-> IF lambda.has_rest_arg = 0 THEN NONE
                ELSE IF rest_arg_count = 0 THEN NIL
                     ELSE [i \in 1 .. rest_arg_count |-> args[MinParams(lambda) + i]]]

compile_application(given) ==
  LET args == partials \o given
      arity == Smaller(Len(args), MAX_FN_PARAMS)
  IN  IF lambdas[arity] = NONE THEN NONE ELSE Operands(Lambda(arity), args)

\* What is loaded from a block of arguments: of a block too short, whatever is there.
LoadArg(block, i) == IF i <= Len(block) THEN block[i] ELSE NONE

\* listify_args, called with as many arguments as are over: none is nil, fewer than
\* none is an empty list.
listify_args(block, index, args_count) ==
  IF args_count = 0 THEN NIL ELSE From(block, index)

\* args_into_locals and make_fn_call_operands.
FromBlock(lambda, block) ==
  [fixed |-> [i \in 1 .. MinParams(lambda) |-> LoadArg(block, i)],
   rest |-> IF lambda.has_rest_arg # 0
            THEN listify_args(block, MinParams(lambda), Len(block) - MinParams(lambda))
            ELSE NONE]

\* call_fn_by_ref puts the partials and the arguments into the block; the function
\* switches on how many there are.
call_fn_by_ref(given) ==
  LET block == partials \o given
      branch == IF Len(block) < Len(table.branch)
                THEN table.branch[Len(block) + 1] ELSE table.default
  IN  IF branch = NONE THEN NONE ELSE FromBlock(Lambda(branch), block)

----------------------------------------------------------------------------
(***************************************************************************)
(* Properties.                                                             *)
(***************************************************************************)
\* What a vector of parameters should be (special_fns.c:190, 213): names, at most
\* MAX_FN_PARAMS, of which the last may be a rest parameter.
Ampersands(params) == {i \in DOMAIN params : params[i] = "&"}
FixedVector(params) == Ampersands(params) = {} /\ Len(params) <= MAX_FN_PARAMS
RestVector(params) ==
  Ampersands(params) = {Len(params) - 1} /\ Len(params) - 1 <= MAX_FN_PARAMS
Fixed == {i \in DOMAIN forms : FixedVector(forms[i])}
Rest == {i \in DOMAIN forms : RestVector(forms[i])}

\* An overload is refused exactly if its vector is not one, if it takes as many
\* arguments as another, if there is a second one with a rest parameter, or if it has
\* more fixed parameters than the one with a rest parameter (special_fns.c:255, 269,
\* 278), in whatever order they are given.
OverloadRules ==
  ~err <=>
    /\ Fixed \union Rest = DOMAIN forms
    /\ \A i, j \in Fixed : Len(forms[i]) = Len(forms[j]) => i = j
    /\ \A i, j \in Rest : i = j
    /\ \A i \in Fixed, j \in Rest : Len(forms[i]) <= Len(forms[j]) - 2

\* In whatever order the overloads were given, a call finds the one with just as many
\* parameters as there are arguments, else the one with a rest parameter if there are
\* enough for it, else none.
OverloadFor(n) ==
  IF \E i \in Fixed : Len(forms[i]) = n
  THEN CHOOSE i \in Fixed : Len(forms[i]) = n
  ELSE IF \E i \in Rest : Len(forms[i]) - 2 <= n
       THEN CHOOSE i \in Rest : Len(forms[i]) - 2 <= n
       ELSE NONE
LambdaByArity == ~err => \A n \in Arities : lambdas[n] = OverloadFor(n)

\* The calls with up to as many arguments as a function can have, partials included,
\* and one more where a rest parameter takes it.
Given(n) == [i \in 1 .. n - Len(partials) |-> Len(partials) + i]
CallSizes ==
  Len(partials) .. (IF has_rest_arg # 0 THEN MAX_FN_PARAMS + 1 ELSE MAX_FN_PARAMS)

\* What the interpreter accepts, the compiled program does too, called either way, and
\* binds every parameter to the same arguments, whichever were given in advance.
CompiledCallsAgree ==
  made =>
    \A n \in CallSizes :
      LET call == eval_lambda_call(Given(n))
      IN  /\ compile_application(Given(n)) = call
          /\ (call # NONE /\ table # NONE) => call_fn_by_ref(Given(n)) = call
=============================================================================
