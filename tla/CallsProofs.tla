----------------------------- MODULE CallsProofs -----------------------------
(***************************************************************************)
(* What Calls promises, for any maximum of parameters, any parameter       *)
(* vectors, any number of overloads and of arguments given in advance.     *)
(*                                                                         *)
(* A vector is read by a loop, whose steps are followed by induction.  The *)
(* array lambdas changes with each overload in a way that depends on the   *)
(* order: a rest overload fills what is free and more, a later one takes   *)
(* back its place.  The invariant says what it is after all of them, with  *)
(* no mention of an order.                                                 *)
(***************************************************************************)
EXTENDS Calls, WellFoundedInduction, TLAPS

----------------------------------------------------------------------------
(***************************************************************************)
(* Induction, with a set of numbers for the predicate.                     *)
(***************************************************************************)
\* A set of numbers that is not empty has a least one.
LEMMA HasLeast ==
  ASSUME NEW T, T \subseteq Nat, T # {}
  PROVE  \E m \in T : \A k \in T : m <= k
<1> DEFINE R == {ss \in Nat \X Nat : ss[1] < ss[2]}
<1>1. IsWellFoundedOn(R, Nat)
  BY NatLessThanWellFounded DEF OpToRel
<1>2. \A x, y \in Nat : <<x, y>> \notin R => y <= x
  OBVIOUS
<1> HIDE DEF R
<1>3. PICK m \in T : \A k \in T : <<k, m>> \notin R
  BY <1>1, WFMin
<1>4. \A k \in T : m <= k
  BY ONLY <1>2, <1>3, T \subseteq Nat
<1> QED BY <1>4

\* A set of numbers up to n that is not empty has a greatest one.
LEMMA HasGreatest ==
  ASSUME NEW n \in Nat, NEW T, T \subseteq 1 .. n, T # {}
  PROVE  \E m \in T : \A k \in T : k <= m
<1> DEFINE U == {n - k : k \in T}
<1>1. U \subseteq Nat /\ U # {}
  <2>1. \A k \in T : n - k \in Nat
    OBVIOUS
  <2>2. \A k \in T : n - k \in U
    OBVIOUS
  <2> QED BY <2>1, <2>2
<1>2. PICK u \in U : \A k \in U : u <= k
  <2> HIDE DEF U
  <2> QED BY <1>1, HasLeast
<1>3. PICK m \in T : u = n - m
  OBVIOUS
<1>4. ASSUME NEW k \in T PROVE k <= m
  <2>1. n - m <= n - k
    BY <1>2, <1>3
  <2>2. k \in Nat /\ m \in Nat
    OBVIOUS
  <2> QED BY ONLY <2>1, <2>2, n \in Nat
<1> QED BY <1>4

\* A set with 0 and the successor of each number in it has all numbers.
LEMMA Induction ==
  ASSUME NEW S, 0 \in S, \A k \in Nat : k \in S => k + 1 \in S
  PROVE  Nat \subseteq S
<1> DEFINE T == Nat \ S
<1> SUFFICES ASSUME T # {} PROVE FALSE
  OBVIOUS
<1>1. PICK m \in T : \A k \in T : m <= k
  <2>1. T \subseteq Nat
    OBVIOUS
  <2> HIDE DEF T
  <2> QED BY <2>1, HasLeast
<1>2. m \in Nat /\ m # 0
  OBVIOUS
<1>3. m - 1 \in Nat /\ ~(m <= m - 1) /\ m - 1 + 1 = m
  BY <1>2
<1>4. m - 1 \in T
  BY <1>3
<1> QED BY ONLY <1>1, <1>3, <1>4

----------------------------------------------------------------------------
(***************************************************************************)
(* Reading a parameter vector.                                             *)
(***************************************************************************)
Reads == [param_count : Nat, has_rest_arg : Nat, err : BOOLEAN]

\* A vector with at most one &.  With several in a row, the code takes them for one.
OneAmpersand(params) == \A i, j \in Ampersands(params) : i = j

\* After k parameters of a vector whose & is at place a (0 if there is none).
ReadSoFar(read, k, a) ==
  /\ read \in Reads
  /\ a = 0 \/ k < a => ~read.err /\ read.param_count = k /\ read.has_rest_arg = 0
  /\ a # 0 /\ k \in {a, a + 1} =>
       ~read.err /\ read.param_count = k - 1 /\ read.has_rest_arg = a
  /\ a # 0 /\ k > a + 1 => read.err

\* What has been read before each parameter, and after the last one.
IsReading(f, params, n) ==
  f = [k \in 0 .. n |->
         IF k = 0 THEN [param_count |-> 0, has_rest_arg |-> 0, err |-> FALSE]
         ELSE Param(f[k - 1], params[k])]

LEMMA ReadingExists ==
  ASSUME NEW params, NEW n \in Nat
  PROVE  \E f : IsReading(f, params, n)
<1> DEFINE S == {m \in Nat : \E f : IsReading(f, params, m)}
           base == [param_count |-> 0, has_rest_arg |-> 0, err |-> FALSE]
<1>1. 0 \in S
  <2>1. IsReading([k \in 0 .. 0 |-> base], params, 0)
    BY DEF IsReading
  <2> QED BY <2>1
<1>2. ASSUME NEW m \in Nat, m \in S PROVE m + 1 \in S
  <2>1. PICK f : IsReading(f, params, m)
    BY <1>2
  <2> DEFINE g == [k \in 0 .. m + 1 |-> IF k = m + 1 THEN Param(f[m], params[k]) ELSE f[k]]
  <2>2. ASSUME NEW k \in 0 .. m + 1
        PROVE  g[k] = IF k = 0 THEN base ELSE Param(g[k - 1], params[k])
    <3>1. CASE k = m + 1
      <4>1. k # 0 /\ k - 1 = m /\ m \in 0 .. m + 1 /\ m # m + 1
        BY <3>1
      <4> QED BY <3>1, <4>1
    <3>2. CASE k # m + 1
      <4>1. k \in 0 .. m /\ (k # 0 => k - 1 \in 0 .. m + 1 /\ k - 1 # m + 1)
        BY <3>2
      <4>2. f[k] = IF k = 0 THEN base ELSE Param(f[k - 1], params[k])
        BY <2>1, <4>1 DEF IsReading
      <4> QED BY <3>2, <4>1, <4>2
    <3> QED BY <3>1, <3>2
  <2>3. IsReading(g, params, m + 1)
    BY <2>2 DEF IsReading
  <2> HIDE DEF g
  <2> QED BY <2>3
<1> HIDE DEF S
<1>3. n \in S
  BY <1>1, <1>2, Induction
<1> QED BY <1>3 DEF S

LEMMA ParamStep ==
  ASSUME NEW read, NEW k \in Nat, NEW a \in Nat, NEW param \in {"&", "name"},
         ReadSoFar(read, k, a), a # 0 => (param = "&" <=> k + 1 = a), a = 0 => param = "name"
  PROVE  ReadSoFar(Param(read, param), k + 1, a)
<1>1. CASE read.err
  <2>1. Param(read, param) = [read EXCEPT !.err = TRUE]
    BY <1>1 DEF Param
  <2>2. read \in Reads /\ a # 0 /\ k > a + 1
    BY <1>1 DEF ReadSoFar
  <2>3. Param(read, param) \in Reads /\ Param(read, param).err
    BY ONLY <2>1, <2>2 DEF Reads
  <2>4. a # 0 /\ k + 1 > a + 1 /\ ~(k + 1 < a) /\ k + 1 \notin {a, a + 1}
    BY <2>2
  <2> QED BY ONLY <2>3, <2>4 DEF ReadSoFar
<1>2. CASE ~read.err /\ (a = 0 \/ k < a)
  <2>1. read \in Reads /\ read.param_count = k /\ read.has_rest_arg = 0
    BY <1>2 DEF ReadSoFar
  <2>2. CASE param = "&"
    <3>1. Param(read, param) = [read EXCEPT !.has_rest_arg = read.param_count + 1]
      BY <1>2, <2>1, <2>2 DEF Param
    <3> QED BY <1>2, <2>1, <2>2, <3>1 DEF ReadSoFar, Reads
  <2>3. CASE param # "&"
    <3>1. Param(read, param) = [read EXCEPT !.param_count = @ + 1]
      BY <1>2, <2>1, <2>3 DEF Param
    <3>2. a = 0 \/ k + 1 < a
      BY <1>2, <2>3
    <3> QED BY <1>2, <2>1, <2>3, <3>1, <3>2 DEF ReadSoFar, Reads
  <2> QED BY <2>2, <2>3
<1>3. CASE ~read.err /\ a # 0 /\ k = a
  <2>1. read \in Reads /\ read.param_count = k - 1 /\ read.has_rest_arg = a
    BY <1>3 DEF ReadSoFar
  <2>2. param # "&"
    BY <1>3
  <2>3. Param(read, param) = [read EXCEPT !.param_count = @ + 1]
    BY <1>3, <2>1, <2>2 DEF Param
  <2> QED BY <1>3, <2>1, <2>3 DEF ReadSoFar, Reads
<1>4. CASE ~read.err /\ a # 0 /\ k > a
  <2>1. k = a + 1
    BY <1>4 DEF ReadSoFar
  <2>2. read \in Reads /\ read.param_count = k - 1 /\ read.has_rest_arg = a
    BY <1>4, <2>1 DEF ReadSoFar
  <2>3. Param(read, param) = [read EXCEPT !.err = TRUE]
    BY <1>4, <2>1, <2>2 DEF Param
  <2>4. Param(read, param) \in Reads /\ Param(read, param).err
    BY ONLY <2>2, <2>3 DEF Reads
  <2>5. a # 0 /\ k + 1 > a + 1 /\ ~(k + 1 < a) /\ k + 1 \notin {a, a + 1}
    BY <1>4, <2>1
  <2> QED BY ONLY <2>4, <2>5 DEF ReadSoFar
<1> QED BY <1>1, <1>2, <1>3, <1>4

\* What eval_lambda_form makes of a vector.
LEMMA FormRead ==
  ASSUME NEW params \in Seq({"&", "name"}), OneAmpersand(params)
  PROVE  LET read == eval_lambda_form(params)
         IN  /\ read \in Reads
             /\ read.err <=> ~(FixedVector(params) \/ RestVector(params))
             /\ FixedVector(params) =>
                  read.has_rest_arg = 0 /\ read.param_count = Len(params)
             /\ RestVector(params) =>
                  read.has_rest_arg = Len(params) - 1 /\ read.param_count = Len(params) - 1
<1> DEFINE n == Len(params)
           base == [param_count |-> 0, has_rest_arg |-> 0, err |-> FALSE]
           after == CHOOSE f : IsReading(f, params, n)
           read == after[n]
<1>1. n \in Nat /\ DOMAIN params = 1 .. n /\ \A k \in 1 .. n : params[k] \in {"&", "name"}
  OBVIOUS
<1>2. PICK a \in 0 .. n : /\ a = 0 => Ampersands(params) = {}
                          /\ a # 0 => Ampersands(params) = {a}
  <2>1. CASE Ampersands(params) = {}
    BY <1>1, <2>1
  <2>2. CASE Ampersands(params) # {}
    <3>1. PICK a \in Ampersands(params) : TRUE
      BY <2>2
    <3>2. Ampersands(params) = {a}
      BY <3>1 DEF OneAmpersand
    <3>3. a \in 1 .. n
      BY <1>1, <3>1 DEF Ampersands
    <3>4. a \in 0 .. n /\ a # 0
      BY <1>1, <3>3
    <3> QED BY <3>2, <3>4
  <2> QED BY <2>1, <2>2
<1>3. \A k \in 1 .. n : /\ a # 0 => (params[k] = "&" <=> k = a)
                        /\ a = 0 => params[k] = "name"
  BY <1>1, <1>2 DEF Ampersands
<1> HIDE DEF n
<1> DEFINE g == after
<1>4. IsReading(g, params, n)
  BY <1>1, ReadingExists
<1>5. g[0] = base /\ \A k \in 1 .. n : g[k] = Param(g[k - 1], params[k])
  <2> HIDE DEF after, n
  <2>1. 0 \in 0 .. n /\ \A k \in 1 .. n : k \in 0 .. n /\ k # 0
    BY <1>1
  <2> QED BY <1>4, <2>1 DEF IsReading
<1>6. read = g[n]
  OBVIOUS
<1> HIDE DEF after
<1>7. ReadSoFar(g[0], 0, a)
  BY <1>5 DEF ReadSoFar, Reads
<1> HIDE DEF read, base
<1>8. ASSUME NEW k \in Nat, k + 1 <= n, ReadSoFar(g[k], k, a)
      PROVE  ReadSoFar(g[k + 1], k + 1, a)
  <2>1. k + 1 \in 1 .. n /\ (k + 1) - 1 = k
    BY <1>1, <1>8
  <2>2. g[k + 1] = Param(g[k], params[k + 1])
    BY <1>5, <2>1
  <2>3. /\ params[k + 1] \in {"&", "name"}
        /\ a # 0 => (params[k + 1] = "&" <=> k + 1 = a)
        /\ a = 0 => params[k + 1] = "name"
    BY <1>1, <1>3, <2>1
  <2>4. a \in Nat
    BY <1>1
  <2> QED BY ONLY <1>8, <2>2, <2>3, <2>4, ParamStep
<1> DEFINE S == {k \in Nat : k <= n => ReadSoFar(g[k], k, a)}
<1>9. n \in S
  <2>1. 0 \in S
    BY <1>7
  <2>2. \A k \in Nat : k \in S => k + 1 \in S
    <3>1. \A k \in Nat : k + 1 <= n => k <= n
      BY <1>1
    <3> QED BY <1>8, <3>1
  <2> HIDE DEF S
  <2> QED BY <1>1, <2>1, <2>2, Induction
<1>10. ReadSoFar(read, n, a)
  BY <1>1, <1>6, <1>9
<1> DEFINE form == eval_lambda_form(params)
           Wrong == \/ read.err
                    \/ read.has_rest_arg # 0 /\ read.param_count # read.has_rest_arg
                    \/ read.param_count > MAX_FN_PARAMS
<1>11. read \in Reads
  BY <1>10 DEF ReadSoFar
<1>12. form = [read EXCEPT !.err = Wrong]
  BY DEF eval_lambda_form, read, base, after, IsReading, n
<1>13. /\ form \in Reads
       /\ form.err <=> Wrong
       /\ form.has_rest_arg = read.has_rest_arg /\ form.param_count = read.param_count
  <2> HIDE DEF form, Wrong
  <2>1. Wrong \in BOOLEAN
    BY DEF Wrong
  <2> QED BY <1>11, <1>12, <2>1 DEF Reads
<1> HIDE DEF form
<1>14. FixedVector(params) <=> a = 0 /\ n <= MAX_FN_PARAMS
  BY <1>1, <1>2 DEF FixedVector, n
<1>15. RestVector(params) <=> a # 0 /\ a = n - 1 /\ n - 1 <= MAX_FN_PARAMS
  BY <1>1, <1>2 DEF RestVector, n
<1>16. MAX_FN_PARAMS \in Nat
  BY MaxAssumption
<1>17. CASE a = 0
  <2>1. ~read.err /\ read.param_count = n /\ read.has_rest_arg = 0
    BY <1>10, <1>17 DEF ReadSoFar
  <2>2. Wrong <=> n > MAX_FN_PARAMS
    BY <2>1
  <2>3. ~RestVector(params) /\ (FixedVector(params) <=> ~Wrong)
    BY <1>1, <1>14, <1>15, <1>16, <1>17, <2>2
  <2> HIDE DEF Wrong
  <2> QED BY <1>13, <2>1, <2>3 DEF form, n
<1>18. CASE a # 0
  <2>1. ~FixedVector(params)
    BY <1>14, <1>18
  <2>2. CASE n > a + 1
    <3>1. read.err
      BY <1>10, <1>18, <2>2 DEF ReadSoFar
    <3>2. ~RestVector(params)
      BY <1>1, <1>15, <2>2
    <3> QED BY <1>13, <2>1, <3>1, <3>2 DEF form
  <2>3. CASE n = a
    <3>1. read.param_count = n - 1 /\ read.has_rest_arg = a
      BY <1>10, <1>18, <2>3 DEF ReadSoFar
    <3>2. ~RestVector(params) /\ Wrong
      BY <1>1, <1>15, <1>18, <2>3, <3>1
    <3> QED BY <1>13, <2>1, <3>2 DEF form
  <2>4. CASE n = a + 1
    <3>1. ~read.err /\ read.param_count = n - 1 /\ read.has_rest_arg = a
      BY <1>10, <1>18, <2>4 DEF ReadSoFar
    <3>2. a = n - 1 /\ n - 1 \in Nat
      BY <1>1, <2>4
    <3>3. Wrong <=> n - 1 > MAX_FN_PARAMS
      BY <3>1, <3>2
    <3>4. RestVector(params) <=> ~Wrong
      BY <1>15, <1>16, <1>18, <3>2, <3>3
    <3> HIDE DEF Wrong
    <3> QED BY <1>13, <2>1, <3>1, <3>2, <3>4 DEF form, n
  <2>5. n > a + 1 \/ n = a \/ n = a + 1
    BY <1>1
  <2> QED BY <2>2, <2>3, <2>4, <2>5
<1> QED BY <1>17, <1>18

----------------------------------------------------------------------------
(***************************************************************************)
(* The inductive invariant.                                                *)
(***************************************************************************)
TypeOK ==
  /\ forms \in Seq(Params)
  /\ lambdas \in [Arities -> Nat \union {NONE}]
  /\ max_param_count \in Nat
  /\ has_rest_arg \in Nat
  /\ err \in BOOLEAN
  /\ made \in BOOLEAN
  /\ partials \in Seq(Nat)

\* The overloads may stand beside one another.
Compatible ==
  /\ Fixed \union Rest = DOMAIN forms
  /\ \A i, j \in Fixed : Len(forms[i]) = Len(forms[j]) => i = j
  /\ \A i, j \in Rest : i = j
  /\ \A i \in Fixed, j \in Rest : Len(forms[i]) <= Len(forms[j]) - 2

\* max_param_count is the greatest number of parameters of those without a rest.
MaxOK ==
  /\ \A i \in Fixed : Len(forms[i]) <= max_param_count
  /\ max_param_count = 0 \/ \E i \in Fixed : Len(forms[i]) = max_param_count

\* has_rest_arg is the number of the rest parameter, 0 if there is none.
RestOK ==
  /\ Rest = {} => has_rest_arg = 0
  /\ \A j \in Rest : has_rest_arg = Len(forms[j]) - 1

\* The array after all overloads so far, in whatever order they came.
LambdasOK ==
  \A n \in Arities :
    /\ \A i \in Fixed : Len(forms[i]) = n => lambdas[n] = i
    /\ (\A i \in Fixed : Len(forms[i]) # n) =>
         /\ \A j \in Rest : Len(forms[j]) - 2 <= n => lambdas[n] = j
         /\ (\A j \in Rest : ~(Len(forms[j]) - 2 <= n)) => lambdas[n] = NONE

TableOK ==
  /\ made => ~err /\ forms # <<>>
  /\ table # NONE =>
       /\ made
       /\ table = [branch |-> [i \in 1 .. TableSize |-> Branch(i - 1)],
                   default |-> IF RestArities # {} THEN Least(RestArities) ELSE NONE]

IInv ==
  /\ TypeOK
  /\ err <=> ~Compatible
  /\ ~err => MaxOK /\ RestOK /\ LambdasOK
  /\ TableOK

AtMostOne == \A params \in Params : OneAmpersand(params)

\* The vectors of a function.
LEMMA Vectors ==
  ASSUME TypeOK, AtMostOne
  PROVE  /\ Len(forms) \in Nat /\ DOMAIN forms = 1 .. Len(forms)
         /\ MAX_FN_PARAMS \in Nat /\ MAX_FN_PARAMS > 0 /\ Arities = 0 .. MAX_FN_PARAMS
         /\ \A i \in DOMAIN forms : Len(forms[i]) \in Nat
         /\ \A i \in Fixed : /\ i \in DOMAIN forms /\ i \in Nat /\ i # NONE
                             /\ Len(forms[i]) \in Arities
                             /\ eval_lambda_form(forms[i]).has_rest_arg = 0
                             /\ eval_lambda_form(forms[i]).param_count = Len(forms[i])
         /\ \A j \in Rest : /\ j \in DOMAIN forms /\ j \in Nat /\ j # NONE
                            /\ Len(forms[j]) >= 2
                            /\ Len(forms[j]) - 2 \in Arities /\ Len(forms[j]) - 1 \in Arities
                            /\ eval_lambda_form(forms[j]).has_rest_arg = Len(forms[j]) - 1
                            /\ eval_lambda_form(forms[j]).param_count = Len(forms[j]) - 1
<1>1. Len(forms) \in Nat /\ DOMAIN forms = 1 .. Len(forms)
  BY DEF TypeOK
<1>2. MAX_FN_PARAMS \in Nat /\ MAX_FN_PARAMS > 0 /\ Arities = 0 .. MAX_FN_PARAMS
  BY MaxAssumption DEF Arities
<1>3. \A i \in DOMAIN forms : forms[i] \in Seq({"&", "name"}) /\ OneAmpersand(forms[i])
  <2>1. \A i \in DOMAIN forms : forms[i] \in Params
    BY DEF TypeOK
  <2> QED BY <2>1, ParamsAssumption DEF AtMostOne
<1>4. \A i \in DOMAIN forms : Len(forms[i]) \in Nat
  BY <1>3
<1>5. \A i \in DOMAIN forms : i \in Nat /\ i # NONE
  BY <1>1, NoneAssumption
<1>6. ASSUME NEW i \in Fixed
      PROVE  /\ i \in DOMAIN forms /\ i \in Nat /\ i # NONE
             /\ Len(forms[i]) \in Arities
             /\ eval_lambda_form(forms[i]).has_rest_arg = 0
             /\ eval_lambda_form(forms[i]).param_count = Len(forms[i])
  <2>1. i \in DOMAIN forms /\ FixedVector(forms[i])
    BY DEF Fixed
  <2>2. Len(forms[i]) \in Arities
    BY <1>2, <1>4, <2>1 DEF FixedVector
  <2> QED BY <1>3, <1>5, <2>1, <2>2, FormRead
<1>7. ASSUME NEW j \in Rest
      PROVE  /\ j \in DOMAIN forms /\ j \in Nat /\ j # NONE
             /\ Len(forms[j]) >= 2
             /\ Len(forms[j]) - 2 \in Arities /\ Len(forms[j]) - 1 \in Arities
             /\ eval_lambda_form(forms[j]).has_rest_arg = Len(forms[j]) - 1
             /\ eval_lambda_form(forms[j]).param_count = Len(forms[j]) - 1
  <2>1. j \in DOMAIN forms /\ RestVector(forms[j])
    BY DEF Rest
  <2>2. Len(forms[j]) >= 2 /\ Len(forms[j]) - 1 <= MAX_FN_PARAMS
    <3>1. Ampersands(forms[j]) = {Len(forms[j]) - 1} /\ Len(forms[j]) - 1 <= MAX_FN_PARAMS
      BY <2>1 DEF RestVector
    <3>2. Len(forms[j]) - 1 \in DOMAIN forms[j]
      BY <3>1 DEF Ampersands
    <3>3. DOMAIN forms[j] = 1 .. Len(forms[j]) /\ Len(forms[j]) \in Nat
      BY <1>3, <2>1
    <3> QED BY <3>1, <3>2, <3>3
  <2>3. Len(forms[j]) - 2 \in Arities /\ Len(forms[j]) - 1 \in Arities
    BY <1>2, <1>4, <2>1, <2>2
  <2> QED BY <1>3, <1>5, <2>1, <2>2, <2>3, FormRead
<1> QED BY <1>1, <1>2, <1>4, <1>6, <1>7

\* No vector is both, and HasRest asks which one an overload has.
LEMMA Kinds ==
  ASSUME TypeOK, AtMostOne
  PROVE  /\ \A i \in Fixed : i \notin Rest
         /\ \A n \in Arities : lambdas[n] \in Fixed => ~HasRest(n)
         /\ \A n \in Arities : lambdas[n] \in Rest => HasRest(n)
<1>1. \A i \in Fixed : eval_lambda_form(forms[i]).has_rest_arg = 0
  BY Vectors
<1>2. \A j \in Rest : eval_lambda_form(forms[j]).has_rest_arg # 0
  <2>1. \A j \in Rest : /\ eval_lambda_form(forms[j]).has_rest_arg = Len(forms[j]) - 1
                        /\ Len(forms[j]) \in Nat /\ Len(forms[j]) >= 2
    BY Vectors
  <2> QED BY <2>1
<1> QED BY ONLY <1>1, <1>2 DEF HasRest

\* Where an overload is found, it is one that takes that many arguments.
LEMMA Found ==
  ASSUME IInv, AtMostOne, ~err, NEW n \in Arities
  PROVE  \/ lambdas[n] = NONE
         \/ lambdas[n] \in Fixed /\ Len(forms[lambdas[n]]) = n
         \/ lambdas[n] \in Rest /\ Len(forms[lambdas[n]]) - 2 <= n
<1>1. LambdasOK
  BY DEF IInv
<1>2. CASE \E i \in Fixed : Len(forms[i]) = n
  BY <1>1, <1>2 DEF LambdasOK
<1>3. CASE \A i \in Fixed : Len(forms[i]) # n
  <2>1. CASE \E j \in Rest : Len(forms[j]) - 2 <= n
    BY <1>1, <1>3, <2>1 DEF LambdasOK
  <2>2. CASE \A j \in Rest : ~(Len(forms[j]) - 2 <= n)
    BY <1>1, <1>3, <2>2 DEF LambdasOK
  <2> QED BY <2>1, <2>2
<1> QED BY <1>2, <1>3

----------------------------------------------------------------------------
(***************************************************************************)
(* An overload more.                                                       *)
(***************************************************************************)
\* What the overloads are when there is one more.
LEMMA OneMore ==
  ASSUME TypeOK, AtMostOne, NEW params \in Params, forms' = Append(forms, params)
  PROVE  LET k == Len(forms) + 1
         IN  /\ forms' \in Seq(Params) /\ DOMAIN forms' = DOMAIN forms \union {k}
             /\ k \notin DOMAIN forms /\ k \in Nat /\ forms'[k] = params
             /\ \A i \in DOMAIN forms : forms'[i] = forms[i]
             /\ Fixed' = IF FixedVector(params) THEN Fixed \union {k} ELSE Fixed
             /\ Rest' = IF RestVector(params) THEN Rest \union {k} ELSE Rest
<1> DEFINE k == Len(forms) + 1
<1>1. Len(forms) \in Nat /\ DOMAIN forms = 1 .. Len(forms) /\ k \in Nat
  BY Vectors
<1>2. /\ forms' \in Seq(Params) /\ DOMAIN forms' = 1 .. k /\ forms'[k] = params
      /\ \A i \in 1 .. Len(forms) : forms'[i] = forms[i]
  BY <1>1 DEF TypeOK
<1>3. 1 .. k = DOMAIN forms \union {k} /\ k \notin DOMAIN forms
  BY <1>1
<1> HIDE DEF k
<1>4. Fixed' = IF FixedVector(params) THEN Fixed \union {k} ELSE Fixed
  BY ONLY <1>1, <1>2, <1>3 DEF Fixed, FixedVector, Ampersands
<1>5. Rest' = IF RestVector(params) THEN Rest \union {k} ELSE Rest
  BY ONLY <1>1, <1>2, <1>3 DEF Rest, RestVector, Ampersands
<1> QED BY <1>1, <1>2, <1>3, <1>4, <1>5 DEF k

\* What a step leaves true of the overloads.
Kept ==
  /\ lambdas' \in [Arities -> Nat \union {NONE}]
  /\ max_param_count' \in Nat
  /\ has_rest_arg' \in Nat
  /\ err' \in BOOLEAN
  /\ err' <=> ~Compatible'
  /\ ~err' => MaxOK' /\ RestOK' /\ LambdasOK'

\* An overload with a rest parameter fills the array from the first place that is its.
LEMMA AddRest ==
  ASSUME IInv, AtMostOne, ~err, NEW params \in Params, forms' = Append(forms, params),
         RestVector(params), add_rest(eval_lambda_form(params))
  PROVE  Kept
<1> DEFINE k == Len(forms) + 1
           r == Len(params) - 1
<1>1. /\ TypeOK /\ Compatible /\ MaxOK /\ RestOK /\ LambdasOK
      /\ params \in Seq({"&", "name"}) /\ OneAmpersand(params)
  BY ParamsAssumption DEF IInv, AtMostOne
<1>2. /\ DOMAIN forms' = DOMAIN forms \union {k} /\ k \notin DOMAIN forms /\ k \in Nat
      /\ forms'[k] = params /\ \A i \in DOMAIN forms : forms'[i] = forms[i]
      /\ Rest' = Rest \union {k}
      /\ Fixed' = IF FixedVector(params) THEN Fixed \union {k} ELSE Fixed
  BY <1>1, OneMore
<1>3. ~FixedVector(params) /\ r \in Nat /\ r >= 1 /\ r <= MAX_FN_PARAMS
  <2>1. Ampersands(params) = {r} /\ r <= MAX_FN_PARAMS
    BY DEF RestVector
  <2>2. r \in DOMAIN params
    BY <2>1 DEF Ampersands
  <2>3. DOMAIN params = 1 .. Len(params) /\ Len(params) \in Nat
    BY <1>1
  <2> QED BY <2>1, <2>2, <2>3 DEF FixedVector
<1>4. eval_lambda_form(params).has_rest_arg = r /\ Len(params) - 2 = r - 1
  <2>1. eval_lambda_form(params).has_rest_arg = Len(params) - 1
    BY <1>1, FormRead
  <2>2. Len(params) \in Nat
    BY <1>1
  <2> QED BY <2>1, <2>2
<1>5. Fixed' = Fixed
  BY <1>2, <1>3
<1>6. Arities = 0 .. MAX_FN_PARAMS /\ MAX_FN_PARAMS \in Nat /\ Arities' = Arities
  BY MaxAssumption DEF Arities
<1> HIDE DEF k, r
<1>7. CASE has_rest_arg # 0
  <2>1. UNCHANGED <<lambdas, max_param_count, has_rest_arg>> /\ err' = TRUE
    BY <1>7 DEF add_rest
  <2>2. PICK j \in Rest : TRUE
    BY <1>1, <1>7 DEF RestOK
  <2>3. j \in Rest' /\ k \in Rest' /\ j # k
    BY <1>2, <2>2 DEF Rest
  <2>4. ~Compatible'
    BY ONLY <2>3 DEF Compatible
  <2> QED BY ONLY <1>1, <2>1, <2>4 DEF Kept, TypeOK
<1>8. CASE has_rest_arg = 0
  <2>1. /\ max_param_count' = max_param_count /\ has_rest_arg' = r
        /\ lambdas' = [n \in Arities |-> IF n >= FillFrom(r) THEN k ELSE lambdas[n]]
        /\ err' = TooMany(max_param_count, r)
    BY <1>4, <1>8 DEF add_rest, k
  <2>2. Rest = {}
    <3>1. \A j \in Rest : Len(forms[j]) - 1 # 0
      <4>1. \A j \in Rest : Len(forms[j]) \in Nat /\ Len(forms[j]) >= 2
        BY <1>1, Vectors
      <4>2. \A m \in Nat : m >= 2 => m - 1 # 0
        OBVIOUS
      <4> QED BY ONLY <4>1, <4>2
    <3> QED BY <1>1, <1>8, <3>1 DEF RestOK
  <2>3. max_param_count \in Nat /\ \A i \in Fixed : Len(forms[i]) \in Nat /\ i \in DOMAIN forms
    BY <1>1, Vectors DEF TypeOK
  <2>4. err' <=> max_param_count >= r
    <3>1. TooMany(max_param_count, r) <=> max_param_count >= r
      BY <1>3, <2>3 DEF TooMany
    <3> QED BY ONLY <2>1, <3>1, Zenon
  <2>5. Rest' = {k}
    BY <1>2, <2>2
  <2>6. Compatible' <=> \A i \in Fixed : Len(forms[i]) <= r - 1
    <3>1. Fixed \union {k} = DOMAIN forms'
      BY <1>1, <1>2, <2>2 DEF Compatible
    <3>2. \A i, j \in Fixed : Len(forms'[i]) = Len(forms'[j]) => i = j
      BY <1>1, <1>2, <2>3 DEF Compatible
    <3>3. Compatible' <=> \A i \in Fixed : Len(forms'[i]) <= Len(forms'[k]) - 2
      BY ONLY <1>5, <2>5, <3>1, <3>2 DEF Compatible
    <3>4. \A i \in Fixed : forms'[i] = forms[i]
      BY <1>2, <2>3
    <3> QED BY ONLY <1>2, <1>4, <3>3, <3>4
  <2>7. err' <=> ~Compatible'
    <3>1. CASE max_param_count >= r
      <4>1. PICK i \in Fixed : Len(forms[i]) = max_param_count
        BY <1>1, <1>3, <2>3, <3>1 DEF MaxOK
      <4>2. ~(Len(forms[i]) <= r - 1)
        BY <1>3, <2>3, <3>1, <4>1
      <4> QED BY <2>4, <2>6, <3>1, <4>2
    <3>2. CASE ~(max_param_count >= r)
      <4>1. \A m \in Nat : m <= max_param_count => m <= r - 1
        BY ONLY <1>3, <2>3, <3>2
      <4>2. \A i \in Fixed : Len(forms[i]) <= r - 1
        BY <1>1, <2>3, <4>1 DEF MaxOK
      <4> QED BY <2>4, <2>6, <3>2, <4>2
    <3> QED BY <3>1, <3>2
  <2>8. \A i \in Fixed : forms'[i] = forms[i]
    BY <1>2, <2>3
  <2>9. MaxOK' /\ RestOK'
    BY ONLY <1>1, <1>2, <1>5, <2>1, <2>5, <2>8 DEF MaxOK, RestOK, r
  <2>10. ASSUME Compatible', NEW n \in Arities
         PROVE  /\ \A i \in Fixed : Len(forms[i]) = n => lambdas'[n] = i
                /\ (\A i \in Fixed : Len(forms[i]) # n) =>
                     /\ r - 1 <= n => lambdas'[n] = k
                     /\ ~(r - 1 <= n) => lambdas'[n] = NONE
    <3>1. lambdas'[n] = IF n >= FillFrom(r) THEN k ELSE lambdas[n]
      BY <2>1
    <3>2. n \in Nat /\ r - 1 \in Arities
      BY <1>3, <1>6
    <3>3. CASE \E i \in Fixed : Len(forms[i]) = n
      <4>1. PICK i \in Fixed : Len(forms[i]) = n
        BY <3>3
      <4>2. n <= r - 1 /\ lambdas[n] = i /\ i # NONE
        BY <1>1, <2>6, <2>10, <4>1, Vectors DEF LambdasOK
      <4>3. ~(n >= FillFrom(r))
        <5>1. n = r - 1 => lambdas[r - 1] # NONE
          BY <4>2
        <5> QED BY ONLY <1>3, <3>2, <4>2, <5>1 DEF FillFrom
      <4>4. lambdas'[n] = i
        BY <3>1, <4>2, <4>3
      <4>5. \A m \in Fixed : Len(forms[m]) = n => m = i
        BY <1>1, <4>1 DEF Compatible
      <4> QED BY ONLY <4>1, <4>4, <4>5
    <3>4. CASE \A i \in Fixed : Len(forms[i]) # n
      <4>1. lambdas[n] = NONE
        BY <1>1, <2>2, <3>4 DEF LambdasOK
      <4>2. CASE r - 1 <= n
        <5>1. n = r - 1 => lambdas[r - 1] = NONE
          BY <4>1
        <5>2. n >= FillFrom(r)
          BY ONLY <1>3, <3>2, <4>2, <5>1 DEF FillFrom
        <5> QED BY <3>1, <3>4, <4>2, <5>2
      <4>3. CASE ~(r - 1 <= n)
        <5>1. ~(n >= FillFrom(r))
          BY ONLY <1>3, <3>2, <4>3 DEF FillFrom
        <5> QED BY <3>1, <3>4, <4>1, <4>3, <5>1
      <4> QED BY <4>2, <4>3
    <3> QED BY <3>3, <3>4
  <2>11. ASSUME Compatible' PROVE LambdasOK'
    <3>1. Len(forms'[k]) - 2 = r - 1
      BY <1>2, <1>4
    <3> QED BY ONLY <1>5, <1>6, <2>5, <2>8, <2>10, <2>11, <3>1 DEF LambdasOK
  <2>12. lambdas' \in [Arities -> Nat \union {NONE}]
    BY <1>1, <1>2, <2>1 DEF TypeOK
  <2>13. max_param_count' \in Nat /\ has_rest_arg' \in Nat /\ err' \in BOOLEAN
    BY <1>3, <2>1, <2>3 DEF TooMany
  <2> QED BY ONLY <2>7, <2>9, <2>11, <2>12, <2>13 DEF Kept
<1> QED BY <1>7, <1>8

\* An overload without one takes its place, if it is free or the rest overload's.
LEMMA AddFixed ==
  ASSUME IInv, AtMostOne, ~err, NEW params \in Params, forms' = Append(forms, params),
         FixedVector(params), add_fixed(eval_lambda_form(params).param_count)
  PROVE  Kept
<1> DEFINE k == Len(forms) + 1
           c == Len(params)
           Conflict == /\ lambdas[c] # NONE
                       /\ \/ has_rest_arg = 0
                          \/ c < has_rest_arg - 1
                          \/ c = has_rest_arg - 1 /\ ~HasRest(c)
           Greater == IF c > max_param_count THEN c ELSE max_param_count
<1>1. /\ TypeOK /\ Compatible /\ MaxOK /\ RestOK /\ LambdasOK
      /\ params \in Seq({"&", "name"}) /\ OneAmpersand(params)
  BY ParamsAssumption DEF IInv, AtMostOne
<1>2. /\ DOMAIN forms' = DOMAIN forms \union {k} /\ k \notin DOMAIN forms /\ k \in Nat
      /\ forms'[k] = params /\ \A i \in DOMAIN forms : forms'[i] = forms[i]
      /\ Fixed' = Fixed \union {k}
      /\ Rest' = IF RestVector(params) THEN Rest \union {k} ELSE Rest
  BY <1>1, OneMore
<1>3. ~RestVector(params) /\ c \in Nat /\ c \in Arities /\ c <= MAX_FN_PARAMS
  <2>1. Ampersands(params) = {} /\ c <= MAX_FN_PARAMS
    BY DEF FixedVector
  <2>2. c \in Nat
    BY <1>1
  <2> QED BY <2>1, <2>2, MaxAssumption DEF RestVector, Arities
<1>4. eval_lambda_form(params).param_count = c
  BY <1>1, FormRead
<1>5. Rest' = Rest
  BY <1>2, <1>3
<1>6. Arities = 0 .. MAX_FN_PARAMS /\ MAX_FN_PARAMS \in Nat /\ Arities' = Arities
  BY MaxAssumption DEF Arities
<1> HIDE DEF k, c
<1>7. /\ \A i \in Fixed : Len(forms[i]) \in Nat /\ i \in DOMAIN forms /\ i # NONE
      /\ \A j \in Rest : Len(forms[j]) \in Nat /\ j \in DOMAIN forms /\ Len(forms[j]) >= 2
      /\ max_param_count \in Nat /\ has_rest_arg \in Nat
  BY <1>1, Vectors DEF TypeOK
<1>8. /\ \A i \in Fixed : forms'[i] = forms[i]
      /\ \A j \in Rest : forms'[j] = forms[j]
  BY <1>2, <1>7
<1>9. \A j \in Rest : has_rest_arg = Len(forms[j]) - 1 /\ has_rest_arg # 0
  <2>1. \A m \in Nat : m >= 2 => m - 1 # 0
    OBVIOUS
  <2> QED BY ONLY <1>1, <1>7, <2>1 DEF RestOK
<1>10. CASE Conflict
  <2>1. UNCHANGED <<lambdas, max_param_count, has_rest_arg>> /\ err' = TRUE
    BY <1>4, <1>10 DEF add_fixed
  <2>2. lambdas[c] \in Fixed /\ Len(forms[lambdas[c]]) = c
    <3>1. lambdas[c] # NONE
      BY <1>10
    <3>2. CASE lambdas[c] \in Rest /\ Len(forms[lambdas[c]]) - 2 <= c
      <4>1. has_rest_arg = Len(forms[lambdas[c]]) - 1 /\ has_rest_arg # 0
        BY <1>9, <3>2
      <4>2. HasRest(c)
        BY <1>1, <1>3, <3>2, Kinds
      <4>3. c < has_rest_arg - 1
        BY <1>10, <4>1, <4>2
      <4>4. ~(Len(forms[lambdas[c]]) - 2 <= c)
        BY <1>3, <1>7, <3>2, <4>1, <4>3
      <4> QED BY <3>2, <4>4
    <3> QED BY <1>3, <3>1, <3>2, Found
  <2>3. /\ lambdas[c] \in Fixed' /\ k \in Fixed' /\ lambdas[c] # k
        /\ Len(forms'[lambdas[c]]) = Len(forms'[k])
    BY <1>2, <1>7, <1>8, <2>2 DEF c
  <2>4. ~Compatible'
    BY ONLY <2>3 DEF Compatible
  <2> QED BY ONLY <1>1, <2>1, <2>4 DEF Kept, TypeOK
<1>11. CASE ~Conflict
  <2>1. /\ has_rest_arg' = has_rest_arg
        /\ max_param_count' = Greater
        /\ lambdas' = [lambdas EXCEPT ![c] = k]
        /\ err' = TooMany(max_param_count', has_rest_arg)
    BY <1>4, <1>11 DEF add_fixed, k
  <2>2. Greater \in Nat /\ c <= Greater /\ max_param_count <= Greater
    BY <1>3, <1>7
  <2>3. Greater = c \/ Greater = max_param_count
    OBVIOUS
  <2> HIDE DEF Greater
  <2>4. \A i \in Fixed : Len(forms[i]) # c
    <3> SUFFICES ASSUME NEW i \in Fixed, Len(forms[i]) = c PROVE FALSE
      OBVIOUS
    <3>1. lambdas[c] = i /\ lambdas[c] # NONE /\ lambdas[c] \in Fixed
      BY <1>1, <1>3, <1>7 DEF LambdasOK
    <3>2. ~HasRest(c)
      BY <1>1, <1>3, <3>1, Kinds
    <3>3. has_rest_arg # 0 /\ ~(c < has_rest_arg - 1) /\ c # has_rest_arg - 1
      BY <1>11, <3>1, <3>2
    <3>4. PICK j \in Rest : TRUE
      BY <1>1, <3>3 DEF RestOK
    <3>5. c <= Len(forms[j]) - 2 /\ has_rest_arg = Len(forms[j]) - 1
      BY <1>1, <1>9, <3>4 DEF Compatible
    <3> QED BY <1>3, <1>7, <3>3, <3>4, <3>5
  <2>5. err' <=> (has_rest_arg # 0 /\ Greater >= has_rest_arg)
    <3>1. TooMany(Greater, has_rest_arg) <=> (has_rest_arg # 0 /\ Greater >= has_rest_arg)
      BY DEF TooMany
    <3> QED BY ONLY <2>1, <3>1, Zenon
  <2>6. Len(forms'[k]) = c
    BY <1>2 DEF c
  <2>7. Compatible' <=> \A j \in Rest : c <= Len(forms[j]) - 2
    <3>1. Fixed \union {k} \union Rest = DOMAIN forms'
      BY <1>1, <1>2 DEF Compatible
    <3>2. \A i, j \in Fixed \union {k} : Len(forms'[i]) = Len(forms'[j]) => i = j
      <4> SUFFICES ASSUME NEW i \in Fixed \union {k}, NEW j \in Fixed \union {k},
                          Len(forms'[i]) = Len(forms'[j])
                   PROVE  i = j
        OBVIOUS
      <4>1. CASE i = k \/ j = k
        <5>1. \A m \in Fixed : Len(forms'[m]) # Len(forms'[k])
          BY ONLY <1>8, <2>4, <2>6
        <5> QED BY ONLY <4>1, <5>1, i \in Fixed \union {k}, j \in Fixed \union {k},
                       Len(forms'[i]) = Len(forms'[j])
      <4>2. CASE i \in Fixed /\ j \in Fixed
        <5>1. Len(forms[i]) = Len(forms[j])
          BY <1>8, <4>2
        <5> QED BY ONLY <1>1, <4>2, <5>1 DEF Compatible
      <4> QED BY <4>1, <4>2
    <3>3. Compatible' <=> \A i \in Fixed \union {k}, j \in Rest :
                            Len(forms'[i]) <= Len(forms'[j]) - 2
      BY ONLY <1>1, <1>2, <1>5, <3>1, <3>2 DEF Compatible
    <3> QED BY ONLY <1>1, <1>8, <2>6, <3>3 DEF Compatible
  <2>8. err' <=> ~Compatible'
    <3>1. CASE Rest = {}
      BY <1>1, <2>5, <2>7, <3>1 DEF RestOK
    <3>2. CASE Rest # {}
      <4>1. PICK j \in Rest : TRUE
        BY <3>2
      <4>2. \A i \in Rest : i = j
        BY <1>1, <4>1 DEF Compatible
      <4>3. has_rest_arg = Len(forms[j]) - 1 /\ has_rest_arg # 0 /\ Len(forms[j]) \in Nat
        BY <1>7, <1>9, <4>1
      <4>4. Compatible' <=> c <= Len(forms[j]) - 2
        BY <2>7, <4>1, <4>2
      <4>5. max_param_count <= Len(forms[j]) - 2
        <5>1. CASE max_param_count = 0
          BY <1>7, <4>1, <5>1
        <5>2. CASE \E i \in Fixed : Len(forms[i]) = max_param_count
          BY <1>1, <4>1, <5>2 DEF Compatible
        <5> QED BY <1>1, <5>1, <5>2 DEF MaxOK
      <4>6. Greater >= has_rest_arg <=> ~(c <= Len(forms[j]) - 2)
        BY <1>3, <1>7, <2>2, <2>3, <4>3, <4>5
      <4> QED BY <2>5, <4>3, <4>4, <4>6
    <3> QED BY <3>1, <3>2
  <2>9. MaxOK'
    <3>1. \A i \in Fixed \union {k} : Len(forms'[i]) <= Greater
      <4>1. \A m \in Nat : m <= max_param_count => m <= Greater
        BY <1>7, <2>2
      <4> QED BY <1>1, <1>7, <1>8, <2>2, <2>6, <4>1 DEF MaxOK
    <3>2. Greater = 0 \/ \E i \in Fixed \union {k} : Len(forms'[i]) = Greater
      BY <1>1, <1>8, <2>3, <2>6 DEF MaxOK
    <3> QED BY ONLY <1>2, <2>1, <3>1, <3>2 DEF MaxOK
  <2>10. RestOK'
    BY ONLY <1>1, <1>5, <1>8, <2>1 DEF RestOK
  <2>11. ASSUME NEW n \in Arities
         PROVE  /\ \A i \in Fixed \union {k} : Len(forms'[i]) = n => lambdas'[n] = i
                /\ (\A i \in Fixed \union {k} : Len(forms'[i]) # n) =>
                     /\ \A j \in Rest : Len(forms'[j]) - 2 <= n => lambdas'[n] = j
                     /\ (\A j \in Rest : ~(Len(forms'[j]) - 2 <= n)) => lambdas'[n] = NONE
    <3>1. DOMAIN lambdas = Arities
      BY <1>1 DEF TypeOK
    <3>2. CASE n = c
      <4>1. lambdas'[n] = k
        BY <2>1, <3>1, <3>2
      <4> QED BY <1>8, <2>4, <2>6, <3>2, <4>1
    <3>3. CASE n # c
      <4>1. lambdas'[n] = lambdas[n]
        BY <2>1, <3>1, <3>3
      <4> QED BY ONLY <1>1, <1>8, <2>6, <3>3, <4>1, n \in Arities DEF LambdasOK
    <3> QED BY <3>2, <3>3
  <2>12. LambdasOK'
    BY ONLY <1>2, <1>5, <1>6, <2>11 DEF LambdasOK
  <2>13. lambdas' \in [Arities -> Nat \union {NONE}]
    BY <1>1, <1>2, <2>1 DEF TypeOK
  <2>14. max_param_count' \in Nat /\ has_rest_arg' \in Nat /\ err' \in BOOLEAN
    BY <1>7, <2>1, <2>2 DEF TooMany
  <2> QED BY ONLY <2>8, <2>9, <2>10, <2>12, <2>13, <2>14 DEF Kept
<1> QED BY <1>10, <1>11

\* One round of eval_lambdas.
LEMMA LambdasStep ==
  ASSUME IInv, AtMostOne, NEW params \in Params, eval_lambdas(params)
  PROVE  IInv'
<1> DEFINE lambda == eval_lambda_form(params)
           k == Len(forms) + 1
<1>1. ~err /\ ~made /\ forms' = Append(forms, params) /\ UNCHANGED <<made, partials, table>>
  BY DEF eval_lambdas
<1>2. /\ params \in Seq({"&", "name"}) /\ OneAmpersand(params) /\ TypeOK
  BY ParamsAssumption DEF IInv, AtMostOne
<1>3. lambda.err <=> ~(FixedVector(params) \/ RestVector(params))
  BY <1>2, FormRead
<1>4. Kept
  <2>1. CASE lambda.err
    <3>1. err' = TRUE /\ UNCHANGED <<lambdas, max_param_count, has_rest_arg>>
      BY <2>1 DEF eval_lambdas
    <3>2. /\ DOMAIN forms' = DOMAIN forms \union {k} /\ k \notin DOMAIN forms
          /\ Fixed' = Fixed /\ Rest' = Rest
      BY <1>1, <1>2, <1>3, <2>1, OneMore
    <3>3. Fixed \subseteq DOMAIN forms /\ Rest \subseteq DOMAIN forms
      BY DEF Fixed, Rest
    <3>4. ~Compatible'
      BY ONLY <3>2, <3>3 DEF Compatible
    <3> QED BY ONLY <1>2, <3>1, <3>4 DEF Kept, TypeOK
  <2>2. CASE ~lambda.err /\ RestVector(params)
    <3>1. lambda.has_rest_arg # 0
      <4>1. lambda.has_rest_arg = Len(params) - 1
        BY <1>2, <2>2, FormRead
      <4>2. Len(params) - 1 \in DOMAIN params
        BY <2>2 DEF RestVector, Ampersands
      <4>3. DOMAIN params = 1 .. Len(params)
        BY <1>2
      <4> QED BY <4>1, <4>2, <4>3
    <3>2. add_rest(lambda)
      BY <2>2, <3>1 DEF eval_lambdas
    <3> QED BY <1>1, <2>2, <3>2, AddRest
  <2>3. CASE ~lambda.err /\ FixedVector(params)
    <3>1. lambda.has_rest_arg = 0
      BY <1>2, <2>3, FormRead
    <3>2. add_fixed(lambda.param_count)
      BY <2>3, <3>1 DEF eval_lambdas
    <3> QED BY <1>1, <2>3, <3>2, AddFixed
  <2> QED BY <1>3, <2>1, <2>2, <2>3
<1>5. forms' \in Seq(Params)
  BY <1>1, <1>2, OneMore
<1>6. TypeOK'
  BY <1>1, <1>2, <1>4, <1>5 DEF TypeOK, Kept, Arities
<1>7. TableOK'
  <2>1. table = NONE
    BY <1>1 DEF IInv, TableOK
  <2> QED BY <1>1, <2>1 DEF TableOK
<1> QED BY <1>4, <1>6, <1>7 DEF IInv, Kept

\* A step that makes no overload.
LEMMA OverloadsUnchanged ==
  ASSUME IInv, UNCHANGED overloads
  PROVE  /\ lambdas' \in [Arities' -> Nat \union {NONE}]
         /\ err' <=> ~Compatible'
         /\ ~err' => MaxOK' /\ RestOK' /\ LambdasOK'
<1>1. UNCHANGED <<forms, lambdas, max_param_count, has_rest_arg, err>>
  BY DEF overloads
<1> QED BY <1>1 DEF IInv, TypeOK, Arities, Compatible, MaxOK, RestOK, LambdasOK, Fixed, Rest

LEMMA InitOK == ASSUME Init PROVE IInv
<1>1. /\ forms = <<>> /\ lambdas = [n \in Arities |-> NONE] /\ max_param_count = 0
      /\ has_rest_arg = 0 /\ err = FALSE /\ made = FALSE /\ partials = <<>> /\ table = NONE
  BY DEF Init
<1>2. Fixed = {} /\ Rest = {} /\ DOMAIN forms = {}
  BY <1>1 DEF Fixed, Rest
<1>3. TypeOK
  <2>1. <<>> \in Seq(Params) /\ <<>> \in Seq(Nat) /\ 0 \in Nat
    OBVIOUS
  <2>2. [n \in Arities |-> NONE] \in [Arities -> Nat \union {NONE}]
    OBVIOUS
  <2> QED BY ONLY <1>1, <2>1, <2>2 DEF TypeOK
<1>4. Compatible /\ MaxOK /\ RestOK
  BY ONLY <1>1, <1>2 DEF Compatible, MaxOK, RestOK
<1>5. LambdasOK
  BY ONLY <1>1, <1>2 DEF LambdasOK
<1>6. TableOK
  BY ONLY <1>1 DEF TableOK
<1> QED BY <1>1, <1>3, <1>4, <1>5, <1>6 DEF IInv

\* What is asked of the table is about the overloads.
LEMMA TableUnchanged ==
  ASSUME UNCHANGED overloads
  PROVE  /\ TableSize' = TableSize /\ RestArities' = RestArities
         /\ Least(RestArities)' = Least(RestArities)
         /\ \A i : Branch(i)' = Branch(i)
<1>1. UNCHANGED <<forms, lambdas>>
  BY DEF overloads
<1>2. Arities' = Arities
  BY DEF Arities
<1>3. RestArities' = RestArities /\ FixedArities' = FixedArities
  BY <1>1, <1>2 DEF RestArities, FixedArities, HasRest
<1> QED BY <1>1, <1>3 DEF TableSize, MaxArity, Branch, Least, Greatest

LEMMA StepOK ==
  ASSUME IInv, AtMostOne, [Next]_vars
  PROVE  IInv'
<1>1. ASSUME NEW params \in Params, eval_lambdas(params) PROVE IInv'
  BY <1>1, LambdasStep
<1>2. ASSUME UNCHANGED overloads, TypeOK', TableOK' PROVE IInv'
  BY <1>2, OverloadsUnchanged DEF IInv
<1>3. CASE make_lval_lambda
  <2>1. UNCHANGED overloads /\ UNCHANGED <<forms, lambdas, max_param_count, has_rest_arg, err>>
    BY <1>3 DEF make_lval_lambda, overloads
  <2>2. ~err /\ forms # <<>> /\ ~made /\ made' = TRUE /\ UNCHANGED <<partials, table>>
    BY <1>3 DEF make_lval_lambda
  <2>3. TypeOK'
    BY <2>1, <2>2, OverloadsUnchanged DEF IInv, TypeOK
  <2>4. table = NONE
    BY <2>2 DEF IInv, TableOK
  <2>5. TableOK'
    BY <2>1, <2>2, <2>4 DEF TableOK
  <2> QED BY <1>2, <2>1, <2>3, <2>5
<1>4. CASE partial_fn
  <2>1. UNCHANGED overloads /\ UNCHANGED <<forms, lambdas, max_param_count, has_rest_arg, err>>
    BY <1>4 DEF partial_fn, overloads
  <2>2. partials' = Append(partials, Len(partials) + 1) /\ UNCHANGED <<made, table>>
    BY <1>4 DEF partial_fn
  <2>3. partials' \in Seq(Nat)
    BY <2>2 DEF IInv, TypeOK
  <2>4. TypeOK'
    BY <2>1, <2>2, <2>3, OverloadsUnchanged DEF IInv, TypeOK
  <2>5. TableOK'
    BY <2>1, <2>2, TableUnchanged DEF IInv, TableOK
  <2> QED BY <1>2, <2>1, <2>4, <2>5
<1>5. CASE switch_on_args_count
  <2>1. UNCHANGED overloads /\ UNCHANGED <<forms, lambdas, max_param_count, has_rest_arg, err>>
    BY <1>5 DEF switch_on_args_count, overloads
  <2>2. made /\ UNCHANGED <<made, partials>>
    BY <1>5 DEF switch_on_args_count
  <2>3. table' = [branch |-> [i \in 1 .. TableSize |-> Branch(i - 1)],
                  default |-> IF RestArities # {} THEN Least(RestArities) ELSE NONE]
    BY <1>5 DEF switch_on_args_count
  <2>4. TypeOK'
    BY <2>1, <2>2, OverloadsUnchanged DEF IInv, TypeOK
  <2>5. TableOK'
    BY <2>1, <2>2, <2>3, TableUnchanged DEF IInv, TableOK
  <2> QED BY <1>2, <2>1, <2>4, <2>5
<1>6. CASE UNCHANGED vars
  <2>1. /\ UNCHANGED overloads
        /\ UNCHANGED <<forms, lambdas, max_param_count, has_rest_arg, err, made, partials, table>>
    BY <1>6 DEF vars, overloads
  <2>2. TypeOK'
    BY <2>1, OverloadsUnchanged DEF IInv, TypeOK
  <2>3. TableOK'
    BY <2>1, TableUnchanged DEF IInv, TableOK
  <2> QED BY <1>2, <2>1, <2>2, <2>3
<1> QED BY <1>1, <1>3, <1>4, <1>5, <1>6 DEF Next

\* What a function is after each overload, each argument given in advance and once it
\* is compiled, in whatever order its overloads come.
THEOREM Invariant == ASSUME AtMostOne PROVE Spec => []IInv
<1>1. Init => IInv
  BY InitOK
<1>2. IInv /\ [Next]_vars => IInv'
  BY StepOK
<1> QED BY <1>1, <1>2, PTL DEF Spec

\* eval_lambdas refuses the overloads that its messages speak of, and no others.
THEOREM OverloadRulesAlways == ASSUME AtMostOne PROVE Spec => []OverloadRules
<1>1. IInv => OverloadRules
  BY DEF IInv, Compatible, OverloadRules
<1> QED BY <1>1, Invariant, PTL

\* The array of overloads says what it should, whatever the order they came in.
THEOREM LambdaByArityAlways == ASSUME AtMostOne PROVE Spec => []LambdaByArity
<1>1. ASSUME IInv, ~err, NEW n \in Arities PROVE lambdas[n] = OverloadFor(n)
  <2>1. Compatible /\ LambdasOK
    BY <1>1 DEF IInv
  <2>2. CASE \E i \in Fixed : Len(forms[i]) = n
    <3>1. (CHOOSE i \in Fixed : Len(forms[i]) = n) \in Fixed
      BY <2>2
    <3>2. Len(forms[CHOOSE i \in Fixed : Len(forms[i]) = n]) = n
      BY <2>2
    <3>3. lambdas[n] = CHOOSE i \in Fixed : Len(forms[i]) = n
      BY <1>1, <2>1, <3>1, <3>2 DEF LambdasOK
    <3> QED BY <2>2, <3>3 DEF OverloadFor
  <2>3. CASE \A i \in Fixed : Len(forms[i]) # n
    <3>1. CASE \E i \in Rest : Len(forms[i]) - 2 <= n
      <4>1. (CHOOSE i \in Rest : Len(forms[i]) - 2 <= n) \in Rest
        BY <3>1
      <4>2. Len(forms[CHOOSE i \in Rest : Len(forms[i]) - 2 <= n]) - 2 <= n
        BY <3>1
      <4>3. lambdas[n] = CHOOSE i \in Rest : Len(forms[i]) - 2 <= n
        BY <1>1, <2>1, <2>3, <4>1, <4>2 DEF LambdasOK
      <4> QED BY <2>3, <3>1, <4>3 DEF OverloadFor
    <3>2. CASE \A i \in Rest : ~(Len(forms[i]) - 2 <= n)
      BY <1>1, <2>1, <2>3, <3>2 DEF LambdasOK, OverloadFor
    <3> QED BY <3>1, <3>2
  <2> QED BY <2>2, <2>3
<1>2. IInv => LambdaByArity
  BY <1>1 DEF LambdaByArity
<1> QED BY <1>2, Invariant, PTL

----------------------------------------------------------------------------
(***************************************************************************)
(* Calling the function.                                                   *)
(***************************************************************************)
\* What is taken over from the arguments, interpreted.
Bound(lambda, args) ==
  [fixed |-> SubSeq(args, 1, MinParams(lambda)),
   rest |-> IF lambda.has_rest_arg # 0
            THEN AsList(From(args, MinParams(lambda))) ELSE NONE]

\* With enough arguments for an overload, operands made of them and parameters loaded
\* from a block are the same as what the interpreter binds.
LEMMA SameBound ==
  ASSUME NEW args \in Seq(Nat), NEW lambda,
         MinParams(lambda) \in Nat, MinParams(lambda) <= Len(args)
  PROVE  /\ Operands(lambda, args) = Bound(lambda, args)
         /\ FromBlock(lambda, args) = Bound(lambda, args)
<1> DEFINE m == MinParams(lambda)
           n == Len(args)
<1>1. m \in Nat /\ n \in Nat /\ m <= n /\ DOMAIN args = 1 .. n
  OBVIOUS
<1>2. From(args, m) = [i \in 1 .. n - m |-> args[m + i]]
  <2>1. SubSeq(args, m + 1, n) = [i \in 1 .. 1 + n - (m + 1) |-> args[i + (m + 1) - 1]]
    BY <1>1
  <2>2. 1 + n - (m + 1) = n - m /\ \A i \in 1 .. n - m : i + (m + 1) - 1 = m + i
    BY <1>1
  <2> QED BY ONLY <2>1, <2>2 DEF From
<1>3. SubSeq(args, 1, m) = [i \in 1 .. m |-> LoadArg(args, i)]
  <2>1. SubSeq(args, 1, m) = [i \in 1 .. 1 + m - 1 |-> args[i + 1 - 1]]
    BY <1>1
  <2>2. 1 + m - 1 = m /\ \A i \in 1 .. m : i + 1 - 1 = i /\ i <= Len(args)
    BY <1>1
  <2> QED BY ONLY <2>1, <2>2 DEF LoadArg
<1>4. From(args, m) = <<>> <=> n - m = 0
  <2>1. CASE n - m = 0
    <3>1. 1 .. n - m = {}
      BY <1>1, <2>1
    <3> QED BY <1>2, <2>1, <3>1
  <2>2. CASE n - m # 0
    <3>1. 1 \in DOMAIN From(args, m)
      BY <1>1, <1>2, <2>2
    <3> QED BY <2>2, <3>1
  <2> QED BY <2>1, <2>2
<1>5. AsList(From(args, m)) = IF n - m = 0 THEN NIL ELSE From(args, m)
  BY <1>4 DEF AsList
<1> HIDE DEF m, n
<1>6. Operands(lambda, args) = Bound(lambda, args)
  BY ONLY <1>2, <1>5 DEF Operands, Bound, m, n
<1>7. FromBlock(lambda, args) = Bound(lambda, args)
  BY ONLY <1>3, <1>5 DEF FromBlock, Bound, listify_args, m, n
<1> QED BY <1>6, <1>7

\* The least and the greatest of some numbers of arguments.
LEMMA Extremes ==
  ASSUME NEW S, S \subseteq Arities, S # {}
  PROVE  /\ Least(S) \in S /\ \A m \in S : Least(S) <= m
         /\ Greatest(S) \in S /\ \A m \in S : m <= Greatest(S)
<1>1. MAX_FN_PARAMS \in Nat /\ S \subseteq 0 .. MAX_FN_PARAMS
  BY MaxAssumption DEF Arities
<1>2. \E n \in S : \A m \in S : n <= m
  <2>1. S \subseteq Nat
    BY <1>1
  <2> QED BY <2>1, HasLeast
<1>3. \E n \in S : \A m \in S : m <= n
  <2> DEFINE T == {m + 1 : m \in S}
  <2>1. T \subseteq 1 .. MAX_FN_PARAMS + 1 /\ T # {} /\ MAX_FN_PARAMS + 1 \in Nat
    <3>1. \A m \in S : m + 1 \in 1 .. MAX_FN_PARAMS + 1
      BY <1>1
    <3>2. PICK m \in S : TRUE
      OBVIOUS
    <3>3. m + 1 \in T
      BY <3>2
    <3> QED BY <1>1, <3>1, <3>3
  <2>2. PICK t \in T : \A k \in T : k <= t
    BY ONLY <2>1, HasGreatest
  <2>3. PICK n \in S : t = n + 1
    BY <2>2
  <2>4. \A m \in S : m + 1 <= n + 1
    BY <2>2, <2>3
  <2>5. \A m \in S : m <= n
    BY <1>1, <2>3, <2>4
  <2> QED BY <2>3, <2>5
<1>4. Least(S) \in S /\ \A m \in S : Least(S) <= m
  BY <1>2 DEF Least
<1>5. Greatest(S) \in S /\ \A m \in S : m <= Greatest(S)
  BY <1>3 DEF Greatest
<1> QED BY <1>4, <1>5

\* The branch that the compiled function takes.
BranchFor(n) == IF n < Len(table.branch) THEN table.branch[n + 1] ELSE table.default

\* It leads to the overload that the array has for that many arguments.
LEMMA Branches ==
  ASSUME IInv, AtMostOne, made, table # NONE, NEW n \in Nat,
         n <= MAX_FN_PARAMS \/ Rest # {}, lambdas[Smaller(n, MAX_FN_PARAMS)] # NONE
  PROVE  /\ BranchFor(n) \in Arities
         /\ lambdas[BranchFor(n)] = lambdas[Smaller(n, MAX_FN_PARAMS)]
<1> DEFINE arity == Smaller(n, MAX_FN_PARAMS)
<1>1. /\ TypeOK /\ ~err /\ Compatible /\ LambdasOK
      /\ table = [branch |-> [i \in 1 .. TableSize |-> Branch(i - 1)],
                  default |-> IF RestArities # {} THEN Least(RestArities) ELSE NONE]
  BY DEF IInv, TableOK
<1>2. MAX_FN_PARAMS \in Nat /\ Arities = 0 .. MAX_FN_PARAMS
  BY MaxAssumption DEF Arities
<1>3. /\ arity \in Arities /\ arity <= n
      /\ n <= MAX_FN_PARAMS => arity = n
      /\ \A l \in Arities : l <= n => l <= arity
  BY <1>2 DEF Smaller
<1> HIDE DEF arity
<1>4. /\ \A i \in Fixed : Len(forms[i]) \in Nat
      /\ \A j \in Rest : /\ Len(forms[j]) \in Nat /\ Len(forms[j]) >= 2 /\ j # NONE
                         /\ Len(forms[j]) - 1 \in Arities
  BY <1>1, Vectors
<1>5. ASSUME TableSize \in Nat
      PROVE  BranchFor(n) = IF n < TableSize THEN Branch(n)
                            ELSE IF RestArities # {} THEN Least(RestArities) ELSE NONE
  <2>1. table.branch = [i \in 1 .. TableSize |-> Branch(i - 1)]
    BY <1>1
  <2>2. Len(table.branch) = TableSize
    BY <1>5, <2>1
  <2>3. CASE n < TableSize
    <3>1. n + 1 \in 1 .. TableSize /\ (n + 1) - 1 = n
      BY <1>5, <2>3
    <3>2. table.branch[n + 1] = Branch(n)
      BY ONLY <2>1, <3>1
    <3> QED BY <2>2, <2>3, <3>2 DEF BranchFor
  <2>4. CASE ~(n < TableSize)
    <3>1. table.default = IF RestArities # {} THEN Least(RestArities) ELSE NONE
      BY ONLY <1>1
    <3> QED BY ONLY <2>2, <2>4, <3>1 DEF BranchFor
  <2> QED BY <2>3, <2>4
<1>6. ASSUME n <= MAX_FN_PARAMS, BranchFor(n) = Branch(n)
      PROVE  BranchFor(n) \in Arities /\ lambdas[BranchFor(n)] = lambdas[arity]
  <2>1. arity = n /\ lambdas[n] # NONE
    BY <1>3, <1>6 DEF arity
  <2>2. BranchFor(n) = n
    BY <1>6, <2>1 DEF Branch
  <2> QED BY <1>3, <2>1, <2>2
<1>7. CASE RestArities = {}
  <2>1. Rest = {}
    <3> SUFFICES ASSUME NEW j \in Rest PROVE FALSE
      OBVIOUS
    <3> DEFINE l == Len(forms[j]) - 1
    <3>1. l \in Arities /\ Len(forms[j]) \in Nat /\ j # NONE
      BY <1>4
    <3>2. \A i \in Fixed : Len(forms[i]) # l
      <4>1. \A i \in Fixed : Len(forms[i]) <= Len(forms[j]) - 2
        BY <1>1 DEF Compatible
      <4>2. \A m \in Nat : m <= Len(forms[j]) - 2 => m # l
        BY <3>1
      <4> QED BY <1>4, <4>1, <4>2
    <3>3. Len(forms[j]) - 2 <= l
      BY <3>1
    <3> HIDE DEF l
    <3>4. lambdas[l] = j
      BY ONLY <1>1, <3>1, <3>2, <3>3, j \in Rest DEF LambdasOK
    <3>5. l \in RestArities
      BY <1>1, <3>1, <3>4, Kinds DEF RestArities
    <3> QED BY <1>7, <3>5
  <2>2. n <= MAX_FN_PARAMS /\ arity = n
    BY <1>3, <2>1
  <2>3. n \in FixedArities
    <3>1. n \in Arities /\ lambdas[n] # NONE
      BY <1>3, <2>2 DEF arity
    <3>2. ~HasRest(n)
      BY <1>7, <3>1 DEF RestArities
    <3> QED BY <3>1, <3>2 DEF FixedArities
  <2>4. Greatest(FixedArities) \in Arities /\ n <= Greatest(FixedArities)
    <3>1. FixedArities \subseteq Arities /\ FixedArities # {}
      BY <2>3 DEF FixedArities
    <3> QED BY <2>3, <3>1, Extremes
  <2>5. TableSize = Greatest(FixedArities) + 1
    BY <1>7 DEF TableSize, MaxArity
  <2>6. TableSize \in Nat /\ n < TableSize
    BY <1>2, <2>4, <2>5
  <2> QED BY <1>5, <1>6, <2>2, <2>6 DEF arity
<1>8. CASE RestArities # {}
  <2> DEFINE l == Least(RestArities)
  <2>1. l \in RestArities
    <3>1. RestArities \subseteq Arities
      BY DEF RestArities
    <3> QED BY <1>8, <3>1, Extremes
  <2> HIDE DEF l
  <2>2. l \in Arities /\ lambdas[l] # NONE /\ HasRest(l)
    BY <2>1 DEF RestArities
  <2>3. PICK j \in Rest : lambdas[l] = j /\ Len(forms[j]) - 2 <= l
    BY <1>1, <2>2, Found, Kinds
  <2>4. TableSize = IF l - 1 >= 0 /\ lambdas[l - 1] = NONE THEN l - 1 ELSE l
    <3>1. MaxArity = l - 1
      BY <1>8 DEF MaxArity, l
    <3>2. (l - 1) + 1 = l
      BY <1>2, <2>2
    <3> QED BY ONLY <1>8, <3>1, <3>2 DEF TableSize
  <2>5. TableSize \in Nat /\ (TableSize = l \/ (TableSize = l - 1 /\ lambdas[l - 1] = NONE))
    BY <1>2, <2>2, <2>4
  <2>6. CASE n < TableSize
    <3>1. n <= MAX_FN_PARAMS
      BY <1>2, <2>2, <2>5, <2>6
    <3> QED BY <1>5, <1>6, <2>5, <2>6, <3>1 DEF arity
  <2>7. CASE ~(n < TableSize)
    <3>1. BranchFor(n) = l
      BY <1>5, <1>8, <2>5, <2>7 DEF l
    <3>2. l <= n
      <4> SUFFICES ASSUME ~(l <= n) PROVE FALSE
        OBVIOUS
      <4>1. n = l - 1 /\ n <= MAX_FN_PARAMS /\ lambdas[l - 1] = NONE
        BY <1>2, <2>2, <2>5, <2>7
      <4>2. arity = n
        BY <1>3, <4>1
      <4> QED BY <4>1, <4>2 DEF arity
    <3>3. l <= arity
      BY <1>3, <2>2, <3>2
    <3>4. \A i \in Fixed : Len(forms[i]) # arity
      <4> SUFFICES ASSUME NEW i \in Fixed, Len(forms[i]) = arity PROVE FALSE
        OBVIOUS
      <4>1. Len(forms[i]) <= Len(forms[j]) - 2
        BY <1>1, <2>3 DEF Compatible
      <4>2. Len(forms[i]) = l
        BY <1>2, <1>3, <1>4, <2>2, <2>3, <3>3, <4>1
      <4>3. lambdas[l] = i
        BY <1>1, <2>2, <4>2 DEF LambdasOK
      <4> QED BY <1>1, <2>3, <4>3, Kinds
    <3>5. Len(forms[j]) - 2 <= arity
      BY <1>2, <1>3, <1>4, <2>2, <2>3, <3>3
    <3>6. lambdas[arity] = j
      BY ONLY <1>1, <1>3, <2>3, <3>4, <3>5 DEF LambdasOK
    <3> QED BY <2>2, <2>3, <3>1, <3>6 DEF arity
  <2> QED BY <2>6, <2>7
<1> QED BY <1>7, <1>8

\* The numbers of arguments a call may have: with a rest parameter, any.
Callable(n) == n >= Len(partials) /\ (n <= MAX_FN_PARAMS \/ has_rest_arg # 0)

\* The two ways of calling a compiled function with n arguments bind what the
\* interpreter binds.
Agree(n) ==
  /\ compile_application(Given(n)) = eval_lambda_call(Given(n))
  /\ eval_lambda_call(Given(n)) # NONE /\ table # NONE =>
       call_fn_by_ref(Given(n)) = eval_lambda_call(Given(n))

LEMMA CallAgrees ==
  ASSUME IInv, AtMostOne, made, NEW n \in Nat, Callable(n)
  PROVE  Agree(n)
<1> DEFINE args == partials \o Given(n)
           arity == Smaller(Len(args), MAX_FN_PARAMS)
<1>1. TypeOK /\ ~err /\ RestOK
  BY DEF IInv, TableOK
<1>2. MAX_FN_PARAMS \in Nat /\ Arities = 0 .. MAX_FN_PARAMS
  BY MaxAssumption DEF Arities
<1>3. n \in Nat /\ Len(partials) \in Nat /\ n - Len(partials) \in Nat
      /\ (n <= MAX_FN_PARAMS \/ has_rest_arg # 0)
  BY <1>1, <1>2 DEF Callable, TypeOK
<1>4. args \in Seq(Nat) /\ Len(args) = n
  <2>1. Given(n) \in Seq(Nat) /\ Len(Given(n)) = n - Len(partials)
    BY <1>3 DEF Given
  <2> QED BY <1>1, <1>3, <2>1 DEF TypeOK
<1>5. arity \in Arities /\ arity <= n /\ arity = Smaller(n, MAX_FN_PARAMS)
  BY <1>2, <1>3, <1>4 DEF Smaller
<1>6. eval_lambda_call(Given(n)) =
        IF lambdas[arity] = NONE THEN NONE ELSE Bound(Lambda(arity), args)
  BY DEF eval_lambda_call, Bound
<1>7. compile_application(Given(n)) =
        IF lambdas[arity] = NONE THEN NONE ELSE Operands(Lambda(arity), args)
  BY DEF compile_application
<1>8. call_fn_by_ref(Given(n)) =
        IF BranchFor(n) = NONE THEN NONE ELSE FromBlock(Lambda(BranchFor(n)), args)
  BY <1>4 DEF call_fn_by_ref, BranchFor
<1> HIDE DEF args, arity
<1>9. CASE lambdas[arity] = NONE
  BY <1>6, <1>7, <1>9 DEF Agree
<1>10. CASE lambdas[arity] # NONE
  <2>1. MinParams(Lambda(arity)) \in Nat /\ MinParams(Lambda(arity)) <= n
    <3>1. CASE lambdas[arity] \in Fixed /\ Len(forms[lambdas[arity]]) = arity
      BY <1>1, <1>2, <1>3, <1>5, <3>1, Vectors DEF Lambda, MinParams
    <3>2. CASE lambdas[arity] \in Rest /\ Len(forms[lambdas[arity]]) - 2 <= arity
      <4> DEFINE m == Len(forms[lambdas[arity]])
      <4>1. /\ Lambda(arity).has_rest_arg = m - 1 /\ Lambda(arity).param_count = m - 1
            /\ m >= 2 /\ m \in Nat
        <5>1. lambdas[arity] \in DOMAIN forms
          BY <3>2 DEF Rest
        <5> QED BY <1>1, <3>2, <5>1, Vectors DEF Lambda
      <4> HIDE DEF m
      <4>2. MinParams(Lambda(arity)) = m - 2
        BY ONLY <4>1 DEF MinParams
      <4>3. m - 2 <= arity
        BY <3>2 DEF m
      <4> QED BY ONLY <1>2, <1>3, <1>5, <4>1, <4>2, <4>3
    <3> QED BY <1>1, <1>5, <1>10, <3>1, <3>2, Found
  <2>2. /\ Operands(Lambda(arity), args) = Bound(Lambda(arity), args)
        /\ FromBlock(Lambda(arity), args) = Bound(Lambda(arity), args)
    BY ONLY <1>4, <2>1, SameBound
  <2>3. ASSUME table # NONE PROVE call_fn_by_ref(Given(n)) = Bound(Lambda(arity), args)
    <3>1. n <= MAX_FN_PARAMS \/ Rest # {}
      BY <1>1, <1>3 DEF RestOK
    <3>2. BranchFor(n) \in Arities /\ lambdas[BranchFor(n)] = lambdas[arity]
      BY <1>3, <1>5, <1>10, <2>3, <3>1, Branches
    <3>3. BranchFor(n) # NONE
      BY <1>2, <3>2, NoneAssumption
    <3>4. Lambda(BranchFor(n)) = Lambda(arity)
      BY <3>2 DEF Lambda
    <3> QED BY ONLY <1>8, <2>2, <3>3, <3>4
  <2> QED BY <1>6, <1>7, <1>10, <2>2, <2>3 DEF Agree
<1> QED BY <1>9, <1>10 DEF Agree

\* A compiled call, direct or by reference (compile_fn_call.c), with as many arguments as
\* a function can have or one more binds what eval_lambda_call binds.
THEOREM CompiledCallsAgreeAlways == ASSUME AtMostOne PROVE Spec => []CompiledCallsAgree
<1>1. ASSUME IInv, made, NEW n \in CallSizes PROVE Agree(n)
  <2>1. MAX_FN_PARAMS \in Nat /\ Len(partials) \in Nat
    BY <1>1, MaxAssumption DEF IInv, TypeOK
  <2>2. n \in Nat /\ Callable(n)
    BY <2>1 DEF CallSizes, Callable
  <2> QED BY <1>1, <2>2, CallAgrees
<1>2. IInv => CompiledCallsAgree
  BY <1>1 DEF CompiledCallsAgree, Agree
<1> QED BY <1>2, Invariant, PTL

\* The same however many arguments go into the rest parameter.
THEOREM AnyNumberOfArguments ==
  ASSUME AtMostOne
  PROVE  Spec => [](made => \A n \in Nat : Callable(n) => Agree(n))
<1>1. IInv => (made => \A n \in Nat : Callable(n) => Agree(n))
  BY CallAgrees
<1> QED BY <1>1, Invariant, PTL
=============================================================================
