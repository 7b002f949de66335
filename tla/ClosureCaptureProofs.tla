------------------------ MODULE ClosureCaptureProofs ------------------------
(***************************************************************************)
(* What ClosureCapture promises, for any names, any nesting and any number *)
(* of variables and captured symbols.                                      *)
(*                                                                         *)
(* Two things are hard.  The block of a function is filled by a loop over  *)
(* the list of what it captured, which changes the function around; so the *)
(* loop is shown to be a sequence of steps, along which an invariant of it *)
(* can be followed by induction.  And a key must tell the captured         *)
(* variables of a function apart: it does because what a function captured *)
(* is always the innermost variable of its name around the function, and   *)
(* what is around it stays as it is until it is left.                      *)
(***************************************************************************)
EXTENDS ClosureCapture, WellFoundedInduction, TLAPS

----------------------------------------------------------------------------
(***************************************************************************)
(* Induction, with a set of numbers for the predicate.                     *)
(***************************************************************************)
\* A set of numbers that is not empty has a least one.
LEMMA HasLeast ==
  ASSUME NEW T, T \subseteq Nat, T # {}
  PROVE  \E m \in T : \A k \in T : m <= k
<1> DEFINE R == {ss \in Nat \X Nat : ss[1] < ss[2]}
<1>1. IsWellFoundedOn(R, Nat)
  BY NatLessThanWellFounded DEF OpToRel
<1>2. \A x, y \in Nat : <<x, y>> \notin R => y <= x
  OBVIOUS
<1> HIDE DEF R
<1>3. PICK m \in T : \A k \in T : <<k, m>> \notin R
  BY <1>1, WFMin
<1>4. \A k \in T : m <= k
  BY ONLY <1>2, <1>3, T \subseteq Nat
<1> QED BY <1>4

\* A set of numbers up to n that is not empty has a greatest one.
LEMMA HasGreatest ==
  ASSUME NEW n \in Nat, NEW T, T \subseteq 1 .. n, T # {}
  PROVE  \E m \in T : \A k \in T : k <= m
<1> DEFINE U == {n - k : k \in T}
<1>1. U \subseteq Nat /\ U # {}
  <2>1. \A k \in T : n - k \in Nat
    OBVIOUS
  <2>2. \A k \in T : n - k \in U
    OBVIOUS
  <2> QED BY <2>1, <2>2
<1>2. PICK u \in U : \A k \in U : u <= k
  <2> HIDE DEF U
  <2> QED BY <1>1, HasLeast
<1>3. PICK m \in T : u = n - m
  OBVIOUS
<1>4. ASSUME NEW k \in T PROVE k <= m
  <2>1. n - m <= n - k
    BY <1>2, <1>3
  <2>2. k \in Nat /\ m \in Nat
    OBVIOUS
  <2> QED BY ONLY <2>1, <2>2, n \in Nat
<1> QED BY <1>4

\* A set with 0 and the successor of each number in it has all numbers.
LEMMA Induction ==
  ASSUME NEW S, 0 \in S, \A k \in Nat : k \in S => k + 1 \in S
  PROVE  Nat \subseteq S
<1> DEFINE T == Nat \ S
<1> SUFFICES ASSUME T # {} PROVE FALSE
  OBVIOUS
<1>1. PICK m \in T : \A k \in T : m <= k
  <2>1. T \subseteq Nat
    OBVIOUS
  <2> HIDE DEF T
  <2> QED BY <2>1, HasLeast
<1>2. m \in Nat /\ m # 0
  OBVIOUS
<1>3. m - 1 \in Nat /\ ~(m <= m - 1) /\ m - 1 + 1 = m
  BY <1>2
<1>4. m - 1 \in T
  BY <1>3
<1> QED BY ONLY <1>1, <1>3, <1>4

\* What has been stored before each captured variable, and after the last one.
IsFilling(f, base, c, n) ==
  f = [k \in 0 .. n |-> IF k = 0 THEN base ELSE Store(f[k - 1], c[k])]

LEMMA FillingExists ==
  ASSUME NEW base, NEW c, NEW n \in Nat
  PROVE  \E f : IsFilling(f, base, c, n)
<1> DEFINE S == {m \in Nat : \E f : IsFilling(f, base, c, m)}
<1>1. 0 \in S
  <2>1. IsFilling([k \in 0 .. 0 |-> base], base, c, 0)
    BY DEF IsFilling
  <2> QED BY <2>1
<1>2. ASSUME NEW m \in Nat, m \in S PROVE m + 1 \in S
  <2>1. PICK f : IsFilling(f, base, c, m)
    BY <1>2
  <2> DEFINE g == [k \in 0 .. m + 1 |-> IF k = m + 1 THEN Store(f[m], c[k]) ELSE f[k]]
  <2>2. ASSUME NEW k \in 0 .. m + 1
        PROVE  g[k] = IF k = 0 THEN base ELSE Store(g[k - 1], c[k])
    <3>1. CASE k = m + 1
      <4>1. k # 0 /\ k - 1 = m /\ m \in 0 .. m + 1 /\ m # m + 1
        BY <3>1
      <4> QED BY <3>1, <4>1
    <3>2. CASE k # m + 1
      <4>1. k \in 0 .. m /\ (k # 0 => k - 1 \in 0 .. m + 1 /\ k - 1 # m + 1)
        BY <3>2
      <4>2. f[k] = IF k = 0 THEN base ELSE Store(f[k - 1], c[k])
        BY <2>1, <4>1 DEF IsFilling
      <4> QED BY <3>2, <4>1, <4>2
    <3> QED BY <3>1, <3>2
  <2>3. IsFilling(g, base, c, m + 1)
    BY <2>2 DEF IsFilling
  <2> HIDE DEF g
  <2> QED BY <2>3
<1> HIDE DEF S
<1>3. n \in S
  BY <1>1, <1>2, Induction
<1> QED BY <1>3 DEF S

----------------------------------------------------------------------------
(***************************************************************************)
(* The inductive invariants.                                               *)
(***************************************************************************)
Variables == [name : Names, number : Nat, depth : Nat]
Entries == [key : Names \union {"lval"}, variable : Variables]
Loads == [variable : Variables, index : Int, new : BOOLEAN]
FunctionContexts == [captured : Seq(Entries), loads : SUBSET Loads]

TypeOK ==
  /\ env \in Seq(Variables)
  /\ fns \in Seq(FunctionContexts)
  /\ Depth > 0

\* The variables of the functions around a depth are the first ones in scope.
Nested(scope, depth) ==
  \E n \in 0 .. Len(scope) : \A i \in DOMAIN scope : scope[i].depth < depth <=> i <= n

ScopesNested ==
  /\ \A i \in DOMAIN env : env[i].depth <= Depth
  /\ \A d \in 1 .. Depth : Nested(env, d)

\* A load that captured its symbol knows the place of it, counted from the end.
PlacesOK(fn) ==
  \A load \in fn.loads :
    load.new => /\ load.index \in 0 .. Len(fn.captured) - 1
                /\ fn.captured[Len(fn.captured) - load.index].variable = load.variable

IInv == TypeOK /\ ScopesNested /\ \A d \in 1 .. Depth : PlacesOK(fns[d])

\* This variable is what its name means just outside of a function of this depth.
Innermost(scope, variable, depth) ==
  \E i \in DOMAIN scope :
    /\ scope[i] = variable
    /\ variable.depth < depth
    /\ \A j \in DOMAIN scope :
         scope[j].name = variable.name /\ scope[j].depth < depth => j <= i

Named(fn, scope, depth) ==
  \A e \in ToSet(fn.captured) :
    e.key = e.variable.name /\ Innermost(scope, e.variable, depth)

Tracked(fn) ==
  \A load \in fn.loads : \E e \in ToSet(fn.captured) : e.variable = load.variable

NamesOK == \A d \in 1 .. Depth : Named(fns[d], env, d) /\ Tracked(fns[d])

\* A name tells the captured variables apart only as long as every key is a name.
KInv == IInv /\ NamesOK

----------------------------------------------------------------------------
(***************************************************************************)
(* One reference.                                                          *)
(***************************************************************************)
\* An index is found only for a key in the list; -1 may also mean one half down it.
LEMMA IndexType ==
  ASSUME NEW alist \in Seq(Entries), NEW key
  PROVE  /\ alist_index_of(alist, key) \in Int
         /\ alist_index_of(alist, key) # -1 => \E e \in ToSet(alist) : e.key = key
<1> DEFINE matches == {i \in 0 .. Len(alist) - 1 : alist[i + 1].key = key}
           first == CHOOSE i \in matches : \A j \in matches : i <= j
<1>1. CASE matches = {}
  BY <1>1 DEF alist_index_of
<1>2. CASE matches # {}
  <2>1. matches \subseteq Nat
    OBVIOUS
  <2>2. first \in matches
    <3> HIDE DEF matches
    <3> QED BY <1>2, <2>1, HasLeast
  <2>3. alist_index_of(alist, key) = (Len(alist) - first) - first - 1
    BY <1>2 DEF alist_index_of
  <2>4. first \in Int /\ first + 1 \in DOMAIN alist /\ alist[first + 1].key = key
    BY <2>2
  <2>5. Len(alist) \in Int
    OBVIOUS
  <2>6. alist[first + 1] \in ToSet(alist)
    BY <2>4 DEF ToSet
  <2> HIDE DEF first, matches
  <2>7. alist_index_of(alist, key) \in Int
    BY ONLY <2>3, <2>4, <2>5
  <2> QED BY <2>4, <2>6, <2>7
<1> QED BY <1>1, <1>2

\* What a reference may change of a function: it captures the variable if it is not its
\* own and the key is not found, and only then; the places of the others stay right.
LEMMA OneReference ==
  ASSUME NEW fn \in FunctionContexts, NEW depth \in Nat,
         NEW key \in Names \union {"lval"}, NEW variable \in Variables
  PROVE  LET after == compile_lval_ref(fn, depth, key, variable)
         IN  /\ after \in FunctionContexts
             /\ PlacesOK(fn) => PlacesOK(after)
             /\ ToSet(fn.captured) \subseteq ToSet(after.captured)
             /\ \A e \in ToSet(after.captured) :
                  \/ e \in ToSet(fn.captured)
                  \/ e.key = key /\ e.variable = variable /\ variable.depth # depth
             /\ \A load \in after.loads :
                  \/ load \in fn.loads
                  \/ load.variable = variable /\ variable.depth # depth
             /\ variable.depth # depth => \E e \in ToSet(after.captured) : e.key = key
<1> DEFINE after == compile_lval_ref(fn, depth, key, variable)
           new == alist_index_of(fn.captured, key) = -1
           entry == [key |-> key, variable |-> variable]
           load == [variable |-> variable, index |-> closure_index(fn.captured, key), new |-> new]
           c == fn.captured
<1>1. CASE variable.depth = depth
  <2>1. after = fn
    BY <1>1 DEF compile_lval_ref
  <2> QED BY <1>1, <2>1
<1>2. CASE variable.depth # depth
  <2>1. after.captured = IF new THEN <<entry>> \o c ELSE c
    BY <1>2 DEF compile_lval_ref, Function
  <2>2. after.loads = fn.loads \union {load}
    BY <1>2 DEF compile_lval_ref, Function
  <2>3. after = Function(after.captured, after.loads)
    BY <1>2 DEF compile_lval_ref, Function
  <2>4. c \in Seq(Entries) /\ Len(c) \in Nat /\ entry \in Entries
    BY DEF FunctionContexts, Entries
  <2>5. load \in Loads
    <3>1. closure_index(c, key) \in Int
      BY <2>4, IndexType DEF closure_index
    <3> QED BY <3>1 DEF Loads
  <2>6. after \in FunctionContexts
    <3>1. <<entry>> \o c \in Seq(Entries)
      BY <2>4
    <3>2. after.captured \in Seq(Entries)
      BY <2>1, <2>4, <3>1
    <3>3. after.loads \in SUBSET Loads
      BY <2>2, <2>5 DEF FunctionContexts
    <3> HIDE DEF after
    <3> QED BY <2>3, <3>2, <3>3 DEF FunctionContexts, Function
  <2> HIDE DEF entry
  <2>7. /\ Len(<<entry>> \o c) = Len(c) + 1
        /\ (<<entry>> \o c)[1] = entry
        /\ \A i \in 1 .. Len(c) : (<<entry>> \o c)[i + 1] = c[i]
    BY <2>4
  <2>8. DOMAIN c = 1 .. Len(c) /\ DOMAIN (<<entry>> \o c) = 1 .. Len(c) + 1
    BY <2>4, <2>7
  <2>9. ToSet(<<entry>> \o c) = ToSet(c) \union {entry}
    <3>1. \A i \in 1 .. Len(c) + 1 : i = 1 \/ (i - 1 \in 1 .. Len(c) /\ (i - 1) + 1 = i)
      BY <2>4
    <3>2. 1 \in 1 .. Len(c) + 1 /\ \A i \in 1 .. Len(c) : i + 1 \in 1 .. Len(c) + 1
      BY <2>4
    <3> DEFINE longer == <<entry>> \o c
    <3> HIDE DEF c, longer
    <3>3. \A i \in DOMAIN longer : longer[i] = entry \/ longer[i] \in ToSet(c)
      BY ONLY <2>7, <2>8, <3>1 DEF ToSet, longer
    <3>4. entry \in ToSet(longer)
      BY ONLY <2>7, <2>8, <3>2 DEF ToSet, longer
    <3>5. \A i \in DOMAIN c : c[i] \in ToSet(longer)
      BY ONLY <2>7, <2>8, <3>2 DEF ToSet, longer
    <3>6. ToSet(longer) \subseteq ToSet(c) \union {entry}
      BY ONLY <3>3 DEF ToSet
    <3>7. ToSet(c) \subseteq ToSet(longer)
      BY ONLY <3>5 DEF ToSet
    <3> QED BY ONLY <3>4, <3>6, <3>7 DEF longer
  <2>10. ASSUME PlacesOK(fn), NEW l \in after.loads, l.new
         PROVE  /\ l.index \in 0 .. Len(after.captured) - 1
                /\ after.captured[Len(after.captured) - l.index].variable = l.variable
    <3>1. CASE l \in fn.loads
      <4>1. l.index \in 0 .. Len(c) - 1 /\ c[Len(c) - l.index].variable = l.variable
        BY <2>10, <3>1 DEF PlacesOK
      <4>2. CASE ~new
        BY <2>1, <4>1, <4>2
      <4>3. CASE new
        <5>1. after.captured = <<entry>> \o c
          BY <2>1, <4>3
        <5>2. /\ Len(c) - l.index \in 1 .. Len(c)
              /\ (Len(c) - l.index) + 1 = (Len(c) + 1) - l.index
              /\ l.index \in 0 .. (Len(c) + 1) - 1
          BY ONLY <4>1, <2>4
        <5> QED BY ONLY <2>7, <4>1, <5>1, <5>2
      <4> QED BY <4>2, <4>3
    <3>2. CASE l = load /\ new
      <4>1. after.captured = <<entry>> \o c
        BY <2>1, <3>2
      <4>2. l.index = Len(c) /\ l.variable = variable
        BY <3>2 DEF closure_index
      <4>3. entry.variable = variable
        BY DEF entry
      <4>4. (Len(c) + 1) - Len(c) = 1 /\ Len(c) \in 0 .. (Len(c) + 1) - 1
        BY <2>4
      <4> QED BY ONLY <2>7, <4>1, <4>2, <4>3, <4>4
    <3>3. l \in fn.loads \/ (l = load /\ new)
      <4>1. l \in fn.loads \/ l = load
        BY <2>2
      <4>2. load.new = new
        OBVIOUS
      <4> HIDE DEF load, new
      <4> QED BY <4>1, <4>2, <2>10
    <3> QED BY <3>1, <3>2, <3>3
  <2>11. PlacesOK(fn) => PlacesOK(after)
    <3> HIDE DEF after
    <3> QED BY <2>10 DEF PlacesOK
  <2>12. entry.key = key /\ entry.variable = variable
    BY DEF entry
  <2>13. \E e \in ToSet(after.captured) : e.key = key
    <3>1. CASE new
      BY <2>1, <2>9, <2>12, <3>1
    <3>2. CASE ~new
      BY <2>1, <2>4, <3>2, IndexType
    <3> QED BY <3>1, <3>2
  <2>14. ToSet(c) \subseteq ToSet(after.captured)
    BY <2>1, <2>9
  <2>15. \A e \in ToSet(after.captured) :
           e \in ToSet(c) \/ (e.key = key /\ e.variable = variable)
    BY <2>1, <2>9, <2>12
  <2>16. \A l \in after.loads : l \in fn.loads \/ l.variable = variable
    BY <2>2
  <2> HIDE DEF after, load, c, new
  <2> QED BY <1>2, <2>6, <2>11, <2>13, <2>14, <2>15, <2>16 DEF after, c
<1> QED BY <1>1, <1>2

----------------------------------------------------------------------------
(***************************************************************************)
(* Scopes.                                                                 *)
(***************************************************************************)
\* Two scopes with the same variables of the functions around this depth.
SameAround(scope, other, depth) ==
  /\ \A i \in DOMAIN scope :
       scope[i].depth < depth => i \in DOMAIN other /\ other[i] = scope[i]
  /\ \A i \in DOMAIN other :
       other[i].depth < depth => i \in DOMAIN scope /\ scope[i] = other[i]

\* What a name means around a function depends on what is around it only.
LEMMA InnermostKept ==
  ASSUME NEW scope, NEW other, NEW depth, NEW variable,
         SameAround(scope, other, depth), Innermost(scope, variable, depth)
  PROVE  Innermost(other, variable, depth)
<1>1. PICK i \in DOMAIN scope :
        /\ scope[i] = variable
        /\ variable.depth < depth
        /\ \A j \in DOMAIN scope :
             scope[j].name = variable.name /\ scope[j].depth < depth => j <= i
  BY DEF Innermost
<1>2. i \in DOMAIN other /\ other[i] = variable
  BY <1>1 DEF SameAround
<1>3. \A j \in DOMAIN other :
        other[j].name = variable.name /\ other[j].depth < depth => j <= i
  BY <1>1 DEF SameAround
<1> QED BY ONLY <1>1, <1>2, <1>3 DEF Innermost

\* Depths are numbers.
LEMMA DepthType ==
  ASSUME NEW scope \in Seq(Variables)
  PROVE  \A i \in DOMAIN scope : scope[i] \in Variables /\ scope[i].depth \in Nat
<1>1. \A i \in DOMAIN scope : scope[i] \in Variables
  OBVIOUS
<1>2. \A v \in Variables : v.depth \in Nat
  BY DEF Variables
<1> QED BY ONLY <1>1, <1>2

\* A name means one variable.
LEMMA InnermostUnique ==
  ASSUME NEW scope \in Seq(Variables), NEW depth, NEW v, NEW w, v.name = w.name,
         Innermost(scope, v, depth), Innermost(scope, w, depth)
  PROVE  v = w
<1>1. PICK i \in DOMAIN scope :
        /\ scope[i] = v
        /\ v.depth < depth
        /\ \A j \in DOMAIN scope :
             scope[j].name = v.name /\ scope[j].depth < depth => j <= i
  BY DEF Innermost
<1>2. PICK k \in DOMAIN scope :
        /\ scope[k] = w
        /\ w.depth < depth
        /\ \A j \in DOMAIN scope :
             scope[j].name = w.name /\ scope[j].depth < depth => j <= k
  BY DEF Innermost
<1>3. k <= i /\ i <= k
  BY ONLY <1>1, <1>2, v.name = w.name
<1>4. i \in Int /\ k \in Int
  OBVIOUS
<1>5. i = k
  BY ONLY <1>3, <1>4
<1> QED BY <1>1, <1>2, <1>5

\* What a name means around a function, it means farther out, if it is from there.
LEMMA InnermostOutside ==
  ASSUME NEW scope \in Seq(Variables), NEW depth \in Nat, NEW outer \in Nat, outer <= depth,
         NEW variable \in Variables, Innermost(scope, variable, depth), variable.depth < outer
  PROVE  Innermost(scope, variable, outer)
<1>1. PICK i \in DOMAIN scope :
        /\ scope[i] = variable
        /\ \A j \in DOMAIN scope :
             scope[j].name = variable.name /\ scope[j].depth < depth => j <= i
  BY DEF Innermost
<1>2. \A j \in DOMAIN scope : scope[j].depth < outer => scope[j].depth < depth
  <2>1. \A j \in DOMAIN scope : scope[j].depth \in Nat
    BY DepthType
  <2>2. \A k \in Nat : k < outer => k < depth
    OBVIOUS
  <2> QED BY ONLY <2>1, <2>2
<1> QED BY <1>1, <1>2 DEF Innermost

\* The functions around a depth keep being first.
LEMMA NestedKept ==
  ASSUME NEW scope \in Seq(Variables), NEW other \in Seq(Variables), NEW depth,
         SameAround(scope, other, depth), Nested(scope, depth)
  PROVE  Nested(other, depth)
<1>1. PICK n \in 0 .. Len(scope) : \A i \in DOMAIN scope : scope[i].depth < depth <=> i <= n
  BY DEF Nested
<1>2. DOMAIN scope = 1 .. Len(scope) /\ DOMAIN other = 1 .. Len(other)
  OBVIOUS
<1>3. Len(scope) \in Nat /\ Len(other) \in Nat
  OBVIOUS
<1>4. n \in 0 .. Len(other)
  <2>1. CASE n = 0
    BY <1>3, <2>1
  <2>2. CASE n # 0
    <3>1. n \in DOMAIN scope /\ n <= n
      BY <1>2, <1>3, <2>2
    <3>2. n \in DOMAIN other
      BY <1>1, <3>1 DEF SameAround
    <3> QED BY <1>2, <1>3, <3>2
  <2> QED BY <2>1, <2>2
<1>5. \A i \in DOMAIN other : i <= n => i \in DOMAIN scope
  BY ONLY <1>2, <1>3, n \in 0 .. Len(scope)
<1>6. \A i \in DOMAIN other : other[i].depth < depth <=> i <= n
  BY ONLY <1>1, <1>5, SameAround(scope, other, depth) DEF SameAround
<1> QED BY ONLY <1>4, <1>6 DEF Nested

\* Taking away variables of the function itself leaves what is around it.
LEMMA Cut ==
  ASSUME NEW scope \in Seq(Variables), NEW depth \in Nat, NEW n \in 0 .. Len(scope),
         \A i \in DOMAIN scope : scope[i].depth < depth => i <= n,
         NEW m \in n .. Len(scope), NEW outer \in 1 .. depth
  PROVE  /\ SubSeq(scope, 1, m) \in Seq(Variables)
         /\ \A i \in DOMAIN SubSeq(scope, 1, m) :
              i \in DOMAIN scope /\ i <= m /\ SubSeq(scope, 1, m)[i] = scope[i]
         /\ SameAround(scope, SubSeq(scope, 1, m), outer)
<1> DEFINE cut == SubSeq(scope, 1, m)
<1>1. m \in 0 .. Len(scope) /\ Len(scope) \in Nat
  OBVIOUS
<1>2. cut \in Seq(Variables) /\ Len(cut) = m /\ \A i \in 1 .. m : cut[i] = scope[i]
  BY <1>1
<1> HIDE DEF cut
<1>3. DOMAIN cut = 1 .. m /\ DOMAIN scope = 1 .. Len(scope)
  BY <1>2
<1>4. \A i \in 1 .. m : i \in 1 .. Len(scope) /\ i <= m
  BY ONLY <1>1
<1>5. \A i \in DOMAIN scope : scope[i].depth < outer => i <= n
  <2>1. \A i \in DOMAIN scope : scope[i].depth \in Nat
    BY DepthType
  <2>2. \A k \in Nat : k < outer => k < depth
    OBVIOUS
  <2> QED BY ONLY <2>1, <2>2, \A i \in DOMAIN scope : scope[i].depth < depth => i <= n
<1>6. \A i \in DOMAIN scope : i <= n => i \in 1 .. m
  BY ONLY <1>1, <1>3, n \in 0 .. Len(scope), m \in n .. Len(scope)
<1>7. SameAround(scope, cut, outer)
  BY ONLY <1>2, <1>3, <1>4, <1>5, <1>6 DEF SameAround
<1> QED BY <1>2, <1>3, <1>4, <1>7 DEF cut

\* Around is what is around the function: all of it, and nothing of its own.
LEMMA AroundScope ==
  ASSUME TypeOK, ScopesNested
  PROVE  \E n \in 0 .. Len(env) :
           /\ Around = SubSeq(env, 1, n)
           /\ \A i \in DOMAIN env : env[i].depth < Depth <=> i <= n
<1> DEFINE P(n) == \A i \in DOMAIN env : env[i].depth < Depth <=> i <= n
           outer == CHOOSE n \in 0 .. Len(env) : P(n)
<1>1. Depth \in 1 .. Depth
  BY DEF TypeOK, Depth
<1>2. \E n \in 0 .. Len(env) : P(n)
  BY <1>1 DEF ScopesNested, Nested
<1>3. outer \in 0 .. Len(env) /\ P(outer)
  <2> HIDE DEF P
  <2> QED BY <1>2
<1>4. Around = SubSeq(env, 1, outer)
  BY DEF Around
<1> HIDE DEF outer
<1> QED BY <1>3, <1>4

----------------------------------------------------------------------------
(***************************************************************************)
(* Leaving a function: the invariants of the fold that fills its block.    *)
(***************************************************************************)
\* The block is filled in the opposite order of the list, whatever that captures.
LEMMA Filling ==
  ASSUME IInv, Depth > 1
  PROVE  /\ Filled.fn \in FunctionContexts
         /\ PlacesOK(Filled.fn)
         /\ DOMAIN Filled.stored = 1 .. Len(Current.captured)
         /\ \A i \in 1 .. Len(Current.captured) :
              Filled.stored[i] =
                Current.captured[Len(Current.captured) + 1 - i].variable
<1> DEFINE c == Current.captured
           n == Len(c)
           base == [fn |-> fns[Depth - 1], block |-> <<>>, stored |-> <<>>]
           P(r, k) == /\ r.fn \in FunctionContexts
                      /\ PlacesOK(r.fn)
                      /\ r.stored \in Seq(Variables)
                      /\ Len(r.stored) = k
                      /\ \A i \in 1 .. k : r.stored[i] = c[k + 1 - i].variable
<1>1. Depth \in Nat /\ Depth - 1 \in 1 .. Depth /\ Depth \in 1 .. Depth /\ Depth - 1 \in Nat
  BY DEF IInv, TypeOK, Depth
<1>2. /\ fns[Depth - 1] \in FunctionContexts /\ fns[Depth] \in FunctionContexts
      /\ PlacesOK(fns[Depth - 1])
  BY <1>1 DEF IInv, TypeOK, Depth
<1>3. c \in Seq(Entries) /\ n \in Nat /\ DOMAIN c = 1 .. n
  BY <1>2 DEF Current, FunctionContexts
<1>4. \A k \in 1 .. n : c[k].key \in Names \union {"lval"} /\ c[k].variable \in Variables
  <2>1. \A k \in 1 .. n : c[k] \in Entries
    BY <1>3
  <2>2. \A e \in Entries : e.key \in Names \union {"lval"} /\ e.variable \in Variables
    BY DEF Entries
  <2> QED BY ONLY <2>1, <2>2
<1> HIDE DEF n, base
<1> DEFINE g == CHOOSE f : IsFilling(f, base, c, n)
<1>5. IsFilling(g, base, c, n)
  <2> HIDE DEF c, P
  <2> QED BY <1>3, FillingExists
<1>6. g[0] = base /\ \A k \in 1 .. n : g[k] = Store(g[k - 1], c[k])
  <2> HIDE DEF c, g, P
  <2>1. 0 \in 0 .. n /\ \A k \in 1 .. n : k \in 0 .. n /\ k # 0
    BY <1>3
  <2> QED BY <1>5, <2>1 DEF IsFilling
<1>7. Filled = g[n]
  BY DEF Filled, base, IsFilling, n
<1> HIDE DEF g
<1>8. P(g[0], 0)
  <2>1. base.fn = fns[Depth - 1] /\ base.stored = <<>>
    BY DEF base
  <2>2. <<>> \in Seq(Variables) /\ Len(<<>>) = 0 /\ 1 .. 0 = {}
    OBVIOUS
  <2> QED BY <1>2, <1>6, <2>1, <2>2
<1>9. ASSUME NEW k \in Nat, k + 1 <= n, P(g[k], k) PROVE P(g[k + 1], k + 1)
  <2> DEFINE r == g[k]
             e == c[k + 1]
             after == compile_lval_ref(r.fn, Depth - 1, e.key, e.variable)
  <2>1. k + 1 \in 1 .. n /\ (k + 1) - 1 = k
    BY <1>3, <1>9
  <2>2. g[k + 1] = Store(r, e)
    BY <1>6, <2>1
  <2>3. e.key \in Names \union {"lval"} /\ e.variable \in Variables
    BY <1>4, <2>1
  <2> HIDE DEF r, e
  <2>4. g[k + 1].fn = after /\ g[k + 1].stored = <<e.variable>> \o r.stored
    BY <2>2 DEF Store
  <2>5. r.fn \in FunctionContexts /\ PlacesOK(r.fn)
    BY <1>9 DEF r
  <2>6. after \in FunctionContexts /\ PlacesOK(after)
    BY <1>1, <2>3, <2>5, OneReference
  <2>7. r.stored \in Seq(Variables) /\ Len(r.stored) = k
    BY <1>9 DEF r
  <2>8. /\ g[k + 1].stored \in Seq(Variables)
        /\ Len(g[k + 1].stored) = k + 1
        /\ g[k + 1].stored[1] = e.variable
        /\ \A i \in 1 .. k : g[k + 1].stored[i + 1] = r.stored[i]
    BY <2>3, <2>4, <2>7
  <2>9. \A i \in 1 .. k + 1 : g[k + 1].stored[i] = c[(k + 1) + 1 - i].variable
    <3>1. \A i \in 1 .. k : r.stored[i] = c[k + 1 - i].variable
      BY <1>9 DEF r
    <3>2. \A i \in 1 .. k + 1 :
            \/ i = 1
            \/ i - 1 \in 1 .. k /\ (i - 1) + 1 = i /\ k + 1 - (i - 1) = (k + 1) + 1 - i
      OBVIOUS
    <3>3. (k + 1) + 1 - 1 = k + 1
      OBVIOUS
    <3> DEFINE s == r.stored
               t == g[k + 1].stored
    <3> HIDE DEF c, s, t
    <3>4. t[1] = c[k + 1].variable /\ \A i \in 1 .. k : t[i + 1] = s[i]
      BY ONLY <2>8 DEF e, s, t
    <3>5. \A i \in 1 .. k : s[i] = c[k + 1 - i].variable
      BY ONLY <3>1 DEF s
    <3>6. \A i \in 1 .. k + 1 : t[i] = c[(k + 1) + 1 - i].variable
      <4> SUFFICES ASSUME NEW i \in 1 .. k + 1 PROVE t[i] = c[(k + 1) + 1 - i].variable
        OBVIOUS
      <4>1. CASE i = 1
        BY ONLY <3>3, <3>4, <4>1
      <4>2. CASE i # 1
        <5>1. i - 1 \in 1 .. k /\ (i - 1) + 1 = i /\ k + 1 - (i - 1) = (k + 1) + 1 - i
          BY <3>2, <4>2
        <5>2. t[(i - 1) + 1] = s[i - 1] /\ s[i - 1] = c[k + 1 - (i - 1)].variable
          BY ONLY <3>4, <3>5, <5>1
        <5> QED BY ONLY <5>1, <5>2
      <4> QED BY <4>1, <4>2
    <3> QED BY ONLY <3>6 DEF t
  <2> QED BY ONLY <2>4, <2>6, <2>8, <2>9
<1> DEFINE S == {k \in Nat : k <= n => P(g[k], k)}
<1>10. n \in S
  <2> HIDE DEF P
  <2>1. 0 \in S
    BY <1>8
  <2>2. \A k \in Nat : k \in S => k + 1 \in S
    <3>1. \A k \in Nat : k + 1 <= n => k <= n
      BY <1>3
    <3> QED BY <1>9, <3>1
  <2> HIDE DEF S
  <2> QED BY <1>3, <2>1, <2>2, Induction
<1>11. P(g[n], n)
  BY <1>3, <1>10
<1>12. DOMAIN Filled.stored = 1 .. n
  BY <1>11, <1>7
<1> QED BY <1>11, <1>7, <1>12 DEF n

\* A reference by name keeps the names of a function apart, and its loads tracked.
LEMMA NamedReference ==
  ASSUME NEW scope \in Seq(Variables), NEW fn \in FunctionContexts, NEW depth \in Nat,
         NEW variable \in Variables, Named(fn, scope, depth), Tracked(fn),
         variable.depth # depth => Innermost(scope, variable, depth)
  PROVE  LET after == compile_lval_ref(fn, depth, variable.name, variable)
         IN  /\ after \in FunctionContexts
             /\ Named(after, scope, depth)
             /\ Tracked(after)
             /\ ToSet(fn.captured) \subseteq ToSet(after.captured)
             /\ variable.depth # depth =>
                  \E e \in ToSet(after.captured) : e.variable = variable
<1> DEFINE key == variable.name
           after == compile_lval_ref(fn, depth, key, variable)
<1>1. key \in Names \union {"lval"}
  BY DEF Variables
<1> HIDE DEF key
<1>2. /\ after \in FunctionContexts
      /\ PlacesOK(fn) => PlacesOK(after)
      /\ ToSet(fn.captured) \subseteq ToSet(after.captured)
      /\ \A e \in ToSet(after.captured) :
           \/ e \in ToSet(fn.captured)
           \/ e.key = key /\ e.variable = variable /\ variable.depth # depth
      /\ \A load \in after.loads :
           \/ load \in fn.loads
           \/ load.variable = variable /\ variable.depth # depth
      /\ variable.depth # depth => \E e \in ToSet(after.captured) : e.key = key
  BY ONLY <1>1, fn \in FunctionContexts, depth \in Nat, variable \in Variables, OneReference
<1> HIDE DEF after
<1> USE DEF key
<1>3. Named(after, scope, depth)
  BY <1>2 DEF Named
<1>4. variable.depth # depth => \E e \in ToSet(after.captured) : e.variable = variable
  <2> SUFFICES ASSUME variable.depth # depth
               PROVE  \E e \in ToSet(after.captured) : e.variable = variable
    OBVIOUS
  <2>1. PICK e \in ToSet(after.captured) : e.key = variable.name
    BY <1>2
  <2>2. e.variable.name = variable.name /\ Innermost(scope, e.variable, depth)
    BY <1>3, <2>1 DEF Named
  <2>3. e.variable = variable
    BY <2>2, InnermostUnique
  <2> QED BY <2>3
<1>5. Tracked(after)
  BY <1>2, <1>4 DEF Tracked
<1> QED BY <1>2, <1>3, <1>4, <1>5 DEF after

\* What the function captured is handed down, and captured in turn if it is not at hand.
LEMMA HandingDown ==
  ASSUME KInv, Depth > 1
  PROVE  /\ Named(Filled.fn, env, Depth - 1)
         /\ Tracked(Filled.fn)
         /\ \A i \in DOMAIN Current.captured :
              Current.captured[i].variable.depth # Depth - 1 =>
                \E e \in ToSet(Filled.fn.captured) :
                  e.variable = Current.captured[i].variable
<1> DEFINE c == Current.captured
           n == Len(c)
           base == [fn |-> fns[Depth - 1], block |-> <<>>, stored |-> <<>>]
           HasEntry(fn, i) == c[i].variable.depth # Depth - 1 =>
                                \E e \in ToSet(fn.captured) : e.variable = c[i].variable
           P(fn, k) == /\ fn \in FunctionContexts
                       /\ Named(fn, env, Depth - 1)
                       /\ Tracked(fn)
                       /\ \A i \in 1 .. k : HasEntry(fn, i)
<1>1. /\ Depth \in Nat /\ Depth - 1 \in 1 .. Depth /\ Depth \in 1 .. Depth
      /\ Depth - 1 \in Nat /\ Depth - 1 <= Depth
  BY DEF KInv, IInv, TypeOK, Depth
<1>2. /\ fns[Depth - 1] \in FunctionContexts /\ fns[Depth] \in FunctionContexts
      /\ env \in Seq(Variables)
      /\ Named(fns[Depth - 1], env, Depth - 1) /\ Tracked(fns[Depth - 1])
      /\ Named(fns[Depth], env, Depth)
  BY <1>1 DEF KInv, NamesOK, IInv, TypeOK, Depth
<1>3. c \in Seq(Entries) /\ n \in Nat /\ DOMAIN c = 1 .. n
  BY <1>2 DEF Current, FunctionContexts
<1>4. \A k \in 1 .. n :
        /\ c[k].variable \in Variables /\ c[k].key = c[k].variable.name
        /\ c[k].variable.depth # Depth - 1 => Innermost(env, c[k].variable, Depth - 1)
  <2> SUFFICES ASSUME NEW k \in 1 .. n
               PROVE  /\ c[k].variable \in Variables /\ c[k].key = c[k].variable.name
                      /\ c[k].variable.depth # Depth - 1 =>
                           Innermost(env, c[k].variable, Depth - 1)
    OBVIOUS
  <2> DEFINE v == c[k].variable
  <2>1. c[k] \in Entries /\ c[k] \in ToSet(c)
    BY <1>3 DEF ToSet
  <2>2. v \in Variables
    BY <2>1 DEF Entries
  <2>3. c[k].key = v.name /\ Innermost(env, v, Depth)
    BY <1>2, <2>1 DEF Named, Current
  <2> HIDE DEF v
  <2>4. v.depth \in Nat /\ v.depth < Depth
    BY <2>2, <2>3 DEF Variables, Innermost
  <2>5. v.depth # Depth - 1 => v.depth < Depth - 1
    BY ONLY <1>1, <2>4
  <2>6. v.depth # Depth - 1 => Innermost(env, v, Depth - 1)
    BY <1>1, <1>2, <2>2, <2>3, <2>5, InnermostOutside
  <2> QED BY <2>2, <2>3, <2>6 DEF v
<1> HIDE DEF n, base
<1> DEFINE g == CHOOSE f : IsFilling(f, base, c, n)
<1>5. IsFilling(g, base, c, n)
  <2> HIDE DEF c, P, HasEntry
  <2> QED BY <1>3, FillingExists
<1>6. g[0] = base /\ \A k \in 1 .. n : g[k] = Store(g[k - 1], c[k])
  <2> HIDE DEF c, g, P, HasEntry
  <2>1. 0 \in 0 .. n /\ \A k \in 1 .. n : k \in 0 .. n /\ k # 0
    BY <1>3
  <2> QED BY <1>5, <2>1 DEF IsFilling
<1>7. Filled = g[n]
  BY DEF Filled, base, IsFilling, n
<1> HIDE DEF g
<1>8. P(g[0].fn, 0)
  <2>1. g[0].fn = fns[Depth - 1] /\ 1 .. 0 = {}
    BY <1>6 DEF base
  <2> QED BY <1>2, <2>1
<1>9. ASSUME NEW k \in Nat, k + 1 <= n, P(g[k].fn, k) PROVE P(g[k + 1].fn, k + 1)
  <2> DEFINE fn == g[k].fn
             v == c[k + 1].variable
             after == compile_lval_ref(fn, Depth - 1, v.name, v)
  <2>1. k + 1 \in 1 .. n /\ (k + 1) - 1 = k
    BY <1>3, <1>9
  <2>2. /\ v \in Variables /\ c[k + 1].key = v.name
        /\ v.depth # Depth - 1 => Innermost(env, v, Depth - 1)
    BY <1>4, <2>1
  <2>3. g[k + 1].fn = after
    <3>1. g[k + 1] = Store(g[k], c[k + 1])
      BY <1>6, <2>1
    <3> QED BY <2>2, <3>1 DEF Store
  <2>4. fn \in FunctionContexts /\ Named(fn, env, Depth - 1) /\ Tracked(fn)
    BY <1>9
  <2> HIDE DEF fn
  <2>5. /\ after \in FunctionContexts
        /\ Named(after, env, Depth - 1)
        /\ Tracked(after)
        /\ ToSet(fn.captured) \subseteq ToSet(after.captured)
        /\ v.depth # Depth - 1 => \E e \in ToSet(after.captured) : e.variable = v
    <3> HIDE DEF v
    <3> QED BY ONLY <1>1, <1>2, <2>2, <2>4, NamedReference
  <2>6. \A i \in 1 .. k : HasEntry(fn, i)
    BY <1>9 DEF fn
  <2> HIDE DEF after
  <2>7. \A i \in 1 .. k + 1 : HasEntry(after, i)
    <3>1. HasEntry(after, k + 1)
      BY <2>5
    <3>2. \A i \in 1 .. k : HasEntry(after, i)
      BY ONLY <2>5, <2>6
    <3>3. \A i \in 1 .. k + 1 : i \in 1 .. k \/ i = k + 1
      OBVIOUS
    <3> HIDE DEF HasEntry
    <3> QED BY ONLY <3>1, <3>2, <3>3
  <2> HIDE DEF HasEntry
  <2> QED BY ONLY <2>3, <2>5, <2>7
<1> DEFINE S == {k \in Nat : k <= n => P(g[k].fn, k)}
<1>10. n \in S
  <2> HIDE DEF P
  <2>1. 0 \in S
    BY <1>8
  <2>2. \A k \in Nat : k \in S => k + 1 \in S
    <3>1. \A k \in Nat : k + 1 <= n => k <= n
      BY <1>3
    <3> QED BY <1>9, <3>1
  <2> HIDE DEF S
  <2> QED BY <1>3, <2>1, <2>2, Induction
<1>11. P(g[n].fn, n)
  BY <1>3, <1>10
<1> QED BY <1>3, <1>11, <1>7

----------------------------------------------------------------------------
(***************************************************************************)
(* The steps of the compiler.                                              *)
(***************************************************************************)
\* The types a step relies on.
LEMMA Types ==
  ASSUME IInv
  PROVE  /\ Depth \in Nat /\ Depth > 0 /\ DOMAIN fns = 1 .. Depth
         /\ \A d \in 1 .. Depth : fns[d] \in FunctionContexts /\ PlacesOK(fns[d])
         /\ env \in Seq(Variables) /\ fns \in Seq(FunctionContexts)
         /\ Len(env) \in Nat /\ DOMAIN env = 1 .. Len(env)
         /\ \A i \in DOMAIN env :
              env[i] \in Variables /\ env[i].depth \in Nat /\ env[i].depth <= Depth
<1>1. Depth \in Nat /\ Depth > 0 /\ DOMAIN fns = 1 .. Depth
  BY DEF IInv, TypeOK, Depth
<1>2. \A d \in 1 .. Depth : fns[d] \in FunctionContexts /\ PlacesOK(fns[d])
  BY <1>1 DEF IInv, TypeOK
<1>3. /\ env \in Seq(Variables) /\ fns \in Seq(FunctionContexts)
      /\ Len(env) \in Nat /\ DOMAIN env = 1 .. Len(env)
  BY DEF IInv, TypeOK
<1>4. \A i \in DOMAIN env : env[i] \in Variables /\ env[i].depth \in Nat
  BY <1>3, DepthType
<1>5. \A i \in DOMAIN env : env[i].depth <= Depth
  BY DEF IInv, ScopesNested
<1> QED BY <1>1, <1>2, <1>3, <1>4, <1>5

\* A step that changes variables of the current function only.
LEMMA ScopeStep ==
  ASSUME IInv, UNCHANGED fns, env' \in Seq(Variables),
         \A i \in DOMAIN env' : env'[i].depth <= Depth,
         \A d \in 1 .. Depth : SameAround(env, env', d)
  PROVE  IInv' /\ (NamesOK => NamesOK')
<1>1. Depth' = Depth /\ fns' = fns
  BY DEF Depth
<1>2. env \in Seq(Variables)
  BY Types
<1>3. TypeOK'
  BY <1>1 DEF IInv, TypeOK
<1>4. ASSUME NEW d \in 1 .. Depth PROVE Nested(env', d)
  <2>1. Nested(env, d) /\ SameAround(env, env', d)
    BY DEF IInv, ScopesNested
  <2> QED BY ONLY <1>2, <2>1, env' \in Seq(Variables), NestedKept
<1>5. ScopesNested'
  BY <1>1, <1>4 DEF ScopesNested, Nested
<1>6. (\A d \in 1 .. Depth : PlacesOK(fns[d]))'
  BY <1>1 DEF IInv, PlacesOK
<1>7. ASSUME NamesOK, NEW d \in 1 .. Depth PROVE Named(fns[d], env', d) /\ Tracked(fns[d])
  <2>1. Named(fns[d], env, d) /\ Tracked(fns[d]) /\ SameAround(env, env', d)
    BY <1>7 DEF NamesOK
  <2>2. ASSUME NEW e \in ToSet(fns[d].captured) PROVE Innermost(env', e.variable, d)
    <3>1. Innermost(env, e.variable, d)
      BY <2>1 DEF Named
    <3> QED BY ONLY <2>1, <3>1, InnermostKept
  <2> QED BY <2>1, <2>2 DEF Named
<1>8. NamesOK => NamesOK'
  BY <1>1, <1>7 DEF NamesOK
<1> QED BY <1>3, <1>5, <1>6, <1>8 DEF IInv

\* A new variable is the current function's own.
LEMMA BindStep ==
  ASSUME IInv, NEW name \in Names, bind(name)
  PROVE  IInv' /\ (NamesOK => NamesOK')
<1> DEFINE v == Variable(name, Len(env) + 1, Depth)
<1>1. v \in Variables /\ v.depth = Depth /\ UNCHANGED fns /\ env' = Append(env, v)
  BY Types DEF bind, Variables, Variable
<1> HIDE DEF v
<1>2. /\ env' \in Seq(Variables) /\ DOMAIN env' = 1 .. Len(env) + 1
      /\ env'[Len(env) + 1] = v /\ \A i \in 1 .. Len(env) : env'[i] = env[i]
  BY <1>1, Types
<1>3. \A i \in 1 .. Len(env) + 1 : i \in 1 .. Len(env) \/ i = Len(env) + 1
  BY Types
<1>4. \A i \in DOMAIN env' : env'[i].depth <= Depth
  <2>1. \A i \in 1 .. Len(env) : env[i].depth <= Depth
    BY Types DEF IInv, ScopesNested
  <2>2. Depth <= Depth
    BY Types
  <2> QED BY ONLY <1>1, <1>2, <1>3, <2>1, <2>2
<1>5. ASSUME NEW d \in 1 .. Depth PROVE SameAround(env, env', d)
  <2>1. ~(v.depth < d)
    BY <1>1, Types
  <2>2. \A i \in 1 .. Len(env) : i \in 1 .. Len(env) + 1
    BY Types
  <2>3. DOMAIN env = 1 .. Len(env)
    BY Types
  <2> QED BY ONLY <1>2, <1>3, <2>1, <2>2, <2>3 DEF SameAround
<1> QED BY <1>1, <1>2, <1>4, <1>5, ScopeStep

\* Variables of the current function are given up.
LEMMA CutStep ==
  ASSUME IInv, NEW m \in 0 .. Len(env), env' = SubSeq(env, 1, m), UNCHANGED fns,
         NEW n \in 0 .. m, \A i \in DOMAIN env : env[i].depth < Depth <=> i <= n
  PROVE  IInv' /\ (NamesOK => NamesOK')
<1>1. env \in Seq(Variables) /\ Depth \in Nat /\ Len(env) \in Nat
  BY Types
<1>2. n \in 0 .. Len(env) /\ m \in n .. Len(env)
  BY <1>1
<1>3. ASSUME NEW d \in 1 .. Depth
      PROVE  /\ env' \in Seq(Variables)
             /\ \A i \in DOMAIN env' : i \in DOMAIN env /\ i <= m /\ env'[i] = env[i]
             /\ SameAround(env, env', d)
  BY <1>1, <1>2, Cut
<1>4. Depth \in 1 .. Depth
  BY Types
<1>5. \A i \in DOMAIN env' : env'[i].depth <= Depth
  BY <1>3, <1>4 DEF IInv, ScopesNested
<1>6. env' \in Seq(Variables)
  BY <1>3, <1>4
<1>7. \A d \in 1 .. Depth : SameAround(env, env', d)
  BY <1>3
<1> QED BY <1>5, <1>6, <1>7, ScopeStep

\* A let that ends leaves what is around the function.
LEMMA LeaveLetStep ==
  ASSUME IInv, leave_let
  PROVE  IInv' /\ (NamesOK => NamesOK')
<1>1. PICK n \in 0 .. Len(env) :
        /\ Around = SubSeq(env, 1, n)
        /\ \A i \in DOMAIN env : env[i].depth < Depth <=> i <= n
  BY AroundScope DEF IInv
<1>2. env \in Seq(Variables) /\ Len(env) \in Nat
  BY Types
<1>3. SubSeq(env, 1, Len(env)) = env
  BY <1>2
<1>4. n # Len(env)
  BY <1>1, <1>3 DEF leave_let
<1>5. Len(env) - 1 \in 0 .. Len(env) /\ n \in 0 .. Len(env) - 1
  BY <1>2, <1>4
<1>6. env' = SubSeq(env, 1, Len(env) - 1) /\ UNCHANGED fns
  BY DEF leave_let, Front
<1> QED BY <1>1, <1>5, <1>6, CutStep

\* So does an arity that begins.
LEMMA NextArityStep ==
  ASSUME IInv, next_arity
  PROVE  IInv' /\ (NamesOK => NamesOK')
<1>1. PICK n \in 0 .. Len(env) :
        /\ Around = SubSeq(env, 1, n)
        /\ \A i \in DOMAIN env : env[i].depth < Depth <=> i <= n
  BY AroundScope DEF IInv
<1>2. n \in 0 .. n
  BY Types
<1>3. env' = SubSeq(env, 1, n) /\ UNCHANGED fns
  BY <1>1 DEF next_arity
<1> QED BY <1>1, <1>2, <1>3, CutStep

\* The variable a symbol stands for is what its name means around the function, if it
\* is none of the function's own.
LEMMA UseStep ==
  ASSUME IInv, NEW name \in Names, NEW use \in Uses, use_symbol(name, use)
  PROVE  IInv' /\ (Uses \subseteq {"value"} /\ NamesOK => NamesOK')
<1> DEFINE namesakes == {i \in DOMAIN env : env[i].name = name}
           last == CHOOSE i \in namesakes : \A j \in namesakes : j <= i
           variable == env[last]
           fn == compile_lval_ref(Current, Depth, Key(name, use), variable)
<1>1. namesakes # {} /\ fns' = [fns EXCEPT ![Depth] = fn] /\ UNCHANGED env
  BY DEF use_symbol
<1>2. last \in namesakes /\ \A j \in namesakes : j <= last
  <2>1. namesakes \subseteq 1 .. Len(env) /\ Len(env) \in Nat
    BY Types
  <2> HIDE DEF namesakes
  <2>2. \E i \in namesakes : \A j \in namesakes : j <= i
    BY ONLY <1>1, <2>1, HasGreatest
  <2> QED BY <2>2
<1> HIDE DEF last
<1>3. /\ last \in DOMAIN env /\ variable \in Variables /\ variable.name = name
      /\ variable.depth \in Nat /\ variable.depth <= Depth
  BY <1>2, Types
<1>4. Depth \in Nat /\ Depth \in 1 .. Depth /\ Current \in FunctionContexts /\ PlacesOK(Current)
  BY Types DEF Current
<1>5. Key(name, use) \in Names \union {"lval"}
  BY DEF Key
<1> DEFINE key == Key(name, use)
<1> HIDE DEF variable
<1>6. fn \in FunctionContexts /\ PlacesOK(fn)
  <2> HIDE DEF key
  <2>1. key \in Names \union {"lval"}
    BY <1>5 DEF key
  <2>2. PlacesOK(Current) => PlacesOK(compile_lval_ref(Current, Depth, key, variable))
    BY ONLY <1>3, <1>4, <2>1, OneReference
  <2>3. compile_lval_ref(Current, Depth, key, variable) \in FunctionContexts
    BY ONLY <1>3, <1>4, <2>1, OneReference
  <2> QED BY <1>4, <2>2, <2>3 DEF key
<1>7. variable.depth # Depth => Innermost(env, variable, Depth)
  <2> SUFFICES ASSUME variable.depth # Depth PROVE Innermost(env, variable, Depth)
    OBVIOUS
  <2>1. variable.depth < Depth
    BY ONLY <1>3, <1>4, variable.depth # Depth
  <2>2. \A j \in DOMAIN env : env[j].name = variable.name => j <= last
    BY <1>2, <1>3
  <2>3. last \in DOMAIN env /\ env[last] = variable
    BY <1>3 DEF variable
  <2> QED BY ONLY <2>1, <2>2, <2>3 DEF Innermost
<1> HIDE DEF fn
<1>8. /\ fns' \in Seq(FunctionContexts) /\ Depth' = Depth /\ env' = env
      /\ fns'[Depth] = fn /\ \A d \in 1 .. Depth : d # Depth => fns'[d] = fns[d]
  <2>1. /\ fns' \in Seq(FunctionContexts) /\ Len(fns') = Len(fns)
        /\ fns'[Depth] = fn /\ \A d \in 1 .. Depth : d # Depth => fns'[d] = fns[d]
    BY <1>1, <1>4, <1>6, Types
  <2> QED BY <1>1, <2>1 DEF Depth
<1>9. IInv'
  <2>1. TypeOK'
    BY <1>8 DEF IInv, TypeOK
  <2>2. ScopesNested'
    BY <1>8 DEF IInv, ScopesNested
  <2>3. \A d \in 1 .. Depth : PlacesOK(fns'[d])
    BY <1>6, <1>8, Types
  <2>4. (\A d \in 1 .. Depth : PlacesOK(fns[d]))'
    BY <1>8, <2>3 DEF PlacesOK
  <2> QED BY <2>1, <2>2, <2>4 DEF IInv
<1>10. ASSUME Uses \subseteq {"value"}, NamesOK PROVE NamesOK'
  <2>1. fn = compile_lval_ref(Current, Depth, variable.name, variable)
    <3>1. Key(name, use) = variable.name
      BY <1>3, <1>10 DEF Key
    <3> QED BY <3>1 DEF fn
  <2>2. Named(Current, env, Depth) /\ Tracked(Current)
    BY <1>4, <1>10 DEF NamesOK, Current
  <2>3. env \in Seq(Variables)
    BY Types
  <2>4. Named(fn, env, Depth) /\ Tracked(fn)
    BY <1>3, <1>4, <1>7, <2>1, <2>2, <2>3, NamedReference
  <2>5. \A d \in 1 .. Depth : Named(fns'[d], env, d) /\ Tracked(fns'[d])
    BY ONLY <1>8, <1>10, <2>4 DEF NamesOK
  <2> QED BY ONLY <1>8, <2>5 DEF NamesOK, Named, Tracked, Innermost
<1> QED BY <1>9, <1>10

\* A function that is begun has captured nothing yet.
LEMMA EnterStep ==
  ASSUME IInv, enter_lambda
  PROVE  IInv' /\ (NamesOK => NamesOK')
<1> DEFINE fn == Function(<<>>, {})
<1>1. /\ fn \in FunctionContexts /\ fn.captured = <<>> /\ fn.loads = {}
      /\ fns' = Append(fns, fn) /\ UNCHANGED env
  BY DEF enter_lambda, Function, FunctionContexts
<1> HIDE DEF fn
<1>2. /\ fns' \in Seq(FunctionContexts) /\ Depth' = Depth + 1 /\ env' = env
      /\ fns'[Depth + 1] = fn /\ \A d \in 1 .. Depth : fns'[d] = fns[d]
  BY <1>1, Types DEF Depth
<1>3. /\ Depth \in Nat /\ Depth > 0
      /\ \A d \in 1 .. Depth + 1 : d \in 1 .. Depth \/ d = Depth + 1
      /\ \A k \in Nat : k <= Depth => k <= Depth + 1 /\ k < Depth + 1
  BY Types
<1>4. \A i \in DOMAIN env : env[i].depth <= Depth + 1 /\ env[i].depth < Depth + 1
  BY <1>3, Types
<1>5. Nested(env, Depth + 1)
  <2>1. Len(env) \in 0 .. Len(env) /\ \A i \in DOMAIN env : i <= Len(env)
    BY Types
  <2> QED BY <1>4, <2>1 DEF Nested
<1>6. TypeOK'
  BY <1>2, <1>3 DEF IInv, TypeOK
<1>7. ScopesNested'
  <2>1. \A d \in 1 .. Depth + 1 : Nested(env, d)
    BY <1>3, <1>5 DEF IInv, ScopesNested
  <2> QED BY ONLY <1>2, <1>4, <2>1 DEF ScopesNested, Nested
<1>8. PlacesOK(fn) /\ Tracked(fn) /\ Named(fn, env, Depth + 1)
  BY <1>1 DEF PlacesOK, Tracked, Named, ToSet
<1>9. (\A d \in 1 .. Depth : PlacesOK(fns[d]))'
  <2>1. \A d \in 1 .. Depth + 1 : PlacesOK(fns'[d])
    BY <1>2, <1>3, <1>8, Types
  <2> QED BY ONLY <1>2, <2>1 DEF PlacesOK
<1>10. NamesOK => NamesOK'
  <2> SUFFICES ASSUME NamesOK PROVE NamesOK'
    OBVIOUS
  <2>1. \A d \in 1 .. Depth + 1 : Named(fns'[d], env, d) /\ Tracked(fns'[d])
    BY <1>2, <1>3, <1>8 DEF NamesOK
  <2> QED BY ONLY <1>2, <2>1 DEF NamesOK, Named, Tracked, Innermost
<1> QED BY <1>6, <1>7, <1>9, <1>10 DEF IInv

\* What the function around becomes, and the variables that stay in scope.
LEMMA LeaveStep ==
  ASSUME IInv, leave_lambda
  PROVE  IInv' /\ (NamesOK => NamesOK')
<1> DEFINE fn == Filled.fn
<1>1. Depth > 1 /\ fns' = [Front(fns) EXCEPT ![Depth - 1] = fn] /\ env' = Around
  BY DEF leave_lambda
<1>2. fn \in FunctionContexts /\ PlacesOK(fn)
  BY <1>1, Filling
<1>3. NamesOK => Named(fn, env, Depth - 1) /\ Tracked(fn)
  BY <1>1, HandingDown DEF KInv, NamesOK
<1> HIDE DEF fn
<1>4. /\ Depth \in Nat /\ Depth - 1 \in Nat /\ Depth - 1 > 0
      /\ Depth - 1 <= Depth /\ Depth - 1 \in 0 .. Depth
  BY <1>1, Types
<1>5. /\ fns' \in Seq(FunctionContexts) /\ Depth' = Depth - 1
      /\ fns'[Depth - 1] = fn
      /\ \A d \in 1 .. Depth - 1 : d # Depth - 1 => fns'[d] = fns[d]
  <2> DEFINE front == SubSeq(fns, 1, Depth - 1)
  <2>1. /\ front \in Seq(FunctionContexts) /\ Len(front) = Depth - 1
        /\ \A d \in 1 .. Depth - 1 : front[d] = fns[d]
    BY <1>4, Types DEF Depth
  <2>2. fns' = [front EXCEPT ![Depth - 1] = fn]
    BY <1>1 DEF Front, Depth
  <2> HIDE DEF front
  <2>3. Depth - 1 \in 1 .. Depth - 1 /\ DOMAIN front = 1 .. Depth - 1
    BY <1>4, <2>1
  <2>4. fns' \in Seq(FunctionContexts) /\ Len(fns') = Depth - 1
    BY ONLY <1>2, <2>1, <2>2, <2>3
  <2> QED BY <2>1, <2>2, <2>3, <2>4 DEF Depth
<1>6. PICK n \in 0 .. Len(env) :
        /\ Around = SubSeq(env, 1, n)
        /\ \A i \in DOMAIN env : env[i].depth < Depth <=> i <= n
  BY AroundScope DEF IInv
<1>7. \A d \in 1 .. Depth :
        /\ env' \in Seq(Variables)
        /\ \A i \in DOMAIN env' : i \in DOMAIN env /\ i <= n /\ env'[i] = env[i]
        /\ SameAround(env, env', d)
  <2>1. n \in n .. Len(env) /\ env \in Seq(Variables)
    BY Types
  <2> QED BY <1>1, <1>4, <1>6, <2>1, Cut
<1>8. Depth \in 1 .. Depth /\ \A d \in 1 .. Depth - 1 : d \in 1 .. Depth
  BY <1>4
<1>9. env' \in Seq(Variables)
  BY <1>7, <1>8
<1>10. \A i \in DOMAIN env' : env'[i].depth <= Depth - 1
  <2>1. \A i \in DOMAIN env' : env'[i].depth < Depth /\ env'[i].depth \in Nat
    BY <1>6, <1>7, <1>8, Types
  <2>2. \A k \in Nat : k < Depth => k <= Depth - 1
    BY <1>4
  <2> QED BY ONLY <2>1, <2>2
<1>11. TypeOK'
  BY <1>4, <1>5, <1>9 DEF TypeOK
<1>12. ASSUME NEW d \in 1 .. Depth - 1 PROVE Nested(env', d)
  <2>1. Nested(env, d) /\ SameAround(env, env', d) /\ env \in Seq(Variables)
    BY <1>7, <1>8, Types DEF IInv, ScopesNested
  <2> QED BY ONLY <1>9, <2>1, NestedKept
<1>13. ScopesNested'
  BY ONLY <1>5, <1>10, <1>12 DEF ScopesNested, Nested
<1>14. (\A d \in 1 .. Depth : PlacesOK(fns[d]))'
  <2>1. \A d \in 1 .. Depth - 1 : PlacesOK(fns'[d])
    BY <1>2, <1>5, <1>8, Types
  <2> QED BY ONLY <1>5, <2>1 DEF PlacesOK
<1>15. ASSUME NamesOK PROVE NamesOK'
  <2>1. ASSUME NEW d \in 1 .. Depth - 1
        PROVE  Named(fns'[d], env, d) /\ Tracked(fns'[d])
    BY <1>3, <1>5, <1>8, <1>15 DEF NamesOK
  <2>2. ASSUME NEW d \in 1 .. Depth - 1 PROVE Named(fns'[d], env', d)
    <3>1. SameAround(env, env', d)
      BY <1>7, <1>8
    <3>2. ASSUME NEW e \in ToSet(fns'[d].captured) PROVE Innermost(env', e.variable, d)
      <4>1. Innermost(env, e.variable, d)
        BY <2>1 DEF Named
      <4> QED BY ONLY <3>1, <4>1, InnermostKept
    <3> QED BY <2>1, <3>2 DEF Named
  <2> QED BY ONLY <1>5, <2>1, <2>2 DEF NamesOK, Named, Tracked, Innermost
<1> QED BY <1>11, <1>13, <1>14, <1>15 DEF IInv

----------------------------------------------------------------------------
(***************************************************************************)
(* The theorems.                                                           *)
(***************************************************************************)
\* The program itself captures nothing.
LEMMA InitOK == Init => IInv /\ NamesOK
<1> SUFFICES ASSUME Init PROVE IInv /\ NamesOK
  OBVIOUS
<1> DEFINE fn == Function(<<>>, {})
<1>1. /\ fn \in FunctionContexts /\ fn.captured = <<>> /\ fn.loads = {}
      /\ fns = <<fn>> /\ env = <<>>
  BY DEF Init, Function, FunctionContexts
<1> HIDE DEF fn
<1>2. /\ fns \in Seq(FunctionContexts) /\ Depth = 1 /\ env \in Seq(Variables)
      /\ DOMAIN env = {} /\ Len(env) = 0
      /\ \A d \in 1 .. Depth : fns[d] = fn
  BY <1>1 DEF Depth
<1>3. TypeOK /\ ScopesNested
  BY <1>2 DEF TypeOK, ScopesNested, Nested
<1>4. PlacesOK(fn) /\ Tracked(fn) /\ \A d \in 1 .. Depth : Named(fn, env, d)
  BY <1>1 DEF PlacesOK, Tracked, Named, ToSet
<1> QED BY <1>2, <1>3, <1>4 DEF IInv, NamesOK

\* Every step keeps places right, and, where keys are names, the names apart.
LEMMA StepOK ==
  ASSUME IInv, [Next]_vars
  PROVE  IInv' /\ (Uses \subseteq {"value"} /\ NamesOK => NamesOK')
<1>1. ASSUME NEW name \in Names, bind(name)
      PROVE  IInv' /\ (NamesOK => NamesOK')
  BY <1>1, BindStep
<1>2. CASE leave_let
  BY <1>2, LeaveLetStep
<1>3. ASSUME NEW name \in Names, NEW use \in Uses, use_symbol(name, use)
      PROVE  IInv' /\ (Uses \subseteq {"value"} /\ NamesOK => NamesOK')
  BY <1>3, UseStep
<1>4. CASE enter_lambda
  BY <1>4, EnterStep
<1>5. CASE next_arity
  BY <1>5, NextArityStep
<1>6. CASE leave_lambda
  BY <1>6, LeaveStep
<1>7. CASE UNCHANGED vars
  <2>1. env' = env /\ fns' = fns /\ Depth' = Depth
    BY <1>7 DEF vars, Depth
  <2>2. TypeOK'
    BY <2>1 DEF IInv, TypeOK
  <2>3. ScopesNested'
    BY ONLY <2>1, IInv DEF IInv, ScopesNested, Nested
  <2>4. (\A d \in 1 .. Depth : PlacesOK(fns[d]))'
    BY ONLY <2>1, IInv DEF IInv, PlacesOK
  <2>5. NamesOK => NamesOK'
    BY ONLY <2>1 DEF NamesOK, Named, Tracked, Innermost
  <2> QED BY <2>2, <2>3, <2>4, <2>5 DEF IInv
<1> QED BY <1>1, <1>2, <1>3, <1>4, <1>5, <1>6, <1>7 DEF Next

\* Scopes are nested, and the place of a captured symbol stays right (compile.c:171-184).
THEOREM Invariant == Spec => []IInv
<1>1. Init => IInv
  BY InitOK
<1>2. IInv /\ [Next]_vars => IInv'
  BY StepOK
<1> QED BY <1>1, <1>2, PTL DEF Spec

\* The index that a symbol gets when it is captured (compile.c:180) is where its value
\* will be when the function around has filled the block (compile.c:260-281), whatever
\* is captured later and in whichever arity, and also for symbols that are called.
THEOREM FirstLoadsRightAlways == Spec => []FirstLoadsRight
<1>1. IInv => FirstLoadsRight
  <2> SUFFICES ASSUME IInv, Depth > 1, NEW load \in Current.loads, load.new
               PROVE  /\ load.index + 1 \in DOMAIN Filled.stored
                      /\ Filled.stored[load.index + 1] = load.variable
    BY DEF FirstLoadsRight
  <2> DEFINE c == Current.captured
             n == Len(c)
  <2>1. Current \in FunctionContexts /\ PlacesOK(Current)
    BY Types DEF Current
  <2>2. n \in Nat
    BY <2>1 DEF FunctionContexts
  <2>3. load.index \in 0 .. n - 1 /\ c[n - load.index].variable = load.variable
    BY <2>1 DEF PlacesOK
  <2>4. /\ DOMAIN Filled.stored = 1 .. n
        /\ \A i \in 1 .. n : Filled.stored[i] = c[n + 1 - i].variable
    BY Filling
  <2> HIDE DEF n, c
  <2>5. load.index + 1 \in 1 .. n /\ n + 1 - (load.index + 1) = n - load.index
    BY ONLY <2>2, <2>3
  <2> QED BY ONLY <2>3, <2>4, <2>5
<1> QED BY <1>1, Invariant, PTL

\* Every closure load is for a variable in the list of captured symbols
\* (compile.c:166-168), however names shadow one another, as long as no captured symbol
\* is called: the symbols that are called share one key (compile_fn_call.c:474).
THEOREM AllTrackedAlways ==
  ASSUME Uses \subseteq {"value"}
  PROVE  Spec => []AllTracked
<1>1. Init => IInv /\ NamesOK
  BY InitOK
<1>2. IInv /\ NamesOK /\ [Next]_vars => (IInv /\ NamesOK)'
  BY StepOK
<1>3. IInv /\ NamesOK => AllTracked
  BY Types DEF AllTracked, NamesOK, Tracked
<1> QED BY <1>1, <1>2, <1>3, PTL DEF Spec

\* What a function captured is at hand when its block is filled: as a variable of the
\* function around that is still in scope, or in the list of what that one captured.
THEOREM HandedDownAlways ==
  ASSUME Uses \subseteq {"value"}
  PROVE  Spec => HandedDown
<1> DEFINE Down ==
      \A i \in DOMAIN Current.captured :
        LET variable == Current.captured[i].variable
        IN  Len(fns') < Depth =>
              IF variable.depth = Depth - 1
              THEN \E k \in DOMAIN env' : env'[k] = variable
              ELSE \E e \in ToSet(fns'[Depth - 1].captured) : e.variable = variable
<1>1. Init => IInv /\ NamesOK
  BY InitOK
<1>2. IInv /\ NamesOK /\ [Next]_vars => (IInv /\ NamesOK)'
  BY StepOK
<1>3. ASSUME IInv, NamesOK, Next PROVE Down
  <2>1. Depth \in Nat /\ Len(fns) = Depth
    BY Types DEF Depth
  <2>2. SUFFICES ASSUME leave_lambda PROVE Down
    <3>1. ASSUME UNCHANGED fns PROVE Down
      BY <2>1, <3>1
    <3>2. CASE leave_lambda
      BY <2>2, <3>2
    <3>3. CASE enter_lambda
      <4>1. Len(fns') = Depth + 1
        BY <2>1, <3>3, Types DEF enter_lambda
      <4>2. ~(Len(fns') < Depth)
        BY ONLY <2>1, <4>1
      <4> QED BY ONLY <4>2
    <3>4. ASSUME NEW name \in Names, NEW use \in Uses, use_symbol(name, use) PROVE Down
      <4>1. Len(fns') = Depth
        BY <2>1, <3>4, Types DEF use_symbol
      <4>2. ~(Len(fns') < Depth)
        BY ONLY <2>1, <4>1
      <4> QED BY ONLY <4>2
    <3>5. (\E name \in Names : bind(name)) \/ leave_let \/ next_arity => UNCHANGED fns
      BY DEF bind, leave_let, next_arity
    <3> HIDE DEF Down
    <3> QED BY <1>3, <3>1, <3>2, <3>3, <3>4, <3>5 DEF Next
  <2>3. Depth > 1 /\ env' = Around /\ fns' = [Front(fns) EXCEPT ![Depth - 1] = Filled.fn]
    BY <2>2 DEF leave_lambda
  <2>4. fns'[Depth - 1] = Filled.fn
    <3>1. Depth - 1 \in DOMAIN Front(fns)
      BY <2>1, <2>3, Types DEF Front
    <3> QED BY <2>3, <3>1
  <2> SUFFICES ASSUME NEW i \in DOMAIN Current.captured
               PROVE  IF Current.captured[i].variable.depth = Depth - 1
                      THEN \E k \in DOMAIN env' : env'[k] = Current.captured[i].variable
                      ELSE \E e \in ToSet(fns'[Depth - 1].captured) :
                             e.variable = Current.captured[i].variable
    OBVIOUS
  <2> DEFINE v == Current.captured[i].variable
  <2>5. v.depth # Depth - 1 => \E e \in ToSet(Filled.fn.captured) : e.variable = v
    BY <1>3, <2>3, HandingDown DEF KInv, NamesOK
  <2>6. \E k \in DOMAIN env' : env'[k] = v
    <3>1. Innermost(env, v, Depth)
      <4>1. Depth \in 1 .. Depth
        BY <2>1, <2>3
      <4>2. Named(Current, env, Depth)
        BY <1>3, <4>1 DEF NamesOK, Current
      <4>3. Current.captured[i] \in ToSet(Current.captured)
        BY DEF ToSet
      <4> QED BY <4>2, <4>3 DEF Named
    <3>2. PICK n \in 0 .. Len(env) :
            /\ Around = SubSeq(env, 1, n)
            /\ \A k \in DOMAIN env : env[k].depth < Depth <=> k <= n
      BY <1>3, AroundScope DEF IInv
    <3>3. SameAround(env, env', Depth)
      <4>1. n \in n .. Len(env) /\ env \in Seq(Variables) /\ Depth \in 1 .. Depth
        BY <1>3, <2>3, Types
      <4> QED BY <2>1, <2>3, <3>2, <4>1, Cut
    <3> QED BY <3>1, <3>3 DEF Innermost, SameAround
  <2> QED BY <2>4, <2>5, <2>6
<1>4. IInv /\ NamesOK /\ [Next]_vars => [Down]_vars
  <2> HIDE DEF Down
  <2> QED BY <1>3
<1>5. HandedDown <=> [][Down]_vars
  BY DEF HandedDown
<1> QED BY <1>1, <1>2, <1>4, <1>5, PTL DEF Spec
=============================================================================
