-------------------------- MODULE NamespacesProofs --------------------------
(***************************************************************************)
(* However its files require one another, call, define, fail and catch,    *)
(* the interpreter comes back to the namespace it was in, unless a file    *)
(* was loaded by the builtin load, requires no file inside itself and      *)
(* loses no error: for any programs, namespaces and symbols, and any       *)
(* number of expressions.                                                  *)
(*                                                                         *)
(* What the invariant says of the C stack is said of a sequence s of       *)
(* frames and a set N of namespaces, so that it can be reasoned about      *)
(* without the rest of the state.                                          *)
(***************************************************************************)
EXTENDS Namespaces, SequenceTheorems, TLAPS

-----------------------------------------------------------------------------
(***************************************************************************)
(* Values and frames that name only namespaces of N.                       *)
(***************************************************************************)
LiveFns(N) == [kind : {"fn"}, ns : N, env : AllNames, named : BOOLEAN]
LiveValues(N) == {Data, Unbound} \union LiveFns(N)

MainFrames == [at : {"main"}, saved : {User}]
LoadFrames(N) ==
  [at : {"load"}, file : Names, failed : BOOLEAN, home : N \union {NONE}]
RequireFrames(N) ==
  [at : {"require"}, ns : Names, alias : Aliases \union {NONE},
   symbol : Symbols \union {NONE}, saved : N]
DefFrames(N) == [at : {"def"}, ns : N, symbol : Symbols, env : AllNames]
DoFrames == [at : {"do"}, env : AllNames]
TryFrames(N) ==
  [at : {"try"}, env : AllNames, mode : {"EXPR", "CATCH", "FINALLY"},
   value : LiveValues(N) \union {Error}, erred : BOOLEAN]
ClauseFrames == [at : {"catch", "finally"}, env : AllNames]
CallFrames(N) == [at : {"call"}, fn : LiveFns(N), old_ns : N, home : N]

LiveFrames(N) ==
  MainFrames \union LoadFrames(N) \union RequireFrames(N) \union DefFrames(N)
    \union DoFrames \union TryFrames(N) \union ClauseFrames \union CallFrames(N)

-----------------------------------------------------------------------------
(***************************************************************************)
(* The C stack.                                                            *)
(***************************************************************************)
Runs(f) == f.at \in {"load", "call"}

\* j is the file or function whose code runs, or waits, at place i.
Inner(s, i, j) ==
  /\ j \in 1 .. i
  /\ Runs(s[j])
  /\ \A k \in j + 1 .. i : ~Runs(s[k])

\* A frame that holds an error no catch was given.
Held(f) ==
  \/ f.at = "load" /\ f.failed
  \/ f.at = "try" /\ f.value = Error /\ f.mode # "CATCH"

\* What a frame is on top of: on main and require there is nothing but a load, clauses
\* are on their try.
OnTopOf(f, below) ==
  /\ f.at # "main"
  /\ below.at \in {"main", "require"} => f.at = "load"
  /\ f.at \in {"catch", "finally"} => below.at = "try"

\* The namespace a call or a require will go back to is that of the code that made it.
SavedIsHome(s, i, j) ==
  /\ s[i].at = "call" => s[i].old_ns = s[j].home
  /\ s[i].at = "require" => s[i].saved = s[j].home

\* What holds of the frame at a place whatever is on top of it.
PosOK(s, N, i) ==
  /\ s[i] \in LiveFrames(N)
  /\ i = 1 => s[i].at = "main"
  /\ i > 1 => OnTopOf(s[i], s[i - 1]) /\ \E j \in 1 .. i : Inner(s, i, j)
  /\ \A j \in 1 .. i : Inner(s, i - 1, j) => SavedIsHome(s, i, j)
  /\ s[i].at = "load" /\ s[i].home # NONE => s[i].file \in N
  /\ s[i].at = "try" => (s[i].erred <=> \E j \in 1 .. i - 1 : Held(s[j]))

\* A frame that waits for another: a file has begun, and a try is at that clause.
Waits(f, above) ==
  /\ f.at = "load" => f.home # NONE
  /\ f.at = "try" =>
       CASE above.at = "catch"   -> f.mode = "CATCH"
         [] above.at = "finally" -> f.mode = "FINALLY"
         [] OTHER                -> f.mode = "EXPR" /\ f.value # Error

StackOK(s, N) ==
  /\ s \in Seq(LiveFrames(N))
  /\ \A i \in 1 .. Len(s) : PosOK(s, N, i)
  /\ \A i \in 1 .. Len(s) - 1 : Waits(s[i], s[i + 1])

\* What is loaded at place j was required there, and is loaded from place i on.
Again(s, i, j) ==
  /\ i \in 1 .. j - 1
  /\ s[i].at = "load"
  /\ s[j].at = "load"
  /\ s[j - 1].at = "require"
  /\ s[i].file = s[j].file

LoadedOutside(s) == \A j \in 1 .. Len(s) : \A i \in 1 .. j - 1 : ~Again(s, i, j)

-----------------------------------------------------------------------------
(***************************************************************************)
(* The inductive invariant.                                                *)
(***************************************************************************)
TablesOK ==
  /\ namespaces \subseteq AllNames /\ User \in namespaces
  /\ bound \in [AllNames -> [Symbols -> LiveValues(namespaces) \union {Absent}]]
  /\ as \in [AllNames -> [AllNames \union Aliases -> namespaces \union {NONE}]]
  /\ refer \in [AllNames -> [Symbols -> namespaces \union {NONE}]]
  /\ current_ns \in namespaces
  /\ result \in LiveValues(namespaces) \union {Nothing, Error}
  /\ forms \in 0 .. Forms
  /\ erred \in BOOLEAN

\* A result is waited for by the frame on top, and only some wait for nothing else.
TopOK ==
  stack # <<>> =>
    /\ Top.at \in {"main", "require"} => result # Nothing
    /\ Top.at = "load" /\ Top.home = NONE => result = Nothing
    /\ Top.at = "try" /\ Top.mode = "CATCH" => Top.value # Error
    /\ Top.at = "try" /\ result # Nothing => Top.mode = "EXPR" /\ Top.value # Error

AtHome ==
  stack # <<>> /\ Top.at \notin {"main", "require"} =>
    \A j \in 1 .. Len(stack) :
      Inner(stack, Len(stack), j) /\ stack[j].home # NONE => current_ns = stack[j].home

\* As long as a file that load was called for has not begun, the program is where the
\* call was.
LoaderHome ==
  stack # <<>> /\ Top.at = "load" /\ Top.home = NONE =>
    \A j \in 1 .. Len(stack) - 1 :
      Inner(stack, Len(stack) - 1, j) /\ stack[Len(stack) - 1].at # "require" =>
        current_ns = stack[j].home

ErrorsHeld ==
  erred <=> (result = Error \/ \E j \in 1 .. Len(stack) : Held(stack[j]))

IInv ==
  /\ TablesOK
  /\ StackOK(stack, namespaces)
  /\ TopOK
  /\ AtHome
  /\ LoaderHome
  /\ LoadedOutside(stack)
  /\ ErrorsHeld

-----------------------------------------------------------------------------
(***************************************************************************)
(* Frames.                                                                 *)
(***************************************************************************)
\* A frame is of the kind it says.
LEMMA FrameKinds ==
  ASSUME NEW N, NEW f \in LiveFrames(N)
  PROVE  /\ f.at \in {"main", "load", "require", "def", "do", "try", "catch", "finally",
                      "call"}
         /\ f.at = "main" => f \in MainFrames
         /\ f.at = "load" => f \in LoadFrames(N)
         /\ f.at = "require" => f \in RequireFrames(N)
         /\ f.at = "def" => f \in DefFrames(N)
         /\ f.at = "do" => f \in DoFrames
         /\ f.at = "try" => f \in TryFrames(N)
         /\ f.at \in {"catch", "finally"} => f \in ClauseFrames
         /\ f.at = "call" => f \in CallFrames(N)
<1>1. /\ f \in MainFrames => f.at = "main"
      /\ f \in LoadFrames(N) => f.at = "load"
      /\ f \in RequireFrames(N) => f.at = "require"
      /\ f \in DefFrames(N) => f.at = "def"
      /\ f \in DoFrames => f.at = "do"
      /\ f \in TryFrames(N) => f.at = "try"
      /\ f \in ClauseFrames => f.at \in {"catch", "finally"}
      /\ f \in CallFrames(N) => f.at = "call"
  BY DEF MainFrames, LoadFrames, RequireFrames, DefFrames, DoFrames, TryFrames,
         ClauseFrames, CallFrames
<1> QED BY <1>1 DEF LiveFrames

\* More namespaces, more frames.
LEMMA MoreFrames ==
  ASSUME NEW N, NEW M, N \subseteq M
  PROVE  /\ LiveFns(N) \subseteq LiveFns(M) /\ LiveValues(N) \subseteq LiveValues(M)
         /\ LiveFrames(N) \subseteq LiveFrames(M)
<1>1. LiveFns(N) \subseteq LiveFns(M)
  BY DEF LiveFns
<1>2. LiveValues(N) \subseteq LiveValues(M)
  BY <1>1 DEF LiveValues
<1>3. LoadFrames(N) \subseteq LoadFrames(M)
  BY DEF LoadFrames
<1>4. RequireFrames(N) \subseteq RequireFrames(M)
  BY DEF RequireFrames
<1>5. DefFrames(N) \subseteq DefFrames(M)
  BY DEF DefFrames
<1>6. TryFrames(N) \subseteq TryFrames(M)
  BY <1>2 DEF TryFrames
<1>7. CallFrames(N) \subseteq CallFrames(M)
  BY <1>1 DEF CallFrames
<1> QED BY <1>1, <1>2, <1>3, <1>4, <1>5, <1>6, <1>7 DEF LiveFrames

\* The frame of code that runs, gone somewhere else.
LEMMA Rehomed ==
  ASSUME NEW N, NEW M, N \subseteq M, NEW f \in LiveFrames(N), Runs(f), NEW ns \in M
  PROVE  LET g == [f EXCEPT !.home = ns]
         IN  /\ g \in LiveFrames(M) /\ g.at = f.at /\ g.home = ns
             /\ Held(g) <=> Held(f)
             /\ f.at = "load" => g.file = f.file /\ g \in LoadFrames(M)
             /\ f.at = "call" => g.old_ns = f.old_ns
<1> DEFINE g == [f EXCEPT !.home = ns]
<1>1. CASE f.at = "load"
  <2>1. f \in LoadFrames(N)
    BY <1>1, FrameKinds
  <2>2. /\ g \in LoadFrames(M) /\ g.at = "load" /\ g.home = ns
        /\ g.file = f.file /\ g.failed = f.failed
    BY <2>1 DEF LoadFrames
  <2> QED BY <1>1, <2>2 DEF LiveFrames, Held
<1>2. CASE f.at = "call"
  <2>1. f \in CallFrames(N)
    BY <1>2, FrameKinds
  <2>2. f.fn \in LiveFns(M)
    BY <2>1, MoreFrames DEF CallFrames
  <2>3. /\ g \in CallFrames(M) /\ g.at = "call" /\ g.home = ns
        /\ g.old_ns = f.old_ns
    BY <2>1, <2>2 DEF CallFrames
  <2> QED BY <1>2, <2>3 DEF LiveFrames, Held
<1> QED BY <1>1, <1>2 DEF Runs

\* The innermost code that runs at a place is one.
LEMMA InnerOnce ==
  ASSUME NEW s, NEW i \in Nat, NEW j, NEW k, Inner(s, i, j), Inner(s, i, k)
  PROVE  j = k
BY DEF Inner

\* It is what the search for the code that runs finds.
LEMMA RunningInIs ==
  ASSUME NEW s, DOMAIN s = 1 .. Len(s), Len(s) \in Nat, NEW r, Inner(s, Len(s), r)
  PROVE  RunningIn(s) = r
<1> DEFINE n == Len(s)
           Is(i) == /\ s[i].at \in {"load", "call"}
                    /\ \A j \in i + 1 .. n : s[j].at \notin {"load", "call"}
<1>1. \A i \in 1 .. n : Is(i) <=> Inner(s, n, i)
  BY DEF Inner, Runs
<1>2. RunningIn(s) = CHOOSE i \in 1 .. n : Is(i)
  BY DEF RunningIn
<1>3. r \in 1 .. n
  BY DEF Inner
<1>4. RunningIn(s) \in 1 .. n /\ Is(RunningIn(s))
  <2> HIDE DEF Is
  <2> QED BY <1>1, <1>2, <1>3
<1> QED BY <1>1, <1>4, InnerOnce

\* It depends only on the kinds of the frames up to there.
LEMMA InnerSame ==
  ASSUME NEW s, NEW t, NEW i \in Nat, \A k \in 1 .. i : t[k].at = s[k].at, NEW j
  PROVE  Inner(t, i, j) <=> Inner(s, i, j)
<1>1. \A k \in 1 .. i : Runs(t[k]) <=> Runs(s[k])
  BY DEF Runs
<1> QED BY <1>1 DEF Inner

\* From one place to the next.
LEMMA InnerStep ==
  ASSUME NEW s, NEW i \in Nat \ {0}, NEW j
  PROVE  /\ Runs(s[i]) => (Inner(s, i, j) <=> j = i)
         /\ ~Runs(s[i]) => (Inner(s, i, j) <=> Inner(s, i - 1, j))
<1>1. CASE Runs(s[i])
  <2>1. j = i => Inner(s, i, j)
    BY <1>1 DEF Inner
  <2>2. Inner(s, i, j) => j = i
    BY <1>1 DEF Inner
  <2> QED BY <1>1, <2>1, <2>2
<1>2. CASE ~Runs(s[i])
  <2>1. ASSUME Inner(s, i, j) PROVE Inner(s, i - 1, j)
    <3>1. j \in 1 .. i /\ j # i /\ Runs(s[j])
      BY <1>2, <2>1 DEF Inner
    <3>2. j \in 1 .. i - 1
      BY <3>1
    <3>3. \A k \in j + 1 .. i - 1 : ~Runs(s[k])
      BY <2>1, <3>2 DEF Inner
    <3> QED BY <3>1, <3>2, <3>3 DEF Inner
  <2>2. ASSUME Inner(s, i - 1, j) PROVE Inner(s, i, j)
    <3>1. j \in 1 .. i - 1 /\ j \in 1 .. i /\ Runs(s[j])
      BY <2>2 DEF Inner
    <3>2. \A k \in j + 1 .. i : k \in j + 1 .. i - 1 \/ k = i
      BY <3>1
    <3>3. \A k \in j + 1 .. i : ~Runs(s[k])
      BY <1>2, <2>2, <3>2 DEF Inner
    <3> QED BY <3>1, <3>3 DEF Inner
  <2> QED BY <1>2, <2>1, <2>2
<1> QED BY <1>1, <1>2

\* What holds at a place holds in every stack that is the same up to there.
LEMMA PosSame ==
  ASSUME NEW s, NEW t, NEW N, NEW M, N \subseteq M, NEW i \in Nat \ {0},
         \A k \in 1 .. i : t[k] = s[k], PosOK(s, N, i)
  PROVE  PosOK(t, M, i)
<1>1. t[i] = s[i] /\ (i > 1 => t[i - 1] = s[i - 1])
  BY DEF PosOK
<1>2. t[i] \in LiveFrames(M)
  BY <1>1, MoreFrames DEF PosOK
<1>3. i = 1 => t[i].at = "main"
  BY <1>1 DEF PosOK
<1>4. \A j : Inner(t, i, j) <=> Inner(s, i, j)
  BY InnerSame
<1>5. \A j : Inner(t, i - 1, j) <=> Inner(s, i - 1, j)
  <2>1. i - 1 \in Nat /\ \A k \in 1 .. i - 1 : t[k].at = s[k].at
    OBVIOUS
  <2> QED BY <2>1, InnerSame
<1>6. i > 1 => OnTopOf(t[i], t[i - 1]) /\ \E j \in 1 .. i : Inner(t, i, j)
  BY <1>1, <1>4 DEF PosOK
<1>7. \A j \in 1 .. i : Inner(t, i - 1, j) => SavedIsHome(t, i, j)
  <2> SUFFICES ASSUME NEW j \in 1 .. i, Inner(s, i - 1, j) PROVE SavedIsHome(t, i, j)
    BY <1>5
  <2>1. SavedIsHome(s, i, j) /\ t[j] = s[j]
    BY DEF PosOK
  <2> QED BY <1>1, <2>1 DEF SavedIsHome
<1>8. t[i].at = "load" /\ t[i].home # NONE => t[i].file \in M
  BY <1>1 DEF PosOK
<1>9. t[i].at = "try" => (t[i].erred <=> \E j \in 1 .. i - 1 : Held(t[j]))
  <2>1. \A j \in 1 .. i - 1 : Held(t[j]) <=> Held(s[j])
    OBVIOUS
  <2> QED BY <1>1, <2>1 DEF PosOK
<1> QED BY <1>2, <1>3, <1>6, <1>7, <1>8, <1>9 DEF PosOK

-----------------------------------------------------------------------------
(***************************************************************************)
(* What may be done to a stack.                                            *)
(***************************************************************************)
\* The parts of a sequence that is not empty.
LEMMA FrontAndLast ==
  ASSUME NEW S, NEW s \in Seq(S), s # <<>>
  PROVE  /\ Len(s) \in Nat \ {0} /\ Len(s) \in 1 .. Len(s)
         /\ Last(s) = s[Len(s)] /\ Last(s) \in S
         /\ Front(s) \in Seq(S) /\ Len(Front(s)) = Len(s) - 1
         /\ \A i \in 1 .. Len(s) - 1 : Front(s)[i] = s[i]
<1> DEFINE n == Len(s) - 1
<1>1. Len(s) \in Nat \ {0} /\ Len(s) \in 1 .. Len(s) /\ s[Len(s)] \in S
  OBVIOUS
<1>2. n \in 0 .. Len(s) /\ n = Len(s) - 1 /\ n - 1 + 1 = n
  BY <1>1
<1> HIDE DEF n
<1>3. /\ SubSeq(s, 1, n) \in Seq(S) /\ Len(SubSeq(s, 1, n)) = n
      /\ \A i \in 1 .. n : SubSeq(s, 1, n)[i] = s[i]
  BY <1>1, <1>2, SubSeqProperties
<1> QED BY <1>1, <1>2, <1>3 DEF Front, Last

\* What a sequence holds once an element is added.
LEMMA AppendedTo ==
  ASSUME NEW S, NEW s \in Seq(S), NEW x \in S
  PROVE  /\ Append(s, x) \in Seq(S) /\ Len(Append(s, x)) = Len(s) + 1
         /\ Append(s, x)[Len(s) + 1] = x
         /\ \A i \in 1 .. Len(s) : Append(s, x)[i] = s[i]
OBVIOUS

\* The frames of a stack, and what one waits for.
LEMMA StackFrames ==
  ASSUME NEW s, NEW N, StackOK(s, N), s # <<>>
  PROVE  /\ Len(s) \in Nat \ {0} /\ Len(s) \in 1 .. Len(s) /\ Last(s) = s[Len(s)]
         /\ \A i \in 1 .. Len(s) : s[i] \in LiveFrames(N) /\ PosOK(s, N, i)
         /\ Len(s) > 1 =>
              /\ Len(s) - 1 \in 1 .. Len(s)
              /\ OnTopOf(s[Len(s)], s[Len(s) - 1]) /\ Waits(s[Len(s) - 1], s[Len(s)])
<1>1. s \in Seq(LiveFrames(N))
  BY DEF StackOK
<1>2. Len(s) \in Nat \ {0} /\ Len(s) \in 1 .. Len(s) /\ Last(s) = s[Len(s)]
  BY <1>1, FrontAndLast
<1>3. \A i \in 1 .. Len(s) : s[i] \in LiveFrames(N) /\ PosOK(s, N, i)
  BY DEF StackOK, PosOK
<1>4. ASSUME Len(s) > 1
      PROVE  /\ Len(s) - 1 \in 1 .. Len(s)
             /\ OnTopOf(s[Len(s)], s[Len(s) - 1]) /\ Waits(s[Len(s) - 1], s[Len(s)])
  <2>1. Len(s) - 1 \in 1 .. Len(s) - 1 /\ Len(s) - 1 + 1 = Len(s)
    BY <1>2, <1>4
  <2>2. Waits(s[Len(s) - 1], s[Len(s)])
    BY <2>1 DEF StackOK
  <2>3. OnTopOf(s[Len(s)], s[Len(s) - 1])
    BY <1>2, <1>3, <1>4 DEF PosOK
  <2> QED BY <1>2, <2>1, <2>2, <2>3
<1> QED BY <1>2, <1>3, <1>4

\* Whether a file was required inside itself depends on the kinds and files of the frames.
LEMMA LoadedSame ==
  ASSUME NEW s, NEW t, Len(s) \in Nat, Len(t) \in Nat, Len(t) <= Len(s), LoadedOutside(s),
         \A k \in 1 .. Len(t) :
           t[k].at = s[k].at /\ (s[k].at = "load" => t[k].file = s[k].file)
  PROVE  LoadedOutside(t)
<1> SUFFICES ASSUME NEW j \in 1 .. Len(t), NEW i \in 1 .. j - 1, Again(t, i, j)
             PROVE  FALSE
  BY DEF LoadedOutside
<1>1. j \in 1 .. Len(s) /\ i \in 1 .. Len(t) /\ j - 1 \in 1 .. Len(t)
  OBVIOUS
<1>2. Again(s, i, j)
  BY <1>1 DEF Again
<1> QED BY <1>1, <1>2 DEF LoadedOutside

\* One more frame: if a require loads it, it is of another file than those below.
LEMMA LoadedMore ==
  ASSUME NEW s, NEW t, NEW n \in Nat, Len(s) = n, Len(t) = n + 1, LoadedOutside(s),
         \A k \in 1 .. n : t[k] = s[k],
         t[n + 1].at = "load" /\ s[n].at = "require" =>
           \A k \in 1 .. n : s[k].at = "load" => s[k].file # t[n + 1].file
  PROVE  LoadedOutside(t)
<1> SUFFICES ASSUME NEW j \in 1 .. n + 1, NEW i \in 1 .. j - 1, Again(t, i, j)
             PROVE  FALSE
  BY DEF LoadedOutside
<1>1. i \in 1 .. n /\ j - 1 \in 1 .. n /\ t[i] = s[i] /\ t[j - 1] = s[j - 1]
  OBVIOUS
<1>2. CASE j = n + 1
  <2>1. j - 1 = n
    BY <1>2
  <2> QED BY <1>1, <1>2, <2>1 DEF Again
<1>3. CASE j # n + 1
  <2>1. j \in 1 .. n /\ t[j] = s[j]
    BY <1>3
  <2>2. Again(s, i, j)
    BY <1>1, <2>1 DEF Again
  <2> QED BY <2>1, <2>2 DEF LoadedOutside
<1> QED BY <1>2, <1>3

\* A call returns.
LEMMA Popped ==
  ASSUME NEW s, NEW N, StackOK(s, N), LoadedOutside(s), s # <<>>
  PROVE  /\ StackOK(Front(s), N) /\ LoadedOutside(Front(s))
         /\ Len(Front(s)) = Len(s) - 1
         /\ \A i \in 1 .. Len(s) - 1 : Front(s)[i] = s[i]
<1> DEFINE n == Len(s)
           t == Front(s)
<1>1. s \in Seq(LiveFrames(N))
  BY DEF StackOK
<1>2. /\ n \in Nat \ {0} /\ t \in Seq(LiveFrames(N)) /\ Len(t) = n - 1
      /\ \A i \in 1 .. n - 1 : t[i] = s[i]
  BY <1>1, FrontAndLast
<1> HIDE DEF t
<1>3. \A i \in 1 .. n - 1 : i \in 1 .. n /\ i \in Nat \ {0} /\ \A k \in 1 .. i : t[k] = s[k]
  BY <1>2
<1>4. \A i \in 1 .. Len(t) : PosOK(t, N, i)
  BY <1>2, <1>3, PosSame DEF StackOK
<1>5. \A i \in 1 .. Len(t) - 1 : Waits(t[i], t[i + 1])
  <2> SUFFICES ASSUME NEW i \in 1 .. n - 2 PROVE Waits(t[i], t[i + 1])
    BY <1>2
  <2>1. i \in 1 .. n - 1 /\ i + 1 \in 1 .. n - 1
    BY <1>2
  <2>2. Waits(s[i], s[i + 1])
    BY <2>1 DEF StackOK
  <2> QED BY <1>2, <2>1, <2>2
<1>6. LoadedOutside(t)
  <2>1. Len(t) \in Nat /\ Len(t) <= n /\ Len(s) \in Nat
    BY <1>2
  <2>2. \A k \in 1 .. Len(t) : t[k].at = s[k].at /\ (s[k].at = "load" => t[k].file = s[k].file)
    BY <1>2
  <2> QED BY <2>1, <2>2, LoadedSame
<1> QED BY <1>2, <1>4, <1>5, <1>6 DEF StackOK, t

\* A call is made.
LEMMA Pushed ==
  ASSUME NEW s, NEW N, StackOK(s, N), s # <<>>, NEW f \in LiveFrames(N),
         OnTopOf(f, Last(s)), Waits(Last(s), f),
         Runs(f) \/ Len(s) > 1,
         \A j \in 1 .. Len(s) : Inner(s, Len(s), j) =>
           /\ f.at = "call" => f.old_ns = s[j].home
           /\ f.at = "require" => f.saved = s[j].home,
         f.at = "load" => f.home = NONE,
         f.at = "try" => (f.erred <=> \E j \in 1 .. Len(s) : Held(s[j]))
  PROVE  /\ StackOK(Append(s, f), N) /\ Len(Append(s, f)) = Len(s) + 1
         /\ Append(s, f)[Len(s) + 1] = f
         /\ \A i \in 1 .. Len(s) : Append(s, f)[i] = s[i]
<1> DEFINE n == Len(s)
           t == Append(s, f)
<1>1. s \in Seq(LiveFrames(N))
  BY DEF StackOK
<1>2. n \in Nat \ {0} /\ Last(s) = s[n]
  BY StackFrames
<1>3. /\ t \in Seq(LiveFrames(N)) /\ Len(t) = n + 1 /\ t[n + 1] = f
      /\ \A i \in 1 .. n : t[i] = s[i]
  BY <1>1, AppendedTo
<1> HIDE DEF t
<1>4. \A i \in 1 .. n : i \in Nat \ {0} /\ \A k \in 1 .. i : t[k] = s[k]
  BY <1>2, <1>3
<1>5. \A i \in 1 .. n : PosOK(t, N, i)
  BY <1>4, PosSame DEF StackOK
<1>6. PosOK(t, N, n + 1)
  <2>1. n + 1 \in Nat \ {0} /\ n + 1 - 1 = n /\ n + 1 > 1 /\ n \in 1 .. n
    BY <1>2
  <2>2. OnTopOf(t[n + 1], t[n])
    BY <1>2, <1>3, <2>1
  <2>3. \A j : Inner(t, n, j) <=> Inner(s, n, j)
    <3>1. \A k \in 1 .. n : t[k].at = s[k].at
      BY <1>3
    <3> QED BY <1>2, <3>1, InnerSame
  <2>4. \E j \in 1 .. n + 1 : Inner(t, n + 1, j)
    <3>1. CASE Runs(f)
      <4>1. Inner(t, n + 1, n + 1)
        BY <1>3, <2>1, <3>1, InnerStep
      <4> QED BY <2>1, <4>1
    <3>2. CASE ~Runs(f)
      <4>1. PICK j \in 1 .. n : Inner(s, n, j)
        BY <1>2, <3>2 DEF StackOK, PosOK
      <4>2. Inner(t, n + 1, j)
        BY <1>3, <2>1, <2>3, <3>2, <4>1, InnerStep
      <4> QED BY <1>2, <4>1, <4>2
    <3> QED BY <3>1, <3>2
  <2>5. \A j \in 1 .. n + 1 : Inner(t, n, j) => SavedIsHome(t, n + 1, j)
    <3> SUFFICES ASSUME NEW j \in 1 .. n + 1, Inner(t, n, j) PROVE SavedIsHome(t, n + 1, j)
      OBVIOUS
    <3>1. j \in 1 .. n /\ Inner(s, n, j)
      BY <2>3 DEF Inner
    <3> QED BY <1>3, <3>1 DEF SavedIsHome
  <2>6. t[n + 1].at = "try" => (t[n + 1].erred <=> \E j \in 1 .. n : Held(t[j]))
    BY <1>3
  <2>7. t[n + 1] \in LiveFrames(N) /\ (t[n + 1].at = "load" => t[n + 1].home = NONE)
    BY <1>3
  <2> QED BY <2>1, <2>2, <2>4, <2>5, <2>6, <2>7 DEF PosOK
<1>7. \A i \in 1 .. n + 1 : PosOK(t, N, i)
  <2> SUFFICES ASSUME NEW i \in 1 .. n + 1 PROVE PosOK(t, N, i)
    OBVIOUS
  <2>1. i \in 1 .. n \/ i = n + 1
    BY <1>2
  <2> QED BY <1>5, <1>6, <2>1
<1>8. \A i \in 1 .. n : Waits(t[i], t[i + 1])
  <2> SUFFICES ASSUME NEW i \in 1 .. n PROVE Waits(t[i], t[i + 1])
    OBVIOUS
  <2>1. CASE i = n
    BY <1>2, <1>3, <2>1
  <2>2. CASE i # n
    <3>1. i \in 1 .. n - 1 /\ i + 1 \in 1 .. n
      BY <1>2, <2>2
    <3>2. Waits(s[i], s[i + 1])
      BY <3>1 DEF StackOK
    <3> QED BY <1>3, <3>1, <3>2
  <2> QED BY <2>1, <2>2
<1>9. Len(t) - 1 = n
  BY <1>2, <1>3
<1>10. StackOK(t, N)
  BY <1>3, <1>7, <1>8, <1>9 DEF StackOK
<1> QED BY <1>3, <1>10 DEF t

\* More namespaces do the stack no harm.
LEMMA MoreNamespaces ==
  ASSUME NEW s, NEW N, NEW M, N \subseteq M, StackOK(s, N)
  PROVE  StackOK(s, M)
<1>1. s \in Seq(LiveFrames(N)) /\ LiveFrames(N) \subseteq LiveFrames(M)
  BY MoreFrames DEF StackOK
<1>2. s \in Seq(LiveFrames(M))
  BY <1>1, SeqMonotonic
<1>3. \A i \in 1 .. Len(s) : i \in Nat \ {0}
  BY <1>1
<1>4. \A i \in 1 .. Len(s) : PosOK(s, M, i)
  BY <1>3, PosSame DEF StackOK
<1> QED BY <1>2, <1>4 DEF StackOK

\* A file or a try on top notes what was returned to it.
LEMMA TopChanged ==
  ASSUME NEW s, NEW t, NEW N, StackOK(s, N), s # <<>>,
         t \in Seq(LiveFrames(N)), Len(t) = Len(s),
         \A k \in 1 .. Len(s) - 1 : t[k] = s[k],
         t[Len(s)].at = s[Len(s)].at, s[Len(s)].at \in {"load", "try"},
         s[Len(s)].at = "load" => /\ t[Len(s)].file = s[Len(s)].file
                                  /\ t[Len(s)].home = s[Len(s)].home,
         s[Len(s)].at = "try" => t[Len(s)].erred = s[Len(s)].erred
  PROVE  StackOK(t, N)
<1> DEFINE n == Len(s)
<1>1. n \in Nat \ {0} /\ n \in 1 .. n /\ PosOK(s, N, n)
  BY StackFrames
<1>2. \A i \in 1 .. n - 1 : i \in Nat \ {0} /\ i \in 1 .. n /\ \A k \in 1 .. i : t[k] = s[k]
  BY <1>1
<1>3. \A i \in 1 .. n - 1 : PosOK(t, N, i)
  BY <1>2, PosSame DEF StackOK
<1>4. PosOK(t, N, n)
  <2>1. \A k \in 1 .. n : t[k].at = s[k].at
    <3> SUFFICES ASSUME NEW k \in 1 .. n PROVE t[k].at = s[k].at
      OBVIOUS
    <3>1. k = n \/ k \in 1 .. n - 1
      BY <1>1
    <3> QED BY <3>1
  <2>2. \A j : Inner(t, n, j) <=> Inner(s, n, j)
    BY <1>1, <2>1, InnerSame
  <2>3. t[n] \in LiveFrames(N)
    BY <1>1, ElementOfSeq
  <2>4. n = 1 => t[n].at = "main"
    BY <1>1 DEF PosOK
  <2>5. n > 1 => OnTopOf(t[n], t[n - 1]) /\ \E j \in 1 .. n : Inner(t, n, j)
    <3>1. n > 1 => t[n - 1] = s[n - 1]
      BY <1>1
    <3> QED BY <1>1, <2>2, <3>1 DEF PosOK, OnTopOf
  <2>6. \A j \in 1 .. n : Inner(t, n - 1, j) => SavedIsHome(t, n, j)
    BY DEF SavedIsHome
  <2>7. t[n].at = "load" /\ t[n].home # NONE => t[n].file \in N
    BY <1>1 DEF PosOK
  <2>8. t[n].at = "try" => (t[n].erred <=> \E j \in 1 .. n - 1 : Held(t[j]))
    <3>1. \A j \in 1 .. n - 1 : Held(t[j]) <=> Held(s[j])
      OBVIOUS
    <3> QED BY <1>1, <3>1 DEF PosOK
  <2> QED BY <2>3, <2>4, <2>5, <2>6, <2>7, <2>8 DEF PosOK
<1>5. \A i \in 1 .. n : PosOK(t, N, i)
  <2> SUFFICES ASSUME NEW i \in 1 .. n PROVE PosOK(t, N, i)
    OBVIOUS
  <2>1. i = n \/ i \in 1 .. n - 1
    BY <1>1
  <2> QED BY <1>3, <1>4, <2>1
<1>6. \A i \in 1 .. n - 1 : Waits(t[i], t[i + 1])
  <2> SUFFICES ASSUME NEW i \in 1 .. n - 1 PROVE Waits(t[i], t[i + 1])
    OBVIOUS
  <2>1. Waits(s[i], s[i + 1])
    BY DEF StackOK
  <2>2. t[i] = s[i]
    OBVIOUS
  <2>3. t[i + 1].at = s[i + 1].at
    <3>1. i + 1 = n \/ i + 1 \in 1 .. n - 1
      BY <1>1
    <3> QED BY <3>1
  <2> QED BY <2>1, <2>2, <2>3 DEF Waits
<1> QED BY <1>5, <1>6 DEF StackOK

\* The code that runs goes to another namespace: a frame below it has saved nothing of
\* where it was.
LEMMA HomeChanged ==
  ASSUME NEW s, NEW t, NEW N, NEW M, N \subseteq M, StackOK(s, N), s # <<>>,
         t \in Seq(LiveFrames(M)), Len(t) = Len(s), NEW r \in 1 .. Len(s),
         Inner(s, Len(s), r), s[Len(s)].at # "require",
         \A k \in 1 .. Len(s) : k # r => t[k] = s[k],
         t[r].at = s[r].at, Held(t[r]) <=> Held(s[r]), t[r].home # NONE,
         s[r].at = "load" => t[r].file \in M,
         s[r].at = "call" => t[r].old_ns = s[r].old_ns
  PROVE  StackOK(t, M) /\ \A k \in 1 .. Len(s) : t[k].at = s[k].at
<1> DEFINE n == Len(s)
<1>1. /\ n \in Nat \ {0} /\ n \in 1 .. n /\ r \in Nat \ {0}
      /\ \A i \in 1 .. n : PosOK(s, N, i)
  BY StackFrames
<1>2. \A k \in 1 .. n : t[k].at = s[k].at /\ (Held(t[k]) <=> Held(s[k]))
  <2> SUFFICES ASSUME NEW k \in 1 .. n
               PROVE  t[k].at = s[k].at /\ (Held(t[k]) <=> Held(s[k]))
    OBVIOUS
  <2>1. CASE k = r
    BY <2>1
  <2>2. CASE k # r
    BY <2>2
  <2> QED BY <2>1, <2>2
<1>3. \A k \in 1 .. n : k > r => s[k].at \notin {"load", "call", "require"}
  <2> SUFFICES ASSUME NEW k \in 1 .. n, k > r
               PROVE  s[k].at \notin {"load", "call", "require"}
    OBVIOUS
  <2>1. \A i \in 1 .. n : i > r => ~Runs(s[i])
    BY <1>1 DEF Inner
  <2>2. CASE k = n
    BY <2>1, <2>2 DEF Runs
  <2>3. CASE k # n
    <3>1. k + 1 \in 1 .. n /\ k + 1 > r /\ k + 1 > 1 /\ k + 1 - 1 = k
      BY <1>1, <2>3
    <3>2. OnTopOf(s[k + 1], s[k])
      BY <1>1, <3>1 DEF PosOK
    <3> QED BY <2>1, <3>1, <3>2 DEF Runs, OnTopOf
  <2> QED BY <2>2, <2>3
<1>4. ASSUME NEW i \in 1 .. n
      PROVE  PosOK(t, M, i)
  <2>1. i \in Nat \ {0} /\ PosOK(s, N, i) /\ t[i].at = s[i].at
    BY <1>1, <1>2
  <2>2. t[i] \in LiveFrames(M)
    BY ElementOfSeq
  <2>3. i = 1 => t[i].at = "main"
    BY <2>1 DEF PosOK
  <2>4. \A j : Inner(t, i, j) <=> Inner(s, i, j)
    <3>1. \A k \in 1 .. i : t[k].at = s[k].at
      BY <1>1, <1>2
    <3> QED BY <2>1, <3>1, InnerSame
  <2>5. i > 1 => OnTopOf(t[i], t[i - 1]) /\ \E j \in 1 .. i : Inner(t, i, j)
    <3>1. i > 1 => i - 1 \in 1 .. n
      BY <1>1
    <3>2. i > 1 => t[i - 1].at = s[i - 1].at
      BY <1>2, <3>1
    <3> QED BY <2>1, <2>4, <3>2 DEF PosOK, OnTopOf
  <2>6. \A j \in 1 .. i : Inner(t, i - 1, j) => SavedIsHome(t, i, j)
    <3> SUFFICES ASSUME NEW j \in 1 .. i, Inner(t, i - 1, j) PROVE SavedIsHome(t, i, j)
      OBVIOUS
    <3>1. CASE i > r
      BY <1>3, <2>1, <3>1 DEF SavedIsHome
    <3>2. CASE ~(i > r)
      <4>1. j \in 1 .. i - 1 /\ j # r /\ j \in 1 .. n
        BY <1>1, <3>2 DEF Inner
      <4>2. t[j] = s[j]
        BY <4>1
      <4>3. Inner(s, i - 1, j)
        <5>1. i - 1 \in Nat /\ \A k \in 1 .. i - 1 : t[k].at = s[k].at
          BY <1>1, <1>2
        <5> QED BY <5>1, InnerSame
      <4>4. SavedIsHome(s, i, j)
        BY <2>1, <4>3 DEF PosOK
      <4>5. s[i].at = "call" => t[i].old_ns = s[i].old_ns
        OBVIOUS
      <4>6. s[i].at = "require" => t[i] = s[i]
        BY DEF Inner, Runs
      <4> QED BY <2>1, <4>2, <4>4, <4>5, <4>6 DEF SavedIsHome
    <3> QED BY <3>1, <3>2
  <2>7. t[i].at = "load" /\ t[i].home # NONE => t[i].file \in M
    <3>1. CASE i = r
      BY <2>1, <3>1
    <3>2. CASE i # r
      BY <2>1, <3>2 DEF PosOK
    <3> QED BY <3>1, <3>2
  <2>8. t[i].at = "try" => (t[i].erred <=> \E j \in 1 .. i - 1 : Held(t[j]))
    <3>1. \A j \in 1 .. i - 1 : Held(t[j]) <=> Held(s[j])
      BY <1>1, <1>2
    <3>2. t[i].at = "try" => t[i] = s[i]
      BY <2>1 DEF Inner, Runs
    <3> QED BY <2>1, <3>1, <3>2 DEF PosOK
  <2> QED BY <2>2, <2>3, <2>5, <2>6, <2>7, <2>8 DEF PosOK
<1>5. ASSUME NEW i \in 1 .. n - 1
      PROVE  Waits(t[i], t[i + 1])
  <2>1. i \in 1 .. n /\ i + 1 \in 1 .. n
    BY <1>1
  <2>2. Waits(s[i], s[i + 1]) /\ t[i + 1].at = s[i + 1].at /\ t[i].at = s[i].at
    BY <1>2, <2>1 DEF StackOK
  <2>3. CASE i = r
    BY <2>2, <2>3 DEF Waits, Inner, Runs
  <2>4. CASE i # r
    <3>1. t[i] = s[i]
      BY <2>1, <2>4
    <3> QED BY <2>2, <3>1 DEF Waits
  <2> QED BY <2>3, <2>4
<1> QED BY <1>2, <1>4, <1>5 DEF StackOK

-----------------------------------------------------------------------------
(***************************************************************************)
(* Values, and the expression that is due.                                 *)
(***************************************************************************)
\* The results that are no values are none.
LEMMA ValueKinds ==
  ASSUME NEW N, NEW v \in LiveValues(N)
  PROVE  /\ v # Nothing /\ v # Error /\ v # Absent
         /\ v.kind = "fn" => v \in LiveFns(N)
<1>1. Data.kind = "data" /\ Unbound.kind = "unbound" /\ \A f \in LiveFns(N) : f.kind = "fn"
  BY DEF Data, Unbound, LiveFns, Fn
<1>2. Nothing.kind = "nothing" /\ Error.kind = "error" /\ Absent.kind = "absent"
  BY DEF Nothing, Error, Absent
<1>3. v.kind \in {"data", "unbound", "fn"} /\ (v.kind = "fn" => v \in LiveFns(N))
  BY <1>1 DEF LiveValues
<1> QED BY <1>2, <1>3

\* They differ from one another, too.
LEMMA ResultKinds ==
  /\ Nothing # Error /\ Data # Error /\ Data # Nothing /\ Error.kind # "fn"
  /\ \A N : Data \in LiveValues(N) /\ Unbound \in LiveValues(N)
<1>1. Nothing.kind = "nothing" /\ Error.kind = "error" /\ Data.kind = "data"
  BY DEF Nothing, Error, Data
<1> QED BY <1>1 DEF LiveValues

\* NONE is no namespace.
LEMMA NoneIsNoNamespace == NONE \notin AllNames
BY NoneAssumption DEF AllNames

\* The frame on top.
LEMMA TopFrame ==
  ASSUME IInv, stack # <<>>
  PROVE  /\ Len(stack) \in Nat \ {0} /\ Len(stack) \in 1 .. Len(stack)
         /\ Top = stack[Len(stack)] /\ Top = Last(stack)
         /\ Top \in LiveFrames(namespaces)
         /\ stack \in Seq(LiveFrames(namespaces))
         /\ \A i \in 1 .. Len(stack) :
              stack[i] \in LiveFrames(namespaces) /\ PosOK(stack, namespaces, i)
         /\ Top.at # "main" => Len(stack) > 1
<1>1. StackOK(stack, namespaces)
  BY DEF IInv
<1>2. /\ Len(stack) \in Nat \ {0} /\ Len(stack) \in 1 .. Len(stack)
      /\ Top = stack[Len(stack)] /\ Top = Last(stack)
      /\ \A i \in 1 .. Len(stack) :
           stack[i] \in LiveFrames(namespaces) /\ PosOK(stack, namespaces, i)
  BY <1>1, StackFrames DEF Top
<1>3. Top.at # "main" => Len(stack) > 1
  <2>1. Len(stack) = 1 => Top.at = "main"
    <3>1. PosOK(stack, namespaces, Len(stack))
      BY <1>2
    <3> QED BY <1>2, <3>1 DEF PosOK
  <2>2. Len(stack) \in Nat \ {0}
    BY <1>2
  <2> QED BY ONLY <2>1, <2>2
<1> QED BY <1>1, <1>2, <1>3 DEF StackOK

\* Code that has begun is in the namespace it last went to.
LEMMA RunningHome ==
  ASSUME IInv, stack # <<>>, Top.at \notin {"main", "require"},
         Top.at = "load" => Top.home # NONE
  PROVE  /\ \E r \in 1 .. Len(stack) : Inner(stack, Len(stack), r)
         /\ \A r : Inner(stack, Len(stack), r) =>
              r \in 1 .. Len(stack) /\ stack[r].home = current_ns /\ stack[r].home # NONE
<1> DEFINE n == Len(stack)
<1>1. /\ n \in Nat \ {0} /\ n > 1 /\ n \in 1 .. n /\ Top = stack[n]
      /\ \A i \in 1 .. n : stack[i] \in LiveFrames(namespaces) /\ PosOK(stack, namespaces, i)
  BY TopFrame
<1>2. \E r \in 1 .. n : Inner(stack, n, r)
  BY <1>1 DEF PosOK
<1>3. ASSUME NEW r, Inner(stack, n, r)
      PROVE  r \in 1 .. n /\ stack[r].home = current_ns /\ stack[r].home # NONE
  <2>1. r \in 1 .. n /\ stack[r].at \in {"load", "call"}
    BY <1>3 DEF Inner, Runs
  <2>2. stack[r].home # NONE
    <3>1. CASE stack[r].at = "call"
      <4>1. stack[r] \in CallFrames(namespaces)
        BY <1>1, <2>1, <3>1, FrameKinds
      <4>2. stack[r].home \in AllNames
        BY <4>1 DEF CallFrames, IInv, TablesOK
      <4> QED BY <4>2, NoneIsNoNamespace
    <3>2. CASE stack[r].at = "load" /\ r # n
      <4>1. r \in 1 .. n - 1
        BY <1>1, <2>1, <3>2
      <4> QED BY <3>2, <4>1 DEF IInv, StackOK, Waits
    <3>3. CASE stack[r].at = "load" /\ r = n
      BY <1>1, <3>3
    <3> QED BY <2>1, <3>1, <3>2, <3>3
  <2> QED BY <1>3, <2>1, <2>2 DEF IInv, AtHome
<1> QED BY <1>2, <1>3

\* An expression is evaluated by code that has begun, in an environment.
LEMMA DueTop ==
  ASSUME IInv, Due
  PROVE  /\ stack # <<>> /\ result = Nothing /\ Len(stack) > 1
         /\ Top.at \in {"call", "def", "do", "catch", "finally", "load", "try"}
         /\ Top.at = "load" => Top.home # NONE
         /\ Top.at = "try" => Top.mode = "EXPR" /\ Top.value # Error
         /\ Env \in AllNames /\ current_ns \in AllNames /\ forms' \in 0 .. Forms
<1>1. /\ stack # <<>> /\ result = Nothing
      /\ Top.at \in {"call", "def", "do", "catch", "finally", "load", "try"}
      /\ Top.at = "load" => Top.home # NONE
      /\ Top.at = "try" => Top.mode = "EXPR" /\ Top.value # Error
      /\ forms < Forms /\ forms' = forms + 1
  BY DEF Due
<1>2. Top \in LiveFrames(namespaces) /\ Len(stack) > 1
  BY <1>1, TopFrame
<1>3. current_ns \in AllNames
  BY DEF IInv, TablesOK
<1>4. Env \in AllNames
  <2>1. CASE Top.at = "load"
    BY <1>3, <2>1 DEF Env
  <2>2. CASE Top.at = "call"
    <3>1. Top.fn \in LiveFns(namespaces)
      BY <1>2, <2>2, FrameKinds DEF CallFrames
    <3>2. Top.fn.env \in AllNames
      BY <3>1 DEF LiveFns, Fn
    <3> QED BY <2>2, <3>2 DEF Env
  <2>3. CASE Top.at \in {"def", "do", "catch", "finally", "try"}
    <3>1. Top.env \in AllNames
      BY <1>2, <2>3, FrameKinds DEF DefFrames, DoFrames, ClauseFrames, TryFrames
    <3> QED BY <2>3, <3>1 DEF Env
  <2> QED BY <1>1, <2>1, <2>2, <2>3
<1>5. forms' \in 0 .. Forms
  BY <1>1, FormsAssumption DEF IInv, TablesOK
<1> QED BY <1>1, <1>2, <1>3, <1>4, <1>5

\* What a symbol is worth.
LEMMA SymbolWorth ==
  ASSUME TablesOK, NEW env \in AllNames, NEW symbol \in Symbols
  PROVE  eval_symbol(env, symbol) \in LiveValues(namespaces) \union {Error}
<1>1. \A n \in AllNames : bound[n][symbol] \in LiveValues(namespaces) \union {Absent}
  BY DEF TablesOK
<1>2. current_ns \in AllNames /\ namespaces \subseteq AllNames
  BY DEF TablesOK
<1>3. refer[current_ns][symbol] \in namespaces \union {NONE}
  BY <1>2 DEF TablesOK
<1> QED BY <1>1, <1>2, <1>3 DEF eval_symbol, OrError

\* What any expression without an effect is worth.
LEMMA WorthIs ==
  ASSUME IInv, Due
  PROVE  Worth \subseteq LiveValues(namespaces) \union {Error}
<1>1. TablesOK /\ Env \in AllNames /\ current_ns \in namespaces
  BY DueTop DEF IInv, TablesOK
<1> DEFINE Live == LiveValues(namespaces) \union {Error}
           Literals == {Data, Error, Fn(current_ns, Env, FALSE)}
           Named == {eval_symbol(Env, s) : s \in Symbols}
           Qualified ==
             {eval_namespaced_symbol(a, s) : a \in Names \union Aliases, s \in Symbols}
<1>2. Literals \subseteq Live
  <2>1. Fn(current_ns, Env, FALSE) \in LiveFns(namespaces)
    BY <1>1 DEF LiveFns, Fn
  <2> QED BY <2>1 DEF LiveValues
<1>3. Named \subseteq Live
  BY <1>1, SymbolWorth
<1>4. ASSUME NEW a \in Names \union Aliases, NEW s \in Symbols
      PROVE  eval_namespaced_symbol(a, s) \in LiveValues(namespaces) \union {Error}
  <2>1. a \in AllNames \union Aliases /\ current_ns \in AllNames
    BY <1>1 DEF AllNames, TablesOK
  <2>2. as[current_ns][a] \in namespaces \union {NONE} /\ namespaces \subseteq AllNames
    BY <1>1, <2>1 DEF TablesOK
  <2>3. \A n \in AllNames : bound[n][s] \in LiveValues(namespaces) \union {Absent}
    BY <1>1 DEF TablesOK
  <2> QED BY <2>2, <2>3 DEF eval_namespaced_symbol, OrError
<1>5. Qualified \subseteq Live
  BY ONLY <1>4
<1>6. Worth = Literals \union Named \union Qualified
  BY DEF Worth
<1> HIDE DEF Literals, Named, Qualified, Live
<1>7. Worth \subseteq Live
  BY ONLY <1>2, <1>3, <1>5, <1>6
<1> QED BY <1>7 DEF Live

-----------------------------------------------------------------------------
(***************************************************************************)
(* Evaluating an expression keeps the invariant.                           *)
(***************************************************************************)
\* An expression that is worth something at once.
LEMMA ValueIInv ==
  ASSUME IInv, Due, NEW v \in LiveValues(namespaces) \union {Error}, Return(v),
         UNCHANGED <<namespaces, current_ns, stack>>, TablesOK'
  PROVE  IInv'
<1>1. /\ namespaces' = namespaces /\ current_ns' = current_ns /\ stack' = stack
      /\ result' = v /\ erred' = (erred \/ v = Error)
  BY DEF Return
<1>2. /\ result = Nothing /\ Top.at \notin {"main", "require"}
      /\ Top.at = "load" => Top.home # NONE
      /\ Top.at = "try" => Top.mode = "EXPR" /\ Top.value # Error
  BY DueTop
<1>3. StackOK(stack, namespaces)' /\ LoadedOutside(stack)'
  BY <1>1 DEF IInv
<1>4. Top' = Top
  BY <1>1 DEF Top
<1>5. TopOK'
  BY <1>1, <1>2, <1>4 DEF TopOK
<1>6. AtHome' /\ LoaderHome'
  BY <1>1, <1>4 DEF IInv, AtHome, LoaderHome
<1>7. ErrorsHeld'
  BY <1>1, <1>2, ResultKinds DEF IInv, ErrorsHeld
<1> QED BY <1>3, <1>5, <1>6, <1>7 DEF IInv

\* An expression whose parts are evaluated first: a frame waits for them.
LEMMA FrameIInv ==
  ASSUME IInv, Due, NEW f \in LiveFrames(namespaces), stack' = Append(stack, f),
         f.at \in {"call", "def", "do", "try", "load"},
         f.at = "load" => f.home = NONE /\ ~f.failed,
         f.at = "call" => f.old_ns = current_ns /\ current_ns' = f.home,
         f.at # "call" => current_ns' = current_ns,
         f.at = "try" => f.mode = "EXPR" /\ f.value = Data /\ f.erred = erred,
         UNCHANGED <<namespaces, result, erred>>, TablesOK'
  PROVE  IInv'
<1> DEFINE n == Len(stack)
<1>1. /\ stack # <<>> /\ result = Nothing /\ result' = Nothing /\ n > 1
      /\ Top.at \notin {"main", "require"}
      /\ Top.at = "load" => Top.home # NONE
      /\ Top.at = "try" => Top.mode = "EXPR" /\ Top.value # Error
      /\ erred' = erred /\ namespaces' = namespaces
  BY DueTop
<1>2. /\ n \in Nat \ {0} /\ Top = stack[n] /\ Top = Last(stack)
  BY <1>1, TopFrame
<1>3. \A r : Inner(stack, n, r) => stack[r].home = current_ns /\ r \in 1 .. n
  BY <1>1, RunningHome
<1>4. OnTopOf(f, Last(stack)) /\ Waits(Last(stack), f)
  BY <1>1, <1>2 DEF OnTopOf, Waits
<1>5. erred <=> \E j \in 1 .. n : Held(stack[j])
  BY <1>1, ResultKinds DEF IInv, ErrorsHeld
<1>6. /\ StackOK(stack', namespaces) /\ Len(stack') = n + 1 /\ stack'[n + 1] = f
      /\ \A i \in 1 .. n : stack'[i] = stack[i]
  <2>1. f.at = "try" => (f.erred <=> \E j \in 1 .. n : Held(stack[j]))
    BY <1>5
  <2>2. \A j \in 1 .. n : Inner(stack, n, j) =>
          /\ f.at = "call" => f.old_ns = stack[j].home
          /\ f.at = "require" => f.saved = stack[j].home
    BY <1>3
  <2>3. StackOK(stack, namespaces) /\ stack' = Append(stack, f)
    BY DEF IInv
  <2> QED BY <1>1, <1>4, <2>1, <2>2, <2>3, Pushed
<1>7. Top' = f
  <2>1. Top' = stack'[Len(stack')]
    BY <1>6, FrontAndLast DEF Top, StackOK, Last
  <2> QED BY <1>6, <2>1
<1>8. \A i \in 1 .. n + 1 : i \in 1 .. n \/ i = n + 1
  BY <1>2
<1>9. LoadedOutside(stack')
  <2>1. stack[n].at # "require" /\ LoadedOutside(stack)
    BY <1>1, <1>2 DEF IInv
  <2> QED BY <1>2, <1>6, <2>1, LoadedMore
<1>10. TopOK'
  BY <1>1, <1>7, ResultKinds DEF TopOK
<1>11. AtHome'
  <2> SUFFICES ASSUME NEW j \in 1 .. n + 1, Inner(stack', n + 1, j),
                      stack'[j].home # NONE
               PROVE  current_ns' = stack'[j].home
    BY <1>6 DEF AtHome
  <2>1. n + 1 \in Nat \ {0} /\ n + 1 - 1 = n
    BY <1>2
  <2>2. CASE f.at \in {"call", "load"}
    <3>1. Runs(stack'[n + 1])
      BY <1>6, <2>2 DEF Runs
    <3>2. j = n + 1
      BY ONLY <2>1, <3>1, Inner(stack', n + 1, j), InnerStep
    <3> QED BY <1>6, <2>2, <3>2
  <2>3. CASE f.at \notin {"call", "load"}
    <3>1. Inner(stack', n, j)
      <4>1. ~Runs(stack'[n + 1])
        BY <1>6, <2>3 DEF Runs
      <4> QED BY ONLY <2>1, <4>1, Inner(stack', n + 1, j), InnerStep
    <3>2. Inner(stack, n, j)
      <4>1. \A k \in 1 .. n : stack'[k].at = stack[k].at
        BY <1>6
      <4> QED BY <1>2, <3>1, <4>1, InnerSame
    <3> QED BY <1>3, <1>6, <2>3, <3>2
  <2> QED BY <2>2, <2>3
<1>12. ErrorsHeld'
  <2>1. ~Held(f)
    BY ResultKinds DEF Held
  <2>2. (\E j \in 1 .. n + 1 : Held(stack'[j])) <=> (\E j \in 1 .. n : Held(stack[j]))
    <3>1. n + 1 \in 1 .. n + 1 /\ \A j \in 1 .. n : j \in 1 .. n + 1
      BY <1>2
    <3> QED BY <1>6, <1>8, <2>1, <3>1
  <2> QED BY <1>1, <1>5, <1>6, <2>2, ResultKinds DEF ErrorsHeld
<1>13. StackOK(stack, namespaces)' /\ LoadedOutside(stack)'
  BY <1>1, <1>6, <1>9
<1>14. LoaderHome'
  <2> SUFFICES ASSUME f.at = "load", NEW j \in 1 .. n, Inner(stack', n, j)
               PROVE  current_ns' = stack'[j].home
    <3>1. Len(stack') - 1 = n
      BY <1>2, <1>6
    <3> QED BY <1>7, <3>1 DEF LoaderHome
  <2>1. Inner(stack, n, j)
    <3>1. \A k \in 1 .. n : stack'[k].at = stack[k].at
      BY <1>6
    <3> QED BY <1>2, <3>1, InnerSame
  <2> QED BY <1>3, <1>6, <2>1
<1> QED BY <1>10, <1>11, <1>12, <1>13, <1>14 DEF IInv

\* in-ns: the code that runs goes to another namespace.
LEMMA EnterNsIInv ==
  ASSUME IInv, NEW ns \in AllNames, EnterNs(ns), result = Nothing, stack # <<>>,
         Top.at \notin {"main", "require"},
         Top.at = "load" => Top.home # NONE \/ ns = Top.file,
         Top.at = "try" => Top.mode = "EXPR" /\ Top.value # Error,
         forms' \in 0 .. Forms
  PROVE  IInv'
<1> DEFINE n == Len(stack)
           N == namespaces
           M == namespaces \union {ns}
<1>1. /\ namespaces' = M /\ current_ns' = ns
      /\ stack' = [stack EXCEPT ![Running].home = ns] /\ result' = Data
      /\ erred' = (erred \/ Data = Error) /\ UNCHANGED <<bound, as, refer>>
  BY DEF EnterNs, Return
<1>2. /\ n \in Nat \ {0} /\ n \in 1 .. n /\ n > 1 /\ Top = stack[n]
      /\ stack \in Seq(LiveFrames(N)) /\ DOMAIN stack = 1 .. n
      /\ \A i \in 1 .. n : stack[i] \in LiveFrames(N) /\ PosOK(stack, N, i)
  BY TopFrame
<1>3. N \subseteq M /\ M \subseteq AllNames /\ ns \in M /\ ns # NONE
  BY NoneIsNoNamespace DEF IInv, TablesOK
<1>4. PICK r \in 1 .. n : Inner(stack, n, r)
  BY <1>2 DEF PosOK
<1>5. stack[r].at \in {"load", "call"}
  BY <1>4 DEF Inner, Runs
<1>6. Running = r
  BY <1>2, <1>4, RunningInIs DEF Running
<1> DEFINE there == [stack[r] EXCEPT !.home = ns]
<1>7. /\ there \in LiveFrames(M) /\ there.at = stack[r].at /\ there.home = ns
      /\ Held(there) <=> Held(stack[r])
      /\ stack[r].at = "load" => there.file = stack[r].file /\ there \in LoadFrames(M)
      /\ stack[r].at = "call" => there.old_ns = stack[r].old_ns
  <2>1. stack[r] \in LiveFrames(N) /\ Runs(stack[r])
    BY <1>2, <1>4 DEF Inner
  <2> HIDE DEF M
  <2> QED BY <1>3, <2>1, Rehomed
<1>8. stack' = [stack EXCEPT ![r] = there]
  BY <1>1, <1>6
<1> HIDE DEF there
<1>9. /\ stack' \in Seq(LiveFrames(M)) /\ Len(stack') = n /\ stack'[r] = there
      /\ \A k \in 1 .. n : k # r => stack'[k] = stack[k]
  <2>1. stack \in Seq(LiveFrames(M))
    <3>1. LiveFrames(N) \subseteq LiveFrames(M)
      BY <1>3, MoreFrames
    <3> QED BY <1>2, <3>1, SeqMonotonic
  <2> HIDE DEF M
  <2> QED BY <1>7, <1>8, <2>1
<1>10. stack[r].at = "load" => there.file \in M
  <2>1. CASE stack[r].at = "load" /\ stack[r].home # NONE
    BY <1>2, <1>7, <2>1 DEF PosOK
  <2>2. CASE stack[r].at = "load" /\ stack[r].home = NONE
    <3>1. r = n
      <4>1. r # n => r \in 1 .. n - 1
        <5>1. n \in Nat \ {0} /\ r \in 1 .. n
          BY <1>2
        <5> QED BY ONLY <5>1
      <4> QED BY <2>2, <4>1 DEF IInv, StackOK, Waits
    <3> QED BY <1>2, <1>3, <1>7, <2>2, <3>1
  <2> QED BY <2>1, <2>2
<1>11. StackOK(stack', M) /\ \A k \in 1 .. n : stack'[k].at = stack[k].at
  <2>1. StackOK(stack, N) /\ stack[n].at # "require"
    BY <1>2 DEF IInv
  <2> HIDE DEF M
  <2> QED BY <1>3, <1>4, <1>7, <1>9, <1>10, <2>1, HomeChanged
<1>12. LoadedOutside(stack')
  <2>1. \A k \in 1 .. n :
          stack'[k].at = stack[k].at /\ (stack[k].at = "load" => stack'[k].file = stack[k].file)
    BY <1>7, <1>9, <1>11
  <2>2. LoadedOutside(stack) /\ n \in Nat /\ n <= n
    BY <1>2 DEF IInv
  <2> QED BY <1>9, <2>1, <2>2, LoadedSame
<1>13. \A k \in 1 .. n : Held(stack'[k]) <=> Held(stack[k])
  BY <1>7, <1>9
<1>14. Top' = stack'[n] /\ stack' # <<>>
  <2>1. stack' # <<>>
    BY <1>2, <1>9
  <2> QED BY <1>9, <2>1, FrontAndLast DEF Top, Last
<1>15. TopOK'
  <2>1. Top'.at = Top.at
    BY <1>2, <1>11, <1>14
  <2>2. Top.at = "try" => Top' = Top
    BY <1>2, <1>5, <1>9, <1>14
  <2>3. Top.at = "load" => r = n
    <3>1. Top.at = "load" => Inner(stack, n, n)
      BY <1>2 DEF Inner, Runs
    <3> QED BY <1>2, <1>4, <3>1, InnerOnce
  <2>4. Top.at = "load" => Top'.home = ns
    BY <1>7, <1>9, <1>14, <2>3
  <2> QED BY <1>3, <2>1, <2>2, <2>4 DEF TopOK
<1>16. AtHome'
  <2> SUFFICES ASSUME NEW j \in 1 .. n, Inner(stack', n, j)
               PROVE  current_ns' = stack'[j].home
    BY <1>9 DEF AtHome
  <2>1. Inner(stack, n, j)
    BY <1>2, <1>11, InnerSame
  <2>2. j = r
    BY <1>2, <1>4, <2>1, InnerOnce
  <2> QED BY <1>1, <1>7, <1>9, <2>2
<1>17. ErrorsHeld'
  BY <1>1, <1>9, <1>13, ResultKinds DEF IInv, ErrorsHeld
<1>18. TablesOK'
  <2>1. LiveValues(N) \subseteq LiveValues(M)
    BY <1>3, MoreFrames
  <2>2. /\ User \in M /\ bound \in [AllNames -> [Symbols -> LiveValues(M) \union {Absent}]]
    <3>1. bound \in [AllNames -> [Symbols -> LiveValues(N) \union {Absent}]] /\ User \in N
      BY DEF IInv, TablesOK
    <3>2. \A m \in AllNames : bound[m] \in [Symbols -> LiveValues(M) \union {Absent}]
      BY <2>1, <3>1
    <3> QED BY <3>1, <3>2
  <2>3. /\ as \in [AllNames -> [AllNames \union Aliases -> M \union {NONE}]]
        /\ refer \in [AllNames -> [Symbols -> M \union {NONE}]]
    <3>1. /\ as \in [AllNames -> [AllNames \union Aliases -> N \union {NONE}]]
          /\ refer \in [AllNames -> [Symbols -> N \union {NONE}]]
      BY DEF IInv, TablesOK
    <3>2. \A m \in AllNames : as[m] \in [AllNames \union Aliases -> M \union {NONE}]
      BY <1>3, <3>1
    <3>3. \A m \in AllNames : refer[m] \in [Symbols -> M \union {NONE}]
      BY <1>3, <3>1
    <3> HIDE DEF M, N
    <3>4. as \in [AllNames -> [AllNames \union Aliases -> M \union {NONE}]]
      BY ONLY <3>1, <3>2
    <3>5. refer \in [AllNames -> [Symbols -> M \union {NONE}]]
      BY ONLY <3>1, <3>3
    <3> QED BY ONLY <3>4, <3>5
  <2>4. erred' \in BOOLEAN /\ result' \in LiveValues(M)
    BY <1>1, ResultKinds DEF IInv, TablesOK
  <2>5. /\ namespaces' = M /\ M \subseteq AllNames /\ current_ns' \in M
        /\ bound' = bound /\ as' = as /\ refer' = refer /\ forms' \in 0 .. Forms
    BY <1>1, <1>3
  <2> HIDE DEF M
  <2> QED BY ONLY <2>2, <2>3, <2>4, <2>5 DEF TablesOK
<1>19. StackOK(stack, namespaces)' /\ LoadedOutside(stack)'
  BY <1>1, <1>11, <1>12
<1>20. LoaderHome'
  <2>1. Top'.at = "load" => Runs(stack[n])
    BY <1>2, <1>11, <1>14 DEF Runs
  <2>2. Runs(stack[n]) => r = n
    <3>1. Runs(stack[n]) => Inner(stack, n, n)
      BY <1>2 DEF Inner
    <3> QED BY <1>2, <1>4, <3>1, InnerOnce
  <2>3. Top'.at = "load" => Top'.home # NONE
    BY <1>3, <1>7, <1>9, <1>14, <2>1, <2>2
  <2> QED BY <2>3 DEF LoaderHome
<1> QED BY <1>15, <1>16, <1>17, <1>18, <1>19, <1>20 DEF IInv

\* A sequence of some length is not empty.
LEMMA NotEmpty ==
  ASSUME NEW s, Len(s) # 0
  PROVE  s # <<>>
<1>1. Len(<<>>) = 0
  OBVIOUS
<1> QED BY <1>1

\* What is left when the frame on top is gone.
LEMMA PoppedAt ==
  ASSUME NEW s, NEW N, StackOK(s, N), LoadedOutside(s), NEW n \in Nat \ {0}, Len(s) = n + 1
  PROVE  LET t == Front(s)
         IN  /\ StackOK(t, N) /\ LoadedOutside(t) /\ Len(t) = n
             /\ t # <<>> /\ Last(t) = s[n] /\ \A k \in 1 .. n : t[k] = s[k]
<1> DEFINE t == Front(s)
<1>1. n + 1 # 0 /\ n + 1 - 1 = n /\ n # 0 /\ n \in 1 .. n
  OBVIOUS
<1>2. s # <<>>
  BY <1>1, NotEmpty
<1>3. /\ StackOK(t, N) /\ LoadedOutside(t) /\ Len(t) = n
      /\ \A k \in 1 .. n : t[k] = s[k]
  <2>1. /\ StackOK(Front(s), N) /\ LoadedOutside(Front(s))
        /\ Len(Front(s)) = Len(s) - 1
        /\ \A i \in 1 .. Len(s) - 1 : Front(s)[i] = s[i]
    BY ONLY <1>2, StackOK(s, N), LoadedOutside(s), Popped
  <2>2. Len(s) - 1 = n
    OBVIOUS
  <2> QED BY ONLY <2>1, <2>2 DEF t
<1> HIDE DEF t
<1>4. t # <<>>
  BY <1>1, <1>3, NotEmpty
<1>5. Last(t) = t[n]
  BY <1>3, <1>4, StackFrames
<1> QED BY <1>1, <1>3, <1>4, <1>5 DEF t

\* What a call left on top of the stack, once it is gone, waited for it.
LEMMA PoppedTop ==
  ASSUME NEW s, NEW N, StackOK(s, N), LoadedOutside(s), Len(s) > 1, Last(s).at # "load"
  PROVE  LET n == Len(s) - 1
             t == Front(s)
         IN  /\ n \in Nat \ {0} /\ n \in 1 .. n /\ n + 1 = Len(s) /\ Len(t) = n
             /\ s # <<>> /\ t # <<>> /\ Last(s) = s[n + 1] /\ Last(t) = s[n]
             /\ \A i \in 1 .. n : t[i] = s[i] /\ i \in 1 .. n + 1
             /\ s[n] \in LiveFrames(N) /\ PosOK(s, N, n) /\ PosOK(s, N, n + 1)
             /\ s[n].at \notin {"main", "require"}
             /\ s[n].at = "load" => s[n].home # NONE
             /\ Waits(s[n], Last(s)) /\ OnTopOf(Last(s), s[n])
             /\ StackOK(t, N) /\ LoadedOutside(t)
             /\ n > 1 /\ \E r \in 1 .. n : Inner(s, n, r)
             /\ \A r : Inner(t, n, r) <=> Inner(s, n, r)
<1> DEFINE n == Len(s) - 1
           t == Front(s)
<1>1. s # <<>>
  <2>1. Len(s) # 0
    OBVIOUS
  <2> QED BY <2>1, NotEmpty
<1>2. /\ Len(s) \in Nat \ {0} /\ Last(s) = s[Len(s)]
      /\ \A i \in 1 .. Len(s) : s[i] \in LiveFrames(N) /\ PosOK(s, N, i)
  BY <1>1, StackFrames
<1>3. /\ n \in Nat \ {0} /\ n \in 1 .. n /\ n + 1 = Len(s) /\ n + 1 \in 1 .. n + 1
      /\ \A i \in 1 .. n : i \in 1 .. n + 1
  BY <1>2
<1>4. StackOK(t, N) /\ LoadedOutside(t) /\ Len(t) = n /\ \A i \in 1 .. n : t[i] = s[i]
  BY <1>1, Popped
<1>5. OnTopOf(Last(s), s[n]) /\ Waits(s[n], Last(s))
  BY <1>1, <1>2, StackFrames
<1>6. s[n].at \notin {"main", "require"}
  BY <1>5 DEF OnTopOf
<1>7. s[n].at = "load" => s[n].home # NONE
  BY <1>5 DEF Waits
<1>8. t # <<>> /\ Last(t) = s[n]
  <2> HIDE DEF t
  <2>1. t # <<>>
    BY <1>3, <1>4, NotEmpty
  <2>2. Last(t) = t[Len(t)]
    BY <1>4, <2>1, StackFrames
  <2> QED BY <1>3, <1>4, <2>1, <2>2
<1>9. s[n] \in LiveFrames(N) /\ PosOK(s, N, n) /\ PosOK(s, N, n + 1)
  BY <1>2, <1>3
<1>10. n > 1 /\ \E r \in 1 .. n : Inner(s, n, r)
  <2>1. n # 1
    BY <1>6, <1>9 DEF PosOK
  <2>2. n > 1
    BY <1>3, <2>1
  <2> QED BY <1>9, <2>2 DEF PosOK
<1>11. \A r : Inner(t, n, r) <=> Inner(s, n, r)
  <2>1. \A k \in 1 .. n : t[k].at = s[k].at
    BY <1>4
  <2> HIDE DEF t, n
  <2> QED BY <1>3, <2>1, InnerSame
<1>12. Last(s) = s[n + 1]
  BY <1>2, <1>3
<1> QED BY <1>1, <1>3, <1>4, <1>5, <1>6, <1>7, <1>8, <1>9, <1>10, <1>11, <1>12

\* A frame hands on a result, and the code below it is where it was.
LEMMA ReturnIInv ==
  ASSUME NEW s, StackOK(s, namespaces), LoadedOutside(s), Len(s) > 1,
         Last(s).at \notin {"load", "catch", "finally"}, stack' = Front(s),
         result' # Nothing, namespaces' = namespaces, TablesOK',
         \A r \in 1 .. Len(s) - 1 : Inner(s, Len(s) - 1, r) => current_ns' = s[r].home,
         erred' <=> (result' = Error \/ \E j \in 1 .. Len(s) - 1 : Held(s[j]))
  PROVE  IInv'
<1> DEFINE n == Len(s) - 1
<1>1. /\ n \in Nat \ {0} /\ Len(stack') = n /\ \A i \in 1 .. n : stack'[i] = s[i]
      /\ stack' # <<>> /\ Last(stack') = s[n]
      /\ s[n].at \notin {"main", "require"}
      /\ s[n].at = "load" => s[n].home # NONE
      /\ Waits(s[n], Last(s))
      /\ StackOK(stack', namespaces) /\ LoadedOutside(stack')
      /\ \A r : Inner(stack', n, r) <=> Inner(s, n, r)
  BY PoppedTop
<1>2. s[n].at = "try" => s[n].mode = "EXPR" /\ s[n].value # Error
  BY <1>1 DEF Waits
<1>3. TopOK' /\ LoaderHome'
  BY <1>1, <1>2 DEF TopOK, LoaderHome, Top
<1>4. AtHome'
  BY <1>1 DEF AtHome
<1>5. ErrorsHeld'
  BY <1>1 DEF ErrorsHeld
<1>6. StackOK(stack, namespaces)' /\ LoadedOutside(stack)'
  BY <1>1
<1> QED BY <1>3, <1>4, <1>5, <1>6 DEF IInv

\* A file or a try on top is changed, as in TopChanged.
LEMMA TopEdited ==
  ASSUME NEW s, NEW N, StackOK(s, N), LoadedOutside(s), s # <<>>, NEW f \in LiveFrames(N),
         Last(s).at \in {"load", "try"}, f.at = Last(s).at,
         f.at = "load" => f.file = Last(s).file /\ f.home = Last(s).home,
         f.at = "try" => f.erred = Last(s).erred
  PROVE  LET n == Len(s)
             t == [s EXCEPT ![n] = f]
         IN  /\ n \in Nat \ {0} /\ n \in 1 .. n /\ Len(t) = n
             /\ t # <<>> /\ Last(t) = f /\ t[n] = f
             /\ \A i \in 1 .. n - 1 : t[i] = s[i] /\ i \in 1 .. n
             /\ \A i \in 1 .. n : Runs(s[i]) => t[i].home = s[i].home
             /\ StackOK(t, N) /\ LoadedOutside(t)
             /\ \A r : Inner(t, n, r) <=> Inner(s, n, r)
<1> DEFINE n == Len(s)
           t == [s EXCEPT ![n] = f]
<1>1. n \in Nat \ {0} /\ n \in 1 .. n /\ Last(s) = s[n] /\ s \in Seq(LiveFrames(N))
  BY StackFrames DEF StackOK
<1>2. /\ t \in Seq(LiveFrames(N)) /\ Len(t) = n /\ t[n] = f
      /\ \A i \in 1 .. n - 1 : t[i] = s[i] /\ i \in 1 .. n
  BY <1>1
<1> HIDE DEF t
<1>3. StackOK(t, N)
  BY <1>1, <1>2, TopChanged
<1>4. \A i \in 1 .. n : i = n \/ i \in 1 .. n - 1
  BY <1>1
<1>5. \A i \in 1 .. n : t[i].at = s[i].at /\ (s[i].at = "load" => t[i].file = s[i].file)
  BY <1>1, <1>2, <1>4
<1>6. LoadedOutside(t)
  <2>1. n \in Nat /\ n <= n
    BY <1>1
  <2> QED BY <1>2, <1>5, <2>1, LoadedSame
<1>7. \A r : Inner(t, n, r) <=> Inner(s, n, r)
  BY <1>1, <1>5, InnerSame
<1>8. \A i \in 1 .. n : Runs(s[i]) => t[i].home = s[i].home
  BY <1>1, <1>2, <1>4 DEF Runs
<1>9. t # <<>>
  BY <1>1, <1>2, NotEmpty
<1>10. Last(t) = f
  BY <1>1, <1>2, <1>9, FrontAndLast
<1> QED BY <1>1, <1>2, <1>3, <1>6, <1>7, <1>8, <1>9, <1>10 DEF t

\* A file or a try on top takes note of a result and goes on.
LEMMA EditIInv ==
  ASSUME NEW s, StackOK(s, namespaces), LoadedOutside(s), s # <<>>,
         NEW f \in LiveFrames(namespaces),
         Last(s).at \in {"load", "try"}, f.at = Last(s).at,
         f.at = "load" => f.file = Last(s).file /\ f.home = Last(s).home /\ f.home # NONE,
         f.at = "try" => f.erred = Last(s).erred /\ (f.mode = "CATCH" => f.value # Error),
         stack' = [s EXCEPT ![Len(s)] = f],
         result' = Nothing, namespaces' = namespaces, TablesOK',
         \A r \in 1 .. Len(s) :
           Inner(s, Len(s), r) /\ s[r].home # NONE => current_ns' = s[r].home,
         erred' <=> (Held(f) \/ \E j \in 1 .. Len(s) - 1 : Held(s[j]))
  PROVE  IInv'
<1> DEFINE n == Len(s)
           u == [s EXCEPT ![n] = f]
<1>1. /\ n \in Nat \ {0} /\ n \in 1 .. n /\ Len(u) = n
      /\ u # <<>> /\ Last(u) = f /\ u[n] = f
      /\ \A i \in 1 .. n - 1 : u[i] = s[i] /\ i \in 1 .. n
      /\ \A i \in 1 .. n : Runs(s[i]) => u[i].home = s[i].home
      /\ StackOK(u, namespaces) /\ LoadedOutside(u)
      /\ \A r : Inner(u, n, r) <=> Inner(s, n, r)
  <2>1. /\ f.at = "try" => f.erred = Last(s).erred
        /\ f.at = "load" => f.file = Last(s).file /\ f.home = Last(s).home
    OBVIOUS
  <2> QED BY ONLY <2>1, TopEdited, StackOK(s, namespaces), LoadedOutside(s), s # <<>>,
         f \in LiveFrames(namespaces),
         Last(s).at \in {"load", "try"}, f.at = Last(s).at
<1>2. stack' = u
  OBVIOUS
<1> HIDE DEF u
<1>3. /\ n \in Nat \ {0} /\ n \in 1 .. n /\ Len(stack') = n
      /\ stack' # <<>> /\ Last(stack') = f /\ stack'[n] = f
      /\ \A i \in 1 .. n - 1 : stack'[i] = s[i] /\ i \in 1 .. n
      /\ \A i \in 1 .. n : Runs(s[i]) => stack'[i].home = s[i].home
      /\ StackOK(stack', namespaces) /\ LoadedOutside(stack')
      /\ \A r : Inner(stack', n, r) <=> Inner(s, n, r)
  <2> HIDE DEF n
  <2> QED BY ONLY <1>1, <1>2
<1>4. TopOK' /\ LoaderHome'
  <2>1. Top' = f
    BY <1>3 DEF Top
  <2>2. TopOK'
    BY <2>1 DEF TopOK
  <2>3. LoaderHome'
    BY <2>1 DEF LoaderHome
  <2> QED BY <2>2, <2>3
<1>5. AtHome'
  BY <1>3 DEF AtHome, Inner
<1>6. ErrorsHeld'
  <2>1. \A i \in 1 .. n : i = n \/ i \in 1 .. n - 1
    BY <1>3
  <2>2. (\E j \in 1 .. n : Held(stack'[j])) <=> (Held(f) \/ \E j \in 1 .. n - 1 : Held(s[j]))
    BY <1>3, <2>1
  <2> QED BY <1>3, <2>2, ResultKinds DEF ErrorsHeld
<1>7. StackOK(stack, namespaces)' /\ LoadedOutside(stack)'
  BY <1>3
<1> QED BY <1>4, <1>5, <1>6, <1>7 DEF IInv

\* The tables stay, and what is returned is a result.
LEMMA TablesSame ==
  ASSUME IInv, UNCHANGED tables, current_ns' \in namespaces,
         result' \in LiveValues(namespaces) \union {Nothing, Error},
         forms' \in 0 .. Forms, erred' \in BOOLEAN
  PROVE  TablesOK'
BY DEF IInv, TablesOK, tables

\* What require does to the tables once the namespace is there.
LEMMA RequiredTables ==
  ASSUME IInv, NEW ns \in namespaces, NEW alias, NEW symbol \in Symbols \union {NONE},
         NEW in \in namespaces, Required(ns, alias, symbol, in),
         current_ns' \in namespaces, forms' \in 0 .. Forms
  PROVE  /\ TablesOK' /\ namespaces' = namespaces
         /\ result' \in {Data, Error} /\ Return(result')
<1>1. /\ bound \in [AllNames -> [Symbols -> LiveValues(namespaces) \union {Absent}]]
      /\ as \in [AllNames -> [AllNames \union Aliases -> namespaces \union {NONE}]]
      /\ refer \in [AllNames -> [Symbols -> namespaces \union {NONE}]]
      /\ in \in AllNames /\ erred \in BOOLEAN
      /\ namespaces \subseteq AllNames /\ User \in namespaces
  BY DEF IInv, TablesOK
<1>2. namespaces' = namespaces /\ bound' = bound
  BY DEF Required
<1>3. as' \in [AllNames -> [AllNames \union Aliases -> namespaces \union {NONE}]]
  <2> DEFINE there == [a \in DOMAIN as[in] |-> IF a \in {ns, alias} THEN ns ELSE as[in][a]]
  <2>1. as' = [as EXCEPT ![in] = there]
    BY DEF Required
  <2>2. as[in] \in [AllNames \union Aliases -> namespaces \union {NONE}]
    BY <1>1
  <2>3. there \in [AllNames \union Aliases -> namespaces \union {NONE}]
    BY <2>2
  <2> HIDE DEF there
  <2> QED BY <1>1, <2>1, <2>3
<1>4. /\ result' \in {Data, Error} /\ Return(result')
      /\ \/ refer' = refer
         \/ symbol # NONE /\ refer' = [refer EXCEPT ![in][symbol] = ns]
  BY DEF Required, Return
<1>5. refer' \in [AllNames -> [Symbols -> namespaces \union {NONE}]]
  <2>1. CASE refer' = refer
    BY <1>1, <2>1
  <2>2. CASE symbol # NONE /\ refer' = [refer EXCEPT ![in][symbol] = ns]
    <3>1. refer[in] \in [Symbols -> namespaces \union {NONE}]
      BY <1>1
    <3>2. [refer[in] EXCEPT ![symbol] = ns] \in [Symbols -> namespaces \union {NONE}]
      BY <3>1
    <3> QED BY <1>1, <2>2, <3>2
  <2> QED BY <1>4, <2>1, <2>2
<1>6. result' \in LiveValues(namespaces) \union {Nothing, Error} /\ erred' \in BOOLEAN
  BY <1>1, <1>4, ResultKinds DEF Return
<1> QED BY <1>1, <1>2, <1>3, <1>4, <1>5, <1>6 DEF TablesOK

\* A binding of a symbol.
LEMMA BoundTables ==
  ASSUME IInv, NEW ns \in AllNames, NEW symbol \in Symbols,
         NEW value \in LiveValues(namespaces),
         bound' = [bound EXCEPT ![ns][symbol] = value],
         UNCHANGED <<namespaces, as, refer, current_ns>>,
         result' \in LiveValues(namespaces) \union {Nothing, Error},
         forms' \in 0 .. Forms, erred' \in BOOLEAN
  PROVE  TablesOK'
<1>1. bound \in [AllNames -> [Symbols -> LiveValues(namespaces) \union {Absent}]]
  BY DEF IInv, TablesOK
<1>2. bound[ns] \in [Symbols -> LiveValues(namespaces) \union {Absent}]
  BY <1>1
<1>3. [bound[ns] EXCEPT ![symbol] = value] \in [Symbols -> LiveValues(namespaces) \union {Absent}]
  BY <1>2
<1>4. bound' \in [AllNames -> [Symbols -> LiveValues(namespaces) \union {Absent}]]
  BY <1>1, <1>3
<1> QED BY <1>4 DEF IInv, TablesOK

-----------------------------------------------------------------------------
(***************************************************************************)
(* The actions: expressions.                                               *)
(***************************************************************************)
\* An expression without an effect.
LEMMA EvalIInv ==
  ASSUME IInv, lval_eval
  PROVE  IInv'
<1>1. Due /\ forms' \in 0 .. Forms
  BY DueTop DEF lval_eval
<1>2. PICK value \in Worth : Return(value)
  BY DEF lval_eval
<1>3. value \in LiveValues(namespaces) \union {Error}
  BY <1>1, WorthIs
<1>4. UNCHANGED <<tables, namespaces, current_ns, stack>>
  BY DEF lval_eval, tables
<1>5. TablesOK'
  <2>1. result' \in LiveValues(namespaces) \union {Nothing, Error} /\ erred' \in BOOLEAN
    BY <1>2, <1>3 DEF Return, IInv, TablesOK
  <2> QED BY <1>1, <1>4, <2>1, TablesSame DEF IInv, TablesOK
<1> QED BY <1>1, <1>2, <1>3, <1>4, <1>5, ValueIInv

\* A call of a function.
LEMMA CallIInv ==
  ASSUME IInv, eval_lambda_call
  PROVE  IInv'
<1>1. Due /\ forms' \in 0 .. Forms
  BY DueTop DEF eval_lambda_call
<1>2. PICK fn \in Worth : /\ fn.kind = "fn" /\ stack' = Append(stack, Calling(fn))
                          /\ current_ns' = fn.ns
  BY DEF eval_lambda_call
<1>3. fn \in LiveFns(namespaces)
  BY <1>1, <1>2, WorthIs, ValueKinds, ResultKinds
<1>4. fn.ns \in namespaces /\ current_ns \in namespaces
  BY <1>3 DEF LiveFns, IInv, TablesOK
<1> DEFINE f == Calling(fn)
<1>5. /\ f \in LiveFrames(namespaces) /\ f.at = "call"
      /\ f.old_ns = current_ns /\ f.home = fn.ns
  BY <1>3, <1>4 DEF Calling, CallFrames, LiveFrames
<1>6. TablesOK'
  BY <1>1, <1>2, <1>4, TablesSame DEF eval_lambda_call, IInv, TablesOK
<1>7. UNCHANGED <<namespaces, result, erred>>
  BY DEF eval_lambda_call, tables
<1> HIDE DEF f
<1>8. stack' = Append(stack, f)
  BY <1>2 DEF f
<1> QED BY <1>1, <1>2, <1>5, <1>6, <1>7, <1>8, FrameIInv

\* A do.
LEMMA DoIInv ==
  ASSUME IInv, eval_do
  PROVE  IInv'
<1>1. Due /\ forms' \in 0 .. Forms /\ Env \in AllNames
  BY DueTop DEF eval_do
<1> DEFINE f == Doing(Env)
<1>2. f \in LiveFrames(namespaces) /\ f.at = "do"
  BY <1>1 DEF Doing, DoFrames, LiveFrames
<1>3. TablesOK' /\ UNCHANGED <<namespaces, result, erred, current_ns>>
  BY <1>1, TablesSame DEF eval_do, IInv, TablesOK, tables
<1>4. stack' = Append(stack, f)
  BY DEF eval_do
<1> HIDE DEF f
<1> QED BY <1>1, <1>2, <1>3, <1>4, FrameIInv

\* A call of load.
LEMMA LoadFnIInv ==
  ASSUME IInv, NEW file \in Names, load_fn(file)
  PROVE  IInv'
<1>1. Due /\ forms' \in 0 .. Forms
  BY DueTop DEF load_fn
<1> DEFINE f == Loading(file)
<1>2. f \in LiveFrames(namespaces) /\ f.at = "load" /\ f.home = NONE /\ ~f.failed
  BY DEF Loading, LoadFrames, LiveFrames
<1>3. TablesOK' /\ UNCHANGED <<namespaces, result, erred, current_ns>>
  BY <1>1, TablesSame DEF load_fn, IInv, TablesOK, tables
<1>4. stack' = Append(stack, f)
  BY DEF load_fn
<1> HIDE DEF f
<1> QED BY <1>1, <1>2, <1>3, <1>4, FrameIInv

\* A try.
LEMMA TryIInv ==
  ASSUME IInv, eval_try
  PROVE  IInv'
<1>1. Due /\ forms' \in 0 .. Forms /\ Env \in AllNames
  BY DueTop DEF eval_try
<1> DEFINE f == Trying(Env)
<1>2. /\ f \in LiveFrames(namespaces) /\ f.at = "try"
      /\ f.mode = "EXPR" /\ f.value = Data /\ f.erred = erred
  <2>1. Data \in LiveValues(namespaces) /\ erred \in BOOLEAN
    BY ResultKinds DEF IInv, TablesOK
  <2> QED BY <1>1, <2>1 DEF Trying, TryFrames, LiveFrames
<1>3. TablesOK' /\ UNCHANGED <<namespaces, result, erred, current_ns>>
  BY <1>1, TablesSame DEF eval_try, IInv, TablesOK, tables
<1>4. stack' = Append(stack, f)
  BY DEF eval_try
<1> HIDE DEF f
<1> QED BY <1>1, <1>2, <1>3, <1>4, FrameIInv

\* A def: the symbol is there before its value is.
LEMMA DefIInv ==
  ASSUME IInv, NEW symbol \in Symbols, eval_def(symbol)
  PROVE  IInv'
<1>1. /\ Due /\ forms' \in 0 .. Forms /\ Env \in AllNames
      /\ UNCHANGED <<namespaces, as, refer, current_ns>>
      /\ current_ns \in namespaces /\ current_ns \in AllNames
  BY DueTop DEF eval_def, IInv, TablesOK
<1>2. /\ bound' = [bound EXCEPT ![current_ns][symbol] = Unbound] \/ bound' = bound
  BY DEF eval_def
<1>3. ASSUME result' \in LiveValues(namespaces) \union {Nothing, Error}, erred' \in BOOLEAN
      PROVE  TablesOK'
  <2>1. CASE bound' = bound
    BY <1>1, <1>3, <2>1, TablesSame DEF tables
  <2>2. CASE bound' = [bound EXCEPT ![current_ns][symbol] = Unbound]
    BY <1>1, <1>3, <2>2, BoundTables, ResultKinds
  <2> QED BY <1>2, <2>1, <2>2
<1>4. CASE Return(Data) /\ UNCHANGED stack
  <2>1. Data \in LiveValues(namespaces) /\ erred' \in BOOLEAN /\ result' = Data
    BY <1>4, ResultKinds DEF Return, IInv, TablesOK
  <2> QED BY <1>1, <1>3, <1>4, <2>1, ValueIInv
<1>5. CASE stack' = Append(stack, Defining(symbol, Env)) /\ UNCHANGED <<result, erred>>
  <2> DEFINE f == Defining(symbol, Env)
  <2>1. f \in LiveFrames(namespaces) /\ f.at = "def"
    BY <1>1 DEF Defining, DefFrames, LiveFrames
  <2>2. TablesOK'
    BY <1>3, <1>5 DEF IInv, TablesOK
  <2>3. stack' = Append(stack, f)
    BY <1>5
  <2> HIDE DEF f
  <2> QED BY <1>1, <1>5, <2>1, <2>2, <2>3, FrameIInv
<1> QED BY <1>4, <1>5 DEF eval_def

\* A file begins.
LEMMA BeginIInv ==
  ASSUME IInv, begin_file
  PROVE  IInv'
<1>1. /\ stack # <<>> /\ result = Nothing /\ Top.at = "load"
      /\ EnterNs(Top.file) /\ forms' = forms
  BY DEF begin_file
<1>2. Top \in LoadFrames(namespaces)
  BY <1>1, TopFrame, FrameKinds
<1>3. Top.file \in AllNames
  BY <1>2 DEF LoadFrames, AllNames
<1>4. forms' \in 0 .. Forms
  BY <1>1 DEF IInv, TablesOK
<1> QED BY <1>1, <1>3, <1>4, EnterNsIInv

\* in-ns.
LEMMA InNsIInv ==
  ASSUME IInv, NEW ns \in AllNames, in_ns_fn(ns)
  PROVE  IInv'
<1>1. Due /\ EnterNs(ns)
  BY DEF in_ns_fn
<1> QED BY <1>1, DueTop, EnterNsIInv

\* A require of a namespace that is not there: its file is loaded.
LEMMA LoadIInv ==
  ASSUME IInv, Due, NEW ns \in Names, NEW alias \in Aliases \union {NONE},
         NEW symbol \in Symbols \union {NONE}, ns \notin namespaces,
         stack' = stack \o <<Requiring(ns, alias, symbol), Loading(ns)>>,
         UNCHANGED <<tables, current_ns, result, erred>>
  PROVE  IInv'
<1> DEFINE n == Len(stack)
           N == namespaces
           f == Requiring(ns, alias, symbol)
           g == Loading(ns)
           s == Append(stack, f)
<1>1. /\ stack # <<>> /\ result = Nothing /\ n > 1
      /\ Top.at \notin {"main", "require"}
      /\ Top.at = "load" => Top.home # NONE
      /\ Top.at = "try" => Top.mode = "EXPR" /\ Top.value # Error
      /\ forms' \in 0 .. Forms
  BY DueTop
<1>2. /\ n \in Nat \ {0} /\ n \in 1 .. n /\ Top = stack[n] /\ Top = Last(stack)
      /\ stack \in Seq(LiveFrames(N)) /\ StackOK(stack, N)
      /\ \A i \in 1 .. n : PosOK(stack, N, i)
  BY <1>1, TopFrame DEF IInv
<1>3. f \in LiveFrames(N) /\ f.at = "require" /\ f.saved = current_ns
  <2>1. current_ns \in N
    BY DEF IInv, TablesOK
  <2> QED BY <2>1 DEF Requiring, RequireFrames, LiveFrames
<1>4. /\ g \in LiveFrames(N) /\ g.at = "load" /\ g.home = NONE /\ g.file = ns /\ ~g.failed
  BY DEF Loading, LoadFrames, LiveFrames
<1>5. stack' = Append(s, g)
  <2> HIDE DEF f, g
  <2>1. stack \o <<f, g>> = Append(Append(stack, f), g)
    BY <1>2, <1>3, <1>4
  <2> QED BY <2>1 DEF f, g
<1> HIDE DEF f, g, s
<1>6. /\ StackOK(s, N) /\ Len(s) = n + 1 /\ s[n + 1] = f
      /\ \A i \in 1 .. n : s[i] = stack[i]
  <2>1. OnTopOf(f, Last(stack)) /\ Waits(Last(stack), f)
    BY <1>1, <1>2, <1>3 DEF OnTopOf, Waits
  <2>2. \A j \in 1 .. n : Inner(stack, n, j) =>
          /\ f.at = "call" => f.old_ns = stack[j].home
          /\ f.at = "require" => f.saved = stack[j].home
    BY <1>1, <1>3, RunningHome
  <2>3. f.at # "load" /\ f.at # "try" /\ n > 1 /\ StackOK(stack, N) /\ stack # <<>>
    BY <1>1, <1>2, <1>3
  <2>4. /\ StackOK(Append(stack, f), N) /\ Len(Append(stack, f)) = n + 1
        /\ Append(stack, f)[n + 1] = f
        /\ \A i \in 1 .. n : Append(stack, f)[i] = stack[i]
    BY ONLY <1>3, <2>1, <2>2, <2>3, Pushed
  <2> QED BY <2>4 DEF s
<1>7. s # <<>> /\ Last(s) = f
  <2>1. s # <<>>
    BY <1>2, <1>6, NotEmpty
  <2> QED BY <1>2, <1>6, <2>1, StackFrames
<1>8. /\ StackOK(stack', N) /\ Len(stack') = n + 2 /\ stack'[n + 2] = g
      /\ stack'[n + 1] = f /\ \A i \in 1 .. n : stack'[i] = stack[i]
  <2>1. OnTopOf(g, Last(s)) /\ Waits(Last(s), g) /\ Runs(g)
    BY <1>3, <1>4, <1>7 DEF OnTopOf, Waits, Runs
  <2>2. /\ StackOK(Append(s, g), N) /\ Len(Append(s, g)) = Len(s) + 1
        /\ Append(s, g)[Len(s) + 1] = g
        /\ \A i \in 1 .. Len(s) : Append(s, g)[i] = s[i]
    BY <1>4, <1>6, <1>7, <2>1, Pushed
  <2>3. Len(s) + 1 = n + 2 /\ n + 1 \in 1 .. Len(s) /\ \A i \in 1 .. n : i \in 1 .. Len(s)
    BY <1>2, <1>6
  <2> QED BY <1>5, <1>6, <2>2, <2>3
<1>9. stack' # <<>> /\ Top' = g
  <2>1. stack' # <<>>
    BY <1>2, <1>8, NotEmpty
  <2>2. Last(stack') = stack'[Len(stack')]
    BY <1>8, <2>1, StackFrames
  <2> QED BY <1>8, <2>1, <2>2 DEF Top
<1>10. \A i \in 1 .. n + 2 : i \in 1 .. n \/ i = n + 1 \/ i = n + 2
  BY <1>2
<1>11. \A i \in 1 .. n : stack[i].at = "load" => stack[i].file # ns
  <2> SUFFICES ASSUME NEW i \in 1 .. n, stack[i].at = "load" PROVE stack[i].file # ns
    OBVIOUS
  <2>1. stack[i].home # NONE
    <3>1. CASE i = n
      BY <1>1, <1>2, <3>1
    <3>2. CASE i # n
      <4>1. i \in 1 .. n - 1
        BY <1>2, <3>2
      <4> QED BY <1>2, <4>1 DEF StackOK, Waits
    <3> QED BY <3>1, <3>2
  <2> QED BY <1>2, <2>1 DEF PosOK
<1>12. LoadedOutside(stack')
  <2>1. LoadedOutside(s)
    <3>1. n \in Nat /\ s[n + 1].at # "load" /\ LoadedOutside(stack)
      BY <1>2, <1>3, <1>6 DEF IInv
    <3> QED BY <1>6, <3>1, LoadedMore
  <2>2. \A k \in 1 .. n + 1 : stack'[k] = s[k] /\ (k \in 1 .. n \/ k = n + 1)
    BY <1>2, <1>6, <1>8
  <2>3. \A k \in 1 .. n + 1 : s[k].at = "load" => s[k].file # g.file
    BY <1>3, <1>4, <1>6, <1>11, <2>2
  <2>4. /\ n + 1 \in Nat /\ n + 1 + 1 = n + 2
        /\ Len(s) = n + 1 /\ Len(stack') = n + 1 + 1 /\ stack'[n + 1 + 1] = g
    BY <1>2, <1>6, <1>8
  <2> QED BY ONLY <2>1, <2>2, <2>3, <2>4, LoadedMore
<1>13. TopOK'
  BY <1>1, <1>4, <1>9 DEF TopOK
<1>14. AtHome'
  <2> SUFFICES ASSUME NEW j \in 1 .. n + 2, Inner(stack', n + 2, j)
               PROVE  stack'[j].home = NONE
    BY <1>8 DEF AtHome
  <2>1. Runs(stack'[n + 2]) /\ n + 2 \in Nat \ {0}
    BY <1>2, <1>4, <1>8 DEF Runs
  <2>2. j = n + 2
    BY ONLY <2>1, Inner(stack', n + 2, j), InnerStep
  <2> QED BY <1>4, <1>8, <2>2
<1>15. ErrorsHeld'
  <2>1. ~Held(f) /\ ~Held(g)
    BY <1>3, <1>4 DEF Held
  <2>2. \A i \in 1 .. n : i \in 1 .. n + 2
    BY <1>2
  <2>3. (\E j \in 1 .. n + 2 : Held(stack'[j])) <=> (\E j \in 1 .. n : Held(stack[j]))
    BY <1>8, <1>10, <2>1, <2>2
  <2> QED BY <1>8, <2>3 DEF IInv, ErrorsHeld
<1>16. TablesOK' /\ namespaces' = namespaces
  BY <1>1, TablesSame DEF IInv, TablesOK, tables
<1>17. StackOK(stack, namespaces)' /\ LoadedOutside(stack)'
  BY <1>8, <1>12, <1>16
<1>18. LoaderHome'
  <2>1. Len(stack') - 1 = n + 1
    BY <1>2, <1>8
  <2> QED BY <1>3, <1>8, <2>1 DEF LoaderHome
<1> QED BY <1>13, <1>14, <1>15, <1>16, <1>17, <1>18 DEF IInv

\* A require.
LEMMA RequireIInv ==
  ASSUME IInv, NEW ns \in Names, NEW alias \in Aliases \union {NONE},
         NEW symbol \in Symbols \union {NONE}, require_fn(ns, alias, symbol)
  PROVE  IInv'
<1>1. Due /\ forms' \in 0 .. Forms
  BY DueTop DEF require_fn
<1>2. CASE ns \in namespaces
  <2>1. /\ Required(ns, alias, symbol, current_ns) /\ UNCHANGED <<stack, current_ns>>
        /\ current_ns \in namespaces
    BY <1>2 DEF require_fn, IInv, TablesOK
  <2>2. /\ TablesOK' /\ namespaces' = namespaces
        /\ result' \in {Data, Error} /\ Return(result')
    BY <1>1, <1>2, <2>1, RequiredTables
  <2>3. result' \in LiveValues(namespaces) \union {Error}
    BY <2>2, ResultKinds
  <2> QED BY <1>1, <2>1, <2>2, <2>3, ValueIInv
<1>3. CASE ns \notin namespaces
  BY <1>1, <1>3, LoadIInv DEF require_fn
<1> QED BY <1>2, <1>3

-----------------------------------------------------------------------------
(***************************************************************************)
(* The actions: returning.                                                 *)
(***************************************************************************)
\* Where an error is held.
LEMMA HeldBelow ==
  ASSUME IInv, stack # <<>>
  PROVE  erred <=> \/ result = Error
                   \/ Held(Top)
                   \/ \E j \in 1 .. Len(stack) - 1 : Held(stack[j])
<1> DEFINE n == Len(stack)
<1>1. n \in Nat \ {0} /\ n \in 1 .. n /\ Top = stack[n]
  BY TopFrame
<1>2. \A i \in 1 .. n : i = n \/ i \in 1 .. n - 1
  BY <1>1
<1>3. \A i \in 1 .. n - 1 : i \in 1 .. n
  BY <1>1
<1>4. erred <=> (result = Error \/ \E j \in 1 .. n : Held(stack[j]))
  BY DEF IInv, ErrorsHeld
<1> QED BY <1>1, <1>2, <1>3, <1>4

\* What is below a frame that is no code of its own is where the program is.
LEMMA BelowHome ==
  ASSUME IInv, stack # <<>>, Top.at \notin {"main", "require", "load", "call"}
  PROVE  \A r : Inner(stack, Len(stack) - 1, r) =>
           r \in 1 .. Len(stack) - 1 /\ current_ns = stack[r].home
<1>1. Len(stack) \in Nat \ {0} /\ ~Runs(stack[Len(stack)])
  BY TopFrame DEF Runs
<1>2. \A r : Inner(stack, Len(stack) - 1, r) => Inner(stack, Len(stack), r)
  BY <1>1, InnerStep
<1>3. \A r : Inner(stack, Len(stack), r) => stack[r].home = current_ns
  BY RunningHome
<1> QED BY <1>2, <1>3 DEF Inner

\* A form of a file returned.
LEMMA NextFormIInv ==
  ASSUME IInv, next_form
  PROVE  IInv'
<1> DEFINE n == Len(stack)
           f == [Top EXCEPT !.failed = @ \/ result = Error]
<1>1. /\ stack # <<>> /\ Top.at = "load" /\ result # Nothing /\ result' = Nothing
      /\ stack' = [stack EXCEPT ![n].failed = @ \/ result = Error]
      /\ UNCHANGED <<tables, namespaces, current_ns, forms, erred>>
  BY DEF next_form, Returned, tables
<1>2. /\ n \in Nat \ {0} /\ Top = stack[n] /\ Top = Last(stack)
      /\ Top \in LoadFrames(namespaces)
  BY <1>1, TopFrame, FrameKinds
<1>3. /\ f \in LiveFrames(namespaces) /\ f.at = "load" /\ f.file = Top.file
      /\ f.home = Top.home /\ (f.failed <=> Top.failed \/ result = Error)
      /\ f.home # NONE
  <2>1. Top.home # NONE
    BY <1>1 DEF IInv, TopOK
  <2> QED BY <1>2, <2>1 DEF LoadFrames, LiveFrames
<1>4. stack' = [stack EXCEPT ![n] = f]
  BY <1>1, <1>2
<1> HIDE DEF f
<1>5. Held(f) <=> Held(Top) \/ result = Error
  BY <1>1, <1>3 DEF Held
<1>6. erred' <=> (Held(f) \/ \E j \in 1 .. n - 1 : Held(stack[j]))
  <2>1. \A i \in 1 .. n : i = n \/ i \in 1 .. n - 1
    BY <1>2
  <2>2. n \in 1 .. n /\ \A i \in 1 .. n - 1 : i \in 1 .. n
    BY <1>2
  <2>3. erred <=> (result = Error \/ \E j \in 1 .. n : Held(stack[j]))
    BY DEF IInv, ErrorsHeld
  <2> QED BY <1>1, <1>2, <1>5, <2>1, <2>2, <2>3
<1>7. \A r \in 1 .. n : Inner(stack, n, r) /\ stack[r].home # NONE => current_ns' = stack[r].home
  BY <1>1 DEF IInv, AtHome
<1>8. TablesOK' /\ StackOK(stack, namespaces) /\ LoadedOutside(stack)
  BY <1>1, TablesSame DEF IInv, TablesOK
<1>9. /\ Last(stack).at \in {"load", "try"} /\ f.at = Last(stack).at /\ f.at # "try"
      /\ f.file = Last(stack).file /\ f.home = Last(stack).home /\ f.home # NONE
      /\ f \in LiveFrames(namespaces) /\ stack # <<>>
      /\ stack' = [stack EXCEPT ![Len(stack)] = f]
      /\ result' = Nothing /\ namespaces' = namespaces
  BY <1>1, <1>2, <1>3, <1>4
<1> QED BY ONLY <1>6, <1>7, <1>8, <1>9, EditIInv

\* An argument of a try returned.
LEMMA NextInTryIInv ==
  ASSUME IInv, next_in_try
  PROVE  IInv'
<1> DEFINE n == Len(stack)
           f == [Top EXCEPT !.value = result]
<1>1. /\ stack # <<>> /\ Top.at = "try" /\ result # Nothing /\ result' = Nothing
      /\ stack' = [stack EXCEPT ![n].value = result]
      /\ UNCHANGED <<tables, namespaces, current_ns, forms, erred>>
  BY DEF next_in_try, Returned, tables
<1>2. /\ n \in Nat \ {0} /\ Top = stack[n] /\ Top = Last(stack)
      /\ Top \in TryFrames(namespaces)
  BY <1>1, TopFrame, FrameKinds
<1>3. /\ f \in LiveFrames(namespaces) /\ f.at = "try" /\ f.erred = Top.erred
      /\ f.mode = Top.mode /\ f.value = result
  <2>1. result \in LiveValues(namespaces) \union {Error}
    BY <1>1 DEF IInv, TablesOK
  <2> QED BY <1>2, <2>1 DEF TryFrames, LiveFrames
<1>4. stack' = [stack EXCEPT ![n] = f]
  BY <1>1, <1>2
<1> HIDE DEF f
<1>5. Top.mode = "EXPR" /\ Top.value # Error
  BY <1>1 DEF IInv, TopOK
<1>6. (Held(f) <=> result = Error) /\ ~Held(Top)
  BY <1>1, <1>3, <1>5 DEF Held
<1>7. erred' <=> (Held(f) \/ \E j \in 1 .. n - 1 : Held(stack[j]))
  BY <1>1, <1>6, HeldBelow
<1>8. \A r \in 1 .. n : Inner(stack, n, r) /\ stack[r].home # NONE => current_ns' = stack[r].home
  BY <1>1 DEF IInv, AtHome
<1>9. TablesOK' /\ StackOK(stack, namespaces) /\ LoadedOutside(stack)
  BY <1>1, TablesSame DEF IInv, TablesOK
<1> QED BY <1>1, <1>2, <1>3, <1>4, <1>5, <1>7, <1>8, <1>9, EditIInv

\* There is nothing to catch.
LEMMA CatchNothingIInv ==
  ASSUME IInv, catch_nothing
  PROVE  IInv'
<1> DEFINE n == Len(stack)
           f == [Top EXCEPT !.mode = "CATCH"]
<1>1. /\ stack # <<>> /\ Top.at = "try" /\ result = Nothing /\ result' = Nothing
      /\ Top.value # Error
      /\ stack' = [stack EXCEPT ![n].mode = "CATCH"]
      /\ UNCHANGED <<tables, namespaces, current_ns, forms, erred>>
  BY DEF catch_nothing, AtClause, tables
<1>2. /\ n \in Nat \ {0} /\ Top = stack[n] /\ Top = Last(stack)
      /\ Top \in TryFrames(namespaces)
  BY <1>1, TopFrame, FrameKinds
<1>3. /\ f \in LiveFrames(namespaces) /\ f.at = "try" /\ f.erred = Top.erred
      /\ f.value = Top.value
  BY <1>2 DEF TryFrames, LiveFrames
<1>4. stack' = [stack EXCEPT ![n] = f]
  BY <1>1, <1>2
<1> HIDE DEF f
<1>5. ~Held(f) /\ ~Held(Top)
  BY <1>1, <1>3 DEF Held
<1>6. erred' <=> (Held(f) \/ \E j \in 1 .. n - 1 : Held(stack[j]))
  BY <1>1, <1>5, HeldBelow, ResultKinds
<1>7. \A r \in 1 .. n : Inner(stack, n, r) /\ stack[r].home # NONE => current_ns' = stack[r].home
  BY <1>1 DEF IInv, AtHome
<1>8. TablesOK' /\ StackOK(stack, namespaces) /\ LoadedOutside(stack)
  BY <1>1, TablesSame DEF IInv, TablesOK
<1> QED BY <1>1, <1>2, <1>3, <1>4, <1>6, <1>7, <1>8, EditIInv

\* A clause of a try is evaluated.
LEMMA HandleIInv ==
  ASSUME IInv, AtClause, NEW clause, NEW mode, Handle(clause, mode), forms' = forms,
         \/ clause = "catch" /\ mode = "CATCH"
         \/ clause = "finally" /\ mode = "FINALLY",
         erred' \in BOOLEAN,
         erred' <=> \/ clause = "finally" /\ Top.value = Error
                    \/ \E j \in 1 .. Len(stack) - 1 : Held(stack[j])
  PROVE  IInv'
<1> DEFINE n == Len(stack)
           N == namespaces
           f == [Top EXCEPT !.mode = mode]
           s == [stack EXCEPT ![n] = f]
           g == Handling(clause, Top.env)
<1>1. /\ stack # <<>> /\ Top.at = "try" /\ result = Nothing /\ result' = Nothing
      /\ stack' = Append([stack EXCEPT ![n].mode = mode], g)
      /\ UNCHANGED <<tables, namespaces, current_ns>>
  BY DEF AtClause, Handle, tables
<1>2. /\ n \in Nat \ {0} /\ Top = stack[n] /\ Top = Last(stack) /\ n > 1
      /\ Top \in TryFrames(N) /\ StackOK(stack, N) /\ LoadedOutside(stack)
  BY <1>1, TopFrame, FrameKinds DEF IInv
<1>3. /\ f \in LiveFrames(N) /\ f.at = "try" /\ f.erred = Top.erred
      /\ f.value = Top.value /\ f.mode = mode
  BY <1>2 DEF TryFrames, LiveFrames
<1>4. g \in LiveFrames(N) /\ g.at = clause
  BY <1>2 DEF TryFrames, ClauseFrames, LiveFrames, Handling
<1>5. stack' = Append(s, g)
  BY <1>1, <1>2
<1> HIDE DEF f, g
<1>6. /\ n \in Nat \ {0} /\ n \in 1 .. n /\ Len(s) = n
      /\ s # <<>> /\ Last(s) = f /\ s[n] = f
      /\ \A i \in 1 .. n - 1 : s[i] = stack[i] /\ i \in 1 .. n
      /\ \A i \in 1 .. n : Runs(stack[i]) => s[i].home = stack[i].home
      /\ StackOK(s, N) /\ LoadedOutside(s)
      /\ \A r : Inner(s, n, r) <=> Inner(stack, n, r)
  <2>1. /\ stack # <<>> /\ StackOK(stack, N) /\ LoadedOutside(stack)
        /\ Last(stack).at = "try" /\ f.at = Last(stack).at /\ f.at # "load"
        /\ f.erred = Last(stack).erred
    BY <1>1, <1>2, <1>3
  <2>2. /\ f.at = "load" => f.file = Last(stack).file /\ f.home = Last(stack).home
        /\ f.at = "try" => f.erred = Last(stack).erred
        /\ Last(stack).at \in {"load", "try"}
    BY <2>1
  <2>3. f \in LiveFrames(N)
    BY <1>3
  <2> QED BY ONLY <2>1, <2>2, <2>3, TopEdited
<1> HIDE DEF s
<1>7. /\ StackOK(stack', N) /\ Len(stack') = n + 1 /\ stack'[n + 1] = g
      /\ \A i \in 1 .. n : stack'[i] = s[i]
  <2>1. OnTopOf(g, Last(s)) /\ Waits(Last(s), g) /\ Len(s) > 1
    BY <1>2, <1>3, <1>4, <1>6 DEF OnTopOf, Waits
  <2>2. g.at \notin {"load", "call", "require", "try"}
    BY <1>4
  <2> QED BY <1>4, <1>5, <1>6, <2>1, <2>2, Pushed
<1>8. stack' # <<>> /\ Top' = g
  <2>1. stack' # <<>>
    BY <1>2, <1>7, NotEmpty
  <2>2. Last(stack') = stack'[Len(stack')]
    BY <1>7, <2>1, StackFrames
  <2> QED BY <1>7, <2>1, <2>2 DEF Top
<1>9. \A i \in 1 .. n + 1 : i = n + 1 \/ i = n \/ i \in 1 .. n - 1
  BY <1>2
<1>10. /\ n + 1 \in Nat \ {0} /\ n + 1 - 1 = n
       /\ \A i \in 1 .. n : i \in 1 .. n + 1
       /\ \A i \in 1 .. n + 1 : i = n + 1 \/ i \in 1 .. n
  BY <1>2
<1>11. LoadedOutside(stack')
  <2>1. /\ LoadedOutside(s) /\ Len(s) = n /\ Len(stack') = n + 1 /\ n \in Nat
        /\ stack'[n + 1].at # "load" /\ \A k \in 1 .. n : stack'[k] = s[k]
    BY <1>2, <1>4, <1>6, <1>7
  <2> QED BY ONLY <2>1, LoadedMore
<1>12. TopOK' /\ LoaderHome'
  BY <1>1, <1>4, <1>8 DEF TopOK, LoaderHome
<1>13. AtHome'
  <2> SUFFICES ASSUME NEW j \in 1 .. n + 1, Inner(stack', n + 1, j)
               PROVE  current_ns' = stack'[j].home
    BY <1>7 DEF AtHome
  <2>1. ~Runs(stack'[n + 1])
    BY <1>4, <1>7 DEF Runs
  <2>2. Inner(stack', n, j)
    BY ONLY <1>10, <2>1, Inner(stack', n + 1, j), InnerStep
  <2>3. Inner(s, n, j)
    <3>1. \A k \in 1 .. n : stack'[k].at = s[k].at
      BY <1>7
    <3> QED BY <1>2, <2>2, <3>1, InnerSame
  <2>4. Inner(stack, n, j) /\ j \in 1 .. n /\ Runs(stack[j])
    BY <1>6, <2>3 DEF Inner
  <2>5. stack'[j].home = stack[j].home
    BY <1>6, <1>7, <2>4
  <2>6. stack[j].home = current_ns
    BY <1>1, <2>4, RunningHome
  <2> QED BY <1>1, <2>5, <2>6
<1>14. ErrorsHeld'
  <2>1. ~Held(g)
    BY <1>4 DEF Held
  <2>2. Held(f) <=> clause = "finally" /\ Top.value = Error
    BY <1>3 DEF Held
  <2>3. (\E j \in 1 .. n + 1 : Held(stack'[j])) <=>
          (Held(f) \/ \E j \in 1 .. n - 1 : Held(stack[j]))
    BY <1>6, <1>7, <1>9, <1>10, <2>1
  <2> QED BY <1>1, <1>7, <2>2, <2>3, ResultKinds DEF ErrorsHeld
<1>15. TablesOK'
  BY <1>1, TablesSame DEF IInv, TablesOK
<1>16. StackOK(stack, namespaces)' /\ LoadedOutside(stack)'
  BY <1>1, <1>7, <1>11
<1> QED BY <1>12, <1>13, <1>14, <1>15, <1>16 DEF IInv

\* The error of an expression is caught.
LEMMA CatchIInv ==
  ASSUME IInv, catch
  PROVE  IInv'
<1>1. /\ AtClause /\ Handle("catch", "CATCH") /\ forms' = forms /\ erred' = Top.erred
      /\ stack # <<>> /\ Top.at = "try"
  BY DEF catch, AtClause
<1>2. Top \in TryFrames(namespaces)
  BY <1>1, TopFrame, FrameKinds
<1>3. erred' \in BOOLEAN
  BY <1>1, <1>2 DEF TryFrames
<1>4. erred' <=> \E j \in 1 .. Len(stack) - 1 : Held(stack[j])
  BY <1>1, TopFrame DEF PosOK
<1> QED BY <1>1, <1>3, <1>4, HandleIInv

\* The clause that is evaluated in any case.
LEMMA FinallyIInv ==
  ASSUME IInv, finally
  PROVE  IInv'
<1>1. /\ AtClause /\ Handle("finally", "FINALLY") /\ forms' = forms /\ erred' = erred
      /\ stack # <<>> /\ Top.at = "try" /\ Top.mode # "FINALLY" /\ result = Nothing
  BY DEF finally, AtClause
<1>2. Top.mode = "CATCH" => Top.value # Error
  BY <1>1 DEF IInv, TopOK
<1>3. Held(Top) <=> Top.value = Error
  BY <1>1, <1>2 DEF Held
<1>4. erred' <=> Top.value = Error \/ \E j \in 1 .. Len(stack) - 1 : Held(stack[j])
  BY <1>1, <1>3, HeldBelow, ResultKinds
<1>5. erred' \in BOOLEAN
  BY <1>1 DEF IInv, TablesOK
<1> QED BY <1>1, <1>4, <1>5, HandleIInv

\* The code that called load goes where the file went.
LEMMA UnloadedIs ==
  ASSUME IInv, stack # <<>>, Top.at = "load", Top.home # NONE,
         NEW n, n = Len(stack) - 1, stack[n].at \notin {"main", "require"}
  PROVE  \E r \in 1 .. n :
           /\ Inner(stack, n, r)
           /\ StackOK(Unloaded, namespaces) /\ Len(Unloaded) = n
           /\ LoadedOutside(Unloaded)
           /\ Unloaded[r].home = Top.home /\ current_ns = Top.home
           /\ \A k \in 1 .. n : k # r => Unloaded[k] = stack[k]
           /\ \A k \in 1 .. n : /\ Unloaded[k].at = stack[k].at
                                /\ Held(Unloaded[k]) <=> Held(stack[k])
<1> DEFINE N == namespaces
           s == Front(stack)
<1>1. /\ n \in Nat \ {0} /\ Top = stack[n + 1] /\ n + 1 = Len(stack)
      /\ StackOK(stack, N) /\ LoadedOutside(stack) /\ Top \in LoadFrames(N)
      /\ \A k \in 1 .. n + 1 : stack[k] \in LiveFrames(N) /\ PosOK(stack, N, k)
      /\ n + 1 \in 1 .. n + 1 /\ \A k \in 1 .. n : k \in 1 .. n + 1 /\ k \in Nat
  BY TopFrame, FrameKinds DEF IInv
<1>2. /\ StackOK(s, N) /\ LoadedOutside(s) /\ Len(s) = n
      /\ s # <<>> /\ Last(s) = stack[n] /\ \A k \in 1 .. n : s[k] = stack[k]
  <2>1. /\ n \in Nat \ {0} /\ Len(stack) = n + 1
        /\ StackOK(stack, N) /\ LoadedOutside(stack)
    BY <1>1
  <2> QED BY ONLY <2>1, PoppedAt DEF s
<1> HIDE DEF s
<1>3. s \in Seq(LiveFrames(N)) /\ DOMAIN s = 1 .. n
  BY <1>2 DEF StackOK
<1>4. PICK r \in 1 .. n : Inner(stack, n, r)
  <2>1. PosOK(stack, N, n)
    BY <1>1
  <2>2. n # 1
    BY <2>1 DEF PosOK
  <2>3. n > 1
    BY <1>1, <2>2
  <2> QED BY <2>1, <2>3 DEF PosOK
<1>5. Inner(s, n, r) /\ Runs(s[r])
  <2>1. \A k \in 1 .. n : s[k].at = stack[k].at
    BY <1>2
  <2>2. Inner(s, n, r)
    BY <1>1, <1>4, <2>1, InnerSame
  <2> QED BY <2>2 DEF Inner
<1>6. RunningIn(s) = r
  BY <1>1, <1>2, <1>3, <1>5, RunningInIs
<1>7. Top.home \in N /\ current_ns = Top.home
  <2>1. Top.home \in N
    BY <1>1 DEF LoadFrames
  <2>2. Inner(stack, n + 1, n + 1)
    BY <1>1 DEF Inner, Runs
  <2>3. /\ Len(stack) \in 1 .. Len(stack) /\ stack[Len(stack)] = Top
        /\ Inner(stack, Len(stack), Len(stack))
    BY <1>1, <2>2
  <2>4. current_ns = stack[Len(stack)].home
    BY <2>3 DEF IInv, AtHome
  <2> QED BY <2>1, <2>3, <2>4
<1> DEFINE there == [s[r] EXCEPT !.home = Top.home]
<1>8. /\ there \in LiveFrames(N) /\ there.at = s[r].at /\ there.home = Top.home
      /\ Held(there) <=> Held(s[r])
      /\ s[r].at = "load" => there.file = s[r].file
      /\ s[r].at = "call" => there.old_ns = s[r].old_ns
  <2>1. s[r] \in LiveFrames(N) /\ N \subseteq N
    BY <1>1, <1>2
  <2> QED BY ONLY <1>5, <1>7, <2>1, Rehomed
<1> DEFINE t == [s EXCEPT ![r] = there]
<1>9. Unloaded = t
  <2>1. Below = s
    BY DEF s, Below
  <2>2. Last(s).at \notin {"main", "require"}
    BY <1>2
  <2> QED BY <1>6, <2>1, <2>2 DEF Unloaded
<1> HIDE DEF there
<1>10. /\ t \in Seq(LiveFrames(N)) /\ Len(t) = n /\ t[r] = there
       /\ \A k \in 1 .. n : k # r => t[k] = s[k]
  BY <1>2, <1>3, <1>8
<1> HIDE DEF t
<1>11. s[r].at = "load" => s[r].file \in N
  <2>1. r \in 1 .. Len(stack) - 1
    BY <1>1
  <2>2. Waits(stack[r], stack[r + 1])
    BY <1>1, <2>1 DEF StackOK
  <2> QED BY <1>1, <1>2, <2>2 DEF Waits, PosOK
<1>12. StackOK(t, N) /\ \A k \in 1 .. n : t[k].at = s[k].at
  <2>1. /\ s[Len(s)].at # "require" /\ StackOK(s, N) /\ s # <<>> /\ r \in 1 .. Len(s)
        /\ Inner(s, Len(s), r) /\ Len(t) = Len(s) /\ t \in Seq(LiveFrames(N))
        /\ \A k \in 1 .. Len(s) : k # r => t[k] = s[k]
    BY <1>1, <1>2, <1>5, <1>10
  <2>2. /\ t[r].at = s[r].at /\ t[r].home # NONE
        /\ Held(t[r]) <=> Held(s[r])
        /\ s[r].at = "load" => t[r].file \in N
        /\ s[r].at = "call" => t[r].old_ns = s[r].old_ns
    BY <1>7, <1>8, <1>10, <1>11
  <2>3. N \subseteq N
    OBVIOUS
  <2>4. StackOK(t, N) /\ \A k \in 1 .. Len(s) : t[k].at = s[k].at
    BY ONLY <2>1, <2>2, <2>3, HomeChanged
  <2> QED BY <1>2, <2>4
<1>13. LoadedOutside(t)
  <2>1. \A k \in 1 .. n : /\ t[k].at = s[k].at
                          /\ s[k].at = "load" => t[k].file = s[k].file
    BY <1>8, <1>10, <1>12
  <2>2. n \in Nat /\ n <= n
    BY <1>1
  <2> QED BY <1>2, <1>10, <2>1, <2>2, LoadedSame
<1>14. \A k \in 1 .. n : /\ t[k].at = stack[k].at
                         /\ Held(t[k]) <=> Held(stack[k])
  BY <1>2, <1>8, <1>10, <1>12
<1> QED BY <1>2, <1>4, <1>7, <1>8, <1>9, <1>10, <1>12, <1>13, <1>14

\* A file ends: main, a require or the code that called load waited for it.
LEMMA EndLoadIInv ==
  ASSUME IInv, end_load
  PROVE  IInv'
<1> DEFINE n == Len(stack) - 1
           N == namespaces
<1>1. /\ stack # <<>> /\ Top.at = "load" /\ result = Nothing /\ stack' = Unloaded
      /\ UNCHANGED <<tables, namespaces, current_ns, forms>>
      /\ \/ Return(IF Top.failed THEN Error ELSE Data)
         \/ Return(Error)
  BY DEF end_load, tables
<1>2. /\ n \in Nat \ {0} /\ n \in 1 .. n /\ Top = stack[n + 1] /\ Top = Last(stack)
      /\ n + 1 \in 1 .. Len(stack) /\ n + 1 = Len(stack) /\ n + 1 > 1
      /\ StackOK(stack, N) /\ LoadedOutside(stack) /\ Top \in LoadFrames(N)
  BY <1>1, TopFrame, FrameKinds DEF IInv
<1>3. /\ StackOK(Front(stack), N) /\ LoadedOutside(Front(stack)) /\ Len(Front(stack)) = n
      /\ Last(Front(stack)) = stack[n] /\ \A k \in 1 .. n : Front(stack)[k] = stack[k]
      /\ Waits(stack[n], Top)
  <2>1. /\ n \in Nat \ {0} /\ Len(stack) = n + 1
        /\ StackOK(stack, N) /\ LoadedOutside(stack)
    BY <1>2
  <2>2. Waits(stack[n], Top)
    BY <1>1, <1>2, StackFrames
  <2> HIDE DEF n, N
  <2>3. /\ StackOK(Front(stack), N) /\ LoadedOutside(Front(stack)) /\ Len(Front(stack)) = n
        /\ Last(Front(stack)) = stack[n] /\ \A k \in 1 .. n : Front(stack)[k] = stack[k]
    BY ONLY <2>1, PoppedAt
  <2> QED BY ONLY <2>2, <2>3
<1>4. \/ /\ stack[n].at \notin {"main", "require"} /\ Top.home # NONE
      \/ /\ stack[n].at \in {"main", "require"} \/ Top.home = NONE
         /\ stack' = Front(stack)
  <2> HIDE DEF n
  <2> QED BY <1>1, <1>3 DEF Unloaded, Below
<1>5. /\ StackOK(stack', N) /\ LoadedOutside(stack') /\ Len(stack') = n
      /\ \A k \in 1 .. n : /\ stack'[k].at = stack[k].at
                           /\ Held(stack'[k]) <=> Held(stack[k])
      /\ \A k \in 1 .. n : ~Runs(stack[k]) => stack'[k] = stack[k]
  <2>1. CASE stack[n].at \notin {"main", "require"} /\ Top.home # NONE
    BY <1>1, <2>1, UnloadedIs DEF Inner
  <2>2. CASE stack' = Front(stack)
    BY <1>3, <2>2
  <2> QED BY <1>4, <2>1, <2>2
<1>6. ASSUME stack[n].at \notin {"main", "require"}, NEW r \in 1 .. n, Inner(stack, n, r)
      PROVE  current_ns = stack'[r].home /\ stack'[r].home # NONE
  <2>1. CASE Top.home # NONE
    <3>1. PICK q \in 1 .. n : /\ Inner(stack, n, q)
                              /\ Unloaded[q].home = Top.home /\ current_ns = Top.home
      BY <1>1, <1>6, <2>1, UnloadedIs
    <3>2. r = q
      BY <1>2, <1>6, <3>1, InnerOnce
    <3> QED BY <1>1, <2>1, <3>1, <3>2
  <2>2. CASE Top.home = NONE
    <3>1. current_ns = stack[r].home
      BY <1>1, <1>6, <2>2 DEF IInv, LoaderHome
    <3>2. stack'[r] = stack[r]
      BY <1>3, <1>4, <2>2
    <3>3. current_ns # NONE
      BY NoneIsNoNamespace DEF IInv, TablesOK
    <3> QED BY <3>1, <3>2, <3>3
  <2> QED BY <2>1, <2>2
<1>7. /\ stack' # <<>> /\ Top' = stack'[n] /\ Top'.at = stack[n].at
      /\ ~Runs(stack[n]) => Top' = stack[n]
  <2>1. stack' # <<>>
    BY <1>2, <1>5, NotEmpty
  <2>2. Last(stack') = stack'[n]
    BY <1>5, <2>1, StackFrames
  <2> QED BY <1>2, <1>5, <2>1, <2>2 DEF Top
<1>8. /\ result' \in {Data, Error} /\ erred' \in BOOLEAN
      /\ erred' = (erred \/ result' = Error)
      /\ Top.failed => result' = Error
  BY <1>1 DEF Return, IInv, TablesOK
<1>9. Top'.at = "load" => Top'.home # NONE
  <2>1. stack[n].at = "load" => Inner(stack, n, n)
    BY <1>2 DEF Inner, Runs
  <2> QED BY <1>2, <1>6, <1>7, <2>1
<1>10. TopOK' /\ LoaderHome'
  <2>1. Top'.at = "try" => Top'.mode = "EXPR" /\ Top'.value # Error
    BY <1>1, <1>3, <1>7 DEF Waits, Runs
  <2>2. result' # Nothing
    BY <1>8, ResultKinds
  <2> QED BY <1>9, <2>1, <2>2 DEF TopOK, LoaderHome
<1>11. AtHome'
  <2> SUFFICES ASSUME stack[n].at \notin {"main", "require"},
                      NEW j \in 1 .. n, Inner(stack', n, j)
               PROVE  current_ns' = stack'[j].home
    BY <1>5, <1>7 DEF AtHome
  <2>1. Inner(stack, n, j)
    BY <1>2, <1>5, InnerSame
  <2> QED BY <1>1, <1>6, <2>1
<1>12. ErrorsHeld'
  <2>1. Held(Top) <=> Top.failed
    BY <1>1 DEF Held
  <2>2. erred <=> Held(Top) \/ \E j \in 1 .. n : Held(stack[j])
    BY <1>1, HeldBelow, ResultKinds
  <2>3. erred' <=> result' = Error \/ \E j \in 1 .. n : Held(stack[j])
    BY <1>8, <2>1, <2>2
  <2> QED BY <1>5, <2>3 DEF ErrorsHeld
<1>13. TablesOK'
  <2>1. current_ns' \in namespaces /\ forms' \in 0 .. Forms
    BY <1>1 DEF IInv, TablesOK
  <2>2. result' \in LiveValues(namespaces) \union {Nothing, Error}
    BY <1>8, ResultKinds
  <2> QED BY <1>1, <1>8, <2>1, <2>2, TablesSame
<1>14. StackOK(stack, namespaces)' /\ LoadedOutside(stack)'
  BY <1>1, <1>5
<1> QED BY <1>10, <1>11, <1>12, <1>13, <1>14 DEF IInv

\* A require goes back to the namespace it was called in.
LEMMA EndRequireIInv ==
  ASSUME IInv, end_require
  PROVE  IInv'
<1> DEFINE n == Len(stack) - 1
<1>1. /\ stack # <<>> /\ Top.at = "require" /\ result # Nothing /\ stack' = Front(stack)
      /\ current_ns' = Top.saved /\ forms' = forms
      /\ IF result = Error \/ Top.ns \notin namespaces
         THEN Return(Error) /\ UNCHANGED tables
         ELSE Required(Top.ns, Top.alias, Top.symbol, Top.saved)
  BY DEF end_require, Returned, Below
<1>2. /\ Len(stack) > 1 /\ Top = Last(stack) /\ Top = stack[n + 1] /\ n + 1 = Len(stack)
      /\ Top \in RequireFrames(namespaces) /\ n + 1 - 1 = n
      /\ n \in Nat /\ PosOK(stack, namespaces, n + 1)
  BY <1>1, TopFrame, FrameKinds
<1>3. /\ Top.saved \in namespaces /\ Top.symbol \in Symbols \union {NONE}
      /\ forms' \in 0 .. Forms /\ erred \in BOOLEAN
  BY <1>1, <1>2 DEF RequireFrames, IInv, TablesOK
<1>4. /\ TablesOK' /\ namespaces' = namespaces
      /\ result' \in {Data, Error} /\ Return(result')
      /\ result = Error => result' = Error
  <2>1. CASE result = Error \/ Top.ns \notin namespaces
    <3>1. result' = Error /\ Return(result') /\ UNCHANGED <<tables, namespaces>>
      BY <1>1, <2>1 DEF Return, tables
    <3>2. TablesOK'
      BY <1>1, <1>3, <3>1, TablesSame DEF Return
    <3> QED BY <3>1, <3>2
  <2>2. CASE ~(result = Error \/ Top.ns \notin namespaces)
    <3>1. Required(Top.ns, Top.alias, Top.symbol, Top.saved) /\ Top.ns \in namespaces
      BY <1>1, <2>2
    <3> QED BY <1>1, <1>3, <2>2, <3>1, RequiredTables
  <2> QED BY <2>1, <2>2
<1>5. \A r \in 1 .. n : Inner(stack, n, r) => current_ns' = stack[r].home
  <2>1. \A r \in 1 .. n : r \in 1 .. n + 1
    BY <1>2
  <2> QED BY <1>1, <1>2, <2>1 DEF PosOK, SavedIsHome
<1>6. erred' <=> (result' = Error \/ \E j \in 1 .. n : Held(stack[j]))
  <2>1. ~Held(Top)
    BY <1>1 DEF Held
  <2> QED BY <1>1, <1>4, <2>1, HeldBelow DEF Return
<1>7. result' # Nothing
  BY <1>4, ResultKinds
<1>8. StackOK(stack, namespaces) /\ LoadedOutside(stack)
  BY DEF IInv
<1> QED BY <1>1, <1>2, <1>4, <1>5, <1>6, <1>7, <1>8, ReturnIInv

\* A def has its value.
LEMMA EndDefIInv ==
  ASSUME IInv, end_def
  PROVE  IInv'
<1> DEFINE n == Len(stack) - 1
           value == IF result.kind = "fn" /\ ~result.named
                    THEN Fn(current_ns, result.env, TRUE) ELSE result
<1>1. /\ stack # <<>> /\ Top.at = "def" /\ result # Nothing /\ stack' = Front(stack)
      /\ UNCHANGED <<namespaces, as, refer, current_ns, forms, erred>>
      /\ IF result = Error
         THEN UNCHANGED <<bound, result>>
         ELSE /\ bound' = [bound EXCEPT ![Top.ns][Top.symbol] = value]
              /\ result' = Data
  BY DEF end_def, Returned, Below
<1>2. /\ Len(stack) > 1 /\ Top = Last(stack) /\ Top \in DefFrames(namespaces)
      /\ current_ns \in namespaces /\ namespaces \subseteq AllNames
      /\ result \in LiveValues(namespaces) \union {Error}
      /\ forms \in 0 .. Forms /\ erred \in BOOLEAN
  BY <1>1, TopFrame, FrameKinds DEF IInv, TablesOK
<1>3. Top.ns \in AllNames /\ Top.symbol \in Symbols
  BY <1>2 DEF DefFrames
<1>4. result' # Nothing /\ (result' = Error <=> result = Error) /\ TablesOK'
  <2>1. CASE result = Error
    <3>1. bound' = bound /\ result' = result
      BY <1>1, <2>1
    <3>2. UNCHANGED tables
      BY <1>1, <3>1 DEF tables
    <3> QED BY <1>1, <1>2, <3>1, <3>2, TablesSame
  <2>2. CASE result # Error
    <3>1. value \in LiveValues(namespaces)
      <4>1. CASE result.kind = "fn" /\ ~result.named
        <5>1. result \in LiveFns(namespaces)
          BY <1>2, <2>2, <4>1, ValueKinds
        <5>2. Fn(current_ns, result.env, TRUE) \in LiveFns(namespaces)
          BY <1>2, <5>1 DEF LiveFns, Fn
        <5> QED BY <4>1, <5>2 DEF LiveValues
      <4>2. CASE ~(result.kind = "fn" /\ ~result.named)
        BY <1>2, <2>2, <4>2
      <4> QED BY <4>1, <4>2
    <3>2. bound' = [bound EXCEPT ![Top.ns][Top.symbol] = value] /\ result' = Data
      BY <1>1, <2>2
    <3> HIDE DEF value
    <3>3. TablesOK'
      BY <1>1, <1>2, <1>3, <3>1, <3>2, BoundTables, ResultKinds
    <3> QED BY <2>2, <3>2, <3>3, ResultKinds
  <2> QED BY <2>1, <2>2
<1>5. \A r \in 1 .. n : Inner(stack, n, r) => current_ns' = stack[r].home
  BY <1>1, BelowHome
<1>6. erred' <=> (result' = Error \/ \E j \in 1 .. n : Held(stack[j]))
  <2>1. ~Held(Top)
    BY <1>1 DEF Held
  <2> QED BY <1>1, <1>4, <2>1, HeldBelow
<1>7. StackOK(stack, namespaces) /\ LoadedOutside(stack) /\ namespaces' = namespaces
  BY <1>1 DEF IInv
<1>8. Last(stack).at \notin {"load", "catch", "finally"}
  BY <1>1, <1>2
<1> QED BY ONLY <1>1, <1>2, <1>4, <1>5, <1>6, <1>7, <1>8, ReturnIInv

\* A do returns what its last expression did.
LEMMA EndDoIInv ==
  ASSUME IInv, end_do
  PROVE  IInv'
<1> DEFINE n == Len(stack) - 1
<1>1. /\ stack # <<>> /\ Top.at = "do" /\ result # Nothing /\ stack' = Front(stack)
      /\ UNCHANGED <<tables, namespaces, current_ns, result, forms, erred>>
  BY DEF end_do, Returned, Below, tables
<1>2. /\ Len(stack) > 1 /\ Last(stack).at \notin {"load", "catch", "finally"}
  BY <1>1, TopFrame
<1>3. \A r \in 1 .. n : Inner(stack, n, r) => current_ns' = stack[r].home
  BY <1>1, BelowHome
<1>4. erred' <=> (result' = Error \/ \E j \in 1 .. n : Held(stack[j]))
  <2>1. ~Held(Top)
    BY <1>1 DEF Held
  <2> QED BY <1>1, <2>1, HeldBelow
<1>5. StackOK(stack, namespaces) /\ LoadedOutside(stack) /\ TablesOK'
  BY <1>1, TablesSame DEF IInv, TablesOK
<1> QED BY <1>1, <1>2, <1>3, <1>4, <1>5, ReturnIInv

\* A function returns to the namespace it was called in.
LEMMA EndCallIInv ==
  ASSUME IInv, end_call
  PROVE  IInv'
<1> DEFINE n == Len(stack) - 1
<1>1. /\ stack # <<>> /\ Top.at = "call" /\ result # Nothing /\ stack' = Front(stack)
      /\ current_ns' = Top.old_ns
      /\ UNCHANGED <<tables, namespaces, result, forms, erred>>
  BY DEF end_call, Returned, Below, tables
<1>2. /\ Len(stack) > 1 /\ Last(stack).at \notin {"load", "catch", "finally"}
      /\ Top = stack[n + 1] /\ n + 1 = Len(stack) /\ Top \in CallFrames(namespaces)
      /\ n + 1 - 1 = n /\ n \in Nat /\ PosOK(stack, namespaces, n + 1)
  BY <1>1, TopFrame, FrameKinds
<1>3. \A r \in 1 .. n : Inner(stack, n, r) => current_ns' = stack[r].home
  <2>1. \A r \in 1 .. n : r \in 1 .. n + 1
    BY <1>2
  <2> QED BY <1>1, <1>2, <2>1 DEF PosOK, SavedIsHome
<1>4. erred' <=> (result' = Error \/ \E j \in 1 .. n : Held(stack[j]))
  <2>1. ~Held(Top)
    BY <1>1 DEF Held
  <2> QED BY <1>1, <2>1, HeldBelow
<1>5. StackOK(stack, namespaces) /\ LoadedOutside(stack) /\ TablesOK'
  <2>1. current_ns' \in namespaces
    BY <1>1, <1>2 DEF CallFrames
  <2> QED BY <1>1, <2>1, TablesSame DEF IInv, TablesOK
<1> QED BY <1>1, <1>2, <1>3, <1>4, <1>5, ReturnIInv

\* A try that goes wrong in its clauses, or that comes to its end.
LEMMA EndTryIInv ==
  ASSUME IInv, bad_clause \/ end_try
  PROVE  IInv'
<1> DEFINE n == Len(stack) - 1
<1>1. /\ stack # <<>> /\ Top.at = "try" /\ result = Nothing /\ stack' = Front(stack)
      /\ UNCHANGED <<tables, namespaces, current_ns, forms>>
      /\ \/ Return(Error)
         \/ result' = Top.value /\ erred' = erred
  BY DEF bad_clause, end_try, AtClause, Below, tables
<1>2. /\ Len(stack) > 1 /\ Last(stack).at \notin {"load", "catch", "finally"}
      /\ Top \in TryFrames(namespaces)
  BY <1>1, TopFrame, FrameKinds
<1>3. Top.value \in LiveValues(namespaces) \union {Error} /\ erred \in BOOLEAN
  BY <1>2 DEF TryFrames, IInv, TablesOK
<1>4. \A r \in 1 .. n : Inner(stack, n, r) => current_ns' = stack[r].home
  BY <1>1, BelowHome
<1>5. erred <=> Top.value = Error \/ \E j \in 1 .. n : Held(stack[j])
  <2>1. Top.mode = "CATCH" => Top.value # Error
    BY <1>1 DEF IInv, TopOK
  <2>2. Held(Top) <=> Top.value = Error
    BY <1>1, <2>1 DEF Held
  <2> QED BY <1>1, <2>2, HeldBelow, ResultKinds
<1>6. /\ erred' <=> (result' = Error \/ \E j \in 1 .. n : Held(stack[j]))
      /\ result' \in LiveValues(namespaces) \union {Error} /\ erred' \in BOOLEAN
  BY <1>1, <1>3, <1>5 DEF Return
<1>7. result' # Nothing
  BY <1>6, ValueKinds, ResultKinds
<1>8. StackOK(stack, namespaces) /\ LoadedOutside(stack) /\ TablesOK'
  BY <1>1, <1>6, TablesSame DEF IInv, TablesOK
<1> QED BY <1>1, <1>2, <1>4, <1>6, <1>7, <1>8, ReturnIInv

\* A clause goes on with its next expression, or has an error or a value for its try.
LEMMA EndClauseIInv ==
  ASSUME IInv, end_clause
  PROVE  IInv'
<1> DEFINE n == Len(stack) - 1
           s == Front(stack)
           N == namespaces
<1>1. /\ stack # <<>> /\ Top.at \in {"catch", "finally"} /\ result # Nothing
      /\ UNCHANGED <<tables, namespaces, current_ns, forms, erred>>
      /\ IF result = Error
         THEN stack' = Front(s) /\ UNCHANGED result
         ELSE /\ result' = Nothing
              /\ stack' = IF Top.at = "catch"
                          THEN [s EXCEPT ![Len(s)].value = result] ELSE s
  BY DEF end_clause, Returned, Below, tables
<1>2. /\ Len(stack) > 1 /\ Top = Last(stack)
      /\ StackOK(stack, N) /\ LoadedOutside(stack)
  BY <1>1, TopFrame DEF IInv
<1>3. /\ n \in Nat \ {0} /\ n \in 1 .. n /\ n + 1 = Len(stack) /\ Len(s) = n
      /\ s # <<>> /\ Last(s) = stack[n] /\ n > 1
      /\ \A i \in 1 .. n : s[i] = stack[i]
      /\ stack[n] \in LiveFrames(N)
      /\ Waits(stack[n], Top) /\ OnTopOf(Top, stack[n])
      /\ StackOK(s, N) /\ LoadedOutside(s)
      /\ \A r : Inner(s, n, r) <=> Inner(stack, n, r)
  <2>1. Last(stack).at # "load"
    BY <1>1, <1>2
  <2> QED BY <1>2, <2>1, PoppedTop
<1> HIDE DEF s
<1>4. /\ s[n] = Last(s) /\ s[n].at = "try" /\ s[n] \in TryFrames(N)
      /\ s[n] \in LiveFrames(N)
  BY <1>1, <1>3, FrameKinds DEF OnTopOf
<1>5. /\ Top.at = "catch" => s[n].mode = "CATCH"
      /\ Top.at = "finally" => s[n].mode = "FINALLY"
  BY <1>3, <1>4 DEF Waits
<1>6. \A r : Inner(s, n, r) => current_ns' = s[r].home
  <2>1. \A r : Inner(stack, n, r) => r \in 1 .. n /\ current_ns = stack[r].home
    BY <1>1, BelowHome
  <2> QED BY <1>1, <1>3, <2>1
<1>7. erred <=> \/ result = Error
                \/ Held(s[n])
                \/ \E j \in 1 .. n - 1 : Held(s[j])
  <2>1. ~Held(Top)
    BY <1>1 DEF Held
  <2>2. erred <=> (result = Error \/ \E j \in 1 .. n : Held(stack[j]))
    BY <1>1, <2>1, HeldBelow
  <2>3. \A i \in 1 .. n : i = n \/ i \in 1 .. n - 1
    <3>1. n \in Nat \ {0}
      BY <1>3
    <3> HIDE DEF n
    <3> QED BY ONLY <3>1
  <2>4. n \in 1 .. n /\ \A i \in 1 .. n - 1 : i \in 1 .. n
    BY <1>3
  <2>5. \A i \in 1 .. n : s[i] = stack[i]
    BY <1>3
  <2> HIDE DEF n
  <2>6. (\E j \in 1 .. n : Held(stack[j])) <=> Held(s[n]) \/ \E j \in 1 .. n - 1 : Held(s[j])
    BY ONLY <2>3, <2>4, <2>5
  <2> QED BY ONLY <2>2, <2>6
<1>8. ASSUME result' \in LiveValues(N) \union {Nothing, Error} PROVE TablesOK'
  BY <1>1, <1>8, TablesSame DEF IInv, TablesOK
<1>9. result \in LiveValues(N) \union {Error}
  BY <1>1 DEF IInv, TablesOK
<1>10. CASE result = Error
  <2>1. stack' = Front(s) /\ result' = Error
    BY <1>1, <1>10
  <2>2. TablesOK'
    BY <1>8, <2>1
  <2>3. \A r \in 1 .. n - 1 : Inner(s, n - 1, r) => current_ns' = s[r].home
    <3>1. ~Runs(s[n])
      BY <1>4 DEF Runs
    <3>2. \A r : Inner(s, n - 1, r) => Inner(s, n, r)
      BY ONLY <1>3, <3>1, InnerStep
    <3> QED BY <1>6, <3>2
  <2>4. /\ Len(s) > 1 /\ Last(s).at \notin {"load", "catch", "finally"}
        /\ result' # Nothing /\ namespaces' = namespaces
        /\ erred' <=> (result' = Error \/ \E j \in 1 .. Len(s) - 1 : Held(s[j]))
    BY <1>1, <1>3, <1>4, <1>7, <1>10, <2>1, ResultKinds
  <2>5. \A r \in 1 .. Len(s) - 1 : Inner(s, Len(s) - 1, r) => current_ns' = s[r].home
    BY <1>3, <2>3
  <2>6. StackOK(s, namespaces) /\ LoadedOutside(s)
    BY <1>3
  <2> QED BY ONLY <2>1, <2>2, <2>4, <2>5, <2>6, ReturnIInv
<1>11. ASSUME result # Error, NEW f \in LiveFrames(N),
              stack' = [s EXCEPT ![n] = f], f.at = "try", f.erred = s[n].erred,
              f.mode = "CATCH" => f.value # Error, Held(f) <=> Held(s[n])
       PROVE  IInv'
  <2>1. result' = Nothing /\ namespaces' = namespaces /\ TablesOK'
    BY <1>1, <1>8, <1>11
  <2>2. /\ Last(s).at \in {"load", "try"} /\ f.at = Last(s).at
        /\ f.at # "load"
        /\ f.at = "try" => f.erred = Last(s).erred /\ (f.mode = "CATCH" => f.value # Error)
        /\ stack' = [s EXCEPT ![Len(s)] = f]
    BY <1>3, <1>4, <1>11
  <2>3. \A r \in 1 .. Len(s) :
          Inner(s, Len(s), r) /\ s[r].home # NONE => current_ns' = s[r].home
    BY <1>3, <1>6
  <2>4. erred' <=> (Held(f) \/ \E j \in 1 .. Len(s) - 1 : Held(s[j]))
    BY <1>1, <1>3, <1>7, <1>11
  <2>5. StackOK(s, namespaces) /\ LoadedOutside(s) /\ s # <<>> /\ f \in LiveFrames(namespaces)
    BY <1>3, <1>11
  <2> QED BY ONLY <2>1, <2>2, <2>3, <2>4, <2>5, EditIInv
<1>12. CASE result # Error /\ Top.at = "catch"
  <2> DEFINE f == [s[n] EXCEPT !.value = result]
  <2>1. /\ f \in LiveFrames(N) /\ f.at = "try" /\ f.erred = s[n].erred
        /\ f.mode = "CATCH" /\ f.value = result /\ s[n].mode = "CATCH"
    BY <1>4, <1>5, <1>9, <1>12 DEF TryFrames, LiveFrames
  <2>2. stack' = [s EXCEPT ![n] = f]
    BY <1>1, <1>3, <1>12
  <2> HIDE DEF f
  <2>3. Held(f) <=> Held(s[n])
    BY <1>4, <2>1 DEF Held
  <2> QED BY <1>11, <1>12, <2>1, <2>2, <2>3
<1>13. CASE result # Error /\ Top.at = "finally"
  <2>1. stack' = s /\ s \in Seq(LiveFrames(N))
    BY <1>1, <1>3, <1>13 DEF StackOK
  <2>2. stack' = [s EXCEPT ![n] = s[n]]
    BY <1>3, <2>1
  <2> QED BY <1>4, <1>5, <1>11, <1>13, <2>2
<1> QED BY <1>1, <1>10, <1>12, <1>13

\* The next expression of a body.
LEMMA NextInBodyIInv ==
  ASSUME IInv, next_in_body
  PROVE  IInv'
<1>1. /\ stack # <<>> /\ Top.at \in {"call", "do", "catch", "finally"}
      /\ result # Nothing /\ result # Error /\ result' = Nothing /\ stack' = stack
      /\ UNCHANGED <<tables, namespaces, current_ns, forms, erred>>
  BY DEF next_in_body, Returned, tables
<1>2. Top' = Top
  BY <1>1 DEF Top
<1>3. TopOK' /\ LoaderHome'
  BY <1>1, <1>2 DEF TopOK, LoaderHome
<1>4. AtHome'
  BY <1>1, <1>2 DEF IInv, AtHome
<1>5. ErrorsHeld'
  BY <1>1, ResultKinds DEF IInv, ErrorsHeld
<1>6. TablesOK'
  BY <1>1, TablesSame DEF IInv, TablesOK
<1>7. StackOK(stack, namespaces)' /\ LoadedOutside(stack)'
  BY <1>1 DEF IInv
<1> QED BY <1>3, <1>4, <1>5, <1>6, <1>7 DEF IInv

\* The program ends.
LEMMA EndMainIInv ==
  ASSUME IInv, end_main
  PROVE  IInv' /\ stack' = <<>>
<1>1. /\ stack # <<>> /\ Top.at = "main" /\ stack' = Front(stack)
      /\ current_ns' = Top.saved
      /\ UNCHANGED <<tables, namespaces, result, forms, erred>>
  BY DEF end_main, Returned, Below, tables
<1>2. /\ Len(stack) \in Nat \ {0} /\ Top = stack[Len(stack)]
      /\ Top \in MainFrames /\ PosOK(stack, namespaces, Len(stack))
  BY <1>1, TopFrame, FrameKinds
<1>3. Len(stack) = 1
  <2>1. ~(Len(stack) > 1)
    BY <1>1, <1>2 DEF PosOK, OnTopOf
  <2>2. Len(stack) \in Nat \ {0}
    BY <1>2
  <2>3. \A k \in Nat \ {0} : ~(k > 1) => k = 1
    OBVIOUS
  <2> QED BY ONLY <2>1, <2>2, <2>3
<1>4. /\ StackOK(stack', namespaces) /\ LoadedOutside(stack') /\ Len(stack') = 0
  <2>1. StackOK(stack, namespaces) /\ LoadedOutside(stack)
    BY DEF IInv
  <2>2. /\ StackOK(stack', namespaces) /\ LoadedOutside(stack')
        /\ Len(stack') = Len(stack) - 1
    BY <1>1, <2>1, Popped
  <2> QED BY ONLY <1>3, <2>2
<1>5. stack' = <<>>
  BY <1>4 DEF StackOK
<1>6. TopOK' /\ AtHome' /\ LoaderHome'
  BY <1>5 DEF TopOK, AtHome, LoaderHome
<1>7. ErrorsHeld'
  <2>1. ~Held(Top)
    BY <1>1 DEF Held
  <2>2. ~ \E j \in 1 .. 0 : Held(stack[j])
    OBVIOUS
  <2>3. erred <=> result = Error
    BY <1>1, <1>3, <2>1, <2>2, HeldBelow
  <2> QED BY <1>1, <1>4, <2>3 DEF ErrorsHeld
<1>8. TablesOK'
  <2>1. current_ns' \in namespaces
    BY <1>1, <1>2 DEF MainFrames, IInv, TablesOK
  <2> QED BY <1>1, <2>1, TablesSame DEF IInv, TablesOK
<1>9. StackOK(stack, namespaces)' /\ LoadedOutside(stack)'
  BY <1>1, <1>4
<1> QED BY <1>5, <1>6, <1>7, <1>8, <1>9 DEF IInv

-----------------------------------------------------------------------------
(***************************************************************************)
(* The invariant holds.                                                    *)
(***************************************************************************)
\* When the interpreter starts, main waits for the first file.
LEMMA InitIInv ==
  ASSUME Init
  PROVE  IInv
<1> DEFINE main == [at |-> "main", saved |-> User]
           load == Loading(Main)
           N == {User}
<1>1. /\ namespaces = N /\ current_ns = User /\ stack = <<main, load>>
      /\ result = Nothing /\ forms = 0 /\ erred = FALSE
  BY DEF Init
<1>2. /\ main \in LiveFrames(N) /\ main.at = "main" /\ ~Held(main)
      /\ load \in LiveFrames(N) /\ load.at = "load" /\ load.home = NONE /\ ~Held(load)
  BY MainAssumption DEF LiveFrames, MainFrames, LoadFrames, Loading, Held
<1> HIDE DEF main, load
<1>3. /\ stack \in Seq(LiveFrames(N)) /\ Len(stack) = 2
      /\ stack[1] = main /\ stack[2] = load /\ stack # <<>>
      /\ Top = load
  BY <1>1, <1>2 DEF Top, Last
<1>4. PosOK(stack, N, 1)
  <2>1. \A j \in 1 .. 1 : ~Inner(stack, 0, j)
    BY DEF Inner
  <2> QED BY <1>2, <1>3, <2>1 DEF PosOK
<1>5. Inner(stack, 2, 2) /\ ~Inner(stack, 1, 1) /\ ~Inner(stack, 1, 2)
  BY <1>2, <1>3 DEF Inner, Runs
<1>6. PosOK(stack, N, 2)
  <2>1. OnTopOf(stack[2], stack[1])
    BY <1>2, <1>3 DEF OnTopOf
  <2>2. \A j \in 1 .. 2 : ~Inner(stack, 1, j)
    BY <1>5
  <2> QED BY <1>2, <1>3, <1>5, <2>1, <2>2 DEF PosOK
<1>7. StackOK(stack, N)
  <2>1. Waits(stack[1], stack[2])
    BY <1>2, <1>3 DEF Waits
  <2> QED BY <1>3, <1>4, <1>6, <2>1 DEF StackOK
<1>8. LoadedOutside(stack)
  <2> SUFFICES ASSUME NEW j \in 1 .. 2, NEW i \in 1 .. j - 1, Again(stack, i, j)
               PROVE  FALSE
    BY <1>3 DEF LoadedOutside
  <2>1. i = 1
    OBVIOUS
  <2> QED BY <1>2, <1>3, <2>1 DEF Again
<1>9. TopOK
  BY <1>1, <1>2, <1>3 DEF TopOK
<1>10. AtHome /\ LoaderHome
  <2>1. \A j \in 1 .. 2 : Inner(stack, 2, j) => j = 2
    BY <1>2, <1>3 DEF Inner, Runs
  <2>2. Len(stack) - 1 = 1 /\ \A j \in 1 .. 1 : ~Inner(stack, 1, j)
    BY <1>3, <1>5
  <2> QED BY <1>2, <1>3, <2>1, <2>2 DEF AtHome, LoaderHome
<1>11. ErrorsHeld
  BY <1>1, <1>2, <1>3, ResultKinds DEF ErrorsHeld
<1>12. TablesOK
  <2>1. N \subseteq AllNames /\ User \in N
    BY DEF AllNames
  <2>2. bound \in [AllNames -> [Symbols -> LiveValues(N) \union {Absent}]]
    BY DEF Init
  <2>3. as \in [AllNames -> [AllNames \union Aliases -> N \union {NONE}]]
    BY DEF Init
  <2>4. refer \in [AllNames -> [Symbols -> N \union {NONE}]]
    BY DEF Init
  <2>5. forms \in 0 .. Forms
    BY <1>1, FormsAssumption
  <2> HIDE DEF N
  <2>6. /\ namespaces = N /\ current_ns = User /\ result = Nothing /\ erred \in BOOLEAN
    BY <1>1
  <2> QED BY <2>1, <2>2, <2>3, <2>4, <2>5, <2>6 DEF TablesOK
<1> QED BY <1>1, <1>7, <1>8, <1>9, <1>10, <1>11, <1>12 DEF IInv

\* Every step keeps it.
LEMMA NextIInv ==
  ASSUME IInv, [Next]_vars
  PROVE  IInv'
<1>1. CASE UNCHANGED vars
  <2>1. /\ namespaces' = namespaces /\ bound' = bound /\ as' = as /\ refer' = refer
        /\ current_ns' = current_ns /\ stack' = stack /\ result' = result
        /\ forms' = forms /\ erred' = erred
    BY <1>1 DEF vars, tables
  <2> QED BY <2>1 DEF IInv, TablesOK, TopOK, AtHome, LoaderHome, ErrorsHeld, Top
<1>2. CASE lval_eval
  BY <1>2, EvalIInv
<1>3. CASE eval_lambda_call
  BY <1>3, CallIInv
<1>4. CASE eval_do
  BY <1>4, DoIInv
<1>5. CASE eval_try
  BY <1>5, TryIInv
<1>6. ASSUME NEW symbol \in Symbols, eval_def(symbol)
      PROVE  IInv'
  BY <1>6, DefIInv
<1>7. CASE begin_file
  BY <1>7, BeginIInv
<1>8. ASSUME NEW ns \in AllNames, in_ns_fn(ns)
      PROVE  IInv'
  BY <1>8, InNsIInv
<1>9. ASSUME NEW ns \in Names, NEW alias \in Aliases \union {NONE},
             NEW symbol \in Symbols \union {NONE}, require_fn(ns, alias, symbol)
      PROVE  IInv'
  BY <1>9, RequireIInv
<1>10. CASE next_form
  BY <1>10, NextFormIInv
<1>11. CASE end_load
  BY <1>11, EndLoadIInv
<1>12. CASE end_require
  BY <1>12, EndRequireIInv
<1>13. CASE end_def
  BY <1>13, EndDefIInv
<1>14. CASE next_in_try
  BY <1>14, NextInTryIInv
<1>15. CASE catch
  BY <1>15, CatchIInv
<1>16. CASE catch_nothing
  BY <1>16, CatchNothingIInv
<1>17. CASE finally
  BY <1>17, FinallyIInv
<1>18. CASE bad_clause \/ end_try
  BY <1>18, EndTryIInv
<1>19. CASE end_clause
  BY <1>19, EndClauseIInv
<1>20. CASE next_in_body
  BY <1>20, NextInBodyIInv
<1>21. CASE end_do
  BY <1>21, EndDoIInv
<1>22. CASE end_call
  BY <1>22, EndCallIInv
<1>23. CASE end_main
  BY <1>23, EndMainIInv
<1>24. ASSUME NEW file \in Names, load_fn(file)
       PROVE  IInv'
  BY <1>24, LoadFnIInv
<1>25. Next \/ UNCHANGED vars
  OBVIOUS
<1> QED BY <1>1, <1>2, <1>3, <1>4, <1>5, <1>6, <1>7, <1>8, <1>9, <1>10, <1>11, <1>12,
           <1>13, <1>14, <1>15, <1>16, <1>17, <1>18, <1>19, <1>20, <1>21, <1>22, <1>23,
           <1>24, <1>25 DEF Next

\* The invariant holds in every state of every program.
THEOREM Invariant == Spec => []IInv
<1>1. Init => IInv
  BY InitIInv
<1>2. IInv /\ [Next]_vars => IInv'
  BY NextIInv
<1> QED BY <1>1, <1>2, PTL DEF Spec

-----------------------------------------------------------------------------
(***************************************************************************)
(* What follows from it.                                                   *)
(***************************************************************************)
\* The frames of the invariant are those of the type.
LEMMA FramesTyped ==
  ASSUME NEW N \in SUBSET AllNames
  PROVE  LiveValues(N) \subseteq Values /\ LiveFrames(N) \subseteq Frames
<1>1. LiveFns(N) \subseteq
        {Fn(n, e, b) : n \in AllNames, e \in AllNames, b \in BOOLEAN}
  <2> SUFFICES ASSUME NEW v \in LiveFns(N)
               PROVE  \E n \in AllNames, e \in AllNames, b \in BOOLEAN : v = Fn(n, e, b)
    OBVIOUS
  <2>1. v = Fn(v.ns, v.env, v.named) /\ v.ns \in AllNames /\ v.env \in AllNames
        /\ v.named \in BOOLEAN
    BY DEF LiveFns, Fn
  <2> QED BY <2>1
<1>2. LiveValues(N) \subseteq Values
  BY <1>1 DEF LiveValues, Values
<1>3. LiveFns(N) \subseteq Values
  BY <1>1 DEF Values
<1> DEFINE MF == [at : {"main"}, saved : {User}]
           LF == [at : {"load"}, file : Names, failed : BOOLEAN, home : AllNames \union {NONE}]
           RF == [at : {"require"}, ns : Names, alias : Aliases \union {NONE},
                  symbol : Symbols \union {NONE}, saved : AllNames]
           DF == [at : {"def"}, ns : AllNames, symbol : Symbols, env : AllNames]
           OF == [at : {"do"}, env : AllNames]
           TF == [at : {"try"}, env : AllNames, mode : {"EXPR", "CATCH", "FINALLY"},
                  value : Values \union {Error}, erred : BOOLEAN]
           HF == [at : {"catch", "finally"}, env : AllNames]
           CF == [at : {"call"}, fn : Values, old_ns : AllNames, home : AllNames]
<1>4. Frames = MF \union LF \union RF \union DF \union OF \union TF \union HF \union CF
  BY DEF Frames
<1>5. MainFrames \subseteq MF /\ DoFrames \subseteq OF /\ ClauseFrames \subseteq HF
  BY DEF MainFrames, DoFrames, ClauseFrames
<1>6. LoadFrames(N) \subseteq LF
  BY DEF LoadFrames
<1>7. RequireFrames(N) \subseteq RF
  BY DEF RequireFrames
<1>8. DefFrames(N) \subseteq DF
  BY DEF DefFrames
<1>9. TryFrames(N) \subseteq TF
  BY <1>2 DEF TryFrames
<1>10. CallFrames(N) \subseteq CF
  BY <1>3 DEF CallFrames
<1> HIDE DEF MF, LF, RF, DF, OF, TF, HF, CF
<1>11. LiveFrames(N) \subseteq Frames
  BY ONLY <1>4, <1>5, <1>6, <1>7, <1>8, <1>9, <1>10 DEF LiveFrames
<1> QED BY <1>2, <1>11

\* In any state of any program, the tables, the C stack and the result hold names,
\* values and frames, and what stands for a namespace stands for one that exists.
THEOREM TypeOKAlways == Spec => []TypeOK
<1>1. ASSUME IInv PROVE TypeOK
  <2>1. namespaces \in SUBSET AllNames
    BY <1>1 DEF IInv, TablesOK
  <2>2. LiveValues(namespaces) \subseteq Values /\ LiveFrames(namespaces) \subseteq Frames
    BY <2>1, FramesTyped
  <2>3. bound \in [AllNames -> [Symbols -> Values \union {Absent}]]
    <3>1. bound \in [AllNames -> [Symbols -> LiveValues(namespaces) \union {Absent}]]
      BY <1>1 DEF IInv, TablesOK
    <3>2. \A m \in AllNames : bound[m] \in [Symbols -> Values \union {Absent}]
      BY <2>2, <3>1
    <3> QED BY <3>1, <3>2
  <2>4. stack \in Seq(Frames)
    <3>1. stack \in Seq(LiveFrames(namespaces))
      BY <1>1 DEF IInv, StackOK
    <3> QED BY <2>2, <3>1, SeqMonotonic
  <2>5. result \in Values \union {Nothing, Error}
    BY <1>1, <2>2 DEF IInv, TablesOK
  <2> QED BY <1>1, <2>3, <2>4, <2>5 DEF IInv, TablesOK, TypeOK
<1> QED BY <1>1, Invariant, PTL

\* In any state of any program, the code of a file or of a function that is about to go
\* on finds itself in the namespace it last went to, by itself or by a file that it had
\* loaded with the builtin load.
THEOREM CurrentIsHomeAlways == Spec => []CurrentIsHome
<1>1. ASSUME IInv, result = Nothing, stack # <<>>, stack[Running].home # NONE
      PROVE  current_ns = stack[Running].home
  <2> DEFINE n == Len(stack)
  <2>1. /\ n \in Nat \ {0} /\ n \in 1 .. n /\ Top = stack[n]
        /\ PosOK(stack, namespaces, n) /\ (Top.at # "main" => n > 1)
    BY <1>1, TopFrame
  <2>2. Top.at \notin {"main", "require"}
    BY <1>1 DEF IInv, TopOK
  <2>3. PICK r \in 1 .. n : Inner(stack, n, r)
    BY <2>1, <2>2 DEF PosOK
  <2>4. Running = r
    <3>1. DOMAIN stack = 1 .. n
      BY <1>1, TopFrame
    <3> QED BY <2>1, <2>3, <3>1, RunningInIs DEF Running
  <2> QED BY <1>1, <2>2, <2>3, <2>4 DEF IInv, AtHome
<1>2. IInv => CurrentIsHome
  BY <1>1 DEF CurrentIsHome
<1> QED BY <1>2, Invariant, PTL

\* No program, however its files load and require one another, requires a file to be
\* loaded while it is being loaded.
THEOREM NoFileInsideItselfAlways == Spec => []NoFileInsideItself
<1>1. ASSUME IInv PROVE NoFileInsideItself
  <2>1. DOMAIN stack = 1 .. Len(stack) /\ LoadedOutside(stack)
    BY <1>1 DEF IInv, StackOK
  <2> SUFFICES ASSUME NEW i \in 1 .. Len(stack), NEW j \in 1 .. Len(stack), i < j,
                      stack[i].at = "load", stack[j].at = "load",
                      stack[j - 1].at = "require", stack[i].file = stack[j].file
               PROVE  FALSE
    BY <2>1 DEF NoFileInsideItself
  <2>2. i \in 1 .. j - 1
    OBVIOUS
  <2> QED BY <2>1, <2>2 DEF LoadedOutside, Again
<1> QED BY <1>1, Invariant, PTL

\* When any program is loaded, its result is an error just when an evaluation returned
\* one that no catch was given.
THEOREM ErrorsSurfaceAlways == Spec => []ErrorsSurface
<1>1. ASSUME IInv PROVE ErrorsSurface
  BY <1>1 DEF IInv, ErrorsHeld, ErrorsSurface
<1> QED BY <1>1, Invariant, PTL
=============================================================================
