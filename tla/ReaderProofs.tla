---------------------------- MODULE ReaderProofs ----------------------------
(***************************************************************************)
(* What the reader promises for any texts, whatever lies behind them in    *)
(* memory, and whatever the range of the numbers.                          *)
(*                                                                         *)
(* Its loops are functions of the position they start from.  One lemma,    *)
(* Recursion, gives all of them; what they do is then shown by induction   *)
(* on the position, from the end of memory backwards.  A position is       *)
(* measured against Mode, which reads the text once from its beginning:    *)
(* the reader, which goes from place to place, is always where Mode says   *)
(* that an expression may start, or at what is wrong with a string.        *)
(***************************************************************************)
EXTENDS Reader, WellFoundedInduction, TLAPS

----------------------------------------------------------------------------
(***************************************************************************)
(* Induction, with a set of numbers for the predicate, and recursion.      *)
(***************************************************************************)
\* A set of numbers that is not empty has a least one.
LEMMA HasLeast ==
  ASSUME NEW T, T \subseteq Nat, T # {}
  PROVE  \E m \in T : \A k \in T : m <= k
<1> DEFINE R == {ss \in Nat \X Nat : ss[1] < ss[2]}
<1>1. IsWellFoundedOn(R, Nat)
  BY NatLessThanWellFounded DEF OpToRel
<1>2. \A x, y \in Nat : <<x, y>> \notin R => y <= x
  OBVIOUS
<1> HIDE DEF R
<1>3. PICK m \in T : \A k \in T : <<k, m>> \notin R
  BY <1>1, WFMin
<1>4. \A k \in T : m <= k
  BY ONLY <1>2, <1>3, T \subseteq Nat
<1> QED BY <1>4

\* A set of numbers up to n that is not empty has a greatest one.
LEMMA HasGreatest ==
  ASSUME NEW n \in Nat, NEW T, T \subseteq 1 .. n, T # {}
  PROVE  \E m \in T : \A k \in T : k <= m
<1> DEFINE U == {n - k : k \in T}
<1>1. U \subseteq Nat /\ U # {}
  <2>1. \A k \in T : n - k \in Nat
    OBVIOUS
  <2>2. \A k \in T : n - k \in U
    OBVIOUS
  <2> QED BY <2>1, <2>2
<1>2. PICK u \in U : \A k \in U : u <= k
  <2> HIDE DEF U
  <2> QED BY <1>1, HasLeast
<1>3. PICK m \in T : u = n - m
  OBVIOUS
<1>4. ASSUME NEW k \in T PROVE k <= m
  <2>1. n - m <= n - k
    BY <1>2, <1>3
  <2>2. k \in Nat /\ m \in Nat
    OBVIOUS
  <2> QED BY ONLY <2>1, <2>2, n \in Nat
<1> QED BY <1>4

\* A set with 0 and the successor of each number in it has all numbers.
LEMMA Induction ==
  ASSUME NEW S, 0 \in S, \A k \in Nat : k \in S => k + 1 \in S
  PROVE  Nat \subseteq S
<1> DEFINE T == Nat \ S
<1> SUFFICES ASSUME T # {} PROVE FALSE
  OBVIOUS
<1>1. PICK m \in T : \A k \in T : m <= k
  <2>1. T \subseteq Nat
    OBVIOUS
  <2> HIDE DEF T
  <2> QED BY <2>1, HasLeast
<1>2. m \in Nat /\ m # 0
  OBVIOUS
<1>3. m - 1 \in Nat /\ ~(m <= m - 1) /\ m - 1 + 1 = m
  BY <1>2
<1>4. m - 1 \in T
  BY <1>3
<1> QED BY ONLY <1>1, <1>3, <1>4

\* A set with each number up to n that has all the greater ones in it is all of them.
LEMMA DownwardInduction ==
  ASSUME NEW n \in Nat, NEW S, \A i \in 1 .. n : (\A j \in i + 1 .. n : j \in S) => i \in S
  PROVE  1 .. n \subseteq S
<1> DEFINE T == (1 .. n) \ S
<1> SUFFICES ASSUME T # {} PROVE FALSE
  OBVIOUS
<1>1. PICK m \in T : \A k \in T : k <= m
  <2>1. T \subseteq 1 .. n
    OBVIOUS
  <2> HIDE DEF T
  <2> QED BY <2>1, HasGreatest
<1>2. m \in 1 .. n
  OBVIOUS
<1>3. \A j \in m + 1 .. n : j \in 1 .. n /\ ~(j <= m)
  BY <1>2
<1>4. \A j \in m + 1 .. n : j \in S
  BY <1>1, <1>3
<1> QED BY <1>2, <1>4

\* A function whose value at i comes from the one at next[i], where a rank is less.
IsRecursive(f, I, V, Stops, base, next, step) ==
  /\ f \in [I -> V]
  /\ \A i \in I : f[i] = IF i \in Stops THEN base[i] ELSE step[i][f[next[i]]]

LEMMA Recursion ==
  ASSUME NEW I, NEW V, NEW Stops, NEW n \in Nat,
         NEW rank \in [I -> 0 .. n], NEW base \in [I -> V],
         NEW next \in [I -> I], NEW step \in [I -> [V -> V]],
         \A i \in I \ Stops : rank[next[i]] < rank[i]
  PROVE  \E f : IsRecursive(f, I, V, Stops, base, next, step)
<1> DEFINE Value(f, i) == IF i \in Stops THEN base[i] ELSE step[i][f[next[i]]]
           S == {m \in Nat : \E f \in [I -> V] : \A i \in I : rank[i] < m => f[i] = Value(f, i)}
<1>1. 0 \in S
  OBVIOUS
<1>2. ASSUME NEW m \in Nat, m \in S PROVE m + 1 \in S
  <2>1. PICK f \in [I -> V] : \A i \in I : rank[i] < m => f[i] = Value(f, i)
    BY <1>2
  <2> DEFINE g == [i \in I |-> IF rank[i] < m THEN f[i] ELSE Value(f, i)]
  <2>2. g \in [I -> V]
    OBVIOUS
  <2>3. ASSUME NEW i \in I, rank[i] < m + 1 PROVE g[i] = Value(g, i)
    <3>1. g[i] = Value(f, i)
      BY <2>1
    <3>2. CASE i \in Stops
      BY <3>1, <3>2
    <3>3. CASE i \notin Stops
      <4>1. next[i] \in I /\ rank[next[i]] < m
        <5>1. rank[next[i]] < rank[i] /\ next[i] \in I
          BY <3>3
        <5>2. rank[i] \in Nat /\ rank[next[i]] \in Nat
          BY <5>1
        <5> QED BY <5>1, <5>2, <2>3
      <4>2. g[next[i]] = f[next[i]]
        BY <4>1
      <4> QED BY <3>1, <3>3, <4>2
    <3> QED BY <3>2, <3>3
  <2> HIDE DEF g
  <2> QED BY <2>2, <2>3
<1> HIDE DEF S
<1>3. n + 1 \in S
  BY <1>1, <1>2, Induction
<1>4. PICK f \in [I -> V] : \A i \in I : rank[i] < n + 1 => f[i] = Value(f, i)
  BY <1>3 DEF S
<1>5. \A i \in I : rank[i] < n + 1
  OBVIOUS
<1>6. IsRecursive(f, I, V, Stops, base, next, step)
  BY <1>4, <1>5 DEF IsRecursive
<1> QED BY <1>6

----------------------------------------------------------------------------
(***************************************************************************)
(* Characters in memory.                                                   *)
(***************************************************************************)
TextOK == text \in Seq(ToSet(text) \ {NUL}) /\ beyond \in Seq(ToSet(beyond))

\* The text is in memory from 1 on, with the terminator behind it.
LEMMA Characters ==
  ASSUME TextOK
  PROVE  /\ Len(text) \in Nat /\ Len(Memory) \in Nat /\ Len(text) < Len(Memory)
         /\ Positions = 1 .. Len(Memory) + 2
         /\ DOMAIN Memory = 1 .. Len(Memory)
         /\ \A i \in 1 .. Len(text) : Char(i) = text[i] /\ Char(i) # NUL
         /\ Char(Len(text) + 1) = NUL
         /\ \A i \in Int : i > Len(Memory) => Char(i) = NUL
         /\ Memory \in Seq(ToSet(Memory))
         /\ Char(Len(Memory) + 1) = NUL
<1> DEFINE L == Len(text)
           Cs == ToSet(text) \union ToSet(beyond) \union {NUL}
<1>1. text \in Seq(Cs) /\ beyond \in Seq(Cs) /\ <<NUL>> \in Seq(Cs)
  BY DEF TextOK
<1>2. L \in Nat /\ Len(beyond) \in Nat
  BY <1>1
<1>3. \A i \in 1 .. L : text[i] # NUL
  BY DEF TextOK
<1> HIDE DEF Cs
<1>4. Memory \in Seq(Cs) /\ Len(Memory) = L + 1 + Len(beyond)
  BY <1>1 DEF Memory
<1>5. \A i \in 1 .. L : Memory[i] = text[i]
  BY <1>1 DEF Memory
<1>6. Memory[L + 1] = NUL
  BY <1>1 DEF Memory
<1>7. DOMAIN Memory = 1 .. Len(Memory)
  BY <1>4
<1>8. \A i \in 1 .. L + 1 : i \in DOMAIN Memory
  BY <1>2, <1>4, <1>7
<1>9. Memory \in Seq(ToSet(Memory))
  BY <1>4 DEF ToSet
<1>10. \A i \in Int : i > Len(Memory) => Char(i) = NUL
  BY <1>7 DEF Char
<1>11. Len(Memory) \in Nat /\ L < Len(Memory)
  BY <1>2, <1>4
<1>12. L + 1 \in 1 .. L + 1 /\ \A i \in 1 .. L : i \in 1 .. L + 1
  BY <1>2
<1>13. \A i \in 1 .. L : Char(i) = text[i] /\ Char(i) # NUL
  BY <1>3, <1>5, <1>8, <1>12 DEF Char
<1>14. Char(L + 1) = NUL /\ Char(Len(Memory) + 1) = NUL
  BY <1>6, <1>8, <1>10, <1>11, <1>12 DEF Char
<1> QED BY <1>2, <1>7, <1>9, <1>10, <1>11, <1>13, <1>14 DEF Positions

\* What is no symbol character, and no digit.
LEMMA SymbolChars ==
  /\ NUL \notin valid_symbol_chars
  /\ \A c \in valid_symbol_chars : c # ";" /\ c # "dquote"
  /\ "-" \notin Digits
<1>1. Digits = {"0", "1", "2", "3", "4", "5", "6", "7", "8", "9"}
  BY DEF Digits, DigitChars, ToSet
<1> QED BY <1>1 DEF valid_symbol_chars, Names, NUL

\* A run of characters other than the terminator ends.
LEMMA SpanEnds ==
  ASSUME TextOK, NEW i \in 1 .. Len(Memory) + 1, NEW Cs, NUL \notin Cs
  PROVE  /\ SpanEnd(i, Cs) \in i .. Len(Memory) + 1
         /\ Char(SpanEnd(i, Cs)) \notin Cs
         /\ \A k \in i .. SpanEnd(i, Cs) - 1 : Char(k) \in Cs
<1> DEFINE M == Len(Memory)
           T == {j \in i .. M + 1 : Char(j) \notin Cs}
<1>1. M \in Nat /\ Char(M + 1) = NUL
  BY Characters
<1>2. T \subseteq Nat /\ T # {}
  <2>1. M + 1 \in i .. M + 1
    BY <1>1
  <2>2. M + 1 \in T
    BY <1>1, <2>1
  <2> QED BY <1>1, <2>2
<1>3. PICK j \in T : \A k \in T : j <= k
  <2> HIDE DEF T
  <2> QED BY <1>2, HasLeast
<1>4. j \in i .. M + 1 /\ Char(j) \notin Cs
  OBVIOUS
<1>5. ASSUME NEW k \in i .. j - 1 PROVE Char(k) \in Cs
  <2>1. k \in i .. M + 1 /\ ~(j <= k)
    BY <1>1, <1>4
  <2> QED BY <1>3, <2>1
<1> HIDE DEF T
<1> QED BY <1>4, <1>5 DEF SpanEnd

----------------------------------------------------------------------------
(***************************************************************************)
(* What the characters of the text are part of.                            *)
(***************************************************************************)
Modes == {"code", "comment", "string", "escape"}

IsMode(f, t) == f = [k \in 0 .. Len(t) |-> IF k = 0 THEN "code" ELSE Lex(f[k - 1], t[k])]
ModeOf(t) == CHOOSE f : IsMode(f, t)

LEMMA LexesTo ==
  ASSUME NEW mode \in Modes, NEW c
  PROVE  Lex(mode, c) \in Modes
BY DEF Lex, Modes

LEMMA ModeOfDef ==
  ASSUME NEW t, Len(t) \in Nat
  PROVE  IsMode(ModeOf(t), t)
<1> DEFINE L == Len(t)
           I == 0 .. L
           rank == [k \in I |-> k]
           base == [k \in I |-> "code"]
           next == [k \in I |-> IF k = 0 THEN 0 ELSE k - 1]
           step == [k \in I |-> [v \in Modes |-> Lex(v, t[k])]]
<1>1. /\ rank \in [I -> 0 .. L] /\ base \in [I -> Modes] /\ next \in [I -> I]
      /\ \A k \in I \ {0} : rank[next[k]] < rank[k]
  BY DEF Modes
<1>2. step \in [I -> [Modes -> Modes]]
  BY LexesTo
<1>3. PICK f : IsRecursive(f, I, Modes, {0}, base, next, step)
  <2>1. L \in Nat
    OBVIOUS
  <2> HIDE DEF I, rank, base, next, step, L
  <2> QED BY <1>1, <1>2, <2>1, Recursion DEF I
<1>4. f \in [I -> Modes]
  BY <1>3 DEF IsRecursive
<1>5. ASSUME NEW k \in I PROVE f[k] = IF k = 0 THEN "code" ELSE Lex(f[k - 1], t[k])
  <2>1. f[k] = IF k \in {0} THEN base[k] ELSE step[k][f[next[k]]]
    BY <1>3 DEF IsRecursive
  <2>2. f[next[k]] \in Modes
    BY <1>1, <1>4
  <2> QED BY <2>1, <2>2
<1>6. IsMode(f, t)
  BY <1>4, <1>5 DEF IsMode
<1> QED BY <1>6 DEF ModeOf

LEMMA ModeStarts ==
  ASSUME NEW t, Len(t) \in Nat
  PROVE  ModeOf(t)[0] = "code"
<1>1. IsMode(ModeOf(t), t) /\ 0 \in 0 .. Len(t)
  BY ModeOfDef
<1> QED BY <1>1 DEF IsMode

LEMMA ModeDef ==
  ASSUME TextOK
  PROVE  /\ \A k \in 0 .. Len(text) : Mode[k] \in Modes
         /\ Mode[0] = "code"
         /\ \A k \in 1 .. Len(text) : Mode[k] = Lex(Mode[k - 1], text[k])
<1> DEFINE L == Len(text)
<1>0. L \in Nat
  BY DEF TextOK
<1>1. Mode = ModeOf(text)
  BY DEF Mode, ModeOf, IsMode
<1>2. IsMode(Mode, text)
  BY <1>0, <1>1, ModeOfDef
<1>3. \A v \in Modes : \A c : Lex(v, c) \in Modes
  BY LexesTo
<1>4. Mode[0] = "code"
  BY <1>0, <1>1, ModeStarts
<1>5. \A k \in 1 .. L : Mode[k] = Lex(Mode[k - 1], text[k])
  BY <1>0, <1>2 DEF IsMode
<1>6. \A k \in 0 .. L : Mode[k] \in Modes
  <2> DEFINE S == {k \in Nat : k <= L => Mode[k] \in Modes}
  <2>1. 0 \in S
    BY <1>4 DEF Modes
  <2>2. ASSUME NEW k \in Nat, k \in S PROVE k + 1 \in S
    <3>1. CASE k + 1 <= L
      <4>1. Mode[k] \in Modes /\ k + 1 \in 1 .. L /\ k + 1 - 1 = k
        BY <1>0, <2>2, <3>1
      <4>2. Mode[k + 1] = Lex(Mode[k], text[k + 1])
        BY <1>5, <4>1
      <4>3. Lex(Mode[k], text[k + 1]) \in Modes
        BY ONLY <1>3, <4>1
      <4>4. Mode[k + 1] \in Modes
        BY ONLY <4>2, <4>3
      <4> QED BY <4>4
    <3> QED BY <3>1
  <2> HIDE DEF S
  <2>3. Nat \subseteq S
    BY <2>1, <2>2, Induction
  <2> QED BY <1>0, <2>3 DEF S
<1> QED BY <1>4, <1>5, <1>6

----------------------------------------------------------------------------
(***************************************************************************)
(* What may be skipped.                                                    *)
(***************************************************************************)
\* The characters of a comment.
LEMMA CommentEnds ==
  ASSUME TextOK, NEW i \in 1 .. Len(Memory), Char(i) = ";"
  PROVE  /\ AfterComment(i) \in i + 2 .. Len(Memory) + 2
         /\ Char(AfterComment(i) - 1) \in {"newline", NUL}
         /\ \A k \in i .. AfterComment(i) - 2 : Char(k) \notin {"newline", NUL}
<1> DEFINE M == Len(Memory)
<1>0. M \in Nat /\ Char(M + 1) = NUL
  BY Characters
<1>1. M \in Nat /\ Char(M + 1) = NUL /\ i \in 1 .. M + 1 /\ i \in i .. M
  <2>1. i \in 1 .. M
    OBVIOUS
  <2> QED BY ONLY <1>0, <2>1
<1> HIDE DEF M
<1> DEFINE Cs == {c \in {Char(j) : j \in i .. M} : c \notin {"newline", NUL}}
           j == SpanEnd(i, Cs)
<1>2. NUL \notin Cs
  OBVIOUS
<1>3. j \in i .. M + 1 /\ Char(j) \notin Cs /\ \A k \in i .. j - 1 : Char(k) \in Cs
  <2> HIDE DEF Cs
  <2> QED BY <1>1, <1>2, SpanEnds DEF M
<1>4. Char(i) \in Cs
  BY <1>1 DEF NUL
<1> HIDE DEF j
<1>5. j # i
  BY <1>3, <1>4
<1>6. Char(j) \in {"newline", NUL}
  <2>1. CASE j = M + 1
    BY <1>1, <2>1
  <2>2. CASE j # M + 1
    <3>1. j \in i .. M
      BY ONLY <1>1, <1>3, <2>2, i \in 1 .. Len(Memory)
    <3> QED BY <1>3, <3>1
  <2> QED BY <2>1, <2>2
<1>7. AfterComment(i) = j + 1
  BY DEF AfterComment, j, M
<1>8. \A k \in i .. j - 1 : Char(k) \notin {"newline", NUL}
  BY <1>3
<1> HIDE DEF Cs
<1>9. j + 1 - 1 = j /\ j + 1 - 2 = j - 1 /\ j + 1 \in i + 2 .. M + 2
  BY ONLY <1>1, <1>3, <1>5
<1>10. AfterComment(i) - 1 = j /\ AfterComment(i) - 2 = j - 1
  <2>1. j \in Int
    BY ONLY <1>1, <1>3
  <2> QED BY ONLY <1>7, <2>1
<1> QED BY ONLY <1>6, <1>7, <1>8, <1>9, <1>10 DEF M

SkipNext(i) == IF Char(i) = ";" THEN AfterComment(i) ELSE i + 1

IsSkip(f) ==
  f = [i \in Positions |->
         IF Char(i) \notin Ignored THEN i
         ELSE f[IF Char(i) = ";" THEN AfterComment(i) ELSE i + 1]]

LEMMA SkipNexts ==
  ASSUME TextOK, NEW i \in Positions, Char(i) \in Ignored
  PROVE  i \in 1 .. Len(Memory) /\ SkipNext(i) \in i + 1 .. Len(Memory) + 2
<1>1. Len(Memory) \in Nat /\ Positions = 1 .. Len(Memory) + 2
  BY Characters
<1>2. Char(i) # NUL
  BY DEF Ignored, Blank, NUL
<1>3. i \in Int
  BY <1>1
<1>4. ~(i > Len(Memory))
  BY <1>2, <1>3, Characters
<1>5. i \in 1 .. Len(Memory)
  BY <1>1, <1>3, <1>4
<1>6. CASE Char(i) = ";"
  <2>1. AfterComment(i) \in i + 2 .. Len(Memory) + 2
    BY <1>5, <1>6, CommentEnds
  <2>2. AfterComment(i) \in i + 1 .. Len(Memory) + 2
    BY ONLY <1>1, <1>3, <2>1
  <2> QED BY <1>5, <1>6, <2>2 DEF SkipNext
<1>7. CASE Char(i) # ";"
  <2>1. i + 1 \in i + 1 .. Len(Memory) + 2
    BY ONLY <1>1, <1>5
  <2> QED BY <1>5, <1>7, <2>1 DEF SkipNext
<1> QED BY <1>6, <1>7

LEMMA SkipDef ==
  ASSUME TextOK, NEW i \in Positions
  PROVE  /\ skip_ignored_chars[i] \in Positions
         /\ skip_ignored_chars[i] = IF Char(i) \notin Ignored THEN i
                                    ELSE skip_ignored_chars[SkipNext(i)]
<1> DEFINE M == Len(Memory)
           Stops == {k \in Positions : Char(k) \notin Ignored}
           rank == [k \in Positions |-> M + 2 - k]
           base == [k \in Positions |-> k]
           next == [k \in Positions |-> IF k \in Stops THEN k ELSE SkipNext(k)]
           step == [k \in Positions |-> [v \in Positions |-> v]]
<1>1. M \in Nat /\ Positions = 1 .. M + 2
  BY Characters
<1>2. \A k \in Positions \ Stops : SkipNext(k) \in k + 1 .. M + 2
  BY SkipNexts
<1> HIDE DEF M
<1>3. /\ M + 2 \in Nat /\ rank \in [Positions -> 0 .. M + 2]
      /\ base \in [Positions -> Positions]
      /\ step \in [Positions -> [Positions -> Positions]]
  BY <1>1
<1>4. \A k \in Positions \ Stops :
        SkipNext(k) \in Positions /\ M + 2 - SkipNext(k) < M + 2 - k
  BY ONLY <1>1, <1>2
<1>5. next \in [Positions -> Positions] /\ \A k \in Positions \ Stops : rank[next[k]] < rank[k]
  BY <1>4
<1>6. PICK f : IsRecursive(f, Positions, Positions, Stops, base, next, step)
  <2> HIDE DEF Stops, rank, base, next, step
  <2> QED BY <1>3, <1>5, Recursion
<1>7. f \in [Positions -> Positions]
  BY <1>6 DEF IsRecursive
<1>8. ASSUME NEW k \in Positions
      PROVE  f[k] = IF Char(k) \notin Ignored THEN k ELSE f[SkipNext(k)]
  <2>1. f[k] = IF k \in Stops THEN base[k] ELSE step[k][f[next[k]]]
    BY <1>6 DEF IsRecursive
  <2>2. f[next[k]] \in Positions
    BY <1>5, <1>7
  <2> QED BY <2>1, <2>2
<1>9. IsSkip(f) /\ f \in [Positions -> Positions]
  BY <1>7, <1>8 DEF IsSkip, SkipNext
<1> DEFINE Skip == CHOOSE g : IsSkip(g)
<1>10. skip_ignored_chars = Skip
  BY DEF skip_ignored_chars, IsSkip
<1>11. IsSkip(skip_ignored_chars)
  BY <1>9, <1>10
<1>12. \A k \in Positions : skip_ignored_chars[k] =
          IF Char(k) \notin Ignored THEN k ELSE skip_ignored_chars[SkipNext(k)]
  BY <1>11 DEF IsSkip, SkipNext
<1> HIDE DEF Skip, Stops, rank, base, next, step
<1>13. \A k \in Positions : skip_ignored_chars[k] \in Positions
  <2> DEFINE S == {k \in Positions : skip_ignored_chars[k] \in Positions}
  <2>1. ASSUME NEW k \in 1 .. M + 2, \A j \in k + 1 .. M + 2 : j \in S PROVE k \in S
    <3>1. CASE Char(k) \notin Ignored
      BY <1>1, <1>12, <3>1
    <3>2. CASE Char(k) \in Ignored
      <4>1. SkipNext(k) \in k + 1 .. M + 2
        BY <1>1, <3>2, SkipNexts DEF M
      <4>2. SkipNext(k) \in S
        BY <2>1, <4>1
      <4> QED BY <1>1, <1>12, <3>2, <4>2
    <3> QED BY <3>1, <3>2
  <2> HIDE DEF S
  <2>2. 1 .. M + 2 \subseteq S
    BY ONLY <1>3, <2>1, DownwardInduction
  <2> QED BY <1>1, <2>2 DEF S
<1> QED BY <1>12, <1>13

\* Skipping goes forward, to a character that is not skipped.
LEMMA Skips ==
  ASSUME TextOK, NEW i \in Positions
  PROVE  /\ skip_ignored_chars[i] \in i .. Len(Memory) + 2
         /\ Char(skip_ignored_chars[i]) \notin Ignored
<1> DEFINE M == Len(Memory)
           S == {k \in Positions : /\ skip_ignored_chars[k] \in k .. M + 2
                                   /\ Char(skip_ignored_chars[k]) \notin Ignored}
<1>1. M \in Nat /\ Positions = 1 .. M + 2
  BY Characters
<1>2. ASSUME NEW k \in 1 .. M + 2, \A j \in k + 1 .. M + 2 : j \in S PROVE k \in S
  <2>1. k \in Positions /\ k \in k .. M + 2
    BY <1>1
  <2>2. CASE Char(k) \notin Ignored
    <3>1. skip_ignored_chars[k] = k
      BY <2>1, <2>2, SkipDef
    <3> QED BY <2>1, <2>2, <3>1
  <2>3. CASE Char(k) \in Ignored
    <3> DEFINE n == SkipNext(k)
    <3>1. n \in k + 1 .. M + 2
      BY <2>1, <2>3, SkipNexts
    <3>2. n \in S
      BY <1>2, <3>1
    <3>3. skip_ignored_chars[k] = skip_ignored_chars[n]
      BY <2>1, <2>3, SkipDef
    <3>4. skip_ignored_chars[n] \in n .. M + 2 /\ Char(skip_ignored_chars[n]) \notin Ignored
      BY <3>2
    <3> HIDE DEF n, S
    <3>5. skip_ignored_chars[k] \in k .. M + 2
      BY ONLY <1>1, <3>1, <3>3, <3>4, k \in 1 .. M + 2
    <3> QED BY <2>1, <3>3, <3>4, <3>5 DEF S
  <2> QED BY <2>2, <2>3
<1> HIDE DEF S
<1>3. 1 .. M + 2 \subseteq S
  <2>1. M + 2 \in Nat
    BY <1>1
  <2> QED BY ONLY <2>1, <1>2, DownwardInduction
<1> QED BY <1>1, <1>3 DEF S

----------------------------------------------------------------------------
(***************************************************************************)
(* The places where reading goes on.                                       *)
(***************************************************************************)
\* Here an expression may start, or the text ends.
Between(i) == i \in 1 .. Len(text) + 1 /\ Mode[i - 1] = "code"

\* Here a string is wrong: a character that cannot be escaped, or no quote at the end.
Torn(i) ==
  \/ i \in 1 .. Len(text) /\ Mode[i - 1] = "escape" /\ text[i] \notin DOMAIN Unescape
  \/ i = Len(text) + 1 /\ Mode[i - 1] = "string"

\* A place that is still in the text and what is read of it.
LEMMA Modes1 ==
  ASSUME TextOK, NEW i \in 1 .. Len(text)
  PROVE  /\ Char(i) = text[i] /\ Char(i) # NUL
         /\ Mode[i - 1] \in Modes /\ Mode[i] = Lex(Mode[i - 1], Char(i))
         /\ i + 1 \in 1 .. Len(text) + 1 /\ i + 1 - 1 = i
<1>1. Len(text) \in Nat
  BY Characters
<1>2. Char(i) = text[i] /\ Char(i) # NUL
  BY Characters
<1>3. i - 1 \in 0 .. Len(text) /\ i + 1 \in 1 .. Len(text) + 1 /\ i + 1 - 1 = i
  BY <1>1
<1>4. Mode[i - 1] \in Modes /\ Mode[i] = Lex(Mode[i - 1], text[i])
  BY <1>3, ModeDef
<1> QED BY <1>2, <1>3, <1>4

\* A place in the text where the character is not the terminator is not its end.
LEMMA Inside ==
  ASSUME TextOK, NEW i \in 1 .. Len(text) + 1, Char(i) # NUL
  PROVE  i \in 1 .. Len(text)
<1>1. Len(text) \in Nat /\ Char(Len(text) + 1) = NUL
  BY Characters
<1>2. i # Len(text) + 1
  BY <1>1
<1> QED BY ONLY <1>1, <1>2, i \in 1 .. Len(text) + 1

\* A comment that the text does not end in is followed by a place between expressions.
LEMMA CommentPlaces ==
  ASSUME TextOK, ~EndsOpen, NEW i \in 1 .. Len(text), Char(i) = ";", Mode[i] = "comment"
  PROVE  AfterComment(i) \in i + 1 .. Len(text) + 1 /\ Between(AfterComment(i))
<1> DEFINE L == Len(text)
           a == AfterComment(i)
<1>1. L \in Nat /\ L < Len(Memory) /\ Len(Memory) \in Nat
  BY Characters
<1>2. i \in 1 .. Len(Memory)
  BY ONLY <1>1, i \in 1 .. Len(text)
<1>3. /\ a \in i + 2 .. Len(Memory) + 2
      /\ Char(a - 1) \in {"newline", NUL}
      /\ \A k \in i .. a - 2 : Char(k) \notin {"newline", NUL}
  BY <1>2, CommentEnds
<1> HIDE DEF a
<1>4. a \in Int /\ i \in Int /\ i + 2 <= a
  <2>1. a \in i + 2 .. Len(Memory) + 2
    BY <1>3
  <2> QED BY ONLY <1>1, <2>1, i \in 1 .. Len(text)
<1>5. L + 1 \notin i .. a - 2
  BY <1>3, Characters
<1>6. a - 2 <= L /\ a - 2 \in i .. a - 2
  BY ONLY <1>1, <1>4, <1>5, i \in 1 .. Len(text)
<1>7. Mode[a - 2] = "comment"
  <2> DEFINE S == {d \in Nat : i + d <= a - 2 => Mode[i + d] = "comment"}
  <2>1. 0 \in S
    <3>1. i + 0 = i
      BY ONLY <1>4
    <3> QED BY <3>1
  <2>2. ASSUME NEW d \in Nat, d \in S PROVE d + 1 \in S
    <3>1. CASE i + (d + 1) <= a - 2
      <4> DEFINE k == i + (d + 1)
      <4>1. k \in 1 .. L /\ k \in i .. a - 2 /\ i + d <= a - 2 /\ k - 1 = i + d
        BY ONLY <1>1, <1>4, <1>6, <3>1, d \in Nat, i \in 1 .. Len(text)
      <4>2. Mode[k - 1] = "comment"
        BY <2>2, <4>1
      <4> HIDE DEF k
      <4>3. Mode[k - 1] \in Modes /\ Mode[k] = Lex(Mode[k - 1], Char(k))
        BY <4>1, Modes1
      <4>4. Char(k) # "newline"
        BY <1>3, <4>1
      <4>5. Mode[k] = "comment"
        BY ONLY <4>2, <4>3, <4>4 DEF Lex
      <4>6. d + 1 \in Nat
        BY ONLY d \in Nat
      <4>7. Mode[i + (d + 1)] = "comment"
        BY ONLY <4>5 DEF k
      <4> QED BY ONLY <4>6, <4>7 DEF S
    <3>2. d + 1 \in Nat
      BY ONLY d \in Nat
    <3> QED BY ONLY <3>1, <3>2 DEF S
  <2> HIDE DEF S
  <2>3. Nat \subseteq S
    BY <2>1, <2>2, Induction
  <2>4. a - 2 - i \in Nat /\ i + (a - 2 - i) = a - 2 /\ a - 2 <= a - 2
    BY ONLY <1>4, <1>6
  <2> HIDE DEF a
  <2> QED BY <2>3, <2>4 DEF S
<1>8. a - 2 # L
  BY <1>7 DEF EndsOpen
<1>9. a - 1 \in 1 .. L /\ a - 1 - 1 = a - 2 /\ a \in i + 1 .. L + 1 /\ a \in 1 .. L + 1
  BY ONLY <1>1, <1>4, <1>6, <1>8, i \in 1 .. Len(text) DEF L
<1>10. Char(a - 1) # NUL /\ Mode[a - 1] = Lex(Mode[a - 2], Char(a - 1)) /\ Mode[a - 2] \in Modes
  BY <1>9, Modes1
<1>11. Mode[a - 1] = "code"
  <2>1. Char(a - 1) = "newline"
    BY <1>3, <1>10
  <2> QED BY ONLY <1>7, <1>10, <2>1 DEF Lex
<1> QED BY <1>9, <1>11 DEF Between, a

\* From between two expressions, skipping goes to such a place.
LEMMA SkipPlaces ==
  ASSUME TextOK, ~EndsOpen, NEW i, Between(i)
  PROVE  Between(skip_ignored_chars[i])
<1> DEFINE L == Len(text)
           S == {k \in 1 .. L + 1 : Between(k) => Between(skip_ignored_chars[k])}
<1>1. L \in Nat /\ L + 1 \in Nat /\ L < Len(Memory) /\ Len(Memory) \in Nat
      /\ Positions = 1 .. Len(Memory) + 2
  BY Characters
<1>2. ASSUME NEW k \in 1 .. L + 1, \A j \in k + 1 .. L + 1 : j \in S PROVE k \in S
  <2> SUFFICES ASSUME Between(k) PROVE Between(skip_ignored_chars[k])
    OBVIOUS
  <2>1. k \in Positions
    BY <1>1
  <2>2. CASE Char(k) \notin Ignored
    BY <2>1, <2>2, SkipDef
  <2>3. CASE Char(k) \in Ignored
    <3>1. k \in 1 .. L
      <4>1. Char(k) # NUL
        BY <2>3 DEF Ignored, Blank, NUL
      <4> QED BY <4>1, Inside
    <3>2. Mode[k] = Lex("code", Char(k)) /\ k + 1 \in 1 .. L + 1 /\ k + 1 - 1 = k
      BY <3>1, Modes1 DEF Between
    <3>3. SkipNext(k) \in k + 1 .. L + 1 /\ Between(SkipNext(k))
      <4>1. CASE Char(k) = ";"
        <5>1. Mode[k] = "comment"
          BY <3>2, <4>1 DEF Lex
        <5> QED BY <3>1, <4>1, <5>1, CommentPlaces DEF SkipNext
      <4>2. CASE Char(k) # ";"
        <5>1. Char(k) # "dquote"
          BY <2>3 DEF Ignored, Blank
        <5>2. Mode[k] = "code"
          BY <3>2, <4>2, <5>1 DEF Lex
        <5>3. k + 1 \in k + 1 .. L + 1
          BY ONLY <1>1, <3>1
        <5>4. Between(k + 1)
          BY ONLY <3>2, <5>2 DEF Between
        <5> QED BY ONLY <4>2, <5>3, <5>4 DEF SkipNext
      <4> QED BY <4>1, <4>2
    <3>4. SkipNext(k) \in S
      BY <1>2, <3>3
    <3>5. skip_ignored_chars[k] = skip_ignored_chars[SkipNext(k)]
      BY <2>1, <2>3, SkipDef
    <3> QED BY <3>3, <3>4, <3>5
  <2> QED BY <2>2, <2>3
<1> HIDE DEF S
<1>3. 1 .. L + 1 \subseteq S
  BY ONLY <1>1, <1>2, DownwardInduction
<1>4. i \in S
  BY <1>3 DEF Between
<1> QED BY <1>4 DEF S

\* From where a string is wrong, it stays or goes to such a place.
LEMMA TornSkips ==
  ASSUME TextOK, ~EndsOpen, NEW i, Torn(i)
  PROVE  Between(skip_ignored_chars[i]) \/ Torn(skip_ignored_chars[i])
<1> DEFINE L == Len(text)
<1>1. L \in Nat /\ L < Len(Memory) /\ Len(Memory) \in Nat
      /\ Positions = 1 .. Len(Memory) + 2 /\ Char(L + 1) = NUL
  BY Characters
<1>2. i \in 1 .. L + 1 /\ i \in Positions
  BY <1>1 DEF Torn
<1>3. CASE Char(i) \notin Ignored
  BY <1>2, <1>3, SkipDef
<1>4. CASE Char(i) \in Ignored
  <2>1. i \in 1 .. L
    <3>1. Char(i) # NUL
      BY <1>4 DEF Ignored, Blank, NUL
    <3> QED BY <1>2, <3>1, Inside
  <2>2. Mode[i - 1] = "escape" /\ text[i] \notin DOMAIN Unescape
    BY <1>1, <2>1 DEF Torn
  <2>3. Char(i) = text[i] /\ Mode[i] = Lex("escape", Char(i)) /\ i + 1 \in 1 .. L + 1 /\ i + 1 - 1 = i
    BY <2>1, <2>2, Modes1
  <2>4. Between(SkipNext(i))
    <3>1. CASE Char(i) = ";"
      <4>1. Mode[i] = "comment"
        BY <2>2, <2>3, <3>1 DEF Lex
      <4> QED BY <2>1, <3>1, <4>1, CommentPlaces DEF SkipNext
    <3>2. CASE Char(i) # ";"
      <4>1. Char(i) # "dquote"
        BY <1>4 DEF Ignored, Blank
      <4>2. Mode[i] = "code"
        BY ONLY <2>2, <2>3, <3>2, <4>1 DEF Lex
      <4>3. Between(i + 1)
        <5>1. i + 1 \in 1 .. L + 1 /\ i + 1 - 1 = i
          BY <2>3
        <5> QED BY ONLY <2>1, <4>2, <5>1 DEF Between
      <4> QED BY ONLY <3>2, <4>3 DEF SkipNext
    <3> QED BY <3>1, <3>2
  <2>5. Between(skip_ignored_chars[SkipNext(i)])
    BY <2>4, SkipPlaces
  <2> QED BY <1>2, <1>4, <2>5, SkipDef
<1> QED BY <1>3, <1>4

\* A symbol, a number or the name of a keyword leaves a place between expressions.
LEMMA SymbolPlaces ==
  ASSUME TextOK, NEW i, Between(i)
  PROVE  Between(SpanEnd(i, valid_symbol_chars))
<1> DEFINE L == Len(text)
           e == SpanEnd(i, valid_symbol_chars)
<1>1. L \in Nat /\ L < Len(Memory) /\ Len(Memory) \in Nat
  BY Characters
<1>2. i \in 1 .. L + 1 /\ Mode[i - 1] = "code"
  BY DEF Between
<1>3. i \in 1 .. Len(Memory) + 1
  BY ONLY <1>1, <1>2
<1>4. NUL \notin valid_symbol_chars
      /\ \A c \in valid_symbol_chars : c # ";" /\ c # "dquote"
  BY SymbolChars
<1>5. e \in i .. Len(Memory) + 1 /\ \A k \in i .. e - 1 : Char(k) \in valid_symbol_chars
  BY <1>3, <1>4, SpanEnds
<1> HIDE DEF e
<1>6. e \in Int /\ i <= e
  BY ONLY <1>1, <1>2, <1>5
<1>7. L + 1 \notin i .. e - 1
  BY <1>4, <1>5, Characters
<1>8. e \in 1 .. L + 1
  BY ONLY <1>1, <1>2, <1>6, <1>7
<1>9. Mode[e - 1] = "code"
  <2> DEFINE h == i - 1
             S == {d \in Nat : h + d < e => Mode[h + d] = "code"}
  <2>0. h \in Int /\ i = h + 1 /\ h + 0 = h
    BY ONLY <1>2
  <2>1. 0 \in S
    BY <1>2, <2>0
  <2> HIDE DEF h
  <2>2. ASSUME NEW d \in Nat, d \in S PROVE d + 1 \in S
    <3>1. CASE h + (d + 1) < e
      <4> DEFINE k == h + (d + 1)
      <4>1. k \in 1 .. L /\ k \in i .. e - 1 /\ h + d < e /\ k - 1 = h + d
        BY ONLY <1>1, <1>2, <1>6, <1>8, <2>0, <3>1, d \in Nat
      <4>2. Mode[h + d] = "code"
        BY ONLY <2>2, <4>1 DEF S
      <4> HIDE DEF k
      <4>3. Mode[k] = Lex(Mode[h + d], Char(k))
        BY <4>1, Modes1
      <4>4. Char(k) # ";" /\ Char(k) # "dquote"
        BY <1>4, <1>5, <4>1
      <4>5. Mode[k] = "code"
        BY ONLY <4>2, <4>3, <4>4 DEF Lex
      <4>6. d + 1 \in Nat
        BY ONLY d \in Nat
      <4> QED BY ONLY <4>5, <4>6 DEF S, k
    <3>2. d + 1 \in Nat
      BY ONLY d \in Nat
    <3> QED BY ONLY <3>1, <3>2 DEF S
  <2> HIDE DEF S
  <2>3. Nat \subseteq S
    BY <2>1, <2>2, Induction
  <2>4. e - 1 - h \in Nat /\ h + (e - 1 - h) = e - 1 /\ e - 1 < e
    BY ONLY <1>2, <1>6, <2>0
  <2>5. e - 1 - h \in S
    BY ONLY <2>3, <2>4
  <2>6. Mode[h + (e - 1 - h)] = "code"
    BY ONLY <2>4, <2>5 DEF S
  <2> QED BY ONLY <2>4, <2>6
<1> QED BY <1>8, <1>9 DEF Between, e

----------------------------------------------------------------------------
(***************************************************************************)
(* Strings.                                                                *)
(***************************************************************************)
StringChars == ToSet(Memory) \union {"newline", "'", "dquote", "backslash"}
Strings == [kind : {"string"}, value : Seq(StringChars)]
StringResults == [lval : {Error} \union Strings, pos : Positions]

IsString(f) ==
  f = [i \in Positions |->
         LET c == Char(i)
             next == Char(i + 1)
         IN  IF c = "dquote" THEN [lval |-> Atom("string", <<>>), pos |-> i + 1]
             ELSE IF c = NUL THEN [lval |-> Error, pos |-> i]
             ELSE IF c # "backslash" THEN Prefixed(c, f[i + 1])
             ELSE IF next = NUL THEN f[i + 2]
             ELSE IF next \in DOMAIN Unescape THEN Prefixed(Unescape[next], f[i + 2])
             ELSE [lval |-> Error, pos |-> i + 1]]

\* A character more in a string.
LEMMA OneMore ==
  ASSUME NEW c \in StringChars, NEW string \in StringResults
  PROVE  /\ Prefixed(c, string) \in StringResults
         /\ Prefixed(c, string).pos = string.pos
         /\ string.lval = Error => Prefixed(c, string).lval = Error
         /\ string.lval # Error => Prefixed(c, string).lval = Atom("string", <<c>> \o string.lval.value)
         /\ string.lval # Error => Prefixed(c, string).lval # Error
<1>1. CASE string.lval = Error
  BY <1>1 DEF Prefixed
<1>2. CASE string.lval # Error
  <2> DEFINE v == string.lval.value
             longer == [string EXCEPT !.lval = Atom("string", <<c>> \o @.value)]
  <2>1. string.lval \in Strings /\ string.pos \in Positions
    BY <1>2 DEF StringResults
  <2>2. v \in Seq(StringChars) /\ string.lval = [kind |-> "string", value |-> v]
    BY <2>1 DEF Strings
  <2>3. <<c>> \o v \in Seq(StringChars)
    BY <2>2
  <2>4. longer = [lval |-> Atom("string", <<c>> \o v), pos |-> string.pos]
    BY <2>1 DEF StringResults
  <2>5. Prefixed(c, string) = longer
    BY <1>2 DEF Prefixed
  <2>6. Atom("string", <<c>> \o v) \in Strings
    BY <2>3 DEF Strings, Atom
  <2>7. Atom("string", <<c>> \o v) # Error
    BY DEF Atom, Error
  <2> HIDE DEF v, longer
  <2> QED BY <1>2, <2>1, <2>4, <2>5, <2>6, <2>7 DEF StringResults, v
<1> QED BY <1>1, <1>2

\* A character that is in a string as it is, and an escape: where the string goes on.
Plain(i) == Char(i) \notin {"dquote", "backslash", NUL}
Escape(i) == Char(i) = "backslash" /\ Char(i + 1) \in DOMAIN Unescape \union {NUL}
StringNext(i) == IF Plain(i) THEN i + 1 ELSE i + 2
WithChar(i, string) ==
  IF Plain(i) THEN Prefixed(Char(i), string)
  ELSE IF Char(i + 1) = NUL THEN string
  ELSE Prefixed(Unescape[Char(i + 1)], string)
StringEnd(i) ==
  IF Char(i) = "dquote" THEN [lval |-> Atom("string", <<>>), pos |-> i + 1]
  ELSE [lval |-> Error, pos |-> IF Char(i) = NUL THEN i ELSE i + 1]

LEMMA StringSteps ==
  ASSUME TextOK, NEW i \in Positions
  PROVE  /\ Plain(i) \/ Escape(i) =>
              /\ StringNext(i) \in i + 1 .. Len(Memory) + 2
              /\ \A string \in StringResults : WithChar(i, string) \in StringResults
         /\ ~(Plain(i) \/ Escape(i)) => StringEnd(i) \in StringResults
                                        /\ StringEnd(i).pos \in i .. Len(Memory) + 2
<1> DEFINE M == Len(Memory)
<1>1. M \in Nat /\ Positions = 1 .. M + 2
  BY Characters
<1>2. \A k \in Int : Char(k) # NUL => k <= M
  BY <1>1, Characters
<1>3. i \in Int /\ i + 1 \in Int
  BY ONLY <1>1, i \in Positions
<1> HIDE DEF M
<1>4. NUL # "dquote" /\ NUL # "backslash" /\ NUL \notin DOMAIN Unescape
  BY DEF NUL, Unescape
<1>5. \A c \in DOMAIN Unescape : Unescape[c] \in StringChars
  BY DEF Unescape, StringChars
<1>6. ASSUME Char(i) # NUL PROVE i \in 1 .. M /\ Char(i) \in StringChars
  <2>1. i \in DOMAIN Memory /\ Char(i) = Memory[i]
    BY <1>6 DEF Char
  <2>2. i <= M
    BY <1>2, <1>3, <1>6
  <2>3. i \in 1 .. M
    BY ONLY <1>1, <2>2, i \in Positions
  <2> QED BY <2>1, <2>3 DEF StringChars, ToSet
<1>7. CASE Plain(i)
  <2>1. Char(i) # NUL
    BY <1>7 DEF Plain
  <2>2. i + 1 \in i + 1 .. M + 2
    BY <1>1, <1>6, <2>1
  <2>3. \A string \in StringResults : Prefixed(Char(i), string) \in StringResults
    BY <1>6, <2>1, OneMore
  <2> QED BY <1>7, <2>2, <2>3 DEF StringNext, WithChar, M
<1>8. CASE ~Plain(i) /\ Escape(i)
  <2>1. Char(i) # NUL
    BY <1>4, <1>8 DEF Escape
  <2>2. i + 2 \in i + 1 .. M + 2
    BY <1>1, <1>6, <2>1
  <2>3. CASE Char(i + 1) = NUL
    BY <1>8, <2>2, <2>3 DEF StringNext, WithChar, M
  <2>4. CASE Char(i + 1) # NUL
    <3>1. Unescape[Char(i + 1)] \in StringChars
      BY <1>5, <1>8, <2>4 DEF Escape
    <3>2. \A string \in StringResults : Prefixed(Unescape[Char(i + 1)], string) \in StringResults
      BY <3>1, OneMore
    <3> QED BY <1>8, <2>2, <2>4, <3>2 DEF StringNext, WithChar, M
  <2> QED BY <2>3, <2>4
<1>9. CASE ~Plain(i) /\ ~Escape(i)
  <2>1. CASE Char(i) = NUL
    <3>1. StringEnd(i) = [lval |-> Error, pos |-> i]
      BY <1>4, <2>1 DEF StringEnd
    <3>2. i \in i .. M + 2
      BY ONLY <1>1, i \in Positions
    <3> QED BY <1>9, <3>1, <3>2 DEF StringResults, M
  <2>2. CASE Char(i) # NUL
    <3>1. i + 1 \in Positions /\ i + 1 \in i .. M + 2
      BY <1>1, <1>6, <2>2
    <3>2. Atom("string", <<>>) \in Strings
      BY DEF Atom, Strings
    <3>3. \E v \in {Error} \union Strings : StringEnd(i) = [lval |-> v, pos |-> i + 1]
      BY <2>2, <3>2 DEF StringEnd
    <3> QED BY <1>9, <3>1, <3>3 DEF StringResults, M
  <2> QED BY <2>1, <2>2
<1> QED BY <1>7, <1>8, <1>9

LEMMA StringDef ==
  ASSUME TextOK, NEW i \in Positions
  PROVE  /\ StringFrom[i] \in StringResults
         /\ StringFrom[i] = IF Plain(i) \/ Escape(i)
                            THEN WithChar(i, StringFrom[StringNext(i)]) ELSE StringEnd(i)
<1> DEFINE M == Len(Memory)
           Stops == {k \in Positions : ~(Plain(k) \/ Escape(k))}
           error == [lval |-> Error, pos |-> 1]
           rank == [k \in Positions |-> M + 2 - k]
           base == [k \in Positions |-> IF k \in Stops THEN StringEnd(k) ELSE error]
           next == [k \in Positions |-> IF k \in Stops THEN k ELSE StringNext(k)]
           step == [k \in Positions |->
                      [v \in StringResults |-> IF k \in Stops THEN v ELSE WithChar(k, v)]]
<1>1. M \in Nat /\ Positions = 1 .. M + 2
  BY Characters
<1>2. error \in StringResults
  BY <1>1 DEF StringResults
<1>3. \A k \in Positions \ Stops : /\ StringNext(k) \in k + 1 .. M + 2
                                    /\ \A v \in StringResults : WithChar(k, v) \in StringResults
  BY StringSteps
<1>4. \A k \in Stops : StringEnd(k) \in StringResults
  BY StringSteps
<1> HIDE DEF M, error
<1>5. M + 2 \in Nat /\ rank \in [Positions -> 0 .. M + 2]
  BY ONLY <1>1
<1>6. base \in [Positions -> StringResults] /\ step \in [Positions -> [StringResults -> StringResults]]
  BY <1>2, <1>3, <1>4
<1>7. \A k \in Positions \ Stops :
        StringNext(k) \in Positions /\ M + 2 - StringNext(k) < M + 2 - k
  BY ONLY <1>1, <1>3
<1>8. next \in [Positions -> Positions] /\ \A k \in Positions \ Stops : rank[next[k]] < rank[k]
  BY <1>7
<1>9. PICK f : IsRecursive(f, Positions, StringResults, Stops, base, next, step)
  <2> HIDE DEF Stops, rank, base, next, step
  <2> QED BY <1>5, <1>6, <1>8, Recursion
<1>10. f \in [Positions -> StringResults]
  BY <1>9 DEF IsRecursive
<1>11. ASSUME NEW k \in Positions
       PROVE  f[k] = IF Plain(k) \/ Escape(k) THEN WithChar(k, f[StringNext(k)]) ELSE StringEnd(k)
  <2>1. f[k] = IF k \in Stops THEN base[k] ELSE step[k][f[next[k]]]
    BY <1>9 DEF IsRecursive
  <2>2. f[next[k]] \in StringResults
    BY <1>8, <1>10
  <2> QED BY <2>1, <2>2
<1> DEFINE Body(g, k) ==
      LET c == Char(k)
          then == Char(k + 1)
      IN  IF c = "dquote" THEN [lval |-> Atom("string", <<>>), pos |-> k + 1]
          ELSE IF c = NUL THEN [lval |-> Error, pos |-> k]
          ELSE IF c # "backslash" THEN Prefixed(c, g[k + 1])
          ELSE IF then = NUL THEN g[k + 2]
          ELSE IF then \in DOMAIN Unescape THEN Prefixed(Unescape[then], g[k + 2])
          ELSE [lval |-> Error, pos |-> k + 1]
<1>12. \A g : \A k \in Positions :
         Body(g, k) = IF Plain(k) \/ Escape(k) THEN WithChar(k, g[StringNext(k)]) ELSE StringEnd(k)
  <2> TAKE g
  <2> TAKE k \in Positions
  <2>1. NUL # "dquote" /\ NUL # "backslash"
    BY DEF NUL
  <2>2. CASE Char(k) = "dquote"
    BY <2>1, <2>2 DEF Plain, Escape, StringEnd
  <2>3. CASE Char(k) = NUL
    BY <2>1, <2>3 DEF Plain, Escape, StringEnd
  <2>4. CASE Plain(k)
    BY <2>4 DEF Plain, StringNext, WithChar
  <2>5. CASE Char(k) = "backslash"
    <3>1. Char(k) # NUL /\ ~Plain(k)
      BY <2>1, <2>5 DEF Plain
    <3>2. CASE Char(k + 1) = NUL
      BY <2>5, <3>1, <3>2 DEF Escape, StringNext, WithChar
    <3>3. CASE Char(k + 1) # NUL /\ Char(k + 1) \in DOMAIN Unescape
      BY <2>5, <3>1, <3>3 DEF Escape, StringNext, WithChar
    <3>4. CASE Char(k + 1) # NUL /\ Char(k + 1) \notin DOMAIN Unescape
      BY <2>5, <3>1, <3>4 DEF Escape, StringEnd
    <3> QED BY <3>2, <3>3, <3>4
  <2> QED BY <2>2, <2>3, <2>4, <2>5 DEF Plain
<1>13. \A k \in Positions : f[k] = Body(f, k)
  <2> HIDE DEF Body
  <2> QED BY <1>11, <1>12
<1>14. IsString(f)
  BY <1>10, <1>13 DEF IsString
<1> DEFINE String == CHOOSE g : IsString(g)
<1>15. StringFrom = String
  BY DEF StringFrom, IsString
<1>16. IsString(StringFrom)
  BY <1>14, <1>15
<1>17. \A k \in Positions : StringFrom[k] = Body(StringFrom, k)
  BY <1>16 DEF IsString
<1> HIDE DEF Body, String, Stops, rank, base, next, step
<1>18. \A k \in Positions : StringFrom[k] =
         IF Plain(k) \/ Escape(k) THEN WithChar(k, StringFrom[StringNext(k)]) ELSE StringEnd(k)
  BY <1>12, <1>17
<1>19. 1 .. M + 2 \subseteq {k \in Positions : StringFrom[k] \in StringResults}
  <2> DEFINE S == {k \in Positions : StringFrom[k] \in StringResults}
  <2>1. ASSUME NEW k \in 1 .. M + 2, \A j \in k + 1 .. M + 2 : j \in S PROVE k \in S
    <3>1. CASE Plain(k) \/ Escape(k)
      <4>1. /\ StringNext(k) \in k + 1 .. M + 2
            /\ \A v \in StringResults : WithChar(k, v) \in StringResults
        BY <1>1, <3>1, StringSteps DEF M
      <4>2. StringNext(k) \in S
        BY <2>1, <4>1
      <4> QED BY <1>1, <1>18, <3>1, <4>1, <4>2
    <3>2. CASE ~(Plain(k) \/ Escape(k))
      <4>1. StringEnd(k) \in StringResults
        BY <1>1, <3>2, StringSteps
      <4> QED BY <1>1, <1>18, <3>2, <4>1
    <3> QED BY <3>1, <3>2
  <2> HIDE DEF S
  <2>2. 1 .. M + 2 \subseteq S
    BY ONLY <1>5, <2>1, DownwardInduction
  <2> QED BY <2>2 DEF S
<1> QED BY <1>1, <1>18, <1>19

\* Reading a string goes forward.
LEMMA StringForward ==
  ASSUME TextOK, NEW i \in Positions
  PROVE  StringFrom[i].pos \in i .. Len(Memory) + 2
<1> DEFINE M == Len(Memory)
           S == {k \in Positions : StringFrom[k].pos \in k .. M + 2}
<1>1. M \in Nat /\ M + 2 \in Nat /\ Positions = 1 .. M + 2
  BY Characters
<1>2. ASSUME NEW k \in 1 .. M + 2, \A j \in k + 1 .. M + 2 : j \in S PROVE k \in S
  <2>1. k \in Positions
    BY <1>1
  <2>2. CASE Plain(k) \/ Escape(k)
    <3> DEFINE n == StringNext(k)
    <3>1. n \in k + 1 .. M + 2 /\ n \in Positions
      BY <1>1, <2>1, <2>2, StringSteps
    <3>2. StringFrom[n].pos \in n .. M + 2
      BY <1>2, <3>1
    <3>3. StringFrom[k] = WithChar(k, StringFrom[n]) /\ StringFrom[n] \in StringResults
      BY <2>1, <2>2, <3>1, StringDef
    <3>4. WithChar(k, StringFrom[n]).pos = StringFrom[n].pos
      BY <3>3 DEF WithChar, Prefixed
    <3> HIDE DEF n
    <3>5. StringFrom[k].pos \in k .. M + 2
      <4>1. StringFrom[k].pos = StringFrom[n].pos
        BY <3>3, <3>4
      <4> QED BY ONLY <1>1, <1>2, <3>1, <3>2, <4>1
    <3> QED BY <2>1, <3>5
  <2>3. CASE ~(Plain(k) \/ Escape(k))
    <3>1. StringFrom[k] = StringEnd(k) /\ StringEnd(k).pos \in k .. M + 2
      BY <2>1, <2>3, StringDef, StringSteps
    <3> QED BY <2>1, <3>1
  <2> QED BY <2>2, <2>3
<1> HIDE DEF S
<1>3. 1 .. M + 2 \subseteq S
  BY ONLY <1>1, <1>2, DownwardInduction
<1> QED BY <1>1, <1>3 DEF S

\* A string that has been read leaves a place between expressions, or it is wrong.
StringPlaced(string) == IF string.lval = Error THEN Torn(string.pos) ELSE Between(string.pos)

LEMMA OneMorePlaced ==
  ASSUME NEW c \in StringChars, NEW string \in StringResults, StringPlaced(string)
  PROVE  StringPlaced(Prefixed(c, string))
<1>1. /\ Prefixed(c, string).pos = string.pos
      /\ string.lval = Error => Prefixed(c, string).lval = Error
      /\ string.lval # Error => Prefixed(c, string).lval # Error
  BY OneMore
<1>2. CASE string.lval = Error
  BY <1>1, <1>2 DEF StringPlaced
<1>3. CASE string.lval # Error
  BY <1>1, <1>3 DEF StringPlaced
<1> QED BY <1>2, <1>3

\* So it is from anywhere inside a string.
LEMMA StringPlaces ==
  ASSUME TextOK, ~EndsOpen, NEW i \in 1 .. Len(text) + 1, Mode[i - 1] = "string"
  PROVE  StringPlaced(StringFrom[i])
<1> DEFINE L == Len(text)
           S == {k \in 1 .. L + 1 : Mode[k - 1] = "string" => StringPlaced(StringFrom[k])}
<1>1. L \in Nat /\ L + 1 \in Nat /\ L < Len(Memory) /\ Len(Memory) \in Nat
      /\ Positions = 1 .. Len(Memory) + 2
  BY Characters
<1>2. ASSUME NEW k \in 1 .. L + 1, \A j \in k + 1 .. L + 1 : j \in S PROVE k \in S
  <2> SUFFICES ASSUME Mode[k - 1] = "string" PROVE StringPlaced(StringFrom[k])
    OBVIOUS
  <2>1. k \in Positions
    BY ONLY <1>1, k \in 1 .. L + 1 DEF L
  <2>2. CASE Char(k) = NUL
    <3>1. k = L + 1
      <4>1. k \notin 1 .. L
        BY <2>2, Characters
      <4> QED BY ONLY <1>1, <4>1, k \in 1 .. L + 1
    <3>2. StringFrom[k] = [lval |-> Error, pos |-> k]
      BY <2>1, <2>2, StringDef DEF Plain, Escape, StringEnd, NUL
    <3>3. Torn(k)
      BY <3>1 DEF Torn
    <3> QED BY <3>2, <3>3 DEF StringPlaced
  <2>3. CASE Char(k) # NUL
    <3>1. k \in 1 .. L
      BY <2>3, Inside
    <3>2. /\ Mode[k] = Lex("string", Char(k))
          /\ k + 1 \in 1 .. L + 1 /\ k + 1 - 1 = k
      BY <3>1, Modes1
    <3>3. CASE Char(k) = "dquote"
      <4>1. Mode[k] = "code"
        BY ONLY <3>2, <3>3 DEF Lex
      <4>2. Between(k + 1)
        BY ONLY <3>1, <3>2, <4>1 DEF Between, L
      <4>3. StringFrom[k] = [lval |-> Atom("string", <<>>), pos |-> k + 1]
        BY <2>1, <3>3, StringDef DEF Plain, Escape, StringEnd
      <4>4. Atom("string", <<>>) # Error
        BY DEF Atom, Error
      <4> QED BY <4>2, <4>3, <4>4 DEF StringPlaced
    <3>4. CASE Plain(k)
      <4>1. Char(k) # "dquote" /\ Char(k) # "backslash"
        BY <3>4 DEF Plain
      <4>2. Mode[k] = "string"
        BY ONLY <3>2, <4>1 DEF Lex
      <4>3. k + 1 \in k + 1 .. L + 1
        BY ONLY <1>1, <3>1
      <4>4. Mode[k + 1 - 1] = "string"
        BY ONLY <3>2, <4>2
      <4>5. StringPlaced(StringFrom[k + 1])
        BY <1>2, <4>3, <4>4
      <4>6. k + 1 \in Positions
        BY ONLY <1>1, <3>1
      <4>7. StringFrom[k] = Prefixed(Char(k), StringFrom[k + 1])
        BY <2>1, <3>4, StringDef DEF StringNext, WithChar
      <4>8. Char(k) \in StringChars
        BY <2>3 DEF StringChars, ToSet, Char
      <4>9. StringFrom[k + 1] \in StringResults
        BY <4>6, StringDef
      <4> QED BY ONLY <4>5, <4>7, <4>8, <4>9, OneMorePlaced
    <3>5. CASE Char(k) = "backslash"
      <4>1. Mode[k] = "escape"
        BY ONLY <3>2, <3>5 DEF Lex
      <4>2. k # L
        BY <4>1 DEF EndsOpen
      <4>3. k + 1 \in 1 .. L /\ k + 2 \in k + 1 .. L + 1 /\ k + 2 \in Positions
            /\ k + 1 - 1 = k /\ k + 1 + 1 = k + 2 /\ k + 2 - 1 = k + 1
        BY ONLY <1>1, <3>1, <4>2
      <4>4. Char(k + 1) = text[k + 1] /\ Char(k + 1) # NUL
        BY <4>3, Modes1
      <4>5. ~Plain(k)
        BY <3>5 DEF Plain
      <4>6. CASE Char(k + 1) \in DOMAIN Unescape
        <5>1. Mode[k + 1] = Lex("escape", Char(k + 1))
          BY <4>1, <4>3, Modes1
        <5>2. Mode[k + 1] = "string"
          BY ONLY <4>6, <5>1 DEF Lex
        <5>3. Mode[k + 2 - 1] = "string"
          BY ONLY <4>3, <5>2
        <5>4. StringPlaced(StringFrom[k + 2])
          BY <1>2, <4>3, <5>3
        <5>5. StringFrom[k] = Prefixed(Unescape[Char(k + 1)], StringFrom[k + 2])
          BY <2>1, <3>5, <4>4, <4>5, <4>6, StringDef DEF Escape, StringNext, WithChar
        <5>6. Unescape[Char(k + 1)] \in StringChars
          BY <4>6 DEF Unescape, StringChars
        <5>7. StringFrom[k + 2] \in StringResults
          BY <4>3, StringDef
        <5> QED BY ONLY <5>4, <5>5, <5>6, <5>7, OneMorePlaced
      <4>7. CASE Char(k + 1) \notin DOMAIN Unescape
        <5>1. StringFrom[k] = [lval |-> Error, pos |-> k + 1]
          BY <2>1, <2>3, <3>5, <4>4, <4>5, <4>7, StringDef DEF Escape, StringEnd
        <5>2. Mode[k + 1 - 1] = "escape"
          BY ONLY <4>1, <4>3
        <5>3. Torn(k + 1)
          BY <4>3, <4>4, <4>7, <5>2 DEF Torn
        <5> QED BY <5>1, <5>3 DEF StringPlaced
      <4> QED BY <4>6, <4>7
    <3> QED BY <2>3, <3>3, <3>4, <3>5 DEF Plain
  <2> QED BY <2>2, <2>3
<1> HIDE DEF S
<1>3. 1 .. L + 1 \subseteq S
  BY ONLY <1>1, <1>2, DownwardInduction
<1>4. i \in S
  BY <1>3
<1> QED BY <1>4 DEF S

----------------------------------------------------------------------------
(***************************************************************************)
(* The inductive invariant.                                                *)
(***************************************************************************)
\* The lists and reader macros around, each with its end and what has been read of it.
Ends == DOMAIN TypeOf \union {NUL}
StackOK(frames) ==
  /\ frames \in Seq(ToSet(frames))
  /\ \A i \in DOMAIN frames : DOMAIN frames[i] = {"end", "cells"} /\ frames[i].end \in Ends

TypeOK ==
  /\ TextOK
  /\ pos \in Positions
  /\ StackOK(stack)
  /\ lval_err \in {NONE, Error}
  /\ outcome # "reading" => stack = <<>> /\ lval = NONE

\* Reading goes on between two expressions, unless something is wrong with a string: then
\* there is an error on its way to load.
WellPlaced ==
  ~EndsOpen => \/ Between(pos)
               \/ Torn(pos) /\ (lval = Error \/ outcome = "error")

IInv == TypeOK /\ WellPlaced

\* What is left to do: the characters, the calls to return from, the value to take.
WeightOf(v) == IF v = Error THEN 0 ELSE IF v = NONE THEN 1 ELSE 2
Weight == Len(stack) + WeightOf(lval) + (IF outcome = "reading" THEN 2 ELSE 0)
Measure == 3 * (Len(Memory) + 2 - pos) + Weight

\* What every step of the reader does.
Stepped ==
  /\ UNCHANGED given
  /\ pos' \in pos .. Len(Memory) + 2
  /\ StackOK(stack')
  /\ lval_err' \in {NONE, Error}
  /\ outcome' # "reading" => stack' = <<>> /\ lval' = NONE
  /\ ~EndsOpen => \/ Between(pos')
                  \/ Torn(pos') /\ (lval' = Error \/ outcome' = "error")
  /\ Weight' < Weight \/ (pos' > pos /\ Weight' <= Weight + 2)

LEMMA SameText ==
  ASSUME UNCHANGED given
  PROVE  /\ Memory' = Memory /\ Positions' = Positions /\ Mode' = Mode
         /\ text' = text /\ beyond' = beyond
<1>1. text' = text /\ beyond' = beyond
  BY DEF given
<1>2. Memory' = Memory
  BY <1>1 DEF Memory
<1>3. Positions' = Positions
  BY <1>2 DEF Positions
<1>4. Mode' = Mode
  BY <1>1 DEF Mode
<1> QED BY <1>1, <1>2, <1>3, <1>4

LEMMA WeightIs ==
  ASSUME TypeOK
  PROVE  Weight \in Nat /\ Len(stack) \in Nat
<1>1. Len(stack) \in Nat
  BY DEF TypeOK, StackOK
<1>2. WeightOf(lval) \in Nat /\ (IF outcome = "reading" THEN 2 ELSE 0) \in Nat
  BY DEF WeightOf
<1> QED BY <1>1, <1>2 DEF Weight

LEMMA Pushed ==
  ASSUME NEW frames, StackOK(frames), NEW e \in Ends, NEW cells
  PROVE  /\ StackOK(Append(frames, [end |-> e, cells |-> cells]))
         /\ Len(Append(frames, [end |-> e, cells |-> cells])) = Len(frames) + 1
<1> DEFINE x == [end |-> e, cells |-> cells]
           S == ToSet(frames) \union {x}
           more == Append(frames, x)
<1>1. frames \in Seq(S) /\ x \in S /\ Len(frames) \in Nat
  BY DEF StackOK
<1>2. DOMAIN x = {"end", "cells"} /\ x.end \in Ends
  OBVIOUS
<1> HIDE DEF S, x
<1>3. /\ more \in Seq(S) /\ Len(more) = Len(frames) + 1
      /\ \A i \in 1 .. Len(frames) : more[i] = frames[i]
      /\ more[Len(frames) + 1] = x
  BY <1>1
<1>4. DOMAIN more = 1 .. Len(frames) + 1 /\ DOMAIN frames = 1 .. Len(frames)
  BY <1>1, <1>3
<1> HIDE DEF more
<1>5. ASSUME NEW i \in DOMAIN more PROVE DOMAIN more[i] = {"end", "cells"} /\ more[i].end \in Ends
  <2>1. CASE i = Len(frames) + 1
    BY <1>2, <1>3, <2>1
  <2>2. CASE i # Len(frames) + 1
    <3>1. i \in 1 .. Len(frames)
      BY ONLY <1>1, <1>4, <2>2, i \in DOMAIN more
    <3>2. more[i] = frames[i]
      BY <1>3, <3>1
    <3> QED BY <1>4, <3>1, <3>2 DEF StackOK
  <2> QED BY <2>1, <2>2
<1>6. more \in Seq(ToSet(more))
  BY <1>3 DEF ToSet
<1>7. StackOK(more)
  BY <1>5, <1>6 DEF StackOK
<1> QED BY <1>3, <1>7 DEF more, x

LEMMA Popped ==
  ASSUME NEW frames, StackOK(frames), frames # <<>>
  PROVE  /\ StackOK(Front(frames))
         /\ Len(Front(frames)) = Len(frames) - 1
         /\ Len(frames) \in Nat /\ Last(frames).end \in Ends
<1> DEFINE S == ToSet(frames)
           n == Len(frames)
           less == Front(frames)
<1>1. frames \in Seq(S)
  BY DEF StackOK
<1>2. n \in Nat /\ n >= 1 /\ DOMAIN frames = 1 .. n
  BY <1>1
<1> HIDE DEF S
<1>3. less \in Seq(S) /\ Len(less) = n - 1 /\ \A i \in 1 .. n - 1 : less[i] = frames[i]
  BY <1>1, <1>2 DEF Front
<1>4. DOMAIN less = 1 .. n - 1
  BY <1>3
<1> HIDE DEF less
<1>5. ASSUME NEW i \in DOMAIN less PROVE DOMAIN less[i] = {"end", "cells"} /\ less[i].end \in Ends
  <2>1. i \in 1 .. n /\ less[i] = frames[i]
    BY <1>2, <1>3, <1>4
  <2> QED BY <1>2, <2>1 DEF StackOK
<1>6. less \in Seq(ToSet(less))
  BY <1>3 DEF ToSet
<1>7. StackOK(less)
  BY <1>5, <1>6 DEF StackOK
<1>8. Last(frames).end \in Ends
  BY <1>2 DEF Last, StackOK
<1> QED BY <1>2, <1>3, <1>7, <1>8 DEF less

LEMMA Grown ==
  ASSUME NEW frames, StackOK(frames), frames # <<>>, NEW v
  PROVE  /\ StackOK([frames EXCEPT ![Len(frames)].cells = Append(@, v)])
         /\ Len([frames EXCEPT ![Len(frames)].cells = Append(@, v)]) = Len(frames)
<1> DEFINE n == Len(frames)
           inner == [frames[n] EXCEPT !.cells = Append(@, v)]
           S == ToSet(frames) \union {inner}
           grown == [frames EXCEPT ![n] = inner]
<1>1. frames \in Seq(S) /\ inner \in S
  BY DEF StackOK
<1>2. n \in Nat /\ n >= 1 /\ DOMAIN frames = 1 .. n
  BY <1>1
<1>3. DOMAIN inner = {"end", "cells"} /\ inner.end \in Ends
  BY <1>2 DEF StackOK
<1>4. [frames EXCEPT ![Len(frames)].cells = Append(@, v)] = grown
  OBVIOUS
<1> HIDE DEF S, inner
<1>5. /\ grown \in Seq(S) /\ Len(grown) = n /\ DOMAIN grown = 1 .. n
      /\ \A i \in 1 .. n : grown[i] = IF i = n THEN inner ELSE frames[i]
  BY <1>1, <1>2
<1> HIDE DEF grown
<1>6. ASSUME NEW i \in DOMAIN grown PROVE DOMAIN grown[i] = {"end", "cells"} /\ grown[i].end \in Ends
  BY <1>2, <1>3, <1>5 DEF StackOK
<1>7. grown \in Seq(ToSet(grown))
  <2>1. grown \in Seq(S)
    BY <1>5
  <2> QED BY ONLY <2>1 DEF ToSet
<1>8. StackOK(grown)
  BY <1>6, <1>7 DEF StackOK
<1> QED BY <1>4, <1>5, <1>8

----------------------------------------------------------------------------
(***************************************************************************)
(* The steps of the reader.                                                *)
(***************************************************************************)
\* Where the next expression starts.
LEMMA AtIs ==
  ASSUME IInv
  PROVE  /\ Len(Memory) \in Nat /\ pos \in 1 .. Len(Memory) + 2
         /\ At \in pos .. Len(Memory) + 2
         /\ Char(At) # NUL => At \in 1 .. Len(Memory)
         /\ Char(At) \notin Ignored
         /\ ~EndsOpen /\ Between(pos) => Between(At)
         /\ ~EndsOpen /\ Reading => Between(pos) /\ Between(At)
<1> DEFINE M == Len(Memory)
<1>1. TextOK /\ pos \in Positions
  BY DEF IInv, TypeOK
<1>2. M \in Nat /\ Positions = 1 .. M + 2 /\ \A i \in Int : i > M => Char(i) = NUL
  BY <1>1, Characters
<1>3. At \in pos .. M + 2 /\ Char(At) \notin Ignored
  BY <1>1, Skips DEF At
<1>4. ASSUME Char(At) # NUL PROVE At \in 1 .. M
  <2>1. At \in Int /\ pos \in Int /\ 1 <= pos /\ pos <= At
    BY <1>1, <1>2, <1>3
  <2>2. ~(At > M)
    BY <1>2, <1>4, <2>1
  <2> QED BY ONLY <1>2, <2>1, <2>2
<1>5. ~EndsOpen /\ Between(pos) => Between(At)
  BY <1>1, SkipPlaces DEF At
<1>6. ~EndsOpen /\ Reading => Between(pos)
  BY DEF IInv, WellPlaced, Reading, NONE, Error
<1> QED BY <1>1, <1>2, <1>3, <1>4, <1>5, <1>6

\* A character that starts no comment and no string can be stepped over.
LEMMA StepOver ==
  ASSUME TextOK, NEW i, Between(i), Char(i) # NUL, Char(i) # ";", Char(i) # "dquote"
  PROVE  Between(i + 1)
<1>1. i \in 1 .. Len(text)
  BY Inside DEF Between
<1>2. Mode[i] = Lex("code", Char(i)) /\ i + 1 \in 1 .. Len(text) + 1 /\ i + 1 - 1 = i
  BY <1>1, Modes1 DEF Between
<1>3. Mode[i] = "code"
  BY ONLY <1>2, Char(i) # ";", Char(i) # "dquote" DEF Lex
<1> QED BY ONLY <1>1, <1>2, <1>3 DEF Between

LEMMA Weights ==
  /\ WeightOf(Error) = 0 /\ WeightOf(NONE) = 1
  /\ \A v : WeightOf(v) \in 0 .. 2
  /\ \A v : v # Error /\ v # NONE => WeightOf(v) = 2
BY DEF WeightOf, Error, NONE

LEMMA NoMoreSteps ==
  ASSUME IInv, no_more
  PROVE  Stepped
<1>1. /\ UNCHANGED given /\ stack = <<>> /\ stack' = <<>> /\ lval = NONE /\ lval' = NONE
      /\ lval_err' = lval_err /\ outcome = "reading" /\ outcome' = "end" /\ Reading
  BY DEF no_more, Reading
<1>2. pos' = pos \/ pos' = At
  BY DEF no_more
<1>3. pos' \in pos .. Len(Memory) + 2
  BY <1>2, AtIs
<1>4. ~EndsOpen => Between(pos')
  BY <1>1, <1>2, AtIs
<1>5. StackOK(stack') /\ lval_err' \in {NONE, Error}
  BY <1>1 DEF IInv, TypeOK
<1>6. Weight' < Weight
  <2>1. Len(stack) = 0 /\ Len(stack') = 0
    BY <1>1
  <2>2. Weight = 0 + 1 + 2 /\ Weight' = 0 + 1 + 0
    BY <1>1, <2>1, Weights DEF Weight
  <2> QED BY ONLY <2>2
<1> QED BY <1>1, <1>3, <1>4, <1>5, <1>6 DEF Stepped

LEMMA ListEndSteps ==
  ASSUME IInv, list_end
  PROVE  Stepped
<1>1. /\ UNCHANGED given /\ stack' = Front(stack) /\ lval = NONE /\ Reading
      /\ lval_err' = lval_err /\ outcome = "reading" /\ outcome' = "reading"
      /\ stack # <<>> /\ pos' = pos + 1 /\ Char(pos) = Last(stack).end /\ Last(stack).end # NUL
  BY DEF list_end, Reading, InList, Inner, end
<1>2. TextOK /\ StackOK(stack) /\ lval_err' \in {NONE, Error}
  BY <1>1 DEF IInv, TypeOK
<1>3. /\ StackOK(stack') /\ Len(stack') = Len(stack) - 1
      /\ Len(stack) \in Nat /\ Last(stack).end \in Ends
  BY <1>1, <1>2, Popped
<1>4. Char(pos) # NUL /\ Char(pos) # ";" /\ Char(pos) # "dquote"
  <2>1. Char(pos) \in DOMAIN TypeOf
    BY <1>1, <1>3 DEF Ends
  <2> QED BY <1>1, <2>1 DEF TypeOf
<1>5. pos' \in pos .. Len(Memory) + 2 /\ pos' > pos
  <2>1. Len(Memory) \in Nat /\ pos \in 1 .. Len(Memory) + 2
    BY AtIs
  <2>2. ~(pos > Len(Memory))
    <3>1. \A i \in Int : i > Len(Memory) => Char(i) = NUL
      BY <1>2, Characters
    <3>2. pos \in Int
      BY ONLY <2>1
    <3> QED BY ONLY <1>4, <3>1, <3>2
  <2> QED BY ONLY <1>1, <2>1, <2>2
<1>6. ~EndsOpen => Between(pos')
  BY <1>1, <1>2, <1>4, AtIs, StepOver
<1>7. Weight' <= Weight + 2
  <2>1. WeightOf(lval) = 1 /\ WeightOf(lval') \in 0 .. 2
    BY <1>1, Weights
  <2>2. Weight = Len(stack) + 1 + 2 /\ Weight' = Len(stack) - 1 + WeightOf(lval') + 2
    BY <1>1, <1>3, <2>1 DEF Weight
  <2> QED BY ONLY <1>3, <2>1, <2>2
<1> QED BY <1>1, <1>2, <1>3, <1>5, <1>6, <1>7 DEF Stepped

\* The ways to give a list or a quote up where the text ends.
LEMMA MissingSteps ==
  ASSUME IInv, missing_end \/ nothing_quoted
  PROVE  Stepped
<1>1. /\ UNCHANGED given /\ stack' = Front(stack) /\ lval = NONE /\ lval' = Error /\ Reading
      /\ lval_err' \in {lval_err, Error} /\ outcome = "reading" /\ outcome' = "reading"
      /\ stack # <<>> /\ pos' \in {pos, At}
  BY DEF missing_end, nothing_quoted, Reading, InList, InMacro
<1>2. StackOK(stack) /\ lval_err' \in {NONE, Error}
  BY <1>1 DEF IInv, TypeOK
<1>3. /\ StackOK(stack') /\ Len(stack') = Len(stack) - 1 /\ Len(stack) \in Nat
  BY <1>1, <1>2, Popped
<1>4. pos' \in pos .. Len(Memory) + 2
  BY <1>1, AtIs
<1>5. ~EndsOpen => Between(pos')
  BY <1>1, AtIs
<1>6. Weight' < Weight
  <2>1. Weight = Len(stack) + 1 + 2 /\ Weight' = Len(stack) - 1 + 0 + 2
    BY <1>1, <1>3, Weights DEF Weight
  <2> QED BY ONLY <1>3, <2>1
<1> QED BY <1>1, <1>2, <1>3, <1>4, <1>5, <1>6 DEF Stepped

LEMMA StringStarts ==
  ASSUME TextOK, ~EndsOpen, NEW i, Between(i), Char(i) = "dquote"
  PROVE  StringPlaced(StringFrom[i + 1])
<1>1. Char(i) # NUL
  BY DEF NUL
<1>2. i \in 1 .. Len(text) + 1 /\ Mode[i - 1] = "code"
  BY DEF Between
<1>3. i \in 1 .. Len(text)
  BY <1>1, <1>2, Inside
<1>4. Mode[i] = Lex(Mode[i - 1], Char(i)) /\ i + 1 \in 1 .. Len(text) + 1 /\ i + 1 - 1 = i
  BY <1>3, Modes1
<1>5. Mode[i] = "string"
  BY ONLY <1>2, <1>4, Char(i) = "dquote" DEF Lex
<1>6. Mode[i + 1 - 1] = "string"
  BY ONLY <1>3, <1>4, <1>5
<1> DEFINE j == i + 1
<1>7. j \in 1 .. Len(text) + 1 /\ Mode[j - 1] = "string"
  BY ONLY <1>3, <1>4, <1>6
<1> HIDE DEF j
<1>8. StringPlaced(StringFrom[j])
  BY <1>7, StringPlaces
<1> QED BY <1>8 DEF j

\* A symbol, a number, a keyword or a string is read, or nothing can be.
LEMMA AtomSteps ==
  ASSUME IInv, lval_read_sym \/ lval_read_keyword \/ lval_read_str
  PROVE  Stepped
<1> DEFINE M == Len(Memory)
<1>1. /\ UNCHANGED given /\ stack' = stack /\ lval = NONE /\ Reading /\ Char(At) # NUL
      /\ lval_err' = lval_err /\ outcome = "reading" /\ outcome' = "reading"
  BY DEF lval_read_sym, lval_read_keyword, lval_read_str, Reading, More
<1>2. TextOK /\ StackOK(stack) /\ lval_err' \in {NONE, Error} /\ Len(stack) \in Nat
  BY <1>1, WeightIs DEF IInv, TypeOK
<1>3. M \in Nat /\ pos \in 1 .. M + 2 /\ At \in pos .. M + 2 /\ At \in 1 .. M
      /\ (~EndsOpen => Between(At))
  BY <1>1, AtIs
<1>4. NUL \notin valid_symbol_chars /\ \A c \in valid_symbol_chars : c # ";" /\ c # "dquote"
  BY SymbolChars
<1> HIDE DEF M
<1>5. At \in 1 .. M + 1 /\ At + 1 \in 1 .. M + 1
  BY ONLY <1>3
<1>6. At + 1 <= pos' /\ pos' <= M + 2 /\ pos' \in Int
      /\ (~EndsOpen => Between(pos') \/ (Torn(pos') /\ lval' = Error))
  <2>1. CASE lval_read_sym
    <3>1. pos' = SpanEnd(At, valid_symbol_chars) /\ Char(At) \in valid_symbol_chars
      BY <2>1 DEF lval_read_sym
    <3>2. pos' \in At .. M + 1 /\ Char(pos') \notin valid_symbol_chars
      BY <1>2, <1>4, <1>5, <3>1, SpanEnds DEF M
    <3>3. pos' # At
      BY <3>1, <3>2
    <3>4. At + 1 <= pos' /\ pos' <= M + 2 /\ pos' \in Int
      BY ONLY <1>3, <3>2, <3>3
    <3>5. ~EndsOpen => Between(pos')
      BY <1>2, <1>3, <3>1, SymbolPlaces
    <3> QED BY <3>4, <3>5
  <2>2. CASE lval_read_keyword
    <3>1. pos' = SpanEnd(At + 1, valid_symbol_chars) /\ Char(At) = ":"
      BY <2>2 DEF lval_read_keyword
    <3>2. pos' \in At + 1 .. M + 1
      BY <1>2, <1>4, <1>5, <3>1, SpanEnds DEF M
    <3>3. At + 1 <= pos' /\ pos' <= M + 2 /\ pos' \in Int
      BY ONLY <1>3, <3>2
    <3>4. ~EndsOpen => Between(At + 1)
      BY <1>1, <1>2, <1>3, <3>1, StepOver
    <3>5. ~EndsOpen => Between(pos')
      BY <1>2, <3>1, <3>4, SymbolPlaces
    <3> QED BY <3>3, <3>5
  <2>3. CASE lval_read_str
    <3>1. /\ pos' = StringFrom[At + 1].pos /\ lval' = StringFrom[At + 1].lval
          /\ Char(At) = "dquote"
      BY <2>3 DEF lval_read_str
    <3>2. At + 1 \in Positions
      <4>1. Positions = 1 .. M + 2
        BY <1>2, Characters DEF M
      <4> QED BY ONLY <1>3, <4>1
    <3>3. pos' \in At + 1 .. M + 2
      BY <1>2, <3>1, <3>2, StringForward DEF M
    <3>4. At + 1 <= pos' /\ pos' <= M + 2 /\ pos' \in Int
      BY ONLY <1>3, <3>3
    <3>5. ASSUME ~EndsOpen PROVE Between(pos') \/ (Torn(pos') /\ lval' = Error)
      <4>1. StringPlaced(StringFrom[At + 1])
        BY <1>2, <1>3, <3>1, <3>5, StringStarts
      <4> QED BY <3>1, <4>1 DEF StringPlaced
    <3> QED BY <3>4, <3>5
  <2> QED BY <2>1, <2>2, <2>3
<1>7. pos' \in pos .. M + 2 /\ pos' > pos
  BY ONLY <1>3, <1>6
<1>8. Weight' <= Weight + 2
  <2>1. WeightOf(lval) = 1 /\ WeightOf(lval') \in 0 .. 2
    BY <1>1, Weights
  <2>2. Weight = Len(stack) + 1 + 2 /\ Weight' = Len(stack) + WeightOf(lval') + 2
    BY <1>1, <2>1 DEF Weight
  <2> QED BY ONLY <1>2, <2>1, <2>2
<1> QED BY <1>1, <1>2, <1>6, <1>7, <1>8 DEF Stepped, M

LEMMA UnexpectedSteps ==
  ASSUME IInv, unexpected_character
  PROVE  Stepped
<1>1. /\ UNCHANGED given /\ stack' = stack /\ lval = NONE /\ lval' = Error /\ Reading
      /\ lval_err' = lval_err /\ outcome = "reading" /\ outcome' = "reading" /\ pos' = At
  BY DEF unexpected_character, Reading
<1>2. StackOK(stack) /\ lval_err' \in {NONE, Error} /\ Len(stack) \in Nat
  BY <1>1, WeightIs DEF IInv, TypeOK
<1>3. pos' \in pos .. Len(Memory) + 2
  BY <1>1, AtIs
<1>4. ~EndsOpen => Between(pos')
  BY <1>1, AtIs
<1>5. Weight' < Weight
  <2>1. Weight = Len(stack) + 1 + 2 /\ Weight' = Len(stack) + 0 + 2
    BY <1>1, Weights DEF Weight
  <2> QED BY ONLY <1>2, <2>1
<1> QED BY <1>1, <1>2, <1>3, <1>4, <1>5 DEF Stepped

\* A list or a quote begins.
LEMMA OpeningSteps ==
  ASSUME IInv, lval_read_list \/ reader_macro
  PROVE  Stepped
<1> DEFINE M == Len(Memory)
<1>1. /\ UNCHANGED given /\ lval = NONE /\ lval' = NONE /\ Reading /\ Char(At) # NUL
      /\ lval_err' \in {lval_err, NONE} /\ outcome = "reading" /\ outcome' = "reading"
  BY DEF lval_read_list, reader_macro, Reading, More
<1>2. /\ TextOK /\ StackOK(stack) /\ lval_err' \in {NONE, Error}
  BY <1>1 DEF IInv, TypeOK
<1>3. M \in Nat /\ pos \in 1 .. M + 2 /\ At \in pos .. M + 2 /\ At \in 1 .. M
      /\ (~EndsOpen => Between(At))
  BY <1>1, AtIs
<1> HIDE DEF M
<1>4. Len(stack) \in Nat
  BY WeightIs DEF IInv
<1>5. \E e \in Ends : \E cells : stack' = Append(stack, [end |-> e, cells |-> cells])
  <2>1. CASE lval_read_list
    <3>1. End[Char(At)] \in Ends
      BY <2>1 DEF lval_read_list, Ends, End, TypeOf
    <3> QED BY <2>1, <3>1 DEF lval_read_list
  <2>2. CASE reader_macro
    <3>1. NUL \in Ends
      BY DEF Ends
    <3> QED BY <2>2, <3>1 DEF reader_macro
  <2> QED BY <2>1, <2>2
<1>6. StackOK(stack') /\ Len(stack') = Len(stack) + 1
  BY <1>2, <1>5, Pushed
<1>7. Char(At) # ";" /\ Char(At) # "dquote"
  BY DEF lval_read_list, reader_macro, End, Macro
<1>8. pos' \in {At + 1, At + 2} /\ (pos' = At + 2 => Char(At + 1) = "@")
  <2>1. CASE lval_read_list
    <3>1. pos' = At + 1
      BY <2>1 DEF lval_read_list
    <3>2. At + 1 # At + 2
      BY ONLY <1>3
    <3> QED BY ONLY <3>1, <3>2
  <2>2. CASE reader_macro
    <3>1. pos' = IF Char(At + 1) = "@" THEN At + 2 ELSE At + 1
      BY <2>2 DEF reader_macro
    <3>2. At + 1 # At + 2
      BY ONLY <1>3
    <3> QED BY ONLY <3>1, <3>2
  <2> QED BY <2>1, <2>2
<1>9. pos' \in pos .. M + 2 /\ pos' > pos
  BY ONLY <1>3, <1>8
<1>10. ASSUME ~EndsOpen PROVE Between(pos')
  <2>1. Between(At + 1)
    BY <1>1, <1>2, <1>3, <1>7, <1>10, StepOver
  <2>2. CASE pos' = At + 1
    BY <2>1, <2>2
  <2>3. CASE pos' = At + 2
    <3>1. Char(At + 1) # NUL /\ Char(At + 1) # ";" /\ Char(At + 1) # "dquote"
      BY <1>8, <2>3 DEF NUL
    <3>2. Between(At + 1 + 1)
      BY <1>2, <2>1, <3>1, StepOver
    <3>3. At + 1 + 1 = At + 2
      BY ONLY <1>3
    <3> QED BY <2>3, <3>2, <3>3
  <2> QED BY <1>8, <2>2, <2>3
<1>11. Weight' <= Weight + 2
  <2>1. Weight = Len(stack) + 1 + 2 /\ Weight' = Len(stack) + 1 + 1 + 2
    BY <1>1, <1>6, Weights DEF Weight
  <2> QED BY ONLY <1>4, <2>1
<1> QED BY <1>1, <1>2, <1>6, <1>9, <1>10, <1>11 DEF Stepped, M

\* A value returns to where it is taken.
LEMMA ReturningSteps ==
  ASSUME IInv, read_cell \/ quoted \/ load
  PROVE  Stepped
<1>1. /\ UNCHANGED given /\ outcome = "reading" /\ lval # NONE
      /\ pos' = skip_ignored_chars[pos]
  BY DEF read_cell, quoted, load, Returned
<1>2. TextOK /\ StackOK(stack) /\ pos \in Positions /\ Len(stack) \in Nat
      /\ lval_err \in {NONE, Error}
  BY WeightIs DEF IInv, TypeOK
<1>3. pos' \in pos .. Len(Memory) + 2
  BY <1>1, <1>2, Skips
<1>4. ~EndsOpen => Between(pos') \/ (Torn(pos') /\ lval = Error)
  <2> SUFFICES ASSUME ~EndsOpen PROVE Between(pos') \/ (Torn(pos') /\ lval = Error)
    OBVIOUS
  <2>1. Between(pos) \/ (Torn(pos) /\ lval = Error)
    BY <1>1 DEF IInv, WellPlaced
  <2>2. CASE Between(pos)
    BY <1>1, <1>2, <2>2, SkipPlaces
  <2>3. CASE Torn(pos) /\ lval = Error
    BY <1>1, <1>2, <2>3, TornSkips
  <2> QED BY <2>1, <2>2, <2>3
<1>5. lval_err' \in {NONE, Error}
  BY <1>2 DEF read_cell, quoted, load
<1>6. CASE stack # <<>>
  <2>1. outcome' = "reading" /\ ~load
    BY <1>1, <1>6 DEF read_cell, quoted, load
  <2>2. CASE read_cell /\ lval # Error
    <3>1. stack' = [stack EXCEPT ![Len(stack)].cells = Append(@, lval)] /\ lval' = NONE
      BY <2>2 DEF read_cell
    <3>2. StackOK(stack') /\ Len(stack') = Len(stack)
      BY <1>2, <1>6, <3>1, Grown
    <3>3. WeightOf(lval) = 2
      BY <1>1, <2>2, Weights
    <3>4. Weight = Len(stack) + 2 + 2 /\ Weight' = Len(stack) + 1 + 2
      BY <1>1, <2>1, <3>1, <3>2, <3>3, Weights DEF Weight
    <3>5. Weight' < Weight
      BY ONLY <1>2, <3>4
    <3> QED BY <1>1, <1>3, <1>4, <1>5, <2>1, <2>2, <3>2, <3>5 DEF Stepped
  <2>3. CASE quoted \/ (read_cell /\ lval = Error)
    <3>1. stack' = Front(stack) /\ (lval = Error => lval' = Error)
      BY <2>3 DEF read_cell, quoted
    <3>2. StackOK(stack') /\ Len(stack') = Len(stack) - 1
      BY <1>2, <1>6, <3>1, Popped
    <3>3. WeightOf(lval') <= WeightOf(lval) /\ WeightOf(lval) \in 0 .. 2 /\ WeightOf(lval') \in 0 .. 2
      <4>1. lval = Error => WeightOf(lval') = WeightOf(lval)
        BY <3>1
      <4>2. lval # Error => WeightOf(lval) = 2
        BY <1>1, Weights
      <4>3. WeightOf(lval) \in 0 .. 2 /\ WeightOf(lval') \in 0 .. 2
        BY Weights
      <4> QED BY ONLY <4>1, <4>2, <4>3
    <3>4. Weight = Len(stack) + WeightOf(lval) + 2 /\ Weight' = Len(stack) - 1 + WeightOf(lval') + 2
      BY <1>1, <2>1, <3>2 DEF Weight
    <3>5. Weight' < Weight
      BY ONLY <1>2, <3>3, <3>4
    <3> QED BY <1>1, <1>3, <1>4, <1>5, <2>1, <3>1, <3>2, <3>5 DEF Stepped
  <2> QED BY <2>1, <2>2, <2>3
<1>7. CASE stack = <<>>
  <2>1. load
    BY <1>7 DEF read_cell, quoted, InList, InMacro
  <2>2. lval' = NONE /\ stack' = <<>> /\ outcome' = IF lval = Error THEN "error" ELSE "reading"
    BY <1>1, <1>7, <2>1 DEF load
  <2>3. Len(stack) = 0 /\ Len(stack') = 0
    BY <1>7, <2>2
  <2>4. Weight' < Weight
    <3>1. CASE lval = Error
      <4>1. Weight = 0 + 0 + 2 /\ Weight' = 0 + 1 + 0
        BY <1>1, <2>2, <2>3, <3>1, Weights DEF Weight
      <4> QED BY ONLY <4>1
    <3>2. CASE lval # Error
      <4>1. WeightOf(lval) = 2
        BY <1>1, <3>2, Weights
      <4>2. Weight = 0 + 2 + 2 /\ Weight' = 0 + 1 + 2
        BY <1>1, <2>2, <2>3, <3>2, <4>1, Weights DEF Weight
      <4> QED BY ONLY <4>2
    <3> QED BY <3>1, <3>2
  <2>5. StackOK(stack')
    BY <1>2, <1>7, <2>2
  <2> QED BY <1>1, <1>3, <1>4, <1>5, <2>2, <2>4, <2>5 DEF Stepped
<1> QED BY <1>6, <1>7

\* Every step of the reader is such a step.
LEMMA ReadSteps ==
  ASSUME IInv, read_expr
  PROVE  Stepped
<1>1. CASE no_more
  BY <1>1, NoMoreSteps
<1>2. CASE list_end
  BY <1>2, ListEndSteps
<1>3. CASE missing_end \/ nothing_quoted
  BY <1>3, MissingSteps
<1>4. CASE lval_read_sym \/ lval_read_keyword \/ lval_read_str
  BY <1>4, AtomSteps
<1>5. CASE lval_read_list \/ reader_macro
  BY <1>5, OpeningSteps
<1>6. CASE unexpected_character
  BY <1>6, UnexpectedSteps
<1>7. CASE read_cell \/ quoted \/ load
  BY <1>7, ReturningSteps
<1> QED BY <1>1, <1>2, <1>3, <1>4, <1>5, <1>6, <1>7 DEF read_expr, lval_read

LEMMA StepsPreserve ==
  ASSUME IInv, Stepped
  PROVE  IInv'
<1>1. /\ Memory' = Memory /\ Positions' = Positions /\ Mode' = Mode
      /\ text' = text /\ beyond' = beyond
  BY SameText DEF Stepped
<1>2. Len(Memory) \in Nat /\ Positions = 1 .. Len(Memory) + 2
  BY Characters DEF IInv, TypeOK
<1>3. pos' \in Positions'
  <2>1. pos \in Positions /\ pos' \in pos .. Len(Memory) + 2
    BY DEF IInv, TypeOK, Stepped
  <2>2. pos' \in Positions
    BY ONLY <1>2, <2>1
  <2> QED BY <1>1, <2>2
<1>4. TextOK'
  BY <1>1 DEF IInv, TypeOK, TextOK
<1>5. TypeOK'
  BY <1>3, <1>4 DEF TypeOK, Stepped, StackOK
<1>6. WellPlaced'
  <2>1. EndsOpen' <=> EndsOpen
    BY <1>1 DEF EndsOpen
  <2>2. Between(pos)' <=> Between(pos')
    BY <1>1 DEF Between
  <2>3. Torn(pos)' <=> Torn(pos')
    BY <1>1 DEF Torn
  <2>4. ~EndsOpen => \/ Between(pos')
                     \/ Torn(pos') /\ (lval' = Error \/ outcome' = "error")
    BY DEF Stepped
  <2> QED BY <2>1, <2>2, <2>3, <2>4 DEF WellPlaced
<1> QED BY <1>5, <1>6 DEF IInv

\* A text is begun at its beginning, whatever has been read before and whichever it is.
LEMMA StartsPlaced ==
  ASSUME IInv, NEW t, NEW b, t \in Seq(ToSet(t) \ {NUL}), b \in Seq(ToSet(b)),
         Start(t, b), outcome # "reading"
  PROVE  IInv'
<1>1. /\ text' = t /\ beyond' = b /\ pos' = 1
      /\ stack' = stack /\ lval' = lval /\ lval_err' = lval_err
  BY DEF Start
<1>2. stack = <<>> /\ lval = NONE /\ lval_err \in {NONE, Error}
  BY DEF IInv, TypeOK
<1>3. TextOK'
  BY <1>1 DEF TextOK
<1>4. pos' \in Positions'
  <2> DEFINE Cs == ToSet(t) \union ToSet(b) \union {NUL}
  <2>1. t \in Seq(Cs) /\ b \in Seq(Cs) /\ <<NUL>> \in Seq(Cs)
    OBVIOUS
  <2> HIDE DEF Cs
  <2>2. Len(t \o <<NUL>> \o b) \in Nat
    BY <2>1
  <2>3. Len(Memory') \in Nat
    BY <1>1, <2>2 DEF Memory
  <2>4. Positions' = 1 .. Len(Memory') + 2
    BY DEF Positions
  <2> QED BY ONLY <1>1, <2>3, <2>4
<1>5. StackOK(stack')
  <2>1. stack' = <<>>
    BY <1>1, <1>2
  <2> QED BY <2>1 DEF StackOK, ToSet
<1>6. TypeOK'
  BY <1>1, <1>2, <1>3, <1>4, <1>5 DEF TypeOK, StackOK
<1>7. Between(pos)'
  <2>1. Len(t) \in Nat
    OBVIOUS
  <2>2. Mode' = ModeOf(t)
    BY <1>1 DEF Mode, ModeOf, IsMode
  <2>3. Mode'[0] = "code"
    BY <2>1, <2>2, ModeStarts
  <2>4. 1 \in 1 .. Len(t) + 1 /\ 1 - 1 = 0
    BY <2>1
  <2> QED BY <1>1, <2>3, <2>4 DEF Between
<1> QED BY <1>6, <1>7 DEF IInv, WellPlaced

LEMMA InitInv == Init => IInv
<1> SUFFICES ASSUME Init PROVE IInv
  OBVIOUS
<1>1. /\ text = <<>> /\ beyond = <<>> /\ pos = 1 /\ stack = <<>> /\ lval = NONE
      /\ lval_err = NONE
  BY DEF Init
<1>2. TextOK
  BY <1>1 DEF TextOK, ToSet
<1>3. StackOK(stack)
  BY <1>1 DEF StackOK, ToSet
<1>4. pos \in Positions /\ Between(pos)
  <2>1. Len(Memory) \in Nat /\ Positions = 1 .. Len(Memory) + 2 /\ Len(text) \in Nat
    BY <1>2, Characters
  <2>2. Mode[0] = "code"
    BY <1>2, ModeDef
  <2>3. 1 \in 1 .. Len(Memory) + 2 /\ 1 \in 1 .. Len(text) + 1 /\ 1 - 1 = 0
    BY ONLY <2>1
  <2> QED BY <1>1, <2>1, <2>2, <2>3 DEF Between
<1> QED BY <1>1, <1>2, <1>3, <1>4 DEF IInv, TypeOK, WellPlaced

LEMMA NextInv == IInv /\ [Next]_vars => IInv'
<1> SUFFICES ASSUME IInv, [Next]_vars PROVE IInv'
  OBVIOUS
<1>1. CASE read_expr
  BY <1>1, ReadSteps, StepsPreserve
<1>2. CASE read_text
  <2>1. PICK t \in Texts, b \in Beyond : Start(t, b)
    BY <1>2 DEF read_text
  <2>2. t \in Seq(ToSet(t) \ {NUL}) /\ b \in Seq(ToSet(b))
    BY TextsAssumption
  <2>3. outcome # "reading"
    BY <1>2 DEF read_text
  <2> QED BY <2>1, <2>2, <2>3, StartsPlaced
<1>3. CASE forget
  <2>1. <<>> \in Seq(ToSet(<<>>) \ {NUL}) /\ <<>> \in Seq(ToSet(<<>>))
    OBVIOUS
  <2>2. Start(<<>>, <<>>) /\ outcome # "reading"
    BY <1>3 DEF forget
  <2> QED BY <2>1, <2>2, StartsPlaced
<1>4. CASE UNCHANGED vars
  <2>1. UNCHANGED given /\ UNCHANGED <<pos, stack, lval, lval_err, outcome>>
    BY <1>4 DEF vars
  <2>2. /\ Memory' = Memory /\ Positions' = Positions /\ Mode' = Mode
        /\ text' = text /\ beyond' = beyond
    BY <2>1, SameText
  <2>3. TypeOK'
    BY <2>1, <2>2 DEF IInv, TypeOK, TextOK, StackOK
  <2>4. WellPlaced'
    BY <2>1, <2>2 DEF IInv, WellPlaced, EndsOpen, Between, Torn
  <2> QED BY <2>3, <2>4 DEF IInv
<1> QED BY <1>1, <1>2, <1>3, <1>4 DEF Next

THEOREM Invariant == Spec => []IInv
BY InitInv, NextInv, PTL DEF Spec

----------------------------------------------------------------------------
(***************************************************************************)
(* What is promised.                                                       *)
(***************************************************************************)
\* Reading stays inside a text and its terminator, whatever the text is and whatever lies
\* behind it, unless the text ends in a comment or in a backslash inside a string: the
\* loops of read.c that look for the end of a comment, a string or a symbol have no bound
\* of their own.
THEOREM StaysInTextAlways == Spec => []StaysInText
<1>1. IInv => StaysInText
  <2> SUFFICES ASSUME IInv, ~EndsOpen PROVE ~(pos > Len(text) + 1)
    BY DEF StaysInText
  <2>1. TextOK /\ (Between(pos) \/ Torn(pos))
    BY DEF IInv, TypeOK, WellPlaced
  <2>2. Len(text) \in Nat
    BY <2>1, Characters
  <2>3. pos \in 1 .. Len(text) + 1
    BY <2>1, <2>2 DEF Between, Torn
  <2> QED BY ONLY <2>2, <2>3
<1> QED BY <1>1, Invariant, PTL

LEMMA LessToDo ==
  ASSUME NEW M \in Nat, NEW p \in 1 .. M + 2, NEW q \in p .. M + 2, NEW w \in Nat, NEW v \in Nat,
         v < w \/ (q > p /\ v <= w + 2)
  PROVE  /\ 3 * (M + 2 - p) + w \in Nat /\ 3 * (M + 2 - q) + v \in Nat
         /\ 3 * (M + 2 - q) + v < 3 * (M + 2 - p) + w
<1> DEFINE a == M + 2 - p
           b == M + 2 - q
<1>1. a \in Nat /\ b \in Nat /\ b <= a /\ (q > p => b + 1 <= a)
  OBVIOUS
<1> HIDE DEF a, b
<1>2. 3 * a + w \in Nat /\ 3 * b + v \in Nat
  BY ONLY <1>1, w \in Nat, v \in Nat
<1>3. 3 * b + v < 3 * a + w
  <2>1. CASE v < w
    BY ONLY <1>1, <2>1, w \in Nat, v \in Nat
  <2>2. CASE q > p /\ v <= w + 2
    <3>1. b + 1 <= a /\ v <= w + 2
      BY <1>1, <2>2
    <3> QED BY ONLY <1>1, <3>1, w \in Nat, v \in Nat
  <2> QED BY <2>1, <2>2
<1> QED BY <1>2, <1>3 DEF a, b

\* Every step of the reader leaves less to do, in natural numbers: no text, however it is
\* nested and wherever it is cut off, is read for ever, and none in more steps than three
\* for each byte of its memory and a few.
THEOREM ReaderProgresses ==
  Spec => [][read_expr => Measure \in Nat /\ Measure' \in Nat /\ Measure' < Measure]_vars
<1>1. IInv /\ IInv' /\ read_expr => Measure \in Nat /\ Measure' \in Nat /\ Measure' < Measure
  <2> SUFFICES ASSUME IInv, IInv', read_expr
               PROVE  Measure \in Nat /\ Measure' \in Nat /\ Measure' < Measure
    OBVIOUS
  <2>1. Stepped
    BY ReadSteps
  <2>2. Weight \in Nat
    BY WeightIs DEF IInv
  <2>3. Weight' \in Nat
    <3>1. Len(stack') \in Nat
      BY DEF IInv, TypeOK, StackOK
    <3>2. WeightOf(lval') \in Nat /\ (IF outcome' = "reading" THEN 2 ELSE 0) \in Nat
      BY DEF WeightOf
    <3> QED BY <3>1, <3>2 DEF Weight
  <2>4. Len(Memory) \in Nat /\ pos \in 1 .. Len(Memory) + 2 /\ pos' \in pos .. Len(Memory) + 2
    BY <2>1, AtIs DEF Stepped
  <2>5. Weight' < Weight \/ (pos' > pos /\ Weight' <= Weight + 2)
    BY <2>1 DEF Stepped
  <2>6. /\ Measure = 3 * (Len(Memory) + 2 - pos) + Weight
        /\ Measure' = 3 * (Len(Memory) + 2 - pos') + Weight'
    BY <2>1, SameText DEF Measure, Stepped
  <2> DEFINE w == Weight
             v == Weight'
             M == Len(Memory)
  <2> HIDE DEF w, v, M
  <2>7. w \in Nat /\ v \in Nat /\ M \in Nat /\ pos \in 1 .. M + 2 /\ pos' \in pos .. M + 2
    BY <2>2, <2>3, <2>4 DEF w, v, M
  <2> QED BY <2>5, <2>6, <2>7, LessToDo DEF w, v, M
<1> QED BY <1>1, Invariant, PTL DEF Spec

----------------------------------------------------------------------------
(***************************************************************************)
(* Numbers.                                                                *)
(***************************************************************************)
IsValue(f, digits) ==
  f = [k \in 0 .. Len(digits) |-> IF k = 0 THEN 0 ELSE f[k - 1] * 10 + Digit[digits[k]]]
ValueOf(digits) == CHOOSE f : IsValue(f, digits)

IsMagnitude(f, digits, neg) ==
  f = [k \in 0 .. Len(digits) |->
         IF k = 0 THEN Number(0)
         ELSE IF f[k - 1] = NONE \/ TooLarge(f[k - 1].number, Digit[digits[k]], neg)
              THEN NONE ELSE Number(f[k - 1].number * 10 + Digit[digits[k]])]
MagnitudeOf(digits, neg) == CHOOSE f : IsMagnitude(f, digits, neg)

\* The characters of the digits, and their values.
LEMMA DigitsOK ==
  /\ \A c \in Digits : Digit[c] \in 0 .. 9
  /\ \A d \in 0 .. 9 : DigitChars[d + 1] \in Digits /\ Digit[DigitChars[d + 1]] = d
<1> DEFINE Place(c) == CHOOSE i \in DOMAIN DigitChars : DigitChars[i] = c
<1>1. DOMAIN DigitChars = 1 .. 10
  BY DEF DigitChars
<1>2. \A i, j \in 1 .. 10 : DigitChars[i] = DigitChars[j] => i = j
  BY DEF DigitChars
<1>3. Digits = {DigitChars[i] : i \in 1 .. 10}
  BY <1>1 DEF Digits, ToSet
<1>4. \A c \in Digits : Digit[c] = Place(c) - 1
  BY DEF Digit
<1>5. ASSUME NEW c \in Digits PROVE Digit[c] \in 0 .. 9
  <2>1. Place(c) \in 1 .. 10
    BY <1>1, <1>3
  <2> HIDE DEF Place
  <2> QED BY <1>4, <2>1
<1>6. ASSUME NEW d \in 0 .. 9 PROVE DigitChars[d + 1] \in Digits /\ Digit[DigitChars[d + 1]] = d
  <2> DEFINE c == DigitChars[d + 1]
  <2>1. d + 1 \in 1 .. 10
    OBVIOUS
  <2>2. c \in Digits
    BY <1>3, <2>1
  <2>3. Place(c) \in 1 .. 10 /\ DigitChars[Place(c)] = c
    BY <1>1, <2>1
  <2> HIDE DEF Place
  <2>4. Place(c) = d + 1
    BY <1>2, <2>1, <2>3
  <2> QED BY <1>4, <2>2, <2>4
<1> QED BY <1>5, <1>6

LEMMA ValueDef ==
  ASSUME NEW digits \in Seq(Digits)
  PROVE  /\ IsValue(ValueOf(digits), digits)
         /\ \A k \in 0 .. Len(digits) : ValueOf(digits)[k] \in Nat
<1> DEFINE n == Len(digits)
           I == 0 .. n
           rank == [k \in I |-> k]
           base == [k \in I |-> 0]
           next == [k \in I |-> IF k = 0 THEN 0 ELSE k - 1]
           step == [k \in I |-> [v \in Nat |-> IF k = 0 THEN v ELSE v * 10 + Digit[digits[k]]]]
<1>1. /\ rank \in [I -> 0 .. n] /\ base \in [I -> Nat] /\ next \in [I -> I]
      /\ \A k \in I \ {0} : rank[next[k]] < rank[k]
  OBVIOUS
<1>2. \A k \in I : k # 0 => digits[k] \in Digits /\ Digit[digits[k]] \in Nat
  <2>1. \A c \in Digits : Digit[c] \in Nat
    BY DigitsOK
  <2>2. \A k \in 1 .. n : digits[k] \in Digits
    OBVIOUS
  <2> QED BY <2>1, <2>2
<1>3. step \in [I -> [Nat -> Nat]]
  BY <1>2
<1>4. PICK f : IsRecursive(f, I, Nat, {0}, base, next, step)
  <2>1. n \in Nat
    OBVIOUS
  <2> HIDE DEF I, rank, base, next, step, n
  <2> QED BY <1>1, <1>3, <2>1, Recursion DEF I
<1>5. f \in [I -> Nat]
  BY <1>4 DEF IsRecursive
<1>6. ASSUME NEW k \in I PROVE f[k] = IF k = 0 THEN 0 ELSE f[k - 1] * 10 + Digit[digits[k]]
  <2>1. f[k] = IF k \in {0} THEN base[k] ELSE step[k][f[next[k]]]
    BY <1>4 DEF IsRecursive
  <2>2. f[next[k]] \in Nat
    BY <1>1, <1>5
  <2> QED BY <2>1, <2>2
<1>7. IsValue(f, digits)
  BY <1>5, <1>6 DEF IsValue
<1>8. IsValue(ValueOf(digits), digits)
  BY <1>7 DEF ValueOf
<1> HIDE DEF I, rank, base, next, step
<1> DEFINE g == ValueOf(digits)
           S == {k \in Nat : k <= n => g[k] \in Nat}
<1>9. 0 \in S
  BY <1>8 DEF IsValue
<1>10. ASSUME NEW k \in Nat, k \in S PROVE k + 1 \in S
  <2>1. CASE k + 1 <= n
    <3>1. k + 1 \in 0 .. n /\ k + 1 # 0 /\ k + 1 - 1 = k /\ g[k] \in Nat
      BY <1>10, <2>1
    <3>2. g[k + 1] = g[k] * 10 + Digit[digits[k + 1]]
      BY <1>8, <3>1 DEF IsValue
    <3>3. Digit[digits[k + 1]] \in Nat
      BY <1>2, <3>1 DEF I
    <3> HIDE DEF g
    <3>4. g[k + 1] \in Nat
      BY ONLY <3>1, <3>2, <3>3
    <3> QED BY <3>4
  <2> QED BY <2>1
<1> HIDE DEF S
<1>11. Nat \subseteq S
  BY <1>9, <1>10, Induction
<1> QED BY <1>8, <1>11 DEF S

\* The magnitude is that value, or there is none once it is past the end of the range.
LEMMA MagnitudeDef ==
  ASSUME NEW digits \in Seq(Digits), NEW neg \in BOOLEAN
  PROVE  \A k \in 0 .. Len(digits) :
           MagnitudeOf(digits, neg)[k] =
             IF ValueOf(digits)[k] <= Cut(neg) THEN Number(ValueOf(digits)[k]) ELSE NONE
<1> DEFINE n == Len(digits)
           v == ValueOf(digits)
           cut == Cut(neg)
           f == [k \in 0 .. n |-> IF v[k] <= cut THEN Number(v[k]) ELSE NONE]
<1>1. n \in Nat /\ v[0] = 0 /\ \A k \in 0 .. n : v[k] \in Nat
  BY ValueDef DEF IsValue
<1>2. cut \in Nat
  BY NumbersAssumption DEF Cut
<1>3. \A k \in 1 .. n : digits[k] \in Digits /\ Digit[digits[k]] \in 0 .. 9
  BY DigitsOK
<1>4. \A k \in 1 .. n : v[k] = v[k - 1] * 10 + Digit[digits[k]]
  BY ValueDef DEF IsValue
<1> HIDE DEF v, n
<1>5. \A x : Number(x) # NONE /\ Number(x).number = x
  BY DEF Number, NONE
<1> DEFINE M(g, k) ==
      IF k = 0 THEN Number(0)
      ELSE IF g[k - 1] = NONE \/ TooLarge(g[k - 1].number, Digit[digits[k]], neg)
           THEN NONE ELSE Number(g[k - 1].number * 10 + Digit[digits[k]])
           Exact(g, k) == g[k] = IF v[k] <= cut THEN Number(v[k]) ELSE NONE
<1>6. ASSUME NEW g, NEW k \in 1 .. n, Exact(g, k - 1)
      PROVE  M(g, k) = IF v[k] <= cut THEN Number(v[k]) ELSE NONE
  <2> DEFINE d == Digit[digits[k]]
             x == v[k - 1]
  <2>1. k - 1 \in 0 .. n /\ k # 0
    BY ONLY <1>1, k \in 1 .. n
  <2>2. d \in 0 .. 9 /\ x \in Nat /\ v[k] = x * 10 + d
    BY <1>1, <1>3, <1>4, <2>1
  <2>3. g[k - 1] = IF x <= cut THEN Number(x) ELSE NONE
    BY <1>6
  <2> HIDE DEF d, x, cut
  <2>4. CASE x <= cut
    <3>1. g[k - 1] # NONE /\ g[k - 1].number = x
      BY <1>5, <2>3, <2>4
    <3>2. TooLarge(x, d, neg) <=> ~(x * 10 + d <= cut)
      <4>1. TooLarge(x, d, neg) <=> (x > cut \div 10 \/ (x = cut \div 10 /\ d > cut % 10))
        BY DEF TooLarge, cut
      <4>2. (x > cut \div 10 \/ (x = cut \div 10 /\ d > cut % 10)) <=> ~(x * 10 + d <= cut)
        BY ONLY <1>2, <2>2
      <4> QED BY ONLY <4>1, <4>2
    <3>3. M(g, k) = IF TooLarge(x, d, neg) THEN NONE ELSE Number(x * 10 + d)
      BY <2>1, <3>1 DEF d
    <3> QED BY ONLY <2>2, <3>2, <3>3
  <2>5. CASE ~(x <= cut)
    <3>1. M(g, k) = NONE
      BY <2>1, <2>3, <2>5
    <3>2. ~(v[k] <= cut)
      BY ONLY <1>2, <2>2, <2>5
    <3> QED BY <3>1, <3>2
  <2> QED BY <2>4, <2>5
<1>7. IsMagnitude(f, digits, neg)
  <2>1. \A k \in 0 .. n : Exact(f, k)
    OBVIOUS
  <2>2. ASSUME NEW k \in 0 .. n PROVE f[k] = M(f, k)
    <3>1. CASE k = 0
      <4>1. v[k] <= cut /\ v[k] = 0
        BY ONLY <1>1, <1>2, <3>1
      <4>2. f[k] = Number(0)
        BY <2>1, <4>1
      <4> QED BY <3>1, <4>2
    <3>2. CASE k # 0
      <4>1. k \in 1 .. n /\ k - 1 \in 0 .. n
        BY ONLY <1>1, <3>2, k \in 0 .. n
      <4>2. Exact(f, k - 1) /\ Exact(f, k)
        BY <2>1, <4>1
      <4> HIDE DEF f, M, cut
      <4>3. M(f, k) = IF v[k] <= cut THEN Number(v[k]) ELSE NONE
        BY <1>6, <4>1, <4>2
      <4> QED BY <4>2, <4>3
    <3> QED BY <3>1, <3>2
  <2>3. f = [k \in 0 .. n |-> f[k]]
    OBVIOUS
  <2> HIDE DEF f
  <2>4. f = [k \in 0 .. n |-> M(f, k)]
    BY <2>2, <2>3
  <2> QED BY <2>4 DEF IsMagnitude, n
<1> DEFINE g == MagnitudeOf(digits, neg)
<1>8. IsMagnitude(g, digits, neg)
  <2> HIDE DEF f
  <2> QED BY <1>7 DEF MagnitudeOf
<1>9. \A k \in 0 .. n : g[k] = M(g, k)
  BY <1>8 DEF IsMagnitude, n
<1> HIDE DEF g, f, M
<1> DEFINE S == {k \in Nat : k <= n => Exact(g, k)}
<1>10. 0 \in S
  <2>1. v[0] <= cut /\ 0 \in 0 .. n
    BY ONLY <1>1, <1>2
  <2>2. g[0] = Number(0)
    BY <1>9, <2>1 DEF M
  <2> QED BY <1>1, <2>1, <2>2
<1> HIDE DEF cut
<1>11. ASSUME NEW k \in Nat, k \in S PROVE k + 1 \in S
  <2>1. CASE k + 1 <= n
    <3> DEFINE j == k + 1
    <3>1. j \in 1 .. n /\ j - 1 = k /\ k <= n /\ j \in 0 .. n /\ j \in Nat
      BY ONLY <1>1, <2>1, k \in Nat
    <3> HIDE DEF j
    <3>2. Exact(g, j - 1)
      BY <1>11, <3>1
    <3> HIDE DEF Exact
    <3>3. M(g, j) = IF v[j] <= cut THEN Number(v[j]) ELSE NONE
      BY <1>6, <3>1, <3>2
    <3>4. Exact(g, j)
      BY <1>9, <3>1, <3>3 DEF Exact
    <3> QED BY <3>1, <3>4 DEF j
  <2>2. k + 1 \in Nat
    BY ONLY k \in Nat
  <2> QED BY ONLY <2>1, <2>2 DEF S
<1> HIDE DEF S
<1>12. Nat \subseteq S
  BY <1>10, <1>11, Induction
<1> QED BY <1>1, <1>12 DEF S, g, v, n, cut

\* A number is read as it is written, whatever the width of a long, if it is in the range
\* of one, and no other is: the check for one digit too many, which _strtol makes before
\* each digit, comes neither too early nor too late at either end of the range.
THEOREM NumbersExact ==
  ASSUME NEW part \in Seq(valid_symbol_chars), part # <<>>, LooksLikeNumber(part)
  PROVE  _strtol(part) = IF Written(part) \in MinNumber .. MaxNumber
                         THEN Number(Written(part)) ELSE NONE
<1> DEFINE neg == part[1] = "-"
           digits == IF neg THEN Tail(part) ELSE part
           n == Len(digits)
           v == ValueOf(digits)[n]
           m == MagnitudeOf(digits, neg)[n]
<1>1. digits \in Seq(Digits)
  <2>1. /\ part[1] \in Digits \union {"-"} /\ Len(part) \in Nat /\ Len(part) >= 1
        /\ \A j \in 2 .. Len(part) : part[j] \in Digits
    BY DEF LooksLikeNumber
  <2>2. CASE neg
    <3>1. Tail(part) \in Seq(valid_symbol_chars) /\ Len(Tail(part)) = Len(part) - 1
      BY <2>1
    <3>2. \A j \in 1 .. Len(part) - 1 : Tail(part)[j] = part[j + 1] /\ j + 1 \in 2 .. Len(part)
      BY <2>1
    <3>3. \A j \in 1 .. Len(Tail(part)) : Tail(part)[j] \in Digits
      BY <2>1, <3>1, <3>2
    <3> DEFINE t == Tail(part)
    <3> HIDE DEF t
    <3>4. t \in Seq(valid_symbol_chars) /\ \A j \in 1 .. Len(t) : t[j] \in Digits
      BY <3>1, <3>3 DEF t
    <3>5. t \in Seq(Digits)
      BY <3>4
    <3>6. Tail(part) \in Seq(Digits)
      BY <3>5 DEF t
    <3> QED BY <2>2, <3>6
  <2>3. CASE ~neg
    <3>1. \A j \in 1 .. Len(part) : part[j] \in Digits
      BY <2>1, <2>3
    <3>2. part \in Seq(Digits)
      BY <3>1
    <3> QED BY <2>3, <3>2
  <2> QED BY <2>2, <2>3
<1>2. Decimal(digits) = v
  BY DEF Decimal, ValueOf, IsValue
<1>3. _strtol(part) = IF m = NONE \/ ~neg THEN m ELSE Number(-m.number)
  BY DEF _strtol, MagnitudeOf, IsMagnitude
<1>4. Written(part) = IF neg THEN -v ELSE v
  BY <1>2 DEF Written
<1> HIDE DEF digits
<1>5. n \in Nat /\ n \in 0 .. n
  BY <1>1
<1>6. v \in Nat
  BY <1>1, <1>5, ValueDef
<1>7. m = IF v <= Cut(neg) THEN Number(v) ELSE NONE
  BY <1>1, <1>5, MagnitudeDef
<1> HIDE DEF v, m, neg
<1>8. \A x : Number(x) # NONE /\ Number(x).number = x
  BY DEF Number, NONE
<1>9. Cut(neg) = (IF neg THEN -MinNumber ELSE MaxNumber)
  BY DEF Cut
<1>10. CASE neg
  <2>1. -v \in MinNumber .. MaxNumber <=> v <= -MinNumber
    BY ONLY <1>6, NumbersAssumption
  <2>2. v <= Cut(neg) <=> v <= -MinNumber
    BY <1>9, <1>10
  <2> QED BY <1>3, <1>4, <1>7, <1>8, <1>10, <2>1, <2>2
<1>11. CASE ~neg
  <2>1. v \in MinNumber .. MaxNumber <=> v <= MaxNumber
    BY ONLY <1>6, NumbersAssumption
  <2>2. v <= Cut(neg) <=> v <= MaxNumber
    BY <1>9, <1>11
  <2> QED BY <1>3, <1>4, <1>7, <1>8, <1>11, <2>1, <2>2
<1> QED BY <1>10, <1>11

----------------------------------------------------------------------------
(***************************************************************************)
(* What print writes of a string.                                          *)
(***************************************************************************)
\* P[k] is the first k sequences one behind the other.
Joined(P, seqs, V) ==
  /\ P \in [0 .. Len(seqs) -> Seq(V)]
  /\ P[0] = <<>>
  /\ \A k \in 1 .. Len(seqs) : P[k] = P[k - 1] \o seqs[k]
JoinedTo(seqs, V, s) == \E P : Joined(P, seqs, V) /\ s = P[Len(seqs)]

IsFlat(f, seqs) ==
  f = [k \in 1 .. Len(seqs) |-> IF k = 1 THEN seqs[k] ELSE f[k - 1] \o seqs[k]]
FlatOf(seqs) == CHOOSE f : IsFlat(f, seqs)

LEMMA Flattens ==
  ASSUME NEW V, NEW seqs \in Seq(Seq(V))
  PROVE  JoinedTo(seqs, V, FlattenSeq(seqs))
<1> DEFINE n == Len(seqs)
<1>1. n \in Nat /\ \A k \in 1 .. n : seqs[k] \in Seq(V)
  OBVIOUS
<1>2. CASE n = 0
  <2> DEFINE P == [k \in 0 .. n |-> <<>>]
  <2>1. FlattenSeq(seqs) = <<>>
    BY <1>2 DEF FlattenSeq
  <2>2. Joined(P, seqs, V)
    BY <1>2 DEF Joined
  <2>3. P[n] = <<>>
    BY <1>1
  <2> QED BY <2>1, <2>2, <2>3 DEF JoinedTo
<1>3. CASE n # 0
  <2> DEFINE I == 1 .. n
             rank == [k \in I |-> k]
             base == [k \in I |-> seqs[k]]
             next == [k \in I |-> IF k = 1 THEN 1 ELSE k - 1]
             step == [k \in I |-> [v \in Seq(V) |-> v \o seqs[k]]]
  <2>1. /\ rank \in [I -> 0 .. n] /\ base \in [I -> Seq(V)] /\ next \in [I -> I]
        /\ \A k \in I \ {1} : rank[next[k]] < rank[k]
    BY <1>1
  <2>2. step \in [I -> [Seq(V) -> Seq(V)]]
    BY <1>1
  <2>3. PICK f : IsRecursive(f, I, Seq(V), {1}, base, next, step)
    <3> HIDE DEF I, rank, base, next, step, n
    <3> QED BY <1>1, <2>1, <2>2, Recursion
  <2>4. f \in [I -> Seq(V)]
    BY <2>3 DEF IsRecursive
  <2>5. ASSUME NEW k \in I PROVE f[k] = IF k = 1 THEN seqs[k] ELSE f[k - 1] \o seqs[k]
    <3>1. f[k] = IF k \in {1} THEN base[k] ELSE step[k][f[next[k]]]
      BY <2>3 DEF IsRecursive
    <3>2. f[next[k]] \in Seq(V)
      BY <2>1, <2>4
    <3> QED BY <3>1, <3>2
  <2>6. IsFlat(f, seqs)
    BY <2>4, <2>5 DEF IsFlat
  <2>7. IsFlat(FlatOf(seqs), seqs)
    BY <2>6 DEF FlatOf
  <2> HIDE DEF I, rank, base, next, step
  <2> DEFINE g == FlatOf(seqs)
             P == [k \in 0 .. n |-> IF k = 0 THEN <<>> ELSE g[k]]
             S == {k \in Nat : k \in 1 .. n => g[k] \in Seq(V)}
  <2>8. \A k \in 1 .. n : g[k] = IF k = 1 THEN seqs[k] ELSE g[k - 1] \o seqs[k]
    BY <2>7 DEF IsFlat
  <2>9. FlattenSeq(seqs) = g[n]
    BY <1>3 DEF FlattenSeq, FlatOf, IsFlat
  <2> HIDE DEF g
  <2>10. 0 \in S
    OBVIOUS
  <2>11. ASSUME NEW k \in Nat, k \in S PROVE k + 1 \in S
    <3>1. CASE k + 1 \in 1 .. n /\ k # 0
      <4>1. k \in 1 .. n /\ k + 1 # 1 /\ k + 1 - 1 = k
        BY <1>1, <3>1
      <4>2. g[k + 1] = g[k] \o seqs[k + 1]
        <5> DEFINE j == k + 1
        <5>1. j \in 1 .. n /\ j # 1 /\ j - 1 = k
          BY <3>1, <4>1
        <5> HIDE DEF j
        <5>2. g[j] = g[k] \o seqs[j]
          BY ONLY <2>8, <5>1
        <5> QED BY <5>2 DEF j
      <4>3. g[k] \in Seq(V) /\ seqs[k + 1] \in Seq(V)
        BY <1>1, <2>11, <3>1, <4>1
      <4>4. g[k + 1] \in Seq(V)
        BY ONLY <4>2, <4>3
      <4> QED BY <4>4
    <3>2. CASE k + 1 \in 1 .. n /\ k = 0
      <4>1. g[k + 1] = seqs[k + 1]
        BY <2>8, <3>2
      <4> QED BY <1>1, <3>2, <4>1
    <3> QED BY <3>1, <3>2
  <2> HIDE DEF S
  <2>12. Nat \subseteq S
    BY <2>10, <2>11, Induction
  <2>13. \A k \in 1 .. n : g[k] \in Seq(V)
    BY <2>12 DEF S
  <2>14. ASSUME NEW k \in 1 .. n PROVE P[k] = P[k - 1] \o seqs[k]
    <3>1. CASE k = 1
      <4>1. P[1] = g[1] /\ P[0] = <<>>
        BY <1>1, <1>3
      <4>2. g[1] = seqs[1] /\ seqs[1] \in Seq(V)
        BY <1>1, <2>8, <3>1
      <4> HIDE DEF P
      <4>3. P[1] = P[0] \o seqs[1]
        BY ONLY <4>1, <4>2
      <4> QED BY <3>1, <4>3
    <3>2. CASE k # 1
      <4>1. P[k] = g[k] /\ P[k - 1] = g[k - 1]
        BY <1>1, <3>2
      <4> QED BY <2>8, <3>2, <4>1
    <3> QED BY <3>1, <3>2
  <2>15. P \in [0 .. n -> Seq(V)] /\ P[0] = <<>> /\ P[n] = g[n]
    BY <1>1, <1>3, <2>13
  <2> HIDE DEF P
  <2>16. Joined(P, seqs, V)
    BY <2>14, <2>15 DEF Joined
  <2> QED BY <2>9, <2>15, <2>16 DEF JoinedTo
<1> QED BY <1>2, <1>3

\* Where the elements of the sequences are in all of them joined.
Places(P, seqs) ==
  /\ \A k \in 0 .. Len(seqs) : Len(P[k]) \in Nat
  /\ \A k \in 1 .. Len(seqs) :
       /\ Len(P[k]) = Len(P[k - 1]) + Len(seqs[k])
       /\ Len(P[k]) <= Len(P[Len(seqs)])
       /\ \A j \in 1 .. Len(seqs[k]) : P[Len(seqs)][Len(P[k - 1]) + j] = seqs[k][j]

LEMMA JoinedPlaces ==
  ASSUME NEW V, NEW seqs \in Seq(Seq(V)), NEW P, Joined(P, seqs, V)
  PROVE  Places(P, seqs)
<1> DEFINE n == Len(seqs)
           at(k) == Len(P[k])
           width(k) == Len(seqs[k])
           Placed(k, m) == /\ at(k) <= at(m)
                           /\ \A j \in 1 .. width(k) : P[m][at(k - 1) + j] = seqs[k][j]
           S == {m \in Nat : m <= n => \A k \in 1 .. m : Placed(k, m)}
<1>1. n \in Nat /\ \A k \in 1 .. n : seqs[k] \in Seq(V)
  OBVIOUS
<1>2. /\ \A k \in 0 .. n : P[k] \in Seq(V)
      /\ \A k \in 1 .. n : P[k] = P[k - 1] \o seqs[k]
  BY DEF Joined
<1>3. \A k \in 0 .. n : at(k) \in Nat
  BY <1>2
<1>4. \A k \in 1 .. n : width(k) \in Nat
  BY <1>1
<1>5. \A a, b \in Seq(V) : /\ Len(a \o b) = Len(a) + Len(b)
                           /\ \A x \in 1 .. Len(a) : (a \o b)[x] = a[x]
                           /\ \A j \in 1 .. Len(b) : (a \o b)[Len(a) + j] = b[j]
  OBVIOUS
<1>6. ASSUME NEW k \in 1 .. n
      PROVE  /\ at(k) = at(k - 1) + width(k)
             /\ \A x \in 1 .. at(k - 1) : P[k][x] = P[k - 1][x]
             /\ \A j \in 1 .. width(k) : P[k][at(k - 1) + j] = seqs[k][j]
  <2>1. k - 1 \in 0 .. n
    BY ONLY <1>1, k \in 1 .. n
  <2>2. P[k - 1] \in Seq(V) /\ seqs[k] \in Seq(V)
    BY <1>1, <1>2, <2>1
  <2>3. P[k] = P[k - 1] \o seqs[k]
    BY ONLY <1>2, k \in 1 .. n
  <2> DEFINE a == P[k - 1]
             b == seqs[k]
             c == P[k]
  <2> HIDE DEF a, b, c
  <2>4. c = a \o b /\ a \in Seq(V) /\ b \in Seq(V)
    BY <2>2, <2>3 DEF a, b, c
  <2>5. /\ Len(c) = Len(a) + Len(b)
        /\ \A x \in 1 .. Len(a) : c[x] = a[x]
        /\ \A j \in 1 .. Len(b) : c[Len(a) + j] = b[j]
    BY ONLY <1>5, <2>4
  <2> QED BY <2>5 DEF a, b, c
<1> HIDE DEF n, at, width
<1>7. 0 \in S
  OBVIOUS
<1>8. ASSUME NEW m \in Nat, m \in S, m + 1 <= n, NEW k \in 1 .. m + 1 PROVE Placed(k, m + 1)
  <2> DEFINE q == m + 1
  <2>1. /\ q \in 1 .. n /\ q - 1 = m /\ m \in 0 .. n /\ q \in 0 .. n /\ m <= n
        /\ k \in 1 .. n /\ k - 1 \in 0 .. n /\ k \in 0 .. n
    BY ONLY <1>1, <1>8, m \in Nat
  <2>2. k \in 1 .. m \/ k = q
    BY ONLY k \in 1 .. m + 1, m \in Nat
  <2> HIDE DEF q
  <2>3. /\ at(q) = at(m) + width(q)
        /\ \A x \in 1 .. at(m) : P[q][x] = P[m][x]
        /\ \A j \in 1 .. width(q) : P[q][at(m) + j] = seqs[q][j]
    BY ONLY <1>6, <2>1
  <2>4. at(m) \in Nat /\ at(q) \in Nat /\ width(q) \in Nat /\ at(k) \in Nat /\ at(k - 1) \in Nat
        /\ width(k) \in Nat /\ at(k) = at(k - 1) + width(k)
    BY ONLY <1>3, <1>4, <1>6, <2>1
  <2>5. CASE k \in 1 .. m
    <3>1. Placed(k, m)
      BY <1>8, <2>1, <2>5
    <3>2. at(k) <= at(q)
      BY ONLY <2>3, <2>4, <3>1
    <3>3. ASSUME NEW j \in 1 .. width(k) PROVE P[q][at(k - 1) + j] = seqs[k][j]
      <4>1. at(k - 1) + j \in 1 .. at(m)
        BY ONLY <2>4, <3>1, j \in 1 .. width(k)
      <4> QED BY ONLY <2>3, <3>1, <4>1, j \in 1 .. width(k)
    <3> QED BY <3>2, <3>3 DEF q
  <2>6. CASE k = q
    <3>1. Placed(q, q)
      BY ONLY <2>1, <2>3, <2>4
    <3> QED BY <2>6, <3>1 DEF q
  <2> QED BY <2>2, <2>5, <2>6
<1> HIDE DEF Placed
<1>9. ASSUME NEW m \in Nat, m \in S PROVE m + 1 \in S
  BY <1>8, <1>9
<1> HIDE DEF S
<1>10. Nat \subseteq S
  BY <1>7, <1>9, Induction
<1>11. \A k \in 1 .. n : Placed(k, n)
  BY <1>1, <1>10 DEF S
<1>12. \A k \in 1 .. n : /\ at(k) <= at(n)
                          /\ \A j \in 1 .. width(k) : P[n][at(k - 1) + j] = seqs[k][j]
  BY <1>11 DEF Placed
<1>13. \A k \in 1 .. n : at(k) = at(k - 1) + width(k)
  BY <1>6
<1> QED BY <1>3, <1>12, <1>13 DEF Places, n, at, width

\* What is left of a sequence.
LEMMA Rest ==
  ASSUME NEW V, NEW s \in Seq(V)
  PROVE  /\ SubSeq(s, Len(s) + 1, Len(s)) = <<>>
         /\ SubSeq(s, 1, Len(s)) = s
         /\ \A k \in 1 .. Len(s) : <<s[k]>> \o SubSeq(s, k + 1, Len(s)) = SubSeq(s, k, Len(s))
<1>1. SubSeq(s, Len(s) + 1, Len(s)) = <<>>
  OBVIOUS
<1>2. SubSeq(s, 1, Len(s)) = s
  OBVIOUS
<1>3. ASSUME NEW k \in 1 .. Len(s)
      PROVE <<s[k]>> \o SubSeq(s, k + 1, Len(s)) = SubSeq(s, k, Len(s))
  OBVIOUS
<1> QED BY <1>1, <1>2, <1>3

\* A character as print escapes it is one character that reads as it is, or an escape
\* that reads as the character.
LEMMA EscapeReads ==
  ASSUME NEW c, c # NUL
  PROVE  \/ /\ Escaped(c) = <<c>>
            /\ c \notin {"dquote", "backslash", NUL}
         \/ \E e \in DOMAIN Unescape :
              Escaped(c) = <<"backslash", e>> /\ Unescape[e] = c /\ e # NUL
<1>1. CASE c = "newline"
  <2>1. "n" \in DOMAIN Unescape /\ Unescape["n"] = "newline" /\ "n" # NUL
    BY DEF Unescape, NUL
  <2> QED BY <1>1, <2>1 DEF Escaped
<1>2. CASE c \in {"'", "dquote", "backslash"}
  <2>1. c \in DOMAIN Unescape /\ Unescape[c] = c /\ c # "newline"
    BY <1>2 DEF Unescape
  <2>2. Escaped(c) = <<"backslash", c>>
    BY <1>2, <2>1 DEF Escaped
  <2> QED BY <2>1, <2>2
<1>3. CASE c \notin {"newline", "'", "dquote", "backslash"}
  BY <1>3 DEF Escaped
<1> QED BY <1>1, <1>2, <1>3

\* The characters of a string, each as print escapes it.
EscapedSeqs(str) == [k \in DOMAIN str |-> Escaped(str[k])]

\* The characters s are in memory from i on.
Holds(i, s) == \A j \in 1 .. Len(s) : Char(i + j - 1) = s[j]

\* Any string that print has written, with its quotes, newlines and backslashes escaped,
\* lval_read_str reads as the same string, up to the quote that ends it, wherever it is in
\* memory and whatever is around it: the tables of the two files agree.
THEOREM StringsReadBack ==
  ASSUME TextOK, NEW str, str \in Seq(ToSet(str) \ {NUL}), NEW i \in Positions,
         Holds(i, mpcf_escape(str)), Char(i + Len(mpcf_escape(str))) = "dquote"
  PROVE  StringFrom[i] = [lval |-> Atom("string", str), pos |-> i + Len(mpcf_escape(str)) + 1]
<1> DEFINE n == Len(str)
           E == mpcf_escape(str)
           seqs == EscapedSeqs(str)
           V == ToSet(str) \union {"backslash"} \union DOMAIN Unescape
           M == Len(Memory)
<1>1. n \in Nat /\ DOMAIN str = 1 .. n /\ \A k \in 1 .. n : str[k] # NUL /\ str[k] \in ToSet(str)
  <2>1. \A k \in 1 .. n : str[k] \in ToSet(str) \ {NUL}
    OBVIOUS
  <2> QED BY <2>1
<1>2. ASSUME NEW k \in 1 .. n PROVE Escaped(str[k]) \in Seq(V)
  <2>1. str[k] # NUL /\ str[k] \in V
    BY <1>1
  <2>2. CASE Escaped(str[k]) = <<str[k]>>
    BY <2>1, <2>2
  <2>3. CASE \E e \in DOMAIN Unescape : Escaped(str[k]) = <<"backslash", e>>
    <3> HIDE DEF V
    <3>1. PICK e \in DOMAIN Unescape : Escaped(str[k]) = <<"backslash", e>>
      BY <2>3
    <3>2. e \in V /\ "backslash" \in V
      BY DEF V
    <3> QED BY <3>1, <3>2
  <2> QED BY <2>1, <2>2, <2>3, EscapeReads
<1>3. seqs \in Seq(Seq(V)) /\ Len(seqs) = n /\ \A k \in 1 .. n : seqs[k] = Escaped(str[k])
  <2>1. seqs = [k \in 1 .. n |-> Escaped(str[k])]
    BY <1>1 DEF EscapedSeqs
  <2> HIDE DEF seqs, V
  <2>2. seqs \in [1 .. n -> Seq(V)]
    BY <1>2, <2>1
  <2>3. seqs \in Seq(Seq(V)) /\ Len(seqs) = n
    BY <1>1, <2>2
  <2> QED BY <2>1, <2>3
<1>4. E = FlattenSeq(seqs)
  BY DEF mpcf_escape, EscapedSeqs
<1> HIDE DEF V, seqs
<1>5. PICK P : Joined(P, seqs, V) /\ E = P[n]
  BY <1>3, <1>4, Flattens DEF JoinedTo
<1>places. Places(P, seqs)
  BY <1>3, <1>5, JoinedPlaces
<1> DEFINE at(k) == Len(P[k])
           width(k) == Len(Escaped(str[k]))
<1>6. \A k \in 0 .. n : at(k) \in Nat
  BY <1>3, <1>places DEF Places
<1>7. ASSUME NEW k \in 1 .. n
      PROVE  /\ at(k) = at(k - 1) + width(k) /\ at(k) <= at(n)
             /\ \A j \in 1 .. width(k) : E[at(k - 1) + j] = Escaped(str[k])[j]
  <2>1. seqs[k] = Escaped(str[k]) /\ Len(seqs) = n /\ E = P[n]
    BY <1>3, <1>5
  <2>2. /\ at(k) = at(k - 1) + Len(seqs[k]) /\ at(k) <= at(Len(seqs))
        /\ \A j \in 1 .. Len(seqs[k]) : P[Len(seqs)][at(k - 1) + j] = seqs[k][j]
    <3>1. k \in 1 .. Len(seqs)
      BY <2>1
    <3> QED BY <1>places, <3>1 DEF Places
  <2> HIDE DEF at
  <2> QED BY <2>1, <2>2
<1>8. at(0) = 0 /\ at(n) = Len(E)
  BY <1>5 DEF Joined
<1>9. M \in Nat /\ Positions = 1 .. M + 2 /\ \A p \in Int : Char(p) # NUL => p <= M
  BY Characters
<1> HIDE DEF n, E, M, at, width
<1>10. \A j \in 1 .. at(n) : Char(i + j - 1) = E[j]
  BY <1>8 DEF Holds, E
<1>11. Char(i + at(n)) = "dquote"
  BY <1>8 DEF E
<1>12. i \in Int /\ i >= 1
  BY ONLY <1>9, i \in Positions
\* What is in memory for each character of the string.
<1>13. ASSUME NEW k \in 1 .. n
       PROVE  /\ at(k - 1) \in Nat /\ width(k) \in Nat
              /\ \A j \in 1 .. width(k) : Char(i + at(k - 1) + j - 1) = Escaped(str[k])[j]
  <2>1. k - 1 \in 0 .. n /\ k \in 0 .. n /\ n \in 0 .. n
    BY ONLY <1>1, k \in 1 .. n
  <2>2. at(k - 1) \in Nat /\ at(n) \in Nat /\ width(k) \in Nat
    BY <1>2, <1>6, <2>1 DEF width
  <2>3. ASSUME NEW j \in 1 .. width(k)
        PROVE  Char(i + at(k - 1) + j - 1) = Escaped(str[k])[j]
    <3> DEFINE q == at(k - 1) + j
    <3>1. q \in 1 .. at(n)
      BY ONLY <1>7, <2>2, j \in 1 .. width(k), k \in 1 .. n
    <3>2. i + at(k - 1) + j - 1 = i + q - 1
      BY ONLY <1>12, <2>2, j \in 1 .. width(k)
    <3>3. E[q] = Escaped(str[k])[j]
      BY <1>7
    <3> HIDE DEF q
    <3>4. Char(i + q - 1) = E[q]
      BY ONLY <1>10, <3>1
    <3> QED BY ONLY <3>2, <3>3, <3>4
  <2> QED BY <2>2, <2>3
\* The string is read from its last character to its first.
<1> DEFINE Whole(k) == [lval |-> Atom("string", SubSeq(str, k, n)), pos |-> i + at(n) + 1]
           S == {k \in 1 .. n + 1 : StringFrom[i + at(k - 1)] = Whole(k)}
<1>14. ASSUME NEW k \in 1 .. n PROVE Prefixed(str[k], Whole(k + 1)) = Whole(k)
  <2>1. <<str[k]>> \o SubSeq(str, k + 1, n) = SubSeq(str, k, n)
    BY Rest DEF n
  <2> QED BY <2>1 DEF Prefixed, Atom, Error
<1>15. ASSUME NEW p \in Int, p >= 1, Char(p) # NUL PROVE p \in Positions
  <2>1. p <= M
    BY ONLY <1>9, <1>15
  <2> QED BY ONLY <1>9, <1>15, <2>1
<1> HIDE DEF Whole
<1>16. StringFrom[i + at(n)] = Whole(n + 1)
  <2> DEFINE p == i + at(n)
  <2>1. at(n) \in Nat
    BY <1>1, <1>6
  <2>2. p \in Int /\ p >= 1
    BY ONLY <1>12, <2>1
  <2> HIDE DEF p
  <2>3. Char(p) = "dquote"
    BY <1>11 DEF p
  <2>4. p \in Positions
    BY <1>15, <2>2, <2>3 DEF NUL
  <2>5. ~Plain(p) /\ ~Escape(p)
    BY <2>3 DEF Plain, Escape
  <2>6. StringFrom[p] = StringEnd(p)
    BY <2>4, <2>5, StringDef
  <2>7. SubSeq(str, n + 1, n) = <<>>
    BY Rest DEF n
  <2> QED BY <2>3, <2>6, <2>7 DEF StringEnd, Whole, p
<1>17. ASSUME NEW k \in 1 .. n, StringFrom[i + at(k)] = Whole(k + 1)
       PROVE  StringFrom[i + at(k - 1)] = Whole(k)
  <2> DEFINE p == i + at(k - 1)
             c == str[k]
  <2>1. at(k - 1) \in Nat /\ width(k) \in Nat /\ at(k) = at(k - 1) + width(k)
    BY <1>7, <1>13
  <2>2. p \in Int /\ p >= 1 /\ i + at(k) = p + width(k)
    BY ONLY <1>12, <2>1
  <2>3. \A j \in 1 .. width(k) : Char(p + j - 1) = Escaped(c)[j]
    BY <1>13
  <2>4. c # NUL
    BY <1>1
  <2>5. width(k) = Len(Escaped(c))
    BY DEF width
  <2> HIDE DEF p, c
  <2>6. CASE Escaped(c) = <<c>> /\ c \notin {"dquote", "backslash", NUL}
    <3>1. width(k) = 1 /\ Escaped(c)[1] = c
      BY <2>5, <2>6
    <3>2. p + 1 - 1 = p
      BY ONLY <2>2
    <3>3. Char(p) = c
      BY <2>3, <3>1, <3>2
    <3>4. p \in Positions
      BY <1>15, <2>2, <2>4, <3>3
    <3>5. Plain(p)
      BY <2>6, <3>3 DEF Plain
    <3>6. StringFrom[p] = Prefixed(c, StringFrom[p + 1])
      BY <3>3, <3>4, <3>5, StringDef DEF WithChar, StringNext
    <3>7. StringFrom[p + 1] = Whole(k + 1)
      BY <1>17, <2>2, <3>1
    <3> QED BY <1>14, <3>6, <3>7 DEF c, p
  <2>7. CASE \E e \in DOMAIN Unescape :
               Escaped(c) = <<"backslash", e>> /\ Unescape[e] = c /\ e # NUL
    <3>1. PICK e \in DOMAIN Unescape :
                 Escaped(c) = <<"backslash", e>> /\ Unescape[e] = c /\ e # NUL
      BY <2>7
    <3>2. width(k) = 2 /\ Escaped(c)[1] = "backslash" /\ Escaped(c)[2] = e
      BY <2>5, <3>1
    <3>3. p + 1 - 1 = p /\ p + 2 - 1 = p + 1
      BY ONLY <2>2
    <3>4. Char(p) = "backslash" /\ Char(p + 1) = e
      BY <2>3, <3>2, <3>3
    <3>5. p \in Positions
      BY <1>15, <2>2, <3>4 DEF NUL
    <3>6. ~Plain(p) /\ Escape(p)
      BY <3>1, <3>4 DEF Plain, Escape
    <3>7. StringFrom[p] = Prefixed(c, StringFrom[p + 2])
      BY <3>1, <3>4, <3>5, <3>6, StringDef DEF WithChar, StringNext
    <3>8. StringFrom[p + 2] = Whole(k + 1)
      BY <1>17, <2>2, <3>2
    <3> QED BY <1>14, <3>7, <3>8 DEF c, p
  <2> QED BY <2>4, <2>6, <2>7, EscapeReads
<1>18. ASSUME NEW k \in 1 .. n + 1, \A j \in k + 1 .. n + 1 : j \in S PROVE k \in S
  <2>1. CASE k = n + 1
    <3>1. k - 1 = n
      BY ONLY <1>1, <2>1
    <3> QED BY <1>16, <2>1, <3>1
  <2>2. CASE k # n + 1
    <3> DEFINE q == k + 1
    <3>1. k \in 1 .. n /\ q \in k + 1 .. n + 1 /\ q - 1 = k
      BY ONLY <1>1, <2>2, k \in 1 .. n + 1
    <3> HIDE DEF q
    <3>2. StringFrom[i + at(k)] = Whole(q)
      BY <1>18, <3>1
    <3> QED BY <1>17, <3>1, <3>2 DEF q
  <2> QED BY <2>1, <2>2
<1> HIDE DEF S
<1>19. n + 1 \in Nat /\ 1 \in 1 .. n + 1
  BY ONLY <1>1
<1>20. 1 .. n + 1 \subseteq S
  BY <1>18, <1>19, DownwardInduction
<1>21. StringFrom[i + at(1 - 1)] = Whole(1)
  BY <1>19, <1>20 DEF S
<1>22. i + at(1 - 1) = i
  BY <1>8, <1>12
<1>23. SubSeq(str, 1, n) = str
  BY Rest DEF n
<1> QED BY <1>8, <1>21, <1>22, <1>23 DEF Whole, E

\* A digit behind the others.
LEMMA OneDigitMore ==
  ASSUME NEW s \in Seq(Digits), NEW c \in Digits
  PROVE  ValueOf(Append(s, c))[Len(s) + 1] = ValueOf(s)[Len(s)] * 10 + Digit[c]
<1> DEFINE n == Len(s)
           t == Append(s, c)
           f == ValueOf(s)
           g == ValueOf(t)
           S == {k \in Nat : k <= n => g[k] = f[k]}
<1>1. n \in Nat /\ t \in Seq(Digits) /\ Len(t) = n + 1
  OBVIOUS
<1>2. \A k \in 1 .. n : t[k] = s[k]
  OBVIOUS
<1>3. t[n + 1] = c
  OBVIOUS
<1>4. f = [k \in 0 .. n |-> IF k = 0 THEN 0 ELSE f[k - 1] * 10 + Digit[s[k]]]
  BY ValueDef DEF IsValue
<1> HIDE DEF t
<1>5. g = [k \in 0 .. n + 1 |-> IF k = 0 THEN 0 ELSE g[k - 1] * 10 + Digit[t[k]]]
  BY <1>1, ValueDef DEF IsValue
<1> HIDE DEF n, f, g
<1>6. 0 \in S
  BY <1>1, <1>4, <1>5
<1>7. ASSUME NEW k \in Nat, k \in S PROVE k + 1 \in S
  <2>1. CASE k + 1 <= n
    <3> DEFINE j == k + 1
    <3>1. j \in 1 .. n /\ j \in 0 .. n /\ j \in 0 .. n + 1 /\ j # 0 /\ j - 1 = k /\ k <= n
      BY ONLY <1>1, <2>1, k \in Nat
    <3> HIDE DEF j
    <3>2. g[k] = f[k] /\ t[j] = s[j]
      BY <1>2, <1>7, <3>1
    <3>3. f[j] = f[k] * 10 + Digit[s[j]]
      BY <1>4, <3>1
    <3>4. g[j] = g[k] * 10 + Digit[t[j]]
      BY <1>5, <3>1
    <3>5. g[j] = f[j]
      BY ONLY <3>2, <3>3, <3>4
    <3> QED BY <3>5 DEF j
  <2> QED BY <2>1
<1> HIDE DEF S
<1>8. Nat \subseteq S
  BY <1>6, <1>7, Induction
<1>9. g[n] = f[n]
  BY <1>1, <1>8 DEF S
<1>10. n \in Nat
  BY <1>1
<1>11. g[n + 1] = g[n] * 10 + Digit[t[n + 1]]
  <2> DEFINE j == n + 1
  <2>1. j \in 0 .. n + 1 /\ j # 0 /\ j - 1 = n
    BY ONLY <1>10
  <2> HIDE DEF j
  <2>2. g[j] = g[n] * 10 + Digit[t[j]]
    BY <1>5, <2>1
  <2> QED BY <2>2 DEF j
<1> QED BY <1>3, <1>9, <1>11 DEF n, f, g, t

\* The digits of a number, and of all that are less.
IsDigits(f, m) ==
  f = [n \in 0 .. m |-> IF n < 10 THEN <<DigitChars[n + 1]>>
                        ELSE Append(f[n \div 10], DigitChars[(n % 10) + 1])]
DigitsUpTo(m) == CHOOSE f : IsDigits(f, m)

LEMMA DigitsDef ==
  ASSUME NEW m \in Nat
  PROVE  IsDigits(DigitsUpTo(m), m)
<1> DEFINE I == 0 .. m
           V == Seq(Digits)
           Stops == {n \in I : n < 10}
           rank == [n \in I |-> n]
           base == [n \in I |-> IF n < 10 THEN <<DigitChars[n + 1]>> ELSE <<>>]
           next == [n \in I |-> n \div 10]
           step == [n \in I |-> [v \in V |-> Append(v, DigitChars[(n % 10) + 1])]]
<1>1. \A n \in I : n < 10 => DigitChars[n + 1] \in Digits
  BY DigitsOK
<1>2. \A n \in I : n % 10 \in 0 .. 9 /\ n \div 10 \in I
  OBVIOUS
<1>3. \A n \in I : DigitChars[(n % 10) + 1] \in Digits
  BY <1>2, DigitsOK
<1>4. rank \in [I -> 0 .. m] /\ base \in [I -> V]
  BY <1>1
<1>5. next \in [I -> I] /\ step \in [I -> [V -> V]]
  BY <1>2, <1>3
<1>6. \A n \in I \ Stops : rank[next[n]] < rank[n]
  <2>1. \A n \in I \ Stops : n \div 10 < n /\ n \div 10 \in I
    OBVIOUS
  <2> QED BY <2>1
<1>7. PICK f : IsRecursive(f, I, V, Stops, base, next, step)
  <2> HIDE DEF I, V, Stops, rank, base, next, step
  <2> QED BY <1>4, <1>5, <1>6, Recursion
<1>8. f \in [I -> V]
  BY <1>7 DEF IsRecursive
<1>9. ASSUME NEW n \in I
      PROVE  f[n] = IF n < 10 THEN <<DigitChars[n + 1]>>
                    ELSE Append(f[n \div 10], DigitChars[(n % 10) + 1])
  <2>1. f[n] = IF n \in Stops THEN base[n] ELSE step[n][f[next[n]]]
    BY <1>7 DEF IsRecursive
  <2>2. f[n \div 10] \in V
    BY <1>2, <1>8
  <2> QED BY <2>1, <2>2
<1>10. IsDigits(f, m)
  BY <1>8, <1>9 DEF IsDigits
<1> QED BY <1>10 DEF DigitsUpTo

\* They are digits, and the number they write is the number.
LEMMA DigitsRead ==
  ASSUME NEW m \in Nat
  PROVE  \A n \in 0 .. m : /\ DigitsUpTo(m)[n] \in Seq(Digits)
                           /\ DigitsUpTo(m)[n] # <<>>
                           /\ Decimal(DigitsUpTo(m)[n]) = n
<1> DEFINE g == DigitsUpTo(m)
           Reads(n) == g[n] \in Seq(Digits) /\ g[n] # <<>> /\ Decimal(g[n]) = n
           S == {k \in Nat : \A n \in 0 .. m : n < k => Reads(n)}
<1>1. \A s : Decimal(s) = ValueOf(s)[Len(s)]
  BY DEF Decimal, ValueOf, IsValue
<1>2. \A n \in 0 .. m : g[n] = IF n < 10 THEN <<DigitChars[n + 1]>>
                                ELSE Append(g[n \div 10], DigitChars[(n % 10) + 1])
  BY DigitsDef DEF IsDigits
<1> HIDE DEF g
<1>3. ASSUME NEW n \in 0 .. m, n < 10 PROVE Reads(n)
  <2> DEFINE c == DigitChars[n + 1]
  <2>1. c \in Digits /\ Digit[c] = n
    BY <1>3, DigitsOK
  <2>2. g[n] = <<c>>
    BY <1>2, <1>3
  <2> HIDE DEF c
  <2>3. <<>> \in Seq(Digits) /\ Len(<<>>) = 0 /\ Append(<<>>, c) = <<c>> /\ Len(<<c>>) = 1
        /\ <<c>> \in Seq(Digits) /\ <<c>> # <<>>
    BY <2>1
  <2>4. ValueOf(<<c>>)[1] = ValueOf(<<>>)[0] * 10 + Digit[c]
    <3>1. ValueOf(Append(<<>>, c))[Len(<<>>) + 1] = ValueOf(<<>>)[Len(<<>>)] * 10 + Digit[c]
      BY <2>1, <2>3, OneDigitMore
    <3> QED BY <2>3, <3>1
  <2>5. ValueOf(<<>>)[0] = 0
    <3> DEFINE f == ValueOf(<<>>)
    <3>1. IsValue(f, <<>>)
      BY <2>3, ValueDef
    <3> HIDE DEF f
    <3>2. f = [k \in 0 .. 0 |-> IF k = 0 THEN 0 ELSE f[k - 1] * 10 + Digit[<<>>[k]]]
      BY <2>3, <3>1 DEF IsValue
    <3>3. 0 \in 0 .. 0
      OBVIOUS
    <3>4. f[0] = 0
      BY ONLY <3>2, <3>3
    <3> QED BY <3>4 DEF f
  <2>6. Decimal(<<c>>) = n
    <3>1. Decimal(<<c>>) = ValueOf(<<c>>)[1]
      BY <1>1, <2>3
    <3> QED BY <2>1, <2>4, <2>5, <3>1
  <2> QED BY <2>2, <2>3, <2>6
<1>4. ASSUME NEW n \in 0 .. m, ~(n < 10), Reads(n \div 10) PROVE Reads(n)
  <2> DEFINE c == DigitChars[(n % 10) + 1]
             s == g[n \div 10]
  <2>1. n % 10 \in 0 .. 9 /\ n = (n \div 10) * 10 + (n % 10)
    <3>1. n \in Nat
      OBVIOUS
    <3> QED BY ONLY <3>1
  <2>2. c \in Digits /\ Digit[c] = n % 10
    BY <2>1, DigitsOK
  <2>3. g[n] = Append(s, c)
    BY <1>2, <1>4
  <2>4. s \in Seq(Digits) /\ Decimal(s) = n \div 10
    BY <1>4
  <2> HIDE DEF c, s
  <2>5. Append(s, c) \in Seq(Digits) /\ Append(s, c) # <<>> /\ Len(Append(s, c)) = Len(s) + 1
    BY <2>2, <2>4
  <2>6. Decimal(Append(s, c)) = Decimal(s) * 10 + Digit[c]
    BY <1>1, <2>2, <2>4, <2>5, OneDigitMore
  <2>7. Decimal(Append(s, c)) = n
    BY <2>1, <2>2, <2>4, <2>6
  <2> QED BY <2>3, <2>5, <2>7
<1> HIDE DEF Reads
<1>5. 0 \in S
  OBVIOUS
<1>6. ASSUME NEW k \in Nat, k \in S PROVE k + 1 \in S
  <2>1. ASSUME NEW n \in 0 .. m, n < k + 1 PROVE Reads(n)
    <3>1. CASE n < 10
      BY <1>3, <3>1
    <3>2. CASE ~(n < 10)
      <4>1. n \div 10 \in 0 .. m /\ n \div 10 < k
        <5>1. n \div 10 \in Nat /\ n \div 10 < n
          BY <3>2
        <5> QED BY <2>1, <5>1
      <4>2. Reads(n \div 10)
        BY <1>6, <4>1
      <4> QED BY <1>4, <3>2, <4>2
    <3> QED BY <3>1, <3>2
  <2> QED BY <2>1
<1> HIDE DEF S
<1>7. m + 1 \in S
  BY <1>5, <1>6, Induction
<1>8. \A n \in 0 .. m : n < m + 1
  OBVIOUS
<1> QED BY <1>7, <1>8 DEF S, Reads, g

\* Every number that a long may hold, the least one included, is read as the number that
\* print has written.
THEOREM NumbersReadBack ==
  ASSUME NEW n \in MinNumber .. MaxNumber
  PROVE  LooksLikeNumber(_ntoa_long(n)) /\ _strtol(_ntoa_long(n)) = Number(n)
<1> DEFINE part == _ntoa_long(n)
           m == Magnitude(n)
           w == DigitsUpTo(m)[m]
<1>1. n \in Int /\ m \in Nat /\ (n < 0 => n = -m) /\ (~(n < 0) => n = m)
  BY NumbersAssumption DEF Magnitude
<1>2. part = IF n < 0 THEN <<"-">> \o w ELSE w
  BY DEF _ntoa_long, DigitsUpTo, IsDigits
<1> HIDE DEF part, m
<1>3. w \in Seq(Digits) /\ w # <<>> /\ Decimal(w) = m
  <2>1. m \in 0 .. m
    BY ONLY <1>1
  <2> QED BY <1>1, <2>1, DigitsRead
<1> HIDE DEF w
<1>4. Len(w) \in Nat /\ Len(w) >= 1 /\ \A j \in 1 .. Len(w) : w[j] \in Digits
  BY <1>3
<1>5. "-" \in valid_symbol_chars /\ \A c \in Digits : c \in valid_symbol_chars /\ c # "-"
  BY SymbolChars DEF valid_symbol_chars
<1>6. CASE n < 0
  <2>1. part = <<"-">> \o w
    BY <1>2, <1>6
  <2>2. Len(part) = Len(w) + 1 /\ part[1] = "-" /\ Tail(part) = w
        /\ \A j \in 2 .. Len(part) : part[j] = w[j - 1] /\ j - 1 \in 1 .. Len(w)
    BY <1>3, <1>4, <2>1
  <2>3. part # <<"-">> /\ part # <<>>
    BY <1>4, <2>2
  <2>4. LooksLikeNumber(part)
    BY <1>4, <2>2, <2>3 DEF LooksLikeNumber
  <2>5. part \in Seq(valid_symbol_chars)
    <3>1. w \in Seq(valid_symbol_chars) /\ <<"-">> \in Seq(valid_symbol_chars)
      BY <1>3, <1>5
    <3> QED BY <2>1, <3>1
  <2>6. Written(part) = n
    BY <1>1, <1>3, <1>6, <2>2 DEF Written
  <2>7. _strtol(part) = Number(n)
    BY <2>3, <2>4, <2>5, <2>6, NumbersExact
  <2> QED BY <2>4, <2>7 DEF part
<1>7. CASE ~(n < 0)
  <2>1. part = w
    BY <1>2, <1>7
  <2>2. part[1] \in Digits /\ part[1] # "-"
    BY <1>4, <1>5, <2>1
  <2>3. part # <<"-">> /\ part # <<>>
    BY <1>3, <2>1, <2>2
  <2>4. LooksLikeNumber(part)
    BY <1>4, <2>1, <2>2, <2>3 DEF LooksLikeNumber
  <2>5. part \in Seq(valid_symbol_chars)
    BY <1>3, <1>5, <2>1
  <2>6. Written(part) = n
    BY <1>1, <1>3, <1>7, <2>1, <2>2 DEF Written
  <2>7. _strtol(part) = Number(n)
    BY <2>3, <2>4, <2>5, <2>6, NumbersExact
  <2> QED BY <2>4, <2>7 DEF part
<1> QED BY <1>6, <1>7
=============================================================================
