----------------------------- MODULE ReadPrint -----------------------------
(***************************************************************************)
(* What is read, printed by print_fn (print.c) in the syntax the reader    *)
(* reads, and read again; and what a text denotes, for the reader to be    *)
(* measured against.                                                       *)
(***************************************************************************)
EXTENDS Reader

VARIABLE expected  \* the values text is the print of, or NONE (history)

----------------------------------------------------------------------------
(***************************************************************************)
(* Printing: print_fn writes each value and a space behind it.             *)
(***************************************************************************)
RECURSIVE _lval_print(_)
lval_collection_print(v) ==
  LET closing == CHOOSE c \in DOMAIN TypeOf : TypeOf[c] = v.kind
      opening == CHOOSE c \in DOMAIN End : End[c] = closing
      printed == [i \in DOMAIN v.cells |->
                    IF i = 1 THEN _lval_print(v.cells[i])
                    ELSE <<"space">> \o _lval_print(v.cells[i])]
  IN  <<opening>> \o FlattenSeq(printed) \o <<closing>>
_lval_print(v) ==
  IF v.kind \in {"list", "vector", "map"} THEN lval_collection_print(v)
  ELSE IF v.kind = "number" THEN _ntoa_long(v.number)
  ELSE IF v.kind = "string" THEN <<"dquote">> \o mpcf_escape(v.value) \o <<"dquote">>
  ELSE IF v.kind = "keyword" THEN <<":">> \o v.value
  ELSE v.value
print_fn(values) ==
  FlattenSeq([i \in DOMAIN values |-> _lval_print(values[i]) \o <<"space">>])

----------------------------------------------------------------------------
(***************************************************************************)
(* One text after another, and what was read printed and read again.       *)
(***************************************************************************)
ReadPrintInit == Init /\ expected = NONE

read_printed ==
  /\ outcome = "end"
  /\ expected = NONE
  /\ forms # <<>>
  /\ outcome' = "reading"
  /\ Start(print_fn(forms), <<>>)
  /\ expected' = Atom("values", forms)

ReadPrintNext ==
  \/ read_text /\ UNCHANGED expected
  \/ read_expr /\ UNCHANGED expected
  \/ read_printed
  \/ forget /\ expected' = NONE

all == <<vars, expected>>
ReadPrintSpec == ReadPrintInit /\ [][ReadPrintNext]_all /\ WF_vars(read_expr)

----------------------------------------------------------------------------
(***************************************************************************)
(* The reference: what a text denotes, by a lexical rule and a grammar     *)
(* over tokens, without positions, globals or an order of evaluation.      *)
(***************************************************************************)
Bad == [kind |-> "bad"]
Open == [kind |-> "open"]    \* the text ends inside a comment or an escape
Mark(c) == [kind |-> "mark", char |-> c]

\* A run of symbol characters is a number if it is written as one.
Word(part) ==
  LET digits == IF Head(part) = "-" THEN Tail(part) ELSE part
  IN  IF digits # <<>> /\ ToSet(digits) \subseteq Digits
      THEN IF Written(part) \in MinNumber .. MaxNumber /\ ~ranged
           THEN Number(Written(part)) ELSE Bad
      ELSE IF part \in Constants THEN Atom("constant", part) ELSE Symbol(part)

\* How many characters at the start of t are in Cs.
Run(t, Cs) == CHOOSE n \in 0 .. Len(t) : (\A i \in 1 .. n : t[i] \in Cs)
                                           /\ (n < Len(t) => t[n + 1] \notin Cs)
Drop(t, n) == SubSeq(t, n + 1, Len(t))

\* The token of a string whose opening quote has been read, then the others.
RECURSIVE Tokens(_), StringTokens(_, _)
StringTokens(t, part) ==
  IF t = <<>> THEN <<Bad>>
  ELSE IF Head(t) = "dquote" THEN <<Atom("string", part)>> \o Tokens(Tail(t))
  ELSE IF Head(t) # "backslash" THEN StringTokens(Tail(t), Append(part, Head(t)))
  ELSE IF Len(t) = 1 THEN <<Open>>
  ELSE IF t[2] \in DOMAIN Unescape
       THEN StringTokens(Drop(t, 2), Append(part, Unescape[t[2]]))
       ELSE <<Bad>>

\* Two of the reader's ways are in here as they are: blanks may not stand alone
\* between the delimiters of a list, and any quote before an @ is a splice.
Tokens(t) ==
  LET c == Head(t)
      n == Run(t, valid_symbol_chars)
      line == Run(t, ToSet(t) \ {"newline"})
      behind == Tokens(Tail(t))
  IN  IF t = <<>> THEN <<>>
      ELSE IF c \in Blank THEN Tokens(Tail(t))
      ELSE IF c = ";" THEN IF line = Len(t) THEN <<Open>> ELSE Tokens(Drop(t, line))
      ELSE IF c = "dquote" THEN StringTokens(Tail(t), <<>>)
      ELSE IF c = ":"
           THEN LET k == Run(Tail(t), valid_symbol_chars)
                IN  <<Atom("keyword", SubSeq(t, 2, k + 1))>> \o Tokens(Drop(t, k + 1))
      ELSE IF c \in DOMAIN Macro
           THEN IF Len(t) > 1 /\ t[2] = "@"
                THEN <<Mark("splice-unquote")>> \o Tokens(Drop(t, 2))
                ELSE <<Mark(Macro[c])>> \o Tokens(Tail(t))
      ELSE IF n > 0 /\ c \notin invalid_symbol_first_chars
           THEN <<Word(SubSeq(t, 1, n))>> \o Tokens(Drop(t, n))
      ELSE IF c \in DOMAIN End /\ behind # <<>> /\ t[2] # End[c] /\ behind[1] = Mark(End[c])
           THEN <<Bad>>
      ELSE IF c \in DOMAIN End \union DOMAIN TypeOf THEN <<Mark(c)>> \o behind
      ELSE <<Bad>>

\* The expressions that a sequence of tokens can be read as, and the sequences.
RECURSIVE Expression(_), Expressions(_)
Expression(t) ==
  LET first == Head(t)
      inner == SubSeq(t, 2, Len(t) - 1)
  IN  IF t = <<>> THEN {}
      ELSE IF first.kind # "mark"
           THEN IF Len(t) = 1 /\ first \notin {Bad, Open} THEN {first} ELSE {}
      ELSE IF first.char \in Names
           THEN {Collection("list", <<Symbol(<<first.char>>), x>>) : x \in Expression(Tail(t))}
      ELSE IF first.char \in DOMAIN End /\ Len(t) > 1 /\ Last(t) = Mark(End[first.char])
           THEN {Collection(TypeOf[End[first.char]], xs) : xs \in Expressions(inner)}
      ELSE {}
Expressions(t) ==
  IF t = <<>> THEN {<<>>}
  ELSE UNION {{<<x>> \o xs : x \in Expression(SubSeq(t, 1, n)), xs \in Expressions(Drop(t, n))} :
                n \in 1 .. Len(t)}

----------------------------------------------------------------------------
(***************************************************************************)
(* Properties.                                                             *)
(***************************************************************************)
OpenEnd == \E i \in DOMAIN Tokens(text) : Tokens(text)[i] = Open

\* What is read is what the text denotes, up to the first thing that is wrong: the
\* expressions before it are all there, nothing of the one it is in is, however deep,
\* and an error is reported.  It depends on nothing that was read before, except that
\* after a number out of range none is a number any more.
ReadsTheText ==
  Done /\ ~OpenEnd =>
    LET tokens == Tokens(text)
        readable == {n \in 0 .. Len(tokens) : Expressions(SubSeq(tokens, 1, n)) # {}}
        most == CHOOSE n \in readable : \A m \in readable : m <= n
    IN  /\ forms \in Expressions(SubSeq(tokens, 1, most))
        /\ (outcome = "end") = (most = Len(tokens))

\* What print writes reads back as the values printed: strings with quotes, newlines
\* and backslashes, negative numbers, keywords, nested lists.
PrintedReadsBack ==
  expected # NONE /\ Done => outcome = "end" /\ forms = expected.value

=============================================================================
