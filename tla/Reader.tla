------------------------------- MODULE Reader -------------------------------
(***************************************************************************)
(* The reader of read.c, as load and read-string drive it: read_expr one   *)
(* expression after another until the text ends or something is wrong.     *)
(* The C recursion of read_cell, lval_read_list and reader_macro is the    *)
(* variable stack; what lval_read has just returned is the variable lval.  *)
(*                                                                         *)
(* A text is a sequence of characters, one for each class the reader tells *)
(* apart.  It is in memory with a terminator, and with other bytes beyond  *)
(* that.  Two globals outlive a text: lval_err of read.c and merrno of     *)
(* lib.c.  A loop over the characters is a function of the position it     *)
(* starts from.                                                            *)
(***************************************************************************)
EXTENDS Integers, Sequences, SequencesExt

CONSTANTS
  Texts,       \* the texts that are read
  Beyond,      \* what may be in memory behind the terminator of a text
  Constants,   \* the symbols that read as nil, true and false
  MaxNumber,   \* LONG_MAX (INT_MAX in a wasm build)
  MinNumber    \* LONG_MIN

VARIABLES
  text,        \* s: the characters, without the terminator
  beyond,      \* the bytes behind the terminator
  pos,         \* i: the index of the next character, from 1
  stack,       \* the lists and reader macros being read, innermost last
  lval,        \* what lval_read returned and its caller has not taken, or NONE
  forms,       \* the expressions read so far
  outcome,     \* "idle", "reading", "end" or "error"
  lval_err,    \* the global lval_err
  merrno,      \* *merrno = ERANGE
  ranged       \* merrno when the reading of this text began (history)

given == <<text, beyond, ranged>>
vars == <<given, pos, stack, lval, forms, outcome, lval_err, merrno>>

----------------------------------------------------------------------------
(***************************************************************************)
(* Characters and values.                                                  *)
(***************************************************************************)
NUL == "nul"

\* A text has no terminator of its own; anything may be behind it.
ASSUME TextsAssumption ==
  /\ \A t \in Texts : t \in Seq(ToSet(t) \ {NUL})
  /\ \A b \in Beyond : b \in Seq(ToSet(b))
ASSUME NumbersAssumption == MaxNumber \in Nat /\ MinNumber \in Int /\ MinNumber <= 0

DigitChars == <<"0", "1", "2", "3", "4", "5", "6", "7", "8", "9">>
Digits == ToSet(DigitChars)
Digit == [c \in Digits |-> (CHOOSE i \in DOMAIN DigitChars : DigitChars[i] = c) - 1]
\* The names of the functions that the reader macros stand for are one character each.
Names == {"quote", "quasiquote", "unquote", "splice-unquote"}
valid_symbol_chars == Digits \union {"-", "x", "n", "'", "#"} \union Names
invalid_symbol_first_chars == {"'", "#"}
Blank == {"space", "newline", ","}
Ignored == Blank \union {";"}

\* The character that ends a list, by the one that opens it, and the list's type.
End == [c \in {"(", "[", "{"} |-> IF c = "(" THEN ")" ELSE IF c = "[" THEN "]" ELSE "}"]
TypeOf == [c \in {")", "]", "}"} |->
             IF c = ")" THEN "list" ELSE IF c = "]" THEN "vector" ELSE "map"]

\* The function a reader macro stands for, by its first character.
Macro == [c \in {"'", "backquote", "~"} |->
            IF c = "'" THEN "quote" ELSE IF c = "backquote" THEN "quasiquote" ELSE "unquote"]

\* lval_str_unescape, and lval_str_escape the other way.
Unescape == [c \in {"n", "'", "dquote", "backslash"} |-> IF c = "n" THEN "newline" ELSE c]
Escaped(c) ==
  IF c = "newline" THEN <<"backslash", "n">>
  ELSE IF c \in {"'", "dquote", "backslash"} THEN <<"backslash", c>> ELSE <<c>>

\* Mutant of mpcf_escape: it looks for the quotes only.
mpcf_escape_quotes(str) ==
  FlattenSeq([i \in DOMAIN str |->
                IF str[i] = "backslash" THEN <<str[i]>> ELSE Escaped(str[i])])

\* A string as print writes it between its quotes.
mpcf_escape(str) == FlattenSeq([i \in DOMAIN str |-> Escaped(str[i])])

NONE == [kind |-> "none"]
Error == [kind |-> "error"]
Atom(kind, value) == [kind |-> kind, value |-> value]
Number(n) == [kind |-> "number", number |-> n]
Symbol(name) == Atom("symbol", name)
Collection(type, cells) == [kind |-> type, cells |-> cells]

\* A number as print writes it, from its last digit to its first.
Magnitude(num) == IF num < 0 THEN -num ELSE num
_ntoa_long(num) ==
  LET digits[n \in 0 .. Magnitude(num)] ==
        IF n < 10 THEN <<DigitChars[n + 1]>>
        ELSE Append(digits[n \div 10], DigitChars[(n % 10) + 1])
      written == digits[Magnitude(num)]
  IN  IF num < 0 THEN <<"-">> \o written ELSE written

\* A character of the memory the text is in, and the end of a run of characters.
Memory == text \o <<NUL>> \o beyond
Positions == 1 .. Len(Memory) + 2
Char(i) == IF i \in DOMAIN Memory THEN Memory[i] ELSE NUL
SpanEnd(i, Cs) ==
  CHOOSE j \in i .. Len(Memory) + 1 :
    Char(j) \notin Cs /\ \A k \in i .. j - 1 : Char(k) \in Cs

----------------------------------------------------------------------------
(***************************************************************************)
(* The lexical part.                                                       *)
(***************************************************************************)
\* A comment runs up to a newline or the terminator, and either is stepped over.
AfterComment(i) ==
  SpanEnd(i, {c \in {Char(j) : j \in i .. Len(Memory)} : c \notin {"newline", NUL}}) + 1

skip_ignored_chars[i \in Positions] ==
  IF Char(i) \notin Ignored THEN i
  ELSE skip_ignored_chars[IF Char(i) = ";" THEN AfterComment(i) ELSE i + 1]

\* _strtol: the digits accumulate until one too many, which sets *merrno.
Cut(neg) == IF neg THEN -MinNumber ELSE MaxNumber
TooLarge(acc, d, neg) ==
  acc > Cut(neg) \div 10 \/ (acc = Cut(neg) \div 10 /\ d > Cut(neg) % 10)
_strtol(part) ==
  LET neg == part[1] = "-"
      digits == IF neg THEN Tail(part) ELSE part
      acc[k \in 0 .. Len(digits)] ==
        IF k = 0 THEN Number(0)
        ELSE IF acc[k - 1] = NONE \/ TooLarge(acc[k - 1].number, Digit[digits[k]], neg)
             THEN NONE ELSE Number(acc[k - 1].number * 10 + Digit[digits[k]])
      magnitude == acc[Len(digits)]
  IN  IF magnitude = NONE \/ ~neg THEN magnitude ELSE Number(-magnitude.number)

LooksLikeNumber(part) ==
  /\ part[1] \in Digits \union {"-"}
  /\ \A j \in 2 .. Len(part) : part[j] \in Digits
  /\ part # <<"-">>

\* The string from i on: what it unescapes to, and where reading goes on.  The
\* terminator passes for an escapable character: _strchr finds it in every string.
Prefixed(c, string) ==
  IF string.lval = Error THEN string
  ELSE [string EXCEPT !.lval = Atom("string", <<c>> \o @.value)]

StringFrom[i \in Positions] ==
  LET c == Char(i)
      next == Char(i + 1)
  IN  IF c = "dquote" THEN [lval |-> Atom("string", <<>>), pos |-> i + 1]
      ELSE IF c = NUL THEN [lval |-> Error, pos |-> i]
      ELSE IF c # "backslash" THEN Prefixed(c, StringFrom[i + 1])
      ELSE IF next = NUL THEN StringFrom[i + 2]
      ELSE IF next \in DOMAIN Unescape THEN Prefixed(Unescape[next], StringFrom[i + 2])
      ELSE [lval |-> Error, pos |-> i + 1]

----------------------------------------------------------------------------
(***************************************************************************)
(* One text.  The end that read_expr is called with is that of the list    *)
(* around it; load and reader_macro call it with the terminator.           *)
(***************************************************************************)
Reading == outcome = "reading" /\ lval = NONE
Inner == Last(stack)
InList == stack # <<>> /\ Inner.end # NUL
InMacro == stack # <<>> /\ Inner.end = NUL
end == IF stack = <<>> THEN NUL ELSE Inner.end
At == skip_ignored_chars[pos]
More == Char(pos) # end /\ Char(At) # NUL

\* read_expr returns NULL: the text has ended between two expressions.
no_more ==
  /\ Reading
  /\ stack = <<>>
  /\ ~More
  /\ outcome' = "end"
  /\ pos' = IF Char(pos) = NUL THEN pos ELSE At
  /\ UNCHANGED <<given, stack, lval, forms, lval_err, merrno>>

\* lval_read_list after read_cell has returned: the end is where the next expression
\* would be.
list_end ==
  /\ Reading
  /\ InList
  /\ Char(pos) = end
  /\ lval' = IF lval_err # NONE THEN lval_err ELSE Collection(TypeOf[end], Inner.cells)
  /\ pos' = pos + 1
  /\ stack' = Front(stack)
  /\ UNCHANGED <<given, forms, outcome, lval_err, merrno>>

\* read_expr inside a list finds the terminator.
missing_end ==
  /\ Reading
  /\ InList
  /\ Char(pos) # end
  /\ Char(At) = NUL
  /\ lval_err' = Error
  /\ lval' = Error
  /\ pos' = At
  /\ stack' = Front(stack)
  /\ UNCHANGED <<given, forms, outcome, merrno>>

\* reader_macro: there is nothing to quote.
nothing_quoted ==
  /\ Reading
  /\ InMacro
  /\ ~More
  /\ lval' = Error
  /\ pos' = IF Char(pos) = NUL THEN pos ELSE At
  /\ stack' = Front(stack)
  /\ UNCHANGED <<given, forms, outcome, lval_err, merrno>>

lval_read_sym ==
  /\ Reading
  /\ More
  /\ Char(At) \in valid_symbol_chars \ invalid_symbol_first_chars
  /\ pos' = SpanEnd(At, valid_symbol_chars)
  /\ LET part == SubSeq(Memory, At, pos' - 1)
         v == _strtol(part)
     IN  IF LooksLikeNumber(part)
         THEN /\ merrno' = (merrno \/ v = NONE)
              /\ lval' = IF merrno' THEN Error ELSE v
         ELSE /\ lval' = IF part \in Constants THEN Atom("constant", part) ELSE Symbol(part)
              /\ UNCHANGED merrno
  /\ UNCHANGED <<given, stack, forms, outcome, lval_err>>

lval_read_keyword ==
  /\ Reading
  /\ More
  /\ Char(At) = ":"
  /\ pos' = SpanEnd(At + 1, valid_symbol_chars)
  /\ lval' = Atom("keyword", SubSeq(Memory, At + 1, pos' - 1))
  /\ UNCHANGED <<given, stack, forms, outcome, lval_err, merrno>>

\* Mutant of lval_read_str: the terminator is stepped over before it is looked at.
lval_read_str_past ==
  /\ Reading
  /\ More
  /\ Char(At) = "dquote"
  /\ LET string == StringFrom[At + 1]
     IN  lval' = string.lval /\ pos' = IF string.lval = Error THEN string.pos + 1 ELSE string.pos
  /\ UNCHANGED <<given, stack, forms, outcome, lval_err, merrno>>

lval_read_str ==
  /\ Reading
  /\ More
  /\ Char(At) = "dquote"
  /\ LET string == StringFrom[At + 1]
     IN  lval' = string.lval /\ pos' = string.pos
  /\ UNCHANGED <<given, stack, forms, outcome, lval_err, merrno>>

lval_read_list ==
  /\ Reading
  /\ More
  /\ Char(At) \in DOMAIN End
  /\ stack' = Append(stack, [end |-> End[Char(At)], cells |-> <<>>])
  /\ lval_err' = NONE
  /\ pos' = At + 1
  /\ UNCHANGED <<given, lval, forms, outcome, merrno>>

\* With an @ behind it, any of the three reader macros splices.
reader_macro ==
  /\ Reading
  /\ More
  /\ Char(At) \in DOMAIN Macro
  /\ LET splice == Char(At + 1) = "@"
         lispy_fn == IF splice THEN "splice-unquote" ELSE Macro[Char(At)]
     IN  /\ stack' = Append(stack, [end |-> NUL, cells |-> <<Symbol(<<lispy_fn>>)>>])
         /\ pos' = IF splice THEN At + 2 ELSE At + 1
  /\ UNCHANGED <<given, lval, forms, outcome, lval_err, merrno>>

unexpected_character ==
  /\ Reading
  /\ More
  /\ Char(At) \notin (valid_symbol_chars \ invalid_symbol_first_chars)
                     \union {":", "dquote"} \union DOMAIN End \union DOMAIN Macro
  /\ lval' = Error
  /\ pos' = At
  /\ UNCHANGED <<given, stack, forms, outcome, lval_err, merrno>>

\* read_expr skips what it may behind the value and returns it: a list gets another
\* cell, or ends where an error is; a reader macro wraps the value; load takes it.
Returned == outcome = "reading" /\ lval # NONE /\ pos' = skip_ignored_chars[pos]

\* Mutant of read_cell: a list drops an element that is an error.
read_cell_skip ==
  /\ Returned
  /\ InList
  /\ IF lval = Error
     THEN lval' = NONE /\ UNCHANGED <<stack, lval_err>>
     ELSE /\ stack' = [stack EXCEPT ![Len(stack)].cells = Append(@, lval)]
          /\ lval' = NONE
          /\ UNCHANGED lval_err
  /\ UNCHANGED <<given, forms, outcome, merrno>>

read_cell ==
  /\ Returned
  /\ InList
  /\ IF lval = Error
     THEN lval_err' = lval /\ lval' = lval_err' /\ stack' = Front(stack)
     ELSE /\ stack' = [stack EXCEPT ![Len(stack)].cells = Append(@, lval)]
          /\ lval' = NONE
          /\ UNCHANGED lval_err
  /\ UNCHANGED <<given, forms, outcome, merrno>>

quoted ==
  /\ Returned
  /\ InMacro
  /\ lval' = IF lval = Error THEN lval ELSE Collection("list", Append(Inner.cells, lval))
  /\ stack' = Front(stack)
  /\ UNCHANGED <<given, forms, outcome, lval_err, merrno>>

\* Mutant of load: it goes on reading after an error.
load_on ==
  /\ Returned
  /\ stack = <<>>
  /\ lval' = NONE
  /\ forms' = IF lval = Error THEN forms ELSE Append(forms, lval)
  /\ UNCHANGED <<given, stack, outcome, lval_err, merrno>>

load ==
  /\ Returned
  /\ stack = <<>>
  /\ lval' = NONE
  /\ IF lval = Error
     THEN outcome' = "error" /\ UNCHANGED forms
     ELSE forms' = Append(forms, lval) /\ UNCHANGED outcome
  /\ UNCHANGED <<given, stack, lval_err, merrno>>

----------------------------------------------------------------------------
(***************************************************************************)
(* One text after another.                                                 *)
(***************************************************************************)
Init ==
  /\ text = <<>> /\ beyond = <<>> /\ pos = 1
  /\ stack = <<>> /\ lval = NONE /\ forms = <<>> /\ outcome = "idle"
  /\ lval_err = NONE /\ merrno = FALSE /\ ranged = FALSE

Start(t, b) ==
  /\ text' = t /\ beyond' = b /\ pos' = 1
  /\ forms' = <<>>
  /\ ranged' = merrno
  /\ UNCHANGED <<stack, lval, lval_err, merrno>>

read_text ==
  /\ outcome = "idle"
  /\ outcome' = "reading"
  /\ \E t \in Texts, b \in Beyond : Start(t, b)

forget ==
  /\ outcome \in {"end", "error"}
  /\ outcome' = "idle"
  /\ Start(<<>>, <<>>)

lval_read ==
  \/ lval_read_sym
  \/ lval_read_keyword
  \/ lval_read_str
  \/ lval_read_list
  \/ reader_macro
  \/ unexpected_character

read_expr ==
  \/ no_more
  \/ list_end
  \/ missing_end
  \/ nothing_quoted
  \/ lval_read
  \/ read_cell
  \/ quoted
  \/ load

Next ==
  \/ read_text
  \/ read_expr
  \/ forget

\* The loop of load and the recursion of the reader run until they return.
Spec == Init /\ [][Next]_vars /\ WF_vars(read_expr)

----------------------------------------------------------------------------
(***************************************************************************)
(* Properties.                                                             *)
(***************************************************************************)
Done == outcome \in {"end", "error"}

\* The number that is written.
Decimal(digits) ==
  LET value[k \in 0 .. Len(digits)] ==
        IF k = 0 THEN 0 ELSE value[k - 1] * 10 + Digit[digits[k]]
  IN  value[Len(digits)]
Written(part) == IF part[1] = "-" THEN -Decimal(Tail(part)) ELSE Decimal(part)

\* What a character of the text is part of, by what the one before it was part of.
\* A character that cannot be escaped is none of the string.
Lex(mode, c) ==
  CASE mode = "comment" -> IF c = "newline" THEN "code" ELSE "comment"
    [] mode = "string" -> IF c = "dquote" THEN "code" ELSE IF c = "backslash" THEN "escape" ELSE "string"
    [] mode = "escape" /\ c \in DOMAIN Unescape -> "string"
    [] OTHER -> IF c = ";" THEN "comment" ELSE IF c = "dquote" THEN "string" ELSE "code"
Mode[k \in 0 .. Len(text)] == IF k = 0 THEN "code" ELSE Lex(Mode[k - 1], text[k])
EndsOpen == Mode[Len(text)] \in {"comment", "escape"}

\* Reading stays inside the text and its terminator, except where the text ends in a
\* comment without a newline or in a backslash inside a string.
StaysInText ==
  pos > Len(text) + 1 => EndsOpen

\* Every text is read to its end or to an error.
ReadEnds ==
  outcome = "reading" ~> Done

\* mal/test_1_read_print.mal:45 expects ( ) to read as ().
BlanksInEmptyList ==
  Done /\ text = <<"(", "space", ")">> => forms = <<Collection("list", <<>>)>>
=============================================================================
