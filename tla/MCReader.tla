------------------------------ MODULE MCReader ------------------------------
(***************************************************************************)
(* ReadPrint for TLC. Every text over seven small alphabets: delimiters    *)
(* and quotes around a symbol, blanks and comments, strings with escapes,  *)
(* strings cut off by comments, numbers at the ends of their range,        *)
(* keywords and the rarer characters.                                      *)
(***************************************************************************)
EXTENDS ReadPrint

UpTo(n, Cs) == UNION {[1 .. k -> Cs] : k \in 0 .. n}
MCTexts ==
  UpTo(5, {"(", ")", "[", "'", "x"})
    \union UpTo(4, {"(", ")", "[", "]", "'", "x"})
    \union UpTo(4, {"(", ")", "space", ";", "newline", "x"})
    \union UpTo(5, {"dquote", "backslash", "n", "x"})
    \union UpTo(4, {"dquote", "backslash", ";", "newline", "x"})
    \union UpTo(4, {"-", "1", "6", "x", "space"})
    \union UpTo(3, {":", "backquote", "~", "@", "#", "{", "}", "n", "x", ","})
MCBeyond == {<<>>, <<"dquote">>}
MCConstants == {<<"n">>}
MCMinNumber == -16
=============================================================================
