---------------------------- MODULE MCDataSection ---------------------------
(***************************************************************************)
(* DataSection for TLC: two namespaces, the second of which may use the    *)
(* first; a number and a string.                                           *)
(***************************************************************************)
EXTENDS DataSection

CONSTANTS lib, main, num, str

MCNamespaces == <<lib, main>>
MCTexts == {num, str}
MCStrings == {str}
MCDataOffset == [ns \in {lib, main} |-> IF ns = lib THEN 100 ELSE 200]
MCFnTableOffset == [ns \in {lib, main} |-> IF ns = lib THEN 10 ELSE 20]
=============================================================================
