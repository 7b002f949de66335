---------------------------- MODULE MCNamespaces ----------------------------
(***************************************************************************)
(* Namespaces for TLC: two files that may require each other, one symbol   *)
(* and one alias.                                                          *)
(***************************************************************************)
EXTENDS Namespaces
=============================================================================
