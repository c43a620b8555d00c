------------------------------- MODULE Leaves -------------------------------
(***************************************************************************)
(* Leaves and containers of a configuration (the Option fields of the      *)
(* structs that switch-model deserializes), each None where it is not set. *)
(***************************************************************************)
CONSTANT None

\* unwrap_or
OrElse(x, default) == IF x = None THEN default ELSE x

\* The type of a leaf whose values are S.
Opt(S) == S \cup {None}
=============================================================================
