----------------------------- MODULE MCAccount -----------------------------
(***************************************************************************)
(* Instance of Account for TLC: two names that are free, one that is not   *)
(* valid, one of a user and one of a group; two passwords that are         *)
(* accepted and one that is too short.                                     *)
(***************************************************************************)
EXTENDS Account
=============================================================================
