---------------------------- MODULE MCFlagServer ----------------------------
(***************************************************************************)
(* FlagServer with three requests in two environments and two starts.      *)
(***************************************************************************)
EXTENDS FlagServer

===============================================================================
