---------------------------- MODULE MCIdleFilter ----------------------------
(***************************************************************************)
(* IdleFilter for TLC: the calls are model values, given in the cfg files. *)
(***************************************************************************)
EXTENDS IdleFilter
=============================================================================
