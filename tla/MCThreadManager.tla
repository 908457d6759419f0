--------------------------- MODULE MCThreadManager ---------------------------
(* The instance of ThreadManager that TLC checks for NeverReleasesTooMany. *)
EXTENDS ThreadManager

CONSTANTS w1, w2
=============================================================================
