--------------------------- MODULE MCRetryThrottle ---------------------------
(* RetryThrottle for TLC: service configs that differ in both parameters. *)
EXTENDS RetryThrottle

MCParams == {[max |-> 2000, ratio |-> 500], [max |-> 3000, ratio |-> 500], [max |-> 3000, ratio |-> 1000]}
=============================================================================
