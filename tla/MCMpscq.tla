------------------------------- MODULE MCMpscq -------------------------------
(* The instance of Mpscq that TLC checks. *)
EXTENDS Mpscq

CONSTANTS n1, n2, n3, p1, p2, c1, c2

MCNodes == {n1, n2, n3}
MCProducers == {p1, p2}
MCConsumers == {c1, c2}
=============================================================================
