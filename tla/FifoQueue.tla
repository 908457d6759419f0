------------------------------ MODULE FifoQueue ------------------------------
(***************************************************************************)
(* What the lock-free queues of gRPC promise their users.  A push has two  *)
(* instants: it claims the next place (the exchange of head_), and later   *)
(* it becomes visible (the store of prev->next).  Items leave in the order *)
(* of their claims, and an item whose push is still in progress cannot be  *)
(* taken, nor can anything that was claimed after it.                      *)
(*                                                                         *)
(* Mpscq.tla is shown to implement this; WorkSerializer.tla,               *)
(* CallCombiner.tla, Combiner.tla and CompletionQueue.tla are built on it. *)
(***************************************************************************)
EXTENDS Sequences, Functions

VARIABLES
    queue,      \* the claimed items, oldest first
    pushing     \* the claimed items whose push has not returned yet

\* A producer claims the place behind every other item.
Claim(n) ==
    /\ n \notin Range(queue)
    /\ queue' = Append(queue, n)
    /\ pushing' = pushing \cup {n}

\* The push of n becomes visible and returns.
Publish(n) ==
    /\ n \in pushing
    /\ pushing' = pushing \ {n}
    /\ UNCHANGED queue

\* The oldest item can be taken, once its own push is visible.
Available == queue # <<>> /\ Head(queue) \notin pushing

Take ==
    /\ Available
    /\ queue' = Tail(queue)
    /\ UNCHANGED pushing
=============================================================================
