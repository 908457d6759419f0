------------------------------ MODULE MpscqSpec ------------------------------
(***************************************************************************)
(* The abstract specification of LockedMultiProducerSingleConsumerQueue:   *)
(* consumers call Pop or TryPop and get the oldest item or nothing.        *)
(***************************************************************************)
EXTENDS FifoQueue

CONSTANTS Nodes, Consumers, Null

VARIABLES
    op,         \* the call each consumer is in: "none", "Pop" or "TryPop"
    got         \* what the last call of each consumer returned

vars == <<queue, pushing, op, got>>

Init ==
    /\ queue = <<>>
    /\ pushing = {}
    /\ op = [c \in Consumers |-> "none"]
    /\ got = [c \in Consumers |-> Null]

Call(c, o) ==
    /\ op[c] = "none"
    /\ op' = [op EXCEPT ![c] = o]
    /\ UNCHANGED <<queue, pushing, got>>

Return(c, v) ==
    /\ op[c] # "none"
    /\ op' = [op EXCEPT ![c] = "none"]
    /\ got' = [got EXCEPT ![c] = v]

ReturnItem(c) == Take /\ Return(c, Head(queue))

\* TryPop may fail at any time; Pop fails only on a queue that is empty or
\* whose oldest item is still being pushed.
ReturnNothing(c) ==
    /\ op[c] = "TryPop" \/ ~Available
    /\ Return(c, Null)
    /\ UNCHANGED <<queue, pushing>>

Next ==
    \/ \E n \in Nodes : (Claim(n) \/ Publish(n)) /\ UNCHANGED <<op, got>>
    \/ \E c \in Consumers :
          \/ \E o \in {"Pop", "TryPop"} : Call(c, o)
          \/ ReturnItem(c)
          \/ ReturnNothing(c)

Spec == Init /\ [][Next]_vars
=============================================================================
