---------------------------- MODULE SerialExecutor ----------------------------
(***************************************************************************)
(* What gRPC's serializers promise: work runs one item at a time, each     *)
(* scheduled item runs once, and an item whose scheduling call returned    *)
(* before another one's began finishes before the other one starts.       *)
(* WorkSerializer.tla, CallCombiner.tla and Combiner.tla implement it.     *)
(***************************************************************************)
CONSTANT Work

VARIABLES
    phase,      \* per item: "idle", "calling", "waiting" or "running"
    ahead       \* per item: the items that have to finish before it starts

vars == <<phase, ahead>>

Running == {w \in Work : phase[w] = "running"}

Init ==
    /\ phase = [w \in Work |-> "idle"]
    /\ ahead = [w \in Work |-> {}]

Schedule(w) ==
    /\ phase[w] = "idle"
    /\ phase' = [phase EXCEPT ![w] = "calling"]
    /\ ahead' = [ahead EXCEPT ![w] =
                   {v \in Work : phase[v] \in {"waiting", "running"}}]

\* The scheduling call returns and leaves the item behind for others to run.
Return(w) ==
    /\ phase[w] = "calling"
    /\ phase' = [phase EXCEPT ![w] = "waiting"]
    /\ UNCHANGED ahead

\* An item found nobody ahead and runs within its scheduling call.
RunAtOnce(w) ==
    /\ Running = {}
    /\ \A v \in Work : phase[v] # "waiting"
    /\ phase[w] = "idle"
    /\ phase' = [phase EXCEPT ![w] = "running"]
    /\ UNCHANGED ahead

Start(w) ==
    /\ Running = {}
    /\ phase[w] = "waiting"
    /\ ahead[w] = {}
    /\ phase' = [phase EXCEPT ![w] = "running"]
    /\ UNCHANGED ahead

Finish(w) ==
    /\ phase[w] = "running"
    /\ phase' = [phase EXCEPT ![w] = "idle"]
    /\ ahead' = [v \in Work |-> ahead[v] \ {w}]

Next == \E w \in Work :
    Schedule(w) \/ Return(w) \/ RunAtOnce(w) \/ Start(w) \/ Finish(w)

Spec == Init /\ [][Next]_vars
=============================================================================
