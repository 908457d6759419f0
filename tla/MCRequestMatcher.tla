-------------------------- MODULE MCRequestMatcher --------------------------
(***************************************************************************)
(* The two request matchers of the server for TLC: RequestMatcher with two *)
(* completion queues, requests on both and RPCs that start at different    *)
(* queues, and AllocatingMatcher.  They share no state: a behaviour lets   *)
(* one of them move and leaves the other in its initial state.             *)
(***************************************************************************)
EXTENDS RequestMatcher, TLC

CONSTANTS r1, r2, r3, c1, c2,
    CallbackRpcs    \* the RPCs of AllocatingMatcher

OneRequest == {r1}
OneQueue == r1 :> 0
ThreeRequests == {r1, r2, r3}
ThreeQueues == r1 :> 0 @@ r2 :> 0 @@ r3 :> 1
OneRpc == {c1}
OneStart == c1 :> 0
TwoRpcs == {c1, c2}
TwoStarts == c1 :> 0 @@ c2 :> 1

\* The two requests on one queue are alike.
Symm == Permutations({r1, r2})

VARIABLES
    part,           \* the one that moves
    amRefs, amComplete, amCloser, amPublished, amListener, amChannel, amRpcAt, amState

AM == INSTANCE AllocatingMatcher WITH
    Rpcs <- CallbackRpcs,
    refs <- amRefs, complete <- amComplete, closer <- amCloser,
    published <- amPublished, listener <- amListener, channel <- amChannel,
    rpcAt <- amRpcAt, state <- amState

ASSUME CallbackRpcsAssumption == AM!AllocatingMatcherConstants

amVars == <<amRefs, amComplete, amCloser, amPublished, amListener, amChannel, amRpcAt, amState>>

AllInit == Init /\ AM!Init /\ part \in {"real", "allocating"}

AllNext ==
    /\ \/ part = "real" /\ Next /\ UNCHANGED amVars
       \/ part = "allocating" /\ AM!Next /\ UNCHANGED vars
    /\ UNCHANGED part

AllSpec == AllInit /\ [][AllNext]_<<part, vars, amVars>>

-----------------------------------------------------------------------------
(* Properties                                                              *)

\* The variables keep their types, shutdown_refs_ counts exactly the RPCs in
\* flight, and no request and no RPC of the RealRequestMatcher is dropped,
\* handed out twice or killed twice.
InOnePlace == TypeOK /\ AM!TypeOK /\ RequestInOnePlace /\ RpcInOnePlace

\* When the shutdown is published, nothing is left in the queues of what they
\* held when it was called, and no accepted RPC has yet to begin its operation
\* on the completion queue.
PublishedIsOver == ShutdownClears /\ AM!AcceptedIsStarted

\* Whoever takes away the last thing that holds up the shutdown publishes it.
ShutdownIsPublished == LastOnePublishes /\ AM!LastOnePublishes

\* "GPR_ASSERT(!requests_complete_->HasBeenNotified())", for the
\* AllocatingRequestMatcher.
NotifiesOnce == AM!NotifiesOnce
=============================================================================
