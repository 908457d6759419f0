-------------------------- MODULE AllocatingMatcher --------------------------
(***************************************************************************)
(* The server's AllocatingRequestMatcher and the counter shutdown_refs_    *)
(* (core/lib/surface/server.{h,cc}), the matcher of the callback and the   *)
(* synchronous API: an RPC asks the application for a request when it      *)
(* comes in, and is counted as long as it does.                            *)
(*                                                                         *)
(* The matcher keeps no lists, so KillPendingWorkLocked does nothing here. *)
(* mu_global_ is held over one atomic access, and a section under it is    *)
(* one step, except for the call of shutdown, which lowers the counter and *)
(* looks at it again.                                                      *)
(***************************************************************************)
EXTENDS Integers, FiniteSets

CONSTANT Rpcs   \* CallData objects, each with the thread that brings it

AllocatingMatcherConstants == IsFiniteSet(Rpcs)

VARIABLES
    refs,       \* shutdown_refs_: 1 until shutdown is called, and 2 per RPC
    complete,   \* requests_complete_: "null", "waiting", "notified" or "aborted"
    closer,     \* ShutdownAndNotify: "idle", "finish" (in mu_global_), "await", "done"
    published,  \* shutdown_published_
    listener,   \* listeners_destroyed_ < listeners_.size()
    channel,    \* channels_ is not empty
    rpcAt,      \* per RPC: where its thread is
    state       \* per RPC: state_

vars == <<refs, complete, closer, published, listener, channel, rpcAt, state>>

Init ==
    /\ refs = 1
    /\ complete = "null"
    /\ closer = "idle"
    /\ published = FALSE /\ listener = TRUE /\ channel = TRUE
    /\ rpcAt = [c \in Rpcs |-> "new"]
    /\ state = [c \in Rpcs |-> "NOT_STARTED"]

ShutdownCalled == refs % 2 = 0
GlobalFree == closer # "finish"

Goto(c, from, to) ==
    /\ rpcAt[c] = from
    /\ rpcAt' = [rpcAt EXCEPT ![c] = to]

\* MaybeFinishShutdown, with what is left of the channels and the listeners
MaybeFinishShutdown(ch, li) ==
    published' = (published \/ (refs = 0 /\ ~ch /\ ~li))

-----------------------------------------------------------------------------
(* An RPC comes in                                                         *)

\* PublishNewRpc: the payload may have failed to arrive
PublishNewRpc(c) ==
    /\ \/ Goto(c, "new", "done") /\ state' = [state EXCEPT ![c] = "ZOMBIED"]
       \/ ~ShutdownCalled /\ Goto(c, "new", "match") /\ UNCHANGED state
    /\ UNCHANGED <<refs, complete, closer, published, listener, channel>>

\* Mutant: the answer of ShutdownRefOnRequest is not looked at.
RefOnRequestUnchecked(c) ==
    /\ Goto(c, "match", "allocate")
    /\ refs' = refs + 2
    /\ UNCHANGED <<complete, closer, published, listener, channel, state>>

\* MatchOrQueue: ShutdownRefOnRequest
RefOnRequest(c) ==
    /\ Goto(c, "match", IF ShutdownCalled THEN "fail" ELSE "allocate")
    /\ refs' = refs + 2
    /\ UNCHANGED <<complete, closer, published, listener, channel, state>>

\* The allocator, begin_op on the completion queue and Publish
Allocate(c) ==
    /\ Goto(c, "allocate", "unref")
    /\ state' = [state EXCEPT ![c] = "ACTIVATED"]
    /\ UNCHANGED <<refs, complete, closer, published, listener, channel>>

FailCallCreation(c) ==
    /\ Goto(c, "fail", "unref")
    /\ state' = [state EXCEPT ![c] = "ZOMBIED"]
    /\ UNCHANGED <<refs, complete, closer, published, listener, channel>>

\* Mutant: only the RPCs that were accepted look whether they are the last.
UnrefFailedForgets(c) ==
    /\ Goto(c, "unref", IF refs = 2 /\ state[c] = "ACTIVATED" THEN "last" ELSE "done")
    /\ refs' = refs - 2
    /\ UNCHANGED <<complete, closer, published, listener, channel, state>>

\* ShutdownUnrefOnRequest: the fetch_sub
UnrefOnRequest(c) ==
    /\ Goto(c, "unref", IF refs = 2 THEN "last" ELSE "done")
    /\ refs' = refs - 2
    /\ UNCHANGED <<complete, closer, published, listener, channel, state>>

\* Its section under mu_global_; to notify twice is an assertion that fails.
LastRequest(c) ==
    /\ GlobalFree
    /\ Goto(c, "last", "done")
    /\ MaybeFinishShutdown(channel, listener)
    /\ complete' = CASE complete = "null" -> "null"
                     [] complete = "waiting" -> "notified"
                     [] complete = "notified" -> "aborted"
    /\ UNCHANGED <<refs, closer, listener, channel, state>>

-----------------------------------------------------------------------------
(* Shutdown                                                                *)

\* ShutdownAndNotify, to the fetch_sub of ShutdownUnrefOnShutdownCall.  A
\* later call only adds its tag to the list, or gets it back at once.
ShutdownAndNotify ==
    /\ closer = "idle"
    /\ refs' = refs - 1
    /\ IF refs = 1
       THEN closer' = "finish" /\ UNCHANGED complete
       ELSE closer' = "await" /\ complete' = "waiting"
    /\ UNCHANGED <<published, listener, channel, rpcAt, state>>

ShutdownFinishes ==
    /\ closer = "finish"
    /\ MaybeFinishShutdown(channel, listener)
    /\ closer' = "done"
    /\ UNCHANGED <<refs, complete, listener, channel, rpcAt, state>>

\* WaitForNotification; the listeners are shut down after it.
AwaitRequests ==
    /\ closer = "await" /\ complete = "notified"
    /\ closer' = "done"
    /\ UNCHANGED <<refs, complete, published, listener, channel, rpcAt, state>>

ListenerDestroyDone ==
    /\ GlobalFree /\ closer = "done" /\ listener
    /\ listener' = FALSE
    /\ MaybeFinishShutdown(channel, FALSE)
    /\ UNCHANGED <<refs, complete, closer, channel, rpcAt, state>>

\* ChannelData::Destroy
ChannelDestroy ==
    /\ GlobalFree /\ channel
    /\ channel' = FALSE
    /\ MaybeFinishShutdown(FALSE, listener)
    /\ UNCHANGED <<refs, complete, closer, listener, rpcAt, state>>

-----------------------------------------------------------------------------
RpcStep(c) ==
    \/ RefOnRequest(c) \/ Allocate(c) \/ FailCallCreation(c)
    \/ UnrefOnRequest(c) \/ LastRequest(c)
CloserStep == ShutdownFinishes \/ AwaitRequests

Next ==
    /\ complete # "aborted"
    /\ \/ \E c \in Rpcs : PublishNewRpc(c) \/ RpcStep(c)
       \/ ShutdownAndNotify \/ CloserStep
       \/ ListenerDestroyDone \/ ChannelDestroy

Spec == Init /\ [][Next]_vars

-----------------------------------------------------------------------------
(* Properties                                                              *)

In(S) == {c \in Rpcs : rpcAt[c] \in S}

\* The variables keep their types, and the counter is exact.
TypeOK ==
    /\ refs = 2 * Cardinality(In({"allocate", "fail", "unref"}))
                + (IF closer = "idle" THEN 1 ELSE 0)
    /\ complete \in {"null", "waiting", "notified", "aborted"}
    /\ closer \in {"idle", "finish", "await", "done"}
    /\ {published, listener, channel} \subseteq BOOLEAN
    /\ rpcAt \in [Rpcs -> {"new", "match", "allocate", "fail", "unref", "last", "done"}]
    /\ state \in [Rpcs -> {"NOT_STARTED", "ACTIVATED", "ZOMBIED"}]

\* "The server should not notify on shutdown until the counter is 0 (shutdown
\* is called and there are no requests that are accepted but not started)": an
\* RPC that was accepted asks for its request, and begins an operation on the
\* completion queue, before the application is told that it may shut that down.
AcceptedIsStarted == published => In({"allocate"}) = {}

\* Whoever takes the last of the listener, the channel, the RPCs in flight and
\* the call of shutdown away publishes the shutdown.
LastOnePublishes ==
    (closer = "done" /\ ~listener /\ ~channel
       /\ In({"match", "allocate", "fail", "unref", "last"}) = {})
    => published \/ complete = "aborted"

\* "GPR_ASSERT(!requests_complete_->HasBeenNotified())": one RPC is the last one
\* in flight during a shutdown.
NotifiesOnce == complete # "aborted"
=============================================================================
