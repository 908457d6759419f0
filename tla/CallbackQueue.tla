---------------------------- MODULE CallbackQueue ----------------------------
(***************************************************************************)
(* The completion queue of type GRPC_CQ_CALLBACK                           *)
(* (src/core/lib/surface/completion_queue.cc).  It queues nothing: the end *)
(* of an operation schedules the callback that is its tag, and the end of  *)
(* the shutdown the callback that was given to its creation.               *)
(*                                                                         *)
(* An operation stands for the thread that executes its end_op.  The       *)
(* pollset schedules its closure as soon as it is shut down.               *)
(***************************************************************************)
EXTENDS Integers, FiniteSets

CONSTANT Ops        \* the operations that are begun on the queue

\* What is asked of the constant.
CallbackQueueConstants == IsFiniteSet(Ops)

VARIABLES
    pending,        \* pending_events
    shutdownCalled, \* shutdown_called
    op,             \* per operation: its place in end_op, and of its callback
    closer,         \* the call of shutdown: "idle", "finish", "finished", "out"
    callback,       \* the shutdown callback: "none", "scheduled", "twice" or "ran"
    shutdownDone,   \* on_pollset_shutdown_done: times scheduled
    refs            \* owning_refs

vars == <<pending, shutdownCalled, op, closer, callback, shutdownDone, refs>>

Init ==
    /\ pending = 1
    /\ shutdownCalled = FALSE
    /\ op = [o \in Ops |-> "idle"]
    /\ closer = "idle"
    /\ callback = "none"
    /\ shutdownDone = 0
    /\ refs = 2

OpGoto(o, from, to) ==
    /\ op[o] = from
    /\ op' = [op EXCEPT ![o] = to]

\* IncrementIfNonzero(&pending_events); the application adds no work after it
\* has called shutdown.
BeginOp(o) ==
    /\ ~shutdownCalled
    /\ pending # 0
    /\ OpGoto(o, "idle", "begun")
    /\ pending' = pending + 1
    /\ UNCHANGED <<shutdownCalled, closer, callback, shutdownDone, refs>>

\* cq_end_op_for_callback up to the fetch_sub; 1 means that nothing is left.
EndOp(o) ==
    /\ OpGoto(o, "begun", IF pending = 1 THEN "finish" ELSE "ended")
    /\ pending' = pending - 1
    /\ UNCHANGED <<shutdownCalled, closer, callback, shutdownDone, refs>>

\* cq_finish_shutdown_callback, which is not under cq->mu.
FinishShutdown ==
    /\ shutdownDone' = shutdownDone + 1
    /\ callback' = IF callback = "none" THEN "scheduled" ELSE "twice"

EndOpFinishes(o) ==
    /\ OpGoto(o, "finish", "ended")
    /\ FinishShutdown
    /\ UNCHANGED <<pending, shutdownCalled, closer, refs>>

\* The callback of the operation is scheduled, on the ExecCtx for callbacks or
\* on the executor, and executed; the queue is not touched any more.
OpCallback(o) ==
    /\ OpGoto(o, "ended", "called")
    /\ UNCHANGED <<pending, shutdownCalled, closer, callback, shutdownDone, refs>>

\* Mutant: the finish is left to the operations.
ShutdownLeavesIt ==
    /\ closer = "idle"
    /\ shutdownCalled' = TRUE
    /\ pending' = pending - 1
    /\ refs' = refs + 1
    /\ closer' = "finished"
    /\ UNCHANGED <<op, callback, shutdownDone>>

\* cq_shutdown_callback: a reference for the time of the call, and the
\* section under cq->mu.  A second call changes nothing.
Shutdown ==
    /\ closer = "idle"
    /\ shutdownCalled' = TRUE
    /\ pending' = pending - 1
    /\ refs' = refs + 1
    /\ closer' = IF pending = 1 THEN "finish" ELSE "finished"
    /\ UNCHANGED <<op, callback, shutdownDone>>

ShutdownFinishes ==
    /\ closer = "finish"
    /\ closer' = "finished"
    /\ FinishShutdown
    /\ UNCHANGED <<pending, shutdownCalled, op, refs>>

ShutdownReturns ==
    /\ closer = "finished"
    /\ closer' = "out"
    /\ refs' = refs - 1
    /\ UNCHANGED <<pending, shutdownCalled, op, callback, shutdownDone>>

PollsetShutdownDone ==
    /\ shutdownDone > 0
    /\ shutdownDone' = shutdownDone - 1
    /\ refs' = refs - 1
    /\ UNCHANGED <<pending, shutdownCalled, op, closer, callback>>

\* The shutdown callback of the C++ wrappers destroys the queue.
CallbackDestroys ==
    /\ callback = "scheduled"
    /\ callback' = "ran"
    /\ refs' = refs - 1
    /\ UNCHANGED <<pending, shutdownCalled, op, closer, shutdownDone>>

-----------------------------------------------------------------------------
OpStep(o) == EndOpFinishes(o) \/ OpCallback(o)
CloserStep == ShutdownFinishes \/ ShutdownReturns

Next ==
    \/ \E o \in Ops : BeginOp(o) \/ EndOp(o) \/ OpStep(o)
    \/ Shutdown \/ CloserStep
    \/ PollsetShutdownDone \/ CallbackDestroys

Spec == Init /\ [][Next]_vars

-----------------------------------------------------------------------------
(* Properties                                                              *)

In(S) == {o \in Ops : op[o] \in S}

TypeOK ==
    /\ pending \in 0 .. Cardinality(Ops) + 1
    /\ shutdownCalled \in BOOLEAN
    /\ op \in [Ops -> {"idle", "begun", "finish", "ended", "called"}]
    /\ closer \in {"idle", "finish", "finished", "out"}
    /\ callback \in {"none", "scheduled", "twice", "ran"}
    /\ shutdownDone \in 0 .. 1
    /\ refs \in Nat

\* The shutdown is finished by one thread, once, when no operation is left;
\* and it is: somebody is about to finish it, or has, as soon as shutdown was
\* called and the last operation has ended.
FinishOnce ==
    /\ callback # "twice"
    /\ Cardinality(In({"finish"})) + (IF closer = "finish" THEN 1 ELSE 0)
         + (IF callback # "none" THEN 1 ELSE 0)
       = (IF shutdownCalled /\ In({"begun"}) = {} THEN 1 ELSE 0)

\* The queue is freed when nobody will touch it again.
FreedWhenUnused ==
    refs = 0 => /\ In({"begun", "finish"}) = {}
                /\ closer = "out" /\ callback = "ran" /\ shutdownDone = 0
=============================================================================
