-------------------------- MODULE MCCompletionQueue --------------------------
(***************************************************************************)
(* The three kinds of completion queue for TLC: GRPC_CQ_NEXT               *)
(* (CompletionQueue), GRPC_CQ_PLUCK (PluckQueue, with more callers than    *)
(* the poller has room for and a tag that two operations share) and        *)
(* GRPC_CQ_CALLBACK (CallbackQueue).  They share no state: a behaviour     *)
(* lets one of them move and leaves the others in their initial states.    *)
(* Operations are symmetric, and so are c1 and c2.                         *)
(***************************************************************************)
EXTENDS CompletionQueue, TLC

CONSTANTS
    Tags, Tag, Pluckers, MaxPluckers,   \* of PluckQueue
    CallbackOps,                        \* of CallbackQueue
    o1, o2, t1                          \* model values

MCDeadlines == {"finite"}   \* one that never passes is as good as "inf"
OneTag == o1 :> t1 @@ o2 :> t1
Symm == Permutations(Ops) \cup Permutations(Callers)

VARIABLES
    part,               \* the one that moves
    pkCompleted, pkPending, pkShutdownCalled, pkShutdown, pkWorkers, pkKicked,
    pkKickedWithoutPoller, pkPluckers, pkOp, pkPc, pkTag, pkFirstLoop,
    pkDeadline, pkRet, pkShutdownDone, pkRefs, pkDestroyed,
    cbPending, cbShutdownCalled, cbOp, cbCloser, cbCallback, cbShutdownDone, cbRefs

PK == INSTANCE PluckQueue WITH
    Callers <- Pluckers,
    completed <- pkCompleted, pending <- pkPending,
    shutdownCalled <- pkShutdownCalled, shutdown <- pkShutdown,
    workers <- pkWorkers, kicked <- pkKicked,
    kickedWithoutPoller <- pkKickedWithoutPoller, pluckers <- pkPluckers,
    op <- pkOp, pc <- pkPc, tag <- pkTag, firstLoop <- pkFirstLoop,
    deadline <- pkDeadline, ret <- pkRet, shutdownDone <- pkShutdownDone,
    refs <- pkRefs, destroyed <- pkDestroyed

CB == INSTANCE CallbackQueue WITH
    Ops <- CallbackOps,
    pending <- cbPending, shutdownCalled <- cbShutdownCalled, op <- cbOp,
    closer <- cbCloser, callback <- cbCallback, shutdownDone <- cbShutdownDone,
    refs <- cbRefs

ASSUME QueuesAssumption == PK!PluckQueueConstants /\ CB!CallbackQueueConstants

pkVars == <<pkCompleted, pkPending, pkShutdownCalled, pkShutdown, pkWorkers,
            pkKicked, pkKickedWithoutPoller, pkPluckers, pkOp, pkPc, pkTag,
            pkFirstLoop, pkDeadline, pkRet, pkShutdownDone, pkRefs, pkDestroyed>>
cbVars == <<cbPending, cbShutdownCalled, cbOp, cbCloser, cbCallback, cbShutdownDone, cbRefs>>

AllInit ==
    /\ Init /\ PK!Init /\ CB!Init
    /\ part \in {"next", "pluck", "callback"}

AllNext ==
    /\ \/ part = "next" /\ Next /\ UNCHANGED <<pkVars, cbVars>>
       \/ part = "pluck" /\ PK!Next /\ UNCHANGED <<vars, cbVars>>
       \/ part = "callback" /\ CB!Next /\ UNCHANGED <<vars, pkVars>>
    /\ UNCHANGED part

AllSpec == AllInit /\ [][AllNext]_<<part, vars, pkVars, cbVars>>

-----------------------------------------------------------------------------
(* Properties, where they are not those of CompletionQueue                 *)

\* The variables of the three queues keep their types, and the counters of
\* GRPC_CQ_NEXT that are updated apart from its queue account for it.
TypesOK ==
    CASE part = "next" -> TypeOK /\ CountersAccount
      [] part = "pluck" -> PK!TypeOK
      [] part = "callback" -> CB!TypeOK

\* cq_finish_shutdown_next and cq_finish_shutdown_callback are reached once,
\* by the thread that ends the last operation or by the one that calls
\* shutdown, and the callback of the shutdown is scheduled.
FinishedOnce ==
    /\ part = "next" => FinishOnce
    /\ part = "callback" => CB!FinishOnce

\* A queue of any kind is freed when no thread will touch it again.
FreedWhenLeft ==
    CASE part = "next" -> FreedWhenUnused
      [] part = "pluck" -> PK!FreedWhenUnused
      [] part = "callback" -> CB!FreedWhenUnused

\* No caller of next sleeps on an event without one that will wake it, and no
\* plucker on a completion with its tag.
NoSleeperForgotten ==
    /\ part = "next" => NoLostWakeup
    /\ part = "pluck" => PK!SleeperKicked

\* GRPC_CQ_PLUCK: no event with its tag follows GRPC_QUEUE_SHUTDOWN.
NothingAfterShutdown == part = "pluck" => PK!NothingAfterShutdown
=============================================================================
