--------------------------- MODULE CompletionQueue ---------------------------
(***************************************************************************)
(* The completion queue of type GRPC_CQ_NEXT with the non-polling poller   *)
(* (src/core/lib/surface/completion_queue.cc): begin_op, end_op, next,     *)
(* shutdown, destroy, and the thread-local event cache.                    *)
(*                                                                         *)
(* Every atomic access is a step of its own, except that a section under   *)
(* cq->mu is one step: it touches the poller, which only such sections     *)
(* touch, and at most one atomic.  The event queue is the FifoQueue that   *)
(* Mpscq.tla implements.  An operation stands for its completion storage   *)
(* and for the thread that executes its end_op.  A completion stolen by    *)
(* ExecCtxNext::CheckReadyToFinish is one that Pop found before the next   *)
(* turn of the loop, and the turn returns it: it is modelled by that Pop.  *)
(***************************************************************************)
EXTENDS Integers, FiniteSets, SequencesExt

CONSTANTS
    Ops,            \* the operations that are begun on the queue
    Callers,        \* threads that call next
    Cachers,        \* those of them that use the event cache
    Deadlines,      \* the deadlines they give: "inf", "finite" or both
    Null            \* no thread, no event

ASSUME CompletionQueueAssumption ==
    /\ IsFiniteSet(Ops) /\ IsFiniteSet(Callers)
    /\ Null \notin Ops \cup Callers
    /\ {"off", "armed"} \cap Ops = {}
    /\ Cachers \subseteq Callers
    /\ Deadlines \subseteq {"inf", "finite"}

VARIABLES
    queue, pushing,             \* queue_, see FifoQueue
    queueLock,                  \* queue_lock_: its owner, or Null
    numItems,                   \* num_queue_items_
    pending,                    \* pending_events
    shutdownCalled,             \* shutdown_called
    workers,                    \* the list of non_polling_workers, root first
    kicked,                     \* the workers whose kicked flag is set
    kickedWithoutPoller,        \* kicked_without_poller
    pollerShutdown,             \* npp->shutdown is set
    shutdownDone,               \* on_pollset_shutdown_done: times scheduled
    refs,                       \* owning_refs
    destroyed,                  \* grpc_completion_queue_destroy was called
    op,                         \* per operation: where it is in its life
    pc,                         \* per caller: where it is in cq_next
    event,                      \* per caller: the completion it popped
    firstLoop,                  \* per caller: first_loop
    zeroPoll,                   \* per caller: iteration_deadline is 0
    deadline,                   \* per caller: "inf", "finite" or "past"
    cache,                      \* per caller: "off", "armed" or an event
    delivered,                  \* ghost: events handed to the application
    drained                     \* ghost: a next returned GRPC_QUEUE_SHUTDOWN

fifo == <<queue, pushing>>
counts == <<numItems, pending, shutdownCalled>>
poller == <<workers, kicked, kickedWithoutPoller, pollerShutdown>>
life == <<shutdownDone, refs, destroyed>>
locals == <<event, firstLoop, zeroPoll, deadline>>
ghosts == <<delivered, drained>>
vars == <<fifo, queueLock, counts, poller, life, op, pc, locals, cache, ghosts>>

Events == INSTANCE FifoQueue

Init ==
    /\ queue = <<>> /\ pushing = {}
    /\ queueLock = Null
    /\ numItems = 0
    /\ pending = 1
    /\ shutdownCalled = FALSE
    /\ workers = <<>> /\ kicked = {}
    /\ kickedWithoutPoller = FALSE
    /\ pollerShutdown = FALSE
    /\ shutdownDone = 0
    /\ refs = 2
    /\ destroyed = FALSE
    /\ op = [o \in Ops |-> "idle"]
    /\ pc = [c \in Callers |-> "out"]
    /\ event = [c \in Callers |-> Null]
    /\ firstLoop = [c \in Callers |-> TRUE]
    /\ zeroPoll = [c \in Callers |-> FALSE]
    /\ deadline = [c \in Callers |-> "inf"]
    /\ cache = [c \in Callers |-> "off"]
    /\ delivered = {}
    /\ drained = FALSE

-----------------------------------------------------------------------------
(* The non-polling poller.  Each operator is a section under cq->mu.       *)

\* non_polling_poller_kick(pollset, nullptr)
Kick ==
    /\ IF workers = <<>>
       THEN kickedWithoutPoller' = TRUE /\ UNCHANGED kicked
       ELSE kicked' = kicked \cup {Head(workers)} /\ UNCHANGED kickedWithoutPoller
    /\ UNCHANGED <<workers, pollerShutdown>>

\* non_polling_poller_shutdown: without workers the closure is scheduled
\* here, otherwise by the last worker that leaves.
PollerShutdown ==
    /\ pollerShutdown' = TRUE
    /\ shutdownDone' = shutdownDone + (IF workers = <<>> THEN 1 ELSE 0)
    /\ UNCHANGED <<workers, kicked, kickedWithoutPoller>>

\* non_polling_poller_work up to the wait
WorkReturnsAtOnce ==
    /\ pollerShutdown \/ kickedWithoutPoller
    /\ kickedWithoutPoller' = (kickedWithoutPoller /\ pollerShutdown)
    /\ UNCHANGED <<workers, kicked, pollerShutdown>>

WorkWaits(c) ==
    /\ ~pollerShutdown /\ ~kickedWithoutPoller
    /\ workers' = Append(workers, c)
    /\ kicked' = kicked \ {c}
    /\ UNCHANGED <<kickedWithoutPoller, pollerShutdown>>

\* Mutant: every worker that leaves schedules the closure.
WorkEndsEarly(c) ==
    /\ pollerShutdown \/ c \in kicked \/ zeroPoll[c] \/ deadline[c] = "past"
    /\ \E i \in DOMAIN workers : workers[i] = c /\ workers' = RemoveAt(workers, i)
    /\ kicked' = kicked \ {c}
    /\ shutdownDone' = shutdownDone + (IF pollerShutdown THEN 1 ELSE 0)
    /\ UNCHANGED <<kickedWithoutPoller, pollerShutdown>>

\* The wait ends, and the worker leaves the list.
WorkEnds(c) ==
    /\ pollerShutdown \/ c \in kicked \/ zeroPoll[c] \/ deadline[c] = "past"
    /\ \E i \in DOMAIN workers : workers[i] = c /\ workers' = RemoveAt(workers, i)
    /\ kicked' = kicked \ {c}
    /\ shutdownDone' = shutdownDone +
          (IF pollerShutdown /\ workers = <<c>> THEN 1 ELSE 0)
    /\ UNCHANGED <<kickedWithoutPoller, pollerShutdown>>

-----------------------------------------------------------------------------
(* begin_op and end_op                                                     *)

OpGoto(o, from, to) ==
    /\ op[o] = from
    /\ op' = [op EXCEPT ![o] = to]

\* IncrementIfNonzero(&pending_events).  The application adds no work once
\* it has called shutdown (grpc.h:161).
BeginOp(o) ==
    /\ pending # 0
    /\ ~shutdownCalled
    /\ ~destroyed
    /\ OpGoto(o, "idle", "begun")
    /\ pending' = pending + 1
    /\ UNCHANGED <<fifo, queueLock, numItems, shutdownCalled, poller, life, pc, locals, cache, ghosts>>

BeginOpRefused(o) ==
    /\ pending = 0
    /\ ~destroyed
    /\ OpGoto(o, "idle", "refused")
    /\ UNCHANGED <<fifo, queueLock, counts, poller, life, pc, locals, cache, ghosts>>

\* CqEventQueue::Push: the two steps of queue_.Push, then the counter.
PushClaim(o) ==
    /\ OpGoto(o, "begun", "claimed")
    /\ Events!Claim(o)
    /\ UNCHANGED <<queueLock, counts, poller, life, pc, locals, cache, ghosts>>

PushLink(o) ==
    /\ OpGoto(o, "claimed", "linked")
    /\ Events!Publish(o)
    /\ UNCHANGED <<queueLock, counts, poller, life, pc, locals, cache, ghosts>>

PushCount(o) ==
    /\ OpGoto(o, "linked", IF numItems = 0 THEN "first" ELSE "queued")
    /\ numItems' = numItems + 1
    /\ UNCHANGED <<fifo, queueLock, pending, shutdownCalled, poller, life, pc, locals, cache, ghosts>>

\* The load of pending_events.  1 means that this is the last operation:
\* the thread takes the reference "shutting_down" and will store 0.
EndOpLoad(o) ==
    \/ /\ pending # 1
       /\ \/ OpGoto(o, "first", "kick")
          \/ OpGoto(o, "queued", "drop")
       /\ UNCHANGED <<fifo, queueLock, counts, poller, life, pc, locals, cache, ghosts>>
    \/ /\ pending = 1
       /\ \/ OpGoto(o, "first", "zero")
          \/ OpGoto(o, "queued", "zero")
       /\ refs' = refs + 1
       /\ UNCHANGED <<fifo, queueLock, counts, poller, shutdownDone, destroyed, pc, locals, cache, ghosts>>

EndOpKick(o) ==
    /\ OpGoto(o, "kick", "drop")
    /\ Kick
    /\ UNCHANGED <<fifo, queueLock, counts, life, pc, locals, cache, ghosts>>

\* Mutant: every operation that ends after shutdown finishes it.
EndOpDropEager(o) ==
    /\ OpGoto(o, "drop", IF pending = 1 \/ shutdownCalled THEN "last" ELSE "returned")
    /\ pending' = pending - 1
    /\ UNCHANGED <<fifo, queueLock, numItems, shutdownCalled, poller, life, pc, locals, cache, ghosts>>

EndOpDrop(o) ==
    /\ OpGoto(o, "drop", IF pending = 1 THEN "last" ELSE "returned")
    /\ pending' = pending - 1
    /\ UNCHANGED <<fifo, queueLock, numItems, shutdownCalled, poller, life, pc, locals, cache, ghosts>>

EndOpRef(o) ==
    /\ OpGoto(o, "last", "finish")
    /\ refs' = refs + 1
    /\ UNCHANGED <<fifo, queueLock, counts, poller, shutdownDone, destroyed, pc, locals, cache, ghosts>>

EndOpStore(o) ==
    /\ OpGoto(o, "zero", "finish")
    /\ pending' = 0
    /\ UNCHANGED <<fifo, queueLock, numItems, shutdownCalled, poller, life, pc, locals, cache, ghosts>>

\* cq_finish_shutdown_next under cq->mu
EndOpFinish(o) ==
    /\ OpGoto(o, "finish", "finished")
    /\ PollerShutdown
    /\ UNCHANGED <<fifo, queueLock, counts, refs, destroyed, pc, locals, cache, ghosts>>

EndOpUnref(o) ==
    /\ OpGoto(o, "finished", "returned")
    /\ refs' = refs - 1
    /\ UNCHANGED <<fifo, queueLock, counts, poller, shutdownDone, destroyed, pc, locals, cache, ghosts>>

-----------------------------------------------------------------------------
(* The thread-local event cache                                            *)

CacheInit(c) ==
    /\ pc[c] = "out" /\ cache[c] = "off" /\ ~destroyed
    /\ cache' = [cache EXCEPT ![c] = "armed"]
    /\ UNCHANGED <<fifo, queueLock, counts, poller, life, op, pc, locals, ghosts>>

\* end_op in a thread whose cache is armed and empty
EndOpCached(o, c) ==
    /\ cache[c] = "armed"
    /\ OpGoto(o, "begun", "cached")
    /\ cache' = [cache EXCEPT ![c] = o]
    /\ UNCHANGED <<fifo, queueLock, counts, poller, life, pc, locals, ghosts>>

\* The cached event is delivered; what follows is the fetch_sub of end_op
\* and what hangs on it (EndOpDrop, EndOpRef, EndOpFinish, EndOpUnref).
CacheFlush(c) ==
    /\ cache[c] # "off"
    /\ cache' = [cache EXCEPT ![c] = "off"]
    /\ IF cache[c] = "armed"
       THEN UNCHANGED <<op, delivered>>
       ELSE /\ OpGoto(cache[c], "cached", "drop")
            /\ delivered' = delivered \cup {cache[c]}
    /\ UNCHANGED <<fifo, queueLock, counts, poller, life, pc, locals, drained>>

-----------------------------------------------------------------------------
(* cq_next                                                                 *)

Goto(c, from, to) ==
    /\ pc[c] = from
    /\ pc' = [pc EXCEPT ![c] = to]

CallNext(c, d) ==
    /\ ~destroyed
    /\ cache[c] = "off"
    /\ Goto(c, "out", "pop")
    /\ deadline' = [deadline EXCEPT ![c] = d]
    /\ refs' = refs + 1
    /\ UNCHANGED <<fifo, queueLock, counts, poller, shutdownDone, destroyed, op, event, firstLoop, zeroPoll, cache, ghosts>>

\* Time passes.
DeadlinePasses(c) ==
    /\ pc[c] # "out" /\ deadline[c] = "finite"
    /\ deadline' = [deadline EXCEPT ![c] = "past"]
    /\ UNCHANGED <<fifo, queueLock, counts, poller, life, op, pc, event, firstLoop, zeroPoll, cache, ghosts>>

\* CqEventQueue::Pop: gpr_spinlock_trylock
PopTryLock(c) ==
    /\ IF queueLock = Null
       THEN Goto(c, "pop", "locked") /\ queueLock' = c
       ELSE Goto(c, "pop", "null") /\ UNCHANGED queueLock
    /\ UNCHANGED <<fifo, counts, poller, life, op, locals, cache, ghosts>>

PopTakes(c) ==
    /\ Goto(c, "locked", "took")
    /\ queueLock' = Null
    /\ Events!Take
    /\ event' = [event EXCEPT ![c] = Head(queue)]
    /\ UNCHANGED <<counts, poller, life, op, firstLoop, zeroPoll, deadline, cache, ghosts>>

\* PopAndCheckEnd finds nothing, or is stopped by a push in progress.
PopFails(c) ==
    /\ queue = <<>> \/ pushing # {}
    /\ Goto(c, "locked", "null")
    /\ queueLock' = Null
    /\ UNCHANGED <<fifo, counts, poller, life, op, locals, cache, ghosts>>

\* num_queue_items_.fetch_sub, then c->done: GRPC_OP_COMPLETE
PopCount(c) ==
    /\ Goto(c, "took", "ret")
    /\ numItems' = numItems - 1
    /\ delivered' = delivered \cup {event[c]}
    /\ event' = [event EXCEPT ![c] = Null]
    /\ UNCHANGED <<fifo, queueLock, pending, shutdownCalled, poller, life, op, firstLoop, zeroPoll, deadline, cache, drained>>

\* Pop failed although items are counted: poll without waiting.
PopNull(c) ==
    /\ Goto(c, "null", "pending")
    /\ zeroPoll' = [zeroPoll EXCEPT ![c] = (numItems > 0)]
    /\ UNCHANGED <<fifo, queueLock, counts, poller, life, op, event, firstLoop, deadline, cache, ghosts>>

NextPending(c) ==
    /\ Goto(c, "pending", IF pending = 0 THEN "shut" ELSE "time")
    /\ UNCHANGED <<fifo, queueLock, counts, poller, life, op, locals, cache, ghosts>>

\* Mutant: pending_events = 0 is taken for an empty queue.
NextShutUnchecked(c) ==
    /\ Goto(c, "shut", "leave")
    /\ drained' = TRUE
    /\ UNCHANGED <<fifo, queueLock, counts, poller, life, op, locals, cache, delivered>>

\* GRPC_QUEUE_SHUTDOWN, unless items are counted.  pending_events stays 0,
\* so the check before the trailing kick fails.
NextShut(c) ==
    /\ IF numItems > 0
       THEN Goto(c, "shut", "pop") /\ UNCHANGED drained
       ELSE Goto(c, "shut", "ret") /\ drained' = TRUE
    /\ UNCHANGED <<fifo, queueLock, counts, poller, life, op, locals, cache, delivered>>

\* Mutant: a timeout returns at once, without the trailing kick.
NextTimeoutReturns(c) ==
    /\ ~firstLoop[c] /\ deadline[c] = "past"
    /\ Goto(c, "time", "leave")
    /\ UNCHANGED <<fifo, queueLock, counts, poller, life, op, locals, cache, ghosts>>

\* GRPC_QUEUE_TIMEOUT
NextTimeout(c) ==
    /\ ~firstLoop[c] /\ deadline[c] = "past"
    /\ Goto(c, "time", "ret")
    /\ UNCHANGED <<fifo, queueLock, counts, poller, life, op, locals, cache, ghosts>>

\* cq->poller_vtable->work
NextPoll(c) ==
    /\ firstLoop[c] \/ deadline[c] # "past"
    /\ \/ WorkReturnsAtOnce /\ Goto(c, "time", "pop")
       \/ WorkWaits(c) /\ Goto(c, "time", "wait")
    /\ firstLoop' = [firstLoop EXCEPT ![c] = FALSE]
    /\ UNCHANGED <<fifo, queueLock, counts, life, op, event, zeroPoll, deadline, cache, ghosts>>

NextWakes(c) ==
    /\ Goto(c, "wait", "pop")
    /\ WorkEnds(c)
    /\ UNCHANGED <<fifo, queueLock, counts, refs, destroyed, op, locals, cache, ghosts>>

\* The trailing check and kick: other items wake another worker.
TrailingItems(c) ==
    /\ Goto(c, "ret", IF numItems > 0 THEN "more" ELSE "leave")
    /\ UNCHANGED <<fifo, queueLock, counts, poller, life, op, locals, cache, ghosts>>

TrailingPending(c) ==
    /\ Goto(c, "more", IF pending > 0 THEN "kick" ELSE "leave")
    /\ UNCHANGED <<fifo, queueLock, counts, poller, life, op, locals, cache, ghosts>>

TrailingKick(c) ==
    /\ Goto(c, "kick", "leave")
    /\ Kick
    /\ UNCHANGED <<fifo, queueLock, counts, life, op, locals, cache, ghosts>>

ReturnNext(c) ==
    /\ Goto(c, "leave", "out")
    /\ refs' = refs - 1
    /\ firstLoop' = [firstLoop EXCEPT ![c] = TRUE]
    /\ zeroPoll' = [zeroPoll EXCEPT ![c] = FALSE]
    /\ deadline' = [deadline EXCEPT ![c] = "inf"]
    /\ UNCHANGED <<fifo, queueLock, counts, poller, shutdownDone, destroyed, op, event, cache, ghosts>>

-----------------------------------------------------------------------------
(* shutdown and destroy                                                    *)

\* cq_shutdown_next, under cq->mu; a second call changes nothing.  The caller has a
\* reference of its own until Destroy, so the one that is taken for the length of
\* the call is never the last and is left out.
Shutdown ==
    /\ ~shutdownCalled
    /\ shutdownCalled' = TRUE
    /\ pending' = pending - 1
    /\ IF pending = 1
       THEN PollerShutdown
       ELSE UNCHANGED <<poller, shutdownDone>>
    /\ UNCHANGED <<fifo, queueLock, numItems, refs, destroyed, op, pc, locals, cache, ghosts>>

\* on_pollset_shutdown_done gives up the reference of the poller.
PollsetShutdownDone ==
    /\ shutdownDone > 0
    /\ shutdownDone' = shutdownDone - 1
    /\ refs' = refs - 1
    /\ UNCHANGED <<fifo, queueLock, counts, poller, destroyed, op, pc, locals, cache, ghosts>>

\* The application destroys the queue after it has seen GRPC_QUEUE_SHUTDOWN.
Destroy ==
    /\ drained /\ ~destroyed
    /\ destroyed' = TRUE
    /\ refs' = refs - 1
    /\ UNCHANGED <<fifo, queueLock, counts, poller, shutdownDone, op, pc, locals, cache, ghosts>>

-----------------------------------------------------------------------------
EndOp(o) ==
    \/ PushClaim(o) \/ PushLink(o) \/ PushCount(o)
    \/ EndOpLoad(o) \/ EndOpKick(o) \/ EndOpDrop(o) \/ EndOpRef(o)
    \/ EndOpStore(o) \/ EndOpFinish(o) \/ EndOpUnref(o)

NextStep(c) ==
    \/ PopTryLock(c) \/ PopTakes(c) \/ PopFails(c) \/ PopCount(c) \/ PopNull(c)
    \/ NextPending(c) \/ NextShut(c) \/ NextTimeout(c) \/ NextPoll(c)
    \/ NextWakes(c) \/ TrailingItems(c) \/ TrailingPending(c)
    \/ TrailingKick(c) \/ ReturnNext(c)

Next ==
    \/ \E o \in Ops :
          \/ BeginOp(o) \/ BeginOpRefused(o) \/ EndOp(o)
          \/ \E c \in Cachers : EndOpCached(o, c)
    \/ \E c \in Callers :
          \/ \E d \in Deadlines : CallNext(c, d)
          \/ DeadlinePasses(c) \/ NextStep(c)
    \/ \E c \in Cachers : CacheInit(c) \/ CacheFlush(c)
    \/ Shutdown \/ PollsetShutdownDone \/ Destroy

Spec == Init /\ [][Next]_vars

-----------------------------------------------------------------------------
(* Properties                                                              *)

\* Operations whose count is in pending_events.
Outstanding ==
    {o \in Ops : op[o] \in {"begun", "cached", "claimed", "linked", "first",
                            "queued", "kick", "drop", "zero"}}

\* Operations whose thread is committed to cq_finish_shutdown_next.
Finishing == {o \in Ops : op[o] \in {"zero", "last", "finish"}}

\* Threads that are inside the queue.
EndingOps == {o \in Ops : op[o] \notin {"idle", "refused", "returned"}}
Inside == {c \in Callers : pc[c] # "out"}

\* The variables keep their types; no worker is listed twice and the shutdown
\* closure is never scheduled twice.
TypeOK ==
    /\ queue \in Seq(Ops) /\ pushing \subseteq Ops
    /\ queueLock \in Callers \cup {Null}
    /\ numItems \in Int
    /\ pending \in 0 .. Cardinality(Ops) + 1
    /\ shutdownCalled \in BOOLEAN
    /\ workers \in Seq(Callers) /\ IsInjective(workers)
    /\ kicked \subseteq ToSet(workers)
    /\ kickedWithoutPoller \in BOOLEAN
    /\ pollerShutdown \in BOOLEAN
    /\ shutdownDone \in 0 .. 1
    /\ refs \in Nat
    /\ destroyed \in BOOLEAN
    /\ op \in [Ops -> {"idle", "refused", "begun", "cached", "claimed", "linked",
                       "first", "queued", "kick", "drop", "zero", "last",
                       "finish", "finished", "returned"}]
    /\ pc \in [Callers -> {"out", "pop", "locked", "took", "null", "pending",
                           "shut", "time", "wait", "ret", "more", "kick", "leave"}]
    /\ event \in [Callers -> Ops \cup {Null}]
    /\ firstLoop \in [Callers -> BOOLEAN]
    /\ zeroPoll \in [Callers -> BOOLEAN]
    /\ deadline \in [Callers -> {"inf", "finite", "past"}]
    /\ cache \in [Callers -> {"off", "armed"} \cup Ops]
    /\ delivered \subseteq Ops
    /\ drained \in BOOLEAN

\* The lazy counter of CqEventQueue is off by exactly the pushes that have
\* claimed a place and not counted it and the pops that have taken an item
\* and not counted it; pending_events counts the owner and every operation
\* that was begun and not ended.
CountersAccount ==
    /\ numItems = Len(queue) + Cardinality({c \in Callers : pc[c] = "took"})
                     - Cardinality({o \in Ops : op[o] \in {"claimed", "linked"}})
    /\ pending = Cardinality(Outstanding) + (IF shutdownCalled THEN 0 ELSE 1)

\* GRPC_QUEUE_SHUTDOWN is the last thing the application sees: when a call of
\* next decides to return it (cq_next), every event of every operation that
\* was begun has been handed to the application.
ShutdownIsLast ==
    drained => /\ queue = <<>>
               /\ \A o \in Ops : op[o] \in {"idle", "refused"} \/ o \in delivered

\* cq_finish_shutdown_next is reached by one thread at a time and once in the
\* life of the queue, after shutdown was called and with nothing outstanding
\* but the thread's own operation.
FinishOnce ==
    \A o \in Finishing :
        /\ Finishing = {o}
        /\ shutdownCalled /\ ~pollerShutdown
        /\ Outstanding \subseteq {o}

\* The queue is freed (owning_refs = 0) only after destroy, when no thread is
\* inside it and no item is left (the assertion of ~cq_next_data); the closure
\* of the poller is scheduled only when no worker is in its list any more.
FreedWhenUnused ==
    /\ refs = 0 => /\ destroyed
                   /\ Inside = {} /\ EndingOps = {}
                   /\ numItems = 0 /\ queue = <<>>
    /\ EndingOps \cup Inside # {} => refs > 0
    /\ shutdownDone > 0 => workers = <<>>

\* A caller that sleeps in the poller until it is kicked.
Asleep(c) ==
    /\ pc[c] = "wait"
    /\ c \notin kicked
    /\ ~zeroPoll[c] /\ deadline[c] # "past" /\ ~pollerShutdown

\* No wakeup is lost: an item in the queue never waits for callers that all
\* sleep in the poller while no end_op is on its way to kick one of them.
\* Only the first item of a burst is followed by a kick, the others rely on
\* the trailing kick of cq_next.
NoLostWakeup ==
    (queue # <<>> /\ Inside # {}) =>
        \/ \E o \in Ops : op[o] \in {"claimed", "linked", "first", "kick"}
        \/ \E o \in Ops : op[o] \in {"queued", "zero", "last", "finish"}
        \/ \E c \in Inside : ~Asleep(c)
=============================================================================
