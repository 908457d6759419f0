----------------------------- MODULE PluckQueue -----------------------------
(***************************************************************************)
(* The completion queue of type GRPC_CQ_PLUCK with the non-polling poller  *)
(* (src/core/lib/surface/completion_queue.cc).  Everything but begin_op    *)
(* and the reference count happens under cq->mu, which only the wait in    *)
(* the poller gives up: one action is one section under the lock, from the *)
(* call or the wakeup to the return or the next wait.                      *)
(***************************************************************************)
EXTENDS Integers, FiniteSets, SequencesExt

CONSTANTS
    Ops,            \* the operations, each standing for its completion
    Tags,           \* the tags they carry and callers ask for
    Tag,            \* the tag of each operation
    Callers,        \* threads that call pluck
    MaxPluckers     \* GRPC_MAX_COMPLETION_QUEUE_PLUCKERS

\* What is asked of the constants.
PluckQueueConstants ==
    /\ IsFiniteSet(Ops) /\ IsFiniteSet(Callers)
    /\ Tags # {} /\ Tag \in [Ops -> Tags]
    /\ MaxPluckers \in Nat

VARIABLES
    completed,              \* the list from completed_head to completed_tail
    pending,                \* pending_events
    shutdownCalled,         \* shutdown_called
    shutdown,               \* shutdown, and npp->shutdown: set together
    workers,                \* the workers of the poller, root first
    kicked,                 \* those whose kicked flag is set
    kickedWithoutPoller,    \* kicked_without_poller
    pluckers,               \* pluckers[0 .. num_pluckers - 1], by caller
    op,                     \* per operation: "idle", "begun", "ended", "refused"
    pc,                     \* per caller: "out", "enter", "wait" or "leave"
    tag,                    \* per caller: the tag of its latest call
    firstLoop,              \* per caller: first_loop
    deadline,               \* per caller: "inf", "finite" or "past"
    ret,                    \* per caller: what its latest call returned
    shutdownDone,           \* on_pollset_shutdown_done: times scheduled
    refs,                   \* owning_refs
    destroyed               \* grpc_completion_queue_destroy was called

cq == <<completed, pending, shutdownCalled, shutdown>>
poller == <<workers, kicked, kickedWithoutPoller, pluckers>>
call == <<pc, tag, firstLoop, deadline, ret>>
life == <<shutdownDone, refs, destroyed>>
vars == <<cq, poller, op, call, life>>

Init ==
    /\ completed = <<>>
    /\ pending = 1
    /\ shutdownCalled = FALSE /\ shutdown = FALSE
    /\ workers = <<>> /\ kicked = {} /\ kickedWithoutPoller = FALSE
    /\ pluckers = <<>>
    /\ op = [o \in Ops |-> "idle"]
    /\ pc = [c \in Callers |-> "out"]
    /\ tag = [c \in Callers |-> CHOOSE t \in Tags : TRUE]
    /\ firstLoop = [c \in Callers |-> TRUE]
    /\ deadline = [c \in Callers |-> "inf"]
    /\ ret = [c \in Callers |-> "none"]
    /\ shutdownDone = 0
    /\ refs = 2
    /\ destroyed = FALSE

-----------------------------------------------------------------------------
\* IncrementIfNonzero(&pending_events).  The application begins no operation
\* after it has called shutdown.
BeginOp(o) ==
    /\ op[o] = "idle" /\ ~destroyed
    /\ \/ /\ pending # 0 /\ ~shutdownCalled
          /\ pending' = pending + 1
          /\ op' = [op EXCEPT ![o] = "begun"]
       \/ /\ pending = 0
          /\ op' = [op EXCEPT ![o] = "refused"]
          /\ UNCHANGED pending
    /\ UNCHANGED <<completed, shutdownCalled, shutdown, poller, call, life>>

\* Mutant: the kick goes to whichever worker is at the root.
KickForRoot(t) ==
    IF workers = <<>>
    THEN kickedWithoutPoller' = TRUE /\ UNCHANGED kicked
    ELSE kicked' = kicked \cup {Head(workers)} /\ UNCHANGED kickedWithoutPoller

\* The kick of end_op: the first plucker of the tag, or else any worker.
KickFor(t) ==
    LET i == SelectInSeq(pluckers, LAMBDA c : tag[c] = t)
    IN  IF i = 0 /\ workers = <<>>
        THEN kickedWithoutPoller' = TRUE /\ UNCHANGED kicked
        ELSE /\ kicked' = kicked \cup {IF i = 0 THEN Head(workers) ELSE pluckers[i]}
             /\ UNCHANGED kickedWithoutPoller

\* non_polling_poller_shutdown: without workers the closure is scheduled here,
\* otherwise by the last worker that leaves.
PollerShutdown == shutdownDone' = shutdownDone + (IF workers = <<>> THEN 1 ELSE 0)

\* cq_end_op_for_pluck; the last pending event finishes the shutdown.
EndOp(o) ==
    /\ op[o] = "begun"
    /\ op' = [op EXCEPT ![o] = "ended"]
    /\ completed' = Append(completed, o)
    /\ pending' = pending - 1
    /\ IF pending = 1
       THEN shutdown' = TRUE /\ PollerShutdown /\ UNCHANGED <<kicked, kickedWithoutPoller>>
       ELSE KickFor(Tag[o]) /\ UNCHANGED <<shutdown, shutdownDone>>
    /\ UNCHANGED <<shutdownCalled, workers, pluckers, call, refs, destroyed>>

\* cq_shutdown_pluck; a second call changes nothing.  The reference that is taken
\* for the length of the call is left out: the caller has one until Destroy.
Shutdown ==
    /\ ~shutdownCalled
    /\ shutdownCalled' = TRUE
    /\ pending' = pending - 1
    /\ shutdown' = (pending = 1)
    /\ IF pending = 1 THEN PollerShutdown ELSE UNCHANGED shutdownDone
    /\ UNCHANGED <<completed, poller, op, call, refs, destroyed>>

\* on_pollset_shutdown_done gives up the reference of the poller.
PollsetShutdownDone ==
    /\ shutdownDone > 0
    /\ shutdownDone' = shutdownDone - 1
    /\ refs' = refs - 1
    /\ UNCHANGED <<cq, poller, op, call, destroyed>>

\* The application destroys the queue when every operation has been plucked
\* and it knows of no pluck in progress, or one has returned
\* GRPC_QUEUE_SHUTDOWN.  Destroy calls Shutdown first.
Destroy ==
    /\ ~destroyed /\ shutdownCalled
    /\ completed = <<>> /\ \A o \in Ops : op[o] # "begun"
    /\ \/ \A c \in Callers : pc[c] = "out"
       \/ \E c \in Callers : pc[c] = "out" /\ ret[c] = "shutdown"
    /\ destroyed' = TRUE
    /\ refs' = refs - 1
    /\ UNCHANGED <<cq, poller, op, call, shutdownDone>>

-----------------------------------------------------------------------------
(* cq_pluck                                                                *)

\* No two callers pluck the same tag at a time.
CallPluck(c, t, d) ==
    /\ pc[c] = "out" /\ ~destroyed
    /\ \A b \in Callers \ {c} : pc[b] = "out" \/ tag[b] # t
    /\ pc' = [pc EXCEPT ![c] = "enter"]
    /\ tag' = [tag EXCEPT ![c] = t]
    /\ deadline' = [deadline EXCEPT ![c] = d]
    /\ ret' = [ret EXCEPT ![c] = "none"]
    /\ refs' = refs + 1
    /\ UNCHANGED <<cq, poller, op, firstLoop, shutdownDone, destroyed>>

\* Time passes.
DeadlinePasses(c) ==
    /\ pc[c] \in {"enter", "wait"} /\ deadline[c] = "finite"
    /\ deadline' = [deadline EXCEPT ![c] = "past"]
    /\ UNCHANGED <<cq, poller, op, pc, tag, firstLoop, ret, life>>

\* The caller holds cq->mu at the top of the loop: it has just called, or
\* its wait in the poller is over.
AtTop(c) ==
    \/ pc[c] = "enter"
    \/ pc[c] = "wait" /\ (shutdown \/ c \in kicked \/ deadline[c] = "past")

\* Mutant: the last plucker is dropped and not moved.
DelPluckerDropsLast(s, c) == IF Contains(s, c) THEN Front(s) ELSE s

\* del_plucker: the last plucker takes the place of the one that leaves.
DelPlucker(s, c) ==
    LET i == SelectInSeq(s, LAMBDA b : b = c)
    IN  IF i = 0 THEN s
        ELSE SubSeq([s EXCEPT ![i] = Last(s)], 1, Len(s) - 1)

\* What is left of the list of workers when c is at the top of the loop.
LeavePoller(c) ==
    /\ workers' = RemoveFirst(workers, c)
    /\ kicked' = kicked \ {c}
    /\ pluckers' = DelPlucker(pluckers, c)
    /\ shutdownDone' = shutdownDone + (IF shutdown /\ workers = <<c>> THEN 1 ELSE 0)

\* The result is r, and the local variables of the loop are gone.
Return(c, r) ==
    /\ pc' = [pc EXCEPT ![c] = "leave"]
    /\ ret' = [ret EXCEPT ![c] = r]
    /\ firstLoop' = [firstLoop EXCEPT ![c] = TRUE]
    /\ deadline' = [deadline EXCEPT ![c] = "inf"]
    /\ UNCHANGED <<tag, op, refs, destroyed>>

\* cq_pluck returns.
ReturnPluck(c) ==
    /\ pc[c] = "leave"
    /\ pc' = [pc EXCEPT ![c] = "out"]
    /\ refs' = refs - 1
    /\ UNCHANGED <<cq, poller, op, tag, firstLoop, deadline, ret, shutdownDone, destroyed>>

\* The first completion with the caller's tag, or 0.
Find(c) == SelectInSeq(completed, LAMBDA o : Tag[o] = tag[c])

PluckFound(c) ==
    /\ AtTop(c) /\ Find(c) # 0
    /\ completed' = RemoveAt(completed, Find(c))
    /\ LeavePoller(c)
    /\ Return(c, "event")
    /\ UNCHANGED <<pending, shutdownCalled, shutdown, kickedWithoutPoller>>

\* Mutant: the shutdown is looked at before the list of completions.
PluckShutdownFirst(c) ==
    /\ AtTop(c)
    /\ shutdown
    /\ LeavePoller(c)
    /\ Return(c, "shutdown")
    /\ UNCHANGED <<cq, kickedWithoutPoller>>

PluckShutdown(c) ==
    /\ AtTop(c) /\ Find(c) = 0
    /\ shutdown
    /\ LeavePoller(c)
    /\ Return(c, "shutdown")
    /\ UNCHANGED <<cq, kickedWithoutPoller>>

\* add_plucker finds no room: GRPC_QUEUE_TIMEOUT, whatever the deadline.
PluckTooMany(c) ==
    /\ AtTop(c) /\ Find(c) = 0 /\ ~shutdown
    /\ Len(DelPlucker(pluckers, c)) = MaxPluckers
    /\ LeavePoller(c)
    /\ Return(c, "timeout")
    /\ UNCHANGED <<cq, kickedWithoutPoller>>

\* Is this turn, or the one after a poll that returns at once, too late?
TooLate(c) ==
    /\ deadline[c] = "past"
    /\ ~firstLoop[c] \/ kickedWithoutPoller

PluckTimeout(c) ==
    /\ AtTop(c) /\ Find(c) = 0 /\ ~shutdown
    /\ Len(DelPlucker(pluckers, c)) < MaxPluckers
    /\ TooLate(c)
    /\ LeavePoller(c)
    /\ kickedWithoutPoller' = (kickedWithoutPoller /\ ~firstLoop[c])
    /\ Return(c, "timeout")
    /\ UNCHANGED cq

\* work clears a kick that found no worker and returns, and the loop comes
\* back to the wait without having given up cq->mu.
PluckWaits(c) ==
    /\ AtTop(c) /\ Find(c) = 0 /\ ~shutdown
    /\ Len(DelPlucker(pluckers, c)) < MaxPluckers
    /\ ~TooLate(c)
    /\ workers' = Append(RemoveFirst(workers, c), c)
    /\ kicked' = kicked \ {c}
    /\ pluckers' = Append(DelPlucker(pluckers, c), c)
    /\ kickedWithoutPoller' = FALSE
    /\ pc' = [pc EXCEPT ![c] = "wait"]
    /\ firstLoop' = [firstLoop EXCEPT ![c] = FALSE]
    /\ UNCHANGED <<cq, op, tag, deadline, ret, life>>

Pluck(c) ==
    \/ PluckFound(c) \/ PluckShutdown(c) \/ PluckTooMany(c)
    \/ PluckTimeout(c) \/ PluckWaits(c) \/ ReturnPluck(c)

Next ==
    \/ \E o \in Ops : BeginOp(o) \/ EndOp(o)
    \/ Shutdown \/ PollsetShutdownDone \/ Destroy
    \/ \E c \in Callers :
          \/ \E t \in Tags, d \in {"inf", "finite"} : CallPluck(c, t, d)
          \/ DeadlinePasses(c)
          \/ Pluck(c)

Spec == Init /\ [][Next]_vars

-----------------------------------------------------------------------------
(* Properties                                                              *)

\* The variables keep their types; the pluckers, the workers of the poller and
\* the callers that wait are the same threads, and there is room for them.
TypeOK ==
    /\ completed \in Seq(Ops)
    /\ pending \in 0 .. Cardinality(Ops) + 1
    /\ shutdownCalled \in BOOLEAN /\ shutdown \in BOOLEAN
    /\ workers \in Seq(Callers) /\ IsInjective(workers)
    /\ pluckers \in Seq(Callers) /\ IsInjective(pluckers)
    /\ ToSet(workers) = {c \in Callers : pc[c] = "wait"}
    /\ ToSet(pluckers) = ToSet(workers)
    /\ Len(pluckers) <= MaxPluckers
    /\ kicked \subseteq ToSet(workers)
    /\ kickedWithoutPoller \in BOOLEAN
    /\ op \in [Ops -> {"idle", "refused", "begun", "ended"}]
    /\ pc \in [Callers -> {"out", "enter", "wait", "leave"}]
    /\ tag \in [Callers -> Tags]
    /\ firstLoop \in [Callers -> BOOLEAN]
    /\ deadline \in [Callers -> {"inf", "finite", "past"}]
    /\ ret \in [Callers -> {"none", "event", "shutdown", "timeout"}]
    /\ shutdownDone \in 0 .. 1
    /\ refs \in Nat /\ destroyed \in BOOLEAN

\* No plucker sleeps on while a completion with its tag is in the list: end_op
\* has kicked it, or the shutdown wakes it.
SleeperKicked ==
    \A c \in Callers : (pc[c] = "wait" /\ Find(c) # 0) => (c \in kicked \/ shutdown)

\* A pluck that returns GRPC_QUEUE_SHUTDOWN leaves no event with its tag behind
\* and none comes later.
NothingAfterShutdown ==
    \A c \in Callers : ret[c] = "shutdown" =>
        /\ Find(c) = 0
        /\ \A o \in Ops : op[o] = "begun" => Tag[o] # tag[c]

Inside == {c \in Callers : pc[c] # "out"}

\* The queue is freed (owning_refs = 0) only after destroy, when no thread is
\* inside it and nothing is left in its list; the closure of the poller is
\* scheduled only when no worker is in its list any more.
FreedWhenUnused ==
    /\ refs = 0 => destroyed /\ Inside = {} /\ completed = <<>>
    /\ Inside # {} => refs > 0
    /\ shutdownDone > 0 => workers = <<>>
=============================================================================
