---------------------------- MODULE ThreadManager ----------------------------
(***************************************************************************)
(* The threads of a synchronous C++ server                                 *)
(* (src/cpp/thread_manager/thread_manager.{h,cc}, the derived class        *)
(* SyncRequestThreadManager of src/cpp/server/server_cc.cc, and the thread *)
(* quota of src/core/lib/iomgr/resource_quota.cc): workers poll a          *)
(* completion queue, start another poller when too few are left, and leave *)
(* when there are too many; the owner shuts the manager down, waits for    *)
(* the workers and destroys it.                                            *)
(*                                                                         *)
(* A section under mu_ or list_mu_ is one step.  The quota's own mutex is  *)
(* only taken for one section at a time.  The completion queue is external *)
(* here: it holds a number of events and a shutdown flag, and a poll of it *)
(* may end with a timeout at any moment.                                   *)
(***************************************************************************)
EXTENDS Integers, FiniteSets

CONSTANTS
    Threads,        \* WorkerThread objects; a deleted one is used again
    min_pollers_, max_pollers_,
    max_threads,    \* of the resource quota
    MaxBacklog      \* bound on the events that wait in the queue

Owner == "owner"

\* What is asked of the constants.
ThreadManagerConstants ==
    /\ IsFiniteSet(Threads) /\ Owner \notin Threads
    /\ min_pollers_ \in Nat \ {0} /\ max_pollers_ \in Nat \ {0}
    /\ max_threads \in Nat /\ min_pollers_ <= max_threads
    /\ min_pollers_ <= Cardinality(Threads)
    /\ MaxBacklog \in Nat

VARIABLES
    shutdown_, num_pollers_, num_threads_, max_active_threads_sofar_,
    completed_threads_,
    rqThreads,      \* num_threads_allocated of the quota, all users together
    ruThreads,      \* num_threads_allocated of resource_user_
    ru,             \* resource_user_, see RuStates
    ruLeft,         \* what ru_destroy found allocated
    events, cqShutdown,     \* server_cq_
    pc,             \* per worker: its place in Run
    joining,        \* per worker and owner: the threads it still has to delete
    owner,          \* where the owner is
    toStart         \* workers Initialize has not started yet

counters == <<shutdown_, num_pollers_, num_threads_, max_active_threads_sofar_>>
quota == <<rqThreads, ruThreads, ru, ruLeft>>
cq == <<events, cqShutdown>>
vars == <<counters, completed_threads_, quota, cq, pc, joining, owner, toStart>>

\* The states of a worker: no object, in PollForWork, back from it, about to
\* create a thread, in DoWork with or without resources, out of the loop,
\* joining others, in MarkAsCompleted, and with Run behind it.
WorkerStates == {"none", "poll", "found", "timeout", "shutdown", "spawn", "work",
                 "exhausted", "worked", "cleanup", "join", "mark", "count", "free",
                 "finished"}

\* The states of the resource user: in use, without references, in ru_destroy,
\* deleted.  When it aborts the process, nothing moves any more.
RuStates == {"alive", "unreffed", "destroying", "destroyed", "aborted"}

At(S) == {t \in Threads : pc[t] \in S}

\* Initialize up to its loop: the quota has room for min_pollers_, or the
\* process is aborted.
Init ==
    /\ shutdown_ = FALSE
    /\ num_pollers_ = min_pollers_
    /\ num_threads_ = min_pollers_
    /\ max_active_threads_sofar_ = min_pollers_
    /\ completed_threads_ = {}
    /\ rqThreads = min_pollers_ /\ ruThreads = min_pollers_
    /\ ru = "alive" /\ ruLeft = 0
    /\ events = 0 /\ cqShutdown = FALSE
    /\ pc = [t \in Threads |-> "none"]
    /\ joining = [a \in Threads \cup {Owner} |-> {}]
    /\ owner = "initialize"
    /\ toStart = min_pollers_

Goto(t, l) == pc' = [pc EXCEPT ![t] = l]

-----------------------------------------------------------------------------
(* The thread quota.  All managers of a server, and whoever else was given  *)
(* it, share one quota.                                                    *)

\* grpc_resource_user_allocate_threads(resource_user_, 1)
MayAllocate == rqThreads + 1 <= max_threads

Allocate ==
    /\ rqThreads' = rqThreads + 1
    /\ ruThreads' = ruThreads + 1
    /\ UNCHANGED <<ru, ruLeft>>

\* grpc_resource_user_free_threads(resource_user_, n), which leaves the resource
\* user in state r, or aborts: "Releasing more threads than currently allocated".
FreeThreads(n, r) ==
    IF ruThreads < n \/ rqThreads < n
    THEN ru' = "aborted" /\ UNCHANGED <<rqThreads, ruThreads>>
    ELSE ru' = r /\ rqThreads' = rqThreads - n /\ ruThreads' = ruThreads - n

OtherAllocates ==
    /\ MayAllocate
    /\ rqThreads' = rqThreads + 1
    /\ UNCHANGED <<counters, completed_threads_, ruThreads, ru, ruLeft, cq, pc, joining,
                   owner, toStart>>

OtherFrees ==
    /\ rqThreads > ruThreads
    /\ rqThreads' = rqThreads - 1
    /\ UNCHANGED <<counters, completed_threads_, ruThreads, ru, ruLeft, cq, pc, joining,
                   owner, toStart>>

-----------------------------------------------------------------------------
(* MainWorkLoop                                                            *)

\* PollForWork: AsyncNext on the queue
PollForWork(t) ==
    /\ pc[t] = "poll"
    /\ \/ /\ events > 0
          /\ events' = events - 1
          /\ Goto(t, "found")
       \/ /\ events = 0 /\ cqShutdown
          /\ Goto(t, "shutdown")
          /\ UNCHANGED events
       \/ /\ Goto(t, "timeout")
          /\ UNCHANGED events
    /\ UNCHANGED <<counters, completed_threads_, quota, cqShutdown, joining, owner, toStart>>

\* Mutant: one poller too few.
PollAgainOneLess(t, done, pollers) ==
    IF ~done /\ pollers + 1 < max_pollers_
    THEN num_pollers_' = pollers + 1 /\ Goto(t, "poll")
    ELSE num_pollers_' = pollers /\ Goto(t, "cleanup")

\* The end of the loop's body: poll again, or leave
PollAgainOrLeave(t, done, pollers) ==
    IF ~done /\ pollers < max_pollers_
    THEN num_pollers_' = pollers + 1 /\ Goto(t, "poll")
    ELSE num_pollers_' = pollers /\ Goto(t, "cleanup")

\* TIMEOUT and SHUTDOWN: one section under mu_
NothingFound(t) ==
    /\ pc[t] \in {"timeout", "shutdown"}
    /\ LET pollers == num_pollers_ - 1
           done == pc[t] = "shutdown" \/ shutdown_ \/ pollers > max_pollers_
       IN  PollAgainOrLeave(t, done, pollers)
    /\ UNCHANGED <<shutdown_, num_threads_, max_active_threads_sofar_,
                   completed_threads_, quota, cq, joining, owner, toStart>>

\* WORK_FOUND up to the point where the lock is released
WorkFound(t) ==
    /\ pc[t] = "found"
    /\ LET pollers == num_pollers_ - 1
           wanted == ~shutdown_ /\ pollers < min_pollers_
       IN  IF wanted /\ MayAllocate
           THEN /\ num_pollers_' = pollers + 1
                /\ num_threads_' = num_threads_ + 1
                /\ max_active_threads_sofar_' =
                      IF num_threads_ + 1 > max_active_threads_sofar_
                      THEN num_threads_ + 1 ELSE max_active_threads_sofar_
                /\ Allocate
                /\ Goto(t, "spawn")
           ELSE /\ num_pollers_' = pollers
                /\ Goto(t, IF wanted /\ pollers = 0 THEN "exhausted" ELSE "work")
                /\ UNCHANGED <<num_threads_, max_active_threads_sofar_, quota>>
    /\ UNCHANGED <<shutdown_, completed_threads_, cq, joining, owner, toStart>>

\* new WorkerThread, and Start
Spawn(t, u) ==
    /\ pc[t] = "spawn" /\ pc[u] = "none"
    /\ pc' = [pc EXCEPT ![t] = "work", ![u] = "poll"]
    /\ UNCHANGED <<counters, completed_threads_, quota, cq, joining, owner, toStart>>

\* Mutant: the failure undoes the count of the threads only.
SpawnFailsKeepingPoller(t) ==
    /\ pc[t] = "spawn"
    /\ num_threads_' = num_threads_ - 1
    /\ Goto(t, "exhausted")
    /\ UNCHANGED <<shutdown_, num_pollers_, max_active_threads_sofar_, completed_threads_,
                   quota, cq, joining, owner, toStart>>

\* The thread could not be created.  Its part of the quota is not given back.
SpawnFails(t) ==
    /\ pc[t] = "spawn"
    /\ num_pollers_' = num_pollers_ - 1
    /\ num_threads_' = num_threads_ - 1
    /\ Goto(t, "exhausted")
    /\ UNCHANGED <<shutdown_, max_active_threads_sofar_, completed_threads_,
                   quota, cq, joining, owner, toStart>>

\* DoWork, with the resources or without
DoWork(t) ==
    /\ pc[t] \in {"work", "exhausted"}
    /\ Goto(t, "worked")
    /\ UNCHANGED <<counters, completed_threads_, quota, cq, joining, owner, toStart>>

\* The section after DoWork
WorkDone(t) ==
    /\ pc[t] = "worked"
    /\ PollAgainOrLeave(t, shutdown_, num_pollers_)
    /\ UNCHANGED <<shutdown_, num_threads_, max_active_threads_sofar_,
                   completed_threads_, quota, cq, joining, owner, toStart>>

-----------------------------------------------------------------------------
(* CleanupCompletedThreads and MarkAsCompleted                             *)

\* Swap out the list of completed threads.
SwapCompleted(a) ==
    /\ joining' = [joining EXCEPT ![a] = completed_threads_]
    /\ completed_threads_' = {}

\* Mutant: the thread is on the list that it cleans up.
CleanupWithItself(t) ==
    /\ pc[t] = "cleanup"
    /\ joining' = [joining EXCEPT ![t] = completed_threads_ \cup {t}]
    /\ completed_threads_' = {}
    /\ Goto(t, "join")
    /\ UNCHANGED <<counters, quota, cq, owner, toStart>>

Cleanup(t) ==
    /\ pc[t] = "cleanup"
    /\ SwapCompleted(t)
    /\ Goto(t, "join")
    /\ UNCHANGED <<counters, quota, cq, owner, toStart>>

\* delete thd: Join waits for the thread.
Delete(a, u) ==
    /\ u \in joining[a]
    /\ pc[u] = "finished"
    /\ joining' = [joining EXCEPT ![a] = @ \ {u}]
    /\ Goto(u, "none")
    /\ UNCHANGED <<counters, completed_threads_, quota, cq, owner, toStart>>

Joined(t) ==
    /\ pc[t] = "join" /\ joining[t] = {}
    /\ Goto(t, "mark")
    /\ UNCHANGED <<counters, completed_threads_, quota, cq, joining, owner, toStart>>

\* MarkAsCompleted, first section
MarkAsCompleted(t) ==
    /\ pc[t] = "mark"
    /\ completed_threads_' = completed_threads_ \cup {t}
    /\ Goto(t, "count")
    /\ UNCHANGED <<counters, quota, cq, joining, owner, toStart>>

\* Mutant: the quota is given back here already.
CountDownAndGiveBack(t) ==
    /\ pc[t] = "count"
    /\ num_threads_' = num_threads_ - 1
    /\ FreeThreads(1, ru)
    /\ Goto(t, "free")
    /\ UNCHANGED <<shutdown_, num_pollers_, max_active_threads_sofar_,
                   completed_threads_, ruLeft, cq, joining, owner, toStart>>

\* second section.  The signal wakes the owner, whose Wait looks at the count.
CountDown(t) ==
    /\ pc[t] = "count"
    /\ num_threads_' = num_threads_ - 1
    /\ Goto(t, "free")
    /\ UNCHANGED <<shutdown_, num_pollers_, max_active_threads_sofar_,
                   completed_threads_, quota, cq, joining, owner, toStart>>

\* "Give a thread back to the resource quota".  The owner's Wait may be over and
\* the resource user deleted: what is left in its memory then is a count of 0.
GiveBack(t) ==
    /\ pc[t] = "free"
    /\ FreeThreads(1, ru)
    /\ Goto(t, "finished")
    /\ UNCHANGED <<counters, completed_threads_, ruLeft, cq, joining, owner, toStart>>

\* The same after the memory of the deleted resource user was used again: the
\* count found there passes for one of allocated threads.
GiveBackUnowned(t) ==
    /\ pc[t] = "free" /\ ru = "destroyed" /\ rqThreads > 0
    /\ rqThreads' = rqThreads - 1
    /\ Goto(t, "finished")
    /\ UNCHANGED <<counters, completed_threads_, ruThreads, ru, ruLeft, cq, joining,
                   owner, toStart>>

-----------------------------------------------------------------------------
(* The owner                                                               *)

\* The loop of Initialize.  It asserts that each thread can be created.
StartWorker(u) ==
    /\ owner = "initialize" /\ toStart > 0 /\ pc[u] = "none"
    /\ Goto(u, "poll")
    /\ toStart' = toStart - 1
    /\ UNCHANGED <<counters, completed_threads_, quota, cq, joining, owner>>

\* SyncRequestThreadManager::Shutdown: the manager first, then the queue
Shutdown ==
    /\ owner = "initialize" /\ toStart = 0
    /\ shutdown_' = TRUE
    /\ owner' = "shutdown cq"
    /\ UNCHANGED <<num_pollers_, num_threads_, max_active_threads_sofar_,
                   completed_threads_, quota, cq, pc, joining, toStart>>

ShutdownCq ==
    /\ owner = "shutdown cq"
    /\ cqShutdown' = TRUE
    /\ owner' = "wait"
    /\ UNCHANGED <<counters, completed_threads_, quota, events, pc, joining, toStart>>

\* Wait returns when num_threads_ is 0.
WaitReturns ==
    /\ owner = "wait" /\ num_threads_ = 0
    /\ owner' = "drain"
    /\ UNCHANGED <<counters, completed_threads_, quota, cq, pc, joining, toStart>>

\* What is left in the queue is cleaned up.
Drain ==
    /\ owner = "drain"
    /\ events' = 0
    /\ owner' = "destroy"
    /\ UNCHANGED <<counters, completed_threads_, quota, cqShutdown, pc, joining, toStart>>

\* ~ThreadManager asserts num_threads_ = 0 and drops its reference to the
\* resource user: the last one, so ru_destroy is queued on the combiner of
\* the quota.
Unref ==
    /\ owner = "destroy"
    /\ ru' = "unreffed"
    /\ owner' = "cleanup"
    /\ UNCHANGED <<counters, completed_threads_, rqThreads, ruThreads, ruLeft, cq, pc,
                   joining, toStart>>

OwnerCleanup ==
    /\ owner = "cleanup"
    /\ SwapCompleted(Owner)
    /\ owner' = "join"
    /\ UNCHANGED <<counters, quota, cq, pc, toStart>>

\* All workers are joined: the destructor of exec_ctx flushes the combiner.
OwnerJoined ==
    /\ owner = "join" /\ joining[Owner] = {}
    /\ owner' = "flush"
    /\ UNCHANGED <<counters, completed_threads_, quota, cq, pc, joining, toStart>>

\* ru_destroy runs in the flush, or before or after it when another thread is
\* executing in the combiner of the quota.  It looks at what is left, outside
\* the lock of the quota,
RuLook ==
    /\ ru = "unreffed"
    /\ ru' = "destroying"
    /\ ruLeft' = ruThreads
    /\ UNCHANGED <<counters, completed_threads_, rqThreads, ruThreads, cq, pc, joining,
                   owner, toStart>>

\* Mutant: what is left of the quota is forgotten.
RuDestroyForgets ==
    /\ ru = "destroying"
    /\ ru' = "destroyed"
    /\ UNCHANGED <<counters, completed_threads_, rqThreads, ruThreads, ruLeft, cq, pc,
                   joining, owner, toStart>>

\* and gives that back.
RuDestroy ==
    /\ ru = "destroying"
    /\ FreeThreads(ruLeft, "destroyed")
    /\ UNCHANGED <<counters, completed_threads_, ruLeft, cq, pc, joining, owner, toStart>>

\* The destructor returns.  When another thread has the combiner, it does not
\* wait for ru_destroy.
Destroyed ==
    /\ owner = "flush"
    /\ owner' = "gone"
    /\ UNCHANGED <<counters, completed_threads_, quota, cq, pc, joining, toStart>>

\* External: the server puts an event into the queue.
Arrive ==
    /\ ~cqShutdown /\ events < MaxBacklog
    /\ events' = events + 1
    /\ UNCHANGED <<counters, completed_threads_, quota, cqShutdown, pc, joining, owner, toStart>>

-----------------------------------------------------------------------------
Alive == ru # "aborted"

Worker(t) ==
    /\ Alive
    /\ \/ PollForWork(t) \/ NothingFound(t) \/ WorkFound(t)
       \/ (\E u \in Threads : Spawn(t, u)) \/ SpawnFails(t)
       \/ DoWork(t) \/ WorkDone(t)
       \/ Cleanup(t) \/ (\E u \in Threads : Delete(t, u)) \/ Joined(t)
       \/ MarkAsCompleted(t) \/ CountDown(t) \/ GiveBack(t) \/ GiveBackUnowned(t)

\* The owner, and whoever executes in the combiner of the quota
Stop ==
    /\ Alive
    /\ \/ ShutdownCq \/ WaitReturns \/ Drain \/ Unref \/ OwnerCleanup
       \/ (\E u \in Threads : Delete(Owner, u)) \/ OwnerJoined
       \/ RuLook \/ RuDestroy \/ Destroyed

Initialize == \E u \in Threads : StartWorker(u)

Other == Alive /\ (OtherAllocates \/ OtherFrees)

Next == (\E t \in Threads : Worker(t)) \/ Initialize \/ Shutdown \/ Stop \/ Other \/ Arrive

Spec == Init /\ [][Next]_vars

\* Every thread goes on, DoWork included.  Nobody has to shut the server down,
\* and nothing is asked of the queue or of the other users of the quota.
Fairness ==
    /\ \A t \in Threads : WF_vars(Worker(t))
    /\ WF_vars(Initialize) /\ WF_vars(Stop)

FairSpec == Spec /\ Fairness

-----------------------------------------------------------------------------
(* Properties                                                              *)

TypeOK ==
    /\ shutdown_ \in BOOLEAN /\ cqShutdown \in BOOLEAN
    /\ num_pollers_ \in 0 .. max_threads /\ num_threads_ \in 0 .. max_threads
    /\ max_active_threads_sofar_ \in 0 .. max_threads
    /\ completed_threads_ \subseteq Threads
    /\ rqThreads \in 0 .. max_threads /\ ruThreads \in 0 .. max_threads
    /\ ru \in RuStates /\ ruLeft \in 0 .. max_threads
    /\ events \in 0 .. MaxBacklog
    /\ pc \in [Threads -> WorkerStates]
    /\ joining \in [Threads \cup {Owner} -> SUBSET Threads]
    /\ owner \in {"initialize", "shutdown cq", "wait", "drain", "destroy", "cleanup",
                  "join", "flush", "gone"}
    /\ toStart \in 0 .. min_pollers_

Polling == At({"poll", "found", "timeout", "shutdown"})
Counted == At(WorkerStates \ {"none", "free", "finished"})
Spawning == At({"spawn"})

\* The two counters that the workers raise before they create a thread and
\* lower apart from leaving say how many threads poll and how many there are:
\* a thread about to be created is counted, and one that failed to is not.
CountersExact ==
    /\ TypeOK
    /\ num_pollers_ = Cardinality(Polling) + Cardinality(Spawning) + toStart
    /\ num_threads_ = Cardinality(Counted) + Cardinality(Spawning) + toStart

\* As long as the resource user exists, the operating system's threads that run
\* for the manager, with those to come, never exceed what it holds of the quota,
\* whoever else allocates from it: SpawnFails gives nothing back, and a worker
\* gives back its own part, last.
QuotaCoversThreads ==
    ru \in {"alive", "unreffed", "destroying"} =>
        Cardinality(At(WorkerStates \ {"none", "finished"})) + Cardinality(Spawning) + toStart
            <= ruThreads

\* "The quota should have been previously obtained successfully" (resource_quota.h):
\* nobody releases more threads than are allocated.  MarkAsCompleted does so
\* after the owner's Wait is over, when the resource user may be gone.
NeverReleasesTooMany == Alive

\* When the destructor returns every worker has been joined and deleted and nobody
\* is left in a list; a resource user that is deleted holds nothing of the quota.
DestroyedClean ==
    /\ owner = "gone" =>
          /\ At(WorkerStates \ {"none"}) = {}
          /\ completed_threads_ = {} /\ joining = [a \in Threads \cup {Owner} |-> {}]
    /\ ru = "destroyed" => ruThreads = 0

\* Unless it is shut down, the manager never stops polling for good: quota
\* exhausted or threads that cannot be created only delay the next poll.
PollingGoesOn == []<>(At({"poll"}) # {} \/ shutdown_)

\* Shutdown ends: each worker leaves, Wait returns, all are joined (nobody joins
\* a thread that waits for it), the destructor finishes and the resource user is
\* deleted, unless it aborts the process.  (None of these is ever undone.)
ShutdownCompletes == []<>(shutdown_ => (owner = "gone" /\ ru = "destroyed") \/ ~Alive)
=============================================================================
