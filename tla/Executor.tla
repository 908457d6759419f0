------------------------------ MODULE Executor ------------------------------
(***************************************************************************)
(* grpc_core::Executor (src/core/lib/iomgr/executor.cc): a pool of threads *)
(* that execute closures, each from a list of its own, and that grows when *)
(* a list gets long.                                                       *)
(*                                                                         *)
(* The initial state is that after SetThreading(true), which allocates     *)
(* thd_state_ afresh; SetThreading(false) ends it.  A section under the mu *)
(* of a thread state is one step.  Closures are numbered in the order in   *)
(* which they are scheduled.  A closure that is being executed may         *)
(* schedule others.  Threads of the application do so too, until the       *)
(* executor is shut down: the fork handlers block them before, and an      *)
(* application in the middle of a call must not shut gRPC down             *)
(* (executor.h:64).  The background poller takes no closures, as in the    *)
(* polling engines of this repository.                                     *)
(***************************************************************************)
EXTENDS Integers, Sequences, SequencesExt, FiniteSets

CONSTANTS
    Callers,        \* threads that are not the executor's
    max_threads_,   \* of the executor
    MAX_DEPTH,      \* closures on one thread that make the pool grow
    MaxClosures,    \* bound: closures that are scheduled
    LongJobs,       \* those of them with ExecutorJobType::LONG
    Owner,          \* the thread that calls SetThreading(false)
    None

Slots == 0 .. max_threads_ - 1
Jobs == 1 .. MaxClosures
Actors == Slots \cup Callers \cup {Owner}

\* The calls of Enqueue (see Call)
Enqueues == [closure : Jobs, at : {"try", "add", "grow", "load"},
             cur : 1 .. max_threads_, ts : Slots, orig : Slots, retry : BOOLEAN]

\* What is asked of the constants.
ExecutorConstants ==
    /\ max_threads_ \in Nat \ {0} /\ MAX_DEPTH \in Nat
    /\ MaxClosures \in Nat /\ LongJobs \subseteq Jobs
    /\ Callers \cap (Slots \cup {Owner, None}) = {}
    /\ Owner \notin Slots /\ None \notin Slots \cup {Owner} \cup Enqueues

VARIABLES
    num_threads_,
    elems, depth, shutdown, queued_long_job,    \* thd_state_, per slot
    adding,         \* who has adding_thread_lock_, or None
    pc,             \* per slot: where its thread is
    subtract,       \* per slot: subtract_depth
    batch,          \* per slot and Owner: the closures RunClosures has, the
                    \* first of them being executed
    inlined,        \* how many of Owner's closures after the first came to the
                    \* list of its ExecCtx
    enqueue,        \* per actor: its call of Enqueue, or None
    scheduled,      \* the number of closures that have been passed to Enqueue
    ran,            \* closures that have been executed
    owner,          \* where SetThreading(false) is
    slot            \* the slot it has come to

states == <<elems, depth, shutdown, queued_long_job>>
threads == <<pc, subtract>>
owning == <<inlined, owner, slot>>
vars == <<num_threads_, states, adding, threads, batch, enqueue, scheduled, ran, owning>>

Init ==
    /\ num_threads_ = 1
    /\ elems = [i \in Slots |-> <<>>]
    /\ depth = [i \in Slots |-> 0]
    /\ shutdown = [i \in Slots |-> FALSE]
    /\ queued_long_job = [i \in Slots |-> FALSE]
    /\ adding = None
    /\ pc = [i \in Slots |-> IF i = 0 THEN "lock" ELSE "off"]
    /\ subtract = [i \in Slots |-> 0]
    /\ batch = [a \in Slots \cup {Owner} |-> <<>>]
    /\ inlined = 0
    /\ enqueue = [a \in Actors |-> None]
    /\ scheduled = 0
    /\ ran = {}
    /\ owner = "threaded"
    /\ slot = 0

-----------------------------------------------------------------------------
(* ThreadMain                                                              *)

\* From the lock of mu to the wait, to the exit or to the closures
Main(i) ==
    /\ pc[i] = "lock" /\ owner # "freed"
    /\ depth' = [depth EXCEPT ![i] = @ - subtract[i]]
    /\ subtract' = [subtract EXCEPT ![i] = 0]
    /\ \/ /\ elems[i] = <<>> /\ ~shutdown[i]
          /\ pc' = [pc EXCEPT ![i] = "wait"]
          /\ queued_long_job' = [queued_long_job EXCEPT ![i] = FALSE]
          /\ UNCHANGED <<elems, batch>>
       \/ /\ shutdown[i]
          /\ pc' = [pc EXCEPT ![i] = "exit"]
          /\ UNCHANGED <<elems, batch, queued_long_job>>
       \/ /\ elems[i] # <<>> /\ ~shutdown[i]
          /\ pc' = [pc EXCEPT ![i] = "run"]
          /\ batch' = [batch EXCEPT ![i] = elems[i]]
          /\ elems' = [elems EXCEPT ![i] = <<>>]
          /\ UNCHANGED queued_long_job
    /\ UNCHANGED <<num_threads_, shutdown, adding, enqueue, scheduled, ran, owning>>

\* gpr_cv_signal: the thread of the slot is the only one that may wait.
Signalled(i) == IF pc[i] = "wait" THEN [pc EXCEPT ![i] = "lock"] ELSE pc

Running(a) == a \in DOMAIN batch /\ batch[a] # <<>>

\* RunClosures: the callback of the first closure returns.
ClosureReturns(a) ==
    /\ Running(a) /\ enqueue[a] = None
    /\ ran' = ran \cup {Head(batch[a])}
    /\ batch' = [batch EXCEPT ![a] = Tail(@)]
    /\ IF a = Owner
       THEN /\ inlined' = IF inlined > 0 THEN inlined - 1 ELSE 0
            /\ UNCHANGED threads
       ELSE /\ subtract' = [subtract EXCEPT ![a] = @ + 1]
            /\ pc' = IF Len(batch[a]) = 1 THEN [pc EXCEPT ![a] = "lock"] ELSE pc
            /\ UNCHANGED inlined
    /\ UNCHANGED <<num_threads_, states, adding, enqueue, scheduled, owner, slot>>

-----------------------------------------------------------------------------
(* Enqueue                                                                 *)

\* A call: its closure, where it is, the threads it has counted, the slot it
\* looks at and the one it began with, and retry_push
Call(c, at, cur, ts, orig, retry) ==
    [closure |-> c, at |-> at, cur |-> cur, ts |-> ts, orig |-> orig, retry |-> retry]

\* The closure goes to the ExecCtx of the caller, which flushes it when the
\* closure it executes has returned.  Only Owner finds an executor without
\* threads.
Inline(a, c) ==
    /\ batch' = [batch EXCEPT ![a] = InsertAt(@, inlined + 2, c)]
    /\ inlined' = inlined + 1
    /\ enqueue' = [enqueue EXCEPT ![a] = None]

\* Read num_threads_ and pick the thread: that of the caller if it is one of
\* the executor's, and else one that the address of its ExecCtx hashes to.
PickThread(a, c) ==
    IF num_threads_ = 0
    THEN Inline(a, c)
    ELSE /\ \E i \in IF a \in Slots THEN {a} ELSE 0 .. num_threads_ - 1 :
                enqueue' = [enqueue EXCEPT ![a] =
                               Call(c, "try", num_threads_, i, i, FALSE)]
         /\ UNCHANGED <<batch, inlined>>

Enqueue(a) ==
    /\ enqueue[a] = None
    /\ Running(a) \/ (a \in Callers /\ owner = "threaded")
    /\ scheduled < MaxClosures
    /\ scheduled' = scheduled + 1
    /\ PickThread(a, scheduled + 1)
    /\ UNCHANGED <<num_threads_, states, adding, threads, ran, owner, slot>>

Try(a) == enqueue[a] # None /\ enqueue[a].at = "try"

\* A long job is queued on the thread: on to the next one, and after the last
\* to the creation of a thread, whatever their number and the shutdown.
TryNext(a) ==
    LET e == enqueue[a]
        next == (e.ts + 1) % e.cur
    IN  /\ Try(a)
        /\ queued_long_job[e.ts]
        /\ enqueue' = [enqueue EXCEPT ![a] =
              IF next = e.orig THEN [e EXCEPT !.at = "add", !.ts = next, !.retry = TRUE]
                               ELSE [e EXCEPT !.ts = next]]
        /\ UNCHANGED <<num_threads_, states, adding, threads, batch, scheduled, ran, owning>>

\* Mutant: the waiting thread is not signalled if the list was empty, as it is
\* tested after the closure is appended.
PushTestsLate(a) ==
    LET e == enqueue[a]
        i == e.ts
        grow == depth[i] + 1 > MAX_DEPTH /\ e.cur < max_threads_ /\ ~shutdown[i]
    IN  /\ Try(a)
        /\ ~queued_long_job[i]
        /\ elems' = [elems EXCEPT ![i] = Append(@, e.closure)]
        /\ depth' = [depth EXCEPT ![i] = @ + 1]
        /\ queued_long_job' = [queued_long_job EXCEPT ![i] = (e.closure \in LongJobs)]
        /\ pc' = IF elems'[i] = <<>> /\ ~shutdown[i] THEN Signalled(i) ELSE pc
        /\ enqueue' = [enqueue EXCEPT ![a] = IF grow THEN [e EXCEPT !.at = "add"] ELSE None]
        /\ UNCHANGED <<num_threads_, shutdown, adding, subtract, batch, scheduled, ran, owning>>

\* The closure is appended to the list of the thread.
Push(a) ==
    LET e == enqueue[a]
        i == e.ts
        grow == depth[i] + 1 > MAX_DEPTH /\ e.cur < max_threads_ /\ ~shutdown[i]
    IN  /\ Try(a)
        /\ ~queued_long_job[i]
        /\ pc' = IF elems[i] = <<>> /\ ~shutdown[i] THEN Signalled(i) ELSE pc
        /\ elems' = [elems EXCEPT ![i] = Append(@, e.closure)]
        /\ depth' = [depth EXCEPT ![i] = @ + 1]
        /\ queued_long_job' = [queued_long_job EXCEPT ![i] = (e.closure \in LongJobs)]
        /\ enqueue' = [enqueue EXCEPT ![a] = IF grow THEN [e EXCEPT !.at = "add"] ELSE None]
        /\ UNCHANGED <<num_threads_, shutdown, adding, subtract, batch, scheduled, ran, owning>>

\* The end of the loop's body: once more if the closure has not been pushed
EndOrRetry(e) == IF e.retry THEN [e EXCEPT !.at = "load"] ELSE None

\* gpr_spinlock_trylock(&adding_thread_lock_)
TryLock(a) ==
    /\ enqueue[a] # None /\ enqueue[a].at = "add"
    /\ adding' = IF adding = None THEN a ELSE adding
    /\ enqueue' = [enqueue EXCEPT ![a] =
          IF adding = None THEN [@ EXCEPT !.at = "grow"] ELSE EndOrRetry(@)]
    /\ UNCHANGED <<num_threads_, states, threads, batch, scheduled, ran, owning>>

\* Count, create and start the thread if there is room for it, and unlock
AddThread(a) ==
    /\ enqueue[a] # None /\ enqueue[a].at = "grow"
    /\ IF num_threads_ < max_threads_
       THEN /\ num_threads_' = num_threads_ + 1
            /\ pc' = [pc EXCEPT ![num_threads_] = "lock"]
       ELSE UNCHANGED <<num_threads_, pc>>
    /\ adding' = None
    /\ enqueue' = [enqueue EXCEPT ![a] = EndOrRetry(@)]
    /\ UNCHANGED <<states, subtract, batch, scheduled, ran, owning>>

\* retry_push: the next round of the loop
Retry(a) ==
    /\ enqueue[a] # None /\ enqueue[a].at = "load"
    /\ PickThread(a, enqueue[a].closure)
    /\ UNCHANGED <<num_threads_, states, adding, threads, scheduled, ran, owner, slot>>

-----------------------------------------------------------------------------
(* SetThreading(false)                                                     *)

\* The threads of the application have left.
BeginShutdown ==
    /\ owner = "threaded"
    /\ \A a \in Callers : enqueue[a] = None
    /\ owner' = "mark"
    /\ UNCHANGED <<num_threads_, states, adding, threads, batch, enqueue, scheduled, ran, inlined, slot>>

\* Tell the next thread, whether it exists or not.
MarkShutdown ==
    /\ owner = "mark"
    /\ shutdown' = [shutdown EXCEPT ![slot] = TRUE]
    /\ pc' = Signalled(slot)
    /\ IF slot + 1 = max_threads_
       THEN slot' = 0 /\ owner' = "spin"
       ELSE slot' = slot + 1 /\ UNCHANGED owner
    /\ UNCHANGED <<num_threads_, elems, depth, queued_long_job, adding, subtract, batch,
                   enqueue, scheduled, ran, inlined>>

\* Lock and unlock adding_thread_lock_, and read num_threads_: from here on
\* slot counts the threads that are still to be joined.
PassSpinlock ==
    /\ owner = "spin" /\ adding = None
    /\ owner' = "join"
    /\ slot' = num_threads_
    /\ UNCHANGED <<num_threads_, states, adding, threads, batch, enqueue, scheduled, ran, inlined>>

\* The threads are joined in order; with the last of them num_threads_ is reset.
Join ==
    /\ owner = "join"
    /\ \A i \in 0 .. slot - 1 : pc[i] = "exit"
    /\ owner' = "drain"
    /\ slot' = 0
    /\ num_threads_' = 0
    /\ UNCHANGED <<states, adding, threads, batch, enqueue, scheduled, ran, inlined>>

\* Mutant: what a thread has left in its list is forgotten.
DrainForgets ==
    /\ owner = "drain" /\ slot < max_threads_ /\ batch[Owner] = <<>>
    /\ elems' = [elems EXCEPT ![slot] = <<>>]
    /\ slot' = slot + 1
    /\ UNCHANGED <<num_threads_, depth, shutdown, queued_long_job, adding, threads,
                   batch, enqueue, scheduled, ran, inlined, owner>>

\* RunClosures on what a thread has left in its list
Drain ==
    /\ owner = "drain" /\ slot < max_threads_ /\ batch[Owner] = <<>>
    /\ batch' = [batch EXCEPT ![Owner] = elems[slot]]
    /\ elems' = [elems EXCEPT ![slot] = <<>>]
    /\ slot' = slot + 1
    /\ UNCHANGED <<num_threads_, depth, shutdown, queued_long_job, adding, threads,
                   enqueue, scheduled, ran, inlined, owner>>

\* gpr_free(thd_state_)
Free ==
    /\ owner = "drain" /\ slot = max_threads_ /\ batch[Owner] = <<>>
    /\ owner' = "freed"
    /\ UNCHANGED <<num_threads_, states, adding, threads, batch, enqueue, scheduled, ran, inlined, slot>>

-----------------------------------------------------------------------------
\* What an actor does by itself once it has begun
EnqueueStep(a) == TryNext(a) \/ Push(a) \/ TryLock(a) \/ AddThread(a) \/ Retry(a)
Step(a) == EnqueueStep(a) \/ ClosureReturns(a) \/ (a \in Slots /\ Main(a))
Shutdown == MarkShutdown \/ PassSpinlock \/ Join \/ Drain \/ Free

Next == (\E a \in Actors : Enqueue(a) \/ Step(a)) \/ BeginShutdown \/ Shutdown

Spec == Init /\ [][Next]_vars

\* Threads keep running and callbacks return; nobody has to call Enqueue or
\* SetThreading.
Fairness == WF_vars(Shutdown) /\ \A a \in Actors : WF_vars(Step(a))

FairSpec == Spec /\ Fairness

-----------------------------------------------------------------------------
(* Properties                                                              *)

\* The variables keep their types.
TypeOK ==
    /\ num_threads_ \in 0 .. max_threads_
    /\ elems \in [Slots -> Seq(Jobs)]
    /\ depth \in [Slots -> Nat]
    /\ shutdown \in [Slots -> BOOLEAN] /\ queued_long_job \in [Slots -> BOOLEAN]
    /\ adding \in Actors \cup {None}
    /\ pc \in [Slots -> {"off", "lock", "wait", "run", "exit"}]
    /\ subtract \in [Slots -> Nat]
    /\ batch \in [Slots \cup {Owner} -> Seq(Jobs)]
    /\ inlined \in Nat
    /\ enqueue \in [Actors -> Enqueues \cup {None}]
    /\ scheduled \in 0 .. MaxClosures
    /\ ran \subseteq Jobs
    /\ owner \in {"threaded", "mark", "spin", "join", "drain", "freed"}
    /\ slot \in 0 .. max_threads_

\* No thread waits for a signal while its list holds a closure or the executor
\* is being shut down: Enqueue signals on an empty list only, and the thread is
\* not always the one that emptied it.
NobodySleepsOnWork ==
    \A i \in Slots : pc[i] = "wait" => elems[i] = <<>> /\ ~shutdown[i]

\* The depth of a thread, which the decision to grow rests on, counts the
\* closures in its list and those it has taken from there and not yet
\* subtracted.
DepthExact ==
    owner \notin {"drain", "freed"} =>
        \A i \in Slots : depth[i] = Len(elems[i]) + Len(batch[i]) + subtract[i]

\* Every closure that is passed to Enqueue is executed: by a thread, by
\* SetThreading(false) from what the threads have left, or from the ExecCtx of
\* the closure that scheduled it.  (As many closures are scheduled as may be, the
\* latest at some moment.)
ClosuresRun == <>[](ran = 1 .. scheduled)

\* "Once this is past, then no thread will try to add a new one either (since
\* shutdown is true)": when thd_state_ is freed no thread is in ThreadMain.
AllJoined == owner = "freed" => \A i \in Slots : pc[i] \in {"off", "exit"}
=============================================================================
