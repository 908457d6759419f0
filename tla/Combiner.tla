------------------------------- MODULE Combiner -------------------------------
(***************************************************************************)
(* grpc_core::Combiner (src/core/lib/iomgr/combiner.cc): Run and           *)
(* FinallyRun count a closure in an atomic word; the thread that raised    *)
(* the count from zero takes the combiner into the list of its ExecCtx and *)
(* executes the closures when that is flushed, or hands the rest to the    *)
(* executor.  The closures of FinallyRun wait in a list that only the      *)
(* thread with the combiner touches.                                       *)
(*                                                                         *)
(* One combiner: the list of an ExecCtx is whether it holds this one.      *)
(* A callback may call Run and FinallyRun; those are calls of the thread   *)
(* that executes it, which goes on when they have returned.  A closure is  *)
(* used again once it has been executed.  The queue is the FifoQueue that  *)
(* Mpscq.tla implements.                                                   *)
(***************************************************************************)
EXTENDS Integers, FiniteSets, Sequences, Functions

CONSTANTS
    Threads,        \* threads, each with its ExecCtx
    Executors,      \* those of them that belong to the executor
    Closures,
    Null

\* What is asked of the constants.
CombinerConstants ==
    /\ IsFiniteSet(Closures)
    /\ Executors \subseteq Threads
    /\ Null \notin Threads \cup Closures

VARIABLES
    state,          \* 2 * elements + 1 while it is not orphaned
    initiating,     \* initiating_exec_ctx_or_null
    queue, pushing, \* see FifoQueue
    final_list,
    time_to_execute_final_list,
    holder,         \* the thread whose ExecCtx lists the combiner, or Null
    offloaded,      \* the executor has the closure "offload"
    freed,          \* really_destroy
    pc,             \* per closure: its place in a call and after it
    by,             \* per closure: the thread that calls, or Null
    finally,        \* per closure: it was given to FinallyRun
    ex,             \* per thread: its place in grpc_combiner_continue_exec_ctx
    cur,            \* the closure in execution, or Null
    batch,          \* the rest of the final list that is being executed
    ahead           \* ghost: per closure, whose call had returned before its own

vars == <<state, initiating, queue, pushing, final_list, time_to_execute_final_list,
          holder, offloaded, freed, pc, by, finally, ex, cur, batch, ahead>>

Q == INSTANCE FifoQueue

Init ==
    /\ state = 1
    /\ initiating = Null
    /\ queue = <<>> /\ pushing = {}
    /\ final_list = <<>>
    /\ time_to_execute_final_list = FALSE
    /\ holder = Null /\ offloaded = FALSE
    /\ freed = FALSE
    /\ pc = [c \in Closures |-> "idle"]
    /\ by = [c \in Closures |-> Null]
    /\ finally = [c \in Closures |-> FALSE]
    /\ ex = [t \in Threads |-> "out"]
    /\ cur = Null
    /\ batch = <<>>
    /\ ahead = [c \in Closures |-> {}]

CallStates == {"first", "later", "clear", "push", "link"}
At(S) == {c \in Closures : pc[c] \in S}
Calling(t) == \E c \in At(CallStates) : by[c] = t
MayCall(t) == ex[t] \in {"out", "run", "final"} /\ ~Calling(t)
Orphaned == state % 2 = 0
Elements == state \div 2

Goto(c, l) == pc' = [pc EXCEPT ![c] = l]

\* A closure of a final list becomes the running one, a popped one as well.
Executed(c) ==
    /\ pc' = [pc EXCEPT ![c] = "idle"]
    /\ ahead' = [d \in Closures |-> ahead[d] \ {c}]

-----------------------------------------------------------------------------
(* combiner_exec                                                           *)

\* The fetch_add.  The caller owns a reference, so the combiner is not
\* orphaned.  FinallyRun of a thread that does not have the combiner runs
\* the closure enqueue_finally in the combiner, which stands for its closure.
Run(t, c, f) ==
    /\ MayCall(t) /\ pc[c] = "idle" /\ ~Orphaned
    /\ f => holder # t
    /\ state' = state + 2
    /\ Goto(c, IF state = 1 THEN "first" ELSE "later")
    /\ by' = [by EXCEPT ![c] = t]
    /\ finally' = [finally EXCEPT ![c] = f]
    /\ ahead' = [ahead EXCEPT ![c] = At({"queued", "running"})]
    /\ UNCHANGED <<initiating, final_list, time_to_execute_final_list, freed, queue,
                   pushing, holder, offloaded, ex, cur, batch>>

\* The first element: the combiner goes to the ExecCtx of the caller.
TakeCombiner(c) ==
    /\ pc[c] = "first"
    /\ initiating' = by[c]
    /\ holder' = by[c]
    /\ Goto(c, "push")
    /\ UNCHANGED <<state, final_list, time_to_execute_final_list, freed, queue,
                   pushing, offloaded, by, finally, ex, cur, batch, ahead>>

\* Another one: the load of the initiator
LoadInitiator(c) ==
    /\ pc[c] = "later"
    /\ Goto(c, IF initiating \notin {Null, by[c]} THEN "clear" ELSE "push")
    /\ UNCHANGED <<state, initiating, final_list, time_to_execute_final_list, freed,
                   queue, pushing, holder, offloaded, by, finally, ex, cur, batch,
                   ahead>>

\* and the store that marks the combiner as contended
ClearInitiator(c) ==
    /\ pc[c] = "clear"
    /\ initiating' = Null
    /\ Goto(c, "push")
    /\ UNCHANGED <<state, final_list, time_to_execute_final_list, freed, queue,
                   pushing, holder, offloaded, by, finally, ex, cur, batch, ahead>>

PushClaim(c) ==
    /\ pc[c] = "push"
    /\ Q!Claim(c)
    /\ Goto(c, "link")
    /\ UNCHANGED <<state, initiating, final_list, time_to_execute_final_list, freed,
                   holder, offloaded, by, finally, ex, cur, batch, ahead>>

PushLink(c) ==
    /\ pc[c] = "link"
    /\ Q!Publish(c)
    /\ Goto(c, "queued")
    /\ by' = [by EXCEPT ![c] = Null]
    /\ UNCHANGED <<state, initiating, final_list, time_to_execute_final_list, freed,
                   holder, offloaded, finally, ex, cur, batch, ahead>>

-----------------------------------------------------------------------------
(* combiner_finally_exec of the thread whose ExecCtx has the combiner      *)

\* The element that stands for the final list is counted with its first member.
AppendFinal(c) ==
    /\ state' = IF final_list = <<>> THEN state + 2 ELSE state
    /\ final_list' = Append(final_list, c)

FinallyRun(t, c) ==
    /\ MayCall(t) /\ pc[c] = "idle"
    /\ holder = t
    /\ AppendFinal(c)
    /\ Goto(c, "final")
    /\ finally' = [finally EXCEPT ![c] = TRUE]
    /\ UNCHANGED <<initiating, time_to_execute_final_list, freed, queue, pushing,
                   holder, offloaded, by, ex, cur, batch, ahead>>

-----------------------------------------------------------------------------
(* grpc_combiner_continue_exec_ctx, called when the ExecCtx is flushed     *)

Flushing(t) == holder = t /\ ex[t] = "out" /\ ~Calling(t)

QueueOffload ==
    /\ holder' = Null
    /\ offloaded' = TRUE
    /\ UNCHANGED <<state, initiating, final_list, time_to_execute_final_list, freed,
                   queue, pushing, pc, by, finally, ex, cur, batch, ahead>>

\* Mutant: a thread of the executor hands the rest over as well.
OffloadContendedAnywhere(t) ==
    /\ Flushing(t)
    /\ initiating = Null
    /\ QueueOffload

\* The combiner is contended and the thread is ready to finish, which the
\* ExecCtx of an executor's thread never is: the rest is left to the executor.
OffloadContended(t) ==
    /\ Flushing(t) /\ t \notin Executors
    /\ initiating = Null
    /\ QueueOffload

\* Mutant: new closures have no priority over the final list.
PopsEitherWay == ~time_to_execute_final_list

\* The queue comes first unless only the final list is left.
PopsQueue == ~time_to_execute_final_list \/ Elements > 1

\* The two oldest nodes tell Pop whether it gets one: it takes the first when
\* it sees the link to the second, or that there is none.
HalfPushed == queue = <<>> \/ \E i \in DOMAIN queue \cap {1, 2} : queue[i] \in pushing

\* Pop found a push that has not finished.
OffloadInconsistent(t) ==
    /\ Flushing(t) /\ PopsQueue
    /\ HalfPushed
    /\ QueueOffload

Pop(t) ==
    /\ Flushing(t) /\ PopsQueue
    /\ Q!Take
    /\ cur' = Head(queue)
    /\ Goto(Head(queue), "running")
    /\ ex' = [ex EXCEPT ![t] = "run"]
    /\ UNCHANGED <<state, initiating, final_list, time_to_execute_final_list, freed,
                   holder, offloaded, by, finally, batch, ahead>>

\* The callback returns.
CallbackDone(t) ==
    /\ ex[t] = "run" /\ ~finally[cur] /\ ~Calling(t)
    /\ Executed(cur)
    /\ cur' = Null
    /\ ex' = [ex EXCEPT ![t] = "finish"]
    /\ UNCHANGED <<state, initiating, final_list, time_to_execute_final_list, freed,
                   queue, pushing, holder, offloaded, by, finally, batch>>

\* The callback is enqueue_finally.
EnqueueFinally(t) ==
    /\ ex[t] = "run" /\ finally[cur] /\ ~Calling(t)
    /\ AppendFinal(cur)
    /\ Goto(cur, "final")
    /\ ahead' = [d \in Closures |-> ahead[d] \ {cur}]
    /\ cur' = Null
    /\ ex' = [ex EXCEPT ![t] = "finish"]
    /\ UNCHANGED <<initiating, time_to_execute_final_list, freed, queue, pushing,
                   holder, offloaded, by, finally, batch>>

StartFinal(t) ==
    /\ Flushing(t) /\ ~PopsQueue
    /\ batch' = final_list
    /\ final_list' = <<>>
    /\ ex' = [ex EXCEPT ![t] = "final"]
    /\ UNCHANGED <<state, initiating, time_to_execute_final_list, freed, queue,
                   pushing, holder, offloaded, pc, by, finally, cur, ahead>>

\* The next closure of the final list returns.
FinalDone(t) ==
    /\ ex[t] = "final" /\ ~Calling(t)
    /\ batch # <<>>
    /\ Executed(Head(batch))
    /\ batch' = Tail(batch)
    /\ ex' = [ex EXCEPT ![t] = IF Len(batch) = 1 THEN "finish" ELSE "final"]
    /\ UNCHANGED <<state, initiating, final_list, time_to_execute_final_list, freed,
                   queue, pushing, holder, offloaded, by, finally, cur>>

\* Mutant: the thread lets go with the final list left.
FinishForgetsFinal(t) ==
    /\ ex[t] = "finish"
    /\ state' = state - 2
    /\ time_to_execute_final_list' = FALSE
    /\ freed' = (freed \/ state = 2)
    /\ holder' = IF Elements \in {1, 2} THEN Null ELSE t
    /\ ex' = [ex EXCEPT ![t] = "out"]
    /\ UNCHANGED <<initiating, final_list, queue, pushing, offloaded, pc, by, finally,
                   cur, batch, ahead>>

\* The fetch_add(-2) and what follows from the old value: one element left is
\* the final list, if that is not empty; none left unlocks, and destroys an
\* orphaned combiner.
Finish(t) ==
    /\ ex[t] = "finish"
    /\ state' = state - 2
    /\ time_to_execute_final_list' = (Elements = 2 /\ final_list # <<>>)
    /\ freed' = (freed \/ state = 2)
    /\ holder' = IF Elements = 1 THEN Null ELSE t
    /\ ex' = [ex EXCEPT ![t] = "out"]
    /\ UNCHANGED <<initiating, final_list, queue, pushing, offloaded, pc, by, finally,
                   cur, batch, ahead>>

-----------------------------------------------------------------------------
(* The executor, and the last reference                                    *)

Offload(t) ==
    /\ t \in Executors /\ offloaded
    /\ ex[t] = "out" /\ ~Calling(t)
    /\ offloaded' = FALSE
    /\ holder' = t
    /\ UNCHANGED <<state, initiating, final_list, time_to_execute_final_list, freed,
                   queue, pushing, pc, by, finally, ex, cur, batch, ahead>>

\* start_destroy by the last grpc_combiner_unref: whoever is in a call has a
\* reference.
StartDestroy ==
    /\ ~Orphaned
    /\ At(CallStates) = {}
    /\ state' = state - 1
    /\ freed' = (state = 1)
    /\ UNCHANGED <<initiating, final_list, time_to_execute_final_list, queue, pushing,
                   holder, offloaded, pc, by, finally, ex, cur, batch, ahead>>

-----------------------------------------------------------------------------
Push(c) ==
    TakeCombiner(c) \/ LoadInitiator(c) \/ ClearInitiator(c) \/ PushClaim(c) \/ PushLink(c)

Continue(t) ==
    \/ OffloadContended(t) \/ OffloadInconsistent(t)
    \/ Pop(t) \/ CallbackDone(t) \/ EnqueueFinally(t)
    \/ StartFinal(t) \/ FinalDone(t) \/ Finish(t)
    \/ Offload(t)

Calls == \E t \in Threads, c \in Closures :
    (\E f \in BOOLEAN : Run(t, c, f)) \/ FinallyRun(t, c)

Next ==
    \/ Calls \/ StartDestroy
    \/ \E c \in Closures : Push(c)
    \/ \E t \in Threads : Continue(t)

Spec == Init /\ [][Next]_vars

\* Threads go on: a call returns, a callback returns, an ExecCtx is flushed
\* and the executor runs what it was given.
Fairness ==
    /\ \A c \in Closures : WF_vars(Push(c))
    /\ \A t \in Threads : WF_vars(Continue(t))

FairSpec == Spec /\ Fairness

-----------------------------------------------------------------------------
(* Properties                                                              *)

TypeOK ==
    /\ state \in Nat
    /\ initiating \in Threads \cup {Null}
    /\ queue \in Seq(Closures) /\ pushing \subseteq Closures
    /\ final_list \in Seq(Closures) /\ batch \in Seq(Closures)
    /\ time_to_execute_final_list \in BOOLEAN
    /\ holder \in Threads \cup {Null} /\ offloaded \in BOOLEAN
    /\ freed \in BOOLEAN
    /\ pc \in [Closures -> CallStates \cup {"idle", "queued", "running", "final"}]
    /\ by \in [Closures -> Threads \cup {Null}]
    /\ finally \in [Closures -> BOOLEAN]
    /\ ex \in [Threads -> {"out", "run", "final", "finish"}]
    /\ cur \in Closures \cup {Null}
    /\ ahead \in [Closures -> SUBSET Closures]

\* While anything is counted, exactly one party has the combiner: the thread
\* whose first element it was, an ExecCtx or the executor.  Freed means unused.
OneParty ==
    /\ Cardinality(At({"first"})) + (IF holder # Null THEN 1 ELSE 0) + (IF offloaded THEN 1 ELSE 0)
           = (IF Elements > 0 THEN 1 ELSE 0)
    /\ freed <=> state = 0
    /\ freed => At({"idle"}) = Closures

\* The final list is executed last: when it is started no closure is in the
\* queue, in execution or on its way.
FinalIsLast ==
    [][\A t \in Threads : ex[t] # "final" /\ ex'[t] = "final" =>
          /\ final_list # <<>>
          /\ At(CallStates \cup {"queued", "running"}) = {}]_vars

\* The combiner is a serial executor of the closures of Run (and of
\* enqueue_finally): one at a time, each once, none before a closure whose
\* call had returned.
Phase(c) ==
    CASE pc[c] \in CallStates -> "calling"
      [] pc[c] = "queued" -> "waiting"
      [] pc[c] = "running" -> "running"
      [] OTHER -> "idle"

Abstract == INSTANCE SerialExecutor WITH
    Work <- Closures, phase <- [c \in Closures |-> Phase(c)]

SerialSpec == Abstract!Spec

\* Each closure of Run is executed, also when its call raced the thread that
\* was leaving or the combiner was handed to the executor.
ClosuresRun == \A c \in Closures : pc[c] = "queued" ~> pc[c] # "queued"
=============================================================================
