---------------------------- MODULE WorkSerializer ----------------------------
(***************************************************************************)
(* WorkSerializer (src/core/lib/iomgr/work_serializer.{h,cc}): threads     *)
(* call Run with callbacks; the thread that finds nobody inside runs its   *)
(* callback and then drains the queue for everyone else.                   *)
(*                                                                         *)
(* A callback may call Run again from inside; that nested call only pushes *)
(* and is a call of another thread here, which allows every order it can   *)
(* have and more.  A callback is reused once it has run.                   *)
(***************************************************************************)
EXTENDS Integers, FiniteSets, Sequences, Functions

CONSTANTS
    Threads,
    Callbacks,
    RefHolders,     \* the callbacks that own a reference to the serializer
    Null

ASSUME WorkSerializerAssumption ==
    /\ IsFiniteSet(Threads)
    /\ RefHolders \subseteq Callbacks
    /\ Null \notin Callbacks

VARIABLES
    size,           \* size_
    queue, pushing, \* queue_ (see FifoQueue)
    pc,             \* per thread: its place in Run and DrainQueue
    arg,            \* per thread: the callback in its hands, or Null
    orphaned,       \* Orphan was called
    deleted,        \* "delete this" was executed
    ahead           \* ghost: per callback, whose Run had returned before its own

vars == <<size, queue, pushing, pc, arg, orphaned, deleted, ahead>>

Q == INSTANCE FifoQueue

Init ==
    /\ size = 1
    /\ queue = <<>>
    /\ pushing = {}
    /\ pc = [t \in Threads |-> "idle"]
    /\ arg = [t \in Threads |-> Null]
    /\ orphaned = FALSE
    /\ deleted = FALSE
    /\ ahead = [c \in Callbacks |-> {}]

\* The callbacks that some thread executes, and those left in the queue by a
\* Run that returned.
Executing == {arg[t] : t \in {u \in Threads : pc[u] = "run"}}
Waiting == Range(queue) \ pushing
InHand == {arg[t] : t \in Threads} \cup Range(queue)

Goto(t, l, c) ==
    /\ pc' = [pc EXCEPT ![t] = l]
    /\ arg' = [arg EXCEPT ![t] = c]

-----------------------------------------------------------------------------
(* Run                                                                     *)

\* Mutant: the owner's count is forgotten in the comparison.
RunNowBesideAnother(t, c) ==
    /\ pc[t] = "idle" /\ c \notin InHand /\ ~orphaned
    /\ size \in {1, 2}
    /\ size' = size + 1
    /\ Goto(t, "run", c)
    /\ UNCHANGED <<queue, pushing, orphaned, deleted, ahead>>

\* size_.fetch_add(1) returned 1: the thread runs its callback at once.
RunNow(t, c) ==
    /\ pc[t] = "idle" /\ c \notin InHand /\ ~orphaned
    /\ size = 1
    /\ size' = size + 1
    /\ Goto(t, "run", c)
    /\ UNCHANGED <<queue, pushing, orphaned, deleted, ahead>>

\* It returned more: the callback goes to the queue.
RunLater(t, c) ==
    /\ pc[t] = "idle" /\ c \notin InHand /\ ~orphaned
    /\ size # 1
    /\ size' = size + 1
    /\ Goto(t, "push", c)
    /\ ahead' = [ahead EXCEPT ![c] = Executing \cup Waiting]
    /\ UNCHANGED <<queue, pushing, orphaned, deleted>>

PushClaim(t) ==
    /\ pc[t] = "push"
    /\ Q!Claim(arg[t])
    /\ Goto(t, "link", arg[t])
    /\ UNCHANGED <<size, orphaned, deleted, ahead>>

\* Mutant: prev->next is not stored, the callback stays out of sight.
PushLinkUnseen(t) ==
    /\ pc[t] = "link"
    /\ Goto(t, "idle", Null)
    /\ UNCHANGED <<size, queue, pushing, orphaned, deleted, ahead>>

PushLink(t) ==
    /\ pc[t] = "link"
    /\ Q!Publish(arg[t])
    /\ Goto(t, "idle", Null)
    /\ UNCHANGED <<size, orphaned, deleted, ahead>>

-----------------------------------------------------------------------------
(* DrainQueue                                                              *)

\* The callback returns.
CallbackDone(t) ==
    /\ pc[t] = "run"
    /\ ahead' = [c \in Callbacks |-> ahead[c] \ {arg[t]}]
    /\ Goto(t, "drain", Null)
    /\ UNCHANGED <<size, queue, pushing, orphaned, deleted>>

\* Mutants: the drainer leaves one callback behind; it deletes an object that
\* still has its owner.
DrainNextTooEarly(t) ==
    /\ pc[t] = "drain"
    /\ size' = size - 1
    /\ deleted' = (deleted \/ size = 1)
    /\ Goto(t, IF size \in {1, 2, 3} THEN "idle" ELSE "pop", Null)
    /\ UNCHANGED <<queue, pushing, orphaned, ahead>>

DrainNextDeletesOwned(t) ==
    /\ pc[t] = "drain"
    /\ size' = size - 1
    /\ deleted' = (deleted \/ size \in {1, 2})
    /\ Goto(t, IF size \in {1, 2} THEN "idle" ELSE "pop", Null)
    /\ UNCHANGED <<queue, pushing, orphaned, ahead>>

\* size_.fetch_sub(1): 1 means orphaned and drained, 2 drained, more means
\* that there is a callback to pop.
DrainNext(t) ==
    /\ pc[t] = "drain"
    /\ size' = size - 1
    /\ deleted' = (deleted \/ size = 1)
    /\ Goto(t, IF size \in {1, 2} THEN "idle" ELSE "pop", Null)
    /\ UNCHANGED <<queue, pushing, orphaned, ahead>>

\* The loop around PopAndCheckEnd gets a node; until then it spins.
DrainPop(t) ==
    /\ pc[t] = "pop"
    /\ Q!Take
    /\ Goto(t, "run", Head(queue))
    /\ UNCHANGED <<size, orphaned, deleted, ahead>>

-----------------------------------------------------------------------------
(* The owner lets go: ~WorkSerializer orphans the implementation.  Nobody  *)
(* else is inside Run then, except a thread that executes callbacks, and   *)
(* no callback that owns a reference is still to run.                      *)

MayOrphan ==
    /\ \A t \in Threads : pc[t] \notin {"push", "link"}
    /\ Range(queue) \cap RefHolders = {}

Orphan ==
    /\ ~orphaned
    /\ MayOrphan
    /\ orphaned' = TRUE
    /\ size' = size - 1
    /\ deleted' = (size = 1)
    /\ UNCHANGED <<queue, pushing, pc, arg, ahead>>

-----------------------------------------------------------------------------
ThreadStep(t) ==
    PushClaim(t) \/ PushLink(t) \/ CallbackDone(t) \/ DrainNext(t) \/ DrainPop(t)

Next ==
    \/ \E t \in Threads :
          \/ \E c \in Callbacks : RunNow(t, c) \/ RunLater(t, c)
          \/ ThreadStep(t)
    \/ Orphan

Spec == Init /\ [][Next]_vars

\* Threads inside Run keep running, and callbacks return.
FairSpec == Spec /\ \A t \in Threads : WF_vars(ThreadStep(t))

-----------------------------------------------------------------------------
(* Properties                                                              *)

Places == {"idle", "push", "link", "run", "drain", "pop"}

TypeOK ==
    /\ size \in Nat
    /\ queue \in Seq(Callbacks)
    /\ pushing \subseteq Callbacks
    /\ pc \in [Threads -> Places]
    /\ arg \in [Threads -> Callbacks \cup {Null}]
    /\ orphaned \in BOOLEAN
    /\ deleted \in BOOLEAN
    /\ ahead \in [Callbacks -> SUBSET Callbacks]

InPlaces(S) == {t \in Threads : pc[t] \in S}
Drainers == InPlaces({"run", "drain", "pop"})

\* At most one thread is between its fetch_add and the end of DrainQueue with
\* the right to execute callbacks ("executed serially", work_serializer.h:39).
Serial == \A t, u \in Drainers : t = u

\* size_ counts the owner, the callback in execution, the callbacks counted
\* but not pushed yet and the ones in the queue; a thread that spins in
\* DrainQueue has given up its own count for one of those.
SizeCounts ==
    /\ size = (IF orphaned THEN 0 ELSE 1)
                + Cardinality(InPlaces({"run", "drain", "push"})) + Len(queue)
    /\ InPlaces({"pop"}) # {} => InPlaces({"push"}) # {} \/ queue # <<>>

\* While the serializer is owned, a callback that was counted or queued always
\* has a thread that will get to it: no hand-off is lost between the
\* fetch_sub that ends DrainQueue and the fetch_add of Run.
SomeoneDrains ==
    ~orphaned /\ Drainers = {} => queue = <<>> /\ InPlaces({"push", "link"}) = {}

\* A callback is in one place at a time: in the hands of one thread, or once
\* in the queue, or both exactly while its push is visible in part.
OneHome ==
    /\ \A t, u \in Threads : arg[t] = arg[u] /\ arg[t] # Null => t = u
    /\ \A t \in Threads : arg[t] = Null <=> pc[t] \in {"idle", "drain", "pop"}
    /\ \A t \in Threads : arg[t] \in Range(queue) <=> pc[t] = "link"
    /\ \A i, j \in 1..Len(queue) : queue[i] = queue[j] => i = j
    /\ pushing = {arg[t] : t \in InPlaces({"link"})}

\* A deleted serializer has nothing left to count.
DeletedIsEmpty == deleted => orphaned /\ size = 0

Inv == TypeOK /\ OneHome /\ Serial /\ SizeCounts /\ SomeoneDrains /\ DeletedIsEmpty

\* The object is deleted only when no thread will touch it again and no
\* callback is left in its queue (the queue's destructor asserts the latter).
NoUseAfterDelete == deleted => queue = <<>> /\ InPlaces(Places \ {"idle"}) = {}

\* The serializer implements a serial executor: one callback at a time, each
\* one once per Run, and in FIFO order, where a Run that executes inline
\* never overtakes a callback that waits in the queue.
Phase(c) ==
    IF c \in Executing THEN "running"
    ELSE IF c \in Waiting THEN "waiting"
    ELSE IF c \in InHand THEN "calling" ELSE "idle"

Abstract == INSTANCE SerialExecutor WITH
    Work <- Callbacks, phase <- [c \in Callbacks |-> Phase(c)]

SerialSpec == Abstract!Spec
=============================================================================
