----------------------------- MODULE CallCombiner -----------------------------
(***************************************************************************)
(* CallCombiner (src/core/lib/iomgr/call_combiner.cc): Start and Stop.     *)
(* SetNotifyOnCancel and Cancel share no state with them and are in        *)
(* CancelState.tla.                                                        *)
(*                                                                         *)
(* A closure that was started holds the combiner from the moment it is     *)
(* scheduled until somebody calls Stop on its behalf; Stop hands over to   *)
(* the next closure in the queue.  A closure is started again only after   *)
(* that.  The thread that starts a closure is known by the closure.        *)
(***************************************************************************)
EXTENDS Integers, FiniteSets, Sequences, Functions

CONSTANT
    Closures        \* closures that are started

VARIABLES
    size,           \* size_
    queue, pushing, \* queue_ (see FifoQueue)
    pc,             \* per closure: "idle", "push", "link", "waiting" or "held"
    popping,        \* the number of threads that spin in Stop
    ahead           \* ghost: per closure, whose Start had returned before its own

vars == <<size, queue, pushing, pc, popping, ahead>>

Q == INSTANCE FifoQueue

In(S) == {c \in Closures : pc[c] \in S}

Init ==
    /\ size = 0
    /\ queue = <<>>
    /\ pushing = {}
    /\ pc = [c \in Closures |-> "idle"]
    /\ popping = 0
    /\ ahead = [c \in Closures |-> {}]

Goto(c, l) == pc' = [pc EXCEPT ![c] = l]

-----------------------------------------------------------------------------
(* Start                                                                   *)

\* The size was 0: the closure is scheduled immediately.
StartNow(c) ==
    /\ pc[c] = "idle"
    /\ size = 0
    /\ size' = size + 1
    /\ Goto(c, "held")
    /\ UNCHANGED <<queue, pushing, popping, ahead>>

\* The combiner is taken: the closure goes to the queue.
StartLater(c) ==
    /\ pc[c] = "idle"
    /\ size # 0
    /\ size' = size + 1
    /\ Goto(c, "push")
    /\ ahead' = [ahead EXCEPT ![c] = In({"waiting", "held"})]
    /\ UNCHANGED <<queue, pushing, popping>>

PushClaim(c) ==
    /\ pc[c] = "push"
    /\ Q!Claim(c)
    /\ Goto(c, "link")
    /\ UNCHANGED <<size, popping, ahead>>

PushLink(c) ==
    /\ pc[c] = "link"
    /\ Q!Publish(c)
    /\ Goto(c, "waiting")
    /\ UNCHANGED <<size, popping, ahead>>

-----------------------------------------------------------------------------
(* Stop                                                                    *)

\* Mutant: a closure whose Start is still pushing it is not waited for.
StopLooksAtQueue(c) ==
    /\ pc[c] = "held"
    /\ size' = size - 1
    /\ popping' = IF queue # <<>> THEN popping + 1 ELSE popping
    /\ Goto(c, "idle")
    /\ ahead' = [d \in Closures |-> ahead[d] \ {c}]
    /\ UNCHANGED <<queue, pushing>>

\* Mutant: the combiner is uncounted twice.
StopTwice(c) ==
    /\ pc[c] = "held"
    /\ size' = size - 2
    /\ popping' = IF size > 1 THEN popping + 1 ELSE popping
    /\ Goto(c, "idle")
    /\ ahead' = [d \in Closures |-> ahead[d] \ {c}]
    /\ UNCHANGED <<queue, pushing>>

\* fetch_add(-1): more than one means that there is a closure to pop.
Stop(c) ==
    /\ pc[c] = "held"
    /\ size' = size - 1
    /\ popping' = IF size > 1 THEN popping + 1 ELSE popping
    /\ Goto(c, "idle")
    /\ ahead' = [d \in Closures |-> ahead[d] \ {c}]
    /\ UNCHANGED <<queue, pushing>>

\* Mutant: the newest closure is popped first.
StopPopNewest ==
    /\ popping > 0
    /\ queue # <<>> /\ queue[Len(queue)] \notin pushing
    /\ queue' = SubSeq(queue, 1, Len(queue) - 1)
    /\ popping' = popping - 1
    /\ Goto(queue[Len(queue)], "held")
    /\ UNCHANGED <<size, pushing, ahead>>

\* The loop around PopAndCheckEnd gets a closure and schedules it.
StopPop ==
    /\ popping > 0
    /\ Q!Take
    /\ popping' = popping - 1
    /\ Goto(Head(queue), "held")
    /\ UNCHANGED <<size, ahead>>

-----------------------------------------------------------------------------
Next ==
    \/ \E c \in Closures :
          StartNow(c) \/ StartLater(c) \/ PushClaim(c) \/ PushLink(c) \/ Stop(c)
    \/ StopPop

Spec == Init /\ [][Next]_vars

-----------------------------------------------------------------------------
(* Properties                                                              *)

TypeOK ==
    /\ size \in Nat
    /\ queue \in Seq(Closures)
    /\ pushing \subseteq Closures
    /\ pc \in [Closures -> {"idle", "push", "link", "waiting", "held"}]
    /\ popping \in Nat
    /\ ahead \in [Closures -> SUBSET Closures]

\* When nobody holds the combiner or passes it on, nobody waits for it.
NobodyStranded ==
    In({"held"}) = {} /\ popping = 0 => In({"push", "link", "waiting"}) = {}

\* The combiner implements a serial executor: one closure at a time, each one
\* once per Start, and none overtakes a closure whose Start had returned.
Phase(c) ==
    IF pc[c] = "held" THEN "running"
    ELSE IF pc[c] \in {"push", "link"} THEN "calling" ELSE pc[c]

Abstract == INSTANCE SerialExecutor WITH
    Work <- Closures, phase <- [c \in Closures |-> Phase(c)]

SerialSpec == Abstract!Spec
=============================================================================
