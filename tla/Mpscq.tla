-------------------------------- MODULE Mpscq --------------------------------
(***************************************************************************)
(* MultiProducerSingleConsumerQueue and the locked queue around it         *)
(* (src/core/lib/gprpp/mpscq.{h,cc}), one action per access to shared      *)
(* memory.  Nodes are reused: one that was popped may be pushed again.     *)
(*                                                                         *)
(* PopAndCheckEnd pushes the stub with the same Push that producers use;   *)
(* the stub stands for that pusher too.  fifo and stubAt are ghosts: the   *)
(* claimed nodes in the order of their exchanges, and the place of the     *)
(* stub among them (0 when the stub is not in the list).                   *)
(***************************************************************************)
EXTENDS Integers, Sequences, Functions

CONSTANTS
    Nodes,          \* the nodes of the users
    Producers,      \* threads that call Push
    Consumers,      \* threads that call Pop or TryPop
    Stub,           \* stub_
    Null            \* nullptr, no node, no thread

ASSUME MpscqAssumption ==
    /\ Stub \notin Nodes \cup Producers
    /\ Null \notin Nodes \cup Consumers \cup {Stub}

AllNodes == Nodes \cup {Stub}
Pushers == Producers \cup {Stub}

VARIABLES
    head,           \* head_
    tail,           \* tail_
    next,           \* Node::next
    node,           \* per pusher: the node between exchange and link, or Null
    prev,           \* per pusher: the local variable prev of Push
    mu,             \* the owner of mu_, or Null
    pc,             \* where the owner is in PopAndCheckEnd
    op,             \* per consumer: "none", "Pop" or "TryPop"
    got,            \* per consumer: what its last call returned
    fifo,           \* ghost: claimed nodes, oldest first
    stubAt          \* ghost: the place of the stub in the list, or 0

lists == <<head, tail, next, node, prev, fifo, stubAt>>
calls == <<mu, pc, op, got>>
vars == <<lists, calls>>

Init ==
    /\ head = Stub
    /\ tail = Stub
    /\ next = [n \in AllNodes |-> Null]
    /\ node = [p \in Pushers |-> Null]
    /\ prev = [p \in Pushers |-> Null]
    /\ mu = Null
    /\ pc = "start"
    /\ op = [c \in Consumers |-> "none"]
    /\ got = [c \in Consumers |-> Null]
    /\ fifo = <<>>
    /\ stubAt = 1

-----------------------------------------------------------------------------
(* Push                                                                    *)

\* Mutant: the node keeps the next it had when it was popped.
ExchangeKeepsNext(p, n) ==
    /\ node[p] = Null
    /\ head' = n
    /\ node' = [node EXCEPT ![p] = n]
    /\ prev' = [prev EXCEPT ![p] = head]
    /\ UNCHANGED next

\* node->next.store(nullptr) on a node nobody else can see, then the
\* exchange of head_.
Exchange(p, n) ==
    /\ node[p] = Null
    /\ head' = n
    /\ next' = [next EXCEPT ![n] = Null]
    /\ node' = [node EXCEPT ![p] = n]
    /\ prev' = [prev EXCEPT ![p] = head]

\* prev->next.store(node); the push returns prev == &stub_.
Link(p) ==
    /\ node[p] # Null
    /\ next' = [next EXCEPT ![prev[p]] = node[p]]
    /\ node' = [node EXCEPT ![p] = Null]
    /\ prev' = [prev EXCEPT ![p] = Null]
    /\ UNCHANGED <<head, tail, fifo, stubAt>>

PushExchange(p, n) ==
    /\ n \notin Range(fifo)
    /\ Exchange(p, n)
    /\ fifo' = Append(fifo, n)
    /\ UNCHANGED <<tail, stubAt, calls>>

PushLink(p) == Link(p) /\ UNCHANGED calls

-----------------------------------------------------------------------------
(* Pop and TryPop                                                          *)

Call(c, o) ==
    /\ op[c] = "none"
    /\ op' = [op EXCEPT ![c] = o]
    /\ UNCHANGED <<lists, mu, pc, got>>

Lock(c) ==
    /\ op[c] # "none"
    /\ mu = Null
    /\ mu' = c
    /\ pc' = "start"
    /\ UNCHANGED <<lists, op, got>>

TryLockFails(c) ==
    /\ op[c] = "TryPop"
    /\ mu \notin {Null, c}
    /\ op' = [op EXCEPT ![c] = "none"]
    /\ got' = [got EXCEPT ![c] = Null]
    /\ UNCHANGED <<lists, mu, pc>>

\* The call returns v and unlocks mu_.
Return(c, v) ==
    /\ mu' = Null
    /\ op' = [op EXCEPT ![c] = "none"]
    /\ got' = [got EXCEPT ![c] = v]
    /\ pc' = "start"

\* Mutant: Pop loops without looking at *empty.
NoNodeLoops(c, empty) ==
    /\ IF op[c] = "TryPop"
       THEN Return(c, Null)
       ELSE pc' = "start" /\ UNCHANGED <<mu, op, got>>
    /\ UNCHANGED lists

\* PopAndCheckEnd returned nullptr: TryPop gives up, Pop loops until *empty.
NoNode(c, empty) ==
    /\ IF op[c] = "TryPop" \/ empty
       THEN Return(c, Null)
       ELSE pc' = "start" /\ UNCHANGED <<mu, op, got>>
    /\ UNCHANGED lists

Goto(l) == pc' = l /\ UNCHANGED <<mu, op, got>>

\* tail_ = next; return tail.
PopTail(c) ==
    /\ next[tail] # Null
    /\ tail' = next[tail]
    /\ fifo' = Tail(fifo)
    /\ stubAt' = IF stubAt = 0 THEN 0 ELSE stubAt - 1
    /\ Return(c, tail)
    /\ UNCHANGED <<head, next, node, prev>>

\* The list shows nothing behind the stub.
PopEmpty(c) ==
    /\ pc = "start"
    /\ tail = Stub
    /\ next[Stub] = Null
    /\ NoNode(c, TRUE)

SkipStub(c) ==
    /\ pc = "start"
    /\ tail = Stub
    /\ next[Stub] # Null
    /\ tail' = next[Stub]
    /\ stubAt' = 0
    /\ Goto("second")
    /\ UNCHANGED <<head, next, node, prev, fifo>>

PopFirst(c) ==
    /\ pc \in {"start", "second"}
    /\ tail # Stub
    /\ PopTail(c)

NoNext(c) ==
    /\ pc \in {"start", "second"}
    /\ tail # Stub
    /\ next[tail] = Null
    /\ Goto("head")
    /\ UNCHANGED lists

\* Mutant: a node that is still being added counts as the end of the queue.
StillAddingIsEmpty(c) ==
    /\ pc = "head"
    /\ tail # head
    /\ NoNode(c, TRUE)

\* The load of head_: another node was claimed, a retry is in order.
StillAdding(c) ==
    /\ pc = "head"
    /\ tail # head
    /\ NoNode(c, FALSE)

\* Mutant: the last node is returned and tail_ stays behind on it.
LastNodeWithoutStub(c) ==
    /\ pc = "head"
    /\ tail = head
    /\ fifo' = Tail(fifo)
    /\ Return(c, tail)
    /\ UNCHANGED <<head, tail, next, node, prev, stubAt>>

LastNode(c) ==
    /\ pc = "head"
    /\ tail = head
    /\ Goto("stub")
    /\ UNCHANGED lists

StubExchange(c) ==
    /\ pc = "stub"
    /\ Exchange(Stub, Stub)
    /\ stubAt' = Len(fifo) + 1
    /\ Goto("link")
    /\ UNCHANGED <<tail, fifo>>

StubLink(c) ==
    /\ pc = "link"
    /\ Link(Stub)
    /\ Goto("last")

PopLast(c) == pc = "last" /\ PopTail(c)

StillAddingLast(c) ==
    /\ pc = "last"
    /\ next[tail] = Null
    /\ NoNode(c, FALSE)

PopStep(c) ==
    /\ mu = c
    /\ \/ PopEmpty(c) \/ SkipStub(c) \/ PopFirst(c) \/ NoNext(c)
       \/ StillAdding(c) \/ LastNode(c)
       \/ StubExchange(c) \/ StubLink(c)
       \/ PopLast(c) \/ StillAddingLast(c)

-----------------------------------------------------------------------------
Next ==
    \/ \E p \in Producers :
          \/ \E n \in Nodes : PushExchange(p, n)
          \/ PushLink(p)
    \/ \E c \in Consumers :
          \/ \E o \in {"Pop", "TryPop"} : Call(c, o)
          \/ Lock(c)
          \/ TryLockFails(c)
          \/ PopStep(c)

Spec == Init /\ [][Next]_vars

\* Threads that are inside Push, or hold mu_, keep running.
Fairness ==
    /\ \A p \in Producers : WF_vars(PushLink(p))
    /\ \A c \in Consumers : WF_vars(PopStep(c))

FairSpec == Spec /\ Fairness

-----------------------------------------------------------------------------
(* Properties                                                              *)

TypeOK ==
    /\ head \in AllNodes
    /\ tail \in AllNodes
    /\ next \in [AllNodes -> AllNodes \cup {Null}]
    /\ node \in [Pushers -> AllNodes \cup {Null}]
    /\ prev \in [Pushers -> AllNodes \cup {Null}]
    /\ mu \in Consumers \cup {Null}
    /\ pc \in {"start", "second", "head", "stub", "link", "last"}
    /\ op \in [Consumers -> {"none", "Pop", "TryPop"}]
    /\ got \in [Consumers -> Nodes \cup {Null}]
    /\ fifo \in Seq(Nodes)
    /\ stubAt \in 0..(Len(fifo) + 1)

\* The list from tail_ to head_: the claimed nodes with the stub among them.
Size == Len(fifo) + (IF stubAt = 0 THEN 0 ELSE 1)

At(i) == IF stubAt = 0 \/ i < stubAt THEN fifo[i]
         ELSE IF i = stubAt THEN Stub ELSE fifo[i - 1]

\* Pusher p has claimed the place behind At(i) and has not linked it yet.
Gap(i, p) == node[p] = At(i + 1) /\ prev[p] = At(i)

\* The list that Push and Pop share is never broken: it starts at tail_, ends
\* at head_ with a null next, holds no node twice, and two neighbours are
\* linked unless exactly one pusher is about to link them; every pusher
\* between its exchange and its store has such a gap to close, so no store to
\* prev->next ever lands in a node that was already popped.
ListUnbroken ==
    /\ Size >= 1
    /\ tail = At(1)
    /\ head = At(Size)
    /\ next[head] = Null
    /\ \A i, j \in 1..Len(fifo) : fifo[i] = fifo[j] => i = j
    /\ \A i \in 1..(Size - 1) :
          \/ next[At(i)] = At(i + 1)
          \/ next[At(i)] = Null /\ \E p \in Pushers : Gap(i, p)
    /\ \A p \in Pushers : node[p] # Null =>
          /\ \E i \in 1..(Size - 1) : Gap(i, p) /\ next[At(i)] = Null
          /\ \A q \in Pushers : node[q] = node[p] => q = p

\* What the owner of mu_ knows at each point of PopAndCheckEnd.  It pushes the
\* stub only when the stub is out of the list: pushing it twice would cut off
\* every node between its two places.
ConsumerKnows ==
    /\ mu = Null => pc = "start"
    /\ mu # Null => op[mu] # "none"
    /\ pc # "start" => tail # Stub
    /\ pc = "stub" => stubAt = 0
    /\ node[Stub] = IF pc = "link" THEN Stub ELSE Null
    /\ \A p \in Producers : node[p] # Stub

Inv == TypeOK /\ ListUnbroken /\ ConsumerKnows

\* An empty queue is back in its initial shape, so that the assertions of the
\* destructor hold (mpscq.h:42-45), and the next Push sees the stub and
\* returns true: Push never returns false for the first node of an empty
\* queue, which is what mpscq.h:50-51 promises to callers that wake a consumer.
DrainedIsPristine == fifo = <<>> => head = Stub /\ tail = Stub

\* The queue implements its abstract specification: nodes come out in the
\* order of the exchanges, each once, and Pop returns nullptr only when the
\* queue is empty or its oldest node is still being pushed.
Abstract == INSTANCE MpscqSpec WITH
    queue <- fifo, pushing <- {node[p] : p \in Producers} \ {Null}

AbstractSpec == Abstract!Spec

\* The loop of Pop ends: the owner of mu_ always gives it back, because every
\* reason for a retry is a push in progress that closes its gap.
PopTerminates == \A c \in Consumers : mu = c ~> mu # c
=============================================================================
