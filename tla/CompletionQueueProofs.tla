------------------------ MODULE CompletionQueueProofs ------------------------
(***************************************************************************)
(* Proofs about the three kinds of completion queue, for any finite sets   *)
(* of operations and callers; PluckQueueProofs does the second kind.  The  *)
(* properties of GRPC_CQ_NEXT hold each other up: the shutdown is safe     *)
(* because pending_events counts exactly, nothing is lost because the      *)
(* shutdown is safe, and the queue is freed in time because of both.  So   *)
(* they are parts of one inductive invariant.                              *)
(***************************************************************************)
EXTENDS MCCompletionQueue, CountingLemmas, TLAPS

USE CompletionQueueAssumption

OpPlaces == {"idle", "refused", "begun", "cached", "claimed", "linked",
             "first", "queued", "kick", "drop", "zero", "last",
             "finish", "finished", "returned"}
PcPlaces == {"out", "pop", "locked", "took", "null", "pending",
             "shut", "time", "wait", "ret", "more", "kick", "leave"}

\* The operations, and the callers, that are in one of some places.
OpsIn(S) == {o \in Ops : op[o] \in S}
CallersAt(S) == {c \in Callers : pc[c] \in S}

OutPlaces == {"begun", "cached", "claimed", "linked", "first",
              "queued", "kick", "drop", "zero"}
FinPlaces == {"zero", "last", "finish"}

-----------------------------------------------------------------------------
(* The inductive invariant                                                 *)

\* The list of the poller is the callers that wait in it; a kick that found
\* none is remembered only while there is none; the closure is scheduled
\* when the last one is gone.
Listed ==
    /\ ToSet(workers) = CallersAt({"wait"})
    /\ kickedWithoutPoller => workers = <<>>
    /\ shutdownDone > 0 => pollerShutdown /\ workers = <<>>

\* pending_events = 0 is final, and one thread sees to what follows from it.
Closing ==
    /\ pollerShutdown => pending = 0
    /\ pending = 0 => pollerShutdown \/ Finishing # {}
    /\ \A c \in Callers : pc[c] = "shut" => pending = 0
    /\ drained => pending = 0
    /\ destroyed => drained

\* Every event that end_op has let go of is in the queue, in the hands of one
\* caller, or handed to the application.
Kept ==
    /\ \A c \in Callers : pc[c] = "took" => event[c] \in Ops
    /\ \A o \in Ops :
          \/ op[o] \in {"idle", "refused", "begun", "cached"}
          \/ o \in Range(queue) \cup delivered
          \/ \E c \in Callers : pc[c] = "took" /\ event[c] = o

\* The reference "pollset_destroy".
PollerHolds == ~pollerShutdown \/ workers # <<>> \/ shutdownDone > 0

\* owning_refs counts destroy, the poller, the calls of next and the threads
\* that took "shutting_down".
RefsAccount ==
    refs = (IF destroyed THEN 0 ELSE 1) + (IF PollerHolds THEN 1 ELSE 0)
             + Cardinality(Inside)
             + Cardinality(OpsIn({"zero", "finish", "finished"}))

\* The callers that will look at the queue, or at its counter, once more.
Looking == CallersAt({"pop", "locked", "took", "null", "ret", "more", "kick"})

\* While items are counted, someone will look at the queue again, or kick a
\* caller that does, or finish the shutdown.
Attended ==
    numItems > 0 /\ pending > 0 =>
        \/ OpsIn({"first", "kick", "zero"}) # {}
        \/ kickedWithoutPoller \/ kicked # {}
        \/ Looking # {}
        \/ \E c \in CallersAt({"pending", "time", "wait"}) : zeroPoll[c]

Inv ==
    /\ TypeOK /\ CountersAccount /\ FinishOnce /\ ShutdownIsLast
    /\ Listed /\ Closing /\ Kept /\ RefsAccount /\ Attended

-----------------------------------------------------------------------------
(* Counting                                                                *)

nOut == Cardinality(Outstanding)
nPush == Cardinality({o \in Ops : op[o] \in {"claimed", "linked"}})
nShut == Cardinality(OpsIn({"zero", "finish", "finished"}))
nTook == Cardinality({c \in Callers : pc[c] = "took"})
nIn == Cardinality(Inside)

LEMMA Numbers ==
    /\ nOut \in Nat /\ nOut <= Cardinality(Ops) /\ (nOut = 0 <=> Outstanding = {})
    /\ \A o \in Outstanding : nOut >= 1 /\ (nOut = 1 => Outstanding = {o})
    /\ nOut' \in Nat /\ nOut' <= Cardinality(Ops)
    /\ nPush \in Nat /\ (nPush = 0 <=> \A o \in Ops : op[o] \notin {"claimed", "linked"})
    /\ nShut \in Nat /\ (nShut = 0 <=> OpsIn({"zero", "finish", "finished"}) = {})
    /\ nTook \in Nat /\ (nTook = 0 <=> \A c \in Callers : pc[c] # "took")
    /\ nIn \in Nat /\ (nIn = 0 <=> Inside = {})
    /\ nShut' \in Nat /\ nIn' \in Nat
    /\ Cardinality(Ops) \in Nat
<1>1. /\ Outstanding \in SUBSET Ops /\ Outstanding' \in SUBSET Ops
      /\ OpsIn({"zero", "finish", "finished"}) \in SUBSET Ops
      /\ OpsIn({"zero", "finish", "finished"})' \in SUBSET Ops
      /\ Inside \in SUBSET Callers /\ Inside' \in SUBSET Callers
  BY DEF Outstanding, OpsIn, Inside
<1>2. /\ nOut \in Nat /\ nOut <= Cardinality(Ops) /\ (nOut = 0 <=> Outstanding = {})
      /\ \A o \in Outstanding : nOut >= 1 /\ (nOut = 1 => Outstanding = {o})
  BY <1>1, Finite DEF nOut
<1>3. nOut' \in Nat /\ nOut' <= Cardinality(Ops)
  BY <1>1, Finite DEF nOut
<1>4. nPush \in Nat /\ (nPush = 0 <=> \A o \in Ops : op[o] \notin {"claimed", "linked"})
  <2> DEFINE T == {o \in Ops : op[o] \in {"claimed", "linked"}}
  <2>1. T \in SUBSET Ops /\ (T = {} <=> \A o \in Ops : op[o] \notin {"claimed", "linked"})
    OBVIOUS
  <2> HIDE DEF T
  <2>2. Cardinality(T) \in Nat /\ (Cardinality(T) = 0 <=> T = {})
    BY <2>1, Finite
  <2> QED BY <2>1, <2>2 DEF nPush, T
<1>5. nShut \in Nat /\ (nShut = 0 <=> OpsIn({"zero", "finish", "finished"}) = {})
  BY <1>1, Finite DEF nShut
<1>6. nTook \in Nat /\ (nTook = 0 <=> \A c \in Callers : pc[c] # "took")
  <2> DEFINE T == {c \in Callers : pc[c] = "took"}
  <2>1. T \in SUBSET Callers /\ (T = {} <=> \A c \in Callers : pc[c] # "took")
    OBVIOUS
  <2> HIDE DEF T
  <2>2. Cardinality(T) \in Nat /\ (Cardinality(T) = 0 <=> T = {})
    BY <2>1, Finite
  <2> QED BY <2>1, <2>2 DEF nTook, T
<1>7. nIn \in Nat /\ (nIn = 0 <=> Inside = {})
  BY <1>1, Finite DEF nIn
<1>8. nShut' \in Nat /\ nIn' \in Nat
  BY <1>1, Finite DEF nShut, nIn
<1> QED BY <1>2, <1>3, <1>4, <1>5, <1>6, <1>7, <1>8, FS_CardinalityType

\* What a step of one operation does to the counts.
LEMMA OpMoves ==
    ASSUME TypeOK, NEW o \in Ops, NEW to \in OpPlaces, op' = [op EXCEPT ![o] = to]
    PROVE  /\ nOut' = nOut + One(to \in OutPlaces) - One(op[o] \in OutPlaces)
           /\ nPush' = nPush + One(to \in {"claimed", "linked"})
                              - One(op[o] \in {"claimed", "linked"})
           /\ nShut' = nShut + One(to \in {"zero", "finish", "finished"})
                              - One(op[o] \in {"zero", "finish", "finished"})
<1>1. op'[o] = to /\ \A p \in Ops : p # o => op'[p] = op[p]
  BY DEF TypeOK
<1>2. ASSUME NEW S
      PROVE  Cardinality(OpsIn(S)') =
                Cardinality(OpsIn(S)) + One(to \in S) - One(op[o] \in S)
  <2>1. OpsIn(S)' = IF to \in S THEN OpsIn(S) \cup {o} ELSE OpsIn(S) \ {o}
    BY <1>1 DEF OpsIn
  <2>2. OpsIn(S) \in SUBSET Ops /\ (o \in OpsIn(S) <=> op[o] \in S)
    BY DEF OpsIn
  <2>3. /\ Cardinality(OpsIn(S) \cup {o}) =
              Cardinality(OpsIn(S)) + 1 - One(o \in OpsIn(S))
        /\ Cardinality(OpsIn(S) \ {o}) = Cardinality(OpsIn(S)) - One(o \in OpsIn(S))
        /\ Cardinality(OpsIn(S)) \in Nat
    BY <2>2, Moves, Finite
  <2> QED BY <2>1, <2>2, <2>3 DEF One
<1>3. nOut = Cardinality(OpsIn(OutPlaces)) /\ nOut' = Cardinality(OpsIn(OutPlaces)')
  BY DEF nOut, Outstanding, OpsIn, OutPlaces
<1>4. /\ nPush = Cardinality(OpsIn({"claimed", "linked"}))
      /\ nPush' = Cardinality(OpsIn({"claimed", "linked"})')
  BY DEF nPush, OpsIn
<1> QED BY <1>2, <1>3, <1>4 DEF nShut

\* What a step of one caller does to the counts.
LEMMA CallerMoves ==
    ASSUME TypeOK, NEW c \in Callers, NEW to \in PcPlaces, pc' = [pc EXCEPT ![c] = to]
    PROVE  /\ nTook' = nTook + One(to = "took") - One(pc[c] = "took")
           /\ nIn' = nIn + One(to # "out") - One(pc[c] # "out")
<1>1. pc'[c] = to /\ \A d \in Callers : d # c => pc'[d] = pc[d]
  BY DEF TypeOK
<1>2. nTook' = nTook + One(to = "took") - One(pc[c] = "took")
  <2> DEFINE T == {d \in Callers : pc[d] = "took"}
  <2>1. T' = IF to = "took" THEN T \cup {c} ELSE T \ {c}
    BY <1>1
  <2>2. T \in SUBSET Callers /\ (c \in T <=> pc[c] = "took")
    OBVIOUS
  <2>3. nTook = Cardinality(T) /\ nTook' = Cardinality(T')
    BY DEF nTook
  <2> HIDE DEF T
  <2>4. /\ Cardinality(T \cup {c}) = Cardinality(T) + 1 - One(c \in T)
        /\ Cardinality(T \ {c}) = Cardinality(T) - One(c \in T)
        /\ Cardinality(T) \in Nat
    BY <2>2, Moves, Finite
  <2> QED BY <2>1, <2>2, <2>3, <2>4 DEF One
<1>3. nIn' = nIn + One(to # "out") - One(pc[c] # "out")
  <2>1. Inside' = IF to # "out" THEN Inside \cup {c} ELSE Inside \ {c}
    BY <1>1 DEF Inside
  <2>2. Inside \in SUBSET Callers /\ (c \in Inside <=> pc[c] # "out")
    BY DEF Inside
  <2>3. /\ Cardinality(Inside \cup {c}) = Cardinality(Inside) + 1 - One(c \in Inside)
        /\ Cardinality(Inside \ {c}) = Cardinality(Inside) - One(c \in Inside)
        /\ Cardinality(Inside) \in Nat
    BY <2>2, Moves, Finite
  <2> QED BY <2>1, <2>2, <2>3 DEF One, nIn
<1> QED BY <1>2, <1>3

\* The two accounts, in numbers.
LEMMA Balance ==
    ASSUME Inv
    PROVE  /\ Len(queue) \in Nat /\ numItems = Len(queue) + nTook - nPush
           /\ pending = nOut + One(~shutdownCalled)
           /\ refs = One(~destroyed) + One(PollerHolds) + nIn + nShut
           /\ pending = 0 => shutdownCalled /\ Outstanding = {}
<1>1. Len(queue) \in Nat /\ numItems = Len(queue) + nTook - nPush
  BY DEF Inv, TypeOK, CountersAccount, nTook, nPush
<1>2. pending = nOut + One(~shutdownCalled)
  BY DEF Inv, CountersAccount, nOut, One
<1>3. refs = One(~destroyed) + One(PollerHolds) + nIn + nShut
  BY DEF Inv, RefsAccount, nIn, nShut, One
<1> QED BY <1>1, <1>2, <1>3, Numbers DEF One

-----------------------------------------------------------------------------
(* The initial states, and the steps that touch nothing shared             *)

LEMMA InitInv == Init => Inv
<1> SUFFICES ASSUME Init PROVE Inv
  OBVIOUS
<1>1. /\ Outstanding = {} /\ Finishing = {} /\ Inside = {}
      /\ OpsIn({"zero", "finish", "finished"}) = {}
      /\ {o \in Ops : op[o] \in {"claimed", "linked"}} = {}
      /\ {c \in Callers : pc[c] = "took"} = {} /\ CallersAt({"wait"}) = {}
  BY DEF Init, Outstanding, Finishing, Inside, OpsIn, CallersAt
<1>2. Cardinality({}) = 0 /\ Cardinality(Ops) \in Nat
  BY FS_EmptySet, FS_CardinalityType
<1>3. TypeOK
  <2>1. /\ queue \in Seq(Ops) /\ workers \in Seq(Callers) /\ IsInjective(workers)
        /\ kicked \subseteq ToSet(workers) /\ ToSet(workers) = {}
    BY DEF Init, IsInjective, ToSet
  <2>2. /\ pushing \subseteq Ops /\ queueLock \in Callers \cup {Null}
        /\ numItems \in Int /\ pending \in 0 .. Cardinality(Ops) + 1
        /\ shutdownDone \in 0 .. 1 /\ refs \in Nat /\ delivered \subseteq Ops
    BY <1>2 DEF Init
  <2>3. /\ shutdownCalled \in BOOLEAN /\ kickedWithoutPoller \in BOOLEAN
        /\ pollerShutdown \in BOOLEAN /\ destroyed \in BOOLEAN /\ drained \in BOOLEAN
        /\ firstLoop \in [Callers -> BOOLEAN] /\ zeroPoll \in [Callers -> BOOLEAN]
    BY DEF Init
  <2>4. op \in [Ops -> OpPlaces] /\ pc \in [Callers -> PcPlaces]
    BY DEF Init, OpPlaces, PcPlaces
  <2>5. /\ event \in [Callers -> Ops \cup {Null}]
        /\ deadline \in [Callers -> {"inf", "finite", "past"}]
        /\ cache \in [Callers -> {"off", "armed"} \cup Ops]
    BY DEF Init
  <2> QED BY <2>1, <2>2, <2>3, <2>4, <2>5 DEF TypeOK, OpPlaces, PcPlaces
<1>4. CountersAccount /\ RefsAccount
  <2>1. /\ Len(queue) = 0 /\ numItems = 0 /\ pending = 1 /\ refs = 2
        /\ ~shutdownCalled /\ ~destroyed /\ PollerHolds
    BY DEF Init, PollerHolds
  <2>2. nOut = 0 /\ nPush = 0 /\ nShut = 0 /\ nTook = 0 /\ nIn = 0
    BY <1>1, <1>2 DEF nOut, nPush, nShut, nTook, nIn
  <2>3. CountersAccount
    BY <2>1, <2>2 DEF CountersAccount, nOut, nPush, nTook
  <2>4. RefsAccount
    BY <2>1, <2>2 DEF RefsAccount, nIn, nShut
  <2> QED BY <2>3, <2>4
<1>5. FinishOnce /\ ShutdownIsLast /\ Closing /\ Kept /\ Attended
  BY <1>1 DEF Init, FinishOnce, ShutdownIsLast, Closing, Kept, Attended
<1>6. Listed
  BY <1>1 DEF Init, Listed, ToSet
<1> QED BY <1>3, <1>4, <1>5, <1>6 DEF Inv

\* A caller that goes on inside cq_next without an event and without waiting,
\* and changes at most the queue lock and its iteration_deadline.
LEMMA CallerGoesOn ==
    ASSUME Inv, NEW c \in Callers, NEW to \in PcPlaces \ {"out", "took", "wait"},
           pc[c] \notin {"out", "took", "wait"},
           pc' = [pc EXCEPT ![c] = to],
           to = "shut" => pending = 0,
           queueLock' \in Callers \cup {Null}, zeroPoll' \in [Callers -> BOOLEAN],
           UNCHANGED <<fifo, counts, poller, life, op, event, firstLoop, deadline, cache, ghosts>>,
           Attended'
    PROVE  Inv'
<1>1. /\ UNCHANGED <<queue, pushing, numItems, pending, shutdownCalled, workers, kicked,
                     kickedWithoutPoller, pollerShutdown, shutdownDone, refs, destroyed,
                     op, event, firstLoop, deadline, cache, delivered, drained>>
      /\ pc'[c] = to /\ \A d \in Callers : d # c => pc'[d] = pc[d]
  BY DEF fifo, counts, poller, life, ghosts, Inv, TypeOK
<1>2. TypeOK'
  BY <1>1 DEF Inv, TypeOK, PcPlaces
<1>3. /\ Outstanding' = Outstanding /\ Finishing' = Finishing
      /\ OpsIn({"zero", "finish", "finished"})' = OpsIn({"zero", "finish", "finished"})
  BY <1>1 DEF Outstanding, Finishing, OpsIn
<1>4. nTook' = nTook /\ nIn' = nIn
  <2>1. /\ nTook' = nTook + One(to = "took") - One(pc[c] = "took")
        /\ nIn' = nIn + One(to # "out") - One(pc[c] # "out")
    BY CallerMoves DEF Inv
  <2> QED BY <2>1, Numbers DEF One
<1>5. CountersAccount'
  <2>1. nPush' = nPush
    BY <1>1 DEF nPush
  <2> QED BY <1>1, <1>3, <1>4, <2>1 DEF Inv, CountersAccount, nTook, nPush
<1>6. FinishOnce' /\ ShutdownIsLast' /\ Closing'
  BY <1>1, <1>3 DEF Inv, FinishOnce, ShutdownIsLast, Closing
<1>7. Listed'
  <2>1. CallersAt({"wait"})' = CallersAt({"wait"})
    BY <1>1 DEF CallersAt
  <2> QED BY <1>1, <2>1 DEF Inv, Listed
<1>8. Kept'
  BY <1>1 DEF Inv, Kept
<1>9. RefsAccount'
  BY <1>1, <1>3, <1>4 DEF Inv, RefsAccount, nIn, PollerHolds
<1> QED BY <1>2, <1>5, <1>6, <1>7, <1>8, <1>9 DEF Inv

LEMMA PopTryLockInv ==
    ASSUME Inv, NEW c \in Callers, PopTryLock(c)
    PROVE  Inv'
<1> DEFINE to == IF queueLock = Null THEN "locked" ELSE "null"
<1>1. /\ pc[c] = "pop" /\ pc' = [pc EXCEPT ![c] = to]
      /\ queueLock' \in Callers \cup {Null}
      /\ UNCHANGED <<fifo, counts, poller, life, op, locals, cache, ghosts>>
  BY DEF PopTryLock, Goto, Inv, TypeOK
<1>2. zeroPoll' \in [Callers -> BOOLEAN]
  BY <1>1 DEF locals, Inv, TypeOK
<1>3. to \in {"locked", "null"} /\ c \in Looking'
  BY <1>1 DEF Looking, CallersAt, Inv, TypeOK
<1>4. Attended'
  BY <1>3 DEF Attended
<1> QED BY <1>1, <1>2, <1>3, <1>4, CallerGoesOn DEF PcPlaces, locals

LEMMA PopFailsInv ==
    ASSUME Inv, NEW c \in Callers, PopFails(c)
    PROVE  Inv'
<1>1. /\ pc[c] = "locked" /\ pc' = [pc EXCEPT ![c] = "null"] /\ queueLock' = Null
      /\ UNCHANGED <<fifo, counts, poller, life, op, locals, cache, ghosts>>
  BY DEF PopFails, Goto
<1>2. zeroPoll' \in [Callers -> BOOLEAN]
  BY <1>1 DEF locals, Inv, TypeOK
<1>3. Attended'
  <2>1. c \in Looking'
    BY <1>1 DEF Looking, CallersAt, Inv, TypeOK
  <2> QED BY <2>1 DEF Attended
<1> QED BY <1>1, <1>2, <1>3, CallerGoesOn DEF PcPlaces, locals

LEMMA PopNullInv ==
    ASSUME Inv, NEW c \in Callers, PopNull(c)
    PROVE  Inv'
<1>1. /\ pc[c] = "null" /\ pc' = [pc EXCEPT ![c] = "pending"]
      /\ zeroPoll' = [zeroPoll EXCEPT ![c] = (numItems > 0)]
      /\ UNCHANGED <<queueLock, numItems>>
      /\ UNCHANGED <<fifo, counts, poller, life, op, event, firstLoop, deadline, cache, ghosts>>
  BY DEF PopNull, Goto, counts
<1>2. zeroPoll' \in [Callers -> BOOLEAN] /\ queueLock' \in Callers \cup {Null}
  BY <1>1 DEF Inv, TypeOK
<1>3. Attended'
  <2> SUFFICES ASSUME numItems' > 0
               PROVE  \E d \in CallersAt({"pending", "time", "wait"})' : zeroPoll'[d]
    BY DEF Attended
  <2>1. c \in CallersAt({"pending", "time", "wait"})' /\ zeroPoll'[c]
    BY <1>1 DEF CallersAt, Inv, TypeOK
  <2> QED BY <2>1
<1> QED BY <1>1, <1>2, <1>3, CallerGoesOn DEF PcPlaces

LEMMA NextPendingInv ==
    ASSUME Inv, NEW c \in Callers, NextPending(c)
    PROVE  Inv'
<1> DEFINE to == IF pending = 0 THEN "shut" ELSE "time"
<1>1. /\ pc[c] = "pending" /\ pc' = [pc EXCEPT ![c] = to] /\ UNCHANGED queueLock
      /\ UNCHANGED <<fifo, counts, poller, life, op, locals, cache, ghosts>>
  BY DEF NextPending, Goto
<1>2. zeroPoll' \in [Callers -> BOOLEAN] /\ queueLock' \in Callers \cup {Null}
  BY <1>1 DEF locals, Inv, TypeOK
<1>3. Attended'
  <2>1. CASE pending = 0
    BY <1>1, <2>1 DEF counts, Attended
  <2>2. CASE pending # 0
    <3>1. /\ Looking' = Looking
          /\ CallersAt({"pending", "time", "wait"})' = CallersAt({"pending", "time", "wait"})
      BY <1>1, <2>2 DEF Looking, CallersAt, Inv, TypeOK
    <3> QED BY <1>1, <3>1 DEF Inv, Attended, OpsIn, counts, poller, locals
  <2> QED BY <2>1, <2>2
<1> QED BY <1>1, <1>2, <1>3, CallerGoesOn DEF PcPlaces, locals

LEMMA NextTimeoutInv ==
    ASSUME Inv, NEW c \in Callers, NextTimeout(c)
    PROVE  Inv'
<1>1. /\ pc[c] = "time" /\ pc' = [pc EXCEPT ![c] = "ret"] /\ UNCHANGED queueLock
      /\ UNCHANGED <<fifo, counts, poller, life, op, locals, cache, ghosts>>
  BY DEF NextTimeout, Goto
<1>2. zeroPoll' \in [Callers -> BOOLEAN] /\ queueLock' \in Callers \cup {Null}
  BY <1>1 DEF locals, Inv, TypeOK
<1>3. Attended'
  <2>1. c \in Looking'
    BY <1>1 DEF Looking, CallersAt, Inv, TypeOK
  <2> QED BY <2>1 DEF Attended
<1> QED BY <1>1, <1>2, <1>3, CallerGoesOn DEF PcPlaces, locals

LEMMA TrailingItemsInv ==
    ASSUME Inv, NEW c \in Callers, TrailingItems(c)
    PROVE  Inv'
<1> DEFINE to == IF numItems > 0 THEN "more" ELSE "leave"
<1>1. /\ pc[c] = "ret" /\ pc' = [pc EXCEPT ![c] = to] /\ UNCHANGED queueLock
      /\ UNCHANGED <<fifo, counts, poller, life, op, locals, cache, ghosts>>
  BY DEF TrailingItems, Goto
<1>2. zeroPoll' \in [Callers -> BOOLEAN] /\ queueLock' \in Callers \cup {Null}
  BY <1>1 DEF locals, Inv, TypeOK
<1>3. Attended'
  <2> SUFFICES ASSUME numItems' > 0 PROVE Looking' # {}
    BY DEF Attended
  <2>1. c \in Looking'
    BY <1>1 DEF Looking, CallersAt, Inv, TypeOK, counts
  <2> QED BY <2>1
<1> QED BY <1>1, <1>2, <1>3, CallerGoesOn DEF PcPlaces, locals

LEMMA TrailingPendingInv ==
    ASSUME Inv, NEW c \in Callers, TrailingPending(c)
    PROVE  Inv'
<1> DEFINE to == IF pending > 0 THEN "kick" ELSE "leave"
<1>1. /\ pc[c] = "more" /\ pc' = [pc EXCEPT ![c] = to] /\ UNCHANGED queueLock
      /\ UNCHANGED <<fifo, counts, poller, life, op, locals, cache, ghosts>>
  BY DEF TrailingPending, Goto
<1>2. zeroPoll' \in [Callers -> BOOLEAN] /\ queueLock' \in Callers \cup {Null}
  BY <1>1 DEF locals, Inv, TypeOK
<1>3. Attended'
  <2> SUFFICES ASSUME pending' > 0 PROVE Looking' # {}
    BY DEF Attended
  <2>1. c \in Looking'
    BY <1>1 DEF Looking, CallersAt, Inv, TypeOK, counts
  <2> QED BY <2>1
<1> QED BY <1>1, <1>2, <1>3, CallerGoesOn DEF PcPlaces, locals

\* GRPC_QUEUE_SHUTDOWN: with pending_events = 0 no push is under way, so a
\* counter that is not positive means an empty queue and no pop under way.
LEMMA NextShutInv ==
    ASSUME Inv, NEW c \in Callers, NextShut(c)
    PROVE  Inv'
<1>1. CASE numItems > 0
  <2>1. /\ pc[c] = "shut" /\ pc' = [pc EXCEPT ![c] = "pop"] /\ UNCHANGED queueLock
        /\ UNCHANGED <<fifo, counts, poller, life, op, locals, cache, ghosts>>
    BY <1>1 DEF NextShut, Goto, ghosts
  <2>2. zeroPoll' \in [Callers -> BOOLEAN] /\ queueLock' \in Callers \cup {Null}
    BY <2>1 DEF locals, Inv, TypeOK
  <2>3. Attended'
    <3>1. c \in Looking'
      BY <2>1 DEF Looking, CallersAt, Inv, TypeOK
    <3> QED BY <3>1 DEF Attended
  <2> QED BY <2>1, <2>2, <2>3, CallerGoesOn DEF PcPlaces, locals
<1>2. CASE ~(numItems > 0)
  <2>1. /\ pc[c] = "shut" /\ pc' = [pc EXCEPT ![c] = "ret"] /\ drained' = TRUE
        /\ UNCHANGED <<queue, pushing, queueLock, numItems, pending, shutdownCalled, workers,
                       kicked, kickedWithoutPoller, pollerShutdown, shutdownDone, refs,
                       destroyed, op, event, firstLoop, zeroPoll, deadline, cache, delivered>>
        /\ pc'[c] = "ret" /\ \A d \in Callers : d # c => pc'[d] = pc[d]
    BY <1>2 DEF NextShut, Goto, fifo, counts, poller, life, locals, Inv, TypeOK
  <2>2. pending = 0 /\ Outstanding = {}
    BY <2>1, Balance DEF Inv, Closing
  <2>3. nPush = 0
    BY <2>2, Numbers DEF Outstanding
  <2>4. Len(queue) = 0 /\ nTook = 0
    BY <1>2, <2>3, Balance, Numbers
  <2>5. queue = <<>> /\ \A d \in Callers : pc[d] # "took"
    BY <2>4, Numbers DEF Inv, TypeOK
  <2>6. ShutdownIsLast'
    <3>1. \A o \in Ops : op[o] \in {"idle", "refused"} \/ o \in delivered
      <4>1. \A o \in Ops : op[o] \notin {"begun", "cached"}
        BY <2>2 DEF Outstanding
      <4>2. Range(queue) = {}
        BY <2>5 DEF Range
      <4> QED BY <2>5, <4>1, <4>2 DEF Inv, Kept
    <3> QED BY <2>1, <2>5, <3>1 DEF ShutdownIsLast
  <2>7. TypeOK'
    BY <2>1 DEF Inv, TypeOK
  <2>8. Outstanding' = Outstanding /\ Finishing' = Finishing
    BY <2>1 DEF Outstanding, Finishing
  <2>9. FinishOnce' /\ Closing'
    BY <2>1, <2>2, <2>8 DEF Inv, FinishOnce, Closing
  <2>10. nTook' = nTook /\ nIn' = nIn /\ nPush' = nPush /\ nShut' = nShut
    <3>1. /\ nTook' = nTook + One("ret" = "took") - One(pc[c] = "took")
          /\ nIn' = nIn + One("ret" # "out") - One(pc[c] # "out")
      BY <2>1, CallerMoves DEF Inv, PcPlaces
    <3> QED BY <2>1, <3>1, Numbers DEF One, nPush, nShut, OpsIn
  <2>11. CountersAccount' /\ RefsAccount'
    BY <2>1, <2>8, <2>10
    DEF Inv, CountersAccount, RefsAccount, nTook, nPush, nIn, nShut, PollerHolds
  <2>12. CallersAt({"wait"})' = CallersAt({"wait"})
    BY <2>1 DEF CallersAt
  <2>13. Listed' /\ Kept' /\ Attended'
    BY <2>1, <2>2, <2>12 DEF Inv, Listed, Kept, Attended
  <2> QED BY <2>6, <2>7, <2>9, <2>11, <2>13 DEF Inv
<1> QED BY <1>1, <1>2

-----------------------------------------------------------------------------
(* The other steps of a caller                                             *)

LEMMA SameOps ==
    ASSUME op' = op
    PROVE  /\ Outstanding' = Outstanding /\ Finishing' = Finishing
           /\ nOut' = nOut /\ nPush' = nPush /\ nShut' = nShut
           /\ OpsIn({"first", "kick", "zero"})' = OpsIn({"first", "kick", "zero"})
BY DEF Outstanding, Finishing, OpsIn, nOut, nPush, nShut

LEMMA SameCallers ==
    ASSUME pc' = pc
    PROVE  /\ nTook' = nTook /\ nIn' = nIn /\ Looking' = Looking
           /\ CallersAt({"wait"})' = CallersAt({"wait"})
           /\ CallersAt({"pending", "time", "wait"})' = CallersAt({"pending", "time", "wait"})
BY DEF nTook, nIn, Inside, Looking, CallersAt

LEMMA DeadlinePassesInv ==
    ASSUME Inv, NEW c \in Callers, DeadlinePasses(c)
    PROVE  Inv'
<1>1. /\ deadline' = [deadline EXCEPT ![c] = "past"]
      /\ UNCHANGED <<queue, pushing, queueLock, numItems, pending, shutdownCalled, workers,
                     kicked, kickedWithoutPoller, pollerShutdown, shutdownDone, refs,
                     destroyed, op, pc, event, firstLoop, zeroPoll, cache, delivered, drained>>
  BY DEF DeadlinePasses, fifo, counts, poller, life, ghosts
<1>2. TypeOK'
  BY <1>1 DEF Inv, TypeOK
<1>3. CountersAccount' /\ RefsAccount'
  BY <1>1, SameOps, SameCallers
  DEF Inv, CountersAccount, RefsAccount, nTook, nPush, nIn, nShut, PollerHolds
<1>4. FinishOnce' /\ ShutdownIsLast' /\ Closing' /\ Listed' /\ Kept' /\ Attended'
  BY <1>1, SameOps, SameCallers
  DEF Inv, FinishOnce, ShutdownIsLast, Closing, Listed, Kept, Attended
<1> QED BY <1>2, <1>3, <1>4 DEF Inv

LEMMA CacheInitInv ==
    ASSUME Inv, NEW c \in Callers, CacheInit(c)
    PROVE  Inv'
<1>1. /\ cache' = [cache EXCEPT ![c] = "armed"]
      /\ UNCHANGED <<queue, pushing, queueLock, numItems, pending, shutdownCalled, workers,
                     kicked, kickedWithoutPoller, pollerShutdown, shutdownDone, refs,
                     destroyed, op, pc, event, firstLoop, zeroPoll, deadline, delivered, drained>>
  BY DEF CacheInit, fifo, counts, poller, life, locals, ghosts
<1>2. TypeOK'
  BY <1>1 DEF Inv, TypeOK
<1>3. CountersAccount' /\ RefsAccount'
  BY <1>1, SameOps, SameCallers
  DEF Inv, CountersAccount, RefsAccount, nTook, nPush, nIn, nShut, PollerHolds
<1>4. FinishOnce' /\ ShutdownIsLast' /\ Closing' /\ Listed' /\ Kept' /\ Attended'
  BY <1>1, SameOps, SameCallers
  DEF Inv, FinishOnce, ShutdownIsLast, Closing, Listed, Kept, Attended
<1> QED BY <1>2, <1>3, <1>4 DEF Inv

LEMMA CallNextInv ==
    ASSUME Inv, NEW c \in Callers, NEW d \in Deadlines, CallNext(c, d)
    PROVE  Inv'
<1>1. /\ pc[c] = "out" /\ pc' = [pc EXCEPT ![c] = "pop"]
      /\ deadline' = [deadline EXCEPT ![c] = d] /\ refs' = refs + 1
      /\ UNCHANGED <<queue, pushing, queueLock, numItems, pending, shutdownCalled, workers,
                     kicked, kickedWithoutPoller, pollerShutdown, shutdownDone,
                     destroyed, op, event, firstLoop, zeroPoll, cache, delivered, drained>>
      /\ pc'[c] = "pop" /\ \A e \in Callers : e # c => pc'[e] = pc[e]
  BY DEF CallNext, Goto, fifo, counts, poller, ghosts, Inv, TypeOK
<1>2. TypeOK'
  BY <1>1 DEF Inv, TypeOK
<1>3. nTook' = nTook /\ nIn' = nIn + 1
  <2>1. /\ nTook' = nTook + One("pop" = "took") - One(pc[c] = "took")
        /\ nIn' = nIn + One("pop" # "out") - One(pc[c] # "out")
    BY <1>1, CallerMoves DEF Inv, PcPlaces
  <2> QED BY <1>1, <2>1, Numbers DEF One
<1>4. CountersAccount'
  BY <1>1, <1>3, SameOps DEF Inv, CountersAccount, nTook, nPush
<1>5. RefsAccount'
  <2>1. refs' = One(~destroyed) + One(PollerHolds) + nIn' + nShut'
    BY <1>1, <1>3, SameOps, Balance, Numbers DEF One
  <2> QED BY <1>1, <2>1 DEF RefsAccount, nIn, nShut, One, PollerHolds
<1>6. FinishOnce' /\ ShutdownIsLast' /\ Closing' /\ Kept'
  BY <1>1, SameOps DEF Inv, FinishOnce, ShutdownIsLast, Closing, Kept
<1>7. Listed'
  <2>1. CallersAt({"wait"})' = CallersAt({"wait"})
    BY <1>1 DEF CallersAt
  <2> QED BY <1>1, <2>1 DEF Inv, Listed
<1>8. Attended'
  <2>1. c \in Looking'
    BY <1>1 DEF Looking, CallersAt
  <2> QED BY <2>1 DEF Attended
<1> QED BY <1>2, <1>4, <1>5, <1>6, <1>7, <1>8 DEF Inv

LEMMA ReturnNextInv ==
    ASSUME Inv, NEW c \in Callers, ReturnNext(c)
    PROVE  Inv'
<1>1. /\ pc[c] = "leave" /\ pc' = [pc EXCEPT ![c] = "out"] /\ refs' = refs - 1
      /\ firstLoop' = [firstLoop EXCEPT ![c] = TRUE]
      /\ zeroPoll' = [zeroPoll EXCEPT ![c] = FALSE]
      /\ deadline' = [deadline EXCEPT ![c] = "inf"]
      /\ UNCHANGED <<queue, pushing, queueLock, numItems, pending, shutdownCalled, workers,
                     kicked, kickedWithoutPoller, pollerShutdown, shutdownDone,
                     destroyed, op, event, cache, delivered, drained>>
      /\ pc'[c] = "out" /\ \A e \in Callers : e # c => pc'[e] = pc[e]
  BY DEF ReturnNext, Goto, fifo, counts, poller, ghosts, Inv, TypeOK
<1>2. nTook' = nTook /\ nIn' = nIn - 1 /\ nIn' \in Nat
  <2>1. /\ nTook' = nTook + One("out" = "took") - One(pc[c] = "took")
        /\ nIn' = nIn + One("out" # "out") - One(pc[c] # "out")
    BY <1>1, CallerMoves DEF Inv, PcPlaces
  <2> QED BY <1>1, <2>1, Numbers DEF One
<1>3. refs' = One(~destroyed) + One(PollerHolds) + nIn' + nShut'
  BY <1>1, <1>2, SameOps, Balance, Numbers DEF One
<1>4. TypeOK'
  <2>1. refs' \in Nat
    <3>1. One(~destroyed) \in {0, 1} /\ One(PollerHolds) \in {0, 1}
      BY DEF One
    <3> QED BY <1>3, <3>1, Numbers
  <2> QED BY <1>1, <2>1 DEF Inv, TypeOK
<1>5. CountersAccount' /\ RefsAccount'
  <2>1. CountersAccount'
    BY <1>1, <1>2, SameOps DEF Inv, CountersAccount, nTook, nPush
  <2>2. RefsAccount'
    BY <1>1, <1>3 DEF RefsAccount, nIn, nShut, One, PollerHolds
  <2> QED BY <2>1, <2>2
<1>6. FinishOnce' /\ ShutdownIsLast' /\ Closing' /\ Kept'
  BY <1>1, SameOps DEF Inv, FinishOnce, ShutdownIsLast, Closing, Kept
<1>7. Listed'
  <2>1. CallersAt({"wait"})' = CallersAt({"wait"})
    BY <1>1 DEF CallersAt
  <2> QED BY <1>1, <2>1 DEF Inv, Listed
<1>8. Attended'
  <2>1. /\ Looking' = Looking
        /\ CallersAt({"pending", "time", "wait"})' = CallersAt({"pending", "time", "wait"})
        /\ \A d \in CallersAt({"pending", "time", "wait"}) : zeroPoll'[d] = zeroPoll[d]
    BY <1>1 DEF Looking, CallersAt, Inv, TypeOK
  <2> QED BY <1>1, <2>1, SameOps DEF Inv, Attended
<1> QED BY <1>4, <1>5, <1>6, <1>7, <1>8 DEF Inv

LEMMA PopTakesInv ==
    ASSUME Inv, NEW c \in Callers, PopTakes(c)
    PROVE  Inv'
<1>1. /\ pc[c] = "locked" /\ pc' = [pc EXCEPT ![c] = "took"] /\ queueLock' = Null
      /\ queue # <<>> /\ queue' = Tail(queue) /\ event' = [event EXCEPT ![c] = Head(queue)]
      /\ UNCHANGED <<pushing, numItems, pending, shutdownCalled, workers,
                     kicked, kickedWithoutPoller, pollerShutdown, shutdownDone, refs,
                     destroyed, op, firstLoop, zeroPoll, deadline, cache, delivered, drained>>
      /\ pc'[c] = "took" /\ \A e \in Callers : e # c => pc'[e] = pc[e]
  BY DEF PopTakes, Goto, Events!Take, Events!Available, counts, poller, life, ghosts,
         Inv, TypeOK
<1>2. /\ Head(queue) \in Ops /\ queue' \in Seq(Ops) /\ Len(queue') = Len(queue) - 1
      /\ Range(queue) = {Head(queue)} \cup Range(queue')
  BY <1>1, TailFacts DEF Inv, TypeOK
<1>3. TypeOK'
  BY <1>1, <1>2 DEF Inv, TypeOK
<1>4. nTook' = nTook + 1 /\ nIn' = nIn
  <2>1. /\ nTook' = nTook + One("took" = "took") - One(pc[c] = "took")
        /\ nIn' = nIn + One("took" # "out") - One(pc[c] # "out")
    BY <1>1, CallerMoves DEF Inv, PcPlaces
  <2> QED BY <1>1, <2>1, Numbers DEF One
<1>5. CountersAccount' /\ RefsAccount'
  <2>1. numItems' = Len(queue') + nTook' - nPush'
    BY <1>1, <1>2, <1>4, SameOps, Balance, Numbers
  <2>2. CountersAccount'
    BY <1>1, <2>1, SameOps DEF Inv, CountersAccount, nTook, nPush
  <2>3. RefsAccount'
    BY <1>1, <1>4, SameOps DEF Inv, RefsAccount, nIn, nShut, PollerHolds
  <2> QED BY <2>2, <2>3
<1>6. FinishOnce' /\ Closing'
  BY <1>1, SameOps DEF Inv, FinishOnce, Closing
<1>7. ShutdownIsLast'
  BY <1>1 DEF Inv, ShutdownIsLast
<1>8. Kept'
  <2>1. \A d \in Callers : pc'[d] = "took" => event'[d] \in Ops
    BY <1>1, <1>2 DEF Inv, Kept, TypeOK
  <2>2. ASSUME NEW o \in Ops, op[o] \notin {"idle", "refused", "begun", "cached"},
               o \notin Range(queue') \cup delivered
        PROVE  \E d \in Callers : pc'[d] = "took" /\ event'[d] = o
    <3>1. CASE o = Head(queue)
      BY <1>1, <3>1 DEF Inv, TypeOK
    <3>2. CASE o # Head(queue)
      <4>1. PICK d \in Callers : pc[d] = "took" /\ event[d] = o
        BY <1>2, <2>2, <3>2 DEF Inv, Kept
      <4>2. d # c
        BY <1>1, <4>1
      <4> QED BY <1>1, <4>1, <4>2 DEF Inv, TypeOK
    <3> QED BY <3>1, <3>2
  <2> QED BY <1>1, <2>1, <2>2 DEF Kept
<1>9. Listed'
  <2>1. CallersAt({"wait"})' = CallersAt({"wait"})
    BY <1>1 DEF CallersAt
  <2> QED BY <1>1, <2>1 DEF Inv, Listed
<1>10. Attended'
  <2>1. c \in Looking'
    BY <1>1 DEF Looking, CallersAt
  <2> QED BY <2>1 DEF Attended
<1> QED BY <1>3, <1>5, <1>6, <1>7, <1>8, <1>9, <1>10 DEF Inv

LEMMA PopCountInv ==
    ASSUME Inv, NEW c \in Callers, PopCount(c)
    PROVE  Inv'
<1>1. /\ pc[c] = "took" /\ pc' = [pc EXCEPT ![c] = "ret"] /\ numItems' = numItems - 1
      /\ delivered' = delivered \cup {event[c]} /\ event' = [event EXCEPT ![c] = Null]
      /\ UNCHANGED <<queue, pushing, queueLock, pending, shutdownCalled, workers,
                     kicked, kickedWithoutPoller, pollerShutdown, shutdownDone, refs,
                     destroyed, op, firstLoop, zeroPoll, deadline, cache, drained>>
      /\ pc'[c] = "ret" /\ \A e \in Callers : e # c => pc'[e] = pc[e]
  BY DEF PopCount, Goto, fifo, poller, life, Inv, TypeOK
<1>2. TypeOK'
  <2>1. event[c] \in Ops
    BY <1>1 DEF Inv, Kept
  <2> QED BY <1>1, <2>1 DEF Inv, TypeOK
<1>3. nTook' = nTook - 1 /\ nIn' = nIn
  <2>1. /\ nTook' = nTook + One("ret" = "took") - One(pc[c] = "took")
        /\ nIn' = nIn + One("ret" # "out") - One(pc[c] # "out")
    BY <1>1, CallerMoves DEF Inv, PcPlaces
  <2> QED BY <1>1, <2>1, Numbers DEF One
<1>4. CountersAccount' /\ RefsAccount'
  <2>1. numItems' = Len(queue') + nTook' - nPush'
    BY <1>1, <1>3, SameOps, Balance, Numbers
  <2>2. CountersAccount'
    BY <1>1, <2>1, SameOps DEF Inv, CountersAccount, nTook, nPush
  <2>3. RefsAccount'
    BY <1>1, <1>3, SameOps DEF Inv, RefsAccount, nIn, nShut, PollerHolds
  <2> QED BY <2>2, <2>3
<1>5. FinishOnce' /\ Closing' /\ ShutdownIsLast'
  BY <1>1, SameOps DEF Inv, FinishOnce, Closing, ShutdownIsLast
<1>6. Kept'
  <2>1. \A d \in Callers : pc'[d] = "took" => event'[d] \in Ops
    BY <1>1 DEF Inv, Kept, TypeOK
  <2>2. ASSUME NEW o \in Ops, op[o] \notin {"idle", "refused", "begun", "cached"},
               o \notin Range(queue) \cup delivered'
        PROVE  \E d \in Callers : pc'[d] = "took" /\ event'[d] = o
    <3>1. PICK d \in Callers : pc[d] = "took" /\ event[d] = o
      BY <1>1, <2>2 DEF Inv, Kept
    <3>2. d # c
      BY <1>1, <2>2, <3>1
    <3> QED BY <1>1, <3>1, <3>2 DEF Inv, TypeOK
  <2> QED BY <1>1, <2>1, <2>2 DEF Kept
<1>7. Listed'
  <2>1. CallersAt({"wait"})' = CallersAt({"wait"})
    BY <1>1 DEF CallersAt
  <2> QED BY <1>1, <2>1 DEF Inv, Listed
<1>8. Attended'
  <2>1. c \in Looking'
    BY <1>1 DEF Looking, CallersAt
  <2> QED BY <2>1 DEF Attended
<1> QED BY <1>2, <1>4, <1>5, <1>6, <1>7, <1>8 DEF Inv

-----------------------------------------------------------------------------
(* The poller                                                              *)

\* After a kick there is a worker that is kicked, or the next one will not
\* wait.
LEMMA KickFacts ==
    ASSUME Inv, Kick
    PROVE  /\ kicked' \subseteq ToSet(workers) /\ kickedWithoutPoller' \in BOOLEAN
           /\ kickedWithoutPoller' \/ kicked' # {}
           /\ kickedWithoutPoller' => workers = <<>>
           /\ UNCHANGED <<workers, pollerShutdown>>
<1>1. CASE workers = <<>>
  BY <1>1 DEF Kick, Inv, TypeOK
<1>2. CASE workers # <<>>
  <2>1. /\ kicked' = kicked \cup {Head(workers)} /\ kickedWithoutPoller' = kickedWithoutPoller
        /\ UNCHANGED <<workers, pollerShutdown>>
    BY <1>2 DEF Kick
  <2>2. Head(workers) \in ToSet(workers)
    BY <1>2 DEF ToSet, Inv, TypeOK
  <2> QED BY <1>2, <2>1, <2>2 DEF Inv, TypeOK, Listed
<1> QED BY <1>1, <1>2

LEMMA TrailingKickInv ==
    ASSUME Inv, NEW c \in Callers, TrailingKick(c)
    PROVE  Inv'
<1>1. /\ pc[c] = "kick" /\ pc' = [pc EXCEPT ![c] = "leave"] /\ Kick
      /\ UNCHANGED <<queue, pushing, queueLock, numItems, pending, shutdownCalled,
                     shutdownDone, refs, destroyed, op, event, firstLoop, zeroPoll,
                     deadline, cache, delivered, drained>>
      /\ pc'[c] = "leave" /\ \A e \in Callers : e # c => pc'[e] = pc[e]
  BY DEF TrailingKick, Goto, fifo, counts, life, locals, ghosts, Inv, TypeOK
<1>2. /\ kicked' \subseteq ToSet(workers) /\ kickedWithoutPoller' \in BOOLEAN
      /\ kickedWithoutPoller' \/ kicked' # {}
      /\ kickedWithoutPoller' => workers = <<>>
      /\ UNCHANGED <<workers, pollerShutdown>>
  BY <1>1, KickFacts
<1>3. TypeOK'
  BY <1>1, <1>2 DEF Inv, TypeOK
<1>4. nTook' = nTook /\ nIn' = nIn
  <2>1. /\ nTook' = nTook + One("leave" = "took") - One(pc[c] = "took")
        /\ nIn' = nIn + One("leave" # "out") - One(pc[c] # "out")
    BY <1>1, CallerMoves DEF Inv, PcPlaces
  <2> QED BY <1>1, <2>1, Numbers DEF One
<1>5. CountersAccount' /\ RefsAccount'
  BY <1>1, <1>2, <1>4, SameOps
  DEF Inv, CountersAccount, RefsAccount, nTook, nPush, nIn, nShut, PollerHolds
<1>6. FinishOnce' /\ ShutdownIsLast' /\ Closing' /\ Kept'
  BY <1>1, <1>2, SameOps DEF Inv, FinishOnce, ShutdownIsLast, Closing, Kept
<1>7. Listed'
  <2>1. CallersAt({"wait"})' = CallersAt({"wait"})
    BY <1>1 DEF CallersAt
  <2> QED BY <1>1, <1>2, <2>1 DEF Inv, Listed
<1>8. Attended'
  BY <1>2 DEF Attended
<1> QED BY <1>3, <1>5, <1>6, <1>7, <1>8 DEF Inv

LEMMA NextPollInv ==
    ASSUME Inv, NEW c \in Callers, NextPoll(c)
    PROVE  Inv'
<1>1. /\ pc[c] = "time" /\ firstLoop' = [firstLoop EXCEPT ![c] = FALSE]
      /\ \/ WorkReturnsAtOnce /\ pc' = [pc EXCEPT ![c] = "pop"]
         \/ WorkWaits(c) /\ pc' = [pc EXCEPT ![c] = "wait"]
      /\ UNCHANGED <<queue, pushing, queueLock, numItems, pending, shutdownCalled,
                     shutdownDone, refs, destroyed, op, event, zeroPoll, deadline,
                     cache, delivered, drained>>
  BY DEF NextPoll, Goto, fifo, counts, life, ghosts
<1>2. ASSUME NEW to \in {"pop", "wait"}, pc' = [pc EXCEPT ![c] = to]
      PROVE  /\ nTook' = nTook /\ nIn' = nIn
             /\ pc'[c] = to /\ \A e \in Callers : e # c => pc'[e] = pc[e]
  <2>1. /\ nTook' = nTook + One(to = "took") - One(pc[c] = "took")
        /\ nIn' = nIn + One(to # "out") - One(pc[c] # "out")
    BY <1>2, CallerMoves DEF Inv, PcPlaces
  <2> QED BY <1>1, <1>2, <2>1, Numbers DEF One, Inv, TypeOK
<1>3. CASE WorkReturnsAtOnce /\ pc' = [pc EXCEPT ![c] = "pop"]
  <2>1. /\ kickedWithoutPoller' = (kickedWithoutPoller /\ pollerShutdown)
        /\ UNCHANGED <<workers, kicked, pollerShutdown>>
        /\ pc'[c] = "pop" /\ \A e \in Callers : e # c => pc'[e] = pc[e]
    BY <1>2, <1>3 DEF WorkReturnsAtOnce
  <2>2. TypeOK'
    <3>1. kickedWithoutPoller' \in BOOLEAN
      BY <2>1
    <3>2. pc' \in [Callers -> PcPlaces]
      BY <1>3 DEF Inv, TypeOK, PcPlaces
    <3> QED BY <1>1, <2>1, <3>1, <3>2 DEF Inv, TypeOK, PcPlaces
  <2>3. CountersAccount' /\ RefsAccount'
    BY <1>1, <1>2, <1>3, <2>1, SameOps
    DEF Inv, CountersAccount, RefsAccount, nTook, nPush, nIn, nShut, PollerHolds
  <2>4. FinishOnce' /\ ShutdownIsLast' /\ Closing' /\ Kept'
    BY <1>1, <2>1, SameOps DEF Inv, FinishOnce, ShutdownIsLast, Closing, Kept
  <2>5. Listed'
    <3>1. CallersAt({"wait"})' = CallersAt({"wait"})
      BY <1>1, <2>1 DEF CallersAt
    <3> QED BY <1>1, <2>1, <3>1 DEF Inv, Listed
  <2>6. Attended'
    <3>1. c \in Looking'
      BY <2>1 DEF Looking, CallersAt
    <3> QED BY <3>1 DEF Attended
  <2> QED BY <2>2, <2>3, <2>4, <2>5, <2>6 DEF Inv
<1>4. CASE WorkWaits(c) /\ pc' = [pc EXCEPT ![c] = "wait"]
  <2>1. /\ ~pollerShutdown /\ ~kickedWithoutPoller
        /\ workers' = Append(workers, c) /\ kicked' = kicked \ {c}
        /\ UNCHANGED <<kickedWithoutPoller, pollerShutdown>>
        /\ pc'[c] = "wait" /\ \A e \in Callers : e # c => pc'[e] = pc[e]
    BY <1>2, <1>4 DEF WorkWaits
  <2>2. c \notin ToSet(workers) /\ shutdownDone = 0
    BY <1>1, <2>1 DEF Inv, TypeOK, Listed, CallersAt
  <2>3. /\ workers' \in Seq(Callers) /\ IsInjective(workers') /\ workers' # <<>>
        /\ ToSet(workers') = ToSet(workers) \cup {c}
    BY <2>1, <2>2, AppendFacts DEF Inv, TypeOK
  <2>4. kicked' = kicked /\ kicked' \subseteq ToSet(workers')
    BY <2>1, <2>2, <2>3 DEF Inv, TypeOK
  <2>5. TypeOK'
    <3>1. pc' \in [Callers -> PcPlaces]
      BY <1>4 DEF Inv, TypeOK, PcPlaces
    <3> QED BY <1>1, <2>1, <2>3, <2>4, <3>1 DEF Inv, TypeOK, PcPlaces
  <2>6. CountersAccount' /\ RefsAccount'
    BY <1>1, <1>2, <1>4, <2>1, SameOps
    DEF Inv, CountersAccount, RefsAccount, nTook, nPush, nIn, nShut, PollerHolds
  <2>7. FinishOnce' /\ ShutdownIsLast' /\ Closing' /\ Kept'
    BY <1>1, <2>1, SameOps DEF Inv, FinishOnce, ShutdownIsLast, Closing, Kept
  <2>8. Listed'
    <3>1. CallersAt({"wait"})' = CallersAt({"wait"}) \cup {c}
      BY <2>1 DEF CallersAt
    <3> QED BY <1>1, <2>1, <2>2, <2>3, <3>1 DEF Inv, Listed
  <2>9. Attended'
    <3>1. /\ Looking' = Looking
          /\ CallersAt({"pending", "time", "wait"})' = CallersAt({"pending", "time", "wait"})
      BY <1>1, <2>1 DEF Looking, CallersAt
    <3> QED BY <1>1, <2>1, <2>4, <3>1, SameOps DEF Inv, Attended
  <2> QED BY <2>5, <2>6, <2>7, <2>8, <2>9 DEF Inv
<1> QED BY <1>1, <1>3, <1>4

LEMMA NextWakesInv ==
    ASSUME Inv, NEW c \in Callers, NextWakes(c)
    PROVE  Inv'
<1>1. /\ pc[c] = "wait" /\ pc' = [pc EXCEPT ![c] = "pop"] /\ kicked' = kicked \ {c}
      /\ shutdownDone' = shutdownDone + (IF pollerShutdown /\ workers = <<c>> THEN 1 ELSE 0)
      /\ UNCHANGED <<queue, pushing, queueLock, numItems, pending, shutdownCalled,
                     kickedWithoutPoller, pollerShutdown, refs, destroyed, op, event,
                     firstLoop, zeroPoll, deadline, cache, delivered, drained>>
      /\ pc'[c] = "pop" /\ \A e \in Callers : e # c => pc'[e] = pc[e]
  BY DEF NextWakes, WorkEnds, Goto, fifo, counts, locals, ghosts, Inv, TypeOK
<1>2. PICK i \in DOMAIN workers : workers[i] = c /\ workers' = RemoveAt(workers, i)
  BY DEF NextWakes, WorkEnds
<1>3. /\ workers' \in Seq(Callers) /\ IsInjective(workers')
      /\ ToSet(workers') = ToSet(workers) \ {c}
      /\ workers' = <<>> <=> workers = <<c>>
  BY <1>2, RemoveFacts DEF Inv, TypeOK
<1>4. workers # <<>> /\ shutdownDone = 0
  BY <1>2 DEF Inv, TypeOK, Listed
<1>5. TypeOK'
  <2>1. kicked' \subseteq ToSet(workers') /\ shutdownDone' \in 0 .. 1
    BY <1>1, <1>3, <1>4 DEF Inv, TypeOK
  <2>2. pc' \in [Callers -> PcPlaces]
    BY <1>1 DEF Inv, TypeOK, PcPlaces
  <2> QED BY <1>1, <1>3, <2>1, <2>2 DEF Inv, TypeOK, PcPlaces
<1>6. nTook' = nTook /\ nIn' = nIn
  <2>1. /\ nTook' = nTook + One("pop" = "took") - One(pc[c] = "took")
        /\ nIn' = nIn + One("pop" # "out") - One(pc[c] # "out")
    BY <1>1, CallerMoves DEF Inv, PcPlaces
  <2> QED BY <1>1, <2>1, Numbers DEF One
<1>7. CountersAccount'
  BY <1>1, <1>6, SameOps DEF Inv, CountersAccount, nTook, nPush
<1>8. RefsAccount'
  <2>1. PollerHolds /\ PollerHolds'
    BY <1>1, <1>3, <1>4 DEF PollerHolds
  <2> QED BY <1>1, <1>6, <2>1, SameOps DEF Inv, RefsAccount, nIn, nShut
<1>9. FinishOnce' /\ ShutdownIsLast' /\ Closing' /\ Kept'
  BY <1>1, SameOps DEF Inv, FinishOnce, ShutdownIsLast, Closing, Kept
<1>10. Listed'
  <2>1. CallersAt({"wait"})' = CallersAt({"wait"}) \ {c}
    BY <1>1 DEF CallersAt
  <2> QED BY <1>1, <1>3, <1>4, <2>1 DEF Inv, Listed
<1>11. Attended'
  <2>1. c \in Looking'
    BY <1>1 DEF Looking, CallersAt
  <2> QED BY <2>1 DEF Attended
<1> QED BY <1>5, <1>7, <1>8, <1>9, <1>10, <1>11 DEF Inv

-----------------------------------------------------------------------------
(* begin_op and end_op                                                     *)

LEMMA OpFrame ==
    ASSUME Inv, NEW o \in Ops, NEW to \in OpPlaces, op' = [op EXCEPT ![o] = to]
    PROVE  /\ op' \in [Ops -> OpPlaces]
           /\ op'[o] = to /\ \A p \in Ops : p # o => op'[p] = op[p]
           /\ Outstanding' = IF to \in OutPlaces THEN Outstanding \cup {o} ELSE Outstanding \ {o}
           /\ Finishing' = IF to \in FinPlaces THEN Finishing \cup {o} ELSE Finishing \ {o}
<1>1. op'[o] = to /\ \A p \in Ops : p # o => op'[p] = op[p]
  BY DEF Inv, TypeOK
<1>2. op' \in [Ops -> OpPlaces]
  BY DEF Inv, TypeOK, OpPlaces
<1>3. Outstanding' = IF to \in OutPlaces THEN Outstanding \cup {o} ELSE Outstanding \ {o}
  BY <1>1 DEF Outstanding, OutPlaces
<1>4. Finishing' = IF to \in FinPlaces THEN Finishing \cup {o} ELSE Finishing \ {o}
  BY <1>1 DEF Finishing, FinPlaces
<1> QED BY <1>1, <1>2, <1>3, <1>4

\* While an operation is outstanding and does not end the last one, the
\* shutdown is not under way.
LEMMA StillOpen ==
    ASSUME Inv, NEW o \in Ops, op[o] \in OutPlaces \ {"zero"}
    PROVE  /\ o \in Outstanding /\ o \notin Finishing /\ Finishing = {}
           /\ pending # 0 /\ ~pollerShutdown /\ ~drained /\ ~destroyed
           /\ \A c \in Callers : pc[c] # "shut"
<1>1. o \in Outstanding /\ o \notin Finishing
  BY DEF OutPlaces, Outstanding, Finishing
<1>2. Finishing = {}
  BY <1>1 DEF Inv, FinishOnce
<1>3. pending # 0
  BY <1>1, Balance
<1> QED BY <1>1, <1>2, <1>3 DEF Inv, Closing

\* An operation that goes on in end_op and has not given up its count.
LEMMA OpGoesOn ==
    ASSUME Inv, NEW o \in Ops, NEW to \in OutPlaces \ {"zero"},
           op[o] \in OutPlaces \ {"zero"}, op' = [op EXCEPT ![o] = to],
           UNCHANGED <<pending, shutdownCalled, workers, pollerShutdown,
                       shutdownDone, refs, destroyed, pc, drained>>
    PROVE  /\ FinishOnce' /\ ShutdownIsLast' /\ Closing' /\ RefsAccount'
           /\ nOut' = nOut /\ op' \in [Ops -> OpPlaces]
           /\ op'[o] = to /\ \A p \in Ops : p # o => op'[p] = op[p]
           /\ pending # 0 /\ ~pollerShutdown
<1>1. to \in OpPlaces /\ to \notin FinPlaces /\ to \notin {"zero", "finish", "finished"}
      /\ op[o] \notin {"zero", "finish", "finished"}
  BY DEF OutPlaces, OpPlaces, FinPlaces
<1>2. Finishing' = {} /\ op' \in [Ops -> OpPlaces]
      /\ op'[o] = to /\ \A p \in Ops : p # o => op'[p] = op[p]
  BY <1>1, OpFrame, StillOpen
<1>3. nOut' = nOut /\ nShut' = nShut
  <2>1. /\ nOut' = nOut + One(to \in OutPlaces) - One(op[o] \in OutPlaces)
        /\ nShut' = nShut + One(to \in {"zero", "finish", "finished"})
                              - One(op[o] \in {"zero", "finish", "finished"})
    BY <1>1, OpMoves DEF Inv
  <2> QED BY <1>1, <2>1, Numbers DEF One
<1>4. RefsAccount'
  BY <1>3, SameCallers DEF Inv, RefsAccount, nIn, nShut, PollerHolds
<1>5. FinishOnce' /\ ShutdownIsLast' /\ Closing'
  BY <1>2, StillOpen DEF FinishOnce, ShutdownIsLast, Closing
<1> QED BY <1>2, <1>3, <1>4, <1>5, StillOpen

LEMMA EndOpCachedInv ==
    ASSUME Inv, NEW o \in Ops, NEW c \in Callers, EndOpCached(o, c)
    PROVE  Inv'
<1>1. /\ op[o] = "begun" /\ op' = [op EXCEPT ![o] = "cached"]
      /\ cache' = [cache EXCEPT ![c] = o]
      /\ UNCHANGED <<queue, pushing, queueLock, numItems, pending, shutdownCalled, workers,
                     kicked, kickedWithoutPoller, pollerShutdown, shutdownDone, refs,
                     destroyed, pc, event, firstLoop, zeroPoll, deadline, delivered, drained>>
  BY DEF EndOpCached, OpGoto, fifo, counts, poller, life, locals, ghosts
<1>2. /\ FinishOnce' /\ ShutdownIsLast' /\ Closing' /\ RefsAccount'
      /\ nOut' = nOut /\ op' \in [Ops -> OpPlaces]
      /\ op'[o] = "cached" /\ \A p \in Ops : p # o => op'[p] = op[p]
  BY <1>1, OpGoesOn DEF OutPlaces
<1>3. TypeOK'
  BY <1>1, <1>2 DEF Inv, TypeOK, OpPlaces
<1>4. CountersAccount'
  <2>1. nPush' = nPush
    <3>1. nPush' = nPush + One("cached" \in {"claimed", "linked"})
                              - One(op[o] \in {"claimed", "linked"})
      BY <1>1, OpMoves DEF Inv, OpPlaces
    <3> QED BY <1>1, <3>1, Numbers DEF One
  <2> QED BY <1>1, <1>2, <2>1, SameCallers DEF Inv, CountersAccount, nOut, nPush, nTook
<1>5. Listed' /\ Kept'
  BY <1>1, <1>2, SameCallers DEF Inv, Listed, Kept
<1>6. Attended'
  <2>1. OpsIn({"first", "kick", "zero"})' = OpsIn({"first", "kick", "zero"})
    BY <1>1, <1>2 DEF OpsIn
  <2> QED BY <1>1, <2>1, SameCallers DEF Inv, Attended
<1> QED BY <1>2, <1>3, <1>4, <1>5, <1>6 DEF Inv

LEMMA PushClaimInv ==
    ASSUME Inv, NEW o \in Ops, PushClaim(o)
    PROVE  Inv'
<1>1. /\ op[o] = "begun" /\ op' = [op EXCEPT ![o] = "claimed"]
      /\ queue' = Append(queue, o) /\ pushing' = pushing \cup {o}
      /\ UNCHANGED <<queueLock, numItems, pending, shutdownCalled, workers,
                     kicked, kickedWithoutPoller, pollerShutdown, shutdownDone, refs,
                     destroyed, pc, event, firstLoop, zeroPoll, deadline, cache,
                     delivered, drained>>
  BY DEF PushClaim, OpGoto, Events!Claim, counts, poller, life, locals, ghosts
<1>2. /\ FinishOnce' /\ ShutdownIsLast' /\ Closing' /\ RefsAccount'
      /\ nOut' = nOut /\ op' \in [Ops -> OpPlaces]
      /\ op'[o] = "claimed" /\ \A p \in Ops : p # o => op'[p] = op[p]
  BY <1>1, OpGoesOn DEF OutPlaces
<1>3. /\ queue' \in Seq(Ops) /\ Len(queue') = Len(queue) + 1
      /\ Range(queue') = Range(queue) \cup {o}
  BY <1>1, AppendFacts DEF Inv, TypeOK
<1>4. TypeOK'
  BY <1>1, <1>2, <1>3 DEF Inv, TypeOK, OpPlaces
<1>5. CountersAccount'
  <2>1. nPush' = nPush + 1
    <3>1. nPush' = nPush + One("claimed" \in {"claimed", "linked"})
                              - One(op[o] \in {"claimed", "linked"})
      BY <1>1, OpMoves DEF Inv, OpPlaces
    <3> QED BY <1>1, <3>1, Numbers DEF One
  <2>2. numItems' = Len(queue') + nTook' - nPush'
    BY <1>1, <1>3, <2>1, SameCallers, Balance, Numbers
  <2> QED BY <1>1, <1>2, <2>2 DEF Inv, CountersAccount, nOut, nPush, nTook
<1>6. Listed' /\ Kept'
  <2>1. Listed'
    BY <1>1, SameCallers DEF Inv, Listed
  <2>2. Kept'
    BY <1>1, <1>2, <1>3 DEF Inv, Kept
  <2> QED BY <2>1, <2>2
<1>7. Attended'
  <2>1. OpsIn({"first", "kick", "zero"})' = OpsIn({"first", "kick", "zero"})
    BY <1>1, <1>2 DEF OpsIn
  <2> QED BY <1>1, <2>1, SameCallers DEF Inv, Attended
<1> QED BY <1>2, <1>4, <1>5, <1>6, <1>7 DEF Inv

LEMMA PushLinkInv ==
    ASSUME Inv, NEW o \in Ops, PushLink(o)
    PROVE  Inv'
<1>1. /\ op[o] = "claimed" /\ op' = [op EXCEPT ![o] = "linked"]
      /\ pushing' = pushing \ {o}
      /\ UNCHANGED <<queue, queueLock, numItems, pending, shutdownCalled, workers,
                     kicked, kickedWithoutPoller, pollerShutdown, shutdownDone, refs,
                     destroyed, pc, event, firstLoop, zeroPoll, deadline, cache,
                     delivered, drained>>
  BY DEF PushLink, OpGoto, Events!Publish, counts, poller, life, locals, ghosts
<1>2. /\ FinishOnce' /\ ShutdownIsLast' /\ Closing' /\ RefsAccount'
      /\ nOut' = nOut /\ op' \in [Ops -> OpPlaces]
      /\ op'[o] = "linked" /\ \A p \in Ops : p # o => op'[p] = op[p]
  BY <1>1, OpGoesOn DEF OutPlaces
<1>3. TypeOK'
  BY <1>1, <1>2 DEF Inv, TypeOK, OpPlaces
<1>4. CountersAccount'
  <2>1. nPush' = nPush
    <3>1. nPush' = nPush + One("linked" \in {"claimed", "linked"})
                              - One(op[o] \in {"claimed", "linked"})
      BY <1>1, OpMoves DEF Inv, OpPlaces
    <3> QED BY <1>1, <3>1, Numbers DEF One
  <2> QED BY <1>1, <1>2, <2>1, SameCallers DEF Inv, CountersAccount, nOut, nPush, nTook
<1>5. Listed' /\ Kept'
  BY <1>1, <1>2, SameCallers DEF Inv, Listed, Kept
<1>6. Attended'
  <2>1. OpsIn({"first", "kick", "zero"})' = OpsIn({"first", "kick", "zero"})
    BY <1>1, <1>2 DEF OpsIn
  <2> QED BY <1>1, <2>1, SameCallers DEF Inv, Attended
<1> QED BY <1>2, <1>3, <1>4, <1>5, <1>6 DEF Inv

LEMMA PushCountInv ==
    ASSUME Inv, NEW o \in Ops, PushCount(o)
    PROVE  Inv'
<1> DEFINE to == IF numItems = 0 THEN "first" ELSE "queued"
<1>1. /\ op[o] = "linked" /\ op' = [op EXCEPT ![o] = to] /\ numItems' = numItems + 1
      /\ UNCHANGED <<queue, pushing, queueLock, pending, shutdownCalled, workers,
                     kicked, kickedWithoutPoller, pollerShutdown, shutdownDone, refs,
                     destroyed, pc, event, firstLoop, zeroPoll, deadline, cache,
                     delivered, drained>>
  BY DEF PushCount, OpGoto, fifo, poller, life, locals, ghosts
<1>2. to \in {"first", "queued"} /\ to \in OpPlaces /\ (numItems = 0 => to = "first")
  BY DEF OpPlaces
<1> HIDE DEF to
<1>3. /\ FinishOnce' /\ ShutdownIsLast' /\ Closing' /\ RefsAccount'
      /\ nOut' = nOut /\ op' \in [Ops -> OpPlaces]
      /\ op'[o] = to /\ \A p \in Ops : p # o => op'[p] = op[p]
  BY <1>1, <1>2, OpGoesOn DEF OutPlaces
<1>4. TypeOK'
  BY <1>1, <1>3 DEF Inv, TypeOK, OpPlaces
<1>5. CountersAccount'
  <2>1. nPush' = nPush - 1
    <3>1. nPush' = nPush + One(to \in {"claimed", "linked"})
                              - One(op[o] \in {"claimed", "linked"})
      BY <1>1, <1>2, OpMoves DEF Inv
    <3> QED BY <1>1, <1>2, <3>1, Numbers DEF One
  <2>2. numItems' = Len(queue') + nTook' - nPush'
    BY <1>1, <2>1, SameCallers, Balance, Numbers
  <2> QED BY <1>1, <1>3, <2>2 DEF Inv, CountersAccount, nOut, nPush, nTook
<1>6. Listed' /\ Kept'
  BY <1>1, <1>2, <1>3, SameCallers DEF Inv, Listed, Kept
<1>7. Attended'
  <2> SUFFICES ASSUME numItems' > 0, pending' > 0 PROVE Attended'
    BY DEF Attended
  <2>1. CASE numItems = 0
    <3>1. o \in OpsIn({"first", "kick", "zero"})'
      BY <1>2, <1>3, <2>1 DEF OpsIn
    <3> QED BY <3>1 DEF Attended
  <2>2. CASE numItems # 0
    <3>1. numItems > 0
      BY <1>1, <2>2 DEF Inv, TypeOK
    <3>2. OpsIn({"first", "kick", "zero"}) \subseteq OpsIn({"first", "kick", "zero"})'
      BY <1>1, <1>3 DEF OpsIn
    <3> QED BY <1>1, <3>1, <3>2, SameCallers DEF Inv, Attended
  <2> QED BY <2>1, <2>2
<1> QED BY <1>3, <1>4, <1>5, <1>6, <1>7 DEF Inv

LEMMA EndOpKickInv ==
    ASSUME Inv, NEW o \in Ops, EndOpKick(o)
    PROVE  Inv'
<1>1. /\ op[o] = "kick" /\ op' = [op EXCEPT ![o] = "drop"] /\ Kick
      /\ UNCHANGED <<queue, pushing, queueLock, numItems, pending, shutdownCalled,
                     shutdownDone, refs, destroyed, pc, event, firstLoop, zeroPoll,
                     deadline, cache, delivered, drained>>
  BY DEF EndOpKick, OpGoto, fifo, counts, life, locals, ghosts
<1>2. /\ kicked' \subseteq ToSet(workers) /\ kickedWithoutPoller' \in BOOLEAN
      /\ kickedWithoutPoller' \/ kicked' # {}
      /\ kickedWithoutPoller' => workers = <<>>
      /\ UNCHANGED <<workers, pollerShutdown>>
  BY <1>1, KickFacts
<1>3. /\ FinishOnce' /\ ShutdownIsLast' /\ Closing' /\ RefsAccount'
      /\ nOut' = nOut /\ op' \in [Ops -> OpPlaces]
      /\ op'[o] = "drop" /\ \A p \in Ops : p # o => op'[p] = op[p]
  BY <1>1, <1>2, OpGoesOn DEF OutPlaces
<1>4. TypeOK'
  BY <1>1, <1>2, <1>3 DEF Inv, TypeOK, OpPlaces
<1>5. CountersAccount'
  <2>1. nPush' = nPush
    <3>1. nPush' = nPush + One("drop" \in {"claimed", "linked"})
                              - One(op[o] \in {"claimed", "linked"})
      BY <1>1, OpMoves DEF Inv, OpPlaces
    <3> QED BY <1>1, <3>1, Numbers DEF One
  <2> QED BY <1>1, <1>3, <2>1, SameCallers DEF Inv, CountersAccount, nOut, nPush, nTook
<1>6. Listed' /\ Kept'
  BY <1>1, <1>2, <1>3, SameCallers DEF Inv, Listed, Kept
<1>7. Attended'
  BY <1>2 DEF Attended
<1> QED BY <1>3, <1>4, <1>5, <1>6, <1>7 DEF Inv

LEMMA EndOpLoadInv ==
    ASSUME Inv, NEW o \in Ops, EndOpLoad(o)
    PROVE  Inv'
<1>1. CASE pending # 1
  <2>1. PICK to \in {"kick", "drop"} :
          /\ op[o] \in {"first", "queued"} /\ op' = [op EXCEPT ![o] = to]
          /\ op[o] = "first" => to = "kick"
    BY <1>1 DEF EndOpLoad, OpGoto
  <2>2. UNCHANGED <<queue, pushing, queueLock, numItems, pending, shutdownCalled, workers,
                    kicked, kickedWithoutPoller, pollerShutdown, shutdownDone, refs,
                    destroyed, pc, event, firstLoop, zeroPoll, deadline, cache,
                    delivered, drained>>
    BY <1>1 DEF EndOpLoad, fifo, counts, poller, life, locals, ghosts
  <2>3. /\ FinishOnce' /\ ShutdownIsLast' /\ Closing' /\ RefsAccount'
        /\ nOut' = nOut /\ op' \in [Ops -> OpPlaces]
        /\ op'[o] = to /\ \A p \in Ops : p # o => op'[p] = op[p]
    BY <2>1, <2>2, OpGoesOn DEF OutPlaces
  <2>4. TypeOK'
    BY <2>2, <2>3 DEF Inv, TypeOK, OpPlaces
  <2>5. CountersAccount'
    <3>1. nPush' = nPush
      <4>1. to \in OpPlaces
        BY DEF OpPlaces
      <4>2. nPush' = nPush + One(to \in {"claimed", "linked"})
                                - One(op[o] \in {"claimed", "linked"})
        BY <2>1, <4>1, OpMoves DEF Inv
      <4> QED BY <2>1, <4>2, Numbers DEF One
    <3> QED BY <2>2, <2>3, <3>1, SameCallers DEF Inv, CountersAccount, nOut, nPush, nTook
  <2>6. Listed' /\ Kept'
    BY <2>1, <2>2, <2>3, SameCallers DEF Inv, Listed, Kept
  <2>7. Attended'
    <3>1. OpsIn({"first", "kick", "zero"}) \subseteq OpsIn({"first", "kick", "zero"})'
      BY <2>1, <2>3 DEF OpsIn
    <3> QED BY <2>2, <3>1, SameCallers DEF Inv, Attended
  <2> QED BY <2>3, <2>4, <2>5, <2>6, <2>7 DEF Inv
<1>2. CASE pending = 1
  <2>1. /\ op[o] \in {"first", "queued"} /\ op' = [op EXCEPT ![o] = "zero"]
        /\ refs' = refs + 1
        /\ UNCHANGED <<queue, pushing, queueLock, numItems, pending, shutdownCalled, workers,
                       kicked, kickedWithoutPoller, pollerShutdown, shutdownDone,
                       destroyed, pc, event, firstLoop, zeroPoll, deadline, cache,
                       delivered, drained>>
    BY <1>2 DEF EndOpLoad, OpGoto, fifo, counts, poller, locals, ghosts
  <2>2. /\ o \in Outstanding /\ Finishing = {} /\ ~pollerShutdown /\ ~drained /\ ~destroyed
        /\ \A c \in Callers : pc[c] # "shut"
    BY <2>1, StillOpen DEF OutPlaces
  <2>3. shutdownCalled /\ Outstanding = {o}
    BY <1>2, <2>2, Balance, Numbers DEF One
  <2>4. /\ op' \in [Ops -> OpPlaces] /\ Outstanding' = {o} /\ Finishing' = {o}
        /\ op'[o] = "zero" /\ \A p \in Ops : p # o => op'[p] = op[p]
    BY <2>1, <2>2, <2>3, OpFrame DEF OpPlaces, OutPlaces, FinPlaces
  <2>5. nPush' = nPush /\ nShut' = nShut + 1
    <3>1. /\ nPush' = nPush + One("zero" \in {"claimed", "linked"})
                              - One(op[o] \in {"claimed", "linked"})
          /\ nShut' = nShut + One("zero" \in {"zero", "finish", "finished"})
                              - One(op[o] \in {"zero", "finish", "finished"})
      BY <2>1, OpMoves DEF Inv, OpPlaces
    <3> QED BY <2>1, <3>1, Numbers DEF One
  <2>6. TypeOK'
    BY <2>1, <2>4 DEF Inv, TypeOK, OpPlaces
  <2>7. CountersAccount'
    BY <2>1, <2>3, <2>4, <2>5, SameCallers DEF Inv, CountersAccount, nPush, nTook
  <2>8. FinishOnce' /\ ShutdownIsLast' /\ Closing'
    BY <1>2, <2>1, <2>2, <2>3, <2>4 DEF FinishOnce, ShutdownIsLast, Closing
  <2>9. RefsAccount'
    <3>1. refs' = One(~destroyed) + One(PollerHolds) + nIn' + nShut'
      BY <2>1, <2>5, SameCallers, Balance, Numbers DEF One
    <3> QED BY <2>1, <3>1 DEF RefsAccount, nIn, nShut, One, PollerHolds
  <2>10. Listed' /\ Kept'
    BY <2>1, <2>4, SameCallers DEF Inv, Listed, Kept
  <2>11. Attended'
    <3>1. o \in OpsIn({"first", "kick", "zero"})'
      BY <2>4 DEF OpsIn
    <3> QED BY <3>1 DEF Attended
  <2> QED BY <2>6, <2>7, <2>8, <2>9, <2>10, <2>11 DEF Inv
<1> QED BY <1>1, <1>2

LEMMA EndOpDropInv ==
    ASSUME Inv, NEW o \in Ops, EndOpDrop(o)
    PROVE  Inv'
<1> DEFINE to == IF pending = 1 THEN "last" ELSE "returned"
<1>1. /\ op[o] = "drop" /\ op' = [op EXCEPT ![o] = to] /\ pending' = pending - 1
      /\ UNCHANGED <<queue, pushing, queueLock, numItems, shutdownCalled, workers,
                     kicked, kickedWithoutPoller, pollerShutdown, shutdownDone, refs,
                     destroyed, pc, event, firstLoop, zeroPoll, deadline, cache,
                     delivered, drained>>
  BY DEF EndOpDrop, OpGoto, fifo, poller, life, locals, ghosts
<1>2. /\ to \in {"last", "returned"} /\ to \in OpPlaces /\ (to = "last" <=> pending = 1)
  BY DEF OpPlaces
<1> HIDE DEF to
<1>3. /\ o \in Outstanding /\ Finishing = {} /\ pending # 0 /\ ~pollerShutdown
      /\ ~drained /\ ~destroyed /\ \A c \in Callers : pc[c] # "shut"
  BY <1>1, StillOpen DEF OutPlaces
<1>4. /\ op' \in [Ops -> OpPlaces] /\ Outstanding' = Outstanding \ {o}
      /\ Finishing' = IF to = "last" THEN {o} ELSE {}
      /\ op'[o] = to /\ \A p \in Ops : p # o => op'[p] = op[p]
  BY <1>1, <1>2, <1>3, OpFrame DEF OutPlaces, FinPlaces
<1>5. nOut' = nOut - 1 /\ nPush' = nPush /\ nShut' = nShut
  <2>1. /\ nOut' = nOut + One(to \in OutPlaces) - One(op[o] \in OutPlaces)
        /\ nPush' = nPush + One(to \in {"claimed", "linked"})
                            - One(op[o] \in {"claimed", "linked"})
        /\ nShut' = nShut + One(to \in {"zero", "finish", "finished"})
                            - One(op[o] \in {"zero", "finish", "finished"})
    BY <1>1, <1>2, OpMoves DEF Inv
  <2> QED BY <1>1, <1>2, <2>1, Numbers DEF One, OutPlaces
<1>6. pending' = nOut' + One(~shutdownCalled)
  BY <1>1, <1>5, Balance, Numbers DEF One
<1>7. TypeOK'
  <2>1. pending' \in 0 .. Cardinality(Ops) + 1
    <3>1. One(~shutdownCalled) \in {0, 1}
      BY DEF One
    <3> QED BY <1>6, <3>1, Numbers
  <2> QED BY <1>1, <1>4, <2>1 DEF Inv, TypeOK, OpPlaces
<1>8. CountersAccount'
  <2>1. numItems' = Len(queue') + nTook' - nPush'
    BY <1>1, <1>5, SameCallers, Balance
  <2> QED BY <1>1, <1>6, <2>1 DEF CountersAccount, nOut, nPush, nTook, One
<1>9. RefsAccount'
  BY <1>1, <1>5, SameCallers DEF Inv, RefsAccount, nIn, nShut, PollerHolds
<1>10. FinishOnce'
  <2> SUFFICES ASSUME to = "last"
               PROVE  shutdownCalled' /\ ~pollerShutdown' /\ Outstanding' = {}
    BY <1>4 DEF FinishOnce
  <2>1. shutdownCalled /\ Outstanding = {o}
    BY <1>2, <1>3, Balance, Numbers DEF One
  <2> QED BY <1>1, <1>3, <1>4, <2>1
<1>11. ShutdownIsLast' /\ Closing'
  <2>1. pending' = 0 => Finishing' # {}
    BY <1>1, <1>2, <1>4 DEF Inv, TypeOK
  <2> QED BY <1>1, <1>3, <2>1 DEF ShutdownIsLast, Closing
<1>12. Listed' /\ Kept'
  BY <1>1, <1>4, SameCallers DEF Inv, Listed, Kept
<1>13. Attended'
  <2>1. OpsIn({"first", "kick", "zero"})' = OpsIn({"first", "kick", "zero"})
    BY <1>1, <1>2, <1>4 DEF OpsIn
  <2>2. pending > 0
    BY <1>3 DEF Inv, TypeOK
  <2> QED BY <1>1, <2>1, <2>2, SameCallers DEF Inv, Attended
<1> QED BY <1>7, <1>8, <1>9, <1>10, <1>11, <1>12, <1>13 DEF Inv

LEMMA BeginOpInv ==
    ASSUME Inv, NEW o \in Ops, BeginOp(o)
    PROVE  Inv'
<1>1. /\ op[o] = "idle" /\ op' = [op EXCEPT ![o] = "begun"] /\ pending' = pending + 1
      /\ pending # 0 /\ ~shutdownCalled
      /\ UNCHANGED <<queue, pushing, queueLock, numItems, shutdownCalled, workers,
                     kicked, kickedWithoutPoller, pollerShutdown, shutdownDone, refs,
                     destroyed, pc, event, firstLoop, zeroPoll, deadline, cache,
                     delivered, drained>>
  BY DEF BeginOp, OpGoto, fifo, poller, life, locals, ghosts
<1>2. /\ Finishing = {} /\ ~pollerShutdown /\ ~drained /\ ~destroyed
      /\ \A c \in Callers : pc[c] # "shut"
  BY <1>1 DEF Inv, FinishOnce, Closing
<1>3. /\ op' \in [Ops -> OpPlaces] /\ Finishing' = {}
      /\ op'[o] = "begun" /\ \A p \in Ops : p # o => op'[p] = op[p]
  BY <1>1, <1>2, OpFrame DEF OpPlaces, FinPlaces
<1>4. nOut' = nOut + 1 /\ nPush' = nPush /\ nShut' = nShut
  <2>1. /\ nOut' = nOut + One("begun" \in OutPlaces) - One(op[o] \in OutPlaces)
        /\ nPush' = nPush + One("begun" \in {"claimed", "linked"})
                            - One(op[o] \in {"claimed", "linked"})
        /\ nShut' = nShut + One("begun" \in {"zero", "finish", "finished"})
                            - One(op[o] \in {"zero", "finish", "finished"})
    BY <1>1, OpMoves DEF Inv, OpPlaces
  <2> QED BY <1>1, <2>1, Numbers DEF One, OutPlaces
<1>5. pending' = nOut' + One(~shutdownCalled)
  BY <1>1, <1>4, Balance, Numbers DEF One
<1>6. TypeOK'
  <2>1. pending' \in 0 .. Cardinality(Ops) + 1
    <3>1. One(~shutdownCalled) \in {0, 1}
      BY DEF One
    <3> QED BY <1>5, <3>1, Numbers
  <2> QED BY <1>1, <1>3, <2>1 DEF Inv, TypeOK, OpPlaces
<1>7. CountersAccount'
  <2>1. numItems' = Len(queue') + nTook' - nPush'
    BY <1>1, <1>4, SameCallers, Balance
  <2> QED BY <1>1, <1>5, <2>1 DEF CountersAccount, nOut, nPush, nTook, One
<1>8. RefsAccount'
  BY <1>1, <1>4, SameCallers DEF Inv, RefsAccount, nIn, nShut, PollerHolds
<1>9. FinishOnce' /\ ShutdownIsLast' /\ Closing'
  <2>1. pending' # 0
    BY <1>1 DEF Inv, TypeOK
  <2> QED BY <1>1, <1>2, <1>3, <2>1 DEF FinishOnce, ShutdownIsLast, Closing
<1>10. Listed' /\ Kept'
  BY <1>1, <1>3, SameCallers DEF Inv, Listed, Kept
<1>11. Attended'
  <2>1. OpsIn({"first", "kick", "zero"})' = OpsIn({"first", "kick", "zero"})
    BY <1>1, <1>3 DEF OpsIn
  <2>2. pending > 0
    BY <1>1 DEF Inv, TypeOK
  <2> QED BY <1>1, <2>1, <2>2, SameCallers DEF Inv, Attended
<1> QED BY <1>6, <1>7, <1>8, <1>9, <1>10, <1>11 DEF Inv

LEMMA BeginOpRefusedInv ==
    ASSUME Inv, NEW o \in Ops, BeginOpRefused(o)
    PROVE  Inv'
<1>1. /\ op[o] = "idle" /\ op' = [op EXCEPT ![o] = "refused"]
      /\ UNCHANGED <<queue, pushing, queueLock, numItems, pending, shutdownCalled, workers,
                     kicked, kickedWithoutPoller, pollerShutdown, shutdownDone, refs,
                     destroyed, pc, event, firstLoop, zeroPoll, deadline, cache,
                     delivered, drained>>
  BY DEF BeginOpRefused, OpGoto, fifo, counts, poller, life, locals, ghosts
<1>2. /\ op' \in [Ops -> OpPlaces] /\ Outstanding' = Outstanding /\ Finishing' = Finishing
      /\ op'[o] = "refused" /\ \A p \in Ops : p # o => op'[p] = op[p]
  <2>1. o \notin Outstanding /\ o \notin Finishing
    BY <1>1 DEF Outstanding, Finishing
  <2>2. /\ op' \in [Ops -> OpPlaces]
        /\ Outstanding' = Outstanding \ {o} /\ Finishing' = Finishing \ {o}
        /\ op'[o] = "refused" /\ \A p \in Ops : p # o => op'[p] = op[p]
    BY <1>1, OpFrame DEF OpPlaces, OutPlaces, FinPlaces
  <2> QED BY <2>1, <2>2
<1>3. nPush' = nPush /\ nShut' = nShut
  <2>1. /\ nPush' = nPush + One("refused" \in {"claimed", "linked"})
                            - One(op[o] \in {"claimed", "linked"})
        /\ nShut' = nShut + One("refused" \in {"zero", "finish", "finished"})
                            - One(op[o] \in {"zero", "finish", "finished"})
    BY <1>1, OpMoves DEF Inv, OpPlaces
  <2> QED BY <1>1, <2>1, Numbers DEF One
<1>4. TypeOK'
  BY <1>1, <1>2 DEF Inv, TypeOK, OpPlaces
<1>5. CountersAccount' /\ RefsAccount'
  BY <1>1, <1>2, <1>3, SameCallers
  DEF Inv, CountersAccount, RefsAccount, nTook, nPush, nIn, nShut, PollerHolds
<1>6. FinishOnce' /\ ShutdownIsLast' /\ Closing' /\ Listed' /\ Kept'
  BY <1>1, <1>2, SameCallers DEF Inv, FinishOnce, ShutdownIsLast, Closing, Listed, Kept
<1>7. Attended'
  <2>1. OpsIn({"first", "kick", "zero"})' = OpsIn({"first", "kick", "zero"})
    BY <1>1, <1>2 DEF OpsIn
  <2> QED BY <1>1, <2>1, SameCallers DEF Inv, Attended
<1> QED BY <1>4, <1>5, <1>6, <1>7 DEF Inv

LEMMA CacheFlushInv ==
    ASSUME Inv, NEW c \in Callers, CacheFlush(c)
    PROVE  Inv'
<1>1. /\ cache[c] # "off" /\ cache' = [cache EXCEPT ![c] = "off"]
      /\ UNCHANGED <<queue, pushing, queueLock, numItems, pending, shutdownCalled, workers,
                     kicked, kickedWithoutPoller, pollerShutdown, shutdownDone, refs,
                     destroyed, pc, event, firstLoop, zeroPoll, deadline, drained>>
  BY DEF CacheFlush, fifo, counts, poller, life, locals
<1>2. CASE cache[c] = "armed"
  <2>1. UNCHANGED <<op, delivered>>
    BY <1>2 DEF CacheFlush
  <2>2. TypeOK'
    BY <1>1, <2>1 DEF Inv, TypeOK
  <2>3. CountersAccount' /\ RefsAccount'
    BY <1>1, <2>1, SameOps, SameCallers
    DEF Inv, CountersAccount, RefsAccount, nTook, nPush, nIn, nShut, PollerHolds
  <2>4. FinishOnce' /\ ShutdownIsLast' /\ Closing' /\ Listed' /\ Kept' /\ Attended'
    BY <1>1, <2>1, SameOps, SameCallers
    DEF Inv, FinishOnce, ShutdownIsLast, Closing, Listed, Kept, Attended
  <2> QED BY <2>2, <2>3, <2>4 DEF Inv
<1>3. CASE cache[c] # "armed"
  <2> DEFINE o == cache[c]
  <2>1. o \in Ops /\ op[o] = "cached" /\ op' = [op EXCEPT ![o] = "drop"]
        /\ delivered' = delivered \cup {o}
    BY <1>1, <1>3 DEF CacheFlush, OpGoto, Inv, TypeOK
  <2> HIDE DEF o
  <2>2. /\ FinishOnce' /\ ShutdownIsLast' /\ Closing' /\ RefsAccount'
        /\ nOut' = nOut /\ op' \in [Ops -> OpPlaces]
        /\ op'[o] = "drop" /\ \A p \in Ops : p # o => op'[p] = op[p]
    BY <1>1, <2>1, OpGoesOn DEF OutPlaces
  <2>3. TypeOK'
    BY <1>1, <2>1, <2>2 DEF Inv, TypeOK, OpPlaces
  <2>4. CountersAccount'
    <3>1. nPush' = nPush
      <4>1. nPush' = nPush + One("drop" \in {"claimed", "linked"})
                                - One(op[o] \in {"claimed", "linked"})
        BY <2>1, OpMoves DEF Inv, OpPlaces
      <4> QED BY <2>1, <4>1, Numbers DEF One
    <3> QED BY <1>1, <2>2, <3>1, SameCallers DEF Inv, CountersAccount, nOut, nPush, nTook
  <2>5. Listed' /\ Kept'
    BY <1>1, <2>1, <2>2, SameCallers DEF Inv, Listed, Kept
  <2>6. Attended'
    <3>1. OpsIn({"first", "kick", "zero"})' = OpsIn({"first", "kick", "zero"})
      BY <2>1, <2>2 DEF OpsIn
    <3> QED BY <1>1, <3>1, SameCallers DEF Inv, Attended
  <2> QED BY <2>2, <2>3, <2>4, <2>5, <2>6 DEF Inv
<1> QED BY <1>2, <1>3

-----------------------------------------------------------------------------
(* The shutdown                                                            *)

\* Who finishes the shutdown finds nothing outstanding but its own operation.
LEMMA LastOne ==
    ASSUME Inv, NEW o \in Ops, op[o] \in FinPlaces
    PROVE  /\ o \in Finishing /\ Finishing = {o} /\ shutdownCalled /\ ~pollerShutdown
           /\ shutdownDone = 0
           /\ op[o] = "zero" => Outstanding = {o} /\ nOut = 1 /\ pending = 1
           /\ op[o] # "zero" => Outstanding = {} /\ nOut = 0 /\ pending = 0
<1>1. /\ o \in Finishing /\ Finishing = {o} /\ shutdownCalled /\ ~pollerShutdown
      /\ Outstanding \subseteq {o}
  BY DEF Inv, FinishOnce, Finishing, FinPlaces
<1>2. shutdownDone = 0
  BY <1>1 DEF Inv, Listed, TypeOK
<1>3. ASSUME op[o] = "zero" PROVE Outstanding = {o} /\ nOut = 1 /\ pending = 1
  <2>1. Outstanding = {o}
    BY <1>1, <1>3 DEF Outstanding
  <2>2. nOut = 1
    BY <2>1, FS_Singleton DEF nOut
  <2> QED BY <1>1, <2>1, <2>2, Balance DEF One
<1>4. ASSUME op[o] # "zero" PROVE Outstanding = {} /\ nOut = 0 /\ pending = 0
  <2>1. o \notin Outstanding
    BY <1>4 DEF Outstanding, FinPlaces
  <2>2. Outstanding = {} /\ nOut = 0
    BY <1>1, <2>1, Numbers
  <2> QED BY <1>1, <2>2, Balance DEF One
<1> QED BY <1>1, <1>2, <1>3, <1>4

LEMMA EndOpRefInv ==
    ASSUME Inv, NEW o \in Ops, EndOpRef(o)
    PROVE  Inv'
<1>1. /\ op[o] = "last" /\ op' = [op EXCEPT ![o] = "finish"] /\ refs' = refs + 1
      /\ UNCHANGED <<queue, pushing, queueLock, numItems, pending, shutdownCalled, workers,
                     kicked, kickedWithoutPoller, pollerShutdown, shutdownDone,
                     destroyed, pc, event, firstLoop, zeroPoll, deadline, cache,
                     delivered, drained>>
  BY DEF EndOpRef, OpGoto, fifo, counts, poller, locals, ghosts
<1>2. Finishing = {o} /\ shutdownCalled /\ ~pollerShutdown /\ Outstanding = {} /\ pending = 0
  BY <1>1, LastOne DEF FinPlaces
<1>3. /\ op' \in [Ops -> OpPlaces] /\ Outstanding' = {} /\ Finishing' = {o}
      /\ op'[o] = "finish" /\ \A p \in Ops : p # o => op'[p] = op[p]
  BY <1>1, <1>2, OpFrame DEF OpPlaces, OutPlaces, FinPlaces
<1>4. nPush' = nPush /\ nShut' = nShut + 1
  <2>1. /\ nPush' = nPush + One("finish" \in {"claimed", "linked"})
                            - One(op[o] \in {"claimed", "linked"})
        /\ nShut' = nShut + One("finish" \in {"zero", "finish", "finished"})
                            - One(op[o] \in {"zero", "finish", "finished"})
    BY <1>1, OpMoves DEF Inv, OpPlaces
  <2> QED BY <1>1, <2>1, Numbers DEF One
<1>5. TypeOK'
  BY <1>1, <1>3 DEF Inv, TypeOK, OpPlaces
<1>6. CountersAccount'
  BY <1>1, <1>2, <1>3, <1>4, SameCallers DEF Inv, CountersAccount, nPush, nTook
<1>7. RefsAccount'
  <2>1. refs' = One(~destroyed) + One(PollerHolds) + nIn' + nShut'
    BY <1>1, <1>4, SameCallers, Balance, Numbers DEF One
  <2> QED BY <1>1, <2>1 DEF RefsAccount, nIn, nShut, One, PollerHolds
<1>8. FinishOnce' /\ Closing'
  BY <1>1, <1>2, <1>3 DEF Inv, FinishOnce, Closing
<1>9. ShutdownIsLast'
  BY <1>1, <1>3 DEF Inv, ShutdownIsLast
<1>10. Listed' /\ Kept' /\ Attended'
  BY <1>1, <1>2, <1>3, SameCallers DEF Inv, Listed, Kept, Attended
<1> QED BY <1>5, <1>6, <1>7, <1>8, <1>9, <1>10 DEF Inv

LEMMA EndOpStoreInv ==
    ASSUME Inv, NEW o \in Ops, EndOpStore(o)
    PROVE  Inv'
<1>1. /\ op[o] = "zero" /\ op' = [op EXCEPT ![o] = "finish"] /\ pending' = 0
      /\ UNCHANGED <<queue, pushing, queueLock, numItems, shutdownCalled, workers,
                     kicked, kickedWithoutPoller, pollerShutdown, shutdownDone, refs,
                     destroyed, pc, event, firstLoop, zeroPoll, deadline, cache,
                     delivered, drained>>
  BY DEF EndOpStore, OpGoto, fifo, poller, life, locals, ghosts
<1>2. /\ Finishing = {o} /\ shutdownCalled /\ ~pollerShutdown /\ Outstanding = {o}
      /\ pending = 1 /\ nOut = 1
  BY <1>1, LastOne DEF FinPlaces
<1>3. /\ op' \in [Ops -> OpPlaces] /\ Outstanding' = {} /\ Finishing' = {o}
      /\ op'[o] = "finish" /\ \A p \in Ops : p # o => op'[p] = op[p]
  BY <1>1, <1>2, OpFrame DEF OpPlaces, OutPlaces, FinPlaces
<1>4. nPush' = nPush /\ nShut' = nShut /\ nOut' = 0
  <2>1. /\ nPush' = nPush + One("finish" \in {"claimed", "linked"})
                            - One(op[o] \in {"claimed", "linked"})
        /\ nShut' = nShut + One("finish" \in {"zero", "finish", "finished"})
                            - One(op[o] \in {"zero", "finish", "finished"})
    BY <1>1, OpMoves DEF Inv, OpPlaces
  <2>2. nOut' = 0
    BY <1>3, FS_EmptySet DEF nOut
  <2> QED BY <1>1, <2>1, <2>2, Numbers DEF One
<1>5. TypeOK'
  <2>1. pending' \in 0 .. Cardinality(Ops) + 1
    BY <1>1, Numbers
  <2> QED BY <1>1, <1>3, <2>1 DEF Inv, TypeOK, OpPlaces
<1>6. CountersAccount'
  <2>1. numItems' = Len(queue') + nTook' - nPush'
    BY <1>1, <1>4, SameCallers, Balance
  <2> QED BY <1>1, <1>2, <1>4, <2>1 DEF CountersAccount, nOut, nPush, nTook
<1>7. RefsAccount'
  BY <1>1, <1>4, SameCallers DEF Inv, RefsAccount, nIn, nShut, PollerHolds
<1>8. FinishOnce' /\ Closing'
  BY <1>1, <1>2, <1>3 DEF Inv, FinishOnce, Closing
<1>9. ShutdownIsLast'
  BY <1>1, <1>2 DEF Inv, Closing, ShutdownIsLast
<1>10. Listed' /\ Kept' /\ Attended'
  BY <1>1, <1>3, SameCallers DEF Inv, Listed, Kept, Attended
<1> QED BY <1>5, <1>6, <1>7, <1>8, <1>9, <1>10 DEF Inv

LEMMA EndOpFinishInv ==
    ASSUME Inv, NEW o \in Ops, EndOpFinish(o)
    PROVE  Inv'
<1>1. /\ op[o] = "finish" /\ op' = [op EXCEPT ![o] = "finished"] /\ pollerShutdown' = TRUE
      /\ shutdownDone' = shutdownDone + (IF workers = <<>> THEN 1 ELSE 0)
      /\ UNCHANGED <<queue, pushing, queueLock, numItems, pending, shutdownCalled, workers,
                     kicked, kickedWithoutPoller, refs,
                     destroyed, pc, event, firstLoop, zeroPoll, deadline, cache,
                     delivered, drained>>
  BY DEF EndOpFinish, PollerShutdown, OpGoto, fifo, counts, locals, ghosts
<1>2. /\ Finishing = {o} /\ shutdownCalled /\ ~pollerShutdown /\ Outstanding = {}
      /\ pending = 0 /\ shutdownDone = 0
  BY <1>1, LastOne DEF FinPlaces
<1>3. /\ op' \in [Ops -> OpPlaces] /\ Outstanding' = {} /\ Finishing' = {}
      /\ op'[o] = "finished" /\ \A p \in Ops : p # o => op'[p] = op[p]
  BY <1>1, <1>2, OpFrame DEF OpPlaces, OutPlaces, FinPlaces
<1>4. nPush' = nPush /\ nShut' = nShut
  <2>1. /\ nPush' = nPush + One("finished" \in {"claimed", "linked"})
                            - One(op[o] \in {"claimed", "linked"})
        /\ nShut' = nShut + One("finished" \in {"zero", "finish", "finished"})
                            - One(op[o] \in {"zero", "finish", "finished"})
    BY <1>1, OpMoves DEF Inv, OpPlaces
  <2> QED BY <1>1, <2>1, Numbers DEF One
<1>5. TypeOK'
  <2>1. shutdownDone' \in 0 .. 1
    BY <1>1, <1>2
  <2> QED BY <1>1, <1>3, <2>1 DEF Inv, TypeOK, OpPlaces
<1>6. CountersAccount'
  BY <1>1, <1>2, <1>3, <1>4, SameCallers DEF Inv, CountersAccount, nPush, nTook
<1>7. RefsAccount'
  <2>1. PollerHolds /\ PollerHolds'
    BY <1>1, <1>2 DEF PollerHolds
  <2> QED BY <1>1, <1>4, <2>1, SameCallers DEF Inv, RefsAccount, nIn, nShut
<1>8. FinishOnce' /\ Closing'
  BY <1>1, <1>2, <1>3 DEF Inv, FinishOnce, Closing
<1>9. ShutdownIsLast'
  BY <1>1, <1>3 DEF Inv, ShutdownIsLast
<1>10. Listed' /\ Kept' /\ Attended'
  BY <1>1, <1>2, <1>3, SameCallers DEF Inv, Listed, Kept, Attended
<1> QED BY <1>5, <1>6, <1>7, <1>8, <1>9, <1>10 DEF Inv

LEMMA EndOpUnrefInv ==
    ASSUME Inv, NEW o \in Ops, EndOpUnref(o)
    PROVE  Inv'
<1>1. /\ op[o] = "finished" /\ op' = [op EXCEPT ![o] = "returned"] /\ refs' = refs - 1
      /\ UNCHANGED <<queue, pushing, queueLock, numItems, pending, shutdownCalled, workers,
                     kicked, kickedWithoutPoller, pollerShutdown, shutdownDone,
                     destroyed, pc, event, firstLoop, zeroPoll, deadline, cache,
                     delivered, drained>>
  BY DEF EndOpUnref, OpGoto, fifo, counts, poller, locals, ghosts
<1>2. /\ op' \in [Ops -> OpPlaces] /\ Outstanding' = Outstanding /\ Finishing' = Finishing
      /\ op'[o] = "returned" /\ \A p \in Ops : p # o => op'[p] = op[p]
  <2>1. o \notin Outstanding /\ o \notin Finishing
    BY <1>1 DEF Outstanding, Finishing
  <2>2. /\ op' \in [Ops -> OpPlaces]
        /\ Outstanding' = Outstanding \ {o} /\ Finishing' = Finishing \ {o}
        /\ op'[o] = "returned" /\ \A p \in Ops : p # o => op'[p] = op[p]
    BY <1>1, OpFrame DEF OpPlaces, OutPlaces, FinPlaces
  <2> QED BY <2>1, <2>2
<1>3. nPush' = nPush /\ nShut' = nShut - 1
  <2>1. /\ nPush' = nPush + One("returned" \in {"claimed", "linked"})
                            - One(op[o] \in {"claimed", "linked"})
        /\ nShut' = nShut + One("returned" \in {"zero", "finish", "finished"})
                            - One(op[o] \in {"zero", "finish", "finished"})
    BY <1>1, OpMoves DEF Inv, OpPlaces
  <2> QED BY <1>1, <2>1, Numbers DEF One
<1>4. refs' = One(~destroyed) + One(PollerHolds) + nIn' + nShut'
  BY <1>1, <1>3, SameCallers, Balance, Numbers DEF One
<1>5. TypeOK'
  <2>1. refs' \in Nat
    <3>1. One(~destroyed) \in {0, 1} /\ One(PollerHolds) \in {0, 1}
      BY DEF One
    <3> QED BY <1>4, <3>1, Numbers
  <2> QED BY <1>1, <1>2, <2>1 DEF Inv, TypeOK, OpPlaces
<1>6. CountersAccount' /\ RefsAccount'
  <2>1. CountersAccount'
    BY <1>1, <1>2, <1>3, SameCallers DEF Inv, CountersAccount, nPush, nTook
  <2>2. RefsAccount'
    BY <1>1, <1>4 DEF RefsAccount, nIn, nShut, One, PollerHolds
  <2> QED BY <2>1, <2>2
<1>7. FinishOnce' /\ ShutdownIsLast' /\ Closing' /\ Listed' /\ Kept'
  BY <1>1, <1>2, SameCallers DEF Inv, FinishOnce, ShutdownIsLast, Closing, Listed, Kept
<1>8. Attended'
  <2>1. OpsIn({"first", "kick", "zero"})' = OpsIn({"first", "kick", "zero"})
    BY <1>1, <1>2 DEF OpsIn
  <2> QED BY <1>1, <2>1, SameCallers DEF Inv, Attended
<1> QED BY <1>5, <1>6, <1>7, <1>8 DEF Inv

LEMMA ShutdownInv ==
    ASSUME Inv, Shutdown
    PROVE  Inv'
<1>1. /\ ~shutdownCalled /\ shutdownCalled' = TRUE /\ pending' = pending - 1
      /\ pending = 1 =>
            /\ pollerShutdown' = TRUE
            /\ shutdownDone' = shutdownDone + (IF workers = <<>> THEN 1 ELSE 0)
      /\ pending # 1 => UNCHANGED <<pollerShutdown, shutdownDone>>
      /\ UNCHANGED <<queue, pushing, queueLock, numItems, workers, kicked,
                     kickedWithoutPoller, refs, destroyed, op, pc, event, firstLoop,
                     zeroPoll, deadline, cache, delivered, drained>>
  BY DEF Shutdown, PollerShutdown, poller, fifo, locals, ghosts
<1>2. /\ Finishing = {} /\ ~pollerShutdown /\ ~drained /\ ~destroyed /\ shutdownDone = 0
      /\ pending # 0 /\ \A c \in Callers : pc[c] # "shut"
  <2>1. pending # 0
    BY <1>1, Balance
  <2> QED BY <1>1, <2>1 DEF Inv, FinishOnce, Closing, Listed, TypeOK
<1>3. pending' = nOut
  BY <1>1, Balance, Numbers DEF One
<1>4. TypeOK'
  <2>1. pending' \in 0 .. Cardinality(Ops) + 1 /\ shutdownDone' \in 0 .. 1
    BY <1>1, <1>2, <1>3, Numbers
  <2>2. pollerShutdown' \in BOOLEAN
    BY <1>1 DEF Inv, TypeOK
  <2> QED BY <1>1, <2>1, <2>2 DEF Inv, TypeOK
<1>5. CountersAccount'
  <2>1. numItems' = Len(queue') + nTook' - nPush'
    BY <1>1, SameOps, SameCallers, Balance
  <2>2. nOut' = nOut
    BY <1>1, SameOps
  <2> QED BY <1>1, <1>3, <2>1, <2>2, Numbers DEF CountersAccount, nOut, nPush, nTook
<1>6. RefsAccount'
  <2>1. PollerHolds /\ PollerHolds'
    BY <1>1, <1>2 DEF PollerHolds
  <2> QED BY <1>1, <2>1, SameOps, SameCallers DEF Inv, RefsAccount, nIn, nShut
<1>7. FinishOnce' /\ ShutdownIsLast' /\ Closing'
  <2>1. pending' = 0 <=> pending = 1
    BY <1>1 DEF Inv, TypeOK
  <2> QED BY <1>1, <1>2, <2>1, SameOps DEF FinishOnce, ShutdownIsLast, Closing
<1>8. Listed' /\ Kept' /\ Attended'
  <2>1. Listed'
    BY <1>1, <1>2, SameCallers DEF Inv, Listed
  <2>2. pending > 0
    BY <1>2 DEF Inv, TypeOK
  <2> QED BY <1>1, <2>1, <2>2, SameOps, SameCallers DEF Inv, Kept, Attended
<1> QED BY <1>4, <1>5, <1>6, <1>7, <1>8 DEF Inv

LEMMA PollsetShutdownDoneInv ==
    ASSUME Inv, PollsetShutdownDone
    PROVE  Inv'
<1>1. /\ shutdownDone > 0 /\ shutdownDone' = shutdownDone - 1 /\ refs' = refs - 1
      /\ UNCHANGED <<queue, pushing, queueLock, numItems, pending, shutdownCalled, workers,
                     kicked, kickedWithoutPoller, pollerShutdown, destroyed, op, pc, event,
                     firstLoop, zeroPoll, deadline, cache, delivered, drained>>
  BY DEF PollsetShutdownDone, fifo, counts, poller, locals, ghosts
<1>2. shutdownDone = 1 /\ shutdownDone' = 0 /\ pollerShutdown /\ workers = <<>>
  BY <1>1 DEF Inv, TypeOK, Listed
<1>3. PollerHolds /\ ~PollerHolds'
  BY <1>1, <1>2 DEF PollerHolds
<1>4. refs' = One(~destroyed) + nIn' + nShut'
  BY <1>1, <1>3, SameOps, SameCallers, Balance, Numbers DEF One
<1>5. TypeOK'
  <2>1. refs' \in Nat
    <3>1. One(~destroyed) \in {0, 1}
      BY DEF One
    <3> QED BY <1>4, <3>1, Numbers
  <2> QED BY <1>1, <1>2, <2>1 DEF Inv, TypeOK
<1>6. CountersAccount' /\ RefsAccount'
  <2>1. CountersAccount'
    BY <1>1, SameOps, SameCallers DEF Inv, CountersAccount, nPush, nTook
  <2>2. RefsAccount'
    BY <1>1, <1>3, <1>4, Numbers DEF RefsAccount, nIn, nShut, One
  <2> QED BY <2>1, <2>2
<1>7. FinishOnce' /\ ShutdownIsLast' /\ Closing' /\ Listed' /\ Kept' /\ Attended'
  BY <1>1, <1>2, SameOps, SameCallers
  DEF Inv, FinishOnce, ShutdownIsLast, Closing, Listed, Kept, Attended
<1> QED BY <1>5, <1>6, <1>7 DEF Inv

LEMMA DestroyInv ==
    ASSUME Inv, Destroy
    PROVE  Inv'
<1>1. /\ drained /\ ~destroyed /\ destroyed' = TRUE /\ refs' = refs - 1
      /\ UNCHANGED <<queue, pushing, queueLock, numItems, pending, shutdownCalled, workers,
                     kicked, kickedWithoutPoller, pollerShutdown, shutdownDone, op, pc,
                     event, firstLoop, zeroPoll, deadline, cache, delivered, drained>>
  BY DEF Destroy, fifo, counts, poller, locals, ghosts
<1>2. refs' = One(PollerHolds) + nIn' + nShut'
  BY <1>1, SameOps, SameCallers, Balance, Numbers DEF One
<1>3. TypeOK'
  <2>1. refs' \in Nat
    <3>1. One(PollerHolds) \in {0, 1}
      BY DEF One
    <3> QED BY <1>2, <3>1, Numbers
  <2> QED BY <1>1, <2>1 DEF Inv, TypeOK
<1>4. CountersAccount' /\ RefsAccount'
  <2>1. CountersAccount'
    BY <1>1, SameOps, SameCallers DEF Inv, CountersAccount, nPush, nTook
  <2>2. RefsAccount'
    BY <1>1, <1>2, Numbers DEF RefsAccount, nIn, nShut, One, PollerHolds
  <2> QED BY <2>1, <2>2
<1>5. FinishOnce' /\ ShutdownIsLast' /\ Closing' /\ Listed' /\ Kept' /\ Attended'
  BY <1>1, SameOps, SameCallers
  DEF Inv, FinishOnce, ShutdownIsLast, Closing, Listed, Kept, Attended
<1> QED BY <1>3, <1>4, <1>5 DEF Inv

-----------------------------------------------------------------------------
(* Every step                                                              *)

LEMMA EndOpInv == ASSUME Inv, NEW o \in Ops, EndOp(o) PROVE Inv'
BY PushClaimInv, PushLinkInv, PushCountInv, EndOpLoadInv, EndOpKickInv, EndOpDropInv,
   EndOpRefInv, EndOpStoreInv, EndOpFinishInv, EndOpUnrefInv DEF EndOp

LEMMA NextStepInv == ASSUME Inv, NEW c \in Callers, NextStep(c) PROVE Inv'
BY PopTryLockInv, PopTakesInv, PopFailsInv, PopCountInv, PopNullInv, NextPendingInv,
   NextShutInv, NextTimeoutInv, NextPollInv, NextWakesInv, TrailingItemsInv,
   TrailingPendingInv, TrailingKickInv, ReturnNextInv DEF NextStep

LEMMA NextInv == Inv /\ [Next]_vars => Inv'
<1> SUFFICES ASSUME Inv, [Next]_vars PROVE Inv'
  OBVIOUS
<1>1. CASE Next
  <2>1. ASSUME NEW o \in Ops, BeginOp(o) \/ BeginOpRefused(o) \/ EndOp(o) PROVE Inv'
    BY <2>1, BeginOpInv, BeginOpRefusedInv, EndOpInv
  <2>2. ASSUME NEW o \in Ops, NEW c \in Cachers, EndOpCached(o, c) PROVE Inv'
    BY <2>2, EndOpCachedInv
  <2>3. ASSUME NEW c \in Callers, NEW d \in Deadlines, CallNext(c, d) PROVE Inv'
    BY <2>3, CallNextInv
  <2>4. ASSUME NEW c \in Callers, DeadlinePasses(c) \/ NextStep(c) PROVE Inv'
    BY <2>4, DeadlinePassesInv, NextStepInv
  <2>5. ASSUME NEW c \in Cachers, CacheInit(c) \/ CacheFlush(c) PROVE Inv'
    BY <2>5, CacheInitInv, CacheFlushInv
  <2>6. ASSUME Shutdown \/ PollsetShutdownDone \/ Destroy PROVE Inv'
    BY <2>6, ShutdownInv, PollsetShutdownDoneInv, DestroyInv
  <2> QED BY <1>1, <2>1, <2>2, <2>3, <2>4, <2>5, <2>6 DEF Next
<1>2. CASE UNCHANGED vars
  <2>1. UNCHANGED <<queue, pushing, queueLock, numItems, pending, shutdownCalled, workers,
                    kicked, kickedWithoutPoller, pollerShutdown, shutdownDone, refs,
                    destroyed, op, pc, event, firstLoop, zeroPoll, deadline, cache,
                    delivered, drained>>
    BY <1>2 DEF vars, fifo, counts, poller, life, locals, ghosts
  <2>2. TypeOK'
    BY <2>1 DEF Inv, TypeOK
  <2>3. CountersAccount' /\ RefsAccount'
    BY <2>1, SameOps, SameCallers
    DEF Inv, CountersAccount, RefsAccount, nTook, nPush, nIn, nShut, PollerHolds
  <2>4. FinishOnce' /\ ShutdownIsLast' /\ Closing' /\ Listed' /\ Kept' /\ Attended'
    BY <2>1, SameOps, SameCallers
    DEF Inv, FinishOnce, ShutdownIsLast, Closing, Listed, Kept, Attended
  <2> QED BY <2>2, <2>3, <2>4 DEF Inv
<1> QED BY <1>1, <1>2

-----------------------------------------------------------------------------
(* Theorems                                                                *)

\* Every part of the inductive invariant holds of every behaviour.
THEOREM Invariance == Spec => []Inv
<1> QED BY InitInv, NextInv, PTL DEF Spec

\* The variables keep their types, no worker is listed twice and the closure
\* of the poller is scheduled at most once; num_queue_items_ is off from the
\* queue by exactly the pushes and pops under way, and pending_events counts
\* the owner and the operations that have not ended.
THEOREM CountersExact == Spec => [](TypeOK /\ CountersAccount)
<1>1. Inv => TypeOK /\ CountersAccount
  BY DEF Inv
<1> QED BY <1>1, Invariance, PTL

\* When next returns GRPC_QUEUE_SHUTDOWN, every event has been handed out.
THEOREM ShutdownComesLast == Spec => []ShutdownIsLast
<1>1. Inv => ShutdownIsLast
  BY DEF Inv
<1> QED BY <1>1, Invariance, PTL

\* cq_finish_shutdown_next is reached by one thread at a time, once, after
\* shutdown was called and with nothing else outstanding.
THEOREM ShutdownFinishedOnce == Spec => []FinishOnce
<1>1. Inv => FinishOnce
  BY DEF Inv
<1> QED BY <1>1, Invariance, PTL

LEMMA InvFreed == Inv => FreedWhenUnused
<1> SUFFICES ASSUME Inv PROVE FreedWhenUnused
  OBVIOUS
<1>1. ASSUME ~PollerHolds
      PROVE  Outstanding = {} /\ Finishing = {}
  <2>1. pollerShutdown /\ pending = 0
    BY <1>1 DEF PollerHolds, Inv, Closing
  <2> QED BY <2>1, Balance DEF Inv, FinishOnce
<1>2. ASSUME refs = 0
      PROVE  destroyed /\ Inside = {} /\ EndingOps = {} /\ numItems = 0 /\ queue = <<>>
  <2>1. destroyed /\ ~PollerHolds /\ nIn = 0 /\ nShut = 0
    <3>1. refs = One(~destroyed) + One(PollerHolds) + nIn + nShut
      BY Balance
    <3>2. nIn \in Nat /\ nShut \in Nat
      BY Numbers
    <3> QED BY <1>2, <3>1, <3>2 DEF One
  <2>2. Inside = {} /\ OpsIn({"zero", "finish", "finished"}) = {}
    BY <2>1, Numbers
  <2>3. EndingOps = {}
    BY <1>1, <2>1, <2>2 DEF EndingOps, Outstanding, Finishing, OpsIn, Inv, TypeOK
  <2>4. queue = <<>>
    BY <2>1 DEF Inv, Closing, ShutdownIsLast
  <2>5. numItems = 0
    <3>1. nTook = 0
      BY <2>2, Numbers DEF Inside
    <3>2. nPush = 0
      BY <2>3, Numbers DEF EndingOps
    <3> QED BY <2>4, <3>1, <3>2, Balance
  <2> QED BY <2>1, <2>2, <2>3, <2>4, <2>5
<1>3. EndingOps \cup Inside # {} => refs > 0
  BY <1>2 DEF Inv, TypeOK
<1>4. shutdownDone > 0 => workers = <<>>
  BY DEF Inv, Listed
<1> QED BY <1>2, <1>3, <1>4 DEF FreedWhenUnused

\* The queue is freed only after destroy, empty, with no thread inside; while
\* a thread is inside, it holds a reference or someone holds one for it.
THEOREM FreeIsSafe == Spec => []FreedWhenUnused
BY InvFreed, Invariance, PTL

LEMMA InvWakeups == Inv => NoLostWakeup
<1> SUFFICES ASSUME Inv, queue # <<>>, Inside # {},
                    \A o \in Ops : op[o] \notin {"claimed", "linked", "first", "kick",
                                                 "queued", "zero", "last", "finish"},
                    \A c \in Inside : Asleep(c)
             PROVE  FALSE
  BY DEF NoLostWakeup
<1>1. PICK c \in Inside : Asleep(c)
  OBVIOUS
<1>2. c \in Callers /\ pc[c] = "wait" /\ ~pollerShutdown
  BY <1>1 DEF Asleep, Inside
<1>3. numItems > 0
  <2>1. nPush = 0 /\ Len(queue) > 0
    BY Numbers, EmptySeq DEF Inv, TypeOK
  <2> QED BY <2>1, Balance, Numbers
<1>4. pending > 0
  <2>1. Finishing = {}
    BY DEF Finishing
  <2> QED BY <1>2, <2>1 DEF Inv, Closing, TypeOK
<1>5. workers # <<>> /\ ~kickedWithoutPoller
  <2>1. c \in ToSet(workers)
    BY <1>2 DEF Inv, Listed, CallersAt
  <2>2. workers # <<>>
    BY <2>1 DEF ToSet
  <2> QED BY <2>2 DEF Inv, Listed
<1>6. kicked = {}
  <2> SUFFICES ASSUME NEW d \in kicked PROVE FALSE
    OBVIOUS
  <2>1. d \in Inside
    BY DEF Inv, TypeOK, Listed, CallersAt, Inside
  <2> QED BY <2>1 DEF Asleep
<1>7. \A d \in Callers : pc[d] \in {"out", "wait"} /\ (pc[d] = "wait" => ~zeroPoll[d])
  BY DEF Asleep, Inside
<1>8. Looking = {} /\ \A d \in CallersAt({"pending", "time", "wait"}) : ~zeroPoll[d]
  BY <1>7 DEF Looking, CallersAt
<1>9. OpsIn({"first", "kick", "zero"}) = {}
  BY DEF OpsIn
<1> QED BY <1>3, <1>4, <1>5, <1>6, <1>8, <1>9 DEF Inv, Attended

\* An event never waits for callers that all sleep in the poller with nobody
\* on the way to wake one.
THEOREM WakeupsArrive == Spec => []NoLostWakeup
BY InvWakeups, Invariance, PTL

-----------------------------------------------------------------------------
(* GRPC_CQ_PLUCK.  The module that proves about it is instantiated as       *)
(* MCCompletionQueue instantiates PluckQueue.                               *)

PKP == INSTANCE PluckQueueProofs WITH
    Callers <- Pluckers,
    completed <- pkCompleted, pending <- pkPending,
    shutdownCalled <- pkShutdownCalled, shutdown <- pkShutdown,
    workers <- pkWorkers, kicked <- pkKicked,
    kickedWithoutPoller <- pkKickedWithoutPoller, pluckers <- pkPluckers,
    op <- pkOp, pc <- pkPc, tag <- pkTag, firstLoop <- pkFirstLoop,
    deadline <- pkDeadline, ret <- pkRet, shutdownDone <- pkShutdownDone,
    refs <- pkRefs, destroyed <- pkDestroyed

LEMMA SamePluckQueue ==
    /\ PK!PluckQueueConstants <=> PKP!PluckQueueConstants
    /\ PK!Init <=> PKP!Init
    /\ PK!Next <=> PKP!Next
    /\ UNCHANGED pkVars => UNCHANGED PKP!vars
    /\ PK!TypeOK <=> PKP!TypeOK
    /\ PK!SleeperKicked <=> PKP!SleeperKicked
    /\ PK!NothingAfterShutdown <=> PKP!NothingAfterShutdown
    /\ PK!FreedWhenUnused <=> PKP!FreedWhenUnused
BY Zenon DEF pkVars, PK!PluckQueueConstants, PK!cq, PK!poller, PK!call, PK!life, PK!vars,
           PK!Init, PK!BeginOp, PK!KickFor, PK!PollerShutdown, PK!EndOp,
           PK!Shutdown, PK!PollsetShutdownDone, PK!Destroy, PK!CallPluck,
           PK!DeadlinePasses, PK!AtTop, PK!DelPlucker, PK!LeavePoller,
           PK!Return, PK!ReturnPluck, PK!Find, PK!PluckFound, PK!PluckShutdown,
           PK!PluckTooMany, PK!TooLate, PK!PluckTimeout, PK!PluckWaits,
           PK!Pluck, PK!Next, PK!TypeOK, PK!SleeperKicked,
           PK!NothingAfterShutdown, PK!Inside, PK!FreedWhenUnused,
           PK!Cardinality, PK!IsFiniteSet, PK!ToSet, PK!IsInjective,
           PK!SelectInSeq, PK!Min, PK!RemoveAt, PK!RemoveFirst, PK!Last,
           PKP!PluckQueueConstants, PKP!cq, PKP!poller, PKP!call, PKP!life,
           PKP!vars, PKP!Init, PKP!BeginOp, PKP!KickFor, PKP!PollerShutdown,
           PKP!EndOp, PKP!Shutdown, PKP!PollsetShutdownDone, PKP!Destroy,
           PKP!CallPluck, PKP!DeadlinePasses, PKP!AtTop, PKP!DelPlucker,
           PKP!LeavePoller, PKP!Return, PKP!ReturnPluck, PKP!Find,
           PKP!PluckFound, PKP!PluckShutdown, PKP!PluckTooMany, PKP!TooLate,
           PKP!PluckTimeout, PKP!PluckWaits, PKP!Pluck, PKP!Next, PKP!TypeOK,
           PKP!SleeperKicked, PKP!NothingAfterShutdown, PKP!Inside,
           PKP!FreedWhenUnused, PKP!Cardinality, PKP!IsFiniteSet, PKP!ToSet,
           PKP!IsInjective, PKP!SelectInSeq, PKP!Min, PKP!RemoveAt,
           PKP!RemoveFirst, PKP!Last

-----------------------------------------------------------------------------
(* GRPC_CQ_CALLBACK                                                        *)

cbBegun == {o \in CallbackOps : cbOp[o] = "begun"}
cbFinish == {o \in CallbackOps : cbOp[o] = "finish"}

\* Of the begun operations and the call of shutdown, the last that ends
\* finishes the shutdown, which schedules the callback and the closure.
CbFinishes ==
    /\ cbCallback # "twice"
    /\ Cardinality(cbFinish) + One(cbCloser = "finish") + One(cbCallback # "none")
         = One(cbShutdownCalled /\ cbBegun = {})
    /\ cbShutdownDone > 0 => cbCallback # "none"

\* pending_events counts the begun operations, and one for the queue;
\* owning_refs the callback of the shutdown, which destroys the queue, the
\* call of shutdown and the pollset.
CbCounted ==
    /\ cbShutdownCalled <=> cbCloser # "idle"
    /\ cbPending = Cardinality(cbBegun) + One(~cbShutdownCalled)
    /\ cbRefs = One(cbCallback # "ran") + One(cbCloser \in {"finish", "finished"})
                  + One(cbCallback = "none" \/ cbShutdownDone > 0)

CbInv == CB!TypeOK /\ CbFinishes /\ CbCounted

LEMMA CbConstants == IsFiniteSet(CallbackOps) /\ Cardinality(CallbackOps) \in Nat
<1>1. \A S : CB!IsFiniteSet(S) <=> IsFiniteSet(S)
  BY Zenon DEF CB!IsFiniteSet, IsFiniteSet
<1>2. IsFiniteSet(CallbackOps)
  BY <1>1, QueuesAssumption DEF CB!CallbackQueueConstants
<1> QED BY <1>2, FS_CardinalityType

LEMMA CbCardinality == \A S : CB!Cardinality(S) = Cardinality(S)
BY Zenon DEF CB!Cardinality, Cardinality

LEMMA CbNumbers ==
    /\ Cardinality(CallbackOps) \in Nat
    /\ Cardinality(cbBegun) \in Nat /\ Cardinality(cbFinish) \in Nat
    /\ Cardinality(cbBegun) <= Cardinality(CallbackOps)
    /\ Cardinality(cbBegun) = 0 <=> cbBegun = {}
    /\ Cardinality(cbFinish) = 0 <=> cbFinish = {}
<1>1. cbBegun \in SUBSET CallbackOps /\ cbFinish \in SUBSET CallbackOps
  BY DEF cbBegun, cbFinish
<1> QED BY <1>1, CbConstants, Finite

\* What a step of one operation does to the counts.
LEMMA CbOpMoves ==
    ASSUME CB!TypeOK, NEW o \in CallbackOps, NEW from, NEW to, CB!OpGoto(o, from, to)
    PROVE  /\ Cardinality(cbBegun') =
                 Cardinality(cbBegun) + One(to = "begun") - One(from = "begun")
           /\ Cardinality(cbFinish') =
                 Cardinality(cbFinish) + One(to = "finish") - One(from = "finish")
           /\ to \in {"idle", "begun", "finish", "ended", "called"} =>
                 cbOp' \in [CallbackOps -> {"idle", "begun", "finish", "ended", "called"}]
<1>1. /\ cbOp[o] = from /\ cbOp' = [cbOp EXCEPT ![o] = to]
      /\ cbOp \in [CallbackOps -> {"idle", "begun", "finish", "ended", "called"}]
  BY DEF CB!OpGoto, CB!TypeOK
<1>2. cbOp'[o] = to /\ \A p \in CallbackOps : p # o => cbOp'[p] = cbOp[p]
  BY <1>1
<1>3. /\ cbBegun' = IF to = "begun" THEN cbBegun \cup {o} ELSE cbBegun \ {o}
      /\ cbFinish' = IF to = "finish" THEN cbFinish \cup {o} ELSE cbFinish \ {o}
  BY <1>2 DEF cbBegun, cbFinish
<1>4. /\ cbBegun \in SUBSET CallbackOps /\ (o \in cbBegun <=> from = "begun")
      /\ cbFinish \in SUBSET CallbackOps /\ (o \in cbFinish <=> from = "finish")
  BY <1>1 DEF cbBegun, cbFinish
<1>5. /\ Cardinality(cbBegun \cup {o}) = Cardinality(cbBegun) + 1 - One(o \in cbBegun)
      /\ Cardinality(cbBegun \ {o}) = Cardinality(cbBegun) - One(o \in cbBegun)
      /\ Cardinality(cbFinish \cup {o}) = Cardinality(cbFinish) + 1 - One(o \in cbFinish)
      /\ Cardinality(cbFinish \ {o}) = Cardinality(cbFinish) - One(o \in cbFinish)
  BY <1>4, Moves, CbConstants
<1>6. Cardinality(cbBegun') = Cardinality(cbBegun) + One(to = "begun") - One(from = "begun")
  BY <1>3, <1>4, <1>5, CbNumbers DEF One
<1>7. Cardinality(cbFinish') = Cardinality(cbFinish) + One(to = "finish") - One(from = "finish")
  BY <1>3, <1>4, <1>5, CbNumbers DEF One
<1> QED BY <1>1, <1>6, <1>7

\* The parts of the type that are numbers.
LEMMA CbTypes ==
    ASSUME CbFinishes', CbCounted',
           cbShutdownCalled' \in BOOLEAN, cbShutdownDone' \in 0 .. 1,
           cbOp' \in [CallbackOps -> {"idle", "begun", "finish", "ended", "called"}],
           cbCloser' \in {"idle", "finish", "finished", "out"},
           cbCallback' \in {"none", "scheduled", "twice", "ran"}
    PROVE  CbInv'
<1>1. cbPending' \in 0 .. Cardinality(CallbackOps) + 1
  <2>1. Cardinality(cbBegun') \in Nat /\ Cardinality(cbBegun') <= Cardinality(CallbackOps)
    <3>1. cbBegun' \in SUBSET CallbackOps
      BY DEF cbBegun
    <3> QED BY <3>1, Finite, CbConstants
  <2>2. cbPending' = Cardinality(cbBegun') + One(~cbShutdownCalled')
    BY DEF CbCounted
  <2> QED BY <2>1, <2>2, CbConstants DEF One
<1>2. cbRefs' \in Nat
  BY DEF CbCounted, One
<1> QED BY <1>1, <1>2, CbCardinality DEF CbInv, CB!TypeOK

LEMMA CbInitInv == CB!Init => CbInv
<1> SUFFICES ASSUME CB!Init PROVE CbInv
  OBVIOUS
<1>1. cbBegun = {} /\ cbFinish = {}
  BY DEF CB!Init, cbBegun, cbFinish
<1>2. Cardinality(cbBegun) = 0 /\ Cardinality(cbFinish) = 0
  BY <1>1, CbNumbers
<1>3. CbFinishes /\ CbCounted
  BY <1>2 DEF CB!Init, CbFinishes, CbCounted, One
<1>4. CB!TypeOK
  <2>1. cbPending \in 0 .. CB!Cardinality(CallbackOps) + 1
    BY CbNumbers, CbCardinality DEF CB!Init
  <2>2. /\ cbOp \in [CallbackOps -> {"idle", "begun", "finish", "ended", "called"}]
        /\ cbShutdownDone \in 0 .. 1 /\ cbRefs \in Nat
    BY DEF CB!Init
  <2>3. /\ cbShutdownCalled \in BOOLEAN /\ cbCloser \in {"idle", "finish", "finished", "out"}
        /\ cbCallback \in {"none", "scheduled", "twice", "ran"}
    BY Zenon DEF CB!Init
  <2> QED BY <2>1, <2>2, <2>3 DEF CB!TypeOK
<1> QED BY <1>3, <1>4 DEF CbInv

LEMMA CbNextInv == CbInv /\ [CB!Next]_cbVars => CbInv'
<1> SUFFICES ASSUME CbInv, [CB!Next]_cbVars PROVE CbInv'
  OBVIOUS
<1> DEFINE b == Cardinality(cbBegun)
           f == Cardinality(cbFinish)
<1>1. /\ b \in Nat /\ f \in Nat /\ (b = 0 <=> cbBegun = {})
      /\ cbPending = b + One(~cbShutdownCalled)
      /\ f + One(cbCloser = "finish") + One(cbCallback # "none")
           = One(cbShutdownCalled /\ b = 0)
      /\ cbShutdownDone > 0 => cbCallback # "none"
      /\ cbShutdownCalled <=> cbCloser # "idle"
      /\ cbCallback # "twice"
      /\ cbRefs = One(cbCallback # "ran") + One(cbCloser \in {"finish", "finished"})
                    + One(cbCallback = "none" \/ cbShutdownDone > 0)
  <2>1. (cbBegun = {}) = (b = 0)
    BY CbNumbers
  <2> QED BY <2>1, CbNumbers DEF CbInv, CbFinishes, CbCounted
<1>2. b' \in Nat /\ (b' = 0 <=> cbBegun' = {})
  <2>1. cbBegun' \in SUBSET CallbackOps
    BY DEF cbBegun
  <2> QED BY <2>1, Finite, CbConstants
<1>3. /\ cbOp \in [CallbackOps -> {"idle", "begun", "finish", "ended", "called"}]
      /\ cbShutdownCalled \in BOOLEAN /\ cbShutdownDone \in 0 .. 1
      /\ cbCloser \in {"idle", "finish", "finished", "out"}
      /\ cbCallback \in {"none", "scheduled", "twice", "ran"}
  BY DEF CbInv, CB!TypeOK
\* It is enough to account for the new state in numbers.
<1>4. ASSUME /\ cbCallback' # "twice"
             /\ f' + One(cbCloser' = "finish") + One(cbCallback' # "none")
                  = One(cbShutdownCalled' /\ b' = 0)
             /\ cbShutdownDone' > 0 => cbCallback' # "none",
             /\ cbShutdownCalled' <=> cbCloser' # "idle"
             /\ cbPending' = b' + One(~cbShutdownCalled'),
             cbRefs' = One(cbCallback' # "ran") + One(cbCloser' \in {"finish", "finished"})
                          + One(cbCallback' = "none" \/ cbShutdownDone' > 0),
             cbShutdownCalled' \in BOOLEAN, cbShutdownDone' \in 0 .. 1,
             cbOp' \in [CallbackOps -> {"idle", "begun", "finish", "ended", "called"}],
             cbCloser' \in {"idle", "finish", "finished", "out"},
             cbCallback' \in {"none", "scheduled", "twice", "ran"}
      PROVE  CbInv'
  <2>1. (cbBegun' = {}) = (b' = 0)
    BY <1>2
  <2>2. CbFinishes'
    BY <1>4, <2>1 DEF CbFinishes
  <2>3. CbCounted'
    BY <1>4 DEF CbCounted
  <2> QED BY <1>4, <2>2, <2>3, CbTypes
<1> HIDE DEF b, f
<1>5. ASSUME UNCHANGED cbOp PROVE b' = b /\ f' = f
  BY <1>5 DEF b, f, cbBegun, cbFinish
<1>6. ASSUME NEW o \in CallbackOps, NEW from, NEW to, CB!OpGoto(o, from, to)
      PROVE  /\ b' = b + One(to = "begun") - One(from = "begun")
             /\ f' = f + One(to = "finish") - One(from = "finish")
             /\ to \in {"idle", "begun", "finish", "ended", "called"} =>
                   cbOp' \in [CallbackOps -> {"idle", "begun", "finish", "ended", "called"}]
  BY <1>6, CbOpMoves DEF b, f, CbInv
<1>7. CASE UNCHANGED cbVars
  BY <1>1, <1>3, <1>4, <1>5, <1>7 DEF cbVars
<1>8. ASSUME NEW o \in CallbackOps, CB!BeginOp(o) PROVE CbInv'
  <2>1. /\ ~cbShutdownCalled /\ CB!OpGoto(o, "idle", "begun") /\ cbPending' = cbPending + 1
        /\ UNCHANGED <<cbShutdownCalled, cbCloser, cbCallback, cbShutdownDone, cbRefs>>
    BY <1>8 DEF CB!BeginOp
  <2>2. /\ b' = b + One("begun" = "begun") - One("idle" = "begun")
        /\ f' = f + One("begun" = "finish") - One("idle" = "finish")
        /\ cbOp' \in [CallbackOps -> {"idle", "begun", "finish", "ended", "called"}]
    BY <1>6, <2>1
  <2>3. b' = b + 1 /\ f' = f
    BY <1>1, <2>2 DEF One
  <2> QED BY <1>1, <1>3, <1>4, <2>1, <2>2, <2>3 DEF One
<1>9. ASSUME NEW o \in CallbackOps, CB!EndOp(o) PROVE CbInv'
  <2> DEFINE to == IF cbPending = 1 THEN "finish" ELSE "ended"
  <2>1. /\ CB!OpGoto(o, "begun", to) /\ cbPending' = cbPending - 1
        /\ UNCHANGED <<cbShutdownCalled, cbCloser, cbCallback, cbShutdownDone, cbRefs>>
    BY <1>9 DEF CB!EndOp
  <2>2. /\ b' = b + One(to = "begun") - One("begun" = "begun")
        /\ f' = f + One(to = "finish") - One("begun" = "finish")
        /\ cbOp' \in [CallbackOps -> {"idle", "begun", "finish", "ended", "called"}]
    BY <1>6, <2>1
  <2>3. b' = b - 1 /\ f' = f + One(cbPending = 1)
    BY <1>1, <2>2 DEF One
  <2> HIDE DEF to
  <2>4. b >= 1 /\ cbPending' = b' + One(~cbShutdownCalled')
    BY <1>1, <1>2, <2>1, <2>3 DEF One
  <2>5. f' + One(cbCloser' = "finish") + One(cbCallback' # "none")
           = One(cbShutdownCalled' /\ b' = 0)
    BY <1>1, <1>2, <2>1, <2>3, <2>4 DEF One
  <2> QED BY <1>1, <1>3, <1>4, <2>1, <2>2, <2>4, <2>5
<1>10. ASSUME NEW o \in CallbackOps, CB!EndOpFinishes(o) PROVE CbInv'
  <2>1. /\ CB!OpGoto(o, "finish", "ended") /\ cbShutdownDone' = cbShutdownDone + 1
        /\ cbCallback' = IF cbCallback = "none" THEN "scheduled" ELSE "twice"
        /\ UNCHANGED <<cbPending, cbShutdownCalled, cbCloser, cbRefs>>
    BY <1>10 DEF CB!EndOpFinishes, CB!FinishShutdown
  <2>2. /\ b' = b + One("ended" = "begun") - One("finish" = "begun")
        /\ f' = f + One("ended" = "finish") - One("finish" = "finish")
        /\ cbOp' \in [CallbackOps -> {"idle", "begun", "finish", "ended", "called"}]
    BY <1>6, <2>1
  <2>3. b' = b /\ f' = f - 1
    BY <1>1, <2>2 DEF One
  <2>4. f' \in Nat
    <3>1. cbFinish' \in SUBSET CallbackOps
      BY DEF cbFinish
    <3> QED BY <3>1, Finite, CbConstants DEF f
  <2>5. cbCallback = "none" /\ cbShutdownDone = 0
    BY <1>1, <1>3, <2>3, <2>4 DEF One
  <2> QED BY <1>1, <1>3, <1>4, <2>1, <2>2, <2>3, <2>5 DEF One
<1>11. ASSUME NEW o \in CallbackOps, CB!OpCallback(o) PROVE CbInv'
  <2>1. /\ CB!OpGoto(o, "ended", "called") /\ UNCHANGED <<cbPending, cbShutdownCalled>>
        /\ UNCHANGED <<cbCloser, cbCallback, cbShutdownDone, cbRefs>>
    BY <1>11 DEF CB!OpCallback
  <2>2. /\ b' = b + One("called" = "begun") - One("ended" = "begun")
        /\ f' = f + One("called" = "finish") - One("ended" = "finish")
        /\ cbOp' \in [CallbackOps -> {"idle", "begun", "finish", "ended", "called"}]
    BY <1>6, <2>1
  <2>3. b' = b /\ f' = f
    BY <1>1, <2>2 DEF One
  <2> QED BY <1>1, <1>3, <1>4, <2>1, <2>2, <2>3
<1>12. CASE CB!Shutdown
  <2>1. /\ cbCloser = "idle" /\ cbShutdownCalled' = TRUE /\ cbPending' = cbPending - 1
        /\ cbRefs' = cbRefs + 1
        /\ cbCloser' = IF cbPending = 1 THEN "finish" ELSE "finished"
        /\ UNCHANGED <<cbOp, cbCallback, cbShutdownDone>>
    BY <1>12 DEF CB!Shutdown
  <2>2. b' = b /\ f' = f /\ ~cbShutdownCalled /\ cbPending = b + 1
    BY <1>1, <1>5, <2>1 DEF One
  <2>3. f' + One(cbCloser' = "finish") + One(cbCallback' # "none")
           = One(cbShutdownCalled' /\ b' = 0)
    BY <1>1, <2>1, <2>2 DEF One
  <2>4. cbRefs' = One(cbCallback' # "ran") + One(cbCloser' \in {"finish", "finished"})
                     + One(cbCallback' = "none" \/ cbShutdownDone' > 0)
    BY <1>1, <2>1 DEF One
  <2>5. cbPending' = b' + One(~cbShutdownCalled')
    BY <1>1, <2>1, <2>2 DEF One
  <2> QED BY <1>1, <1>3, <1>4, <2>1, <2>3, <2>4, <2>5
<1>13. CASE CB!ShutdownFinishes
  <2>1. /\ cbCloser = "finish" /\ cbCloser' = "finished"
        /\ cbShutdownDone' = cbShutdownDone + 1
        /\ cbCallback' = IF cbCallback = "none" THEN "scheduled" ELSE "twice"
        /\ UNCHANGED <<cbPending, cbShutdownCalled, cbOp, cbRefs>>
    BY <1>13 DEF CB!ShutdownFinishes, CB!FinishShutdown
  <2>2. b' = b /\ f' = f
    BY <1>5, <2>1
  <2>3. cbCallback = "none" /\ cbShutdownDone = 0
    BY <1>1, <1>3, <2>1 DEF One
  <2> QED BY <1>1, <1>3, <1>4, <2>1, <2>2, <2>3 DEF One
<1>14. CASE CB!ShutdownReturns
  <2>1. /\ cbCloser = "finished" /\ cbCloser' = "out" /\ cbRefs' = cbRefs - 1
        /\ UNCHANGED <<cbPending, cbShutdownCalled, cbOp, cbCallback, cbShutdownDone>>
    BY <1>14 DEF CB!ShutdownReturns
  <2>2. b' = b /\ f' = f
    BY <1>5, <2>1
  <2> QED BY <1>1, <1>3, <1>4, <2>1, <2>2 DEF One
<1>15. CASE CB!PollsetShutdownDone
  <2>1. /\ cbShutdownDone > 0 /\ cbShutdownDone' = cbShutdownDone - 1
        /\ cbRefs' = cbRefs - 1
        /\ UNCHANGED <<cbPending, cbShutdownCalled, cbOp, cbCloser, cbCallback>>
    BY <1>15 DEF CB!PollsetShutdownDone
  <2>2. b' = b /\ f' = f /\ cbShutdownDone = 1 /\ cbCallback # "none"
    BY <1>1, <1>3, <1>5, <2>1
  <2> QED BY <1>1, <1>3, <1>4, <2>1, <2>2 DEF One
<1>16. CASE CB!CallbackDestroys
  <2>1. /\ cbCallback = "scheduled" /\ cbCallback' = "ran" /\ cbRefs' = cbRefs - 1
        /\ UNCHANGED <<cbPending, cbShutdownCalled, cbOp, cbCloser, cbShutdownDone>>
    BY <1>16 DEF CB!CallbackDestroys
  <2>2. b' = b /\ f' = f
    BY <1>5, <2>1
  <2> QED BY <1>1, <1>3, <1>4, <2>1, <2>2 DEF One
<1> QED BY <1>7, <1>8, <1>9, <1>10, <1>11, <1>12, <1>13, <1>14, <1>15, <1>16
        DEF CB!Next, CB!OpStep, CB!CloserStep

LEMMA CbInvGives == CbInv => CB!TypeOK /\ CB!FinishOnce /\ CB!FreedWhenUnused
<1> SUFFICES ASSUME CbInv PROVE CB!TypeOK /\ CB!FinishOnce /\ CB!FreedWhenUnused
  OBVIOUS
<1>1. /\ CB!In({"begun"}) = cbBegun /\ CB!In({"finish"}) = cbFinish
      /\ CB!In({"begun", "finish"}) = cbBegun \cup cbFinish
  BY DEF CB!In, cbBegun, cbFinish
<1>2. CB!FinishOnce
  BY <1>1, CbCardinality DEF CB!FinishOnce, CbInv, CbFinishes, One
<1>3. CB!FreedWhenUnused
  <2> SUFFICES ASSUME cbRefs = 0
               PROVE  /\ cbBegun \cup cbFinish = {}
                      /\ cbCloser = "out" /\ cbCallback = "ran" /\ cbShutdownDone = 0
    BY <1>1 DEF CB!FreedWhenUnused
  <2>1. /\ cbCallback = "ran" /\ cbCloser \notin {"finish", "finished"}
        /\ ~(cbShutdownDone > 0)
    BY DEF CbInv, CbCounted, One
  <2>2. Cardinality(cbFinish) = 0 /\ cbShutdownCalled /\ cbBegun = {}
    BY <2>1, CbNumbers DEF CbInv, CbFinishes, One
  <2> QED BY <2>1, <2>2, CbNumbers DEF CbInv, CbCounted, CB!TypeOK
<1> QED BY <1>2, <1>3 DEF CbInv

-----------------------------------------------------------------------------
(* The three kinds of queue                                                *)

AllInv ==
    /\ part \in {"next", "pluck", "callback"}
    /\ Inv /\ PKP!Inv /\ CbInv

\* Every behaviour of the three kinds of queue keeps their invariants.
THEOREM AllInvariance == AllSpec => []AllInv
<1>1. PKP!PluckQueueConstants
  BY QueuesAssumption, SamePluckQueue
<1>2. AllInit => AllInv
  <2> SUFFICES ASSUME AllInit PROVE AllInv
    OBVIOUS
  <2>1. Inv /\ CbInv
    BY InitInv, CbInitInv DEF AllInit
  <2>2. PKP!Inv
    BY <1>1, SamePluckQueue, PKP!InitInv DEF AllInit
  <2> QED BY <2>1, <2>2 DEF AllInit, AllInv
<1>3. AllInv /\ [AllNext]_<<part, vars, pkVars, cbVars>> => AllInv'
  <2> SUFFICES ASSUME AllInv, [AllNext]_<<part, vars, pkVars, cbVars>> PROVE AllInv'
    OBVIOUS
  <2>1. UNCHANGED part
    BY DEF AllNext
  <2>2. [Next]_vars
    BY DEF AllNext
  <2>3. [CB!Next]_cbVars
    BY DEF AllNext
  <2>4. [PKP!Next]_(PKP!vars)
    <3>1. PK!Next \/ UNCHANGED pkVars
      BY DEF AllNext
    <3> QED BY <3>1, SamePluckQueue
  <2>5. Inv'
    BY <2>2, NextInv DEF AllInv
  <2>6. CbInv'
    BY <2>3, CbNextInv DEF AllInv
  <2>7. PKP!Inv'
    BY <1>1, <2>4, PKP!NextInv DEF AllInv
  <2> QED BY <2>1, <2>5, <2>6, <2>7 DEF AllInv
<1> QED BY <1>2, <1>3, PTL DEF AllSpec

\* What the invariants say about the three queues.
LEMMA AllInvGives ==
    ASSUME AllInv
    PROVE  /\ TypesOK /\ FinishedOnce /\ FreedWhenLeft /\ NoSleeperForgotten
           /\ NothingAfterShutdown
<1>1. TypeOK /\ CountersAccount /\ FinishOnce /\ FreedWhenUnused /\ NoLostWakeup
  BY InvFreed, InvWakeups DEF AllInv, Inv
<1>2. PKP!TypeOK /\ PKP!SleeperKicked /\ PKP!NothingAfterShutdown /\ PKP!FreedWhenUnused
  BY QueuesAssumption, SamePluckQueue, PKP!InvGives DEF AllInv
<1>3. PK!TypeOK /\ PK!SleeperKicked /\ PK!NothingAfterShutdown /\ PK!FreedWhenUnused
  BY <1>2, SamePluckQueue
<1>4. CB!TypeOK /\ CB!FinishOnce /\ CB!FreedWhenUnused
  BY CbInvGives DEF AllInv
<1>5. part \in {"next", "pluck", "callback"}
  BY DEF AllInv
<1>6. TypesOK
  BY <1>1, <1>3, <1>4, <1>5 DEF TypesOK
<1>7. FreedWhenLeft
  BY <1>1, <1>3, <1>4, <1>5 DEF FreedWhenLeft
<1>8. FinishedOnce /\ NoSleeperForgotten /\ NothingAfterShutdown
  BY <1>1, <1>3, <1>4 DEF FinishedOnce, NoSleeperForgotten, NothingAfterShutdown
<1> QED BY <1>6, <1>7, <1>8

\* The fields of a completion queue of any kind keep their types, the lists of
\* the pluckers and of the workers hold the callers that wait, and the
\* counters of GRPC_CQ_NEXT account for its queue.
THEOREM QueuesKeepTypes == AllSpec => []TypesOK
<1>1. AllInv => TypesOK
  BY AllInvGives
<1> QED BY <1>1, AllInvariance, PTL

\* The shutdown of GRPC_CQ_NEXT and of GRPC_CQ_CALLBACK is finished by one
\* thread, once, when no operation is left, and the callback is scheduled.
THEOREM OneThreadFinishes == AllSpec => []FinishedOnce
<1>1. AllInv => FinishedOnce
  BY AllInvGives
<1> QED BY <1>1, AllInvariance, PTL

\* owning_refs of a queue of any kind reaches 0 when no thread will touch the
\* queue again, and not before.
THEOREM QueueOutlivesItsUsers == AllSpec => []FreedWhenLeft
<1>1. AllInv => FreedWhenLeft
  BY AllInvGives
<1> QED BY <1>1, AllInvariance, PTL

\* No caller of next or pluck waits on an event that is there for it without
\* a kick, or a thread that will give one, on its way.
THEOREM SleepersAreWoken == AllSpec => []NoSleeperForgotten
<1>1. AllInv => NoSleeperForgotten
  BY AllInvGives
<1> QED BY <1>1, AllInvariance, PTL

\* After cq_pluck has returned GRPC_QUEUE_SHUTDOWN no completion with its tag
\* is in the list, and none will be.
THEOREM ShutdownEndsPlucking == AllSpec => []NothingAfterShutdown
<1>1. AllInv => NothingAfterShutdown
  BY AllInvGives
<1> QED BY <1>1, AllInvariance, PTL
=============================================================================
