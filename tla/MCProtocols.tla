----------------------------- MODULE MCProtocols -----------------------------
(***************************************************************************)
(* Five small protocols for TLC: three on one atomic word, the client idle *)
(* filter, the cancellation of a call and the lock-free event; the channel *)
(* to the aggregation server, with two clients that have keys of their own *)
(* and a signal that another thread executes; and the stub that sends      *)
(* calls there, in two processes that share its one key.  They share no    *)
(* state: a behaviour lets one of them move and leaves the others in their *)
(* initial states.                                                         *)
(***************************************************************************)
EXTENDS IdleFilter, TLC

CONSTANTS
    RaceThreads, RaceClosures,      \* of CancelState and LockfreeEvent
    CancelErrors, ShutdownErrors,
    Objects, Key, Callers, Object,  \* of InciComm
    Server, KillKey, Signals, MaxRequests, MaxCrashes,
    StubProcesses, StubValues,      \* of InciStub
    StubKeys, StubSize, QueryLimit,
    Null,
    o1, o2, t1, t2, k1, k2          \* model values

VARIABLES
    part,               \* the one that moves
    caState, caAt, caArg, caSeen, caOutcome,
    leState, leOp, leAt, leSeen, leOutcome, leTwice, leUnseen, leDestroyed,
    mq, shm, obj, mem, rq, icPc, req, pulled, server, handlers, kill, killer, crashes,
    segment, stub, stPc, stCall, process

CA == INSTANCE CancelState WITH
    Threads <- RaceThreads, Watchers <- RaceClosures, Errors <- CancelErrors,
    cancel_state <- caState, at <- caAt, arg <- caArg, seen <- caSeen,
    outcome <- caOutcome

LE == INSTANCE LockfreeEvent WITH
    Threads <- RaceThreads, Closures <- RaceClosures, Errors <- ShutdownErrors,
    state <- leState, op <- leOp, at <- leAt, seen <- leSeen,
    outcome <- leOutcome, twice <- leTwice, unseen <- leUnseen,
    destroyed <- leDestroyed

IC == INSTANCE InciComm WITH None <- Null, pc <- icPc

\* Two clients, each with a key and a thread of its own.
TwoKeys == o1 :> k1 @@ o2 :> k2
TwoObjects == t1 :> o1 @@ t2 :> o2

ST == INSTANCE InciStub WITH
    Stubs <- StubProcesses, Values <- StubValues, MapKeys <- StubKeys,
    MaxSize <- StubSize, None <- Null, pc <- stPc, call <- stCall

ASSUME ProtocolsAssumption ==
    /\ CA!CancelStateConstants
    /\ IC!InciCommConstants /\ IC!OneCallerPerKey
    /\ ST!InciStubConstants

caVars == <<caState, caAt, caArg, caSeen, caOutcome>>
leVars == <<leState, leOp, leAt, leSeen, leOutcome, leTwice, leUnseen, leDestroyed>>
icVars == <<mq, shm, obj, mem, rq, icPc, req, pulled, server, handlers, kill, killer, crashes>>
stVars == <<segment, stub, stPc, stCall, process>>
allVars == <<part, vars, caVars, leVars, icVars, stVars>>

AllInit ==
    /\ Init /\ CA!Init /\ LE!Init /\ IC!Init /\ ST!Init
    /\ part \in {"IdleFilter", "CancelState", "LockfreeEvent", "InciComm", "InciStub"}

AllNext ==
    /\ \/ part = "IdleFilter" /\ Next /\ UNCHANGED <<caVars, leVars, icVars, stVars>>
       \/ part = "CancelState" /\ CA!Next /\ UNCHANGED <<vars, leVars, icVars, stVars>>
       \/ part = "LockfreeEvent" /\ LE!Next /\ UNCHANGED <<vars, caVars, icVars, stVars>>
       \/ part = "InciComm" /\ IC!Next /\ UNCHANGED <<vars, caVars, leVars, stVars>>
       \/ part = "InciStub" /\ ST!Next /\ UNCHANGED <<vars, caVars, leVars, icVars>>
    /\ UNCHANGED part

\* The fairness of InciComm.
IpcFairness ==
    /\ WF_icVars(IC!ServeTest) /\ WF_icVars(IC!ServeRecv) /\ WF_icVars(IC!ServerExit)
    /\ WF_icVars(IC!Handler)
    /\ \A t \in Callers : WF_icVars(IC!PushPull(t))

\* What the idle filter and the channel assume of their threads; the others
\* have safety properties only.
AllSpec == AllInit /\ [][AllNext]_allVars /\ Fairness /\ IpcFairness

-----------------------------------------------------------------------------
(* Properties, where they are not those of IdleFilter                      *)

\* The variables of the first four keep their types.
TypesOK == TypeOK /\ CA!TypeOK /\ LE!TypeOK /\ IC!TypeOK

\* CallCombiner: a closure registered with SetNotifyOnCancel is scheduled
\* exactly once, and with the first error if the call is cancelled.
ScheduledOnce == CA!ScheduledOnce

\* LockfreeEvent: a closure given to NotifyOn is scheduled exactly once.
NotifiedOnce == LE!NotifiedOnce

\* LockfreeEvent: no SetReady is lost on a race with NotifyOn, with another
\* SetReady or with a reuse of the event.
NoLostEvent == LE!NoLostEvent

\* InciComm: what PushPull hands back is the caller's own data, processed.
PulledIsProcessed == IC!PulledIsProcessed

\* InciComm: the callback of the server never works on a segment while the
\* client copies data in or out of it.
NoOverlap == IC!NoOverlap

\* InciStub: a call that the server has answered hands back its own request,
\* each value served once, whatever the segment held before.
AnswersOwnRequest == ST!AnswersOwnRequest

\* InciComm: every PushPull that waits gets its reply, unless the server is
\* stopped or dies.
PushPullReturns == IC!PushPullReturns

\* InciComm: a signal that another thread executes ends the server.
SignalStopsServer == IC!SignalStopsServer
=============================================================================
