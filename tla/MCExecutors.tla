----------------------------- MODULE MCExecutors -------------------------------
(***************************************************************************)
(* What executes work in gRPC, for TLC: the three serial executors of      *)
(* src/core/lib/iomgr, WorkSerializer, CallCombiner and Combiner, and the  *)
(* two pools of threads, Executor and ThreadManager.  They share no state: *)
(* a behaviour lets one of them move and leaves the others in their        *)
(* initial states.                                                         *)
(***************************************************************************)
EXTENDS WorkSerializer

CONSTANTS
    CombinerThreads,
    Executors,          \* those of them that belong to the executor
    Workers,            \* the WorkerThread objects of ThreadManager
    min_pollers_, max_pollers_, max_threads, MaxBacklog,
    Callers, max_threads_, MAX_DEPTH, MaxClosures, LongJobs, Closer

VARIABLES
    part,               \* the one that moves
    ccSize, ccQueue, ccPushing, ccPc, ccPopping, ccAhead,
    coState, coInitiating, coQueue, coPushing, coFinal, coTime, coHolder,
    coOffloaded, coFreed, coPc, coBy, coFinally, coEx, coCur, coBatch, coAhead,
    exNumThreads, exElems, exDepth, exShutdown, exLong, exAdding, exPc, exSubtract,
    exBatch, exInlined, exEnqueue, exScheduled, exRan, exOwner, exSlot,
    tmShutdown, tmNumPollers, tmNumThreads, tmMax, tmCompleted, tmRqThreads,
    tmRuThreads, tmRu, tmRuLeft, tmEvents, tmCqShutdown, tmPc, tmJoining, tmOwner, tmToStart

\* The closures of CallCombiner and of Combiner are called as the callbacks of
\* WorkSerializer.
CC == INSTANCE CallCombiner WITH
    Closures <- Callbacks, size <- ccSize, queue <- ccQueue, pushing <- ccPushing, pc <- ccPc,
    popping <- ccPopping, ahead <- ccAhead

CO == INSTANCE Combiner WITH
    Threads <- CombinerThreads, Closures <- Callbacks,
    state <- coState, initiating <- coInitiating, queue <- coQueue,
    pushing <- coPushing, final_list <- coFinal,
    time_to_execute_final_list <- coTime, holder <- coHolder,
    offloaded <- coOffloaded, freed <- coFreed, pc <- coPc, by <- coBy,
    finally <- coFinally, ex <- coEx, cur <- coCur, batch <- coBatch,
    ahead <- coAhead

EX == INSTANCE Executor WITH
    Owner <- Closer, None <- Null,
    num_threads_ <- exNumThreads, elems <- exElems, depth <- exDepth,
    shutdown <- exShutdown, queued_long_job <- exLong, adding <- exAdding,
    pc <- exPc, subtract <- exSubtract, batch <- exBatch, inlined <- exInlined,
    enqueue <- exEnqueue, scheduled <- exScheduled, ran <- exRan,
    owner <- exOwner, slot <- exSlot

TM == INSTANCE ThreadManager WITH
    Threads <- Workers,
    shutdown_ <- tmShutdown, num_pollers_ <- tmNumPollers,
    num_threads_ <- tmNumThreads, max_active_threads_sofar_ <- tmMax,
    completed_threads_ <- tmCompleted, rqThreads <- tmRqThreads,
    ruThreads <- tmRuThreads, ru <- tmRu, ruLeft <- tmRuLeft,
    events <- tmEvents,
    cqShutdown <- tmCqShutdown, pc <- tmPc, joining <- tmJoining,
    owner <- tmOwner, toStart <- tmToStart

ASSUME ExecutorsAssumption ==
    CO!CombinerConstants /\ EX!ExecutorConstants /\ TM!ThreadManagerConstants

ccVars == <<ccSize, ccQueue, ccPushing, ccPc, ccPopping, ccAhead>>
coVars == <<coState, coInitiating, coQueue, coPushing, coFinal, coTime, coHolder,
            coOffloaded, coFreed, coPc, coBy, coFinally, coEx, coCur, coBatch, coAhead>>
exVars == <<exNumThreads, exElems, exDepth, exShutdown, exLong, exAdding, exPc,
            exSubtract, exBatch, exInlined, exEnqueue, exScheduled, exRan, exOwner, exSlot>>
tmVars == <<tmShutdown, tmNumPollers, tmNumThreads, tmMax, tmCompleted, tmRqThreads,
            tmRuThreads, tmRu, tmRuLeft, tmEvents, tmCqShutdown, tmPc, tmJoining, tmOwner, tmToStart>>
allVars == <<part, vars, ccVars, coVars, exVars, tmVars>>

AllInit ==
    /\ Init /\ CC!Init /\ CO!Init /\ EX!Init /\ TM!Init
    /\ part \in {"WorkSerializer", "CallCombiner", "Combiner", "Executor", "ThreadManager"}

AllNext ==
    /\ \/ part = "WorkSerializer" /\ Next /\ UNCHANGED <<ccVars, coVars, exVars, tmVars>>
       \/ part = "CallCombiner" /\ CC!Next /\ UNCHANGED <<vars, coVars, exVars, tmVars>>
       \/ part = "Combiner" /\ CO!Next /\ UNCHANGED <<vars, ccVars, exVars, tmVars>>
       \/ part = "Executor" /\ EX!Next /\ UNCHANGED <<vars, ccVars, coVars, tmVars>>
       \/ part = "ThreadManager" /\ TM!Next /\ UNCHANGED <<vars, ccVars, coVars, exVars>>
    /\ UNCHANGED part

\* The fairness of the modules, each for the behaviours in which it moves.
AllSpec ==
    /\ AllInit /\ [][AllNext]_allVars
    /\ \A t \in Threads : WF_vars(part = "WorkSerializer" /\ ThreadStep(t))
    /\ \A k \in Callbacks : WF_coVars(part = "Combiner" /\ CO!Push(k))
    /\ \A t \in CombinerThreads : WF_coVars(part = "Combiner" /\ CO!Continue(t))
    /\ WF_exVars(part = "Executor" /\ EX!Shutdown)
    /\ \A x \in EX!Actors : WF_exVars(part = "Executor" /\ EX!Step(x))
    /\ \A t \in Workers : WF_tmVars(part = "ThreadManager" /\ TM!Worker(t))
    /\ WF_tmVars(part = "ThreadManager" /\ TM!Initialize)
    /\ WF_tmVars(part = "ThreadManager" /\ TM!Stop)

-----------------------------------------------------------------------------
(* Properties, where they are not those of WorkSerializer                  *)

\* The variables of the executors keep their types.
TypesOK == TypeOK /\ CC!TypeOK /\ CO!TypeOK /\ EX!TypeOK

\* CallCombiner: when nobody holds it or passes it on, nobody waits for it.
\* Combiner: while anything is counted in its word exactly one party has it,
\* and it is freed when nothing is left.
HandedOver == CC!NobodyStranded /\ CO!OneParty

\* Executor: no thread waits for a signal while its list holds a closure or the
\* executor is being shut down.
NobodySleepsOnWork == EX!NobodySleepsOnWork

\* ThreadManager: the counters say how many threads poll and how many there are.
\* Executor: the depth of a thread counts what is in its list and what it has
\* taken from there.
CountersExact == TM!CountersExact /\ EX!DepthExact

\* ThreadManager: until the resource user is deleted it holds a part of the quota
\* for each thread that runs or is about to.
QuotaCovers == TM!QuotaCoversThreads

\* ThreadManager: when the destructor returns, every worker has been joined; the
\* resource user is not deleted before it has given back all it holds.
DestroyedClean == TM!DestroyedClean

\* The phases of the items of the executor that moves, and what is ahead of them.
\* The pools promise no order.
phases ==
    CASE part = "WorkSerializer" -> [k \in Callbacks |-> Phase(k)]
      [] part = "CallCombiner" -> [k \in Callbacks |-> CC!Phase(k)]
      [] part = "Combiner" -> [k \in Callbacks |-> CO!Phase(k)]
      [] OTHER -> [k \in Callbacks |-> "idle"]
aheads ==
    CASE part = "WorkSerializer" -> ahead
      [] part = "CallCombiner" -> ccAhead
      [] OTHER -> coAhead
Promise == INSTANCE SerialExecutor WITH
    Work <- Callbacks, phase <- phases, ahead <- aheads

\* Each serializer implements SerialExecutor: one item at a time, each once,
\* and none overtakes one whose call had returned.
SerializersSpec == Promise!Spec

\* Combiner: the final list is executed when nothing else is left to do.
FinalIsLast == CO!FinalIsLast

\* Each closure is executed, also when its call raced a thread that was leaving,
\* when the combiner was handed to the executor, and when the executor was shut
\* down.
Queued(k) == IF part = "WorkSerializer" THEN k \in Range(queue) ELSE coPc[k] = "queued"
ClosuresRun == EX!ClosuresRun /\ \A k \in Callbacks : []<>~Queued(k)

\* ThreadManager: unless it is shut down, polling never stops for good.
PollingGoesOn == part = "ThreadManager" => TM!PollingGoesOn

\* ThreadManager: a shutdown ends with the destructor finished and the resource
\* user deleted, or with the process aborted.
ShutdownCompletes == TM!ShutdownCompletes
=============================================================================
