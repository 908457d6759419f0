# TLA+ models of the gRPC core and of inci_lib

The repository is gRPC (C core, C++ and the other languages) with an addition of
its own, `inci_lib`: blocking unary calls can hand the arrays of their messages
to an aggregation server on the same host over System V queues and shared memory.
This directory models the parts of both whose correctness depends on the order in
which threads and processes take their steps, checks them with TLC on small
instances, and proves with TLAPS the invariants of most of them for instances of any
size (section 5). Line numbers refer to the commit of `src/` beside it.

## 1. Inventory

| Component (source) | State | Operations | What is hard | What makes it correct |
|---|---|---|---|---|
| Multi-producer queue, locked variant (`core/lib/gprpp/mpscq`) | `head_`, `tail_`, `next` of each node, the stub, `mu_` | Push, Pop, TryPop, PopAndCheckEnd | a push is two memory accesses; the list is cut in between | no node lost or seen twice, FIFO, the destructor's assertions, Pop ends |
| WorkSerializer (`core/lib/iomgr/work_serializer`) | `size_`, queue | Run, DrainQueue, Orphan | the last fetch_sub of a drainer against the fetch_add of a newcomer; deleting itself | serial, FIFO, nothing stranded, no use after delete |
| CallCombiner (`core/lib/iomgr/call_combiner`) | `size_`, queue, `cancel_state_` | Start, Stop, SetNotifyOnCancel, Cancel | as above, without a drainer; two compare-and-swap loops on one word | one holder, nothing stranded, each registered closure is told exactly once |
| Combiner (`core/lib/iomgr/combiner`) | `state`, queue, final list, initiating ExecCtx | Run, FinallyRun, continue_exec_ctx, unref | handed to the executor from two places; a final list that must come last; freed by whoever leaves last | serial, one party has it, the final list is last, every closure is executed |
| LockfreeEvent (`core/lib/iomgr/lockfree_event`) | one word | NotifyOn, SetReady, SetShutdown, DestroyEvent, InitEvent | a failed compare-and-swap is taken as news; reuse from a free list | each closure is scheduled once, no event is lost |
| Executor (`core/lib/iomgr/executor`) | `num_threads_`, per thread a list, `depth`, `shutdown`, `queued_long_job` | Enqueue, ThreadMain, RunClosures, SetThreading | a signal only on an empty list; a pool that grows under another lock than the one the decision was made under; closures that schedule closures while the pool is shut down | no thread sleeps on work, every closure is executed, every thread is joined |
| Completion queue, next (`core/lib/surface/completion_queue`) | event queue, `num_items`, `pending_events`, poller, references | begin_op, end_op, next, shutdown, destroy, event cache | counters that lag behind the queue; a kick for the first item of a burst only; shutdown racing the last end_op | no lost wakeup, shutdown is last and happens once, freed when unused |
| Completion queue, pluck (same file) | list of completions, table of pluckers, poller, references | begin_op, end_op, pluck, shutdown, destroy | one kick for one of several sleepers; slots move; the table is small | the right sleeper is kicked, shutdown hides no event |
| Completion queue, callback (same file) | `pending_events`, `shutdown_called`, references | begin_op, end_op, shutdown | the shutdown callback may destroy the queue under a thread that is still in end_op | finished once, freed when unused |
| Server request matching (`core/lib/surface/server`) | request queues, pending RPCs, `mu_call_`, `mu_global_`, `shutdown_refs_`, shutdown flags | RequestCall, MatchOrQueue (three matchers), KillRequests, ZombifyPending, ShutdownAndNotify, MaybeFinishShutdown | requests are pushed without a lock; shutdown is read before it is acted on | each request and RPC ends in one place, no unmatched pair waits, shutdown clears and is published |
| Client idle filter (`core/ext/filters/client_idle`) | one word (count, timer, activity), the timer, its closure | call init and destroy, timer callback, disconnect | a decision and the action it leads to are apart | the timer has one owner, IDLE only after a full quiet cycle, and eventually |
| Retry throttle (`core/ext/filters/client_channel/retry_throttle`) | map of entries, tokens, chain of replacements | GetDataForServer, RecordFailure, RecordSuccess | a service config that changes while calls count on the old entry | throttling carries over to the new entry |
| C++ ThreadManager (`cpp/thread_manager`) with SyncRequestThreadManager | pollers, threads, completed threads, the thread quota | Initialize, MainWorkLoop, Shutdown, Wait, destructor | counters raised before a thread is created that may fail; threads that join each other; a quota that others use | counters exact, polling goes on, shutdown ends with everything joined and given back |
| inci_lib communication (`inci_lib/lib`) | message queues, segments, `kill` | CommClient, PushPull, CommServer, Serve, Handle, killServer | crashes leave kernel objects behind; a signal interrupts any thread | PushPull returns the caller's own processed data; no two sides in a segment; signals stop the server |
| InciStub (`inci_lib/trans`) | one client per channel, its operation and segment size | IncSend, initService, BlockingUnaryCall | one key for all channels, one segment for all calls, sizes kept from the first message | an answered call has the answer to its own request |

The parts call each other as follows. WorkSerializer, CallCombiner, Combiner, the
completion queue and the server keep their work in the multi-producer queue.
Client channels run their control code in a WorkSerializer and the batches of a
call under a CallCombiner; transports and quotas run theirs in a Combiner, which
off-loads to the Executor. Descriptors tell their readers and writers through
LockfreeEvents. The server hands events to completion queues, the C++ server polls
them with a ThreadManager, and blocking C++ calls pluck theirs. The idle filter
reports to the client channel. A blocking unary call goes through InciStub to
CommClient before (and after) the wire.

The `hazards` of `PROJECT.json` say, line by line, what can go wrong in this code
that a test would hardly reach, and which property watches it.

## 2. Plan

Done in this order: the queue and its abstraction; the serialisers on top of the
abstraction; the completion queues; the server's matchers; the idle filter; the
communication library and the stub on top of it; the lock-free event, the retry
throttle and the two pools of threads; proofs for the queue, the work serializer,
the idle filter, the cancel state and the event; proofs for the three completion
queues, the two matchers, the communication library and the stub; proofs for the
call combiner, the combiner, the executor and the thread manager, and the refinement
of `SerialExecutor`.

Next, in this order:

1. A proof for `RetryThrottle`: the tokens of an entry stay within its bounds, and the
   chain of replacements ends.
2. The kicks and the timed waiter of the timer manager.
3. The memory quota and its reclaimers on top of `Combiner`.
4. The connectivity state tracker on top of `WorkSerializer`, and the deadline and
   max-age filters.

A new run takes the place of a weaker one: the number of runs and of properties is
kept to what can be read and rerun in a sitting. Components that are independent of
each other share a run (section 4).

## 3. Modules

### FifoQueue, MpscqSpec, Mpscq

`FifoQueue` is what the lock-free queue promises: an item claims its place
(exchange of `head_`) and becomes visible later (store of `prev->next`); items
leave in the order of their claims, and nothing behind an item that is not yet
visible can be taken. `MpscqSpec` adds consumers: TryPop may fail at any time, Pop
only when the oldest item is not available.

`Mpscq` has one action per access to shared memory: `PushExchange`, `PushLink`
for producers, and for the owner of `mu_` the branches of PopAndCheckEnd
(`SkipStub`, `PopFirst`, `LastNode`, `StubExchange`, `StubLink`, `PopLast`, ...).
Nodes are pushed again after they were popped, so that stale pointers would show.
`fifo` and `stubAt` are ghosts. The refinement mapping takes `fifo` for the queue
and the nodes in the hands of producers for the ones still being pushed.

### SerialExecutor, WorkSerializer, CallCombiner, Combiner

`SerialExecutor` says: one item at a time, each scheduled item once, and none
before an item whose scheduling call had returned. The three serialisers implement
it (`SerialSpec`); all are built on `FifoQueue`.

`WorkSerializer`: `RunNow` and `RunLater` are the two outcomes of the fetch_add,
`PushClaim` and `PushLink` the push, `CallbackDone`, `DrainNext` (the fetch_sub and
its three branches) and `DrainPop` the drain loop; `Orphan` gives up the owner's
count. `RefHolders` are the callbacks that own a reference to the serializer, as
those of the client channel do: the owner cannot let go while one is queued. A
nested Run is a Run of another thread in the model.

`CallCombiner`: `StartNow`, `StartLater`, the push, `Stop`, and `StopPop` for the
loop in Stop.

`Combiner` has the word with the count and the unorphaned bit, the queue and the
final list. `Run` and `FinallyRun` are the calls, `TakeCombiner`, `LoadInitiator`,
`ClearInitiator` and the push the steps of combiner_exec; `Continue` is
grpc_combiner_continue_exec_ctx with the off-load when the combiner is contended or
Pop sees half a push (`QueueOffload`, `Offload`), a closure of the queue, the final
list, and `Finish`, whose fetch_sub leaves, goes on or frees the combiner. There is
one combiner, so the list of an ExecCtx holds it or does not; the executor is a slot
that holds the offload closure.

### CancelState, LockfreeEvent

Two protocols of compare-and-swap loops on one word, a step for the load and one
for the compare-and-swap. In `CancelState`, SetNotifyOnCancel and Cancel race on
`cancel_state_`; `outcome` records what each registered closure was told. In
`LockfreeEvent`, NotifyOn, SetReady, SetShutdown and DestroyEvent race on `state_`,
and InitEvent takes the event from the free list again while a late SetReady may
still be at work; `unseen` is a history variable for an event nobody was told of.
What the users of the event rule out (two closures at a time, destroying it with a
closure waiting) is a guard.

### Executor

A section under the `mu` of a thread is one step: `Main` (from the lock to the wait,
the exit or the closures), `Push` and `TryNext` in Enqueue; `TryLock`, `AddThread`
and the loads are others. Closures are numbered in the order in which they are
scheduled; those that are being executed schedule others, at most `MaxClosures` in
all, and `LongJobs` are the ones with ExecutorJobType::LONG. `BeginShutdown` to
`Free` are SetThreading(false), which waits for the application's calls (executor.h
asks for it) and not for those of closures. Closures that find no thread go to the
ExecCtx that executes the closure (`Inline`).

### ThreadManager

Workers poll, work and leave as MainWorkLoop says; a section under `mu_` is one
step, the creation of a thread (`Spawn`, `SpawnFails`) is another, and so are each
join and each call to the quota. SyncRequestThreadManager contributes PollForWork,
DoWork and the shutdown of its queue; the owner goes through Shutdown, Wait and the
destructor. The quota (iomgr/resource_quota.cc, thread part) is used by others too.
All managers of a server share one quota (server_cc.cc:880-889), so somebody else may
be executing in its combiner: ru_destroy runs at any moment after the `Unref` of the
destructor, before or after the joins and the destructor's return. It reads what is
left (`RuLook`) and releases it in another step (`RuDestroy`). A release of more threads
than are allocated aborts the process (`FreeThreads`, the state "aborted"). A worker that
gives its thread back to a deleted resource user finds what is left in that memory: the
0 of ru_destroy (`GiveBack`), or something else that was put there (`GiveBackUnowned`).

### CompletionQueue, PluckQueue, CallbackQueue

`CompletionQueue` follows GRPC_CQ_NEXT. Each atomic access is a step; a section
under `cq->mu` is one step, because only such sections touch the poller. The poller
is the non-polling one (`non_polling_poller_*`): kicks, the kick that finds nobody,
and shutdown. The other pollers promise the same towards this code. A completion
that `CheckReadyToFinish` steals is a `Pop` in the model. A cached event is
flushed by the thread that cached it, and its remaining end_op steps run as the
operation's thread. The application starts no operation after it has called
shutdown, as grpc.h:161 asks.

`PluckQueue` follows GRPC_CQ_PLUCK: all of it happens under `cq->mu`, and one
action is one section, from the call or the wakeup to the return or the next wait.
No two threads pluck one tag at a time; two operations may carry one tag. In both, the
reference that shutdown holds while it runs (completion_queue.cc:1106, 1344) is left out:
its caller has one of its own until it destroys the queue.

`CallbackQueue` follows GRPC_CQ_CALLBACK: the count of operations, the references,
and the callbacks that run at any moment after they were scheduled; that of the
shutdown destroys the queue, as the one of the C++ server does.

### RequestMatcher, AllocatingMatcher

Requests and RPCs stand for the threads that bring them. A section under
`mu_call_` that visits several request queues takes several steps, with pushes in
between; `TryPop` may miss a request, and `Push` may report a first element that is
not first (the stub), as `Mpscq` allows. The shutdown is a little program under
`mu_global_`: `KillLock`, `KillRequests` (one request at a time), `ZombifyPending`,
`ShutdownUnref`, `PublishShutdown`. There is one matcher, one listener, one channel
and one shutdown tag; FailCallCreation is a branch of `StartNewRpc`. `ServerDestroy`
waits until no thread is inside the server and no pending RPC holds it.

`AllocatingMatcher` is the server with an allocating matcher: an RPC takes a
reference in `shutdown_refs_`, is given a request by the allocator or fails, and
gives the reference back; the shutdown waits on `requests_complete_`.

### IdleFilter

Every operation of IdleFilterState is one compare-and-swap, so one step; what the
filter does with the result (start the timer, restart it, enter IDLE) is another.
`busy` and `used` are history variables. The model has no clock: the timer fires at
any moment after it was set, and EnterIdle is done before the timer could be set
and fire once more. No call starts after the disconnect.

### RetryThrottle

Entries are created by service configs (`Create`, `Link`, `Emplace`), found by calls when they
start (`StartCall`) and counted on through the chain of replacements (`Follow`,
`Record`); the clamped addition of gpr_atm is one step. The share of tokens that a new
entry inherits is computed without the rounding of a double.

### InciComm, InciStub

`InciComm`: keys map to a queue and a segment or to nothing. A client is
constructed in two steps, PushPull is push, send, receive, pull, and each request is
handled by a detached thread (`HandleCallback`, `HandleReply`). `ProcessDies` ends a
client's process without its destructor and leaves its objects behind; `ServerDies`
does so with the server, whose queue stays and takes requests that nobody receives.
Failures that the code only prints are followed to what it does next (`PushFaults`: the
copy to an address that is not mapped). Clients start after the server and have keys of
their own; kernel queues never fill up. `ServerStart` needs a key without a queue: a
second start of the server over the queue of a dead one is not modelled (section 6).

`InciStub`: the conversion of the five kinds of field to ints and back (`Encode`,
`Decode`), the assertions on the way, the query after the send, and what
BlockingUnaryCall does with the result. All stubs use the key 1; a PushPull is one
step. A failed assertion, protobuf's refusal of a wrong accessor and the use of an
address that is not mapped end the process. The server (external) maps each value.

## 4. Runs

Components that share no state are checked in one run. Its MC module has a variable
`part` that says which of them moves; the others stay in their initial states, so
that the states of the run are the sum of theirs, not the product.

| Run | Instance | Shows | Distinct states |
|---|---|---|---|
| `mpscq` | 3 nodes, 2 producers, 2 consumers | DrainedIsPristine, ListUnbroken, AbstractSpec, PopTerminates | 540 168 |
| `executors` (WorkSerializer, CallCombiner, Combiner, Executor, ThreadManager) | 3 threads and 3 callbacks that own references; 3 closures; 3 closures and 2 threads, one of the executor; 2 callers, 2 threads, MAX_DEPTH 2, 4 closures, one of them long; 4 workers, 1 poller, quota of 3, backlog of 2 | TypesOK, Serial, SomeoneDrains, NoUseAfterDelete, HandedOver, NobodySleepsOnWork, CountersExact, QuotaCovers, DestroyedClean, SerializersSpec, FinalIsLast, ClosuresRun, PollingGoesOn, ShutdownCompletes | 346 539 |
| `protocols` (IdleFilter, CancelState, LockfreeEvent, InciComm, InciStub) | 4 calls; 3 threads, 2 watchers, 2 errors; 3 threads, 2 closures, 1 error; 2 clients with 2 requests each, 2 crashes; 2 stubs, fields of up to 2 elements, queries of up to 3 | TypesOK, OneTimer, IdleForOneCycle, QuietGoesIdle, ScheduledOnce, NotifiedOnce, NoLostEvent, PulledIsProcessed, NoOverlap, PushPullReturns, SignalStopsServer, AnswersOwnRequest | 438 696 |
| `completion_queue` (CompletionQueue, PluckQueue, CallbackQueue) | 2 operations, 2 callers with caches and deadlines; 2 operations with one tag of three, 3 callers, table of 2; 3 operations | TypesOK, ShutdownIsLast, FinishedOnce, FreedWhenLeft, NoSleeperForgotten, NothingAfterShutdown | 1 229 439 |
| `request_matcher` (RequestMatcher, AllocatingMatcher) | 3 requests, 2 queues, 2 RPCs; 3 RPCs | InOnePlace, NoLostMatch, PublishedIsOver, ShutdownIsPublished | 1 727 065 |
| `executor_late_thread` | 1 caller, 2 threads, 3 closures | AllJoined is violated | |
| `thread_manager_release` | 2 workers, 1 poller, quota of 3 | NeverReleasesTooMany is violated | |
| `idle_filter_disconnect` | 1 call | NoTimerAfterDisconnect is violated | |
| `inci_comm_signal` | handler on the serving thread | SignalStopsServer is violated | |
| `request_matcher_destroy` | 1 request, 1 RPC | DestroyedEmpty is violated | |
| `allocating_matcher_notify` | AllocatingMatcher as above | NotifiesOnce is violated | |
| `retry_throttle` | 1 channel, 2 calls, 3 entries | ThrottlingCarriesOver is violated | |

Each property of a passing run has a mutant in `PROJECT.json`, or one per component
it speaks of: a definition changed the way a slip in the code would change it, under
which TLC finds the property violated.

Liveness properties of the form "this state is always left" are written `[]<>~P`
(the same as `P ~> ~P`), which TLC checks without a tableau.

**Bounds.** Calls, closures, callbacks, nodes, watchers and events come back after
they are done, so most instances run for ever. InciComm counts requests and crashes
(`MaxRequests`, `MaxCrashes`), Executor the closures that are scheduled
(`MaxClosures`), ThreadManager the events that are waiting (`MaxBacklog`), RetryThrottle the
entries, InciStub the elements of a field and the length of a query (`StubSize`,
`QueryLimit`); the completion queues and the
matchers have a fixed set of operations, as one shutdown ends everything. The sizes
are the smallest at which the cases meet: three nodes make a stub in the middle, a
half pushed node and a finished one behind it; three threads make a drainer, a pusher
and a newcomer; two operations and two callers make a burst whose second item has no
kick of its own, and with three callers and a table of two a pluck finds the table
full while a slot moves; two request queues make an RPC that has looked into one
while a request enters the other, and a third request one that is not first; three
RPCs make one in flight, one between its check and its reference and one too late;
four closures on two threads with MAX_DEPTH 2 make the pool grow, and a long one makes
Enqueue go round it; four workers for a quota of three and one poller make a thread
that cannot be allocated, one that is being created and one that is being joined; two
deaths of processes let a successor of a successor meet old replies, or a client's
successor a dead server; fields of one and two
elements leave the end of a longer request behind a shorter one. A deadline that
may pass at any moment and need not covers an infinite one. Symmetry is used in the
two runs that have only safety properties, `completion_queue` and `request_matcher`
(operations, callers, the two requests on one queue).

Deadlock checking is off where the system may stop: an orphaned serializer, a
destroyed queue, server, pool or manager, a stopped aggregation server, a
disconnected channel.

**Fairness.** Weak fairness only, and only for threads that are in the middle of an
operation and need nobody else, and whose callbacks return: `PushLink` and the owner
of `mu_` in Mpscq; a thread inside Run in WorkSerializer; a call that is pushing and a
thread that flushes its ExecCtx, or is the executor's, in Combiner; each thread of
the Executor, each call of Enqueue and SetThreading(false) once it has begun; the
workers of ThreadManager, its Initialize, and its owner once Shutdown was called; the
callback of the timer and the thread that is to set it in IdleFilter; the serving
thread, its handlers and a PushPull in InciComm; and the expiry of a pending timer.
Nothing is assumed to call an operation, to end a call, to create a thread
successfully, or to send a signal.

## 5. Proofs

All theorems hold for every value of the constants under the named assumptions of
the modules (distinct model values, finite sets where something is counted).

`MpscqProofs`. `Inv` = `TypeOK`, `ListUnbroken`, `ConsumerKnows` is inductive.
`ListUnbroken` (theorem `Unbroken`) describes the list as a sequence with gaps, one
per pusher between its exchange and its store; `ConsumerKnows` says what the owner
of `mu_` may rely on (the stub is out of the list when it is pushed). Three lemmas
carry the weight: appending at `head_`, advancing `tail_` and closing a gap each keep
the list, and every action is one of the three or leaves the list alone. From `Inv`:
`Drained` (the destructor's assertions) and `Implements` (the refinement of
`MpscqSpec`, with `NothingAvailable`: when PopAndCheckEnd gives up, the oldest node
really is not available).

`ExecutorsProofs` (the five components of the run `executors`; a step of one leaves the
others alone, `AllParts`).

* WorkSerializer: `Inv` = `TypeOK`, `OneHome`, `Serial`, `SizeCounts`, `SomeoneDrains`,
  `DeletedIsEmpty`. `Serial` alone is not inductive: it needs that `size_` counts
  exactly the owner, the running callback and the pending ones (`SizeCounts`), which
  needs that each callback is in one place (`OneHome`). Finite threads are assumed
  because they are counted. `SerialHolds`, `NoLostHandOff` and `DeleteIsSafe` follow;
  they hold whichever callbacks own references.
* CallCombiner: `CcInv`. `size_` counts the holder, the closures between their fetch_add
  and their push, and the queue; while it is not 0 there is one holder or one Stop that
  is about to pop, never both (`CcCounted`).
* Combiner: `CoInv`. The word counts the elements, which are the closures that were
  counted and not yet done, and one more for a final list; while there are any, the
  combiner is with one thread, or with the one that has just counted the first element,
  or on its way to the executor (`CoCounted`, which gives `HandedOverHolds`). A thread
  pops from the queue only what was pushed (`CoQueued`), and
  `time_to_execute_final_list` is up only while there is a final list (`CoTimely`), so
  that it is started last: the action property `FinalListIsLast`.
* `SerializersImplement` is the refinement of `SerialExecutor` by all three. Each
  serializer keeps, as a history variable, what was ahead of an item when its call began;
  the order needs that what is ahead of a queued item is in execution or in front of it
  in the queue (`WsOrdered`, `CcOrdered`, `CoOrdered`, all by `InOrder`). A step is then
  one of the abstract steps or a stutter: `WsStep`, `CcStep`, `CoStep`.
* Executor: `ExInv`, theorem `PoolNeverSleepsOnWork`. A thread waits only with an empty
  list, and a push on an empty list signals. Besides the property it needs who may be in
  Enqueue when (`ExCalls`), which threads there are and that those the join has missed do
  nothing but leave (`ExPool`), and how far the shutdown has come (`ExMarked`). The
  depth of a thread, which makes the pool grow, is exact (`ExDepths`).
* ThreadManager: `TmInv`, theorems `CountersHold`, `QuotaCoversHolds` and
  `DestructorLeavesNothing`. The
  counters count the workers at the places where they poll and where they are alive, those
  that are being created and those Initialize has yet to create (`TmCounts`); a worker
  that has left is in one list, of the manager or of one that joins (`TmLists`); and how
  far the owner has come (`TmOwned`). The quota covers the workers up to their release
  as long as the resource user exists; ru_destroy gives back exactly what it read or
  aborts, and nothing is allocated after `Unref` (`TmCounts`, `TmOwned`). No order of
  ru_destroy and the workers' releases is assumed; that it can end in abort() is the
  violation of the run `thread_manager_release`.

`ProtocolsProofs` (the five components of the run `protocols`). `AllInv` is the
conjunction of one inductive invariant each; a step of one leaves the others alone.

* IdleFilter: `Inv` = `TypeOK` (with the count of calls in progress), `OneTimer`,
  `ActivityRecorded`. `CountsCalls` is the assertion of DecreaseCallCount;
  `TimerHasOneOwner` is what grpc_timer_init needs; `IdleAfterOneCycle` is an action
  property and needs `ActivityRecorded`: the flag is up while a timer runs that saw a
  call since it was set.
* CancelState: `CaInv`, theorem `CancelSchedulesOnce`. `ScheduledOnce` says where each
  registered closure is: in a call, in the word, or told. It needs `CallsKnow`: a
  compare-and-swap never expects an error, and no two calls register one closure.
* LockfreeEvent: `LeInv`, theorems `EventNotifiesOnce` and `EventIsKept`. `EventKept` is
  the inductive form of `NoLostEvent`: an event nobody was told of is in the word, or a
  SetReady is still on its way that has not seen a closure, or that saw the one that is
  still there. That is why SetReady may give up after a failed compare-and-swap.
* InciComm, proved in `InciCommProofs`; theorems `OwnDataComesBack` and
  `ServerAndClientTakeTurns`. A key is free, owned by the object that has mapped its
  segment, or spent, that is, left behind by a process that died; IPC_EXCL keeps a spent
  key from being mapped again. A key that is owned has a message under way only while
  its caller waits, and only one, in the server's queue, with a handler, or in the
  client's queue (`Waiting`). The proof assumes that each key has one object and each
  object one calling thread (`OneCallerPerKey`): comm.cc does not enforce it, and without
  it the property is false (section 6).
* InciStub: `StInv`, theorem `AnswersAreOwn`. At most one process has the segment
  mapped, so a PushPull is not disturbed, and what is read back is what `Decode` makes of
  what `Encode` wrote: `StRoundTrip`, which holds also where the segment is longer than
  the field because an earlier call was longer.

`CountingLemmas`. How the number of elements with a property changes when one element
moves, and what appending to, searching and removing from a list do. The queues count
with them.

`CompletionQueueProofs` (the three queues of the run `completion_queue`). The properties
of GRPC_CQ_NEXT hold each other up, so they are parts of one inductive invariant `Inv`:
`CountersAccount` (`pending_events` and `num_queue_items_` against the places of the
operations), `FinishOnce`, `ShutdownIsLast`, `Listed` (who is in the poller's list),
`Closing` (what is over once the last event was counted down), `Kept` (what still has to
happen while it is not), `RefsAccount` (each reference has its holder) and `Attended`.
The last one is the argument for the single kick of a burst: while an item is counted,
somebody is about to look into the queue, or an end_op has yet to kick or to finish, or a
kick waits for its receiver, or a caller that does not sleep is on its way. `InvFreed` and `InvWakeups`
derive the properties about freeing and about sleepers. `PluckQueueProofs` proves the
invariant of GRPC_CQ_PLUCK: a sleeper with its tag in the list was kicked (`Kicked`),
which needs that sleepers have different tags and each its slot (`TagsApart`). The
callback queue (`CbInv`) needs the count (`CbCounted`) and which thread finishes
(`CbFinishes`). Theorems `AllInvariance`, `QueuesKeepTypes`, `ShutdownComesLast`,
`OneThreadFinishes`, `QueueOutlivesItsUsers`, `SleepersAreWoken`,
`ShutdownEndsPlucking`, which state what the run checks; `CountersExact` and the others
before them are about GRPC_CQ_NEXT alone. Finite sets of operations and callers are
assumed, because both are counted.

`RequestMatcherProofs` (both matchers). `Inv` of the real matcher: each request and each
RPC is in one place (`Places`, with `Lists` and `Hands`); a queue that an RPC has found
empty and that is not any more has a request whose thread waits for `mu_call_` to match
it (`Scanned`), which carries `NoLostMatch`; what the shutdown has done by which point
(`Phases`, `EarlyLeaves`, `LastOnePublishes`). `AmInv` of the allocating matcher: an RPC
in flight holds its reference, and a shutdown that waits for nothing else has an RPC that
will look again (`AmClosing`). Theorems
`NothingDroppedOrDoubled`, `MatchesAreMade`, `EarlyWorkIsOver` (about what was queued at
the call of shutdown, not about what is pushed later) and `LastOneIsNeverMissed`.

The assumptions are those of the modules: finite sets where something is counted, names
that differ (the states of a word are not operations, None is neither a sequence nor a
content), bounds that are natural numbers, values that are integers. Each is an ASSUME
that TLC evaluates in the run, or a part of one.

Only model-checked: liveness (fairness and ENABLED are out of the prover's reach), what
recursive definitions compute (induction over data is), and the module RetryThrottle,
whose run shows a violation. Every invariant, every action property that is not about
liveness, and every refinement that a passing run checks is stated by a theorem; left to
TLC are `PopTerminates`, `ClosuresRun`, `PollingGoesOn`, `ShutdownCompletes`,
`QuietGoesIdle`, `PushPullReturns` and `SignalStopsServer`.

## 6. Findings

* `thread_manager_release`: a worker lowers `num_threads_`, which ends the owner's Wait,
  and gives its thread back to the quota afterwards. The destructor unrefs the resource
  user before it joins the worker. If a thread of another manager has the combiner of
  the shared quota, it runs ru_destroy in between: everything is given back already,
  the resource user is deleted, and the worker's release finds nothing allocated and
  aborts the process (resource_quota.cc:891-898).
* `executor_late_thread`: Enqueue decides to add a thread before the shutdown is
  marked and adds it after SetThreading(false) has passed the spinlock and counted
  the threads: the new one is not joined, and its state is freed under it. The
  comment at executor.cc:179 excludes it. The caller is a closure of the executor;
  application threads have left by then.
* `idle_filter_disconnect`: a thread that was told to start the timer does so after
  StartTransportOp has cancelled it; the timer then restarts itself for ever.
* `inci_comm_signal`: signal_handler waits for an answer from the thread it runs on.
* `request_matcher_destroy`: a request that passed the check of ShutdownCalled and
  is pushed after the shutdown was published is never answered and trips an
  assertion of the matcher's destructor.
* `allocating_matcher_notify`: an RPC that passed the same check takes its reference
  after the last one in flight has notified `requests_complete_`; giving it back
  notifies a second time, which is an assertion.
* `retry_throttle`: GetDataForServer calls `emplace` with a key that is there, so the
  map keeps the first entry; a third configuration starts from its tokens and drops
  the throttling of the second.

Seen while modelling, without a run:

* After Orphan the value 2 of `size_` no longer means that the queue is empty
  (work_serializer.cc:115): DrainQueue stops, a queued callback is never executed and the
  object is never deleted, other than work_serializer.h:39 says. In the repository the
  callbacks of the client channel hold references to what owns the serializer, and
  `executors` shows that this is enough; with `RefHolders = {}` TLC refutes its
  `ClosuresRun`.
* A server that is started over the queue of a dead one does not get it (IPC_EXCL), goes
  on with the id -1, and each recvMsg of Serve fails at once: a thread is started for
  each message that was not received (comm.cc:79, 117-126).
* Pop returns NULL while completed pushes are hidden behind a half-finished one,
  other than mpscq.h:88 says (`MpscqSpec` states what the code does).
* A begin_op after shutdown, which grpc.h forbids, can be overwritten by the store of
  0 in end_op (completion_queue.cc:747); two plucks of one tag share their kicks
  (completion_queue.cc:806).
* Two threads on one CommClient mix up their data (comm.cc:42). All channels use the
  key 1, so that the second process on a host faults (protoTrans.cc:74).
* A call whose reply has a QueryArray and whose request has no field for the server
  queries, and then BlockingUnaryCall makes the RPC, whose reply overwrites what the
  query has brought (client_unary_call.h:53-57, protoTrans.cc:408). On a channel that
  has sent nothing yet the query uses uninitialised members (protoTrans.cc:395).
* The reply of a MonitorMap, which is a map, is written with the accessor of arrays
  (protoTrans.cc:221), which protobuf refuses. A second message on a channel with
  another kind of field, or a longer one, fails an assertion (protoTrans.cc:75,
  comm.cc:40).
* A thread whose creation fails is given back to the quota only when the manager is
  destroyed (thread_manager.cc:188-194).
* Enqueue spins as long as every thread has a long job queued (executor.cc:312, a
  TODO there).

## 7. Not modelled

The repository has some 336 000 lines of implementation; most of them are generated
(upb, upbdefs, BoringSSL symbols, protobuf code), vendored, bindings for other
languages, tools, or input and output. The models cover the small part whose
correctness is a matter of interleavings, and the lines the map names are that part.
Left out, with the reason for each in `PROJECT.json`:

* input and output, where the kernel or a peer is most of the behaviour: polling
  engines, endpoints, resolvers, handshakers and security, the xDS client;
* data formats and containers: framing and HPACK of chttp2, metadata, slices,
  channelz; floating point: BDP estimator, PID controller, quantize.h;
* control that runs inside the serialisers that are modelled and is large: client
  channel and subchannels, balancing policies, retries, calls and their batches, the
  in-process transport; these are sequential between two hand-overs, and what the
  hand-overs promise is what the models show;
* for later (section 2): the timer manager, the memory quota, the connectivity state
  tracker, the deadline and max-age filters, promises and activities.

Of the modelled components these parts are left out: the semaphore helpers of
msg.cc, which nobody calls; several matchers, listeners, channels and shutdown tags
of one server; the pollsets behind the completion queues; tracing, statistics and
debug-only checks.
