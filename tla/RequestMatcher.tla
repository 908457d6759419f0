--------------------------- MODULE RequestMatcher ---------------------------
(***************************************************************************)
(* The server's RealRequestMatcher and its shutdown                        *)
(* (core/lib/surface/server.cc).  The application requests calls, one      *)
(* queue of requests per completion queue; RPCs come from a channel; each  *)
(* request is matched with one RPC, or failed by the shutdown.             *)
(*                                                                         *)
(* The request queues are locked multi-producer queues, pushed to without  *)
(* a lock: Push says whether it may have been the first, Pop is            *)
(* conclusive, TryPop may come back empty-handed (see Mpscq).  A push that *)
(* is hidden behind an unfinished one counts from the moment that one is   *)
(* finished.  mu_call_ protects the list of pending RPCs; a section under  *)
(* it that visits several queues takes several steps, and pushes fall in   *)
(* between.                                                                *)
(***************************************************************************)
EXTENDS Integers, Sequences, SequencesExt, FiniteSets

CONSTANTS
    Requests,   \* RequestedCall objects, each with the thread that makes it
    Queue,      \* the queue of each request: its notification cq
    Rpcs,       \* CallData objects, each with the thread that brings it
    Start,      \* start_request_queue_index of each RPC
    NumCqs,     \* the number of request queues
    None

Cqs == 0 .. NumCqs - 1

ASSUME RequestMatcherAssumption ==
    /\ NumCqs \in Nat \ {0}
    /\ Queue \in [Requests -> Cqs] /\ Start \in [Rpcs -> Cqs]
    /\ IsFiniteSet(Requests) /\ IsFiniteSet(Rpcs) /\ Requests \cap Rpcs = {}
    /\ None \notin Requests \cup Rpcs \cup (Requests \X Rpcs) \cup {"kill", "failed"}
    /\ {"kill", "failed"} \cap Rpcs = {}

VARIABLES
    requests,   \* requests_per_cq_
    pending,    \* pending_
    state,      \* per RPC: state_
    kills,      \* per RPC: how often KillZombie ran
    answer,     \* per request: the RPC published to it, "failed" or None
    answers,    \* per request: how often its tag was given to the cq
    reqAt,      \* per request: where its thread is
    match,      \* per request: the request and the RPC its thread has taken
    rpcAt,      \* per RPC: where its thread is
    idx,        \* per RPC: the loop variable of MatchOrQueue
    rc,         \* per RPC: the request its thread has taken
    muCall,     \* the holder of mu_call_: an RPC, "kill" or None
    global,     \* what the holder of mu_global_ does, "free" if there is none
    kq,         \* the queue KillRequests visits
    called,     \* ShutdownCalled()
    published,  \* shutdown_published_
    listener,   \* listeners_destroyed_ < listeners_.size()
    channel,    \* channels_ is not empty
    early,      \* history: what was in the queues when shutdown was called
    destroyed   \* the server is destroyed

lists == <<requests, pending>>
outcome == <<state, kills, answer, answers>>
reqThreads == <<reqAt, match>>
rpcThreads == <<rpcAt, idx, rc>>
shutdown == <<global, kq, called, published, listener, channel, early, destroyed>>
vars == <<lists, outcome, reqThreads, rpcThreads, muCall, shutdown>>

Init ==
    /\ requests = [q \in Cqs |-> <<>>] /\ pending = <<>>
    /\ state = [c \in Rpcs |-> "NOT_STARTED"] /\ kills = [c \in Rpcs |-> 0]
    /\ answer = [r \in Requests |-> None] /\ answers = [r \in Requests |-> 0]
    /\ reqAt = [r \in Requests |-> "new"] /\ match = [r \in Requests |-> None]
    /\ rpcAt = [c \in Rpcs |-> "new"] /\ idx = [c \in Rpcs |-> 0]
    /\ rc = [c \in Rpcs |-> None]
    /\ muCall = None
    /\ global = "free" /\ kq = 0
    /\ called = FALSE /\ published = FALSE
    /\ listener = TRUE /\ channel = TRUE
    /\ early = {} /\ destroyed = FALSE

-----------------------------------------------------------------------------
Publish(r, c) ==
    /\ answer' = [answer EXCEPT ![r] = c]
    /\ answers' = [answers EXCEPT ![r] = @ + 1]

\* FailCall for a set of requests
FailCalls(rs) ==
    /\ answer' = [r \in Requests |-> IF r \in rs THEN "failed" ELSE answer[r]]
    /\ answers' = [r \in Requests |-> IF r \in rs THEN answers[r] + 1 ELSE answers[r]]

\* The state becomes ZOMBIED and KillZombie runs, for a set of RPCs.
Zombify(cs) ==
    /\ state' = [c \in Rpcs |-> IF c \in cs THEN "ZOMBIED" ELSE state[c]]
    /\ kills' = [c \in Rpcs |-> IF c \in cs THEN kills[c] + 1 ELSE kills[c]]

-----------------------------------------------------------------------------
(* The application requests a call                                         *)

\* Mutant: the early return is missing.
QueueRequestedCallGoOn(r) ==
    /\ reqAt[r] = "new" /\ ~destroyed
    /\ FailCalls({x \in {r} : called})
    /\ reqAt' = [reqAt EXCEPT ![r] = "push"]
    /\ UNCHANGED <<lists, state, kills, match, rpcThreads, muCall, shutdown>>

\* QueueRequestedCall: fails at once after a shutdown
QueueRequestedCall(r) ==
    /\ reqAt[r] = "new" /\ ~destroyed
    /\ IF called
       THEN FailCalls({r}) /\ reqAt' = [reqAt EXCEPT ![r] = "done"]
       ELSE UNCHANGED <<answer, answers>> /\ reqAt' = [reqAt EXCEPT ![r] = "push"]
    /\ UNCHANGED <<lists, state, kills, match, rpcThreads, muCall, shutdown>>

\* RequestCallWithPossiblePublish: the first request of a queue goes on to
\* match.  Push reports a first one also while a Pop puts the stub back.
PushRequest(r) ==
    /\ reqAt[r] = "push"
    /\ requests' = [requests EXCEPT ![Queue[r]] = Append(@, r)]
    /\ \E first \in {requests[Queue[r]] = <<>>, TRUE} :
          reqAt' = [reqAt EXCEPT ![r] = IF first THEN "match" ELSE "done"]
    /\ UNCHANGED <<pending, outcome, match, rpcThreads, muCall, shutdown>>

\* pop_next_pending: one request and one pending RPC, or the end of the loop
PopNextPending(r) ==
    LET q == requests[Queue[r]] IN
    /\ reqAt[r] = "match" /\ muCall = None
    /\ IF pending # <<>> /\ q # <<>>
       THEN /\ match' = [match EXCEPT ![r] = <<Head(q), Head(pending)>>]
            /\ requests' = [requests EXCEPT ![Queue[r]] = Tail(@)]
            /\ pending' = Tail(pending)
            /\ reqAt' = [reqAt EXCEPT ![r] = "activate"]
       ELSE /\ reqAt' = [reqAt EXCEPT ![r] = "done"]
            /\ UNCHANGED <<lists, match>>
    /\ UNCHANGED <<outcome, rpcThreads, muCall, shutdown>>

\* Mutant: one match, not as many as there are.
ActivatePendingOnce(r) ==
    LET c == match[r][2] IN
    /\ reqAt[r] = "activate"
    /\ IF state[c] = "PENDING"
       THEN /\ state' = [state EXCEPT ![c] = "ACTIVATED"]
            /\ Publish(match[r][1], c)
            /\ UNCHANGED kills
       ELSE Zombify({c}) /\ UNCHANGED <<answer, answers>>
    /\ match' = [match EXCEPT ![r] = None]
    /\ reqAt' = [reqAt EXCEPT ![r] = "done"]
    /\ UNCHANGED <<lists, rpcThreads, muCall, shutdown>>

\* MaybeActivate and Publish, or KillZombie.  No RPC that was popped from pending_
\* is in another state than PENDING, so the code's second branch is not reached.
ActivatePending(r) ==
    LET c == match[r][2] IN
    /\ reqAt[r] = "activate"
    /\ IF state[c] = "PENDING"
       THEN /\ state' = [state EXCEPT ![c] = "ACTIVATED"]
            /\ Publish(match[r][1], c)
            /\ UNCHANGED kills
       ELSE Zombify({c}) /\ UNCHANGED <<answer, answers>>
    /\ match' = [match EXCEPT ![r] = None]
    /\ reqAt' = [reqAt EXCEPT ![r] = "match"]
    /\ UNCHANGED <<lists, rpcThreads, muCall, shutdown>>

-----------------------------------------------------------------------------
(* An RPC comes in                                                         *)

\* AcceptStream, and StartNewRpc when the initial metadata is there;
\* FailCallCreation when it does not come
StartNewRpc(c) ==
    /\ rpcAt[c] = "new" /\ ~destroyed
    /\ \/ Zombify({c}) /\ rpcAt' = [rpcAt EXCEPT ![c] = "done"]
       \/ /\ ~called
          /\ rpcAt' = [rpcAt EXCEPT ![c] = "publish"]
          /\ UNCHANGED <<state, kills>>
    /\ UNCHANGED <<lists, answer, answers, reqThreads, idx, rc, muCall, shutdown>>

\* PublishNewRpc: the payload may have failed to arrive
PublishNewRpc(c) ==
    /\ rpcAt[c] = "publish"
    /\ \/ /\ Zombify({c})
          /\ rpcAt' = [rpcAt EXCEPT ![c] = "done"]
       \/ /\ ~called
          /\ rpcAt' = [rpcAt EXCEPT ![c] = "try"]
          /\ UNCHANGED <<state, kills>>
    /\ UNCHANGED <<lists, answer, answers, reqThreads, idx, rc, muCall, shutdown>>

CqIdx(c) == (Start[c] + idx[c]) % NumCqs

\* The RPC takes the first request of the queue it looks at.
Take(c) ==
    /\ rc' = [rc EXCEPT ![c] = Head(requests[CqIdx(c)])]
    /\ requests' = [requests EXCEPT ![CqIdx(c)] = Tail(@)]
    /\ rpcAt' = [rpcAt EXCEPT ![c] = "got"]
    /\ UNCHANGED idx

\* MatchOrQueue: TryPop on one queue after the other
TryPop(c) ==
    /\ rpcAt[c] = "try"
    /\ \/ requests[CqIdx(c)] # <<>> /\ Take(c)
       \/ /\ idx' = [idx EXCEPT ![c] = (@ + 1) % NumCqs]
          /\ rpcAt' = [rpcAt EXCEPT ![c] = IF idx'[c] = 0 THEN "slow" ELSE "try"]
          /\ UNCHANGED <<requests, rc>>
    /\ UNCHANGED <<pending, outcome, reqThreads, muCall, shutdown>>

\* No queue had a request: the slow path
LockCall(c) ==
    /\ rpcAt[c] = "slow" /\ muCall = None
    /\ muCall' = c
    /\ rpcAt' = [rpcAt EXCEPT ![c] = "pop"]
    /\ UNCHANGED <<lists, outcome, reqThreads, idx, rc, shutdown>>

\* Pop on one queue after the other
SlowPop(c) ==
    /\ rpcAt[c] = "pop"
    /\ IF requests[CqIdx(c)] # <<>>
       THEN Take(c) /\ muCall' = None
       ELSE /\ idx' = [idx EXCEPT ![c] = (@ + 1) % NumCqs]
            /\ rpcAt' = [rpcAt EXCEPT ![c] = IF idx'[c] = 0 THEN "queue" ELSE "pop"]
            /\ UNCHANGED <<requests, rc, muCall>>
    /\ UNCHANGED <<pending, outcome, reqThreads, shutdown>>

\* All the queues were empty.
QueuePending(c) ==
    /\ rpcAt[c] = "queue"
    /\ state' = [state EXCEPT ![c] = "PENDING"]
    /\ pending' = Append(pending, c)
    /\ muCall' = None
    /\ rpcAt' = [rpcAt EXCEPT ![c] = "done"]
    /\ UNCHANGED <<requests, kills, answer, answers, reqThreads, idx, rc, shutdown>>

PublishRpc(c) ==
    /\ rpcAt[c] = "got"
    /\ state' = [state EXCEPT ![c] = "ACTIVATED"]
    /\ Publish(rc[c], c)
    /\ rpcAt' = [rpcAt EXCEPT ![c] = "done"]
    /\ rc' = [rc EXCEPT ![c] = None]
    /\ UNCHANGED <<lists, kills, reqThreads, idx, muCall, shutdown>>

-----------------------------------------------------------------------------
(* Shutdown, under mu_global_                                              *)

\* Mutant: MaybeFinishShutdown leaves the killing to ShutdownAndNotify.
FinishWithoutKill(isCalled) == IF isCalled /\ ~published THEN "publish" ELSE "free"

\* Where a call of MaybeFinishShutdown goes.
Finish(isCalled) == IF isCalled /\ ~published THEN "finish" ELSE "free"

\* A later call only adds its tag to the list, or gets it back at once.
ShutdownAndNotify ==
    /\ global = "free" /\ ~called
    /\ global' = "shutdown"
    /\ UNCHANGED <<lists, outcome, reqThreads, rpcThreads, muCall, kq, called,
                   published, listener, channel, early, destroyed>>

\* KillPendingWorkLocked begins.
KillLock ==
    /\ global \in {"shutdown", "finish"} /\ muCall = None
    /\ muCall' = "kill"
    /\ kq' = 0
    /\ UNCHANGED <<lists, outcome, reqThreads, rpcThreads, global, called,
                   published, listener, channel, early, destroyed>>

\* KillRequests: one Pop, which fails a request or goes on to the next queue.
\* RPCs pop without mu_call_ meanwhile.
KillRequests ==
    /\ muCall = "kill" /\ kq < NumCqs
    /\ \/ /\ requests[kq] # <<>>
          /\ FailCalls({Head(requests[kq])})
          /\ requests' = [requests EXCEPT ![kq] = Tail(@)]
          /\ UNCHANGED kq
       \/ /\ requests[kq] = <<>>
          /\ kq' = kq + 1
          /\ UNCHANGED <<requests, answer, answers>>
    /\ UNCHANGED <<pending, state, kills, reqThreads, rpcThreads, muCall, global,
                   called, published, listener, channel, early, destroyed>>

\* Mutant: the RPCs are killed and stay in the list.
ZombifyPendingAndKeep ==
    /\ muCall = "kill" /\ kq = NumCqs
    /\ Zombify(Range(pending))
    /\ muCall' = None
    /\ global' = IF global = "shutdown" THEN "unref" ELSE "publish"
    /\ UNCHANGED <<lists, answer, answers, reqThreads, rpcThreads, kq, called,
                   published, listener, channel, early, destroyed>>

\* ZombifyPending, and the end of KillPendingWorkLocked
ZombifyPending ==
    /\ muCall = "kill" /\ kq = NumCqs
    /\ Zombify(Range(pending))
    /\ pending' = <<>>
    /\ muCall' = None
    /\ global' = IF global = "shutdown" THEN "unref" ELSE "publish"
    /\ UNCHANGED <<requests, answer, answers, reqThreads, rpcThreads, kq, called,
                   published, listener, channel, early, destroyed>>

Queued == (UNION {Range(requests[q]) : q \in Cqs}) \cup Range(pending)

\* ShutdownUnrefOnShutdownCall, which goes on to MaybeFinishShutdown
ShutdownUnref ==
    /\ global = "unref"
    /\ called' = TRUE
    /\ early' = Queued
    /\ global' = Finish(TRUE)
    /\ UNCHANGED <<lists, outcome, reqThreads, rpcThreads, muCall, kq, published,
                   listener, channel, destroyed>>

\* MaybeFinishShutdown, after KillPendingWorkLocked
PublishShutdown ==
    /\ global = "publish"
    /\ published' = (~channel /\ ~listener)
    /\ global' = "free"
    /\ UNCHANGED <<lists, outcome, reqThreads, rpcThreads, muCall, kq, called,
                   listener, channel, early, destroyed>>

\* ListenerDestroyDone
ListenerDestroyDone ==
    /\ global = "free" /\ called /\ listener
    /\ listener' = FALSE
    /\ global' = Finish(called)
    /\ UNCHANGED <<lists, outcome, reqThreads, rpcThreads, muCall, kq, called,
                   published, channel, early, destroyed>>

\* Mutant: MaybeFinishShutdown is not called.
ChannelDestroyOnly ==
    /\ global = "free" /\ channel
    /\ channel' = FALSE
    /\ UNCHANGED <<lists, outcome, reqThreads, rpcThreads, muCall, global, kq,
                   called, published, listener, early, destroyed>>

\* ChannelData::Destroy
ChannelDestroy ==
    /\ global = "free" /\ channel
    /\ channel' = FALSE
    /\ global' = Finish(called)
    /\ UNCHANGED <<lists, outcome, reqThreads, rpcThreads, muCall, kq, called,
                   published, listener, early, destroyed>>

\* grpc_server_destroy: the shutdown was published, no thread is in the server
\* and no call holds it.
ServerDestroy ==
    /\ published /\ global = "free" /\ ~destroyed
    /\ \A r \in Requests : reqAt[r] \in {"new", "done"}
    /\ \A c \in Rpcs : rpcAt[c] \in {"new", "done"}
    /\ pending = <<>>
    /\ destroyed' = TRUE
    /\ UNCHANGED <<lists, outcome, reqThreads, rpcThreads, muCall, global, kq,
                   called, published, listener, channel, early>>

-----------------------------------------------------------------------------
RequestStep(r) == PushRequest(r) \/ PopNextPending(r) \/ ActivatePending(r)
RpcStep(c) ==
    \/ PublishNewRpc(c) \/ TryPop(c) \/ LockCall(c) \/ SlowPop(c)
    \/ QueuePending(c) \/ PublishRpc(c)
GlobalStep ==
    \/ KillLock \/ KillRequests \/ ZombifyPending \/ ShutdownUnref \/ PublishShutdown

Next ==
    \/ \E r \in Requests : QueueRequestedCall(r) \/ RequestStep(r)
    \/ \E c \in Rpcs : StartNewRpc(c) \/ RpcStep(c)
    \/ ShutdownAndNotify \/ GlobalStep
    \/ ListenerDestroyDone \/ ChannelDestroy \/ ServerDestroy

Spec == Init /\ [][Next]_vars

-----------------------------------------------------------------------------
(* Properties                                                              *)

\* The variables keep their types, and the holder of mu_call_ is in a section
\* that needs it.
TypeOK ==
    /\ requests \in [Cqs -> Seq(Requests)] /\ pending \in Seq(Rpcs)
    /\ state \in [Rpcs -> {"NOT_STARTED", "PENDING", "ACTIVATED", "ZOMBIED"}]
    /\ kills \in [Rpcs -> 0 .. 2] /\ answers \in [Requests -> 0 .. 2]
    /\ answer \in [Requests -> {None, "failed"} \cup Rpcs]
    /\ reqAt \in [Requests -> {"new", "push", "match", "activate", "done"}]
    /\ match \in [Requests -> {None} \cup (Requests \X Rpcs)]
    /\ rpcAt \in [Rpcs -> {"new", "publish", "try", "slow", "pop", "queue", "got", "done"}]
    /\ idx \in [Rpcs -> Cqs] /\ rc \in [Rpcs -> {None} \cup Requests]
    /\ global \in {"free", "shutdown", "unref", "finish", "publish"}
    /\ kq \in 0 .. NumCqs
    /\ {called, published, listener, channel, destroyed} \subseteq BOOLEAN
    /\ early \subseteq Requests \cup Rpcs
    /\ {c \in Rpcs : rpcAt[c] \in {"pop", "queue"}} = {muCall} \cap Rpcs
    /\ muCall = "kill" => global \in {"shutdown", "finish"}

\* The requests and the RPCs that a thread has taken from a list.
TakenRequests == ({match[r][1] : r \in {x \in Requests : match[x] # None}}
                    \cup {rc[c] : c \in Rpcs}) \ {None}
TakenRpcs == {match[r][2] : r \in {x \in Requests : match[x] # None}}

\* Every request that was made is in one place: a queue, the hands of one
\* thread, or answered, once.  None is dropped, and no tag comes back twice.
RequestInOnePlace ==
    \A r \in Requests :
        LET inQueues == Cardinality({p \in Cqs \X (1 .. Cardinality(Requests)) :
                            p[2] <= Len(requests[p[1]]) /\ requests[p[1]][p[2]] = r})
            taken == IF r \in TakenRequests THEN 1 ELSE 0
        IN  inQueues + taken + answers[r] = IF reqAt[r] \in {"new", "push"} THEN 0 ELSE 1

\* Every RPC is pending, published to one request, or killed once.
RpcInOnePlace ==
    \A c \in Rpcs :
        LET queued == Cardinality({i \in DOMAIN pending : pending[i] = c})
            taken == IF c \in TakenRpcs THEN 1 ELSE 0
            given == Cardinality({r \in Requests : answer[r] = c})
        IN  queued + taken + given + kills[c] = IF rpcAt[c] = "done" THEN 1 ELSE 0

\* "if something is added to an empty request queue, it will block until the
\* call is actually added to the pending list": a request and an RPC never wait
\* for each other with nobody to match them.
NoLostMatch ==
    \A q \in Cqs : pending # <<>> /\ requests[q] # <<>> =>
        \E r \in Requests : Queue[r] = q /\ reqAt[r] \in {"match", "activate"}

\* When the shutdown is published, nothing is left of what the queues held
\* when it was called.
ShutdownClears == published => early \cap Queued = {}

\* Whoever takes the last of the listener, the channel and the call of shutdown
\* away publishes the shutdown: nothing comes later that would.
LastOnePublishes ==
    called /\ ~listener /\ ~channel /\ global = "free" => published

\* "GPR_ASSERT(queue.Pop() == nullptr)": a server is destroyed with no request
\* in its queues.
DestroyedEmpty == destroyed => \A q \in Cqs : requests[q] = <<>>
=============================================================================
