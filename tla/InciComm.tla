------------------------------ MODULE InciComm ------------------------------
(***************************************************************************)
(* The inter-process channel to the aggregation server (inci_lib/lib):     *)
(* CommClient, CommServer and killServer on System V message queues and    *)
(* shared memory.                                                          *)
(*                                                                         *)
(* An object is the CommClient of one gRPC channel, a caller a thread that *)
(* makes blocking calls on that channel.  A key of the IPC name space maps *)
(* to a queue and to a segment, or to None.  A request is identified by    *)
(* its caller and a number; the content of a segment is the request whose  *)
(* data it holds and whether the callback of the server has processed it.  *)
(* The kernel's queues never fill up.                                      *)
(***************************************************************************)
EXTENDS Integers, Sequences, FiniteSets

CONSTANTS
    Objects,        \* CommClient objects
    Key,            \* the key each of them is given
    Callers,        \* threads that call PushPull
    Object,         \* the object each of them uses
    Server,         \* SERVERID, the key of the server's queue
    KillKey,        \* -2, the key killServer uses
    Signals,        \* threads that may execute signal_handler: "serve", "other"
    MaxRequests,    \* bound: requests of one caller
    MaxCrashes,     \* bound: processes that die
    None

Keys == {Key[o] : o \in Objects}

\* A request, and what queues and segments hold.
Requests == Callers \X (1 .. MaxRequests)
Messages == [key : Keys, id : Requests] \cup {[key |-> KillKey, id |-> None]}
Contents == [id : Requests \cup {None}, done : BOOLEAN]

\* What is asked of the constants.
InciCommConstants ==
    /\ Object \in [Callers -> Objects]
    /\ Server # KillKey /\ Keys \cap {Server, KillKey, None} = {}
    /\ Signals \subseteq {"serve", "other"}
    /\ MaxRequests \in Nat /\ MaxCrashes \in Nat
    /\ None \notin Seq(Messages) /\ None \notin Contents

\* Each key has one object and each object one calling thread.  The keys are
\* given out by the application; nothing in CommClient keeps two threads of a
\* channel apart.
OneCallerPerKey ==
    /\ \A o, p \in Objects : Key[o] = Key[p] => o = p
    /\ \A t, u \in Callers : Object[t] = Object[u] => t = u

VARIABLES
    mq,         \* per key: the messages in its queue, or None
    shm,        \* per key: the content of its segment, or None
    obj,        \* per object: "none", "shm" (half constructed) or "ready"
    mem,        \* per object: shm is a mapped segment
    rq,         \* per object: msgidr is a queue
    pc,         \* per caller: where it is in PushPull
    req,        \* per caller: the number of its latest request
    pulled,     \* per caller: what the latest PushPull returned, or None
    server,     \* where the serving thread is
    handlers,   \* the detached threads: the message and "cb" or "reply"
    kill,       \* kill
    killer,     \* killServer in another thread: "idle", "wait" or "done"
    crashes     \* the processes that have died

ipc == <<mq, shm>>
objects == <<obj, mem, rq>>
calls == <<pc, req, pulled>>
serving == <<server, handlers, kill, killer>>
vars == <<ipc, objects, calls, serving, crashes>>

Init ==
    /\ mq = [k \in Keys \cup {Server, KillKey} |-> None]
    /\ shm = [k \in Keys |-> None]
    /\ obj = [o \in Objects |-> "none"]
    /\ mem = [o \in Objects |-> FALSE]
    /\ rq = [o \in Objects |-> FALSE]
    /\ pc = [t \in Callers |-> "idle"]
    /\ req = [t \in Callers |-> 0]
    /\ pulled = [t \in Callers |-> None]
    /\ server = "off"
    /\ handlers = {}
    /\ kill = FALSE
    /\ killer = "idle"
    /\ crashes = 0

-----------------------------------------------------------------------------
(* System V IPC                                                            *)

\* getMsgQueue: IPC_CREAT creates the queue when there is none.
Got(queue) == IF queue = None THEN <<>> ELSE queue

\* sendMsg to a queue that may be gone; its failure is ignored.
Sent(queue, m) == IF queue = None THEN None ELSE Append(queue, m)

Message(k, id) == [key |-> k, id |-> id]
Content(id, done) == [id |-> id, done |-> done]
Request(t) == <<t, req[t]>>

-----------------------------------------------------------------------------
(* CommClient                                                              *)

\* The constructor, first half: createShareMem fails when the key is in use
\* (IPC_EXCL), and shmat then returns no address.  Clients start after the
\* server.
CreateShareMem(o) ==
    /\ server # "off"
    /\ obj[o] = "none"
    /\ obj' = [obj EXCEPT ![o] = "shm"]
    /\ mem' = [mem EXCEPT ![o] = (shm[Key[o]] = None)]
    /\ shm' = [shm EXCEPT ![Key[o]] = IF @ = None THEN Content(None, FALSE) ELSE @]
    /\ UNCHANGED <<mq, rq, calls, serving, crashes>>

\* Mutant: without IPC_EXCL, what another process left behind is taken over.
CreateMsgQueueShared(o) ==
    /\ obj[o] = "shm"
    /\ obj' = [obj EXCEPT ![o] = "ready"]
    /\ rq' = [rq EXCEPT ![o] = TRUE]
    /\ mem' = [mem EXCEPT ![o] = TRUE]
    /\ mq' = [mq EXCEPT ![Key[o]] = Got(@), ![Server] = Got(@)]
    /\ UNCHANGED <<shm, calls, serving, crashes>>

\* The second half: createMsgQueue (IPC_EXCL) and getMsgQueue(SERVERID).
CreateMsgQueue(o) ==
    /\ obj[o] = "shm"
    /\ obj' = [obj EXCEPT ![o] = "ready"]
    /\ rq' = [rq EXCEPT ![o] = (mq[Key[o]] = None)]
    /\ mq' = [mq EXCEPT ![Key[o]] = Got(@), ![Server] = Got(@)]
    /\ UNCHANGED <<shm, mem, calls, serving, crashes>>

UsersOf(o) == {t \in Callers : Object[t] = o}

\* The process of the object ends without the destructor: its calls are gone,
\* its queue and its segment stay in the kernel.
Abandon(o) ==
    /\ obj' = [obj EXCEPT ![o] = "none"]
    /\ mem' = [mem EXCEPT ![o] = FALSE]
    /\ rq' = [rq EXCEPT ![o] = FALSE]
    /\ pc' = [t \in Callers |-> IF t \in UsersOf(o) THEN "idle" ELSE pc[t]]
    /\ pulled' = [t \in Callers |-> IF t \in UsersOf(o) THEN None ELSE pulled[t]]
    /\ crashes' = crashes + 1
    /\ UNCHANGED <<ipc, req, serving>>

ProcessDies(o) ==
    /\ obj[o] # "none" /\ crashes < MaxCrashes
    /\ Abandon(o)

\* PushPull copies into an address that is not mapped.
PushFaults(t) ==
    /\ pc[t] = "idle" /\ req[t] < MaxRequests /\ crashes < MaxCrashes
    /\ obj[Object[t]] = "ready" /\ ~mem[Object[t]]
    /\ Abandon(Object[t])

\* PushPull: copy the data into the segment.
Push(t) ==
    /\ pc[t] = "idle" /\ req[t] < MaxRequests
    /\ obj[Object[t]] = "ready" /\ mem[Object[t]]
    /\ pc' = [pc EXCEPT ![t] = "send"]
    /\ req' = [req EXCEPT ![t] = @ + 1]
    /\ pulled' = [pulled EXCEPT ![t] = None]
    /\ shm' = [shm EXCEPT ![Key[Object[t]]] = Content(<<t, req[t] + 1>>, FALSE)]
    /\ UNCHANGED <<mq, objects, serving, crashes>>

SendRequest(t) ==
    /\ pc[t] = "send"
    /\ pc' = [pc EXCEPT ![t] = "wait"]
    /\ mq' = [mq EXCEPT ![Server] = Sent(@, Message(Key[Object[t]], Request(t)))]
    /\ UNCHANGED <<shm, obj, mem, rq, req, pulled, server, handlers, kill,
                   killer, crashes>>

\* recvMsg blocks for a reply, or fails at once without a queue.
RecvReply(t) ==
    LET k == Key[Object[t]] IN
    /\ pc[t] = "wait"
    /\ rq[Object[t]] => mq[k] # <<>>
    /\ mq' = IF rq[Object[t]] THEN [mq EXCEPT ![k] = Tail(@)] ELSE mq
    /\ pc' = [pc EXCEPT ![t] = "pull"]
    /\ UNCHANGED <<shm, obj, mem, rq, req, pulled, server, handlers, kill,
                   killer, crashes>>

\* Copy the data back from the segment.
Pull(t) ==
    /\ pc[t] = "pull"
    /\ pc' = [pc EXCEPT ![t] = "idle"]
    /\ pulled' = [pulled EXCEPT ![t] = shm[Key[Object[t]]]]
    /\ UNCHANGED <<mq, shm, obj, mem, rq, req, server, handlers, kill, killer,
                   crashes>>

\* ~CommClient.  Without a segment shmdt fails and the process exits.
Destruct(o) ==
    /\ obj[o] = "ready"
    /\ \A t \in UsersOf(o) : pc[t] = "idle"
    /\ obj' = [obj EXCEPT ![o] = "none"]
    /\ mem' = [mem EXCEPT ![o] = FALSE]
    /\ rq' = [rq EXCEPT ![o] = FALSE]
    /\ shm' = IF mem[o] THEN [shm EXCEPT ![Key[o]] = None] ELSE shm
    /\ mq' = IF mem[o] /\ rq[o] THEN [mq EXCEPT ![Key[o]] = None] ELSE mq
    /\ UNCHANGED <<calls, serving, crashes>>

-----------------------------------------------------------------------------
(* CommServer                                                              *)

\* createMsgQueue(SERVERID) (IPC_EXCL): no queue has the key, as clients start
\* after the server and the server is started once.
ServerStart ==
    /\ server = "off" /\ mq[Server] = None
    /\ server' = "loop"
    /\ mq' = [mq EXCEPT ![Server] = <<>>]
    /\ UNCHANGED <<shm, objects, calls, handlers, kill, killer, crashes>>

\* Mutant: the loop does not look at kill.
ServeTestForever ==
    /\ server = "loop"
    /\ server' = "recv"
    /\ UNCHANGED <<mq, shm, obj, mem, rq, pc, req, pulled, handlers, kill,
                   killer, crashes>>

\* while(!kill)
ServeTest ==
    /\ server = "loop"
    /\ server' = IF kill THEN "leave" ELSE "recv"
    /\ UNCHANGED <<mq, shm, obj, mem, rq, pc, req, pulled, handlers, kill,
                   killer, crashes>>

\* Mutant: recvMsg asks for a type that only the message of killServer has.
ServeRecvOfKiller ==
    /\ server = "recv"
    /\ mq[Server] # <<>> /\ Head(mq[Server]).key = KillKey
    /\ handlers' = handlers \cup {<<Head(mq[Server]), "reply">>}
    /\ mq' = [mq EXCEPT ![Server] = Tail(@)]
    /\ server' = "loop"
    /\ UNCHANGED <<shm, obj, mem, rq, pc, req, pulled, kill, killer, crashes>>

\* recvMsg, and a detached thread for the message
ServeRecv ==
    /\ server = "recv"
    /\ mq[Server] # <<>>
    /\ LET m == Head(mq[Server])
       IN  handlers' = handlers \cup {<<m, IF m.key = KillKey THEN "reply" ELSE "cb">>}
    /\ mq' = [mq EXCEPT ![Server] = Tail(@)]
    /\ server' = "loop"
    /\ UNCHANGED <<shm, obj, mem, rq, pc, req, pulled, kill, killer, crashes>>

\* Mutant: the thread answers without having called back.
HandleSkipsCallback(m) ==
    /\ <<m, "cb">> \in handlers
    /\ handlers' = (handlers \ {<<m, "cb">>}) \cup {<<m, "reply">>}
    /\ UNCHANGED <<mq, shm, obj, mem, rq, pc, req, pulled, server, kill,
                   killer, crashes>>

\* Handle: cb works on the segment of the key, which getShareMem creates if
\* the client is gone.
HandleCallback(m) ==
    /\ <<m, "cb">> \in handlers
    /\ handlers' = (handlers \ {<<m, "cb">>}) \cup {<<m, "reply">>}
    /\ shm' = [shm EXCEPT ![m.key] =
          IF @ = None THEN Content(None, TRUE) ELSE Content(@.id, TRUE)]
    /\ UNCHANGED <<mq, obj, mem, rq, pc, req, pulled, server, kill, killer,
                   crashes>>

\* Handle: the message goes back to the queue of its key.
HandleReply(m) ==
    /\ <<m, "reply">> \in handlers
    /\ handlers' = handlers \ {<<m, "reply">>}
    /\ mq' = [mq EXCEPT ![m.key] = Append(Got(@), m)]
    /\ UNCHANGED <<shm, obj, mem, rq, pc, req, pulled, server, kill, killer,
                   crashes>>

\* Serve returns, the server is destructed and its process ends, with every
\* thread that is still in it.
ServerExit ==
    /\ server = "leave"
    /\ server' = "down"
    /\ handlers' = {}
    /\ killer' = "done"
    /\ mq' = [mq EXCEPT ![Server] = None]
    /\ UNCHANGED <<shm, obj, mem, rq, pc, req, pulled, kill, crashes>>

\* The process of the server ends without the destructor: its threads are gone,
\* its queue stays in the kernel.
ServerDies ==
    /\ server \notin {"off", "down"} /\ crashes < MaxCrashes
    /\ server' = "down"
    /\ handlers' = {}
    /\ killer' = "done"
    /\ crashes' = crashes + 1
    /\ UNCHANGED <<mq, shm, obj, mem, rq, pc, req, pulled, kill>>

\* signal_handler up to the recvMsg of killServer.  When it runs on the
\* serving thread, Serve cannot go on before it returns; the reply it waits
\* for comes from a message that only Serve receives.
Signal(th) ==
    /\ server \in {"loop", "recv"} /\ ~kill
    /\ kill' = TRUE
    /\ IF th = "serve"
       THEN server' = "handler" /\ UNCHANGED killer
       ELSE killer' = "wait" /\ UNCHANGED server
    /\ mq' = [mq EXCEPT ![KillKey] = Got(@),
                        ![Server] = Sent(@, Message(KillKey, None))]
    /\ UNCHANGED <<shm, objects, calls, handlers, crashes>>

\* killServer gets its reply and destroys its client.
KillAnswered ==
    /\ killer = "wait" /\ mq[KillKey] # <<>>
    /\ killer' = "done"
    /\ mq' = [mq EXCEPT ![KillKey] = None]
    /\ UNCHANGED <<shm, objects, calls, server, handlers, kill, crashes>>

-----------------------------------------------------------------------------
Handler == \E h \in handlers : HandleCallback(h[1]) \/ HandleReply(h[1])

ServerStep ==
    \/ ServeTest \/ ServeRecv \/ ServerExit \/ KillAnswered
    \/ Handler

PushPull(t) == SendRequest(t) \/ RecvReply(t) \/ Pull(t)

Next ==
    \/ ServerStart \/ ServerDies \/ ServerStep
    \/ \E th \in Signals : Signal(th)
    \/ \E o \in Objects :
          CreateShareMem(o) \/ CreateMsgQueue(o) \/ ProcessDies(o) \/ Destruct(o)
    \/ \E t \in Callers : Push(t) \/ PushFaults(t) \/ PushPull(t)

Spec == Init /\ [][Next]_vars

\* Threads keep running, and the callback of the server returns.
Fairness ==
    /\ WF_vars(ServeTest) /\ WF_vars(ServeRecv) /\ WF_vars(ServerExit)
    /\ WF_vars(Handler)
    /\ \A t \in Callers : WF_vars(PushPull(t))

FairSpec == Spec /\ Fairness

-----------------------------------------------------------------------------
(* Properties                                                              *)

\* The variables keep their types, and every message carries the key of the
\* client that is to get it back.
TypeOK ==
    /\ mq \in [Keys \cup {Server, KillKey} -> {None} \cup Seq(Messages)]
    /\ shm \in [Keys -> {None} \cup Contents]
    /\ obj \in [Objects -> {"none", "shm", "ready"}]
    /\ mem \in [Objects -> BOOLEAN] /\ rq \in [Objects -> BOOLEAN]
    /\ pc \in [Callers -> {"idle", "send", "wait", "pull"}]
    /\ req \in [Callers -> 0 .. MaxRequests]
    /\ pulled \in [Callers -> {None} \cup Contents]
    /\ server \in {"off", "loop", "recv", "leave", "down", "handler"}
    /\ handlers \subseteq Messages \X {"cb", "reply"}
    /\ kill \in BOOLEAN /\ killer \in {"idle", "wait", "done"}
    /\ crashes \in 0 .. MaxCrashes

\* What PushPull hands back is the caller's own data, processed by the server:
\* the reply it waited for was not a reply to somebody else or to an earlier
\* process with the key.
PulledIsProcessed ==
    \A t \in Callers : pulled[t] # None => pulled[t] = Content(Request(t), TRUE)

\* The callback of the server never works on a segment while the client copies
\* data in or out of it.
NoOverlap ==
    \A h \in handlers, t \in Callers :
        (h[2] = "cb" /\ h[1].key = Key[Object[t]] /\ mem[Object[t]])
            => pc[t] = "wait" /\ h[1].id = Request(t)

\* Every PushPull that waits gets its reply, as long as the server lives and
\* nobody stops it.
PushPullReturns ==
    \A t \in Callers : []<>(pc[t] # "wait" \/ kill \/ server = "down")

\* "Signal %d received, preparing to exit...": a signal ends the server.  (Neither
\* of the two is ever undone.)
SignalStopsServer == []<>(kill => server = "down")
=============================================================================
