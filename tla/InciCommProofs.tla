--------------------------- MODULE InciCommProofs ---------------------------
(***************************************************************************)
(* The proof that PushPull hands back the caller's own data, processed,    *)
(* and that the server never works on a segment while the client copies,   *)
(* for any number of clients with keys of their own and one thread each,   *)
(* requests, crashes and stops of the server.                              *)
(*                                                                         *)
(* A key is free, owned by the one object that has mapped its segment, or  *)
(* spent: left behind by a process that died.  A spent key is never mapped *)
(* again, because createShareMem asks for IPC_EXCL.  A key that is owned   *)
(* has a message under way only while its caller waits, and only one.      *)
(***************************************************************************)
EXTENDS InciComm, SequenceTheorems, TLAPS

\* What is asked of the constants.
Clients == InciCommConstants /\ OneCallerPerKey

-----------------------------------------------------------------------------
(* The messages of a key                                                   *)

HasKey(s, k) == \E i \in 1 .. Len(s) : s[i].key = k
Single(s, k) == \A i, j \in 1 .. Len(s) : s[i].key = k /\ s[j].key = k => i = j
Ids(s, k, id) == \A i \in 1 .. Len(s) : s[i].key = k => s[i].id = id

\* In the queue of the server, in its threads, in the queue of the client.
AtServer(k) == HasKey(Got(mq[Server]), k)
AtServerOnce(k, id) == Single(Got(mq[Server]), k) /\ Ids(Got(mq[Server]), k, id)
NoHandler(k) == \A h \in handlers : h[1].key # k
NoReply(k) == Got(mq[k]) = <<>>

\* No message with the key is anywhere.
Quiet(k) == ~AtServer(k) /\ NoHandler(k) /\ NoReply(k)

-----------------------------------------------------------------------------
(* The inductive invariant                                                 *)

KeyOf(t) == Key[Object[t]]
Done(t) == shm[KeyOf(t)] = Content(Request(t), TRUE)

\* Nothing is under way for a key without a segment, and the key of an object
\* has one.
Free(o) ==
    /\ shm[Key[o]] = None => mq[Key[o]] = None /\ Quiet(Key[o])
    /\ obj[o] # "none" => shm[Key[o]] # None

\* An object that has mapped its segment has, or will have, its own queue, and
\* while its caller does not wait nothing is under way.
Owned(o) == mem[o] =>
    /\ \/ obj[o] = "shm" /\ mq[Key[o]] = None
       \/ obj[o] = "ready" /\ rq[o] /\ mq[Key[o]] # None
    /\ (\A t \in UsersOf(o) : pc[t] # "wait") => Quiet(Key[o])

\* A caller inside PushPull has its data in the segment.
Busy(t) == pc[t] # "idle" =>
    /\ obj[Object[t]] = "ready" /\ mem[Object[t]] /\ req[t] > 0
    /\ shm[KeyOf(t)] \in {Content(Request(t), FALSE), Content(Request(t), TRUE)}

\* The one message of a caller that waits, and what it says of the segment.
Waiting(t) == pc[t] = "wait" =>
    /\ AtServer(KeyOf(t)) =>
          /\ AtServerOnce(KeyOf(t), Request(t))
          /\ NoHandler(KeyOf(t)) /\ NoReply(KeyOf(t))
    /\ \A h \in handlers : h[1].key = KeyOf(t) =>
          /\ h[1].id = Request(t)
          /\ h[2] = "reply" => Done(t)
          /\ \A g \in handlers : g[1].key = KeyOf(t) => g = h
          /\ NoReply(KeyOf(t))
    /\ ~NoReply(KeyOf(t)) => Len(Got(mq[KeyOf(t)])) = 1 /\ Done(t)

\* What a caller has read, or is about to read, is its data, processed.
Answered(t) ==
    /\ pc[t] = "pull" => Done(t)
    /\ pulled[t] # None => pulled[t] = Content(Request(t), TRUE)

Client(o) ==
    /\ Free(o) /\ Owned(o)
    /\ \A t \in UsersOf(o) : Busy(t) /\ Waiting(t) /\ Answered(t)

\* A server that runs has its queue.
Running == server \in {"loop", "recv", "leave", "handler"} => mq[Server] # None

Inv == TypeOK /\ Running /\ \A o \in Objects : Client(o)

-----------------------------------------------------------------------------
(* Queues                                                                  *)

\* A message sent to a queue adds its own key and no other.
LEMMA AppendKeys ==
    ASSUME NEW M, NEW s \in Seq(M), NEW m \in M, NEW k
    PROVE  /\ m.key # k => (HasKey(Append(s, m), k) => HasKey(s, k))
           /\ m.key # k => (Single(s, k) => Single(Append(s, m), k))
           /\ m.key # k => \A id : Ids(s, k, id) => Ids(Append(s, m), k, id)
           /\ ~HasKey(s, k) => Single(Append(s, m), k)
           /\ ~HasKey(s, k) => Ids(Append(s, m), k, m.id)
<1> DEFINE a == Append(s, m)
<1>1. /\ Len(s) \in Nat /\ Len(a) = Len(s) + 1 /\ a[Len(s) + 1] = m
      /\ \A i \in 1 .. Len(s) : a[i] = s[i]
  OBVIOUS
<1>2. \A i \in 1 .. Len(a) : i \in 1 .. Len(s) \/ i = Len(s) + 1
  BY <1>1
<1> HIDE DEF a
<1>3. m.key # k => (HasKey(a, k) => HasKey(s, k))
  BY <1>1, <1>2 DEF HasKey
<1>4. m.key # k => (Single(s, k) => Single(a, k))
  BY <1>1, <1>2 DEF Single
<1>5. m.key # k => \A id : Ids(s, k, id) => Ids(a, k, id)
  BY <1>1, <1>2 DEF Ids
<1>6. ~HasKey(s, k) => Single(a, k)
  BY <1>1, <1>2 DEF Single, HasKey
<1>7. ~HasKey(s, k) => Ids(a, k, m.id)
  BY <1>1, <1>2 DEF Ids, HasKey
<1>8. QED
  BY <1>3, <1>4, <1>5, <1>6, <1>7 DEF a

\* Taking the first message from a queue removes it and adds nothing.
LEMMA TailKeys ==
    ASSUME NEW M, NEW s \in Seq(M), s # << >>, NEW k
    PROVE  /\ HasKey(Tail(s), k) => HasKey(s, k)
           /\ Single(s, k) => Single(Tail(s), k)
           /\ \A id : Ids(s, k, id) => Ids(Tail(s), k, id)
           /\ Head(s).key = k => HasKey(s, k)
           /\ Head(s).key = k /\ Single(s, k) => ~HasKey(Tail(s), k)
           /\ \A id : Head(s).key = k /\ Ids(s, k, id) => Head(s).id = id
<1> DEFINE b == Tail(s)
<1>1. /\ Len(s) \in Nat /\ Len(s) > 0 /\ Len(b) = Len(s) - 1 /\ Head(s) = s[1]
      /\ \A i \in 1 .. Len(b) : b[i] = s[i + 1]
  OBVIOUS
<1>2. \A i \in 1 .. Len(b) : i + 1 \in 1 .. Len(s) /\ i + 1 # 1
  BY <1>1
<1>3. 1 \in 1 .. Len(s)
  BY <1>1
<1>4. \A i, j \in 1 .. Len(b) : i + 1 = j + 1 => i = j
  BY <1>1
<1> HIDE DEF b
<1>5. HasKey(b, k) => HasKey(s, k)
  BY <1>1, <1>2 DEF HasKey
<1>6. Single(s, k) => Single(b, k)
  <2> SUFFICES ASSUME Single(s, k), NEW i \in 1 .. Len(b), NEW j \in 1 .. Len(b),
                      b[i].key = k, b[j].key = k
               PROVE  i = j
    BY DEF Single
  <2>1. i + 1 \in 1 .. Len(s) /\ j + 1 \in 1 .. Len(s)
    BY <1>2
  <2>2. s[i + 1].key = k /\ s[j + 1].key = k
    BY <1>1
  <2>3. i + 1 = j + 1
    BY <2>1, <2>2 DEF Single
  <2>4. QED
    BY <2>3, <1>4
<1>7. \A id : Ids(s, k, id) => Ids(b, k, id)
  BY <1>1, <1>2 DEF Ids
<1>8. Head(s).key = k => HasKey(s, k)
  BY <1>1, <1>3 DEF HasKey
<1>9. Head(s).key = k /\ Single(s, k) => ~HasKey(b, k)
  BY <1>1, <1>2, <1>3 DEF HasKey, Single
<1>10. \A id : Head(s).key = k /\ Ids(s, k, id) => Head(s).id = id
  BY <1>1, <1>3 DEF Ids
<1>11. QED
  BY <1>5, <1>6, <1>7, <1>8, <1>9, <1>10 DEF b

\* An empty queue has no key.
LEMMA EmptyKeys ==
    ASSUME NEW k
    PROVE  /\ ~HasKey(<< >>, k) /\ Single(<< >>, k)
           /\ \A id : Ids(<< >>, k, id)
<1>1. Len(<< >>) = 0
  OBVIOUS
<1>2. QED
  BY <1>1 DEF HasKey, Single, Ids

\* What getMsgQueue and sendMsg make of a queue.
LEMMA Queues ==
    ASSUME Clients, NEW q \in {None} \cup Seq(Messages), NEW m \in Messages
    PROVE  /\ Got(q) \in Seq(Messages)
           /\ Sent(q, m) \in {None} \cup Seq(Messages)
           /\ Append(Got(q), m) \in Seq(Messages)
           /\ q \notin {None, << >>} =>
                 /\ Tail(q) \in Seq(Messages) /\ Head(q) \in Messages
                 /\ Got(q) = q
BY DEF Got, Sent, Clients, InciCommConstants

-----------------------------------------------------------------------------
(* What a step leaves alone                                                *)

\* A step adds nothing with the key to the queue of the server.
ServerKeeps(k) ==
    /\ AtServer(k)' => AtServer(k)
    /\ \A id : AtServerOnce(k, id) => AtServerOnce(k, id)'

\* A step leaves an object and its callers alone, and gives it no message.
Untouched(o) ==
    /\ obj'[o] = obj[o] /\ mem'[o] = mem[o] /\ rq'[o] = rq[o]
    /\ mq'[Key[o]] = mq[Key[o]] /\ shm'[Key[o]] = shm[Key[o]]
    /\ \A t \in UsersOf(o) : pc'[t] = pc[t] /\ req'[t] = req[t] /\ pulled'[t] = pulled[t]
    /\ ServerKeeps(Key[o])
    /\ \A h \in handlers' : h[1].key = Key[o] => h \in handlers

LEMMA KeepsSame ==
    ASSUME Got(mq'[Server]) = Got(mq[Server]), NEW k
    PROVE  ServerKeeps(k)
BY DEF ServerKeeps, AtServer, AtServerOnce

LEMMA KeepsEmpty ==
    ASSUME Got(mq'[Server]) = << >>, NEW k
    PROVE  ServerKeeps(k)
BY EmptyKeys DEF ServerKeeps, AtServer, AtServerOnce

LEMMA KeepsSent ==
    ASSUME Clients, mq[Server] \in {None} \cup Seq(Messages),
           NEW m \in Messages, mq'[Server] = Sent(mq[Server], m),
           NEW k, m.key # k
    PROVE  ServerKeeps(k)
<1>1. CASE mq[Server] = None
  <2>1. Got(mq'[Server]) = Got(mq[Server])
    BY <1>1 DEF Sent
  <2>2. QED
    BY <2>1, KeepsSame
<1>2. CASE mq[Server] # None
  <2> DEFINE s == mq[Server]
  <2>1. s \in Seq(Messages) /\ Got(mq[Server]) = s
    BY <1>2 DEF Got
  <2>2. mq'[Server] = Append(s, m) /\ mq'[Server] # None
    <3>1. mq'[Server] = Append(s, m)
      BY <1>2 DEF Sent
    <3>2. Append(s, m) \in Seq(Messages)
      BY <2>1
    <3>3. QED
      BY <3>1, <3>2 DEF Clients, InciCommConstants
  <2>3. Got(mq'[Server]) = Append(s, m)
    BY <2>2 DEF Got
  <2> HIDE DEF s
  <2>4. QED
    BY <2>1, <2>3, AppendKeys DEF ServerKeeps, AtServer, AtServerOnce
<1>3. QED
  BY <1>1, <1>2

LEMMA KeepsTail ==
    ASSUME Clients, mq[Server] \in Seq(Messages), mq[Server] # << >>,
           mq'[Server] = Tail(mq[Server]), NEW k
    PROVE  ServerKeeps(k)
<1> DEFINE s == mq[Server]
<1>1. s # None /\ Tail(s) # None /\ s \in Seq(Messages) /\ s # << >>
  BY DEF Clients, InciCommConstants
<1>2. Got(mq[Server]) = s /\ Got(mq'[Server]) = Tail(s)
  BY <1>1 DEF Got
<1> HIDE DEF s
<1>3. QED
  <2>1. /\ HasKey(Tail(s), k) => HasKey(s, k)
        /\ Single(s, k) => Single(Tail(s), k)
        /\ \A id : Ids(s, k, id) => Ids(Tail(s), k, id)
    BY <1>1, TailKeys
  <2>2. /\ AtServer(k) <=> HasKey(s, k)
        /\ AtServer(k)' <=> HasKey(Tail(s), k)
    BY <1>2 DEF AtServer
  <2>3. \A id : /\ AtServerOnce(k, id) <=> Single(s, k) /\ Ids(s, k, id)
                /\ AtServerOnce(k, id)' <=> Single(Tail(s), k) /\ Ids(Tail(s), k, id)
    BY <1>2 DEF AtServerOnce
  <2>4. QED
    BY <2>1, <2>2, <2>3 DEF ServerKeeps

\* An object that a step leaves alone stays as it should be.
LEMMA Frame ==
    ASSUME NEW o \in Objects, Client(o), Untouched(o)
    PROVE  Client(o)'
<1>1. UsersOf(o)' = UsersOf(o)
  BY DEF UsersOf
<1>2. \A t \in UsersOf(o) : KeyOf(t) = Key[o] /\ Object[t] = o
  BY DEF UsersOf, KeyOf
<1>3. NoReply(Key[o])' <=> NoReply(Key[o])
  BY DEF Untouched, NoReply
<1>4. NoHandler(Key[o]) => NoHandler(Key[o])'
  BY DEF Untouched, NoHandler
<1>5. Quiet(Key[o]) => Quiet(Key[o])'
  BY <1>3, <1>4 DEF Quiet, Untouched, ServerKeeps
<1>6. Free(o)'
  BY <1>5 DEF Client, Free, Untouched
<1>7. Owned(o)'
  BY <1>1, <1>5 DEF Client, Owned, Untouched
<1>8. ASSUME NEW t \in UsersOf(o)
      PROVE  Busy(t)' /\ Waiting(t)' /\ Answered(t)'
  <2>1. /\ KeyOf(t) = Key[o] /\ Object[t] = o
        /\ Request(t)' = Request(t) /\ (Done(t)' <=> Done(t))
        /\ pc'[t] = pc[t] /\ pulled'[t] = pulled[t] /\ req'[t] = req[t]
    BY <1>2 DEF Untouched, Request, Done, KeyOf
  <2>2. Busy(t)'
    BY <2>1 DEF Client, Busy, Untouched
  <2>3. Answered(t)'
    BY <2>1 DEF Client, Answered
  <2>4. Waiting(t)'
    BY <2>1, <1>3, <1>4 DEF Client, Waiting, Untouched, ServerKeeps
  <2>5. QED
    BY <2>2, <2>3, <2>4
<1>9. QED
  BY <1>1, <1>6, <1>7, <1>8 DEF Client

\* The keys of the objects are apart, and those of the server are not theirs.
LEMMA KeysApart ==
    ASSUME Clients, NEW o \in Objects
    PROVE  /\ Key[o] \in Keys /\ Key[o] \notin {Server, KillKey, None}
           /\ Server # KillKey
           /\ \A p \in Objects : p # o => Key[p] # Key[o]
           /\ \A t \in Callers : t \in UsersOf(o) <=> Object[t] = o
           /\ \A t, u \in UsersOf(o) : t = u
           /\ UsersOf(o) \subseteq Callers
BY DEF Clients, InciCommConstants, OneCallerPerKey, Keys, UsersOf

\* The message of a caller.
LEMMA RequestMessage ==
    ASSUME Clients, NEW t \in Callers, NEW r \in 1 .. MaxRequests
    PROVE  /\ Message(Key[Object[t]], <<t, r>>) \in Messages
           /\ Message(Key[Object[t]], <<t, r>>).key = Key[Object[t]]
           /\ Message(Key[Object[t]], <<t, r>>).id = <<t, r>>
           /\ \A d \in BOOLEAN : Content(<<t, r>>, d) \in Contents
           /\ \A d \in BOOLEAN : Content(<<t, r>>, d) # None
<1>1. Key[Object[t]] \in Keys
  BY KeysApart DEF Clients, InciCommConstants
<1>2. <<t, r>> \in Requests
  BY DEF Requests
<1>3. \A d \in BOOLEAN : Content(<<t, r>>, d) \in Contents
  BY <1>2 DEF Content, Contents
<1>4. None \notin Contents
  BY DEF Clients, InciCommConstants
<1>5. QED
  BY <1>1, <1>2, <1>3, <1>4 DEF Message, Messages

-----------------------------------------------------------------------------
(* The initial states                                                      *)

LEMMA InitInv ==
    ASSUME Clients, Init
    PROVE  Inv
<1>1. /\ Server \in Keys \cup {Server, KillKey}
      /\ \A o \in Objects : Key[o] \in Keys
      /\ \A t \in Callers : Object[t] \in Objects
  BY DEF Keys, Clients, InciCommConstants
<1>2. TypeOK
  <2>1. /\ mq \in [Keys \cup {Server, KillKey} -> {None} \cup Seq(Messages)]
        /\ shm \in [Keys -> {None} \cup Contents]
        /\ obj \in [Objects -> {"none", "shm", "ready"}]
    BY DEF Init
  <2>2. mem \in [Objects -> BOOLEAN] /\ rq \in [Objects -> BOOLEAN]
    BY DEF Init
  <2>3. /\ pc \in [Callers -> {"idle", "send", "wait", "pull"}]
        /\ req \in [Callers -> 0 .. MaxRequests] /\ crashes \in 0 .. MaxCrashes
    BY DEF Init, Clients, InciCommConstants
  <2>4. pulled \in [Callers -> {None} \cup Contents]
    BY DEF Init
  <2>5. QED
    BY <2>1, <2>2, <2>3, <2>4 DEF Init, TypeOK
<1>3. Running
  BY DEF Init, Running
<1>4. \A o \in Objects : Client(o)
  <2> SUFFICES ASSUME NEW o \in Objects PROVE Client(o)
    OBVIOUS
  <2>1. mq[Key[o]] = None /\ mq[Server] = None /\ obj[o] = "none" /\ ~mem[o]
    BY <1>1 DEF Init
  <2>2. Quiet(Key[o])
    BY <2>1, EmptyKeys DEF Quiet, AtServer, NoHandler, NoReply, Got, Init
  <2>3. Free(o) /\ Owned(o)
    BY <2>1, <2>2 DEF Free, Owned
  <2>4. \A t \in UsersOf(o) : pc[t] = "idle" /\ pulled[t] = None
    BY DEF UsersOf, Init
  <2>5. QED
    BY <2>3, <2>4 DEF Client, Busy, Waiting, Answered
<1>5. QED
  BY <1>2, <1>3, <1>4 DEF Inv

-----------------------------------------------------------------------------
(* The steps of a CommClient                                               *)

LEMMA CreateShareMemInv ==
    ASSUME Clients, Inv, NEW o \in Objects, CreateShareMem(o)
    PROVE  Inv'
<1> DEFINE k == Key[o]
<1>1. UNCHANGED <<mq, rq, pc, req, pulled, server, handlers, kill, killer, crashes>>
  BY DEF CreateShareMem, calls, serving
<1>2. TypeOK
  BY DEF Inv
<1>3. Content(None, FALSE) \in Contents /\ Content(None, FALSE) # None
  <2>1. Content(None, FALSE) \in Contents
    BY DEF Content, Contents
  <2>2. QED
    BY <2>1 DEF Clients, InciCommConstants
<1>4. /\ k \in Keys /\ k \notin {Server, KillKey}
      /\ obj[o] = "none" /\ obj'[o] = "shm" /\ shm'[k] # None
      /\ mem'[o] <=> shm[k] = None
  <2>1. k \in Keys /\ k \notin {Server, KillKey}
    BY KeysApart
  <2>2. obj[o] = "none" /\ obj'[o] = "shm"
    BY <1>2 DEF CreateShareMem, TypeOK
  <2>3. shm'[k] # None
    BY <1>2, <1>3, <2>1 DEF CreateShareMem, TypeOK
  <2>4. mem' = [mem EXCEPT ![o] = (shm[k] = None)] /\ mem \in [Objects -> BOOLEAN]
    BY <1>2 DEF CreateShareMem, TypeOK
  <2>5. mem'[o] <=> shm[k] = None
    BY <2>4, Zenon
  <2>6. QED
    BY <2>1, <2>2, <2>3, <2>5
<1>5. TypeOK'
  <2>1. shm' \in [Keys -> {None} \cup Contents]
    BY <1>2, <1>3 DEF CreateShareMem, TypeOK
  <2>2. obj' \in [Objects -> {"none", "shm", "ready"}] /\ mem' \in [Objects -> BOOLEAN]
    BY <1>2 DEF CreateShareMem, TypeOK
  <2>3. QED
    BY <1>1, <1>2, <2>1, <2>2 DEF TypeOK
<1>6. Running'
  BY <1>1 DEF Inv, Running
<1>7. ASSUME NEW p \in Objects, p # o
      PROVE  Untouched(p)
  <2>1. obj'[p] = obj[p] /\ mem'[p] = mem[p]
    BY <1>2, <1>7 DEF CreateShareMem, TypeOK
  <2>2. shm'[Key[p]] = shm[Key[p]]
    BY <1>2, <1>7, KeysApart DEF CreateShareMem, TypeOK
  <2>3. ServerKeeps(Key[p])
    BY <1>1, KeepsSame
  <2>4. QED
    BY <1>1, <2>1, <2>2, <2>3 DEF Untouched
<1>8. Client(o)'
  <2>0. Client(o)
    BY DEF Inv
  <2>1. \A t \in UsersOf(o) : t \in Callers /\ Object[t] = o /\ pc[t] = "idle"
    BY <2>0, <1>4, KeysApart DEF Client, Busy
  <2>2. Quiet(k)' <=> Quiet(k)
    BY <1>1 DEF Quiet, AtServer, NoHandler, NoReply
  <2>3. Free(o)'
    BY <1>4 DEF Free
  <2>4. Owned(o)'
    BY <1>1, <1>4, <2>0, <2>2 DEF Owned, Client, Free
  <2>5. \A t \in UsersOf(o) : Busy(t)' /\ Waiting(t)' /\ Answered(t)'
    BY <1>1, <2>0, <2>1 DEF Client, Busy, Waiting, Answered, Request
  <2>6. UsersOf(o)' = UsersOf(o)
    BY DEF UsersOf
  <2>7. QED
    BY <2>3, <2>4, <2>5, <2>6 DEF Client
<1>9. QED
  BY <1>5, <1>6, <1>7, <1>8, Frame DEF Inv

LEMMA CreateMsgQueueInv ==
    ASSUME Clients, Inv, NEW o \in Objects, CreateMsgQueue(o)
    PROVE  Inv'
<1> DEFINE k == Key[o]
<1>1. UNCHANGED <<shm, mem, pc, req, pulled, server, handlers, kill, killer, crashes>>
  BY DEF CreateMsgQueue, calls, serving
<1>2. TypeOK
  BY DEF Inv
<1>3. /\ k \in Keys /\ k \notin {Server, KillKey}
      /\ obj[o] = "shm" /\ obj'[o] = "ready"
      /\ rq'[o] <=> mq[k] = None
  <2>1. k \in Keys /\ k \notin {Server, KillKey}
    BY KeysApart
  <2>2. obj[o] = "shm" /\ obj'[o] = "ready"
    BY <1>2 DEF CreateMsgQueue, TypeOK
  <2>3. rq' = [rq EXCEPT ![o] = (mq[k] = None)] /\ rq \in [Objects -> BOOLEAN]
    BY <1>2 DEF CreateMsgQueue, TypeOK
  <2>4. rq'[o] <=> mq[k] = None
    BY <2>3, Zenon
  <2>5. QED
    BY <2>1, <2>2, <2>4
<1>4. /\ mq'[k] = Got(mq[k]) /\ mq'[Server] = Got(mq[Server])
      /\ \A j \in Keys : j # k => mq'[j] = mq[j]
  BY <1>2, <1>3, KeysApart DEF CreateMsgQueue, TypeOK, Clients, InciCommConstants
<1>5. /\ mq'[k] # None /\ Got(mq'[k]) = Got(mq[k])
      /\ mq'[Server] # None /\ Got(mq'[Server]) = Got(mq[Server])
  <2>1. /\ mq[k] \in {None} \cup Seq(Messages)
        /\ mq[Server] \in {None} \cup Seq(Messages)
    BY <1>2, <1>3 DEF TypeOK
  <2>2. Got(mq[k]) \in Seq(Messages) /\ Got(mq[Server]) \in Seq(Messages)
    BY <2>1 DEF Got
  <2>3. QED
    BY <1>4, <2>2 DEF Got, Clients, InciCommConstants
<1>6. TypeOK'
  <2>1. mq' \in [Keys \cup {Server, KillKey} -> {None} \cup Seq(Messages)]
    <3>1. \A q \in {None} \cup Seq(Messages) : Got(q) \in {None} \cup Seq(Messages)
      BY DEF Got
    <3>2. /\ mq' = [mq EXCEPT ![k] = Got(@), ![Server] = Got(@)]
          /\ mq \in [Keys \cup {Server, KillKey} -> {None} \cup Seq(Messages)]
      BY <1>2 DEF CreateMsgQueue, TypeOK
    <3>3. QED
      BY <3>1, <3>2
  <2>2. obj' \in [Objects -> {"none", "shm", "ready"}] /\ rq' \in [Objects -> BOOLEAN]
    BY <1>2 DEF CreateMsgQueue, TypeOK
  <2>3. QED
    BY <1>1, <1>2, <2>1, <2>2 DEF TypeOK
<1>7. Running'
  BY <1>5 DEF Running
<1>8. ASSUME NEW p \in Objects, p # o
      PROVE  Untouched(p)
  <2>1. obj'[p] = obj[p] /\ rq'[p] = rq[p]
    BY <1>2, <1>8 DEF CreateMsgQueue, TypeOK
  <2>2. mq'[Key[p]] = mq[Key[p]]
    BY <1>4, <1>8, KeysApart
  <2>3. ServerKeeps(Key[p])
    BY <1>5, KeepsSame
  <2>4. QED
    BY <1>1, <2>1, <2>2, <2>3 DEF Untouched
<1>9. Client(o)'
  <2>0. Client(o)
    BY DEF Inv
  <2>1. \A t \in UsersOf(o) : t \in Callers /\ Object[t] = o /\ pc[t] = "idle"
    BY <2>0, <1>3, KeysApart DEF Client, Busy
  <2>2. Quiet(k)' <=> Quiet(k)
    BY <1>1, <1>5 DEF Quiet, AtServer, NoHandler, NoReply
  <2>3. Free(o)'
    BY <1>1, <1>3, <2>0 DEF Free, Client
  <2>4. mem[o] => mq[k] = None
    BY <1>3, <2>0 DEF Client, Owned
  <2>5. Owned(o)'
    BY <1>1, <1>3, <1>5, <2>0, <2>2, <2>4 DEF Owned, Client, UsersOf
  <2>6. \A t \in UsersOf(o) : Busy(t)' /\ Waiting(t)' /\ Answered(t)'
    BY <1>1, <2>0, <2>1 DEF Client, Busy, Waiting, Answered, Request
  <2>7. UsersOf(o)' = UsersOf(o)
    BY DEF UsersOf
  <2>8. QED
    BY <2>3, <2>5, <2>6, <2>7 DEF Client
<1>10. QED
  BY <1>6, <1>7, <1>8, <1>9, Frame DEF Inv

\* The process of an object dies.
LEMMA AbandonInv ==
    ASSUME Clients, Inv, NEW o \in Objects, crashes < MaxCrashes, Abandon(o)
    PROVE  Inv'
<1>1. UNCHANGED <<mq, shm, req, server, handlers, kill, killer>>
  BY DEF Abandon, ipc, serving
<1>2. TypeOK
  BY DEF Inv
<1>3. obj'[o] = "none" /\ ~mem'[o]
  BY <1>2 DEF Abandon, TypeOK
<1>4. \A t \in UsersOf(o) : pc'[t] = "idle" /\ pulled'[t] = None
  BY DEF Abandon, UsersOf
<1>5. TypeOK'
  <2>1. /\ obj' \in [Objects -> {"none", "shm", "ready"}]
        /\ mem' \in [Objects -> BOOLEAN] /\ rq' \in [Objects -> BOOLEAN]
    BY <1>2 DEF Abandon, TypeOK
  <2>2. pc' \in [Callers -> {"idle", "send", "wait", "pull"}]
    BY <1>2 DEF Abandon, TypeOK
  <2>3. pulled' \in [Callers -> {None} \cup Contents]
    BY <1>2 DEF Abandon, TypeOK
  <2>4. crashes' \in 0 .. MaxCrashes
    BY <1>2 DEF Abandon, TypeOK, Clients, InciCommConstants
  <2>5. QED
    BY <1>1, <1>2, <2>1, <2>2, <2>3, <2>4 DEF TypeOK
<1>6. Running'
  BY <1>1 DEF Inv, Running
<1>7. ASSUME NEW p \in Objects, p # o
      PROVE  Untouched(p)
  <2>1. obj'[p] = obj[p] /\ mem'[p] = mem[p] /\ rq'[p] = rq[p]
    BY <1>2, <1>7 DEF Abandon, TypeOK
  <2>2. \A t \in UsersOf(p) : pc'[t] = pc[t] /\ pulled'[t] = pulled[t]
    BY <1>7 DEF Abandon, UsersOf
  <2>3. ServerKeeps(Key[p])
    BY <1>1, KeepsSame
  <2>4. QED
    BY <1>1, <2>1, <2>2, <2>3 DEF Untouched
<1>8. Client(o)'
  <2>1. Quiet(Key[o])' <=> Quiet(Key[o])
    BY <1>1 DEF Quiet, AtServer, NoHandler, NoReply
  <2>2. Free(o)' /\ Owned(o)'
    BY <1>1, <1>3, <2>1 DEF Inv, Client, Free, Owned
  <2>3. \A t \in UsersOf(o) : Busy(t)' /\ Waiting(t)' /\ Answered(t)'
    BY <1>4 DEF Busy, Waiting, Answered
  <2>4. UsersOf(o)' = UsersOf(o)
    BY DEF UsersOf
  <2>5. QED
    BY <2>2, <2>3, <2>4 DEF Client
<1>9. QED
  BY <1>5, <1>6, <1>7, <1>8, Frame DEF Inv

LEMMA DestructInv ==
    ASSUME Clients, Inv, NEW o \in Objects, Destruct(o)
    PROVE  Inv'
<1> DEFINE k == Key[o]
<1>1. UNCHANGED <<pc, req, pulled, server, handlers, kill, killer, crashes>>
  BY DEF Destruct, calls, serving
<1>2. TypeOK /\ Client(o)
  BY DEF Inv
<1>3. k \in Keys /\ k \notin {Server, KillKey}
  BY KeysApart
<1>4. obj'[o] = "none" /\ ~mem'[o] /\ obj[o] = "ready"
  BY <1>2 DEF Destruct, TypeOK
<1>5. mem[o] => rq[o] /\ Quiet(k)
  BY <1>2, <1>4 DEF Client, Owned, Destruct
<1>6. /\ mem[o] => shm'[k] = None /\ mq'[k] = None
      /\ ~mem[o] => shm' = shm /\ mq' = mq
      /\ \A j \in Keys : j # k => shm'[j] = shm[j] /\ mq'[j] = mq[j]
      /\ mq'[Server] = mq[Server]
  BY <1>2, <1>3, <1>5 DEF Destruct, TypeOK
<1>7. TypeOK'
  <2>1. /\ mq' \in [Keys \cup {Server, KillKey} -> {None} \cup Seq(Messages)]
        /\ shm' \in [Keys -> {None} \cup Contents]
    BY <1>2 DEF Destruct, TypeOK
  <2>2. /\ obj' \in [Objects -> {"none", "shm", "ready"}]
        /\ mem' \in [Objects -> BOOLEAN] /\ rq' \in [Objects -> BOOLEAN]
    BY <1>2 DEF Destruct, TypeOK
  <2>3. QED
    BY <1>1, <1>2, <2>1, <2>2 DEF TypeOK
<1>8. Running'
  BY <1>1, <1>6 DEF Inv, Running
<1>9. ASSUME NEW p \in Objects, p # o
      PROVE  Untouched(p)
  <2>1. obj'[p] = obj[p] /\ mem'[p] = mem[p] /\ rq'[p] = rq[p]
    BY <1>2, <1>9 DEF Destruct, TypeOK
  <2>2. mq'[Key[p]] = mq[Key[p]] /\ shm'[Key[p]] = shm[Key[p]]
    BY <1>6, <1>9, KeysApart
  <2>3. ServerKeeps(Key[p])
    BY <1>6, KeepsSame
  <2>4. QED
    BY <1>1, <2>1, <2>2, <2>3 DEF Untouched
<1>10. Client(o)'
  <2>1. \A t \in UsersOf(o) : t \in Callers /\ pc[t] = "idle"
    BY KeysApart DEF Destruct
  <2>2. mem[o] => Quiet(k)'
    BY <1>1, <1>5, <1>6 DEF Quiet, AtServer, NoHandler, NoReply, Got
  <2>3. ~mem[o] => (Quiet(k)' <=> Quiet(k))
    BY <1>1, <1>6 DEF Quiet, AtServer, NoHandler, NoReply
  <2>4. Free(o)'
    BY <1>2, <1>4, <1>6, <2>2, <2>3 DEF Free, Client
  <2>5. Owned(o)'
    BY <1>4 DEF Owned
  <2>6. \A t \in UsersOf(o) : Busy(t)' /\ Waiting(t)' /\ Answered(t)'
    BY <1>1, <1>2, <2>1 DEF Client, Busy, Waiting, Answered, Request
  <2>7. UsersOf(o)' = UsersOf(o)
    BY DEF UsersOf
  <2>8. QED
    BY <2>4, <2>5, <2>6, <2>7 DEF Client
<1>11. QED
  BY <1>7, <1>8, <1>9, <1>10, Frame DEF Inv

-----------------------------------------------------------------------------
(* The steps of PushPull                                                   *)

LEMMA PushInv ==
    ASSUME Clients, Inv, NEW t \in Callers, Push(t)
    PROVE  Inv'
<1> DEFINE o == Object[t]
           k == Key[o]
           r == req[t] + 1
<1>1. UNCHANGED <<mq, obj, mem, rq, server, handlers, kill, killer, crashes>>
  BY DEF Push, objects, serving
<1>2. TypeOK /\ o \in Objects
  BY DEF Inv, Clients, InciCommConstants
<1>3. r \in 1 .. MaxRequests
  BY <1>2 DEF Push, TypeOK, Clients, InciCommConstants
<1>4. /\ Content(<<t, r>>, FALSE) \in Contents
      /\ Content(<<t, r>>, FALSE) # None
  BY <1>3, RequestMessage
<1>5. /\ k \in Keys /\ k \notin {Server, KillKey}
      /\ \A u \in UsersOf(o) : u = t
  BY <1>2, KeysApart
<1>6. /\ pc[t] = "idle" /\ pc'[t] = "send" /\ req'[t] = r /\ pulled'[t] = None
      /\ shm'[k] = Content(<<t, r>>, FALSE) /\ obj[o] = "ready" /\ mem[o]
      /\ Request(t)' = <<t, r>>
  BY <1>2, <1>5 DEF Push, TypeOK, Request
<1>7. TypeOK'
  <2>1. shm' \in [Keys -> {None} \cup Contents]
    BY <1>2, <1>4 DEF Push, TypeOK
  <2>2. pc' \in [Callers -> {"idle", "send", "wait", "pull"}]
    BY <1>2 DEF Push, TypeOK
  <2>3. req' \in [Callers -> 0 .. MaxRequests]
    BY <1>2, <1>3 DEF Push, TypeOK
  <2>4. pulled' \in [Callers -> {None} \cup Contents]
    BY <1>2 DEF Push, TypeOK
  <2>5. QED
    BY <1>1, <1>2, <2>1, <2>2, <2>3, <2>4 DEF TypeOK
<1>8. Running'
  BY <1>1 DEF Inv, Running
<1>9. ASSUME NEW p \in Objects, p # o
      PROVE  Untouched(p)
  <2>1. \A u \in UsersOf(p) : u \in Callers /\ u # t
    BY <1>9 DEF UsersOf
  <2>2. \A u \in UsersOf(p) : pc'[u] = pc[u] /\ req'[u] = req[u] /\ pulled'[u] = pulled[u]
    BY <1>2, <2>1 DEF Push, TypeOK
  <2>3. shm'[Key[p]] = shm[Key[p]]
    BY <1>2, <1>9, KeysApart DEF Push, TypeOK
  <2>4. ServerKeeps(Key[p])
    BY <1>1, KeepsSame
  <2>5. QED
    BY <1>1, <2>2, <2>3, <2>4 DEF Untouched
<1>10. Client(o)'
  <2>0. Client(o)
    BY <1>2 DEF Inv
  <2>1. Quiet(k)
    BY <1>5, <1>6, <2>0 DEF Client, Owned
  <2>2. Quiet(k)'
    BY <1>1, <2>1 DEF Quiet, AtServer, NoHandler, NoReply
  <2>3. Free(o)'
    BY <1>4, <1>6 DEF Free
  <2>4. Owned(o)'
    BY <1>1, <2>0, <2>2 DEF Client, Owned
  <2>5. Busy(t)'
    BY <1>1, <1>3, <1>6 DEF Busy, KeyOf
  <2>6. Waiting(t)' /\ Answered(t)'
    BY <1>6 DEF Waiting, Answered
  <2>7. UsersOf(o)' = UsersOf(o)
    BY DEF UsersOf
  <2>8. QED
    BY <1>5, <2>3, <2>4, <2>5, <2>6, <2>7 DEF Client
<1>11. QED
  BY <1>2, <1>7, <1>8, <1>9, <1>10, Frame DEF Inv

\* What holds of a caller inside PushPull.
LEMMA Inside ==
    ASSUME Clients, Inv, NEW t \in Callers, pc[t] # "idle"
    PROVE  /\ Object[t] \in Objects /\ Client(Object[t]) /\ TypeOK
           /\ obj[Object[t]] = "ready" /\ mem[Object[t]] /\ rq[Object[t]]
           /\ mq[KeyOf(t)] # None /\ KeyOf(t) = Key[Object[t]]
           /\ KeyOf(t) \in Keys /\ KeyOf(t) \notin {Server, KillKey}
           /\ req[t] \in 1 .. MaxRequests
           /\ shm[KeyOf(t)] \in {Content(Request(t), FALSE), Content(Request(t), TRUE)}
           /\ \A u \in UsersOf(Object[t]) : u = t
           /\ t \in UsersOf(Object[t])
           /\ pc[t] # "wait" => Quiet(KeyOf(t))
           /\ \A p \in Objects : p # Object[t] => Key[p] # KeyOf(t)
<1>1. Object[t] \in Objects /\ TypeOK
  BY DEF Inv, Clients, InciCommConstants
<1>2. Client(Object[t])
  BY <1>1 DEF Inv
<1>3. t \in UsersOf(Object[t]) /\ \A u \in UsersOf(Object[t]) : u = t
  BY <1>1, KeysApart
<1>4. /\ KeyOf(t) \in Keys /\ KeyOf(t) \notin {Server, KillKey}
      /\ \A p \in Objects : p # Object[t] => Key[p] # KeyOf(t)
  BY <1>1, KeysApart DEF KeyOf
<1>5. Busy(t)
  BY <1>2, <1>3 DEF Client
<1>6. req[t] \in 1 .. MaxRequests
  BY <1>1, <1>5 DEF Busy, TypeOK, Clients, InciCommConstants
<1>7. rq[Object[t]] /\ mq[KeyOf(t)] # None
  BY <1>2, <1>5 DEF Busy, Client, Owned, KeyOf
<1>8. pc[t] # "wait" => Quiet(KeyOf(t))
  BY <1>2, <1>3, <1>5 DEF Busy, Client, Owned, KeyOf
<1>9. QED
  BY <1>1, <1>2, <1>3, <1>4, <1>5, <1>6, <1>7, <1>8 DEF Busy, KeyOf

LEMMA SendRequestInv ==
    ASSUME Clients, Inv, NEW t \in Callers, SendRequest(t)
    PROVE  Inv'
<1> DEFINE o == Object[t]
           k == KeyOf(t)
           m == Message(k, Request(t))
<1>1. /\ UNCHANGED <<shm, obj, mem, rq, req, pulled, server, handlers, kill,
                     killer, crashes>>
      /\ pc[t] = "send"
  BY DEF SendRequest
<1>2. /\ o \in Objects /\ Client(o) /\ TypeOK
      /\ obj[o] = "ready" /\ mem[o] /\ rq[o]
      /\ mq[k] # None /\ k = Key[o]
      /\ k \in Keys /\ k \notin {Server, KillKey}
      /\ req[t] \in 1 .. MaxRequests
      /\ shm[k] \in {Content(Request(t), FALSE), Content(Request(t), TRUE)}
      /\ \A u \in UsersOf(o) : u = t
      /\ Quiet(k)
      /\ \A p \in Objects : p # o => Key[p] # k
  BY <1>1, Inside
<1>3. m \in Messages /\ m.key = k /\ m.id = Request(t)
  BY <1>2, RequestMessage DEF Request
<1>4. mq' = [mq EXCEPT ![Server] = Sent(@, m)]
  BY <1>2 DEF SendRequest
<1> HIDE DEF m, k
<1>5. /\ mq'[Server] = Sent(mq[Server], m)
      /\ \A j \in Keys \cup {KillKey} : j # Server => mq'[j] = mq[j]
      /\ mq[Server] \in {None} \cup Seq(Messages)
  BY <1>2, <1>4 DEF TypeOK
<1>6. pc'[t] = "wait" /\ \A u \in Callers : u # t => pc'[u] = pc[u]
  BY <1>2 DEF SendRequest, TypeOK
<1>7. TypeOK'
  <2>1. Sent(mq[Server], m) \in {None} \cup Seq(Messages)
    BY <1>3, <1>5, Queues
  <2>2. mq' \in [Keys \cup {Server, KillKey} -> {None} \cup Seq(Messages)]
    BY <1>2, <1>4, <2>1 DEF TypeOK
  <2>3. pc' \in [Callers -> {"idle", "send", "wait", "pull"}]
    BY <1>2 DEF SendRequest, TypeOK
  <2>4. QED
    BY <1>1, <1>2, <2>2, <2>3 DEF TypeOK
<1>8. Running'
  <2>1. mq[Server] # None => mq'[Server] # None
    <3>1. mq[Server] # None => Sent(mq[Server], m) \in Seq(Messages)
      BY <1>3, <1>5 DEF Sent
    <3>2. QED
      BY <1>5, <3>1 DEF Clients, InciCommConstants
  <2>2. QED
    BY <1>1, <2>1 DEF Inv, Running
<1>9. ASSUME NEW p \in Objects, p # o
      PROVE  Untouched(p)
  <2>1. \A u \in UsersOf(p) : u \in Callers /\ u # t
    BY <1>9 DEF UsersOf
  <2>2. Key[p] \in Keys /\ Key[p] # Server /\ Key[p] # k
    BY <1>2, <1>9, KeysApart
  <2>3. ServerKeeps(Key[p])
    BY <1>3, <1>5, <2>2, KeepsSent
  <2>4. QED
    BY <1>1, <1>5, <1>6, <2>1, <2>2, <2>3 DEF Untouched
<1>10. Client(o)'
  <2>1. mq'[k] = mq[k]
    BY <1>2, <1>5
  <2>2. Request(t)' = Request(t) /\ KeyOf(t)' = k
    BY <1>1 DEF Request, k, KeyOf
  <2>3. NoHandler(k)' /\ NoReply(k)'
    BY <1>1, <1>2, <2>1 DEF Quiet, NoHandler, NoReply
  <2>4. AtServerOnce(k, Request(t))'
    <3>1. CASE mq[Server] = None
      <4>1. Got(mq'[Server]) = << >>
        BY <1>5, <3>1 DEF Sent, Got
      <4>2. QED
        BY <2>2, <4>1, EmptyKeys DEF AtServerOnce
    <3>2. CASE mq[Server] # None
      <4> DEFINE s == mq[Server]
      <4>1. s \in Seq(Messages) /\ Got(mq[Server]) = s
        BY <1>5, <3>2 DEF Got
      <4>2. mq'[Server] = Append(s, m)
        BY <1>5, <3>2 DEF Sent
      <4>3. Append(s, m) \in Seq(Messages)
        BY <1>3, <4>1
      <4>4. Got(mq'[Server]) = Append(s, m)
        BY <4>2, <4>3 DEF Got, Clients, InciCommConstants
      <4>5. ~HasKey(s, k)
        BY <1>2, <4>1 DEF Quiet, AtServer
      <4> HIDE DEF s
      <4>6. Single(Append(s, m), k) /\ Ids(Append(s, m), k, m.id)
        BY <1>3, <4>1, <4>5, AppendKeys
      <4>7. QED
        BY <1>3, <2>2, <4>4, <4>6 DEF AtServerOnce
    <3>3. QED
      BY <3>1, <3>2
  <2>5. Free(o)'
    BY <1>1, <1>2, <2>1 DEF Client, Free
  <2>6. Owned(o)'
    <3>1. t \in UsersOf(o)
      BY DEF UsersOf
    <3>2. QED
      BY <1>1, <1>2, <1>6, <2>1, <3>1 DEF Owned, Client, UsersOf
  <2>7. Busy(t)'
    <3>1. Busy(t)
      BY <1>2 DEF Client, UsersOf
    <3>2. QED
      BY <1>1, <1>2, <2>2, <3>1 DEF Busy, k, KeyOf
  <2>8. Waiting(t)'
    BY <2>2, <2>3, <2>4 DEF Waiting, NoHandler
  <2>9. Answered(t)'
    BY <1>1, <1>2, <1>6, <2>2 DEF Answered, Client, UsersOf
  <2>10. UsersOf(o)' = UsersOf(o)
    BY DEF UsersOf
  <2>11. QED
    BY <1>2, <2>5, <2>6, <2>7, <2>8, <2>9, <2>10 DEF Client
<1>11. QED
  BY <1>2, <1>7, <1>8, <1>9, <1>10, Frame DEF Inv

LEMMA RecvReplyInv ==
    ASSUME Clients, Inv, NEW t \in Callers, RecvReply(t)
    PROVE  Inv'
<1> DEFINE o == Object[t]
           k == KeyOf(t)
<1>1. /\ UNCHANGED <<shm, obj, mem, rq, req, pulled, server, handlers, kill,
                     killer, crashes>>
      /\ pc[t] = "wait"
  BY DEF RecvReply
<1>2. /\ o \in Objects /\ Client(o) /\ TypeOK
      /\ obj[o] = "ready" /\ mem[o] /\ rq[o]
      /\ mq[k] # None /\ k = Key[o]
      /\ k \in Keys /\ k \notin {Server, KillKey}
      /\ req[t] \in 1 .. MaxRequests
      /\ shm[k] \in {Content(Request(t), FALSE), Content(Request(t), TRUE)}
      /\ \A u \in UsersOf(o) : u = t
      /\ t \in UsersOf(o)
      /\ \A p \in Objects : p # o => Key[p] # k
  BY <1>1, Inside
<1>3. mq[k] # << >> /\ mq' = [mq EXCEPT ![k] = Tail(@)]
  BY <1>2 DEF RecvReply
<1>4. mq[k] \in Seq(Messages) /\ Got(mq[k]) = mq[k]
  BY <1>2 DEF TypeOK, Got
<1>5. Waiting(t)
  BY <1>2 DEF Client
<1> HIDE DEF k
<1>6. Len(mq[k]) = 1 /\ Done(t) /\ ~NoReply(k)
  BY <1>1, <1>3, <1>4, <1>5 DEF Waiting, NoReply, k
<1>7. Tail(mq[k]) = << >>
  <2>1. Tail(mq[k]) \in Seq(Messages) /\ Len(Tail(mq[k])) = 0
    BY <1>3, <1>4, <1>6, HeadTailProperties
  <2>2. QED
    BY <2>1, EmptySeq
<1>8. /\ mq'[k] = << >>
      /\ \A j \in Keys \cup {Server, KillKey} : j # k => mq'[j] = mq[j]
  BY <1>2, <1>3, <1>7 DEF TypeOK
<1>9. pc'[t] = "pull" /\ \A u \in Callers : u # t => pc'[u] = pc[u]
  BY <1>2 DEF RecvReply, TypeOK
<1>10. TypeOK'
  <2>1. mq' \in [Keys \cup {Server, KillKey} -> {None} \cup Seq(Messages)]
    BY <1>2, <1>3, <1>7 DEF TypeOK
  <2>2. pc' \in [Callers -> {"idle", "send", "wait", "pull"}]
    BY <1>2 DEF RecvReply, TypeOK
  <2>3. QED
    BY <1>1, <1>2, <2>1, <2>2 DEF TypeOK
<1>11. mq'[Server] = mq[Server]
  BY <1>2, <1>8
<1>12. Running'
  BY <1>1, <1>11 DEF Inv, Running
<1>13. ASSUME NEW p \in Objects, p # o
       PROVE  Untouched(p)
  <2>1. \A u \in UsersOf(p) : u \in Callers /\ u # t
    BY <1>13 DEF UsersOf
  <2>2. Key[p] \in Keys /\ Key[p] # k
    BY <1>2, <1>13, KeysApart
  <2>3. ServerKeeps(Key[p])
    BY <1>11, KeepsSame
  <2>4. QED
    BY <1>1, <1>8, <1>9, <2>1, <2>2, <2>3 DEF Untouched
<1>14. Client(o)'
  <2>1. mq'[k] # None /\ NoReply(k)'
    <3>1. << >> \in Seq(Messages)
      OBVIOUS
    <3>2. mq'[k] # None
      BY <1>8, <3>1 DEF Clients, InciCommConstants
    <3>3. QED
      BY <1>8, <3>2 DEF NoReply, Got
  <2>2. ~AtServer(k)' /\ NoHandler(k)'
    <3>1. ~AtServer(k) /\ NoHandler(k)
      BY <1>1, <1>5, <1>6 DEF Waiting, NoHandler, k
    <3>2. QED
      BY <1>1, <1>11, <3>1 DEF AtServer, NoHandler
  <2>3. Quiet(k)'
    BY <2>1, <2>2 DEF Quiet
  <2>4. Request(t)' = Request(t) /\ (Done(t)' <=> Done(t))
    BY <1>1 DEF Request, Done
  <2>5. Free(o)'
    BY <1>1, <1>2 DEF Client, Free
  <2>6. Owned(o)'
    BY <1>1, <1>2, <2>1, <2>3 DEF Client, Owned
  <2>7. Busy(t)'
    BY <1>1, <1>2, <2>4 DEF Busy, Client
  <2>8. Waiting(t)' /\ Answered(t)'
    BY <1>1, <1>2, <1>6, <1>9, <2>4 DEF Waiting, Answered, Client
  <2>9. UsersOf(o)' = UsersOf(o)
    BY DEF UsersOf
  <2>10. QED
    BY <1>2, <2>5, <2>6, <2>7, <2>8, <2>9 DEF Client
<1>15. QED
  BY <1>2, <1>10, <1>12, <1>13, <1>14, Frame DEF Inv

LEMMA PullInv ==
    ASSUME Clients, Inv, NEW t \in Callers, Pull(t)
    PROVE  Inv'
<1> DEFINE o == Object[t]
           k == KeyOf(t)
<1>1. /\ UNCHANGED <<mq, shm, obj, mem, rq, req, server, handlers, kill, killer,
                     crashes>>
      /\ pc[t] = "pull"
  BY DEF Pull
<1>2. /\ o \in Objects /\ Client(o) /\ TypeOK
      /\ k = Key[o] /\ k \in Keys
      /\ \A u \in UsersOf(o) : u = t
      /\ t \in UsersOf(o)
      /\ Quiet(k)
  BY <1>1, Inside
<1>3. Done(t)
  BY <1>1, <1>2 DEF Client, Answered
<1>4. pc'[t] = "idle" /\ \A u \in Callers : u # t => pc'[u] = pc[u] /\ pulled'[u] = pulled[u]
  BY <1>2 DEF Pull, TypeOK
<1>5. pulled'[t] = Content(Request(t), TRUE)
  BY <1>2, <1>3 DEF Pull, TypeOK, Done, KeyOf
<1>6. TypeOK'
  <2>1. pc' \in [Callers -> {"idle", "send", "wait", "pull"}]
    BY <1>2 DEF Pull, TypeOK
  <2>2. shm[k] \in {None} \cup Contents /\ pulled' = [pulled EXCEPT ![t] = shm[k]]
    BY <1>2 DEF Pull, TypeOK
  <2>3. pulled' \in [Callers -> {None} \cup Contents]
    BY <1>2, <2>2 DEF TypeOK
  <2>4. QED
    BY <1>1, <1>2, <2>1, <2>3 DEF TypeOK
<1>7. Running'
  BY <1>1 DEF Inv, Running
<1>8. ASSUME NEW p \in Objects, p # o
      PROVE  Untouched(p)
  <2>1. \A u \in UsersOf(p) : u \in Callers /\ u # t
    BY <1>8 DEF UsersOf
  <2>2. ServerKeeps(Key[p])
    BY <1>1, KeepsSame
  <2>3. QED
    BY <1>1, <1>4, <2>1, <2>2 DEF Untouched
<1>9. Client(o)'
  <2>1. Quiet(k)' /\ Request(t)' = Request(t)
    BY <1>1, <1>2 DEF Quiet, AtServer, NoHandler, NoReply, Request
  <2>2. Free(o)'
    BY <1>1, <1>2, <2>1 DEF Client, Free
  <2>3. Owned(o)'
    BY <1>1, <1>2, <2>1 DEF Client, Owned
  <2>4. Busy(t)' /\ Waiting(t)' /\ Answered(t)'
    BY <1>4, <1>5, <2>1 DEF Busy, Waiting, Answered
  <2>5. UsersOf(o)' = UsersOf(o)
    BY DEF UsersOf
  <2>6. QED
    BY <1>2, <2>2, <2>3, <2>4, <2>5 DEF Client
<1>10. QED
  BY <1>2, <1>6, <1>7, <1>8, <1>9, Frame DEF Inv

-----------------------------------------------------------------------------
(* The steps of the server                                                 *)

\* Steps that touch no object, no caller and no queue of a client.
LEMMA ServerOnly ==
    ASSUME Clients, Inv, TypeOK', Running',
           UNCHANGED <<shm, obj, mem, rq, pc, req, pulled>>,
           \A k \in Keys : mq'[k] = mq[k] /\ ServerKeeps(k),
           \A h \in handlers' : h[1].key \in Keys => h \in handlers
    PROVE  Inv'
<1>1. ASSUME NEW o \in Objects PROVE Untouched(o)
  BY KeysApart DEF Untouched
<1>2. QED
  BY <1>1, Frame DEF Inv

LEMMA ServerStartInv ==
    ASSUME Clients, Inv, ServerStart
    PROVE  Inv'
<1>1. UNCHANGED <<shm, obj, mem, rq, pc, req, pulled, handlers, kill, killer, crashes>>
  BY DEF ServerStart, objects, calls
<1>2. TypeOK
  BY DEF Inv
<1>3. mq'[Server] = << >> /\ \A k \in Keys : mq'[k] = mq[k]
  BY <1>2 DEF ServerStart, TypeOK, Clients, InciCommConstants
<1>4. TypeOK'
  <2>1. mq' \in [Keys \cup {Server, KillKey} -> {None} \cup Seq(Messages)]
    BY <1>2 DEF ServerStart, TypeOK
  <2>2. QED
    BY <1>1, <1>2, <2>1 DEF TypeOK, ServerStart
<1>5. mq'[Server] # None
  BY <1>3, EmptySeq DEF Clients, InciCommConstants
<1>6. Got(mq'[Server]) = << >>
  BY <1>3 DEF Got
<1>7. QED
  BY <1>1, <1>3, <1>4, <1>5, <1>6, KeepsEmpty, ServerOnly DEF Running

LEMMA ServeTestInv ==
    ASSUME Clients, Inv, ServeTest
    PROVE  Inv'
<1>1. UNCHANGED <<mq, shm, obj, mem, rq, pc, req, pulled, handlers, kill, killer, crashes>>
  BY DEF ServeTest
<1>2. TypeOK' /\ Running'
  BY <1>1 DEF Inv, TypeOK, Running, ServeTest
<1>3. QED
  BY <1>1, <1>2, KeepsSame, ServerOnly

LEMMA ServerExitInv ==
    ASSUME Clients, Inv, ServerExit
    PROVE  Inv'
<1>1. /\ UNCHANGED <<shm, obj, mem, rq, pc, req, pulled, kill, crashes>>
      /\ server' = "down" /\ killer' = "done" /\ handlers' = {}
  BY DEF ServerExit
<1>2. TypeOK
  BY DEF Inv
<1>3. mq'[Server] = None /\ \A k \in Keys : mq'[k] = mq[k]
  BY <1>2 DEF ServerExit, TypeOK, Clients, InciCommConstants
<1>4. TypeOK'
  <2>1. mq' \in [Keys \cup {Server, KillKey} -> {None} \cup Seq(Messages)]
    BY <1>2 DEF ServerExit, TypeOK
  <2>2. QED
    BY <1>1, <1>2, <2>1 DEF TypeOK
<1>5. Got(mq'[Server]) = << >>
  BY <1>3 DEF Got
<1>6. QED
  BY <1>1, <1>3, <1>4, <1>5, KeepsEmpty, ServerOnly DEF Running

LEMMA ServerDiesInv ==
    ASSUME Clients, Inv, ServerDies
    PROVE  Inv'
<1>1. /\ UNCHANGED <<mq, shm, obj, mem, rq, pc, req, pulled, kill>>
      /\ server' = "down" /\ killer' = "done" /\ handlers' = {}
      /\ crashes < MaxCrashes /\ crashes' = crashes + 1
  BY DEF ServerDies
<1>2. TypeOK /\ MaxCrashes \in Nat
  BY DEF Inv, Clients, InciCommConstants
<1>3. TypeOK'
  <2>1. crashes' \in 0 .. MaxCrashes
    BY <1>1, <1>2 DEF TypeOK
  <2>2. QED
    BY <1>1, <1>2, <2>1 DEF TypeOK
<1>4. QED
  BY <1>1, <1>3, KeepsSame, ServerOnly DEF Running

LEMMA SignalInv ==
    ASSUME Clients, Inv, NEW th \in Signals, Signal(th)
    PROVE  Inv'
<1> DEFINE m == Message(KillKey, None)
<1>1. UNCHANGED <<shm, obj, mem, rq, pc, req, pulled, handlers, crashes>>
  BY DEF Signal, objects, calls
<1>2. TypeOK /\ Server # KillKey /\ \A k \in Keys : k \notin {Server, KillKey}
  BY DEF Inv, Clients, InciCommConstants
<1>3. m \in Messages /\ m.key = KillKey
  BY DEF Message, Messages
<1>4. mq' = [mq EXCEPT ![KillKey] = Got(@), ![Server] = Sent(@, m)]
  BY DEF Signal
<1> HIDE DEF m
<1>5. /\ mq'[Server] = Sent(mq[Server], m)
      /\ mq[Server] \in {None} \cup Seq(Messages)
      /\ mq[KillKey] \in {None} \cup Seq(Messages)
      /\ \A k \in Keys : mq'[k] = mq[k]
  BY <1>2, <1>4 DEF TypeOK
<1>6. TypeOK'
  <2>1. Sent(mq[Server], m) \in {None} \cup Seq(Messages) /\ Got(mq[KillKey]) \in Seq(Messages)
    BY <1>3, <1>5, Queues
  <2>2. mq' \in [Keys \cup {Server, KillKey} -> {None} \cup Seq(Messages)]
    BY <1>2, <1>4, <2>1 DEF TypeOK
  <2>3. server' \in {"off", "loop", "recv", "leave", "down", "handler"}
    BY <1>2 DEF Signal, TypeOK
  <2>4. kill' \in BOOLEAN /\ killer' \in {"idle", "wait", "done"}
    BY <1>2 DEF Signal, TypeOK
  <2>5. QED
    BY <1>1, <1>2, <2>2, <2>3, <2>4 DEF TypeOK
<1>7. Running'
  <2>1. mq[Server] # None
    BY DEF Inv, Running, Signal
  <2>2. Sent(mq[Server], m) \in Seq(Messages)
    BY <1>3, <1>5, <2>1 DEF Sent
  <2>3. QED
    BY <1>5, <2>2 DEF Running, Clients, InciCommConstants
<1>8. \A k \in Keys : ServerKeeps(k)
  <2> TAKE k \in Keys
  <2>1. m.key # k
    BY <1>2, <1>3
  <2>2. QED
    BY <1>3, <1>5, <2>1, KeepsSent
<1>9. QED
  BY <1>1, <1>5, <1>6, <1>7, <1>8, ServerOnly

LEMMA KillAnsweredInv ==
    ASSUME Clients, Inv, KillAnswered
    PROVE  Inv'
<1>1. UNCHANGED <<shm, obj, mem, rq, pc, req, pulled, server, handlers, kill, crashes>>
  BY DEF KillAnswered, objects, calls
<1>2. TypeOK /\ Server # KillKey /\ \A k \in Keys : k \notin {Server, KillKey}
  BY DEF Inv, Clients, InciCommConstants
<1>3. mq'[Server] = mq[Server] /\ \A k \in Keys : mq'[k] = mq[k]
  BY <1>2 DEF KillAnswered, TypeOK
<1>4. TypeOK'
  <2>1. mq' \in [Keys \cup {Server, KillKey} -> {None} \cup Seq(Messages)]
    BY <1>2 DEF KillAnswered, TypeOK
  <2>2. QED
    BY <1>1, <1>2, <2>1 DEF TypeOK, KillAnswered
<1>5. Running'
  BY <1>1, <1>3 DEF Inv, Running
<1>6. QED
  BY <1>1, <1>3, <1>4, <1>5, KeepsSame, ServerOnly

\* The server takes a message: the thread for it is the only trace of it.
LEMMA ServeRecvInv ==
    ASSUME Clients, Inv, ServeRecv
    PROVE  Inv'
<1> DEFINE s == mq[Server]
           m == Head(s)
           d == <<m, IF m.key = KillKey THEN "reply" ELSE "cb">>
<1>1. UNCHANGED <<shm, obj, mem, rq, pc, req, pulled, kill, killer, crashes>>
  BY DEF ServeRecv
<1>2. TypeOK /\ \A k \in Keys : k \notin {Server, KillKey}
  BY DEF Inv, Clients, InciCommConstants
<1>3. s \in Seq(Messages) /\ s # << >> /\ s # None
  BY <1>2 DEF ServeRecv, Inv, Running, TypeOK
<1>4. m \in Messages /\ Tail(s) \in Seq(Messages) /\ Tail(s) # None
  BY <1>3, HeadTailProperties DEF Clients, InciCommConstants
<1>5. /\ handlers' = handlers \cup {d} /\ d[1] = m
      /\ d[2] = IF m.key = KillKey THEN "reply" ELSE "cb"
  BY DEF ServeRecv
<1>6. /\ mq'[Server] = Tail(s) /\ Got(mq'[Server]) = Tail(s) /\ Got(mq[Server]) = s
      /\ \A k \in Keys : mq'[k] = mq[k]
  BY <1>2, <1>3, <1>4 DEF ServeRecv, TypeOK, Got
<1>7. TypeOK'
  <2>1. mq' \in [Keys \cup {Server, KillKey} -> {None} \cup Seq(Messages)]
    BY <1>2, <1>4 DEF ServeRecv, TypeOK
  <2>2. handlers' \subseteq Messages \X {"cb", "reply"}
    BY <1>2, <1>4, <1>5 DEF TypeOK
  <2>3. server' \in {"off", "loop", "recv", "leave", "down", "handler"}
    BY DEF ServeRecv
  <2>4. QED
    BY <1>1, <1>2, <2>1, <2>2, <2>3 DEF TypeOK
<1>8. Running'
  BY <1>4, <1>6 DEF Running
<1>9. \A k : ServerKeeps(k)
  BY <1>3, <1>6, KeepsTail
<1>10. ASSUME NEW k, m.key = k
       PROVE  /\ AtServer(k)
              /\ \A id : AtServerOnce(k, id) => ~AtServer(k)' /\ m.id = id
  BY <1>3, <1>6, <1>10, TailKeys DEF AtServer, AtServerOnce
<1> HIDE DEF m, s, d
<1>11. ASSUME NEW o \in Objects PROVE Client(o)'
  <2> DEFINE k == Key[o]
  <2>1. k \in Keys /\ Client(o) /\ k # KillKey
    BY <1>2, KeysApart DEF Inv
  <2>2. CASE m.key # k
    <3>1. Untouched(o)
      BY <1>1, <1>5, <1>6, <1>9, <2>1, <2>2 DEF Untouched
    <3>2. QED
      BY <2>1, <3>1, Frame
  <2>3. CASE m.key = k
    <3>1. AtServer(k) /\ ~Quiet(k)
      BY <1>10, <2>3 DEF Quiet
    <3>2. shm[k] # None
      BY <2>1, <3>1 DEF Client, Free
    <3>3. Free(o)'
      BY <1>1, <2>1, <3>2 DEF Client, Free
    <3>4. Owned(o)'
      BY <1>1, <1>6, <2>1, <3>1 DEF Client, Owned, UsersOf
    <3>5. ASSUME NEW t \in UsersOf(o)
          PROVE  Busy(t)' /\ Waiting(t)' /\ Answered(t)'
      <4>1. KeyOf(t) = k /\ Object[t] = o
        BY DEF UsersOf, KeyOf
      <4>2. Busy(t) /\ Waiting(t) /\ Answered(t)
        BY <2>1 DEF Client
      <4>3. /\ Request(t)' = Request(t) /\ (Done(t)' <=> Done(t))
            /\ NoReply(k)' <=> NoReply(k)
        BY <1>1, <1>6, <2>1 DEF Request, Done, NoReply
      <4>4. Busy(t)' /\ Answered(t)'
        BY <1>1, <4>2, <4>3 DEF Busy, Answered
      <4>5. Waiting(t)'
        <5> SUFFICES ASSUME pc[t] = "wait" PROVE Waiting(t)'
          BY <1>1 DEF Waiting
        <5>1. AtServerOnce(k, Request(t)) /\ NoHandler(k) /\ NoReply(k)
          BY <3>1, <4>1, <4>2 DEF Waiting
        <5>2. ~AtServer(k)' /\ m.id = Request(t)
          BY <1>10, <2>3, <5>1
        <5>3. \A h \in handlers' : h[1].key = k => h = d
          BY <1>5, <5>1 DEF NoHandler
        <5>4. d[1].id = Request(t) /\ d[2] = "cb"
          BY <1>5, <2>1, <2>3, <5>2
        <5>5. KeyOf(t)' = k
          BY <4>1 DEF KeyOf
        <5>6. QED
          BY <4>3, <5>1, <5>2, <5>3, <5>4, <5>5 DEF Waiting
      <4>6. QED
        BY <4>4, <4>5
    <3>6. UsersOf(o)' = UsersOf(o)
      BY DEF UsersOf
    <3>7. QED
      BY <3>3, <3>4, <3>5, <3>6 DEF Client
  <2>4. QED
    BY <2>2, <2>3
<1>12. QED
  BY <1>7, <1>8, <1>11 DEF Inv

\* The callback: the segment of the caller that waits is processed.
LEMMA HandleCallbackInv ==
    ASSUME Clients, Inv, NEW m, HandleCallback(m)
    PROVE  Inv'
<1> DEFINE c == <<m, "cb">>
           d == <<m, "reply">>
<1>1. UNCHANGED <<mq, obj, mem, rq, pc, req, pulled, server, kill, killer, crashes>>
  BY DEF HandleCallback
<1>2. TypeOK
  BY DEF Inv
<1>3. c \in handlers /\ handlers' = (handlers \ {c}) \cup {d}
  BY DEF HandleCallback
<1>4. m \in Messages /\ c[1] = m /\ d[1] = m /\ c[2] = "cb" /\ d[2] = "reply"
  BY <1>2, <1>3 DEF TypeOK
<1>5. /\ \A j \in Keys : j # m.key => shm'[j] = shm[j]
      /\ m.key \in Keys => shm'[m.key] =
            IF shm[m.key] = None THEN Content(None, TRUE) ELSE Content(shm[m.key].id, TRUE)
  BY <1>2 DEF HandleCallback, TypeOK
<1>6. shm' \in [Keys -> {None} \cup Contents] /\ (m.key \in Keys => shm'[m.key] # None)
  <2>1. \A x \in {None} \cup Contents :
           (IF x = None THEN Content(None, TRUE) ELSE Content(x.id, TRUE)) \in Contents
    BY DEF Contents, Content
  <2>2. shm' \in [Keys -> {None} \cup Contents]
    BY <1>2, <2>1 DEF HandleCallback, TypeOK
  <2>3. m.key \in Keys => shm'[m.key] \in Contents
    <3> SUFFICES ASSUME m.key \in Keys PROVE shm'[m.key] \in Contents
      OBVIOUS
    <3> DEFINE x == shm[m.key]
    <3>1. x \in {None} \cup Contents
      BY <1>2 DEF TypeOK
    <3>2. shm'[m.key] = IF x = None THEN Content(None, TRUE) ELSE Content(x.id, TRUE)
      BY <1>5
    <3> HIDE DEF x
    <3>3. QED
      BY <2>1, <3>1, <3>2
  <2>4. QED
    BY <2>2, <2>3 DEF Clients, InciCommConstants
<1>7. TypeOK'
  <2>1. handlers' \subseteq Messages \X {"cb", "reply"}
    BY <1>2, <1>3, <1>4 DEF TypeOK
  <2>2. QED
    BY <1>1, <1>2, <1>6, <2>1 DEF TypeOK
<1>8. Running'
  BY <1>1 DEF Inv, Running
<1> HIDE DEF c, d
<1>9. ASSUME NEW o \in Objects PROVE Client(o)'
  <2> DEFINE k == Key[o]
  <2>1. k \in Keys /\ Client(o)
    BY KeysApart DEF Inv
  <2>2. ServerKeeps(k)
    BY <1>1, KeepsSame
  <2>3. CASE m.key # k
    <3>1. Untouched(o)
      BY <1>1, <1>3, <1>4, <1>5, <2>1, <2>2, <2>3 DEF Untouched
    <3>2. QED
      BY <2>1, <3>1, Frame
  <2>4. CASE m.key = k
    <3>1. ~Quiet(k)
      BY <1>3, <1>4, <2>4 DEF Quiet, NoHandler
    <3>2. shm'[k] # None
      BY <1>6, <2>1, <2>4
    <3>3. Free(o)'
      BY <3>2 DEF Free
    <3>4. Owned(o)'
      BY <1>1, <2>1, <3>1 DEF Client, Owned, UsersOf
    <3>5. ASSUME NEW t \in UsersOf(o)
          PROVE  Busy(t)' /\ Waiting(t)' /\ Answered(t)'
      <4>1. KeyOf(t) = k /\ Object[t] = o /\ t \in Callers
        BY DEF UsersOf, KeyOf
      <4>2. Busy(t) /\ Waiting(t) /\ Answered(t)
        BY <2>1 DEF Client
      <4>3. /\ Request(t)' = Request(t) /\ KeyOf(t)' = k
            /\ NoReply(k)' <=> NoReply(k)
            /\ AtServer(k)' <=> AtServer(k)
        BY <1>1, <4>1 DEF Request, NoReply, AtServer, KeyOf
      <4>4. CASE pc[t] # "wait"
        <5>1. pc[t] = "idle"
          BY <2>4, <3>1, <4>1, <4>4, Inside
        <5>2. QED
          BY <1>1, <4>2, <4>3, <5>1 DEF Busy, Waiting, Answered
      <4>5. CASE pc[t] = "wait"
        <5>1. shm[k] \in {Content(Request(t), FALSE), Content(Request(t), TRUE)}
          BY <4>1, <4>2, <4>5 DEF Busy
        <5>2. shm[k].id = Request(t)
          BY <5>1 DEF Content
        <5>3. shm[k] # None
          BY <2>1, <3>1 DEF Client, Free
        <5>4. shm'[k] = Content(Request(t), TRUE)
          BY <1>5, <2>1, <2>4, <5>2, <5>3
        <5>5. Busy(t)'
          BY <1>1, <4>2, <4>3, <4>5, <5>4 DEF Busy
        <5>6. Done(t)' /\ Answered(t)'
          BY <1>1, <4>2, <4>3, <4>5, <5>4 DEF Done, Answered
        <5>7. /\ m.id = Request(t) /\ NoReply(k)
              /\ \A g \in handlers : g[1].key = k => g = c
          BY <1>3, <1>4, <2>4, <4>1, <4>2, <4>5 DEF Waiting
        <5>8. ~AtServer(k)
          BY <1>3, <1>4, <2>4, <4>1, <4>2, <4>5 DEF Waiting, NoHandler
        <5>9. \A h \in handlers' : h[1].key = k => h = d
          BY <1>3, <5>7
        <5>10. Waiting(t)'
          BY <1>4, <4>3, <5>6, <5>7, <5>8, <5>9 DEF Waiting
        <5>11. QED
          BY <5>5, <5>6, <5>10
      <4>6. QED
        BY <4>4, <4>5
    <3>6. UsersOf(o)' = UsersOf(o)
      BY DEF UsersOf
    <3>7. QED
      BY <3>3, <3>4, <3>5, <3>6 DEF Client
  <2>5. QED
    BY <2>3, <2>4
<1>10. QED
  BY <1>7, <1>8, <1>9 DEF Inv

\* The reply: the queue of the caller that waits gets its one message.
LEMMA HandleReplyInv ==
    ASSUME Clients, Inv, NEW m, HandleReply(m)
    PROVE  Inv'
<1> DEFINE d == <<m, "reply">>
<1>1. UNCHANGED <<shm, obj, mem, rq, pc, req, pulled, server, kill, killer, crashes>>
  BY DEF HandleReply
<1>2. TypeOK
  BY DEF Inv
<1>3. d \in handlers /\ handlers' = handlers \ {d}
  BY DEF HandleReply
<1>4. m \in Messages /\ d[1] = m /\ d[2] = "reply"
  BY <1>2, <1>3 DEF TypeOK
<1>5. m.key \in Keys \cup {KillKey} /\ m.key # Server
  BY <1>4 DEF Messages, Clients, InciCommConstants
<1>6. /\ mq'[m.key] = Append(Got(mq[m.key]), m)
      /\ \A j \in Keys \cup {Server, KillKey} : j # m.key => mq'[j] = mq[j]
  BY <1>2, <1>5 DEF HandleReply, TypeOK
<1>7. mq[m.key] \in {None} \cup Seq(Messages)
  BY <1>2, <1>5 DEF TypeOK
<1>8. Append(Got(mq[m.key]), m) \in Seq(Messages)
  BY <1>4, <1>7, Queues
<1>9. mq'[m.key] # None /\ Got(mq'[m.key]) = Append(Got(mq[m.key]), m)
  BY <1>6, <1>8 DEF Got, Clients, InciCommConstants
<1>10. TypeOK'
  <2>1. mq' \in [Keys \cup {Server, KillKey} -> {None} \cup Seq(Messages)]
    BY <1>2, <1>8 DEF HandleReply, TypeOK
  <2>2. handlers' \subseteq Messages \X {"cb", "reply"}
    BY <1>2, <1>3 DEF TypeOK
  <2>3. QED
    BY <1>1, <1>2, <2>1, <2>2 DEF TypeOK
<1>11. mq'[Server] = mq[Server]
  BY <1>5, <1>6
<1>12. Running'
  BY <1>1, <1>11 DEF Inv, Running
<1> HIDE DEF d
<1>13. ASSUME NEW o \in Objects PROVE Client(o)'
  <2> DEFINE k == Key[o]
  <2>1. k \in Keys /\ Client(o)
    BY KeysApart DEF Inv
  <2>2. ServerKeeps(k)
    BY <1>11, KeepsSame
  <2>3. CASE m.key # k
    <3>1. Untouched(o)
      BY <1>1, <1>3, <1>6, <2>1, <2>2, <2>3 DEF Untouched
    <3>2. QED
      BY <2>1, <3>1, Frame
  <2>4. CASE m.key = k
    <3>1. ~Quiet(k)
      BY <1>3, <1>4, <2>4 DEF Quiet, NoHandler
    <3>2. shm[k] # None
      BY <2>1, <3>1 DEF Client, Free
    <3>3. Free(o)'
      BY <1>1, <3>2 DEF Free
    <3>4. Owned(o)'
      <4>1. mem[o] => \E t \in UsersOf(o) : pc[t] = "wait"
        BY <2>1, <3>1 DEF Client, Owned
      <4>2. mem[o] => obj[o] = "ready"
        BY <2>1, <4>1 DEF Client, Busy, UsersOf
      <4>3. mem[o] => rq[o]
        BY <2>1, <4>2 DEF Client, Owned
      <4>4. QED
        BY <1>1, <1>9, <2>4, <4>1, <4>2, <4>3 DEF Owned, UsersOf
    <3>5. ASSUME NEW t \in UsersOf(o)
          PROVE  Busy(t)' /\ Waiting(t)' /\ Answered(t)'
      <4>1. KeyOf(t) = k /\ Object[t] = o /\ t \in Callers
        BY DEF UsersOf, KeyOf
      <4>2. Busy(t) /\ Waiting(t) /\ Answered(t)
        BY <2>1 DEF Client
      <4>3. /\ Request(t)' = Request(t) /\ KeyOf(t)' = k
            /\ AtServer(k)' <=> AtServer(k)
            /\ Done(t)' <=> Done(t)
        BY <1>1, <1>11, <4>1 DEF Request, AtServer, KeyOf, Done
      <4>4. Busy(t)' /\ Answered(t)'
        BY <1>1, <4>1, <4>2, <4>3 DEF Busy, Answered
      <4>5. CASE pc[t] # "wait"
        BY <1>1, <4>4, <4>5 DEF Waiting
      <4>6. CASE pc[t] = "wait"
        <5>1. /\ Done(t) /\ NoReply(k)
              /\ \A g \in handlers : g[1].key = k => g = d
          BY <1>3, <1>4, <2>4, <4>1, <4>2, <4>6 DEF Waiting
        <5>2. ~AtServer(k)
          BY <1>3, <1>4, <2>4, <4>1, <4>2, <4>6 DEF Waiting, NoHandler
        <5>3. \A h \in handlers' : h[1].key # k
          BY <1>3, <5>1
        <5>4. Got(mq'[k]) = Append(<< >>, m)
          BY <1>9, <2>4, <5>1 DEF NoReply
        <5>5. Len(Got(mq'[k])) = 1
          BY <5>4
        <5>6. Waiting(t)'
          BY <4>3, <5>1, <5>2, <5>3, <5>5 DEF Waiting
        <5>7. QED
          BY <4>4, <5>6
      <4>7. QED
        BY <4>4, <4>5, <4>6
    <3>6. UsersOf(o)' = UsersOf(o)
      BY DEF UsersOf
    <3>7. QED
      BY <3>3, <3>4, <3>5, <3>6 DEF Client
  <2>5. QED
    BY <2>3, <2>4
<1>14. QED
  BY <1>10, <1>12, <1>13 DEF Inv

-----------------------------------------------------------------------------
(* The theorems                                                            *)

\* A step that changes nothing.
LEMMA StutterInv ==
    ASSUME Inv, UNCHANGED vars
    PROVE  Inv'
<1>1. UNCHANGED <<mq, shm, obj, mem, rq, pc, req, pulled, server, handlers, kill,
                  killer, crashes>>
  BY DEF vars, ipc, objects, calls, serving
<1>2. TypeOK' /\ Running'
  BY <1>1 DEF Inv, TypeOK, Running
<1>3. ASSUME NEW o \in Objects PROVE Untouched(o)
  BY <1>1, KeepsSame DEF Untouched
<1>4. QED
  BY <1>2, <1>3, Frame DEF Inv

\* Every step keeps the invariant.
LEMMA NextInv ==
    ASSUME Clients, Inv, [Next]_vars
    PROVE  Inv'
<1>1. CASE ServerStart \/ ServerDies
  BY <1>1, ServerStartInv, ServerDiesInv
<1>2. CASE ServerStep
  <2>1. CASE Handler
    <3>1. PICK h \in handlers : HandleCallback(h[1]) \/ HandleReply(h[1])
      BY <2>1 DEF Handler
    <3>2. QED
      BY <3>1, HandleCallbackInv, HandleReplyInv
  <2>2. QED
    BY <1>2, <2>1, ServeTestInv, ServeRecvInv, ServerExitInv, KillAnsweredInv
       DEF ServerStep
<1>3. ASSUME NEW th \in Signals, Signal(th) PROVE Inv'
  BY <1>3, SignalInv
<1>4. ASSUME NEW o \in Objects,
             CreateShareMem(o) \/ CreateMsgQueue(o) \/ ProcessDies(o) \/ Destruct(o)
      PROVE  Inv'
  BY <1>4, CreateShareMemInv, CreateMsgQueueInv, AbandonInv, DestructInv DEF ProcessDies
<1>5. ASSUME NEW t \in Callers, Push(t) \/ PushFaults(t) \/ PushPull(t)
      PROVE  Inv'
  <2>1. Object[t] \in Objects
    BY DEF Clients, InciCommConstants
  <2>2. QED
    BY <1>5, <2>1, PushInv, AbandonInv, SendRequestInv, RecvReplyInv, PullInv
       DEF PushFaults, PushPull
<1>6. QED
  BY <1>1, <1>2, <1>3, <1>4, <1>5, StutterInv DEF Next

\* The invariant gives what the runs check.
LEMMA InvGives ==
    ASSUME Clients, Inv
    PROVE  TypeOK /\ PulledIsProcessed /\ NoOverlap
<1>1. \A t \in Callers : Object[t] \in Objects /\ t \in UsersOf(Object[t])
  BY DEF Clients, InciCommConstants, UsersOf
<1>2. PulledIsProcessed
  BY <1>1 DEF Inv, Client, Answered, PulledIsProcessed
<1>3. NoOverlap
  <2> SUFFICES ASSUME NEW h \in handlers, NEW t \in Callers, h[2] = "cb",
                      h[1].key = Key[Object[t]], mem[Object[t]]
               PROVE  pc[t] = "wait" /\ h[1].id = Request(t)
    BY DEF NoOverlap
  <2>1. Client(Object[t]) /\ ~Quiet(Key[Object[t]])
    BY <1>1 DEF Inv, Quiet, NoHandler
  <2>2. PICK u \in UsersOf(Object[t]) : pc[u] = "wait"
    BY <2>1 DEF Client, Owned
  <2>3. u = t
    BY <1>1, <2>2, KeysApart
  <2>4. QED
    BY <2>1, <2>2, <2>3 DEF Client, Waiting, KeyOf
<1>4. QED
  BY <1>2, <1>3 DEF Inv
=============================================================================
