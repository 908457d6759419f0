------------------------ MODULE RequestMatcherProofs ------------------------
(***************************************************************************)
(* Proofs about the two request matchers of the server, for any number of  *)
(* completion queues and any finite sets of requests and RPCs.             *)
(***************************************************************************)
EXTENDS MCRequestMatcher, FiniteSetTheorems, SequenceTheorems, TLAPS

USE RequestMatcherAssumption

-----------------------------------------------------------------------------
(* Lists without repetition                                                *)

Has(s, x) == \E i \in 1 .. Len(s) : s[i] = x
Distinct(s) == \A i, j \in 1 .. Len(s) : s[i] = s[j] => i = j

-----------------------------------------------------------------------------
(* The inductive invariant of RequestMatcher                               *)

\* The request was pushed, or failed at once.
Made(r) == reqAt[r] \notin {"new", "push"}

\* Where a request that was made can be, and where an RPC.
Waits(r) == Has(requests[Queue[r]], r)
HeldBy(x, r) == reqAt[x] = "activate" /\ match[x][1] = r
GotBy(c, r) == rpcAt[c] = "got" /\ rc[c] = r
Pends(c) == Has(pending, c)
TakenBy(x, c) == reqAt[x] = "activate" /\ match[x][2] = c

\* No list holds anything twice, and a queue only requests of its own.
Lists ==
    /\ Distinct(pending)
    /\ \A q \in Cqs : /\ Distinct(requests[q])
                      /\ \A r \in Requests : Has(requests[q], r) => Queue[r] = q

\* A thread has taken something exactly while it has yet to deal with it.
Hands ==
    /\ \A x \in Requests : match[x] # None <=> reqAt[x] = "activate"
    /\ \A c \in Rpcs : rc[c] # None <=> rpcAt[c] = "got"

\* A request is in one place at most, and in one that says what became of it.
RequestPlace(r) ==
    /\ answers[r] \in {0, 1}
    /\ Waits(r) => Made(r) /\ answers[r] = 0
    /\ \A x \in Requests : HeldBy(x, r) =>
          /\ Made(r) /\ answers[r] = 0 /\ ~Waits(r)
          /\ \A y \in Requests : HeldBy(y, r) => y = x
          /\ \A c \in Rpcs : ~GotBy(c, r)
    /\ \A c \in Rpcs : GotBy(c, r) =>
          /\ Made(r) /\ answers[r] = 0 /\ ~Waits(r)
          /\ \A d \in Rpcs : GotBy(d, r) => d = c
    /\ answers[r] = 1 => Made(r)
    /\ answers[r] = 0 => answer[r] = None
    /\ Made(r) => \/ answers[r] = 1
                  \/ Waits(r)
                  \/ \E x \in Requests : HeldBy(x, r)
                  \/ \E c \in Rpcs : GotBy(c, r)

RpcPlace(c) ==
    /\ kills[c] \in {0, 1}
    /\ Pends(c) => rpcAt[c] = "done" /\ state[c] = "PENDING" /\ kills[c] = 0
    /\ \A x \in Requests : TakenBy(x, c) =>
          /\ rpcAt[c] = "done" /\ state[c] = "PENDING" /\ kills[c] = 0 /\ ~Pends(c)
          /\ \A y \in Requests : TakenBy(y, c) => y = x
    /\ \A r \in Requests : answer[r] = c =>
          /\ rpcAt[c] = "done" /\ kills[c] = 0 /\ ~Pends(c)
          /\ \A x \in Requests : ~TakenBy(x, c)
          /\ \A y \in Requests : answer[y] = c => y = r
    /\ kills[c] = 1 => rpcAt[c] = "done"
    /\ rpcAt[c] = "done" => \/ kills[c] = 1
                            \/ Pends(c)
                            \/ \E x \in Requests : TakenBy(x, c)
                            \/ \E r \in Requests : answer[r] = c

Places == (\A r \in Requests : RequestPlace(r)) /\ (\A c \in Rpcs : RpcPlace(c))

\* The queues that an RPC in the slow path has found empty: one that is not any
\* more has a thread that waits for mu_call_ to match it.
Attended(q) == requests[q] # <<>> =>
                  \E r \in Requests : Queue[r] = q /\ reqAt[r] = "match"
Scanned ==
    /\ \A c \in Rpcs : rpcAt[c] = "slow" => idx[c] = 0
    /\ \A c \in Rpcs : rpcAt[c] = "pop" =>
          \A k \in 0 .. idx[c] - 1 : Attended((Start[c] + k) % NumCqs)
    /\ \A c \in Rpcs : rpcAt[c] = "queue" => \A q \in Cqs : Attended(q)

\* How far the shutdown is.
Phases ==
    /\ global \in {"shutdown", "unref"} => ~called
    /\ global \in {"finish", "publish"} => called /\ ~published
    /\ published => called

\* What the lists held when shutdown was called leaves them for good, one list
\* after the other.
EarlyLeaves ==
    /\ \A r \in Requests : r \in early => Made(r)
    /\ \A c \in Rpcs : c \in early => rpcAt[c] = "done"
    /\ muCall = "kill" /\ global = "finish" =>
          \A r \in Requests : r \in early /\ Queue[r] < kq => ~Waits(r)
    /\ global = "publish" \/ published =>
          /\ \A r \in Requests : r \in early => ~Waits(r)
          /\ \A c \in Rpcs : c \in early => ~Pends(c)

Inv ==
    /\ TypeOK /\ Lists /\ Hands /\ Places /\ Scanned /\ NoLostMatch
    /\ Phases /\ EarlyLeaves /\ LastOnePublishes

-----------------------------------------------------------------------------
(* Lists                                                                   *)

\* An empty list holds nothing, and only an empty one.
LEMMA EmptyHas ==
    /\ \A x : ~Has(<<>>, x)
    /\ Distinct(<<>>)
    /\ \A S : \A s \in Seq(S) : s # <<>> => \E x \in S : Has(s, x)
<1>1. (\A x : ~Has(<<>>, x)) /\ Distinct(<<>>)
  BY DEF Has, Distinct
<1>2. ASSUME NEW S, NEW s \in Seq(S), s # <<>>
      PROVE  \E x \in S : Has(s, x)
  <2>1. 1 \in 1 .. Len(s) /\ s[1] \in S
    BY <1>2
  <2>2. QED
    BY <2>1 DEF Has
<1>3. QED
  BY <1>1, <1>2

\* What a push does to a list.
LEMMA AppendHas ==
    ASSUME NEW S, NEW s \in Seq(S), NEW e \in S
    PROVE  /\ Append(s, e) \in Seq(S) /\ Append(s, e) # <<>>
           /\ \A x : Has(Append(s, e), x) <=> Has(s, x) \/ x = e
           /\ Distinct(s) /\ ~Has(s, e) => Distinct(Append(s, e))
<1>1. /\ Append(s, e) \in Seq(S) /\ Append(s, e) # <<>> /\ Len(s) \in Nat
      /\ Len(Append(s, e)) = Len(s) + 1
      /\ Append(s, e)[Len(s) + 1] = e
      /\ \A i \in 1 .. Len(s) : Append(s, e)[i] = s[i]
  OBVIOUS
<1> DEFINE t == Append(s, e)
<1> HIDE DEF t
<1>2. /\ Len(s) \in Nat /\ Len(t) = Len(s) + 1 /\ t[Len(s) + 1] = e
      /\ \A i \in 1 .. Len(s) : t[i] = s[i]
  BY <1>1 DEF t
<1>3. \A x : Has(t, x) <=> Has(s, x) \/ x = e
  BY <1>2 DEF Has
<1>4. Distinct(s) /\ ~Has(s, e) => Distinct(t)
  BY <1>2 DEF Has, Distinct
<1>5. QED
  BY <1>1, <1>3, <1>4 DEF t

\* What a pop does to a list.
LEMMA TailHas ==
    ASSUME NEW S, NEW s \in Seq(S), s # <<>>
    PROVE  /\ Head(s) \in S /\ Tail(s) \in Seq(S) /\ Has(s, Head(s))
           /\ \A x : Has(Tail(s), x) => Has(s, x)
           /\ \A x : Has(s, x) => x = Head(s) \/ Has(Tail(s), x)
           /\ Distinct(s) => Distinct(Tail(s)) /\ ~Has(Tail(s), Head(s))
<1>1. /\ Tail(s) \in Seq(S) /\ Head(s) = s[1] /\ Len(s) \in Nat \ {0}
      /\ Len(Tail(s)) = Len(s) - 1 /\ s[1] \in S
      /\ \A i \in 1 .. Len(s) - 1 : Tail(s)[i] = s[i + 1]
  OBVIOUS
<1> DEFINE t == Tail(s)  h == Head(s)
<1> HIDE DEF t, h
<1>2. /\ h = s[1] /\ Len(s) \in Nat \ {0} /\ Len(t) = Len(s) - 1
      /\ \A i \in 1 .. Len(s) - 1 : t[i] = s[i + 1]
  BY <1>1 DEF t, h
<1>3. Has(s, h)
  <2>1. 1 \in 1 .. Len(s)
    BY <1>2
  <2>2. QED
    BY <1>2, <2>1 DEF Has
<1>4. ASSUME NEW x, Has(t, x) PROVE Has(s, x)
  <2>1. PICK i \in 1 .. Len(s) - 1 : t[i] = x
    BY <1>2, <1>4 DEF Has
  <2>2. i + 1 \in 1 .. Len(s) /\ s[i + 1] = x
    BY <1>2, <2>1
  <2>3. QED
    BY <2>2 DEF Has
<1>5. ASSUME NEW x, Has(s, x), x # h PROVE Has(t, x)
  <2>1. PICK i \in 1 .. Len(s) : s[i] = x
    BY <1>5 DEF Has
  <2>2. i - 1 \in 1 .. Len(t) /\ t[i - 1] = x
    BY <1>2, <1>5, <2>1
  <2>3. QED
    BY <2>2 DEF Has
<1>6. Distinct(s) => Distinct(t) /\ ~Has(t, h)
  <2> SUFFICES ASSUME Distinct(s) PROVE Distinct(t) /\ ~Has(t, h)
    OBVIOUS
  <2>1. ASSUME NEW i \in 1 .. Len(t), NEW j \in 1 .. Len(t), t[i] = t[j] PROVE i = j
    <3>1. /\ i + 1 \in 1 .. Len(s) /\ j + 1 \in 1 .. Len(s)
          /\ s[i + 1] = s[j + 1]
      BY <1>2, <2>1
    <3>2. i + 1 = j + 1
      BY <3>1 DEF Distinct
    <3>3. QED
      BY <3>2
  <2>2. ASSUME NEW i \in 1 .. Len(t), t[i] = h PROVE FALSE
    <3>1. /\ i + 1 \in 1 .. Len(s) /\ 1 \in 1 .. Len(s)
          /\ s[i + 1] = s[1]
      BY <1>2, <2>2
    <3>2. i + 1 = 1
      BY <3>1 DEF Distinct
    <3>3. QED
      BY <3>2
  <2>3. QED
    BY <2>1, <2>2 DEF Distinct, Has
<1>7. QED
  BY <1>1, <1>3, <1>4, <1>5, <1>6 DEF t, h

\* Range and Has say the same.
LEMMA RangeHas ==
    ASSUME NEW S, NEW s \in Seq(S)
    PROVE  \A x : x \in Range(s) <=> Has(s, x)
  BY DEF Range, Has

\* The queues that MatchOrQueue visits, one after the other, are all there are.
LEMMA NextIndex ==
    ASSUME NEW i \in Cqs
    PROVE  /\ (i + 1) % NumCqs \in Cqs
           /\ i < NumCqs - 1 => (i + 1) % NumCqs = i + 1
           /\ i = NumCqs - 1 => (i + 1) % NumCqs = 0
  BY DEF Cqs

LEMMA QueueAt ==
    ASSUME NEW s \in Cqs
    PROVE  /\ \A k \in Cqs : (s + k) % NumCqs \in Cqs
           /\ \A q \in Cqs : \E k \in Cqs : (s + k) % NumCqs = q
<1>1. \A k \in Cqs : s + k < NumCqs => (s + k) % NumCqs = s + k
  BY DEF Cqs
<1>2. \A k \in Cqs : s + k >= NumCqs => (s + k) % NumCqs = s + k - NumCqs
  BY DEF Cqs
<1>3. ASSUME NEW q \in Cqs, q >= s
      PROVE  q - s \in Cqs /\ (s + (q - s)) % NumCqs = q
  BY <1>1, <1>3 DEF Cqs
<1>4. ASSUME NEW q \in Cqs, q < s
      PROVE  q - s + NumCqs \in Cqs /\ (s + (q - s + NumCqs)) % NumCqs = q
  BY <1>2, <1>4 DEF Cqs
<1>5. \A k \in Cqs : (s + k) % NumCqs \in Cqs
  BY DEF Cqs
<1>6. ASSUME NEW q \in Cqs PROVE \E k \in Cqs : (s + k) % NumCqs = q
  <2>1. q >= s \/ q < s
    BY DEF Cqs
  <2>2. QED
    BY <1>3, <1>4, <2>1
<1>7. QED
  BY <1>5, <1>6

-----------------------------------------------------------------------------
(* The initial state                                                       *)

LEMMA InitInv == Init => Inv
<1> SUFFICES ASSUME Init PROVE Inv
  OBVIOUS
<1> USE DEF Init
<1>1. TypeOK
  <2>1. {c \in Rpcs : rpcAt[c] \in {"pop", "queue"}} = {muCall} \cap Rpcs
    OBVIOUS
  <2>2. requests \in [Cqs -> Seq(Requests)] /\ pending \in Seq(Rpcs)
    OBVIOUS
  <2>3. 0 \in Cqs /\ kq \in 0 .. NumCqs
    BY DEF Cqs
  <2>4. /\ state \in [Rpcs -> {"NOT_STARTED", "PENDING", "ACTIVATED", "ZOMBIED"}]
        /\ kills \in [Rpcs -> 0 .. 2] /\ answers \in [Requests -> 0 .. 2]
        /\ answer \in [Requests -> {None, "failed"} \cup Rpcs]
    OBVIOUS
  <2>5. /\ reqAt \in [Requests -> {"new", "push", "match", "activate", "done"}]
        /\ match \in [Requests -> {None} \cup (Requests \X Rpcs)]
        /\ rpcAt \in [Rpcs -> {"new", "publish", "try", "slow", "pop", "queue", "got", "done"}]
        /\ idx \in [Rpcs -> Cqs] /\ rc \in [Rpcs -> {None} \cup Requests]
    BY <2>3
  <2>6. QED
    BY <2>1, <2>2, <2>3, <2>4, <2>5 DEF TypeOK
<1>2. \A q \in Cqs : requests[q] = <<>>
  OBVIOUS
<1>3. Lists
  BY <1>2, EmptyHas DEF Lists
<1>4. Hands
  BY DEF Hands
<1>5. ASSUME NEW r \in Requests PROVE RequestPlace(r)
  BY <1>2, EmptyHas DEF RequestPlace, Made, Waits, HeldBy, GotBy
<1>6. ASSUME NEW c \in Rpcs PROVE RpcPlace(c)
  BY EmptyHas DEF RpcPlace, Pends, TakenBy
<1>7. Places
  BY <1>5, <1>6 DEF Places
<1>8. Scanned /\ NoLostMatch /\ Phases /\ EarlyLeaves /\ LastOnePublishes
  BY DEF Scanned, NoLostMatch, Phases, EarlyLeaves, LastOnePublishes
<1>9. QED
  BY <1>1, <1>3, <1>4, <1>7, <1>8 DEF Inv

-----------------------------------------------------------------------------
(* The steps of the shutdown that leave the lists and the threads alone    *)

LEMMA SamePlaces ==
    ASSUME Inv, UNCHANGED <<lists, outcome, reqThreads, rpcThreads>>
    PROVE  Lists' /\ Hands' /\ Places' /\ Scanned' /\ NoLostMatch'
<1> USE DEF Inv, lists, outcome, reqThreads, rpcThreads
<1>1. Lists' /\ Hands'
  BY DEF Lists, Hands
<1>2. Places'
  BY DEF Places, RequestPlace, RpcPlace, Made, Waits, HeldBy, GotBy, Pends, TakenBy
<1>3. Scanned' /\ NoLostMatch'
  BY DEF Scanned, Attended, NoLostMatch
<1>4. QED
  BY <1>1, <1>2, <1>3

LEMMA ShutdownAndNotifyInv == Inv /\ ShutdownAndNotify => Inv'
<1> SUFFICES ASSUME Inv, ShutdownAndNotify PROVE Inv'
  OBVIOUS
<1> USE DEF Inv, ShutdownAndNotify
<1>1. Lists' /\ Hands' /\ Places' /\ Scanned' /\ NoLostMatch'
  BY SamePlaces
<1>2. TypeOK'
  BY DEF TypeOK, lists, outcome, reqThreads, rpcThreads
<1>3. Phases' /\ LastOnePublishes'
  BY DEF Phases, LastOnePublishes
<1>4. EarlyLeaves'
  BY DEF EarlyLeaves, Phases, Made, Waits, Pends, lists, reqThreads, rpcThreads
<1>5. QED
  BY <1>1, <1>2, <1>3, <1>4

LEMMA KillLockInv == Inv /\ KillLock => Inv'
<1> SUFFICES ASSUME Inv, KillLock PROVE Inv'
  OBVIOUS
<1> USE DEF Inv, KillLock
<1>1. Lists' /\ Hands' /\ Places' /\ Scanned' /\ NoLostMatch'
  BY SamePlaces
<1>2. TypeOK'
  BY DEF TypeOK, lists, outcome, reqThreads, rpcThreads
<1>3. Phases' /\ LastOnePublishes'
  BY DEF Phases, LastOnePublishes
<1>4. EarlyLeaves'
  BY DEF EarlyLeaves, Phases, Made, Waits, Pends, lists, reqThreads, rpcThreads, Cqs
<1>5. QED
  BY <1>1, <1>2, <1>3, <1>4

LEMMA ShutdownUnrefInv == Inv /\ ShutdownUnref => Inv'
<1> SUFFICES ASSUME Inv, ShutdownUnref PROVE Inv'
  OBVIOUS
<1> USE DEF Inv, ShutdownUnref
<1>1. Lists' /\ Hands' /\ Places' /\ Scanned' /\ NoLostMatch'
  BY SamePlaces
<1>2. ~called /\ ~published /\ global' = "finish" /\ called' = TRUE
  BY DEF Phases, Finish, TypeOK
<1>3. ASSUME NEW x \in Queued
      PROVE  \/ x \in Requests /\ Made(x)
             \/ x \in Rpcs /\ rpcAt[x] = "done"
  <2>1. CASE x \in Range(pending)
    <3>1. Has(pending, x) /\ x \in Rpcs
      BY <2>1, RangeHas DEF TypeOK, Range
    <3>2. QED
      BY <3>1 DEF Places, RpcPlace, Pends
  <2>2. CASE \E q \in Cqs : x \in Range(requests[q])
    <3>1. PICK q \in Cqs : x \in Range(requests[q])
      BY <2>2
    <3>2. requests[q] \in Seq(Requests)
      BY DEF TypeOK
    <3>3. Has(requests[q], x) /\ x \in Requests
      BY <3>1, <3>2, RangeHas DEF Range
    <3>4. Waits(x)
      BY <3>3 DEF Lists, Waits
    <3>5. QED
      BY <3>3, <3>4 DEF Places, RequestPlace
  <2>3. x \in Range(pending) \/ x \in UNION {Range(requests[q]) : q \in Cqs}
    BY DEF Queued
  <2>4. x \in UNION {Range(requests[q]) : q \in Cqs} => \E q \in Cqs : x \in Range(requests[q])
    OBVIOUS
  <2>5. QED
    BY <2>1, <2>2, <2>3, <2>4
<1>4. TypeOK'
  <2>1. early' \subseteq Requests \cup Rpcs
    BY <1>3
  <2>2. QED
    BY <1>2, <2>1 DEF TypeOK, lists, outcome, reqThreads, rpcThreads
<1>5. Phases' /\ LastOnePublishes'
  BY <1>2 DEF Phases, LastOnePublishes
<1>6. muCall' # "kill"
  BY DEF TypeOK
<1>7. EarlyLeaves'
  BY <1>2, <1>3, <1>6 DEF EarlyLeaves, Made, reqThreads, rpcThreads
<1>8. QED
  BY <1>1, <1>4, <1>5, <1>7

LEMMA PublishShutdownInv == Inv /\ PublishShutdown => Inv'
<1> SUFFICES ASSUME Inv, PublishShutdown PROVE Inv'
  OBVIOUS
<1> USE DEF Inv, PublishShutdown
<1>1. Lists' /\ Hands' /\ Places' /\ Scanned' /\ NoLostMatch'
  BY SamePlaces
<1>2. TypeOK'
  BY DEF TypeOK, lists, outcome, reqThreads, rpcThreads
<1>3. Phases' /\ LastOnePublishes'
  BY DEF Phases, LastOnePublishes, TypeOK
<1>4. EarlyLeaves'
  BY DEF EarlyLeaves, Phases, Made, Waits, Pends, lists, reqThreads, rpcThreads
<1>5. QED
  BY <1>1, <1>2, <1>3, <1>4

LEMMA HolderGoneInv == Inv /\ (ListenerDestroyDone \/ ChannelDestroy) => Inv'
<1> SUFFICES ASSUME Inv, ListenerDestroyDone \/ ChannelDestroy PROVE Inv'
  OBVIOUS
<1> USE DEF Inv, ListenerDestroyDone, ChannelDestroy
<1>1. Lists' /\ Hands' /\ Places' /\ Scanned' /\ NoLostMatch'
  BY SamePlaces
<1>2. /\ global = "free" /\ muCall' # "kill"
      /\ global' = IF called /\ ~published THEN "finish" ELSE "free"
      /\ called' = called /\ published' = published /\ early' = early
  BY DEF Finish, TypeOK
<1>3. TypeOK'
  <2>1. /\ global' \in {"free", "finish"}
        /\ {called', published', listener', channel', destroyed'} \subseteq BOOLEAN
    BY <1>2 DEF TypeOK
  <2>2. QED
    BY <1>2, <2>1 DEF TypeOK, lists, outcome, reqThreads, rpcThreads
<1>4. Phases' /\ LastOnePublishes'
  BY <1>2 DEF Phases, LastOnePublishes, TypeOK
<1>5. EarlyLeaves'
  BY <1>2 DEF EarlyLeaves, Made, Waits, Pends, lists, reqThreads, rpcThreads
<1>6. QED
  BY <1>1, <1>3, <1>4, <1>5

LEMMA ServerDestroyInv == Inv /\ ServerDestroy => Inv'
<1> SUFFICES ASSUME Inv, ServerDestroy PROVE Inv'
  OBVIOUS
<1> USE DEF Inv, ServerDestroy
<1>1. Lists' /\ Hands' /\ Places' /\ Scanned' /\ NoLostMatch'
  BY SamePlaces
<1>2. TypeOK' /\ Phases' /\ LastOnePublishes'
  BY DEF TypeOK, Phases, LastOnePublishes, lists, outcome, reqThreads, rpcThreads
<1>3. EarlyLeaves'
  BY DEF EarlyLeaves, Made, Waits, Pends, lists, reqThreads, rpcThreads
<1>4. QED
  BY <1>1, <1>2, <1>3

-----------------------------------------------------------------------------
(* The steps of a thread that requests a call                              *)

\* What the invariant says of a request.
LEMMA RequestTypes ==
    ASSUME Inv, NEW r \in Requests
    PROVE  /\ Queue[r] \in Cqs /\ requests[Queue[r]] \in Seq(Requests)
           /\ RequestPlace(r)
           /\ Distinct(requests[Queue[r]])
           /\ answer[r] \in {None, "failed"} \cup Rpcs
           /\ "failed" \notin Rpcs /\ None \notin Rpcs
  BY DEF Inv, TypeOK, Lists, Places

\* Scanned is kept while no queue that was attended to is left alone.
LEMMA ScannedKept ==
    ASSUME TypeOK, Scanned,
           \A c \in Rpcs : rpcAt'[c] \in {"slow", "pop", "queue"} =>
                              rpcAt'[c] = rpcAt[c] /\ idx'[c] = idx[c],
           \A q \in Cqs : Attended(q) => Attended(q)'
    PROVE  Scanned'
<1>1. ASSUME NEW c \in Rpcs, rpcAt'[c] = "pop", NEW k \in 0 .. idx'[c] - 1
      PROVE  Attended((Start[c] + k) % NumCqs)'
  <2>1. rpcAt[c] = "pop" /\ idx'[c] = idx[c] /\ idx[c] \in Cqs /\ Start[c] \in Cqs
    BY <1>1 DEF TypeOK
  <2>2. k \in 0 .. idx[c] - 1 /\ k \in Cqs
    BY <2>1 DEF Cqs
  <2>3. (Start[c] + k) % NumCqs \in Cqs
    BY <2>1, <2>2, QueueAt
  <2>4. Attended((Start[c] + k) % NumCqs)
    BY <2>1, <2>2 DEF Scanned
  <2>5. QED
    BY <2>3, <2>4
<1>2. \A c \in Rpcs : rpcAt'[c] = "slow" => idx'[c] = 0
  BY DEF Scanned
<1>3. \A c \in Rpcs : rpcAt'[c] = "queue" => \A q \in Cqs : Attended(q)'
  BY DEF Scanned
<1>4. QED
  BY <1>1, <1>2, <1>3 DEF Scanned

LEMMA QueueRequestedCallInv ==
    ASSUME Inv, NEW r \in Requests, QueueRequestedCall(r)
    PROVE  Inv'
<1> USE DEF Inv
<1>1. /\ UNCHANGED <<requests, pending, state, kills, match, rpcAt, idx, rc, muCall>>
      /\ UNCHANGED <<global, kq, called, published, listener, channel, early, destroyed>>
  BY DEF QueueRequestedCall, lists, rpcThreads, shutdown
<1>2. /\ reqAt[r] = "new" /\ reqAt'[r] \in {"push", "done"}
      /\ \A x \in Requests \ {r} : /\ reqAt'[x] = reqAt[x]
                                   /\ answer'[x] = answer[x] /\ answers'[x] = answers[x]
      /\ reqAt'[r] = "push" => answer'[r] = answer[r] /\ answers'[r] = answers[r]
      /\ reqAt'[r] = "done" => answer'[r] = "failed" /\ answers'[r] = answers[r] + 1
  BY DEF QueueRequestedCall, FailCalls, TypeOK
<1>3. RequestPlace(r) /\ answers[r] = 0 /\ answer[r] = None
  BY <1>2 DEF Places, RequestPlace, Made
<1>4. /\ \A x, z \in Requests : HeldBy(x, z)' <=> HeldBy(x, z)
      /\ \A x \in Requests, c \in Rpcs : TakenBy(x, c)' <=> TakenBy(x, c)
      /\ \A x \in Requests : Waits(x)' <=> Waits(x)
      /\ \A x \in Requests, c \in Rpcs : GotBy(c, x)' <=> GotBy(c, x)
      /\ \A c \in Rpcs : Pends(c)' <=> Pends(c)
      /\ \A x \in Requests \ {r} : Made(x)' <=> Made(x)
  BY <1>1, <1>2 DEF HeldBy, TakenBy, Waits, GotBy, Pends, Made
<1>5. TypeOK'
  <2>1. /\ reqAt' \in [Requests -> {"new", "push", "match", "activate", "done"}]
        /\ answer' \in [Requests -> {None, "failed"} \cup Rpcs]
        /\ answers' \in [Requests -> 0 .. 2]
    <3>1. CASE called
      <4>1. /\ FailCalls({r}) /\ reqAt' = [reqAt EXCEPT ![r] = "done"]
            /\ reqAt \in [Requests -> {"new", "push", "match", "activate", "done"}]
            /\ answer \in [Requests -> {None, "failed"} \cup Rpcs]
            /\ answers \in [Requests -> 0 .. 2]
        BY <3>1 DEF QueueRequestedCall, TypeOK
      <4>2. QED
        BY <1>3, <4>1 DEF FailCalls
    <3>2. CASE ~called
      <4>1. /\ UNCHANGED <<answer, answers>> /\ reqAt' = [reqAt EXCEPT ![r] = "push"]
            /\ reqAt \in [Requests -> {"new", "push", "match", "activate", "done"}]
        BY <3>2 DEF QueueRequestedCall, TypeOK
      <4>2. QED
        BY <4>1 DEF TypeOK
    <3>3. QED
      BY <3>1, <3>2
  <2>2. QED
    BY <1>1, <2>1 DEF TypeOK
<1>6. Lists' /\ Hands' /\ Phases' /\ LastOnePublishes'
  BY <1>1, <1>2 DEF Lists, Hands, Phases, LastOnePublishes
<1>7. ASSUME NEW z \in Requests PROVE RequestPlace(z)'
  <2>1. CASE z = r
    BY <1>2, <1>3, <1>4, <2>1 DEF RequestPlace, Made
  <2>2. CASE z # r
    <3>1. RequestPlace(z) /\ z \in Requests \ {r}
      BY <2>2 DEF Places
    <3>2. answers'[z] = answers[z] /\ answer'[z] = answer[z]
      BY <1>2, <3>1
    <3>3. QED
      BY <1>4, <3>1, <3>2 DEF RequestPlace
  <2>3. QED
    BY <2>1, <2>2
<1>8. ASSUME NEW c \in Rpcs PROVE RpcPlace(c)'
  <2>1. \A x \in Requests : answer'[x] = c <=> answer[x] = c
    BY <1>2, <1>3
  <2>2. QED
    BY <1>1, <1>4, <2>1 DEF Places, RpcPlace
<1>9. Scanned' /\ NoLostMatch'
  <2>1. \A q \in Cqs : Attended(q) => Attended(q)'
    BY <1>1, <1>2 DEF Attended
  <2>2. Scanned'
    BY <1>1, <2>1, ScannedKept
  <2>3. NoLostMatch'
    BY <1>1, <1>2 DEF NoLostMatch
  <2>4. QED
    BY <2>2, <2>3
<1>10. EarlyLeaves'
  BY <1>1, <1>2, <1>4 DEF EarlyLeaves, Made
<1>11. QED
  BY <1>5, <1>6, <1>7, <1>8, <1>9, <1>10 DEF Places

LEMMA PushRequestInv ==
    ASSUME Inv, NEW r \in Requests, PushRequest(r)
    PROVE  Inv'
<1> USE DEF Inv
<1> DEFINE s == requests[Queue[r]]
<1>1. /\ UNCHANGED <<pending, state, kills, answer, answers, match, rpcAt, idx, rc, muCall>>
      /\ UNCHANGED <<global, kq, called, published, listener, channel, early, destroyed>>
  BY DEF PushRequest, outcome, rpcThreads, shutdown
<1>2. Queue[r] \in Cqs /\ s \in Seq(Requests) /\ RequestPlace(r) /\ Distinct(s)
  BY RequestTypes
<1> DEFINE t == Append(s, r)
<1>3. /\ reqAt[r] = "push" /\ reqAt'[r] \in {"match", "done"}
      /\ \A x \in Requests \ {r} : reqAt'[x] = reqAt[x]
      /\ requests'[Queue[r]] = t
      /\ \A q \in Cqs \ {Queue[r]} : requests'[q] = requests[q]
      /\ s = <<>> => reqAt'[r] = "match"
  <2>1. requests' = [requests EXCEPT ![Queue[r]] = t]
    BY DEF PushRequest
  <2>2. requests'[Queue[r]] = t /\ \A q \in Cqs \ {Queue[r]} : requests'[q] = requests[q]
    BY <1>2, <2>1 DEF TypeOK
  <2>3. PICK first \in {s = <<>>, TRUE} :
            reqAt' = [reqAt EXCEPT ![r] = IF first THEN "match" ELSE "done"]
    BY DEF PushRequest
  <2>4. s = <<>> => first
    BY <2>3
  <2>5. reqAt \in [Requests -> {"new", "push", "match", "activate", "done"}] /\ reqAt[r] = "push"
    BY DEF PushRequest, TypeOK
  <2>6. QED
    BY <2>2, <2>3, <2>4, <2>5
<1>4. ~Waits(r) /\ answers[r] = 0 /\ ~Made(r) /\ answer[r] = None
  BY <1>2, <1>3 DEF RequestPlace, Made
<1>5. /\ t \in Seq(Requests) /\ t # <<>> /\ Distinct(t)
      /\ \A x : Has(t, x) <=> Has(s, x) \/ x = r
  BY <1>2, <1>4, AppendHas DEF Waits
<1> HIDE DEF t
<1>6. \A x \in Requests : Waits(x)' <=> Waits(x) \/ x = r
  <2>1. ASSUME NEW x \in Requests, Queue[x] = Queue[r] PROVE Waits(x)' <=> Waits(x) \/ x = r
    BY <1>3, <1>5, <2>1 DEF Waits
  <2>2. ASSUME NEW x \in Requests, Queue[x] # Queue[r] PROVE Waits(x)' <=> Waits(x)
    BY <1>3, <2>2 DEF Waits
  <2>3. QED
    BY <2>1, <2>2
<1>7. /\ \A x, z \in Requests : HeldBy(x, z)' <=> HeldBy(x, z)
      /\ \A x \in Requests, c \in Rpcs : TakenBy(x, c)' <=> TakenBy(x, c)
      /\ \A x \in Requests, c \in Rpcs : GotBy(c, x)' <=> GotBy(c, x)
      /\ \A c \in Rpcs : Pends(c)' <=> Pends(c)
      /\ \A x \in Requests \ {r} : Made(x)' <=> Made(x)
      /\ Made(r)'
  BY <1>1, <1>3 DEF HeldBy, TakenBy, GotBy, Pends, Made
<1>8. TypeOK'
  <2>1. /\ reqAt' \in [Requests -> {"new", "push", "match", "activate", "done"}]
        /\ requests' \in [Cqs -> Seq(Requests)]
    BY <1>5 DEF PushRequest, TypeOK, t
  <2>2. QED
    BY <1>1, <2>1 DEF TypeOK
<1>9. Lists'
  BY <1>1, <1>3, <1>5 DEF Lists
<1>10. Hands' /\ Phases' /\ LastOnePublishes'
  BY <1>1, <1>3 DEF Hands, Phases, LastOnePublishes
<1>11. ASSUME NEW z \in Requests PROVE RequestPlace(z)'
  <2>1. CASE z = r
    BY <1>1, <1>2, <1>4, <1>6, <1>7, <2>1 DEF RequestPlace
  <2>2. CASE z # r
    BY <1>1, <1>6, <1>7, <2>2 DEF Places, RequestPlace
  <2>3. QED
    BY <2>1, <2>2
<1>12. ASSUME NEW c \in Rpcs PROVE RpcPlace(c)'
  BY <1>1, <1>7 DEF Places, RpcPlace
<1>13. Scanned' /\ NoLostMatch'
  <2>1. ASSUME NEW q \in Cqs, Attended(q) PROVE Attended(q)'
    <3>1. CASE q # Queue[r]
      BY <1>3, <2>1, <3>1 DEF Attended
    <3>2. CASE q = Queue[r] /\ s = <<>>
      BY <1>3, <3>2 DEF Attended
    <3>3. CASE q = Queue[r] /\ s # <<>>
      BY <1>3, <2>1, <3>3 DEF Attended
    <3>4. QED
      BY <3>1, <3>2, <3>3
  <2>2. Scanned'
    BY <1>1, <2>1, ScannedKept
  <2>3. NoLostMatch'
    <3>1. ASSUME NEW q \in Cqs, pending # <<>>, requests'[q] # <<>>
          PROVE  \E x \in Requests : Queue[x] = q /\ reqAt'[x] \in {"match", "activate"}
      <4>1. CASE q # Queue[r] \/ s # <<>>
        <5>1. requests[q] # <<>>
          BY <1>3, <3>1, <4>1
        <5>2. PICK x \in Requests : Queue[x] = q /\ reqAt[x] \in {"match", "activate"}
          BY <3>1, <5>1 DEF NoLostMatch
        <5>3. QED
          BY <1>3, <5>2
      <4>2. CASE q = Queue[r] /\ s = <<>>
        BY <1>3, <4>2
      <4>3. QED
        BY <4>1, <4>2
    <3>2. QED
      BY <1>1, <3>1 DEF NoLostMatch
  <2>4. QED
    BY <2>2, <2>3
<1>14. EarlyLeaves'
  <2>1. r \notin early
    BY <1>4 DEF EarlyLeaves
  <2>2. QED
    BY <1>1, <1>6, <1>7, <2>1 DEF EarlyLeaves
<1>15. QED
  BY <1>8, <1>9, <1>10, <1>11, <1>12, <1>13, <1>14 DEF Places

LEMMA PopNextPendingInv ==
    ASSUME Inv, NEW r \in Requests, PopNextPending(r)
    PROVE  Inv'
<1> USE DEF Inv
<1> DEFINE s == requests[Queue[r]]  h == Head(s)  c == Head(pending)
<1>1. /\ UNCHANGED <<state, kills, answer, answers, rpcAt, idx, rc, muCall>>
      /\ UNCHANGED <<global, kq, called, published, listener, channel, early, destroyed>>
  BY DEF PopNextPending, outcome, rpcThreads, shutdown
<1>2. Queue[r] \in Cqs /\ s \in Seq(Requests) /\ Distinct(s) /\ pending \in Seq(Rpcs)
  BY RequestTypes DEF TypeOK
<1>3. reqAt[r] = "match" /\ muCall = None /\ None \notin Rpcs
  BY DEF PopNextPending
<1>4. \A d \in Rpcs : rpcAt[d] \notin {"pop", "queue"}
  BY <1>3 DEF TypeOK
<1>5. CASE pending # <<>> /\ s # <<>>
  <2>1. /\ h \in Requests /\ Tail(s) \in Seq(Requests) /\ Has(s, h) /\ Distinct(Tail(s))
        /\ \A x : Has(Tail(s), x) <=> Has(s, x) /\ x # h
    BY <1>2, <1>5, TailHas
  <2>2. /\ c \in Rpcs /\ Tail(pending) \in Seq(Rpcs) /\ Has(pending, c)
        /\ Distinct(Tail(pending))
        /\ \A d : Has(Tail(pending), d) <=> Has(pending, d) /\ d # c
    BY <1>2, <1>5, TailHas DEF Lists
  <2>3. /\ match' = [match EXCEPT ![r] = <<h, c>>]
        /\ requests' = [requests EXCEPT ![Queue[r]] = Tail(s)]
        /\ pending' = Tail(pending)
        /\ reqAt' = [reqAt EXCEPT ![r] = "activate"]
    BY <1>5 DEF PopNextPending
  <2> DEFINE ts == Tail(s)  tp == Tail(pending)
  <2> HIDE DEF h, c, ts, tp
  <2>4. /\ match'[r] = <<h, c>> /\ match'[r] # None
        /\ requests'[Queue[r]] = ts /\ pending' = tp
        /\ reqAt'[r] = "activate"
        /\ \A x \in Requests \ {r} : reqAt'[x] = reqAt[x] /\ match'[x] = match[x]
        /\ \A q \in Cqs \ {Queue[r]} : requests'[q] = requests[q]
    BY <1>2, <2>1, <2>2, <2>3 DEF TypeOK, ts, tp
  <2>5. Queue[h] = Queue[r] /\ Waits(h) /\ Pends(c)
    BY <1>2, <2>1, <2>2 DEF Lists, Waits, Pends
  <2>6. \A x \in Requests : Waits(x)' <=> Waits(x) /\ x # h
    <3>1. ASSUME NEW x \in Requests, Queue[x] = Queue[r]
          PROVE  Waits(x)' <=> Waits(x) /\ x # h
      BY <2>1, <2>4, <3>1 DEF Waits, ts
    <3>2. ASSUME NEW x \in Requests, Queue[x] # Queue[r]
          PROVE  Waits(x)' <=> Waits(x) /\ x # h
      BY <2>4, <2>5, <3>2 DEF Waits
    <3>3. QED
      BY <3>1, <3>2
  <2>7. /\ \A x, z \in Requests : HeldBy(x, z)' <=> HeldBy(x, z) \/ (x = r /\ z = h)
        /\ \A x \in Requests, d \in Rpcs : TakenBy(x, d)' <=> TakenBy(x, d) \/ (x = r /\ d = c)
    BY <1>3, <2>4 DEF HeldBy, TakenBy
  <2>8. /\ \A x \in Requests, d \in Rpcs : GotBy(d, x)' <=> GotBy(d, x)
        /\ \A x \in Requests : Made(x)' <=> Made(x)
        /\ \A d \in Rpcs : Pends(d)' <=> Pends(d) /\ d # c
    BY <1>1, <1>3, <2>2, <2>4 DEF GotBy, Made, Pends, tp
  <2>9. TypeOK'
    <3>1. /\ reqAt' \in [Requests -> {"new", "push", "match", "activate", "done"}]
          /\ requests' \in [Cqs -> Seq(Requests)]
          /\ match' \in [Requests -> {None} \cup (Requests \X Rpcs)]
          /\ pending' \in Seq(Rpcs)
      BY <2>1, <2>2, <2>3 DEF TypeOK
    <3>2. QED
      BY <1>1, <3>1 DEF TypeOK
  <2>10. Lists'
    <3>1. \A x : Has(ts, x) => Has(s, x)
      BY <2>1 DEF ts
    <3>2. Distinct(ts) /\ Distinct(tp)
      BY <2>1, <2>2 DEF ts, tp
    <3>3. QED
      BY <2>4, <3>1, <3>2 DEF Lists
  <2>11. Hands' /\ Phases' /\ LastOnePublishes'
    BY <1>1, <1>3, <2>4 DEF Hands, Phases, LastOnePublishes
  <2>12. ASSUME NEW z \in Requests PROVE RequestPlace(z)'
    BY <1>1, <1>3, <2>1, <2>5, <2>6, <2>7, <2>8 DEF Places, RequestPlace
  <2>13. ASSUME NEW d \in Rpcs PROVE RpcPlace(d)'
    BY <1>1, <1>3, <2>2, <2>5, <2>7, <2>8 DEF Places, RpcPlace
  <2>14. Scanned'
    BY <1>1, <1>4 DEF Scanned
  <2>15. NoLostMatch'
    <3>1. ASSUME NEW q \in Cqs, requests'[q] # <<>>
          PROVE  \E x \in Requests : Queue[x] = q /\ reqAt'[x] \in {"match", "activate"}
      <4>1. CASE q = Queue[r]
        BY <2>4, <4>1
      <4>2. CASE q # Queue[r]
        <5>1. PICK x \in Requests : Queue[x] = q /\ reqAt[x] \in {"match", "activate"}
          BY <1>5, <2>4, <3>1, <4>2 DEF NoLostMatch
        <5>2. QED
          BY <2>4, <5>1
      <4>3. QED
        BY <4>1, <4>2
    <3>2. QED
      BY <3>1 DEF NoLostMatch
  <2>16. EarlyLeaves'
    BY <1>1, <2>6, <2>8 DEF EarlyLeaves
  <2>17. QED
    BY <2>9, <2>10, <2>11, <2>12, <2>13, <2>14, <2>15, <2>16 DEF Places
<1>6. CASE pending = <<>> \/ s = <<>>
  <2>1. UNCHANGED <<requests, pending, match>> /\ reqAt' = [reqAt EXCEPT ![r] = "done"]
    BY <1>6 DEF PopNextPending, lists
  <2>2. reqAt'[r] = "done" /\ \A x \in Requests \ {r} : reqAt'[x] = reqAt[x]
    BY <2>1 DEF TypeOK
  <2>3. /\ \A x, z \in Requests : HeldBy(x, z)' <=> HeldBy(x, z)
        /\ \A x \in Requests, d \in Rpcs : TakenBy(x, d)' <=> TakenBy(x, d)
        /\ \A x \in Requests, d \in Rpcs : GotBy(d, x)' <=> GotBy(d, x)
        /\ \A x \in Requests : (Made(x)' <=> Made(x)) /\ (Waits(x)' <=> Waits(x))
        /\ \A d \in Rpcs : Pends(d)' <=> Pends(d)
    BY <1>1, <1>3, <2>1, <2>2 DEF HeldBy, TakenBy, GotBy, Made, Waits, Pends
  <2>4. TypeOK'
    <3>1. reqAt' \in [Requests -> {"new", "push", "match", "activate", "done"}]
      BY <2>1 DEF TypeOK
    <3>2. QED
      BY <1>1, <2>1, <3>1 DEF TypeOK
  <2>5. Lists' /\ Hands' /\ Phases' /\ LastOnePublishes'
    BY <1>1, <1>3, <2>1, <2>2 DEF Lists, Hands, Phases, LastOnePublishes
  <2>6. ASSUME NEW z \in Requests PROVE RequestPlace(z)'
    BY <1>1, <2>3 DEF Places, RequestPlace
  <2>7. ASSUME NEW d \in Rpcs PROVE RpcPlace(d)'
    BY <1>1, <2>3 DEF Places, RpcPlace
  <2>8. Scanned'
    BY <1>1, <1>4 DEF Scanned
  <2>9. NoLostMatch'
    <3>1. ASSUME NEW q \in Cqs, requests[q] # <<>>, pending # <<>>
          PROVE  \E x \in Requests : Queue[x] = q /\ reqAt'[x] \in {"match", "activate"}
      <4>1. q # Queue[r]
        BY <1>6, <3>1
      <4>2. PICK x \in Requests : Queue[x] = q /\ reqAt[x] \in {"match", "activate"}
        BY <3>1 DEF NoLostMatch
      <4>3. QED
        BY <2>2, <4>1, <4>2
    <3>2. QED
      BY <2>1, <3>1 DEF NoLostMatch
  <2>10. EarlyLeaves'
    BY <1>1, <2>3 DEF EarlyLeaves
  <2>11. QED
    BY <2>4, <2>5, <2>6, <2>7, <2>8, <2>9, <2>10 DEF Places
<1>7. QED
  BY <1>5, <1>6

LEMMA ActivatePendingInv ==
    ASSUME Inv, NEW r \in Requests, ActivatePending(r)
    PROVE  Inv'
<1> USE DEF Inv
<1> DEFINE h == match[r][1]  c == match[r][2]
<1>1. /\ UNCHANGED <<requests, pending, rpcAt, idx, rc, muCall>>
      /\ UNCHANGED <<global, kq, called, published, listener, channel, early, destroyed>>
  BY DEF ActivatePending, lists, rpcThreads, shutdown
<1>2. reqAt[r] = "activate" /\ match[r] \in Requests \X Rpcs
  BY DEF ActivatePending, Hands, TypeOK
<1>3. h \in Requests /\ c \in Rpcs /\ HeldBy(r, h) /\ TakenBy(r, c)
  BY <1>2 DEF HeldBy, TakenBy
<1>4. state[c] = "PENDING" /\ kills[c] = 0 /\ rpcAt[c] = "done"
  BY <1>3 DEF Places, RpcPlace
<1>5. answers[h] = 0 /\ answer[h] = None /\ Made(h)
  BY <1>3 DEF Places, RequestPlace
<1>6. /\ state' = [state EXCEPT ![c] = "ACTIVATED"]
      /\ answer' = [answer EXCEPT ![h] = c]
      /\ answers' = [answers EXCEPT ![h] = @ + 1]
      /\ kills' = kills
      /\ match' = [match EXCEPT ![r] = None]
      /\ reqAt' = [reqAt EXCEPT ![r] = "match"]
  BY <1>4 DEF ActivatePending, Publish
<1> HIDE DEF h, c
<1>7. TypeOK'
  <2>1. /\ state' \in [Rpcs -> {"NOT_STARTED", "PENDING", "ACTIVATED", "ZOMBIED"}]
        /\ answer' \in [Requests -> {None, "failed"} \cup Rpcs]
        /\ answers' \in [Requests -> 0 .. 2]
        /\ match' \in [Requests -> {None} \cup (Requests \X Rpcs)]
        /\ reqAt' \in [Requests -> {"new", "push", "match", "activate", "done"}]
    BY <1>3, <1>5, <1>6 DEF TypeOK
  <2>2. QED
    BY <1>1, <1>6, <2>1 DEF TypeOK
<1>8. /\ answer'[h] = c /\ answers'[h] = 1
      /\ \A x \in Requests \ {h} : answer'[x] = answer[x] /\ answers'[x] = answers[x]
      /\ match'[r] = None /\ reqAt'[r] = "match"
      /\ \A x \in Requests \ {r} : match'[x] = match[x] /\ reqAt'[x] = reqAt[x]
      /\ \A d \in Rpcs \ {c} : state'[d] = state[d]
  BY <1>3, <1>5, <1>6 DEF TypeOK
<1>9. /\ \A x, z \in Requests : HeldBy(x, z)' <=> HeldBy(x, z) /\ x # r
      /\ \A x \in Requests, d \in Rpcs : TakenBy(x, d)' <=> TakenBy(x, d) /\ x # r
      /\ \A x \in Requests, d \in Rpcs : GotBy(d, x)' <=> GotBy(d, x)
      /\ \A x \in Requests : (Made(x)' <=> Made(x)) /\ (Waits(x)' <=> Waits(x))
      /\ \A d \in Rpcs : Pends(d)' <=> Pends(d)
  BY <1>1, <1>2, <1>8 DEF HeldBy, TakenBy, GotBy, Made, Waits, Pends
<1>10. /\ \A z \in Requests : HeldBy(r, z) => z = h
       /\ \A d \in Rpcs : TakenBy(r, d) => d = c
  BY DEF HeldBy, TakenBy, h, c
<1>11. Lists' /\ Hands' /\ Phases' /\ LastOnePublishes'
  BY <1>1, <1>2, <1>8 DEF Lists, Hands, Phases, LastOnePublishes
<1>12. ASSUME NEW z \in Requests PROVE RequestPlace(z)'
  <2>1. CASE z = h
    BY <1>3, <1>8, <1>9, <2>1 DEF Places, RequestPlace
  <2>2. CASE z # h
    BY <1>8, <1>9, <1>10, <2>2 DEF Places, RequestPlace
  <2>3. QED
    BY <2>1, <2>2
<1>13. ASSUME NEW d \in Rpcs PROVE RpcPlace(d)'
  <2>1. \A x \in Requests : answer'[x] = d <=> answer[x] = d \/ (x = h /\ d = c)
    BY <1>3, <1>5, <1>8
  <2>2. CASE d = c
    BY <1>1, <1>3, <1>4, <1>6, <1>9, <2>1, <2>2 DEF Places, RpcPlace
  <2>3. CASE d # c
    BY <1>1, <1>6, <1>8, <1>9, <1>10, <2>1, <2>3 DEF Places, RpcPlace
  <2>4. QED
    BY <2>2, <2>3
<1>14. Scanned'
  <2>1. \A q \in Cqs : Attended(q) => Attended(q)'
    BY <1>1, <1>8 DEF Attended
  <2>2. QED
    BY <1>1, <2>1, ScannedKept
<1>15. NoLostMatch'
  BY <1>1, <1>8 DEF NoLostMatch
<1>16. EarlyLeaves'
  BY <1>1, <1>9 DEF EarlyLeaves
<1>17. QED
  BY <1>7, <1>11, <1>12, <1>13, <1>14, <1>15, <1>16 DEF Places

-----------------------------------------------------------------------------
(* The steps of a thread that brings an RPC                                *)

RpcWhere == {"new", "publish", "try", "slow", "pop", "queue", "got", "done"}

\* mu_call_ and the threads in its sections, one thread at a time.
LEMMA Holder == TypeOK => \A d \in Rpcs : rpcAt[d] \in {"pop", "queue"} <=> d = muCall
  BY DEF TypeOK

LEMMA QueueOfRpc ==
    ASSUME TypeOK, NEW c \in Rpcs
    PROVE  CqIdx(c) \in Cqs /\ requests[CqIdx(c)] \in Seq(Requests)
<1>1. idx[c] \in Cqs /\ Start[c] \in Cqs
  BY DEF TypeOK
<1>2. CqIdx(c) \in Cqs
  BY <1>1, QueueAt DEF CqIdx
<1>3. QED
  BY <1>2 DEF TypeOK

\* The thread moves and takes nothing.
LEMMA RpcMoves ==
    ASSUME Inv, NEW c \in Rpcs, NEW to \in RpcWhere,
           rpcAt[c] \notin {"got", "done"}, to \notin {"got", "done"},
           rpcAt' = [rpcAt EXCEPT ![c] = to],
           UNCHANGED <<lists, outcome, reqThreads, rc>>
    PROVE  /\ rpcAt' \in [Rpcs -> RpcWhere] /\ rpcAt'[c] = to
           /\ \A d \in Rpcs \ {c} : rpcAt'[d] = rpcAt[d]
           /\ Lists' /\ Hands' /\ Places' /\ NoLostMatch'
<1> USE DEF Inv
<1>1. UNCHANGED <<requests, pending, state, kills, answer, answers, reqAt, match, rc>>
  BY DEF lists, outcome, reqThreads
<1>2. /\ rpcAt' \in [Rpcs -> RpcWhere] /\ rpcAt'[c] = to
      /\ \A d \in Rpcs \ {c} : rpcAt'[d] = rpcAt[d]
  BY DEF TypeOK, RpcWhere
<1>3. /\ \A x, z \in Requests : HeldBy(x, z)' <=> HeldBy(x, z)
      /\ \A x \in Requests, d \in Rpcs : TakenBy(x, d)' <=> TakenBy(x, d)
      /\ \A x \in Requests, d \in Rpcs : GotBy(d, x)' <=> GotBy(d, x)
      /\ \A x \in Requests : (Made(x)' <=> Made(x)) /\ (Waits(x)' <=> Waits(x))
      /\ \A d \in Rpcs : Pends(d)' <=> Pends(d)
  BY <1>1, <1>2 DEF HeldBy, TakenBy, GotBy, Made, Waits, Pends
<1>4. Lists' /\ Hands' /\ NoLostMatch'
  BY <1>1, <1>2 DEF Lists, Hands, NoLostMatch
<1>5. ASSUME NEW z \in Requests PROVE RequestPlace(z)'
  BY <1>1, <1>3 DEF Places, RequestPlace
<1>6. ASSUME NEW d \in Rpcs PROVE RpcPlace(d)'
  <2>1. rpcAt'[d] = "done" <=> rpcAt[d] = "done"
    BY <1>2
  <2>2. QED
    BY <1>1, <1>3, <2>1 DEF Places, RpcPlace
<1>7. QED
  BY <1>2, <1>4, <1>5, <1>6 DEF Places

\* Nothing of the shutdown depends on an RPC that has not come to its end.
LEMMA RpcMovesShutdown ==
    ASSUME Inv, UNCHANGED <<lists, reqThreads, shutdown>>,
           \A d \in Rpcs : rpcAt[d] = "done" => rpcAt'[d] = "done",
           muCall' = muCall \/ muCall' # "kill"
    PROVE  Phases' /\ EarlyLeaves' /\ LastOnePublishes'
  BY DEF Inv, lists, reqThreads, shutdown, Phases, EarlyLeaves, LastOnePublishes,
         Made, Waits, Pends

LEMMA RpcStartsInv ==
    ASSUME Inv, NEW c \in Rpcs, StartNewRpc(c) \/ PublishNewRpc(c)
    PROVE  Inv'
<1> USE DEF Inv
<1>1. /\ UNCHANGED <<lists, answer, answers, reqThreads, idx, rc, muCall, shutdown>>
      /\ rpcAt[c] \in {"new", "publish"}
  BY DEF StartNewRpc, PublishNewRpc
<1>2. \/ Zombify({c}) /\ rpcAt' = [rpcAt EXCEPT ![c] = "done"]
      \/ /\ UNCHANGED <<state, kills>>
         /\ \E to \in {"publish", "try"} : rpcAt' = [rpcAt EXCEPT ![c] = to]
  BY DEF StartNewRpc, PublishNewRpc
<1>3. UNCHANGED <<requests, pending, answer, answers, reqAt, match, idx, rc, muCall>>
  BY <1>1 DEF lists, reqThreads
<1>4. \A q \in Cqs : Attended(q) => Attended(q)'
  BY <1>3 DEF Attended
<1>5. CASE Zombify({c}) /\ rpcAt' = [rpcAt EXCEPT ![c] = "done"]
  <2>1. /\ rpcAt'[c] = "done" /\ state'[c] = "ZOMBIED" /\ kills'[c] = kills[c] + 1
        /\ \A d \in Rpcs \ {c} : /\ rpcAt'[d] = rpcAt[d]
                                 /\ state'[d] = state[d] /\ kills'[d] = kills[d]
    BY <1>5 DEF Zombify, TypeOK
  <2>2. kills[c] = 0
    BY <1>1 DEF Places, RpcPlace
  <2>3. TypeOK'
    <3>1. /\ state' \in [Rpcs -> {"NOT_STARTED", "PENDING", "ACTIVATED", "ZOMBIED"}]
          /\ kills' \in [Rpcs -> 0 .. 2]
      BY <1>5, <2>2 DEF Zombify, TypeOK
    <3>2. /\ rpcAt' \in [Rpcs -> RpcWhere]
          /\ {d \in Rpcs : rpcAt'[d] \in {"pop", "queue"}} = {muCall} \cap Rpcs
      BY <1>1, <1>5, <2>1 DEF TypeOK, RpcWhere
    <3>3. QED
      BY <1>1, <1>3, <3>1, <3>2 DEF TypeOK, RpcWhere, shutdown
  <2>4. /\ \A x, z \in Requests : HeldBy(x, z)' <=> HeldBy(x, z)
        /\ \A x \in Requests, d \in Rpcs : TakenBy(x, d)' <=> TakenBy(x, d)
        /\ \A x \in Requests, d \in Rpcs : GotBy(d, x)' <=> GotBy(d, x)
        /\ \A x \in Requests : (Made(x)' <=> Made(x)) /\ (Waits(x)' <=> Waits(x))
        /\ \A d \in Rpcs : Pends(d)' <=> Pends(d)
    BY <1>1, <1>3, <2>1 DEF HeldBy, TakenBy, GotBy, Made, Waits, Pends
  <2>5. Lists' /\ Hands' /\ NoLostMatch'
    BY <1>1, <1>3, <2>1 DEF Lists, Hands, NoLostMatch
  <2>6. ASSUME NEW z \in Requests PROVE RequestPlace(z)'
    BY <1>3, <2>4 DEF Places, RequestPlace
  <2>7. ASSUME NEW d \in Rpcs PROVE RpcPlace(d)'
    <3>1. CASE d = c
      BY <1>1, <1>3, <2>1, <2>2, <2>4, <3>1 DEF Places, RpcPlace
    <3>2. CASE d # c
      BY <1>3, <2>1, <2>4, <3>2 DEF Places, RpcPlace
    <3>3. QED
      BY <3>1, <3>2
  <2>8. Scanned'
    BY <1>3, <1>4, <2>1, ScannedKept
  <2>9. Phases' /\ EarlyLeaves' /\ LastOnePublishes'
    BY <1>1, <2>1, RpcMovesShutdown
  <2>10. QED
    BY <2>3, <2>5, <2>6, <2>7, <2>8, <2>9 DEF Places
<1>6. CASE /\ UNCHANGED <<state, kills>>
           /\ \E to \in {"publish", "try"} : rpcAt' = [rpcAt EXCEPT ![c] = to]
  <2>1. PICK to \in {"publish", "try"} : rpcAt' = [rpcAt EXCEPT ![c] = to]
    BY <1>6
  <2>2. to \in RpcWhere
    BY DEF RpcWhere
  <2>3. /\ rpcAt' \in [Rpcs -> RpcWhere] /\ rpcAt'[c] = to
        /\ \A d \in Rpcs \ {c} : rpcAt'[d] = rpcAt[d]
        /\ Lists' /\ Hands' /\ Places' /\ NoLostMatch'
    BY <1>1, <1>6, <2>1, <2>2, RpcMoves DEF outcome
  <2>4. TypeOK'
    <3>1. {d \in Rpcs : rpcAt'[d] \in {"pop", "queue"}} = {muCall} \cap Rpcs
      BY <1>1, <2>3 DEF TypeOK
    <3>2. QED
      BY <1>1, <1>3, <1>6, <2>3, <3>1 DEF TypeOK, RpcWhere, shutdown
  <2>5. Scanned'
    BY <1>3, <1>4, <2>3, ScannedKept
  <2>6. Phases' /\ EarlyLeaves' /\ LastOnePublishes'
    BY <1>1, <2>3, RpcMovesShutdown
  <2>7. QED
    BY <2>3, <2>4, <2>5, <2>6
<1>7. QED
  BY <1>2, <1>5, <1>6

LEMMA LockCallInv ==
    ASSUME Inv, NEW c \in Rpcs, LockCall(c)
    PROVE  Inv'
<1> USE DEF Inv
<1>1. /\ UNCHANGED <<lists, outcome, reqThreads, idx, rc, shutdown>>
      /\ rpcAt[c] = "slow" /\ rpcAt' = [rpcAt EXCEPT ![c] = "pop"]
      /\ muCall = None /\ muCall' = c /\ c # "kill"
  BY DEF LockCall
<1>2. "pop" \in RpcWhere
  BY DEF RpcWhere
<1>3. /\ rpcAt' \in [Rpcs -> RpcWhere] /\ rpcAt'[c] = "pop"
      /\ \A d \in Rpcs \ {c} : rpcAt'[d] = rpcAt[d]
      /\ Lists' /\ Hands' /\ Places' /\ NoLostMatch'
  BY <1>1, <1>2, RpcMoves
<1>4. \A d \in Rpcs : rpcAt[d] \notin {"pop", "queue"}
  BY <1>1, Holder
<1>5. TypeOK'
  <2>1. {d \in Rpcs : rpcAt'[d] \in {"pop", "queue"}} = {muCall'} \cap Rpcs
    BY <1>1, <1>3, <1>4
  <2>2. QED
    BY <1>1, <1>3, <2>1 DEF TypeOK, RpcWhere, lists, outcome, reqThreads, shutdown
<1>6. Scanned'
  BY <1>1, <1>3, <1>4 DEF Scanned
<1>7. Phases' /\ EarlyLeaves' /\ LastOnePublishes'
  BY <1>1, <1>3, RpcMovesShutdown
<1>8. QED
  BY <1>3, <1>5, <1>6, <1>7

\* An RPC takes the first request of a queue, with or without mu_call_.
LEMMA TakeInv ==
    ASSUME Inv, NEW c \in Rpcs, Take(c), requests[CqIdx(c)] # <<>>,
           UNCHANGED <<pending, outcome, reqThreads, shutdown>>,
           \/ rpcAt[c] = "try" /\ muCall' = muCall
           \/ rpcAt[c] = "pop" /\ muCall' = None
    PROVE  Inv'
<1> USE DEF Inv
<1> DEFINE q == CqIdx(c)  s == requests[q]  h == Head(s)
<1>1. UNCHANGED <<pending, state, kills, answer, answers, reqAt, match, idx>>
  BY DEF Take, outcome, reqThreads
<1>2. q \in Cqs /\ s \in Seq(Requests) /\ Distinct(s) /\ s # <<>>
  BY QueueOfRpc DEF Lists
<1>3. /\ h \in Requests /\ Tail(s) \in Seq(Requests) /\ Has(s, h) /\ Distinct(Tail(s))
      /\ \A x : Has(Tail(s), x) <=> Has(s, x) /\ x # h
  BY <1>2, TailHas
<1>4. /\ rc' = [rc EXCEPT ![c] = h]
      /\ requests' = [requests EXCEPT ![q] = Tail(s)]
      /\ rpcAt' = [rpcAt EXCEPT ![c] = "got"]
      /\ rpcAt[c] \in {"try", "pop"}
  BY DEF Take
<1> DEFINE ts == Tail(s)
<1> HIDE DEF q, h, ts
<1>5. /\ rc'[c] = h /\ rc'[c] # None /\ requests'[q] = ts /\ rpcAt'[c] = "got"
      /\ \A d \in Rpcs \ {c} : rc'[d] = rc[d] /\ rpcAt'[d] = rpcAt[d]
      /\ \A p \in Cqs \ {q} : requests'[p] = requests[p]
  BY <1>2, <1>3, <1>4 DEF TypeOK, ts
<1>6. Queue[h] = q /\ Waits(h)
  BY <1>2, <1>3 DEF Lists, Waits
<1>7. \A x \in Requests : Waits(x)' <=> Waits(x) /\ x # h
  <2>1. ASSUME NEW x \in Requests, Queue[x] = q PROVE Waits(x)' <=> Waits(x) /\ x # h
    BY <1>3, <1>5, <2>1 DEF Waits, ts
  <2>2. ASSUME NEW x \in Requests, Queue[x] # q PROVE Waits(x)' <=> Waits(x) /\ x # h
    BY <1>5, <1>6, <2>2 DEF Waits
  <2>3. QED
    BY <2>1, <2>2
<1>8. /\ \A x, z \in Requests : HeldBy(x, z)' <=> HeldBy(x, z)
      /\ \A x \in Requests, d \in Rpcs : TakenBy(x, d)' <=> TakenBy(x, d)
      /\ \A x \in Requests, d \in Rpcs : GotBy(d, x)' <=> GotBy(d, x) \/ (d = c /\ x = h)
      /\ \A x \in Requests : Made(x)' <=> Made(x)
      /\ \A d \in Rpcs : Pends(d)' <=> Pends(d)
  BY <1>1, <1>4, <1>5 DEF HeldBy, TakenBy, GotBy, Made, Pends
<1>9. TypeOK'
  <2>1. /\ rc' \in [Rpcs -> {None} \cup Requests]
        /\ requests' \in [Cqs -> Seq(Requests)]
        /\ rpcAt' \in [Rpcs -> RpcWhere]
    BY <1>3, <1>4 DEF TypeOK, RpcWhere
  <2>2. {d \in Rpcs : rpcAt'[d] \in {"pop", "queue"}} = {muCall'} \cap Rpcs
    BY <1>4, <1>5, Holder
  <2>3. muCall' = "kill" => muCall = "kill"
    OBVIOUS
  <2>4. QED
    BY <1>1, <2>1, <2>2, <2>3 DEF TypeOK, RpcWhere, shutdown
<1>10. Lists'
  <2>1. Distinct(ts) /\ \A x : Has(ts, x) => Has(s, x)
    BY <1>3 DEF ts
  <2>2. QED
    BY <1>1, <1>5, <2>1 DEF Lists
<1>11. Hands'
  BY <1>1, <1>4, <1>5 DEF Hands
<1>12. ASSUME NEW z \in Requests PROVE RequestPlace(z)'
  BY <1>1, <1>3, <1>4, <1>6, <1>7, <1>8 DEF Places, RequestPlace, GotBy
<1>13. ASSUME NEW d \in Rpcs PROVE RpcPlace(d)'
  <2>1. rpcAt'[d] = "done" <=> rpcAt[d] = "done"
    BY <1>4, <1>5
  <2>2. QED
    BY <1>1, <1>8, <2>1 DEF Places, RpcPlace
<1>14. \A p \in Cqs : requests'[p] # <<>> => requests[p] # <<>>
  BY <1>2, <1>5
<1>15. Scanned'
  <2>1. \A p \in Cqs : Attended(p) => Attended(p)'
    BY <1>1, <1>14 DEF Attended
  <2>2. QED
    BY <1>1, <1>5, <2>1, ScannedKept
<1>16. NoLostMatch'
  BY <1>1, <1>14 DEF NoLostMatch
<1>17. Phases' /\ LastOnePublishes'
  BY DEF Phases, LastOnePublishes, shutdown
<1>18. EarlyLeaves'
  <2>1. \A d \in Rpcs : rpcAt[d] = "done" => rpcAt'[d] = "done"
    BY <1>4, <1>5
  <2>2. muCall' = "kill" => muCall = "kill"
    OBVIOUS
  <2>3. QED
    BY <1>7, <1>8, <2>1, <2>2 DEF EarlyLeaves, shutdown
<1>19. QED
  BY <1>9, <1>10, <1>11, <1>12, <1>13, <1>15, <1>16, <1>17, <1>18 DEF Places

\* The loop variable moves on to the next queue.
LEMMA IndexMoves ==
    ASSUME TypeOK, NEW c \in Rpcs, idx' = [idx EXCEPT ![c] = (@ + 1) % NumCqs]
    PROVE  /\ idx' \in [Rpcs -> Cqs]
           /\ idx'[c] \in {0, idx[c] + 1}
           /\ idx'[c] = 0 => idx[c] = NumCqs - 1
           /\ \A d \in Rpcs \ {c} : idx'[d] = idx[d]
<1>1. idx \in [Rpcs -> Cqs] /\ idx[c] \in Cqs
  BY DEF TypeOK
<1>2. idx[c] < NumCqs - 1 \/ idx[c] = NumCqs - 1
  BY <1>1 DEF Cqs
<1>3. (idx[c] + 1) % NumCqs \in Cqs
  BY <1>1, NextIndex
<1>4. idx'[c] = (idx[c] + 1) % NumCqs
  BY <1>1
<1>5. idx'[c] \in {0, idx[c] + 1} /\ (idx'[c] = 0 => idx[c] = NumCqs - 1)
  <2>1. idx[c] < NumCqs - 1 => (idx[c] + 1) % NumCqs = idx[c] + 1
    BY <1>1, NextIndex
  <2>2. idx[c] = NumCqs - 1 => (idx[c] + 1) % NumCqs = 0
    BY <1>1, NextIndex
  <2>3. idx[c] + 1 # 0
    BY <1>1 DEF Cqs
  <2>4. QED
    BY <1>2, <1>4, <2>1, <2>2, <2>3
<1>6. QED
  BY <1>1, <1>3, <1>5

LEMMA TryPopInv ==
    ASSUME Inv, NEW c \in Rpcs, TryPop(c)
    PROVE  Inv'
<1> USE DEF Inv
<1>1. /\ rpcAt[c] = "try"
      /\ UNCHANGED <<pending, outcome, reqThreads, muCall, shutdown>>
  BY DEF TryPop
<1>2. CASE requests[CqIdx(c)] # <<>> /\ Take(c)
  BY <1>1, <1>2, TakeInv
<1>3. CASE /\ idx' = [idx EXCEPT ![c] = (@ + 1) % NumCqs]
           /\ rpcAt' = [rpcAt EXCEPT ![c] = IF idx'[c] = 0 THEN "slow" ELSE "try"]
           /\ UNCHANGED <<requests, rc>>
  <2>1. /\ idx' \in [Rpcs -> Cqs]
        /\ \A d \in Rpcs \ {c} : idx'[d] = idx[d]
    BY <1>3, IndexMoves
  <2> DEFINE to == IF idx'[c] = 0 THEN "slow" ELSE "try"
  <2>2. to \in RpcWhere /\ to \in {"slow", "try"} /\ (to = "slow" => idx'[c] = 0)
    BY DEF RpcWhere
  <2> HIDE DEF to
  <2>3. rpcAt' = [rpcAt EXCEPT ![c] = to] /\ to \notin {"got", "done"}
    BY <1>3, <2>2 DEF to
  <2>4. /\ rpcAt' \in [Rpcs -> RpcWhere] /\ rpcAt'[c] = to
        /\ \A d \in Rpcs \ {c} : rpcAt'[d] = rpcAt[d]
        /\ Lists' /\ Hands' /\ Places' /\ NoLostMatch'
    BY <1>1, <1>3, <2>2, <2>3, RpcMoves DEF lists
  <2>5. TypeOK'
    <3>1. {d \in Rpcs : rpcAt'[d] \in {"pop", "queue"}} = {muCall} \cap Rpcs
      BY <1>1, <2>2, <2>4 DEF TypeOK
    <3>2. QED
      BY <1>1, <1>3, <2>1, <2>4, <3>1 DEF TypeOK, RpcWhere, shutdown, outcome, reqThreads
  <2>6. Scanned'
    <3>1. \A d \in Rpcs : rpcAt'[d] \in {"pop", "queue"} =>
              d # c /\ rpcAt'[d] = rpcAt[d] /\ idx'[d] = idx[d]
      BY <2>1, <2>2, <2>4
    <3>2. \A d \in Rpcs : rpcAt'[d] = "slow" => idx'[d] = 0
      BY <2>1, <2>2, <2>4 DEF Scanned
    <3>3. requests' = requests /\ reqAt' = reqAt
      BY <1>1, <1>3 DEF reqThreads
    <3>4. \A d \in Rpcs : rpcAt'[d] = "pop" =>
              \A k \in 0 .. idx'[d] - 1 : Attended((Start[d] + k) % NumCqs)'
      BY <3>1, <3>3 DEF Scanned, Attended
    <3>5. \A d \in Rpcs : rpcAt'[d] = "queue" => \A q \in Cqs : Attended(q)'
      BY <3>1, <3>3 DEF Scanned, Attended
    <3>6. QED
      BY <3>2, <3>4, <3>5 DEF Scanned
  <2>7. Phases' /\ EarlyLeaves' /\ LastOnePublishes'
    BY <1>1, <1>3, <2>4, RpcMovesShutdown DEF lists
  <2>8. QED
    BY <2>4, <2>5, <2>6, <2>7
<1>4. QED
  BY <1>2, <1>3 DEF TryPop

LEMMA SlowPopInv ==
    ASSUME Inv, NEW c \in Rpcs, SlowPop(c)
    PROVE  Inv'
<1> USE DEF Inv
<1>1. rpcAt[c] = "pop" /\ UNCHANGED <<pending, outcome, reqThreads, shutdown>>
  BY DEF SlowPop
<1>2. CASE requests[CqIdx(c)] # <<>>
  <2>1. Take(c) /\ muCall' = None
    BY <1>2 DEF SlowPop
  <2>2. QED
    BY <1>1, <1>2, <2>1, TakeInv
<1>3. CASE requests[CqIdx(c)] = <<>>
  <2>1. /\ idx' = [idx EXCEPT ![c] = (@ + 1) % NumCqs]
        /\ rpcAt' = [rpcAt EXCEPT ![c] = IF idx'[c] = 0 THEN "queue" ELSE "pop"]
        /\ UNCHANGED <<requests, rc, muCall>>
    BY <1>3 DEF SlowPop
  <2>2. /\ idx' \in [Rpcs -> Cqs]
        /\ idx'[c] \in {0, idx[c] + 1}
        /\ idx'[c] = 0 => idx[c] = NumCqs - 1
        /\ \A d \in Rpcs \ {c} : idx'[d] = idx[d]
    BY <2>1, IndexMoves
  <2> DEFINE to == IF idx'[c] = 0 THEN "queue" ELSE "pop"
  <2>3. /\ to \in RpcWhere /\ to \in {"queue", "pop"}
        /\ to = "queue" => idx'[c] = 0
        /\ to = "pop" => idx'[c] # 0
    BY DEF RpcWhere
  <2> HIDE DEF to
  <2>4. rpcAt' = [rpcAt EXCEPT ![c] = to] /\ to \notin {"got", "done"}
    BY <2>1, <2>3 DEF to
  <2>5. /\ rpcAt' \in [Rpcs -> RpcWhere] /\ rpcAt'[c] = to
        /\ \A d \in Rpcs \ {c} : rpcAt'[d] = rpcAt[d]
        /\ Lists' /\ Hands' /\ Places' /\ NoLostMatch'
    BY <1>1, <2>1, <2>3, <2>4, RpcMoves DEF lists
  <2>6. TypeOK'
    <3>1. {d \in Rpcs : rpcAt'[d] \in {"pop", "queue"}} = {muCall} \cap Rpcs
      BY <1>1, <2>3, <2>5 DEF TypeOK
    <3>2. QED
      BY <1>1, <2>1, <2>2, <2>5, <3>1 DEF TypeOK, RpcWhere, shutdown, outcome, reqThreads
  <2>7. \A q \in Cqs : Attended(q) <=> Attended(q)'
    BY <1>1, <2>1 DEF Attended, reqThreads
  <2>8. idx[c] \in Cqs /\ Start[c] \in Cqs
    BY DEF TypeOK
  <2>9. ASSUME NEW k \in 0 .. idx[c] PROVE Attended((Start[c] + k) % NumCqs)'
    <3>1. k \in Cqs
      BY <2>8 DEF Cqs
    <3>2. (Start[c] + k) % NumCqs \in Cqs
      BY <2>8, <3>1, QueueAt
    <3>3. CASE k = idx[c]
      BY <1>3, <2>7, <3>2, <3>3 DEF CqIdx, Attended
    <3>4. CASE k # idx[c]
      <4>1. k \in 0 .. idx[c] - 1
        BY <2>8, <3>4 DEF Cqs
      <4>2. Attended((Start[c] + k) % NumCqs)
        BY <1>1, <4>1 DEF Scanned
      <4>3. QED
        BY <2>7, <3>2, <4>2
    <3>5. QED
      BY <3>3, <3>4
  <2>10. Scanned'
    <3>1. \A d \in Rpcs \ {c} : rpcAt'[d] \notin {"pop", "queue"}
      BY <1>1, <2>5, Holder
    <3>2. \A d \in Rpcs : rpcAt'[d] = "slow" => idx'[d] = 0
      BY <2>2, <2>3, <2>5 DEF Scanned
    <3>3. ASSUME rpcAt'[c] = "pop", NEW k \in 0 .. idx'[c] - 1
          PROVE  Attended((Start[c] + k) % NumCqs)'
      <4>1. idx'[c] = idx[c] + 1
        BY <2>2, <2>3, <2>5, <3>3
      <4>2. k \in 0 .. idx[c]
        BY <2>8, <4>1 DEF Cqs
      <4>3. QED
        BY <2>9, <4>2
    <3>4. ASSUME rpcAt'[c] = "queue", NEW q \in Cqs
          PROVE  Attended(q)'
      <4>1. idx[c] = NumCqs - 1
        BY <2>2, <2>3, <2>5, <3>4
      <4>2. PICK k \in Cqs : (Start[c] + k) % NumCqs = q
        BY <2>8, QueueAt
      <4>3. k \in 0 .. idx[c]
        BY <4>1 DEF Cqs
      <4>4. QED
        BY <2>9, <4>2, <4>3
    <3>5. QED
      BY <3>1, <3>2, <3>3, <3>4 DEF Scanned
  <2>11. Phases' /\ EarlyLeaves' /\ LastOnePublishes'
    BY <1>1, <2>1, <2>5, RpcMovesShutdown DEF lists
  <2>12. QED
    BY <2>5, <2>6, <2>10, <2>11
<1>4. QED
  BY <1>2, <1>3

LEMMA QueuePendingInv ==
    ASSUME Inv, NEW c \in Rpcs, QueuePending(c)
    PROVE  Inv'
<1> USE DEF Inv
<1>1. /\ UNCHANGED <<requests, kills, answer, answers, reqAt, match, idx, rc, shutdown>>
      /\ rpcAt[c] = "queue" /\ muCall' = None
      /\ state' = [state EXCEPT ![c] = "PENDING"]
      /\ pending' = Append(pending, c)
      /\ rpcAt' = [rpcAt EXCEPT ![c] = "done"]
  BY DEF QueuePending, reqThreads
<1>2. /\ state'[c] = "PENDING" /\ rpcAt'[c] = "done"
      /\ \A d \in Rpcs \ {c} : state'[d] = state[d] /\ rpcAt'[d] = rpcAt[d]
  BY <1>1 DEF TypeOK
<1>3. ~Pends(c) /\ kills[c] = 0 /\ RpcPlace(c) /\ c \notin early
  BY <1>1 DEF Places, RpcPlace, EarlyLeaves
<1>4. /\ pending' \in Seq(Rpcs) /\ Distinct(pending')
      /\ \A d \in Rpcs : Pends(d)' <=> Pends(d) \/ d = c
  <2>1. pending \in Seq(Rpcs) /\ Distinct(pending)
    BY DEF TypeOK, Lists
  <2>2. QED
    BY <1>1, <1>3, <2>1, AppendHas DEF Pends
<1>5. /\ \A x, z \in Requests : HeldBy(x, z)' <=> HeldBy(x, z)
      /\ \A x \in Requests, d \in Rpcs : TakenBy(x, d)' <=> TakenBy(x, d)
      /\ \A x \in Requests, d \in Rpcs : GotBy(d, x)' <=> GotBy(d, x)
      /\ \A x \in Requests : (Made(x)' <=> Made(x)) /\ (Waits(x)' <=> Waits(x))
  BY <1>1, <1>2 DEF HeldBy, TakenBy, GotBy, Made, Waits
<1>6. TypeOK'
  <2>1. /\ state' \in [Rpcs -> {"NOT_STARTED", "PENDING", "ACTIVATED", "ZOMBIED"}]
        /\ rpcAt' \in [Rpcs -> RpcWhere]
    BY <1>1 DEF TypeOK, RpcWhere
  <2>2. {d \in Rpcs : rpcAt'[d] \in {"pop", "queue"}} = {muCall'} \cap Rpcs
    BY <1>1, <1>2, Holder
  <2>3. QED
    BY <1>1, <1>4, <2>1, <2>2 DEF TypeOK, RpcWhere, shutdown
<1>7. Lists' /\ Hands'
  BY <1>1, <1>2, <1>4 DEF Lists, Hands
<1>8. ASSUME NEW z \in Requests PROVE RequestPlace(z)'
  BY <1>1, <1>5 DEF Places, RequestPlace
<1>9. ASSUME NEW d \in Rpcs PROVE RpcPlace(d)'
  <2>1. CASE d = c
    BY <1>1, <1>2, <1>3, <1>4, <1>5, <2>1 DEF RpcPlace
  <2>2. CASE d # c
    BY <1>1, <1>2, <1>4, <1>5, <2>2 DEF Places, RpcPlace
  <2>3. QED
    BY <2>1, <2>2
<1>10. \A q \in Cqs : Attended(q) => Attended(q)'
  BY <1>1 DEF Attended
<1>11. Scanned'
  BY <1>1, <1>2, <1>10, ScannedKept
<1>12. NoLostMatch'
  <2>1. \A q \in Cqs : Attended(q)
    BY <1>1 DEF Scanned
  <2>2. QED
    BY <1>1, <2>1 DEF NoLostMatch, Attended
<1>13. Phases' /\ LastOnePublishes'
  BY <1>1 DEF Phases, LastOnePublishes, shutdown
<1>14. EarlyLeaves'
  <2>1. muCall' # "kill"
    BY <1>1
  <2>2. QED
    BY <1>1, <1>2, <1>3, <1>4, <1>5, <2>1 DEF EarlyLeaves, shutdown
<1>15. QED
  BY <1>6, <1>7, <1>8, <1>9, <1>11, <1>12, <1>13, <1>14 DEF Places

LEMMA PublishRpcInv ==
    ASSUME Inv, NEW c \in Rpcs, PublishRpc(c)
    PROVE  Inv'
<1> USE DEF Inv
<1> DEFINE h == rc[c]
<1>1. /\ UNCHANGED <<requests, pending, kills, reqAt, match, idx, muCall, shutdown>>
      /\ rpcAt[c] = "got"
      /\ state' = [state EXCEPT ![c] = "ACTIVATED"]
      /\ answer' = [answer EXCEPT ![h] = c]
      /\ answers' = [answers EXCEPT ![h] = @ + 1]
      /\ rpcAt' = [rpcAt EXCEPT ![c] = "done"]
      /\ rc' = [rc EXCEPT ![c] = None]
  BY DEF PublishRpc, Publish, lists, reqThreads
<1>2. h \in Requests /\ GotBy(c, h) /\ RpcPlace(c) /\ c # None
  BY <1>1 DEF Hands, TypeOK, GotBy, Places
<1>3. answers[h] = 0 /\ answer[h] = None
  BY <1>2 DEF Places, RequestPlace
<1> HIDE DEF h
<1>4. /\ state'[c] = "ACTIVATED" /\ rpcAt'[c] = "done" /\ rc'[c] = None
      /\ \A d \in Rpcs \ {c} : /\ state'[d] = state[d] /\ rpcAt'[d] = rpcAt[d]
                               /\ rc'[d] = rc[d]
      /\ answer'[h] = c /\ answers'[h] = 1
      /\ \A x \in Requests \ {h} : answer'[x] = answer[x] /\ answers'[x] = answers[x]
  BY <1>1, <1>2, <1>3 DEF TypeOK
<1>5. TypeOK'
  <2>1. /\ state' \in [Rpcs -> {"NOT_STARTED", "PENDING", "ACTIVATED", "ZOMBIED"}]
        /\ answer' \in [Requests -> {None, "failed"} \cup Rpcs]
        /\ answers' \in [Requests -> 0 .. 2]
        /\ rc' \in [Rpcs -> {None} \cup Requests]
        /\ rpcAt' \in [Rpcs -> RpcWhere]
    BY <1>1, <1>2, <1>3 DEF TypeOK, RpcWhere
  <2>2. {d \in Rpcs : rpcAt'[d] \in {"pop", "queue"}} = {muCall} \cap Rpcs
    BY <1>1, <1>4 DEF TypeOK
  <2>3. QED
    BY <1>1, <2>1, <2>2 DEF TypeOK, RpcWhere, shutdown
<1>6. /\ \A x, z \in Requests : HeldBy(x, z)' <=> HeldBy(x, z)
      /\ \A x \in Requests, d \in Rpcs : TakenBy(x, d)' <=> TakenBy(x, d)
      /\ \A x \in Requests, d \in Rpcs : GotBy(d, x)' <=> GotBy(d, x) /\ d # c
      /\ \A x \in Requests : (Made(x)' <=> Made(x)) /\ (Waits(x)' <=> Waits(x))
      /\ \A d \in Rpcs : Pends(d)' <=> Pends(d)
      /\ \A x \in Requests : GotBy(c, x) => x = h
  BY <1>1, <1>4 DEF HeldBy, TakenBy, GotBy, Made, Waits, Pends, h
<1>7. Lists' /\ Hands'
  BY <1>1, <1>4 DEF Lists, Hands
<1>8. ASSUME NEW z \in Requests PROVE RequestPlace(z)'
  <2>1. CASE z = h
    BY <1>2, <1>4, <1>6, <2>1 DEF Places, RequestPlace
  <2>2. CASE z # h
    BY <1>4, <1>6, <2>2 DEF Places, RequestPlace
  <2>3. QED
    BY <2>1, <2>2
<1>9. ASSUME NEW d \in Rpcs PROVE RpcPlace(d)'
  <2>1. \A x \in Requests : answer'[x] = d <=> answer[x] = d \/ (x = h /\ d = c)
    BY <1>2, <1>3, <1>4
  <2>2. CASE d = c
    BY <1>1, <1>2, <1>4, <1>6, <2>1, <2>2 DEF RpcPlace
  <2>3. CASE d # c
    BY <1>1, <1>4, <1>6, <2>1, <2>3 DEF Places, RpcPlace
  <2>4. QED
    BY <2>2, <2>3
<1>10. Scanned'
  <2>1. \A q \in Cqs : Attended(q) => Attended(q)'
    BY <1>1 DEF Attended
  <2>2. QED
    BY <1>1, <1>4, <2>1, ScannedKept
<1>11. NoLostMatch'
  BY <1>1 DEF NoLostMatch
<1>12. Phases' /\ EarlyLeaves' /\ LastOnePublishes'
  BY <1>1, <1>4, RpcMovesShutdown DEF lists, reqThreads
<1>13. QED
  BY <1>5, <1>7, <1>8, <1>9, <1>10, <1>11, <1>12 DEF Places

-----------------------------------------------------------------------------
(* The steps of the shutdown that clear the lists                          *)

\* KillRequests fails the request at the head of a queue,
LEMMA KillOneInv ==
    ASSUME Inv, KillRequests, requests[kq] # <<>>
    PROVE  Inv'
<1> USE DEF Inv
<1> DEFINE s == requests[kq]  h == Head(s)  ts == Tail(s)
<1>1. /\ UNCHANGED <<pending, state, kills, reqAt, match, rpcAt, idx, rc, muCall, kq>>
      /\ UNCHANGED <<global, called, published, listener, channel, early, destroyed>>
      /\ muCall = "kill" /\ kq < NumCqs /\ FailCalls({h})
      /\ requests' = [requests EXCEPT ![kq] = ts]
  BY DEF KillRequests, reqThreads, rpcThreads
<1>2. kq \in Cqs /\ s \in Seq(Requests) /\ Distinct(s) /\ s # <<>>
  BY <1>1 DEF TypeOK, Cqs, Lists
<1>3. /\ h \in Requests /\ ts \in Seq(Requests) /\ Has(s, h) /\ Distinct(ts)
      /\ \A x : Has(ts, x) <=> Has(s, x) /\ x # h
  BY <1>2, TailHas
<1> HIDE DEF h, ts
<1>4. /\ requests'[kq] = ts
      /\ \A q \in Cqs \ {kq} : requests'[q] = requests[q]
  BY <1>1, <1>2 DEF TypeOK
<1>5. /\ answer'[h] = "failed" /\ answers'[h] = answers[h] + 1
      /\ \A x \in Requests : x # h => answer'[x] = answer[x] /\ answers'[x] = answers[x]
  BY <1>1, <1>3 DEF FailCalls
<1>6. Waits(h) /\ Queue[h] = kq /\ answers[h] = 0 /\ answer[h] = None
  <2>1. Waits(h) /\ Queue[h] = kq
    BY <1>2, <1>3 DEF Lists, Waits
  <2>2. QED
    BY <1>3, <2>1 DEF Places, RequestPlace
<1>7. TypeOK'
  <2>1. /\ answer' \in [Requests -> {None, "failed"} \cup Rpcs]
        /\ answers' \in [Requests -> 0 .. 2]
    BY <1>1, <1>6 DEF FailCalls, TypeOK
  <2>2. requests' \in [Cqs -> Seq(Requests)]
    BY <1>1, <1>3 DEF TypeOK
  <2>3. QED
    BY <1>1, <2>1, <2>2 DEF TypeOK
<1>8. /\ \A x, z \in Requests : HeldBy(x, z)' <=> HeldBy(x, z)
      /\ \A x \in Requests, d \in Rpcs : TakenBy(x, d)' <=> TakenBy(x, d)
      /\ \A x \in Requests, d \in Rpcs : GotBy(d, x)' <=> GotBy(d, x)
      /\ \A x \in Requests : Made(x)' <=> Made(x)
      /\ \A d \in Rpcs : Pends(d)' <=> Pends(d)
  BY <1>1 DEF HeldBy, TakenBy, GotBy, Made, Pends
<1>9. \A x \in Requests : Waits(x)' <=> Waits(x) /\ x # h
  <2>1. ASSUME NEW x \in Requests, Queue[x] = kq PROVE Waits(x)' <=> Waits(x) /\ x # h
    BY <1>3, <1>4, <2>1 DEF Waits
  <2>2. ASSUME NEW x \in Requests, Queue[x] # kq PROVE Waits(x)' <=> Waits(x) /\ x # h
    BY <1>4, <1>6, <2>2 DEF Waits
  <2>3. QED
    BY <2>1, <2>2
<1>10. Lists' /\ Hands'
  <2>1. \A x : Has(ts, x) => Has(s, x)
    BY <1>3
  <2>2. QED
    BY <1>1, <1>3, <1>4, <2>1 DEF Lists, Hands
<1>11. ASSUME NEW z \in Requests PROVE RequestPlace(z)'
  <2>1. CASE z = h
    BY <1>5, <1>6, <1>8, <1>9, <2>1 DEF Places, RequestPlace
  <2>2. CASE z # h
    BY <1>5, <1>8, <1>9, <2>2 DEF Places, RequestPlace
  <2>3. QED
    BY <2>1, <2>2
<1>12. ASSUME NEW d \in Rpcs PROVE RpcPlace(d)'
  <2>1. \A x \in Requests : answer'[x] = d <=> answer[x] = d
    BY <1>5, <1>6
  <2>2. QED
    BY <1>1, <1>8, <2>1 DEF Places, RpcPlace
<1>13. \A q \in Cqs : requests'[q] # <<>> => requests[q] # <<>>
  BY <1>2, <1>4
<1>14. Scanned'
  <2>1. \A q \in Cqs : Attended(q) => Attended(q)'
    BY <1>1, <1>13 DEF Attended
  <2>2. QED
    BY <1>1, <2>1, ScannedKept
<1>15. NoLostMatch'
  BY <1>1, <1>13 DEF NoLostMatch
<1>16. Phases' /\ LastOnePublishes'
  BY <1>1 DEF Phases, LastOnePublishes
<1>17. EarlyLeaves'
  BY <1>1, <1>8, <1>9 DEF EarlyLeaves
<1>18. QED
  BY <1>7, <1>10, <1>11, <1>12, <1>14, <1>15, <1>16, <1>17 DEF Places

\* or leaves an empty queue behind, for good as far as early requests go.
LEMMA KillRequestsInv == Inv /\ KillRequests => Inv'
<1> SUFFICES ASSUME Inv, KillRequests, requests[kq] = <<>> PROVE Inv'
  BY KillOneInv
<1> USE DEF Inv
<1>1. /\ UNCHANGED <<lists, outcome, reqThreads, rpcThreads, muCall, global, called,
                     published, listener, channel, early, destroyed>>
      /\ muCall = "kill" /\ kq < NumCqs /\ kq' = kq + 1
  BY DEF KillRequests, lists, outcome
<1>2. Lists' /\ Hands' /\ Places' /\ Scanned' /\ NoLostMatch'
  BY <1>1, SamePlaces
<1>3. kq \in Cqs
  BY <1>1 DEF TypeOK, Cqs
<1>4. TypeOK'
  <2>1. kq' \in 0 .. NumCqs
    BY <1>1, <1>3 DEF Cqs
  <2>2. QED
    BY <1>1, <2>1 DEF TypeOK, lists, outcome, reqThreads, rpcThreads
<1>5. Phases' /\ LastOnePublishes'
  BY <1>1 DEF Phases, LastOnePublishes, lists, outcome, reqThreads, rpcThreads
<1>6. EarlyLeaves'
  <2>1. \A r \in Requests : Queue[r] < kq + 1 => Queue[r] < kq \/ Queue[r] = kq
    BY <1>3 DEF Cqs
  <2>2. \A r \in Requests : Queue[r] = kq => ~Waits(r)
    BY EmptyHas DEF Waits
  <2>3. QED
    BY <1>1, <2>1, <2>2 DEF EarlyLeaves, Made, Waits, Pends, lists, outcome, reqThreads, rpcThreads
<1>7. QED
  BY <1>2, <1>4, <1>5, <1>6

LEMMA ZombifyPendingInv == Inv /\ ZombifyPending => Inv'
<1> SUFFICES ASSUME Inv, ZombifyPending PROVE Inv'
  OBVIOUS
<1> USE DEF Inv
<1> DEFINE Z == Range(pending)
<1>1. /\ UNCHANGED <<requests, answer, answers, reqAt, match, rpcAt, idx, rc>>
      /\ UNCHANGED <<kq, called, published, listener, channel, early, destroyed>>
      /\ muCall = "kill" /\ muCall' = None /\ kq = NumCqs /\ Zombify(Z)
      /\ pending' = <<>>
      /\ global' = IF global = "shutdown" THEN "unref" ELSE "publish"
  BY DEF ZombifyPending, reqThreads, rpcThreads
<1>2. /\ global \in {"shutdown", "finish"}
      /\ global = "shutdown" => global' = "unref"
      /\ global = "finish" => global' = "publish"
  BY <1>1 DEF TypeOK
<1>3. \A d \in Rpcs : d \in Z <=> Pends(d)
  BY RangeHas DEF TypeOK, Pends
<1> HIDE DEF Z
<1>4. /\ \A d \in Rpcs : d \in Z => state'[d] = "ZOMBIED" /\ kills'[d] = kills[d] + 1
      /\ \A d \in Rpcs : d \notin Z => state'[d] = state[d] /\ kills'[d] = kills[d]
  BY <1>1 DEF Zombify
<1>5. \A d \in Z \cap Rpcs : kills[d] = 0
  BY <1>3 DEF Places, RpcPlace
<1>6. \A d \in Rpcs : rpcAt[d] \notin {"pop", "queue"}
  BY <1>1, Holder
<1>7. TypeOK'
  <2>1. /\ state' \in [Rpcs -> {"NOT_STARTED", "PENDING", "ACTIVATED", "ZOMBIED"}]
        /\ kills' \in [Rpcs -> 0 .. 2]
    BY <1>1, <1>5 DEF Zombify, TypeOK
  <2>2. {d \in Rpcs : rpcAt'[d] \in {"pop", "queue"}} = {muCall'} \cap Rpcs
    BY <1>1, <1>6
  <2>3. pending' \in Seq(Rpcs) /\ global' \in {"unref", "publish"} /\ muCall' # "kill"
    BY <1>1, <1>2
  <2>4. QED
    BY <1>1, <2>1, <2>2, <2>3 DEF TypeOK
<1>8. /\ \A x, z \in Requests : HeldBy(x, z)' <=> HeldBy(x, z)
      /\ \A x \in Requests, d \in Rpcs : TakenBy(x, d)' <=> TakenBy(x, d)
      /\ \A x \in Requests, d \in Rpcs : GotBy(d, x)' <=> GotBy(d, x)
      /\ \A x \in Requests : (Made(x)' <=> Made(x)) /\ (Waits(x)' <=> Waits(x))
      /\ \A d \in Rpcs : ~Pends(d)'
  BY <1>1, EmptyHas DEF HeldBy, TakenBy, GotBy, Made, Waits, Pends
<1>9. Lists' /\ Hands'
  BY <1>1, EmptyHas DEF Lists, Hands
<1>10. ASSUME NEW z \in Requests PROVE RequestPlace(z)'
  BY <1>1, <1>8 DEF Places, RequestPlace
<1>11. ASSUME NEW d \in Rpcs PROVE RpcPlace(d)'
  <2>1. CASE d \in Z
    BY <1>1, <1>3, <1>4, <1>5, <1>8, <2>1 DEF Places, RpcPlace
  <2>2. CASE d \notin Z
    BY <1>1, <1>3, <1>4, <1>8, <2>2 DEF Places, RpcPlace
  <2>3. QED
    BY <2>1, <2>2
<1>12. Scanned' /\ NoLostMatch'
  BY <1>1, <1>6 DEF Scanned, NoLostMatch
<1>13. Phases' /\ LastOnePublishes'
  BY <1>1, <1>2 DEF Phases, LastOnePublishes
<1>14. EarlyLeaves'
  <2>1. \A r \in Requests : Queue[r] < kq
    BY <1>1 DEF Cqs
  <2>2. muCall' # "kill"
    BY <1>1
  <2>3. QED
    BY <1>1, <1>2, <1>8, <2>1, <2>2 DEF EarlyLeaves, Phases
<1>15. QED
  BY <1>7, <1>9, <1>10, <1>11, <1>12, <1>13, <1>14 DEF Places

-----------------------------------------------------------------------------
(* Any step                                                                *)

LEMMA NextInv == Inv /\ [Next]_vars => Inv'
<1> SUFFICES ASSUME Inv, [Next]_vars PROVE Inv'
  OBVIOUS
<1>1. ASSUME NEW r \in Requests, QueueRequestedCall(r) \/ RequestStep(r) PROVE Inv'
  BY <1>1, QueueRequestedCallInv, PushRequestInv, PopNextPendingInv, ActivatePendingInv
     DEF RequestStep
<1>2. ASSUME NEW c \in Rpcs, StartNewRpc(c) \/ RpcStep(c) PROVE Inv'
  BY <1>2, RpcStartsInv, TryPopInv, LockCallInv, SlowPopInv, QueuePendingInv, PublishRpcInv
     DEF RpcStep
<1>3. CASE ShutdownAndNotify \/ GlobalStep
  BY <1>3, ShutdownAndNotifyInv, KillLockInv, KillRequestsInv, ZombifyPendingInv,
     ShutdownUnrefInv, PublishShutdownInv DEF GlobalStep
<1>4. CASE ListenerDestroyDone \/ ChannelDestroy \/ ServerDestroy
  BY <1>4, HolderGoneInv, ServerDestroyInv
<1>5. CASE UNCHANGED vars
  <2>1. UNCHANGED <<lists, outcome, reqThreads, rpcThreads, muCall, shutdown>>
    BY <1>5 DEF vars
  <2>2. Lists' /\ Hands' /\ Places' /\ Scanned' /\ NoLostMatch'
    BY <2>1, SamePlaces
  <2>3. TypeOK' /\ Phases' /\ EarlyLeaves' /\ LastOnePublishes'
    BY <2>1 DEF Inv, TypeOK, Phases, EarlyLeaves, LastOnePublishes, Made, Waits, Pends,
                lists, outcome, reqThreads, rpcThreads, shutdown
  <2>4. QED
    BY <2>2, <2>3 DEF Inv
<1>6. QED
  BY <1>1, <1>2, <1>3, <1>4, <1>5 DEF Next

-----------------------------------------------------------------------------
(* What the invariant says                                                 *)

\* A list of requests without repetition is no longer than there are requests.
LEMMA DistinctLen ==
    ASSUME NEW s \in Seq(Requests), Distinct(s)
    PROVE  Len(s) <= Cardinality(Requests)
<1>1. Len(s) \in Nat /\ s \in [1 .. Len(s) -> Requests]
  OBVIOUS
<1>2. s \in Injection(1 .. Len(s), Requests)
  BY <1>1 DEF Injection, IsInjective, Distinct
<1>3. IsFiniteSet(1 .. Len(s)) /\ Cardinality(1 .. Len(s)) = Len(s)
  BY <1>1, FS_Interval
<1>4. Cardinality(1 .. Len(s)) <= Cardinality(Requests)
  BY <1>2, <1>3, FS_Injection DEF ExistsInjection
<1>5. QED
  BY <1>3, <1>4

LEMMA InvRequestInOnePlace == Inv => RequestInOnePlace
<1> SUFFICES ASSUME Inv, NEW r \in Requests
             PROVE  LET inQueues == Cardinality({p \in Cqs \X (1 .. Cardinality(Requests)) :
                                        p[2] <= Len(requests[p[1]]) /\ requests[p[1]][p[2]] = r})
                        taken == IF r \in TakenRequests THEN 1 ELSE 0
                    IN  inQueues + taken + answers[r]
                            = IF reqAt[r] \in {"new", "push"} THEN 0 ELSE 1
  BY DEF RequestInOnePlace
<1> USE DEF Inv
<1> DEFINE P == {p \in Cqs \X (1 .. Cardinality(Requests)) :
                    p[2] <= Len(requests[p[1]]) /\ requests[p[1]][p[2]] = r}
<1>1. RequestPlace(r)
  BY DEF Places
<1>2. r \in TakenRequests <=> (\E x \in Requests : HeldBy(x, r)) \/ (\E c \in Rpcs : GotBy(c, r))
  BY DEF TakenRequests, HeldBy, GotBy, Hands
<1>3. \A q \in Cqs : requests[q] \in Seq(Requests) /\ Len(requests[q]) \in Nat
  BY DEF TypeOK
<1>4. ~Waits(r) => P = {}
  <2> SUFFICES ASSUME NEW p \in P PROVE Waits(r)
    OBVIOUS
  <2>1. p[1] \in Cqs /\ p[2] \in 1 .. Len(requests[p[1]]) /\ requests[p[1]][p[2]] = r
    BY <1>3
  <2>2. Has(requests[p[1]], r)
    BY <2>1 DEF Has
  <2>3. QED
    BY <2>1, <2>2 DEF Lists, Waits
<1>5. Waits(r) => \E p : P = {p}
  <2> SUFFICES ASSUME Waits(r) PROVE \E p : P = {p}
    OBVIOUS
  <2> DEFINE s == requests[Queue[r]]
  <2>1. Queue[r] \in Cqs /\ s \in Seq(Requests) /\ Distinct(s)
    BY <1>3 DEF Lists
  <2>2. PICK i \in 1 .. Len(s) : s[i] = r
    BY DEF Waits, Has
  <2>3. Len(s) <= Cardinality(Requests) /\ Cardinality(Requests) \in Nat
    BY <2>1, DistinctLen, FS_CardinalityType
  <2>4. <<Queue[r], i>> \in P
    BY <1>3, <2>1, <2>2, <2>3
  <2>5. ASSUME NEW p \in P PROVE p = <<Queue[r], i>>
    <3>1. /\ p \in Cqs \X (1 .. Cardinality(Requests))
          /\ p[1] \in Cqs /\ p[2] \in 1 .. Len(requests[p[1]]) /\ requests[p[1]][p[2]] = r
      BY <1>3, <2>3
    <3>2. p[1] = Queue[r]
      BY <3>1 DEF Lists, Has
    <3>3. p[2] = i
      BY <2>1, <2>2, <3>1, <3>2 DEF Distinct
    <3>4. QED
      BY <3>1, <3>2, <3>3
  <2>6. P = {<<Queue[r], i>>}
    BY <2>4, <2>5
  <2>7. QED
    BY <2>6
<1> HIDE DEF P
<1>6. (Waits(r) => Cardinality(P) = 1) /\ (~Waits(r) => Cardinality(P) = 0)
  BY <1>4, <1>5, FS_Singleton, FS_EmptySet
<1>7. Cardinality(P) + (IF r \in TakenRequests THEN 1 ELSE 0) + answers[r]
         = IF reqAt[r] \in {"new", "push"} THEN 0 ELSE 1
  <2>1. CASE ~Made(r)
    <3>1. ~Waits(r) /\ r \notin TakenRequests /\ answers[r] = 0
      BY <1>1, <1>2, <2>1 DEF RequestPlace
    <3>2. QED
      BY <1>6, <2>1, <3>1 DEF Made
  <2>2. CASE Made(r)
    <3>1. \/ Waits(r) /\ r \notin TakenRequests /\ answers[r] = 0
          \/ ~Waits(r) /\ r \in TakenRequests /\ answers[r] = 0
          \/ ~Waits(r) /\ r \notin TakenRequests /\ answers[r] = 1
      BY <1>1, <1>2, <2>2 DEF RequestPlace
    <3>2. QED
      BY <1>6, <2>2, <3>1 DEF Made
  <2>3. QED
    BY <2>1, <2>2
<1>8. QED
  BY <1>7 DEF P

\* A set that holds at most one thing has that many.
LEMMA OneOrNone ==
    ASSUME NEW S, \A x, y \in S : x = y
    PROVE  (S # {} => Cardinality(S) = 1) /\ (S = {} => Cardinality(S) = 0)
<1>1. ASSUME S # {} PROVE Cardinality(S) = 1
  <2>1. PICK x : x \in S
    BY <1>1
  <2>2. S = {x}
    BY <2>1
  <2>3. QED
    BY <2>2, FS_Singleton
<1>2. QED
  BY <1>1, FS_EmptySet

LEMMA InvRpcInOnePlace == Inv => RpcInOnePlace
<1> SUFFICES ASSUME Inv, NEW c \in Rpcs
             PROVE  LET queued == Cardinality({i \in DOMAIN pending : pending[i] = c})
                        taken == IF c \in TakenRpcs THEN 1 ELSE 0
                        given == Cardinality({r \in Requests : answer[r] = c})
                    IN  queued + taken + given + kills[c] = IF rpcAt[c] = "done" THEN 1 ELSE 0
  BY DEF RpcInOnePlace
<1> USE DEF Inv
<1> DEFINE D == {i \in DOMAIN pending : pending[i] = c}
           G == {r \in Requests : answer[r] = c}
<1>1. RpcPlace(c)
  BY DEF Places
<1>2. c \in TakenRpcs <=> \E x \in Requests : TakenBy(x, c)
  BY DEF TakenRpcs, TakenBy, Hands
<1>3. DOMAIN pending = 1 .. Len(pending)
  BY DEF TypeOK
<1>4. (Pends(c) <=> D # {}) /\ \A i, j \in D : i = j
  BY <1>3 DEF Pends, Has, Lists, Distinct
<1>5. ((\E r \in Requests : answer[r] = c) <=> G # {}) /\ \A x, y \in G : x = y
  BY <1>1 DEF RpcPlace
<1> HIDE DEF D, G
<1>6. /\ Pends(c) => Cardinality(D) = 1
      /\ ~Pends(c) => Cardinality(D) = 0
  BY <1>4, OneOrNone
<1>7. /\ (\E r \in Requests : answer[r] = c) => Cardinality(G) = 1
      /\ ~(\E r \in Requests : answer[r] = c) => Cardinality(G) = 0
  BY <1>5, OneOrNone
<1> DEFINE given == \E r \in Requests : answer[r] = c
<1>8. CASE rpcAt[c] = "done"
  <2>1. \/ Pends(c) /\ c \notin TakenRpcs /\ ~given /\ kills[c] = 0
        \/ ~Pends(c) /\ c \in TakenRpcs /\ ~given /\ kills[c] = 0
        \/ ~Pends(c) /\ c \notin TakenRpcs /\ given /\ kills[c] = 0
        \/ ~Pends(c) /\ c \notin TakenRpcs /\ ~given /\ kills[c] = 1
    BY <1>1, <1>2, <1>8 DEF RpcPlace
  <2>2. Cardinality(D) + (IF c \in TakenRpcs THEN 1 ELSE 0) + Cardinality(G) + kills[c] = 1
    BY <1>6, <1>7, <2>1
  <2>3. QED
    BY <1>8, <2>2 DEF D, G
<1>9. CASE rpcAt[c] # "done"
  <2>1. ~Pends(c) /\ c \notin TakenRpcs /\ ~given /\ kills[c] = 0
    BY <1>1, <1>2, <1>9 DEF RpcPlace
  <2>2. Cardinality(D) + (IF c \in TakenRpcs THEN 1 ELSE 0) + Cardinality(G) + kills[c] = 0
    BY <1>6, <1>7, <2>1
  <2>3. QED
    BY <1>9, <2>2 DEF D, G
<1>10. QED
  BY <1>8, <1>9

LEMMA InvShutdownClears == Inv => ShutdownClears
<1> SUFFICES ASSUME Inv, published, NEW x \in early, x \in Queued PROVE FALSE
  BY DEF ShutdownClears
<1> USE DEF Inv
<1>1. CASE x \in Range(pending)
  <2>1. Pends(x) /\ x \in Rpcs
    BY <1>1, RangeHas DEF TypeOK, Range, Pends
  <2>2. QED
    BY <2>1 DEF EarlyLeaves
<1>2. CASE \E q \in Cqs : x \in Range(requests[q])
  <2>1. PICK q \in Cqs : x \in Range(requests[q])
    BY <1>2
  <2>2. requests[q] \in Seq(Requests)
    BY DEF TypeOK
  <2>3. Has(requests[q], x) /\ x \in Requests
    BY <2>1, <2>2, RangeHas DEF Range
  <2>4. Waits(x)
    BY <2>3 DEF Lists, Waits
  <2>5. QED
    BY <2>3, <2>4 DEF EarlyLeaves
<1>3. x \in Range(pending) \/ x \in UNION {Range(requests[q]) : q \in Cqs}
  BY DEF Queued
<1>4. x \in UNION {Range(requests[q]) : q \in Cqs} => \E q \in Cqs : x \in Range(requests[q])
  OBVIOUS
<1>5. QED
  BY <1>1, <1>2, <1>3, <1>4

\* RequestMatcher by itself: the inductive invariant, and with it all that the
\* matcher promises.
THEOREM Invariance == Spec => []Inv
  BY InitInv, NextInv, PTL DEF Spec

-----------------------------------------------------------------------------
(* AllocatingMatcher                                                       *)

AmFlying == {"allocate", "fail", "unref"}
AmInFlight == AM!In(AmFlying)

\* The listeners are destroyed after the shutdown has waited; a published
\* shutdown finds no accepted RPC; an unpublished one that waits for nothing
\* else has an RPC that will look again.
AmClosing ==
    /\ amCloser # "done" => amListener
    /\ amPublished => amCloser # "idle"
    /\ AM!AcceptedIsStarted
    /\ amCloser = "done" /\ ~amListener /\ ~amChannel /\ ~amPublished =>
          \E c \in CallbackRpcs : amRpcAt[c] \in AmFlying \cup {"last"}

AmInv == AM!TypeOK /\ AmClosing

\* The instance counts as this module does, and a finite number of RPCs.
LEMMA AmCounts ==
    /\ \A S : AM!IsFiniteSet(S) <=> IsFiniteSet(S)
    /\ \A S : AM!Cardinality(S) = Cardinality(S)
    /\ \A S : IsFiniteSet(AM!In(S))
<1>1. \A S : AM!IsFiniteSet(S) <=> IsFiniteSet(S)
  BY DEF AM!IsFiniteSet, IsFiniteSet
<1>2. \A S : AM!Cardinality(S) = Cardinality(S)
  BY Zenon DEF AM!Cardinality, Cardinality
<1>3. IsFiniteSet(CallbackRpcs)
  BY <1>1, CallbackRpcsAssumption DEF AM!AllocatingMatcherConstants
<1>4. ASSUME NEW S PROVE IsFiniteSet(AM!In(S))
  <2>1. AM!In(S) \subseteq CallbackRpcs
    BY DEF AM!In
  <2>2. QED
    BY <1>3, <2>1, FS_Subset
<1>5. QED
  BY <1>1, <1>2, <1>4

AmWhere == {"new", "match", "allocate", "fail", "unref", "last", "done"}

LEMMA AmTypes ==
    ASSUME AmInv
    PROVE  /\ amRpcAt \in [CallbackRpcs -> AmWhere]
           /\ amState \in [CallbackRpcs -> {"NOT_STARTED", "ACTIVATED", "ZOMBIED"}]
           /\ amPublished \in BOOLEAN /\ amListener \in BOOLEAN /\ amChannel \in BOOLEAN
           /\ amCloser \in {"idle", "finish", "await", "done"}
           /\ amComplete \in {"null", "waiting", "notified", "aborted"}
           /\ Cardinality(AmInFlight) \in Nat
           /\ amCloser = "idle" => amRefs = 2 * Cardinality(AmInFlight) + 1
           /\ amCloser # "idle" => amRefs = 2 * Cardinality(AmInFlight)
           /\ AM!ShutdownCalled <=> amCloser # "idle"
<1>1. IsFiniteSet(AmInFlight)
  BY AmCounts DEF AmInFlight
<1>2. Cardinality(AmInFlight) \in Nat
  BY <1>1, FS_CardinalityType
<1> DEFINE n == Cardinality(AmInFlight)
<1>3. amRefs = 2 * n + (IF amCloser = "idle" THEN 1 ELSE 0)
  BY AmCounts DEF AmInv, AM!TypeOK, AmInFlight, AmFlying
<1> HIDE DEF n
<1>4. n \in Nat
  BY <1>2 DEF n
<1>5. /\ amCloser = "idle" => amRefs = 2 * n + 1
      /\ amCloser # "idle" => amRefs = 2 * n
  BY <1>3, <1>4
<1>6. amRefs % 2 = 0 <=> amCloser # "idle"
  BY <1>4, <1>5
<1>7. QED
  BY <1>2, <1>5, <1>6 DEF AmInv, AM!TypeOK, AM!ShutdownCalled, AmWhere, n

\* How a move of one RPC changes the number of those in flight.
LEMMA AmMoves ==
    ASSUME AmInv, NEW c \in CallbackRpcs, NEW to \in AmWhere,
           amRpcAt' = [amRpcAt EXCEPT ![c] = to]
    PROVE  /\ amRpcAt' \in [CallbackRpcs -> AmWhere] /\ amRpcAt'[c] = to
           /\ \A d \in CallbackRpcs \ {c} : amRpcAt'[d] = amRpcAt[d]
           /\ Cardinality(AmInFlight') =
                 Cardinality(AmInFlight) - (IF amRpcAt[c] \in AmFlying THEN 1 ELSE 0)
                                         + (IF to \in AmFlying THEN 1 ELSE 0)
<1>1. /\ amRpcAt' \in [CallbackRpcs -> AmWhere] /\ amRpcAt'[c] = to
      /\ \A d \in CallbackRpcs \ {c} : amRpcAt'[d] = amRpcAt[d]
  BY AmTypes
<1>2. IsFiniteSet(AmInFlight) /\ Cardinality(AmInFlight) \in Nat
  BY AmTypes, AmCounts DEF AmInFlight
<1>3. /\ AmInFlight = {d \in CallbackRpcs : amRpcAt[d] \in AmFlying}
      /\ AmInFlight' = {d \in CallbackRpcs : amRpcAt'[d] \in AmFlying}
  BY DEF AmInFlight, AM!In, AmFlying
<1>4. CASE amRpcAt[c] \in AmFlying /\ to \in AmFlying
  <2>1. AmInFlight' = AmInFlight
    BY <1>1, <1>3, <1>4
  <2>2. QED
    BY <1>1, <1>2, <1>4, <2>1
<1>5. CASE amRpcAt[c] \notin AmFlying /\ to \notin AmFlying
  <2>1. AmInFlight' = AmInFlight
    BY <1>1, <1>3, <1>5
  <2>2. QED
    BY <1>1, <1>2, <1>5, <2>1
<1>6. CASE amRpcAt[c] \notin AmFlying /\ to \in AmFlying
  <2>1. AmInFlight' = AmInFlight \cup {c} /\ c \notin AmInFlight
    BY <1>1, <1>3, <1>6
  <2>2. Cardinality(AmInFlight') = Cardinality(AmInFlight) + 1
    BY <1>2, <2>1, FS_AddElement
  <2>3. QED
    BY <1>1, <1>2, <1>6, <2>2
<1>7. CASE amRpcAt[c] \in AmFlying /\ to \notin AmFlying
  <2>1. AmInFlight' = AmInFlight \ {c} /\ c \in AmInFlight
    BY <1>1, <1>3, <1>7
  <2>2. Cardinality(AmInFlight') = Cardinality(AmInFlight) - 1
    BY <1>2, <2>1, FS_RemoveElement
  <2>3. QED
    BY <1>1, <1>2, <1>7, <2>2
<1>8. QED
  BY <1>4, <1>5, <1>6, <1>7

\* The counter is zero only when no RPC is in flight.
LEMMA AmEmpty ==
    ASSUME AmInv
    PROVE  /\ Cardinality(AmInFlight) = 0 => \A c \in CallbackRpcs : amRpcAt[c] \notin AmFlying
           /\ Cardinality(AmInFlight) # 0 => \E c \in CallbackRpcs : amRpcAt[c] \in AmFlying
<1>1. IsFiniteSet(AmInFlight)
  BY AmCounts DEF AmInFlight
<1>2. Cardinality(AmInFlight) = 0 <=> AmInFlight = {}
  BY <1>1, FS_EmptySet
<1>3. QED
  BY <1>2 DEF AmInFlight, AM!In

LEMMA AmInitInv == AM!Init => AmInv
<1> SUFFICES ASSUME AM!Init PROVE AmInv
  OBVIOUS
<1> USE DEF AM!Init
<1>1. AM!In({"allocate", "fail", "unref"}) = {}
  BY DEF AM!In
<1>2. AM!TypeOK
  <2>1. AM!Cardinality(AM!In({"allocate", "fail", "unref"})) = 0
    BY <1>1, AmCounts, FS_EmptySet
  <2>2. amRefs = 2 * AM!Cardinality(AM!In({"allocate", "fail", "unref"}))
                   + (IF amCloser = "idle" THEN 1 ELSE 0)
    BY <2>1
  <2>3. QED
    BY <2>2 DEF AM!TypeOK
<1>3. AmClosing
  BY DEF AmClosing, AM!AcceptedIsStarted, AM!In
<1>4. QED
  BY <1>2, <1>3 DEF AmInv

LEMMA AmTypesNext ==
    ASSUME amRpcAt' \in [CallbackRpcs -> AmWhere],
           amState' \in [CallbackRpcs -> {"NOT_STARTED", "ACTIVATED", "ZOMBIED"}],
           amPublished' \in BOOLEAN, amListener' \in BOOLEAN, amChannel' \in BOOLEAN,
           amCloser' \in {"idle", "finish", "await", "done"},
           amComplete' \in {"null", "waiting", "notified", "aborted"},
           amCloser' = "idle" => amRefs' = 2 * Cardinality(AmInFlight') + 1,
           amCloser' # "idle" => amRefs' = 2 * Cardinality(AmInFlight'),
           Cardinality(AmInFlight') \in Nat
    PROVE  AM!TypeOK'
<1>1. Cardinality(AmInFlight') = (AM!Cardinality(AM!In({"allocate", "fail", "unref"})))'
  BY AmCounts DEF AmInFlight, AmFlying
<1> DEFINE n == (AM!Cardinality(AM!In({"allocate", "fail", "unref"})))'
<1>2. n \in Nat /\ (amCloser' = "idle" => amRefs' = 2 * n + 1)
                /\ (amCloser' # "idle" => amRefs' = 2 * n)
  BY <1>1
<1> HIDE DEF n
<1>3. amRefs' = 2 * n + (IF amCloser' = "idle" THEN 1 ELSE 0)
  BY <1>2
<1>4. QED
  BY <1>3 DEF AM!TypeOK, AmWhere, n

\* What becomes of the shutdown when an RPC moves and nothing is published.
LEMMA AmRpcMoves ==
    ASSUME AmInv, NEW c \in CallbackRpcs, NEW to \in AmWhere,
           amRpcAt' = [amRpcAt EXCEPT ![c] = to],
           amState' \in [CallbackRpcs -> {"NOT_STARTED", "ACTIVATED", "ZOMBIED"}],
           UNCHANGED <<amComplete, amCloser, amPublished, amListener, amChannel>>,
           to = "allocate" => amCloser = "idle",
           \/ amRpcAt[c] \in AmFlying \cup {"last"} /\ amRefs' # 0
           \/ amRpcAt[c] \in {"new", "match"}
           \/ to \in AmFlying \cup {"last"},
           \/ amRpcAt[c] \in AmFlying /\ to \in AmFlying /\ amRefs' = amRefs
           \/ amRpcAt[c] \in AmFlying /\ to \notin AmFlying /\ amRefs' = amRefs - 2
           \/ amRpcAt[c] \notin AmFlying /\ to \in AmFlying /\ amRefs' = amRefs + 2
           \/ amRpcAt[c] \notin AmFlying /\ to \notin AmFlying /\ amRefs' = amRefs
    PROVE  AmInv'
<1>1. /\ amRpcAt' \in [CallbackRpcs -> AmWhere] /\ amRpcAt'[c] = to
      /\ \A d \in CallbackRpcs \ {c} : amRpcAt'[d] = amRpcAt[d]
      /\ Cardinality(AmInFlight') =
            Cardinality(AmInFlight) - (IF amRpcAt[c] \in AmFlying THEN 1 ELSE 0)
                                    + (IF to \in AmFlying THEN 1 ELSE 0)
  BY AmMoves
<1>2. IsFiniteSet(AmInFlight') /\ Cardinality(AmInFlight') \in Nat
  <2>1. AmInFlight' \subseteq CallbackRpcs
    BY DEF AmInFlight, AM!In
  <2>2. IsFiniteSet(CallbackRpcs)
    BY AmCounts, CallbackRpcsAssumption DEF AM!AllocatingMatcherConstants
  <2>3. IsFiniteSet(AmInFlight')
    BY <2>1, <2>2, FS_Subset
  <2>4. QED
    BY <2>3, FS_CardinalityType
<1>3. /\ amCloser' = "idle" => amRefs' = 2 * Cardinality(AmInFlight') + 1
      /\ amCloser' # "idle" => amRefs' = 2 * Cardinality(AmInFlight')
  BY <1>1, <1>2, AmTypes
<1>4. AM!TypeOK'
  BY <1>1, <1>2, <1>3, AmTypes, AmTypesNext
<1>5. AM!AcceptedIsStarted'
  BY <1>1 DEF AmInv, AmClosing, AM!AcceptedIsStarted, AM!In
<1>6. ASSUME amCloser' = "done", ~amListener', ~amChannel', ~amPublished'
      PROVE  \E d \in CallbackRpcs : amRpcAt'[d] \in AmFlying \cup {"last"}
  <2>1. CASE to \in AmFlying \cup {"last"}
    BY <1>1, <2>1
  <2>2. CASE amRpcAt[c] \in {"new", "match"} /\ to \notin AmFlying \cup {"last"}
    <3>1. PICK d \in CallbackRpcs : amRpcAt[d] \in AmFlying \cup {"last"}
      BY <1>6 DEF AmInv, AmClosing
    <3>2. d # c
      BY <2>2, <3>1 DEF AmFlying
    <3>3. QED
      BY <1>1, <3>1, <3>2
  <2>3. CASE amRefs' # 0
    <3>1. Cardinality(AmInFlight') # 0
      BY <1>2, <1>3, <1>6, <2>3
    <3>2. AmInFlight' # {}
      BY <3>1, FS_EmptySet
    <3>3. QED
      BY <3>2 DEF AmInFlight, AM!In
  <2>4. QED
    BY <2>1, <2>2, <2>3
<1>7. AmClosing'
  BY <1>5, <1>6 DEF AmInv, AmClosing
<1>8. QED
  BY <1>4, <1>7 DEF AmInv

\* What becomes of it when nothing changes but what MaybeFinishShutdown and
\* the threads that call it decide.
LEMMA AmFinishes ==
    ASSUME AmInv,
           UNCHANGED <<amRefs, amState>>,
           amRpcAt' \in [CallbackRpcs -> AmWhere], AmInFlight' = AmInFlight,
           AM!In({"allocate"})' = AM!In({"allocate"}),
           amComplete' \in {"null", "waiting", "notified", "aborted"},
           amCloser' \in {"idle", "finish", "await", "done"},
           amCloser = "idle" <=> amCloser' = "idle",
           amListener' \in BOOLEAN, amChannel' \in BOOLEAN,
           amCloser' # "done" => amListener',
           amPublished' = (amPublished \/ (amRefs = 0 /\ ~amChannel' /\ ~amListener'))
    PROVE  AmInv'
<1>1. /\ amPublished => amPublished'
      /\ amRefs = 0 /\ ~amChannel' /\ ~amListener' => amPublished'
      /\ amPublished' => amPublished \/ amRefs = 0
      /\ amPublished' \in BOOLEAN
  BY AmTypes
<1>2. AM!TypeOK'
  BY <1>1, AmTypes, AmTypesNext
<1>3. amPublished' => amCloser' # "idle"
  BY <1>1, AmTypes DEF AmInv, AmClosing
<1>4. AM!AcceptedIsStarted'
  <2>1. CASE amPublished
    BY <2>1 DEF AmInv, AmClosing, AM!AcceptedIsStarted
  <2>2. CASE amPublished' /\ amRefs = 0
    <3>1. Cardinality(AmInFlight) = 0
      BY <2>2, AmTypes
    <3>2. \A c \in CallbackRpcs : amRpcAt[c] \notin AmFlying
      BY <3>1, AmEmpty
    <3>3. AM!In({"allocate"}) = {}
      BY <3>2 DEF AM!In, AmFlying
    <3>4. QED
      BY <3>3 DEF AM!AcceptedIsStarted
  <2>3. QED
    BY <1>1, <2>1, <2>2 DEF AM!AcceptedIsStarted
<1>5. ASSUME amCloser' = "done", ~amListener', ~amChannel', ~amPublished'
      PROVE  \E d \in CallbackRpcs : amRpcAt'[d] \in AmFlying \cup {"last"}
  <2>1. amRefs # 0
    BY <1>1, <1>5
  <2>2. Cardinality(AmInFlight) # 0
    BY <1>5, <2>1, AmTypes
  <2>3. AmInFlight' # {}
    BY <2>2, FS_EmptySet
  <2>4. QED
    BY <2>3 DEF AmInFlight, AM!In
<1>6. AmClosing'
  BY <1>3, <1>4, <1>5 DEF AmClosing
<1>7. QED
  BY <1>2, <1>6 DEF AmInv

LEMMA AmRpcStepInv ==
    ASSUME AmInv, NEW c \in CallbackRpcs,
           \/ AM!PublishNewRpc(c) \/ AM!RefOnRequest(c) \/ AM!Allocate(c)
           \/ AM!FailCallCreation(c) \/ AM!UnrefOnRequest(c)
    PROVE  AmInv'
<1> USE DEF AM!Goto
<1>1. CASE AM!PublishNewRpc(c)
  <2>1. PICK to \in {"done", "match"} :
            /\ amRpcAt[c] = "new" /\ amRpcAt' = [amRpcAt EXCEPT ![c] = to]
            /\ amState' \in {amState, [amState EXCEPT ![c] = "ZOMBIED"]}
    BY <1>1 DEF AM!PublishNewRpc
  <2>2. UNCHANGED <<amRefs, amComplete, amCloser, amPublished, amListener, amChannel>>
    BY <1>1 DEF AM!PublishNewRpc
  <2>3. to \in AmWhere /\ to \notin AmFlying /\ to # "allocate" /\ amRpcAt[c] \notin AmFlying
    BY <2>1 DEF AmWhere, AmFlying
  <2>4. amState' \in [CallbackRpcs -> {"NOT_STARTED", "ACTIVATED", "ZOMBIED"}]
    BY <2>1, AmTypes
  <2>5. QED
    BY <2>1, <2>2, <2>3, <2>4, AmRpcMoves
<1>2. CASE AM!RefOnRequest(c)
  <2>1. PICK to \in {"fail", "allocate"} :
            /\ amRpcAt[c] = "match" /\ amRpcAt' = [amRpcAt EXCEPT ![c] = to]
            /\ to = "allocate" => ~AM!ShutdownCalled
    BY <1>2 DEF AM!RefOnRequest
  <2>2. /\ UNCHANGED <<amComplete, amCloser, amPublished, amListener, amChannel, amState>>
        /\ amRefs' = amRefs + 2
    BY <1>2 DEF AM!RefOnRequest
  <2>3. to \in AmWhere /\ to \in AmFlying /\ amRpcAt[c] \notin AmFlying
    BY <2>1 DEF AmWhere, AmFlying
  <2>4. to = "allocate" => amCloser = "idle"
    BY <2>1, AmTypes
  <2>5. amState' \in [CallbackRpcs -> {"NOT_STARTED", "ACTIVATED", "ZOMBIED"}]
    BY <2>2, AmTypes
  <2>6. QED
    BY <2>1, <2>2, <2>3, <2>4, <2>5, AmRpcMoves
<1>3. CASE AM!Allocate(c) \/ AM!FailCallCreation(c)
  <2>1. /\ amRpcAt[c] \in {"allocate", "fail"}
        /\ amRpcAt' = [amRpcAt EXCEPT ![c] = "unref"]
        /\ UNCHANGED <<amRefs, amComplete, amCloser, amPublished, amListener, amChannel>>
    BY <1>3 DEF AM!Allocate, AM!FailCallCreation
  <2>2. amState' \in [CallbackRpcs -> {"NOT_STARTED", "ACTIVATED", "ZOMBIED"}]
    BY <1>3, AmTypes DEF AM!Allocate, AM!FailCallCreation
  <2>3. "unref" \in AmWhere /\ "unref" \in AmFlying /\ amRpcAt[c] \in AmFlying
    BY <2>1 DEF AmWhere, AmFlying
  <2>4. QED
    BY <2>1, <2>2, <2>3, AmRpcMoves
<1>4. CASE AM!UnrefOnRequest(c)
  <2>1. PICK to \in {"last", "done"} :
            /\ amRpcAt[c] = "unref" /\ amRpcAt' = [amRpcAt EXCEPT ![c] = to]
            /\ to = "done" => amRefs # 2
    BY <1>4 DEF AM!UnrefOnRequest
  <2>2. /\ UNCHANGED <<amComplete, amCloser, amPublished, amListener, amChannel, amState>>
        /\ amRefs' = amRefs - 2
    BY <1>4 DEF AM!UnrefOnRequest
  <2>3. to \in AmWhere /\ to \notin AmFlying /\ to # "allocate" /\ amRpcAt[c] \in AmFlying
    BY <2>1 DEF AmWhere, AmFlying
  <2>4. to = "done" => amRefs' # 0
    BY <2>1, <2>2, AmTypes
  <2>5. amState' \in [CallbackRpcs -> {"NOT_STARTED", "ACTIVATED", "ZOMBIED"}]
    BY <2>2, AmTypes
  <2>6. to \in AmFlying \cup {"last"} \/ amRefs' # 0
    BY <2>1, <2>4
  <2>7. QED
    BY <2>1, <2>2, <2>3, <2>5, <2>6, AmRpcMoves
<1>5. QED
  BY <1>1, <1>2, <1>3, <1>4

LEMMA AmLastRequestInv ==
    ASSUME AmInv, NEW c \in CallbackRpcs, AM!LastRequest(c), amComplete # "aborted"
    PROVE  AmInv'
<1>1. /\ amRpcAt[c] = "last" /\ amRpcAt' = [amRpcAt EXCEPT ![c] = "done"]
      /\ amPublished' = (amPublished \/ (amRefs = 0 /\ ~amChannel /\ ~amListener))
      /\ UNCHANGED <<amRefs, amCloser, amListener, amChannel, amState>>
  BY DEF AM!LastRequest, AM!Goto, AM!MaybeFinishShutdown
<1>2. amComplete' \in {"null", "waiting", "notified", "aborted"}
  <2>1. amComplete \in {"null", "waiting", "notified"}
    BY AmTypes
  <2>2. QED
    BY <2>1 DEF AM!LastRequest
<1>3. /\ amRpcAt' \in [CallbackRpcs -> AmWhere]
      /\ AmInFlight' = AmInFlight
      /\ AM!In({"allocate"})' = AM!In({"allocate"})
  BY <1>1, AmTypes DEF AmInFlight, AM!In, AmFlying, AmWhere
<1>4. amCloser' # "done" => amListener'
  BY <1>1 DEF AmInv, AmClosing
<1>5. /\ amCloser' \in {"idle", "finish", "await", "done"}
      /\ amListener' \in BOOLEAN /\ amChannel' \in BOOLEAN
      /\ amCloser = "idle" <=> amCloser' = "idle"
  BY <1>1, AmTypes
<1>6. amPublished' = (amPublished \/ (amRefs = 0 /\ ~amChannel' /\ ~amListener'))
  BY <1>1
<1>7. QED
  BY <1>1, <1>2, <1>3, <1>4, <1>5, <1>6, AmFinishes

LEMMA AmShutdownInv == AmInv /\ AM!ShutdownAndNotify => AmInv'
<1> SUFFICES ASSUME AmInv, AM!ShutdownAndNotify PROVE AmInv'
  OBVIOUS
<1>1. /\ amCloser = "idle" /\ amRefs' = amRefs - 1
      /\ amCloser' \in {"finish", "await"}
      /\ amComplete' \in {amComplete, "waiting"}
      /\ UNCHANGED <<amPublished, amListener, amChannel, amRpcAt, amState>>
  BY DEF AM!ShutdownAndNotify
<1>2. AmInFlight' = AmInFlight
  BY <1>1 DEF AmInFlight, AM!In
<1>3. AM!TypeOK'
  <2>1. amRefs' = 2 * Cardinality(AmInFlight')
    BY <1>1, <1>2, AmTypes
  <2>2. QED
    BY <1>1, <1>2, <2>1, AmTypes, AmTypesNext
<1>4. AmClosing'
  BY <1>1, AmTypes DEF AmInv, AmClosing, AM!AcceptedIsStarted, AM!In
<1>5. QED
  BY <1>3, <1>4 DEF AmInv

LEMMA AmCloserInv ==
    ASSUME AmInv,
           \/ AM!CloserStep \/ AM!ListenerDestroyDone \/ AM!ChannelDestroy
    PROVE  AmInv'
<1>1. /\ UNCHANGED <<amRefs, amComplete, amRpcAt, amState>>
      /\ AmInFlight' = AmInFlight /\ AM!In({"allocate"})' = AM!In({"allocate"})
  BY DEF AM!CloserStep, AM!ShutdownFinishes, AM!AwaitRequests, AM!ListenerDestroyDone,
         AM!ChannelDestroy, AmInFlight, AM!In
<1>2. CASE AM!ShutdownFinishes \/ AM!ListenerDestroyDone \/ AM!ChannelDestroy
  <2>1. /\ amPublished' = (amPublished \/ (amRefs = 0 /\ ~amChannel' /\ ~amListener'))
        /\ amCloser' \in {amCloser, "done"} /\ (amCloser = "idle" => amCloser' = amCloser)
        /\ amListener' \in {amListener, FALSE} /\ amChannel' \in {amChannel, FALSE}
    <3>1. CASE AM!ShutdownFinishes
      BY <3>1 DEF AM!ShutdownFinishes, AM!MaybeFinishShutdown
    <3>2. CASE AM!ListenerDestroyDone
      BY <3>2 DEF AM!ListenerDestroyDone, AM!MaybeFinishShutdown
    <3>3. CASE AM!ChannelDestroy
      BY <3>3 DEF AM!ChannelDestroy, AM!MaybeFinishShutdown
    <3>4. QED
      BY <1>2, <3>1, <3>2, <3>3
  <2>2. amCloser' # "done" => amListener'
    BY <1>2 DEF AM!ShutdownFinishes, AM!ListenerDestroyDone, AM!ChannelDestroy,
                AmInv, AmClosing
  <2>3. /\ amCloser' \in {"idle", "finish", "await", "done"}
        /\ amListener' \in BOOLEAN /\ amChannel' \in BOOLEAN
        /\ amCloser = "idle" <=> amCloser' = "idle"
        /\ amComplete' \in {"null", "waiting", "notified", "aborted"}
        /\ amRpcAt' \in [CallbackRpcs -> AmWhere]
    BY <1>1, <2>1, AmTypes
  <2>4. QED
    BY <1>1, <2>1, <2>2, <2>3, AmFinishes
<1>3. CASE AM!AwaitRequests
  <2>1. /\ UNCHANGED <<amPublished, amListener, amChannel>>
        /\ amCloser = "await" /\ amCloser' = "done"
    BY <1>3 DEF AM!AwaitRequests
  <2>2. AM!TypeOK'
    BY <1>1, <2>1, AmTypes, AmTypesNext
  <2>3. AmClosing'
    BY <1>1, <2>1 DEF AmInv, AmClosing, AM!AcceptedIsStarted
  <2>4. QED
    BY <2>2, <2>3 DEF AmInv
<1>4. QED
  BY <1>2, <1>3 DEF AM!CloserStep

LEMMA AmNextInv == AmInv /\ (AM!Next \/ UNCHANGED amVars) => AmInv'
<1> SUFFICES ASSUME AmInv, AM!Next \/ UNCHANGED amVars PROVE AmInv'
  OBVIOUS
<1>1. CASE AM!Next
  <2>1. amComplete # "aborted"
    BY <1>1 DEF AM!Next
  <2>2. ASSUME NEW c \in CallbackRpcs, AM!PublishNewRpc(c) \/ AM!RpcStep(c) PROVE AmInv'
    BY <2>1, <2>2, AmRpcStepInv, AmLastRequestInv DEF AM!RpcStep
  <2>3. QED
    BY <1>1, <2>2, AmShutdownInv, AmCloserInv DEF AM!Next
<1>2. CASE UNCHANGED amVars
  <2>1. /\ UNCHANGED <<amRefs, amComplete, amCloser, amPublished, amListener, amChannel>>
        /\ UNCHANGED <<amRpcAt, amState>>
    BY <1>2 DEF amVars
  <2>2. AmInFlight' = AmInFlight
    BY <2>1 DEF AmInFlight, AM!In
  <2>3. AM!TypeOK'
    BY <2>1, <2>2, AmTypes, AmTypesNext
  <2>4. AmClosing'
    BY <2>1 DEF AmInv, AmClosing, AM!AcceptedIsStarted, AM!In
  <2>5. QED
    BY <2>3, <2>4 DEF AmInv
<1>3. QED
  BY <1>1, <1>2

LEMMA AmLastOne == AmInv => AM!LastOnePublishes
<1> SUFFICES ASSUME AmInv, amCloser = "done", ~amListener, ~amChannel, ~amPublished,
                    AM!In({"match", "allocate", "fail", "unref", "last"}) = {}
             PROVE  FALSE
  BY DEF AM!LastOnePublishes
<1>1. PICK c \in CallbackRpcs : amRpcAt[c] \in AmFlying \cup {"last"}
  BY DEF AmInv, AmClosing
<1>2. c \in AM!In({"match", "allocate", "fail", "unref", "last"})
  BY <1>1 DEF AM!In, AmFlying
<1>3. QED
  BY <1>2

-----------------------------------------------------------------------------
(* Both matchers                                                           *)

LEMMA AllInvariance == AllSpec => [](Inv /\ AmInv)
<1>1. AllInit => Inv /\ AmInv
  BY InitInv, AmInitInv DEF AllInit
<1>2. Inv /\ AmInv /\ [AllNext]_<<part, vars, amVars>> => Inv' /\ AmInv'
  <2>1. AllNext => [Next]_vars /\ (AM!Next \/ UNCHANGED amVars)
    BY DEF AllNext
  <2>2. UNCHANGED <<part, vars, amVars>> => [Next]_vars /\ UNCHANGED amVars
    OBVIOUS
  <2>3. QED
    BY <2>1, <2>2, NextInv, AmNextInv
<1>3. QED
  BY <1>1, <1>2, PTL DEF AllSpec

\* Every request that was made is in one place, a queue, the hands of one
\* thread or answered once, every RPC is pending, published to one request or
\* killed once, and shutdown_refs_ counts exactly the RPCs in flight: whatever
\* the order of pushes, pops, matches and the kills of a shutdown.
THEOREM NothingDroppedOrDoubled == AllSpec => []InOnePlace
<1>1. Inv /\ AmInv => InOnePlace
  BY InvRequestInOnePlace, InvRpcInOnePlace DEF InOnePlace, Inv, AmInv
<1>2. QED
  BY <1>1, AllInvariance, PTL

\* A request and a pending RPC never wait for each other without a thread that
\* matches them: the last look at the queues, under mu_call_, and the push to
\* an empty queue cannot miss each other.
THEOREM MatchesAreMade == AllSpec => []NoLostMatch
<1>1. Inv => NoLostMatch
  BY DEF Inv
<1>2. QED
  BY <1>1, AllInvariance, PTL

\* When the shutdown is published, no request and no RPC that was in the lists
\* when it was called is still there, and, with the AllocatingRequestMatcher, no
\* accepted RPC has yet to begin its operation.  What is pushed later is not
\* meant: a request that passed the check before the call may still come.
THEOREM EarlyWorkIsOver == AllSpec => []PublishedIsOver
<1>1. Inv /\ AmInv => PublishedIsOver
  BY InvShutdownClears DEF PublishedIsOver, AmInv, AmClosing
<1>2. QED
  BY <1>1, AllInvariance, PTL

\* Whoever takes away the last thing that holds up the shutdown publishes it.
THEOREM LastOneIsNeverMissed == AllSpec => []ShutdownIsPublished
<1>1. Inv /\ AmInv => ShutdownIsPublished
  BY AmLastOne DEF ShutdownIsPublished, Inv
<1>2. QED
  BY <1>1, AllInvariance, PTL
=============================================================================
