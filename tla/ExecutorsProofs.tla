--------------------------- MODULE ExecutorsProofs ---------------------------
(***************************************************************************)
(* Proofs about what executes work: the serializers WorkSerializer,        *)
(* CallCombiner and Combiner, for any threads and any finite sets of       *)
(* callbacks, and the pools Executor and ThreadManager, for any numbers of *)
(* threads and closures.  The order of an item in the queue of a           *)
(* serializer and what is ahead of it come first, as the three share them. *)
(***************************************************************************)
EXTENDS MCExecutors, CountingLemmas, TLAPS

-----------------------------------------------------------------------------
(* Lists without repetition                                                *)

\* The tail of a list without repetitions.
LEMMA TailInjective ==
    ASSUME NEW S, NEW s \in Seq(S), s # <<>>, IsInjective(s)
    PROVE  IsInjective(Tail(s)) /\ Range(Tail(s)) = Range(s) \ {Head(s)}
<1> DEFINE t == Tail(s)
<1>1. /\ t \in Seq(S) /\ Len(t) = Len(s) - 1 /\ Len(s) \in Nat \ {0}
      /\ DOMAIN s = 1 .. Len(s) /\ DOMAIN t = 1 .. Len(t)
      /\ Head(s) = s[1] /\ \A i \in 1 .. Len(t) : t[i] = s[i + 1]
  OBVIOUS
<1> HIDE DEF t
<1>2. IsInjective(t)
  <2> SUFFICES ASSUME NEW i \in 1 .. Len(t), NEW j \in 1 .. Len(t), t[i] = t[j]
               PROVE  i = j
    BY <1>1 DEF IsInjective
  <2>1. i + 1 \in DOMAIN s /\ j + 1 \in DOMAIN s /\ s[i + 1] = s[j + 1]
    BY <1>1
  <2>2. i + 1 = j + 1
    BY <2>1 DEF IsInjective
  <2> QED BY <1>1, <2>2
<1>3. Head(s) \notin Range(t)
  <2> SUFFICES ASSUME NEW i \in 1 .. Len(t), t[i] = s[1] PROVE FALSE
    BY <1>1 DEF Range
  <2>1. i + 1 \in DOMAIN s /\ 1 \in DOMAIN s /\ s[i + 1] = s[1]
    BY <1>1
  <2>2. i + 1 = 1
    BY <2>1 DEF IsInjective
  <2> QED BY <1>1, <2>2
<1>4. Range(s) = {Head(s)} \cup Range(t)
  BY TailFacts DEF t
<1> QED BY <1>2, <1>3, <1>4 DEF t

-----------------------------------------------------------------------------
(* What has to be executed before an item                                  *)

\* What is ahead of an item in the queue is executing or in front of it.
InOrder(q, E, before) ==
    \A j \in 1 .. Len(q) : \A d \in before[q[j]] :
        d \in E \/ \E i \in 1 .. (j - 1) : q[i] = d

LEMMA OrderAppend ==
    ASSUME NEW S, NEW q \in Seq(S), NEW x \in S, NEW E, NEW before,
           InOrder(q, E, before), before[x] \subseteq E \cup Range(q)
    PROVE  InOrder(Append(q, x), E, before)
<1> DEFINE r == Append(q, x)
<1>1. /\ Len(q) \in Nat /\ Len(r) = Len(q) + 1 /\ r[Len(q) + 1] = x
      /\ DOMAIN q = 1 .. Len(q) /\ \A i \in 1 .. Len(q) : r[i] = q[i]
  OBVIOUS
<1> HIDE DEF r
<1> SUFFICES ASSUME NEW j \in 1 .. Len(r), NEW d \in before[r[j]], d \notin E
             PROVE  \E i \in 1 .. (j - 1) : r[i] = d
  BY DEF InOrder, r
<1>2. CASE j \in 1 .. Len(q)
  <2>1. PICK i \in 1 .. (j - 1) : q[i] = d
    BY <1>1, <1>2 DEF InOrder
  <2>2. i \in 1 .. Len(q)
    BY <1>1, <1>2
  <2> QED BY <1>1, <2>1, <2>2
<1>3. CASE j = Len(q) + 1
  <2>1. d \in Range(q)
    BY <1>1, <1>3
  <2>2. PICK i \in 1 .. Len(q) : q[i] = d
    BY <1>1, <2>1 DEF Range
  <2> QED BY <1>1, <1>3, <2>2
<1> QED BY <1>1, <1>2, <1>3

LEMMA OrderTail ==
    ASSUME NEW S, NEW q \in Seq(S), q # <<>>, NEW E, NEW before,
           InOrder(q, E, before)
    PROVE  /\ before[Head(q)] \subseteq E
           /\ InOrder(Tail(q), E \cup {Head(q)}, before)
<1> DEFINE t == Tail(q)
<1>1. /\ Len(t) = Len(q) - 1 /\ Len(q) \in Nat \ {0} /\ Head(q) = q[1]
      /\ \A i \in 1 .. Len(t) : t[i] = q[i + 1]
  OBVIOUS
<1> HIDE DEF t
<1>2. before[Head(q)] \subseteq E
  BY <1>1 DEF InOrder
<1>3. ASSUME NEW j \in 1 .. Len(t), NEW d \in before[t[j]], d \notin E, d # Head(q)
      PROVE  \E i \in 1 .. (j - 1) : t[i] = d
  <2>1. j + 1 \in 1 .. Len(q) /\ d \in before[q[j + 1]]
    BY <1>1, <1>3
  <2>2. PICK i \in 1 .. j : q[i] = d
    BY <1>3, <2>1 DEF InOrder
  <2>3. i # 1
    BY <1>1, <1>3, <2>2
  <2>4. i - 1 \in 1 .. (j - 1) /\ i - 1 \in 1 .. Len(t)
    BY <1>1, <2>2, <2>3
  <2>5. t[i - 1] = q[(i - 1) + 1] /\ (i - 1) + 1 = i
    BY <1>1, <2>4
  <2> QED BY <2>2, <2>4, <2>5
<1> QED BY <1>2, <1>3 DEF InOrder, t

LEMMA OrderKept ==
    ASSUME NEW S, NEW q \in Seq(S), NEW E, NEW F, NEW before, NEW after,
           InOrder(q, E, before),
           \A x \in Range(q) : \A d \in after[x] : d \in before[x] /\ (d \in E => d \in F)
    PROVE  InOrder(q, F, after)
<1>1. Len(q) \in Nat /\ DOMAIN q = 1 .. Len(q)
  OBVIOUS
<1> SUFFICES ASSUME NEW j \in 1 .. Len(q), NEW d \in after[q[j]], d \notin F
             PROVE  \E i \in 1 .. (j - 1) : q[i] = d
  BY DEF InOrder
<1>2. d \in before[q[j]] /\ d \notin E
  BY <1>1 DEF Range
<1> QED BY <1>2 DEF InOrder

\* A step of SerialExecutor from the phases p and the items ahead a to q and b,
\* or none.
SerialStep(p, a, q, b) ==
    \/ q = p /\ b = a
    \/ \E w \in Callbacks :
          \/ /\ p[w] = "idle" /\ q = [p EXCEPT ![w] = "calling"]
             /\ b = [a EXCEPT ![w] = {v \in Callbacks : p[v] \in {"waiting", "running"}}]
          \/ p[w] = "calling" /\ q = [p EXCEPT ![w] = "waiting"] /\ b = a
          \/ /\ \A v \in Callbacks : p[v] \notin {"waiting", "running"}
             /\ p[w] = "idle" /\ q = [p EXCEPT ![w] = "running"] /\ b = a
          \/ /\ \A v \in Callbacks : p[v] # "running"
             /\ p[w] = "waiting" /\ a[w] = {}
             /\ q = [p EXCEPT ![w] = "running"] /\ b = a
          \/ /\ p[w] = "running" /\ q = [p EXCEPT ![w] = "idle"]
             /\ b = [v \in Callbacks |-> a[v] \ {w}]

LEMMA PromiseStep ==
    ASSUME SerialStep(phases, aheads, phases', aheads')
    PROVE  [Promise!Next]_(Promise!vars)
BY DEF SerialStep, Promise!Next, Promise!vars, Promise!Schedule, Promise!Return,
       Promise!RunAtOnce, Promise!Start, Promise!Finish, Promise!Running

USE WorkSerializerAssumption

Counted == InPlaces({"run", "drain", "push"})

-----------------------------------------------------------------------------
(* Counting threads                                                        *)

LEMMA CountedFinite ==
    /\ IsFiniteSet(Counted)
    /\ Cardinality(Counted) \in Nat
    /\ Cardinality(Counted) = 0 <=> Counted = {}
<1>1. Counted \in SUBSET Threads
  BY DEF Counted, InPlaces
<1> QED BY <1>1, FS_Subset, FS_CardinalityType, FS_EmptySet

\* A thread that moves into, out of or within the counted places.
LEMMA CountedMoves ==
    ASSUME TypeOK, NEW t \in Threads, NEW l \in Places,
           pc' = [pc EXCEPT ![t] = l]
    PROVE  LET in == pc[t] \in {"run", "drain", "push"}
               to == l \in {"run", "drain", "push"}
           IN  /\ ~in /\ to => Cardinality(Counted') = Cardinality(Counted) + 1
               /\ in /\ ~to => Cardinality(Counted') = Cardinality(Counted) - 1
               /\ (in <=> to) => Counted' = Counted
<1>1. /\ pc'[t] = l /\ \A u \in Threads : u # t => pc'[u] = pc[u]
  BY DEF TypeOK
<1>2. t \in Counted <=> pc[t] \in {"run", "drain", "push"}
  BY DEF Counted, InPlaces
<1>3. Counted' = IF l \in {"run", "drain", "push"} THEN Counted \cup {t}
                 ELSE Counted \ {t}
  BY <1>1 DEF Counted, InPlaces
<1>4. /\ Cardinality(Counted \cup {t}) =
            IF t \in Counted THEN Cardinality(Counted) ELSE Cardinality(Counted) + 1
      /\ Cardinality(Counted \ {t}) =
            IF t \in Counted THEN Cardinality(Counted) - 1 ELSE Cardinality(Counted)
  BY CountedFinite, FS_AddElement, FS_RemoveElement
<1>5. CASE l \in {"run", "drain", "push"} /\ t \notin Counted
  BY <1>2, <1>3, <1>4, <1>5
<1>6. CASE l \notin {"run", "drain", "push"} /\ t \in Counted
  BY <1>2, <1>3, <1>4, <1>6
<1>7. CASE l \in {"run", "drain", "push"} <=> t \in Counted
  BY <1>2, <1>3, <1>7
<1> QED BY <1>5, <1>6, <1>7

\* While the owner's count is all there is, nobody drains or is about to push.
LEMMA OnlyOwner ==
    ASSUME Inv, size = (IF orphaned THEN 0 ELSE 1)
    PROVE  queue = <<>> /\ \A t \in Threads : pc[t] = "idle"
<1>1. Cardinality(Counted) \in Nat /\ Len(queue) \in Nat
  BY CountedFinite DEF Inv, TypeOK
<1>2. Cardinality(Counted) = 0 /\ Len(queue) = 0
  BY <1>1 DEF Inv, SizeCounts, Counted
<1>3. queue = <<>> /\ Counted = {}
  BY <1>2, CountedFinite DEF Inv, TypeOK
<1>4. \A t \in Threads : pc[t] \notin {"run", "drain", "push"}
  BY <1>3 DEF Counted, InPlaces
<1>5. \A t \in Threads : pc[t] # "pop"
  BY <1>3, <1>4 DEF Inv, SizeCounts, InPlaces
<1>6. \A t \in Threads : pc[t] # "link"
  BY <1>3 DEF Inv, OneHome, Range
<1> QED BY <1>3, <1>4, <1>5, <1>6 DEF Inv, TypeOK, Places

LEMMA InitInv == Init => Inv
<1> SUFFICES ASSUME Init PROVE Inv
  OBVIOUS
<1>1. TypeOK
  <2>1. ahead \in [Callbacks -> SUBSET Callbacks] /\ queue \in Seq(Callbacks)
    BY DEF Init
  <2>2. orphaned \in BOOLEAN /\ deleted \in BOOLEAN /\ size \in Nat
    BY DEF Init
  <2>3. /\ pushing \subseteq Callbacks /\ pc \in [Threads -> Places]
        /\ arg \in [Threads -> Callbacks \cup {Null}]
    BY DEF Init, Places
  <2> QED BY <2>1, <2>2, <2>3 DEF TypeOK
<1>2. OneHome
  BY DEF Init, OneHome, InPlaces, Range
<1>3. Serial /\ SomeoneDrains /\ DeletedIsEmpty
  BY DEF Init, Serial, SomeoneDrains, Drainers, InPlaces, DeletedIsEmpty
<1>4. SizeCounts
  <2>1. Counted = {} /\ InPlaces({"pop"}) = {}
    BY DEF Init, Counted, InPlaces
  <2> QED BY <2>1, FS_EmptySet DEF Init, SizeCounts, Counted
<1> QED BY <1>1, <1>2, <1>3, <1>4 DEF Inv

-----------------------------------------------------------------------------
(* Run                                                                     *)

LEMMA RunNowInv ==
    ASSUME Inv, NEW t \in Threads, NEW c \in Callbacks, RunNow(t, c)
    PROVE  Inv'
<1>1. /\ pc[t] = "idle" /\ c \notin InHand /\ ~orphaned /\ size = 1 /\ size' = 2
      /\ pc' = [pc EXCEPT ![t] = "run"] /\ arg' = [arg EXCEPT ![t] = c]
      /\ UNCHANGED <<queue, pushing, orphaned, deleted, ahead>>
  BY DEF RunNow, Goto
<1>2. queue = <<>> /\ \A u \in Threads : pc[u] = "idle"
  BY <1>1, OnlyOwner
<1>3. TypeOK'
  BY <1>1 DEF Inv, TypeOK, Places
<1>4. OneHome'
  BY <1>1, <1>2 DEF Inv, TypeOK, OneHome, InPlaces, InHand, Range
<1>5. Serial' /\ SomeoneDrains' /\ DeletedIsEmpty'
  BY <1>1, <1>2 DEF Inv, TypeOK, Serial, SomeoneDrains, Drainers, InPlaces,
                    DeletedIsEmpty
<1>6. SizeCounts'
  <2>1. Cardinality(Counted') = Cardinality(Counted) + 1
    BY <1>1, CountedMoves DEF Inv, Places
  <2>2. InPlaces({"pop"})' = {}
    BY <1>1, <1>2 DEF Inv, TypeOK, InPlaces
  <2> QED
    BY <1>1, <2>1, <2>2, CountedFinite DEF Inv, TypeOK, SizeCounts, Counted
<1> QED BY <1>3, <1>4, <1>5, <1>6 DEF Inv

LEMMA RunLaterInv ==
    ASSUME Inv, NEW t \in Threads, NEW c \in Callbacks, RunLater(t, c)
    PROVE  Inv'
<1>1. /\ pc[t] = "idle" /\ c \notin InHand /\ ~orphaned /\ size # 1
      /\ size' = size + 1
      /\ pc' = [pc EXCEPT ![t] = "push"] /\ arg' = [arg EXCEPT ![t] = c]
      /\ ahead' = [ahead EXCEPT ![c] = Executing \cup Waiting]
      /\ UNCHANGED <<queue, pushing, orphaned, deleted>>
  BY DEF RunLater, Goto
<1>2. TypeOK'
  <2>1. Executing \cup Waiting \subseteq Callbacks
    BY DEF Executing, Waiting, Range, Inv, TypeOK, OneHome
  <2> QED BY <1>1, <2>1 DEF Inv, TypeOK, Places
<1>3. OneHome'
  BY <1>1 DEF Inv, TypeOK, OneHome, InPlaces, InHand, Range
<1>4. Drainers # {}
  <2>1. CASE Drainers = {}
    <3>1. queue = <<>> /\ InPlaces({"push", "link"}) = {}
      BY <1>1, <2>1 DEF Inv, SomeoneDrains
    <3>2. Counted = {}
      BY <2>1, <3>1 DEF Drainers, InPlaces, Counted
    <3>3. Cardinality(Counted) = 0 /\ Len(queue) = 0
      BY <3>1, <3>2, FS_EmptySet
    <3> QED BY <1>1, <3>3 DEF Inv, SizeCounts, Counted
  <2> QED BY <2>1
<1>5. Serial' /\ SomeoneDrains' /\ DeletedIsEmpty'
  <2>1. Drainers' = Drainers
    BY <1>1 DEF Inv, TypeOK, Drainers, InPlaces
  <2> QED BY <1>1, <1>4, <2>1 DEF Inv, Serial, SomeoneDrains, DeletedIsEmpty
<1>6. SizeCounts'
  <2>1. Cardinality(Counted') = Cardinality(Counted) + 1
    BY <1>1, CountedMoves DEF Inv, Places
  <2>2. InPlaces({"push"})' # {}
    BY <1>1 DEF Inv, TypeOK, InPlaces
  <2>3. Cardinality(Counted) \in Nat /\ Len(queue) \in Nat
    BY CountedFinite DEF Inv, TypeOK
  <2>4. size = 1 + Cardinality(Counted) + Len(queue)
    BY <1>1 DEF Inv, SizeCounts, Counted
  <2>5. size' = (IF orphaned' THEN 0 ELSE 1) + Cardinality(Counted') + Len(queue')
    BY <1>1, <2>1, <2>3, <2>4
  <2> QED BY <2>2, <2>5 DEF SizeCounts, Counted
<1> QED BY <1>2, <1>3, <1>5, <1>6 DEF Inv

Owner == IF orphaned THEN 0 ELSE 1

LEMMA Balance ==
    ASSUME Inv
    PROVE  /\ Cardinality(Counted) \in Nat /\ Len(queue) \in Nat
           /\ Owner \in {0, 1} /\ (Owner = 0 <=> orphaned)
           /\ size = Owner + Cardinality(Counted) + Len(queue)
<1>1. Cardinality(Counted) \in Nat /\ Len(queue) \in Nat
  BY CountedFinite DEF Inv, TypeOK
<1>2. Owner \in {0, 1} /\ (Owner = 0 <=> orphaned)
  BY DEF Owner
<1> QED BY <1>1, <1>2 DEF Inv, SizeCounts, Counted, Owner

LEMMA PushClaimInv ==
    ASSUME Inv, NEW t \in Threads, PushClaim(t)
    PROVE  Inv'
<1> DEFINE c == arg[t]
<1>1. /\ pc[t] = "push" /\ queue' = Append(queue, c) /\ pushing' = pushing \cup {c}
      /\ pc' = [pc EXCEPT ![t] = "link"] /\ arg' = arg
      /\ UNCHANGED <<size, orphaned, deleted, ahead>>
  BY DEF PushClaim, Goto, Q!Claim, Inv, TypeOK
<1>2. c \in Callbacks /\ c # Null /\ c \notin Range(queue) /\ queue \in Seq(Callbacks)
  BY <1>1 DEF Inv, TypeOK, OneHome
<1>3. TypeOK'
  BY <1>1, <1>2 DEF Inv, TypeOK, Places
<1>4. /\ Len(queue') = Len(queue) + 1 /\ queue'[Len(queue) + 1] = c
      /\ \A i \in 1..Len(queue) : queue'[i] = queue[i]
  BY <1>1, <1>2
<1>5. Range(queue') = Range(queue) \cup {c}
  BY <1>1, <1>2, <1>4 DEF Range
<1>6. OneHome'
  <2>1. \A i, j \in 1..Len(queue') : queue'[i] = queue'[j] => i = j
    BY <1>2, <1>4 DEF Inv, OneHome, Range
  <2>2. \A u \in Threads : arg'[u] \in Range(queue)' <=> pc'[u] = "link"
    BY <1>1, <1>2, <1>5 DEF Inv, TypeOK, OneHome
  <2>3. pushing' = {arg'[u] : u \in InPlaces({"link"})'}
    BY <1>1 DEF Inv, TypeOK, OneHome, InPlaces
  <2>4. \A u \in Threads : arg'[u] = Null <=> pc'[u] \in {"idle", "drain", "pop"}
    BY <1>1 DEF Inv, TypeOK, OneHome
  <2> QED BY <1>1, <2>1, <2>2, <2>3, <2>4 DEF Inv, OneHome
<1>7. Serial' /\ SomeoneDrains' /\ DeletedIsEmpty'
  <2>1. Drainers' = Drainers
    BY <1>1 DEF Inv, TypeOK, Drainers, InPlaces
  <2>2. Drainers # {} \/ orphaned
    BY <1>1 DEF Inv, SomeoneDrains, InPlaces
  <2> QED BY <1>1, <2>1, <2>2 DEF Inv, Serial, SomeoneDrains, DeletedIsEmpty
<1>8. SizeCounts'
  <2>1. Cardinality(Counted') = Cardinality(Counted) - 1
    BY <1>1, CountedMoves DEF Inv, Places
  <2>2. size' = Owner + Cardinality(Counted') + Len(queue')
    BY <1>1, <1>4, <2>1, Balance
  <2>3. queue' # <<>>
    BY <1>2, <1>4
  <2> QED BY <1>1, <2>2, <2>3 DEF SizeCounts, Counted, Owner
<1> QED BY <1>3, <1>6, <1>7, <1>8 DEF Inv

LEMMA PushLinkInv ==
    ASSUME Inv, NEW t \in Threads, PushLink(t)
    PROVE  Inv'
<1>1. /\ pc[t] = "link" /\ pushing' = pushing \ {arg[t]}
      /\ pc' = [pc EXCEPT ![t] = "idle"] /\ arg' = [arg EXCEPT ![t] = Null]
      /\ UNCHANGED <<size, queue, orphaned, deleted, ahead>>
  BY DEF PushLink, Goto, Q!Publish
<1>2. TypeOK'
  BY <1>1 DEF Inv, TypeOK, Places
<1>3. OneHome'
  <2>1. Null \notin Range(queue)
    BY DEF Inv, TypeOK, Range
  <2>2. pushing' = {arg'[u] : u \in InPlaces({"link"})'}
    BY <1>1 DEF Inv, TypeOK, OneHome, InPlaces
  <2> QED BY <1>1, <2>1, <2>2 DEF Inv, TypeOK, OneHome
<1>4. Serial' /\ SomeoneDrains' /\ DeletedIsEmpty'
  <2>1. Drainers' = Drainers
    BY <1>1 DEF Inv, TypeOK, Drainers, InPlaces
  <2>2. Drainers # {} \/ orphaned
    BY <1>1 DEF Inv, SomeoneDrains, InPlaces
  <2> QED BY <1>1, <2>1, <2>2 DEF Inv, Serial, SomeoneDrains, DeletedIsEmpty
<1>5. SizeCounts'
  <2>1. Counted' = Counted
    BY <1>1, CountedMoves DEF Inv, Places
  <2>2. InPlaces({"pop"})' = InPlaces({"pop"}) /\ InPlaces({"push"})' = InPlaces({"push"})
    BY <1>1 DEF Inv, TypeOK, InPlaces
  <2> QED BY <1>1, <2>1, <2>2 DEF Inv, SizeCounts, Counted
<1> QED BY <1>2, <1>3, <1>4, <1>5 DEF Inv

-----------------------------------------------------------------------------
(* DrainQueue and Orphan                                                   *)

LEMMA CallbackDoneInv ==
    ASSUME Inv, NEW t \in Threads, CallbackDone(t)
    PROVE  Inv'
<1>1. /\ pc[t] = "run" /\ ahead' = [c \in Callbacks |-> ahead[c] \ {arg[t]}]
      /\ pc' = [pc EXCEPT ![t] = "drain"] /\ arg' = [arg EXCEPT ![t] = Null]
      /\ UNCHANGED <<size, queue, pushing, orphaned, deleted>>
  BY DEF CallbackDone, Goto
<1>2. TypeOK'
  BY <1>1 DEF Inv, TypeOK, Places
<1>3. OneHome'
  <2>1. Null \notin Range(queue)
    BY DEF Inv, TypeOK, Range
  <2>2. pushing' = {arg'[u] : u \in InPlaces({"link"})'}
    BY <1>1 DEF Inv, TypeOK, OneHome, InPlaces
  <2> QED BY <1>1, <2>1, <2>2 DEF Inv, TypeOK, OneHome
<1>4. Serial' /\ SomeoneDrains' /\ DeletedIsEmpty'
  <2>1. Drainers' = Drainers /\ Drainers # {}
    BY <1>1 DEF Inv, TypeOK, Drainers, InPlaces
  <2> QED BY <1>1, <2>1 DEF Inv, Serial, SomeoneDrains, DeletedIsEmpty
<1>5. SizeCounts'
  <2>1. Counted' = Counted
    BY <1>1, CountedMoves DEF Inv, Places
  <2>2. InPlaces({"pop"})' = InPlaces({"pop"}) /\ InPlaces({"push"})' = InPlaces({"push"})
    BY <1>1 DEF Inv, TypeOK, InPlaces
  <2> QED BY <1>1, <2>1, <2>2 DEF Inv, SizeCounts, Counted
<1> QED BY <1>2, <1>3, <1>4, <1>5 DEF Inv

LEMMA DrainNextInv ==
    ASSUME Inv, NEW t \in Threads, DrainNext(t)
    PROVE  Inv'
<1> DEFINE l == IF size \in {1, 2} THEN "idle" ELSE "pop"
<1>1. /\ pc[t] = "drain" /\ size' = size - 1 /\ deleted' = (deleted \/ size = 1)
      /\ pc' = [pc EXCEPT ![t] = l] /\ arg' = [arg EXCEPT ![t] = Null]
      /\ UNCHANGED <<queue, pushing, orphaned, ahead>>
  BY DEF DrainNext, Goto
<1>2. l \in {"idle", "pop"} /\ l \in Places
  BY DEF Places
<1>3. t \in Counted /\ t \in Drainers
  BY <1>1 DEF Counted, Drainers, InPlaces
<1>4. Cardinality(Counted) >= 1
  BY <1>3, Balance, CountedFinite
<1>5. Cardinality(Counted') = Cardinality(Counted) - 1
  BY <1>1, <1>2, CountedMoves DEF Inv
<1>6. Counted' = Counted \ {t}
  BY <1>1, <1>2 DEF Inv, TypeOK, Counted, InPlaces
<1>7. Cardinality(Counted') = 0 <=> Counted' = {}
  BY <1>6, CountedFinite, FS_RemoveElement, FS_EmptySet
<1>8. size \in Nat /\ size >= 1 /\ size' = Owner + Cardinality(Counted') + Len(queue')
  BY <1>1, <1>4, <1>5, Balance
<1>9. \A u \in Counted' : pc[u] = "push" /\ pc'[u] = "push"
  <2> SUFFICES ASSUME NEW u \in Counted' PROVE pc[u] = "push" /\ pc'[u] = "push"
    OBVIOUS
  <2>1. u \in Threads /\ u # t /\ pc[u] \in {"run", "drain", "push"}
    BY <1>6 DEF Counted, InPlaces
  <2>2. u \notin Drainers
    BY <1>3, <2>1 DEF Inv, Serial
  <2> QED BY <1>1, <2>1, <2>2 DEF Drainers, InPlaces, Inv, TypeOK
<1>10. TypeOK'
  <2>1. deleted' \in BOOLEAN
    BY <1>1
  <2> QED BY <1>1, <1>2, <1>8, <2>1 DEF Inv, TypeOK
<1>11. OneHome'
  <2>1. Null \notin Range(queue)
    BY DEF Inv, TypeOK, Range
  <2>2. pushing' = {arg'[u] : u \in InPlaces({"link"})'}
    BY <1>1, <1>2 DEF Inv, TypeOK, OneHome, InPlaces
  <2> QED BY <1>1, <1>2, <2>1, <2>2 DEF Inv, TypeOK, OneHome
<1>12. Serial'
  <2>1. Drainers' \subseteq Drainers
    BY <1>1, <1>2 DEF Inv, TypeOK, Drainers, InPlaces
  <2> QED BY <2>1 DEF Inv, Serial
<1>13. SizeCounts'
  <2>1. ASSUME InPlaces({"pop"})' # {}
        PROVE  InPlaces({"push"})' # {} \/ queue' # <<>>
    <3>1. l = "pop"
      <4>1. \A u \in Threads : u # t => pc[u] # "pop"
        BY <1>3 DEF Inv, Serial, Drainers, InPlaces
      <4> QED BY <1>1, <2>1, <4>1 DEF Inv, TypeOK, InPlaces
    <3>2. size >= 3
      BY <3>1, <1>8
    <3>3. Cardinality(Counted') # 0 \/ Len(queue) # 0
      BY <1>1, <1>8, <3>2, Balance
    <3>4. CASE Len(queue) # 0
      BY <1>1, <3>4
    <3>5. CASE Cardinality(Counted') # 0
      <4>1. PICK u \in Counted' : TRUE
        BY <1>7, <3>5
      <4> QED BY <1>9, <4>1 DEF Counted, InPlaces
    <3> QED BY <3>3, <3>4, <3>5
  <2> QED BY <1>1, <1>8, <2>1 DEF SizeCounts, Counted, Owner
<1>14. SomeoneDrains'
  <2> SUFFICES ASSUME ~orphaned', Drainers' = {}
               PROVE  queue' = <<>> /\ InPlaces({"push", "link"})' = {}
    BY DEF SomeoneDrains
  <2>1. l = "idle"
    BY <1>1, <1>2 DEF Inv, TypeOK, Drainers, InPlaces
  <2>2. Owner = 1 /\ size \in {1, 2}
    BY <1>1, <2>1, Balance
  <2>3. Cardinality(Counted') = 0 /\ Len(queue) = 0
    BY <1>1, <1>4, <1>5, <2>2, Balance
  <2>4. queue = <<>> /\ Counted' = {}
    BY <1>7, <2>3 DEF Inv, TypeOK
  <2>5. \A u \in Threads : pc[u] # "link"
    BY <2>4 DEF Inv, OneHome, Range
  <2> QED BY <1>1, <1>2, <2>4, <2>5 DEF Counted, InPlaces, Inv, TypeOK
<1>15. DeletedIsEmpty'
  <2> SUFFICES ASSUME deleted' PROVE orphaned' /\ size' = 0
    BY DEF DeletedIsEmpty
  <2>1. ~deleted
    BY <1>8 DEF Inv, DeletedIsEmpty
  <2>2. size = 1
    BY <1>1, <2>1
  <2> QED BY <1>1, <1>4, <2>2, Balance
<1> QED BY <1>10, <1>11, <1>12, <1>13, <1>14, <1>15 DEF Inv

LEMMA DrainPopInv ==
    ASSUME Inv, NEW t \in Threads, DrainPop(t)
    PROVE  Inv'
<1> DEFINE c == Head(queue)
<1>1. /\ pc[t] = "pop" /\ queue # <<>> /\ c \notin pushing /\ queue' = Tail(queue)
      /\ pc' = [pc EXCEPT ![t] = "run"] /\ arg' = [arg EXCEPT ![t] = c]
      /\ UNCHANGED <<size, pushing, orphaned, deleted, ahead>>
  BY DEF DrainPop, Goto, Q!Take, Q!Available
<1>2. /\ queue \in Seq(Callbacks) /\ Len(queue) \in Nat /\ Len(queue) >= 1
      /\ c = queue[1] /\ c \in Callbacks /\ c # Null
  BY <1>1 DEF Inv, TypeOK
<1>3. /\ queue' \in Seq(Callbacks) /\ Len(queue') = Len(queue) - 1
      /\ \A i \in 1..(Len(queue) - 1) : queue'[i] = queue[i + 1]
  BY <1>1, <1>2
<1>4. TypeOK'
  BY <1>1, <1>2, <1>3 DEF Inv, TypeOK, Places
<1>5. Range(queue') = Range(queue) \ {c} /\ c \in Range(queue)
  <2>1. \A i \in 2..Len(queue) : queue[i] # c
    BY <1>2 DEF Inv, OneHome
  <2>2. DOMAIN queue = 1..Len(queue) /\ DOMAIN queue' = 1..Len(queue')
    BY <1>2, <1>3
  <2>3. ASSUME NEW x \in Range(queue') PROVE x \in Range(queue) \ {c}
    <3>1. PICK i \in 1..(Len(queue) - 1) : x = queue'[i]
      BY <1>3, <2>2, <2>3 DEF Range
    <3>2. i + 1 \in 2..Len(queue) /\ i + 1 \in DOMAIN queue /\ x = queue[i + 1]
      BY <1>2, <1>3, <2>2, <3>1
    <3> QED BY <2>1, <3>2 DEF Range
  <2>4. ASSUME NEW x \in Range(queue), x # c PROVE x \in Range(queue')
    <3>1. PICK i \in 1..Len(queue) : x = queue[i]
      BY <2>2 DEF Range
    <3>2. i # 1
      BY <1>2, <2>4, <3>1
    <3>3. i - 1 \in DOMAIN queue' /\ queue'[i - 1] = x
      BY <1>2, <1>3, <2>2, <3>1, <3>2
    <3> QED BY <3>3 DEF Range
  <2>5. c \in Range(queue)
    BY <1>2, <2>2 DEF Range
  <2> QED BY <2>3, <2>4, <2>5
<1>6. \A u \in Threads : arg[u] # c
  <2> SUFFICES ASSUME NEW u \in Threads, arg[u] = c PROVE FALSE
    OBVIOUS
  <2>1. pc[u] = "link"
    BY <1>5 DEF Inv, OneHome
  <2> QED BY <1>1, <2>1 DEF Inv, OneHome, InPlaces
<1>7. OneHome'
  <2>1. \A i, j \in 1..Len(queue') : queue'[i] = queue'[j] => i = j
    <3> SUFFICES ASSUME NEW i \in 1..Len(queue'), NEW j \in 1..Len(queue'),
                        queue'[i] = queue'[j]
                 PROVE  i = j
      OBVIOUS
    <3>1. /\ i + 1 \in 1..Len(queue) /\ j + 1 \in 1..Len(queue)
          /\ queue[i + 1] = queue[j + 1]
      BY <1>2, <1>3
    <3>2. i + 1 = j + 1
      BY <3>1 DEF Inv, OneHome
    <3> QED BY <1>2, <1>3, <3>2
  <2>2. \A u \in Threads : arg'[u] \in Range(queue)' <=> pc'[u] = "link"
    BY <1>1, <1>2, <1>5, <1>6 DEF Inv, TypeOK, OneHome
  <2>3. pushing' = {arg'[u] : u \in InPlaces({"link"})'}
    BY <1>1 DEF Inv, TypeOK, OneHome, InPlaces
  <2>4. \A u \in Threads : arg'[u] = Null <=> pc'[u] \in {"idle", "drain", "pop"}
    BY <1>1, <1>2 DEF Inv, TypeOK, OneHome
  <2>5. \A u, v \in Threads : arg'[u] = arg'[v] /\ arg'[u] # Null => u = v
    BY <1>1, <1>6 DEF Inv, TypeOK, OneHome
  <2> QED BY <2>1, <2>2, <2>3, <2>4, <2>5 DEF OneHome
<1>8. Serial' /\ SomeoneDrains' /\ DeletedIsEmpty'
  <2>1. Drainers' = Drainers /\ Drainers # {}
    BY <1>1 DEF Inv, TypeOK, Drainers, InPlaces
  <2> QED BY <1>1, <2>1 DEF Inv, Serial, SomeoneDrains, DeletedIsEmpty
<1>9. SizeCounts'
  <2>1. Cardinality(Counted') = Cardinality(Counted) + 1
    BY <1>1, CountedMoves DEF Inv, Places
  <2>2. size' = Owner + Cardinality(Counted') + Len(queue')
    BY <1>1, <1>3, <2>1, Balance
  <2>3. InPlaces({"pop"})' = {}
    BY <1>1 DEF Inv, TypeOK, Serial, Drainers, InPlaces
  <2> QED BY <1>1, <2>2, <2>3 DEF SizeCounts, Counted, Owner
<1> QED BY <1>4, <1>7, <1>8, <1>9 DEF Inv

LEMMA OrphanInv ==
    ASSUME Inv, Orphan
    PROVE  Inv'
<1>1. /\ ~orphaned /\ orphaned' = TRUE /\ size' = size - 1 /\ deleted' = (size = 1)
      /\ UNCHANGED <<queue, pushing, pc, arg, ahead>>
  BY DEF Orphan
<1>2. Owner = 1 /\ size >= 1 /\ size' = Cardinality(Counted) + Len(queue)
  BY <1>1, Balance
<1>3. TypeOK'
  <2>1. deleted' \in BOOLEAN /\ size' \in Nat
    BY <1>1, <1>2, Balance
  <2> QED BY <1>1, <2>1 DEF Inv, TypeOK
<1>4. OneHome' /\ Serial' /\ SomeoneDrains'
  BY <1>1 DEF Inv, OneHome, Serial, SomeoneDrains, Drainers, InPlaces, Range
<1>5. SizeCounts'
  <2>1. Counted' = Counted /\ InPlaces({"pop"})' = InPlaces({"pop"})
        /\ InPlaces({"push"})' = InPlaces({"push"})
    BY <1>1 DEF Counted, InPlaces
  <2>2. size' = (IF orphaned' THEN 0 ELSE 1) + Cardinality(Counted') + Len(queue')
    BY <1>1, <1>2, <2>1, Balance
  <2> QED BY <1>1, <2>1, <2>2 DEF Inv, SizeCounts, Counted
<1>6. DeletedIsEmpty'
  <2> SUFFICES ASSUME deleted' PROVE orphaned' /\ size' = 0
    BY DEF DeletedIsEmpty
  <2>1. size = 1
    BY <1>1
  <2> QED BY <1>1, <2>1
<1> QED BY <1>3, <1>4, <1>5, <1>6 DEF Inv

LEMMA NextInv == Inv /\ [Next]_vars => Inv'
<1> SUFFICES ASSUME Inv, [Next]_vars PROVE Inv'
  OBVIOUS
<1>1. CASE Next
  BY <1>1, RunNowInv, RunLaterInv, PushClaimInv, PushLinkInv, CallbackDoneInv,
     DrainNextInv, DrainPopInv, OrphanInv DEF Next, ThreadStep
<1>2. CASE UNCHANGED vars
  BY <1>2 DEF vars, Inv, TypeOK, OneHome, Serial, SizeCounts, SomeoneDrains,
              DeletedIsEmpty, Drainers, InPlaces, Range
<1> QED BY <1>1, <1>2

HIDE WorkSerializerAssumption

-----------------------------------------------------------------------------
(* WorkSerializer as a SerialExecutor                                      *)

\* What is ahead of a callback is in execution or waits in front of it.
WsOrdered ==
    /\ \A c \in Callbacks : c \in Executing \/ c \notin InHand => ahead[c] = {}
    /\ \A t \in Threads : pc[t] = "push" => ahead[arg[t]] \subseteq Executing \cup Waiting
    /\ InOrder(queue, Executing, ahead)

WsPhases == [c \in Callbacks |-> Phase(c)]

\* A step changes the phase of one callback at most.
LEMMA WsPhaseMove ==
    ASSUME NEW c \in Callbacks,
           \A d \in Callbacks : d # c =>
              /\ d \in Executing' <=> d \in Executing
              /\ d \in Waiting' <=> d \in Waiting
              /\ d \in InHand' <=> d \in InHand
    PROVE  WsPhases' = [WsPhases EXCEPT ![c] = Phase(c)'] /\ WsPhases[c] = Phase(c)
<1>1. \A d \in Callbacks : d # c => Phase(d)' = Phase(d)
  BY DEF Phase
<1>2. WsPhases' = [d \in Callbacks |-> Phase(d)']
  BY DEF WsPhases
<1> HIDE DEF Phase
<1> QED BY <1>1, <1>2 DEF WsPhases

LEMMA WsPhaseStay ==
    ASSUME Executing' = Executing, Waiting' = Waiting,
           \A d \in Callbacks : d \in InHand' <=> d \in InHand
    PROVE  WsPhases' = WsPhases
<1>1. \A d \in Callbacks : Phase(d)' = Phase(d)
  BY DEF Phase
<1>2. WsPhases' = [d \in Callbacks |-> Phase(d)']
  BY DEF WsPhases
<1> QED BY <1>1, <1>2 DEF WsPhases

\* Where callbacks are.
LEMMA WsHomes ==
    ASSUME Inv
    PROVE  /\ Executing \subseteq Callbacks /\ Waiting \subseteq Callbacks
           /\ Executing \subseteq InHand /\ Range(queue) \subseteq InHand
           /\ Range(queue) \subseteq Callbacks
           /\ \A t \in Threads : pc[t] = "run" => arg[t] \in Executing
           /\ \A c \in Executing : c \notin Range(queue)
           /\ \A t \in Threads : pc[t] \in {"push", "link"} => arg[t] \notin Executing
           /\ \A t \in Threads : pc[t] \in {"push", "link", "run"} => arg[t] \in Callbacks
<1>1. /\ \A t \in Threads : pc[t] \in {"push", "link", "run"} => arg[t] \in Callbacks
      /\ Range(queue) \subseteq Callbacks
  BY DEF Inv, TypeOK, OneHome, Range
<1>2. \A t \in Threads : pc[t] = "run" => arg[t] \in Executing
  BY DEF Executing
<1>3. ASSUME NEW c \in Executing
      PROVE  /\ c \in Callbacks /\ c \in InHand /\ c \notin Range(queue)
             /\ \A t \in Threads : pc[t] \in {"push", "link"} => arg[t] # c
  <2>1. PICK u \in Threads : pc[u] = "run" /\ c = arg[u]
    BY <1>3 DEF Executing
  <2> QED BY <1>1, <2>1 DEF Inv, OneHome, InHand
<1> QED BY <1>1, <1>2, <1>3 DEF Waiting, InHand

LEMMA WsRunNow ==
    ASSUME Inv, Inv', WsOrdered, NEW t \in Threads, NEW c \in Callbacks, RunNow(t, c)
    PROVE  WsOrdered' /\ SerialStep(WsPhases, ahead, WsPhases', ahead')
<1>1. /\ pc[t] = "idle" /\ c \notin InHand /\ ~orphaned /\ size = 1
      /\ pc' = [pc EXCEPT ![t] = "run"] /\ arg' = [arg EXCEPT ![t] = c]
      /\ queue' = queue /\ pushing' = pushing /\ ahead' = ahead
  BY DEF RunNow, Goto
<1>2. queue = <<>> /\ \A u \in Threads : pc[u] = "idle"
  BY <1>1, OnlyOwner
<1>3. Range(queue) = {} /\ \A u \in Threads : arg[u] = Null
  BY <1>2 DEF Inv, OneHome, Range
<1>4. Executing = {} /\ Waiting = {} /\ \A d \in Callbacks : d \notin InHand
  BY <1>2, <1>3, WorkSerializerAssumption DEF Executing, Waiting, InHand
<1>5. \A u \in Threads : /\ pc'[u] = "run" <=> u = t
                         /\ arg'[u] = IF u = t THEN c ELSE Null
  BY <1>1, <1>2, <1>3 DEF Inv, TypeOK
<1>6. Range(queue') = {} /\ Executing' = {c} /\ Waiting' = {}
  BY <1>1, <1>3, <1>5 DEF Executing, Waiting
<1>7. \A d \in Callbacks : d \in InHand' <=> d = c
  BY <1>5, <1>6, WorkSerializerAssumption DEF InHand
<1>8. WsOrdered'
  BY <1>1, <1>2, <1>4, <1>5, <1>7 DEF WsOrdered, InOrder, Inv, TypeOK
<1>9. WsPhases' = [WsPhases EXCEPT ![c] = "running"] /\ \A d \in Callbacks : WsPhases[d] = "idle"
  <2>1. Phase(c)' = "running" /\ \A d \in Callbacks : Phase(d) = "idle"
    BY <1>4, <1>6 DEF Phase
  <2>2. WsPhases' = [WsPhases EXCEPT ![c] = Phase(c)']
    BY <1>4, <1>6, <1>7, WsPhaseMove
  <2> QED BY <2>1, <2>2 DEF WsPhases
<1> QED BY <1>1, <1>8, <1>9 DEF SerialStep

LEMMA WsRunLater ==
    ASSUME Inv, Inv', WsOrdered, NEW t \in Threads, NEW c \in Callbacks, RunLater(t, c)
    PROVE  WsOrdered' /\ SerialStep(WsPhases, ahead, WsPhases', ahead')
<1>1. /\ pc[t] = "idle" /\ c \notin InHand
      /\ pc' = [pc EXCEPT ![t] = "push"] /\ arg' = [arg EXCEPT ![t] = c]
      /\ queue' = queue /\ pushing' = pushing
      /\ ahead' = [ahead EXCEPT ![c] = Executing \cup Waiting]
  BY DEF RunLater, Goto
<1>2. /\ pc'[t] = "push" /\ \A u \in Threads : u # t => pc'[u] = pc[u] /\ arg'[u] = arg[u]
      /\ arg'[t] = c /\ arg[t] = Null
  BY <1>1 DEF Inv, TypeOK, OneHome
<1>3. Range(queue') = Range(queue) /\ Waiting' = Waiting
  BY <1>1 DEF Waiting
<1>4. Executing' = Executing
  BY <1>1, <1>2 DEF Executing
<1>5. \A d \in Callbacks : d \in InHand' <=> d \in InHand \/ d = c
  BY <1>2, <1>3, WorkSerializerAssumption DEF InHand
<1>6. c \notin Executing /\ c \notin Waiting /\ c \notin Range(queue)
  BY <1>1, WsHomes DEF Waiting
<1>7. ahead'[c] = Executing \cup Waiting /\ \A d \in Callbacks : d # c => ahead'[d] = ahead[d]
  BY <1>1 DEF Inv, TypeOK
<1>8. WsOrdered'
  <2>1. \A x \in Range(queue) : \A d \in ahead'[x] :
           d \in ahead[x] /\ (d \in Executing => d \in Executing')
    BY <1>4, <1>6, <1>7, WsHomes
  <2>2. InOrder(queue, Executing, ahead) /\ queue \in Seq(Callbacks)
    BY DEF WsOrdered, Inv, TypeOK
  <2>3. InOrder(queue, Executing', ahead')
    BY <2>1, <2>2, OrderKept
  <2>4. \A u \in Threads : pc'[u] = "push" => ahead'[arg'[u]] \subseteq Executing \cup Waiting
    <3> SUFFICES ASSUME NEW u \in Threads, pc'[u] = "push", u # t
                 PROVE  ahead'[arg'[u]] \subseteq Executing \cup Waiting
      BY <1>2, <1>7
    <3>1. pc[u] = "push" /\ arg'[u] = arg[u] /\ arg[u] \in Callbacks /\ arg[u] # c
      BY <1>1, <1>2, WsHomes DEF InHand
    <3> QED BY <1>7, <3>1 DEF WsOrdered
  <2>5. \A d \in Callbacks : d \in Executing' \/ d \notin InHand' => ahead'[d] = {}
    BY <1>4, <1>5, <1>6, <1>7 DEF WsOrdered
  <2> QED BY <1>1, <1>3, <1>4, <2>3, <2>4, <2>5 DEF WsOrdered
<1>9. WsPhases' = [WsPhases EXCEPT ![c] = "calling"] /\ WsPhases[c] = "idle"
  <2>1. Phase(c)' = "calling" /\ Phase(c) = "idle"
    BY <1>1, <1>3, <1>4, <1>5, <1>6 DEF Phase
  <2>2. WsPhases' = [WsPhases EXCEPT ![c] = Phase(c)'] /\ WsPhases[c] = Phase(c)
    BY <1>3, <1>4, <1>5, WsPhaseMove
  <2> QED BY <2>1, <2>2
<1>10. {v \in Callbacks : WsPhases[v] \in {"waiting", "running"}} = Executing \cup Waiting
  BY WsHomes DEF WsPhases, Phase
<1> QED BY <1>1, <1>8, <1>9, <1>10 DEF SerialStep

LEMMA WsPushClaim ==
    ASSUME Inv, Inv', WsOrdered, NEW t \in Threads, PushClaim(t)
    PROVE  WsOrdered' /\ SerialStep(WsPhases, ahead, WsPhases', ahead')
<1> DEFINE c == arg[t]
<1>1. /\ pc[t] = "push" /\ queue' = Append(queue, c) /\ pushing' = pushing \cup {c}
      /\ pc' = [pc EXCEPT ![t] = "link"] /\ arg' = arg /\ ahead' = ahead
  BY DEF PushClaim, Goto, Q!Claim, Inv, TypeOK
<1>2. /\ c \in Callbacks /\ c \notin Range(queue) /\ queue \in Seq(Callbacks)
      /\ ahead[c] \subseteq Executing \cup Waiting
      /\ pc'[t] = "link" /\ \A u \in Threads : u # t => pc'[u] = pc[u]
  BY <1>1, WsHomes DEF Inv, TypeOK, OneHome, WsOrdered
<1>3. Range(queue') = Range(queue) \cup {c}
  BY <1>1, <1>2, AppendFacts
<1>4. Executing' = Executing
  BY <1>1, <1>2 DEF Executing
<1>5. Waiting' = Waiting
  BY <1>1, <1>2, <1>3 DEF Waiting
<1>6. InHand' = InHand
  BY <1>1, <1>3 DEF InHand
<1>7. WsOrdered'
  <2>1. InOrder(queue', Executing, ahead)
    <3>1. ahead[c] \subseteq Executing \cup Range(queue)
      BY <1>2 DEF Waiting
    <3> QED BY <1>1, <1>2, <3>1, OrderAppend DEF WsOrdered
  <2> QED BY <1>1, <1>2, <1>4, <1>5, <1>6, <2>1 DEF WsOrdered
<1>8. WsPhases' = WsPhases
  BY <1>4, <1>5, <1>6, WsPhaseStay
<1> QED BY <1>1, <1>7, <1>8 DEF SerialStep

LEMMA WsPushLink ==
    ASSUME Inv, Inv', WsOrdered, NEW t \in Threads, PushLink(t)
    PROVE  WsOrdered' /\ SerialStep(WsPhases, ahead, WsPhases', ahead')
<1>0. PICK c \in Callbacks : c = arg[t]
  BY WsHomes DEF PushLink
<1>1. /\ pc[t] = "link" /\ pushing' = pushing \ {c} /\ queue' = queue
      /\ pc' = [pc EXCEPT ![t] = "idle"] /\ arg' = [arg EXCEPT ![t] = Null] /\ ahead' = ahead
  BY <1>0 DEF PushLink, Goto, Q!Publish
<1>2. /\ c = arg[t] /\ c \in Range(queue) /\ c \in pushing /\ c \notin Executing
      /\ c \in InHand
  BY <1>0, <1>1, WsHomes DEF Inv, OneHome, InPlaces
<1>3. /\ pc'[t] = "idle" /\ arg'[t] = Null
      /\ \A u \in Threads : u # t => pc'[u] = pc[u] /\ arg'[u] = arg[u]
  BY <1>1 DEF Inv, TypeOK
<1>4. Executing' = Executing
  BY <1>1, <1>3 DEF Executing
<1>5. Range(queue') = Range(queue) /\ Waiting' = Waiting \cup {c}
  BY <1>1, <1>2 DEF Waiting
<1>6. \A d \in Callbacks : d \in InHand' <=> d \in InHand
  BY <1>2, <1>3, <1>5, WorkSerializerAssumption DEF InHand
<1>7. WsOrdered'
  BY <1>1, <1>3, <1>4, <1>5, <1>6 DEF WsOrdered
<1>8. WsPhases' = [WsPhases EXCEPT ![c] = "waiting"] /\ WsPhases[c] = "calling"
  <2>1. Phase(c)' = "waiting" /\ Phase(c) = "calling"
    BY <1>2, <1>4, <1>5 DEF Phase, Waiting
  <2>2. WsPhases' = [WsPhases EXCEPT ![c] = Phase(c)'] /\ WsPhases[c] = Phase(c)
    BY <1>2, <1>4, <1>5, <1>6, WsPhaseMove
  <2> QED BY <2>1, <2>2
<1> QED BY <1>1, <1>2, <1>7, <1>8 DEF SerialStep

\* While a thread drains it alone executes.
LEMMA WsAlone ==
    ASSUME Inv, NEW t \in Drainers
    PROVE  Executing = IF pc[t] = "run" THEN {arg[t]} ELSE {}
BY DEF Inv, Serial, Drainers, InPlaces, Executing

LEMMA WsCallbackDone ==
    ASSUME Inv, Inv', WsOrdered, NEW t \in Threads, CallbackDone(t)
    PROVE  WsOrdered' /\ SerialStep(WsPhases, ahead, WsPhases', ahead')
<1>0. PICK c \in Callbacks : c = arg[t]
  BY WsHomes DEF CallbackDone
<1>1. /\ pc[t] = "run" /\ ahead' = [d \in Callbacks |-> ahead[d] \ {c}]
      /\ pc' = [pc EXCEPT ![t] = "drain"] /\ arg' = [arg EXCEPT ![t] = Null]
      /\ queue' = queue /\ pushing' = pushing
  BY <1>0 DEF CallbackDone, Goto
<1>2. /\ c = arg[t] /\ c \notin Range(queue) /\ Executing = {c}
      /\ \A u \in Threads : u # t => arg[u] # c
  BY <1>0, <1>1, WsHomes, WsAlone DEF Drainers, InPlaces, Inv, OneHome
<1>3. /\ pc'[t] = "drain" /\ arg'[t] = Null
      /\ \A u \in Threads : u # t => pc'[u] = pc[u] /\ arg'[u] = arg[u]
  BY <1>1 DEF Inv, TypeOK
<1>4. Executing' = {}
  <2>1. t \in Drainers' /\ pc'[t] # "run"
    BY <1>3 DEF Drainers, InPlaces
  <2>2. \A u \in Threads : pc'[u] # "run"
    BY <2>1 DEF Inv, Serial, Drainers, InPlaces
  <2> QED BY <2>2 DEF Executing
<1>5. Range(queue') = Range(queue) /\ Waiting' = Waiting /\ c \notin Waiting
  BY <1>1, <1>2 DEF Waiting
<1>6. \A d \in Callbacks : d \in InHand' <=> d \in InHand /\ d # c
  BY <1>2, <1>3, <1>5, WorkSerializerAssumption DEF InHand
<1>7. WsOrdered'
  <2>1. \A x \in Range(queue) : \A d \in ahead'[x] :
           d \in ahead[x] /\ (d \in Executing => d \in Executing')
    BY <1>1, <1>2, WsHomes
  <2>2. InOrder(queue, Executing, ahead) /\ queue \in Seq(Callbacks)
    BY DEF WsOrdered, Inv, TypeOK
  <2>3. InOrder(queue, Executing', ahead')
    BY <2>1, <2>2, OrderKept
  <2>4. \A u \in Threads : pc'[u] = "push" => ahead'[arg'[u]] \subseteq Waiting
    <3> SUFFICES ASSUME NEW u \in Threads, pc'[u] = "push"
                 PROVE  ahead'[arg'[u]] \subseteq Waiting
      OBVIOUS
    <3>1. u # t /\ pc[u] = "push" /\ arg'[u] = arg[u] /\ arg[u] \in Callbacks
      BY <1>3, WsHomes
    <3> QED BY <1>1, <1>2, <3>1 DEF WsOrdered
  <2>5. \A d \in Callbacks : d \in Executing' \/ d \notin InHand' => ahead'[d] = {}
    BY <1>1, <1>2, <1>4, <1>6 DEF WsOrdered
  <2> QED BY <1>1, <1>4, <1>5, <2>3, <2>4, <2>5 DEF WsOrdered
<1>8. WsPhases' = [WsPhases EXCEPT ![c] = "idle"] /\ WsPhases[c] = "running"
  <2>1. Phase(c)' = "idle" /\ Phase(c) = "running"
    BY <1>2, <1>4, <1>5, <1>6 DEF Phase
  <2>2. WsPhases' = [WsPhases EXCEPT ![c] = Phase(c)'] /\ WsPhases[c] = Phase(c)
    BY <1>2, <1>4, <1>5, <1>6, WsPhaseMove
  <2> QED BY <2>1, <2>2
<1> QED BY <1>1, <1>2, <1>7, <1>8 DEF SerialStep

LEMMA WsDrainPop ==
    ASSUME Inv, Inv', WsOrdered, NEW t \in Threads, DrainPop(t)
    PROVE  WsOrdered' /\ SerialStep(WsPhases, ahead, WsPhases', ahead')
<1>0. PICK c \in Callbacks : c = Head(queue)
  BY TailFacts DEF DrainPop, Q!Take, Q!Available, Inv, TypeOK
<1>1. /\ pc[t] = "pop" /\ queue # <<>> /\ c \notin pushing /\ queue' = Tail(queue)
      /\ pc' = [pc EXCEPT ![t] = "run"] /\ arg' = [arg EXCEPT ![t] = c]
      /\ pushing' = pushing /\ ahead' = ahead
  BY <1>0 DEF DrainPop, Goto, Q!Take, Q!Available
<1>2. queue \in Seq(Callbacks) /\ IsInjective(queue) /\ arg[t] = Null
  <2>1. queue \in Seq(Callbacks) /\ DOMAIN queue = 1 .. Len(queue)
    BY DEF Inv, TypeOK
  <2>2. \A i, j \in 1 .. Len(queue) : queue[i] = queue[j] => i = j
    BY DEF Inv, OneHome
  <2> QED BY <1>1, <2>1, <2>2 DEF Inv, OneHome, IsInjective
<1>3. /\ c \in Callbacks /\ c \in Range(queue) /\ Range(queue') = Range(queue) \ {c}
  BY <1>0, <1>1, <1>2, TailFacts, TailInjective
<1>4. Executing = {}
  BY <1>1, WsAlone DEF Drainers, InPlaces
<1>5. ahead[c] = {} /\ InOrder(queue', {c}, ahead)
  <2>1. InOrder(queue, {}, ahead)
    BY <1>4 DEF WsOrdered
  <2>2. /\ ahead[Head(queue)] \subseteq {}
        /\ InOrder(Tail(queue), {} \cup {Head(queue)}, ahead)
    BY <1>1, <1>2, <2>1, OrderTail
  <2> QED BY <1>0, <1>1, <2>2
<1>6. /\ pc'[t] = "run" /\ arg'[t] = c
      /\ \A u \in Threads : u # t => pc'[u] = pc[u] /\ arg'[u] = arg[u]
  BY <1>1 DEF Inv, TypeOK
<1>7. Executing' = {c}
  BY <1>6, WsAlone DEF Drainers, InPlaces, Executing, Inv, Serial
<1>8. Waiting' = Waiting \ {c} /\ c \in Waiting
  BY <1>1, <1>3 DEF Waiting
<1>9. \A d \in Callbacks : d \in InHand' <=> d \in InHand
  BY <1>2, <1>3, <1>6, WorkSerializerAssumption DEF InHand
<1>10. WsOrdered'
  <2>1. \A u \in Threads : pc'[u] = "push" => ahead[arg'[u]] \subseteq {c} \cup Waiting'
    BY <1>4, <1>6, <1>8 DEF WsOrdered
  <2> QED BY <1>1, <1>5, <1>7, <1>9, <2>1 DEF WsOrdered
<1>11. WsPhases' = [WsPhases EXCEPT ![c] = "running"] /\ WsPhases[c] = "waiting"
  <2>1. Phase(c)' = "running" /\ Phase(c) = "waiting"
    BY <1>4, <1>7, <1>8 DEF Phase
  <2>2. WsPhases' = [WsPhases EXCEPT ![c] = Phase(c)'] /\ WsPhases[c] = Phase(c)
    BY <1>3, <1>4, <1>7, <1>8, <1>9, WsPhaseMove
  <2> QED BY <2>1, <2>2
<1>12. \A d \in Callbacks : WsPhases[d] # "running"
  BY <1>4 DEF WsPhases, Phase
<1> QED BY <1>1, <1>3, <1>5, <1>10, <1>11, <1>12 DEF SerialStep

\* The steps that leave every callback where it is.
LEMMA WsOthers ==
    ASSUME Inv, Inv', WsOrdered,
           (\E t \in Threads : DrainNext(t)) \/ Orphan \/ UNCHANGED vars
    PROVE  WsOrdered' /\ SerialStep(WsPhases, ahead, WsPhases', ahead')
<1>1. /\ queue' = queue /\ pushing' = pushing /\ ahead' = ahead
      /\ \A u \in Threads : arg'[u] = arg[u] /\ (pc'[u] \in {"run", "push"} <=> pc[u] \in {"run", "push"})
      /\ \A u \in Threads : pc[u] \in {"run", "push"} => pc'[u] = pc[u]
  <2>1. CASE \E t \in Threads : DrainNext(t)
    <3>1. PICK t \in Threads : DrainNext(t)
      BY <2>1
    <3>2. /\ pc[t] = "drain" /\ queue' = queue /\ pushing' = pushing /\ ahead' = ahead
          /\ \E l \in {"idle", "pop"} : pc' = [pc EXCEPT ![t] = l]
          /\ arg' = [arg EXCEPT ![t] = Null]
      BY <3>1 DEF DrainNext, Goto
    <3>3. arg[t] = Null
      BY <3>2 DEF Inv, OneHome
    <3> QED BY <3>2, <3>3 DEF Inv, TypeOK
  <2>2. CASE Orphan \/ UNCHANGED vars
    BY <2>2 DEF Orphan, vars
  <2> QED BY <2>1, <2>2
<1>2. \A u \in Threads : /\ pc'[u] = "run" <=> pc[u] = "run"
                         /\ pc'[u] = "push" <=> pc[u] = "push"
  BY <1>1
<1>3. Executing' = Executing
  BY <1>1, <1>2 DEF Executing
<1>4. Range(queue') = Range(queue) /\ Waiting' = Waiting
  BY <1>1 DEF Waiting
<1>5. InHand' = InHand
  BY <1>1, <1>4 DEF InHand
<1>6. WsOrdered'
  BY <1>1, <1>2, <1>3, <1>4, <1>5 DEF WsOrdered
<1>7. WsPhases' = WsPhases
  BY <1>3, <1>4, <1>5, WsPhaseStay
<1> QED BY <1>1, <1>6, <1>7 DEF SerialStep

LEMMA WsStep ==
    ASSUME Inv, WsOrdered, Next \/ UNCHANGED vars
    PROVE  Inv' /\ WsOrdered' /\ SerialStep(WsPhases, ahead, WsPhases', ahead')
<1>1. Inv'
  BY NextInv
<1> QED
  BY <1>1, WsRunNow, WsRunLater, WsPushClaim, WsPushLink, WsCallbackDone, WsDrainPop,
     WsOthers DEF Next, ThreadStep

LEMMA WsInit == Init => Inv /\ WsOrdered
BY InitInv DEF Init, WsOrdered, InOrder

-----------------------------------------------------------------------------
(* Theorems                                                                *)

\* Every conjunct of the inductive invariant holds of every behaviour.
THEOREM Invariance == Spec => []Inv
<1> QED BY InitInv, NextInv, PTL DEF Spec

\* Callbacks are executed serially, whatever the threads do.
THEOREM SerialHolds == Spec => []Serial
<1>1. Inv => Serial
  BY DEF Inv
<1> QED BY <1>1, Invariance, PTL

\* As long as the serializer has its owner, no callback is left without a
\* thread that drains the queue.
THEOREM NoLostHandOff == Spec => []SomeoneDrains
<1>1. Inv => SomeoneDrains
  BY DEF Inv
<1> QED BY <1>1, Invariance, PTL

\* The object is never used after "delete this", and its queue is empty then.
THEOREM DeleteIsSafe == Spec => []NoUseAfterDelete
<1>1. Inv => NoUseAfterDelete
  <2> SUFFICES ASSUME Inv, deleted
               PROVE  queue = <<>> /\ InPlaces(Places \ {"idle"}) = {}
    BY DEF NoUseAfterDelete
  <2>1. orphaned /\ size = 0
    BY DEF Inv, DeletedIsEmpty
  <2>2. queue = <<>> /\ \A t \in Threads : pc[t] = "idle"
    BY <2>1, OnlyOwner
  <2> QED BY <2>2 DEF InPlaces, Places
<1> QED BY <1>1, Invariance, PTL

-----------------------------------------------------------------------------
(* CallCombiner                                                            *)

CcPlaces == {"idle", "push", "link", "waiting", "held"}

\* The queue holds the closures whose push has claimed a place, once each.
CcQueued ==
    /\ IsInjective(ccQueue)
    /\ Range(ccQueue) = CC!In({"link", "waiting"})
    /\ ccPushing = CC!In({"link"})

\* size_ counts the holder, the closures counted but not pushed yet and those in
\* the queue; while it is not 0 one closure holds the combiner or one Stop is
\* about to pop the next.
CcCounted ==
    /\ ccSize = Cardinality(CC!In({"held", "push"})) + Len(ccQueue)
    /\ ccPopping + Cardinality(CC!In({"held"})) = One(ccSize > 0)

\* What is ahead of a closure holds the combiner or waits in front of it.
CcOrdered ==
    /\ \A k \in Callbacks : ccPc[k] \in {"idle", "held"} => ccAhead[k] = {}
    /\ \A k \in Callbacks : ccPc[k] = "push" => ccAhead[k] \subseteq CC!In({"waiting", "held"})
    /\ InOrder(ccQueue, CC!In({"held"}), ccAhead)

CcInv == CC!TypeOK /\ CcQueued /\ CcCounted /\ CcOrdered

LEMMA Finites == IsFiniteSet(Callbacks)
<1>1. CO!IsFiniteSet(Callbacks) <=> IsFiniteSet(Callbacks)
  BY Zenon DEF CO!IsFiniteSet, IsFiniteSet
<1> QED BY <1>1, ExecutorsAssumption DEF CO!CombinerConstants

CcHeld == CC!In({"held"})
CcActive == CC!In({"held", "push"})
nHeld == Cardinality(CcHeld)
nActive == Cardinality(CcActive)

LEMMA CcNumbers ==
    /\ nActive \in Nat /\ (nActive = 0 <=> CcActive = {})
    /\ nHeld \in Nat /\ (nHeld = 0 <=> CcHeld = {})
    /\ \A k \in CcHeld : nHeld >= 1 /\ (nHeld = 1 => CcHeld = {k})
    /\ \A k \in CcActive : nActive >= 1
<1>1. CcActive \in SUBSET Callbacks /\ CcHeld \in SUBSET Callbacks
  BY DEF CC!In, CcActive, CcHeld
<1> QED BY <1>1, Finites, Finite DEF nActive, nHeld

\* One closure goes from one place to another.
LEMMA CcMove ==
    ASSUME CC!TypeOK, NEW k \in Callbacks, NEW l \in CcPlaces, CC!Goto(k, l)
    PROVE  /\ ccPc' \in [Callbacks -> CcPlaces]
           /\ ccPc'[k] = l /\ \A j \in Callbacks : j # k => ccPc'[j] = ccPc[j]
           /\ CcHeld' = IF l = "held" THEN CcHeld \cup {k} ELSE CcHeld \ {k}
           /\ nActive' = nActive - One(ccPc[k] \in {"held", "push"})
                            + One(l \in {"held", "push"})
           /\ nHeld' = nHeld - One(ccPc[k] = "held") + One(l = "held")
<1>1. /\ ccPc' \in [Callbacks -> CcPlaces]
      /\ ccPc'[k] = l /\ \A j \in Callbacks : j # k => ccPc'[j] = ccPc[j]
  BY DEF CC!Goto, CC!TypeOK, CcPlaces
<1>2. /\ CcHeld' = IF l = "held" THEN CcHeld \cup {k} ELSE CcHeld \ {k}
      /\ CcActive' = IF l \in {"held", "push"} THEN CcActive \cup {k} ELSE CcActive \ {k}
      /\ k \in CcHeld <=> ccPc[k] = "held"
      /\ k \in CcActive <=> ccPc[k] \in {"held", "push"}
  BY <1>1 DEF CC!In, CcHeld, CcActive
<1>3. CcActive \in SUBSET Callbacks /\ CcHeld \in SUBSET Callbacks
  BY DEF CC!In, CcActive, CcHeld
<1>4. /\ Cardinality(CcHeld \cup {k}) = nHeld + 1 - One(k \in CcHeld)
      /\ Cardinality(CcHeld \ {k}) = nHeld - One(k \in CcHeld)
      /\ Cardinality(CcActive \cup {k}) = nActive + 1 - One(k \in CcActive)
      /\ Cardinality(CcActive \ {k}) = nActive - One(k \in CcActive)
  BY <1>3, Finites, Moves DEF nHeld, nActive
<1>5. nHeld' = nHeld - One(ccPc[k] = "held") + One(l = "held")
  BY <1>2, <1>4, CcNumbers DEF One, nHeld
<1>6. nActive' = nActive - One(ccPc[k] \in {"held", "push"}) + One(l \in {"held", "push"})
  BY <1>2, <1>4, CcNumbers DEF One, nActive
<1> QED BY <1>1, <1>2, <1>5, <1>6

\* The counters in terms of these numbers.
LEMMA CcBalance ==
    CcCounted <=> /\ ccSize = nActive + Len(ccQueue)
                  /\ ccPopping + nHeld = One(ccSize > 0)
BY DEF CcCounted, nActive, nHeld, CcActive, CcHeld

\* Places as phases of SerialExecutor
CcPhases == [k \in Callbacks |-> CC!Phase(k)]
CcPhaseOf(l) ==
    IF l = "held" THEN "running" ELSE IF l \in {"push", "link"} THEN "calling" ELSE l

LEMMA CcPhaseMove ==
    ASSUME CC!TypeOK, NEW k \in Callbacks, NEW l \in CcPlaces, CC!Goto(k, l)
    PROVE  /\ CcPhases' = [CcPhases EXCEPT ![k] = CcPhaseOf(l)]
           /\ CcPhases[k] = CcPhaseOf(ccPc[k])
<1>1. CcPhases' = [j \in Callbacks |-> CC!Phase(j)']
  BY DEF CcPhases
<1>2. \A j \in Callbacks : CC!Phase(j)' = IF j = k THEN CcPhaseOf(l) ELSE CC!Phase(j)
  BY CcMove DEF CC!Phase, CcPhaseOf
<1> QED BY <1>1, <1>2 DEF CcPhases, CC!Phase, CcPhaseOf

LEMMA CcInitInv == CC!Init => CcInv
<1> SUFFICES ASSUME CC!Init PROVE CcInv
  OBVIOUS
<1>1. CC!TypeOK
  <2>1. ccAhead \in [Callbacks -> SUBSET Callbacks] /\ ccQueue \in Seq(Callbacks)
    BY DEF CC!Init
  <2>2. /\ ccPushing \subseteq Callbacks /\ ccSize \in Nat /\ ccPopping \in Nat
        /\ ccPc \in [Callbacks -> CcPlaces]
    BY DEF CC!Init, CcPlaces
  <2> QED BY <2>1, <2>2 DEF CC!TypeOK, CcPlaces
<1>2. /\ CcHeld = {} /\ CcActive = {}
      /\ CC!In({"link", "waiting"}) = {} /\ CC!In({"link"}) = {}
  BY DEF CC!Init, CC!In, CcHeld, CcActive
<1>3. CcQueued
  BY <1>2 DEF CC!Init, CcQueued, IsInjective, Range
<1>4. CcCounted
  <2>1. nHeld = 0 /\ nActive = 0 /\ Len(ccQueue) = 0 /\ ccSize = 0 /\ ccPopping = 0
    BY <1>2, CcNumbers DEF CC!Init
  <2> QED BY <2>1, CcBalance DEF One
<1>5. CcOrdered
  BY DEF CC!Init, CcOrdered, InOrder
<1> QED BY <1>1, <1>3, <1>4, <1>5 DEF CcInv

\* When nothing is counted, nothing is there.
LEMMA CcNothing ==
    ASSUME CcInv, ccSize = 0
    PROVE  ccQueue = <<>> /\ ccPopping = 0 /\ \A k \in Callbacks : ccPc[k] = "idle"
<1>1. Len(ccQueue) \in Nat /\ ccPopping \in Nat
  BY DEF CcInv, CC!TypeOK
<1>2. Len(ccQueue) = 0 /\ nActive = 0 /\ nHeld = 0 /\ ccPopping = 0
  BY <1>1, CcBalance, CcNumbers DEF CcInv, One
<1>3. ccQueue = <<>> /\ CcActive = {}
  BY <1>2, CcNumbers DEF CcInv, CC!TypeOK
<1>4. CC!In({"link", "waiting"}) = {}
  BY <1>3 DEF CcInv, CcQueued, Range
<1> QED BY <1>2, <1>3, <1>4 DEF CcActive, CC!In, CcInv, CC!TypeOK

LEMMA CcStartNowInv ==
    ASSUME CcInv, NEW k \in Callbacks, CC!StartNow(k)
    PROVE  CcInv' /\ SerialStep(CcPhases, ccAhead, CcPhases', ccAhead')
<1>1. /\ ccPc[k] = "idle" /\ ccSize = 0 /\ ccSize' = 1 /\ CC!Goto(k, "held")
      /\ ccQueue' = ccQueue /\ ccPushing' = ccPushing /\ ccPopping' = ccPopping
      /\ ccAhead' = ccAhead
  BY DEF CC!StartNow
<1>2. "held" \in CcPlaces /\ CC!TypeOK
  BY DEF CcPlaces, CcInv
<1>3. ccQueue = <<>> /\ ccPopping = 0 /\ \A j \in Callbacks : ccPc[j] = "idle"
  BY <1>1, CcNothing
<1>4. CC!TypeOK'
  BY <1>1, <1>2, CcMove DEF CC!TypeOK, CcPlaces
<1>5. CcQueued'
  <2>1. /\ CC!In({"link", "waiting"})' = CC!In({"link", "waiting"})
        /\ CC!In({"link"})' = CC!In({"link"})
    BY <1>1, <1>2, CcMove DEF CC!In
  <2> QED BY <1>1, <2>1 DEF CcInv, CcQueued
<1>6. CcCounted'
  <2>1. CcHeld = {} /\ CcActive = {}
    BY <1>3 DEF CcHeld, CcActive, CC!In
  <2>2. nHeld' = 1 /\ nActive' = 1
    BY <1>1, <1>2, <2>1, CcMove, CcNumbers DEF One
  <2>3. Len(ccQueue') = 0
    BY <1>1, <1>3
  <2>4. ccSize' = nActive' + Len(ccQueue') /\ ccPopping' + nHeld' = One(ccSize' > 0)
    BY <1>1, <1>3, <2>2, <2>3 DEF One
  <2> QED BY <2>4 DEF CcCounted, nActive, nHeld, CcActive, CcHeld
<1>7. CcOrdered'
  BY <1>1, <1>2, <1>3, CcMove DEF CcInv, CcOrdered, InOrder
<1>8. SerialStep(CcPhases, ccAhead, CcPhases', ccAhead')
  <2>1. CcPhases' = [CcPhases EXCEPT ![k] = "running"] /\ CcPhases[k] = "idle"
    BY <1>1, <1>2, CcPhaseMove DEF CcPhaseOf
  <2>2. \A j \in Callbacks : CcPhases[j] = "idle"
    BY <1>3 DEF CcPhases, CC!Phase
  <2> QED BY <1>1, <2>1, <2>2 DEF SerialStep
<1> QED BY <1>4, <1>5, <1>6, <1>7, <1>8 DEF CcInv

LEMMA CcStartLaterInv ==
    ASSUME CcInv, NEW k \in Callbacks, CC!StartLater(k)
    PROVE  CcInv' /\ SerialStep(CcPhases, ccAhead, CcPhases', ccAhead')
<1> DEFINE W == CC!In({"waiting", "held"})
<1>1. /\ ccPc[k] = "idle" /\ ccSize # 0 /\ ccSize' = ccSize + 1 /\ CC!Goto(k, "push")
      /\ ccQueue' = ccQueue /\ ccPushing' = ccPushing /\ ccPopping' = ccPopping
      /\ ccAhead' = [ccAhead EXCEPT ![k] = W]
  BY DEF CC!StartLater
<1>2. "push" \in CcPlaces /\ CC!TypeOK /\ ccSize \in Nat
  BY DEF CcPlaces, CcInv, CC!TypeOK
<1>3. W \subseteq Callbacks /\ W' = W
  BY <1>1, <1>2, CcMove DEF CC!In
<1>4. /\ ccAhead'[k] = W /\ \A j \in Callbacks : j # k => ccAhead'[j] = ccAhead[j]
  BY <1>1, <1>2 DEF CC!TypeOK
<1>5. CC!TypeOK'
  BY <1>1, <1>2, <1>3, CcMove DEF CC!TypeOK, CcPlaces
<1>6. CcQueued'
  <2>1. /\ CC!In({"link", "waiting"})' = CC!In({"link", "waiting"})
        /\ CC!In({"link"})' = CC!In({"link"})
    BY <1>1, <1>2, CcMove DEF CC!In
  <2> QED BY <1>1, <2>1 DEF CcInv, CcQueued
<1>7. CcCounted'
  <2>1. nHeld' = nHeld /\ nActive' = nActive + 1
    BY <1>1, <1>2, CcMove, CcNumbers DEF One
  <2>2. ccSize = nActive + Len(ccQueue) /\ ccPopping + nHeld = One(ccSize > 0)
    BY CcBalance DEF CcInv
  <2>3. ccSize' = nActive' + Len(ccQueue') /\ ccPopping' + nHeld' = One(ccSize' > 0)
    <3>1. Len(ccQueue) \in Nat
      BY <1>2 DEF CC!TypeOK
    <3> QED BY <1>1, <1>2, <2>1, <2>2, <3>1, CcNumbers DEF One
  <2> QED BY <2>3 DEF CcCounted, nActive, nHeld, CcActive, CcHeld
<1>8. CcOrdered'
  <2>1. k \notin Range(ccQueue)
    BY <1>1 DEF CcInv, CcQueued, CC!In
  <2>2. CC!In({"held"})' = CC!In({"held"})
    BY <1>1, <1>2, CcMove DEF CC!In
  <2>3. \A x \in Range(ccQueue) : x \in Callbacks /\ x # k
    BY <1>2, <2>1 DEF CC!TypeOK, Range
  <2>4. \A x \in Range(ccQueue) : \A d \in ccAhead'[x] :
           d \in ccAhead[x] /\ (d \in CC!In({"held"}) => d \in CC!In({"held"})')
    BY <1>4, <2>2, <2>3
  <2>5. InOrder(ccQueue, CC!In({"held"}), ccAhead) /\ ccQueue \in Seq(Callbacks)
    BY <1>2 DEF CcInv, CcOrdered, CC!TypeOK
  <2>6. InOrder(ccQueue, CC!In({"held"})', ccAhead')
    BY <2>4, <2>5, OrderKept
  <2>7. ASSUME NEW j \in Callbacks, ccPc'[j] = "push" PROVE ccAhead'[j] \subseteq W'
    BY <1>1, <1>2, <1>3, <1>4, <2>7, CcMove DEF CcInv, CcOrdered
  <2>8. ASSUME NEW j \in Callbacks, ccPc'[j] \in {"idle", "held"} PROVE ccAhead'[j] = {}
    BY <1>1, <1>2, <1>4, <2>8, CcMove DEF CcInv, CcOrdered
  <2> QED BY <1>1, <2>6, <2>7, <2>8 DEF CcOrdered
<1>9. SerialStep(CcPhases, ccAhead, CcPhases', ccAhead')
  <2>1. CcPhases' = [CcPhases EXCEPT ![k] = "calling"] /\ CcPhases[k] = "idle"
    BY <1>1, <1>2, CcPhaseMove DEF CcPhaseOf
  <2>2. {v \in Callbacks : CcPhases[v] \in {"waiting", "running"}} = W
    BY <1>2 DEF CcPhases, CC!Phase, CC!In, CC!TypeOK
  <2> QED BY <1>1, <2>1, <2>2 DEF SerialStep
<1> QED BY <1>5, <1>6, <1>7, <1>8, <1>9 DEF CcInv

LEMMA CcPushClaimInv ==
    ASSUME CcInv, NEW k \in Callbacks, CC!PushClaim(k)
    PROVE  CcInv' /\ SerialStep(CcPhases, ccAhead, CcPhases', ccAhead')
<1>1. /\ ccPc[k] = "push" /\ ccSize' = ccSize /\ CC!Goto(k, "link")
      /\ ccQueue' = Append(ccQueue, k) /\ ccPushing' = ccPushing \cup {k}
      /\ ccPopping' = ccPopping /\ ccAhead' = ccAhead
  BY DEF CC!PushClaim, CC!Q!Claim
<1>2. "link" \in CcPlaces /\ CC!TypeOK /\ ccQueue \in Seq(Callbacks) /\ Len(ccQueue) \in Nat
  BY DEF CcPlaces, CcInv, CC!TypeOK
<1>3. k \notin Range(ccQueue)
  BY <1>1 DEF CcInv, CcQueued, CC!In
<1>4. /\ ccQueue' \in Seq(Callbacks) /\ Len(ccQueue') = Len(ccQueue) + 1
      /\ Range(ccQueue') = Range(ccQueue) \cup {k} /\ IsInjective(ccQueue')
  <2>1. ToSet(ccQueue) = Range(ccQueue)
    BY <1>2 DEF ToSet, Range
  <2> QED BY <1>1, <1>2, <1>3, <2>1, AppendFacts DEF CcInv, CcQueued
<1>5. CC!TypeOK'
  BY <1>1, <1>2, <1>4, CcMove DEF CC!TypeOK, CcPlaces
<1>6. CcQueued'
  <2>1. /\ CC!In({"link", "waiting"})' = CC!In({"link", "waiting"}) \cup {k}
        /\ CC!In({"link"})' = CC!In({"link"}) \cup {k}
    BY <1>1, <1>2, CcMove DEF CC!In
  <2> QED BY <1>1, <1>4, <2>1 DEF CcInv, CcQueued
<1>7. CcCounted'
  <2>1. nHeld' = nHeld /\ nActive' = nActive - 1
    BY <1>1, <1>2, CcMove, CcNumbers DEF One
  <2>2. ccSize = nActive + Len(ccQueue) /\ ccPopping + nHeld = One(ccSize > 0)
    BY CcBalance DEF CcInv
  <2>3. ccSize' = nActive' + Len(ccQueue') /\ ccPopping' + nHeld' = One(ccSize' > 0)
    BY <1>1, <1>2, <1>4, <2>1, <2>2, CcNumbers
  <2> QED BY <2>3 DEF CcCounted, nActive, nHeld, CcActive, CcHeld
<1>8. CcOrdered'
  <2>1. /\ CC!In({"held"})' = CC!In({"held"})
        /\ CC!In({"waiting", "held"})' = CC!In({"waiting", "held"})
    BY <1>1, <1>2, CcMove DEF CC!In
  <2>2. CC!In({"waiting", "held"}) \subseteq CC!In({"held"}) \cup Range(ccQueue)
    BY DEF CcInv, CcQueued, CC!In
  <2>3. ccAhead[k] \subseteq CC!In({"held"}) \cup Range(ccQueue)
    BY <1>1, <2>2 DEF CcInv, CcOrdered
  <2>4. InOrder(ccQueue, CC!In({"held"}), ccAhead)
    BY DEF CcInv, CcOrdered
  <2>5. InOrder(ccQueue', CC!In({"held"})', ccAhead')
    BY <1>1, <1>2, <2>1, <2>3, <2>4, OrderAppend
  <2>6. \A j \in Callbacks : ccPc'[j] # "link" => ccPc'[j] = ccPc[j]
    BY <1>1, <1>2, CcMove
  <2> QED BY <1>1, <2>1, <2>5, <2>6 DEF CcInv, CcOrdered
<1>9. SerialStep(CcPhases, ccAhead, CcPhases', ccAhead')
  <2>1. CcPhases' = [CcPhases EXCEPT ![k] = "calling"] /\ CcPhases[k] = "calling"
    BY <1>1, <1>2, CcPhaseMove DEF CcPhaseOf
  <2>2. CcPhases' = CcPhases
    BY <2>1 DEF CcPhases
  <2> QED BY <1>1, <2>2 DEF SerialStep
<1> QED BY <1>5, <1>6, <1>7, <1>8, <1>9 DEF CcInv

LEMMA CcPushLinkInv ==
    ASSUME CcInv, NEW k \in Callbacks, CC!PushLink(k)
    PROVE  CcInv' /\ SerialStep(CcPhases, ccAhead, CcPhases', ccAhead')
<1>1. /\ ccPc[k] = "link" /\ ccSize' = ccSize /\ CC!Goto(k, "waiting")
      /\ ccQueue' = ccQueue /\ ccPushing' = ccPushing \ {k}
      /\ ccPopping' = ccPopping /\ ccAhead' = ccAhead
  BY DEF CC!PushLink, CC!Q!Publish
<1>2. "waiting" \in CcPlaces /\ CC!TypeOK
  BY DEF CcPlaces, CcInv
<1>3. CC!TypeOK'
  BY <1>1, <1>2, CcMove DEF CC!TypeOK, CcPlaces
<1>4. CcQueued'
  <2>1. /\ CC!In({"link", "waiting"})' = CC!In({"link", "waiting"})
        /\ CC!In({"link"})' = CC!In({"link"}) \ {k}
    BY <1>1, <1>2, CcMove DEF CC!In
  <2> QED BY <1>1, <2>1 DEF CcInv, CcQueued
<1>5. CcCounted'
  <2>1. nHeld' = nHeld /\ nActive' = nActive
    BY <1>1, <1>2, CcMove, CcNumbers DEF One
  <2>2. ccSize = nActive + Len(ccQueue) /\ ccPopping + nHeld = One(ccSize > 0)
    BY CcBalance DEF CcInv
  <2>3. ccSize' = nActive' + Len(ccQueue') /\ ccPopping' + nHeld' = One(ccSize' > 0)
    BY <1>1, <2>1, <2>2
  <2> QED BY <2>3 DEF CcCounted, nActive, nHeld, CcActive, CcHeld
<1>6. CcOrdered'
  <2>1. /\ CC!In({"held"})' = CC!In({"held"})
        /\ CC!In({"waiting", "held"}) \subseteq CC!In({"waiting", "held"})'
    BY <1>1, <1>2, CcMove DEF CC!In
  <2>2. \A j \in Callbacks : ccPc'[j] # "waiting" => ccPc'[j] = ccPc[j]
    BY <1>1, <1>2, CcMove
  <2> QED BY <1>1, <2>1, <2>2 DEF CcInv, CcOrdered
<1>7. SerialStep(CcPhases, ccAhead, CcPhases', ccAhead')
  <2>1. CcPhases' = [CcPhases EXCEPT ![k] = "waiting"] /\ CcPhases[k] = "calling"
    BY <1>1, <1>2, CcPhaseMove DEF CcPhaseOf
  <2> QED BY <1>1, <2>1 DEF SerialStep
<1> QED BY <1>3, <1>4, <1>5, <1>6, <1>7 DEF CcInv

LEMMA CcStopInv ==
    ASSUME CcInv, NEW k \in Callbacks, CC!Stop(k)
    PROVE  CcInv' /\ SerialStep(CcPhases, ccAhead, CcPhases', ccAhead')
<1>1. /\ ccPc[k] = "held" /\ ccSize' = ccSize - 1 /\ CC!Goto(k, "idle")
      /\ ccQueue' = ccQueue /\ ccPushing' = ccPushing
      /\ ccPopping' = IF ccSize > 1 THEN ccPopping + 1 ELSE ccPopping
      /\ ccAhead' = [d \in Callbacks |-> ccAhead[d] \ {k}]
  BY DEF CC!Stop
<1>2. /\ "idle" \in CcPlaces /\ CC!TypeOK /\ ccQueue \in Seq(Callbacks)
      /\ ccPopping \in Nat /\ ccSize \in Nat /\ Len(ccQueue) \in Nat
  BY DEF CcPlaces, CcInv, CC!TypeOK
<1>3. /\ ccSize = nActive + Len(ccQueue) /\ ccPopping + nHeld = One(ccSize > 0)
      /\ nHeld >= 1 /\ nActive >= 1 /\ nHeld \in Nat /\ nActive \in Nat
  <2>1. k \in CcHeld /\ k \in CcActive
    BY <1>1 DEF CcHeld, CcActive, CC!In
  <2> QED BY <2>1, CcBalance, CcNumbers DEF CcInv
<1>4. ccSize >= 1 /\ nHeld = 1 /\ ccPopping = 0
  BY <1>2, <1>3 DEF One
<1>5. CC!TypeOK'
  <2>1. ccSize' \in Nat /\ ccPopping' \in Nat
    BY <1>1, <1>2, <1>4
  <2>2. ccAhead' \in [Callbacks -> SUBSET Callbacks]
    BY <1>1, <1>2 DEF CC!TypeOK
  <2> QED BY <1>1, <1>2, <2>1, <2>2, CcMove DEF CC!TypeOK, CcPlaces
<1>6. CcQueued'
  <2>1. /\ CC!In({"link", "waiting"})' = CC!In({"link", "waiting"})
        /\ CC!In({"link"})' = CC!In({"link"})
    BY <1>1, <1>2, CcMove DEF CC!In
  <2> QED BY <1>1, <2>1 DEF CcInv, CcQueued
<1>7. CcCounted'
  <2>1. nHeld' = 0 /\ nActive' = nActive - 1
    BY <1>1, <1>2, <1>3, <1>4, CcMove DEF One
  <2>2. ccSize' = nActive' + Len(ccQueue') /\ ccPopping' + nHeld' = One(ccSize' > 0)
    BY <1>1, <1>2, <1>3, <1>4, <2>1 DEF One
  <2> QED BY <2>2 DEF CcCounted, nActive, nHeld, CcActive, CcHeld
<1>8. CcOrdered'
  <2>1. /\ CC!In({"held"})' = CC!In({"held"}) \ {k}
        /\ CC!In({"waiting", "held"})' = CC!In({"waiting", "held"}) \ {k}
    BY <1>1, <1>2, CcMove DEF CC!In
  <2>2. \A x \in Range(ccQueue) : x \in Callbacks
    BY <1>2 DEF Range
  <2>3. \A x \in Range(ccQueue) : \A d \in ccAhead'[x] :
           d \in ccAhead[x] /\ (d \in CC!In({"held"}) => d \in CC!In({"held"})')
    BY <1>1, <2>1, <2>2
  <2>4. InOrder(ccQueue, CC!In({"held"}), ccAhead)
    BY DEF CcInv, CcOrdered
  <2>5. InOrder(ccQueue, CC!In({"held"})', ccAhead')
    BY <1>2, <2>3, <2>4, OrderKept
  <2>6. \A j \in Callbacks : j # k => ccPc'[j] = ccPc[j]
    BY <1>1, <1>2, CcMove
  <2>7. \A j \in Callbacks : ccAhead'[j] = ccAhead[j] \ {k}
    BY <1>1
  <2>8. ccAhead[k] = {}
    BY <1>1 DEF CcInv, CcOrdered
  <2>9. ccPc'[k] = "idle"
    BY <1>1, <1>2, CcMove
  <2> QED BY <1>1, <2>1, <2>5, <2>6, <2>7, <2>8, <2>9 DEF CcInv, CcOrdered
<1>9. SerialStep(CcPhases, ccAhead, CcPhases', ccAhead')
  <2>1. CcPhases' = [CcPhases EXCEPT ![k] = "idle"] /\ CcPhases[k] = "running"
    BY <1>1, <1>2, CcPhaseMove DEF CcPhaseOf
  <2> QED BY <1>1, <2>1 DEF SerialStep
<1> QED BY <1>5, <1>6, <1>7, <1>8, <1>9 DEF CcInv

LEMMA CcStopPopInv ==
    ASSUME CcInv, CC!StopPop
    PROVE  CcInv' /\ SerialStep(CcPhases, ccAhead, CcPhases', ccAhead')
<1> DEFINE k == Head(ccQueue)
<1>1. /\ ccPopping > 0 /\ ccQueue # <<>> /\ k \notin ccPushing
      /\ ccQueue' = Tail(ccQueue) /\ ccPushing' = ccPushing
      /\ ccPopping' = ccPopping - 1 /\ CC!Goto(k, "held")
      /\ ccSize' = ccSize /\ ccAhead' = ccAhead
  BY DEF CC!StopPop, CC!Q!Take, CC!Q!Available
<1>2. /\ "held" \in CcPlaces /\ CC!TypeOK /\ ccQueue \in Seq(Callbacks)
      /\ ccPopping \in Nat /\ ccSize \in Nat /\ Len(ccQueue) \in Nat
  BY DEF CcPlaces, CcInv, CC!TypeOK
<1>3. /\ k \in Callbacks /\ ccQueue' \in Seq(Callbacks) /\ Len(ccQueue') = Len(ccQueue) - 1
      /\ k \in Range(ccQueue) /\ Range(ccQueue') = Range(ccQueue) \ {k}
      /\ IsInjective(ccQueue')
  BY <1>1, <1>2, TailFacts, TailInjective DEF CcInv, CcQueued
<1>4. ccPc[k] = "waiting"
  BY <1>1, <1>3 DEF CcInv, CcQueued, CC!In
<1> HIDE DEF k
<1>5. /\ ccSize = nActive + Len(ccQueue) /\ ccPopping + nHeld = One(ccSize > 0)
      /\ nHeld \in Nat /\ nActive \in Nat
  BY CcBalance, CcNumbers DEF CcInv
<1>6. nHeld = 0 /\ ccPopping = 1 /\ ccSize > 0 /\ CcHeld = {}
  BY <1>1, <1>2, <1>5, CcNumbers DEF One
<1>7. CC!TypeOK'
  <2>1. ccPopping' \in Nat
    BY <1>1, <1>2
  <2> QED BY <1>1, <1>2, <1>3, <2>1, CcMove DEF CC!TypeOK, CcPlaces
<1>8. CcQueued'
  <2>1. /\ CC!In({"link", "waiting"})' = CC!In({"link", "waiting"}) \ {k}
        /\ CC!In({"link"})' = CC!In({"link"})
    BY <1>1, <1>2, <1>3, <1>4, CcMove DEF CC!In
  <2> QED BY <1>1, <1>3, <2>1 DEF CcInv, CcQueued
<1>9. CcCounted'
  <2>1. nHeld' = 1 /\ nActive' = nActive + 1
    BY <1>1, <1>2, <1>3, <1>4, <1>5, <1>6, CcMove DEF One
  <2>2. ccSize' = nActive' + Len(ccQueue') /\ ccPopping' + nHeld' = One(ccSize' > 0)
    BY <1>1, <1>2, <1>3, <1>5, <1>6, <2>1 DEF One
  <2> QED BY <2>2 DEF CcCounted, nActive, nHeld, CcActive, CcHeld
<1>10. ccAhead[k] = {} /\ InOrder(ccQueue', {k}, ccAhead)
  <2>1. InOrder(ccQueue, CC!In({"held"}), ccAhead) /\ CC!In({"held"}) = {}
    BY <1>6 DEF CcInv, CcOrdered, CcHeld
  <2>2. ccAhead[k] \subseteq {} /\ InOrder(Tail(ccQueue), {} \cup {k}, ccAhead)
    BY <1>1, <1>2, <2>1, OrderTail DEF k
  <2> QED BY <1>1, <2>2
<1>11. CcOrdered'
  <2>1. /\ CC!In({"held"})' = {k}
        /\ CC!In({"waiting", "held"})' = CC!In({"waiting", "held"})
    BY <1>1, <1>2, <1>3, <1>4, <1>6, CcMove DEF CC!In, CcHeld
  <2>2. \A j \in Callbacks : j # k => ccPc'[j] = ccPc[j]
    BY <1>1, <1>2, <1>3, CcMove
  <2>3. ccPc'[k] = "held"
    BY <1>1, <1>2, <1>3, CcMove
  <2> QED BY <1>1, <1>10, <2>1, <2>2, <2>3 DEF CcInv, CcOrdered
<1>12. SerialStep(CcPhases, ccAhead, CcPhases', ccAhead')
  <2>1. CcPhases' = [CcPhases EXCEPT ![k] = "running"] /\ CcPhases[k] = "waiting"
    BY <1>1, <1>2, <1>3, <1>4, CcPhaseMove DEF CcPhaseOf
  <2>2. \A j \in Callbacks : CcPhases[j] # "running"
    BY <1>2, <1>6 DEF CcPhases, CC!Phase, CcHeld, CC!In, CC!TypeOK
  <2> QED BY <1>1, <1>3, <1>10, <2>1, <2>2 DEF SerialStep
<1> QED BY <1>7, <1>8, <1>9, <1>11, <1>12 DEF CcInv

LEMMA CcStep ==
    ASSUME CcInv, CC!Next \/ UNCHANGED ccVars
    PROVE  CcInv' /\ SerialStep(CcPhases, ccAhead, CcPhases', ccAhead')
<1>1. CASE CC!Next
  BY <1>1, CcStartNowInv, CcStartLaterInv, CcPushClaimInv, CcPushLinkInv, CcStopInv,
     CcStopPopInv DEF CC!Next
<1>2. CASE UNCHANGED ccVars
  <2>1. /\ ccSize' = ccSize /\ ccQueue' = ccQueue /\ ccPushing' = ccPushing
        /\ ccPc' = ccPc /\ ccPopping' = ccPopping /\ ccAhead' = ccAhead
    BY <1>2 DEF ccVars
  <2>2. \A P : CC!In(P)' = CC!In(P)
    BY <2>1 DEF CC!In
  <2>3. CcPhases' = CcPhases
    BY <2>1 DEF CcPhases, CC!Phase
  <2>4. CC!TypeOK' /\ CcQueued' /\ CcCounted' /\ CcOrdered'
    BY <2>1, <2>2 DEF CcInv, CC!TypeOK, CcQueued, CcCounted, CcOrdered
  <2> QED BY <2>1, <2>3, <2>4 DEF SerialStep, CcInv
<1> QED BY <1>1, <1>2

\* The invariant is enough for the property of the run.
LEMMA CcStranded == CcInv => CC!NobodyStranded
<1> SUFFICES ASSUME CcInv, CC!In({"held"}) = {}, ccPopping = 0
             PROVE  CC!In({"push", "link", "waiting"}) = {}
  BY DEF CC!NobodyStranded
<1>1. ccSize \in Nat /\ nHeld = 0
  BY CcNumbers DEF CcInv, CC!TypeOK, CcHeld
<1>2. ccSize = 0
  BY <1>1, CcBalance DEF CcInv, One
<1> QED BY <1>2, CcNothing DEF CC!In

-----------------------------------------------------------------------------
(* Combiner                                                                *)

CoBusyPlaces == {"first", "later", "clear", "push", "link", "queued", "running"}
CoCallPlaces == {"first", "later", "clear", "push", "link"}
CoPlaces == CoBusyPlaces \cup {"idle", "final"}

CoFirst == CO!At({"first"})
CoBusy == CO!At(CoBusyPlaces)
nFirst == Cardinality(CoFirst)
nBusy == Cardinality(CoBusy)

\* What the ExecCtx that has the combiner is doing with it.
CoEx == IF coHolder = Null THEN "out" ELSE coEx[coHolder]

\* The elements that are counted in the word: the closures of Run, the final
\* list, and the one that was executed and not yet counted down.
nElements ==
    nBusy + One(coFinal # <<>>) + One(CoEx \in {"final", "finish"})

\* Only the thread that has the combiner executes closures.
CoOne == \A t \in CombinerThreads : coEx[t] # "out" => coHolder = t

\* Each closure is in the list that its place says, once.
CoQueued ==
    /\ IsInjective(coQueue)
    /\ Range(coQueue) = CO!At({"link", "queued"})
    /\ coPushing = CO!At({"link"})
CoFinals ==
    /\ IsInjective(coFinal) /\ IsInjective(coBatch)
    /\ Range(coFinal) \cap Range(coBatch) = {}
    /\ Range(coFinal) \cup Range(coBatch) = CO!At({"final"})

\* One closure is in execution, by the thread that has the combiner.
CoRuns ==
    /\ CO!At({"running"}) = {coCur} \ {Null}
    /\ coCur # Null <=> CoEx = "run"
    /\ coBatch # <<>> <=> CoEx = "final"

\* The flag is up only for a final list that is there or being executed.
CoTimely == coTime => coFinal # <<>> \/ CoEx \in {"final", "finish"}

\* The word counts the elements, and exactly one party has the combiner while
\* there are any.
CoCounted ==
    /\ coState = 2 * nElements \/ coState = 2 * nElements + 1
    /\ nFirst + One(coHolder # Null) + One(coOffloaded) = One(nElements > 0)
    /\ coFreed <=> coState = 0

CoCallers == \A k \in CO!At(CoCallPlaces) : coBy[k] \in CombinerThreads

\* What is ahead of a closure is in execution or waits in front of it.
CoOrdered ==
    /\ \A k \in Callbacks : coPc[k] \in {"idle", "running", "final"} => coAhead[k] = {}
    /\ \A k \in Callbacks : coPc[k] \in {"first", "later", "clear", "push"} =>
          coAhead[k] \subseteq CO!At({"queued", "running"})
    /\ InOrder(coQueue, CO!At({"running"}), coAhead)

CoInv ==
    /\ CO!TypeOK /\ CoOne /\ CoQueued /\ CoFinals /\ CoRuns /\ CoTimely
    /\ CoCounted /\ CoCallers /\ CoOrdered

LEMMA CoConstants ==
    Null \notin CombinerThreads /\ Null \notin Callbacks /\ Executors \subseteq CombinerThreads
BY ExecutorsAssumption DEF CO!CombinerConstants

LEMMA CoNumbers ==
    /\ nFirst \in Nat /\ (nFirst = 0 <=> CoFirst = {})
    /\ nBusy \in Nat /\ (nBusy = 0 <=> CoBusy = {})
    /\ \A k \in CoFirst : nFirst >= 1
    /\ \A k \in CoBusy : nBusy >= 1
    /\ nElements \in Nat
<1>1. CoFirst \in SUBSET Callbacks /\ CoBusy \in SUBSET Callbacks
  BY DEF CO!At, CoFirst, CoBusy
<1>2. /\ nFirst \in Nat /\ (nFirst = 0 <=> CoFirst = {}) /\ \A k \in CoFirst : nFirst >= 1
      /\ nBusy \in Nat /\ (nBusy = 0 <=> CoBusy = {}) /\ \A k \in CoBusy : nBusy >= 1
  BY <1>1, Finites, Finite DEF nFirst, nBusy
<1> QED BY <1>2 DEF nElements, One

LEMMA Halves ==
    ASSUME NEW n \in Nat, NEW s, s = 2 * n \/ s = 2 * n + 1
    PROVE  s \in Nat /\ s \div 2 = n /\ (s % 2 = 0 <=> s = 2 * n)
<1>1. CASE s = 2 * n
  BY <1>1
<1>2. CASE s = 2 * n + 1
  BY <1>2
<1> QED BY <1>1, <1>2

\* The word in terms of what it counts.
LEMMA CoWord ==
    ASSUME CoInv
    PROVE  /\ nElements \in Nat /\ coState \in Nat
           /\ coState = 2 * nElements \/ coState = 2 * nElements + 1
           /\ CO!Elements = nElements /\ (CO!Orphaned <=> coState = 2 * nElements)
           /\ nFirst + One(coHolder # Null) + One(coOffloaded) = One(nElements > 0)
           /\ coFreed <=> coState = 0
BY CoNumbers, Halves DEF CoInv, CoCounted, CO!Elements, CO!Orphaned

\* Who executes.
LEMMA CoExecutes ==
    ASSUME CoInv, NEW t \in CombinerThreads
    PROVE  /\ coHolder = t => CoEx = coEx[t]
           /\ coEx[t] # "out" => coHolder = t
           /\ coHolder = Null => coEx[t] = "out" /\ CoEx = "out"
           /\ CoEx \in {"out", "run", "final", "finish"}
BY CoConstants DEF CoInv, CoOne, CoEx, CO!TypeOK

CoPhases == [k \in Callbacks |-> CO!Phase(k)]
CoPhaseOf(l) ==
    IF l \in CoCallPlaces THEN "calling"
    ELSE IF l = "queued" THEN "waiting"
    ELSE IF l = "running" THEN "running" ELSE "idle"

\* One closure goes from one place to another.
LEMMA CoMove ==
    ASSUME CO!TypeOK, NEW k \in Callbacks, NEW l \in CoPlaces,
           coPc' = [coPc EXCEPT ![k] = l]
    PROVE  /\ coPc' \in [Callbacks -> CoPlaces]
           /\ coPc'[k] = l /\ \A j \in Callbacks : j # k => coPc'[j] = coPc[j]
           /\ nBusy' = nBusy - One(coPc[k] \in CoBusyPlaces) + One(l \in CoBusyPlaces)
           /\ nFirst' = nFirst - One(coPc[k] = "first") + One(l = "first")
           /\ CoPhases' = [CoPhases EXCEPT ![k] = CoPhaseOf(l)]
           /\ CoPhases[k] = CoPhaseOf(coPc[k])
<1>1. /\ coPc' \in [Callbacks -> CoPlaces]
      /\ coPc'[k] = l /\ \A j \in Callbacks : j # k => coPc'[j] = coPc[j]
  BY DEF CO!TypeOK, CoPlaces, CoBusyPlaces, CO!CallStates
<1>2. /\ CoFirst' = IF l = "first" THEN CoFirst \cup {k} ELSE CoFirst \ {k}
      /\ CoBusy' = IF l \in CoBusyPlaces THEN CoBusy \cup {k} ELSE CoBusy \ {k}
      /\ k \in CoFirst <=> coPc[k] = "first"
      /\ k \in CoBusy <=> coPc[k] \in CoBusyPlaces
  BY <1>1 DEF CO!At, CoFirst, CoBusy
<1>3. CoBusy \in SUBSET Callbacks /\ CoFirst \in SUBSET Callbacks
  BY DEF CO!At, CoBusy, CoFirst
<1>4. /\ Cardinality(CoFirst \cup {k}) = nFirst + 1 - One(k \in CoFirst)
      /\ Cardinality(CoFirst \ {k}) = nFirst - One(k \in CoFirst)
      /\ Cardinality(CoBusy \cup {k}) = nBusy + 1 - One(k \in CoBusy)
      /\ Cardinality(CoBusy \ {k}) = nBusy - One(k \in CoBusy)
  BY <1>3, Finites, Moves DEF nFirst, nBusy
<1>5. nFirst' = nFirst - One(coPc[k] = "first") + One(l = "first")
  BY <1>2, <1>4, CoNumbers DEF One, nFirst
<1>6. nBusy' = nBusy - One(coPc[k] \in CoBusyPlaces) + One(l \in CoBusyPlaces)
  BY <1>2, <1>4, CoNumbers DEF One, nBusy
<1>7. CoPhases' = [j \in Callbacks |-> CO!Phase(j)']
  BY DEF CoPhases
<1>8. \A j \in Callbacks : CO!Phase(j)' = IF j = k THEN CoPhaseOf(l) ELSE CO!Phase(j)
  BY <1>1 DEF CO!Phase, CoPhaseOf, CO!CallStates, CoCallPlaces
<1>9. CO!Phase(k) = CoPhaseOf(coPc[k])
  BY DEF CO!Phase, CoPhaseOf, CO!CallStates, CoCallPlaces
<1> QED BY <1>1, <1>5, <1>6, <1>7, <1>8, <1>9 DEF CoPhases

\* What that does to the numbers.
LEMMA CoCount ==
    ASSUME CO!TypeOK, NEW k \in Callbacks, NEW l \in CoPlaces,
           coPc' = [coPc EXCEPT ![k] = l]
    PROVE  /\ (coPc[k] \in CoBusyPlaces <=> l \in CoBusyPlaces) => nBusy' = nBusy
           /\ coPc[k] \notin CoBusyPlaces /\ l \in CoBusyPlaces => nBusy' = nBusy + 1
           /\ coPc[k] \in CoBusyPlaces /\ l \notin CoBusyPlaces => nBusy' = nBusy - 1
           /\ coPc[k] # "first" /\ l # "first" => nFirst' = nFirst
           /\ coPc[k] # "first" /\ l = "first" => nFirst' = nFirst + 1
           /\ coPc[k] = "first" /\ l # "first" => nFirst' = nFirst - 1
<1> DEFINE was == coPc[k] \in CoBusyPlaces
           is == l \in CoBusyPlaces
           b == nBusy
           c == nBusy'
<1>1. c = b - One(was) + One(is) /\ b \in Nat
  BY CoMove, CoNumbers
<1>2. nFirst' = nFirst - One(coPc[k] = "first") + One(l = "first") /\ nFirst \in Nat
  BY CoMove, CoNumbers
<1> HIDE DEF was, is, b, c
<1>3. /\ (was <=> is) => c = b
      /\ ~was /\ is => c = b + 1
      /\ was /\ ~is => c = b - 1
  BY <1>1 DEF One
<1>4. /\ coPc[k] # "first" /\ l # "first" => nFirst' = nFirst
      /\ coPc[k] # "first" /\ l = "first" => nFirst' = nFirst + 1
      /\ coPc[k] = "first" /\ l # "first" => nFirst' = nFirst - 1
  BY <1>2 DEF One
<1> QED BY <1>3, <1>4 DEF was, is, b, c

\* Nothing of what is counted depends on the place of a closure that stays busy.
LEMMA CoStay ==
    ASSUME coPc' = coPc
    PROVE  nBusy' = nBusy /\ nFirst' = nFirst /\ CoPhases' = CoPhases
           /\ \A P : CO!At(P)' = CO!At(P)
BY DEF nBusy, nFirst, CoBusy, CoFirst, CO!At, CoPhases, CO!Phase

LEMMA CoInitInv == CO!Init => CoInv
<1> SUFFICES ASSUME CO!Init PROVE CoInv
  OBVIOUS
<1>1. CO!TypeOK
  <2>1. /\ coAhead \in [Callbacks -> SUBSET Callbacks] /\ coQueue \in Seq(Callbacks)
        /\ coFinal \in Seq(Callbacks) /\ coBatch \in Seq(Callbacks)
    BY DEF CO!Init
  <2>2. /\ coTime \in BOOLEAN /\ coOffloaded \in BOOLEAN /\ coFreed \in BOOLEAN
        /\ coFinally \in [Callbacks -> BOOLEAN]
    BY DEF CO!Init
  <2>3. /\ coState \in Nat /\ coInitiating \in CombinerThreads \cup {Null}
        /\ coPushing \subseteq Callbacks /\ coHolder \in CombinerThreads \cup {Null}
        /\ coPc \in [Callbacks -> CO!CallStates \cup {"idle", "queued", "running", "final"}]
        /\ coBy \in [Callbacks -> CombinerThreads \cup {Null}]
        /\ coEx \in [CombinerThreads -> {"out", "run", "final", "finish"}]
        /\ coCur \in Callbacks \cup {Null}
    BY DEF CO!Init
  <2> QED BY <2>1, <2>2, <2>3 DEF CO!TypeOK
<1>2. /\ CoFirst = {} /\ CoBusy = {} /\ CO!At({"link", "queued"}) = {}
      /\ CO!At({"link"}) = {} /\ CO!At({"final"}) = {} /\ CO!At({"running"}) = {}
      /\ CO!At(CoCallPlaces) = {} /\ CoEx = "out"
  BY DEF CO!Init, CO!At, CoFirst, CoBusy, CoBusyPlaces, CoCallPlaces, CoEx
<1>3. CoOne /\ CoQueued /\ CoFinals /\ CoRuns /\ CoCallers
  BY <1>2 DEF CO!Init, CoOne, CoQueued, CoFinals, CoRuns, CoCallers, IsInjective, Range
<1>4. CoTimely
  BY DEF CO!Init, CoTimely
<1>5. CoCounted
  <2>1. nFirst = 0 /\ nBusy = 0
    BY <1>2, CoNumbers
  <2>2. nElements = 0
    BY <1>2, <2>1 DEF CO!Init, nElements, One
  <2> QED BY <2>1, <2>2 DEF CoCounted, CO!Init, One
<1>6. CoOrdered
  BY DEF CO!Init, CoOrdered, InOrder
<1> QED BY <1>1, <1>3, <1>4, <1>5, <1>6 DEF CoInv

LEMMA CoRunInv ==
    ASSUME CoInv, NEW t \in CombinerThreads, NEW k \in Callbacks, NEW f \in BOOLEAN,
           CO!Run(t, k, f)
    PROVE  CoInv' /\ SerialStep(CoPhases, coAhead, CoPhases', coAhead')
<1> DEFINE l == IF coState = 1 THEN "first" ELSE "later"
           W == CO!At({"queued", "running"})
<1>1. /\ coPc[k] = "idle" /\ ~CO!Orphaned /\ coState' = coState + 2
      /\ coPc' = [coPc EXCEPT ![k] = l] /\ coBy' = [coBy EXCEPT ![k] = t]
      /\ coFinally' = [coFinally EXCEPT ![k] = f] /\ coAhead' = [coAhead EXCEPT ![k] = W]
      /\ coInitiating' = coInitiating /\ coFinal' = coFinal /\ coTime' = coTime
      /\ coFreed' = coFreed /\ coQueue' = coQueue /\ coPushing' = coPushing
      /\ coHolder' = coHolder /\ coOffloaded' = coOffloaded /\ coEx' = coEx
      /\ coCur' = coCur /\ coBatch' = coBatch
  BY DEF CO!Run, CO!Goto
<1>2. l \in {"first", "later"} /\ l \in CoPlaces /\ CO!TypeOK
  BY DEF CoPlaces, CoBusyPlaces, CoInv
<1>3. /\ \A P : "first" \notin P /\ "later" \notin P /\ "idle" \notin P => CO!At(P)' = CO!At(P)
      /\ CoEx' = CoEx
  BY <1>1, <1>2, CoMove DEF CO!At, CoEx
<1>4. W \subseteq Callbacks /\ W' = W
  BY <1>3 DEF CO!At
<1>5. /\ coAhead'[k] = W /\ \A j \in Callbacks : j # k => coAhead'[j] = coAhead[j]
      /\ coBy'[k] = t /\ \A j \in Callbacks : j # k => coBy'[j] = coBy[j]
  BY <1>1, <1>2 DEF CO!TypeOK
<1>6. CO!TypeOK'
  <2>1. coState' \in Nat
    BY <1>1, CoWord
  <2>2. coFinally' \in [Callbacks -> BOOLEAN]
    BY <1>1, <1>2 DEF CO!TypeOK
  <2>3. /\ coAhead' \in [Callbacks -> SUBSET Callbacks]
        /\ coBy' \in [Callbacks -> CombinerThreads \cup {Null}]
    BY <1>1, <1>2, <1>4 DEF CO!TypeOK
  <2>4. coPc' \in [Callbacks -> CO!CallStates \cup {"idle", "queued", "running", "final"}]
    BY <1>1, <1>2 DEF CO!TypeOK, CO!CallStates
  <2> QED BY <1>1, <1>2, <2>1, <2>2, <2>3, <2>4 DEF CO!TypeOK
<1>7. CoOne' /\ CoQueued' /\ CoFinals' /\ CoRuns' /\ CoTimely'
  BY <1>1, <1>3 DEF CoInv, CoOne, CoQueued, CoFinals, CoRuns, CoTimely
<1>8. CoCounted'
  <2>0. "idle" \notin CoBusyPlaces /\ l \in CoBusyPlaces
    BY DEF CoBusyPlaces
  <2>1. nBusy' = nBusy + 1 /\ nFirst' = nFirst + One(coState = 1)
    <3>1. nBusy' = nBusy + 1
      BY <1>1, <1>2, <2>0, CoCount
    <3>2. CASE coState = 1
      BY <1>1, <1>2, <3>1, <3>2, CoCount, CoNumbers DEF One
    <3>3. CASE coState # 1
      <4>1. l = "later"
        BY <3>3
      <4>2. nFirst' = nFirst
        BY <1>1, <1>2, <4>1, CoCount
      <4> QED BY <3>1, <3>3, <4>2, CoNumbers DEF One
    <3> QED BY <3>2, <3>3
  <2>2. nElements' = nElements + 1
    BY <1>1, <1>3, <2>1, CoNumbers DEF nElements, One
  <2>3. coState = 2 * nElements + 1
    BY <1>1, CoWord
  <2> QED BY <1>1, <2>1, <2>2, <2>3, CoWord, CoNumbers DEF CoCounted, One
<1>9. CoCallers'
  BY <1>1, <1>2, <1>5, CoMove DEF CoInv, CoCallers, CO!At
<1>10. CoOrdered'
  <2>1. \A x \in Range(coQueue) : x \in Callbacks /\ x # k
    BY <1>1, <1>2 DEF CoInv, CoQueued, CO!At
  <2>2. CO!At({"running"})' = CO!At({"running"})
    BY <1>3
  <2>3. \A x \in Range(coQueue) : \A d \in coAhead'[x] :
           d \in coAhead[x] /\ (d \in CO!At({"running"}) => d \in CO!At({"running"})')
    BY <1>5, <2>1, <2>2
  <2>4. InOrder(coQueue, CO!At({"running"}), coAhead) /\ coQueue \in Seq(Callbacks)
    BY <1>2 DEF CoInv, CoOrdered, CO!TypeOK
  <2>5. InOrder(coQueue, CO!At({"running"})', coAhead')
    BY <2>3, <2>4, OrderKept
  <2>6. coPc'[k] = l /\ \A j \in Callbacks : j # k => coPc'[j] = coPc[j]
    BY <1>1, <1>2, CoMove
  <2> HIDE DEF l, W
  <2>7. \A j \in Callbacks : coPc'[j] \in {"idle", "running", "final"} => coAhead'[j] = {}
    BY <1>2, <1>5, <2>6 DEF CoInv, CoOrdered
  <2>8. \A j \in Callbacks : coPc'[j] \in {"first", "later", "clear", "push"} =>
           coAhead'[j] \subseteq W
    BY <1>2, <1>5, <2>6 DEF CoInv, CoOrdered, W
  <2>9. CO!At({"queued", "running"})' = W
    BY <1>3 DEF W
  <2> QED BY <1>1, <2>5, <2>7, <2>8, <2>9 DEF CoOrdered
<1>11. SerialStep(CoPhases, coAhead, CoPhases', coAhead')
  <2>1. CoPhases' = [CoPhases EXCEPT ![k] = "calling"] /\ CoPhases[k] = "idle"
    BY <1>1, <1>2, CoMove DEF CoPhaseOf, CoCallPlaces
  <2>2. {v \in Callbacks : CoPhases[v] \in {"waiting", "running"}} = W
    BY <1>2 DEF CoPhases, CO!Phase, CO!At, CO!TypeOK, CO!CallStates
  <2> QED BY <1>1, <2>1, <2>2 DEF SerialStep
<1> QED BY <1>6, <1>7, <1>8, <1>9, <1>10, <1>11 DEF CoInv

LEMMA CoTakeInv ==
    ASSUME CoInv, NEW k \in Callbacks, CO!TakeCombiner(k)
    PROVE  CoInv' /\ SerialStep(CoPhases, coAhead, CoPhases', coAhead')
<1>1. /\ coPc[k] = "first" /\ coInitiating' = coBy[k] /\ coHolder' = coBy[k]
      /\ coPc' = [coPc EXCEPT ![k] = "push"]
      /\ coState' = coState /\ coFinal' = coFinal /\ coTime' = coTime
      /\ coFreed' = coFreed /\ coQueue' = coQueue /\ coPushing' = coPushing
      /\ coOffloaded' = coOffloaded /\ coBy' = coBy /\ coFinally' = coFinally
      /\ coEx' = coEx /\ coCur' = coCur /\ coBatch' = coBatch /\ coAhead' = coAhead
  BY DEF CO!TakeCombiner, CO!Goto
<1>2. "push" \in CoPlaces /\ CO!TypeOK /\ coBy[k] \in CombinerThreads /\ coBy[k] # Null
  BY <1>1, CoConstants DEF CoPlaces, CoBusyPlaces, CoInv, CoCallers, CO!At, CoCallPlaces
<1>3. nFirst = 1 /\ coHolder = Null /\ ~coOffloaded /\ nElements > 0
  <2>1. nFirst >= 1
    BY <1>1, CoNumbers DEF CoFirst, CO!At
  <2> QED BY <2>1, CoWord, CoNumbers DEF One
<1>4. CoEx = "out" /\ CoEx' = "out" /\ \A t \in CombinerThreads : coEx[t] = "out"
  BY <1>1, <1>2, <1>3, CoExecutes DEF CoEx
<1>5. \A P : "first" \notin P /\ "push" \notin P => CO!At(P)' = CO!At(P)
  BY <1>1, <1>2, CoMove DEF CO!At
<1>6. CO!TypeOK'
  <2>1. coPc' \in [Callbacks -> CO!CallStates \cup {"idle", "queued", "running", "final"}]
    BY <1>1, <1>2 DEF CO!TypeOK, CO!CallStates
  <2> QED BY <1>1, <1>2, <2>1 DEF CO!TypeOK
<1>7. CoOne' /\ CoQueued' /\ CoFinals' /\ CoRuns' /\ CoTimely'
  BY <1>1, <1>4, <1>5 DEF CoInv, CoOne, CoQueued, CoFinals, CoRuns, CoTimely
<1>8. CoCounted'
  <2>0. "first" \in CoBusyPlaces /\ "push" \in CoBusyPlaces
    BY DEF CoBusyPlaces
  <2>1. nBusy' = nBusy /\ nFirst' = 0
    <3>1. nBusy' = nBusy /\ nFirst' = nFirst - 1
      BY <1>1, <1>2, <2>0, CoCount
    <3> QED BY <1>3, <3>1
  <2>2. nElements' = nElements
    BY <1>1, <1>4, <2>1 DEF nElements
  <2> QED BY <1>1, <1>2, <1>3, <2>1, <2>2, CoWord, CoNumbers DEF CoCounted, One
<1>9. CoCallers'
  BY <1>1, <1>2, CoMove DEF CoInv, CoCallers, CO!At, CoCallPlaces
<1>10. CoOrdered'
  <2>1. coPc'[k] = "push" /\ \A j \in Callbacks : j # k => coPc'[j] = coPc[j]
    BY <1>1, <1>2, CoMove
  <2>2. /\ CO!At({"running"})' = CO!At({"running"})
        /\ CO!At({"queued", "running"})' = CO!At({"queued", "running"})
    BY <1>5
  <2> QED BY <1>1, <2>1, <2>2 DEF CoInv, CoOrdered
<1>11. SerialStep(CoPhases, coAhead, CoPhases', coAhead')
  <2>1. CoPhases' = [CoPhases EXCEPT ![k] = "calling"] /\ CoPhases[k] = "calling"
    BY <1>1, <1>2, CoMove DEF CoPhaseOf, CoCallPlaces
  <2>2. CoPhases' = CoPhases
    BY <2>1 DEF CoPhases
  <2> QED BY <1>1, <2>2 DEF SerialStep
<1> QED BY <1>6, <1>7, <1>8, <1>9, <1>10, <1>11 DEF CoInv

\* The load of the initiator and the store that follows it
LEMMA CoInitiatorInv ==
    ASSUME CoInv, NEW k \in Callbacks, CO!LoadInitiator(k) \/ CO!ClearInitiator(k)
    PROVE  CoInv' /\ SerialStep(CoPhases, coAhead, CoPhases', coAhead')
<1>1. PICK l \in {"clear", "push"} :
         /\ coPc[k] \in {"later", "clear"} /\ coInitiating' \in {coInitiating, Null}
         /\ coPc' = [coPc EXCEPT ![k] = l]
  BY DEF CO!LoadInitiator, CO!ClearInitiator, CO!Goto
<1>2. /\ coState' = coState /\ coFinal' = coFinal /\ coTime' = coTime
      /\ coFreed' = coFreed /\ coQueue' = coQueue /\ coPushing' = coPushing
      /\ coHolder' = coHolder /\ coOffloaded' = coOffloaded /\ coBy' = coBy
      /\ coFinally' = coFinally /\ coEx' = coEx /\ coCur' = coCur /\ coBatch' = coBatch
      /\ coAhead' = coAhead
  BY DEF CO!LoadInitiator, CO!ClearInitiator
<1>3. l \in CoPlaces /\ CO!TypeOK
  BY DEF CoPlaces, CoBusyPlaces, CoInv
<1>4. \A P : {"later", "clear", "push"} \cap P = {} => CO!At(P)' = CO!At(P)
  BY <1>1, <1>3, CoMove DEF CO!At
<1>5. CoEx' = CoEx
  BY <1>2 DEF CoEx
<1>6. CO!TypeOK'
  <2>1. coPc' \in [Callbacks -> CO!CallStates \cup {"idle", "queued", "running", "final"}]
    BY <1>1, <1>3 DEF CO!TypeOK, CO!CallStates
  <2>2. coInitiating' \in CombinerThreads \cup {Null}
    BY <1>1, <1>3 DEF CO!TypeOK
  <2> QED BY <1>2, <1>3, <2>1, <2>2 DEF CO!TypeOK
<1>7. CoOne' /\ CoQueued' /\ CoFinals' /\ CoRuns' /\ CoTimely'
  BY <1>2, <1>4, <1>5 DEF CoInv, CoOne, CoQueued, CoFinals, CoRuns, CoTimely
<1>8. CoCounted'
  <2>0. coPc[k] \in CoBusyPlaces /\ l \in CoBusyPlaces /\ coPc[k] # "first" /\ l # "first"
    BY <1>1 DEF CoBusyPlaces
  <2>1. nBusy' = nBusy /\ nFirst' = nFirst
    BY <1>1, <1>3, <2>0, CoCount
  <2>2. nElements' = nElements
    BY <1>2, <1>5, <2>1 DEF nElements
  <2> QED BY <1>2, <2>1, <2>2 DEF CoInv, CoCounted
<1>9. CoCallers'
  BY <1>1, <1>2, <1>3, CoMove DEF CoInv, CoCallers, CO!At, CoCallPlaces
<1>10. CoOrdered'
  <2>1. coPc'[k] = l /\ \A j \in Callbacks : j # k => coPc'[j] = coPc[j]
    BY <1>1, <1>3, CoMove
  <2>2. /\ CO!At({"running"})' = CO!At({"running"})
        /\ CO!At({"queued", "running"})' = CO!At({"queued", "running"})
    BY <1>4
  <2> QED BY <1>1, <1>2, <2>1, <2>2 DEF CoInv, CoOrdered
<1>11. SerialStep(CoPhases, coAhead, CoPhases', coAhead')
  <2>1. CoPhases' = [CoPhases EXCEPT ![k] = "calling"] /\ CoPhases[k] = "calling"
    BY <1>1, <1>3, CoMove DEF CoPhaseOf, CoCallPlaces
  <2>2. CoPhases' = CoPhases
    BY <2>1 DEF CoPhases
  <2> QED BY <1>2, <2>2 DEF SerialStep
<1> QED BY <1>6, <1>7, <1>8, <1>9, <1>10, <1>11 DEF CoInv

LEMMA CoPushClaimInv ==
    ASSUME CoInv, NEW k \in Callbacks, CO!PushClaim(k)
    PROVE  CoInv' /\ SerialStep(CoPhases, coAhead, CoPhases', coAhead')
<1>1. /\ coPc[k] = "push" /\ coPc' = [coPc EXCEPT ![k] = "link"]
      /\ coQueue' = Append(coQueue, k) /\ coPushing' = coPushing \cup {k}
  BY DEF CO!PushClaim, CO!Goto, CO!Q!Claim
<1>2. /\ coState' = coState /\ coInitiating' = coInitiating /\ coFinal' = coFinal
      /\ coTime' = coTime /\ coFreed' = coFreed /\ coHolder' = coHolder
      /\ coOffloaded' = coOffloaded /\ coBy' = coBy /\ coFinally' = coFinally
      /\ coEx' = coEx /\ coCur' = coCur /\ coBatch' = coBatch /\ coAhead' = coAhead
  BY DEF CO!PushClaim
<1>3. "link" \in CoPlaces /\ CO!TypeOK /\ coQueue \in Seq(Callbacks)
  BY DEF CoPlaces, CoBusyPlaces, CoInv, CO!TypeOK
<1>4. \A P : {"push", "link"} \cap P = {} => CO!At(P)' = CO!At(P)
  BY <1>1, <1>3, CoMove DEF CO!At
<1>5. CoEx' = CoEx
  BY <1>2 DEF CoEx
<1>6. k \notin Range(coQueue)
  BY <1>1 DEF CoInv, CoQueued, CO!At
<1>7. /\ coQueue' \in Seq(Callbacks) /\ IsInjective(coQueue')
      /\ Range(coQueue') = Range(coQueue) \cup {k}
  <2>1. ToSet(coQueue) = Range(coQueue)
    BY <1>3 DEF ToSet, Range
  <2> QED BY <1>1, <1>3, <1>6, <2>1, AppendFacts DEF CoInv, CoQueued
<1>8. CO!TypeOK'
  <2>1. coPc' \in [Callbacks -> CO!CallStates \cup {"idle", "queued", "running", "final"}]
    BY <1>1, <1>3 DEF CO!TypeOK, CO!CallStates
  <2> QED BY <1>1, <1>2, <1>3, <1>7, <2>1 DEF CO!TypeOK
<1>9. CoOne' /\ CoFinals' /\ CoRuns' /\ CoTimely'
  BY <1>2, <1>4, <1>5 DEF CoInv, CoOne, CoFinals, CoRuns, CoTimely
<1>10. CoQueued'
  <2>1. /\ CO!At({"link", "queued"})' = CO!At({"link", "queued"}) \cup {k}
        /\ CO!At({"link"})' = CO!At({"link"}) \cup {k}
    BY <1>1, <1>3, CoMove DEF CO!At
  <2> QED BY <1>1, <1>7, <2>1 DEF CoInv, CoQueued
<1>11. CoCounted'
  <2>0. coPc[k] \in CoBusyPlaces /\ "link" \in CoBusyPlaces /\ coPc[k] # "first"
    BY <1>1 DEF CoBusyPlaces
  <2>1. nBusy' = nBusy /\ nFirst' = nFirst
    BY <1>1, <1>3, <2>0, CoCount
  <2>2. nElements' = nElements
    BY <1>2, <1>5, <2>1 DEF nElements
  <2> QED BY <1>2, <2>1, <2>2 DEF CoInv, CoCounted
<1>12. CoCallers'
  BY <1>1, <1>2, <1>3, CoMove DEF CoInv, CoCallers, CO!At, CoCallPlaces
<1>13. CoOrdered'
  <2>1. coPc'[k] = "link" /\ \A j \in Callbacks : j # k => coPc'[j] = coPc[j]
    BY <1>1, <1>3, CoMove
  <2>2. /\ CO!At({"running"})' = CO!At({"running"})
        /\ CO!At({"queued", "running"})' = CO!At({"queued", "running"})
    BY <1>4
  <2>3. CO!At({"queued", "running"}) \subseteq CO!At({"running"}) \cup Range(coQueue)
    BY DEF CoInv, CoQueued, CO!At
  <2>4. coAhead[k] \subseteq CO!At({"running"}) \cup Range(coQueue)
    BY <1>1, <2>3 DEF CoInv, CoOrdered
  <2>5. InOrder(coQueue, CO!At({"running"}), coAhead)
    BY DEF CoInv, CoOrdered
  <2>6. InOrder(coQueue', CO!At({"running"})', coAhead')
    BY <1>1, <1>2, <1>3, <2>2, <2>4, <2>5, OrderAppend
  <2> QED BY <1>1, <1>2, <2>1, <2>2, <2>6 DEF CoInv, CoOrdered
<1>14. SerialStep(CoPhases, coAhead, CoPhases', coAhead')
  <2>1. CoPhases' = [CoPhases EXCEPT ![k] = "calling"] /\ CoPhases[k] = "calling"
    BY <1>1, <1>3, CoMove DEF CoPhaseOf, CoCallPlaces
  <2>2. CoPhases' = CoPhases
    BY <2>1 DEF CoPhases
  <2> QED BY <1>2, <2>2 DEF SerialStep
<1> QED BY <1>8, <1>9, <1>10, <1>11, <1>12, <1>13, <1>14 DEF CoInv

LEMMA CoPushLinkInv ==
    ASSUME CoInv, NEW k \in Callbacks, CO!PushLink(k)
    PROVE  CoInv' /\ SerialStep(CoPhases, coAhead, CoPhases', coAhead')
<1>1. /\ coPc[k] = "link" /\ coPc' = [coPc EXCEPT ![k] = "queued"]
      /\ coQueue' = coQueue /\ coPushing' = coPushing \ {k}
      /\ coBy' = [coBy EXCEPT ![k] = Null]
  BY DEF CO!PushLink, CO!Goto, CO!Q!Publish
<1>2. /\ coState' = coState /\ coInitiating' = coInitiating /\ coFinal' = coFinal
      /\ coTime' = coTime /\ coFreed' = coFreed /\ coHolder' = coHolder
      /\ coOffloaded' = coOffloaded /\ coFinally' = coFinally
      /\ coEx' = coEx /\ coCur' = coCur /\ coBatch' = coBatch /\ coAhead' = coAhead
  BY DEF CO!PushLink
<1>3. "queued" \in CoPlaces /\ CO!TypeOK /\ coQueue \in Seq(Callbacks)
  BY DEF CoPlaces, CoBusyPlaces, CoInv, CO!TypeOK
<1>4. \A P : {"queued", "link"} \cap P = {} => CO!At(P)' = CO!At(P)
  BY <1>1, <1>3, CoMove DEF CO!At
<1>5. CoEx' = CoEx
  BY <1>2 DEF CoEx
<1>6. coPc'[k] = "queued" /\ \A j \in Callbacks : j # k => coPc'[j] = coPc[j]
  BY <1>1, <1>3, CoMove
<1>8. CO!TypeOK'
  <2>1. /\ coPc' \in [Callbacks -> CO!CallStates \cup {"idle", "queued", "running", "final"}]
        /\ coBy' \in [Callbacks -> CombinerThreads \cup {Null}]
    BY <1>1, <1>3 DEF CO!TypeOK, CO!CallStates
  <2> QED BY <1>1, <1>2, <1>3, <2>1 DEF CO!TypeOK
<1>9. CoOne' /\ CoFinals' /\ CoRuns' /\ CoTimely'
  BY <1>2, <1>4, <1>5 DEF CoInv, CoOne, CoFinals, CoRuns, CoTimely
<1>10. CoQueued'
  <2>1. /\ CO!At({"link", "queued"})' = CO!At({"link", "queued"})
        /\ CO!At({"link"})' = CO!At({"link"}) \ {k}
    BY <1>1, <1>6 DEF CO!At
  <2> QED BY <1>1, <2>1 DEF CoInv, CoQueued
<1>11. CoCounted'
  <2>0. coPc[k] \in CoBusyPlaces /\ "queued" \in CoBusyPlaces /\ coPc[k] # "first"
    BY <1>1 DEF CoBusyPlaces
  <2>1. nBusy' = nBusy /\ nFirst' = nFirst
    BY <1>1, <1>3, <2>0, CoCount
  <2>2. nElements' = nElements
    BY <1>2, <1>5, <2>1 DEF nElements
  <2> QED BY <1>2, <2>1, <2>2 DEF CoInv, CoCounted
<1>12. CoCallers'
  <2>1. \A j \in Callbacks : j # k => coBy'[j] = coBy[j]
    BY <1>1, <1>3 DEF CO!TypeOK
  <2>2. CO!At(CoCallPlaces)' = CO!At(CoCallPlaces) \ {k}
    BY <1>1, <1>6 DEF CO!At, CoCallPlaces
  <2> QED BY <2>1, <2>2 DEF CoInv, CoCallers, CO!At
<1>13. CoOrdered'
  <2>2. /\ CO!At({"running"})' = CO!At({"running"})
        /\ CO!At({"queued", "running"}) \subseteq CO!At({"queued", "running"})'
    BY <1>1, <1>4, <1>6 DEF CO!At
  <2> QED BY <1>1, <1>2, <1>6, <2>2 DEF CoInv, CoOrdered
<1>14. SerialStep(CoPhases, coAhead, CoPhases', coAhead')
  <2>1. CoPhases' = [CoPhases EXCEPT ![k] = "waiting"] /\ CoPhases[k] = "calling"
    BY <1>1, <1>3, CoMove DEF CoPhaseOf, CoCallPlaces
  <2> QED BY <1>2, <2>1 DEF SerialStep
<1> QED BY <1>8, <1>9, <1>10, <1>11, <1>12, <1>13, <1>14 DEF CoInv

\* The combiner goes to the executor and back, and the last reference goes.
LEMMA CoHandOverInv ==
    ASSUME CoInv,
           \/ \E t \in CombinerThreads :
                 CO!OffloadContended(t) \/ CO!OffloadInconsistent(t) \/ CO!Offload(t)
           \/ CO!StartDestroy
    PROVE  CoInv' /\ SerialStep(CoPhases, coAhead, CoPhases', coAhead')
<1>1. /\ coInitiating' = coInitiating /\ coFinal' = coFinal
      /\ coTime' = coTime /\ coQueue' = coQueue /\ coPushing' = coPushing
      /\ coPc' = coPc /\ coBy' = coBy /\ coFinally' = coFinally
      /\ coEx' = coEx /\ coCur' = coCur /\ coBatch' = coBatch /\ coAhead' = coAhead
  BY DEF CO!OffloadContended, CO!OffloadInconsistent, CO!QueueOffload, CO!Offload,
         CO!StartDestroy
<1>2. CO!TypeOK /\ CoEx \in {"out", "run", "final", "finish"}
  BY CoConstants DEF CoInv, CoEx, CO!TypeOK
<1>3. nBusy' = nBusy /\ nFirst' = nFirst /\ CoPhases' = CoPhases
      /\ \A P : CO!At(P)' = CO!At(P)
  BY <1>1, CoStay
<1>4. /\ CoEx' = CoEx /\ CoOne'
      /\ coHolder' \in CombinerThreads \cup {Null} /\ coOffloaded' \in BOOLEAN
      /\ One(coHolder' # Null) + One(coOffloaded') = One(coHolder # Null) + One(coOffloaded)
  <2>1. CASE \E t \in CombinerThreads : CO!OffloadContended(t) \/ CO!OffloadInconsistent(t)
    <3>1. PICK t \in CombinerThreads : CO!OffloadContended(t) \/ CO!OffloadInconsistent(t)
      BY <2>1
    <3>2. /\ coHolder = t /\ coEx[t] = "out" /\ coHolder' = Null /\ coOffloaded' = TRUE
      BY <3>1 DEF CO!OffloadContended, CO!OffloadInconsistent, CO!QueueOffload, CO!Flushing
    <3>3. t # Null /\ \A u \in CombinerThreads : coEx[u] = "out"
      BY <3>2, CoConstants DEF CoInv, CoOne
    <3>4. ~coOffloaded
      BY <3>2, <3>3, CoWord, CoNumbers DEF One
    <3> QED BY <1>1, <3>2, <3>3, <3>4 DEF CoEx, CoOne, One
  <2>2. CASE \E t \in CombinerThreads : CO!Offload(t)
    <3>1. PICK t \in CombinerThreads : CO!Offload(t)
      BY <2>2
    <3>2. /\ coOffloaded /\ coEx[t] = "out" /\ coHolder' = t /\ coOffloaded' = FALSE
      BY <3>1 DEF CO!Offload
    <3>3. coHolder = Null /\ t # Null
      BY <3>2, CoConstants, CoWord, CoNumbers DEF One
    <3>4. \A u \in CombinerThreads : coEx[u] = "out"
      BY <3>3, CoConstants DEF CoInv, CoOne
    <3>5. One(coHolder' # Null) = 1 /\ One(coHolder # Null) = 0
      BY <3>2, <3>3 DEF One
    <3>6. One(coOffloaded') = 0 /\ One(coOffloaded) = 1 /\ coOffloaded' \in BOOLEAN
      BY <3>2, Zenon DEF One
    <3>7. CoEx' = CoEx /\ CoOne' /\ coHolder' \in CombinerThreads \cup {Null}
      BY <1>1, <3>2, <3>3, <3>4 DEF CoEx, CoOne
    <3> QED BY <3>5, <3>6, <3>7
  <2>3. CASE CO!StartDestroy
    BY <1>1, <1>2, <2>3 DEF CO!StartDestroy, CO!TypeOK, CoInv, CoOne, CoEx
  <2> QED BY <2>1, <2>2, <2>3
<1>5. nElements' = nElements
  BY <1>1, <1>3, <1>4 DEF nElements
<1>6. /\ coState' \in Nat /\ coFreed' \in BOOLEAN
      /\ coState' = 2 * nElements \/ coState' = 2 * nElements + 1
      /\ coFreed' <=> coState' = 0
  <2>1. CASE CO!StartDestroy
    <3>1. coState' = coState - 1 /\ coFreed' = (coState = 1) /\ ~CO!Orphaned
      BY <2>1 DEF CO!StartDestroy
    <3>2. coFreed' \in BOOLEAN /\ (coFreed' <=> coState = 1)
      BY <3>1, Zenon
    <3>3. coState' = 2 * nElements /\ coState' \in Nat /\ (coState' = 0 <=> coState = 1)
      BY <3>1, CoWord
    <3> QED BY <3>2, <3>3, Zenon
  <2>2. CASE ~CO!StartDestroy
    <3>1. coState' = coState /\ coFreed' = coFreed
      BY <2>2 DEF CO!OffloadContended, CO!OffloadInconsistent, CO!QueueOffload, CO!Offload
    <3> QED BY <1>2, <3>1, CoWord DEF CO!TypeOK
  <2> QED BY <2>1, <2>2
<1>7. CO!TypeOK'
  BY <1>1, <1>2, <1>4, <1>6 DEF CO!TypeOK
<1>8. CoQueued' /\ CoFinals' /\ CoRuns' /\ CoTimely'
  BY <1>1, <1>3, <1>4 DEF CoInv, CoQueued, CoFinals, CoRuns, CoTimely
<1>9. CoCallers' /\ CoOrdered'
  BY <1>1, <1>3 DEF CoInv, CoCallers, CoOrdered
<1>10. CoCounted'
  <2>1. nFirst' + One(coHolder' # Null) + One(coOffloaded') = One(nElements > 0)
    BY <1>3, <1>4, CoWord, CoNumbers DEF One
  <2> QED BY <1>5, <1>6, <2>1 DEF CoCounted
<1>11. SerialStep(CoPhases, coAhead, CoPhases', coAhead')
  BY <1>1, <1>3 DEF SerialStep
<1> QED BY <1>4, <1>7, <1>8, <1>9, <1>10, <1>11 DEF CoInv

\* A closure joins the final list.
LEMMA CoAppendFinal ==
    ASSUME CoInv, NEW k \in Callbacks, coPc[k] # "final", CO!AppendFinal(k)
    PROVE  /\ coFinal' = Append(coFinal, k) /\ coFinal' # <<>>
           /\ coFinal' \in Seq(Callbacks) /\ IsInjective(coFinal')
           /\ Range(coFinal') = Range(coFinal) \cup {k}
           /\ k \notin Range(coFinal) /\ k \notin Range(coBatch)
           /\ coState' = coState + 2 * (1 - One(coFinal # <<>>))
<1>1. /\ coFinal' = Append(coFinal, k) /\ coFinal \in Seq(Callbacks)
      /\ coState' = IF coFinal = <<>> THEN coState + 2 ELSE coState
  BY DEF CO!AppendFinal, CoInv, CO!TypeOK
<1>2. k \notin Range(coFinal) /\ k \notin Range(coBatch)
  BY DEF CoInv, CoFinals, CO!At
<1>3. /\ coFinal' \in Seq(Callbacks) /\ IsInjective(coFinal')
      /\ Range(coFinal') = Range(coFinal) \cup {k}
  <2>1. ToSet(coFinal) = Range(coFinal)
    BY <1>1 DEF ToSet, Range
  <2> QED BY <1>1, <1>2, <2>1, AppendFacts DEF CoInv, CoFinals
<1>4. coFinal' # <<>>
  BY <1>1
<1>5. coState' = coState + 2 * (1 - One(coFinal # <<>>))
  BY <1>1, CoWord DEF One
<1> QED BY <1>1, <1>2, <1>3, <1>4, <1>5

LEMMA CoFinallyRunInv ==
    ASSUME CoInv, NEW t \in CombinerThreads, NEW k \in Callbacks, CO!FinallyRun(t, k)
    PROVE  CoInv' /\ SerialStep(CoPhases, coAhead, CoPhases', coAhead')
<1>1. /\ coPc[k] = "idle" /\ coPc' = [coPc EXCEPT ![k] = "final"] /\ coHolder = t
      /\ CO!AppendFinal(k) /\ coFinally' = [coFinally EXCEPT ![k] = TRUE]
  BY DEF CO!FinallyRun, CO!Goto
<1>2. /\ coInitiating' = coInitiating /\ coTime' = coTime /\ coFreed' = coFreed
      /\ coQueue' = coQueue /\ coPushing' = coPushing /\ coHolder' = coHolder
      /\ coOffloaded' = coOffloaded /\ coBy' = coBy
      /\ coEx' = coEx /\ coCur' = coCur /\ coBatch' = coBatch /\ coAhead' = coAhead
  BY DEF CO!FinallyRun
<1>3. "final" \in CoPlaces /\ CO!TypeOK /\ coHolder # Null
  BY <1>1, CoConstants DEF CoPlaces, CoInv
<1>4. /\ coFinal' # <<>> /\ coFinal' \in Seq(Callbacks) /\ IsInjective(coFinal')
      /\ Range(coFinal') = Range(coFinal) \cup {k}
      /\ k \notin Range(coFinal) /\ k \notin Range(coBatch)
      /\ coState' = coState + 2 * (1 - One(coFinal # <<>>))
  BY <1>1, <1>3, CoAppendFinal
<1>5. CoEx' = CoEx
  BY <1>2 DEF CoEx
<1>6. coPc'[k] = "final" /\ \A j \in Callbacks : j # k => coPc'[j] = coPc[j]
  BY <1>1, <1>3, CoMove
<1>7. \A P : {"idle", "final"} \cap P = {} => CO!At(P)' = CO!At(P)
  BY <1>1, <1>6 DEF CO!At
<1>8. CO!TypeOK'
  <2>1. coFinally' \in [Callbacks -> BOOLEAN]
    BY <1>1, <1>3 DEF CO!TypeOK
  <2>2. coPc' \in [Callbacks -> CO!CallStates \cup {"idle", "queued", "running", "final"}]
    BY <1>1, <1>3 DEF CO!TypeOK
  <2>3. coState' \in Nat
    BY <1>4, CoWord DEF One
  <2> QED BY <1>2, <1>3, <1>4, <2>1, <2>2, <2>3 DEF CO!TypeOK
<1>9. CoOne' /\ CoQueued' /\ CoRuns' /\ CoTimely'
  BY <1>2, <1>4, <1>5, <1>7 DEF CoInv, CoOne, CoQueued, CoRuns, CoTimely
<1>10. CoFinals'
  <2>1. CO!At({"final"})' = CO!At({"final"}) \cup {k}
    BY <1>6 DEF CO!At
  <2> QED BY <1>2, <1>4, <2>1 DEF CoInv, CoFinals
<1>11. CoCounted'
  <2>0. "idle" \notin CoBusyPlaces /\ "final" \notin CoBusyPlaces
    BY DEF CoBusyPlaces
  <2>1. nBusy' = nBusy /\ nFirst' = nFirst
    BY <1>1, <1>3, <2>0, CoCount
  <2>2. nElements' = nElements + (1 - One(coFinal # <<>>))
    BY <1>4, <1>5, <2>1, CoNumbers DEF nElements, One
  <2>3. nElements > 0
    BY <1>3, CoWord, CoNumbers DEF One
  <2>4. coState # 0 /\ coState' # 0
    BY <1>4, <2>3, CoWord DEF One
  <2>5. coState' = 2 * nElements' \/ coState' = 2 * nElements' + 1
    BY <1>4, <2>2, CoWord DEF One
  <2>6. One(nElements' > 0) = One(nElements > 0)
    BY <2>2, <2>3, CoWord DEF One
  <2> QED BY <1>2, <2>1, <2>4, <2>5, <2>6 DEF CoInv, CoCounted
<1>12. CoCallers'
  <2>1. CO!At(CoCallPlaces)' = CO!At(CoCallPlaces)
    BY <1>7 DEF CoCallPlaces
  <2> QED BY <1>2, <2>1 DEF CoInv, CoCallers
<1>13. CoOrdered'
  <2>2. /\ CO!At({"running"})' = CO!At({"running"})
        /\ CO!At({"queued", "running"})' = CO!At({"queued", "running"})
    BY <1>7
  <2> QED BY <1>1, <1>2, <1>6, <2>2 DEF CoInv, CoOrdered
<1>14. SerialStep(CoPhases, coAhead, CoPhases', coAhead')
  <2>1. CoPhases' = [CoPhases EXCEPT ![k] = "idle"] /\ CoPhases[k] = "idle"
    BY <1>1, <1>3, CoMove DEF CoPhaseOf, CoCallPlaces
  <2>2. CoPhases' = CoPhases
    BY <2>1 DEF CoPhases
  <2> QED BY <1>2, <2>2 DEF SerialStep
<1> QED BY <1>8, <1>9, <1>10, <1>11, <1>12, <1>13, <1>14 DEF CoInv

\* What the thread that has the combiner does next.
LEMMA CoGoto ==
    ASSUME CO!TypeOK, NEW t \in CombinerThreads, NEW e \in {"out", "run", "final", "finish"},
           coHolder = t, coHolder' = t, coEx' = [coEx EXCEPT ![t] = e], CoOne
    PROVE  /\ coEx' \in [CombinerThreads -> {"out", "run", "final", "finish"}]
           /\ CoEx = coEx[t] /\ CoEx' = e /\ CoOne'
BY CoConstants DEF CO!TypeOK, CoEx, CoOne

LEMMA CoPopInv ==
    ASSUME CoInv, NEW t \in CombinerThreads, CO!Pop(t)
    PROVE  CoInv' /\ SerialStep(CoPhases, coAhead, CoPhases', coAhead')
<1> DEFINE k == Head(coQueue)
<1>1. /\ coHolder = t /\ coEx[t] = "out" /\ coQueue # <<>> /\ k \notin coPushing
      /\ coQueue' = Tail(coQueue) /\ coPushing' = coPushing /\ coCur' = k
      /\ coPc' = [coPc EXCEPT ![k] = "running"] /\ coEx' = [coEx EXCEPT ![t] = "run"]
  BY DEF CO!Pop, CO!Goto, CO!Flushing, CO!Q!Take, CO!Q!Available
<1>2. /\ coState' = coState /\ coInitiating' = coInitiating /\ coFinal' = coFinal
      /\ coTime' = coTime /\ coFreed' = coFreed /\ coHolder' = coHolder
      /\ coOffloaded' = coOffloaded /\ coBy' = coBy /\ coFinally' = coFinally
      /\ coBatch' = coBatch /\ coAhead' = coAhead
  BY DEF CO!Pop
<1>3. "running" \in CoPlaces /\ CO!TypeOK /\ coQueue \in Seq(Callbacks) /\ CoOne
  BY DEF CoPlaces, CoBusyPlaces, CoInv, CO!TypeOK
<1>4. /\ k \in Callbacks /\ coQueue' \in Seq(Callbacks)
      /\ k \in Range(coQueue) /\ Range(coQueue') = Range(coQueue) \ {k}
      /\ IsInjective(coQueue')
  BY <1>1, <1>3, TailFacts, TailInjective DEF CoInv, CoQueued
<1>5. coPc[k] = "queued" /\ k # Null
  BY <1>1, <1>4, CoConstants DEF CoInv, CoQueued, CO!At
<1> HIDE DEF k
<1>6. /\ coEx' \in [CombinerThreads -> {"out", "run", "final", "finish"}]
      /\ CoEx = "out" /\ CoEx' = "run" /\ CoOne'
  BY <1>1, <1>2, <1>3, CoGoto
<1>7. coPc'[k] = "running" /\ \A j \in Callbacks : j # k => coPc'[j] = coPc[j]
  BY <1>1, <1>3, <1>4, CoMove
<1>8. \A P : {"queued", "running"} \cap P = {} => CO!At(P)' = CO!At(P)
  BY <1>5, <1>7 DEF CO!At
<1>9. coCur = Null /\ coBatch = <<>> /\ CO!At({"running"}) = {}
  BY <1>6 DEF CoInv, CoRuns
<1>10. CO!TypeOK'
  <2>1. coPc' \in [Callbacks -> CO!CallStates \cup {"idle", "queued", "running", "final"}]
    BY <1>1, <1>3 DEF CO!TypeOK
  <2> QED BY <1>1, <1>2, <1>3, <1>4, <1>6, <2>1 DEF CO!TypeOK
<1>11. CoQueued'
  <2>1. /\ CO!At({"link", "queued"})' = CO!At({"link", "queued"}) \ {k}
        /\ CO!At({"link"})' = CO!At({"link"})
    BY <1>5, <1>7 DEF CO!At
  <2> QED BY <1>1, <1>4, <2>1 DEF CoInv, CoQueued
<1>12. CoFinals'
  BY <1>2, <1>8 DEF CoInv, CoFinals
<1>13. CO!At({"running"})' = {k}
  BY <1>4, <1>7, <1>9 DEF CO!At
<1>14. CoRuns' /\ CoTimely'
  BY <1>1, <1>2, <1>5, <1>6, <1>9, <1>13 DEF CoInv, CoRuns, CoTimely
<1>15. CoCounted'
  <2>0. "queued" \in CoBusyPlaces /\ "running" \in CoBusyPlaces
    BY DEF CoBusyPlaces
  <2>1. nBusy' = nBusy /\ nFirst' = nFirst
    BY <1>1, <1>3, <1>4, <1>5, <2>0, CoCount
  <2>2. nElements' = nElements
    BY <1>2, <1>6, <2>1 DEF nElements, One
  <2> QED BY <1>2, <2>1, <2>2 DEF CoInv, CoCounted
<1>16. CoCallers'
  <2>1. CO!At(CoCallPlaces)' = CO!At(CoCallPlaces)
    BY <1>8 DEF CoCallPlaces
  <2> QED BY <1>2, <2>1 DEF CoInv, CoCallers
<1>17. coAhead[k] = {} /\ InOrder(coQueue', {k}, coAhead)
  <2>1. InOrder(coQueue, {}, coAhead)
    BY <1>9 DEF CoInv, CoOrdered
  <2>2. coAhead[k] \subseteq {} /\ InOrder(Tail(coQueue), {} \cup {k}, coAhead)
    BY <1>1, <1>3, <2>1, OrderTail DEF k
  <2> QED BY <1>1, <2>2
<1>18. CoOrdered'
  <2>1. CO!At({"queued", "running"})' = CO!At({"queued", "running"})
    BY <1>4, <1>5, <1>7 DEF CO!At
  <2> QED BY <1>1, <1>2, <1>7, <1>13, <1>17, <2>1 DEF CoInv, CoOrdered
<1>19. SerialStep(CoPhases, coAhead, CoPhases', coAhead')
  <2>1. CoPhases' = [CoPhases EXCEPT ![k] = "running"] /\ CoPhases[k] = "waiting"
    BY <1>1, <1>3, <1>4, <1>5, CoMove DEF CoPhaseOf, CoCallPlaces
  <2>2. \A j \in Callbacks : CoPhases[j] # "running"
    BY <1>3, <1>9 DEF CoPhases, CO!Phase, CO!At, CO!TypeOK, CO!CallStates
  <2> QED BY <1>2, <1>4, <1>17, <2>1, <2>2 DEF SerialStep
<1> QED BY <1>6, <1>10, <1>11, <1>12, <1>14, <1>15, <1>16, <1>18, <1>19 DEF CoInv

\* A closure that is in nobody's way any more.
LEMMA CoBefore ==
    ASSUME CoInv, NEW k \in Callbacks, coPc[k] \in {"idle", "final"}
    PROVE  \A d \in Callbacks : k \notin coAhead[d]
<1> SUFFICES ASSUME NEW d \in Callbacks, k \in coAhead[d] PROVE FALSE
  OBVIOUS
<1>1. coPc[d] \in CoPlaces /\ coPc[d] \notin {"idle", "running", "final"}
  BY DEF CoInv, CoOrdered, CO!TypeOK, CO!CallStates, CoPlaces, CoBusyPlaces
<1>2. coPc[d] \notin {"first", "later", "clear", "push"}
  BY DEF CoInv, CoOrdered, CO!At
<1>3. d \in Range(coQueue)
  BY <1>1, <1>2 DEF CoInv, CoQueued, CO!At, CoPlaces, CoBusyPlaces
<1>4. PICK j \in 1 .. Len(coQueue) : coQueue[j] = d
  BY <1>3 DEF Range, CoInv, CO!TypeOK
<1>5. k \in CO!At({"running"}) \/ \E i \in 1 .. (j - 1) : coQueue[i] = k
  BY <1>4 DEF CoInv, CoOrdered, InOrder
<1>6. PICK i \in 1 .. (j - 1) : coQueue[i] = k
  BY <1>5 DEF CO!At
<1>7. i \in DOMAIN coQueue
  BY <1>4, <1>6 DEF CoInv, CO!TypeOK
<1>8. k \in Range(coQueue)
  BY <1>6, <1>7 DEF Range
<1> QED BY <1>8 DEF CoInv, CoQueued, CO!At

\* The callback of a closure has returned, or was the one that puts it in the
\* final list.
LEMMA CoReturnInv ==
    ASSUME CoInv, NEW t \in CombinerThreads, CO!CallbackDone(t) \/ CO!EnqueueFinally(t)
    PROVE  CoInv' /\ SerialStep(CoPhases, coAhead, CoPhases', coAhead')
<1> DEFINE k == coCur
<1>1. /\ coEx[t] = "run" /\ coCur' = Null /\ coEx' = [coEx EXCEPT ![t] = "finish"]
      /\ coAhead' = [d \in Callbacks |-> coAhead[d] \ {k}]
  BY DEF CO!CallbackDone, CO!EnqueueFinally, CO!Executed
<1>2. /\ coInitiating' = coInitiating
      /\ coTime' = coTime /\ coFreed' = coFreed /\ coHolder' = coHolder
      /\ coOffloaded' = coOffloaded /\ coBy' = coBy /\ coFinally' = coFinally
      /\ coBatch' = coBatch /\ coQueue' = coQueue /\ coPushing' = coPushing
  BY DEF CO!CallbackDone, CO!EnqueueFinally
<1>3. CO!TypeOK /\ CoOne /\ coHolder = t /\ t # Null
  BY <1>1, CoConstants DEF CoInv, CoOne
<1>4. /\ coEx' \in [CombinerThreads -> {"out", "run", "final", "finish"}]
      /\ CoEx = "run" /\ CoEx' = "finish" /\ CoOne'
  <2>1. coHolder' = t /\ "finish" \in {"out", "run", "final", "finish"}
    BY <1>2, <1>3
  <2>2. /\ coEx' \in [CombinerThreads -> {"out", "run", "final", "finish"}]
        /\ CoEx = coEx[t] /\ CoEx' = "finish" /\ CoOne'
    BY <1>1, <1>3, <2>1, CoGoto
  <2> QED BY <1>1, <2>2
<1>5. k \in Callbacks /\ coPc[k] = "running" /\ CO!At({"running"}) = {k}
  <2>1. k # Null
    BY <1>4 DEF CoInv, CoRuns
  <2> QED BY <2>1 DEF CoInv, CoRuns, CO!At
<1>6. PICK l \in {"idle", "final"} :
         /\ coPc' = [coPc EXCEPT ![k] = l]
         /\ l = "idle" => coState' = coState /\ coFinal' = coFinal
         /\ l = "final" => CO!AppendFinal(k)
  BY DEF CO!CallbackDone, CO!EnqueueFinally, CO!Executed, CO!Goto
<1>7. l \in CoPlaces /\ l \notin CoBusyPlaces /\ coPc[k] \in CoBusyPlaces /\ coPc[k] # "final"
  BY <1>5 DEF CoPlaces, CoBusyPlaces
<1> HIDE DEF k
<1>8. coPc'[k] = l /\ \A j \in Callbacks : j # k => coPc'[j] = coPc[j]
  BY <1>3, <1>5, <1>6, <1>7, CoMove
<1>9. \A P : {"running", "idle", "final"} \cap P = {} => CO!At(P)' = CO!At(P)
  BY <1>5, <1>8 DEF CO!At
<1>10. CO!At({"running"})' = {}
  BY <1>5, <1>8 DEF CO!At
\* the final list
<1>11. /\ coFinal' \in Seq(Callbacks) /\ coState' \in Nat /\ CoFinals'
       /\ coTime => coTime'
       /\ coState' = coState + 2 * (One(coFinal' # <<>>) - One(coFinal # <<>>))
       /\ coFinal # <<>> => coFinal' # <<>>
  <2>1. CASE l = "idle"
    <3>1. CO!At({"final"})' = CO!At({"final"})
      BY <1>5, <1>8, <2>1 DEF CO!At
    <3>2. coState' = coState /\ coFinal' = coFinal
      BY <1>6, <2>1
    <3>3. CoFinals'
      BY <1>2, <3>1, <3>2 DEF CoInv, CoFinals
    <3>4. coState' = coState + 2 * (One(coFinal' # <<>>) - One(coFinal # <<>>))
      BY <3>2, CoWord DEF One
    <3> QED BY <1>2, <1>3, <3>2, <3>3, <3>4 DEF CO!TypeOK
  <2>2. CASE l = "final"
    <3>1. /\ coFinal' # <<>> /\ coFinal' \in Seq(Callbacks) /\ IsInjective(coFinal')
          /\ Range(coFinal') = Range(coFinal) \cup {k}
          /\ k \notin Range(coFinal) /\ k \notin Range(coBatch)
          /\ coState' = coState + 2 * (1 - One(coFinal # <<>>))
      BY <1>5, <1>6, <1>7, <2>2, CoAppendFinal
    <3>2. CO!At({"final"})' = CO!At({"final"}) \cup {k}
      BY <1>5, <1>8, <2>2 DEF CO!At
    <3>3. CoFinals'
      BY <1>2, <3>1, <3>2 DEF CoInv, CoFinals
    <3>4. coState' = coState + 2 * (One(coFinal' # <<>>) - One(coFinal # <<>>)) /\ coState' \in Nat
      BY <3>1, CoWord DEF One
    <3> QED BY <1>2, <3>1, <3>3, <3>4
  <2> QED BY <2>1, <2>2
<1>12. CO!TypeOK'
  <2>1. coPc' \in [Callbacks -> CO!CallStates \cup {"idle", "queued", "running", "final"}]
    BY <1>3, <1>6 DEF CO!TypeOK
  <2>2. coAhead' \in [Callbacks -> SUBSET Callbacks]
    BY <1>1, <1>3 DEF CO!TypeOK
  <2> QED BY <1>1, <1>2, <1>3, <1>4, <1>11, <2>1, <2>2 DEF CO!TypeOK
<1>13. CoQueued'
  <2>1. CO!At({"link", "queued"})' = CO!At({"link", "queued"}) /\ CO!At({"link"})' = CO!At({"link"})
    BY <1>9
  <2> QED BY <1>2, <2>1 DEF CoInv, CoQueued
<1>14. CoRuns'
  <2>1. coBatch = <<>>
    BY <1>4 DEF CoInv, CoRuns
  <2> QED BY <1>1, <1>2, <1>4, <1>10, <2>1 DEF CoRuns
<1>15. CoTimely'
  BY <1>4 DEF CoTimely
<1>16. CoCounted'
  <2>1. nBusy' = nBusy - 1 /\ nFirst' = nFirst
    BY <1>3, <1>5, <1>6, <1>7, CoCount
  <2>2. nElements' = nElements + One(coFinal' # <<>>) - One(coFinal # <<>>)
    BY <1>4, <2>1, CoNumbers DEF nElements, One
  <2>3. nElements > 0 /\ nElements' > 0
    <3>1. nElements > 0
      BY <1>3, CoWord, CoNumbers DEF One
    <3>2. nElements' >= nElements
      BY <1>11, <2>2, CoNumbers DEF One
    <3> QED BY <2>2, <3>1, <3>2, CoNumbers DEF One
  <2>4. coState' = 2 * nElements' \/ coState' = 2 * nElements' + 1
    BY <1>11, <2>2, CoWord DEF One
  <2>5. coState # 0 /\ coState' # 0
    BY <2>2, <2>3, <2>4, CoWord DEF One
  <2>6. One(nElements' > 0) = One(nElements > 0)
    BY <2>3 DEF One
  <2> QED BY <1>2, <2>1, <2>4, <2>5, <2>6 DEF CoInv, CoCounted
<1>17. CoCallers'
  <2>1. CO!At(CoCallPlaces)' = CO!At(CoCallPlaces)
    BY <1>9 DEF CoCallPlaces
  <2> QED BY <1>2, <2>1 DEF CoInv, CoCallers
<1>18. CoOrdered'
  <2>1. CO!At({"queued", "running"})' = CO!At({"queued", "running"}) \ {k}
    BY <1>5, <1>8 DEF CO!At
  <2>2. \A x \in Range(coQueue) : x \in Callbacks
    BY <1>3 DEF Range, CO!TypeOK
  <2>3. \A x \in Range(coQueue) : \A d \in coAhead'[x] :
           d \in coAhead[x] /\ (d \in CO!At({"running"}) => d \in CO!At({"running"})')
    BY <1>1, <1>5, <2>2
  <2>4. InOrder(coQueue, CO!At({"running"}), coAhead) /\ coQueue \in Seq(Callbacks)
    BY <1>3 DEF CoInv, CoOrdered, CO!TypeOK
  <2>5. InOrder(coQueue, CO!At({"running"})', coAhead')
    BY <2>3, <2>4, OrderKept
  <2>6. \A j \in Callbacks : coAhead'[j] = coAhead[j] \ {k}
    BY <1>1
  <2>7. coAhead[k] = {}
    BY <1>5 DEF CoInv, CoOrdered
  <2> QED BY <1>2, <1>8, <2>1, <2>5, <2>6, <2>7 DEF CoInv, CoOrdered
<1>19. SerialStep(CoPhases, coAhead, CoPhases', coAhead')
  <2>1. CoPhases' = [CoPhases EXCEPT ![k] = "idle"] /\ CoPhases[k] = "running"
    BY <1>3, <1>5, <1>6, <1>7, CoMove DEF CoPhaseOf, CoCallPlaces
  <2> QED BY <1>1, <1>5, <2>1 DEF SerialStep
<1> QED BY <1>4, <1>11, <1>12, <1>13, <1>14, <1>15, <1>16, <1>17, <1>18, <1>19 DEF CoInv

\* The final list is taken: nothing else is left.
LEMMA CoStartFinalInv ==
    ASSUME CoInv, NEW t \in CombinerThreads, CO!StartFinal(t)
    PROVE  /\ CoInv' /\ SerialStep(CoPhases, coAhead, CoPhases', coAhead')
           /\ coFinal # <<>> /\ CoBusy = {}
<1>1. /\ coHolder = t /\ coEx[t] = "out" /\ ~CO!PopsQueue
      /\ coBatch' = coFinal /\ coFinal' = <<>> /\ coEx' = [coEx EXCEPT ![t] = "final"]
  BY DEF CO!StartFinal, CO!Flushing
<1>2. /\ coState' = coState /\ coInitiating' = coInitiating
      /\ coTime' = coTime /\ coFreed' = coFreed /\ coHolder' = coHolder
      /\ coOffloaded' = coOffloaded /\ coBy' = coBy /\ coFinally' = coFinally
      /\ coQueue' = coQueue /\ coPushing' = coPushing /\ coPc' = coPc
      /\ coCur' = coCur /\ coAhead' = coAhead
  BY DEF CO!StartFinal
<1>3. CO!TypeOK /\ CoOne
  BY DEF CoInv
<1>4. /\ coEx' \in [CombinerThreads -> {"out", "run", "final", "finish"}]
      /\ CoEx = "out" /\ CoEx' = "final" /\ CoOne'
  BY <1>1, <1>2, <1>3, CoGoto
<1>5. nBusy' = nBusy /\ nFirst' = nFirst /\ CoPhases' = CoPhases
      /\ \A P : CO!At(P)' = CO!At(P)
  BY <1>2, CoStay
<1>6. coTime /\ nElements <= 1
  BY <1>1, CoWord DEF CO!PopsQueue
<1>7. coFinal # <<>> /\ coBatch = <<>> /\ coCur = Null
  BY <1>4, <1>6 DEF CoInv, CoTimely, CoRuns
<1>8. nBusy = 0 /\ CoBusy = {}
  BY <1>4, <1>6, <1>7, CoNumbers DEF nElements, One
<1>9. CO!TypeOK'
  <2>1. coFinal' \in Seq(Callbacks) /\ coBatch' \in Seq(Callbacks)
    BY <1>1, <1>3 DEF CO!TypeOK
  <2> QED BY <1>2, <1>3, <1>4, <2>1 DEF CO!TypeOK
<1>10. CoQueued' /\ CoCallers' /\ CoOrdered'
  BY <1>2, <1>5 DEF CoInv, CoQueued, CoCallers, CoOrdered
<1>11. CoFinals'
  <2>1. Range(coFinal') = {} /\ IsInjective(coFinal') /\ Range(coBatch) = {}
    BY <1>1, <1>7 DEF Range, IsInjective
  <2> QED BY <1>1, <1>5, <2>1 DEF CoInv, CoFinals
<1>12. CoRuns' /\ CoTimely'
  BY <1>1, <1>2, <1>4, <1>5, <1>7 DEF CoInv, CoRuns, CoTimely
<1>13. CoCounted'
  <2>1. nElements' = nElements
    BY <1>1, <1>4, <1>5, <1>7, CoNumbers DEF nElements, One
  <2> QED BY <1>2, <1>5, <2>1 DEF CoInv, CoCounted
<1>14. SerialStep(CoPhases, coAhead, CoPhases', coAhead')
  BY <1>2, <1>5 DEF SerialStep
<1> QED BY <1>4, <1>7, <1>8, <1>9, <1>10, <1>11, <1>12, <1>13, <1>14 DEF CoInv

\* The next closure of the final list has returned.
LEMMA CoFinalDoneInv ==
    ASSUME CoInv, NEW t \in CombinerThreads, CO!FinalDone(t)
    PROVE  CoInv' /\ SerialStep(CoPhases, coAhead, CoPhases', coAhead')
<1> DEFINE k == Head(coBatch)
           e == IF Len(coBatch) = 1 THEN "finish" ELSE "final"
<1>1. /\ coEx[t] = "final" /\ coBatch # <<>> /\ coBatch' = Tail(coBatch)
      /\ coPc' = [coPc EXCEPT ![k] = "idle"]
      /\ coAhead' = [d \in Callbacks |-> coAhead[d] \ {k}]
      /\ coEx' = [coEx EXCEPT ![t] = e]
  BY DEF CO!FinalDone, CO!Executed
<1>2. /\ coState' = coState /\ coInitiating' = coInitiating /\ coFinal' = coFinal
      /\ coTime' = coTime /\ coFreed' = coFreed /\ coHolder' = coHolder
      /\ coOffloaded' = coOffloaded /\ coBy' = coBy /\ coFinally' = coFinally
      /\ coQueue' = coQueue /\ coPushing' = coPushing /\ coCur' = coCur
  BY DEF CO!FinalDone
<1>3. CO!TypeOK /\ CoOne /\ coHolder = t /\ coHolder' = t /\ e \in {"final", "finish"}
  BY <1>1, <1>2 DEF CoInv, CoOne
<1>4. /\ k \in Callbacks /\ k \in Range(coBatch) /\ coBatch' \in Seq(Callbacks)
      /\ Range(coBatch') = Range(coBatch) \ {k} /\ IsInjective(coBatch')
      /\ Len(coBatch') = Len(coBatch) - 1 /\ Len(coBatch) \in Nat
  <2>1. coBatch \in Seq(Callbacks) /\ IsInjective(coBatch)
    BY DEF CoInv, CO!TypeOK, CoFinals
  <2> QED BY <1>1, <2>1, TailFacts, TailInjective
<1>5. coBatch' # <<>> <=> e = "final"
  BY <1>4
<1>6. coPc[k] = "final" /\ k \notin Range(coFinal)
  BY <1>4 DEF CoInv, CoFinals, CO!At
<1> HIDE DEF k, e
<1>7. /\ coEx' \in [CombinerThreads -> {"out", "run", "final", "finish"}]
      /\ CoEx = "final" /\ CoEx' = e /\ CoOne'
  <2>1. /\ coEx' \in [CombinerThreads -> {"out", "run", "final", "finish"}]
        /\ CoEx = coEx[t] /\ CoEx' = e /\ CoOne'
    BY <1>1, <1>3, CoGoto
  <2> QED BY <1>1, <2>1
<1>8. "idle" \in CoPlaces /\ "idle" \notin CoBusyPlaces /\ "final" \notin CoBusyPlaces
  BY DEF CoPlaces, CoBusyPlaces
<1>9. coPc'[k] = "idle" /\ \A j \in Callbacks : j # k => coPc'[j] = coPc[j]
  BY <1>1, <1>3, <1>4, <1>8, CoMove
<1>10. \A P : {"idle", "final"} \cap P = {} => CO!At(P)' = CO!At(P)
  BY <1>6, <1>9 DEF CO!At
<1>11. coAhead' = coAhead
  <2>1. \A d \in Callbacks : coAhead'[d] = coAhead[d]
    BY <1>1, <1>4, <1>6, CoBefore
  <2> QED BY <1>1, <1>3, <2>1 DEF CO!TypeOK
<1>12. CO!TypeOK'
  <2>1. coPc' \in [Callbacks -> CO!CallStates \cup {"idle", "queued", "running", "final"}]
    BY <1>1, <1>3 DEF CO!TypeOK
  <2> QED BY <1>2, <1>3, <1>4, <1>7, <1>11, <2>1 DEF CO!TypeOK
<1>13. CoQueued'
  <2>1. CO!At({"link", "queued"})' = CO!At({"link", "queued"}) /\ CO!At({"link"})' = CO!At({"link"})
    BY <1>10
  <2> QED BY <1>2, <2>1 DEF CoInv, CoQueued
<1>14. CoFinals'
  <2>1. CO!At({"final"})' = CO!At({"final"}) \ {k}
    BY <1>6, <1>9 DEF CO!At
  <2> QED BY <1>2, <1>4, <1>6, <2>1 DEF CoInv, CoFinals
<1>15. CoRuns' /\ CoTimely'
  <2>1. CO!At({"running"})' = CO!At({"running"}) /\ coCur = Null
    BY <1>7, <1>10 DEF CoInv, CoRuns
  <2> QED BY <1>2, <1>3, <1>5, <1>7, <2>1 DEF CoInv, CoRuns, CoTimely
<1>16. CoCounted'
  <2>1. nBusy' = nBusy /\ nFirst' = nFirst
    BY <1>1, <1>3, <1>4, <1>6, <1>8, CoCount
  <2>2. nElements' = nElements
    BY <1>2, <1>3, <1>7, <2>1 DEF nElements, One
  <2> QED BY <1>2, <2>1, <2>2 DEF CoInv, CoCounted
<1>17. CoCallers'
  <2>1. CO!At(CoCallPlaces)' = CO!At(CoCallPlaces)
    BY <1>10 DEF CoCallPlaces
  <2> QED BY <1>2, <2>1 DEF CoInv, CoCallers
<1>18. CoOrdered'
  <2>1. /\ CO!At({"running"})' = CO!At({"running"})
        /\ CO!At({"queued", "running"})' = CO!At({"queued", "running"})
    BY <1>10
  <2> QED BY <1>2, <1>6, <1>9, <1>11, <2>1 DEF CoInv, CoOrdered
<1>19. SerialStep(CoPhases, coAhead, CoPhases', coAhead')
  <2>1. CoPhases' = [CoPhases EXCEPT ![k] = "idle"] /\ CoPhases[k] = "idle"
    BY <1>1, <1>3, <1>4, <1>6, <1>8, CoMove DEF CoPhaseOf, CoCallPlaces
  <2>2. CoPhases' = CoPhases
    BY <2>1 DEF CoPhases
  <2> QED BY <1>11, <2>2 DEF SerialStep
<1> QED BY <1>7, <1>12, <1>13, <1>14, <1>15, <1>16, <1>17, <1>18, <1>19 DEF CoInv

\* The element that was executed is counted down.
LEMMA CoFinishInv ==
    ASSUME CoInv, NEW t \in CombinerThreads, CO!Finish(t)
    PROVE  CoInv' /\ SerialStep(CoPhases, coAhead, CoPhases', coAhead')
<1>1. /\ coEx[t] = "finish" /\ coState' = coState - 2
      /\ coTime' = (CO!Elements = 2 /\ coFinal # <<>>)
      /\ coFreed' = (coFreed \/ coState = 2)
      /\ coHolder' = IF CO!Elements = 1 THEN Null ELSE t
      /\ coEx' = [coEx EXCEPT ![t] = "out"]
  BY DEF CO!Finish
<1>2. /\ coInitiating' = coInitiating /\ coFinal' = coFinal
      /\ coOffloaded' = coOffloaded /\ coBy' = coBy /\ coFinally' = coFinally
      /\ coQueue' = coQueue /\ coPushing' = coPushing /\ coPc' = coPc
      /\ coCur' = coCur /\ coBatch' = coBatch /\ coAhead' = coAhead
  BY DEF CO!Finish
<1>3. CO!TypeOK /\ coHolder = t /\ CoEx = "finish" /\ t # Null
  BY <1>1, CoConstants, CoExecutes DEF CoInv
<1>4. nBusy' = nBusy /\ nFirst' = nFirst /\ CoPhases' = CoPhases
      /\ \A P : CO!At(P)' = CO!At(P)
  BY <1>2, CoStay
<1>5. \A u \in CombinerThreads : coEx'[u] = "out"
  BY <1>1, <1>3 DEF CoInv, CoOne, CO!TypeOK
<1>6. CoEx' = "out" /\ CoOne' /\ coHolder' \in CombinerThreads \cup {Null}
  BY <1>1, <1>5 DEF CoEx, CoOne
<1>7. nElements \in Nat /\ nElements > 0 /\ nFirst = 0 /\ ~coOffloaded
  BY <1>3, CoWord, CoNumbers DEF One
<1>8. nElements' = nElements - 1
  BY <1>2, <1>3, <1>4, <1>6, CoNumbers DEF nElements, One
<1>9. coState' \in Nat /\ (coState' = 2 * nElements' \/ coState' = 2 * nElements' + 1)
      /\ (coState = 2 <=> coState' = 0) /\ coState # 0
  BY <1>1, <1>7, <1>8, CoWord
<1>10. coFreed' \in BOOLEAN /\ (coFreed' <=> coState = 2) /\ coTime' \in BOOLEAN
       /\ (coTime' => coFinal # <<>>)
  <2>1. ~coFreed
    BY <1>9, CoWord, Zenon
  <2> QED BY <1>1, <2>1, Zenon
<1>11. CO!TypeOK'
  <2>1. coEx' \in [CombinerThreads -> {"out", "run", "final", "finish"}]
    BY <1>1, <1>3 DEF CO!TypeOK
  <2> QED BY <1>2, <1>3, <1>6, <1>9, <1>10, <2>1 DEF CO!TypeOK
<1>12. CoQueued' /\ CoCallers' /\ CoOrdered' /\ CoFinals'
  BY <1>2, <1>4 DEF CoInv, CoQueued, CoCallers, CoOrdered, CoFinals
<1>13. CoRuns' /\ CoTimely'
  <2>1. coCur = Null /\ coBatch = <<>>
    BY <1>3 DEF CoInv, CoRuns
  <2> QED BY <1>2, <1>4, <1>6, <1>10, <2>1 DEF CoInv, CoRuns, CoTimely
<1>14. CoCounted'
  <2>1. coHolder' = IF nElements = 1 THEN Null ELSE t
    BY <1>1, CoWord
  <2>2. One(coHolder' # Null) = One(nElements' > 0)
    BY <1>3, <1>7, <1>8, <2>1 DEF One
  <2>3. One(coOffloaded') = 0 /\ nFirst' = 0
    BY <1>2, <1>4, <1>7 DEF One
  <2>4. nFirst' + One(coHolder' # Null) + One(coOffloaded') = One(nElements' > 0)
    BY <2>2, <2>3 DEF One
  <2> QED BY <1>9, <1>10, <2>4 DEF CoCounted
<1>15. SerialStep(CoPhases, coAhead, CoPhases', coAhead')
  BY <1>2, <1>4 DEF SerialStep
<1> QED BY <1>6, <1>11, <1>12, <1>13, <1>14, <1>15 DEF CoInv

LEMMA CoStep ==
    ASSUME CoInv, CO!Next \/ UNCHANGED coVars
    PROVE  CoInv' /\ SerialStep(CoPhases, coAhead, CoPhases', coAhead')
<1>1. CASE CO!Calls
  BY <1>1, CoRunInv, CoFinallyRunInv DEF CO!Calls
<1>2. CASE \E k \in Callbacks : CO!Push(k)
  BY <1>2, CoTakeInv, CoInitiatorInv, CoPushClaimInv, CoPushLinkInv DEF CO!Push
<1>3. CASE CO!StartDestroy \/ \E t \in CombinerThreads : CO!Continue(t)
  BY <1>3, CoHandOverInv, CoPopInv, CoReturnInv, CoStartFinalInv, CoFinalDoneInv,
     CoFinishInv DEF CO!Continue
<1>4. CASE UNCHANGED coVars
  <2>1. /\ coState' = coState /\ coInitiating' = coInitiating /\ coFinal' = coFinal
        /\ coTime' = coTime /\ coFreed' = coFreed /\ coHolder' = coHolder
        /\ coOffloaded' = coOffloaded /\ coBy' = coBy /\ coFinally' = coFinally
        /\ coQueue' = coQueue /\ coPushing' = coPushing /\ coPc' = coPc /\ coEx' = coEx
        /\ coCur' = coCur /\ coBatch' = coBatch /\ coAhead' = coAhead
    BY <1>4 DEF coVars
  <2>2. nBusy' = nBusy /\ nFirst' = nFirst /\ CoPhases' = CoPhases
        /\ \A P : CO!At(P)' = CO!At(P)
    BY <2>1, CoStay
  <2>3. CoEx' = CoEx /\ nElements' = nElements
    BY <2>1, <2>2 DEF CoEx, nElements
  <2>4. CO!TypeOK' /\ CoOne' /\ CoQueued' /\ CoFinals' /\ CoRuns'
    BY <2>1, <2>2, <2>3 DEF CoInv, CO!TypeOK, CoOne, CoQueued, CoFinals, CoRuns
  <2>5. CoTimely' /\ CoCounted' /\ CoCallers' /\ CoOrdered'
    BY <2>1, <2>2, <2>3 DEF CoInv, CoTimely, CoCounted, CoCallers, CoOrdered
  <2> QED BY <2>1, <2>2, <2>4, <2>5 DEF SerialStep, CoInv
<1> QED BY <1>1, <1>2, <1>3, <1>4 DEF CO!Next

\* The invariant is enough for the properties of the run.
LEMMA CoOneParty == CoInv => CO!OneParty
<1> SUFFICES ASSUME CoInv PROVE CO!OneParty
  OBVIOUS
<1>1. CO!Cardinality(CO!At({"first"})) = nFirst
  BY Zenon DEF CO!Cardinality, Cardinality, CO!IsFiniteSet, IsFiniteSet, nFirst, CoFirst
<1>2. nFirst + (IF coHolder # Null THEN 1 ELSE 0) + (IF coOffloaded THEN 1 ELSE 0)
         = (IF CO!Elements > 0 THEN 1 ELSE 0)
  BY CoWord DEF One
<1>3. coFreed <=> coState = 0
  BY CoWord
<1>4. coFreed => CO!At({"idle"}) = Callbacks
  <2> SUFFICES ASSUME coState = 0 PROVE CO!At({"idle"}) = Callbacks
    BY <1>3
  <2>1. nElements = 0
    BY CoWord
  <2>2. nBusy = 0 /\ coFinal = <<>> /\ CoEx \notin {"final", "finish"}
    BY <2>1, CoNumbers DEF nElements, One
  <2>3. CoBusy = {} /\ coBatch = <<>>
    BY <2>2, CoNumbers DEF CoInv, CoRuns
  <2>4. CO!At({"final"}) = {}
    BY <2>2, <2>3 DEF CoInv, CoFinals, Range
  <2> QED BY <2>3, <2>4 DEF CoBusy, CO!At, CoInv, CO!TypeOK, CO!CallStates, CoBusyPlaces
<1> QED BY <1>1, <1>2, <1>3, <1>4, Zenon DEF CO!OneParty

LEMMA CoFinalLast ==
    ASSUME CoInv, CO!Next \/ UNCHANGED coVars, NEW t \in CombinerThreads,
           coEx[t] # "final", coEx'[t] = "final"
    PROVE  coFinal # <<>> /\ CO!At(CO!CallStates \cup {"queued", "running"}) = {}
<1>1. coEx \in [CombinerThreads -> {"out", "run", "final", "finish"}]
  BY DEF CoInv, CO!TypeOK
<1>2. ~(UNCHANGED coVars) /\ ~CO!Calls /\ ~CO!StartDestroy /\ ~(\E k \in Callbacks : CO!Push(k))
  BY DEF coVars, CO!Calls, CO!Run, CO!FinallyRun, CO!StartDestroy, CO!Push,
         CO!TakeCombiner, CO!LoadInitiator, CO!ClearInitiator, CO!PushClaim, CO!PushLink
<1>3. PICK u \in CombinerThreads : CO!Continue(u)
  BY <1>2 DEF CO!Next
<1>4. ~(CO!OffloadContended(u) \/ CO!OffloadInconsistent(u) \/ CO!Offload(u))
  BY DEF CO!OffloadContended, CO!OffloadInconsistent, CO!QueueOffload, CO!Offload
<1>5. ~(CO!Pop(u) \/ CO!CallbackDone(u) \/ CO!EnqueueFinally(u) \/ CO!Finish(u))
  BY <1>1 DEF CO!Pop, CO!CallbackDone, CO!EnqueueFinally, CO!Finish
<1>6. ~CO!FinalDone(u)
  <2> SUFFICES ASSUME CO!FinalDone(u) PROVE FALSE
    OBVIOUS
  <2>1. coEx[u] = "final" /\ \A v \in CombinerThreads : v # u => coEx'[v] = coEx[v]
    BY <1>1 DEF CO!FinalDone
  <2> QED BY <2>1
<1>7. CO!StartFinal(u)
  BY <1>3, <1>4, <1>5, <1>6 DEF CO!Continue
<1>8. coFinal # <<>> /\ CoBusy = {}
  BY <1>7, CoStartFinalInv
<1> QED BY <1>8 DEF CoBusy, CO!At, CoBusyPlaces, CO!CallStates

-----------------------------------------------------------------------------
(* Executor                                                                *)

ExPooled == exOwner \notin {"drain", "freed"}
ExMarkedAll == exOwner \in {"spin", "join", "drain", "freed"}

\* Who executes closures and who is in a call of Enqueue: a thread of the pool
\* calls only from a closure, and the application is out of the way when the
\* pool is shut down.
ExCalls ==
    /\ \A i \in EX!Slots : exBatch[i] # <<>> <=> exPc[i] = "run"
    /\ \A i \in EX!Slots : exEnqueue[i] # Null => exPc[i] = "run"
    /\ \A a \in Callers : exEnqueue[a] # Null => exOwner = "threaded"
    /\ exEnqueue[Closer] = Null

\* The pool: num_threads_ says which threads there are; when the join is over
\* the threads that it has not waited for do nothing but leave.
ExPool ==
    /\ ExPooled => /\ exBatch[Closer] = <<>> /\ exNumThreads >= 1
                   /\ \A i \in EX!Slots : exPc[i] = "off" <=> i >= exNumThreads
    /\ exOwner = "join" => /\ exSlot <= exNumThreads
                           /\ \A i \in EX!Slots : i >= exSlot => exPc[i] \in {"off", "lock", "exit"}
    /\ ~ExPooled => /\ exNumThreads = 0
                    /\ \A i \in EX!Slots : exPc[i] \in {"off", "lock", "exit"}

\* How far the shutdown has come.
ExMarked ==
    /\ exOwner \in {"threaded", "mark"} => exSlot < max_threads_
    /\ exOwner = "mark" => \A i \in EX!Slots : i < exSlot => exShutdown[i]
    /\ ExMarkedAll => \A i \in EX!Slots : exShutdown[i]
    /\ exOwner = "threaded" => exSlot = 0

\* The closures that come to the ExecCtx of the owner stand right behind the one
\* that schedules them.
ExInlined == exInlined < Len(exBatch[Closer]) \/ (exInlined = 0 /\ exBatch[Closer] = <<>>)

ExDepths == EX!DepthExact /\ \A i \in EX!Slots : exSubtract[i] <= exDepth[i]

ExInv ==
    /\ EX!TypeOK /\ ExCalls /\ ExPool /\ ExMarked /\ ExInlined /\ ExDepths
    /\ EX!NobodySleepsOnWork

LEMMA ExConstants ==
    /\ max_threads_ \in Nat \ {0} /\ MAX_DEPTH \in Nat /\ MaxClosures \in Nat
    /\ EX!Slots = 0 .. (max_threads_ - 1) /\ EX!Jobs = 1 .. MaxClosures
    /\ EX!Actors = EX!Slots \cup Callers \cup {Closer}
    /\ Callers \cap EX!Slots = {} /\ Closer \notin Callers /\ Closer \notin EX!Slots
    /\ Null \notin EX!Actors /\ Null \notin EX!Enqueues
BY ExecutorsAssumption DEF EX!ExecutorConstants, EX!Slots, EX!Jobs, EX!Actors

\* A closure put in at a place of a list.
LEMMA ExInsert ==
    ASSUME NEW S, NEW s \in Seq(S), NEW e \in S, NEW i \in 1 .. Len(s) + 1
    PROVE  EX!InsertAt(s, i, e) \in Seq(S) /\ Len(EX!InsertAt(s, i, e)) = Len(s) + 1
<1> DEFINE a == SubSeq(s, 1, i - 1)
           b == SubSeq(s, i, Len(s))
<1>1. Len(s) \in Nat /\ i \in Nat /\ i >= 1 /\ i <= Len(s) + 1
  OBVIOUS
<1>2. a \in Seq(S) /\ Len(a) = i - 1
  BY <1>1
<1>3. b \in Seq(S) /\ Len(b) = Len(s) + 1 - i
  BY <1>1
<1>4. EX!InsertAt(s, i, e) = (a \o <<e>>) \o b
  BY DEF EX!InsertAt
<1> HIDE DEF a, b
<1>5. a \o <<e>> \in Seq(S) /\ Len(a \o <<e>>) = i
  BY <1>1, <1>2
<1>6. (a \o <<e>>) \o b \in Seq(S) /\ Len((a \o <<e>>) \o b) = i + (Len(s) + 1 - i)
  BY <1>1, <1>3, <1>5
<1> QED BY <1>1, <1>4, <1>6

LEMMA ExInitInv == EX!Init => ExInv
<1> SUFFICES ASSUME EX!Init PROVE ExInv
  OBVIOUS
<1> USE ExConstants
<1>1. EX!TypeOK
  <2>1. exElems \in [EX!Slots -> Seq(EX!Jobs)] /\ exBatch \in [EX!Slots \cup {Closer} -> Seq(EX!Jobs)]
    BY DEF EX!Init
  <2>2. exShutdown \in [EX!Slots -> BOOLEAN] /\ exLong \in [EX!Slots -> BOOLEAN]
    BY DEF EX!Init
  <2>3. /\ exNumThreads \in 0 .. max_threads_ /\ exDepth \in [EX!Slots -> Nat]
        /\ exPc \in [EX!Slots -> {"off", "lock", "wait", "run", "exit"}]
        /\ exSubtract \in [EX!Slots -> Nat] /\ exInlined \in Nat
        /\ exScheduled \in 0 .. MaxClosures /\ exSlot \in 0 .. max_threads_
    BY DEF EX!Init
  <2>4. /\ exAdding \in EX!Actors \cup {Null} /\ exRan \subseteq EX!Jobs
        /\ exEnqueue \in [EX!Actors -> EX!Enqueues \cup {Null}]
        /\ exOwner \in {"threaded", "mark", "spin", "join", "drain", "freed"}
    BY DEF EX!Init
  <2> QED BY <2>1, <2>2, <2>3, <2>4 DEF EX!TypeOK
<1>2. ExCalls /\ ExMarked
  BY DEF EX!Init, ExCalls, ExMarked, ExMarkedAll
<1>3. ExPool
  BY DEF EX!Init, ExPool, ExPooled
<1>4. ExInlined /\ EX!NobodySleepsOnWork
  BY DEF EX!Init, ExInlined, EX!NobodySleepsOnWork
<1>5. ExDepths
  BY DEF EX!Init, ExDepths, EX!DepthExact
<1> QED BY <1>1, <1>2, <1>3, <1>4, <1>5 DEF ExInv

LEMMA ExMainInv ==
    ASSUME ExInv, NEW i \in EX!Slots, EX!Main(i)
    PROVE  ExInv'
<1> USE ExConstants
<1>1. /\ exPc[i] = "lock"
      /\ exDepth' = [exDepth EXCEPT ![i] = @ - exSubtract[i]]
      /\ exSubtract' = [exSubtract EXCEPT ![i] = 0]
      /\ exNumThreads' = exNumThreads /\ exShutdown' = exShutdown /\ exAdding' = exAdding
      /\ exEnqueue' = exEnqueue /\ exScheduled' = exScheduled /\ exRan' = exRan
      /\ exInlined' = exInlined /\ exOwner' = exOwner /\ exSlot' = exSlot
  BY DEF EX!Main, EX!owning
<1>2. EX!TypeOK
  BY DEF ExInv
<1>3. PICK l \in {"wait", "exit", "run"} :
         /\ exPc' = [exPc EXCEPT ![i] = l]
         /\ l = "wait" => /\ exElems[i] = <<>> /\ ~exShutdown[i] /\ exElems' = exElems
                          /\ exBatch' = exBatch
                          /\ exLong' = [exLong EXCEPT ![i] = FALSE]
         /\ l = "exit" => exShutdown[i] /\ exElems' = exElems /\ exBatch' = exBatch /\ exLong' = exLong
         /\ l = "run" => /\ exElems[i] # <<>> /\ ~exShutdown[i]
                         /\ exBatch' = [exBatch EXCEPT ![i] = exElems[i]]
                         /\ exElems' = [exElems EXCEPT ![i] = <<>>] /\ exLong' = exLong
  BY DEF EX!Main
<1>4. /\ exPc'[i] = l /\ \A j \in EX!Slots : j # i => exPc'[j] = exPc[j]
      /\ exDepth'[i] = exDepth[i] - exSubtract[i]
      /\ exSubtract'[i] = 0
      /\ \A j \in EX!Slots : j # i => exDepth'[j] = exDepth[j] /\ exSubtract'[j] = exSubtract[j]
  BY <1>1, <1>2, <1>3 DEF EX!TypeOK
<1>5. /\ exElems' \in [EX!Slots -> Seq(EX!Jobs)]
      /\ exBatch' \in [EX!Slots \cup {Closer} -> Seq(EX!Jobs)]
      /\ exBatch'[Closer] = exBatch[Closer]
      /\ \A j \in EX!Slots : j # i => exElems'[j] = exElems[j] /\ exBatch'[j] = exBatch[j]
      /\ l # "run" => exElems'[i] = exElems[i] /\ exBatch'[i] = exBatch[i]
      /\ l = "run" => exElems'[i] = <<>> /\ exBatch'[i] = exElems[i]
  <2>1. CASE l = "run"
    <3>1. /\ exBatch' = [exBatch EXCEPT ![i] = exElems[i]] /\ exElems' = [exElems EXCEPT ![i] = <<>>]
          /\ exElems[i] \in Seq(EX!Jobs) /\ <<>> \in Seq(EX!Jobs) /\ Closer # i
          /\ exElems \in [EX!Slots -> Seq(EX!Jobs)]
          /\ exBatch \in [EX!Slots \cup {Closer} -> Seq(EX!Jobs)]
      <4>1. /\ exElems \in [EX!Slots -> Seq(EX!Jobs)]
            /\ exBatch \in [EX!Slots \cup {Closer} -> Seq(EX!Jobs)]
        BY <1>2 DEF EX!TypeOK
      <4>2. exBatch' = [exBatch EXCEPT ![i] = exElems[i]] /\ exElems' = [exElems EXCEPT ![i] = <<>>]
        BY <1>3, <2>1, Zenon
      <4>3. <<>> \in Seq(EX!Jobs) /\ Closer # i
        OBVIOUS
      <4> QED BY <4>1, <4>2, <4>3
    <3> QED BY <2>1, <3>1
  <2>2. CASE l # "run"
    <3>1. exElems' = exElems /\ exBatch' = exBatch
      BY <1>3, <2>2
    <3> QED BY <1>2, <2>2, <3>1 DEF EX!TypeOK
  <2> QED BY <2>1, <2>2
<1>6. exLong' \in [EX!Slots -> BOOLEAN]
  <2>1. CASE l = "wait"
    BY <1>2, <1>3, <2>1 DEF EX!TypeOK
  <2>2. CASE l # "wait"
    BY <1>2, <1>3, <2>2 DEF EX!TypeOK
  <2> QED BY <2>1, <2>2
<1>7. exBatch[i] = <<>> /\ exSubtract[i] \in Nat /\ exDepth[i] \in Nat /\ exSubtract[i] <= exDepth[i]
  BY <1>1, <1>2 DEF ExInv, ExCalls, ExDepths, EX!TypeOK
<1>8. EX!TypeOK'
  <2>1. /\ exDepth' \in [EX!Slots -> Nat] /\ exSubtract' \in [EX!Slots -> Nat]
        /\ exPc' \in [EX!Slots -> {"off", "lock", "wait", "run", "exit"}]
    <3>1. exDepth[i] - exSubtract[i] \in Nat
      BY <1>7
    <3>2. exDepth' \in [EX!Slots -> Nat] /\ exSubtract' \in [EX!Slots -> Nat]
      BY <1>1, <1>2, <3>1 DEF EX!TypeOK
    <3>3. exPc' \in [EX!Slots -> {"off", "lock", "wait", "run", "exit"}]
      BY <1>2, <1>3 DEF EX!TypeOK
    <3> QED BY <3>2, <3>3
  <2> QED BY <1>1, <1>2, <1>5, <1>6, <2>1 DEF EX!TypeOK
<1>9. ExCalls'
  <2>1. exEnqueue[i] = Null
    BY <1>1 DEF ExInv, ExCalls
  <2>2. exBatch'[i] # <<>> <=> l = "run"
    BY <1>3, <1>5, <1>7
  <2>3. \A j \in EX!Slots : exBatch'[j] # <<>> <=> exPc'[j] = "run"
    <3>1. \A j \in EX!Slots : exBatch[j] # <<>> <=> exPc[j] = "run"
      BY DEF ExInv, ExCalls
    <3>2. \A j \in EX!Slots \ {i} : exBatch'[j] = exBatch[j] /\ exPc'[j] = exPc[j]
      BY <1>4, <1>5
    <3>3. exPc'[i] = l
      BY <1>4
    <3> QED BY <2>2, <3>1, <3>2, <3>3
  <2>4. \A j \in EX!Slots : exEnqueue'[j] # Null => exPc'[j] = "run"
    BY <1>1, <1>4, <2>1 DEF ExInv, ExCalls
  <2>5. exEnqueue'[Closer] = Null /\ \A a \in Callers : exEnqueue'[a] # Null => exOwner' = "threaded"
    BY <1>1 DEF ExInv, ExCalls
  <2> QED BY <2>3, <2>4, <2>5 DEF ExCalls
<1>10. ExMarked' /\ ExInlined'
  BY <1>1, <1>5 DEF ExInv, ExMarked, ExMarkedAll, ExInlined
<1>11. ExPool'
  <2>1. l \in {"run", "wait"} => exOwner \in {"threaded", "mark"}
    BY <1>2, <1>3 DEF ExInv, ExMarked, ExMarkedAll, EX!TypeOK
  <2> QED BY <1>1, <1>3, <1>4, <1>5, <2>1 DEF ExInv, ExPool, ExPooled
<1>12. ExDepths'
  <2>1. \A j \in EX!Slots : exSubtract'[j] <= exDepth'[j]
    BY <1>4, <1>7 DEF ExInv, ExDepths
  <2>2. ASSUME exOwner \notin {"drain", "freed"}
        PROVE  exDepth'[i] = Len(exElems'[i]) + Len(exBatch'[i]) + exSubtract'[i]
    <3>1. exDepth[i] = Len(exElems[i]) + Len(exBatch[i]) + exSubtract[i]
      BY <2>2 DEF ExInv, ExDepths, EX!DepthExact
    <3>2. Len(exBatch[i]) = 0 /\ Len(exElems[i]) \in Nat
      BY <1>2, <1>7 DEF EX!TypeOK
    <3>3. exDepth'[i] = Len(exElems[i]) /\ exSubtract'[i] = 0
      BY <1>4, <1>7, <3>1, <3>2
    <3>4. CASE l = "run"
      <4>1. Len(exElems'[i]) = 0 /\ exBatch'[i] = exElems[i]
        BY <1>5, <3>4
      <4> QED BY <3>2, <3>3, <4>1
    <3>5. CASE l # "run"
      BY <1>5, <3>2, <3>3, <3>5
    <3> QED BY <3>4, <3>5
  <2>3. ASSUME exOwner \notin {"drain", "freed"}, NEW j \in EX!Slots, j # i
        PROVE  exDepth'[j] = Len(exElems'[j]) + Len(exBatch'[j]) + exSubtract'[j]
    BY <1>4, <1>5, <2>3 DEF ExInv, ExDepths, EX!DepthExact
  <2> QED BY <1>1, <2>1, <2>2, <2>3 DEF ExDepths, EX!DepthExact
<1>13. EX!NobodySleepsOnWork'
  BY <1>1, <1>3, <1>4, <1>5 DEF ExInv, EX!NobodySleepsOnWork
<1> QED BY <1>8, <1>9, <1>10, <1>11, <1>12, <1>13 DEF ExInv

\* Who is in a call of Enqueue executes a closure or is of the application.
LEMMA ExCaller ==
    ASSUME ExInv, NEW a \in EX!Actors, exEnqueue[a] # Null
    PROVE  /\ exEnqueue[a] \in EX!Enqueues /\ a # Closer
           /\ a \in EX!Slots => exPc[a] = "run"
           /\ a \in Callers => exOwner = "threaded"
           /\ ExPooled
<1>1. exEnqueue[a] \in EX!Enqueues /\ a # Closer
  BY DEF ExInv, ExCalls, EX!TypeOK
<1>2. /\ a \in EX!Slots => exPc[a] = "run"
      /\ a \in Callers => exOwner = "threaded"
  BY DEF ExInv, ExCalls
<1>3. ExPooled
  BY <1>1, <1>2, ExConstants DEF ExInv, ExPool, ExPooled
<1> QED BY <1>1, <1>2, <1>3

\* A call of Enqueue that only moves on within itself.
LEMMA ExCallMoves ==
    ASSUME ExInv, NEW a \in EX!Actors, a # Closer,
           a \in EX!Slots => exPc[a] = "run",
           a \in Callers => exOwner = "threaded",
           NEW e \in EX!Enqueues \cup {Null},
           exEnqueue' = [exEnqueue EXCEPT ![a] = e],
           exAdding' \in EX!Actors \cup {Null}, exScheduled' \in 0 .. MaxClosures,
           exNumThreads' = exNumThreads, exElems' = exElems, exDepth' = exDepth,
           exShutdown' = exShutdown, exLong' = exLong, exPc' = exPc,
           exSubtract' = exSubtract, exBatch' = exBatch, exInlined' = exInlined,
           exRan' = exRan, exOwner' = exOwner, exSlot' = exSlot
    PROVE  ExInv'
<1>1. EX!TypeOK'
  BY DEF ExInv, EX!TypeOK
<1>2. \A b \in EX!Actors : b # a => exEnqueue'[b] = exEnqueue[b]
  BY DEF ExInv, EX!TypeOK
<1>3. ExCalls'
  <2>1. \A i \in EX!Slots : exEnqueue'[i] # Null => exPc[i] = "run"
    BY <1>2, ExConstants DEF ExInv, ExCalls
  <2>2. \A b \in Callers : exEnqueue'[b] # Null => exOwner = "threaded"
    BY <1>2, ExConstants DEF ExInv, ExCalls
  <2>3. exEnqueue'[Closer] = Null
    BY <1>2, ExConstants DEF ExInv, ExCalls
  <2> QED BY <2>1, <2>2, <2>3 DEF ExInv, ExCalls
<1>4. ExPool' /\ ExMarked' /\ ExInlined'
  BY DEF ExInv, ExPool, ExPooled, ExMarked, ExMarkedAll, ExInlined
<1>5. ExDepths' /\ EX!NobodySleepsOnWork'
  BY DEF ExInv, ExDepths, EX!DepthExact, EX!NobodySleepsOnWork
<1> QED BY <1>1, <1>3, <1>4, <1>5 DEF ExInv

\* The closure goes to the list of the owner's ExecCtx.
LEMMA ExInlineInv ==
    ASSUME ExInv, exBatch[Closer] # <<>>, NEW c \in EX!Jobs,
           exBatch' = [exBatch EXCEPT ![Closer] = EX!InsertAt(@, exInlined + 2, c)],
           exInlined' = exInlined + 1,
           exEnqueue' = [exEnqueue EXCEPT ![Closer] = Null],
           exScheduled' \in 0 .. MaxClosures,
           exNumThreads' = exNumThreads, exElems' = exElems, exDepth' = exDepth,
           exShutdown' = exShutdown, exLong' = exLong, exPc' = exPc, exAdding' = exAdding,
           exSubtract' = exSubtract,
           exRan' = exRan, exOwner' = exOwner, exSlot' = exSlot
    PROVE  ExInv'
<1> USE ExConstants
<1>1. EX!TypeOK /\ exInlined \in Nat /\ exInlined < Len(exBatch[Closer])
  BY DEF ExInv, ExInlined, EX!TypeOK
<1>2. exBatch[Closer] \in Seq(EX!Jobs) /\ Len(exBatch[Closer]) \in Nat
  BY <1>1 DEF EX!TypeOK
<1>3. exInlined + 2 \in 1 .. Len(exBatch[Closer]) + 1
  BY <1>1, <1>2
<1>4. PICK s : s = EX!InsertAt(exBatch[Closer], exInlined + 2, c)
  OBVIOUS
<1>5. s \in Seq(EX!Jobs) /\ Len(s) = Len(exBatch[Closer]) + 1
  BY <1>2, <1>3, <1>4, ExInsert
<1>6. exBatch' = [exBatch EXCEPT ![Closer] = s]
  BY <1>4
<1>7. /\ exBatch' \in [EX!Slots \cup {Closer} -> Seq(EX!Jobs)] /\ exBatch'[Closer] = s
      /\ \A i \in EX!Slots : exBatch'[i] = exBatch[i]
  <2>1. exBatch \in [EX!Slots \cup {Closer} -> Seq(EX!Jobs)]
    BY <1>1 DEF EX!TypeOK
  <2> QED BY <1>5, <1>6, <2>1
<1>8. exEnqueue' = exEnqueue
  BY <1>1 DEF ExInv, ExCalls, EX!TypeOK
<1>9. EX!TypeOK'
  <2>1. exInlined' \in Nat
    BY <1>1
  <2> QED BY <1>1, <1>7, <1>8, <2>1 DEF EX!TypeOK
<1>10. ExCalls' /\ ExMarked'
  BY <1>7, <1>8 DEF ExInv, ExCalls, ExMarked, ExMarkedAll
<1>11. ExPool'
  <2>1. ~ExPooled
    BY DEF ExInv, ExPool
  <2> QED BY <2>1 DEF ExInv, ExPool, ExPooled
<1>12. ExInlined'
  BY <1>1, <1>2, <1>5, <1>7 DEF ExInlined
<1>13. ExDepths' /\ EX!NobodySleepsOnWork'
  BY <1>7 DEF ExInv, ExDepths, EX!DepthExact, EX!NobodySleepsOnWork
<1> QED BY <1>9, <1>10, <1>11, <1>12, <1>13 DEF ExInv

\* The thread is picked, at the first and at every later round.
LEMMA ExPickInv ==
    ASSUME ExInv, NEW a \in EX!Actors, NEW c \in EX!Jobs, EX!PickThread(a, c),
           a \in EX!Slots => exPc[a] = "run",
           a \in Callers => exOwner = "threaded",
           a = Closer => exBatch[Closer] # <<>>,
           exScheduled' \in 0 .. MaxClosures,
           exNumThreads' = exNumThreads, exElems' = exElems, exDepth' = exDepth,
           exShutdown' = exShutdown, exLong' = exLong, exPc' = exPc, exAdding' = exAdding,
           exSubtract' = exSubtract,
           exRan' = exRan, exOwner' = exOwner, exSlot' = exSlot
    PROVE  ExInv'
<1> USE ExConstants
<1>1. EX!TypeOK
  BY DEF ExInv
<1>2. CASE a = Closer
  <2>1. exNumThreads = 0
    BY <1>2 DEF ExInv, ExPool
  <2> QED BY <1>2, <2>1, ExInlineInv DEF EX!PickThread, EX!Inline
<1>3. CASE a # Closer
  <2>1. ExPooled /\ exNumThreads # 0
    <3>1. a \in EX!Slots \/ a \in Callers
      BY <1>3
    <3>2. ExPooled
      BY <3>1 DEF ExInv, ExPool, ExPooled
    <3>3. exNumThreads >= 1
      BY <3>2 DEF ExInv, ExPool
    <3> QED BY <1>1, <3>2, <3>3 DEF EX!TypeOK
  <2>2. PICK i \in IF a \in EX!Slots THEN {a} ELSE 0 .. exNumThreads - 1 :
           exEnqueue' = [exEnqueue EXCEPT ![a] = EX!Call(c, "try", exNumThreads, i, i, FALSE)]
    BY <2>1 DEF EX!PickThread
  <2>3. exBatch' = exBatch /\ exInlined' = exInlined
    BY <2>1 DEF EX!PickThread
  <2>4. i \in EX!Slots /\ exNumThreads \in 1 .. max_threads_
    BY <1>1, <2>1, <2>2 DEF EX!TypeOK
  <2>5. EX!Call(c, "try", exNumThreads, i, i, FALSE) \in EX!Enqueues
    BY <2>4 DEF EX!Call, EX!Enqueues
  <2>6. exAdding' \in EX!Actors \cup {Null}
    BY <1>1 DEF EX!TypeOK
  <2> QED BY <1>3, <2>2, <2>3, <2>5, <2>6, ExCallMoves
<1> QED BY <1>2, <1>3

LEMMA ExEnqueueInv ==
    ASSUME ExInv, NEW a \in EX!Actors, EX!Enqueue(a)
    PROVE  ExInv'
<1> USE ExConstants
<1>1. /\ exScheduled < MaxClosures /\ exScheduled' = exScheduled + 1
      /\ EX!PickThread(a, exScheduled + 1)
      /\ exNumThreads' = exNumThreads /\ exElems' = exElems /\ exDepth' = exDepth
      /\ exShutdown' = exShutdown /\ exLong' = exLong /\ exPc' = exPc /\ exAdding' = exAdding
      /\ exSubtract' = exSubtract
      /\ exRan' = exRan /\ exOwner' = exOwner /\ exSlot' = exSlot
  BY DEF EX!Enqueue, EX!states, EX!threads
<1>2. exScheduled + 1 \in EX!Jobs /\ exScheduled' \in 0 .. MaxClosures
  BY <1>1 DEF ExInv, EX!TypeOK
<1>3. EX!Running(a) \/ (a \in Callers /\ exOwner = "threaded")
  BY DEF EX!Enqueue
<1>4. /\ a \in EX!Slots => exPc[a] = "run"
      /\ a \in Callers => exOwner = "threaded"
      /\ a = Closer => exBatch[Closer] # <<>>
  BY <1>3 DEF EX!Running, ExInv, ExCalls, EX!TypeOK
<1> QED BY <1>1, <1>2, <1>4, ExPickInv

LEMMA ExRetryInv ==
    ASSUME ExInv, NEW a \in EX!Actors, EX!Retry(a)
    PROVE  ExInv'
<1> USE ExConstants
<1>1. /\ exScheduled' = exScheduled /\ exEnqueue[a] # Null
      /\ EX!PickThread(a, exEnqueue[a].closure)
      /\ exNumThreads' = exNumThreads /\ exElems' = exElems /\ exDepth' = exDepth
      /\ exShutdown' = exShutdown /\ exLong' = exLong /\ exPc' = exPc /\ exAdding' = exAdding
      /\ exSubtract' = exSubtract
      /\ exRan' = exRan /\ exOwner' = exOwner /\ exSlot' = exSlot
  BY DEF EX!Retry, EX!states, EX!threads
<1>2. /\ a \in EX!Slots => exPc[a] = "run"
      /\ a \in Callers => exOwner = "threaded"
      /\ a # Closer /\ exEnqueue[a] \in EX!Enqueues
  BY <1>1, ExCaller
<1>3. exEnqueue[a].closure \in EX!Jobs /\ exScheduled' \in 0 .. MaxClosures
  BY <1>1, <1>2 DEF ExInv, EX!TypeOK, EX!Enqueues
<1> QED BY <1>1, <1>2, <1>3, ExPickInv

LEMMA ExTryNextInv ==
    ASSUME ExInv, NEW a \in EX!Actors, EX!TryNext(a)
    PROVE  ExInv'
<1> USE ExConstants
<1>1. exEnqueue[a] # Null
  BY DEF EX!TryNext, EX!Try
<1>2. PICK e \in EX!Enqueues : e = exEnqueue[a]
  BY <1>1, ExCaller
<1>3. PICK next : next = (e.ts + 1) % e.cur
  OBVIOUS
<1>4. /\ exEnqueue' = [exEnqueue EXCEPT ![a] =
              IF next = e.orig THEN [e EXCEPT !.at = "add", !.ts = next, !.retry = TRUE]
                               ELSE [e EXCEPT !.ts = next]]
      /\ exNumThreads' = exNumThreads /\ exElems' = exElems /\ exDepth' = exDepth
      /\ exShutdown' = exShutdown /\ exLong' = exLong /\ exPc' = exPc /\ exAdding' = exAdding
      /\ exSubtract' = exSubtract /\ exBatch' = exBatch /\ exInlined' = exInlined
      /\ exScheduled' = exScheduled
      /\ exRan' = exRan /\ exOwner' = exOwner /\ exSlot' = exSlot
  BY <1>2, <1>3 DEF EX!TryNext, EX!states, EX!threads, EX!owning
<1>5. e.ts \in Nat /\ e.cur \in Nat \ {0} /\ e.cur <= max_threads_
  BY <1>2 DEF EX!Enqueues
<1>6. next \in 0 .. (e.cur - 1)
  BY <1>3, <1>5
<1>7. next \in EX!Slots
  BY <1>5, <1>6
<1>8. PICK f : f = (IF next = e.orig THEN [e EXCEPT !.at = "add", !.ts = next, !.retry = TRUE]
                                     ELSE [e EXCEPT !.ts = next])
  OBVIOUS
<1>9. f \in EX!Enqueues
  BY <1>2, <1>7, <1>8 DEF EX!Enqueues
<1>10. exEnqueue' = [exEnqueue EXCEPT ![a] = f]
  BY <1>4, <1>8
<1>11. exAdding' \in EX!Actors \cup {Null} /\ exScheduled' \in 0 .. MaxClosures
  BY <1>4 DEF ExInv, EX!TypeOK
<1> QED BY <1>1, <1>4, <1>9, <1>10, <1>11, ExCaller, ExCallMoves

LEMMA ExTryLockInv ==
    ASSUME ExInv, NEW a \in EX!Actors, EX!TryLock(a)
    PROVE  ExInv'
<1> USE ExConstants
<1>1. exEnqueue[a] # Null
  BY DEF EX!TryLock
<1>2. PICK e \in EX!Enqueues : e = exEnqueue[a]
  BY <1>1, ExCaller
<1>3. PICK f : f = (IF exAdding = Null THEN [e EXCEPT !.at = "grow"] ELSE EX!EndOrRetry(e))
  OBVIOUS
<1>4. /\ exEnqueue' = [exEnqueue EXCEPT ![a] = f]
      /\ exAdding' = IF exAdding = Null THEN a ELSE exAdding
      /\ exNumThreads' = exNumThreads /\ exElems' = exElems /\ exDepth' = exDepth
      /\ exShutdown' = exShutdown /\ exLong' = exLong /\ exPc' = exPc
      /\ exSubtract' = exSubtract /\ exBatch' = exBatch /\ exInlined' = exInlined
      /\ exScheduled' = exScheduled
      /\ exRan' = exRan /\ exOwner' = exOwner /\ exSlot' = exSlot
  BY <1>2, <1>3 DEF EX!TryLock, EX!states, EX!threads, EX!owning, ExInv, EX!TypeOK
<1>5. f \in EX!Enqueues \cup {Null}
  BY <1>2, <1>3 DEF EX!Enqueues, EX!EndOrRetry
<1>6. exAdding' \in EX!Actors \cup {Null} /\ exScheduled' \in 0 .. MaxClosures
  BY <1>4 DEF ExInv, EX!TypeOK
<1> QED BY <1>1, <1>4, <1>5, <1>6, ExCaller, ExCallMoves

\* RunClosures goes on to the next closure.
LEMMA ExReturnsInv ==
    ASSUME ExInv, NEW a \in EX!Actors, EX!ClosureReturns(a)
    PROVE  ExInv'
<1> USE ExConstants
<1>1. /\ a \in EX!Slots \cup {Closer} /\ exBatch[a] # <<>> /\ exEnqueue[a] = Null
      /\ exRan' = exRan \cup {Head(exBatch[a])}
      /\ exBatch' = [exBatch EXCEPT ![a] = Tail(@)]
      /\ exNumThreads' = exNumThreads /\ exElems' = exElems /\ exDepth' = exDepth
      /\ exShutdown' = exShutdown /\ exLong' = exLong /\ exAdding' = exAdding
      /\ exEnqueue' = exEnqueue /\ exScheduled' = exScheduled
      /\ exOwner' = exOwner /\ exSlot' = exSlot
  BY DEF EX!ClosureReturns, EX!Running, EX!states, ExInv, EX!TypeOK
<1>2. EX!TypeOK
  BY DEF ExInv
<1>3. exBatch[a] \in Seq(EX!Jobs) /\ exBatch \in [EX!Slots \cup {Closer} -> Seq(EX!Jobs)]
  BY <1>1, <1>2 DEF EX!TypeOK
<1>4. /\ Head(exBatch[a]) \in EX!Jobs /\ Tail(exBatch[a]) \in Seq(EX!Jobs)
      /\ Len(Tail(exBatch[a])) = Len(exBatch[a]) - 1 /\ Len(exBatch[a]) \in Nat \ {0}
      /\ Tail(exBatch[a]) = <<>> <=> Len(exBatch[a]) = 1
  <2>1. /\ Head(exBatch[a]) \in EX!Jobs /\ Tail(exBatch[a]) \in Seq(EX!Jobs)
        /\ Len(Tail(exBatch[a])) = Len(exBatch[a]) - 1
    BY <1>1, <1>3, TailFacts
  <2>2. Len(exBatch[a]) \in Nat \ {0}
    BY <1>1, <1>3
  <2>3. ASSUME NEW t \in Seq(EX!Jobs) PROVE t = <<>> <=> Len(t) = 0
    OBVIOUS
  <2>4. Tail(exBatch[a]) = <<>> <=> Len(Tail(exBatch[a])) = 0
    BY <2>1, <2>3, Zenon
  <2>5. Len(exBatch[a]) - 1 = 0 <=> Len(exBatch[a]) = 1
    BY <2>2
  <2> QED BY <2>1, <2>2, <2>4, <2>5, Zenon
<1>5. /\ exBatch' \in [EX!Slots \cup {Closer} -> Seq(EX!Jobs)]
      /\ exBatch'[a] = Tail(exBatch[a])
      /\ \A b \in EX!Slots \cup {Closer} : b # a => exBatch'[b] = exBatch[b]
  BY <1>1, <1>3, <1>4
<1>6. exRan' \subseteq EX!Jobs
  BY <1>1, <1>2, <1>4 DEF EX!TypeOK
<1>7. CASE a = Closer
  <2>1. /\ exInlined' = IF exInlined > 0 THEN exInlined - 1 ELSE 0
        /\ exPc' = exPc /\ exSubtract' = exSubtract
    BY <1>7 DEF EX!ClosureReturns, EX!threads
  <2>2. exInlined \in Nat /\ exInlined < Len(exBatch[Closer])
    BY <1>1, <1>2, <1>7 DEF ExInv, ExInlined, EX!TypeOK
  <2>3. exInlined' \in Nat /\ (exInlined' < Len(exBatch'[Closer]) \/ (exInlined' = 0 /\ exBatch'[Closer] = <<>>))
    BY <1>4, <1>5, <1>7, <2>1, <2>2
  <2>4. EX!TypeOK'
    BY <1>1, <1>2, <1>5, <1>6, <2>1, <2>3 DEF EX!TypeOK
  <2>5. \A i \in EX!Slots : exBatch'[i] = exBatch[i]
    BY <1>5, <1>7
  <2>6. ExCalls' /\ ExMarked'
    BY <1>1, <2>1, <2>5 DEF ExInv, ExCalls, ExMarked, ExMarkedAll
  <2>7. ExPool'
    <3>1. ~ExPooled
      BY <1>1, <1>7 DEF ExInv, ExPool
    <3> QED BY <1>1, <2>1, <3>1 DEF ExInv, ExPool, ExPooled
  <2>8. ExInlined'
    BY <2>3 DEF ExInlined
  <2>9. ExDepths' /\ EX!NobodySleepsOnWork'
    BY <1>1, <2>1, <2>5 DEF ExInv, ExDepths, EX!DepthExact, EX!NobodySleepsOnWork
  <2> QED BY <2>4, <2>6, <2>7, <2>8, <2>9 DEF ExInv
<1>8. CASE a # Closer
  <2>1. /\ a \in EX!Slots /\ exPc[a] = "run"
        /\ exSubtract' = [exSubtract EXCEPT ![a] = @ + 1]
        /\ exPc' = IF Len(exBatch[a]) = 1 THEN [exPc EXCEPT ![a] = "lock"] ELSE exPc
        /\ exInlined' = exInlined
    BY <1>1, <1>8 DEF EX!ClosureReturns, ExInv, ExCalls
  <2>2. ExPooled /\ exBatch'[Closer] = exBatch[Closer]
    BY <1>5, <1>8, <2>1 DEF ExInv, ExPool
  <2>3. /\ exPc' \in [EX!Slots -> {"off", "lock", "wait", "run", "exit"}]
        /\ exPc'[a] = IF Len(exBatch[a]) = 1 THEN "lock" ELSE "run"
        /\ \A i \in EX!Slots : i # a => exPc'[i] = exPc[i]
    BY <1>2, <2>1 DEF EX!TypeOK
  <2>4. /\ exSubtract' \in [EX!Slots -> Nat] /\ exSubtract'[a] = exSubtract[a] + 1
        /\ exSubtract[a] \in Nat
        /\ \A i \in EX!Slots : i # a => exSubtract'[i] = exSubtract[i]
    <3>1. exSubtract \in [EX!Slots -> Nat]
      BY <1>2 DEF EX!TypeOK
    <3> QED BY <2>1, <3>1
  <2>5. EX!TypeOK'
    BY <1>1, <1>2, <1>5, <1>6, <2>1, <2>3, <2>4 DEF EX!TypeOK
  <2>6. ExCalls'
    <3>1. exBatch'[a] # <<>> <=> exPc'[a] = "run"
      BY <1>4, <1>5, <2>3
    <3> QED BY <1>1, <1>5, <2>1, <2>3, <3>1 DEF ExInv, ExCalls
  <2>7. ExMarked' /\ ExInlined'
    BY <1>1, <2>1, <2>2 DEF ExInv, ExMarked, ExMarkedAll, ExInlined
  <2>8. ExPool'
    <3>2. \A i \in EX!Slots : exPc'[i] = "off" <=> i >= exNumThreads
      BY <2>1, <2>2, <2>3 DEF ExInv, ExPool
    <3>3. exOwner = "join" => \A i \in EX!Slots : i >= exSlot => exPc'[i] \in {"off", "lock", "exit"}
      BY <2>1, <2>3 DEF ExInv, ExPool
    <3> QED BY <1>1, <2>2, <3>2, <3>3 DEF ExInv, ExPool, ExPooled
  <2>9. ExDepths'
    <3>1. /\ exDepth[a] = Len(exElems[a]) + Len(exBatch[a]) + exSubtract[a]
          /\ Len(exElems[a]) \in Nat
      BY <1>2, <2>1, <2>2 DEF ExInv, ExDepths, EX!DepthExact, ExPooled, EX!TypeOK
    <3>2. /\ exDepth'[a] = Len(exElems'[a]) + Len(exBatch'[a]) + exSubtract'[a]
          /\ exSubtract'[a] <= exDepth'[a]
      <4>1. exDepth'[a] = exDepth[a] /\ exElems'[a] = exElems[a]
            /\ Len(exBatch'[a]) = Len(exBatch[a]) - 1 /\ exSubtract'[a] = exSubtract[a] + 1
        BY <1>1, <1>4, <1>5, <2>4
      <4>2. Len(exBatch[a]) \in Nat \ {0} /\ exSubtract[a] \in Nat
        BY <1>4, <2>4
      <4>3. PICK l \in Nat, b \in Nat, n \in Nat :
               l = Len(exElems[a]) /\ b = Len(exBatch[a]) /\ n = exSubtract[a]
        BY <3>1, <4>2
      <4>4. exDepth[a] = l + b + n /\ b \in Nat \ {0}
        BY <3>1, <4>2, <4>3, Zenon
      <4>5. l + (b - 1) + (n + 1) = l + b + n /\ n + 1 <= l + b + n
        BY <4>4
      <4> QED BY <4>1, <4>3, <4>4, <4>5, Zenon
    <3>3. ASSUME NEW i \in EX!Slots, i # a
          PROVE  /\ exDepth'[i] = Len(exElems'[i]) + Len(exBatch'[i]) + exSubtract'[i]
                 /\ exSubtract'[i] <= exDepth'[i]
      BY <1>1, <1>5, <2>2, <2>4, <3>3 DEF ExInv, ExDepths, EX!DepthExact, ExPooled
    <3> QED BY <3>2, <3>3 DEF ExDepths, EX!DepthExact
  <2>10. EX!NobodySleepsOnWork'
    BY <1>1, <2>1, <2>3 DEF ExInv, EX!NobodySleepsOnWork
  <2> QED BY <2>5, <2>6, <2>7, <2>8, <2>9, <2>10 DEF ExInv
<1> QED BY <1>7, <1>8

LEMMA ExPushInv ==
    ASSUME ExInv, NEW a \in EX!Actors, EX!Push(a)
    PROVE  ExInv'
<1> USE ExConstants
<1>1. exEnqueue[a] # Null
  BY DEF EX!Push, EX!Try
<1>2. PICK e \in EX!Enqueues : e = exEnqueue[a]
  BY <1>1, ExCaller
<1>3. PICK i \in EX!Slots : i = e.ts
  BY <1>2 DEF EX!Enqueues
<1>4. PICK f : f = (IF exDepth[i] + 1 > MAX_DEPTH /\ e.cur < max_threads_ /\ ~exShutdown[i]
                    THEN [e EXCEPT !.at = "add"] ELSE Null)
  OBVIOUS
<1>5. /\ exPc' = IF exElems[i] = <<>> /\ ~exShutdown[i] THEN EX!Signalled(i) ELSE exPc
      /\ exElems' = [exElems EXCEPT ![i] = Append(@, e.closure)]
      /\ exDepth' = [exDepth EXCEPT ![i] = @ + 1]
      /\ exLong' = [exLong EXCEPT ![i] = (e.closure \in LongJobs)]
      /\ exEnqueue' = [exEnqueue EXCEPT ![a] = f]
  BY <1>2, <1>3, <1>4 DEF EX!Push
<1>6. /\ exNumThreads' = exNumThreads /\ exShutdown' = exShutdown /\ exAdding' = exAdding
      /\ exSubtract' = exSubtract /\ exBatch' = exBatch /\ exScheduled' = exScheduled
      /\ exRan' = exRan /\ exInlined' = exInlined /\ exOwner' = exOwner /\ exSlot' = exSlot
  BY DEF EX!Push, EX!owning
<1>7. EX!TypeOK
  BY DEF ExInv
<1>8. e.closure \in EX!Jobs /\ f \in EX!Enqueues \cup {Null}
  BY <1>2, <1>4 DEF EX!Enqueues
<1>9. /\ exElems' \in [EX!Slots -> Seq(EX!Jobs)] /\ Len(exElems'[i]) = Len(exElems[i]) + 1
      /\ Len(exElems[i]) \in Nat /\ exElems'[i] # <<>>
      /\ \A j \in EX!Slots : j # i => exElems'[j] = exElems[j]
  <2>1. exElems \in [EX!Slots -> Seq(EX!Jobs)] /\ exElems[i] \in Seq(EX!Jobs)
    BY <1>7 DEF EX!TypeOK
  <2>2. PICK s : s = Append(exElems[i], e.closure)
    OBVIOUS
  <2>3. /\ s \in Seq(EX!Jobs) /\ Len(s) = Len(exElems[i]) + 1 /\ Len(exElems[i]) \in Nat /\ s # <<>>
    BY <1>8, <2>1, <2>2
  <2>4. exElems' = [exElems EXCEPT ![i] = s]
    BY <1>5, <2>2
  <2> QED BY <2>1, <2>3, <2>4
<1>10. /\ exPc' \in [EX!Slots -> {"off", "lock", "wait", "run", "exit"}]
       /\ \A j \in EX!Slots : j # i => exPc'[j] = exPc[j]
       /\ exPc'[i] # exPc[i] => exPc[i] = "wait" /\ exPc'[i] = "lock"
       /\ exElems[i] = <<>> /\ ~exShutdown[i] => exPc'[i] # "wait"
  BY <1>5, <1>7 DEF EX!TypeOK, EX!Signalled
<1>11. /\ exDepth' \in [EX!Slots -> Nat] /\ exDepth'[i] = exDepth[i] + 1 /\ exDepth[i] \in Nat
       /\ \A j \in EX!Slots : j # i => exDepth'[j] = exDepth[j]
  <2>1. exDepth \in [EX!Slots -> Nat]
    BY <1>7 DEF EX!TypeOK
  <2> QED BY <1>5, <2>1
<1>12. /\ exEnqueue' \in [EX!Actors -> EX!Enqueues \cup {Null}]
       /\ \A b \in EX!Actors : b # a => exEnqueue'[b] = exEnqueue[b]
  BY <1>5, <1>7, <1>8 DEF EX!TypeOK
<1>13. EX!TypeOK'
  <2>1. exLong' \in [EX!Slots -> BOOLEAN]
    BY <1>5, <1>7 DEF EX!TypeOK
  <2> QED BY <1>6, <1>7, <1>9, <1>10, <1>11, <1>12, <2>1 DEF EX!TypeOK
<1>14. ExPooled /\ a # Closer /\ (a \in EX!Slots => exPc[a] = "run") /\ (a \in Callers => exOwner = "threaded")
  BY <1>1, ExCaller
<1>15. \A j \in EX!Slots : exPc'[j] = "run" <=> exPc[j] = "run"
  BY <1>10
<1>16. ExCalls'
  <2>1. \A j \in EX!Slots : exEnqueue'[j] # Null => exPc[j] = "run"
    BY <1>12, <1>14 DEF ExInv, ExCalls
  <2>2. \A b \in Callers : exEnqueue'[b] # Null => exOwner = "threaded"
    BY <1>12, <1>14 DEF ExInv, ExCalls
  <2>3. exEnqueue'[Closer] = Null
    BY <1>12, <1>14 DEF ExInv, ExCalls
  <2> QED BY <1>6, <1>15, <2>1, <2>2, <2>3 DEF ExInv, ExCalls
<1>17. ExMarked' /\ ExInlined'
  BY <1>6 DEF ExInv, ExMarked, ExMarkedAll, ExInlined
<1>18. ExPool'
  <2>1. \A j \in EX!Slots : /\ exPc'[j] = "off" <=> exPc[j] = "off"
                            /\ exPc[j] \in {"off", "lock", "exit"} => exPc'[j] \in {"off", "lock", "exit"}
    BY <1>10
  <2> QED BY <1>6, <1>14, <2>1 DEF ExInv, ExPool, ExPooled
<1>19. ExDepths'
  <2>1. ASSUME NEW j \in EX!Slots
        PROVE  /\ exDepth'[j] = Len(exElems'[j]) + Len(exBatch'[j]) + exSubtract'[j]
               /\ exSubtract'[j] <= exDepth'[j]
    <3>1. /\ exDepth[j] = Len(exElems[j]) + Len(exBatch[j]) + exSubtract[j]
          /\ exSubtract[j] <= exDepth[j]
      BY <1>14 DEF ExInv, ExDepths, EX!DepthExact, ExPooled
    <3>2. Len(exBatch[j]) \in Nat /\ exSubtract[j] \in Nat /\ exDepth[j] \in Nat
      BY <1>7 DEF EX!TypeOK
    <3>3. exBatch'[j] = exBatch[j] /\ exSubtract'[j] = exSubtract[j]
      BY <1>6
    <3>4. CASE j = i
      <4>1. Len(exElems'[j]) = Len(exElems[j]) + 1 /\ Len(exElems[j]) \in Nat
            /\ exDepth'[j] = exDepth[j] + 1
        BY <1>9, <1>11, <3>4
      <4>2. PICK l \in Nat, b \in Nat, n \in Nat, d \in Nat :
               /\ l = Len(exElems[j]) /\ b = Len(exBatch[j])
               /\ n = exSubtract[j] /\ d = exDepth[j]
        BY <3>2, <4>1
      <4>3. d = l + b + n /\ n <= d
        BY <3>1, <4>2, Zenon
      <4>4. d + 1 = (l + 1) + b + n /\ n <= d + 1
        BY <4>3
      <4> QED BY <3>3, <4>1, <4>2, <4>4, Zenon
    <3>5. CASE j # i
      BY <1>9, <1>11, <3>1, <3>3, <3>5
    <3> QED BY <3>4, <3>5
  <2> QED BY <2>1 DEF ExDepths, EX!DepthExact
<1>20. EX!NobodySleepsOnWork'
  <2>1. exPc'[i] # "wait"
    BY <1>10 DEF ExInv, EX!NobodySleepsOnWork
  <2> QED BY <1>6, <1>9, <1>10, <2>1 DEF ExInv, EX!NobodySleepsOnWork
<1> QED BY <1>13, <1>16, <1>17, <1>18, <1>19, <1>20 DEF ExInv

LEMMA ExAddThreadInv ==
    ASSUME ExInv, NEW a \in EX!Actors, EX!AddThread(a)
    PROVE  ExInv'
<1> USE ExConstants
<1>1. exEnqueue[a] # Null
  BY DEF EX!AddThread
<1>2. PICK e \in EX!Enqueues : e = exEnqueue[a]
  BY <1>1, ExCaller
<1>3. PICK f : f = EX!EndOrRetry(e)
  OBVIOUS
<1>4. /\ exEnqueue' = [exEnqueue EXCEPT ![a] = f] /\ exAdding' = Null
      /\ exElems' = exElems /\ exDepth' = exDepth
      /\ exShutdown' = exShutdown /\ exLong' = exLong
      /\ exSubtract' = exSubtract /\ exBatch' = exBatch /\ exInlined' = exInlined
      /\ exScheduled' = exScheduled
      /\ exRan' = exRan /\ exOwner' = exOwner /\ exSlot' = exSlot
  BY <1>2, <1>3 DEF EX!AddThread, EX!states, EX!owning, ExInv, EX!TypeOK
<1>5. f \in EX!Enqueues \cup {Null}
  BY <1>2, <1>3 DEF EX!Enqueues, EX!EndOrRetry
<1>6. exAdding' \in EX!Actors \cup {Null} /\ exScheduled' \in 0 .. MaxClosures
  BY <1>4 DEF ExInv, EX!TypeOK
<1>7. CASE ~(exNumThreads < max_threads_)
  <2>1. exNumThreads' = exNumThreads /\ exPc' = exPc
    BY <1>7 DEF EX!AddThread
  <2> QED BY <1>1, <1>4, <1>5, <1>6, <2>1, ExCaller, ExCallMoves
<1>8. CASE exNumThreads < max_threads_
  <2>1. exNumThreads' = exNumThreads + 1 /\ exPc' = [exPc EXCEPT ![exNumThreads] = "lock"]
    BY <1>8 DEF EX!AddThread
  <2>2. EX!TypeOK
    BY DEF ExInv
  <2>3. /\ ExPooled /\ a # Closer /\ (a \in EX!Slots => exPc[a] = "run")
        /\ (a \in Callers => exOwner = "threaded")
    BY <1>1, ExCaller
  <2>4. exNumThreads \in Nat /\ exNumThreads >= 1
    BY <2>2, <2>3 DEF ExInv, ExPool, EX!TypeOK
  <2>5. PICK n \in EX!Slots : n = exNumThreads
    BY <1>8, <2>4
  <2>6. exPc[n] = "off"
    BY <2>3, <2>4, <2>5 DEF ExInv, ExPool
  <2>7. /\ exPc' \in [EX!Slots -> {"off", "lock", "wait", "run", "exit"}]
        /\ exPc'[n] = "lock" /\ \A j \in EX!Slots : j # n => exPc'[j] = exPc[j]
    BY <2>1, <2>2, <2>5 DEF EX!TypeOK
  <2>8. /\ exEnqueue' \in [EX!Actors -> EX!Enqueues \cup {Null}]
        /\ \A b \in EX!Actors : b # a => exEnqueue'[b] = exEnqueue[b]
    BY <1>4, <1>5, <2>2 DEF EX!TypeOK
  <2>9. exNumThreads' \in 0 .. max_threads_
    BY <1>8, <2>1, <2>4
  <2>10. EX!TypeOK'
    BY <1>4, <1>6, <2>2, <2>7, <2>8, <2>9 DEF EX!TypeOK
  <2>11. ExCalls'
    <3>1. a # n
      BY <2>3, <2>6
    <3>2. \A j \in EX!Slots : exEnqueue'[j] # Null => exPc'[j] = "run"
      BY <2>3, <2>6, <2>7, <2>8, <3>1 DEF ExInv, ExCalls
    <3>3. \A b \in Callers : exEnqueue'[b] # Null => exOwner = "threaded"
      BY <2>3, <2>8 DEF ExInv, ExCalls
    <3>4. exEnqueue'[Closer] = Null
      BY <2>3, <2>8 DEF ExInv, ExCalls
    <3>5. \A j \in EX!Slots : exPc'[j] = "run" <=> exPc[j] = "run"
      BY <2>6, <2>7
    <3> QED BY <1>4, <3>2, <3>3, <3>4, <3>5 DEF ExInv, ExCalls
  <2>12. ExMarked' /\ ExInlined'
    BY <1>4 DEF ExInv, ExMarked, ExMarkedAll, ExInlined
  <2>13. ExPool'
    <3>1. exBatch'[Closer] = <<>> /\ exNumThreads' >= 1
      BY <1>4, <2>1, <2>3, <2>4 DEF ExInv, ExPool
    <3>2. \A j \in EX!Slots : exPc'[j] = "off" <=> j >= exNumThreads'
      <4> SUFFICES ASSUME NEW j \in EX!Slots PROVE exPc'[j] = "off" <=> j >= exNumThreads + 1
        BY <2>1
      <4>1. j \in Nat /\ (exPc[j] = "off" <=> j >= exNumThreads)
        BY <2>3 DEF ExInv, ExPool
      <4>2. CASE j = n
        BY <2>4, <2>5, <2>7, <4>2
      <4>3. CASE j # n
        BY <2>4, <2>5, <2>7, <4>1, <4>3
      <4> QED BY <4>2, <4>3
    <3>3. exOwner = "join" =>
             /\ exSlot <= exNumThreads'
             /\ \A j \in EX!Slots : j >= exSlot => exPc'[j] \in {"off", "lock", "exit"}
      <4>1. exSlot \in Nat
        BY <2>2 DEF EX!TypeOK
      <4> QED BY <2>1, <2>4, <2>7, <4>1 DEF ExInv, ExPool
    <3> QED BY <1>4, <2>3, <3>1, <3>2, <3>3 DEF ExPool, ExPooled
  <2>14. ExDepths'
    BY <1>4 DEF ExInv, ExDepths, EX!DepthExact
  <2>15. EX!NobodySleepsOnWork'
    BY <1>4, <2>7 DEF ExInv, EX!NobodySleepsOnWork
  <2> QED BY <2>10, <2>11, <2>12, <2>13, <2>14, <2>15 DEF ExInv
<1> QED BY <1>7, <1>8

LEMMA ExBeginInv ==
    ASSUME ExInv, EX!BeginShutdown
    PROVE  ExInv'
<1> USE ExConstants
<1>1. /\ exOwner = "threaded" /\ exOwner' = "mark" /\ \A a \in Callers : exEnqueue[a] = Null
      /\ exNumThreads' = exNumThreads /\ exElems' = exElems /\ exDepth' = exDepth
      /\ exShutdown' = exShutdown /\ exLong' = exLong /\ exPc' = exPc /\ exAdding' = exAdding
      /\ exSubtract' = exSubtract /\ exBatch' = exBatch /\ exInlined' = exInlined
      /\ exScheduled' = exScheduled /\ exEnqueue' = exEnqueue
      /\ exRan' = exRan /\ exSlot' = exSlot
  BY DEF EX!BeginShutdown, EX!states, EX!threads
<1>2. EX!TypeOK'
  BY <1>1 DEF ExInv, EX!TypeOK
<1>3. ExCalls' /\ ExInlined'
  BY <1>1 DEF ExInv, ExCalls, ExInlined
<1>4. ExPool'
  BY <1>1 DEF ExInv, ExPool, ExPooled
<1>5. ExMarked'
  BY <1>1 DEF ExInv, ExMarked, ExMarkedAll
<1>6. ExDepths' /\ EX!NobodySleepsOnWork'
  BY <1>1 DEF ExInv, ExDepths, EX!DepthExact, EX!NobodySleepsOnWork
<1> QED BY <1>2, <1>3, <1>4, <1>5, <1>6 DEF ExInv

LEMMA ExMarkInv ==
    ASSUME ExInv, EX!MarkShutdown
    PROVE  ExInv'
<1> USE ExConstants
<1>1. /\ exOwner = "mark" /\ exShutdown' = [exShutdown EXCEPT ![exSlot] = TRUE]
      /\ exPc' = EX!Signalled(exSlot)
      /\ IF exSlot + 1 = max_threads_
         THEN exSlot' = 0 /\ exOwner' = "spin"
         ELSE exSlot' = exSlot + 1 /\ exOwner' = exOwner
      /\ exNumThreads' = exNumThreads /\ exElems' = exElems /\ exDepth' = exDepth
      /\ exLong' = exLong /\ exAdding' = exAdding
      /\ exSubtract' = exSubtract /\ exBatch' = exBatch /\ exInlined' = exInlined
      /\ exScheduled' = exScheduled /\ exEnqueue' = exEnqueue
      /\ exRan' = exRan
  BY DEF EX!MarkShutdown
<1>2. EX!TypeOK
  BY DEF ExInv
<1>3. PICK s \in EX!Slots : s = exSlot
  BY <1>1, <1>2 DEF ExInv, ExMarked, EX!TypeOK
<1>4. exOwner' \in {"mark", "spin"} /\ exSlot' \in 0 .. max_threads_
  BY <1>1, <1>3
<1>5. /\ exShutdown' \in [EX!Slots -> BOOLEAN] /\ exShutdown'[s]
      /\ \A j \in EX!Slots : j # s => exShutdown'[j] = exShutdown[j]
  BY <1>1, <1>2, <1>3 DEF EX!TypeOK
<1>6. /\ exPc' \in [EX!Slots -> {"off", "lock", "wait", "run", "exit"}]
      /\ \A j \in EX!Slots : j # s => exPc'[j] = exPc[j]
      /\ exPc'[s] # "wait" /\ (exPc'[s] # exPc[s] => exPc[s] = "wait" /\ exPc'[s] = "lock")
  BY <1>1, <1>2, <1>3 DEF EX!TypeOK, EX!Signalled
<1>7. EX!TypeOK'
  BY <1>1, <1>2, <1>4, <1>5, <1>6 DEF EX!TypeOK
<1>8. \A j \in EX!Slots : /\ exPc'[j] = "run" <=> exPc[j] = "run"
                          /\ exPc'[j] = "off" <=> exPc[j] = "off"
  BY <1>6
<1>9. ExCalls'
  BY <1>1, <1>4, <1>8 DEF ExInv, ExCalls
<1>10. ExInlined'
  BY <1>1 DEF ExInv, ExInlined
<1>11. ExPool'
  BY <1>1, <1>4, <1>8 DEF ExInv, ExPool, ExPooled
<1>12. ExMarked'
  <2>1. \A j \in EX!Slots : j <= s => exShutdown'[j]
    BY <1>1, <1>3, <1>5 DEF ExInv, ExMarked
  <2>2. CASE s + 1 = max_threads_
    <3>1. exSlot' = 0 /\ exOwner' = "spin" /\ \A j \in EX!Slots : j <= s
      BY <1>1, <1>3, <2>2
    <3> QED BY <2>1, <3>1 DEF ExMarked, ExMarkedAll
  <2>3. CASE s + 1 # max_threads_
    <3>1. exSlot' = s + 1 /\ exOwner' = "mark" /\ exSlot' < max_threads_
      BY <1>1, <1>3, <2>3
    <3>2. \A j \in EX!Slots : j < exSlot' => j <= s
      BY <3>1
    <3> QED BY <2>1, <3>1, <3>2 DEF ExMarked, ExMarkedAll
  <2> QED BY <2>2, <2>3
<1>13. ExDepths'
  BY <1>1, <1>4 DEF ExInv, ExDepths, EX!DepthExact
<1>14. EX!NobodySleepsOnWork'
  BY <1>1, <1>5, <1>6 DEF ExInv, EX!NobodySleepsOnWork
<1> QED BY <1>7, <1>9, <1>10, <1>11, <1>12, <1>13, <1>14 DEF ExInv

LEMMA ExPassInv ==
    ASSUME ExInv, EX!PassSpinlock
    PROVE  ExInv'
<1> USE ExConstants
<1>1. /\ exOwner = "spin" /\ exOwner' = "join" /\ exSlot' = exNumThreads
      /\ exNumThreads' = exNumThreads /\ exElems' = exElems /\ exDepth' = exDepth
      /\ exShutdown' = exShutdown /\ exLong' = exLong /\ exPc' = exPc /\ exAdding' = exAdding
      /\ exSubtract' = exSubtract /\ exBatch' = exBatch /\ exInlined' = exInlined
      /\ exScheduled' = exScheduled /\ exEnqueue' = exEnqueue /\ exRan' = exRan
  BY DEF EX!PassSpinlock, EX!states, EX!threads
<1>2. EX!TypeOK'
  BY <1>1 DEF ExInv, EX!TypeOK
<1>3. ExCalls' /\ ExInlined'
  BY <1>1 DEF ExInv, ExCalls, ExInlined
<1>4. ExPool'
  <2>1. exNumThreads \in Nat /\ \A i \in EX!Slots : i >= exNumThreads => exPc[i] = "off"
    BY <1>1 DEF ExInv, ExPool, ExPooled, EX!TypeOK
  <2> QED BY <1>1, <2>1 DEF ExInv, ExPool, ExPooled
<1>5. ExMarked'
  BY <1>1 DEF ExInv, ExMarked, ExMarkedAll
<1>6. ExDepths' /\ EX!NobodySleepsOnWork'
  BY <1>1 DEF ExInv, ExDepths, EX!DepthExact, EX!NobodySleepsOnWork
<1> QED BY <1>2, <1>3, <1>4, <1>5, <1>6 DEF ExInv

LEMMA ExJoinInv ==
    ASSUME ExInv, EX!Join
    PROVE  ExInv'
<1> USE ExConstants
<1>1. /\ exOwner = "join" /\ exOwner' = "drain" /\ exSlot' = 0 /\ exNumThreads' = 0
      /\ \A i \in 0 .. exSlot - 1 : exPc[i] = "exit"
      /\ exElems' = exElems /\ exDepth' = exDepth
      /\ exShutdown' = exShutdown /\ exLong' = exLong /\ exPc' = exPc /\ exAdding' = exAdding
      /\ exSubtract' = exSubtract /\ exBatch' = exBatch /\ exInlined' = exInlined
      /\ exScheduled' = exScheduled /\ exEnqueue' = exEnqueue /\ exRan' = exRan
  BY DEF EX!Join, EX!states, EX!threads
<1>2. EX!TypeOK'
  BY <1>1 DEF ExInv, EX!TypeOK
<1>3. ExCalls' /\ ExInlined'
  BY <1>1 DEF ExInv, ExCalls, ExInlined
<1>4. ExPool'
  <2>1. ASSUME NEW i \in EX!Slots PROVE exPc[i] \in {"off", "lock", "exit"}
    <3>1. exSlot \in Nat /\ i \in Nat
      BY DEF ExInv, EX!TypeOK
    <3>2. i \in 0 .. exSlot - 1 \/ i >= exSlot
      BY <3>1
    <3> QED BY <1>1, <3>2 DEF ExInv, ExPool
  <2> QED BY <1>1, <2>1 DEF ExPool, ExPooled
<1>5. ExMarked'
  BY <1>1 DEF ExInv, ExMarked, ExMarkedAll
<1>6. ExDepths' /\ EX!NobodySleepsOnWork'
  BY <1>1 DEF ExInv, ExDepths, EX!DepthExact, EX!NobodySleepsOnWork
<1> QED BY <1>2, <1>3, <1>4, <1>5, <1>6 DEF ExInv

LEMMA ExDrainInv ==
    ASSUME ExInv, EX!Drain
    PROVE  ExInv'
<1> USE ExConstants
<1>1. /\ exOwner = "drain" /\ exSlot < max_threads_ /\ exBatch[Closer] = <<>>
      /\ exBatch' = [exBatch EXCEPT ![Closer] = exElems[exSlot]]
      /\ exElems' = [exElems EXCEPT ![exSlot] = <<>>] /\ exSlot' = exSlot + 1
      /\ exNumThreads' = exNumThreads /\ exDepth' = exDepth
      /\ exShutdown' = exShutdown /\ exLong' = exLong /\ exPc' = exPc /\ exAdding' = exAdding
      /\ exSubtract' = exSubtract /\ exInlined' = exInlined /\ exOwner' = exOwner
      /\ exScheduled' = exScheduled /\ exEnqueue' = exEnqueue /\ exRan' = exRan
  BY DEF EX!Drain, EX!threads
<1>2. EX!TypeOK
  BY DEF ExInv
<1>3. PICK s \in EX!Slots : s = exSlot
  BY <1>1, <1>2 DEF EX!TypeOK
<1>4. /\ exElems \in [EX!Slots -> Seq(EX!Jobs)] /\ exElems[s] \in Seq(EX!Jobs)
      /\ exBatch \in [EX!Slots \cup {Closer} -> Seq(EX!Jobs)] /\ <<>> \in Seq(EX!Jobs)
  BY <1>2 DEF EX!TypeOK
<1>5. /\ exBatch' \in [EX!Slots \cup {Closer} -> Seq(EX!Jobs)]
      /\ exBatch'[Closer] = exElems[s] /\ \A i \in EX!Slots : exBatch'[i] = exBatch[i]
  BY <1>1, <1>3, <1>4
<1>6. /\ exElems' \in [EX!Slots -> Seq(EX!Jobs)]
      /\ exElems'[s] = <<>> /\ \A i \in EX!Slots : i # s => exElems'[i] = exElems[i]
  BY <1>1, <1>3, <1>4
<1>7. exSlot' \in 0 .. max_threads_
  BY <1>1, <1>3
<1>8. EX!TypeOK'
  BY <1>1, <1>2, <1>5, <1>6, <1>7 DEF EX!TypeOK
<1>9. ExCalls' /\ ExMarked'
  BY <1>1, <1>5 DEF ExInv, ExCalls, ExMarked, ExMarkedAll
<1>10. ExInlined'
  <2>1. exInlined = 0
    <3>1. exInlined \in Nat /\ Len(exBatch[Closer]) = 0
      BY <1>1, <1>2 DEF EX!TypeOK
    <3> QED BY <3>1 DEF ExInv, ExInlined
  <2>2. exElems[s] = <<>> \/ Len(exElems[s]) > 0
    BY <1>4
  <2> QED BY <1>1, <1>5, <2>1, <2>2 DEF ExInlined
<1>11. ExPool' /\ ExDepths'
  BY <1>1 DEF ExInv, ExPool, ExPooled, ExDepths, EX!DepthExact
<1>12. EX!NobodySleepsOnWork'
  BY <1>1, <1>6 DEF ExInv, EX!NobodySleepsOnWork
<1> QED BY <1>8, <1>9, <1>10, <1>11, <1>12 DEF ExInv

LEMMA ExFreeInv ==
    ASSUME ExInv, EX!Free \/ UNCHANGED exVars
    PROVE  ExInv'
<1> USE ExConstants
<1>1. /\ (exOwner = "drain" /\ exOwner' = "freed") \/ exOwner' = exOwner
      /\ exNumThreads' = exNumThreads /\ exElems' = exElems /\ exDepth' = exDepth
      /\ exShutdown' = exShutdown /\ exLong' = exLong /\ exPc' = exPc /\ exAdding' = exAdding
      /\ exSubtract' = exSubtract /\ exBatch' = exBatch /\ exInlined' = exInlined
      /\ exScheduled' = exScheduled /\ exEnqueue' = exEnqueue
      /\ exRan' = exRan /\ exSlot' = exSlot
  BY DEF EX!Free, EX!states, EX!threads, exVars
<1>2. EX!TypeOK'
  BY <1>1 DEF ExInv, EX!TypeOK
<1>3. ExCalls' /\ ExInlined'
  BY <1>1 DEF ExInv, ExCalls, ExInlined
<1>4. ExPool'
  BY <1>1 DEF ExInv, ExPool, ExPooled
<1>5. ExMarked'
  BY <1>1 DEF ExInv, ExMarked, ExMarkedAll
<1>6. ExDepths' /\ EX!NobodySleepsOnWork'
  BY <1>1 DEF ExInv, ExDepths, EX!DepthExact, EX!NobodySleepsOnWork
<1> QED BY <1>2, <1>3, <1>4, <1>5, <1>6 DEF ExInv

LEMMA ExStep ==
    ASSUME ExInv, EX!Next \/ UNCHANGED exVars
    PROVE  ExInv'
<1>1. CASE \E a \in EX!Actors : EX!Enqueue(a) \/ EX!Step(a)
  BY <1>1, ExEnqueueInv, ExTryNextInv, ExPushInv, ExTryLockInv, ExAddThreadInv, ExRetryInv,
     ExReturnsInv, ExMainInv DEF EX!Step, EX!EnqueueStep
<1>2. CASE EX!BeginShutdown \/ EX!Shutdown \/ UNCHANGED exVars
  BY <1>2, ExBeginInv, ExMarkInv, ExPassInv, ExJoinInv, ExDrainInv, ExFreeInv DEF EX!Shutdown
<1> QED BY <1>1, <1>2 DEF EX!Next

-----------------------------------------------------------------------------
(* ThreadManager                                                           *)

\* Where a worker polls, where it is counted in num_threads_, where it takes a
\* part of the quota, and where it has been listed as completed.
TmPollPlaces == {"poll", "found", "timeout", "shutdown"}
TmCountPlaces == {"poll", "found", "timeout", "shutdown", "spawn", "work", "exhausted",
                  "worked", "cleanup", "join", "mark", "count"}
TmAlivePlaces == {"poll", "found", "timeout", "shutdown", "spawn", "work", "exhausted",
                  "worked", "cleanup", "join", "mark", "count", "free"}
TmLeftPlaces == {"count", "free", "finished"}

TmAt(P) == {t \in Workers : tmPc[t] \in P}
TmN(P) == Cardinality(TmAt(P))
nPolling == TmN(TmPollPlaces)
nSpawning == TmN({"spawn"})
nCounted == TmN(TmCountPlaces)
nAlive == TmN(TmAlivePlaces)

\* The counters, and what the manager holds of the quota until ru_destroy.
TmHolding == tmRu \in {"alive", "unreffed", "destroying"}
TmCounts ==
    /\ tmNumPollers = nPolling + nSpawning + tmToStart
    /\ tmNumThreads = nCounted + nSpawning + tmToStart
    /\ TmHolding => nAlive + nSpawning + tmToStart <= tmRuThreads
    /\ tmRuThreads <= tmRqThreads

\* The workers that have left are in one list each.
TmLists ==
    /\ \A t \in Workers : tmPc[t] \in TmLeftPlaces <=>
          t \in tmCompleted \/ \E a \in Workers \cup {"owner"} : t \in tmJoining[a]
    /\ \A a \in Workers \cup {"owner"} : tmCompleted \cap tmJoining[a] = {}
    /\ \A a, b \in Workers \cup {"owner"} : a # b => tmJoining[a] \cap tmJoining[b] = {}
    /\ \A t \in Workers : tmJoining[t] # {} => tmPc[t] = "join"
    /\ tmJoining["owner"] # {} => tmOwner = "join"

\* How far the owner has come.
TmOver == tmOwner \in {"drain", "destroy", "cleanup", "join", "flush", "gone"}
TmOwned ==
    /\ tmOwner # "initialize" => tmToStart = 0
    /\ TmOver => tmNumThreads = 0
    /\ tmOwner \in {"join", "flush", "gone"} => tmCompleted = {}
    /\ tmRu # "alive" => tmOwner \in {"cleanup", "join", "flush", "gone"}
    /\ tmRu = "destroying" => tmRuThreads <= tmRuLeft
    /\ tmRu = "destroyed" => tmRuThreads = 0

TmInv == TM!TypeOK /\ TmCounts /\ TmLists /\ TmOwned

LEMMA TmConstants ==
    /\ IsFiniteSet(Workers) /\ "owner" \notin Workers /\ TM!Owner = "owner"
    /\ min_pollers_ \in Nat \ {0} /\ max_pollers_ \in Nat \ {0}
    /\ max_threads \in Nat /\ min_pollers_ <= max_threads /\ MaxBacklog \in Nat
<1>1. TM!IsFiniteSet(Workers) <=> IsFiniteSet(Workers)
  BY Zenon DEF TM!IsFiniteSet, IsFiniteSet
<1> QED BY <1>1, ExecutorsAssumption DEF TM!ThreadManagerConstants, TM!Owner

\* How many workers are at some places.
LEMMA TmSet ==
    ASSUME NEW P
    PROVE  /\ TmN(P) \in Nat /\ (TmN(P) = 0 <=> TmAt(P) = {})
           /\ \A t \in Workers : tmPc[t] \in P => TmN(P) >= 1
           /\ \A R : P \subseteq R => TmN(P) <= TmN(R)
<1>1. TmAt(P) \in SUBSET Workers /\ \A t \in Workers : tmPc[t] \in P <=> t \in TmAt(P)
  BY DEF TmAt
<1>2. TmN(P) \in Nat /\ (TmN(P) = 0 <=> TmAt(P) = {}) /\ \A t \in TmAt(P) : TmN(P) >= 1
  BY <1>1, TmConstants, Finite DEF TmN
<1>3. ASSUME NEW R, P \subseteq R PROVE TmN(P) <= TmN(R)
  <2>1. TmAt(P) \in SUBSET TmAt(R) /\ TmAt(R) \in SUBSET Workers
    BY <1>3 DEF TmAt
  <2>2. IsFiniteSet(TmAt(R))
    BY <2>1, TmConstants, FS_Subset
  <2> QED BY <2>1, <2>2, Finite DEF TmN
<1> QED BY <1>1, <1>2, <1>3

LEMMA TmNumbers ==
    /\ nPolling \in Nat /\ nSpawning \in Nat /\ nCounted \in Nat /\ nAlive \in Nat
    /\ nPolling <= nCounted /\ nCounted <= nAlive
    /\ nCounted = 0 => TmAt(TmCountPlaces) = {}
    /\ nAlive = 0 => TmAt(TmAlivePlaces) = {}
    /\ \A t \in Workers : tmPc[t] \in TmCountPlaces => nCounted >= 1
    /\ \A t \in Workers : tmPc[t] \in TmAlivePlaces => nAlive >= 1
<1>1. TmPollPlaces \subseteq TmCountPlaces /\ TmCountPlaces \subseteq TmAlivePlaces
  BY DEF TmPollPlaces, TmCountPlaces, TmAlivePlaces
<1> QED BY <1>1, TmSet DEF nPolling, nSpawning, nCounted, nAlive

\* One worker goes from one place to another.
LEMMA TmMove ==
    ASSUME TM!TypeOK, NEW t \in Workers, NEW l \in TM!WorkerStates,
           tmPc' = [tmPc EXCEPT ![t] = l]
    PROVE  /\ tmPc' \in [Workers -> TM!WorkerStates]
           /\ tmPc'[t] = l /\ \A u \in Workers : u # t => tmPc'[u] = tmPc[u]
BY DEF TM!TypeOK

LEMMA TmMoveSet ==
    ASSUME TM!TypeOK, NEW t \in Workers, NEW l \in TM!WorkerStates,
           tmPc' = [tmPc EXCEPT ![t] = l], NEW P
    PROVE  /\ (tmPc[t] \in P <=> l \in P) => TmN(P)' = TmN(P)
           /\ tmPc[t] \notin P /\ l \in P => TmN(P)' = TmN(P) + 1
           /\ tmPc[t] \in P /\ l \notin P => TmN(P)' = TmN(P) - 1
<1>1. /\ TmAt(P)' = IF l \in P THEN TmAt(P) \cup {t} ELSE TmAt(P) \ {t}
      /\ t \in TmAt(P) <=> tmPc[t] \in P
      /\ TmAt(P) \in SUBSET Workers
  BY TmMove DEF TmAt
<1>2. /\ Cardinality(TmAt(P) \cup {t}) = Cardinality(TmAt(P)) + 1 - One(t \in TmAt(P))
      /\ Cardinality(TmAt(P) \ {t}) = Cardinality(TmAt(P)) - One(t \in TmAt(P))
      /\ TmN(P) = Cardinality(TmAt(P)) /\ TmN(P)' = Cardinality(TmAt(P)')
      /\ Cardinality(TmAt(P)) \in Nat
  BY <1>1, TmConstants, Moves, Finite DEF TmN
<1> QED BY <1>1, <1>2 DEF One

LEMMA TmCount ==
    ASSUME TM!TypeOK, NEW t \in Workers, NEW l \in TM!WorkerStates,
           tmPc' = [tmPc EXCEPT ![t] = l]
    PROVE  /\ (tmPc[t] \in TmPollPlaces <=> l \in TmPollPlaces) => nPolling' = nPolling
           /\ tmPc[t] \notin TmPollPlaces /\ l \in TmPollPlaces => nPolling' = nPolling + 1
           /\ tmPc[t] \in TmPollPlaces /\ l \notin TmPollPlaces => nPolling' = nPolling - 1
           /\ tmPc[t] # "spawn" /\ l # "spawn" => nSpawning' = nSpawning
           /\ tmPc[t] # "spawn" /\ l = "spawn" => nSpawning' = nSpawning + 1
           /\ tmPc[t] = "spawn" /\ l # "spawn" => nSpawning' = nSpawning - 1
           /\ (tmPc[t] \in TmCountPlaces <=> l \in TmCountPlaces) => nCounted' = nCounted
           /\ tmPc[t] \notin TmCountPlaces /\ l \in TmCountPlaces => nCounted' = nCounted + 1
           /\ tmPc[t] \in TmCountPlaces /\ l \notin TmCountPlaces => nCounted' = nCounted - 1
           /\ (tmPc[t] \in TmAlivePlaces <=> l \in TmAlivePlaces) => nAlive' = nAlive
           /\ tmPc[t] \notin TmAlivePlaces /\ l \in TmAlivePlaces => nAlive' = nAlive + 1
           /\ tmPc[t] \in TmAlivePlaces /\ l \notin TmAlivePlaces => nAlive' = nAlive - 1
<1>1. /\ (tmPc[t] \in TmPollPlaces <=> l \in TmPollPlaces) => nPolling' = nPolling
      /\ tmPc[t] \notin TmPollPlaces /\ l \in TmPollPlaces => nPolling' = nPolling + 1
      /\ tmPc[t] \in TmPollPlaces /\ l \notin TmPollPlaces => nPolling' = nPolling - 1
  BY TmMoveSet DEF nPolling
<1>2. /\ (tmPc[t] \in {"spawn"} <=> l \in {"spawn"}) => nSpawning' = nSpawning
      /\ tmPc[t] \notin {"spawn"} /\ l \in {"spawn"} => nSpawning' = nSpawning + 1
      /\ tmPc[t] \in {"spawn"} /\ l \notin {"spawn"} => nSpawning' = nSpawning - 1
  BY TmMoveSet DEF nSpawning
<1>3. /\ (tmPc[t] \in TmCountPlaces <=> l \in TmCountPlaces) => nCounted' = nCounted
      /\ tmPc[t] \notin TmCountPlaces /\ l \in TmCountPlaces => nCounted' = nCounted + 1
      /\ tmPc[t] \in TmCountPlaces /\ l \notin TmCountPlaces => nCounted' = nCounted - 1
  BY TmMoveSet DEF nCounted
<1>4. /\ (tmPc[t] \in TmAlivePlaces <=> l \in TmAlivePlaces) => nAlive' = nAlive
      /\ tmPc[t] \notin TmAlivePlaces /\ l \in TmAlivePlaces => nAlive' = nAlive + 1
      /\ tmPc[t] \in TmAlivePlaces /\ l \notin TmAlivePlaces => nAlive' = nAlive - 1
  BY TmMoveSet DEF nAlive
<1> QED BY <1>1, <1>2, <1>3, <1>4

LEMMA TmStay ==
    ASSUME tmPc' = tmPc
    PROVE  /\ nPolling' = nPolling /\ nSpawning' = nSpawning
           /\ nCounted' = nCounted /\ nAlive' = nAlive
BY DEF nPolling, nSpawning, nCounted, nAlive, TmN, TmAt

\* The counters are within their types.
TmBounded ==
    TmCounts /\ tmRu = "alive" /\ tmRqThreads \in 0 .. max_threads /\ tmRuThreads \in Int
    /\ tmToStart \in Nat =>
        /\ tmNumPollers \in 0 .. max_threads /\ tmNumThreads \in 0 .. max_threads
        /\ tmRuThreads \in 0 .. max_threads

LEMMA TmBounds == TmBounded
BY TmNumbers, TmConstants DEF TmBounded, TmCounts, TmHolding

LEMMA TmBoundsNext == TmBounded'
BY TmBounds, PTL

LEMMA TmInitInv == TM!Init => TmInv
<1> SUFFICES ASSUME TM!Init PROVE TmInv
  OBVIOUS
<1> USE TmConstants
<1>1. /\ tmShutdown = FALSE /\ tmNumPollers = min_pollers_ /\ tmNumThreads = min_pollers_
      /\ tmMax = min_pollers_ /\ tmCompleted = {} /\ tmRqThreads = min_pollers_
      /\ tmRuThreads = min_pollers_ /\ tmRu = "alive" /\ tmRuLeft = 0 /\ tmEvents = 0 /\ tmCqShutdown = FALSE
      /\ tmPc = [t \in Workers |-> "none"]
      /\ tmJoining = [a \in Workers \cup {"owner"} |-> {}]
      /\ tmOwner = "initialize" /\ tmToStart = min_pollers_
  BY DEF TM!Init
<1>2. TM!TypeOK
  <2>1. tmShutdown \in BOOLEAN /\ tmCqShutdown \in BOOLEAN
    BY <1>1
  <2>2. tmPc \in [Workers -> TM!WorkerStates] /\ tmJoining \in [Workers \cup {"owner"} -> SUBSET Workers]
    BY <1>1 DEF TM!WorkerStates
  <2> QED BY <1>1, <2>1, <2>2 DEF TM!TypeOK, TM!RuStates
<1>3. TmAt(TmPollPlaces) = {} /\ TmAt({"spawn"}) = {} /\ TmAt(TmCountPlaces) = {}
      /\ TmAt(TmAlivePlaces) = {}
  BY <1>1 DEF TmAt, TmPollPlaces, TmCountPlaces, TmAlivePlaces
<1>4. nPolling = 0 /\ nSpawning = 0 /\ nCounted = 0 /\ nAlive = 0
  BY <1>3, TmSet DEF nPolling, nSpawning, nCounted, nAlive
<1>5. TmCounts
  BY <1>1, <1>4 DEF TmCounts, TmHolding
<1>6. TmLists /\ TmOwned
  BY <1>1 DEF TmLists, TmOwned, TmOver, TmLeftPlaces
<1> QED BY <1>2, <1>5, <1>6 DEF TmInv

LEMMA TmTypes ==
    ASSUME TmInv
    PROVE  /\ tmToStart \in Nat /\ tmNumPollers \in Nat /\ tmNumThreads \in Nat
           /\ tmRqThreads \in Nat /\ tmRuThreads \in Nat /\ tmRqThreads <= max_threads
           /\ tmMax \in 0 .. max_threads /\ tmEvents \in 0 .. MaxBacklog
           /\ tmRqThreads \in 0 .. max_threads
           /\ tmNumPollers = nPolling + nSpawning + tmToStart
           /\ tmNumThreads = nCounted + nSpawning + tmToStart
           /\ TmHolding => nAlive + nSpawning + tmToStart <= tmRuThreads
           /\ tmRuThreads <= tmRqThreads
<1>1. /\ tmToStart \in 0 .. min_pollers_ /\ tmNumPollers \in 0 .. max_threads
      /\ tmNumThreads \in 0 .. max_threads /\ tmRqThreads \in 0 .. max_threads
      /\ tmRuThreads \in 0 .. max_threads /\ tmMax \in 0 .. max_threads
      /\ tmEvents \in 0 .. MaxBacklog
  BY DEF TmInv, TM!TypeOK
<1>2. /\ tmNumPollers = nPolling + nSpawning + tmToStart
      /\ tmNumThreads = nCounted + nSpawning + tmToStart
      /\ TmHolding => nAlive + nSpawning + tmToStart <= tmRuThreads
      /\ tmRuThreads <= tmRqThreads
  BY DEF TmInv, TmCounts, TmHolding
<1> QED BY <1>1, <1>2, TmConstants

\* While a worker is counted the owner waits.
LEMMA TmBusy ==
    ASSUME TmInv, NEW t \in Workers, tmPc[t] \in TmCountPlaces
    PROVE  /\ ~TmOver /\ tmRu = "alive" /\ tmNumThreads >= 1
           /\ nAlive + nSpawning + tmToStart <= tmRuThreads
<1>1. tmNumThreads >= 1
  BY TmTypes, TmNumbers
<1>2. ~TmOver
  BY <1>1 DEF TmInv, TmOwned
<1>3. tmRu = "alive"
  BY <1>2 DEF TmInv, TmOwned, TmOver
<1> QED BY <1>1, <1>2, <1>3, TmTypes DEF TmHolding

\* A step of a worker that is counted.
LEMMA TmWorks ==
    ASSUME TmInv, NEW t \in Workers, tmPc[t] \in TmCountPlaces,
           tmPc' \in [Workers -> TM!WorkerStates],
           TmCounts', TmLists',
           tmCompleted' \subseteq Workers,
           tmJoining' \in [Workers \cup {"owner"} -> SUBSET Workers],
           tmMax' \in 0 .. max_threads, tmRqThreads' \in 0 .. max_threads,
           tmRuThreads' \in Int, tmEvents' \in 0 .. MaxBacklog,
           tmShutdown' = tmShutdown, tmCqShutdown' = tmCqShutdown, tmRu' = tmRu, tmRuLeft' = tmRuLeft,
           tmOwner' = tmOwner, tmToStart' = tmToStart
    PROVE  TmInv'
<1>1. TM!TypeOK
  BY DEF TmInv
<1>2. tmToStart' \in Nat
  <2>1. tmToStart \in 0 .. min_pollers_
    BY <1>1 DEF TM!TypeOK
  <2> QED BY <2>1, TmConstants
<1>3. /\ tmNumPollers' \in 0 .. max_threads /\ tmNumThreads' \in 0 .. max_threads
      /\ tmRuThreads' \in 0 .. max_threads
  <2>1. tmRu' = "alive"
    BY TmBusy
  <2> QED BY <1>2, <2>1, TmBoundsNext DEF TmBounded
<1>4. TM!TypeOK'
  BY <1>1, <1>3, TmConstants DEF TM!TypeOK
<1>5. TmOwned'
  <2>1. ~TmOver /\ tmRu = "alive"
    BY TmBusy
  <2>2. tmOwner # "initialize" => tmToStart = 0
    BY DEF TmInv, TmOwned
  <2> QED BY <2>1, <2>2 DEF TmOwned, TmOver
<1> QED BY <1>4, <1>5 DEF TmInv

\* The lists stay while no worker enters or leaves them.
LEMMA TmSameLists ==
    ASSUME TmInv, NEW t \in Workers, NEW l \in TM!WorkerStates,
           tmPc' = [tmPc EXCEPT ![t] = l],
           tmPc[t] \in TmLeftPlaces <=> l \in TmLeftPlaces,
           tmPc[t] # "join" \/ tmJoining[t] = {},
           tmCompleted' = tmCompleted, tmJoining' = tmJoining, tmOwner' = tmOwner
    PROVE  /\ TmLists' /\ tmCompleted' \subseteq Workers
           /\ tmJoining' \in [Workers \cup {"owner"} -> SUBSET Workers]
           /\ tmPc' \in [Workers -> TM!WorkerStates]
<1>1. TM!TypeOK /\ TmLists
  BY DEF TmInv
<1>2. /\ tmPc' \in [Workers -> TM!WorkerStates]
      /\ tmPc'[t] = l /\ \A u \in Workers : u # t => tmPc'[u] = tmPc[u]
  BY <1>1, TmMove
<1>3. \A u \in Workers : tmPc'[u] \in TmLeftPlaces <=> tmPc[u] \in TmLeftPlaces
  BY <1>2
<1>4. \A u \in Workers : tmJoining[u] # {} => tmPc'[u] = "join"
  BY <1>1, <1>2 DEF TmLists
<1>5. TmLists'
  BY <1>1, <1>3, <1>4 DEF TmLists
<1> QED BY <1>1, <1>2, <1>5, TmConstants DEF TM!TypeOK

LEMMA TmPollInv ==
    ASSUME TmInv, NEW t \in Workers, TM!PollForWork(t)
    PROVE  TmInv'
<1>1. PICK l \in {"found", "shutdown", "timeout"} : tmPc' = [tmPc EXCEPT ![t] = l]
  BY DEF TM!PollForWork, TM!Goto
<1>2. /\ tmPc[t] = "poll" /\ (tmEvents' = tmEvents \/ (tmEvents > 0 /\ tmEvents' = tmEvents - 1))
      /\ tmShutdown' = tmShutdown /\ tmNumPollers' = tmNumPollers /\ tmNumThreads' = tmNumThreads
      /\ tmMax' = tmMax /\ tmCompleted' = tmCompleted /\ tmRqThreads' = tmRqThreads
      /\ tmRuThreads' = tmRuThreads /\ tmRu' = tmRu /\ tmRuLeft' = tmRuLeft /\ tmCqShutdown' = tmCqShutdown
      /\ tmJoining' = tmJoining /\ tmOwner' = tmOwner /\ tmToStart' = tmToStart
  BY DEF TM!PollForWork, TM!counters, TM!quota
<1>3. tmEvents' \in 0 .. MaxBacklog
  BY <1>2, TmTypes, TmConstants
<1>4. /\ tmPc[t] \in TmCountPlaces /\ tmPc[t] \in TmPollPlaces /\ tmPc[t] \in TmAlivePlaces
      /\ l \in TmCountPlaces /\ l \in TmPollPlaces /\ l \in TmAlivePlaces
      /\ tmPc[t] \notin TmLeftPlaces /\ l \notin TmLeftPlaces
      /\ l \in TM!WorkerStates /\ tmPc[t] # "spawn" /\ l # "spawn" /\ tmPc[t] # "join"
  BY <1>1, <1>2 DEF TmPollPlaces, TmCountPlaces, TmAlivePlaces, TmLeftPlaces, TM!WorkerStates
<1>5. nPolling' = nPolling /\ nSpawning' = nSpawning /\ nCounted' = nCounted /\ nAlive' = nAlive
  BY <1>1, <1>4, TmCount DEF TmInv
<1>6. TmCounts'
  BY <1>2, <1>5 DEF TmInv, TmCounts, TmHolding
<1>7. /\ TmLists' /\ tmCompleted' \subseteq Workers
      /\ tmJoining' \in [Workers \cup {"owner"} -> SUBSET Workers]
      /\ tmPc' \in [Workers -> TM!WorkerStates]
  BY <1>1, <1>2, <1>4, TmSameLists
<1> QED BY <1>2, <1>3, <1>4, <1>6, <1>7, TmTypes, TmWorks

\* The end of the loop's body, with some number of pollers left.
LEMMA TmAgainInv ==
    ASSUME TmInv, NEW t \in Workers, NEW done, NEW n \in Int, TM!PollAgainOrLeave(t, done, n),
           \/ tmPc[t] \in {"timeout", "shutdown"} /\ n = tmNumPollers - 1
           \/ tmPc[t] = "worked" /\ n = tmNumPollers,
           tmShutdown' = tmShutdown, tmNumThreads' = tmNumThreads,
           tmMax' = tmMax, tmCompleted' = tmCompleted, tmRqThreads' = tmRqThreads,
           tmRuThreads' = tmRuThreads, tmRu' = tmRu, tmRuLeft' = tmRuLeft, tmCqShutdown' = tmCqShutdown,
           tmEvents' = tmEvents,
           tmJoining' = tmJoining, tmOwner' = tmOwner, tmToStart' = tmToStart
    PROVE  TmInv'
<1>1. PICK l \in {"poll", "cleanup"} :
         /\ tmPc' = [tmPc EXCEPT ![t] = l]
         /\ l = "poll" => tmNumPollers' = n + 1
         /\ l = "cleanup" => tmNumPollers' = n
  BY DEF TM!PollAgainOrLeave, TM!Goto
<1>2. /\ tmPc[t] \in TmCountPlaces /\ tmPc[t] \in TmAlivePlaces
      /\ l \in TmCountPlaces /\ l \in TmAlivePlaces
      /\ tmPc[t] \notin TmLeftPlaces /\ l \notin TmLeftPlaces
      /\ l \in TM!WorkerStates /\ tmPc[t] # "spawn" /\ l # "spawn" /\ tmPc[t] # "join"
      /\ tmPc[t] \in TmPollPlaces <=> tmPc[t] \in {"timeout", "shutdown"}
      /\ l \in TmPollPlaces <=> l = "poll"
  BY <1>1 DEF TmPollPlaces, TmCountPlaces, TmAlivePlaces, TmLeftPlaces, TM!WorkerStates
<1>3. nSpawning' = nSpawning /\ nCounted' = nCounted /\ nAlive' = nAlive
  BY <1>1, <1>2, TmCount DEF TmInv
<1>4. tmNumPollers' = nPolling' + nSpawning' + tmToStart'
  <2>1. tmNumPollers = nPolling + nSpawning + tmToStart /\ nPolling \in Nat /\ nSpawning \in Nat
        /\ tmToStart \in Nat
    BY TmTypes, TmNumbers
  <2>2. CASE tmPc[t] \in {"timeout", "shutdown"} /\ n = tmNumPollers - 1 /\ l = "poll"
    <3>1. nPolling' = nPolling
      BY <1>1, <1>2, <2>2, TmCount DEF TmInv
    <3> QED BY <1>1, <1>3, <2>1, <2>2, <3>1
  <2>3. CASE tmPc[t] \in {"timeout", "shutdown"} /\ n = tmNumPollers - 1 /\ l = "cleanup"
    <3>1. nPolling' = nPolling - 1
      BY <1>1, <1>2, <2>3, TmCount DEF TmInv
    <3> QED BY <1>1, <1>3, <2>1, <2>3, <3>1
  <2>4. CASE tmPc[t] = "worked" /\ n = tmNumPollers /\ l = "poll"
    <3>1. nPolling' = nPolling + 1
      BY <1>1, <1>2, <2>4, TmCount DEF TmInv
    <3> QED BY <1>1, <1>3, <2>1, <2>4, <3>1
  <2>5. CASE tmPc[t] = "worked" /\ n = tmNumPollers /\ l = "cleanup"
    <3>1. nPolling' = nPolling
      BY <1>1, <1>2, <2>5, TmCount DEF TmInv
    <3> QED BY <1>1, <1>3, <2>1, <2>5, <3>1
  <2> QED BY <1>1, <2>2, <2>3, <2>4, <2>5
<1>5. TmCounts'
  BY <1>3, <1>4 DEF TmInv, TmCounts, TmHolding
<1>6. /\ TmLists' /\ tmCompleted' \subseteq Workers
      /\ tmJoining' \in [Workers \cup {"owner"} -> SUBSET Workers]
      /\ tmPc' \in [Workers -> TM!WorkerStates]
  BY <1>1, <1>2, TmSameLists
<1> QED BY <1>2, <1>5, <1>6, TmTypes, TmWorks

LEMMA TmNothingInv ==
    ASSUME TmInv, NEW t \in Workers, TM!NothingFound(t)
    PROVE  TmInv'
<1>1. /\ tmPc[t] \in {"timeout", "shutdown"}
      /\ \E done : TM!PollAgainOrLeave(t, done, tmNumPollers - 1)
      /\ tmShutdown' = tmShutdown /\ tmNumThreads' = tmNumThreads
      /\ tmMax' = tmMax /\ tmCompleted' = tmCompleted /\ tmRqThreads' = tmRqThreads
      /\ tmRuThreads' = tmRuThreads /\ tmRu' = tmRu /\ tmRuLeft' = tmRuLeft /\ tmCqShutdown' = tmCqShutdown
      /\ tmEvents' = tmEvents
      /\ tmJoining' = tmJoining /\ tmOwner' = tmOwner /\ tmToStart' = tmToStart
  BY DEF TM!NothingFound, TM!quota, TM!cq
<1>2. tmNumPollers - 1 \in Int
  BY TmTypes
<1> QED BY <1>1, <1>2, TmAgainInv

LEMMA TmWorkDoneInv ==
    ASSUME TmInv, NEW t \in Workers, TM!WorkDone(t)
    PROVE  TmInv'
<1>1. /\ tmPc[t] = "worked"
      /\ TM!PollAgainOrLeave(t, tmShutdown, tmNumPollers)
      /\ tmShutdown' = tmShutdown /\ tmNumThreads' = tmNumThreads
      /\ tmMax' = tmMax /\ tmCompleted' = tmCompleted /\ tmRqThreads' = tmRqThreads
      /\ tmRuThreads' = tmRuThreads /\ tmRu' = tmRu /\ tmRuLeft' = tmRuLeft /\ tmCqShutdown' = tmCqShutdown
      /\ tmEvents' = tmEvents
      /\ tmJoining' = tmJoining /\ tmOwner' = tmOwner /\ tmToStart' = tmToStart
  BY DEF TM!WorkDone, TM!quota, TM!cq
<1>2. tmNumPollers \in Int
  BY TmTypes
<1> QED BY <1>1, <1>2, TmAgainInv

LEMMA TmFoundInv ==
    ASSUME TmInv, NEW t \in Workers, TM!WorkFound(t)
    PROVE  TmInv'
<1>1. /\ tmPc[t] = "found"
      /\ tmShutdown' = tmShutdown /\ tmCompleted' = tmCompleted
      /\ tmCqShutdown' = tmCqShutdown /\ tmEvents' = tmEvents
      /\ tmJoining' = tmJoining /\ tmOwner' = tmOwner /\ tmToStart' = tmToStart
  BY DEF TM!WorkFound, TM!cq
<1>2. /\ nPolling \in Nat /\ nSpawning \in Nat /\ nCounted \in Nat /\ nAlive \in Nat
      /\ nPolling <= nCounted /\ nCounted <= nAlive
  BY TmNumbers
<1>3. /\ tmPc[t] \in TmCountPlaces /\ tmPc[t] \in TmPollPlaces /\ tmPc[t] \in TmAlivePlaces
      /\ tmPc[t] \notin TmLeftPlaces /\ tmPc[t] # "spawn" /\ tmPc[t] # "join"
  BY <1>1 DEF TmPollPlaces, TmCountPlaces, TmAlivePlaces, TmLeftPlaces
<1>4. CASE tmPc' = [tmPc EXCEPT ![t] = "spawn"] /\ tmRqThreads + 1 <= max_threads
           /\ tmNumPollers' = (tmNumPollers - 1) + 1
           /\ tmNumThreads' = tmNumThreads + 1
           /\ tmMax' = (IF tmNumThreads + 1 > tmMax THEN tmNumThreads + 1 ELSE tmMax)
           /\ tmRqThreads' = tmRqThreads + 1 /\ tmRuThreads' = tmRuThreads + 1 /\ tmRu' = tmRu /\ tmRuLeft' = tmRuLeft
  <2>1. /\ "spawn" \in TmCountPlaces /\ "spawn" \in TmAlivePlaces /\ "spawn" \notin TmPollPlaces
        /\ "spawn" \notin TmLeftPlaces /\ "spawn" \in TM!WorkerStates
    BY DEF TmPollPlaces, TmCountPlaces, TmAlivePlaces, TmLeftPlaces, TM!WorkerStates
  <2>2. /\ nPolling' = nPolling - 1 /\ nSpawning' = nSpawning + 1 /\ nCounted' = nCounted
        /\ nAlive' = nAlive
    BY <1>3, <1>4, <2>1, TmCount DEF TmInv
  <2>3. TmCounts'
    BY <1>1, <1>2, <1>3, <1>4, <2>2, TmTypes, TmBusy DEF TmCounts
  <2>4. /\ TmLists' /\ tmCompleted' \subseteq Workers
        /\ tmJoining' \in [Workers \cup {"owner"} -> SUBSET Workers]
        /\ tmPc' \in [Workers -> TM!WorkerStates]
    BY <1>1, <1>3, <1>4, <2>1, TmSameLists
  <2>5. tmMax' \in 0 .. max_threads /\ tmRqThreads' \in 0 .. max_threads /\ tmRuThreads' \in Int
    BY <1>2, <1>3, <1>4, TmTypes, TmBusy, TmConstants
  <2> QED BY <1>1, <1>3, <1>4, <2>3, <2>4, <2>5, TmTypes, TmWorks
<1>5. ASSUME NEW l \in {"exhausted", "work"}, tmPc' = [tmPc EXCEPT ![t] = l],
             tmNumPollers' = tmNumPollers - 1,
             tmNumThreads' = tmNumThreads, tmMax' = tmMax,
             tmRqThreads' = tmRqThreads, tmRuThreads' = tmRuThreads, tmRu' = tmRu /\ tmRuLeft' = tmRuLeft
      PROVE  TmInv'
  <2>1. /\ l \in TmCountPlaces /\ l \in TmAlivePlaces /\ l \notin TmPollPlaces
        /\ l \notin TmLeftPlaces /\ l \in TM!WorkerStates /\ l # "spawn"
    BY <1>5 DEF TmPollPlaces, TmCountPlaces, TmAlivePlaces, TmLeftPlaces, TM!WorkerStates
  <2>2. /\ nPolling' = nPolling - 1 /\ nSpawning' = nSpawning /\ nCounted' = nCounted
        /\ nAlive' = nAlive
    BY <1>3, <1>5, <2>1, TmCount DEF TmInv
  <2>3. TmCounts'
    BY <1>1, <1>2, <1>3, <1>5, <2>2, TmTypes, TmBusy DEF TmCounts
  <2>4. /\ TmLists' /\ tmCompleted' \subseteq Workers
        /\ tmJoining' \in [Workers \cup {"owner"} -> SUBSET Workers]
        /\ tmPc' \in [Workers -> TM!WorkerStates]
    BY <1>1, <1>3, <1>5, <2>1, TmSameLists
  <2> QED BY <1>1, <1>3, <1>5, <2>3, <2>4, TmTypes, TmWorks
<1> QED
  BY <1>4, <1>5 DEF TM!WorkFound, TM!MayAllocate, TM!Allocate, TM!Goto, TM!quota

LEMMA TmSpawnInv ==
    ASSUME TmInv, NEW t \in Workers, NEW u \in Workers, TM!Spawn(t, u)
    PROVE  TmInv'
<1>1. /\ tmPc[t] = "spawn" /\ tmPc[u] = "none" /\ t # u
      /\ tmPc' = [tmPc EXCEPT ![t] = "work", ![u] = "poll"]
      /\ tmShutdown' = tmShutdown /\ tmNumPollers' = tmNumPollers /\ tmNumThreads' = tmNumThreads
      /\ tmMax' = tmMax /\ tmCompleted' = tmCompleted /\ tmRqThreads' = tmRqThreads
      /\ tmRuThreads' = tmRuThreads /\ tmRu' = tmRu /\ tmRuLeft' = tmRuLeft /\ tmCqShutdown' = tmCqShutdown
      /\ tmEvents' = tmEvents
      /\ tmJoining' = tmJoining /\ tmOwner' = tmOwner /\ tmToStart' = tmToStart
  BY DEF TM!Spawn, TM!counters, TM!quota, TM!cq
<1>2. TM!TypeOK /\ tmPc \in [Workers -> TM!WorkerStates]
  BY DEF TmInv, TM!TypeOK
<1>3. /\ tmPc' \in [Workers -> TM!WorkerStates]
      /\ tmPc'[t] = "work" /\ tmPc'[u] = "poll"
      /\ \A v \in Workers : v # t /\ v # u => tmPc'[v] = tmPc[v]
  BY <1>1, <1>2 DEF TM!WorkerStates
<1>4. /\ TmAt(TmPollPlaces)' = TmAt(TmPollPlaces) \cup {u} /\ u \notin TmAt(TmPollPlaces)
      /\ TmAt({"spawn"})' = TmAt({"spawn"}) \ {t} /\ t \in TmAt({"spawn"})
      /\ TmAt(TmCountPlaces)' = TmAt(TmCountPlaces) \cup {u} /\ u \notin TmAt(TmCountPlaces)
      /\ TmAt(TmAlivePlaces)' = TmAt(TmAlivePlaces) \cup {u} /\ u \notin TmAt(TmAlivePlaces)
  BY <1>1, <1>3 DEF TmAt, TmPollPlaces, TmCountPlaces, TmAlivePlaces
<1>5. ASSUME NEW P
      PROVE  /\ TmAt(P) \in SUBSET Workers
             /\ u \notin TmAt(P) => Cardinality(TmAt(P) \cup {u}) = TmN(P) + 1
             /\ t \in TmAt(P) => Cardinality(TmAt(P) \ {t}) = TmN(P) - 1
  <2>1. TmAt(P) \in SUBSET Workers
    BY DEF TmAt
  <2>2. /\ Cardinality(TmAt(P) \cup {u}) = TmN(P) + 1 - One(u \in TmAt(P))
        /\ Cardinality(TmAt(P) \ {t}) = TmN(P) - One(t \in TmAt(P))
        /\ TmN(P) \in Nat
    BY <2>1, TmConstants, Moves, Finite DEF TmN
  <2> QED BY <2>1, <2>2 DEF One
<1>6. nPolling' = nPolling + 1 /\ nSpawning' = nSpawning - 1 /\ nCounted' = nCounted + 1
      /\ nAlive' = nAlive + 1
  BY <1>4, <1>5 DEF nPolling, nSpawning, nCounted, nAlive, TmN
<1>10. tmPc[t] \in TmCountPlaces
  BY <1>1 DEF TmCountPlaces
<1>7. TmCounts'
  BY <1>1, <1>6, <1>10, TmNumbers, TmTypes, TmBusy DEF TmCounts
<1>8. TmLists'
  <2>1. \A v \in Workers : tmPc'[v] \in TmLeftPlaces <=> tmPc[v] \in TmLeftPlaces
    BY <1>1, <1>3 DEF TmLeftPlaces
  <2>2. \A v \in Workers : tmPc'[v] = "join" <=> tmPc[v] = "join"
    BY <1>1, <1>3
  <2> QED BY <1>1, <2>1, <2>2 DEF TmInv, TmLists
<1>9. /\ tmCompleted' \subseteq Workers
      /\ tmJoining' \in [Workers \cup {"owner"} -> SUBSET Workers]
  BY <1>1, <1>2, TmConstants DEF TM!TypeOK
<1> QED BY <1>1, <1>3, <1>7, <1>8, <1>9, <1>10, TmTypes, TmWorks

LEMMA TmSpawnFailsInv ==
    ASSUME TmInv, NEW t \in Workers, TM!SpawnFails(t)
    PROVE  TmInv'
<1>1. /\ tmPc[t] = "spawn" /\ tmPc' = [tmPc EXCEPT ![t] = "exhausted"]
      /\ tmNumPollers' = tmNumPollers - 1 /\ tmNumThreads' = tmNumThreads - 1
      /\ tmShutdown' = tmShutdown
      /\ tmMax' = tmMax /\ tmCompleted' = tmCompleted /\ tmRqThreads' = tmRqThreads
      /\ tmRuThreads' = tmRuThreads /\ tmRu' = tmRu /\ tmRuLeft' = tmRuLeft /\ tmCqShutdown' = tmCqShutdown
      /\ tmEvents' = tmEvents
      /\ tmJoining' = tmJoining /\ tmOwner' = tmOwner /\ tmToStart' = tmToStart
  BY DEF TM!SpawnFails, TM!Goto, TM!quota, TM!cq
<1>2. /\ tmPc[t] \in TmCountPlaces /\ tmPc[t] \notin TmPollPlaces /\ tmPc[t] \in TmAlivePlaces
      /\ "exhausted" \in TmCountPlaces /\ "exhausted" \notin TmPollPlaces
      /\ "exhausted" \in TmAlivePlaces
      /\ tmPc[t] \notin TmLeftPlaces /\ "exhausted" \notin TmLeftPlaces
      /\ "exhausted" \in TM!WorkerStates /\ tmPc[t] # "join"
  BY <1>1 DEF TmPollPlaces, TmCountPlaces, TmAlivePlaces, TmLeftPlaces, TM!WorkerStates
<1>3. nPolling' = nPolling /\ nSpawning' = nSpawning - 1 /\ nCounted' = nCounted /\ nAlive' = nAlive
  BY <1>1, <1>2, TmCount DEF TmInv
<1>4. TmCounts'
  BY <1>1, <1>2, <1>3, TmNumbers, TmTypes, TmBusy DEF TmCounts
<1>5. /\ TmLists' /\ tmCompleted' \subseteq Workers
      /\ tmJoining' \in [Workers \cup {"owner"} -> SUBSET Workers]
      /\ tmPc' \in [Workers -> TM!WorkerStates]
  BY <1>1, <1>2, TmSameLists
<1> QED BY <1>1, <1>2, <1>4, <1>5, TmTypes, TmWorks

LEMMA TmDoWorkInv ==
    ASSUME TmInv, NEW t \in Workers, TM!DoWork(t)
    PROVE  TmInv'
<1>1. /\ tmPc[t] \in {"work", "exhausted"} /\ tmPc' = [tmPc EXCEPT ![t] = "worked"]
      /\ tmShutdown' = tmShutdown /\ tmNumPollers' = tmNumPollers /\ tmNumThreads' = tmNumThreads
      /\ tmMax' = tmMax /\ tmCompleted' = tmCompleted /\ tmRqThreads' = tmRqThreads
      /\ tmRuThreads' = tmRuThreads /\ tmRu' = tmRu /\ tmRuLeft' = tmRuLeft /\ tmCqShutdown' = tmCqShutdown
      /\ tmEvents' = tmEvents
      /\ tmJoining' = tmJoining /\ tmOwner' = tmOwner /\ tmToStart' = tmToStart
  BY DEF TM!DoWork, TM!Goto, TM!counters, TM!quota, TM!cq
<1>2. /\ tmPc[t] \in TmCountPlaces /\ tmPc[t] \notin TmPollPlaces /\ tmPc[t] \in TmAlivePlaces
      /\ "worked" \in TmCountPlaces /\ "worked" \notin TmPollPlaces /\ "worked" \in TmAlivePlaces
      /\ tmPc[t] \notin TmLeftPlaces /\ "worked" \notin TmLeftPlaces
      /\ "worked" \in TM!WorkerStates /\ tmPc[t] # "spawn" /\ tmPc[t] # "join"
  BY <1>1 DEF TmPollPlaces, TmCountPlaces, TmAlivePlaces, TmLeftPlaces, TM!WorkerStates
<1>3. nPolling' = nPolling /\ nSpawning' = nSpawning /\ nCounted' = nCounted /\ nAlive' = nAlive
  BY <1>1, <1>2, TmCount DEF TmInv
<1>4. TmCounts'
  BY <1>1, <1>3 DEF TmInv, TmCounts, TmHolding
<1>5. /\ TmLists' /\ tmCompleted' \subseteq Workers
      /\ tmJoining' \in [Workers \cup {"owner"} -> SUBSET Workers]
      /\ tmPc' \in [Workers -> TM!WorkerStates]
  BY <1>1, <1>2, TmSameLists
<1> QED BY <1>1, <1>2, <1>4, <1>5, TmTypes, TmWorks

\* The list of completed threads is taken.
LEMMA TmSwap ==
    ASSUME TmInv, NEW a \in Workers \cup {"owner"}, tmJoining[a] = {},
           TM!SwapCompleted(a)
    PROVE  /\ tmCompleted' = {} /\ tmJoining' \in [Workers \cup {"owner"} -> SUBSET Workers]
           /\ tmJoining'[a] = tmCompleted
           /\ \A b \in Workers \cup {"owner"} : b # a => tmJoining'[b] = tmJoining[b]
           /\ \A t \in Workers : tmPc[t] \in TmLeftPlaces <=>
                 t \in tmCompleted' \/ \E b \in Workers \cup {"owner"} : t \in tmJoining'[b]
           /\ \A b \in Workers \cup {"owner"} : tmCompleted' \cap tmJoining'[b] = {}
           /\ \A b, c \in Workers \cup {"owner"} : b # c => tmJoining'[b] \cap tmJoining'[c] = {}
<1>1. /\ tmJoining' = [tmJoining EXCEPT ![a] = tmCompleted] /\ tmCompleted' = {}
      /\ tmJoining \in [Workers \cup {"owner"} -> SUBSET Workers] /\ tmCompleted \subseteq Workers
  BY TmConstants DEF TM!SwapCompleted, TmInv, TM!TypeOK
<1>2. /\ tmJoining' \in [Workers \cup {"owner"} -> SUBSET Workers]
      /\ tmJoining'[a] = tmCompleted
      /\ \A b \in Workers \cup {"owner"} : b # a => tmJoining'[b] = tmJoining[b]
  BY <1>1
<1>3. \A t \in Workers : tmPc[t] \in TmLeftPlaces <=>
         \E b \in Workers \cup {"owner"} : t \in tmJoining'[b]
  <2> SUFFICES ASSUME NEW t \in Workers
               PROVE  tmPc[t] \in TmLeftPlaces <=>
                         \E b \in Workers \cup {"owner"} : t \in tmJoining'[b]
    OBVIOUS
  <2>1. tmPc[t] \in TmLeftPlaces <=>
           t \in tmCompleted \/ \E b \in Workers \cup {"owner"} : t \in tmJoining[b]
    BY DEF TmInv, TmLists
  <2>2. ASSUME NEW b \in Workers \cup {"owner"}, t \in tmJoining[b] PROVE t \in tmJoining'[b]
    BY <1>2, <2>2
  <2>3. ASSUME NEW b \in Workers \cup {"owner"}, t \in tmJoining'[b]
        PROVE  t \in tmCompleted \/ t \in tmJoining[b]
    BY <1>2, <2>3
  <2> QED BY <1>2, <2>1, <2>2, <2>3
<1>4. \A b, c \in Workers \cup {"owner"} : b # c => tmJoining'[b] \cap tmJoining'[c] = {}
  <2> SUFFICES ASSUME NEW b \in Workers \cup {"owner"}, NEW c \in Workers \cup {"owner"}, b # c
               PROVE  tmJoining'[b] \cap tmJoining'[c] = {}
    OBVIOUS
  <2>1. /\ tmJoining[b] \cap tmJoining[c] = {}
        /\ tmCompleted \cap tmJoining[b] = {} /\ tmCompleted \cap tmJoining[c] = {}
    BY DEF TmInv, TmLists
  <2>2. tmJoining'[b] = IF b = a THEN tmCompleted ELSE tmJoining[b]
    BY <1>2
  <2>3. tmJoining'[c] = IF c = a THEN tmCompleted ELSE tmJoining[c]
    BY <1>2
  <2> QED BY <2>1, <2>2, <2>3
<1> QED BY <1>1, <1>2, <1>3, <1>4

LEMMA TmCleanupInv ==
    ASSUME TmInv, NEW t \in Workers, TM!Cleanup(t)
    PROVE  TmInv'
<1>1. /\ tmPc[t] = "cleanup" /\ tmPc' = [tmPc EXCEPT ![t] = "join"]
      /\ TM!SwapCompleted(t)
      /\ tmShutdown' = tmShutdown /\ tmNumPollers' = tmNumPollers /\ tmNumThreads' = tmNumThreads
      /\ tmMax' = tmMax /\ tmRqThreads' = tmRqThreads
      /\ tmRuThreads' = tmRuThreads /\ tmRu' = tmRu /\ tmRuLeft' = tmRuLeft /\ tmCqShutdown' = tmCqShutdown
      /\ tmEvents' = tmEvents /\ tmOwner' = tmOwner /\ tmToStart' = tmToStart
  BY DEF TM!Cleanup, TM!Goto, TM!counters, TM!quota, TM!cq
<1>2. /\ tmPc[t] \in TmCountPlaces /\ tmPc[t] \notin TmPollPlaces /\ tmPc[t] \in TmAlivePlaces
      /\ "join" \in TmCountPlaces /\ "join" \notin TmPollPlaces /\ "join" \in TmAlivePlaces
      /\ tmPc[t] \notin TmLeftPlaces /\ "join" \notin TmLeftPlaces
      /\ "join" \in TM!WorkerStates /\ tmPc[t] # "spawn"
  BY <1>1 DEF TmPollPlaces, TmCountPlaces, TmAlivePlaces, TmLeftPlaces, TM!WorkerStates
<1>3. nPolling' = nPolling /\ nSpawning' = nSpawning /\ nCounted' = nCounted /\ nAlive' = nAlive
  BY <1>1, <1>2, TmCount DEF TmInv
<1>4. TmCounts'
  BY <1>1, <1>3 DEF TmInv, TmCounts, TmHolding
<1>5. /\ tmPc' \in [Workers -> TM!WorkerStates]
      /\ tmPc'[t] = "join" /\ \A u \in Workers : u # t => tmPc'[u] = tmPc[u]
  BY <1>1, <1>2, TmMove DEF TmInv
<1>6. tmJoining[t] = {}
  BY <1>1 DEF TmInv, TmLists
<1>7. /\ tmCompleted' = {} /\ tmJoining' \in [Workers \cup {"owner"} -> SUBSET Workers]
      /\ \A b \in Workers \cup {"owner"} : b # t => tmJoining'[b] = tmJoining[b]
      /\ \A u \in Workers : tmPc[u] \in TmLeftPlaces <=>
            u \in tmCompleted' \/ \E b \in Workers \cup {"owner"} : u \in tmJoining'[b]
      /\ \A b \in Workers \cup {"owner"} : tmCompleted' \cap tmJoining'[b] = {}
      /\ \A b, c \in Workers \cup {"owner"} : b # c => tmJoining'[b] \cap tmJoining'[c] = {}
  BY <1>1, <1>6, TmSwap
<1>8. TmLists'
  <2>1. \A u \in Workers : tmPc'[u] \in TmLeftPlaces <=> tmPc[u] \in TmLeftPlaces
    BY <1>2, <1>5
  <2>2. \A u \in Workers : tmJoining'[u] # {} => tmPc'[u] = "join"
    BY <1>5, <1>7 DEF TmInv, TmLists
  <2>3. tmJoining'["owner"] # {} => tmOwner' = "join"
    BY <1>1, <1>7, TmConstants DEF TmInv, TmLists
  <2> QED BY <1>7, <2>1, <2>2, <2>3 DEF TmLists
<1>9. tmCompleted' \subseteq Workers
  BY <1>7
<1> QED BY <1>1, <1>2, <1>4, <1>5, <1>7, <1>8, <1>9, TmTypes, TmWorks

LEMMA TmDeleteInv ==
    ASSUME TmInv, NEW a \in Workers \cup {"owner"}, NEW u \in Workers, TM!Delete(a, u)
    PROVE  TmInv'
<1>1. /\ u \in tmJoining[a] /\ tmPc[u] = "finished" /\ tmPc' = [tmPc EXCEPT ![u] = "none"]
      /\ tmJoining' = [tmJoining EXCEPT ![a] = @ \ {u}]
      /\ tmShutdown' = tmShutdown /\ tmNumPollers' = tmNumPollers /\ tmNumThreads' = tmNumThreads
      /\ tmMax' = tmMax /\ tmCompleted' = tmCompleted /\ tmRqThreads' = tmRqThreads
      /\ tmRuThreads' = tmRuThreads /\ tmRu' = tmRu /\ tmRuLeft' = tmRuLeft /\ tmCqShutdown' = tmCqShutdown
      /\ tmEvents' = tmEvents /\ tmOwner' = tmOwner /\ tmToStart' = tmToStart
  BY DEF TM!Delete, TM!Goto, TM!counters, TM!quota, TM!cq
<1>2. /\ tmPc[u] \notin TmCountPlaces /\ tmPc[u] \notin TmPollPlaces /\ tmPc[u] \notin TmAlivePlaces
      /\ "none" \notin TmCountPlaces /\ "none" \notin TmPollPlaces /\ "none" \notin TmAlivePlaces
      /\ tmPc[u] \in TmLeftPlaces /\ "none" \notin TmLeftPlaces
      /\ "none" \in TM!WorkerStates /\ tmPc[u] # "spawn" /\ tmPc[u] # "join"
  BY <1>1 DEF TmPollPlaces, TmCountPlaces, TmAlivePlaces, TmLeftPlaces, TM!WorkerStates
<1>3. nPolling' = nPolling /\ nSpawning' = nSpawning /\ nCounted' = nCounted /\ nAlive' = nAlive
  BY <1>1, <1>2, TmCount DEF TmInv
<1>4. TmCounts'
  BY <1>1, <1>3 DEF TmInv, TmCounts, TmHolding
<1>5. /\ tmPc' \in [Workers -> TM!WorkerStates]
      /\ tmPc'[u] = "none" /\ \A v \in Workers : v # u => tmPc'[v] = tmPc[v]
  BY <1>1, <1>2, TmMove DEF TmInv
<1>6. tmJoining \in [Workers \cup {"owner"} -> SUBSET Workers]
  BY TmConstants DEF TmInv, TM!TypeOK
<1>7. /\ tmJoining' \in [Workers \cup {"owner"} -> SUBSET Workers]
      /\ tmJoining'[a] = tmJoining[a] \ {u}
      /\ \A b \in Workers \cup {"owner"} : b # a => tmJoining'[b] = tmJoining[b]
  BY <1>1, <1>6
<1>8. \A b \in Workers \cup {"owner"} : tmJoining'[b] = tmJoining[b] \ {u}
  <2>1. \A b \in Workers \cup {"owner"} : b # a => u \notin tmJoining[b]
    BY <1>1 DEF TmInv, TmLists
  <2> QED BY <1>7, <2>1
<1>9. u \notin tmCompleted
  BY <1>1 DEF TmInv, TmLists
<1>10. TmLists'
  <2>1. ASSUME NEW v \in Workers
        PROVE  tmPc'[v] \in TmLeftPlaces <=>
                  v \in tmCompleted \/ \E b \in Workers \cup {"owner"} : v \in tmJoining'[b]
    <3>1. CASE v = u
      BY <1>2, <1>5, <1>8, <1>9, <3>1
    <3>2. CASE v # u
      <4>1. tmPc[v] \in TmLeftPlaces <=>
               v \in tmCompleted \/ \E b \in Workers \cup {"owner"} : v \in tmJoining[b]
        BY DEF TmInv, TmLists
      <4> QED BY <1>5, <1>8, <3>2, <4>1
    <3> QED BY <3>1, <3>2
  <2>2. \A b \in Workers \cup {"owner"} : tmCompleted \cap tmJoining'[b] = {}
    BY <1>8 DEF TmInv, TmLists
  <2>3. \A b, c \in Workers \cup {"owner"} : b # c => tmJoining'[b] \cap tmJoining'[c] = {}
    <3> SUFFICES ASSUME NEW b \in Workers \cup {"owner"}, NEW c \in Workers \cup {"owner"}, b # c
                 PROVE  tmJoining'[b] \cap tmJoining'[c] = {}
      OBVIOUS
    <3>1. tmJoining[b] \cap tmJoining[c] = {}
      BY DEF TmInv, TmLists
    <3> QED BY <1>8, <3>1
  <2>4. \A v \in Workers : tmJoining'[v] # {} => tmPc'[v] = "join"
    BY <1>2, <1>5, <1>8 DEF TmInv, TmLists
  <2>5. tmJoining'["owner"] # {} => tmOwner = "join"
    BY <1>8 DEF TmInv, TmLists
  <2> QED BY <1>1, <2>1, <2>2, <2>3, <2>4, <2>5 DEF TmLists
<1>11. TM!TypeOK'
  <2>1. TM!TypeOK
    BY DEF TmInv
  <2> QED BY <1>1, <1>5, <1>7, <2>1, TmConstants DEF TM!TypeOK
<1>12. TmOwned'
  BY <1>1 DEF TmInv, TmOwned, TmOver
<1> QED BY <1>4, <1>10, <1>11, <1>12 DEF TmInv

LEMMA TmJoinedInv ==
    ASSUME TmInv, NEW t \in Workers, TM!Joined(t)
    PROVE  TmInv'
<1>1. /\ tmPc[t] = "join" /\ tmJoining[t] = {} /\ tmPc' = [tmPc EXCEPT ![t] = "mark"]
      /\ tmShutdown' = tmShutdown /\ tmNumPollers' = tmNumPollers /\ tmNumThreads' = tmNumThreads
      /\ tmMax' = tmMax /\ tmCompleted' = tmCompleted /\ tmRqThreads' = tmRqThreads
      /\ tmRuThreads' = tmRuThreads /\ tmRu' = tmRu /\ tmRuLeft' = tmRuLeft /\ tmCqShutdown' = tmCqShutdown
      /\ tmEvents' = tmEvents
      /\ tmJoining' = tmJoining /\ tmOwner' = tmOwner /\ tmToStart' = tmToStart
  BY DEF TM!Joined, TM!Goto, TM!counters, TM!quota, TM!cq
<1>2. /\ tmPc[t] \in TmCountPlaces /\ tmPc[t] \notin TmPollPlaces /\ tmPc[t] \in TmAlivePlaces
      /\ "mark" \in TmCountPlaces /\ "mark" \notin TmPollPlaces /\ "mark" \in TmAlivePlaces
      /\ tmPc[t] \notin TmLeftPlaces /\ "mark" \notin TmLeftPlaces
      /\ "mark" \in TM!WorkerStates /\ tmPc[t] # "spawn"
  BY <1>1 DEF TmPollPlaces, TmCountPlaces, TmAlivePlaces, TmLeftPlaces, TM!WorkerStates
<1>3. nPolling' = nPolling /\ nSpawning' = nSpawning /\ nCounted' = nCounted /\ nAlive' = nAlive
  BY <1>1, <1>2, TmCount DEF TmInv
<1>4. TmCounts'
  BY <1>1, <1>3 DEF TmInv, TmCounts, TmHolding
<1>5. /\ TmLists' /\ tmCompleted' \subseteq Workers
      /\ tmJoining' \in [Workers \cup {"owner"} -> SUBSET Workers]
      /\ tmPc' \in [Workers -> TM!WorkerStates]
  BY <1>1, <1>2, TmSameLists
<1> QED BY <1>1, <1>2, <1>4, <1>5, TmTypes, TmWorks

LEMMA TmMarkInv ==
    ASSUME TmInv, NEW t \in Workers, TM!MarkAsCompleted(t)
    PROVE  TmInv'
<1>1. /\ tmPc[t] = "mark" /\ tmPc' = [tmPc EXCEPT ![t] = "count"]
      /\ tmCompleted' = tmCompleted \cup {t}
      /\ tmShutdown' = tmShutdown /\ tmNumPollers' = tmNumPollers /\ tmNumThreads' = tmNumThreads
      /\ tmMax' = tmMax /\ tmRqThreads' = tmRqThreads
      /\ tmRuThreads' = tmRuThreads /\ tmRu' = tmRu /\ tmRuLeft' = tmRuLeft /\ tmCqShutdown' = tmCqShutdown
      /\ tmEvents' = tmEvents
      /\ tmJoining' = tmJoining /\ tmOwner' = tmOwner /\ tmToStart' = tmToStart
  BY DEF TM!MarkAsCompleted, TM!Goto, TM!counters, TM!quota, TM!cq
<1>2. /\ tmPc[t] \in TmCountPlaces /\ tmPc[t] \notin TmPollPlaces /\ tmPc[t] \in TmAlivePlaces
      /\ "count" \in TmCountPlaces /\ "count" \notin TmPollPlaces /\ "count" \in TmAlivePlaces
      /\ tmPc[t] \notin TmLeftPlaces /\ "count" \in TmLeftPlaces
      /\ "count" \in TM!WorkerStates /\ tmPc[t] # "spawn"
  BY <1>1 DEF TmPollPlaces, TmCountPlaces, TmAlivePlaces, TmLeftPlaces, TM!WorkerStates
<1>3. nPolling' = nPolling /\ nSpawning' = nSpawning /\ nCounted' = nCounted /\ nAlive' = nAlive
  BY <1>1, <1>2, TmCount DEF TmInv
<1>4. TmCounts'
  BY <1>1, <1>3 DEF TmInv, TmCounts, TmHolding
<1>5. /\ tmPc' \in [Workers -> TM!WorkerStates]
      /\ tmPc'[t] = "count" /\ \A u \in Workers : u # t => tmPc'[u] = tmPc[u]
  BY <1>1, <1>2, TmMove DEF TmInv
<1>6. /\ tmCompleted' \subseteq Workers
      /\ tmJoining' \in [Workers \cup {"owner"} -> SUBSET Workers]
  BY <1>1, TmConstants DEF TmInv, TM!TypeOK
<1>7. t \notin tmCompleted /\ \A b \in Workers \cup {"owner"} : t \notin tmJoining[b]
  BY <1>2 DEF TmInv, TmLists
<1>8. TmLists'
  <2>1. ASSUME NEW v \in Workers
        PROVE  tmPc'[v] \in TmLeftPlaces <=>
                  v \in tmCompleted' \/ \E b \in Workers \cup {"owner"} : v \in tmJoining[b]
    <3>1. tmPc[v] \in TmLeftPlaces <=>
             v \in tmCompleted \/ \E b \in Workers \cup {"owner"} : v \in tmJoining[b]
      BY DEF TmInv, TmLists
    <3> QED BY <1>1, <1>2, <1>5, <3>1
  <2>2. \A b \in Workers \cup {"owner"} : tmCompleted' \cap tmJoining[b] = {}
    BY <1>1, <1>7 DEF TmInv, TmLists
  <2>3. \A v \in Workers : tmJoining[v] # {} => tmPc'[v] = "join"
    BY <1>1, <1>5 DEF TmInv, TmLists
  <2> QED BY <1>1, <2>1, <2>2, <2>3 DEF TmInv, TmLists
<1> QED BY <1>1, <1>2, <1>4, <1>5, <1>6, <1>8, TmTypes, TmWorks

LEMMA TmCountDownInv ==
    ASSUME TmInv, NEW t \in Workers, TM!CountDown(t)
    PROVE  TmInv'
<1>1. /\ tmPc[t] = "count" /\ tmPc' = [tmPc EXCEPT ![t] = "free"]
      /\ tmNumThreads' = tmNumThreads - 1
      /\ tmShutdown' = tmShutdown /\ tmNumPollers' = tmNumPollers
      /\ tmMax' = tmMax /\ tmCompleted' = tmCompleted /\ tmRqThreads' = tmRqThreads
      /\ tmRuThreads' = tmRuThreads /\ tmRu' = tmRu /\ tmRuLeft' = tmRuLeft /\ tmCqShutdown' = tmCqShutdown
      /\ tmEvents' = tmEvents
      /\ tmJoining' = tmJoining /\ tmOwner' = tmOwner /\ tmToStart' = tmToStart
  BY DEF TM!CountDown, TM!Goto, TM!quota, TM!cq
<1>2. /\ tmPc[t] \in TmCountPlaces /\ tmPc[t] \notin TmPollPlaces /\ tmPc[t] \in TmAlivePlaces
      /\ "free" \notin TmCountPlaces /\ "free" \notin TmPollPlaces /\ "free" \in TmAlivePlaces
      /\ tmPc[t] \in TmLeftPlaces /\ "free" \in TmLeftPlaces
      /\ "free" \in TM!WorkerStates /\ tmPc[t] # "spawn" /\ tmPc[t] # "join"
  BY <1>1 DEF TmPollPlaces, TmCountPlaces, TmAlivePlaces, TmLeftPlaces, TM!WorkerStates
<1>3. nPolling' = nPolling /\ nSpawning' = nSpawning /\ nCounted' = nCounted - 1 /\ nAlive' = nAlive
  BY <1>1, <1>2, TmCount DEF TmInv
<1>4. TmCounts'
  BY <1>1, <1>2, <1>3, TmNumbers, TmTypes, TmBusy DEF TmCounts
<1>5. /\ TmLists' /\ tmCompleted' \subseteq Workers
      /\ tmJoining' \in [Workers \cup {"owner"} -> SUBSET Workers]
      /\ tmPc' \in [Workers -> TM!WorkerStates]
  BY <1>1, <1>2, TmSameLists
<1> QED BY <1>1, <1>2, <1>4, <1>5, TmTypes, TmWorks

\* A worker ends: it gives back one thread, or finds the resource user deleted.
LEMMA TmEndsInv ==
    ASSUME TmInv, NEW t \in Workers, tmPc[t] = "free",
           tmPc' = [tmPc EXCEPT ![t] = "finished"],
           \/ /\ TmHolding /\ tmRu' = tmRu
              /\ tmRqThreads' = tmRqThreads - 1 /\ tmRuThreads' = tmRuThreads - 1
           \/ /\ tmRu = "destroyed" /\ tmRu' \in {"destroyed", "aborted"}
              /\ tmRuThreads' = tmRuThreads
              /\ tmRqThreads' = tmRqThreads \/ (tmRqThreads > 0 /\ tmRqThreads' = tmRqThreads - 1),
           tmRuLeft' = tmRuLeft,
           tmShutdown' = tmShutdown, tmNumPollers' = tmNumPollers, tmNumThreads' = tmNumThreads,
           tmMax' = tmMax, tmCompleted' = tmCompleted, tmCqShutdown' = tmCqShutdown,
           tmEvents' = tmEvents,
           tmJoining' = tmJoining, tmOwner' = tmOwner, tmToStart' = tmToStart
    PROVE  TmInv'
<1>1. /\ tmPc[t] \notin TmCountPlaces /\ tmPc[t] \notin TmPollPlaces /\ tmPc[t] \in TmAlivePlaces
      /\ "finished" \notin TmCountPlaces /\ "finished" \notin TmPollPlaces
      /\ "finished" \notin TmAlivePlaces
      /\ tmPc[t] \in TmLeftPlaces /\ "finished" \in TmLeftPlaces
      /\ "finished" \in TM!WorkerStates /\ tmPc[t] # "spawn" /\ tmPc[t] # "join"
  BY DEF TmPollPlaces, TmCountPlaces, TmAlivePlaces, TmLeftPlaces, TM!WorkerStates
<1>2. nPolling' = nPolling /\ nSpawning' = nSpawning /\ nCounted' = nCounted /\ nAlive' = nAlive - 1
  BY <1>1, TmCount DEF TmInv
<1>3. /\ TmLists' /\ tmCompleted' \subseteq Workers
      /\ tmJoining' \in [Workers \cup {"owner"} -> SUBSET Workers]
      /\ tmPc' \in [Workers -> TM!WorkerStates]
  BY <1>1, TmSameLists
<1>4. TM!TypeOK /\ TmOwned
  BY DEF TmInv
<1>5. /\ tmNumPollers' = nPolling' + nSpawning' + tmToStart'
      /\ tmNumThreads' = nCounted' + nSpawning' + tmToStart'
  BY <1>2, TmTypes
<1>6. CASE /\ TmHolding /\ tmRu' = tmRu
           /\ tmRqThreads' = tmRqThreads - 1 /\ tmRuThreads' = tmRuThreads - 1
  <2>1. tmRuThreads >= 1 /\ tmRqThreads >= 1
    BY <1>1, <1>6, TmNumbers, TmTypes
  <2>2. TmCounts'
    BY <1>2, <1>5, <1>6, TmNumbers, TmTypes DEF TmCounts
  <2>3. tmRqThreads' \in 0 .. max_threads /\ tmRuThreads' \in 0 .. max_threads
    BY <1>6, <2>1, TmTypes, TmConstants
  <2>4. TM!TypeOK'
    BY <1>3, <1>4, <1>6, <2>3, TmConstants DEF TM!TypeOK
  <2>5. tmRu' = "destroying" => tmRuThreads' <= tmRuLeft'
    <3>1. tmRuLeft \in 0 .. max_threads
      BY <1>4 DEF TM!TypeOK
    <3> QED BY <1>4, <1>6, <3>1, TmTypes, TmConstants DEF TmOwned
  <2>6. TmOwned'
    BY <1>4, <1>6, <2>5 DEF TmOwned, TmOver, TmHolding
  <2> QED BY <1>3, <2>2, <2>4, <2>6 DEF TmInv
<1>7. CASE /\ tmRu = "destroyed" /\ tmRu' \in {"destroyed", "aborted"}
           /\ tmRuThreads' = tmRuThreads
           /\ tmRqThreads' = tmRqThreads \/ (tmRqThreads > 0 /\ tmRqThreads' = tmRqThreads - 1)
  <2>1. tmRuThreads = 0
    BY <1>4, <1>7 DEF TmOwned
  <2>2. tmRqThreads' \in 0 .. max_threads
    BY <1>7, TmTypes, TmConstants
  <2>3. TmCounts'
    BY <1>5, <1>7, <2>1, <2>2, TmConstants DEF TmCounts, TmHolding
  <2>4. TM!TypeOK'
    BY <1>3, <1>4, <1>7, <2>2, TmConstants DEF TM!TypeOK, TM!RuStates
  <2>5. TmOwned'
    BY <1>4, <1>7, <2>1 DEF TmOwned, TmOver
  <2> QED BY <1>3, <2>3, <2>4, <2>5 DEF TmInv
<1> QED BY <1>6, <1>7

\* While the resource user exists it covers the worker; afterwards it aborts.
LEMMA TmGiveBackInv ==
    ASSUME TmInv, NEW t \in Workers, TM!Alive, TM!GiveBack(t)
    PROVE  TmInv'
<1>1. /\ tmPc[t] = "free" /\ tmPc' = [tmPc EXCEPT ![t] = "finished"]
      /\ tmShutdown' = tmShutdown /\ tmNumPollers' = tmNumPollers /\ tmNumThreads' = tmNumThreads
      /\ tmMax' = tmMax /\ tmCompleted' = tmCompleted
      /\ tmRuLeft' = tmRuLeft /\ tmCqShutdown' = tmCqShutdown
      /\ tmEvents' = tmEvents
      /\ tmJoining' = tmJoining /\ tmOwner' = tmOwner /\ tmToStart' = tmToStart
  BY DEF TM!GiveBack, TM!Goto, TM!counters, TM!cq
<1>2. \/ /\ tmRuThreads < 1 \/ tmRqThreads < 1
         /\ tmRu' = "aborted" /\ tmRqThreads' = tmRqThreads /\ tmRuThreads' = tmRuThreads
      \/ /\ ~(tmRuThreads < 1) /\ tmRu' = tmRu
         /\ tmRqThreads' = tmRqThreads - 1 /\ tmRuThreads' = tmRuThreads - 1
  BY DEF TM!GiveBack, TM!FreeThreads
<1>3. tmRu \in TM!RuStates /\ tmRu # "aborted" /\ (tmRu = "destroyed" => tmRuThreads = 0)
  BY DEF TM!Alive, TmInv, TM!TypeOK, TmOwned
<1>4. TmHolding => tmRuThreads >= 1 /\ tmRqThreads >= 1
  <2>1. tmPc[t] \in TmAlivePlaces
    BY <1>1 DEF TmAlivePlaces
  <2> QED BY <2>1, TmNumbers, TmTypes
<1>5. TmHolding \/ tmRu = "destroyed"
  BY <1>3 DEF TmHolding, TM!RuStates
<1>6. CASE TmHolding
  <2>1. /\ tmRu' = tmRu /\ tmRqThreads' = tmRqThreads - 1 /\ tmRuThreads' = tmRuThreads - 1
    BY <1>2, <1>4, <1>6, TmTypes
  <2> QED BY <1>1, <1>6, <2>1, TmEndsInv
<1>7. CASE tmRu = "destroyed"
  <2>1. tmRu' = "aborted" /\ tmRqThreads' = tmRqThreads /\ tmRuThreads' = tmRuThreads
    BY <1>2, <1>3, <1>7
  <2> QED BY <1>1, <1>7, <2>1, TmEndsInv
<1> QED BY <1>5, <1>6, <1>7

LEMMA TmUnownedInv ==
    ASSUME TmInv, NEW t \in Workers, TM!GiveBackUnowned(t)
    PROVE  TmInv'
<1>1. /\ tmPc[t] = "free" /\ tmPc' = [tmPc EXCEPT ![t] = "finished"]
      /\ tmRu = "destroyed" /\ tmRu' = tmRu /\ tmRuThreads' = tmRuThreads
      /\ tmRqThreads > 0 /\ tmRqThreads' = tmRqThreads - 1
      /\ tmShutdown' = tmShutdown /\ tmNumPollers' = tmNumPollers /\ tmNumThreads' = tmNumThreads
      /\ tmMax' = tmMax /\ tmCompleted' = tmCompleted
      /\ tmRuLeft' = tmRuLeft /\ tmCqShutdown' = tmCqShutdown
      /\ tmEvents' = tmEvents
      /\ tmJoining' = tmJoining /\ tmOwner' = tmOwner /\ tmToStart' = tmToStart
  BY DEF TM!GiveBackUnowned, TM!Goto, TM!counters, TM!cq
<1> QED BY <1>1, TmEndsInv

LEMMA TmStartInv ==
    ASSUME TmInv, NEW u \in Workers, TM!StartWorker(u)
    PROVE  TmInv'
<1>1. /\ tmOwner = "initialize" /\ tmToStart > 0 /\ tmPc[u] = "none"
      /\ tmPc' = [tmPc EXCEPT ![u] = "poll"] /\ tmToStart' = tmToStart - 1
      /\ tmShutdown' = tmShutdown /\ tmNumPollers' = tmNumPollers /\ tmNumThreads' = tmNumThreads
      /\ tmMax' = tmMax /\ tmCompleted' = tmCompleted /\ tmRqThreads' = tmRqThreads
      /\ tmRuThreads' = tmRuThreads /\ tmRu' = tmRu /\ tmRuLeft' = tmRuLeft /\ tmCqShutdown' = tmCqShutdown
      /\ tmEvents' = tmEvents /\ tmJoining' = tmJoining /\ tmOwner' = tmOwner
  BY DEF TM!StartWorker, TM!Goto, TM!counters, TM!quota, TM!cq
<1>2. /\ tmPc[u] \notin TmCountPlaces /\ tmPc[u] \notin TmPollPlaces /\ tmPc[u] \notin TmAlivePlaces
      /\ "poll" \in TmCountPlaces /\ "poll" \in TmPollPlaces /\ "poll" \in TmAlivePlaces
      /\ tmPc[u] \notin TmLeftPlaces /\ "poll" \notin TmLeftPlaces
      /\ "poll" \in TM!WorkerStates /\ tmPc[u] # "spawn" /\ tmPc[u] # "join"
  BY <1>1 DEF TmPollPlaces, TmCountPlaces, TmAlivePlaces, TmLeftPlaces, TM!WorkerStates
<1>3. /\ nPolling' = nPolling + 1 /\ nSpawning' = nSpawning /\ nCounted' = nCounted + 1
      /\ nAlive' = nAlive + 1
  BY <1>1, <1>2, TmCount DEF TmInv
<1>4. TmCounts'
  BY <1>1, <1>3, TmNumbers, TmTypes DEF TmCounts, TmHolding
<1>5. /\ TmLists' /\ tmPc' \in [Workers -> TM!WorkerStates]
  BY <1>1, <1>2, TmSameLists
<1>6. TM!TypeOK'
  <2>1. TM!TypeOK
    BY DEF TmInv
  <2>2. tmToStart' \in 0 .. min_pollers_
    <3>1. tmToStart \in 0 .. min_pollers_
      BY <2>1 DEF TM!TypeOK
    <3> QED BY <1>1, <3>1, TmConstants
  <2> QED BY <1>1, <1>5, <2>1, <2>2 DEF TM!TypeOK
<1>7. TmOwned'
  BY <1>1 DEF TmInv, TmOwned, TmOver
<1> QED BY <1>4, <1>5, <1>6, <1>7 DEF TmInv

\* When the workers are counted out and nobody's list holds one, none is left.
LEMMA TmNobody ==
    ASSUME TmInv, TmOver
    PROVE  /\ nCounted = 0 /\ nSpawning = 0 /\ tmToStart = 0
           /\ \A t \in Workers : tmPc[t] \in TmLeftPlaces \cup {"none"} /\ tmJoining[t] = {}
           /\ tmCompleted = {} /\ tmJoining["owner"] = {} =>
                 nAlive = 0 /\ \A t \in Workers : tmPc[t] = "none"
<1>1. tmNumThreads = 0
  BY DEF TmInv, TmOwned
<1>2. nCounted = 0 /\ nSpawning = 0 /\ tmToStart = 0
  BY <1>1, TmTypes, TmNumbers
<1>3. \A t \in Workers : tmPc[t] \notin TmCountPlaces
  BY <1>2, TmNumbers DEF TmAt
<1>4. \A t \in Workers : tmPc[t] \in TmLeftPlaces \cup {"none"} /\ tmPc[t] # "join"
  BY <1>3 DEF TmInv, TM!TypeOK, TM!WorkerStates, TmCountPlaces, TmLeftPlaces
<1>5. \A t \in Workers : tmJoining[t] = {}
  BY <1>4 DEF TmInv, TmLists
<1>6. ASSUME tmCompleted = {}, tmJoining["owner"] = {}
      PROVE  nAlive = 0 /\ \A t \in Workers : tmPc[t] = "none"
  <2>1. \A t \in Workers : tmPc[t] = "none"
    BY <1>4, <1>5, <1>6 DEF TmInv, TmLists
  <2>2. TmAt(TmAlivePlaces) = {}
    BY <2>1 DEF TmAt, TmAlivePlaces
  <2> QED BY <2>1, <2>2, TmSet DEF nAlive
<1> QED BY <1>2, <1>4, <1>5, <1>6

\* The owner goes on and leaves the counters, the workers and their lists alone.
LEMMA TmGoesOn ==
    ASSUME TmInv, tmPc' = tmPc, tmJoining' = tmJoining, tmCompleted' = tmCompleted,
           tmNumPollers' = tmNumPollers, tmNumThreads' = tmNumThreads,
           tmMax' = tmMax, tmToStart' = tmToStart,
           tmRqThreads' = tmRqThreads, tmRuThreads' = tmRuThreads,
           tmShutdown' \in BOOLEAN, tmCqShutdown' \in BOOLEAN,
           tmEvents' \in 0 .. MaxBacklog,
           tmRu' \in TM!RuStates, tmRuLeft' = tmRuLeft, TmHolding' => TmHolding,
           tmOwner' \in {"initialize", "shutdown cq", "wait", "drain", "destroy", "cleanup",
                         "join", "flush", "gone"},
           tmOwner = "join" => tmOwner' = "join" \/ tmJoining["owner"] = {},
           TmOwned'
    PROVE  TmInv'
<1>1. TmCounts'
  BY TmStay DEF TmInv, TmCounts, TmHolding
<1>2. TM!TypeOK'
  BY DEF TmInv, TM!TypeOK
<1>3. TmLists'
  BY DEF TmInv, TmLists
<1> QED BY <1>1, <1>2, <1>3 DEF TmInv

LEMMA TmShutdownInv ==
    ASSUME TmInv, TM!Shutdown \/ TM!ShutdownCq \/ TM!WaitReturns \/ TM!Drain \/ TM!Unref
                  \/ TM!OwnerJoined \/ TM!Destroyed
    PROVE  TmInv'
<1>1. /\ tmPc' = tmPc /\ tmJoining' = tmJoining /\ tmCompleted' = tmCompleted
      /\ tmNumPollers' = tmNumPollers /\ tmNumThreads' = tmNumThreads
      /\ tmMax' = tmMax /\ tmToStart' = tmToStart
      /\ tmRqThreads' = tmRqThreads /\ tmRuThreads' = tmRuThreads
      /\ tmRuLeft' = tmRuLeft
      /\ tmRu' = tmRu \/ (tmOwner = "destroy" /\ tmRu' = "unreffed")
      /\ tmOwner' \in {"shutdown cq", "wait", "drain", "destroy", "cleanup", "flush", "gone"}
      /\ tmOwner = "join" => tmJoining["owner"] = {}
      /\ tmEvents' = tmEvents \/ tmEvents' = 0
  BY TmConstants DEF TM!Shutdown, TM!ShutdownCq, TM!WaitReturns, TM!Drain, TM!Unref, TM!OwnerJoined,
         TM!Destroyed, TM!counters, TM!quota, TM!cq
<1>2. tmShutdown' = tmShutdown \/ tmShutdown' = TRUE
  BY DEF TM!Shutdown, TM!ShutdownCq, TM!WaitReturns, TM!Drain, TM!Unref, TM!OwnerJoined,
         TM!Destroyed, TM!counters
<1>3. tmCqShutdown' = tmCqShutdown \/ tmCqShutdown' = TRUE
  BY DEF TM!Shutdown, TM!ShutdownCq, TM!WaitReturns, TM!Drain, TM!Unref, TM!OwnerJoined,
         TM!Destroyed, TM!cq
<1>4. tmShutdown' \in BOOLEAN /\ tmCqShutdown' \in BOOLEAN
  BY <1>2, <1>3 DEF TmInv, TM!TypeOK
<1>5. tmEvents' \in 0 .. MaxBacklog /\ tmRu' \in TM!RuStates /\ (TmHolding' => TmHolding)
  <2>1. tmEvents' \in 0 .. MaxBacklog
    <3>1. 0 \in 0 .. MaxBacklog /\ tmEvents \in 0 .. MaxBacklog
      BY TmTypes, TmConstants
    <3> QED BY <1>1, <3>1
  <2>2. tmOwner = "destroy" => tmRu = "alive"
    BY DEF TmInv, TmOwned
  <2>3. tmRu \in TM!RuStates
    BY DEF TmInv, TM!TypeOK
  <2> QED BY <1>1, <2>1, <2>2, <2>3 DEF TmHolding, TM!RuStates
<1>6. TmOwned'
  <2>1. TmOwned /\ tmOwner \in {"initialize", "shutdown cq", "wait", "drain", "destroy", "cleanup",
                                "join", "flush", "gone"}
    BY DEF TmInv, TM!TypeOK
  <2>2. CASE TM!Shutdown \/ TM!ShutdownCq
    BY <1>1, <2>1, <2>2 DEF TmOwned, TmOver, TM!Shutdown, TM!ShutdownCq, TM!quota
  <2>3. CASE TM!WaitReturns
    BY <1>1, <2>1, <2>3 DEF TmOwned, TmOver, TM!WaitReturns, TM!quota
  <2>4. CASE TM!Drain
    BY <1>1, <2>1, <2>4 DEF TmOwned, TmOver, TM!Drain, TM!quota
  <2>5. CASE TM!Unref
    BY <1>1, <2>1, <2>5 DEF TmOwned, TmOver, TM!Unref
  <2>6. CASE TM!OwnerJoined
    BY <1>1, <2>1, <2>6 DEF TmOwned, TmOver, TM!OwnerJoined, TM!quota
  <2>7. CASE TM!Destroyed
    BY <1>1, <2>1, <2>7 DEF TmOwned, TmOver, TM!Destroyed, TM!quota
  <2> QED BY <2>2, <2>3, <2>4, <2>5, <2>6, <2>7
<1> QED BY <1>1, <1>4, <1>5, <1>6, TmGoesOn

LEMMA TmOwnerCleanupInv ==
    ASSUME TmInv, TM!OwnerCleanup
    PROVE  TmInv'
<1>1. /\ tmOwner = "cleanup" /\ tmOwner' = "join" /\ TM!SwapCompleted("owner")
      /\ tmPc' = tmPc
      /\ tmShutdown' = tmShutdown /\ tmNumPollers' = tmNumPollers /\ tmNumThreads' = tmNumThreads
      /\ tmMax' = tmMax /\ tmRqThreads' = tmRqThreads
      /\ tmRuThreads' = tmRuThreads /\ tmRu' = tmRu /\ tmRuLeft' = tmRuLeft /\ tmCqShutdown' = tmCqShutdown
      /\ tmEvents' = tmEvents /\ tmToStart' = tmToStart
  BY DEF TM!OwnerCleanup, TM!Owner, TM!counters, TM!quota, TM!cq
<1>2. tmJoining["owner"] = {}
  BY <1>1 DEF TmInv, TmLists
<1>3. /\ tmCompleted' = {} /\ tmJoining' \in [Workers \cup {"owner"} -> SUBSET Workers]
      /\ \A b \in Workers : tmJoining'[b] = tmJoining[b]
      /\ \A u \in Workers : tmPc[u] \in TmLeftPlaces <=>
            u \in tmCompleted' \/ \E b \in Workers \cup {"owner"} : u \in tmJoining'[b]
      /\ \A b \in Workers \cup {"owner"} : tmCompleted' \cap tmJoining'[b] = {}
      /\ \A b, c \in Workers \cup {"owner"} : b # c => tmJoining'[b] \cap tmJoining'[c] = {}
  BY <1>1, <1>2, TmSwap, TmConstants
<1>4. TmLists'
  <2>1. \A t \in Workers : tmJoining'[t] # {} => tmPc'[t] = "join"
    BY <1>1, <1>3 DEF TmInv, TmLists
  <2> QED BY <1>1, <1>3, <2>1 DEF TmLists
<1>5. TmCounts'
  BY <1>1, TmStay DEF TmInv, TmCounts, TmHolding
<1>6. TM!TypeOK'
  <2>1. TM!TypeOK
    BY DEF TmInv
  <2>2. tmCompleted' \subseteq Workers
    BY <1>3
  <2> QED BY <1>1, <1>3, <2>1, <2>2, TmConstants DEF TM!TypeOK
<1>7. TmOwned'
  BY <1>1, <1>3 DEF TmInv, TmOwned, TmOver
<1> QED BY <1>4, <1>5, <1>6, <1>7 DEF TmInv

\* ru_destroy: what it gives back is what it saw, unless a worker came between.
LEMMA TmRuLookInv ==
    ASSUME TmInv, TM!RuLook
    PROVE  TmInv'
<1>1. /\ tmRu = "unreffed" /\ tmRu' = "destroying" /\ tmRuLeft' = tmRuThreads
      /\ tmRqThreads' = tmRqThreads /\ tmRuThreads' = tmRuThreads /\ tmPc' = tmPc
      /\ tmShutdown' = tmShutdown /\ tmNumPollers' = tmNumPollers /\ tmNumThreads' = tmNumThreads
      /\ tmMax' = tmMax /\ tmCompleted' = tmCompleted /\ tmCqShutdown' = tmCqShutdown
      /\ tmEvents' = tmEvents /\ tmJoining' = tmJoining /\ tmOwner' = tmOwner
      /\ tmToStart' = tmToStart
  BY DEF TM!RuLook, TM!counters, TM!cq
<1>2. TmCounts'
  BY <1>1, TmStay DEF TmInv, TmCounts, TmHolding
<1>3. TM!TypeOK'
  <2>1. TM!TypeOK
    BY DEF TmInv
  <2> QED BY <1>1, <2>1 DEF TM!TypeOK, TM!RuStates
<1>4. tmRuThreads' <= tmRuLeft'
  BY <1>1, TmTypes
<1>5. TmLists' /\ TmOwned'
  BY <1>1, <1>4 DEF TmInv, TmLists, TmOwned, TmOver
<1> QED BY <1>2, <1>3, <1>5 DEF TmInv

LEMMA TmRuDestroyInv ==
    ASSUME TmInv, TM!RuDestroy
    PROVE  TmInv'
<1>1. /\ tmRu = "destroying" /\ tmRuLeft' = tmRuLeft /\ tmPc' = tmPc
      /\ tmShutdown' = tmShutdown /\ tmNumPollers' = tmNumPollers /\ tmNumThreads' = tmNumThreads
      /\ tmMax' = tmMax /\ tmCompleted' = tmCompleted /\ tmCqShutdown' = tmCqShutdown
      /\ tmEvents' = tmEvents /\ tmJoining' = tmJoining /\ tmOwner' = tmOwner
      /\ tmToStart' = tmToStart
  BY DEF TM!RuDestroy, TM!counters, TM!cq
<1>2. \/ /\ tmRu' = "aborted" /\ tmRqThreads' = tmRqThreads /\ tmRuThreads' = tmRuThreads
      \/ /\ ~(tmRuThreads < tmRuLeft) /\ tmRu' = "destroyed"
         /\ tmRqThreads' = tmRqThreads - tmRuLeft /\ tmRuThreads' = tmRuThreads - tmRuLeft
  BY DEF TM!RuDestroy, TM!FreeThreads
<1>3. tmRuLeft \in 0 .. max_threads /\ tmRuThreads <= tmRuLeft
  BY <1>1 DEF TmInv, TM!TypeOK, TmOwned
<1>4. /\ tmRu' \in {"aborted", "destroyed"} /\ (tmRu' = "destroyed" => tmRuThreads' = 0)
      /\ tmRuThreads' \in 0 .. max_threads /\ tmRqThreads' \in 0 .. max_threads
      /\ tmRuThreads' <= tmRqThreads'
  <2>1. CASE tmRu' = "aborted" /\ tmRqThreads' = tmRqThreads /\ tmRuThreads' = tmRuThreads
    BY <2>1, TmTypes, TmConstants
  <2>2. CASE /\ ~(tmRuThreads < tmRuLeft) /\ tmRu' = "destroyed"
             /\ tmRqThreads' = tmRqThreads - tmRuLeft /\ tmRuThreads' = tmRuThreads - tmRuLeft
    <3>1. tmRuLeft = tmRuThreads
      BY <1>3, <2>2, TmTypes, TmConstants
    <3> QED BY <2>2, <3>1, TmTypes, TmConstants
  <2> QED BY <1>2, <2>1, <2>2
<1>5. TmCounts'
  <2>1. /\ nPolling' = nPolling /\ nSpawning' = nSpawning
        /\ nCounted' = nCounted /\ nAlive' = nAlive
    BY <1>1, TmStay
  <2> QED BY <1>1, <1>4, <2>1, TmTypes DEF TmCounts, TmHolding
<1>6. TM!TypeOK'
  <2>1. TM!TypeOK
    BY DEF TmInv
  <2> QED BY <1>1, <1>4, <2>1 DEF TM!TypeOK, TM!RuStates
<1>7. TmLists'
  BY <1>1 DEF TmInv, TmLists
<1>8. TmOwned'
  BY <1>1, <1>4 DEF TmInv, TmOwned, TmOver
<1> QED BY <1>5, <1>6, <1>7, <1>8 DEF TmInv

\* The other users of the quota and the queue.
LEMMA TmOtherInv ==
    ASSUME TmInv, TM!OtherAllocates \/ TM!OtherFrees \/ TM!Arrive \/ UNCHANGED tmVars
    PROVE  TmInv'
<1>1. /\ tmPc' = tmPc /\ tmJoining' = tmJoining /\ tmCompleted' = tmCompleted
      /\ tmNumPollers' = tmNumPollers /\ tmNumThreads' = tmNumThreads
      /\ tmMax' = tmMax /\ tmToStart' = tmToStart
      /\ tmRuThreads' = tmRuThreads /\ tmRu' = tmRu /\ tmRuLeft' = tmRuLeft /\ tmOwner' = tmOwner
      /\ tmShutdown' = tmShutdown /\ tmCqShutdown' = tmCqShutdown
  BY DEF TM!OtherAllocates, TM!OtherFrees, TM!Arrive, tmVars, TM!counters, TM!quota, TM!cq
<1>2. /\ \/ tmRqThreads' = tmRqThreads
         \/ tmRqThreads + 1 <= max_threads /\ tmRqThreads' = tmRqThreads + 1
         \/ tmRqThreads > tmRuThreads /\ tmRqThreads' = tmRqThreads - 1
      /\ tmEvents' = tmEvents \/ (tmEvents < MaxBacklog /\ tmEvents' = tmEvents + 1)
  BY DEF TM!OtherAllocates, TM!OtherFrees, TM!Arrive, tmVars, TM!MayAllocate, TM!quota, TM!cq
<1>3. tmRqThreads' \in 0 .. max_threads /\ tmRuThreads <= tmRqThreads'
  BY <1>2, TmTypes, TmConstants
<1>4. tmEvents' \in 0 .. MaxBacklog
  BY <1>2, TmTypes, TmConstants
<1>5. TmCounts'
  BY <1>1, <1>3, TmStay DEF TmInv, TmCounts, TmHolding
<1>6. TM!TypeOK'
  <2>1. TM!TypeOK
    BY DEF TmInv
  <2> QED BY <1>1, <1>3, <1>4, <2>1 DEF TM!TypeOK
<1>7. TmLists' /\ TmOwned'
  BY <1>1 DEF TmInv, TmLists, TmOwned, TmOver
<1> QED BY <1>5, <1>6, <1>7 DEF TmInv

LEMMA TmStep ==
    ASSUME TmInv, TM!Next \/ UNCHANGED tmVars
    PROVE  TmInv'
<1>1. CASE \E t \in Workers : TM!Worker(t)
  BY <1>1, TmPollInv, TmNothingInv, TmFoundInv, TmSpawnInv, TmSpawnFailsInv, TmDoWorkInv,
     TmWorkDoneInv, TmCleanupInv, TmDeleteInv, TmJoinedInv, TmMarkInv, TmCountDownInv,
     TmGiveBackInv, TmUnownedInv DEF TM!Worker
<1>2. CASE TM!Initialize \/ TM!Shutdown
  BY <1>2, TmStartInv, TmShutdownInv DEF TM!Initialize
<1>3. CASE TM!Stop
  BY <1>3, TmShutdownInv, TmOwnerCleanupInv, TmDeleteInv, TmRuLookInv,
     TmRuDestroyInv DEF TM!Stop, TM!Owner
<1>4. CASE TM!Other \/ TM!Arrive \/ UNCHANGED tmVars
  BY <1>4, TmOtherInv DEF TM!Other
<1> QED BY <1>1, <1>2, <1>3, <1>4 DEF TM!Next

\* What the invariant says of the counters and of the end.
LEMMA TmExact == TmInv => TM!CountersExact /\ TM!QuotaCoversThreads
<1> SUFFICES ASSUME TmInv PROVE TM!CountersExact /\ TM!QuotaCoversThreads
  OBVIOUS
<1>1. /\ TM!Polling = TmAt(TmPollPlaces) /\ TM!Spawning = TmAt({"spawn"})
      /\ TM!Counted = TmAt(TmCountPlaces)
      /\ TM!At(TM!WorkerStates \ {"none", "finished"}) = TmAt(TmAlivePlaces)
  <2>1. \A t \in Workers : tmPc[t] \in TM!WorkerStates
    BY DEF TmInv, TM!TypeOK
  <2>2. /\ TM!WorkerStates \ {"none", "free", "finished"} = TmCountPlaces
        /\ TM!WorkerStates \ {"none", "finished"} = TmAlivePlaces
    BY DEF TM!WorkerStates, TmCountPlaces, TmAlivePlaces
  <2> QED BY <2>1, <2>2 DEF TM!Polling, TM!Spawning, TM!Counted, TM!At, TmAt, TmPollPlaces
<1>2. /\ TM!Cardinality(TM!Polling) = nPolling /\ TM!Cardinality(TM!Spawning) = nSpawning
      /\ TM!Cardinality(TM!Counted) = nCounted
      /\ TM!Cardinality(TM!At(TM!WorkerStates \ {"none", "finished"})) = nAlive
  BY <1>1, Zenon DEF TM!Cardinality, Cardinality, TM!IsFiniteSet, IsFiniteSet,
                     nPolling, nSpawning, nCounted, nAlive, TmN
<1> QED BY <1>2, Zenon DEF TmInv, TmCounts, TmHolding, TM!CountersExact,
                          TM!QuotaCoversThreads

LEMMA TmClean == TmInv => TM!DestroyedClean
<1> SUFFICES ASSUME TmInv PROVE TM!DestroyedClean
  OBVIOUS
<1>1. tmRu = "destroyed" => tmRuThreads = 0
  BY DEF TmInv, TmOwned
<1>2. ASSUME tmOwner = "gone"
      PROVE  /\ TM!At(TM!WorkerStates \ {"none"}) = {}
             /\ tmCompleted = {} /\ tmJoining = [a \in Workers \cup {TM!Owner} |-> {}]
  <2>1. tmCompleted = {} /\ tmJoining["owner"] = {} /\ TmOver
    BY <1>2 DEF TmInv, TmOwned, TmLists, TmOver
  <2>2. \A t \in Workers : tmPc[t] = "none" /\ tmJoining[t] = {}
    BY <2>1, TmNobody
  <2>3. tmJoining = [a \in Workers \cup {"owner"} |-> {}]
    BY <2>1, <2>2, TmConstants DEF TmInv, TM!TypeOK
  <2> QED BY <2>1, <2>2, <2>3, TmConstants DEF TM!At
<1> QED BY <1>1, <1>2 DEF TM!DestroyedClean

-----------------------------------------------------------------------------
(* The executors together                                                  *)

\* Everything but the invariant of ThreadManager.
SerialInv == Inv /\ WsOrdered /\ CcInv /\ CoInv /\ ExInv

\* A step is a step of one executor and leaves the others alone.
LEMMA AllParts ==
    ASSUME [AllNext]_allVars
    PROVE  /\ Next \/ UNCHANGED vars
           /\ CC!Next \/ UNCHANGED ccVars
           /\ CO!Next \/ UNCHANGED coVars
           /\ EX!Next \/ UNCHANGED exVars
           /\ TM!Next \/ UNCHANGED tmVars
           /\ UNCHANGED part
           /\ part # "Combiner" => UNCHANGED coVars
BY DEF AllNext, allVars

LEMMA SerialInitInv == AllInit => SerialInv
BY WsInit, CcInitInv, CoInitInv, ExInitInv DEF AllInit, SerialInv

LEMMA SerialNextInv == SerialInv /\ [AllNext]_allVars => SerialInv'
BY AllParts, WsStep, CcStep, CoStep, ExStep DEF SerialInv

LEMMA SerialInvariance == AllSpec => []SerialInv
BY SerialInitInv, SerialNextInv, PTL DEF AllSpec

-----------------------------------------------------------------------------
(* The refinement of SerialExecutor                                        *)

\* No item is scheduled initially, whichever executor is looked at.
LEMMA PromiseInit == AllInit => Promise!Init
<1> SUFFICES ASSUME AllInit PROVE Promise!Init
  OBVIOUS
<1>1. \A c \in Callbacks : Phase(c) = "idle" /\ CC!Phase(c) = "idle" /\ CO!Phase(c) = "idle"
  <2>1. \A c \in Callbacks : CC!Phase(c) = "idle" /\ CO!Phase(c) = "idle"
    <3>1. \A c \in Callbacks : ccPc[c] = "idle" /\ coPc[c] = "idle"
      BY DEF AllInit, CC!Init, CO!Init
    <3> QED BY <3>1 DEF CC!Phase, CO!Phase, CO!CallStates
  <2>2. /\ queue = <<>> /\ \A t \in Threads : pc[t] = "idle" /\ arg[t] = Null
    BY DEF AllInit, Init
  <2>3. Range(queue) = {} /\ Executing = {} /\ \A c \in Callbacks : c \notin InHand
    BY <2>2, WorkSerializerAssumption DEF Range, Executing, InHand
  <2> QED BY <2>1, <2>3 DEF Phase, Waiting
<1>2. ahead = [c \in Callbacks |-> {}] /\ ccAhead = [c \in Callbacks |-> {}]
      /\ coAhead = [c \in Callbacks |-> {}]
  BY DEF AllInit, Init, CC!Init, CO!Init
<1>3. phases = [c \in Callbacks |-> "idle"] /\ aheads = [c \in Callbacks |-> {}]
  BY <1>1, <1>2, Zenon DEF phases, aheads, AllInit
<1> QED BY <1>3 DEF Promise!Init

\* part says which executor is looked at; a step of the pools is none of these.
LEMMA PromiseNext ==
    SerialInv /\ [AllNext]_allVars => [Promise!Next]_(Promise!vars)
<1> SUFFICES ASSUME SerialInv, [AllNext]_allVars
             PROVE  SerialStep(phases, aheads, phases', aheads')
  BY PromiseStep
<1>1. part' = part
  BY AllParts
<1>2. /\ SerialStep(WsPhases, ahead, WsPhases', ahead')
      /\ SerialStep(CcPhases, ccAhead, CcPhases', ccAhead')
      /\ SerialStep(CoPhases, coAhead, CoPhases', coAhead')
  BY AllParts, WsStep, CcStep, CoStep DEF SerialInv
<1>3. CASE part = "WorkSerializer"
  <2>1. /\ phases = WsPhases /\ aheads = ahead
        /\ phases' = WsPhases' /\ aheads' = ahead'
    BY <1>1, <1>3 DEF phases, aheads, WsPhases
  <2> QED BY <1>2, <2>1
<1>4. CASE part = "CallCombiner"
  <2>1. /\ phases = CcPhases /\ aheads = ccAhead
        /\ phases' = CcPhases' /\ aheads' = ccAhead'
    BY <1>1, <1>4 DEF phases, aheads, CcPhases
  <2> QED BY <1>2, <2>1
<1>5. CASE part = "Combiner"
  <2>1. /\ phases = CoPhases /\ aheads = coAhead
        /\ phases' = CoPhases' /\ aheads' = coAhead'
    BY <1>1, <1>5 DEF phases, aheads, CoPhases
  <2> QED BY <1>2, <2>1
<1>6. CASE part \notin {"WorkSerializer", "CallCombiner", "Combiner"}
  <2>1. UNCHANGED coVars
    BY <1>6, AllParts
  <2>2. phases' = phases /\ aheads' = aheads
    BY <1>1, <1>6, <2>1 DEF phases, aheads, coVars
  <2> QED BY <2>2 DEF SerialStep
<1> QED BY <1>3, <1>4, <1>5, <1>6

-----------------------------------------------------------------------------
(* Theorems about all of them                                              *)

\* The variables of the executors keep their types (with ThreadManager's in
\* CountersHold).
THEOREM TypesHold == AllSpec => []TypesOK
<1>1. SerialInv => TypesOK
  BY DEF SerialInv, TypesOK, Inv, CcInv, CoInv, ExInv
<1> QED BY <1>1, SerialInvariance, PTL

\* CallCombiner and Combiner are never left with work and without somebody who
\* does it: who holds one passes it on or finds nobody waiting, however the
\* calls of Start and Stop, of Run and of the executor interleave.
THEOREM HandedOverHolds == AllSpec => []HandedOver
<1>1. SerialInv => HandedOver
  BY CcStranded, CoOneParty DEF SerialInv, HandedOver
<1> QED BY <1>1, SerialInvariance, PTL

\* Combiner: the final list is started when no closure is in the queue, in
\* execution or on its way.
THEOREM FinalListIsLast == AllSpec => FinalIsLast
<1>1. SerialInv /\ [AllNext]_allVars =>
         [\A t \in CombinerThreads : coEx[t] # "final" /\ coEx'[t] = "final" =>
             /\ coFinal # <<>>
             /\ CO!At(CO!CallStates \cup {"queued", "running"}) = {}]_(CO!vars)
  BY AllParts, CoFinalLast DEF SerialInv
<1> QED BY <1>1, SerialInvariance, PTL DEF AllSpec, FinalIsLast, CO!FinalIsLast

\* WorkSerializer, CallCombiner and Combiner implement SerialExecutor: they
\* execute one item at a time, each item once for each time it is scheduled,
\* and never one before another whose call had returned when its own began.
THEOREM SerializersImplement == AllSpec => SerializersSpec
BY PromiseInit, PromiseNext, SerialInvariance, PTL DEF AllSpec, SerializersSpec, Promise!Spec

\* Executor: a thread that waits has an empty list and is not being shut down,
\* although Enqueue signals only on an empty list and the thread is not the only
\* one that empties it.
THEOREM PoolNeverSleepsOnWork == AllSpec => []NobodySleepsOnWork
<1>1. SerialInv => NobodySleepsOnWork
  BY DEF SerialInv, ExInv, NobodySleepsOnWork
<1> QED BY <1>1, SerialInvariance, PTL

LEMMA ManagerInvariance == AllSpec => []TmInv
<1>1. AllInit => TmInv
  BY TmInitInv DEF AllInit
<1>2. TmInv /\ [AllNext]_allVars => TmInv'
  BY AllParts, TmStep
<1> QED BY <1>1, <1>2, PTL DEF AllSpec

\* ThreadManager: the two counters say how many threads poll and how many there
\* are, through failed creations and whatever happens to the resource user.
\* Executor: the depth of a thread is the number of closures that it has.
THEOREM CountersHold == AllSpec => []CountersExact
<1>1. SerialInv /\ TmInv => CountersExact
  BY TmExact DEF SerialInv, ExInv, ExDepths, CountersExact
<1> QED BY <1>1, SerialInvariance, ManagerInvariance, PTL

\* ThreadManager: until the resource user is deleted, which other threads may do
\* as soon as the owner has dropped its reference, it holds a part of the quota
\* for every worker that has not given its own back.
THEOREM QuotaCoversHolds == AllSpec => []QuotaCovers
<1>1. TmInv => QuotaCovers
  BY TmExact DEF QuotaCovers
<1> QED BY <1>1, ManagerInvariance, PTL

\* ThreadManager: when the destructor returns, every worker has been joined and
\* deleted; a deleted resource user has given back exactly what it held.
THEOREM DestructorLeavesNothing == AllSpec => []DestroyedClean
<1>1. TmInv => DestroyedClean
  BY TmClean DEF DestroyedClean
<1> QED BY <1>1, ManagerInvariance, PTL
=============================================================================
