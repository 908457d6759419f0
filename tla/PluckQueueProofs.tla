-------------------------- MODULE PluckQueueProofs --------------------------
(***************************************************************************)
(* Proofs about PluckQueue, for any finite sets of operations and callers, *)
(* any tags, and any number of pluckers.  A plucker is woken because no    *)
(* two of them ask for one tag; the poller is let go of once because       *)
(* pending_events, which decides it, counts exactly.                       *)
(***************************************************************************)
EXTENDS PluckQueue, CountingLemmas, TLAPS

\* The operations that are pending.
Begun == {o \in Ops : op[o] = "begun"}

\* A completion with the tag that the caller asks for is in the list.
Has(c) == \E i \in DOMAIN completed : Tag[completed[i]] = tag[c]

-----------------------------------------------------------------------------
(* The inductive invariant                                                 *)

\* pending_events counts the pending operations, and one for the queue until
\* shutdown is called; at zero it is shut down.
Counted ==
    /\ pending = Cardinality(Begun) + One(~shutdownCalled)
    /\ shutdown <=> pending = 0

\* No two callers that are inside ask for one tag.
TagsApart ==
    \A b, c \in Callers :
        b # c /\ pc[b] # "out" /\ pc[c] # "out" => tag[b] # tag[c]

\* end_op has kicked the plucker of each completion.
Kicked == \A c \in Callers : pc[c] = "wait" /\ Has(c) => c \in kicked \/ shutdown

\* GRPC_QUEUE_SHUTDOWN is returned after the shutdown, when nothing is left.
Over == \A c \in Callers : ret[c] = "shutdown" => shutdown /\ ~Has(c)

\* The closure of the poller is scheduled when the last worker is gone.
Closed == shutdownDone > 0 => shutdown /\ workers = <<>>

\* The reference "pollset_destroy".
PollerHolds == ~shutdown \/ workers # <<>> \/ shutdownDone > 0

\* owning_refs counts destroy, the poller and the calls of pluck.
RefsAccount == refs = One(~destroyed) + One(PollerHolds) + Cardinality(Inside)

\* A queue that is destroyed has nothing left to hand out.
Gone == destroyed => shutdownCalled /\ completed = <<>> /\ Begun = {}

Inv ==
    /\ TypeOK /\ Counted /\ TagsApart /\ Kicked /\ Over /\ Closed
    /\ RefsAccount /\ Gone

-----------------------------------------------------------------------------
(* Counts and searches                                                     *)

nBegun == Cardinality(Begun)
nIn == Cardinality(Inside)

LEMMA Numbers ==
    ASSUME PluckQueueConstants
    PROVE  /\ Cardinality(Ops) \in Nat
           /\ nBegun \in Nat /\ nBegun <= Cardinality(Ops) /\ (nBegun = 0 <=> Begun = {})
           /\ nIn \in Nat /\ (nIn = 0 <=> Inside = {})
           /\ nBegun' \in Nat /\ nBegun' <= Cardinality(Ops) /\ nIn' \in Nat
<1>1. /\ Begun \in SUBSET Ops /\ Begun' \in SUBSET Ops
      /\ Inside \in SUBSET Callers /\ Inside' \in SUBSET Callers
  BY DEF Begun, Inside
<1>2. IsFiniteSet(Ops) /\ IsFiniteSet(Callers)
  BY DEF PluckQueueConstants
<1>3. nBegun \in Nat /\ nBegun <= Cardinality(Ops) /\ (nBegun = 0 <=> Begun = {})
  BY <1>1, <1>2, Finite DEF nBegun
<1>4. nIn \in Nat /\ (nIn = 0 <=> Inside = {})
  BY <1>1, <1>2, Finite DEF nIn
<1>5. nBegun' \in Nat /\ nBegun' <= Cardinality(Ops) /\ nIn' \in Nat
  BY <1>1, <1>2, Finite DEF nBegun, nIn
<1> QED BY <1>2, <1>3, <1>4, <1>5, FS_CardinalityType

\* What a step of one operation does to the count.
LEMMA OpMoves ==
    ASSUME PluckQueueConstants, TypeOK, NEW o \in Ops, NEW to, op' = [op EXCEPT ![o] = to]
    PROVE  nBegun' = nBegun + One(to = "begun") - One(op[o] = "begun")
<1>1. op'[o] = to /\ \A p \in Ops : p # o => op'[p] = op[p]
  BY DEF TypeOK
<1>2. Begun' = IF to = "begun" THEN Begun \cup {o} ELSE Begun \ {o}
  BY <1>1 DEF Begun
<1>3. Begun \in SUBSET Ops /\ (o \in Begun <=> op[o] = "begun") /\ IsFiniteSet(Ops)
  BY DEF Begun, PluckQueueConstants
<1>4. /\ Cardinality(Begun \cup {o}) = Cardinality(Begun) + 1 - One(o \in Begun)
      /\ Cardinality(Begun \ {o}) = Cardinality(Begun) - One(o \in Begun)
      /\ Cardinality(Begun) \in Nat
  BY <1>3, Moves, Finite
<1> QED BY <1>2, <1>3, <1>4 DEF One, nBegun

\* What a step of one caller does to the count.
LEMMA CallerMoves ==
    ASSUME PluckQueueConstants, TypeOK, NEW c \in Callers, NEW to,
           pc' = [pc EXCEPT ![c] = to]
    PROVE  nIn' = nIn + One(to # "out") - One(pc[c] # "out")
<1>1. pc'[c] = to /\ \A d \in Callers : d # c => pc'[d] = pc[d]
  BY DEF TypeOK
<1>2. Inside' = IF to # "out" THEN Inside \cup {c} ELSE Inside \ {c}
  BY <1>1 DEF Inside
<1>3. Inside \in SUBSET Callers /\ (c \in Inside <=> pc[c] # "out") /\ IsFiniteSet(Callers)
  BY DEF Inside, PluckQueueConstants
<1>4. /\ Cardinality(Inside \cup {c}) = Cardinality(Inside) + 1 - One(c \in Inside)
      /\ Cardinality(Inside \ {c}) = Cardinality(Inside) - One(c \in Inside)
      /\ Cardinality(Inside) \in Nat
  BY <1>3, Moves, Finite
<1> QED BY <1>2, <1>3, <1>4 DEF One, nIn

\* The search for a completion finds one if there is one.
LEMMA FindFacts ==
    ASSUME completed \in Seq(Ops), NEW c
    PROVE  /\ Find(c) # 0 <=> Has(c)
           /\ Has(c) => Find(c) \in DOMAIN completed
<1> DEFINE I == {j \in 1 .. Len(completed) : Tag[completed[j]] = tag[c]}
<1>1. DOMAIN completed = 1 .. Len(completed) /\ Len(completed) \in Nat
  OBVIOUS
<1>2. Find(c) = IF I # {} THEN Min(I) ELSE 0
  BY Zenon DEF Find, SelectInSeq
<1>3. I # {} => Min(I) \in I
  <2>1. I \in SUBSET Nat
    BY <1>1
  <2> HIDE DEF I
  <2> QED BY <2>1, MinFacts
<1>4. I # {} <=> Has(c)
  BY <1>1 DEF Has
<1>5. \A j \in I : j \in DOMAIN completed /\ j # 0
  BY <1>1
<1> HIDE DEF I
<1> QED BY <1>2, <1>3, <1>4, <1>5

\* The first plucker of a tag.
PluckerOf(t) == SelectInSeq(pluckers, LAMBDA c : tag[c] = t)

\* The search for a plucker finds one if there is one.
LEMMA PluckerFacts ==
    ASSUME pluckers \in Seq(Callers), NEW t
    PROVE  /\ PluckerOf(t) # 0 =>
                /\ PluckerOf(t) \in DOMAIN pluckers
                /\ tag[pluckers[PluckerOf(t)]] = t
           /\ \A c \in ToSet(pluckers) : tag[c] = t => PluckerOf(t) # 0
<1> DEFINE I == {j \in 1 .. Len(pluckers) : tag[pluckers[j]] = t}
           i == PluckerOf(t)
<1>1. DOMAIN pluckers = 1 .. Len(pluckers) /\ Len(pluckers) \in Nat
  OBVIOUS
<1>2. i = IF I # {} THEN Min(I) ELSE 0
  BY Zenon DEF PluckerOf, SelectInSeq
<1>3. I # {} => Min(I) \in I
  <2>1. I \in SUBSET Nat
    BY <1>1
  <2> HIDE DEF I
  <2> QED BY <2>1, MinFacts
<1>4. \A c \in ToSet(pluckers) : tag[c] = t => I # {}
  BY <1>1 DEF ToSet
<1>5. \A j \in I : j \in DOMAIN pluckers /\ tag[pluckers[j]] = t /\ j # 0
  BY <1>1
<1> HIDE DEF I, i
<1>6. i # 0 => i \in DOMAIN pluckers /\ tag[pluckers[i]] = t
  BY <1>2, <1>3, <1>5
<1>7. I # {} => i # 0
  BY <1>2, <1>3, <1>5
<1> QED BY <1>4, <1>6, <1>7 DEF i

\* The last plucker takes the place of the one that leaves: nobody else is
\* lost, and the array is shorter by the one that was in it.
LEMMA DelPluckerFacts ==
    ASSUME NEW s \in Seq(Callers), IsInjective(s), NEW c
    PROVE  /\ DelPlucker(s, c) \in Seq(Callers) /\ IsInjective(DelPlucker(s, c))
           /\ ToSet(DelPlucker(s, c)) = ToSet(s) \ {c}
           /\ Len(DelPlucker(s, c)) <= Len(s)
<1> DEFINE i == SelectInSeq(s, LAMBDA b : b = c)
           n == Len(s)
           u == [s EXCEPT ![i] = s[n]]
           t == SubSeq(u, 1, n - 1)
<1>1. /\ n \in Nat /\ DOMAIN s = 1 .. n
      /\ \A j \in 1 .. n : s[j] \in Callers
  OBVIOUS
<1>2. /\ c \in ToSet(s) => i # 0
      /\ i # 0 => i \in 1 .. n /\ s[i] = c
  <2>1. (i # 0 <=> c \in ToSet(s)) /\ (i # 0 => i \in DOMAIN s /\ s[i] = c)
    BY FirstFacts, Zenon
  <2> QED BY <1>1, <2>1
<1>3. DelPlucker(s, c) = IF i = 0 THEN s ELSE t
  BY Zenon DEF DelPlucker, Last
<1> HIDE DEF i
<1>4. CASE i = 0
  BY <1>1, <1>2, <1>3, <1>4
<1>5. CASE i # 0
  <2>1. /\ n >= 1 /\ n - 1 \in Nat /\ n \in 1 .. n /\ i \in 1 .. n /\ s[i] = c
    BY <1>1, <1>2, <1>5
  <2>2. /\ DOMAIN u = 1 .. n
        /\ \A j \in 1 .. n : u[j] = IF j = i THEN s[n] ELSE s[j]
    BY <1>1, <2>1
  <2>3. u \in Seq(Callers) /\ Len(u) = n
    <3>1. u \in [1 .. n -> Callers]
      BY <1>1, <2>1, <2>2
    <3> QED BY <1>1, <3>1
  <2> HIDE DEF u
  <2>4. /\ t \in Seq(Callers) /\ Len(t) = n - 1 /\ DOMAIN t = 1 .. (n - 1)
        /\ \A j \in 1 .. (n - 1) : t[j] = IF j = i THEN s[n] ELSE s[j]
    <3>1. \A j \in 1 .. (n - 1) : u[j] \in Callers
      BY <1>1, <2>1, <2>2
    <3>2. /\ t \in Seq(Callers) /\ Len(t) = IF 1 <= n - 1 THEN n - 1 - 1 + 1 ELSE 0
          /\ \A j \in 1 .. ((n - 1) - 1 + 1) : t[j] = u[1 + j - 1]
      BY <2>1, <3>1, SubSeqProperties
    <3> HIDE DEF t
    <3>3. Len(t) = n - 1 /\ DOMAIN t = 1 .. Len(t)
      <4> HIDE DEF n
      <4>1. n \in Nat /\ n >= 1
        BY <1>1, <2>1
      <4>2. Len(t) = n - 1
        BY <3>2, <4>1
      <4> QED BY <3>2, <4>2
    <3>4. ASSUME NEW j \in 1 .. (n - 1) PROVE t[j] = IF j = i THEN s[n] ELSE s[j]
      <4>1. j \in 1 .. ((n - 1) - 1 + 1) /\ 1 + j - 1 = j /\ j \in 1 .. n
        BY <2>1
      <4> QED BY <2>2, <3>2, <4>1
    <3> QED BY <3>2, <3>3, <3>4
  <2> HIDE DEF t
  <2>5. IsInjective(t)
    <3> SUFFICES ASSUME NEW j \in DOMAIN t, NEW k \in DOMAIN t, t[j] = t[k]
                 PROVE  j = k
      BY DEF IsInjective
    <3> DEFINE J == IF j = i THEN n ELSE j
               K == IF k = i THEN n ELSE k
    <3>1. J \in DOMAIN s /\ K \in DOMAIN s /\ s[J] = s[K]
      BY <1>1, <2>1, <2>4
    <3>2. J = K
      BY <3>1 DEF IsInjective
    <3> QED BY <1>1, <2>1, <2>4, <3>2
  <2>6. ToSet(t) = ToSet(s) \ {c}
    <3>1. ASSUME NEW x \in ToSet(t) PROVE x \in ToSet(s) \ {c}
      <4>1. PICK j \in DOMAIN t : x = t[j]
        BY <3>1 DEF ToSet
      <4> DEFINE J == IF j = i THEN n ELSE j
      <4>2. J \in DOMAIN s /\ J # i /\ x = s[J]
        <5>1. j \in 1 .. (n - 1) /\ x = IF j = i THEN s[n] ELSE s[j]
          BY <2>4, <4>1
        <5>2. j \in 1 .. n /\ j # n
          BY <2>1, <5>1
        <5> QED BY <1>1, <2>1, <5>1, <5>2
      <4>3. s[J] # s[i]
        BY <1>1, <2>1, <4>2 DEF IsInjective
      <4> QED BY <2>1, <4>2, <4>3 DEF ToSet
    <3>2. ASSUME NEW x \in ToSet(s), x # c PROVE x \in ToSet(t)
      <4>1. PICK j \in DOMAIN s : x = s[j]
        BY <3>2 DEF ToSet
      <4> DEFINE J == IF j = n THEN i ELSE j
      <4>2. J \in DOMAIN t /\ x = t[J]
        BY <1>1, <2>1, <2>4, <3>2, <4>1
      <4> QED BY <4>2 DEF ToSet
    <3> QED BY <3>1, <3>2
  <2> QED BY <1>3, <1>5, <2>1, <2>4, <2>5, <2>6
<1> QED BY <1>4, <1>5

-----------------------------------------------------------------------------
(* The initial states, and what steps leave alone                          *)

LEMMA InitInv ==
    ASSUME PluckQueueConstants, Init
    PROVE  Inv
<1>1. Begun = {} /\ Inside = {} /\ \A c \in Callers : pc[c] = "out"
  BY DEF Init, Begun, Inside
<1>2. nBegun = 0 /\ nIn = 0 /\ Cardinality(Ops) \in Nat
  BY <1>1, Numbers
<1>3. TypeOK
  <2>1. /\ ToSet(workers) = {} /\ ToSet(pluckers) = {} /\ Len(pluckers) = 0
        /\ IsInjective(workers) /\ IsInjective(pluckers)
    BY DEF Init, ToSet, IsInjective
  <2>2. {c \in Callers : pc[c] = "wait"} = {}
    BY <1>1
  <2>3. tag \in [Callers -> Tags]
    BY DEF Init, PluckQueueConstants
  <2>4. pending \in 0 .. Cardinality(Ops) + 1
    BY <1>2 DEF Init
  <2>5. op \in [Ops -> {"idle", "refused", "begun", "ended"}]
    BY DEF Init
  <2>6. /\ pc \in [Callers -> {"out", "enter", "wait", "leave"}]
        /\ firstLoop \in [Callers -> BOOLEAN]
        /\ deadline \in [Callers -> {"inf", "finite", "past"}]
        /\ ret \in [Callers -> {"none", "event", "shutdown", "timeout"}]
    BY DEF Init
  <2>7. /\ completed \in Seq(Ops) /\ workers \in Seq(Callers) /\ pluckers \in Seq(Callers)
        /\ kicked \subseteq ToSet(workers) /\ Len(pluckers) <= MaxPluckers
    BY <2>1 DEF Init, PluckQueueConstants
  <2>8. /\ shutdownCalled \in BOOLEAN /\ shutdown \in BOOLEAN
        /\ kickedWithoutPoller \in BOOLEAN /\ destroyed \in BOOLEAN
    BY Zenon DEF Init
  <2>9. shutdownDone \in 0 .. 1 /\ refs \in Nat
    BY DEF Init
  <2> QED BY <2>1, <2>2, <2>3, <2>4, <2>5, <2>6, <2>7, <2>8, <2>9 DEF TypeOK
<1>4. Counted /\ RefsAccount
  BY <1>2 DEF Init, Counted, RefsAccount, PollerHolds, nBegun, nIn, One
<1>5. TagsApart /\ Kicked /\ Over /\ Closed /\ Gone
  BY <1>1 DEF Init, TagsApart, Kicked, Over, Closed, Gone
<1> QED BY <1>3, <1>4, <1>5 DEF Inv

\* The list of completions and the calls are as they were, and the shutdown
\* is not undone.
LEMMA CallsKept ==
    ASSUME Inv, UNCHANGED <<completed, pc, tag, ret, kicked>>, shutdown => shutdown'
    PROVE  TagsApart' /\ Kicked' /\ Over'
<1>1. \A c \in Callers : Has(c)' <=> Has(c)
  BY DEF Has
<1>2. TagsApart'
  BY DEF Inv, TagsApart
<1>3. Kicked'
  BY <1>1 DEF Inv, Kicked
<1>4. Over'
  BY <1>1 DEF Inv, Over
<1> QED BY <1>2, <1>3, <1>4

\* The balance of the two counters.
LEMMA Balance ==
    ASSUME Inv
    PROVE  /\ pending = nBegun + One(~shutdownCalled)
           /\ refs = One(~destroyed) + One(PollerHolds) + nIn
           /\ shutdown <=> pending = 0
BY DEF Inv, Counted, RefsAccount, nBegun, nIn

-----------------------------------------------------------------------------
(* The operations and the shutdown                                         *)

LEMMA BeginOpInv ==
    ASSUME PluckQueueConstants, Inv, NEW o \in Ops, BeginOp(o)
    PROVE  Inv'
<1>1. /\ UNCHANGED <<completed, shutdownCalled, shutdown, workers, kicked>>
      /\ UNCHANGED <<kickedWithoutPoller, pluckers, pc, tag, firstLoop, deadline, ret>>
      /\ UNCHANGED <<shutdownDone, refs, destroyed>>
      /\ ~destroyed /\ op[o] = "idle"
  BY DEF BeginOp, poller, call, life
<1>2. PICK to \in {"begun", "refused"} :
         /\ op' = [op EXCEPT ![o] = to]
         /\ pending' = pending + One(to = "begun")
         /\ to = "begun" => pending # 0 /\ ~shutdownCalled
         /\ pending \in Int
  BY DEF BeginOp, One, Inv, TypeOK
<1>3. nBegun' = nBegun + One(to = "begun")
  <2>1. nBegun' = nBegun + One(to = "begun") - One(op[o] = "begun")
    BY <1>2, OpMoves DEF Inv
  <2> QED BY <1>1, <2>1, Numbers DEF One
<1>4. Counted'
  <2>1. pending' = nBegun' + One(~shutdownCalled)
    BY <1>2, <1>3, Balance, Numbers DEF One
  <2>2. shutdown <=> pending' = 0
    BY <1>2, Balance, Numbers DEF One
  <2> QED BY <1>1, <2>1, <2>2 DEF Counted, nBegun
<1>5. TypeOK'
  <2>1. op' \in [Ops -> {"idle", "refused", "begun", "ended"}]
    BY <1>2 DEF Inv, TypeOK
  <2>2. pending' \in 0 .. Cardinality(Ops) + 1
    BY <1>4, Numbers DEF Counted, nBegun, One
  <2> QED BY <1>1, <2>1, <2>2 DEF Inv, TypeOK
<1>6. TagsApart' /\ Kicked' /\ Over'
  BY <1>1, CallsKept
<1>7. Closed' /\ Gone' /\ RefsAccount'
  BY <1>1 DEF Inv, Closed, Gone, RefsAccount, PollerHolds, Inside
<1> QED BY <1>4, <1>5, <1>6, <1>7 DEF Inv

\* The poller is shut down: the closure is scheduled, or a worker will.
LEMMA PollerShutdownKeeps ==
    ASSUME Inv, ~shutdown, PollerShutdown, shutdown' = TRUE,
           UNCHANGED <<workers, refs, destroyed, pc>>
    PROVE  /\ shutdownDone' \in 0 .. 1 /\ Closed' /\ RefsAccount'
<1>1. shutdownDone = 0
  BY DEF Inv, Closed, TypeOK
<1>2. shutdownDone' = IF workers = <<>> THEN 1 ELSE 0
  BY <1>1 DEF PollerShutdown
<1>3. PollerHolds /\ PollerHolds'
  BY <1>2 DEF PollerHolds
<1>4. Inside' = Inside
  BY DEF Inside
<1> QED BY <1>2, <1>3, <1>4 DEF Inv, Closed, RefsAccount

LEMMA EndOpInv ==
    ASSUME PluckQueueConstants, Inv, NEW o \in Ops, EndOp(o)
    PROVE  Inv'
<1>1. /\ UNCHANGED <<shutdownCalled, workers, pluckers, refs, destroyed>>
      /\ UNCHANGED <<pc, tag, firstLoop, deadline, ret>>
      /\ completed' = Append(completed, o) /\ pending' = pending - 1
      /\ op[o] = "begun" /\ op' = [op EXCEPT ![o] = "ended"]
  BY DEF EndOp, call
<1>2. nBegun' = nBegun - 1 /\ nBegun >= 1
  <2>1. nBegun' = nBegun + One("ended" = "begun") - One(op[o] = "begun")
    BY <1>1, OpMoves DEF Inv
  <2>2. nBegun' = nBegun - 1
    BY <1>1, <2>1, Numbers DEF One
  <2> QED BY <2>2, Numbers
<1>3. pending \in Nat /\ pending >= 1 /\ ~shutdown /\ ~destroyed
  <2>1. pending \in Nat /\ pending >= 1 /\ ~shutdown
    BY <1>2, Balance, Numbers DEF One
  <2>2. ~destroyed
    BY <1>1 DEF Inv, Gone, Begun
  <2> QED BY <2>1, <2>2
<1>4. /\ shutdown' \in BOOLEAN /\ (shutdown' <=> pending = 1)
      /\ kickedWithoutPoller' \in BOOLEAN
  BY <1>3 DEF EndOp, KickFor, Inv, TypeOK
<1>5. /\ completed \in Seq(Ops) /\ pluckers \in Seq(Callers)
      /\ ToSet(pluckers) = ToSet(workers) /\ workers \in Seq(Callers)
      /\ \A c \in Callers : c \in ToSet(pluckers) <=> pc[c] = "wait"
      /\ kicked \subseteq ToSet(workers)
  BY DEF Inv, TypeOK
<1>6. /\ completed' \in Seq(Ops)
      /\ \A c \in Callers : Has(c)' => Has(c) \/ Tag[o] = tag[c]
  <2>1. /\ completed' \in Seq(Ops) /\ Len(completed') = Len(completed) + 1
        /\ DOMAIN completed = 1 .. Len(completed) /\ Len(completed) \in Nat
        /\ DOMAIN completed' = 1 .. Len(completed')
        /\ completed'[Len(completed) + 1] = o
        /\ \A i \in 1 .. Len(completed) : completed'[i] = completed[i]
    BY <1>1, <1>5
  <2>2. ASSUME NEW c \in Callers, Has(c)' PROVE Has(c) \/ Tag[o] = tag[c]
    <3>1. PICK i \in DOMAIN completed' : Tag[completed'[i]] = tag[c]
      BY <1>1, <2>2 DEF Has
    <3>2. i \in DOMAIN completed \/ i = Len(completed) + 1
      BY <2>1
    <3> QED BY <2>1, <3>1, <3>2 DEF Has
  <2> QED BY <2>1, <2>2
<1>7. ASSUME pending # 1
      PROVE  /\ kicked \subseteq kicked' /\ kicked' \subseteq ToSet(workers)
             /\ \A c \in Callers : pc[c] = "wait" /\ Tag[o] = tag[c] => c \in kicked'
             /\ shutdownDone' = shutdownDone
  <2> DEFINE i == PluckerOf(Tag[o])
             k == IF i = 0 THEN Head(workers) ELSE pluckers[i]
  <2>1. /\ IF i = 0 /\ workers = <<>> THEN kicked' = kicked
                                      ELSE kicked' = kicked \cup {k}
        /\ shutdownDone' = shutdownDone
    BY <1>7 DEF EndOp, KickFor, PluckerOf
  <2>2. /\ i # 0 => i \in DOMAIN pluckers /\ tag[pluckers[i]] = Tag[o]
        /\ \A c \in ToSet(pluckers) : tag[c] = Tag[o] => i # 0
    BY <1>5, PluckerFacts
  <2> HIDE DEF i
  <2>3. ~(i = 0 /\ workers = <<>>) => k \in ToSet(workers)
    <3>1. CASE i = 0
      BY <1>5, <3>1 DEF ToSet
    <3>2. CASE i # 0
      BY <1>5, <2>2, <3>2 DEF ToSet
    <3> QED BY <3>1, <3>2
  <2>4. ASSUME NEW c \in Callers, pc[c] = "wait", Tag[o] = tag[c] PROVE c \in kicked'
    <3>1. c \in ToSet(pluckers) /\ i # 0
      BY <1>5, <2>2, <2>4
    <3>2. pluckers[i] \in Callers /\ pluckers[i] \in ToSet(pluckers)
      BY <1>5, <2>2, <3>1 DEF ToSet
    <3>3. pc[pluckers[i]] = "wait" /\ tag[pluckers[i]] = tag[c]
      BY <1>5, <2>2, <2>4, <3>1, <3>2
    <3>4. pluckers[i] = c
      BY <2>4, <3>2, <3>3 DEF Inv, TagsApart
    <3> QED BY <2>1, <3>1, <3>4
  <2> QED BY <1>5, <2>1, <2>3, <2>4
<1>8. ASSUME pending = 1
      PROVE  /\ shutdown' = TRUE /\ PollerShutdown /\ UNCHANGED <<kicked>>
             /\ shutdownDone' \in 0 .. 1 /\ Closed' /\ RefsAccount'
  <2>1. shutdown' = TRUE /\ PollerShutdown /\ UNCHANGED <<kicked>>
    BY <1>8 DEF EndOp
  <2> QED BY <1>1, <1>3, <2>1, PollerShutdownKeeps
<1>9. TypeOK'
  <2>1. op' \in [Ops -> {"idle", "refused", "begun", "ended"}]
    BY <1>1 DEF Inv, TypeOK
  <2>2. pending' \in 0 .. Cardinality(Ops) + 1
    BY <1>1, <1>3, Numbers DEF Inv, TypeOK
  <2>3. kicked' \subseteq ToSet(workers) /\ shutdownDone' \in 0 .. 1
    BY <1>5, <1>7, <1>8 DEF Inv, TypeOK
  <2> QED BY <1>1, <1>4, <1>6, <2>1, <2>2, <2>3 DEF Inv, TypeOK
<1>10. Counted'
  <2>1. pending' = nBegun' + One(~shutdownCalled)
    BY <1>1, <1>2, Balance, Numbers DEF One
  <2>2. shutdown' <=> pending' = 0
    BY <1>1, <1>3, <1>4
  <2> QED BY <1>1, <2>1, <2>2 DEF Counted, nBegun
<1>11. TagsApart'
  BY <1>1 DEF Inv, TagsApart
<1>12. Kicked'
  <2> SUFFICES ASSUME NEW c \in Callers, pc[c] = "wait", Has(c)', ~shutdown'
               PROVE  c \in kicked'
    BY <1>1 DEF Kicked
  <2>1. pending # 1
    BY <1>4
  <2>2. Has(c) => c \in kicked
    BY <1>3 DEF Inv, Kicked
  <2> QED BY <1>6, <1>7, <2>1, <2>2
<1>13. Over'
  BY <1>1, <1>3 DEF Inv, Over
<1>14. Closed' /\ RefsAccount'
  <2>1. CASE pending = 1
    BY <1>8, <2>1
  <2>2. CASE pending # 1
    BY <1>1, <1>3, <1>4, <1>7, <2>2 DEF Inv, Closed, RefsAccount, PollerHolds, Inside
  <2> QED BY <2>1, <2>2
<1>15. Gone'
  BY <1>1, <1>3 DEF Gone
<1> QED BY <1>9, <1>10, <1>11, <1>12, <1>13, <1>14, <1>15 DEF Inv

LEMMA ShutdownInv ==
    ASSUME PluckQueueConstants, Inv, Shutdown
    PROVE  Inv'
<1>1. /\ UNCHANGED <<completed, workers, kicked, kickedWithoutPoller, pluckers, op>>
      /\ UNCHANGED <<pc, tag, firstLoop, deadline, ret, refs, destroyed>>
      /\ ~shutdownCalled /\ shutdownCalled' = TRUE /\ pending' = pending - 1
      /\ shutdown' \in BOOLEAN /\ (shutdown' <=> pending = 1)
  BY DEF Shutdown, poller, call
<1>2. pending \in Nat /\ pending = nBegun + 1 /\ ~shutdown /\ ~destroyed
  BY <1>1, Balance, Numbers DEF One, Inv, Gone
<1>3. /\ shutdownDone' \in 0 .. 1 /\ Closed' /\ RefsAccount'
  <2>1. CASE pending = 1
    <3>1. PollerShutdown /\ shutdown' = TRUE
      BY <1>1, <2>1 DEF Shutdown
    <3> QED BY <1>1, <1>2, <3>1, PollerShutdownKeeps
  <2>2. CASE pending # 1
    <3>1. shutdownDone' = shutdownDone /\ shutdown' = shutdown
      BY <1>1, <1>2, <2>2 DEF Shutdown, Inv, TypeOK
    <3>2. Closed' /\ RefsAccount'
      BY <1>1, <3>1 DEF Inv, Closed, RefsAccount, PollerHolds, Inside
    <3> QED BY <3>1, <3>2 DEF Inv, TypeOK
  <2> QED BY <2>1, <2>2
<1>4. TypeOK'
  <2>1. pending' \in 0 .. Cardinality(Ops) + 1
    BY <1>1, <1>2, Numbers
  <2> QED BY <1>1, <1>3, <2>1 DEF Inv, TypeOK
<1>5. Counted'
  <2>1. nBegun' = nBegun
    BY <1>1 DEF nBegun, Begun
  <2>2. pending' = nBegun' + One(~shutdownCalled') /\ (shutdown' <=> pending' = 0)
    BY <1>1, <1>2, <2>1, Numbers DEF One
  <2> QED BY <2>2 DEF Counted, nBegun
<1>6. TagsApart' /\ Kicked' /\ Over'
  BY <1>1, <1>2, CallsKept
<1>7. Gone'
  BY <1>1, <1>2 DEF Gone
<1> QED BY <1>3, <1>4, <1>5, <1>6, <1>7 DEF Inv

LEMMA PollsetShutdownDoneInv ==
    ASSUME PluckQueueConstants, Inv, PollsetShutdownDone
    PROVE  Inv'
<1>1. /\ UNCHANGED <<completed, pending, shutdownCalled, shutdown, workers, kicked>>
      /\ UNCHANGED <<kickedWithoutPoller, pluckers, op, pc, tag, firstLoop, deadline>>
      /\ UNCHANGED <<ret, destroyed>>
      /\ shutdownDone > 0 /\ shutdownDone' = shutdownDone - 1 /\ refs' = refs - 1
  BY DEF PollsetShutdownDone, cq, poller, call
<1>2. shutdownDone = 1 /\ shutdownDone' = 0 /\ shutdown /\ workers = <<>>
  BY <1>1 DEF Inv, TypeOK, Closed
<1>3. PollerHolds /\ ~PollerHolds'
  BY <1>1, <1>2 DEF PollerHolds
<1>4. refs' = One(~destroyed') + One(PollerHolds') + nIn' /\ refs' \in Nat
  <2>1. nIn' = nIn
    BY <1>1 DEF nIn, Inside
  <2> QED BY <1>1, <1>3, <2>1, Balance, Numbers DEF One
<1>5. RefsAccount' /\ Closed'
  BY <1>2, <1>4 DEF RefsAccount, Closed, nIn
<1>6. TypeOK'
  <2>1. shutdownDone' \in 0 .. 1
    BY <1>2
  <2> QED BY <1>1, <1>4, <2>1 DEF Inv, TypeOK
<1>7. TagsApart' /\ Kicked' /\ Over'
  BY <1>1, CallsKept
<1>8. Counted' /\ Gone'
  BY <1>1 DEF Inv, Counted, Gone, Begun
<1> QED BY <1>5, <1>6, <1>7, <1>8 DEF Inv

LEMMA DestroyInv ==
    ASSUME PluckQueueConstants, Inv, Destroy
    PROVE  Inv'
<1>1. /\ UNCHANGED <<completed, pending, shutdownCalled, shutdown, workers, kicked>>
      /\ UNCHANGED <<kickedWithoutPoller, pluckers, op, pc, tag, firstLoop, deadline>>
      /\ UNCHANGED <<ret, shutdownDone>>
      /\ ~destroyed /\ destroyed' = TRUE /\ refs' = refs - 1
      /\ shutdownCalled /\ completed = <<>> /\ \A o \in Ops : op[o] # "begun"
  BY DEF Destroy, cq, poller, call
<1>2. refs' = One(~destroyed') + One(PollerHolds') + nIn' /\ refs' \in Nat
  <2>1. nIn' = nIn /\ PollerHolds' = PollerHolds
    BY <1>1 DEF nIn, Inside, PollerHolds
  <2> QED BY <1>1, <2>1, Balance, Numbers DEF One
<1>3. RefsAccount' /\ Closed'
  BY <1>1, <1>2 DEF RefsAccount, Inv, Closed, nIn
<1>4. TypeOK'
  BY <1>1, <1>2 DEF Inv, TypeOK
<1>5. TagsApart' /\ Kicked' /\ Over'
  BY <1>1, CallsKept
<1>6. Counted' /\ Gone'
  BY <1>1 DEF Inv, Counted, Gone, Begun
<1> QED BY <1>3, <1>4, <1>5, <1>6 DEF Inv

-----------------------------------------------------------------------------
(* The callers                                                             *)

LEMMA CallPluckInv ==
    ASSUME PluckQueueConstants, Inv, NEW c \in Callers, NEW t \in Tags,
           NEW d \in {"inf", "finite"}, CallPluck(c, t, d)
    PROVE  Inv'
<1>1. /\ UNCHANGED <<completed, pending, shutdownCalled, shutdown, workers, kicked>>
      /\ UNCHANGED <<kickedWithoutPoller, pluckers, op, firstLoop>>
      /\ UNCHANGED <<shutdownDone, destroyed>>
      /\ pc[c] = "out" /\ ~destroyed /\ refs' = refs + 1
      /\ \A b \in Callers \ {c} : pc[b] = "out" \/ tag[b] # t
      /\ pc' = [pc EXCEPT ![c] = "enter"] /\ tag' = [tag EXCEPT ![c] = t]
      /\ deadline' = [deadline EXCEPT ![c] = d] /\ ret' = [ret EXCEPT ![c] = "none"]
  BY DEF CallPluck, cq, poller
<1>2. /\ pc'[c] = "enter" /\ tag'[c] = t /\ ret'[c] = "none"
      /\ \A b \in Callers : b # c => pc'[b] = pc[b] /\ tag'[b] = tag[b] /\ ret'[b] = ret[b]
  BY <1>1 DEF Inv, TypeOK
<1>3. refs' = One(~destroyed') + One(PollerHolds') + nIn' /\ refs' \in Nat
  <2>1. nIn' = nIn + One("enter" # "out") - One(pc[c] # "out")
    BY <1>1, CallerMoves DEF Inv
  <2>2. nIn' = nIn + 1
    BY <1>1, <2>1, Numbers DEF One
  <2>3. PollerHolds' = PollerHolds
    BY <1>1 DEF PollerHolds
  <2> QED BY <1>1, <2>2, <2>3, Balance, Numbers DEF One
<1>4. TypeOK'
  <2>1. /\ pc' \in [Callers -> {"out", "enter", "wait", "leave"}]
        /\ tag' \in [Callers -> Tags]
        /\ deadline' \in [Callers -> {"inf", "finite", "past"}]
        /\ ret' \in [Callers -> {"none", "event", "shutdown", "timeout"}]
    BY <1>1 DEF Inv, TypeOK
  <2>2. {b \in Callers : pc'[b] = "wait"} = {b \in Callers : pc[b] = "wait"}
    BY <1>1, <1>2
  <2> QED BY <1>1, <1>3, <2>1, <2>2 DEF Inv, TypeOK
<1>5. \A b \in Callers : b # c => (Has(b)' <=> Has(b))
  BY <1>1, <1>2 DEF Has
<1>6. TagsApart'
  BY <1>1, <1>2 DEF Inv, TagsApart
<1>7. Kicked'
  BY <1>1, <1>2, <1>5 DEF Inv, Kicked
<1>8. Over'
  BY <1>1, <1>2, <1>5 DEF Inv, Over
<1>9. Counted' /\ Closed' /\ Gone'
  BY <1>1 DEF Inv, Counted, Closed, Gone, Begun
<1>10. RefsAccount'
  BY <1>3 DEF RefsAccount, nIn
<1> QED BY <1>4, <1>6, <1>7, <1>8, <1>9, <1>10 DEF Inv

LEMMA DeadlinePassesInv ==
    ASSUME PluckQueueConstants, Inv, NEW c \in Callers, DeadlinePasses(c)
    PROVE  Inv'
<1>1. /\ UNCHANGED <<completed, pending, shutdownCalled, shutdown, workers, kicked>>
      /\ UNCHANGED <<kickedWithoutPoller, pluckers, op, pc, tag, firstLoop, ret>>
      /\ UNCHANGED <<shutdownDone, refs, destroyed>>
      /\ deadline' = [deadline EXCEPT ![c] = "past"]
  BY DEF DeadlinePasses, cq, poller, life
<1>2. deadline' \in [Callers -> {"inf", "finite", "past"}]
  BY <1>1 DEF Inv, TypeOK
<1>3. TypeOK'
  BY <1>1, <1>2 DEF Inv, TypeOK
<1>4. TagsApart' /\ Kicked' /\ Over'
  BY <1>1, CallsKept
<1>5. Counted' /\ Closed' /\ Gone' /\ RefsAccount'
  BY <1>1 DEF Inv, Counted, Closed, Gone, Begun, RefsAccount, PollerHolds, Inside
<1> QED BY <1>3, <1>4, <1>5 DEF Inv

LEMMA ReturnPluckInv ==
    ASSUME PluckQueueConstants, Inv, NEW c \in Callers, ReturnPluck(c)
    PROVE  Inv'
<1>1. /\ UNCHANGED <<completed, pending, shutdownCalled, shutdown, workers, kicked>>
      /\ UNCHANGED <<kickedWithoutPoller, pluckers, op, tag, firstLoop, deadline, ret>>
      /\ UNCHANGED <<shutdownDone, destroyed>>
      /\ pc[c] = "leave" /\ pc' = [pc EXCEPT ![c] = "out"] /\ refs' = refs - 1
  BY DEF ReturnPluck, cq, poller
<1>2. pc'[c] = "out" /\ \A b \in Callers : b # c => pc'[b] = pc[b]
  BY <1>1 DEF Inv, TypeOK
<1>3. refs' = One(~destroyed') + One(PollerHolds') + nIn' /\ refs' \in Nat
  <2>1. nIn' = nIn + One("out" # "out") - One(pc[c] # "out")
    BY <1>1, CallerMoves DEF Inv
  <2>2. nIn' = nIn - 1
    BY <1>1, <2>1, Numbers DEF One
  <2>3. PollerHolds' = PollerHolds
    BY <1>1 DEF PollerHolds
  <2> QED BY <1>1, <2>2, <2>3, Balance, Numbers DEF One
<1>4. TypeOK'
  <2>1. pc' \in [Callers -> {"out", "enter", "wait", "leave"}]
    BY <1>1 DEF Inv, TypeOK
  <2>2. {b \in Callers : pc'[b] = "wait"} = {b \in Callers : pc[b] = "wait"}
    BY <1>1, <1>2
  <2> QED BY <1>1, <1>3, <2>1, <2>2 DEF Inv, TypeOK
<1>5. \A b \in Callers : Has(b)' <=> Has(b)
  BY <1>1 DEF Has
<1>6. TagsApart'
  BY <1>1, <1>2 DEF Inv, TagsApart
<1>7. Kicked'
  BY <1>1, <1>2, <1>5 DEF Inv, Kicked
<1>8. Over'
  BY <1>1, <1>5 DEF Inv, Over
<1>9. Counted' /\ Closed' /\ Gone'
  BY <1>1 DEF Inv, Counted, Closed, Gone, Begun
<1>10. RefsAccount'
  BY <1>3 DEF RefsAccount, nIn
<1> QED BY <1>4, <1>6, <1>7, <1>8, <1>9, <1>10 DEF Inv

\* The three lists after the caller has taken itself out of them.
LEMMA ListsAtTop ==
    ASSUME PluckQueueConstants, Inv, NEW c \in Callers, AtTop(c)
    PROVE  /\ RemoveFirst(workers, c) \in Seq(Callers)
           /\ IsInjective(RemoveFirst(workers, c))
           /\ ToSet(RemoveFirst(workers, c)) = {b \in Callers : b # c /\ pc[b] = "wait"}
           /\ RemoveFirst(workers, c) = <<>> <=> workers = <<>> \/ workers = <<c>>
           /\ DelPlucker(pluckers, c) \in Seq(Callers)
           /\ IsInjective(DelPlucker(pluckers, c))
           /\ ToSet(DelPlucker(pluckers, c)) = {b \in Callers : b # c /\ pc[b] = "wait"}
           /\ Len(DelPlucker(pluckers, c)) <= MaxPluckers
           /\ kicked \ {c} \subseteq {b \in Callers : b # c /\ pc[b] = "wait"}
           /\ pc[c] # "out"
<1>1. /\ workers \in Seq(Callers) /\ IsInjective(workers)
      /\ pluckers \in Seq(Callers) /\ IsInjective(pluckers)
      /\ ToSet(workers) = {b \in Callers : pc[b] = "wait"}
      /\ ToSet(pluckers) = {b \in Callers : pc[b] = "wait"}
      /\ kicked \subseteq {b \in Callers : pc[b] = "wait"}
  BY DEF Inv, TypeOK
<1>2. Len(pluckers) <= MaxPluckers
  BY DEF Inv, TypeOK
<1>3. {b \in Callers : pc[b] = "wait"} \ {c} = {b \in Callers : b # c /\ pc[b] = "wait"}
  OBVIOUS
<1>4. /\ RemoveFirst(workers, c) \in Seq(Callers)
      /\ IsInjective(RemoveFirst(workers, c))
      /\ ToSet(RemoveFirst(workers, c)) = {b \in Callers : b # c /\ pc[b] = "wait"}
      /\ RemoveFirst(workers, c) = <<>> <=> workers = <<>> \/ workers = <<c>>
  BY <1>1, <1>3, RemoveFirstFacts
<1>5. /\ DelPlucker(pluckers, c) \in Seq(Callers)
      /\ IsInjective(DelPlucker(pluckers, c))
      /\ ToSet(DelPlucker(pluckers, c)) = {b \in Callers : b # c /\ pc[b] = "wait"}
      /\ Len(DelPlucker(pluckers, c)) <= Len(pluckers)
  BY <1>1, <1>3, DelPluckerFacts
<1>6. Len(DelPlucker(pluckers, c)) <= MaxPluckers
  <2>1. /\ Len(DelPlucker(pluckers, c)) \in Nat /\ Len(pluckers) \in Nat
        /\ MaxPluckers \in Nat
    BY <1>1, <1>5 DEF PluckQueueConstants
  <2> QED BY <1>2, <1>5, <2>1
<1>7. pc[c] # "out"
  BY DEF AtTop
<1>8. kicked \ {c} \subseteq {b \in Callers : b # c /\ pc[b] = "wait"}
  BY <1>1
<1> QED BY <1>4, <1>5, <1>6, <1>7, <1>8

\* A caller that returns, with a completion or without: what it takes from
\* the list of completions is nobody else's.
LEMMA LeaveInv ==
    ASSUME PluckQueueConstants, Inv, NEW c \in Callers, AtTop(c), LeavePoller(c),
           NEW r \in {"event", "shutdown", "timeout"}, Return(c, r),
           UNCHANGED <<pending, shutdownCalled, shutdown>>,
           kickedWithoutPoller' \in BOOLEAN,
           completed' \in Seq(Ops), ToSet(completed') \subseteq ToSet(completed),
           destroyed => completed' = <<>>,
           r = "shutdown" => shutdown /\ ~Has(c)
    PROVE  Inv'
<1>1. /\ workers' = RemoveFirst(workers, c) /\ kicked' = kicked \ {c}
      /\ pluckers' = DelPlucker(pluckers, c)
      /\ shutdownDone' = shutdownDone + (IF shutdown /\ workers = <<c>> THEN 1 ELSE 0)
      /\ pc' = [pc EXCEPT ![c] = "leave"] /\ ret' = [ret EXCEPT ![c] = r]
      /\ firstLoop' = [firstLoop EXCEPT ![c] = TRUE]
      /\ deadline' = [deadline EXCEPT ![c] = "inf"]
      /\ UNCHANGED <<tag, op, refs, destroyed>>
  BY DEF LeavePoller, Return
<1>2. /\ pc'[c] = "leave" /\ ret'[c] = r
      /\ \A b \in Callers : b # c => pc'[b] = pc[b] /\ ret'[b] = ret[b]
  BY <1>1 DEF Inv, TypeOK
<1> DEFINE W == {b \in Callers : b # c /\ pc[b] = "wait"}
<1>3. /\ workers' \in Seq(Callers) /\ IsInjective(workers') /\ ToSet(workers') = W
      /\ workers' = <<>> <=> workers = <<>> \/ workers = <<c>>
      /\ pluckers' \in Seq(Callers) /\ IsInjective(pluckers') /\ ToSet(pluckers') = W
      /\ Len(pluckers') <= MaxPluckers /\ kicked' \subseteq W /\ pc[c] # "out"
  BY <1>1, ListsAtTop
<1>4. W = {b \in Callers : pc'[b] = "wait"}
  BY <1>2
<1> HIDE DEF W
<1>5. shutdownDone \in 0 .. 1 /\ (shutdownDone > 0 => shutdown /\ workers = <<>>)
  BY DEF Inv, TypeOK, Closed
<1>6. workers = <<c>> => workers # <<>>
  OBVIOUS
<1>7. /\ shutdownDone' \in 0 .. 1 /\ (shutdownDone' > 0 => shutdown /\ workers' = <<>>)
      /\ PollerHolds' <=> PollerHolds
  BY <1>1, <1>3, <1>5, <1>6 DEF PollerHolds
<1>8. TypeOK'
  <2>1. /\ pc' \in [Callers -> {"out", "enter", "wait", "leave"}]
        /\ ret' \in [Callers -> {"none", "event", "shutdown", "timeout"}]
        /\ deadline' \in [Callers -> {"inf", "finite", "past"}]
    BY <1>1 DEF Inv, TypeOK
  <2>2. firstLoop' \in [Callers -> BOOLEAN]
    BY <1>1, Zenon DEF Inv, TypeOK
  <2> QED BY <1>1, <1>3, <1>4, <1>7, <2>1, <2>2 DEF Inv, TypeOK
<1>9. \A b \in Callers : Has(b)' => Has(b)
  BY <1>1 DEF Has, ToSet
<1>10. TagsApart'
  BY <1>1, <1>2, <1>3 DEF Inv, TagsApart
<1>11. Kicked'
  BY <1>1, <1>2, <1>9 DEF Inv, Kicked
<1>12. Over'
  BY <1>2, <1>9 DEF Inv, Over
<1>13. Counted' /\ Gone' /\ Closed'
  BY <1>1, <1>7 DEF Inv, Counted, Gone, Begun, Closed
<1>14. RefsAccount'
  <2>1. nIn' = nIn + One("leave" # "out") - One(pc[c] # "out")
    BY <1>1, CallerMoves DEF Inv
  <2>2. nIn' = nIn
    BY <1>3, <2>1, Numbers DEF One
  <2>3. refs' = One(~destroyed') + One(PollerHolds') + nIn'
    BY <1>1, <1>7, <2>2, Balance DEF One
  <2> QED BY <2>3 DEF RefsAccount, nIn
<1> QED BY <1>8, <1>10, <1>11, <1>12, <1>13, <1>14 DEF Inv

LEMMA PluckFoundInv ==
    ASSUME PluckQueueConstants, Inv, NEW c \in Callers, PluckFound(c)
    PROVE  Inv'
<1>1. /\ AtTop(c) /\ LeavePoller(c) /\ Return(c, "event") /\ Find(c) # 0
      /\ completed' = RemoveAt(completed, Find(c))
      /\ UNCHANGED <<pending, shutdownCalled, shutdown>>
      /\ UNCHANGED kickedWithoutPoller
  BY DEF PluckFound
<1>2. completed \in Seq(Ops) /\ kickedWithoutPoller \in BOOLEAN
  BY DEF Inv, TypeOK
<1>3. Find(c) \in DOMAIN completed
  BY <1>1, <1>2, FindFacts
<1>4. completed' \in Seq(Ops) /\ ToSet(completed') \subseteq ToSet(completed)
  BY <1>1, <1>2, <1>3, RemoveAtFacts
<1>5. ~destroyed
  <2>1. completed # <<>>
    BY <1>3
  <2> QED BY <2>1 DEF Inv, Gone
<1> QED BY <1>1, <1>2, <1>4, <1>5, LeaveInv

LEMMA PluckEmptyInv ==
    ASSUME PluckQueueConstants, Inv, NEW c \in Callers,
           PluckShutdown(c) \/ PluckTooMany(c) \/ PluckTimeout(c)
    PROVE  Inv'
<1>1. PICK r \in {"shutdown", "timeout"} :
         /\ AtTop(c) /\ LeavePoller(c) /\ Return(c, r) /\ Find(c) = 0
         /\ UNCHANGED cq
         /\ r = "shutdown" => shutdown
  BY DEF PluckShutdown, PluckTooMany, PluckTimeout
<1>2. kickedWithoutPoller' \in BOOLEAN
  <2>1. kickedWithoutPoller \in BOOLEAN
    BY DEF Inv, TypeOK
  <2>2. \/ kickedWithoutPoller' = kickedWithoutPoller
        \/ kickedWithoutPoller' = (kickedWithoutPoller /\ ~firstLoop[c])
    BY DEF PluckShutdown, PluckTooMany, PluckTimeout
  <2> QED BY <2>1, <2>2, Zenon
<1>3. completed \in Seq(Ops) /\ (destroyed => completed = <<>>)
  BY DEF Inv, TypeOK, Gone
<1>4. ~Has(c)
  BY <1>1, <1>3, FindFacts
<1>5. UNCHANGED <<completed, pending, shutdownCalled, shutdown>>
  BY <1>1 DEF cq
<1> QED BY <1>1, <1>2, <1>3, <1>4, <1>5, LeaveInv

LEMMA PluckWaitsInv ==
    ASSUME PluckQueueConstants, Inv, NEW c \in Callers, PluckWaits(c)
    PROVE  Inv'
<1>1. /\ AtTop(c) /\ Find(c) = 0 /\ ~shutdown
      /\ Len(DelPlucker(pluckers, c)) < MaxPluckers
      /\ workers' = Append(RemoveFirst(workers, c), c) /\ kicked' = kicked \ {c}
      /\ pluckers' = Append(DelPlucker(pluckers, c), c)
      /\ kickedWithoutPoller' = FALSE
      /\ pc' = [pc EXCEPT ![c] = "wait"]
      /\ firstLoop' = [firstLoop EXCEPT ![c] = FALSE]
      /\ UNCHANGED <<completed, pending, shutdownCalled, shutdown, op, tag, deadline>>
      /\ UNCHANGED <<ret, shutdownDone, refs, destroyed>>
  BY DEF PluckWaits, cq, life
<1>2. pc'[c] = "wait" /\ \A b \in Callers : b # c => pc'[b] = pc[b]
  BY <1>1 DEF Inv, TypeOK
<1> DEFINE W == {b \in Callers : b # c /\ pc[b] = "wait"}
           w == RemoveFirst(workers, c)
           p == DelPlucker(pluckers, c)
<1>3. /\ w \in Seq(Callers) /\ IsInjective(w) /\ ToSet(w) = W
      /\ p \in Seq(Callers) /\ IsInjective(p) /\ ToSet(p) = W
      /\ kicked' \subseteq W /\ pc[c] # "out" /\ c \notin W
  BY <1>1, ListsAtTop
<1>4. W \cup {c} = {b \in Callers : pc'[b] = "wait"}
  BY <1>2
<1>5. workers' = Append(w, c) /\ pluckers' = Append(p, c) /\ Len(p) < MaxPluckers
  BY <1>1
<1> HIDE DEF W, w, p
<1>6. /\ workers' \in Seq(Callers) /\ IsInjective(workers') /\ ToSet(workers') = W \cup {c}
      /\ workers' # <<>>
  BY <1>3, <1>5, AppendFacts
<1>7. /\ pluckers' \in Seq(Callers) /\ IsInjective(pluckers') /\ ToSet(pluckers') = W \cup {c}
      /\ Len(pluckers') = Len(p) + 1
  BY <1>3, <1>5, AppendFacts
<1>8. Len(pluckers') <= MaxPluckers
  <2>1. Len(p) \in Nat /\ MaxPluckers \in Nat
    BY <1>3 DEF PluckQueueConstants
  <2> QED BY <1>5, <1>7, <2>1
<1>9. TypeOK'
  <2>1. pc' \in [Callers -> {"out", "enter", "wait", "leave"}]
    BY <1>1 DEF Inv, TypeOK
  <2>2. firstLoop' \in [Callers -> BOOLEAN]
    BY <1>1, Zenon DEF Inv, TypeOK
  <2>3. kicked' \subseteq ToSet(workers')
    BY <1>3, <1>6
  <2> QED BY <1>1, <1>4, <1>6, <1>7, <1>8, <2>1, <2>2, <2>3 DEF Inv, TypeOK
<1>10. \A b \in Callers : Has(b)' <=> Has(b)
  BY <1>1 DEF Has
<1>11. TagsApart'
  BY <1>1, <1>2, <1>3 DEF Inv, TagsApart
<1>12. Kicked'
  <2>1. ~Has(c)
    BY <1>1, FindFacts DEF Inv, TypeOK
  <2> QED BY <1>1, <1>2, <1>10, <2>1 DEF Inv, Kicked
<1>13. Over'
  BY <1>1, <1>10 DEF Inv, Over
<1>14. Counted' /\ Gone' /\ Closed'
  BY <1>1 DEF Inv, Counted, Gone, Begun, Closed
<1>15. RefsAccount'
  <2>1. nIn' = nIn + One("wait" # "out") - One(pc[c] # "out")
    BY <1>1, CallerMoves DEF Inv
  <2>2. nIn' = nIn
    BY <1>3, <2>1, Numbers DEF One
  <2>3. PollerHolds /\ PollerHolds'
    BY <1>1 DEF PollerHolds
  <2>4. refs' = One(~destroyed') + One(PollerHolds') + nIn'
    BY <1>1, <2>2, <2>3, Balance DEF One
  <2> QED BY <2>4 DEF RefsAccount, nIn
<1> QED BY <1>9, <1>11, <1>12, <1>13, <1>14, <1>15 DEF Inv

-----------------------------------------------------------------------------
(* The queue                                                               *)

LEMMA NextInv ==
    ASSUME PluckQueueConstants, Inv, [Next]_vars
    PROVE  Inv'
<1>1. CASE UNCHANGED vars
  <2>1. /\ UNCHANGED <<completed, pending, shutdownCalled, shutdown, workers, kicked>>
        /\ UNCHANGED <<kickedWithoutPoller, pluckers, op, pc, tag, firstLoop, deadline>>
        /\ UNCHANGED <<ret, shutdownDone, refs, destroyed>>
    BY <1>1 DEF vars, cq, poller, call, life
  <2>2. TypeOK'
    BY <2>1 DEF Inv, TypeOK
  <2>3. TagsApart' /\ Kicked' /\ Over'
    BY <2>1, CallsKept
  <2>4. Counted' /\ Closed' /\ Gone' /\ RefsAccount'
    BY <2>1 DEF Inv, Counted, Closed, Gone, Begun, RefsAccount, PollerHolds, Inside
  <2> QED BY <2>2, <2>3, <2>4 DEF Inv
<1>2. CASE \E o \in Ops : BeginOp(o) \/ EndOp(o)
  BY <1>2, BeginOpInv, EndOpInv
<1>3. CASE Shutdown \/ PollsetShutdownDone \/ Destroy
  BY <1>3, ShutdownInv, PollsetShutdownDoneInv, DestroyInv
<1>4. CASE \E c \in Callers, t \in Tags, d \in {"inf", "finite"} : CallPluck(c, t, d)
  BY <1>4, CallPluckInv
<1>5. CASE \E c \in Callers : DeadlinePasses(c)
  BY <1>5, DeadlinePassesInv
<1>6. CASE \E c \in Callers : Pluck(c)
  BY <1>6, PluckFoundInv, PluckEmptyInv, PluckWaitsInv, ReturnPluckInv DEF Pluck
<1> QED BY <1>1, <1>2, <1>3, <1>4, <1>5, <1>6 DEF Next

\* What the invariant says about the queue.
LEMMA InvGives ==
    ASSUME PluckQueueConstants, Inv
    PROVE  TypeOK /\ SleeperKicked /\ NothingAfterShutdown /\ FreedWhenUnused
<1>1. \A c \in Callers : Find(c) # 0 <=> Has(c)
  BY FindFacts DEF Inv, TypeOK
<1>2. SleeperKicked
  BY <1>1 DEF SleeperKicked, Inv, Kicked
<1>3. NothingAfterShutdown
  <2>1. shutdown => Begun = {}
    BY Balance, Numbers DEF One
  <2> QED BY <1>1, <2>1 DEF NothingAfterShutdown, Inv, Over, Begun
<1>4. FreedWhenUnused
  <2>1. /\ refs = One(~destroyed) + One(PollerHolds) + nIn /\ nIn \in Nat
        /\ nIn = 0 <=> Inside = {}
    BY Balance, Numbers
  <2>2. (refs = 0 => destroyed /\ Inside = {}) /\ (Inside # {} => refs > 0)
    BY <2>1 DEF One
  <2> QED BY <2>1, <2>2 DEF FreedWhenUnused, Inv, Gone, Closed
<1> QED BY <1>2, <1>3, <1>4 DEF Inv

\* Every behaviour of the queue keeps the invariant, whatever the operations,
\* their tags, the callers and the room for pluckers.
THEOREM Invariance == PluckQueueConstants /\ Spec => []Inv
<1> SUFFICES ASSUME PluckQueueConstants PROVE Spec => []Inv
  OBVIOUS
<1>1. Init => Inv
  BY InitInv
<1>2. Inv /\ [Next]_vars => Inv'
  BY NextInv
<1> QED BY <1>1, <1>2, PTL DEF Spec
=============================================================================
