----------------------------- MODULE MpscqProofs -----------------------------
(***************************************************************************)
(* Proofs about Mpscq: the list stays unbroken for any number of nodes,    *)
(* producers and consumers, and the queue implements MpscqSpec.            *)
(***************************************************************************)
EXTENDS Mpscq, TLAPS

USE MpscqAssumption

-----------------------------------------------------------------------------
(* The list as a function of its positions                                 *)

\* Every position of the list holds a node, and no two hold the same one.
LEMMA Positions ==
    ASSUME TypeOK, ListUnbroken
    PROVE  /\ Size \in Nat \ {0}
           /\ \A i \in 1..Size : At(i) \in AllNodes
           /\ \A i, j \in 1..Size : At(i) = At(j) => i = j
           /\ \A i \in 1..Size : At(i) = Stub <=> i = stubAt
<1>1. Size \in Nat \ {0}
  BY DEF TypeOK, ListUnbroken, Size
<1>2. \A i \in 1..Len(fifo) : fifo[i] \in Nodes
  BY DEF TypeOK
<1>3. \A i \in 1..Size : At(i) = Stub <=> i = stubAt
  BY <1>1, <1>2 DEF TypeOK, Size, At
<1>4. \A i \in 1..Size : At(i) \in AllNodes
  BY <1>1, <1>2 DEF TypeOK, Size, At, AllNodes
<1>5. \A i, j \in 1..Size : At(i) = At(j) => i = j
  BY <1>1, <1>2, <1>3 DEF TypeOK, Size, At, ListUnbroken
<1> QED BY <1>1, <1>3, <1>4, <1>5

LEMMA InitInv == Init => Inv
<1> SUFFICES ASSUME Init PROVE Inv
  OBVIOUS
<1>1. TypeOK
  BY DEF Init, TypeOK, AllNodes, Pushers
<1>2. ListUnbroken
  BY DEF Init, ListUnbroken, Size, At, Gap, AllNodes, Pushers
<1>3. ConsumerKnows
  BY DEF Init, ConsumerKnows, Pushers
<1> QED BY <1>1, <1>2, <1>3 DEF Inv

-----------------------------------------------------------------------------
(* The three ways in which the list changes                                *)

\* A pusher appends the node n, which was not in the list.
LEMMA AppendKeepsList ==
    ASSUME Inv, NEW p \in Pushers, NEW n \in AllNodes, Exchange(p, n),
           NEW N \in Nat \ {0}, Size = N, Size' = N + 1,
           \A i \in 1..N : At(i)' = At(i) /\ At(i) # n,
           At(N + 1)' = n, tail' = tail,
           \A i, j \in 1..Len(fifo') : fifo'[i] = fifo'[j] => i = j
    PROVE  ListUnbroken'
<1> USE DEF Inv
<1>1. \A i, j \in 1..N : At(i) = At(j) => i = j
  BY Positions
<1>1a. \A i \in 1..N : At(i) \in AllNodes
  BY Positions
<1>2. /\ tail = At(1) /\ head = At(N) /\ next[head] = Null
      /\ \A i \in 1..(N - 1) :
            \/ next[At(i)] = At(i + 1)
            \/ next[At(i)] = Null /\ \E q \in Pushers : Gap(i, q)
      /\ \A q \in Pushers : node[q] # Null =>
            /\ \E i \in 1..(N - 1) : Gap(i, q) /\ next[At(i)] = Null
            /\ \A r \in Pushers : node[r] = node[q] => r = q
  BY DEF ListUnbroken
<1>3. /\ node[p] = Null /\ head' = n /\ next' = [next EXCEPT ![n] = Null]
      /\ node' = [node EXCEPT ![p] = n] /\ prev' = [prev EXCEPT ![p] = head]
  BY DEF Exchange
<1>4. /\ next \in [AllNodes -> AllNodes \cup {Null}]
      /\ node \in [Pushers -> AllNodes \cup {Null}]
      /\ prev \in [Pushers -> AllNodes \cup {Null}]
  BY DEF TypeOK
<1>5. Size' - 1 = N /\ Size' >= 1 /\ tail' = At(1)' /\ head' = At(N + 1)'
  BY <1>1, <1>2, <1>3
<1>6. next'[head'] = Null
  BY <1>3, <1>4
<1>7. ASSUME NEW q \in Pushers, q # p, NEW i \in 1..(N - 1), Gap(i, q)
      PROVE  Gap(i, q)'
  BY <1>1, <1>3, <1>4, <1>7 DEF Gap
<1>8. Gap(N, p)'
  BY <1>1, <1>2, <1>3, <1>4 DEF Gap
<1>9. \A i \in 1..N : next'[At(i)'] = next[At(i)]
  BY <1>1, <1>1a, <1>3, <1>4
<1>10. ASSUME NEW i \in 1..N
       PROVE  \/ next'[At(i)'] = At(i + 1)'
              \/ next'[At(i)'] = Null /\ \E q \in Pushers : Gap(i, q)'
  <2>1. CASE i = N
    BY <2>1, <1>1, <1>2, <1>8, <1>9
  <2>2. CASE i # N
    <3>1. i \in 1..(N - 1) /\ i + 1 \in 1..N
      BY <2>2, <1>1
    <3>2. CASE next[At(i)] = At(i + 1)
      BY <3>1, <3>2, <1>9
    <3>3. CASE next[At(i)] = Null /\ \E q \in Pushers : Gap(i, q)
      <4>1. PICK q \in Pushers : Gap(i, q)
        BY <3>3
      <4>2. q # p
        BY <4>1, <3>1, <1>1a, <1>3 DEF Gap, AllNodes
      <4> QED BY <4>1, <4>2, <3>1, <3>3, <1>7, <1>9
    <3> QED BY <3>1, <3>2, <3>3, <1>2
  <2> QED BY <2>1, <2>2
<1>11. ASSUME NEW q \in Pushers, node'[q] # Null
       PROVE  /\ \E i \in 1..N : Gap(i, q)' /\ next'[At(i)'] = Null
              /\ \A r \in Pushers : node'[r] = node'[q] => r = q
  <2>1. \A r \in Pushers : r # p /\ node[r] # Null => node[r] # n
    BY <1>1, <1>2 DEF Gap
  <2>2. CASE q = p
    <3>1. \A r \in Pushers : node'[r] = node'[q] => r = q
      BY <2>1, <2>2, <1>3, <1>4, <1>11
    <3> QED BY <2>2, <3>1, <1>1, <1>2, <1>8, <1>9
  <2>3. CASE q # p
    <3>1. node'[q] = node[q] /\ node[q] # Null
      BY <2>3, <1>3, <1>4, <1>11
    <3>2. PICK i \in 1..(N - 1) : Gap(i, q) /\ next[At(i)] = Null
      BY <3>1, <1>2
    <3>3. i \in 1..N
      BY <1>1
    <3>4. \A r \in Pushers : node'[r] = node'[q] => r = q
      BY <2>1, <3>1, <1>2, <1>3, <1>4
    <3> QED BY <2>3, <3>2, <3>3, <3>4, <1>7, <1>9
  <2> QED BY <2>2, <2>3
<1>12. head' = At(Size)'
  BY <1>5 DEF At
<1> QED
  BY <1>12, <1>5, <1>6, <1>10, <1>11 DEF ListUnbroken

\* A next that is not null leads to the second position of the list.
LEMMA NextOfTail ==
    ASSUME Inv, next[tail] # Null
    PROVE  Size >= 2 /\ next[tail] = At(2)
<1>1. Size \in Nat \ {0}
  BY Positions DEF Inv
<1>2. Size # 1
  BY DEF Inv, ListUnbroken
<1> QED BY <1>1, <1>2 DEF Inv, ListUnbroken

\* The consumer moves tail_ to the second position.
LEMMA AdvanceKeepsList ==
    ASSUME Inv, next[tail] # Null, tail' = next[tail],
           UNCHANGED <<head, next, node, prev>>,
           NEW N \in Nat \ {0, 1}, Size = N, Size' = N - 1,
           \A i \in 1..(N - 1) : At(i)' = At(i + 1),
           \A i, j \in 1..Len(fifo') : fifo'[i] = fifo'[j] => i = j
    PROVE  ListUnbroken'
<1> USE DEF Inv
<1>1. \A i, j \in 1..N : At(i) = At(j) => i = j
  BY Positions
<1>2. /\ head = At(N) /\ next[head] = Null
      /\ \A i \in 1..(N - 1) :
            \/ next[At(i)] = At(i + 1)
            \/ next[At(i)] = Null /\ \E q \in Pushers : Gap(i, q)
      /\ \A q \in Pushers : node[q] # Null =>
            /\ \E i \in 1..(N - 1) : Gap(i, q) /\ next[At(i)] = Null
            /\ \A r \in Pushers : node[r] = node[q] => r = q
  BY DEF ListUnbroken
<1>3. tail = At(1) /\ next[tail] = At(2)
  BY NextOfTail DEF ListUnbroken
<1>4. Size' >= 1 /\ tail' = At(1)' /\ head' = At(N - 1)' /\ next'[head'] = Null
  BY <1>2, <1>3
<1>5. head' = At(Size)'
  BY <1>4 DEF At
<1>6. \A i \in 1..(N - 2), q \in Pushers : Gap(i, q)' <=> Gap(i + 1, q)
  BY DEF Gap
<1>7. ASSUME NEW i \in 1..(N - 2)
      PROVE  \/ next'[At(i)'] = At(i + 1)'
             \/ next'[At(i)'] = Null /\ \E q \in Pushers : Gap(i, q)'
  <2>1. i + 1 \in 1..(N - 1) /\ i \in 1..(N - 1)
    OBVIOUS
  <2> QED BY <2>1, <1>2, <1>6
<1>8. ASSUME NEW q \in Pushers, node'[q] # Null
      PROVE  /\ \E i \in 1..(N - 2) : Gap(i, q)' /\ next'[At(i)'] = Null
             /\ \A r \in Pushers : node'[r] = node'[q] => r = q
  <2>1. PICK k \in 1..(N - 1) : Gap(k, q) /\ next[At(k)] = Null
    BY <1>2, <1>8
  <2>2. k # 1
    BY <2>1, <1>3
  <2>3. PICK i \in 1..(N - 2) : k = i + 1
    BY <2>2
  <2>4. Gap(i, q)' /\ next'[At(i)'] = Null
    BY <2>1, <2>3, <1>6
  <2> QED BY <2>4, <1>2, <1>8
<1> QED
  BY <1>4, <1>5, <1>7, <1>8 DEF ListUnbroken

\* A pusher closes its gap.
LEMMA LinkKeepsList ==
    ASSUME Inv, NEW p \in Pushers, Link(p)
    PROVE  ListUnbroken'
<1> USE DEF Inv
<1> PICK N \in Nat \ {0} : N = Size
  BY Positions
<1>1. \A i, j \in 1..N : At(i) = At(j) => i = j
  BY Positions
<1>2. \A i \in 1..N : At(i) \in AllNodes
  BY Positions
<1>3. /\ tail = At(1) /\ head = At(N) /\ next[head] = Null
      /\ \A i \in 1..(N - 1) :
            \/ next[At(i)] = At(i + 1)
            \/ next[At(i)] = Null /\ \E q \in Pushers : Gap(i, q)
      /\ \A q \in Pushers : node[q] # Null =>
            /\ \E i \in 1..(N - 1) : Gap(i, q) /\ next[At(i)] = Null
            /\ \A r \in Pushers : node[r] = node[q] => r = q
  BY DEF ListUnbroken
<1>4. /\ node[p] # Null /\ next' = [next EXCEPT ![prev[p]] = node[p]]
      /\ node' = [node EXCEPT ![p] = Null] /\ prev' = [prev EXCEPT ![p] = Null]
      /\ UNCHANGED <<head, tail, fifo, stubAt>>
  BY DEF Link
<1>5. /\ next \in [AllNodes -> AllNodes \cup {Null}]
      /\ node \in [Pushers -> AllNodes \cup {Null}]
      /\ prev \in [Pushers -> AllNodes \cup {Null}]
  BY DEF TypeOK
<1>6. Size' = N /\ \A i \in 1..N : At(i)' = At(i)
  BY <1>4 DEF Size, At
<1>7. PICK k \in 1..(N - 1) : Gap(k, p) /\ next[At(k)] = Null
  BY <1>3, <1>4
<1>8. /\ next'[At(k)] = At(k + 1)
      /\ \A i \in 1..N : i # k => next'[At(i)] = next[At(i)]
  BY <1>1, <1>2, <1>4, <1>5, <1>7 DEF Gap
<1>9. \A q \in Pushers, i \in 1..(N - 1) : q # p /\ Gap(i, q) => Gap(i, q)'
  BY <1>4, <1>5, <1>6 DEF Gap
<1>10. \A q \in Pushers, i \in 1..(N - 1) :
          q # p /\ Gap(i, q) => i # k
  BY <1>1, <1>3, <1>4, <1>7 DEF Gap
<1>11. head' = At(Size)' /\ tail' = At(1)' /\ next'[head'] = Null
  <2>1. next'[head'] = Null
    BY <1>3, <1>4, <1>8
  <2> QED BY <2>1, <1>3, <1>4, <1>6 DEF At
<1>12. ASSUME NEW i \in 1..(N - 1)
       PROVE  \/ next'[At(i)'] = At(i + 1)'
              \/ next'[At(i)'] = Null /\ \E q \in Pushers : Gap(i, q)'
  <2>1. i \in 1..N /\ i + 1 \in 1..N
    OBVIOUS
  <2>2. CASE i = k
    BY <2>1, <2>2, <1>6, <1>8
  <2>3. CASE i # k /\ next[At(i)] = At(i + 1)
    BY <2>1, <2>3, <1>6, <1>8
  <2>4. CASE i # k /\ next[At(i)] = Null /\ \E q \in Pushers : Gap(i, q)
    <3>1. PICK q \in Pushers : Gap(i, q)
      BY <2>4
    <3>2. q # p
      BY <2>1, <2>4, <3>1, <1>1, <1>7 DEF Gap
    <3> QED BY <2>1, <2>4, <3>1, <3>2, <1>6, <1>8, <1>9
  <2> QED BY <2>2, <2>3, <2>4, <1>3
<1>13. ASSUME NEW q \in Pushers, node'[q] # Null
       PROVE  /\ \E i \in 1..(N - 1) : Gap(i, q)' /\ next'[At(i)'] = Null
              /\ \A r \in Pushers : node'[r] = node'[q] => r = q
  <2>1. q # p /\ node'[q] = node[q]
    BY <1>4, <1>5, <1>13
  <2>2. PICK i \in 1..(N - 1) : Gap(i, q) /\ next[At(i)] = Null
    BY <2>1, <1>3, <1>13
  <2>3. Gap(i, q)' /\ next'[At(i)'] = Null
    BY <2>1, <2>2, <1>6, <1>8, <1>9, <1>10
  <2>4. \A r \in Pushers : node'[r] = node'[q] => r = q
    BY <2>1, <1>3, <1>4, <1>5, <1>13
  <2>5. 1 \in 1..N /\ i + 1 \in 1..N /\ i + 1 # 1
    BY <1>2
  <2> QED BY <2>3, <2>4, <2>5
<1>14. \A i, j \in 1..Len(fifo') : fifo'[i] = fifo'[j] => i = j
  BY <1>4 DEF ListUnbroken
<1> QED
  BY <1>6, <1>11, <1>12, <1>13, <1>14 DEF ListUnbroken

-----------------------------------------------------------------------------
(* Every action keeps the invariant                                        *)

LEMMA PushExchangeInv ==
    ASSUME Inv, NEW p \in Producers, NEW n \in Nodes, PushExchange(p, n)
    PROVE  Inv'
<1> USE DEF Inv
<1> p \in Pushers /\ n \in AllNodes /\ n # Stub /\ p # Stub
  BY DEF Pushers, AllNodes
<1> PICK N \in Nat \ {0} : N = Size
  BY Positions
<1>1. /\ Exchange(p, n) /\ fifo' = Append(fifo, n)
      /\ UNCHANGED <<tail, stubAt, mu, pc, op, got>>
  BY DEF PushExchange, calls
<1>2. /\ fifo \in Seq(Nodes) /\ stubAt \in 0..(Len(fifo) + 1)
      /\ \A i \in 1..Len(fifo) : fifo[i] # n
  BY DEF TypeOK, PushExchange, Range
<1>3. /\ fifo' \in Seq(Nodes) /\ Len(fifo') = Len(fifo) + 1
      /\ \A i \in 1..Len(fifo) : fifo'[i] = fifo[i]
      /\ fifo'[Len(fifo) + 1] = n
  BY <1>1, <1>2
<1>4. TypeOK'
  BY <1>1, <1>2, <1>3 DEF TypeOK, Exchange
<1>5. ListUnbroken'
  <2>1. Size' = N + 1
    BY <1>1, <1>2, <1>3 DEF Size
  <2>2. \A i \in 1..N : At(i)' = At(i) /\ At(i) # n
    BY <1>1, <1>2, <1>3 DEF Size, At
  <2>3. At(N + 1)' = n
    BY <1>1, <1>2, <1>3 DEF Size, At
  <2>4. \A i, j \in 1..Len(fifo') : fifo'[i] = fifo'[j] => i = j
    BY <1>2, <1>3 DEF ListUnbroken
  <2> QED BY <2>1, <2>2, <2>3, <2>4, <1>1, AppendKeepsList
<1>6. ConsumerKnows'
  BY <1>1 DEF ConsumerKnows, Exchange, TypeOK
<1> QED BY <1>4, <1>5, <1>6

LEMMA PushLinkInv ==
    ASSUME Inv, NEW p \in Producers, PushLink(p)
    PROVE  Inv'
<1> USE DEF Inv
<1> p \in Pushers /\ p # Stub
  BY DEF Pushers
<1>1. Link(p) /\ UNCHANGED <<mu, pc, op, got>>
  BY DEF PushLink, calls
<1>2. TypeOK'
  BY <1>1 DEF TypeOK, Link
<1>3. ListUnbroken'
  BY <1>1, LinkKeepsList
<1>4. ConsumerKnows'
  BY <1>1, <1>2 DEF ConsumerKnows, Link, TypeOK, AllNodes
<1> QED BY <1>2, <1>3, <1>4

\* Steps that leave the list alone keep it unbroken.
LEMMA SameListInv ==
    ASSUME Inv, UNCHANGED lists, TypeOK', ConsumerKnows'
    PROVE  Inv'
<1>1. Size' = Size /\ head' = head /\ tail' = tail /\ next' = next
      /\ node' = node /\ prev' = prev /\ fifo' = fifo
  BY DEF lists, Size
<1>2. ASSUME NEW i PROVE At(i)' = At(i)
  BY DEF lists, At
<1>3. ASSUME NEW i, NEW p PROVE Gap(i, p)' <=> Gap(i, p)
  BY <1>1, <1>2 DEF Gap
<1>4. head' = At(Size)'
  BY DEF lists, At, Size, Inv, ListUnbroken
<1>5. Size >= 1 /\ tail' = At(1)' /\ next'[head'] = Null
      /\ \A i, j \in 1..Len(fifo') : fifo'[i] = fifo'[j] => i = j
  BY <1>1, <1>2 DEF Inv, ListUnbroken
<1>6. \A i \in 1..(Size - 1) :
          \/ next'[At(i)'] = At(i + 1)'
          \/ next'[At(i)'] = Null /\ \E p \in Pushers : Gap(i, p)'
  BY <1>1, <1>2, <1>3 DEF Inv, ListUnbroken
<1>7. \A p \in Pushers : node'[p] # Null =>
          /\ \E i \in 1..(Size - 1) : Gap(i, p)' /\ next'[At(i)'] = Null
          /\ \A q \in Pushers : node'[q] = node'[p] => q = p
  BY <1>1, <1>2, <1>3 DEF Inv, ListUnbroken
<1> QED BY <1>1, <1>4, <1>5, <1>6, <1>7 DEF Inv, ListUnbroken

LEMMA CallInv ==
    ASSUME Inv, NEW c \in Consumers,
           \/ \E o \in {"Pop", "TryPop"} : Call(c, o)
           \/ Lock(c)
           \/ TryLockFails(c)
    PROVE  Inv'
<1>1. UNCHANGED lists
  BY DEF Call, Lock, TryLockFails
<1>2. TypeOK'
  BY <1>1 DEF Inv, TypeOK, lists, Call, Lock, TryLockFails
<1>3. ConsumerKnows'
  <2>1. CASE \E o \in {"Pop", "TryPop"} : Call(c, o)
    BY <2>1 DEF Inv, TypeOK, ConsumerKnows, Call, lists
  <2>2. CASE Lock(c)
    BY <2>2 DEF Inv, TypeOK, ConsumerKnows, Lock, lists
  <2>3. CASE TryLockFails(c)
    BY <2>3 DEF Inv, TypeOK, ConsumerKnows, TryLockFails, lists
  <2> QED BY <2>1, <2>2, <2>3
<1> QED BY <1>1, <1>2, <1>3, SameListInv

\* PopAndCheckEnd returns a node: tail_ moves on, whatever its point.
LEMMA PopTailInv ==
    ASSUME Inv, NEW c \in Consumers, mu = c, tail # Stub, pc # "link", PopTail(c)
    PROVE  /\ Inv'
           /\ fifo # <<>> /\ tail = Head(fifo)
           /\ tail \notin {node[p] : p \in Pushers}
<1> USE DEF Inv
<1> PICK N \in Nat \ {0} : N = Size
  BY Positions
<1>1. /\ next[tail] # Null /\ tail' = next[tail] /\ fifo' = Tail(fifo)
      /\ stubAt' = IF stubAt = 0 THEN 0 ELSE stubAt - 1
      /\ mu' = Null /\ pc' = "start"
      /\ op' = [op EXCEPT ![c] = "none"] /\ got' = [got EXCEPT ![c] = tail]
      /\ UNCHANGED <<head, next, node, prev>>
  BY DEF PopTail, Return
<1>2. N >= 2 /\ next[tail] = At(2) /\ tail = At(1)
  BY <1>1, NextOfTail DEF ListUnbroken
<1>3. fifo \in Seq(Nodes) /\ stubAt \in 0..(Len(fifo) + 1) /\ stubAt # 1
  BY <1>2, Positions DEF TypeOK
<1>4. fifo # <<>> /\ tail = Head(fifo) /\ Len(fifo) >= 1
  BY <1>2, <1>3 DEF Size, At
<1>5. /\ fifo' \in Seq(Nodes) /\ Len(fifo') = Len(fifo) - 1
      /\ \A i \in 1..(Len(fifo) - 1) : fifo'[i] = fifo[i + 1]
  BY <1>1, <1>3, <1>4
<1>6. TypeOK'
  <2>1. stubAt' \in 0..(Len(fifo') + 1)
    BY <1>1, <1>3, <1>4, <1>5
  <2>2. tail' \in AllNodes /\ tail \in Nodes
    BY <1>1 DEF TypeOK, AllNodes
  <2> QED BY <2>1, <2>2, <1>1, <1>5 DEF TypeOK
<1>7. ListUnbroken'
  <2> PICK L \in Nat : L = Len(fifo) /\ L >= 1 /\ Len(fifo') = L - 1
    BY <1>3, <1>4, <1>5
  <2>0. \/ stubAt = 0 /\ stubAt' = 0
        \/ stubAt \in 2..(L + 1) /\ stubAt' = stubAt - 1
    BY <1>1, <1>3
  <2>1. Size' = N - 1
    BY <2>0 DEF Size
  <2>2. \A i \in 1..(N - 1) : At(i)' = At(i + 1)
    <3>1. \A i \in 1..(L - 1) : fifo'[i] = fifo[i + 1]
      BY <1>5
    <3>2. CASE stubAt = 0 /\ stubAt' = 0
      BY <3>1, <3>2 DEF Size, At
    <3>3. CASE stubAt \in 2..(L + 1) /\ stubAt' = stubAt - 1
      <4>1. N = L + 1
        BY <3>3 DEF Size
      <4> SUFFICES ASSUME NEW i \in 1..L PROVE At(i)' = At(i + 1)
        BY <4>1
      <4>2. CASE i < stubAt - 1
        BY <3>1, <3>3, <4>2 DEF At
      <4>3. CASE i = stubAt - 1
        BY <3>3, <4>3 DEF At
      <4>4. CASE i > stubAt - 1
        BY <3>1, <3>3, <4>4 DEF At
      <4> QED BY <3>3, <4>2, <4>3, <4>4
    <3> QED BY <2>0, <3>2, <3>3
  <2>3. \A i, j \in 1..Len(fifo') : fifo'[i] = fifo'[j] => i = j
    BY <1>4, <1>5 DEF ListUnbroken, TypeOK
  <2>4. N \in Nat \ {0, 1}
    BY <1>2
  <2> QED BY <2>1, <2>2, <2>3, <2>4, <1>1, AdvanceKeepsList
<1>8. ConsumerKnows'
  BY <1>1 DEF ConsumerKnows, TypeOK
<1>9. tail \notin {node[p] : p \in Pushers}
  <2> SUFFICES ASSUME NEW p \in Pushers, node[p] = tail PROVE FALSE
    OBVIOUS
  <2>1. node[p] # Null
    BY DEF TypeOK, AllNodes
  <2>2. PICK i \in 1..(N - 1) : node[p] = At(i + 1)
    BY <2>1 DEF ListUnbroken, Gap
  <2>3. At(i + 1) = At(1)
    BY <2>2, <1>2
  <2>4. \A k, l \in 1..N : At(k) = At(l) => k = l
    BY Positions
  <2>5. 1 \in 1..N /\ i + 1 \in 1..N /\ i + 1 # 1
    BY <1>2
  <2> QED BY <2>3, <2>4, <2>5
<1> QED BY <1>4, <1>6, <1>7, <1>8, <1>9

\* PopAndCheckEnd returns nullptr, or goes on after a load.
LEMMA QuietStepInv ==
    ASSUME Inv, NEW c \in Consumers, mu = c,
           \/ PopEmpty(c) \/ NoNext(c) \/ StillAdding(c) \/ LastNode(c)
           \/ StillAddingLast(c)
    PROVE  Inv'
<1>1. UNCHANGED lists
  BY DEF PopEmpty, NoNext, StillAdding, LastNode, StillAddingLast, NoNode
<1>2. /\ head' = head /\ tail' = tail /\ next' = next /\ node' = node
      /\ prev' = prev /\ fifo' = fifo /\ stubAt' = stubAt
  BY <1>1 DEF lists
<1>3. CASE NoNext(c) \/ LastNode(c)
  <2>1. /\ mu' = mu /\ op' = op /\ got' = got
        /\ \/ NoNext(c) /\ pc' = "head" /\ tail # Stub
           \/ pc' = "stub" /\ pc = "head" /\ tail = head
    BY <1>3 DEF NoNext, LastNode, Goto
  <2>2. TypeOK'
    BY <2>1, <1>2 DEF Inv, TypeOK
  <2>3. pc' = "stub" => stubAt = 0
    <3> SUFFICES ASSUME pc' = "stub" PROVE stubAt = 0
      OBVIOUS
    <3>1. pc = "head" /\ tail = head /\ tail # Stub
      BY <2>1 DEF Inv, ConsumerKnows
    <3>2. Size = 1
      <4>1. At(1) = At(Size)
        BY <3>1 DEF Inv, ListUnbroken
      <4>2. Size \in Nat \ {0} /\ \A i, j \in 1..Size : At(i) = At(j) => i = j
        BY Positions DEF Inv
      <4> QED BY <4>1, <4>2
    <3>3. stubAt # 1
      BY <3>1, <3>2, Positions DEF Inv, ListUnbroken
    <3> QED BY <3>2, <3>3 DEF Size, Inv, TypeOK
  <2>4. pc # "link" /\ pc' # "link"
    BY <2>1 DEF NoNext
  <2>5. ConsumerKnows'
    BY <2>1, <2>3, <2>4, <1>2 DEF Inv, ConsumerKnows
  <2> QED BY <2>2, <2>5, <1>1, SameListInv
<1>4. CASE PopEmpty(c) \/ StillAdding(c) \/ StillAddingLast(c)
  <2>1. \/ /\ mu' = Null /\ pc' = "start"
           /\ op' = [op EXCEPT ![c] = "none"]
           /\ got' = [got EXCEPT ![c] = Null]
        \/ /\ mu' = mu /\ pc' = "start" /\ op' = op /\ got' = got
    BY <1>4 DEF PopEmpty, StillAdding, StillAddingLast, NoNode, Return
  <2>2. pc # "link"
    BY <1>4 DEF PopEmpty, StillAdding, StillAddingLast
  <2>3. TypeOK'
    BY <2>1, <1>2 DEF Inv, TypeOK
  <2>4. ConsumerKnows'
    BY <2>1, <2>2, <1>2 DEF Inv, ConsumerKnows, TypeOK
  <2> QED BY <2>3, <2>4, <1>1, SameListInv
<1> QED BY <1>3, <1>4

LEMMA SkipStubInv ==
    ASSUME Inv, NEW c \in Consumers, mu = c, SkipStub(c)
    PROVE  Inv'
<1> USE DEF Inv
<1> PICK N \in Nat \ {0} : N = Size
  BY Positions
<1>1. /\ pc = "start" /\ tail = Stub /\ next[tail] # Null /\ tail' = next[tail]
      /\ stubAt' = 0 /\ pc' = "second"
      /\ UNCHANGED <<mu, op, got, head, next, node, prev, fifo>>
  BY DEF SkipStub, Goto
<1>2. N >= 2 /\ tail' = At(2) /\ tail = At(1)
  BY <1>1, NextOfTail DEF ListUnbroken
<1>3. stubAt = 1
  BY <1>1, <1>2, Positions
<1>4. Size' = N - 1 /\ \A i \in 1..(N - 1) : At(i)' = At(i + 1)
  BY <1>1, <1>3 DEF Size, At, TypeOK
<1>5. ListUnbroken'
  <2>1. N \in Nat \ {0, 1}
    BY <1>2
  <2>2. \A i, j \in 1..Len(fifo') : fifo'[i] = fifo'[j] => i = j
    BY <1>1 DEF ListUnbroken
  <2> QED BY <2>1, <2>2, <1>1, <1>4, AdvanceKeepsList
<1>6. tail' # Stub
  BY <1>2, <1>3, Positions
<1>7. TypeOK'
  BY <1>1 DEF TypeOK
<1>8. ConsumerKnows'
  BY <1>1, <1>6 DEF ConsumerKnows, TypeOK
<1> QED BY <1>5, <1>7, <1>8

LEMMA StubExchangeInv ==
    ASSUME Inv, NEW c \in Consumers, mu = c, StubExchange(c)
    PROVE  Inv'
<1> USE DEF Inv
<1> Stub \in Pushers /\ Stub \in AllNodes
  BY DEF Pushers, AllNodes
<1> PICK N \in Nat \ {0} : N = Size
  BY Positions
<1>1. /\ pc = "stub" /\ pc' = "link" /\ Exchange(Stub, Stub)
      /\ stubAt' = Len(fifo) + 1
      /\ UNCHANGED <<mu, op, got, tail, fifo>>
  BY DEF StubExchange, Goto
<1>2. stubAt = 0 /\ fifo \in Seq(Nodes) /\ N = Len(fifo)
  BY <1>1 DEF ConsumerKnows, TypeOK, Size
<1>3. Size' = N + 1 /\ At(N + 1)' = Stub
  BY <1>1, <1>2 DEF Size, At
<1>4. \A i \in 1..N : At(i)' = At(i) /\ At(i) # Stub
  BY <1>1, <1>2 DEF At
<1>5. ListUnbroken'
  <2>1. \A i, j \in 1..Len(fifo') : fifo'[i] = fifo'[j] => i = j
    BY <1>1 DEF ListUnbroken
  <2> QED BY <2>1, <1>1, <1>3, <1>4, AppendKeepsList
<1>6. TypeOK'
  BY <1>1, <1>2 DEF TypeOK, Exchange
<1>7. ConsumerKnows'
  BY <1>1 DEF ConsumerKnows, Exchange, TypeOK
<1> QED BY <1>5, <1>6, <1>7

LEMMA StubLinkInv ==
    ASSUME Inv, NEW c \in Consumers, mu = c, StubLink(c)
    PROVE  Inv'
<1> USE DEF Inv
<1> Stub \in Pushers
  BY DEF Pushers
<1>1. /\ pc = "link" /\ pc' = "last" /\ Link(Stub) /\ UNCHANGED <<mu, op, got>>
  BY DEF StubLink, Goto
<1>2. TypeOK'
  BY <1>1 DEF TypeOK, Link
<1>3. ListUnbroken'
  BY <1>1, LinkKeepsList
<1>4. ConsumerKnows'
  BY <1>1 DEF ConsumerKnows, Link, TypeOK
<1> QED BY <1>2, <1>3, <1>4

LEMMA PopStepInv ==
    ASSUME Inv, NEW c \in Consumers, PopStep(c)
    PROVE  Inv'
<1>1. mu = c
  BY DEF PopStep
<1>2. CASE PopFirst(c) \/ PopLast(c)
  <2>1. PopTail(c) /\ pc # "link" /\ tail # Stub
    BY <1>2 DEF PopFirst, PopLast, Inv, ConsumerKnows
  <2> QED BY <2>1, <1>1, PopTailInv
<1> QED
  BY <1>1, <1>2, QuietStepInv, SkipStubInv, StubExchangeInv, StubLinkInv
     DEF PopStep

LEMMA NextInv == Inv /\ [Next]_vars => Inv'
<1> SUFFICES ASSUME Inv, [Next]_vars PROVE Inv'
  OBVIOUS
<1>1. CASE Next
  BY <1>1, PushExchangeInv, PushLinkInv, CallInv, PopStepInv DEF Next
<1>2. CASE UNCHANGED vars
  <2>1. UNCHANGED lists /\ UNCHANGED <<mu, pc, op, got>>
    BY <1>2 DEF vars, calls
  <2>2. TypeOK' /\ ConsumerKnows'
    BY <2>1 DEF Inv, TypeOK, ConsumerKnows, lists
  <2> QED BY <2>1, <2>2, SameListInv
<1> QED BY <1>1, <1>2

-----------------------------------------------------------------------------
(* Theorems                                                                *)

\* For any number of nodes, producers and consumers, the list that Push and
\* PopAndCheckEnd share is never broken, the consumer's knowledge at each of
\* its points is right, and every variable keeps its type.
THEOREM Invariance == Spec => []Inv
<1> QED BY InitInv, NextInv, PTL DEF Spec

\* The list of Push and PopAndCheckEnd is never broken: every node between the
\* tail and the head is linked to the next one, or one producer is about to.
THEOREM Unbroken == Spec => []ListUnbroken
<1>1. Inv => ListUnbroken
  BY DEF Inv
<1> QED BY <1>1, Invariance, PTL

\* An empty queue always has head_ and tail_ at the stub, as its destructor
\* asserts and as the result of Push relies on.
THEOREM Drained == Spec => []DrainedIsPristine
<1>1. Inv => DrainedIsPristine
  <2> SUFFICES ASSUME Inv, fifo = <<>> PROVE head = Stub /\ tail = Stub
    BY DEF DrainedIsPristine
  <2>1. Len(fifo) = 0
    OBVIOUS
  <2>2. stubAt = 1 /\ Size = 1
    BY <2>1 DEF Inv, TypeOK, ListUnbroken, Size
  <2> QED BY <2>2 DEF Inv, ListUnbroken, At
<1> QED BY <1>1, Invariance, PTL

-----------------------------------------------------------------------------
(* Refinement                                                              *)

\* The claimed nodes whose Push has not returned, as the mapping defines them.
Pushing == {node[p] : p \in Producers} \ {Null}

\* When Pop finds nothing behind the stub, the queue is empty or its oldest
\* node is still being pushed.
LEMMA NothingAvailable ==
    ASSUME Inv, pc = "start", tail = Stub, next[Stub] = Null
    PROVE  fifo = <<>> \/ Head(fifo) \in Pushing
<1> SUFFICES ASSUME fifo # <<>> PROVE Head(fifo) \in Pushing
  OBVIOUS
<1>1. Size \in Nat \ {0} /\ stubAt = 1
  BY Positions DEF Inv, ListUnbroken
<1>2. fifo \in Seq(Nodes) /\ Len(fifo) >= 1 /\ Size = Len(fifo) + 1
  BY <1>1 DEF Inv, TypeOK, Size
<1>3. At(1) = Stub /\ At(2) = Head(fifo) /\ Head(fifo) \in Nodes
  BY <1>1, <1>2 DEF At
<1>4. PICK q \in Pushers : Gap(1, q)
  <2>1. 1 \in 1..(Size - 1) /\ next[At(1)] # At(2)
    BY <1>1, <1>2, <1>3
  <2> QED BY <2>1 DEF Inv, ListUnbroken
<1>5. node[q] = Head(fifo)
  BY <1>3, <1>4 DEF Gap
<1>6. q # Stub
  BY <1>3, <1>5 DEF Inv, ConsumerKnows, TypeOK, AllNodes, Pushers
<1> QED BY <1>3, <1>5, <1>6 DEF Pushing, Pushers

\* A node enters Pushing with its exchange and leaves it with its link.
LEMMA PushingChanges ==
    ASSUME Inv, NEW p \in Producers
    PROVE  /\ \A n \in Nodes : Exchange(p, n) => Pushing' = Pushing \cup {n}
           /\ Link(p) => Pushing' = Pushing \ {node[p]} /\ node[p] \in Pushing
           /\ node' = node => Pushing' = Pushing
           /\ Link(Stub) => Pushing' = Pushing
           /\ Exchange(Stub, Stub) => Pushing' = Pushing
<1>1. /\ node \in [Pushers -> AllNodes \cup {Null}] /\ p \in Pushers /\ p # Stub
      /\ \A q \in Producers : q \in Pushers /\ q # Stub
  BY DEF Inv, TypeOK, Pushers
<1>2. ASSUME NEW n \in Nodes, Exchange(p, n) PROVE Pushing' = Pushing \cup {n}
  <2>1. /\ node[p] = Null /\ node'[p] = n /\ n # Null
        /\ \A q \in Producers : q # p => node'[q] = node[q]
    BY <1>1, <1>2 DEF Exchange
  <2> QED BY <2>1 DEF Pushing
<1>3. ASSUME Link(p)
      PROVE  Pushing' = Pushing \ {node[p]} /\ node[p] \in Pushing
  <2>1. /\ node[p] # Null /\ node'[p] = Null
        /\ \A q \in Producers : q # p => node'[q] = node[q]
    BY <1>1, <1>3 DEF Link
  <2>2. \A q \in Producers : node[q] = node[p] => q = p
    BY <2>1, <1>1 DEF Inv, ListUnbroken
  <2> QED BY <2>1, <2>2 DEF Pushing
<1>4. ASSUME Link(Stub) \/ Exchange(Stub, Stub)
      PROVE  Pushing' = Pushing
  <2>1. \A q \in Producers : node'[q] = node[q]
    BY <1>1, <1>4 DEF Link, Exchange
  <2> QED BY <2>1 DEF Pushing
<1> QED BY <1>2, <1>3, <1>4 DEF Pushing

\* The queue implements its specification: nodes leave in the order of the
\* exchanges, each of them once, and Pop finds nothing only when the queue is
\* empty or its oldest node is still being pushed.
THEOREM Implements == Spec => AbstractSpec
<1> DEFINE Done == {node[p] : p \in Producers} \ {Null}
<1>1. Init => Abstract!Init
  BY DEF Init, Abstract!Init, Pushers
<1>2. Inv /\ [Next]_vars => [Abstract!Next]_(Abstract!vars)
  <2> SUFFICES ASSUME Inv, [Next]_vars PROVE [Abstract!Next]_(Abstract!vars)
    OBVIOUS
  <2> USE DEF Pushing
  <2>1. ASSUME NEW p \in Producers, NEW n \in Nodes, PushExchange(p, n)
        PROVE  Abstract!Claim(n) /\ UNCHANGED <<op, got>>
    <3>1. fifo' = Append(fifo, n) /\ UNCHANGED <<op, got>> /\ Done' = Done \cup {n}
      BY <2>1, PushingChanges DEF PushExchange, calls
    <3>2. n \notin Abstract!Range(fifo)
      BY <2>1 DEF PushExchange, Range, Abstract!Range
    <3> QED BY <3>1, <3>2 DEF Abstract!Claim
  <2>2. ASSUME NEW p \in Producers, PushLink(p)
        PROVE  \E n \in Nodes : Abstract!Publish(n) /\ UNCHANGED <<op, got>>
    <3>1. node[p] \in Nodes
      BY <2>2 DEF PushLink, Link, Inv, TypeOK, ConsumerKnows, AllNodes, Pushers
    <3> QED BY <2>2, <3>1, PushingChanges DEF PushLink, calls, Link, Abstract!Publish
  <2>3. ASSUME NEW c \in Consumers, NEW o \in {"Pop", "TryPop"}, Call(c, o)
        PROVE  Abstract!Call(c, o)
    BY <2>3 DEF Call, lists, Abstract!Call
  <2>4. ASSUME NEW c \in Consumers, Lock(c)
        PROVE  UNCHANGED Abstract!vars
    BY <2>4 DEF Lock, lists, Abstract!vars
  <2>5. ASSUME NEW c \in Consumers, TryLockFails(c)
        PROVE  Abstract!ReturnNothing(c)
    BY <2>5 DEF TryLockFails, lists, Abstract!ReturnNothing, Abstract!Return
  <2>6. ASSUME NEW c \in Consumers, PopStep(c)
        PROVE  \/ Abstract!ReturnItem(c) \/ Abstract!ReturnNothing(c)
               \/ UNCHANGED Abstract!vars
    <3>1. mu = c /\ op[c] # "none"
      BY <2>6 DEF PopStep, Inv, ConsumerKnows
    <3>2. CASE PopFirst(c) \/ PopLast(c)
      <4>1. PopTail(c) /\ pc # "link" /\ tail # Stub
        BY <3>2 DEF PopFirst, PopLast, Inv, ConsumerKnows
      <4>2. /\ fifo # <<>> /\ tail = Head(fifo)
            /\ tail \notin {node[p] : p \in Pushers}
        BY <3>1, <4>1, PopTailInv
      <4>3. tail \notin Done
        BY <4>2 DEF Pushers
      <4> QED
        BY <3>1, <4>1, <4>2, <4>3
           DEF PopTail, Return, Abstract!ReturnItem, Abstract!Take,
               Abstract!Available, Abstract!Return
    <3>3. CASE PopEmpty(c)
      <4>1. fifo = <<>> \/ Head(fifo) \in Done
        BY <3>3, NothingAvailable DEF PopEmpty
      <4> QED
        BY <3>1, <3>3, <4>1
           DEF PopEmpty, NoNode, Return, lists, Abstract!ReturnNothing,
               Abstract!Available, Abstract!Return
    <3>4. CASE StillAdding(c) \/ StillAddingLast(c)
      BY <3>1, <3>4
         DEF StillAdding, StillAddingLast, NoNode, Return, lists,
             Abstract!ReturnNothing, Abstract!Return, Abstract!vars
    <3>5. CASE SkipStub(c) \/ NoNext(c) \/ LastNode(c)
      BY <3>5 DEF SkipStub, NoNext, LastNode, Goto, lists, Abstract!vars
    <3>6. CASE StubExchange(c) \/ StubLink(c)
      <4>1. Done' = Done
        <5>1. CASE Producers = {}
          BY <5>1
        <5>2. CASE Producers # {}
          BY <3>6, <5>2, PushingChanges DEF StubExchange, StubLink
        <5> QED BY <5>1, <5>2
      <4> QED
        BY <3>6, <4>1 DEF StubExchange, StubLink, Link, Goto, Abstract!vars
    <3> QED BY <2>6, <3>2, <3>3, <3>4, <3>5, <3>6 DEF PopStep
  <2>7. CASE UNCHANGED vars
    BY <2>7 DEF vars, lists, calls, Abstract!vars
  <2> QED
    BY <2>1, <2>2, <2>3, <2>4, <2>5, <2>6, <2>7 DEF Next, Abstract!Next
<1> QED BY <1>1, <1>2, Invariance, PTL DEF Spec, AbstractSpec, Abstract!Spec
=============================================================================
