-------------------------- MODULE ProtocolsProofs ---------------------------
(***************************************************************************)
(* The protocols of MCProtocols for every value of their constants: the    *)
(* client idle filter, the cancellation of a call, the lock-free event and *)
(* the stub of inci_lib, proved here, and the channel to the aggregation   *)
(* server, from the lemmas of InciCommProofs.                              *)
(***************************************************************************)
EXTENDS MCProtocols, FiniteSetTheorems, SequenceTheorems, TLAPS

\* The types alone, and what the word counts.
Types ==
    /\ timerStarted \in BOOLEAN /\ active \in BOOLEAN /\ count \in Nat
    /\ call \in [Calls -> {"none", "in", "start"}]
    /\ timer \in BOOLEAN /\ closure \in {"none", "fired", "cancelled"}
    /\ restart \in BOOLEAN /\ entering \in BOOLEAN
    /\ disconnect \in {"no", "counted", "done"}
    /\ busy \in BOOLEAN /\ used \in BOOLEAN
Counted == count = Cardinality(InProgress) + Phony

Inv == TypeOK /\ OneTimer /\ ActivityRecorded

\* The calls in progress are finitely many.
LEMMA InProgressFinite == IsFiniteSet(InProgress) /\ Cardinality(InProgress) \in Nat
BY CallsFinite, FS_Subset, FS_CardinalityType DEF InProgress

\* A call in progress is counted, so the decrement of DecreaseCallCount stays
\* above zero.
LEMMA CallIsCounted ==
    ASSUME Types, Counted, NEW c \in Calls, call[c] = "in"
    PROVE  count >= 1
<1>1. c \in InProgress
  BY DEF InProgress
<1>2. Cardinality(InProgress) # 0
  BY <1>1, InProgressFinite, FS_EmptySet
<1> QED
  BY <1>2, InProgressFinite DEF Counted, Phony, Types

\* No call is in progress when the count is zero.
LEMMA ZeroMeansNone ==
    ASSUME Types, Counted, count = 0
    PROVE  InProgress = {}
<1>1. Cardinality(InProgress) = 0
  BY InProgressFinite DEF Counted, Phony, Types
<1> QED
  BY <1>1, InProgressFinite, FS_EmptySet

\* A call that starts adds itself to the calls in progress.
LEMMA Joins ==
    ASSUME Types, NEW c \in Calls, call[c] # "in",
           call' = [call EXCEPT ![c] = "in"]
    PROVE  Cardinality(InProgress') = Cardinality(InProgress) + 1
<1>1. InProgress' = InProgress \cup {c} /\ c \notin InProgress
  BY DEF InProgress, Types
<1> QED
  BY <1>1, InProgressFinite, FS_AddElement

\* A call that ends leaves them.
LEMMA Leaves ==
    ASSUME Types, NEW c \in Calls, call[c] = "in", NEW v, v # "in",
           call' = [call EXCEPT ![c] = v]
    PROVE  Cardinality(InProgress') = Cardinality(InProgress) - 1
<1>1. InProgress' = InProgress \ {c} /\ c \in InProgress
  BY DEF InProgress, Types
<1> QED
  BY <1>1, InProgressFinite, FS_RemoveElement

\* A call outside InProgress that stays outside does not matter to the count.
LEMMA Stays ==
    ASSUME Types, NEW c \in Calls, call[c] # "in", NEW v, v # "in",
           call' = [call EXCEPT ![c] = v]
    PROVE  InProgress' = InProgress
BY DEF InProgress, Types

\* The filter begins with no call and no timer.
LEMMA InitInv == Init => Inv
<1> SUFFICES ASSUME Init PROVE Inv
  OBVIOUS
<1>1. InProgress = {} /\ Starting = {}
  BY DEF Init, InProgress, Starting
<1>2. Cardinality(InProgress) = 0
  BY <1>1, FS_EmptySet
<1>3. Counted
  BY <1>2 DEF Init, Counted, Phony
<1>4. Types
  BY DEF Init, Types
<1>5. TypeOK
  BY <1>3, <1>4 DEF TypeOK, Types, Counted
<1> QED
  BY <1>1, <1>5 DEF Init, Inv, OneTimer, ActivityRecorded

\* Every step keeps the counter, the owner of the timer and the activity flag.
LEMMA NextInv == Inv /\ [Next]_vars => Inv'
<1> SUFFICES ASSUME Inv, [Next]_vars PROVE Inv'
  OBVIOUS
<1>0. Types /\ Counted /\ OneTimer /\ ActivityRecorded
  BY DEF Inv, TypeOK, Types, Counted
<1>a. ASSUME Types', Counted', OneTimer', ActivityRecorded' PROVE Inv'
  BY <1>a DEF Inv, TypeOK, Types, Counted
<1>1. ASSUME NEW c \in Calls, CallInit(c) PROVE Inv'
  <2>1. Types'
    BY <1>0, <1>1 DEF CallInit, IncreaseCallCount, Types, alarm
  <2>2. Counted'
    <3>1. Cardinality(InProgress') = Cardinality(InProgress) + 1
      BY <1>0, <1>1, Joins DEF CallInit
    <3>2. count' = count + 1 /\ UNCHANGED disconnect
      BY <1>1 DEF CallInit, IncreaseCallCount
    <3> QED
      BY <1>0, <3>1, <3>2, InProgressFinite DEF Counted, Phony
  <2>3. Starting' = Starting
    BY <1>0, <1>1 DEF CallInit, Starting, Types
  <2>4. OneTimer'
    BY <1>0, <1>1, <2>3 DEF CallInit, IncreaseCallCount, OneTimer, alarm
  <2>5. ActivityRecorded'
    BY <1>1 DEF CallInit, IncreaseCallCount, ActivityRecorded
  <2> QED
    BY <2>1, <2>2, <2>4, <2>5, <1>a
<1>2. ASSUME NEW c \in Calls, CallDestroy(c) PROVE Inv'
  <2>0. count >= 1 /\ call[c] = "in"
    BY <1>0, <1>2, CallIsCounted DEF CallDestroy
  <2>1. Types'
    <3>1. count' \in Nat
      BY <1>0, <1>2, <2>0 DEF CallDestroy, DecreaseCallCount, Types
    <3>2. call' \in [Calls -> {"none", "in", "start"}]
      BY <1>0, <1>2 DEF CallDestroy, DecreaseCallCount, Types
    <3>3. timerStarted' \in BOOLEAN /\ active' \in BOOLEAN
      BY <1>0, <1>2 DEF CallDestroy, DecreaseCallCount, Types
    <3> QED
      BY <3>1, <3>2, <3>3, <1>0, <1>2 DEF CallDestroy, Types, alarm
  <2>2. Cardinality(InProgress') = Cardinality(InProgress) - 1
    <3>1. \/ call' = [call EXCEPT ![c] = "start"]
          \/ call' = [call EXCEPT ![c] = "none"]
      BY <1>2 DEF CallDestroy, DecreaseCallCount
    <3> QED
      BY <3>1, <2>0, <1>0, Leaves
  <2>3. Counted'
    BY <1>0, <1>2, <2>2, InProgressFinite
       DEF CallDestroy, DecreaseCallCount, Types, Counted, Phony
  <2>4. OneTimer'
    <3>1. CASE count' = 0 /\ ~timerStarted
      <4>1. Starting = {} /\ ~timer /\ closure = "none" /\ ~restart
        BY <3>1, <1>0 DEF OneTimer, Types
      <4>2. Starting' = {c}
        BY <3>1, <4>1, <1>0, <1>2
           DEF CallDestroy, DecreaseCallCount, Starting, Types
      <4> QED
        BY <3>1, <4>1, <4>2, <1>2
           DEF CallDestroy, DecreaseCallCount, OneTimer, alarm
    <3>2. CASE ~(count' = 0 /\ ~timerStarted)
      <4>1. Starting' = Starting
        BY <3>2, <1>0, <1>2
           DEF CallDestroy, DecreaseCallCount, Starting, Types
      <4> QED
        BY <3>2, <4>1, <1>0, <1>2
           DEF CallDestroy, DecreaseCallCount, OneTimer, alarm
    <3> QED
      BY <3>1, <3>2
  <2>5. ActivityRecorded'
    <3>1. active /\ count' = count - 1 /\ UNCHANGED <<timer, closure, busy>>
      BY <2>0, <1>0, <1>2
         DEF CallDestroy, DecreaseCallCount, ActivityRecorded, alarm, Types
    <3>2. CASE count' = 0 /\ ~timerStarted
      <4>1. ~timer /\ closure = "none"
        BY <3>2, <1>0 DEF OneTimer, Types
      <4> QED
        BY <3>1, <3>2, <4>1 DEF ActivityRecorded
    <3>3. CASE ~(count' = 0 /\ ~timerStarted)
      BY <3>1, <3>3, <1>2 DEF CallDestroy, DecreaseCallCount, ActivityRecorded
    <3> QED
      BY <3>2, <3>3
  <2> QED
    BY <2>1, <2>3, <2>4, <2>5, <1>a
<1>3. ASSUME NEW c \in Calls, CallStartsTimer(c) PROVE Inv'
  <2>1. Types'
    BY <1>0, <1>3 DEF CallStartsTimer, StartIdleTimer, Types, state
  <2>2. InProgress' = InProgress
    BY <1>0, <1>3, Stays DEF CallStartsTimer
  <2>3. Counted'
    BY <1>0, <1>3, <2>2 DEF CallStartsTimer, Counted, Phony, state
  <2>4. c \in Starting
    BY <1>3 DEF CallStartsTimer, Starting
  <2>5. Starting' = {}
    <3>1. Starting' = Starting \ {c}
      BY <1>0, <1>3 DEF CallStartsTimer, Starting, Types
    <3> QED
      BY <3>1, <2>4, <1>0 DEF OneTimer
  <2>6. OneTimer'
    BY <1>0, <1>3, <2>4, <2>5
       DEF CallStartsTimer, StartIdleTimer, OneTimer, state
  <2>7. ActivityRecorded'
    BY <1>0, <1>3 DEF CallStartsTimer, StartIdleTimer, ActivityRecorded, state
  <2> QED
    BY <2>1, <2>3, <2>6, <2>7, <1>a
<1>b. ASSUME UNCHANGED call
      PROVE  InProgress' = InProgress /\ Starting' = Starting
  BY <1>b DEF InProgress, Starting
<1>4. CASE TimerFires
  <2>1. UNCHANGED <<state, call, disconnect>>
    BY <1>4 DEF TimerFires
  <2>2. Types' /\ Counted'
    BY <1>0, <1>4, <1>b, <2>1 DEF TimerFires, Types, Counted, Phony, state
  <2>3. OneTimer' /\ ActivityRecorded'
    BY <1>0, <1>4, <1>b, <2>1
       DEF TimerFires, OneTimer, ActivityRecorded, state
  <2> QED
    BY <2>2, <2>3, <1>a
<1>5. CASE CallbackCancelled
  <2>1. UNCHANGED <<state, call, disconnect>>
    BY <1>5 DEF CallbackCancelled
  <2>2. Types' /\ Counted'
    BY <1>0, <1>5, <1>b, <2>1
       DEF CallbackCancelled, Types, Counted, Phony, state
  <2>3. OneTimer' /\ ActivityRecorded'
    BY <1>0, <1>5, <1>b, <2>1
       DEF CallbackCancelled, OneTimer, ActivityRecorded, state
  <2> QED
    BY <2>2, <2>3, <1>a
<1>6. CASE CallbackChecks
  <2>0. closure = "fired" /\ closure' = "none" /\ UNCHANGED <<call, timer, disconnect, busy, used>>
    BY <1>6 DEF CallbackChecks
  <2>1. UNCHANGED count
    BY <1>6 DEF CallbackChecks, CheckTimer, state
  <2>2. Types'
    BY <1>0, <1>6, <2>0 DEF CallbackChecks, CheckTimer, Types, state
  <2>3. Counted'
    BY <1>0, <1>b, <2>0, <2>1 DEF Counted, Phony
  <2>4. Starting' = {} /\ ~timer /\ ~restart /\ timerStarted
    BY <1>0, <1>b, <2>0 DEF OneTimer
  <2>c. ~timer' /\ closure' = "none"
    BY <2>0, <2>4
  <2>5. OneTimer'
    <3>1. restart' \/ ~timerStarted'
      BY <1>6, <2>4 DEF CallbackChecks, CheckTimer, state
    <3>2. restart' => timerStarted'
      BY <1>6, <2>4 DEF CallbackChecks, CheckTimer, state
    <3> QED
      BY <2>c, <2>4, <3>1, <3>2 DEF OneTimer
  <2>6. ActivityRecorded'
    <3>1. count' > 0 => active'
      BY <1>0, <1>6 DEF CallbackChecks, CheckTimer, ActivityRecorded, state, Types
    <3> QED
      BY <2>c, <3>1 DEF ActivityRecorded
  <2> QED
    BY <2>2, <2>3, <2>5, <2>6, <1>a
<1>7. CASE CallbackRestarts
  <2>1. UNCHANGED <<state, call, closure, entering, disconnect, used>>
    BY <1>7 DEF CallbackRestarts
  <2>a. restart /\ restart' = FALSE /\ timer' = TRUE /\ busy' = (count > 0)
    BY <1>7 DEF CallbackRestarts, StartIdleTimer
  <2>b. busy' \in BOOLEAN
    BY <2>a
  <2>2. Types'
    BY <1>0, <2>1, <2>a, <2>b DEF Types, state
  <2>3. Counted'
    BY <1>0, <1>b, <2>1 DEF Counted, Phony, state
  <2>4. OneTimer'
    BY <1>0, <1>b, <2>1, <2>a DEF OneTimer, state
  <2>5. ActivityRecorded'
    BY <1>0, <2>1, <2>a DEF ActivityRecorded, state
  <2> QED
    BY <2>2, <2>3, <2>4, <2>5, <1>a
<1>8. CASE EnterIdle
  <2>1. UNCHANGED <<state, call, timer, closure, restart, disconnect, busy>>
    BY <1>8 DEF EnterIdle
  <2>a. entering' = FALSE /\ used' \in BOOLEAN
    BY <1>8 DEF EnterIdle
  <2>2. Types' /\ Counted'
    BY <1>0, <1>b, <2>1, <2>a DEF Types, Counted, Phony, state
  <2>3. OneTimer' /\ ActivityRecorded'
    BY <1>0, <1>b, <2>1 DEF OneTimer, ActivityRecorded, state
  <2> QED
    BY <2>2, <2>3, <1>a
<1>9. CASE DisconnectCounts
  <2>1. /\ disconnect = "no" /\ disconnect' = "counted"
        /\ active' /\ count' = count + 1
        /\ UNCHANGED <<timerStarted, call, timer, closure, restart, entering, used>>
    BY <1>9 DEF DisconnectCounts, IncreaseCallCount, alarm
  <2>2. Types'
    BY <1>0, <1>9, <2>1 DEF DisconnectCounts, IncreaseCallCount, Types
  <2>3. Counted'
    BY <1>0, <1>b, <2>1, InProgressFinite DEF Counted, Phony
  <2>4. OneTimer' /\ ActivityRecorded'
    BY <1>0, <1>b, <2>1 DEF OneTimer, ActivityRecorded
  <2> QED
    BY <2>2, <2>3, <2>4, <1>a
<1>10. CASE DisconnectCancels
  <2>1. /\ disconnect = "counted" /\ disconnect' = "done"
        /\ timer' = FALSE
        /\ closure' = IF timer THEN "cancelled" ELSE closure
        /\ UNCHANGED <<timerStarted, active, count, call, restart, entering, busy, used>>
    BY <1>10 DEF DisconnectCancels, state
  <2>2. Types'
    BY <1>0, <2>1 DEF Types
  <2>3. Counted'
    BY <1>0, <1>b, <2>1 DEF Counted, Phony
  <2>4. OneTimer' /\ ActivityRecorded'
    BY <1>0, <1>b, <2>1 DEF OneTimer, ActivityRecorded
  <2> QED
    BY <2>2, <2>3, <2>4, <1>a
<1>11. CASE UNCHANGED vars
  <2>1. UNCHANGED <<timerStarted, active, count, call, timer, closure, restart,
                    entering, disconnect, busy, used>>
    BY <1>11 DEF vars, state, alarm
  <2> QED
    BY <1>0, <1>b, <2>1, <1>a
       DEF Types, Counted, Phony, OneTimer, ActivityRecorded
<1> QED
  BY <1>1, <1>2, <1>3, <1>4, <1>5, <1>6, <1>7, <1>8, <1>9, <1>10, <1>11
     DEF Next, Callback

\* Counter, owner of the timer and activity flag are kept by every step, for
\* any number of concurrent calls.
THEOREM Invariance == Spec => []Inv
BY InitInv, NextInv, PTL DEF Spec

\* The assertion of DecreaseCallCount and the word's account of the calls.
THEOREM CountsCalls == Spec => []TypeOK
BY Invariance, PTL DEF Inv

\* grpc_timer_init is never called on a timer, or for a closure, in use.
THEOREM TimerHasOneOwner == Spec => []OneTimer
BY Invariance, PTL DEF Inv

\* The channel enters IDLE only after a full cycle of the timer without a call.
THEOREM IdleAfterOneCycle == Spec => IdleForOneCycle
<1>1. Inv /\ [Next]_vars => [(~entering /\ entering') => ~busy /\ InProgress = {}]_vars
  <2> SUFFICES ASSUME Inv, [Next]_vars, ~entering, entering'
               PROVE  ~busy /\ InProgress = {}
    OBVIOUS
  <2>0. Types /\ Counted /\ ActivityRecorded
    BY DEF Inv, TypeOK, Types, Counted
  <2>1. CallbackChecks
    BY DEF Next, vars, alarm, CallInit, CallDestroy, CallStartsTimer, TimerFires,
           Callback, CallbackRestarts, EnterIdle, CallbackCancelled,
           DisconnectCounts, DisconnectCancels
  <2>2. count = 0 /\ ~active /\ closure = "fired"
    BY <2>1 DEF CallbackChecks, CheckTimer
  <2> QED
    BY <2>0, <2>2, ZeroMeansNone DEF ActivityRecorded
<1> QED
  BY <1>1, Invariance, PTL DEF Spec, IdleForOneCycle

-----------------------------------------------------------------------------
(* CancelState: a closure that is registered with SetNotifyOnCancel is     *)
(* scheduled exactly once.                                                 *)

\* What a thread inside a call knows: only an idle thread has no call, no two
\* calls register the same closure, and the state that a compare-and-swap
\* expects is never an error.
CallsKnow ==
    /\ \A t \in RaceThreads : caAt[t] = "cas" => caSeen[t] \notin CancelErrors
    /\ \A t, u \in RaceThreads : caAt[t] # "idle" /\ caAt[u] # "idle" /\ caArg[t] \in RaceClosures
          /\ caArg[t] = caArg[u] => t = u

CaInv == CA!TypeOK /\ CA!ScheduledOnce /\ CallsKnow

\* The outcomes of a watcher are apart from the errors.
LEMMA CaOutcomes ==
    ASSUME CA!CancelStateConstants
    PROVE  /\ "new" \notin CancelErrors /\ "owed" \notin CancelErrors /\ "ok" \notin CancelErrors
           /\ "twice" \notin CancelErrors
           /\ RaceClosures \cap CancelErrors = {} /\ Null \notin RaceClosures /\ Null \notin CancelErrors
  BY DEF CA!CancelStateConstants

\* Initially nothing is registered and nobody calls.
LEMMA CaInitInv ==
    ASSUME CA!CancelStateConstants, CA!Init
    PROVE  CaInv
<1>1. CA!TypeOK
  BY DEF CA!Init, CA!TypeOK, CA!States
<1>2. CA!ScheduledOnce
  BY CaOutcomes DEF CA!Init, CA!ScheduledOnce, CA!InFlight
<1>3. CallsKnow
  BY DEF CA!Init, CallsKnow
<1> QED BY <1>1, <1>2, <1>3 DEF CaInv

\* SetNotifyOnCancel begins.
LEMMA CaCallSetNotifyOnCancelInv ==
    ASSUME CA!CancelStateConstants, CaInv, NEW t \in RaceThreads, NEW c \in RaceClosures \cup {Null},
           CA!CallSetNotifyOnCancel(t, c)
    PROVE  CaInv'
<1> USE CaOutcomes DEF CaInv, CA!CallSetNotifyOnCancel
<1>1. CA!TypeOK'
  BY DEF CA!TypeOK, CA!States
<1>2. \A u \in RaceThreads : /\ caAt'[u] = IF u = t THEN "load" ELSE caAt[u]
                             /\ caArg'[u] = IF u = t THEN c ELSE caArg[u]
  BY DEF CA!TypeOK
<1>3. \A w \in RaceClosures : caOutcome'[w] = IF w = c THEN "owed" ELSE caOutcome[w]
  BY DEF CA!TypeOK
<1>4. \A w \in RaceClosures : CA!InFlight(w)' <=> CA!InFlight(w) \/ w = c
  BY <1>2 DEF CA!InFlight
<1>5. c \in RaceClosures => ~CA!InFlight(c) /\ caState # c
  BY DEF CA!ScheduledOnce
<1>6. CA!ScheduledOnce'
  BY <1>3, <1>4, <1>5 DEF CA!ScheduledOnce
<1>7. CallsKnow'
  <2>1. \A u \in RaceThreads : caAt'[u] = "cas" => caAt[u] = "cas" /\ caSeen'[u] = caSeen[u]
    BY <1>2
  <2>2. \A u \in RaceThreads : caAt[u] # "idle" /\ c \in RaceClosures => caArg[u] # c
    BY <1>5 DEF CA!InFlight
  <2> QED BY <1>2, <2>1, <2>2 DEF CallsKnow
<1> QED BY <1>1, <1>6, <1>7

\* Cancel begins, a load finds no error, or a compare-and-swap fails: no
\* closure is registered or scheduled.
LEMMA CaQuietInv ==
    ASSUME CA!CancelStateConstants, CaInv, NEW t \in RaceThreads,
           \/ \E e \in CancelErrors : CA!CallCancel(t, e)
           \/ CA!Load(t)
           \/ CA!SwapFails(t)
    PROVE  CaInv'
<1> USE CaOutcomes DEF CaInv, CA!CallCancel, CA!Load, CA!SwapFails
<1>1. CA!TypeOK'
  BY DEF CA!TypeOK, CA!States
<1>2. \A u \in RaceThreads \ {t} : caAt'[u] = caAt[u] /\ caArg'[u] = caArg[u] /\ caSeen'[u] = caSeen[u]
  BY DEF CA!TypeOK
<1>3. \A w \in RaceClosures : caArg'[t] = w /\ caAt'[t] # "idle" <=> caArg[t] = w /\ caAt[t] # "idle"
  BY DEF CA!TypeOK
<1>4. \A w \in RaceClosures : CA!InFlight(w)' <=> CA!InFlight(w)
  BY <1>2, <1>3 DEF CA!InFlight
<1>5. CA!ScheduledOnce'
  BY <1>4 DEF CA!ScheduledOnce
<1>6. caAt'[t] = "cas" => caSeen'[t] \notin CancelErrors
  BY DEF CA!TypeOK
<1>7. CallsKnow'
  BY <1>2, <1>3, <1>6 DEF CallsKnow
<1> QED BY <1>1, <1>5, <1>7

\* The call returns: its closure is in no other call.
LEMMA CaReturns ==
    ASSUME CaInv, NEW t \in RaceThreads, CA!Return(t), caAt[t] # "idle"
    PROVE  /\ caAt' \in [RaceThreads -> {"idle", "load", "cas"}]
           /\ caArg' \in [RaceThreads -> CA!States] /\ caSeen' \in [RaceThreads -> CA!States]
           /\ \A w \in RaceClosures : CA!InFlight(w)' <=> CA!InFlight(w) /\ caArg[t] # w
           /\ CallsKnow'
<1> USE DEF CaInv, CA!Return
<1>1. /\ caAt' \in [RaceThreads -> {"idle", "load", "cas"}]
      /\ caArg' \in [RaceThreads -> CA!States] /\ caSeen' \in [RaceThreads -> CA!States]
  BY DEF CA!TypeOK, CA!States
<1>2. caAt'[t] = "idle" /\ \A u \in RaceThreads \ {t} :
          caAt'[u] = caAt[u] /\ caArg'[u] = caArg[u] /\ caSeen'[u] = caSeen[u]
  BY DEF CA!TypeOK
<1>3. \A w \in RaceClosures : CA!InFlight(w)' <=> CA!InFlight(w) /\ caArg[t] # w
  BY <1>2 DEF CA!InFlight, CallsKnow
<1>4. CallsKnow'
  BY <1>2 DEF CallsKnow
<1> QED BY <1>1, <1>3, <1>4

\* The load finds an error: a closure is scheduled with it, at once.
LEMMA CaAlreadyCancelledInv ==
    ASSUME CA!CancelStateConstants, CaInv, NEW t \in RaceThreads, CA!AlreadyCancelled(t)
    PROVE  CaInv'
<1> USE CaOutcomes DEF CaInv, CA!AlreadyCancelled
<1>1. caAt[t] # "idle" /\ CA!Return(t) /\ caState' = caState /\ caState \in CancelErrors
  OBVIOUS
<1>2. /\ \A w \in RaceClosures : CA!InFlight(w)' <=> CA!InFlight(w) /\ caArg[t] # w
      /\ CallsKnow'
  BY <1>1, CaReturns
<1>3. caArg[t] \in RaceClosures => caOutcome[caArg[t]] = "owed"
  BY <1>1 DEF CA!ScheduledOnce, CA!InFlight
<1>4. \A w \in RaceClosures : caOutcome'[w] = IF w = caArg[t] THEN caState ELSE caOutcome[w]
  BY <1>3 DEF CA!Scheduled, CA!TypeOK
<1>5. CA!TypeOK'
  <2>1. caOutcome' \in [RaceClosures -> {"new", "owed", "ok"} \cup CancelErrors]
    BY <1>1, <1>3 DEF CA!TypeOK, CA!Scheduled
  <2> QED BY <1>1, <2>1, CaReturns DEF CA!TypeOK
<1>6. CA!ScheduledOnce'
  BY <1>1, <1>2, <1>4 DEF CA!ScheduledOnce
<1> QED BY <1>2, <1>5, <1>6

\* The compare-and-swap succeeds: the closure it replaces is scheduled, and its
\* own closure is the registered one.
LEMMA CaSwapInv ==
    ASSUME CA!CancelStateConstants, CaInv, NEW t \in RaceThreads, CA!Swap(t)
    PROVE  CaInv'
<1> USE CaOutcomes DEF CaInv, CA!Swap
<1> DEFINE how == IF caArg[t] \in CancelErrors THEN caArg[t] ELSE "ok"
<1>1. /\ caAt[t] = "cas" /\ caAt[t] # "idle" /\ CA!Return(t)
      /\ caState = caSeen[t] /\ caState' = caArg[t] /\ caState \notin CancelErrors
  BY DEF CallsKnow
<1>2. /\ \A w \in RaceClosures : CA!InFlight(w)' <=> CA!InFlight(w) /\ caArg[t] # w
      /\ CallsKnow'
  BY <1>1, CaReturns
<1>3. caState \in RaceClosures => caOutcome[caState] = "owed"
  BY DEF CA!ScheduledOnce
<1>4. \A w \in RaceClosures : caOutcome'[w] = IF w = caState THEN how ELSE caOutcome[w]
  BY <1>1, <1>3 DEF CA!Scheduled, CA!TypeOK
<1>5. caArg[t] \in RaceClosures => CA!InFlight(caArg[t]) /\ caOutcome[caArg[t]] = "owed" /\ caState # caArg[t]
  BY <1>1 DEF CA!InFlight, CA!ScheduledOnce
<1>6. caArg[t] \in CA!States
  BY DEF CA!TypeOK
<1>7. CA!TypeOK'
  <2>1. caOutcome' \in [RaceClosures -> {"new", "owed", "ok"} \cup CancelErrors]
    BY <1>1, <1>3 DEF CA!TypeOK, CA!Scheduled
  <2> QED BY <1>1, <1>6, <2>1, CaReturns DEF CA!TypeOK
<1>8. CA!ScheduledOnce'
  <2> SUFFICES ASSUME NEW w \in RaceClosures
               PROVE  /\ caOutcome'[w] # "twice"
                      /\ caOutcome'[w] = "owed" <=> caState' = w \/ CA!InFlight(w)'
                      /\ ~(caState' = w /\ CA!InFlight(w)')
                      /\ caOutcome'[w] \in CancelErrors => caOutcome'[w] = caState'
    BY DEF CA!ScheduledOnce
  <2>1. /\ caOutcome[w] # "twice"
        /\ caOutcome[w] = "owed" <=> caState = w \/ CA!InFlight(w)
        /\ ~(caState = w /\ CA!InFlight(w))
        /\ caOutcome[w] \notin CancelErrors
    BY <1>1 DEF CA!ScheduledOnce
  <2>2. CASE w = caState
    BY <1>1, <1>2, <1>4, <1>5, <2>1, <2>2
  <2>3. CASE w # caState
    BY <1>1, <1>2, <1>4, <1>5, <2>1, <2>3
  <2> QED BY <2>2, <2>3
<1> QED BY <1>2, <1>7, <1>8

\* Every step keeps the invariant.
LEMMA CaNextInv ==
    ASSUME CA!CancelStateConstants, CaInv, [CA!Next]_caVars
    PROVE  CaInv'
<1>1. CASE UNCHANGED caVars
  BY <1>1 DEF caVars, CaInv, CA!TypeOK, CA!ScheduledOnce, CA!InFlight, CallsKnow
<1>2. ASSUME NEW t \in RaceThreads,
             \/ \E w \in RaceClosures \cup {Null} : CA!CallSetNotifyOnCancel(t, w)
             \/ \E e \in CancelErrors : CA!CallCancel(t, e)
             \/ CA!Load(t) \/ CA!AlreadyCancelled(t) \/ CA!Swap(t) \/ CA!SwapFails(t)
      PROVE  CaInv'
  BY <1>2, CaCallSetNotifyOnCancelInv, CaQuietInv, CaAlreadyCancelledInv, CaSwapInv
<1> QED BY <1>1, <1>2 DEF CA!Next

-----------------------------------------------------------------------------
(* LockfreeEvent: a closure that is given to NotifyOn is scheduled exactly *)
(* once, and no SetReady is lost.                                          *)

\* One closure at a time is to be notified, in one call of NotifyOn, which
\* never meets another one; the event is destroyed when there is none.
OneOwed ==
    /\ \A t \in RaceThreads : leAt[t] = "out" <=> leOp[t] = LE!None
    /\ \A c, d \in RaceClosures : leOutcome[c] = "owed" /\ leOutcome[d] = "owed" => c = d
    /\ \A t, u \in RaceThreads : LE!IsNotifyOn(leOp[t]) /\ leOp[t] = leOp[u] => t = u
    /\ \A t \in RaceThreads : LE!IsNotifyOn(leOp[t]) /\ leAt[t] = "cas" => leSeen[t] \in {LE!NotReady, LE!Ready}
    /\ \A t \in RaceThreads : leOp[t] = LE!Destroy => \A c \in RaceClosures : leOutcome[c] # "owed"
    /\ leDestroyed => \A c \in RaceClosures : leOutcome[c] # "owed"

\* The SetReady of t may still make the word ready, or schedule the closure
\* that it saw and that is still there.
StillTells(t) ==
    /\ leOp[t] = LE!SetReady
    /\ \/ leAt[t] = "load"
       \/ leAt[t] = "cas" /\ (LE!IsClosure(leSeen[t]) => leSeen[t] = leState)

\* An event that nobody was told of yet is in the word, or on its way there.
EventKept ==
    leUnseen => leState = LE!Ready \/ LE!IsShutdown(leState) \/ \E t \in RaceThreads : StillTells(t)

LeInv == LE!TypeOK /\ LE!NotifiedOnce /\ OneOwed /\ EventKept

\* The words and the calls are told apart by their first components.
LEMMA WordsApart ==
    /\ LE!NotReady # LE!Ready /\ ~LE!IsShutdown(LE!NotReady) /\ ~LE!IsShutdown(LE!Ready)
    /\ ~LE!IsClosure(LE!NotReady) /\ ~LE!IsClosure(LE!Ready)
    /\ \A c \in RaceClosures : /\ LE!IsClosure(LE!Closure(c)) /\ ~LE!IsShutdown(LE!Closure(c))
                               /\ LE!Closure(c)[2] = c
                               /\ LE!Closure(c) # LE!NotReady /\ LE!Closure(c) # LE!Ready
    /\ \A c, d \in RaceClosures : LE!Closure(c) = LE!Closure(d) => c = d
    /\ \A e \in ShutdownErrors \cup {LE!NoError} :
          /\ LE!IsShutdown(LE!Shutdown(e)) /\ ~LE!IsClosure(LE!Shutdown(e))
          /\ LE!Shutdown(e) # LE!NotReady /\ LE!Shutdown(e) # LE!Ready
          /\ \A c \in RaceClosures : LE!Shutdown(e) # LE!Closure(c)
  BY DEF LE!NotReady, LE!Ready, LE!Closure, LE!Shutdown, LE!IsShutdown, LE!IsClosure

LEMMA OpsApart ==
    /\ LE!None # LE!SetReady /\ LE!None # LE!Destroy /\ LE!SetReady # LE!Destroy
    /\ ~LE!IsNotifyOn(LE!None) /\ ~LE!IsNotifyOn(LE!SetReady) /\ ~LE!IsNotifyOn(LE!Destroy)
    /\ ~LE!IsSetShutdown(LE!None) /\ ~LE!IsSetShutdown(LE!SetReady) /\ ~LE!IsSetShutdown(LE!Destroy)
    /\ \A c \in RaceClosures : /\ LE!IsNotifyOn(LE!NotifyOn(c)) /\ ~LE!IsSetShutdown(LE!NotifyOn(c))
                               /\ LE!NotifyOn(c)[2] = c
                               /\ LE!NotifyOn(c) # LE!None /\ LE!NotifyOn(c) # LE!SetReady /\ LE!NotifyOn(c) # LE!Destroy
    /\ \A c, d \in RaceClosures : LE!NotifyOn(c) = LE!NotifyOn(d) => c = d
    /\ \A e \in ShutdownErrors : /\ LE!IsSetShutdown(LE!SetShutdown(e)) /\ ~LE!IsNotifyOn(LE!SetShutdown(e))
                                 /\ LE!SetShutdown(e)[2] = e
                                 /\ LE!SetShutdown(e) # LE!None /\ LE!SetShutdown(e) # LE!SetReady
                                 /\ LE!SetShutdown(e) # LE!Destroy
                                 /\ \A c \in RaceClosures : LE!NotifyOn(c) # LE!SetShutdown(e)
  BY DEF LE!None, LE!SetReady, LE!Destroy, LE!NotifyOn, LE!SetShutdown, LE!IsNotifyOn, LE!IsSetShutdown

\* What a word and a call can be.
LEMMA WordKinds ==
    /\ \A s \in LE!Words : \/ s = LE!NotReady \/ s = LE!Ready
                           \/ \E c \in RaceClosures : s = LE!Closure(c)
                           \/ \E e \in ShutdownErrors \cup {LE!NoError} : s = LE!Shutdown(e)
    /\ \A o \in LE!Ops : \/ o = LE!None \/ o = LE!SetReady \/ o = LE!Destroy
                         \/ \E c \in RaceClosures : o = LE!NotifyOn(c)
                         \/ \E e \in ShutdownErrors : o = LE!SetShutdown(e)
  BY DEF LE!Words, LE!Ops

LEMMA WordsIn ==
    /\ LE!NotReady \in LE!Words /\ LE!Ready \in LE!Words
    /\ \A c \in RaceClosures : LE!Closure(c) \in LE!Words
    /\ \A e \in ShutdownErrors \cup {LE!NoError} : LE!Shutdown(e) \in LE!Words
    /\ LE!None \in LE!Ops /\ LE!SetReady \in LE!Ops /\ LE!Destroy \in LE!Ops
    /\ \A c \in RaceClosures : LE!NotifyOn(c) \in LE!Ops
    /\ \A e \in ShutdownErrors : LE!SetShutdown(e) \in LE!Ops
  BY DEF LE!Words, LE!Ops

\* Initially nobody calls and no closure is owed.
LEMMA LeInitInv ==
    ASSUME LE!Init
    PROVE  LeInv
<1>1. LE!TypeOK
  BY WordsIn DEF LE!Init, LE!TypeOK
<1>2. LE!NotifiedOnce
  BY WordsApart, OpsApart DEF LE!Init, LE!NotifiedOnce
<1>3. OneOwed
  BY OpsApart DEF LE!Init, OneOwed
<1>4. EventKept
  BY DEF LE!Init, EventKept
<1> QED BY <1>1, <1>2, <1>3, <1>4 DEF LeInv

\* NotifyOn begins: its closure is the only one that is owed.
LEMMA LeCallNotifyOnInv ==
    ASSUME LeInv, NEW t \in RaceThreads, NEW c \in RaceClosures, LE!CallNotifyOn(t, c)
    PROVE  LeInv'
<1> USE DEF LeInv, LE!CallNotifyOn, LE!Begin
<1>1. LE!TypeOK'
  BY WordsIn DEF LE!TypeOK
<1>2. \A u \in RaceThreads : /\ leOp'[u] = IF u = t THEN LE!NotifyOn(c) ELSE leOp[u]
                             /\ leAt'[u] = IF u = t THEN "load" ELSE leAt[u]
                             /\ leSeen'[u] = leSeen[u]
  BY DEF LE!TypeOK
<1>3. \A d \in RaceClosures : leOutcome'[d] = IF d = c THEN "owed" ELSE leOutcome[d]
  BY DEF LE!TypeOK
<1>4. \A d \in RaceClosures : /\ leOutcome[d] # "owed" /\ leState # LE!Closure(d)
                              /\ \A u \in RaceThreads : leOp[u] # LE!NotifyOn(d)
  BY DEF LE!Owed, LE!NotifiedOnce
<1>5. leOp[t] = LE!None
  BY DEF OneOwed
<1>6. LE!NotifiedOnce'
  BY <1>2, <1>3, <1>4, OpsApart DEF LE!NotifiedOnce
<1>7. \A u \in RaceThreads : ~LE!IsNotifyOn(leOp[u])
  BY <1>4, WordKinds, OpsApart DEF LE!TypeOK
<1>8. OneOwed'
  BY <1>2, <1>3, <1>4, <1>7, OpsApart DEF OneOwed
<1>9. EventKept'
  BY <1>2, <1>5, OpsApart DEF EventKept, StillTells
<1> QED BY <1>1, <1>6, <1>8, <1>9

\* SetReady, SetShutdown or DestroyEvent begins.
LEMMA LeCallOtherInv ==
    ASSUME LeInv, NEW t \in RaceThreads,
           LE!CallSetReady(t) \/ LE!CallDestroy(t) \/ \E e \in ShutdownErrors : LE!CallSetShutdown(t, e)
    PROVE  LeInv'
<1> USE DEF LeInv
<1>1. PICK o \in LE!Ops : /\ LE!Begin(t, o) /\ ~LE!IsNotifyOn(o) /\ o # LE!None
                          /\ o = LE!Destroy => LE!Owed = {}
                          /\ leOutcome' = leOutcome /\ leDestroyed' = leDestroyed
                          /\ leUnseen' # leUnseen => o = LE!SetReady
  BY WordsIn, OpsApart DEF LE!CallSetReady, LE!CallDestroy, LE!CallSetShutdown
<1> USE DEF LE!Begin
<1>2. LE!TypeOK'
  <2>1. leUnseen' \in BOOLEAN
    BY DEF LE!TypeOK, LE!CallSetReady, LE!CallDestroy, LE!CallSetShutdown
  <2> QED BY <1>1, <2>1 DEF LE!TypeOK
<1>3. \A u \in RaceThreads : /\ leOp'[u] = IF u = t THEN o ELSE leOp[u]
                             /\ leAt'[u] = IF u = t THEN "load" ELSE leAt[u]
                             /\ leSeen'[u] = leSeen[u]
  BY <1>1 DEF LE!TypeOK
<1>4. leOp[t] = LE!None
  BY <1>1 DEF OneOwed
<1>5. LE!NotifiedOnce'
  BY <1>1, <1>3, <1>4, OpsApart DEF LE!NotifiedOnce
<1>6. OneOwed'
  BY <1>1, <1>3, <1>4, OpsApart DEF OneOwed, LE!Owed
<1>7. EventKept'
  BY <1>1, <1>3, <1>4, OpsApart DEF EventKept, StillTells
<1> QED BY <1>2, <1>5, <1>6, <1>7

\* The load ends the call: of NotifyOn with its closure scheduled, of the
\* others without a change.
LEMMA LeLoadEndsInv ==
    ASSUME LeInv, NEW t \in RaceThreads, LE!LoadEnds(t)
    PROVE  LeInv'
<1> USE DEF LeInv, LE!LoadEnds, LE!Leave
<1>1. \A u \in RaceThreads : /\ leOp'[u] = IF u = t THEN LE!None ELSE leOp[u]
                             /\ leAt'[u] = IF u = t THEN "out" ELSE leAt[u]
                             /\ u # t => leSeen'[u] = leSeen[u]
  BY DEF LE!TypeOK
<1>2. leState = LE!Ready \/ LE!IsShutdown(leState)
  BY DEF LE!Final
<1>3. \A c \in RaceClosures : leState # LE!Closure(c)
  BY <1>2, WordsApart
<1>4. EventKept'
  BY <1>2 DEF EventKept
<1>5. CASE LE!IsNotifyOn(leOp[t])
  <2>1. PICK c \in RaceClosures : leOp[t] = LE!NotifyOn(c)
    BY <1>5, WordKinds, OpsApart DEF LE!TypeOK
  <2>2. leOp[t][2] = c /\ leOutcome[c] = "owed"
    BY <2>1, OpsApart DEF LE!NotifiedOnce
  <2>3. leOutcome' = [leOutcome EXCEPT ![c] = "error"] /\ leTwice' = FALSE /\ leUnseen' = FALSE
    BY <1>5, <2>2 DEF LE!Schedule, LE!NotifiedOnce
  <2>4. \A d \in RaceClosures : leOutcome'[d] = IF d = c THEN "error" ELSE leOutcome[d]
    BY <2>3 DEF LE!TypeOK
  <2>5. LE!TypeOK'
    BY <2>3, WordsIn DEF LE!TypeOK
  <2>6. \A u \in RaceThreads : leOp'[u] # LE!NotifyOn(c)
    BY <1>1, <1>5, <2>1, OpsApart DEF OneOwed
  <2>7. LE!NotifiedOnce'
    <3>1. \A d \in RaceClosures : leOutcome'[d] = "owed" <=> \E u \in RaceThreads : leOp'[u] = LE!NotifyOn(d)
      BY <1>1, <1>3, <2>1, <2>4, <2>6, OpsApart DEF LE!NotifiedOnce
    <3> QED BY <3>1, <1>3, <2>3 DEF LE!NotifiedOnce
  <2>8. OneOwed'
    BY <1>1, <2>4, OpsApart DEF OneOwed
  <2> QED BY <1>4, <2>5, <2>7, <2>8
<1>6. CASE ~LE!IsNotifyOn(leOp[t])
  <2>1. LE!TypeOK'
    BY <1>6, WordsIn DEF LE!TypeOK
  <2>2. LE!NotifiedOnce'
    BY <1>1, <1>6, OpsApart DEF LE!NotifiedOnce
  <2>3. OneOwed'
    BY <1>1, <1>6, OpsApart DEF OneOwed
  <2> QED BY <1>4, <2>1, <2>2, <2>3
<1> QED BY <1>5, <1>6

\* The load goes on: NotifyOn sees no closure, as its own is the only one.
LEMMA LeLoadInv ==
    ASSUME LeInv, NEW t \in RaceThreads, LE!Load(t)
    PROVE  LeInv'
<1> USE DEF LeInv, LE!Load
<1>1. LE!TypeOK'
  BY DEF LE!TypeOK
<1>2. \A u \in RaceThreads : /\ leAt'[u] = IF u = t THEN "cas" ELSE leAt[u]
                             /\ leSeen'[u] = IF u = t THEN leState ELSE leSeen[u]
  BY DEF LE!TypeOK
<1>3. LE!NotifiedOnce'
  BY DEF LE!NotifiedOnce
<1>4. LE!IsNotifyOn(leOp[t]) => leState \in {LE!NotReady, LE!Ready}
  <2> SUFFICES ASSUME LE!IsNotifyOn(leOp[t]) PROVE leState \in {LE!NotReady, LE!Ready}
    OBVIOUS
  <2>1. PICK c \in RaceClosures : leOp[t] = LE!NotifyOn(c)
    BY WordKinds, OpsApart DEF LE!TypeOK
  <2>2. ~LE!IsShutdown(leState)
    BY <2>1, OpsApart DEF LE!Final
  <2>3. ASSUME NEW d \in RaceClosures, leState = LE!Closure(d) PROVE FALSE
    <3>1. leOutcome[c] = "owed" /\ leOutcome[d] = "owed"
      BY <2>1, <2>3 DEF LE!NotifiedOnce
    <3>2. c = d
      BY <3>1 DEF OneOwed
    <3> QED BY <2>1, <2>3, <3>2 DEF LE!NotifiedOnce
  <2> QED BY <2>2, <2>3, WordKinds, WordsApart DEF LE!TypeOK
<1>5. OneOwed'
  BY <1>2, <1>4, OpsApart DEF OneOwed
<1>6. EventKept'
  BY <1>2 DEF EventKept, StillTells
<1> QED BY <1>1, <1>3, <1>5, <1>6

\* The compare-and-swap succeeds.
LEMMA LeSwapInv ==
    ASSUME LeInv, NEW t \in RaceThreads, LE!Swap(t)
    PROVE  LeInv'
<1> USE DEF LeInv, LE!Leave
<1>1. \A u \in RaceThreads : /\ leOp'[u] = IF u = t THEN LE!None ELSE leOp[u]
                             /\ leAt'[u] = IF u = t THEN "out" ELSE leAt[u]
                             /\ u # t => leSeen'[u] = leSeen[u]
  BY DEF LE!TypeOK, LE!Swap
<1>2. /\ leOp' \in [RaceThreads -> LE!Ops] /\ leSeen' \in [RaceThreads -> LE!Words]
      /\ leAt' \in [RaceThreads -> {"out", "load", "cas"}]
      /\ leDestroyed' \in BOOLEAN
  BY WordsIn DEF LE!TypeOK, LE!Swap
<1>3. leOp[t] # LE!None
  BY DEF OneOwed, LE!Swap
<1>4. CASE ~LE!IsNotifyOn(leOp[t]) /\ LE!IsClosure(leState)
  <2>1. PICK c \in RaceClosures : leState = LE!Closure(c)
    BY <1>4, WordKinds, WordsApart DEF LE!TypeOK
  <2>2. leState[2] = c /\ leOutcome[c] = "owed"
    BY <2>1, WordsApart DEF LE!NotifiedOnce
  <2>3. PICK how \in {"ok", "error"} : LE!Schedule(c, how)
    BY <1>4, <2>2 DEF LE!Swap
  <2>4. /\ leTwice' = FALSE /\ leUnseen' = FALSE
        /\ leOutcome' \in [RaceClosures -> {"new", "owed", "ok", "error"}]
        /\ \A d \in RaceClosures : leOutcome'[d] = IF d = c THEN how ELSE leOutcome[d]
    BY <2>2, <2>3 DEF LE!Schedule, LE!NotifiedOnce, LE!TypeOK
  <2>5. leState' = LE!NotReady \/ \E e \in ShutdownErrors \cup {LE!NoError} : leState' = LE!Shutdown(e)
    BY <1>3, <1>4, WordKinds, OpsApart DEF LE!Swap, LE!Replacement, LE!TypeOK
  <2>6. LE!TypeOK'
    BY <1>2, <2>4, <2>5, WordsIn DEF LE!TypeOK
  <2>7. \A d \in RaceClosures : leOutcome'[d] # "owed"
    BY <2>2, <2>3, <2>4 DEF OneOwed
  <2>8. \A d \in RaceClosures : leState' # LE!Closure(d) /\ \A u \in RaceThreads : leOp'[u] # LE!NotifyOn(d)
    <3>1. \A d \in RaceClosures : leState' # LE!Closure(d)
      BY <2>5, WordsApart
    <3>2. ASSUME NEW d \in RaceClosures, NEW u \in RaceThreads, leOp'[u] = LE!NotifyOn(d) PROVE FALSE
      <4>1. u # t /\ leOp[u] = LE!NotifyOn(d)
        BY <1>1, <3>2, OpsApart
      <4>2. d = c
        BY <2>2, <4>1 DEF LE!NotifiedOnce, OneOwed
      <4> QED BY <2>1, <4>1, <4>2 DEF LE!NotifiedOnce
    <3> QED BY <3>1, <3>2
  <2>9. LE!NotifiedOnce'
    BY <2>4, <2>7, <2>8 DEF LE!NotifiedOnce
  <2>10. OneOwed'
    BY <1>1, <2>7, OpsApart DEF OneOwed
  <2> QED BY <2>4, <2>6, <2>9, <2>10 DEF EventKept
<1>5. CASE LE!IsNotifyOn(leOp[t])
  <2>1. PICK c \in RaceClosures : leOp[t] = LE!NotifyOn(c)
    BY <1>5, WordKinds, OpsApart DEF LE!TypeOK
  <2>2. leOp[t][2] = c /\ leOutcome[c] = "owed"
    BY <2>1, OpsApart DEF LE!NotifiedOnce
  <2>3. leState = LE!NotReady \/ leState = LE!Ready
    BY <1>5 DEF OneOwed, LE!Swap
  <2>4. leDestroyed' = leDestroyed
    BY <2>1, OpsApart DEF LE!Swap, LE!TypeOK
  <2>5. \A d \in RaceClosures \ {c} : leOutcome[d] # "owed"
    BY <2>2 DEF OneOwed
  <2>6. \A u \in RaceThreads, d \in RaceClosures : leOp'[u] # LE!NotifyOn(d)
    BY <1>1, <2>1, <2>2, <2>5, OpsApart DEF LE!NotifiedOnce, OneOwed
  <2>7. CASE leState = LE!Ready
    <3>1. leState' = LE!NotReady /\ LE!Schedule(c, "ok")
      BY <2>1, <2>2, <2>7, OpsApart, WordsApart DEF LE!Swap, LE!Replacement
    <3>2. /\ leTwice' = FALSE /\ leUnseen' = FALSE
          /\ leOutcome' \in [RaceClosures -> {"new", "owed", "ok", "error"}]
          /\ \A d \in RaceClosures : leOutcome'[d] = IF d = c THEN "ok" ELSE leOutcome[d]
      BY <2>2, <3>1 DEF LE!Schedule, LE!NotifiedOnce, LE!TypeOK
    <3>3. LE!TypeOK'
      BY <1>2, <3>1, <3>2, WordsIn DEF LE!TypeOK
    <3>4. LE!NotifiedOnce'
      BY <2>5, <2>6, <3>1, <3>2, WordsApart DEF LE!NotifiedOnce
    <3>5. OneOwed'
      BY <1>1, <2>4, <3>2, OpsApart DEF OneOwed
    <3> QED BY <3>2, <3>3, <3>4, <3>5 DEF EventKept
  <2>8. CASE leState = LE!NotReady
    <3>1. leState' = LE!Closure(c) /\ leOutcome' = leOutcome /\ leTwice' = leTwice /\ leUnseen' = leUnseen
      BY <2>1, <2>2, <2>8, OpsApart, WordsApart DEF LE!Swap, LE!Replacement
    <3>2. LE!TypeOK'
      BY <1>2, <3>1, WordsIn DEF LE!TypeOK
    <3>3. LE!NotifiedOnce'
      BY <2>2, <2>5, <2>6, <3>1, WordsApart DEF LE!NotifiedOnce
    <3>4. OneOwed'
      BY <1>1, <2>4, <3>1, OpsApart DEF OneOwed
    <3>5. EventKept'
      BY <1>1, <2>1, <2>8, <3>1, OpsApart, WordsApart DEF EventKept, StillTells
    <3> QED BY <3>2, <3>3, <3>4, <3>5
  <2> QED BY <2>3, <2>7, <2>8
<1>6. CASE ~LE!IsNotifyOn(leOp[t]) /\ ~LE!IsClosure(leState)
  <2>1. leOutcome' = leOutcome /\ leTwice' = leTwice /\ leUnseen' = leUnseen
    BY <1>6 DEF LE!Swap
  <2>2. leState' = LE!Ready \/ \E e \in ShutdownErrors \cup {LE!NoError} : leState' = LE!Shutdown(e)
    BY <1>3, <1>6, WordKinds, OpsApart DEF LE!Swap, LE!Replacement, LE!TypeOK
  <2>3. \A c \in RaceClosures : leState # LE!Closure(c) /\ leState' # LE!Closure(c)
    BY <1>6, <2>2, WordsApart
  <2>4. LE!TypeOK'
    BY <1>2, <2>1, <2>2, WordsIn DEF LE!TypeOK
  <2>5. LE!NotifiedOnce'
    BY <1>1, <1>6, <2>1, <2>3, OpsApart DEF LE!NotifiedOnce
  <2>6. OneOwed'
    BY <1>1, <2>1, OpsApart DEF OneOwed, LE!Swap, LE!TypeOK
  <2>7. EventKept'
    BY <2>2, WordsApart DEF EventKept
  <2> QED BY <2>4, <2>5, <2>6, <2>7
<1> QED BY <1>4, <1>5, <1>6

\* The compare-and-swap fails: SetReady returns only if the closure that it
\* saw is gone, and then somebody else had scheduled it or will.
LEMMA LeSwapFailsInv ==
    ASSUME LeInv, NEW t \in RaceThreads, LE!SwapFails(t)
    PROVE  LeInv'
<1> USE DEF LeInv, LE!SwapFails, LE!Leave
<1>1. LE!TypeOK'
  BY WordsIn DEF LE!TypeOK
<1>2. CASE leOp[t] = LE!SetReady /\ LE!IsClosure(leSeen[t])
  <2>1. \A u \in RaceThreads : /\ leOp'[u] = IF u = t THEN LE!None ELSE leOp[u]
                               /\ leAt'[u] = IF u = t THEN "out" ELSE leAt[u]
                               /\ u # t => leSeen'[u] = leSeen[u]
    BY <1>2 DEF LE!TypeOK
  <2>2. LE!NotifiedOnce'
    BY <1>2, <2>1, OpsApart DEF LE!NotifiedOnce
  <2>3. OneOwed'
    BY <1>2, <2>1, OpsApart DEF OneOwed
  <2>4. EventKept'
    BY <1>2, <2>1 DEF EventKept, StillTells
  <2> QED BY <1>1, <2>2, <2>3, <2>4
<1>3. CASE ~(leOp[t] = LE!SetReady /\ LE!IsClosure(leSeen[t]))
  <2>1. \A u \in RaceThreads : leAt'[u] = IF u = t THEN "load" ELSE leAt[u]
    BY <1>3 DEF LE!TypeOK
  <2>2. leOp' = leOp /\ leSeen' = leSeen
    BY <1>3
  <2>3. LE!NotifiedOnce'
    BY <2>2 DEF LE!NotifiedOnce
  <2>4. OneOwed'
    BY <2>1, <2>2 DEF OneOwed
  <2>5. EventKept'
    BY <2>1, <2>2 DEF EventKept, StillTells
  <2> QED BY <1>1, <2>3, <2>4, <2>5
<1> QED BY <1>2, <1>3

\* The descriptor comes back from the free list, where it waits for nobody.
LEMMA LeInitEventInv ==
    ASSUME LeInv, LE!InitEvent
    PROVE  LeInv'
<1> USE DEF LeInv, LE!InitEvent
<1>1. LE!TypeOK'
  BY WordsIn DEF LE!TypeOK
<1>2. \A c \in RaceClosures : leOutcome[c] # "owed"
  BY DEF OneOwed
<1>3. LE!NotifiedOnce'
  BY <1>2, WordsApart DEF LE!NotifiedOnce
<1>4. OneOwed'
  BY <1>2 DEF OneOwed
<1> QED BY <1>1, <1>3, <1>4 DEF EventKept

\* Every step keeps the invariant.
LEMMA LeNextInv ==
    ASSUME LeInv, [LE!Next]_leVars
    PROVE  LeInv'
<1>1. CASE UNCHANGED leVars
  BY <1>1 DEF leVars, LeInv, LE!TypeOK, LE!NotifiedOnce, OneOwed, EventKept, StillTells
<1>2. CASE LE!InitEvent
  BY <1>2, LeInitEventInv
<1>3. ASSUME NEW t \in RaceThreads, LE!Begins(t) PROVE LeInv'
  BY <1>3, LeCallNotifyOnInv, LeCallOtherInv DEF LE!Begins
<1>4. ASSUME NEW t \in RaceThreads, LE!Step(t) PROVE LeInv'
  BY <1>4, LeLoadEndsInv, LeLoadInv, LeSwapInv, LeSwapFailsInv DEF LE!Step
<1> QED BY <1>1, <1>2, <1>3, <1>4 DEF LE!Next

-----------------------------------------------------------------------------
(* InciStub                                                                *)

\* The answer that a call of the stub should get.
Expected(f) ==
    IF ST!Paired(f.kind)
    THEN {<<e[1], ST!Served(e[2])>> : e \in ST!ToSet(f.elements)}
    ELSE [i \in DOMAIN f.elements |-> ST!Served(f.elements[i])]

IsCall(c) ==
    c = [request |-> c.request, type |-> c.type, sendSucc |-> c.sendSucc,
         reply |-> c.reply, queried |-> c.queried]

\* Once IncSend has had an answer it is the right one.
AnsweredWell(s) ==
    (stPc[s] # "idle" \/ stCall[s] # Null) /\ stCall[s].sendSucc =>
        /\ stCall[s].type.same => stCall[s].reply = Expected(stCall[s].request)
        /\ stPc[s] # "query" /\ stCall[s].type.query =>
              \A i \in DOMAIN stCall[s].queried : stCall[s].queried[i] = ST!Memory

\* One process at a time has the segment, and no other can use the stub.
StInv ==
    /\ stub \in [StubProcesses -> [hasInit : BOOLEAN, op : Int, dataLength : Nat,
                                   mapped : BOOLEAN]]
    /\ stPc \in [StubProcesses -> {"idle", "query", "return"}]
    /\ process \in [StubProcesses -> {"up", "aborted", "faulted"}]
    /\ stCall = [s \in StubProcesses |-> stCall[s]]
    /\ \A s \in StubProcesses :
          /\ stub[s].mapped => stub[s].hasInit /\ segment \in Seq(Int)
          /\ stub[s].hasInit /\ process[s] = "up" => stub[s].mapped
          /\ stPc[s] # "idle" => process[s] = "up" /\ IsCall(stCall[s])
          /\ AnsweredWell(s)
    /\ \A s, t \in StubProcesses : stub[s].mapped /\ stub[t].mapped => s = t

LEMMA StElements ==
    ASSUME ST!InciStubConstants, NEW f \in ST!Fields
    PROVE  /\ f.kind \in ST!Kinds
           /\ Len(f.elements) \in Nat /\ DOMAIN f.elements = 1 .. Len(f.elements)
           /\ IF ST!Paired(f.kind)
              THEN \A i \in 1 .. Len(f.elements) : f.elements[i] \in Int \X Int
              ELSE f.elements \in Seq(Int)
<1>1. PICK k \in ST!Kinds : f \in [kind : {k}, elements : ST!Elements(k)]
  BY DEF ST!Fields
<1>2. f.kind = k /\ f.elements \in ST!Elements(k)
  BY <1>1
<1>3. ASSUME NEW S, f.elements \in ST!BoundedSeq(S, StubSize)
      PROVE  f.elements \in Seq(S)
  BY <1>3 DEF ST!BoundedSeq, ST!SeqOf, ST!InciStubConstants
<1>4. StubKeys \X StubValues \subseteq Int \X Int /\ StubValues \subseteq Int
  BY DEF ST!InciStubConstants
<1>5. CASE ST!Paired(k)
  <2>1. f.elements \in Seq(StubKeys \X StubValues)
    BY <1>2, <1>3, <1>5 DEF ST!Elements
  <2> QED BY <1>2, <1>4, <1>5, <2>1
<1>6. CASE ~ST!Paired(k)
  <2>1. f.elements \in Seq(StubValues)
    BY <1>2, <1>3, <1>6 DEF ST!Elements
  <2>2. f.elements \in [1 .. Len(f.elements) -> Int] /\ Len(f.elements) \in Nat
    <3> DEFINE n == Len(f.elements)
    <3>1. n \in Nat /\ f.elements \in [1 .. n -> StubValues]
      BY <2>1
    <3> HIDE DEF n
    <3>2. f.elements \in [1 .. n -> Int]
      BY <1>4, <3>1
    <3> QED BY <3>1, <3>2 DEF n
  <2> QED BY <1>2, <1>6, <2>2
<1> QED BY <1>5, <1>6

\* The ints of a field: the elements, or a key and a value for each.
LEMMA StEncode ==
    ASSUME ST!InciStubConstants, NEW f \in ST!Fields
    PROVE  LET n == Len(f.elements)
               E == ST!Encode(f)
           IN  /\ E \in Seq(Int) /\ Len(E) = IF ST!Paired(f.kind) THEN 2 * n ELSE n
               /\ ~ST!Paired(f.kind) => E = f.elements
               /\ ST!Paired(f.kind) => \A i \in 1 .. n :
                     E[2 * i - 1] = f.elements[i][1] /\ E[2 * i] = f.elements[i][2]
<1> DEFINE n == Len(f.elements)
           E == ST!Encode(f)
<1>1. CASE ~ST!Paired(f.kind)
  BY <1>1, StElements DEF ST!Encode
<1>2. CASE ST!Paired(f.kind)
  <2>1. n \in Nat /\ \A i \in 1 .. n : f.elements[i] \in Int \X Int
    BY <1>2, StElements
  <2>2. E = [i \in 1 .. 2 * n |-> f.elements[(i + 1) \div 2][IF i % 2 = 1 THEN 1 ELSE 2]]
    BY <1>2 DEF ST!Encode
  <2> HIDE DEF n, E
  <2>3. ASSUME NEW i \in 1 .. 2 * n PROVE (i + 1) \div 2 \in 1 .. n /\ i % 2 \in {0, 1}
    BY <2>1
  <2>4. ASSUME NEW i \in 1 .. 2 * n PROVE E[i] \in Int
    BY <2>1, <2>2, <2>3
  <2>5. E \in Seq(Int) /\ Len(E) = 2 * n
    <3>1. 2 * n \in Nat /\ E \in [1 .. 2 * n -> Int]
      BY <2>1, <2>2, <2>4
    <3> QED BY <3>1
  <2>6. ASSUME NEW i \in 1 .. n
        PROVE  E[2 * i - 1] = f.elements[i][1] /\ E[2 * i] = f.elements[i][2]
    <3>1. /\ 2 * i - 1 \in 1 .. 2 * n /\ 2 * i \in 1 .. 2 * n
          /\ (2 * i - 1 + 1) \div 2 = i /\ (2 * i - 1) % 2 = 1
          /\ (2 * i + 1) \div 2 = i /\ (2 * i) % 2 = 0
      BY <2>1
    <3> QED BY <2>2, <3>1
  <2> QED BY <1>2, <2>5, <2>6 DEF n, E
<1> QED BY <1>1, <1>2

\* Ints that are written over the beginning of the segment.
LEMMA StCopied ==
    ASSUME NEW ints \in Seq(Int), NEW seg \in Seq(Int)
    PROVE  LET g == ST!Copied(ints, seg)
           IN  /\ g \in Seq(Int) /\ Len(g) \in Nat /\ Len(ints) <= Len(g)
               /\ \A i \in 1 .. Len(ints) : g[i] = ints[i]
<1> DEFINE b == SubSeq(seg, Len(ints) + 1, Len(seg))
           g == ST!Copied(ints, seg)
<1>1. Len(ints) \in Nat /\ Len(seg) \in Nat
  OBVIOUS
<1>2. b \in Seq(Int) /\ Len(b) \in Nat
  <2>1. \A i \in (Len(ints) + 1) .. Len(seg) : seg[i] \in Int
    BY <1>1, ElementOfSeq
  <2>2. b \in Seq(Int)
    BY <1>1, <2>1, SubSeqProperties
  <2> QED BY <2>2
<1>3. g = ints \o b
  BY DEF ST!Copied
<1> HIDE DEF b, g
<1>4. /\ g \in Seq(Int) /\ Len(g) = Len(ints) + Len(b)
      /\ \A i \in 1 .. (Len(ints) + Len(b)) :
            g[i] = IF i <= Len(ints) THEN ints[i] ELSE b[i - Len(ints)]
  BY <1>2, <1>3, ConcatProperties
<1> QED BY <1>1, <1>2, <1>4 DEF g

\* Ints that are copied out again.
LEMMA StPulled ==
    ASSUME NEW seg \in Seq(Int), NEW n \in Nat, n <= Len(seg)
    PROVE  /\ ST!Pulled(seg, n) \in Seq(Int) /\ Len(ST!Pulled(seg, n)) = n
           /\ \A i \in 1 .. n : ST!Pulled(seg, n)[i] = seg[i]
<1> DEFINE p == ST!Pulled(seg, n)
<1>1. Len(seg) \in Nat /\ \A i \in 1 .. n : seg[i] \in Int
  BY ElementOfSeq
<1>2. /\ p \in Seq(Int) /\ Len(p) = IF 1 <= n THEN n - 1 + 1 ELSE 0
      /\ \A i \in 1 .. (n - 1 + 1) : p[i] = seg[1 + i - 1]
  BY <1>1, SubSeqProperties DEF ST!Pulled
<1> HIDE DEF p
<1>3. Len(p) = n
  BY <1>2
<1>4. ASSUME NEW i \in 1 .. n PROVE p[i] = seg[i]
  <2>1. i \in 1 .. (n - 1 + 1) /\ 1 + i - 1 = i
    OBVIOUS
  <2> QED BY <1>2, <2>1
<1> QED BY <1>2, <1>3, <1>4 DEF p

\* A request that is written to the segment, answered there and copied back:
\* whatever the segment held, the reply is that to the request.
LEMMA StRoundTrip ==
    ASSUME ST!InciStubConstants, NEW f \in ST!Fields, NEW seg \in Seq(Int)
    PROVE  LET n == Len(ST!Encode(f))
               g == ST!Answer(f.kind, ST!Copied(ST!Encode(f), seg), n)
           IN  /\ g \in Seq(Int)
               /\ ST!Decode(f.kind, ST!Pulled(g, n)) = Expected(f)
<1> DEFINE E == ST!Encode(f)
           n == Len(E)
           m == Len(f.elements)
           h == ST!Copied(E, seg)
           g == ST!Answer(f.kind, h, n)
           p == ST!Pulled(g, n)
<1>1. /\ E \in Seq(Int) /\ n = IF ST!Paired(f.kind) THEN 2 * m ELSE m
      /\ ~ST!Paired(f.kind) => E = f.elements
      /\ ST!Paired(f.kind) => \A i \in 1 .. m :
            E[2 * i - 1] = f.elements[i][1] /\ E[2 * i] = f.elements[i][2]
  BY StEncode
<1>2. m \in Nat /\ DOMAIN f.elements = 1 .. m
  BY StElements
<1>3. g = [i \in DOMAIN h |->
             IF i > n \/ (ST!Paired(f.kind) /\ i % 2 = 1) THEN h[i] ELSE ST!Served(h[i])]
  BY Zenon DEF ST!Answer
<1> HIDE DEF E
<1>4. n \in Nat /\ h \in Seq(Int) /\ Len(h) \in Nat /\ n <= Len(h)
      /\ \A i \in 1 .. n : h[i] = E[i]
  BY <1>1, StCopied
<1> HIDE DEF n, h, g
<1>5. g \in Seq(Int) /\ Len(g) = Len(h)
  <2>1. DOMAIN h = 1 .. Len(h) /\ \A i \in 1 .. Len(h) : h[i] \in Int
    BY <1>4
  <2>2. g \in [1 .. Len(h) -> Int]
    BY <1>3, <1>4, <2>1 DEF ST!Served
  <2> QED BY <1>4, <2>2
<1>6. p \in Seq(Int) /\ Len(p) = n /\ \A i \in 1 .. n : p[i] = g[i]
  BY <1>4, <1>5, StPulled
<1>7. \A i \in 1 .. n :
         p[i] = IF ST!Paired(f.kind) /\ i % 2 = 1 THEN E[i] ELSE ST!Served(E[i])
  <2> SUFFICES ASSUME NEW i \in 1 .. n
               PROVE  p[i] = IF ST!Paired(f.kind) /\ i % 2 = 1 THEN E[i]
                                                              ELSE ST!Served(E[i])
    OBVIOUS
  <2>1. i \in DOMAIN h /\ ~(i > n)
    BY <1>4
  <2> QED BY <1>3, <1>4, <1>6, <2>1
<1> HIDE DEF p
<1>8. CASE ~ST!Paired(f.kind)
  <2>1. n = m /\ E = f.elements
    BY <1>1, <1>8
  <2>2. DOMAIN p = 1 .. m /\ p = [i \in DOMAIN p |-> p[i]]
    BY <1>6, <2>1
  <2>3. \A i \in 1 .. m : p[i] = ST!Served(f.elements[i])
    BY <1>7, <1>8, <2>1
  <2>4. p = [i \in DOMAIN f.elements |-> ST!Served(f.elements[i])]
    BY <1>2, <2>2, <2>3
  <2>5. ST!Decode(f.kind, p) = Expected(f)
    BY <1>8, <2>4 DEF ST!Decode, Expected
  <2> QED BY <1>5, <2>5 DEF p, g, h, n, E
<1>9. CASE ST!Paired(f.kind)
  <2>1. n = 2 * m /\ n \div 2 = m
    <3>1. n = 2 * m
      BY <1>1, <1>9
    <3> HIDE DEF m
    <3> QED BY <1>2, <3>1
  <2>2. ASSUME NEW i \in 1 .. m
        PROVE  p[2 * i - 1] = f.elements[i][1] /\ p[2 * i] = ST!Served(f.elements[i][2])
    <3>1. /\ 2 * i - 1 \in 1 .. n /\ 2 * i \in 1 .. n
          /\ (2 * i - 1) % 2 = 1 /\ (2 * i) % 2 = 0
      BY <1>2, <2>1
    <3> QED BY <1>1, <1>7, <1>9, <3>1
  <2>3. ST!Decode(f.kind, p) = {<<p[2 * i - 1], p[2 * i]>> : i \in 1 .. m}
    BY <1>6, <1>9, <2>1 DEF ST!Decode
  <2>4. Expected(f) = {<<f.elements[i][1], ST!Served(f.elements[i][2])>> : i \in 1 .. m}
    BY <1>2, <1>9 DEF Expected, ST!ToSet
  <2>5. \A i \in 1 .. m : <<p[2 * i - 1], p[2 * i]>> =
                          <<f.elements[i][1], ST!Served(f.elements[i][2])>>
    BY <2>2
  <2>6. ST!Decode(f.kind, p) = Expected(f)
    <3>1. ASSUME NEW x \in ST!Decode(f.kind, p) PROVE x \in Expected(f)
      <4>1. PICK i \in 1 .. m : x = <<p[2 * i - 1], p[2 * i]>>
        BY <2>3
      <4> QED BY <2>4, <2>5, <4>1
    <3>2. ASSUME NEW x \in Expected(f) PROVE x \in ST!Decode(f.kind, p)
      <4>1. PICK i \in 1 .. m : x = <<f.elements[i][1], ST!Served(f.elements[i][2])>>
        BY <2>4
      <4> QED BY <2>3, <2>5, <4>1
    <3> QED BY <3>1, <3>2
  <2> QED BY <1>5, <2>6 DEF p, g, h, n, E
<1> QED BY <1>8, <1>9

LEMMA StInit == ST!Init => StInv
<1> SUFFICES ASSUME ST!Init PROVE StInv
  OBVIOUS
<1>1. /\ stub = [s \in StubProcesses |-> ST!NewStub]
      /\ stPc = [s \in StubProcesses |-> "idle"] /\ stCall = [s \in StubProcesses |-> Null]
      /\ process = [s \in StubProcesses |-> "up"]
  BY DEF ST!Init
<1>2. ST!NewStub \in [hasInit : BOOLEAN, op : Int, dataLength : Nat, mapped : BOOLEAN]
  BY DEF ST!NewStub
<1>3. ~ST!NewStub.mapped /\ ~ST!NewStub.hasInit
  BY DEF ST!NewStub
<1>4. stub \in [StubProcesses -> [hasInit : BOOLEAN, op : Int, dataLength : Nat,
                                   mapped : BOOLEAN]]
  BY <1>1, <1>2
<1>5. \A s \in StubProcesses : stPc[s] = "idle" /\ stCall[s] = Null /\ stub[s] = ST!NewStub
  BY <1>1
<1>6. \A s \in StubProcesses : AnsweredWell(s)
  BY <1>5 DEF AnsweredWell
<1> QED BY <1>1, <1>3, <1>4, <1>5, <1>6 DEF StInv

\* Calls that a step does not touch.
LEMMA StFrame ==
    ASSUME NEW t, stPc'[t] = stPc[t], stCall'[t] = stCall[t], AnsweredWell(t)
    PROVE  AnsweredWell(t)'
BY DEF AnsweredWell

\* The process that a step ends.
LEMMA StEnds ==
    ASSUME StInv, NEW s \in StubProcesses, NEW how \in {"aborted", "faulted"},
           ST!Ends(s, how),
           stub' \in [StubProcesses -> [hasInit : BOOLEAN, op : Int, dataLength : Nat,
                                        mapped : BOOLEAN]],
           \A t \in StubProcesses : t # s => stub'[t] = stub[t],
           stub'[s].mapped => stub'[s].hasInit,
           \A t \in StubProcesses : stub'[t].mapped => segment' \in Seq(Int),
           \A t \in StubProcesses : t # s /\ stub[t].mapped => ~stub'[s].mapped
    PROVE  StInv'
<1>1. /\ process' = [process EXCEPT ![s] = how] /\ stPc' = [stPc EXCEPT ![s] = "idle"]
      /\ stCall' = [stCall EXCEPT ![s] = Null]
  BY DEF ST!Ends
<1>2. /\ process'[s] = how /\ stPc'[s] = "idle" /\ stCall'[s] = Null
      /\ \A t \in StubProcesses : t # s =>
            process'[t] = process[t] /\ stPc'[t] = stPc[t] /\ stCall'[t] = stCall[t]
  BY <1>1 DEF StInv
<1>3. /\ process' \in [StubProcesses -> {"up", "aborted", "faulted"}]
      /\ stPc' \in [StubProcesses -> {"idle", "query", "return"}]
      /\ stCall' = [t \in StubProcesses |-> stCall'[t]]
  BY <1>1 DEF StInv
<1>4. ASSUME NEW t \in StubProcesses
      PROVE  /\ stub'[t].mapped => stub'[t].hasInit /\ segment' \in Seq(Int)
             /\ stub'[t].hasInit /\ process'[t] = "up" => stub'[t].mapped
             /\ stPc'[t] # "idle" => process'[t] = "up" /\ IsCall(stCall'[t])
             /\ AnsweredWell(t)'
  <2>1. CASE t = s
    <3>1. AnsweredWell(s)'
      BY <1>2 DEF AnsweredWell
    <3> QED BY <1>2, <2>1, <3>1
  <2>2. CASE t # s
    <3>1. AnsweredWell(t)'
      BY <1>2, <2>2, StFrame DEF StInv
    <3> QED BY <1>2, <2>2, <3>1 DEF StInv
  <2> QED BY <2>1, <2>2
<1>5. \A t, u \in StubProcesses : stub'[t].mapped /\ stub'[u].mapped => t = u
  BY DEF StInv
<1> QED BY <1>3, <1>4, <1>5 DEF StInv, IsCall

\* A step that leaves the stubs and the processes alone.
LEMMA StCallStep ==
    ASSUME StInv, NEW s \in StubProcesses, UNCHANGED process,
           NEW at \in {"idle", "query", "return"}, NEW c,
           stPc' = [stPc EXCEPT ![s] = at], stCall' = [stCall EXCEPT ![s] = c],
           at # "idle" => process[s] = "up" /\ IsCall(c),
           c.sendSucc =>
              /\ c.type.same => c.reply = Expected(c.request)
              /\ at # "query" /\ c.type.query =>
                    \A i \in DOMAIN c.queried : c.queried[i] = ST!Memory,
           stub' \in [StubProcesses -> [hasInit : BOOLEAN, op : Int, dataLength : Nat,
                                        mapped : BOOLEAN]],
           \A t \in StubProcesses :
              /\ t # s => stub'[t] = stub[t]
              /\ stub'[t].mapped => stub'[t].hasInit /\ segment' \in Seq(Int)
              /\ t # s /\ stub[t].mapped => ~stub'[s].mapped,
           stub'[s].hasInit /\ process[s] = "up" => stub'[s].mapped
    PROVE  StInv'
<1>1. /\ stPc'[s] = at /\ stCall'[s] = c
      /\ \A t \in StubProcesses : t # s => stPc'[t] = stPc[t] /\ stCall'[t] = stCall[t]
  BY DEF StInv
<1>2. /\ stPc' \in [StubProcesses -> {"idle", "query", "return"}]
      /\ stCall' = [t \in StubProcesses |-> stCall'[t]]
  BY DEF StInv
<1>3. ASSUME NEW t \in StubProcesses
      PROVE  /\ stub'[t].mapped => stub'[t].hasInit /\ segment' \in Seq(Int)
             /\ stub'[t].hasInit /\ process'[t] = "up" => stub'[t].mapped
             /\ stPc'[t] # "idle" => process'[t] = "up" /\ IsCall(stCall'[t])
             /\ AnsweredWell(t)'
  <2>1. CASE t = s
    <3>1. AnsweredWell(s)'
      BY <1>1 DEF AnsweredWell
    <3> QED BY <1>1, <2>1, <3>1
  <2>2. CASE t # s
    <3>1. AnsweredWell(t)'
      BY <1>1, <2>2, StFrame DEF StInv
    <3> QED BY <1>1, <2>2, <3>1 DEF StInv
  <2> QED BY <2>1, <2>2
<1>4. \A t, u \in StubProcesses : stub'[t].mapped /\ stub'[u].mapped => t = u
  BY DEF StInv
<1>5. process' \in [StubProcesses -> {"up", "aborted", "faulted"}]
  BY DEF StInv
<1> QED BY <1>2, <1>3, <1>4, <1>5 DEF StInv, IsCall

LEMMA StSend ==
    ASSUME ST!InciStubConstants, StInv, NEW s \in StubProcesses, NEW f \in ST!Fields,
           NEW type \in ST!ReplyTypes, ST!Send(s, f, type) \/ ST!SendFaults(s, f)
    PROVE  StInv'
<1> DEFINE n == Len(ST!Encode(f))
           st == ST!Initialised(s, f)
           seg == ST!Answer(f.kind, ST!Copied(ST!Encode(f), ST!SegmentOf(s, n)), n)
           Stub == [hasInit : BOOLEAN, op : Int, dataLength : Nat, mapped : BOOLEAN]
           reply == IF type.same THEN ST!Decode(f.kind, ST!Pulled(seg, n)) ELSE Null
           c == [request |-> f, type |-> type, sendSucc |-> TRUE, reply |-> reply,
                 queried |-> Null]
<1>1. /\ stPc[s] = "idle" /\ process[s] = "up" /\ stub' = [stub EXCEPT ![s] = st]
      /\ \/ /\ st.mapped /\ segment' = seg /\ ST!Ends(s, "aborted")
         \/ /\ st.mapped /\ segment' = seg
            /\ stPc' = [stPc EXCEPT ![s] = "query"]
            /\ stCall' = [stCall EXCEPT ![s] = c]
            /\ UNCHANGED process
         \/ ~st.mapped /\ ST!Ends(s, "faulted") /\ UNCHANGED segment
  BY DEF ST!Send, ST!SendFaults
<1>2. n \in Nat
  BY StEncode
<1>3. st \in Stub /\ st.hasInit
  <2>1. stub[s] \in Stub
    BY DEF StInv
  <2>2. CASE stub[s].hasInit
    BY <2>1, <2>2 DEF ST!Initialised
  <2>3. CASE ~stub[s].hasInit
    <3>1. st = [hasInit |-> TRUE, op |-> ST!Op(f.kind), dataLength |-> n,
                mapped |-> segment = Null]
      BY <2>3 DEF ST!Initialised
    <3>2. ST!Op(f.kind) \in Int
      BY StElements DEF ST!Op, ST!Kinds
    <3>3. (segment = Null) \in BOOLEAN
      BY Zenon
    <3> HIDE DEF n, st
    <3> QED BY <1>2, <3>1, <3>2, <3>3
  <2> QED BY <2>2, <2>3
<1>4. st.mapped => ST!SegmentOf(s, n) \in Seq(Int)
  <2>1. CASE stub[s].hasInit
    BY <1>1, <2>1 DEF ST!SegmentOf, StInv
  <2>2. CASE ~stub[s].hasInit
    <3> DEFINE z == [i \in 1 .. n |-> 0]
    <3>1. ST!SegmentOf(s, n) = z
      BY <2>2 DEF ST!SegmentOf
    <3>2. z \in Seq(Int)
      <4> HIDE DEF n
      <4> QED BY <1>2
    <3> QED BY <3>1, <3>2
  <2> QED BY <2>1, <2>2
<1>5. st.mapped => seg \in Seq(Int) /\ ST!Decode(f.kind, ST!Pulled(seg, n)) = Expected(f)
  BY <1>4, StRoundTrip
<1>6. \A t \in StubProcesses : t # s /\ stub[t].mapped => ~st.mapped
  <2> SUFFICES ASSUME NEW t \in StubProcesses, t # s, stub[t].mapped, st.mapped
               PROVE  FALSE
    OBVIOUS
  <2>1. CASE stub[s].hasInit
    BY <1>1, <2>1 DEF StInv
  <2>2. CASE ~stub[s].hasInit
    <3>1. segment = Null
      BY <2>2 DEF ST!Initialised
    <3>2. segment \in Seq(Int)
      BY DEF StInv
    <3> QED BY <3>1, <3>2 DEF ST!InciStubConstants
  <2> QED BY <2>1, <2>2
<1> HIDE DEF st, seg, n
<1>7. /\ stub'[s] = st /\ \A t \in StubProcesses : t # s => stub'[t] = stub[t]
      /\ stub' \in [StubProcesses -> Stub]
  BY <1>1, <1>3 DEF StInv
<1>8. \A t \in StubProcesses : stub'[t].mapped => segment' \in Seq(Int)
  <2>1. CASE st.mapped
    BY <1>1, <1>5, <2>1
  <2>2. CASE ~st.mapped
    BY <1>1, <1>7, <2>2 DEF StInv
  <2> QED BY <2>1, <2>2
<1>9. CASE ST!Ends(s, "aborted") \/ ST!Ends(s, "faulted")
  BY <1>3, <1>6, <1>7, <1>8, <1>9, StEnds
<1>10. CASE /\ st.mapped /\ stPc' = [stPc EXCEPT ![s] = "query"]
            /\ stCall' = [stCall EXCEPT ![s] = c] /\ UNCHANGED process
  <2>1. /\ IsCall(c) /\ c.type = type /\ c.request = f /\ c.reply = reply /\ c.sendSucc
    BY DEF IsCall
  <2>2. c.type.same => c.reply = Expected(c.request)
    BY <1>5, <1>10, <2>1
  <2> HIDE DEF c, reply
  <2>3. \A t \in StubProcesses : stub'[t].mapped => stub'[t].hasInit
    BY <1>3, <1>7 DEF StInv
  <2> QED BY <1>1, <1>6, <1>7, <1>8, <1>10, <2>1, <2>2, <2>3, StCallStep
<1> QED BY <1>1, <1>9, <1>10

LEMMA StQuery ==
    ASSUME ST!InciStubConstants, StInv, NEW s \in StubProcesses, ST!Query(s)
    PROVE  StInv'
<1> DEFINE d == stub[s].dataLength
           n == IF QueryLimit > d THEN d ELSE QueryLimit
           z == [i \in 1 .. n |-> ST!Memory]
           c == [stCall[s] EXCEPT !.queried = ST!Pulled(segment', n)]
<1>1. /\ stPc[s] = "query" /\ stub[s].hasInit /\ segment' = ST!Copied(z, segment)
      /\ stPc' = [stPc EXCEPT ![s] = "return"]
      /\ stCall' = [stCall EXCEPT ![s] = c] /\ UNCHANGED stub /\ UNCHANGED process
  BY DEF ST!Query
<1>2. process[s] = "up" /\ IsCall(stCall[s]) /\ stub[s].mapped /\ segment \in Seq(Int)
  BY <1>1 DEF StInv
<1>3. n \in Nat
  <2>1. stub[s] \in [hasInit : BOOLEAN, op : Int, dataLength : Nat, mapped : BOOLEAN]
    BY DEF StInv
  <2>2. d \in Nat
    BY <2>1
  <2> QED BY <2>2 DEF ST!InciStubConstants
<1> HIDE DEF n
<1>4. z \in Seq(Int) /\ Len(z) = n /\ \A i \in 1 .. n : z[i] = ST!Memory
  BY <1>3 DEF ST!Memory
<1> HIDE DEF z
<1>5. /\ segment' \in Seq(Int) /\ Len(segment') \in Nat /\ n <= Len(segment')
      /\ \A i \in 1 .. n : segment'[i] = ST!Memory
  BY <1>1, <1>2, <1>4, StCopied
<1> DEFINE p == ST!Pulled(segment', n)
<1>6. p \in Seq(Int) /\ Len(p) = n /\ \A i \in 1 .. n : p[i] = segment'[i]
  BY <1>3, <1>5, StPulled
<1>7. \A i \in DOMAIN p : p[i] = ST!Memory
  BY <1>5, <1>6
<1> HIDE DEF p
<1>8. /\ IsCall(c) /\ c.type = stCall[s].type /\ c.request = stCall[s].request
      /\ c.reply = stCall[s].reply /\ c.sendSucc = stCall[s].sendSucc /\ c.queried = p
  BY <1>2 DEF IsCall, p
<1>9. c.sendSucc => (c.type.same => c.reply = Expected(c.request))
  BY <1>1, <1>8 DEF StInv, AnsweredWell
<1> HIDE DEF c
<1>10. c.sendSucc =>
          /\ c.type.same => c.reply = Expected(c.request)
          /\ "return" # "query" /\ c.type.query =>
                \A i \in DOMAIN c.queried : c.queried[i] = ST!Memory
  BY <1>7, <1>8, <1>9
<1>11. /\ stub' \in [StubProcesses -> [hasInit : BOOLEAN, op : Int, dataLength : Nat,
                                       mapped : BOOLEAN]]
       /\ \A t \in StubProcesses :
             /\ t # s => stub'[t] = stub[t]
             /\ stub'[t].mapped => stub'[t].hasInit /\ segment' \in Seq(Int)
             /\ t # s /\ stub[t].mapped => ~stub'[s].mapped
       /\ stub'[s].hasInit /\ process[s] = "up" => stub'[s].mapped
  BY <1>1, <1>5 DEF StInv
<1> QED BY <1>1, <1>2, <1>8, <1>10, <1>11, StCallStep

\* A step of a call that leaves the stub and the segment alone.
LEMMA StPlainStep ==
    ASSUME StInv, NEW s \in StubProcesses, UNCHANGED <<segment, stub, process>>,
           NEW at \in {"idle", "query", "return"}, NEW c,
           stPc' = [stPc EXCEPT ![s] = at], stCall' = [stCall EXCEPT ![s] = c],
           at # "idle" => process[s] = "up" /\ IsCall(c),
           c.sendSucc =>
              /\ c.type.same => c.reply = Expected(c.request)
              /\ at # "query" /\ c.type.query =>
                    \A i \in DOMAIN c.queried : c.queried[i] = ST!Memory
    PROVE  StInv'
<1>1. /\ stub' \in [StubProcesses -> [hasInit : BOOLEAN, op : Int, dataLength : Nat,
                                      mapped : BOOLEAN]]
      /\ \A t \in StubProcesses :
            /\ t # s => stub'[t] = stub[t]
            /\ stub'[t].mapped => stub'[t].hasInit /\ segment' \in Seq(Int)
            /\ t # s /\ stub[t].mapped => ~stub'[s].mapped
      /\ stub'[s].hasInit /\ process[s] = "up" => stub'[s].mapped
  BY DEF StInv
<1> QED BY <1>1, StCallStep

LEMMA StSkip ==
    ASSUME StInv, NEW s \in StubProcesses, NEW type, ST!Skip(s, type)
    PROVE  StInv'
<1> DEFINE c == [request |-> Null, type |-> type, sendSucc |-> FALSE, reply |-> Null,
                 queried |-> Null]
<1>1. /\ process[s] = "up" /\ stPc' = [stPc EXCEPT ![s] = "query"]
      /\ stCall' = [stCall EXCEPT ![s] = c] /\ UNCHANGED <<segment, stub, process>>
  BY DEF ST!Skip
<1>2. IsCall(c) /\ ~c.sendSucc
  BY DEF IsCall
<1> HIDE DEF c
<1> QED BY <1>1, <1>2, StPlainStep

LEMMA StNoQuery ==
    ASSUME StInv, NEW s \in StubProcesses, ST!NoQuery(s)
    PROVE  StInv'
<1>1. /\ stPc[s] = "query" /\ ~stCall[s].type.query
      /\ stPc' = [stPc EXCEPT ![s] = "return"] /\ UNCHANGED <<segment, stub, process>>
      /\ UNCHANGED stCall
  BY DEF ST!NoQuery
<1>2. stCall' = [stCall EXCEPT ![s] = stCall[s]]
  BY <1>1 DEF StInv
<1>3. process[s] = "up" /\ IsCall(stCall[s]) /\ AnsweredWell(s)
  BY <1>1 DEF StInv
<1> DEFINE c == stCall[s]
<1>4. c.sendSucc =>
         /\ c.type.same => c.reply = Expected(c.request)
         /\ "return" # "query" /\ c.type.query =>
               \A i \in DOMAIN c.queried : c.queried[i] = ST!Memory
  BY <1>1, <1>3 DEF AnsweredWell
<1> QED BY <1>1, <1>2, <1>3, <1>4, StPlainStep

LEMMA StReturn ==
    ASSUME StInv, NEW s \in StubProcesses, ST!Return(s)
    PROVE  StInv'
<1>1. /\ stPc[s] = "return" /\ stPc' = [stPc EXCEPT ![s] = "idle"]
      /\ UNCHANGED <<segment, stub, process>>
  BY DEF ST!Return
<1>2. process[s] = "up" /\ IsCall(stCall[s]) /\ AnsweredWell(s)
  BY <1>1 DEF StInv
<1>3. CASE UNCHANGED stCall
  <2> DEFINE c == stCall[s]
  <2>1. stCall' = [stCall EXCEPT ![s] = c]
    BY <1>3 DEF StInv
  <2>2. c.sendSucc =>
           /\ c.type.same => c.reply = Expected(c.request)
           /\ "idle" # "query" /\ c.type.query =>
                 \A i \in DOMAIN c.queried : c.queried[i] = ST!Memory
    BY <1>1, <1>2 DEF AnsweredWell
  <2> QED BY <1>1, <2>1, <2>2, StPlainStep
<1>4. CASE ~stCall[s].sendSucc
           /\ stCall' = [stCall EXCEPT ![s] = [@ EXCEPT !.reply = Null, !.queried = Null]]
  <2> DEFINE c == [stCall[s] EXCEPT !.reply = Null, !.queried = Null]
  <2>1. stCall' = [stCall EXCEPT ![s] = c]
    BY <1>4
  <2>2. ~c.sendSucc
    BY <1>2, <1>4 DEF IsCall
  <2> HIDE DEF c
  <2> QED BY <1>1, <2>1, <2>2, StPlainStep
<1> QED BY <1>3, <1>4 DEF ST!Return

LEMMA StDelete ==
    ASSUME StInv, NEW s \in StubProcesses, ST!Delete(s)
    PROVE  StInv'
<1>1. /\ stPc[s] = "idle" /\ process[s] = "up" /\ stCall' = [stCall EXCEPT ![s] = Null]
      /\ stub' = [stub EXCEPT ![s] = ST!NewStub]
      /\ segment' = (IF stub[s].hasInit THEN Null ELSE segment)
      /\ UNCHANGED stPc /\ UNCHANGED process
  BY DEF ST!Delete
<1>2. /\ ~ST!NewStub.mapped /\ ~ST!NewStub.hasInit
      /\ ST!NewStub \in [hasInit : BOOLEAN, op : Int, dataLength : Nat, mapped : BOOLEAN]
  BY DEF ST!NewStub
<1>3. /\ stCall'[s] = Null /\ stub'[s] = ST!NewStub
      /\ \A t \in StubProcesses : t # s => stCall'[t] = stCall[t] /\ stub'[t] = stub[t]
  BY <1>1 DEF StInv
<1>4. /\ stub' \in [StubProcesses -> [hasInit : BOOLEAN, op : Int, dataLength : Nat,
                                       mapped : BOOLEAN]]
      /\ stCall' = [t \in StubProcesses |-> stCall'[t]]
  BY <1>1, <1>2 DEF StInv
<1>5. ASSUME NEW t \in StubProcesses
      PROVE  /\ stub'[t].mapped => stub'[t].hasInit /\ segment' \in Seq(Int)
             /\ stub'[t].hasInit /\ process'[t] = "up" => stub'[t].mapped
             /\ stPc'[t] # "idle" => process'[t] = "up" /\ IsCall(stCall'[t])
             /\ AnsweredWell(t)'
  <2>1. CASE t = s
    <3>1. AnsweredWell(s)'
      BY <1>1, <1>3 DEF AnsweredWell
    <3> QED BY <1>1, <1>2, <1>3, <2>1, <3>1
  <2>2. CASE t # s
    <3>1. AnsweredWell(t)'
      BY <1>1, <1>3, <2>2, StFrame DEF StInv
    <3>2. stub[t].mapped => ~stub[s].hasInit
      BY <1>1, <2>2 DEF StInv
    <3> QED BY <1>1, <1>3, <2>2, <3>1, <3>2 DEF StInv
  <2> QED BY <2>1, <2>2
<1>6. \A t, u \in StubProcesses : stub'[t].mapped /\ stub'[u].mapped => t = u
  BY <1>2, <1>3 DEF StInv
<1> QED BY <1>1, <1>4, <1>5, <1>6 DEF StInv, IsCall

LEMMA StNext ==
    ASSUME ST!InciStubConstants, StInv, ST!Next \/ UNCHANGED stVars
    PROVE  StInv'
<1>1. CASE UNCHANGED stVars
  <2>1. UNCHANGED <<segment, stub, stPc, stCall, process>>
    BY <1>1 DEF stVars
  <2>2. \A t \in StubProcesses : AnsweredWell(t)'
    BY <2>1, StFrame DEF StInv
  <2> QED BY <2>1, <2>2 DEF StInv, IsCall
<1>2. ASSUME NEW s \in StubProcesses, ST!SendAsserts(s) PROVE StInv'
  <2>1. ST!Ends(s, "aborted") /\ UNCHANGED <<segment, stub>>
    BY <1>2 DEF ST!SendAsserts
  <2> QED BY <2>1, StEnds DEF StInv
<1>3. ASSUME NEW s \in StubProcesses, ST!QueryUninitialised(s) PROVE StInv'
  <2>1. ST!Ends(s, "faulted") /\ UNCHANGED <<segment, stub>>
    BY <1>3 DEF ST!QueryUninitialised
  <2> QED BY <2>1, StEnds DEF StInv
<1>4. CASE ST!Next
  <2>1. PICK s \in StubProcesses :
           \/ ST!SendAsserts(s)
           \/ \E f \in ST!Fields : \/ ST!SendFaults(s, f)
                                   \/ \E type \in ST!ReplyTypes : ST!Send(s, f, type)
           \/ \E type \in ST!ReplyTypes : ST!Skip(s, type)
           \/ ST!Query(s) \/ ST!QueryUninitialised(s) \/ ST!NoQuery(s)
           \/ ST!Return(s) \/ ST!Delete(s)
    BY <1>4, Zenon DEF ST!Next
  <2>2. [same |-> TRUE, query |-> TRUE] \in ST!ReplyTypes
    BY DEF ST!ReplyTypes
  <2> QED BY <1>2, <1>3, <2>1, <2>2, StSend, StSkip, StQuery, StNoQuery, StReturn, StDelete
<1> QED BY <1>1, <1>4

LEMMA StInvGives == StInv => ST!AnswersOwnRequest
BY DEF StInv, AnsweredWell, Expected, ST!AnswersOwnRequest

-----------------------------------------------------------------------------
(* InciComm: the module that proves about it is instantiated as            *)
(* MCProtocols instantiates InciComm itself, and so its definitions are    *)
(* the same.                                                               *)

ICP == INSTANCE InciCommProofs WITH None <- Null, pc <- icPc

LEMMA SameInciComm ==
    /\ IC!InciCommConstants /\ IC!OneCallerPerKey <=> ICP!Clients
    /\ IC!Init <=> ICP!Init
    /\ IC!Next <=> ICP!Next
    /\ UNCHANGED icVars => UNCHANGED ICP!vars
    /\ IC!TypeOK <=> ICP!TypeOK
    /\ IC!PulledIsProcessed <=> ICP!PulledIsProcessed
    /\ IC!NoOverlap <=> ICP!NoOverlap
BY Zenon DEF icVars, ICP!Clients, IC!Keys, IC!Requests, IC!Messages, IC!Contents,
           IC!InciCommConstants, IC!OneCallerPerKey, IC!ipc, IC!objects,
           IC!calls, IC!serving, IC!vars, IC!Init, IC!Got, IC!Sent, IC!Message,
           IC!Content, IC!Request, IC!CreateShareMem, IC!CreateMsgQueue,
           IC!UsersOf, IC!Abandon, IC!ProcessDies, IC!PushFaults, IC!Push,
           IC!SendRequest, IC!RecvReply, IC!Pull, IC!Destruct, IC!ServerStart,
           IC!ServeTest, IC!ServeRecv, IC!HandleCallback, IC!HandleReply,
           IC!ServerExit, IC!ServerDies, IC!Signal, IC!KillAnswered, IC!Handler,
           IC!ServerStep, IC!PushPull, IC!Next, IC!TypeOK,
           IC!PulledIsProcessed, IC!NoOverlap, ICP!Keys, ICP!Requests,
           ICP!Messages, ICP!Contents, ICP!InciCommConstants,
           ICP!OneCallerPerKey, ICP!ipc, ICP!objects, ICP!calls, ICP!serving,
           ICP!vars, ICP!Init, ICP!Got, ICP!Sent, ICP!Message, ICP!Content,
           ICP!Request, ICP!CreateShareMem, ICP!CreateMsgQueue, ICP!UsersOf,
           ICP!Abandon, ICP!ProcessDies, ICP!PushFaults, ICP!Push,
           ICP!SendRequest, ICP!RecvReply, ICP!Pull, ICP!Destruct,
           ICP!ServerStart, ICP!ServeTest, ICP!ServeRecv, ICP!HandleCallback,
           ICP!HandleReply, ICP!ServerExit, ICP!ServerDies, ICP!Signal, ICP!KillAnswered,
           ICP!Handler, ICP!ServerStep, ICP!PushPull, ICP!Next, ICP!TypeOK,
           ICP!PulledIsProcessed, ICP!NoOverlap

\* The invariants of all of them.
AllInv == Inv /\ CaInv /\ LeInv /\ ICP!Inv /\ StInv

LEMMA AllInitInv == AllInit => AllInv
<1> SUFFICES ASSUME AllInit PROVE AllInv
  OBVIOUS
<1>1. Inv
  BY InitInv DEF AllInit
<1>2. CaInv
  BY ProtocolsAssumption, CaInitInv DEF AllInit
<1>3. LeInv
  BY LeInitInv DEF AllInit
<1>4. ICP!Inv
  <2>1. ICP!Clients /\ ICP!Init
    BY ProtocolsAssumption, SameInciComm DEF AllInit
  <2>2. QED
    BY <2>1, ICP!InitInv
<1>5. StInv
  BY StInit DEF AllInit
<1>6. QED
  BY <1>1, <1>2, <1>3, <1>4, <1>5 DEF AllInv

LEMMA AllNextInv == AllInv /\ [AllNext]_allVars => AllInv'
<1> SUFFICES ASSUME AllInv, [AllNext]_allVars PROVE AllInv'
  OBVIOUS
<1>1. /\ [Next]_vars
      /\ CA!Next \/ UNCHANGED caVars
      /\ LE!Next \/ UNCHANGED leVars
      /\ IC!Next \/ UNCHANGED icVars
      /\ ST!Next \/ UNCHANGED stVars
  BY Zenon DEF AllNext, allVars
<1>2. Inv'
  BY <1>1, NextInv DEF AllInv
<1>3. CaInv'
  BY <1>1, ProtocolsAssumption, CaNextInv DEF AllInv
<1>4. LeInv'
  BY <1>1, LeNextInv DEF AllInv
<1>5. ICP!Inv'
  <2>1. ICP!Clients /\ ICP!Inv /\ [ICP!Next]_ICP!vars
    BY <1>1, ProtocolsAssumption, SameInciComm DEF AllInv
  <2>2. QED
    BY <2>1, ICP!NextInv
<1>6. StInv'
  BY <1>1, ProtocolsAssumption, StNext DEF AllInv
<1>7. QED
  BY <1>2, <1>3, <1>4, <1>5, <1>6 DEF AllInv

\* The invariants of all the protocols are kept, whichever of them moves.
THEOREM AllInvariance == AllSpec => []AllInv
BY AllInitInv, AllNextInv, PTL DEF AllSpec

\* The variables of the four keep their types, for any number of calls,
\* threads, closures, errors, clients, requests and crashes.
THEOREM TypesKept == AllSpec => []TypesOK
<1>1. AllInv => TypesOK
  <2> SUFFICES ASSUME AllInv PROVE TypesOK
    OBVIOUS
  <2>1. TypeOK
    BY DEF AllInv, Inv
  <2>2. CA!TypeOK
    BY DEF AllInv, CaInv
  <2>3. LE!TypeOK
    BY DEF AllInv, LeInv
  <2>4. IC!TypeOK
    BY SameInciComm DEF AllInv, ICP!Inv
  <2>5. QED
    BY <2>1, <2>2, <2>3, <2>4 DEF TypesOK
<1>2. QED
  BY <1>1, AllInvariance, PTL

\* A closure registered with SetNotifyOnCancel is scheduled exactly once.
THEOREM CancelSchedulesOnce == AllSpec => []ScheduledOnce
<1>1. AllInv => ScheduledOnce
  BY DEF AllInv, CaInv, ScheduledOnce
<1>2. QED
  BY <1>1, AllInvariance, PTL

\* A closure given to NotifyOn is scheduled exactly once.
THEOREM EventNotifiesOnce == AllSpec => []NotifiedOnce
<1>1. AllInv => NotifiedOnce
  BY DEF AllInv, LeInv, NotifiedOnce
<1>2. QED
  BY <1>1, AllInvariance, PTL

\* No SetReady is lost.
THEOREM EventIsKept == AllSpec => []NoLostEvent
<1>1. AllInv => NoLostEvent
  BY DEF AllInv, LeInv, EventKept, StillTells, LE!NoLostEvent, NoLostEvent
<1>2. QED
  BY <1>1, AllInvariance, PTL

\* What PushPull hands back is the caller's own data, processed: no reply to
\* somebody else, and none to an earlier process with the key, also when client
\* processes or the server process die at any point and clients start again.
THEOREM OwnDataComesBack == AllSpec => []PulledIsProcessed
<1>1. AllInv => PulledIsProcessed
  BY ProtocolsAssumption, SameInciComm, ICP!InvGives DEF AllInv, PulledIsProcessed
<1>2. QED
  BY <1>1, AllInvariance, PTL

\* The server never works on a segment while the client copies.
THEOREM ServerAndClientTakeTurns == AllSpec => []NoOverlap
<1>1. AllInv => NoOverlap
  BY ProtocolsAssumption, SameInciComm, ICP!InvGives DEF AllInv, NoOverlap
<1>2. QED
  BY <1>1, AllInvariance, PTL

\* A call that the aggregation server has answered hands back its own request,
\* each value served once, for requests of any size, whatever an earlier call
\* or a query has left in the segment.
THEOREM AnswersAreOwn == AllSpec => []AnswersOwnRequest
<1>1. AllInv => AnswersOwnRequest
  BY StInvGives DEF AllInv, AnswersOwnRequest
<1>2. QED
  BY <1>1, AllInvariance, PTL
=============================================================================
