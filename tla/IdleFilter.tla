----------------------------- MODULE IdleFilter -----------------------------
(***************************************************************************)
(* The client idle filter (core/ext/filters/client_idle): it counts the    *)
(* calls of a channel and sends the channel to IDLE when no call was made  *)
(* for the length of its timer.                                            *)
(*                                                                         *)
(* IdleFilterState keeps its three fields in one word that every operation *)
(* replaces by one compare-and-swap: an operation is one step.  What the   *)
(* filter does with the result (starting the timer, entering IDLE) is a    *)
(* step of its own, and other threads run in between.                      *)
(***************************************************************************)
EXTENDS Integers, FiniteSets

CONSTANT
    Calls           \* calls that may be in progress together

ASSUME CallsFinite == IsFiniteSet(Calls)

VARIABLES
    timerStarted,   \* kTimerStarted of state_
    active,         \* kCallsStartedSinceLastTimerCheck of state_
    count,          \* the call count of state_
    call,           \* per call: "none", "in", or "start": Destroy will start the timer
    timer,          \* idle_timer_ is pending
    closure,        \* idle_timer_callback_: "none", "fired" or "cancelled"
    restart,        \* the callback will start the timer
    entering,       \* the callback will call EnterIdle
    disconnect,     \* StartTransportOp: "no", "counted" or "done"
    busy,           \* history: there was a call since the timer was last set
    used            \* history: there was a call since EnterIdle

state == <<timerStarted, active, count>>
alarm == <<timer, closure, restart, entering>>
vars == <<state, call, alarm, disconnect, busy, used>>

Init ==
    /\ timerStarted = FALSE /\ active = FALSE /\ count = 0
    /\ call = [c \in Calls |-> "none"]
    /\ timer = FALSE /\ closure = "none" /\ restart = FALSE /\ entering = FALSE
    /\ disconnect = "no"
    /\ busy = FALSE /\ used = FALSE

-----------------------------------------------------------------------------
(* Calls                                                                   *)

IncreaseCallCount ==
    /\ active' = TRUE
    /\ count' = count + 1
    /\ busy' = TRUE
    /\ UNCHANGED timerStarted

\* CallData::Init.  The application makes no call on a channel it destroys.
CallInit(c) ==
    /\ call[c] = "none" /\ disconnect = "no"
    /\ call' = [call EXCEPT ![c] = "in"]
    /\ IncreaseCallCount
    /\ used' = TRUE
    /\ UNCHANGED <<alarm, disconnect>>

\* Mutant: the timer is started whether or not it is running.
DecreaseCallCountAlways(c) ==
    /\ count' = count - 1
    /\ IF count' = 0
       THEN /\ timerStarted' = TRUE /\ active' = FALSE
            /\ call' = [call EXCEPT ![c] = "start"]
       ELSE /\ UNCHANGED <<timerStarted, active>>
            /\ call' = [call EXCEPT ![c] = "none"]

\* The last call marks the timer as started, if it is not, and starts it.
DecreaseCallCount(c) ==
    /\ count' = count - 1
    /\ IF count' = 0 /\ ~timerStarted
       THEN /\ timerStarted' = TRUE /\ active' = FALSE
            /\ call' = [call EXCEPT ![c] = "start"]
       ELSE /\ UNCHANGED <<timerStarted, active>>
            /\ call' = [call EXCEPT ![c] = "none"]

\* CallData::Destroy
CallDestroy(c) ==
    /\ call[c] = "in"
    /\ DecreaseCallCount(c)
    /\ UNCHANGED <<alarm, disconnect, busy, used>>

StartIdleTimer ==
    /\ timer' = TRUE
    /\ busy' = (count > 0)

\* CallData::Destroy, after DecreaseCallCount returned true
CallStartsTimer(c) ==
    /\ call[c] = "start"
    /\ call' = [call EXCEPT ![c] = "none"]
    /\ StartIdleTimer
    /\ UNCHANGED <<state, closure, restart, entering, disconnect, used>>

-----------------------------------------------------------------------------
(* The timer                                                               *)

\* The timer expires and schedules its closure.
TimerFires ==
    /\ timer /\ closure = "none"
    /\ timer' = FALSE
    /\ closure' = "fired"
    /\ UNCHANGED <<state, call, restart, entering, disconnect, busy, used>>

\* IdleTimerCallback with an error
CallbackCancelled ==
    /\ closure = "cancelled"
    /\ closure' = "none"
    /\ UNCHANGED <<state, call, timer, restart, entering, disconnect, busy, used>>

\* Mutant: calls that came and went since the last check are not looked at.
CheckTimerCountOnly ==
    IF count > 0
    THEN restart' = TRUE /\ UNCHANGED <<state, entering>>
    ELSE /\ timerStarted' = FALSE /\ active' = FALSE /\ entering' = TRUE
         /\ UNCHANGED <<count, restart>>

\* Mutant: the word of a timer that goes on is written anew.
CheckTimerResetsWord ==
    IF count > 0 \/ active
    THEN /\ timerStarted' = TRUE /\ active' = FALSE /\ count' = 0 /\ restart' = TRUE
         /\ UNCHANGED entering
    ELSE /\ timerStarted' = FALSE /\ entering' = TRUE
         /\ UNCHANGED <<active, count, restart>>

\* Mutant: the record of calls since the last check is never cleared.
CheckTimerKeepsFlag ==
    IF count > 0 \/ active
    THEN restart' = TRUE /\ UNCHANGED <<state, entering>>
    ELSE /\ timerStarted' = FALSE /\ entering' = TRUE
         /\ UNCHANGED <<active, count, restart>>

\* CheckTimer: go on while there are calls, or were since the last check.
CheckTimer ==
    \/ /\ count > 0
       /\ restart' = TRUE
       /\ UNCHANGED <<state, entering>>
    \/ /\ count = 0 /\ active
       /\ active' = FALSE /\ restart' = TRUE
       /\ UNCHANGED <<timerStarted, count, entering>>
    \/ /\ count = 0 /\ ~active
       /\ timerStarted' = FALSE /\ entering' = TRUE
       /\ UNCHANGED <<active, count, restart>>

\* IdleTimerCallback up to the result of CheckTimer.  The timer is not set
\* again before an earlier callback has called EnterIdle: that takes less
\* than the timeout of the timer.
CallbackChecks ==
    /\ closure = "fired" /\ ~entering
    /\ closure' = "none"
    /\ CheckTimer
    /\ UNCHANGED <<call, timer, disconnect, busy, used>>

\* IdleTimerCallback, after CheckTimer returned true
CallbackRestarts ==
    /\ restart
    /\ restart' = FALSE
    /\ StartIdleTimer
    /\ UNCHANGED <<state, call, closure, entering, disconnect, used>>

\* EnterIdle
EnterIdle ==
    /\ entering
    /\ entering' = FALSE
    /\ used' = (count > 0)
    /\ UNCHANGED <<state, call, timer, closure, restart, disconnect, busy>>

-----------------------------------------------------------------------------
(* Disconnecting the channel                                               *)

\* StartTransportOp: the phony call
DisconnectCounts ==
    /\ disconnect = "no"
    /\ disconnect' = "counted"
    /\ IncreaseCallCount
    /\ UNCHANGED <<call, alarm, used>>

\* StartTransportOp: grpc_timer_cancel, without effect on a timer that is
\* not pending
DisconnectCancels ==
    /\ disconnect = "counted"
    /\ disconnect' = "done"
    /\ timer' = FALSE
    /\ closure' = IF timer THEN "cancelled" ELSE closure
    /\ UNCHANGED <<state, call, restart, entering, busy, used>>

-----------------------------------------------------------------------------
Callback == CallbackChecks \/ CallbackRestarts \/ EnterIdle \/ CallbackCancelled

Next ==
    \/ \E c \in Calls : CallInit(c) \/ CallDestroy(c) \/ CallStartsTimer(c)
    \/ TimerFires \/ Callback
    \/ DisconnectCounts \/ DisconnectCancels

Spec == Init /\ [][Next]_vars

\* Threads keep running and the timer expires; nothing makes a call end.
Fairness ==
    /\ \A c \in Calls : WF_vars(CallStartsTimer(c))
    /\ WF_vars(TimerFires)
    /\ WF_vars(CallbackChecks) /\ WF_vars(CallbackRestarts)
    /\ WF_vars(EnterIdle) /\ WF_vars(CallbackCancelled)
    /\ WF_vars(DisconnectCancels)

FairSpec == Spec /\ Fairness

-----------------------------------------------------------------------------
(* Properties                                                              *)

InProgress == {c \in Calls : call[c] = "in"}
Phony == IF disconnect = "no" THEN 0 ELSE 1

\* The variables keep their types, and the word counts the calls in progress
\* and the phony one: the assertion of DecreaseCallCount never fails.
TypeOK ==
    /\ timerStarted \in BOOLEAN /\ active \in BOOLEAN /\ count \in Nat
    /\ call \in [Calls -> {"none", "in", "start"}]
    /\ timer \in BOOLEAN /\ closure \in {"none", "fired", "cancelled"}
    /\ restart \in BOOLEAN /\ entering \in BOOLEAN
    /\ disconnect \in {"no", "counted", "done"}
    /\ busy \in BOOLEAN /\ used \in BOOLEAN
    /\ count = Cardinality(InProgress) + Phony

\* Who is going to start the timer, has set it, or is in its callback.
Starting == {c \in Calls : call[c] = "start"}

\* The timer has one owner: nobody starts it while it is pending, while its
\* closure is scheduled, or while somebody else is about to, so grpc_timer_init
\* is never called on a timer or a closure in use; and it has an owner
\* whenever the word says it was started, until it is cancelled.
OneTimer ==
    /\ \A c, d \in Starting : c = d
    /\ Starting # {} => ~timer /\ closure = "none" /\ ~restart
    /\ timer => closure = "none" /\ ~restart
    /\ closure # "none" => ~restart
    /\ closure = "cancelled" => disconnect = "done"
    /\ (timer \/ closure # "none" \/ restart \/ Starting # {}) => timerStarted
    /\ timerStarted =>
          timer \/ closure # "none" \/ restart \/ Starting # {} \/ disconnect = "done"

\* The activity flag is up while calls are in progress, and while a timer runs
\* that saw a call since it was set: it is cleared only together with the
\* start of a new cycle.
ActivityRecorded ==
    /\ count > 0 => active
    /\ (timer \/ closure = "fired") /\ busy => active

\* "in this case we know that the channel is idle and has been for one full
\* cycle": a callback that decides to enter IDLE saw no call since the timer
\* was set.
IdleForOneCycle ==
    [][(~entering /\ entering') => ~busy /\ InProgress = {}]_vars

\* A channel that was used and has no call goes IDLE, unless a call or a
\* disconnect comes first: it does not stay like that for ever.
QuietGoesIdle == []<>(~used \/ InProgress # {} \/ disconnect # "no")

\* "prevent the timer from being reset by other threads": once the filter has
\* cancelled the timer, nobody sets it again.
NoTimerAfterDisconnect ==
    [][disconnect = "done" => (timer' => timer)]_vars
=============================================================================
