----------------------------- MODULE CancelState -----------------------------
(***************************************************************************)
(* The cancellation of a call (src/core/lib/iomgr/call_combiner.cc):       *)
(* CallCombiner::SetNotifyOnCancel and Cancel.                             *)
(*                                                                         *)
(* cancel_state_ is nothing, the watcher (a closure that is registered to  *)
(* be told of a cancellation) or the error the call was cancelled with,    *)
(* changed by two compare-and-swap loops.  A watcher is registered again   *)
(* only after it was scheduled.                                            *)
(***************************************************************************)
CONSTANTS
    Watchers,       \* closures that are registered to be notified
    Threads,        \* threads that call SetNotifyOnCancel and Cancel
    Errors,         \* the errors of Cancel, none of them GRPC_ERROR_NONE
    Null            \* 0 in cancel_state_, and the null closure

\* What is asked of the constants.
CancelStateConstants ==
    /\ Watchers \cap Errors = {}
    /\ Null \notin Watchers \cup Errors
    /\ {"new", "owed", "ok", "twice"} \cap (Errors \cup {Null}) = {}

VARIABLES
    cancel_state,   \* cancel_state_
    at,             \* per thread: "idle", "load" or "cas"
    arg,            \* per thread: the closure or error of its call
    seen,           \* per thread: original_state
    outcome         \* ghost, per watcher: "new", "owed" once registered, then
                    \* "ok" or the error it was scheduled with, or "twice"

vars == <<cancel_state, at, arg, seen, outcome>>

Init ==
    /\ cancel_state = Null
    /\ at = [t \in Threads |-> "idle"]
    /\ arg = [t \in Threads |-> Null]
    /\ seen = [t \in Threads |-> Null]
    /\ outcome = [w \in Watchers |-> "new"]

\* ExecCtx::Run of a closure; a null closure is ignored.
Scheduled(c, how) ==
    IF c \in Watchers
    THEN [outcome EXCEPT ![c] = IF @ = "owed" THEN how ELSE "twice"]
    ELSE outcome

Return(t) ==
    /\ at' = [at EXCEPT ![t] = "idle"]
    /\ arg' = [arg EXCEPT ![t] = Null]
    /\ seen' = [seen EXCEPT ![t] = Null]

CallSetNotifyOnCancel(t, c) ==
    /\ at[t] = "idle"
    /\ c \in Watchers => outcome[c] # "owed"
    /\ at' = [at EXCEPT ![t] = "load"]
    /\ arg' = [arg EXCEPT ![t] = c]
    /\ outcome' = IF c \in Watchers THEN [outcome EXCEPT ![c] = "owed"] ELSE outcome
    /\ UNCHANGED <<cancel_state, seen>>

CallCancel(t, e) ==
    /\ at[t] = "idle"
    /\ at' = [at EXCEPT ![t] = "load"]
    /\ arg' = [arg EXCEPT ![t] = e]
    /\ UNCHANGED <<cancel_state, seen, outcome>>

\* The load of cancel_state_ finds no error.
Load(t) ==
    /\ at[t] = "load"
    /\ cancel_state \notin Errors
    /\ at' = [at EXCEPT ![t] = "cas"]
    /\ seen' = [seen EXCEPT ![t] = cancel_state]
    /\ UNCHANGED <<cancel_state, arg, outcome>>

\* Mutant: the closure is dropped.
AlreadyCancelledDrops(t) ==
    /\ at[t] = "load"
    /\ cancel_state \in Errors
    /\ Return(t)
    /\ UNCHANGED <<cancel_state, outcome>>

\* It finds one: a closure is scheduled at once, a later error is dropped.
AlreadyCancelled(t) ==
    /\ at[t] = "load"
    /\ cancel_state \in Errors
    /\ outcome' = Scheduled(arg[t], cancel_state)
    /\ Return(t)
    /\ UNCHANGED cancel_state

\* The compare-and-swap succeeds; the closure it replaces is scheduled with
\* the error of Cancel, or without one by SetNotifyOnCancel.
Swap(t) ==
    /\ at[t] = "cas"
    /\ cancel_state = seen[t]
    /\ cancel_state' = arg[t]
    /\ outcome' = Scheduled(seen[t], IF arg[t] \in Errors THEN arg[t] ELSE "ok")
    /\ Return(t)

SwapFails(t) ==
    /\ at[t] = "cas"
    /\ cancel_state # seen[t]
    /\ at' = [at EXCEPT ![t] = "load"]
    /\ UNCHANGED <<cancel_state, arg, seen, outcome>>

-----------------------------------------------------------------------------
Next == \E t \in Threads :
    \/ \E w \in Watchers \cup {Null} : CallSetNotifyOnCancel(t, w)
    \/ \E e \in Errors : CallCancel(t, e)
    \/ Load(t) \/ AlreadyCancelled(t) \/ Swap(t) \/ SwapFails(t)

Spec == Init /\ [][Next]_vars

-----------------------------------------------------------------------------
(* Properties                                                              *)

States == Watchers \cup Errors \cup {Null}

TypeOK ==
    /\ cancel_state \in States
    /\ at \in [Threads -> {"idle", "load", "cas"}]
    /\ arg \in [Threads -> States]
    /\ seen \in [Threads -> States]
    /\ outcome \in [Watchers -> {"new", "owed", "ok"} \cup Errors]

InFlight(c) == \E t \in Threads : at[t] # "idle" /\ arg[t] = c

\* A registered closure is scheduled exactly once (call_combiner.h:79-80):
\* never twice, and as long as it was not, it is the registered one or still
\* on its way there.  If it is told of a cancellation, then of the first one,
\* which stays.
ScheduledOnce == \A c \in Watchers :
    /\ outcome[c] # "twice"
    /\ outcome[c] = "owed" <=> cancel_state = c \/ InFlight(c)
    /\ ~(cancel_state = c /\ InFlight(c))
    /\ outcome[c] \in Errors => outcome[c] = cancel_state
=============================================================================
