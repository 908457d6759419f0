---------------------------- MODULE LockfreeEvent ----------------------------
(***************************************************************************)
(* LockfreeEvent (src/core/lib/iomgr/lockfree_event.{h,cc}): one word      *)
(* holds the readiness of a file descriptor, the closure that waits for    *)
(* it, or the error it was shut down with.  NotifyOn, SetReady,            *)
(* SetShutdown and DestroyEvent are loops of a load and a compare-and-swap *)
(* that run in any thread.                                                 *)
(*                                                                         *)
(* The users of the event see to two things: NotifyOn is not called while  *)
(* another closure is to be notified (the code aborts), and the event is   *)
(* destroyed when no closure is, and initialised again from the free list. *)
(* A closure is used again after it was scheduled.                         *)
(***************************************************************************)
CONSTANTS
    Threads,
    Closures,
    Errors          \* the errors of SetShutdown

VARIABLES
    state,          \* state_
    op,             \* per thread: the call it is in
    at,             \* per thread: "out", "load" or "cas"
    seen,           \* per thread: curr
    outcome,        \* ghost, per closure: "new", "owed" once it was given to
                    \* NotifyOn, then "ok" or "error" as it was scheduled
    twice,          \* ghost: a closure was scheduled without being owed
    unseen,         \* ghost: an event whose SetReady began after the last
                    \* time a closure was scheduled
    destroyed       \* the event is on the free list

vars == <<state, op, at, seen, outcome, twice, unseen, destroyed>>

\* kClosureNotReady, kClosureReady, a closure, an error or nothing with
\* kShutdownBit
NotReady == <<"not ready">>
Ready == <<"ready">>
Closure(c) == <<"closure", c>>
Shutdown(e) == <<"shutdown", e>>
NoError == <<"no error">>

IsShutdown(s) == s[1] = "shutdown"
IsClosure(s) == s[1] = "closure"

\* The calls
None == <<"none">>
SetReady == <<"SetReady">>
Destroy == <<"DestroyEvent">>
NotifyOn(c) == <<"NotifyOn", c>>
SetShutdown(e) == <<"SetShutdown", e>>
IsNotifyOn(o) == o[1] = "NotifyOn"
IsSetShutdown(o) == o[1] = "SetShutdown"

Init ==
    /\ state = NotReady
    /\ op = [t \in Threads |-> None]
    /\ at = [t \in Threads |-> "out"]
    /\ seen = [t \in Threads |-> NotReady]
    /\ outcome = [c \in Closures |-> "new"]
    /\ twice = FALSE
    /\ unseen = FALSE
    /\ destroyed = FALSE

Owed == {c \in Closures : outcome[c] = "owed"}

-----------------------------------------------------------------------------
(* The calls begin                                                         *)

Begin(t, o) ==
    /\ at[t] = "out"
    /\ op' = [op EXCEPT ![t] = o]
    /\ at' = [at EXCEPT ![t] = "load"]
    /\ UNCHANGED <<state, seen, twice>>

CallNotifyOn(t, c) ==
    /\ Owed = {} /\ ~destroyed
    /\ \A u \in Threads : op[u] # Destroy
    /\ Begin(t, NotifyOn(c))
    /\ outcome' = [outcome EXCEPT ![c] = "owed"]
    /\ UNCHANGED <<unseen, destroyed>>

\* The poller saw an event, perhaps of a descriptor that is on the free list.
CallSetReady(t) ==
    /\ Begin(t, SetReady)
    /\ unseen' = TRUE
    /\ UNCHANGED <<outcome, destroyed>>

CallSetShutdown(t, e) ==
    /\ ~destroyed
    /\ Begin(t, SetShutdown(e))
    /\ UNCHANGED <<outcome, unseen, destroyed>>

CallDestroy(t) ==
    /\ Owed = {} /\ ~destroyed
    /\ \A u \in Threads : ~IsSetShutdown(op[u]) /\ op[u] # Destroy
    /\ Begin(t, Destroy)
    /\ UNCHANGED <<outcome, unseen, destroyed>>

-----------------------------------------------------------------------------
(* The loops                                                               *)

Leave(t) ==
    /\ op' = [op EXCEPT ![t] = None]
    /\ at' = [at EXCEPT ![t] = "out"]
    /\ seen' = [seen EXCEPT ![t] = NotReady]

\* ExecCtx::Run
Schedule(c, how) ==
    /\ outcome' = [outcome EXCEPT ![c] = how]
    /\ twice' = (twice \/ outcome[c] # "owed")
    /\ unseen' = FALSE

\* What the load finds that ends the call at once: a shutdown for NotifyOn,
\* SetShutdown and SetReady, readiness for SetReady.
Final(o, s) ==
    \/ IsShutdown(s) /\ o # Destroy
    \/ s = Ready /\ o = SetReady

\* Mutant: a closure that finds the event shut down is forgotten.
LoadEndsSilently(t) ==
    /\ at[t] = "load" /\ Final(op[t], state)
    /\ Leave(t)
    /\ UNCHANGED <<state, outcome, twice, unseen, destroyed>>

LoadEnds(t) ==
    /\ at[t] = "load" /\ Final(op[t], state)
    /\ IF IsNotifyOn(op[t])
       THEN Schedule(op[t][2], "error")
       ELSE UNCHANGED <<outcome, twice, unseen>>
    /\ Leave(t)
    /\ UNCHANGED <<state, destroyed>>

Load(t) ==
    /\ at[t] = "load" /\ ~Final(op[t], state)
    /\ at' = [at EXCEPT ![t] = "cas"]
    /\ seen' = [seen EXCEPT ![t] = state]
    /\ UNCHANGED <<state, op, outcome, twice, unseen, destroyed>>

\* What the compare-and-swap puts in the place of s.  NotifyOn on a closure
\* is the abort(), which its callers rule out.
Replacement(o, s) ==
    CASE IsNotifyOn(o) -> IF s = Ready THEN NotReady ELSE Closure(o[2])
      [] IsSetShutdown(o) -> Shutdown(o[2])
      [] o = SetReady -> IF IsClosure(s) THEN NotReady ELSE Ready
      [] OTHER -> Shutdown(NoError)

\* It succeeds.  A closure that was waiting is scheduled, with the error of
\* SetShutdown or without one; a closure that found the event ready, too.
Swap(t) ==
    /\ at[t] = "cas" /\ state = seen[t]
    /\ state' = Replacement(op[t], state)
    /\ \/ /\ IsNotifyOn(op[t]) /\ state = Ready
          /\ Schedule(op[t][2], "ok")
       \/ /\ ~IsNotifyOn(op[t]) /\ IsClosure(state)
          /\ Schedule(state[2], IF IsSetShutdown(op[t]) THEN "error" ELSE "ok")
       \/ /\ IF IsNotifyOn(op[t]) THEN state # Ready ELSE ~IsClosure(state)
          /\ UNCHANGED <<outcome, twice, unseen>>
    /\ destroyed' = (destroyed \/ op[t] = Destroy)
    /\ Leave(t)

\* Mutant: SetReady returns whatever it had seen.
SwapFailsOnce(t) ==
    /\ at[t] = "cas" /\ state # seen[t]
    /\ IF op[t] = SetReady
       THEN Leave(t)
       ELSE at' = [at EXCEPT ![t] = "load"] /\ UNCHANGED <<op, seen>>
    /\ UNCHANGED <<state, outcome, twice, unseen, destroyed>>

\* It fails: SetReady that saw a closure returns, the others try again.
SwapFails(t) ==
    /\ at[t] = "cas" /\ state # seen[t]
    /\ IF op[t] = SetReady /\ IsClosure(seen[t])
       THEN Leave(t)
       ELSE at' = [at EXCEPT ![t] = "load"] /\ UNCHANGED <<op, seen>>
    /\ UNCHANGED <<state, outcome, twice, unseen, destroyed>>

\* The descriptor is taken from the free list.
InitEvent ==
    /\ destroyed
    /\ state' = NotReady
    /\ destroyed' = FALSE
    /\ unseen' = FALSE
    /\ UNCHANGED <<op, at, seen, outcome, twice>>

-----------------------------------------------------------------------------
Begins(t) ==
    \/ \E c \in Closures : CallNotifyOn(t, c)
    \/ \E e \in Errors : CallSetShutdown(t, e)
    \/ CallSetReady(t) \/ CallDestroy(t)

Step(t) == LoadEnds(t) \/ Load(t) \/ Swap(t) \/ SwapFails(t)

Next == InitEvent \/ \E t \in Threads : Begins(t) \/ Step(t)

Spec == Init /\ [][Next]_vars

-----------------------------------------------------------------------------
(* Properties                                                              *)

Words == {NotReady, Ready} \cup {Closure(c) : c \in Closures}
            \cup {Shutdown(e) : e \in Errors \cup {NoError}}
Ops == {None, SetReady, Destroy} \cup {NotifyOn(c) : c \in Closures}
            \cup {SetShutdown(e) : e \in Errors}

TypeOK ==
    /\ state \in Words
    /\ op \in [Threads -> Ops]
    /\ at \in [Threads -> {"out", "load", "cas"}]
    /\ seen \in [Threads -> Words]
    /\ outcome \in [Closures -> {"new", "owed", "ok", "error"}]
    /\ twice \in BOOLEAN /\ unseen \in BOOLEAN /\ destroyed \in BOOLEAN

\* A closure given to NotifyOn is scheduled once: never twice, and until then
\* it is the word's or still on its way there in NotifyOn, never both.
NotifiedOnce ==
    /\ ~twice
    /\ \A c \in Closures :
          /\ outcome[c] = "owed" <=> state = Closure(c) \/ \E t \in Threads : op[t] = NotifyOn(c)
          /\ state = Closure(c) => \A t \in Threads : op[t] # NotifyOn(c)

\* No event is lost: once its SetReady has returned, also by the way out after
\* a failed compare-and-swap, a closure was scheduled since it began, or the
\* word says ready (or shut down) to the next NotifyOn.
NoLostEvent ==
    unseen /\ (\A t \in Threads : op[t] # SetReady) => state = Ready \/ IsShutdown(state)
=============================================================================
