---------------------------- MODULE RetryThrottle ----------------------------
(***************************************************************************)
(* The retry throttle of a server name                                     *)
(* (core/ext/filters/client_channel/retry_throttle.cc).  The channels to   *)
(* the server share the entry that ServerRetryThrottleMap keeps under its  *)
(* name; an entry of other parameters replaces it and inherits the share   *)
(* of tokens that is left.  Calls count their failures and successes on    *)
(* the entry they hold, or on what has replaced it.                        *)
(*                                                                         *)
(* Entries are numbered as they are created and never freed: an entry is   *)
(* held by the map or by the one it replaced.  The share of tokens is      *)
(* computed without the rounding of a double.                              *)
(***************************************************************************)
EXTENDS Integers, Sequences

CONSTANTS
    Channels,       \* threads that create a channel's retry filter
    Calls,          \* threads that execute calls
    Params,         \* the parameters of service configs: [max, ratio], in milli_tokens
    MaxEntries      \* bound: entries that are created

\* What is asked of the constants.
RetryThrottleConstants ==
    /\ Params \subseteq [max : Nat \ {0}, ratio : Nat]
    /\ MaxEntries \in Nat

VARIABLES
    entries,        \* the ServerRetryThrottleData: parameters, tokens and
                    \* the entry that replaced it, or 0
    inMap,          \* the entry of the server name in g_map, or 0
    mutex,          \* g_mu: the channel whose entry is being created, or "free"
    held,           \* per call: the entry it was given, or 0
    at,             \* per call: the entry GetReplacementThrottleDataIfNeeded is at
    settled,        \* per call: it found no replacement there
    allowed         \* per call: the last result of RecordFailure

vars == <<entries, inMap, mutex, held, at, settled, allowed>>

Init ==
    /\ entries = <<>>
    /\ inMap = 0
    /\ mutex = "free"
    /\ held = [c \in Calls |-> 0]
    /\ at = [c \in Calls |-> 0]
    /\ settled = [c \in Calls |-> FALSE]
    /\ allowed = [c \in Calls |-> TRUE]

Throttled(e) == e.tokens <= e.max \div 2

-----------------------------------------------------------------------------
(* GetDataForServer                                                        *)

Entry(p, tokens) ==
    [max |-> p.max, ratio |-> p.ratio, tokens |-> tokens, replacement |-> 0]

Matches(p) == inMap # 0 /\ entries[inMap].max = p.max /\ entries[inMap].ratio = p.ratio

\* The constructor of a new entry: all tokens, or the share of the old entry.
Create(ch, p) ==
    /\ mutex = "free" /\ ~Matches(p)
    /\ Len(entries) < MaxEntries
    /\ entries' = Append(entries, Entry(p,
          IF inMap = 0 THEN p.max
          ELSE (entries[inMap].tokens * p.max) \div entries[inMap].max))
    /\ mutex' = ch
    /\ UNCHANGED <<inMap, held, at, settled, allowed>>

\* emplace adds the new entry to the map only when the name is not there yet.
Emplace == inMap' = IF inMap = 0 THEN Len(entries) ELSE inMap

\* The old entry gets its replacement, the constructor ends and emplace with it.
Link(ch) ==
    /\ mutex = ch
    /\ entries' = IF inMap = 0 THEN entries
                  ELSE [entries EXCEPT ![inMap].replacement = Len(entries)]
    /\ Emplace
    /\ mutex' = "free"
    /\ UNCHANGED <<held, at, settled, allowed>>

\* A call of a channel takes over its entry, the one of the map.
StartCall(c) ==
    /\ inMap # 0 /\ at[c] = 0
    /\ held' = [held EXCEPT ![c] = inMap]
    /\ UNCHANGED <<entries, inMap, mutex, at, settled, allowed>>

-----------------------------------------------------------------------------
(* RecordFailure and RecordSuccess                                         *)

Record(c) ==
    /\ held[c] # 0 /\ at[c] = 0
    /\ at' = [at EXCEPT ![c] = held[c]]
    /\ UNCHANGED <<entries, inMap, mutex, held, settled, allowed>>

\* GetReplacementThrottleDataIfNeeded
Follow(c) ==
    /\ at[c] # 0 /\ ~settled[c]
    /\ IF entries[at[c]].replacement = 0
       THEN settled' = [settled EXCEPT ![c] = TRUE] /\ UNCHANGED at
       ELSE at' = [at EXCEPT ![c] = entries[@].replacement] /\ UNCHANGED settled
    /\ UNCHANGED <<entries, inMap, mutex, held, allowed>>

\* gpr_atm_no_barrier_clamped_add
Clamped(e, n) ==
    [e EXCEPT !.tokens = IF @ + n < 0 THEN 0 ELSE IF @ + n > e.max THEN e.max ELSE @ + n]

Add(c, n) ==
    /\ settled[c]
    /\ entries' = [entries EXCEPT ![at[c]] = Clamped(@, n)]
    /\ at' = [at EXCEPT ![c] = 0]
    /\ settled' = [settled EXCEPT ![c] = FALSE]
    /\ UNCHANGED <<inMap, mutex, held>>

Failure(c) ==
    /\ Add(c, -1000)
    /\ allowed' = [allowed EXCEPT ![c] = ~Throttled(entries'[at[c]])]

Success(c) ==
    /\ settled[c]
    /\ Add(c, entries[at[c]].ratio)
    /\ UNCHANGED allowed

-----------------------------------------------------------------------------
Next ==
    \/ \E ch \in Channels : Link(ch) \/ \E p \in Params : Create(ch, p)
    \/ \E c \in Calls :
          StartCall(c) \/ Record(c) \/ Follow(c) \/ Failure(c) \/ Success(c)

Spec == Init /\ [][Next]_vars

-----------------------------------------------------------------------------
(* Properties                                                              *)

\* The entry that calls count on: the last of the chain from the map's entry.
\* A second replacement of the map's entry cuts the first one off.
Current ==
    IF inMap = 0 THEN 0
    ELSE IF entries[inMap].replacement = 0 THEN inMap ELSE entries[inMap].replacement

\* "This ensures that if we're already throttling retries on the old scale, we
\* will start out doing the same thing on the new one": an entry that is
\* created while calls count on a throttled one is throttled.
ThrottlingCarriesOver ==
    [][(Len(entries') > Len(entries) /\ Current # 0 /\ Throttled(entries[Current]))
          => Throttled(entries'[Len(entries')])]_vars
=============================================================================
