------------------------------ MODULE InciStub ------------------------------
(***************************************************************************)
(* The stub that sends the blocking unary calls of a channel to the        *)
(* aggregation server when their messages ask for it                       *)
(* (inci_lib/trans/protoTrans.cc), and BlockingUnaryCall, which uses it.   *)
(*                                                                         *)
(* Each stub belongs to the channel of a process of its own with one       *)
(* calling thread; all of them use the key 1, so that only one at a time   *)
(* can have the segment.  A PushPull is one step: InciComm is about what   *)
(* happens inside.  Of a request the model keeps the first field that      *)
(* IncSend recognises, of the type of the reply whether it has a field     *)
(* with that name and whether it has a QueryArray.  Sizes are in ints.     *)
(* The server (external) answers each value with Served(value), leaves     *)
(* keys alone and answers a query with its memory.                         *)
(***************************************************************************)
EXTENDS Integers, Sequences, SequencesExt

CONSTANTS
    Stubs,
    Values, MapKeys,    \* what requests carry: positive integers
    MaxSize,            \* bound on the size of a field
    QueryLimit,         \* 32 * memSz, the most a query asks for
    None

\* What is asked of the constants.
InciStubConstants ==
    /\ Values \subseteq Int /\ MapKeys \subseteq Int
    /\ MaxSize \in Nat /\ QueryLimit \in Nat
    /\ None \notin Seq(Int)

Kinds == {"AggtrArray", "AggtrMap", "MonitorMap", "VoteMap", "CustomMap"}

\* The operation of a field, and whether its elements are pairs
Op(kind) == CASE kind = "AggtrArray" -> 1 [] kind = "AggtrMap" -> 2
              [] kind = "MonitorMap" -> 3 [] kind = "VoteMap" -> 4
              [] kind = "CustomMap" -> 6
Paired(kind) == Op(kind) > 2

\* A field: its elements in the order of the array or in that in which the map
\* is iterated.
Elements(kind) ==
    IF Paired(kind)
    THEN {s \in BoundedSeq(MapKeys \X Values, MaxSize) :
             \A i, j \in DOMAIN s : s[i][1] = s[j][1] => i = j}
    ELSE BoundedSeq(Values, MaxSize)
Fields == UNION {[kind : {k}, elements : Elements(k)] : k \in Kinds}

\* The types of replies
ReplyTypes == [same : BOOLEAN, query : BOOLEAN]

Served(v) == 0 - v
Memory == 0 - 9

VARIABLES
    segment,        \* the content of the shared segment with key 1, or None
    stub,           \* per stub: hasInit, op, dataLength, and whether the
                    \* segment of its client is mapped
    pc,             \* per stub: where its call is
    call,           \* per stub: request, type and content of the reply, and
                    \* what IncSend will return, of the latest call
    process         \* per stub: "up", "aborted" (by an assertion or by the
                    \* reflection of protobuf) or "faulted"

vars == <<segment, stub, pc, call, process>>

NewStub == [hasInit |-> FALSE, op |-> 0, dataLength |-> 0, mapped |-> FALSE]

Init ==
    /\ segment = None
    /\ stub = [s \in Stubs |-> NewStub]
    /\ pc = [s \in Stubs |-> "idle"]
    /\ call = [s \in Stubs |-> None]
    /\ process = [s \in Stubs |-> "up"]

-----------------------------------------------------------------------------
(* Conversions                                                             *)

\* The ints that stand for a field
Encode(field) ==
    IF Paired(field.kind)
    THEN [i \in 1 .. 2 * Len(field.elements) |->
             field.elements[(i + 1) \div 2][IF i % 2 = 1 THEN 1 ELSE 2]]
    ELSE field.elements

\* The elements of the reply; those of a map are inserted one by one.
Decode(kind, ints) ==
    IF Paired(kind)
    THEN {<<ints[2 * i - 1], ints[2 * i]>> : i \in 1 .. Len(ints) \div 2}
    ELSE ints

\* What the server makes of the first n ints of the segment
Answer(kind, ints, n) ==
    [i \in DOMAIN ints |->
        IF i > n \/ (Paired(kind) /\ i % 2 = 1) THEN ints[i] ELSE Served(ints[i])]

-----------------------------------------------------------------------------
(* IncSend                                                                 *)

\* initService, unless it has been called: the constructor of CommClient finds
\* the segment of another stub, or creates its own.
Initialised(s, field) ==
    IF stub[s].hasInit
    THEN stub[s]
    ELSE [hasInit |-> TRUE, op |-> Op(field.kind), dataLength |-> Len(Encode(field)),
          mapped |-> segment = None]

SegmentOf(s, n) == IF stub[s].hasInit THEN segment ELSE [i \in 1 .. n |-> 0]

\* The assertions of IncSend and of PushPull
Asserted(s, field) ==
    /\ Len(field.elements) > 0
    /\ Initialised(s, field).op = Op(field.kind)
    /\ Len(Encode(field)) <= Initialised(s, field).dataLength

\* PushPull: write ints into the segment
Copied(ints, seg) == ints \o SubSeq(seg, Len(ints) + 1, Len(seg))

\* Mutant: all of the segment is copied back.
PulledWhole(seg, n) == seg

\* PushPull: copy n ints back
Pulled(seg, n) == SubSeq(seg, 1, n)

Ends(s, how) ==
    /\ process' = [process EXCEPT ![s] = how]
    /\ pc' = [pc EXCEPT ![s] = "idle"]
    /\ call' = [call EXCEPT ![s] = None]

\* A request with a field for the server.  MonitorMap is read as a map and
\* written to the reply as an array, which reflection refuses.
Send(s, field, type) ==
    LET n == Len(Encode(field))
        st == Initialised(s, field)
        seg == Answer(field.kind, Copied(Encode(field), SegmentOf(s, n)), n)
    IN  /\ pc[s] = "idle" /\ process[s] = "up"
        /\ Asserted(s, field) /\ st.mapped
        /\ stub' = [stub EXCEPT ![s] = st]
        /\ segment' = seg
        /\ IF field.kind = "MonitorMap" /\ type.same
           THEN Ends(s, "aborted")
           ELSE /\ pc' = [pc EXCEPT ![s] = "query"]
                /\ call' = [call EXCEPT ![s] =
                      [request |-> field, type |-> type, sendSucc |-> TRUE,
                       reply |-> IF type.same THEN Decode(field.kind, Pulled(seg, n))
                                 ELSE None,
                       queried |-> None]]
                /\ UNCHANGED process

\* PushPull of a client without a segment
SendFaults(s, field) ==
    /\ pc[s] = "idle" /\ process[s] = "up"
    /\ Asserted(s, field) /\ ~Initialised(s, field).mapped
    /\ stub' = [stub EXCEPT ![s] = Initialised(s, field)]
    /\ Ends(s, "faulted")
    /\ UNCHANGED segment

\* A request that fails one of them, whichever it is
SendAsserts(s) ==
    /\ pc[s] = "idle" /\ process[s] = "up"
    /\ {f \in Fields : ~Asserted(s, f)} # {}
    /\ Ends(s, "aborted")
    /\ UNCHANGED <<segment, stub>>

\* A request without one
Skip(s, type) ==
    /\ pc[s] = "idle" /\ process[s] = "up"
    /\ pc' = [pc EXCEPT ![s] = "query"]
    /\ call' = [call EXCEPT ![s] =
          [request |-> None, type |-> type, sendSucc |-> FALSE, reply |-> None,
           queried |-> None]]
    /\ UNCHANGED <<segment, stub, process>>

\* A QueryArray in the reply: the server puts its memory in place of the zeros
\* that are sent, and the answer fills the field.  It happens after a request
\* has been sent as well.
Query(s) ==
    LET n == IF QueryLimit > stub[s].dataLength THEN stub[s].dataLength ELSE QueryLimit
    IN  /\ pc[s] = "query" /\ call[s].type.query
        /\ stub[s].hasInit
        /\ segment' = Copied([i \in 1 .. n |-> Memory], segment)
        /\ pc' = [pc EXCEPT ![s] = "return"]
        /\ call' = [call EXCEPT ![s].queried = Pulled(segment', n)]
        /\ UNCHANGED <<stub, process>>

\* Without initService, op, dataLength and client are whatever the memory of
\* the stub held.
QueryUninitialised(s) ==
    /\ pc[s] = "query" /\ call[s].type.query
    /\ ~stub[s].hasInit
    /\ Ends(s, "faulted")
    /\ UNCHANGED <<segment, stub>>

NoQuery(s) ==
    /\ pc[s] = "query" /\ ~call[s].type.query
    /\ pc' = [pc EXCEPT ![s] = "return"]
    /\ UNCHANGED <<segment, stub, call, process>>

-----------------------------------------------------------------------------
\* BlockingUnaryCall: when IncSend has returned false the call is made.  If it
\* succeeds, what the peer has sent replaces the reply (ParseFromZeroCopyStream).
Return(s) ==
    /\ pc[s] = "return"
    /\ pc' = [pc EXCEPT ![s] = "idle"]
    /\ \/ UNCHANGED call
       \/ /\ ~call[s].sendSucc
          /\ call' = [call EXCEPT ![s] = [@ EXCEPT !.reply = None, !.queried = None]]
    /\ UNCHANGED <<segment, stub, process>>

\* ~InciStub and a new channel.  Without a segment the destructor of
\* CommClient ends the process.
Delete(s) ==
    /\ pc[s] = "idle" /\ process[s] = "up"
    /\ call' = [call EXCEPT ![s] = None]
    /\ stub' = [stub EXCEPT ![s] = NewStub]
    /\ segment' = IF stub[s].hasInit THEN None ELSE segment
    /\ UNCHANGED <<pc, process>>

Next ==
    \E s \in Stubs :
        \/ SendAsserts(s)
        \/ \E f \in Fields : SendFaults(s, f) \/ \E type \in ReplyTypes : Send(s, f, type)
        \/ \E type \in ReplyTypes : Skip(s, type)
        \/ Query(s) \/ QueryUninitialised(s) \/ NoQuery(s) \/ Return(s) \/ Delete(s)

Spec == Init /\ [][Next]_vars

-----------------------------------------------------------------------------
(* Properties                                                              *)

\* A call that the server has answered hands back its own request, each value
\* served once and each key as it was; neither what an earlier and longer
\* request left in the segment, nor the zeros of a query, nor what another
\* process sent.
AnswersOwnRequest ==
    \A s \in Stubs :
        pc[s] = "idle" /\ call[s] # None /\ call[s].sendSucc =>
            LET c == call[s] IN
            /\ c.type.same =>
                  IF Paired(c.request.kind)
                  THEN c.reply = {<<e[1], Served(e[2])>> : e \in ToSet(c.request.elements)}
                  ELSE c.reply = [i \in DOMAIN c.request.elements |->
                                     Served(c.request.elements[i])]
            /\ c.type.query => \A i \in DOMAIN c.queried : c.queried[i] = Memory
=============================================================================
