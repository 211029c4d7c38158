---------------------------- MODULE TracingStore ----------------------------
(***************************************************************************)
(* crates/parquet-lab/src/object_store.rs: the object store every reader   *)
(* of this repository talks to.  A MemoryStore answers HEAD, GET and LIST; *)
(* a TracingStore wraps it, puts every request on one of its connections,  *)
(* and prices it with a NetworkModel.  Time is simulated: a request's      *)
(* start and end are computed when it is issued, so the whole protocol is  *)
(* the bookkeeping of free_at, phase_start, phase and requests.            *)
(*                                                                         *)
(* Abstracted: an object is its size (which bytes came back is a span of   *)
(* offsets), the text of a Range header and of `why` are left out.         *)
(***************************************************************************)
EXTENDS Integers, Sequences, FiniteSets, Functions

CONSTANTS
    Keys,         \* the keys a reader may ask for
    ObjectSize,   \* the objects there are: key -> size in bytes
    Ranges,       \* the ranges a GET may ask for
    Connections,  \* the `connections` argument of with_connections
    Latency,      \* NetworkModel.latency_us
    Bandwidth,    \* NetworkModel.bandwidth_bytes_per_sec; 0 is unlimited
    MaxRequests,  \* bound: requests issued
    MaxPhase      \* bound: phases started

\* A span of byte offsets, start included and end not (bytes.rs).
Span == {s \in [start : Nat, end : Nat] : s.start <= s.end}
SpanOf(a, b) == [start |-> a, end |-> b]
SpanLen(s) == s.end - s.start

\* enum GetRange
Bounded(s) == [kind |-> "bounded", span |-> s]
Suffix(n) == [kind |-> "suffix", n |-> n]
All == [kind |-> "all"]
Range_ == [kind : {"bounded"}, span : Span] \cup [kind : {"suffix"}, n : Nat] \cup {All}

ASSUME StoreAssumption ==
    /\ IsFiniteSet(DOMAIN ObjectSize)
    /\ DOMAIN ObjectSize \subseteq Keys
    /\ ObjectSize \in [DOMAIN ObjectSize -> Nat]
    /\ Ranges \subseteq Range_
    /\ Connections \in Nat
    /\ Latency \in Nat
    /\ Bandwidth \in Nat
    /\ MaxRequests \in Nat
    /\ MaxPhase \in Nat

(***************************************************************************)
(* MemoryStore                                                             *)
(***************************************************************************)
NotFound == [status |-> 404, span |-> SpanOf(0, 0)]
NotSatisfiable == [status |-> 416, span |-> SpanOf(0, 0)]

\* Faulty variant: a suffix longer than the object underflows its start.
SuffixUnderflows(size, r) ==
    CASE r.kind = "bounded" -> SpanOf(r.span.start, IF r.span.end < size THEN r.span.end ELSE size)
      [] r.kind = "suffix"  -> SpanOf(size - r.n, size)
      [] r.kind = "all"     -> SpanOf(0, size)

\* The span of an object of `size` bytes that a range names: cut at the end,
\* a suffix longer than the object is the whole of it.
Served(size, r) ==
    CASE r.kind = "bounded" -> SpanOf(r.span.start, IF r.span.end < size THEN r.span.end ELSE size)
      [] r.kind = "suffix"  -> SpanOf(IF r.n < size THEN size - r.n ELSE 0, size)
      [] r.kind = "all"     -> SpanOf(0, size)

Unsatisfiable(size, r) ==
    /\ r.kind = "bounded"
    /\ r.span.start >= size \/ r.span.start = r.span.end

MemoryGet(k, r) ==
    IF k \notin DOMAIN ObjectSize THEN NotFound
    ELSE IF Unsatisfiable(ObjectSize[k], r) THEN NotSatisfiable
    ELSE [status |-> 206, span |-> Served(ObjectSize[k], r)]

MemoryHead(k) ==
    IF k \notin DOMAIN ObjectSize THEN NotFound
    ELSE [status |-> 200, span |-> SpanOf(0, 0)]

(***************************************************************************)
(* NetworkModel::cost_us: the latency, and the bytes' transfer time        *)
(* rounded up to a whole microsecond.                                      *)
(***************************************************************************)
Cost(bytes) ==
    Latency + IF Bandwidth = 0 THEN 0
              ELSE (bytes * 1000000 + (Bandwidth - 1)) \div Bandwidth

(***************************************************************************)
(* TracingStore                                                            *)
(***************************************************************************)
VARIABLES
    free_at,      \* connection -> when it is next free
    phase_start,  \* no request starts before this
    phase,        \* the current phase, from 0
    requests      \* the trace, in the order requests were issued

storeVars == <<free_at, phase_start, phase, requests>>

\* with_connections: at least one connection, numbered from 0.
Conns == 0 .. (IF Connections > 1 THEN Connections ELSE 1) - 1

Request ==
    [method     : {"HEAD", "GET", "LIST"},
     key        : Keys,
     status     : {200, 206, 404, 416},
     returned   : Span,
     start      : Nat,
     end        : Nat,
     connection : Conns,
     phase      : Nat]

StoreInit ==
    /\ free_at = [c \in Conns |-> 0]
    /\ phase_start = 0
    /\ phase = 0
    /\ requests = <<>>

Ends == {requests[i].end : i \in DOMAIN requests}

\* Faulty variant: the last request issued is taken for the last to end.
EndOfLastIssued == IF requests = <<>> THEN 0 ELSE requests[Len(requests)].end

\* elapsed_us: when the last request finished; 0 when there is none.
Elapsed == CHOOSE e \in Ends \cup {0} : \A x \in Ends : x <= e

\* Faulty variants: connections taken in turn; the last to be free taken first.
InTurn == Len(requests) % Cardinality(Conns)
LastFree == CHOOSE c \in Conns : \A d \in Conns : free_at[c] >= free_at[d]

\* The connection that is free first; ties go to the lowest number.
FirstFree ==
    CHOOSE c \in Conns : \A d \in Conns :
        \/ free_at[c] < free_at[d]
        \/ free_at[c] = free_at[d] /\ c <= d

\* Faulty variants: a start that forgets the connection's earlier request, or the phase.
StartWithPhase(c) == phase_start
StartWhenFree(c) == free_at[c]

StartOn(c) == IF free_at[c] < phase_start THEN phase_start ELSE free_at[c]

\* record: price a request and put it on the first free connection.
Record(method, k, answer) ==
    LET c   == FirstFree
        end == StartOn(c) + Cost(SpanLen(answer.span))
    IN  /\ Len(requests) < MaxRequests
        /\ free_at' = [free_at EXCEPT ![c] = end]
        /\ requests' = Append(requests,
              [method |-> method, key |-> k, status |-> answer.status,
               returned |-> answer.span, start |-> StartOn(c), end |-> end,
               connection |-> c, phase |-> phase])
        /\ UNCHANGED <<phase_start, phase>>

Head_(k) == Record("HEAD", k, MemoryHead(k))
Get(k, r) == Record("GET", k, MemoryGet(k, r))
List(k) == Record("LIST", k, [status |-> 200, span |-> SpanOf(0, 0)])

\* next_phase: later requests wait for every request so far.
NextPhase ==
    /\ phase < MaxPhase
    /\ phase_start' = Elapsed
    /\ phase' = phase + 1
    /\ UNCHANGED <<free_at, requests>>

StoreNext ==
    \/ \E k \in Keys : Head_(k)
    \/ \E k \in Keys, r \in Ranges : Get(k, r)
    \/ \E k \in Keys : List(k)
    \/ NextPhase

StoreSpec == StoreInit /\ [][StoreNext]_storeVars

(***************************************************************************)
(* Properties                                                              *)
(***************************************************************************)

\* Every variable has the type of its Rust field, and the trace is of requests.
StoreTypeOK ==
    /\ free_at \in [Conns -> Nat]
    /\ phase_start \in Nat
    /\ phase \in Nat
    /\ requests \in Seq(Request)

\* A connection carries one request at a time: of two requests on the same
\* connection, the earlier has ended when the later starts (record's choice of
\* connection and its update of free_at).
OneAtATime ==
    \A i, j \in DOMAIN requests :
        i < j /\ requests[i].connection = requests[j].connection
            => requests[i].end <= requests[j].start

\* "next_phase makes every later request wait for all earlier ones": a request of a
\* later phase starts after every request of an earlier phase has ended, whichever
\* connections carried them.
PhaseBarrier ==
    \A i, j \in DOMAIN requests :
        requests[i].phase < requests[j].phase => requests[i].end <= requests[j].start

\* Requests start in the order they were issued, though they may end out of order:
\* the request a reader asks for first is never overtaken at the start line.
StartsInOrder ==
    \A i, j \in DOMAIN requests : i < j => requests[i].start <= requests[j].start

\* No connection waits without a reason: a request starts at time 0, or when a request
\* of an earlier phase ended (the phase began), or while every connection has work that
\* lasts at least until then (it had to wait for the first of them).
NoIdleConnection ==
    \A j \in DOMAIN requests :
        \/ requests[j].start = 0
        \/ \E i \in DOMAIN requests : /\ requests[i].phase < requests[j].phase
                                      /\ requests[i].end = requests[j].start
        \/ \A c \in Conns : \E i \in 1 .. j - 1 : /\ requests[i].connection = c
                                                  /\ requests[i].end >= requests[j].start

\* The simulated time of a trace: never more than issuing the same requests one after
\* another over one connection, and never less than spreading their cost perfectly over
\* all connections.
CostOf(request) == request.end - request.start
SumCosts == SumFunction([i \in DOMAIN requests |-> CostOf(requests[i])])

ElapsedBounds ==
    /\ Elapsed <= SumCosts
    /\ SumCosts <= Cardinality(Conns) * Elapsed

\* "With one connection every request starts when the previous one ended", with no gap
\* and from time 0.
OneConnectionIsSequential ==
    Connections <= 1 =>
        \A i \in DOMAIN requests :
            requests[i].start = IF i = 1 THEN 0 ELSE requests[i - 1].end

(***************************************************************************)
(* The inductive invariant: what ties the bookkeeping to the trace.        *)
(***************************************************************************)

\* A request does not end before it starts.
WellTimed == \A i \in DOMAIN requests : requests[i].start <= requests[i].end

\* free_at[c] is the end of the last request on c: 0, or the end of one of its requests,
\* and no request on c ends later.
FreeAtIsLastEnd ==
    /\ \A i \in DOMAIN requests : requests[i].end <= free_at[requests[i].connection]
    /\ \A c \in Conns :
          \/ free_at[c] = 0
          \/ \E i \in DOMAIN requests : /\ requests[i].connection = c
                                        /\ requests[i].end = free_at[c]

\* phase_start is the end of the earlier phases: 0, or the end of one of their requests,
\* and none of them ends later; no request is of a phase still to come.
PhaseStartIsLastEnd ==
    /\ \A i \in DOMAIN requests :
          /\ requests[i].phase <= phase
          /\ requests[i].phase < phase => requests[i].end <= phase_start
    /\ \/ phase_start = 0
       \/ \E i \in DOMAIN requests : /\ requests[i].phase < phase
                                     /\ requests[i].end = phase_start

\* Whatever connection the next request goes on, it starts no sooner than any before it.
StartsCovered ==
    \A i \in DOMAIN requests, c \in Conns : requests[i].start <= StartOn(c)

\* The ends have a largest one, so Elapsed is what its definition says.
HasLastEnd == \E e \in Ends \cup {0} : \A x \in Ends : x <= e

StoreIInv ==
    /\ StoreTypeOK
    /\ WellTimed
    /\ FreeAtIsLastEnd
    /\ PhaseStartIsLastEnd
    /\ StartsCovered
    /\ HasLastEnd
    /\ OneAtATime
    /\ PhaseBarrier
    /\ StartsInOrder
    /\ NoIdleConnection

\* What ElapsedBounds needs besides: the requests' costs fit in the time their connections
\* have been busy.
CostsFit == SumCosts <= SumFunction(free_at)

TimeIInv == Elapsed <= SumCosts /\ CostsFit

\* A trace only grows: what was recorded, and the time it took, is never revised, and
\* simulated time never runs backwards.
TraceIsAppendOnly ==
    [][/\ Len(requests') >= Len(requests)
       /\ SubSeq(requests', 1, Len(requests)) = requests
       /\ Elapsed' >= Elapsed
       /\ phase_start' >= phase_start]_storeVars
=============================================================================
