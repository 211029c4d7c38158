--------------------------- MODULE ReadPathProofs ----------------------------
(***************************************************************************)
(* What every reader of this repository is built on: the store it reads    *)
(* through, and the deciding of what need not be read.                     *)
(*                                                                         *)
(* The store.  For every set of objects and ranges, every network model    *)
(* and any number of connections: the trace of a TracingStore is one that  *)
(* its connections could have carried, and its phases are barriers.        *)
(*                                                                         *)
(* Skipping.  "Every answer is either "skip", which must be certain, or    *)
(* "read"." (prune.rs).  For any column order, file, condition and         *)
(* mechanisms: a plan made from metadata that tells the truth keeps every  *)
(* row that matches, and reads every page that holds a row it keeps.  One  *)
(* more thing is needed, and only of a Bloom filter: that values of one    *)
(* place are one value.  A column of floats has -0.0 and 0.0.              *)
(***************************************************************************)
EXTENDS TracingStore, Prune, DataProofs


(***************************************************************************)
(* The operators the actions are built from                                *)
(***************************************************************************)

\* Connections are numbered from 0, and there is at least one of them.
LEMMA ConnsType == Conns \subseteq Nat /\ 0 \in Conns
BY StoreAssumption DEF Conns

\* What record is handed by head, get and list: a status and a span of bytes.
Answer == [status : {200, 206, 404, 416}, span : Span]

\* MemoryStore::get answers every request, and with a span of the object when it succeeds.
LEMMA MemoryGetType ==
    ASSUME NEW k \in Keys, NEW r \in Ranges
    PROVE  MemoryGet(k, r) \in Answer
<1>1. r \in Range_
  BY StoreAssumption
<1>2. NotFound \in Answer /\ NotSatisfiable \in Answer
  BY DEF NotFound, NotSatisfiable, Answer, Span, SpanOf
<1>3. ASSUME k \in DOMAIN ObjectSize, ~Unsatisfiable(ObjectSize[k], r)
      PROVE  Served(ObjectSize[k], r) \in Span
  <2>1. ObjectSize[k] \in Nat
    BY <1>3, StoreAssumption
  <2>2. CASE r.kind = "bounded"
    <3>1. r.span \in Span
      BY <1>1, <2>2 DEF Range_, All
    <3>2. r.span.start < ObjectSize[k]
      BY <1>3, <2>1, <2>2, <3>1 DEF Unsatisfiable, Span
    <3>3. QED
      BY <2>1, <2>2, <3>1, <3>2 DEF Served, Span, SpanOf
  <2>3. CASE r.kind = "suffix"
    <3>1. r.n \in Nat
      BY <1>1, <2>3 DEF Range_, All
    <3>2. QED
      BY <2>1, <2>3, <3>1 DEF Served, Span, SpanOf
  <2>4. CASE r.kind = "all"
    BY <2>1, <2>4 DEF Served, Span, SpanOf
  <2>5. QED
    BY <1>1, <2>2, <2>3, <2>4 DEF Range_, All
<1>4. QED
  BY <1>2, <1>3 DEF MemoryGet, Answer

\* MemoryStore::head answers every request, and moves no bytes.
LEMMA MemoryHeadType ==
    ASSUME NEW k \in Keys
    PROVE  MemoryHead(k) \in Answer
BY DEF MemoryHead, NotFound, Answer, Span, SpanOf

\* A request costs a whole, non-negative number of microseconds.
LEMMA CostType ==
    ASSUME NEW bytes \in Nat
    PROVE  Cost(bytes) \in Nat
<1>1. CASE Bandwidth = 0
  BY <1>1, StoreAssumption DEF Cost
<1>2. CASE Bandwidth # 0
  <2>1. Bandwidth \in Nat \ {0} /\ Latency \in Nat
    BY <1>2, StoreAssumption
  <2>2. bytes * 1000000 + (Bandwidth - 1) \in Nat
    BY <2>1
  <2>3. \A n \in Nat, d \in Nat \ {0} : n \div d \in Nat
    OBVIOUS
  <2>4. (bytes * 1000000 + (Bandwidth - 1)) \div Bandwidth \in Nat
    BY <2>1, <2>2, <2>3
  <2>5. QED
    BY <1>2, <2>1, <2>4 DEF Cost
<1>3. QED
  BY <1>1, <1>2

\* The connection record picks is one that no other is free before.
LEMMA FirstFreeIsFirst ==
    ASSUME free_at \in [Conns -> Nat]
    PROVE  /\ FirstFree \in Conns
           /\ \A d \in Conns : free_at[FirstFree] <= free_at[d]
<1> DEFINE Times == {free_at[c] : c \in Conns}
<1>1. PICK t \in Times : \A u \in Times : t <= u
  <2>1. free_at[0] \in Times /\ Times \subseteq Nat
    BY ConnsType
  <2>2. QED
    BY <2>1, LeastNatural
<1> DEFINE Earliest == {c \in Conns : free_at[c] = t}
<1>2. PICK c \in Earliest : \A d \in Earliest : c <= d
  <2>1. PICK e \in Earliest : TRUE
    BY <1>1
  <2>2. Earliest \subseteq Nat
    BY ConnsType
  <2>3. QED
    BY <2>1, <2>2, LeastNatural
<1> DEFINE First(b) == \A d \in Conns : \/ free_at[b] < free_at[d]
                                        \/ free_at[b] = free_at[d] /\ b <= d
<1>3. c \in Conns /\ First(c)
  <2> SUFFICES ASSUME NEW d \in Conns
               PROVE  \/ free_at[c] < free_at[d]
                      \/ free_at[c] = free_at[d] /\ c <= d
    OBVIOUS
  <2>1. free_at[c] = t /\ c \in Conns
    OBVIOUS
  <2>2. t <= free_at[d] /\ t \in Nat /\ free_at[d] \in Nat
    BY <1>1
  <2>3. CASE free_at[d] = t
    BY <1>2, <2>1, <2>3
  <2>4. CASE free_at[d] # t
    BY <2>1, <2>2, <2>4
  <2>5. QED
    BY <2>3, <2>4
<1>4. FirstFree \in Conns /\ First(FirstFree)
  <2>1. FirstFree = CHOOSE b \in Conns : First(b)
    BY DEF FirstFree
  <2>2. QED
    BY <1>3, <2>1
<1>5. QED
  BY <1>4

\* Elapsed is the largest end: it ends some request, or is 0, and no request ends later.
LEMMA ElapsedIsLast ==
    ASSUME StoreTypeOK, HasLastEnd
    PROVE  /\ Elapsed \in Nat
           /\ \A i \in DOMAIN requests : requests[i].end <= Elapsed
           /\ \/ Elapsed = 0
              \/ \E i \in DOMAIN requests : requests[i].end = Elapsed
<1>1. Elapsed \in Ends \cup {0} /\ \A x \in Ends : x <= Elapsed
  BY DEF HasLastEnd, Elapsed
<1>2. Ends \subseteq Nat
  <2>1. \A i \in DOMAIN requests : requests[i] \in Request
    BY DEF StoreTypeOK
  <2>2. \A i \in DOMAIN requests : requests[i].end \in Nat
    BY <2>1 DEF Request
  <2>3. QED
    BY <2>2 DEF Ends
<1>3. QED
  BY <1>1, <1>2 DEF Ends

(***************************************************************************)
(* The steps                                                               *)
(***************************************************************************)

\* A step that records an answer: the one shape Head_, Get and List share.
Recording ==
    \E method \in {"HEAD", "GET", "LIST"}, k \in Keys, answer \in Answer :
        Record(method, k, answer)

\* Every step of the store records an answer or starts a phase.
LEMMA StoreSteps ==
    ASSUME StoreNext
    PROVE  Recording \/ NextPhase
<1>1. ASSUME NEW k \in Keys, Head_(k)
      PROVE  Recording
  BY <1>1, MemoryHeadType DEF Head_, Recording
<1>2. ASSUME NEW k \in Keys, NEW r \in Ranges, Get(k, r)
      PROVE  Recording
  BY <1>2, MemoryGetType DEF Get, Recording
<1>3. ASSUME NEW k \in Keys, List(k)
      PROVE  Recording
  <2>1. [status |-> 200, span |-> SpanOf(0, 0)] \in Answer
    BY DEF Answer, Span, SpanOf
  <2>2. QED
    BY <1>3, <2>1 DEF List, Recording
<1>4. QED
  BY <1>1, <1>2, <1>3 DEF StoreNext

\* The inductive invariant holds of a store that has served nothing.
LEMMA StoreInvInit == StoreInit => StoreIInv
<1> SUFFICES ASSUME StoreInit PROVE StoreIInv
  OBVIOUS
<1>1. /\ free_at \in [Conns -> Nat] /\ phase_start = 0 /\ phase = 0
      /\ requests = << >> /\ requests \in Seq(Request) /\ DOMAIN requests = {}
  BY EmptySeq DEF StoreInit
<1>2. Ends = {}
  BY <1>1 DEF Ends
<1>3. FreeAtIsLastEnd
  BY <1>1 DEF FreeAtIsLastEnd, StoreInit
<1>4. QED
  BY <1>1, <1>2, <1>3 DEF StoreIInv, StoreTypeOK, WellTimed, PhaseStartIsLastEnd,
     StartsCovered, HasLastEnd, OneAtATime, PhaseBarrier, StartsInOrder, NoIdleConnection

\* next_phase keeps it: the phase that begins is later than every request so far.
LEMMA StoreInvNextPhase ==
    ASSUME StoreIInv, NextPhase
    PROVE  StoreIInv'
<1>1. /\ phase_start' = Elapsed /\ phase' = phase + 1
      /\ free_at' = free_at /\ requests' = requests
  BY DEF NextPhase
<1>2. /\ Elapsed \in Nat
      /\ \A i \in DOMAIN requests : requests[i].end <= Elapsed
      /\ Elapsed = 0 \/ \E i \in DOMAIN requests : requests[i].end = Elapsed
  BY ElapsedIsLast DEF StoreIInv
<1>3. /\ phase \in Nat /\ phase_start \in Nat /\ free_at \in [Conns -> Nat]
      /\ requests \in Seq(Request)
  BY DEF StoreIInv, StoreTypeOK
<1>4. \A i \in DOMAIN requests : requests[i] \in Request
  BY <1>3
<1>5. \A i \in DOMAIN requests : /\ requests[i].start \in Nat
                                 /\ requests[i].end \in Nat
                                 /\ requests[i].phase \in Nat
  BY <1>4 DEF Request
<1>6. StoreTypeOK'
  BY <1>1, <1>2, <1>3 DEF StoreTypeOK
<1>7. /\ WellTimed' /\ FreeAtIsLastEnd' /\ OneAtATime' /\ PhaseBarrier' /\ StartsInOrder'
      /\ NoIdleConnection' /\ HasLastEnd'
  <2>1. WellTimed' /\ StartsInOrder'
    BY <1>1 DEF StoreIInv, WellTimed, StartsInOrder
  <2>2. FreeAtIsLastEnd'
    BY <1>1 DEF StoreIInv, FreeAtIsLastEnd
  <2>3. OneAtATime' /\ PhaseBarrier'
    BY <1>1 DEF StoreIInv, OneAtATime, PhaseBarrier
  <2>4. NoIdleConnection'
    BY <1>1 DEF StoreIInv, NoIdleConnection
  <2>5. HasLastEnd'
    BY <1>1 DEF StoreIInv, HasLastEnd, Ends
  <2>6. QED
    BY <2>1, <2>2, <2>3, <2>4, <2>5
<1>8. PhaseStartIsLastEnd'
  <2>1. \A i \in DOMAIN requests : requests[i].phase <= phase
    BY DEF StoreIInv, PhaseStartIsLastEnd
  <2>2. \A i \in DOMAIN requests : requests[i].phase <= phase + 1 /\ requests[i].phase < phase + 1
    BY <1>3, <1>5, <2>1
  <2>3. QED
    BY <1>1, <1>2, <2>2 DEF PhaseStartIsLastEnd
<1>9. StartsCovered'
  <2> SUFFICES ASSUME NEW i \in DOMAIN requests, NEW c \in Conns
               PROVE  requests[i].start <= StartOn(c)'
    BY <1>1 DEF StartsCovered
  <2>1. requests[i].start <= Elapsed
    BY <1>2, <1>5 DEF StoreIInv, WellTimed
  <2>2. free_at[c] \in Nat
    BY <1>3
  <2>3. QED
    BY <1>1, <1>2, <1>5, <2>1, <2>2 DEF StartOn
<1>10. QED
  BY <1>6, <1>7, <1>8, <1>9 DEF StoreIInv

\* record keeps it: the request goes on the first free connection, after that
\* connection's last request and after the phase began.
LEMMA StoreInvRecord ==
    ASSUME StoreIInv, NEW method \in {"HEAD", "GET", "LIST"}, NEW k \in Keys,
           NEW answer \in Answer, Record(method, k, answer)
    PROVE  StoreIInv'
<1> DEFINE c == FirstFree
           n == Len(requests)
           start == StartOn(c)
           end == start + Cost(SpanLen(answer.span))
           r == [method |-> method, key |-> k, status |-> answer.status,
                 returned |-> answer.span, start |-> start, end |-> end,
                 connection |-> c, phase |-> phase]
<1>1. /\ free_at' = [free_at EXCEPT ![c] = end]
      /\ requests' = Append(requests, r)
      /\ phase_start' = phase_start /\ phase' = phase
  BY DEF Record
<1>2. /\ phase \in Nat /\ phase_start \in Nat /\ free_at \in [Conns -> Nat]
      /\ requests \in Seq(Request)
  BY DEF StoreIInv, StoreTypeOK
<1>3. c \in Conns /\ \A d \in Conns : free_at[c] <= free_at[d]
  BY <1>2, FirstFreeIsFirst
<1>4. start \in Nat /\ free_at[c] <= start /\ phase_start <= start
  BY <1>2, <1>3 DEF StartOn
<1>5. end \in Nat /\ start <= end
  <2>1. SpanLen(answer.span) \in Nat
    BY DEF Answer, Span, SpanLen
  <2>2. Cost(SpanLen(answer.span)) \in Nat
    BY <2>1, CostType
  <2>3. QED
    BY <1>4, <2>2
<1>6. r \in Request
  BY <1>2, <1>3, <1>4, <1>5 DEF Request, Answer
<1> HIDE DEF c, start, end
<1>7. /\ n \in Nat /\ DOMAIN requests = 1 .. n
      /\ requests' \in Seq(Request) /\ DOMAIN requests' = 1 .. n + 1
      /\ \A i \in 1 .. n : requests'[i] = requests[i]
      /\ requests'[n + 1] = r
  BY <1>1, <1>2, <1>6, AppendProperties, LenProperties
<1>8. \A i \in 1 .. n : /\ requests[i].start \in Nat
                        /\ requests[i].end \in Nat
                        /\ requests[i].connection \in Conns
                        /\ requests[i].phase \in Nat
  <2>1. \A i \in 1 .. n : requests[i] \in Request
    BY <1>2, <1>7
  <2>2. QED
    BY <2>1 DEF Request
<1>9. /\ r.start = start /\ r.end = end /\ r.connection = c /\ r.phase = phase
  OBVIOUS
<1> HIDE DEF r, n
\* The new request starts no sooner than any before it.
<1>10. \A i \in 1 .. n : requests[i].start <= start
  <2>1. \A i \in 1 .. n : requests[i].start <= StartOn(c)
    BY <1>3, <1>7 DEF StoreIInv, StartsCovered
  <2>2. QED
    BY <2>1 DEF start
<1>11. StoreTypeOK'
  BY <1>1, <1>2, <1>3, <1>5, <1>7 DEF StoreTypeOK
<1>12. WellTimed'
  BY <1>5, <1>7, <1>9 DEF StoreIInv, WellTimed
<1>13. FreeAtIsLastEnd'
  <2>1. ASSUME NEW i \in 1 .. n + 1
        PROVE  requests'[i].end <= free_at'[requests'[i].connection]
    <3>1. CASE i = n + 1
      BY <1>1, <1>2, <1>3, <1>5, <1>7, <1>9, <3>1
    <3>2. CASE i # n + 1
      <4>1. i \in 1 .. n /\ requests'[i] = requests[i]
        BY <1>7, <3>2
      <4>2. requests[i].end <= free_at[requests[i].connection]
        BY <1>7, <4>1 DEF StoreIInv, FreeAtIsLastEnd
      <4>3. free_at[requests[i].connection] <= free_at'[requests[i].connection]
        BY <1>1, <1>2, <1>3, <1>4, <1>5, <1>8, <4>1
      <4>4. free_at' \in [Conns -> Nat]
        BY <1>11 DEF StoreTypeOK
      <4>5. QED
        BY <1>2, <1>8, <4>1, <4>2, <4>3, <4>4
    <3>3. QED
      BY <3>1, <3>2
  <2>2. ASSUME NEW d \in Conns
        PROVE  \/ free_at'[d] = 0
               \/ \E i \in 1 .. n + 1 : /\ requests'[i].connection = d
                                        /\ requests'[i].end = free_at'[d]
    <3>1. CASE d = c
      BY <1>1, <1>2, <1>3, <1>7, <1>9, <3>1
    <3>2. CASE d # c
      <4>1. free_at'[d] = free_at[d]
        BY <1>1, <1>2, <3>2
      <4>2. \/ free_at[d] = 0
            \/ \E i \in 1 .. n : /\ requests[i].connection = d
                                 /\ requests[i].end = free_at[d]
        BY <1>7 DEF StoreIInv, FreeAtIsLastEnd
      <4>3. \A i \in 1 .. n : i \in 1 .. n + 1
        BY <1>7
      <4>4. QED
        BY <1>7, <4>1, <4>2, <4>3
    <3>3. QED
      BY <3>1, <3>2
  <2>3. QED
    BY <1>7, <2>1, <2>2 DEF FreeAtIsLastEnd
<1>14. PhaseStartIsLastEnd'
  <2>1. ASSUME NEW i \in 1 .. n + 1
        PROVE  /\ requests'[i].phase <= phase
               /\ requests'[i].phase < phase => requests'[i].end <= phase_start
    <3>1. CASE i = n + 1
      BY <1>2, <1>7, <1>9, <3>1
    <3>2. CASE i # n + 1
      <4>1. i \in 1 .. n /\ requests'[i] = requests[i]
        BY <1>7, <3>2
      <4>2. QED
        BY <1>7, <4>1 DEF StoreIInv, PhaseStartIsLastEnd
    <3>3. QED
      BY <3>1, <3>2
  <2>2. \/ phase_start = 0
        \/ \E i \in 1 .. n + 1 : /\ requests'[i].phase < phase
                                 /\ requests'[i].end = phase_start
    <3>1. \/ phase_start = 0
          \/ \E i \in 1 .. n : /\ requests[i].phase < phase
                               /\ requests[i].end = phase_start
      BY <1>7 DEF StoreIInv, PhaseStartIsLastEnd
    <3>2. \A i \in 1 .. n : i \in 1 .. n + 1
      BY <1>7
    <3>3. QED
      BY <1>7, <3>1, <3>2
  <2>3. QED
    BY <1>1, <1>7, <2>1, <2>2 DEF PhaseStartIsLastEnd
<1>15. StartsCovered'
  <2> SUFFICES ASSUME NEW i \in 1 .. n + 1, NEW d \in Conns
               PROVE  requests'[i].start <= StartOn(d)'
    BY <1>7 DEF StartsCovered
  <2>1. start <= StartOn(d)'
    BY <1>1, <1>2, <1>3, <1>4, <1>5 DEF StartOn, start
  <2>2. StartOn(d)' \in Nat
    BY <1>1, <1>2, <1>3, <1>5 DEF StartOn
  <2>3. CASE i = n + 1
    BY <1>7, <1>9, <2>1, <2>3
  <2>4. CASE i # n + 1
    <3>1. i \in 1 .. n /\ requests'[i] = requests[i]
      BY <1>7, <2>4
    <3>2. QED
      BY <1>4, <1>8, <1>10, <2>1, <2>2, <3>1
  <2>5. QED
    BY <2>3, <2>4
<1>16. HasLastEnd'
  <2>1. Ends' = Ends \cup {end}
    <3>1. Ends' = {requests'[i].end : i \in 1 .. n + 1}
      BY <1>7 DEF Ends
    <3>2. Ends = {requests[i].end : i \in 1 .. n}
      BY <1>7 DEF Ends
    <3>3. \A i \in 1 .. n + 1 : i \in 1 .. n \/ i = n + 1
      BY <1>7
    <3>4. n + 1 \in 1 .. n + 1 /\ \A i \in 1 .. n : i \in 1 .. n + 1
      BY <1>7
    <3>5. \A x \in Ends' : x \in Ends \cup {end}
      BY <1>7, <1>9, <3>1, <3>2, <3>3
    <3>6. \A x \in Ends \cup {end} : x \in Ends'
      BY <1>7, <1>9, <3>1, <3>2, <3>4
    <3>7. QED
      BY <3>5, <3>6
  <2>2. PICK e \in Ends \cup {0} : \A x \in Ends : x <= e
    BY DEF StoreIInv, HasLastEnd
  <2>3. Ends \subseteq Nat
    BY <1>7, <1>8 DEF Ends
  <2>4. CASE e <= end
    BY <1>5, <2>1, <2>2, <2>3, <2>4 DEF HasLastEnd
  <2>5. CASE ~ (e <= end)
    BY <1>5, <2>1, <2>2, <2>3, <2>5 DEF HasLastEnd
  <2>6. QED
    BY <2>4, <2>5
<1>17. OneAtATime'
  <2> SUFFICES ASSUME NEW i \in 1 .. n + 1, NEW j \in 1 .. n + 1, i < j,
                      requests'[i].connection = requests'[j].connection
               PROVE  requests'[i].end <= requests'[j].start
    BY <1>7 DEF OneAtATime
  <2>1. i \in 1 .. n /\ requests'[i] = requests[i]
    BY <1>7
  <2>2. CASE j = n + 1
    <3>1. requests[i].connection = c /\ requests'[j].start = start
      BY <1>7, <1>9, <2>1, <2>2
    <3>2. requests[i].end <= free_at[c]
      BY <1>7, <2>1, <3>1 DEF StoreIInv, FreeAtIsLastEnd
    <3>3. QED
      BY <1>2, <1>3, <1>4, <1>8, <2>1, <3>1, <3>2
  <2>3. CASE j # n + 1
    <3>1. j \in 1 .. n /\ requests'[j] = requests[j]
      BY <1>7, <2>3
    <3>2. QED
      BY <1>7, <2>1, <3>1 DEF StoreIInv, OneAtATime
  <2>4. QED
    BY <2>2, <2>3
<1>18. PhaseBarrier'
  <2>0. SUFFICES ASSUME NEW i \in 1 .. n + 1, NEW j \in 1 .. n + 1,
                        requests'[i].phase < requests'[j].phase
                 PROVE  requests'[i].end <= requests'[j].start
    BY <1>7 DEF PhaseBarrier
  <2>1. \A m \in 1 .. n : /\ requests[m].phase <= phase
                          /\ requests[m].phase < phase => requests[m].end <= phase_start
    BY <1>7 DEF StoreIInv, PhaseStartIsLastEnd
  <2>2. i \in 1 .. n /\ requests'[i] = requests[i]
    <3>1. CASE i = n + 1
      <4>1. requests'[i].phase = phase
        BY <1>7, <1>9, <3>1
      <4>2. CASE j = n + 1
        BY <1>2, <2>0, <3>1, <4>1, <4>2
      <4>3. CASE j # n + 1
        <5>1. j \in 1 .. n /\ requests'[j] = requests[j]
          BY <1>7, <4>3
        <5>2. phase < requests[j].phase
          BY <2>0, <4>1, <5>1
        <5>4. requests[j].phase <= phase
          BY <2>1, <5>1
        <5>3. QED
          BY <1>2, <1>8, <5>1, <5>2, <5>4
      <4>4. QED
        BY <4>2, <4>3
    <3>2. QED
      BY <1>7, <3>1
  <2>3. CASE j = n + 1
    <3>1. requests'[j].phase = phase /\ requests'[j].start = start
      BY <1>7, <1>9, <2>3
    <3>2. requests[i].phase < phase
      BY <2>0, <2>2, <3>1
    <3>3. requests[i].end <= phase_start
      BY <2>1, <2>2, <3>2
    <3>4. QED
      BY <1>2, <1>4, <1>8, <2>2, <3>1, <3>3
  <2>4. CASE j # n + 1
    <3>1. j \in 1 .. n /\ requests'[j] = requests[j]
      BY <1>7, <2>4
    <3>2. QED
      BY <1>7, <2>0, <2>2, <3>1 DEF StoreIInv, PhaseBarrier
  <2>5. QED
    BY <2>3, <2>4
<1>19. StartsInOrder'
  <2> SUFFICES ASSUME NEW i \in 1 .. n + 1, NEW j \in 1 .. n + 1, i < j
               PROVE  requests'[i].start <= requests'[j].start
    BY <1>7 DEF StartsInOrder
  <2>1. i \in 1 .. n /\ requests'[i] = requests[i]
    BY <1>7
  <2>2. CASE j = n + 1
    BY <1>7, <1>9, <1>10, <2>1, <2>2
  <2>3. CASE j # n + 1
    <3>1. j \in 1 .. n /\ requests'[j] = requests[j]
      BY <1>7, <2>3
    <3>2. QED
      BY <1>7, <2>1, <3>1 DEF StoreIInv, StartsInOrder
  <2>4. QED
    BY <2>2, <2>3
<1>20. NoIdleConnection'
  <2> DEFINE Idle(j) ==
        \/ requests'[j].start = 0
        \/ \E i \in 1 .. n + 1 : /\ requests'[i].phase < requests'[j].phase
                                 /\ requests'[i].end = requests'[j].start
        \/ \A d \in Conns : \E i \in 1 .. j - 1 :
              /\ requests'[i].connection = d
              /\ requests'[i].end >= requests'[j].start
  <2> SUFFICES ASSUME NEW j \in 1 .. n + 1
               PROVE  Idle(j)
    BY <1>7 DEF NoIdleConnection
  <2>1. \A i \in 1 .. n : i \in 1 .. n + 1
    BY <1>7
  <2>2. CASE j = n + 1
    <3>1. requests'[j].phase = phase /\ requests'[j].start = start
      BY <1>7, <1>9, <2>2
    <3>2. CASE start = phase_start
      <4>1. \/ phase_start = 0
            \/ \E i \in 1 .. n : /\ requests[i].phase < phase
                                 /\ requests[i].end = phase_start
        BY <1>7 DEF StoreIInv, PhaseStartIsLastEnd
      <4>2. QED
        BY <1>7, <2>1, <3>1, <3>2, <4>1
    <3>3. CASE start # phase_start
      <4>1. start = free_at[c] /\ start > 0
        BY <1>2, <1>3, <1>4, <3>3 DEF StartOn, start
      <4>2. ASSUME NEW d \in Conns
            PROVE  \E i \in 1 .. n : /\ requests[i].connection = d
                                     /\ requests[i].end >= start
        <5>1. free_at[d] >= start /\ free_at[d] # 0
          BY <1>2, <1>3, <4>1
        <5>2. PICK i \in 1 .. n : /\ requests[i].connection = d
                                  /\ requests[i].end = free_at[d]
          BY <1>7, <5>1 DEF StoreIInv, FreeAtIsLastEnd
        <5>3. QED
          BY <5>1, <5>2
      <4>3. j - 1 = n
        BY <1>7, <2>2
      <4>4. QED
        BY <1>7, <3>1, <4>2, <4>3
    <3>4. QED
      BY <3>2, <3>3
  <2>3. CASE j # n + 1
    <3>1. j \in 1 .. n /\ requests'[j] = requests[j]
      BY <1>7, <2>3
    <3>2. \/ requests[j].start = 0
          \/ \E i \in 1 .. n : /\ requests[i].phase < requests[j].phase
                               /\ requests[i].end = requests[j].start
          \/ \A d \in Conns : \E i \in 1 .. j - 1 :
                /\ requests[i].connection = d
                /\ requests[i].end >= requests[j].start
      BY <1>7, <3>1 DEF StoreIInv, NoIdleConnection
    <3>3. \A i \in 1 .. j - 1 : i \in 1 .. n /\ requests'[i] = requests[i]
      BY <1>7, <3>1
    <3>4. QED
      BY <1>7, <2>1, <3>1, <3>2, <3>3
  <2>4. QED
    BY <2>2, <2>3
<1>21. QED
  BY <1>11, <1>12, <1>13, <1>14, <1>15, <1>16, <1>17, <1>18, <1>19, <1>20 DEF StoreIInv

\* What leaves the store alone keeps its invariant.
LEMMA StoreInvStutter ==
    ASSUME StoreIInv, UNCHANGED storeVars
    PROVE  StoreIInv'
<1>1. /\ free_at' = free_at /\ phase_start' = phase_start
      /\ phase' = phase /\ requests' = requests
  BY DEF storeVars
<1>2. StoreTypeOK' /\ WellTimed' /\ FreeAtIsLastEnd' /\ PhaseStartIsLastEnd'
  BY <1>1 DEF StoreIInv, StoreTypeOK, WellTimed, FreeAtIsLastEnd, PhaseStartIsLastEnd
<1>3. StartsCovered' /\ HasLastEnd' /\ OneAtATime'
  BY <1>1 DEF StoreIInv, StartsCovered, HasLastEnd, OneAtATime, StartOn, Ends
<1>4. PhaseBarrier' /\ StartsInOrder' /\ NoIdleConnection'
  BY <1>1 DEF StoreIInv, PhaseBarrier, StartsInOrder, NoIdleConnection
<1>5. QED
  BY <1>2, <1>3, <1>4 DEF StoreIInv

(***************************************************************************)
(* The theorems                                                            *)
(***************************************************************************)

\* The inductive invariant holds of every reachable state of the store.
THEOREM StoreInvariant == StoreSpec => []StoreIInv
<1>1. StoreInit => StoreIInv
  BY StoreInvInit
<1>2. StoreIInv /\ [StoreNext]_storeVars => StoreIInv'
  <2> SUFFICES ASSUME StoreIInv, [StoreNext]_storeVars
               PROVE  StoreIInv'
    OBVIOUS
  <2>1. CASE StoreNext
    <3>1. CASE Recording
      BY <3>1, StoreInvRecord DEF Recording
    <3>2. CASE NextPhase
      BY <3>2, StoreInvNextPhase
    <3>3. QED
      BY <2>1, <3>1, <3>2, StoreSteps
  <2>2. CASE UNCHANGED storeVars
    BY <2>2, StoreInvStutter
  <2>3. QED
    BY <2>1, <2>2
<1>3. QED
  BY <1>1, <1>2, PTL DEF StoreSpec

\* The store's state and trace always have the types of the Rust fields.
THEOREM StoreTypes == StoreSpec => []StoreTypeOK
<1>1. StoreIInv => StoreTypeOK
  BY DEF StoreIInv
<1>2. QED
  BY <1>1, StoreInvariant, PTL

\* No connection ever carries two requests at once.
THEOREM ConnectionsCarryOneRequest == StoreSpec => []OneAtATime
<1>1. StoreIInv => OneAtATime
  BY DEF StoreIInv
<1>2. QED
  BY <1>1, StoreInvariant, PTL

\* next_phase is a barrier across all connections.
THEOREM PhasesAreBarriers == StoreSpec => []PhaseBarrier
<1>1. StoreIInv => PhaseBarrier
  BY DEF StoreIInv
<1>2. QED
  BY <1>1, StoreInvariant, PTL

\* Requests start in the order they were issued.
THEOREM RequestsStartInOrder == StoreSpec => []StartsInOrder
<1>1. StoreIInv => StartsInOrder
  BY DEF StoreIInv
<1>2. QED
  BY <1>1, StoreInvariant, PTL

\* No connection is left idle while a request waits.
THEOREM ConnectionsAreNotIdle == StoreSpec => []NoIdleConnection
<1>1. StoreIInv => NoIdleConnection
  BY DEF StoreIInv
<1>2. QED
  BY <1>1, StoreInvariant, PTL

(***************************************************************************)
(* One connection, and time                                                *)
(***************************************************************************)

\* With one connection the bookkeeping is the last request's end.
LEMMA OneConnectionEnds ==
    ASSUME StoreIInv, Connections <= 1
    PROVE  /\ Conns = {0}
           /\ StartOn(0) = IF Len(requests) = 0 THEN 0 ELSE requests[Len(requests)].end
<1> DEFINE n == Len(requests)
<1>1. Conns = {0}
  BY StoreAssumption DEF Conns
<1>2. /\ phase_start \in Nat /\ free_at[0] \in Nat /\ requests \in Seq(Request)
      /\ n \in Nat /\ DOMAIN requests = 1 .. n
  BY <1>1, LenProperties DEF StoreIInv, StoreTypeOK
<1>3. \A i \in 1 .. n : requests[i] \in Request
  BY <1>2
<1>4. \A i \in 1 .. n : /\ requests[i].connection = 0
                        /\ requests[i].start \in Nat
                        /\ requests[i].end \in Nat
  BY <1>1, <1>3 DEF Request
<1>5. \A i \in 1 .. n : requests[i].end <= free_at[0]
  BY <1>2, <1>4 DEF StoreIInv, FreeAtIsLastEnd
<1>6. free_at[0] = 0 \/ \E i \in 1 .. n : requests[i].end = free_at[0]
  BY <1>1, <1>2 DEF StoreIInv, FreeAtIsLastEnd
<1>7. phase_start = 0 \/ \E i \in 1 .. n : requests[i].end = phase_start
  BY <1>2 DEF StoreIInv, PhaseStartIsLastEnd
<1>8. phase_start <= free_at[0]
  BY <1>2, <1>5, <1>7
<1>9. StartOn(0) = free_at[0]
  BY <1>2, <1>8 DEF StartOn
<1>10. CASE n = 0
  <2>1. free_at[0] = 0
    BY <1>6, <1>10
  <2>2. QED
    BY <1>1, <1>9, <1>10, <2>1
<1>11. CASE n # 0
  <2>1. n \in 1 .. n
    BY <1>2, <1>11
  <2>2. \A i \in 1 .. n : requests[i].end <= requests[n].end
    <3>1. ASSUME NEW i \in 1 .. n
          PROVE  requests[i].end <= requests[n].end
      <4>1. CASE i = n
        BY <1>4, <2>1, <4>1
      <4>2. CASE i # n
        <5>1. i < n
          <6>1. n \in Nat /\ i \in 1 .. n
            BY <1>2
          <6>2. QED
            BY <4>2, <6>1
        <5>2. requests[i].end <= requests[n].start
          BY <1>2, <1>4, <2>1, <5>1 DEF StoreIInv, OneAtATime
        <5>3. requests[n].start <= requests[n].end
          BY <1>2, <2>1 DEF StoreIInv, WellTimed
        <5>4. QED
          BY <1>4, <2>1, <5>2, <5>3
      <4>3. QED
        BY <4>1, <4>2
    <3>2. QED
      BY <3>1
  <2>3. requests[n].end <= free_at[0] /\ requests[n].end \in Nat
    BY <1>4, <1>5, <2>1
  <2>4. free_at[0] <= requests[n].end
    BY <1>2, <1>6, <2>2, <2>3
  <2>5. QED
    BY <1>1, <1>2, <1>9, <1>11, <2>3, <2>4
<1>12. QED
  BY <1>10, <1>11

\* With one connection each request starts exactly when the previous one ended.
THEOREM OneConnectionRunsInSequence == StoreSpec => []OneConnectionIsSequential
<1>1. StoreInit => OneConnectionIsSequential
  BY DEF StoreInit, OneConnectionIsSequential
<1>2. StoreIInv /\ OneConnectionIsSequential /\ [StoreNext]_storeVars
        => OneConnectionIsSequential'
  <2>0. SUFFICES ASSUME StoreIInv, OneConnectionIsSequential, [StoreNext]_storeVars,
                        Connections <= 1
                 PROVE  \A i \in DOMAIN requests' :
                           requests'[i].start = IF i = 1 THEN 0 ELSE requests'[i - 1].end
    BY DEF OneConnectionIsSequential
  <2>1. \A i \in DOMAIN requests :
           requests[i].start = IF i = 1 THEN 0 ELSE requests[i - 1].end
    BY <2>0 DEF OneConnectionIsSequential
  <2>2. ASSUME NEW method \in {"HEAD", "GET", "LIST"}, NEW k \in Keys, NEW answer \in Answer,
               Record(method, k, answer)
        PROVE  \A i \in DOMAIN requests' :
                  requests'[i].start = IF i = 1 THEN 0 ELSE requests'[i - 1].end
    <3> DEFINE n == Len(requests)
    <3>1. Conns = {0} /\ StartOn(0) = IF n = 0 THEN 0 ELSE requests[n].end
      BY <2>0, OneConnectionEnds
    <3>2. /\ requests \in Seq(Request) /\ free_at \in [Conns -> Nat]
          /\ n \in Nat /\ DOMAIN requests = 1 .. n
      BY <2>0, LenProperties DEF StoreIInv, StoreTypeOK
    <3>3. FirstFree = 0
      BY <3>1, <3>2, FirstFreeIsFirst
    <3>4. PICK r : requests' = Append(requests, r) /\ r.start = StartOn(0)
      BY <2>2, <3>3 DEF Record
    <3>5. /\ DOMAIN requests' = 1 .. n + 1 /\ requests'[n + 1] = r
          /\ \A i \in 1 .. n : requests'[i] = requests[i]
      BY <3>2, <3>4
    <3>6. ASSUME NEW i \in 1 .. n + 1
          PROVE  requests'[i].start = IF i = 1 THEN 0 ELSE requests'[i - 1].end
      <4>1. CASE i = n + 1
        <5>1. requests'[i].start = IF n = 0 THEN 0 ELSE requests[n].end
          BY <3>1, <3>4, <3>5, <4>1
        <5>2. CASE n = 0
          BY <4>1, <5>1, <5>2
        <5>3. CASE n # 0
          <6>1. i - 1 = n /\ i # 1 /\ n \in 1 .. n
            BY <3>2, <4>1, <5>3
          <6>2. QED
            BY <3>5, <5>1, <5>3, <6>1
        <5>4. QED
          BY <5>2, <5>3
      <4>2. CASE i # n + 1
        <5>1. i \in 1 .. n /\ (i # 1 => i - 1 \in 1 .. n)
          BY <3>2, <4>2
        <5>2. QED
          BY <2>1, <3>2, <3>5, <5>1
      <4>3. QED
        BY <4>1, <4>2
    <3>7. QED
      BY <3>5, <3>6
  <2>3. CASE StoreNext
    <3>1. CASE NextPhase
      BY <2>1, <3>1 DEF NextPhase
    <3>2. QED
      BY <2>2, <2>3, <3>1, StoreSteps DEF Recording
  <2>4. CASE UNCHANGED storeVars
    BY <2>1, <2>4 DEF storeVars
  <2>5. QED
    BY <2>0, <2>3, <2>4
<1>3. QED
  BY <1>1, <1>2, StoreInvariant, PTL DEF StoreSpec

\* A trace only grows, and simulated time never runs backwards.
THEOREM TracesOnlyGrow == StoreSpec => TraceIsAppendOnly
<1> DEFINE Grows == /\ Len(requests') >= Len(requests)
                    /\ SubSeq(requests', 1, Len(requests)) = requests
                    /\ Elapsed' >= Elapsed
                    /\ phase_start' >= phase_start
<1>1. ASSUME StoreIInv, StoreIInv', StoreNext
      PROVE  Grows
  <2>1. /\ requests \in Seq(Request) /\ phase_start \in Nat
        /\ Len(requests) \in Nat /\ DOMAIN requests = 1 .. Len(requests)
    BY <1>1, LenProperties DEF StoreIInv, StoreTypeOK
  <2>2. SubSeq(requests, 1, Len(requests)) = requests
    BY <2>1, SubSeqFull
  <2>3. /\ Elapsed \in Nat
        /\ \A i \in DOMAIN requests : requests[i].end <= Elapsed
        /\ Elapsed = 0 \/ \E i \in DOMAIN requests : requests[i].end = Elapsed
    BY <1>1, ElapsedIsLast DEF StoreIInv
  <2>4. CASE NextPhase
    <3>1. requests' = requests /\ phase_start' = Elapsed
      BY <2>4 DEF NextPhase
    <3>2. Elapsed' = Elapsed
      BY <3>1 DEF Elapsed, Ends
    <3>3. phase_start <= Elapsed
      BY <1>1, <2>1, <2>3 DEF StoreIInv, PhaseStartIsLastEnd
    <3>4. QED
      BY <2>1, <2>2, <2>3, <3>1, <3>2, <3>3
  <2>5. CASE Recording
    <3>1. PICK r : requests' = Append(requests, r)
      BY <2>5 DEF Recording, Record
    <3>2. phase_start' = phase_start
      BY <2>5 DEF Recording, Record
    <3>3. requests' \in Seq(Request)
      BY <1>1 DEF StoreIInv, StoreTypeOK
    <3>4. Len(requests') = Len(requests) + 1
      BY <2>1, <3>1
    <3>5. \A i \in 1 .. Len(requests) : i \in DOMAIN requests' /\ requests'[i] = requests[i]
      BY <2>1, <3>1
    <3>6. SubSeq(requests', 1, Len(requests)) = requests
      BY <2>1, <3>3, <3>4, <3>5, SubSeqProperties, SeqEqual
    <3>7. /\ Elapsed' \in Nat
          /\ \A i \in DOMAIN requests' : requests'[i].end <= Elapsed'
      <4>1. Elapsed' \in Ends' \cup {0} /\ \A x \in Ends' : x <= Elapsed'
        BY <1>1 DEF StoreIInv, HasLastEnd, Elapsed
      <4>2. \A i \in DOMAIN requests' : requests'[i] \in Request
        BY <3>3
      <4>3. Ends' \subseteq Nat
        BY <4>2 DEF Ends, Request
      <4>4. QED
        BY <4>1, <4>3 DEF Ends
    <3>8. Elapsed <= Elapsed'
      BY <2>1, <2>3, <3>5, <3>7
    <3>9. QED
      BY <2>1, <2>3, <3>2, <3>4, <3>6, <3>7, <3>8
  <2>6. QED
    BY <1>1, <2>4, <2>5, StoreSteps
<1>2. StoreIInv /\ StoreIInv' /\ [StoreNext]_storeVars => [Grows]_storeVars
  BY <1>1
<1>3. QED
  BY <1>2, StoreInvariant, PTL DEF StoreSpec, TraceIsAppendOnly

(***************************************************************************)
(* Simulated time                                                          *)
(***************************************************************************)

\* What a request costs is a number, and so is what they all cost.
LEMMA CostsType ==
    ASSUME StoreTypeOK, WellTimed
    PROVE  /\ \A i \in DOMAIN requests : CostOf(requests[i]) \in Nat
           /\ IsFiniteSet(DOMAIN requests)
           /\ SumCosts \in Int
<1>1. \A i \in DOMAIN requests : CostOf(requests[i]) \in Nat
  <2>1. \A i \in DOMAIN requests : requests[i] \in Request
    BY DEF StoreTypeOK
  <2>2. QED
    BY <2>1 DEF WellTimed, CostOf, Request
<1>2. IsFiniteSet(DOMAIN requests)
  BY FS_Interval, LenProperties DEF StoreTypeOK
<1> DEFINE costs == [i \in DOMAIN requests |-> CostOf(requests[i])]
<1>3. SumCosts = SumFunctionOnSet(costs, DOMAIN requests)
  BY DEF SumCosts, SumFunction
<1>4. \A i \in DOMAIN requests : costs[i] \in Int
  BY <1>1
<1> HIDE DEF costs
<1>5. QED
  BY <1>1, <1>2, <1>3, <1>4, SumType

\* The connections are finitely many.
LEMMA ConnsFinite == IsFiniteSet(Conns)
<1> DEFINE top == (IF Connections > 1 THEN Connections ELSE 1) - 1
<1>1. top \in Int /\ Conns = 0 .. top
  BY StoreAssumption DEF Conns
<1> HIDE DEF top
<1>2. QED
  BY <1>1, FS_Interval

\* record adds a request's cost to the total, and at least as much to when its connection is
\* free again.
LEMMA TimeInvRecord ==
    ASSUME StoreIInv, StoreIInv', TimeIInv, Recording
    PROVE  TimeIInv'
<1> DEFINE c == FirstFree
           n == Len(requests)
           start == StartOn(c)
<1>1. PICK end : /\ free_at' = [free_at EXCEPT ![c] = end]
                 /\ Len(requests') = n + 1 /\ DOMAIN requests = 1 .. n
                 /\ DOMAIN requests' = 1 .. n + 1
                 /\ \A i \in 1 .. n : requests'[i] = requests[i]
                 /\ requests'[n + 1].start = start
                 /\ requests'[n + 1].end = end
                 /\ requests'[n + 1].connection = c
  <2>1. PICK method \in {"HEAD", "GET", "LIST"}, k \in Keys, answer \in Answer :
                Record(method, k, answer)
    BY DEF Recording
  <2> DEFINE end == start + Cost(SpanLen(answer.span))
             r == [method |-> method, key |-> k, status |-> answer.status,
                   returned |-> answer.span, start |-> start, end |-> end,
                   connection |-> c, phase |-> phase]
  <2>2. free_at' = [free_at EXCEPT ![c] = end] /\ requests' = Append(requests, r)
    BY <2>1 DEF Record
  <2>3. requests \in Seq(Request)
    BY DEF StoreIInv, StoreTypeOK
  <2>4. r.start = start /\ r.end = end /\ r.connection = c
    OBVIOUS
  <2> HIDE DEF r, c, start, end
  <2>5. /\ Len(requests') = n + 1 /\ DOMAIN requests = 1 .. n
        /\ DOMAIN requests' = 1 .. n + 1
        /\ \A i \in 1 .. n : requests'[i] = requests[i]
        /\ requests'[n + 1] = r
    BY <2>2, <2>3, LenProperties
  <2>6. QED
    BY <2>2, <2>4, <2>5
<1>2. /\ free_at \in [Conns -> Nat] /\ c \in Conns /\ n \in Nat /\ start \in Nat
      /\ free_at[c] <= start
  <2>1. free_at \in [Conns -> Nat] /\ phase_start \in Nat /\ n \in Nat
    BY LenProperties DEF StoreIInv, StoreTypeOK
  <2>2. c \in Conns
    BY <2>1, FirstFreeIsFirst
  <2>3. QED
    BY <2>1, <2>2 DEF StartOn
<1> HIDE DEF c, n, start
<1>3. end \in Nat /\ start <= end
  <2>1. requests'[n + 1] \in Request
    BY <1>1, <1>2 DEF StoreIInv, StoreTypeOK
  <2>2. n + 1 \in DOMAIN requests'
    BY <1>1, <1>2
  <2>3. QED
    BY <1>1, <2>1, <2>2 DEF StoreIInv, WellTimed, Request
<1>4. SumCosts' = SumCosts + (end - start)
  <2> DEFINE costs == [i \in DOMAIN requests |-> CostOf(requests[i])]
  <2>1. costs \in [1 .. n -> Int] /\ \A i \in 1 .. n : costs[i] = CostOf(requests[i])
    BY <1>1, CostsType DEF StoreIInv
  <2>2. \A i \in 1 .. n + 1 : CostOf(requests'[i]) \in Int
    <3>1. \A i \in DOMAIN requests' : requests'[i] \in Request
      BY DEF StoreIInv, StoreTypeOK
    <3>2. QED
      BY <1>1, <3>1 DEF Request, CostOf
  <2>3. /\ costs' = [i \in 1 .. n + 1 |-> CostOf(requests'[i])]
        /\ \A i \in 1 .. n + 1 : costs'[i] = CostOf(requests'[i])
    BY <1>1 DEF CostOf
  <2>4. costs' \in [1 .. n + 1 -> Int]
    BY <2>2, <2>3
  <2>5. \A i \in 1 .. n : costs'[i] = costs[i]
    <3> SUFFICES ASSUME NEW i \in 1 .. n
                 PROVE  costs'[i] = costs[i]
      OBVIOUS
    <3>1. i \in 1 .. n + 1
      BY <1>2
    <3> HIDE DEF costs
    <3>2. QED
      BY <1>1, <2>1, <2>3, <3>1
  <2>6. costs'[n + 1] = end - start
    BY <1>1, <1>2, <2>3 DEF CostOf
  <2>7. SumCosts = SumFunction(costs) /\ SumCosts' = SumFunction(costs')
    BY DEF SumCosts
  <2> HIDE DEF costs
  <2>8. SumFunction(costs') = SumFunction(costs) + costs'[n + 1]
    BY <1>2, <2>1, <2>4, <2>5, SumAppended
  <2>9. QED
    BY <2>6, <2>7, <2>8
<1>5. SumFunction(free_at') = SumFunction(free_at) + (end - free_at[c])
  <2>1. free_at \in [Conns -> Int] /\ end \in Int
    BY <1>2, <1>3
  <2>2. SumFunction([free_at EXCEPT ![c] = end]) = SumFunction(free_at) + (end - free_at[c])
    BY <1>2, <2>1, ConnsFinite, SumExcept
  <2>3. QED
    BY <1>1, <2>2
<1>6. SumCosts \in Int /\ SumFunction(free_at) \in Int
  <2>1. \A d \in Conns : free_at[d] \in Int
    BY <1>2
  <2>2. QED
    BY <1>2, <2>1, CostsType, ConnsFinite, SumType DEF StoreIInv, SumFunction
<1>7. /\ Elapsed \in Nat
      /\ Elapsed = 0 \/ \E i \in DOMAIN requests : requests[i].end = Elapsed
      /\ \A i \in DOMAIN requests : requests[i].end <= Elapsed
  BY ElapsedIsLast DEF StoreIInv
<1>8. /\ Elapsed' \in Nat
      /\ Elapsed' = 0 \/ \E i \in DOMAIN requests' : requests'[i].end = Elapsed'
  <2>1. Elapsed' \in Ends' \cup {0}
    BY DEF StoreIInv, HasLastEnd, Elapsed
  <2>2. \A i \in DOMAIN requests' : requests'[i] \in Request
    BY DEF StoreIInv, StoreTypeOK
  <2>3. QED
    BY <2>1, <2>2 DEF Ends, Request
\* A request starts when its connection is free or its phase began: when another ended, or at 0.
<1>9. start <= Elapsed
  <2>1. phase_start <= Elapsed
    BY <1>7 DEF StoreIInv, PhaseStartIsLastEnd
  <2>2. free_at[c] <= Elapsed
    BY <1>2, <1>7 DEF StoreIInv, FreeAtIsLastEnd
  <2>3. QED
    BY <2>1, <2>2 DEF StartOn, start
<1>10. Elapsed' <= SumCosts'
  <2>1. Elapsed <= SumCosts
    BY DEF TimeIInv
  <2>2. end <= SumCosts + (end - start)
    BY <1>2, <1>3, <1>6, <1>7, <1>9, <2>1
  <2>3. CASE Elapsed' = 0
    BY <1>2, <1>3, <1>4, <1>6, <1>7, <2>1, <2>3
  <2>4. CASE \E i \in DOMAIN requests' : requests'[i].end = Elapsed'
    <3>1. PICK i \in 1 .. n + 1 : requests'[i].end = Elapsed'
      BY <1>1, <2>4
    <3>2. CASE i = n + 1
      BY <1>1, <1>4, <2>2, <3>1, <3>2
    <3>3. CASE i # n + 1
      <4>1. i \in 1 .. n
        BY <1>2, <3>3
      <4>2. Elapsed' <= Elapsed
        BY <1>1, <1>7, <3>1, <4>1
      <4>3. QED
        BY <1>2, <1>3, <1>4, <1>6, <1>7, <1>8, <2>1, <4>2
    <3>4. QED
      BY <3>2, <3>3
  <2>5. QED
    BY <1>8, <2>3, <2>4
<1>11. CostsFit'
  <2>1. SumCosts <= SumFunction(free_at) /\ free_at[c] \in Nat
    BY <1>2 DEF TimeIInv, CostsFit
  <2>2. SumCosts + (end - start) <= SumFunction(free_at) + (end - free_at[c])
    BY <1>2, <1>3, <1>6, <2>1
  <2>3. QED
    BY <1>4, <1>5, <2>2 DEF CostsFit
<1>12. QED
  BY <1>10, <1>11 DEF TimeIInv

\* Simulated time is what concurrency allows: no more than the same requests one after
\* another, no less than their cost spread perfectly over the connections.
THEOREM TimeIsBounded == StoreSpec => []ElapsedBounds
<1>1. StoreInit => TimeIInv
  <2> SUFFICES ASSUME StoreInit PROVE TimeIInv
    OBVIOUS
  <2>1. requests = << >> /\ DOMAIN requests = {} /\ free_at = [d \in Conns |-> 0]
    BY EmptySeq DEF StoreInit
  <2>2. SumCosts = 0
    BY <2>1, SumOfNone DEF SumCosts, SumFunction
  <2>3. SumFunction(free_at) = 0
    <3>1. DOMAIN free_at = Conns /\ \A d \in Conns : free_at[d] = 0
      BY <2>1
    <3>2. SumFunctionOnSet(free_at, Conns) = Cardinality(Conns) * 0
      BY <3>1, ConnsFinite, SumOfEqual
    <3>3. Cardinality(Conns) \in Nat
      BY ConnsFinite, FS_CardinalityType
    <3>4. QED
      BY <3>1, <3>2, <3>3 DEF SumFunction
  <2>4. Elapsed = 0
    <3>1. Ends = {}
      BY <2>1 DEF Ends
    <3>2. QED
      BY <3>1 DEF Elapsed
  <2>5. QED
    BY <2>2, <2>3, <2>4 DEF TimeIInv, CostsFit
<1>2. StoreIInv /\ StoreIInv' /\ TimeIInv /\ [StoreNext]_storeVars => TimeIInv'
  <2> SUFFICES ASSUME StoreIInv, StoreIInv', TimeIInv, [StoreNext]_storeVars
               PROVE  TimeIInv'
    OBVIOUS
  <2>1. ASSUME requests' = requests, free_at' = free_at
        PROVE  TimeIInv'
    BY <2>1 DEF TimeIInv, CostsFit, SumCosts, Elapsed, Ends, CostOf
  <2>2. CASE Recording
    BY <2>2, TimeInvRecord
  <2>3. CASE NextPhase
    BY <2>1, <2>3 DEF NextPhase
  <2>4. CASE UNCHANGED storeVars
    BY <2>1, <2>4 DEF storeVars
  <2>5. QED
    BY <2>2, <2>3, <2>4, StoreSteps
<1>3. StoreIInv /\ TimeIInv => ElapsedBounds
  <2> SUFFICES ASSUME StoreIInv, TimeIInv PROVE ElapsedBounds
    OBVIOUS
  <2> DEFINE full == [d \in Conns |-> Elapsed]
  <2>1. /\ Elapsed \in Nat /\ \A i \in DOMAIN requests : requests[i].end <= Elapsed
    BY ElapsedIsLast DEF StoreIInv
  <2>2. free_at \in [Conns -> Nat] /\ DOMAIN free_at = Conns
    BY DEF StoreIInv, StoreTypeOK
  <2>3. \A d \in Conns : /\ free_at[d] \in Int /\ full[d] \in Int
                          /\ free_at[d] <= full[d] /\ full[d] = Elapsed
    BY <2>1, <2>2 DEF StoreIInv, FreeAtIsLastEnd
  <2> HIDE DEF full
  <2>4. SumFunctionOnSet(free_at, Conns) <= SumFunctionOnSet(full, Conns)
    BY <2>3, ConnsFinite, SumGrows
  <2>5. SumFunctionOnSet(full, Conns) = Cardinality(Conns) * Elapsed
    BY <2>1, <2>3, ConnsFinite, SumOfEqual
  <2>6. /\ SumFunctionOnSet(free_at, Conns) \in Int /\ SumFunctionOnSet(full, Conns) \in Int
        /\ SumCosts \in Int
    BY <2>3, ConnsFinite, SumType, CostsType DEF StoreIInv
  <2>7. SumCosts <= SumFunctionOnSet(free_at, Conns)
    BY <2>2 DEF TimeIInv, CostsFit, SumFunction
  <2>8. QED
    BY <2>4, <2>5, <2>6, <2>7 DEF TimeIInv, ElapsedBounds
<1>4. QED
  BY <1>1, <1>2, <1>3, StoreInvariant, PTL DEF StoreSpec

(***************************************************************************)
(* Skipping                                                                *)
(***************************************************************************)
\* Places are compared as numbers.
Ordered == \A v \in DOMAIN Place : Place[v] \in Int

\* Bounds on either side of a value leave no condition it meets ruled out.
LEMMA RuledOutIsCertain ==
    ASSUME Ordered, NEW p, p.op \in Ops \ {"is null", "is not null"}, NEW bounds, bounds.usable,
           NEW values, NEW v \in values, Bound(bounds, values),
           Compare(p.value, bounds.min) # "none", Compare(p.value, bounds.max) # "none",
           RuledOut(p.op, Compare(p.value, bounds.min), Compare(p.value, bounds.max))
    PROVE  ~OpMatches(p.op, Compare(v, p.value))
<1> DEFINE x == p.value
<1>1. x \in DOMAIN Place /\ bounds.min \in DOMAIN Place /\ bounds.max \in DOMAIN Place
  BY DEF Compare
<1>2. CASE v \notin DOMAIN Place
  <2>1. Compare(v, x) = "none"
    BY <1>2 DEF Compare
  <2>2. QED
    BY <2>1 DEF OpMatches, Ops
<1>3. CASE v \in DOMAIN Place
  <2> DEFINE low == Place[bounds.min]
             high == Place[bounds.max]
             at == Place[v]
             sought == Place[x]
  <2>1. low \in Int /\ high \in Int /\ at \in Int /\ sought \in Int /\ low <= at /\ at <= high
    BY <1>1, <1>3 DEF Ordered, Bound
  <2>2. /\ Compare(x, bounds.min) = IF sought < low THEN "less" ELSE IF sought = low THEN "equal" ELSE "greater"
        /\ Compare(x, bounds.max) = IF sought < high THEN "less" ELSE IF sought = high THEN "equal" ELSE "greater"
        /\ Compare(v, x) = IF at < sought THEN "less" ELSE IF at = sought THEN "equal" ELSE "greater"
    BY <1>1, <1>3 DEF Compare
  <2> HIDE DEF low, high, at, sought
  <2>3. CASE p.op = "="
    BY <2>1, <2>2, <2>3 DEF RuledOut, OpMatches
  <2>4. CASE p.op = "!="
    BY <2>1, <2>2, <2>4 DEF RuledOut, OpMatches
  <2>5. CASE p.op = "<"
    BY <2>1, <2>2, <2>5 DEF RuledOut, OpMatches
  <2>6. CASE p.op = "<="
    BY <2>1, <2>2, <2>6 DEF RuledOut, OpMatches
  <2>7. CASE p.op = ">"
    BY <2>1, <2>2, <2>7 DEF RuledOut, OpMatches
  <2>8. CASE p.op = ">="
    BY <2>1, <2>2, <2>8 DEF RuledOut, OpMatches
  <2>9. QED
    BY <2>3, <2>4, <2>5, <2>6, <2>7, <2>8 DEF Ops
<1>4. QED
  BY <1>2, <1>3

\* What the counts say of the slots of a page or of a chunk: all are null, or none is.
LEMMA CountsAreCertain ==
    ASSUME NEW slots, IsFiniteSet(slots), NEW empty \in SUBSET slots, NEW nulls,
           Counted(nulls, empty), NEW s \in slots
    PROVE  /\ nulls = Cardinality(slots) /\ Cardinality(slots) > 0 => s \in empty
           /\ nulls = 0 => s \notin empty
<1>1. /\ IsFiniteSet(empty) /\ Cardinality(slots) \in Nat /\ Cardinality(empty) \in Nat
      /\ Cardinality(slots) = Cardinality(empty) => slots = empty
  BY FS_Subset, FS_CardinalityType
<1>2. nulls = -1 \/ nulls = Cardinality(empty)
  BY DEF Counted, NotRecorded
<1>3. nulls = 0 => empty = {}
  BY <1>1, <1>2, FS_EmptySet
<1>4. nulls = Cardinality(slots) => slots = empty
  BY <1>1, <1>2
<1>5. QED
  BY <1>3, <1>4

\* A condition ruled out by bounds and counts that tell the truth is met by none of the values.
THEOREM SkipIsCertain ==
    ASSUME Ordered, NEW p, p.op \in Ops, NEW bounds, NEW nulls,
           NEW slots, IsFiniteSet(slots), NEW value,
           Counted(nulls, {s \in slots : value[s] = Null}),
           Bound(bounds, {value[s] : s \in slots}),
           AgainstBounds(p, bounds, nulls, Cardinality(slots)),
           NEW s \in slots
    PROVE  ~RowMatches(p, value[s])
<1> DEFINE empty == {t \in slots : value[t] = Null}
           count == Cardinality(slots)
<1>1. /\ nulls = count /\ count > 0 => value[s] = Null
      /\ nulls = 0 => value[s] # Null
  <2>1. empty \in SUBSET slots
    OBVIOUS
  <2> HIDE DEF empty
  <2>2. /\ nulls = count /\ count > 0 => s \in empty
        /\ nulls = 0 => s \notin empty
    BY <2>1, CountsAreCertain DEF empty
  <2>3. QED
    BY <2>2 DEF empty
<1>2. CASE p.op = "is null"
  BY <1>1, <1>2 DEF AgainstBounds, RowMatches
<1>3. CASE p.op = "is not null"
  BY <1>1, <1>3 DEF AgainstBounds, RowMatches
<1>4. CASE p.op \notin {"is null", "is not null"}
  <2>1. CASE nulls = count /\ count > 0
    BY <1>1, <1>4, <2>1 DEF RowMatches
  <2>2. CASE ~(nulls = count /\ count > 0)
    <3>1. /\ bounds.usable
          /\ Compare(p.value, bounds.min) # "none" /\ Compare(p.value, bounds.max) # "none"
          /\ RuledOut(p.op, Compare(p.value, bounds.min), Compare(p.value, bounds.max))
      BY <1>4, <2>2 DEF AgainstBounds
    <3>2. value[s] \in {value[t] : t \in slots} /\ p.op \in Ops \ {"is null", "is not null"}
      BY <1>4
    <3>3. ~OpMatches(p.op, Compare(value[s], p.value))
      BY <3>1, <3>2, RuledOutIsCertain
    <3>4. QED
      BY <1>4, <3>3 DEF RowMatches
  <2>3. QED
    BY <2>1, <2>2
<1>5. QED
  BY <1>2, <1>3, <1>4

(***************************************************************************)
(* A row group's plan                                                      *)
(***************************************************************************)

\* A chunk's pages are finitely many, each with a sequence of values.
LEMMA SlotsAreFinite ==
    ASSUME NEW chunk, IsFiniteSet(DOMAIN chunk.pages), NEW Value,
           \A i \in DOMAIN chunk.pages : chunk.pages[i].values \in Seq(Value)
    PROVE  IsFiniteSet(Slots(chunk))
<1> DEFINE of(i) == {i} \X DOMAIN chunk.pages[i].values
<1>1. IsFiniteSet({of(i) : i \in DOMAIN chunk.pages})
  <2> DEFINE S == DOMAIN chunk.pages
             T == {of(i) : i \in S}
             f == [i \in S |-> of(i)]
  <2> HIDE DEF of
  <2>1. f \in Surjection(S, T)
    BY DEF Surjection
  <2> HIDE DEF f, T, S
  <2>2. IsFiniteSet(S)
    BY DEF S
  <2>3. IsFiniteSet(T)
    BY <2>1, <2>2, FS_Surjection
  <2>4. QED
    BY <2>3 DEF T, S
<1>2. ASSUME NEW i \in DOMAIN chunk.pages
      PROVE  IsFiniteSet(of(i))
  <2> DEFINE n == Len(chunk.pages[i].values)
  <2>1. chunk.pages[i].values \in Seq(Value)
    BY <1>2
  <2>2. DOMAIN chunk.pages[i].values = 1 .. n /\ n \in Nat
    BY <2>1
  <2> HIDE DEF n
  <2>3. 1 \in Int /\ n \in Int
    BY <2>2
  <2>4. IsFiniteSet(1 .. n)
    BY <2>3, FS_Interval
  <2>5. IsFiniteSet({i})
    BY FS_Singleton
  <2>6. IsFiniteSet({i} \X (1 .. n))
    BY <2>4, <2>5, FS_Product
  <2>7. QED
    BY <2>2, <2>6
<1>3. QED
  BY <1>1, <1>2, FS_UNION DEF Slots

\* A page that its entry in the column index rules out has no value that matches.
LEMMA PageSkipIsCertain ==
    ASSUME Ordered, NEW file, NEW chunk, NEW p, p.op \in Ops, NEW i, NEW Value,
           chunk.pages[i].values \in Seq(Value),
           HonestPage(file, chunk.column_index.pages[i], chunk.pages[i].values),
           PageSkip(file, chunk, i, p), NEW k \in DOMAIN chunk.pages[i].values
    PROVE  ~RowMatches(p, chunk.pages[i].values[k])
<1> DEFINE entry == chunk.column_index.pages[i]
           values == chunk.pages[i].values
           slots == DOMAIN values
           empty == {j \in slots : values[j] = Null}
           nulls == IF entry.null_page THEN Len(values) ELSE entry.nulls
<1>1. IsFiniteSet(slots) /\ Cardinality(slots) = Len(values)
  <2> DEFINE n == Len(values)
  <2>1. slots = 1 .. n /\ n \in Nat
    OBVIOUS
  <2> HIDE DEF n, slots, values
  <2>2. IsFiniteSet(1 .. n) /\ Cardinality(1 .. n) = n
    BY <2>1, FS_Interval
  <2>3. IsFiniteSet(slots) /\ Cardinality(slots) = n
    BY <2>1, <2>2
  <2>4. QED
    BY <2>3 DEF n
<1>2. Counted(nulls, empty) /\ Bound(PageBounds(file, entry), {values[j] : j \in slots})
  <2>1. CASE entry.null_page
    <3>1. empty = slots
      BY <2>1 DEF HonestPage
    <3>2. Counted(nulls, empty)
      BY <1>1, <2>1, <3>1 DEF Counted
    <3>3. ~PageBounds(file, entry).usable
      BY <2>1 DEF PageBounds
    <3>4. QED
      BY <3>2, <3>3 DEF Bound
  <2>2. CASE ~entry.null_page
    BY <2>2 DEF HonestPage
  <2>3. QED
    BY <2>1, <2>2
<1>3. AgainstBounds(p, PageBounds(file, entry), nulls, Cardinality(slots))
  BY <1>1 DEF PageSkip
<1> HIDE DEF nulls
<1>4. QED
  BY <1>1, <1>2, <1>3, SkipIsCertain

\* A chunk that its statistics rule out has no value that matches.
LEMMA StatisticsSkipIsCertain ==
    ASSUME Ordered, NEW file, NEW chunk, NEW p, p.op \in Ops, IsFiniteSet(Slots(chunk)),
           HonestChunk(file, chunk), StatisticsSkip(file, chunk, p), NEW s \in Slots(chunk)
    PROVE  ~RowMatches(p, SlotValue(chunk, s))
<1> DEFINE slots == Slots(chunk)
           value == [t \in slots |-> SlotValue(chunk, t)]
<1>1. /\ {t \in slots : value[t] = Null} = {t \in slots : SlotValue(chunk, t) = Null}
      /\ {value[t] : t \in slots} = {SlotValue(chunk, t) : t \in slots}
      /\ value[s] = SlotValue(chunk, s)
  OBVIOUS
<1>2. /\ Counted(chunk.stats.nulls, {t \in slots : value[t] = Null})
      /\ Bound(Bounds(file, chunk.stats), {value[t] : t \in slots})
      /\ AgainstBounds(p, Bounds(file, chunk.stats), chunk.stats.nulls, Cardinality(slots))
  BY <1>1 DEF HonestChunk, StatisticsSkip
<1> HIDE DEF value, slots
<1>3. s \in slots /\ IsFiniteSet(slots)
  BY DEF slots
<1>4. ~RowMatches(p, value[s])
  BY <1>2, <1>3, SkipIsCertain
<1>5. QED
  BY <1>1, <1>4

\* Where each place is one value's, a filter that holds a chunk's values rules out none of them.
LEMMA BloomSkipIsCertain ==
    ASSUME \A x, y \in DOMAIN Place : Place[x] = Place[y] => x = y,
           NEW file, NEW chunk, HonestChunk(file, chunk), chunk.bloom.kind # "none",
           NEW p, p.op = "=", BloomSkip(chunk, p), NEW s \in Slots(chunk)
    PROVE  ~RowMatches(p, SlotValue(chunk, s))
<1> SUFFICES ASSUME RowMatches(p, SlotValue(chunk, s))
             PROVE  FALSE
  OBVIOUS
<1>1. SlotValue(chunk, s) # Null /\ Compare(SlotValue(chunk, s), p.value) = "equal"
  BY DEF RowMatches, OpMatches
<1>2. SlotValue(chunk, s) = p.value
  BY <1>1 DEF Compare
<1>3. p.value \in chunk.bloom.holds
  BY <1>1, <1>2 DEF HonestChunk
<1>4. QED
  BY <1>3 DEF BloomSkip

\* The rows of a page are numbered from its first.
LEMMA PagesHoldTheirRows ==
    ASSUME NEW page, NEW Value, page.values \in Seq(Value), page.first \in Nat,
           NEW k \in DOMAIN page.values
    PROVE  page.first + k - 1 \in Rows(page)
<1> DEFINE values == page.values
           base == page.first
<1>1. values \in Seq(Value) /\ k \in DOMAIN values /\ base \in Nat
  OBVIOUS
<1>2. Rows(page) = base .. base + Len(values) - 1
  BY DEF Rows
<1> HIDE DEF values, base
<1>3. DOMAIN values = 1 .. Len(values) /\ Len(values) \in Nat
  BY <1>1
<1>4. base + k - 1 \in base .. base + Len(values) - 1
  BY <1>1, <1>3
<1>5. QED
  BY <1>2, <1>4 DEF base

\* Whatever may be skipped and by whatever means, every row that matches is kept (plan).
THEOREM EveryMatchIsKept ==
    ASSUME Ordered, NEW file, NEW g, NEW held, NEW p, p.op \in Ops, NEW touched, NEW use,
           use.bloom => \A x, y \in DOMAIN Place : Place[x] = Place[y] => x = y,
           NEW chunk, chunk = file.groups[g].columns[p.column],
           IsFiniteSet(DOMAIN chunk.pages), NEW Value,
           \A i \in DOMAIN chunk.pages : chunk.pages[i].values \in Seq(Value),
           HonestChunk(file, chunk), LaidOut(file.groups[g], chunk),
           NEW i \in DOMAIN chunk.pages, NEW k \in DOMAIN chunk.pages[i].values,
           RowMatches(p, chunk.pages[i].values[k])
    PROVE  chunk.pages[i].first + k - 1 \in GroupPlan(file, g, held, p, touched, use).rows
<1> DEFINE group == file.groups[g]
           row == chunk.pages[i].first + k - 1
           byStats == use.statistics /\ StatisticsSkip(file, chunk, p)
           filter == use.bloom /\ ~byStats /\ p.op = "=" /\ chunk.bloom.kind # "none"
           byBloom == filter /\ BloomSkip(chunk, p)
           pages == use.page_index /\ ~byStats /\ ~byBloom
           indexed == pages /\ chunk.column_index.span # Absent /\ chunk.offset_index # Absent
           unskipped == {j \in DOMAIN chunk.pages : ~PageSkip(file, chunk, j, p)}
           kept == IF indexed THEN UNION {Rows(chunk.pages[j]) : j \in unskipped}
                   ELSE 0 .. group.num_rows - 1
           skipped == byStats \/ byBloom \/ (indexed /\ kept = {})
<1>1. <<i, k>> \in Slots(chunk) /\ SlotValue(chunk, <<i, k>>) = chunk.pages[i].values[k]
  <2>1. <<i, k>> \in {i} \X DOMAIN chunk.pages[i].values
    OBVIOUS
  <2>2. <<i, k>> \in Slots(chunk)
    BY <2>1, Zenon DEF Slots
  <2>3. QED
    BY <2>2 DEF SlotValue
<1>2. ~byStats
  BY <1>1, SlotsAreFinite, StatisticsSkipIsCertain
<1>3. ~byBloom
  BY <1>1, BloomSkipIsCertain
<1>4. row \in Rows(chunk.pages[i]) /\ row \in 0 .. group.num_rows - 1
  <2>1. chunk.pages[i].values \in Seq(Value)
    OBVIOUS
  <2>2. chunk.pages[i].first \in Nat /\ Rows(chunk.pages[i]) \subseteq 0 .. group.num_rows - 1
    BY DEF LaidOut
  <2>3. row \in Rows(chunk.pages[i])
    BY <2>1, <2>2, PagesHoldTheirRows
  <2>4. QED
    BY <2>2, <2>3
<1>5. indexed => i \in unskipped
  <2> SUFFICES ASSUME indexed
               PROVE  ~PageSkip(file, chunk, i, p)
    OBVIOUS
  <2>1. HonestPage(file, chunk.column_index.pages[i], chunk.pages[i].values)
    BY DEF HonestChunk
  <2>2. QED
    BY <2>1, PageSkipIsCertain
<1> HIDE DEF unskipped
<1>6. row \in kept
  BY <1>4, <1>5
<1>7. ~skipped
  BY <1>2, <1>3, <1>6
<1>8. GroupPlan(file, g, held, p, touched, use).rows = IF skipped THEN {} ELSE kept
  BY ZenonT(30) DEF GroupPlan, unskipped
<1>9. QED
  BY <1>6, <1>7, <1>8

\* Of every column touched, each page with a row that is kept is read, and with it the page of its
\* dictionary (plan, column_read).
THEOREM WhatIsKeptIsRead ==
    ASSUME NEW file, NEW g, NEW held, NEW p, NEW touched, NEW use, NEW c \in touched,
           NEW chunk, chunk = file.groups[g].columns[c], LaidOut(file.groups[g], chunk),
           NEW i \in DOMAIN chunk.pages,
           Rows(chunk.pages[i]) \cap GroupPlan(file, g, held, p, touched, use).rows # {},
           NEW part \in {chunk.pages[i].span, Dictionary(chunk)}, Offsets(part) # {}
    PROVE  \E span \in GroupPlan(file, g, held, p, touched, use).reads :
              Offsets(part) \subseteq Offsets(span)
<1> DEFINE plan == GroupPlan(file, g, held, p, touched, use)
<1>1. PICK kept, useIndex :
         /\ plan.rows = kept
         /\ plan.reads = UNION {ColumnRead(held, file.groups[g].columns[d], kept, useIndex) : d \in touched}
  <2> DEFINE filtered == file.groups[g].columns[p.column]
             byStats == use.statistics /\ StatisticsSkip(file, filtered, p)
             filter == use.bloom /\ ~byStats /\ p.op = "=" /\ filtered.bloom.kind # "none"
             byBloom == filter /\ BloomSkip(filtered, p)
             pages == use.page_index /\ ~byStats /\ ~byBloom
             indexed == pages /\ filtered.column_index.span # Absent /\ filtered.offset_index # Absent
             unskipped == {j \in DOMAIN filtered.pages : ~PageSkip(file, filtered, j, p)}
             left == IF indexed THEN UNION {Rows(filtered.pages[j]) : j \in unskipped}
                     ELSE 0 .. file.groups[g].num_rows - 1
             skipped == byStats \/ byBloom \/ (indexed /\ left = {})
  <2>1. /\ plan.rows = IF skipped THEN {} ELSE left
        /\ plan.reads = IF skipped THEN {}
             ELSE UNION {ColumnRead(held, file.groups[g].columns[d], left, pages) : d \in touched}
    BY DEF GroupPlan
  <2>2. plan.rows # {}
    OBVIOUS
  <2> HIDE DEF plan, skipped, left, pages
  <2>3. ~skipped
    BY <2>1, <2>2
  <2>4. QED
    BY <2>1, <2>3
<1> HIDE DEF plan
<1>2. ColumnRead(held, chunk, kept, useIndex) \subseteq plan.reads
  BY <1>1
<1>3. \E span \in ColumnRead(held, chunk, kept, useIndex) : Offsets(part) \subseteq Offsets(span)
  <2> DEFINE wanted == {j \in DOMAIN chunk.pages : Rows(chunk.pages[j]) \cap kept # {}}
             first == chunk.pages[1].span.start
  <2>1. i \in wanted
    BY <1>1 DEF plan
  <2>2. CASE ~useIndex \/ chunk.offset_index = Absent \/ ~Holds(held, chunk.offset_index)
    <3>1. ColumnRead(held, chunk, kept, useIndex) = {chunk.range}
      BY <2>2 DEF ColumnRead
    <3>2. Offsets(part) \subseteq Offsets(chunk.range)
      BY DEF LaidOut
    <3>3. QED
      BY <3>1, <3>2
  <2>3. CASE ~(~useIndex \/ chunk.offset_index = Absent \/ ~Holds(held, chunk.offset_index))
    <3>1. ColumnRead(held, chunk, kept, useIndex) =
             {chunk.pages[j].span : j \in wanted} \cup
             IF wanted # {} /\ first > chunk.range.start THEN {Dictionary(chunk)} ELSE {}
      BY <2>3 DEF ColumnRead, Dictionary
    <3>2. CASE part = chunk.pages[i].span
      BY <2>1, <3>1, <3>2
    <3>3. CASE part = Dictionary(chunk)
      <4>1. Offsets(Dictionary(chunk)) = chunk.range.start .. first - 1
        BY DEF Offsets, Dictionary
      <4>2. first > chunk.range.start
        <5>1. first \in Nat /\ chunk.range.start \in Nat
          BY DEF LaidOut
        <5>2. chunk.range.start .. first - 1 # {}
          BY <3>3, <4>1
        <5> HIDE DEF first
        <5>3. QED
          BY <5>1, <5>2
      <4>3. QED
        BY <2>1, <3>1, <3>3, <4>2
    <3>4. QED
      BY <3>2, <3>3
  <2>4. QED
    BY <2>2, <2>3
<1>4. QED
  BY <1>2, <1>3 DEF plan
=============================================================================
