-------------------------------- MODULE Scan --------------------------------
(***************************************************************************)
(* crates/parquet-lab/src/scan.rs, scan_in: a query turned into requests,  *)
(* and requests into rows, in three phases: the footer, the indexes the    *)
(* plan needs, and the data.  Every request goes through the TracingStore  *)
(* it extends; what to read is decided by Prune.                           *)
(*                                                                         *)
(* The reader's copy of the file (Fetched) is the set of offsets it holds: *)
(* what it does not hold reads as zeros, which no index or page decodes    *)
(* from.  The footer read is the one of a reader that knows the size       *)
(* (ReadFooter models the other two); Thrift and the encodings are left    *)
(* out.  Columns do not repeat.                                            *)
(***************************************************************************)
EXTENDS TracingStore, Prune, FiniteSetsExt

CONSTANTS
    Files,       \* key -> the file, as its metadata and pages lay it out
    Strategies,  \* the strategies; coalesce_gap is -1 for None
    Queries      \* the queries; a condition whose op is "all" is None

VARIABLES
    pc,        \* where scan_in is
    key,       \* its arguments
    strategy,
    query,
    have,      \* Fetched: the offsets held
    wanted,    \* the ranges this fetch lacks
    pending,   \*   and the requests for them still to be made, in order
    planned,   \* bytes_planned so far
    groups,    \* the row groups to read: index -> rows and spans
    outcome    \* the result

readerVars == <<pc, key, strategy, query, have, wanted, pending, planned, groups, outcome>>
vars == <<storeVars, readerVars>>

File == Files[key]
Touched == query.columns \cup (IF query.op = "all" THEN {} ELSE {query.column})

\* tail_range: where the last bytes of the file that are read first start.
TailStart == LET want == IF strategy.prefetch > 8 THEN strategy.prefetch ELSE 8
             IN  IF File.size > want THEN File.size - want ELSE 0

Init ==
    /\ StoreInit
    /\ key \in DOMAIN Files
    /\ strategy \in Strategies
    /\ query \in Queries
    /\ pc = "tail"
    /\ have = {}
    /\ wanted = {}
    /\ pending = <<>>
    /\ planned = 0
    /\ groups = <<>>
    /\ outcome = [ok |-> FALSE, why |-> "pending"]

(***************************************************************************)
(* Ranges                                                                  *)
(***************************************************************************)
\* Fetched::missing: the parts of s not yet fetched.
Missing(held, s) ==
    LET free   == Offsets(s) \ held
        starts == {o \in free : o - 1 \notin free}
        End(o) == Min({e \in o .. s.end : e \notin free})
    IN  {SpanOf(o, End(o)) : o \in starts}

\* coalesce: ranges whose gap is at most `gap` become one; with -1, those that overlap.  A
\* range leads a merged one when every range before it ends too far away.
Coalesce(spans, gap) ==
    LET leads   == {s.start : s \in {s \in spans :
                       \A t \in spans : t.start < s.start => t.end + gap < s.start}}
        With(o) == {s \in spans : s.start >= o /\ \A l \in leads : l > o => s.start < l}
    IN  {SpanOf(o, Max({s.end : s \in With(o)})) : o \in leads}

Total(spans) == SumFunction([s \in spans |-> SpanLen(s)])
InOrder(spans) ==
    [i \in 1 .. Cardinality(spans) |->
        CHOOSE s \in spans : Cardinality({t \in spans : t.start < s.start}) = i - 1]

\* Faulty variant: a merged range is requested whole, with the bytes already held.
RequestsForMerged == InOrder(Coalesce(wanted, strategy.coalesce_gap))

\* Faulty variant: the indexes are not merged over the strategy's gap.
RequestsUnmergedIndexes ==
    LET gap == IF pc = "dataFetch" THEN strategy.coalesce_gap ELSE 0
    IN  InOrder(UNION {Missing(have, r) : r \in Coalesce(wanted, gap)})

\* The requests of one fetch: the ranges merged, without the bytes already held.
Requests == InOrder(UNION {Missing(have, r) : r \in Coalesce(wanted, strategy.coalesce_gap)})

\* Faulty variant: the bytes between merged ranges are planned too.
PlannedWithGaps == Total(Coalesce(wanted, strategy.coalesce_gap))

Planned == Total(Coalesce(wanted, 0))

\* fetch: what is missing of the spans asked for, if anything, as one phase of requests.
Lack(spans, fetch, then) ==
    /\ wanted' = UNION {Missing(have, s) : s \in spans}
    /\ pc' = IF wanted' = {} THEN then ELSE fetch

Fetch(fetch, gets) ==
    /\ pc = fetch
    /\ NextPhase
    /\ pc' = gets
    /\ pending' = Requests
    /\ planned' = planned + Planned
    /\ UNCHANGED <<key, strategy, query, have, wanted, groups, outcome>>

GetNext(gets, then) ==
    /\ pc = gets
    /\ Get(key, Bounded(Head(pending)))
    /\ have' = have \cup Offsets(MemoryGet(key, Bounded(Head(pending))).span)
    /\ pending' = Tail(pending)
    /\ pc' = IF Len(pending) = 1 THEN then ELSE pc
    /\ UNCHANGED <<key, strategy, query, wanted, planned, groups, outcome>>

(***************************************************************************)
(* Phase 1: the footer                                                     *)
(***************************************************************************)
FetchTail ==
    /\ pc = "tail"
    /\ Get(key, Bounded(SpanOf(TailStart, File.size)))
    /\ have' = TailStart .. File.size - 1
    /\ pc' = "footer"
    /\ UNCHANGED <<key, strategy, query, wanted, pending, planned, groups, outcome>>

FetchFooter ==
    /\ pc = "footer"
    /\ IF TailStart <= File.footer
       THEN pc' = "indexes" /\ UNCHANGED storeVars
       ELSE pc' = "footerRest" /\ NextPhase
    /\ UNCHANGED <<key, strategy, query, have, wanted, pending, planned, groups, outcome>>

FetchFooterRest ==
    /\ pc = "footerRest"
    /\ Get(key, Bounded(SpanOf(File.footer, TailStart)))
    /\ have' = have \cup File.footer .. TailStart - 1
    /\ pc' = "indexes"
    /\ UNCHANGED <<key, strategy, query, wanted, pending, planned, groups, outcome>>

(***************************************************************************)
(* Phase 2: the indexes                                                    *)
(***************************************************************************)
\* The indexes one row group's plan will consult.
GroupIndexes(group) ==
    LET chunk == group.columns[query.column]
    IN  IF strategy.statistics /\ StatisticsSkip(File, chunk, query) THEN {}
        ELSE (IF strategy.bloom /\ query.op = "=" /\ chunk.bloom.kind = "span"
              THEN {chunk.bloom.span} ELSE {})
             \cup
             (IF strategy.page_index /\ ~strategy.whole_chunks
              THEN {chunk.column_index.span} \cup {group.columns[c].offset_index : c \in Touched}
              ELSE {})

IndexesWanted == (UNION {GroupIndexes(File.groups[g]) : g \in DOMAIN File.groups}) \ {Absent}

WantIndexes ==
    /\ pc = "indexes"
    /\ IF query.op = "all"
       THEN pc' = "data" /\ UNCHANGED wanted
       ELSE Lack(IndexesWanted, "indexFetch", "data")
    /\ UNCHANGED <<storeVars, key, strategy, query, have, pending, planned, groups, outcome>>

(***************************************************************************)
(* Phase 3: the data                                                       *)
(***************************************************************************)
\* The mechanisms in use: a filter of unrecorded length turns Bloom filters off.
Use ==
    [statistics |-> strategy.statistics,
     bloom      |-> strategy.bloom /\ \A g \in DOMAIN File.groups :
                       File.groups[g].columns[query.column].bloom.kind # "noLength",
     page_index |-> strategy.page_index /\ ~strategy.whole_chunks]

Plan == [g \in DOMAIN File.groups |-> GroupPlan(File, g, have, query, Touched, Use)]

\* The row groups to read, each with its rows and spans: all, or those the plan kept.
Kept ==
    IF query.op = "all"
    THEN [g \in DOMAIN File.groups |->
             [rows  |-> 0 .. File.groups[g].num_rows - 1,
              spans |-> {File.groups[g].columns[c].range : c \in Touched}]]
    ELSE [g \in {g \in DOMAIN Plan : ~Plan[g].skipped} |->
             [rows |-> Plan[g].rows, spans |-> Plan[g].reads]]

MakePlan ==
    /\ pc = "data"
    /\ IF query.op # "all" /\ \E g \in DOMAIN Plan : ~Plan[g].readable
       THEN /\ pc' = "done"
            /\ outcome' = [ok |-> FALSE, why |-> "plan"]
            /\ UNCHANGED groups
       ELSE /\ pc' = "wantData"
            /\ groups' = Kept
            /\ UNCHANGED outcome
    /\ UNCHANGED <<storeVars, key, strategy, query, have, wanted, pending, planned>>

DataWanted == UNION {groups[g].spans : g \in DOMAIN groups}

WantData ==
    /\ pc = "wantData"
    /\ Lack(DataWanted, "dataFetch", "decode")
    /\ UNCHANGED <<storeVars, key, strategy, query, have, pending, planned, groups, outcome>>

\* The pages of a chunk that are decoded: those inside a span read, when the offset index
\* is held and used; otherwise all of them.
ByIndex(chunk) ==
    /\ chunk.offset_index # Absent /\ Holds(have, chunk.offset_index)
    /\ strategy.page_index /\ ~strategy.whole_chunks
Decoded(chunk, spans) ==
    IF ByIndex(chunk)
    THEN {i \in DOMAIN chunk.pages :
             \E s \in spans : s.start <= chunk.pages[i].span.start /\ chunk.pages[i].span.end <= s.end}
    ELSE DOMAIN chunk.pages

\* The bytes that decoding them looks at.
Looked(chunk, spans) ==
    IF ByIndex(chunk)
    THEN (UNION {Offsets(chunk.pages[i].span) : i \in Decoded(chunk, spans)}) \cup
         (IF chunk.dictionary THEN chunk.range.start .. chunk.pages[1].span.start - 1 ELSE {})
    ELSE Offsets(chunk.range)

\* The value a row of the group shows: null when no decoded page holds the row.
Shown(chunk, spans, row) ==
    LET at == {i \in Decoded(chunk, spans) : row \in Rows(chunk.pages[i])}
    IN  IF at = {} THEN Null
        ELSE LET page == chunk.pages[Min(at)] IN page.values[row - page.first + 1]

GroupStart(file, g) == FoldSet(LAMBDA i, n : n + file.groups[i].num_rows, 0, 1 .. g - 1)

\* The rows of one group that satisfy the condition, numbered in the file.
GroupRows(g) ==
    LET Col(c)  == File.groups[g].columns[c]
        keeps(r) == query.op = "all" \/ RowMatches(query, Shown(Col(query.column), groups[g].spans, r))
    IN  {[row    |-> GroupStart(File, g) + r,
          values |-> [c \in query.columns |-> Shown(Col(c), groups[g].spans, r)]] :
            r \in {r \in groups[g].rows : keeps(r)}}

Decodable(g) ==
    LET Col(c) == File.groups[g].columns[c] IN
    /\ \A c \in Touched : Looked(Col(c), groups[g].spans) \subseteq have
    /\ query.op = "all" \/ \A r \in groups[g].rows :
          \E i \in Decoded(Col(query.column), groups[g].spans) : r \in Rows(Col(query.column).pages[i])

Decode ==
    /\ pc = "decode"
    /\ pc' = "done"
    /\ outcome' = IF \A g \in DOMAIN groups : Decodable(g)
                  THEN [ok |-> TRUE, rows |-> UNION {GroupRows(g) : g \in DOMAIN groups}]
                  ELSE [ok |-> FALSE, why |-> "decode"]
    /\ UNCHANGED <<storeVars, key, strategy, query, have, wanted, pending, planned, groups>>

Next ==
    \/ FetchTail \/ FetchFooter \/ FetchFooterRest
    \/ WantIndexes \/ Fetch("indexFetch", "indexGets") \/ GetNext("indexGets", "data")
    \/ MakePlan
    \/ WantData \/ Fetch("dataFetch", "dataGets") \/ GetNext("dataGets", "decode")
    \/ Decode

Spec == Init /\ [][Next]_vars /\ WF_vars(Next)

(***************************************************************************)
(* Properties                                                              *)
(***************************************************************************)
\* Reading everything: the value of each row, and the rows that satisfy the condition.
ValueAt(chunk, row) ==
    LET i == CHOOSE i \in DOMAIN chunk.pages : row \in Rows(chunk.pages[i])
    IN  chunk.pages[i].values[row - chunk.pages[i].first + 1]

InAnswer(g, row) ==
    \/ query.op = "all"
    \/ RowMatches(query, ValueAt(File.groups[g].columns[query.column], row))

FullRead ==
    UNION {LET group == File.groups[g] IN
           {[row    |-> GroupStart(File, g) + r,
             values |-> [c \in query.columns |-> ValueAt(group.columns[c], r)]] :
               r \in {r \in 0 .. group.num_rows - 1 : InAnswer(g, r)}} :
           g \in DOMAIN File.groups}

\* `Every answer is either "skip", which must be certain, or "read"` (prune.rs): whatever
\* the strategy skips, merges and prefetches, the rows a scan returns, and their values,
\* are those of a full read.
ScanIsExact == outcome.ok => outcome.rows = FullRead

\* "The reader decodes only from bytes it fetched" (scan.rs), and never forgot to fetch
\* some: a scan does not fail, on a plan or on a page.
FetchesWhatItDecodes == pc = "done" => outcome.ok

\* No byte is fetched twice, by any of the three phases: neither the prefetched tail, nor
\* an index inside a merged range.
NoByteFetchedTwice ==
    \A i, j \in DOMAIN requests :
        i # j => \/ requests[i].returned.end <= requests[j].returned.start
                 \/ requests[j].returned.end <= requests[i].returned.start

FooterPhase == IF TailStart <= File.footer THEN 0 ELSE 1
AfterFooter == {i \in DOMAIN requests : requests[i].phase > FooterPhase}
Brought == UNION {Offsets(requests[i].returned) : i \in AfterFooter}

\* Without merging, no request after the footer touches a row group that the statistics rule out.
Unmerged == strategy.coalesce_gap <= 0
ChunkOffsets(chunk) ==
    Offsets(chunk.range) \cup Offsets(chunk.column_index.span)
        \cup Offsets(chunk.offset_index) \cup Offsets(chunk.bloom.span)
RuledOutGroups ==
    {g \in DOMAIN File.groups : StatisticsSkip(File, File.groups[g].columns[query.column], query)}
RuledOutOffsets ==
    UNION {ChunkOffsets(File.groups[g].columns[c]) : g \in RuledOutGroups, c \in Touched}
SkipsByStatistics == Unmerged /\ strategy.statistics /\ query.op # "all"
RuledOutGroupsAreNotFetched == SkipsByStatistics => Brought \cap RuledOutOffsets = {}

\* bytes_planned counts what the fetches were for: a strategy that merges nothing, or only
\* what touches, fetches exactly that after the footer, gaps are all that is added, and "a row
\* group the footer's statistics already rule out needs no index" (scan.rs), nor any of its data.
GapsAreTheOnlyWaste ==
    LET fetched == SumFunction([i \in AfterFooter |-> SpanLen(requests[i].returned)])
    IN  /\ pc = "done" => planned <= fetched /\ (Unmerged => planned = fetched)
        /\ RuledOutGroupsAreNotFetched

\* "That reads the gap too, which is waste, and saves a request" (scan.rs): cutting the bytes
\* already held out of a merged range never makes more requests of it than its ranges were,
\* because what lies between them was fetched by merging over the same gap.
Separate == Coalesce(wanted, IF strategy.coalesce_gap < 0 THEN -1 ELSE 0)
MergingSavesRequests ==
    [][pending = <<>> => Len(pending') <= Cardinality(Separate)]_vars

(***************************************************************************)
(* What the answer rests on: files that are what their metadata says, in   *)
(* objects that hold them, and queries about columns they have.            *)
(***************************************************************************)
\* The spans of a file of n bytes.
InFile(n) == {s \in Span : s.end <= n}

TruthfulFiles ==
    \A k \in DOMAIN Files : \A g \in DOMAIN Files[k].groups :
        LET group == Files[k].groups[g] IN
        \A c \in DOMAIN group.columns :
            LET chunk == group.columns[c] IN
            /\ Paged(chunk) /\ HonestChunk(Files[k], chunk)
            /\ LaidOut(group, chunk) /\ Tiled(group, chunk)
            /\ chunk.range \in Span
            /\ \A i \in DOMAIN chunk.pages :
                  chunk.pages[i].span \in Span /\ Offsets(chunk.pages[i].span) # {}

FilesInObjects ==
    \A k \in DOMAIN Files : LET file == Files[k] IN
        /\ k \in DOMAIN ObjectSize /\ file.size = ObjectSize[k]
        /\ file.footer \in Nat /\ file.footer < file.size
        /\ \A g \in DOMAIN file.groups :
              /\ file.groups[g].num_rows \in Nat \ {0}
              /\ \A c \in DOMAIN file.groups[g].columns :
                    LET chunk == file.groups[g].columns[c] IN
                    /\ {chunk.range, chunk.column_index.span, chunk.offset_index} \subseteq InFile(file.size)
                    /\ chunk.bloom.kind \in {"none", "noLength", "span"}
                    /\ chunk.bloom.kind = "span" => chunk.bloom.span \in InFile(file.size)

\* No byte is of two row groups.
GroupsApart ==
    \A k \in DOMAIN Files : LET all == Files[k].groups IN
        \A g, h \in DOMAIN all : g # h =>
            \A c \in DOMAIN all[g].columns, d \in DOMAIN all[h].columns :
                ChunkOffsets(all[g].columns[c]) \cap ChunkOffsets(all[h].columns[d]) = {}

QueriesOfFiles ==
    /\ \A q \in Queries :
          /\ q.op \in Ops \cup {"all"}
          /\ \A k \in DOMAIN Files : \A g \in DOMAIN Files[k].groups :
                LET columns == DOMAIN Files[k].groups[g].columns
                IN  q.columns \subseteq columns /\ (q.op # "all" => q.column \in columns)
    /\ \A s \in Strategies : s.prefetch \in Nat /\ s.coalesce_gap \in Nat \cup {-1}

(***************************************************************************)
(* The inductive invariant                                                 *)
(***************************************************************************)
HasPlan == pc \in {"wantData", "dataFetch", "dataGets", "decode"}

\* The row groups kept have the rows of the answer, and in each column touched every page that
\* has a row they keep is read.
Covers(kept) ==
    /\ DOMAIN kept \subseteq DOMAIN File.groups
    /\ \A g \in DOMAIN kept : kept[g].rows \subseteq 0 .. File.groups[g].num_rows - 1
    /\ \A g \in DOMAIN File.groups : \A row \in 0 .. File.groups[g].num_rows - 1 :
          InAnswer(g, row) => g \in DOMAIN kept /\ row \in kept[g].rows
    /\ \A g \in DOMAIN kept, c \in Touched :
          LET pages == File.groups[g].columns[c].pages IN
          \A i \in DOMAIN pages : Rows(pages[i]) \cap kept[g].rows # {} =>
              \E s \in kept[g].spans : s.start <= pages[i].span.start /\ pages[i].span.end <= s.end

\* Dictionaries are read too, and whole chunks whose pages cannot be told apart; the offset
\* index of one may come to be held later.
Reads(kept) ==
    \A g \in DOMAIN kept :
        /\ kept[g].spans \subseteq InFile(File.size)
        /\ \A c \in Touched : LET chunk == File.groups[g].columns[c] IN
              /\ ~ByIndex(chunk) => chunk.range \in kept[g].spans
              /\ \/ Offsets(Dictionary(chunk)) = {}
                 \/ \E s \in kept[g].spans : Offsets(Dictionary(chunk)) \subseteq Offsets(s)

PlanCoversTheAnswer == HasPlan => Covers(groups)
PlanReadsWhatIsDecoded == HasPlan => Reads(groups)

\* What the fetch under way, or the last one, was for.
Sought ==
    IF HasPlan THEN DataWanted ELSE IF query.op = "all" THEN {} ELSE IndexesWanted
Together(spans) == UNION {Offsets(s) : s \in spans}
Apart(spans) ==
    \A i, j \in DOMAIN spans : i # j => Offsets(spans[i]) \cap Offsets(spans[j]) = {}

\* What was fetched is held, and was fetched once.
TraceIsHeld ==
    LET returned == [i \in DOMAIN requests |-> requests[i].returned]
    IN  /\ \A i \in DOMAIN requests :
              /\ returned[i] \in InFile(File.size)
              /\ Offsets(returned[i]) # {} /\ Offsets(returned[i]) \subseteq have
        /\ Apart(returned)

FooterFirst ==
    /\ pc = "tail" => requests = <<>> /\ have = {}
    /\ pc \in {"footer", "footerRest"} => have = TailStart .. File.size - 1
    /\ pc = "footerRest" => File.footer < TailStart

\* A fetch that is to be made lacks something, and makes up what is sought.
FetchLacks ==
    pc \in {"indexFetch", "dataFetch"} =>
        /\ wanted \subseteq InFile(File.size) /\ wanted # {}
        /\ \A w \in wanted : Offsets(w) # {} /\ Offsets(w) \cap have = {}
        /\ Together(Sought) \subseteq have \cup Together(wanted)

\* The requests still to be made bring nothing that is held, and the rest of what is sought.
FetchBrings ==
    pc \in {"indexGets", "dataGets"} =>
        /\ pending \in Seq(InFile(File.size)) /\ pending # <<>>
        /\ \A i \in DOMAIN pending : Offsets(pending[i]) # {} /\ Offsets(pending[i]) \cap have = {}
        /\ Apart(pending)
        /\ Together(Sought) \subseteq have \cup UNION {Offsets(pending[i]) : i \in DOMAIN pending}

FetchedIsHeld == pc \in {"data", "decode"} => Together(Sought) \subseteq have

ScanIInv ==
    /\ key \in DOMAIN Files /\ strategy \in Strategies /\ query \in Queries
    /\ StoreIInv
    /\ PlanCoversTheAnswer /\ PlanReadsWhatIsDecoded
    /\ TraceIsHeld /\ FooterFirst
    /\ FetchLacks /\ FetchBrings /\ FetchedIsHeld
    /\ ScanIsExact /\ FetchesWhatItDecodes

(***************************************************************************)
(* What the costs need besides.                                            *)
(***************************************************************************)
BeforeIndexes == {"tail", "footer", "footerRest", "indexes", "indexFetch"}
Getting == {"indexGets", "dataGets"}

\* The footer's requests are of one phase or two, and every other of a later one.
FooterPhases ==
    /\ pc \in {"tail", "footer"} => phase = 0
    /\ pc = "footerRest" => phase = 1
    /\ pc \notin {"tail", "footer", "footerRest"} => phase >= FooterPhase
    /\ pc \in Getting => phase > FooterPhase
    /\ pc \in BeforeIndexes => AfterFooter = {}

\* What was asked for after the footer, answered or not, is what was planned, and gaps.
Coming == IF pc \in Getting THEN UNION {Offsets(pending[i]) : i \in DOMAIN pending} ELSE {}
Asked == Brought \cup Coming
PlannedIsAsked ==
    /\ wanted \subseteq InFile(File.size) /\ IsFiniteSet(Asked) /\ planned \in Nat
    /\ planned <= Cardinality(Asked)
    /\ Unmerged => planned = Cardinality(Asked)

\* Between two bytes that are held or coming, those that are not make a gap too long to be merged
\* over, unless the second of the two is in the tail, of which nothing is lacking.
Spread(held) ==
    \A x, y \in held : \A z \in x .. y :
        z \notin held => y - x > strategy.coalesce_gap \/ y .. File.size - 1 \subseteq held
HeldIsSpread ==
    /\ have \subseteq 0 .. File.size - 1
    /\ pc \in {"indexes", "indexFetch"} => \E from \in 0 .. File.size : have = from .. File.size - 1
    /\ pc \in {"indexGets", "data", "wantData", "dataFetch"} => Spread(have \cup Coming)

WasteIInv == FooterPhases /\ PlannedIsAsked /\ HeldIsSpread

\* Nothing of a row group that the statistics rule out is planned, wanted or asked for.
RuledOutIsLeft ==
    SkipsByStatistics =>
        /\ Asked \cap RuledOutOffsets = {}
        /\ pc \in {"indexFetch", "dataFetch"} => Together(wanted) \cap RuledOutOffsets = {}
        /\ HasPlan => Together(DataWanted) \cap RuledOutOffsets = {}
=============================================================================
