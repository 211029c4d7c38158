----------------------------- MODULE ReadFooter -----------------------------
(***************************************************************************)
(* crates/parquet-lab/src/reader.rs, read_footer: opening a Parquet file   *)
(* in an object store.  The reader learns the file's size, reads its tail, *)
(* works out where the footer is, and fetches what part of it the tail did *)
(* not hold.  Every request goes through the TracingStore it extends.      *)
(*                                                                         *)
(* A reader that is told the size (from a listing, a manifest, a table's   *)
(* snapshots) may be told wrong: Drift is how far off it may be.           *)
(* Decoding the footer's Thrift is left out; its bytes are what matters.   *)
(***************************************************************************)
EXTENDS TracingStore

CONSTANTS
    Content,    \* the objects' bytes: key -> sequence of bytes
    Prefetch,   \* the values FooterOptions.prefetch may take
    Drift       \* by how much a known size may differ from the object's

ASSUME ReaderAssumption ==
    /\ \A k \in DOMAIN Content : Content[k] \in Seq(0 .. 255)
    /\ ObjectSize = [k \in DOMAIN Content |-> Len(Content[k])]
    /\ Prefetch \subseteq Nat
    /\ Drift \subseteq Int

VARIABLES
    pc,        \* the next call read_footer makes
    key,       \* its arguments: the file,
    options,   \*   and the FooterOptions
    size,      \* the size the reader goes by, until the tail's response carries it
    tail,      \* tail.span: the bytes of the first GET
    footer,    \* where the footer is, once located
    outcome    \* what read_footer returned

readerVars == <<pc, key, options, size, tail, footer, outcome>>
vars == <<storeVars, readerVars>>

\* The format, and the outcome of opening the whole file at once.
Whole == INSTANCE OpenFile

NoSpan == SpanOf(0, 0)

\* The bytes the first GET asks for: the prefetch, and never less than a trailer.
Want == IF options.prefetch > Whole!TRAILER_LEN THEN options.prefetch ELSE Whole!TRAILER_LEN

\* slices of the object: bytes[s.start..s.end]
Bytes(s) == SubSeq(Content[key], s.start + 1, s.end)

\* tail_range: the last `want` bytes of a file of `n` bytes.
TailRange(n) == Bounded(SpanOf(IF n > Want THEN n - Want ELSE 0, n))

SizeSources(k) ==
    {[from |-> "Head"], [from |-> "SuffixRange"]} \cup
    (IF k \in DOMAIN ObjectSize
     THEN {[from |-> "Known", size |-> ObjectSize[k] + d] :
              d \in {d \in Drift : ObjectSize[k] + d >= 0}}
     ELSE {[from |-> "Known", size |-> 0]})

Init ==
    /\ StoreInit
    /\ key \in Keys
    /\ options \in [size : SizeSources(key), prefetch : Prefetch]
    /\ pc = IF options.size.from = "Head" THEN "head" ELSE "tail"
    /\ size = IF options.size.from = "Known" THEN options.size.size ELSE 0
    /\ tail = NoSpan
    /\ footer = NoSpan
    /\ outcome = Whole!Pending

\* `?`, or the end of the function: nothing more is requested.
Return(o) ==
    /\ pc' = "done"
    /\ outcome' = o

StoreFailure(status) == Whole!Failed(IF status = 404 THEN "NotFound" ELSE "RangeNotSatisfiable")

\* SizeSource::Head: learn the size,
AskSize ==
    /\ pc = "head"
    /\ Head_(key)
    /\ LET status == MemoryHead(key).status IN
       IF status = 200
       THEN /\ pc' = "headPhase"
            /\ size' = ObjectSize[key]
            /\ UNCHANGED outcome
       ELSE Return(StoreFailure(status)) /\ UNCHANGED size
    /\ UNCHANGED <<key, options, tail, footer>>

\* Faulty variant: the tail is asked for without waiting.
SizeKnownTooSoon ==
    /\ pc = "headPhase"
    /\ pc' = "tail"
    /\ UNCHANGED <<storeVars, key, options, size, tail, footer, outcome>>

\* and wait for it before the tail is asked for.
SizeKnown ==
    /\ pc = "headPhase"
    /\ NextPhase
    /\ pc' = "tail"
    /\ UNCHANGED <<key, options, size, tail, footer, outcome>>

\* Faulty variant: the reader goes on by the size it was told.
ToldSize == IF options.size.from = "SuffixRange" THEN ObjectSize[key] ELSE size

\* GetResult.size: the object's size, which every response carries.
ResponseSize == ObjectSize[key]

\* The first GET.  Its response carries the object's true size.
FetchTail ==
    LET range  == IF options.size.from = "SuffixRange" THEN Suffix(Want) ELSE TailRange(size)
        answer == MemoryGet(key, range)
    IN  /\ pc = "tail"
        /\ Get(key, range)
        /\ IF answer.status = 206
           THEN /\ pc' = "locate"
                /\ tail' = answer.span
                /\ size' = ResponseSize
                /\ UNCHANGED outcome
           ELSE Return(StoreFailure(answer.status)) /\ UNCHANGED <<tail, size>>
        /\ UNCHANGED <<key, options, footer>>

\* The last eight bytes of the tail are read as the trailer.  A footer the tail holds is
\* sliced out of it; Rust panics when a slice reaches past the end of the tail.
LocateFooter ==
    /\ pc = "locate"
    /\ LET at == Whole!Locate(Bytes(SpanOf(tail.end - Whole!TRAILER_LEN, tail.end)), size)
       IN  IF SpanLen(tail) < Whole!TRAILER_LEN
           THEN Return(Whole!Failed("TooShort")) /\ UNCHANGED <<storeVars, footer>>
           ELSE IF ~at.ok
           THEN Return(at) /\ UNCHANGED <<storeVars, footer>>
           ELSE IF tail.start <= at.footer.start
           THEN /\ footer' = at.footer
                /\ IF at.footer.end <= tail.end
                   THEN Return(Whole!Opened(at.footer, Bytes(at.footer)))
                   ELSE Return(Whole!Failed("panic"))
                /\ UNCHANGED storeVars
           ELSE /\ footer' = at.footer
                /\ NextPhase
                /\ pc' = "missing"
                /\ UNCHANGED outcome
    /\ UNCHANGED <<key, options, size, tail>>

\* Faulty variant: the whole footer is fetched again.
WholeFooter == footer

\* The part of the footer before the tail, and the part in it.
MissingPart == SpanOf(footer.start, tail.start)
TailPart == SpanOf(tail.start, footer.end)

\* The second GET, joined to what the tail holds of the footer.
FetchMissing ==
    LET answer == MemoryGet(key, Bounded(MissingPart))
    IN  /\ pc = "missing"
        /\ Get(key, Bounded(MissingPart))
        /\ IF answer.status # 206 THEN Return(StoreFailure(answer.status))
           ELSE IF footer.end < tail.start \/ footer.end > tail.end
           THEN Return(Whole!Failed("panic"))
           ELSE Return(Whole!Opened(footer, Bytes(answer.span) \o Bytes(TailPart)))
        /\ UNCHANGED <<key, options, size, tail, footer>>

Next == AskSize \/ SizeKnown \/ FetchTail \/ LocateFooter \/ FetchMissing

\* read_footer runs to completion on the caller's thread: its next call is always made.
Spec == Init /\ [][Next]_vars /\ WF_vars(Next)

(***************************************************************************)
(* Properties                                                              *)
(***************************************************************************)

\* read_footer implements opening the whole file: with any source of the size and any
\* prefetch, the requests it makes end in exactly the footer, or the error, that the
\* file's own end calls for.  A reader told a wrong size ends as one who looks where the
\* file's end would then be, which may be a failure, or other bytes taken for the footer.
ImplementsOpenFile == Whole!Spec

Gets == {i \in DOMAIN requests : requests[i].method = "GET"}

\* "When the footer fits inside what was read, [prefetching] saves the second GET
\* entirely": there is a second GET exactly when the prefetch is too short for the footer; and
\* no byte is fetched by both of them.
FetchesNoMoreThanItMust ==
    /\ outcome.ok /\ ~Whole!Misled(key, options) =>
          (Cardinality(Gets) = 2 <=>
              options.prefetch < SpanLen(footer) + Whole!TRAILER_LEN /\ SpanLen(footer) > 0)
    /\ \A i, j \in Gets :
          i # j => \/ requests[i].returned.end <= requests[j].returned.start
                   \/ requests[j].returned.end <= requests[i].returned.start

\* Each request that needs an earlier answer waits for it: the requests of one read never
\* overlap in time, however many connections there are.
RequestsWaitForAnswers ==
    \A i, j \in DOMAIN requests : i < j => requests[i].end <= requests[j].start

(***************************************************************************)
(* The inductive invariant: what read_footer knows between its requests.   *)
(***************************************************************************)

ReaderTypeOK ==
    /\ pc \in {"head", "headPhase", "tail", "locate", "missing", "done"}
    /\ key \in Keys
    /\ options \in [size : SizeSources(key), prefetch : Prefetch]
    /\ size \in Nat /\ tail \in Span

\* The size the tail is asked for by.
Told == IF options.size.from = "Known" THEN options.size.size ELSE ObjectSize[key]

\* Before the tail is asked for, size is that one; a suffix range does without.
SizeIsTold ==
    /\ pc \in {"head", "headPhase"} => options.size.from = "Head"
    /\ pc = "headPhase" \/ (pc = "tail" /\ options.size.from = "Head") => key \in DOMAIN ObjectSize
    /\ pc \in {"headPhase", "tail"} => options.size.from = "SuffixRange" \/ size = Told

\* Once there is a tail, it is the bytes that a reader going by that size takes for the file's
\* end, and size is the file's own.
TailIsTaken ==
    pc \in {"locate", "missing"} =>
        /\ key \in DOMAIN ObjectSize
        /\ size = ObjectSize[key]
        /\ tail = Whole!Taken(key, Told, options.prefetch)
        /\ options.size.from = "SuffixRange" \/ tail.start < tail.end

\* A footer still to be fetched is where the trailer says, and starts before the tail.
FooterIsLocated ==
    pc = "missing" =>
        LET at == Whole!Locate(Bytes(SpanOf(tail.end - Whole!TRAILER_LEN, tail.end)), size)
        IN  /\ SpanLen(tail) >= Whole!TRAILER_LEN
            /\ at.ok /\ footer = at.footer
            /\ footer.start < tail.start

OutcomeIsRight == outcome = IF pc = "done" THEN Whole!Verdict(key, options) ELSE Whole!Pending

\* What is asked next goes into a later phase than all before it, as each request did.
OnePhaseEach ==
    /\ \A i, j \in DOMAIN requests : i < j => requests[i].phase < requests[j].phase
    /\ pc \in {"head", "tail", "missing"} => \A i \in DOMAIN requests : requests[i].phase < phase

\* The one GET before the footer is located is the tail's.
OneGetSoFar ==
    /\ pc \in {"head", "headPhase", "tail"} => Gets = {}
    /\ pc \in {"locate", "missing"} => \E i \in Gets : Gets = {i} /\ requests[i].returned = tail
    /\ pc = "done" => FetchesNoMoreThanItMust

ReaderIInv ==
    /\ StoreIInv
    /\ ReaderTypeOK
    /\ SizeIsTold
    /\ TailIsTaken
    /\ FooterIsLocated
    /\ OutcomeIsRight
    /\ OnePhaseEach
    /\ OneGetSoFar
=============================================================================
