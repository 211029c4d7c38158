------------------------------- MODULE Column -------------------------------
(***************************************************************************)
(* Reading a column chunk, from the file's bytes: crates/parquet-lab/src/  *)
(* column.rs with pages.rs, decode.rs and plain.rs.  A reader opens the    *)
(* file (OpenFile says what that gives it), decodes the footer (Metadata)  *)
(* and rebuilds the schema (Schema).  It locates the chunk's pages, all of *)
(* them or those the page index chose, and turns each into triples of a    *)
(* repetition level, a definition level and a value, decompressing what is *)
(* compressed (Codecs), decoding runs (Hybrid) and values (Delta), and     *)
(* keeping which bytes of the file each value came from.                   *)
(*                                                                         *)
(* A value is a sequence: the bytes of a byte array, of an INT96 or of a   *)
(* floating-point number, or the one number or bit.                        *)
(***************************************************************************)
EXTENDS Codecs, Delta, Pages, Schema

CONSTANTS
    Plans,       \* what writers are asked to write, and readers to read
    Written(_)   \* the file a writer makes of a plan

VARIABLES
    input,        \* the file, the column and the pages asked for; what was written
    pc,           \* what the reader does next
    chunk, leaf,  \* the column's metadata in the row group, and its place in the schema
    todo,         \* the pages located and not yet decoded
    here,         \* the data page being decoded: the locals of decode_pages' loop
    dictionary,   \* ColumnData: the dictionary page's entries, or none,
    pages,        \*   the data pages,
    triples       \*   and the triples

opened == <<input, chunk, leaf>>
readVars == <<opened, pc, todo, here, dictionary, pages, triples>>
vars == <<codecVars, readVars>>

file == input.file

NoDictionary == [ok |-> FALSE]
NoPage == [ok |-> FALSE]
NotOpened == [ok |-> FALSE]
NoSpan == SpanOf(0, 0)

Init ==
    /\ input \in {Written(p) : p \in Plans}
    /\ pc = "open"
    /\ chunk = NotOpened /\ leaf = NotOpened
    /\ todo = <<>>
    /\ here = NoPage
    /\ dictionary = NoDictionary
    /\ pages = <<>>
    /\ triples = <<>>
    /\ CodecIdle

Return(how) ==
    /\ pc' = how
    /\ UNCHANGED <<opened, todo, here, dictionary, pages, triples>>

-----------------------------------------------------------------------------
(* Opening the file.                                                        *)

\* open_bytes: what the footer says.
Metadata_ == IF FooterSpan(file).ok THEN MetadataIn(file, FooterSpan(file).footer) ELSE ReadError

\* The leaf columns of the schema, and each row group's column chunks.
Footer ==
    Try(Metadata_, LAMBDA md :
    Try(Build(md.v.schema), LAMBDA root :
        Read([leaves |-> Leaves(root.v, <<>>),
              row_groups |-> [g \in DOMAIN md.v.row_groups |-> md.v.row_groups[g].columns]], 0)))

\* levels, up to read_column.  A file may have no such column; a row group without a chunk
\* for every leaf ends the program.
Open ==
    /\ pc = "open"
    /\ \E footer \in {Footer} :
          LET columns == footer.v.row_groups[input.row_group]
          IN  IF ~footer.ok THEN Return("failed")
              ELSE IF input.column > Len(footer.v.leaves) THEN Return("failed")
              ELSE IF input.column > Len(columns) THEN Return("panicked")
              ELSE /\ pc' = "locate"
                   /\ leaf' = footer.v.leaves[input.column]
                   /\ chunk' = columns[input.column]
                   /\ UNCHANGED <<input, todo, here, dictionary, pages, triples>>
    /\ UNCHANGED codecVars

-----------------------------------------------------------------------------
(* Locating the pages.                                                      *)

\* Where read_column_pages reads a page: the start of the chunk, if it says it has a
\* dictionary, and the offsets it was given.
Offsets(range) ==
    (IF chunk.dictionary_page_offset > 0 THEN <<range.start>> ELSE <<>>) \o input.offsets

\* The pages, read from the file up to the end of the chunk.
Located ==
    IF chunk.crypto # <<>> THEN ReadError
    ELSE Try(ByteRangeOf(chunk), LAMBDA range :
        LET to_end  == SubSeq(file, 1, range.v.end)
            in_file == range.v.end \in 0 .. Len(file)
        IN  IF input.whole THEN IF in_file THEN WalkPages(to_end, range.v.start) ELSE ReadError
            ELSE Collect(Offsets(range.v), LAMBDA at : IF in_file THEN ReadPage(to_end, at) ELSE ReadError))

\* read_column, or read_column_pages, up to decode_pages.
Locate ==
    /\ pc = "locate"
    /\ \E located \in {Located} :
          IF located.ok
          THEN /\ pc' = "page"
               /\ todo' = located.v
               /\ UNCHANGED <<opened, here, dictionary, pages, triples>>
          ELSE Return(IF located = Panicked THEN "panicked" ELSE "failed")
    /\ UNCHANGED codecVars

-----------------------------------------------------------------------------
(* Values.                                                                  *)

\* How wide a value is, if all of the type are as wide, and the number in an integer's bytes.
Width == CASE leaf.physical_type \in {"INT32", "FLOAT"}  -> IntBytes
           [] leaf.physical_type \in {"INT64", "DOUBLE"} -> LongBytes
           [] leaf.physical_type = "FIXED_LEN_BYTE_ARRAY" -> leaf.type_length
           [] OTHER -> 0
Integer(raw) == Signed(LittleEndian(raw), 8 * Len(raw))

\* plain.rs: one value that is not a bit.
PlainValue(b, at) ==
    CASE leaf.physical_type \in {"INT32", "INT64"} ->
            Try(ReadBytes(b, at, Width), LAMBDA raw : Read(<<Integer(raw.v)>>, raw.at))
      [] leaf.physical_type \in {"FLOAT", "DOUBLE", "FIXED_LEN_BYTE_ARRAY"} -> ReadBytes(b, at, Width)
      [] leaf.physical_type = "INT96" -> ReadBytes(b, at, 12)
      [] leaf.physical_type = "BYTE_ARRAY" ->
            Try(ReadLittleEndian(b, at, 4), LAMBDA len : ReadBytes(b, len.at, len.v))
      [] OTHER -> ReadError

RECURSIVE PlainValues(_, _, _, _)
PlainValues(b, at, base, count) ==
    IF count = 0 THEN Read(<<>>, at)
    ELSE Try(PlainValue(b, at), LAMBDA value :
         Try(PlainValues(b, value.at, base, count - 1), LAMBDA rest :
             Read(<<[value |-> value.v, span |-> SpanFrom(base, at, value), extra |-> <<>>]>> \o rest.v,
                  rest.at)))

\* plain::decode: booleans are one bit each, the others one after the other.
PlainDecode(b, base, count) ==
    LET byte(i) == base + (i - 1) \div 8
    IN  IF leaf.physical_type # "BOOLEAN" THEN PlainValues(b, 0, base, count)
        ELSE Try(ReadBytes(b, 0, DivCeil(count, 8)), LAMBDA raw :
                 Read([i \in 1 .. count |->
                          [value |-> <<BitAt(b, i - 1)>>, span |-> SpanOf(byte(i), byte(i) + 1),
                           extra |-> <<>>]], raw.at))

\* Dictionary indices: a byte of bit width, then runs.  Each value keeps its entry's bytes,
\* and the run its index was in.
DictionaryDecode(b, base, count) ==
    LET entries == dictionary.entries
        looked_up(run) == [i \in DOMAIN run.values |->
                              [value |-> entries[run.values[i] + 1].value,
                               span  |-> entries[run.values[i] + 1].span,
                               extra |-> <<run.body>>]]
    IN  IF ~dictionary.ok THEN ReadError
        ELSE IF b = <<>> THEN ReadError
        ELSE Try(DecodeRuns(b, 1, base, b[1], count), LAMBDA runs :
                 IF \E i \in ToSet(RunValues(runs.v)) : i >= Len(entries) THEN ReadError
                 ELSE Read(FlattenSeq([r \in DOMAIN runs.v |-> looked_up(runs.v[r])]), runs.at))

\* DELTA_BINARY_PACKED: the encoding's own count must be the page's, and an INT32 wraps.
DeltaDecode(b, base, count) ==
    LET cast(v) == IF leaf.physical_type = "INT32" THEN Signed(v, 8 * IntBytes) ELSE v
    IN  Try(BinaryPacked(b, base), LAMBDA ints :
            IF Len(ints.v) # count THEN ReadError
            ELSE Read([i \in 1 .. count |-> [value |-> <<cast(ints.v[i].value)>>,
                                             span |-> ints.v[i].span, extra |-> <<>>]], ints.at))

\* BYTE_STREAM_SPLIT, of values of one width.
SplitDecode(b, base, count) ==
    LET value(raw) == IF leaf.physical_type \in {"INT32", "INT64"} THEN <<Integer(raw)>> ELSE raw
    IN  IF leaf.physical_type \in {"BOOLEAN", "INT96", "BYTE_ARRAY", "UNKNOWN"} THEN ReadError
        ELSE Try(ByteStreamSplit(b, base, Width, count), LAMBDA split :
                 Read([i \in 1 .. count |-> [split.v[i] EXCEPT !.value = value(@)]], split.at))

\* decode::values: `count` values from bytes that start at `base`.
Values(encoding, b, base, count) ==
    CASE encoding = "PLAIN"                   -> PlainDecode(b, base, count)
      [] encoding \in {"RLE_DICTIONARY", "PLAIN_DICTIONARY"} -> DictionaryDecode(b, base, count)
      [] encoding = "DELTA_BINARY_PACKED"     -> DeltaDecode(b, base, count)
      [] encoding = "DELTA_LENGTH_BYTE_ARRAY" -> LengthByteArray(b, base)
      [] encoding = "DELTA_BYTE_ARRAY"        -> ByteArray(b, base)
      [] encoding = "BYTE_STREAM_SPLIT"       -> SplitDecode(b, base, count)
      [] OTHER                                -> ReadError

-----------------------------------------------------------------------------
(* Pages.                                                                   *)

Body(page) == SubSeq(file, page.body_span.start + 1, page.body_span.end)
Count(page) == Max({page.header.num_values, 0})
Version2(page) == page.header.v2
Compressed == chunk.codec # "UNCOMPRESSED"

\* Version 1 compresses a page's whole body; version 2 its values, when the header says so.
WholeCompressed(page) == ~Version2(page) /\ Compressed
ValuesCompressed(page) == Version2(page) /\ Compressed /\ page.header.is_compressed

\* decompress: the page's bytes, into the size its header says.
Decompress(page, bytes, size) == StartDecompress(chunk.codec, bytes, page.body_span.start, size)

\* The bytes to read: what was stored, or what it was decompressed to.
Ready == stage \in {"idle", "done"}
Plain(stored) == IF stage = "done" THEN out ELSE stored

\* The next page's bytes.  A dictionary page is always passed through its codec, a version 1
\* data page if it is compressed.
BeginPage ==
    LET page == Head(todo)
        type == page.header.page_type
    IN  /\ pc = "page" /\ todo # <<>>
        /\ CASE type = "DICTIONARY_PAGE" -> pc' = "dictionary"
             [] type \in {"DATA_PAGE", "DATA_PAGE_V2"} -> pc' = "levels"
             [] OTHER -> pc' = "failed"
        /\ IF type = "DICTIONARY_PAGE" \/ (type = "DATA_PAGE" /\ Compressed)
           THEN Decompress(page, Body(page), page.header.uncompressed_page_size)
           ELSE UNCHANGED codecVars
        /\ here' = page
        /\ todo' = Tail(todo)
        /\ UNCHANGED <<opened, dictionary, pages, triples>>

\* A page that does not decompress ends the read.
PageDoesNotDecompress ==
    /\ stage \in {"failed", "panicked"}
    /\ pc \in {"dictionary", "levels", "values"}
    /\ Return(stage)
    /\ EndDecompress

\* Faulty variant: a value's span points into the decompressed copy.
KeepSpans(value, to) == value

\* blur: bytes found in a decompressed copy are the compressed bytes that hold them.
Blur(value, to) == [value EXCEPT !.span = to, !.extra = <<>>]

\* The dictionary page: every distinct value, PLAIN.
DictionaryPage ==
    /\ pc = "dictionary" /\ stage = "done"
    /\ \E entries \in {PlainDecode(out, here.body_span.start, Count(here))} :
          IF ~entries.ok THEN Return("failed")
          ELSE /\ dictionary' =
                    [ok |-> TRUE, page |-> here,
                     entries |-> [i \in DOMAIN entries.v |->
                                     IF Compressed THEN Blur(entries.v[i], here.body_span)
                                     ELSE entries.v[i]]]
               /\ pc' = "page"
               /\ here' = NoPage
               /\ UNCHANGED <<opened, todo, pages, triples>>
    /\ EndDecompress

\* level_stream: `count` levels, after their length, or of the length the header gave.
LevelStream(b, at, max_level, count, known_len) ==
    Try(IF known_len = -1 THEN ReadLittleEndian(b, at, 4) ELSE Read(known_len, at), LAMBDA len :
    Try(ReadBytes(b, len.at, len.v), LAMBDA body :
    Try(DecodeRuns(body.v, 0, 0, BitWidth(max_level), count), LAMBDA runs :
        Read(RunValues(runs.v), body.at))))

\* A page's levels.  A column whose maximum is 0 stores none.
Levels(b, at, max_level, count, known_len, absent) ==
    IF max_level > 0 THEN LevelStream(b, at, max_level, count, known_len)
    ELSE Read([i \in 1 .. count |-> absent], at)

\* Both streams of the page at hand, and where they end.
PageLevels(b) ==
    LET count == Count(here)
        known(n) == IF Version2(here) THEN Max({n, 0}) ELSE -1
    IN  Try(Levels(b, 0, leaf.max_rep, count, known(here.header.rep_len), 0), LAMBDA reps :
        Try(Levels(b, reps.at, leaf.max_def, count, known(here.header.def_len), leaf.max_def), LAMBDA defs :
            Read([reps |-> reps.v, defs |-> defs.v], defs.at)))

\* Repetition levels, definition levels, then the values, which version 2 may have
\* compressed on their own.
ReadLevels ==
    /\ pc = "levels" /\ Ready
    /\ \E b \in {Plain(Body(here))} : \E levels \in {PageLevels(b)} :
          IF ~levels.ok THEN Return("failed") /\ EndDecompress
          ELSE LET rest == SubSeq(b, levels.at + 1, Len(b))
               IN  /\ pc' = "values"
                   /\ here' = levels.v @@ [page |-> here, rest |-> rest,
                                           start |-> here.body_span.start + levels.at]
                   /\ IF ValuesCompressed(here)
                      THEN Decompress(here, rest, here.header.uncompressed_page_size - levels.at)
                      ELSE EndDecompress
                   /\ UNCHANGED <<opened, todo, dictionary, pages, triples>>

\* Which of the page's values a slot that is not null holds.
ValueIndex(defs, i) == Cardinality({j \in 1 .. i : defs[j] = leaf.max_def})

\* What the slots that are not null hold, and where.
Present == Cardinality({i \in DOMAIN here.defs : here.defs[i] = leaf.max_def})
Packed_ == WholeCompressed(here.page) \/ ValuesCompressed(here.page)
StoredSpan == SpanOf(IF WholeCompressed(here.page) THEN here.page.body_span.start ELSE here.start,
                     here.page.body_span.end)

\* A value of no bytes has no first stream to point at, which ends the program.
SplitOfNothing == /\ here.page.header.encoding = "BYTE_STREAM_SPLIT"
                  /\ leaf.physical_type = "FIXED_LEN_BYTE_ARRAY"
                  /\ Width = 0 /\ Present > 0

TripleOf(i, values) ==
    [rep |-> here.reps[i], def |-> here.defs[i], page |-> Len(pages) + IF dictionary.ok THEN 1 ELSE 0]
    @@ IF here.defs[i] < leaf.max_def THEN [value |-> Null, span |-> NoSpan, extra |-> <<>>]
       ELSE LET v == values[ValueIndex(here.defs, i)]
            IN  [(IF Packed_ THEN Blur(v, StoredSpan) ELSE v) EXCEPT !.value = Value(@)]

\* The values, and the triples they make with the levels.
ReadValues ==
    /\ pc = "values" /\ Ready
    /\ \E decoded \in {Values(here.page.header.encoding, Plain(here.rest), here.start, Present)} :
          IF SplitOfNothing THEN Return("panicked")
          ELSE IF ~decoded.ok THEN Return("failed")
          ELSE IF Len(decoded.v) < Present THEN Return("failed")
          ELSE /\ pc' = "page"
               /\ triples' = triples \o [i \in DOMAIN here.defs |-> TripleOf(i, decoded.v)]
               /\ pages' = Append(pages, [page |-> here.page,
                              values |-> IF Packed_ THEN StoredSpan
                                         ELSE SpanOf(here.start, here.start + decoded.at)])
               /\ here' = NoPage
               /\ UNCHANGED <<opened, todo, dictionary>>
    /\ EndDecompress

\* Every page is decoded.
Finished ==
    /\ pc = "page" /\ todo = <<>>
    /\ Return("done")
    /\ UNCHANGED codecVars

\* The caller has its answer.
Returned ==
    /\ pc \in {"done", "failed", "panicked"}
    /\ UNCHANGED vars

Next ==
    \/ Open \/ Locate \/ BeginPage \/ PageDoesNotDecompress
    \/ DictionaryPage \/ ReadLevels \/ ReadValues \/ Finished
    \/ CodecNext /\ UNCHANGED readVars
    \/ Returned

Spec == Init /\ [][Next]_vars

-----------------------------------------------------------------------------
(* What the columns' reports and the exercises make of the triples.         *)

\* The triples of the n-th page located.
OfPage(n) == SelectSeq(triples, LAMBDA t : t.page = n)

\* first_rows: how many rows start before each page.
FirstRows(reps_per_page) ==
    LET zeros(p) == Cardinality({i \in DOMAIN reps_per_page[p] : reps_per_page[p][i] = 0})
    IN  [p \in DOMAIN reps_per_page |-> MapThenSumSet(zeros, 1 .. p - 1)]

-----------------------------------------------------------------------------
(* Properties.                                                              *)

Undamaged == input.damage = "none"
Leading == IF input.dictionary THEN 1 ELSE 0

\* The slots the writer put in the pages asked for, and the position of each one's page.
WrittenSlots ==
    FlattenSeq([p \in DOMAIN input.slots |->
        [i \in DOMAIN input.slots[p] |-> input.slots[p][i] @@ [page |-> p - 1 + Leading]]])

Slots ==
    [i \in DOMAIN triples |-> [rep |-> triples[i].rep, def |-> triples[i].def,
                               value |-> triples[i].value, page |-> triples[i].page]]

\* A reader of an undamaged chunk gets, page by page, the levels and values that were written
\* in the pages it asked for, and all of them when it is done; it reports no error.  However
\* they are encoded and compressed, cut into pages and into runs (read_column,
\* read_column_pages).
ReadsWhatWasWritten ==
    Undamaged => /\ pc \notin {"failed", "panicked"}
                 /\ IsPrefix(Slots, WrittenSlots)
                 /\ pc = "done" => Slots = WrittenSlots

\* A whole column's triples make the records it was written from, nulls, empty lists and
\* lists cut by a page's end included (assemble); and the repetition levels say which row
\* each page starts with (first_rows).
RecordsComeBack ==
    pc = "done" /\ Undamaged /\ input.whole =>
        /\ Assemble(PathFields(leaf.path), triples) = input.records
        /\ FirstRows([p \in DOMAIN pages |-> [i \in DOMAIN OfPage(p - 1 + Leading) |->
                                                 OfPage(p - 1 + Leading)[i].rep]])
             = input.first_rows

\* The bytes of a span, and of a value as the file stores it.
Bytes(s) == SubSeq(file, s.start + 1, s.end)
ValueBytes(v) ==
    IF leaf.physical_type \in {"INT32", "INT64"}
    THEN [k \in 1 .. Width |-> (v[1] \div 256 ^ (k - 1)) % 256] ELSE v

\* What holds the values of a page whose values are compressed.
CompressedBlock(page) ==
    IF Version2(page)
    THEN SpanOf(page.body_span.start + page.header.rep_len + page.header.def_len, page.body_span.end)
    ELSE page.body_span

HasItsBytes(t, page) ==
    LET encoding == page.header.encoding
        indexed  == encoding \in {"RLE_DICTIONARY", "PLAIN_DICTIONARY"}
        home     == IF indexed THEN dictionary.page.body_span ELSE page.body_span
        found    == FlattenSeq([k \in DOMAIN t.extra |-> Bytes(t.extra[k])])
        stored   == ValueBytes(t.value.value)
    IN  IF WholeCompressed(page) \/ ValuesCompressed(page) THEN t.span = CompressedBlock(page)
        ELSE /\ Inside(t.span, home)
             /\ \A k \in DOMAIN t.extra : Inside(t.extra[k], page.body_span)
             /\ CASE indexed /\ Compressed -> t.span = home
                  [] leaf.physical_type = "BOOLEAN" -> SpanLen(t.span) = 1
                  [] encoding = "DELTA_BINARY_PACKED" -> TRUE
                  [] encoding = "DELTA_BYTE_ARRAY" -> IsSuffix(Bytes(t.span), stored)
                  [] encoding = "BYTE_STREAM_SPLIT" -> Bytes(t.span) \o found = stored
                  [] OTHER -> IsSuffix(stored, Bytes(t.span))

\* Every value says which bytes of the file it came from: they are in its page, or its
\* dictionary's, and hold it; of a compressed page, they are the compressed bytes of the
\* page's values and never a place in the decompressed copy.
SpansHoldTheirValues ==
    Undamaged =>
        \A i \in DOMAIN triples :
            triples[i].value # Null =>
                HasItsBytes(triples[i], pages[triples[i].page - Leading + 1].page)

\* A chunk that lost a value, an entry, its dictionary or a byte, that says a wrong size or
\* something this reader does not know, or whose codec's stream is not one, is never read
\* as if nothing were wrong.
DamageIsNoticed == ~Undamaged => pc # "done"
=============================================================================
