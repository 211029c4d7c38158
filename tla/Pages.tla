-------------------------------- MODULE Pages --------------------------------
(***************************************************************************)
(* crates/parquet-lab/src/pages.rs: a column chunk's pages, found by their *)
(* headers.  A buffer holds the file up to the end of the chunk, so that   *)
(* positions are file offsets.                                             *)
(***************************************************************************)
EXTENDS Metadata

\* read_page, up to the body: the sub-header is the one that matches the page's type, and
\* its statistics are a struct.
SubHeader(type) == CASE type = 0 -> 5 [] type = 2 -> 7 [] type = 3 -> 8
StatsField(type) == CASE type = 0 -> 5 [] type = 2 -> 0 [] type = 3 -> 8
EncodingField(type) == IF type = 3 THEN 4 ELSE 2

KnownPages == {0, 2, 3}

\* What a page's header says, and the sub-header it has, if it has the one for its type.
HeaderOf(h, type, sub, stats) ==
    LET in_sub(id, default) == IF sub = <<>> THEN default ELSE UnwrapOr(Opt(sub[1], id, "int"), default)
        v2 == type = 3 /\ sub # <<>>
    IN  [page_type              |-> EnumName(PageTypes, type),
         uncompressed_page_size |-> Opt(h.v, 2, "int")[1],
         compressed_page_size   |-> Opt(h.v, 3, "int")[1],
         num_values             |-> in_sub(1, 0),
         encoding               |-> EnumName(EncodingNames, in_sub(EncodingField(type), -1)),
         statistics             |-> stats,
         crc                    |-> Opt(h.v, 4, "int"),
         v2                     |-> v2,
         num_nulls              |-> IF v2 THEN in_sub(2, 0) ELSE 0,
         num_rows               |-> IF v2 THEN in_sub(3, 0) ELSE 0,
         def_len                |-> IF v2 THEN in_sub(5, 0) ELSE 0,
         rep_len                |-> IF v2 THEN in_sub(6, 0) ELSE 0,
         is_compressed          |-> v2 /\ UnwrapOr(Opt(sub[1], 7, "bool"), TRUE),
         tree                   |-> h]

WithSubHeader(h, type, sub) ==
    Try(IF sub = <<>> THEN Read(<<>>, 0) ELSE StatisticsIn(sub[1], StatsField(type)), LAMBDA stats :
        Read(HeaderOf(h.v, type, sub, stats.v), h.at))

PageHeader(b, at) ==
    Try(ReadStruct(b, at, 0), LAMBDA header :
        LET h    == header.v.v
            type == Opt(h, 1, "int")[1]
        IN  IF ~Has(h, {1, 2, 3}, {}) THEN ReadError
            ELSE IF type \notin KnownPages THEN WithSubHeader(header, type, <<>>)
            ELSE IF NotAStruct(h, SubHeader(type)) THEN ReadError
            ELSE WithSubHeader(header, type, Opt(h, SubHeader(type), "struct")))

\* read_page: a header, the body it measures, and whether the body is still the one the header's
\* checksum was made of.
ReadPage(b, at) ==
    Try(PageHeader(b, at), LAMBDA h :
    Try(ReadBytes(b, h.at, h.v.compressed_page_size), LAMBDA body :
        Read([header      |-> h.v,
              header_span |-> SpanOf(at, h.at),
              body_span   |-> SpanOf(h.at, body.at),
              crc_ok      |-> MapOption(h.v.crc, LAMBDA crc : crc = LittleEndian(Crc32(body.v)))], body.at)))

PageSpan(page) == SpanOf(page.header_span.start, page.body_span.end)

\* walk_pages: page after page, to the end of the buffer.
RECURSIVE WalkPages(_, _)
WalkPages(b, at) ==
    IF at = Len(b) THEN Read(<<>>, at)
    ELSE Try(ReadPage(b, at), LAMBDA page :
         Try(WalkPages(b, page.at), LAMBDA rest : Read(<<page.v>> \o rest.v, rest.at)))
=============================================================================
