------------------------------- MODULE PageIndex -------------------------------
(***************************************************************************)
(* crates/parquet-lab/src/page_index.rs: per page of a column chunk, what  *)
(* its values are bounded by, and where it is.  Each index is a structure  *)
(* of its own, at the place the footer gives; a chunk may have none.       *)
(***************************************************************************)
EXTENDS Metadata

\* read_at: a struct that is exactly the bytes of a span.
ReadAt(file, span) ==
    IF span.end > Len(file) THEN ReadError
    ELSE Try(ReadStruct(SubSeq(file, 1, span.end), span.start, 0), LAMBDA tree :
             IF tree.at = span.end THEN tree ELSE ReadError)

\* list: a field's items, none if it is missing or of another type.
ListIn(s, id) == UnwrapOr(Opt(s, id, "list"), <<>>)

\* column_index.  What is not of the type it should be is false, empty or passed over.
ColumnIndex(file, chunk) ==
    IF chunk.column_index = <<>> THEN Read(<<>>, 0)
    ELSE Try(ReadAt(file, chunk.column_index[1]), LAMBDA tree :
        LET s == tree.v.v
            nulls == ListIn(s, 1)
            binaries(items) == [i \in DOMAIN items |-> IF items[i].is = "binary" THEN items[i].v ELSE <<>>]
        IN  Read(<<[null_pages     |-> [i \in DOMAIN nulls |-> nulls[i].is = "bool" /\ nulls[i].v],
                    min_values     |-> binaries(ListIn(s, 2)),
                    max_values     |-> binaries(ListIn(s, 3)),
                    boundary_order |-> EnumName(BoundaryOrders, UnwrapOr(Opt(s, 4, "int"), -1)),
                    null_counts    |-> MapOption(FieldOf(s, 5), LAMBDA f : ItemsOf(ListIn(s, 5), "int")),
                    span           |-> chunk.column_index[1],
                    tree           |-> tree.v]>>, 0))

PageLocation(node) ==
    Try(AsStruct(node), LAMBDA p :
        IF ~Has(p.v, {1, 2, 3}, {}) THEN ReadError
        ELSE Read([offset               |-> Opt(p.v, 1, "int")[1],
                   compressed_page_size |-> Opt(p.v, 2, "int")[1],
                   first_row_index      |-> Opt(p.v, 3, "int")[1]], 0))

\* offset_index: where the data pages are, and the row each starts with.
OffsetIndex(file, chunk) ==
    IF chunk.offset_index = <<>> THEN Read(<<>>, 0)
    ELSE Try(ReadAt(file, chunk.offset_index[1]), LAMBDA tree :
         Try(Collect(ListIn(tree.v.v, 1), PageLocation), LAMBDA pages :
             Read(<<[pages |-> pages.v, span |-> chunk.offset_index[1], tree |-> tree.v]>>, 0)))

\* PageLocation::span
LocationSpan(page) == SpanOf(page.offset, page.offset + page.compressed_page_size)

\* Faulty variant: a page ends with the row the next one starts with.
RowRangesTooLong(pages, num_rows) ==
    [i \in DOMAIN pages |-> SpanOf(pages[i].first_row_index,
                                   IF i = Len(pages) THEN num_rows ELSE pages[i + 1].first_row_index + 1)]

\* OffsetIndex::row_ranges: the rows of each page, up to where the next one's start.
RowRanges(pages, num_rows) ==
    [i \in DOMAIN pages |-> SpanOf(pages[i].first_row_index,
                                   IF i = Len(pages) THEN num_rows ELSE pages[i + 1].first_row_index)]
=============================================================================
