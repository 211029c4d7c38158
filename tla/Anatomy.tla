-------------------------------- MODULE Anatomy --------------------------------
(***************************************************************************)
(* The parts of a file against each other.  A reader of the book's files   *)
(* goes about a column in several ways: by its map (Structure), by its     *)
(* pages (Column), by its page index (PageIndex), by its Bloom filter      *)
(* (Bloom) and by its statistics (Stats).  What one of them says, the      *)
(* others must bear out.                                                   *)
(***************************************************************************)
EXTENDS Column, Structure, Stats

\* The files that are as they should be, readable or not.
Sound == input.damage \in {"none", "sealed", "encrypted pages"}

\* A file of its own: those that only ask for other pages have the same map.
Mapped == pc = "open" /\ input.whole

RECURSIVE AllRegions(_)
AllRegions(r) == {r} \cup UNION {AllRegions(r.children[i]) : i \in DOMAIN r.children}

\* Regions one after the other, with nothing between them, from a start to an end.
Adjacent(regions, start, end) ==
    LET ends == <<start>> \o [i \in DOMAIN regions |-> regions[i].span.end]
    IN  /\ \A i \in DOMAIN regions : regions[i].span.start = ends[i]
        /\ ends[Len(ends)] = end

\* A Thrift struct is its fields and a stop byte, after the header of a field that is one; a
\* list is its header and its items.
Tiled(r) ==
    LET start == IF "header" \in DOMAIN r THEN r.header.end ELSE r.span.start
    IN  CASE r.children = <<>> -> r.span.start <= r.span.end
          [] r.kind # "thrift" -> Adjacent(r.children, r.span.start, r.span.end)
          [] r.type = "list"   -> /\ Adjacent(r.children, r.children[1].span.start, r.span.end)
                                  /\ r.children[1].span.start > start
          [] OTHER             -> Adjacent(r.children, start, r.span.end - 1)

MapTiles(structure) ==
    /\ structure.ok
    /\ structure.v.span = SpanOf(0, Len(file))
    /\ \A r \in AllRegions(structure.v) : Tiled(r)

\* The map of a file has every byte in its place: regions never overlap and leave nothing out,
\* from the magic to the trailer, and down to the fields of the Thrift structs, however the file
\* is laid out, signed, encrypted in part or sealed (structure_inner, encrypted_structure,
\* annotate_node).
RegionsTile == Mapped /\ Sound => MapTiles(StructureOf(file))

-----------------------------------------------------------------------------
\* What a region shows under a label, if it has it: a name rather than a number.
Under(r, label) == SelectSeq(r.children, LAMBDA c : c.label = label)
Shown(r, label) == MapOption(Under(r, label), LAMBDA c : c.value[Len(c.value)])
Items(r, label) == UnwrapOr(MapOption(Under(r, label), LAMBDA c : c.children), <<>>)
ShownItems(r, label) == [i \in DOMAIN Items(r, label) |-> Items(r, label)[i].value[1]]
NamedItems(r, label) == [i \in DOMAIN Items(r, label) |-> Items(r, label)[i].value[2]]

Alike(regions, structs, Agree(_, _)) ==
    /\ Len(regions) = Len(structs)
    /\ \A i \in DOMAIN structs : Agree(regions[i], structs[i])

StatisticsAgree(r, s) ==
    /\ Shown(r, "min_value") = s.min_value /\ Shown(r, "max_value") = s.max_value
    /\ Shown(r, "min") = s.min /\ Shown(r, "max") = s.max
    /\ Shown(r, "null_count") = s.null_count
    /\ Shown(r, "is_max_value_exact") = s.is_max_value_exact
    /\ Shown(r, "is_min_value_exact") = s.is_min_value_exact

ElementAgrees(r, e) ==
    /\ Shown(r, "name") = <<e.name>>
    /\ Shown(r, "type") = e.physical_type
    /\ UnwrapOr(Shown(r, "type_length"), 0) = e.type_length
    /\ UnwrapOr(Shown(r, "num_children"), 0) = e.num_children
    /\ Shown(r, "converted_type") = e.converted_type
    /\ RepetitionName(MapOption(Under(r, "repetition_type"), LAMBDA c : c.value[1])) = e.repetition

ChunkAgrees(r, c) ==
    LET m == Under(r, "meta_data")[1]
    IN  /\ Shown(m, "type") = <<c.physical_type>> /\ Shown(m, "codec") = <<c.codec>>
        /\ NamedItems(m, "encodings") = c.encodings
        /\ ShownItems(m, "path_in_schema") = c.path
        /\ Shown(m, "num_values") = <<c.num_values>>
        /\ Shown(m, "total_compressed_size") = <<c.total_compressed_size>>
        /\ Shown(m, "data_page_offset") = <<c.data_page_offset>>
        /\ UnwrapOr(Shown(m, "dictionary_page_offset"), 0) = c.dictionary_page_offset
        /\ Shown(m, "bloom_filter_offset") = c.bloom_filter_offset
        /\ Alike(Under(m, "statistics"), c.statistics, StatisticsAgree)
        /\ MapOption(c.offset_index, LAMBDA s : s.start) = Shown(r, "offset_index_offset")
        /\ MapOption(c.offset_index, SpanLen) = Shown(r, "offset_index_length")
        /\ MapOption(c.column_index, LAMBDA s : s.start) = Shown(r, "column_index_offset")
        /\ MapOption(c.column_index, SpanLen) = Shown(r, "column_index_length")

RowGroupAgrees(r, g) ==
    /\ Shown(r, "num_rows") = <<g.num_rows>>
    /\ Shown(r, "total_byte_size") = <<g.total_byte_size>>
    /\ Alike(Items(r, "columns"), g.columns, ChunkAgrees)

MetadataAgrees(r, md) ==
    /\ Shown(r, "version") = <<md.version>> /\ Shown(r, "num_rows") = <<md.num_rows>>
    /\ Alike(Items(r, "schema"), md.schema, ElementAgrees)
    /\ Alike(Items(r, "row_groups"), md.row_groups, RowGroupAgrees)

PageAgrees(r, h) ==
    LET sub == CASE h.page_type = "DATA_PAGE" -> "data_page_header"
                 [] h.page_type = "DATA_PAGE_V2" -> "data_page_header_v2"
                 [] OTHER -> "dictionary_page_header"
        s == Under(r, sub)[1]
    IN  /\ Shown(r, "type") = <<h.page_type>> /\ Shown(r, "crc") = h.crc
        /\ Shown(r, "uncompressed_page_size") = <<h.uncompressed_page_size>>
        /\ Shown(r, "compressed_page_size") = <<h.compressed_page_size>>
        /\ Shown(s, "num_values") = <<h.num_values>> /\ Shown(s, "encoding") = <<h.encoding>>
        /\ h.v2 => /\ Shown(s, "definition_levels_byte_length") = <<h.def_len>>
                   /\ Shown(s, "repetition_levels_byte_length") = <<h.rep_len>>
                   /\ Shown(s, "num_rows") = <<h.num_rows>>
                   /\ UnwrapOr(Shown(s, "is_compressed"), TRUE) = h.is_compressed

\* A field whose first byte is inspected: its type, its id when that is so much more than the last
\* one's, and its number when it is one.
ReadingsAgree(f, last, first, value) ==
    /\ first.type_nibble \in WireTypes
    /\ first.delta > 0 => f.field_id = last + first.delta
    /\ first.type_nibble \in Varints =>
           value[1].zigzag = f.value[1] /\ f.header.end + value[1].length = f.span.end

InspectorAgrees(r) ==
    \A i \in DOMAIN r.children :
        LET f    == r.children[i]
            last == IF i = 1 THEN 0 ELSE r.children[i - 1].field_id
        IN  "header" \in DOMAIN f =>
                ReadingsAgree(f, last, Interpret(file, f.header.start).v.thrift_field_header,
                              Interpret(file, f.header.end).v.uleb128)

NamesAgree(regions, md) ==
    /\ \A r \in regions : r.label = "FileMetaData" => MetadataAgrees(r, md)
    /\ \A r \in regions : r.label = "PageHeader" => PageAgrees(r, PageHeader(file, r.span.start).v)
    /\ \A r \in regions : r.kind = "thrift" => InspectorAgrees(r)

\* The names of the hand-copied tables say of every number in the footer and in the page headers
\* what the reader's own ids make of it, and so does the byte inspector of the bytes
\* (annotate_node and field_def; metadata.rs and pages.rs; interpret).
NamesMatchTheReader == Mapped /\ Undamaged => NamesAgree(AllRegions(StructureOf(file).v), Metadata_.v)

-----------------------------------------------------------------------------
\* A whole column has been read, from a file with indexes and a filter.
ReadWithIndexes == pc = "done" /\ Undamaged /\ input.whole /\ chunk.offset_index # <<>>

RowGroupRead == Metadata_.v.row_groups[input.row_group]
PageValues(n) ==
    LET present == SelectSeq(OfPage(n - 1 + Leading), LAMBDA t : t.value # Null)
    IN  [i \in DOMAIN present |-> ValueBytes(present[i].value.value)]
AllValues == FlattenSeq([n \in DOMAIN pages |-> PageValues(n)])

DescribePages(offset, index, num_rows) ==
    LET rows   == RowRanges(offset.pages, num_rows)
        firsts == FirstRows([n \in DOMAIN pages |-> [i \in DOMAIN OfPage(n - 1 + Leading) |->
                                                        OfPage(n - 1 + Leading)[i].rep]])
        count(n) == Len(OfPage(n - 1 + Leading))
        extremes(n) == MinMax(ForLeaf(leaf), PageValues(n))
    IN  /\ Len(offset.pages) = Len(pages) /\ Len(index.null_pages) = Len(pages)
        /\ \A n \in DOMAIN pages :
              /\ LocationSpan(offset.pages[n]) = PageSpan(pages[n].page)
              /\ pages[n].page.crc_ok = <<TRUE>>
              /\ rows[n] = SpanOf(firsts[n], firsts[n] + count(n))
              /\ index.null_pages[n] = (PageValues(n) = <<>>)
              /\ index.null_counts[1][n] = count(n) - Len(PageValues(n))
              /\ \A m \in {extremes(n)} : m # <<>> /\ ~input.truncated =>
                    /\ Compare(ForLeaf(leaf), index.min_values[n], m[1].min) = "equal"
                    /\ Compare(ForLeaf(leaf), index.max_values[n], m[1].max) = "equal"

\* The page index says of every data page what the page says itself when it is read: where it is,
\* which rows it has, how many nulls, and the least and greatest of its values; and every page's
\* checksum is its body's (offset_index, row_ranges, column_index; read_page, decode_pages).
IndexesDescribePages ==
    ReadWithIndexes =>
        DescribePages(OffsetIndex(file, chunk).v[1], ColumnIndex(file, chunk).v[1], RowGroupRead.num_rows)

\* No value is beyond these bounds; and one that is said to be a value is.
Hold(comparator, bounds, values) ==
    LET compare(v, bound) == Compare(comparator, v, bound)
        is_one(bound) == \E i \in DOMAIN values : compare(values[i], bound) = "equal"
    IN  /\ \A i \in DOMAIN values : /\ compare(values[i], bounds.min) # "less"
                                    /\ compare(values[i], bounds.max) # "greater"
        /\ bounds.min_exact => is_one(bounds.min)
        /\ bounds.max_exact => is_one(bounds.max)

NothingIsMissed(bounds, index, filter) ==
    LET page_bounds(n) == [min |-> index.min_values[n], max |-> index.max_values[n],
                           min_exact |-> FALSE, max_exact |-> FALSE]
    IN  /\ \A i \in DOMAIN bounds : Hold(ForLeaf(leaf), bounds[i], AllValues)
        /\ \A n \in DOMAIN pages : PageValues(n) # <<>> => Hold(ForLeaf(leaf), page_bounds(n), PageValues(n))
        /\ \A i \in DOMAIN AllValues : Probe(filter, AllValues[i]).may_contain

ChunkBounds ==
    LET type_order == TypeOrder(Metadata_.v, input.column - 1)
    IN  FlattenSeq([i \in DOMAIN chunk.statistics |->
                       BoundsOf(chunk.statistics[i], ForLeaf(leaf), type_order)])

\* What a reader may go by to leave a part of a column out never leaves out a value that is there:
\* the chunk's statistics, when it may believe them at all, the bounds of each page and the Bloom
\* filter (bounds, column_index, probe), for every type, its annotation, and whoever wrote them.
SkippingIsSafe ==
    ReadWithIndexes =>
        NothingIsMissed(ChunkBounds, ColumnIndex(file, chunk).v[1], ReadFilter(file, chunk).v[1])
=============================================================================
