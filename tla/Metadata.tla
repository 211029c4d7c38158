------------------------------- MODULE Metadata -------------------------------
(***************************************************************************)
(* crates/parquet-lab/src/metadata.rs: the footer, with types.  A reader   *)
(* takes from the decoded structs the fields it needs, by the ids in its   *)
(* code.  An optional value is a sequence of at most one; a string is its  *)
(* bytes.                                                                  *)
(***************************************************************************)
EXTENDS Thrift, ParquetThrift

\* The items of a list, each read in its own way: an error if one is.
Collect(items, ReadItem(_)) ==
    FoldLeft(LAMBDA done, item :
                 Try(done, LAMBDA d : Try(ReadItem(item), LAMBDA r : Read(Append(d.v, r.v), 0))),
             Read(<<>>, 0), items)

\* Option::map.
MapOption(option, Map_(_)) == IF option = <<>> THEN <<>> ELSE <<Map_(option[1])>>

\* logical::decode: a union's one member says which type it is.  An integer without a sign is
\* signed; scales and units, which say how a value is shown, are left out.
LogicalTypes == <<"String", "Map", "List", "Enum", "Decimal", "Date", "Time", "Timestamp", "Other", "Integer",
                  "Unknown", "Json", "Bson", "Uuid", "Float16", "Variant", "Geometry", "Geography">>

Logical(union) ==
    IF union = <<>> THEN <<>> ELSE IF union[1] = <<>> THEN <<>>
    ELSE LET member == union[1][1]
         IN  <<[type   |-> IF member.id \in DOMAIN LogicalTypes THEN LogicalTypes[member.id] ELSE "Other",
                signed |-> IF member.node.is = "struct" THEN UnwrapOr(Opt(member.node.v, 2, "bool"), TRUE)
                           ELSE TRUE]>>

\* Whether an optional logical type is this one.
IsLogical(logical, type) == IF logical = <<>> THEN FALSE ELSE logical[1].type = type

\* An element without a repetition is required.
RepetitionName(option) ==
    LET name == IF option = <<>> THEN "" ELSE EnumName(Repetitions, option[1])
    IN  CASE name = "OPTIONAL" -> "optional" [] name = "REPEATED" -> "repeated" [] OTHER -> "required"

SchemaElement(node) ==
    Try(AsStruct(node), LAMBDA s :
    Try(Req(s.v, 4, "binary"), LAMBDA name :
        Read([name           |-> name.v,
              physical_type  |-> MapOption(Opt(s.v, 1, "int"), LAMBDA v : EnumName(PhysicalTypes, v)),
              type_length    |-> UnwrapOr(Opt(s.v, 2, "int"), 0),
              repetition     |-> RepetitionName(Opt(s.v, 3, "int")),
              num_children   |-> UnwrapOr(Opt(s.v, 5, "int"), 0),
              converted_type |-> MapOption(Opt(s.v, 6, "int"), LAMBDA v : EnumName(ConvertedTypes, v)),
              logical_type   |-> Logical(Opt(s.v, 10, "struct")),
              is_list        |-> IsLogical(Logical(Opt(s.v, 10, "struct")), "List")], 0)))

\* Whether a struct has the integers and lists it must have.
Has(s, integers, lists) ==
    /\ \A id \in integers : Opt(s, id, "int") # <<>>
    /\ \A id \in lists : Opt(s, id, "list") # <<>>

\* value_span: a binary field's bytes, without the length in front of them.
ValueSpan(s, id) ==
    IF Opt(s, id, "binary") = <<>> THEN <<>>
    ELSE LET node == FieldOf(s, id)[1].node IN <<SpanOf(node.span.end - Len(node.v), node.span.end)>>

\* statistics, of a chunk or of a page: the pair of bounds a column's own order made, and the
\* deprecated pair that comparing signed bytes or numbers made.
Statistics(node) ==
    Try(AsStruct(node), LAMBDA read :
        LET s == read.v
        IN  Read([min_value |-> Opt(s, 6, "binary"), max_value |-> Opt(s, 5, "binary"),
                  min |-> Opt(s, 2, "binary"), max |-> Opt(s, 1, "binary"),
                  min_span |-> ValueSpan(s, 6), max_span |-> ValueSpan(s, 5),
                  null_count |-> Opt(s, 3, "int"), distinct_count |-> Opt(s, 4, "int"),
                  is_max_value_exact |-> Opt(s, 7, "bool"), is_min_value_exact |-> Opt(s, 8, "bool")], 0))

\* The statistics in a field, if there is one.
StatisticsIn(s, id) ==
    IF FieldOf(s, id) = <<>> THEN Read(<<>>, 0)
    ELSE Try(Statistics(FieldOf(s, id)[1].node), LAMBDA stats : Read(<<stats.v>>, 0))

\* offset_and_length: a region, when both fields are there and sensible.
OffsetAndLength(s, offset, length) ==
    LET o == Opt(s, offset, "int")
        l == Opt(s, length, "int")
    IN  IF o = <<>> \/ l = <<>> THEN <<>>
        ELSE IF o[1] >= 0 /\ l[1] >= 0 THEN <<SpanOf(o[1], o[1] + l[1])>> ELSE <<>>

\* How a chunk is encrypted, if it says it is: with the footer's key or with its own.
Crypto(c) ==
    IF FieldOf(c, 8) = <<>> THEN <<>>
    ELSE LET union    == UnwrapOr(Opt(c, 8, "struct"), <<>>)
             with_key == FieldOf(union, 2)
         IN  <<[with_column_key |-> with_key # <<>>,
                key_metadata    |-> IF Opt(union, 2, "struct") = <<>> THEN <<>>
                                    ELSE Opt(Opt(union, 2, "struct")[1], 2, "binary"),
                encrypted_metadata |-> ValueSpan(c, 9)]>>

\* The items of a list that are of a type.
ItemsOf(items, is) ==
    LET found == SelectSeq(items, LAMBDA n : n.is = is) IN [i \in DOMAIN found |-> found[i].v]

\* column_chunk: its ColumnMetaData is required, since this reader does not decrypt.
ColumnChunk(node) ==
    Try(AsStruct(node), LAMBDA c :
    Try(Req(c.v, 3, "struct"), LAMBDA m :
    Try(StatisticsIn(m.v, 12), LAMBDA statistics :
        LET int(id)  == Opt(m.v, id, "int")[1]
            encodings == ItemsOf(Opt(m.v, 2, "list")[1], "int")
        IN  IF ~Has(m.v, {1, 4, 5, 6, 7, 9}, {2, 3}) THEN ReadError
            ELSE Read([physical_type          |-> EnumName(PhysicalTypes, int(1)),
                       encodings              |-> [i \in DOMAIN encodings |-> EnumName(EncodingNames, encodings[i])],
                       path                   |-> ItemsOf(Opt(m.v, 3, "list")[1], "binary"),
                       codec                  |-> EnumName(CompressionCodecs, int(4)),
                       num_values             |-> int(5),
                       total_compressed_size  |-> int(7),
                       data_page_offset       |-> int(9),
                       dictionary_page_offset |-> UnwrapOr(Opt(m.v, 11, "int"), 0),
                       statistics             |-> statistics.v,
                       column_index           |-> OffsetAndLength(c.v, 6, 7),
                       offset_index           |-> OffsetAndLength(c.v, 4, 5),
                       bloom_filter_offset    |-> Opt(m.v, 14, "int"),
                       crypto                 |-> Crypto(c.v)], 0))))

\* byte_range: from the first page, which is the dictionary page when there is one.  A size or
\* a place below zero may end the program.
ByteRangeOf(c) ==
    LET start == IF c.dictionary_page_offset > 0
                 THEN Min({c.dictionary_page_offset, c.data_page_offset})
                 ELSE c.data_page_offset
    IN  NewSpan(start, start + c.total_compressed_size)

\* The columns a row group says its rows are sorted by: structs without a column are passed over.
SortingColumns(s) ==
    LET structs == ItemsOf(UnwrapOr(Opt(s, 4, "list"), <<>>), "struct")
        named   == SelectSeq(structs, LAMBDA c : Opt(c, 1, "int") # <<>>)
    IN  [i \in DOMAIN named |-> [column      |-> Opt(named[i], 1, "int")[1],
                                 descending  |-> UnwrapOr(Opt(named[i], 2, "bool"), FALSE),
                                 nulls_first |-> UnwrapOr(Opt(named[i], 3, "bool"), FALSE)]]

RowGroup(node) ==
    Try(AsStruct(node), LAMBDA s :
    Try(Req(s.v, 1, "list"), LAMBDA list :
        IF ~Has(s.v, {2, 3}, {}) THEN ReadError
        ELSE Try(Collect(list.v, ColumnChunk), LAMBDA columns :
                 Read([columns         |-> columns.v,
                       total_byte_size |-> Opt(s.v, 2, "int")[1],
                       num_rows        |-> Opt(s.v, 3, "int")[1],
                       sorting_columns |-> SortingColumns(s.v)], 0))))

KeyValue(node) ==
    Try(AsStruct(node), LAMBDA s :
    Try(Req(s.v, 1, "binary"), LAMBDA key : Read([key |-> key.v, value |-> Opt(s.v, 2, "binary")], 0)))

\* union_member, of the two algorithms there are.
UnionMember(node) ==
    IF node.is # "struct" THEN "UNKNOWN" ELSE IF node.v = <<>> THEN "UNKNOWN"
    ELSE CASE node.v[1].id = 1 -> "AES_GCM_V1" [] node.v[1].id = 2 -> "AES_GCM_CTR_V1" [] OTHER -> "UNKNOWN"

\* The order of a column's bounds: TYPE_ORDER is the one this reader knows.
ColumnOrder(node) ==
    IF node.is # "struct" THEN "UNKNOWN" ELSE IF FieldOf(node.v, 1) = <<>> THEN "UNKNOWN" ELSE "TYPE_ORDER"

\* decode_file_metadata: the footer, from `at` to the end of b, is one FileMetaData, with nothing
\* after it but, if it says it is signed, the signature.
FOOTER_SIGNATURE_LEN == 28

FileMetaData(b, at) ==
    Try(ReadStruct(b, at, 0), LAMBDA tree :
        LET s      == tree.v.v
            rest   == Len(b) - tree.at
            signed == FieldOf(s, 8) # <<>> /\ rest = FOOTER_SIGNATURE_LEN
            orders == Opt(s, 7, "list")
        IN  IF rest > 0 /\ ~signed THEN ReadError
            ELSE IF ~Has(s, {1, 3}, {2, 4}) THEN ReadError
            ELSE Try(Collect(Opt(s, 2, "list")[1], SchemaElement), LAMBDA schema :
                 Try(Collect(Opt(s, 4, "list")[1], RowGroup), LAMBDA row_groups :
                 Try(Collect(UnwrapOr(Opt(s, 5, "list"), <<>>), KeyValue), LAMBDA pairs :
                     Read([version              |-> Opt(s, 1, "int")[1],
                           schema               |-> schema.v,
                           num_rows             |-> Opt(s, 3, "int")[1],
                           row_groups           |-> row_groups.v,
                           key_value_metadata   |-> pairs.v,
                           created_by           |-> Opt(s, 6, "binary"),
                           column_orders        |-> IF orders = <<>> THEN <<>>
                                                    ELSE [i \in DOMAIN orders[1] |-> ColumnOrder(orders[1][i])],
                           encryption_algorithm |-> MapOption(FieldOf(s, 8), LAMBDA f : UnionMember(f.node)),
                           footer_signature     |-> IF signed THEN <<SpanOf(tree.at, Len(b))>> ELSE <<>>,
                           tree                 |-> tree.v], 0)))))

\* open_bytes: where the footer is, and what it says.
Opening == INSTANCE OpenFile WITH Content <- <<>>, key <- "file", options <- <<>>, outcome <- <<>>

FooterSpan(file) ==
    LET size == Len(file)
    IN  Opening!Locate(SubSeq(file, size - 7, size), size)

MetadataIn(file, footer) == FileMetaData(SubSeq(file, 1, footer.end), footer.start)

\* Whether the footer says that a column's bounds are in its type's order.
TypeOrder(md, column) ==
    IF column + 1 \in DOMAIN md.column_orders THEN md.column_orders[column + 1] = "TYPE_ORDER" ELSE FALSE
=============================================================================
