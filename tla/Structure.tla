------------------------------- MODULE Structure -------------------------------
(***************************************************************************)
(* A map of a file: crates/parquet-lab/src/report.rs's structure, with     *)
(* crypto.rs, and the byte inspector's reading of any byte.  A region is a *)
(* label, a kind, a span and the regions inside; a Thrift node's region    *)
(* also has its value.  What labels and values are made to look like is    *)
(* left out: a label that counts or names something is its first words.    *)
(***************************************************************************)
EXTENDS PageIndex, Bloom, Pages

Region(label, kind, span, children) ==
    [label |-> label, kind |-> kind, span |-> span, value |-> <<>>, children |-> children]
Part(label, kind, start, end) == Region(label, kind, SpanOf(start, end), <<>>)

-----------------------------------------------------------------------------
(* Thrift nodes, with the names and kinds the hand-copied tables give them. *)

\* annotate_node: a struct's fields and a list's items inside it.  A field no table has is
\* shown by its number, its integers as integers.
RECURSIVE AnnotateNode(_, _, _, _)
AnnotateNode(node, kind, label, span) ==
    LET struct_name == IF kind.is = "struct" /\ ~kind.list THEN kind.name ELSE ""
        inner == IF kind.list THEN [kind EXCEPT !.list = FALSE] ELSE Int_
        field_as(f, def) == AnnotateNode(f.node, def.kind, def.name, FieldSpan(f))
                            @@ [field_id |-> f.id, header |-> f.header]
        field(f) == field_as(f, UnwrapOr(FieldDef(struct_name, f.id), Field_(f.id, "field", Int_)))
        name(v) == IF kind.is = "enum" /\ ~kind.list /\ EnumName(EnumTables[kind.name], v) # "UNKNOWN"
                   THEN <<EnumName(EnumTables[kind.name], v)>> ELSE <<>>
        is(type, value, children) ==
            [type |-> type, value |-> value] @@ Region(label, "thrift", span, children)
    IN  CASE node.is = "struct" -> is(struct_name, <<>>, [i \in DOMAIN node.v |-> field(node.v[i])])
          [] node.is = "list"   -> is("list", <<>>, [i \in DOMAIN node.v |->
                                           AnnotateNode(node.v[i], inner, "item", node.v[i].span)])
          [] node.is = "map"    -> is("map", <<>>, <<>>)
          [] node.is = "int"    -> is("int", <<node.v>> \o name(node.v), <<>>)
          [] OTHER              -> is(node.is, <<node.v>>, <<>>)

Annotate(node, type_name) == AnnotateNode(node, StructKind(type_name), type_name, node.span)

-----------------------------------------------------------------------------
(* What is encrypted: its modules, by their lengths.                        *)

MAGIC_ENCRYPTED == <<80, 65, 82, 69>>
NONCE_LEN == 12
TAG_LEN == 16

\* read_module: a length, and so many bytes, which begin with a nonce and end with a tag.
ReadModule(b, at) ==
    Try(ReadLittleEndian(b, at, 4), LAMBDA len :
        IF len.v < NONCE_LEN + TAG_LEN THEN ReadError
        ELSE Try(ReadBytes(b, len.at, len.v), LAMBDA body :
                 Read([span       |-> SpanOf(at, body.at),
                       length     |-> SpanOf(at, at + 4),
                       nonce      |-> SpanOf(len.at, len.at + NONCE_LEN),
                       ciphertext |-> SpanOf(len.at + NONCE_LEN, body.at - TAG_LEN),
                       tag        |-> SpanOf(body.at - TAG_LEN, body.at)], body.at)))

\* chunk_modules, of a buffer that ends where the chunk does.
RECURSIVE ChunkModules(_, _)
ChunkModules(b, at) ==
    IF at = Len(b) THEN Read(<<>>, at)
    ELSE Try(ReadModule(b, at), LAMBDA m :
         Try(ChunkModules(b, m.at), LAMBDA rest : Read(<<m.v>> \o rest.v, rest.at)))

ModuleRegion(label, m) ==
    Region(label, "encrypted", m.span,
        << Region("Length", "module_length", m.length, <<>>), Region("Nonce", "nonce", m.nonce, <<>>),
           Region("Ciphertext", "ciphertext", m.ciphertext, <<>>), Region("Tag", "tag", m.tag, <<>>) >>)

\* encrypted_footer: what the footer says of its key, and the one module it goes on with.
EncryptedFooter(file) ==
    LET n       == Len(file)
        trailer == SubSeq(file, n - 7, n - 4) \o Opening!MAGIC
        located == Opening!Locate(trailer, n)
        bytes   == SubSeq(file, 1, n - Opening!TRAILER_LEN)
    IN  IF SubSeq(file, n - 3, n) # MAGIC_ENCRYPTED THEN ReadError
        ELSE IF ~located.ok THEN ReadError
        ELSE Try(ReadStruct(bytes, located.footer.start, 0), LAMBDA crypto_metadata :
             Try(ReadModule(bytes, crypto_metadata.at), LAMBDA module :
                 IF module.at < Len(bytes) THEN ReadError
                 ELSE Read([footer |-> located.footer, crypto_metadata |-> crypto_metadata.v,
                            algorithm |-> IF FieldOf(crypto_metadata.v.v, 1) = <<>> THEN "UNKNOWN"
                                          ELSE UnionMember(FieldOf(crypto_metadata.v.v, 1)[1].node),
                            key_metadata |-> Opt(crypto_metadata.v.v, 2, "binary"),
                            module |-> module.v], 0)))

-----------------------------------------------------------------------------
(* The regions of a file.                                                   *)

TrailerRegion(size) ==
    Region("Trailer", "trailer", SpanOf(size - 8, size),
        <<Part("Footer length", "footer_length", size - 8, size - 4), Part("Magic", "magic", size - 4, size)>>)

FileRegion(size, top) == Region("Parquet file", "file", SpanOf(0, size), top)

\* encrypted_structure: as far as a reader without the footer's key can see.
EncryptedStructure(file) ==
    Try(EncryptedFooter(file), LAMBDA e :
        Read(FileRegion(Len(file),
            << Part("Header", "magic", 0, 4), Part("Data", "encrypted", 4, e.v.footer.start),
               Region("Footer", "footer", e.v.footer,
                      <<Annotate(e.v.crypto_metadata, "FileCryptoMetaData"),
                        ModuleRegion("Encrypted FileMetaData", e.v.module)>>),
               TrailerRegion(Len(file)) >>), 0))

PageRegion(page) ==
    Region("Page", "page", PageSpan(page),
        << Region("Page header", "page_header", page.header_span, <<Annotate(page.header.tree, "PageHeader")>>),
           Region("Page body", "page_body", page.body_span, <<>>) >>)

\* chunk_region: the modules of a chunk that is encrypted, the pages of one that is not.
ChunkRegion(file, c) ==
    Try(ByteRangeOf(c), LAMBDA range :
        LET to_end == SubSeq(file, 1, range.v.end)
            is(children) == Read(Region("Column chunk", "column_chunk", range.v, children), 0)
            module(modules, i) == ModuleRegion(IF i % 2 = 1 THEN "Encrypted page header" ELSE "Encrypted page",
                                               modules[i])
        IN  IF range.v.end \notin 0 .. Len(file) THEN ReadError
            ELSE IF c.crypto # <<>>
            THEN Try(ChunkModules(to_end, range.v.start), LAMBDA r :
                     is([i \in DOMAIN r.v |-> module(r.v, i)]))
            ELSE Try(WalkPages(to_end, range.v.start), LAMBDA r :
                     is([i \in DOMAIN r.v |-> PageRegion(r.v[i])])))

\* A row group, from where its first column starts to where its last one ends.
RowGroupRegion(file, row_group) ==
    Try(Collect(row_group.columns, LAMBDA c : ChunkRegion(file, c)), LAMBDA chunks :
        LET start == Min({chunks.v[i].span.start : i \in DOMAIN chunks.v})
            end   == Max({chunks.v[i].span.end : i \in DOMAIN chunks.v})
        IN  Read(Region("Row group", "row_group",
                        IF chunks.v = <<>> THEN SpanOf(4, 4) ELSE SpanOf(start, end), chunks.v), 0))

\* A column's Bloom filter, column index and offset index: one that cannot be read is not shown.
BloomRegion(b) ==
    Region("Bloom filter", "bloom", SpanOf(b.header_span.start, b.bitset_span.end),
        <<Annotate(b.header, "BloomFilterHeader"), Region("Bitset", "bloom_bitset", b.bitset_span, <<>>)>>)

IndexRegion(label, kind, struct, index) == Region(label, kind, index.span, <<Annotate(index.tree, struct)>>)

ColumnExtras(file, c) ==
    LET shown(read, AsRegion(_)) == IF read.ok THEN MapOption(read.v, AsRegion) ELSE <<>>
    IN  shown(ReadFilter(file, c), BloomRegion)
        \o shown(ColumnIndex(file, c), LAMBDA i : IndexRegion("Column index", "column_index", "ColumnIndex", i))
        \o shown(OffsetIndex(file, c), LAMBDA i : IndexRegion("Offset index", "offset_index", "OffsetIndex", i))

\* What lies between the last row group and the footer, in the order of its bytes.
ExtrasRegion(file, row_groups) ==
    LET columns == FlattenSeq([g \in DOMAIN row_groups |-> row_groups[g].columns])
        first(a, b) == a.span.start < b.span.start \/ (a.span.start = b.span.start /\ a.span.end < b.span.end)
        extras  == SortSeq(FlattenSeq([i \in DOMAIN columns |-> ColumnExtras(file, columns[i])]), first)
    IN  IF extras = <<>> THEN <<>>
        ELSE <<Region("Indexes and filters", "indexes",
                      SpanOf(Head(extras).span.start, extras[Len(extras)].span.end), extras)>>

\* The footer's struct, and the signature of one that is signed.
FooterRegion(footer, md) ==
    LET signature(span) == Region("Signature", "signature", span,
                               <<Part("Nonce", "nonce", span.start, span.start + NONCE_LEN),
                                 Part("Tag", "tag", span.start + NONCE_LEN, span.end)>>)
    IN  Region("Footer", "footer", footer,
               <<Annotate(md.tree, "FileMetaData")>> \o MapOption(md.footer_signature, signature))

PlainStructure(file, footer) ==
    Try(MetadataIn(file, footer), LAMBDA md :
    Try(Collect(md.v.row_groups, LAMBDA g : RowGroupRegion(file, g)), LAMBDA row_groups :
        Read(FileRegion(Len(file),
            <<Part("Header", "magic", 0, 4)>> \o row_groups.v \o ExtrasRegion(file, md.v.row_groups)
            \o <<FooterRegion(footer, md.v), TrailerRegion(Len(file))>>), 0)))

\* structure_inner
StructureOf(file) ==
    LET start == SubSeq(file, 1, 4)
    IN  IF Len(file) < Opening!MIN_FILE_LEN THEN ReadError
        ELSE IF start = MAGIC_ENCRYPTED THEN EncryptedStructure(file)
        ELSE IF start # Opening!MAGIC \/ ~FooterSpan(file).ok THEN ReadError
        ELSE PlainStructure(file, FooterSpan(file).footer)

-----------------------------------------------------------------------------
(* The byte inspector.                                                      *)

\* interpret: readings of the bytes from an offset on, those there are bytes for.
Interpret(file, offset) ==
    LET byte == file[offset + 1]
        uleb == ReadUleb128(file, offset)
        number(n) == IF offset + n <= Len(file) THEN <<LittleEndian(SubSeq(file, offset + 1, offset + n))>>
                     ELSE <<>>
    IN  IF offset >= Len(file) THEN ReadError
        ELSE Read([byte    |-> byte, i8 |-> Signed(byte, 8),
                   u16_le  |-> number(2),
                   uleb128 |-> IF ~uleb.ok THEN <<>>
                               ELSE <<[value |-> uleb.v, length |-> uleb.at - offset, zigzag |-> ZigzagDecode(uleb.v)]>>,
                   thrift_field_header |-> [delta |-> byte \div 16, type_nibble |-> byte % 16]], 0)
=============================================================================
