-------------------------------- MODULE Thrift --------------------------------
(***************************************************************************)
(* crates/parquet-lab/src/thrift.rs: the compact protocol, decoded without *)
(* a schema.  A struct is the sequence of its fields, [id, header, node],  *)
(* where the header is a span; a node says what it is, its value and the   *)
(* bytes it came from.                                                     *)
(***************************************************************************)
EXTENDS ByteReader, SequencesExt

CONSTANT MAX_DEPTH   \* how deep structs and lists may nest: 64 in the program

ASSUME ThriftAssumption == MAX_DEPTH \in Nat

\* The wire types, by their nibble.
Bools    == {1, 2}
Byte8    == 3
Varints  == {4, 5, 6}
Double   == 7
Binary   == 8
Lists_   == {9, 10}
Map      == 11
Struct   == 12
Uuid     == 13
WireTypes == 1 .. 13

Node(is, v, span) == [is |-> is, v |-> v, span |-> span]
\* A read that started at `start`, whose value is a node.
NodeOf(is, start, r) == Try(r, LAMBDA n : Read(Node(is, n.v, SpanOf(start, n.at)), n.at))

\* A field's id: so much more than the last one's, or a varint after the header byte.
FieldId(b, header, last_id) ==
    IF header.v[1] < 16
    THEN Try(ReadZigzag(b, header.at), LAMBDA id : Read(Signed(id.v, 16), id.at))
    ELSE Read(Signed(last_id + header.v[1] \div 16, 16), header.at)

\* A list's size and its elements' type.
ListHeader(b, at) ==
    Try(ReadBytes(b, at, 1), LAMBDA header :
    Try(IF header.v[1] >= 240 THEN ReadUleb128(b, header.at) ELSE Read(header.v[1] \div 16, header.at),
        LAMBDA size : Read([size |-> size.v, wire |-> header.v[1] % 16], size.at)))

\* A map's size and its two types, which an empty map leaves out.
MapHeader(b, at) ==
    Try(ReadUleb128(b, at), LAMBDA size :
        IF size.v = 0 THEN Read([size |-> 0, key |-> Binary, value |-> Binary], size.at)
        ELSE Try(ReadBytes(b, size.at, 1), LAMBDA types :
                 Read([size |-> size.v, key |-> types.v[1] \div 16, value |-> types.v[1] % 16], types.at)))

\* read_struct_at_depth, read_value and read_element.  A field's boolean is its type's nibble;
\* an element's is a byte.  A map is its keys and values in turn.
RECURSIVE ReadStruct(_, _, _), ReadFields(_, _, _, _), ReadValue(_, _, _, _), ReadElements(_, _, _, _)

ReadStruct(b, at, depth) ==
    IF depth > MAX_DEPTH THEN ReadError ELSE NodeOf("struct", at, ReadFields(b, at, 0, depth))

ReadFields(b, at, last_id, depth) ==
    Try(ReadBytes(b, at, 1), LAMBDA header :
        LET wire == header.v[1] % 16
        IN  IF header.v[1] = 0 THEN Read(<<>>, header.at)
            ELSE IF wire \notin WireTypes THEN ReadError
            ELSE Try(FieldId(b, header, last_id), LAMBDA id :
                 Try(IF wire \in Bools THEN Read(Node("bool", wire = 1, SpanOf(at, id.at)), id.at)
                     ELSE ReadValue(b, id.at, wire, depth + 1), LAMBDA node :
                 Try(ReadFields(b, node.at, id.v, depth), LAMBDA rest :
                     Read(<<[id |-> id.v, header |-> SpanOf(at, id.at), node |-> node.v]>> \o rest.v,
                          rest.at)))))

ReadValue(b, at, wire, depth) ==
    CASE wire \in Bools   -> NodeOf("bool", at, Try(ReadBytes(b, at, 1), LAMBDA r : Read(r.v[1] = 1, r.at)))
      [] wire = Byte8     -> NodeOf("int", at, Try(ReadBytes(b, at, 1), LAMBDA r : Read(Signed(r.v[1], 8), r.at)))
      [] wire \in Varints -> NodeOf("int", at, ReadZigzag(b, at))
      [] wire = Double    -> NodeOf("double", at, ReadBytes(b, at, 8))
      [] wire = Binary    -> NodeOf("binary", at, Try(ReadUleb128(b, at), LAMBDA len : ReadBytes(b, len.at, len.v)))
      [] wire = Uuid      -> NodeOf("binary", at, ReadBytes(b, at, 16))
      [] wire \in Lists_  ->
            Try(ListHeader(b, at), LAMBDA list :
                IF list.v.wire \notin WireTypes THEN ReadError
                ELSE NodeOf("list", at, ReadElements(b, list.at, [i \in 1 .. list.v.size |-> list.v.wire], depth)))
      [] wire = Map       ->
            Try(MapHeader(b, at), LAMBDA map :
                IF {map.v.key, map.v.value} \subseteq WireTypes
                THEN NodeOf("map", at, ReadElements(b, map.at,
                         [i \in 1 .. 2 * map.v.size |-> IF i % 2 = 1 THEN map.v.key ELSE map.v.value], depth))
                ELSE ReadError)
      [] wire = Struct    -> ReadStruct(b, at, depth)

ReadElements(b, at, wires, depth) ==
    IF wires = <<>> THEN Read(<<>>, at)
    ELSE IF depth > MAX_DEPTH THEN ReadError
    ELSE Try(ReadValue(b, at, Head(wires), depth + 1), LAMBDA first :
         Try(ReadElements(b, first.at, Tail(wires), depth), LAMBDA rest :
             Read(<<first.v>> \o rest.v, rest.at)))

-----------------------------------------------------------------------------
(* What a reader asks of a struct.  An optional value is a sequence of at   *)
(* most one.                                                                *)

\* Faulty variant: the header is left out.
FieldSpanOfNode(f) == f.node.span

\* Everything a field occupies: header and value together.
FieldSpan(f) == SpanOf(f.header.start, Max({f.node.span.end, f.header.end}))

\* Struct::field: the first field with an id.
FieldOf(s, id) == SelectSeq(s, LAMBDA f : f.id = id)

\* opt_int, opt_bool and the like: nothing if the field is of another type.
Opt(s, id, is) ==
    LET found == FieldOf(s, id)
    IN  IF found = <<>> THEN <<>> ELSE IF found[1].node.is = is THEN <<found[1].node.v>> ELSE <<>>

UnwrapOr(option, default) == IF option = <<>> THEN default ELSE option[1]

\* req_int, req_str and req_list: an error if it is missing or of another type.
Req(s, id, is) ==
    LET found == Opt(s, id, is) IN IF found = <<>> THEN ReadError ELSE Read(found[1], 0)

\* as_struct, and as_struct of a field that may be missing.
AsStruct(node) == IF node.is = "struct" THEN Read(node.v, 0) ELSE ReadError
NotAStruct(s, id) == FieldOf(s, id) # <<>> /\ Opt(s, id, "struct") = <<>>
=============================================================================
