------------------------------ MODULE MCColumn ------------------------------
(***************************************************************************)
(* Files to read, and the writer that makes them.  Writers are not part of *)
(* the repository: this one follows what the reader's comments say of the  *)
(* format, from records to bytes, in none of the reader's ways.            *)
(*                                                                         *)
(* A plan says which records are written, of which shape and type, how     *)
(* they are cut into pages, encoded and compressed, which pages are asked  *)
(* for, what is then damaged, and what the file has besides: statistics,   *)
(* indexes, a filter.  `style` picks one of three ways of writing the same *)
(* thing wherever the format has several.                                  *)
(***************************************************************************)
EXTENDS Anatomy

\* The reference hashes of bloom.rs's own tests.
ASSUME ReferenceHashes ==
    /\ XxHash64(<<>>) = <<153, 233, 216, 81, 55, 219, 70, 239>>
    /\ XxHash64(<<97>>) = <<91, 110, 140, 169, 241, 196, 78, 210>>
    /\ XxHash64(<<97, 98, 99>>) = <<153, 9, 119, 173, 245, 44, 188, 68>>

-----------------------------------------------------------------------------
(* Numbers.                                                                 *)

UintLE(n, k) == [i \in 1 .. k |-> (n \div 256 ^ (i - 1)) % 256]

RECURSIVE Uleb(_)
Uleb(n) == IF n < 128 THEN <<n>> ELSE <<128 + (n % 128)>> \o Uleb(n \div 128)

Zigzag(n) == IF n >= 0 THEN 2 * n ELSE -(2 * n) - 1

Concat(ss) == FlattenSeq(ss)
BitsOf(n, w) == [k \in 1 .. w |-> (n \div 2 ^ (k - 1)) % 2]
Packed(bits) ==
    [i \in 1 .. DivCeil(Len(bits), 8) |->
        MapThenSumSet(LAMBDA k : bits[k] * 2 ^ ((k - 1) % 8), (8 * i - 7) .. Min({8 * i, Len(bits)}))]
PackedInts(ints, w) == Packed(Concat([i \in DOMAIN ints |-> BitsOf(ints[i], w)]))

\* Levels and indices, in runs, in bit-packed groups of eight, or the first run and then groups.
Run(ints, w) == Uleb(2 * Len(ints)) \o UintLE(ints[1], DivCeil(w, 8))
Groups(ints, w) ==
    LET n == DivCeil(Len(ints), 8)
    IN  Uleb(2 * n + 1) \o PackedInts(ints \o [i \in 1 .. 8 * n - Len(ints) |-> 0], w)
Changes(ints) == {j \in DOMAIN ints : IF j = 1 THEN TRUE ELSE ints[j] # ints[j - 1]}
Runs(style, ints, w) ==
    LET alike == Pieces(ints, Changes(ints))
    IN  CASE ints = <<>>      -> <<>>
          [] style = "plain"  -> Concat([r \in DOMAIN alike |-> Run(alike[r], w)])
          [] style = "packed" -> Groups(ints, w)
          [] style = "mixed"  -> Run(alike[1], w) \o
                                 (IF Len(alike) = 1 THEN <<>> ELSE Groups(Concat(Tail(alike)), w))

-----------------------------------------------------------------------------
(* Values.                                                                  *)

\* The width of the types that have one.
FixedLength == 2
Wide(type) == CASE type \in {"INT32", "FLOAT"}  -> IntBytes
                [] type \in {"INT64", "DOUBLE"} -> LongBytes
                [] type = "FIXED_LEN_BYTE_ARRAY" -> FixedLength
Integers(type, n) == UintLE(n % 256 ^ Wide(type), Wide(type))

PlainBytes(type, values) ==
    IF type = "BOOLEAN" THEN Packed(Concat(values))
    ELSE Concat([i \in DOMAIN values |->
             CASE type \in {"INT32", "INT64"} -> Integers(type, values[i][1])
               [] type = "BYTE_ARRAY"         -> UintLE(Len(values[i]), 4) \o values[i]
               [] OTHER                       -> values[i]])

Distinct(values) ==
    FoldLeft(LAMBDA seen, v : IF v \in ToSet(seen) THEN seen ELSE Append(seen, v), <<>>, values)

Indices(dict, values) == [i \in DOMAIN values |-> SelectInSeq(dict, LAMBDA v : v = values[i])  - 1]

\* A block's deltas, two miniblocks of eight: their least, a width each, and the bits of each
\* that has any.
DeltaBlock(deltas) ==
    LET least  == Min(ToSet(deltas))
        over   == [i \in DOMAIN deltas |-> deltas[i] - least]
        mini   == << SubSeq(over, 1, Min({8, Len(over)})), SubSeq(over, 9, Len(over)) >>
        width(m) == IF mini[m] = <<>> THEN 0 ELSE BitWidth(Max(ToSet(mini[m])))
        padded(m) == mini[m] \o [i \in 1 .. 8 - Len(mini[m]) |-> 0]
    IN  Uleb(Zigzag(least)) \o <<width(1), width(2)>> \o
        PackedInts(padded(1), width(1)) \o PackedInts(padded(2), width(2))

DeltaInts(ints, bits) ==
    LET deltas == [i \in 1 .. Len(ints) - 1 |-> Signed(ints[i + 1] - ints[i], bits)]
        block(k) == SubSeq(deltas, 16 * k - 15, Min({16 * k, Len(deltas)}))
    IN  <<16, 2>> \o Uleb(Len(ints)) \o (IF ints = <<>> THEN <<0>> ELSE Uleb(Zigzag(ints[1]))) \o
        Concat([k \in 1 .. DivCeil(Len(deltas), 16) |-> DeltaBlock(block(k))])

DeltaLengths(values) == DeltaInts([i \in DOMAIN values |-> Len(values[i])], 8) \o Concat(values)

\* How many leading bytes a value has in common with the one before.
Common(values, i) ==
    IF i = 1 THEN 0
    ELSE Max({n \in 0 .. Min({Len(values[i - 1]), Len(values[i])}) :
                 SubSeq(values[i - 1], 1, n) = SubSeq(values[i], 1, n)})

Dictionaries == {"RLE_DICTIONARY", "PLAIN_DICTIONARY"}

Encoded(plan, dict, values) ==
    CASE plan.encoding = "PLAIN" -> PlainBytes(plan.type, values)
      [] plan.encoding \in Dictionaries ->
            LET w == BitWidth(Len(dict) - 1)
            IN  <<w>> \o Runs(plan.style, Indices(dict, values), w)
      [] plan.encoding = "DELTA_BINARY_PACKED" -> DeltaInts([i \in DOMAIN values |-> values[i][1]], 8 * Wide(plan.type))
      [] plan.encoding = "DELTA_LENGTH_BYTE_ARRAY" -> DeltaLengths(values)
      [] plan.encoding = "DELTA_BYTE_ARRAY" ->
            DeltaInts([i \in DOMAIN values |-> Common(values, i)], 8) \o
            DeltaLengths([i \in DOMAIN values |-> SubSeq(values[i], Common(values, i) + 1, Len(values[i]))])
      [] plan.encoding = "BYTE_STREAM_SPLIT" ->
            LET bytes == [i \in DOMAIN values |-> PlainBytes(plan.type, <<values[i]>>)]
            IN  Concat([k \in 1 .. Wide(plan.type) |->
                           [i \in DOMAIN values |-> bytes[i][k]]])

-----------------------------------------------------------------------------
(* Compression: literals, and copies of what was written before.            *)

\* How much of the text from p on repeats what is d before it, up to `end`.
Repeats(text, p, d, end) ==
    Max({0} \cup {n \in 1 .. end - p : \A k \in 1 .. n : text[p + k] = text[p + k - d]})

\* Literals and the copy after them; the last have none.
RECURSIVE Sequences(_, _, _, _)
Sequences(text, p, lit, end) ==
    LET repeats == [d \in 1 .. Min({p, 12}) |-> Repeats(text, p, d, end)]
        best    == Max({0} \cup {repeats[d] : d \in DOMAIN repeats})
        d_best  == Min({d \in DOMAIN repeats : repeats[d] = best})
    IN  IF p = Len(text) THEN <<[lit |-> lit, distance |-> 0, len |-> 0]>>
        ELSE IF best < 4 THEN Sequences(text, p + 1, Append(lit, text[p + 1]), end)
        ELSE <<[lit |-> lit, distance |-> d_best, len |-> best]>> \o
             Sequences(text, p + best, <<>>, end)

SnappyLiteralBytes(style, lit) ==
    LET n == Len(lit) - 1
    IN  CASE lit = <<>>       -> <<>>
          [] style = "plain"  -> <<4 * n>> \o lit
          [] style = "packed" -> <<4 * 60>> \o UintLE(n, 1) \o lit
          [] style = "mixed"  -> <<4 * 61>> \o UintLE(n, 2) \o lit

SnappyCopyBytes(style, d, len) ==
    CASE len = 0 -> <<>>
      [] style = "plain" /\ len \in 4 .. 11 -> <<1 + 4 * (len - 4)>> \o UintLE(d, 1)
      [] style = "mixed" /\ len > 0 -> <<3 + 4 * (len - 1)>> \o UintLE(d, 4)
      [] OTHER -> <<2 + 4 * (len - 1)>> \o UintLE(d, 2)

SnappyBytes(style, size, sequences) ==
    Uleb(size) \o
    Concat([i \in DOMAIN sequences |->
               SnappyLiteralBytes(style, sequences[i].lit) \o
               SnappyCopyBytes(style, sequences[i].distance, sequences[i].len)])

Lz4More(n) ==
    IF n < 15 THEN <<>> ELSE [i \in 1 .. (n - 15) \div 255 |-> 255] \o <<(n - 15) % 255>>

Lz4Bytes(sequences) ==
    Concat([i \in DOMAIN sequences |->
        LET s == sequences[i]
            n == Max({s.len - 4, 0})
        IN  <<16 * Min({Len(s.lit), 15}) + Min({n, 15})>> \o Lz4More(Len(s.lit)) \o s.lit \o
            (IF s.len = 0 THEN <<>> ELSE UintLE(s.distance, 2) \o Lz4More(n))])

\* DEFLATE: a symbol for a length or a distance, and the bits that say which of the
\* symbol's numbers it is.
BandSymbol(n, first, base, width, bits) ==
    [symbol |-> first + (n - base) \div width, extra |-> BitsOf((n - base) % width, bits)]
LengthSymbol(n) ==
    CASE n <= 10 -> BandSymbol(n, 257, 3, 1, 0)
      [] n \in 11 .. 18 -> BandSymbol(n, 265, 11, 2, 1)
      [] n \in 19 .. 34 -> BandSymbol(n, 269, 19, 4, 2)
      [] n \in 35 .. 66 -> BandSymbol(n, 273, 35, 8, 3)
DistanceSymbol(n) ==
    CASE n <= 4 -> BandSymbol(n, 0, 1, 1, 0)
      [] n \in 5 .. 8 -> BandSymbol(n, 4, 5, 2, 1)
      [] n \in 9 .. 16 -> BandSymbol(n, 6, 9, 4, 2)

\* What a block says: symbols of its two alphabets, to the end of the block.
Symbols(sequences) ==
    Concat([i \in DOMAIN sequences |->
        LET s == sequences[i]
        IN  [k \in DOMAIN s.lit |-> [of |-> "literals", symbol |-> s.lit[k], extra |-> <<>>]] \o
            (IF s.len = 0 THEN <<>>
             ELSE <<[of |-> "literals"] @@ LengthSymbol(s.len),
                    [of |-> "distances"] @@ DistanceSymbol(s.distance)>>)])
    \o <<[of |-> "literals", symbol |-> 256, extra |-> <<>>]>>

\* The canonical code of a symbol: shorter codes come first, then smaller symbols.
CodeBits(lengths, symbol) ==
    LET len    == lengths[symbol + 1]
        before == {t \in DOMAIN lengths : lengths[t] > 0
                      /\ \/ lengths[t] < len
                         \/ lengths[t] = len /\ t <= symbol}
        code   == MapThenSumSet(LAMBDA t : 2 ^ (15 - lengths[t]), before) \div 2 ^ (15 - len)
    IN  Reverse(BitsOf(code, len))

SymbolBits(codes_, symbols) ==
    Concat([i \in DOMAIN symbols |->
               CodeBits(codes_[symbols[i].of], symbols[i].symbol) \o symbols[i].extra])

\* Lengths of a code for some of n symbols, as equal as a complete code's can be.
EvenLengths(used, n) ==
    LET k    == IF Cardinality(used) = 1 THEN 1 ELSE BitWidth(Cardinality(used) - 1)
        rank(s) == Cardinality({t \in used : t < s})
        short == IF Cardinality(used) = 1 THEN 0 ELSE 2 ^ k - Cardinality(used)
    IN  [s \in 1 .. n |-> IF s - 1 \notin used THEN 0 ELSE IF rank(s - 1) < short THEN k - 1 ELSE k]

\* Code lengths, with a run of zeros or of the length before as one symbol: at most 138 zeros,
\* or a length and six more of it.
LengthRuns(lengths) ==
    LET alike     == Pieces(lengths, Changes(lengths))
        symbol(s, n, low, bits) == [symbol |-> s, extra |-> BitsOf(n - low, bits)]
        one(len)  == symbol(len, 0, 0, 0)
        short(len, n) == CASE len = 0 /\ n >= 11 -> <<symbol(18, n, 11, 7)>>
                           [] len = 0 /\ n \in 3 .. 10 -> <<symbol(17, n, 3, 3)>>
                           [] len > 0 /\ n >= 4 -> <<one(len), symbol(16, n - 1, 3, 2)>>
                           [] OTHER -> [i \in 1 .. n |-> one(len)]
        long(len, n) == LET most == IF len = 0 THEN 138 ELSE 7
                        IN  Concat([k \in 1 .. n \div most |-> short(len, most)]) \o short(len, n % most)
    IN  Concat([r \in DOMAIN alike |-> long(alike[r][1], Len(alike[r]))])

Fixed == [literals  |-> [s \in 1 .. 288 |-> IF s \in 145 .. 256 THEN 9 ELSE IF s \in 257 .. 280 THEN 7 ELSE 8],
          distances |-> [d \in 1 .. 30 |-> 5]]
LengthCode == [s \in 1 .. 19 |-> IF s <= 13 THEN 4 ELSE 5]

FixedBlock(last, symbols) == <<last, 1, 0>> \o SymbolBits(Fixed, symbols)

DynamicBlock(last, symbols) ==
    LET used(of) == {symbols[i].symbol : i \in {j \in DOMAIN symbols : symbols[j].of = of}}
        hlit  == Max(used("literals")) + 1
        hdist == Max(used("distances") \cup {0}) + 1
        own   == [literals |-> EvenLengths(used("literals"), hlit),
                  distances |-> EvenLengths(used("distances"), hdist)]
        runs  == LengthRuns(own.literals \o own.distances)
    IN  <<last, 0, 1>> \o BitsOf(hlit - 257, 5) \o BitsOf(hdist - 1, 5) \o BitsOf(15, 4) \o
        Concat([i \in 1 .. 19 |-> BitsOf(LengthCode[CODE_LENGTH_ORDER[i] + 1], 3)]) \o
        Concat([i \in DOMAIN runs |-> CodeBits(LengthCode, runs[i].symbol) \o runs[i].extra]) \o
        SymbolBits(own, symbols)

StoredBytes(last, text) == <<last>> \o UintLE(Len(text), 2) \o UintLE(65535 - Len(text), 2) \o text

\* Stored in two blocks, in the fixed code, or in a code of its own and then the fixed one.
DeflateBytes(style, text, sequences) ==
    LET half == Len(text) \div 2
    IN  CASE style = "plain"  -> StoredBytes(0, SubSeq(text, 1, half)) \o
                                 StoredBytes(1, SubSeq(text, half + 1, Len(text)))
          [] style = "packed" -> Packed(FixedBlock(1, Symbols(sequences)))
          [] style = "mixed"  -> Packed(DynamicBlock(0, Symbols(<<sequences[1]>>)) \o
                                        FixedBlock(1, Symbols(Tail(sequences))))

\* The checksum: a sum that tells apart the same bytes in another order.
MCCrc32(bytes) ==
    UintLE(MapThenSumSet(LAMBDA i : (i + 1) * (bytes[i] + 1), DOMAIN bytes) % 65536, 4)

\* A gzip member: with none of the optional fields, or with all of them.
GzipBytes(style, text, deflated, damage) ==
    LET named == style = "mixed"
        crc   == MCCrc32(text)
    IN  <<31, 139, 8, IF damage = "long extra" THEN 4 ELSE IF named THEN 30 ELSE 0, 0, 0, 0, 0, 0, 255>> \o
        (IF named THEN <<2, 0, 7, 7>> \o <<112, 0>> \o <<99, 0>> \o <<1, 2>> ELSE <<>>) \o
        (IF damage = "long extra" THEN <<0, 1>> ELSE <<>>) \o
        deflated \o
        (IF damage = "checksum" THEN [crc EXCEPT ![1] = (@ + 1) % 256] ELSE crc) \o
        UintLE(Len(text), 4)

\* What is stored of a page's bytes.
Stored_(plan, text) ==
    LET tail      == IF plan.codec = "LZ4_RAW" THEN Max({Len(text) - 5, 0}) ELSE Len(text)
        sequences == (IF plan.damage = "far copy" THEN <<[lit |-> <<>>, distance |-> 1, len |-> 4]>>
                      ELSE <<>>) \o Sequences(text, 0, <<>>, tail)
        deflated  == CASE plan.damage = "reserved block" -> <<7>>
                       [] plan.damage = "bad symbol" ->
                              Packed(FixedBlock(1, <<[of |-> "literals", symbol |-> 286, extra |-> <<>>]>>))
                       [] OTHER -> DeflateBytes(plan.style, text, sequences)
        bytes     == CASE plan.codec = "UNCOMPRESSED" -> text
                       [] plan.codec = "SNAPPY"  -> SnappyBytes(plan.style, Len(text), sequences)
                       [] plan.codec = "LZ4_RAW" -> Lz4Bytes(sequences)
                       [] plan.codec = "GZIP"    -> GzipBytes(plan.style, text, deflated, plan.damage)
    IN  IF plan.damage = "cut short" THEN Front(bytes) ELSE bytes

-----------------------------------------------------------------------------
(* Records, slots and values.                                               *)

\* One slot for each value, null or empty list a record has on the leaf's path: how deep
\* it is defined, and how deep the nearest list it goes on with.
RECURSIVE ShredField(_, _, _, _), ShredOne(_, _, _, _)
ShredField(fields, i, v, r) ==
    LET f == fields[i]
        nothing == <<[rep |-> r, def |-> IF i = 1 THEN 0 ELSE fields[i - 1].def, value |-> Null]>>
    IN  IF f.repetition = "repeated"
        THEN IF v.items = <<>> THEN nothing
             ELSE Concat([n \in DOMAIN v.items |->
                             ShredOne(fields, i, v.items[n], IF n = 1 THEN r ELSE f.rep)])
        ELSE IF v = Null THEN nothing
        ELSE IF f.is_list THEN ShredField(fields, i + 1, v, r)
        ELSE ShredOne(fields, i, v, r)

ShredOne(fields, i, v, r) ==
    IF i = Len(fields) THEN
        <<[rep |-> r, def |-> fields[i].def, value |-> v]>>
    ELSE IF i > 1 /\ fields[i].repetition = "repeated" THEN ShredField(fields, i + 1, v, r)
    ELSE ShredField(fields, i + 1, v.value, r)

\* Pages of so many slots, or, version 2, of so many records.
PagesOf(plan, shredded) ==
    LET slots == Concat(shredded)
        per   == plan.per_page
        part(s, p) == SubSeq(s, per * (p - 1) + 1, Min({per * p, Len(s)}))
    IN  IF plan.version = 1 THEN [p \in 1 .. DivCeil(Len(slots), per) |-> part(slots, p)]
        ELSE [p \in 1 .. DivCeil(Len(shredded), per) |-> Concat(part(shredded, p))]

\* The rows that begin before slot number n.
RowsBefore(shredded, n) ==
    Cardinality({r \in DOMAIN shredded : Len(Concat(SubSeq(shredded, 1, r - 1))) + 1 < n})

LevelBytes(plan, levels, max) ==
    LET runs == Runs(plan.style, levels, BitWidth(max))
    IN  IF max = 0 THEN <<>> ELSE IF plan.version = 1 THEN UintLE(Len(runs), 4) \o runs ELSE runs

ValuesIn(slots) ==
    LET present == SelectSeq(slots, LAMBDA s : s.value # Null)
    IN  [i \in DOMAIN present |-> present[i].value.value]

-----------------------------------------------------------------------------
(* Thrift: a field to write is its id, its wire type and its value's bytes. *)

IntField(id, n) == [id |-> id, wire |-> 6, bytes |-> Uleb(Zigzag(n))]
BoolField(id, b) == [id |-> id, wire |-> IF b THEN 1 ELSE 2, bytes |-> <<>>]
Counted(bytes) == Uleb(Len(bytes)) \o bytes
BytesField(id, bytes) == [id |-> id, wire |-> 8, bytes |-> Counted(bytes)]
StructField(id, bytes) == [id |-> id, wire |-> 12, bytes |-> bytes]
\* A list, its size in its header byte or after it.
ListField(style, id, wire, items) ==
    LET n == Len(items)
    IN  [id |-> id, wire |-> 9,
         bytes |-> (IF style = "packed" \/ n >= 15 THEN <<240 + wire>> \o Uleb(n) ELSE <<16 * n + wire>>)
                   \o Concat(items)]
IntsField(style, id, ints) == ListField(style, id, 5, [i \in DOMAIN ints |-> Uleb(Zigzag(ints[i]))])
When(condition, field) == IF condition THEN <<field>> ELSE <<>>

\* A struct inside a struct, and a list inside a list, so many deep.
DeepStruct(n) == StructField(99, [i \in 1 .. n - 1 |-> 28] \o [i \in 1 .. n |-> 0])
DeepList(n) == [id |-> 99, wire |-> 9, bytes |-> [i \in 1 .. n - 1 |-> 25] \o <<3>>]

\* Fields of every type that no reader knows, in one of which is as much as may be.
Unknown ==
    << [id |-> 90, wire |-> 3, bytes |-> <<255>>],
       [id |-> 91, wire |-> 7, bytes |-> [i \in 1 .. 8 |-> i]],
       [id |-> 92, wire |-> 10, bytes |-> <<33, 1, 0>>],
       [id |-> 93, wire |-> 11, bytes |-> <<1, 140>> \o Counted(<<7, 7>>) \o <<17, 0>>],
       [id |-> 94, wire |-> 11, bytes |-> <<0>>],
       [id |-> 95, wire |-> 13, bytes |-> [i \in 1 .. 16 |-> i]],
       [id |-> 96, wire |-> 4, bytes |-> Uleb(Zigzag(-300))],
       BoolField(97, TRUE) >>

\* A field's header: how much more its id is than the last one's, or the id.
HeaderBytes(style, last_id, f) ==
    IF style # "packed" /\ f.id - last_id \in 1 .. 15 THEN <<16 * (f.id - last_id) + f.wire>>
    ELSE <<f.wire>> \o Uleb(Zigzag(f.id))

\* What is wrong with one field, of one kind of struct.
Hurt(hurt, name, fields) ==
    LET others == SelectSeq(fields, LAMBDA f : f.id # hurt.id)
        more(f) == IF f.id = hurt.id THEN [f EXCEPT !.bytes = [@ EXCEPT ![1] = @ + 2]] ELSE f
    IN  CASE hurt.struct # name     -> fields
          [] hurt.how = "missing"   -> others
          [] hurt.how = "more"      -> [i \in DOMAIN fields |-> more(fields[i])]
          [] hurt.how = "mistyped"  -> Append(others, [id |-> hurt.id, wire |-> 7, bytes |-> [i \in 1 .. 8 |-> 0]])
          [] hurt.how = "deep struct" -> Append(fields, DeepStruct(hurt.id))
          [] hurt.how = "deep list" -> Append(fields, DeepList(hurt.id))
          [] hurt.how = "unknown"   -> Append(fields, [id |-> 99, wire |-> hurt.id, bytes |-> <<0>>])
          [] hurt.how = "unknown list" -> Append(fields, [id |-> 99, wire |-> 9, bytes |-> <<16 + hurt.id, 0>>])
          [] hurt.how = "unknown map" -> Append(fields, [id |-> 99, wire |-> 11, bytes |-> <<1, hurt.id, 0, 0>>])

\* A struct: its fields in order, or the other way around.
StructBytes(plan, name, fields) ==
    LET hurt    == Hurt(plan.hurt, name, fields)
        written == IF plan.style = "mixed" THEN Reverse(hurt) ELSE hurt
        last(i) == IF i = 1 THEN 0 ELSE written[i - 1].id
    IN  Concat([i \in DOMAIN written |->
                   HeaderBytes(plan.style, last(i), written[i]) \o written[i].bytes]) \o <<0>>

-----------------------------------------------------------------------------
(* Pages, and the footer.                                                   *)

Number(names, name) == SelectInSeq(names, LAMBDA n : n = name) - 1

\* A page header, of one of three kinds.
PageHeaderBytes(plan, h) ==
    LET sub == IF h.type # 3
               THEN <<IntField(1, h.num_values), IntField(2, Number(EncodingNames, h.encoding)),
                      IntField(3, 3), IntField(4, 3)>>
                    \o When(h.type = 0 /\ plan.style = "packed", StructField(5, <<0>>))
               ELSE <<IntField(1, h.num_values), IntField(2, 0), IntField(3, 1),
                      IntField(4, Number(EncodingNames, h.encoding)),
                      IntField(5, h.def_len), IntField(6, h.rep_len)>>
                    \o When(plan.style # "plain", BoolField(7, h.is_compressed))
        id  == CASE h.type = 2 -> 7 [] h.type = 3 -> 8 [] OTHER -> 5
    IN  StructBytes(plan, "PageHeader",
            <<IntField(1, h.type), IntField(2, h.uncompressed_page_size),
              IntField(3, h.compressed_page_size)>>
            \o When(plan.indexed, IntField(4, LittleEndian(MCCrc32(h.body))))
            \o When(plan.style = "packed" /\ ~plan.indexed, IntField(4, -5))
            \o <<StructField(id, StructBytes(plan, "SubHeader", sub))>>)

\* A page: its header, and what is stored.
PageOf(plan, dict, path, slots, last) ==
    LET values == ValuesIn(slots)
        kept   == IF plan.damage = "value lost" /\ last THEN Front(values) ELSE values
        reps   == LevelBytes(plan, [i \in DOMAIN slots |-> slots[i].rep], MaxRep(path))
        defs   == LevelBytes(plan, [i \in DOMAIN slots |-> slots[i].def], MaxDef(path))
        text   == Encoded(plan, dict, kept)
        size   == Len(reps \o defs \o text) + IF plan.damage = "wrong size" /\ last THEN 1 ELSE 0
        packed == plan.style # "packed"
        body   == CASE plan.version = 1 -> Stored_(plan, reps \o defs \o text)
                    [] plan.version = 2 /\ packed -> reps \o defs \o Stored_(plan, text)
                    [] OTHER -> reps \o defs \o text
    IN  PageHeaderBytes(plan,
            [type |-> CASE plan.damage = "index page" -> 1 [] plan.version = 1 -> 0 [] OTHER -> 3,
             num_values |-> Len(slots),
             encoding |-> IF plan.damage = "encoding" THEN "BIT_PACKED" ELSE plan.encoding,
             compressed_page_size |-> Len(body), uncompressed_page_size |-> size,
             rep_len |-> Len(reps), def_len |-> Len(defs), is_compressed |-> packed, body |-> body])
        \o body

DictionaryPageOf(plan, dict) ==
    LET text == PlainBytes(plan.type, dict)
        body == Stored_(plan, text)
    IN  PageHeaderBytes(plan,
            [type |-> 2, num_values |-> Len(dict), encoding |-> "PLAIN",
             compressed_page_size |-> Len(body), uncompressed_page_size |-> Len(text), body |-> body])
        \o body

\* How many columns the file has, the last of which is read, and how many row groups come first.
Columns(plan) == IF plan.style = "mixed" THEN 2 ELSE 1
RowGroupsBefore(plan) == IF plan.style = "packed" THEN 1 ELSE 0

\* What a leaf's element says of its type, in the newer way or in the older.
Annotation(annotation) ==
    LET logical(id, member) == <<StructField(10, <<16 * id + 12>> \o member \o <<0, 0>>)>>
        converted(name) == <<IntField(6, Number(ConvertedTypes, name))>>
    IN  CASE annotation = "none"         -> <<>>
          [] annotation = "unsigned"     -> logical(10, <<19, 8, 18>>)
          [] annotation = "signed"       -> logical(10, <<19, 8, 17>>)
          [] annotation = "old unsigned" -> converted("UINT_8")
          [] annotation = "decimal"      -> logical(5, <<>>)
          [] annotation = "old decimal"  -> converted("DECIMAL")
          [] annotation = "float16"      -> logical(15, <<>>)
          [] annotation = "interval"     -> converted("INTERVAL")

\* The flat list of the schema's elements: the root, another column or none, and a path.
\* A group's one child comes after it.
Elements(plan) ==
    LET path      == plan.path
        number(f) == Number(<<"required", "optional", "repeated">>, f.repetition)
        list      == StructField(10, StructBytes(plan, "LogicalType", <<StructField(3, <<0>>)>>))
        leaf_type == <<IntField(1, Number(PhysicalTypes, plan.type))>>
                     \o When(plan.type = "FIXED_LEN_BYTE_ARRAY", IntField(2, FixedLength))
                     \o Annotation(plan.annotation)
        element(i) ==
            LET f == path[i]
                is_leaf == i = Len(path)
            IN  StructBytes(plan, IF is_leaf THEN "Leaf" ELSE "Group",
                    (IF is_leaf THEN leaf_type ELSE <<>>) \o
                    <<IntField(3, number(f)), BytesField(4, f.name)>>
                    \o When(~is_leaf, IntField(5, 1)) \o When(f.is_list, list))
        root   == StructBytes(plan, "Root", <<BytesField(4, <<109>>), IntField(5, Columns(plan))>>)
        other  == << StructBytes(plan, "Other", <<BytesField(4, <<111>>), IntField(5, 1)>>),
                     StructBytes(plan, "Other", <<IntField(1, 0), BytesField(4, <<98>>)>>) >>
    IN  <<root>> \o (IF Columns(plan) = 2 THEN other ELSE <<>>) \o [i \in DOMAIN path |-> element(i)]

\* A chunk without pages, somewhere, and without anything else.
EmptyChunk(codec, offset) ==
    [codec |-> codec, data_page_offset |-> offset, dictionary_page_offset |-> 0, total_compressed_size |-> 0,
     statistics |-> <<0>>, filter |-> NoSpan, column_index |-> NoSpan, offset_index |-> NoSpan]

\* A column chunk, and a row group of as many as there are columns: all but the last are empty.
ChunkBytes(plan, c) ==
    LET path == [i \in DOMAIN plan.path |-> Counted(plan.path[i].name)]
        meta == <<IntField(1, Number(PhysicalTypes, plan.type)),
                  IntsField(plan.style, 2, <<Number(EncodingNames, plan.encoding)>>),
                  ListField(plan.style, 3, 8, path),
                  IntField(4, Number(CompressionCodecs, c.codec)), IntField(5, Len(plan.records)), IntField(6, 0),
                  IntField(7, c.total_compressed_size), IntField(9, c.data_page_offset)>>
                \o When(c.dictionary_page_offset > 0 \/ plan.style = "packed",
                        IntField(11, c.dictionary_page_offset))
                \o When(plan.style = "packed" \/ c.statistics # <<0>>, StructField(12, c.statistics))
                \o When(c.filter # NoSpan, IntField(14, c.filter.start))
        at(id, span) == IF span = NoSpan THEN <<>> ELSE <<IntField(id, span.start), IntField(id + 1, SpanLen(span))>>
        key  == IF plan.damage = "encrypted pages" THEN <<44, 40, 1, 7, 0, 0>> ELSE <<0>>
    IN  StructBytes(plan, "ColumnChunk",
            <<IntField(2, 0), StructField(3, StructBytes(plan, "ColumnMetaData", meta))>>
            \o at(4, c.offset_index) \o at(6, c.column_index)
            \o When(plan.damage \in {"encrypted", "encrypted pages"}, StructField(8, key)))

RowGroupBytes(plan, c, columns) ==
    StructBytes(plan, "RowGroup",
        <<ListField(plan.style, 1, 12,
              [k \in 1 .. columns |-> ChunkBytes(plan, IF k < columns THEN EmptyChunk(c.codec, 4) ELSE c)]),
          IntField(2, 0), IntField(3, Len(plan.records))>>)

\* The footer, with a signature or with a row group before the chunk's.

FooterOf(plan, c) ==
    LET columns == Columns(plan) - IF plan.damage = "no chunk" THEN 1 ELSE 0
        groups  == (IF RowGroupsBefore(plan) = 1 THEN <<RowGroupBytes(plan, EmptyChunk("LZO", 0), 0)>> ELSE <<>>)
                   \o <<RowGroupBytes(plan, c, columns)>>
        pair    == StructBytes(plan, "KeyValue", <<BytesField(1, <<107>>), BytesField(2, <<>>)>>)
        signed  == plan.style = "packed"
    IN  StructBytes(plan, "FileMetaData",
            <<IntField(1, 2), ListField(plan.style, 2, 12, Elements(plan)),
              IntField(3, Len(plan.records)), ListField(plan.style, 4, 12, groups),
              ListField(plan.style, 5, 12, <<pair>>)>>
            \o When(plan.stats \notin {"none", "no order"},
                    ListField(plan.style, 7, 12, [k \in 1 .. Columns(plan) |->
                                 IF plan.stats = "other order" THEN <<44, 0, 0>> ELSE <<28, 0, 0>>]))
            \o When(signed, StructField(8, <<0>>))
            \o (IF plan.unknown THEN Unknown \o <<DeepStruct(MAX_DEPTH), DeepList(MAX_DEPTH + 1)>> ELSE <<>>))
        \o (IF signed THEN [i \in 1 .. FOOTER_SIGNATURE_LEN |-> i] ELSE <<>>)
        \o (IF plan.damage = "after footer" THEN <<0>> ELSE <<>>)

-----------------------------------------------------------------------------
(* Statistics, indexes and a filter.                                        *)

\* A value as the number it is, if its type and its annotation make it one.
IsDecimalPlan(plan) == plan.annotation \in {"decimal", "old decimal"}
IsFloat(plan) == plan.type \in {"FLOAT", "DOUBLE"} \/ plan.annotation = "float16"
IsNumber(plan) == plan.type \in {"INT32", "INT64", "BOOLEAN"} \/ IsDecimalPlan(plan) \/ IsFloat(plan)
NumberOf(plan, v) ==
    LET n    == LittleEndian(v)
        half == 2 ^ (8 * Len(v) - 1)
    IN  CASE plan.annotation \in {"unsigned", "old unsigned"} -> v[1] % 256 ^ Wide(plan.type)
          [] plan.type \in {"INT32", "INT64", "BOOLEAN"} -> v[1]
          [] IsFloat(plan) -> IF n < half THEN n ELSE half - n
          [] OTHER -> FoldLeft(LAMBDA m, byte : 256 * m + byte, IF v[1] < 128 THEN 0 ELSE -1, v)

\* The floats that are no number: all ones where the exponent is, and not all zeros after it.
Exponent(plan) == CASE plan.type = "FLOAT" -> FloatExponent [] plan.type = "DOUBLE" -> DoubleExponent [] OTHER -> 5
IsNaN(plan, v) ==
    LET after == 2 ^ (8 * Len(v) - 1 - Exponent(plan))
        n     == LittleEndian(v)
    IN  IsFloat(plan) /\ (n \div after) % 2 ^ Exponent(plan) = 2 ^ Exponent(plan) - 1 /\ n % after # 0

RECURSIVE LexLess(_, _)
LexLess(a, b) ==
    CASE b = <<>> -> FALSE
      [] a = <<>> -> TRUE
      [] OTHER    -> IF a[1] = b[1] THEN LexLess(Tail(a), Tail(b)) ELSE a[1] < b[1]

Less(plan, a, b) == IF IsNumber(plan) THEN NumberOf(plan, a) < NumberOf(plan, b) ELSE LexLess(a, b)

\* What the deprecated pair was made with: numbers and bytes have signs.
SignedLess(plan, a, b) ==
    LET signed(v) == [i \in DOMAIN v |-> (v[i] + 128) % 256]
    IN  IF plan.type \in {"INT32", "INT64", "BOOLEAN"} THEN a[1] < b[1]
        ELSE IF IsFloat(plan) THEN Less(plan, a, b) ELSE LexLess(signed(a), signed(b))

ValueOf(plan, v) == IF plan.type \in {"INT32", "INT64"} THEN Integers(plan.type, v[1]) ELSE v

\* The bytes of the least and the greatest of some values, in an order, if there are any.
Extremes(plan, values, LessThan(_, _, _)) ==
    LET all == {v \in ToSet(values) : ~IsNaN(plan, v)}
    IN  IF all = {} THEN <<>>
        ELSE <<[min |-> ValueOf(plan, CHOOSE v \in all : \A w \in all : ~LessThan(plan, w, v)),
                max |-> ValueOf(plan, CHOOSE v \in all : \A w \in all : ~LessThan(plan, v, w))]>>

\* Bounds cut to a byte: at most the least, and more than the greatest.
Cut(bounds) == [min |-> SubSeq(bounds.min, 1, 1), max |-> <<bounds.max[1] + 1>>]

Bounds(plan, values, LessThan(_, _, _)) ==
    LET bounds == Extremes(plan, values, LessThan)
    IN  IF bounds # <<>> /\ plan.stats = "truncated" THEN <<Cut(bounds[1])>> ELSE bounds

StatisticsBytes(plan, values) ==
    LET pair(max, min, bounds) ==
            FlattenSeq([i \in DOMAIN bounds |-> <<BytesField(max, bounds[i].max), BytesField(min, bounds[i].min)>>])
        newer    == pair(5, 6, Bounds(plan, values, Less))
        older    == pair(1, 2, Extremes(plan, values, SignedLess))
        disorder == pair(5, 6, Extremes(plan, values, SignedLess))
        beyond   == pair(5, 6, << [min |-> ValueOf(plan, values[1]), max |-> [i \in 1 .. Wide(plan.type) |-> 127]] >>)
    IN  IF plan.stats = "none" THEN <<0>>
        ELSE StructBytes(plan, "Statistics",
                 (CASE plan.stats = "older" -> older
                    [] plan.stats = "both" -> older \o newer
                    [] plan.stats \in {"no order", "other order"} -> disorder
                    [] plan.stats = "nan" -> beyond
                    [] OTHER -> newer)
                 \o <<IntField(3, Len(plan.records) - Len(values))>>
                 \o (IF plan.stats = "truncated" THEN <<BoolField(7, FALSE), BoolField(8, FALSE)>> ELSE <<>>))

\* A Bloom filter of two blocks: the top bit of a value's hash is its block.
Filter(plan, values) ==
    LET hashes == {XxHash64(ValueOf(plan, v)) : v \in ToSet(values)}
        bit(hash, word) == 256 * (hash[8] \div 128) + 32 * (word - 1) + Times(SubSeq(hash, 1, 4), SALT[word])[4] \div 8
        bits   == {bit(hash, word) : hash \in hashes, word \in 1 .. 8}
        one    == StructBytes(plan, "Union", <<StructField(1, <<0>>)>>)
    IN  StructBytes(plan, "BloomFilterHeader",
            <<IntField(1, 64), StructField(2, one), StructField(3, one), StructField(4, one)>>)
        \o Packed([b \in 1 .. 512 |-> IF b - 1 \in bits THEN 1 ELSE 0])

ColumnIndexBytes(plan, slots) ==
    LET values(p) == ValuesIn(slots[p])
        bounds(p) == Bounds(plan, values(p), Less)
        ends(p)   == IF bounds(p) = <<>> THEN [min |-> <<>>, max |-> <<>>] ELSE bounds(p)[1]
        list(id, wire, items) == ListField(plan.style, id, wire, items)
    IN  StructBytes(plan, "ColumnIndex",
            << list(1, 1, [p \in DOMAIN slots |-> <<IF values(p) = <<>> THEN 1 ELSE 2>>]),
               list(2, 8, [p \in DOMAIN slots |-> Counted(ends(p).min)]),
               list(3, 8, [p \in DOMAIN slots |-> Counted(ends(p).max)]),
               IntField(4, 0),
               IntsField(plan.style, 5, [p \in DOMAIN slots |-> Len(slots[p]) - Len(values(p))]) >>)

OffsetIndexBytes(plan, offsets, sizes, first_rows) ==
    LET location(p) == StructBytes(plan, "PageLocation",
                           <<IntField(1, offsets[p]), IntField(2, sizes[p]), IntField(3, first_rows[p])>>)
    IN  StructBytes(plan, "OffsetIndex", <<ListField(plan.style, 1, 12, [p \in DOMAIN offsets |-> location(p)])>>)

-----------------------------------------------------------------------------
(* Encryption, to somebody without the keys: a length, and a nonce and a    *)
(* tag around bytes that mean nothing.                                      *)

Module(bytes) ==
    UintLE(NONCE_LEN + Len(bytes) + TAG_LEN, 4) \o [i \in 1 .. NONCE_LEN |-> i] \o bytes \o [i \in 1 .. TAG_LEN |-> 200 + i]

CryptoBytes(plan) ==
    StructBytes(plan, "FileCryptoMetaData",
        <<StructField(1, StructBytes(plan, "Union", <<StructField(1, <<0>>)>>)), BytesField(2, <<107>>)>>)

-----------------------------------------------------------------------------
(* The file.                                                                *)

MCWritten(plan) ==
    LET path     == plan.path
        fields   == PathFields(path)
        shredded == [r \in DOMAIN plan.records |->
                        ShredField(fields, 1, plan.records[r].value, 0)]
        slots    == PagesOf(plan, shredded)
        n        == Len(slots)
        values   == ValuesIn(Concat(slots))
        full     == Distinct(values)
        dict     == IF plan.damage = "entry lost" THEN Front(full) ELSE full
        has_dict == plan.encoding \in Dictionaries /\ plan.damage # "no dictionary"
        sealed   == plan.damage = "sealed"
        kept(page) == IF plan.damage = "encrypted pages" THEN Module(<<1, 2>>) \o Module(page) ELSE page
        data     == [p \in 1 .. n |-> kept(PageOf(plan, full, path, slots[p], p = n))]
        all      == (IF has_dict THEN <<kept(DictionaryPageOf(plan, dict))>> ELSE <<>>) \o data
        magic    == IF sealed THEN MAGIC_ENCRYPTED ELSE <<80, 65, 82, 49>>
        before(p) == magic \o Concat(SubSeq(all, 1, p - 1))
        offset(p) == Len(before(p + IF has_dict THEN 1 ELSE 0))
        pages_end == before(Len(all) + 1)
        first_rows == [p \in 1 .. n |-> RowsBefore(shredded, Len(Concat(SubSeq(slots, 1, p - 1))) + 1)]
        extras   == IF ~plan.indexed THEN << <<>>, <<>>, <<>> >>
                    ELSE << Filter(plan, values), ColumnIndexBytes(plan, slots),
                            OffsetIndexBytes(plan, [p \in 1 .. n |-> offset(p)], [p \in 1 .. n |-> Len(data[p])], first_rows) >>
        place(k) == LET start == Len(pages_end) + Len(Concat(SubSeq(extras, 1, k - 1)))
                    IN  IF plan.indexed THEN SpanOf(start, start + Len(extras[k])) ELSE NoSpan
        metadata == FooterOf(plan,
                        [codec |-> IF plan.damage = "codec" THEN "ZSTD" ELSE plan.codec,
                         data_page_offset |-> offset(1),
                         dictionary_page_offset |-> IF has_dict THEN Len(magic) ELSE 0,
                         total_compressed_size |->
                             Len(pages_end) - Len(magic) - IF plan.damage = "short chunk" THEN 1 ELSE 0,
                         statistics |-> StatisticsBytes(plan, values),
                         filter |-> place(1), column_index |-> place(2), offset_index |-> place(3)])
        footer   == IF sealed THEN CryptoBytes(plan) \o Module(metadata) ELSE metadata
        asked    == CASE plan.ask = "whole" -> [p \in 1 .. n |-> p]
                      [] plan.ask = "last" -> IF n = 0 THEN <<>> ELSE <<n>>
                      [] plan.ask = "odd" -> SelectSeq([p \in 1 .. n |-> p], LAMBDA p : p % 2 = 1)
    IN  [file    |-> pages_end \o Concat(extras) \o footer \o UintLE(Len(footer), 4) \o magic,
         column  |-> Columns(plan) + IF plan.damage = "no column" THEN 1 ELSE 0,
         row_group |-> RowGroupsBefore(plan) + 1,
         dictionary |-> has_dict,
         whole   |-> plan.ask = "whole",
         offsets |-> [i \in DOMAIN asked |-> offset(asked[i])],
         records |-> plan.records,
         slots   |-> [i \in DOMAIN asked |-> slots[asked[i]]],
         first_rows |-> first_rows,
         truncated |-> plan.stats = "truncated",
         damage  |-> plan.damage]

-----------------------------------------------------------------------------
(* The plans.                                                               *)

Field(name, repetition, is_list) == [name |-> name, repetition |-> repetition, is_list |-> is_list]
NameV == <<118>>
NameG == <<103>>
NameL == <<108>>
NameList == <<108, 105>>
NameElement == <<101, 108>>
Required == <<Field(NameV, "required", FALSE)>>
Optional == <<Field(NameV, "optional", FALSE)>>
Repeated == <<Field(NameV, "repeated", FALSE)>>
Group == <<Field(NameG, "optional", FALSE), Field(NameV, "optional", FALSE)>>
Groups_ == <<Field(NameG, "repeated", FALSE), Field(NameV, "optional", FALSE)>>
ListOf(fields) == <<Field(NameL, "optional", TRUE), Field(NameList, "repeated", FALSE)>> \o fields
List == ListOf(<<Field(NameElement, "optional", FALSE)>>)
Structs == ListOf(<<Field(NameElement, "required", FALSE), Field(NameV, "optional", FALSE)>>)
Lists == ListOf(<<Field(NameElement, "optional", TRUE), Field(NameList, "repeated", FALSE),
                  Field(NameElement, "required", FALSE)>>)

A == Value(<<1>>)
B == Value(<<-2>>)
V(v) == Obj(NameV, v)

\* What a record of each shape may hold.
Contents(path) ==
    CASE path = Required -> {A, B}
      [] path = Optional -> {Null, A}
      [] path = Repeated -> {Arr(<<>>), Arr(<<A>>), Arr(<<A, B>>)}
      [] path = Group    -> {Null, V(Null), V(A)}
      [] path = Groups_  -> {Arr(<<>>), Arr(<<V(Null)>>), Arr(<<V(B), V(A)>>)}
      [] path = List     -> {Null, Arr(<<>>), Arr(<<Null>>), Arr(<<A, Null, B>>)}
      [] path = Structs  -> {Null, Arr(<<>>), Arr(<<V(A), V(Null)>>)}
      [] path = Lists    -> {Null, Arr(<<>>), Arr(<<Null, Arr(<<A>>)>>),
                             Arr(<<Arr(<<>>), Arr(<<A, B>>), Arr(<<B>>)>>)}

Records(path, contents) == [r \in DOMAIN contents |-> Obj(path[1].name, contents[r])]

Plan(path, contents, per_page, version, style, type, encoding, codec, ask, damage) ==
    [path |-> path, records |-> Records(path, contents), per_page |-> per_page,
     version |-> version, style |-> style, type |-> type, encoding |-> encoding,
     codec |-> codec, ask |-> ask, damage |-> damage,
     annotation |-> "none", stats |-> "none", indexed |-> FALSE,
     unknown |-> FALSE, hurt |-> [struct |-> "", id |-> 0, how |-> ""]]

Versions == {1, 2}
Styles == {"plain", "packed", "mixed"}

\* Every shape: up to three records, in pages of one or two.
NestedPlans ==
    UNION {UNION {{Plan(path, contents, Max({Len(contents) - 1, 1}), how[1], how[2], "INT32", "PLAIN",
                        "UNCOMPRESSED", "whole", "none") : how \in {<<1, "plain">>, <<2, "packed">>}} :
                  contents \in {<<>>} \cup (Contents(path) \X Contents(path))
                               \cup {<<c, d, c>> : c, d \in Contents(path)}} :
           path \in {Required, Optional, Repeated, Group, Groups_, List, Structs, Lists}}

None == <<100000>>
Optionals(values) == [i \in DOMAIN values |-> IF values[i] = None THEN Null ELSE Value(values[i])]

\* Values at the edges of their types: a difference that wraps, an empty array, a prefix that
\* is the whole of the value before.
Edges(type) ==
    CASE type = "INT32" -> {<< <<-128>>, None, <<127>>, <<-1>>, <<5>>, <<5>> >>,
                            [i \in 1 .. 20 |-> <<((i * i * 37) % 256) - 128>>]}
      [] type = "INT64" -> {<< <<-32768>>, None, <<32767>>, <<-1>>, <<300>>, <<300>> >>}
      [] type = "FLOAT" -> {<< <<1>>, <<255>>, None >>}
      [] type = "DOUBLE" -> {<< <<0, 63>>, <<255, 127>>, None, <<0, 63>> >>}
      [] type = "INT96" -> {<< [i \in 1 .. 12 |-> i], None, [i \in 1 .. 12 |-> 200 + i] >>}
      [] type = "BOOLEAN" -> {[i \in 1 .. 10 |-> <<IF i % 3 = 0 THEN 1 ELSE 0>>]}
      [] type = "FIXED_LEN_BYTE_ARRAY" -> {<< <<1, 2>>, <<1, 3>>, None, <<1, 2>> >>}
      [] type = "BYTE_ARRAY" -> {<< <<1, 2>>, <<1, 2, 3>>, None, <<1, 2, 3, 4>>, <<1, 2, 3, 4>>, <<>>, <<1>> >>,
                                 << None, None >>}

Encodings(type) ==
    CASE type \in {"INT32", "INT64"} -> {"PLAIN", "RLE_DICTIONARY", "DELTA_BINARY_PACKED", "BYTE_STREAM_SPLIT"}
      [] type = "BOOLEAN" -> {"PLAIN"}
      [] type = "INT96" -> {"PLAIN", "PLAIN_DICTIONARY"}
      [] type \in {"FLOAT", "DOUBLE", "FIXED_LEN_BYTE_ARRAY"} -> {"PLAIN", "RLE_DICTIONARY", "BYTE_STREAM_SPLIT"}
      [] type = "BYTE_ARRAY" -> {"PLAIN", "PLAIN_DICTIONARY", "DELTA_LENGTH_BYTE_ARRAY", "DELTA_BYTE_ARRAY"}

\* Every type in every encoding, all its pages or some.
EncodedPlans ==
    UNION {{Plan(Optional, Optionals(values), cut[1], how[1], how[2], type, encoding, "UNCOMPRESSED",
                 cut[2], "none") :
               values \in Edges(type), encoding \in Encodings(type),
               how \in {<<1, "plain">>, <<1, "mixed">>, <<2, "plain">>, <<2, "packed">>},
               cut \in {<<4, "whole">>, <<4, "last">>, <<4, "odd">>, <<20, "whole">>}} :
           type \in ToSet(PhysicalTypes)}

\* Text that repeats itself, near and far, a run of one byte, and one that never does.
Texts ==
    {[i \in 1 .. 4 |-> <<97, 98, 97, 98, 97, 98, 98, 97, 98, 97, 98, 98>>],
     << [i \in 1 .. 30 |-> 7] >>,
     << [i \in 1 .. 20 |-> i], <<1, 2, 3, 4, 5, 6>> >>}

CompressedPlans ==
    {Plan(Optional, Optionals(values), 2, how[1], style, "BYTE_ARRAY", how[2], codec, "whole", "none") :
        values \in Texts, how \in {<<1, "PLAIN">>, <<2, "PLAIN">>, <<2, "RLE_DICTIONARY">>},
        style \in Styles, codec \in {"SNAPPY", "LZ4_RAW", "GZIP"}}

Some == << <<1, 2>>, None, <<1, 2>>, <<5, 1, 2, 1, 2, 1, 2, 1, 2>> >>
Damaged(version, style, encoding, codec, damage) ==
    Plan(Optional, Optionals(Some), 2, version, style, "BYTE_ARRAY", encoding, codec, "whole", damage)

AllCodecs == {"UNCOMPRESSED", "SNAPPY", "LZ4_RAW", "GZIP"}

DamagedPlans ==
    {Damaged(version, "plain", encoding, codec, damage) :
        version \in Versions, encoding \in {"PLAIN", "DELTA_LENGTH_BYTE_ARRAY", "DELTA_BYTE_ARRAY"},
        codec \in AllCodecs, damage \in {"value lost", "short chunk", "encoding", "codec", "index page", "encrypted"}}
    \cup {Damaged(version, style, "RLE_DICTIONARY", codec, damage) :
        version \in Versions, style \in Styles, codec \in AllCodecs, damage \in {"no dictionary", "entry lost"}}
    \cup {Damaged(version, "plain", "PLAIN", codec, damage) :
        version \in Versions, codec \in AllCodecs \ {"UNCOMPRESSED"}, damage \in {"wrong size", "cut short"}}
    \cup {Damaged(version, "plain", "PLAIN", codec, "far copy") :
        version \in Versions, codec \in {"SNAPPY", "LZ4_RAW"}}
    \cup {Damaged(version, "mixed", "PLAIN", "GZIP", damage) :
        version \in Versions, damage \in {"checksum", "reserved block", "bad symbol", "far copy"}}
    \cup {Damaged(1, "plain", "PLAIN", "GZIP", "long extra")}

\* A footer or a page header with a field missing or of another type, one that counts too
\* many, one of no known type, or one that nests too deep.
Hurts(version) ==
    {[struct |-> field[1], id |-> field[2], how |-> how] :
        how \in {"missing", "mistyped"},
        field \in {<<"FileMetaData", 1>>, <<"FileMetaData", 2>>, <<"FileMetaData", 3>>, <<"FileMetaData", 4>>,
                   <<"RowGroup", 1>>, <<"RowGroup", 2>>, <<"RowGroup", 3>>, <<"ColumnChunk", 3>>,
                   <<"KeyValue", 1>>, <<"Root", 4>>, <<"Leaf", 4>>, <<"Root", 5>>, <<"Leaf", 1>>,
                   <<"PageHeader", 1>>, <<"PageHeader", 2>>, <<"PageHeader", 3>>}
                  \cup ({"ColumnMetaData"} \X {1, 2, 3, 4, 5, 6, 7, 9})}
    \cup {[struct |-> field[1], id |-> field[2], how |-> "mistyped"] :
        field \in {<<"PageHeader", IF version = 1 THEN 5 ELSE 8>>, <<"SubHeader", IF version = 1 THEN 2 ELSE 4>>,
                   <<"ColumnMetaData", 12>>}}
    \cup {[struct |-> field[1], id |-> field[2], how |-> "more"] :
        field \in {<<"Root", 5>>, <<"ColumnMetaData", 7>>, <<"ColumnMetaData", 9>>, <<"PageHeader", 3>>}}
    \cup {[struct |-> struct, id |-> wire, how |-> how] :
        struct \in {"FileMetaData", "PageHeader"}, wire \in {0, 14, 15},
        how \in {"unknown", "unknown list", "unknown map"}}
    \cup {[struct |-> "FileMetaData", id |-> MAX_DEPTH + 1, how |-> "deep struct"],
          [struct |-> "FileMetaData", id |-> MAX_DEPTH + 2, how |-> "deep list"]}

HurtPlans ==
    UNION {{[Damaged(version, style, "PLAIN", "UNCOMPRESSED", "field") EXCEPT !.hurt = hurt] :
        hurt \in Hurts(version), style \in {"plain", "packed"}} : version \in Versions}
    \cup {Damaged(1, style, "PLAIN", "UNCOMPRESSED", damage) :
        style \in Styles, damage \in {"no column", "no chunk", "after footer"}}
    \cup {[Plan(Optional, Optionals(values), 4, version, "plain", "FIXED_LEN_BYTE_ARRAY", "BYTE_STREAM_SPLIT",
                "UNCOMPRESSED", "whole", "no width") EXCEPT !.hurt = [struct |-> "Leaf", id |-> 2, how |-> "missing"]] :
        version \in Versions, values \in Edges("FIXED_LEN_BYTE_ARRAY")}

\* A footer with fields that no reader knows, and what nests as deep as may be.
UnknownPlans ==
    {[Damaged(1, style, "PLAIN", "UNCOMPRESSED", "none") EXCEPT !.unknown = TRUE] : style \in Styles}

\* Files with statistics, indexes and a filter: every type, every annotation, every writer.
Annotations(type) ==
    CASE type = "INT32" -> {"none", "unsigned", "signed", "old unsigned"}
      [] type = "INT64" -> {"none", "unsigned"}
      [] type = "BYTE_ARRAY" -> {"none", "decimal"}
      [] type = "FIXED_LEN_BYTE_ARRAY" -> {"none", "float16", "old decimal", "interval"}
      [] OTHER -> {"none"}

Writers(type, annotation) ==
    {"new", "older", "both", "no order", "other order"}
    \cup (IF type = "BYTE_ARRAY" /\ annotation = "none" THEN {"truncated"} ELSE IF type \in {"FLOAT", "DOUBLE"} THEN {"nan"} ELSE {})

Spread(type) ==
    CASE type = "BYTE_ARRAY" -> << <<1, 2>>, <<200, 1>>, None, <<1, 2, 3>>, <<127>> >>
      [] type = "FIXED_LEN_BYTE_ARRAY" -> << <<1, 2>>, <<1, 200>>, None, <<200, 3>>, <<0, 252>>, <<1, 252>> >>
      [] type = "FLOAT" -> << <<1>>, <<255>>, None, <<129>>, <<112>>, <<240>> >>
      [] type = "INT32" -> << <<-128>>, None, <<127>>, <<-1>>, None, None, <<5>> >>
      [] OTHER -> CHOOSE values \in Edges(type) : TRUE

IndexedPlans ==
    UNION {UNION {{[Plan(Optional, Optionals(Spread(type)), 2, how[1], how[2], type, how[3], "UNCOMPRESSED",
                         "whole", "none") EXCEPT !.annotation = annotation, !.stats = stats, !.indexed = TRUE] :
                      stats \in Writers(type, annotation),
                      how \in IF annotation = "none" THEN {<<1, "plain", "PLAIN">>, <<2, "packed", "PLAIN">>}
                              ELSE {<<2, "mixed", "PLAIN">>}} :
                  annotation \in Annotations(type)} :
           type \in ToSet(PhysicalTypes)}
    \cup {[Plan(Optional, Optionals(Spread("BYTE_ARRAY")), 2, 1, style, "BYTE_ARRAY", "RLE_DICTIONARY", "SNAPPY",
                "whole", damage) EXCEPT !.stats = "new", !.indexed = TRUE] :
            style \in Styles, damage \in {"none", "encrypted pages", "sealed"}}

MCPlans == NestedPlans \cup EncodedPlans \cup CompressedPlans \cup DamagedPlans \cup HurtPlans \cup UnknownPlans
           \cup IndexedPlans
=============================================================================
