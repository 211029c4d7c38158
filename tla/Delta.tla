------------------------------- MODULE Delta -------------------------------
(***************************************************************************)
(* crates/parquet-lab/src/delta.rs: the delta encodings, and               *)
(* BYTE_STREAM_SPLIT.  The steps kept for display are left out; the spans  *)
(* of the values are not.  A decoded value is [value, span, extra], as     *)
(* DecodedValue is.                                                        *)
(***************************************************************************)
EXTENDS Hybrid

\* i64's wrapping addition.
Wrap(x) == Signed(x, LongBits)

\* A run of n varints.
RECURSIVE ReadVarints(_, _, _)
ReadVarints(b, at, n) ==
    IF n = 0 THEN Read(<<>>, at)
    ELSE Try(ReadUleb128(b, at), LAMBDA first :
             Try(ReadVarints(b, first.at, n - 1), LAMBDA rest :
                 Read(<<first.v>> \o rest.v, rest.at)))

\* A block's miniblocks: as many deltas from `min_delta` as are still `left`, each
\* `per_miniblock` of them in the bits its width byte says.  A miniblock nobody needs has a
\* width and no body.
RECURSIVE Miniblocks(_, _, _, _, _, _, _, _)
Miniblocks(b, at, base, per_miniblock, widths, min_delta, prev, left) ==
    LET w == Head(widths)
        n == Min({per_miniblock, left})
        sums(raw) ==
            LET value[i \in 0 .. n] ==
                    IF i = 0 THEN prev
                    ELSE Wrap(value[i - 1] + Wrap(min_delta + BitsAt(raw, (i - 1) * w, w)))
            IN  value
        block(raw, value) ==
            Try(Miniblocks(b, raw.at, base, per_miniblock, Tail(widths), min_delta, value[n], left - n),
                LAMBDA rest :
                    Read([i \in 1 .. n |-> [value |-> value[i], span |-> SpanFrom(base, at, raw)]]
                             \o rest.v, rest.at))
    IN  IF widths = <<>> \/ left = 0 THEN Read(<<>>, at)
        ELSE Try(ReadBytes(b, at, (per_miniblock * w) \div 8), LAMBDA raw : block(raw, sums(raw.v)))

\* Blocks, until no value is left to read.
RECURSIVE Blocks(_, _, _, _, _, _, _)
Blocks(b, at, base, per_miniblock, miniblocks, prev, left) ==
    LET after(values) == IF values = <<>> THEN prev ELSE Last(values).value
    IN  IF left = 0 THEN Read(<<>>, at)
        ELSE Try(ReadZigzag(b, at), LAMBDA min_delta :
             Try(ReadBytes(b, min_delta.at, miniblocks), LAMBDA widths :
             Try(Miniblocks(b, widths.at, base, per_miniblock, widths.v, min_delta.v, prev, left), LAMBDA block :
             Try(Blocks(b, block.at, base, per_miniblock, miniblocks, after(block.v), left - Len(block.v)),
                 LAMBDA rest : Read(block.v \o rest.v, rest.at)))))

\* binary_packed: a header of block size, miniblocks per block, count and first value, then
\* the blocks.
BinaryPacked(b, base) ==
    Try(ReadVarints(b, 0, 4), LAMBDA header :
        LET miniblocks == Max({header.v[2], 1})
            total      == header.v[3]
            first      == ZigzagDecode(header.v[4])
        IN  IF total = 0 THEN Read(<<>>, header.at)
            ELSE Try(Blocks(b, header.at, base, header.v[1] \div miniblocks, miniblocks, first, total - 1),
                     LAMBDA rest :
                         Read(<<[value |-> first, span |-> SpanFrom(base, 0, header)]>> \o rest.v, rest.at)))

\* The bytes of each value in turn, `lengths` long.
RECURSIVE Slices(_, _, _, _)
Slices(b, at, base, lengths) ==
    IF lengths = <<>> THEN Read(<<>>, at)
    ELSE Try(ReadBytes(b, at, Head(lengths).value), LAMBDA bytes :
         Try(Slices(b, bytes.at, base, Tail(lengths)), LAMBDA rest :
             Read(<<[value |-> bytes.v, span |-> SpanFrom(base, at, bytes),
                     extra |-> <<Head(lengths).span>>]>> \o rest.v, rest.at)))

\* length_byte_array: delta-packed lengths, then every value's bytes back to back.
LengthByteArray(b, base) ==
    Try(BinaryPacked(b, base), LAMBDA lengths : Slices(b, lengths.at, base, lengths.v))

\* Faulty variant: a prefix is cut from the first value, not from the one before.
SharedWithFirst(values, i, prefix) ==
    IF i = 1 THEN <<>> ELSE SubSeq(values[1], 1, Min({prefix, Len(values[1])}))

\* The leading bytes a value shares with the one before it: no more than that one has.
Shared(values, i, prefix) ==
    LET prev == IF i = 1 THEN <<>> ELSE values[i - 1]
    IN  IF prefix \in 0 .. Len(prev) THEN SubSeq(prev, 1, prefix) ELSE prev

\* byte_array: shared-prefix lengths, then the suffixes as a length_byte_array.
ByteArray(b, base) ==
    LET values(prefixes, suffixes) ==
            FoldLeft(LAMBDA done, i :
                         Append(done, Shared(done, i, prefixes[i].value) \o suffixes[i].value),
                     <<>>, [i \in 1 .. Min({Len(prefixes), Len(suffixes)}) |-> i])
        result(prefixes, suffixes, all) ==
            Read([i \in DOMAIN all |->
                     [value |-> all[i], span |-> suffixes.v[i].span,
                      extra |-> <<prefixes.v[i].span>> \o suffixes.v[i].extra]],
                 prefixes.at + suffixes.at)
    IN  Try(BinaryPacked(b, base), LAMBDA prefixes :
        Try(LengthByteArray(SubSeq(b, prefixes.at + 1, Len(b)), base + prefixes.at), LAMBDA suffixes :
            result(prefixes, suffixes, values(prefixes.v, suffixes.v))))

\* byte_stream_split: byte k of value i is at k * count + i.
ByteStreamSplit(b, base, width, count) ==
    LET at(i, k)   == (k - 1) * count + i - 1
        byte(i, k) == SpanOf(base + at(i, k), base + at(i, k) + 1)
    IN  IF Len(b) < width * count THEN ReadError
        ELSE Read([i \in 1 .. count |->
                      [value |-> [k \in 1 .. width |-> b[at(i, k) + 1]],
                       span  |-> byte(i, 1),
                       extra |-> [k \in 1 .. width - 1 |-> byte(i, k + 1)]]],
                  width * count)
=============================================================================
