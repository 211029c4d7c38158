------------------------------- MODULE Hybrid -------------------------------
(***************************************************************************)
(* crates/parquet-lab/src/rle.rs: the RLE / bit-packing hybrid that holds  *)
(* levels and dictionary indices.                                          *)
(***************************************************************************)
EXTENDS ByteReader, SequencesExt

\* bit_width: the bits it takes to store every integer from 0 to `max`.
BitWidth(max) == CHOOSE w \in 0 .. 32 : max < 2 ^ w /\ (w = 0 \/ max >= 2 ^ (w - 1))

\* unpack: the i-th value of a bit-packed run.
Unpack(raw, i, width) == BitsAt(raw, i * width, width)

\* One run: its header, then what its lowest bit says follows.  No more values than
\* `wanted` are taken: a bit-packed run may end in padding.
ReadRun(b, at, base, width, wanted) ==
    Try(ReadUleb128(b, at), LAMBDA header :
        LET packed == header.v % 2 = 1
            n      == header.v \div 2
            count  == Min({wanted, IF packed THEN 8 * n ELSE n})
        IN  Try(ReadBytes(b, header.at, IF packed THEN n * width ELSE DivCeil(width, 8)), LAMBDA body :
                Read([header |-> SpanFrom(base, at, header),
                      body   |-> SpanFrom(base, header.at, body),
                      values |-> [i \in 1 .. count |->
                                     IF packed THEN Unpack(body.v, i - 1, width)
                                     ELSE LittleEndian(body.v)]],
                     body.at)))

\* decode: runs until `wanted` values are there.  One that produces nothing and consumes
\* nothing is an error.
RECURSIVE DecodeRuns(_, _, _, _, _)
DecodeRuns(b, at, base, width, wanted) ==
    IF wanted = 0 THEN Read(<<>>, at)
    ELSE Try(ReadRun(b, at, base, width, wanted), LAMBDA run :
             IF run.v.values = <<>> /\ SpanLen(run.v.body) = 0 THEN ReadError
             ELSE Try(DecodeRuns(b, run.at, base, width, wanted - Len(run.v.values)), LAMBDA rest :
                      Read(<<run.v>> \o rest.v, rest.at)))

RunValues(runs) == FlattenSeq([r \in DOMAIN runs |-> runs[r].values])
=============================================================================
