--------------------------------- MODULE Bloom ---------------------------------
(***************************************************************************)
(* crates/parquet-lab/src/bloom.rs: Parquet's Bloom filter.  A value's     *)
(* xxHash64 chooses one 32-byte block, and one bit in each of the block's  *)
(* eight words.  An integer of 64 or 32 bits is its bytes, the least       *)
(* significant first, so that no number here is larger than a product of   *)
(* two bytes.                                                              *)
(***************************************************************************)
EXTENDS Metadata, Bitwise

P1 == <<135, 202, 235, 133, 177, 121, 55, 158>>   \* 0x9E3779B185EBCA87
P2 == <<79, 235, 212, 39, 61, 174, 178, 194>>     \* 0xC2B2AE3D27D4EB4F
P3 == <<249, 121, 55, 158, 177, 103, 86, 22>>     \* 0x165667B19E3779F9
P4 == <<99, 174, 178, 194, 119, 202, 235, 133>>   \* 0x85EBCA77C2B2AE63
P5 == <<197, 103, 86, 22, 47, 235, 212, 39>>      \* 0x27D4EB2F165667C5

Zero64 == [k \in 1 .. 8 |-> 0]

\* Sums of bytes, carried: the bytes of a number modulo its width.
RECURSIVE Carry(_, _)
Carry(sums, carry) ==
    LET n == Head(sums) + carry
    IN  IF sums = <<>> THEN <<>> ELSE <<n % 256>> \o Carry(Tail(sums), n \div 256)
Carried(sums) == Carry(sums, 0)

\* wrapping_add, wrapping_sub, wrapping_mul and ^.
Plus(a, b)  == Carried([k \in DOMAIN a |-> a[k] + b[k]])
Negative(a) == Carried([k \in DOMAIN a |-> 255 - a[k] + IF k = 1 THEN 1 ELSE 0])
Times(a, b) == Carried([k \in DOMAIN a |-> MapThenSumSet(LAMBDA i : a[i] * b[k + 1 - i], 1 .. k)])
Xor_(a, b)  == [k \in DOMAIN a |-> a[k] ^^ b[k]]

\* rotate_left and >>, by whole bytes and then by bits.
RotateLeft(a, bits) ==
    LET from(k) == a[((k - 1) % 8) + 1]
        q == bits \div 8
        s == 2 ^ (bits % 8)
    IN  [k \in 1 .. 8 |-> ((from(k - q + 8) * s) % 256) + ((from(k - q + 7) * s) \div 256)]
ShiftRight(a, bits) ==
    LET from(k) == IF k \in 1 .. 8 THEN a[k] ELSE 0
        q == bits \div 8
        s == 2 ^ (bits % 8)
    IN  [k \in 1 .. 8 |-> (from(k + q) \div s) + ((from(k + q + 1) * (256 \div s)) % 256)]

Round(acc, input) == Times(RotateLeft(Plus(acc, Times(input, P2)), 31), P1)
Merge(acc, v) == Plus(Times(Xor_(acc, Round(Zero64, v)), P1), P4)

\* Up to eight bytes of data from `at`, as an integer of 64 bits.
U64At(data, at, n) == [k \in 1 .. 8 |-> IF k <= n THEN data[at + k] ELSE 0]

\* Four accumulators over the stripes of 32 bytes, and what they make together.
Together(accs) ==
    LET turned(k) == RotateLeft(accs[k], <<1, 7, 12, 18>>[k])
    IN  FoldLeft(Merge, Plus(Plus(turned(1), turned(2)), Plus(turned(3), turned(4))), accs)

Striped(data) ==
    LET stripes == [s \in 1 .. Len(data) \div 32 |-> s]
        seeds   == <<Plus(P1, P2), P2, Zero64, Negative(P1)>>
    IN  Together([k \in 1 .. 4 |-> FoldLeft(LAMBDA v, s : Round(v, U64At(data, 32 * (s - 1) + 8 * (k - 1), 8)),
                                            seeds[k], stripes)])

\* The bytes after the stripes: eight at a time, then four, then one.
Eight(h, word) == Plus(Times(RotateLeft(Xor_(h, Round(Zero64, word)), 27), P1), P4)
Four(h, word)  == Plus(Times(RotateLeft(Xor_(h, Times(word, P1)), 23), P2), P3)
One(h, byte)   == Times(RotateLeft(Xor_(h, Times(byte, P5)), 11), P1)

Tail_(h, data, from) ==
    LET left   == Len(data) - from
        eights == left \div 8
        fours  == (left % 8) \div 4
        words(n, size, start) == [i \in 1 .. n |-> U64At(data, start + size * (i - 1), size)]
        after8 == FoldLeft(Eight, h, words(eights, 8, from))
        after4 == FoldLeft(Four, after8, words(fours, 4, from + 8 * eights))
    IN  FoldLeft(One, after4, words(left % 4, 1, from + 8 * eights + 4 * fours))

\* The final mixing of the bits.
Folded(h, bits) == Xor_(h, ShiftRight(h, bits))
Avalanche(h) == Folded(Times(Folded(Times(Folded(h, 33), P2), 29), P3), 32)

\* xxh64, with seed 0.
XxHash64(data) ==
    LET long   == Len(data) >= 32
        length == [k \in 1 .. 8 |-> (Len(data) \div (IF k <= 3 THEN 256 ^ (k - 1) ELSE 256 ^ 3)) % 256]
        start  == Plus(IF long THEN Striped(data) ELSE P5, [k \in 1 .. 8 |-> IF k <= 3 THEN length[k] ELSE 0])
    IN  Avalanche(Tail_(start, data, 32 * (Len(data) \div 32)))

SALT == << <<123, 19, 182, 71>>, <<145, 77, 151, 68>>, <<91, 173, 36, 136>>, <<157, 40, 183, 162>>,
           <<199, 149, 84, 112>>, <<75, 66, 241, 45>>, <<71, 73, 252, 158>>, <<49, 251, 107, 92>> >>

NumBlocks(filter) == Len(filter.bitset) \div 32

\* probe_hash: the block, the high half of the hash scaled to the number of blocks, and the bit
\* of each word, the top five bits of the low half times the word's salt.
BlockOf(hash, blocks) == FoldLeft(LAMBDA carry, byte : (byte * blocks + carry) \div 256, 0, SubSeq(hash, 5, 8))
PositionOf(hash, word) == Times(SubSeq(hash, 1, 4), SALT[word])[4] \div 8

InBlock(filter, hash, block) ==
    LET set(word) == BitAt(filter.bitset, 8 * (32 * block + 4 * (word - 1)) + PositionOf(hash, word)) = 1
    IN  [block |-> block, may_contain |-> \A word \in 1 .. 8 : set(word)]

ProbeHash(filter, hash) == InBlock(filter, hash, BlockOf(hash, NumBlocks(filter)))
Probe(filter, value) == ProbeHash(filter, XxHash64(value))

WholeBlocks(num_bytes) == num_bytes > 0 /\ num_bytes % 32 = 0

\* read: a header that says the one algorithm, hash and compression there are, each a union
\* with its first member, and whole blocks.  (An offset below zero reads from the start of the
\* file; the spans it is then given are not modelled.)
ReadFilter(file, chunk) ==
    LET start == Max({chunk.bloom_filter_offset[1], 0})
    IN  IF chunk.bloom_filter_offset = <<>> THEN Read(<<>>, 0)
        ELSE IF start > Len(file) THEN ReadError
        ELSE Try(ReadStruct(file, start, 0), LAMBDA header :
             Try(Req(header.v.v, 1, "int"), LAMBDA num_bytes :
                 IF \E id \in 2 .. 4 : FieldOf(UnwrapOr(Opt(header.v.v, id, "struct"), <<>>), 1) = <<>> THEN ReadError
                 ELSE IF ~WholeBlocks(num_bytes.v) THEN ReadError
                 ELSE Try(ReadBytes(file, header.at, num_bytes.v), LAMBDA bitset :
                      Read(<<[header |-> header.v, header_span |-> header.v.span,
                              bitset_span |-> SpanOf(header.at, bitset.at), bitset |-> bitset.v]>>, 0))))
=============================================================================
