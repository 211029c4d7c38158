------------------------------- MODULE Codecs -------------------------------
(***************************************************************************)
(* crates/parquet-lab/src/compress.rs: decompressing a page, one token at  *)
(* a time.  SNAPPY and LZ4_RAW are byte-aligned literals and back-         *)
(* references; GZIP is a member around a DEFLATE stream, whose tokens are  *)
(* Huffman codes.  `pos` counts the bits of the input that have been read. *)
(***************************************************************************)
EXTENDS Hybrid

VARIABLES
    stage,     \* where the decompressor is: "idle" when there is nothing to decompress
    job,       \* decompress's arguments: the codec, the input, its offset, the size
    pos,       \* how many bits of the input have been read
    out,       \* the bytes written so far
    tokens,    \* what was read and written, token by token
    codes      \* a DEFLATE block's Huffman codes, and whether it is the last

codecVars == <<stage, job, pos, out, tokens, codes>>

NoCodes == [last |-> FALSE]
NoJob == [codec |-> "UNCOMPRESSED", input |-> <<>>, base |-> 0, size |-> 0]

CodecIdle ==
    /\ stage = "idle"
    /\ job = NoJob
    /\ pos = 0
    /\ out = <<>>
    /\ tokens = <<>>
    /\ codes = NoCodes

\* decompress(codec, input, base, size).
StartDecompress(codec, input, base, size) ==
    /\ stage' = "header"
    /\ job' = [codec |-> codec, input |-> input, base |-> base, size |-> size]
    /\ pos' = 0
    /\ out' = <<>>
    /\ tokens' = <<>>
    /\ codes' = NoCodes

\* Its result has been used.
EndDecompress ==
    /\ stage' = "idle"
    /\ job' = NoJob
    /\ pos' = 0
    /\ out' = <<>>
    /\ tokens' = <<>>
    /\ codes' = NoCodes

Input == job.input
Bits == 8 * Len(Input)
Byte == pos \div 8        \* the position of a byte-aligned codec

\* Some bytes were read, and `text` written: a token whose input ends at bit `to`.
Token(kind, distance, to, from, text) ==
    [kind |-> kind, distance |-> distance,
     input |-> SpanOf(job.base + pos \div 8, job.base + DivCeil(to, 8)),
     output |-> SpanOf(from, from + Len(text))]

Emit(kind, distance, to, text) ==
    /\ pos' = to
    /\ out' = out \o text
    /\ tokens' = Append(tokens, Token(kind, distance, to, Len(out), text))

Fail ==
    /\ stage' = "failed"
    /\ UNCHANGED <<job, pos, out, tokens, codes>>

\* Faulty variant: the page header's size is not compared with what came out.
FinishAnySize == stage' = "done"

\* The last check: the page header said how many bytes there would be.
Finish == stage' = IF Len(out') = job.size THEN "done" ELSE "failed"

\* Faulty variant: a copy that outruns its distance goes on with the last byte.
CopyRepeatingLast(text, distance, len) ==
    [i \in 1 .. len |-> IF i <= distance THEN text[Len(text) - distance + i] ELSE Last(text)]

\* copy_back: `len` bytes from `distance` back, byte by byte, so that a copy may read what it
\* has itself written.
CopyBack(text, distance, len) ==
    LET copied[i \in 1 .. len] ==
            IF i <= distance THEN text[Len(text) - distance + i] ELSE copied[i - distance]
    IN  [i \in 1 .. len |-> copied[i]]

CanCopy(text, distance) == distance \in 1 .. Len(text)

Stored ==
    /\ stage = "header"
    /\ job.codec = "UNCOMPRESSED"
    /\ Emit("Literal", 0, Bits, Input)
    /\ Finish
    /\ UNCHANGED <<job, codes>>

\* A codec this reader does not decode.
Unsupported ==
    /\ stage = "header"
    /\ job.codec \notin {"UNCOMPRESSED", "SNAPPY", "LZ4_RAW", "GZIP"}
    /\ Fail

-----------------------------------------------------------------------------
(* SNAPPY                                                                   *)

\* The varint that says how long the output will be: it may be of any length.
SnappyLength == SelectInSeq(Input, LAMBDA b : b < 128)

SnappyHeader ==
    /\ stage = "header"
    /\ job.codec = "SNAPPY"
    /\ IF SnappyLength = 0 THEN Fail
       ELSE /\ stage' = "elements"
            /\ Emit("Header", 0, 8 * SnappyLength, <<>>)
            /\ UNCHANGED <<job, codes>>

SnappyPromised ==
    MapThenSumSet(LAMBDA k : (Input[k] % 128) * 128 ^ (k - 1), 1 .. SnappyLength)

\* An element's tag byte: its low two bits are its kind.
Tag == Input[Byte + 1]
TagLength == Tag \div 4

\* 00: a literal, its length less one in the tag or in the next one to four bytes.
SnappyLiteral ==
    LET length == IF TagLength < 60 THEN Read(TagLength, Byte + 1)
                  ELSE ReadLittleEndian(Input, Byte + 1, TagLength - 59)
    IN  /\ stage = "elements" /\ job.codec = "SNAPPY" /\ pos < Bits
        /\ Tag % 4 = 0
        /\ \E text \in {Try(length, LAMBDA n : ReadBytes(Input, n.at, n.v + 1))} :
              IF text.ok
              THEN Emit("Literal", 0, 8 * text.at, text.v) /\ UNCHANGED <<stage, job, codes>>
              ELSE Fail

\* 01, 10, 11: a copy, its distance in the next one, two or four bytes (the first kind keeps
\* three more bits of it in the tag).
SnappyCopy ==
    LET kind   == Tag % 4
        high   == IF kind = 1 THEN (Tag \div 32) * 256 ELSE 0
        len    == IF kind = 1 THEN 4 + (TagLength % 8) ELSE 1 + TagLength
        offset == Try(ReadLittleEndian(Input, Byte + 1, <<1, 2, 4>>[kind]), LAMBDA low :
                      IF CanCopy(out, low.v + high) THEN Read(low.v + high, low.at) ELSE ReadError)
    IN  /\ stage = "elements" /\ job.codec = "SNAPPY" /\ pos < Bits
        /\ Tag % 4 # 0
        /\ \E distance \in {offset} :
              IF distance.ok
              THEN /\ Emit("Copy", distance.v, 8 * distance.at, CopyBack(out, distance.v, len))
                   /\ UNCHANGED <<stage, job, codes>>
              ELSE Fail

-----------------------------------------------------------------------------
(* LZ4_RAW                                                                  *)

Lz4Start ==
    /\ stage = "header"
    /\ job.codec = "LZ4_RAW"
    /\ stage' = "elements"
    /\ UNCHANGED <<job, pos, out, tokens, codes>>

\* A length of 15 continues in the bytes that follow, until one is not 255.
More(n, p) ==
    LET ends == {k \in p + 1 .. Len(Input) : Input[k] # 255}
        total(end) == Read(n + 255 * (end - p - 1) + Input[end], end)
    IN  IF n < 15 THEN Read(n, p)
        ELSE IF ends = {} THEN ReadError ELSE total(Min(ends))

\* A sequence's literals; and its match, after them.
Lz4Literals ==
    Try(More(Tag \div 16, Byte + 1), LAMBDA n : ReadBytes(Input, n.at, n.v))

Lz4Match(text) ==
    Try(ReadLittleEndian(Input, text.at, 2), LAMBDA distance :
    Try(More(Tag % 16, distance.at), LAMBDA n :
        IF CanCopy(out \o text.v, distance.v)
        THEN Read([distance |-> distance.v, len |-> n.v + 4], n.at) ELSE ReadError))

\* The two tokens of a sequence.
EmitMatch(text, match) ==
    LET written == out \o text.v
        copied  == CopyBack(written, match.v.distance, match.v.len)
    IN  /\ pos' = 8 * match.at
        /\ out' = written \o copied
        /\ tokens' = tokens \o
               <<Token("Literal", 0, 8 * text.at, Len(out), text.v),
                 [kind |-> "Copy", distance |-> match.v.distance,
                  input |-> SpanOf(job.base + text.at, job.base + match.at),
                  output |-> SpanOf(Len(written), Len(written) + Len(copied))]>>

\* Both; the block ends after the last one's literals.
Lz4Sequence ==
    /\ stage = "elements" /\ job.codec = "LZ4_RAW" /\ pos < Bits
    /\ \E text \in {Lz4Literals} :
          IF ~text.ok THEN Fail
          ELSE IF text.at = Len(Input)
          THEN Emit("Literal", 0, Bits, text.v) /\ UNCHANGED <<stage, job, codes>>
          ELSE \E match \in {Lz4Match(text)} :
                  IF ~match.ok THEN Fail
                  ELSE /\ EmitMatch(text, match)
                       /\ UNCHANGED <<stage, job, codes>>

\* The input is used up: Snappy's own promise must have been kept.
ElementsEnd ==
    /\ stage = "elements"
    /\ pos = Bits
    /\ IF job.codec = "SNAPPY" /\ Len(out) # SnappyPromised THEN Fail
       ELSE UNCHANGED <<job, pos, out, tokens, codes>> /\ Finish

-----------------------------------------------------------------------------
(* GZIP                                                                     *)

Flag(n) == (Input[4] \div n) % 2 = 1

\* The position after the zero that ends the string at p.
AfterString(p) ==
    LET zeros == {k \in p + 1 .. Len(Input) : Input[k] = 0}
    IN  IF zeros = {} THEN ReadError ELSE Read(<<>>, Min(zeros))

\* The member's header: ten bytes, and the optional fields its flags announce.  Rust
\* panics if they reach past the input.
GzipFields ==
    LET named == IF Flag(4) THEN Try(ReadLittleEndian(Input, 10, 2), LAMBDA n : Read(<<>>, 12 + n.v))
                 ELSE Read(<<>>, 10)
    IN  Try(named, LAMBDA at :
        Try(IF Flag(8) THEN AfterString(at.at) ELSE at, LAMBDA name :
        Try(IF Flag(16) THEN AfterString(name.at) ELSE name, LAMBDA comment :
            Read(<<>>, comment.at + IF Flag(2) THEN 2 ELSE 0))))

GzipHeader ==
    /\ stage = "header"
    /\ job.codec = "GZIP"
    /\ IF Len(Input) < 18 THEN Fail
       ELSE IF SubSeq(Input, 1, 3) # <<31, 139, 8>> THEN Fail
       ELSE \E fields \in {GzipFields} :
            IF ~fields.ok THEN Fail
            ELSE IF fields.at > Len(Input)
            THEN stage' = "panicked" /\ UNCHANGED <<job, pos, out, tokens, codes>>
            ELSE /\ stage' = "block"
                 /\ Emit("Header", 0, 8 * fields.at, <<>>)
                 /\ UNCHANGED <<job, codes>>

\* bits(n): the next n bits, least significant first.
ReadBits(p, n) == IF p + n <= Bits THEN Read(BitsAt(Input, p, n), p + n) ELSE ReadError

\* Huffman::new: how many codes of each length there are, and the symbols in code order.
Huffman(lengths) ==
    [count   |-> [n \in 1 .. 15 |-> Cardinality({s \in DOMAIN lengths : lengths[s] = n})],
     symbols |-> FlattenSeq([n \in 1 .. 15 |->
                     SelectSeq([s \in 1 .. Len(lengths) |-> s - 1], LAMBDA s : lengths[s + 1] = n)])]

\* Huffman::decode: after n bits the code is either among the codes of that length, which
\* are consecutive integers from `first`, or longer.
HuffmanDecode(h, p) ==
    LET after[n \in 1 .. 15] ==
            IF n = 1 THEN [code |-> BitAt(Input, p), first |-> 0, index |-> 0]
            ELSE LET a == after[n - 1]
                 IN  [code  |-> 2 * a.code + BitAt(Input, p + n - 1),
                      first |-> 2 * (a.first + h.count[n - 1]),
                      index |-> a.index + h.count[n - 1]]
        fits == {n \in 1 .. Min({15, Bits - p}) : after[n].code - after[n].first < h.count[n]}
        symbol(a) == h.symbols[a.index + a.code - a.first + 1]
        first(n) == Read(symbol(after[n]), p + n)
    IN  IF fits = {} THEN ReadError ELSE first(Min(fits))

LENGTH_BASE == <<3, 4, 5, 6, 7, 8, 9, 10, 11, 13, 15, 17, 19, 23, 27, 31, 35, 43, 51, 59, 67, 83,
                 99, 115, 131, 163, 195, 227, 258>>
LENGTH_EXTRA == [s \in 1 .. 29 |-> IF s < 9 \/ s = 29 THEN 0 ELSE (s - 5) \div 4]
DIST_BASE == [d \in 1 .. 30 |-> IF d < 3 THEN d
                                ELSE 1 + (2 + ((d - 1) % 2)) * 2 ^ ((d - 1) \div 2 - 1)]
DIST_EXTRA == [d \in 1 .. 30 |-> IF d < 3 THEN 0 ELSE (d - 1) \div 2 - 1]
CODE_LENGTH_ORDER == <<16, 17, 18, 0, 8, 7, 9, 6, 10, 5, 11, 4, 12, 3, 13, 2, 14, 1, 15>>

\* The fixed codes.
FixedCodes ==
    [literals  |-> Huffman([s \in 1 .. 288 |-> IF s <= 144 THEN 8 ELSE IF s <= 256 THEN 9
                                               ELSE IF s <= 280 THEN 7 ELSE 8]),
     distances |-> Huffman([d \in 1 .. 30 |-> 5])]

\* `wanted` code lengths written in the code-length code, with runs of the one before (16)
\* and of zeros (17, 18).
RECURSIVE CodeLengths(_, _, _, _)
CodeLengths(cl, p, lengths, wanted) ==
    LET repeat(symbol) ==      \* how often the symbol's length is there
            IF symbol.v <= 15 THEN Read(1, symbol.at)
            ELSE Try(ReadBits(symbol.at, <<2, 3, 7>>[symbol.v - 15]), LAMBDA n :
                     Read(n.v + <<3, 3, 11>>[symbol.v - 15], n.at))
        length(s) == IF s <= 15 THEN s ELSE IF s = 16 THEN Last(lengths) ELSE 0
    IN  IF Len(lengths) >= wanted
        THEN IF Len(lengths) = wanted THEN Read(lengths, p) ELSE ReadError
        ELSE Try(HuffmanDecode(cl, p), LAMBDA symbol :
             IF symbol.v = 16 /\ lengths = <<>> THEN ReadError
             ELSE Try(repeat(symbol), LAMBDA n :
                      CodeLengths(cl, n.at, lengths \o [i \in 1 .. n.v |-> length(symbol.v)], wanted)))

\* dynamic_codes: the lengths of the codes of a block that brings its own.
DynamicCodes(p) ==
    LET given(hclen) == hclen + 4
        small(hclen) == [s \in 1 .. 19 |->
            LET k == SelectInSeq(CODE_LENGTH_ORDER, LAMBDA c : c = s - 1)
            IN  IF k <= given(hclen) THEN BitsAt(Input, p + 14 + 3 * (k - 1), 3) ELSE 0]
        start(hclen) == p + 14 + 3 * given(hclen)
        split(all, literals) ==
            Read([literals  |-> Huffman(SubSeq(all.v, 1, literals)),
                  distances |-> Huffman(SubSeq(all.v, literals + 1, Len(all.v)))], all.at)
    IN  Try(ReadBits(p, 5), LAMBDA hlit :
        Try(ReadBits(hlit.at, 5), LAMBDA hdist :
        Try(ReadBits(hdist.at, 4), LAMBDA hclen :
            IF start(hclen.v) > Bits THEN ReadError
            ELSE Try(CodeLengths(Huffman(small(hclen.v)), start(hclen.v), <<>>,
                                 hlit.v + 257 + hdist.v + 1),
                     LAMBDA all : split(all, hlit.v + 257)))))

\* A block's three header bits: whether it is the last, and its kind.
BlockLast == BitAt(Input, pos) = 1
BlockKind == BitsAt(Input, pos + 1, 2)
AtBlock == stage = "block" /\ pos + 3 <= Bits

\* What follows the last block, or another.
AfterBlock(last) == stage' = IF last THEN "trailer" ELSE "block"

\* Kind 0: to the next byte boundary, then a length, its complement, and the bytes.
StoredText(start) ==
    Try(ReadLittleEndian(Input, start, 2), LAMBDA len :
    Try(ReadLittleEndian(Input, len.at, 2), LAMBDA nlen :
        IF len.v = 65535 - nlen.v THEN ReadBytes(Input, nlen.at, len.v) ELSE ReadError))

StoredBlock ==
    /\ AtBlock /\ BlockKind = 0
    /\ \E text \in {StoredText(DivCeil(pos + 3, 8))} :
          IF ~text.ok THEN Fail
          ELSE /\ Emit("Literal", 0, 8 * text.at, text.v)
               /\ AfterBlock(BlockLast)
               /\ UNCHANGED <<job, codes>>

\* Kinds 1 and 2: the codes are fixed, or described before the data.
CodedBlock ==
    /\ AtBlock /\ BlockKind \in {1, 2}
    /\ \E own \in {IF BlockKind = 1 THEN Read(FixedCodes, pos + 3) ELSE DynamicCodes(pos + 3)} :
          IF ~own.ok THEN Fail
          ELSE /\ stage' = "symbols"
               /\ codes' = own.v @@ [last |-> BlockLast]
               /\ Emit("Header", 0, own.at, <<>>)
               /\ UNCHANGED job

\* Kind 3 is reserved; or there are no bits left.
NoBlock ==
    /\ stage = "block"
    /\ AtBlock => BlockKind = 3
    /\ Fail

\* No code, or one that stands for nothing.
BadSymbol(symbol) ==
    /\ IF symbol.ok THEN symbol.v - 257 >= 29 ELSE TRUE
    /\ Fail

\* A literal.  Consecutive literals are one token.
LiteralSymbol(symbol) ==
    LET last   == Last(tokens)
        token  == Token("Literal", 0, symbol.at, Len(out), <<symbol.v>>)
        joined == [last EXCEPT !.input = SpanOf(last.input.start, token.input.end),
                               !.output = SpanOf(last.output.start, token.output.end)]
    IN  /\ symbol.ok
        /\ symbol.v < 256
        /\ pos' = symbol.at
        /\ out' = Append(out, symbol.v)
        /\ tokens' = IF last.kind = "Literal" THEN Append(Front(tokens), joined)
                     ELSE Append(tokens, token)
        /\ UNCHANGED <<stage, job, codes>>

BlockEnd(symbol) ==
    /\ symbol.ok
    /\ symbol.v = 256
    /\ pos' = symbol.at
    /\ AfterBlock(codes.last)
    /\ codes' = NoCodes
    /\ UNCHANGED <<job, out, tokens>>

\* A length and a distance, each a base and some extra bits.
CopyOf(symbol) ==
    LET s == symbol.v - 256
        checked(len, distance) ==
            IF CanCopy(out, distance.v) THEN Read([len |-> len, distance |-> distance.v], distance.at)
            ELSE ReadError
    IN  Try(ReadBits(symbol.at, LENGTH_EXTRA[s]), LAMBDA more :
        Try(HuffmanDecode(codes.distances, more.at), LAMBDA d :
        IF d.v >= 30 THEN ReadError
        ELSE Try(ReadBits(d.at, DIST_EXTRA[d.v + 1]), LAMBDA further :
                 checked(LENGTH_BASE[s] + more.v, Read(DIST_BASE[d.v + 1] + further.v, further.at)))))

CopySymbol(symbol) ==
    /\ symbol.ok
    /\ symbol.v \in 257 .. 285
    /\ \E copy \in {CopyOf(symbol)} :
          IF ~copy.ok THEN Fail
          ELSE /\ Emit("Copy", copy.v.distance, copy.at, CopyBack(out, copy.v.distance, copy.v.len))
               /\ UNCHANGED <<stage, job, codes>>

\* The next symbol of a block.
NextSymbol ==
    /\ stage = "symbols"
    /\ \E symbol \in {HuffmanDecode(codes.literals, pos)} :
          BadSymbol(symbol) \/ LiteralSymbol(symbol) \/ BlockEnd(symbol) \/ CopySymbol(symbol)

\* The member's trailer: the checksum and the length of what was written.
Trailer == Try(ReadBytes(Input, DivCeil(pos, 8), 4), LAMBDA crc :
           Try(ReadLittleEndian(Input, crc.at, 4), LAMBDA length :
               IF crc.v = Crc32(out) /\ length.v = Len(out) THEN Read(<<>>, length.at) ELSE ReadError))

GzipTrailer ==
    /\ stage = "trailer"
    /\ \E trailer \in {Trailer} :
          IF ~trailer.ok THEN Fail
          ELSE /\ Emit("Header", 0, 8 * trailer.at, <<>>)
               /\ Finish
               /\ UNCHANGED <<job, codes>>

CodecNext ==
    \/ Stored \/ Unsupported
    \/ SnappyHeader \/ SnappyLiteral \/ SnappyCopy
    \/ Lz4Start \/ Lz4Sequence
    \/ ElementsEnd
    \/ GzipHeader
    \/ StoredBlock \/ CodedBlock \/ NoBlock
    \/ NextSymbol
    \/ GzipTrailer

-----------------------------------------------------------------------------
(* What the laboratory shows of a decompression: which compressed bytes     *)
(* wrote which bytes of the page.                                           *)

\* The tokens cover what was written, and what was read, in order.  Two share an input byte
\* only where DEFLATE's codes do, and only its end-of-block code, which has no token, leaves
\* bytes out.
TokensTile ==
    LET n == Len(tokens)
        overlap(i) == tokens[i - 1].input.end - tokens[i].input.start
    IN  /\ n > 0 => /\ tokens[1].input.start = job.base
                    /\ tokens[1].output.start = 0
                    /\ tokens[n].output.end = Len(out)
        /\ \A i \in 2 .. n :
              /\ tokens[i].output.start = tokens[i - 1].output.end
              /\ overlap(i) \in IF job.codec # "GZIP" THEN {0}
                                ELSE IF tokens[i].kind = "Copy" THEN {0, 1} ELSE -2 .. 1
        /\ stage = "done" /\ n > 0 => tokens[n].input.end = job.base + Len(job.input)

\* A copy's bytes are those `distance` before them, the ones it wrote itself included; a
\* byte-aligned literal's are the last bytes its token read.
TokensExplain ==
    \A i \in DOMAIN tokens :
        LET t == tokens[i]
            text == SubSeq(out, t.output.start + 1, t.output.end)
            back == SubSeq(out, t.output.start + 1 - t.distance, t.output.end - t.distance)
        IN  CASE t.kind = "Copy" -> text = back
              [] t.kind = "Literal" /\ job.codec # "GZIP" ->
                    IsSuffix(text, SubSeq(Input, 1, t.input.end - job.base))
              [] t.kind = "Literal" /\ job.codec = "GZIP" -> TRUE
              [] t.kind = "Header" -> text = <<>>

\* Stepping through a decompression shows where every byte of the page came from: the
\* tokens leave none out, in the input or the output, and each says what it did.
TokensAccountForEveryByte == TokensTile /\ TokensExplain
=============================================================================
