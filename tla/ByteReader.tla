----------------------------- MODULE ByteReader -----------------------------
(***************************************************************************)
(* crates/parquet-lab/src/bytes.rs: turning bytes into numbers.  A buffer  *)
(* is a sequence; a position counts from 0, as Rust's do.  A read returns  *)
(* what it read and the position after it, or an error.                    *)
(***************************************************************************)
EXTENDS Integers, Sequences, FiniteSetsExt

CONSTANTS
    Crc32(_),   \* compress.rs's checksum of some bytes, as the four bytes that store it
    IntBytes,   \* the width of an INT32 and of a FLOAT
    LongBits    \* the width of an INT64 and of a DOUBLE, and of the program's own integers

ASSUME WidthAssumption ==
    /\ LongBits \in Nat /\ IntBytes \in Nat \ {0}
    /\ LongBits % 8 = 0 /\ 8 * IntBytes <= LongBits

LongBytes == LongBits \div 8

Read(v, at) == [ok |-> TRUE, v |-> v, at |-> at]
ReadError == [ok |-> FALSE]
Panicked == [ok |-> FALSE, panicked |-> TRUE]   \* the program ends

\* Rust's `?`: go on with what was read, unless it is an error.
Try(r, Continue(_)) == IF r.ok THEN Continue(r) ELSE r

\* A half-open range of file offsets; `base` is the file offset of a buffer's first byte.
SpanOf(start, end) == [start |-> start, end |-> end]
SpanLen(s) == s.end - s.start
Inside(t, s) == s.start <= t.start /\ t.end <= s.end
\* Span::new refuses to end before it starts.  Its ends are unsigned: below zero is above all.
Below(x, y) == IF (x < 0) = (y < 0) THEN x < y ELSE y < 0
NewSpan(start, end) == IF Below(end, start) THEN Panicked ELSE Read(SpanOf(start, end), 0)

SpanFrom(base, at, r) == SpanOf(base + at, base + r.at)

\* read_bytes: the next n bytes.  A negative n is a huge one to Rust's usize.
ReadBytes(b, at, n) ==
    IF n \in 0 .. Len(b) - at THEN Read(SubSeq(b, at + 1, at + n), at + n) ELSE ReadError

\* An unsigned little-endian integer, of any number of bytes.
LittleEndian(bytes) == MapThenSumSet(LAMBDA k : bytes[k] * 256 ^ (k - 1), DOMAIN bytes)

ReadLittleEndian(b, at, n) ==
    Try(ReadBytes(b, at, n), LAMBDA r : Read(LittleEndian(r.v), r.at))

\* read_uleb128: seven bits of value per byte, up to the first with its high bit clear,
\* which must be among the first ten.
ReadUleb128(b, at) ==
    LET ends == {k \in 0 .. 9 : at + k < Len(b) /\ b[at + k + 1] < 128}
        value(last) == Read(MapThenSumSet(LAMBDA k : (b[at + k + 1] % 128) * 128 ^ k, 0 .. last),
                            at + last + 1)
    IN  IF ends = {} THEN ReadError ELSE value(Min(ends))

\* A cast: the signed integer of `bits` bits that x wraps around to.
Signed(x, bits) == ((x + 2 ^ (bits - 1)) % (2 ^ bits)) - 2 ^ (bits - 1)

ZigzagDecode(n) == IF n % 2 = 0 THEN n \div 2 ELSE -((n + 1) \div 2)

ReadZigzag(b, at) == Try(ReadUleb128(b, at), LAMBDA r : Read(ZigzagDecode(r.v), r.at))

\* Bit `at` of a buffer, and the `width` bits from there, least significant first.
BitAt(b, at) == (b[at \div 8 + 1] \div 2 ^ (at % 8)) % 2
BitsAt(b, at, width) == MapThenSumSet(LAMBDA k : BitAt(b, at + k) * 2 ^ k, 0 .. width - 1)

\* The fewest units of n that hold x.
DivCeil(x, n) == (x + n - 1) \div n
=============================================================================
