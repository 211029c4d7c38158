------------------------------ MODULE OpenFile ------------------------------
(***************************************************************************)
(* What opening a Parquet file promises, whatever requests it takes: one   *)
(* step, from not knowing, to the outcome that somebody holding the whole  *)
(* file would reach by looking at its end (crates/parquet-lab/src/         *)
(* format.rs), or, when the reader was told a wrong size, by looking where *)
(* the end would then be.  ReadFooter is shown to implement it.            *)
(***************************************************************************)
EXTENDS Integers, Sequences

CONSTANT Content     \* the objects there are: key -> its bytes, a sequence

MAGIC == <<80, 65, 82, 49>>                  \* PAR1
MAGIC_ENCRYPTED_FOOTER == <<80, 65, 82, 69>> \* PARE
TRAILER_LEN == 8
MIN_FILE_LEN == Len(MAGIC) + TRAILER_LEN

\* read_le_u32 of the first four bytes of a trailer.
FooterLength(t) == t[1] + 256 * t[2] + 65536 * t[3] + 16777216 * t[4]

Failed(why) == [ok |-> FALSE, why |-> why]
Opened(footer, bytes) == [ok |-> TRUE, footer |-> footer, bytes |-> bytes]

\* parse_trailer, then footer_span: where the footer of a file of `size` bytes is, from
\* the eight bytes read as its trailer, or why it has none.
Locate(trailer, size) ==
    LET magic == SubSeq(trailer, 5, 8)
        len   == FooterLength(trailer)
        end   == size - TRAILER_LEN
    IN  IF size < MIN_FILE_LEN THEN Failed("TooShort")
        ELSE IF magic = MAGIC_ENCRYPTED_FOOTER THEN Failed("EncryptedFooter")
        ELSE IF magic # MAGIC THEN Failed("BadMagic")
        ELSE IF len > end - Len(MAGIC) THEN Failed("FooterLengthTooLarge")
        ELSE [ok |-> TRUE, footer |-> [start |-> end - len, end |-> end]]

\* What becomes of somebody who takes bytes start..end of a file for its end, knowing its true
\* size: what comes before them can be fetched, and what comes after cannot.
LookingAt(k, start, end) ==
    LET bytes == Content[k]
        at    == Locate(SubSeq(bytes, end - 7, end), Len(bytes))
    IN  IF end - start < TRAILER_LEN THEN Failed("TooShort")
        ELSE IF ~at.ok THEN at
        ELSE IF at.footer.end > end THEN Failed("panic")
        ELSE Opened(at.footer, SubSeq(bytes, at.footer.start + 1, at.footer.end))

\* The outcome of looking at the whole file.
WholeFile(k) ==
    IF k \notin DOMAIN Content THEN Failed("NotFound") ELSE LookingAt(k, 0, Len(Content[k]))

\* A caller that says it knows the size, and does not.
Misled(k, o) == /\ o.size.from = "Known"
                /\ k \in DOMAIN Content
                /\ o.size.size # Len(Content[k])

\* The bytes that a reader going by a size of `told` takes for the end of the file.
Taken(k, told, prefetch) ==
    LET want == IF prefetch > TRAILER_LEN THEN prefetch ELSE TRAILER_LEN
        size == Len(Content[k])
    IN  [start |-> IF told > want THEN told - want ELSE 0, end |-> IF told < size THEN told ELSE size]

\* A size that is too large costs nothing but bytes as long as the trailer is among those asked
\* for.  One that is too small has the trailer read from the wrong place.  An empty object has
\* no byte to ask for: a store refuses the bounded range, and serves the suffix, which is too
\* short.
Verdict(k, o) ==
    IF Misled(k, o)
    THEN LET taken == Taken(k, o.size.size, o.prefetch)
         IN  IF taken.start >= taken.end THEN Failed("RangeNotSatisfiable")
             ELSE LookingAt(k, taken.start, taken.end)
    ELSE IF k \in DOMAIN Content /\ Content[k] = <<>> /\ o.size.from # "SuffixRange"
    THEN Failed("RangeNotSatisfiable")
    ELSE WholeFile(k)

VARIABLES key, options, outcome

Pending == [ok |-> FALSE, why |-> "Pending"]

Init == outcome = Pending

Open == /\ outcome = Pending
        /\ outcome' = Verdict(key, options)
        /\ UNCHANGED <<key, options>>

vars == <<key, options, outcome>>
Spec == Init /\ [][Open]_vars /\ WF_vars(Open)
=============================================================================
