---------------------------- MODULE MCReadFooter ----------------------------
(***************************************************************************)
(* Files from nothing to 40 bytes.  Good ones have footers of 1 to 6 bytes *)
(* and data that may itself look like a trailer; the others are too short, *)
(* encrypted, mis-marked, or lie about their footer's length.  Two have    *)
(* bytes that look like a trailer within eight of their end: what follows  *)
(* a good file, and the end of a footer.                                   *)
(***************************************************************************)
EXTENDS ReadFooter

PAR1 == <<80, 65, 82, 49>>
PARE == <<80, 65, 82, 69>>
LE(n) == <<n, 0, 0, 0>>
FooterBytes(n) == [i \in 1 .. n |-> IF i = n THEN 0 ELSE 20 + i]
File(data, n) == PAR1 \o data \o FooterBytes(n) \o LE(n) \o PAR1

\* Data that ends in the trailer of another file: an 11-byte footer, or none.
Embedded(n) == <<7, 7>> \o LE(n) \o PAR1

MCContent ==
    [k \in {"empty", "short", "eleven", "least", "plain", "embedded", "nested",
            "encrypted", "foreign", "liar", "appended", "doubled"} |->
        CASE k = "empty"     -> <<>>
          [] k = "short"     -> PAR1
          [] k = "eleven"    -> <<65, 82, 49>> \o LE(0) \o PAR1
          [] k = "least"     -> File(<<>>, 0)
          [] k = "plain"     -> File(<<1, 2, 3>>, 6)
          [] k = "embedded"  -> File(Embedded(11), 5)
          [] k = "nested"    -> File(Embedded(0) \o Embedded(9), 4)
          [] k = "encrypted" -> PAR1 \o <<1, 2>> \o LE(1) \o PARE
          [] k = "foreign"   -> <<1, 2, 3, 4, 5, 6, 7, 8, 9, 10, 11, 12, 13>>
          [] k = "liar"      -> PAR1 \o <<1, 2>> \o LE(3) \o PAR1
          [] k = "appended"  -> File(<<1, 2, 3>>, 6) \o <<4, 5>>
          [] k = "doubled"   -> PAR1 \o <<1, 2, 3, 21, 22>> \o LE(3) \o PAR1 \o LE(10) \o PAR1]
MCObjectSize == [k \in DOMAIN MCContent |-> Len(MCContent[k])]
MCKeys == DOMAIN MCContent \cup {"absent"}
MCRanges == {}
MCPrefetch == {0, 8, 9, 12, 14, 17, 64}
MCDrift == -30 .. 20
=============================================================================
