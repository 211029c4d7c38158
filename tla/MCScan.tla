------------------------------- MODULE MCScan -------------------------------
(***************************************************************************)
(* Three files of two columns, laid out byte by byte: a page is two bytes, *)
(* a dictionary page, an index or a Bloom filter one, the footer and its   *)
(* trailer ten.  A writer's statistics are computed as stats.rs, min_max,  *)
(* computes them.                                                          *)
(***************************************************************************)
EXTENDS Scan, SequencesExt

\* Comparator::min_max: the first of the smallest and of the largest values placed.
MinMax(values) ==
    LET placed == SelectSeq(values, LAMBDA v : v \in DOMAIN Place)
        Best(Better(_, _)) ==
            CHOOSE v \in ToSet(placed) : \E i \in DOMAIN placed : placed[i] = v /\
                \A j \in DOMAIN placed : ~Better(placed[j], v) /\ (j < i => Better(v, placed[j]))
    IN  IF placed = <<>> THEN [min |-> Null, max |-> Null]
        ELSE [min |-> Best(LAMBDA x, y : Place[x] < Place[y]),
              max |-> Best(LAMBDA x, y : Place[x] > Place[y])]

Nulls(values) == Len(SelectSeq(values, LAMBDA v : v = Null))

\* A chunk at offset `at`; `as` says what its writer recorded of it.
ChunkAt(at, pages, as) ==
    LET values == FlattenSeq(pages)
        first  == at + as.dict
    IN  [range        |-> SpanOf(at, first + 2 * Len(pages)),
         dictionary   |-> as.dict = 1,
         num_values   |-> Len(values),
         pages        |-> [i \in DOMAIN pages |->
                              [span   |-> SpanOf(first + 2 * i - 2, first + 2 * i),
                               first  |-> Len(FlattenSeq(SubSeq(pages, 1, i - 1))),
                               values |-> pages[i]]],
         stats        |-> [kind |-> as.stats, nulls |-> IF as.nulls THEN Nulls(values) ELSE NotRecorded,
                           min |-> MinMax(values).min, max |-> MinMax(values).max],
         bloom        |-> [kind  |-> as.bloom,
                           span  |-> IF as.bloom = "none" THEN Absent
                                     ELSE SpanOf(as.bloomAt, as.bloomAt + 1),
                           holds |-> (ToSet(values) \ {Null}) \cup as.collides],
         column_index |-> [span  |-> IF as.ci = 0 THEN Absent ELSE SpanOf(as.ci, as.ci + 1),
                           pages |-> [i \in DOMAIN pages |->
                               [null_page |-> ToSet(pages[i]) = {Null},
                                nulls     |-> IF as.nulls THEN Nulls(pages[i]) ELSE NotRecorded,
                                min       |-> MinMax(pages[i]).min,
                                max       |-> MinMax(pages[i]).max]]],
         offset_index |-> IF as.oi = 0 THEN Absent ELSE SpanOf(as.oi, as.oi + 1)]

Bare == [dict |-> 0, stats |-> "none", nulls |-> FALSE, bloom |-> "none", bloomAt |-> 0,
         collides |-> {}, ci |-> 0, oi |-> 0]
Group(n, a, b) == [num_rows |-> n, columns |-> [c \in {"a", "b"} |-> IF c = "a" THEN a ELSE b]]

\* Everything recorded.  Bloom filters follow their row groups; indexes come before the
\* footer.  Row groups at 4, 15 and 26.
Rich(dict, ci, oi) == [Bare EXCEPT !.dict = dict, !.stats = "min_value", !.nulls = TRUE, !.ci = ci, !.oi = oi]
WithBloom(as, at, collides) == [as EXCEPT !.bloom = "span", !.bloomAt = at, !.collides = collides]

Indexed(a1, a2, a3) ==
    [size |-> 54, footer |-> 44, type_order |-> TRUE, groups |->
        <<Group(3, ChunkAt(4, a1, WithBloom(Rich(1, 35, 38), 14, {3})),
                   ChunkAt(9, <<<<4>>, <<5, 6>>>>, Rich(1, 0, 39))),
          Group(2, ChunkAt(15, a2, WithBloom(Rich(0, 36, 40), 25, {})),
                   ChunkAt(19, <<<<7, Null>>>>, Rich(0, 0, 41))),
          Group(3, ChunkAt(26, a3, WithBloom(Rich(0, 37, 42), 34, {})),
                   ChunkAt(30, <<<<8, 9>>, <<4>>>>, Rich(0, 0, 43)))>>]

\* Little recorded, or not to be trusted: no column order; one deprecated statistic, one
\* Bloom filter without a length, one offset index without a column index.
Sparse ==
    [size |-> 30, footer |-> 20, type_order |-> FALSE, groups |->
        <<Group(2, ChunkAt(4, <<<<1>>, <<Null>>>>, [Bare EXCEPT !.stats = "min", !.oi = 17]),
                   ChunkAt(8, <<<<5, 4>>>>, Bare)),
          Group(2, ChunkAt(10, <<<<2, 2>>>>, [Bare EXCEPT !.dict = 1, !.stats = "min_value", !.nulls = TRUE,
                                                          !.bloom = "noLength", !.bloomAt = 18]),
                   ChunkAt(13, <<<<6>>, <<7>>>>, [Bare EXCEPT !.oi = 19]))>>]

Reals == [v \in 0 .. 9 |-> v]

\* Sorted by a, with nulls.
Indexed1 == Indexed(<<<<0, 1>>, <<1>>>>, <<<<2>>, <<Null>>>>, <<<<3>>, <<Null, 0>>>>)
\* The data of the first and the last row group is kept, and the Bloom filters rule out the
\* one between them.
Between == Indexed(<<<<1, 3>>, <<1>>>>, <<<<0>>, <<3>>>>, <<<<1>>, <<3, 1>>>>)
MCFiles == [k \in {"indexed", "between", "sparse"} |->
               CASE k = "indexed" -> Indexed1 [] k = "between" -> Between [] k = "sparse" -> Sparse]
MCObjectSize == [k \in DOMAIN Files |-> Files[k].size]
MCKeys == DOMAIN Files
MCRanges == {}

Mechanisms == [statistics : BOOLEAN, bloom : BOOLEAN, page_index : BOOLEAN]
Strategy(m, p, g, w) == [statistics |-> m.statistics, bloom |-> m.bloom, page_index |-> m.page_index,
                         prefetch |-> p, coalesce_gap |-> g, whole_chunks |-> w]
MCStrategies ==
    {Strategy(m, p, g, FALSE) : m \in Mechanisms, p \in {8, 14, 40}, g \in {-1, 0, 3, 20}} \cup
    {Strategy(m, 8, 0, TRUE) : m \in Mechanisms}

Query(cs, op, v) == [columns |-> cs, column |-> "a", op |-> op, value |-> v]
Conditions == ({"=", "!=", "<", "<=", ">", ">="} \X (0 .. 3)) \cup {<<"is null", Null>>, <<"is not null", Null>>}
MCQueries == {Query({"b"}, c[1], c[2]) : c \in Conditions} \cup
             {Query({"a"}, "=", 1), Query({"a", "b"}, "is null", Null), Query({"a", "b"}, "all", Null)}

\* A column of floats: 0 stands for 0.0 and 9 for -0.0.
Floats == [v \in 0 .. 9 |-> IF v = 9 THEN 0 ELSE v]
ZeroFiles == [k \in {"zeros"} |-> Indexed(<<<<9, 1>>, <<1>>>>, <<<<2>>, <<0>>>>, <<<<3>>, <<1, 9>>>>)]
ZeroStrategies == {Strategy(m, 8, 0, FALSE) : m \in Mechanisms}
ZeroQueries == {Query({"b"}, "=", v) : v \in {0, 1, 9}}

\* These files and queries are what ScanProofs assumes; ZeroFiles too, whose scans go wrong all
\* the same, as two values have one place.
ASSUME FilesAreTruthful == TruthfulFiles /\ FilesInObjects /\ GroupsApart /\ QueriesOfFiles
=============================================================================
