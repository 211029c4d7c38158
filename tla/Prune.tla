------------------------------- MODULE Prune --------------------------------
(***************************************************************************)
(* crates/parquet-lab/src/prune.rs: deciding, from metadata alone, what a  *)
(* query need not read, from row group statistics (stats.rs), the Bloom    *)
(* filter (bloom.rs) and the page index (page_index.rs).                   *)
(*                                                                         *)
(* A value stands for its PLAIN bytes; Place is the column's order, which  *)
(* may give two values one place (-0.0 and 0.0) and others none (NaN).  A  *)
(* Bloom filter is the set of values it cannot rule out.                   *)
(***************************************************************************)
EXTENDS Integers, Sequences, FiniteSets

CONSTANTS
    Place,        \* value -> its place in the column's order, for those that have one
    SignedOrder   \* whether that order is one the deprecated min and max were right for

Null == -1
NotRecorded == -1
Absent == [start |-> 0, end |-> 0]     \* Option<Span>::None; no index starts a file

Offsets(s) == s.start .. s.end - 1
Holds(held, s) == Offsets(s) \subseteq held

\* Comparator::compare
Compare(x, y) ==
    IF x \notin DOMAIN Place \/ y \notin DOMAIN Place THEN "none"
    ELSE IF Place[x] < Place[y] THEN "less"
    ELSE IF Place[x] = Place[y] THEN "equal" ELSE "greater"

\* enum Op
Ops == {"=", "!=", "<", "<=", ">", ">=", "is null", "is not null"}

\* Op::matches
OpMatches(op, ordering) ==
    CASE op = "="  -> ordering = "equal"
      [] op = "!=" -> ordering \in {"less", "greater"}
      [] op = "<"  -> ordering = "less"
      [] op = "<=" -> ordering \in {"less", "equal"}
      [] op = ">"  -> ordering = "greater"
      [] op = ">=" -> ordering \in {"greater", "equal"}

\* Predicate::row_matches
RowMatches(p, v) ==
    CASE p.op = "is null"     -> v = Null
      [] p.op = "is not null" -> v # Null
      [] OTHER                -> v # Null /\ OpMatches(p.op, Compare(v, p.value))

\* Faulty variant: a strict comparison is treated as the one that allows equality.
RuledOutLoosely(op, vsMin, vsMax) ==
    CASE op = "="  -> vsMin = "less" \/ vsMax = "greater"
      [] op = "!=" -> vsMin = "equal" /\ vsMax = "equal"
      [] op = "<"  -> vsMin # "greater"
      [] op = "<=" -> vsMin # "greater"
      [] op = ">"  -> vsMax # "less"
      [] op = ">=" -> vsMax = "greater"

\* Whether bounds leave no value for `op x`, from how x compares with each of them.
RuledOut(op, vsMin, vsMax) ==
    CASE op = "="  -> vsMin = "less" \/ vsMax = "greater"
      [] op = "!=" -> vsMin = "equal" /\ vsMax = "equal"
      [] op = "<"  -> vsMin # "greater"
      [] op = "<=" -> vsMin = "less"
      [] op = ">"  -> vsMax # "less"
      [] op = ">=" -> vsMax = "greater"

\* against_bounds: is "skip" certain, from bounds (when usable), a null count and a value
\* count?
AgainstBounds(p, bounds, nulls, count) ==
    LET allNull == nulls = count /\ count > 0
        vsMin   == Compare(p.value, bounds.min)
        vsMax   == Compare(p.value, bounds.max)
    IN  CASE p.op = "is null"     -> nulls = 0
          [] p.op = "is not null" -> allNull
          [] OTHER -> \/ allNull
                      \/ /\ bounds.usable
                         /\ vsMin # "none" /\ vsMax # "none"
                         /\ RuledOut(p.op, vsMin, vsMax)

\* stats.rs, bounds: what of a column chunk's statistics may be compared with.
Bounds(file, stats) ==
    [usable |-> /\ \/ stats.kind = "min_value" /\ file.type_order
                   \/ stats.kind = "min" /\ SignedOrder
                /\ stats.min \in DOMAIN Place /\ stats.max \in DOMAIN Place,
     min |-> stats.min, max |-> stats.max]

StatisticsSkip(file, chunk, p) ==
    /\ chunk.stats.kind # "none"
    /\ AgainstBounds(p, Bounds(file, chunk.stats), chunk.stats.nulls, chunk.num_values)

BloomSkip(chunk, p) == p.value \notin chunk.bloom.holds

\* The rows of a page, counting from 0 in its row group.
Rows(page) == page.first .. page.first + Len(page.values) - 1

\* What of a page's entry in the ColumnIndex may be compared with.
PageBounds(file, entry) ==
    [usable |-> /\ ~entry.null_page /\ file.type_order
                /\ entry.min \in DOMAIN Place /\ entry.max \in DOMAIN Place,
     min |-> entry.min, max |-> entry.max]

\* Page i's entry, against the condition.
PageSkip(file, chunk, i, p) ==
    LET entry == chunk.column_index.pages[i]
        count == Len(chunk.pages[i].values)
    IN  AgainstBounds(p, PageBounds(file, entry), IF entry.null_page THEN count ELSE entry.nulls, count)

\* Faulty variant: the dictionary page is forgotten.
ColumnReadPagesOnly(held, chunk, rows, useIndex) ==
    IF ~useIndex \/ chunk.offset_index = Absent \/ ~Holds(held, chunk.offset_index)
    THEN {chunk.range}
    ELSE {chunk.pages[i].span : i \in {i \in DOMAIN chunk.pages : Rows(chunk.pages[i]) \cap rows # {}}}

\* column_read: the spans of a chunk needed for `rows`: the dictionary page, if any page is
\* read, and the data pages that hold one of them.  Without an offset index, all of it.
ColumnRead(held, chunk, rows, useIndex) ==
    LET first  == chunk.pages[1].span.start
        wanted == {i \in DOMAIN chunk.pages : Rows(chunk.pages[i]) \cap rows # {}}
    IN  IF ~useIndex \/ chunk.offset_index = Absent \/ ~Holds(held, chunk.offset_index)
        THEN {chunk.range}
        ELSE {chunk.pages[i].span : i \in wanted} \cup
             IF wanted # {} /\ first > chunk.range.start
             THEN {[start |-> chunk.range.start, end |-> first]} ELSE {}

\* plan, for row group g: whether it is skipped, the rows kept, and the spans to read in
\* each touched column.  The plan fails if an index it consults is not among the bytes held.
GroupPlan(file, g, held, p, touched, use) ==
    LET group   == file.groups[g]
        chunk   == group.columns[p.column]
        byStats == use.statistics /\ StatisticsSkip(file, chunk, p)
        filter  == use.bloom /\ ~byStats /\ p.op = "=" /\ chunk.bloom.kind # "none"
        byBloom == filter /\ BloomSkip(chunk, p)
        pages   == use.page_index /\ ~byStats /\ ~byBloom
        indexed == pages /\ chunk.column_index.span # Absent /\ chunk.offset_index # Absent
        kept    == IF indexed
                   THEN UNION {Rows(chunk.pages[i]) :
                                  i \in {i \in DOMAIN chunk.pages : ~PageSkip(file, chunk, i, p)}}
                   ELSE 0 .. group.num_rows - 1
        skipped == byStats \/ byBloom \/ (indexed /\ kept = {})
    IN  [readable |-> /\ filter => Holds(held, chunk.bloom.span)
                      /\ pages => /\ Holds(held, chunk.column_index.span)
                                  /\ Holds(held, chunk.offset_index),
         skipped  |-> skipped,
         rows     |-> IF skipped THEN {} ELSE kept,
         reads    |-> IF skipped THEN {}
                      ELSE UNION {ColumnRead(held, group.columns[c], kept, pages) : c \in touched}]

-----------------------------------------------------------------------------
(* What a writer's metadata must be for a skip to be certain.               *)

\* Each value slot of a column chunk: the page, and the place in it.
Slots(chunk) == UNION {{i} \X DOMAIN chunk.pages[i].values : i \in DOMAIN chunk.pages}
SlotValue(chunk, s) == chunk.pages[s[1]].values[s[2]]

\* Bounds that may be compared with lie on either side of every value that has a place.
Bound(bounds, values) ==
    bounds.usable => \A v \in values \cap DOMAIN Place :
                         Place[bounds.min] <= Place[v] /\ Place[v] <= Place[bounds.max]

\* A count of nulls is not recorded, or right.
Counted(nulls, empty) == nulls \in {NotRecorded, Cardinality(empty)}

\* Of a page's entry in the column index, and of what a chunk records of its values.
HonestPage(file, entry, values) ==
    LET empty == {k \in DOMAIN values : values[k] = Null}
    IN  IF entry.null_page THEN empty = DOMAIN values
        ELSE /\ Counted(entry.nulls, empty)
             /\ Bound(PageBounds(file, entry), {values[k] : k \in DOMAIN values})

HonestChunk(file, chunk) ==
    /\ chunk.num_values = Cardinality(Slots(chunk))
    /\ chunk.stats.kind # "none" =>
          /\ Counted(chunk.stats.nulls, {s \in Slots(chunk) : SlotValue(chunk, s) = Null})
          /\ Bound(Bounds(file, chunk.stats), {SlotValue(chunk, s) : s \in Slots(chunk)})
    /\ chunk.bloom.kind # "none" =>
          \A s \in Slots(chunk) : SlotValue(chunk, s) # Null => SlotValue(chunk, s) \in chunk.bloom.holds
    /\ chunk.column_index.span # Absent =>
          \A i \in DOMAIN chunk.pages :
              HonestPage(file, chunk.column_index.pages[i], chunk.pages[i].values)

\* The dictionary page, if there is one, is what precedes the first data page.
Dictionary(chunk) == [start |-> chunk.range.start, end |-> chunk.pages[1].span.start]

\* Where a chunk's pages are: in its range, and with rows of its row group.
LaidOut(group, chunk) ==
    /\ chunk.range.start \in Nat /\ chunk.pages[1].span.start \in Nat
    /\ Offsets(Dictionary(chunk)) \subseteq Offsets(chunk.range)
    /\ \A i \in DOMAIN chunk.pages :
          /\ chunk.pages[i].first \in Nat
          /\ Rows(chunk.pages[i]) \subseteq 0 .. group.num_rows - 1
          /\ Offsets(chunk.pages[i].span) \subseteq Offsets(chunk.range)

\* Each row of the row group is in one page.
Tiled(group, chunk) ==
    \A row \in 0 .. group.num_rows - 1 :
        \E i \in DOMAIN chunk.pages : \A j \in DOMAIN chunk.pages : row \in Rows(chunk.pages[j]) <=> j = i

\* A chunk has finitely many pages, each a sequence of values.
Paged(chunk) ==
    /\ DOMAIN chunk.pages \subseteq Nat
    /\ IsFiniteSet(DOMAIN chunk.pages)
    /\ \A i \in DOMAIN chunk.pages :
          chunk.pages[i].values \in Seq({SlotValue(chunk, s) : s \in Slots(chunk)})
=============================================================================
