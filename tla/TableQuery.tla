------------------------------ MODULE TableQuery ------------------------------
(***************************************************************************)
(* crates/parquet-lab/src/table.rs, query: a table of many files is found  *)
(* (by listing its directory or by reading its log), the files that cannot *)
(* hold an answer are ruled out, the rest are fetched, and engine.rs       *)
(* answers the query from them: scan, filter, aggregate or project, sort,  *)
(* limit.                                                                  *)
(*                                                                         *)
(* A value, number or text, is its place in its column's order.  avg (a    *)
(* floating-point quotient), the stages' samples and the wording of errors *)
(* are left out.                                                           *)
(***************************************************************************)
EXTENDS TracingStore, Sql, Filtering, FiniteSetsExt

CONSTANTS
    Tables,            \* prefix -> the keys a LIST finds, in order, and the log's key and lines
    Contents,          \* key of a data file -> its partition, column order and row groups
    Schema,            \* the columns of every data file, in order
    PartitionColumns,  \* the columns that are in paths alone, in order of name
    Kind,              \* column -> "number" or "text"
    Queries            \* the queries: [sql, asks], its tokens and <<what they ask>>, or <<>> for no query

VARIABLES
    pc,
    table,      \* query's arguments
    asked,
    query,      \* what parse made of it
    discovery,
    files,      \* what is known of the table's files, and the plan: which are read
    columns,    \* the table's columns, when a log gave them
    fetched,    \* the files read so far
    names,      \* the columns of the rows scanned
    rows,       \* the rows between two stages of the engine
    answers     \* discovery -> the answer, of the calls made so far

readerVars == <<pc, table, asked, query, discovery, files, columns, fetched, names, rows, answers>>
vars == <<storeVars, readerVars>>

Columns == Range(Schema) \cup Range(PartitionColumns)
Plain == {"column", "star"}

Init ==
    /\ StoreInit
    /\ table \in DOMAIN Tables
    /\ asked \in Queries
    /\ query = <<>>
    /\ discovery = "List"
    /\ pc = "parse"
    /\ files = <<>> /\ columns = <<>> /\ fetched = <<>>
    /\ names = <<>> /\ rows = <<>>
    /\ answers = <<>>

(***************************************************************************)
(* Finding the files                                                       *)
(***************************************************************************)
TableFile(key, partition, stats) ==
    [key |-> key, partition |-> partition, stats |-> stats, read |-> TRUE]

NoStats == [recorded |-> FALSE]

\* What a LIST says of the table's files: keys, and the partition values in them.
Listed(t) ==
    [i \in DOMAIN Tables[t].listing |->
        TableFile(Tables[t].listing[i], Contents[Tables[t].listing[i]].partition, NoStats)]

\* read_log, one line: `remove` undoes an `add`.
LogAction(state, action) ==
    CASE action.kind = "metaData" -> [state EXCEPT !.columns = action.columns]
      [] action.kind = "remove"   ->
            [state EXCEPT !.files = Keeping(@, {f \in Range(@) : f.key # action.path})]
      [] action.kind = "add"      ->
            [state EXCEPT !.files = Append(@, TableFile(action.path, action.partition, action.stats))]

ReadLog(log) ==
    LET read[n \in 0 .. Len(log)] ==
            IF n = 0 THEN [files |-> <<>>, columns |-> <<>>] ELSE LogAction(read[n - 1], log[n])
    IN  read[Len(log)]

\* A call returns: with rows, or with an error.
Return(ok, out) ==
    /\ pc' = "done"
    /\ answers' = [d \in DOMAIN answers \cup {discovery} |->
                      IF d # discovery THEN answers[d]
                      ELSE [ok |-> ok, rows |-> out,
                            read |-> Cardinality({i \in DOMAIN files' : files'[i].read})]]
Fail == Return(FALSE, <<>>) /\ UNCHANGED <<names, rows>>

ParseQuery ==
    /\ pc = "parse"
    /\ UNCHANGED files
    /\ LET parsed == Parse(asked.sql)
       IN  IF parsed.ok THEN query' = parsed.v /\ pc' = "discover" /\ UNCHANGED <<names, rows, answers>>
           ELSE UNCHANGED query /\ Fail
    /\ UNCHANGED <<storeVars, table, asked, discovery, columns, fetched>>

ListFiles ==
    /\ pc = "discover"
    /\ discovery \in {"List", "ListAndPrune"}
    /\ List(table)
    /\ files' = Listed(table)
    /\ pc' = "rule out"
    /\ UNCHANGED <<table, asked, query, discovery, columns, fetched, names, rows, answers>>

GetLog ==
    /\ pc = "discover"
    /\ discovery = "Log"
    /\ Get(Tables[table].log_key, All)
    /\ IF MemoryGet(Tables[table].log_key, All).status = 206
       THEN /\ files' = ReadLog(Tables[table].log).files
            /\ columns' = ReadLog(Tables[table].log).columns
            /\ pc' = "rule out"
            /\ UNCHANGED <<names, rows, answers>>
       ELSE UNCHANGED <<files, columns>> /\ Fail
    /\ UNCHANGED <<table, asked, query, discovery, fetched>>

(***************************************************************************)
(* What a writer's metadata must be for an answer to be one of the rows:   *)
(* the statistics, where there are any, are those of the rows, paths and   *)
(* log agree about partitions, and no file is in a table twice.            *)
(***************************************************************************)
\* The rows of a data file: the row group, and the place in it.
RowIds(file) == UNION {{g} \X DOMAIN file.groups[g].rows : g \in DOMAIN file.groups}
ValueAt(file, id, c) == file.groups[id[1]].rows[id[2]][c]

TruthfulGroup(file, group) ==
    /\ group.rows \in Seq([Range(Schema) -> Int])
    /\ \A c \in Range(Schema) :
          LET chunk == group.columns[c]
          IN  /\ chunk.num_values = Len(group.rows)
              /\ chunk.stats.kind # "none" =>
                    /\ Counted(chunk.stats.nulls, {i \in DOMAIN group.rows : group.rows[i][c] = Null})
                    /\ Bound(Bounds(file, chunk.stats), {group.rows[i][c] : i \in DOMAIN group.rows})

TruthfulStats(file, s) ==
    s.recorded =>
        /\ s.records = Cardinality(RowIds(file))
        /\ \A c \in DOMAIN s.nulls \cap Range(Schema) :
              s.nulls[c] = Cardinality({id \in RowIds(file) : ValueAt(file, id, c) = Null})
        /\ \A c \in DOMAIN s.min \cap DOMAIN s.max \cap Range(Schema) :
              /\ {s.min[c], s.max[c]} \subseteq DOMAIN Place
              /\ Bound([usable |-> TRUE, min |-> s.min[c], max |-> s.max[c]],
                       {ValueAt(file, id, c) : id \in RowIds(file)})

TruthfulFile(file) ==
    /\ file.partition \in [Range(PartitionColumns) -> Int \ {Null}]
    /\ file.groups \in Seq(Range(file.groups))
    /\ \A g \in DOMAIN file.groups : TruthfulGroup(file, file.groups[g])

TruthfulAction(action) ==
    /\ action.kind \in {"metaData", "remove", "add"}
    /\ action.kind = "metaData" => Range(action.columns) = Columns
    /\ action.kind = "add" =>
          /\ action.path \in DOMAIN ObjectSize => action.path \in DOMAIN Contents
          /\ action.path \in DOMAIN Contents =>
                /\ action.partition = Contents[action.path].partition
                /\ TruthfulStats(Contents[action.path], action.stats)

TruthfulTable(t) ==
    /\ t.listing \in Seq(DOMAIN Contents) /\ IsInjective(t.listing)
    /\ t.log \in Seq(Range(t.log)) /\ \A i \in DOMAIN t.log : TruthfulAction(t.log[i])
    /\ LET logged == ReadLog(t.log).files IN IsInjective([i \in DOMAIN logged |-> logged[i].key])

ASSUME TablesAreTruthful ==
    /\ \A v \in DOMAIN Place : Place[v] \in Int
    /\ Schema \in Seq(Range(Schema)) /\ PartitionColumns \in Seq(Range(PartitionColumns))
    /\ Range(Schema) \cap Range(PartitionColumns) = {}
    /\ \A key \in DOMAIN Contents : TruthfulFile(Contents[key])
    /\ \A t \in DOMAIN Tables : TruthfulTable(Tables[t])

\* A query is a sequence of tokens: a number token is a number, and `*` is a symbol, not a word.
ASSUME QueriesAreTokens ==
    \A q \in Queries :
        /\ q.sql \in Seq(Range(q.sql))
        /\ \A i \in DOMAIN q.sql : /\ q.sql[i].kind = "number" => q.sql[i].value \in Int
                                   /\ q.sql[i].kind = "word" => q.sql[i].text # "*"

(***************************************************************************)
(* Ruling files out                                                        *)
(***************************************************************************)
PartitionRulesOut(f, c) ==
    CASE c.op = "is null"     -> TRUE
      [] c.op = "is not null" -> FALSE
      [] OTHER                -> ~OpMatches(c.op, Compare(f.partition[c.column], c.value))

\* Faulty variant: a number is compared with text, which Value::order puts after it.
StatsRuleOutAcrossKinds(s, c) ==
    /\ c.column \in DOMAIN s.nulls
    /\ CASE c.op = "is null"     -> s.nulls[c.column] = 0
         [] c.op = "is not null" -> s.nulls[c.column] = s.records
         [] OTHER ->
              /\ c.column \in DOMAIN s.min
              /\ LET Order(v) == IF c.reads = Kind[c.column] THEN Compare(c.value, v)
                                 ELSE IF c.reads = "number" THEN "less" ELSE "greater"
                 IN  RuledOut(c.op, Order(s.min[c.column]), Order(s.max[c.column]))

\* The statistics of a log are JSON: a literal that reads as a number proves nothing of text.
StatsRuleOut(s, c) ==
    CASE c.op = "is null"     -> c.column \in DOMAIN s.nulls /\ s.nulls[c.column] = 0
      [] c.op = "is not null" -> c.column \in DOMAIN s.nulls /\ s.nulls[c.column] = s.records
      [] OTHER ->
           /\ c.column \in DOMAIN s.min \cap DOMAIN s.max
           /\ c.reads = Kind[c.column]
           /\ RuledOut(c.op, Compare(c.value, s.min[c.column]), Compare(c.value, s.max[c.column]))

\* Faulty variant: a log's statistics are consulted and its partition values are not.
RulesOutByOne(f, c, useStats) ==
    IF useStats THEN f.stats.recorded /\ StatsRuleOut(f.stats, c)
    ELSE c.column \in DOMAIN f.partition /\ PartitionRulesOut(f, c)

\* rules_out: by its partition values, and if those say nothing by its statistics.
RulesOut(f, c, useStats) ==
    IF c.column \in DOMAIN f.partition THEN PartitionRulesOut(f, c)
    ELSE useStats /\ f.stats.recorded /\ StatsRuleOut(f.stats, c)

Survives(f, d) ==
    d # "List" => \A c \in query.conditions : ~RulesOut(f, c, d = "Log")

RuleOutFiles ==
    /\ pc = "rule out"
    /\ files' = [i \in DOMAIN files |-> [files[i] EXCEPT !.read = Survives(files[i], discovery)]]
    /\ NextPhase
    /\ pc' = "fetch"
    /\ UNCHANGED <<table, asked, query, discovery, columns, fetched, names, rows, answers>>

Kept == Keeping(files, {f \in Range(files) : f.read})

FetchNext ==
    /\ pc = "fetch"
    /\ Len(fetched) < Len(Kept)
    /\ LET f == Kept[Len(fetched) + 1]
       IN  /\ Get(f.key, All)
           /\ UNCHANGED files
           /\ IF MemoryGet(f.key, All).status = 206
              THEN fetched' = Append(fetched, f) /\ UNCHANGED <<pc, names, rows, answers>>
              ELSE UNCHANGED fetched /\ Fail
    /\ UNCHANGED <<table, asked, query, discovery, columns>>

(***************************************************************************)
(* The engine                                                              *)
(***************************************************************************)
HasStar == \E i \in DOMAIN query.items : query.items[i].agg = "star"
ItemColumns == {query.items[i].column : i \in DOMAIN query.items} \ {"*"}
Named == ItemColumns \cup {c.column : c \in query.conditions} \cup Range(query.group_by)

\* Predicate::new: a number column is compared with a number.
Parses(c) == c.op \notin Nullness /\ Kind[c.column] = "number" => c.reads = "number"

GroupSkipped(file, group) ==
    \E c \in query.conditions :
        c.column \in Range(Schema) /\ StatisticsSkip(file, group.columns[c.column], c)

Cell(source, row, c) ==
    IF c \in Range(Schema) THEN row[c]
    ELSE IF c \in DOMAIN source.partition THEN source.partition[c] ELSE Null

GroupRows(source, group) ==
    [i \in DOMAIN group.rows |-> [c \in Columns |-> Cell(source, group.rows[i], c)]]

SourceRows(source) ==
    LET file == Contents[source.key]
    IN  FlattenSeq([g \in DOMAIN file.groups |->
            IF GroupSkipped(file, file.groups[g]) THEN <<>> ELSE GroupRows(source, file.groups[g])])

\* run_sources: the columns the query names, found in the first file; then its scan.
ScanSources ==
    /\ pc = "fetch"
    /\ fetched # <<>> /\ Len(fetched) = Len(Kept)
    /\ LET known == Range(Schema) \cup DOMAIN fetched[1].partition
       IN  IF Named \subseteq known
              /\ \A c \in query.conditions : c.column \in Range(Schema) => Parses(c)
           THEN /\ names' = Keeping(Schema \o PartitionColumns, IF HasStar THEN known ELSE Named)
                /\ rows' = FlattenSeq([i \in DOMAIN fetched |-> SourceRows(fetched[i])])
                /\ pc' = "filter"
                /\ UNCHANGED <<files, answers>>
           ELSE UNCHANGED files /\ Fail
    /\ UNCHANGED <<storeVars, table, asked, query, discovery, columns, fetched>>

\* run_empty: no file is read.  Without a log the table's columns are not known, and those
\* the query names are taken for them.
ScanNothing ==
    /\ pc = "fetch"
    /\ Kept = <<>>
    /\ LET known == IF columns # <<>> THEN Range(columns) ELSE Named
       IN  IF ItemColumns \subseteq known
           THEN /\ names' = Keeping(Schema \o PartitionColumns,
                                    IF HasStar THEN known ELSE Named \cap known)
                /\ rows' = <<>>
                /\ pc' = "finish"
                /\ UNCHANGED <<files, answers>>
           ELSE UNCHANGED files /\ Fail
    /\ UNCHANGED <<storeVars, table, asked, query, discovery, columns, fetched>>

\* A condition on a file's column compares in the column's order, one on a partition column
\* compares the path's text.
Accepts(c, row) ==
    IF c.column \in Range(Schema) THEN RowMatches(c, row[c.column])
    ELSE IF row[c.column] = Null THEN c.op = "is null"
    ELSE c.op \notin Nullness /\ OpMatches(c.op, Compare(row[c.column], c.value))

Filter ==
    /\ pc = "filter"
    /\ rows' = Keeping(rows, {r \in Range(rows) : \A c \in query.conditions : Accepts(c, r)})
    /\ pc' = "finish"
    /\ UNCHANGED <<storeVars, table, asked, query, discovery, files, columns, fetched, names, answers>>

Aggregating ==
    query.group_by # <<>> \/ \E i \in DOMAIN query.items : query.items[i].agg \notin Plain

OutNames ==
    FlattenSeq([i \in DOMAIN query.items |->
        IF query.items[i].agg = "star" THEN [j \in DOMAIN names |-> Column(names[j])]
        ELSE <<query.items[i]>>])

KeyOf(r) == [i \in DOMAIN query.group_by |-> r[query.group_by[i]]]

\* The groups' keys in the order their first rows come; without GROUP BY there is one group.
GroupKeys(rs) ==
    LET keys[n \in 0 .. Len(rs)] ==
            IF n = 0 THEN <<>>
            ELSE LET before == keys[n - 1]
                 IN  IF KeyOf(rs[n]) \in Range(before) THEN before ELSE Append(before, KeyOf(rs[n]))
    IN  IF query.group_by = <<>> THEN << <<>> >> ELSE keys[Len(rs)]

\* Acc: an aggregate of a group's rows; all but count(*) skip nulls.
Aggregate(item, group) ==
    LET values == [i \in DOMAIN group |-> group[i][item.column]]
        cells  == IF item.column = "*" THEN group ELSE Keeping(values, Range(values) \ {Null})
    IN  CASE item.agg = "count" -> Len(cells)
          [] item.agg # "count" /\ cells = <<>> -> Null
          [] item.agg = "sum" /\ cells # <<>> -> SumFunction(cells)
          [] item.agg = "min" /\ cells # <<>> -> Min(Range(cells))
          [] item.agg = "max" /\ cells # <<>> -> Max(Range(cells))

GroupRow(rs, key) ==
    LET group == Keeping(rs, {r \in Range(rs) : KeyOf(r) = key})
    IN  [i \in DOMAIN query.items |->
            IF query.items[i].agg = "column" THEN group[1][query.items[i].column]
            ELSE Aggregate(query.items[i], group)]

Grouped(rs) == [k \in DOMAIN GroupKeys(rs) |-> GroupRow(rs, GroupKeys(rs)[k])]
Projected(rs, out) == [i \in DOMAIN rs |-> [j \in DOMAIN out |-> rs[i][out[j].column]]]

AggregateRows ==
    /\ pc = "finish"
    /\ Aggregating
    /\ UNCHANGED files
    /\ IF /\ Range(query.group_by) \subseteq Range(names)
          /\ ~HasStar
          /\ \A i \in DOMAIN query.items :
                query.items[i].agg = "column" => query.items[i].column \in Range(query.group_by)
       THEN /\ rows' = Grouped(rows)
            /\ pc' = "sort"
            /\ UNCHANGED <<names, answers>>
       ELSE Fail
    /\ UNCHANGED <<storeVars, table, asked, query, discovery, columns, fetched>>

Project ==
    /\ pc = "finish"
    /\ ~Aggregating
    /\ rows' = Projected(rows, OutNames)
    /\ pc' = "sort"
    /\ UNCHANGED <<storeVars, table, asked, query, discovery, files, columns, fetched, names, answers>>

\* Row a goes before row b: by the first of the keys in which they differ.  Nulls go first.
ComesBefore(a, b, keys, out) ==
    \E k \in DOMAIN keys :
        LET At(n) == SelectInSeq(out, LAMBDA name : name = keys[n].name)
        IN  /\ IF keys[k].desc THEN a[At(k)] > b[At(k)] ELSE a[At(k)] < b[At(k)]
            /\ \A j \in 1 .. k - 1 : a[At(j)] = b[At(j)]

\* sort_by is stable: rows that do not differ keep their order.
StablySorted(unsorted, out) ==
    LET Earlier(i) ==
            {j \in DOMAIN unsorted :
                \/ ComesBefore(unsorted[j], unsorted[i], query.order_by, out)
                \/ /\ j < i
                   /\ ~ComesBefore(unsorted[i], unsorted[j], query.order_by, out)}
        rank == [i \in DOMAIN unsorted |-> Cardinality(Earlier(i)) + 1]
    IN  [n \in DOMAIN unsorted |-> unsorted[CHOOSE i \in DOMAIN unsorted : rank[i] = n]]

Sort ==
    /\ pc = "sort"
    /\ UNCHANGED files
    /\ IF \A k \in DOMAIN query.order_by : query.order_by[k].name \in Range(OutNames)
       THEN /\ rows' = StablySorted(rows, OutNames)
            /\ pc' = "limit"
            /\ UNCHANGED <<names, answers>>
       ELSE Fail
    /\ UNCHANGED <<storeVars, table, asked, query, discovery, columns, fetched>>

Limited(rs) == IF query.limit = NoLimit \/ query.limit > Len(rs) THEN rs ELSE SubSeq(rs, 1, query.limit)

Limit ==
    /\ pc = "limit"
    /\ UNCHANGED files
    /\ Return(TRUE, Limited(rows))
    /\ UNCHANGED <<storeVars, table, asked, query, discovery, columns, fetched, names, rows>>

\* The same query again, over a store of its own, with the next way of finding the files.
AskAgain ==
    /\ pc = "done"
    /\ discovery # "Log"
    /\ discovery' = IF discovery = "List" THEN "ListAndPrune" ELSE "Log"
    /\ pc' = "parse"
    /\ files' = <<>> /\ columns' = <<>> /\ fetched' = <<>>
    /\ names' = <<>> /\ rows' = <<>>
    /\ free_at' = [c \in Conns |-> 0] /\ phase_start' = 0 /\ phase' = 0 /\ requests' = <<>>
    /\ UNCHANGED <<table, asked, query, answers>>

Next ==
    \/ ParseQuery \/ ListFiles \/ GetLog
    \/ RuleOutFiles \/ FetchNext
    \/ ScanSources \/ ScanNothing \/ Filter
    \/ AggregateRows \/ Project \/ Sort \/ Limit
    \/ AskAgain

Spec == Init /\ [][Next]_vars

(***************************************************************************)
(* Properties                                                              *)
(***************************************************************************)

(***************************************************************************)
(* What the query language says of the rows of the files the table has.    *)
(***************************************************************************)
TableFiles == IF discovery = "Log" THEN Range(ReadLog(Tables[table].log).files)
              ELSE Range(Listed(table))

\* Every object that finding and reading the table takes is in the store.
Complete ==
    /\ discovery = "Log" => Tables[table].log_key \in DOMAIN ObjectSize
    /\ \A f \in TableFiles : f.key \in DOMAIN ObjectSize

ResultNames ==
    FlattenSeq([i \in DOMAIN query.items |->
        IF query.items[i].agg # "star" THEN <<query.items[i]>>
        ELSE [j \in DOMAIN (Schema \o PartitionColumns) |-> Column((Schema \o PartitionColumns)[j])]])

Valid ==
    /\ Named \subseteq Columns
    /\ \A c \in query.conditions : c.column \in Range(Schema) => Parses(c)
    /\ Aggregating => /\ ~HasStar
                      /\ \A i \in DOMAIN query.items :
                            query.items[i].agg = "column" =>
                                query.items[i].column \in Range(query.group_by)
    /\ \A k \in DOMAIN query.order_by : query.order_by[k].name \in Range(ResultNames)

RowOf(id) == [c \in Columns |->
                 IF c \in Range(Schema) THEN Contents[id[1]].groups[id[2]].rows[id[3]][c]
                 ELSE Contents[id[1]].partition[c]]

Matching ==
    {id \in UNION {UNION {{<<f.key, g, i>> : i \in DOMAIN Contents[f.key].groups[g].rows} :
                          g \in DOMAIN Contents[f.key].groups} : f \in TableFiles} :
        \A c \in query.conditions : RowMatches(c, RowOf(id)[c.column])}

\* An aggregate over a set of rows.
Summary(item, ids) ==
    LET some   == {id \in ids : item.column = "*" \/ RowOf(id)[item.column] # Null}
        Of(id) == RowOf(id)[item.column]
    IN  CASE item.agg = "count" -> Cardinality(some)
          [] item.agg # "count" /\ some = {} -> Null
          [] item.agg = "sum" /\ some # {} -> SumFunction([id \in some |-> Of(id)])
          [] item.agg = "min" /\ some # {} -> Min({Of(id) : id \in some})
          [] item.agg = "max" /\ some # {} -> Max({Of(id) : id \in some})

\* The rows of the result before LIMIT, each under what it stands for: a row, or a group.
Results ==
    IF ~Aggregating
    THEN [id \in Matching |-> [j \in DOMAIN ResultNames |-> RowOf(id)[ResultNames[j].column]]]
    ELSE LET KeyOfId(id) == KeyOf(RowOf(id))
         IN  [k \in {KeyOfId(id) : id \in Matching} \cup
                    (IF query.group_by = <<>> THEN {<<>>} ELSE {}) |->
                 LET ids == {id \in Matching : KeyOfId(id) = k}
                 IN  [j \in DOMAIN ResultNames |->
                         IF ResultNames[j].agg # "column" THEN Summary(ResultNames[j], ids)
                         ELSE RowOf(CHOOSE id \in ids : TRUE)[ResultNames[j].column]]]

\* The rows are the result's: as many, in order, and with a limit none that comes after one
\* left out.
Exactly(out, results) ==
    LET Given(r) == Cardinality({i \in DOMAIN out : out[i] = r})
        Due(r)   == Cardinality({u \in DOMAIN results : results[u] = r})
        Before(a, b) == ComesBefore(a, b, query.order_by, ResultNames)
        all == Cardinality(DOMAIN results)
    IN  /\ Len(out) = IF query.limit = NoLimit \/ query.limit > all THEN all ELSE query.limit
        /\ \A i \in DOMAIN out : Given(out[i]) <= Due(out[i])
        /\ \A i, j \in DOMAIN out : i < j => ~Before(out[j], out[i])
        /\ \A u \in DOMAIN results :
              Given(results[u]) < Due(results[u]) =>
                  \A i \in DOMAIN out : ~Before(results[u], out[i])

\* "Filter keeps the rows every condition accepts" (engine.rs): a valid query over a table
\* whose objects are all there is answered, and with exactly the rows, groups, order and
\* limit it asks for, whatever files and row groups were ruled out on the way; and what is no
\* query of the language is refused.
AnswerIsExact ==
    pc = "done" =>
        IF asked.asks = <<>> THEN ~answers[discovery].ok
        ELSE /\ query = asked.asks[1]
             /\ (Valid /\ Complete) =>
                    answers[discovery].ok /\ Exactly(answers[discovery].rows, Results)

\* "The table answers as pyarrow does however its files are found", and "each way of finding
\* files reads no more than the one before it": where the log lists the files a listing finds,
\* the three ways give the same rows in the same order, or all fail.
InSync ==
    LET logged == ReadLog(Tables[table].log).files
    IN  /\ Tables[table].log_key \in DOMAIN ObjectSize
        /\ [i \in DOMAIN logged |-> logged[i].key] = Tables[table].listing

DiscoveryOnlyChangesCost ==
    InSync /\ query # <<>> /\ Valid /\ Complete =>
        /\ \A d, e \in DOMAIN answers :
              answers[d].ok = answers[e].ok /\ answers[d].rows = answers[e].rows
        /\ "ListAndPrune" \in DOMAIN answers => answers["ListAndPrune"].read <= answers["List"].read
        /\ "Log" \in DOMAIN answers => answers["Log"].read <= answers["ListAndPrune"].read
=============================================================================
