---------------------------- MODULE MCTableQuery ----------------------------
(***************************************************************************)
(* Four tables of orders, partitioned by country, and the queries asked    *)
(* of them.  "sync" has the log its writer made; "moved" has a log that    *)
(* removed one file, which is still in the store, and removed and added    *)
(* another; "lost" has a log of a file that is gone; "bare" has none.      *)
(***************************************************************************)
EXTENDS TableQuery

MCSchema == <<"id", "coupon">>
MCPartitionColumns == <<"country">>
MCKind == [c \in {"id", "coupon", "country", "nope"} |-> IF c = "id" THEN "number" ELSE "text"]
MCPlace == [v \in 0 .. 9 |-> v]

Order(id, coupon) == [id |-> id, coupon |-> coupon]

NonNull(rs, c) == {rs[i][c] : i \in DOMAIN rs} \ {Null}
Nulls(rs, c) == Cardinality({i \in DOMAIN rs : rs[i][c] = Null})

\* A row group with the statistics a writer gives it.
Group(rs) ==
    [rows |-> rs,
     columns |-> [c \in Range(MCSchema) |->
         [num_values |-> Len(rs),
          stats |-> IF NonNull(rs, c) = {}
                    THEN [kind |-> "min_value", min |-> Null, max |-> Null, nulls |-> Len(rs)]
                    ELSE [kind |-> "min_value", min |-> Min(NonNull(rs, c)),
                          max |-> Max(NonNull(rs, c)), nulls |-> Nulls(rs, c)]]]]

DataFile(country, groups) ==
    [partition |-> "country" :> country, type_order |-> TRUE,
     groups |-> [g \in DOMAIN groups |-> Group(groups[g])]]

MCContents ==
    "DE/0" :> DataFile(3, << <<Order(1, Null), Order(4, 5)>>, <<Order(6, 5)>> >>) @@
    "UK/0" :> DataFile(7, << <<Order(2, Null), Order(3, Null)>> >>) @@
    "UK/1" :> DataFile(7, << <<Order(5, 8), Order(8, 2)>> >>)

\* The statistics a log records for a file, over all its row groups.
AllRows(key) == FlattenSeq([g \in DOMAIN MCContents[key].groups |-> MCContents[key].groups[g].rows])
Bounded_(key) == {c \in Range(MCSchema) : NonNull(AllRows(key), c) # {}}
LogStats(key) ==
    [recorded |-> TRUE, records |-> Len(AllRows(key)),
     min |-> [c \in Bounded_(key) |-> Min(NonNull(AllRows(key), c))],
     max |-> [c \in Bounded_(key) |-> Max(NonNull(AllRows(key), c))],
     nulls |-> [c \in Range(MCSchema) |-> Nulls(AllRows(key), c)]]

Schema_ == [kind |-> "metaData", columns |-> MCSchema \o MCPartitionColumns]
Add(key) == [kind |-> "add", path |-> key, partition |-> MCContents[key].partition,
             stats |-> LogStats(key)]
AddBare(key) == [Add(key) EXCEPT !.stats = NoStats]
Remove_(key) == [kind |-> "remove", path |-> key]
AddLost == [kind |-> "add", path |-> "DE/9", partition |-> "country" :> 3, stats |-> NoStats]

MCTables ==
    LET stored == <<"DE/0", "UK/0", "UK/1">>
    IN  "sync"  :> [listing |-> stored, log_key |-> "log",
                    log |-> <<Schema_, Add("DE/0"), Add("UK/0"), Add("UK/1")>>] @@
        "moved" :> [listing |-> stored, log_key |-> "log",
                    log |-> <<Schema_, Add("UK/0"), Add("UK/1"), AddBare("DE/0"), Remove_("UK/0"),
                              Remove_("UK/1"), Add("UK/1")>>] @@
        "lost"  :> [listing |-> <<"DE/0">>, log_key |-> "log", log |-> <<Schema_, Add("DE/0"), AddLost>>] @@
        "bare"  :> [listing |-> <<"DE/0">>, log_key |-> "none", log |-> <<>>]

MCKeys == DOMAIN MCTables \cup DOMAIN MCContents \cup {"log", "none", "DE/9"}
MCObjectSize == [k \in DOMAIN MCContents \cup {"log"} |-> IF k = "log" THEN 2 ELSE 4]

(***************************************************************************)
(* Queries                                                                 *)
(***************************************************************************)
Agg(a, c) == [agg |-> a, column |-> c]
CountAll == Agg("count", "*")
Desc(item) == [name |-> item, desc |-> TRUE]
Asc(item) == [name |-> item, desc |-> FALSE]
Cond(c, op, v) == [column |-> c, op |-> op, value |-> v, reads |-> IF op \in Nullness THEN "text" ELSE MCKind[c]]
AsNumber(cond) == [cond EXCEPT !.reads = "number"]
AsText(cond) == [cond EXCEPT !.reads = "text"]
Select(items, conditions, group_by, order_by, limit) ==
    [items |-> items, conditions |-> conditions, group_by |-> group_by, order_by |-> order_by,
     limit |-> limit]

OneCondition ==
    {Cond("id", op, v) : op \in {"=", "!=", "<", "<=", ">", ">="}, v \in {1, 4, 9}} \cup
    {Cond("country", op, 7) : op \in {"=", "!=", "<", "<=", ">", ">="}} \cup
    {Cond("coupon", op, 5) : op \in {"=", "!="}} \cup
    {AsNumber(Cond("coupon", op, 5)) : op \in {"=", "<"}} \cup
    {Cond("coupon", op, Null) : op \in Nullness} \cup {Cond("country", "is null", Null)}

Projections == {Select(<<Star>>, {c}, <<>>, <<>>, NoLimit) : c \in OneCondition}
Summaries ==
    {Select(<<CountAll, Agg("count", "coupon"), Agg("sum", "id"), Agg("min", "coupon"),
              Agg("max", "id")>>, cs, <<>>, <<>>, NoLimit) :
        cs \in {{}, {Cond("country", "=", 7)}, {Cond("country", "=", 5)},
                {Cond("country", "=", 7), Cond("id", ">", 4)}, {AsText(Cond("id", "=", 1))}}}
Others ==
    {Select(<<Agg("column", "country"), CountAll>>, {}, <<"country">>,
            <<Desc(Agg("column", "country"))>>, 1),
     Select(<<Agg("column", "coupon"), Agg("max", "id")>>, {Cond("id", ">", 1)}, <<"coupon">>,
            <<Asc(Agg("column", "coupon"))>>, NoLimit),
     Select(<<Agg("column", "country"), Agg("column", "id")>>, {}, <<>>,
            <<Asc(Agg("column", "country")), Desc(Agg("column", "id"))>>, 4),
     Select(<<Agg("column", "coupon")>>, {}, <<>>, <<Desc(Agg("column", "coupon"))>>, 2),
     Select(<<Agg("column", "nope")>>, {Cond("country", "=", 5)}, <<>>, <<>>, NoLimit),
     Select(<<Agg("column", "id")>>, {}, <<>>, <<Asc(Agg("column", "country"))>>, NoLimit),
     Select(<<Agg("column", "id"), CountAll>>, {}, <<>>, <<>>, NoLimit)}
Queries_ == Projections \cup Summaries \cup Others

(***************************************************************************)
(* SQL, as it is written for a query: "<>" for "!=", ASC where nothing is  *)
(* said, and a number that is compared as text in quotes.                  *)
(***************************************************************************)
Commas(parts) == FlattenSeq([i \in DOMAIN parts |-> IF i = 1 THEN parts[i] ELSE <<Symbol(",")>> \o parts[i]])
Words(texts) == [i \in DOMAIN texts |-> <<Word(texts[i])>>]
ColumnWord(c) == IF c = "*" THEN Symbol("*") ELSE Word(c)
ItemSql(item) ==
    IF item.agg \in {"star", "column"} THEN <<ColumnWord(item.column)>>
    ELSE <<Word(item.agg), Symbol("("), ColumnWord(item.column), Symbol(")")>>
CondSql(c) ==
    <<Word(c.column)>> \o
    (CASE c.op = "is null"     -> <<Word("is"), Word("null")>>
       [] c.op = "is not null" -> <<Word("is"), Word("not"), Word("null")>>
       [] OTHER -> <<Symbol(IF c.op = "!=" THEN "<>" ELSE c.op),
                     Literal(IF MCKind[c.column] = c.reads THEN c.reads ELSE "text", c.value, c.reads)>>)
KeySql(key) == <<Word(key.name.column), Word(IF key.desc THEN "desc" ELSE "asc")>>
After(keywords, parts, sql) == IF parts = <<>> THEN <<>> ELSE keywords \o sql
SqlOf(q) ==
    LET conditions == SetToSeq(q.conditions)
    IN  <<Word("select")>> \o Commas([i \in DOMAIN q.items |-> ItemSql(q.items[i])]) \o
        <<Word("from"), Word("orders")>> \o
        FlattenSeq([i \in DOMAIN conditions |->
                       <<Word(IF i = 1 THEN "where" ELSE "and")>> \o CondSql(conditions[i])]) \o
        After(<<Word("group"), Word("by")>>, q.group_by, Commas(Words(q.group_by))) \o
        After(<<Word("order"), Word("by")>>, q.order_by, Commas([i \in DOMAIN q.order_by |-> KeySql(q.order_by[i])])) \o
        (IF q.limit = NoLimit THEN <<>> ELSE <<Word("limit"), Literal("number", q.limit, "number")>>)

\* Each of a query's clauses with a word lost or one too many; and an aggregate where only a
\* column may be.
Whole == Select(<<Agg("column", "country"), CountAll>>, {Cond("id", ">", 1), Cond("coupon", "is not null", Null)},
                <<"country">>, <<Desc(Agg("column", "country"))>>, 1)
NoSql ==
    LET sql == SqlOf(Whole)
        words == <<Word("select"), Word("id"), Word("from"), Word("orders")>>
    IN  {RemoveAt(sql, i) : i \in {i \in DOMAIN sql : sql[i] # Word("desc") /\ sql[i] # Word("not")}} \cup
        {words \o <<Word("order"), Word("by"), Word("count"), Symbol("("), Symbol("*"), Symbol(")")>>,
         words \o <<Word("order"), Word("by"), Word("id"), Word("desc"), Word("asc")>>,
         words \o <<Word("limit"), Literal("number", -2, "number")>>,
         <<Word("select"), Word("sum"), Symbol("("), Symbol("*"), Symbol(")"), Word("from"), Word("orders")>>}

Written(queries) == {[sql |-> SqlOf(q), asks |-> <<q>>] : q \in queries}
MCQueries == Written(Queries_) \cup {[sql |-> sql, asks |-> <<>>] : sql \in NoSql}

\* Two queries that are answered wrongly, each by itself: a null test on the partition column,
\* and an order over the columns of SELECT *, where no file can hold an answer.
FlawedQueries == Written(
    {Select(<<CountAll>>, {Cond("country", "is not null", Null)}, <<>>, <<>>, NoLimit),
     Select(<<Star>>, {Cond("country", "=", 5)}, <<>>, <<Asc(Agg("column", "id"))>>, NoLimit)})
=============================================================================
