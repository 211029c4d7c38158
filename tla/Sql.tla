--------------------------------- MODULE Sql ---------------------------------
(***************************************************************************)
(* crates/parquet-lab/src/engine.rs, parse: a query from its tokens.       *)
(*                                                                         *)
(* A token is a word, a symbol, or a literal, which is a number or a text; *)
(* cutting characters into tokens is left out.  A word is written here as  *)
(* `keyword` compares it, in lower case.  A literal is its place in its    *)
(* column's order, with what it can be read as: '5' is a text and reads as *)
(* a number.                                                               *)
(***************************************************************************)
EXTENDS Prune, Sequences, SequencesExt

Word(text)   == [kind |-> "word", text |-> text]
Symbol(text) == [kind |-> "symbol", text |-> text]
Literal(kind, value, reads) == [kind |-> kind, value |-> value, reads |-> reads]

\* What a part of a query was read as, and the place of the token after it.
Parsed(v, at) == [ok |-> TRUE, v |-> v, at |-> at]
Refused == [ok |-> FALSE]
Then(r, Continue(_, _)) == IF r.ok THEN Continue(r.v, r.at) ELSE Refused

Is(ts, at, token) == at \in DOMAIN ts /\ ts[at] = token
IsOf(ts, at, kinds) == at \in DOMAIN ts /\ ts[at].kind \in kinds
Expect(ts, at, token) == IF Is(ts, at, token) THEN Parsed(token, at + 1) ELSE Refused

\* One, then more of them after each separator: a token is taken each time.  `one` is what
\* is read at each place.
ListOf(ts, at, separator, one) ==
    LET first == Then(one[at], LAMBDA v, next : Parsed(<<v>>, next))
        Another(list) ==
            Then(one[list.at + 1], LAMBDA v, next : Parsed(Append(list.v, v), next))
        steps[n \in 0 .. Len(ts)] ==
            IF n = 0 THEN first
            ELSE LET found == steps[n - 1]
                 IN  IF found.ok /\ Is(ts, found.at, separator) THEN Another(found) ELSE found
    IN  steps[Len(ts)]

\* Where one of them may start.
Places(ts) == 1 .. Len(ts) + 1

\* A clause that may be absent: what follows its keyword, or what stands for its absence.
Clause(ts, at, keyword, absent, After(_)) ==
    IF Is(ts, at, Word(keyword)) THEN After(at + 1) ELSE Parsed(absent, at)

-----------------------------------------------------------------------------
Star == [agg |-> "star", column |-> "*"]
Column(c) == [agg |-> "column", column |-> c]
Aggregates == {"count", "sum", "min", "max", "avg"}
NoLimit == -1
Nullness == {"is null", "is not null"}

\* Any word is a name, a keyword too.
Name(ts, at) == IF IsOf(ts, at, {"word"}) THEN Parsed(ts[at].text, at + 1) ELSE Refused

\* A column may be called what an aggregate is: it is one when a parenthesis follows.
Item(ts, at) ==
    LET argument(word, next) == IF word = "count" /\ Is(ts, next, Symbol("*")) THEN Parsed("*", next + 1)
                                ELSE Name(ts, next)
        aggregate(word, next) ==
            Then(argument(word, next), LAMBDA c, close :
                Then(Expect(ts, close, Symbol(")")), LAMBDA t, end : Parsed([agg |-> word, column |-> c], end)))
    IN  IF Is(ts, at, Symbol("*")) THEN Parsed(Star, at + 1)
        ELSE Then(Name(ts, at), LAMBDA word, next :
                 IF word \in Aggregates /\ Is(ts, next, Symbol("(")) THEN aggregate(word, next + 1)
                 ELSE Parsed(Column(word), next))

\* The comparisons, as they are written and as they are meant.
Comparisons == [s \in {"=", "!=", "<>", "<", "<=", ">", ">="} |-> IF s = "<>" THEN "!=" ELSE s]

NullTest(ts, at, c) ==
    LET negated == Is(ts, at, Word("not"))
    IN  Then(Expect(ts, IF negated THEN at + 1 ELSE at, Word("null")), LAMBDA t, next :
            Parsed([column |-> c, op |-> IF negated THEN "is not null" ELSE "is null",
                    value |-> Null, reads |-> "text"], next))

Condition(ts, at) ==
    Then(Name(ts, at), LAMBDA c, next :
        IF Is(ts, next, Word("is")) THEN NullTest(ts, next + 1, c)
        ELSE IF IsOf(ts, next, {"symbol"}) /\ ts[next].text \in DOMAIN Comparisons
                   /\ IsOf(ts, next + 1, {"number", "text"})
        THEN Parsed([column |-> c, op |-> Comparisons[ts[next].text],
                     value |-> ts[next + 1].value, reads |-> ts[next + 1].reads], next + 2)
        ELSE Refused)

\* A key of ORDER BY is a word: what an aggregate is called cannot be one.
Key(ts, at) ==
    Then(Name(ts, at), LAMBDA c, next :
        Parsed([name |-> Column(c), desc |-> Is(ts, next, Word("desc"))],
               IF Is(ts, next, Word("desc")) \/ Is(ts, next, Word("asc")) THEN next + 1 ELSE next))

By(ts, at, one) == Then(Expect(ts, at, Word("by")), LAMBDA t, next : ListOf(ts, next, Symbol(","), one))

Count(ts, at) ==
    IF IsOf(ts, at, {"number"}) /\ ts[at].value >= 0 THEN Parsed(ts[at].value, at + 1) ELSE Refused

\* parse
Parse(ts) ==
    Then(Expect(ts, 1, Word("select")), LAMBDA t1, at1 :
    Then(ListOf(ts, at1, Symbol(","), [at \in Places(ts) |-> Item(ts, at)]), LAMBDA items, at2 :
    Then(Expect(ts, at2, Word("from")), LAMBDA t3, at3 :
    Then(Name(ts, at3), LAMBDA from, at4 :
    Then(Clause(ts, at4, "where", <<>>, LAMBDA at : ListOf(ts, at, Word("and"), [a \in Places(ts) |-> Condition(ts, a)])),
         LAMBDA conditions, at5 :
    Then(Clause(ts, at5, "group", <<>>, LAMBDA at : By(ts, at, [a \in Places(ts) |-> Name(ts, a)])), LAMBDA group_by, at6 :
    Then(Clause(ts, at6, "order", <<>>, LAMBDA at : By(ts, at, [a \in Places(ts) |-> Key(ts, a)])), LAMBDA order_by, at7 :
    Then(Clause(ts, at7, "limit", NoLimit, LAMBDA at : Count(ts, at)), LAMBDA limit, end :
        IF end # Len(ts) + 1 THEN Refused
        ELSE Parsed([items |-> items, conditions |-> ToSet(conditions), group_by |-> group_by,
                     order_by |-> order_by, limit |-> limit], end)))))))))
=============================================================================
