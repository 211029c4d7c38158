-------------------------- MODULE TableQueryProofs ---------------------------
(***************************************************************************)
(* What TableQuery promises of every table, query and store: at each stage *)
(* of a call the rows are those the stages before owe (QueryInvariant), so *)
(* that the way the files are found decides the cost alone, and the answer *)
(* is the one the query language says.                                     *)
(***************************************************************************)
EXTENDS TableQuery, ReadPathProofs

(***************************************************************************)
(* What parse makes of a query                                             *)
(***************************************************************************)
Tokens(ts) ==
    /\ ts \in Seq(Range(ts))
    /\ \A i \in DOMAIN ts : /\ ts[i].kind = "number" => ts[i].value \in Int
                            /\ ts[i].kind = "word" => ts[i].text # "*"

ReadItem(item) ==
    /\ item.agg \in {"star", "column"} \cup Aggregates
    /\ item.agg = "star" <=> item = Star
    /\ item.column = "*" => item.agg \in {"star", "count"}

ReadQuery(q) ==
    /\ q.items \in Seq(Range(q.items)) /\ \A i \in DOMAIN q.items : ReadItem(q.items[i])
    /\ \A c \in q.conditions : c.op \in Ops
    /\ q.group_by \in Seq(Range(q.group_by))
    /\ q.order_by \in Seq(Range(q.order_by))
    /\ \A k \in DOMAIN q.order_by : q.order_by[k].name.agg = "column"
    /\ q.limit \in Nat \cup {NoLimit}

\* The places of the tokens.
LEMMA TokenPlaces ==
    ASSUME NEW ts, Tokens(ts)
    PROVE  /\ Len(ts) \in Nat /\ DOMAIN ts = 1 .. Len(ts)
           /\ \A at \in DOMAIN ts : at \in Places(ts) /\ at + 1 \in Places(ts)
           /\ 1 \in Places(ts)
<1>1. Len(ts) \in Nat /\ DOMAIN ts = 1 .. Len(ts)
  BY LenProperties DEF Tokens
<1>2. QED
  BY <1>1 DEF Places

\* What is refused is not read.
LEMMA RefusedIsNot == ~Refused.ok
<1>1. Refused.ok = FALSE
  BY DEF Refused
<1>2. QED
  BY <1>1

\* A list is of what was read at each of its places.
LEMMA ListOfType ==
    ASSUME NEW ts, Tokens(ts), NEW V, NEW one,
           \A p \in Places(ts) : one[p].ok => one[p].v \in V /\ one[p].at \in Places(ts),
           NEW at \in Places(ts), NEW separator,
           ListOf(ts, at, separator, one).ok
    PROVE  /\ ListOf(ts, at, separator, one).v \in Seq(V)
           /\ ListOf(ts, at, separator, one).at \in Places(ts)
<1> DEFINE n == Len(ts)
           Read == {Refused} \cup [ok : {TRUE}, v : Seq(V), at : Places(ts)]
           first == Then(one[at], LAMBDA v, next : Parsed(<<v>>, next))
           Another(list) == Then(one[list.at + 1], LAMBDA v, next : Parsed(Append(list.v, v), next))
           After(found) == IF found.ok /\ Is(ts, found.at, separator) THEN Another(found) ELSE found
           step == [p \in (1 .. n) \X Read |-> After(p[2])]
           Runs(steps) == steps = [i \in 0 .. n |->
               IF i = 0 THEN first
               ELSE LET found == steps[i - 1]
                    IN  IF found.ok /\ Is(ts, found.at, separator) THEN Another(found) ELSE found]
           chosen == CHOOSE steps : Runs(steps)
<1>1. n \in Nat /\ DOMAIN ts = 1 .. n /\ \A p \in DOMAIN ts : p + 1 \in Places(ts)
  BY TokenPlaces
<1>2. first \in Read
  <2>1. CASE one[at].ok
    <3>1. one[at].v \in V /\ one[at].at \in Places(ts)
      BY <2>1
    <3>2. << one[at].v >> \in Seq(V)
      BY <3>1
    <3>3. QED
      BY <2>1, <3>1, <3>2 DEF Then, Parsed
  <2>2. CASE ~one[at].ok
    BY <2>2 DEF Then
  <2>3. QED
    BY <2>1, <2>2
<1>3. ASSUME NEW found \in Read
      PROVE  After(found) \in Read
  <2>1. CASE ~(found.ok /\ Is(ts, found.at, separator))
    BY <2>1
  <2>2. CASE found.ok /\ Is(ts, found.at, separator)
    <3>1. found \in [ok : {TRUE}, v : Seq(V), at : Places(ts)]
      <4>1. found # Refused
        BY <2>2, RefusedIsNot
      <4>2. QED
        BY <4>1
    <3>2. found.at + 1 \in Places(ts) /\ found.v \in Seq(V)
      BY <1>1, <2>2, <3>1 DEF Is
    <3> DEFINE r == one[found.at + 1]
    <3>3. CASE r.ok
      <4>1. r.v \in V /\ r.at \in Places(ts)
        BY <3>2, <3>3
      <4>2. Append(found.v, r.v) \in Seq(V)
        BY <3>2, <4>1, AppendProperties
      <4>3. QED
        BY <2>2, <3>3, <4>1, <4>2 DEF Then, Parsed
    <3>4. CASE ~r.ok
      BY <2>2, <3>4 DEF Then
    <3>5. QED
      BY <3>3, <3>4
  <2>3. QED
    BY <2>1, <2>2
<1>4. ListOf(ts, at, separator, one) = chosen[n]
  BY DEF ListOf
<1>5. step \in [(1 .. n) \X Read -> Read]
  BY <1>3
<1>6. \A i \in 1 .. n, r \in Read : step[<<i, r>>] = After(r)
  <2> HIDE DEF After, Read, n
  <2>1. QED
    OBVIOUS
<1> HIDE DEF step, n, first, Read
<1>7. PICK f : Recurs(f, n, Read, first, step)
  BY <1>1, <1>2, <1>5, RecursionExists
<1>8. f \in [0 .. n -> Read] /\ f[0] = first /\ \A i \in 1 .. n : f[i] = step[<<i, f[i - 1]>>]
  BY <1>7 DEF Recurs
<1>9. \A i \in 1 .. n : i - 1 \in 0 .. n /\ f[i] = After(f[i - 1])
  <2> HIDE DEF After
  <2>1. \A i \in 1 .. n : i - 1 \in 0 .. n
    BY <1>1
  <2>2. QED
    BY <1>6, <1>8, <2>1
<1>10. Runs(f)
  <2> HIDE DEF Another
  <2>1. \A i \in 0 .. n : i # 0 => i \in 1 .. n
    BY <1>1
  <2>2. QED
    BY <1>8, <1>9, <2>1
<1>11. Runs(chosen)
  <2> HIDE DEF Another
  <2>1. QED
    BY <1>10
<1>12. /\ chosen[0] = first
       /\ \A i \in 1 .. n : chosen[i] = After(chosen[i - 1])
  <2> HIDE DEF Another, chosen
  <2>1. 0 \in 0 .. n /\ \A i \in 1 .. n : i \in 0 .. n /\ i # 0
    BY <1>1
  <2>2. QED
    BY <1>11, <2>1
<1> HIDE DEF chosen, After
<1> DEFINE Good == {i \in Nat : i <= n => chosen[i] \in Read}
<1>13. 0 \in Good
  BY <1>2, <1>12
<1>14. ASSUME NEW i \in Nat, i \in Good
       PROVE  i + 1 \in Good
  <2> SUFFICES ASSUME i + 1 <= n
               PROVE  chosen[i + 1] \in Read
    OBVIOUS
  <2>1. i + 1 \in 1 .. n /\ (i + 1) - 1 = i /\ i <= n
    BY <1>1
  <2>2. chosen[i] \in Read
    BY <1>14, <2>1
  <2>3. QED
    BY <1>3, <1>12, <2>1, <2>2
<1> HIDE DEF Good
<1>15. n \in Good
  BY <1>1, <1>13, <1>14, NumberInduction
<1>16. chosen[n] \in Read
  BY <1>1, <1>15 DEF Good
<1>17. chosen[n] # Refused
  BY <1>4, RefusedIsNot
<1>18. QED
  BY <1>4, <1>16, <1>17 DEF Read

\* What each part of a query is read as.
LEMMA NameType ==
    ASSUME NEW ts, Tokens(ts), NEW at, Name(ts, at).ok
    PROVE  Name(ts, at).v # "*" /\ Name(ts, at).at \in Places(ts) /\ at \in DOMAIN ts
           /\ Name(ts, at).at = at + 1
<1>1. IsOf(ts, at, {"word"})
  BY RefusedIsNot DEF Name
<1>2. at \in DOMAIN ts /\ ts[at].kind = "word"
  BY <1>1 DEF IsOf
<1>3. ts[at].text # "*" /\ at + 1 \in Places(ts)
  BY <1>2, TokenPlaces DEF Tokens
<1>4. Name(ts, at).v = ts[at].text /\ Name(ts, at).at = at + 1
  BY <1>1 DEF Name, Parsed
<1>5. QED
  BY <1>2, <1>3, <1>4

\* An expected token is the one that is there, and the next place is one.
LEMMA ExpectType ==
    ASSUME NEW ts, Tokens(ts), NEW at, NEW token, Expect(ts, at, token).ok
    PROVE  Expect(ts, at, token).at \in Places(ts) /\ Expect(ts, at, token).at = at + 1
<1>1. Is(ts, at, token)
  BY RefusedIsNot DEF Expect
<1>2. Expect(ts, at, token).at = at + 1 /\ at \in DOMAIN ts
  BY <1>1 DEF Expect, Parsed, Is
<1>3. QED
  BY <1>2, TokenPlaces

\* Of the items a list may hold, only `*` and count(*) are of no column.
LEMMA ItemType ==
    ASSUME NEW ts, Tokens(ts), NEW at, Item(ts, at).ok
    PROVE  ReadItem(Item(ts, at).v) /\ Item(ts, at).at \in Places(ts)
<1> DEFINE argument(word, next) == IF word = "count" /\ Is(ts, next, Symbol("*")) THEN Parsed("*", next + 1)
                                   ELSE Name(ts, next)
           aggregate(word, next) ==
               Then(argument(word, next), LAMBDA c, close :
                   Then(Expect(ts, close, Symbol(")")), LAMBDA t, end : Parsed([agg |-> word, column |-> c], end)))
           name == Name(ts, at)
           word == name.v
           next == name.at
           arg == argument(word, next + 1)
           close == Expect(ts, arg.at, Symbol(")"))
<1>1. CASE Is(ts, at, Symbol("*"))
  <2>1. Item(ts, at).v = Star /\ Item(ts, at).at = at + 1 /\ at \in DOMAIN ts
    BY <1>1 DEF Item, Parsed, Is
  <2>2. ReadItem(Star)
    BY DEF ReadItem, Star
  <2>3. QED
    BY <2>1, <2>2, TokenPlaces
<1>2. CASE ~Is(ts, at, Symbol("*"))
  <2>1. Item(ts, at) = IF name.ok
                       THEN IF word \in Aggregates /\ Is(ts, next, Symbol("(")) THEN aggregate(word, next + 1)
                            ELSE Parsed(Column(word), next)
                       ELSE Refused
    BY <1>2 DEF Item, Then
  <2>2. name.ok
    BY <2>1, RefusedIsNot
  <2>3. word # "*" /\ next \in Places(ts)
    BY <2>2, NameType
  <2>4. CASE word \in Aggregates /\ Is(ts, next, Symbol("("))
    <3>1. Item(ts, at) = aggregate(word, next + 1)
      BY <2>1, <2>2, <2>4
    <3>2. aggregate(word, next + 1) =
             IF arg.ok THEN IF close.ok THEN Parsed([agg |-> word, column |-> arg.v], close.at) ELSE Refused
             ELSE Refused
      BY DEF Then
    <3> HIDE DEF aggregate, close, arg
    <3>3. arg.ok /\ close.ok
      BY <3>1, <3>2, RefusedIsNot
    <3>4. close.at \in Places(ts)
      BY <3>3, ExpectType DEF close
    <3>5. Item(ts, at) = Parsed([agg |-> word, column |-> arg.v], close.at)
      BY <3>1, <3>2, <3>3
    <3>6. arg.v = "*" => word = "count"
      <4>1. CASE word = "count" /\ Is(ts, next + 1, Symbol("*"))
        BY <4>1
      <4>2. CASE ~(word = "count" /\ Is(ts, next + 1, Symbol("*")))
        <5>1. arg = Name(ts, next + 1)
          BY <4>2 DEF arg
        <5>2. QED
          BY <3>3, <5>1, NameType
      <4>3. QED
        BY <4>1, <4>2
    <3>7. ReadItem([agg |-> word, column |-> arg.v])
      BY <2>4, <3>6 DEF ReadItem, Aggregates, Star
    <3>8. Item(ts, at).v = [agg |-> word, column |-> arg.v] /\ Item(ts, at).at = close.at
      BY <3>5 DEF Parsed
    <3>9. QED
      BY <3>4, <3>7, <3>8
  <2>5. CASE ~(word \in Aggregates /\ Is(ts, next, Symbol("(")))
    <3> HIDE DEF aggregate, word, next
    <3>1. Item(ts, at) = Parsed(Column(word), next)
      BY <2>1, <2>2, <2>5
    <3>2. Item(ts, at).v = Column(word) /\ Item(ts, at).at = next
      BY <3>1 DEF Parsed
    <3>3. ReadItem(Column(word))
      BY <2>3 DEF ReadItem, Column, Star
    <3>4. QED
      BY <2>3, <3>2, <3>3
  <2>6. QED
    BY <2>4, <2>5
<1>3. QED
  BY <1>1, <1>2

\* A condition: one of the operators, on a word.
LEMMA ConditionType ==
    ASSUME NEW ts, Tokens(ts), NEW at, Condition(ts, at).ok
    PROVE  Condition(ts, at).v.op \in Ops /\ Condition(ts, at).at \in Places(ts)
<1> DEFINE name == Name(ts, at)
           next == name.at
           null == NullTest(ts, next + 1, name.v)
           negated == Is(ts, next + 1, Word("not"))
           close == Expect(ts, IF negated THEN next + 1 + 1 ELSE next + 1, Word("null"))
           compared == /\ IsOf(ts, next, {"symbol"}) /\ ts[next].text \in DOMAIN Comparisons
                       /\ IsOf(ts, next + 1, {"number", "text"})
<1>1. Condition(ts, at) = IF name.ok
                          THEN IF Is(ts, next, Word("is")) THEN null
                               ELSE IF compared
                               THEN Parsed([column |-> name.v, op |-> Comparisons[ts[next].text],
                                            value |-> ts[next + 1].value, reads |-> ts[next + 1].reads], next + 2)
                               ELSE Refused
                          ELSE Refused
  BY DEF Condition, Then
<1>2. name.ok
  BY <1>1, RefusedIsNot
<1>3. CASE Is(ts, next, Word("is"))
  <2>1. Condition(ts, at) = null
    BY <1>1, <1>2, <1>3
  <2>2. null = IF close.ok
               THEN Parsed([column |-> name.v, op |-> IF negated THEN "is not null" ELSE "is null",
                            value |-> Null, reads |-> "text"], close.at)
               ELSE Refused
    BY DEF NullTest, Then
  <2> HIDE DEF null, close, negated
  <2>3. close.ok
    BY <2>1, <2>2, RefusedIsNot
  <2>4. close.at \in Places(ts)
    BY <2>3, ExpectType DEF close
  <2>5. null.v.op \in {"is not null", "is null"} /\ null.at = close.at
    BY <2>2, <2>3 DEF Parsed
  <2>6. QED
    BY <2>1, <2>4, <2>5 DEF Ops
<1>4. CASE ~Is(ts, next, Word("is"))
  <2>1. compared
    BY <1>1, <1>2, <1>4, RefusedIsNot
  <2>2. /\ Condition(ts, at).v.op = Comparisons[ts[next].text]
        /\ Condition(ts, at).at = next + 2
    BY <1>1, <1>2, <1>4, <2>1 DEF Parsed
  <2>3. ts[next].text \in DOMAIN Comparisons /\ next + 1 \in DOMAIN ts
    BY <2>1 DEF IsOf
  <2>4. next \in Places(ts)
    BY <1>2, NameType
  <2> HIDE DEF next
  <2>5. Comparisons[ts[next].text] \in Ops
    BY <2>3 DEF Comparisons, Ops
  <2>6. next + 2 \in Places(ts)
    <3>1. (next + 1) + 1 \in Places(ts)
      BY <2>3, TokenPlaces
    <3>2. next \in Int
      BY <2>4, TokenPlaces DEF Places
    <3>3. QED
      BY <3>1, <3>2
  <2>7. QED
    BY <2>2, <2>5, <2>6
<1>5. QED
  BY <1>3, <1>4

\* A key of ORDER BY is a column, never an aggregate.
LEMMA KeyType ==
    ASSUME NEW ts, Tokens(ts), NEW at, Key(ts, at).ok
    PROVE  Key(ts, at).v.name.agg = "column" /\ Key(ts, at).at \in Places(ts)
<1> DEFINE name == Name(ts, at)
           next == name.at
           word == Is(ts, next, Word("desc")) \/ Is(ts, next, Word("asc"))
<1>1. Key(ts, at) = IF name.ok
                    THEN Parsed([name |-> Column(name.v), desc |-> Is(ts, next, Word("desc"))],
                                IF word THEN next + 1 ELSE next)
                    ELSE Refused
  BY DEF Key, Then
<1>2. name.ok
  BY <1>1, RefusedIsNot
<1>3. next \in Places(ts)
  BY <1>2, NameType
<1>4. word => next \in DOMAIN ts
  BY DEF Is
<1>5. Key(ts, at).at = IF word THEN next + 1 ELSE next
  BY <1>1, <1>2 DEF Parsed
<1>6. Key(ts, at).v.name = Column(name.v)
  BY <1>1, <1>2 DEF Parsed
<1>7. QED
  BY <1>3, <1>4, <1>5, <1>6, TokenPlaces DEF Column

\* The limit is a natural number.
LEMMA CountType ==
    ASSUME NEW ts, Tokens(ts), NEW at, Count(ts, at).ok
    PROVE  Count(ts, at).v \in Nat /\ Count(ts, at).at \in Places(ts)
<1>1. IsOf(ts, at, {"number"}) /\ ts[at].value >= 0
  BY RefusedIsNot DEF Count
<1>2. at \in DOMAIN ts /\ ts[at].value \in Int
  BY <1>1 DEF IsOf, Tokens
<1>3. Count(ts, at).v = ts[at].value /\ Count(ts, at).at = at + 1
  BY <1>1 DEF Count, Parsed
<1>4. QED
  BY <1>1, <1>2, <1>3, TokenPlaces

\* A query is read to the last token, or refused.
LEMMA ParseType ==
    ASSUME NEW ts, Tokens(ts), Parse(ts).ok
    PROVE  ReadQuery(Parse(ts).v)
<1> DEFINE Items == [at \in Places(ts) |-> Item(ts, at)]
           Conditions == [a \in Places(ts) |-> Condition(ts, a)]
           Names == [a \in Places(ts) |-> Name(ts, a)]
           Sorts == [a \in Places(ts) |-> Key(ts, a)]
           where(at) == Clause(ts, at, "where", <<>>, LAMBDA a : ListOf(ts, a, Word("and"), Conditions))
           group(at) == Clause(ts, at, "group", <<>>, LAMBDA a : By(ts, a, Names))
           order(at) == Clause(ts, at, "order", <<>>, LAMBDA a : By(ts, a, Sorts))
           limits(at) == Clause(ts, at, "limit", NoLimit, LAMBDA a : Count(ts, a))
           q(items, conditions, group_by, order_by, limit) ==
               [items |-> items, conditions |-> ToSet(conditions), group_by |-> group_by,
                order_by |-> order_by, limit |-> limit]
           P8(items, conditions, group_by, order_by, at7) ==
               Then(limits(at7), LAMBDA limit, end :
                   IF end # Len(ts) + 1 THEN Refused
                   ELSE Parsed(q(items, conditions, group_by, order_by, limit), end))
           P7(items, conditions, group_by, at6) ==
               Then(order(at6), LAMBDA order_by, at7 : P8(items, conditions, group_by, order_by, at7))
           P6(items, conditions, at5) ==
               Then(group(at5), LAMBDA group_by, at6 : P7(items, conditions, group_by, at6))
           P5(items, at4) == Then(where(at4), LAMBDA conditions, at5 : P6(items, conditions, at5))
           P4(items, at3) == Then(Name(ts, at3), LAMBDA from, at4 : P5(items, at4))
           P3(items, at2) == Then(Expect(ts, at2, Word("from")), LAMBDA t3, at3 : P4(items, at3))
           P2(at1) == Then(ListOf(ts, at1, Symbol(","), Items), LAMBDA items, at2 : P3(items, at2))
           r1 == Expect(ts, 1, Word("select"))
           r2 == ListOf(ts, r1.at, Symbol(","), Items)
           r3 == Expect(ts, r2.at, Word("from"))
           r4 == Name(ts, r3.at)
           r5 == where(r4.at)
           r6 == group(r5.at)
           r7 == order(r6.at)
           r8 == limits(r7.at)
<1>1. /\ Parse(ts) = Then(r1, LAMBDA t1, at1 : P2(at1))
      /\ P2(r1.at) = Then(r2, LAMBDA items, at2 : P3(items, at2))
      /\ P3(r2.v, r2.at) = Then(r3, LAMBDA t3, at3 : P4(r2.v, at3))
      /\ P4(r2.v, r3.at) = Then(r4, LAMBDA from, at4 : P5(r2.v, at4))
      /\ P5(r2.v, r4.at) = Then(r5, LAMBDA conditions, at5 : P6(r2.v, conditions, at5))
      /\ P6(r2.v, r5.v, r5.at) = Then(r6, LAMBDA group_by, at6 : P7(r2.v, r5.v, group_by, at6))
      /\ P7(r2.v, r5.v, r6.v, r6.at) = Then(r7, LAMBDA order_by, at7 : P8(r2.v, r5.v, r6.v, order_by, at7))
      /\ P8(r2.v, r5.v, r6.v, r7.v, r7.at) =
             Then(r8, LAMBDA limit, end : IF end # Len(ts) + 1 THEN Refused
                                          ELSE Parsed(q(r2.v, r5.v, r6.v, r7.v, limit), end))
  BY DEF Parse
<1> HIDE DEF P2, P3, P4, P5, P6, P7, P8, r1, r2, r3, r4, r5, r6, r7, r8, q
<1>2. r1.ok /\ Parse(ts) = P2(r1.at)
  BY <1>1, RefusedIsNot DEF Then
<1>3. r2.ok /\ Parse(ts) = P3(r2.v, r2.at)
  BY <1>1, <1>2, RefusedIsNot DEF Then
<1>4. r3.ok /\ Parse(ts) = P4(r2.v, r3.at)
  BY <1>1, <1>3, RefusedIsNot DEF Then
<1>5. r4.ok /\ Parse(ts) = P5(r2.v, r4.at)
  BY <1>1, <1>4, RefusedIsNot DEF Then
<1>6. r5.ok /\ Parse(ts) = P6(r2.v, r5.v, r5.at)
  BY <1>1, <1>5, RefusedIsNot DEF Then
<1>7. r6.ok /\ Parse(ts) = P7(r2.v, r5.v, r6.v, r6.at)
  BY <1>1, <1>6, RefusedIsNot DEF Then
<1>8. r7.ok /\ Parse(ts) = P8(r2.v, r5.v, r6.v, r7.v, r7.at)
  BY <1>1, <1>7, RefusedIsNot DEF Then
<1>9. r8.ok /\ Parse(ts).v = q(r2.v, r5.v, r6.v, r7.v, r8.v)
  <2> DEFINE whole == q(r2.v, r5.v, r6.v, r7.v, r8.v)
  <2>1. Parse(ts) = IF r8.ok THEN IF r8.at # Len(ts) + 1 THEN Refused ELSE Parsed(whole, r8.at)
                    ELSE Refused
    BY <1>1, <1>8 DEF Then
  <2> HIDE DEF whole
  <2>2. r8.ok /\ Parse(ts) = Parsed(whole, r8.at)
    BY <2>1, RefusedIsNot
  <2>3. Parse(ts).v = whole
    BY <2>2 DEF Parsed
  <2>4. QED
    BY <2>2, <2>3 DEF whole
<1>10. r1.at \in Places(ts)
  BY <1>2, ExpectType DEF r1
<1>11. /\ r2.v \in Seq(Range(r2.v)) /\ \A i \in DOMAIN r2.v : ReadItem(r2.v[i])
       /\ r2.at \in Places(ts)
  <2> DEFINE V == {Items[p].v : p \in {x \in Places(ts) : Items[x].ok}}
  <2>1. \A p \in Places(ts) : Items[p].ok => Items[p].v \in V /\ Items[p].at \in Places(ts)
    BY ItemType
  <2>2. \A v \in V : ReadItem(v)
    BY ItemType
  <2> HIDE DEF V, Items
  <2>3. r2.v \in Seq(V) /\ r2.at \in Places(ts)
    BY <1>3, <1>10, <2>1, ListOfType DEF r2
  <2>4. r2.v \in Seq(Range(r2.v)) /\ \A i \in DOMAIN r2.v : r2.v[i] \in V
    BY <2>3, OwnRange
  <2>5. QED
    BY <2>2, <2>3, <2>4
<1>12. r4.at \in Places(ts)
  BY <1>5, NameType DEF r4
<1>13. (\A i \in DOMAIN r5.v : r5.v[i].op \in Ops) /\ r5.at \in Places(ts)
  <2> DEFINE V == {Conditions[p].v : p \in {x \in Places(ts) : Conditions[x].ok}}
             list == ListOf(ts, r4.at + 1, Word("and"), Conditions)
  <2>1. \A p \in Places(ts) : Conditions[p].ok => Conditions[p].v \in V /\ Conditions[p].at \in Places(ts)
    BY ConditionType
  <2>2. \A v \in V : v.op \in Ops
    BY ConditionType
  <2> HIDE DEF V, Conditions
  <2>3. CASE Is(ts, r4.at, Word("where"))
    <3>1. r5 = list /\ r4.at + 1 \in Places(ts)
      BY <2>3, TokenPlaces DEF r5, Clause, Is
    <3>2. list.v \in Seq(V) /\ list.at \in Places(ts)
      BY <1>6, <3>1, <2>1, ListOfType
    <3>3. QED
      BY <2>2, <3>1, <3>2, ElementOfSeq, LenProperties
  <2>4. CASE ~Is(ts, r4.at, Word("where"))
    <3>1. r5.v = <<>> /\ r5.at = r4.at
      BY <2>4 DEF r5, Clause, Parsed
    <3>2. QED
      BY <1>12, <3>1
  <2>5. QED
    BY <2>3, <2>4
<1>14. r6.v \in Seq(Range(r6.v)) /\ r6.at \in Places(ts)
  <2> DEFINE V == {Names[p].v : p \in {x \in Places(ts) : Names[x].ok}}
             by == Expect(ts, r5.at + 1, Word("by"))
             list == ListOf(ts, by.at, Symbol(","), Names)
  <2>1. \A p \in Places(ts) : Names[p].ok => Names[p].v \in V /\ Names[p].at \in Places(ts)
    BY NameType
  <2> HIDE DEF V, Names
  <2>2. CASE Is(ts, r5.at, Word("group"))
    <3>1. r6 = IF by.ok THEN list ELSE Refused
      BY <2>2 DEF r6, Clause, By, Then
    <3>2. by.ok /\ r6 = list
      BY <1>7, <3>1, RefusedIsNot
    <3>3. by.at \in Places(ts)
      BY <3>2, ExpectType
    <3>4. list.v \in Seq(V) /\ list.at \in Places(ts)
      BY <1>7, <3>2, <3>3, <2>1, ListOfType
    <3>5. QED
      BY <3>2, <3>4, OwnRange
  <2>3. CASE ~Is(ts, r5.at, Word("group"))
    <3>1. r6.v = <<>> /\ r6.at = r5.at
      BY <2>3 DEF r6, Clause, Parsed
    <3>2. QED
      BY <1>13, <3>1
  <2>4. QED
    BY <2>2, <2>3
<1>15. /\ r7.v \in Seq(Range(r7.v)) /\ \A k \in DOMAIN r7.v : r7.v[k].name.agg = "column"
       /\ r7.at \in Places(ts)
  <2> DEFINE V == {Sorts[p].v : p \in {x \in Places(ts) : Sorts[x].ok}}
             by == Expect(ts, r6.at + 1, Word("by"))
             list == ListOf(ts, by.at, Symbol(","), Sorts)
  <2>1. \A p \in Places(ts) : Sorts[p].ok => Sorts[p].v \in V /\ Sorts[p].at \in Places(ts)
    BY KeyType
  <2>5. \A v \in V : v.name.agg = "column"
    BY KeyType
  <2> HIDE DEF V, Sorts
  <2>2. CASE Is(ts, r6.at, Word("order"))
    <3>1. r7 = IF by.ok THEN list ELSE Refused
      BY <2>2 DEF r7, Clause, By, Then
    <3>2. by.ok /\ r7 = list
      BY <1>8, <3>1, RefusedIsNot
    <3>3. by.at \in Places(ts)
      BY <3>2, ExpectType
    <3>4. list.v \in Seq(V) /\ list.at \in Places(ts)
      BY <1>8, <3>2, <3>3, <2>1, ListOfType
    <3>5. list.v \in Seq(Range(list.v)) /\ \A k \in DOMAIN list.v : list.v[k] \in V
      BY <3>4, OwnRange
    <3>6. QED
      BY <2>5, <3>2, <3>4, <3>5
  <2>3. CASE ~Is(ts, r6.at, Word("order"))
    <3>1. r7.v = <<>> /\ r7.at = r6.at
      BY <2>3 DEF r7, Clause, Parsed
    <3>2. QED
      BY <1>14, <3>1
  <2>4. QED
    BY <2>2, <2>3
<1>16. r8.v \in Nat \cup {NoLimit}
  <2>1. CASE Is(ts, r7.at, Word("limit"))
    <3>1. r8 = Count(ts, r7.at + 1)
      BY <2>1 DEF r8, Clause
    <3>2. QED
      BY <1>9, <3>1, CountType
  <2>2. CASE ~Is(ts, r7.at, Word("limit"))
    BY <2>2 DEF r8, Clause, Parsed
  <2>3. QED
    BY <2>1, <2>2
<1>17. \A c \in ToSet(r5.v) : c.op \in Ops
  BY <1>13 DEF ToSet
<1> HIDE DEF where, group, order, limits
<1>18. QED
  BY <1>9, <1>11, <1>14, <1>15, <1>16, <1>17 DEF q, ReadQuery

(***************************************************************************)
(* What the query is owed                                                  *)
(***************************************************************************)
\* The files each way of finding them finds, and which of them are read.
Found(d) == IF d = "Log" THEN ReadLog(Tables[table].log).files ELSE Listed(table)
Plan(d) == [i \in DOMAIN Found(d) |-> [Found(d)[i] EXCEPT !.read = Survives(Found(d)[i], d)]]
KeptOf(d) == Keeping(Plan(d), {f \in Range(Plan(d)) : f.read})

\* The table's columns, if the way of finding its files gives them.
ColumnsFound(d) == IF d = "Log" THEN ReadLog(Tables[table].log).columns ELSE << >>

\* The rows every condition accepts: of a file, and of the table.
Row == [Columns -> Int]
Met == {r \in Row : \A c \in query.conditions : Accepts(c, r)}
GroupsMet(file) == [g \in DOMAIN file.groups |-> Keeping(GroupRows(file, file.groups[g]), Met)]
FileMet(key) == FlattenSeq(GroupsMet(Contents[key]))
TableMet(d) == FlattenSeq([i \in DOMAIN Found(d) |-> FileMet(Found(d)[i].key)])

Shaped(rs) == IF Aggregating THEN Grouped(rs) ELSE Projected(rs, ResultNames)
Owed(d) == Limited(StablySorted(Shaped(TableMet(d)), ResultNames))

\* Sorting is by what the query names.
KeysAreNamed ==
    \A k \in DOMAIN query.order_by :
        query.order_by[k].name \in Range(query.items) \cup {Column(c) : c \in Named}

\* Where no file is left to read, the columns of the table are known from a log alone: a key of
\* ORDER BY the query names nowhere else is looked for in vain (table.rs, run_empty).
KeysAreKnown(d) == KeysAreNamed \/ KeptOf(d) # << >> \/ ColumnsFound(d) # << >>

\* The objects the answer takes are in the store.
Stored(d) ==
    /\ d = "Log" => Tables[table].log_key \in DOMAIN ObjectSize
    /\ \A i \in DOMAIN Found(d) : Found(d)[i].key \in DOMAIN ObjectSize

\* The query is one of this table, and there is what it takes.
Ready(d) == Valid /\ KeysAreKnown(d) /\ Stored(d)

\* What is found and planned is of the query and the table alone,
LEMMA PlanStands ==
    ASSUME query' = query, table' = table, NEW d
    PROVE  /\ Found(d)' = Found(d) /\ Plan(d)' = Plan(d)
           /\ KeptOf(d)' = KeptOf(d) /\ ColumnsFound(d)' = ColumnsFound(d)
<1>1. Found(d)' = Found(d) /\ ColumnsFound(d)' = ColumnsFound(d)
  BY DEF Found, ColumnsFound, Listed, ReadLog, LogAction
<1>2. \A f : Survives(f, d)' = Survives(f, d)
  BY DEF Survives
<1>3. Plan(d)' = Plan(d)
  BY <1>1, <1>2 DEF Plan
<1>4. KeptOf(d)' = KeptOf(d)
  BY <1>3 DEF KeptOf
<1> QED BY <1>1, <1>3, <1>4

\* so is what is met,
LEMMA MetStands ==
    ASSUME query' = query, table' = table, NEW d
    PROVE  /\ TableMet(d)' = TableMet(d)
<1>1. Found(d)' = Found(d)
  BY PlanStands
<1>2. Met' = Met
  BY DEF Met
<1>3. \A k : FileMet(k)' = FileMet(k)
  BY <1>2 DEF FileMet, GroupsMet
<1>4. TableMet(d)' = TableMet(d)
  BY <1>1, <1>3 DEF TableMet
<1> QED BY <1>4

\* how it is shaped,
LEMMA ShapeStands ==
    ASSUME query' = query, table' = table, NEW s
    PROVE  /\ Shaped(s)' = Shaped(s) /\ ResultNames' = ResultNames
<1>1. ResultNames' = ResultNames
  BY DEF ResultNames
<1>2. Aggregating' = Aggregating
  BY DEF Aggregating
<1>3. \A r : KeyOf(r)' = KeyOf(r)
  BY DEF KeyOf
<1>4. GroupKeys(s)' = GroupKeys(s)
  BY DEF GroupKeys, KeyOf
<1>5. \A k : GroupRow(s, k)' = GroupRow(s, k)
  BY <1>3 DEF GroupRow
<1>6. Grouped(s)' = Grouped(s)
  BY <1>4, <1>5 DEF Grouped
<1>7. Projected(s, ResultNames)' = Projected(s, ResultNames)
  BY <1>1 DEF Projected
<1>8. Shaped(s)' = Shaped(s)
  BY <1>1, <1>2, <1>6, <1>7 DEF Shaped
<1> QED BY <1>1, <1>8

\* the answer owed,
LEMMA OwedStands ==
    ASSUME query' = query, table' = table, NEW d
    PROVE  Owed(d)' = Owed(d)
<1>1. PICK s : s = TableMet(d)
  OBVIOUS
<1>2. TableMet(d)' = s
  BY MetStands, <1>1
<1>3. PICK t : t = Shaped(s)
  OBVIOUS
<1>4. Shaped(TableMet(d))' = t
  BY <1>2, <1>3, ShapeStands
<1>5. PICK n : n = ResultNames
  OBVIOUS
<1>6. ResultNames' = n
  BY <1>5, ShapeStands
<1>7. StablySorted(t, n)' = StablySorted(t, n)
  BY DEF StablySorted
<1>8. \A u : Limited(u)' = Limited(u)
  BY DEF Limited
<1>9. QED
  BY <1>1, <1>2, <1>3, <1>4, <1>5, <1>6, <1>7, <1>8 DEF Owed

\* and whether one is.
LEMMA ReadyStands ==
    ASSUME query' = query, table' = table, NEW d
    PROVE  Ready(d)' <=> Ready(d)
<1>1. ResultNames' = ResultNames /\ Aggregating' = Aggregating
  BY DEF ResultNames, Aggregating
<1>2. Named' = Named /\ HasStar' = HasStar
  <2>1. ItemColumns' = ItemColumns
    BY DEF ItemColumns
  <2>2. HasStar' = HasStar
    BY DEF HasStar
  <2>3. Named' = Named
    BY <2>1 DEF Named
  <2>4. QED
    BY <2>2, <2>3
<1>3. Valid' <=> Valid
  BY <1>1, <1>2 DEF Valid
<1>4. KeysAreNamed' <=> KeysAreNamed
  BY <1>2 DEF KeysAreNamed
<1>5. Found(d)' = Found(d) /\ KeptOf(d)' = KeptOf(d) /\ ColumnsFound(d)' = ColumnsFound(d)
  BY PlanStands
<1>6. KeysAreKnown(d)' <=> KeysAreKnown(d)
  BY <1>4, <1>5 DEF KeysAreKnown
<1>7. Stored(d)' <=> Stored(d)
  BY <1>5 DEF Stored
<1>8. QED
  BY <1>3, <1>6, <1>7 DEF Ready

(***************************************************************************)
(* What is ruled out holds no row that is met                              *)
(***************************************************************************)
\* A data file, as its writer left it.
LEMMA FileType ==
    ASSUME NEW key \in DOMAIN Contents
    PROVE  LET file == Contents[key]
           IN  /\ file.partition \in [Range(PartitionColumns) -> Int \ {Null}]
               /\ file.groups \in Seq(Range(file.groups))
               /\ \A g \in DOMAIN file.groups :
                     /\ TruthfulGroup(file, file.groups[g])
                     /\ file.groups[g].rows \in Seq([Range(Schema) -> Int])
<1>1. TruthfulFile(Contents[key])
  BY TablesAreTruthful
<1>2. QED
  BY <1>1 DEF TruthfulFile, TruthfulGroup

\* A row group's rows, with the partition's values.
LEMMA GroupRowsType ==
    ASSUME NEW key \in DOMAIN Contents, NEW g \in DOMAIN Contents[key].groups,
           NEW source, source.partition = Contents[key].partition
    PROVE  LET group == Contents[key].groups[g]
               rs == GroupRows(source, group)
           IN  /\ rs = GroupRows(Contents[key], group)
               /\ rs \in Seq(Row) /\ DOMAIN rs = DOMAIN group.rows /\ Len(rs) = Len(group.rows)
               /\ \A i \in DOMAIN rs :
                     /\ \A c \in Range(Schema) : rs[i][c] = group.rows[i][c]
                     /\ \A c \in Range(PartitionColumns) : rs[i][c] = Contents[key].partition[c]
<1> DEFINE group == Contents[key].groups[g]
           rs == GroupRows(source, group)
           n == Len(group.rows)
<1>1. /\ Contents[key].partition \in [Range(PartitionColumns) -> Int \ {Null}]
      /\ group.rows \in Seq([Range(Schema) -> Int])
  BY FileType
<1>2. n \in Nat /\ DOMAIN group.rows = 1 .. n /\ \A i \in 1 .. n : group.rows[i] \in [Range(Schema) -> Int]
  BY <1>1, LenProperties, ElementOfSeq
<1>3. rs = GroupRows(Contents[key], group)
  BY DEF GroupRows, Cell
<1> HIDE DEF group
<1>4. ASSUME NEW i \in 1 .. n, NEW c \in Columns
      PROVE  /\ Cell(source, group.rows[i], c) \in Int
             /\ c \in Range(Schema) => Cell(source, group.rows[i], c) = group.rows[i][c]
             /\ c \in Range(PartitionColumns) => Cell(source, group.rows[i], c) = source.partition[c]
  <2>1. CASE c \in Range(Schema)
    <3>1. c \notin Range(PartitionColumns)
      BY <2>1, TablesAreTruthful
    <3>2. QED
      BY <1>2, <2>1, <3>1 DEF Cell
  <2>2. CASE c \notin Range(Schema)
    <3>1. c \in Range(PartitionColumns)
      BY <2>2 DEF Columns
    <3>2. QED
      BY <1>1, <2>2, <3>1 DEF Cell
  <2>3. QED
    BY <2>1, <2>2
<1>5. rs = [i \in 1 .. n |-> [c \in Columns |-> Cell(source, group.rows[i], c)]]
  BY <1>2 DEF GroupRows
<1>6. rs \in [1 .. n -> Row]
  BY <1>4, <1>5 DEF Row
<1>7. rs \in Seq(Row) /\ Len(rs) = n
  <2> HIDE DEF rs, n
  <2>1. rs \in Seq(Row)
    BY <1>2, <1>6, SeqDef
  <2>2. DOMAIN rs = 1 .. n /\ DOMAIN rs = 1 .. Len(rs) /\ Len(rs) \in Nat
    BY <1>6, <2>1, LenProperties
  <2>3. QED
    BY <1>2, <2>1, <2>2
<1>8. ASSUME NEW i \in 1 .. n
      PROVE  /\ \A c \in Range(Schema) : rs[i][c] = group.rows[i][c]
             /\ \A c \in Range(PartitionColumns) : rs[i][c] = Contents[key].partition[c]
  BY <1>4, <1>5 DEF Columns
<1>9. QED
  BY <1>2, <1>3, <1>5, <1>7, <1>8 DEF group

\* The rows of a file are finitely many.
LEMMA RowIdsAreFinite ==
    ASSUME NEW key \in DOMAIN Contents
    PROVE  IsFiniteSet(RowIds(Contents[key]))
<1> DEFINE file == Contents[key]
           chunk == [pages |-> [g \in DOMAIN file.groups |-> [values |-> file.groups[g].rows]]]
<1>1. Slots(chunk) = RowIds(file)
  BY DEF Slots, RowIds
<1>2. IsFiniteSet(DOMAIN chunk.pages)
  <2>1. Len(file.groups) \in Nat /\ DOMAIN file.groups = 1 .. Len(file.groups)
    BY FileType, LenProperties
  <2>2. IsFiniteSet(1 .. Len(file.groups))
    BY <2>1, FS_Interval
  <2>3. QED
    BY <2>1, <2>2
<1>3. \A g \in DOMAIN chunk.pages : chunk.pages[g].values \in Seq([Range(Schema) -> Int])
  BY FileType
<1> HIDE DEF chunk
<1>4. QED
  BY <1>1, <1>2, <1>3, SlotsAreFinite

\* What a log's statistics rule out,
LEMMA LogStatsAreCertain ==
    ASSUME NEW key \in DOMAIN Contents, NEW s, TruthfulStats(Contents[key], s), s.recorded,
           NEW c, c.op \in Ops, c.column \in Range(Schema), StatsRuleOut(s, c),
           NEW id \in RowIds(Contents[key])
    PROVE  ~RowMatches(c, ValueAt(Contents[key], id, c.column))
<1> DEFINE file == Contents[key]
           slots == RowIds(file)
           value == [i \in slots |-> ValueAt(file, i, c.column)]
           bounded == c.column \in DOMAIN s.min \cap DOMAIN s.max
           bounds == [usable |-> bounded, min |-> s.min[c.column], max |-> s.max[c.column]]
           nulls == IF c.column \in DOMAIN s.nulls THEN s.nulls[c.column] ELSE NotRecorded
           count == Cardinality(slots)
<1>1. value[id] = ValueAt(file, id, c.column)
  OBVIOUS
<1>2. {i \in slots : value[i] = Null} = {i \in slots : ValueAt(file, i, c.column) = Null}
  OBVIOUS
<1>3. {value[i] : i \in slots} = {ValueAt(file, i, c.column) : i \in slots}
  OBVIOUS
<1>4. /\ s.records = count
      /\ c.column \in DOMAIN s.nulls => s.nulls[c.column] = Cardinality({i \in slots : value[i] = Null})
      /\ bounded => /\ {s.min[c.column], s.max[c.column]} \subseteq DOMAIN Place
                    /\ Bound([usable |-> TRUE, min |-> s.min[c.column], max |-> s.max[c.column]],
                             {value[i] : i \in slots})
  BY <1>2, <1>3 DEF TruthfulStats
<1>5. IsFiniteSet(slots) /\ id \in slots
  BY RowIdsAreFinite
<1> HIDE DEF slots, value, file
<1>6. count \in Nat /\ count > 0
  <2>1. count \in Nat /\ count # 0
    BY <1>5, FS_CardinalityType, FS_EmptySet
  <2>2. QED
    BY <2>1
<1>7. Counted(nulls, {i \in slots : value[i] = Null})
  BY <1>4 DEF Counted
<1>8. Bound(bounds, {value[i] : i \in slots})
  <2>1. CASE bounded
    BY <1>4, <2>1 DEF Bound
  <2>2. CASE ~bounded
    BY <2>2 DEF Bound
  <2>3. QED
    BY <2>1, <2>2
<1>9. CASE c.op \in {"is null", "is not null"}
  <2>1. nulls = IF c.op = "is null" THEN 0 ELSE count
    BY <1>4, <1>9 DEF StatsRuleOut
  <2>2. AgainstBounds(c, bounds, nulls, count)
    BY <1>6, <1>9, <2>1 DEF AgainstBounds
  <2> HIDE DEF nulls, bounds
  <2>3. ~RowMatches(c, value[id])
    BY <1>5, <1>7, <1>8, <2>2, SkipIsCertain, TablesAreTruthful DEF Ordered
  <2>4. QED
    BY <1>1, <2>3 DEF file
<1>10. CASE c.op \notin {"is null", "is not null"}
  <2>1. bounded /\ RuledOut(c.op, Compare(c.value, bounds.min), Compare(c.value, bounds.max))
    BY <1>10 DEF StatsRuleOut
  <2>2. CASE c.value \in DOMAIN Place
    <3>1. Compare(c.value, bounds.min) # "none" /\ Compare(c.value, bounds.max) # "none"
      BY <1>4, <2>1, <2>2 DEF Compare
    <3>2. AgainstBounds(c, bounds, nulls, count)
      BY <1>10, <2>1, <3>1 DEF AgainstBounds
    <3> HIDE DEF nulls, bounds
    <3>3. ~RowMatches(c, value[id])
      BY <1>5, <1>7, <1>8, <3>2, SkipIsCertain, TablesAreTruthful DEF Ordered
    <3>4. QED
      BY <1>1, <3>3 DEF file
  <2>3. CASE c.value \notin DOMAIN Place
    <3>1. Compare(value[id], c.value) = "none"
      BY <2>3 DEF Compare
    <3>2. ~OpMatches(c.op, Compare(value[id], c.value))
      BY <1>10, <3>1 DEF OpMatches, Ops
    <3>3. ~RowMatches(c, value[id])
      BY <1>10, <3>2 DEF RowMatches
    <3>4. QED
      BY <1>1, <3>3 DEF file
  <2>4. QED
    BY <2>2, <2>3
<1>11. QED
  BY <1>9, <1>10

\* and what a row group's do.
LEMMA GroupStatsAreCertain ==
    ASSUME NEW key \in DOMAIN Contents, NEW g \in DOMAIN Contents[key].groups,
           NEW c, c.op \in Ops, c.column \in Range(Schema),
           StatisticsSkip(Contents[key], Contents[key].groups[g].columns[c.column], c),
           NEW i \in DOMAIN Contents[key].groups[g].rows
    PROVE  ~RowMatches(c, Contents[key].groups[g].rows[i][c.column])
<1> DEFINE file == Contents[key]
           group == file.groups[g]
           chunk == group.columns[c.column]
           slots == DOMAIN group.rows
           value == [j \in slots |-> group.rows[j][c.column]]
           bounds == Bounds(file, chunk.stats)
<1>1. group.rows \in Seq([Range(Schema) -> Int]) /\ TruthfulGroup(file, group)
  BY FileType
<1>2. Len(group.rows) \in Nat /\ slots = 1 .. Len(group.rows)
  BY <1>1, LenProperties
<1>3. IsFiniteSet(slots) /\ Cardinality(slots) = Len(group.rows)
  <2> DEFINE n == Len(group.rows)
  <2>1. n \in Nat /\ slots = 1 .. n
    BY <1>2
  <2> HIDE DEF n, slots
  <2>2. IsFiniteSet(1 .. n) /\ Cardinality(1 .. n) = n
    BY <2>1, FS_Interval
  <2>3. QED
    BY <2>1, <2>2 DEF n
<1>4. chunk.stats.kind # "none" /\ AgainstBounds(c, bounds, chunk.stats.nulls, chunk.num_values)
  BY DEF StatisticsSkip
<1>5. {j \in slots : value[j] = Null} = {j \in slots : group.rows[j][c.column] = Null}
  OBVIOUS
<1>6. {value[j] : j \in slots} = {group.rows[j][c.column] : j \in slots}
  OBVIOUS
<1> HIDE DEF bounds, value
<1>7. /\ chunk.num_values = Len(group.rows)
      /\ Counted(chunk.stats.nulls, {j \in slots : value[j] = Null})
      /\ Bound(bounds, {value[j] : j \in slots})
  BY <1>1, <1>4, <1>5, <1>6 DEF TruthfulGroup, bounds
<1>8. value[i] = group.rows[i][c.column]
  BY DEF value
<1> HIDE DEF slots, chunk, group, file
<1>9. AgainstBounds(c, bounds, chunk.stats.nulls, Cardinality(slots)) /\ i \in slots
  BY <1>3, <1>4, <1>7 DEF slots, group, file
<1>10. ~RowMatches(c, value[i])
  BY <1>3, <1>7, <1>9, SkipIsCertain, TablesAreTruthful DEF Ordered
<1>11. QED
  BY <1>8, <1>10 DEF group, file

\* A row a condition of the query refuses is not met; Accepts is what it does.
LEMMA RefusedIsNotMet ==
    ASSUME NEW c \in query.conditions, NEW r, ~Accepts(c, r)
    PROVE  r \notin Met
BY DEF Met

\* A row group the scan skips holds no row that is met.
LEMMA SkippedGroupsMeetNothing ==
    ASSUME ReadQuery(query), NEW key \in DOMAIN Contents, NEW g \in DOMAIN Contents[key].groups,
           GroupSkipped(Contents[key], Contents[key].groups[g])
    PROVE  Keeping(GroupRows(Contents[key], Contents[key].groups[g]), Met) = << >>
<1> DEFINE file == Contents[key]
           group == file.groups[g]
           rs == GroupRows(file, group)
<1>1. PICK c \in query.conditions :
         c.column \in Range(Schema) /\ StatisticsSkip(file, group.columns[c.column], c)
  BY DEF GroupSkipped
<1>2. c.op \in Ops
  BY DEF ReadQuery
<1>3. /\ rs \in Seq(Row) /\ DOMAIN rs = DOMAIN group.rows
      /\ \A i \in DOMAIN rs : rs[i][c.column] = group.rows[i][c.column]
  BY <1>1, GroupRowsType
<1>4. \A i \in DOMAIN group.rows : ~RowMatches(c, group.rows[i][c.column])
  BY <1>1, <1>2, GroupStatsAreCertain
<1> HIDE DEF rs, group
<1>5. ASSUME NEW i \in DOMAIN rs
      PROVE  rs[i] \notin Met
  <2>1. ~Accepts(c, rs[i])
    BY <1>1, <1>3, <1>4 DEF Accepts
  <2>2. QED
    BY <2>1, RefusedIsNotMet
<1>6. Range(rs) \cap Met = {}
  BY <1>5 DEF Range
<1>7. Keeping(rs, Met) = << >>
  BY <1>3, <1>6, KeepingNothing
<1>8. QED
  BY <1>7 DEF rs, group

\* A file's row groups, by the rows met in each.
LEMMA GroupsMetType ==
    ASSUME NEW key \in DOMAIN Contents
    PROVE  /\ GroupsMet(Contents[key]) \in Seq(Seq(Row))
           /\ DOMAIN GroupsMet(Contents[key]) = DOMAIN Contents[key].groups
           /\ FileMet(key) \in Seq(Row)
<1> DEFINE file == Contents[key]
           n == Len(file.groups)
           met == GroupsMet(file)
<1>1. n \in Nat /\ DOMAIN file.groups = 1 .. n
  BY FileType, LenProperties
<1>2. \A g \in DOMAIN file.groups : Keeping(GroupRows(file, file.groups[g]), Met) \in Seq(Row)
  BY GroupRowsType, KeepingType
<1>3. met \in [1 .. n -> Seq(Row)]
  BY <1>1, <1>2 DEF GroupsMet
<1> HIDE DEF n, met
<1>4. met \in Seq(Seq(Row)) /\ DOMAIN met = 1 .. n
  BY <1>1, <1>3, SeqDef
<1>5. FlattenSeq(met) \in Seq(Row)
  BY <1>4, FlattenFacts
<1>6. QED
  BY <1>1, <1>4, <1>5 DEF met, FileMet

\* The scan of a file leaves out none of the rows that are met in it.
LEMMA ScanKeepsWhatIsMet ==
    ASSUME ReadQuery(query), NEW f, f.key \in DOMAIN Contents,
           f.partition = Contents[f.key].partition
    PROVE  SourceRows(f) \in Seq(Row) /\ Keeping(SourceRows(f), Met) = FileMet(f.key)
<1> DEFINE file == Contents[f.key]
           n == Len(file.groups)
           Scanned(g) == IF GroupSkipped(file, file.groups[g]) THEN << >> ELSE GroupRows(f, file.groups[g])
           ss == [g \in DOMAIN file.groups |-> Scanned(g)]
           kept == [g \in DOMAIN ss |-> Keeping(ss[g], Met)]
<1>1. n \in Nat /\ DOMAIN file.groups = 1 .. n
  BY FileType, LenProperties
<1>2. ASSUME NEW g \in DOMAIN file.groups
      PROVE  /\ Scanned(g) \in Seq(Row)
             /\ Keeping(Scanned(g), Met) = Keeping(GroupRows(file, file.groups[g]), Met)
  <2>1. CASE GroupSkipped(file, file.groups[g])
    <3>1. Scanned(g) = << >> /\ << >> \in Seq(Row)
      BY <2>1
    <3>2. Keeping(GroupRows(file, file.groups[g]), Met) = << >>
      BY <2>1, SkippedGroupsMeetNothing
    <3>3. Keeping(<< >>, Met) = << >>
      BY KeepingNone
    <3>4. QED
      BY <3>1, <3>2, <3>3
  <2>2. CASE ~GroupSkipped(file, file.groups[g])
    <3>1. Scanned(g) = GroupRows(f, file.groups[g])
      BY <2>2
    <3>2. /\ GroupRows(f, file.groups[g]) = GroupRows(file, file.groups[g])
          /\ GroupRows(f, file.groups[g]) \in Seq(Row)
      BY GroupRowsType
    <3>3. QED
      BY <3>1, <3>2
  <2>3. QED
    BY <2>1, <2>2
<1> HIDE DEF Scanned
<1>3. ss \in [1 .. n -> Seq(Row)]
  BY <1>1, <1>2
<1>4. kept = GroupsMet(file)
  BY <1>2 DEF GroupsMet
<1>5. SourceRows(f) = FlattenSeq(ss)
  BY DEF SourceRows, Scanned
<1> HIDE DEF n, ss
<1>6. ss \in Seq(Seq(Row))
  BY <1>1, <1>3, SeqDef
<1>7. FlattenSeq(ss) \in Seq(Row) /\ Keeping(FlattenSeq(ss), Met) = FlattenSeq(kept)
  BY <1>6, FlattenFacts, KeepingFlatten
<1>8. QED
  BY <1>4, <1>5, <1>7 DEF FileMet

\* What is known of a file is true of it.
KnownTruly(f) ==
    /\ f.key \in DOMAIN Contents
    /\ f.partition = Contents[f.key].partition
    /\ TruthfulStats(Contents[f.key], f.stats)

\* A file is not ruled out by a condition that one of its rows meets.
LEMMA RuledOutFilesMeetNothing ==
    ASSUME ReadQuery(query), NEW f, KnownTruly(f), NEW c \in query.conditions,
           c.column \in Columns, NEW useStats, RulesOut(f, c, useStats)
    PROVE  FileMet(f.key) = << >>
<1> DEFINE file == Contents[f.key]
           col == c.column
           met == GroupsMet(file)
<1>1. /\ f.key \in DOMAIN Contents /\ f.partition = file.partition
      /\ file.partition \in [Range(PartitionColumns) -> Int \ {Null}]
  BY FileType DEF KnownTruly
<1>2. c.op \in Ops
  BY DEF ReadQuery
<1>3. ASSUME NEW g \in DOMAIN file.groups
      PROVE  Keeping(GroupRows(file, file.groups[g]), Met) = << >>
  <2> DEFINE rs == GroupRows(file, file.groups[g])
  <2>1. /\ rs \in Seq(Row) /\ DOMAIN rs = DOMAIN file.groups[g].rows
        /\ \A i \in DOMAIN rs :
              /\ col \in Range(Schema) => rs[i][col] = file.groups[g].rows[i][col]
              /\ col \in Range(PartitionColumns) => rs[i][col] = file.partition[col]
    <3>1. f.key \in DOMAIN Contents /\ g \in DOMAIN Contents[f.key].groups
      BY <1>1
    <3>2. /\ rs \in Seq(Row) /\ DOMAIN rs = DOMAIN Contents[f.key].groups[g].rows
          /\ \A i \in DOMAIN rs :
                /\ \A k \in Range(Schema) : rs[i][k] = Contents[f.key].groups[g].rows[i][k]
                /\ \A k \in Range(PartitionColumns) : rs[i][k] = Contents[f.key].partition[k]
      BY <3>1, GroupRowsType
    <3> HIDE DEF rs
    <3>3. QED
      BY <3>2
  <2> HIDE DEF rs
  <2>2. ASSUME NEW i \in DOMAIN rs
        PROVE  ~Accepts(c, rs[i])
    <3>1. CASE col \in Range(PartitionColumns)
      <4>1. col \notin Range(Schema) /\ col \in DOMAIN f.partition
        BY <1>1, <3>1, TablesAreTruthful
      <4>2. PartitionRulesOut(f, c)
        BY <4>1 DEF RulesOut
      <4>3. rs[i][col] = f.partition[col] /\ rs[i][col] # Null
        BY <1>1, <2>1, <3>1
      <4>4. QED
        BY <1>2, <4>1, <4>2, <4>3 DEF PartitionRulesOut, Accepts, Nullness
    <3>2. CASE col \notin Range(PartitionColumns)
      <4>1. col \in Range(Schema) /\ col \notin DOMAIN f.partition
        BY <1>1, <3>2 DEF Columns
      <4>2. f.stats.recorded /\ StatsRuleOut(f.stats, c)
        BY <4>1 DEF RulesOut
      <4>3. <<g, i>> \in RowIds(file)
        BY <2>1 DEF RowIds
      <4>4. ValueAt(file, <<g, i>>, col) = rs[i][col]
        BY <2>1, <4>1 DEF ValueAt
      <4>5. ~RowMatches(c, ValueAt(file, <<g, i>>, col))
        BY <1>1, <1>2, <4>1, <4>2, <4>3, LogStatsAreCertain DEF KnownTruly
      <4>6. QED
        BY <4>1, <4>4, <4>5 DEF Accepts
    <3>3. QED
      BY <3>1, <3>2
  <2>3. Range(rs) \cap Met = {}
    BY <2>2, RefusedIsNotMet DEF Range
  <2>4. Keeping(rs, Met) = << >>
    BY <2>1, <2>3, KeepingNothing
  <2>5. QED
    BY <2>4 DEF rs
<1>4. met \in Seq(Seq(Row)) /\ DOMAIN met = DOMAIN file.groups
  BY <1>1, GroupsMetType
<1>5. \A g \in DOMAIN met : met[g] = << >>
  BY <1>3, <1>4 DEF GroupsMet
<1>6. FlattenSeq(met) = << >>
  BY <1>4, <1>5, FlattenNothing
<1>7. QED
  BY <1>6 DEF FileMet

(***************************************************************************)
(* What is found of a table                                                *)
(***************************************************************************)
\* The files a log adds, and the columns it gives.
Added(log) == {TableFile(log[i].path, log[i].partition, log[i].stats) :
                  i \in {j \in DOMAIN log : log[j].kind = "add"}}
Given(log) == {<< >>} \cup {log[i].columns : i \in {j \in DOMAIN log : log[j].kind = "metaData"}}

\* The files a log leaves are some it adds, the columns some it gives.
LEMMA ReadLogType ==
    ASSUME NEW log, log \in Seq(Range(log)), \A i \in DOMAIN log : TruthfulAction(log[i])
    PROVE  ReadLog(log).files \in Seq(Added(log)) /\ ReadLog(log).columns \in Given(log)
<1> DEFINE n == Len(log)
           State == [files : Seq(Added(log)), columns : Given(log)]
           none == [files |-> << >>, columns |-> << >>]
           step == [p \in (1 .. n) \X State |-> LogAction(p[2], log[p[1]])]
           Runs(read) == read = [m \in 0 .. n |-> IF m = 0 THEN none ELSE LogAction(read[m - 1], log[m])]
           chosen == CHOOSE read : Runs(read)
<1>1. n \in Nat /\ DOMAIN log = 1 .. n
  BY LenProperties
<1>2. none \in State
  BY DEF Given
<1>3. ASSUME NEW state \in State, NEW m \in 1 .. n
      PROVE  LogAction(state, log[m]) \in State
  <2> DEFINE action == log[m]
  <2>1. m \in DOMAIN log /\ action.kind \in {"metaData", "remove", "add"}
    BY <1>1 DEF TruthfulAction
  <2>2. CASE action.kind = "metaData"
    <3>1. LogAction(state, action) = [state EXCEPT !.columns = action.columns]
      BY <2>2 DEF LogAction
    <3>2. action.columns \in Given(log)
      BY <2>1, <2>2 DEF Given
    <3>3. QED
      BY <3>1, <3>2
  <2>3. CASE action.kind = "remove"
    <3> DEFINE others == {f \in Range(state.files) : f.key # action.path}
    <3>1. LogAction(state, action) = [state EXCEPT !.files = Keeping(state.files, others)]
      BY <2>3 DEF LogAction
    <3> HIDE DEF others
    <3>2. Keeping(state.files, others) \in Seq(Added(log))
      BY KeepingType
    <3>3. QED
      BY <3>1, <3>2
  <2>4. CASE action.kind = "add"
    <3> DEFINE file == TableFile(action.path, action.partition, action.stats)
    <3>1. LogAction(state, action) = [state EXCEPT !.files = Append(state.files, file)]
      BY <2>4 DEF LogAction
    <3>2. file \in Added(log)
      BY <2>1, <2>4 DEF Added
    <3> HIDE DEF file
    <3>3. Append(state.files, file) \in Seq(Added(log))
      BY <3>2, AppendProperties
    <3>4. QED
      BY <3>1, <3>3
  <2>5. QED
    BY <2>1, <2>2, <2>3, <2>4
<1>4. ReadLog(log) = chosen[n]
  BY DEF ReadLog
<1> HIDE DEF State, none
<1>5. step \in [(1 .. n) \X State -> State]
  BY <1>3
<1>6. \A m \in 1 .. n, state \in State : step[<<m, state>>] = LogAction(state, log[m])
  OBVIOUS
<1> HIDE DEF step, n
<1>7. PICK f : Recurs(f, n, State, none, step)
  BY <1>1, <1>2, <1>5, RecursionExists
<1>8. f \in [0 .. n -> State] /\ f[0] = none /\ \A m \in 1 .. n : f[m] = step[<<m, f[m - 1]>>]
  BY <1>7 DEF Recurs
<1>9. \A m \in 1 .. n : m - 1 \in 0 .. n /\ f[m] = LogAction(f[m - 1], log[m])
  <2>1. \A m \in 1 .. n : m - 1 \in 0 .. n
    BY <1>1
  <2>2. QED
    BY <1>6, <1>8, <2>1
<1>10. Runs(f)
  <2>1. \A m \in 0 .. n : m # 0 => m \in 1 .. n
    BY <1>1
  <2>2. QED
    BY <1>8, <1>9, <2>1
<1>11. Runs(chosen)
  BY <1>10
<1>12. /\ chosen[0] = none
       /\ \A m \in 1 .. n : chosen[m] = LogAction(chosen[m - 1], log[m])
  <2> HIDE DEF chosen
  <2>1. 0 \in 0 .. n /\ \A m \in 1 .. n : m \in 0 .. n /\ m # 0
    BY <1>1
  <2>2. QED
    BY <1>11, <2>1
<1> HIDE DEF chosen
<1> DEFINE Good == {m \in Nat : m <= n => chosen[m] \in State}
<1>13. 0 \in Good
  BY <1>2, <1>12
<1>14. ASSUME NEW m \in Nat, m \in Good
       PROVE  m + 1 \in Good
  <2> SUFFICES ASSUME m + 1 <= n
               PROVE  chosen[m + 1] \in State
    OBVIOUS
  <2>1. m + 1 \in 1 .. n /\ (m + 1) - 1 = m /\ m <= n
    BY <1>1
  <2>2. chosen[m] \in State
    BY <1>14, <2>1
  <2>3. QED
    BY <1>3, <1>12, <2>1, <2>2
<1> HIDE DEF Good
<1>15. n \in Good
  BY <1>1, <1>13, <1>14, NumberInduction
<1>16. chosen[n] \in State
  BY <1>1, <1>15 DEF Good
<1>17. QED
  BY <1>4, <1>16 DEF State

\* A log's columns, when it gives them, are the table's.
LEMMA LogColumns ==
    ASSUME table \in DOMAIN Tables
    PROVE  LET c == ReadLog(Tables[table].log).columns IN c = << >> \/ Range(c) = Columns
<1> DEFINE log == Tables[table].log
<1>1. log \in Seq(Range(log)) /\ \A i \in DOMAIN log : TruthfulAction(log[i])
  BY TablesAreTruthful DEF TruthfulTable
<1> HIDE DEF log
<1>2. ReadLog(log).columns \in Given(log)
  BY <1>1, ReadLogType
<1>3. QED
  BY <1>1, <1>2 DEF Given, TruthfulAction, log

\* Of what is found all is known truly, if it is in the store.
LEMMA FoundType ==
    ASSUME table \in DOMAIN Tables, NEW d
    PROVE  /\ Found(d) \in Seq(Range(Found(d)))
           /\ \A f \in Range(Found(d)) :
                 /\ f.read /\ f = TableFile(f.key, f.partition, f.stats)
                 /\ f.key \in DOMAIN ObjectSize => KnownTruly(f)
           /\ d # "Log" => \A f \in Range(Found(d)) : KnownTruly(f)
<1>1. CASE d = "Log"
  <2> DEFINE log == Tables[table].log
             added == ReadLog(log).files
  <2>1. log \in Seq(Range(log)) /\ \A i \in DOMAIN log : TruthfulAction(log[i])
    BY TablesAreTruthful DEF TruthfulTable
  <2>2. Found(d) = added
    BY <1>1 DEF Found
  <2> HIDE DEF log
  <2>3. added \in Seq(Added(log))
    BY <2>1, ReadLogType
  <2> HIDE DEF added
  <2>4. added \in Seq(Range(added)) /\ \A i \in DOMAIN added : added[i] \in Added(log)
    BY <2>3, OwnRange
  <2>5. ASSUME NEW f \in Added(log)
        PROVE  /\ f.read /\ f = TableFile(f.key, f.partition, f.stats)
               /\ f.key \in DOMAIN ObjectSize => KnownTruly(f)
    <3>1. PICK i \in DOMAIN log : log[i].kind = "add" /\ f = TableFile(log[i].path, log[i].partition, log[i].stats)
      BY DEF Added
    <3>2. f.key = log[i].path /\ f.partition = log[i].partition /\ f.stats = log[i].stats /\ f.read
      BY <3>1 DEF TableFile
    <3>3. QED
      BY <2>1, <3>1, <3>2 DEF TruthfulAction, KnownTruly
  <2>6. \A f \in Range(added) : f \in Added(log)
    BY <2>4 DEF Range
  <2>7. QED
    BY <1>1, <2>2, <2>4, <2>5, <2>6
<1>2. CASE d # "Log"
  <2> DEFINE keys == Tables[table].listing
             n == Len(keys)
             of(key) == TableFile(key, Contents[key].partition, NoStats)
  <2>1. keys \in Seq(DOMAIN Contents)
    BY TablesAreTruthful DEF TruthfulTable
  <2>2. n \in Nat /\ DOMAIN keys = 1 .. n /\ \A i \in 1 .. n : keys[i] \in DOMAIN Contents
    BY <2>1, LenProperties, ElementOfSeq
  <2>3. Found(d) = [i \in 1 .. n |-> of(keys[i])]
    BY <1>2, <2>2 DEF Found, Listed
  <2>4. ASSUME NEW key \in DOMAIN Contents
        PROVE  LET f == of(key)
               IN  f.read /\ f = TableFile(f.key, f.partition, f.stats) /\ KnownTruly(f)
    <3>1. /\ of(key).key = key /\ of(key).partition = Contents[key].partition
          /\ of(key).stats = NoStats /\ of(key).read
      BY DEF TableFile
    <3>2. ~NoStats.recorded
      <4>1. NoStats.recorded = FALSE
        BY DEF NoStats
      <4>2. QED
        BY <4>1
    <3>3. TruthfulStats(Contents[key], NoStats)
      BY <3>2 DEF TruthfulStats
    <3>4. QED
      BY <3>1, <3>3 DEF KnownTruly
  <2> HIDE DEF of, keys, n
  <2>5. Found(d) \in Seq({of(key) : key \in DOMAIN Contents})
    BY <2>2, <2>3, SeqDef
  <2>6. Found(d) \in Seq(Range(Found(d))) /\ \A i \in DOMAIN Found(d) : Found(d)[i] \in {of(key) : key \in DOMAIN Contents}
    BY <2>5, OwnRange
  <2>7. \A f \in Range(Found(d)) : \E key \in DOMAIN Contents : f = of(key)
    BY <2>6 DEF Range
  <2>8. QED
    BY <1>2, <2>4, <2>6, <2>7
<1>3. QED
  BY <1>1, <1>2

\* The plan is of the files that were found.
LEMMA PlanType ==
    ASSUME table \in DOMAIN Tables, NEW d
    PROVE  /\ Plan(d) \in Seq(Range(Plan(d)))
           /\ DOMAIN Plan(d) = DOMAIN Found(d) /\ Len(Plan(d)) = Len(Found(d))
           /\ \A i \in DOMAIN Found(d) :
                 /\ Plan(d)[i].key = Found(d)[i].key
                 /\ Plan(d)[i].partition = Found(d)[i].partition
                 /\ Plan(d)[i].stats = Found(d)[i].stats
                 /\ Plan(d)[i].read = Survives(Found(d)[i], d)
<1> DEFINE n == Len(Found(d))
<1>1. n \in Nat /\ DOMAIN Found(d) = 1 .. n /\ \A i \in 1 .. n : Found(d)[i] \in Range(Found(d))
  BY FoundType, LenProperties, ElementOfSeq
<1>2. Plan(d) = [i \in 1 .. n |-> [Found(d)[i] EXCEPT !.read = Survives(Found(d)[i], d)]]
  BY <1>1 DEF Plan
<1>3. ASSUME NEW i \in 1 .. n
      PROVE  /\ Plan(d)[i].key = Found(d)[i].key
             /\ Plan(d)[i].partition = Found(d)[i].partition
             /\ Plan(d)[i].stats = Found(d)[i].stats
             /\ Plan(d)[i].read = Survives(Found(d)[i], d)
  <2> DEFINE f == Found(d)[i]
  <2>1. f = TableFile(f.key, f.partition, f.stats)
    BY <1>1, FoundType
  <2>2. Plan(d)[i] = [f EXCEPT !.read = Survives(f, d)]
    BY <1>2
  <2> HIDE DEF f
  <2>3. DOMAIN f = {"key", "partition", "stats", "read"}
    BY <2>1 DEF TableFile
  <2>4. QED
    BY <2>2, <2>3 DEF f
<1> HIDE DEF n
<1>4. Plan(d) \in [1 .. n -> Range(Plan(d))]
  BY <1>2 DEF Range
<1>5. Plan(d) \in Seq(Range(Plan(d)))
  BY <1>1, <1>4, SeqDef
<1>6. DOMAIN Plan(d) = 1 .. n /\ DOMAIN Plan(d) = 1 .. Len(Plan(d)) /\ Len(Plan(d)) \in Nat
  BY <1>2, <1>5, LenProperties
<1>7. QED
  BY <1>1, <1>3, <1>5, <1>6 DEF n

\* All there is to know of the files of a plan whose objects are in the store.
LEMMA PlansAreKnown ==
    ASSUME table \in DOMAIN Tables, NEW d, Ready(d)
    PROVE  \A f \in Range(Plan(d)) : KnownTruly(f)
<1> SUFFICES ASSUME NEW i \in DOMAIN Plan(d)
             PROVE  KnownTruly(Plan(d)[i])
  BY DEF Range
<1>1. i \in DOMAIN Found(d) /\ Found(d)[i] \in Range(Found(d))
  BY PlanType DEF Range
<1>2. Found(d)[i].key \in DOMAIN ObjectSize
  BY <1>1 DEF Ready, Stored
<1>3. KnownTruly(Found(d)[i])
  BY <1>1, <1>2, FoundType
<1>4. /\ Plan(d)[i].key = Found(d)[i].key
      /\ Plan(d)[i].partition = Found(d)[i].partition
      /\ Plan(d)[i].stats = Found(d)[i].stats
  BY <1>1, PlanType
<1>5. QED
  BY <1>3, <1>4 DEF KnownTruly

\* Of the files ruled out no row is missed: the rows met in those that are read are the table's.
LEMMA PlansMissNothing ==
    ASSUME table \in DOMAIN Tables, ReadQuery(query), NEW d, Ready(d)
    PROVE  LET scanned == FlattenSeq([i \in DOMAIN KeptOf(d) |-> SourceRows(KeptOf(d)[i])])
           IN  scanned \in Seq(Row) /\ Keeping(scanned, Met) = TableMet(d)
<1> DEFINE A == Range(Plan(d))
           S == {f \in A : f.read}
           g == [f \in A |-> SourceRows(f)]
           h == [f \in A |-> FileMet(f.key)]
           kept == KeptOf(d)
           ss == Each(g, kept)
<1>1. Plan(d) \in Seq(A) /\ \A f \in A : KnownTruly(f)
  BY PlanType, PlansAreKnown
<1>2. \A f \in A : /\ g[f] = SourceRows(f) /\ h[f] = FileMet(f.key)
                   /\ g[f] \in Seq(Row) /\ Keeping(g[f], Met) = h[f]
                   /\ h[f] \in Seq(Row)
  <2> SUFFICES ASSUME NEW f \in A
               PROVE  /\ SourceRows(f) \in Seq(Row) /\ Keeping(SourceRows(f), Met) = FileMet(f.key)
                      /\ FileMet(f.key) \in Seq(Row)
    OBVIOUS
  <2>1. f.key \in DOMAIN Contents /\ f.partition = Contents[f.key].partition
    BY <1>1 DEF KnownTruly
  <2>2. QED
    BY <2>1, ScanKeepsWhatIsMet, GroupsMetType
<1>3. kept \in Seq(A)
  <2> HIDE DEF A
  <2>1. Keeping(Plan(d), S) \in Seq(A)
    BY <1>1, KeepingType
  <2>2. QED
    BY <2>1 DEF KeptOf, A
<1>4. ASSUME NEW f \in A, f \notin S
      PROVE  h[f] = << >>
  <2>1. PICK i \in DOMAIN Found(d) : f = Plan(d)[i]
    BY PlanType DEF Range
  <2>2. ~Survives(Found(d)[i], d)
    BY <1>4, <2>1, PlanType
  <2>3. PICK c \in query.conditions : RulesOut(Found(d)[i], c, d = "Log")
    BY <2>2 DEF Survives
  <2>4. RulesOut(f, c, d = "Log")
    BY <2>1, <2>3, PlanType DEF RulesOut, PartitionRulesOut
  <2>5. c.column \in Columns
    BY DEF Ready, Valid, Named
  <2>6. FileMet(f.key) = << >>
    BY <1>1, <2>4, <2>5, RuledOutFilesMeetNothing
  <2>7. QED
    BY <1>2, <2>6
<1>5. [i \in DOMAIN kept |-> SourceRows(kept[i])] = ss
  <2> HIDE DEF A, g, kept
  <2>1. \A i \in DOMAIN kept : kept[i] \in A
    BY <1>3, ElementOfSeq, LenProperties
  <2>2. QED
    BY <1>2, <2>1 DEF Each
<1> HIDE DEF A, S, g, h, kept
<1>6. ss \in Seq(Seq(Row))
  BY <1>2, <1>3, EachType
<1>7. FlattenSeq(ss) \in Seq(Row)
      /\ Keeping(FlattenSeq(ss), Met) = FlattenSeq([i \in DOMAIN ss |-> Keeping(ss[i], Met)])
  BY <1>6, FlattenFacts, KeepingFlatten
<1>8. [i \in DOMAIN ss |-> Keeping(ss[i], Met)] = Each(h, kept)
  <2>1. \A i \in DOMAIN kept : kept[i] \in A
    BY <1>3, ElementOfSeq, LenProperties
  <2>2. QED
    BY <1>2, <2>1 DEF Each
<1>9. FlattenSeq(Each(h, kept)) = FlattenSeq(Each(h, Plan(d)))
  <2>1. \A f \in A : h[f] \in Seq(Row)
    BY <1>2
  <2>2. \A f \in A : f \notin S => h[f] = << >>
    BY <1>4
  <2>3. FlattenSeq(Each(h, Keeping(Plan(d), S))) = FlattenSeq(Each(h, Plan(d)))
    BY <1>1, <2>1, <2>2, FlattenKept
  <2>4. QED
    BY <2>3 DEF kept, KeptOf, S, A
<1>10. Each(h, Plan(d)) = [i \in DOMAIN Found(d) |-> FileMet(Found(d)[i].key)]
  <2>1. \A i \in DOMAIN Plan(d) : Plan(d)[i] \in A
    BY <1>1, ElementOfSeq, LenProperties
  <2>2. \A i \in DOMAIN Plan(d) : h[Plan(d)[i]] = FileMet(Found(d)[i].key)
    BY <1>2, <2>1, PlanType
  <2>3. QED
    BY <2>2, PlanType DEF Each
<1>11. Keeping(FlattenSeq(ss), Met) = TableMet(d)
  BY <1>7, <1>8, <1>9, <1>10 DEF TableMet
<1>12. QED
  BY <1>5, <1>7, <1>11 DEF kept

\* The columns of the engine's rows.
LEMMA ColumnsInOrder ==
    /\ Schema \o PartitionColumns \in Seq(Columns)
    /\ Range(Schema \o PartitionColumns) = Columns
<1>1. Schema \in Seq(Columns) /\ PartitionColumns \in Seq(Columns)
  <2>1. Schema \in Seq(Range(Schema)) /\ PartitionColumns \in Seq(Range(PartitionColumns))
    BY TablesAreTruthful
  <2>2. QED
    BY <2>1, SeqMonotonic DEF Columns
<1>2. ToSet(Schema \o PartitionColumns) = ToSet(Schema) \cup ToSet(PartitionColumns)
  BY <1>1, ConcatFacts
<1>3. QED
  BY <1>1, <1>2, ConcatProperties DEF ToSet, Range, Columns

\* What the columns of a scan are, and that the result's names follow from them.
LEMMA NamesType ==
    ASSUME NEW known
    PROVE  LET ns == Keeping(Schema \o PartitionColumns, known)
           IN  /\ Range(ns) = Columns \cap known
               /\ Columns \subseteq known => ns = Schema \o PartitionColumns
BY ColumnsInOrder, KeepingRange, KeepingAll

\* The names of the result, when those of the rows scanned are ns.
OutNamesOf(ns) ==
    FlattenSeq([i \in DOMAIN query.items |->
        IF query.items[i].agg = "star" THEN [j \in DOMAIN ns |-> Column(ns[j])]
        ELSE << query.items[i] >>])

\* The names of the result, in terms of those of the rows,
LEMMA OutNamesNow == OutNames = OutNamesOf(names)
BY DEF OutNames, OutNamesOf

\* which do not matter without `*`
LEMMA NoStarNames ==
    ASSUME NEW ns, ~HasStar
    PROVE  OutNamesOf(ns) = ResultNames
BY DEF HasStar, OutNamesOf, ResultNames

\* and are the table's when all of its columns are scanned.
LEMMA AllNames == OutNamesOf(Schema \o PartitionColumns) = ResultNames
<1> DEFINE ns == Schema \o PartitionColumns
           of(i) == IF query.items[i].agg = "star"
                    THEN [j \in DOMAIN ns |-> Column(ns[j])] ELSE << query.items[i] >>
           as(i) == IF query.items[i].agg # "star" THEN << query.items[i] >>
                    ELSE [j \in DOMAIN ns |-> Column(ns[j])]
<1>1. \A i : of(i) = as(i)
  OBVIOUS
<1> HIDE DEF of, as
<1>2. [i \in DOMAIN query.items |-> of(i)] = [i \in DOMAIN query.items |-> as(i)]
  BY <1>1
<1>3. OutNamesOf(ns) = FlattenSeq([i \in DOMAIN query.items |-> of(i)])
  BY DEF OutNamesOf, of
<1>4. ResultNames = FlattenSeq([i \in DOMAIN query.items |-> as(i)])
  BY DEF ResultNames, as
<1>5. QED
  BY <1>2, <1>3, <1>4

\* The names of the result: each item, and for `*` every column of the rows.
LEMMA OutNamesRange ==
    ASSUME ReadQuery(query), NEW ns \in Seq(Columns)
    PROVE  /\ \A i \in DOMAIN query.items : query.items[i].agg # "star" => query.items[i] \in Range(OutNamesOf(ns))
           /\ HasStar => \A c \in Range(ns) : Column(c) \in Range(OutNamesOf(ns))
<1> DEFINE A == Range(query.items) \cup {Column(c) : c \in Columns}
           n == Len(query.items)
           of(i) == IF query.items[i].agg = "star"
                    THEN [j \in DOMAIN ns |-> Column(ns[j])] ELSE << query.items[i] >>
           ss == [i \in DOMAIN query.items |-> of(i)]
<1>1. n \in Nat /\ DOMAIN query.items = 1 .. n
  BY LenProperties DEF ReadQuery
<1>2. ASSUME NEW i \in DOMAIN query.items
      PROVE  of(i) \in Seq(A)
  <2>1. CASE query.items[i].agg = "star"
    <3> DEFINE m == Len(ns)
               s == [j \in DOMAIN ns |-> Column(ns[j])]
    <3>1. m \in Nat /\ DOMAIN ns = 1 .. m /\ \A j \in 1 .. m : ns[j] \in Columns
      BY LenProperties, ElementOfSeq
    <3>2. s \in [1 .. m -> A]
      BY <3>1
    <3>3. of(i) = s
      BY <2>1
    <3> HIDE DEF s, m, of, A
    <3>4. s \in Seq(A)
      BY <3>1, <3>2, SeqDef
    <3>5. QED
      BY <3>3, <3>4
  <2>2. CASE query.items[i].agg # "star"
    <3>1. query.items[i] \in A
      BY DEF Range
    <3> HIDE DEF A
    <3>2. QED
      BY <2>2, <3>1
  <2>3. QED
    BY <2>1, <2>2
<1> HIDE DEF A, of
<1>3. ss \in [1 .. n -> Seq(A)]
  BY <1>1, <1>2
<1>4. OutNamesOf(ns) = FlattenSeq(ss)
  BY DEF OutNamesOf, of
<1> HIDE DEF n, ss
<1>5. ss \in Seq(Seq(A))
  BY <1>1, <1>3, SeqDef
<1>6. \A y : y \in ToSet(OutNamesOf(ns)) <=> \E i \in DOMAIN ss : y \in ToSet(ss[i])
  BY <1>4, <1>5, FlattenFacts
<1>7. \A i \in DOMAIN query.items : \A y \in ToSet(of(i)) : y \in Range(OutNamesOf(ns))
  BY <1>6 DEF ss, ToSet, Range
<1>8. ASSUME NEW i \in DOMAIN query.items, query.items[i].agg # "star"
      PROVE  query.items[i] \in Range(OutNamesOf(ns))
  <2>1. query.items[i] \in ToSet(of(i))
    BY <1>8 DEF of, ToSet
  <2>2. QED
    BY <1>7, <2>1
<1>9. ASSUME HasStar, NEW c \in Range(ns)
      PROVE  Column(c) \in Range(OutNamesOf(ns))
  <2>1. PICK i \in DOMAIN query.items : query.items[i].agg = "star"
    BY <1>9 DEF HasStar
  <2>2. Column(c) \in ToSet(of(i))
    BY <2>1 DEF of, ToSet, Range
  <2>3. QED
    BY <1>7, <2>2
<1>10. QED
  BY <1>8, <1>9

(***************************************************************************)
(* The invariant                                                           *)
(***************************************************************************)
Ways == {"List", "ListAndPrune", "Log"}
Stages == {"parse", "discover", "rule out", "fetch", "filter", "finish", "sort", "limit", "done"}

\* One call after another, each with the next way of finding the files.
CallsInOrder ==
    /\ discovery \in {"ListAndPrune", "Log"} => "List" \in DOMAIN answers
    /\ discovery = "Log" => "ListAndPrune" \in DOMAIN answers
    /\ "ListAndPrune" \in DOMAIN answers => "List" \in DOMAIN answers
    /\ "Log" \in DOMAIN answers => "ListAndPrune" \in DOMAIN answers
    /\ pc = "done" => discovery \in DOMAIN answers

InPlace ==
    /\ table \in DOMAIN Tables /\ asked \in Queries
    /\ discovery \in Ways /\ pc \in Stages /\ DOMAIN answers \subseteq Ways
    /\ CallsInOrder

\* The query is what was parsed, from when it is, and for every later call.
IsRead == Parse(asked.sql).ok /\ query = Parse(asked.sql).v
QueryIsRead ==
    /\ query # << >> => IsRead
    /\ pc \notin {"parse", "done"} => IsRead
    /\ DOMAIN answers # {} /\ Parse(asked.sql).ok => IsRead

FilesAreFound ==
    /\ pc \in {"parse", "discover"} => columns = << >>
    /\ pc \in {"rule out", "fetch"} => columns = ColumnsFound(discovery)
    /\ pc \in {"parse", "discover", "rule out"} => fetched = << >>
    /\ pc = "rule out" => files = Found(discovery)
    /\ pc \in {"fetch", "filter", "finish", "sort", "limit"} => files = Plan(discovery)
    /\ pc = "fetch" => /\ fetched \in Seq(Range(files)) /\ Len(fetched) <= Len(Kept)
                       /\ \A i \in 1 .. Len(fetched) : fetched[i] = Kept[i]

\* The columns scanned are those the query names, and with `*` all: but when nothing is read
\* and no log gives the columns.
NamesFit ==
    /\ names \in Seq(Columns) /\ Named \subseteq Range(names)
    /\ OutNames = ResultNames \/ (HasStar /\ KeysAreNamed /\ rows = << >>)

RowsAreMet ==
    pc \in {"filter", "finish", "sort", "limit"} /\ Ready(discovery) =>
        /\ pc = "filter" => /\ rows \in Seq(Row) /\ Keeping(rows, Met) = TableMet(discovery)
                            /\ NamesFit /\ OutNames = ResultNames
        /\ pc = "finish" => rows = TableMet(discovery) /\ NamesFit
        /\ pc = "sort" => rows = Shaped(TableMet(discovery)) /\ NamesFit
        /\ pc = "limit" => rows = StablySorted(Shaped(TableMet(discovery)), ResultNames)

OwedAnswer(d) ==
    [ok |-> TRUE, rows |-> Owed(d), read |-> Cardinality({i \in DOMAIN Plan(d) : Plan(d)[i].read})]

AnswersAreOwed ==
    \A d \in DOMAIN answers :
        IF Parse(asked.sql).ok THEN Ready(d) => answers[d] = OwedAnswer(d) ELSE ~answers[d].ok

QueryIInv == InPlace /\ QueryIsRead /\ FilesAreFound /\ RowsAreMet /\ AnswersAreOwed

\* A GET of a stored object is answered.
LEMMA StoredIsServed ==
    ASSUME NEW k \in DOMAIN ObjectSize
    PROVE  MemoryGet(k, All).status = 206
BY DEF MemoryGet, Unsatisfiable, All

\* What the invariant says is of the query and the table alone, which later calls leave alone.
LEMMA AllStands ==
    ASSUME query' = query, table' = table
    PROVE  \A d \in Ways :
              /\ Found(d)' = Found(d) /\ Plan(d)' = Plan(d) /\ ColumnsFound(d)' = ColumnsFound(d)
              /\ Ready(d)' <=> Ready(d)
              /\ TableMet(d)' = TableMet(d) /\ OwedAnswer(d)' = OwedAnswer(d)
<1> TAKE d \in Ways
<1>1. Found(d)' = Found(d) /\ Plan(d)' = Plan(d) /\ ColumnsFound(d)' = ColumnsFound(d)
  BY PlanStands
<1>2. Owed(d)' = Owed(d)
  BY OwedStands
<1>3. OwedAnswer(d)' = OwedAnswer(d)
  BY <1>1, <1>2 DEF OwedAnswer
<1>4. QED
  BY <1>1, <1>3, MetStands, ReadyStands

\* The answers given stay those that are owed,
LEMMA AnswersStay ==
    ASSUME QueryIInv, query' = query, table' = table, asked' = asked, answers' = answers
    PROVE  AnswersAreOwed'
<1>1. \A d \in DOMAIN answers : (Ready(d)' <=> Ready(d)) /\ OwedAnswer(d)' = OwedAnswer(d)
  BY AllStands DEF QueryIInv, InPlace
<1> DEFINE ok == Parse(asked.sql).ok
<1>2. ok' <=> ok
  OBVIOUS
<1> HIDE DEF ok
<1>3. \A d \in DOMAIN answers : IF ok THEN Ready(d) => answers[d] = OwedAnswer(d) ELSE ~answers[d].ok
  BY DEF QueryIInv, AnswersAreOwed, ok
<1>4. \A d \in DOMAIN answers : IF ok' THEN Ready(d)' => answers[d] = OwedAnswer(d)' ELSE ~answers[d].ok
  BY <1>1, <1>2, <1>3
<1>5. QED
  BY <1>4 DEF AnswersAreOwed, ok

\* and so is one more.
LEMMA OneMoreAnswer ==
    ASSUME QueryIInv, query' = query, table' = table, asked' = asked,
           NEW ok \in BOOLEAN, NEW out, Return(ok, out),
           IF Parse(asked.sql).ok
           THEN Ready(discovery) =>
                   /\ ok /\ out = Owed(discovery)
                   /\ Cardinality({i \in DOMAIN files' : files'[i].read}) =
                         Cardinality({i \in DOMAIN Plan(discovery) : Plan(discovery)[i].read})
           ELSE ~ok
    PROVE  /\ AnswersAreOwed'
           /\ DOMAIN answers' = DOMAIN answers \cup {discovery}
<1> DEFINE reads == Cardinality({i \in DOMAIN files' : files'[i].read})
           given == [ok |-> ok, rows |-> out, read |-> reads]
           parsed == Parse(asked.sql).ok
<1>1. /\ DOMAIN answers' = DOMAIN answers \cup {discovery}
      /\ answers'[discovery] = given
      /\ \A d \in DOMAIN answers : d # discovery => answers'[d] = answers[d]
  BY DEF Return
<1>2. parsed' <=> parsed
  OBVIOUS
<1>3. \A d \in DOMAIN answers \cup {discovery} : (Ready(d)' <=> Ready(d)) /\ OwedAnswer(d)' = OwedAnswer(d)
  BY AllStands DEF QueryIInv, InPlace
<1>4. IF parsed THEN Ready(discovery) => given = OwedAnswer(discovery) ELSE ~given.ok
  BY DEF OwedAnswer
<1>5. \A d \in DOMAIN answers : IF parsed THEN Ready(d) => answers[d] = OwedAnswer(d) ELSE ~answers[d].ok
  BY DEF QueryIInv, AnswersAreOwed
<1> HIDE DEF parsed, given
<1>6. ASSUME NEW d \in DOMAIN answers'
      PROVE  IF parsed' THEN Ready(d)' => answers'[d] = OwedAnswer(d)' ELSE ~answers'[d].ok
  <2>1. CASE d = discovery
    <3>1. answers'[d] = given
      BY <1>1, <2>1
    <3>2. IF parsed THEN Ready(d) => given = OwedAnswer(d) ELSE ~given.ok
      BY <1>4, <2>1
    <3>3. (Ready(d)' <=> Ready(d)) /\ OwedAnswer(d)' = OwedAnswer(d)
      BY <1>1, <1>3
    <3>4. QED
      BY <1>2, <3>1, <3>2, <3>3
  <2>2. CASE d # discovery
    <3>1. d \in DOMAIN answers /\ answers'[d] = answers[d]
      BY <1>1, <2>2
    <3>2. (Ready(d)' <=> Ready(d)) /\ OwedAnswer(d)' = OwedAnswer(d)
      BY <1>3, <3>1
    <3>3. QED
      BY <1>2, <1>5, <3>1, <3>2
  <2>3. QED
    BY <2>1, <2>2
<1>7. AnswersAreOwed'
  BY <1>6 DEF AnswersAreOwed, parsed
<1>8. QED
  BY <1>1, <1>7

ShapedOf(d) == Shaped(TableMet(d))
SortedOf(d) == StablySorted(ShapedOf(d), ResultNames)

\* What is owed at each stage is of the query and the table alone.
LEMMA StagesStand ==
    ASSUME query' = query, table' = table
    PROVE  /\ Met' = Met /\ Named' = Named /\ (HasStar' <=> HasStar) /\ ResultNames' = ResultNames
           /\ KeysAreNamed' <=> KeysAreNamed
           /\ \A d \in Ways : /\ ShapedOf(d)' = ShapedOf(d)
                              /\ SortedOf(d)' = SortedOf(d)
<1>1. Met' = Met
  BY DEF Met
<1>2. Named' = Named /\ (HasStar' <=> HasStar)
  <2>1. ItemColumns' = ItemColumns
    BY DEF ItemColumns
  <2>2. HasStar' <=> HasStar
    BY DEF HasStar
  <2>3. Named' = Named
    BY <2>1 DEF Named
  <2>4. QED
    BY <2>2, <2>3
<1>3. ResultNames' = ResultNames
  BY DEF ResultNames
<1>4. ASSUME NEW d \in Ways
      PROVE  ShapedOf(d)' = ShapedOf(d) /\ SortedOf(d)' = SortedOf(d)
  <2>1. PICK s : s = TableMet(d)
    OBVIOUS
  <2>2. TableMet(d)' = s
    BY <2>1, MetStands
  <2>3. PICK t : t = Shaped(s)
    OBVIOUS
  <2>4. Shaped(TableMet(d))' = t
    BY <2>2, <2>3, ShapeStands
  <2>5. ShapedOf(d)' = ShapedOf(d) /\ ShapedOf(d)' = t
    BY <2>1, <2>3, <2>4 DEF ShapedOf
  <2>6. PICK n : n = ResultNames
    OBVIOUS
  <2>7. StablySorted(t, n)' = StablySorted(t, n)
    BY DEF StablySorted
  <2>8. QED
    BY <1>3, <2>5, <2>6, <2>7 DEF SortedOf
<1>5. KeysAreNamed' <=> KeysAreNamed
  BY <1>2 DEF KeysAreNamed
<1>6. QED
  BY <1>1, <1>2, <1>3, <1>4, <1>5

\* A query that was read is one.
LEMMA QueryType ==
    ASSUME QueryIInv, IsRead
    PROVE  ReadQuery(query)
<1>1. Tokens(asked.sql)
  BY QueriesAreTokens DEF QueryIInv, InPlace, Tokens
<1>2. QED
  BY <1>1, ParseType DEF IsRead

\* What a call leaves alone.
SameCall == query' = query /\ table' = table /\ asked' = asked /\ discovery' = discovery

\* A call leaves the query it was given alone.
LEMMA ReadStays ==
    ASSUME SameCall
    PROVE  IsRead' <=> IsRead
<1>1. PICK q : q = asked
  OBVIOUS
<1>2. asked' = q
  BY <1>1 DEF SameCall
<1>3. QED
  BY <1>1, <1>2 DEF SameCall, IsRead

\* A call that goes on.
LEMMA GoingOn ==
    ASSUME QueryIInv, SameCall, answers' = answers, IsRead, pc' \in Stages \ {"parse", "done"}
    PROVE  InPlace' /\ QueryIsRead' /\ AnswersAreOwed'
<1>1. AnswersAreOwed'
  BY AnswersStay DEF SameCall
<1>2. IsRead'
  BY ReadStays
<1>3. QueryIsRead'
  BY <1>2 DEF QueryIsRead
<1>4. InPlace'
  BY DEF QueryIInv, InPlace, CallsInOrder, SameCall, Stages
<1>5. QED
  BY <1>1, <1>3, <1>4

\* A call that fails was not ready to be answered.
LEMMA Failing ==
    ASSUME QueryIInv, SameCall, IsRead, ~Ready(discovery), Fail
    PROVE  QueryIInv'
<1>1. Return(FALSE, << >>)
  BY DEF Fail
<1>2. AnswersAreOwed' /\ DOMAIN answers' = DOMAIN answers \cup {discovery}
  BY <1>1, OneMoreAnswer DEF SameCall, IsRead
<1>3. pc' = "done"
  BY <1>1 DEF Return
<1>4. InPlace'
  BY <1>2, <1>3 DEF QueryIInv, InPlace, CallsInOrder, SameCall, Stages
<1>5. IsRead'
  BY ReadStays
<1>6. QueryIsRead' /\ FilesAreFound' /\ RowsAreMet'
  BY <1>3, <1>5 DEF QueryIsRead, FilesAreFound, RowsAreMet
<1>7. QED
  BY <1>2, <1>4, <1>6 DEF QueryIInv

\* The invariant, at the start and after each action.
LEMMA InitQuery == ASSUME Init PROVE QueryIInv
<1>1. DOMAIN answers = {}
  BY DEF Init
<1>2. InPlace /\ QueryIsRead
  BY <1>1 DEF Init, InPlace, CallsInOrder, QueryIsRead, Ways, Stages
<1>3. FilesAreFound
  BY DEF Init, FilesAreFound
<1>4. RowsAreMet
  BY DEF Init, RowsAreMet
<1>5. AnswersAreOwed
  BY <1>1 DEF AnswersAreOwed
<1>6. QED
  BY <1>2, <1>3, <1>4, <1>5 DEF QueryIInv

\* parse:  the query is read, or the call fails as every later one does.
LEMMA ParseQueryKeeps == ASSUME QueryIInv, ParseQuery PROVE QueryIInv'
<1> DEFINE parsed == Parse(asked.sql)
<1>1. /\ pc = "parse" /\ files' = files /\ table' = table /\ asked' = asked /\ discovery' = discovery
      /\ columns' = columns /\ fetched' = fetched
      /\ IF parsed.ok THEN query' = parsed.v /\ pc' = "discover" /\ names' = names /\ rows' = rows /\ answers' = answers
         ELSE query' = query /\ Fail
  BY DEF ParseQuery
<1>2. fetched = << >> /\ columns = << >>
  BY <1>1 DEF QueryIInv, FilesAreFound
<1>3. CASE parsed.ok
  <2>1. IsRead'
    BY <1>1, <1>3 DEF IsRead
  <2>2. AnswersAreOwed'
    <3>1. CASE DOMAIN answers = {}
      BY <1>1, <1>3, <3>1 DEF AnswersAreOwed
    <3>2. CASE DOMAIN answers # {}
      <4>1. IsRead
        BY <1>3, <3>2 DEF QueryIInv, QueryIsRead
      <4>2. query' = query
        BY <1>1, <1>3, <4>1 DEF IsRead
      <4>3. QED
        BY <1>1, <1>3, <4>2, AnswersStay
    <3>3. QED
      BY <3>1, <3>2
  <2>3. InPlace'
    BY <1>1, <1>3 DEF QueryIInv, InPlace, CallsInOrder, Stages
  <2>4. QueryIsRead'
    BY <2>1 DEF QueryIsRead
  <2>5. FilesAreFound' /\ RowsAreMet'
    BY <1>1, <1>2, <1>3 DEF FilesAreFound, RowsAreMet
  <2>6. QED
    BY <2>2, <2>3, <2>4, <2>5 DEF QueryIInv
<1>4. CASE ~parsed.ok
  <2>1. Return(FALSE, << >>) /\ query' = query
    BY <1>1, <1>4 DEF Fail
  <2>2. AnswersAreOwed' /\ DOMAIN answers' = DOMAIN answers \cup {discovery}
    BY <1>1, <1>4, <2>1, OneMoreAnswer
  <2>3. pc' = "done"
    BY <2>1 DEF Return
  <2>4. InPlace'
    BY <1>1, <2>2, <2>3 DEF QueryIInv, InPlace, CallsInOrder, Stages
  <2>5. FilesAreFound' /\ RowsAreMet'
    BY <1>1, <1>2, <2>3 DEF FilesAreFound, RowsAreMet
  <2>6. QueryIsRead'
    <3>1. ~IsRead
      BY <1>4 DEF IsRead
    <3>2. query = << >>
      BY <3>1 DEF QueryIInv, QueryIsRead
    <3>3. parsed' = parsed
      BY <1>1
    <3>4. ~Parse(asked'.sql).ok
      BY <1>1, <1>4
    <3>5. QED
      BY <2>1, <2>3, <3>2, <3>4 DEF QueryIsRead
  <2>7. QED
    BY <2>2, <2>4, <2>5, <2>6 DEF QueryIInv
<1>5. QED
  BY <1>3, <1>4

\* A LIST finds what Found says,
LEMMA ListFilesKeeps == ASSUME QueryIInv, ListFiles PROVE QueryIInv'
<1>1. /\ pc = "discover" /\ discovery \in {"List", "ListAndPrune"} /\ files' = Listed(table)
      /\ pc' = "rule out" /\ SameCall
      /\ columns' = columns /\ fetched' = fetched /\ answers' = answers
  BY DEF ListFiles, SameCall
<1>2. fetched = << >> /\ columns = << >> /\ IsRead
  BY <1>1 DEF QueryIInv, FilesAreFound, QueryIsRead
<1>3. files' = Found(discovery)' /\ columns' = ColumnsFound(discovery)'
  BY <1>1, <1>2, AllStands DEF Found, ColumnsFound, SameCall, Listed
<1>4. FilesAreFound' /\ RowsAreMet'
  BY <1>1, <1>2, <1>3 DEF FilesAreFound, RowsAreMet, SameCall
<1>5. InPlace' /\ QueryIsRead' /\ AnswersAreOwed'
  BY <1>1, <1>2, GoingOn DEF Stages
<1>6. QED
  BY <1>4, <1>5 DEF QueryIInv

\* and so does reading the log, if it is there.
LEMMA GetLogKeeps == ASSUME QueryIInv, GetLog PROVE QueryIInv'
<1> DEFINE log == Tables[table].log
<1>1. /\ pc = "discover" /\ discovery = "Log" /\ SameCall /\ fetched' = fetched
      /\ IF MemoryGet(Tables[table].log_key, All).status = 206
         THEN /\ files' = ReadLog(log).files /\ columns' = ReadLog(log).columns
              /\ pc' = "rule out" /\ answers' = answers
         ELSE columns' = columns /\ Fail
  BY DEF GetLog, SameCall
<1>2. fetched = << >> /\ IsRead /\ table \in DOMAIN Tables
  BY <1>1 DEF QueryIInv, FilesAreFound, QueryIsRead, InPlace
<1>3. CASE MemoryGet(Tables[table].log_key, All).status = 206
  <2>1. files' = Found(discovery)'
    <3>1. files' = Found(discovery)
      BY <1>1, <1>3 DEF Found
    <3>2. Found(discovery)' = Found(discovery)
      BY <1>1, AllStands DEF SameCall, QueryIInv, InPlace
    <3>3. QED
      BY <3>1, <3>2
  <2>2. columns' = ColumnsFound(discovery)'
    <3>1. columns' = ColumnsFound(discovery)
      BY <1>1, <1>3 DEF ColumnsFound
    <3>2. ColumnsFound(discovery)' = ColumnsFound(discovery)
      BY <1>1, AllStands DEF SameCall, QueryIInv, InPlace
    <3>3. QED
      BY <3>1, <3>2
  <2>3. FilesAreFound' /\ RowsAreMet'
    BY <1>1, <1>2, <1>3, <2>1, <2>2 DEF FilesAreFound, RowsAreMet
  <2>4. InPlace' /\ QueryIsRead' /\ AnswersAreOwed'
    BY <1>1, <1>2, <1>3, GoingOn DEF Stages
  <2>5. QED
    BY <2>3, <2>4 DEF QueryIInv
<1>4. CASE MemoryGet(Tables[table].log_key, All).status # 206
  <2>1. Tables[table].log_key \notin DOMAIN ObjectSize
    BY <1>4, StoredIsServed
  <2>2. ~Ready(discovery)
    BY <1>1, <2>1 DEF Ready, Stored
  <2>3. QED
    BY <1>1, <1>2, <1>4, <2>2, Failing
<1>5. QED
  BY <1>3, <1>4

\* What is kept, once the plan is made.
LEMMA KeptNow == ASSUME files = Plan(discovery) PROVE Kept = KeptOf(discovery)
BY DEF Kept, KeptOf

\* Ruling files out makes the plan.
LEMMA RuleOutFilesKeeps == ASSUME QueryIInv, RuleOutFiles PROVE QueryIInv'
<1>1. /\ pc = "rule out" /\ pc' = "fetch" /\ SameCall
      /\ files' = [i \in DOMAIN files |-> [files[i] EXCEPT !.read = Survives(files[i], discovery)]]
      /\ columns' = columns /\ fetched' = fetched /\ answers' = answers
  BY DEF RuleOutFiles, SameCall
<1>2. /\ fetched = << >> /\ columns = ColumnsFound(discovery) /\ IsRead
      /\ files = Found(discovery) /\ table \in DOMAIN Tables
  BY <1>1 DEF QueryIInv, FilesAreFound, QueryIsRead, InPlace
<1>3. files' = Plan(discovery)
  BY <1>1, <1>2 DEF Plan
<1>4. files' = Plan(discovery)' /\ columns' = ColumnsFound(discovery)'
  <2>1. Plan(discovery)' = Plan(discovery) /\ ColumnsFound(discovery)' = ColumnsFound(discovery)
    BY <1>1, AllStands DEF SameCall, QueryIInv, InPlace
  <2>2. QED
    BY <1>1, <1>2, <1>3, <2>1
<1>5. Len(fetched') <= Len(Kept') /\ fetched' \in Seq(Range(files')) /\ 1 .. Len(fetched') = {}
  <2> DEFINE S == {f \in Range(files') : f.read}
  <2>1. PICK p : p = Plan(discovery)
    OBVIOUS
  <2>2. files' = p /\ p \in Seq(Range(p))
    BY <1>2, <1>3, <2>1, PlanType
  <2>3. Kept' = Keeping(p, {f \in Range(p) : f.read})
    BY <2>2 DEF Kept
  <2>4. Keeping(p, {f \in Range(p) : f.read}) \in Seq(Range(p))
    BY <2>2, KeepingType
  <2>5. Len(Kept') \in Nat
    BY <2>3, <2>4, LenProperties
  <2>6. Len(fetched') = 0 /\ fetched' = << >>
    BY <1>1, <1>2
  <2>7. QED
    BY <2>5, <2>6
<1>6. FilesAreFound' /\ RowsAreMet'
  BY <1>1, <1>2, <1>4, <1>5 DEF FilesAreFound, RowsAreMet
<1>7. InPlace' /\ QueryIsRead' /\ AnswersAreOwed'
  BY <1>1, <1>2, GoingOn DEF Stages
<1>8. QED
  BY <1>6, <1>7 DEF QueryIInv

\* A plan that is kept is of files that were found.
LEMMA KeptType ==
    ASSUME table \in DOMAIN Tables, NEW d
    PROVE  /\ KeptOf(d) \in Seq(Range(Plan(d))) /\ Len(KeptOf(d)) \in Nat
           /\ \A i \in 1 .. Len(KeptOf(d)) : KeptOf(d)[i] \in Range(Plan(d))
<1> DEFINE S == {f \in Range(Plan(d)) : f.read}
<1>1. Keeping(Plan(d), S) \in Seq(Range(Plan(d)))
  BY PlanType, KeepingType
<1>2. KeptOf(d) \in Seq(Range(Plan(d)))
  BY <1>1 DEF KeptOf
<1>3. QED
  BY <1>2, LenProperties, ElementOfSeq

\* The files of the plan are fetched in its order; one that is not there was not owed.
LEMMA FetchNextKeeps == ASSUME QueryIInv, FetchNext PROVE QueryIInv'
<1> DEFINE m == Len(fetched)
           f == Kept[m + 1]
           kept == KeptOf(discovery)
<1>1. /\ pc = "fetch" /\ m < Len(Kept) /\ SameCall /\ files' = files /\ columns' = columns
      /\ IF MemoryGet(f.key, All).status = 206
         THEN fetched' = Append(fetched, f) /\ pc' = pc /\ answers' = answers
         ELSE fetched' = fetched /\ Fail
  BY DEF FetchNext, SameCall
<1>2. /\ columns = ColumnsFound(discovery) /\ IsRead
      /\ files = Plan(discovery) /\ table \in DOMAIN Tables
      /\ fetched \in Seq(Range(files)) /\ Len(fetched) <= Len(Kept)
      /\ \A i \in 1 .. Len(fetched) : fetched[i] = Kept[i]
  BY <1>1 DEF QueryIInv, FilesAreFound, QueryIsRead, InPlace
<1>3. Kept = kept /\ m \in Nat /\ Len(kept) \in Nat /\ m + 1 \in 1 .. Len(kept)
  <2>1. Kept = kept
    BY <1>2, KeptNow
  <2>2. m \in Nat /\ Len(kept) \in Nat
    BY <1>2, KeptType, LenProperties
  <2> HIDE DEF kept, m
  <2>3. m < Len(kept)
    BY <1>1, <2>1
  <2>4. QED
    BY <2>1, <2>2, <2>3
<1>4. f \in Range(files)
  BY <1>2, <1>3, KeptType
<1>5. CASE MemoryGet(f.key, All).status = 206
  <2>1. fetched' = Append(fetched, f) /\ pc' = "fetch" /\ answers' = answers
    BY <1>1, <1>5
  <2>2. Kept' = Kept
    BY <1>1 DEF Kept
  <2> HIDE DEF f, m
  <2>3. /\ fetched' \in Seq(Range(files)) /\ Len(fetched') = m + 1
        /\ \A i \in 1 .. m : fetched'[i] = fetched[i]
        /\ fetched'[m + 1] = f
    BY <1>2, <1>4, <2>1, AppendProperties DEF m
  <2>4. \A i \in 1 .. m + 1 : fetched'[i] = Kept[i]
    <3>1. \A i \in 1 .. m : fetched'[i] = Kept[i]
      BY <1>2, <2>3 DEF m
    <3>2. fetched'[m + 1] = Kept[m + 1]
      BY <2>3 DEF f
    <3>3. \A i \in 1 .. m + 1 : i \in 1 .. m \/ i = m + 1
      BY <1>3
    <3>4. QED
      BY <3>1, <3>2, <3>3
  <2>5. m + 1 <= Len(Kept)
    BY <1>3
  <2>6. files' = Plan(discovery)' /\ columns' = ColumnsFound(discovery)'
    <3>1. Plan(discovery)' = Plan(discovery) /\ ColumnsFound(discovery)' = ColumnsFound(discovery)
      BY <1>1, AllStands DEF SameCall, QueryIInv, InPlace
    <3>2. QED
      BY <1>1, <1>2, <3>1
  <2>7. FilesAreFound' /\ RowsAreMet'
    BY <1>1, <1>2, <2>1, <2>2, <2>3, <2>4, <2>5, <2>6 DEF FilesAreFound, RowsAreMet
  <2>8. InPlace' /\ QueryIsRead' /\ AnswersAreOwed'
    BY <1>1, <1>2, <2>1, GoingOn DEF Stages
  <2>9. QED
    BY <2>7, <2>8 DEF QueryIInv
<1>6. CASE MemoryGet(f.key, All).status # 206
  <2>1. f.key \notin DOMAIN ObjectSize
    BY <1>6, StoredIsServed
  <2>2. PICK i \in DOMAIN Found(discovery) : f.key = Found(discovery)[i].key
    <3>1. PICK i \in DOMAIN Plan(discovery) : f = Plan(discovery)[i]
      BY <1>2, <1>4 DEF Range
    <3>2. QED
      BY <1>2, <3>1, PlanType
  <2>3. ~Ready(discovery)
    BY <2>1, <2>2 DEF Ready, Stored
  <2>4. QED
    BY <1>1, <1>2, <1>6, <2>3, Failing
<1>7. QED
  BY <1>5, <1>6

\* The scan finds all that is met: PlansMissNothing.
LEMMA ScanSourcesKeeps == ASSUME QueryIInv, ScanSources PROVE QueryIInv'
<1> DEFINE known == Range(Schema) \cup DOMAIN fetched[1].partition
           all == Schema \o PartitionColumns
           named == Keeping(all, IF HasStar THEN known ELSE Named)
           scanned == FlattenSeq([i \in DOMAIN fetched |-> SourceRows(fetched[i])])
           fits == /\ Named \subseteq known
                   /\ \A c \in query.conditions : c.column \in Range(Schema) => Parses(c)
<1>1. /\ pc = "fetch" /\ fetched # << >> /\ Len(fetched) = Len(Kept) /\ SameCall
      /\ columns' = columns /\ fetched' = fetched
      /\ IF fits THEN names' = named /\ rows' = scanned /\ pc' = "filter" /\ files' = files /\ answers' = answers
         ELSE files' = files /\ Fail
  BY DEF ScanSources, SameCall
<1>2. /\ IsRead
      /\ files = Plan(discovery) /\ table \in DOMAIN Tables
      /\ fetched \in Seq(Range(files))
      /\ \A i \in 1 .. Len(fetched) : fetched[i] = Kept[i]
      /\ discovery \in Ways
  BY <1>1 DEF QueryIInv, FilesAreFound, QueryIsRead, InPlace
<1>3. fetched = KeptOf(discovery)
  <2> DEFINE kept == KeptOf(discovery)
  <2>1. Kept = kept /\ kept \in Seq(Range(files))
    BY <1>2, KeptNow, KeptType
  <2> HIDE DEF kept
  <2>2. Len(fetched) = Len(kept) /\ \A i \in 1 .. Len(fetched) : fetched[i] = kept[i]
    BY <1>1, <1>2, <2>1
  <2>3. fetched = kept
    BY <1>2, <2>1, <2>2, SeqEqual
  <2>4. QED
    BY <2>3 DEF kept
<1>4. ReadQuery(query)
  BY <1>2, QueryType
<1>5. Ready(discovery) => known = Columns
  <2> SUFFICES ASSUME Ready(discovery)
               PROVE  known = Columns
    OBVIOUS
  <2>1. 1 \in 1 .. Len(fetched) /\ fetched[1] \in Range(files)
    BY <1>1, <1>2, LenProperties, EmptySeq, ElementOfSeq
  <2>2. KnownTruly(fetched[1])
    BY <1>2, <2>1, PlansAreKnown
  <2>3. DOMAIN fetched[1].partition = Range(PartitionColumns)
    BY <2>2, FileType DEF KnownTruly
  <2>4. QED
    BY <2>3 DEF Columns
<1> HIDE DEF known, scanned
<1>6. Ready(discovery) => Named \subseteq Columns /\ \A c \in query.conditions : c.column \in Range(Schema) => Parses(c)
  BY DEF Ready, Valid
<1>7. CASE fits
  <2>1. names' = named /\ rows' = scanned /\ pc' = "filter" /\ files' = files /\ answers' = answers
    BY <1>1, <1>7
  <2>2. ASSUME Ready(discovery)
        PROVE  /\ scanned \in Seq(Row) /\ Keeping(scanned, Met) = TableMet(discovery)
               /\ named \in Seq(Columns) /\ Named \subseteq Range(named)
               /\ OutNamesOf(named) = ResultNames
    <3>1. scanned \in Seq(Row) /\ Keeping(scanned, Met) = TableMet(discovery)
      BY <1>2, <1>3, <1>4, <2>2, PlansMissNothing DEF scanned
    <3>2. known = Columns /\ Named \subseteq Columns
      BY <1>5, <1>6, <2>2
    <3>3. named \in Seq(Columns)
      BY ColumnsInOrder, KeepingType
    <3>4. Named \subseteq Range(named)
      BY <3>2, NamesType
    <3>5. OutNamesOf(named) = ResultNames
      <4>1. CASE HasStar
        <5>1. named = all
          BY <3>2, <4>1, NamesType
        <5>2. QED
          BY <5>1, AllNames
      <4>2. CASE ~HasStar
        BY <4>2, NoStarNames
      <4>3. QED
        BY <4>1, <4>2
    <3>6. QED
      BY <3>1, <3>3, <3>4, <3>5
  <2> HIDE DEF named
  <2>3. FilesAreFound'
    <3>1. Plan(discovery)' = Plan(discovery)
      BY <1>1, <1>2, AllStands DEF SameCall
    <3>2. QED
      BY <1>1, <1>2, <2>1, <3>1 DEF FilesAreFound, SameCall
  <2>4. RowsAreMet'
    <3>1. PICK d \in Ways : d = discovery
      BY <1>2
    <3>2. discovery' = d
      BY <1>1, <3>1 DEF SameCall
    <3>3. /\ Ready(d)' <=> Ready(d)
          /\ TableMet(d)' = TableMet(d) /\ Met' = Met /\ Named' = Named /\ ResultNames' = ResultNames
      BY <1>1, AllStands, StagesStand DEF SameCall
    <3>4. PICK ns : ns = named
      OBVIOUS
    <3>5. OutNames' = OutNamesOf(ns)
      BY <1>1, <2>1, <3>4 DEF SameCall, OutNames, OutNamesOf
    <3>6. Ready(d) => /\ rows' \in Seq(Row) /\ Keeping(rows', Met') = TableMet(d)'
                      /\ names' \in Seq(Columns) /\ Named' \subseteq Range(names')
                      /\ OutNames' = ResultNames'
      BY <2>1, <2>2, <3>1, <3>3, <3>4, <3>5
    <3>7. Ready(discovery)' <=> Ready(d)
      BY <3>2, <3>3
    <3>8. TableMet(discovery)' = TableMet(d)'
      BY <3>2
    <3>9. QED
      BY <2>1, <3>6, <3>7, <3>8 DEF RowsAreMet, NamesFit
  <2>5. InPlace' /\ QueryIsRead' /\ AnswersAreOwed'
    BY <1>1, <1>2, <2>1, GoingOn DEF Stages
  <2>6. QED
    BY <2>3, <2>4, <2>5 DEF QueryIInv
<1>8. CASE ~fits
  <2>1. ~Ready(discovery)
    BY <1>5, <1>6, <1>8
  <2>2. QED
    BY <1>1, <1>2, <1>8, <2>1, Failing
<1>9. QED
  BY <1>7, <1>8

\* The invariant's part about the files, after a step that leaves the plan alone.
LEMMA PlanStays ==
    ASSUME QueryIInv, SameCall, files = Plan(discovery), files' = files
    PROVE  files' = Plan(discovery)'
<1>1. Plan(discovery)' = Plan(discovery)
  BY AllStands DEF SameCall, QueryIInv, InPlace
<1>2. QED
  BY <1>1

\* The parts about the rows, in terms of what no step changes.
LEMMA StagesNext ==
    ASSUME SameCall, discovery \in Ways
    PROVE  /\ Ready(discovery)' <=> Ready(discovery)
           /\ TableMet(discovery)' = TableMet(discovery)
           /\ Shaped(TableMet(discovery))' = ShapedOf(discovery)
           /\ StablySorted(Shaped(TableMet(discovery)), ResultNames)' = SortedOf(discovery)
           /\ Met' = Met /\ Named' = Named /\ (HasStar' <=> HasStar) /\ ResultNames' = ResultNames
           /\ KeysAreNamed' <=> KeysAreNamed
<1>1. PICK d \in Ways : d = discovery
  OBVIOUS
<1>2. discovery' = d
  BY <1>1 DEF SameCall
<1>3. /\ Ready(d)' <=> Ready(d)
      /\ TableMet(d)' = TableMet(d) /\ ShapedOf(d)' = ShapedOf(d) /\ SortedOf(d)' = SortedOf(d)
  BY AllStands, StagesStand DEF SameCall
<1>4. /\ Ready(discovery)' <=> Ready(d)'
      /\ TableMet(discovery)' = TableMet(d)'
      /\ Shaped(TableMet(discovery))' = ShapedOf(d)'
      /\ StablySorted(Shaped(TableMet(discovery)), ResultNames)' = SortedOf(d)'
  BY <1>2 DEF ShapedOf, SortedOf
<1>5. QED
  BY <1>1, <1>3, <1>4, StagesStand DEF SameCall

\* The names of the result, while those of the rows stay.
LEMMA NamesStay ==
    ASSUME SameCall, names' = names
    PROVE  OutNames' = OutNames
BY DEF SameCall, OutNames

\* When every file is ruled out, nothing is met: PlansMissNothing again.
LEMMA ScanNothingKeeps == ASSUME QueryIInv, ScanNothing PROVE QueryIInv'
<1> DEFINE known == IF columns # << >> THEN Range(columns) ELSE Named
           all == Schema \o PartitionColumns
           named == Keeping(all, IF HasStar THEN known ELSE Named \cap known)
<1>1. /\ pc = "fetch" /\ Kept = << >> /\ SameCall
      /\ columns' = columns /\ fetched' = fetched
      /\ IF ItemColumns \subseteq known
         THEN names' = named /\ rows' = << >> /\ pc' = "finish" /\ files' = files /\ answers' = answers
         ELSE files' = files /\ Fail
  BY DEF ScanNothing, SameCall
<1>2. /\ columns = ColumnsFound(discovery) /\ IsRead
      /\ files = Plan(discovery) /\ table \in DOMAIN Tables /\ discovery \in Ways
  BY <1>1 DEF QueryIInv, FilesAreFound, QueryIsRead, InPlace
<1>3. ReadQuery(query)
  BY <1>2, QueryType
<1>4. columns = << >> \/ Range(columns) = Columns
  BY <1>2, LogColumns DEF ColumnsFound
<1>5. KeptOf(discovery) = << >>
  BY <1>1, <1>2, KeptNow
<1>6. Ready(discovery) => /\ Named \subseteq known /\ Named \subseteq Columns
                          /\ known = Columns \/ KeysAreNamed
  BY <1>2, <1>4, <1>5 DEF Ready, Valid, KeysAreKnown
<1> HIDE DEF known
<1>7. CASE ItemColumns \subseteq known
  <2>1. names' = named /\ rows' = << >> /\ pc' = "finish" /\ files' = files /\ answers' = answers
    BY <1>1, <1>7
  <2>2. ASSUME Ready(discovery)
        PROVE  /\ TableMet(discovery) = << >>
               /\ named \in Seq(Columns) /\ Named \subseteq Range(named)
               /\ OutNamesOf(named) = ResultNames \/ (HasStar /\ KeysAreNamed)
    <3>1. TableMet(discovery) = << >>
      <4>1. FlattenSeq([i \in DOMAIN KeptOf(discovery) |-> SourceRows(KeptOf(discovery)[i])]) = << >>
        <5>1. [i \in DOMAIN KeptOf(discovery) |-> SourceRows(KeptOf(discovery)[i])] = << >>
          BY <1>5
        <5>2. QED
          BY <5>1, FlattenNone
      <4>2. Keeping(<< >>, Met) = TableMet(discovery)
        BY <1>2, <1>3, <2>2, <4>1, PlansMissNothing
      <4>3. QED
        BY <4>2, KeepingNone
    <3>2. named \in Seq(Columns)
      BY ColumnsInOrder, KeepingType
    <3>3. Named \subseteq Range(named)
      BY <1>6, <2>2, NamesType
    <3>4. OutNamesOf(named) = ResultNames \/ (HasStar /\ KeysAreNamed)
      <4>1. CASE ~HasStar
        BY <4>1, NoStarNames
      <4>2. CASE HasStar /\ known = Columns
        <5>1. named = all
          BY <4>2, NamesType
        <5>2. QED
          BY <5>1, AllNames
      <4>3. QED
        BY <1>6, <2>2, <4>1, <4>2
    <3>5. QED
      BY <3>1, <3>2, <3>3, <3>4
  <2> HIDE DEF named
  <2>3. FilesAreFound'
    <3>1. files' = Plan(discovery)'
      BY <1>1, <1>2, <2>1, PlanStays
    <3>2. QED
      BY <1>1, <1>2, <2>1, <3>1 DEF FilesAreFound
  <2>4. RowsAreMet'
    <3>1. PICK ns : ns = named
      OBVIOUS
    <3>2. OutNames' = OutNamesOf(ns)
      BY <1>1, <2>1, <3>1 DEF SameCall, OutNames, OutNamesOf
    <3>3. Ready(discovery) => /\ rows' = TableMet(discovery)'
                              /\ names' \in Seq(Columns) /\ Named' \subseteq Range(names')
                              /\ OutNames' = ResultNames' \/ (HasStar' /\ KeysAreNamed' /\ rows' = << >>)
      BY <1>1, <1>2, <2>1, <2>2, <3>1, <3>2, StagesNext
    <3>4. QED
      BY <1>1, <1>2, <2>1, <3>3, StagesNext DEF RowsAreMet, NamesFit
  <2>5. InPlace' /\ QueryIsRead' /\ AnswersAreOwed'
    BY <1>1, <1>2, <2>1, GoingOn DEF Stages
  <2>6. QED
    BY <2>3, <2>4, <2>5 DEF QueryIInv
<1>8. CASE ~(ItemColumns \subseteq known)
  <2>1. ~Ready(discovery)
    BY <1>6, <1>8 DEF Named
  <2>2. QED
    BY <1>1, <1>2, <1>8, <2>1, Failing
<1>9. QED
  BY <1>7, <1>8

\* Filter keeps what is met,
LEMMA FilterKeeps == ASSUME QueryIInv, Filter PROVE QueryIInv'
<1> DEFINE passed == {r \in Range(rows) : \A c \in query.conditions : Accepts(c, r)}
<1>1. /\ pc = "filter" /\ pc' = "finish" /\ SameCall /\ rows' = Keeping(rows, passed) /\ files' = files
      /\ columns' = columns /\ fetched' = fetched /\ names' = names /\ answers' = answers
  BY DEF Filter, SameCall
<1>2. /\ IsRead
      /\ files = Plan(discovery) /\ table \in DOMAIN Tables /\ discovery \in Ways
  BY <1>1 DEF QueryIInv, FilesAreFound, QueryIsRead, InPlace
<1>3. ASSUME Ready(discovery)
      PROVE  Keeping(rows, passed) = TableMet(discovery) /\ NamesFit /\ OutNames = ResultNames
  <2>1. rows \in Seq(Row) /\ Keeping(rows, Met) = TableMet(discovery) /\ NamesFit /\ OutNames = ResultNames
    BY <1>1, <1>3 DEF QueryIInv, RowsAreMet
  <2>2. \A r \in Range(rows) : r \in passed <=> r \in Met
    <3>1. \A r \in Range(rows) : r \in Row
      BY <2>1, ElementOfSeq, LenProperties DEF Range
    <3>2. QED
      BY <3>1 DEF Met
  <2> HIDE DEF passed
  <2>3. Keeping(rows, passed) = Keeping(rows, Met)
    BY <2>1, <2>2, KeepingSame
  <2>4. QED
    BY <2>1, <2>3
<1> HIDE DEF passed
<1>4. FilesAreFound'
  <2>1. files' = Plan(discovery)'
    BY <1>1, <1>2, PlanStays
  <2>2. QED
    BY <1>1, <1>2, <2>1 DEF FilesAreFound
<1>5. RowsAreMet'
  <2>1. OutNames' = OutNames
    BY <1>1, NamesStay
  <2>2. Ready(discovery) => /\ rows' = TableMet(discovery)'
                            /\ names' \in Seq(Columns) /\ Named' \subseteq Range(names')
                            /\ OutNames' = ResultNames'
    BY <1>1, <1>2, <1>3, <2>1, StagesNext DEF NamesFit
  <2>3. QED
    BY <1>1, <1>2, <2>2, StagesNext DEF RowsAreMet, NamesFit
<1>6. InPlace' /\ QueryIsRead' /\ AnswersAreOwed'
  BY <1>1, <1>2, GoingOn DEF Stages
<1>7. QED
  BY <1>4, <1>5, <1>6 DEF QueryIInv

\* which is grouped,
LEMMA AggregateRowsKeeps == ASSUME QueryIInv, AggregateRows PROVE QueryIInv'
<1> DEFINE fits == /\ Range(query.group_by) \subseteq Range(names)
                   /\ ~HasStar
                   /\ \A i \in DOMAIN query.items :
                         query.items[i].agg = "column" => query.items[i].column \in Range(query.group_by)
<1>1. /\ pc = "finish" /\ Aggregating /\ SameCall /\ files' = files
      /\ columns' = columns /\ fetched' = fetched
      /\ IF fits THEN rows' = Grouped(rows) /\ pc' = "sort" /\ names' = names /\ answers' = answers ELSE Fail
  BY DEF AggregateRows, SameCall
<1>2. /\ IsRead
      /\ files = Plan(discovery) /\ table \in DOMAIN Tables /\ discovery \in Ways
  BY <1>1 DEF QueryIInv, FilesAreFound, QueryIsRead, InPlace
<1>3. Ready(discovery) => rows = TableMet(discovery) /\ NamesFit
  BY <1>1 DEF QueryIInv, RowsAreMet
<1>4. CASE fits
  <2>1. rows' = Grouped(rows) /\ pc' = "sort" /\ names' = names /\ answers' = answers /\ ~HasStar
    BY <1>1, <1>4
  <2>2. FilesAreFound'
    <3>1. files' = Plan(discovery)'
      BY <1>1, <1>2, PlanStays
    <3>2. QED
      BY <1>1, <1>2, <2>1, <3>1 DEF FilesAreFound
  <2>3. RowsAreMet'
    <3>1. OutNames' = OutNames
      BY <1>1, <2>1, NamesStay
    <3>2. Ready(discovery) => rows' = ShapedOf(discovery)
      BY <1>1, <1>3, <2>1 DEF ShapedOf, Shaped
    <3>3. Ready(discovery) => /\ names' \in Seq(Columns) /\ Named' \subseteq Range(names')
                              /\ OutNames' = ResultNames'
      BY <1>1, <1>2, <1>3, <2>1, <3>1, StagesNext DEF NamesFit
    <3>4. QED
      BY <1>1, <1>2, <2>1, <3>2, <3>3, StagesNext DEF RowsAreMet, NamesFit
  <2>4. InPlace' /\ QueryIsRead' /\ AnswersAreOwed'
    BY <1>1, <1>2, <2>1, GoingOn DEF Stages
  <2>5. QED
    BY <2>2, <2>3, <2>4 DEF QueryIInv
<1>5. CASE ~fits
  <2>1. ~Ready(discovery)
    <3>1. SUFFICES ASSUME Ready(discovery) PROVE fits
      BY <1>5
    <3>2. Range(query.group_by) \subseteq Range(names)
      BY <1>3, <3>1 DEF NamesFit, Named
    <3>3. QED
      BY <1>1, <3>1, <3>2 DEF Ready, Valid
  <2>2. QED
    BY <1>1, <1>2, <1>5, <2>1, Failing
<1>6. QED
  BY <1>4, <1>5

\* or projected,
LEMMA ProjectKeeps == ASSUME QueryIInv, Project PROVE QueryIInv'
<1>1. /\ pc = "finish" /\ ~Aggregating /\ pc' = "sort" /\ SameCall /\ rows' = Projected(rows, OutNames)
      /\ files' = files /\ columns' = columns /\ fetched' = fetched /\ names' = names /\ answers' = answers
  BY DEF Project, SameCall
<1>2. /\ IsRead
      /\ files = Plan(discovery) /\ table \in DOMAIN Tables /\ discovery \in Ways
  BY <1>1 DEF QueryIInv, FilesAreFound, QueryIsRead, InPlace
<1>3. ASSUME Ready(discovery)
      PROVE  /\ Projected(rows, OutNames) = ShapedOf(discovery)
             /\ NamesFit
             /\ OutNames = ResultNames \/ (HasStar /\ KeysAreNamed /\ Projected(rows, OutNames) = << >>)
  <2>1. rows = TableMet(discovery) /\ NamesFit
    BY <1>1, <1>3 DEF QueryIInv, RowsAreMet
  <2>2. ShapedOf(discovery) = Projected(rows, ResultNames)
    BY <1>1, <2>1 DEF ShapedOf, Shaped
  <2>3. ASSUME rows = << >>, NEW out
        PROVE  Projected(rows, out) = << >>
    BY <2>3 DEF Projected
  <2>4. QED
    BY <2>1, <2>2, <2>3 DEF NamesFit
<1>4. FilesAreFound'
  <2>1. files' = Plan(discovery)'
    BY <1>1, <1>2, PlanStays
  <2>2. QED
    BY <1>1, <1>2, <2>1 DEF FilesAreFound
<1>5. RowsAreMet'
  <2>1. OutNames' = OutNames
    BY <1>1, NamesStay
  <2>2. Ready(discovery) => /\ rows' = ShapedOf(discovery)
                            /\ names' \in Seq(Columns) /\ Named' \subseteq Range(names')
                            /\ OutNames' = ResultNames' \/ (HasStar' /\ KeysAreNamed' /\ rows' = << >>)
    BY <1>1, <1>2, <1>3, <2>1, StagesNext DEF NamesFit
  <2>3. QED
    BY <1>1, <1>2, <2>2, StagesNext DEF RowsAreMet, NamesFit
<1>6. InPlace' /\ QueryIsRead' /\ AnswersAreOwed'
  BY <1>1, <1>2, GoingOn DEF Stages
<1>7. QED
  BY <1>4, <1>5, <1>6 DEF QueryIInv

\* sorted,
LEMMA SortKeeps == ASSUME QueryIInv, Sort PROVE QueryIInv'
<1> DEFINE fits == \A k \in DOMAIN query.order_by : query.order_by[k].name \in Range(OutNames)
<1>1. /\ pc = "sort" /\ SameCall /\ files' = files /\ columns' = columns /\ fetched' = fetched
      /\ IF fits THEN rows' = StablySorted(rows, OutNames) /\ pc' = "limit" /\ answers' = answers ELSE Fail
  BY DEF Sort, SameCall
<1>2. /\ IsRead
      /\ files = Plan(discovery) /\ table \in DOMAIN Tables /\ discovery \in Ways
  BY <1>1 DEF QueryIInv, FilesAreFound, QueryIsRead, InPlace
<1>3. ReadQuery(query)
  BY <1>2, QueryType
<1>4. Ready(discovery) => rows = ShapedOf(discovery) /\ NamesFit
  BY <1>1 DEF QueryIInv, RowsAreMet, ShapedOf
<1>5. CASE fits
  <2>1. rows' = StablySorted(rows, OutNames) /\ pc' = "limit" /\ answers' = answers
    BY <1>1, <1>5
  <2>2. Ready(discovery) => rows' = SortedOf(discovery)
    <3>1. CASE OutNames = ResultNames
      BY <1>4, <2>1, <3>1 DEF SortedOf
    <3>2. CASE rows = << >>
      <4>1. \A out : StablySorted(<< >>, out) = << >>
        BY DEF StablySorted
      <4>2. QED
        BY <1>4, <2>1, <3>2, <4>1 DEF SortedOf
    <3>3. QED
      BY <1>4, <3>1, <3>2 DEF NamesFit
  <2>3. FilesAreFound'
    <3>1. files' = Plan(discovery)'
      BY <1>1, <1>2, PlanStays
    <3>2. QED
      BY <1>1, <1>2, <2>1, <3>1 DEF FilesAreFound
  <2>4. RowsAreMet'
    BY <1>1, <1>2, <2>1, <2>2, StagesNext DEF RowsAreMet
  <2>5. InPlace' /\ QueryIsRead' /\ AnswersAreOwed'
    BY <1>1, <1>2, <2>1, GoingOn DEF Stages
  <2>6. QED
    BY <2>3, <2>4, <2>5 DEF QueryIInv
<1>6. CASE ~fits
  <2>1. ~Ready(discovery)
    <3> SUFFICES ASSUME Ready(discovery), NEW k \in DOMAIN query.order_by
                 PROVE  query.order_by[k].name \in Range(OutNames)
      BY <1>6
    <3> DEFINE name == query.order_by[k].name
    <3>1. CASE OutNames = ResultNames
      BY <3>1 DEF Ready, Valid
    <3>2. CASE HasStar /\ KeysAreNamed
      <4>1. PICK ns \in Seq(Columns) : ns = names
        BY <1>4 DEF NamesFit
      <4>2. OutNames = OutNamesOf(ns)
        BY <4>1, OutNamesNow
      <4>3. CASE name \in Range(query.items)
        <5>1. PICK i \in DOMAIN query.items : name = query.items[i]
          BY <4>3 DEF Range
        <5>2. query.items[i].agg # "star"
          BY <1>3, <5>1 DEF ReadQuery
        <5>3. QED
          BY <1>3, <4>2, <5>1, <5>2, OutNamesRange
      <4>4. CASE name \notin Range(query.items)
        <5>1. PICK c \in Named : name = Column(c)
          BY <3>2, <4>4 DEF KeysAreNamed
        <5>2. c \in Range(ns)
          BY <1>4, <4>1, <5>1 DEF NamesFit
        <5>3. QED
          BY <1>3, <3>2, <4>2, <5>1, <5>2, OutNamesRange
      <4>5. QED
        BY <4>3, <4>4
    <3>3. QED
      BY <1>4, <3>1, <3>2 DEF NamesFit
  <2>2. QED
    BY <1>1, <1>2, <1>6, <2>1, Failing
<1>7. QED
  BY <1>5, <1>6

\* cut to the limit and returned as the answer.
LEMMA LimitKeeps == ASSUME QueryIInv, Limit PROVE QueryIInv'
<1>1. /\ pc = "limit" /\ SameCall /\ files' = files /\ columns' = columns /\ fetched' = fetched
      /\ Return(TRUE, Limited(rows))
  BY DEF Limit, SameCall
<1>2. /\ IsRead
      /\ files = Plan(discovery) /\ discovery \in Ways
  BY <1>1 DEF QueryIInv, FilesAreFound, QueryIsRead, InPlace
<1>3. Ready(discovery) => rows = StablySorted(Shaped(TableMet(discovery)), ResultNames)
  BY <1>1 DEF QueryIInv, RowsAreMet
<1>4. Ready(discovery) => Limited(rows) = Owed(discovery)
  BY <1>3 DEF Owed
<1>5. pc' = "done"
  BY <1>1 DEF Return
<1>6. AnswersAreOwed' /\ DOMAIN answers' = DOMAIN answers \cup {discovery}
  BY <1>1, <1>2, <1>4, OneMoreAnswer DEF SameCall, IsRead
<1>7. InPlace'
  BY <1>1, <1>5, <1>6 DEF QueryIInv, InPlace, CallsInOrder, SameCall, Stages
<1>8. IsRead'
  BY <1>1, <1>2, ReadStays
<1>9. QueryIsRead' /\ FilesAreFound' /\ RowsAreMet'
  BY <1>1, <1>2, <1>5, <1>8 DEF QueryIsRead, FilesAreFound, RowsAreMet
<1>10. QED
  BY <1>6, <1>7, <1>9 DEF QueryIInv

\* The next call starts over and leaves the answers alone.
LEMMA AskAgainKeeps == ASSUME QueryIInv, AskAgain PROVE QueryIInv'
<1>1. /\ pc = "done" /\ discovery # "Log" /\ pc' = "parse"
      /\ discovery' = IF discovery = "List" THEN "ListAndPrune" ELSE "Log"
      /\ discovery' \in Ways /\ columns' = << >> /\ fetched' = << >>
      /\ table' = table /\ asked' = asked /\ query' = query /\ answers' = answers
  BY DEF AskAgain, Ways
<1>2. AnswersAreOwed'
  BY <1>1, AnswersStay
<1>3. InPlace'
  BY <1>1 DEF QueryIInv, InPlace, CallsInOrder, Ways, Stages
<1>4. QueryIsRead'
  <2>1. PICK q : q = asked
    OBVIOUS
  <2>2. asked' = q
    BY <1>1, <2>1
  <2>3. /\ query # << >> => IsRead
        /\ DOMAIN answers # {} /\ Parse(q.sql).ok => IsRead
    BY <2>1 DEF QueryIInv, QueryIsRead
  <2>4. IsRead' <=> IsRead
    BY <1>1, <2>1, <2>2 DEF IsRead
  <2>5. QED
    BY <1>1, <2>2, <2>3, <2>4 DEF QueryIsRead
<1>5. FilesAreFound' /\ RowsAreMet'
  BY <1>1 DEF FilesAreFound, RowsAreMet
<1>6. QED
  BY <1>2, <1>3, <1>4, <1>5 DEF QueryIInv

\* Nothing changes.
LEMMA StutterKeeps == ASSUME QueryIInv, UNCHANGED vars PROVE QueryIInv'
<1>1. /\ pc' = pc /\ SameCall /\ files' = files /\ columns' = columns /\ fetched' = fetched
      /\ names' = names /\ rows' = rows /\ answers' = answers
  BY DEF vars, readerVars, SameCall
<1>2. discovery \in Ways /\ discovery' = discovery
  BY <1>1 DEF QueryIInv, InPlace, SameCall
<1>3. AnswersAreOwed'
  BY <1>1, AnswersStay DEF SameCall
<1>4. InPlace'
  BY <1>1 DEF QueryIInv, InPlace, CallsInOrder, SameCall
<1>5. QueryIsRead'
  <2>1. PICK q : q = asked
    OBVIOUS
  <2>2. asked' = q
    BY <1>1, <2>1 DEF SameCall
  <2>3. /\ query # << >> => IsRead
        /\ pc \notin {"parse", "done"} => IsRead
        /\ DOMAIN answers # {} /\ Parse(q.sql).ok => IsRead
    BY <2>1 DEF QueryIInv, QueryIsRead
  <2>4. IsRead' <=> IsRead
    BY <1>1, ReadStays
  <2>5. QED
    BY <1>1, <2>2, <2>3, <2>4 DEF QueryIsRead, SameCall
<1>6. FilesAreFound'
  <2>1. Found(discovery)' = Found(discovery) /\ Plan(discovery)' = Plan(discovery)
        /\ ColumnsFound(discovery)' = ColumnsFound(discovery)
    BY <1>1, <1>2, AllStands DEF SameCall
  <2>2. Kept' = Kept
    BY <1>1 DEF Kept
  <2>3. QED
    BY <1>1, <2>1, <2>2 DEF QueryIInv, FilesAreFound
<1>7. RowsAreMet'
  <2>1. OutNames' = OutNames
    BY <1>1, NamesStay
  <2>2. NamesFit' <=> NamesFit
    BY <1>1, <1>2, <2>1, StagesNext DEF NamesFit
  <2>3. QED
    BY <1>1, <1>2, <2>1, <2>2, StagesNext DEF QueryIInv, RowsAreMet, ShapedOf, SortedOf
<1>8. QED
  BY <1>3, <1>4, <1>5, <1>6, <1>7 DEF QueryIInv

\* What is owed at each stage is what is there (table.rs, query): whatever files and row groups
\* were ruled out, the rows scanned are, once filtered, those of every file of the table that
\* every condition accepts, and each later stage does to them what the query says.
THEOREM QueryInvariant == Spec => []QueryIInv
<1>1. Init => QueryIInv
  BY InitQuery
<1>2. QueryIInv /\ [Next]_vars => QueryIInv'
  BY ParseQueryKeeps, ListFilesKeeps, GetLogKeeps, RuleOutFilesKeeps, FetchNextKeeps,
     ScanSourcesKeeps, ScanNothingKeeps, FilterKeeps, AggregateRowsKeeps, ProjectKeeps,
     SortKeeps, LimitKeeps, AskAgainKeeps, StutterKeeps DEF Next
<1>3. QED
  BY <1>1, <1>2, PTL DEF Spec

\* In a table whose log is in step with the directory, each way finds the same files.
LEMMA SameFiles ==
    ASSUME table \in DOMAIN Tables, InSync, NEW d \in Ways
    PROVE  /\ DOMAIN Found(d) = DOMAIN Tables[table].listing
           /\ \A i \in DOMAIN Found(d) : Found(d)[i].key = Tables[table].listing[i]
<1> DEFINE keys == Tables[table].listing
           logged == ReadLog(Tables[table].log).files
<1>1. CASE d = "Log"
  <2>1. Found(d) = logged /\ [i \in DOMAIN logged |-> logged[i].key] = keys
    BY <1>1 DEF Found, InSync
  <2> HIDE DEF logged, keys
  <2>2. DOMAIN keys = DOMAIN logged /\ \A i \in DOMAIN logged : keys[i] = logged[i].key
    BY <2>1
  <2>3. QED
    BY <2>1, <2>2 DEF keys
<1>2. CASE d # "Log"
  <2>1. Found(d) = [i \in DOMAIN keys |-> TableFile(keys[i], Contents[keys[i]].partition, NoStats)]
    BY <1>2 DEF Found, Listed
  <2> HIDE DEF keys
  <2>2. QED
    BY <2>1 DEF keys, TableFile
<1>3. QED
  BY <1>1, <1>2

\* The way of finding the files decides what is read, and nothing else.
LEMMA SameAnswers ==
    ASSUME table \in DOMAIN Tables, InSync, NEW d \in Ways, NEW e \in Ways
    PROVE  Owed(d) = Owed(e)
<1>1. TableMet(d) = TableMet(e)
  BY SameFiles DEF TableMet
<1>2. QED
  BY <1>1 DEF Owed

\* A table that is whole when found one way is whole when found another.
LEMMA StoredEachWay ==
    ASSUME QueryIInv, InSync, Complete, NEW d \in Ways
    PROVE  Stored(d)
<1>1. table \in DOMAIN Tables /\ discovery \in Ways
  BY DEF QueryIInv, InPlace
<1>2. TableFiles = Range(Found(discovery))
  BY DEF TableFiles, Found
<1>3. \A i \in DOMAIN Found(discovery) : Found(discovery)[i].key \in DOMAIN ObjectSize
  BY <1>2 DEF Complete, Range
<1>4. \A i \in DOMAIN Found(d) : Found(d)[i].key \in DOMAIN ObjectSize
  BY <1>1, <1>3, SameFiles
<1>5. QED
  BY <1>4 DEF Stored, InSync

\* The files each way reads, in the table's order.
FilesRead(d) == {i \in DOMAIN Plan(d) : Plan(d)[i].read}

\* Each way reads no file the one before it does not.
LEMMA EachReadsNoMore ==
    ASSUME table \in DOMAIN Tables, InSync, Stored("Log"), Stored("ListAndPrune")
    PROVE  /\ IsFiniteSet(FilesRead("List"))
           /\ FilesRead("Log") \subseteq FilesRead("ListAndPrune")
           /\ FilesRead("ListAndPrune") \subseteq FilesRead("List")
<1> DEFINE keys == Tables[table].listing
           n == Len(keys)
<1>1. n \in Nat /\ DOMAIN keys = 1 .. n
  BY TablesAreTruthful, LenProperties DEF TruthfulTable
<1>2. ASSUME NEW d \in Ways
      PROVE  /\ DOMAIN Plan(d) = 1 .. n /\ DOMAIN Found(d) = 1 .. n
             /\ \A i \in 1 .. n : Plan(d)[i].read = Survives(Found(d)[i], d)
  BY <1>1, PlanType, SameFiles
<1> HIDE DEF n, keys
<1>3. FilesRead("List") = 1 .. n
  <2>1. \A i \in 1 .. n : Survives(Found("List")[i], "List")
    BY DEF Survives
  <2>2. QED
    BY <1>2, <2>1 DEF FilesRead, Ways
<1>4. IsFiniteSet(1 .. n)
  BY <1>1, FS_Interval
<1>5. FilesRead("ListAndPrune") \subseteq 1 .. n
  BY <1>2 DEF FilesRead, Ways
<1>6. ASSUME NEW i \in 1 .. n, Survives(Found("Log")[i], "Log")
      PROVE  Survives(Found("ListAndPrune")[i], "ListAndPrune")
  <2> DEFINE f == Found("Log")[i]
             g == Found("ListAndPrune")[i]
  <2>1. /\ i \in DOMAIN Found("Log") /\ i \in DOMAIN Found("ListAndPrune")
        /\ f \in Range(Found("Log")) /\ g \in Range(Found("ListAndPrune"))
    BY <1>2 DEF Ways, Range
  <2>2. f.key = keys[i] /\ g.key = keys[i]
    BY <2>1, SameFiles DEF Ways, keys
  <2>3. f.key \in DOMAIN ObjectSize
    BY <2>1 DEF Stored
  <2>4. KnownTruly(f) /\ KnownTruly(g)
    BY <2>1, <2>3, FoundType
  <2>5. f.partition = g.partition
    BY <2>2, <2>4 DEF KnownTruly
  <2> HIDE DEF f, g
  <2>6. \A c \in query.conditions : RulesOut(g, c, FALSE) => RulesOut(f, c, TRUE)
    BY <2>5 DEF RulesOut, PartitionRulesOut
  <2>7. \A c \in query.conditions : ~RulesOut(f, c, TRUE)
    BY <1>6 DEF Survives, f
  <2>8. QED
    BY <2>6, <2>7 DEF Survives, g
<1>7. FilesRead("Log") \subseteq FilesRead("ListAndPrune")
  BY <1>2, <1>6 DEF FilesRead, Ways
<1>8. QED
  BY <1>3, <1>4, <1>5, <1>7

\* The ways differ in cost alone, by the invariant.
LEMMA DiscoveryFromInvariant ==
    ASSUME QueryIInv, \A d \in DOMAIN answers : KeysAreKnown(d)
    PROVE  DiscoveryOnlyChangesCost
<1> SUFFICES ASSUME InSync, query # << >>, Valid, Complete
             PROVE  /\ \A d, e \in DOMAIN answers :
                          answers[d].ok = answers[e].ok /\ answers[d].rows = answers[e].rows
                    /\ "ListAndPrune" \in DOMAIN answers =>
                          answers["ListAndPrune"].read <= answers["List"].read
                    /\ "Log" \in DOMAIN answers =>
                          answers["Log"].read <= answers["ListAndPrune"].read
  BY DEF DiscoveryOnlyChangesCost
<1>1. /\ table \in DOMAIN Tables /\ DOMAIN answers \subseteq Ways /\ Parse(asked.sql).ok
      /\ "ListAndPrune" \in DOMAIN answers => "List" \in DOMAIN answers
      /\ "Log" \in DOMAIN answers => "ListAndPrune" \in DOMAIN answers
  BY DEF QueryIInv, InPlace, CallsInOrder, QueryIsRead, IsRead
<1>2. \A d \in Ways : Stored(d)
  BY StoredEachWay
<1>3. \A d \in DOMAIN answers : answers[d] = OwedAnswer(d)
  <2>1. \A d \in DOMAIN answers : Ready(d)
    BY <1>1, <1>2 DEF Ready
  <2>2. QED
    BY <1>1, <2>1 DEF QueryIInv, AnswersAreOwed
<1>4. ASSUME NEW d \in DOMAIN answers
      PROVE  /\ answers[d].ok = TRUE /\ answers[d].rows = Owed(d)
             /\ answers[d].read = Cardinality(FilesRead(d))
  <2>1. answers[d] = OwedAnswer(d)
    BY <1>3
  <2>2. QED
    BY <2>1 DEF OwedAnswer, FilesRead
<1>5. ASSUME NEW d \in DOMAIN answers, NEW e \in DOMAIN answers
      PROVE  answers[d].ok = answers[e].ok /\ answers[d].rows = answers[e].rows
  <2>1. Owed(d) = Owed(e)
    BY <1>1, SameAnswers
  <2>2. QED
    BY <1>4, <2>1
<1>6. /\ Cardinality(FilesRead("Log")) <= Cardinality(FilesRead("ListAndPrune"))
      /\ Cardinality(FilesRead("ListAndPrune")) <= Cardinality(FilesRead("List"))
  <2>1. /\ IsFiniteSet(FilesRead("List"))
        /\ FilesRead("Log") \subseteq FilesRead("ListAndPrune")
        /\ FilesRead("ListAndPrune") \subseteq FilesRead("List")
    BY <1>1, <1>2, EachReadsNoMore DEF Ways
  <2>2. QED
    BY <2>1, FS_Subset
<1>7. QED
  BY <1>1, <1>4, <1>5, <1>6

\* However the files are found, by a LIST, a LIST and their paths, or the log and its statistics
\* (table.rs, discover and rules_out), a query gets the same rows in the same order, and each
\* way reads no more files than the one before it; but for a key of ORDER BY that is looked for
\* where no file is read and no columns are known.
THEOREM DiscoveryOnlyCosts ==
    Spec => []((\A d \in DOMAIN answers : KeysAreKnown(d)) => DiscoveryOnlyChangesCost)
<1>1. QueryIInv => ((\A d \in DOMAIN answers : KeysAreKnown(d)) => DiscoveryOnlyChangesCost)
  BY DiscoveryFromInvariant
<1>2. QED
  BY <1>1, QueryInvariant, PTL

(***************************************************************************)
(* The order and the limit                                                 *)
(***************************************************************************)
\* Where each key of ORDER BY is in the rows of the result, and what a row has there.
PlaceOf(k) == SelectInSeq(ResultNames, LAMBDA name : name = query.order_by[k].name)
SortKey(row) ==
    [k \in DOMAIN query.order_by |->
        IF query.order_by[k].desc THEN -(row[PlaceOf(k)]) ELSE row[PlaceOf(k)]]

\* A row that has numbers there
Sortable(row) == \A k \in DOMAIN query.order_by : row[PlaceOf(k)] \in Int
Before(a, b) == ComesBefore(a, b, query.order_by, ResultNames)

\* is ordered by them.
LEMMA SortKeysOrder ==
    ASSUME ReadQuery(query), NEW a, NEW b, Sortable(a), Sortable(b)
    PROVE  LET n == Len(query.order_by)
           IN  /\ n \in Nat /\ SortKey(a) \in [1 .. n -> Int] /\ SortKey(b) \in [1 .. n -> Int]
               /\ Before(a, b) <=> Lower(SortKey(a), SortKey(b), n)
<1> DEFINE n == Len(query.order_by)
           keys == query.order_by
           at == [k \in 1 .. n |-> PlaceOf(k)]
           f == SortKey(a)
           g == SortKey(b)
<1>1. n \in Nat /\ DOMAIN keys = 1 .. n
  BY LenProperties DEF ReadQuery
<1>2. \A k \in 1 .. n : a[at[k]] \in Int /\ b[at[k]] \in Int
  BY <1>1 DEF Sortable
<1>3. /\ f = [k \in 1 .. n |-> IF keys[k].desc THEN -(a[at[k]]) ELSE a[at[k]]]
      /\ g = [k \in 1 .. n |-> IF keys[k].desc THEN -(b[at[k]]) ELSE b[at[k]]]
  BY <1>1 DEF SortKey
<1>4. Before(a, b) <=>
        \E k \in 1 .. n :
           /\ IF keys[k].desc THEN a[at[k]] > b[at[k]] ELSE a[at[k]] < b[at[k]]
           /\ \A j \in 1 .. k - 1 : a[at[j]] = b[at[j]]
  <2>1. Before(a, b) <=>
          \E k \in 1 .. n :
             /\ IF keys[k].desc THEN a[PlaceOf(k)] > b[PlaceOf(k)] ELSE a[PlaceOf(k)] < b[PlaceOf(k)]
             /\ \A j \in 1 .. k - 1 : a[PlaceOf(j)] = b[PlaceOf(j)]
    BY <1>1 DEF Before, ComesBefore, PlaceOf, SelectInSeq
  <2>2. \A k \in 1 .. n : at[k] = PlaceOf(k) /\ \A j \in 1 .. k - 1 : j \in 1 .. n /\ at[j] = PlaceOf(j)
    BY <1>1
  <2> HIDE DEF at, keys, n
  <2>3. QED
    BY <2>1, <2>2
<1> HIDE DEF at, keys, n, f, g
<1>5. f \in [1 .. n -> Int] /\ g \in [1 .. n -> Int]
  BY <1>2, <1>3
<1>6. \A k \in 1 .. n : f[k] < g[k] <=> IF keys[k].desc THEN a[at[k]] > b[at[k]] ELSE a[at[k]] < b[at[k]]
  BY <1>2, <1>3
<1>7. \A k \in 1 .. n : f[k] = g[k] <=> a[at[k]] = b[at[k]]
  BY <1>2, <1>3
<1>8. \A k \in 1 .. n : \A j \in 1 .. k - 1 : j \in 1 .. n
  BY <1>1
<1>9. Before(a, b) <=> Lower(f, g, n)
  BY <1>4, <1>6, <1>7, <1>8 DEF Lower
<1>10. QED
  BY <1>1, <1>5, <1>9 DEF f, g, n

\* Sorting rearranges the rows, so that none comes before one it is behind.
LEMMA SortedInOrder ==
    ASSUME ReadQuery(query), NEW R, NEW rs \in Seq(R), \A i \in DOMAIN rs : Sortable(rs[i])
    PROVE  \E at \in [1 .. Len(rs) -> 1 .. Len(rs)] :
              /\ IsInjective(at) /\ Range(at) = 1 .. Len(rs)
              /\ StablySorted(rs, ResultNames) = [m \in 1 .. Len(rs) |-> rs[at[m]]]
              /\ \A m, p \in 1 .. Len(rs) : m < p => ~Before(rs[at[p]], rs[at[m]])
<1> DEFINE n == Len(rs)
           K == Len(query.order_by)
           f == [i \in 1 .. n |-> SortKey(rs[i])]
           R2 == {p \in (1 .. n) \X (1 .. n) :
                    \/ Before(rs[p[1]], rs[p[2]])
                    \/ p[1] < p[2] /\ ~Before(rs[p[2]], rs[p[1]])}
           rank == [i \in 1 .. n |-> Cardinality({j \in 1 .. n : <<j, i>> \in R2}) + 1]
           at == [m \in 1 .. n |-> CHOOSE i \in 1 .. n : rank[i] = m]
<1>1. n \in Nat /\ DOMAIN rs = 1 .. n
  BY LenProperties
<1>2. /\ \A i \in 1 .. n : f[i] \in [1 .. K -> Int]
      /\ \A i, j \in 1 .. n : Before(rs[i], rs[j]) <=> Lower(f[i], f[j], K)
  BY <1>1, SortKeysOrder
<1>3. K \in Nat
  BY LenProperties DEF ReadQuery
<1>4. \A i, j \in 1 .. n : <<i, j>> \in R2 <=> \/ Lower(f[i], f[j], K)
                                               \/ i < j /\ ~Lower(f[j], f[i], K)
  BY <1>2
<1>5. \A i, j, k \in 1 .. n :
         /\ ~Lower(f[i], f[i], K)
         /\ Lower(f[i], f[j], K) /\ Lower(f[j], f[k], K) => Lower(f[i], f[k], K)
         /\ Lower(f[i], f[j], K) \/ Lower(f[j], f[i], K) \/ f[i] = f[j]
  <2> HIDE DEF f, K, n
  <2>1. QED
    BY <1>2, <1>3, LowerOrders
<1> HIDE DEF f, K, R2, n
<1>6. Totally(R2, n)
  <2>1. \A i \in 1 .. n : <<i, i>> \notin R2
    BY <1>1, <1>4, <1>5
  <2>2. ASSUME NEW i \in 1 .. n, NEW j \in 1 .. n, NEW k \in 1 .. n, <<i, j>> \in R2, <<j, k>> \in R2
        PROVE  <<i, k>> \in R2
    <3>1. CASE Lower(f[i], f[j], K)
      <4>1. CASE Lower(f[j], f[k], K)
        BY <1>4, <1>5, <3>1, <4>1
      <4>2. CASE ~Lower(f[j], f[k], K)
        <5>1. f[j] = f[k]
          BY <1>4, <1>5, <2>2, <4>2
        <5>2. QED
          BY <1>4, <3>1, <5>1
      <4>3. QED
        BY <4>1, <4>2
    <3>2. CASE ~Lower(f[i], f[j], K)
      <4>1. f[i] = f[j] /\ i < j
        BY <1>4, <1>5, <2>2, <3>2
      <4>2. CASE Lower(f[j], f[k], K)
        BY <1>4, <4>1, <4>2
      <4>3. CASE ~Lower(f[j], f[k], K)
        <5>1. j < k /\ ~Lower(f[k], f[j], K)
          BY <1>4, <2>2, <4>3
        <5>2. i < k
          BY <1>1, <4>1, <5>1
        <5>3. QED
          BY <1>4, <4>1, <5>1, <5>2
      <4>4. QED
        BY <4>2, <4>3
    <3>3. QED
      BY <3>1, <3>2
  <2>3. ASSUME NEW i \in 1 .. n, NEW j \in 1 .. n
        PROVE  <<i, j>> \in R2 \/ <<j, i>> \in R2 \/ i = j
    <3>1. i < j \/ j < i \/ i = j
      BY <1>1
    <3>2. QED
      BY <1>4, <3>1
  <2>4. QED
    BY <2>1, <2>2, <2>3 DEF Totally
<1>7. /\ at \in [1 .. n -> 1 .. n] /\ IsInjective(at) /\ Range(at) = 1 .. n
      /\ \A m, p \in 1 .. n : m < p => <<at[p], at[m]>> \notin R2
  <2> DEFINE earlier == [i \in 1 .. n |-> {j \in 1 .. n : <<j, i>> \in R2}]
  <2>1. /\ \A i \in 1 .. n : \A j : j \in earlier[i] <=> j \in 1 .. n /\ <<j, i>> \in R2
        /\ \A i \in 1 .. n : rank[i] = Cardinality(earlier[i]) + 1
    OBVIOUS
  <2> HIDE DEF rank, earlier
  <2>2. /\ at = [m \in 1 .. n |-> at[m]]
        /\ \A m \in 1 .. n : (\E i \in 1 .. n : rank[i] = m) => at[m] \in 1 .. n /\ rank[at[m]] = m
    OBVIOUS
  <2> HIDE DEF at
  <2>3. QED
    <3>1. TakenBy(at, rank, earlier, R2, n)
      BY <2>1, <2>2 DEF TakenBy
    <3>2. QED
      BY <1>1, <1>6, <3>1, PlacesAreTaken
<1>8. ASSUME NEW m \in 1 .. n, NEW p \in 1 .. n, m < p
      PROVE  ~Before(rs[at[p]], rs[at[m]])
  <2> HIDE DEF at
  <2>1. <<at[p], at[m]>> \notin R2 /\ at[p] \in 1 .. n /\ at[m] \in 1 .. n
    BY <1>7, <1>8
  <2>2. QED
    BY <1>2, <1>4, <2>1
<1>9. StablySorted(rs, ResultNames) = [m \in 1 .. n |-> rs[at[m]]]
  <2> DEFINE Earlier(i) ==
                {j \in DOMAIN rs :
                    \/ ComesBefore(rs[j], rs[i], query.order_by, ResultNames)
                    \/ /\ j < i
                       /\ ~ComesBefore(rs[i], rs[j], query.order_by, ResultNames)}
             rank2 == [i \in DOMAIN rs |-> Cardinality(Earlier(i)) + 1]
  <2>1. ASSUME NEW i \in 1 .. n
        PROVE  Earlier(i) = {j \in 1 .. n : <<j, i>> \in R2}
    <3>1. \A j : j \in Earlier(i) <=>
                 j \in 1 .. n /\ (Before(rs[j], rs[i]) \/ (j < i /\ ~Before(rs[i], rs[j])))
      BY <1>1 DEF Before
    <3>2. \A j \in 1 .. n : <<j, i>> \in R2 <=> Before(rs[j], rs[i]) \/ (j < i /\ ~Before(rs[i], rs[j]))
      BY DEF R2
    <3> HIDE DEF Earlier
    <3>3. QED
      BY <3>1, <3>2
  <2>2. rank2 = rank
    <3> HIDE DEF Earlier
    <3>1. QED
      BY <1>1, <2>1
  <2>3. StablySorted(rs, ResultNames) = [m \in DOMAIN rs |-> rs[CHOOSE i \in DOMAIN rs : rank2[i] = m]]
    BY DEF StablySorted
  <2> HIDE DEF rank2, rank
  <2>4. QED
    BY <1>1, <2>2, <2>3
<1>10. QED
  BY <1>7, <1>8, <1>9 DEF n

\* Of what has a value, how much is in the first m of a list, and in all of it.
Among(given, due, r, at, m, results) ==
    /\ \A i : i \in given <=> i \in 1 .. m /\ results[at[i]] = r
    /\ \A u : u \in due <=> u \in DOMAIN results /\ results[u] = r

\* As much as is kept of a list of a result: of each value no more than there is of it, and
\* if less, one was left out.
LEMMA PartOfAList ==
    ASSUME NEW n \in Nat, NEW m \in 0 .. n, NEW results,
           NEW at \in [1 .. n -> DOMAIN results], IsInjective(at), Range(at) = DOMAIN results,
           NEW given, NEW due, NEW r, Among(given, due, r, at, m, results)
    PROVE  /\ Cardinality(given) <= Cardinality(due)
           /\ Cardinality(given) < Cardinality(due) => \E i \in m + 1 .. n : results[at[i]] = r
<1> DEFINE Shown == {i \in 1 .. m : results[at[i]] = r}
           Due == {u \in DOMAIN results : results[u] = r}
           taken == {at[i] : i \in Shown}
<1>1. IsFiniteSet(DOMAIN results)
  BY DistinctSize
<1>2. IsFiniteSet(Shown)
  <2>1. IsFiniteSet(1 .. m)
    BY UpToSize
  <2>2. QED
    BY <2>1, FS_Subset
<1>3. given = Shown /\ due = Due
  <2>1. \A i : i \in given <=> i \in Shown
    BY DEF Among
  <2>2. \A i : i \in due <=> i \in Due
    BY DEF Among
  <2> HIDE DEF Shown, Due
  <2>3. QED
    BY <2>1, <2>2
<1>4. \A i, j \in Shown : at[i] = at[j] => i = j
  <2>1. \A i, j \in 1 .. n : at[i] = at[j] => i = j
    BY DEF IsInjective
  <2>2. \A i \in Shown : i \in 1 .. n
    OBVIOUS
  <2>3. QED
    BY <2>1, <2>2
<1>5. taken \subseteq Due
  OBVIOUS
<1>6. (\A i \in m + 1 .. n : results[at[i]] # r) => Due \subseteq taken
  <2> SUFFICES ASSUME \A i \in m + 1 .. n : results[at[i]] # r, NEW u \in Due
               PROVE  u \in taken
    OBVIOUS
  <2>1. PICK i \in 1 .. n : u = at[i]
    BY DEF Range
  <2>2. i \in 1 .. m
    BY <2>1
  <2>3. QED
    BY <2>1, <2>2
<1>7. IsFiniteSet(Due)
  BY <1>1, FS_Subset
<1>8. \A y : y \in taken <=> \E i \in Shown : y = at[i]
  OBVIOUS
<1> HIDE DEF Shown, Due, taken
<1>9. Cardinality(taken) = Cardinality(Shown)
  BY <1>2, <1>4, <1>8, NamedSize
<1>10. Cardinality(taken) <= Cardinality(Due) /\ Cardinality(Due) \in Nat /\ Cardinality(taken) \in Nat
  BY <1>5, <1>7, FS_Subset, FS_CardinalityType
<1>11. Cardinality(taken) < Cardinality(Due) => ~(Due \subseteq taken)
  <2> SUFFICES ASSUME Due \subseteq taken, Cardinality(taken) < Cardinality(Due)
               PROVE  FALSE
    OBVIOUS
  <2>1. Due = taken
    BY <1>5
  <2>2. QED
    BY <1>10, <2>1
<1>12. QED
  BY <1>3, <1>6, <1>9, <1>10, <1>11

\* The rows are those of a result, each once.
Lists(rs, results) ==
    \E us \in Seq(DOMAIN results) :
        IsInjective(us) /\ Range(us) = DOMAIN results /\ rs = Each(results, us)

\* A list of a result, sorted and cut to the limit, is an answer of it.
LEMMA ListedExactly ==
    ASSUME ReadQuery(query), NEW results, NEW rs, Lists(rs, results),
           \A u \in DOMAIN results : Sortable(results[u])
    PROVE  Exactly(Limited(StablySorted(rs, ResultNames)), results)
<1> DEFINE R == {results[u] : u \in DOMAIN results}
           sorted == StablySorted(rs, ResultNames)
           out == Limited(sorted)
           all == Cardinality(DOMAIN results)
<1>1. PICK us \in Seq(DOMAIN results) :
         IsInjective(us) /\ Range(us) = DOMAIN results /\ rs = Each(results, us)
  BY DEF Lists
<1> DEFINE n == Len(us)
           m == IF query.limit = NoLimit \/ query.limit > n THEN n ELSE query.limit
<1>2. n \in Nat /\ DOMAIN us = 1 .. n /\ \A i \in 1 .. n : us[i] \in DOMAIN results
  BY LenProperties, ElementOfSeq
<1>3. rs \in Seq(R) /\ DOMAIN rs = 1 .. n /\ \A i \in 1 .. n : rs[i] = results[us[i]]
  <2>1. \A u \in DOMAIN results : results[u] \in R
    OBVIOUS
  <2> HIDE DEF R
  <2>2. rs \in Seq(R)
    BY <1>1, <2>1, EachType
  <2>3. QED
    BY <1>1, <1>2, <2>2 DEF Each
<1> HIDE DEF R
<1>4. Len(rs) = n
  BY <1>2, <1>3, LenProperties
<1>5. \A i \in DOMAIN rs : Sortable(rs[i])
  BY <1>2, <1>3
<1>6. PICK at \in [1 .. n -> 1 .. n] :
         /\ IsInjective(at) /\ Range(at) = 1 .. n
         /\ sorted = [p \in 1 .. n |-> rs[at[p]]]
         /\ \A p, q \in 1 .. n : p < q => ~Before(rs[at[q]], rs[at[p]])
  BY <1>3, <1>4, <1>5, SortedInOrder
<1> DEFINE of == [p \in 1 .. n |-> us[at[p]]]
<1>7. all = n
  BY <1>1, <1>2, DistinctSize
<1> HIDE DEF sorted, n
<1>8. of \in [1 .. n -> DOMAIN results] /\ IsInjective(of) /\ Range(of) = DOMAIN results
  <2>1. \A p \in 1 .. n : at[p] \in 1 .. n /\ of[p] = us[at[p]] /\ of[p] \in DOMAIN results
    BY <1>2
  <2>2. of \in [1 .. n -> DOMAIN results]
    BY <1>2
  <2> HIDE DEF of
  <2>3. IsInjective(of)
    BY <1>1, <1>2, <1>6, <2>1, <2>2 DEF IsInjective
  <2>4. \A u \in DOMAIN results : \E p \in 1 .. n : of[p] = u
    <3> TAKE u \in DOMAIN results
    <3>1. PICK i \in 1 .. n : us[i] = u
      BY <1>1, <1>2 DEF Range
    <3>2. PICK p \in 1 .. n : at[p] = i
      BY <1>6 DEF Range
    <3>3. QED
      BY <2>1, <3>1, <3>2
  <2>5. QED
    BY <2>2, <2>3, <2>4 DEF Range
<1>9. sorted = [p \in 1 .. n |-> results[of[p]]]
  BY <1>3, <1>6
<1>10. \A p, q \in 1 .. n : p < q => ~Before(results[of[q]], results[of[p]])
  BY <1>3, <1>6
<1> HIDE DEF of
<1>11. m \in 0 .. n
  BY <1>2 DEF ReadQuery, NoLimit
<1>12. sorted \in Seq(R) /\ Len(sorted) = n
  <2>1. sorted \in [1 .. n -> R]
    BY <1>8, <1>9 DEF R
  <2>2. sorted \in Seq(R)
    BY <1>2, <2>1, SeqDef
  <2>3. DOMAIN sorted = 1 .. n /\ DOMAIN sorted = 1 .. Len(sorted) /\ Len(sorted) \in Nat
    BY <2>1, <2>2, LenProperties
  <2>4. QED
    BY <1>2, <2>2, <2>3
<1>13. out = [i \in 1 .. m |-> results[of[i]]] /\ Len(out) = m
  <2>1. CASE query.limit = NoLimit \/ query.limit > n
    BY <1>9, <1>12, <2>1 DEF Limited
  <2>2. CASE ~(query.limit = NoLimit \/ query.limit > n)
    <3>1. out = SubSeq(sorted, 1, m) /\ m \in Nat /\ m <= n
      BY <1>11, <1>12, <2>2 DEF Limited
    <3> HIDE DEF m
    <3>2. SubSeq(sorted, 1, m) = [i \in 1 .. m |-> sorted[i]]
      BY <1>12, <3>1, SubSeqRestrict DEF Restrict
    <3>3. \A i \in 1 .. m : i \in 1 .. n /\ sorted[i] = results[of[i]]
      BY <1>2, <1>9, <3>1
    <3>4. out = [i \in 1 .. m |-> results[of[i]]]
      BY <3>1, <3>2, <3>3
    <3>5. Len(out) = m
      BY <3>1, <3>4
    <3>6. QED
      BY <3>4, <3>5
  <2>3. QED
    BY <2>1, <2>2
<1> HIDE DEF out
<1>14. DOMAIN out = 1 .. m /\ \A i \in 1 .. m : i \in 1 .. n /\ out[i] = results[of[i]]
  BY <1>2, <1>11, <1>13
<1>15. Len(out) = IF query.limit = NoLimit \/ query.limit > all THEN all ELSE query.limit
  BY <1>7, <1>13
<1> DEFINE Shown(r) == Cardinality({i \in DOMAIN out : out[i] = r})
           Due(r) == Cardinality({u \in DOMAIN results : results[u] = r})
<1> HIDE DEF m, Shown, Due
<1>16. \A r : /\ Shown(r) <= Due(r)
              /\ Shown(r) < Due(r) => \E i \in m + 1 .. n : results[of[i]] = r
  <2> TAKE r
  <2> DEFINE given == {i \in DOMAIN out : out[i] = r}
             due == {u \in DOMAIN results : results[u] = r}
  <2>1. Among(given, due, r, of, m, results)
    BY <1>14 DEF Among
  <2>2. Shown(r) = Cardinality(given) /\ Due(r) = Cardinality(due)
    BY DEF Shown, Due
  <2> HIDE DEF given, due
  <2>3. /\ Cardinality(given) <= Cardinality(due)
        /\ Cardinality(given) < Cardinality(due) => \E i \in m + 1 .. n : results[of[i]] = r
    <3>1. Cardinality(given) <= Cardinality(due)
      BY <1>2, <1>8, <1>11, <2>1, PartOfAList
    <3>2. ASSUME Cardinality(given) < Cardinality(due)
          PROVE  \E i \in m + 1 .. n : results[of[i]] = r
      <4>1. PICK k \in Nat : k = n
        BY <1>2
      <4>2. PICK p \in 0 .. k : p = m
        BY <1>11, <4>1
      <4>3. PICK o \in [1 .. k -> DOMAIN results] : o = of
        BY <1>8, <4>1
      <4>4. \E i \in p + 1 .. k : results[o[i]] = r
        BY <1>8, <2>1, <3>2, <4>2, <4>3, PartOfAList
      <4>5. QED
        BY <4>1, <4>2, <4>3, <4>4
    <3>3. QED
      BY <3>1, <3>2
  <2>4. QED
    BY <2>2, <2>3
<1>17. \A i \in DOMAIN out : Shown(out[i]) <= Due(out[i])
  BY <1>16
<1>18. \A i, j \in DOMAIN out : i < j => ~Before(out[j], out[i])
  BY <1>10, <1>14
<1>19. ASSUME NEW u \in DOMAIN results, Shown(results[u]) < Due(results[u])
       PROVE  \A i \in DOMAIN out : ~Before(results[u], out[i])
  <2>1. PICK p \in m + 1 .. n : results[of[p]] = results[u]
    BY <1>16, <1>19
  <2>2. \A i \in 1 .. m : i < p /\ p \in 1 .. n
    BY <1>2, <1>11
  <2>3. QED
    BY <1>10, <1>14, <2>1, <2>2
<1>20. QED
  BY <1>15, <1>17, <1>18, <1>19 DEF Exactly, Before, Shown, Due, out, sorted

(***************************************************************************)
(* The rows, each under its file, group and place                          *)
(***************************************************************************)
AllIds ==
    {id \in (DOMAIN Contents) \X Nat \X Nat :
        /\ id[2] \in DOMAIN Contents[id[1]].groups
        /\ id[3] \in DOMAIN Contents[id[1]].groups[id[2]].rows}
RowAt == [id \in AllIds |-> RowOf(id)]
MetIds == {id \in AllIds : RowAt[id] \in Met}

IdsOfGroup(key, g) == [i \in DOMAIN Contents[key].groups[g].rows |-> <<key, g, i>>]
MetOfGroup(key, g) == Keeping(IdsOfGroup(key, g), MetIds)
MetOfFile(key) == FlattenSeq([g \in DOMAIN Contents[key].groups |-> MetOfGroup(key, g)])
MetOfTable(d) == FlattenSeq([i \in DOMAIN Found(d) |-> MetOfFile(Found(d)[i].key)])

\* What is numbered is there, and is a row.
LEMMA IdType ==
    ASSUME NEW key \in DOMAIN Contents, NEW g \in DOMAIN Contents[key].groups,
           NEW i \in DOMAIN Contents[key].groups[g].rows
    PROVE  /\ <<key, g, i>> \in AllIds
           /\ RowAt[<<key, g, i>>] = GroupRows(Contents[key], Contents[key].groups[g])[i]
<1>1. g \in Nat
  BY FileType, LenProperties
<1>2. i \in Nat
  BY FileType, LenProperties
<1>3. <<key, g, i>> \in AllIds
  BY <1>1, <1>2 DEF AllIds
<1>4. Contents[key].partition \in [Range(PartitionColumns) -> Int \ {Null}]
  BY FileType
<1>5. \A c \in Columns : c \notin Range(Schema) => c \in DOMAIN Contents[key].partition
  BY <1>4 DEF Columns
<1>6. RowOf(<<key, g, i>>) = [c \in Columns |-> Cell(Contents[key], Contents[key].groups[g].rows[i], c)]
  BY <1>5 DEF RowOf, Cell
<1>7. QED
  BY <1>3, <1>6 DEF RowAt, GroupRows

\* They are rows of the table.
LEMMA RowsType == \A id \in AllIds : RowAt[id] \in Row
<1> SUFFICES ASSUME NEW id \in AllIds
             PROVE  RowAt[id] \in Row
  OBVIOUS
<1> DEFINE key == id[1]
           g == id[2]
           i == id[3]
<1>1. /\ id = <<key, g, i>> /\ key \in DOMAIN Contents /\ g \in DOMAIN Contents[key].groups
      /\ i \in DOMAIN Contents[key].groups[g].rows
  BY DEF AllIds
<1> HIDE DEF key, g, i
<1>2. RowAt[id] = GroupRows(Contents[key], Contents[key].groups[g])[i]
  BY <1>1, IdType
<1>3. LET rs == GroupRows(Contents[key], Contents[key].groups[g])
      IN  rs \in Seq(Row) /\ DOMAIN rs = DOMAIN Contents[key].groups[g].rows
  BY <1>1, GroupRowsType
<1>4. GroupRows(Contents[key], Contents[key].groups[g])[i] \in Row
  BY <1>1, <1>3, LenProperties, ElementOfSeq
<1>5. QED
  BY <1>2, <1>4

\* The rows that are met in a row group,
LEMMA GroupMetById ==
    ASSUME NEW key \in DOMAIN Contents, NEW g \in DOMAIN Contents[key].groups
    PROVE  /\ MetOfGroup(key, g) \in Seq(AllIds)
           /\ IsInjective(MetOfGroup(key, g))
           /\ \A id : id \in ToSet(MetOfGroup(key, g)) <=> id \in MetIds /\ id[1] = key /\ id[2] = g
           /\ Each(RowAt, MetOfGroup(key, g)) = GroupsMet(Contents[key])[g]
<1> DEFINE rs == GroupRows(Contents[key], Contents[key].groups[g])
           ids == IdsOfGroup(key, g)
           n == Len(Contents[key].groups[g].rows)
<1>1. n \in Nat /\ DOMAIN Contents[key].groups[g].rows = 1 .. n
  BY FileType, LenProperties
<1>2. ids \in [1 .. n -> AllIds] /\ IsInjective(ids)
  BY <1>1, IdType DEF IdsOfGroup, IsInjective
<1>3. \A id : id \in ToSet(ids) <=> id \in AllIds /\ id[1] = key /\ id[2] = g
  <2>1. ASSUME NEW i \in 1 .. n
        PROVE  ids[i] \in AllIds /\ ids[i][1] = key /\ ids[i][2] = g
    BY <1>1, IdType DEF IdsOfGroup
  <2>2. ASSUME NEW id \in AllIds, id[1] = key, id[2] = g
        PROVE  id \in ToSet(ids)
    <3>1. id = <<key, g, id[3]>> /\ id[3] \in DOMAIN Contents[key].groups[g].rows
      BY <2>2 DEF AllIds
    <3>2. QED
      BY <3>1 DEF IdsOfGroup, ToSet
  <2>3. DOMAIN ids = 1 .. n
    BY <1>2
  <2> HIDE DEF ids, n
  <2>4. QED
    BY <2>1, <2>2, <2>3 DEF ToSet
<1>4. Each(RowAt, ids) = rs
  <2>1. \A i \in 1 .. n : RowAt[ids[i]] = rs[i]
    BY <1>1, IdType DEF IdsOfGroup
  <2>2. DOMAIN ids = 1 .. n
    BY <1>2
  <2>3. rs = [i \in 1 .. n |-> rs[i]]
    BY <1>1 DEF GroupRows
  <2> HIDE DEF ids, rs, n
  <2>4. QED
    BY <2>1, <2>2, <2>3 DEF Each
<1> HIDE DEF ids, rs, n
<1>5. ids \in Seq(AllIds)
  BY <1>1, <1>2, SeqDef
<1>6. /\ Keeping(ids, MetIds) \in Seq(AllIds) /\ IsInjective(Keeping(ids, MetIds))
      /\ ToSet(Keeping(ids, MetIds)) = ToSet(ids) \cap MetIds
  BY <1>2, <1>5, KeepingKeeps
<1>7. \A id \in AllIds : id \in MetIds <=> RowAt[id] \in Met
  BY DEF MetIds
<1>8. Keeping(rs, Met) = Each(RowAt, Keeping(ids, MetIds))
  <2>1. Keeping(Each(RowAt, ids), Met) = Each(RowAt, Keeping(ids, MetIds))
    BY <1>5, <1>7, EachKeeping
  <2>2. QED
    BY <1>4, <2>1
<1>9. \A id : id \in ToSet(Keeping(ids, MetIds)) <=> id \in MetIds /\ id[1] = key /\ id[2] = g
  BY <1>3, <1>6 DEF MetIds
<1>10. QED
  BY <1>6, <1>8, <1>9 DEF MetOfGroup, GroupsMet, ids, rs

\* in a file,
LEMMA FileMetById ==
    ASSUME NEW key \in DOMAIN Contents
    PROVE  /\ MetOfFile(key) \in Seq(AllIds)
           /\ IsInjective(MetOfFile(key))
           /\ \A id : id \in ToSet(MetOfFile(key)) <=> id \in MetIds /\ id[1] = key
           /\ Each(RowAt, MetOfFile(key)) = FileMet(key)
<1> DEFINE groups == Contents[key].groups
           n == Len(groups)
           ss == [g \in DOMAIN groups |-> MetOfGroup(key, g)]
<1>1. n \in Nat /\ DOMAIN groups = 1 .. n
  BY FileType, LenProperties
<1>2. ss \in [1 .. n -> Seq(AllIds)] /\ DOMAIN ss = 1 .. n
  BY <1>1, GroupMetById
<1>3. \A g \in 1 .. n : /\ IsInjective(ss[g])
                        /\ \A id : id \in ToSet(ss[g]) <=> id \in MetIds /\ id[1] = key /\ id[2] = g
                        /\ Each(RowAt, ss[g]) = GroupsMet(Contents[key])[g]
  BY <1>1, GroupMetById
<1>4. \A id \in MetIds : id[1] = key => id[2] \in 1 .. n
  BY <1>1 DEF MetIds, AllIds
<1>5. MetOfFile(key) = FlattenSeq(ss)
  BY DEF MetOfFile
<1>6. GroupsMet(Contents[key]) = [g \in 1 .. n |-> GroupsMet(Contents[key])[g]]
  BY <1>1 DEF GroupsMet
<1> HIDE DEF groups, n, ss
<1>7. ss \in Seq(Seq(AllIds))
  BY <1>1, <1>2, SeqDef
<1>8. /\ FlattenSeq(ss) \in Seq(AllIds)
      /\ \A id : id \in ToSet(FlattenSeq(ss)) <=> \E g \in DOMAIN ss : id \in ToSet(ss[g])
  BY <1>7, FlattenFacts
<1>9. IsInjective(FlattenSeq(ss))
  <2>1. \A g, h \in 1 .. n : g # h => ToSet(ss[g]) \cap ToSet(ss[h]) = {}
    BY <1>3
  <2>2. QED
    BY <1>2, <1>3, <1>7, <2>1, FlattenFacts
<1>10. \A id : id \in ToSet(FlattenSeq(ss)) <=> id \in MetIds /\ id[1] = key
  BY <1>2, <1>3, <1>4, <1>8
<1>11. Each(RowAt, FlattenSeq(ss)) = FlattenSeq([g \in DOMAIN ss |-> Each(RowAt, ss[g])])
  BY <1>7, EachFlatten
<1>12. [g \in DOMAIN ss |-> Each(RowAt, ss[g])] = GroupsMet(Contents[key])
  BY <1>2, <1>3, <1>6
<1>13. QED
  BY <1>5, <1>8, <1>9, <1>10, <1>11, <1>12 DEF FileMet

\* A table has each of its files once.
LEMMA FilesAreDistinct ==
    ASSUME table \in DOMAIN Tables, NEW d, NEW i \in DOMAIN Found(d), NEW j \in DOMAIN Found(d),
           Found(d)[i].key = Found(d)[j].key
    PROVE  i = j
<1>1. TruthfulTable(Tables[table])
  BY TablesAreTruthful
<1>2. CASE d = "Log"
  <2> DEFINE logged == ReadLog(Tables[table].log).files
  <2>1. Found(d) = logged
    BY <1>2 DEF Found
  <2>2. IsInjective([k \in DOMAIN logged |-> logged[k].key])
    BY <1>1 DEF TruthfulTable
  <2> HIDE DEF logged
  <2>3. QED
    BY <2>1, <2>2 DEF IsInjective
<1>3. CASE d # "Log"
  <2> DEFINE keys == Tables[table].listing
  <2>1. Found(d) = [k \in DOMAIN keys |-> TableFile(keys[k], Contents[keys[k]].partition, NoStats)]
    BY <1>3 DEF Found, Listed
  <2>2. IsInjective(keys)
    BY <1>1 DEF TruthfulTable
  <2> HIDE DEF keys
  <2>3. \A k \in DOMAIN keys : Found(d)[k].key = keys[k]
    BY <2>1 DEF TableFile
  <2>4. QED
    BY <2>1, <2>2, <2>3 DEF IsInjective
<1>4. QED
  BY <1>2, <1>3

\* and in the table: each of them once.
LEMMA TableMetById ==
    ASSUME table \in DOMAIN Tables, NEW d, Ready(d)
    PROVE  /\ MetOfTable(d) \in Seq(AllIds)
           /\ IsInjective(MetOfTable(d))
           /\ \A id : id \in ToSet(MetOfTable(d)) <=>
                         id \in MetIds /\ \E i \in DOMAIN Found(d) : id[1] = Found(d)[i].key
           /\ Each(RowAt, MetOfTable(d)) = TableMet(d)
<1> DEFINE n == Len(Found(d))
           key == [i \in 1 .. n |-> Found(d)[i].key]
           ss == [i \in DOMAIN Found(d) |-> MetOfFile(Found(d)[i].key)]
<1>1. n \in Nat /\ DOMAIN Found(d) = 1 .. n
  BY FoundType, LenProperties
<1>2. \A i \in 1 .. n : key[i] \in DOMAIN Contents /\ key[i] = Found(d)[i].key
  <2> TAKE i \in 1 .. n
  <2>1. Found(d)[i] \in Range(Found(d)) /\ Found(d)[i].key \in DOMAIN ObjectSize
    BY <1>1 DEF Ready, Stored, Range
  <2>2. QED
    BY <2>1, FoundType DEF KnownTruly
<1>3. \A i, j \in 1 .. n : key[i] = key[j] => i = j
  BY <1>1, <1>2, FilesAreDistinct
<1>4. ss = [i \in 1 .. n |-> MetOfFile(key[i])]
  BY <1>1
<1>5. MetOfTable(d) = FlattenSeq(ss)
  BY DEF MetOfTable
<1>6. TableMet(d) = FlattenSeq([i \in 1 .. n |-> FileMet(key[i])])
  BY <1>1 DEF TableMet
<1> HIDE DEF n, key, ss
<1>7. ss \in Seq(Seq(AllIds)) /\ DOMAIN ss = 1 .. n
  <2>1. ss \in [1 .. n -> Seq(AllIds)]
    BY <1>2, <1>4, FileMetById
  <2>2. QED
    BY <1>1, <2>1, SeqDef
<1>8. \A i \in 1 .. n : /\ IsInjective(ss[i])
                        /\ \A id : id \in ToSet(ss[i]) <=> id \in MetIds /\ id[1] = key[i]
                        /\ Each(RowAt, ss[i]) = FileMet(key[i])
  BY <1>2, <1>4, FileMetById
<1>9. /\ FlattenSeq(ss) \in Seq(AllIds)
      /\ \A id : id \in ToSet(FlattenSeq(ss)) <=> \E i \in DOMAIN ss : id \in ToSet(ss[i])
  BY <1>7, FlattenFacts
<1>10. IsInjective(FlattenSeq(ss))
  <2>1. \A i, j \in 1 .. n : i # j => ToSet(ss[i]) \cap ToSet(ss[j]) = {}
    BY <1>3, <1>8
  <2>2. QED
    BY <1>7, <1>8, <2>1, FlattenFacts
<1>11. \A id : id \in ToSet(FlattenSeq(ss)) <=> id \in MetIds /\ \E i \in 1 .. n : id[1] = key[i]
  BY <1>7, <1>8, <1>9
<1>12. Each(RowAt, FlattenSeq(ss)) = FlattenSeq([i \in DOMAIN ss |-> Each(RowAt, ss[i])])
  BY <1>7, EachFlatten
<1>13. [i \in DOMAIN ss |-> Each(RowAt, ss[i])] = [i \in 1 .. n |-> FileMet(key[i])]
  BY <1>7, <1>8
<1>14. Each(RowAt, MetOfTable(d)) = TableMet(d)
  BY <1>5, <1>6, <1>12, <1>13
<1>15. ASSUME NEW id
       PROVE  id \in ToSet(MetOfTable(d)) <=> id \in MetIds /\ \E i \in DOMAIN Found(d) : id[1] = Found(d)[i].key
  <2>1. id \in ToSet(MetOfTable(d)) <=> id \in MetIds /\ \E i \in 1 .. n : id[1] = key[i]
    BY <1>5, <1>11
  <2>2. (\E i \in 1 .. n : id[1] = key[i]) <=> \E i \in 1 .. n : id[1] = Found(d)[i].key
    BY <1>2
  <2>3. DOMAIN Found(d) = 1 .. n
    BY <1>1
  <2>4. QED
    BY <2>1, <2>2, <2>3
<1>16. MetOfTable(d) \in Seq(AllIds) /\ IsInjective(MetOfTable(d))
  BY <1>5, <1>9, <1>10
<1>17. QED
  BY <1>14, <1>15, <1>16

\* A condition on a partition column compares its value, or asks whether it is null: that it
\* is not null is beyond Op::matches.
PathsCompare == \A c \in query.conditions : c.op = "is not null" => c.column \in Range(Schema)

\* What the engine accepts is what the query language says matches.
LEMMA MetIsMatched ==
    ASSUME Valid, PathsCompare, NEW id \in AllIds
    PROVE  id \in MetIds <=> \A c \in query.conditions : RowMatches(c, RowOf(id)[c.column])
<1> DEFINE r == RowOf(id)
           partition == Contents[id[1]].partition
<1>1. RowAt[id] = r /\ r \in Row
  BY RowsType DEF RowAt
<1>2. partition \in [Range(PartitionColumns) -> Int \ {Null}]
  BY FileType DEF AllIds
<1>3. \A c \in query.conditions : c.column \in Columns
  BY DEF Valid, Named
<1>4. \A c \in Columns : c \notin Range(Schema) => c \in Range(PartitionColumns) /\ r[c] = partition[c]
  BY DEF RowOf, Columns
<1> HIDE DEF r, partition
<1>5. ASSUME NEW c \in query.conditions
      PROVE  Accepts(c, r) <=> RowMatches(c, r[c.column])
  <2>1. CASE c.column \in Range(Schema)
    BY <2>1 DEF Accepts
  <2>2. CASE c.column \notin Range(Schema)
    <3>1. r[c.column] # Null
      BY <1>2, <1>3, <1>4, <2>2
    <3>2. Accepts(c, r) <=> c.op \notin Nullness /\ OpMatches(c.op, Compare(r[c.column], c.value))
      BY <2>2, <3>1 DEF Accepts
    <3>3. c.op # "is not null"
      BY <2>2 DEF PathsCompare
    <3>4. CASE c.op = "is null"
      BY <3>1, <3>2, <3>4 DEF Nullness, RowMatches
    <3>5. CASE c.op # "is null"
      BY <3>1, <3>2, <3>3, <3>5 DEF Nullness, RowMatches
    <3>6. QED
      BY <3>4, <3>5
  <2>3. QED
    BY <2>1, <2>2
<1>6. id \in MetIds <=> \A c \in query.conditions : Accepts(c, r)
  BY <1>1 DEF MetIds, Met
<1>7. QED
  BY <1>5, <1>6 DEF r

\* The rows that match are those that are met, of the table's files.
LEMMA MatchingIsMet ==
    ASSUME table \in DOMAIN Tables, Ready(discovery), PathsCompare
    PROVE  \A id : id \in Matching <=> id \in ToSet(MetOfTable(discovery))
<1> DEFINE found == Found(discovery)
           matched == [id \in AllIds |-> \A c \in query.conditions : RowMatches(c, RowOf(id)[c.column])]
<1>1. TableFiles = {found[i] : i \in DOMAIN found}
  BY DEF TableFiles, Found, Range
<1>2. \A i \in DOMAIN found : found[i].key \in DOMAIN Contents
  <2> TAKE i \in DOMAIN found
  <2>1. found[i] \in Range(found) /\ found[i].key \in DOMAIN ObjectSize
    BY DEF Ready, Stored, Range
  <2>2. QED
    BY <2>1, FoundType DEF KnownTruly
<1>3. \A id : id \in Matching <=>
         /\ \E f \in TableFiles : \E g \in DOMAIN Contents[f.key].groups :
               \E i \in DOMAIN Contents[f.key].groups[g].rows : id = <<f.key, g, i>>
         /\ \A c \in query.conditions : RowMatches(c, RowOf(id)[c.column])
  BY DEF Matching
<1> HIDE DEF found
<1>4. ASSUME NEW id \in Matching
      PROVE  id \in AllIds /\ \E i \in DOMAIN found : id[1] = found[i].key
  <2>1. PICK f \in TableFiles : \E g \in DOMAIN Contents[f.key].groups :
               \E i \in DOMAIN Contents[f.key].groups[g].rows : id = <<f.key, g, i>>
    BY <1>3
  <2>2. PICK n \in DOMAIN found : f = found[n]
    BY <1>1
  <2>3. f.key \in DOMAIN Contents
    BY <1>2, <2>2
  <2>4. PICK g \in DOMAIN Contents[f.key].groups :
               \E i \in DOMAIN Contents[f.key].groups[g].rows : id = <<f.key, g, i>>
    BY <2>1
  <2>5. PICK i \in DOMAIN Contents[f.key].groups[g].rows : id = <<f.key, g, i>>
    BY <2>4
  <2>6. id \in AllIds
    BY <2>3, <2>5, IdType
  <2>7. id[1] = found[n].key
    BY <2>2, <2>5
  <2>8. QED
    BY <2>6, <2>7
<1>5. ASSUME NEW id \in AllIds, NEW n \in DOMAIN found, id[1] = found[n].key
      PROVE  \E f \in TableFiles : \E g \in DOMAIN Contents[f.key].groups :
                \E i \in DOMAIN Contents[f.key].groups[g].rows : id = <<f.key, g, i>>
  <2>1. found[n] \in TableFiles
    BY <1>1
  <2>2. /\ id = <<id[1], id[2], id[3]>> /\ id[2] \in DOMAIN Contents[id[1]].groups
        /\ id[3] \in DOMAIN Contents[id[1]].groups[id[2]].rows
    BY DEF AllIds
  <2>3. QED
    BY <1>5, <2>1, <2>2
<1>6. \A id \in AllIds : id \in MetIds <=> \A c \in query.conditions : RowMatches(c, RowOf(id)[c.column])
  BY MetIsMatched DEF Ready
<1>7. \A id : id \in ToSet(MetOfTable(discovery)) <=>
                 id \in MetIds /\ \E i \in DOMAIN found : id[1] = found[i].key
  BY TableMetById DEF found
<1>8. \A id \in MetIds : id \in AllIds
  BY DEF MetIds
<1>9. QED
  BY <1>3, <1>4, <1>5, <1>6, <1>7, <1>8

(***************************************************************************)
(* Groups                                                                  *)
(***************************************************************************)
\* The keys of the groups are those of the rows, each once.
LEMMA GroupKeysAre ==
    ASSUME query.group_by # << >>, NEW rs \in Seq(Row), NEW K, \A k : k \in K <=> \E i \in DOMAIN rs : k = KeyOf(rs[i])
    PROVE  /\ GroupKeys(rs) \in Seq(K) /\ IsInjective(GroupKeys(rs))
           /\ \A k : k \in Range(GroupKeys(rs)) <=> k \in K
<1> DEFINE n == Len(rs)
           V == Seq(K)
           key == [i \in 1 .. n |-> KeyOf(rs[i])]
           After(before, k) == IF k \in Range(before) THEN before ELSE Append(before, k)
           step == [p \in (1 .. n) \X V |-> After(p[2], key[p[1]])]
           Runs(keys) == keys = [m \in 0 .. n |->
               IF m = 0 THEN << >>
               ELSE LET before == keys[m - 1]
                    IN  IF KeyOf(rs[m]) \in Range(before) THEN before ELSE Append(before, KeyOf(rs[m]))]
           chosen == CHOOSE keys : Runs(keys)
<1>1. n \in Nat /\ DOMAIN rs = 1 .. n
  BY LenProperties
<1>2. \A i \in 1 .. n : key[i] \in K /\ key[i] = KeyOf(rs[i])
  BY <1>1
<1>3. GroupKeys(rs) = chosen[n]
  BY DEF GroupKeys
<1>4. \A k \in K : \E i \in 1 .. n : k = key[i]
  BY <1>1
<1> HIDE DEF key
<1>5. << >> \in V
  OBVIOUS
<1>6. ASSUME NEW before \in V, NEW k \in K
      PROVE  /\ After(before, k) \in V
             /\ IsInjective(before) => IsInjective(After(before, k))
             /\ Range(After(before, k)) = Range(before) \cup {k}
  <2>1. CASE k \in Range(before)
    BY <2>1
  <2>2. CASE k \notin Range(before)
    <3>1. Append(before, k) \in V
      BY AppendProperties
    <3>2. /\ ToSet(Append(before, k)) = ToSet(before) \cup {k}
          /\ IsInjective(before) /\ k \notin ToSet(before) => IsInjective(Append(before, k))
      BY AppendFacts
    <3>3. After(before, k) = Append(before, k)
      BY <2>2
    <3> HIDE DEF After
    <3>4. QED
      BY <2>2, <3>1, <3>2, <3>3 DEF ToSet, Range
  <2>3. QED
    BY <2>1, <2>2
<1>7. step \in [(1 .. n) \X V -> V]
  BY <1>2, <1>6
<1>8. \A m \in 1 .. n, t \in V : step[<<m, t>>] = After(t, key[m])
  OBVIOUS
<1> HIDE DEF step, n, V
<1>9. PICK f : Recurs(f, n, V, << >>, step)
  BY <1>1, <1>5, <1>7, RecursionExists
<1>10. f \in [0 .. n -> V] /\ f[0] = << >> /\ \A m \in 1 .. n : f[m] = step[<<m, f[m - 1]>>]
  BY <1>9 DEF Recurs
<1>11. \A m \in 1 .. n : m - 1 \in 0 .. n /\ f[m] = After(f[m - 1], key[m])
  <2> HIDE DEF After
  <2>1. \A m \in 1 .. n : m - 1 \in 0 .. n
    BY <1>1
  <2>2. QED
    BY <1>8, <1>10, <2>1
<1>12. Runs(f)
  <2>1. \A m \in 0 .. n : m # 0 => m \in 1 .. n
    BY <1>1
  <2>2. QED
    BY <1>2, <1>10, <1>11, <2>1
<1>13. Runs(chosen)
  BY <1>12
<1>14. /\ chosen[0] = << >>
       /\ \A m \in 1 .. n : chosen[m] = After(chosen[m - 1], key[m])
  <2> HIDE DEF chosen
  <2>1. 0 \in 0 .. n /\ \A m \in 1 .. n : m \in 0 .. n /\ m # 0
    BY <1>1
  <2>2. QED
    BY <1>2, <1>13, <2>1
<1> HIDE DEF chosen, After
<1> DEFINE Good == {m \in Nat : m <= n =>
              /\ chosen[m] \in V /\ IsInjective(chosen[m])
              /\ \A k : k \in Range(chosen[m]) <=> \E i \in 1 .. m : k = key[i]}
<1>15. 0 \in Good
  <2>1. IsInjective(<< >>) /\ Range(<< >>) = {}
    BY EmptyFacts DEF ToSet, Range
  <2>2. QED
    BY <1>5, <1>14, <2>1
<1>16. ASSUME NEW m \in Nat, m \in Good
       PROVE  m + 1 \in Good
  <2> SUFFICES ASSUME m + 1 <= n
               PROVE  /\ chosen[m + 1] \in V /\ IsInjective(chosen[m + 1])
                      /\ \A k : k \in Range(chosen[m + 1]) <=> \E i \in 1 .. m + 1 : k = key[i]
    OBVIOUS
  <2>1. m + 1 \in 1 .. n /\ (m + 1) - 1 = m /\ m <= n
    BY <1>1
  <2>2. /\ chosen[m] \in V /\ IsInjective(chosen[m])
        /\ \A k : k \in Range(chosen[m]) <=> \E i \in 1 .. m : k = key[i]
    BY <1>16, <2>1
  <2>3. chosen[m + 1] = After(chosen[m], key[m + 1]) /\ key[m + 1] \in K
    BY <1>2, <1>14, <2>1
  <2>4. /\ chosen[m + 1] \in V /\ IsInjective(chosen[m + 1])
        /\ Range(chosen[m + 1]) = Range(chosen[m]) \cup {key[m + 1]}
    BY <1>6, <2>2, <2>3
  <2>5. \A i : i \in 1 .. m + 1 <=> i \in 1 .. m \/ i = m + 1
    OBVIOUS
  <2>6. QED
    BY <2>2, <2>4, <2>5
<1> HIDE DEF Good
<1>17. n \in Good
  BY <1>1, <1>15, <1>16, NumberInduction
<1>18. /\ chosen[n] \in V /\ IsInjective(chosen[n])
       /\ \A k : k \in Range(chosen[n]) <=> \E i \in 1 .. n : k = key[i]
  BY <1>1, <1>17 DEF Good
<1>19. QED
  BY <1>2, <1>3, <1>4, <1>18 DEF V

\* The rows of a group are those of the ids with its key.
KeyAt == [id \in AllIds |-> KeyOf(RowAt[id])]
IdsOf(us, key) == Keeping(us, {id \in AllIds : KeyAt[id] = key})

\* and those ids are listed, each once, in the order of the rows.
LEMMA GroupIsListed ==
    ASSUME NEW us \in Seq(AllIds), IsInjective(us), NEW key
    PROVE  LET rs == Each(RowAt, us)
           IN  /\ Keeping(rs, {r \in Range(rs) : KeyOf(r) = key}) = Each(RowAt, IdsOf(us, key))
               /\ IdsOf(us, key) \in Seq(AllIds) /\ IsInjective(IdsOf(us, key))
               /\ \A id : id \in ToSet(IdsOf(us, key)) <=> id \in ToSet(us) /\ KeyOf(RowOf(id)) = key
<1> DEFINE rs == Each(RowAt, us)
           S == {r \in Row : KeyOf(r) = key}
           T == {id \in AllIds : KeyAt[id] = key}
           S2 == {r \in Range(rs) : KeyOf(r) = key}
<1>1. \A id \in AllIds : RowAt[id] \in Row
  BY RowsType
<1>2. rs \in Seq(Row)
  BY <1>1, EachType
<1>3. \A r \in Range(rs) : r \in Row
  <2> HIDE DEF rs
  <2>1. \A i \in DOMAIN rs : rs[i] \in Row
    BY <1>2, LenProperties, ElementOfSeq
  <2>2. QED
    BY <2>1 DEF Range
<1>4. \A id \in AllIds : id \in T <=> RowAt[id] \in S
  BY <1>1 DEF KeyAt
<1>5. \A r \in Range(rs) : r \in S2 <=> r \in S
  <2> HIDE DEF rs
  <2>1. QED
    BY <1>3
<1>6. IdsOf(us, key) = Keeping(us, T)
  BY DEF IdsOf
<1>7. \A id \in AllIds : id \in T <=> KeyOf(RowOf(id)) = key
  BY DEF KeyAt, RowAt
<1>8. \A id \in T : id \in AllIds
  OBVIOUS
<1> HIDE DEF S, T, S2
<1>9. Keeping(rs, S2) = Keeping(rs, S)
  <2> HIDE DEF rs
  <2>1. QED
    BY <1>2, <1>5, KeepingSame
<1>10. Keeping(rs, S) = Each(RowAt, Keeping(us, T))
  BY <1>4, EachKeeping
<1>11. /\ Keeping(us, T) \in Seq(AllIds) /\ IsInjective(Keeping(us, T))
       /\ ToSet(Keeping(us, T)) = ToSet(us) \cap T
  BY KeepingKeeps
<1>12. \A id \in ToSet(us) : id \in AllIds
  <2>1. \A i \in DOMAIN us : us[i] \in AllIds
    BY LenProperties, ElementOfSeq
  <2>2. QED
    BY <2>1 DEF ToSet
<1> HIDE DEF rs
<1>13. QED
  BY <1>6, <1>7, <1>9, <1>10, <1>11, <1>12 DEF S2, rs

\* What a list of ids adds up to, counts and bounds is what their set does.
LEMMA AggregateIsSummary ==
    ASSUME NEW item, ReadItem(item), item.agg \in {"count", "sum", "min", "max"},
           item.column = "*" \/ item.column \in Columns,
           NEW gids \in Seq(AllIds), IsInjective(gids),
           NEW ids, \A id : id \in ids <=> id \in ToSet(gids)
    PROVE  Aggregate(item, Each(RowAt, gids)) = Summary(item, ids)
<1> DEFINE group == Each(RowAt, gids)
           c == item.column
           some == {id \in ids : c = "*" \/ RowOf(id)[c] # Null}
           values == [i \in DOMAIN group |-> group[i][c]]
           cells == IF c = "*" THEN group ELSE Keeping(values, Range(values) \ {Null})
<1>1. /\ Len(gids) \in Nat /\ DOMAIN gids = 1 .. Len(gids)
      /\ \A i \in DOMAIN gids : gids[i] \in AllIds
  BY LenProperties, ElementOfSeq
<1>2. ids = Range(gids)
  BY DEF ToSet, Range
<1>3. \A id \in ids : id \in AllIds /\ RowAt[id] = RowOf(id) /\ RowAt[id] \in Row
  BY <1>1, <1>2, RowsType DEF Range, RowAt
<1>4. IsFiniteSet(ids) /\ Cardinality(ids) = Len(gids)
  BY <1>1, <1>2, DistinctSize
<1>5. CASE c = "*"
  <2>1. item.agg = "count"
    BY <1>5 DEF ReadItem
  <2>2. Aggregate(item, group) = Len(group)
    BY <1>5, <2>1 DEF Aggregate
  <2>3. some = ids
    BY <1>5
  <2>4. Summary(item, ids) = Cardinality(ids)
    BY <1>5, <2>1, <2>3 DEF Summary
  <2>5. group \in Seq(Row) /\ DOMAIN group = DOMAIN gids
    BY RowsType, EachType DEF Each
  <2> HIDE DEF group
  <2>6. Len(group) = Len(gids)
    BY <1>1, <2>5, LenProperties
  <2>7. QED
    BY <1>4, <2>2, <2>4, <2>6 DEF group
<1>6. CASE c # "*"
  <2> DEFINE V == [id \in AllIds |-> RowAt[id][c]]
             sids == Keeping(gids, {id \in AllIds : V[id] # Null})
             n == Len(sids)
             T == {id \in AllIds : V[id] # Null}
             kept == Range(values) \ {Null}
  <2>1. c \in Columns
    BY <1>6
  <2>2. \A id \in AllIds : V[id] \in Int
    BY <2>1, RowsType DEF Row
  <2>3. values = Each(V, gids)
    <3>1. DOMAIN group = DOMAIN gids /\ \A i \in DOMAIN gids : group[i] = RowAt[gids[i]]
      BY DEF Each
    <3>2. Each(V, gids) = [i \in DOMAIN gids |-> V[gids[i]]]
      BY DEF Each
    <3>3. \A i \in DOMAIN gids : V[gids[i]] = group[i][c]
      BY <1>1, <3>1
    <3> HIDE DEF group, V
    <3>4. QED
      BY <3>1, <3>2, <3>3
  <2>4. values \in Seq(Int)
    <3> HIDE DEF V, values
    <3>1. QED
      BY <2>2, <2>3, EachType
  <2>5. \A id \in AllIds : id \in T <=> V[id] \in Int \ {Null}
    BY <2>2
  <2>6. \A x \in Range(values) : x \in kept <=> x \in Int \ {Null}
    <3> HIDE DEF values
    <3>1. \A i \in DOMAIN values : values[i] \in Int
      BY <2>4, LenProperties, ElementOfSeq
    <3>2. QED
      BY <3>1 DEF Range
  <2>7. cells = Keeping(values, kept)
    BY <1>6
  <2>8. sids = Keeping(gids, T)
    OBVIOUS
  <2>9. \A id \in AllIds : V[id] = RowOf(id)[c]
    BY DEF RowAt
  <2>10. \A id : id \in T <=> id \in AllIds /\ V[id] # Null
    OBVIOUS
  <2>11. \A id : id \in some <=> id \in ids /\ RowOf(id)[c] # Null
    BY <1>6
  <2> HIDE DEF V, values, T, kept, sids, cells
  <2>12. cells = Each(V, sids)
    <3>1. Keeping(values, kept) = Keeping(values, Int \ {Null})
      BY <2>4, <2>6, KeepingSame
    <3>2. Keeping(Each(V, gids), Int \ {Null}) = Each(V, Keeping(gids, T))
      BY <2>5, EachKeeping
    <3>3. QED
      BY <2>3, <2>7, <2>8, <3>1, <3>2
  <2>13. /\ sids \in Seq(AllIds) /\ IsInjective(sids)
         /\ ToSet(sids) = ToSet(gids) \cap T
    BY <2>8, KeepingKeeps
  <2>14. n \in Nat /\ DOMAIN sids = 1 .. n /\ \A i \in 1 .. n : sids[i] \in AllIds
    BY <2>13, LenProperties, ElementOfSeq
  <2>15. \A id : id \in some <=> id \in Range(sids)
    <3>1. \A id : id \in some <=> id \in ToSet(gids) /\ id \in T
      BY <1>3, <2>9, <2>10, <2>11
    <3>2. Range(sids) = ToSet(sids)
      BY DEF Range, ToSet
    <3>3. QED
      BY <2>13, <3>1, <3>2
  <2> HIDE DEF some
  <2>16. some = Range(sids)
    BY <2>15
  <2>17. IsFiniteSet(some) /\ Cardinality(some) = n
    BY <2>13, <2>14, <2>16, DistinctSize
  <2>18. cells \in Seq(Int) /\ DOMAIN cells = 1 .. n /\ \A i \in 1 .. n : cells[i] = V[sids[i]]
    <3>1. cells \in Seq(Int)
      BY <2>2, <2>12, <2>13, EachType
    <3>2. QED
      BY <2>12, <2>14, <3>1 DEF Each
  <2> HIDE DEF n
  <2>19. Len(cells) = n
    BY <2>14, <2>18, LenProperties
  <2>20. cells = << >> <=> some = {}
    <3>1. cells = << >> <=> n = 0
      BY <2>18, <2>19, EmptySeq
    <3>2. some = {} <=> n = 0
      BY SMTT(30), <2>17, FS_EmptySet
    <3>3. QED
      BY <3>1, <3>2
  <2>21. /\ item.agg = "count" => Aggregate(item, group) = Len(cells)
         /\ item.agg # "count" /\ cells = << >> => Aggregate(item, group) = Null
         /\ item.agg = "sum" /\ cells # << >> => Aggregate(item, group) = SumFunction(cells)
         /\ item.agg = "min" /\ cells # << >> => Aggregate(item, group) = Min(Range(cells))
         /\ item.agg = "max" /\ cells # << >> => Aggregate(item, group) = Max(Range(cells))
    BY DEF Aggregate, cells, values
  <2> DEFINE of == [id \in some |-> RowOf(id)[c]]
             all == {RowOf(id)[c] : id \in some}
  <2>22. /\ item.agg = "count" => Summary(item, ids) = Cardinality(some)
         /\ item.agg # "count" /\ some = {} => Summary(item, ids) = Null
         /\ item.agg = "sum" /\ some # {} => Summary(item, ids) = SumFunction(of)
         /\ item.agg = "min" /\ some # {} => Summary(item, ids) = Min(all)
         /\ item.agg = "max" /\ some # {} => Summary(item, ids) = Max(all)
    BY DEF Summary, some
  <2>23. all = Range(cells)
    <3>1. \A x : x \in all <=> \E id \in some : x = RowOf(id)[c]
      OBVIOUS
    <3>2. \A x : x \in Range(cells) <=> \E i \in 1 .. n : x = cells[i]
      BY <2>18 DEF Range
    <3>3. \A id : id \in some <=> \E i \in 1 .. n : id = sids[i]
      BY <2>14, <2>16 DEF Range
    <3>4. \A i \in 1 .. n : cells[i] = RowOf(sids[i])[c]
      BY <2>9, <2>14, <2>18
    <3> HIDE DEF all
    <3>5. ASSUME NEW x \in all PROVE x \in Range(cells)
      <4>1. PICK id \in some : x = RowOf(id)[c]
        BY <3>1
      <4>2. PICK i \in 1 .. n : id = sids[i]
        BY <3>3
      <4>3. QED
        BY <3>2, <3>4, <4>1, <4>2
    <3>6. ASSUME NEW x \in Range(cells) PROVE x \in all
      <4>1. PICK i \in 1 .. n : x = cells[i]
        BY <3>2
      <4>2. QED
        BY <3>1, <3>3, <3>4, <4>1
    <3>7. QED
      BY <3>5, <3>6
  <2>24. SumFunction(of) = SumFunction(cells)
    <3>1. SumFunction(of) = SumFunctionOnSet(of, some) /\ SumFunction(cells) = SumFunctionOnSet(cells, 1 .. n)
      BY <2>18 DEF SumFunction
    <3>2. \A id \in some : of[id] = RowOf(id)[c]
      OBVIOUS
    <3> HIDE DEF of
    <3>3. \A i \in 1 .. n : sids[i] \in some
      BY <2>14, <2>16 DEF Range
    <3>4. \A i \in 1 .. n : cells[i] \in Int /\ cells[i] = of[sids[i]]
      BY <2>2, <2>9, <2>14, <2>18, <3>2, <3>3
    <3>5. \A id : id \in some <=> \E i \in 1 .. n : id = sids[i]
      BY <2>14, <2>16 DEF Range
    <3>6. IsFiniteSet(1 .. n)
      BY <2>14, FS_Interval DEF n
    <3>7. \A i, j \in 1 .. n : sids[i] = sids[j] => i = j
      BY <2>13, <2>14 DEF IsInjective
    <3>8. SumFunctionOnSet(cells, 1 .. n) = SumFunctionOnSet(of, some)
      <4> DEFINE S == 1 .. n
      <4>1. IsFiniteSet(S) /\ \A i, j \in S : sids[i] = sids[j] => i = j
        BY <3>6, <3>7
      <4>2. \A i \in S : cells[i] \in Int /\ cells[i] = of[sids[i]]
        BY <3>4
      <4>3. \A id : id \in some <=> \E i \in S : id = sids[i]
        BY <3>5
      <4> HIDE DEF S
      <4>4. SumFunctionOnSet(cells, S) = SumFunctionOnSet(of, some)
        BY <4>1, <4>2, <4>3, SumRenamed
      <4>5. QED
        BY <4>4 DEF S
    <3>9. QED
      BY <3>1, <3>8
  <2> HIDE DEF of, all, group
  <2>25. CASE item.agg = "count"
    BY <2>17, <2>19, <2>21, <2>22, <2>25 DEF group
  <2>26. CASE item.agg # "count" /\ some = {}
    BY <2>20, <2>21, <2>22, <2>26 DEF group
  <2>27. CASE item.agg # "count" /\ some # {}
    BY <2>20, <2>21, <2>22, <2>23, <2>24, <2>27 DEF group
  <2>28. QED
    BY <2>25, <2>26, <2>27
<1>7. QED
  BY <1>5, <1>6

(***************************************************************************)
(* The answer is the one the query language says                           *)
(***************************************************************************)
\* The names of the result are a sequence, of columns the table has but where they are of an
\* aggregate.
LEMMA ResultNamesType ==
    ASSUME ReadQuery(query), Valid
    PROVE  /\ ResultNames \in Seq(Range(ResultNames))
           /\ \A i \in DOMAIN ResultNames : ResultNames[i].agg = "column" => ResultNames[i].column \in Columns
<1> DEFINE ns == Schema \o PartitionColumns
           A == Range(query.items) \cup {Column(c) : c \in Columns}
           n == Len(query.items)
           of(i) == IF query.items[i].agg # "star" THEN << query.items[i] >>
                    ELSE [j \in DOMAIN ns |-> Column(ns[j])]
           ss == [i \in DOMAIN query.items |-> of(i)]
<1>1. n \in Nat /\ DOMAIN query.items = 1 .. n
  BY LenProperties DEF ReadQuery
<1>2. ASSUME NEW i \in DOMAIN query.items
      PROVE  of(i) \in Seq(A)
  <2>1. CASE query.items[i].agg = "star"
    <3> DEFINE m == Len(ns)
               s == [j \in DOMAIN ns |-> Column(ns[j])]
    <3>1. m \in Nat /\ DOMAIN ns = 1 .. m /\ \A j \in 1 .. m : ns[j] \in Columns
      BY ColumnsInOrder, LenProperties, ElementOfSeq
    <3>2. s \in [1 .. m -> A]
      BY <3>1
    <3>3. of(i) = s
      BY <2>1
    <3> HIDE DEF s, m, of, A
    <3>4. s \in Seq(A)
      BY <3>1, <3>2, SeqDef
    <3>5. QED
      BY <3>3, <3>4
  <2>2. CASE query.items[i].agg # "star"
    <3>1. query.items[i] \in A
      BY DEF Range
    <3> HIDE DEF A
    <3>2. QED
      BY <2>2, <3>1
  <2>3. QED
    BY <2>1, <2>2
<1>3. \A name \in A : name.agg = "column" => name.column \in Columns
  <2>1. ASSUME NEW name \in Range(query.items), name.agg = "column"
        PROVE  name.column \in Columns
    <3>1. PICK i \in DOMAIN query.items : name = query.items[i]
      BY DEF Range
    <3>2. name.column # "*"
      BY <2>1, <3>1 DEF ReadQuery, ReadItem
    <3>3. QED
      BY <3>1, <3>2 DEF Valid, Named, ItemColumns
  <2>2. \A c \in Columns : Column(c).column = c
    BY DEF Column
  <2>3. QED
    BY <2>1, <2>2
<1>4. ResultNames = FlattenSeq(ss)
  BY DEF ResultNames
<1> HIDE DEF A, of
<1>5. ss \in [1 .. n -> Seq(A)]
  BY <1>1, <1>2
<1> HIDE DEF n, ss
<1>6. ss \in Seq(Seq(A))
  BY <1>1, <1>5, SeqDef
<1>7. ResultNames \in Seq(A)
  BY <1>4, <1>6, FlattenFacts
<1>8. ResultNames \in Seq(Range(ResultNames)) /\ \A i \in DOMAIN ResultNames : ResultNames[i] \in A
  BY <1>7, OwnRange
<1>9. QED
  BY <1>3, <1>8

\* Without `*` they are the query's items.
LEMMA NamesAreItems ==
    ASSUME ReadQuery(query), ~HasStar
    PROVE  ResultNames = query.items
<1>1. query.items \in Seq(Range(query.items))
  BY DEF ReadQuery
<1>2. FlattenSeq([i \in DOMAIN query.items |-> << query.items[i] >>]) = query.items
  BY <1>1, FlattenOnes
<1>3. ResultNames = FlattenSeq([i \in DOMAIN query.items |-> << query.items[i] >>])
  BY DEF ResultNames, HasStar
<1>4. QED
  BY <1>2, <1>3

\* A key of ORDER BY is found among them: it is a column of the result.
LEMMA KeyIsPlaced ==
    ASSUME ReadQuery(query), Valid, NEW k \in DOMAIN query.order_by
    PROVE  /\ PlaceOf(k) \in DOMAIN ResultNames
           /\ ResultNames[PlaceOf(k)].agg = "column" /\ ResultNames[PlaceOf(k)].column \in Columns
<1> DEFINE name == query.order_by[k].name
           n == Len(ResultNames)
           I == {i \in 1 .. n : ResultNames[i] = name}
<1>1. n \in Nat /\ DOMAIN ResultNames = 1 .. n
  BY ResultNamesType, LenProperties
<1>2. I # {}
  <2>1. name \in Range(ResultNames)
    BY DEF Valid
  <2>2. PICK i \in DOMAIN ResultNames : name = ResultNames[i]
    BY <2>1 DEF Range
  <2>3. QED
    BY <1>1, <2>2
<1>3. PlaceOf(k) = Min(I)
  BY <1>2 DEF PlaceOf, SelectInSeq
<1>4. I \subseteq Nat
  BY <1>1
<1>5. \A i \in I : i \in DOMAIN ResultNames /\ ResultNames[i] = name
  BY <1>1
<1>6. name.agg = "column"
  BY DEF ReadQuery
<1> HIDE DEF I, name
<1>7. Min(I) \in I
  BY <1>2, <1>4, MinOfNaturals
<1>8. QED
  BY <1>3, <1>5, <1>6, <1>7, ResultNamesType

\* The rows that match are a set of rows.
LEMMA MatchingType ==
    ASSUME table \in DOMAIN Tables, Ready(discovery), PathsCompare
    PROVE  \A id \in Matching : id \in AllIds /\ RowOf(id) \in Row /\ RowOf(id) = RowAt[id]
<1>1. \A id \in ToSet(MetOfTable(discovery)) : id \in AllIds
  BY TableMetById DEF MetIds
<1>2. QED
  BY <1>1, MatchingIsMet, RowsType DEF RowAt

\* The rows of the result, each as the rows met are shaped: without groups,
LEMMA ProjectionLists ==
    ASSUME table \in DOMAIN Tables, Ready(discovery), PathsCompare, ~Aggregating
    PROVE  Lists(Shaped(TableMet(discovery)), Results)
<1> DEFINE us == MetOfTable(discovery)
           rs == TableMet(discovery)
<1>1. us \in Seq(AllIds) /\ IsInjective(us) /\ rs = Each(RowAt, us)
  BY TableMetById
<1>2. Results = [id \in Matching |-> [j \in DOMAIN ResultNames |-> RowOf(id)[ResultNames[j].column]]]
  BY DEF Results
<1>3. Shaped(rs) = [i \in DOMAIN rs |-> [j \in DOMAIN ResultNames |-> rs[i][ResultNames[j].column]]]
  BY DEF Shaped, Projected
<1>4. \A id : id \in Matching <=> id \in ToSet(us)
  BY MatchingIsMet
<1> HIDE DEF us, rs
<1>5. DOMAIN Results = Matching /\ Range(us) = Matching
  BY <1>2, <1>4 DEF Range, ToSet
<1>6. DOMAIN rs = DOMAIN us /\ \A i \in DOMAIN us : rs[i] = RowAt[us[i]]
  BY <1>1 DEF Each
<1>7. us \in Seq(DOMAIN Results)
  BY <1>1, <1>5, OwnRange
<1>8. \A i \in DOMAIN us : us[i] \in Matching
  BY <1>5 DEF Range
<1>9. \A i \in DOMAIN us : rs[i] = RowOf(us[i])
  BY <1>6, <1>8, MatchingType
<1>10. \A i \in DOMAIN us :
          Results[us[i]] = [j \in DOMAIN ResultNames |-> rs[i][ResultNames[j].column]]
  BY <1>2, <1>8, <1>9
<1>11. Shaped(rs) = Each(Results, us)
  BY <1>3, <1>6, <1>10 DEF Each
<1>12. QED
  BY <1>1, <1>5, <1>7, <1>11 DEF Lists, rs

\* Every aggregate is modelled but avg, a quotient.
NoAverages == \A i \in DOMAIN query.items : query.items[i].agg # "avg"

\* Where nothing is grouped by, every row is of the one group.
LEMMA OneKey ==
    ASSUME query.group_by = << >>, NEW r
    PROVE  KeyOf(r) = << >>
BY DEF KeyOf

\* A row of the result is what the rows of its group come to,
LEMMA GroupRowIsDue ==
    ASSUME ReadQuery(query), Valid, NoAverages, Aggregating,
           NEW us \in Seq(AllIds), IsInjective(us), \A id : id \in Matching <=> id \in ToSet(us),
           NEW key \in DOMAIN Results
    PROVE  GroupRow(Each(RowAt, us), key) = Results[key]
<1> DEFINE rs == Each(RowAt, us)
           gids == IdsOf(us, key)
           group == Keeping(rs, {r \in Range(rs) : KeyOf(r) = key})
           ids == {id \in Matching : KeyOf(RowOf(id)) = key}
           items == query.items
<1>1. ~HasStar /\ \A i \in DOMAIN items :
         items[i].agg = "column" => items[i].column \in Range(query.group_by)
  BY DEF Valid
<1>2. ResultNames = items
  BY <1>1, NamesAreItems
<1>3. Results[key] = [j \in DOMAIN items |->
         IF items[j].agg # "column" THEN Summary(items[j], ids)
         ELSE RowOf(CHOOSE id \in ids : TRUE)[items[j].column]]
  BY <1>2 DEF Results
<1>4. GroupRow(rs, key) = [j \in DOMAIN items |->
         IF items[j].agg = "column" THEN group[1][items[j].column] ELSE Aggregate(items[j], group)]
  BY DEF GroupRow
<1>5. /\ group = Each(RowAt, gids) /\ gids \in Seq(AllIds) /\ IsInjective(gids)
      /\ \A id : id \in ToSet(gids) <=> id \in ToSet(us) /\ KeyOf(RowOf(id)) = key
  BY GroupIsListed
<1>6. \A id : id \in ids <=> id \in ToSet(gids)
  BY <1>5
<1>7. \A id \in ids : KeyOf(RowOf(id)) = key
  OBVIOUS
<1>8. query.group_by # << >> => \E id \in ids : TRUE
  BY DEF Results
<1> HIDE DEF rs, gids, group, ids
<1>9. ASSUME NEW i \in DOMAIN items, items[i].agg = "column"
      PROVE  group[1][items[i].column] = RowOf(CHOOSE id \in ids : TRUE)[items[i].column]
  <2> DEFINE c == items[i].column
             one == CHOOSE id \in ids : TRUE
  <2>1. PICK p \in DOMAIN query.group_by : c = query.group_by[p]
    BY <1>1, <1>9 DEF Range
  <2>2. query.group_by # << >>
    BY <2>1
  <2>3. one \in ids
    BY <1>8, <2>2
  <2>4. Len(gids) \in Nat /\ DOMAIN gids = 1 .. Len(gids) /\ \A j \in DOMAIN gids : gids[j] \in AllIds
    BY <1>5, LenProperties, ElementOfSeq
  <2>5. 1 \in DOMAIN gids
    <3>1. \E j : j \in DOMAIN gids
      BY <1>6, <2>3 DEF ToSet
    <3>2. QED
      BY <2>4, <3>1
  <2>6. gids[1] \in ids
    BY <1>6, <2>5 DEF ToSet
  <2>7. group[1] = RowOf(gids[1])
    BY <1>5, <2>4, <2>5 DEF Each, RowAt
  <2>8. \A id \in ids : RowOf(id)[c] = key[p]
    <3> TAKE id \in ids
    <3>1. KeyOf(RowOf(id)) = [q \in DOMAIN query.group_by |-> RowOf(id)[query.group_by[q]]]
      BY DEF KeyOf
    <3>2. KeyOf(RowOf(id))[p] = RowOf(id)[query.group_by[p]]
      BY <3>1
    <3>3. QED
      BY <1>7, <2>1, <3>2
  <2> HIDE DEF one, c
  <2>9. group[1][c] = RowOf(one)[c]
    BY <2>3, <2>6, <2>7, <2>8
  <2>10. QED
    BY <2>9 DEF one, c
<1>10. ASSUME NEW i \in DOMAIN items, items[i].agg # "column"
       PROVE  Aggregate(items[i], group) = Summary(items[i], ids)
  <2>1. ReadItem(items[i]) /\ items[i].agg # "star" /\ items[i].agg # "avg"
    BY <1>1 DEF ReadQuery, HasStar, NoAverages
  <2>2. items[i].agg \in {"count", "sum", "min", "max"}
    BY <1>10, <2>1 DEF ReadItem, Aggregates
  <2>3. items[i].column = "*" \/ items[i].column \in Columns
    BY DEF Valid, Named, ItemColumns
  <2>4. PICK item : item = items[i]
    OBVIOUS
  <2>5. Aggregate(item, Each(RowAt, gids)) = Summary(item, ids)
    BY <1>5, <1>6, <2>1, <2>2, <2>3, <2>4, AggregateIsSummary
  <2>6. QED
    BY <1>5, <2>4, <2>5
<1> HIDE DEF items
<1>11. GroupRow(rs, key) = Results[key]
  <2> DEFINE a(j) == IF items[j].agg = "column" THEN group[1][items[j].column] ELSE Aggregate(items[j], group)
             b(j) == IF items[j].agg # "column" THEN Summary(items[j], ids)
                     ELSE RowOf(CHOOSE id \in ids : TRUE)[items[j].column]
  <2>1. \A j \in DOMAIN items : a(j) = b(j)
    BY <1>9, <1>10
  <2>2. GroupRow(rs, key) = [j \in DOMAIN items |-> a(j)] /\ Results[key] = [j \in DOMAIN items |-> b(j)]
    BY <1>3, <1>4
  <2> HIDE DEF a, b
  <2>3. QED
    BY <2>1, <2>2
<1>12. QED
  BY <1>11 DEF rs

\* and the groups are those of the result, each once.
LEMMA GroupingLists ==
    ASSUME table \in DOMAIN Tables, ReadQuery(query), Ready(discovery), PathsCompare, NoAverages, Aggregating
    PROVE  Lists(Shaped(TableMet(discovery)), Results)
<1> DEFINE us == MetOfTable(discovery)
           rs == TableMet(discovery)
           keys == GroupKeys(rs)
           D == DOMAIN Results
<1>1. us \in Seq(AllIds) /\ IsInjective(us) /\ rs = Each(RowAt, us)
  BY TableMetById
<1>2. \A id : id \in Matching <=> id \in ToSet(us)
  BY MatchingIsMet
<1>3. \A k : k \in D <=> \/ \E id \in Matching : k = KeyOf(RowOf(id))
                         \/ query.group_by = << >> /\ k = << >>
  BY DEF Results
<1>4. Valid
  BY DEF Ready
<1> HIDE DEF us, rs, keys, D
<1>5. rs \in Seq(Row) /\ DOMAIN rs = DOMAIN us /\ \A i \in DOMAIN us : rs[i] = RowOf(us[i])
  <2>1. \A i \in DOMAIN us : us[i] \in AllIds
    BY <1>1, LenProperties, ElementOfSeq
  <2>2. rs \in Seq(Row)
    BY <1>1, RowsType, EachType
  <2>3. QED
    BY <1>1, <2>1, <2>2 DEF Each, RowAt
<1>6. keys \in Seq(D) /\ IsInjective(keys) /\ Range(keys) = D
  <2>1. CASE query.group_by = << >>
    <3>1. keys = << << >> >>
      BY <2>1 DEF keys, GroupKeys
    <3>2. \A k : k \in D <=> k = << >>
      BY <1>3, <2>1, OneKey
    <3>3. IsInjective(<< << >> >>) /\ Range(<< << >> >>) = {<< >>}
      BY DEF IsInjective, Range
    <3>4. << << >> >> \in Seq(D)
      BY <3>2
    <3>5. QED
      BY <3>1, <3>2, <3>3, <3>4
  <2>2. CASE query.group_by # << >>
    <3>1. \A k : k \in D <=> \E i \in DOMAIN rs : k = KeyOf(rs[i])
      <4>1. \A id : id \in Matching <=> \E i \in DOMAIN us : id = us[i]
        BY <1>2 DEF ToSet
      <4>2. QED
        BY <1>3, <1>5, <2>2, <4>1
    <3>2. /\ keys \in Seq(D) /\ IsInjective(keys)
          /\ \A k : k \in Range(keys) <=> k \in D
      BY <1>5, <2>2, <3>1, GroupKeysAre DEF keys
    <3>3. QED
      BY <3>2
  <2>3. QED
    BY <2>1, <2>2
<1>7. \A k \in DOMAIN keys : keys[k] \in D
  BY <1>6 DEF Range
<1>8. \A key \in D : GroupRow(rs, key) = Results[key]
  BY <1>1, <1>2, <1>4, GroupRowIsDue DEF D
<1>9. Shaped(rs) = [k \in DOMAIN keys |-> GroupRow(rs, keys[k])]
  BY DEF Shaped, Grouped, keys
<1>10. Shaped(rs) = Each(Results, keys)
  BY <1>7, <1>8, <1>9 DEF Each
<1>11. QED
  BY <1>6, <1>10 DEF Lists, D, rs

\* What ORDER BY sorts by is a number, in every row of the result.
LEMMA ResultsAreSortable ==
    ASSUME table \in DOMAIN Tables, ReadQuery(query), Ready(discovery), PathsCompare, NEW u \in DOMAIN Results
    PROVE  Sortable(Results[u])
<1> SUFFICES ASSUME NEW k \in DOMAIN query.order_by
             PROVE  Results[u][PlaceOf(k)] \in Int
  BY DEF Sortable
<1> DEFINE p == PlaceOf(k)
           c == ResultNames[p].column
<1>1. Valid
  BY DEF Ready
<1>2. p \in DOMAIN ResultNames /\ ResultNames[p].agg = "column" /\ c \in Columns
  BY <1>1, KeyIsPlaced
<1>3. \A id \in Matching : RowOf(id) \in Row
  BY MatchingType
<1> HIDE DEF p
<1>4. \A id \in Matching : RowOf(id)[c] \in Int
  BY <1>2, <1>3 DEF Row
<1>5. CASE ~Aggregating
  <2>1. u \in Matching /\ Results[u][p] = RowOf(u)[c]
    BY <1>2, <1>5 DEF Results
  <2>2. QED
    BY <1>4, <2>1 DEF p
<1>6. CASE Aggregating
  <2> DEFINE ids == {id \in Matching : KeyOf(RowOf(id)) = u}
             one == CHOOSE id \in ids : TRUE
  <2>1. Results[u][p] = RowOf(one)[c]
    BY <1>2, <1>6 DEF Results
  <2>2. query.group_by # << >>
    <3>1. ~HasStar
      BY <1>1, <1>6 DEF Valid
    <3>2. ResultNames = query.items
      BY <3>1, NamesAreItems
    <3>3. c \in Range(query.group_by)
      BY <1>1, <1>2, <1>6, <3>2 DEF Valid
    <3>4. QED
      BY <3>3 DEF Range
  <2>3. \E id \in Matching : u = KeyOf(RowOf(id))
    BY <1>6, <2>2 DEF Results
  <2>4. one \in ids
    BY <2>3
  <2> HIDE DEF one
  <2>5. one \in Matching
    BY <2>4
  <2>6. QED
    BY <1>4, <2>1, <2>5 DEF p
<1>7. QED
  BY <1>5, <1>6

\* The text of a query was read as what it asks.
ReadAsMeant ==
    IF asked.asks = << >> THEN ~Parse(asked.sql).ok
    ELSE Parse(asked.sql).ok /\ Parse(asked.sql).v = asked.asks[1]

\* The queries whose answer is the language's: a column is named or known, `is not null` is not
\* asked of a path, and no average is.
Answerable == KeysAreKnown(discovery) /\ PathsCompare /\ NoAverages

\* The answer owed is the answer asked for, by the invariant.
LEMMA ExactFromInvariant ==
    ASSUME QueryIInv, ReadAsMeant, asked.asks # << >> => Answerable
    PROVE  AnswerIsExact
<1> SUFFICES ASSUME pc = "done"
             PROVE  IF asked.asks = << >> THEN ~answers[discovery].ok
                    ELSE /\ query = asked.asks[1]
                         /\ Valid /\ Complete =>
                              answers[discovery].ok /\ Exactly(answers[discovery].rows, Results)
  BY DEF AnswerIsExact
<1>1. discovery \in DOMAIN answers /\ table \in DOMAIN Tables /\ discovery \in Ways
  BY DEF QueryIInv, InPlace, CallsInOrder
<1>2. IF Parse(asked.sql).ok THEN Ready(discovery) => answers[discovery] = OwedAnswer(discovery)
      ELSE ~answers[discovery].ok
  BY <1>1 DEF QueryIInv, AnswersAreOwed
<1>3. CASE asked.asks = << >>
  BY <1>2, <1>3 DEF ReadAsMeant
<1>4. CASE asked.asks # << >>
  <2>1. Parse(asked.sql).ok /\ Parse(asked.sql).v = asked.asks[1]
    BY <1>4 DEF ReadAsMeant
  <2>2. IsRead
    BY <1>1, <2>1 DEF QueryIInv, QueryIsRead
  <2>3. query = asked.asks[1] /\ ReadQuery(query)
    BY <2>1, <2>2, QueryType DEF IsRead
  <2>4. ASSUME Valid, Complete
        PROVE  answers[discovery].ok /\ Exactly(answers[discovery].rows, Results)
    <3>1. Ready(discovery)
      <4>1. TableFiles = Range(Found(discovery))
        BY DEF TableFiles, Found
      <4>2. \A i \in DOMAIN Found(discovery) : Found(discovery)[i].key \in DOMAIN ObjectSize
        BY <2>4, <4>1 DEF Complete, Range
      <4>3. QED
        BY <1>4, <2>4, <4>2 DEF Ready, Stored, Complete, Answerable
    <3>2. answers[discovery] = OwedAnswer(discovery)
      BY <1>2, <2>1, <3>1
    <3>3. answers[discovery].ok = TRUE /\ answers[discovery].rows = Owed(discovery)
      BY <3>2 DEF OwedAnswer
    <3>4. Lists(Shaped(TableMet(discovery)), Results)
      BY <1>1, <1>4, <2>3, <3>1, ProjectionLists, GroupingLists DEF Answerable
    <3>5. \A u \in DOMAIN Results : Sortable(Results[u])
      BY <1>1, <1>4, <2>3, <3>1, ResultsAreSortable DEF Answerable
    <3>6. Exactly(Owed(discovery), Results)
      BY <2>3, <3>4, <3>5, ListedExactly DEF Owed
    <3>7. QED
      BY <3>3, <3>6
  <2>5. QED
    BY <1>4, <2>3, <2>4
<1>5. QED
  BY <1>3, <1>4

\* Whatever the files hold and however they are found: a valid query over a table whose objects
\* are all there gets exactly the rows, or groups, it asks for, sorted and cut to its limit, and
\* what is no query is refused (table.rs, query; engine.rs, run_sources and finish).  Of its text
\* it takes that parsing it gives what was meant.
THEOREM AnswersAreExact ==
    Spec => [](ReadAsMeant /\ (asked.asks # << >> => Answerable) => AnswerIsExact)
<1>1. QueryIInv => (ReadAsMeant /\ (asked.asks # << >> => Answerable) => AnswerIsExact)
  BY ExactFromInvariant
<1>2. QED
  BY <1>1, QueryInvariant, PTL
=============================================================================
