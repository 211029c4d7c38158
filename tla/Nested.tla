------------------------------- MODULE Nested -------------------------------
(***************************************************************************)
(* crates/parquet-lab/src/nested.rs, with max_levels of schema.rs: the     *)
(* levels of the fields on a leaf's path, and records rebuilt from a       *)
(* column's triples.  A path is a sequence of [name, repetition, is_list]. *)
(* A record's value is a tagged union: null, a value, an array or a struct *)
(* of one field.  Names for display (labels, explanations) are left out.   *)
(***************************************************************************)
EXTENDS Integers, Sequences, FiniteSets

Null == [is |-> "null"]
Value(v) == [is |-> "value", value |-> v]
Arr(items) == [is |-> "array", items |-> items]
Obj(name, value) == [is |-> "object", name |-> name, value |-> value]

\* How many of a path's first i fields are of one of these repetitions.
CountTo(path, i, repetitions) == Cardinality({j \in 1 .. i : path[j].repetition \in repetitions})

\* path_fields: each field with the definition level a value has when the field is present,
\* and the repetition level of the nearest repeated field.
PathFields(path) ==
    [i \in DOMAIN path |->
        [name |-> path[i].name, repetition |-> path[i].repetition, is_list |-> path[i].is_list,
         def  |-> CountTo(path, i, {"optional", "repeated"}),
         rep  |-> CountTo(path, i, {"repeated"})]]

\* max_levels.
MaxDef(path) == CountTo(path, Len(path), {"optional", "repeated"})
MaxRep(path) == CountTo(path, Len(path), {"repeated"})

\* Faulty variant: a deeper list's new elements start elements of this one too.
StartsAnyElement(f, triple) == triple.rep > 0

\* A repeated field's triples split into elements where r is at most its level.
StartsElement(f, triple) == triple.rep <= f.rep

\* The pieces of `triples`, in order, cut before its first and before those that start anew.
Pieces(triples, starts) ==
    LET cuts     == (DOMAIN triples \cap {1}) \cup starts
        nth(n)   == CHOOSE j \in cuts : Cardinality({k \in cuts : k < j}) = n - 1
        end(n)   == IF n = Cardinality(cuts) THEN Len(triples) ELSE nth(n + 1) - 1
    IN  [n \in 1 .. Cardinality(cuts) |-> SubSeq(triples, nth(n), end(n))]

\* field_value and element_value: the value of field i, and of one present instance of it,
\* from the triples of one instance of its parent.
RECURSIVE FieldValue(_, _, _), ElementValue(_, _, _)
FieldValue(fields, i, triples) ==
    LET f == fields[i]
        elements == Pieces(triples, {j \in DOMAIN triples : StartsElement(f, triples[j])})
    IN  IF triples[1].def < f.def
        THEN IF f.repetition = "repeated" THEN Arr(<<>>) ELSE Null
        ELSE IF f.repetition = "repeated"
        THEN Arr([n \in DOMAIN elements |-> ElementValue(fields, i, elements[n])])
        ELSE IF f.is_list /\ i < Len(fields) THEN FieldValue(fields, i + 1, triples)
        ELSE ElementValue(fields, i, triples)

ElementValue(fields, i, triples) ==
    IF i = Len(fields) THEN triples[1].value
    ELSE IF i > 1 /\ fields[i - 1].is_list /\ fields[i].repetition = "repeated"
    THEN FieldValue(fields, i + 1, triples)
    ELSE Obj(fields[i + 1].name, FieldValue(fields, i + 1, triples))

\* assemble: one record for each piece of the column between two zeros.
Assemble(fields, triples) ==
    LET rows == Pieces(triples, {j \in DOMAIN triples : triples[j].rep = 0})
    IN  [n \in DOMAIN rows |-> Obj(fields[1].name, FieldValue(fields, 1, rows[n]))]
=============================================================================
