------------------------------ MODULE Filtering ------------------------------
(***************************************************************************)
(* Iterator::filter, as the crates use it: on a plan's groups, a file's    *)
(* rows, a table's files and the rows a query accepts.  (SelectSeq takes   *)
(* an operator, which a lemma cannot be stated of.)                        *)
(***************************************************************************)
EXTENDS Integers, Sequences

\* The elements of a sequence that are in S, in its order.
Keeping(seq, S) ==
    LET kept[i \in 0 .. Len(seq)] ==
            IF i = 0 THEN <<>>
            ELSE IF seq[i] \in S THEN Append(kept[i - 1], seq[i]) ELSE kept[i - 1]
    IN  kept[Len(seq)]
=============================================================================
