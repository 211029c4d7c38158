--------------------------- MODULE MCTracingStore ---------------------------
(***************************************************************************)
(* One object and a key that names none.  AllRanges reaches every case of  *)
(* a GET: inside the object, cut at its end, past its end, empty, a suffix *)
(* shorter and longer than the object, and the whole object.  FewRanges    *)
(* keeps what differs in cost and status, for the run with more requests.  *)
(***************************************************************************)
EXTENDS TracingStore

MCKeys == {"data", "absent"}
MCObjectSize == [k \in {"data"} |-> 5]
AllRanges == {Bounded(SpanOf(1, 4)), Bounded(SpanOf(2, 9)), Bounded(SpanOf(5, 6)),
              Bounded(SpanOf(2, 2)), Suffix(1), Suffix(8), All}
FewRanges == {Bounded(SpanOf(2, 9)), Suffix(1), Suffix(8)}
=============================================================================
