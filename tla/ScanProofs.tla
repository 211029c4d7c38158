----------------------------- MODULE ScanProofs -----------------------------
(***************************************************************************)
(* For any files whose metadata tells the truth, and any strategies,       *)
(* queries and network: the rows a scan returns, and their values, are     *)
(* those of a full read, it never lacks a byte it plans or decodes from,   *)
(* and it fetches none twice.  What Prune may skip is not in               *)
(* the answer, what the answer needs is decoded from whichever pages, and  *)
(* each fetch brings what it is for.                                       *)
(*                                                                         *)
(* As for Prune alone, a strategy that uses Bloom filters needs a column   *)
(* whose places are each of one value.                                     *)
(***************************************************************************)
EXTENDS Scan, ReadPathProofs

(***************************************************************************)
(* From the ranges a scan wants to its requests: what is missing, what is  *)
(* merged, and in which order it is asked for.  For any ranges of a file,  *)
(* any bytes held and any gap, the requests of a fetch bring every byte    *)
(* wanted that is not held, and no byte held, and none of them twice.      *)
(***************************************************************************)

LEMMA SpansAreTheirEnds ==
    ASSUME NEW s \in Span
    PROVE  s.start \in Nat /\ s.end \in Nat /\ s.start <= s.end /\ s = SpanOf(s.start, s.end)
BY DEF Span, SpanOf

LEMMA OffsetsOfSpans ==
    ASSUME NEW s \in Span, NEW x
    PROVE  x \in Offsets(s) <=> x \in Nat /\ s.start <= x /\ x < s.end
<1>1. s.start \in Nat /\ s.end \in Nat
  BY SpansAreTheirEnds
<1>2. Offsets(s) = s.start .. s.end - 1
  BY DEF Offsets
<1>3. QED
  BY <1>1, <1>2

(***************************************************************************)
(* What is missing                                                         *)
(***************************************************************************)

\* A missing part is a run of offsets not held, as long as it can be.
LEMMA MissingRuns ==
    ASSUME NEW held, NEW s \in Span, NEW m \in Missing(held, s)
    PROVE  /\ m \in Span /\ m.start < m.end
           /\ s.start <= m.start /\ m.end <= s.end
           /\ Offsets(m) \subseteq Offsets(s) \ held
           /\ m.start - 1 \notin Offsets(s) \ held
           /\ m.end \notin Offsets(s) \ held
<1> DEFINE free == Offsets(s) \ held
           starts == {o \in free : o - 1 \notin free}
           ends(o) == {e \in o .. s.end : e \notin free}
<1>1. PICK o \in starts : m = SpanOf(o, Min(ends(o)))
  BY DEF Missing
<1>2. s.start \in Nat /\ s.end \in Nat /\ s.start <= s.end
  BY SpansAreTheirEnds
<1>3. o \in Nat /\ s.start <= o /\ o < s.end /\ s.end \notin free
  BY <1>2, OffsetsOfSpans
<1>4. ends(o) \subseteq Nat /\ s.end \in ends(o)
  BY <1>2, <1>3
<1> HIDE DEF ends
<1>5. Min(ends(o)) \in ends(o) /\ \A e \in ends(o) : Min(ends(o)) <= e
  BY <1>4, MinOfNaturals
<1> DEFINE end == Min(ends(o))
<1>6. end \in Nat /\ o <= end /\ end <= s.end /\ end \notin free
  BY <1>2, <1>3, <1>5 DEF ends
<1>7. o # end
  BY <1>6
<1>8. \A x \in o .. end - 1 : x \in free
  <2> SUFFICES ASSUME NEW x \in o .. end - 1, x \notin free
               PROVE  FALSE
    OBVIOUS
  <2>1. x \in ends(o)
    BY <1>2, <1>3, <1>6 DEF ends
  <2>2. end <= x
    BY <1>5, <2>1
  <2>3. QED
    BY <1>3, <1>6, <2>2
<1> HIDE DEF end, free
<1>9. m = [start |-> o, end |-> end]
  BY <1>1 DEF SpanOf, end
<1>10. m \in Span /\ m.start = o /\ m.end = end /\ o < end
  BY <1>3, <1>6, <1>7, <1>9 DEF Span
<1>11. Offsets(m) = o .. end - 1
  BY <1>10 DEF Offsets
<1>12. QED
  BY <1>1, <1>3, <1>6, <1>8, <1>10, <1>11 DEF free

\* Every offset wanted and not held is in a missing part.
LEMMA MissingCovers ==
    ASSUME NEW held, NEW s \in Span, NEW x \in Offsets(s) \ held
    PROVE  \E m \in Missing(held, s) : x \in Offsets(m)
<1> DEFINE free == Offsets(s) \ held
           starts == {o \in free : o - 1 \notin free}
           before == {o \in s.start .. x : \A y \in o .. x : y \in free}
<1>1. s.start \in Nat /\ s.end \in Nat /\ x \in Nat /\ s.start <= x /\ x < s.end
  BY SpansAreTheirEnds, OffsetsOfSpans
<1>2. before \subseteq Nat /\ x \in before
  BY <1>1
<1> HIDE DEF before
<1>3. PICK o \in before : \A y \in before : o <= y
  BY <1>2, LeastNatural
<1>4. o \in s.start .. x /\ \A y \in o .. x : y \in free
  BY DEF before
<1> HIDE DEF free
<1>5. o - 1 \notin free
  <2> SUFFICES ASSUME o - 1 \in free
               PROVE  FALSE
    OBVIOUS
  <2>1. o - 1 \in s.start .. x
    BY <1>1, <1>4, OffsetsOfSpans DEF free
  <2>2. \A y \in o - 1 .. x : y = o - 1 \/ y \in o .. x
    BY <1>1, <1>4
  <2>3. o - 1 \in before
    BY <1>4, <2>1, <2>2 DEF before
  <2>4. QED
    BY <1>1, <1>3, <1>4, <2>3
<1>6. o \in starts
  BY <1>1, <1>4, <1>5
<1> DEFINE m == SpanOf(o, Min({e \in o .. s.end : e \notin free}))
<1>7. m \in Missing(held, s) /\ m.start = o
  BY <1>6 DEF Missing, free, SpanOf
<1> HIDE DEF m
<1>8. m \in Span /\ m.end \notin free /\ m.start < m.end
  BY <1>7, MissingRuns DEF free
<1>9. m.end \in Nat /\ ~(m.end <= x)
  <2>1. m.end \in Nat /\ o \in Nat /\ o < m.end
    BY <1>7, <1>8, SpansAreTheirEnds
  <2>2. m.end <= x => m.end \in o .. x
    BY <1>1, <2>1
  <2>3. QED
    BY <1>4, <1>8, <2>1, <2>2
<1>10. x \in Offsets(m)
  BY <1>1, <1>4, <1>7, <1>8, <1>9, OffsetsOfSpans
<1>11. QED
  BY <1>7, <1>10

\* Missing parts do not overlap.
LEMMA MissingApart ==
    ASSUME NEW held, NEW s \in Span, NEW m \in Missing(held, s), NEW k \in Missing(held, s),
           m.start <= k.start, k.start < m.end
    PROVE  m = k
<1> DEFINE free == Offsets(s) \ held
<1>1. /\ m \in Span /\ k \in Span /\ k.start < k.end
      /\ Offsets(m) \subseteq free /\ k.start - 1 \notin free
  BY MissingRuns
<1>2. m.start \in Nat /\ m.end \in Nat /\ k.start \in Nat /\ k.end \in Nat
  BY <1>1, SpansAreTheirEnds
<1>3. m.start = k.start
  <2> SUFFICES ASSUME m.start < k.start
               PROVE  FALSE
    BY <1>2
  <2>1. k.start - 1 \in Offsets(m)
    BY <1>1, <1>2, OffsetsOfSpans
  <2>2. QED
    BY <1>1, <2>1
<1> DEFINE end(o) == Min({e \in o .. s.end : e \notin free})
<1>4. (\E o : m = SpanOf(o, end(o))) /\ (\E o : k = SpanOf(o, end(o)))
  BY DEF Missing
<1> HIDE DEF end
<1>5. m = SpanOf(m.start, end(m.start)) /\ k = SpanOf(k.start, end(k.start))
  BY <1>4 DEF SpanOf
<1>6. QED
  BY <1>3, <1>5

\* What a fetch lacks: nothing held, and with what is held all that was asked for (Lack).
LEMMA LackOfSpans ==
    ASSUME NEW n \in Nat, NEW spans, spans \subseteq InFile(n)
    PROVE  LET lack == UNION {Missing(have, s) : s \in spans}
           IN  /\ lack \subseteq InFile(n)
               /\ \A w \in lack : Offsets(w) # {} /\ Offsets(w) \cap have = {}
               /\ Together(spans) \subseteq have \cup Together(lack)
<1> DEFINE lack == UNION {Missing(have, s) : s \in spans}
<1>1. ASSUME NEW w \in lack
      PROVE  w \in InFile(n) /\ Offsets(w) # {} /\ Offsets(w) \cap have = {}
  <2>1. PICK s \in spans : w \in Missing(have, s)
    OBVIOUS
  <2>2. s \in Span /\ s.end <= n
    BY DEF InFile
  <2>3. w \in Span /\ w.start < w.end /\ w.end <= s.end /\ Offsets(w) \subseteq Offsets(s) \ have
    BY <2>1, <2>2, MissingRuns
  <2>4. w.start \in Nat /\ w.end \in Nat /\ s.end \in Nat
    BY <2>2, <2>3, SpansAreTheirEnds
  <2>5. w.start \in Offsets(w)
    BY <2>3, <2>4, OffsetsOfSpans
  <2>6. w.end <= n
    BY <2>2, <2>3, <2>4
  <2>7. QED
    BY <2>3, <2>5, <2>6 DEF InFile
<1>2. ASSUME NEW s \in spans, NEW x \in Offsets(s), x \notin have
      PROVE  \E w \in lack : x \in Offsets(w)
  <2>1. s \in Span
    BY DEF InFile
  <2>2. \E w \in Missing(have, s) : x \in Offsets(w)
    BY <1>2, <2>1, MissingCovers
  <2>3. QED
    BY <2>2
<1> HIDE DEF lack
<1>3. Together(spans) \subseteq have \cup Together(lack)
  BY <1>2 DEF Together
<1>4. QED
  BY <1>1, <1>3 DEF lack

(***************************************************************************)
(* What is merged                                                          *)
(***************************************************************************)

\* Where merged ranges start, and the ranges that one of them is made of.
Leads(spans, gap) ==
    {s.start : s \in {s \in spans : \A t \in spans : t.start < s.start => t.end + gap < s.start}}
With(spans, gap, o) ==
    {s \in spans : s.start >= o /\ \A l \in Leads(spans, gap) : l > o => s.start < l}
Ending(spans, gap, o) == Max({s.end : s \in With(spans, gap, o)})

LEMMA CoalesceMerges ==
    ASSUME NEW spans, NEW gap
    PROVE  Coalesce(spans, gap) = {SpanOf(o, Ending(spans, gap, o)) : o \in Leads(spans, gap)}
BY DEF Coalesce, Leads, With, Ending

\* A merged range ends where the last of its ranges does.
LEMMA EndingIsLast ==
    ASSUME NEW n \in Nat, NEW spans, spans \subseteq InFile(n), NEW gap, NEW o \in Leads(spans, gap)
    PROVE  /\ \E w \in With(spans, gap, o) : w.end = Ending(spans, gap, o)
           /\ \A w \in With(spans, gap, o) : w.end <= Ending(spans, gap, o)
           /\ \E w \in With(spans, gap, o) : w.start = o
           /\ o \in 0 .. n /\ Ending(spans, gap, o) \in 0 .. n /\ o <= Ending(spans, gap, o)
<1> DEFINE ends == {w.end : w \in With(spans, gap, o)}
<1>1. \A w \in spans : w.start \in 0 .. n /\ w.end \in 0 .. n /\ w.start <= w.end
  BY SpansAreTheirEnds DEF InFile
<1>2. PICK s \in spans : s.start = o
  BY DEF Leads
<1>3. s \in With(spans, gap, o)
  <2>1. s.start \in Int /\ o \in Int
    BY <1>1, <1>2
  <2>2. \A l \in Leads(spans, gap) : l \in Int
    BY <1>1 DEF Leads
  <2>3. QED
    BY <1>2, <2>1, <2>2 DEF With
<1>4. With(spans, gap, o) \subseteq spans
  BY DEF With
<1>5. ends \subseteq 0 .. n /\ ends # {}
  BY <1>1, <1>3, <1>4
<1>6. Max(ends) \in ends /\ \A y \in ends : y <= Max(ends)
  BY <1>5, MaxOfNaturals
<1>7. Ending(spans, gap, o) = Max(ends)
  BY DEF Ending
<1>8. s.end <= Max(ends)
  BY <1>3, <1>6
<1> HIDE DEF ends
<1>9. Max(ends) \in 0 .. n
  BY <1>5, <1>6
<1>10. o <= Max(ends)
  <2>1. s.start \in Int /\ s.end \in Int /\ s.start <= s.end
    BY <1>1
  <2>2. QED
    BY <1>2, <1>8, <1>9, <2>1
<1>11. QED
  BY <1>1, <1>2, <1>3, <1>6, <1>7, <1>9, <1>10 DEF ends

LEMMA CoalesceInFile ==
    ASSUME NEW n \in Nat, NEW spans, spans \subseteq InFile(n), NEW gap
    PROVE  Coalesce(spans, gap) \subseteq InFile(n)
<1> SUFFICES ASSUME NEW r \in Coalesce(spans, gap)
             PROVE  r \in InFile(n)
  OBVIOUS
<1>1. PICK o \in Leads(spans, gap) : r = SpanOf(o, Ending(spans, gap, o))
  BY CoalesceMerges
<1>2. o \in 0 .. n /\ Ending(spans, gap, o) \in 0 .. n /\ o <= Ending(spans, gap, o)
  BY EndingIsLast
<1>3. QED
  BY <1>1, <1>2 DEF SpanOf, InFile, Span

\* Every range is inside a merged one.
LEMMA CoalesceCovers ==
    ASSUME NEW n \in Nat, NEW spans, spans \subseteq InFile(n), NEW gap, NEW w \in spans
    PROVE  \E r \in Coalesce(spans, gap) : r.start <= w.start /\ w.end <= r.end
<1>1. \A s \in spans : s.start \in 0 .. n /\ s.end \in 0 .. n /\ s.start <= s.end
  BY SpansAreTheirEnds DEF InFile
<1> DEFINE starts == {s.start : s \in spans}
           before == {l \in Leads(spans, gap) : l <= w.start}
<1>2. Leads(spans, gap) \subseteq 0 .. n
  BY <1>1 DEF Leads
<1>3. before # {}
  <2>1. starts \subseteq Nat /\ starts # {}
    BY <1>1
  <2>2. PICK least \in starts : \A y \in starts : least <= y
    BY <2>1, LeastNatural
  <2>3. PICK s \in spans : s.start = least
    BY <2>2
  <2>4. \A t \in spans : ~(t.start < s.start)
    <3>1. \A t \in spans : least <= t.start /\ t.start \in Nat /\ least \in Nat
      BY <1>1, <2>1, <2>2
    <3>2. QED
      BY <2>3, <3>1
  <2>5. s.start \in Leads(spans, gap)
    BY <2>4 DEF Leads
  <2>6. s.start <= w.start
    BY <2>2, <2>3
  <2>7. QED
    BY <2>5, <2>6
<1>4. before \subseteq 0 .. n
  BY <1>2
<1> HIDE DEF before
<1>5. PICK o \in before : \A l \in before : l <= o
  BY <1>3, <1>4, GreatestNatural
<1>6. o \in Leads(spans, gap) /\ o <= w.start
  BY DEF before
<1>7. w \in With(spans, gap, o)
  <2>1. ASSUME NEW l \in Leads(spans, gap), l > o
        PROVE  w.start < l
    <3>1. l \in Int /\ o \in Int /\ w.start \in Int
      BY <1>1, <1>2, <1>6
    <3>2. l <= w.start => l <= o
      BY <1>5 DEF before
    <3>3. QED
      BY <2>1, <3>1, <3>2
  <2>2. w.start >= o
    BY <1>1, <1>2, <1>6
  <2>3. QED
    BY <2>1, <2>2 DEF With
<1>8. w.end <= Ending(spans, gap, o)
  BY <1>6, <1>7, EndingIsLast
<1> DEFINE r == SpanOf(o, Ending(spans, gap, o))
<1>9. r \in Coalesce(spans, gap)
  BY <1>6, CoalesceMerges
<1>10. r.start = o /\ r.end = Ending(spans, gap, o)
  BY DEF SpanOf
<1>11. QED
  BY <1>6, <1>8, <1>9, <1>10

\* Merging loses no offset.
LEMMA CoalesceHolds ==
    ASSUME NEW n \in Nat, NEW spans, spans \subseteq InFile(n), NEW gap
    PROVE  Together(spans) \subseteq Together(Coalesce(spans, gap))
<1> SUFFICES ASSUME NEW w \in spans, NEW x \in Offsets(w)
             PROVE  \E r \in Coalesce(spans, gap) : x \in Offsets(r)
  BY DEF Together
<1>1. PICK r \in Coalesce(spans, gap) : r.start <= w.start /\ w.end <= r.end
  BY CoalesceCovers
<1>2. r \in Span /\ w \in Span
  BY CoalesceInFile DEF InFile
<1>3. /\ r.start \in Nat /\ r.end \in Nat /\ w.start \in Nat /\ w.end \in Nat
      /\ x \in Nat /\ w.start <= x /\ x < w.end
  BY <1>2, SpansAreTheirEnds, OffsetsOfSpans
<1>4. r.start <= x /\ x < r.end
  BY <1>1, <1>3
<1>5. QED
  BY <1>2, <1>3, <1>4, OffsetsOfSpans

\* Of two merged ranges, the second starts beyond the gap of the end of the first.
LEMMA CoalesceFar ==
    ASSUME NEW n \in Nat, NEW spans, spans \subseteq InFile(n), NEW gap \in Int,
           NEW r \in Coalesce(spans, gap), NEW q \in Coalesce(spans, gap), r # q
    PROVE  r.end + gap < q.start \/ q.end + gap < r.start
<1>1. PICK a \in Leads(spans, gap) : r = SpanOf(a, Ending(spans, gap, a))
  BY CoalesceMerges
<1>2. PICK b \in Leads(spans, gap) : q = SpanOf(b, Ending(spans, gap, b))
  BY CoalesceMerges
<1>3. /\ r.start = a /\ r.end = Ending(spans, gap, a)
      /\ q.start = b /\ q.end = Ending(spans, gap, b)
  BY <1>1, <1>2 DEF SpanOf
<1>4. a # b
  BY <1>1, <1>2
<1>5. ASSUME NEW x \in Leads(spans, gap), NEW y \in Leads(spans, gap), x < y
      PROVE  Ending(spans, gap, x) + gap < y
  <2>1. PICK w \in With(spans, gap, x) : w.end = Ending(spans, gap, x)
    BY EndingIsLast
  <2>2. PICK s \in spans : s.start = y /\ \A t \in spans : t.start < y => t.end + gap < y
    BY DEF Leads
  <2>3. x \in Nat /\ y \in Nat
    BY SpansAreTheirEnds DEF Leads, InFile
  <2>4. y > x
    BY <1>5, <2>3
  <2>5. w \in spans /\ w.start < y
    BY <2>1, <2>4 DEF With
  <2>6. w.end + gap < y
    BY <2>2, <2>5
  <2>7. QED
    BY <2>1, <2>6
<1>6. a \in Nat /\ b \in Nat
  BY SpansAreTheirEnds DEF Leads, InFile
<1>7. a < b \/ b < a
  BY <1>4, <1>6
<1>8. QED
  BY <1>3, <1>5, <1>7

\* Merged ranges do not overlap, even when nothing but what overlaps is merged.
LEMMA CoalesceApart ==
    ASSUME NEW n \in Nat, NEW spans, spans \subseteq InFile(n), NEW gap \in Int, -1 <= gap,
           NEW r \in Coalesce(spans, gap), NEW q \in Coalesce(spans, gap), r # q
    PROVE  Offsets(r) \cap Offsets(q) = {}
<1>1. r.end + gap < q.start \/ q.end + gap < r.start
  BY CoalesceFar
<1>2. r \in Span /\ q \in Span
  BY CoalesceInFile DEF InFile
<1> SUFFICES ASSUME NEW x \in Offsets(r), x \in Offsets(q)
             PROVE  FALSE
  OBVIOUS
<1>3. x \in Nat /\ r.start <= x /\ x < r.end /\ q.start <= x /\ x < q.end
  BY <1>2, OffsetsOfSpans
<1>4. r.start \in Nat /\ r.end \in Nat /\ q.start \in Nat /\ q.end \in Nat
  BY <1>2, SpansAreTheirEnds
<1>5. QED
  BY <1>1, <1>3, <1>4

\* An offset of a merged range that is in none of its ranges is between two of them, which are
\* no further from each other than the gap.
LEMMA CoalesceGap ==
    ASSUME NEW n \in Nat, NEW spans, spans \subseteq InFile(n), NEW gap \in Int,
           NEW r \in Coalesce(spans, gap), NEW x \in Offsets(r), x \notin Together(spans)
    PROVE  \E a, b \in spans : /\ r.start <= a.start /\ a.end <= x
                               /\ x < b.start /\ b.end <= r.end
                               /\ b.start <= a.end + gap
<1>1. PICK o \in Leads(spans, gap) : r = SpanOf(o, Ending(spans, gap, o))
  BY CoalesceMerges
<1> DEFINE end == Ending(spans, gap, o)
           beyond == {s.start : s \in {s \in spans : x < s.start}}
<1>2. r.start = o /\ r.end = end
  BY <1>1 DEF SpanOf
<1>3. /\ o \in Nat /\ end \in Nat
      /\ \E w \in With(spans, gap, o) : w.end = end
      /\ \A w \in With(spans, gap, o) : w.end <= end
  BY EndingIsLast
<1>4. \A s \in spans : s \in Span /\ s.start \in Nat /\ s.end \in Nat /\ s.start <= s.end
  BY SpansAreTheirEnds DEF InFile
<1> HIDE DEF end
<1>5. x \in Nat /\ o <= x /\ x < end
  <2>1. r \in Span
    BY CoalesceInFile DEF InFile
  <2>2. QED
    BY <1>2, <2>1, OffsetsOfSpans
<1>6. \A s \in spans : s.end <= x \/ x < s.start
  <2> SUFFICES ASSUME NEW s \in spans, ~(s.end <= x), ~(x < s.start)
               PROVE  FALSE
    OBVIOUS
  <2>1. x \in Offsets(s)
    BY <1>4, <1>5, OffsetsOfSpans
  <2>2. QED
    BY <2>1 DEF Together
<1>7. PICK last \in With(spans, gap, o) : last.end = end
  BY <1>3
<1>8. last \in spans /\ x < last.start
  BY <1>4, <1>5, <1>6, <1>7 DEF With
<1>9. beyond \subseteq Nat /\ beyond # {}
  BY <1>4, <1>8
<1> HIDE DEF beyond
<1>10. PICK least \in beyond : \A y \in beyond : least <= y
  BY <1>9, LeastNatural
<1>11. PICK b \in spans : b.start = least /\ x < b.start
  BY <1>10 DEF beyond
<1>12. least <= last.start /\ least \in Nat
  BY <1>8, <1>9, <1>10 DEF beyond
<1>13. \A l \in Leads(spans, gap) : l > o => least < l
  <2>1. \A l \in Leads(spans, gap) : l \in Nat
    BY <1>4 DEF Leads
  <2>2. \A l \in Leads(spans, gap) : l > o => last.start < l
    BY <1>7 DEF With
  <2>3. QED
    BY <1>4, <1>8, <1>12, <2>1, <2>2
<1>14. b \in With(spans, gap, o)
  <2>1. b.start >= o
    BY <1>4, <1>5, <1>11, <1>3
  <2>2. QED
    BY <1>11, <1>13, <2>1 DEF With
<1>15. b.start \notin Leads(spans, gap)
  <2>1. b.start > o
    BY <1>3, <1>4, <1>5, <1>11
  <2>2. ~(b.start < b.start)
    BY <1>4, <1>11
  <2>3. QED
    BY <2>1, <2>2, <1>14 DEF With
<1>16. PICK a \in spans : a.start < b.start /\ ~(a.end + gap < b.start)
  BY <1>11, <1>15 DEF Leads
<1>17. a.end <= x
  <2>1. ~(x < a.start)
    <3> SUFFICES ASSUME x < a.start
                 PROVE  FALSE
      OBVIOUS
    <3>1. least <= a.start
      BY <1>10 DEF beyond
    <3>2. QED
      BY <1>4, <1>11, <1>12, <1>16, <3>1
  <2>2. QED
    BY <1>6, <2>1
<1>18. o <= a.start
  <2> SUFFICES ASSUME a.start < o
               PROVE  FALSE
    BY <1>3, <1>4
  <2>1. a.end + gap < o
    BY DEF Leads
  <2>2. a.end \in Int /\ b.start \in Int /\ o < b.start
    BY <1>3, <1>4, <1>5, <1>11
  <2>3. a.end + gap < b.start
    BY <1>3, <2>1, <2>2
  <2>4. QED
    BY <1>16, <2>3
<1>19. b.end <= end
  BY <1>3, <1>14
<1>20. b.start <= a.end + gap
  BY <1>4, <1>11, <1>16
<1>21. QED
  BY <1>2, <1>11, <1>17, <1>18, <1>19, <1>20

\* Where nothing is merged, or only what touches, no offset is added.
LEMMA NothingIsAdded ==
    ASSUME NEW n \in Nat, NEW spans, spans \subseteq InFile(n), NEW gap \in Int, gap <= 0
    PROVE  Together(Coalesce(spans, gap)) = Together(spans)
<1>1. ASSUME NEW r \in Coalesce(spans, gap), NEW x \in Offsets(r)
      PROVE  x \in Together(spans)
  <2> SUFFICES ASSUME x \notin Together(spans)
               PROVE  FALSE
    OBVIOUS
  <2>1. PICK a \in spans, b \in spans : a.end <= x /\ x < b.start /\ b.start <= a.end + gap
    BY CoalesceGap
  <2>2. a.end \in Nat /\ b.start \in Nat
    BY SpansAreTheirEnds DEF InFile
  <2>3. x \in Nat
    <3>1. r \in Span
      BY CoalesceInFile DEF InFile
    <3>2. QED
      BY <3>1, OffsetsOfSpans
  <2>4. QED
    BY <2>1, <2>2, <2>3
<1>2. QED
  BY <1>1, CoalesceHolds DEF Together

(***************************************************************************)
(* The requests of a fetch                                                 *)
(***************************************************************************)

\* A set of spans with a start each: InOrder lists each of them, once.
LEMMA InOrderLists ==
    ASSUME NEW n \in Nat, NEW S, S \subseteq InFile(n),
           \A s, t \in S : s.start = t.start => s = t
    PROVE  /\ InOrder(S) \in Seq(S)
           /\ \A s \in S : \E i \in DOMAIN InOrder(S) : InOrder(S)[i] = s
           /\ \A i, j \in DOMAIN InOrder(S) : InOrder(S)[i] = InOrder(S)[j] => i = j
<1> DEFINE start == [s \in S |-> s.start]
<1>1. \A s \in S : s.start \in 0 .. n
  BY SpansAreTheirEnds DEF InFile
<1>2. IsFiniteSet(S)
  <2>1. start \in Injection(S, 0 .. n)
    BY <1>1 DEF Injection, IsInjective
  <2>2. QED
    BY <2>1, FS_Interval, FS_Injection
<1>3. \A s \in S : start[s] = s.start /\ start[s] \in Int
  BY <1>1
<1> HIDE DEF start
<1>4. Ranks(InOrder(S), S, start)
  <2>1. \A s \in S : {t \in S : t.start < s.start} = {t \in S : start[t] < start[s]}
    BY <1>3
  <2> DEFINE at(i) == CHOOSE s \in S : Cardinality({t \in S : t.start < s.start}) = i - 1
             ranked(i) == CHOOSE s \in S : Cardinality({t \in S : start[t] < start[s]}) = i - 1
  <2>2. \A i : at(i) = ranked(i)
    BY <2>1
  <2>3. InOrder(S) = [i \in 1 .. Cardinality(S) |-> at(i)]
    BY DEF InOrder
  <2>4. Ranks(InOrder(S), S, start) <=> InOrder(S) = [i \in 1 .. Cardinality(S) |-> ranked(i)]
    BY DEF Ranks
  <2> HIDE DEF at, ranked
  <2>5. QED
    BY <2>2, <2>3, <2>4
<1>5. QED
  BY <1>2, <1>3, <1>4, RankingLists

\* What a fetch asks for, in no order.
Parts == UNION {Missing(have, r) : r \in Coalesce(wanted, strategy.coalesce_gap)}

LEMMA PartsOfAFetch ==
    ASSUME NEW n \in Nat, wanted \subseteq InFile(n),
           strategy.coalesce_gap \in Int, -1 <= strategy.coalesce_gap
    PROVE  /\ Parts \subseteq InFile(n)
           /\ \A m \in Parts :
                 /\ m.start \in Offsets(m) /\ Offsets(m) \cap have = {}
                 /\ \E r \in Coalesce(wanted, strategy.coalesce_gap) :
                       m \in Missing(have, r) /\ Offsets(m) \subseteq Offsets(r)
           /\ \A m, k \in Parts : m # k => Offsets(m) \cap Offsets(k) = {}
           /\ Together(Parts) = Together(Coalesce(wanted, strategy.coalesce_gap)) \ have
<1> DEFINE merged == Coalesce(wanted, strategy.coalesce_gap)
<1>1. merged \subseteq InFile(n)
  BY CoalesceInFile
<1>2. \A r, q \in merged : r # q => Offsets(r) \cap Offsets(q) = {}
  BY CoalesceApart
<1>3. Parts = UNION {Missing(have, r) : r \in merged}
  BY DEF Parts
<1> HIDE DEF merged
<1>4. ASSUME NEW m \in Parts
      PROVE  /\ m \in InFile(n) /\ m.start \in Offsets(m)
             /\ Offsets(m) \cap have = {}
             /\ \E r \in merged : m \in Missing(have, r) /\ Offsets(m) \subseteq Offsets(r)
  <2>1. PICK r \in merged : m \in Missing(have, r)
    BY <1>3
  <2>2. r \in Span /\ r.end <= n
    BY <1>1 DEF InFile
  <2>3. m \in Span /\ m.start < m.end /\ m.end <= r.end /\ Offsets(m) \subseteq Offsets(r) \ have
    BY <2>1, <2>2, MissingRuns
  <2>4. m.start \in Nat /\ m.end \in Nat /\ r.end \in Nat
    BY <2>2, <2>3, SpansAreTheirEnds
  <2>5. m.start \in Offsets(m)
    BY <2>3, <2>4, OffsetsOfSpans
  <2>6. m.end <= n
    BY <2>2, <2>3, <2>4
  <2>7. QED
    BY <2>1, <2>3, <2>5, <2>6 DEF InFile
<1>5. ASSUME NEW m \in Parts, NEW k \in Parts, m # k
      PROVE  Offsets(m) \cap Offsets(k) = {}
  <2> SUFFICES ASSUME NEW x \in Offsets(m), x \in Offsets(k)
               PROVE  FALSE
    OBVIOUS
  <2>1. PICK r \in merged : m \in Missing(have, r) /\ Offsets(m) \subseteq Offsets(r)
    BY <1>4
  <2>2. PICK q \in merged : k \in Missing(have, q) /\ Offsets(k) \subseteq Offsets(q)
    BY <1>4
  <2>3. r = q
    BY <1>2, <2>1, <2>2
  <2>4. r \in Span /\ m \in Span /\ k \in Span
    BY <1>1, <1>4 DEF InFile
  <2>5. /\ m.start \in Nat /\ m.end \in Nat /\ k.start \in Nat /\ k.end \in Nat
        /\ x \in Nat /\ m.start <= x /\ x < m.end /\ k.start <= x /\ x < k.end
    BY <2>4, SpansAreTheirEnds, OffsetsOfSpans
  <2>6. \/ m.start <= k.start /\ k.start < m.end
        \/ k.start <= m.start /\ m.start < k.end
    BY <2>5
  <2>7. m = k
    BY <2>1, <2>2, <2>3, <2>4, <2>6, MissingApart
  <2>8. QED
    BY <1>5, <2>7
<1>6. ASSUME NEW r \in merged, NEW x \in Offsets(r), x \notin have
      PROVE  \E m \in Parts : x \in Offsets(m)
  <2>1. r \in Span
    BY <1>1 DEF InFile
  <2>2. \E m \in Missing(have, r) : x \in Offsets(m)
    BY <1>6, <2>1, MissingCovers
  <2>3. QED
    BY <1>3, <2>2
<1>7. Together(Parts) = Together(merged) \ have
  BY <1>4, <1>6 DEF Together
<1>8. QED
  BY <1>4, <1>5, <1>7 DEF merged

LEMMA RequestsAreParts ==
    ASSUME NEW n \in Nat, wanted \subseteq InFile(n),
           strategy.coalesce_gap \in Int, -1 <= strategy.coalesce_gap
    PROVE  /\ Requests \in Seq(Parts)
           /\ \A s \in Parts : \E i \in DOMAIN Requests : Requests[i] = s
           /\ \A i, j \in DOMAIN Requests : Requests[i] = Requests[j] => i = j
<1>1. Requests = InOrder(Parts)
  BY DEF Requests, Parts
<1>2. /\ Parts \subseteq InFile(n)
      /\ \A m \in Parts : m.start \in Offsets(m)
      /\ \A m, k \in Parts : m # k => Offsets(m) \cap Offsets(k) = {}
  BY PartsOfAFetch
<1>3. \A s, t \in Parts : s.start = t.start => s = t
  BY <1>2
<1>4. QED
  BY <1>1, <1>2, <1>3, InOrderLists

\* As many requests as parts, and of the same bytes.
LEMMA RequestsTogether ==
    ASSUME NEW n \in Nat, wanted \subseteq InFile(n),
           strategy.coalesce_gap \in Int, -1 <= strategy.coalesce_gap
    PROVE  /\ IsFiniteSet(Parts) /\ Len(Requests) = Cardinality(Parts)
           /\ UNION {Offsets(Requests[i]) : i \in DOMAIN Requests} = Together(Parts)
<1>1. /\ Requests \in Seq(Parts)
      /\ \A s \in Parts : \E i \in DOMAIN Requests : Requests[i] = s
      /\ \A i, j \in DOMAIN Requests : Requests[i] = Requests[j] => i = j
  BY RequestsAreParts
<1> DEFINE gets == Requests
<1> HIDE DEF gets
<1>2. gets \in Seq(Parts)
  BY <1>1 DEF gets
<1>3. Len(gets) \in Nat /\ DOMAIN gets = 1 .. Len(gets)
  BY <1>2, LenProperties
<1>4. \A i \in DOMAIN gets : gets[i] \in Parts
  BY <1>2, ElementOfSeq
<1>5. /\ \A s \in Parts : \E i \in DOMAIN gets : gets[i] = s
      /\ \A i, j \in DOMAIN gets : gets[i] = gets[j] => i = j
  BY <1>1 DEF gets
<1>6. Range(gets) = Parts
  BY <1>4, <1>5 DEF Range
<1>7. IsInjective(gets)
  BY <1>5 DEF IsInjective
<1>8. IsFiniteSet(Parts) /\ Cardinality(Parts) = Len(gets)
  BY <1>3, <1>6, <1>7, DistinctSize
<1>9. UNION {Offsets(gets[i]) : i \in DOMAIN gets} = Together(Parts)
  BY <1>4, <1>5 DEF Together
<1>10. QED
  BY <1>8, <1>9 DEF gets

\* The requests of a fetch lack nothing, and repeat nothing.
THEOREM RequestsOfAFetch ==
    ASSUME NEW n \in Nat, wanted \subseteq InFile(n),
           strategy.coalesce_gap \in Int, -1 <= strategy.coalesce_gap
    PROVE  /\ Requests \in Seq(InFile(n))
           /\ \A i \in DOMAIN Requests : /\ Offsets(Requests[i]) # {}
                                         /\ Offsets(Requests[i]) \cap have = {}
           /\ \A i, j \in DOMAIN Requests : i # j => Offsets(Requests[i]) \cap Offsets(Requests[j]) = {}
           /\ \A w \in wanted : \A x \in Offsets(w) :
                 x \in have \/ \E i \in DOMAIN Requests : x \in Offsets(Requests[i])
<1> DEFINE gets == Requests
<1>1. /\ gets \in Seq(Parts)
      /\ \A s \in Parts : \E i \in DOMAIN gets : gets[i] = s
      /\ \A i, j \in DOMAIN gets : gets[i] = gets[j] => i = j
  BY RequestsAreParts
<1> HIDE DEF gets
<1>2. /\ Parts \subseteq InFile(n)
      /\ \A m \in Parts : Offsets(m) # {} /\ Offsets(m) \cap have = {}
      /\ \A m, k \in Parts : m # k => Offsets(m) \cap Offsets(k) = {}
      /\ Together(Parts) = Together(Coalesce(wanted, strategy.coalesce_gap)) \ have
  BY PartsOfAFetch
<1>3. gets \in Seq(InFile(n)) /\ \A i \in DOMAIN gets : gets[i] \in Parts
  BY <1>1, <1>2, SeqMonotonic, ElementOfSeq
<1>4. \A i \in DOMAIN gets : Offsets(gets[i]) # {} /\ Offsets(gets[i]) \cap have = {}
  BY <1>2, <1>3
<1>5. \A i, j \in DOMAIN gets : i # j => Offsets(gets[i]) \cap Offsets(gets[j]) = {}
  BY <1>1, <1>2, <1>3
<1>6. ASSUME NEW w \in wanted, NEW x \in Offsets(w), x \notin have
      PROVE  \E i \in DOMAIN gets : x \in Offsets(gets[i])
  <2>1. x \in Together(Coalesce(wanted, strategy.coalesce_gap))
    BY CoalesceHolds DEF Together
  <2>2. PICK m \in Parts : x \in Offsets(m)
    BY <1>2, <1>6, <2>1 DEF Together
  <2>3. QED
    BY <1>1, <2>2
<1>7. QED
  BY <1>3, <1>4, <1>5, <1>6 DEF gets

(***************************************************************************)
(* The scan                                                                *)
(***************************************************************************)

\* What the theorems are about.
Trusted ==
    /\ Ordered
    /\ TruthfulFiles
    /\ FilesInObjects
    /\ QueriesOfFiles
    /\ \A s \in Strategies : s.bloom => \A x, y \in DOMAIN Place : Place[x] = Place[y] => x = y

\* What a scan was called with.
Called == key \in DOMAIN Files /\ strategy \in Strategies /\ query \in Queries

\* What is assumed of a column chunk.
Sound(file, group, chunk) ==
    /\ Paged(chunk) /\ HonestChunk(file, chunk)
    /\ LaidOut(group, chunk) /\ Tiled(group, chunk)
    /\ chunk.range \in Span
    /\ \A i \in DOMAIN chunk.pages :
          chunk.pages[i].span \in Span /\ Offsets(chunk.pages[i].span) # {}

\* The chunks a scan looks at.
LEMMA TouchedChunksAreSound ==
    ASSUME Trusted, Called, NEW g \in DOMAIN File.groups, NEW c \in Touched
    PROVE  Sound(File, File.groups[g], File.groups[g].columns[c])
<1>1. c \in DOMAIN File.groups[g].columns
  <2>1. /\ query.columns \subseteq DOMAIN File.groups[g].columns
        /\ query.op # "all" => query.column \in DOMAIN File.groups[g].columns
    BY DEF Trusted, Called, QueriesOfFiles, File
  <2>2. QED
    BY <2>1 DEF Touched
<1>2. QED
  BY <1>1 DEF Trusted, Called, TruthfulFiles, File, Sound

(***************************************************************************)
(* A page and its rows                                                     *)
(***************************************************************************)
LEMMA OnePageOfARow ==
    ASSUME NEW file, NEW group, NEW chunk, Sound(file, group, chunk),
           NEW row \in 0 .. group.num_rows - 1
    PROVE  \E i \in DOMAIN chunk.pages :
              /\ \A j \in DOMAIN chunk.pages : row \in Rows(chunk.pages[j]) <=> j = i
              /\ ValueAt(chunk, row) = chunk.pages[i].values[row - chunk.pages[i].first + 1]
<1>1. PICK i \in DOMAIN chunk.pages :
         \A j \in DOMAIN chunk.pages : row \in Rows(chunk.pages[j]) <=> j = i
  BY DEF Sound, Tiled
<1>2. i = CHOOSE j \in DOMAIN chunk.pages : row \in Rows(chunk.pages[j])
  BY <1>1
<1>3. QED
  BY <1>1, <1>2 DEF ValueAt

\* A row shows its value when its page is decoded.
LEMMA DecodedRowsShowTheirValues ==
    ASSUME NEW file, NEW group, NEW chunk, Sound(file, group, chunk), NEW spans,
           NEW row \in 0 .. group.num_rows - 1,
           \A i \in DOMAIN chunk.pages : row \in Rows(chunk.pages[i]) => i \in Decoded(chunk, spans)
    PROVE  Shown(chunk, spans, row) = ValueAt(chunk, row)
<1>1. PICK i \in DOMAIN chunk.pages :
         /\ \A j \in DOMAIN chunk.pages : row \in Rows(chunk.pages[j]) <=> j = i
         /\ ValueAt(chunk, row) = chunk.pages[i].values[row - chunk.pages[i].first + 1]
  BY OnePageOfARow
<1>2. Decoded(chunk, spans) \subseteq DOMAIN chunk.pages
  BY DEF Decoded
<1>3. {j \in Decoded(chunk, spans) : row \in Rows(chunk.pages[j])} = {i}
  BY <1>1, <1>2
<1>4. Min({i}) = i
  <2>1. i \in Nat
    BY DEF Sound, Paged
  <2>2. QED
    BY <2>1 DEF Min
<1>5. QED
  BY <1>1, <1>3, <1>4 DEF Shown

\* The value of a row is in a slot of the chunk.
LEMMA RowsAreSlots ==
    ASSUME NEW file, NEW group, NEW chunk, Sound(file, group, chunk),
           NEW row \in 0 .. group.num_rows - 1
    PROVE  \E i \in DOMAIN chunk.pages : \E k \in DOMAIN chunk.pages[i].values :
              /\ row = chunk.pages[i].first + k - 1
              /\ ValueAt(chunk, row) = chunk.pages[i].values[k]
<1>1. PICK i \in DOMAIN chunk.pages :
         /\ row \in Rows(chunk.pages[i])
         /\ ValueAt(chunk, row) = chunk.pages[i].values[row - chunk.pages[i].first + 1]
  BY OnePageOfARow
<1> DEFINE values == chunk.pages[i].values
           base == chunk.pages[i].first
<1>2. DOMAIN values = 1 .. Len(values) /\ Len(values) \in Nat
  BY DEF Sound, Paged
<1>3. row \in base .. base + Len(values) - 1
  BY <1>1 DEF Rows
<1>4. base \in Nat
  BY DEF Sound, LaidOut
<1>5. ValueAt(chunk, row) = values[row - base + 1]
  BY <1>1
<1> HIDE DEF values, base
<1>6. row - base + 1 \in DOMAIN values /\ row = base + (row - base + 1) - 1
  BY <1>2, <1>3, <1>4
<1>7. QED
  BY <1>5, <1>6 DEF values, base

(***************************************************************************)
(* The plan covers the answer                                              *)
(***************************************************************************)

\* A span read goes from one offset to another.
LEMMA ReadsAreSpans ==
    ASSUME NEW file, NEW group, NEW chunk, Sound(file, group, chunk), NEW held, NEW rows, NEW useIndex,
           NEW s \in ColumnRead(held, chunk, rows, useIndex)
    PROVE  s.start \in Int /\ s.end \in Int
<1>1. \/ s = chunk.range
      \/ \E i \in DOMAIN chunk.pages : s = chunk.pages[i].span
      \/ s = [start |-> chunk.range.start, end |-> chunk.pages[1].span.start]
  BY DEF ColumnRead
<1>2. chunk.range.start \in Int /\ chunk.range.end \in Int /\ chunk.pages[1].span.start \in Int
  BY DEF Sound, Span, LaidOut
<1>3. \A i \in DOMAIN chunk.pages : chunk.pages[i].span.start \in Int /\ chunk.pages[i].span.end \in Int
  BY DEF Sound, Span
<1>4. QED
  BY <1>1, <1>2, <1>3

\* The offsets of a span are in another's when it is inside the other.
LEMMA InsideBySpan ==
    ASSUME NEW part \in Span, NEW s, s.start \in Int, s.end \in Int,
           Offsets(part) # {}, Offsets(part) \subseteq Offsets(s)
    PROVE  s.start <= part.start /\ part.end <= s.end
<1>1. part.start \in Nat /\ part.end \in Nat
  BY DEF Span
<1>2. part.start <= part.end - 1
  BY <1>1 DEF Offsets
<1>3. part.start \in Offsets(part) /\ part.end - 1 \in Offsets(part)
  BY <1>1, <1>2 DEF Offsets
<1>4. part.start \in s.start .. s.end - 1 /\ part.end - 1 \in s.start .. s.end - 1
  BY <1>3 DEF Offsets
<1>5. QED
  BY <1>1, <1>4

\* A plan that skips a row group keeps none of its rows, and one that does not keeps only them.
LEMMA PlansKeepRowsOfTheGroup ==
    ASSUME NEW file, NEW g, NEW held, NEW p, NEW touched, NEW use,
           LaidOut(file.groups[g], file.groups[g].columns[p.column])
    PROVE  LET plan == GroupPlan(file, g, held, p, touched, use)
           IN  /\ plan.skipped => plan.rows = {}
               /\ plan.rows \subseteq 0 .. file.groups[g].num_rows - 1
<1> DEFINE plan == GroupPlan(file, g, held, p, touched, use)
           chunk == file.groups[g].columns[p.column]
           all == 0 .. file.groups[g].num_rows - 1
<1>1. \A S \in SUBSET DOMAIN chunk.pages : UNION {Rows(chunk.pages[i]) : i \in S} \subseteq all
  BY DEF LaidOut
<1>2. PICK unskipped \in SUBSET DOMAIN chunk.pages :
         plan.rows \in {{}, all, UNION {Rows(chunk.pages[i]) : i \in unskipped}}
  <2>1. {i \in DOMAIN chunk.pages : ~PageSkip(file, chunk, i, p)} \in SUBSET DOMAIN chunk.pages
    OBVIOUS
  <2>2. QED
    BY <2>1 DEF GroupPlan
<1>3. plan.skipped => plan.rows = {}
  BY DEF GroupPlan
<1> HIDE DEF plan, all
<1>4. plan.rows \subseteq all
  BY <1>1, <1>2
<1>5. QED
  BY <1>3, <1>4 DEF plan, all

\* Every span a plan reads is one of a column read.
LEMMA PlansReadColumns ==
    ASSUME NEW file, NEW g, NEW held, NEW p, NEW touched, NEW use,
           NEW s \in GroupPlan(file, g, held, p, touched, use).reads
    PROVE  \E c \in touched : \E rows, useIndex : s \in ColumnRead(held, file.groups[g].columns[c], rows, useIndex)
<1> DEFINE chunk == file.groups[g].columns[p.column]
           byStats == use.statistics /\ StatisticsSkip(file, chunk, p)
           filter == use.bloom /\ ~byStats /\ p.op = "=" /\ chunk.bloom.kind # "none"
           byBloom == filter /\ BloomSkip(chunk, p)
           pages == use.page_index /\ ~byStats /\ ~byBloom
           indexed == pages /\ chunk.column_index.span # Absent /\ chunk.offset_index # Absent
           unskipped == {i \in DOMAIN chunk.pages : ~PageSkip(file, chunk, i, p)}
           kept == IF indexed THEN UNION {Rows(chunk.pages[i]) : i \in unskipped}
                   ELSE 0 .. file.groups[g].num_rows - 1
           skipped == byStats \/ byBloom \/ (indexed /\ kept = {})
<1>1. GroupPlan(file, g, held, p, touched, use).reads =
         IF skipped THEN {} ELSE UNION {ColumnRead(held, file.groups[g].columns[c], kept, pages) : c \in touched}
  BY DEF GroupPlan
<1> HIDE DEF skipped, kept, pages
<1>2. s \in UNION {ColumnRead(held, file.groups[g].columns[c], kept, pages) : c \in touched}
  BY <1>1
<1>3. QED
  BY <1>2

\* Reading everything covers every answer.
LEMMA ReadingAllCovers ==
    ASSUME Trusted, Called, query.op = "all"
    PROVE  Covers(Kept)
<1>1. /\ DOMAIN Kept = DOMAIN File.groups
      /\ \A g \in DOMAIN File.groups :
            /\ Kept[g].rows = 0 .. File.groups[g].num_rows - 1
            /\ Kept[g].spans = {File.groups[g].columns[c].range : c \in Touched}
  BY DEF Kept
<1>2. ASSUME NEW g \in DOMAIN File.groups, NEW c \in Touched,
             NEW i \in DOMAIN File.groups[g].columns[c].pages
      PROVE  LET chunk == File.groups[g].columns[c] IN
             /\ chunk.range \in Kept[g].spans
             /\ chunk.range.start <= chunk.pages[i].span.start
             /\ chunk.pages[i].span.end <= chunk.range.end
  <2> DEFINE chunk == File.groups[g].columns[c]
  <2>1. Sound(File, File.groups[g], chunk)
    BY TouchedChunksAreSound
  <2>2. chunk.pages[i].span \in Span /\ Offsets(chunk.pages[i].span) # {}
    BY <2>1 DEF Sound
  <2>3. Offsets(chunk.pages[i].span) \subseteq Offsets(chunk.range)
    BY <2>1 DEF Sound, LaidOut
  <2>4. chunk.range.start \in Int /\ chunk.range.end \in Int
    <3>1. chunk.range \in Span
      BY <2>1 DEF Sound
    <3> HIDE DEF chunk
    <3>2. QED
      BY <3>1 DEF Span
  <2>5. chunk.range \in Kept[g].spans
    BY <1>1
  <2>6. QED
    BY <2>2, <2>3, <2>4, <2>5, InsideBySpan
<1>3. QED
  BY <1>1, <1>2 DEF Covers

\* So does what the plan of a condition keeps.
LEMMA PlansCover ==
    ASSUME Trusted, Called, query.op # "all"
    PROVE  Covers(Kept)
<1> DEFINE plan(g) == GroupPlan(File, g, have, query, Touched, Use)
           chunk(g) == File.groups[g].columns[query.column]
<1>1. /\ DOMAIN Kept = {g \in DOMAIN File.groups : ~plan(g).skipped}
      /\ \A g \in DOMAIN Kept : Kept[g].rows = plan(g).rows /\ Kept[g].spans = plan(g).reads
  BY DEF Kept, Plan
<1>2. query.column \in Touched /\ query.op \in Ops
  BY DEF Touched, Trusted, QueriesOfFiles, Called
<1>3. ASSUME NEW g \in DOMAIN File.groups
      PROVE  Sound(File, File.groups[g], chunk(g))
  BY <1>2, TouchedChunksAreSound
<1>4. ASSUME NEW g \in DOMAIN File.groups
      PROVE  /\ plan(g).skipped => plan(g).rows = {}
             /\ plan(g).rows \subseteq 0 .. File.groups[g].num_rows - 1
  BY <1>3, PlansKeepRowsOfTheGroup DEF Sound
<1>5. ASSUME NEW g \in DOMAIN File.groups, NEW row \in 0 .. File.groups[g].num_rows - 1, InAnswer(g, row)
      PROVE  row \in plan(g).rows
  <2>1. Sound(File, File.groups[g], chunk(g))
    BY <1>3
  <2>2. RowMatches(query, ValueAt(chunk(g), row))
    BY <1>5 DEF InAnswer
  <2> DEFINE group == File.groups[g]
             filtered == chunk(g)
  <2>3. PICK i \in DOMAIN chunk(g).pages : \E k \in DOMAIN chunk(g).pages[i].values :
           /\ row = chunk(g).pages[i].first + k - 1
           /\ ValueAt(chunk(g), row) = chunk(g).pages[i].values[k]
    <3>1. Sound(File, group, filtered) /\ row \in 0 .. group.num_rows - 1
      BY <2>1
    <3> HIDE DEF group, filtered
    <3>2. \E i \in DOMAIN filtered.pages : \E k \in DOMAIN filtered.pages[i].values :
             /\ row = filtered.pages[i].first + k - 1
             /\ ValueAt(filtered, row) = filtered.pages[i].values[k]
      BY <3>1, RowsAreSlots
    <3>3. QED
      BY <3>2 DEF filtered
  <2>4. PICK k \in DOMAIN chunk(g).pages[i].values :
           /\ row = chunk(g).pages[i].first + k - 1
           /\ ValueAt(chunk(g), row) = chunk(g).pages[i].values[k]
    BY <2>3
  <2>5. Use.bloom => \A x, y \in DOMAIN Place : Place[x] = Place[y] => x = y
    BY DEF Use, Trusted, Called
  <2>6. /\ IsFiniteSet(DOMAIN chunk(g).pages)
        /\ \A j \in DOMAIN chunk(g).pages :
              chunk(g).pages[j].values \in Seq({SlotValue(chunk(g), s) : s \in Slots(chunk(g))})
        /\ HonestChunk(File, chunk(g)) /\ LaidOut(File.groups[g], chunk(g))
    BY <2>1 DEF Sound, Paged
  <2>7. RowMatches(query, chunk(g).pages[i].values[k])
    BY <2>2, <2>4
  <2>8. Ordered
    BY DEF Trusted
  <2> HIDE DEF plan
  <2>9. chunk(g).pages[i].first + k - 1 \in GroupPlan(File, g, have, query, Touched, Use).rows
    BY <1>2, <2>5, <2>6, <2>7, <2>8, EveryMatchIsKept
  <2>10. QED
    BY <2>4, <2>9 DEF plan
<1>6. ASSUME NEW g \in DOMAIN File.groups, NEW c \in Touched,
             NEW i \in DOMAIN File.groups[g].columns[c].pages,
             Rows(File.groups[g].columns[c].pages[i]) \cap plan(g).rows # {}
      PROVE  LET page == File.groups[g].columns[c].pages[i] IN
             \E s \in plan(g).reads : s.start <= page.span.start /\ page.span.end <= s.end
  <2> DEFINE read == File.groups[g].columns[c]
             part == read.pages[i].span
  <2>1. Sound(File, File.groups[g], read)
    BY TouchedChunksAreSound
  <2>2. part \in Span /\ Offsets(part) # {} /\ LaidOut(File.groups[g], read)
    BY <2>1 DEF Sound
  <2>3. PICK s \in plan(g).reads : Offsets(part) \subseteq Offsets(s)
    BY <1>6, <2>2, WhatIsKeptIsRead
  <2>4. s.start \in Int /\ s.end \in Int
    <3>1. PICK d \in Touched : \E rows, useIndex :
             s \in ColumnRead(have, File.groups[g].columns[d], rows, useIndex)
      BY PlansReadColumns
    <3>2. Sound(File, File.groups[g], File.groups[g].columns[d])
      BY TouchedChunksAreSound
    <3>3. QED
      BY <3>1, <3>2, ReadsAreSpans
  <2>5. s.start <= part.start /\ part.end <= s.end
    BY <2>2, <2>3, <2>4, InsideBySpan
  <2>6. QED
    BY <2>5
<1> HIDE DEF plan
<1>7. \A g \in DOMAIN Kept : g \in DOMAIN File.groups
  BY <1>1
<1>8. ASSUME NEW g \in DOMAIN File.groups, NEW row \in 0 .. File.groups[g].num_rows - 1, InAnswer(g, row)
      PROVE  g \in DOMAIN Kept /\ row \in Kept[g].rows
  BY <1>1, <1>4, <1>5, <1>8
<1>9. QED
  BY <1>1, <1>4, <1>6, <1>7, <1>8 DEF Covers

(***************************************************************************)
(* A covering plan gives the answer                                        *)
(***************************************************************************)

\* Of a row that is kept, every column touched has its page decoded.
LEMMA KeptRowsAreDecoded ==
    ASSUME Covers(groups), NEW g \in DOMAIN groups, NEW row \in groups[g].rows, NEW c \in Touched,
           NEW i \in DOMAIN File.groups[g].columns[c].pages,
           row \in Rows(File.groups[g].columns[c].pages[i])
    PROVE  i \in Decoded(File.groups[g].columns[c], groups[g].spans)
<1> DEFINE chunk == File.groups[g].columns[c]
           spans == groups[g].spans
<1>1. \E s \in spans : s.start <= chunk.pages[i].span.start /\ chunk.pages[i].span.end <= s.end
  BY DEF Covers
<1>2. i \in DOMAIN chunk.pages
  OBVIOUS
<1> HIDE DEF chunk, spans
<1>3. i \in Decoded(chunk, spans)
  BY <1>1, <1>2 DEF Decoded
<1>4. QED
  BY <1>3 DEF chunk, spans

\* And shows its value.
LEMMA KeptRowsShowTheirValues ==
    ASSUME Trusted, Called, Covers(groups),
           NEW g \in DOMAIN groups, NEW row \in groups[g].rows, NEW c \in Touched
    PROVE  LET chunk == File.groups[g].columns[c]
           IN  Shown(chunk, groups[g].spans, row) = ValueAt(chunk, row)
<1> DEFINE group == File.groups[g]
           chunk == group.columns[c]
           spans == groups[g].spans
<1>1. g \in DOMAIN File.groups /\ row \in 0 .. group.num_rows - 1
  BY DEF Covers
<1>2. Sound(File, group, chunk)
  BY <1>1, TouchedChunksAreSound
<1>3. \A i \in DOMAIN chunk.pages : row \in Rows(chunk.pages[i]) => i \in Decoded(chunk, spans)
  BY KeptRowsAreDecoded
<1> HIDE DEF group, chunk, spans
<1>4. Shown(chunk, spans, row) = ValueAt(chunk, row)
  BY <1>1, <1>2, <1>3, DecodedRowsShowTheirValues
<1>5. QED
  BY <1>4 DEF group, chunk, spans

LEMMA CoveringPlansAnswer ==
    ASSUME Trusted, Called, Covers(groups)
    PROVE  UNION {GroupRows(g) : g \in DOMAIN groups} = FullRead
<1> DEFINE answer(g, r) == [row    |-> GroupStart(File, g) + r,
                            values |-> [c \in query.columns |-> ValueAt(File.groups[g].columns[c], r)]]
           left(g) == {r \in groups[g].rows : InAnswer(g, r)}
           right(g) == {r \in 0 .. File.groups[g].num_rows - 1 : InAnswer(g, r)}
<1>1. FullRead = UNION {{answer(g, r) : r \in right(g)} : g \in DOMAIN File.groups}
  BY DEF FullRead
<1>2. ASSUME NEW g \in DOMAIN groups
      PROVE  GroupRows(g) = {answer(g, r) : r \in left(g)}
  <2> DEFINE col(c) == File.groups[g].columns[c]
             shown(c, r) == Shown(col(c), groups[g].spans, r)
             keeps(r) == query.op = "all" \/ RowMatches(query, shown(query.column, r))
             shows(r) == [row |-> GroupStart(File, g) + r, values |-> [c \in query.columns |-> shown(c, r)]]
  <2>1. GroupRows(g) = {shows(r) : r \in {r \in groups[g].rows : keeps(r)}}
    BY DEF GroupRows
  <2>2. \A r \in groups[g].rows : \A c \in Touched : shown(c, r) = ValueAt(col(c), r)
    BY KeptRowsShowTheirValues
  <2>3. query.columns \subseteq Touched /\ (query.op # "all" => query.column \in Touched)
    BY DEF Touched
  <2> HIDE DEF shown
  <2>4. ASSUME NEW r \in groups[g].rows
        PROVE  keeps(r) <=> InAnswer(g, r)
    BY <2>2, <2>3 DEF InAnswer
  <2>5. ASSUME NEW r \in groups[g].rows
        PROVE  shows(r) = answer(g, r)
    <3>1. \A c \in query.columns : shown(c, r) = ValueAt(col(c), r)
      BY <2>2, <2>3
    <3>2. QED
      BY <3>1
  <2> HIDE DEF keeps, shows, answer
  <2>6. QED
    BY <2>1, <2>4, <2>5
<1>3. ASSUME NEW g \in DOMAIN groups
      PROVE  g \in DOMAIN File.groups /\ left(g) = right(g)
  <2>1. g \in DOMAIN File.groups /\ groups[g].rows \subseteq 0 .. File.groups[g].num_rows - 1
    BY DEF Covers
  <2>2. \A r \in 0 .. File.groups[g].num_rows - 1 : InAnswer(g, r) => r \in groups[g].rows
    BY <2>1 DEF Covers
  <2>3. QED
    BY <2>1, <2>2
<1>4. ASSUME NEW g \in DOMAIN File.groups, right(g) # {}
      PROVE  g \in DOMAIN groups
  BY <1>4 DEF Covers
<1> HIDE DEF answer, left, right
<1>5. \A g \in DOMAIN groups : GroupRows(g) = {answer(g, r) : r \in right(g)}
  BY <1>2, <1>3
<1>6. UNION {GroupRows(g) : g \in DOMAIN groups} \subseteq FullRead
  BY <1>1, <1>3, <1>5
<1>7. ASSUME NEW x \in FullRead
      PROVE  x \in UNION {GroupRows(g) : g \in DOMAIN groups}
  <2>1. PICK g \in DOMAIN File.groups : x \in {answer(g, r) : r \in right(g)}
    BY <1>1
  <2>2. g \in DOMAIN groups
    BY <1>4, <2>1
  <2>3. QED
    BY <1>5, <2>1, <2>2
<1>8. QED
  BY <1>6, <1>7


(***************************************************************************)
(* A scan asks for what it will look at                                    *)
(***************************************************************************)

\* Where the parts of a chunk are.
LEMMA TouchedChunksAreInFile ==
    ASSUME Trusted, Called, NEW g \in DOMAIN File.groups, NEW c \in Touched
    PROVE  LET chunk == File.groups[g].columns[c]
           IN  /\ {chunk.range, chunk.column_index.span, chunk.offset_index} \subseteq InFile(File.size)
               /\ chunk.bloom.kind \in {"none", "noLength", "span"}
               /\ chunk.bloom.kind = "span" => chunk.bloom.span \in InFile(File.size)
<1>1. c \in DOMAIN File.groups[g].columns
  <2>1. /\ query.columns \subseteq DOMAIN File.groups[g].columns
        /\ query.op # "all" => query.column \in DOMAIN File.groups[g].columns
    BY DEF Trusted, Called, QueriesOfFiles, File
  <2>2. QED
    BY <2>1 DEF Touched
<1>2. QED
  BY <1>1 DEF Trusted, Called, FilesInObjects, File

LEMMA FilesHaveSizes ==
    ASSUME Trusted, Called
    PROVE  /\ key \in DOMAIN ObjectSize /\ key \in Keys
           /\ File.size = ObjectSize[key] /\ File.size \in Nat
           /\ File.footer \in Nat /\ File.footer < File.size
           /\ TailStart \in Nat /\ TailStart < File.size
<1>1. /\ key \in DOMAIN ObjectSize /\ File.size = ObjectSize[key]
      /\ File.footer \in Nat /\ File.footer < File.size
  BY DEF Trusted, Called, FilesInObjects, File
<1>2. ObjectSize[key] \in Nat /\ key \in Keys
  BY <1>1, StoreAssumption
<1>3. strategy.prefetch \in Nat
  BY DEF Trusted, Called, QueriesOfFiles
<1> DEFINE want == IF strategy.prefetch > 8 THEN strategy.prefetch ELSE 8
<1>4. want \in Nat /\ want >= 8
  BY <1>3
<1>5. TailStart = IF File.size > want THEN File.size - want ELSE 0
  BY DEF TailStart
<1> HIDE DEF want
<1>6. TailStart \in Nat /\ TailStart < File.size
  BY <1>1, <1>2, <1>4, <1>5
<1>7. QED
  BY <1>1, <1>2, <1>6

LEMMA GapIsNumber ==
    ASSUME Trusted, Called
    PROVE  strategy.coalesce_gap \in Int /\ -1 <= strategy.coalesce_gap
<1>1. strategy.coalesce_gap \in Nat \cup {-1}
  BY DEF Called, Trusted, QueriesOfFiles
<1>2. \A gap \in Nat \cup {-1} : gap \in Int /\ -1 <= gap
  OBVIOUS
<1>3. QED
  BY <1>1, <1>2

LEMMA IndexesAreInFile ==
    ASSUME Trusted, Called, query.op # "all"
    PROVE  IndexesWanted \subseteq InFile(File.size)
<1>1. query.column \in Touched
  BY DEF Touched
<1>2. ASSUME NEW g \in DOMAIN File.groups, NEW s \in GroupIndexes(File.groups[g])
      PROVE  s \in InFile(File.size)
  <2> DEFINE chunk == File.groups[g].columns[query.column]
  <2>1. \/ chunk.bloom.kind = "span" /\ s = chunk.bloom.span
        \/ s = chunk.column_index.span
        \/ \E c \in Touched : s = File.groups[g].columns[c].offset_index
    BY <1>2 DEF GroupIndexes
  <2>2. QED
    BY <1>1, <2>1, TouchedChunksAreInFile
<1>3. QED
  BY <1>2 DEF IndexesWanted

\* The indexes sought are those a plan consults.
LEMMA PlansAreReadable ==
    ASSUME Trusted, Called, query.op # "all", Together(IndexesWanted) \subseteq have,
           NEW g \in DOMAIN File.groups
    PROVE  GroupPlan(File, g, have, query, Touched, Use).readable
<1> DEFINE group == File.groups[g]
           chunk == group.columns[query.column]
           byStats == Use.statistics /\ StatisticsSkip(File, chunk, query)
           filter == Use.bloom /\ ~byStats /\ query.op = "=" /\ chunk.bloom.kind # "none"
           byBloom == filter /\ BloomSkip(chunk, query)
           pages == Use.page_index /\ ~byStats /\ ~byBloom
<1>1. query.column \in Touched
  BY DEF Touched
<1>2. ASSUME NEW s \in GroupIndexes(group) \cup {Absent}
      PROVE  Holds(have, s)
  <2>1. CASE s = Absent
    <3>1. Offsets(Absent) = {}
      BY DEF Offsets, Absent
    <3>2. QED
      BY <2>1, <3>1 DEF Holds
  <2>2. CASE s # Absent
    <3>1. s \in GroupIndexes(group)
      BY <2>2
    <3>2. s \in UNION {GroupIndexes(File.groups[h]) : h \in DOMAIN File.groups}
      BY <3>1, Zenon
    <3>3. s \in IndexesWanted
      BY <2>2, <3>2 DEF IndexesWanted
    <3>4. QED
      BY <3>3 DEF Holds, Together
  <2>3. QED
    BY <2>1, <2>2
<1>3. /\ Use.statistics <=> strategy.statistics
      /\ Use.bloom <=> strategy.bloom /\ \A h \in DOMAIN File.groups :
                           File.groups[h].columns[query.column].bloom.kind # "noLength"
      /\ Use.page_index <=> strategy.page_index /\ ~strategy.whole_chunks
  BY DEF Use
<1>4. chunk.bloom.kind \in {"none", "noLength", "span"}
  BY <1>1, TouchedChunksAreInFile
<1>5. ~byStats => GroupIndexes(group) =
         (IF strategy.bloom /\ query.op = "=" /\ chunk.bloom.kind = "span"
          THEN {chunk.bloom.span} ELSE {})
         \cup
         (IF strategy.page_index /\ ~strategy.whole_chunks
          THEN {chunk.column_index.span} \cup {group.columns[c].offset_index : c \in Touched}
          ELSE {})
  BY <1>3 DEF GroupIndexes
<1>6. filter => Holds(have, chunk.bloom.span)
  <2>1. filter => chunk.bloom.kind = "span"
    BY <1>3, <1>4
  <2>2. filter => chunk.bloom.span \in GroupIndexes(group)
    BY <1>3, <1>5, <2>1
  <2>3. QED
    BY <1>2, <2>2
<1>7. pages => Holds(have, chunk.column_index.span) /\ Holds(have, chunk.offset_index)
  <2>1. pages => chunk.column_index.span \in GroupIndexes(group) /\ chunk.offset_index \in GroupIndexes(group)
    BY <1>1, <1>3, <1>5
  <2>2. QED
    BY <1>2, <2>1
<1>8. GroupPlan(File, g, have, query, Touched, Use).readable =
        (/\ filter => Holds(have, chunk.bloom.span)
         /\ pages => /\ Holds(have, chunk.column_index.span)
                     /\ Holds(have, chunk.offset_index))
  BY DEF GroupPlan
<1>9. QED
  BY <1>6, <1>7, <1>8

\* The spans read of a column are in its file.
LEMMA ReadsAreInFile ==
    ASSUME NEW n \in Nat, NEW file, NEW group, NEW chunk, Sound(file, group, chunk),
           chunk.range \in InFile(n), NEW held, NEW rows, NEW useIndex,
           NEW s \in ColumnRead(held, chunk, rows, useIndex)
    PROVE  s \in InFile(n)
<1> DEFINE first == chunk.pages[1].span.start
<1>1. \/ s = chunk.range
      \/ \E i \in DOMAIN chunk.pages : s = chunk.pages[i].span
      \/ s = Dictionary(chunk) /\ first > chunk.range.start
  BY DEF ColumnRead, Dictionary
<1>2. /\ chunk.range.start \in Nat /\ chunk.range.end \in Nat /\ chunk.range.end <= n /\ first \in Nat
  BY DEF Sound, LaidOut, InFile, Span
<1>3. ASSUME NEW part \in Span, Offsets(part) # {}, Offsets(part) \subseteq Offsets(chunk.range)
      PROVE  part \in InFile(n)
  <2>1. part.end <= chunk.range.end
    BY <1>2, <1>3, InsideBySpan
  <2>2. part.end \in Nat
    BY SpansAreTheirEnds
  <2>3. QED
    BY <1>2, <2>1, <2>2 DEF InFile
<1>4. ASSUME NEW i \in DOMAIN chunk.pages
      PROVE  chunk.pages[i].span \in InFile(n)
  BY <1>3 DEF Sound, LaidOut
<1>5. first > chunk.range.start => Dictionary(chunk) \in InFile(n)
  <2> SUFFICES ASSUME first > chunk.range.start
               PROVE  Dictionary(chunk) \in InFile(n)
    OBVIOUS
  <2>1. Dictionary(chunk) = SpanOf(chunk.range.start, first)
    BY DEF Dictionary, SpanOf
  <2> HIDE DEF first
  <2>2. Dictionary(chunk) \in Span /\ Offsets(Dictionary(chunk)) = chunk.range.start .. first - 1
    BY <1>2, <2>1 DEF SpanOf, Span, Offsets
  <2>3. Offsets(Dictionary(chunk)) # {}
    BY <1>2, <2>2
  <2>4. Offsets(Dictionary(chunk)) \subseteq Offsets(chunk.range)
    BY DEF Sound, LaidOut
  <2>5. QED
    BY <1>3, <2>2, <2>3, <2>4
<1>6. QED
  BY <1>1, <1>4, <1>5

\* Reading everything reads what is decoded.
LEMMA ReadingAllReads ==
    ASSUME Trusted, Called, query.op = "all"
    PROVE  Reads(Kept)
<1>1. /\ DOMAIN Kept = DOMAIN File.groups
      /\ \A g \in DOMAIN File.groups :
            Kept[g].spans = {File.groups[g].columns[c].range : c \in Touched}
  BY DEF Kept
<1>2. ASSUME NEW g \in DOMAIN File.groups, NEW c \in Touched
      PROVE  LET chunk == File.groups[g].columns[c] IN
             /\ chunk.range \in InFile(File.size)
             /\ Offsets(Dictionary(chunk)) \subseteq Offsets(chunk.range)
  BY TouchedChunksAreSound, TouchedChunksAreInFile DEF Sound, LaidOut
<1>3. ASSUME NEW g \in DOMAIN Kept
      PROVE  /\ Kept[g].spans \subseteq InFile(File.size)
             /\ \A c \in Touched : LET chunk == File.groups[g].columns[c] IN
                   /\ chunk.range \in Kept[g].spans
                   /\ Offsets(Dictionary(chunk)) \subseteq Offsets(chunk.range)
  <2>1. g \in DOMAIN File.groups /\ Kept[g].spans = {File.groups[g].columns[c].range : c \in Touched}
    BY <1>1
  <2>2. \A c \in Touched : LET chunk == File.groups[g].columns[c] IN
           /\ chunk.range \in InFile(File.size)
           /\ Offsets(Dictionary(chunk)) \subseteq Offsets(chunk.range)
    BY <1>2, <2>1
  <2>3. QED
    BY <2>1, <2>2
<1>4. QED
  BY <1>3 DEF Reads

\* A plan that does not skip a row group keeps a row, and reads every column touched for its rows.
LEMMA UnskippedPlans ==
    ASSUME NEW file, NEW g, NEW held, NEW p, NEW touched, NEW use,
           ~GroupPlan(file, g, held, p, touched, use).skipped, 0 .. file.groups[g].num_rows - 1 # {}
    PROVE  LET plan == GroupPlan(file, g, held, p, touched, use)
           IN  /\ plan.rows # {}
               /\ \E useIndex : /\ useIndex <=> use.page_index
                                /\ plan.reads = UNION {ColumnRead(held, file.groups[g].columns[c], plan.rows, useIndex) :
                                                          c \in touched}
<1> DEFINE plan == GroupPlan(file, g, held, p, touched, use)
           chunk == file.groups[g].columns[p.column]
           byStats == use.statistics /\ StatisticsSkip(file, chunk, p)
           filter == use.bloom /\ ~byStats /\ p.op = "=" /\ chunk.bloom.kind # "none"
           byBloom == filter /\ BloomSkip(chunk, p)
           pages == use.page_index /\ ~byStats /\ ~byBloom
           indexed == pages /\ chunk.column_index.span # Absent /\ chunk.offset_index # Absent
           unskipped == {i \in DOMAIN chunk.pages : ~PageSkip(file, chunk, i, p)}
           kept == IF indexed THEN UNION {Rows(chunk.pages[i]) : i \in unskipped}
                   ELSE 0 .. file.groups[g].num_rows - 1
           skipped == byStats \/ byBloom \/ (indexed /\ kept = {})
<1>1. /\ plan.skipped = skipped
      /\ plan.rows = IF skipped THEN {} ELSE kept
      /\ plan.reads = IF skipped THEN {}
                      ELSE UNION {ColumnRead(held, file.groups[g].columns[c], kept, pages) : c \in touched}
  BY DEF GroupPlan
<1>2. ~plan.skipped
  OBVIOUS
<1> HIDE DEF plan
<1>3. ~skipped
  BY <1>1, <1>2
<1>4. kept # {} /\ (pages <=> use.page_index)
  <2> HIDE DEF unskipped
  <2>1. ~byStats /\ ~byBloom /\ ~(indexed /\ kept = {})
    BY <1>3
  <2> HIDE DEF byStats, byBloom
  <2>2. QED
    BY <2>1
<1> HIDE DEF skipped, kept, pages
<1>5. plan.rows # {} /\ plan.reads = UNION {ColumnRead(held, file.groups[g].columns[c], plan.rows, pages) : c \in touched}
  BY <1>1, <1>3, <1>4
<1>6. QED
  BY <1>4, <1>5 DEF plan

LEMMA PlansRead ==
    ASSUME Trusted, Called, query.op # "all"
    PROVE  Reads(Kept)
<1> DEFINE plan(g) == GroupPlan(File, g, have, query, Touched, Use)
<1>1. /\ DOMAIN Kept = {g \in DOMAIN File.groups : ~plan(g).skipped}
      /\ \A g \in DOMAIN Kept : Kept[g].spans = plan(g).reads
  BY DEF Kept, Plan
<1>2. query.column \in Touched
  BY DEF Touched
<1>3. ASSUME NEW g \in DOMAIN File.groups
      PROVE  plan(g).reads \subseteq InFile(File.size)
  <2> SUFFICES ASSUME NEW s \in plan(g).reads
               PROVE  s \in InFile(File.size)
    OBVIOUS
  <2>1. PICK c \in Touched : \E rows, useIndex : s \in ColumnRead(have, File.groups[g].columns[c], rows, useIndex)
    BY PlansReadColumns
  <2>2. Sound(File, File.groups[g], File.groups[g].columns[c])
    BY TouchedChunksAreSound
  <2>3. File.groups[g].columns[c].range \in InFile(File.size) /\ File.size \in Nat
    BY TouchedChunksAreInFile, FilesHaveSizes
  <2>4. QED
    BY <2>1, <2>2, <2>3, ReadsAreInFile
<1>4. ASSUME NEW g \in DOMAIN File.groups, ~plan(g).skipped, NEW c \in Touched
      PROVE  LET chunk == File.groups[g].columns[c] IN
             /\ ~ByIndex(chunk) => chunk.range \in plan(g).reads
             /\ \/ Offsets(Dictionary(chunk)) = {}
                \/ \E s \in plan(g).reads : Offsets(Dictionary(chunk)) \subseteq Offsets(s)
  <2> DEFINE chunk == File.groups[g].columns[c]
             rows == plan(g).rows
  <2>1. /\ Sound(File, File.groups[g], chunk)
        /\ LaidOut(File.groups[g], File.groups[g].columns[query.column])
    BY <1>2, TouchedChunksAreSound DEF Sound
  <2>2. File.groups[g].num_rows \in Nat \ {0}
    BY DEF Trusted, Called, FilesInObjects, File
  <2>3. 0 .. File.groups[g].num_rows - 1 # {}
    BY <2>2
  <2>4. /\ rows # {}
        /\ \E useIndex : /\ useIndex <=> Use.page_index
                         /\ plan(g).reads = UNION {ColumnRead(have, File.groups[g].columns[d], rows, useIndex) :
                                                      d \in Touched}
    BY <1>4, <2>3, UnskippedPlans
  <2>5. rows \subseteq 0 .. File.groups[g].num_rows - 1
    BY <2>1, PlansKeepRowsOfTheGroup
  <2>6. PICK row \in rows : row \in 0 .. File.groups[g].num_rows - 1
    BY <2>4, <2>5
  <2>7. PICK i \in DOMAIN chunk.pages : row \in Rows(chunk.pages[i])
    BY <2>1, <2>6, OnePageOfARow
  <2>8. Offsets(Dictionary(chunk)) # {} => \E s \in plan(g).reads : Offsets(Dictionary(chunk)) \subseteq Offsets(s)
    <3> SUFFICES ASSUME Offsets(Dictionary(chunk)) # {}
                 PROVE  \E s \in plan(g).reads : Offsets(Dictionary(chunk)) \subseteq Offsets(s)
      OBVIOUS
    <3>1. Rows(chunk.pages[i]) \cap rows # {} /\ LaidOut(File.groups[g], chunk)
      BY <2>1, <2>6, <2>7 DEF Sound
    <3>2. QED
      BY <3>1, WhatIsKeptIsRead
  <2>9. ASSUME ~ByIndex(chunk)
        PROVE  chunk.range \in plan(g).reads
    <3>1. PICK useIndex :
             /\ useIndex <=> Use.page_index
             /\ plan(g).reads = UNION {ColumnRead(have, File.groups[g].columns[d], rows, useIndex) : d \in Touched}
      BY <2>4
    <3> HIDE DEF plan
    <3>2. ColumnRead(have, chunk, rows, useIndex) \subseteq plan(g).reads
      BY <3>1
    <3>3. ~useIndex \/ chunk.offset_index = Absent \/ ~Holds(have, chunk.offset_index)
      BY <2>9, <3>1 DEF ByIndex, Use
    <3>4. ColumnRead(have, chunk, rows, useIndex) = {chunk.range}
      BY <3>3 DEF ColumnRead
    <3>5. QED
      BY <3>2, <3>4
  <2>10. QED
    BY <2>8, <2>9
<1> HIDE DEF plan
<1>5. \A g \in DOMAIN Kept : g \in DOMAIN File.groups /\ ~plan(g).skipped
  BY <1>1
<1>6. QED
  BY <1>1, <1>3, <1>4, <1>5 DEF Reads

\* Once the data is held, every row group kept decodes.
LEMMA KeptGroupsDecode ==
    ASSUME Trusted, Called, Covers(groups), Reads(groups), Together(DataWanted) \subseteq have,
           NEW g \in DOMAIN groups
    PROVE  Decodable(g)
<1> DEFINE spans == groups[g].spans
           col(c) == File.groups[g].columns[c]
<1>1. g \in DOMAIN File.groups
  BY DEF Covers
<1>2. ASSUME NEW s \in spans
      PROVE  s \in Span /\ Offsets(s) \subseteq have
  BY DEF Reads, InFile, Together, DataWanted
<1>3. ASSUME NEW c \in Touched
      PROVE  Looked(col(c), spans) \subseteq have
  <2> DEFINE chunk == col(c)
  <2>1. Sound(File, File.groups[g], chunk)
    BY <1>1, TouchedChunksAreSound
  <2>2. Offsets(Dictionary(chunk)) \subseteq have
    BY <1>2 DEF Reads
  <2>3. Offsets(Dictionary(chunk)) = chunk.range.start .. chunk.pages[1].span.start - 1
    BY DEF Offsets, Dictionary
  <2>4. ~ByIndex(chunk) => Offsets(chunk.range) \subseteq have
    BY <1>2 DEF Reads
  <2>5. \A i \in DOMAIN chunk.pages : chunk.pages[i].span \in Span
    BY <2>1 DEF Sound
  <2> HIDE DEF chunk, spans
  <2>6. ASSUME ByIndex(chunk), NEW i \in Decoded(chunk, spans)
        PROVE  Offsets(chunk.pages[i].span) \subseteq have
    <3>1. PICK s \in spans : s.start <= chunk.pages[i].span.start /\ chunk.pages[i].span.end <= s.end
      BY <2>6 DEF Decoded
    <3>2. s \in Span /\ chunk.pages[i].span \in Span
      BY <1>2, <2>5 DEF Decoded
    <3> DEFINE part == chunk.pages[i].span
    <3>3. /\ s.start \in Nat /\ s.end \in Nat /\ part.start \in Nat /\ part.end \in Nat
          /\ s.start <= part.start /\ part.end <= s.end
      BY <3>1, <3>2, SpansAreTheirEnds
    <3>4. part \in Span
      BY <3>2
    <3> HIDE DEF part
    <3>5. \A x \in Offsets(part) : x \in Nat /\ s.start <= x /\ x < s.end
      <4>1. \A x \in Offsets(part) : x \in Nat /\ part.start <= x /\ x < part.end
        BY <3>4, OffsetsOfSpans
      <4>2. QED
        BY <3>3, <4>1
    <3>6. Offsets(part) \subseteq Offsets(s)
      BY <3>2, <3>5, OffsetsOfSpans
    <3>7. QED
      BY <1>2, <3>6 DEF part
  <2>7. Looked(chunk, spans) \subseteq have
    <3>1. CASE ByIndex(chunk)
      <4> DEFINE pages == UNION {Offsets(chunk.pages[i].span) : i \in Decoded(chunk, spans)}
                 dictionary == IF chunk.dictionary THEN chunk.range.start .. chunk.pages[1].span.start - 1 ELSE {}
      <4>1. pages \subseteq have
        BY <2>6, <3>1, Zenon
      <4>2. dictionary \subseteq have
        BY <2>2, <2>3
      <4>3. Looked(chunk, spans) = pages \cup dictionary
        BY <3>1 DEF Looked
      <4>4. QED
        BY <4>1, <4>2, <4>3
    <3>2. CASE ~ByIndex(chunk)
      BY <2>4, <3>2 DEF Looked
    <3>3. QED
      BY <3>1, <3>2
  <2>8. QED
    BY <2>7 DEF chunk
<1>4. ASSUME query.op # "all", NEW row \in groups[g].rows
      PROVE  \E i \in Decoded(col(query.column), spans) : row \in Rows(col(query.column).pages[i])
  <2>1. query.column \in Touched
    BY <1>4 DEF Touched
  <2>2. Sound(File, File.groups[g], col(query.column)) /\ row \in 0 .. File.groups[g].num_rows - 1
    BY <1>1, <2>1, TouchedChunksAreSound DEF Covers
  <2>3. PICK i \in DOMAIN col(query.column).pages : row \in Rows(col(query.column).pages[i])
    BY <2>2, OnePageOfARow
  <2>4. i \in Decoded(col(query.column), spans)
    BY <2>1, <2>3, KeptRowsAreDecoded
  <2>5. QED
    BY <2>3, <2>4
<1>5. QED
  BY <1>3, <1>4 DEF Decodable

(***************************************************************************)
(* A GET that is recorded                                                  *)
(***************************************************************************)

\* The store returns what it is asked for, when there is such a part of the file.
LEMMA GetsReturnWhatTheyAsk ==
    ASSUME Trusted, Called, NEW s \in InFile(File.size), Offsets(s) # {}
    PROVE  MemoryGet(key, Bounded(s)) = [status |-> 206, span |-> s]
<1>1. s \in Span /\ s.end <= ObjectSize[key] /\ key \in DOMAIN ObjectSize /\ ObjectSize[key] \in Nat
  BY FilesHaveSizes DEF InFile
<1>2. s.start \in Nat /\ s.end \in Nat /\ s = SpanOf(s.start, s.end)
  BY <1>1, SpansAreTheirEnds
<1>3. s.start < s.end
  BY <1>1, <1>2, OffsetsOfSpans
<1>4. Bounded(s).kind = "bounded" /\ Bounded(s).span = s
  BY DEF Bounded
<1>5. ~Unsatisfiable(ObjectSize[key], Bounded(s))
  BY <1>1, <1>2, <1>3, <1>4 DEF Unsatisfiable
<1>6. Served(ObjectSize[key], Bounded(s)) = s
  <2>1. (IF s.end < ObjectSize[key] THEN s.end ELSE ObjectSize[key]) = s.end
    BY <1>1, <1>2
  <2>2. QED
    BY <1>2, <1>4, <2>1 DEF Served
<1>7. QED
  BY <1>1, <1>5, <1>6 DEF MemoryGet

\* The trace holds what is held, and no more of it, if the new part is now held and was not.
LEMMA GetsAreHeld ==
    ASSUME Trusted, Called, StoreIInv, TraceIsHeld, NEW s \in InFile(File.size), Offsets(s) # {},
           Get(key, Bounded(s)), key' = key,
           have \subseteq have', Offsets(s) \subseteq have',
           requests # <<>> => Offsets(s) \cap have = {}
    PROVE  StoreIInv' /\ TraceIsHeld'
<1>1. MemoryGet(key, Bounded(s)) = [status |-> 206, span |-> s]
  BY GetsReturnWhatTheyAsk
<1> DEFINE answer == [status |-> 206, span |-> s]
<1>2. answer \in Answer /\ key \in Keys
  BY FilesHaveSizes DEF Answer, InFile
<1>3. Record("GET", key, answer)
  BY <1>1 DEF Get
<1>4. StoreIInv'
  BY <1>2, <1>3, StoreInvRecord
<1>5. PICK r : r.returned = s /\ requests' = Append(requests, r)
  BY <1>3 DEF Record
<1>6. requests \in Seq(Request) /\ requests' \in Seq(Request)
  BY <1>4 DEF StoreIInv, StoreTypeOK
<1> DEFINE n == Len(requests)
<1>7. /\ n \in Nat /\ DOMAIN requests = 1 .. n /\ DOMAIN requests' = 1 .. n + 1
      /\ \A i \in 1 .. n : requests'[i] = requests[i]
      /\ requests'[n + 1] = r
  BY <1>5, <1>6
<1>8. File' = File
  BY DEF File
<1>9. \A i \in 1 .. n : /\ requests[i].returned \in InFile(File.size)
                        /\ Offsets(requests[i].returned) # {} /\ Offsets(requests[i].returned) \subseteq have
                        /\ \A j \in 1 .. n : i # j => Offsets(requests[i].returned) \cap Offsets(requests[j].returned) = {}
  BY <1>7 DEF TraceIsHeld, Apart
<1>10. \A i \in 1 .. n : Offsets(requests[i].returned) \cap Offsets(s) = {}
  <2>1. n # 0 => requests # <<>>
    BY <1>6
  <2>2. QED
    BY <1>7, <1>9, <2>1
<1> HIDE DEF n
<1>11. \A i \in 1 .. n + 1 : i \in 1 .. n \/ i = n + 1
  BY <1>7
<1>12. \A i \in 1 .. n + 1 : /\ requests'[i].returned \in InFile(File.size)
                             /\ Offsets(requests'[i].returned) # {} /\ Offsets(requests'[i].returned) \subseteq have'
  BY <1>5, <1>7, <1>9, <1>11
<1>13. \A i, j \in 1 .. n + 1 : i # j => Offsets(requests'[i].returned) \cap Offsets(requests'[j].returned) = {}
  BY <1>5, <1>7, <1>9, <1>10, <1>11
<1>14. TraceIsHeld'
  BY <1>7, <1>8, <1>12, <1>13 DEF TraceIsHeld, Apart
<1>15. QED
  BY <1>4, <1>14

\* One request made of those to be made: the rest bring the rest.
LEMMA FirstOfMany ==
    ASSUME NEW S, NEW gets \in Seq(S), gets # <<>>, NEW held, NEW sought,
           \A i \in DOMAIN gets : Offsets(gets[i]) # {} /\ Offsets(gets[i]) \cap held = {},
           Apart(gets),
           sought \subseteq held \cup UNION {Offsets(gets[i]) : i \in DOMAIN gets}
    PROVE  LET rest == Tail(gets)
               now  == held \cup Offsets(Head(gets))
           IN  /\ Head(gets) \in S /\ Offsets(Head(gets)) # {} /\ Offsets(Head(gets)) \cap held = {}
               /\ rest \in Seq(S)
               /\ Len(gets) # 1 => rest # <<>>
               /\ \A i \in DOMAIN rest : Offsets(rest[i]) # {} /\ Offsets(rest[i]) \cap now = {}
               /\ Apart(rest)
               /\ sought \subseteq now \cup UNION {Offsets(rest[i]) : i \in DOMAIN rest}
               /\ Len(gets) = 1 => sought \subseteq now
<1> DEFINE n == Len(gets)
           rest == Tail(gets)
           now == held \cup Offsets(Head(gets))
           O(i) == Offsets(gets[i])
<1>1. /\ n \in Nat /\ n # 0 /\ DOMAIN gets = 1 .. n /\ Head(gets) = gets[1] /\ gets[1] \in S
      /\ rest \in Seq(S) /\ Len(rest) = n - 1 /\ DOMAIN rest = 1 .. n - 1
      /\ \A i \in 1 .. n - 1 : rest[i] = gets[i + 1]
  OBVIOUS
<1>2. now = held \cup O(1)
  BY <1>1
<1>3. \A i \in 1 .. n - 1 : Offsets(rest[i]) = O(i + 1)
  BY <1>1
<1>4. \A i \in 1 .. n : O(i) # {} /\ O(i) \cap held = {}
  BY <1>1
<1>5. \A i, j \in 1 .. n : i # j => O(i) \cap O(j) = {}
  BY <1>1 DEF Apart
<1>6. \A x \in sought : x \in held \/ \E i \in 1 .. n : x \in O(i)
  BY <1>1
<1> HIDE DEF n, rest, now, O
<1>7. \A i \in 1 .. n - 1 : i + 1 \in 1 .. n /\ i + 1 # 1
  BY <1>1
<1>8. \A i \in 1 .. n : i = 1 \/ (i - 1 \in 1 .. n - 1 /\ (i - 1) + 1 = i)
  BY <1>1
<1>9. 1 \in 1 .. n
  BY <1>1
<1>10. \A i \in 1 .. n - 1 : Offsets(rest[i]) # {} /\ Offsets(rest[i]) \cap now = {}
  BY <1>2, <1>3, <1>4, <1>5, <1>7, <1>9
<1>11. \A i, j \in 1 .. n - 1 : i # j => Offsets(rest[i]) \cap Offsets(rest[j]) = {}
  <2> SUFFICES ASSUME NEW i \in 1 .. n - 1, NEW j \in 1 .. n - 1, i # j
               PROVE  O(i + 1) \cap O(j + 1) = {}
    BY <1>3
  <2>1. i + 1 # j + 1
    BY <1>1
  <2>2. QED
    BY <1>5, <1>7, <2>1
<1>12. Apart(rest)
  BY <1>1, <1>11 DEF Apart
<1>13. \A x \in sought : x \in now \/ \E i \in 1 .. n - 1 : x \in Offsets(rest[i])
  BY <1>2, <1>3, <1>6, <1>8
<1>14. sought \subseteq now \cup UNION {Offsets(rest[i]) : i \in DOMAIN rest}
  BY <1>1, <1>13
<1>15. n = 1 => sought \subseteq now
  <2>1. n = 1 => 1 .. n - 1 = {}
    BY <1>1
  <2>2. QED
    BY <1>13, <2>1
<1>16. n # 1 => rest # <<>>
  BY <1>1
<1>17. Offsets(Head(gets)) # {} /\ Offsets(Head(gets)) \cap held = {}
  BY <1>1, <1>4, <1>9 DEF O
<1>18. QED
  BY <1>1, <1>10, <1>12, <1>14, <1>15, <1>16, <1>17 DEF n, rest, now

(***************************************************************************)
(* The steps                                                               *)
(***************************************************************************)

\* No step changes what the scan was called with.
LEMMA TheCallStays ==
    ASSUME [Next]_vars
    PROVE  /\ key' = key /\ strategy' = strategy /\ query' = query
           /\ File' = File /\ Touched' = Touched /\ TailStart' = TailStart
           /\ IndexesWanted' = IndexesWanted /\ FullRead' = FullRead
           /\ \A g, row : InAnswer(g, row)' <=> InAnswer(g, row)
<1>1. key' = key /\ strategy' = strategy /\ query' = query
  BY DEF Next, vars, readerVars, FetchTail, FetchFooter, FetchFooterRest, WantIndexes, Fetch, GetNext,
         MakePlan, WantData, Decode
<1>2. File' = File /\ Touched' = Touched
  BY <1>1 DEF File, Touched
<1>3. TailStart' = TailStart
  BY <1>1, <1>2 DEF TailStart
<1>4. FullRead' = FullRead /\ \A g, row : InAnswer(g, row)' <=> InAnswer(g, row)
  BY <1>1 DEF FullRead, InAnswer, File
<1>5. IndexesWanted' = IndexesWanted
  BY <1>1, <1>2 DEF IndexesWanted, GroupIndexes
<1>6. QED
  BY <1>1, <1>2, <1>3, <1>4, <1>5

\* The plan, once made, covers and reads what it should, and the answer is exact.
LEMMA PlanStep ==
    ASSUME Trusted, ScanIInv, [Next]_vars
    PROVE  PlanCoversTheAnswer' /\ PlanReadsWhatIsDecoded' /\ ScanIsExact'
<1>1. /\ key' = key /\ strategy' = strategy /\ query' = query
      /\ File' = File /\ Touched' = Touched /\ FullRead' = FullRead
      /\ \A g, row : InAnswer(g, row)' <=> InAnswer(g, row)
  BY TheCallStays
<1>2. Called
  BY DEF ScanIInv, Called
<1>3. /\ HasPlan => Covers(groups) /\ Reads(groups)
      /\ (HasPlan' => Covers(groups)' /\ Reads(groups)') => PlanCoversTheAnswer' /\ PlanReadsWhatIsDecoded'
  BY DEF ScanIInv, PlanCoversTheAnswer, PlanReadsWhatIsDecoded
<1>4. ASSUME NEW kept, groups' = kept, Covers(kept), Reads(kept), have \subseteq have'
      PROVE  Covers(groups)' /\ Reads(groups)'
  <2>1. \A chunk : ByIndex(chunk) => ByIndex(chunk)'
    BY <1>1, <1>4 DEF ByIndex, Holds
  <2>2. Covers(groups)'
    BY <1>1, <1>4 DEF Covers
  <2>3. Reads(groups)'
    BY <1>1, <1>4, <2>1 DEF Reads
  <2>4. QED
    BY <2>2, <2>3
<1>5. ScanIsExact
  BY DEF ScanIInv
<1>6. CASE MakePlan
  <2>1. Covers(Kept) /\ Reads(Kept)
    BY <1>2, ReadingAllCovers, PlansCover, ReadingAllReads, PlansRead
  <2>2. (HasPlan' => groups' = Kept) /\ (outcome'.ok => outcome' = outcome) /\ have' = have
    BY <1>6 DEF MakePlan, HasPlan
  <2>3. HasPlan' => Covers(groups)' /\ Reads(groups)'
    BY <1>4, <2>1, <2>2
  <2>4. ScanIsExact'
    BY <1>1, <1>5, <2>2 DEF ScanIsExact
  <2>5. QED
    BY <1>3, <2>3, <2>4
<1>7. CASE Decode
  <2>1. Covers(groups) /\ ~HasPlan'
    BY <1>3, <1>7 DEF Decode, HasPlan
  <2>2. UNION {GroupRows(g) : g \in DOMAIN groups} = FullRead
    BY <1>2, <2>1, CoveringPlansAnswer
  <2>3. outcome'.ok => outcome'.rows = FullRead
    BY <1>7, <2>2 DEF Decode
  <2>4. ScanIsExact'
    BY <1>1, <2>3 DEF ScanIsExact
  <2>5. QED
    BY <1>3, <2>1, <2>4
<1>8. CASE groups' = groups /\ outcome' = outcome /\ (HasPlan' => HasPlan /\ have \subseteq have')
  <2>1. HasPlan' => Covers(groups)' /\ Reads(groups)'
    BY <1>3, <1>4, <1>8
  <2>2. ScanIsExact'
    BY <1>1, <1>5, <1>8 DEF ScanIsExact
  <2>3. QED
    BY <1>3, <2>1, <2>2
<1>9. MakePlan \/ Decode \/ (groups' = groups /\ outcome' = outcome /\ (HasPlan' => HasPlan /\ have \subseteq have'))
  BY DEF Next, vars, readerVars, FetchTail, FetchFooter, FetchFooterRest, WantIndexes, Fetch, GetNext,
         Lack, WantData, HasPlan
<1>10. QED
  BY <1>6, <1>7, <1>8, <1>9

\* The trace stays one of the store's, of bytes held and fetched once.
LEMMA StoreStep ==
    ASSUME Trusted, ScanIInv, [Next]_vars
    PROVE  StoreIInv' /\ TraceIsHeld'
<1>1. key' = key /\ File' = File /\ Called /\ StoreIInv /\ TraceIsHeld
  BY TheCallStays DEF ScanIInv, Called
<1>2. /\ File.size \in Nat /\ File.footer \in Nat /\ File.footer < File.size
      /\ TailStart \in Nat /\ TailStart < File.size
  BY <1>1, FilesHaveSizes
<1>3. ASSUME NEW a \in Nat, NEW b \in Nat, a < b, b <= File.size
      PROVE  SpanOf(a, b) \in InFile(File.size) /\ Offsets(SpanOf(a, b)) = a .. b - 1 /\ a .. b - 1 # {}
  BY <1>3 DEF SpanOf, InFile, Span, Offsets
<1>4. CASE FetchTail
  <2> DEFINE s == SpanOf(TailStart, File.size)
  <2>1. s \in InFile(File.size) /\ Offsets(s) = TailStart .. File.size - 1 /\ Offsets(s) # {}
    <3>1. File.size <= File.size
      BY <1>2
    <3>2. QED
      BY <1>2, <1>3, <3>1
  <2>2. Get(key, Bounded(s)) /\ requests = <<>> /\ have = {} /\ have' = TailStart .. File.size - 1
    BY <1>4 DEF FetchTail, ScanIInv, FooterFirst
  <2> HIDE DEF s
  <2>3. QED
    BY <1>1, <2>1, <2>2, GetsAreHeld
<1>5. CASE FetchFooterRest
  <2> DEFINE s == SpanOf(File.footer, TailStart)
  <2>1. File.footer < TailStart /\ have = TailStart .. File.size - 1
    BY <1>5 DEF FetchFooterRest, ScanIInv, FooterFirst
  <2>2. s \in InFile(File.size) /\ Offsets(s) # {} /\ Offsets(s) = File.footer .. TailStart - 1
    <3>1. TailStart <= File.size
      BY <1>2
    <3>2. QED
      BY <1>2, <1>3, <2>1, <3>1
  <2>3. Get(key, Bounded(s)) /\ have' = have \cup Offsets(s)
    BY <1>5, <2>2 DEF FetchFooterRest
  <2>4. Offsets(s) \cap have = {}
    BY <1>2, <2>1, <2>2
  <2> HIDE DEF s
  <2>5. QED
    BY <1>1, <2>2, <2>3, <2>4, GetsAreHeld
<1>6. ASSUME NEW gets, NEW then, GetNext(gets, then), gets \in {"indexGets", "dataGets"}
      PROVE  StoreIInv' /\ TraceIsHeld'
  <2> DEFINE s == Head(pending)
  <2>1. s \in InFile(File.size) /\ Offsets(s) # {} /\ Offsets(s) \cap have = {}
    <3>1. FetchBrings /\ pc = gets
      BY <1>6 DEF ScanIInv, GetNext
    <3>2. QED
      BY <1>6, <3>1, FirstOfMany DEF FetchBrings
  <2>2. Get(key, Bounded(s)) /\ have' = have \cup Offsets(MemoryGet(key, Bounded(s)).span)
    BY <1>6 DEF GetNext
  <2> HIDE DEF s
  <2>3. MemoryGet(key, Bounded(s)).span = s
    BY <1>1, <2>1, GetsReturnWhatTheyAsk
  <2>4. QED
    BY <1>1, <2>1, <2>2, <2>3, GetsAreHeld
<1>7. CASE UNCHANGED storeVars /\ have' = have
  <2>1. StoreIInv'
    BY <1>1, <1>7, StoreInvStutter DEF storeVars
  <2>2. QED
    BY <1>1, <1>7, <2>1 DEF TraceIsHeld, Apart, storeVars
<1>8. CASE NextPhase /\ have' = have
  <2>1. StoreIInv'
    BY <1>1, <1>8, StoreInvNextPhase
  <2>2. QED
    BY <1>1, <1>8, <2>1 DEF NextPhase, TraceIsHeld, Apart
<1>9. \/ FetchTail \/ FetchFooterRest \/ GetNext("indexGets", "data") \/ GetNext("dataGets", "decode")
      \/ UNCHANGED storeVars /\ have' = have
      \/ NextPhase /\ have' = have
  BY DEF Next, vars, readerVars, FetchFooter, WantIndexes, Fetch, MakePlan, WantData, Decode
<1>10. QED
  BY <1>4, <1>5, <1>6, <1>7, <1>8, <1>9

\* What a fetch brings makes up what it is for.
LEMMA FetchStep ==
    ASSUME Trusted, ScanIInv, [Next]_vars
    PROVE  FooterFirst' /\ FetchLacks' /\ FetchBrings' /\ FetchedIsHeld'
<1>1. /\ key' = key /\ strategy' = strategy /\ query' = query
      /\ File' = File /\ TailStart' = TailStart /\ IndexesWanted' = IndexesWanted
      /\ Called /\ StoreIInv /\ File.size \in Nat
  BY TheCallStays, FilesHaveSizes DEF ScanIInv, Called
<1>2. groups' = groups /\ (HasPlan' <=> HasPlan) => Sought' = Sought
  BY <1>1 DEF Sought, DataWanted
<1>3. CASE FetchTail
  BY <1>1, <1>3 DEF FetchTail, FooterFirst, FetchLacks, FetchBrings, FetchedIsHeld
<1>4. CASE FetchFooter
  <2>1. pc = "footer" /\ have' = have /\ pc' \in {"indexes", "footerRest"}
    BY <1>4 DEF FetchFooter
  <2>2. pc' = "footerRest" => File.footer < TailStart
    BY <1>1, <1>4, FilesHaveSizes DEF FetchFooter
  <2>3. FooterFirst'
    BY <1>1, <2>1, <2>2 DEF FooterFirst, ScanIInv
  <2>4. QED
    BY <2>1, <2>3 DEF FetchLacks, FetchBrings, FetchedIsHeld
<1>5. CASE FetchFooterRest
  BY <1>5 DEF FetchFooterRest, FooterFirst, FetchLacks, FetchBrings, FetchedIsHeld
<1>6. ASSUME NEW spans, NEW fetch, NEW then, Lack(spans, fetch, then), spans \subseteq InFile(File.size),
             UNCHANGED <<have, pending, groups>>, Sought' = spans,
             <<fetch, then>> \in {<<"indexFetch", "data">>, <<"dataFetch", "decode">>}
      PROVE  FooterFirst' /\ FetchLacks' /\ FetchBrings' /\ FetchedIsHeld'
  <2>1. /\ wanted' = UNION {Missing(have, s) : s \in spans}
        /\ pc' = IF wanted' = {} THEN then ELSE fetch
        /\ have' = have
    BY <1>6 DEF Lack
  <2>2. /\ wanted' \subseteq InFile(File.size)
        /\ \A w \in wanted' : Offsets(w) # {} /\ Offsets(w) \cap have = {}
        /\ Together(spans) \subseteq have \cup Together(wanted')
    BY <1>1, <1>6, <2>1, LackOfSpans
  <2>3. CASE wanted' = {}
    <3>1. Together(wanted') = {}
      BY <2>3 DEF Together
    <3>2. Together(Sought') \subseteq have'
      BY <1>6, <2>1, <2>2, <3>1
    <3>3. (Together(Sought))' = Together(Sought')
      BY DEF Together
    <3>4. pc' \in {"data", "decode"}
      BY <1>6, <2>1, <2>3
    <3>5. QED
      BY <3>2, <3>3, <3>4 DEF FooterFirst, FetchLacks, FetchBrings, FetchedIsHeld
  <2>4. CASE wanted' # {}
    <3>1. pc' \in {"indexFetch", "dataFetch"}
      BY <1>6, <2>1, <2>4
    <3>2. FetchLacks'
      BY <1>1, <1>6, <2>1, <2>2, <2>4 DEF FetchLacks, Together
    <3>3. QED
      BY <3>1, <3>2 DEF FooterFirst, FetchBrings, FetchedIsHeld
  <2>5. QED
    BY <2>3, <2>4
<1>7. CASE WantIndexes
  <2>1. pc = "indexes" /\ UNCHANGED <<have, pending, groups>>
    BY <1>7 DEF WantIndexes
  <2>2. CASE query.op = "all"
    <3>1. pc' = "data"
      BY <1>7, <2>2 DEF WantIndexes
    <3>2. Together(Sought)' = {}
      BY <1>1, <2>2, <3>1 DEF Sought, HasPlan, Together
    <3>3. QED
      BY <3>1, <3>2 DEF FooterFirst, FetchLacks, FetchBrings, FetchedIsHeld
  <2>3. CASE query.op # "all"
    <3>1. Lack(IndexesWanted, "indexFetch", "data")
      BY <1>7, <2>3 DEF WantIndexes
    <3>2. Sought' = IndexesWanted
      BY <1>1, <2>3, <3>1 DEF Lack, Sought, HasPlan
    <3>3. IndexesWanted \subseteq InFile(File.size)
      BY <1>1, <2>3, IndexesAreInFile
    <3>4. QED
      BY <1>6, <2>1, <3>1, <3>2, <3>3
  <2>4. QED
    BY <2>2, <2>3
<1>8. CASE WantData
  <2>1. pc = "wantData" /\ UNCHANGED <<have, pending, groups>> /\ Lack(DataWanted, "dataFetch", "decode")
    BY <1>8 DEF WantData
  <2>2. Sought' = DataWanted
    BY <2>1 DEF Lack, Sought, HasPlan, DataWanted
  <2>3. DataWanted \subseteq InFile(File.size)
    BY <2>1 DEF DataWanted, ScanIInv, PlanReadsWhatIsDecoded, HasPlan, Reads
  <2>4. QED
    BY <1>6, <2>1, <2>2, <2>3
<1>9. ASSUME NEW fetch, NEW gets, Fetch(fetch, gets),
             <<fetch, gets>> \in {<<"indexFetch", "indexGets">>, <<"dataFetch", "dataGets">>}
      PROVE  FooterFirst' /\ FetchLacks' /\ FetchBrings' /\ FetchedIsHeld'
  <2>1. pc = fetch /\ pc' = gets /\ pending' = Requests /\ have' = have /\ groups' = groups
    BY <1>9 DEF Fetch
  <2>2. Sought' = Sought
    BY <1>2, <1>9, <2>1 DEF HasPlan
  <2>3. /\ wanted \subseteq InFile(File.size) /\ wanted # {}
        /\ \A w \in wanted : Offsets(w) # {} /\ Offsets(w) \cap have = {}
        /\ Together(Sought) \subseteq have \cup Together(wanted)
    BY <1>9, <2>1 DEF ScanIInv, FetchLacks
  <2>4. strategy.coalesce_gap \in Int /\ -1 <= strategy.coalesce_gap
    BY <1>1, GapIsNumber
  <2>5. /\ Requests \in Seq(InFile(File.size))
        /\ \A i \in DOMAIN Requests : Offsets(Requests[i]) # {} /\ Offsets(Requests[i]) \cap have = {}
        /\ \A i, j \in DOMAIN Requests : i # j => Offsets(Requests[i]) \cap Offsets(Requests[j]) = {}
        /\ \A w \in wanted : \A x \in Offsets(w) :
              x \in have \/ \E i \in DOMAIN Requests : x \in Offsets(Requests[i])
    BY <1>1, <2>3, <2>4, RequestsOfAFetch
  <2>6. DOMAIN Requests # {}
    BY <2>3, <2>5
  <2>7. Requests # <<>>
    BY <2>6
  <2>8. Together(Sought) \subseteq have \cup UNION {Offsets(Requests[i]) : i \in DOMAIN Requests}
    <3> SUFFICES ASSUME NEW x \in Together(Sought), x \notin have
                 PROVE  \E i \in DOMAIN Requests : x \in Offsets(Requests[i])
      OBVIOUS
    <3>1. PICK w \in wanted : x \in Offsets(w)
      BY <2>3 DEF Together
    <3>2. QED
      BY <2>5, <3>1
  <2>9. FetchBrings'
    BY <1>1, <2>1, <2>2, <2>5, <2>7, <2>8 DEF FetchBrings, Apart, Together
  <2>10. QED
    BY <1>9, <2>1, <2>9 DEF FooterFirst, FetchLacks, FetchedIsHeld
<1>10. ASSUME NEW gets, NEW then, GetNext(gets, then),
              <<gets, then>> \in {<<"indexGets", "data">>, <<"dataGets", "decode">>}
       PROVE  FooterFirst' /\ FetchLacks' /\ FetchBrings' /\ FetchedIsHeld'
  <2> DEFINE s == Head(pending)
  <2>1. /\ pc = gets /\ pc' = (IF Len(pending) = 1 THEN then ELSE gets)
        /\ pending' = Tail(pending) /\ groups' = groups
        /\ have' = have \cup Offsets(MemoryGet(key, Bounded(s)).span)
    BY <1>10 DEF GetNext
  <2>2. FetchBrings /\ pc \in {"indexGets", "dataGets"}
    BY <1>10, <2>1 DEF ScanIInv
  <2>3. /\ s \in InFile(File.size) /\ Offsets(s) # {}
        /\ Tail(pending) \in Seq(InFile(File.size))
        /\ Len(pending) # 1 => Tail(pending) # <<>>
        /\ \A i \in DOMAIN Tail(pending) :
              Offsets(Tail(pending)[i]) # {} /\ Offsets(Tail(pending)[i]) \cap (have \cup Offsets(s)) = {}
        /\ Apart(Tail(pending))
        /\ Together(Sought) \subseteq
              (have \cup Offsets(s)) \cup UNION {Offsets(Tail(pending)[i]) : i \in DOMAIN Tail(pending)}
        /\ Len(pending) = 1 => Together(Sought) \subseteq have \cup Offsets(s)
    <3> DEFINE sought == Together(Sought)
               parts == InFile(File.size)
    <3>1. /\ pending \in Seq(parts) /\ pending # <<>>
          /\ \A i \in DOMAIN pending : Offsets(pending[i]) # {} /\ Offsets(pending[i]) \cap have = {}
          /\ Apart(pending)
          /\ sought \subseteq have \cup UNION {Offsets(pending[i]) : i \in DOMAIN pending}
      BY <2>2 DEF FetchBrings
    <3> HIDE DEF sought, parts
    <3>2. LET rest == Tail(pending)
              now  == have \cup Offsets(s)
          IN  /\ s \in parts /\ Offsets(s) # {} /\ Offsets(s) \cap have = {}
              /\ rest \in Seq(parts)
              /\ Len(pending) # 1 => rest # <<>>
              /\ \A i \in DOMAIN rest : Offsets(rest[i]) # {} /\ Offsets(rest[i]) \cap now = {}
              /\ Apart(rest)
              /\ sought \subseteq now \cup UNION {Offsets(rest[i]) : i \in DOMAIN rest}
              /\ Len(pending) = 1 => sought \subseteq now
      BY <3>1, FirstOfMany
    <3>3. QED
      BY <3>2 DEF sought, parts
  <2>4. have' = have \cup Offsets(s)
    BY <1>1, <2>1, <2>3, GetsReturnWhatTheyAsk
  <2>5. Sought' = Sought
    BY <1>2, <1>10, <2>1 DEF HasPlan
  <2> HIDE DEF s
  <2>6. CASE Len(pending) = 1
    <3>1. pc' \in {"data", "decode"}
      BY <1>10, <2>1, <2>6
    <3>2. Together(Sought)' \subseteq have'
      BY <2>3, <2>4, <2>5, <2>6 DEF Together
    <3>3. QED
      BY <3>1, <3>2 DEF FooterFirst, FetchLacks, FetchBrings, FetchedIsHeld
  <2>7. CASE Len(pending) # 1
    <3>1. pc' \in {"indexGets", "dataGets"}
      BY <2>1, <2>2, <2>7
    <3>2. Together(Sought)' = Together(Sought)
      BY <2>5 DEF Together
    <3>3. FetchBrings'
      BY <1>1, <2>1, <2>3, <2>4, <2>7, <3>2 DEF FetchBrings, Apart
    <3>4. QED
      BY <3>1, <3>3 DEF FooterFirst, FetchLacks, FetchedIsHeld
  <2>8. QED
    BY <2>6, <2>7
<1>11. CASE MakePlan \/ Decode
  <2>1. pc' \in {"wantData", "done"}
    BY <1>11 DEF MakePlan, Decode
  <2>2. QED
    BY <2>1 DEF FooterFirst, FetchLacks, FetchBrings, FetchedIsHeld
<1>12. CASE UNCHANGED vars
  <2>1. /\ pc' = pc /\ have' = have /\ wanted' = wanted /\ pending' = pending /\ groups' = groups
        /\ requests' = requests
    BY <1>12 DEF vars, readerVars, storeVars
  <2>2. Sought' = Sought
    BY <1>2, <2>1 DEF HasPlan
  <2>3. FooterFirst' /\ FetchLacks'
    BY <1>1, <2>1, <2>2 DEF ScanIInv, FooterFirst, FetchLacks, Together
  <2>4. FetchBrings' /\ FetchedIsHeld'
    BY <1>1, <2>1, <2>2 DEF ScanIInv, FetchBrings, FetchedIsHeld, Apart, Together
  <2>5. QED
    BY <2>3, <2>4
<1>13. QED
  BY <1>3, <1>4, <1>5, <1>7, <1>8, <1>9, <1>10, <1>11, <1>12 DEF Next

\* No plan lacks an index, and no page lacks its bytes.
LEMMA NoStepFails ==
    ASSUME Trusted, ScanIInv, [Next]_vars
    PROVE  FetchesWhatItDecodes'
<1>1. Called
  BY DEF ScanIInv, Called
<1>2. CASE MakePlan
  <2>1. query.op # "all" => Together(IndexesWanted) \subseteq have
    BY <1>2 DEF MakePlan, ScanIInv, FetchedIsHeld, Sought, HasPlan
  <2>2. query.op # "all" => \A g \in DOMAIN Plan : Plan[g].readable
    BY <1>1, <2>1, PlansAreReadable DEF Plan
  <2>3. pc' = "wantData"
    BY <1>2, <2>2 DEF MakePlan
  <2>4. QED
    BY <2>3 DEF FetchesWhatItDecodes
<1>3. CASE Decode
  <2>1. Covers(groups) /\ Reads(groups) /\ Together(DataWanted) \subseteq have
    BY <1>3 DEF Decode, ScanIInv, PlanCoversTheAnswer, PlanReadsWhatIsDecoded, FetchedIsHeld, Sought, HasPlan
  <2>2. \A g \in DOMAIN groups : Decodable(g)
    BY <1>1, <2>1, KeptGroupsDecode
  <2>3. outcome'.ok
    BY <1>3, <2>2 DEF Decode
  <2>4. QED
    BY <2>3 DEF FetchesWhatItDecodes
<1>4. CASE ~MakePlan /\ ~Decode
  <2>1. outcome' = outcome /\ (pc' = "done" => pc = "done")
    BY <1>4 DEF Next, vars, readerVars, FetchTail, FetchFooter, FetchFooterRest, WantIndexes, Fetch, GetNext,
           Lack, WantData
  <2>2. QED
    BY <2>1 DEF ScanIInv, FetchesWhatItDecodes
<1>5. QED
  BY <1>2, <1>3, <1>4

(***************************************************************************)
(* The theorems                                                            *)
(***************************************************************************)
LEMMA ScanInvInit == Init => ScanIInv
<1> SUFFICES ASSUME Init
             PROVE  ScanIInv
  OBVIOUS
<1>1. StoreIInv /\ requests = <<>>
  BY StoreInvInit DEF Init, StoreInit
<1>2. TraceIsHeld
  BY <1>1 DEF TraceIsHeld, Apart
<1>3. pc = "tail" /\ have = {} /\ ~outcome.ok
  BY DEF Init
<1>4. QED
  BY <1>1, <1>2, <1>3 DEF Init, ScanIInv, PlanCoversTheAnswer, PlanReadsWhatIsDecoded, HasPlan, FooterFirst,
     FetchLacks, FetchBrings, FetchedIsHeld, ScanIsExact, FetchesWhatItDecodes

\* At every step of a scan: what was fetched is held, and was fetched once; a fetch under way makes
\* up, with what is held, all it is for; and once there is a plan, it covers the answer and reads
\* all that the pages it decodes need (scan_in, and plan in prune.rs).
THEOREM ScanInvariant ==
    ASSUME Trusted
    PROVE  Spec => []ScanIInv
<1>1. ASSUME ScanIInv, [Next]_vars
      PROVE  ScanIInv'
  <2>1. key' \in DOMAIN Files /\ strategy' \in Strategies /\ query' \in Queries
    BY <1>1, TheCallStays DEF ScanIInv
  <2>2. StoreIInv' /\ TraceIsHeld'
    BY <1>1, StoreStep
  <2>3. PlanCoversTheAnswer' /\ PlanReadsWhatIsDecoded' /\ ScanIsExact'
    BY <1>1, PlanStep
  <2>4. FooterFirst' /\ FetchLacks' /\ FetchBrings' /\ FetchedIsHeld'
    BY <1>1, FetchStep
  <2>5. FetchesWhatItDecodes'
    BY <1>1, NoStepFails
  <2>6. QED
    BY <2>1, <2>2, <2>3, <2>4, <2>5 DEF ScanIInv
<1>2. QED
  BY <1>1, ScanInvInit, PTL DEF Spec

\* Whatever the strategy skips, merges and prefetches, the rows a scan returns, and their values,
\* are those of a full read.
THEOREM ScansAreExact ==
    ASSUME Trusted
    PROVE  Spec => []ScanIsExact
<1>1. ScanIInv => ScanIsExact
  BY DEF ScanIInv
<1>2. QED
  BY <1>1, ScanInvariant, PTL

\* A scan never lacks a byte of an index it plans from or of a page it decodes: it ends with rows.
THEOREM ScansFetchWhatTheyDecode ==
    ASSUME Trusted
    PROVE  Spec => []FetchesWhatItDecodes
<1>1. ScanIInv => FetchesWhatItDecodes
  BY DEF ScanIInv
<1>2. QED
  BY <1>1, ScanInvariant, PTL

\* No byte is fetched twice: neither the prefetched tail, nor an index inside a merged range.
THEOREM ScansFetchOnce ==
    ASSUME Trusted
    PROVE  Spec => []NoByteFetchedTwice
<1>1. ASSUME ScanIInv
      PROVE  NoByteFetchedTwice
  <2> SUFFICES ASSUME NEW i \in DOMAIN requests, NEW j \in DOMAIN requests, i # j
               PROVE  \/ requests[i].returned.end <= requests[j].returned.start
                      \/ requests[j].returned.end <= requests[i].returned.start
    BY DEF NoByteFetchedTwice
  <2> DEFINE s == requests[i].returned
             t == requests[j].returned
  <2>1. s \in Span /\ t \in Span /\ Offsets(s) \cap Offsets(t) = {} /\ Offsets(s) # {} /\ Offsets(t) # {}
    BY <1>1 DEF ScanIInv, TraceIsHeld, Apart, InFile
  <2> HIDE DEF s, t
  <2>2. /\ s.start \in Nat /\ s.end \in Nat /\ t.start \in Nat /\ t.end \in Nat
        /\ s.start < s.end /\ t.start < t.end
    <3>1. /\ s.start \in Nat /\ s.end \in Nat /\ t.start \in Nat /\ t.end \in Nat
      BY <2>1, SpansAreTheirEnds
    <3>2. PICK x \in Offsets(s), y \in Offsets(t) : TRUE
      BY <2>1
    <3>3. x \in Nat /\ s.start <= x /\ x < s.end /\ y \in Nat /\ t.start <= y /\ y < t.end
      BY <2>1, <3>2, OffsetsOfSpans
    <3>4. QED
      BY <3>1, <3>3
  <2>3. ~(s.start <= t.start /\ t.start < s.end) /\ ~(t.start <= s.start /\ s.start < t.end)
    BY <2>1, <2>2, OffsetsOfSpans
  <2>4. s.end <= t.start \/ t.end <= s.start
    BY <2>2, <2>3
  <2>5. QED
    BY <2>4 DEF s, t
<1>2. QED
  BY <1>1, ScanInvariant, PTL

(***************************************************************************)
(* What it costs                                                           *)
(***************************************************************************)

\* The sizes of spans that are apart add up to that of their offsets.
LEMMA SpansAreFinite ==
    ASSUME NEW n \in Nat, NEW S, S \subseteq InFile(n)
    PROVE  IsFiniteSet(S) /\ IsFiniteSet(Together(S)) /\ Together(S) \subseteq 0 .. n - 1
<1> DEFINE ends == [s \in S |-> <<s.start, s.end>>]
<1>1. \A s \in S : s \in Span /\ s.start \in 0 .. n /\ s.end \in 0 .. n /\ s = SpanOf(s.start, s.end)
  BY SpansAreTheirEnds DEF InFile
<1>2. ends \in Injection(S, (0 .. n) \X (0 .. n))
  <2>1. \A s \in S : ends[s] \in (0 .. n) \X (0 .. n)
    BY <1>1
  <2>2. ASSUME NEW s \in S, NEW t \in S, ends[s] = ends[t]
        PROVE  s = t
    <3>1. s.start = t.start /\ s.end = t.end
      BY <2>2
    <3>2. s = SpanOf(s.start, s.end) /\ t = SpanOf(t.start, t.end)
      BY <1>1
    <3>3. QED
      BY <3>1, <3>2
  <2>3. QED
    BY <2>1, <2>2 DEF Injection, IsInjective
<1>3. IsFiniteSet((0 .. n) \X (0 .. n))
  <2>1. IsFiniteSet(0 .. n)
    BY FS_Interval
  <2>2. QED
    BY <2>1, FS_Product
<1>4. IsFiniteSet(S)
  BY <1>2, <1>3, FS_Injection
<1>5. Together(S) \subseteq 0 .. n - 1
  <2> SUFFICES ASSUME NEW s \in S, NEW x \in Offsets(s)
               PROVE  x \in 0 .. n - 1
    BY DEF Together
  <2>1. x \in Nat /\ x < s.end /\ s.end \in 0 .. n
    BY <1>1, OffsetsOfSpans
  <2>2. QED
    BY <2>1
<1>6. IsFiniteSet(0 .. n - 1)
  BY FS_Interval
<1>7. QED
  BY <1>4, <1>5, <1>6, FS_Subset

LEMMA SpanSize ==
    ASSUME NEW s \in Span
    PROVE  IsFiniteSet(Offsets(s)) /\ SpanLen(s) = Cardinality(Offsets(s))
<1> DEFINE a == s.start
           b == s.end
<1>1. a \in Nat /\ b \in Nat /\ a <= b /\ Offsets(s) = a .. b - 1 /\ SpanLen(s) = b - a
  BY SpansAreTheirEnds DEF Offsets, SpanLen
<1> HIDE DEF a, b
<1>2. IsFiniteSet(a .. b - 1) /\ Cardinality(a .. b - 1) = IF a > b - 1 THEN 0 ELSE (b - 1) - a + 1
  BY <1>1, FS_Interval
<1>3. Cardinality(a .. b - 1) = b - a
  BY <1>1, <1>2
<1>4. QED
  BY <1>1, <1>2, <1>3

LEMMA TotalIsSize ==
    ASSUME NEW n \in Nat, NEW S, S \subseteq InFile(n),
           \A s, t \in S : s # t => Offsets(s) \cap Offsets(t) = {}
    PROVE  Total(S) = Cardinality(Together(S))
<1> DEFINE size == [s \in S |-> SpanLen(s)]
           parts == [s \in S |-> Offsets(s)]
<1>1. IsFiniteSet(S) /\ \A s \in S : s \in Span
  BY SpansAreFinite DEF InFile
<1>2. \A s \in S : IsFiniteSet(parts[s]) /\ size[s] = Cardinality(parts[s])
  BY <1>1, SpanSize
<1>3. \A s, t \in S : s # t => parts[s] \cap parts[t] = {}
  OBVIOUS
<1>4. \A z : z \in Together(S) <=> \E s \in S : z \in parts[s]
  BY DEF Together
<1>5. Total(S) = SumFunctionOnSet(size, S)
  BY DEF Total, SumFunction
<1> HIDE DEF size, parts
<1>6. SumFunctionOnSet(size, S) = Cardinality(Together(S))
  BY <1>1, <1>2, <1>3, <1>4, SumOfSizes
<1>7. QED
  BY <1>5, <1>6

\* What is planned of a fetch is what is wanted, each byte once.
LEMMA PlannedIsWanted ==
    ASSUME NEW n \in Nat, wanted \subseteq InFile(n)
    PROVE  /\ Planned = Cardinality(Together(wanted)) /\ IsFiniteSet(Together(wanted))
           /\ Planned \in Nat
<1> DEFINE merged == Coalesce(wanted, 0)
<1>1. merged \subseteq InFile(n)
  BY CoalesceInFile
<1>2. \A r, q \in merged : r # q => Offsets(r) \cap Offsets(q) = {}
  BY CoalesceApart
<1>3. Together(merged) = Together(wanted)
  BY NothingIsAdded
<1>4. Planned = Total(merged)
  BY DEF Planned
<1> HIDE DEF merged
<1>5. Planned = Cardinality(Together(wanted))
  BY <1>1, <1>2, <1>3, <1>4, TotalIsSize
<1>6. IsFiniteSet(Together(wanted))
  BY SpansAreFinite
<1>7. QED
  BY <1>5, <1>6, FS_CardinalityType

(***************************************************************************)
(* Merging saves requests                                                  *)
(***************************************************************************)

\* A fetch that is to be made: what it lacks, and over which gap it merges.
Lacking(n) ==
    /\ n \in Nat /\ wanted \subseteq InFile(n)
    /\ \A w \in wanted : Offsets(w) # {} /\ Offsets(w) \cap have = {}
    /\ strategy.coalesce_gap \in Int /\ -1 <= strategy.coalesce_gap

\* No part asked for is a gap alone: the bytes on either side of it would be held, and too near
\* each other.
LEMMA PartsAreWanted ==
    ASSUME NEW n, Lacking(n), n = File.size, have \subseteq 0 .. n - 1, Spread(have), NEW m \in Parts
    PROVE  Offsets(m) \cap Together(wanted) # {}
<1> DEFINE gap == strategy.coalesce_gap
<1>1. PICK r \in Coalesce(wanted, gap) : m \in Missing(have, r)
  BY DEF Parts
<1>2. /\ n \in Nat /\ wanted \subseteq InFile(n)
      /\ \A w \in wanted : Offsets(w) # {} /\ Offsets(w) \cap have = {}
      /\ gap \in Int
  BY DEF Lacking
<1> HIDE DEF gap
<1>3. r \in Span
  BY <1>2, CoalesceInFile DEF InFile
<1>4. /\ m \in Span /\ m.start < m.end /\ r.start <= m.start /\ m.end <= r.end
      /\ Offsets(m) \subseteq Offsets(r) \ have
      /\ m.start - 1 \notin Offsets(r) \ have
      /\ m.end \notin Offsets(r) \ have
  BY <1>1, <1>3, MissingRuns
<1> SUFFICES ASSUME Offsets(m) \cap Together(wanted) = {}
             PROVE  FALSE
  OBVIOUS
<1>5. m.start \in Nat /\ m.end \in Nat /\ r.start \in Nat /\ r.end \in Nat
  BY <1>3, <1>4, SpansAreTheirEnds
<1>6. m.start \in Offsets(m)
  BY <1>4, <1>5, OffsetsOfSpans
<1>7. PICK a \in wanted, b \in wanted :
         /\ r.start <= a.start /\ a.end <= m.start /\ m.start < b.start /\ b.end <= r.end
         /\ b.start <= a.end + gap
  <2>1. m.start \in Offsets(r) /\ m.start \notin Together(wanted)
    BY <1>4, <1>6
  <2>2. QED
    BY <1>1, <1>2, <2>1, CoalesceGap
<1>8. /\ a \in Span /\ b \in Span /\ b.end <= n
      /\ a.start \in Nat /\ a.end \in Nat /\ b.start \in Nat /\ b.end \in Nat
  BY <1>2, SpansAreTheirEnds DEF InFile
<1>9. a.start < a.end /\ b.start < b.end
  <2>1. PICK x \in Offsets(a), y \in Offsets(b) : TRUE
    BY <1>2
  <2>2. x \in Nat /\ a.start <= x /\ x < a.end /\ y \in Nat /\ b.start <= y /\ y < b.end
    BY <1>8, OffsetsOfSpans
  <2>3. QED
    BY <1>8, <2>2
<1>10. a.end - 1 \in Offsets(a) /\ b.start \in Offsets(b)
  <2>1. a.end - 1 \in Nat /\ a.start <= a.end - 1 /\ a.end - 1 < a.end
    BY <1>8, <1>9
  <2>2. b.start <= b.start
    BY <1>8
  <2>3. QED
    BY <1>8, <1>9, <2>1, <2>2, OffsetsOfSpans
<1>11. a.end - 1 \notin have /\ b.start \notin have /\ b.start \notin Offsets(m)
  BY <1>2, <1>10 DEF Together
<1> DEFINE p == m.start - 1
           y == m.end
<1>12. p \in have /\ p >= a.end
  <2>1. p \in Nat /\ r.start <= p /\ p < r.end /\ p >= a.end - 1
    BY <1>4, <1>5, <1>7, <1>8, <1>9
  <2>2. p \in Offsets(r)
    BY <1>3, <2>1, OffsetsOfSpans
  <2>3. p \in have
    BY <1>4, <2>2
  <2>4. p # a.end - 1
    BY <1>11, <2>3
  <2> HIDE DEF p
  <2>5. QED
    BY <1>8, <2>1, <2>3, <2>4
<1>13. y <= b.start
  <2>1. ~(b.start < m.end)
    <3> SUFFICES ASSUME b.start < m.end
                 PROVE  FALSE
      OBVIOUS
    <3>1. m.start <= b.start
      BY <1>5, <1>7, <1>8
    <3>2. b.start \in Offsets(m)
      BY <1>4, <1>8, <3>1, OffsetsOfSpans
    <3>3. QED
      BY <1>11, <3>2
  <2>2. QED
    BY <1>5, <1>8, <2>1
<1>14. y \in have
  <2>1. y \in Nat /\ r.start <= y /\ y < r.end
    BY <1>4, <1>5, <1>7, <1>8, <1>9, <1>13
  <2>2. y \in Offsets(r)
    BY <1>3, <2>1, OffsetsOfSpans
  <2>3. QED
    BY <1>4, <2>2
<1>15. m.start \in p .. y /\ m.start \notin have
  BY <1>4, <1>5, <1>6
<1>16. y - p > gap \/ y .. n - 1 \subseteq have
  BY <1>12, <1>14, <1>15 DEF Spread, gap
<1>17. ~(y - p > gap)
  <2>1. p \in Int /\ y \in Int
    BY <1>5
  <2> HIDE DEF p, y
  <2>2. QED
    BY <1>2, <1>7, <1>8, <1>12, <1>13, <2>1
<1>18. b.start \in y .. n - 1
  BY <1>2, <1>5, <1>8, <1>9, <1>13
<1>19. QED
  BY <1>11, <1>16, <1>17, <1>18

\* Ranges merged only where they touch are each inside one part.
LEMMA SeparateInOneRange ==
    ASSUME NEW n, Lacking(n), NEW q \in Separate, NEW r \in Coalesce(wanted, strategy.coalesce_gap),
           NEW x \in Offsets(q), x \in Offsets(r)
    PROVE  r.start <= q.start /\ q.end <= r.end
<1> DEFINE gap == strategy.coalesce_gap
           merged == Coalesce(wanted, gap)
           least == IF gap < 0 THEN -1 ELSE 0
<1>1. n \in Nat /\ wanted \subseteq InFile(n) /\ gap \in Int /\ -1 <= gap
  BY DEF Lacking
<1>2. q \in Coalesce(wanted, least)
  BY DEF Separate
<1>3. least \in Int /\ -1 <= least /\ least <= 0 /\ (gap >= 0 \/ least = gap)
  BY <1>1
<1> HIDE DEF gap, least
<1>4. q \in Span /\ r \in Span
  BY <1>1, <1>2, <1>3, CoalesceInFile DEF InFile, gap
<1>5. q.start \in Nat /\ q.end \in Nat /\ r.start \in Nat /\ r.end \in Nat
  BY <1>4, SpansAreTheirEnds
<1>6. x \in Nat /\ q.start <= x /\ x < q.end /\ r.start <= x /\ x < r.end
  BY <1>4, OffsetsOfSpans
<1>7. CASE least = gap
  <2>1. r = q
    BY <1>1, <1>2, <1>7, CoalesceApart DEF gap
  <2>2. QED
    BY <1>5, <2>1
<1>8. CASE gap >= 0
  <2>1. Together(Coalesce(wanted, least)) = Together(wanted)
    BY <1>1, <1>3, NothingIsAdded
  <2>2. ASSUME NEW y \in Offsets(q), y \notin Offsets(r)
        PROVE  \E s \in merged : /\ s.start \in Nat /\ s.end \in Nat /\ s.start <= y /\ y < s.end
                                 /\ r.end + gap < s.start \/ s.end + gap < r.start
    <3>1. PICK w \in wanted : y \in Offsets(w)
      BY <1>2, <2>1 DEF Together
    <3>2. PICK s \in merged : s.start <= w.start /\ w.end <= s.end
      BY <1>1, CoalesceCovers
    <3>3. s \in Span /\ w \in Span
      BY <1>1, CoalesceInFile DEF InFile
    <3>4. /\ s.start \in Nat /\ s.end \in Nat /\ w.start \in Nat /\ w.end \in Nat
          /\ y \in Nat /\ w.start <= y /\ y < w.end
      BY <3>1, <3>3, SpansAreTheirEnds, OffsetsOfSpans
    <3>5. s.start <= y /\ y < s.end
      BY <3>2, <3>4
    <3>6. s # r
      BY <2>2, <3>3, <3>4, <3>5, OffsetsOfSpans
    <3>7. r.end + gap < s.start \/ s.end + gap < r.start
      BY <1>1, <3>6, CoalesceFar DEF gap
    <3>8. QED
      BY <3>4, <3>5, <3>7
  <2> HIDE DEF merged
  <2>3. r.start <= q.start
    <3> SUFFICES ASSUME q.start < r.start
                 PROVE  FALSE
      BY <1>5
    <3>1. r.start - 1 \in Nat /\ q.start <= r.start - 1 /\ r.start - 1 < q.end /\ ~(r.start <= r.start - 1)
      BY <1>5, <1>6
    <3>2. r.start - 1 \in Offsets(q) /\ r.start - 1 \notin Offsets(r)
      BY <1>4, <3>1, OffsetsOfSpans
    <3>3. PICK s \in merged : /\ s.start \in Nat /\ s.end \in Nat
                              /\ s.start <= r.start - 1 /\ r.start - 1 < s.end
                              /\ r.end + gap < s.start \/ s.end + gap < r.start
      BY <2>2, <3>2
    <3>4. QED
      BY <1>1, <1>5, <1>6, <1>8, <3>3
  <2>4. q.end <= r.end
    <3> SUFFICES ASSUME r.end < q.end
                 PROVE  FALSE
      BY <1>5
    <3>1. r.end \in Nat /\ q.start <= r.end /\ ~(r.end < r.end)
      BY <1>5, <1>6
    <3>2. r.end \in Offsets(q) /\ r.end \notin Offsets(r)
      BY <1>4, <3>1, OffsetsOfSpans
    <3>3. PICK s \in merged : /\ s.start \in Nat /\ s.end \in Nat /\ s.start <= r.end /\ r.end < s.end
                              /\ r.end + gap < s.start \/ s.end + gap < r.start
      BY <2>2, <3>2
    <3>4. QED
      BY <1>1, <1>5, <1>6, <1>8, <3>3
  <2>5. QED
    BY <2>3, <2>4
<1>9. QED
  BY <1>3, <1>7, <1>8

LEMMA SeparateInOnePart ==
    ASSUME NEW n, Lacking(n), NEW q \in Separate, NEW m \in Parts,
           NEW x \in Offsets(q), x \in Offsets(m)
    PROVE  Offsets(q) \subseteq Offsets(m)
<1>1. PICK r \in Coalesce(wanted, strategy.coalesce_gap) : m \in Missing(have, r)
  BY DEF Parts
<1>2. /\ n \in Nat /\ wanted \subseteq InFile(n)
      /\ \A w \in wanted : Offsets(w) \cap have = {}
      /\ strategy.coalesce_gap \in Int
  BY DEF Lacking
<1> DEFINE least == IF strategy.coalesce_gap < 0 THEN -1 ELSE 0
<1>3. least \in Int /\ least <= 0 /\ q \in Coalesce(wanted, least)
  BY DEF Separate
<1> HIDE DEF least
<1>4. q \in Span /\ r \in Span
  BY <1>2, <1>3, CoalesceInFile DEF InFile
<1>5. /\ m \in Span /\ m.start < m.end
      /\ Offsets(m) \subseteq Offsets(r) \ have
      /\ m.start - 1 \notin Offsets(r) \ have
      /\ m.end \notin Offsets(r) \ have
  BY <1>1, <1>4, MissingRuns
<1>6. /\ q.start \in Nat /\ q.end \in Nat /\ r.start \in Nat /\ r.end \in Nat
      /\ m.start \in Nat /\ m.end \in Nat
  BY <1>4, <1>5, SpansAreTheirEnds
<1>7. /\ x \in Nat /\ q.start <= x /\ x < q.end /\ m.start <= x /\ x < m.end
  BY <1>4, <1>5, OffsetsOfSpans
<1>8. r.start <= q.start /\ q.end <= r.end
  BY <1>5, SeparateInOneRange
<1>9. Together(Coalesce(wanted, least)) = Together(wanted)
  BY <1>2, <1>3, NothingIsAdded
<1>10. \A y \in Nat : q.start <= y /\ y < q.end => y \in Offsets(r) \ have
  <2> SUFFICES ASSUME NEW y \in Nat, q.start <= y, y < q.end
               PROVE  y \in Offsets(r) \ have
    OBVIOUS
  <2>1. y \in Offsets(q)
    BY <1>4, OffsetsOfSpans
  <2>2. y \notin have
    BY <1>2, <1>3, <1>9, <2>1 DEF Together
  <2>3. r.start <= y /\ y < r.end
    BY <1>6, <1>8
  <2>4. QED
    BY <1>4, <2>2, <2>3, OffsetsOfSpans
<1>11. m.start <= q.start
  <2> SUFFICES ASSUME q.start < m.start
               PROVE  FALSE
    BY <1>6
  <2>1. m.start - 1 \in Nat /\ q.start <= m.start - 1 /\ m.start - 1 < q.end
    BY <1>6, <1>7
  <2>2. QED
    BY <1>5, <1>10, <2>1
<1>12. q.end <= m.end
  <2> SUFFICES ASSUME m.end < q.end
               PROVE  FALSE
    BY <1>6
  <2>1. q.start <= m.end
    BY <1>6, <1>7
  <2>2. QED
    BY <1>5, <1>6, <1>10, <2>1
<1>13. ASSUME NEW y \in Offsets(q)
       PROVE  y \in Offsets(m)
  <2>1. y \in Nat /\ q.start <= y /\ y < q.end
    BY <1>4, OffsetsOfSpans
  <2>2. m.start <= y /\ y < m.end
    BY <1>6, <1>11, <1>12, <2>1
  <2>3. QED
    BY <1>5, <2>1, <2>2, OffsetsOfSpans
<1>14. QED
  BY <1>13

\* So there are no more parts than such ranges.
LEMMA NoMorePartsThanRanges ==
    ASSUME NEW n, Lacking(n), n = File.size, have \subseteq 0 .. n - 1, Spread(have)
    PROVE  /\ IsFiniteSet(Separate) /\ Cardinality(Parts) <= Cardinality(Separate)
<1>1. n \in Nat /\ wanted \subseteq InFile(n) /\ strategy.coalesce_gap \in Int /\ -1 <= strategy.coalesce_gap
  BY DEF Lacking
<1> DEFINE least == IF strategy.coalesce_gap < 0 THEN -1 ELSE 0
<1>2. least \in Int /\ least <= 0 /\ Separate = Coalesce(wanted, least)
  BY DEF Separate
<1> HIDE DEF least
<1>3. Separate \subseteq InFile(n) /\ Together(Separate) = Together(wanted)
  BY <1>1, <1>2, CoalesceInFile, NothingIsAdded
<1>4. IsFiniteSet(Separate)
  BY <1>1, <1>3, SpansAreFinite
<1> DEFINE in == [m \in Parts |-> CHOOSE q \in Separate : Offsets(q) \cap Offsets(m) # {}]
<1>5. ASSUME NEW m \in Parts
      PROVE  /\ in[m] \in Separate /\ Offsets(in[m]) \cap Offsets(m) # {}
             /\ Offsets(in[m]) \subseteq Offsets(m)
  <2>1. Offsets(m) \cap Together(Separate) # {}
    BY <1>3, PartsAreWanted
  <2>2. \E q \in Separate : Offsets(q) \cap Offsets(m) # {}
    BY <2>1 DEF Together
  <2>3. in[m] \in Separate /\ Offsets(in[m]) \cap Offsets(m) # {}
    BY <2>2
  <2> HIDE DEF in
  <2>4. PICK x : x \in Offsets(in[m]) /\ x \in Offsets(m)
    BY <2>3
  <2>5. QED
    BY <2>3, <2>4, SeparateInOnePart
<1>6. \A m, k \in Parts : m # k => Offsets(m) \cap Offsets(k) = {}
  BY <1>1, PartsOfAFetch
<1>7. in \in Injection(Parts, Separate)
  <2>1. DOMAIN in = Parts /\ in \in [Parts -> Separate]
    BY <1>5
  <2> HIDE DEF in
  <2>2. ASSUME NEW m \in Parts, NEW k \in Parts, in[m] = in[k]
        PROVE  m = k
    <3>1. PICK x : x \in Offsets(in[m]) /\ x \in Offsets(m)
      BY <1>5
    <3>2. x \in Offsets(k)
      BY <1>5, <2>2, <3>1
    <3>3. QED
      BY <1>6, <3>1, <3>2
  <2>3. QED
    BY <2>1, <2>2 DEF Injection, IsInjective
<1> HIDE DEF in
<1>8. QED
  BY <1>4, <1>7, FS_Injection

\* A fetch of the indexes leaves what is held spread: all that was held is at the end of the file.
LEMMA FetchSpreads ==
    ASSUME NEW n \in Nat, n = File.size, wanted \subseteq InFile(n),
           strategy.coalesce_gap \in Int, -1 <= strategy.coalesce_gap,
           NEW from \in 0 .. n, have = from .. n - 1
    PROVE  Spread(have \cup Together(Coalesce(wanted, strategy.coalesce_gap)))
<1> DEFINE gap == strategy.coalesce_gap
           merged == Coalesce(wanted, gap)
           held == have \cup Together(merged)
<1>1. gap \in Int /\ -1 <= gap /\ merged \subseteq InFile(n)
  BY CoalesceInFile
<1>2. \A r \in merged : r \in Span /\ r.start \in Nat /\ r.end \in Nat /\ r.end <= n
  BY <1>1, SpansAreTheirEnds DEF InFile
<1> SUFFICES ASSUME NEW x \in held, NEW y \in held, NEW z \in x .. y, z \notin held
             PROVE  y - x > gap \/ y .. n - 1 \subseteq held
  BY DEF Spread
<1>3. CASE y \in have
  <2>1. y \in Int /\ from <= y /\ from \in Int
    BY <1>3
  <2>2. y .. n - 1 \subseteq from .. n - 1
    BY <2>1
  <2>3. y .. n - 1 \subseteq held
    BY <2>2
  <2> HIDE DEF held, gap
  <2>4. QED
    BY <2>3
<1>4. CASE y \notin have
  <2>1. PICK q \in merged : y \in Offsets(q)
    BY <1>4 DEF Together
  <2>2. y \in Nat /\ q.start <= y /\ y < q.end /\ y <= n - 1
    <3>1. y \in Nat /\ q.start <= y /\ y < q.end
      BY <1>2, <2>1, OffsetsOfSpans
    <3>2. q.end \in Nat /\ q.end <= n
      BY <1>2
    <3>3. QED
      BY <3>1, <3>2
  <2>3. x \notin have
    <3> SUFFICES ASSUME x \in have
                 PROVE  FALSE
      OBVIOUS
    <3>1. z \in from .. n - 1
      BY <2>2
    <3>2. QED
      BY <3>1
  <2>4. PICK r \in merged : x \in Offsets(r)
    BY <2>3 DEF Together
  <2>5. x \in Nat /\ r.start <= x /\ x < r.end
    BY <1>2, <2>4, OffsetsOfSpans
  <2>6. z \in Int /\ x <= z /\ z <= y
    BY <2>2, <2>5
  <2>7. /\ r \in Span /\ r.start \in Nat /\ r.end \in Nat
        /\ q.start \in Nat /\ q.end \in Nat
    BY <1>2
  <2>8. r # q
    <3> SUFFICES ASSUME r = q
                 PROVE  FALSE
      OBVIOUS
    <3>1. z \in Nat /\ r.start <= z /\ z < r.end
      BY <2>2, <2>5, <2>6, <2>7
    <3>2. z \in Offsets(r)
      BY <2>7, <3>1, OffsetsOfSpans
    <3>3. QED
      BY <3>2 DEF Together
  <2>9. r.end + gap < q.start \/ q.end + gap < r.start
    BY <2>8, CoalesceFar
  <2>10. x <= y
    BY <2>2, <2>5, <2>6
  <2>11. ~(q.end + gap < r.start)
    <3> HIDE DEF gap, held, merged
    <3>1. QED
      BY <1>1, <2>2, <2>5, <2>7, <2>10
  <2>12. y - x > gap
    <3> HIDE DEF gap, held, merged
    <3>1. QED
      BY <1>1, <2>2, <2>5, <2>7, <2>9, <2>11
  <2>13. QED
    BY <2>12
<1>5. QED
  BY <1>3, <1>4

(***************************************************************************)
(* The steps, and what they cost                                           *)
(***************************************************************************)

LEMMA TheCostsStay ==
    ASSUME [Next]_vars
    PROVE  /\ FooterPhase' = FooterPhase /\ strategy' = strategy /\ File' = File /\ TailStart' = TailStart
           /\ (Unmerged' <=> Unmerged) /\ (SkipsByStatistics' <=> SkipsByStatistics)
           /\ RuledOutOffsets' = RuledOutOffsets
           /\ FooterPhase \in {0, 1}
<1>1. /\ strategy' = strategy /\ query' = query /\ File' = File
      /\ Touched' = Touched /\ TailStart' = TailStart
  BY TheCallStays
<1>2. FooterPhase' = FooterPhase /\ FooterPhase \in {0, 1}
  BY <1>1 DEF FooterPhase
<1>3. (Unmerged' <=> Unmerged) /\ (SkipsByStatistics' <=> SkipsByStatistics)
  BY <1>1 DEF Unmerged, SkipsByStatistics
<1>4. RuledOutOffsets' = RuledOutOffsets
  BY <1>1 DEF RuledOutOffsets, RuledOutGroups
<1>5. QED
  BY <1>1, <1>2, <1>3, <1>4

\* A GET is after the footer when its phase is.
LEMMA GetsBring ==
    ASSUME StoreIInv, FooterPhase' = FooterPhase, FooterPhase \in {0, 1}, NEW k, NEW r, Get(k, r)
    PROVE  /\ phase' = phase
           /\ phase <= FooterPhase => AfterFooter' = AfterFooter /\ Brought' = Brought
           /\ phase > FooterPhase => Brought' = Brought \cup Offsets(MemoryGet(k, r).span)
<1> DEFINE n == Len(requests)
<1>1. PICK q : /\ q.returned = MemoryGet(k, r).span /\ q.phase = phase
               /\ requests' = Append(requests, q)
  BY DEF Get, Record
<1>2. phase' = phase /\ requests \in Seq(Request)
  BY DEF Get, Record, StoreIInv, StoreTypeOK
<1>3. /\ n \in Nat /\ DOMAIN requests = 1 .. n /\ DOMAIN requests' = 1 .. n + 1
      /\ \A i \in 1 .. n : requests'[i] = requests[i]
      /\ requests'[n + 1] = q
  BY <1>1, <1>2
<1>4. DOMAIN requests' = DOMAIN requests \cup {n + 1} /\ n + 1 \notin DOMAIN requests
  BY <1>3
<1> HIDE DEF n
<1>5. AfterFooter' = AfterFooter \cup IF phase > FooterPhase THEN {n + 1} ELSE {}
  BY <1>1, <1>3, <1>4 DEF AfterFooter
<1>6. \A i \in AfterFooter : requests'[i] = requests[i]
  BY <1>3 DEF AfterFooter
<1>7. CASE phase > FooterPhase
  <2>1. AfterFooter' = AfterFooter \cup {n + 1}
    BY <1>5, <1>7
  <2>2. Brought' = Brought \cup Offsets(MemoryGet(k, r).span)
    BY <1>1, <1>3, <1>6, <2>1 DEF Brought
  <2>3. ~(phase <= FooterPhase)
    BY <1>7 DEF StoreIInv, StoreTypeOK
  <2>4. QED
    BY <1>2, <2>2, <2>3
<1>8. CASE ~(phase > FooterPhase)
  <2>1. AfterFooter' = AfterFooter
    BY <1>5, <1>8
  <2>2. Brought' = Brought
    BY <1>6, <2>1 DEF Brought
  <2>3. QED
    BY <1>2, <1>8, <2>1, <2>2
<1>9. QED
  BY <1>7, <1>8

\* The next request, answered, is no longer coming but brought.
LEMMA FirstComes ==
    ASSUME NEW S, NEW gets \in Seq(S), gets # <<>>
    PROVE  UNION {Offsets(gets[i]) : i \in DOMAIN gets} =
             Offsets(Head(gets)) \cup UNION {Offsets(Tail(gets)[i]) : i \in DOMAIN Tail(gets)}
<1> DEFINE n == Len(gets)
           rest == Tail(gets)
<1>1. /\ n \in Nat /\ n >= 1 /\ DOMAIN gets = 1 .. n /\ DOMAIN rest = 1 .. n - 1
      /\ \A i \in 1 .. n - 1 : rest[i] = gets[i + 1]
      /\ Head(gets) = gets[1]
  BY HeadTailProperties
<1> HIDE DEF n, rest
<1>2. ASSUME NEW x, NEW i \in 1 .. n, x \in Offsets(gets[i]), i # 1
      PROVE  \E j \in 1 .. n - 1 : x \in Offsets(rest[j])
  <2>1. i - 1 \in 1 .. n - 1 /\ (i - 1) + 1 = i
    BY <1>1, <1>2
  <2>2. QED
    BY <1>1, <1>2, <2>1
<1>3. ASSUME NEW x, NEW j \in 1 .. n - 1, x \in Offsets(rest[j])
      PROVE  \E i \in 1 .. n : x \in Offsets(gets[i])
  <2>1. j + 1 \in 1 .. n
    BY <1>1
  <2>2. QED
    BY <1>1, <1>3, <2>1
<1>4. 1 \in 1 .. n
  BY <1>1
<1>5. QED
  BY <1>1, <1>2, <1>3, <1>4 DEF rest

\* Only a fetch asks for anything, and only one of the indexes or of the data changes what is planned.
Fetching == Fetch("indexFetch", "indexGets") \/ Fetch("dataFetch", "dataGets")

GettingNext == GetNext("indexGets", "data") \/ GetNext("dataGets", "decode")

LEMMA AnsweringNext ==
    ASSUME Trusted, ScanIInv, WasteIInv, GettingNext
    PROVE  /\ Brought' = Brought \cup Offsets(Head(pending)) /\ have' = have \cup Offsets(Head(pending))
           /\ Coming' = UNION {Offsets(Tail(pending)[i]) : i \in DOMAIN Tail(pending)}
           /\ Coming = Offsets(Head(pending)) \cup Coming'
           /\ phase' = phase /\ phase > FooterPhase
           /\ pc \in Getting
<1>1. PICK gets, then : GetNext(gets, then) /\ <<gets, then>> \in {<<"indexGets", "data">>, <<"dataGets", "decode">>}
  BY DEF GettingNext
<1> DEFINE s == Head(pending)
<1>2. /\ pc = gets /\ pc' = (IF Len(pending) = 1 THEN then ELSE gets)
      /\ pending' = Tail(pending) /\ Get(key, Bounded(s))
      /\ have' = have \cup Offsets(MemoryGet(key, Bounded(s)).span)
      /\ pc \in Getting /\ gets \in Getting /\ then \notin Getting
  BY <1>1 DEF GetNext, Getting
<1>3. /\ pending \in Seq(InFile(File.size)) /\ pending # <<>>
      /\ \A i \in DOMAIN pending : Offsets(pending[i]) # {}
  BY <1>2 DEF ScanIInv, FetchBrings, Getting
<1>4. s \in InFile(File.size) /\ Offsets(s) # {}
  <2>1. 1 \in DOMAIN pending /\ s = pending[1] /\ s \in InFile(File.size)
    BY <1>3
  <2>2. QED
    BY <1>3, <2>1
<1>5. MemoryGet(key, Bounded(s)).span = s
  BY <1>4, GetsReturnWhatTheyAsk DEF ScanIInv, Called
<1>6. FooterPhase' = FooterPhase /\ FooterPhase \in {0, 1}
  BY TheCostsStay DEF GettingNext, Next
<1>7. phase > FooterPhase
  BY <1>2 DEF WasteIInv, FooterPhases
<1>8. Brought' = Brought \cup Offsets(s) /\ phase' = phase
  BY <1>2, <1>5, <1>6, <1>7, GetsBring DEF ScanIInv
<1>9. Coming' = UNION {Offsets(Tail(pending)[i]) : i \in DOMAIN Tail(pending)}
  <2>1. CASE Len(pending) = 1
    <3>1. DOMAIN Tail(pending) = {}
      <4>1. DOMAIN Tail(pending) = 1 .. Len(pending) - 1
        BY <1>3, HeadTailProperties
      <4>2. QED
        BY <2>1, <4>1
    <3>2. pc' \notin Getting
      BY <1>2, <2>1
    <3>3. Coming' = {}
      BY <3>2 DEF Coming, Getting
    <3>4. QED
      BY <3>1, <3>3
  <2>2. CASE Len(pending) # 1
    <3>1. pc' \in Getting
      BY <1>2, <2>2
    <3>2. QED
      BY <1>2, <3>1 DEF Coming, Getting
  <2>3. QED
    BY <2>1, <2>2
<1>10. Coming = Offsets(s) \cup Coming'
  <2>1. Coming = UNION {Offsets(pending[i]) : i \in DOMAIN pending}
    BY <1>2 DEF Coming
  <2>2. QED
    BY <1>3, <1>9, <2>1, FirstComes
<1>11. QED
  BY <1>2, <1>5, <1>7, <1>8, <1>9, <1>10

\* What a fetch asks for is what it lacks, and, if it merges over gaps, the gaps.
LEMMA Asking ==
    ASSUME Trusted, ScanIInv, WasteIInv, Fetching
    PROVE  /\ Brought' = Brought /\ have' = have /\ Coming = {} /\ Coming' = Together(Parts)
           /\ phase' = phase + 1 /\ phase' > FooterPhase
           /\ pc \in {"indexFetch", "dataFetch"} /\ pc' \in Getting
           /\ pc = "dataFetch" => pc' = "dataGets"
           /\ planned' = planned + Planned /\ wanted' = wanted
           /\ pending' = Requests /\ groups' = groups
           /\ Lacking(File.size)
<1>1. PICK fetch, gets : Fetch(fetch, gets) /\ <<fetch, gets>> \in {<<"indexFetch", "indexGets">>, <<"dataFetch", "dataGets">>}
  BY DEF Fetching
<1>2. /\ pc = fetch /\ pc' = gets /\ pending' = Requests /\ planned' = planned + Planned
      /\ have' = have /\ wanted' = wanted /\ groups' = groups
      /\ phase' = phase + 1 /\ requests' = requests
      /\ pc \in {"indexFetch", "dataFetch"} /\ pc' \in Getting /\ pc \notin Getting
      /\ pc = "dataFetch" => pc' = "dataGets"
  BY <1>1 DEF Fetch, Getting, NextPhase
<1>3. FooterPhase' = FooterPhase /\ FooterPhase \in {0, 1}
  BY TheCostsStay DEF Fetching, Next
<1>4. Brought' = Brought
  BY <1>2, <1>3 DEF Brought, AfterFooter
<1>5. phase' > FooterPhase
  <2>1. phase \in Nat /\ phase >= FooterPhase
    BY <1>2 DEF WasteIInv, FooterPhases, ScanIInv, StoreIInv, StoreTypeOK
  <2>2. QED
    BY <1>2, <1>3, <2>1
<1>6. Called /\ File.size \in Nat /\ strategy.coalesce_gap \in Int /\ -1 <= strategy.coalesce_gap
  BY FilesHaveSizes, GapIsNumber DEF ScanIInv, Called
<1>7. Lacking(File.size)
  BY <1>2, <1>6 DEF Lacking, ScanIInv, FetchLacks
<1>8. Coming = {}
  BY <1>2 DEF Coming, Getting
<1>9. UNION {Offsets(Requests[i]) : i \in DOMAIN Requests} = Together(Parts)
  BY <1>6, <1>7, RequestsTogether DEF Lacking
<1>10. Coming' = Together(Parts)
  BY <1>2, <1>9 DEF Coming, Getting
<1>11. QED
  BY <1>2, <1>4, <1>5, <1>7, <1>8, <1>10

\* No other step asks for anything, or brings it.
LEMMA Resting ==
    ASSUME Trusted, ScanIInv, WasteIInv, [Next]_vars, ~Fetching, ~GettingNext
    PROVE  /\ Brought' = Brought /\ Coming' = Coming /\ planned' = planned
           /\ pc' \in Getting => UNCHANGED vars
           /\ ~UNCHANGED vars => pc \notin Getting
<1>1. FooterPhase' = FooterPhase /\ FooterPhase \in {0, 1}
  BY TheCostsStay
<1>2. CASE UNCHANGED vars
  <2>1. pc' = pc /\ pending' = pending /\ requests' = requests /\ planned' = planned
    BY <1>2 DEF vars, readerVars, storeVars
  <2>2. QED
    BY <1>1, <1>2, <2>1 DEF Brought, AfterFooter, Coming
<1>3. CASE ~UNCHANGED vars
  <2>1. pc \notin Getting /\ pc' \notin Getting /\ planned' = planned
    BY <1>3 DEF Next, Fetching, GettingNext, FetchTail, FetchFooter, FetchFooterRest, WantIndexes, MakePlan,
       WantData, Decode, Lack, Getting
  <2>2. Coming = {} /\ Coming' = {}
    BY <2>1 DEF Coming
  <2>3. Brought' = Brought
    <3>1. CASE FetchTail
      <4>1. Get(key, Bounded(SpanOf(TailStart, File.size))) /\ phase = 0
        BY <3>1 DEF FetchTail, WasteIInv, FooterPhases
      <4>2. phase <= FooterPhase
        BY <1>1, <4>1
      <4>3. QED
        BY <1>1, <4>1, <4>2, GetsBring DEF ScanIInv
    <3>2. CASE FetchFooterRest
      <4>1. Get(key, Bounded(SpanOf(File.footer, TailStart))) /\ phase = 1 /\ File.footer < TailStart
        BY <3>2 DEF FetchFooterRest, WasteIInv, FooterPhases, ScanIInv, FooterFirst
      <4>2. FooterPhase = 1
        <5>1. TailStart \in Nat /\ File.footer \in Nat
          BY FilesHaveSizes DEF ScanIInv, Called
        <5>2. QED
          BY <4>1, <5>1 DEF FooterPhase
      <4>3. QED
        BY <1>1, <4>1, <4>2, GetsBring DEF ScanIInv
    <3>3. CASE requests' = requests
      BY <1>1, <3>3 DEF Brought, AfterFooter
    <3>4. FetchTail \/ FetchFooterRest \/ requests' = requests
      BY <1>3 DEF Next, Fetching, GettingNext, FetchFooter, WantIndexes, MakePlan, WantData, Decode, storeVars,
         NextPhase
    <3>5. QED
      BY <3>1, <3>2, <3>3, <3>4
  <2>4. QED
    BY <1>3, <2>1, <2>2, <2>3
<1>4. QED
  BY <1>2, <1>3

LEMMA FooterPhasesStep ==
    ASSUME Trusted, ScanIInv, WasteIInv, [Next]_vars
    PROVE  FooterPhases'
<1>1. FooterPhase' = FooterPhase /\ FooterPhase \in {0, 1} /\ TailStart' = TailStart /\ File' = File
  BY TheCostsStay
<1>2. /\ FooterPhases /\ phase \in Nat
      /\ File.footer \in Nat /\ TailStart \in Nat
  BY FilesHaveSizes DEF WasteIInv, ScanIInv, StoreIInv, StoreTypeOK, Called
<1>3. CASE Fetching
  <2>1. pc' \in Getting /\ phase' > FooterPhase /\ phase' = phase + 1
    BY <1>3, Asking
  <2>2. phase' >= FooterPhase'
    BY <1>1, <1>2, <2>1
  <2>3. QED
    BY <1>1, <2>1, <2>2 DEF FooterPhases, Getting, BeforeIndexes
<1>4. CASE GettingNext
  <2>1. phase' = phase /\ phase > FooterPhase
    BY <1>4, AnsweringNext
  <2>2. phase' >= FooterPhase'
    BY <1>1, <1>2, <2>1
  <2>3. pc' \in Getting \cup {"data", "decode"}
    BY <1>4 DEF GettingNext, GetNext, Getting
  <2>4. QED
    BY <1>1, <2>1, <2>2, <2>3 DEF FooterPhases, Getting, BeforeIndexes
<1>5. CASE UNCHANGED vars
  BY <1>1, <1>2, <1>5 DEF FooterPhases, vars, storeVars, readerVars, AfterFooter, BeforeIndexes, Getting
<1>6. CASE FetchTail
  <2>1. pc' = "footer" /\ phase = 0 /\ requests = <<>> /\ AfterFooter = {}
        /\ Get(key, Bounded(SpanOf(TailStart, File.size)))
    BY <1>2, <1>6 DEF FetchTail, FooterPhases, ScanIInv, FooterFirst, BeforeIndexes
  <2>2. phase' = 0 /\ AfterFooter' = {}
    <3>1. phase <= FooterPhase
      BY <1>1, <2>1
    <3>2. QED
      BY <1>1, <2>1, <3>1, GetsBring DEF ScanIInv
  <2>3. QED
    BY <2>1, <2>2 DEF FooterPhases, Getting, BeforeIndexes
<1>7. CASE FetchFooter
  <2>1. pc = "footer" /\ phase = 0 /\ AfterFooter = {}
    BY <1>2, <1>7 DEF FetchFooter, FooterPhases, BeforeIndexes
  <2>2. requests' = requests
    BY <1>7 DEF FetchFooter, NextPhase, storeVars
  <2>3. AfterFooter' = {}
    BY <1>1, <2>1, <2>2 DEF AfterFooter
  <2>4. CASE TailStart <= File.footer
    <3>1. pc' = "indexes" /\ phase' = 0 /\ FooterPhase' = 0
      BY <1>1, <1>7, <2>1, <2>4 DEF FetchFooter, storeVars, FooterPhase
    <3>2. QED
      BY <2>3, <3>1 DEF FooterPhases, Getting, BeforeIndexes
  <2>5. CASE ~(TailStart <= File.footer)
    <3>1. pc' = "footerRest" /\ phase' = 1
      BY <1>7, <2>1, <2>5 DEF FetchFooter, NextPhase
    <3>2. QED
      BY <2>3, <3>1 DEF FooterPhases, Getting, BeforeIndexes
  <2>6. QED
    BY <2>4, <2>5
<1>8. CASE FetchFooterRest
  <2>1. pc' = "indexes" /\ phase = 1 /\ AfterFooter = {} /\ File.footer < TailStart
        /\ Get(key, Bounded(SpanOf(File.footer, TailStart)))
    BY <1>2, <1>8 DEF FetchFooterRest, FooterPhases, ScanIInv, FooterFirst, BeforeIndexes
  <2>2. FooterPhase = 1
    BY <1>2, <2>1 DEF FooterPhase
  <2>3. phase' = 1 /\ AfterFooter' = {}
    BY <1>1, <2>1, <2>2, GetsBring DEF ScanIInv
  <2>4. QED
    BY <1>1, <2>1, <2>2, <2>3 DEF FooterPhases, Getting, BeforeIndexes
<1>9. CASE WantIndexes \/ MakePlan \/ WantData \/ Decode
  <2>1. /\ pc \notin {"tail", "footer", "footerRest"} \cup Getting
        /\ pc' \notin {"tail", "footer", "footerRest"} \cup Getting
        /\ requests' = requests /\ phase' = phase
        /\ pc' \in BeforeIndexes => pc \in BeforeIndexes
    BY <1>9 DEF WantIndexes, MakePlan, WantData, Decode, Lack, Getting, BeforeIndexes, storeVars
  <2>2. AfterFooter' = AfterFooter
    BY <1>1, <2>1 DEF AfterFooter
  <2>3. QED
    BY <1>1, <1>2, <2>1, <2>2 DEF FooterPhases
<1>10. QED
  BY <1>3, <1>4, <1>5, <1>6, <1>7, <1>8, <1>9 DEF Next, Fetching, GettingNext

\* Only a fetch plans or asks for more, and it asks for what it plans, and gaps.
LEMMA PlannedIsAskedStep ==
    ASSUME Trusted, ScanIInv, WasteIInv, [Next]_vars
    PROVE  PlannedIsAsked'
<1>1. /\ Unmerged' <=> Unmerged
      /\ File' = File /\ Called /\ StoreIInv /\ TraceIsHeld /\ PlannedIsAsked /\ File.size \in Nat
  BY TheCostsStay, FilesHaveSizes DEF ScanIInv, WasteIInv, Called
<1>2. /\ wanted \subseteq InFile(File.size) /\ IsFiniteSet(Asked) /\ planned \in Nat
      /\ planned <= Cardinality(Asked)
      /\ Unmerged => planned = Cardinality(Asked)
  BY <1>1 DEF PlannedIsAsked
<1>3. wanted' \subseteq InFile(File.size)
  <2>1. CASE WantIndexes /\ query.op # "all"
    <3>1. wanted' = UNION {Missing(have, s) : s \in IndexesWanted} /\ IndexesWanted \subseteq InFile(File.size)
      BY <1>1, <2>1, IndexesAreInFile DEF WantIndexes, Lack
    <3>2. QED
      BY <1>1, <3>1, LackOfSpans
  <2>2. CASE WantData
    <3>1. wanted' = UNION {Missing(have, s) : s \in DataWanted}
      BY <2>2 DEF WantData, Lack
    <3>2. DataWanted \subseteq InFile(File.size)
      BY <2>2 DEF WantData, DataWanted, ScanIInv, PlanReadsWhatIsDecoded, HasPlan, Reads
    <3>3. QED
      BY <1>1, <3>1, <3>2, LackOfSpans
  <2>3. CASE wanted' = wanted
    BY <1>2, <2>3
  <2>4. \/ WantIndexes /\ query.op # "all"
        \/ WantData
        \/ wanted' = wanted
    BY DEF Next, vars, readerVars, FetchTail, FetchFooter, FetchFooterRest, WantIndexes, Fetch, GetNext, MakePlan, Decode
  <2>5. QED
    BY <2>1, <2>2, <2>3, <2>4
<1>4. CASE Fetching
  <2> DEFINE n == File.size
  <2>1. /\ Brought' = Brought /\ Coming = {} /\ Coming' = Together(Parts)
        /\ planned' = planned + Planned /\ Lacking(n)
        /\ pc \in {"indexFetch", "dataFetch"}
    BY <1>4, Asking
  <2> HIDE DEF n
  <2>2. /\ n \in Nat /\ wanted \subseteq InFile(n)
        /\ \A w \in wanted : Offsets(w) \cap have = {}
        /\ strategy.coalesce_gap \in Int /\ -1 <= strategy.coalesce_gap
    BY <2>1 DEF Lacking
  <2>3. Asked = Brought /\ Asked' = Brought \cup Together(Parts)
    BY <2>1 DEF Asked
  <2>4. Brought \subseteq have
    BY <1>1 DEF Brought, AfterFooter, TraceIsHeld
  <2>5. Together(Parts) = Together(Coalesce(wanted, strategy.coalesce_gap)) \ have /\ Parts \subseteq InFile(n)
    BY <2>2, PartsOfAFetch
  <2>6. Together(wanted) \cap have = {}
    BY <2>2 DEF Together
  <2>7. Together(wanted) \subseteq Together(Coalesce(wanted, strategy.coalesce_gap))
    BY <2>2, CoalesceHolds
  <2>8. Together(wanted) \subseteq Together(Parts)
    BY <2>5, <2>6, <2>7
  <2>9. IsFiniteSet(Together(Parts)) /\ IsFiniteSet(Brought)
    BY <1>2, <2>2, <2>3, <2>5, SpansAreFinite
  <2>10. /\ Cardinality(Together(wanted)) \in Nat /\ Cardinality(Together(Parts)) \in Nat
         /\ Cardinality(Brought) \in Nat
         /\ Cardinality(Together(wanted)) <= Cardinality(Together(Parts))
    BY <2>8, <2>9, FS_Subset, FS_CardinalityType
  <2>11. IsFiniteSet(Asked') /\ Cardinality(Asked') = Cardinality(Brought) + Cardinality(Together(Parts))
    <3>1. Brought \cap Together(Parts) = {}
      BY <2>4, <2>5
    <3>2. /\ IsFiniteSet(Brought \cup Together(Parts))
          /\ Cardinality(Brought \cup Together(Parts)) =
                Cardinality(Brought) + Cardinality(Together(Parts)) - Cardinality({})
      BY <2>9, <3>1, FS_Union
    <3>3. QED
      BY <2>3, <2>10, <3>2, FS_EmptySet
  <2>12. Planned = Cardinality(Together(wanted))
    BY <2>2, PlannedIsWanted
  <2>13. planned' \in Nat /\ planned' <= Cardinality(Asked')
    BY <1>2, <2>1, <2>3, <2>10, <2>11, <2>12
  <2>14. Unmerged => planned' = Cardinality(Asked')
    <3> SUFFICES ASSUME Unmerged
                 PROVE  planned' = Cardinality(Asked')
      OBVIOUS
    <3>1. Together(Coalesce(wanted, strategy.coalesce_gap)) = Together(wanted)
      BY <2>2, NothingIsAdded DEF Unmerged
    <3>2. Together(Parts) = Together(wanted)
      BY <2>5, <2>6, <3>1
    <3>3. QED
      BY <1>2, <2>1, <2>3, <2>11, <2>12, <3>2
  <2>15. QED
    BY <1>1, <1>3, <2>11, <2>13, <2>14 DEF PlannedIsAsked
<1>5. CASE ~Fetching
  <2>1. Asked' = Asked /\ planned' = planned
    <3>1. CASE GettingNext
      <4>1. Asked' = Asked
        BY <3>1, AnsweringNext DEF Asked
      <4>2. QED
        BY <3>1, <4>1 DEF GettingNext, GetNext
    <3>2. CASE ~GettingNext
      BY <1>5, <3>2, Resting DEF Asked
    <3>3. QED
      BY <3>1, <3>2
  <2>2. QED
    BY <1>1, <1>2, <1>3, <2>1 DEF PlannedIsAsked
<1>6. QED
  BY <1>4, <1>5

\* What is held after the footer is the end of the file; what a fetch of the indexes adds to it leaves
\* it spread.
LEMMA HeldIsSpreadStep ==
    ASSUME Trusted, ScanIInv, WasteIInv, [Next]_vars
    PROVE  HeldIsSpread'
<1> DEFINE n == File.size
<1>1. /\ File' = File /\ strategy' = strategy /\ Called /\ TraceIsHeld /\ TraceIsHeld'
      /\ HeldIsSpread /\ n \in Nat
      /\ TailStart \in Nat /\ TailStart < n /\ File.footer \in Nat /\ File.footer < n
  BY TheCostsStay, FilesHaveSizes, StoreStep DEF ScanIInv, WasteIInv, Called
<1>2. strategy.coalesce_gap \in Int /\ -1 <= strategy.coalesce_gap
  BY <1>1, GapIsNumber
<1> HIDE DEF n
<1>3. ASSUME NEW from \in 0 .. n, NEW held, held = from .. n - 1
      PROVE  Spread(held)
  <2> SUFFICES ASSUME NEW x \in held, NEW y \in held
               PROVE  y .. n - 1 \subseteq held
    BY DEF Spread, n
  <2>1. y \in Int /\ from <= y /\ from \in Int
    BY <1>3
  <2>2. QED
    BY <1>1, <1>3, <2>1
<1>4. ASSUME NEW held, held = (have \cup Coming)', Spread(held)
      PROVE  Spread(have \cup Coming)'
  <2>1. \A x, y \in held : \A z \in x .. y :
           z \notin held => y - x > strategy.coalesce_gap \/ y .. File.size - 1 \subseteq held
    BY <1>4 DEF Spread
  <2>2. \A x, y \in (have \cup Coming)' : \A z \in x .. y :
           z \notin (have \cup Coming)' =>
              y - x > strategy'.coalesce_gap \/ y .. File'.size - 1 \subseteq (have \cup Coming)'
    BY <1>1, <1>4, <2>1
  <2>3. QED
    BY <2>2 DEF Spread
<1>5. /\ have \subseteq 0 .. n - 1
      /\ pc \in {"indexes", "indexFetch"} => \E from \in 0 .. n : have = from .. n - 1
      /\ pc \in {"indexGets", "data", "wantData", "dataFetch"} => Spread(have \cup Coming)
  BY <1>1 DEF HeldIsSpread, n
<1>6. SUFFICES /\ have' \subseteq 0 .. n - 1
               /\ pc' \in {"indexes", "indexFetch"} => \E from \in 0 .. n : have' = from .. n - 1
               /\ pc' \in {"indexGets", "data", "wantData", "dataFetch"} => Spread(have \cup Coming)'
  BY <1>1 DEF HeldIsSpread, n
<1>7. CASE FetchTail
  <2>1. have' = TailStart .. n - 1 /\ pc' = "footer"
    BY <1>7 DEF FetchTail, n
  <2>2. TailStart .. n - 1 \subseteq 0 .. n - 1
    BY <1>1
  <2>3. QED
    BY <2>1, <2>2
<1>8. CASE FetchFooter
  <2>1. have = TailStart .. n - 1 /\ have' = have /\ pc' \in {"indexes", "footerRest"}
    BY <1>8 DEF FetchFooter, ScanIInv, FooterFirst, n
  <2>2. TailStart \in 0 .. n
    BY <1>1
  <2>3. QED
    BY <1>5, <2>1, <2>2
<1>9. CASE FetchFooterRest
  <2>1. /\ have = TailStart .. n - 1 /\ have' = have \cup File.footer .. TailStart - 1
        /\ File.footer < TailStart /\ pc' = "indexes"
    BY <1>9 DEF FetchFooterRest, ScanIInv, FooterFirst, n
  <2>2. have' = File.footer .. n - 1
    BY <1>1, <2>1
  <2>3. File.footer \in 0 .. n /\ File.footer .. n - 1 \subseteq 0 .. n - 1
    BY <1>1
  <2>4. QED
    BY <2>1, <2>2, <2>3
<1>10. CASE WantIndexes
  <2>1. pc = "indexes" /\ have' = have /\ pc' \in {"data", "indexFetch"}
    BY <1>10 DEF WantIndexes, Lack
  <2>2. PICK from \in 0 .. n : have = from .. n - 1
    BY <1>5, <2>1
  <2>3. pc' = "data" => (have \cup Coming)' = have
    BY <2>1 DEF Coming, Getting
  <2>4. pc' = "data" => Spread(have \cup Coming)'
    BY <1>3, <1>4, <2>2, <2>3
  <2>5. QED
    BY <1>5, <2>1, <2>2, <2>4
<1>11. CASE Fetching
  <2>1. /\ have' = have /\ Coming = {} /\ Coming' = Together(Parts) /\ Lacking(n)
        /\ pc \in {"indexFetch", "dataFetch"} /\ pc' \in {"indexGets", "dataGets"}
        /\ pc = "dataFetch" => pc' = "dataGets"
    BY <1>11, Asking DEF Getting, n
  <2>2. CASE pc = "indexFetch"
    <3>1. PICK from \in 0 .. n : have = from .. n - 1
      BY <1>5, <2>2
    <3> DEFINE held == have \cup Together(Coalesce(wanted, strategy.coalesce_gap))
    <3>2. Spread(held)
      BY <1>1, <1>2, <2>1, <3>1, FetchSpreads DEF Lacking, n
    <3>3. Together(Parts) = Together(Coalesce(wanted, strategy.coalesce_gap)) \ have
      BY <1>1, <1>2, <2>1, PartsOfAFetch DEF Lacking
    <3>4. held = (have \cup Coming)'
      BY <2>1, <3>3
    <3> HIDE DEF held
    <3>5. Spread(have \cup Coming)'
      BY <1>4, <3>2, <3>4
    <3>6. QED
      BY <1>5, <2>1, <3>5
  <2>3. CASE pc = "dataFetch"
    BY <1>5, <2>1, <2>3
  <2>4. QED
    BY <2>1, <2>2, <2>3
<1>12. CASE GettingNext
  <2> DEFINE s == Head(pending)
  <2>1. /\ have' = have \cup Offsets(s) /\ Coming = Offsets(s) \cup Coming'
        /\ pc \in Getting
    BY <1>12, AnsweringNext
  <2>2. /\ pc' \in {"indexGets", "data", "dataGets", "decode"}
        /\ pc' \in {"indexGets", "data"} => pc = "indexGets"
    BY <1>12 DEF GettingNext, GetNext
  <2>3. Offsets(s) \subseteq 0 .. n - 1
    <3>1. pending \in Seq(InFile(n)) /\ pending # <<>>
      BY <2>1 DEF ScanIInv, FetchBrings, Getting, n
    <3>2. s \in InFile(n)
      BY <3>1
    <3> HIDE DEF s
    <3>3. s \in Span /\ s.end \in Nat /\ s.end <= n
      BY <3>2, SpansAreTheirEnds DEF InFile
    <3> SUFFICES ASSUME NEW x \in Offsets(s)
                 PROVE  x \in 0 .. n - 1
      OBVIOUS
    <3>4. x \in Nat /\ x < s.end
      BY <3>3, OffsetsOfSpans
    <3>5. QED
      BY <1>1, <3>3, <3>4
  <2> HIDE DEF s
  <2>4. have' \subseteq 0 .. n - 1
    BY <1>5, <2>1, <2>3
  <2>5. have \cup Coming = (have \cup Coming)'
    BY <2>1
  <2>6. pc = "indexGets" => Spread(have \cup Coming)'
    BY <1>4, <1>5, <2>5
  <2>7. QED
    BY <2>2, <2>4, <2>6
<1>13. CASE MakePlan \/ WantData
  <2>1. /\ have' = have /\ pc \in {"data", "wantData"}
        /\ pc' \in {"done", "wantData", "dataFetch", "decode"}
    BY <1>13 DEF MakePlan, WantData, Lack
  <2>2. Coming = {} /\ Coming' = {}
    BY <2>1 DEF Coming, Getting
  <2>3. have \cup Coming = (have \cup Coming)'
    BY <2>1, <2>2
  <2>4. Spread(have \cup Coming)'
    BY <1>4, <1>5, <2>1, <2>3
  <2>5. QED
    BY <1>5, <2>1, <2>4
<1>14. CASE Decode
  BY <1>5, <1>14 DEF Decode
<1>15. CASE UNCHANGED vars
  <2>1. pc' = pc /\ have' = have /\ pending' = pending
    BY <1>15 DEF vars, readerVars
  <2>2. have \cup Coming = (have \cup Coming)'
    BY <2>1 DEF Coming
  <2>3. QED
    BY <1>4, <1>5, <2>1, <2>2
<1>16. QED
  BY <1>7, <1>8, <1>9, <1>10, <1>11, <1>12, <1>13, <1>14, <1>15 DEF Next, Fetching, GettingNext

(***************************************************************************)
(* What the statistics rule out                                            *)
(***************************************************************************)

\* What a chunk's plan reads is of the chunk.
LEMMA ReadsAreOfTheChunk ==
    ASSUME NEW file, NEW group, NEW chunk, Sound(file, group, chunk), NEW held, NEW rows, NEW useIndex,
           NEW s \in ColumnRead(held, chunk, rows, useIndex)
    PROVE  Offsets(s) \subseteq Offsets(chunk.range)
<1>1. \/ s = chunk.range
      \/ \E i \in DOMAIN chunk.pages : s = chunk.pages[i].span
      \/ s = Dictionary(chunk)
  BY DEF ColumnRead, Dictionary
<1>2. QED
  BY <1>1 DEF Sound, LaidOut

\* Offsets of the row groups that are not ruled out: neither their indexes nor their data are of one
\* that is.
OthersOffsets ==
    UNION {ChunkOffsets(File.groups[g].columns[c]) : g \in DOMAIN File.groups \ RuledOutGroups, c \in Touched}

LEMMA OthersAreApart ==
    ASSUME Trusted, GroupsApart, Called
    PROVE  OthersOffsets \cap RuledOutOffsets = {}
<1>1. RuledOutGroups \subseteq DOMAIN File.groups
  BY DEF RuledOutGroups
<1>2. \A g \in DOMAIN File.groups : Touched \subseteq DOMAIN File.groups[g].columns
  BY DEF Trusted, QueriesOfFiles, Called, Touched, File
<1>3. \A g, h \in DOMAIN File.groups : g # h =>
         \A c \in DOMAIN File.groups[g].columns, d \in DOMAIN File.groups[h].columns :
            ChunkOffsets(File.groups[g].columns[c]) \cap ChunkOffsets(File.groups[h].columns[d]) = {}
  BY DEF GroupsApart, Called, File
<1>4. ASSUME NEW x \in OthersOffsets, x \in RuledOutOffsets
      PROVE  FALSE
  <2>1. PICK g \in DOMAIN File.groups \ RuledOutGroups, c \in Touched :
           x \in ChunkOffsets(File.groups[g].columns[c])
    BY DEF OthersOffsets
  <2>2. PICK h \in RuledOutGroups, d \in Touched : x \in ChunkOffsets(File.groups[h].columns[d])
    BY <1>4 DEF RuledOutOffsets
  <2>3. g # h /\ h \in DOMAIN File.groups
    BY <1>1
  <2>4. c \in DOMAIN File.groups[g].columns /\ d \in DOMAIN File.groups[h].columns
    BY <1>2, <2>3
  <2>5. ChunkOffsets(File.groups[g].columns[c]) \cap ChunkOffsets(File.groups[h].columns[d]) = {}
    BY <1>3, <2>3, <2>4
  <2>6. QED
    BY <2>1, <2>2, <2>5
<1>5. QED
  BY <1>4

LEMMA IndexesAreOfOthers ==
    ASSUME query.op # "all", strategy.statistics
    PROVE  Together(IndexesWanted) \subseteq OthersOffsets
<1> SUFFICES ASSUME NEW g \in DOMAIN File.groups, NEW s \in GroupIndexes(File.groups[g]), NEW x \in Offsets(s)
             PROVE  x \in OthersOffsets
  BY DEF Together, IndexesWanted
<1> DEFINE chunk == File.groups[g].columns[query.column]
<1>1. ~StatisticsSkip(File, chunk, query)
  BY DEF GroupIndexes
<1>2. g \notin RuledOutGroups
  BY <1>1 DEF RuledOutGroups
<1>3. \/ s = chunk.bloom.span
      \/ s = chunk.column_index.span
      \/ \E c \in Touched : s = File.groups[g].columns[c].offset_index
  BY <1>1 DEF GroupIndexes
<1>4. query.column \in Touched
  BY DEF Touched
<1>5. \E c \in Touched : x \in ChunkOffsets(File.groups[g].columns[c])
  BY <1>3, <1>4 DEF ChunkOffsets
<1>6. QED
  BY <1>2, <1>5 DEF OthersOffsets

LEMMA PlansAreOfOthers ==
    ASSUME Trusted, Called, query.op # "all", strategy.statistics,
           NEW g \in DOMAIN Kept, NEW s \in Kept[g].spans
    PROVE  Offsets(s) \subseteq OthersOffsets
<1> DEFINE plan == GroupPlan(File, g, have, query, Touched, Use)
           chunk == File.groups[g].columns[query.column]
<1>1. g \in DOMAIN File.groups /\ ~plan.skipped /\ s \in plan.reads
  BY DEF Kept, Plan
<1>2. StatisticsSkip(File, chunk, query) => plan.skipped
  BY DEF GroupPlan, Use
<1>3. g \notin RuledOutGroups
  BY <1>1, <1>2 DEF RuledOutGroups
<1>4. PICK c \in Touched : \E rows, useIndex : s \in ColumnRead(have, File.groups[g].columns[c], rows, useIndex)
  BY <1>1, PlansReadColumns
<1>5. Sound(File, File.groups[g], File.groups[g].columns[c])
  BY <1>1, TouchedChunksAreSound
<1>6. Offsets(s) \subseteq Offsets(File.groups[g].columns[c].range)
  BY <1>4, <1>5, ReadsAreOfTheChunk
<1>7. Offsets(File.groups[g].columns[c].range) \subseteq ChunkOffsets(File.groups[g].columns[c])
  BY DEF ChunkOffsets
<1>8. ChunkOffsets(File.groups[g].columns[c]) \subseteq OthersOffsets
  BY <1>1, <1>3 DEF OthersOffsets
<1>9. QED
  BY <1>6, <1>7, <1>8

\* What is lacking of some spans is of them.
LEMMA LackIsInside ==
    ASSUME NEW n, NEW spans, spans \subseteq InFile(n)
    PROVE  Together(UNION {Missing(have, s) : s \in spans}) \subseteq Together(spans)
<1> SUFFICES ASSUME NEW s \in spans, NEW m \in Missing(have, s), NEW x \in Offsets(m)
             PROVE  x \in Offsets(s)
  BY DEF Together
<1>1. s \in Span
  BY DEF InFile
<1>2. QED
  BY <1>1, MissingRuns

LEMMA RuledOutIsLeftStep ==
    ASSUME Trusted, GroupsApart, ScanIInv, WasteIInv, RuledOutIsLeft, [Next]_vars
    PROVE  RuledOutIsLeft'
<1> SUFFICES ASSUME SkipsByStatistics'
             PROVE  /\ Asked' \cap RuledOutOffsets' = {}
                    /\ pc' \in {"indexFetch", "dataFetch"} => Together(wanted') \cap RuledOutOffsets' = {}
                    /\ HasPlan' => Together(DataWanted)' \cap RuledOutOffsets' = {}
  BY DEF RuledOutIsLeft, Together
<1>1. /\ RuledOutOffsets' = RuledOutOffsets /\ SkipsByStatistics /\ Called
      /\ strategy.statistics /\ query.op # "all" /\ Unmerged
      /\ File.size \in Nat
  BY TheCostsStay, FilesHaveSizes DEF ScanIInv, Called, SkipsByStatistics
<1>2. /\ Asked \cap RuledOutOffsets = {}
      /\ pc \in {"indexFetch", "dataFetch"} => Together(wanted) \cap RuledOutOffsets = {}
      /\ HasPlan => Together(DataWanted) \cap RuledOutOffsets = {}
  BY <1>1 DEF RuledOutIsLeft
<1>3. OthersOffsets \cap RuledOutOffsets = {}
  BY <1>1, OthersAreApart
<1>4. HasPlan' /\ ~MakePlan => HasPlan /\ groups' = groups
  BY DEF Next, vars, readerVars, FetchTail, FetchFooter, FetchFooterRest, WantIndexes, Fetch, GetNext,
         Lack, WantData, Decode, HasPlan
<1>5. HasPlan' => Together(DataWanted)' \cap RuledOutOffsets' = {}
  <2>1. CASE MakePlan
    <3> SUFFICES ASSUME HasPlan'
                 PROVE  Together(DataWanted)' \subseteq OthersOffsets
      BY <1>1, <1>3
    <3>1. groups' = Kept
      BY <2>1 DEF MakePlan, HasPlan
    <3>2. \A g \in DOMAIN Kept : \A s \in Kept[g].spans : Offsets(s) \subseteq OthersOffsets
      BY <1>1, PlansAreOfOthers
    <3>3. QED
      BY <3>1, <3>2 DEF DataWanted, Together
  <2>2. CASE ~MakePlan
    <3>1. HasPlan' => Together(DataWanted)' = Together(DataWanted)
      BY <1>4, <2>2 DEF DataWanted, Together
    <3>2. QED
      BY <1>1, <1>2, <1>4, <2>2, <3>1
  <2>3. QED
    BY <2>1, <2>2
<1>6. pc' \in {"indexFetch", "dataFetch"} => Together(wanted') \cap RuledOutOffsets' = {}
  <2>1. CASE WantIndexes
    <3>1. wanted' = UNION {Missing(have, s) : s \in IndexesWanted}
      BY <1>1, <2>1 DEF WantIndexes, Lack
    <3>2. Together(wanted') \subseteq OthersOffsets
      BY <1>1, <3>1, IndexesAreInFile, LackIsInside, IndexesAreOfOthers
    <3>3. QED
      BY <1>1, <1>3, <3>2
  <2>2. CASE WantData
    <3>1. wanted' = UNION {Missing(have, s) : s \in DataWanted} /\ HasPlan
      BY <2>2 DEF WantData, Lack, HasPlan
    <3>2. DataWanted \subseteq InFile(File.size)
      BY <2>2 DEF WantData, DataWanted, ScanIInv, PlanReadsWhatIsDecoded, HasPlan, Reads
    <3>3. Together(wanted') \subseteq Together(DataWanted)
      BY <3>1, <3>2, LackIsInside
    <3>4. QED
      BY <1>1, <1>2, <3>1, <3>3
  <2>3. CASE UNCHANGED vars
    BY <1>1, <1>2, <2>3 DEF vars, readerVars
  <2>4. pc' \in {"indexFetch", "dataFetch"} => WantIndexes \/ WantData \/ UNCHANGED vars
    BY DEF Next, FetchTail, FetchFooter, FetchFooterRest, Fetch, GetNext, MakePlan, Decode
  <2>5. QED
    BY <2>1, <2>2, <2>3, <2>4
<1>7. Asked' \cap RuledOutOffsets' = {}
  <2>1. CASE Fetching
    <3>1. /\ Brought' = Brought /\ Coming' = Together(Parts) /\ Lacking(File.size)
          /\ pc \in {"indexFetch", "dataFetch"}
      BY <2>1, Asking
    <3>2. strategy.coalesce_gap \in Int /\ -1 <= strategy.coalesce_gap /\ strategy.coalesce_gap <= 0
      BY <1>1, GapIsNumber DEF Unmerged
    <3>3. Together(Parts) \subseteq Together(Coalesce(wanted, strategy.coalesce_gap))
      BY <1>1, <3>1, <3>2, PartsOfAFetch DEF Lacking
    <3>4. Together(Parts) \subseteq Together(wanted)
      BY <1>1, <3>1, <3>2, <3>3, NothingIsAdded DEF Lacking
    <3>5. Brought \subseteq Asked
      BY DEF Asked
    <3>6. Asked' \subseteq Asked \cup Together(wanted)
      BY <3>1, <3>4, <3>5 DEF Asked
    <3>7. QED
      BY <1>1, <1>2, <3>1, <3>6
  <2>2. CASE GettingNext
    <3>1. Asked' = Asked
      BY <2>2, AnsweringNext DEF Asked
    <3>2. QED
      BY <1>1, <1>2, <3>1
  <2>3. CASE ~Fetching /\ ~GettingNext
    <3>1. Asked' = Asked
      BY <2>3, Resting DEF Asked
    <3>2. QED
      BY <1>1, <1>2, <3>1
  <2>4. QED
    BY <2>1, <2>2, <2>3
<1>8. QED
  BY <1>5, <1>6, <1>7

(***************************************************************************)
(* The theorems about costs                                                *)
(***************************************************************************)

LEMMA WasteInvInit == ASSUME Trusted, Init PROVE WasteIInv /\ RuledOutIsLeft
<1>1. /\ pc = "tail" /\ phase = 0 /\ requests = <<>> /\ wanted = {} /\ planned = 0 /\ have = {} /\ pending = <<>>
  BY DEF Init, StoreInit
<1>2. AfterFooter = {} /\ Brought = {} /\ Coming = {} /\ Asked = {}
  <2>1. DOMAIN requests = {}
    BY <1>1
  <2>2. AfterFooter = {}
    BY <2>1 DEF AfterFooter
  <2>3. QED
    BY <1>1, <2>2 DEF Brought, Coming, Asked, Getting
<1>3. FooterPhases
  BY <1>1, <1>2 DEF FooterPhases, Getting, BeforeIndexes
<1>4. PlannedIsAsked
  <2>1. IsFiniteSet({}) /\ Cardinality({}) = 0
    BY FS_EmptySet
  <2>2. QED
    BY <1>1, <1>2, <2>1 DEF PlannedIsAsked
<1>5. HeldIsSpread /\ RuledOutIsLeft
  BY <1>1, <1>2 DEF HeldIsSpread, RuledOutIsLeft, HasPlan
<1>6. QED
  BY <1>3, <1>4, <1>5 DEF WasteIInv

\* At every step of a scan: what was asked for is what was planned, and gaps; and between bytes that
\* are held nothing is missing that a fetch would be merged over (fetch in scan.rs, coalesce in prune.rs).
THEOREM WasteInvariant ==
    ASSUME Trusted
    PROVE  Spec => [](ScanIInv /\ WasteIInv)
<1>1. ASSUME ScanIInv, WasteIInv, [Next]_vars
      PROVE  WasteIInv'
  BY <1>1, FooterPhasesStep, PlannedIsAskedStep, HeldIsSpreadStep DEF WasteIInv
<1>2. Init => WasteIInv
  BY WasteInvInit
<1>3. QED
  BY <1>1, <1>2, ScanInvariant, PTL DEF Spec

\* A strategy that merges nothing never wants, asks for or fetches a byte of a row group that the
\* statistics rule out (plan in prune.rs).
THEOREM RuledOutGroupsAreLeft ==
    ASSUME Trusted, GroupsApart
    PROVE  Spec => []RuledOutIsLeft
<1>1. ASSUME ScanIInv, WasteIInv, RuledOutIsLeft, [Next]_vars
      PROVE  RuledOutIsLeft'
  BY <1>1, RuledOutIsLeftStep
<1>2. Init => RuledOutIsLeft
  BY WasteInvInit
<1>3. QED
  BY <1>1, <1>2, WasteInvariant, PTL DEF Spec

\* What the requests after the footer returned is what they brought, each byte once.
LEMMA FetchedIsBrought ==
    ASSUME ScanIInv
    PROVE  SumFunction([i \in AfterFooter |-> SpanLen(requests[i].returned)]) = Cardinality(Brought)
<1> DEFINE parts == [i \in AfterFooter |-> Offsets(requests[i].returned)]
           size == [i \in AfterFooter |-> SpanLen(requests[i].returned)]
<1>1. /\ AfterFooter \subseteq DOMAIN requests
      /\ \A i \in AfterFooter : requests[i].returned \in Span
      /\ \A i, j \in AfterFooter : i # j => parts[i] \cap parts[j] = {}
  BY DEF AfterFooter, ScanIInv, TraceIsHeld, Apart, InFile
<1>2. IsFiniteSet(AfterFooter)
  <2>1. Len(requests) \in Nat /\ DOMAIN requests = 1 .. Len(requests)
    BY DEF ScanIInv, StoreIInv, StoreTypeOK
  <2>2. IsFiniteSet(DOMAIN requests)
    BY <2>1, FS_Interval
  <2>3. QED
    BY <1>1, <2>2, FS_Subset
<1>3. \A i \in AfterFooter : IsFiniteSet(parts[i]) /\ size[i] = Cardinality(parts[i])
  BY <1>1, SpanSize
<1>4. \A z : z \in Brought <=> \E i \in AfterFooter : z \in parts[i]
  BY DEF Brought
<1>5. SumFunction(size) = SumFunctionOnSet(size, AfterFooter)
  BY DEF SumFunction
<1> HIDE DEF size, parts
<1>6. SumFunctionOnSet(size, AfterFooter) = Cardinality(Brought)
  BY <1>1, <1>2, <1>3, <1>4, SumOfSizes
<1>7. QED
  BY <1>5, <1>6 DEF size

\* What a scan fetches after the footer is what it planned, and the gaps it merged over; one that merges
\* nothing leaves the row groups alone that the statistics rule out.
THEOREM GapsAreAllThatIsWasted ==
    ASSUME Trusted, GroupsApart
    PROVE  Spec => []GapsAreTheOnlyWaste
<1>1. ASSUME ScanIInv, WasteIInv, RuledOutIsLeft
      PROVE  GapsAreTheOnlyWaste
  <2> DEFINE fetched == SumFunction([i \in AfterFooter |-> SpanLen(requests[i].returned)])
  <2>1. fetched = Cardinality(Brought)
    BY <1>1, FetchedIsBrought
  <2>2. planned <= Cardinality(Asked) /\ (Unmerged => planned = Cardinality(Asked))
    BY <1>1 DEF WasteIInv, PlannedIsAsked
  <2>3. pc = "done" => Asked = Brought
    BY DEF Asked, Coming, Getting
  <2>4. RuledOutGroupsAreNotFetched
    BY <1>1 DEF RuledOutIsLeft, RuledOutGroupsAreNotFetched, Asked
  <2> HIDE DEF fetched
  <2>5. pc = "done" => planned <= fetched /\ (Unmerged => planned = fetched)
    BY <2>1, <2>2, <2>3
  <2>6. QED
    BY <2>4, <2>5 DEF GapsAreTheOnlyWaste, fetched
<1>2. QED
  BY <1>1, WasteInvariant, RuledOutGroupsAreLeft, PTL

\* Merging over a gap never makes more requests than the ranges were, though what is held is cut out.
THEOREM MergingNeverAddsRequests ==
    ASSUME Trusted
    PROVE  Spec => MergingSavesRequests
<1>1. ASSUME ScanIInv, WasteIInv, [Next]_vars
      PROVE  pending = <<>> => Len(pending') <= Cardinality(Separate)
  <2> SUFFICES ASSUME pending = <<>>
               PROVE  Len(pending') <= Cardinality(Separate)
    OBVIOUS
  <2>1. Called /\ File.size \in Nat /\ wanted \subseteq InFile(File.size)
    BY <1>1, FilesHaveSizes DEF ScanIInv, WasteIInv, PlannedIsAsked, Called
  <2>2. CASE Fetching
    <3>1. /\ pending' = Requests /\ Lacking(File.size) /\ Coming = {}
          /\ pc \in {"indexFetch", "dataFetch"}
      BY <1>1, <2>2, Asking
    <3>2. strategy.coalesce_gap \in Int /\ -1 <= strategy.coalesce_gap
      BY <2>1, GapIsNumber
    <3>3. Len(Requests) = Cardinality(Parts)
      BY <2>1, <3>2, RequestsTogether
    <3>4. have \subseteq 0 .. File.size - 1
      BY <1>1 DEF WasteIInv, HeldIsSpread
    <3>5. Spread(have)
      <4>1. CASE pc = "indexFetch"
        <5>1. PICK from \in 0 .. File.size : have = from .. File.size - 1
          BY <1>1, <4>1 DEF WasteIInv, HeldIsSpread
        <5>2. ASSUME NEW x \in have, NEW y \in have
              PROVE  y .. File.size - 1 \subseteq have
          <6>1. y \in Int /\ from <= y /\ from \in Int
            BY <5>1
          <6>2. y .. File.size - 1 \subseteq from .. File.size - 1
            BY <2>1, <6>1
          <6>3. QED
            BY <5>1, <6>2
        <5>3. QED
          BY <5>2 DEF Spread
      <4>2. CASE pc = "dataFetch"
        <5>1. Spread(have \cup Coming)
          BY <1>1, <4>2 DEF WasteIInv, HeldIsSpread
        <5>2. have \cup Coming = have
          BY <3>1
        <5>3. QED
          BY <5>1, <5>2
      <4>3. QED
        BY <3>1, <4>1, <4>2
    <3>6. Cardinality(Parts) <= Cardinality(Separate)
      BY <3>1, <3>4, <3>5, NoMorePartsThanRanges
    <3>7. QED
      BY <3>1, <3>3, <3>6
  <2>3. CASE ~Fetching
    <3>1. ~GettingNext
      BY <1>1 DEF GettingNext, GetNext, ScanIInv, FetchBrings
    <3>2. pending' = pending
      BY <1>1, <2>3, <3>1 DEF Next, Fetching, GettingNext, vars, readerVars, FetchTail, FetchFooter,
         FetchFooterRest, WantIndexes, MakePlan, WantData, Decode
    <3>3. IsFiniteSet(Separate)
      <4> DEFINE least == IF strategy.coalesce_gap < 0 THEN -1 ELSE 0
      <4>1. Separate = Coalesce(wanted, least)
        BY DEF Separate
      <4> HIDE DEF least
      <4>2. Separate \subseteq InFile(File.size)
        BY <2>1, <4>1, CoalesceInFile
      <4>3. QED
        BY <2>1, <4>2, SpansAreFinite
    <3>4. Cardinality(Separate) \in Nat
      BY <3>3, FS_CardinalityType
    <3>5. QED
      BY <3>2, <3>4
  <2>4. QED
    BY <2>2, <2>3
<1>2. QED
  BY <1>1, WasteInvariant, PTL DEF Spec, MergingSavesRequests
=============================================================================
