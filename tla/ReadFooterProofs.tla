-------------------------- MODULE ReadFooterProofs --------------------------
(***************************************************************************)
(* For any files, sizes told, prefetch and network: read_footer ends as    *)
(* OpenFile says, or has not ended; its requests wait for the answers they *)
(* need; and it fetches nothing twice, and no more than it must.           *)
(***************************************************************************)
EXTENDS ReadFooter, ReadPathProofs, FiniteSetTheorems

(***************************************************************************)
(* The format                                                              *)
(***************************************************************************)

LEMMA Lengths == Whole!TRAILER_LEN = 8 /\ Len(Whole!MAGIC) = 4 /\ Whole!MIN_FILE_LEN = 12
<1>1. Len(Whole!MAGIC) = 4
  BY DEF Whole!MAGIC
<1>2. QED
  BY <1>1 DEF Whole!TRAILER_LEN, Whole!MIN_FILE_LEN

\* An object is the bytes it holds.
LEMMA Objects ==
    /\ DOMAIN ObjectSize = DOMAIN Content
    /\ \A k \in DOMAIN Content : /\ Content[k] \in Seq(0 .. 255)
                                 /\ ObjectSize[k] = Len(Content[k])
                                 /\ Len(Content[k]) \in Nat
<1>1. \A k \in DOMAIN Content : Content[k] \in Seq(0 .. 255)
  BY ReaderAssumption
<1>2. \A k \in DOMAIN Content : Len(Content[k]) \in Nat
  BY <1>1, LenProperties
<1>3. DOMAIN ObjectSize = DOMAIN Content /\ \A k \in DOMAIN Content : ObjectSize[k] = Len(Content[k])
  BY ReaderAssumption
<1>4. QED
  BY <1>1, <1>2, <1>3

\* A footer that is located ends where the trailer of the file starts, and starts after its magic.
LEMMA LocatedFooter ==
    ASSUME NEW k \in DOMAIN Content, NEW end \in 8 .. Len(Content[k]),
           Whole!Locate(SubSeq(Content[k], end - 7, end), Len(Content[k])).ok
    PROVE  LET at == Whole!Locate(SubSeq(Content[k], end - 7, end), Len(Content[k]))
           IN  /\ at.footer.start \in Nat /\ at.footer.end \in Nat
               /\ at.footer = SpanOf(at.footer.start, at.footer.end)
               /\ 4 <= at.footer.start /\ at.footer.start <= at.footer.end
               /\ at.footer.end = Len(Content[k]) - 8
<1> DEFINE bytes == Content[k]
           n == Len(bytes)
           t == SubSeq(bytes, end - 7, end)
           at == Whole!Locate(t, n)
           len == Whole!FooterLength(t)
<1>1. bytes \in Seq(0 .. 255) /\ n \in Nat /\ end \in Int
  BY Objects
<1>2. \A i \in 1 .. 4 : t[i] \in Nat
  <2>1. \A i \in end - 7 .. end : bytes[i] \in 0 .. 255
    <3>1. \A i \in end - 7 .. end : i \in 1 .. Len(bytes)
      BY <1>1
    <3>2. QED
      BY <1>1, <3>1, ElementOfSeq
  <2> HIDE DEF bytes
  <2>2. end - 7 \in Int /\ \A i \in 1 .. end - (end - 7) + 1 : t[i] = bytes[end - 7 + i - 1]
    BY <1>1, <2>1, SubSeqProperties
  <2> HIDE DEF t
  <2>3. ASSUME NEW i \in 1 .. 4
        PROVE  t[i] \in Nat
    <3>1. i \in 1 .. end - (end - 7) + 1 /\ end - 7 + i - 1 \in end - 7 .. end
      BY <1>1
    <3>2. t[i] = bytes[end - 7 + i - 1] /\ bytes[end - 7 + i - 1] \in 0 .. 255
      BY <2>1, <2>2, <3>1
    <3>3. \A x \in 0 .. 255 : x \in Nat
      OBVIOUS
    <3>4. QED
      BY <3>2, <3>3, Zenon
  <2>4. QED
    BY <2>3
<1>3. len \in Nat
  <2>1. t[1] \in Nat /\ t[2] \in Nat /\ t[3] \in Nat /\ t[4] \in Nat
    BY <1>2
  <2> HIDE DEF t
  <2> DEFINE b1 == t[1]
             b2 == t[2]
             b3 == t[3]
             b4 == t[4]
  <2>2. len = b1 + 256 * b2 + 65536 * b3 + 16777216 * b4
    BY DEF Whole!FooterLength
  <2>3. b1 \in Nat /\ b2 \in Nat /\ b3 \in Nat /\ b4 \in Nat
    BY <2>1
  <2> HIDE DEF len, b1, b2, b3, b4
  <2>4. QED
    BY <2>2, <2>3
<1> HIDE DEF t, n, bytes, len
<1>4. ~(len > n - 8 - 4) /\ at = [ok |-> TRUE, footer |-> [start |-> n - 8 - len, end |-> n - 8]]
  <2>1. at.ok
    BY DEF t, n, bytes
  <2>2. QED
    BY <2>1, Lengths DEF Whole!Locate, Whole!Failed, len
<1>5. /\ at.footer.start = n - 8 - len /\ at.footer.end = n - 8
      /\ at.footer = SpanOf(n - 8 - len, n - 8)
  BY <1>4 DEF SpanOf
<1>6. n - 8 - len \in Nat /\ n - 8 \in Nat /\ 4 <= n - 8 - len /\ n - 8 - len <= n - 8
  BY <1>1, <1>3, <1>4 DEF n
<1>7. QED
  BY <1>5, <1>6 DEF at, t, n, bytes

\* Two parts of a sequence that meet are one.
LEMMA PartsMeet ==
    ASSUME NEW S, NEW s \in Seq(S), NEW a \in Nat, NEW b \in Nat, NEW c \in Nat,
           a <= b, b <= c, c <= Len(s)
    PROVE  SubSeq(s, a + 1, b) \o SubSeq(s, b + 1, c) = SubSeq(s, a + 1, c)
<1> DEFINE l == SubSeq(s, a + 1, b)
           r == SubSeq(s, b + 1, c)
           w == SubSeq(s, a + 1, c)
<1>0. Len(s) \in Nat
  BY LenProperties
<1>1. l \in Seq(S) /\ Len(l) = b - a /\ \A i \in 1 .. b - a : l[i] = s[a + i]
  <2>1. a + 1 \in 1 .. Len(s) + 1 /\ b \in a + 1 - 1 .. Len(s)
    BY <1>0
  <2>2. /\ l \in Seq(S) /\ Len(l) = b - (a + 1) + 1
        /\ \A i \in 1 .. b - (a + 1) + 1 : l[i] = s[a + 1 + i - 1]
    BY <2>1, SubSeqProperties
  <2>3. QED
    BY <2>2
<1>2. r \in Seq(S) /\ Len(r) = c - b /\ \A i \in 1 .. c - b : r[i] = s[b + i]
  <2>1. b + 1 \in 1 .. Len(s) + 1 /\ c \in b + 1 - 1 .. Len(s)
    BY <1>0
  <2>2. /\ r \in Seq(S) /\ Len(r) = c - (b + 1) + 1
        /\ \A i \in 1 .. c - (b + 1) + 1 : r[i] = s[b + 1 + i - 1]
    BY <2>1, SubSeqProperties
  <2>3. QED
    BY <2>2
<1>3. w \in Seq(S) /\ Len(w) = c - a /\ \A i \in 1 .. c - a : w[i] = s[a + i]
  <2>1. a + 1 \in 1 .. Len(s) + 1 /\ c \in a + 1 - 1 .. Len(s)
    BY <1>0
  <2>2. /\ w \in Seq(S) /\ Len(w) = c - (a + 1) + 1
        /\ \A i \in 1 .. c - (a + 1) + 1 : w[i] = s[a + 1 + i - 1]
    BY <2>1, SubSeqProperties
  <2>3. QED
    BY <2>2
<1> HIDE DEF l, r, w
<1>4. /\ l \o r \in Seq(S) /\ Len(l \o r) = Len(l) + Len(r)
      /\ \A i \in 1 .. Len(l) + Len(r) :
            (l \o r)[i] = IF i <= Len(l) THEN l[i] ELSE r[i - Len(l)]
  BY <1>1, <1>2, ConcatProperties
<1>5. Len(l \o r) = Len(w)
  BY <1>1, <1>2, <1>3, <1>4
<1>6. ASSUME NEW i \in 1 .. Len(w)
      PROVE  (l \o r)[i] = w[i]
  <2>1. CASE i <= b - a
    BY <1>1, <1>2, <1>3, <1>4, <2>1
  <2>2. CASE ~(i <= b - a)
    <3>1. i - (b - a) \in 1 .. c - b /\ i \in 1 .. c - a
      BY <1>3, <2>2
    <3>2. r[i - (b - a)] = s[b + (i - (b - a))] /\ b + (i - (b - a)) = a + i
      BY <1>2, <3>1
    <3>3. (l \o r)[i] = r[i - (b - a)]
      BY <1>1, <1>2, <1>4, <2>2, <3>1
    <3>4. QED
      BY <1>3, <3>1, <3>2, <3>3
  <2>3. QED
    BY <2>1, <2>2
<1>7. QED
  BY <1>3, <1>4, <1>5, <1>6, SeqEqual DEF l, r, w

(***************************************************************************)
(* The tail                                                                *)
(***************************************************************************)

\* What the arguments of read_footer are.
LEMMA Arguments ==
    ASSUME ReaderTypeOK
    PROVE  /\ options.prefetch \in Nat /\ Want \in Nat /\ Want >= 8
           /\ Want = IF options.prefetch > 8 THEN options.prefetch ELSE 8
           /\ options.size.from \in {"Head", "SuffixRange", "Known"}
           /\ options.size.from = "Known" => options.size.size \in Nat /\ Told = options.size.size
           /\ options.size.from # "Known" => Told = ObjectSize[key]
           /\ key \in DOMAIN ObjectSize => Told \in Nat
<1>1. options.prefetch \in Nat /\ options.size \in SizeSources(key)
  BY ReaderAssumption DEF ReaderTypeOK
<1>2. Want = IF options.prefetch > 8 THEN options.prefetch ELSE 8
  BY Lengths DEF Want
<1>3. key \in DOMAIN ObjectSize => ObjectSize[key] \in Nat
  BY Objects
<1>4. /\ options.size.from \in {"Head", "SuffixRange", "Known"}
      /\ options.size.from = "Known" => options.size.size \in Nat
  <2>1. CASE options.size \in {[from |-> "Head"], [from |-> "SuffixRange"]}
    BY <2>1
  <2>2. CASE key \notin DOMAIN ObjectSize /\ options.size = [from |-> "Known", size |-> 0]
    BY <2>2
  <2>3. ASSUME key \in DOMAIN ObjectSize, NEW d \in Drift, ObjectSize[key] + d >= 0,
               options.size = [from |-> "Known", size |-> ObjectSize[key] + d]
        PROVE  options.size.from = "Known" /\ options.size.size \in Nat
    <3>1. d \in Int /\ ObjectSize[key] \in Nat
      BY <1>3, <2>3, ReaderAssumption
    <3>2. options.size.size = ObjectSize[key] + d
      BY <2>3
    <3>3. QED
      BY <2>3, <3>1, <3>2
  <2>4. QED
    BY <1>1, <2>1, <2>2, <2>3 DEF SizeSources
<1>5. QED
  BY <1>1, <1>2, <1>3, <1>4 DEF Told

\* Of an object that is not there, nobody is misled.
LEMMA OutcomeOfNoObject ==
    ASSUME key \notin DOMAIN ObjectSize
    PROVE  Whole!Verdict(key, options) = Whole!Failed("NotFound")
BY Objects DEF Whole!Verdict, Whole!Misled, Whole!WholeFile

\* What a reader going by some size takes for the end of an object's bytes.
LEMMA TakenIs ==
    ASSUME ReaderTypeOK, key \in DOMAIN ObjectSize
    PROVE  LET taken == Whole!Taken(key, Told, options.prefetch)
           IN  /\ taken = SpanOf(taken.start, taken.end)
               /\ taken.start = IF Told > Want THEN Told - Want ELSE 0
               /\ taken.end = IF Told < ObjectSize[key] THEN Told ELSE ObjectSize[key]
               /\ taken.start \in Nat /\ taken.end \in Nat
<1>1. /\ Told \in Nat /\ Want \in Nat /\ ObjectSize[key] \in Nat
      /\ ObjectSize[key] = Len(Content[key])
  BY Arguments, Objects
<1>2. Want = IF options.prefetch > Whole!TRAILER_LEN THEN options.prefetch ELSE Whole!TRAILER_LEN
  BY DEF Want
<1>3. Whole!Taken(key, Told, options.prefetch) =
        SpanOf(IF Told > Want THEN Told - Want ELSE 0,
               IF Told < ObjectSize[key] THEN Told ELSE ObjectSize[key])
  BY <1>1, <1>2 DEF Whole!Taken, SpanOf
<1>4. QED
  BY <1>1, <1>3 DEF SpanOf

\* The outcome is that of looking at those bytes, or at none.
LEMMA OutcomeOfTaken ==
    ASSUME ReaderTypeOK, key \in DOMAIN ObjectSize
    PROVE  LET taken == Whole!Taken(key, Told, options.prefetch)
           IN  Whole!Verdict(key, options) =
                  IF options.size.from # "SuffixRange" /\ taken.start >= taken.end
                  THEN Whole!Failed("RangeNotSatisfiable")
                  ELSE Whole!LookingAt(key, taken.start, taken.end)
<1> DEFINE taken == Whole!Taken(key, Told, options.prefetch)
           n == ObjectSize[key]
<1>1. /\ taken.start = IF Told > Want THEN Told - Want ELSE 0
      /\ taken.end = IF Told < n THEN Told ELSE n
      /\ taken.start \in Nat /\ taken.end \in Nat
  BY TakenIs
<1>2. /\ Told \in Nat /\ Want \in Nat /\ Want >= 8
      /\ options.size.from # "Known" => Told = n
      /\ options.size.from = "Known" => Told = options.size.size
      /\ n \in Nat /\ n = Len(Content[key]) /\ key \in DOMAIN Content
  BY Arguments, Objects
<1>3. CASE Whole!Misled(key, options)
  <2>1. options.size.from = "Known" /\ options.size.size = Told
    BY <1>2, <1>3 DEF Whole!Misled
  <2>2. QED
    BY <1>3, <2>1 DEF Whole!Verdict
<1>4. CASE ~Whole!Misled(key, options)
  <2>1. Told = n
    BY <1>2, <1>4 DEF Whole!Misled
  <2> HIDE DEF taken, n
  <2>2. taken.end = n /\ taken.start = IF n > Want THEN n - Want ELSE 0
    BY <1>1, <1>2, <2>1
  <2>3. taken.start >= taken.end <=> n = 0
    BY <1>2, <2>2
  <2>4. Content[key] = <<>> <=> n = 0
    <3>1. Content[key] \in Seq(0 .. 255)
      BY <1>2, Objects
    <3>2. QED
      BY <1>2, <3>1, EmptySeq
  <2>5. n - taken.start < 8 <=> n < 8
    BY <1>2, <2>2
  <2>6. Whole!LookingAt(key, taken.start, n) = Whole!LookingAt(key, 0, n)
    <3>1. n - taken.start < Whole!TRAILER_LEN <=> n - 0 < Whole!TRAILER_LEN
      BY <1>2, <2>5, Lengths
    <3>2. QED
      BY <3>1 DEF Whole!LookingAt
  <2>7. Whole!WholeFile(key) = Whole!LookingAt(key, 0, n)
    BY <1>2 DEF Whole!WholeFile
  <2>8. Whole!Verdict(key, options) =
           IF n = 0 /\ options.size.from # "SuffixRange" THEN Whole!Failed("RangeNotSatisfiable")
           ELSE Whole!WholeFile(key)
    BY <1>2, <1>4, <2>4 DEF Whole!Verdict
  <2>9. QED
    BY <2>2, <2>3, <2>6, <2>7, <2>8 DEF taken
<1>5. QED
  BY <1>3, <1>4

\* What the first GET asks for.
TailRequest == IF options.size.from = "SuffixRange" THEN Suffix(Want) ELSE TailRange(size)

\* It is answered with those bytes, or refused when there are none.
LEMMA TailAnswer ==
    ASSUME ReaderTypeOK, SizeIsTold, pc = "tail", key \in DOMAIN ObjectSize
    PROVE  LET taken == Whole!Taken(key, Told, options.prefetch)
           IN  MemoryGet(key, TailRequest) =
                  IF options.size.from # "SuffixRange" /\ taken.start >= taken.end
                  THEN NotSatisfiable
                  ELSE [status |-> 206, span |-> taken]
<1> DEFINE taken == Whole!Taken(key, Told, options.prefetch)
           n == ObjectSize[key]
<1>1. /\ taken = SpanOf(taken.start, taken.end)
      /\ taken.start = IF Told > Want THEN Told - Want ELSE 0
      /\ taken.end = IF Told < n THEN Told ELSE n
      /\ taken.start \in Nat /\ taken.end \in Nat
  BY TakenIs
<1>2. /\ Told \in Nat /\ Want \in Nat /\ Want >= 8
      /\ options.size.from # "Known" => Told = n
      /\ n \in Nat
  BY Arguments, Objects
<1> HIDE DEF taken, n
<1>3. CASE options.size.from = "SuffixRange"
  <2>1. TailRequest = Suffix(Want) /\ Told = n
    BY <1>2, <1>3 DEF TailRequest
  <2>2. ~Unsatisfiable(n, TailRequest)
    BY <2>1 DEF Unsatisfiable, Suffix
  <2>3. Served(n, TailRequest) = SpanOf(IF Want < n THEN n - Want ELSE 0, n)
    BY <2>1 DEF Served, Suffix
  <2>4. Served(n, TailRequest) = taken
    BY <1>1, <1>2, <2>1, <2>3
  <2>5. QED
    BY <1>3, <2>2, <2>4 DEF MemoryGet, n, taken
<1>4. CASE options.size.from # "SuffixRange"
  <2>1. size = Told /\ TailRequest = TailRange(Told)
    BY <1>4 DEF SizeIsTold, TailRequest
  <2> DEFINE asked == SpanOf(IF Told > Want THEN Told - Want ELSE 0, Told)
  <2>2. TailRequest = Bounded(asked)
    BY <2>1 DEF TailRange
  <2>3. asked.start = taken.start /\ asked.end = Told
    BY <1>1 DEF SpanOf
  <2> HIDE DEF asked
  <2>4. Unsatisfiable(n, TailRequest) <=> taken.start >= n \/ taken.start = Told
    BY <2>2, <2>3 DEF Unsatisfiable, Bounded
  <2>5. taken.start >= n \/ taken.start = Told <=> taken.start >= taken.end
    BY <1>1, <1>2
  <2>6. Served(n, TailRequest) = SpanOf(taken.start, IF Told < n THEN Told ELSE n)
    BY <2>2, <2>3 DEF Served, Bounded
  <2>7. Served(n, TailRequest) = taken
    BY <1>1, <2>6
  <2>8. QED
    BY <1>4, <2>4, <2>5, <2>7 DEF MemoryGet, n, taken
<1>5. QED
  BY <1>3, <1>4

\* A trailer, and what it says.
Trailer == Bytes(SpanOf(tail.end - Whole!TRAILER_LEN, tail.end))
Located == Whole!Locate(Trailer, size)

\* What is to come of the tail that was fetched.
LEMMA OutcomeOfTail ==
    ASSUME ReaderTypeOK, TailIsTaken, pc \in {"locate", "missing"}
    PROVE  /\ key \in DOMAIN Content /\ size = Len(Content[key]) /\ tail.end <= size
           /\ SpanLen(tail) < Whole!TRAILER_LEN =>
                 Whole!Verdict(key, options) = Whole!Failed("TooShort")
           /\ SpanLen(tail) >= Whole!TRAILER_LEN =>
                 /\ ~Located.ok => Whole!Verdict(key, options) = Located
                 /\ Located.ok =>
                       /\ Located.footer \in Span /\ 4 <= Located.footer.start
                       /\ Located.footer = SpanOf(Located.footer.start, Located.footer.end)
                       /\ Located.footer.end = size - 8
                       /\ Whole!Verdict(key, options) =
                             IF Located.footer.end > tail.end THEN Whole!Failed("panic")
                             ELSE Whole!Opened(Located.footer, Bytes(Located.footer))
<1> DEFINE taken == Whole!Taken(key, Told, options.prefetch)
<1>1. /\ key \in DOMAIN Content /\ size = Len(Content[key]) /\ size \in Nat /\ tail = taken
      /\ key \in DOMAIN ObjectSize /\ size = ObjectSize[key]
      /\ options.size.from = "SuffixRange" \/ tail.start < tail.end
  BY Objects DEF TailIsTaken
<1>2. /\ taken.end = IF Told < size THEN Told ELSE size
      /\ taken.start \in Nat /\ taken.end \in Nat /\ Told \in Nat
  BY <1>1, TakenIs, Arguments
<1>3. tail.end <= size /\ tail.end \in Nat /\ tail.start \in Nat
  BY <1>1, <1>2
<1>4. Whole!Verdict(key, options) = Whole!LookingAt(key, tail.start, tail.end)
  <2>1. ~(options.size.from # "SuffixRange" /\ tail.start >= tail.end)
    BY <1>1, <1>3
  <2>2. QED
    BY <1>1, <2>1, OutcomeOfTaken
<1> HIDE DEF taken
<1>5. Trailer = SubSeq(Content[key], tail.end - 7, tail.end)
  <2>1. Trailer = SubSeq(Content[key], tail.end - 8 + 1, tail.end)
    BY Lengths DEF Trailer, Bytes, SpanOf
  <2>2. tail.end - 8 + 1 = tail.end - 7
    BY <1>3
  <2>3. QED
    BY <2>1, <2>2
<1>6. Whole!Verdict(key, options) =
         IF SpanLen(tail) < Whole!TRAILER_LEN THEN Whole!Failed("TooShort")
         ELSE IF ~Located.ok THEN Located
         ELSE IF Located.footer.end > tail.end THEN Whole!Failed("panic")
         ELSE Whole!Opened(Located.footer, Bytes(Located.footer))
  BY <1>1, <1>4, <1>5 DEF Whole!LookingAt, SpanLen, Located, Bytes
<1>7. ASSUME SpanLen(tail) >= Whole!TRAILER_LEN, Located.ok
      PROVE  /\ Located.footer \in Span /\ 4 <= Located.footer.start
             /\ Located.footer = SpanOf(Located.footer.start, Located.footer.end)
             /\ Located.footer.end = size - 8
  <2>1. tail.end \in 8 .. Len(Content[key])
    BY <1>1, <1>3, <1>7, Lengths DEF SpanLen
  <2>2. Located = Whole!Locate(SubSeq(Content[key], tail.end - 7, tail.end), Len(Content[key]))
    BY <1>1, <1>5 DEF Located
  <2> DEFINE at == Located.footer
  <2>3. /\ at.start \in Nat /\ at.end \in Nat /\ at = SpanOf(at.start, at.end)
        /\ 4 <= at.start /\ at.start <= at.end /\ at.end = size - 8
    BY <1>1, <1>7, <2>1, <2>2, LocatedFooter
  <2> HIDE DEF at
  <2>4. at \in Span
    BY <2>3 DEF Span, SpanOf
  <2>5. QED
    BY <2>3, <2>4 DEF at
<1>8. SpanLen(tail) < Whole!TRAILER_LEN \/ SpanLen(tail) >= Whole!TRAILER_LEN
  BY <1>3, Lengths DEF SpanLen
<1>9. SpanLen(tail) >= Whole!TRAILER_LEN => ~(SpanLen(tail) < Whole!TRAILER_LEN)
  BY <1>3, Lengths DEF SpanLen
<1>10. QED
  BY <1>1, <1>3, <1>6, <1>7, <1>9

\* The rest of the footer is there to be fetched, and joins what the tail holds of it.
LEMMA MissingAnswer ==
    ASSUME ReaderTypeOK, TailIsTaken, FooterIsLocated, pc = "missing"
    PROVE  /\ MemoryGet(key, Bounded(MissingPart)) = [status |-> 206, span |-> MissingPart]
           /\ MissingPart \in Span
           /\ Whole!Verdict(key, options) =
                 IF footer.end < tail.start \/ footer.end > tail.end THEN Whole!Failed("panic")
                 ELSE Whole!Opened(footer, Bytes(MissingPart) \o Bytes(TailPart))
<1>1. /\ SpanLen(tail) >= Whole!TRAILER_LEN /\ Located.ok /\ footer = Located.footer
      /\ footer.start < tail.start
  BY DEF FooterIsLocated, Located, Trailer
<1>2. /\ key \in DOMAIN Content /\ size = Len(Content[key]) /\ tail.end <= size
      /\ footer \in Span /\ footer.end = size - 8
      /\ Whole!Verdict(key, options) = IF footer.end > tail.end THEN Whole!Failed("panic")
                                       ELSE Whole!Opened(footer, Bytes(footer))
  BY <1>1, OutcomeOfTail
<1>3. /\ size \in Nat /\ tail.start \in Nat /\ tail.end \in Nat /\ tail.start + 8 <= tail.end
      /\ footer.start \in Nat /\ footer.end \in Nat /\ footer.start <= footer.end
      /\ key \in DOMAIN ObjectSize /\ size = ObjectSize[key] /\ Content[key] \in Seq(0 .. 255)
  BY <1>1, <1>2, Objects, Lengths DEF ReaderTypeOK, Span, SpanLen
<1>4. MissingPart.start = footer.start /\ MissingPart.end = tail.start /\ MissingPart \in Span
  BY <1>1, <1>3 DEF MissingPart, SpanOf, Span
<1>5. MemoryGet(key, Bounded(MissingPart)) = [status |-> 206, span |-> MissingPart]
  <2>1. ~Unsatisfiable(size, Bounded(MissingPart))
    BY <1>1, <1>2, <1>3, <1>4 DEF Unsatisfiable, Bounded
  <2>2. Served(size, Bounded(MissingPart)) = SpanOf(footer.start, tail.start)
    <3>1. tail.start < size
      BY <1>2, <1>3
    <3>2. Served(size, Bounded(MissingPart))
             = SpanOf(footer.start, IF tail.start < size THEN tail.start ELSE size)
      BY <1>4 DEF Served, Bounded
    <3>3. QED
      BY <3>1, <3>2
  <2>3. QED
    BY <1>3, <2>1, <2>2 DEF MemoryGet, MissingPart
<1>6. ~(footer.end < tail.start)
  BY <1>2, <1>3
<1>7. CASE footer.end > tail.end
  BY <1>2, <1>4, <1>5, <1>7
<1>8. CASE ~(footer.end > tail.end)
  <2>1. SubSeq(Content[key], footer.start + 1, tail.start) \o SubSeq(Content[key], tail.start + 1, footer.end)
           = SubSeq(Content[key], footer.start + 1, footer.end)
    <3> DEFINE bytes == Content[key]
               from == footer.start
               meet == tail.start
               to == footer.end
    <3>1. from \in Nat /\ meet \in Nat /\ to \in Nat /\ bytes \in Seq(0 .. 255)
      BY <1>3
    <3>2. from <= meet /\ meet <= to /\ to <= Len(bytes)
      BY <1>1, <1>2, <1>3, <1>6
    <3> HIDE DEF bytes, from, meet, to
    <3>3. SubSeq(bytes, from + 1, meet) \o SubSeq(bytes, meet + 1, to) = SubSeq(bytes, from + 1, to)
      BY <3>1, <3>2, PartsMeet
    <3>4. QED
      BY <3>3 DEF bytes, from, meet, to
  <2>2. Bytes(MissingPart) \o Bytes(TailPart) = Bytes(footer)
    BY <2>1 DEF Bytes, MissingPart, TailPart, SpanOf
  <2>3. QED
    BY <1>2, <1>4, <1>5, <1>6, <1>8, <2>2
<1>9. QED
  BY <1>7, <1>8

(***************************************************************************)
(* The requests                                                            *)
(***************************************************************************)

LEMMA StoreUnchanged ==
    ASSUME StoreIInv, UNCHANGED storeVars
    PROVE  StoreIInv'
<1>1. /\ free_at' = free_at /\ phase_start' = phase_start
      /\ phase' = phase /\ requests' = requests
  BY DEF storeVars
<1>2. StoreTypeOK' /\ WellTimed' /\ FreeAtIsLastEnd' /\ PhaseStartIsLastEnd'
  BY <1>1 DEF StoreIInv, StoreTypeOK, WellTimed, FreeAtIsLastEnd, PhaseStartIsLastEnd
<1>3. StartsCovered' /\ HasLastEnd' /\ OneAtATime'
  BY <1>1 DEF StoreIInv, StartsCovered, HasLastEnd, OneAtATime, StartOn, Ends
<1>4. PhaseBarrier' /\ StartsInOrder' /\ NoIdleConnection'
  BY <1>1 DEF StoreIInv, PhaseBarrier, StartsInOrder, NoIdleConnection
<1>5. QED
  BY <1>2, <1>3, <1>4 DEF StoreIInv

\* What a request adds to the trace.
LEMMA RecordAdds ==
    ASSUME StoreIInv, NEW method, NEW k, NEW answer, Record(method, k, answer)
    PROVE  LET n == Len(requests)
           IN  /\ n \in Nat /\ DOMAIN requests = 1 .. n /\ DOMAIN requests' = 1 .. n + 1
               /\ \A i \in 1 .. n : requests'[i] = requests[i]
               /\ requests'[n + 1].method = method
               /\ requests'[n + 1].returned = answer.span
               /\ requests'[n + 1].phase = phase
               /\ phase' = phase
<1> DEFINE n == Len(requests)
           r == [method |-> method, key |-> k, status |-> answer.status,
                 returned |-> answer.span, start |-> StartOn(FirstFree),
                 end |-> StartOn(FirstFree) + Cost(SpanLen(answer.span)),
                 connection |-> FirstFree, phase |-> phase]
           Either == Request \cup {r}
<1>1. requests' = Append(requests, r) /\ phase' = phase
  BY DEF Record
<1>2. r.method = method /\ r.returned = answer.span /\ r.phase = phase
  OBVIOUS
<1>3. requests \in Seq(Request)
  BY DEF StoreIInv, StoreTypeOK
<1> HIDE DEF r
<1>4. requests \in Seq(Either) /\ r \in Either
  <2>1. Request \subseteq Either
    OBVIOUS
  <2>2. QED
    BY <1>3, <2>1, SeqMonotonic
<1> HIDE DEF Either
<1>5. /\ n \in Nat /\ DOMAIN requests = 1 .. n
      /\ requests' \in Seq(Either) /\ DOMAIN requests' = 1 .. n + 1
      /\ \A i \in 1 .. n : requests'[i] = requests[i]
      /\ requests'[n + 1] = r
  BY <1>1, <1>4, AppendProperties, LenProperties
<1>6. QED
  BY <1>1, <1>2, <1>5

\* A GET is one more of the GETs, and a HEAD none.
LEMMA GetsAfter ==
    ASSUME StoreIInv, NEW method, NEW k, NEW answer, Record(method, k, answer)
    PROVE  /\ method = "GET" => Gets' = Gets \cup {Len(requests) + 1}
           /\ method # "GET" => Gets' = Gets
           /\ Gets \subseteq 1 .. Len(requests) /\ Len(requests) \in Nat
           /\ \A i \in Gets : requests'[i] = requests[i]
           /\ requests'[Len(requests) + 1].returned = answer.span
<1> DEFINE n == Len(requests)
<1>1. /\ n \in Nat /\ DOMAIN requests = 1 .. n /\ DOMAIN requests' = 1 .. n + 1
      /\ \A i \in 1 .. n : requests'[i] = requests[i]
      /\ requests'[n + 1].method = method /\ requests'[n + 1].returned = answer.span
  BY RecordAdds
<1> HIDE DEF n
<1>2. Gets = {i \in 1 .. n : requests[i].method = "GET"}
  BY <1>1 DEF Gets
<1>3. Gets' = {i \in 1 .. n + 1 : requests'[i].method = "GET"}
  BY <1>1 DEF Gets
<1>4. 1 .. n + 1 = (1 .. n) \cup {n + 1}
  BY <1>1
<1>5. Gets' = {i \in 1 .. n : requests[i].method = "GET"} \cup {i \in {n + 1} : method = "GET"}
  BY <1>1, <1>3, <1>4
<1>6. QED
  BY <1>1, <1>2, <1>5 DEF n

\* A request made in a phase of its own is in a later phase than all before it.
LEMMA PhasesAfterRecord ==
    ASSUME StoreIInv, OnePhaseEach, pc \in {"head", "tail", "missing"},
           NEW method, NEW k, NEW answer, Record(method, k, answer),
           pc' \notin {"head", "tail", "missing"}
    PROVE  OnePhaseEach'
<1> DEFINE n == Len(requests)
<1>1. /\ n \in Nat /\ DOMAIN requests = 1 .. n /\ DOMAIN requests' = 1 .. n + 1
      /\ \A i \in 1 .. n : requests'[i] = requests[i]
      /\ requests'[n + 1].phase = phase
  BY RecordAdds
<1> HIDE DEF n
<1>2. \A i \in 1 .. n : requests[i].phase < phase
  BY <1>1 DEF OnePhaseEach
<1>3. ASSUME NEW i \in 1 .. n + 1, NEW j \in 1 .. n + 1, i < j
      PROVE  requests'[i].phase < requests'[j].phase
  <2>1. i \in 1 .. n
    BY <1>1, <1>3
  <2>2. CASE j \in 1 .. n
    BY <1>1, <1>3, <2>1, <2>2 DEF OnePhaseEach
  <2>3. CASE j = n + 1
    BY <1>1, <1>2, <2>1, <2>3
  <2>4. QED
    BY <1>1, <2>2, <2>3
<1>4. QED
  BY <1>1, <1>3 DEF OnePhaseEach

\* And a phase begins after all requests so far.
LEMMA PhasesAfterNext ==
    ASSUME StoreIInv, OnePhaseEach, NextPhase
    PROVE  OnePhaseEach' /\ Gets' = Gets /\ requests' = requests
<1>1. requests' = requests /\ phase' = phase + 1 /\ phase \in Nat /\ requests \in Seq(Request)
  BY DEF NextPhase, StoreIInv, StoreTypeOK
<1>2. \A i \in DOMAIN requests : requests[i].phase <= phase /\ requests[i].phase \in Nat
  <2>1. \A i \in DOMAIN requests : requests[i] \in Request
    BY <1>1, ElementOfSeq, LenProperties
  <2>2. \A i \in DOMAIN requests : requests[i].phase \in Nat
    BY <2>1 DEF Request
  <2>3. QED
    BY <2>2 DEF StoreIInv, PhaseStartIsLastEnd
<1>3. \A i \in DOMAIN requests' : requests'[i].phase < phase'
  BY <1>1, <1>2
<1>4. Gets' = Gets
  BY <1>1 DEF Gets
<1>5. QED
  BY <1>1, <1>3, <1>4 DEF OnePhaseEach

(***************************************************************************)
(* The steps of read_footer                                                *)
(***************************************************************************)

\* What a step that ends in a failure, with at most one GET made, leaves of the invariant's parts.
LEMMA FailureEnds ==
    ASSUME NEW why, Return(Whole!Failed(why)), UNCHANGED <<key, options, tail>>,
           size' \in Nat, ReaderTypeOK, Whole!Verdict(key, options) = Whole!Failed(why),
           \A i, j \in Gets' : i = j
    PROVE  /\ ReaderTypeOK' /\ SizeIsTold' /\ TailIsTaken' /\ FooterIsLocated'
           /\ OutcomeIsRight' /\ OneGetSoFar'
<1>1. pc' = "done" /\ outcome' = Whole!Failed(why) /\ ~outcome'.ok
  BY DEF Return, Whole!Failed
<1>2. key' = key /\ options' = options /\ tail' = tail
  OBVIOUS
<1>3. ReaderTypeOK'
  BY <1>1, <1>2 DEF ReaderTypeOK, SizeSources
<1>4. SizeIsTold' /\ TailIsTaken' /\ FooterIsLocated'
  BY <1>1 DEF SizeIsTold, TailIsTaken, FooterIsLocated
<1>5. OutcomeIsRight'
  BY <1>1, <1>2 DEF OutcomeIsRight
<1>6. OneGetSoFar'
  BY <1>1 DEF OneGetSoFar, FetchesNoMoreThanItMust
<1>7. QED
  BY <1>3, <1>4, <1>5, <1>6

LEMMA InitKeeps == Init => ReaderIInv
<1> SUFFICES ASSUME Init PROVE ReaderIInv
  OBVIOUS
<1>1. StoreIInv /\ requests = <<>> /\ DOMAIN requests = {}
  BY StoreInvInit DEF Init, StoreInit
<1>2. ReaderTypeOK
  <2>1. options.size \in SizeSources(key)
    BY DEF Init
  <2>2. /\ options.size.from \in {"Head", "SuffixRange", "Known"}
        /\ options.size.from = "Known" => options.size.size \in Nat
    <3>1. CASE options.size \in {[from |-> "Head"], [from |-> "SuffixRange"]}
      BY <3>1
    <3>2. CASE key \notin DOMAIN ObjectSize /\ options.size = [from |-> "Known", size |-> 0]
      BY <3>2
    <3>3. ASSUME key \in DOMAIN ObjectSize, NEW d \in Drift, ObjectSize[key] + d >= 0,
                 options.size = [from |-> "Known", size |-> ObjectSize[key] + d]
          PROVE  options.size.from = "Known" /\ options.size.size \in Nat
      <4>1. d \in Int /\ ObjectSize[key] \in Nat
        BY <3>3, ReaderAssumption, Objects
      <4>2. options.size.size = ObjectSize[key] + d
        BY <3>3
      <4>3. QED
        BY <3>3, <4>1, <4>2
    <3>4. QED
      BY <2>1, <3>1, <3>2, <3>3 DEF SizeSources
  <2>3. size \in Nat /\ tail \in Span
    BY <2>2 DEF Init, NoSpan, SpanOf, Span
  <2>4. pc \in {"head", "tail"} /\ key \in Keys /\ options \in [size : SizeSources(key), prefetch : Prefetch]
    BY DEF Init
  <2>5. QED
    BY <2>3, <2>4 DEF ReaderTypeOK
<1>3. SizeIsTold /\ TailIsTaken /\ FooterIsLocated
  <2>1. options.size.from \in {"Head", "SuffixRange", "Known"}
    BY <1>2, Arguments
  <2>2. options.size.from = "Known" => Told = size
    BY DEF Init, Told
  <2>3. pc = IF options.size.from = "Head" THEN "head" ELSE "tail"
    BY DEF Init
  <2>4. QED
    BY <2>1, <2>2, <2>3 DEF SizeIsTold, TailIsTaken, FooterIsLocated
<1>4. OutcomeIsRight
  BY DEF Init, OutcomeIsRight
<1>5. OnePhaseEach /\ OneGetSoFar
  <2>1. Gets = {} /\ pc \in {"head", "tail"}
    BY <1>1 DEF Gets, Init
  <2>2. QED
    BY <1>1, <2>1 DEF OnePhaseEach, OneGetSoFar
<1>6. QED
  BY <1>1, <1>2, <1>3, <1>4, <1>5 DEF ReaderIInv

LEMMA AskSizeKeeps ==
    ASSUME ReaderIInv, AskSize
    PROVE  ReaderIInv'
<1>1. /\ pc = "head" /\ Record("HEAD", key, MemoryHead(key)) /\ key \in Keys
      /\ key' = key /\ options' = options /\ tail' = tail /\ footer' = footer
      /\ StoreIInv /\ ReaderTypeOK /\ SizeIsTold /\ OnePhaseEach
  BY DEF AskSize, Head_, ReaderIInv, ReaderTypeOK
<1>2. StoreIInv'
  BY <1>1, MemoryHeadType, StoreInvRecord
<1>3. Gets' = {}
  BY <1>1, GetsAfter DEF ReaderIInv, OneGetSoFar
<1>4. CASE key \in DOMAIN ObjectSize
  <2>1. pc' = "headPhase" /\ size' = ObjectSize[key] /\ outcome' = outcome
    BY <1>4 DEF AskSize, MemoryHead
  <2>2. ObjectSize[key] \in Nat
    BY <1>4, Objects
  <2>3. ReaderTypeOK'
    BY <1>1, <2>1, <2>2 DEF ReaderTypeOK, SizeSources
  <2>4. SizeIsTold' /\ TailIsTaken' /\ FooterIsLocated'
    BY <1>1, <1>4, <2>1 DEF SizeIsTold, TailIsTaken, FooterIsLocated, Told
  <2>5. OutcomeIsRight' /\ OneGetSoFar'
    BY <1>1, <1>3, <2>1 DEF OutcomeIsRight, OneGetSoFar, ReaderIInv
  <2>6. OnePhaseEach'
    BY <1>1, <2>1, PhasesAfterRecord
  <2>7. QED
    BY <1>2, <2>3, <2>4, <2>5, <2>6 DEF ReaderIInv
<1>5. CASE key \notin DOMAIN ObjectSize
  <2>1. Return(Whole!Failed("NotFound")) /\ size' = size
    BY <1>5 DEF AskSize, MemoryHead, NotFound, StoreFailure
  <2>2. Whole!Verdict(key, options) = Whole!Failed("NotFound")
    BY <1>5, OutcomeOfNoObject
  <2>3. size' \in Nat
    BY <1>1, <2>1 DEF ReaderTypeOK
  <2>4. /\ ReaderTypeOK' /\ SizeIsTold' /\ TailIsTaken' /\ FooterIsLocated'
        /\ OutcomeIsRight' /\ OneGetSoFar'
    BY <1>1, <1>3, <2>1, <2>2, <2>3, FailureEnds
  <2>5. OnePhaseEach'
    BY <1>1, <2>1, PhasesAfterRecord DEF Return
  <2>6. QED
    BY <1>2, <2>4, <2>5 DEF ReaderIInv
<1>6. QED
  BY <1>4, <1>5

LEMMA SizeKnownKeeps ==
    ASSUME ReaderIInv, SizeKnown
    PROVE  ReaderIInv'
<1>1. /\ pc = "headPhase" /\ pc' = "tail" /\ NextPhase
      /\ key' = key /\ options' = options /\ size' = size /\ tail' = tail /\ outcome' = outcome
  BY DEF SizeKnown
<1>2. StoreIInv'
  BY <1>1, StoreInvNextPhase DEF ReaderIInv
<1>3. OnePhaseEach' /\ Gets' = Gets
  BY <1>1, PhasesAfterNext DEF ReaderIInv
<1>4. ReaderTypeOK'
  BY <1>1 DEF ReaderIInv, ReaderTypeOK, SizeSources
<1>5. SizeIsTold' /\ TailIsTaken' /\ FooterIsLocated'
  BY <1>1 DEF ReaderIInv, SizeIsTold, TailIsTaken, FooterIsLocated, Told
<1>6. OutcomeIsRight' /\ OneGetSoFar'
  BY <1>1, <1>3 DEF ReaderIInv, OutcomeIsRight, OneGetSoFar
<1>7. QED
  BY <1>2, <1>3, <1>4, <1>5, <1>6 DEF ReaderIInv

LEMMA FetchTailKeeps ==
    ASSUME ReaderIInv, FetchTail
    PROVE  ReaderIInv'
<1> DEFINE answer == MemoryGet(key, TailRequest)
           taken == Whole!Taken(key, Told, options.prefetch)
<1>1. /\ pc = "tail" /\ Record("GET", key, answer) /\ key \in Keys
      /\ key' = key /\ options' = options /\ footer' = footer
      /\ StoreIInv /\ ReaderTypeOK /\ SizeIsTold /\ OnePhaseEach /\ Gets = {}
      /\ outcome = Whole!Pending
      /\ IF answer.status = 206
         THEN pc' = "locate" /\ tail' = answer.span /\ size' = ObjectSize[key] /\ outcome' = outcome
         ELSE Return(StoreFailure(answer.status)) /\ tail' = tail /\ size' = size
  BY DEF FetchTail, TailRequest, Get, ResponseSize, ReaderIInv, ReaderTypeOK, OneGetSoFar, OutcomeIsRight
<1>2. ASSUME answer.status # 206, answer \in Answer,
             Whole!Verdict(key, options) = StoreFailure(answer.status)
      PROVE  ReaderIInv'
  <2>1. Gets' = {Len(requests) + 1}
    BY <1>1, GetsAfter
  <2>2. size' \in Nat /\ tail' = tail
    BY <1>1, <1>2 DEF ReaderTypeOK
  <2> DEFINE why == IF answer.status = 404 THEN "NotFound" ELSE "RangeNotSatisfiable"
  <2>3. StoreFailure(answer.status) = Whole!Failed(why)
    BY DEF StoreFailure
  <2>4. Return(Whole!Failed(why)) /\ Whole!Verdict(key, options) = Whole!Failed(why)
    BY <1>1, <1>2, <2>3
  <2> HIDE DEF why
  <2>5. /\ ReaderTypeOK' /\ SizeIsTold' /\ TailIsTaken' /\ FooterIsLocated'
        /\ OutcomeIsRight' /\ OneGetSoFar'
    BY <1>1, <2>1, <2>2, <2>4, FailureEnds
  <2>6. StoreIInv' /\ OnePhaseEach'
    BY <1>1, <1>2, <2>4, StoreInvRecord, PhasesAfterRecord DEF Return
  <2>7. QED
    BY <2>5, <2>6 DEF ReaderIInv
<1>3. CASE key \notin DOMAIN ObjectSize
  <2>1. answer = NotFound
    BY <1>3 DEF MemoryGet
  <2>2. answer.status = 404 /\ answer \in Answer
    BY <2>1 DEF NotFound, Answer, SpanOf, Span
  <2>3. Whole!Verdict(key, options) = StoreFailure(answer.status)
    BY <1>3, <2>2, OutcomeOfNoObject DEF StoreFailure
  <2>4. QED
    BY <1>2, <2>2, <2>3
<1>4. CASE key \in DOMAIN ObjectSize
  <2>1. answer = IF options.size.from # "SuffixRange" /\ taken.start >= taken.end
                 THEN NotSatisfiable ELSE [status |-> 206, span |-> taken]
    BY <1>1, <1>4, TailAnswer
  <2>2. CASE options.size.from # "SuffixRange" /\ taken.start >= taken.end
    <3>1. answer.status = 416 /\ answer \in Answer
      BY <2>1, <2>2 DEF NotSatisfiable, Answer, SpanOf, Span
    <3>2. Whole!Verdict(key, options) = StoreFailure(answer.status)
      BY <1>1, <1>4, <2>2, <3>1, OutcomeOfTaken DEF StoreFailure
    <3>3. QED
      BY <1>2, <3>1, <3>2
  <2>3. CASE ~(options.size.from # "SuffixRange" /\ taken.start >= taken.end)
    <3>1. answer = [status |-> 206, span |-> taken]
      BY <2>1, <2>3
    <3>2. /\ taken = SpanOf(taken.start, taken.end)
          /\ taken.start = IF Told > Want THEN Told - Want ELSE 0
          /\ taken.end = IF Told < ObjectSize[key] THEN Told ELSE ObjectSize[key]
          /\ taken.start \in Nat /\ taken.end \in Nat
          /\ Told \in Nat /\ Want \in Nat /\ Want >= 8 /\ ObjectSize[key] \in Nat
          /\ options.size.from # "Known" => Told = ObjectSize[key]
      BY <1>1, <1>4, TakenIs, Arguments, Objects
    <3> HIDE DEF taken, answer
    <3>3. taken \in Span
      <4>1. taken.start <= taken.end
        BY <2>3, <3>2
      <4>2. QED
        BY <3>2, <4>1 DEF Span, SpanOf
    <3>4. answer.status = 206 /\ answer.span = taken /\ answer \in Answer
      BY <3>1, <3>3 DEF Answer
    <3>5. pc' = "locate" /\ tail' = taken /\ size' = ObjectSize[key] /\ outcome' = outcome
      BY <1>1, <3>4
    <3>6. StoreIInv' /\ OnePhaseEach'
      BY <1>1, <3>4, <3>5, StoreInvRecord, PhasesAfterRecord
    <3>7. ReaderTypeOK'
      BY <1>1, <3>2, <3>3, <3>5 DEF ReaderTypeOK, SizeSources
    <3>8. SizeIsTold' /\ FooterIsLocated' /\ OutcomeIsRight'
      BY <1>1, <3>5 DEF SizeIsTold, FooterIsLocated, OutcomeIsRight
    <3>9. TailIsTaken'
      <4>1. Told' = Told
        BY <1>1 DEF Told
      <4>2. options.size.from = "SuffixRange" \/ taken.start < taken.end
        BY <2>3, <3>2
      <4>3. tail' = Whole!Taken(key', Told', options'.prefetch)
        BY <1>1, <3>5, <4>1 DEF taken
      <4>4. QED
        BY <1>1, <1>4, <3>5, <4>2, <4>3 DEF TailIsTaken
    <3>10. OneGetSoFar'
      <4>1. Gets' = {Len(requests) + 1} /\ requests'[Len(requests) + 1].returned = taken
        BY <1>1, <3>4, GetsAfter
      <4>2. QED
        BY <3>5, <4>1 DEF OneGetSoFar
    <3>11. QED
      BY <3>6, <3>7, <3>8, <3>9, <3>10 DEF ReaderIInv
  <2>4. QED
    BY <2>2, <2>3
<1>5. QED
  BY <1>3, <1>4

\* "When the footer fits inside what was read": the tail starts no later than the footer exactly
\* when the prefetch covers footer and trailer, or there is nothing to cover.
LEMMA PrefetchSuffices ==
    ASSUME ReaderTypeOK, TailIsTaken, pc \in {"locate", "missing"}, ~Whole!Misled(key, options),
           NEW f \in Span, f.end = size - 8, 4 <= f.start
    PROVE  tail.start <= f.start <=>
              ~(options.prefetch < SpanLen(f) + Whole!TRAILER_LEN /\ SpanLen(f) > 0)
<1> DEFINE prefetch == options.prefetch
           start == f.start
<1>1. /\ key \in DOMAIN ObjectSize /\ size = ObjectSize[key] /\ key \in DOMAIN Content
      /\ size = Len(Content[key]) /\ size \in Nat
      /\ tail = Whole!Taken(key, Told, options.prefetch)
  BY Objects DEF TailIsTaken
<1>2. /\ prefetch \in Nat /\ Want \in Nat /\ Want = IF prefetch > 8 THEN prefetch ELSE 8
      /\ options.size.from = "Known" => Told = options.size.size
      /\ options.size.from # "Known" => Told = ObjectSize[key]
  BY Arguments
<1>3. Told = size
  BY <1>1, <1>2 DEF Whole!Misled
<1>4. tail.start = IF size > Want THEN size - Want ELSE 0
  BY <1>1, <1>3, TakenIs
<1>5. start \in Nat /\ f.end \in Nat /\ start <= f.end
  BY DEF Span
<1>6. SpanLen(f) = size - 8 - start
  BY DEF SpanLen
<1> HIDE DEF prefetch, start
<1>7. start <= size - 8 /\ 4 <= start
  BY <1>5 DEF start
<1>8. IF size > Want THEN size - Want <= start <=> ~(prefetch < size - 8 - start + 8 /\ size - 8 - start > 0)
      ELSE ~(prefetch < size - 8 - start + 8 /\ size - 8 - start > 0)
  BY <1>1, <1>2, <1>5, <1>7
<1>9. tail.start <= start <=> ~(prefetch < size - 8 - start + 8 /\ size - 8 - start > 0)
  BY <1>1, <1>4, <1>5, <1>8
<1>10. QED
  BY <1>6, <1>9, Lengths DEF prefetch, start

LEMMA LocateFooterKeeps ==
    ASSUME ReaderIInv, LocateFooter
    PROVE  ReaderIInv'
<1>1. /\ pc = "locate" /\ StoreIInv /\ ReaderTypeOK /\ TailIsTaken /\ OnePhaseEach
      /\ key' = key /\ options' = options /\ size' = size /\ tail' = tail
      /\ outcome = Whole!Pending
  BY DEF LocateFooter, ReaderIInv, OutcomeIsRight
<1>2. PICK i \in Gets : Gets = {i} /\ requests[i].returned = tail
  BY <1>1 DEF ReaderIInv, OneGetSoFar
<1>3. /\ key \in DOMAIN Content /\ size = Len(Content[key]) /\ tail.end <= size
      /\ SpanLen(tail) < Whole!TRAILER_LEN =>
            Whole!Verdict(key, options) = Whole!Failed("TooShort")
      /\ SpanLen(tail) >= Whole!TRAILER_LEN =>
            /\ ~Located.ok => Whole!Verdict(key, options) = Located
            /\ Located.ok =>
                  /\ Located.footer \in Span /\ 4 <= Located.footer.start
                  /\ Located.footer = SpanOf(Located.footer.start, Located.footer.end)
                  /\ Located.footer.end = size - 8
                  /\ Whole!Verdict(key, options) =
                        IF Located.footer.end > tail.end THEN Whole!Failed("panic")
                        ELSE Whole!Opened(Located.footer, Bytes(Located.footer))
  BY <1>1, OutcomeOfTail
<1>4. size \in Nat /\ tail.start \in Nat /\ tail.end \in Nat /\ SpanLen(tail) \in Int
  BY <1>1 DEF ReaderTypeOK, Span, SpanLen
<1>5. /\ SpanLen(tail) < Whole!TRAILER_LEN =>
            Return(Whole!Failed("TooShort")) /\ UNCHANGED storeVars
      /\ ~(SpanLen(tail) < Whole!TRAILER_LEN) =>
            /\ ~Located.ok => Return(Located) /\ UNCHANGED storeVars
            /\ Located.ok =>
                  /\ footer' = Located.footer
                  /\ tail.start <= Located.footer.start =>
                        /\ UNCHANGED storeVars
                        /\ Located.footer.end <= tail.end =>
                              Return(Whole!Opened(Located.footer, Bytes(Located.footer)))
                        /\ ~(Located.footer.end <= tail.end) => Return(Whole!Failed("panic"))
                  /\ ~(tail.start <= Located.footer.start) =>
                        NextPhase /\ pc' = "missing" /\ outcome' = outcome
  BY DEF LocateFooter, Located, Trailer
<1>6. ASSUME UNCHANGED storeVars, NEW o, Return(o), Whole!Verdict(key, options) = o,
             o.ok /\ ~Whole!Misled(key, options) =>
                ~(options.prefetch < SpanLen(footer') + Whole!TRAILER_LEN /\ SpanLen(footer') > 0)
      PROVE  ReaderIInv'
  <2>1. pc' = "done" /\ outcome' = o
    BY <1>6 DEF Return
  <2>2. StoreIInv' /\ requests' = requests /\ Gets' = Gets
    BY <1>1, <1>6, StoreUnchanged DEF storeVars, Gets
  <2>3. ReaderTypeOK' /\ SizeIsTold' /\ TailIsTaken' /\ FooterIsLocated' /\ OutcomeIsRight'
    BY <1>1, <1>6, <2>1
    DEF ReaderTypeOK, SizeSources, SizeIsTold, TailIsTaken, FooterIsLocated, OutcomeIsRight
  <2>4. OnePhaseEach'
    BY <1>1, <2>1, <2>2 DEF OnePhaseEach
  <2>5. OneGetSoFar'
    <3>1. Cardinality(Gets') # 2
      BY <1>2, <2>2, FS_Singleton
    <3>2. \A j, k \in Gets' : j = k
      BY <1>2, <2>2
    <3>3. FetchesNoMoreThanItMust'
      BY <1>1, <1>6, <2>1, <3>1, <3>2 DEF FetchesNoMoreThanItMust, Whole!Misled
    <3>4. QED
      BY <2>1, <3>3 DEF OneGetSoFar
  <2>6. QED
    BY <2>2, <2>3, <2>4, <2>5 DEF ReaderIInv
<1>7. CASE SpanLen(tail) < Whole!TRAILER_LEN
  BY <1>3, <1>5, <1>6, <1>7 DEF Whole!Failed
<1>8. CASE SpanLen(tail) >= Whole!TRAILER_LEN /\ ~Located.ok
  BY <1>3, <1>4, <1>5, <1>6, <1>8, Lengths
<1>9. CASE SpanLen(tail) >= Whole!TRAILER_LEN /\ Located.ok
  <2> DEFINE at == Located.footer
  <2>1. /\ at \in Span /\ 4 <= at.start /\ at.end = size - 8 /\ footer' = at
        /\ at.start \in Nat /\ at.end \in Nat
        /\ ~(SpanLen(tail) < Whole!TRAILER_LEN)
    BY <1>3, <1>4, <1>5, <1>9, Lengths DEF Span
  <2>2. Whole!Verdict(key, options) = IF at.end > tail.end THEN Whole!Failed("panic")
                                      ELSE Whole!Opened(at, Bytes(at))
    BY <1>3, <1>9
  <2>3. CASE tail.start <= at.start
    <3>1. /\ UNCHANGED storeVars
          /\ at.end <= tail.end => Return(Whole!Opened(at, Bytes(at)))
          /\ ~(at.end <= tail.end) => Return(Whole!Failed("panic"))
      BY <1>5, <1>9, <2>1, <2>3
    <3>2. ~Whole!Misled(key, options) =>
             ~(options.prefetch < SpanLen(footer') + Whole!TRAILER_LEN /\ SpanLen(footer') > 0)
      BY <1>1, <2>1, <2>3, PrefetchSuffices
    <3> HIDE DEF at
    <3>3. CASE at.end <= tail.end
      BY <1>4, <1>6, <2>1, <2>2, <3>1, <3>2, <3>3
    <3>4. CASE ~(at.end <= tail.end)
      <4>1. at.end > tail.end
        BY <1>4, <2>1, <3>4
      <4>2. QED
        BY <1>6, <2>2, <3>1, <3>2, <3>4, <4>1
    <3>5. QED
      BY <3>3, <3>4
  <2>4. CASE ~(tail.start <= at.start)
    <3>1. NextPhase /\ pc' = "missing" /\ outcome' = outcome
      BY <1>5, <1>9, <2>1, <2>4
    <3>2. StoreIInv' /\ OnePhaseEach' /\ Gets' = Gets /\ requests' = requests
      BY <1>1, <3>1, StoreInvNextPhase, PhasesAfterNext
    <3>3. ReaderTypeOK' /\ SizeIsTold' /\ OutcomeIsRight' /\ TailIsTaken'
      BY <1>1, <3>1 DEF ReaderTypeOK, SizeSources, SizeIsTold, OutcomeIsRight, TailIsTaken, Told
    <3>4. at.start < tail.start
      BY <1>4, <2>1, <2>4
    <3>5. Located' = Located
      BY <1>1 DEF Located, Trailer, Bytes
    <3>6. FooterIsLocated'
      <4>1. footer' = Located'.footer /\ Located'.ok /\ footer'.start < tail'.start
        BY <1>1, <1>9, <2>1, <3>4, <3>5
      <4>2. SpanLen(tail') >= Whole!TRAILER_LEN
        BY <1>1, <1>9
      <4>3. QED
        BY <4>1, <4>2 DEF FooterIsLocated, Located, Trailer
    <3>7. OneGetSoFar'
      BY <1>1, <1>2, <3>1, <3>2 DEF OneGetSoFar
    <3>8. QED
      BY <3>2, <3>3, <3>6, <3>7 DEF ReaderIInv
  <2>5. QED
    BY <2>3, <2>4
<1>10. QED
  BY <1>4, <1>7, <1>8, <1>9, Lengths

LEMMA FetchMissingKeeps ==
    ASSUME ReaderIInv, FetchMissing
    PROVE  ReaderIInv'
<1> DEFINE answer == MemoryGet(key, Bounded(MissingPart))
           n == Len(requests)
<1>1. /\ pc = "missing" /\ Record("GET", key, answer) /\ key \in Keys
      /\ StoreIInv /\ ReaderTypeOK /\ TailIsTaken /\ FooterIsLocated /\ OnePhaseEach
      /\ key' = key /\ options' = options /\ size' = size /\ tail' = tail /\ footer' = footer
      /\ outcome = Whole!Pending
  BY DEF FetchMissing, Get, ReaderIInv, ReaderTypeOK, OutcomeIsRight
<1>2. PICK i \in Gets : Gets = {i} /\ requests[i].returned = tail
  BY <1>1 DEF ReaderIInv, OneGetSoFar
<1>3. /\ answer = [status |-> 206, span |-> MissingPart] /\ MissingPart \in Span
      /\ Whole!Verdict(key, options) =
            IF footer.end < tail.start \/ footer.end > tail.end THEN Whole!Failed("panic")
            ELSE Whole!Opened(footer, Bytes(MissingPart) \o Bytes(TailPart))
  BY <1>1, MissingAnswer
<1> HIDE DEF answer, n
<1>4. answer \in Answer /\ answer.status = 206 /\ answer.span = MissingPart
  BY <1>3 DEF Answer
<1>5. pc' = "done" /\ outcome' = Whole!Verdict(key, options)
  <2>1. /\ footer.end < tail.start \/ footer.end > tail.end => Return(Whole!Failed("panic"))
        /\ ~(footer.end < tail.start \/ footer.end > tail.end) =>
              Return(Whole!Opened(footer, Bytes(answer.span) \o Bytes(TailPart)))
    BY <1>4 DEF FetchMissing, answer
  <2>2. QED
    BY <1>3, <1>4, <2>1 DEF Return
<1>6. StoreIInv' /\ OnePhaseEach'
  BY <1>1, <1>4, <1>5, StoreInvRecord, PhasesAfterRecord
<1>7. ReaderTypeOK' /\ SizeIsTold' /\ TailIsTaken' /\ FooterIsLocated' /\ OutcomeIsRight'
  BY <1>1, <1>5
  DEF ReaderTypeOK, SizeSources, SizeIsTold, TailIsTaken, FooterIsLocated, OutcomeIsRight
<1>8. /\ Gets' = {i, n + 1} /\ i \in 1 .. n /\ n \in Nat /\ i # n + 1
      /\ requests'[i].returned = tail /\ requests'[n + 1].returned = MissingPart
  <2>1. /\ Gets' = Gets \cup {n + 1} /\ Gets \subseteq 1 .. n /\ n \in Nat
        /\ \A j \in Gets : requests'[j] = requests[j]
        /\ requests'[n + 1].returned = MissingPart
    BY <1>1, <1>4, GetsAfter DEF n
  <2>2. i \in 1 .. n /\ i # n + 1
    BY <2>1
  <2>3. QED
    BY <1>2, <2>1, <2>2
<1>9. Cardinality(Gets') = 2
  <2>1. IsFiniteSet({i}) /\ Cardinality({i}) = 1 /\ n + 1 \notin {i}
    BY <1>8, FS_Singleton
  <2>2. Cardinality({i} \cup {n + 1}) = Cardinality({i}) + 1
    BY <2>1, FS_AddElement
  <2>3. Gets' = {i} \cup {n + 1}
    BY <1>8
  <2>4. QED
    BY <2>1, <2>2, <2>3
<1>10. MissingPart.end = tail.start /\ tail.start \in Nat /\ tail.start <= tail.start
  BY <1>1 DEF MissingPart, SpanOf, ReaderTypeOK, Span
<1>11. \A j, k \in Gets' : j # k => \/ requests'[j].returned.end <= requests'[k].returned.start
                                   \/ requests'[k].returned.end <= requests'[j].returned.start
  BY <1>8, <1>10
<1>12. ~Whole!Misled(key, options) =>
          options.prefetch < SpanLen(footer) + Whole!TRAILER_LEN /\ SpanLen(footer) > 0
  <2>1. /\ SpanLen(tail) >= Whole!TRAILER_LEN /\ Located.ok /\ footer = Located.footer
        /\ footer.start < tail.start
    BY <1>1 DEF FooterIsLocated, Located, Trailer
  <2>2. footer \in Span /\ 4 <= footer.start /\ footer.end = size - 8
    BY <1>1, <2>1, OutcomeOfTail
  <2>3. ~(tail.start <= footer.start)
    BY <1>10, <2>1, <2>2 DEF Span
  <2>4. QED
    BY <1>1, <2>2, <2>3, PrefetchSuffices
<1>13. OneGetSoFar'
  <2>1. FetchesNoMoreThanItMust'
    BY <1>1, <1>9, <1>11, <1>12 DEF FetchesNoMoreThanItMust, Whole!Misled
  <2>2. QED
    BY <1>5, <2>1 DEF OneGetSoFar
<1>14. QED
  BY <1>6, <1>7, <1>13 DEF ReaderIInv

\* What read_footer knows between its requests.
THEOREM ReaderInvariant == Spec => []ReaderIInv
<1>1. ReaderIInv /\ [Next]_vars => ReaderIInv'
  <2> SUFFICES ASSUME ReaderIInv, [Next]_vars
               PROVE  ReaderIInv'
    OBVIOUS
  <2>1. CASE UNCHANGED vars
    <3>1. UNCHANGED storeVars /\ UNCHANGED readerVars
      BY <2>1 DEF vars
    <3>2. StoreIInv' /\ Gets' = Gets /\ requests' = requests /\ phase' = phase
      BY <3>1, StoreUnchanged DEF ReaderIInv, storeVars, Gets
    <3>3. ReaderTypeOK' /\ SizeIsTold' /\ TailIsTaken'
      BY <3>1 DEF ReaderIInv, ReaderTypeOK, SizeSources, SizeIsTold, TailIsTaken, readerVars, Told
    <3>4. FooterIsLocated' /\ OutcomeIsRight'
      BY <3>1 DEF ReaderIInv, FooterIsLocated, OutcomeIsRight, readerVars, Bytes
    <3>5. OnePhaseEach' /\ OneGetSoFar'
      BY <3>1, <3>2 DEF ReaderIInv, OnePhaseEach, OneGetSoFar, readerVars, FetchesNoMoreThanItMust
    <3>6. QED
      BY <3>2, <3>3, <3>4, <3>5 DEF ReaderIInv
  <2>2. QED
    BY <2>1, AskSizeKeeps, SizeKnownKeeps, FetchTailKeeps, LocateFooterKeeps, FetchMissingKeeps
    DEF Next
<1>2. QED
  BY <1>1, InitKeeps, PTL DEF Spec

\* Each request that needs an earlier answer waits for it, however many connections there are.
THEOREM RequestsOfAReadNeverOverlap == Spec => []RequestsWaitForAnswers
<1>1. ReaderIInv => RequestsWaitForAnswers
  BY DEF ReaderIInv, OnePhaseEach, StoreIInv, PhaseBarrier, RequestsWaitForAnswers
<1>2. QED
  BY <1>1, ReaderInvariant, PTL

\* There is a second GET exactly when the prefetch was too short, and it repeats no byte.
THEOREM NoMoreIsFetched == Spec => []FetchesNoMoreThanItMust
<1>1. ReaderIInv => FetchesNoMoreThanItMust
  <2> SUFFICES ASSUME ReaderIInv, pc # "done"
               PROVE  FetchesNoMoreThanItMust
    BY DEF ReaderIInv, OneGetSoFar
  <2>1. ~outcome.ok
    BY DEF ReaderIInv, OutcomeIsRight, Whole!Pending
  <2>2. \A i, j \in Gets : i = j
    BY DEF ReaderIInv, OneGetSoFar, ReaderTypeOK
  <2>3. QED
    BY <2>1, <2>2 DEF FetchesNoMoreThanItMust
<1>2. QED
  BY <1>1, ReaderInvariant, PTL

\* The safety of opening: whatever read_footer returns, it returns once, and it is what OpenFile
\* says of the file and the arguments.  (That it returns is liveness, and left to TLC.)
THEOREM ReadingIsOpening == Spec => Whole!Init /\ [][Whole!Open]_(Whole!vars)
<1>1. Init => Whole!Init
  BY DEF Init, Whole!Init
<1>2. ReaderIInv /\ ReaderIInv' /\ [Next]_vars => [Whole!Open]_(Whole!vars)
  <2> SUFFICES ASSUME ReaderIInv, ReaderIInv', [Next]_vars
               PROVE  [Whole!Open]_(Whole!vars)
    OBVIOUS
  <2>1. key' = key /\ options' = options
    BY DEF vars, readerVars, Next, AskSize, SizeKnown, FetchTail, LocateFooter, FetchMissing
  <2>2. /\ outcome = IF pc = "done" THEN Whole!Verdict(key, options) ELSE Whole!Pending
        /\ outcome' = IF pc' = "done" THEN Whole!Verdict(key, options) ELSE Whole!Pending
    BY <2>1 DEF ReaderIInv, OutcomeIsRight
  <2>3. pc = "done" => pc' = "done"
    BY DEF vars, readerVars, Next, AskSize, SizeKnown, FetchTail, LocateFooter, FetchMissing
  <2>4. CASE outcome' = outcome
    BY <2>1, <2>4 DEF Whole!vars
  <2>5. CASE outcome' # outcome
    <3>1. pc # "done" /\ pc' = "done"
      BY <2>2, <2>3, <2>5
    <3>2. QED
      BY <2>1, <2>2, <3>1 DEF Whole!Open
  <2>6. QED
    BY <2>4, <2>5
<1>3. QED
  BY <1>1, <1>2, ReaderInvariant, PTL DEF Spec

\* A reader that was not told a wrong size ends as one who holds the whole file, unless the object
\* is empty.
THEOREM HonestSizesOpenFiles ==
    Spec => [](pc = "done" /\ ~Whole!Misled(key, options)
                  => outcome = Whole!WholeFile(key) \/ Content[key] = <<>>)
<1>1. ReaderIInv => (pc = "done" /\ ~Whole!Misled(key, options)
                       => outcome = Whole!WholeFile(key) \/ Content[key] = <<>>)
  BY DEF ReaderIInv, OutcomeIsRight, Whole!Verdict
<1>2. QED
  BY <1>1, ReaderInvariant, PTL
=============================================================================
