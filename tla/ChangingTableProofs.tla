------------------------ MODULE ChangingTableProofs ------------------------
(***************************************************************************)
(* For any table written first, any batches, targets and small files: in   *)
(* whatever order it is changed, every snapshot of it stays readable, a    *)
(* lookup opens enough files, and a compaction adds up and leaves fewer    *)
(* files.  The invariant says that a snapshot's files are as they were     *)
(* written, hold no order twice, and are named by its delete files at      *)
(* positions of their own.                                                 *)
(***************************************************************************)
EXTENDS ChangingTable, DataProofs

LEMMA ToSetIsRange == ASSUME NEW s PROVE ToSet(s) = Range(s)
BY DEF ToSet, Range

(***************************************************************************)
(* The files of a snapshot                                                 *)
(***************************************************************************)

\* A data file's manifest entry counts its orders, and brackets them.
LEMMA DataFileFacts ==
    ASSUME NEW f, WrittenData(f)
    PROVE  /\ f.record_count \in Nat \ {0}
           /\ DOMAIN objects[f.path] = 1 .. f.record_count
           /\ IsFiniteSet(ToSet(objects[f.path])) /\ ToSet(objects[f.path]) \subseteq Nat
           /\ Cardinality(ToSet(objects[f.path])) = f.record_count
           /\ f.min_key \in ToSet(objects[f.path]) /\ f.max_key \in ToSet(objects[f.path])
           /\ \A o \in ToSet(objects[f.path]) : f.min_key <= o /\ o <= f.max_key
           /\ f.path \in DOMAIN objects
<1> DEFINE seq == objects[f.path]
           n == Len(seq)
<1>1. seq \in Seq(Nat) /\ seq # <<>> /\ n \in Nat /\ DOMAIN seq = 1 .. n
  BY LenProperties DEF WrittenData
<1>2. n # 0
  BY <1>1, EmptySeq
<1>3. IsFiniteSet(ToSet(seq)) /\ Cardinality(ToSet(seq)) = n
  BY <1>1, DistinctSize, ToSetIsRange DEF WrittenData
<1>4. ToSet(seq) \subseteq Nat /\ seq[1] \in ToSet(seq)
  BY <1>1, <1>2 DEF ToSet
<1>5. /\ f.record_count = n
      /\ f.min_key = Min(ToSet(seq)) /\ f.max_key = Max(ToSet(seq))
  BY DEF WrittenData, DataFile
<1> HIDE DEF n
<1>6. Min(ToSet(seq)) \in ToSet(seq) /\ \A o \in ToSet(seq) : Min(ToSet(seq)) <= o
  BY <1>4, MinOfNaturals
<1>7. Max(ToSet(seq)) \in ToSet(seq) /\ \A o \in ToSet(seq) : o <= Max(ToSet(seq))
  BY <1>3, <1>4, MaxOfFinite
<1> HIDE DEF seq
<1>8. QED
  BY <1>1, <1>2, <1>3, <1>4, <1>5, <1>6, <1>7 DEF WrittenData, seq

\* The positions of a data file are as many as its orders.
LEMMA PositionsSize ==
    ASSUME NEW f, WrittenData(f)
    PROVE  IsFiniteSet(Positions(f)) /\ Cardinality(Positions(f)) = f.record_count
<1> DEFINE n == f.record_count
           at == [pos \in 1 .. n |-> <<f.path, pos>>]
<1>1. n \in Nat /\ DOMAIN objects[f.path] = 1 .. n
  BY DataFileFacts
<1>2. \A y : y \in Positions(f) <=> \E pos \in 1 .. n : y = at[pos]
  BY <1>1 DEF Positions
<1>3. IsFiniteSet(1 .. n) /\ Cardinality(1 .. n) = n
  BY <1>1, FS_Interval
<1>4. \A x, y \in 1 .. n : at[x] = at[y] => x = y
  OBVIOUS
<1> HIDE DEF at, n
<1>5. IsFiniteSet(Positions(f)) /\ Cardinality(Positions(f)) = Cardinality(1 .. n)
  BY <1>2, <1>3, <1>4, NamedSize
<1>6. QED
  BY <1>3, <1>5 DEF n

Decoded(s) == UNION {Positions(f) : f \in s.data_files}
Live(s) == Decoded(s) \ PositionDeletes(s.delete_files)

LEMMA ScanTableIs ==
    ASSUME NEW s
    PROVE  /\ ScanTable(s).rows_decoded = Cardinality(Decoded(s))
           /\ ScanTable(s).live_rows = Cardinality(Live(s))
           /\ ScanTable(s).orders = {OrderAt(at) : at \in Live(s)}
BY DEF ScanTable, Decoded, Live

LEMMA DecodedIs ==
    ASSUME NEW s, NEW at
    PROVE  at \in Decoded(s) <=> \E f \in s.data_files : \E pos \in DOMAIN objects[f.path] :
                                    at = <<f.path, pos>>
BY DEF Decoded, Positions

\* A snapshot's data files are told apart by their paths, and by any order or position.
LEMMA FilesApart ==
    ASSUME NEW s, NEW R, SnapshotIsSound(s, R), NEW f \in s.data_files, NEW g \in s.data_files
    PROVE  /\ f.path = g.path => f = g
           /\ f # g => Positions(f) \cap Positions(g) = {}
<1>1. f = DataFile(f.path, objects[f.path]) /\ g = DataFile(g.path, objects[g.path])
  BY DEF SnapshotIsSound, WrittenData
<1>2. f.path = g.path => f = g
  BY <1>1
<1>3. QED
  BY <1>2 DEF Positions

\* No two positions hold the same order.
LEMMA OrdersApart ==
    ASSUME NEW s, NEW R, SnapshotIsSound(s, R), NEW at \in Decoded(s), NEW to \in Decoded(s),
           OrderAt(at) = OrderAt(to)
    PROVE  at = to
<1>1. PICK f \in s.data_files : \E pos \in DOMAIN objects[f.path] : at = <<f.path, pos>>
  BY DecodedIs
<1>2. PICK m \in DOMAIN objects[f.path] : at = <<f.path, m>>
  BY <1>1
<1>3. PICK g \in s.data_files : \E pos \in DOMAIN objects[g.path] : to = <<g.path, pos>>
  BY DecodedIs
<1>4. PICK n \in DOMAIN objects[g.path] : to = <<g.path, n>>
  BY <1>3
<1>5. objects[f.path][m] = objects[g.path][n]
  BY <1>2, <1>4 DEF OrderAt
<1>6. f = g
  <2>1. objects[f.path][m] \in ToSet(objects[f.path]) /\ objects[g.path][n] \in ToSet(objects[g.path])
    BY DEF ToSet
  <2>2. QED
    BY <1>5, <2>1 DEF SnapshotIsSound
<1>7. IsInjective(objects[f.path])
  BY DEF SnapshotIsSound, WrittenData
<1>8. m = n
  BY <1>5, <1>6, <1>7 DEF IsInjective
<1>9. QED
  BY <1>2, <1>4, <1>6, <1>8

\* What a delete file removes.
Gone(d) == objects[d.path][1]

\* It is a position of the data file it names, and another removes another.
LEMMA GoneIs ==
    ASSUME NEW s, NEW R, SnapshotIsSound(s, R), NEW d \in s.delete_files
    PROVE  /\ ToSet(objects[d.path]) = {Gone(d)}
           /\ d.record_count = 1
           /\ Gone(d)[1] = d.data_file
           /\ \E f \in s.data_files : f.path = d.data_file /\ Gone(d) \in Positions(f)
           /\ \A e \in s.delete_files : Gone(d) = Gone(e) => d = e
<1>1. PICK f \in s.data_files, pos \in DOMAIN objects[d.data_file] :
          f.path = d.data_file /\ objects[d.path] = << <<d.data_file, pos>> >>
  BY DEF SnapshotIsSound, WrittenDelete
<1>2. Gone(d) = <<d.data_file, pos>>
  BY <1>1 DEF Gone
<1>3. ToSet(objects[d.path]) = {Gone(d)}
  <2> DEFINE p == <<d.data_file, pos>>
  <2>1. objects[d.path] = <<p>> /\ Gone(d) = p
    BY <1>1, <1>2
  <2> HIDE DEF p
  <2>2. DOMAIN <<p>> = {1} /\ <<p>>[1] = p
    OBVIOUS
  <2>3. QED
    BY <2>1, <2>2 DEF ToSet
<1>4. d.record_count = 1
  BY DEF SnapshotIsSound, WrittenDelete, DeleteFile
<1>5. Gone(d) \in Positions(f)
  BY <1>1, <1>2 DEF Positions
<1>6. ASSUME NEW e \in s.delete_files, Gone(d) = Gone(e)
      PROVE  d = e
  <2>1. PICK g \in s.data_files, at \in DOMAIN objects[e.data_file] :
            objects[e.path] = << <<e.data_file, at>> >>
    BY DEF SnapshotIsSound, WrittenDelete
  <2>2. objects[e.path] = <<Gone(e)>>
    BY <2>1 DEF Gone
  <2>3. objects[d.path] = <<Gone(d)>>
    BY <1>1, <1>2
  <2>4. QED
    BY <1>6, <2>2, <2>3 DEF SnapshotIsSound
<1>7. QED
  BY <1>1, <1>2, <1>3, <1>4, <1>5, <1>6

LEMMA PositionDeletesAre ==
    ASSUME NEW s, NEW R, SnapshotIsSound(s, R), NEW D, D \subseteq s.delete_files
    PROVE  PositionDeletes(D) = {Gone(d) : d \in D}
<1>1. \A d \in D : ToSet(objects[d.path]) = {Gone(d)}
  BY GoneIs
<1>2. QED
  BY <1>1 DEF PositionDeletes

(***************************************************************************)
(* What a snapshot's counts come to                                        *)
(***************************************************************************)

\* The live rows a manifest counts for a file are the positions of it that no delete file names,
\* and as many as its live orders.
LEMMA LiveRowsAre ==
    ASSUME NEW s, NEW R, SnapshotIsSound(s, R), NEW f \in s.data_files
    PROVE  /\ IsFiniteSet(Positions(f) \ PositionDeletes(s.delete_files))
           /\ LiveRows(s, f) = Cardinality(Positions(f) \ PositionDeletes(s.delete_files))
           /\ LiveRows(s, f) \in Nat
<1> DEFINE here == DeletesFor(s, f)
           gone == PositionDeletes(s.delete_files)
           one == [d \in here |-> d.record_count]
           name == [d \in here |-> Gone(d)]
<1>1. here \in SUBSET s.delete_files /\ IsFiniteSet(here) /\ Cardinality(here) \in Nat
  <2>1. here \in SUBSET s.delete_files
    BY DEF DeletesFor
  <2>2. QED
    BY <2>1, FS_Subset, FS_CardinalityType DEF SnapshotIsSound
<1>2. Positions(f) \cap gone = {name[d] : d \in here}
  <2>1. gone = {Gone(d) : d \in s.delete_files}
    BY PositionDeletesAre
  <2>2. ASSUME NEW d \in s.delete_files
        PROVE  Gone(d) \in Positions(f) <=> d \in here
    <3>1. PICK g \in s.data_files : g.path = d.data_file /\ Gone(d) \in Positions(g)
      BY GoneIs
    <3>2. g.path = f.path => g = f
      BY FilesApart
    <3>3. g # f => Gone(d) \notin Positions(f)
      BY <3>1, FilesApart
    <3>4. QED
      BY <3>1, <3>2, <3>3 DEF DeletesFor
  <2>3. {name[d] : d \in here} = {Gone(d) : d \in here}
    OBVIOUS
  <2> HIDE DEF here, gone, name
  <2>4. QED
    BY <1>1, <2>1, <2>2, <2>3
<1>3. Cardinality(Positions(f) \cap gone) = Cardinality(here)
  <2>1. \A d, e \in here : name[d] = name[e] => d = e
    BY <1>1, GoneIs
  <2> HIDE DEF here, gone, name
  <2>2. QED
    BY <1>1, <1>2, <2>1, NamedSize
<1>4. SumFunction(one) = Cardinality(here)
  <2>1. \A d \in here : one[d] = 1
    BY <1>1, GoneIs
  <2>2. SumFunction(one) = SumFunctionOnSet(one, here)
    BY DEF SumFunction
  <2> HIDE DEF here, one
  <2>3. SumFunctionOnSet(one, here) = Cardinality(here) * 1
    BY <1>1, <2>1, SumOfEqual
  <2>4. QED
    BY <1>1, <2>2, <2>3
<1>5. WrittenData(f)
  BY DEF SnapshotIsSound
<1>6. IsFiniteSet(Positions(f)) /\ Cardinality(Positions(f)) = f.record_count
  BY <1>5, PositionsSize
<1>7. /\ IsFiniteSet(Positions(f) \ gone)
      /\ Cardinality(Positions(f) \ gone) = f.record_count - Cardinality(here)
  <2> HIDE DEF gone, here
  <2>1. /\ IsFiniteSet(Positions(f) \ gone)
        /\ Cardinality(Positions(f) \ gone)
             = Cardinality(Positions(f)) - Cardinality(Positions(f) \cap gone)
    BY <1>6, FS_Difference
  <2>2. QED
    BY <1>3, <1>6, <2>1
<1>8. LiveRows(s, f) = f.record_count - Cardinality(here)
  BY <1>4 DEF LiveRows
<1>9. Cardinality(Positions(f) \ gone) \in Nat
  BY <1>7, FS_CardinalityType
<1>10. QED
  BY <1>7, <1>8, <1>9

\* Any positions decoded hold as many orders as they are.
LEMMA OrdersAtSize ==
    ASSUME NEW s, NEW R, SnapshotIsSound(s, R), NEW P, P \subseteq Decoded(s), IsFiniteSet(P)
    PROVE  /\ IsFiniteSet({OrderAt(at) : at \in P})
           /\ Cardinality({OrderAt(at) : at \in P}) = Cardinality(P)
<1> DEFINE name == [at \in P |-> OrderAt(at)]
<1>1. \A x, y \in P : name[x] = name[y] => x = y
  BY OrdersApart
<1>2. \A o : o \in {OrderAt(at) : at \in P} <=> \E at \in P : o = name[at]
  OBVIOUS
<1> HIDE DEF name
<1>3. QED
  BY <1>1, <1>2, NamedSize

LEMMA LiveOrdersSize ==
    ASSUME NEW s, NEW R, SnapshotIsSound(s, R), NEW f \in s.data_files
    PROVE  /\ IsFiniteSet(LiveOrders(s, f))
           /\ Cardinality(LiveOrders(s, f)) = LiveRows(s, f)
<1> DEFINE P == Positions(f) \ PositionDeletes(s.delete_files)
<1>1. P \subseteq Decoded(s)
  BY DEF Decoded
<1>2. IsFiniteSet(P) /\ LiveRows(s, f) = Cardinality(P)
  BY LiveRowsAre
<1>3. LiveOrders(s, f) = {OrderAt(at) : at \in P}
  BY DEF LiveOrders
<1> HIDE DEF P
<1>4. QED
  BY <1>1, <1>2, <1>3, OrdersAtSize

\* The orders of a snapshot are the live orders of its files.
LEMMA OrdersAreLive ==
    ASSUME NEW s, NEW R, SnapshotIsSound(s, R)
    PROVE  \A o : o \in R <=> \E f \in s.data_files : o \in LiveOrders(s, f)
<1>1. R = {OrderAt(at) : at \in Live(s)}
  BY ScanTableIs DEF SnapshotIsSound
<1>2. \A at : at \in Live(s) <=> \E f \in s.data_files :
                                    at \in Positions(f) \ PositionDeletes(s.delete_files)
  BY DEF Live, Decoded
<1>3. QED
  BY <1>1, <1>2 DEF LiveOrders

\* A snapshot's scan is exact, and its counts say so.
LEMMA SoundIsExact ==
    ASSUME NEW s, NEW R, SnapshotIsSound(s, R)
    PROVE  /\ ScanTable(s).orders = R
           /\ ScanTable(s).live_rows = Cardinality(R)
           /\ ScanTable(s).live_rows = SumFunction([f \in s.data_files |-> LiveRows(s, f)])
<1> DEFINE gone == PositionDeletes(s.delete_files)
           parts == [f \in s.data_files |-> Positions(f) \ gone]
           size == [f \in s.data_files |-> LiveRows(s, f)]
<1>1. /\ ScanTable(s).orders = R
      /\ R = {OrderAt(at) : at \in Live(s)}
      /\ ScanTable(s).live_rows = Cardinality(Live(s))
  BY ScanTableIs DEF SnapshotIsSound
<1>2. \A at : at \in Live(s) <=> \E f \in s.data_files : at \in parts[f]
  BY DEF Live, Decoded
<1>3. /\ IsFiniteSet(s.data_files)
      /\ \A f \in s.data_files : IsFiniteSet(parts[f]) /\ size[f] = Cardinality(parts[f])
      /\ \A f, g \in s.data_files : f # g => parts[f] \cap parts[g] = {}
  <2>1. \A f \in s.data_files : IsFiniteSet(parts[f]) /\ size[f] = Cardinality(parts[f])
    BY LiveRowsAre
  <2>2. \A f, g \in s.data_files : f # g => parts[f] \cap parts[g] = {}
    <3> SUFFICES ASSUME NEW f \in s.data_files, NEW g \in s.data_files, f # g
                 PROVE  parts[f] \cap parts[g] = {}
      OBVIOUS
    <3>1. Positions(f) \cap Positions(g) = {}
      BY FilesApart
    <3>2. QED
      BY <3>1
  <2>3. QED
    BY <2>1, <2>2 DEF SnapshotIsSound
<1>4. SumFunction(size) = SumFunctionOnSet(size, s.data_files)
  BY DEF SumFunction
<1> HIDE DEF parts, size
<1>6. IsFiniteSet(Live(s)) /\ SumFunction(size) = Cardinality(Live(s))
  BY <1>2, <1>3, <1>4, SumOfSizes
<1>7. Cardinality(R) = Cardinality(Live(s))
  <2>1. Live(s) \subseteq Decoded(s)
    BY DEF Live
  <2>2. QED
    BY <1>1, <1>6, <2>1, OrdersAtSize
<1>8. QED
  BY <1>1, <1>6, <1>7 DEF size

(***************************************************************************)
(* A lookup                                                                *)
(***************************************************************************)

\* A lookup in a snapshot finds an order, not deleted, when the snapshot holds it, and only then.
LEMMA SoundIsFound ==
    ASSUME NEW s, NEW R, SnapshotIsSound(s, R), NEW key
    PROVE  key \in R <=> Lookup(s, key).found # Nowhere /\ ~Lookup(s, key).deleted
<1> DEFINE open == FilesToOpen(s, key)
           hits == {at \in UNION {Positions(f) : f \in open.data} : OrderAt(at) = key}
           First(at) == \A h \in hits : at[1] = h[1] => at[2] <= h[2]
           hit == CHOOSE at \in hits : First(at)
<1>1. Lookup(s, key) = IF hits = {} THEN [found |-> Nowhere, deleted |-> FALSE]
                       ELSE [found |-> hit, deleted |-> hit \in PositionDeletes(open.deletes)]
  BY DEF Lookup
<1>1a. /\ hits = {} => Lookup(s, key).found = Nowhere
       /\ hits # {} => /\ Lookup(s, key).found = hit
                       /\ Lookup(s, key).deleted <=> hit \in PositionDeletes(open.deletes)
  <2> DEFINE gone == hit \in PositionDeletes(open.deletes)
  <2>1. CASE hits = {}
    BY <1>1, <2>1
  <2>2. CASE hits # {}
    <3>1. Lookup(s, key) = [found |-> hit, deleted |-> gone]
      BY <1>1, <2>2
    <3> HIDE DEF hits, hit, open, gone
    <3>2. Lookup(s, key).found = hit /\ Lookup(s, key).deleted = gone
      BY <3>1
    <3>3. QED
      BY <2>2, <3>2 DEF gone
  <2>3. QED
    BY <2>1, <2>2
<1>2. /\ open.data = {f \in s.data_files : f.min_key <= key /\ key <= f.max_key}
      /\ open.deletes = {d \in s.delete_files : d.data_file \in Paths(open.data)}
  BY DEF FilesToOpen
<1>3. hits \subseteq Decoded(s)
  BY <1>2 DEF Decoded
<1> HIDE DEF open
<1>4. \A x, y \in hits : x = y
  BY <1>3, OrdersApart
<1>5. ASSUME NEW at \in hits
      PROVE  /\ hit = at
             /\ at # Nowhere
             /\ at \in PositionDeletes(open.deletes) <=> at \in PositionDeletes(s.delete_files)
  <2>1. PICK f \in open.data : at \in Positions(f)
    OBVIOUS
  <2>2. f \in s.data_files
    BY <1>2
  <2>3. PICK pos \in DOMAIN objects[f.path] : at = <<f.path, pos>>
    BY <2>1 DEF Positions
  <2>4. pos \in Nat \ {0}
    <3>1. WrittenData(f)
      BY <2>2 DEF SnapshotIsSound
    <3>2. QED
      BY <3>1, DataFileFacts
  <2>5. at[2] <= at[2]
    BY <2>3, <2>4
  <2> HIDE DEF hits
  <2>6. First(at)
    BY <1>4, <2>5
  <2>7. hit \in hits
    BY <2>6
  <2>8. \A d \in s.delete_files : Gone(d) = at => d \in open.deletes
    <3> SUFFICES ASSUME NEW d \in s.delete_files, Gone(d) = at
                 PROVE  d \in open.deletes
      OBVIOUS
    <3>1. d.data_file = f.path
      BY <2>3, GoneIs
    <3>2. QED
      BY <1>2, <3>1 DEF Paths
  <2>9. /\ PositionDeletes(s.delete_files) = {Gone(d) : d \in s.delete_files}
        /\ PositionDeletes(open.deletes) = {Gone(d) : d \in open.deletes}
        /\ open.deletes \subseteq s.delete_files
    <3>1. open.deletes \subseteq s.delete_files
      BY <1>2
    <3>2. QED
      BY <3>1, PositionDeletesAre
  <2>10. at # Nowhere
    BY <2>3, <2>4 DEF Nowhere
  <2>11. QED
    BY <1>4, <2>7, <2>8, <2>9, <2>10
<1>6. R = {OrderAt(at) : at \in Live(s)}
  BY ScanTableIs DEF SnapshotIsSound
<1>7. ASSUME key \in R
      PROVE  Lookup(s, key).found # Nowhere /\ ~Lookup(s, key).deleted
  <2>1. PICK at \in Live(s) : OrderAt(at) = key
    BY <1>6, <1>7
  <2>2. PICK f \in s.data_files : at \in Positions(f)
    BY DEF Live, Decoded
  <2>3. key \in ToSet(objects[f.path]) /\ WrittenData(f)
    BY <2>1, <2>2 DEF Positions, OrderAt, ToSet, SnapshotIsSound
  <2>4. f \in open.data
    BY <1>2, <2>3, DataFileFacts
  <2>5. at \in hits
    BY <2>1, <2>2, <2>4
  <2>6. at \notin PositionDeletes(s.delete_files)
    BY DEF Live
  <2> HIDE DEF hits, hit
  <2>7. QED
    BY <1>1a, <1>5, <2>5, <2>6
<1>8. ASSUME Lookup(s, key).found # Nowhere, ~Lookup(s, key).deleted
      PROVE  key \in R
  <2>1. PICK at \in hits : TRUE
    <3> HIDE DEF hits, hit
    <3>1. QED
      BY <1>1a, <1>8
  <2>2. OrderAt(at) = key
    OBVIOUS
  <2>3. at \notin PositionDeletes(s.delete_files)
    <3> HIDE DEF hits, hit
    <3>1. QED
      BY <1>1a, <1>5, <1>8
  <2>4. at \in Live(s)
    BY <1>3, <2>3 DEF Live
  <2>5. QED
    BY <1>6, <2>2, <2>4
<1>9. QED
  BY <1>7, <1>8

(***************************************************************************)
(* What is written is not written again                                    *)
(***************************************************************************)
ObjectsGrow ==
    /\ DOMAIN objects \subseteq DOMAIN objects'
    /\ \A p \in DOMAIN objects : objects'[p] = objects[p]

\* A sound snapshot stays sound.
LEMMA SoundStays ==
    ASSUME ObjectsGrow, NEW s, NEW R, SnapshotIsSound(s, R)
    PROVE  SnapshotIsSound(s, R)'
<1>1. \A f \in s.data_files : /\ WrittenData(f)
                             /\ f.path \in DOMAIN objects
                             /\ objects'[f.path] = objects[f.path]
  BY DEF SnapshotIsSound, WrittenData, ObjectsGrow
<1>2. \A f \in s.data_files : WrittenData(f)'
  BY <1>1 DEF WrittenData, ObjectsGrow
<1>3. \A d \in s.delete_files : /\ WrittenDelete(s, d)
                               /\ d.path \in DOMAIN objects
                               /\ objects'[d.path] = objects[d.path]
  BY DEF SnapshotIsSound, WrittenDelete, ObjectsGrow
<1>4. ASSUME NEW d \in s.delete_files
      PROVE  WrittenDelete(s, d)'
  <2>1. PICK f \in s.data_files, pos \in DOMAIN objects[d.data_file] :
            f.path = d.data_file /\ objects[d.path] = << <<d.data_file, pos>> >>
    BY <1>3 DEF WrittenDelete
  <2>2. objects'[d.data_file] = objects[d.data_file]
    BY <1>1, <2>1
  <2>3. d.path \in DOMAIN objects' /\ d = DeleteFile(d.path, d.data_file)
    BY <1>3 DEF WrittenDelete, ObjectsGrow
  <2>4. QED
    BY <1>3, <2>1, <2>2, <2>3 DEF WrittenDelete
<1>5. ScanTable(s)'.orders = ScanTable(s).orders
  <2>1. \A f \in s.data_files : Positions(f)' = Positions(f)
    BY <1>1 DEF Positions
  <2>2. Decoded(s)' = Decoded(s)
    BY <2>1 DEF Decoded
  <2>3. PositionDeletes(s.delete_files)' = PositionDeletes(s.delete_files)
    BY <1>3 DEF PositionDeletes
  <2>4. \A at \in Decoded(s) : OrderAt(at)' = OrderAt(at)
    <3> SUFFICES ASSUME NEW at \in Decoded(s)
                 PROVE  OrderAt(at)' = OrderAt(at)
      OBVIOUS
    <3>1. PICK f \in s.data_files : \E pos \in DOMAIN objects[f.path] : at = <<f.path, pos>>
      BY DecodedIs
    <3>2. QED
      BY <1>1, <3>1 DEF OrderAt
  <2>5. Live(s)' = Live(s) /\ Live(s) \subseteq Decoded(s)
    BY <2>2, <2>3 DEF Live
  <2>6. ScanTable(s)'.orders = {OrderAt(at)' : at \in Live(s)'}
    BY DEF ScanTable, Live, Decoded
  <2>7. QED
    BY <2>4, <2>5, <2>6, ScanTableIs
<1>6. QED
  BY <1>1, <1>2, <1>3, <1>4, <1>5 DEF SnapshotIsSound

\* What the deletes of a snapshot's own files remove, as they are and as they were.
LEMMA GoneStays ==
    ASSUME ObjectsGrow, NEW s, NEW R, SnapshotIsSound(s, R), NEW D \in SUBSET s.delete_files
    PROVE  PositionDeletes(D)' = {Gone(d) : d \in D}
<1>1. \A d \in D : objects'[d.path] = objects[d.path]
  BY DEF SnapshotIsSound, WrittenDelete, ObjectsGrow
<1>2. PositionDeletes(D)' = PositionDeletes(D)
  BY <1>1 DEF PositionDeletes
<1>3. QED
  BY <1>2, PositionDeletesAre

\* A snapshot that keeps some data files of another, with the deletes that name them, and has
\* others just written beside them.
Remakes(s, kept, deletes, new, t, orders) ==
    /\ kept \subseteq s.data_files /\ deletes \subseteq s.delete_files
    /\ \A d \in s.delete_files : d \in deletes <=> \E f \in kept : f.path = d.data_file
    /\ IsFiniteSet(new)
    /\ \A f \in new : WrittenData(f)' /\ f.path \notin DOMAIN objects
    /\ \A f, g \in new : f # g => ToSet(objects'[f.path]) \cap ToSet(objects'[g.path]) = {}
    /\ \A f \in new, g \in kept : ToSet(objects'[f.path]) \cap ToSet(objects[g.path]) = {}
    /\ t = [data_files |-> kept \cup new, delete_files |-> deletes]
    /\ \A o : o \in orders <=> \/ \E f \in kept : o \in LiveOrders(s, f)
                               \/ \E f \in new : o \in ToSet(objects'[f.path])

\* It is sound if the other is, and holds the live orders of the first and all the orders of the
\* others.
LEMMA RemadeIsSound ==
    ASSUME ObjectsGrow, NEW s, NEW R, SnapshotIsSound(s, R),
           NEW kept, NEW deletes, NEW new, NEW t, NEW orders,
           Remakes(s, kept, deletes, new, t, orders)
    PROVE  SnapshotIsSound(t, orders)'
<1> USE DEF Remakes
<1>1. /\ t.data_files = kept \cup new /\ t.delete_files = deletes
      /\ t = [data_files |-> t.data_files, delete_files |-> t.delete_files]
  OBVIOUS
<1>2. IsFiniteSet(kept) /\ IsFiniteSet(deletes)
  BY FS_Subset DEF SnapshotIsSound
<1>3. IsFiniteSet(t.data_files) /\ IsFiniteSet(t.delete_files)
  BY <1>1, <1>2, FS_Union
<1>4. SnapshotIsSound(s, R)'
  BY SoundStays
<1>5. \A f \in kept : f.path \in DOMAIN objects /\ objects'[f.path] = objects[f.path]
  BY DEF SnapshotIsSound, WrittenData, ObjectsGrow
<1>6. \A f \in t.data_files : WrittenData(f)'
  BY <1>1, <1>4 DEF SnapshotIsSound
<1>7. ASSUME NEW f \in t.data_files, NEW g \in t.data_files, f # g
      PROVE  ToSet(objects'[f.path]) \cap ToSet(objects'[g.path]) = {}
  <2>1. CASE f \in kept /\ g \in kept
    BY <1>4, <1>7, <2>1 DEF SnapshotIsSound
  <2>2. CASE f \in new /\ g \in new
    BY <1>7, <2>2
  <2>3. CASE f \in new /\ g \in kept
    BY <1>5, <2>3
  <2>4. CASE f \in kept /\ g \in new
    BY <1>5, <2>4
  <2>5. QED
    BY <1>1, <2>1, <2>2, <2>3, <2>4
<1>8. ASSUME NEW d \in t.delete_files
      PROVE  WrittenDelete(t, d)'
  <2>1. d \in deletes /\ d \in s.delete_files
    BY <1>1
  <2>2. WrittenDelete(s, d)'
    BY <1>4, <2>1 DEF SnapshotIsSound
  <2>3. PICK f \in kept : f.path = d.data_file
    BY <2>1
  <2>4. f \in t.data_files
    BY <1>1
  <2>5. QED
    BY <2>2, <2>3, <2>4 DEF WrittenDelete
<1>9. \A d, e \in t.delete_files : objects'[d.path] = objects'[e.path] => d = e
  BY <1>1, <1>4 DEF SnapshotIsSound
<1>10. PositionDeletes(deletes)' = {Gone(d) : d \in deletes}
  BY GoneStays
<1>11. ScanTable(t)'.orders = {OrderAt(at)' : at \in Live(t)'}
  BY DEF ScanTable, Live, Decoded
<1>12. \A at : at \in Live(t)' <=> /\ \E f \in kept \cup new : at \in Positions(f)'
                                   /\ at \notin {Gone(d) : d \in deletes}
  BY <1>1, <1>10 DEF Live, Decoded
<1>13. ASSUME NEW f \in kept, NEW at \in Positions(f)
       PROVE  /\ at \in {Gone(d) : d \in deletes} <=> at \in PositionDeletes(s.delete_files)
              /\ OrderAt(at)' = OrderAt(at)
  <2>1. at[1] = f.path
    BY DEF Positions
  <2>2. PositionDeletes(s.delete_files) = {Gone(d) : d \in s.delete_files}
    BY PositionDeletesAre
  <2>3. \A d \in s.delete_files : Gone(d) = at => d \in deletes
    BY <2>1, GoneIs
  <2>4. OrderAt(at)' = OrderAt(at)
    BY <1>5, <2>1 DEF OrderAt
  <2>5. QED
    BY <2>2, <2>3, <2>4
<1>14. \A f \in kept : Positions(f)' = Positions(f)
  BY <1>5 DEF Positions
<1>15. ASSUME NEW f \in new, NEW at \in Positions(f)'
       PROVE  at \notin {Gone(d) : d \in deletes}
  <2>1. at[1] = f.path /\ f.path \notin DOMAIN objects
    BY DEF Positions
  <2>2. ASSUME NEW d \in deletes
        PROVE  Gone(d)[1] \in DOMAIN objects
    <3>1. PICK g \in s.data_files : g.path = d.data_file
      BY GoneIs
    <3>2. QED
      BY <3>1, GoneIs DEF SnapshotIsSound, WrittenData
  <2>3. QED
    BY <2>1, <2>2
<1>16. \A o : o \in ScanTable(t)'.orders <=> \/ \E f \in kept : o \in LiveOrders(s, f)
                                             \/ \E f \in new : o \in ToSet(objects'[f.path])
  <2> TAKE o
  <2>1. o \in ScanTable(t)'.orders <=> \E at \in Live(t)' : o = OrderAt(at)'
    BY <1>11
  <2>2. ASSUME NEW f \in kept
        PROVE  o \in LiveOrders(s, f) <=> \E at \in Positions(f) :
                   at \notin {Gone(d) : d \in deletes} /\ o = OrderAt(at)'
    BY <1>13 DEF LiveOrders
  <2>3. ASSUME NEW f \in new
        PROVE  o \in ToSet(objects'[f.path]) <=> \E at \in Positions(f)' : o = OrderAt(at)'
    <3>1. \A pos \in DOMAIN objects'[f.path] : OrderAt(<<f.path, pos>>)' = objects'[f.path][pos]
      BY DEF OrderAt
    <3>2. \A at : at \in Positions(f)' <=> \E pos \in DOMAIN objects'[f.path] : at = <<f.path, pos>>
      BY DEF Positions
    <3>3. o \in ToSet(objects'[f.path]) <=> \E pos \in DOMAIN objects'[f.path] : o = objects'[f.path][pos]
      BY DEF ToSet
    <3>4. ASSUME o \in ToSet(objects'[f.path])
          PROVE  \E at \in Positions(f)' : o = OrderAt(at)'
      <4>1. PICK pos \in DOMAIN objects'[f.path] : o = objects'[f.path][pos]
        BY <3>3, <3>4
      <4>2. <<f.path, pos>> \in Positions(f)' /\ OrderAt(<<f.path, pos>>)' = o
        BY <3>1, <3>2, <4>1
      <4>3. QED
        BY <4>2
    <3>5. ASSUME NEW at \in Positions(f)', o = OrderAt(at)'
          PROVE  o \in ToSet(objects'[f.path])
      <4>1. PICK pos \in DOMAIN objects'[f.path] : at = <<f.path, pos>>
        BY <3>2
      <4>2. QED
        BY <3>1, <3>3, <3>5, <4>1
    <3>6. QED
      BY <3>4, <3>5
  <2>4. ASSUME NEW at \in Live(t)', o = OrderAt(at)'
        PROVE  \/ \E f \in kept : o \in LiveOrders(s, f)
               \/ \E f \in new : o \in ToSet(objects'[f.path])
    <3>1. PICK f \in kept \cup new : at \in Positions(f)'
      BY <1>12
    <3>2. at \notin {Gone(d) : d \in deletes}
      BY <1>12
    <3>3. CASE f \in kept
      BY <1>14, <2>2, <2>4, <3>1, <3>2, <3>3
    <3>4. CASE f \in new
      BY <2>3, <2>4, <3>1, <3>4
    <3>5. QED
      BY <3>3, <3>4
  <2>5. ASSUME NEW f \in kept, o \in LiveOrders(s, f)
        PROVE  \E at \in Live(t)' : o = OrderAt(at)'
    <3>1. PICK at \in Positions(f) : at \notin {Gone(d) : d \in deletes} /\ o = OrderAt(at)'
      BY <2>2, <2>5
    <3>2. at \in Live(t)'
      BY <1>12, <1>14, <3>1
    <3>3. QED
      BY <3>1, <3>2
  <2>6. ASSUME NEW f \in new, o \in ToSet(objects'[f.path])
        PROVE  \E at \in Live(t)' : o = OrderAt(at)'
    <3>1. PICK at \in Positions(f)' : o = OrderAt(at)'
      BY <2>3, <2>6
    <3>2. at \in Live(t)'
      BY <1>12, <1>15
    <3>3. QED
      BY <3>1, <3>2
  <2>7. QED
    BY <2>1, <2>4, <2>5, <2>6
<1>17. orders = ScanTable(t)'.orders
  BY <1>16
<1>18. QED
  BY <1>1, <1>3, <1>6, <1>7, <1>8, <1>9, <1>17 DEF SnapshotIsSound

\* New files are numbered after the others, which are left as they are.
LEMMA WriteFacts ==
    ASSUME TableIInv, NEW contents, Len(contents) \in Nat, Write(contents)
    PROVE  /\ ObjectsGrow
           /\ NewPath \in Nat \ {0} /\ NewPath - 1 \in Nat
           /\ IsFiniteSet(DOMAIN objects')
           /\ DOMAIN objects' = 1 .. Cardinality(DOMAIN objects')
           /\ \A g \in 1 .. Len(contents) : /\ NewPath + g - 1 \in Nat
                                            /\ NewPath + g - 1 \in DOMAIN objects'
                                            /\ NewPath + g - 1 \notin DOMAIN objects
                                            /\ objects'[NewPath + g - 1] = contents[g]
<1> DEFINE old == DOMAIN objects
           k == Cardinality(old)
           n == Len(contents)
<1>1. IsFiniteSet(old) /\ k \in Nat /\ old = 1 .. k
  BY FS_CardinalityType DEF TableIInv
<1>2. NewPath = k + 1
  BY DEF NewPath
<1>3. objects' = [p \in old \cup (k + 1 .. k + 1 + n - 1) |->
                     IF p < k + 1 THEN objects[p] ELSE contents[p - (k + 1) + 1]]
  BY <1>2 DEF Write
<1> HIDE DEF k, n
<1>4. n \in Nat
  BY DEF n
<1>5. 1 .. k + n = (1 .. k) \cup (k + 1 .. k + 1 + n - 1)
  BY <1>1, <1>4
<1>6. DOMAIN objects' = 1 .. k + n
  BY <1>1, <1>3, <1>5
<1>7. IsFiniteSet(1 .. k + n) /\ Cardinality(1 .. k + n) = k + n
  <2> DEFINE m == k + n
  <2>1. m \in Nat
    BY <1>1, <1>4
  <2> HIDE DEF m
  <2>2. IsFiniteSet(1 .. m) /\ Cardinality(1 .. m) = m
    BY <2>1, FS_Interval
  <2>3. QED
    BY <2>2 DEF m
<1>8. ASSUME NEW p \in old
      PROVE  p \in DOMAIN objects' /\ objects'[p] = objects[p]
  <2>1. p \in 1 .. k /\ p < k + 1
    BY <1>1
  <2>2. QED
    BY <1>3, <2>1
<1>9. ASSUME NEW g \in 1 .. n
      PROVE  /\ NewPath + g - 1 \in Nat
             /\ NewPath + g - 1 \in DOMAIN objects'
             /\ NewPath + g - 1 \notin old
             /\ objects'[NewPath + g - 1] = contents[g]
  <2> DEFINE p == NewPath + g - 1
  <2>1. p = k + g
    BY <1>1, <1>2
  <2> HIDE DEF p
  <2>2. p \in Nat /\ p \in 1 .. k + n /\ p \in k + 1 .. k + 1 + n - 1 /\ ~(p < k + 1) /\ p - (k + 1) + 1 = g
    BY <1>1, <1>4, <2>1
  <2>3. p \notin old
    BY <1>1, <2>2
  <2>4. objects'[p] = contents[g]
    BY <1>3, <2>2
  <2>5. QED
    BY <1>6, <2>2, <2>3, <2>4 DEF p
<1>10. ObjectsGrow
  BY <1>8 DEF ObjectsGrow
<1>11. NewPath \in Nat \ {0} /\ NewPath - 1 \in Nat
  BY <1>1, <1>2
<1>12. IsFiniteSet(DOMAIN objects') /\ DOMAIN objects' = 1 .. Cardinality(DOMAIN objects')
  BY <1>6, <1>7
<1>13. QED
  BY <1>9, <1>10, <1>11, <1>12 DEF n

\* Appending to a sequence, wherever its elements are from.
LEMMA Appended ==
    ASSUME NEW s, s \in Seq(ToSet(s)), NEW x
    PROVE  /\ Append(s, x) \in Seq(ToSet(Append(s, x))) \ {<<>>}
           /\ Len(s) \in Nat /\ Len(Append(s, x)) = Len(s) + 1
           /\ DOMAIN s = 1 .. Len(s) /\ DOMAIN Append(s, x) = 1 .. Len(s) + 1
           /\ \A i \in 1 .. Len(s) : Append(s, x)[i] = s[i]
           /\ Append(s, x)[Len(s) + 1] = x
           /\ ToSet(Append(s, x)) = ToSet(s) \cup {x}
<1> DEFINE A == ToSet(s) \cup {x}
           n == Len(s)
<1>1. s \in Seq(A) /\ x \in A
  <2>1. n \in Nat /\ s \in [1 .. n -> ToSet(s)]
    OBVIOUS
  <2>2. s \in [1 .. n -> A]
    BY <2>1
  <2>3. QED
    BY <2>1, <2>2
<1>2. /\ Append(s, x) \in Seq(A) /\ n \in Nat /\ Len(Append(s, x)) = n + 1
      /\ DOMAIN s = 1 .. n /\ DOMAIN Append(s, x) = 1 .. n + 1
      /\ \A i \in 1 .. n : Append(s, x)[i] = s[i]
      /\ Append(s, x)[n + 1] = x
  <2> HIDE DEF A
  <2>1. QED
    BY <1>1
<1>3. ToSet(Append(s, x)) = A
  <2>1. ToSet(Append(s, x)) = ToSet(s) \cup {x}
    <3> HIDE DEF A
    <3>1. QED
      BY <1>1, AppendFacts
  <2>2. QED
    BY <2>1
<1>4. Append(s, x) # <<>>
  BY <1>2
<1>5. QED
  BY <1>2, <1>3, <1>4

\* A commit of a sound snapshot keeps the invariant.
LEMMA CommitKeeps ==
    ASSUME TableIInv, NEW contents, Len(contents) \in Nat, Write(contents),
           NEW s, NEW R, Commit(s, R), SnapshotIsSound(s, R)'
    PROVE  TableIInv'
<1> DEFINE n == Len(snapshots)
<1>1. /\ ObjectsGrow /\ IsFiniteSet(DOMAIN objects')
      /\ DOMAIN objects' = 1 .. Cardinality(DOMAIN objects')
  BY WriteFacts
<1>2. snapshots' = Append(snapshots, s) /\ rows' = Append(rows, R)
  BY DEF Commit
<1>3. snapshots \in Seq(ToSet(snapshots)) /\ rows \in Seq(ToSet(rows)) /\ Len(rows) = n
  BY DEF TableIInv
<1>4. /\ snapshots' \in Seq(ToSet(snapshots')) \ {<<>>} /\ rows' \in Seq(ToSet(rows'))
      /\ n \in Nat /\ Len(rows') = Len(snapshots')
      /\ DOMAIN snapshots = 1 .. n /\ DOMAIN snapshots' = 1 .. n + 1
      /\ \A i \in 1 .. n : snapshots'[i] = snapshots[i] /\ rows'[i] = rows[i]
      /\ snapshots'[n + 1] = s /\ rows'[n + 1] = R
  BY <1>2, <1>3, Appended
<1> HIDE DEF n
<1>5. ASSUME NEW i \in 1 .. n
      PROVE  SnapshotIsSound(snapshots[i], rows[i])'
  <2>1. PICK t, U : t = snapshots[i] /\ U = rows[i]
    OBVIOUS
  <2>2. SnapshotIsSound(t, U)
    BY <1>4, <2>1 DEF TableIInv
  <2>3. SnapshotIsSound(t, U)'
    BY <1>1, <2>2, SoundStays
  <2>4. t = snapshots'[i] /\ U = rows'[i]
    BY <1>4, <2>1
  <2>5. QED
    BY <2>3, <2>4
<1>6. ASSUME NEW i \in DOMAIN snapshots'
      PROVE  SnapshotIsSound(snapshots[i], rows[i])'
  <2>1. CASE i = n + 1
    BY <1>4, <2>1
  <2>2. CASE i # n + 1
    BY <1>4, <1>5, <2>2
  <2>3. QED
    BY <2>1, <2>2
<1>7. DataPaths' # {}
  <2>1. PICK i \in 1 .. n : Paths(snapshots[i].data_files) # {}
    BY <1>4 DEF TableIInv, DataPaths
  <2>2. i \in DOMAIN snapshots' /\ snapshots'[i] = snapshots[i]
    BY <1>4
  <2>3. QED
    BY <2>1, <2>2 DEF DataPaths
<1>8. QED
  BY <1>1, <1>4, <1>6, <1>7 DEF TableIInv

\* Orders written to a path, none of them twice, are a data file.
LEMMA WrittenNow ==
    ASSUME NEW path, NEW contents, contents \in Seq(Nat) \ {<<>>}, IsInjective(contents),
           path \in DOMAIN objects', objects'[path] = contents,
           NEW f, f = DataFile(path, contents)
    PROVE  WrittenData(f)' /\ f.path = path
<1>1. f.path = path
  BY DEF DataFile
<1>2. QED
  BY <1>1 DEF WrittenData

LEMMA LiveOrdersIn ==
    ASSUME NEW s, NEW f
    PROVE  /\ LiveOrders(s, f) \subseteq ToSet(objects[f.path])
           /\ PositionDeletes(s.delete_files) = {} => LiveOrders(s, f) = ToSet(objects[f.path])
<1>1. \A pos \in DOMAIN objects[f.path] : OrderAt(<<f.path, pos>>) = objects[f.path][pos]
  BY DEF OrderAt
<1>2. LiveOrders(s, f) \subseteq ToSet(objects[f.path])
  BY <1>1 DEF LiveOrders, Positions, ToSet
<1>3. ASSUME PositionDeletes(s.delete_files) = {}, NEW o \in ToSet(objects[f.path])
      PROVE  o \in LiveOrders(s, f)
  <2>1. PICK pos \in DOMAIN objects[f.path] : o = objects[f.path][pos]
    BY DEF ToSet
  <2>2. <<f.path, pos>> \in Positions(f) /\ OrderAt(<<f.path, pos>>) = o
    BY <1>1, <2>1 DEF Positions
  <2>3. QED
    BY <1>3, <2>2 DEF LiveOrders
<1>4. QED
  BY <1>2, <1>3

\* The table as it is first written is sound.
LEMMA FirstIsSound == ASSUME Init PROVE TableIInv
<1> DEFINE n == Len(Base)
           file == [i \in 1 .. n |-> DataFile(i, Base[i])]
           s == [data_files |-> {DataFile(i, Base[i]) : i \in DOMAIN Base}, delete_files |-> {}]
           R == ToSet(FlattenSeq(Base))
<1>1. /\ objects = Base /\ snapshots = <<s>> /\ rows = <<R>>
  BY DEF Init
<1>2. /\ n \in Nat \ {0} /\ DOMAIN Base = 1 .. n
      /\ \A i \in 1 .. n : Base[i] \in Seq(Nat) \ {<<>>}
  <2>1. Base \in Seq(Seq(Nat) \ {<<>>}) /\ Base # <<>>
    BY TableAssumption
  <2>2. n \in Nat /\ DOMAIN Base = 1 .. n /\ \A i \in 1 .. n : Base[i] \in Seq(Nat) \ {<<>>}
    BY <2>1, LenProperties, ElementOfSeq
  <2>3. n # 0
    BY <2>1, EmptySeq
  <2>4. QED
    BY <2>2, <2>3
<1>3. \A i \in 1 .. n : IsInjective(Base[i])
  BY <1>2, TableAssumption DEF IsInjective
<1>4. \A i, j \in 1 .. n : i # j => ToSet(Base[i]) \cap ToSet(Base[j]) = {}
  <2> SUFFICES ASSUME NEW i \in 1 .. n, NEW j \in 1 .. n,
                      NEW o \in ToSet(Base[i]), o \in ToSet(Base[j])
               PROVE  i = j
    OBVIOUS
  <2>1. PICK m \in DOMAIN Base[i] : Base[i][m] = o
    BY DEF ToSet
  <2>2. PICK k \in DOMAIN Base[j] : Base[j][k] = o
    BY DEF ToSet
  <2>3. QED
    BY <1>2, <2>1, <2>2, TableAssumption
<1>5. /\ s.data_files = {file[i] : i \in 1 .. n} /\ s.delete_files = {}
      /\ s = [data_files |-> s.data_files, delete_files |-> s.delete_files]
  BY <1>2
<1>6. \A i \in 1 .. n : file[i] = DataFile(i, Base[i]) /\ file[i].path = i
  BY DEF DataFile
<1> HIDE DEF n, s, R, file
<1>7. IsFiniteSet(s.data_files) /\ IsFiniteSet(s.delete_files)
  <2>1. IsFiniteSet(1 .. n)
    BY <1>2, FS_Interval
  <2>2. \A i, j \in 1 .. n : file[i] = file[j] => i = j
    BY <1>6
  <2>3. \A f : f \in s.data_files <=> \E i \in 1 .. n : f = file[i]
    BY <1>5
  <2>4. IsFiniteSet(s.data_files)
    <3> DEFINE all == s.data_files
               whole == 1 .. n
    <3>1. /\ IsFiniteSet(whole) /\ \A i, j \in whole : file[i] = file[j] => i = j
          /\ \A f : f \in all <=> \E i \in whole : f = file[i]
      BY <2>1, <2>2, <2>3
    <3> HIDE DEF all, whole
    <3>2. IsFiniteSet(all)
      BY <3>1, NamedSize
    <3>3. QED
      BY <3>2 DEF all
  <2>5. QED
    BY <1>5, <2>4, FS_EmptySet
<1>8. \A f \in s.data_files : WrittenData(f)
  <2> SUFFICES ASSUME NEW i \in 1 .. n
               PROVE  WrittenData(file[i])
    BY <1>5
  <2>1. objects[i] = Base[i] /\ i \in DOMAIN objects
    BY <1>1, <1>2
  <2>2. QED
    BY <1>2, <1>3, <1>6, <2>1 DEF WrittenData
<1>9. \A f, g \in s.data_files : f # g => ToSet(objects[f.path]) \cap ToSet(objects[g.path]) = {}
  <2> SUFFICES ASSUME NEW i \in 1 .. n, NEW j \in 1 .. n, file[i] # file[j]
               PROVE  ToSet(objects[file[i].path]) \cap ToSet(objects[file[j].path]) = {}
    BY <1>5
  <2>1. i # j
    OBVIOUS
  <2>2. objects[file[i].path] = Base[i] /\ objects[file[j].path] = Base[j]
    BY <1>1, <1>6
  <2>3. QED
    BY <1>4, <2>1, <2>2
<1>10. PositionDeletes(s.delete_files) = {}
  BY <1>5 DEF PositionDeletes
<1>11. \A o : o \in R <=> \E i \in 1 .. n : o \in ToSet(Base[i])
  <2>1. Base \in Seq(Seq(Nat))
    <3> DEFINE A == Seq(Nat)
               B == A \ {<<>>}
    <3>1. Base \in Seq(B) /\ B \subseteq A
      BY TableAssumption
    <3> HIDE DEF A, B
    <3>2. Base \in Seq(A)
      BY <3>1
    <3>3. QED
      BY <3>2 DEF A
  <2>2. QED
    BY <1>2, <2>1, FlattenFacts DEF R
<1>12. R = ScanTable(s).orders
  <2>1. ScanTable(s).orders = {OrderAt(at) : at \in Decoded(s)}
    <3>1. Live(s) = Decoded(s)
      BY <1>10 DEF Live
    <3>2. ScanTable(s).orders = {OrderAt(at) : at \in Live(s)}
      BY ScanTableIs
    <3>3. QED
      BY <3>1, <3>2
  <2>2. ASSUME NEW at \in Decoded(s)
        PROVE  OrderAt(at) \in R
    <3>1. PICK f \in s.data_files : \E pos \in DOMAIN objects[f.path] : at = <<f.path, pos>>
      BY DecodedIs
    <3>2. PICK i \in 1 .. n : f = file[i]
      BY <1>5
    <3>3. PICK pos \in DOMAIN Base[i] : at = <<i, pos>>
      BY <1>1, <1>6, <3>1, <3>2
    <3>4. QED
      BY <1>1, <1>11, <3>3 DEF OrderAt, ToSet
  <2>3. ASSUME NEW o \in R
        PROVE  \E at \in Decoded(s) : o = OrderAt(at)
    <3>1. PICK i \in 1 .. n : o \in ToSet(Base[i])
      BY <1>11
    <3>2. PICK pos \in DOMAIN Base[i] : o = Base[i][pos]
      BY <3>1 DEF ToSet
    <3>3. file[i] \in s.data_files /\ pos \in DOMAIN objects[file[i].path]
      BY <1>1, <1>5, <1>6
    <3>4. <<i, pos>> \in Decoded(s)
      BY <1>6, <3>3, DecodedIs
    <3>5. OrderAt(<<i, pos>>) = o
      BY <1>1, <3>2 DEF OrderAt
    <3>6. QED
      BY <3>4, <3>5
  <2>4. QED
    BY <2>1, <2>2, <2>3
<1>13. SnapshotIsSound(s, R)
  BY <1>5, <1>7, <1>8, <1>9, <1>12 DEF SnapshotIsSound
<1>14. /\ IsFiniteSet(DOMAIN objects) /\ DOMAIN objects = 1 .. Cardinality(DOMAIN objects)
  BY <1>1, <1>2, FS_Interval
<1>15. /\ snapshots \in Seq(ToSet(snapshots)) \ {<<>>} /\ rows \in Seq(ToSet(rows))
       /\ Len(rows) = Len(snapshots) /\ DOMAIN snapshots = {1}
       /\ snapshots[1] = s /\ rows[1] = R
  <2>0. DOMAIN <<s>> = {1} /\ DOMAIN <<R>> = {1} /\ <<s>>[1] = s /\ <<R>>[1] = R
    OBVIOUS
  <2>1. /\ ToSet(snapshots) = {s} /\ ToSet(rows) = {R}
        /\ snapshots \in Seq({s}) /\ rows \in Seq({R}) /\ snapshots # <<>>
    <3>1. ToSet(snapshots) = {s} /\ ToSet(rows) = {R}
      BY <1>1, <2>0 DEF ToSet
    <3>2. snapshots \in Seq({s}) /\ rows \in Seq({R}) /\ snapshots # <<>>
      BY <1>1
    <3>3. QED
      BY <3>1, <3>2
  <2>2. /\ Len(rows) = Len(snapshots) /\ DOMAIN snapshots = {1}
        /\ snapshots[1] = s /\ rows[1] = R
    BY <1>1
  <2>3. QED
    BY <2>1, <2>2
<1>16. DataPaths # {}
  <2>1. 1 \in 1 .. n
    BY <1>2
  <2>2. file[1] \in s.data_files
    BY <1>5, <2>1
  <2>3. file[1].path \in Paths(s.data_files)
    BY <2>2 DEF Paths
  <2>4. 1 \in DOMAIN snapshots /\ snapshots[1] = s
    BY <1>15
  <2>5. file[1].path \in UNION {Paths(snapshots[i].data_files) : i \in DOMAIN snapshots}
    BY <2>3, <2>4, Zenon
  <2>6. QED
    BY <2>5 DEF DataPaths
<1>17. QED
  BY <1>13, <1>14, <1>15, <1>16 DEF TableIInv

\* One file written.
LEMMA OneWritten ==
    ASSUME TableIInv, NEW contents, Write(<<contents>>)
    PROVE  /\ ObjectsGrow
           /\ NewPath \in DOMAIN objects' /\ NewPath \notin DOMAIN objects
           /\ objects'[NewPath] = contents
           /\ Len(<<contents>>) \in Nat
<1>1. Len(<<contents>>) = 1 /\ <<contents>>[1] = contents
  OBVIOUS
<1>2. 1 \in 1 .. Len(<<contents>>) /\ Len(<<contents>>) \in Nat
  BY <1>1
<1>3. /\ ObjectsGrow /\ NewPath \in Nat \ {0}
      /\ NewPath + 1 - 1 \in DOMAIN objects' /\ NewPath + 1 - 1 \notin DOMAIN objects
      /\ objects'[NewPath + 1 - 1] = <<contents>>[1]
  BY <1>2, WriteFacts
<1>4. NewPath + 1 - 1 = NewPath
  BY <1>3
<1>5. QED
  BY <1>1, <1>3, <1>4

(***************************************************************************)
(* An append                                                               *)
(***************************************************************************)

\* There is a last order.
LEMMA LastOrder ==
    ASSUME TableIInv
    PROVE  LET all == UNION {ToSet(objects[p]) : p \in DataPaths}
           IN  Max(all) \in Nat /\ \A o \in all : o <= Max(all)
<1> DEFINE parts == {ToSet(objects[p]) : p \in DataPaths}
           all == UNION parts
<1>1. ASSUME NEW p \in DataPaths
      PROVE  /\ p \in DOMAIN objects
             /\ IsFiniteSet(ToSet(objects[p])) /\ ToSet(objects[p]) \subseteq Nat
             /\ ToSet(objects[p]) # {}
  <2>1. PICK i \in DOMAIN snapshots : p \in Paths(snapshots[i].data_files)
    BY DEF DataPaths
  <2>2. PICK f \in snapshots[i].data_files : p = f.path
    BY <2>1 DEF Paths
  <2>3. WrittenData(f)
    BY DEF TableIInv, SnapshotIsSound
  <2>4. QED
    BY <2>2, <2>3, DataFileFacts
<1>2. IsFiniteSet(parts)
  <2>1. IsFiniteSet(DataPaths)
    <3>1. DataPaths \subseteq DOMAIN objects
      BY <1>1
    <3>2. QED
      BY <3>1, FS_Subset DEF TableIInv
  <2> DEFINE f == [p \in DataPaths |-> ToSet(objects[p])]
  <2>2. f \in Surjection(DataPaths, parts)
    BY DEF Surjection
  <2> HIDE DEF f, parts
  <2>3. QED
    BY <2>1, <2>2, FS_Surjection
<1>3. \A T \in parts : IsFiniteSet(T) /\ T \subseteq Nat
  BY <1>1
<1>4. parts # {} /\ all # {}
  <2>1. PICK p : p \in DataPaths
    BY DEF TableIInv
  <2>2. ToSet(objects[p]) # {} /\ ToSet(objects[p]) \in parts
    BY <1>1, <2>1
  <2> HIDE DEF parts
  <2>3. QED
    BY <2>2
<1> HIDE DEF parts
<1>5. IsFiniteSet(all) /\ all \subseteq Nat
  BY <1>2, <1>3, FS_UNION
<1> HIDE DEF all
<1>6. Max(all) \in all /\ \A o \in all : o <= Max(all)
  BY <1>4, <1>5, MaxOfFinite
<1>7. Max(all) \in Nat
  BY <1>5, <1>6
<1>8. QED
  BY <1>6, <1>7 DEF all, parts

LEMMA AppendKeeps ==
    ASSUME TableIInv, NEW i \in DOMAIN snapshots, AppendOrders(i)
    PROVE  TableIInv'
<1> DEFINE all == UNION {ToSet(objects[p]) : p \in DataPaths}
           last == Max(all)
           batch == [n \in 1 .. Batch |-> last + n]
<1>1. PICK s, R : s = snapshots[i] /\ R = rows[i]
  OBVIOUS
<1>2. SnapshotIsSound(s, R)
  BY <1>1 DEF TableIInv
<1> DEFINE f == DataFile(NewPath, batch)
           t == [s EXCEPT !.data_files = @ \cup {f}]
           orders == R \cup ToSet(batch)
<1>3. Write(<<batch>>) /\ Commit(t, orders)
  BY <1>1 DEF AppendOrders
<1>4. last \in Nat /\ \A o \in all : o <= last
  BY LastOrder
<1>5. Batch \in Nat \ {0}
  BY TableAssumption
<1>6. \A g \in s.data_files : ToSet(objects[g.path]) \subseteq all
  <2> SUFFICES ASSUME NEW g \in s.data_files, NEW o \in ToSet(objects[g.path])
               PROVE  o \in all
    OBVIOUS
  <2>1. g.path \in Paths(snapshots[i].data_files)
    BY <1>1 DEF Paths
  <2>2. g.path \in DataPaths
    BY <2>1, Zenon DEF DataPaths
  <2>3. QED
    BY <2>2
<1> HIDE DEF all, last
<1>7. batch \in Seq(Nat) \ {<<>>} /\ IsInjective(batch) /\ \A o \in ToSet(batch) : o > last
  <2>1. \A n \in 1 .. Batch : batch[n] = last + n /\ last + n \in Nat /\ last + n > last
    BY <1>4, <1>5
  <2>2. batch \in [1 .. Batch -> Nat] /\ DOMAIN batch = 1 .. Batch
    BY <2>1
  <2> HIDE DEF batch
  <2>3. batch \in Seq(Nat)
    BY <1>5, <2>2
  <2>4. batch # <<>>
    BY <1>5, <2>2
  <2>5. IsInjective(batch)
    <3> SUFFICES ASSUME NEW m \in 1 .. Batch, NEW n \in 1 .. Batch, batch[m] = batch[n]
                 PROVE  m = n
      BY <2>2 DEF IsInjective
    <3>1. last + m = last + n
      BY <2>1
    <3>2. QED
      BY <1>4, <1>5, <3>1
  <2>6. \A o \in ToSet(batch) : o > last
    BY <2>1, <2>2 DEF ToSet
  <2>7. QED
    BY <2>3, <2>4, <2>5, <2>6
<1> HIDE DEF batch
<1>9. /\ ObjectsGrow
      /\ NewPath \in DOMAIN objects' /\ NewPath \notin DOMAIN objects
      /\ objects'[NewPath] = batch
      /\ Len(<<batch>>) \in Nat
  BY <1>3, OneWritten
<1>10. PICK path : path = NewPath
  OBVIOUS
<1>11. PICK new : new = f
  OBVIOUS
<1>12. WrittenData(new)' /\ new.path = path
  <2>1. PICK contents : contents = batch
    OBVIOUS
  <2>2. QED
    BY <1>7, <1>9, <1>10, <1>11, <2>1, WrittenNow
<1> HIDE DEF f, orders
<1>13. PICK made, held : made = t /\ held = orders
  OBVIOUS
<1>14. made = [data_files |-> s.data_files \cup {new}, delete_files |-> s.delete_files]
  BY <1>2, <1>11, <1>13 DEF SnapshotIsSound
<1>15. SnapshotIsSound(made, held)'
  <2> DEFINE fs == {new}
  <2>1. \A d \in s.delete_files : \E g \in s.data_files : g.path = d.data_file
    BY <1>2, GoneIs
  <2>2. /\ IsFiniteSet(fs)
        /\ \A g \in fs : WrittenData(g)' /\ g.path \notin DOMAIN objects
        /\ \A g, h \in fs : g # h => ToSet(objects'[g.path]) \cap ToSet(objects'[h.path]) = {}
    BY <1>9, <1>10, <1>12, FS_Singleton
  <2>3. \A h \in fs, g \in s.data_files : ToSet(objects'[h.path]) \cap ToSet(objects[g.path]) = {}
    <3> SUFFICES ASSUME NEW g \in s.data_files, NEW o \in ToSet(batch), o \in ToSet(objects[g.path])
                 PROVE  FALSE
      BY <1>9, <1>10, <1>12
    <3>1. o > last /\ o <= last /\ o \in Nat
      <4>1. WrittenData(g)
        BY <1>2 DEF SnapshotIsSound
      <4>2. QED
        BY <1>4, <1>6, <1>7, <4>1, DataFileFacts
    <3>2. QED
      BY <1>4, <3>1
  <2>4. \A o : o \in held <=> \/ \E g \in s.data_files : o \in LiveOrders(s, g)
                              \/ \E g \in fs : o \in ToSet(objects'[g.path])
    <3>1. \A o : o \in R <=> \E g \in s.data_files : o \in LiveOrders(s, g)
      BY <1>2, OrdersAreLive
    <3>2. held = R \cup ToSet(batch)
      BY <1>13 DEF orders
    <3>3. \A g \in fs : objects'[g.path] = batch
      BY <1>9, <1>10, <1>12
    <3>4. \A o : (\E g \in fs : o \in ToSet(objects'[g.path])) <=> o \in ToSet(batch)
      BY <3>3
    <3>5. \A o : o \in held <=> o \in R \/ o \in ToSet(batch)
      BY <3>2
    <3> HIDE DEF fs
    <3>6. QED
      BY <3>1, <3>4, <3>5
  <2>5. made = [data_files |-> s.data_files \cup fs, delete_files |-> s.delete_files]
    BY <1>14
  <2> DEFINE kept == s.data_files
             deletes == s.delete_files
  <2>6. Remakes(s, kept, deletes, fs, made, held)
    <3>1. kept \subseteq s.data_files /\ deletes \subseteq s.delete_files
      OBVIOUS
    <3>2. \A d \in s.delete_files : d \in deletes <=> \E g \in kept : g.path = d.data_file
      BY <2>1
    <3>3. \A h \in fs, g \in kept : ToSet(objects'[h.path]) \cap ToSet(objects[g.path]) = {}
      BY <2>3
    <3>4. \A o : o \in held <=> \/ \E g \in kept : o \in LiveOrders(s, g)
                                \/ \E g \in fs : o \in ToSet(objects'[g.path])
      BY <2>4
    <3>5. made = [data_files |-> kept \cup fs, delete_files |-> deletes]
      BY <2>5
    <3> HIDE DEF fs, kept, deletes
    <3>6. QED
      BY <2>2, <3>1, <3>2, <3>3, <3>4, <3>5 DEF Remakes
  <2> HIDE DEF fs, kept, deletes
  <2>7. QED
    BY <1>2, <1>9, <2>6, RemadeIsSound
<1>16. QED
  <2>1. PICK contents : contents = <<batch>>
    OBVIOUS
  <2>2. Write(contents) /\ Len(contents) \in Nat /\ Commit(made, held)
    BY <1>3, <1>9, <1>13, <2>1
  <2>3. QED
    BY <1>15, <2>2, CommitKeeps

(***************************************************************************)
(* A delete                                                                *)
(***************************************************************************)

\* An order of a snapshot is in one of its data files, at a place that is not deleted.
LEMMA HolderIs ==
    ASSUME NEW s, NEW R, SnapshotIsSound(s, R), NEW order \in R
    PROVE  /\ Holder(s, order) \in s.data_files
           /\ order \in ToSet(objects[Holder(s, order).path])
           /\ order \in LiveOrders(s, Holder(s, order))
<1>1. PICK f \in s.data_files : order \in LiveOrders(s, f)
  BY OrdersAreLive
<1>2. order \in ToSet(objects[f.path])
  BY <1>1, LiveOrdersIn
<1>3. Holder(s, order) \in s.data_files /\ order \in ToSet(objects[Holder(s, order).path])
  BY <1>2 DEF Holder
<1>4. Holder(s, order) = f
  BY <1>2, <1>3 DEF SnapshotIsSound
<1>5. QED
  BY <1>1, <1>3, <1>4

LEMMA CopyOnWriteKeeps ==
    ASSUME TableIInv, NEW i \in DOMAIN snapshots, NEW order, CopyOnWrite(i, order)
    PROVE  TableIInv'
<1>1. PICK s, R : s = snapshots[i] /\ R = rows[i]
  OBVIOUS
<1>2. SnapshotIsSound(s, R)
  BY <1>1 DEF TableIInv
<1>3. PICK f, rest, path : /\ f = Holder(s, order) /\ path = NewPath
                           /\ rest = Keeping(objects[f.path], ToSet(objects[f.path]) \ {order})
  OBVIOUS
<1>4. PICK new, t, orders : /\ new = DataFile(path, rest)
                            /\ t = [s EXCEPT !.data_files = (@ \ {f}) \cup {new}]
                            /\ orders = R \ {order}
  OBVIOUS
<1>5. /\ s.delete_files = {} /\ order \in R /\ rest # <<>>
      /\ Write(<<rest>>) /\ Commit(t, orders)
  BY <1>1, <1>3, <1>4 DEF CopyOnWrite, CopyInPlaceOf
<1>6. f \in s.data_files /\ order \in ToSet(objects[f.path])
  BY <1>2, <1>3, <1>5, HolderIs
<1>7. /\ ObjectsGrow /\ path \in DOMAIN objects' /\ path \notin DOMAIN objects
      /\ objects'[path] = rest /\ Len(<<rest>>) \in Nat
  BY <1>3, <1>5, OneWritten
<1>8. /\ rest \in Seq(Nat) \ {<<>>} /\ IsInjective(rest)
      /\ ToSet(rest) = ToSet(objects[f.path]) \ {order}
  <2>1. objects[f.path] \in Seq(Nat) /\ IsInjective(objects[f.path])
    BY <1>2, <1>6 DEF SnapshotIsSound, WrittenData
  <2>2. /\ rest \in Seq(Nat) /\ IsInjective(rest)
        /\ ToSet(rest) = ToSet(objects[f.path]) \cap (ToSet(objects[f.path]) \ {order})
    BY <1>3, <2>1, KeepingKeeps
  <2>3. QED
    BY <1>5, <2>2
<1>9. WrittenData(new)' /\ new.path = path
  BY <1>4, <1>7, <1>8, WrittenNow
<1>10. SnapshotIsSound(t, orders)'
  <2>1. PICK kept, deletes, fs : kept = s.data_files \ {f} /\ deletes = {} /\ fs = {new}
    OBVIOUS
  <2>2. t = [data_files |-> kept \cup fs, delete_files |-> deletes]
    BY <1>2, <1>4, <1>5, <2>1 DEF SnapshotIsSound
  <2>3. /\ kept \subseteq s.data_files /\ deletes \subseteq s.delete_files
        /\ \A d \in s.delete_files : d \in deletes <=> \E g \in kept : g.path = d.data_file
    BY <1>5, <2>1
  <2>4. /\ IsFiniteSet(fs)
        /\ \A g \in fs : WrittenData(g)' /\ g.path \notin DOMAIN objects
        /\ \A g, h \in fs : g # h => ToSet(objects'[g.path]) \cap ToSet(objects'[h.path]) = {}
    BY <1>7, <1>9, <2>1, FS_Singleton
  <2>5. \A h \in fs : ToSet(objects'[h.path]) = ToSet(objects[f.path]) \ {order}
    BY <1>7, <1>8, <1>9, <2>1
  <2>6. \A g \in kept : ToSet(objects[f.path]) \cap ToSet(objects[g.path]) = {}
    BY <1>2, <1>6, <2>1 DEF SnapshotIsSound
  <2>7. \A h \in fs, g \in kept : ToSet(objects'[h.path]) \cap ToSet(objects[g.path]) = {}
    BY <2>5, <2>6
  <2>8. ASSUME NEW o
        PROVE  o \in orders <=> (\E g \in kept : o \in LiveOrders(s, g))
                                  \/ (\E h \in fs : o \in ToSet(objects'[h.path]))
    <3>1. o \in R <=> \E g \in s.data_files : o \in LiveOrders(s, g)
      BY <1>2, OrdersAreLive
    <3>2. \A g \in s.data_files : LiveOrders(s, g) = ToSet(objects[g.path])
      <4>1. PositionDeletes(s.delete_files) = {}
        BY <1>5 DEF PositionDeletes
      <4>2. QED
        BY <4>1, LiveOrdersIn
    <3>3. (\E h \in fs : o \in ToSet(objects'[h.path])) <=> o \in ToSet(objects[f.path]) \ {order}
      BY <2>1, <2>5
    <3>4. o \in orders <=> o \in R /\ o # order
      BY <1>4
    <3>5. QED
      BY <1>6, <2>1, <2>6, <3>1, <3>2, <3>3, <3>4
  <2>9. Remakes(s, kept, deletes, fs, t, orders)
    BY <2>2, <2>3, <2>4, <2>7, <2>8 DEF Remakes
  <2>10. QED
    BY <1>2, <1>7, <2>9, RemadeIsSound
<1>11. QED
  <2>1. PICK contents : contents = <<rest>>
    OBVIOUS
  <2>2. Write(contents) /\ Len(contents) \in Nat
    BY <1>5, <1>7, <2>1
  <2>3. QED
    BY <1>5, <1>10, <2>2, CommitKeeps

LEMMA MergeOnReadKeeps ==
    ASSUME TableIInv, NEW i \in DOMAIN snapshots, NEW order, MergeOnRead(i, order)
    PROVE  TableIInv'
<1>1. PICK s, R : s = snapshots[i] /\ R = rows[i]
  OBVIOUS
<1>2. SnapshotIsSound(s, R)
  BY <1>1 DEF TableIInv
<1>3. PICK f, path : f = Holder(s, order) /\ path = NewPath
  OBVIOUS
<1>4. PICK pos : pos = PositionOf(s, f, order)
  OBVIOUS
<1>5. PICK new, t, orders, here : /\ new = DeleteFile(path, f.path)
                                  /\ t = [s EXCEPT !.delete_files = @ \cup {new}]
                                  /\ orders = R \ {order}
                                  /\ here = <<f.path, pos>>
  OBVIOUS
<1>6. order \in R /\ Write(<< <<here>> >>) /\ Commit(t, orders)
  BY <1>1, <1>3, <1>4, <1>5 DEF MergeOnRead
<1>7. /\ f \in s.data_files /\ order \in LiveOrders(s, f)
      /\ pos \in DOMAIN objects[f.path] /\ objects[f.path][pos] = order
  <2>1. f \in s.data_files /\ order \in ToSet(objects[f.path]) /\ order \in LiveOrders(s, f)
    BY <1>2, <1>3, <1>6, HolderIs
  <2>2. \E at \in DOMAIN objects[f.path] : objects[f.path][at] = order
    BY <2>1 DEF ToSet
  <2>3. QED
    BY <1>4, <2>1, <2>2 DEF PositionOf
<1>8. PICK names : names = <<here>>
  OBVIOUS
<1>9. /\ ObjectsGrow /\ path \in DOMAIN objects' /\ path \notin DOMAIN objects
      /\ objects'[path] = names /\ Len(<<names>>) \in Nat
  BY <1>3, <1>6, <1>8, OneWritten
<1>10. /\ t = [data_files |-> s.data_files, delete_files |-> s.delete_files \cup {new}]
       /\ t.data_files = s.data_files /\ t.delete_files = s.delete_files \cup {new}
  BY <1>2, <1>5 DEF SnapshotIsSound
<1>11. SnapshotIsSound(s, R)'
  BY <1>2, <1>9, SoundStays
<1>12. here \in Live(s) /\ OrderAt(here) = order
  <2>1. PICK at \in Positions(f) \ PositionDeletes(s.delete_files) : OrderAt(at) = order
    BY <1>7 DEF LiveOrders
  <2>2. at \in Live(s) /\ here \in Decoded(s) /\ OrderAt(here) = order
    BY <1>5, <1>7 DEF Live, Decoded, Positions, OrderAt
  <2>3. at = here
    BY <1>2, <2>1, <2>2, OrdersApart DEF Live
  <2>4. QED
    BY <2>2, <2>3
<1>13. \A d \in s.delete_files : Gone(d) # here /\ objects'[d.path] = <<Gone(d)>>
  <2> SUFFICES ASSUME NEW d \in s.delete_files
               PROVE  Gone(d) # here /\ objects'[d.path] = <<Gone(d)>>
    OBVIOUS
  <2>1. Gone(d) # here
    <3>1. here \notin PositionDeletes(s.delete_files)
      BY <1>12 DEF Live
    <3>2. QED
      BY <1>2, <3>1, PositionDeletesAre
  <2>2. objects'[d.path] = objects[d.path]
    BY <1>2, <1>9 DEF SnapshotIsSound, WrittenDelete, ObjectsGrow
  <2>3. objects[d.path] = <<Gone(d)>>
    <3>1. PICK g \in s.data_files, at \in DOMAIN objects[d.data_file] :
              objects[d.path] = << <<d.data_file, at>> >>
      BY <1>2 DEF SnapshotIsSound, WrittenDelete
    <3>2. QED
      BY <3>1 DEF Gone
  <2>4. QED
    BY <2>1, <2>2, <2>3
<1>14. new.path = path /\ new.data_file = f.path /\ new = DeleteFile(new.path, new.data_file)
  BY <1>5 DEF DeleteFile
<1>15. objects'[f.path] = objects[f.path]
  BY <1>2, <1>7, <1>9 DEF SnapshotIsSound, WrittenData, ObjectsGrow
<1>16. ASSUME NEW d \in t.delete_files
       PROVE  WrittenDelete(t, d)'
  <2>1. CASE d \in s.delete_files
    <3>1. WrittenDelete(s, d)'
      BY <1>11, <2>1 DEF SnapshotIsSound
    <3>2. QED
      BY <1>10, <3>1 DEF WrittenDelete
  <2>2. CASE d = new
    <3>1. objects'[d.path] = << <<d.data_file, pos>> >> /\ pos \in DOMAIN objects'[d.data_file]
      BY <1>5, <1>7, <1>8, <1>9, <1>14, <1>15, <2>2
    <3>2. f \in t.data_files /\ f.path = d.data_file
      BY <1>7, <1>10, <1>14, <2>2
    <3>3. d.path \in DOMAIN objects' /\ d = DeleteFile(d.path, d.data_file)
      BY <1>9, <1>14, <2>2
    <3>4. QED
      BY <3>1, <3>2, <3>3 DEF WrittenDelete
  <2>3. QED
    BY <1>10, <2>1, <2>2
<1>17. ASSUME NEW d \in t.delete_files, NEW e \in t.delete_files,
              objects'[d.path] = objects'[e.path]
       PROVE  d = e
  <2>1. \A x \in s.delete_files : objects'[x.path] # objects'[new.path]
    <3> SUFFICES ASSUME NEW x \in s.delete_files, <<Gone(x)>> = <<here>>
                 PROVE  FALSE
      BY <1>8, <1>9, <1>13, <1>14
    <3>1. Gone(x) = here
      OBVIOUS
    <3>2. QED
      BY <1>13, <3>1
  <2>2. d \in s.delete_files /\ e \in s.delete_files => d = e
    BY <1>11, <1>17 DEF SnapshotIsSound
  <2>3. QED
    BY <1>10, <1>17, <2>1, <2>2
<1>18. orders = ScanTable(t)'.orders
  <2>1. ScanTable(t)'.orders = {OrderAt(at)' : at \in Live(t)'}
    BY DEF ScanTable, Live, Decoded
  <2>2. \A g \in s.data_files : objects'[g.path] = objects[g.path]
    BY <1>2, <1>9 DEF SnapshotIsSound, WrittenData, ObjectsGrow
  <2>3. Decoded(t)' = Decoded(s)
    BY <1>10, <2>2 DEF Decoded, Positions
  <2>4. PositionDeletes(t.delete_files)' = PositionDeletes(s.delete_files) \cup {here}
    <3>1. \A d \in s.delete_files : objects'[d.path] = objects[d.path]
      BY <1>2, <1>9 DEF SnapshotIsSound, WrittenDelete, ObjectsGrow
    <3>2. ToSet(objects'[new.path]) = {here}
      <4>1. DOMAIN <<here>> = {1} /\ <<here>>[1] = here
        OBVIOUS
      <4>2. QED
        BY <1>8, <1>9, <1>14, <4>1 DEF ToSet
    <3>3. QED
      BY <1>10, <3>1, <3>2 DEF PositionDeletes
  <2>5. Live(t)' = Live(s) \ {here}
    BY <2>3, <2>4 DEF Live
  <2>6. \A at \in Live(s) : OrderAt(at)' = OrderAt(at)
    <3> SUFFICES ASSUME NEW at \in Live(s)
                 PROVE  OrderAt(at)' = OrderAt(at)
      OBVIOUS
    <3>1. PICK g \in s.data_files : \E to \in DOMAIN objects[g.path] : at = <<g.path, to>>
      BY DecodedIs DEF Live
    <3>2. QED
      BY <2>2, <3>1 DEF OrderAt
  <2>7. \A at \in Live(s) : OrderAt(at) = order => at = here
    BY <1>2, <1>12, OrdersApart DEF Live
  <2>8. R = {OrderAt(at) : at \in Live(s)}
    BY <1>2, ScanTableIs DEF SnapshotIsSound
  <2>9. \A o : o \in orders <=> o \in R /\ o # order
    BY <1>5
  <2>10. \A o : o \in orders <=> \E at \in Live(s) : at # here /\ o = OrderAt(at)
    BY <1>12, <2>7, <2>8, <2>9
  <2>11. QED
    BY <2>1, <2>5, <2>6, <2>10
<1>19. SnapshotIsSound(t, orders)'
  <2>1. IsFiniteSet(t.data_files) /\ IsFiniteSet(t.delete_files)
    BY <1>2, <1>10, FS_AddElement DEF SnapshotIsSound
  <2>2. \A g \in t.data_files : WrittenData(g)'
    BY <1>10, <1>11 DEF SnapshotIsSound
  <2>3. \A g, h \in t.data_files : g # h => ToSet(objects'[g.path]) \cap ToSet(objects'[h.path]) = {}
    BY <1>10, <1>11 DEF SnapshotIsSound
  <2>4. QED
    BY <1>10, <1>16, <1>17, <1>18, <2>1, <2>2, <2>3 DEF SnapshotIsSound
<1>20. QED
  <2>1. PICK contents : contents = <<names>>
    OBVIOUS
  <2>2. Write(contents) /\ Len(contents) \in Nat
    BY <1>6, <1>8, <1>9, <2>1
  <2>3. QED
    BY <1>6, <1>19, <2>2, CommitKeeps

(***************************************************************************)
(* A plan                                                                  *)
(***************************************************************************)

\* The live rows of a group are counted one file after another.
LEMMA RowsOutFacts ==
    ASSUME NEW s, NEW fs, \A f \in fs : LiveRows(s, f) \in Int, NEW group \in Seq(fs), NEW f \in fs
    PROVE  /\ RowsOut(s, group) \in Int
           /\ RowsOut(s, <<f>>) = LiveRows(s, f)
           /\ RowsOut(s, Append(group, f)) = RowsOut(s, group) + LiveRows(s, f)
<1> DEFINE n == Len(group)
           longer == Append(group, f)
           old == [i \in DOMAIN group |-> LiveRows(s, group[i])]
           new == [i \in DOMAIN longer |-> LiveRows(s, longer[i])]
           one == [i \in DOMAIN <<f>> |-> LiveRows(s, <<f>>[i])]
<1>1. n \in Nat /\ DOMAIN group = 1 .. n /\ \A i \in 1 .. n : group[i] \in fs
  BY LenProperties, ElementOfSeq
<1>2. DOMAIN longer = 1 .. n + 1 /\ longer[n + 1] = f /\ \A i \in 1 .. n : longer[i] = group[i]
  BY <1>1
<1>3. old \in [1 .. n -> Int]
  BY <1>1
<1>4. new \in [1 .. n + 1 -> Int] /\ new[n + 1] = LiveRows(s, f) /\ \A i \in 1 .. n : new[i] = old[i]
  <2> HIDE DEF longer
  <2>1. \A i \in 1 .. n + 1 : i \in 1 .. n \/ i = n + 1
    BY <1>1
  <2>2. \A i \in 1 .. n + 1 : longer[i] \in fs
    BY <1>1, <1>2, <2>1
  <2>3. n + 1 \in 1 .. n + 1 /\ \A i \in 1 .. n : i \in 1 .. n + 1
    BY <1>1
  <2>4. QED
    BY <1>1, <1>2, <2>2, <2>3
<1>5. /\ RowsOut(s, group) = SumFunction(old) /\ RowsOut(s, longer) = SumFunction(new)
      /\ RowsOut(s, <<f>>) = SumFunction(one)
  BY DEF RowsOut
<1>6. one \in [{1} -> Int] /\ one[1] = LiveRows(s, f) /\ DOMAIN one = {1}
  <2>1. DOMAIN <<f>> = {1} /\ <<f>>[1] = f
    OBVIOUS
  <2>2. QED
    BY <2>1
<1> HIDE DEF n, longer, old, new, one
<1>7. SumFunction(new) = SumFunction(old) + new[n + 1]
  BY <1>1, <1>3, <1>4, SumAppended
<1>8. SumFunction(old) \in Int
  <2>1. SumFunction(old) = SumFunctionOnSet(old, 1 .. n) /\ IsFiniteSet(1 .. n)
    BY <1>1, <1>3, FS_Interval DEF SumFunction
  <2>2. \A i \in 1 .. n : old[i] \in Int
    BY <1>3
  <2>3. QED
    BY <2>1, <2>2, SumType
<1>9. SumFunction(one) = LiveRows(s, f)
  <2>1. SumFunction(one) = SumFunctionOnSet(one, {1}) /\ IsFiniteSet({1})
    BY <1>6, FS_Singleton DEF SumFunction
  <2>2. SumFunctionOnSet(one, {1}) = one[1] + SumFunctionOnSet(one, {1} \ {1})
    BY <1>6, <2>1, SumLess
  <2>3. SumFunctionOnSet(one, {1} \ {1}) = 0
    <3>1. {1} \ {1} = {}
      OBVIOUS
    <3>2. QED
      BY <3>1, SumOfNone
  <2>4. QED
    BY <1>6, <2>1, <2>2, <2>3
<1>10. QED
  BY <1>4, <1>5, <1>7, <1>8, <1>9 DEF longer

\* What a file does to the groups before it.
PackStep(s, f, target, so) ==
    IF so.groups # <<>> /\ so.rows + LiveRows(s, f) <= target
    THEN [groups |-> Append(Front(so.groups), Append(Last(so.groups), f)),
          rows   |-> so.rows + LiveRows(s, f)]
    ELSE [groups |-> Append(so.groups, <<f>>), rows |-> LiveRows(s, f)]

Packings(fs) == [groups : Seq(Seq(fs)), rows : Int]
NoGroups == [groups |-> <<>>, rows |-> 0]

\* The last of a sequence replaced.
LEMMA LastReplaced ==
    ASSUME NEW A, NEW s \in Seq(A), s # <<>>, NEW x \in A
    PROVE  /\ Append(Front(s), x) \in Seq(A) /\ Append(Front(s), x) # <<>>
           /\ Len(s) \in Nat \ {0} /\ Len(Append(Front(s), x)) = Len(s)
           /\ DOMAIN s = 1 .. Len(s) /\ DOMAIN Append(Front(s), x) = 1 .. Len(s)
           /\ \A i \in 1 .. Len(s) : i # Len(s) => Append(Front(s), x)[i] = s[i]
           /\ Append(Front(s), x)[Len(s)] = x /\ Last(Append(Front(s), x)) = x
           /\ Last(s) = s[Len(s)] /\ Last(s) \in A
<1> DEFINE n == Len(s)
           t == Append(Front(s), x)
<1>1. n \in Nat /\ n # 0 /\ DOMAIN s = 1 .. n /\ s[n] \in A
  <2>1. n \in Nat /\ n # 0 /\ DOMAIN s = 1 .. n
    BY LenProperties, EmptySeq
  <2>2. n \in 1 .. n
    BY <2>1
  <2>3. QED
    BY <2>1, <2>2, ElementOfSeq
<1>2. Front(s) = SubSeq(s, 1, n - 1)
  BY DEF Front
<1>3. /\ Front(s) \in Seq(A) /\ Len(Front(s)) = n - 1
      /\ \A i \in 1 .. n - 1 : Front(s)[i] = s[i]
  <2> DEFINE m == n - 1
  <2>1. m \in Nat /\ m <= n /\ \A i \in 1 .. m : i \in 1 .. n
    BY <1>1
  <2>2. Front(s) = SubSeq(s, 1, m)
    BY <1>2
  <2> HIDE DEF m
  <2>3. /\ SubSeq(s, 1, m) \in Seq(A) /\ Len(SubSeq(s, 1, m)) = m
        /\ \A i \in 1 .. m : SubSeq(s, 1, m)[i] = s[i]
    BY <1>1, <2>1
  <2>4. QED
    BY <2>2, <2>3 DEF m
<1>4. /\ t \in Seq(A) /\ Len(t) = n /\ t[n] = x /\ \A i \in 1 .. n - 1 : t[i] = s[i]
  <2> DEFINE u == Front(s)
             m == n - 1
  <2>1. u \in Seq(A) /\ Len(u) = m /\ m \in Nat /\ m + 1 = n
    BY <1>1, <1>3
  <2> HIDE DEF u, m
  <2>2. /\ Append(u, x) \in Seq(A) /\ Len(Append(u, x)) = m + 1 /\ Append(u, x)[m + 1] = x
        /\ \A i \in 1 .. m : Append(u, x)[i] = u[i]
    BY <2>1
  <2>3. QED
    BY <1>3, <2>1, <2>2 DEF u, m
<1> HIDE DEF t, n
<1>5. DOMAIN t = 1 .. n /\ t # <<>>
  BY <1>1, <1>4
<1>6. \A i \in 1 .. n : i # n => t[i] = s[i]
  BY <1>1, <1>4
<1>7. Last(t) = x
  BY <1>4 DEF Last
<1>8. Last(s) = s[n]
  BY DEF Last, n
<1>9. QED
  BY <1>1, <1>4, <1>5, <1>6, <1>7, <1>8 DEF t, n

LEMMA PackStepType ==
    ASSUME NEW s, NEW fs, \A f \in fs : LiveRows(s, f) \in Int, NEW f \in fs, NEW target,
           NEW so \in Packings(fs)
    PROVE  PackStep(s, f, target, so) \in Packings(fs)
<1> DEFINE A == Seq(fs)
<1>1. so.groups \in Seq(A) /\ so.rows \in Int /\ LiveRows(s, f) \in Int /\ <<f>> \in A
  BY DEF Packings
<1>2. CASE so.groups # <<>> /\ so.rows + LiveRows(s, f) <= target
  <2> DEFINE last == Append(Last(so.groups), f)
  <2>1. Last(so.groups) \in A
    <3> HIDE DEF A
    <3>1. QED
      BY <1>1, <1>2, LastReplaced
  <2>2. last \in A
    BY <2>1
  <2> HIDE DEF A, last
  <2>3. Append(Front(so.groups), last) \in Seq(A)
    BY <1>1, <1>2, <2>2, LastReplaced
  <2>4. QED
    BY <1>1, <1>2, <2>3 DEF PackStep, Packings, A, last
<1>3. CASE ~(so.groups # <<>> /\ so.rows + LiveRows(s, f) <= target)
  <2> DEFINE one == <<f>>
  <2>1. Append(so.groups, one) \in Seq(A)
    <3> HIDE DEF A, one
    <3>1. one \in A
      BY <1>1 DEF one
    <3>2. QED
      BY <1>1, <3>1
  <2>2. PackStep(s, f, target, so) = [groups |-> Append(so.groups, one), rows |-> LiveRows(s, f)]
    BY <1>3 DEF PackStep
  <2> HIDE DEF A, one
  <2>3. QED
    BY <1>1, <2>1, <2>2 DEF Packings, A
<1>4. QED
  BY <1>2, <1>3

\* Packing takes one file after another.
PackRun(pack, s, fs, files, target) ==
    /\ pack \in [0 .. Len(files) -> Packings(fs)]
    /\ pack[0] = NoGroups
    /\ \A i \in 1 .. Len(files) : pack[i] = PackStep(s, files[i], target, pack[i - 1])
    /\ Pack(s, files, target) = pack[Len(files)].groups

LEMMA PackRuns ==
    ASSUME NEW s, NEW fs, \A f \in fs : LiveRows(s, f) \in Int, NEW files \in Seq(fs), NEW target
    PROVE  \E pack : PackRun(pack, s, fs, files, target)
<1> DEFINE n == Len(files)
           V == Packings(fs)
           step == [p \in (1 .. n) \X V |-> PackStep(s, files[p[1]], target, p[2])]
           Runs(pack) == pack = [i \in 0 .. n |->
                IF i = 0 THEN NoGroups ELSE PackStep(s, files[i], target, pack[i - 1])]
           chosen == CHOOSE pack : Runs(pack)
<1>1. n \in Nat /\ \A i \in 1 .. n : files[i] \in fs
  BY LenProperties, ElementOfSeq
<1>2. NoGroups \in V
  BY DEF NoGroups, Packings
<1>3. \A i \in 1 .. n, v \in V : PackStep(s, files[i], target, v) \in V
  BY <1>1, PackStepType
<1> HIDE DEF V
<1>4. step \in [(1 .. n) \X V -> V] /\ \A i \in 1 .. n, v \in V :
         step[<<i, v>>] = PackStep(s, files[i], target, v)
  BY <1>3
<1>5. Pack(s, files, target) = chosen[n].groups
  BY DEF Pack, PackStep, NoGroups
<1>6. n = Len(files)
  OBVIOUS
<1> HIDE DEF step, n
<1>7. PICK f : Recurs(f, n, V, NoGroups, step)
  BY <1>1, <1>2, <1>4, RecursionExists
<1>8. /\ f \in [0 .. n -> V] /\ f[0] = NoGroups
      /\ \A i \in 1 .. n : f[i] = PackStep(s, files[i], target, f[i - 1])
  <2>1. /\ f \in [0 .. n -> V] /\ f[0] = NoGroups
        /\ \A i \in 1 .. n : f[i] = step[<<i, f[i - 1]>>]
    BY <1>7 DEF Recurs
  <2>2. \A i \in 1 .. n : i - 1 \in 0 .. n
    BY <1>1
  <2>3. \A i \in 1 .. n : f[i - 1] \in V
    BY <2>1, <2>2
  <2>4. QED
    BY <1>4, <2>1, <2>3
<1>9. \A i \in 0 .. n : i # 0 => i \in 1 .. n /\ i - 1 \in 0 .. n
  BY <1>1
<1>10. Runs(f)
  BY <1>8, <1>9
<1>11. Runs(chosen)
  BY <1>10
<1> HIDE DEF chosen
<1>12. chosen = f
  <2> DEFINE Same == {i \in Nat : i <= n => chosen[i] = f[i]}
  <2>1. /\ \A i \in 0 .. n : chosen[i] = IF i = 0 THEN NoGroups
                                         ELSE PackStep(s, files[i], target, chosen[i - 1])
        /\ DOMAIN chosen = 0 .. n
    BY <1>11
  <2>2. 0 \in Same
    BY <1>1, <1>8, <2>1
  <2>3. ASSUME NEW i \in Nat, i \in Same
        PROVE  i + 1 \in Same
    <3> SUFFICES ASSUME i + 1 <= n
                 PROVE  chosen[i + 1] = f[i + 1]
      OBVIOUS
    <3>1. i + 1 \in 1 .. n /\ i + 1 \in 0 .. n /\ (i + 1) - 1 = i /\ i + 1 # 0
      BY <1>1
    <3>2. chosen[i] = f[i]
      BY <1>1, <2>3
    <3>3. QED
      BY <1>8, <2>1, <3>1, <3>2
  <2> HIDE DEF Same
  <2>4. Nat \subseteq Same
    BY <2>2, <2>3, NumberInduction
  <2>5. \A i \in 0 .. n : chosen[i] = f[i]
    BY <1>1, <2>4 DEF Same
  <2>6. chosen = [i \in 0 .. n |-> chosen[i]] /\ f = [i \in 0 .. n |-> f[i]]
    BY <1>8, <1>11
  <2>7. QED
    BY <2>5, <2>6
<1>13. PackRun(f, s, fs, files, target)
  BY <1>5, <1>6, <1>8, <1>12 DEF PackRun, V
<1>14. QED
  BY <1>13

\* A group as a plan may have it: some files, each once, that fit the target if there are several.
GroupFits(s, target, group) ==
    /\ group # <<>> /\ IsInjective(group)
    /\ Len(group) > 1 => RowsOut(s, group) <= target

\* Groups of the files done, each of them in one.
GroupsFit(s, target, groups) ==
    /\ \A g \in DOMAIN groups : GroupFits(s, target, groups[g])
    /\ \A g, h \in DOMAIN groups : g # h => ToSet(groups[g]) \cap ToSet(groups[h]) = {}

Packed(s, fs, target, done, so) ==
    /\ so \in Packings(fs)
    /\ GroupsFit(s, target, so.groups)
    /\ \A f : f \in done <=> \E g \in DOMAIN so.groups : f \in ToSet(so.groups[g])
    /\ so.groups # <<>> => so.rows = RowsOut(s, Last(so.groups))

LEMMA OneGroup ==
    ASSUME NEW s, NEW target, NEW f
    PROVE  /\ GroupFits(s, target, <<f>>) /\ ToSet(<<f>>) = {f} /\ Len(<<f>>) = 1
           /\ <<f>>[1] = f
<1>1. DOMAIN <<f>> = {1} /\ <<f>>[1] = f /\ Len(<<f>>) = 1 /\ <<f>> # <<>>
  OBVIOUS
<1>2. ToSet(<<f>>) = {f}
  BY <1>1 DEF ToSet
<1>3. IsInjective(<<f>>)
  BY <1>1 DEF IsInjective
<1>4. QED
  BY <1>1, <1>2, <1>3 DEF GroupFits

LEMMA PackStepKeeps ==
    ASSUME NEW s, NEW fs, \A f \in fs : LiveRows(s, f) \in Int, NEW target, NEW done,
           NEW f \in fs, f \notin done, NEW so, Packed(s, fs, target, done, so)
    PROVE  Packed(s, fs, target, done \cup {f}, PackStep(s, f, target, so))
<1> DEFINE gs == so.groups
           n == Len(gs)
           next == PackStep(s, f, target, so)
           A == Seq(fs)
           one == <<f>>
<1>1. /\ so \in Packings(fs) /\ so.groups \in Seq(A) /\ so.rows \in Int /\ LiveRows(s, f) \in Int
      /\ one \in A
  BY DEF Packed, Packings
<1>2. next \in Packings(fs)
  BY <1>1, PackStepType
<1>3. n \in Nat /\ DOMAIN gs = 1 .. n
  <2> HIDE DEF A
  <2>1. QED
    BY <1>1, LenProperties
<1>4. /\ \A g \in 1 .. n : GroupFits(s, target, gs[g])
      /\ \A g, h \in 1 .. n : g # h => ToSet(gs[g]) \cap ToSet(gs[h]) = {}
      /\ \A y : y \in done <=> \E g \in 1 .. n : y \in ToSet(gs[g])
      /\ gs # <<>> => so.rows = RowsOut(s, Last(gs))
  BY <1>3 DEF Packed, GroupsFit
<1>5. \A g \in 1 .. n : f \notin ToSet(gs[g])
  BY <1>4
<1>6. CASE gs # <<>> /\ so.rows + LiveRows(s, f) <= target
  <2> DEFINE last == Last(gs)
             x == Append(last, f)
             ts == Append(Front(gs), x)
  <2>1. next.groups = ts /\ next.rows = so.rows + LiveRows(s, f)
    BY <1>6 DEF PackStep
  <2>2. last \in A /\ last = gs[n] /\ n # 0
    <3> HIDE DEF A
    <3>1. QED
      BY <1>1, <1>6, LastReplaced
  <2>3. x \in A
    BY <2>2
  <2>4. n \in 1 .. n
    BY <1>3, <2>2
  <2>5. f \notin ToSet(last) /\ GroupFits(s, target, last)
    BY <1>4, <1>5, <2>2, <2>4
  <2>6. ToSet(x) = ToSet(last) \cup {f} /\ IsInjective(x)
    BY <2>2, <2>5, AppendFacts DEF GroupFits
  <2>7. RowsOut(s, x) = RowsOut(s, last) + LiveRows(s, f)
    BY <2>2, RowsOutFacts
  <2>8. x # <<>>
    BY <2>2
  <2>9. RowsOut(s, x) = next.rows /\ next.rows <= target
    BY <1>4, <1>6, <2>1, <2>7
  <2>10. GroupFits(s, target, x)
    BY <2>6, <2>8, <2>9 DEF GroupFits
  <2> HIDE DEF x
  <2>11. /\ DOMAIN ts = 1 .. n /\ ts[n] = x /\ \A g \in 1 .. n : g # n => ts[g] = gs[g]
         /\ Last(ts) = x
    <3>1. gs \in Seq(A) /\ gs # <<>> /\ x \in A
      BY <1>1, <1>6, <2>3
    <3> HIDE DEF A, gs
    <3>2. /\ DOMAIN Append(Front(gs), x) = 1 .. Len(gs) /\ Append(Front(gs), x)[Len(gs)] = x
          /\ \A g \in 1 .. Len(gs) : g # Len(gs) => Append(Front(gs), x)[g] = gs[g]
          /\ Last(Append(Front(gs), x)) = x
      BY <3>1, LastReplaced
    <3>3. QED
      BY <3>2
  <2> HIDE DEF ts, gs, n, last, next
  <2>12. \A g \in 1 .. n : GroupFits(s, target, ts[g])
    BY <1>4, <2>10, <2>11
  <2>13. ASSUME NEW g \in 1 .. n, NEW h \in 1 .. n, g # h
         PROVE  ToSet(ts[g]) \cap ToSet(ts[h]) = {}
    <3>1. ASSUME NEW k \in 1 .. n, k # n
          PROVE  ToSet(ts[k]) \cap ToSet(x) = {}
      <4>1. ts[k] = gs[k] /\ f \notin ToSet(gs[k])
        BY <1>5, <2>11, <3>1
      <4>2. ToSet(gs[k]) \cap ToSet(gs[n]) = {}
        BY <1>4, <2>4, <3>1
      <4>3. QED
        BY <2>2, <2>6, <4>1, <4>2
    <3>2. CASE g = n
      BY <2>11, <2>13, <3>1, <3>2
    <3>3. CASE h = n
      BY <2>11, <2>13, <3>1, <3>3
    <3>4. CASE g # n /\ h # n
      BY <1>4, <2>11, <2>13, <3>4
    <3>5. QED
      BY <3>2, <3>3, <3>4
  <2>14. ASSUME NEW y
         PROVE  y \in done \cup {f} <=> \E g \in 1 .. n : y \in ToSet(ts[g])
    <3>1. y \in ToSet(x) <=> y \in ToSet(gs[n]) \/ y = f
      BY <2>2, <2>6
    <3>2. \A g \in 1 .. n : y \in ToSet(ts[g]) <=> y \in ToSet(gs[g]) \/ (g = n /\ y = f)
      BY <2>11, <3>1
    <3>3. QED
      BY <1>4, <2>4, <3>2
  <2>15. GroupsFit(s, target, ts)
    BY <2>11, <2>12, <2>13 DEF GroupsFit
  <2>16. QED
    BY <1>2, <2>1, <2>9, <2>11, <2>14, <2>15 DEF Packed, next
<1>7. CASE ~(gs # <<>> /\ so.rows + LiveRows(s, f) <= target)
  <2> DEFINE ts == Append(gs, one)
  <2>1. next.groups = ts /\ next.rows = LiveRows(s, f)
    BY <1>7 DEF PackStep
  <2>2. GroupFits(s, target, one) /\ ToSet(one) = {f}
    BY OneGroup
  <2>3. RowsOut(s, one) = LiveRows(s, f)
    <3>1. << >> \in Seq(fs)
      OBVIOUS
    <3>2. QED
      BY <3>1, RowsOutFacts
  <2> HIDE DEF one, A
  <2>4. /\ Len(ts) = n + 1 /\ DOMAIN ts = 1 .. n + 1 /\ ts[n + 1] = one
        /\ \A g \in 1 .. n : ts[g] = gs[g]
    BY <1>1, <1>3
  <2>5. Last(ts) = one
    BY <2>4 DEF Last
  <2>6. /\ \A g \in 1 .. n + 1 : g \in 1 .. n \/ g = n + 1
        /\ \A g \in 1 .. n : g \in 1 .. n + 1
        /\ n + 1 \in 1 .. n + 1
    BY <1>3
  <2> HIDE DEF ts, gs, n, next
  <2>7. \A g \in 1 .. n + 1 : GroupFits(s, target, ts[g])
    BY <1>4, <2>2, <2>4, <2>6
  <2>8. ASSUME NEW g \in 1 .. n + 1, NEW h \in 1 .. n + 1, g # h
        PROVE  ToSet(ts[g]) \cap ToSet(ts[h]) = {}
    <3>1. \A k \in 1 .. n : ToSet(ts[k]) \cap ToSet(one) = {}
      BY <1>5, <2>2, <2>4
    <3>2. CASE g = n + 1
      BY <2>4, <2>6, <2>8, <3>1, <3>2
    <3>3. CASE h = n + 1
      BY <2>4, <2>6, <2>8, <3>1, <3>3
    <3>4. CASE g # n + 1 /\ h # n + 1
      BY <1>4, <2>4, <2>6, <2>8, <3>4
    <3>5. QED
      BY <3>2, <3>3, <3>4
  <2>9. ASSUME NEW y
        PROVE  y \in done \cup {f} <=> \E g \in 1 .. n + 1 : y \in ToSet(ts[g])
    BY <1>4, <2>2, <2>4, <2>6
  <2>10. GroupsFit(s, target, ts)
    BY <2>4, <2>7, <2>8 DEF GroupsFit
  <2>11. QED
    BY <1>2, <2>1, <2>3, <2>4, <2>5, <2>9, <2>10 DEF Packed, next
<1>8. QED
  BY <1>6, <1>7

\* The groups packed hold every file, once, and fit.
LEMMA PackFits ==
    ASSUME NEW s, NEW fs, \A f \in fs : LiveRows(s, f) \in Int, NEW target,
           NEW files \in Seq(fs), IsInjective(files)
    PROVE  LET groups == Pack(s, files, target)
           IN  /\ groups \in Seq(Seq(fs))
               /\ GroupsFit(s, target, groups)
               /\ \A f : f \in ToSet(files) <=> \E g \in DOMAIN groups : f \in ToSet(groups[g])
<1> DEFINE n == Len(files)
           First(i) == {files[j] : j \in 1 .. i}
<1>1. n \in Nat /\ DOMAIN files = 1 .. n /\ \A i \in 1 .. n : files[i] \in fs
  BY LenProperties, ElementOfSeq
<1>2. PICK pack : PackRun(pack, s, fs, files, target)
  BY PackRuns
<1>3. /\ pack[0] = NoGroups
      /\ \A i \in 1 .. n : pack[i] = PackStep(s, files[i], target, pack[i - 1])
      /\ Pack(s, files, target) = pack[n].groups
  BY <1>2 DEF PackRun
<1> HIDE DEF n
<1> DEFINE Good == {i \in Nat : i <= n => Packed(s, fs, target, First(i), pack[i])}
<1>4. 0 \in Good
  <2>1. First(0) = {}
    OBVIOUS
  <2>2. /\ NoGroups.groups = <<>> /\ DOMAIN NoGroups.groups = {} /\ NoGroups \in Packings(fs)
    BY DEF NoGroups, Packings
  <2>3. Packed(s, fs, target, {}, NoGroups)
    BY <2>2 DEF Packed, GroupsFit
  <2> HIDE DEF First
  <2>4. QED
    BY <1>3, <2>1, <2>3
<1>5. ASSUME NEW i \in Nat, i \in Good
      PROVE  i + 1 \in Good
  <2> SUFFICES ASSUME i + 1 <= n
               PROVE  Packed(s, fs, target, First(i + 1), pack[i + 1])
    OBVIOUS
  <2>1. i + 1 \in 1 .. n /\ (i + 1) - 1 = i /\ i <= n
    BY <1>1
  <2>2. Packed(s, fs, target, First(i), pack[i])
    BY <1>5, <2>1
  <2>3. pack[i + 1] = PackStep(s, files[i + 1], target, pack[i])
    BY <1>3, <2>1
  <2>4. First(i + 1) = First(i) \cup {files[i + 1]}
    <3>1. 1 .. i + 1 = (1 .. i) \cup {i + 1}
      OBVIOUS
    <3>2. QED
      BY <3>1
  <2>5. files[i + 1] \notin First(i)
    <3>1. \A j \in 1 .. i : j \in 1 .. n /\ j # i + 1
      BY <1>1, <2>1
    <3>2. QED
      BY <1>1, <2>1, <3>1 DEF IsInjective
  <2>6. files[i + 1] \in fs
    BY <1>1, <2>1
  <2> HIDE DEF First
  <2>7. Packed(s, fs, target, First(i) \cup {files[i + 1]}, PackStep(s, files[i + 1], target, pack[i]))
    BY <2>2, <2>5, <2>6, PackStepKeeps
  <2>8. QED
    BY <2>3, <2>4, <2>7
<1>6. n \in Good
  <2> HIDE DEF Good
  <2>1. QED
    BY <1>1, <1>4, <1>5, NumberInduction
<1>7. First(n) = ToSet(files)
  BY <1>1 DEF ToSet
<1>8. Packed(s, fs, target, ToSet(files), pack[n])
  <2> HIDE DEF First
  <2>1. QED
    BY <1>1, <1>6, <1>7
<1>9. QED
  BY <1>3, <1>8 DEF Packed, Packings

\* The files to compact are listed once each: no two have the same smallest order.
LEMMA ByMinKeyLists ==
    ASSUME NEW s, NEW R, SnapshotIsSound(s, R), NEW fs, fs \subseteq s.data_files
    PROVE  /\ ByMinKey(fs) \in Seq(fs)
           /\ IsInjective(ByMinKey(fs))
           /\ ToSet(ByMinKey(fs)) = fs
<1> DEFINE key == [f \in fs |-> f.min_key]
           list == ByMinKey(fs)
<1>1. ASSUME NEW f \in fs
      PROVE  /\ f.min_key \in ToSet(objects[f.path]) /\ f.min_key \in Int
  <2>1. WrittenData(f)
    BY DEF SnapshotIsSound
  <2>2. QED
    BY <2>1, DataFileFacts
<1>2. \A f, g \in fs : f.min_key = g.min_key => f = g
  BY <1>1 DEF SnapshotIsSound
<1>3. IsFiniteSet(fs)
  BY FS_Subset DEF SnapshotIsSound
<1>4. \A f \in fs : key[f] = f.min_key /\ key[f] \in Int
  BY <1>1
<1> HIDE DEF key
<1>5. Ranks(ByMinKey(fs), fs, key)
  <2>1. \A f \in fs : {g \in fs : g.min_key < f.min_key} = {g \in fs : key[g] < key[f]}
    BY <1>4
  <2> DEFINE at(i) == CHOOSE f \in fs : Cardinality({g \in fs : g.min_key < f.min_key}) = i - 1
             ranked(i) == CHOOSE f \in fs : Cardinality({g \in fs : key[g] < key[f]}) = i - 1
  <2>2. \A i : at(i) = ranked(i)
    BY <2>1
  <2>3. ByMinKey(fs) = [i \in 1 .. Cardinality(fs) |-> at(i)]
    BY DEF ByMinKey
  <2>4. Ranks(ByMinKey(fs), fs, key) <=> ByMinKey(fs) = [i \in 1 .. Cardinality(fs) |-> ranked(i)]
    BY DEF Ranks
  <2> HIDE DEF at, ranked
  <2>5. QED
    BY <2>2, <2>3, <2>4
<1> HIDE DEF list
<1>6. /\ ByMinKey(fs) \in Seq(fs)
      /\ \A f \in fs : \E i \in DOMAIN ByMinKey(fs) : ByMinKey(fs)[i] = f
      /\ \A i, j \in DOMAIN ByMinKey(fs) : ByMinKey(fs)[i] = ByMinKey(fs)[j] => i = j
  BY <1>2, <1>3, <1>4, <1>5, RankingLists
<1>7. ToSet(ByMinKey(fs)) = fs
  <2>1. \A i \in DOMAIN ByMinKey(fs) : ByMinKey(fs)[i] \in fs
    BY <1>6, LenProperties, ElementOfSeq
  <2>2. QED
    BY <1>6, <2>1 DEF ToSet
<1>8. IsInjective(ByMinKey(fs))
  BY <1>6 DEF IsInjective
<1>9. QED
  BY <1>6, <1>7, <1>8

\* A plan's groups fit and are worth rewriting, hold no file twice, and hold every file that has
\* deletes.
LEMMA PlanFacts ==
    ASSUME NEW s, NEW R, SnapshotIsSound(s, R), NEW target, NEW small,
           NEW plan, plan = PlanCompaction(s, target, small)
    PROVE  /\ plan \in Seq(Seq(s.data_files))
           /\ GroupsFit(s, target, plan)
           /\ \A g \in DOMAIN plan : WorthRewriting(s, plan[g])
           /\ FlattenSeq(plan) \in Seq(s.data_files) /\ IsInjective(FlattenSeq(plan))
           /\ \A f : f \in ToSet(FlattenSeq(plan)) <=> \E g \in DOMAIN plan : f \in ToSet(plan[g])
           /\ \A f \in s.data_files : DeletesFor(s, f) # {} => f \in ToSet(FlattenSeq(plan))
<1> DEFINE fs == s.data_files
           some == Candidates(s, small)
           files == ByMinKey(some)
           groups == Pack(s, files, target)
           worth == {g \in ToSet(groups) : WorthRewriting(s, g)}
           A == Seq(fs)
<1>1. /\ some \subseteq fs
      /\ \A f \in fs : DeletesFor(s, f) # {} => f \in some
  BY DEF Candidates
<1> HIDE DEF some
<1>2. files \in Seq(fs) /\ IsInjective(files) /\ ToSet(files) = some
  <2>1. files \in Seq(some) /\ IsInjective(files) /\ ToSet(files) = some
    BY <1>1, ByMinKeyLists
  <2> HIDE DEF files, fs
  <2>2. QED
    BY <1>1, <2>1
<1> HIDE DEF files
<1>3. ASSUME NEW f \in fs
      PROVE  LiveRows(s, f) \in Int
  <2>1. LiveRows(s, f) \in Nat
    BY LiveRowsAre
  <2>2. QED
    BY <2>1
<1>4. /\ groups \in Seq(A)
      /\ GroupsFit(s, target, groups)
      /\ \A f : f \in ToSet(files) <=> \E g \in DOMAIN groups : f \in ToSet(groups[g])
  <2> HIDE DEF fs
  <2>1. QED
    BY <1>2, <1>3, PackFits
<1>5. plan = Keeping(groups, worth)
  BY DEF PlanCompaction, files, some
<1> HIDE DEF groups, A
<1>6. DOMAIN groups = 1 .. Len(groups) /\ \A g \in DOMAIN groups : groups[g] \in A
  BY <1>4, LenProperties, ElementOfSeq
<1>7. \A g \in DOMAIN groups : groups[g] # <<>> /\ \E f : f \in ToSet(groups[g])
  <2> SUFFICES ASSUME NEW g \in DOMAIN groups
               PROVE  groups[g] # <<>> /\ \E f : f \in ToSet(groups[g])
    OBVIOUS
  <2>1. groups[g] # <<>> /\ groups[g] \in Seq(fs)
    BY <1>4, <1>6 DEF GroupsFit, GroupFits, A
  <2>2. Len(groups[g]) \in Nat /\ Len(groups[g]) # 0 /\ DOMAIN groups[g] = 1 .. Len(groups[g])
    BY <2>1, LenProperties, EmptySeq
  <2>3. 1 \in DOMAIN groups[g]
    BY <2>2
  <2>4. QED
    BY <2>1, <2>3 DEF ToSet
<1>8. IsInjective(groups)
  <2> SUFFICES ASSUME NEW g \in DOMAIN groups, NEW h \in DOMAIN groups, groups[g] = groups[h], g # h
               PROVE  FALSE
    BY DEF IsInjective
  <2>1. PICK f : f \in ToSet(groups[g])
    BY <1>7
  <2>2. ToSet(groups[g]) \cap ToSet(groups[h]) = {}
    BY <1>4 DEF GroupsFit
  <2>3. QED
    BY <2>1, <2>2
<1>9. plan \in Seq(A) /\ IsInjective(plan) /\ ToSet(plan) = worth
  <2>1. ToSet(plan) = ToSet(groups) \cap worth
    <3> HIDE DEF worth
    <3>1. QED
      BY <1>4, <1>5, <1>8, KeepingKeeps
  <2>2. plan \in Seq(A) /\ IsInjective(plan)
    <3> HIDE DEF worth
    <3>1. QED
      BY <1>4, <1>5, <1>8, KeepingKeeps
  <2>3. QED
    BY <2>1, <2>2
<1>10. ASSUME NEW g \in DOMAIN plan
       PROVE  /\ plan[g] \in A /\ WorthRewriting(s, plan[g])
              /\ \E k \in DOMAIN groups : plan[g] = groups[k]
  <2>1. plan[g] \in worth
    BY <1>9 DEF ToSet
  <2>2. plan[g] \in ToSet(groups) /\ WorthRewriting(s, plan[g])
    BY <2>1
  <2>3. PICK k \in DOMAIN groups : plan[g] = groups[k]
    BY <2>2 DEF ToSet
  <2>4. QED
    BY <1>6, <2>2, <2>3
<1>11. GroupsFit(s, target, plan)
  <2>1. \A g \in DOMAIN plan : GroupFits(s, target, plan[g])
    BY <1>4, <1>10 DEF GroupsFit
  <2>2. ASSUME NEW g \in DOMAIN plan, NEW h \in DOMAIN plan, g # h
        PROVE  ToSet(plan[g]) \cap ToSet(plan[h]) = {}
    <3>1. plan[g] # plan[h]
      BY <1>9, <2>2 DEF IsInjective
    <3>2. PICK k \in DOMAIN groups : plan[g] = groups[k]
      BY <1>10
    <3>3. PICK m \in DOMAIN groups : plan[h] = groups[m]
      BY <1>10
    <3>4. QED
      BY <1>4, <3>1, <3>2, <3>3 DEF GroupsFit
  <2>3. QED
    BY <2>1, <2>2 DEF GroupsFit
<1>12. /\ FlattenSeq(plan) \in Seq(fs) /\ IsInjective(FlattenSeq(plan))
       /\ \A f : f \in ToSet(FlattenSeq(plan)) <=> \E g \in DOMAIN plan : f \in ToSet(plan[g])
  <2>1. \A g \in DOMAIN plan : IsInjective(plan[g])
    BY <1>11 DEF GroupsFit, GroupFits
  <2>2. \A g, h \in DOMAIN plan : g # h => ToSet(plan[g]) \cap ToSet(plan[h]) = {}
    BY <1>11 DEF GroupsFit
  <2>3. plan \in Seq(Seq(fs))
    BY <1>9 DEF A
  <2> HIDE DEF fs
  <2>4. QED
    BY <2>1, <2>2, <2>3, FlattenFacts
<1>13. ASSUME NEW f \in fs, DeletesFor(s, f) # {}
       PROVE  f \in ToSet(FlattenSeq(plan))
  <2>1. PICK k \in DOMAIN groups : f \in ToSet(groups[k])
    BY <1>1, <1>2, <1>4, <1>13
  <2>2. groups[k] \in Seq(fs) /\ groups[k] # <<>>
    BY <1>6, <1>7 DEF A
  <2>3. WorthRewriting(s, groups[k])
    <3> DEFINE group == groups[k]
    <3>1. Len(group) \in Nat /\ Len(group) # 0 /\ DOMAIN group = 1 .. Len(group)
      BY <2>2, LenProperties, EmptySeq
    <3>2. CASE Len(group) > 1
      BY <3>2 DEF WorthRewriting
    <3>3. CASE Len(group) = 1
      <4>1. group[1] = f
        BY <2>1, <3>1, <3>3 DEF ToSet
      <4>2. QED
        BY <1>13, <4>1 DEF WorthRewriting
    <3> HIDE DEF group
    <3>4. QED
      BY <3>1, <3>2, <3>3 DEF group
  <2>4. groups[k] \in ToSet(groups)
    BY DEF ToSet
  <2>5. groups[k] \in ToSet(plan)
    BY <1>9, <2>3, <2>4
  <2>6. PICK g \in DOMAIN plan : plan[g] = groups[k]
    BY <2>5 DEF ToSet
  <2>7. QED
    BY <1>12, <2>1, <2>6
<1>14. QED
  BY <1>9, <1>10, <1>11, <1>12, <1>13 DEF A

(***************************************************************************)
(* A compaction                                                            *)
(***************************************************************************)

\* What a group is rewritten to holds its live orders, once each, as many as were counted.
LEMMA MergedFacts ==
    ASSUME NEW s, NEW R, SnapshotIsSound(s, R), NEW group \in Seq(s.data_files), IsInjective(group)
    PROVE  /\ Merged(s, group) \in Seq(Nat) /\ IsInjective(Merged(s, group))
           /\ \A o : o \in ToSet(Merged(s, group)) <=> \E f \in ToSet(group) : o \in LiveOrders(s, f)
           /\ Len(Merged(s, group)) = RowsOut(s, group)
<1> DEFINE n == Len(group)
           parts == [i \in DOMAIN group |-> Keeping(objects[group[i].path], LiveOrders(s, group[i]))]
           whole == FlattenSeq(parts)
           live == [i \in DOMAIN group |-> LiveOrders(s, group[i])]
           size == [i \in DOMAIN group |-> LiveRows(s, group[i])]
<1>1. n \in Nat /\ DOMAIN group = 1 .. n /\ \A i \in 1 .. n : group[i] \in s.data_files
  BY LenProperties, ElementOfSeq
<1>2. ASSUME NEW i \in 1 .. n
      PROVE  /\ parts[i] \in Seq(Nat) /\ IsInjective(parts[i]) /\ ToSet(parts[i]) = live[i]
             /\ live[i] \subseteq ToSet(objects[group[i].path])
             /\ IsFiniteSet(live[i]) /\ Cardinality(live[i]) = size[i]
  <2> DEFINE seq == objects[group[i].path]
             some == LiveOrders(s, group[i])
  <2>1. seq \in Seq(Nat) /\ IsInjective(seq)
    BY <1>1 DEF SnapshotIsSound, WrittenData
  <2>2. some \subseteq ToSet(seq)
    BY LiveOrdersIn
  <2>3. IsFiniteSet(some) /\ Cardinality(some) = LiveRows(s, group[i])
    BY <1>1, LiveOrdersSize
  <2>4. parts[i] = Keeping(seq, some) /\ live[i] = some /\ size[i] = LiveRows(s, group[i])
    BY <1>1
  <2> HIDE DEF seq, some, parts, live, size
  <2>5. Keeping(seq, some) \in Seq(Nat) /\ IsInjective(Keeping(seq, some))
        /\ ToSet(Keeping(seq, some)) = ToSet(seq) \cap some
    BY <2>1, KeepingKeeps
  <2>6. QED
    BY <2>2, <2>3, <2>4, <2>5 DEF seq
<1>3. ASSUME NEW i \in 1 .. n, NEW j \in 1 .. n, i # j
      PROVE  live[i] \cap live[j] = {}
  <2>1. group[i] # group[j]
    BY <1>1, <1>3 DEF IsInjective
  <2>2. ToSet(objects[group[i].path]) \cap ToSet(objects[group[j].path]) = {}
    BY <1>1, <2>1 DEF SnapshotIsSound
  <2> HIDE DEF live
  <2>3. QED
    BY <1>2, <2>2
<1>4. DOMAIN parts = 1 .. n /\ parts = [i \in 1 .. n |-> parts[i]]
  BY <1>1
<1>5. Merged(s, group) = whole
  BY DEF Merged
<1>6. \A o : o \in UNION {live[i] : i \in 1 .. n} <=> \E f \in ToSet(group) : o \in LiveOrders(s, f)
  BY <1>1 DEF ToSet
<1>7. RowsOut(s, group) = SumFunction(size) /\ DOMAIN size = 1 .. n
  BY <1>1 DEF RowsOut
<1> HIDE DEF parts, live, size, n
<1>8. parts \in Seq(Seq(Nat))
  <2> DEFINE V == Seq(Nat)
  <2>1. \A i \in 1 .. n : parts[i] \in V
    BY <1>2
  <2> HIDE DEF V
  <2>2. parts \in [1 .. n -> V]
    BY <1>4, <2>1
  <2>3. parts \in Seq(V)
    BY <1>1, <2>2
  <2>4. QED
    BY <2>3 DEF V
<1>9. /\ whole \in Seq(Nat) /\ IsInjective(whole)
      /\ \A o : o \in ToSet(whole) <=> \E i \in 1 .. n : o \in live[i]
  <2>1. \A i \in DOMAIN parts : IsInjective(parts[i])
    BY <1>2, <1>4
  <2>2. \A i, j \in DOMAIN parts : i # j => ToSet(parts[i]) \cap ToSet(parts[j]) = {}
    BY <1>2, <1>3, <1>4
  <2>3. /\ whole \in Seq(Nat) /\ IsInjective(whole)
        /\ \A o : o \in ToSet(whole) <=> \E i \in DOMAIN parts : o \in ToSet(parts[i])
    <3> DEFINE A == Nat
    <3>1. parts \in Seq(Seq(A))
      BY <1>8
    <3> HIDE DEF A
    <3>2. whole \in Seq(A)
      BY <3>1, FlattenFacts
    <3>3. \A o : o \in ToSet(whole) <=> \E i \in DOMAIN parts : o \in ToSet(parts[i])
      BY <3>1, FlattenFacts
    <3>4. IsInjective(whole)
      BY <2>1, <2>2, <3>1, FlattenFacts
    <3>5. QED
      BY <3>2, <3>3, <3>4 DEF A
  <2> HIDE DEF whole
  <2>4. \A i \in 1 .. n : \A o : o \in ToSet(parts[i]) <=> o \in live[i]
    BY <1>2
  <2>5. QED
    BY <1>4, <2>3, <2>4
<1> HIDE DEF whole
<1>10. Len(whole) = SumFunction(size)
  <2>1. Len(whole) \in Nat /\ DOMAIN whole = 1 .. Len(whole)
    BY <1>9, LenProperties
  <2>2. Cardinality(ToSet(whole)) = Len(whole)
    BY <1>9, <2>1, DistinctSize, ToSetIsRange
  <2>3. SumFunction(size) = SumFunctionOnSet(size, 1 .. n)
    BY <1>7 DEF SumFunction
  <2> DEFINE S == 1 .. n
             all == ToSet(whole)
  <2>4. /\ IsFiniteSet(S)
        /\ \A i \in S : IsFiniteSet(live[i]) /\ size[i] = Cardinality(live[i])
        /\ \A i, j \in S : i # j => live[i] \cap live[j] = {}
        /\ \A o : o \in all <=> \E i \in S : o \in live[i]
    BY <1>1, <1>2, <1>3, <1>9, FS_Interval
  <2> HIDE DEF S, all
  <2>5. SumFunctionOnSet(size, S) = Cardinality(all)
    BY <2>4, SumOfSizes
  <2>6. QED
    BY <2>2, <2>3, <2>5 DEF S, all
<1>11. QED
  BY <1>5, <1>6, <1>7, <1>9, <1>10

\* What a compaction writes: a file for each group, numbered on from the last.
Outputs(s, plan, files, file) ==
    /\ Len(plan) \in Nat /\ DOMAIN plan = 1 .. Len(plan) /\ Len(files) = Len(plan)
    /\ \A g \in DOMAIN plan :
          /\ files[g] \in Seq(Nat) /\ IsInjective(files[g])
          /\ \A o : o \in ToSet(files[g]) <=> \E f \in ToSet(plan[g]) : o \in LiveOrders(s, f)
          /\ Len(files[g]) = RowsOut(s, plan[g]) /\ RowsOut(s, plan[g]) \in Int
          /\ file[g].path = NewPath + g - 1 /\ file[g].record_count = Len(files[g])
          /\ file[g].path \notin DOMAIN objects
    /\ \A g, h \in DOMAIN plan : file[g] = file[h] => g = h

LEMMA OutputsAre ==
    ASSUME TableIInv, NEW s, NEW R, SnapshotIsSound(s, R), NEW target, NEW small,
           NEW plan, plan = PlanCompaction(s, target, small),
           NEW files, files = [g \in DOMAIN plan |-> Merged(s, plan[g])],
           NEW file, file = [g \in DOMAIN plan |-> DataFile(NewPath + g - 1, files[g])]
    PROVE  Outputs(s, plan, files, file)
<1> DEFINE n == Len(plan)
           A == Seq(s.data_files)
<1>1. /\ plan \in Seq(A) /\ GroupsFit(s, target, plan)
  BY PlanFacts
<1>2. n \in Nat /\ DOMAIN plan = 1 .. n /\ \A g \in 1 .. n : plan[g] \in A
  <2> HIDE DEF A
  <2>1. QED
    BY <1>1, LenProperties, ElementOfSeq
<1>3. Len(files) = n
  BY <1>2
<1>4. DOMAIN objects = 1 .. NewPath - 1 /\ NewPath \in Nat /\ NewPath >= 1
  <2> DEFINE k == Cardinality(DOMAIN objects)
  <2>1. k \in Nat /\ DOMAIN objects = 1 .. k /\ NewPath = k + 1
    BY FS_CardinalityType DEF TableIInv, NewPath
  <2> HIDE DEF k
  <2>2. QED
    BY <2>1
<1>5. PICK b : b = NewPath
  OBVIOUS
<1>6. ASSUME NEW g \in 1 .. n
      PROVE  /\ files[g] \in Seq(Nat) /\ IsInjective(files[g])
             /\ \A o : o \in ToSet(files[g]) <=> \E f \in ToSet(plan[g]) : o \in LiveOrders(s, f)
             /\ Len(files[g]) = RowsOut(s, plan[g]) /\ Len(files[g]) \in Nat
  <2>1. IsInjective(plan[g]) /\ plan[g] \in Seq(s.data_files)
    BY <1>1, <1>2 DEF GroupsFit, GroupFits
  <2>2. files[g] = Merged(s, plan[g])
    BY <1>2
  <2> HIDE DEF n, A
  <2>3. /\ files[g] \in Seq(Nat) /\ IsInjective(files[g])
        /\ \A o : o \in ToSet(files[g]) <=> \E f \in ToSet(plan[g]) : o \in LiveOrders(s, f)
        /\ Len(files[g]) = RowsOut(s, plan[g])
    BY <2>1, <2>2, MergedFacts
  <2>4. QED
    BY <2>3, LenProperties
<1>7. ASSUME NEW g \in 1 .. n
      PROVE  /\ file[g].path = b + g - 1 /\ file[g].record_count = Len(files[g])
             /\ file[g].path \notin DOMAIN objects
  <2>1. file[g] = DataFile(b + g - 1, files[g])
    BY <1>2, <1>5
  <2>2. file[g].path = b + g - 1 /\ file[g].record_count = Len(files[g])
    BY <2>1 DEF DataFile
  <2>3. b + g - 1 \notin 1 .. b - 1
    BY <1>2, <1>4, <1>5
  <2>4. QED
    BY <1>4, <1>5, <2>2, <2>3
<1>8. ASSUME NEW g \in 1 .. n, NEW h \in 1 .. n, file[g] = file[h]
      PROVE  g = h
  <2>1. b + g - 1 = b + h - 1
    BY <1>7, <1>8
  <2>2. QED
    BY <1>2, <1>4, <1>5, <2>1
<1>9. QED
  BY <1>2, <1>3, <1>5, <1>6, <1>7, <1>8 DEF Outputs

LEMMA CompactKeeps ==
    ASSUME TableIInv, NEW i \in DOMAIN snapshots, NEW target, NEW small, Compact(i, target, small)
    PROVE  TableIInv'
<1>1. PICK s, R : s = snapshots[i] /\ R = rows[i]
  OBVIOUS
<1>2. SnapshotIsSound(s, R)
  BY <1>1 DEF TableIInv
<1>3. PICK plan, files : /\ plan = PlanCompaction(s, target, small)
                         /\ files = [g \in DOMAIN plan |-> Merged(s, plan[g])]
  OBVIOUS
<1>4. PICK t, file : /\ t = Compacted(s, files, plan)
                     /\ file = [g \in DOMAIN plan |-> DataFile(NewPath + g - 1, files[g])]
  OBVIOUS
<1>5. /\ \A g \in DOMAIN plan : files[g] # <<>>
      /\ Write(files) /\ Commit(t, R)
  BY <1>1, <1>3, <1>4 DEF Compact
<1>6. /\ Len(plan) \in Nat /\ DOMAIN plan = 1 .. Len(plan) /\ Len(files) = Len(plan)
      /\ \A g \in DOMAIN plan :
            /\ files[g] \in Seq(Nat) /\ IsInjective(files[g])
            /\ \A o : o \in ToSet(files[g]) <=> \E f \in ToSet(plan[g]) : o \in LiveOrders(s, f)
            /\ file[g].path = NewPath + g - 1 /\ file[g].path \notin DOMAIN objects
      /\ \A g, h \in DOMAIN plan : file[g] = file[h] => g = h
  <2>1. Outputs(s, plan, files, file)
    BY <1>2, <1>3, <1>4, OutputsAre
  <2>2. QED
    BY <2>1 DEF Outputs
<1>7. /\ ObjectsGrow
      /\ \A g \in DOMAIN plan : /\ file[g].path \in DOMAIN objects'
                                /\ objects'[file[g].path] = files[g]
  <2>1. Len(files) \in Nat
    BY <1>6
  <2>2. /\ ObjectsGrow
        /\ \A g \in 1 .. Len(files) : /\ NewPath + g - 1 \in DOMAIN objects'
                                      /\ objects'[NewPath + g - 1] = files[g]
    BY <1>5, <2>1, WriteFacts
  <2>3. QED
    BY <1>6, <2>2
<1>8. ASSUME NEW g \in DOMAIN plan
      PROVE  WrittenData(file[g])'
  <2>1. PICK path, contents, f : path = file[g].path /\ contents = files[g] /\ f = file[g]
    OBVIOUS
  <2>2. f = DataFile(path, contents)
    BY <1>4, <1>6, <2>1
  <2>3. contents \in Seq(Nat) \ {<<>>} /\ IsInjective(contents)
    BY <1>5, <1>6, <2>1
  <2>4. path \in DOMAIN objects' /\ objects'[path] = contents
    BY <1>7, <2>1
  <2>5. WrittenData(f)'
    BY <2>2, <2>3, <2>4, WrittenNow
  <2>6. f = file[g]
    BY <2>1
  <2>7. QED
    BY <2>5, <2>6
<1>9. PICK planned, kept, deletes, new : /\ planned = ToSet(FlattenSeq(plan))
                                         /\ kept = s.data_files \ planned
                                         /\ deletes = {}
                                         /\ new = {file[g] : g \in DOMAIN plan}
  OBVIOUS
<1>10. /\ GroupsFit(s, target, plan)
       /\ \A f : f \in planned <=> \E g \in DOMAIN plan : f \in ToSet(plan[g])
       /\ \A f \in s.data_files : DeletesFor(s, f) # {} => f \in planned
       /\ planned \subseteq s.data_files
  <2>1. /\ GroupsFit(s, target, plan)
        /\ \A f : f \in planned <=> \E g \in DOMAIN plan : f \in ToSet(plan[g])
        /\ \A f \in s.data_files : DeletesFor(s, f) # {} => f \in planned
        /\ FlattenSeq(plan) \in Seq(s.data_files)
    BY <1>2, <1>3, <1>9, PlanFacts
  <2>2. planned \subseteq s.data_files
    BY <1>9, <2>1, LenProperties, ElementOfSeq DEF ToSet
  <2>3. QED
    BY <2>1, <2>2
<1>11. Remakes(s, kept, deletes, new, t, R)
  <2>1. t = [data_files |-> kept \cup new, delete_files |-> deletes]
    BY <1>4, <1>9 DEF Compacted
  <2>2. kept \subseteq s.data_files /\ deletes \subseteq s.delete_files
    BY <1>9
  <2>3. ASSUME NEW d \in s.delete_files, NEW f \in kept, f.path = d.data_file
        PROVE  FALSE
    <3>1. d \in DeletesFor(s, f)
      BY <2>3 DEF DeletesFor
    <3>2. QED
      BY <1>9, <1>10, <3>1
  <2>4. \A d \in s.delete_files : d \in deletes <=> \E f \in kept : f.path = d.data_file
    BY <1>9, <2>3
  <2>5. IsFiniteSet(new)
    <3> DEFINE S == 1 .. Len(plan)
    <3>1. IsFiniteSet(S)
      BY <1>6, FS_Interval
    <3>2. \A g, h \in S : file[g] = file[h] => g = h
      BY <1>6
    <3>3. \A f : f \in new <=> \E g \in S : f = file[g]
      BY <1>6, <1>9
    <3> HIDE DEF S
    <3>4. QED
      BY <3>1, <3>2, <3>3, NamedSize
  <2>6. \A f \in new : WrittenData(f)' /\ f.path \notin DOMAIN objects
    <3> SUFFICES ASSUME NEW g \in DOMAIN plan
                 PROVE  WrittenData(file[g])' /\ file[g].path \notin DOMAIN objects
      BY <1>9
    <3>1. QED
      BY <1>6, <1>8
  <2>7. \A f \in new, k \in kept : ToSet(objects'[f.path]) \cap ToSet(objects[k.path]) = {}
    <3> SUFFICES ASSUME NEW g \in DOMAIN plan, NEW k \in kept,
                        NEW o \in ToSet(files[g]), o \in ToSet(objects[k.path])
                 PROVE  FALSE
      BY <1>7, <1>9
    <3>1. PICK f \in ToSet(plan[g]) : o \in LiveOrders(s, f)
      BY <1>6
    <3>2. f \in planned /\ o \in ToSet(objects[f.path])
      BY <1>10, <3>1, LiveOrdersIn
    <3>3. f \in s.data_files /\ k \in s.data_files /\ f # k
      BY <1>9, <1>10, <3>2
    <3>4. QED
      BY <1>2, <3>2, <3>3 DEF SnapshotIsSound
  <2>8. \A f, h \in new : f # h => ToSet(objects'[f.path]) \cap ToSet(objects'[h.path]) = {}
    <3> SUFFICES ASSUME NEW g \in DOMAIN plan, NEW h \in DOMAIN plan, g # h,
                        NEW o \in ToSet(files[g]), o \in ToSet(files[h])
                 PROVE  FALSE
      BY <1>7, <1>9
    <3>1. PICK f \in ToSet(plan[g]) : o \in LiveOrders(s, f)
      BY <1>6
    <3>2. PICK k \in ToSet(plan[h]) : o \in LiveOrders(s, k)
      BY <1>6
    <3>3. f # k
      BY <1>10, <3>1, <3>2 DEF GroupsFit
    <3>4. f \in s.data_files /\ k \in s.data_files
      BY <1>10
    <3>5. o \in ToSet(objects[f.path]) /\ o \in ToSet(objects[k.path])
      BY <3>1, <3>2, LiveOrdersIn
    <3>6. QED
      BY <1>2, <3>3, <3>4, <3>5 DEF SnapshotIsSound
  <2>9. ASSUME NEW o
        PROVE  o \in R <=> (\E f \in kept : o \in LiveOrders(s, f))
                              \/ (\E f \in new : o \in ToSet(objects'[f.path]))
    <3>1. o \in R <=> \E f \in s.data_files : o \in LiveOrders(s, f)
      BY <1>2, OrdersAreLive
    <3>2. (\E f \in new : o \in ToSet(objects'[f.path])) <=> \E g \in DOMAIN plan : o \in ToSet(files[g])
      BY <1>7, <1>9
    <3>3. (\E g \in DOMAIN plan : o \in ToSet(files[g])) <=> \E f \in planned : o \in LiveOrders(s, f)
      BY <1>6, <1>10
    <3>4. QED
      BY <1>9, <1>10, <3>1, <3>2, <3>3
  <2>10. QED
    BY <2>1, <2>2, <2>4, <2>5, <2>6, <2>7, <2>8, <2>9 DEF Remakes
<1>12. SnapshotIsSound(t, R)'
  BY <1>2, <1>7, <1>11, RemadeIsSound
<1>13. Len(files) \in Nat
  BY <1>6
<1>14. QED
  BY <1>5, <1>12, <1>13, CommitKeeps

(***************************************************************************)
(* The invariant, and what follows from it                                 *)
(***************************************************************************)

\* A step on one snapshot.
LEMMA StepKeeps == ASSUME TableIInv, [Next]_vars PROVE TableIInv'
<1>1. CASE Next
  <2>1. PICK i \in {1, Len(snapshots)} :
           \/ \E order \in Orders : CopyOnWrite(i, order)
           \/ \E order \in Orders : MergeOnRead(i, order)
           \/ AppendOrders(i)
           \/ \E target \in Targets, small \in Smalls : Compact(i, target, small)
    BY SMTT(30), <1>1 DEF Next
  <2>2. i \in DOMAIN snapshots
    <3>1. snapshots \in Seq(ToSet(snapshots)) /\ snapshots # <<>>
      BY DEF TableIInv
    <3>2. Len(snapshots) \in Nat /\ Len(snapshots) # 0 /\ DOMAIN snapshots = 1 .. Len(snapshots)
      BY <3>1, LenProperties, EmptySeq
    <3>3. PICK n : n = Len(snapshots)
      OBVIOUS
    <3>4. 1 \in 1 .. n /\ n \in 1 .. n
      <4>1. n \in Nat /\ n # 0
        BY <3>2, <3>3
      <4>2. QED
        BY <4>1
    <3>5. QED
      BY <2>1, <3>2, <3>3, <3>4
  <2>3. CASE \E order \in Orders : CopyOnWrite(i, order)
    BY <2>2, <2>3, CopyOnWriteKeeps
  <2>4. CASE \E order \in Orders : MergeOnRead(i, order)
    BY <2>2, <2>4, MergeOnReadKeeps
  <2>5. CASE AppendOrders(i)
    BY <2>2, <2>5, AppendKeeps
  <2>6. CASE \E target \in Targets, small \in Smalls : Compact(i, target, small)
    BY <2>2, <2>6, CompactKeeps
  <2>7. QED
    BY <2>1, <2>3, <2>4, <2>5, <2>6
<1>2. CASE UNCHANGED vars
  <2>1. UNCHANGED <<objects, snapshots, rows>>
    BY <1>2 DEF vars
  <2>2. ObjectsGrow
    BY <2>1 DEF ObjectsGrow
  <2>3. \A i \in DOMAIN snapshots : SnapshotIsSound(snapshots[i], rows[i])'
    <3> SUFFICES ASSUME NEW i \in DOMAIN snapshots
                 PROVE  SnapshotIsSound(snapshots[i], rows[i])'
      OBVIOUS
    <3>1. PICK s, R : s = snapshots[i] /\ R = rows[i]
      OBVIOUS
    <3>2. SnapshotIsSound(s, R)'
      BY <2>2, <3>1, SoundStays DEF TableIInv
    <3>3. s = snapshots'[i] /\ R = rows'[i]
      BY <2>1, <3>1
    <3>4. QED
      BY <3>2, <3>3
  <2>4. DataPaths' = DataPaths
    BY <2>1 DEF DataPaths
  <2>5. QED
    BY <2>1, <2>3, <2>4 DEF TableIInv
<1>3. QED
  BY <1>1, <1>2

\* Whatever changes the table, in whatever order, its snapshots are sound.
THEOREM TableInvariant == Spec => []TableIInv
BY FirstIsSound, StepKeeps, PTL DEF Spec

\* Every snapshot stays readable: its scan gives each of its orders once, and its counts say so.
THEOREM SnapshotsStayExact == Spec => []EverySnapshotStaysExact
<1>1. ASSUME TableIInv
      PROVE  EverySnapshotStaysExact
  <2> SUFFICES ASSUME NEW i \in DOMAIN snapshots
               PROVE  /\ ScanTable(snapshots[i]).orders = rows[i]
                      /\ ScanTable(snapshots[i]).live_rows = Cardinality(rows[i])
                      /\ ScanTable(snapshots[i]).live_rows
                           = SumFunction([f \in snapshots[i].data_files |-> LiveRows(snapshots[i], f)])
    BY DEF EverySnapshotStaysExact
  <2>1. PICK s, R : s = snapshots[i] /\ R = rows[i]
    OBVIOUS
  <2>2. SnapshotIsSound(s, R)
    BY <1>1, <2>1 DEF TableIInv
  <2>3. /\ ScanTable(s).orders = R
        /\ ScanTable(s).live_rows = Cardinality(R)
        /\ ScanTable(s).live_rows = SumFunction([f \in s.data_files |-> LiveRows(s, f)])
    BY <2>2, SoundIsExact
  <2>4. QED
    BY <2>1, <2>3
<1>2. QED
  BY <1>1, TableInvariant, PTL

\* A lookup that opens the files whose range holds a key, and the deletes that name them, finds it
\* in exactly the snapshots that hold it.
THEOREM LookupsFindLiveOrders == Spec => []LookupFindsLiveOrders
<1>1. ASSUME TableIInv
      PROVE  LookupFindsLiveOrders
  <2> SUFFICES ASSUME NEW i \in DOMAIN snapshots, NEW order \in Orders
               PROVE  order \in rows[i] <=> /\ Lookup(snapshots[i], order).found # Nowhere
                                            /\ ~Lookup(snapshots[i], order).deleted
    BY DEF LookupFindsLiveOrders
  <2>1. SnapshotIsSound(snapshots[i], rows[i])
    BY <1>1 DEF TableIInv
  <2>2. QED
    BY <2>1, SoundIsFound
<1>2. QED
  BY <1>1, TableInvariant, PTL

\* A plan fits its target, and rewrites every file that has deletes.
THEOREM PlansFit == Spec => []PlanFits
<1>1. ASSUME TableIInv
      PROVE  PlanFits
  <2>1. PICK s : s = Last(snapshots)
    OBVIOUS
  <2>2. PICK R : SnapshotIsSound(s, R)
    <3>1. snapshots \in Seq(ToSet(snapshots)) /\ snapshots # <<>>
      BY <1>1 DEF TableIInv
    <3>2. Len(snapshots) \in DOMAIN snapshots
      <4>1. Len(snapshots) \in Nat /\ Len(snapshots) # 0 /\ DOMAIN snapshots = 1 .. Len(snapshots)
        BY <3>1, LenProperties, EmptySeq
      <4>2. QED
        BY <4>1
    <3>3. QED
      BY <1>1, <2>1, <3>2 DEF TableIInv, Last
  <2> SUFFICES ASSUME NEW target \in Targets, NEW small \in Smalls,
                      NEW plan, plan = PlanCompaction(s, target, small)
               PROVE  /\ \A g \in DOMAIN plan : Len(plan[g]) > 1 => RowsOut(s, plan[g]) <= target
                      /\ \A f \in s.data_files :
                            DeletesFor(s, f) # {} => f \in ToSet(FlattenSeq(plan))
    BY <2>1 DEF PlanFits
  <2>3. QED
    BY <2>2, PlanFacts DEF GroupsFit, GroupFits
<1>2. QED
  BY <1>1, TableInvariant, PTL

\* A plan has as many files as its groups have between them: no fewer than it has groups, and at
\* least two for each if no file has deletes.
LEMMA PlanSize ==
    ASSUME NEW s, NEW R, SnapshotIsSound(s, R), NEW target, NEW small,
           NEW plan, plan = PlanCompaction(s, target, small)
    PROVE  /\ Len(plan) \in Nat /\ Len(FlattenSeq(plan)) \in Nat
           /\ Len(plan) <= Len(FlattenSeq(plan))
           /\ s.delete_files = {} => 2 * Len(plan) <= Len(FlattenSeq(plan))
<1> DEFINE n == Len(plan)
           planned == FlattenSeq(plan)
           S == 1 .. n
           parts == [g \in DOMAIN plan |-> ToSet(plan[g])]
           size == [g \in DOMAIN plan |-> Len(plan[g])]
           least == IF s.delete_files = {} THEN 2 ELSE 1
           floor == [g \in DOMAIN plan |-> least]
           A == Seq(s.data_files)
<1>1. /\ plan \in Seq(A) /\ GroupsFit(s, target, plan)
      /\ \A g \in DOMAIN plan : WorthRewriting(s, plan[g])
      /\ planned \in A /\ IsInjective(planned)
      /\ \A f : f \in ToSet(planned) <=> \E g \in DOMAIN plan : f \in ToSet(plan[g])
  BY PlanFacts
<1>2. n \in Nat /\ DOMAIN plan = S /\ \A g \in S : plan[g] \in A
  <2> HIDE DEF A
  <2>1. QED
    BY <1>1, LenProperties, ElementOfSeq
<1>3. Len(planned) \in Nat /\ Cardinality(ToSet(planned)) = Len(planned)
  <2>1. Len(planned) \in Nat /\ DOMAIN planned = 1 .. Len(planned)
    BY <1>1, LenProperties
  <2> HIDE DEF planned
  <2>2. QED
    BY <1>1, <2>1, DistinctSize, ToSetIsRange
<1>4. ASSUME NEW g \in S
      PROVE  /\ IsFiniteSet(parts[g]) /\ size[g] = Cardinality(parts[g])
             /\ size[g] \in Int /\ floor[g] \in Int /\ floor[g] <= size[g]
  <2> DEFINE group == plan[g]
  <2>1. group \in Seq(s.data_files) /\ group # <<>> /\ IsInjective(group) /\ WorthRewriting(s, group)
    BY <1>1, <1>2 DEF GroupsFit, GroupFits
  <2>2. parts[g] = ToSet(group) /\ size[g] = Len(group) /\ floor[g] = least
    BY <1>2
  <2> HIDE DEF group, parts, size, floor
  <2>3. Len(group) \in Nat /\ Len(group) # 0 /\ DOMAIN group = 1 .. Len(group)
    BY <2>1, LenProperties, EmptySeq
  <2>4. IsFiniteSet(ToSet(group)) /\ Cardinality(ToSet(group)) = Len(group)
    BY <2>1, <2>3, DistinctSize, ToSetIsRange
  <2>5. s.delete_files = {} => Len(group) > 1
    <3>1. s.delete_files = {} => DeletesFor(s, group[1]) = {}
      BY DEF DeletesFor
    <3>2. QED
      BY <2>1, <3>1 DEF WorthRewriting
  <2>6. least \in Int /\ least <= Len(group)
    BY <2>3, <2>5
  <2>7. QED
    BY <2>2, <2>3, <2>4, <2>6
<1>5. \A g, h \in S : g # h => parts[g] \cap parts[h] = {}
  BY <1>1, <1>2 DEF GroupsFit
<1>6. \A f : f \in ToSet(planned) <=> \E g \in S : f \in parts[g]
  BY <1>1, <1>2
<1>7. IsFiniteSet(S) /\ Cardinality(S) = n
  BY <1>2, UpToSize
<1>8. \A g \in S : floor[g] = least
  BY <1>2
<1>9. least \in Int /\ (s.delete_files = {} => least = 2) /\ (s.delete_files # {} => least = 1)
  OBVIOUS
<1> HIDE DEF S, parts, size, floor, least, planned, n
<1>10. SumFunctionOnSet(size, S) = Cardinality(ToSet(planned))
  <2> DEFINE all == ToSet(planned)
  <2>1. \A f : f \in all <=> \E g \in S : f \in parts[g]
    BY <1>6
  <2>2. IsFiniteSet(S)
    BY <1>7
  <2>3. \A g \in S : IsFiniteSet(parts[g])
    BY <1>4
  <2>4. \A g \in S : size[g] = Cardinality(parts[g])
    BY <1>4
  <2> HIDE DEF all
  <2>5. SumFunctionOnSet(size, S) = Cardinality(all)
    BY <1>5, <2>1, <2>2, <2>3, <2>4, SumOfSizes
  <2>6. QED
    BY <2>5 DEF all
<1>11. SumFunctionOnSet(floor, S) = n * least
  BY <1>7, <1>8, <1>9, SumOfEqual
<1>12. SumFunctionOnSet(floor, S) <= SumFunctionOnSet(size, S)
  BY <1>4, <1>7, SumGrows
<1>13. n * least <= Len(planned)
  BY <1>3, <1>10, <1>11, <1>12
<1>14. CASE s.delete_files = {}
  <2>1. n * 2 <= Len(planned)
    BY <1>9, <1>13, <1>14
  <2>2. n <= Len(planned) /\ 2 * n <= Len(planned)
    BY <1>2, <1>3, <2>1
  <2>3. QED
    BY <1>2, <1>3, <2>2 DEF n, planned
<1>15. CASE s.delete_files # {}
  <2>1. n * 1 <= Len(planned)
    BY <1>9, <1>13, <1>15
  <2>2. n <= Len(planned)
    BY <1>2, <1>3, <2>1
  <2>3. QED
    BY <1>2, <1>3, <1>15, <2>2 DEF n, planned
<1>16. QED
  BY <1>14, <1>15

\* Carrying out a plan adds up, and leaves fewer files to fetch.
LEMMA CompactedAddsUp ==
    ASSUME TableIInv, NEW s, NEW R, SnapshotIsSound(s, R), NEW target, NEW small,
           NEW plan, plan = PlanCompaction(s, target, small), plan # <<>>,
           NEW files, files = [g \in DOMAIN plan |-> Merged(s, plan[g])],
           NEW t, t = Compacted(s, files, plan)
    PROVE  /\ CompactionAdds(s, t, plan)
           /\ Cardinality(t.data_files)
                < Cardinality(s.data_files) + Cardinality(s.delete_files)
<1>1. PICK file : file = [g \in DOMAIN plan |-> DataFile(NewPath + g - 1, files[g])]
  OBVIOUS
<1>2. Outputs(s, plan, files, file)
  BY <1>1, OutputsAre
<1>3. PICK list, planned, kept, new, S : /\ list = FlattenSeq(plan)
                                         /\ planned = ToSet(list)
                                         /\ kept = s.data_files \ planned
                                         /\ new = {file[g] : g \in DOMAIN plan}
                                         /\ S = DOMAIN plan
  OBVIOUS
<1>4. t.data_files = kept \cup new
  BY <1>1, <1>3 DEF Compacted
<1>5. list \in Seq(s.data_files) /\ IsInjective(list)
  BY <1>3, PlanFacts
<1>6. planned \subseteq s.data_files /\ IsFiniteSet(planned) /\ Cardinality(planned) = Len(list)
  <2>1. Len(list) \in Nat /\ DOMAIN list = 1 .. Len(list)
    BY <1>5, LenProperties
  <2>2. planned \subseteq s.data_files
    BY <1>3, <1>5, LenProperties, ElementOfSeq DEF ToSet
  <2>3. IsFiniteSet(planned) /\ Cardinality(planned) = Len(list)
    BY <1>3, <1>5, <2>1, DistinctSize, ToSetIsRange
  <2>4. QED
    BY <2>2, <2>3
<1>7. /\ IsFiniteSet(S) /\ Cardinality(S) = Len(plan)
      /\ \A g, h \in S : file[g] = file[h] => g = h
      /\ \A f : f \in new <=> \E g \in S : f = file[g]
  BY <1>2, <1>3, FS_Interval DEF Outputs
<1>8. IsFiniteSet(new) /\ Cardinality(new) = Len(plan)
  BY <1>7, NamedSize
<1>9. \A f \in s.data_files : f.path \in DOMAIN objects
  BY DEF SnapshotIsSound, WrittenData
<1>10. \A f \in new : f.path \notin DOMAIN objects
  BY <1>2, <1>7, <1>3 DEF Outputs
<1>11. \A f, g \in s.data_files : f.path = g.path => f = g
  BY FilesApart
<1>12. Paths(s.data_files) \ Paths(t.data_files) = Paths(planned)
  <2>1. ASSUME NEW f \in s.data_files
        PROVE  f.path \in Paths(t.data_files) <=> f \notin planned
    <3>1. f.path \in Paths(t.data_files) <=> \E g \in kept \cup new : f.path = g.path
      BY <1>4 DEF Paths
    <3>2. \A g \in new : f.path # g.path
      BY <1>9, <1>10
    <3>3. \A g \in kept : f.path = g.path => f = g
      BY <1>3, <1>11
    <3>4. f \in kept <=> f \notin planned
      BY <1>3
    <3>5. QED
      BY <3>1, <3>2, <3>3, <3>4
  <2>2. \A p : p \in Paths(s.data_files) <=> \E f \in s.data_files : p = f.path
    BY DEF Paths
  <2>3. \A p : p \in Paths(planned) <=> \E f \in planned : p = f.path
    BY DEF Paths
  <2>4. \A p : p \in Paths(s.data_files) \ Paths(t.data_files) <=> p \in Paths(planned)
    <3> SUFFICES ASSUME NEW p
                 PROVE  p \in Paths(s.data_files) \ Paths(t.data_files) <=> p \in Paths(planned)
      OBVIOUS
    <3>1. ASSUME p \in Paths(s.data_files), p \notin Paths(t.data_files)
          PROVE  p \in Paths(planned)
      BY <2>1, <2>2, <2>3, <3>1
    <3>2. ASSUME p \in Paths(planned)
          PROVE  p \in Paths(s.data_files) /\ p \notin Paths(t.data_files)
      BY <1>6, <2>1, <2>2, <2>3, <3>2
    <3>3. QED
      BY <3>1, <3>2
  <2>5. QED
    BY <2>4
<1>13. Len(list) = Cardinality(Paths(planned))
  <2> DEFINE name == [f \in planned |-> f.path]
             names == Paths(planned)
  <2>1. \A f, g \in planned : name[f] = name[g] => f = g
    BY <1>6, <1>11
  <2>2. \A p : p \in names <=> \E f \in planned : p = name[f]
    BY DEF Paths
  <2> HIDE DEF name, names
  <2>3. Cardinality(names) = Cardinality(planned)
    BY <1>6, <2>1, <2>2, NamedSize
  <2>4. QED
    BY <1>6, <2>3 DEF names
<1>14. {f \in t.data_files : f.path \notin Paths(s.data_files)} = new
  <2>1. \A f \in kept : f.path \in Paths(s.data_files)
    BY <1>3 DEF Paths
  <2>2. \A f \in new : f.path \notin Paths(s.data_files)
    BY <1>9, <1>10 DEF Paths
  <2>3. QED
    BY <1>4, <2>1, <2>2
<1>15. SumFunction([f \in new |-> f.record_count])
         = SumFunction([g \in DOMAIN plan |-> RowsOut(s, plan[g])])
  <2> DEFINE count == [f \in new |-> f.record_count]
             out == [g \in S |-> RowsOut(s, plan[g])]
  <2>1. \A g \in S : file[g] \in new /\ out[g] \in Int /\ out[g] = count[file[g]]
    BY <1>2, <1>3 DEF Outputs
  <2>2. SumFunction(count) = SumFunctionOnSet(count, new) /\ SumFunction(out) = SumFunctionOnSet(out, S)
    BY DEF SumFunction
  <2> HIDE DEF count, out
  <2>3. SumFunctionOnSet(out, S) = SumFunctionOnSet(count, new)
    <3>1. IsFiniteSet(S)
      BY <1>7
    <3>2. \A g, h \in S : file[g] = file[h] => g = h
      BY <1>7
    <3>3. \A f : f \in new <=> \E g \in S : f = file[g]
      BY <1>7
    <3>4. \A g \in S : out[g] \in Int /\ out[g] = count[file[g]]
      BY <2>1
    <3>5. QED
      BY <3>1, <3>2, <3>3, <3>4, SumRenamed, SMTT(60)
  <2>4. SumFunction(count) = SumFunction(out)
    BY <2>2, <2>3
  <2>5. QED
    BY <1>3, <2>4 DEF count, out
<1>16. CompactionAdds(s, t, plan)
  BY <1>3, <1>12, <1>13, <1>14, <1>15 DEF CompactionAdds
<1>17. Cardinality(t.data_files) = Cardinality(s.data_files) - Len(list) + Len(plan)
  <2>1. /\ IsFiniteSet(kept)
        /\ Cardinality(kept) = Cardinality(s.data_files) - Cardinality(s.data_files \cap planned)
    BY <1>3, FS_Difference DEF SnapshotIsSound
  <2>2. s.data_files \cap planned = planned
    BY <1>6
  <2>3. kept \cap new = {}
    BY <1>3, <1>9, <1>10
  <2>4. Cardinality(kept \cup new) = Cardinality(kept) + Cardinality(new)
    <3>1. Cardinality(kept \cup new)
            = Cardinality(kept) + Cardinality(new) - Cardinality(kept \cap new)
      BY <1>8, <2>1, FS_Union
    <3>2. Cardinality(kept \cap new) = 0
      BY <2>3, FS_EmptySet
    <3>3. Cardinality(kept) \in Nat /\ Cardinality(new) \in Nat
      BY <1>8, <2>1, FS_CardinalityType
    <3>4. QED
      BY <3>1, <3>2, <3>3
  <2>5. QED
    BY <1>4, <1>6, <1>8, <2>1, <2>2, <2>4
<1>18. /\ Len(plan) \in Nat /\ Len(list) \in Nat /\ Len(plan) <= Len(list)
       /\ s.delete_files = {} => 2 * Len(plan) <= Len(list)
  BY <1>3, PlanSize
<1>19. Len(plan) # 0
  <2>1. plan \in Seq(Seq(s.data_files))
    BY PlanFacts
  <2> DEFINE A == Seq(s.data_files)
  <2> HIDE DEF A
  <2>2. plan \in Seq(A)
    BY <2>1 DEF A
  <2>3. QED
    BY <2>2, EmptySeq
<1>20. /\ Cardinality(s.data_files) \in Nat /\ Cardinality(s.delete_files) \in Nat
       /\ s.delete_files # {} => Cardinality(s.delete_files) # 0
  BY FS_CardinalityType, FS_EmptySet DEF SnapshotIsSound
<1>21. Cardinality(t.data_files) < Cardinality(s.data_files) + Cardinality(s.delete_files)
  <2>1. CASE s.delete_files = {}
    BY <1>17, <1>18, <1>19, <1>20, <2>1
  <2>2. CASE s.delete_files # {}
    BY <1>17, <1>18, <1>20, <2>2
  <2>3. QED
    BY <2>1, <2>2
<1>22. QED
  BY <1>16, <1>21

\* A compaction adds up by compaction_cost's own checks, and leaves fewer files to fetch.
THEOREM CompactionsSettle == Spec => CompactionSettles
<1> DEFINE Settles(i, target, small) ==
      LET before == snapshots[i]
          plan   == PlanCompaction(before, target, small)
          files  == [g \in DOMAIN plan |-> Merged(before, plan[g])]
          after  == Last(snapshots')
      IN  /\ plan # <<>> /\ <<>> \notin {files[g] : g \in DOMAIN plan}
          /\ snapshots' = Append(snapshots, Compacted(before, files, plan))
          => /\ CompactionAdds(before, after, plan)
             /\ Cardinality(after.data_files)
                  < Cardinality(before.data_files) + Cardinality(before.delete_files)
<1>1. ASSUME TableIInv, NEW i \in {1, Len(snapshots)}, NEW target \in Targets, NEW small \in Smalls
      PROVE  Settles(i, target, small)
  <2>1. PICK s, R, plan, files : /\ s = snapshots[i] /\ R = rows[i]
                                 /\ plan = PlanCompaction(s, target, small)
                                 /\ files = [g \in DOMAIN plan |-> Merged(s, plan[g])]
    OBVIOUS
  <2>2. PICK t : t = Compacted(s, files, plan)
    OBVIOUS
  <2> SUFFICES ASSUME plan # <<>>, snapshots' = Append(snapshots, t)
               PROVE  /\ CompactionAdds(s, Last(snapshots'), plan)
                      /\ Cardinality(Last(snapshots').data_files)
                           < Cardinality(s.data_files) + Cardinality(s.delete_files)
    BY <2>1, <2>2
  <2>3. /\ snapshots \in Seq(ToSet(snapshots)) /\ snapshots # <<>>
    BY <1>1 DEF TableIInv
  <2>4. i \in DOMAIN snapshots
    <3>1. Len(snapshots) \in Nat /\ Len(snapshots) # 0 /\ DOMAIN snapshots = 1 .. Len(snapshots)
      BY <2>3, LenProperties, EmptySeq
    <3>2. PICK n : n = Len(snapshots)
      OBVIOUS
    <3>3. n \in Nat /\ n # 0
      BY <3>1, <3>2
    <3>4. 1 \in 1 .. n /\ n \in 1 .. n
      BY <3>3
    <3>5. QED
      BY <3>1, <3>2, <3>4
  <2>5. SnapshotIsSound(s, R)
    BY <1>1, <2>1, <2>4 DEF TableIInv
  <2>6. Last(snapshots') = t
    <3>1. /\ Len(snapshots') = Len(snapshots) + 1 /\ snapshots'[Len(snapshots) + 1] = t
      BY <2>3, Appended
    <3>2. QED
      BY <3>1 DEF Last
  <2>7. /\ CompactionAdds(s, t, plan)
        /\ Cardinality(t.data_files) < Cardinality(s.data_files) + Cardinality(s.delete_files)
    BY <1>1, <2>1, <2>2, <2>5, CompactedAddsUp
  <2>8. QED
    BY <2>6, <2>7
<1>2. TableIInv => \A i \in {1, Len(snapshots)}, target \in Targets, small \in Smalls :
                      Settles(i, target, small)
  <2> HIDE DEF Settles
  <2>1. QED
    BY <1>1
<1>3. QED
  BY <1>2, TableInvariant, PTL DEF CompactionSettles
=====
