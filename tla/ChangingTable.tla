---------------------------- MODULE ChangingTable ----------------------------
(***************************************************************************)
(* A table of immutable files, its snapshots, and what changes it.  The    *)
(* readers are crates/parquet-lab/src/changes.rs: scan_table, lookup,      *)
(* plan_compaction and compaction_cost.  The one writer is                 *)
(* fixtures/generate.py, changes_files, whose transactions are actions     *)
(* here, in any order.  Each changes the newest snapshot or, as the first  *)
(* copy-on-write and merge-on-read there do, the first.                    *)
(*                                                                         *)
(* An order is its order_id.  A file's size, the requests (TracingStore)   *)
(* and how a data file is read (Scan) are left out; a snapshot's files are *)
(* a set, as no two of them hold one order.                                *)
(***************************************************************************)
EXTENDS Integers, Sequences, SequencesExt, Filtering

CONSTANTS
    Base,          \* the orders of each file first written, in order
    Batch,         \* the orders of an append
    Targets,       \* the target_rows a compaction may be given,
    Smalls,        \* and its small_rows
    MaxSnapshots   \* bound: snapshots of the table

ASSUME TableAssumption ==
    /\ Base \in Seq(Seq(Nat) \ {<<>>}) \ {<<>>}
    \* generate.py gives every order an id of its own.
    /\ \A p, q \in DOMAIN Base : \A m \in DOMAIN Base[p], n \in DOMAIN Base[q] :
          Base[p][m] = Base[q][n] => p = q /\ m = n
    /\ Batch \in Nat \ {0}
    /\ Targets \subseteq Nat
    /\ Smalls \subseteq Nat
    /\ MaxSnapshots \in Nat

VARIABLES
    objects,     \* path -> the orders of a data file, or what a delete file names
    snapshots,   \* every version of the table, oldest first
    rows         \* history: the orders each of them is to hold

vars == <<objects, snapshots, rows>>

(***************************************************************************)
(* Snapshots                                                               *)
(***************************************************************************)
DataFile(path, orders) ==
    [path |-> path, record_count |-> Len(orders),
     min_key |-> Min(ToSet(orders)), max_key |-> Max(ToSet(orders))]
DeleteFile(path, of) == [path |-> path, record_count |-> 1, data_file |-> of]

DeletesFor(s, f) == {d \in s.delete_files : d.data_file = f.path}

\* The rows a data file still holds, by the snapshot's own counts.
LiveRows(s, f) == f.record_count - SumFunction([d \in DeletesFor(s, f) |-> d.record_count])

Paths(fs) == {f.path : f \in fs}

(***************************************************************************)
(* scan_table and lookup                                                   *)
(***************************************************************************)
\* read_position_deletes: which positions of which files are deleted.
PositionDeletes(deletes) == UNION {ToSet(objects[d.path]) : d \in deletes}

\* Every position of the data files, less the deleted ones.
Positions(f) == {<<f.path, pos>> : pos \in DOMAIN objects[f.path]}
OrderAt(at) == objects[at[1]][at[2]]

ScanTable(s) ==
    LET decoded == UNION {Positions(f) : f \in s.data_files}
        live    == decoded \ PositionDeletes(s.delete_files)
    IN  [rows_decoded |-> Cardinality(decoded),
         live_rows    |-> Cardinality(live),
         orders       |-> {OrderAt(at) : at \in live}]

\* Faulty variant: the ranges are taken to exclude their ends.
FilesStrictlyAround(s, key) ==
    LET data == {f \in s.data_files : f.min_key < key /\ key < f.max_key}
    IN  [data |-> data, deletes |-> {d \in s.delete_files : d.data_file \in Paths(data)}]

\* files_to_open: the data files whose range holds the key, and the delete files that name
\* one of them.
FilesToOpen(s, key) ==
    LET data == {f \in s.data_files : f.min_key <= key /\ key <= f.max_key}
    IN  [data |-> data, deletes |-> {d \in s.delete_files : d.data_file \in Paths(data)}]

Nowhere == <<0, 0>>

\* The first place the key is found, and whether a delete file removes it.
Lookup(s, key) ==
    LET open == FilesToOpen(s, key)
        hits == {at \in UNION {Positions(f) : f \in open.data} : OrderAt(at) = key}
        at   == CHOOSE at \in hits : \A h \in hits : at[1] = h[1] => at[2] <= h[2]
    IN  IF hits = {} THEN [found |-> Nowhere, deleted |-> FALSE]
        ELSE [found |-> at, deleted |-> at \in PositionDeletes(open.deletes)]

(***************************************************************************)
(* plan_compaction and compaction_cost                                     *)
(***************************************************************************)
Candidates(s, small) ==
    {f \in s.data_files : DeletesFor(s, f) # {} \/ LiveRows(s, f) < small}

ByMinKey(fs) ==
    [i \in 1 .. Cardinality(fs) |->
        CHOOSE f \in fs : Cardinality({g \in fs : g.min_key < f.min_key}) = i - 1]

\* Faulty variant: a new group starts with the count of the one before it.
PackWithoutReset(s, files, target) ==
    LET pack[i \in 0 .. Len(files)] ==
            IF i = 0 THEN [groups |-> <<>>, rows |-> 0]
            ELSE LET so   == pack[i - 1]
                     live == LiveRows(s, files[i])
                 IN  IF so.groups # <<>> /\ so.rows + live <= target
                     THEN [groups |-> Append(Front(so.groups), Append(Last(so.groups), files[i])),
                           rows   |-> so.rows + live]
                     ELSE [groups |-> Append(so.groups, <<files[i]>>), rows |-> so.rows]
    IN  pack[Len(files)].groups

\* A file joins the last group while the group's live rows stay within the target.
Pack(s, files, target) ==
    LET pack[i \in 0 .. Len(files)] ==
            IF i = 0 THEN [groups |-> <<>>, rows |-> 0]
            ELSE LET so   == pack[i - 1]
                     live == LiveRows(s, files[i])
                 IN  IF so.groups # <<>> /\ so.rows + live <= target
                     THEN [groups |-> Append(Front(so.groups), Append(Last(so.groups), files[i])),
                           rows   |-> so.rows + live]
                     ELSE [groups |-> Append(so.groups, <<files[i]>>), rows |-> live]
    IN  pack[Len(files)].groups

\* Faulty variant: a group of one file is rewritten too.
EveryGroup(s, group) == TRUE

\* A group of one file with no deletes would be rewritten unchanged.
WorthRewriting(s, group) == Len(group) > 1 \/ DeletesFor(s, group[1]) # {}

PlanCompaction(s, target, small) ==
    LET groups == Pack(s, ByMinKey(Candidates(s, small)), target)
    IN  Keeping(groups, {g \in ToSet(groups) : WorthRewriting(s, g)})

RowsOut(s, group) == SumFunction([n \in DOMAIN group |-> LiveRows(s, group[n])])

\* compaction_cost: whether `after` is what carrying out `plan` makes of `before`.
CompactionAdds(before, after, plan) ==
    LET dropped == Paths(before.data_files) \ Paths(after.data_files)
        planned == FlattenSeq(plan)
        outputs == {f \in after.data_files : f.path \notin Paths(before.data_files)}
    IN  /\ Paths(ToSet(planned)) = dropped /\ Len(planned) = Cardinality(dropped)
        /\ SumFunction([f \in outputs |-> f.record_count])
             = SumFunction([g \in DOMAIN plan |-> RowsOut(before, plan[g])])

(***************************************************************************)
(* The writer                                                              *)
(***************************************************************************)
\* Files are numbered as they are written, and never written again.
NewPath == Cardinality(DOMAIN objects) + 1
Write(contents) ==
    objects' = [p \in DOMAIN objects \cup (NewPath .. NewPath + Len(contents) - 1) |->
                   IF p < NewPath THEN objects[p] ELSE contents[p - NewPath + 1]]

Commit(snapshot, orders) ==
    /\ Len(snapshots) < MaxSnapshots
    /\ snapshots' = Append(snapshots, snapshot)
    /\ rows' = Append(rows, orders)

Init ==
    /\ objects = Base
    /\ snapshots = <<[data_files   |-> {DataFile(i, Base[i]) : i \in DOMAIN Base},
                      delete_files |-> {}]>>
    /\ rows = <<ToSet(FlattenSeq(Base))>>

CopyInPlaceOf(fs, f, rest) == (fs \ {f}) \cup {DataFile(NewPath, rest)}

\* The file that holds an order, in a snapshot.
Holder(s, order) == CHOOSE f \in s.data_files : order \in ToSet(objects[f.path])

\* An order is deleted by rewriting its file without it.  (A file of no rows has no smallest
\* order: the writer cannot write one.)
CopyOnWrite(i, order) ==
    LET s    == snapshots[i]
        f    == Holder(s, order)
        rest == Keeping(objects[f.path], ToSet(objects[f.path]) \ {order})
    IN  /\ s.delete_files = {}
        /\ order \in rows[i]
        /\ rest # <<>>
        /\ Write(<<rest>>)
        /\ Commit([s EXCEPT !.data_files = CopyInPlaceOf(@, f, rest)], rows[i] \ {order})

\* Faulty variant: the position is counted among the rows that are left.
PositionAmongLive(s, f, order) ==
    LET gone == {p[2] : p \in PositionDeletes(DeletesFor(s, f))}
        at   == CHOOSE at \in DOMAIN objects[f.path] : objects[f.path][at] = order
    IN  at - Cardinality({p \in gone : p < at})

\* An order's position is counted in the file as it was written.
PositionOf(s, f, order) == CHOOSE at \in DOMAIN objects[f.path] : objects[f.path][at] = order

\* An order is deleted by writing a file that names it.
MergeOnRead(i, order) ==
    LET s == snapshots[i]
        f == Holder(s, order)
    IN  /\ order \in rows[i]
        /\ Write(<< << <<f.path, PositionOf(s, f, order)>> >> >>)
        /\ Commit([s EXCEPT !.delete_files = @ \cup {DeleteFile(NewPath, f.path)}], rows[i] \ {order})

\* New orders follow every order there ever was, in a file of their own.
DataPaths == UNION {Paths(snapshots[i].data_files) : i \in DOMAIN snapshots}
AppendOrders(i) ==
    LET s     == snapshots[i]
        last  == Max(UNION {ToSet(objects[p]) : p \in DataPaths})
        batch == [n \in 1 .. Batch |-> last + n]
    IN  /\ Write(<<batch>>)
        /\ Commit([s EXCEPT !.data_files = @ \cup {DataFile(NewPath, batch)}],
                  rows[i] \cup ToSet(batch))

\* The live orders of a group's files, one file after another.
LiveOrders(s, f) == {OrderAt(at) : at \in Positions(f) \ PositionDeletes(s.delete_files)}
Merged(s, group) ==
    FlattenSeq([n \in DOMAIN group |-> Keeping(objects[group[n].path], LiveOrders(s, group[n]))])

\* A plan is carried out: each group becomes one file, and no delete file is left.
Compacted(s, files, plan) ==
    [data_files   |-> (s.data_files \ ToSet(FlattenSeq(plan)))
                         \cup {DataFile(NewPath + g - 1, files[g]) : g \in DOMAIN plan},
     delete_files |-> {}]

Compact(i, target, small) ==
    LET s     == snapshots[i]
        plan  == PlanCompaction(s, target, small)
        files == [g \in DOMAIN plan |-> Merged(s, plan[g])]
    IN  /\ plan # <<>>
        /\ \A g \in DOMAIN plan : files[g] # <<>>
        /\ Write(files)
        /\ Commit(Compacted(s, files, plan), rows[i])

Orders == UNION {rows[i] : i \in DOMAIN rows}

Next ==
    \E i \in {1, Len(snapshots)} :
        \/ \E order \in Orders : CopyOnWrite(i, order)
        \/ \E order \in Orders : MergeOnRead(i, order)
        \/ AppendOrders(i)
        \/ \E target \in Targets, small \in Smalls : Compact(i, target, small)

Spec == Init /\ [][Next]_vars

(***************************************************************************)
(* The inductive invariant                                                 *)
(***************************************************************************)
\* A data file of the manifest is one that was written: some orders, none of them twice.
WrittenData(f) ==
    /\ f.path \in DOMAIN objects
    /\ objects[f.path] \in Seq(Nat) \ {<<>>}
    /\ IsInjective(objects[f.path])
    /\ f = DataFile(f.path, objects[f.path])

\* A delete file of the manifest is one that was written, and names a position of one of the
\* snapshot's data files.
WrittenDelete(s, d) ==
    /\ d.path \in DOMAIN objects
    /\ d = DeleteFile(d.path, d.data_file)
    /\ \E f \in s.data_files, pos \in DOMAIN objects[d.data_file] :
          f.path = d.data_file /\ objects[d.path] = << <<d.data_file, pos>> >>

\* No order is in two of a snapshot's data files, and no position in two of its delete files.
SnapshotIsSound(s, orders) ==
    /\ s = [data_files |-> s.data_files, delete_files |-> s.delete_files]
    /\ IsFiniteSet(s.data_files) /\ IsFiniteSet(s.delete_files)
    /\ \A f \in s.data_files : WrittenData(f)
    /\ \A f, g \in s.data_files :
          f # g => ToSet(objects[f.path]) \cap ToSet(objects[g.path]) = {}
    /\ \A d \in s.delete_files : WrittenDelete(s, d)
    /\ \A d, e \in s.delete_files : objects[d.path] = objects[e.path] => d = e
    /\ orders = ScanTable(s).orders

TableIInv ==
    /\ IsFiniteSet(DOMAIN objects) /\ DOMAIN objects = 1 .. Cardinality(DOMAIN objects)
    /\ snapshots \in Seq(ToSet(snapshots)) \ {<<>>}
    /\ rows \in Seq(ToSet(rows)) /\ Len(rows) = Len(snapshots)
    /\ \A i \in DOMAIN snapshots : SnapshotIsSound(snapshots[i], rows[i])
    /\ DataPaths # {}

(***************************************************************************)
(* Properties                                                              *)
(***************************************************************************)
\* "Every snapshot here stays readable" (chapters/changing_a_table.md): whatever was
\* rewritten, deleted, appended and compacted since, scanning a snapshot gives each of its
\* orders once, and its own counts say how many those are.
EverySnapshotStaysExact ==
    \A i \in DOMAIN snapshots :
        LET s    == snapshots[i]
            scan == ScanTable(s)
        IN  /\ scan.orders = rows[i]
            /\ scan.live_rows = Cardinality(rows[i])
            /\ scan.live_rows = SumFunction([f \in s.data_files |-> LiveRows(s, f)])

\* A lookup opens enough: it finds an order, not deleted, in exactly the snapshots that hold
\* it, though it reads only the files whose range holds it and the delete files naming them.
LookupFindsLiveOrders ==
    \A i \in DOMAIN snapshots, order \in Orders :
        LET got == Lookup(snapshots[i], order)
        IN  order \in rows[i] <=> got.found # Nowhere /\ ~got.deleted

\* A plan's groups stay within the target, unless one file alone is beyond it, and rewrite
\* every file that has deletes: none may be left when the delete files are dropped.
PlanFits ==
    \A target \in Targets, small \in Smalls :
        LET s    == Last(snapshots)
            plan == PlanCompaction(s, target, small)
        IN  /\ \A g \in DOMAIN plan : Len(plan[g]) > 1 => RowsOut(s, plan[g]) <= target
            /\ \A f \in s.data_files : DeletesFor(s, f) # {} => f \in ToSet(FlattenSeq(plan))

\* A compaction adds up by compaction_cost's own checks, and leaves a scan fewer files to
\* fetch: compacting again and again comes to an end.
CompactionSettles ==
    [][\A i \in {1, Len(snapshots)}, target \in Targets, small \in Smalls :
          LET before == snapshots[i]
              plan   == PlanCompaction(before, target, small)
              files  == [g \in DOMAIN plan |-> Merged(before, plan[g])]
              after  == Last(snapshots')
          IN  /\ plan # <<>> /\ <<>> \notin {files[g] : g \in DOMAIN plan}
              /\ snapshots' = Append(snapshots, Compacted(before, files, plan))
              => /\ CompactionAdds(before, after, plan)
                 /\ Cardinality(after.data_files)
                      < Cardinality(before.data_files) + Cardinality(before.delete_files)]_vars
=============================================================================
