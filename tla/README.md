# Verification of the Parquet book's reader and pages

This project models in TLA+ what the code of this repository does when it opens, scans, queries
and changes Parquet data (`crates/parquet-lab`), and what a page of the book does when its reader
runs Python or Rust in the browser, or opens, edits and queries a file (`web/lab`,
`crates/parquet-lab-wasm`). TLC checks the models on small instances; TLAPS proves what matters most
about eight of them for every value of the constants. `PROJECT.json` lists
the components, the runs with their properties, a mutant of the code for every property, the map
from definitions to source lines, the hazards each property is for, and the theorems.

Run everything from this directory:

    tlc -workers 2 -config StoreManyConnections.cfg MCTracingStore
    tlapm ReadPathProofs.tla

## 1. Inventory of the system

| Component | Source | State it keeps | Operations | Modelled in |
|---|---|---|---|---|
| Object store and trace | `object_store.rs`, `bytes.rs` | per connection when it is free, start of the phase, the phase, the requests so far | HEAD, GET, LIST, `next_phase`, `elapsed_us` | `TracingStore` |
| Opening a file | `reader.rs`, `format.rs` | what is known of the size, the tail read, the footer's place | `read_footer` | `OpenFile`, `ReadFooter` |
| Skipping data | `prune.rs`, `stats.rs`, `bloom.rs`, `page_index.rs` | none | `plan`, `against_bounds`, `column_read`; comparators, bounds, both indexes, the filter and its hash | `Prune` (in places), `Stats`, `PageIndex`, `Bloom` (in bytes) |
| Scan | `scan.rs` | the bytes held, ranges to fetch, row groups kept | `scan_in` in three phases | `Scan` |
| Changing a table | `changes.rs` | objects and snapshots; deletes by position | scan, lookup, plan and check a compaction | `ChangingTable` |
| Table and SQL engine | `table.rs`, `engine.rs` | the files found, the log's, the rows of the current stage | parse, list, read the log, rule out, fetch, scan to limit | `Sql`, `TableQuery` |
| Python runner of a page | `runner.js`, `python-worker.js`, `pyodide.js` | queue of runs, the run in progress, the worker, cached promises | `runPython`, `stopPython`, `onmessage`, setup | `PythonRunner` |
| Run boxes | `workbench.js`, `commands.js` | idle or waiting, which command, the Rust reader | Run, Stop, `rustReader` | `PythonRunner` |
| Columns | `column.rs`, `pages.rs`, `decode.rs`, `plain.rs`, `rle.rs`, `delta.rs`, `compress.rs`, `nested.rs` | the pages located, the page at hand, the dictionary, the triples; a decompressor's position, output, tokens and codes | `read_column`, `read_column_pages`, `decompress`, `assemble`, `first_rows` | `ByteReader`, `Hybrid`, `Delta`, `Codecs`, `Nested`, `Pages`, `Column` |
| Thrift, metadata, schema | `thrift.rs`, `parquet_thrift.rs`, `metadata.rs`, `schema.rs`, `logical.rs`, `crypto.rs` | none: bytes to trees | `read_struct`, `decode_file_metadata`, `build`, `leaves`, the tables of names: pure functions | `Thrift`, `ParquetThrift`, `Metadata`, `Schema` |
| Map of a file, byte inspector | `report.rs`, `inspector.js` | none | `structure`, `region_at`, the readings of a byte | `Structure`; all of the above against each other in `Anatomy` |
| Labs | `lab.js`, `footer.js`, `scan.js` | per panel: the file's id, its bytes, what is drawn, the form; cached fetches | mount, choose, select, edit, restore, ask | `LabPage` |
| WebAssembly bindings | `parquet-lab-wasm/src/lib.rs`, `wasm.js` | the files loaded, the borrow of them | `pl_load`, `pl_set_byte`, `pl_structure`, `pl_interpret`, `pl_scan` | `LabPage` |
| Python twin, `pqlab`, book build, trial page, exercises | `python/`, `crates/pqlab`, ... | | | not modelled (section 8) |

How they interact. Every reader of the Rust crate asks for bytes through one `TracingStore`;
`read_footer`, `scan_in` and `query` decide which requests to make and when a request must wait
for the answer to an earlier one (`next_phase`). `scan_in` asks `prune::plan` what to skip;
`query` hands the files it fetched to the engine, which uses the same `prune` on row groups. A
page's boxes call `runPython`, which shares one Web Worker; messages, an error event, a fetch and
a click are the only ways they meet. A page's labs share one WebAssembly module, which keeps every
file loaded for good and lends them all to one call at a time.

What is hard about them, and what makes each correct:

* **Store.** Several connections end requests out of order. A connection must carry one request at
  a time; a phase must wait for the *last to end*, not the last issued; no connection may idle
  while a request waits; the trace must never be revised.
* **Opening a file.** A size from elsewhere may be wrong, the prefetch may be shorter than a
  trailer, longer than the file, or cut the footer in two. Whatever the requests, the outcome must
  be the one that the whole file gives.
* **Skipping and scanning.** A skip must be certain: it loses rows silently otherwise. The reader
  decodes from a copy of the file that is zeros where nothing was fetched, so phase 2 and the plan
  must agree on every index, and phase 3 and the decoder on every page.
* **Columns.** A page says the same thing in many ways: runs, packed bits, deltas, indices, three
  codecs, two page versions; rows run across pages; a null slot holds no value. What comes back must
  be what was written, each value with the file bytes it came from; damage must not go unnoticed. A
  footer has fields nobody here knows, in several notations, and each must be stepped over exactly.
* **Changing a table.** A delete names a position in a file as it was written; a compaction drops
  every delete file and so must rewrite every file that has deletes.
* **Table and engine.** A condition is decided up to three times (path or log, row group
  statistics, filter) by different code. Ways of finding files must change the cost alone.
* **Map and names.** The map of a file, the column reader, the page index, the Bloom filter and the
  statistics each read the same bytes with code of their own, and the tables of names are copied by
  hand from `parquet.thrift`: what one says the others must bear out.
* **Labs.** Fetches of two choices end in any order, a query may be changed before its file has come,
  and a byte may be changed under a panel; what a panel shows must be its own file, as it is. A call
  that traps never gives the files back.
* **Runner and boxes.** Stop races the worker's answer; runs of several boxes and of several
  commands of one box share a queue; a failed fetch is remembered by a promise; a worker may be
  dead, and Python may die or never end.

## 2. Modules

    Integers, Sequences, ...                           OpenFile (abstract)
            |                                             ^ INSTANCE, refined by
      TracingStore ------------------+-------------- ReadFooter
            |                        |
            |   Prune ---------+-----+---- Scan
            |                  |
            +------------------+---------- TableQuery
      ChangingTable            PythonRunner

      ByteReader --+-- Hybrid --+-- Codecs ----+
                   |            +-- Delta -----+
                   +-- Thrift --+              +-- Column   (INSTANCE OpenFile, for the trailer)
                 ParquetThrift -+- Metadata ---+      |
                                  |  Nested, Schema, Pages
                                  +-- Stats ----------+-- Anatomy -- MCColumn
                                  +-- PageIndex, Bloom -- Structure --+

      LabPage (MCLab: INSTANCE MCColumn, for what the reader makes of some bytes)

      DataProofs (sums, induction over sets): EXTENDED by the next two
      ReadPathProofs EXTENDS TracingStore, Prune;  ChangingTableProofs EXTENDS ChangingTable
      PythonRunnerProofs EXTENDS PythonRunner
      ReadFooterProofs EXTENDS ReadFooter, ReadPathProofs
      LabPageProofs EXTENDS LabPage;  ScanProofs EXTENDS Scan, ReadPathProofs
      TableQueryProofs EXTENDS TableQuery, ReadPathProofs
      TableQuery EXTENDS Sql, which EXTENDS Prune;  it and ChangingTable EXTEND Filtering
      MC* EXTENDS the module it instantiates

**TracingStore** (`object_store.rs`). `free_at`, `phase_start`, `phase` and `requests` are the
fields of the same names; an object is its size and an answer a span of offsets, since nothing here
depends on bytes. `Record` is `record` whole: choose the first free connection (ties to the lowest),
start when it and the phase allow, add the cost, append to the trace. `Head_`, `Get`, `List` and
`NextPhase` are the calls. Time is simulated in the code, so it is a number computed by the action.

**OpenFile / ReadFooter** (`format.rs`, `reader.rs`). `OpenFile` is the abstract specification: one
step from pending to what somebody holding the whole file would say (`WholeFile`) or, told a wrong
size, somebody looking where the end would then be (`LookingAt`, of what is `Taken`). Its bytes are real: `Locate` computes the little-endian length and compares the magic. `ReadFooter` extends
`TracingStore` and has one action for each stretch of `read_footer` between requests; every `?` is a
`Return`, and a slice past the end is the outcome `panic`. Sizes a caller passes may be off by
`Drift`. `ImplementsOpenFile` is the refinement (with `key` and `outcome` mapped to themselves).

**Prune / Scan** (`prune.rs`, `stats.rs`, `page_index.rs`, `bloom.rs`, `scan.rs`). A value stands for
its PLAIN bytes and `Place` for the column's order: two values may have one place (-0.0 and 0.0) and
a value none (NaN). A Bloom filter is the set of values it cannot rule out, false positives
included. `Scan` walks through `scan_in`: the tail and the rest of the footer, the indexes wanted
(`GroupIndexes`), `coalesce` and `missing` (`Requests`), the plan, the data, and decoding. `have` is
`Fetched`: the offsets held. A plan that consults an index not held, or a page not held, fails.

**ByteReader, Hybrid, Delta, Nested** (`bytes.rs`, `rle.rs`, `delta.rs`, `nested.rs`) are operators: a
read returns a value and the position after it, or an error, and `Try` is Rust's `?`. Loops are
recursion, so nothing is proved about these modules. **Codecs** (`compress.rs`) is a state machine
whose steps are the codecs' tokens: an element of Snappy, a sequence of LZ4, a block header or a
Huffman symbol of DEFLATE; `pos` counts bits. **Column** (`column.rs`, `pages.rs`, `decode.rs`,
`plain.rs`) composes them: `Open` is what `levels` of `report.rs` does before `read_column`, `Locate`
what `read_column` and `read_column_pages` do before `decode_pages`; `BeginPage`, `DictionaryPage`,
`ReadLevels` and `ReadValues` are the parts of its loop between the calls of `decompress`, whose steps
are those of `Codecs`. The file is its bytes, footer and page headers included. `Scan` takes a page for
its values and does not use `Column`: `decode` of `scan.rs` calls it for each chunk, after everything
was fetched.

**Thrift, ParquetThrift, Metadata, Schema, Pages** are operators too. `ReadStruct` decodes a struct
without a schema into its fields' ids and nodes, each with the span it came from; `ReadFields`,
`ReadValue` and `ReadElements` are its loop, its `match` and `read_element`. `FileMetaData` and
`PageHeader` take from a decoded struct what a reader needs, by the ids in the code, and fail where the
code does: a required field (`Has`, `Req`) that is missing or of another type, bytes after the struct
that no signature explains. An optional value is a sequence of at most one. `Build` rebuilds the tree
and `Leaves` walks it. `ParquetThrift` is the table of names, which only the map consults.

**Stats, PageIndex, Bloom** (`stats.rs`, `page_index.rs`, `bloom.rs`) work on bytes. A comparator
chosen for a column gives a value its place, a sequence of numbers (a float's signed distance
from zero, a decimal's big-endian two's complement, a text's bytes), or none (NaN, `INT96`, a value of
the wrong length); `BoundsOf` believes a statistic only where the code does. `Bloom` is xxHash64 and the blocks over lists of bytes, least significant
first, so that nothing overflows TLC's integers.

**Structure** (`report.rs`, `crypto.rs`) is the map of a file: nested regions, down to Thrift fields
with names and enum values; plain, signed and encrypted footers. **Anatomy** extends `Column`,
`Structure` and `Stats` and has no state of its own: its properties set what each of them says of a
file against the others.

**ChangingTable** (`changes.rs`; writer `fixtures/generate.py`). `objects` are data files (their
orders) and delete files (file and position), never overwritten; `snapshots` are all versions;
`rows` is history: the orders each version is to hold. The writer's fixed sequence of transactions is
generalised: copy-on-write, merge-on-read, append and compaction in any order, on the newest version
or the first; it gives each order an id of its own, as `generate.py` does. A compaction carries out `PlanCompaction`, which is `plan_compaction`.

**Sql / TableQuery** (`table.rs`, `engine.rs`). `pc` follows `query`: parse, list the directory or read
and replay the log, rule files out, fetch, then scan, filter, aggregate or project, sort, limit. `Sql`
is `parse`: a descent over tokens whose errors are those of the code. Each query of a run is its
tokens with what they are meant to ask, written down apart, so the parser is part of what the answer
checks. `Filtering` has the one operator on sequences it shares with `ChangingTable`. `AskAgain` asks the same query with the next way of finding files, over a fresh store, so that
`answers` holds all three.

**LabPage** (`lab.js`, `footer.js`, `scan.js`, `lib.rs`, `wasm.js`). An action is one task of the page:
a fetch that answers, a choice, a click; what a settled promise wakes (`Resume`) runs before the next
task (`Quiet`). A call of the module (`Load`, `Refresh`, `Scan`, `WithByte`) is an operator that gives
the files and the panel's view after it, whether the files are still borrowed, and whether it trapped.
`Outcome` is what the reader makes of some bytes: in `MCLab` an ASSUME shows that it is what
`Structure` says of the file these bytes stand for, so that the byte that makes the reader panic is
one that does.

**PythonRunner** (`runner.js`, `python-worker.js`, `pyodide.js`, `commands.js`, `workbench.js`). A
JavaScript task runs to its end with the promise reactions it causes, so an action is one event: a
click, a message, a fetch that answers. `jobs` is every `runPython` call in order; the chain of
promises `queue` is the order of `jobs`; `current` and `worker` are the variables of `runner.js`; the
worker record has the callbacks installed (`settles`), both message queues, and the script's own
state, with `ready` and the cached promise `manifest`. `Settle` is what the end of a run does to its
box, in the same task: the next command of the block, or idle.

## 3. Runs

Every run is exhaustive over its instance. `CHECK_DEADLOCK FALSE` stands where the system really
stops: a read returns, a bounded number of clicks, requests or snapshots is used up.

| Run | Instance and bounds | What it shows |
|---|---|---|
| `store` | 1 object of 5 bytes and an absent key, 3 ranges (cut, suffix, long suffix), 2 connections, 4 requests, 2 phases; transfer time rounds up | One request at a time on a connection, phases as barriers, starts in order, no idle connection, elapsed between the parallel and the sequential sum, the trace append-only |
| `footer` | 13 keys (none there, empty, 4, 11 and 12 bytes, footers of 0 to 6 bytes, data or a footer that looks like a trailer, encrypted, foreign, lying, with bytes appended), 3 sources of the size, sizes told right or wrong by -30 to 20, 7 prefetches around every boundary, 2 connections | `ReadFooter` ends as looking at the whole file does or, told a wrong size, as looking where its end would then be; it fetches no byte twice and no more than it must; requests wait for the answers they need |
| `scan` | 3 files (all metadata, a middle row group ruled out, little or untrusted metadata), 29 queries, 8 sets of mechanisms, 4 gaps (none, 0, 3, all), 3 prefetches, whole chunks | Rows equal a full read; nothing decoded that was not fetched; no byte twice; gaps are the only waste; merging never costs a request |
| `scan_zeros` | a column of floats with -0.0 | **Violated**, finding 3 |
| `column` | 1459 files (13 000 states): 8 nested shapes with up to 3 records, each type, logical type and encoding, 3 codecs, 3 ways of writing each, 2 page versions, pages of 1, 2, 4 and 20 slots, all pages or some; statistics, page indexes and Bloom filters; encrypted pages and signed footers; a column before it or a row group before its own; 20 kinds of damage, one of them any of 75 hurt fields of footers and page headers | What was written comes back, in records too; spans hold their values; damage is noticed; the tokens of a decompression account for every byte. The map's regions tile the file without gap or overlap, and give what the reader reads the names it has; the page index says of a page what its bytes say; no statistic, index or filter rules out a value that is there |
| `changing_table` | files of 1, 2 and 2 orders, batches of 1, 2 targets and 2 thresholds, 5 snapshots | 54 000 states. Every snapshot stays exact, lookups open enough, plans fit, a compaction adds up and leaves a scan fewer files to fetch |
| `table` | 4 tables (log in step; files removed, re-added and still stored; a lost file; no log), some 40 queries in SQL and 30 texts that are none, 3 ways of finding files | The answer is exactly the one the SQL asks for, and an error for what is no query; the ways of finding files change the cost alone |
| `table_flaws` | two queries | **Violated**, findings 4 and 5 |
| `runner_page` | a workbench, a block of three commands (Python, Rust, Python), a step without Stop; 3 clicks on Run, any number on Stop, any outages | Order, one at a time, Stop finds the run, answers reach their run, boxes wait for their own, only the run in progress settles, every run settles |
| `runner_retry` | two boxes, 2 clicks | **Violated**, finding 1 |
| `lab` | a view and a query over two files, 2 choices, 2 of 3 edits (harmless, refused, panic), fetches and a reader that may fail | 47 000 states. Unless a call trapped, each panel shows its own file as it is, whatever is edited in another and however answers come; every choice settles |
| `lab_panic` | the same | **Violated**, finding 6 |

Why the bounds are enough. *Store*: two connections and four requests let one end before or after an
earlier one on the other, wait for either, and cross a phase; the proofs remove the bounds.
*Footer*: prefetches lie below, at and above a trailer, each footer, and each file. *Scan*: ranges
touch, overlap, or are apart by each gap's limit; pages of both columns have different boundaries;
each statistic, filter and index is present, absent or unusable somewhere. *Column*: pages of one or two slots cut every list;
values lie at the edges of their type (an `INT32` is `IntBytes` = 1 byte and an `i64` `LongBits` = 16
bits, so that deltas wrap); texts repeat themselves near, far and inside a copy; footers hold fields of
every wire type in both notations and both orders, and nest exactly as deep as may be, or once more. The writer is in
`MCColumn` and shares with the reader only the levels of a path, the names of enum values and the
sizes of integers. A file whose plan differs from another's only in the pages asked for has its map
checked once (`Mapped`). A real zlib stream with dynamic codes was also decoded while the model was written. *Changing table*: five
versions allow two deletes in one file, a compaction, and a delete or append after it; the proofs remove
the bounds. *Table*: a
column of nulls, a partition with several files, a partition with none, row groups skipped inside a
file kept; every clause of a query losing each of its words. *Runner*: three runs can be in the queue; Stop is unbounded. *Lab*: two choices
can overtake each other, two edits make and undo a change or follow a trap; the proof removes these
bounds. `MaxClicks`, `MaxRequests`, `MaxPhase`, `MaxSnapshots`, `MaxChoices` and `MaxEdits` are the
bounds on counters, in the guards.

Every property has a mutant in PROJECT.json: a variant of one mapped operator (named in the module as
a *faulty variant*, just before the operator) under which TLC finds the property violated.

## 4. Fairness

`runner_page` assumes weak fairness of `WorkerStep` and `RustStep`: the browser's event loops
deliver messages and errors, and a fetch answers, well or not. Nothing is assumed of clicks, of the
network coming back, or of Python ending: `RunPython` may choose `forever`, and `EveryRunSettles`
excepts exactly that and a dead worker, which only Stop resolves. `ReadFooter` and `Scan` assume weak
fairness of their steps: a synchronous function on its caller's thread makes its next call.
`LabPage` assumes it of `ReaderSettles`, `Mount`, `SomeFetchSettles` and `Resume`: fetches answer or
fail and woken promises run; nothing of what a reader of the page does.
`ChangingTable`, `TableQuery`, `Column` and the store state no liveness and assume none.

## 5. Findings

1. `runner_retry`: "a run that failed to start ... is tried afresh next time" (`python-worker.js:149`),
   but a failed fetch of the list of Python files is kept as a rejected promise (`pyodide.js:27`).
2. The same sentence fails in a second way, which no run is spent on: when the worker's script cannot
   be loaded, `worker` keeps naming the dead Worker (`runner.js:35`) and the next run is never answered.
   `EveryRunSettles` has to except such runs.
3. `scan_zeros`: a Bloom filter probed with the bytes of 0.0 rules out a row group that holds -0.0,
   which compares equal (`prune.rs:426`): a skip that is not certain.
4. `table_flaws`: `IS NOT NULL` on a partition column keeps no row (`engine.rs:756`,
   `prune.rs:63`), though the planner keeps every file for it.
5. `table_flaws`, the other query: `SELECT * ... ORDER BY c` is an error when the paths rule out every file, and
   an empty answer when files are found another way (`table.rs:355`).
6. `lab_panic`: "every panel is recomputed from the damaged file" (`inspector.js:7`), but a byte that
   makes the reader panic ends the call with the module's files borrowed (`lib.rs:54`): no panel of the
   page is recomputed again, and no file loaded, until the page is.

Findings 4 and 5 were reproduced with the repository's Python twin over its table fixture.

Met while `CompactionSettles` was being proved: "Nothing is left to plan once the table is compacted"
(`tests/fixtures.rs:1420`) is true of the table of that test, and of every table of the run, but not
of every table. With files of 1, 4 and 1 orders, one of the 4 deleted, a target of 3 rows and files under
2 rows small, the file between the two small ones keeps them apart: it alone is rewritten, is clean and
not small after that, and the two are merged by the next plan. No document promises otherwise of all
tables, so the property says what is true of all: each compaction leaves a scan fewer files to fetch,
so that compacting again and again ends.

Disagreements met in the decoders, read in the code and not yet stated by a run:

* `column.rs:29-31` says the spans of a compressed page are those of the compressed block that holds the
  value. For a dictionary-encoded value `blur` (`column.rs:315`) replaces the dictionary page's block,
  which holds it, by the data page's, which holds its index. `SpansHoldTheirValues` states what the
  code does.
* `delta.rs:38-39` says the page's count and the header's must agree; `decode.rs:138` checks that for
  `DELTA_BINARY_PACKED` alone, and the two byte-array encodings ignore values past the page's count.
* A gzip member whose optional fields reach past its end makes `compress.rs:340` panic, where every
  other malformed stream is an error: stage `panicked`. So do a row group with fewer chunks than the
  schema has leaves (`report.rs:989`) and a `FIXED_LEN_BYTE_ARRAY` without a length in
  `BYTE_STREAM_SPLIT` (`decode.rs:195`): pc `panicked`.
* A page header without its number of values reads as a page of none (`column.rs:227`): the one
  damage met that is not noticed, and so not among those of the run.

Behaviour seen on the way that no document promises otherwise, and that the models therefore have:
Stop in a box whose run is queued, or whose Rust command is running, stops another box's run; after
Python inside the worker dies, every later run fails until the page is reloaded; a null partition
value in the log is read as the empty text; a path added twice without a remove is listed twice (the
table of the run removes it first); an unknown column in `WHERE` is not reported when no file is
read. `bytes_planned` counts the index and data phases, not the footer.

## 6. Proofs

`ReadPathProofs` is about the store and about pruning. Of the store it assumes only `StoreAssumption`: finite objects with sizes in Nat, ranges of the
declared kind, Connections, Latency and Bandwidth any naturals (0 connections are 1, 0 bandwidth is
unlimited), and any bounds. The properties are not inductive by themselves: that a new request does
not overlap another on its connection needs to know what `free_at` has to do with the trace. The
invariant `StoreIInv` adds

* `FreeAtIsLastEnd`: `free_at[c]` is 0 or the end of a request on c, and none on c ends later;
* `PhaseStartIsLastEnd`: the same of `phase_start` and the earlier phases;
* `StartsCovered`: whatever connection comes next, it starts no sooner than any request so far;
* `WellTimed`, and `HasLastEnd`: the ends have a largest, so `Elapsed`'s CHOOSE means something.

Each is preserved by `Record` and by `NextPhase`, one lemma per conjunct. Proved from it:
`StoreTypes`, `ConnectionsCarryOneRequest`, `PhasesAreBarriers`, `RequestsStartInOrder`,
`ConnectionsAreNotIdle`, `OneConnectionRunsInSequence`, and the action property `TracesOnlyGrow`.

`ElapsedBounds` compares simulated time with a sum over the whole trace, and needs to know where the
time of a connection went. `TimeIInv` adds `CostsFit`: all requests together cost no more than the sum of
the times at which the connections are free again, as a request starts no sooner than its connection
is free. The other half, that time is at most the sequential sum, is inductive because a request starts no
later than the trace ends. Proved: `TimeIsBounded`.

`DataProofs` is what these proofs and the next need of sums, least and greatest numbers, ranks and
sequences. The provers cannot instantiate a theorem that takes an operator, so an induction is stated over
a set: `NumberInduction` and `SetInduction` say that a set `Good` with what an induction shows has every
natural number, or every finite set; a proof defines its own `Good`. `RecursionExists` gives the function
that a recursion over 0 .. n defines, for any set of values the step stays in, which is what the
recursive functions of a model (`Pack`, `Keeping`, `FlattenSeq`) are then shown to be. Sums are those of the
community modules (`SumFunction`), whose definition chooses an order of the summands; `SumTakes` shows that the
order does not matter.

`ReadFooterProofs` extends `ReadPathProofs` and assumes `ReaderAssumption`: objects are any
sequences of bytes, prefetches any naturals, told sizes off by anything that leaves them naturals.
`ReaderIInv` joins `StoreIInv` with what `read_footer` knows between its requests: the size it goes by
is the one told (`SizeIsTold`); the tail is `Taken`, the bytes one going by that size takes for the
end (`TailIsTaken`); a footer still to be fetched is where the trailer says (`FooterIsLocated`); each
request is of a later phase than those before (`OnePhaseEach`); one GET was made so far
(`OneGetSoFar`). `OutcomeOfTail` and `MissingAnswer` say what is to come of a tail, `PartsMeet` that the
two parts of a footer join. Proved: `ReadingIsOpening`, the safety of the refinement;
`HonestSizesOpenFiles`; `RequestsOfAReadNeverOverlap` (from `PhaseBarrier` of the store) and
`NoMoreIsFetched`. The proof corrected the model: `OpenFile` used to promise that a reader told a wrong
size fails rather than takes other bytes for the footer, which held of the files checked then, and is
false of files with something like a trailer within eight bytes of their end (`appended`, `doubled`).

`PythonRunnerProofs` assumes `RunnerAssumption`: finitely many boxes, each with at least one command.
`RunnerIInv` ties three actors that the properties look at one by one:

* `QueueIsSplit`: runs before `current` have settled, those after it wait (all have settled when it
  is 0). This is what makes "the one before it has settled" enough to begin a run.
* `WorkerHasTheRun`: a worker that can answer has the run in progress, in its inbox or in hand, and
  nothing else; with none in progress it has nothing at all. So a new run may be posted to it, and an
  answer cannot be stale. A dead worker is excepted; a stopped one is gone with its queues.
* `BoxesHaveOneRun`: a box waits for Python exactly while one run of its own is unsettled.

Posting (`PostGivesTheRun`), beginning the next run (`StartOnQueues`), asking (`AskQueues`) and
settling (`SettleKeeps`) are lemmas; each action then has one of its own. Proved: `RunnerTypes`,
`RunsGoInOrder`, `StopFindsTheRunAlways`, `AnswersReachTheirRun`, `BoxesWaitForTheirRun`, and the
action property `TheCurrentRunSettles`: there each operation has a lemma saying which runs it settles
(none, or the current one). Both invariants were checked with TLC before they were proved.

`LabPageProofs` assumes `LabAssumption`: any panels, fixtures, edits and bounds, and any `Outcome` at
all of reading some bytes. That what a panel shows is its file is not inductive: another panel's edit
could change it. The invariant `LabIInv` adds `FilesAreOwned` (a panel's file is one that was loaded,
and no two panels have one in common), that a view's `bytes` and `original` are what was read and what
was fetched, as long as each other (so that restoring what differs gives the fixture back), and that
nothing can be selected before a file is loaded (`Blank`). `KeepsOthers` is what a call of a panel may
do: change its own file, or append one; each call of the module has a lemma that it does no more, and
`CallKeepsInv` is the rest. Proved: `LabInvariant`, `EveryPanelShowsItsFile`.

The second part of `ReadPathProofs` is about `prune.rs` as functions, for any column order whose places are integers, any
file, condition and mechanisms. What must be true of the metadata is stated in `Prune`: `HonestChunk`
(bounds lie on either side of every value that has a place, null counts are right or not recorded, a
filter holds the values) and `LaidOut` (pages lie in their chunk, and their rows in their row group).
TLC checks that both hold of every file of the scan runs (`FilesAreTruthful` in `MCScan`). Proved:
`SkipIsCertain`, that `against_bounds` says "skip" only of values none of which meets the condition;
`EveryMatchIsKept`, that a plan keeps each row that matches; `WhatIsKeptIsRead`, that the pages of the
rows kept and their dictionary are among what it reads. With the Bloom filter on, the second needs
values of one place to be one value, which is what the file of `scan_zeros` lacks: its metadata is
as truthful as the others'.

`ScanProofs` is about `scan.rs`. Its first part is about `missing`, `coalesce` and the
order of the requests they make, for any spans and gap: `RequestsOfAFetch`, that the requests of a fetch
cover what is wanted, bring nothing that is held and do not overlap, although merged ranges span gaps in
which bytes may be held already. The rest assumes `Trusted`: an order of integers; files that are what
their metadata says (`TruthfulFiles`, with `Tiled`: each row is in one page of a column), in objects that
hold them (`FilesInObjects`), and queries about columns they have (`QueriesOfFiles`), all of which
TLC checks of the scan runs' files and queries; and, of strategies that use Bloom filters, that values of
one place are one value. That a scan holds what it decodes is not inductive: what it decodes is decided
by a plan made from indexes fetched two phases before, merged with other spans and cut by what was held
then. `ScanIInv` therefore ties, at every step, what was fetched to what is held (`TraceIsHeld`: held, and
apart from each other), a fetch under way to what it is for (`FetchLacks`, `FetchBrings`,
`FetchedIsHeld`), and the plan to the answer and to what decoding will look at
(`PlanCoversTheAnswer`, `PlanReadsWhatIsDecoded`), and joins `StoreIInv`. TLC checked it before it was
proved. Proved: `ScanInvariant`, `ScansAreExact`, `ScansFetchWhatTheyDecode`, `ScansFetchOnce`.

What a scan costs rests on the same, and on `WasteIInv`. Of the bytes asked for after the footer, answered or
not, those that were planned are counted (`PlannedIsAsked`): a fetch asks for what it lacks, and for the
gaps it merges over as far as they are not held. That cutting what is held out of a merged range never makes more requests
than its ranges were is not a property of one fetch: it needs that no piece left over is a gap alone, with
held bytes on both sides. These would be too near each other: what an earlier fetch left between the bytes
it brought is longer than the gap both merge over, except before the tail (`HeldIsSpread`; `CoalesceFar`,
`CoalesceGap` and `PartsAreWanted` are the lemmas). Each piece then holds one of the ranges that are
separate before merging, and no two pieces the same. `RuledOutIsLeft` adds that nothing of a row group that the
statistics rule out is ever wanted, and needs `GroupsApart`, that no byte is of two row groups, which TLC checks
of the runs' files too. TLC checked both before they were proved. Proved: `WasteInvariant`,
`RuledOutGroupsAreLeft`, `GapsAreAllThatIsWasted` and the action property `MergingNeverAddsRequests`.

`ChangingTableProofs` assumes `TableAssumption`: any first files of at least one order each, no order
twice, any size of batch, and any targets and thresholds. What a snapshot reads back is a matter of positions
counted in files as they were written, of deletes made later, and of files rewritten and dropped since, so
`EverySnapshotStaysExact` says too little of any one of them to be inductive. `TableIInv` says of each
snapshot (`SnapshotIsSound`) that its data files are as written, with counts and ranges that are those of
their orders (`WrittenData`), and have no order in common; that each of its delete files names one position of
one of its data files (`WrittenDelete`), and no two the same; and that a scan gives its orders. Objects are
numbered as they are written and never written again, so that what is true of an older snapshot stays true
(`SoundStays`). Three of the four transactions remake a snapshot in one way, `Remakes`: some files are kept
with all their deletes, the others' live orders or new ones are written to new files; `RemadeIsSound` is
one lemma for them. `MergeOnReadKeeps` needs that the position named is in no other delete file (the order is
live), an append that its orders are new (`LastOrder`), and a compaction that a plan's groups share no
file and hold every file with deletes (`PackFits`, `PlanFacts`), so that dropping the delete files brings
nothing back. TLC checked the
invariant before it was proved. Proved: `TableInvariant`, `SnapshotsStayExact`, `LookupsFindLiveOrders`,
`PlansFit` and the action property `CompactionsSettle`. For the last, `PlanSize` shows that a plan rewrites no fewer files than it
has groups and, of a table without deletes, two for each group; `MergedFacts` and `OutputsAre` that the groups'
files hold their live orders, each once, so that `compaction_cost`'s counts agree.

`TableQueryProofs` assumes two things. `TablesAreTruthful` is about a table's writer: statistics, where
there are any, bound the rows they are about and count their nulls, in a log as in a row group; a log that
adds a stored file has its partition values right; no file is in a table twice; columns are of the
schema or of the paths, not of both. `QueriesAreTokens` is about the lexer: a number token holds a number,
and `*` is not a word. TLC checks both of the runs' tables and queries. The store, the objects in it, the text
of the queries and the way the files are found are any.

The answer says nothing inductive of the stages before it: rows are dropped by a path, a log line, a row
group's statistics and a filter, each with code of its own, and three stages then remake them. `QueryIInv`
says of each stage what is owed there. `TableMet` is the rows of *every* file of the table that every
condition accepts, in order, defined without any ruling out. `FilesAreFound` has the plan and what was
fetched of it; `RowsAreMet` says that the rows scanned are such that filtering them gives `TableMet`,
that those filtered are it, and that those grouped or projected, and then sorted, are what `Shaped` and
`StablySorted` make of it; `NamesFit` that a row's columns are those the result needs, although a scan of
nothing may not know them all; `AnswersAreOwed` that each answer given is `OwedAnswer` of its way of
finding files, and stays so while the next calls are made. The lemmas it rests on:

* `ParseType`: what `Parse` makes of any tokens is a query, whatever the words are.
* `RuledOutFilesMeetNothing`, `ScanKeepsWhatIsMet`: a file that a path or a log rules out, and a row group
  that its statistics rule out, hold no row the filter would keep. `PlansMissNothing` composes them over the files
  and groups that are left: filtering what is scanned gives all that is met.
* `LogColumns` and the lemmas before it: what replaying a log leaves.
* One lemma for each action; failing is allowed only where an answer is not owed (`Failing`).

From the invariant follow two theorems. `DiscoveryOnlyCosts`: where log and directory agree
(`SameFiles`), what is owed does not depend on how files are found, and each way reads no more files than the one
before it (`EachReadsNoMore`). `AnswersAreExact`: what is owed is what the language says. The result
there is a set of rows, under ids, or of groups, under keys; the engine's is a sequence. `Lists` says that one is an
enumeration of the other, each once: of the rows (`TableMetById`, `MatchingIsMet`, `ProjectionLists`) and of the
groups (`GroupKeysAre`, `AggregateIsSummary`, `GroupingLists`); `ListedExactly` that sorting such a list stably and
cutting it to the limit leaves what `Exactly` asks, for which ORDER BY must be a total order on rows
(`LowerOrders`) and every place be taken by one row (`PlacesAreTaken`).

The hypotheses of the two exclude what is false, and no more. `KeysAreKnown` is what finding 5 is about: it
fails only of a query that sorts by a column it names nowhere else, where no file is left to read and no log
gives the columns. `PathsCompare` is finding 4: no `IS NOT NULL` of a partition column. `NoAverages`, since `avg`
is not modelled. `ReadAsMeant` says that the query's text parses to what it is meant to ask, which is an input
of the model: the run checks it of its 40 queries and 30 refusals, and a proof would need a second
definition of the grammar. The proof of `SortKeeps` is where the hypothesis of finding 5 is needed.

Only model-checked: liveness (`EveryRunSettles`, `RustBoxesFinish`, `EveryChoiceSettles`, and the
fairness half of `ImplementsOpenFile`), which is beyond the prover; and all of `Column`, `Codecs` and
`Anatomy`: what they compute is induction over bytes, by operators that are `RECURSIVE`, and tlapm has no
SMT backend where one is declared.

## 7. Plan

Done, in order: 1 `TracingStore` and its proofs; 2 `OpenFile`, `ReadFooter`; 3 `PythonRunner` and its
proofs; 4 `Prune`, `Scan`; 5 `ChangingTable`; 6 `TableQuery`; 7 `ByteReader` to `Column`, then
`Thrift`, `Metadata` and `Schema` under it; 8 `Stats`, `PageIndex`, `Bloom`, `ParquetThrift`, `Structure`
and `Anatomy`; 9 `Sql` before `TableQuery`; 10 `LabPage` and its proofs;
11 the proofs about `Prune`; 12 those about `ReadFooter`; 13 those about `Scan`; 14 `DataProofs`, the
store's times, the proofs about `ChangingTable` and those about what a scan costs; 15 the proofs about
`TableQuery`. Left:

16. The buffers that arguments and answers cross in (`wasm.js`, `pl_alloc` and `pl_free`), as a protocol.
17. `Scan` over `Column`: the pages it fetches decoded from their bytes.
18. The disagreements of section 5 that no run states yet.

## 8. What is not modelled, and why

* How things are written out: a logical type's values, the map's labels, hex and floats in the
  inspector, UTF-8 in names, the steps and labels that decoders keep for display, a file's and a
  column's reports (their numbers are the readers', their words are not modelled).
* The arithmetic of CRC-32 (`Crc32` is a constant operator) and of AES: a sealed part is bytes nobody
  can read.
* Cutting the characters of SQL into tokens; the text of HTTP ranges and of messages; `avg`; overflow of
  `sum` over `i64` (values are places in an order, without a width); percent-decoding of paths; the
  sample of rows each engine stage keeps for display.
* Repeated columns in a scan; the deliberately wrong comparators that one lab shows.
* `MemoryStore::put` and `check_header`: the objects are fixed before a reader starts, and the header
  is looked at only by a report.
* What Python prints, the files it is given, and editing and saving in the workbench.
* The panels that only draw one file (compression, encryption, changes), and the buffers arguments cross
  in to the WebAssembly module.
* `pqlab`, figures and reports (formatting, no state); the Python twin (kept equal to the Rust crate by
  the repository's tests); the book build, fixtures, exercises and walkthroughs (data and prose); the
  Rust trial page (third-party tools).
