# GowDB: a TLA+ verification project

GowDB is an embedded columnar SQL database in Rust. This directory models the
parts of it whose correctness depends on the order in which things happen:
logging, commit, recovery, backup, the life of rows in a table, what a client may
see while another is writing, and how a query is planned and computed in pieces.
TLC checks every model on small instances, and TLAPS proves the theorems listed
below for every value of the constants.

Paths below are relative to the crate (`src/persist/wal.rs` and so on; the
`PROJECT.json` map gives each definition's file and lines; a short helper whose lines
a neighbouring definition's entry already names has no entry of its own).

## 1. Inventory

| component | state it keeps | operations | hard behaviour |
|---|---|---|---|
| write-ahead log (`persist/wal.rs`) | one directory of segments per table; the active file, its header stamp (durable, acked), open staging groups, next sequence number, carried decisions | begin, append (plain or staged), commit, prepare, decide, sync, rewind_to, roll, prune, open, replay_from | a crash between any two of tick, stamp and fsync; a torn tail that must be told from lost data; a failed fsync; a short write; the retention budget |
| transactions (`session.rs`) | the roster of enlisted tables with LSN and group, the poison flag, the fold flag | BEGIN, enlist, COMMIT (single table, two-phase, folding), ROLLBACK, discard, recovery at open | the decision of one log cited by others; rolls dropping decisions; crashes between rewinds |
| table store (`storage/table.rs`, `delta.rs`, `part.rs`) | the write buffer (delta), the published part set with its tombstones and pids, the overlay of the running transaction | insert, bulk insert, delete, sweep, flush, merge, begin/commit/rollback_txn, snapshot, lookups | two generations of one key in two places; copy-on-write of the part set under readers; failed part builds |
| checkpoint (`persist/store.rs`, `writer.rs`) | part files, TABLE records, the CATALOG, the watermark | save_catalog, write_table, atomic_write, collection of dropped tables, load_catalog | a crash between temp file, rename and directory fsync; files cited by an old record |
| backup (`persist/backup.rs`) | an archive of part bodies and a manifest, perhaps on a chain of base archives; the sealed log segments of the source | BACKUP full and incremental, RESTORE, roll forward to an LSN, a time or the latest point | folds, prunes, DDL and crashes between a backup and its roll forward; a restore that dies half way; both edges of the replayed interval |
| connections (`session.rs`: Db, Reader, Writer, Cursor) | the session lock, the published catalog, the transaction owner, streaming cursors | reader and writer calls, cursor fetch, drop, poison | a reader between two publishes; a dead writer's open transaction; lock order |
| worker pool (`common/pool.rs`) | the list of published jobs, per job a claim counter, a helper count and the failures | for_each, map, the worker loop, drop | a job on the caller's stack that other threads can reach; lost wake-ups; nested calls; panics |
| exchange (`exec/operators/exchange.rs`) | none of its own: the granules of a scan, cut into contiguous ranges | build, degree, one shard per range through `pool::map`, fold of the partial results in worker order | a split plan that answers differently from the serial one; one budget and one cancel flag for all shards; a failing shard |
| file format (`persist/format.rs`, `reader.rs`, `mmap.rs`) | part file bytes | encode, decode, checksum | damaged input |
| encodings (`encoding/*`, `common/lane.rs`, `common/zigzag.rs`) | none | frame-of-reference packing, dictionary, LZ4, ordered lanes | widths, sign, overlap at a boundary |
| indexes (`index/mph.rs`, `index/filter.rs`) | the hash of one part, a Bloom filter | build, lookup | false negatives |
| sort (`sort.rs`, `exec/operators/sort.rs`) | a buffer, spilled runs, the heads of a merge | buffer, spill, merge passes, top-k, parallel merge | stability, where the runs are cut |
| SQL front end (`sql/*`) | none | lex, parse | text, left out |
| planner (`planner/*`, the subquery folding of `session.rs`) | scopes and pending references of a block | fold subqueries, bind, optimize, lower | subqueries as joins under three-valued logic; rewrites that change an answer |
| operators (`exec/operators/*`) | per-operator tables, buffers, partitions on disk; one memory and one disk budget per query | scan, filter, project, join, aggregate, window, union, limit, distinct, exchange | block borders, budget refusals in the middle of an input, spilled and re-split partitions, workers, cancellation |
| expressions and aggregates (`exec/expr.rs`, `exec/functions/*`, `types/value.rs`) | accumulator states | comparison kernels, IN, CASE, CAST, hashing; update, merge and finish of an aggregate | several implementations of one comparison; the ends of integer and float ranges; merging of partial states |
| catalog and settings (`catalog.rs`, `settings.rs`, `system.rs`) | tables and views, settings | create, drop, replace, set | name reuse after a drop |
| import, export, CLI (`io.rs`, `main.rs`) | none | CSV, JSON | text formats, left out |

How they interact. A statement takes the session lock, is bound against the
catalog, and, when it writes, appends to each table's log *before* it touches the
table: autocommit statements sync that record, statements of a transaction stage
it under a group. Rows go to the table's delta, the delta becomes a part when it
is full, and parts are merged in the background of a statement. A checkpoint (or
a fold of one table) rolls the log, writes the parts that are not on disk yet, and
renames a TABLE record that names them together with the log position they
cover. Opening the database reads the TABLE records and replays each log from
that position. Readers only ever hold a published snapshot.

## 2. Modules

### Wal, WalProofs

One table's log. A frame is one unit long, so a stream position counts frames;
`body` is the active file as the page cache holds it and `synced`, `phead` say
what of it is certainly on the platter. A call that ends in an fsync is split into
the steps the code performs (`TickStep`, `StampStep`, `Barrier`), because a crash may
fall between any two; every other call is one action. `Tear`, `Floor`, `WalkOk` and
`ReplayOk` are the reading side: `Seg::tear`, `Seg::floor`, `walk_seg` and
`replay_from`. `Recover` is what `load_catalog` and `Wal::open` do with the file, a
refusal being the quarantine of the table. What is abstracted: bytes, checksums
(a damaged frame is recognised; what a damaged *length field* claims is modelled)
and record contents (an identity).

A run explores one of several `Regimes`: which faults happen, how many, and how long
the log may get. `regime` never changes after the initial state.

* `wal`: one kill or power loss at any step over a longer log, two over a shorter one, or
  two faults of any other kind (holes, a failed fsync, a short write, damage at rest).
  An honest crash is never reported as corruption (`NoFalseAlarm`), a log that opens
  has lost no acknowledged record (`NoSilentLoss`; under damage it may refuse instead),
  and an idle log has no open group, so that it can be folded (`FoldableWhenIdle`,
  except after a short write, see section 5).
* `log_flaws` (violation): three histories, of one log or of the logs of a transaction,
  after which a recovery is not what `wal.rs` says; the last state lists them in `wrong`.
  A stamp whose bytes a power loss took becomes a floor (`stamp_becomes_floor`); a process
  that finds nothing dirty seals a tail only a page cache holds (`sealed_without_fsync`);
  and `may_be_cited` looks at the siblings' active segments only, so that a kill between a
  participant's roll and its TABLE commit lets the coordinator's next roll drop a decision
  that is still cited (`decision_dropped`).

`NoFalseAlarm` has one exception, which the proof found: `Wal::open` may take over a log
whose stamp, or bytes below it, no fsync has covered. The history variable `adopted`
records it, and the first two histories of `log_flaws` are what follows.

Bounds: three records and two faults are enough for a record, a tick, a second
group and a torn tail in one segment, a roll in between, and a second crash in the
middle of the recovery of the first one. `MaxSegments = 2` makes rolls prune; `Budget`
is larger than one segment, as the default of the code is (section 5 says what happens
with a smaller one).

The proofs (`WalProofs`, every regime and every bound). `FoldableWhenIdle` needs which step
each call can be at and that only one group is ever open (`CallOK`, `GroupsOK`).
`NoFalseAlarm` rests on what the two stamps mean on a disk that keeps what it
acknowledged: everything below `acked` is on the platter, at each of the steps a call is
split into; a running transaction's mark is at or above both stamps, so that its rewind
never cuts below them; and a sealed segment is whole, on the platter, and ends where the
next one begins (`SealedOK`). A walk that stops where the platter ends then stops at or
above the floor, and the replay finds its successor. Each conjunct is lost for good once
`adopted` is set, so the invariant carries it as an exception.

`AckedSurvives` proves `NoSilentLoss` for a disk that may tear, lose and reorder whatever no
fsync covered, come back with a truncated file's old length, and fail fsyncs (only failed
appends and damage at rest are excluded, `Undamaged`; under those a replay has to refuse, and that
is left to TLC). Its own invariant, `Lossless`, says of every acknowledged record
that it is in the parts or in a whole frame on the platter, behind the watermark, of the
active file or of a sealed segment that a replay reads (`Safe`), and of the records not
yet acknowledged that their frames are in the active file (`Logged`), which is
what a returned fsync turns into `Safe`. A rollback takes back exactly what stands above
its mark, so nothing below it is cut (`Truncated` ties the file to what a power loss can bring
back of it). The hard step is prune, which unlinks before TABLE covers: each crash
between a roll and its TABLE commit leaves one more sealed segment that is not
covered, so all but the youngest `faults` segments are (`Covered`). The theorem therefore
assumes an archive that outlasts them (`Retained`: `maxLen <= Budget`, `maxFaults <=
MaxSegments`); section 5 says what happens to a smaller one. Only at a last roll,
when no fault is left to part it from its TABLE commit, may prune take more (`LastRoll`).

### AtomicTxns, TxnCommit, TxnCommitProofs

`AtomicTxns` is the promise: a transaction takes effect in all of its tables or in
none, once. `TxnCommit` is the two-phase commit: prepare records in every log
but the coordinator's (the last enlisted table), the barrier, the coordinator's
decision, the publishing, the rewinds of a rollback in enlistment order, the rolls
that carry decisions forward or drop them, the COMMIT whose commit point is a
rename because a sweep hid rows no record can name (`DarkSweep`, `CommitFold`), the
counters a checkpoint makes the session read anew (`DropHandles`), and
recovery. Stamps and ticks are left to `Wal`: here a synced record survives a power
loss and a logged one a kill.

* `txn`: two transactions, in one of two regimes: over two tables with two kills or
  failing prepares, or over three tables with one fault of any kind (a power loss may
  keep any unsynced prefix of each log, and may fall between a roll and its TABLE
  commit). All properties, and the refinement `AtomicSpec` (`view <- mem`). A log holds at most a
  row and a marker of each of the two transactions, which is `MaxLog`.

Two tables give a coordinator and a participant; a third is needed for a
participant that has prepared while another has not. Two transactions are needed
for a sequence number to be reused and for a decision to be dropped by a roll.

The proofs (`TxnCommitProofs`, for every set of tables and every bound). The inductive invariant is
`TypeOK /\ SeqsBelowNext /\ RosterMarksTail /\ OwnRecords /\ PreparesInPlace /\
DecisionAfterPrepares`. `DecisionAfterPrepares` is not inductive alone: the step that
writes a decision needs that a participant's log *ends* in its prepare
(`PreparesInPlace`) and holds staged rows of the running transaction (`OwnRecords`); a
rewind must not cut a protected record of an older transaction, which needs that a roster
entry marks exactly where the running transaction's records begin
(`RosterMarksTail`). `DecisionSafe` assumes `"decide_error" \notin Faults`: after a
failed fsync of the decision, `discard` rewinds the participants first while the
decision may already be on the platter, and the property is really false there.

The second half proves `AllOrNothing` and the refinement of `AtomicTxns` for kills and
failing prepares, any number of each (`Orderly == Faults \subseteq {"kill",
"prepare_error"}`). With the other kinds they are false once enough faults come together: a
power loss, or an empty enlistment and a kill, lets a number be handed out twice, a kill inside
a roll loses a decision, and so does a failed fsync of one (section 5).
The argument: within one log a staging number belongs to one transaction (`SeqOwner`); a
prepare cites a number that its *own* transaction holds in the coordinator's log
(`Citations`), because the coordinator is rewound last; only a transaction that committed, or
that a crash caught between marker and answer, has a marker (`Markers`); and a roll drops
decisions only when every other log is wholly covered by its TABLE record (`Folds`). So what a
replay rebuilds is exactly what memory shows, and `view <- mem` maps every step of the
protocol to a step of `AtomicTxns` or to none.

### KeyedMap, TableStore, TableStoreProofs

`KeyedMap` is the promise of a table with a primary key: a map whose inserts
replace, with a transaction nobody else sees before COMMIT. Its steps are labelled: `lastStmt`
is the statement answered last, whether it answered Ok, and a bit that makes a repeated
statement a new label; a step may change the map only
as that statement says. An INSERT that is Ok puts its batch, an UPDATE or DELETE changes the rows it
names and no others; a statement that fails is applied whole or not at all, and inside a
transaction leaves only ROLLBACK; a SELECT or an OPTIMIZE, whatever it answers, and every step without
a statement (a flush, a merge, the rest of a replay) leave the map as it is. `TableStore` is the
machine behind it: the write buffer (`delta`: the keys it touched, and the rows it
holds), the published part set with its masks and part identities, the overlay of
the open transaction (`view`), flush, bulk insert past the buffer, merge, replay
mode and its `CompactToSteady`, and the statements that drive them (INSERT with and
without a uniqueness check, UPDATE that may move keys, DELETE, a SELECT that
flushes, OPTIMIZE). Any part build may fail (`MayFail`): a statement of a
transaction then poisons it. A row is a key and a value; granules, encodings and
sort order inside a part are abstracted.

* `table_map`: a key has one live row in a part set (`OneLiveRow`), a point lookup
  agrees with a scan (`ProbeAgreesWithScan`), and the store implements the map
  (`MapSpec`). Two keys, two values, batches of two and three part identities: a key
  in the buffer and in two parts, a merge of two parts and a flush on top of it. The
  thresholds are small (a bulk insert at two rows, a flush at two keys, a merge at
  two parts) so that every one of them is crossed. `lastStmt` is written by every statement and read by none,
  so states that differ in it alone have the same successors; the run's `VIEW` counts them once. TLC
  checks every step it takes, also one to a state it has seen; since a statement always
  has a new label and no other step has one, nothing depends on the label a state is kept with.
  The mutant loses the first row of a batch when a part build fails, in a
  flush some later SELECT or COMMIT makes.

The proofs (`TableStoreProofs`, any finite set of keys, any values, batch sizes and thresholds)
cover all of these, the refinement included. The invariant is that the published set and the overlay
are good (`GoodSet`: identities below the next, masks inside their parts, at most one live row of
a key over all parts) and so is the buffer (`GoodBuffer`: it has touched the keys of its rows, one
row each). Every building block (tombstones, push, merge, flush, ingest, sweep) takes good sets to
good sets and has a lemma that says what it does to the rows a scan returns; flushes and merges
leave those alone, which is what `MapSpec` needs of every step that is not a statement, and the
tombstones and rows of a statement are its `Put`, `Cut` or `Move` (`PutMap`, `CutMap`, `MoveMap`).
The invariant also has that a table which is still being replayed has no open transaction.

### Checkpoint, CheckpointProofs, RecoveryProofs

The data directory: part files, each table's TABLE record, the CATALOG, the
incremental checkpoint that names an old file again when the part still matches it,
the DDL statements that end in a checkpoint (CREATE, DROP, TRUNCATE, ALTER,
RENAME), and opening (`LoadCatalog`). Tables here have no key, so that deletes are by
position in a part. A rename is visible at once and durable after the fsync of its
directory: `Images` and `Rosters` give every directory a power loss may leave.
The log is taken from `Wal`: a record is durable when it is acknowledged.

* `checkpoint`: opening the directory after a crash at any step gives the
  acknowledged state or that of the statement in flight (`CrashSafe`), a part's claim to a
  file is exact and no number or identity is given out twice (`OriginIsExact`), and a checkpoint neither touches nor forgets a
  quarantined table (`QuarantineKept`; damage at rest and the `link` step of a RENAME,
  see section 5, are not its subject). Two names, two rows, three catalog statements,
  one merge, two faults.

`CheckpointProofs` proves `OriginIsExact` and `QuarantineKept` for any names, rows
and bounds and every fault but `"late"` (`WrittenBack`: a process that is gone has had its
renames written back, and no directory fsync fails after a rename; with `"late"` the code can
unlink files that a returning TABLE names, section 5). `NoneIsNothing` says that `None` is no
table and no definition. The invariant follows a file number through its life: it is given out
above every file there and above the log's position (`WriteOK`), named by TABLE only once the
directory is synced, so that no power loss takes it (`DirInv`), claimed by the part whose bytes
it holds (`MemInv`), unlinked only when no part and no record names it, and carried to another directory
by RENAME, which depends on the order of the steps still to do: every part has its file when the
`link` comes, and nothing but writes follows the `move` (`TodoInv`). `CatInv` adds that every
roster a power loss may bring back has the names of the quarantined tables.

`RecoveryProofs` proves `CrashSafe` on top of that invariant, under the same assumptions and
`NoneIsNoRecord` (`None` is no TABLE record and no contents). `CrashSafe` speaks of what a crash
*now* would give, so it says nothing of how memory, files and log hang together, and the
invariant has to. Its centre is `Matches`, between a table in memory and a TABLE record with the
files it names and the log records after its position: a part that came from a file is that file
and the masks logged since; all other rows are, as a set, the rows inserted since and those of
named files whose part is gone. Inserts, flushes, merges and sweeps keep it although they move
rows between delta and parts, and writing a table makes it anew. It may fail only for the
name the running statement changes, and only until that name's record is written (`KeptInv`).
Around it: every record a power loss may bring back opens as the acknowledged contents or as
the statement's (`GivesInv`); RENAME alone changes two names, and every roster has exactly one
of them (`MovedInv`); the catalog is written before anything is collected (`ListedInv`), a
linked directory is complete before the move (`LinkedInv`), what a checkpoint writes has been
flushed (`StmtInv`), and no record lies at or behind the position of the log's next one
(`CoverInv`). TLC checked the invariant on the run's instance (641,132 states) before it was
proved.

### Connections, ConnectionsProofs

`Db`, `Writer`, `Reader` and `Cursor` around one `RwLock<Session>`. A connection is a
client thread and, while it has a cursor open, the cursor's producer thread. A
critical section nobody can see half done is one action; giving up a lock between a
test and its use is not: `TryRead` (the shared lock) and `FlushRead` (the exclusive one)
are two, as are `DropDb` and `DropToken`, and the cancel flag, the receiver and the
join of `Cursor::drop`. The lock is the standard library's: no reader gets in while a
writer waits, and a panic under the write guard poisons it, after which `try_write`
fails for good. A table is its parts, its buffer and its overlay.

* `connections`: what is published is what was acknowledged (`AckedIsPublished`), and
  every read is of committed rows at one instant, or of those and the reader's own
  transaction (`ReadsCommitted`).
* `connections_live`: a waiting writer gets the lock (`WriterProgress`), dropping a cursor
  returns (`CursorCloses`), and a transaction whose connection is gone ends
  (`OrphanIsSwept`) if writers keep coming; the last is a condition the code itself
  names (`Db::drop`).

Two connections are a writer and a reader that interleave; two tables are needed for
a read that is torn between tables and for a producer that finds its channel full;
two rows for one that is buffered before a BEGIN and one after.

The proofs (`ConnectionsProofs`, any connections, tables and rows) are of the two invariants.
Neither is inductive: both need the lock discipline (one writer or readers; who holds the lock in
which phase), that overlay and buffer together are what was committed and what the open
transaction was told it inserted (`OverlayExact`), that staged rows are the owner's
(`StagedByOwner`), and that what the gate of a reader saw (no overlay, no buffered rows) holds
until it gives up the lock (`GateHolds`), because whoever could change it needs the lock alone.

### Pool, PoolProofs

The worker pool. Everything under its mutex is one action, the claim of an index
(`fetch_add`), the item, and each notification are actions of their own. A condition
variable is the set of threads waiting on it: a notification without a waiter is
lost, and waits end for no reason (`SpuriousWakeup`). A nested call takes the inline
path on its own frame, and is part of the item that makes it.

* `pool`: no thread can reach a job whose frame is gone (`NoDanglingJob`), a call that
  is about to return has run each index once (`EachIndexOnce`), every call returns
  (`EveryCallReturns`), and a dropped pool joins its workers (`EveryWorkerExits`). Two
  callers and two workers with two items each: two jobs listed at once, a worker
  helping one while the other retires, and a wake-up that reaches the wrong thread.

The proofs (`PoolProofs`, any sets of threads with finitely many workers, any number
of calls and items). `NoDanglingJob` and `EachIndexOnce` are not inductive. The
inductive invariant adds: a listed job belongs to a call that has not retired and is listed
once; a worker holds a job exactly from its announcement to its goodbye, and
`active` is the number of workers that hold it (so zero means nobody: the step
`Return`); a running index was claimed, and by one thread; and an index was run
once exactly if it was claimed and nobody is running it any more. `EachIndexOnce`
follows because a caller that left its drain saw the counter at the end, and nobody
holds a quiet job.

### Backup, BackupProofs

A source database of unkeyed tables (the tables on which a record replayed twice or
not at all shows), its logs as one stream of entries cut into segments of which only the
sealed ones are archive, its archives, and one directory being restored into. The
statements, folds, checkpoints, prunes, DDL and crashes of the source are here only as far as
an archive can tell them apart; `Wal`, `TxnCommit` and `Checkpoint` show that the source
recovers itself. `hist` is the ground truth: what the database held after every
acknowledged statement, with its LSN and time. A restore is one action per table, log
and commit record, with a crash between any two.

* `backup`: `RESTORE` gives the instant of the backup through any chain of bases
  (`ArchiveIsTheInstant`), a roll-forward that reports success holds exactly what the source held
  at its target (`RollForwardExact`), and half a restore does not open
  (`TornRestoreRefused`). Two tables, two archive paths, histories of five operations
  with one kind of disturbance (a crash, damage, or a change that is not logged), then
  a restore to every target from just before the backup to just past the end of the log.
  Two tables are needed for a transaction that could be torn, two paths for an increment.
  `RollForwardExact` names the gaps of section 5 it excepts.

  `MaxChain` is `MAX_CHAIN`; two is enough here because a chain that comes back to itself is cut
  at any length, and `backup_flaws` sets it to one to write a chain that is too long.

  `BackupProofs` proves `TornRestoreRefused`: its invariant
  says what the directory holds in each phase of a restore (nothing before it is made; no
  CATALOG while it is unpacked or after a crash in the middle; CATALOG only over every table and
  every log), and a second attempt is refused because the directory exists.

  It also proves `ArchiveIsTheInstant`, from `BackupAssumption` alone (`NoPath` is no path, the
  bound on rows is a natural and `MAX_CHAIN` a positive one). The property is about one restore, but an
  archive is read long after it was written, through bases that other backups may have
  replaced since. `InstantInv` therefore says of every archive, whenever it was taken, that
  it records what its tables held then (`ArchiveOK`) and that, unless its chain is broken, the
  chain ends at an archive without a base and has on it every body it cites (`Reaches`). Three facts
  carry it. A flush, which sorts the delta into a part, keeps the number of copies of every row
  (`FlushHeld`), so that what is archived is what was held. What happens off a chain does not
  disturb it (`ChainKept`), and a new archive has the chain of its base and itself in front
  (`ChainExtended`). And two archives that store the same body store the same rows, mask
  included, so that it does not matter which of them supplies it. `SourceInv` is the shape of
  tables and logs that these facts need; `PlainInv` says that a plain restore lays no log, and
  `RefusedInv` that a first attempt that was refused had a reason.
* `backup_flaws` (violation): nine histories, played one after the other, after which a
  restore is wrong; the last state lists them in `wrong`.

### Exprs, Logical, Binder, Optimizer, SqlMeaning, Planner

A statement on its way from syntax tree to plan. `Exprs` are the bound expressions and
their value on a row, `Logical` the plan nodes, the rows each stands for, and the lowerings
of subqueries to joins, `Binder` the binding of a query block (scopes, USING,
correlation, aggregates, grouping sets, windows, set operations), `Optimizer` the
passes and the rewriting part of `lower`. `SqlMeaning` is the reference: the rows of a
statement computed without a plan, every subquery answered anew for each row.
`Planner` takes one step per pass. Table contents are small and full of NULLs and
duplicates; cost estimates are a free choice of the join order.

* `queries`, first half: what the binder accepts answers the statement, and it refuses
  exactly the statements a join cannot express (`BoundPlanAnswers`); no later step changes
  the rows, whatever join order is chosen (`PassesKeepTheAnswer`). `MCPlanner` lists the
  statements, one or more per construct of the binder and rule of the optimizer, and
  the databases. Every statement with a subquery runs as it is and with the subquery folded by the
  session first; `NullableNotIn` runs only as it is, since its folding is one of the flaws below.
* `planner_flaws` (violation): nine statements that are accepted and get other rows.

### Streams, Aggregate, SortOp, JoinOp, WindowOp, ScanOp, Budget

The physical operators, all over the same five variables (`plan`, `src`, `op`, `out`,
`status`) so that one run covers them. A step pulls one block. How the input is cut into
blocks and workers is part of `plan`, the budget's refusal is a free choice at each block
where the code asks for memory, and a query may be cancelled wherever the code checks.
`Budget` is the one that looks inside `reserve`: add, compare and take back are steps of
their own.

The second half of `PoolProofs` proves `BudgetKept`, for any workers, limits and sizes
(`PlansOK`: finitely many workers, sizes that are naturals; `MCQueries` asserts it of the
budgets it checks). The counter may pass the limit, since it is raised before it is compared,
so the limit has to be shown of something else. A worker is granted its bytes if the counter was
within the limit when *it* had added them, whatever the counter is by the time it compares: those
bytes are promised. The invariant is that what is held and what is promised is within the limit
(`Within`), and that the counter is what is held and what is under judgement (`Counted`). An
addition that keeps within the limit does so with everything under judgement counted, promised or not.

### Accumulators, Values, Floats

`Accumulators` are the aggregate functions: a sequence of rows is cut into stretches, each
folded into its own state, and the states are merged. `Values` are the several
implementations of one comparison (typed kernels, the general path, `Value::cmp`,
`Value::hash`, the lanes of the key index), which must agree. `Floats` rounds to a short
significand, so that integers too large for a float are small numbers here.

* `queries`, second half: each operator answers what its reference definition says
  (`StreamAnswer`, `AggregateAnswer`, `SortAnswer`, `JoinAnswer`, `WindowAnswer`, `ScanAnswer`),
  the workers of a query hold no more than its budget and give back all of it
  (`BudgetKept`), an aggregate answers for its rows however they were cut and merged
  (`AccumulatorAnswer`), a kernel answers what its values mean (`KernelAnswer`), and equal
  keys hash alike and are found by one probe (`EqualKeysMeet`). Blocks of two rows, merges
  of two runs, two levels of partitions and galloping after one win are the smallest
  sizes at which a group, a run, a peer group or a partition goes on across a border.
  `StreamAnswer` excepts `LIMIT 0 BY` by name (`LimitZeroBy`), which answers one row per key;
  `planner_flaws` has the statement.

## 3. Fairness

Only `Connections` and `Pool` state liveness.

* `Pool`: weak fairness of each thread, and of the broadcast of `Pool::drop`. The
  threads are the operating system's, and an item is assumed to end. Nothing is
  assumed of notifications or of spurious wake-ups.
* `Connections`: weak fairness of each library step of each thread. Of the clients it
  is assumed that a writer guard is dropped in the end (strong fairness, since
  statements go on under the guard in the meantime), and that an open cursor is
  fetched from or dropped. Nobody is assumed to start anything. With
  `NestedReads = TRUE` (a client that queries while its own cursor is open)
  `WriterProgress` is false; see section 5.

## 4. What is proved, what is only model-checked

Proved by TLAPS for every value of the constants:

| theorem | statement |
|---|---|
| `WalProofs!HonestCrashesAccepted` | `NoFalseAlarm`: crashes on an honest disk never quarantine a table |
| `WalProofs!AckedSurvives` | `NoSilentLoss` under kills, power losses and failed fsyncs, with an archive that outlasts them |
| `WalProofs!IdleIsFoldable` | `FoldableWhenIdle`: outside a transaction no group is open |
| `TxnCommitProofs!TypeCorrect` | `TxnCommit!Spec => []TypeOK` |
| `TxnCommitProofs!SeqsNeverReissued` | no record carries a number that may still be handed out |
| `TxnCommitProofs!DecisionSafe` | a decision is on a log only when every other participant's rows and prepare are on the platter, if the decision's own fsync does not fail |
| `TxnCommitProofs!CrashesAreAllOrNothing` | `AllOrNothing` under kills and failing prepares |
| `TxnCommitProofs!ImplementsAtomicTxns` | the two-phase commit implements `AtomicTxns` under the same faults |
| `TableStoreProofs!TypeCorrect` | `TableStore!Spec => []TypeOK` |
| `TableStoreProofs!KeysHaveOneLiveRow` | `OneLiveRow` |
| `TableStoreProofs!ProbesAgree` | `ProbeAgreesWithScan` |
| `TableStoreProofs!ImplementsMap` | the store implements `KeyedMap`: a statement changes the rows it names and nothing else changes any |
| `CheckpointProofs!OriginsAreExact` | `OriginIsExact`: a reused file is the part it stands for |
| `CheckpointProofs!QuarantineIsKept` | `QuarantineKept` |
| `RecoveryProofs!CrashIsSafe` | `CrashSafe`: whatever a crash leaves, opening gives the acknowledged state or that of the statement in flight |
| `ConnectionsProofs!PublishedIsAcked` | `AckedIsPublished` |
| `ConnectionsProofs!ReadsAreCommitted` | `ReadsCommitted` |
| `PoolProofs!TypeCorrect` | `Pool!Spec => []TypeOK` |
| `PoolProofs!NoDangling` | the laundered borrow of `Pool::run` is sound |
| `PoolProofs!IndicesOnce` | a call that returns has run each index once |
| `PoolProofs!BudgetIsKept` | `BudgetKept`: the workers of a query hold no more than its limit and give all of it back |
| `BackupProofs!HalfRestoresNeverOpen` | `TornRestoreRefused` |
| `BackupProofs!PlainRestoreIsExact` | `ArchiveIsTheInstant`: a plain restore is the instant of the backup, through any chain of bases |

Each of `WalProofs`, `TableStoreProofs`, `CheckpointProofs`, `ConnectionsProofs` and
`BackupProofs` first proves its `InductiveInvariant`, and `RecoveryProofs` its
`RecoveryInvariant`, `BackupProofs` also its `InstantInvariant`; section 2 says of each what it holds
and why. Every inductive invariant was checked with TLC on the run's instance before it was
proved.

The assumptions are the modules' named ASSUMEs (finite sets of tables, workers or keys,
bounds that are naturals, disjoint roles, a `None` that is nothing else), which TLC evaluates in
every run, and, where section 2 names them, an assumption on the faults (`Orderly`,
`WrittenBack`, `Undamaged`, no `"decide_error"`), on the retention (`Retained`) or on the budgets
(`PlansOK`).

Only model-checked: the liveness properties (liveness under fairness is out of the
prover's reach); `RollForwardExact`, which compares a state with what a cut, segment by segment, and
a replay compute from a log, against the state a history had at an instant (an induction over the
log); `NoSilentLoss` under
failed appends and damage at rest; `AllOrNothing` and
`AtomicSpec` with one fault outside `Orderly`, where the bound on faults matters;
and the query modules other than `Budget`. Of
the last, `Logical`, `Binder`, `Optimizer`, `SqlMeaning` and `Exprs` are recursive over plans and
expressions, and what a recursive definition computes for every input is out of the
prover's reach.

Each property has a mutant of the model, a plausible mistake in the code it is
about, under which TLC finds the property violated (`PROJECT.json`, "mutants").

## 5. Disagreements between the code and its documents

Three runs exhibit some of them: `log_flaws` (three histories), `planner_flaws` (nine
statements) and `backup_flaws` (nine histories); "findings" in `PROJECT.json` has one entry for each,
with the line that says otherwise. The others were met while modelling. Most are a member
of a module's `Faults` or another value of its constants, and TLC finds them when that
is added to a configuration:

* **Pruning before the commit.** `roll` passes its own new origin to `prune` before the
  TABLE record that covers the sealed segment is committed (`wal.rs` 1755). With a
  retention budget smaller than the segment (`Budget` 0 to 4, or `MaxSegments = 1`) the
  segment is unlinked, and a crash loses it (`NoSilentLoss`), against `store.rs` 440-442
  ("A roll destroys nothing") and `wal.rs` 2497-2499.
* **RENAME onto a quarantined table.** `run_rename_table` asks `table_by_path(to).is_ok()`,
  which is false for a quarantined table; `link_table_dir` removes that table's directory
  before `create_table` refuses the name (`session.rs` 4015, against 6134-6136).
  `QuarantineKept` therefore leaves the `link` step out.
* **A group left open by a short write.** A record that fails to be appended in
  `insert_unique` leaves its group open, and the table is not folded again
  (`FoldableWhenIdle` under `"short_write"`).
* **Reused transaction numbers.** `apply_sweep` enlists its table before it knows
  whether a row matches (`"empty_enlist"`); such a coordinator leaves no record of its
  number, and a kill during the barrier lets the number be handed out again
  (`session.rs` 3699, against lines 102-103). The same happens after a power loss that
  takes an unsynced tail (`wal.rs` 1176, against 150-153).
* **A failed fsync of the decision.** `discard` rewinds the participants while the
  decision may be on the platter (`"decide_error"`; `session.rs` 1925).
* **A late directory fsync.** `commit` skips the write and both fsyncs when the file
  already holds the bytes, which is also so after an attempt whose directory fsync
  failed; `write_table` then unlinks files of the TABLE a power loss brings back
  (`"late"`; `store.rs` 235, against 227-229).
* **A query under one's own cursor.** `Reader::cursor` says that "drop it before you
  write" is the whole rule (`session.rs` 4845-4847). A client that *reads* while its
  cursor is open also stops everybody: its query waits behind a waiting writer, the
  writer for the producer's lock, and the producer for the client
  (`NestedReads = TRUE`, `WriterProgress`).
* **A reader in somebody else's transaction.** `with_session` says that it leaves a table
  in a transaction alone; between its test and the exclusive lock a transaction may
  begin, and `flush_all` then moves that transaction's buffered rows into its overlay
  (`session.rs` 4834). No answer changes.
* **An ownerless transaction.** `into_shared` of a session with an open transaction
  leaves one that no connection owns and no token sweeps (`session.rs` 4684).
* **The log.** A failed fsync after the stamp moved, a file shorter than its stamp, a
  full disk in the middle of a group, a group left open by `insert_unique`, and a
  sealed segment with an unstamped tail each make the log refuse, or accept, something
  its comments say it would not (`wal.rs` 1599, 1192, 1497, 1685; `session.rs` 3347).
* **Beyond 2^53.** `or_to_in` turns `u = c OR ...` into an IN list, whose general path
  compares an unsigned value above `i64::MAX` through a float, so that 2^63+1 matches 2^63
  (`optimizer.rs` 683, against 679, "Truth-table identical in three-valued logic"; `Blurred` in
  `Values`). `Value::hash` differs for some values that compare equal there (`value.rs`
  920-934, against "Must agree with `Value::eq`"), a float literal of 2^53 or more probes one
  key where a scan matches several (`physical.rs` 855), and `min`, `max` and `argMin` keep the
  first of two such values that round to one float (`agg.rs` 704-709).
* **Directory entries.** The directory of a new table or log is never fsynced in its
  parent (`writer.rs` 288, `wal.rs` 1145, `session.rs` 6141). The models assume that it is.
* **DDL whose last checkpoint fails** keeps its effect in memory (`session.rs` 2473).
* Comments that describe an older design: `store.rs` 384-388, `persist/mod.rs` 63-73.

## 6. Not modelled

* Byte formats, checksums, compression, the bit-level encodings and the construction of the
  key index: pure functions of a buffer; a file or frame is readable or not, a lookup exact.
* Text: lexing, parsing, formatting, import and export, the command line.
* Arithmetic and the scalar functions on text, dates and arrays: pure per-row functions. In a
  plan such a function is any deterministic call.
* Cost estimates (a free choice in the models), settings, system tables, recursion limits.
* Of the log: a segment whose header stamp does not verify (`wal.rs` 871-894, 937-943; only damage to
  the header makes one), failing fsyncs of `rewind_to` and `Wal::open`, and a kernel that drops the dirty pages of
  a failed fsync (in the model the next one that returns covers the whole file).
* Steps of the code that are one step of a model, each with its reason in the module: the prepares of a COMMIT
  (`TxnCommit!PrepareAll`), the copying of a directory by RENAME (`Checkpoint!Link`), a sort's fleet
  (`SortOp!WorkerSorts`), and the return of refused memory (`Budget!Refused`).
* `Checkpoint!CheckpointFails` leaves out the checkpoint that ends a DDL statement (section 5).
* Types in the planner: values have one type, so the type guards of `strip_identity` and of mirrored
  predicates always hold, and `+ 0` stands for the other identities. `SortOp!MergeTurn`
  gallops over any single key, where the code asks for keys that compare as lanes: a superset.
* The process lock on the data directory, and memory-mapped files under readers.

## 7. Plan

What is left is proofs: `RollForwardExact` of `Backup`, by an invariant that says of every prefix of
a log what its replay over the archive gives, and `NoSilentLoss` of `Wal` under damage at rest, where
what has to be shown is that a replay refuses.
