------------------------------- MODULE Backup -------------------------------
(***************************************************************************)
(* Backup, restore and point-in-time recovery (persist/backup.rs, the       *)
(* archive half of persist/wal.rs, and BACKUP, RESTORE, DROP and TRUNCATE   *)
(* in session.rs).                                                          *)
(*                                                                          *)
(* A source database of unkeyed tables takes statements, folds its logs     *)
(* into parts, prunes its archive, crashes and takes backups; then one      *)
(* archive is restored, by itself or rolled forward through the archived    *)
(* log, into a fresh directory, with a crash possible between any two       *)
(* steps of the restore.  The log of a table is one stream of entries cut   *)
(* into segments; only sealed segments are archive.  A recovery LSN is the  *)
(* number of the tick in front of an fsync.  `hist' is the ground truth:    *)
(* what the database held after every acknowledged statement.               *)
(*                                                                          *)
(* Wal and TxnCommit show that the source recovers its own log; here its    *)
(* recovery is the replay of every committed entry after the fold.          *)
(***************************************************************************)
EXTENDS Integers, Sequences, FiniteSets, SequencesExt, FiniteSetsExt

CONSTANTS Tables,     \* the tables of the database
          Paths,      \* where an archive may be written
          NoPath,     \* no base archive
          MaxChain,   \* MAX_CHAIN, how many archives a chain may have
          MaxRows,    \* bound: rows ever inserted
          MaxOps,     \* bound: statements, crashes and damages of one behaviour
          MaxCrashes  \* bound: how many of those are crashes

ASSUME BackupAssumption == NoPath \notin Paths /\ MaxRows \in Nat /\ MaxChain \in Nat \ {0}

VARIABLES mem,      \* per table: the parts and the delta a session holds
          disk,     \* per table: the parts its TABLE record names, and the fold point
          log,      \* per table: every entry of the stream since it began
          segs,     \* per table: the segment heads still on disk, oldest first
          tables,   \* the tables the catalog holds
          next,     \* NEXT_COMMIT: the recovery LSN the next tick takes
          clock,    \* the wall clock
          hist,     \* the database after each acknowledged statement
          archives, \* per path: the archive published there, or NoArchive
          into,     \* the directory being restored to
          ops,      \* statements, crashes and damages so far
          crashes,  \* crashes of the source so far
          rotten    \* tables with an unreadable segment in the archived log

source == <<mem, disk, log, segs, tables, next, clock, hist>>
vars == <<mem, disk, log, segs, tables, next, clock, hist, archives, into, ops, crashes, rotten>>

NoArchive == [base |-> NoPath]
Rows == 1..MaxRows

\* ------------------------------------------------------------ log entries
\* A logged insert of one row.  x = 0: on its own.  Otherwise part of the
\* transaction x, decided in the log of `home': the table's own entry is then
\* the record and its DECIDE, any other's the record and its PREPARE.
Insert(row, x, home) == [kind |-> "insert", row |-> row, x |-> x, home |-> home]
Mask(pid, pos) == [kind |-> "mask", pid |-> pid, pos |-> pos]
Tick(seq, ms) == [kind |-> "tick", seq |-> seq, ms |-> ms]

IsMutation(en) == en.kind # "tick"
LastTick(entries) ==
    LET ticks == SelectSeq(entries, LAMBDA en : en.kind = "tick")
    IN  IF ticks = <<>> THEN Tick(0, 0) ELSE Last(ticks)
Active(t) == SubSeq(log[t], Last(segs[t]).at + 1, Len(log[t]))

\* Entries behind the last tick, which a crash left or a statement just wrote.
Dirty(t) == Active(t) # <<>> /\ IsMutation(Last(Active(t)))

Decided(x, stream, home) == \E i \in DOMAIN stream : stream[i].kind = "insert" /\ stream[i].x = x /\ stream[i].home = home

\* ------------------------------------------------------- a table in memory
Part(pid, rows, homed) == [pid |-> pid, rows |-> rows, dead |-> {}, homed |-> homed]

\* The rows of a part are stored in the table's sort order, here newest first.
Sorted(rows) ==
    LET order == CHOOSE f \in [DOMAIN rows -> DOMAIN rows] :
                    \A i, j \in DOMAIN rows : i < j => rows[f[i]] >= rows[f[j]] /\ f[i] # f[j]
    IN  [i \in DOMAIN rows |-> rows[order[i]]]

\* Table::flush: the delta becomes a part, which PartSet::push numbers.
Flush(m) ==
    IF m.delta = <<>> THEN m
    ELSE [m EXCEPT !.parts = Append(@, Part(m.pid, Sorted(m.delta), FALSE)), !.delta = <<>>, !.pid = @ + 1]

Occurs(seq, r) == Cardinality({i \in DOMAIN seq : seq[i] = r})

\* How many live copies of each row a table holds.
LiveAt(p, r) == {i \in DOMAIN p.rows : p.rows[i] = r /\ i \notin p.dead}
Copies(parts, r) == UNION {{k} \X LiveAt(parts[k], r) : k \in DOMAIN parts}
Held(m) == [r \in Rows |-> Occurs(m.delta, r) + Cardinality(Copies(m.parts, r))]
Db(ms, ts) == [t \in Tables |-> IF t \in ts THEN Held(ms[t]) ELSE [r \in Rows |-> 0]]

\* Table::set_parts and seed_pids: identities go on above the parts found, or
\* above the stream position of the fold when there are none.
Load(parts, from) ==
    [parts |-> [i \in DOMAIN parts |-> [parts[i] EXCEPT !.homed = TRUE]], delta |-> <<>>,
     pid |-> IF parts = <<>> THEN from + 1 ELSE 1 + Max({parts[i].pid : i \in DOMAIN parts})]

HomeOf(m, pid) == {i \in DOMAIN m.parts : m.parts[i].pid = pid /\ m.parts[i].homed}

\* replay_entries: a record of a transaction counts only if the decision is in
\* the log it cites.
Counts(en, streams) == en.x = 0 \/ Decided(en.x, streams[en.home], en.home)

\* apply_replay: inserts go to the delta in the order of the log, and masks to
\* the part they name.  A mask that names no part read from a file, or a
\* position past its rows, is corruption, and the table is quarantined.
Resolves(m, en) ==
    LET home == HomeOf(m, en.pid) IN home # {} /\ \A i \in home : en.pos =< Len(m.parts[i].rows)
InOrder(S) == CHOOSE f \in [1..Cardinality(S) -> S] : \A i, j \in 1..Cardinality(S) : i < j => f[i] < f[j]
Replay(m, entries, streams) ==
    LET masks == {entries[k] : k \in {k \in DOMAIN entries : entries[k].kind = "mask"}}
        order == InOrder({k \in DOMAIN entries : entries[k].kind = "insert" /\ Counts(entries[k], streams)})
        hidden(i) == {en.pos : en \in {x \in masks : i \in HomeOf(m, x.pid)}}
    IN  [ok |-> \A en \in masks : Resolves(m, en),
         m  |-> [m EXCEPT !.delta = @ \o [k \in DOMAIN order |-> entries[order[k]].row],
                          !.parts = [i \in DOMAIN m.parts |-> [m.parts[i] EXCEPT !.dead = @ \cup hidden(i)]]]]

\* ------------------------------------------------------ the source's steps
\* Space left for another statement, before any restore has begun.
Room == into.phase = "none" /\ ops < MaxOps /\ ops' = ops + 1

Used == UNION {{log[t][k].row : k \in {k \in DOMAIN log[t] : log[t][k].kind = "insert"}} : t \in Tables}
NextRow == 1 + Cardinality(Used)

\* The database as acknowledged at `seq'; `silent' when no record of the
\* change is in the log.
Instant(seq, db, silent) == [seq |-> seq, ms |-> clock', db |-> db, silent |-> silent]

\* What is held and has an LSN: a record a crash left without a tick is
\* replayed and seen, but no target names it until a later tick covers it.
Unticked(stream) == {r \in Rows : \E k \in DOMAIN stream : /\ stream[k].kind = "insert" /\ stream[k].row = r
                                                          /\ \A j \in k..Len(stream) : IsMutation(stream[j])}
Ticked(ms, ts, streams) == [t \in Tables |-> [r \in Rows |-> IF r \in Unticked(streams[t]) THEN 0 ELSE Db(ms, ts)[t][r]]]
ClockMoves == clock' \in {clock, clock + 1}

\* Wal::tick: no earlier than any tick of this log.
TickOf(t, seq) == Tick(seq, IF LastTick(log[t]).ms > clock' THEN LastTick(log[t]).ms ELSE clock')

\* A plain INSERT: log_insert appends, Wal::sync ticks and fsyncs, then the
\* row enters the delta.
InsertRow(t, r) ==
    /\ Room /\ ClockMoves /\ t \in tables
    /\ r \in Rows /\ r = NextRow
    /\ log' = [log EXCEPT ![t] = @ \o <<Insert(r, 0, t), TickOf(t, next)>>]
    /\ mem' = [mem EXCEPT ![t].delta = Append(@, r)]
    /\ next' = next + 1
    /\ hist' = Append(hist, Instant(next, Ticked(mem', tables, log'), FALSE))
    /\ UNCHANGED <<disk, segs, tables, archives, into, crashes, rotten>>

\* A transaction that inserts r into t and r + 1 into u: t prepares, citing u,
\* and is made durable first; u decides.
InsertBoth(t, u, r) ==
    /\ Room /\ clock' = clock /\ {t, u} \subseteq tables /\ t # u
    /\ r + 1 \in Rows /\ r = NextRow
    /\ log' = [log EXCEPT ![t] = @ \o <<Insert(r, r, u), TickOf(t, next)>>,
                          ![u] = @ \o <<Insert(r + 1, r, u), TickOf(u, next + 1)>>]
    /\ mem' = [mem EXCEPT ![t].delta = Append(@, r), ![u].delta = Append(@, r + 1)]
    /\ next' = next + 2
    /\ hist' = hist \o <<Instant(next, Ticked(mem, tables, [log EXCEPT ![t] = log'[t]]), FALSE), Instant(next + 1, Ticked(mem', tables, log'), FALSE)>>
    /\ UNCHANGED <<disk, segs, tables, archives, into, crashes, rotten>>

\* Wal::roll: nothing behind the head is nothing to seal; a dirty log is
\* ticked first; then a new segment opens, and prune keeps as much of the
\* archive as the retention of the moment allows.
Rolls(t) == Active(t) # <<>>
NewHead(entries) == [at |-> Len(entries), seq |-> LastTick(entries).seq, ms |-> LastTick(entries).ms]

\* fold_to_parts, and save_catalog's share of one table: flush, roll, and
\* write TABLE with every part in a file.
Folded(m) == [m EXCEPT !.parts = [i \in DOMAIN m.parts |-> [m.parts[i] EXCEPT !.homed = TRUE]]]
FoldTables(ts, m0, keep, silent) ==
    LET dirty == {t \in ts : Rolls(t) /\ Dirty(t)}
        order == SetToSeq(dirty)
        turn(t) == next - 1 + CHOOSE i \in DOMAIN order : order[i] = t
        grown == [t \in Tables |-> IF t \in dirty THEN Append(log[t], TickOf(t, turn(t))) ELSE log[t]]
        full  == [t \in Tables |-> IF t \in ts THEN Folded(Flush(m0[t])) ELSE m0[t]]
    IN  /\ log' = grown
        /\ segs' = [t \in Tables |->
                      IF t \notin ts \/ ~Rolls(t) THEN segs[t]
                      ELSE LET all == Append(segs[t], NewHead(grown[t]))
                           IN  SubSeq(all, Len(all) - (IF keep < Len(segs[t]) THEN keep ELSE Len(segs[t])), Len(all))]
        /\ mem' = full
        /\ disk' = [t \in Tables |-> IF t \in ts THEN [parts |-> full[t].parts, from |-> Len(grown[t])] ELSE disk[t]]
        /\ next' = next + Cardinality(dirty)
        /\ hist' = IF dirty = {} /\ ~silent THEN hist
                   ELSE Append(hist, Instant(next' - 1, Ticked(full, tables', grown), silent))

\* One table's log passed wal_fold_bytes: drain_folds.
FoldOne(t, keep) ==
    /\ Room /\ clock' = clock /\ t \in tables
    /\ tables' = tables
    /\ FoldTables({t}, mem, keep, FALSE)
    /\ UNCHANGED <<archives, into, crashes, rotten>>

\* Session::checkpoint.
Checkpoint(keep) ==
    /\ Room /\ clock' = clock
    /\ tables' = tables
    /\ FoldTables(tables, mem, keep, FALSE)
    /\ UNCHANGED <<archives, into, crashes, rotten>>

\* DELETE of one row.  A row of a part that came from a file is logged as a
\* position in it; a row that only the log holds is hidden in memory and the
\* table is written out, with no record of the deletion.
WithDead(m, i, pos) == [m EXCEPT !.parts[i].dead = @ \cup {pos}]
DeleteRow(t, i, pos) ==
    LET m == Flush(mem[t])
    IN  /\ Room /\ ClockMoves /\ t \in tables
        /\ i \in DOMAIN m.parts /\ pos \in DOMAIN m.parts[i].rows \ m.parts[i].dead
        /\ tables' = tables
        /\ IF m.parts[i].homed
           THEN /\ log' = [log EXCEPT ![t] = @ \o <<Mask(m.parts[i].pid, pos), TickOf(t, next)>>]
                /\ mem' = [mem EXCEPT ![t] = WithDead(m, i, pos)]
                /\ next' = next + 1
                /\ hist' = Append(hist, Instant(next, Ticked(mem', tables, log'), FALSE))
                /\ UNCHANGED <<disk, segs>>
           ELSE FoldTables({t}, [mem EXCEPT ![t] = WithDead(m, i, pos)], Len(segs[t]), TRUE)
        /\ UNCHANGED <<archives, into, crashes, rotten>>

\* TRUNCATE: an empty part list whose identities start above the stream, and
\* the checkpoint every DDL statement ends with.  Nothing is logged.
Truncate(t) ==
    /\ Room /\ clock' = clock /\ t \in tables
    /\ tables' = tables
    /\ FoldTables(tables, [mem EXCEPT ![t] = Load(<<>>, Len(log[t]))], Len(segs[t]), TRUE)
    /\ UNCHANGED <<archives, into, crashes, rotten>>

\* DROP: retire_log seals the log and leaves it; the DDL checkpoint follows.
Drop(t) ==
    /\ Room /\ clock' = clock /\ t \in tables
    /\ tables' = tables \ {t}
    /\ FoldTables(tables, [mem EXCEPT ![t] = Load(<<>>, Len(log[t]))], Len(segs[t]), TRUE)
    /\ UNCHANGED <<archives, into, crashes, rotten>>

\* CREATE under a name whose log outlived an earlier DROP.
Create(t) ==
    /\ Room /\ clock' = clock /\ t \notin tables
    /\ tables' = tables \cup {t}
    /\ FoldTables(tables', [mem EXCEPT ![t] = Load(<<>>, Len(log[t]))], Len(segs[t]), TRUE)
    /\ UNCHANGED <<archives, into, crashes, rotten>>

\* A part of archive a that the source holds in memory only, under the same
\* identity: what a crash forgets.
MintedOnly(a) ==
    \E t \in a.tables : \E i \in DOMAIN mem[t].parts :
        ~mem[t].parts[i].homed /\ \E j \in DOMAIN a.parts[t] : a.parts[t][j].pid = mem[t].parts[i].pid

\* The process dies and the database is opened again: the parts of TABLE, the
\* log replayed from the fold, and NEXT_COMMIT above every tick of the logs
\* the catalog names.
Reopen(streams) ==
    LET back(t) == Replay(Load(disk[t].parts, disk[t].from), SubSeq(streams[t], disk[t].from + 1, Len(streams[t])), streams)
    IN  /\ log' = streams
        /\ mem' = [t \in Tables |-> IF t \in tables THEN back(t).m ELSE mem[t]]
        /\ next' = 1 + Max({0} \cup {LastTick(streams[t]).seq : t \in tables})
        /\ crashes < MaxCrashes /\ crashes' = crashes + 1
        /\ archives' = [p \in Paths |-> IF archives[p] = NoArchive THEN NoArchive
                                       ELSE [archives[p] EXCEPT !.remint = @ \/ MintedOnly(archives[p])]]
        /\ UNCHANGED <<disk, segs, tables, clock, hist, into, rotten>>
Crash == Room /\ Reopen(log)

\* The same, between the append of an INSERT and its tick.  Replay applies
\* the record; its tick will come with whatever is logged next.
CrashBeforeTick(t, r) ==
    /\ Room /\ t \in tables
    /\ r \in Rows /\ r = NextRow
    /\ Reopen([log EXCEPT ![t] = Append(@, Insert(r, 0, t))])

\* ---------------------------------------------------------------- archives
\* (for a mutant) A part known by its rows alone.
KeyIgnoringMask(b) == [b EXCEPT !.dead = {}]

\* A part as an archive stores it, and what the manifest knows it by: length,
\* checksum and live rows, which the mask is part of.
Body(p) == [pid |-> p.pid, rows |-> p.rows, dead |-> p.dead]
Key(b) == b

\* Chain::open: from archive p along the bases, until one has none.  A chain
\* that goes on after MaxChain archives does not open.
Chains(p, at) ==
    {c \in UNION {[1..n -> Paths] : n \in 1..MaxChain} :
        c[1] = p /\ \A i \in 1..(Len(c) - 1) : at[c[i]].base = c[i + 1]}
Longest(C) == CHOOSE c \in C : \A d \in C : Len(d) =< Len(c)
ChainOf(p) == Longest(Chains(p, archives))
Opens(p) ==
    LET c == ChainOf(p)
    IN  (\A i \in DOMAIN c : archives[c[i]] # NoArchive) /\ archives[Last(c)].base = NoPath

\* The first archive of the chain with a body of this key.
Has(p, key) == \E i \in DOMAIN ChainOf(p) : \E b \in archives[ChainOf(p)[i]].stored : Key(b) = key
Holder(p, key) ==
    LET c == ChainOf(p)
        i == CHOOSE i \in DOMAIN c : /\ \E b \in archives[c[i]].stored : Key(b) = key
                                     /\ \A j \in 1..(i - 1) : \A b \in archives[c[j]].stored : Key(b) # key
    IN  archives[c[i]]

\* Chain::body and the decoder behind it: found, undamaged, and the bytes the
\* manifest describes.
BodyOk(p, ref) ==
    /\ Has(p, Key(ref))
    /\ LET a == Holder(p, Key(ref)) IN (CHOOSE b \in a.stored : Key(b) = Key(ref)) = ref /\ ref \notin a.damaged
WalkOk(p) == \A t \in archives[p].tables : \A i \in DOMAIN archives[p].parts[t] : BodyOk(p, archives[p].parts[t][i])

\* The archive write_archive makes of the tables' flushed parts: a body is stored
\* unless the base chain has it, and the boundary is the LSN the next tick will take.
\* (`broken' is for the properties: the chain this archive begins does not open,
\* as it is on it itself or as MaxChain archives were on it already.)
NewArchive(p, b, full) ==
    LET refs == [t \in Tables |-> [i \in DOMAIN full[t].parts |-> Body(full[t].parts[i])]]
        all  == UNION {Range(refs[t]) : t \in tables}
    IN  [base |-> b, created |-> clock, boundary |-> next, tables |-> tables, parts |-> refs,
         stored |-> {x \in all : b = NoPath \/ ~Has(b, Key(x))}, damaged |-> {},
         at |-> Len(hist), truth |-> Db(mem, tables), tail |-> \E t \in tables : Dirty(t),
         remint |-> FALSE, broken |-> (b # NoPath /\ (p \in Range(ChainOf(b)) \/ Len(ChainOf(b)) = MaxChain))]

\* BACKUP TO p [INCREMENTAL FROM b]: the deltas are flushed, the base chain is
\* opened, and publishing the archive replaces what was at p.
Backup(p, b) ==
    LET full == [t \in Tables |-> IF t \in tables THEN Flush(mem[t]) ELSE mem[t]]
    IN  /\ Room /\ (b # NoPath => Opens(b))
        /\ mem' = full
        /\ archives' = [q \in Paths |->
              IF q = p THEN NewArchive(p, b, full)
              ELSE IF archives[q] # NoArchive /\ p \in Range(ChainOf(q)) THEN [archives[q] EXCEPT !.broken = TRUE]
              ELSE archives[q]]
        /\ UNCHANGED <<disk, log, segs, tables, next, clock, hist, into, crashes, rotten>>

\* A body of an archive, or a sealed segment of a log, stops being readable.
DamageArchive(p) ==
    /\ Room /\ archives[p] # NoArchive
    /\ \E x \in archives[p].stored : archives' = [archives EXCEPT ![p].damaged = @ \cup {x}]
    /\ UNCHANGED <<source, into, crashes, rotten>>
DamageLog(t) ==
    /\ Room /\ t \notin rotten /\ Len(segs[t]) > 1
    /\ rotten' = rotten \cup {t}
    /\ UNCHANGED <<source, archives, into, crashes>>

\* ------------------------------------------------------- the archived log
Latest == [kind |-> "latest", n |-> 0]
Lsn(n) == [kind |-> "lsn", n |-> n]
Time(n) == [kind |-> "time", n |-> n]
Plain == [kind |-> "plain", n |-> 0]
Keeps(target, tick) ==
    CASE target.kind = "latest" -> TRUE
      [] target.kind = "lsn" -> tick.seq =< target.n
      [] target.kind = "time" -> tick.ms =< target.n
      [] OTHER -> FALSE

HasLog(t) == log[t] # <<>>
Horizon(t) == Head(segs[t]).seq
Sealed(t) == Len(segs[t]) > 1
\* archive_end, over every log directory, of dropped tables too.
ArchiveEnd ==
    [seq   |-> Max({0} \cup {Last(segs[t]).seq : t \in {u \in Tables : Sealed(u)}}),
     ms    |-> Max({0} \cup {Last(segs[t]).ms : t \in {u \in Tables : Sealed(u)}}),
     first |-> IF \E t \in Tables : HasLog(t) THEN Min({Horizon(t) + 1 : t \in {u \in Tables : HasLog(u)}}) ELSE 0]
ArchiveLags == \E t \in Tables : Active(t) # <<>>

\* check_target.
TargetOk(a, target) ==
    LET end == ArchiveEnd
    IN  /\ end.seq = 0 => target = Latest
        /\ target.kind = "lsn" => (target.n + 1 >= a.boundary /\ target.n =< end.seq)
        /\ target.kind = "time" => (target.n >= a.created /\ ~(target.n > end.ms /\ ArchiveLags))
        /\ end.first =< a.boundary
        /\ \A t \in a.tables : HasLog(t) => Horizon(t) < a.boundary

\* (for a mutant) The tick at the boundary taken for one the backup has.
CutIncludesBoundary(c, en, from, target) ==
    CASE c.stopped -> c
      [] IsMutation(en) -> [c EXCEPT !.pending = Append(@, en)]
      [] en.seq =< from -> [c EXCEPT !.kept = <<>>, !.pending = <<>>]
      [] Keeps(target, en) -> [c EXCEPT !.kept = (@ \o c.pending) \o <<en>>, !.pending = <<>>]
      [] OTHER -> [c EXCEPT !.stopped = TRUE]

\* cut_segment: from behind the last tick the backup already has, through the
\* last tick the target keeps.
CutStep(c, en, from, target) ==
    CASE c.stopped -> c
      [] IsMutation(en) -> [c EXCEPT !.pending = Append(@, en)]
      [] en.seq < from -> [c EXCEPT !.kept = <<>>, !.pending = <<>>]
      [] Keeps(target, en) -> [c EXCEPT !.kept = (@ \o c.pending) \o <<en>>, !.pending = <<>>]
      [] OTHER -> [c EXCEPT !.stopped = TRUE]
CutSegment(entries, from, target) ==
    FoldLeft(LAMBDA c, en : CutStep(c, en, from, target), [kept |-> <<>>, pending |-> <<>>, stopped |-> FALSE], entries)

\* recover: the sealed segments in order, those that end before the backup
\* skipped.  A log with no mutation in it is not written at all.
RecoveredLog(stream, heads, from, target) ==
    LET seg(i)  == SubSeq(stream, heads[i].at + 1, heads[i + 1].at)
        skip(i) == heads[i + 1].seq # 0 /\ heads[i + 1].seq < from
        step(r, i) == IF r.stopped \/ skip(i) THEN r
                      ELSE LET c == CutSegment(seg(i), from, target)
                           IN  [body |-> r.body \o c.kept, stopped |-> c.stopped]
        body == FoldLeft(step, [body |-> <<>>, stopped |-> FALSE], [i \in 1..(Len(heads) - 1) |-> i]).body
    IN  IF \E i \in DOMAIN body : IsMutation(body[i]) THEN body ELSE <<>>
Recover(t, from, target) == RecoveredLog(log[t], segs[t], from, target)

\* ------------------------------------------------------------ the restore
\* A directory: which tables have their parts and TABLE, the log laid beside
\* each, and whether CATALOG is there.
NoDir == [phase |-> "none", path |-> NoPath, target |-> Plain, made |-> FALSE, done |-> {}, logs |-> [t \in Tables |-> <<>>],
          laid |-> {}, catalog |-> FALSE, result |-> "none"]
Refuse(dir) == [dir EXCEPT !.phase = "done", !.result = "refused"]

\* RESTORE FROM p TO ... [UNTIL target], up to the first write: check_target
\* for a roll-forward, then an empty directory, the chain, and every body.
RestoreBegin(p, target) ==
    LET a == archives[p]
        fresh == [into EXCEPT !.phase = "unpack", !.path = p, !.target = target, !.made = TRUE, !.result = "none"]
        ok == /\ a # NoArchive
              /\ target # Plain => TargetOk(a, target)
              /\ ~into.made
              /\ Opens(p) /\ WalkOk(p)
    IN  /\ into.phase \in {"none", "torn"}
        /\ a # NoArchive
        /\ into' = IF ok THEN fresh ELSE Refuse([into EXCEPT !.path = p, !.target = target])
        /\ UNCHANGED <<source, archives, ops, crashes, rotten>>

\* unpack, one table: its part files, then its TABLE record.
UnpackTable(t) ==
    /\ into.phase = "unpack" /\ t \in archives[into.path].tables \ into.done
    /\ into' = [into EXCEPT !.done = @ \cup {t}]
    /\ UNCHANGED <<source, archives, ops, crashes, rotten>>

\* restore_until, one table: its recovered log as segment 0.  A segment that
\* cannot be read ends the restore where it stands.
LayLog(t) ==
    LET a == archives[into.path]
    IN  /\ into.phase = "unpack" /\ into.done = a.tables /\ into.target # Plain /\ t \in a.tables \ into.laid
        /\ into' = IF t \in rotten THEN Refuse(into)
                   ELSE [into EXCEPT !.laid = @ \cup {t}, !.logs[t] = Recover(t, a.boundary, into.target)]
        /\ UNCHANGED <<source, archives, ops, crashes, rotten>>

\* (for a mutant) CATALOG before the logs.
PublishedEarly == into.done = archives[into.path].tables

\* publish: CATALOG, once everything it names is in place.
Published == /\ into.done = archives[into.path].tables
             /\ into.target = Plain \/ into.laid = archives[into.path].tables
PublishCatalog ==
    /\ into.phase = "unpack" /\ Published /\ ~into.catalog
    /\ into' = [into EXCEPT !.catalog = TRUE, !.phase = IF into.target = Plain THEN "done" ELSE "prove",
                            !.result = IF into.target = Plain THEN "ok" ELSE "none"]
    /\ UNCHANGED <<source, archives, ops, crashes, rotten>>

\* The loader on the restored directory: TABLE says fold point 0, so the whole
\* laid log is replayed onto the archived parts.
OpenTable(a, logs, t) ==
    Replay(Load([i \in DOMAIN a.parts[t] |-> [pid |-> a.parts[t][i].pid, rows |-> a.parts[t][i].rows, dead |-> a.parts[t][i].dead, homed |-> TRUE]], 0),
           logs[t], logs)
OpenedDb(a, logs) == [t \in Tables |-> IF t \in a.tables THEN Held(OpenTable(a, logs, t).m) ELSE [r \in Rows |-> 0]]
OpensClean(a, logs) == \A t \in a.tables : OpenTable(a, logs, t).ok

\* prove: a roll-forward is reported only if the directory opens.
Prove ==
    /\ into.phase = "prove"
    /\ into' = [into EXCEPT !.phase = "done", !.result = IF OpensClean(archives[into.path], into.logs) THEN "ok" ELSE "refused"]
    /\ UNCHANGED <<source, archives, ops, crashes, rotten>>

\* The process dies during a restore; the directory stays as it is.
TearRestore ==
    /\ into.phase \in {"unpack", "prove"}
    /\ into' = [into EXCEPT !.phase = IF into.catalog THEN "done" ELSE "torn", !.result = "none"]
    /\ UNCHANGED <<source, archives, ops, crashes, rotten>>

\* ------------------------------------------------------------------- spec
Targets == {Latest} \cup {Lsn(n) : n \in 0..next} \cup {Time(n) : n \in 0..clock}

\* A new data directory: mem, disk, log, segs, tables, next, clock, hist.
Fresh == <<[t \in Tables |-> Load(<<>>, 0)], [t \in Tables |-> [parts |-> <<>>, from |-> 0]], [t \in Tables |-> <<>>],
           [t \in Tables |-> <<[at |-> 0, seq |-> 0, ms |-> 0]>>], Tables, 1, 1, <<>>>>
Init ==
    /\ mem = Fresh[1] /\ disk = Fresh[2] /\ log = Fresh[3] /\ segs = Fresh[4]
    /\ tables = Fresh[5] /\ next = Fresh[6] /\ clock = Fresh[7] /\ hist = Fresh[8]
    /\ archives = [x \in Paths |-> NoArchive] /\ into = NoDir /\ ops = 0 /\ crashes = 0 /\ rotten = {}

Statement ==
    \/ \E t \in Tables, r \in Rows : InsertRow(t, r)
    \/ \E t, u \in Tables, r \in Rows : InsertBoth(t, u, r)
    \/ \E t \in Tables, keep \in {0, MaxOps} : FoldOne(t, keep)
    \/ \E keep \in {0, MaxOps} : Checkpoint(keep)
    \/ \E t \in Tables : \E i \in 1..(Len(mem[t].parts) + 1), pos \in 1..MaxRows : DeleteRow(t, i, pos)
    \/ \E t \in Tables : Truncate(t)
    \/ \E t \in Tables : Drop(t)
    \/ \E t \in Tables : Create(t)
    \/ \E p \in Paths, b \in Paths \cup {NoPath} : Backup(p, b)
Fault ==
    \/ Crash
    \/ \E t \in Tables, r \in Rows : CrashBeforeTick(t, r)
    \/ \E p \in Paths : DamageArchive(p)
    \/ \E t \in Tables : DamageLog(t)
RestoreStep == (\E t \in Tables : UnpackTable(t) \/ LayLog(t)) \/ PublishCatalog \/ Prove \/ TearRestore

Next ==
    \/ Statement \/ Fault
    \/ \E p \in Paths, target \in Targets \cup {Plain} : RestoreBegin(p, target)
    \/ RestoreStep
Spec == Init /\ [][Next]_vars

\* -------------------------------------------------------------- properties
Restored == into.phase = "done" /\ into.result = "ok"
From == archives[into.path]

\* The last acknowledged instant the target keeps, and what was held there.
TruthAt(target) ==
    Max({0} \cup {i \in DOMAIN hist : \A j \in 1..i : Keeps(target, hist[j])})
Truth(target) == IF TruthAt(target) = 0 THEN [t \in Tables |-> [r \in Rows |-> 0]] ELSE hist[TruthAt(target)].db

\* Where the code's roll-forward is known to miss an instant: a change that
\* was never logged; a table whose kept records are still in its live log; a
\* part identity the source minted, archived and forgot; a record that was in
\* the backup before it had an LSN; an LSN handed out twice.
Unlogged(a, target) == \E i \in (a.at + 1)..TruthAt(target) : hist[i].silent
Lags(a, target) ==
    \E t \in a.tables : \E k \in DOMAIN Active(t) :
        LET en == Active(t)[k] IN ~IsMutation(en) /\ en.seq >= a.boundary /\ Keeps(target, en)
Reused(a) ==
    \/ \E i, j \in DOMAIN hist : i < j /\ ~hist[i].silent /\ ~hist[j].silent /\ hist[j].seq =< hist[i].seq
    \/ \E i \in 1..a.at : a.boundary =< hist[i].seq
KnownGap(a, target) == Unlogged(a, target) \/ Lags(a, target) \/ a.remint \/ a.tail \/ Reused(a)

\* RESTORE without UNTIL gives back exactly the instant of the backup, through
\* any chain of incremental archives, and refuses only an archive that was
\* damaged, lost its base or has a chain longer than MAX_CHAIN (backup.rs,
\* table_into, Chain and unpack).
ArchiveIsTheInstant ==
    (into.phase = "done" /\ into.target = Plain) =>
        /\ Restored => OpenedDb(From, into.logs) = From.truth
        /\ (into.result = "refused" /\ ~into.made) =>
              From.broken \/ \E p \in Range(ChainOf(into.path)) : archives[p].damaged # {}

\* RESTORE ... UNTIL that reports success holds exactly what the source held
\* at the target, transactions over two tables whole, unless one of the named
\* gaps lies between the backup and the target (check_target, recover, prove).
RollForwardExact ==
    (Restored /\ into.target # Plain) =>
        \/ OpenedDb(From, into.logs) = Truth(into.target)
        \/ KnownGap(From, into.target)

\* A restore that stops half-way leaves a directory no session opens: CATALOG
\* is there only when every table and every log it needs is (restore_until,
\* the publish thunk of unpack; tests/on_disk_identity.rs).
TornRestoreRefused ==
    into.catalog =>
        /\ into.done = From.tables
        /\ into.target # Plain => \A t \in From.tables : into.logs[t] = Recover(t, From.boundary, into.target)

=============================================================================
