------------------------------ MODULE Checkpoint ------------------------------
(***************************************************************************)
(* How the tables of a data directory reach the disk and come back: part   *)
(* files, the TABLE record that is a table's commit point, the CATALOG     *)
(* that says which tables exist, the incremental checkpoint that reuses a  *)
(* part's file, the DDL statements that end in a checkpoint, and opening   *)
(* the directory again (persist/store.rs, persist/writer.rs, catalog.rs,   *)
(* and the DDL of session.rs).                                             *)
(*                                                                         *)
(* The tables have no primary key, so a DELETE names rows by position      *)
(* inside a part: "part pid, position pos".  A record of the log takes one *)
(* unit of its stream, and is durable when the statement is acknowledged   *)
(* (module Wal); stream positions therefore count records.  A part file's  *)
(* bytes are its rows in sort order, its delete mask and its identity.     *)
(***************************************************************************)
EXTENDS Integers, Sequences, FiniteSets, SequencesExt, FiniteSetsExt

CONSTANTS
  Names,      \* table names of the one database
  MaxRows,    \* rows ever inserted (a row is its number, and its sort key)
  MaxStmts,   \* statements that change the catalog or checkpoint it
  MaxMerges,  \* merges of parts
  MaxFaults,  \* crashes, damaged files and failed checkpoints
  None,       \* no table, no record
  Faults      \* which faults happen: a subset of FaultKinds

FaultKinds == {"kill", "power", "late", "rot", "checkpoint_error"}

ASSUME CheckpointAssumption ==
  /\ IsFiniteSet(Names) /\ Names # {}
  /\ {MaxRows, MaxStmts, MaxMerges, MaxFaults} \subseteq Nat
  /\ Faults \subseteq FaultKinds

VARIABLES
  mem,     \* the catalog in memory: a table, a quarantined one, or None
  log,     \* each name's log stream: it outlives the table
  dir,     \* each name's directory: part files and TABLE record
  cat,     \* CATALOG: the definition under each name, or None
  catOld,  \* rosters a power loss may bring back: CATALOG renamed, not synced
  todo,    \* what is left of the running statement's checkpoint
  at,      \* the table being written out
  acked,   \* what clients have been told: contents under each name
  want,    \* what the running statement will have made of it
  lost,    \* names hit by damage, or by a RENAME refused half way
  rows, stmts, merges, faults   \* counters

vars == <<mem, log, dir, cat, catOld, todo, at, acked, want, lost,
          rows, stmts, merges, faults>>
disk == <<log, dir, cat, catOld>>
counters == <<rows, stmts, merges, faults>>

NoFile == 0
Max0(S) == IF S = {} THEN 0 ELSE Max(S)
Sorted(S) == CHOOSE s \in [1..Cardinality(S) -> S] : \A i, j \in DOMAIN s : i < j => s[i] < s[j]

-----------------------------------------------------------------------------
\* Parts, tables and files.

Positions(p) == DOMAIN p.rows
Live(p) == {p.rows[i] : i \in Positions(p) \ p.dead}

Table(def, ps, next) == [def |-> def, bad |-> FALSE, delta |-> {}, parts |-> ps, next |-> next]
IsTable(t) == t # None /\ ~t.bad

\* PartSet::seed_pids: a table without parts starts above the log's position.
Seeded(floor) == floor + 1

TableRows(t) == t.delta \cup UNION {Live(p) : p \in t.parts}

\* What a client sees under a name.
Contents(t) == IF t = None THEN None
               ELSE [def |-> t.def, bad |-> t.bad, rows |-> TableRows(t)]

View(m) == [n \in Names |-> Contents(m[n])]

\* PartSet::push of a part built in memory: a fresh identity, no file.
Build(R, pid) == [pid |-> pid, rows |-> Sorted(R), dead |-> {}, seq |-> NoFile, homed |-> FALSE]

\* Table::flush
Flush(t) == IF t.delta = {} THEN t
            ELSE [t EXCEPT !.delta = {}, !.next = @ + 1, !.parts = @ \cup {Build(t.delta, t.next)}]

FlushAll(m) == [n \in Names |-> IF IsTable(m[n]) THEN Flush(m[n]) ELSE m[n]]

\* Mutant: any part's identity may be cited.
CitableAlways(p) == TRUE

\* PartSet::citable: an identity a log record may cite.
Citable(p) == p.homed

\* Mutant: the file is kept although its mask is out of date.
TombstoneKeepsFile(p, poss) == [p EXCEPT !.dead = @ \cup poss]

\* PartSet::tombstone: a moved mask gives up the file, not the identity.
Tombstone(p, poss) == IF poss \subseteq p.dead THEN p
                      ELSE [p EXCEPT !.dead = @ \cup poss, !.seq = NoFile]

NoDir == [files |-> {}, table |-> None, fresh |-> {}, old |-> {}]

\* write_part_with: the part as it is and its mask, under one number.
PartFile(p, seq) == [seq |-> seq, pid |-> p.pid, rows |-> p.rows, dead |-> p.dead, ok |-> TRUE]

\* read_part: the same rows at the same positions, known to come from a file.
ReadPart(f) == [pid |-> f.pid, rows |-> f.rows, dead |-> f.dead, seq |-> f.seq, homed |-> TRUE]

\* table_doc: the live parts and the log position they cover.
TableDoc(def, names, wc) == [def |-> def, files |-> names, wc |-> wc]

FileOf(d, s) == CHOOSE f \in d.files : f.seq = s
Seqs(d) == {f.seq : f \in d.files}

-----------------------------------------------------------------------------
\* load_catalog: what opening a directory makes of it.

Suffix(l, wc) == {l[i] : i \in (wc + 1)..Len(l)}

\* reader::read_table_image and PartSet::adopt
Adopted(d) == {ReadPart(f) : f \in {g \in d.files : g.seq \in d.table.files}}

\* Every file TABLE names is there and decodes.
Readable(d) == \A s \in d.table.files : \E f \in d.files : f.seq = s /\ f.ok

\* PartSet::index_of: only a part that came from a file answers to its pid.
Resolves(ps, r) == \E p \in ps : /\ Citable(p)
                                 /\ p.pid = r.pid
                                 /\ r.poss \subseteq Positions(p)

\* apply_replay: a record that does not decode or resolve quarantines the table.
Replayable(t, recs) == \A r \in recs : /\ r.def = t.def
                                       /\ r.kind = "mask" => Resolves(t.parts, r)

Masked(p, recs) ==
  Tombstone(p, UNION {r.poss : r \in {q \in recs : q.kind = "mask" /\ Citable(p) /\ q.pid = p.pid}})

Replay(t, recs) ==
  [t EXCEPT !.parts = {Masked(p, recs) : p \in @},
            !.delta = {r.row : r \in {q \in recs : q.kind = "ins"}}]

Quarantined(def) == [Table(def, {}, 1) EXCEPT !.bad = TRUE]

\* One table of the roster.  Without a TABLE record nothing is replayed.
Load(def, d, l) ==
  IF d.table = None THEN Table(def, {}, Seeded(Len(l)))
  ELSE LET ps == Adopted(d)
           t == Table(d.table.def, ps,
                      IF ps = {} THEN Seeded(d.table.wc) ELSE 1 + Max({p.pid : p \in ps}))
       IN IF Readable(d) /\ Replayable(t, Suffix(l, d.table.wc))
          THEN Replay(t, Suffix(l, d.table.wc))
          ELSE Quarantined(d.table.def)

LoadCatalog(roster, ds) ==
  [n \in Names |-> IF roster[n] = None THEN None ELSE Load(roster[n], ds[n], log[n])]

\* What a power loss may leave of one directory: every rename that no
\* directory fsync has covered may be lost, each on its own.
Image(d, gone, tbl) ==
  [d EXCEPT !.files = {f \in @ : f.seq \notin gone}, !.table = tbl, !.fresh = {}, !.old = {}]
Images(d) == {Image(d, gone, tbl) : gone \in SUBSET d.fresh, tbl \in {d.table} \cup d.old}

AllImages == {ds \in [Names -> UNION {Images(dir[n]) : n \in Names}] :
                \A n \in Names : ds[n] \in Images(dir[n])}

Rosters == {cat} \cup catOld

-----------------------------------------------------------------------------
\* The steps of a checkpoint, as the running statement's list of things to do.

WriteTables == [i \in 1..Cardinality(Names) |-> [do |-> "table", n |-> SetToSeq(Names)[i]]]
SaveCatalog == WriteTables \o <<[do |-> "catalog"], [do |-> "collect"]>>

NotWriting == [pc |-> "none"]

Idle == todo = <<>>
Step == todo[1]

Init ==
  /\ mem = [n \in Names |-> None]
  /\ log = [n \in Names |-> <<>>]
  /\ dir = [n \in Names |-> NoDir]
  /\ cat = [n \in Names |-> None] /\ catOld = {}
  /\ todo = <<>> /\ at = NotWriting
  /\ acked = [n \in Names |-> None] /\ want = acked /\ lost = {}
  /\ rows = 0 /\ stmts = 0 /\ merges = 0 /\ faults = 0

\* The statement begins its checkpoint: memory already has its effect.
Begin(m, steps) ==
  /\ stmts < MaxStmts /\ stmts' = stmts + 1
  /\ mem' = m
  /\ todo' = steps
  /\ want' = View(m)
  /\ UNCHANGED <<log, dir, cat, catOld, at, acked, lost, rows, merges, faults>>

\* The last step of a statement acknowledges it.
Proceed ==
  /\ todo' = Tail(todo)
  /\ acked' = IF Len(todo) = 1 THEN want ELSE acked

-----------------------------------------------------------------------------
\* Statements that only touch one table's memory and log.

\* A statement that needs no checkpoint is acknowledged as it returns.
Ack(m) == /\ acked' = View(m) /\ want' = acked'
          /\ UNCHANGED <<dir, cat, catOld, todo, at, lost, stmts, faults>>

Insert(n) ==
  /\ Idle /\ IsTable(mem[n]) /\ rows < MaxRows
  /\ rows' = rows + 1
  /\ log' = [log EXCEPT ![n] = Append(@, [kind |-> "ins", def |-> mem[n].def, row |-> rows'])]
  /\ mem' = [mem EXCEPT ![n].delta = @ \cup {rows'}]
  /\ Ack(mem')
  /\ UNCHANGED merges

\* SYSTEM FLUSH, and the flush before every SELECT.
FlushBuffers ==
  /\ Idle
  /\ mem' = FlushAll(mem)
  /\ UNCHANGED <<disk, todo, at, acked, want, lost, counters>>

\* Table::merge_parts of any of the parts (which ones OPTIMIZE FINAL and
\* auto-compaction take is module TableStore's subject).
MergeParts(n) ==
  /\ Idle /\ IsTable(mem[n]) /\ merges < MaxMerges
  /\ merges' = merges + 1
  /\ \E ps \in SUBSET mem[n].parts :
       LET kept == UNION {Live(p) : p \in ps}
           pid == mem[n].next
       IN /\ Cardinality(ps) > 1 \/ \E p \in ps : p.dead # {}
          /\ mem' = [mem EXCEPT
               ![n].parts = (@ \ ps) \cup (IF kept = {} THEN {} ELSE {Build(kept, pid)}),
               ![n].next = IF kept = {} THEN pid ELSE pid + 1]
  /\ UNCHANGED <<disk, todo, at, acked, want, lost, rows, stmts, faults>>

\* The rows of part p that a DELETE of the rows S hides.
Hits(p, S) == {i \in Positions(p) \ p.dead : p.rows[i] \in S}

Hide(t, S) == [t EXCEPT !.parts = {Tombstone(p, Hits(p, S)) : p \in @}]

MaskRuns(t, S) == {[kind |-> "mask", def |-> t.def, pid |-> p.pid, poss |-> Hits(p, S)] :
                     p \in {q \in t.parts : Hits(q, S) # {} /\ Citable(q)}}

Dark(t, S) == \E p \in t.parts : Hits(p, S) # {} /\ ~Citable(p)

\* Session::apply_sweep of a DELETE whose rows a record can all name.
Sweep(n, S) ==
  LET t == Flush(mem[n]) IN
  /\ Idle /\ IsTable(mem[n]) /\ S # {} /\ S \subseteq TableRows(t) /\ ~Dark(t, S)
  /\ log' = [log EXCEPT ![n] = @ \o SetToSeq(MaskRuns(t, S))]
  /\ mem' = [mem EXCEPT ![n] = Hide(t, S)]
  /\ Ack(mem')
  /\ UNCHANGED <<rows, merges>>

-----------------------------------------------------------------------------
\* Statements that write the table, or everything, out.

\* apply_sweep, when a hidden row has no durable name: the staged records are
\* dropped and the statement commits by folding the table (mark_fold).
DarkSweep(n, S) ==
  LET t == Flush(mem[n]) IN
  /\ Idle /\ IsTable(mem[n]) /\ S # {} /\ S \subseteq TableRows(t) /\ Dark(t, S)
  /\ Begin([mem EXCEPT ![n] = Hide(t, S)], <<[do |-> "table", n |-> n]>>)

\* drain_folds: the log of n has grown past wal_fold_bytes.
Fold(n) == Idle /\ IsTable(mem[n]) /\ Begin([mem EXCEPT ![n] = Flush(@)], <<[do |-> "table", n |-> n]>>)

CheckpointStmt == Idle /\ Begin(FlushAll(mem), SaveCatalog)

\* run_create_table: TABLE is written at once, then everything is.
Create(n) ==
  /\ Idle /\ mem[n] = None
  /\ Begin(FlushAll([mem EXCEPT ![n] = Table(0, {}, Seeded(Len(log[n])))]),
           <<[do |-> "table", n |-> n]>> \o SaveCatalog)

Drop(n) == Idle /\ mem[n] # None /\ Begin(FlushAll([mem EXCEPT ![n] = None]), SaveCatalog)

Truncate(n) ==
  /\ Idle /\ IsTable(mem[n])
  /\ Begin(FlushAll([mem EXCEPT ![n] = Table(mem[n].def, {}, Seeded(Len(log[n])))]), SaveCatalog)

\* ADD, DROP and MODIFY COLUMN: a new table, numbered from one again.
Alter(n) ==
  /\ Idle /\ IsTable(mem[n])
  /\ LET R == TableRows(mem[n])
     IN Begin(FlushAll([mem EXCEPT ![n] = [Table(@.def + 1, {}, 1) EXCEPT !.delta = R]]),
              SaveCatalog)

\* run_rename_table: nothing is in the way that table_by_path would return,
\* which a quarantined table is not.
Rename(a, b) ==
  /\ Idle /\ a # b /\ IsTable(mem[a]) /\ ~IsTable(mem[b])
  /\ Begin(FlushAll(mem), SaveCatalog \o <<[do |-> "link", from |-> a, to |-> b],
                                 [do |-> "move", from |-> a, to |-> b]>> \o SaveCatalog)

-----------------------------------------------------------------------------
\* save_catalog and write_table, one step per durable effect.

\* A number above every file that is there and above the log's position.
NextSeq(n) == 1 + Max(Seqs(dir[n]) \cup {Len(log[n])})

\* The roll and the choice of what to write: a part whose file is there is
\* reused, the others get new numbers.
StartTable ==
  /\ ~Idle /\ Step.do = "table" /\ at.pc = "none"
  /\ LET n == Step.n IN
     IF IsTable(mem[n])
     THEN LET reused == {p \in mem[n].parts : p.seq \in Seqs(dir[n])}
          IN /\ at' = [pc |-> "parts", n |-> n, wc |-> Len(log[n]),
                       next |-> NextSeq(n),
                       onDisk |-> Seqs(dir[n]),
                       names |-> {p.seq : p \in reused},
                       left |-> mem[n].parts \ reused,
                       claims |-> {}]
             /\ UNCHANGED <<todo, acked>>
     ELSE Proceed /\ UNCHANGED at
  /\ UNCHANGED <<mem, log, dir, cat, catOld, want, lost, counters>>

\* publish: temp file, fsync, rename; the directory is not synced yet.
PublishPart ==
  /\ at.pc = "parts" /\ at.left # {}
  /\ LET p == CHOOSE q \in at.left : \A r \in at.left : q.pid <= r.pid
         f == PartFile(p, at.next)
     IN /\ dir' = [dir EXCEPT ![at.n].files = @ \cup {f}, ![at.n].fresh = @ \cup {f.seq}]
        /\ at' = [at EXCEPT !.next = @ + 1, !.left = @ \ {p}, !.names = @ \cup {f.seq},
                            !.claims = @ \cup {[pid |-> p.pid, seq |-> f.seq]}]
  /\ UNCHANGED <<mem, log, cat, catOld, todo, acked, want, lost, counters>>

\* A directory fsync covers every rename in that directory.
Synced(d) == [d EXCEPT !.fresh = {}, !.old = {}]

SyncParts ==
  /\ at.pc = "parts" /\ at.left = {}
  /\ dir' = [dir EXCEPT ![at.n] = IF at.claims = {} THEN @ ELSE Synced(@)]
  /\ at' = [at EXCEPT !.pc = "commit"]
  /\ UNCHANGED <<mem, log, cat, catOld, todo, acked, want, lost, counters>>

\* store::commit of TABLE, skipped when the file already says so.
CommitTable ==
  /\ at.pc = "commit"
  /\ LET rec == TableDoc(mem[at.n].def, at.names, at.wc)
         same == dir[at.n].table = rec
     IN /\ dir' = [dir EXCEPT ![at.n].table = rec,
                              ![at.n].old = IF same THEN @ ELSE @ \cup {dir[at.n].table}]
        /\ at' = [at EXCEPT !.pc = IF same THEN "claim" ELSE "sync"]
  /\ UNCHANGED <<mem, log, cat, catOld, todo, acked, want, lost, counters>>

SyncTable ==
  /\ at.pc = "sync"
  /\ dir' = [dir EXCEPT ![at.n] = Synced(@)]
  /\ at' = [at EXCEPT !.pc = "claim"]
  /\ UNCHANGED <<mem, log, cat, catOld, todo, acked, want, lost, counters>>

Claimed(p) == IF \E c \in at.claims : c.pid = p.pid
              THEN [p EXCEPT !.homed = TRUE,
                             !.seq = (CHOOSE c \in at.claims : c.pid = p.pid).seq]
              ELSE p

\* set_origin of what was written, then the unlinks, which may fail.
FinishTable ==
  /\ at.pc = "claim"
  /\ mem' = [mem EXCEPT ![at.n].parts = {Claimed(p) : p \in @}]
  /\ \E gone \in {{}, at.onDisk \ at.names} :
       dir' = [dir EXCEPT ![at.n].files = {f \in @ : f.seq \notin gone}]
  /\ at' = NotWriting
  /\ Proceed
  /\ UNCHANGED <<log, cat, catOld, want, lost, counters>>

\* Mutant: only what resolves is listed.
RosterHealthyOnly(m) == [n \in Names |-> IF IsTable(m[n]) THEN m[n].def ELSE None]

\* The roster names a quarantined table too.
Roster(m) == [n \in Names |-> IF m[n] = None THEN None ELSE m[n].def]

\* store::commit of CATALOG, skipped when the file already says so.
CommitCatalog ==
  /\ ~Idle /\ Step.do = "catalog" /\ at.pc = "none"
  /\ IF cat = Roster(mem) THEN Proceed /\ UNCHANGED <<cat, catOld, at>>
     ELSE /\ cat' = Roster(mem) /\ catOld' = catOld \cup {cat}
          /\ at' = [pc |-> "root"]
          /\ UNCHANGED <<todo, acked>>
  /\ UNCHANGED <<mem, log, dir, want, lost, counters>>

\* The fsync of the root directory.
SyncCatalog ==
  /\ at.pc = "root"
  /\ catOld' = {} /\ at' = NotWriting
  /\ Proceed
  /\ UNCHANGED <<mem, log, dir, cat, want, lost, counters>>

\* collect_dropped_tables: directories with a TABLE record that no name in
\* memory claims; removal may fail.
CollectDropped ==
  /\ ~Idle /\ Step.do = "collect"
  /\ \E gone \in {{}, {n \in Names : mem[n] = None /\ dir[n].table # None}} :
       dir' = [n \in Names |-> IF n \in gone THEN NoDir ELSE dir[n]]
  /\ Proceed
  /\ UNCHANGED <<mem, log, cat, catOld, at, want, lost, counters>>

\* link_table_dir: the parts under the new name, with its own TABLE.
Linked(a, b) ==
  LET names == {p.seq : p \in mem[a].parts}
  IN [NoDir EXCEPT !.files = {f \in dir[a].files : f.seq \in names},
                   !.table = TableDoc(mem[a].def, names, Len(log[b]))]

\* One step, though the code removes, makes, links, commits and syncs: until the
\* CATALOG that ends the RENAME no roster names the destination, so an open
\* after a crash in between does not read what is there.
Link ==
  /\ ~Idle /\ Step.do = "link"
  /\ dir' = [dir EXCEPT ![Step.to] =
               IF \A p \in mem[Step.from].parts : p.seq \in Seqs(dir[Step.from])
               THEN Linked(Step.from, Step.to) ELSE @]
  /\ Proceed
  /\ UNCHANGED <<mem, log, cat, catOld, at, want, lost, counters>>

Move ==
  /\ ~Idle /\ Step.do = "move" /\ mem[Step.to] = None
  /\ mem' = [mem EXCEPT ![Step.to] = mem[Step.from], ![Step.from] = None]
  /\ want' = View(mem')
  /\ lost' = IF Step.from \in lost THEN lost \cup {Step.to} ELSE lost
  /\ Proceed
  /\ UNCHANGED <<disk, at, counters>>

\* Catalog::create_table refuses the name a quarantined table still holds,
\* after the old entry was dropped: the statement fails there.
MoveRefused ==
  /\ ~Idle /\ Step.do = "move" /\ mem[Step.to] # None
  /\ mem' = [mem EXCEPT ![Step.from] = None]
  /\ acked' = View(mem') /\ want' = acked'
  /\ todo' = <<>>
  /\ lost' = lost \cup {Step.from, Step.to}
  /\ UNCHANGED <<disk, at, counters>>

-----------------------------------------------------------------------------
\* Faults.

Fault(kind) == kind \in Faults /\ faults < MaxFaults /\ faults' = faults + 1

Reopen(m) ==
  /\ mem' = m /\ acked' = View(m) /\ want' = acked'
  /\ todo' = <<>> /\ at' = NotWriting
  /\ UNCHANGED <<log, lost, rows, stmts, merges>>

\* The process ends and the directory is opened again.  Unless "late" is one
\* of the faults, the renames have been written back before the power goes.
Kill ==
  /\ Fault("kill")
  /\ Reopen(LoadCatalog(cat, dir))
  /\ dir' = IF "late" \in Faults THEN dir ELSE [n \in Names |-> Synced(dir[n])]
  /\ catOld' = IF "late" \in Faults THEN catOld ELSE {}
  /\ UNCHANGED cat

PowerLoss ==
  /\ Fault("power")
  /\ dir' \in AllImages /\ cat' \in Rosters /\ catOld' = {}
  /\ Reopen(LoadCatalog(cat', dir'))

\* Damage at rest: one part file of n is no longer readable.
Rot(n) ==
  /\ Fault("rot") /\ Idle /\ mem[n] # None /\ lost' = lost \cup {n}
  /\ \E f \in dir[n].files :
       dir' = [dir EXCEPT ![n].files = (@ \ {f}) \cup {[f EXCEPT !.ok = FALSE]}]
  /\ UNCHANGED <<mem, log, cat, catOld, todo, at, acked, want, rows, stmts, merges>>

\* A write or a rename of CHECKPOINT or of a fold fails (with "late", a
\* directory fsync after the rename of a record as well): the rest of it is
\* given up, and what it already did to the disk stays.  The checkpoint that ends
\* a DDL statement does not fail here.
CheckpointFails ==
  /\ Fault("checkpoint_error") /\ ~Idle /\ want = acked
  /\ "late" \in Faults \/ at.pc \notin {"sync", "root"}
  /\ \A i \in DOMAIN todo : todo[i].do \in {"table", "catalog", "collect"}
  /\ todo' = <<>> /\ at' = NotWriting
  /\ UNCHANGED <<mem, log, dir, cat, catOld, acked, want, lost, rows, stmts, merges>>

-----------------------------------------------------------------------------
Statement ==
  \/ \E n \in Names : \/ Insert(n) \/ MergeParts(n) \/ Fold(n)
                      \/ Create(n) \/ Drop(n) \/ Truncate(n) \/ Alter(n)
                      \/ \E S \in SUBSET (1..rows) : Sweep(n, S) \/ DarkSweep(n, S)
                      \/ \E m \in Names : Rename(n, m)
  \/ FlushBuffers \/ CheckpointStmt

CheckpointStep ==
  \/ StartTable \/ PublishPart \/ SyncParts \/ CommitTable \/ SyncTable \/ FinishTable
  \/ CommitCatalog \/ SyncCatalog \/ CollectDropped
  \/ Link \/ Move \/ MoveRefused

Next == Statement \/ CheckpointStep \/ Kill \/ PowerLoss \/ CheckpointFails
        \/ \E n \in Names : Rot(n)

Spec == Init /\ [][Next]_vars

-----------------------------------------------------------------------------
\* Properties.

PartOK(p) == /\ p.pid \in Nat \ {0} /\ p.seq \in Nat /\ p.homed \in BOOLEAN
             /\ p.rows \in Seq(1..MaxRows) /\ p.dead \subseteq Positions(p)

Agree(m, c) == \A n \in Names \ lost : Contents(m[n]) = c[n]

\* Whenever the process or the power fails, opening the directory gives
\* exactly the tables, definitions and rows that were acknowledged, or those
\* of the statement in flight, and quarantines nothing that is undamaged
\* (load_catalog against write_table, save_catalog and every DDL statement).
CrashSafe ==
  \A roster \in Rosters : \A ds \in AllImages :
    LET m == LoadCatalog(roster, ds) IN Agree(m, acked) \/ Agree(m, want)

\* A part that claims a file finds, in that file, exactly its rows and its
\* mask: what makes it sound for write_table to name the file again instead
\* of writing the part (PartSet::origins).  Numbers and identities name one
\* file and one part each (write_table allocates above what is there,
\* PartSet::push above every part it has had).
OriginIsExact ==
  \A n \in Names :
    /\ \A f, g \in dir[n].files : f.seq = g.seq => f = g
    /\ mem[n] # None =>
         /\ \A p, q \in mem[n].parts : p.pid < mem[n].next /\ (p.pid = q.pid => p = q)
         /\ \A p \in mem[n].parts : p.seq \in Seqs(dir[n]) =>
              LET f == FileOf(dir[n], p.seq)
              IN f.pid = p.pid /\ f.rows = p.rows /\ f.dead = p.dead

\* The directory of a quarantined table, and its name in the roster, are as
\* they were after the step; damage at rest is nobody's step.
KeepsQuarantined ==
  \A n \in Names :
    (/\ mem[n] # None /\ mem[n].bad /\ mem'[n] # None /\ mem'[n].bad
     /\ ~Idle => Step.do # "link"
     /\ ~Rot(n))
      => /\ dir'[n].files = dir[n].files /\ dir'[n].table = dir[n].table
         /\ cat[n] # None => cat'[n] # None

\* A checkpoint leaves the files of a quarantined table alone and keeps its
\* name in the roster: they are what a repair works from (save_catalog and
\* Catalog::quarantined_def).  DROP and RENAME are the operator's own doing.
QuarantineKept == [][KeepsQuarantined]_vars

=============================================================================
