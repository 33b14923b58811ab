------------------------------ MODULE TableStore ------------------------------
(***************************************************************************)
(* One keyed table in memory (storage/table.rs, delta.rs, part.rs, and the  *)
(* statements of session.rs that drive it): a write buffer in front of a    *)
(* list of immutable parts, each with a mask of hidden rows.  A key may be  *)
(* in the buffer and in several parts at once; which of its rows counts is  *)
(* what this module is about.                                               *)
(*                                                                          *)
(* PartSet::push only appends, under the next identity, so the order of the *)
(* parts is the order of their pids and a part set is a function on pids.   *)
(***************************************************************************)
EXTENDS Integers, Sequences, FiniteSets

CONSTANTS
  Keys, Vals,
  MaxBatch,    \* bound: rows in one statement
  Bulk,        \* BULK_INSERT_THRESHOLD: rows that go straight into a part
  DeltaLimit,  \* delta_limit: buffered keys that force a flush
  AutoParts,   \* AUTO_COMPACT_PARTS
  MaxPid,      \* bound: part identities ever minted
  MayFail      \* whether building a part may fail (fail_build, Part::build)

ASSUME StoreAssumption ==
  /\ IsFiniteSet(Keys)
  /\ MaxBatch \in Nat /\ Bulk \in Nat /\ DeltaLimit \in Nat \ {0}
  /\ AutoParts \in Nat /\ MaxPid \in Nat /\ MayFail \in BOOLEAN

VARIABLES
  delta,     \* the write buffer: the keys it touched, and the rows it holds
  pub,       \* the published part set
  view,      \* Table::txn, the open transaction's private part set
  inTxn,     \* a transaction is open on the table
  poisoned,  \* a statement of it failed: it can only roll back
  phase,     \* "replay" (Table::set_replaying), "steady", then "run"
  lastStmt   \* history: the last statement, whether it answered Ok, and a bit

vars == <<delta, pub, view, inTxn, poisoned, phase, lastStmt>>

\* A statement answers; the bit tells it from the one before.
Label(req, ok) == <<req, ok, 1 - lastStmt[3]>>

Row    == [k : Keys, v : Vals]
Part   == [pid : Nat, rows : SUBSET Row, dead : SUBSET Row]
Buffer == [touched : SUBSET Keys, rows : SUBSET Row]

Empty    == [touched |-> {}, rows |-> {}]
EmptySet == [parts |-> {}, next |-> 1]

Live(p)   == p.rows \ p.dead
KeysOf(R) == {r.k : r \in R}

\* The parts of set s that hold a live row of key k (Part::find_live).
Homes(s, k) == {p \in s.parts : k \in KeysOf(Live(p))}

\* PartSet::live_rows.
LiveRows(s) == UNION {Live(p) : p \in s.parts}

\* edit/peek: the set this session's reads and writes work on.
Cur == IF inTxn THEN view ELSE pub

\* publish: replace that set.
SetCur(s) ==
  IF inTxn THEN view' = s /\ UNCHANGED pub ELSE pub' = s /\ UNCHANGED view

-----------------------------------------------------------------------------
(* Building blocks.                                                         *)

BatchKeys(b) == {b[i].k : i \in DOMAIN b}

\* The rows of a batch that count: the last one of each key
\* (keep_last_of_sorted_runs, dedup_perm_last_by_key).
LastRows(b) == {b[i] : i \in {j \in DOMAIN b : \A l \in DOMAIN b : l > j => b[l].k # b[j].k}}

Without(R, ks) == {r \in R : r.k \notin ks}

\* Delta::put_keyed of every row of a batch, in order.
PutAll(d, b) ==
  [touched |-> d.touched \cup BatchKeys(b),
   rows    |-> Without(d.rows, BatchKeys(b)) \cup LastRows(b)]

\* Delta::delete_keyed.
DeleteKeyed(d, k) ==
  [touched |-> d.touched \cup {k}, rows |-> Without(d.rows, {k})]

\* tombstone_key, for each key of ks: oldest part first, stop at a live row.
Tombstone(s, ks) ==
  [s EXCEPT !.parts = {[p EXCEPT !.dead = @ \cup {r \in Live(p) :
     r.k \in ks /\ \A q \in Homes(s, r.k) : p.pid <= q.pid}] : p \in s.parts}]

\* Mutant: the identity counter is not moved past the new part.
PushSamePid(s, rows) ==
  [s EXCEPT !.parts = @ \cup {[pid |-> s.next, rows |-> rows, dead |-> {}]}]

\* PartSet::push of a freshly built part.
Push(s, rows) ==
  [parts |-> s.parts \cup {[pid |-> s.next, rows |-> rows, dead |-> {}]},
   next  |-> s.next + 1]

\* Delta::touched_keys: deletes included.
Touched(d) == d.touched

\* The publish phase of Table::flush: Delta::to_block, tombstones, push.
FlushTo(d, s) ==
  LET hidden == Tombstone(s, Touched(d))
  IN  IF d.rows = {} THEN hidden ELSE Push(hidden, d.rows)

\* Table::ingest_block: last row per key, older rows hidden, one publish.
Ingest(s, b) == Push(Tombstone(s, BatchKeys(b)), LastRows(b))

\* Mutant: a merge takes every row of its inputs.
MergeAllRows(s, T) ==
  LET rows == UNION {p.rows : p \in T}
      rest == [s EXCEPT !.parts = @ \ T]
  IN  IF rows = {} THEN rest ELSE Push(rest, rows)

\* Table::merge_parts: the live rows of the parts T become one new part.
Merge(s, T) ==
  LET rows == UNION {Live(p) : p \in T}
      rest == [s EXCEPT !.parts = @ \ T]
  IN  IF rows = {} THEN rest ELSE Push(rest, rows)

\* The parts maybe_auto_compact may take: smallest first, at least half of
\* AUTO_COMPACT_PARTS, then while the running total stays in budget.
Size(p)  == Cardinality(Live(p))
Total(T) == Cardinality(UNION {{<<p.pid, r>> : r \in Live(p)} : p \in T})

Budget(s) == IF Total(s.parts) < 4 THEN 1 ELSE Total(s.parts) \div 4

Fits(s, T) == Cardinality(T) <= AutoParts \div 2 \/ Total(T) <= Budget(s)

Takes(s) ==
  {T \in SUBSET s.parts :
     /\ \A p \in T, q \in s.parts \ T : Size(p) <= Size(q)
     /\ Fits(s, T)
     /\ \A q \in s.parts \ T :
          (\A p \in s.parts \ T : Size(q) <= Size(p)) => ~Fits(s, T \cup {q})}

Crowded(s) == Cardinality(s.parts) >= AutoParts

\* maybe_auto_compact: the sets it may leave (the sort of the sizes is not
\* stable, so any of the equal ones).
AutoCompact(s) ==
  IF ~Crowded(s) \/ phase = "replay" THEN {s}
  ELSE {IF Cardinality(T) < 2 THEN s ELSE Merge(s, T) : T \in Takes(s)}

\* The outcome of a call: the buffer, the set, and whether it reports an error.
Outcome(d, s, err) == [d |-> d, s |-> s, err |-> err]

\* maybe_auto_compact builds a part, so it can fail with nothing changed.
Compacted(d, s) ==
  {Outcome(d, c, FALSE) : c \in AutoCompact(s)}
    \cup (IF MayFail /\ Crowded(s) THEN {Outcome(d, s, TRUE)} ELSE {})

\* Mutant: a flush takes the buffer before the build that may fail.
FlushedTakesFirst(d, s) ==
  IF d.touched = {} THEN {Outcome(d, s, FALSE)}
  ELSE Compacted(Empty, FlushTo(d, s))
         \cup (IF MayFail THEN {Outcome(Empty, s, TRUE)} ELSE {})

\* Table::flush.
Flushed(d, s) ==
  IF d.touched = {} THEN {Outcome(d, s, FALSE)}
  ELSE Compacted(Empty, FlushTo(d, s))
         \cup (IF MayFail THEN {Outcome(d, s, TRUE)} ELSE {})

-----------------------------------------------------------------------------
(* Reading.                                                                 *)

\* The scan every SELECT runs sees these rows, after its flush.
ScanRows(s, d) == d.rows \cup Without(LiveRows(s), d.touched)

ValuesAt(R, k) == {r.v : r \in {x \in R : x.k = k}}

\* Mutant: a point lookup does not look at the delete masks.
LocateUnmasked(s, d, k) ==
  IF k \in d.touched THEN ValuesAt(d.rows, k)
  ELSE UNION {ValuesAt(p.rows, k) : p \in {h \in s.parts :
         \A q \in s.parts : k \in KeysOf(q.rows) => q.pid <= h.pid}}

\* locate_in: the buffer, then the newest part with a live row.
Locate(s, d, k) ==
  IF k \in d.touched THEN ValuesAt(d.rows, k)
  ELSE UNION {ValuesAt(Live(p), k) : p \in {h \in Homes(s, k) :
         \A q \in Homes(s, k) : q.pid <= h.pid}}

\* reject_key_collisions: a key twice in the batch, or already stored.  The
\* shortcut for an empty table is part of the code.
Collides(d, s, b) ==
  \/ \E i, j \in DOMAIN b : i # j /\ b[i].k = b[j].k
  \/ /\ ~(d.touched = {} /\ LiveRows(s) = {})
     /\ \E k \in BatchKeys(b) : Locate(s, d, k) # {}

-----------------------------------------------------------------------------
(* The table's operations, as the outcomes they may have.                   *)

\* The body of insert_with once its batch is accepted.
Insert(d, s, b) ==
  IF Len(b) >= Bulk
  THEN UNION {IF o.err THEN {o}
              ELSE Compacted(Empty, Ingest(o.s, b))
                     \cup (IF MayFail THEN {Outcome(Empty, o.s, TRUE)} ELSE {})
              : o \in Flushed(d, s)}
  ELSE IF Cardinality(d.touched \cup BatchKeys(b)) >= DeltaLimit
       THEN Flushed(PutAll(d, b), s)
       ELSE {Outcome(PutAll(d, b), s, FALSE)}

\* insert_with(KeyConflict::Reject).  The bulk path flushes before it checks.
InsertReject(d, s, b) ==
  IF Len(b) >= Bulk
  THEN UNION {IF o.err THEN {o}
              ELSE IF Collides(o.d, o.s, b) THEN {Outcome(o.d, o.s, TRUE)}
              ELSE Insert(o.d, o.s, b) : o \in Flushed(d, s)}
  ELSE IF Collides(d, s, b) THEN {Outcome(d, s, TRUE)} ELSE Insert(d, s, b)

\* delete_where_keys on a flushed table: hide every live row it matches.
Sweep(s, ks) ==
  [s EXCEPT !.parts = {[p EXCEPT !.dead = @ \cup {r \in Live(p) : r.k \in ks}]
                       : p \in s.parts}]

-----------------------------------------------------------------------------
\* Bound: at most MaxBatch rows, each with a value of its own.
Batches == {b \in UNION {[1 .. n -> Row] : n \in 1 .. MaxBatch} :
              \A i, j \in DOMAIN b : i # j => b[i].v # b[j].v}

Init ==
  /\ delta = Empty /\ pub = EmptySet /\ view = EmptySet
  /\ inTxn = FALSE /\ poisoned = FALSE
  /\ phase = "replay" /\ lastStmt = <<[op |-> "none"], TRUE, 0>>

\* Bound: a call that would mint more than MaxPid identities is not made.
InBound(o) == o.s.next <= MaxPid + 1

\* Statement req, whose call had outcome o: an error poisons an open transaction.
Apply(o, req) ==
  /\ InBound(o)
  /\ delta' = o.d
  /\ SetCur(o.s)
  /\ poisoned' = (poisoned \/ (o.err /\ inTxn))
  /\ lastStmt' = Label(req, ~o.err)
  /\ UNCHANGED <<inTxn, phase>>

Running == phase = "run" /\ ~poisoned

\* apply_replay: Table::insert and Table::delete_key.
ReplayInsert(b) ==
  phase = "replay" /\ \E o \in Insert(delta, pub, b) :
    ~o.err /\ Apply(o, [op |-> "insert", rows |-> b])

ReplayDelete(k) ==
  /\ phase = "replay"
  /\ LET d == DeleteKeyed(delta, k)
     IN  \E o \in (IF Cardinality(d.touched) >= DeltaLimit
                   THEN Flushed(d, pub) ELSE {Outcome(d, pub, FALSE)}) :
           ~o.err /\ Apply(o, [op |-> "delete", keys |-> {k}])

\* load_catalog after the replay.
EndReplay ==
  /\ phase = "replay" /\ phase' = "steady"
  /\ UNCHANGED <<delta, pub, view, inTxn, poisoned, lastStmt>>

\* compact_to_steady, pass by pass: while there are too many parts and the
\* last pass made them fewer.
CompactToSteady ==
  /\ phase = "steady"
  /\ \E c \in IF Crowded(pub) THEN AutoCompact(pub) ELSE {pub} :
       /\ c.next <= MaxPid + 1
       /\ pub' = c
       /\ phase' = IF Crowded(c) /\ Cardinality(c.parts) < Cardinality(pub.parts)
                   THEN "steady" ELSE "run"
  /\ UNCHANGED <<delta, view, inTxn, poisoned, lastStmt>>

\* INSERT, and INSERT into a table whose key is UNIQUE.
InsertStmt(b) ==
  Running /\ \E o \in Insert(delta, Cur, b) : Apply(o, [op |-> "insert", rows |-> b])

InsertUnique(b) ==
  Running /\ \E o \in InsertReject(delta, Cur, b) :
    Apply(o, [op |-> "insert unique", rows |-> b])

\* Any SELECT, and row_count: flush first.
Select == Running /\ \E o \in Flushed(delta, Cur) : Apply(o, [op |-> "select"])

\* DELETE: an implicit transaction around one sweep, so it is one publish.
Delete(ks) ==
  Running /\ \E o \in Flushed(delta, Cur) :
    Apply(IF o.err THEN o ELSE Outcome(o.d, Sweep(o.s, ks), FALSE),
          [op |-> "delete", keys |-> ks])

\* UPDATE of the rows of ks, their keys going to `to`: the statement's new rows
\* are computed first, then the old ones are swept, then the new ones inserted
\* and flushed.  An UPDATE that does not assign the key has no sweep and
\* replaces.  Outside a transaction an error leaves the flushed table.
UpdateIn(s, b, ks, carried) ==
  LET swept == IF carried THEN s ELSE Sweep(s, ks)
      ins   == IF carried THEN Insert(Empty, swept, b) ELSE InsertReject(Empty, swept, b)
  IN  UNION {IF o.err THEN {o} ELSE Flushed(o.d, o.s) : o \in ins}

RowOrder(ks) ==
  CHOOSE f \in [1 .. Cardinality(ks) -> ks] : \A i, j \in DOMAIN f : i # j => f[i] # f[j]

NewRows(ks, to, v) ==
  [i \in 1 .. Cardinality(ks) |-> [k |-> to[RowOrder(ks)[i]], v |-> v]]

Update(ks, to, v) ==
  LET carried == \A k \in ks : to[k] = k
      req     == [op |-> "update", to |-> to, val |-> v]
  IN
  /\ Running /\ ks # {} /\ Cardinality(ks) <= MaxBatch
  /\ ks \subseteq KeysOf(ScanRows(Cur, delta))
  /\ \E o \in Flushed(delta, Cur) :
       IF o.err THEN Apply(o, req)
       ELSE \E u \in UpdateIn(o.s, NewRows(ks, to, v), ks, carried) :
              Apply(IF u.err /\ ~inTxn THEN Outcome(o.d, o.s, TRUE) ELSE u, req)

\* OPTIMIZE TABLE: Table::compact.
Compact ==
  Running /\ \E o \in Flushed(delta, Cur) :
    LET all  == o.s.parts
        idle == Cardinality(all) <= 1 /\ \A p \in all : p.dead = {}
        req  == [op |-> "optimize"]
    IN  \/ Apply(IF o.err \/ idle THEN o ELSE Outcome(o.d, Merge(o.s, all), FALSE), req)
        \/ MayFail /\ ~o.err /\ Apply(Outcome(o.d, o.s, TRUE), req)

\* Session::enlist, Table::begin_txn: the buffer is flushed, then the overlay
\* starts as the published set.
BeginTxn ==
  /\ phase = "run" /\ ~inTxn
  /\ \E o \in Flushed(delta, pub) :
       /\ InBound(o)
       /\ delta' = o.d /\ pub' = o.s
       /\ IF o.err THEN UNCHANGED <<view, inTxn>>
          ELSE view' = o.s /\ inTxn' = TRUE
       /\ lastStmt' = Label([op |-> "begin"], ~o.err)
  /\ UNCHANGED <<poisoned, phase>>

\* Table::rollback_txn.
Discard ==
  /\ inTxn' = FALSE /\ view' = EmptySet /\ poisoned' = FALSE
  /\ delta' = Empty /\ UNCHANGED pub

\* Session::commit: a poisoned transaction rolls back; commit_durable flushes,
\* and if that fails COMMIT rolls back; else Table::commit_txn.
CommitTxn ==
  /\ inTxn
  /\ \/ poisoned /\ Discard /\ lastStmt' = Label([op |-> "commit"], FALSE)
     \/ /\ ~poisoned
        /\ \E o \in Flushed(delta, view) :
             /\ InBound(o)
             /\ lastStmt' = Label([op |-> "commit"], ~o.err)
             /\ IF o.err THEN Discard
                ELSE /\ pub' = o.s /\ delta' = o.d /\ view' = EmptySet
                     /\ inTxn' = FALSE /\ UNCHANGED poisoned
  /\ UNCHANGED phase

RollbackTxn ==
  inTxn /\ Discard /\ lastStmt' = Label([op |-> "rollback"], TRUE) /\ UNCHANGED phase

Next ==
  \/ \E b \in Batches : ReplayInsert(b) \/ InsertStmt(b) \/ InsertUnique(b)
  \/ \E k \in Keys : ReplayDelete(k)
  \/ EndReplay \/ CompactToSteady \/ Select \/ Compact
  \/ \E ks \in SUBSET Keys : Delete(ks)
  \/ \E ks \in SUBSET Keys : \E to \in [ks -> Keys] : \E v \in Vals : Update(ks, to, v)
  \/ BeginTxn \/ CommitTxn \/ RollbackTxn

Spec == Init /\ [][Next]_vars
-----------------------------------------------------------------------------
\* Types of the state this module keeps.
TypeOK ==
  /\ delta \in Buffer /\ KeysOf(delta.rows) \subseteq delta.touched
  /\ \A s \in {pub, view} :
       /\ s.next \in Nat /\ s.parts \subseteq Part
       /\ \A p \in s.parts : p.pid < s.next /\ p.dead \subseteq p.rows
  /\ inTxn \in BOOLEAN /\ poisoned \in BOOLEAN
  /\ phase \in {"replay", "steady", "run"}

\* A key has at most one live row among the parts of a set, so that a merge of
\* any subset, newest-first lookups and oldest-first tombstones agree
\* (tombstone_key, ingest_block, merge_parts).
OneLiveRow ==
  \A s \in {pub, view} : \A p, q \in s.parts :
    \A r \in Live(p), t \in Live(q) : r.k = t.k => p = q /\ r = t

\* A point lookup through the index finds what a scan of the same key returns
\* (locate_in against Table::scan).
ProbeAgreesWithScan ==
  \A k \in Keys : Locate(Cur, delta, k) = ValuesAt(ScanRows(Cur, delta), k)

\* The table implements the keyed map: a statement that answers Ok changes the
\* rows it names and no others, one that fails changes nothing or (an INSERT)
\* is whole, an UPDATE never collapses two rows, a flush, merge or failed build
\* inside a SELECT, OPTIMIZE or compact_to_steady changes no answer, and a
\* transaction is invisible until COMMIT.
AsMap(R) == [k \in Keys |-> ValuesAt(R, k)]

Map == INSTANCE KeyedMap WITH
  working <- AsMap(ScanRows(Cur, delta)),
  committed <- AsMap(IF inTxn THEN ScanRows(pub, Empty) ELSE ScanRows(pub, delta))
MapSpec == Map!Spec
=============================================================================
