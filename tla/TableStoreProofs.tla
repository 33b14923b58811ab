-------------------------- MODULE TableStoreProofs --------------------------
(***************************************************************************)
(* Proofs about TableStore, for any keys and values, any batch size and    *)
(* any thresholds: a key has one live row, a lookup agrees with a scan,    *)
(* and the buffer in front of the masked parts implements a keyed map.     *)
(*                                                                         *)
(* The argument: every building block (tombstones, push, merge, flush,     *)
(* ingest, sweep) takes good sets to good sets and is described by what it *)
(* does to the rows a scan returns.  Flushing and merging leave those rows *)
(* alone, so an operation's outcome is its effect on one set of rows.      *)
(***************************************************************************)
EXTENDS TableStore, FiniteSetTheorems, WellFoundedInduction, TLAPS

PartSets == [parts : SUBSET Part, next : Nat]

\* At most one row of each key.
UniqueKeys(R) == \A r, t \in R : r.k = t.k => r = t

\* A part set whose identities are below the next one and whose keys have at
\* most one live row.
GoodSet(s) ==
  /\ s \in PartSets
  /\ \A p \in s.parts : p.pid < s.next /\ p.dead \subseteq p.rows
  /\ \A p, q \in s.parts : \A r \in Live(p), t \in Live(q) : r.k = t.k => p = q /\ r = t

\* A buffer that has touched the keys of its rows, one row each.
GoodBuffer(d) ==
  /\ d \in Buffer
  /\ KeysOf(d.rows) \subseteq d.touched
  /\ UniqueKeys(d.rows)

Good(o) == GoodBuffer(o.d) /\ GoodSet(o.s) /\ o.err \in BOOLEAN

\* The rows a scan returns after a call with outcome o.
RowsOf(o) == ScanRows(o.s, o.d)

IInv ==
  /\ GoodBuffer(delta) /\ GoodSet(pub) /\ GoodSet(view)
  /\ inTxn \in BOOLEAN /\ poisoned \in BOOLEAN
  /\ phase \in {"replay", "steady", "run"}
  /\ phase # "run" => ~inTxn /\ ~poisoned

(***************************************************************************)
(* Sets of rows.                                                           *)
(***************************************************************************)
\* The live rows of a set are rows, one per key, and a home of a key is where
\* its live row is.
LEMMA LiveFacts ==
  ASSUME NEW s, GoodSet(s)
  PROVE  /\ LiveRows(s) \subseteq Row
         /\ UniqueKeys(LiveRows(s))
         /\ \A p \in s.parts : Live(p) \subseteq LiveRows(s) /\ p \in Part
         /\ \A p \in s.parts : \A r \in Live(p) : Homes(s, r.k) = {p}
  <1>1. \A p \in s.parts : p \in Part /\ Live(p) \subseteq Row
    BY DEF GoodSet, PartSets, Part, Live
  <1>2. LiveRows(s) \subseteq Row /\ UniqueKeys(LiveRows(s))
    BY <1>1 DEF LiveRows, UniqueKeys, GoodSet
  <1>3. \A p \in s.parts : Live(p) \subseteq LiveRows(s)
    BY DEF LiveRows
  <1>4. ASSUME NEW p \in s.parts, NEW r \in Live(p) PROVE Homes(s, r.k) = {p}
    BY <1>4 DEF Homes, KeysOf, GoodSet
  <1> QED
    BY <1>1, <1>2, <1>3, <1>4

\* tombstone_key hides the rows of its keys, wherever they are, and no other.
LEMMA TombstoneFacts ==
  ASSUME NEW s, GoodSet(s), NEW ks
  PROVE  /\ GoodSet(Tombstone(s, ks))
         /\ LiveRows(Tombstone(s, ks)) = Without(LiveRows(s), ks)
         /\ Tombstone(s, ks).next = s.next
  <1> DEFINE Hid(p) == {r \in Live(p) : r.k \in ks /\ \A q \in Homes(s, r.k) : p.pid <= q.pid}
             F(p) == [p EXCEPT !.dead = @ \cup Hid(p)]
             T == Tombstone(s, ks)
  <1>1. \A p \in s.parts : Hid(p) = {r \in Live(p) : r.k \in ks}
    <2> SUFFICES ASSUME NEW p \in s.parts, NEW r \in Live(p), NEW q \in Homes(s, r.k)
                 PROVE  p.pid <= q.pid
      OBVIOUS
    <2>1. q = p
      BY LiveFacts
    <2>2. p.pid \in Nat
      BY DEF GoodSet, PartSets, Part
    <2> QED
      BY <2>1, <2>2
  <1> HIDE DEF Hid
  <1>2. \A p \in s.parts : p \in Part /\ Hid(p) \subseteq p.rows /\ Hid(p) \subseteq Row
    BY <1>1, LiveFacts DEF Live, Part
  <1>3. \A p \in s.parts :
           /\ F(p) \in Part
           /\ F(p).pid = p.pid /\ F(p).rows = p.rows /\ F(p).dead = p.dead \cup Hid(p)
    BY <1>2 DEF Part
  <1>4. \A p \in s.parts : Live(F(p)) = {r \in Live(p) : r.k \notin ks}
    BY <1>1, <1>3 DEF Live
  <1>5. T.parts = {F(p) : p \in s.parts} /\ T.next = s.next /\ T \in PartSets
    <2>1. T = [s EXCEPT !.parts = {F(p) : p \in s.parts}]
      BY DEF Tombstone, Hid
    <2>2. {F(p) : p \in s.parts} \subseteq Part
      BY <1>3
    <2> HIDE DEF T, F
    <2> QED
      BY <2>1, <2>2 DEF GoodSet, PartSets
  <1> HIDE DEF F, T
  <1>6. \A p \in T.parts : p.pid < T.next /\ p.dead \subseteq p.rows
    BY <1>2, <1>3, <1>5 DEF GoodSet
  <1>7. \A p, q \in T.parts : \A r \in Live(p), t \in Live(q) : r.k = t.k => p = q /\ r = t
    BY <1>4, <1>5 DEF GoodSet
  <1>8. LiveRows(T) = Without(LiveRows(s), ks)
    BY <1>4, <1>5 DEF LiveRows, Without
  <1> QED
    BY <1>5, <1>6, <1>7, <1>8 DEF GoodSet, T

\* delete_where_keys does the same in one pass over each part.
LEMMA SweepFacts ==
  ASSUME NEW s, GoodSet(s), NEW ks
  PROVE  /\ GoodSet(Sweep(s, ks))
         /\ LiveRows(Sweep(s, ks)) = Without(LiveRows(s), ks)
         /\ Sweep(s, ks).next = s.next
  <1> DEFINE Hid(p) == {r \in Live(p) : r.k \in ks}
             F(p) == [p EXCEPT !.dead = @ \cup Hid(p)]
             T == Sweep(s, ks)
  <1>2. \A p \in s.parts : p \in Part /\ Hid(p) \subseteq p.rows /\ Hid(p) \subseteq Row
    BY LiveFacts DEF Live, Part
  <1>3. \A p \in s.parts :
           /\ F(p) \in Part
           /\ F(p).pid = p.pid /\ F(p).rows = p.rows /\ F(p).dead = p.dead \cup Hid(p)
    BY <1>2 DEF Part
  <1>4. \A p \in s.parts : Live(F(p)) = {r \in Live(p) : r.k \notin ks}
    BY <1>3 DEF Live
  <1>5. T.parts = {F(p) : p \in s.parts} /\ T.next = s.next /\ T \in PartSets
    <2>1. T = [s EXCEPT !.parts = {F(p) : p \in s.parts}]
      BY DEF Sweep
    <2>2. {F(p) : p \in s.parts} \subseteq Part
      BY <1>3
    <2> HIDE DEF T, F
    <2> QED
      BY <2>1, <2>2 DEF GoodSet, PartSets
  <1> HIDE DEF F, T
  <1>6. \A p \in T.parts : p.pid < T.next /\ p.dead \subseteq p.rows
    BY <1>2, <1>3, <1>5 DEF GoodSet
  <1>7. \A p, q \in T.parts : \A r \in Live(p), t \in Live(q) : r.k = t.k => p = q /\ r = t
    BY <1>4, <1>5 DEF GoodSet
  <1>8. LiveRows(T) = Without(LiveRows(s), ks)
    BY <1>4, <1>5 DEF LiveRows, Without
  <1> QED
    BY <1>5, <1>6, <1>7, <1>8 DEF GoodSet, T

\* A part whose keys no live row has may be pushed.
LEMMA PushFacts ==
  ASSUME NEW s, GoodSet(s), NEW R, R \subseteq Row, UniqueKeys(R),
         \A r \in R, t \in LiveRows(s) : r.k # t.k
  PROVE  GoodSet(Push(s, R)) /\ LiveRows(Push(s, R)) = LiveRows(s) \cup R
  <1> DEFINE n == [pid |-> s.next, rows |-> R, dead |-> {}]
             T == Push(s, R)
  <1>1. n \in Part /\ n.pid = s.next /\ n.rows = R /\ n.dead = {} /\ Live(n) = R
    BY DEF Part, Live, GoodSet, PartSets
  <1> HIDE DEF n
  <1>2. T.parts = s.parts \cup {n} /\ T.next = s.next + 1 /\ T \in PartSets
    BY <1>1 DEF Push, GoodSet, PartSets, n
  <1> HIDE DEF T
  <1>3. \A p \in T.parts : p.pid < T.next /\ p.dead \subseteq p.rows
    BY <1>1, <1>2 DEF GoodSet, PartSets, Part
  <1>4. \A p \in s.parts : Live(p) \subseteq LiveRows(s)
    BY DEF LiveRows
  <1>5. ASSUME NEW p \in T.parts, NEW q \in T.parts, NEW r \in Live(p), NEW t \in Live(q), r.k = t.k
        PROVE  p = q /\ r = t
    BY <1>1, <1>2, <1>4, <1>5 DEF GoodSet, UniqueKeys
  <1>6. LiveRows(T) = LiveRows(s) \cup R
    BY <1>1, <1>2 DEF LiveRows
  <1> QED
    BY <1>2, <1>3, <1>5, <1>6 DEF GoodSet, T

\* merge_parts, of any of the parts, changes no live row.
LEMMA MergeFacts ==
  ASSUME NEW s, GoodSet(s), NEW T, T \subseteq s.parts
  PROVE  GoodSet(Merge(s, T)) /\ LiveRows(Merge(s, T)) = LiveRows(s)
  <1> DEFINE R == UNION {Live(p) : p \in T}
             rest == [s EXCEPT !.parts = @ \ T]
  <1>1. rest \in PartSets /\ rest.parts = s.parts \ T /\ rest.next = s.next
    BY DEF GoodSet, PartSets
  <1>2. Merge(s, T) = IF R = {} THEN rest ELSE Push(rest, R)
    BY DEF Merge
  <1> HIDE DEF rest
  <1>3. GoodSet(rest)
    BY <1>1 DEF GoodSet
  <1>4. R \subseteq Row /\ UniqueKeys(R)
    BY LiveFacts DEF UniqueKeys, GoodSet
  <1>5. \A r \in R, t \in LiveRows(rest) : r.k # t.k
    <2> SUFFICES ASSUME NEW p \in T, NEW q \in s.parts \ T, NEW r \in Live(p), NEW t \in Live(q), r.k = t.k
                 PROVE  FALSE
      BY <1>1 DEF LiveRows
    <2> QED
      BY DEF GoodSet
  <1>6. LiveRows(rest) \cup R = LiveRows(s)
    BY <1>1 DEF LiveRows
  <1> HIDE DEF R
  <1> QED
    BY <1>2, <1>3, <1>4, <1>5, <1>6, PushFacts

(***************************************************************************)
(* Calls that leave the rows of a scan alone: compaction and flush.        *)
(***************************************************************************)
\* A scan returns rows, one per key; only the live rows of the parts matter
\* to it, and an empty buffer hides nothing.
LEMMA ScanFacts ==
  ASSUME NEW s, GoodSet(s), NEW d, GoodBuffer(d)
  PROVE  ScanRows(s, d) \subseteq Row /\ UniqueKeys(ScanRows(s, d))
  <1>1. LiveRows(s) \subseteq Row /\ UniqueKeys(LiveRows(s))
    BY LiveFacts
  <1>2. d.rows \subseteq Row /\ UniqueKeys(d.rows) /\ \A r \in d.rows : r.k \in d.touched
    BY DEF GoodBuffer, Buffer, KeysOf
  <1> QED
    BY <1>1, <1>2 DEF ScanRows, Without, UniqueKeys

\* The empty delta hides nothing and holds nothing.
LEMMA EmptyFacts ==
  /\ GoodBuffer(Empty)
  /\ \A s : ScanRows(s, Empty) = LiveRows(s)
  /\ \A d : GoodBuffer(d) /\ d.touched = {} => d = Empty
  <1>1. Empty \in Buffer /\ Empty.touched = {} /\ Empty.rows = {}
    BY DEF Empty, Buffer
  <1>2. GoodBuffer(Empty)
    BY <1>1 DEF GoodBuffer, KeysOf, UniqueKeys
  <1>3. \A s : ScanRows(s, Empty) = LiveRows(s)
    BY <1>1 DEF ScanRows, Without
  <1>4. ASSUME NEW d, GoodBuffer(d), d.touched = {} PROVE d = Empty
    <2>1. d.rows = {}
      BY <1>4 DEF GoodBuffer, KeysOf
    <2> QED
      BY <1>4, <2>1 DEF GoodBuffer, Buffer, Empty
  <1> QED
    BY <1>2, <1>3, <1>4

\* maybe_auto_compact.
LEMMA AutoCompactFacts ==
  ASSUME NEW s, GoodSet(s), NEW c \in AutoCompact(s)
  PROVE  GoodSet(c) /\ LiveRows(c) = LiveRows(s)
  <1>1. c = s \/ \E T \in SUBSET s.parts : c = Merge(s, T)
    BY DEF AutoCompact, Takes
  <1> QED
    BY <1>1, MergeFacts

\* Automatic compaction, finished or failed, keeps every live row.
LEMMA CompactedFacts ==
  ASSUME NEW s, GoodSet(s), NEW d, GoodBuffer(d), NEW o \in Compacted(d, s)
  PROVE  Good(o) /\ o.d = d /\ LiveRows(o.s) = LiveRows(s) /\ RowsOf(o) = ScanRows(s, d)
  <1>1. /\ o.d = d
        /\ o.s = s \/ o.s \in AutoCompact(s)
        /\ o.err \in BOOLEAN
    <2>1. (\E c \in AutoCompact(s) : o = Outcome(d, c, FALSE)) \/ o = Outcome(d, s, TRUE)
      BY DEF Compacted
    <2>2. CASE \E c \in AutoCompact(s) : o = Outcome(d, c, FALSE)
      BY <2>2 DEF Outcome
    <2>3. CASE o = Outcome(d, s, TRUE)
      BY <2>3 DEF Outcome
    <2> QED
      BY <2>1, <2>2, <2>3
  <1>2. GoodSet(o.s) /\ LiveRows(o.s) = LiveRows(s)
    BY <1>1, AutoCompactFacts
  <1> QED
    BY <1>1, <1>2 DEF Good, RowsOf, ScanRows

\* Table::flush: the buffered rows become a part, and what they replace is
\* hidden; the scan does not notice.
LEMMA FlushToFacts ==
  ASSUME NEW s, GoodSet(s), NEW d, GoodBuffer(d)
  PROVE  GoodSet(FlushTo(d, s)) /\ LiveRows(FlushTo(d, s)) = ScanRows(s, d)
  <1> DEFINE h == Tombstone(s, d.touched)
  <1>1. GoodSet(h) /\ LiveRows(h) = Without(LiveRows(s), d.touched)
    BY TombstoneFacts
  <1>2. FlushTo(d, s) = IF d.rows = {} THEN h ELSE Push(h, d.rows)
    BY DEF FlushTo, Touched
  <1> HIDE DEF h
  <1>3. /\ d.rows \subseteq Row /\ UniqueKeys(d.rows)
        /\ \A r \in d.rows, t \in LiveRows(h) : r.k # t.k
    BY <1>1 DEF GoodBuffer, Buffer, KeysOf, Without
  <1>4. CASE d.rows = {}
    BY <1>1, <1>2, <1>4 DEF ScanRows
  <1>5. CASE d.rows # {}
    BY <1>1, <1>2, <1>3, <1>5, PushFacts DEF ScanRows
  <1> QED
    BY <1>4, <1>5

\* A flush, finished or failed halfway, keeps the rows a scan sees.
LEMMA FlushedFacts ==
  ASSUME NEW s, GoodSet(s), NEW d, GoodBuffer(d), NEW o \in Flushed(d, s)
  PROVE  Good(o) /\ RowsOf(o) = ScanRows(s, d) /\ (~o.err => o.d = Empty)
  <1>1. CASE d.touched = {}
    <2>1. o = Outcome(d, s, FALSE)
      BY <1>1 DEF Flushed
    <2> QED
      BY <1>1, <2>1, EmptyFacts DEF Good, RowsOf, Outcome
  <1>2. CASE o \in Compacted(Empty, FlushTo(d, s))
    BY <1>2, FlushToFacts, CompactedFacts, EmptyFacts
  <1>3. CASE o = Outcome(d, s, TRUE)
    BY <1>3 DEF Good, RowsOf, Outcome
  <1> QED
    BY <1>1, <1>2, <1>3 DEF Flushed

(***************************************************************************)
(* Inserting a batch.                                                      *)
(***************************************************************************)
IsBatch(b) == \E n \in Nat : b \in [1 .. n -> Row]

\* What an accepted batch makes of the rows of a scan.
Inserted(R, b) == Without(R, BatchKeys(b)) \cup LastRows(b)

\* A non-empty set of indices has a last one.
LEMMA LastIndex ==
  ASSUME NEW n \in Nat, NEW I, I \subseteq 1 .. n, I # {}
  PROVE  \E i \in I : \A j \in I : j <= i
  <1> DEFINE J == {n - i : i \in I}
  <1>1. J \subseteq Nat /\ J # {}
    <2>1. \A i \in I : i \in 1 .. n /\ n - i \in Nat
      OBVIOUS
    <2> QED
      BY <2>1
  <1>2. PICK x \in J : \A y \in J : ~(<<y, x>> \in OpToRel(<, Nat))
    BY <1>1, NatLessThanWellFounded, WFMin
  <1>3. \A y \in J : ~(y < x)
    BY <1>1, <1>2 DEF OpToRel
  <1>4. PICK i \in I : x = n - i
    OBVIOUS
  <1>5. \A j \in I : j <= i
    <2> SUFFICES ASSUME NEW j \in I PROVE j <= i
      OBVIOUS
    <2>1. ~(n - j < n - i)
      BY <1>3, <1>4
    <2>2. i \in 1 .. n /\ j \in 1 .. n
      OBVIOUS
    <2> QED
      BY <2>1, <2>2
  <1> QED
    BY <1>5

\* keep_last_of_sorted_runs keeps one row of every key of the batch.
LEMMA LastRowsFacts ==
  ASSUME NEW b, IsBatch(b)
  PROVE  /\ LastRows(b) \subseteq Row
         /\ UniqueKeys(LastRows(b))
         /\ KeysOf(LastRows(b)) = BatchKeys(b)
         /\ BatchKeys(b) \subseteq Keys
  <1>1. PICK n \in Nat : b \in [1 .. n -> Row]
    BY DEF IsBatch
  <1>2. LastRows(b) \subseteq Row /\ BatchKeys(b) \subseteq Keys
    BY <1>1 DEF LastRows, BatchKeys, Row
  <1>3. UniqueKeys(LastRows(b))
    BY <1>1 DEF LastRows, UniqueKeys
  <1>4. KeysOf(LastRows(b)) \subseteq BatchKeys(b)
    BY DEF KeysOf, LastRows, BatchKeys
  <1>5. ASSUME NEW k \in BatchKeys(b) PROVE k \in KeysOf(LastRows(b))
    <2> DEFINE I == {i \in 1 .. n : b[i].k = k}
    <2>1. I \subseteq 1 .. n /\ I # {}
      BY <1>1 DEF BatchKeys
    <2>2. PICK i \in I : \A j \in I : j <= i
      BY <2>1, LastIndex
    <2>3. b[i] \in LastRows(b)
      BY <1>1, <2>2 DEF LastRows
    <2> QED
      BY <2>3 DEF KeysOf
  <1> QED
    BY <1>2, <1>3, <1>4, <1>5

\* Delta::put_keyed of every row.
LEMMA PutAllFacts ==
  ASSUME NEW s, GoodSet(s), NEW d, GoodBuffer(d), NEW b, IsBatch(b)
  PROVE  GoodBuffer(PutAll(d, b)) /\ ScanRows(s, PutAll(d, b)) = Inserted(ScanRows(s, d), b)
  <1> DEFINE e == PutAll(d, b)
  <1>1. /\ e.touched = d.touched \cup BatchKeys(b)
        /\ e.rows = Without(d.rows, BatchKeys(b)) \cup LastRows(b)
        /\ e = [touched |-> d.touched \cup BatchKeys(b),
                rows |-> Without(d.rows, BatchKeys(b)) \cup LastRows(b)]
    BY DEF PutAll
  <1> HIDE DEF e
  <1>2. \A r \in LastRows(b) : r.k \in BatchKeys(b)
    BY LastRowsFacts DEF KeysOf
  <1>3. e \in Buffer
    BY <1>1, LastRowsFacts DEF GoodBuffer, Buffer, Without
  <1>4. KeysOf(e.rows) \subseteq e.touched
    BY <1>1, <1>2 DEF GoodBuffer, KeysOf, Without
  <1>5. UniqueKeys(e.rows)
    BY <1>1, <1>2, LastRowsFacts DEF GoodBuffer, UniqueKeys, Without
  <1>6. ScanRows(s, e) = Inserted(ScanRows(s, d), b)
    BY <1>1 DEF ScanRows, Inserted, Without
  <1> QED
    BY <1>3, <1>4, <1>5, <1>6 DEF GoodBuffer, e

\* Table::ingest_block.
LEMMA IngestFacts ==
  ASSUME NEW s, GoodSet(s), NEW b, IsBatch(b)
  PROVE  GoodSet(Ingest(s, b)) /\ LiveRows(Ingest(s, b)) = Inserted(LiveRows(s), b)
  <1> DEFINE h == Tombstone(s, BatchKeys(b))
  <1>1. GoodSet(h) /\ LiveRows(h) = Without(LiveRows(s), BatchKeys(b))
    BY TombstoneFacts
  <1>2. Ingest(s, b) = Push(h, LastRows(b))
    BY DEF Ingest
  <1> HIDE DEF h
  <1>3. \A r \in LastRows(b), t \in LiveRows(h) : r.k # t.k
    BY <1>1, LastRowsFacts DEF KeysOf, Without
  <1> QED
    BY <1>1, <1>2, <1>3, LastRowsFacts, PushFacts DEF Inserted

\* Table::insert_with: the batch is in, or, after an error, perhaps not at all.
LEMMA InsertFacts ==
  ASSUME NEW s, GoodSet(s), NEW d, GoodBuffer(d), NEW b, IsBatch(b), NEW o \in Insert(d, s, b)
  PROVE  /\ Good(o)
         /\ \/ RowsOf(o) = Inserted(ScanRows(s, d), b)
            \/ o.err /\ RowsOf(o) = ScanRows(s, d)
  <1>1. CASE Len(b) >= Bulk
    <2>1. PICK f \in Flushed(d, s) :
             o \in (IF f.err THEN {f}
                   ELSE Compacted(Empty, Ingest(f.s, b))
                          \cup (IF MayFail THEN {Outcome(Empty, f.s, TRUE)} ELSE {}))
      BY <1>1 DEF Insert
    <2>2. Good(f) /\ RowsOf(f) = ScanRows(s, d) /\ (~f.err => f.d = Empty)
      BY FlushedFacts
    <2>3. CASE f.err
      BY <2>1, <2>2, <2>3
    <2>4. CASE ~f.err /\ o \in Compacted(Empty, Ingest(f.s, b))
      <3>1. LiveRows(f.s) = ScanRows(s, d)
        BY <2>2, <2>4, EmptyFacts DEF RowsOf
      <3>2. GoodSet(Ingest(f.s, b)) /\ LiveRows(Ingest(f.s, b)) = Inserted(ScanRows(s, d), b)
        BY <2>2, <3>1, IngestFacts DEF Good
      <3> QED
        BY <2>4, <3>2, EmptyFacts, CompactedFacts
    <2>5. CASE ~f.err /\ o = Outcome(Empty, f.s, TRUE)
      <3>1. o.d = Empty /\ o.s = f.s /\ o.err = TRUE
        BY <2>5 DEF Outcome
      <3> QED
        BY <2>2, <2>5, <3>1, EmptyFacts DEF Good, RowsOf
    <2> QED
      BY <2>1, <2>3, <2>4, <2>5
  <1>2. CASE ~(Len(b) >= Bulk) /\ o \in Flushed(PutAll(d, b), s)
    BY <1>2, PutAllFacts, FlushedFacts
  <1>3. CASE ~(Len(b) >= Bulk) /\ o = Outcome(PutAll(d, b), s, FALSE)
    <2>1. o.d = PutAll(d, b) /\ o.s = s /\ o.err = FALSE
      BY <1>3 DEF Outcome
    <2>2. GoodBuffer(o.d) /\ ScanRows(s, o.d) = Inserted(ScanRows(s, d), b)
      BY <2>1, PutAllFacts
    <2> QED
      BY <2>1, <2>2 DEF Good, RowsOf
  <1> QED
    BY <1>1, <1>2, <1>3 DEF Insert

\* locate_in finds what a scan of the key returns.
LEMMA LocateFacts ==
  ASSUME NEW s, GoodSet(s), NEW d, GoodBuffer(d), NEW k
  PROVE  Locate(s, d, k) = ValuesAt(ScanRows(s, d), k)
  <1>1. CASE k \in d.touched
    <2>1. {x \in ScanRows(s, d) : x.k = k} = {x \in d.rows : x.k = k}
      BY <1>1 DEF ScanRows, Without
    <2> QED
      BY <1>1, <2>1 DEF Locate, ValuesAt
  <1>2. CASE k \notin d.touched
    <2> DEFINE N == {h \in Homes(s, k) : \A q \in Homes(s, k) : q.pid <= h.pid}
    <2>1. {x \in ScanRows(s, d) : x.k = k} = {x \in LiveRows(s) : x.k = k}
      BY <1>2 DEF ScanRows, Without, GoodBuffer, KeysOf
    <2>2. Locate(s, d, k) = UNION {ValuesAt(Live(p), k) : p \in N}
      BY <1>2 DEF Locate
    <2>3. N = Homes(s, k)
      <3> SUFFICES ASSUME NEW p \in Homes(s, k), NEW q \in Homes(s, k) PROVE q.pid <= p.pid
        OBVIOUS
      <3>1. p \in s.parts /\ \E r \in Live(p) : r.k = k
        BY DEF Homes, KeysOf
      <3>2. Homes(s, k) = {p} /\ p \in Part
        BY <3>1, LiveFacts
      <3> QED
        BY <3>2 DEF Part
    <2> HIDE DEF N
    <2>4. \A v : (v \in UNION {ValuesAt(Live(p), k) : p \in Homes(s, k)})
                  <=> (\E p \in s.parts : \E r \in Live(p) : r.k = k /\ r.v = v)
      BY DEF Homes, KeysOf, ValuesAt
    <2>5. \A v : (v \in ValuesAt(ScanRows(s, d), k))
                  <=> (\E p \in s.parts : \E r \in Live(p) : r.k = k /\ r.v = v)
      BY <2>1 DEF ValuesAt, LiveRows
    <2> QED
      BY <2>2, <2>3, <2>4, <2>5
  <1> QED
    BY <1>1, <1>2

\* A key occurs once in the batch, and no row of R has it.
Accepted(R, b) ==
  /\ \A i, j \in DOMAIN b : i # j => b[i].k # b[j].k
  /\ \A k \in BatchKeys(b) : ValuesAt(R, k) = {}

\* reject_key_collisions lets through only what collides with nothing.
LEMMA CollidesFacts ==
  ASSUME NEW s, GoodSet(s), NEW d, GoodBuffer(d), NEW b, ~Collides(d, s, b)
  PROVE  Accepted(ScanRows(s, d), b)
  <1>1. \A i, j \in DOMAIN b : i # j => b[i].k # b[j].k
    BY DEF Collides
  <1>2. CASE d.touched = {} /\ LiveRows(s) = {}
    <2>1. d = Empty
      BY <1>2, EmptyFacts
    <2>2. ScanRows(s, d) = {}
      BY <1>2, <2>1, EmptyFacts
    <2> QED
      BY <1>1, <2>2 DEF Accepted, ValuesAt
  <1>3. CASE \A k \in BatchKeys(b) : Locate(s, d, k) = {}
    BY <1>1, <1>3, LocateFacts DEF Accepted
  <1> QED
    BY <1>2, <1>3 DEF Collides

\* insert_with(KeyConflict::Reject): only an accepted batch goes in.
LEMMA InsertRejectFacts ==
  ASSUME NEW s, GoodSet(s), NEW d, GoodBuffer(d), NEW b, IsBatch(b), NEW o \in InsertReject(d, s, b)
  PROVE  /\ Good(o)
         /\ \/ RowsOf(o) = Inserted(ScanRows(s, d), b) /\ Accepted(ScanRows(s, d), b)
            \/ o.err /\ RowsOf(o) = ScanRows(s, d)
  <1>1. CASE Len(b) >= Bulk
    <2>1. PICK f \in Flushed(d, s) :
             o \in (IF f.err THEN {f}
                   ELSE IF Collides(f.d, f.s, b) THEN {Outcome(f.d, f.s, TRUE)}
                   ELSE Insert(f.d, f.s, b))
      BY <1>1 DEF InsertReject
    <2>2. Good(f) /\ RowsOf(f) = ScanRows(s, d)
      BY FlushedFacts
    <2>3. CASE f.err
      BY <2>1, <2>2, <2>3
    <2>4. CASE ~f.err /\ Collides(f.d, f.s, b)
      <3>1. o.d = f.d /\ o.s = f.s /\ o.err = TRUE
        BY <2>1, <2>4 DEF Outcome
      <3> QED
        BY <2>2, <3>1 DEF Good, RowsOf
    <2>5. CASE ~f.err /\ ~Collides(f.d, f.s, b)
      <3>1. Accepted(ScanRows(s, d), b)
        BY <2>2, <2>5, CollidesFacts DEF Good, RowsOf
      <3>2. o \in Insert(f.d, f.s, b) /\ GoodSet(f.s) /\ GoodBuffer(f.d) /\ ScanRows(f.s, f.d) = ScanRows(s, d)
        BY <2>1, <2>2, <2>5 DEF Good, RowsOf
      <3> QED
        BY <3>1, <3>2, InsertFacts
    <2> QED
      BY <2>3, <2>4, <2>5
  <1>2. CASE ~(Len(b) >= Bulk) /\ Collides(d, s, b)
    <2>1. o = Outcome(d, s, TRUE)
      BY <1>2 DEF InsertReject
    <2>2. o.d = d /\ o.s = s /\ o.err = TRUE
      BY <2>1 DEF Outcome
    <2> QED
      BY <2>2 DEF Good, RowsOf
  <1>3. CASE ~(Len(b) >= Bulk) /\ ~Collides(d, s, b)
    <2>1. o \in Insert(d, s, b) /\ Accepted(ScanRows(s, d), b)
      BY <1>3, CollidesFacts DEF InsertReject
    <2> QED
      BY <2>1, InsertFacts
  <1> QED
    BY <1>1, <1>2, <1>3

\* Delta::delete_keyed.
LEMMA DeleteKeyedFacts ==
  ASSUME NEW s, GoodSet(s), NEW d, GoodBuffer(d), NEW k \in Keys
  PROVE  /\ GoodBuffer(DeleteKeyed(d, k))
         /\ ScanRows(s, DeleteKeyed(d, k)) = Without(ScanRows(s, d), {k})
  <1> DEFINE e == DeleteKeyed(d, k)
  <1>1. /\ e.touched = d.touched \cup {k}
        /\ e.rows = Without(d.rows, {k})
        /\ e = [touched |-> d.touched \cup {k}, rows |-> Without(d.rows, {k})]
    BY DEF DeleteKeyed
  <1> HIDE DEF e
  <1>2. GoodBuffer(e)
    BY <1>1 DEF GoodBuffer, Buffer, KeysOf, UniqueKeys, Without
  <1>3. ScanRows(s, e) = Without(ScanRows(s, d), {k})
    BY <1>1 DEF ScanRows, Without
  <1> QED
    BY <1>2, <1>3 DEF e

(***************************************************************************)
(* UPDATE.                                                                 *)
(***************************************************************************)
\* The new rows of an UPDATE: one for each key it matched.
LEMMA NewRowsFacts ==
  ASSUME NEW ks \in SUBSET Keys, NEW to \in [ks -> Keys], NEW v \in Vals
  PROVE  LET b == NewRows(ks, to, v) IN
         /\ IsBatch(b)
         /\ \A i \in DOMAIN b : b[i].v = v
         /\ BatchKeys(b) = {to[k] : k \in ks}
         /\ (\A i, j \in DOMAIN b : i # j => b[i].k # b[j].k)
              => \A k, l \in ks : k # l => to[k] # to[l]
  <1> DEFINE n == Cardinality(ks)
             f == RowOrder(ks)
             b == NewRows(ks, to, v)
  <1>1. IsFiniteSet(ks) /\ n \in Nat /\ ExistsBijection(1 .. n, ks)
    BY StoreAssumption, FS_Subset, FS_CardinalityType
  <1>2. \E g \in [1 .. n -> ks] : \A i, j \in DOMAIN g : i # j => g[i] # g[j]
    <2>1. PICK g \in Bijection(1 .. n, ks) : TRUE
      BY <1>1 DEF ExistsBijection
    <2> QED
      BY <2>1 DEF Bijection, Injection, IsInjective
  <1>3. f \in [1 .. n -> ks] /\ \A i, j \in DOMAIN f : i # j => f[i] # f[j]
    BY <1>2 DEF RowOrder
  <1> HIDE DEF f
  <1>4. f \in Injection(1 .. n, ks)
    BY <1>3 DEF Injection, IsInjective
  <1>5. Cardinality(1 .. n) = n
    BY <1>1, FS_Interval
  <1>6. f \in Surjection(1 .. n, ks)
    BY <1>1, <1>4, <1>5, FS_Injection
  <1>7. \A k \in ks : \E i \in 1 .. n : f[i] = k
    BY <1>6 DEF Surjection
  <1>8. b = [i \in 1 .. n |-> [k |-> to[f[i]], v |-> v]]
    BY DEF NewRows, f
  <1> HIDE DEF b, n
  <1>9. b \in [1 .. n -> Row] /\ \A i \in 1 .. n : b[i].k = to[f[i]] /\ b[i].v = v
    BY <1>3, <1>8 DEF Row
  <1>10. IsBatch(b) /\ \A i \in DOMAIN b : b[i].v = v
    BY <1>1, <1>9 DEF IsBatch
  <1>11. BatchKeys(b) = {to[k] : k \in ks}
    BY <1>3, <1>7, <1>9 DEF BatchKeys
  <1>12. ASSUME \A i, j \in DOMAIN b : i # j => b[i].k # b[j].k,
                NEW k \in ks, NEW l \in ks, k # l
         PROVE  to[k] # to[l]
    <2>1. PICK i \in 1 .. n : f[i] = k
      BY <1>7
    <2>2. PICK j \in 1 .. n : f[j] = l
      BY <1>7
    <2> QED
      BY <1>9, <1>12, <2>1, <2>2
  <1> QED
    BY <1>10, <1>11, <1>12 DEF b

\* The body of an UPDATE after its flush.
LEMMA UpdateInFacts ==
  ASSUME NEW s, GoodSet(s), NEW b, IsBatch(b), NEW ks, NEW carried \in BOOLEAN,
         NEW u \in UpdateIn(s, b, ks, carried)
  PROVE  LET R == LiveRows(s)
             L == Without(R, ks)
         IN  /\ Good(u)
             /\ carried => \/ RowsOf(u) = Inserted(R, b)
                           \/ u.err /\ RowsOf(u) = R
             /\ ~carried => \/ RowsOf(u) = Inserted(L, b) /\ Accepted(L, b)
                            \/ u.err /\ RowsOf(u) = L
  <1> DEFINE R == LiveRows(s)
             L == Without(R, ks)
             w == IF carried THEN s ELSE Sweep(s, ks)
             ins == IF carried THEN Insert(Empty, w, b) ELSE InsertReject(Empty, w, b)
  <1>1. GoodSet(w) /\ ScanRows(w, Empty) = IF carried THEN R ELSE L
    BY SweepFacts, EmptyFacts
  <1>2. PICK o \in ins : u \in (IF o.err THEN {o} ELSE Flushed(o.d, o.s))
    BY DEF UpdateIn
  <1> HIDE DEF w, R, L
  <1>3. /\ Good(o)
        /\ carried => \/ RowsOf(o) = Inserted(R, b)
                      \/ o.err /\ RowsOf(o) = R
        /\ ~carried => \/ RowsOf(o) = Inserted(L, b) /\ Accepted(L, b)
                       \/ o.err /\ RowsOf(o) = L
    <2>1. CASE carried
      BY <2>1, <1>1, EmptyFacts, InsertFacts
    <2>2. CASE ~carried
      BY <2>2, <1>1, EmptyFacts, InsertRejectFacts
    <2> QED
      BY <2>1, <2>2
  <1>4. CASE o.err
    BY <1>2, <1>3, <1>4 DEF R, L
  <1>5. CASE ~o.err
    <2>1. u \in Flushed(o.d, o.s)
      BY <1>2, <1>5
    <2>2. Good(u) /\ RowsOf(u) = RowsOf(o)
      BY <1>3, <2>1, FlushedFacts DEF Good, RowsOf
    <2> QED
      BY <1>3, <1>5, <2>2 DEF R, L
  <1> QED
    BY <1>4, <1>5

(***************************************************************************)
(* The refinement mapping: what the maps of KeyedMap are here.             *)
(***************************************************************************)
Working == AsMap(ScanRows(Cur, delta))
CommittedMap == AsMap(IF inTxn THEN ScanRows(pub, Empty) ELSE ScanRows(pub, delta))

\* A step of the map, or none.
MapStep == Map!Next \/ UNCHANGED <<Working, CommittedMap, inTxn, poisoned, lastStmt>>

\* The two machines label a statement alike.
USE DEF Label, Map!Label

\* What a map holds at a key, and which keys it has.
LEMMA AsMapFacts ==
  ASSUME NEW R, R \subseteq Row
  PROVE  /\ \A k \in Keys : AsMap(R)[k] = ValuesAt(R, k)
         /\ Map!Present(AsMap(R)) = KeysOf(R)
  <1>1. \A k \in Keys : AsMap(R)[k] = ValuesAt(R, k)
    BY DEF AsMap
  <1>2. \A k \in Keys : k \in KeysOf(R) <=> ValuesAt(R, k) # {}
    BY DEF KeysOf, ValuesAt
  <1>3. KeysOf(R) \subseteq Keys
    BY DEF KeysOf, Row
  <1> QED
    BY <1>1, <1>2, <1>3 DEF Map!Present

\* The last row of a key in a batch is the one that counts.
LEMMA LastValFacts ==
  ASSUME NEW b, IsBatch(b), NEW k \in Keys
  PROVE  /\ Map!LastVal(b, k) = ValuesAt(LastRows(b), k)
         /\ Map!LastVal(b, k) # {} <=> k \in BatchKeys(b)
  <1>1. ASSUME NEW x \in Map!LastVal(b, k) PROVE x \in ValuesAt(LastRows(b), k)
    <2>1. PICK i \in DOMAIN b : /\ b[i].k = k /\ x = b[i].v
                                /\ \A l \in DOMAIN b : l > i => b[l].k # k
      BY <1>1 DEF Map!LastVal
    <2>2. b[i] \in LastRows(b)
      BY <2>1 DEF LastRows
    <2> QED
      BY <2>1, <2>2 DEF ValuesAt
  <1>2. ASSUME NEW x \in ValuesAt(LastRows(b), k) PROVE x \in Map!LastVal(b, k)
    <2>1. PICK r \in LastRows(b) : r.k = k /\ x = r.v
      BY <1>2 DEF ValuesAt
    <2>2. PICK i \in DOMAIN b : r = b[i] /\ \A l \in DOMAIN b : l > i => b[l].k # b[i].k
      BY <2>1 DEF LastRows
    <2> QED
      BY <2>1, <2>2 DEF Map!LastVal
  <1>3. Map!LastVal(b, k) = ValuesAt(LastRows(b), k)
    BY <1>1, <1>2
  <1>4. ValuesAt(LastRows(b), k) # {} <=> k \in KeysOf(LastRows(b))
    BY DEF KeysOf, ValuesAt
  <1> QED
    BY <1>3, <1>4, LastRowsFacts

\* A batch that goes in is put.
LEMMA PutMap ==
  ASSUME NEW R, NEW b, IsBatch(b)
  PROVE  AsMap(Inserted(R, b)) = Map!Put(AsMap(R), b)
  <1>1. ASSUME NEW k \in Keys
        PROVE  ValuesAt(Inserted(R, b), k) =
                 IF Map!LastVal(b, k) # {} THEN Map!LastVal(b, k) ELSE AsMap(R)[k]
    <2>1. CASE k \in BatchKeys(b)
      <3>1. ValuesAt(Inserted(R, b), k) = ValuesAt(LastRows(b), k)
        BY <2>1 DEF Inserted, ValuesAt, Without
      <3> QED
        BY <2>1, <3>1, LastValFacts
    <2>2. CASE k \notin BatchKeys(b)
      <3>1. \A r \in LastRows(b) : r.k # k
        BY <2>2, LastRowsFacts DEF KeysOf
      <3>2. ValuesAt(Inserted(R, b), k) = ValuesAt(R, k)
        BY <2>2, <3>1 DEF Inserted, ValuesAt, Without
      <3> QED
        BY <2>2, <3>2, LastValFacts DEF AsMap
    <2> QED
      BY <2>1, <2>2
  <1> QED
    BY <1>1 DEF AsMap, Map!Put

\* Rows that go are cut.
LEMMA CutMap ==
  ASSUME NEW R, NEW ks
  PROVE  AsMap(Without(R, ks)) = Map!Cut(AsMap(R), ks)
  <1>1. ASSUME NEW k \in Keys
        PROVE  ValuesAt(Without(R, ks), k) = IF k \in ks THEN {} ELSE ValuesAt(R, k)
    BY DEF ValuesAt, Without
  <1> QED
    BY <1>1 DEF AsMap, Map!Cut

\* The new rows of an UPDATE, put over what the sweep left (or over all rows if
\* no key changes), are the rows moved.
LEMMA MoveMap ==
  ASSUME NEW R, NEW ks \in SUBSET Keys, NEW to \in [ks -> Keys], NEW v \in Vals
  PROVE  /\ AsMap(Inserted(Without(R, ks), NewRows(ks, to, v))) = Map!Move(AsMap(R), ks, to, v)
         /\ (\A k \in ks : to[k] = k)
              => AsMap(Inserted(R, NewRows(ks, to, v))) = Map!Move(AsMap(R), ks, to, v)
  <1> DEFINE b == NewRows(ks, to, v)
  <1>1. /\ IsBatch(b)
        /\ \A i \in DOMAIN b : b[i].v = v
        /\ BatchKeys(b) = {to[k] : k \in ks}
    BY NewRowsFacts
  <1> HIDE DEF b
  <1>2. ASSUME NEW k \in Keys, k \in BatchKeys(b) PROVE Map!LastVal(b, k) = {v}
    <2>1. \A x \in Map!LastVal(b, k) : x = v
      BY <1>1 DEF Map!LastVal
    <2> QED
      BY <2>1, <1>1, <1>2, LastValFacts
  <1>3. ASSUME NEW k \in Keys, k \notin BatchKeys(b) PROVE Map!LastVal(b, k) = {}
    BY <1>1, <1>3, LastValFacts
  <1>4. ASSUME NEW k \in Keys PROVE k \in BatchKeys(b) <=> \E i \in ks : to[i] = k
    BY <1>1
  <1>5. ASSUME NEW m, NEW n, \A k \in Keys : k \notin BatchKeys(b) => m[k] = Map!Cut(n, ks)[k]
        PROVE  Map!Put(m, b) = Map!Move(n, ks, to, v)
    BY <1>2, <1>3, <1>4, <1>5 DEF Map!Put, Map!Move
  <1>6. AsMap(Inserted(Without(R, ks), b)) = Map!Move(AsMap(R), ks, to, v)
    BY <1>1, <1>5, PutMap, CutMap
  <1>7. ASSUME \A k \in ks : to[k] = k
        PROVE  AsMap(Inserted(R, b)) = Map!Move(AsMap(R), ks, to, v)
    <2>1. BatchKeys(b) = ks
      BY <1>1, <1>7
    <2>2. \A k \in Keys : k \notin BatchKeys(b) => AsMap(R)[k] = Map!Cut(AsMap(R), ks)[k]
      BY <2>1 DEF Map!Cut
    <2> QED
      BY <1>1, <1>5, <2>2, PutMap
  <1> QED
    BY <1>6, <1>7 DEF b

\* A statement replaces the buffer and the set the session works on; another
\* reader sees it at once only outside a transaction.  That is the map's answer.
LEMMA Answers ==
  ASSUME IInv, ~poisoned, NEW o, Good(o), NEW req, Apply(o, req)
  PROVE  IInv' /\ Map!Answer(req, ~o.err, AsMap(RowsOf(o)))
  <1>1. /\ delta' = o.d /\ inTxn' = inTxn /\ phase' = phase
        /\ poisoned' = (o.err /\ inTxn) /\ lastStmt' = Label(req, ~o.err)
    BY DEF Apply
  <1>2. poisoned' \in BOOLEAN /\ (phase' # "run" => ~inTxn' /\ ~poisoned')
    BY <1>1 DEF IInv
  <1>3. /\ IInv'
        /\ Working' = AsMap(RowsOf(o))
        /\ CommittedMap' = IF inTxn THEN CommittedMap ELSE AsMap(RowsOf(o))
    <2>1. CASE inTxn
      <3>1. view' = o.s /\ pub' = pub
        BY <2>1 DEF Apply, SetCur
      <3> QED
        BY <1>1, <1>2, <2>1, <3>1 DEF IInv, Good, Working, CommittedMap, RowsOf, Cur, AsMap, ScanRows
    <2>2. CASE ~inTxn
      <3>1. view' = view /\ pub' = o.s
        BY <2>2 DEF Apply, SetCur
      <3> QED
        BY <1>1, <1>2, <2>2, <3>1 DEF IInv, Good, Working, CommittedMap, RowsOf, Cur
    <2> QED
      BY <2>1, <2>2 DEF IInv
  <1>4. poisoned' = (inTxn /\ ~(~o.err))
    BY <1>1 DEF Good, IInv
  <1> QED
    BY <1>1, <1>3, <1>4 DEF Map!Answer, Working, CommittedMap

\* The set the session works on is good.
LEMMA CurFacts ==
  ASSUME IInv
  PROVE  /\ GoodSet(Cur) /\ GoodBuffer(delta)
         /\ ScanRows(Cur, delta) \subseteq Row /\ UniqueKeys(ScanRows(Cur, delta))
         /\ ~inTxn => Cur = pub /\ CommittedMap = Working
  BY ScanFacts DEF IInv, Cur, CommittedMap, Working

\* A SELECT or OPTIMIZE that changes no row is a look at the map.
LEMMA Looks ==
  ASSUME IInv, ~poisoned, NEW op \in {"select", "optimize"}, NEW o, Good(o),
         Apply(o, [op |-> op]), RowsOf(o) = ScanRows(Cur, delta)
  PROVE  IInv' /\ MapStep
  <1>1. IInv' /\ Map!Answer([op |-> op], ~o.err, Working)
    BY Answers DEF Working
  <1>2. Map!Look(op, ~o.err) /\ (~o.err) \in BOOLEAN
    BY <1>1 DEF Map!Look, Working
  <1> QED
    BY <1>1, <1>2 DEF MapStep, Map!Next

(***************************************************************************)
(* One lemma per statement: the invariant, and the step of the map.        *)
(***************************************************************************)
LEMMA BatchesAreBatches == \A b \in Batches : IsBatch(b)
  <1> SUFFICES ASSUME NEW n \in 1 .. MaxBatch, NEW b \in [1 .. n -> Row] PROVE IsBatch(b)
    BY DEF Batches
  <1>1. n \in Nat
    BY StoreAssumption
  <1> QED
    BY <1>1 DEF IsBatch

\* INSERT, in service and during replay: a put, or after an error perhaps
\* nothing.
LEMMA InsertSteps ==
  ASSUME IInv, NEW b \in Batches, ReplayInsert(b) \/ InsertStmt(b)
  PROVE  IInv' /\ MapStep
  <1> DEFINE req == [op |-> "insert", rows |-> b]
  <1>1. IsBatch(b)
    BY BatchesAreBatches
  <1>2. ~poisoned /\ \E o \in Insert(delta, Cur, b) : Apply(o, req)
    BY DEF ReplayInsert, InsertStmt, Running, IInv, Cur
  <1>3. PICK o \in Insert(delta, Cur, b) : Apply(o, req)
    BY <1>2
  <1>4. /\ Good(o)
        /\ \/ RowsOf(o) = Inserted(ScanRows(Cur, delta), b)
           \/ o.err /\ RowsOf(o) = ScanRows(Cur, delta)
    BY <1>1, <1>3, CurFacts, InsertFacts
  <1>5. IInv' /\ Map!Answer(req, ~o.err, AsMap(RowsOf(o)))
    BY <1>2, <1>3, <1>4, Answers
  <1>6. \/ Map!Answer(req, ~o.err, Map!Put(Working, b))
        \/ o.err /\ Map!Answer(req, ~o.err, Working)
    BY <1>1, <1>4, <1>5, PutMap DEF Working
  <1>7. Map!Insert(b, ~o.err) /\ (~o.err) \in BOOLEAN
    BY <1>6 DEF Map!Insert, Working
  <1> QED
    BY <1>5, <1>7 DEF MapStep, Map!Next

\* INSERT under UNIQUE: nothing it puts was there.
LEMMA InsertUniqueStep ==
  ASSUME IInv, NEW b \in Batches, InsertUnique(b)
  PROVE  IInv' /\ MapStep
  <1> DEFINE req == [op |-> "insert unique", rows |-> b]
             R == ScanRows(Cur, delta)
  <1>1. IsBatch(b)
    BY BatchesAreBatches
  <1>2. ~poisoned /\ \E o \in InsertReject(delta, Cur, b) : Apply(o, req)
    BY DEF InsertUnique, Running
  <1>3. PICK o \in InsertReject(delta, Cur, b) : Apply(o, req)
    BY <1>2
  <1>4. /\ Good(o)
        /\ \/ RowsOf(o) = Inserted(R, b) /\ Accepted(R, b)
           \/ o.err /\ RowsOf(o) = R
    BY <1>1, <1>3, CurFacts, InsertRejectFacts
  <1>5. IInv' /\ Map!Answer(req, ~o.err, AsMap(RowsOf(o)))
    BY <1>2, <1>3, <1>4, Answers
  <1>6. Accepted(R, b) => Map!IsNew(b)
    <2> SUFFICES ASSUME Accepted(R, b) PROVE Map!IsNew(b)
      OBVIOUS
    <2>1. \A i, j \in DOMAIN b : i # j => b[i].k # b[j].k
      BY DEF Accepted
    <2>2. ASSUME NEW i \in DOMAIN b PROVE b[i].k \notin KeysOf(R)
      <3>1. ValuesAt(R, b[i].k) = {}
        BY DEF Accepted, BatchKeys
      <3> QED
        BY <3>1 DEF ValuesAt, KeysOf
    <2>3. Map!Present(AsMap(R)) = KeysOf(R)
      BY CurFacts, AsMapFacts
    <2> QED
      BY <2>1, <2>2, <2>3 DEF Map!IsNew
  <1>7. \/ Map!Answer(req, ~o.err, Map!Put(Working, b)) /\ Map!IsNew(b)
        \/ o.err /\ Map!Answer(req, ~o.err, Working)
    BY <1>1, <1>4, <1>5, <1>6, PutMap DEF Working
  <1>8. Map!InsertUnique(b, ~o.err) /\ (~o.err) \in BOOLEAN
    BY <1>7 DEF Map!InsertUnique, Working
  <1> QED
    BY <1>5, <1>8 DEF MapStep, Map!Next

\* A DELETE that goes through cuts its keys; one that fails changes nothing.
LEMMA Cuts ==
  ASSUME IInv, ~poisoned, NEW ks \in SUBSET Keys, NEW o, Good(o),
         Apply(o, [op |-> "delete", keys |-> ks]),
         RowsOf(o) = IF o.err THEN ScanRows(Cur, delta) ELSE Without(ScanRows(Cur, delta), ks)
  PROVE  IInv' /\ MapStep
  <1> DEFINE req == [op |-> "delete", keys |-> ks]
  <1>1. IInv' /\ Map!Answer(req, ~o.err, AsMap(RowsOf(o)))
    BY Answers
  <1>2. AsMap(RowsOf(o)) = IF ~o.err THEN Map!Cut(Working, ks) ELSE Working
    BY CutMap DEF Working
  <1>3. Map!Delete(ks, ~o.err) /\ (~o.err) \in BOOLEAN
    BY <1>1, <1>2 DEF Map!Delete, Working
  <1> QED
    BY <1>1, <1>3 DEF MapStep, Map!Next

\* A replayed delete record.
LEMMA ReplayDeleteStep ==
  ASSUME IInv, NEW k \in Keys, ReplayDelete(k)
  PROVE  IInv' /\ MapStep
  <1> DEFINE d == DeleteKeyed(delta, k)
  <1>1. PICK o : /\ Apply(o, [op |-> "delete", keys |-> {k}]) /\ ~o.err /\ ~poisoned
                 /\ o \in Flushed(d, Cur) \/ o = Outcome(d, Cur, FALSE)
    BY DEF ReplayDelete, IInv, Cur
  <1>2. GoodBuffer(d) /\ GoodSet(Cur) /\ ScanRows(Cur, d) = Without(ScanRows(Cur, delta), {k})
    BY CurFacts, DeleteKeyedFacts
  <1> HIDE DEF d
  <1>3. Good(o) /\ RowsOf(o) = Without(ScanRows(Cur, delta), {k})
    <2>1. CASE o \in Flushed(d, Cur)
      BY <2>1, <1>2, FlushedFacts
    <2>2. CASE o = Outcome(d, Cur, FALSE)
      BY <2>2, <1>2 DEF Outcome, Good, RowsOf
    <2> QED
      BY <1>1, <2>1, <2>2
  <1>4. {k} \in SUBSET Keys
    OBVIOUS
  <1> QED
    BY <1>1, <1>3, <1>4, Cuts

\* A SELECT flushes and nothing else.
LEMMA SelectStep ==
  ASSUME IInv, Select
  PROVE  IInv' /\ MapStep
  BY CurFacts, FlushedFacts, Looks DEF Select, Running

\* DELETE flushes, then sweeps the named keys out of every part.
LEMMA DeleteStep ==
  ASSUME IInv, NEW ks \in SUBSET Keys, Delete(ks)
  PROVE  IInv' /\ MapStep
  <1> DEFINE req == [op |-> "delete", keys |-> ks]
  <1>1. PICK o \in Flushed(delta, Cur) :
           Apply(IF o.err THEN o ELSE Outcome(o.d, Sweep(o.s, ks), FALSE), req)
    BY DEF Delete
  <1>2. ~poisoned
    BY DEF Delete, Running
  <1>3. Good(o) /\ RowsOf(o) = ScanRows(Cur, delta) /\ (~o.err => o.d = Empty)
    BY CurFacts, FlushedFacts
  <1>4. CASE o.err
    BY <1>1, <1>2, <1>3, <1>4, Cuts
  <1>5. CASE ~o.err
    <2> DEFINE w == Outcome(o.d, Sweep(o.s, ks), FALSE)
    <2>1. w.d = Empty /\ w.s = Sweep(o.s, ks) /\ w.err = FALSE /\ Apply(w, req)
      BY <1>1, <1>3, <1>5 DEF Outcome
    <2> HIDE DEF w
    <2>2. GoodSet(w.s) /\ LiveRows(w.s) = Without(LiveRows(o.s), ks)
      BY <2>1, <1>3, SweepFacts DEF Good
    <2>3. LiveRows(o.s) = ScanRows(Cur, delta)
      BY <1>3, <1>5, EmptyFacts DEF RowsOf
    <2>4. Good(w) /\ RowsOf(w) = Without(ScanRows(Cur, delta), ks)
      BY <2>1, <2>2, <2>3, EmptyFacts DEF Good, RowsOf
    <2> QED
      BY <1>2, <2>1, <2>4, Cuts
  <1> QED
    BY <1>4, <1>5

\* UPDATE: rows move, each to a key of its own; an error changes nothing
\* outside a transaction, and in one leaves at worst the sweep.
LEMMA UpdateStep ==
  ASSUME IInv, NEW ks \in SUBSET Keys, NEW to \in [ks -> Keys], NEW v \in Vals, Update(ks, to, v)
  PROVE  IInv' /\ MapStep
  <1> DEFINE b == NewRows(ks, to, v)
             R == ScanRows(Cur, delta)
             L == Without(R, ks)
             carried == \A k \in ks : to[k] = k
             req == [op |-> "update", to |-> to, val |-> v]
  <1>1. /\ IsBatch(b) /\ BatchKeys(b) = {to[k] : k \in ks}
        /\ (\A i, j \in DOMAIN b : i # j => b[i].k # b[j].k)
             => \A k, l \in ks : k # l => to[k] # to[l]
    BY NewRowsFacts
  <1>2. PICK o \in Flushed(delta, Cur) :
           IF o.err THEN Apply(o, req)
           ELSE \E u \in UpdateIn(o.s, b, ks, carried) :
                  Apply(IF u.err /\ ~inTxn THEN Outcome(o.d, o.s, TRUE) ELSE u, req)
    BY DEF Update
  <1>3. ks \subseteq KeysOf(R) /\ ~poisoned
    BY DEF Update, Running
  <1>4. Good(o) /\ RowsOf(o) = R /\ (~o.err => o.d = Empty)
    BY CurFacts, FlushedFacts
  <1>5. Map!Present(Working) = KeysOf(R)
    BY CurFacts, AsMapFacts DEF Working
  <1>6. ASSUME NEW w, Good(w), Apply(w, req), w.err, RowsOf(w) = R PROVE IInv' /\ MapStep
    <2>1. IInv' /\ Map!Answer(req, ~w.err, Working)
      BY <1>3, <1>6, Answers DEF Working
    <2>2. Map!Update(ks, to, v, ~w.err) /\ (~w.err) \in BOOLEAN
      BY <1>6, <2>1 DEF Map!Update, Working
    <2> QED
      BY <2>1, <2>2 DEF MapStep, Map!Next
  <1>7. CASE o.err
    BY <1>2, <1>4, <1>6, <1>7
  <1>8. CASE ~o.err
    <2>1. PICK u \in UpdateIn(o.s, b, ks, carried) :
             Apply(IF u.err /\ ~inTxn THEN Outcome(o.d, o.s, TRUE) ELSE u, req)
      BY <1>2, <1>8
    <2>2. LiveRows(o.s) = R
      BY <1>4, <1>8, EmptyFacts DEF RowsOf
    <2>3. /\ Good(u)
          /\ carried => RowsOf(u) = Inserted(R, b) \/ (u.err /\ RowsOf(u) = R)
          /\ ~carried => \/ RowsOf(u) = Inserted(L, b) /\ Accepted(L, b)
                         \/ u.err /\ RowsOf(u) = L
      <3>1. carried \in BOOLEAN /\ GoodSet(o.s)
        BY <1>4 DEF Good
      <3> HIDE DEF carried, b, R
      <3> QED
        BY <1>1, <2>1, <2>2, <3>1, UpdateInFacts
    <2>4. CASE u.err /\ ~inTxn
      <3> DEFINE w == Outcome(o.d, o.s, TRUE)
      <3>1. w.d = o.d /\ w.s = o.s /\ w.err = TRUE /\ Apply(w, req)
        BY <2>1, <2>4 DEF Outcome
      <3> HIDE DEF w
      <3>2. Good(w) /\ RowsOf(w) = R
        BY <3>1, <1>4 DEF Good, RowsOf
      <3> QED
        BY <3>1, <3>2, <1>6
    <2>5. CASE ~(u.err /\ ~inTxn)
      <3>1. Apply(u, req)
        BY <2>1, <2>5
      <3>2. IInv' /\ Map!Answer(req, ~u.err, AsMap(RowsOf(u)))
        BY <3>1, <2>3, <1>3, Answers
      <3>3. CASE \/ carried /\ RowsOf(u) = Inserted(R, b)
                 \/ RowsOf(u) = Inserted(L, b) /\ Accepted(L, b)
        <4>1. AsMap(RowsOf(u)) = Map!Move(Working, ks, to, v)
          BY <3>3, MoveMap DEF Working
        <4>2. Map!Moves(ks, to)
          <5>1. \A k, l \in ks : k # l => to[k] # to[l]
            BY <3>3, <1>1 DEF Accepted
          <5>2. ASSUME NEW k \in ks, to[k] \notin ks PROVE to[k] \notin KeysOf(R)
            <6>1. ValuesAt(L, to[k]) = {}
              BY <3>3, <5>2, <1>1 DEF Accepted
            <6> SUFFICES ASSUME NEW r \in R, r.k = to[k] PROVE FALSE
              BY DEF KeysOf
            <6>2. r \in L
              BY <5>2 DEF Without
            <6> QED
              BY <6>1, <6>2 DEF ValuesAt
          <5> QED
            BY <5>1, <5>2, <1>3, <1>5 DEF Map!Moves, Working
        <4>3. Map!Update(ks, to, v, ~u.err) /\ (~u.err) \in BOOLEAN
          BY <2>5, <3>2, <4>1, <4>2 DEF Map!Update, Working
        <4> QED
          BY <3>2, <4>3 DEF MapStep, Map!Next
      <3>4. CASE u.err /\ RowsOf(u) = L
        <4>1. AsMap(RowsOf(u)) = Map!Cut(Working, ks)
          BY <3>4, CutMap DEF Working
        <4>2. Map!Update(ks, to, v, ~u.err) /\ (~u.err) \in BOOLEAN
          BY <2>5, <3>2, <3>4, <4>1 DEF Map!Update, Working
        <4> QED
          BY <3>2, <4>2 DEF MapStep, Map!Next
      <3>5. CASE u.err /\ RowsOf(u) = R
        BY <3>1, <3>5, <2>3, <1>6
      <3> QED
        BY <2>3, <3>3, <3>4, <3>5
    <2> QED
      BY <2>4, <2>5
  <1> QED
    BY <1>7, <1>8

\* OPTIMIZE TABLE.
LEMMA CompactStep ==
  ASSUME IInv, Compact
  PROVE  IInv' /\ MapStep
  <1> DEFINE req == [op |-> "optimize"]
  <1>1. PICK o \in Flushed(delta, Cur) :
           \/ Apply(o, req)
           \/ Apply(Outcome(o.d, Merge(o.s, o.s.parts), FALSE), req)
           \/ Apply(Outcome(o.d, o.s, TRUE), req)
    BY DEF Compact
  <1>2. Good(o) /\ RowsOf(o) = ScanRows(Cur, delta)
    BY CurFacts, FlushedFacts
  <1>3. ASSUME NEW w, Good(w), Apply(w, req), RowsOf(w) = RowsOf(o) PROVE IInv' /\ MapStep
    BY <1>2, <1>3, Looks DEF Compact, Running
  <1>4. CASE Apply(o, req)
    BY <1>2, <1>3, <1>4
  <1>5. CASE Apply(Outcome(o.d, Merge(o.s, o.s.parts), FALSE), req)
    <2> DEFINE w == Outcome(o.d, Merge(o.s, o.s.parts), FALSE)
    <2>1. w.d = o.d /\ w.s = Merge(o.s, o.s.parts) /\ w.err = FALSE
      BY DEF Outcome
    <2>2. Apply(w, req)
      BY <1>5
    <2> HIDE DEF w
    <2>3. GoodSet(w.s) /\ LiveRows(w.s) = LiveRows(o.s)
      BY <2>1, <1>2, MergeFacts DEF Good
    <2>4. Good(w) /\ RowsOf(w) = RowsOf(o)
      BY <2>1, <2>3, <1>2 DEF Good, RowsOf, ScanRows
    <2> QED
      BY <2>2, <2>4, <1>3
  <1>6. CASE Apply(Outcome(o.d, o.s, TRUE), req)
    <2> DEFINE w == Outcome(o.d, o.s, TRUE)
    <2>1. w.d = o.d /\ w.s = o.s /\ w.err = TRUE
      BY DEF Outcome
    <2>2. Apply(w, req)
      BY <1>6
    <2> HIDE DEF w
    <2>3. Good(w) /\ RowsOf(w) = RowsOf(o)
      BY <2>1, <1>2 DEF Good, RowsOf
    <2> QED
      BY <2>2, <2>3, <1>3
  <1> QED
    BY <1>1, <1>4, <1>5, <1>6

\* The end of a replay and the compaction passes after it.
LEMMA SteadySteps ==
  ASSUME IInv, EndReplay \/ CompactToSteady
  PROVE  IInv' /\ MapStep
  <1>1. CASE EndReplay
    <2>1. /\ UNCHANGED <<delta, pub, view, inTxn, poisoned, lastStmt>> /\ phase' = "steady"
          /\ ~inTxn /\ ~poisoned
      BY <1>1 DEF EndReplay, IInv
    <2>2. UNCHANGED <<Working, CommittedMap, inTxn, poisoned, lastStmt>>
      BY <2>1 DEF Working, CommittedMap, Cur
    <2> QED
      BY <2>1, <2>2 DEF IInv, MapStep
  <1>2. CASE CompactToSteady
    <2>1. /\ UNCHANGED <<delta, view, inTxn, poisoned, lastStmt>>
          /\ phase' \in {"steady", "run"}
          /\ ~inTxn /\ ~poisoned
          /\ pub' \in AutoCompact(pub) \cup {pub}
      BY <1>2 DEF CompactToSteady, IInv
    <2>2. GoodSet(pub') /\ LiveRows(pub') = LiveRows(pub)
      BY <2>1, AutoCompactFacts DEF IInv
    <2>3. UNCHANGED <<Working, CommittedMap, inTxn, poisoned, lastStmt>>
      BY <2>1, <2>2 DEF Working, CommittedMap, Cur, ScanRows, AsMap
    <2> QED
      BY <2>1, <2>2, <2>3 DEF IInv, MapStep
  <1> QED
    BY <1>1, <1>2

\* BEGIN on this table.
LEMMA BeginStep ==
  ASSUME IInv, BeginTxn
  PROVE  IInv' /\ MapStep
  <1>1. /\ ~inTxn /\ phase = "run" /\ UNCHANGED <<poisoned, phase>>
        /\ \E o \in Flushed(delta, pub) :
              /\ delta' = o.d /\ pub' = o.s
              /\ IF o.err THEN UNCHANGED <<view, inTxn>> ELSE view' = o.s /\ inTxn' = TRUE
              /\ lastStmt' = Label([op |-> "begin"], ~o.err)
    BY DEF BeginTxn
  <1>2. PICK o \in Flushed(delta, pub) :
           /\ delta' = o.d /\ pub' = o.s
           /\ IF o.err THEN UNCHANGED <<view, inTxn>> ELSE view' = o.s /\ inTxn' = TRUE
           /\ lastStmt' = Label([op |-> "begin"], ~o.err)
    BY <1>1
  <1>3. Good(o) /\ RowsOf(o) = ScanRows(pub, delta) /\ (~o.err => o.d = Empty)
    BY FlushedFacts DEF IInv
  <1>4. Working = AsMap(ScanRows(pub, delta)) /\ CommittedMap = Working
    BY <1>1 DEF Working, CommittedMap, Cur
  <1>5. IInv'
    BY <1>1, <1>2, <1>3 DEF IInv, Good
  <1>6. Working' = AsMap(RowsOf(o)) /\ CommittedMap' = AsMap(RowsOf(o)) /\ inTxn' = ~o.err
    <2>1. CASE o.err
      BY <1>1, <1>2, <1>3, <2>1 DEF Working, CommittedMap, Cur, RowsOf, Good, IInv
    <2>2. CASE ~o.err
      BY <1>2, <1>3, <2>2 DEF Working, CommittedMap, Cur, RowsOf, Good
    <2> QED
      BY <2>1, <2>2
  <1>7. Map!Begin(~o.err) /\ (~o.err) \in BOOLEAN
    BY <1>1, <1>2, <1>3, <1>4, <1>6 DEF Map!Begin, Working, CommittedMap
  <1> QED
    BY <1>5, <1>7 DEF MapStep, Map!Next

\* ROLLBACK, and a COMMIT that fails, forget the overlay and the buffer.
LEMMA DiscardStep ==
  ASSUME IInv, inTxn, Discard, UNCHANGED phase,
         lastStmt' = Label([op |-> "rollback"], TRUE) \/ lastStmt' = Label([op |-> "commit"], FALSE)
  PROVE  IInv' /\ MapStep
  <1>1. /\ inTxn' = FALSE /\ view' = EmptySet /\ poisoned' = FALSE
        /\ delta' = Empty /\ pub' = pub
    BY DEF Discard
  <1>2. GoodSet(EmptySet)
    BY DEF GoodSet, EmptySet, PartSets
  <1>3. IInv'
    BY <1>1, <1>2, EmptyFacts DEF IInv
  <1>4. CommittedMap = AsMap(ScanRows(pub, Empty))
    BY DEF CommittedMap
  <1>5. Working' = AsMap(ScanRows(pub, Empty)) /\ CommittedMap' = AsMap(ScanRows(pub, Empty))
    BY <1>1 DEF Working, CommittedMap, Cur
  <1>6. CASE lastStmt' = Label([op |-> "rollback"], TRUE)
    BY <1>1, <1>3, <1>4, <1>5, <1>6 DEF MapStep, Map!Next, Map!Rollback, Working, CommittedMap
  <1>7. CASE lastStmt' = Label([op |-> "commit"], FALSE)
    <2>1. Map!Commit(FALSE)
      BY <1>1, <1>4, <1>5, <1>7 DEF Map!Commit, Working, CommittedMap
    <2> QED
      BY <1>3, <2>1 DEF MapStep, Map!Next
  <1> QED
    BY <1>6, <1>7

\* COMMIT publishes the overlay, or gives it up.
LEMMA CommitStep ==
  ASSUME IInv, CommitTxn
  PROVE  IInv' /\ MapStep
  <1>1. inTxn /\ UNCHANGED phase
    BY DEF CommitTxn
  <1>2. CASE Discard /\ lastStmt' = Label([op |-> "commit"], FALSE)
    BY <1>1, <1>2, DiscardStep
  <1>3. CASE ~(Discard /\ lastStmt' = Label([op |-> "commit"], FALSE))
    <2>1. PICK o \in Flushed(delta, view) :
             /\ ~o.err /\ ~poisoned /\ lastStmt' = Label([op |-> "commit"], ~o.err)
             /\ pub' = o.s /\ delta' = o.d /\ view' = EmptySet
             /\ inTxn' = FALSE /\ UNCHANGED poisoned
      <3>1. ~poisoned
        BY <1>3 DEF CommitTxn
      <3>2. PICK o \in Flushed(delta, view) :
               /\ lastStmt' = Label([op |-> "commit"], ~o.err)
               /\ IF o.err THEN Discard
                  ELSE /\ pub' = o.s /\ delta' = o.d /\ view' = EmptySet
                       /\ inTxn' = FALSE /\ UNCHANGED poisoned
        BY <3>1 DEF CommitTxn
      <3>3. o.err \in BOOLEAN
        BY FlushedFacts DEF IInv, Good
      <3>4. CASE o.err
        BY <1>3, <3>2, <3>3, <3>4
      <3> QED
        BY <3>1, <3>2, <3>3, <3>4
    <2>2. Good(o) /\ RowsOf(o) = ScanRows(view, delta) /\ o.d = Empty
      BY <2>1, FlushedFacts DEF IInv
    <2>3. GoodSet(EmptySet)
      BY DEF GoodSet, EmptySet, PartSets
    <2>4. IInv'
      BY <1>1, <2>1, <2>2, <2>3 DEF IInv, Good
    <2>5. Working = AsMap(RowsOf(o))
      BY <1>1, <2>2 DEF Working, Cur
    <2>6. Working' = AsMap(RowsOf(o)) /\ CommittedMap' = AsMap(RowsOf(o))
      BY <2>1 DEF Working, CommittedMap, Cur, RowsOf
    <2>7. Map!Commit(TRUE)
      <3>1. poisoned' = FALSE /\ lastStmt' = Label([op |-> "commit"], TRUE)
        BY <2>1 DEF IInv
      <3> QED
        BY <1>1, <2>1, <2>5, <2>6, <3>1 DEF Map!Commit, Working, CommittedMap
    <2> QED
      BY <2>4, <2>7 DEF MapStep, Map!Next
  <1> QED
    BY <1>2, <1>3

\* The empty table is a good state and maps to the empty map.
LEMMA InitFacts == Init => IInv /\ Map!Init
  <1> SUFFICES ASSUME Init PROVE IInv /\ Map!Init
    OBVIOUS
  <1>1. GoodSet(EmptySet) /\ LiveRows(EmptySet) = {}
    BY DEF GoodSet, EmptySet, PartSets, LiveRows
  <1>2. IInv
    BY <1>1, EmptyFacts DEF Init, IInv
  <1>3. Working = [k \in Keys |-> {}] /\ CommittedMap = [k \in Keys |-> {}]
    BY <1>1, EmptyFacts DEF Init, Working, CommittedMap, Cur, AsMap, ValuesAt
  <1>4. Map!Init
    BY <1>3 DEF Map!Init, Working, CommittedMap, Init
  <1> QED
    BY <1>2, <1>4

\* Every step of the table keeps the invariant and is a step of the map.
LEMMA NextFacts == IInv /\ [Next]_vars => IInv' /\ MapStep
  <1> SUFFICES ASSUME IInv, [Next]_vars PROVE IInv' /\ MapStep
    OBVIOUS
  <1>1. CASE UNCHANGED vars
    BY <1>1 DEF vars, IInv, MapStep, Working, CommittedMap, Cur
  <1>2. CASE \E b \in Batches : ReplayInsert(b) \/ InsertStmt(b) \/ InsertUnique(b)
    BY <1>2, InsertSteps, InsertUniqueStep
  <1>3. CASE \E k \in Keys : ReplayDelete(k)
    BY <1>3, ReplayDeleteStep
  <1>4. CASE EndReplay \/ CompactToSteady
    BY <1>4, SteadySteps
  <1>5. CASE Select \/ Compact
    BY <1>5, SelectStep, CompactStep
  <1>6. CASE \E ks \in SUBSET Keys : Delete(ks)
    BY <1>6, DeleteStep
  <1>7. CASE \E ks \in SUBSET Keys : \E to \in [ks -> Keys] : \E v \in Vals : Update(ks, to, v)
    BY <1>7, UpdateStep
  <1>8. CASE BeginTxn \/ CommitTxn
    BY <1>8, BeginStep, CommitStep
  <1>9. CASE RollbackTxn
    BY <1>9, DiscardStep DEF RollbackTxn
  <1> QED
    BY <1>1, <1>2, <1>3, <1>4, <1>5, <1>6, <1>7, <1>8, <1>9 DEF Next

(***************************************************************************)
(* The theorems.                                                           *)
(***************************************************************************)
\* The buffer and both part sets are good in every reachable state
\* (storage/table.rs).
THEOREM InductiveInvariant == Spec => []IInv
  BY InitFacts, NextFacts, PTL DEF Spec

\* Types, identities below the next one, masks inside their parts.
THEOREM TypeCorrect == Spec => []TypeOK
  <1>1. IInv => TypeOK
    BY DEF IInv, TypeOK, GoodBuffer, GoodSet, PartSets
  <1> QED
    BY <1>1, InductiveInvariant, PTL

\* A key has at most one live row among the parts of a set, whatever flushes,
\* bulk inserts, merges, failed builds and rollbacks came before
\* (tombstone_key, ingest_block, merge_parts).
THEOREM KeysHaveOneLiveRow == Spec => []OneLiveRow
  <1>1. IInv => OneLiveRow
    BY DEF IInv, OneLiveRow, GoodSet
  <1> QED
    BY <1>1, InductiveInvariant, PTL

\* A point lookup through the index finds what a scan of the key returns
\* (locate_in against Table::scan).
THEOREM ProbesAgree == Spec => []ProbeAgreesWithScan
  <1>1. IInv => ProbeAgreesWithScan
    BY CurFacts, LocateFacts DEF ProbeAgreesWithScan
  <1> QED
    BY <1>1, InductiveInvariant, PTL

\* The table implements the keyed map: a statement that answers Ok changes the
\* rows it names and no others; a flush, a merge or a failed build inside a
\* SELECT, an OPTIMIZE or compact_to_steady changes none; a failed statement
\* changes nothing or is whole; COMMIT and ROLLBACK are the map's.
THEOREM ImplementsMap == Spec => MapSpec
  <1>1. MapStep => [Map!Next]_(Map!mvars)
    BY DEF MapStep, Map!mvars, Working, CommittedMap
  <1>2. IInv /\ [Next]_vars => [Map!Next]_(Map!mvars)
    BY <1>1, NextFacts
  <1> QED
    BY <1>2, InitFacts, InductiveInvariant, PTL DEF Spec, MapSpec, Map!Spec
=============================================================================
