------------------------- MODULE ConnectionsProofs -------------------------
(***************************************************************************)
(* Proofs about Connections, for any connections, tables and readers and   *)
(* any number of rows.                                                     *)
(*                                                                         *)
(* The argument: whoever touches the tables, the transaction or the        *)
(* acknowledged rows holds the lock alone, so a thread that is reading can *)
(* rely on what its gate saw; and the overlay of a table and its buffer    *)
(* together are what the table's committed and staged rows say.            *)
(***************************************************************************)
EXTENDS Connections, TLAPS

Phases == {"none", "idle", "want_write", "guard", "guard_scan", "unwinding", "want_read",
           "want_flush", "gate", "scan", "head", "rows", "send_err", "ended", "opening",
           "cursor", "fetching", "joining", "closing"}

TableStates == [parts : SUBSET Rows, delta : SUBSET Rows, overlay : {None} \cup SUBSET Rows]
Locks == [w : Threads \cup {None}, r : SUBSET Threads, wait : SUBSET Threads, poisoned : BOOLEAN]

TypeOK ==
    /\ lock \in Locks
    /\ owner \in Conns \cup {None}
    /\ txn \in Transactions \cup {None}
    /\ tables \in [Tables -> TableStates]
    /\ phase \in [Threads -> Phases]
    /\ view \in [Threads -> [Tables -> {None} \cup SUBSET Rows]]
    /\ nrow \in 0 .. MaxRows
    /\ committed \in RowSets
    /\ staged \in RowSets

\* The phases in which a thread holds the lock, shared or not.
Reading == {"gate", "scan", "head", "rows"}
Guarding == {"guard", "guard_scan"}

\* The lock is held by one writer or by readers.
OneWriter == lock.r # {} => lock.w = None

\* A guard is its client's and holds the lock alone, for the connection that
\* took it last.
GuardHolds ==
    \A h \in Threads : phase[h] \in Guarding => lock.w = h /\ h[2] = "main" /\ owner = h[1]

\* A reader that passed, or waits at, its gate holds the lock.
ReaderHolds == \A h \in Threads : phase[h] \in Reading => lock.w = h \/ h \in lock.r

\* A client without a cursor has no producer.
NoProducer ==
    \A c \in Conns :
        phase[Main(c)] \in {"idle", "want_write", "guard", "guard_scan"} => phase[Producer(c)] = "none"

\* An overlay is the open transaction's; with the buffer it is what was
\* committed and what the transaction was told it has inserted.
OverlayExact ==
    \A t \in Tables :
        IF InTxn(t)
        THEN txn # None /\ tables[t].overlay \cup tables[t].delta = committed[t] \cup staged[t]
        ELSE staged[t] = {}

\* The rows of the open transaction are its connection's.
StagedByOwner == \A t \in Tables : \A r \in staged[t] : txn # None /\ r.by = txn.owner

\* What the gate of a reader found holds until it gives up the lock.
GateHolds ==
    \A h \in Threads : phase[h] \in {"scan", "head", "rows"} =>
        \A t \in Tables : ~InTxn(t) /\ tables[t].delta = {}

\* A read through the guard has flushed, and no other connection's
\* transaction is open.
GuardFlushed ==
    \A h \in Threads : phase[h] = "guard_scan" =>
        /\ txn # None => txn.owner = h[1]
        /\ \A t \in Tables : tables[t].delta = {}

\* Only a scan in progress has read anything.
ViewWhileScanning ==
    \A h \in Threads, t \in Tables : view[h][t] # None => phase[h] \in {"scan", "guard_scan", "rows"}

IInv ==
    /\ TypeOK
    /\ OneWriter
    /\ GuardHolds
    /\ ReaderHolds
    /\ NoProducer
    /\ AckedIsPublished
    /\ OverlayExact
    /\ StagedByOwner
    /\ GateHolds
    /\ GuardFlushed
    /\ ViewWhileScanning
    /\ ReadsCommitted

(***************************************************************************)
(* Facts the cases below share.                                            *)
(***************************************************************************)
\* A connection has two threads, different from those of any other.
LEMMA ThreadFacts ==
    /\ \A c \in Conns : Main(c) \in Threads /\ Producer(c) \in Threads
    /\ \A c \in Conns : Main(c)[1] = c /\ Main(c)[2] = "main"
    /\ \A c \in Conns : Producer(c)[1] = c /\ Producer(c)[2] = "cursor"
    /\ \A c, d \in Conns : Main(c) # Producer(d)
    /\ \A c, d \in Conns : Main(c) = Main(d) => c = d
    /\ \A c, d \in Conns : Producer(c) = Producer(d) => c = d
    /\ \A h \in Threads : h[1] \in Conns /\ h = IF h[2] = "main" THEN Main(h[1]) ELSE Producer(h[1])
  BY DEF Main, Producer, Threads

\* The tables as fields of the right type.
LEMMA TableFields ==
    ASSUME TypeOK, NEW t \in Tables
    PROVE  /\ tables[t] \in TableStates
           /\ tables[t].parts \in SUBSET Rows
           /\ tables[t].delta \in SUBSET Rows
           /\ InTxn(t) => tables[t].overlay \in SUBSET Rows
           /\ committed[t] \in SUBSET Rows
           /\ staged[t] \in SUBSET Rows
           /\ Snapshot(t) \in SUBSET Rows
  BY DEF TypeOK, TableStates, InTxn, Snapshot, RowSets

\* What flushing and the ends of a transaction make of one table.
LEMMA FlushFacts ==
    ASSUME NEW x \in TableStates
    PROVE  /\ Flush(x) \in TableStates
           /\ Flush(x).delta = {}
           /\ Flush(x).overlay = None <=> x.overlay = None
           /\ x.overlay = None => Flush(x).parts = x.parts \cup x.delta
           /\ x.overlay # None => /\ Flush(x).parts = x.parts
                                  /\ Flush(x).overlay = x.overlay \cup x.delta
  <1>1. CASE x.overlay = None
    BY <1>1 DEF Flush, TableStates
  <1>2. CASE x.overlay # None
    <2>1. x.overlay \cup x.delta \in SUBSET Rows
      BY <1>2 DEF TableStates
    <2>2. x.overlay \cup x.delta # None
      BY <2>1, ConnAssumption
    <2> QED
      BY <1>2, <2>1, <2>2 DEF Flush, TableStates
  <1> QED
    BY <1>1, <1>2

\* TableStore::begin_txn flushes the delta and opens the overlay on it.
LEMMA BeginFacts ==
    ASSUME NEW x \in TableStates, x.overlay = None
    PROVE  /\ BeginTxn(x) \in TableStates
           /\ BeginTxn(x).delta = {}
           /\ BeginTxn(x).parts = x.parts \cup x.delta
           /\ BeginTxn(x).overlay = x.parts \cup x.delta
           /\ BeginTxn(x).overlay # None
  <1>1. Flush(x).parts \in SUBSET Rows /\ Flush(x).parts # None
    BY FlushFacts, ConnAssumption DEF TableStates
  <1> QED
    BY FlushFacts, <1>1 DEF BeginTxn, TableStates

\* TableStore::commit_txn makes the overlay and the delta the parts.
LEMMA CommitFacts ==
    ASSUME NEW x \in TableStates
    PROVE  /\ CommitTxn(x) \in TableStates
           /\ CommitTxn(x).overlay = None
           /\ x.overlay = None => CommitTxn(x) = x
           /\ x.overlay # None => /\ CommitTxn(x).parts = x.overlay \cup x.delta
                                  /\ CommitTxn(x).delta = {}
  BY FlushFacts DEF CommitTxn, TableStates

\* TableStore::rollback_txn drops the overlay and keeps the parts.
LEMMA RollbackFacts ==
    ASSUME NEW x \in TableStates
    PROVE  /\ RollbackTxn(x) \in TableStates
           /\ RollbackTxn(x).overlay = None
           /\ RollbackTxn(x).parts = x.parts
           /\ x.overlay = None => RollbackTxn(x) = x
           /\ x.overlay # None => RollbackTxn(x).delta = {}
  BY DEF RollbackTxn, TableStates

\* The initial state satisfies the invariant (Db::new).
LEMMA InitIInv == Init => IInv
  <1> SUFFICES ASSUME Init PROVE IInv
    OBVIOUS
  <1>1. TypeOK
    BY ConnAssumption
    DEF Init, TypeOK, Locks, TableStates, RowSets, NoRows, Unread, Phases
  <1>2. OneWriter /\ GuardHolds /\ ReaderHolds /\ NoProducer
    BY ThreadFacts DEF Init, OneWriter, GuardHolds, ReaderHolds, NoProducer, Reading, Guarding
  <1>3. AckedIsPublished /\ OverlayExact /\ StagedByOwner
    BY DEF Init, AckedIsPublished, OverlayExact, StagedByOwner, InTxn, NoRows
  <1>4. GateHolds /\ GuardFlushed
    BY ThreadFacts DEF Init, GateHolds, GuardFlushed
  <1>5. ViewWhileScanning /\ ReadsCommitted
    BY DEF Init, ViewWhileScanning, ReadsCommitted, Unread
  <1> QED
    BY <1>1, <1>2, <1>3, <1>4, <1>5 DEF IInv

\* Who holds the lock alone, or finds it free, is the only thread that reads
\* or has a guard; nobody else has read anything.
LEMMA SoleHolder ==
    ASSUME IInv, NEW h \in Threads, lock.w = h \/ Free
    PROVE  \A g \in Threads \ {h} :
               /\ phase[g] \notin Reading \cup Guarding
               /\ \A t \in Tables : view[g][t] = None
  <1> SUFFICES ASSUME NEW g \in Threads, g # h
               PROVE  /\ phase[g] \notin Reading \cup Guarding
                      /\ \A t \in Tables : view[g][t] = None
    OBVIOUS
  <1>1. lock.r = {}
    BY ConnAssumption DEF IInv, OneWriter, Free
  <1>2. phase[g] \notin Reading \cup Guarding
    BY <1>1, ConnAssumption DEF IInv, GuardHolds, ReaderHolds, Free
  <1> QED
    BY <1>2 DEF IInv, ViewWhileScanning, Reading, Guarding

\* A step of the sole holder may change what the tables hold.
LEMMA HolderStep ==
    ASSUME IInv, NEW h \in Threads, lock.w = h \/ Free,
           TypeOK', OneWriter', GuardHolds', ReaderHolds', NoProducer',
           AckedIsPublished', OverlayExact', StagedByOwner',
           \A g \in Threads \ {h} : phase'[g] = phase[g] /\ view'[g] = view[g],
           \A t \in Tables : view'[h][t] = None,
           phase'[h] \notin {"scan", "head", "rows"},
           phase'[h] = "guard_scan" => /\ txn' # None => txn'.owner = h[1]
                                       /\ \A t \in Tables : tables'[t].delta = {}
    PROVE  IInv'
  <1>1. \A g \in Threads \ {h} :
            /\ phase'[g] \notin Reading \cup Guarding
            /\ \A t \in Tables : view'[g][t] = None
    BY SoleHolder
  <1>2. GateHolds'
    BY <1>1 DEF GateHolds, Reading
  <1>3. GuardFlushed'
    BY <1>1 DEF GuardFlushed, Guarding
  <1>4. ViewWhileScanning' /\ ReadsCommitted'
    BY <1>1 DEF ViewWhileScanning, ReadsCommitted
  <1> QED
    BY <1>2, <1>3, <1>4 DEF IInv

\* What the tables hold and what was acknowledged stay related when neither
\* changes.
LEMMA SameData ==
    ASSUME IInv, UNCHANGED <<txn, tables, committed, staged>>
    PROVE  AckedIsPublished' /\ OverlayExact' /\ StagedByOwner'
  BY DEF IInv, AckedIsPublished, OverlayExact, StagedByOwner, InTxn

\* A thread that is about its read, wherever it goes, leaves the producers of
\* the clients without a cursor alone.
LEMMA ProducerKept ==
    ASSUME IInv, NEW h \in Threads, phase[h] # "none",
           NEW p, p \notin {"idle", "want_write", "guard", "guard_scan"},
           phase' = [phase EXCEPT ![h] = p]
    PROVE  NoProducer'
  <1> SUFFICES ASSUME NEW d \in Conns,
                      phase'[Main(d)] \in {"idle", "want_write", "guard", "guard_scan"}
               PROVE  phase'[Producer(d)] = "none"
    BY DEF NoProducer
  <1>1. Main(d) \in Threads /\ Producer(d) \in Threads /\ Main(d) # h
    BY ThreadFacts DEF IInv, TypeOK
  <1>2. phase[Producer(d)] = "none"
    BY <1>1 DEF IInv, TypeOK, NoProducer
  <1> QED
    BY <1>1, <1>2 DEF IInv, TypeOK

\* A step of one thread that leaves it without the lock and changes no data.
LEMMA LeavingStep ==
    ASSUME IInv, UNCHANGED <<owner, txn, tables, committed, staged, nrow>>,
           NEW h \in Threads, NEW p \in Phases, p \notin Reading \cup Guarding,
           phase' = [phase EXCEPT ![h] = p],
           NoProducer',
           lock' \in Locks, OneWriter',
           \A g \in Threads \ {h} :
               (lock.w = g => lock'.w = g) /\ (g \in lock.r => g \in lock'.r),
           \/ view' = view /\ phase[h] \notin {"scan", "guard_scan", "rows"}
           \/ view' = [view EXCEPT ![h] = Unread]
    PROVE  IInv'
  <1>1. \A g \in Threads \ {h} : phase'[g] = phase[g] /\ view'[g] = view[g]
    BY DEF IInv, TypeOK
  <1>2. phase'[h] = p /\ \A t \in Tables : view'[h][t] = None
    BY DEF IInv, TypeOK, Unread, ViewWhileScanning
  <1>3. TypeOK'
    BY DEF IInv, TypeOK, Unread
  <1>4. GuardHolds' /\ ReaderHolds'
    BY <1>1, <1>2 DEF IInv, GuardHolds, ReaderHolds
  <1>5. GateHolds' /\ GuardFlushed'
    BY <1>1, <1>2 DEF IInv, GateHolds, GuardFlushed, Reading, Guarding, InTxn
  <1>6. ViewWhileScanning'
    BY <1>1, <1>2 DEF IInv, ViewWhileScanning
  <1>7. ReadsCommitted'
    BY <1>1, <1>2 DEF IInv, ReadsCommitted, Mine
  <1> QED
    BY <1>3, <1>4, <1>5, <1>6, <1>7, SameData DEF IInv

\* Giving the lock up, and taking it alone.
LEMMA ReleasedFacts ==
    ASSUME IInv, NEW h \in Threads
    PROVE  /\ Released(h) \in Locks
           /\ Released(h).r # {} => Released(h).w = None
           /\ Released(h).poisoned = lock.poisoned
           /\ \A g \in Threads \ {h} :
                  (lock.w = g => Released(h).w = g) /\ (g \in lock.r => g \in Released(h).r)
  BY ConnAssumption DEF IInv, TypeOK, Locks, Released, OneWriter

\* A writer that takes the free lock excludes readers and writers.
LEMMA ExclusiveFacts ==
    ASSUME IInv, NEW h \in Threads, Free
    PROVE  Exclusive(h) \in Locks /\ Exclusive(h).w = h /\ Exclusive(h).r = {}
  BY DEF IInv, TypeOK, Locks, Exclusive, Free

(***************************************************************************)
(* One lemma per action, or per group of actions of one shape.             *)
(***************************************************************************)
\* A client leaves for a call that does not hold the lock, or comes back from
\* one.
LEMMA ClientMoves ==
    ASSUME IInv, NEW c \in Conns,
           WantWriter(c) \/ Query(c) \/ Fetch(c) \/ Receive(c) \/ CancelCursor(c) \/ CloseCursor(c)
    PROVE  IInv'
  <1> DEFINE h == Main(c)
  <1>1. h \in Threads /\ Producer(c) # h
    BY ThreadFacts
  <1>2. PICK p \in {"want_write", "want_read", "fetching", "joining", "cursor", "closing"} :
            /\ phase' = [phase EXCEPT ![h] = p]
            /\ p = "want_write" => phase[h] = "idle"
    BY DEF WantWriter, Query, Fetch, Receive, CancelCursor, CloseCursor, Goto
  <1>3. p \in Phases /\ p \notin Reading \cup Guarding
    BY DEF Phases, Reading, Guarding
  <1>4. NoProducer'
    BY <1>1, <1>2, ThreadFacts DEF IInv, TypeOK, NoProducer
  <1>5. /\ UNCHANGED <<owner, txn, tables, committed, staged, nrow, view>>
        /\ phase[h] \notin {"scan", "guard_scan", "rows"}
        /\ lock' = lock \/ lock' = [lock EXCEPT !.wait = @ \cup {h}]
    BY DEF WantWriter, Query, Fetch, Receive, CancelCursor, CloseCursor
  <1>6. lock' \in Locks /\ lock'.w = lock.w /\ lock'.r = lock.r
    BY <1>1, <1>5 DEF IInv, TypeOK, Locks
  <1>7. OneWriter'
    BY <1>6 DEF IInv, OneWriter
  <1> QED
    BY <1>1, <1>2, <1>3, <1>4, <1>5, <1>6, <1>7, LeavingStep

\* The producer of a failed read reports its error.
LEMMA SendErrStep ==
    ASSUME IInv, NEW c \in Conns, SendErr(c)
    PROVE  IInv'
  <1> DEFINE h == Producer(c)
  <1>1. h \in Threads /\ \A d \in Conns : Main(d) # h
    BY ThreadFacts
  <1>2. /\ phase[h] = "send_err"
        /\ phase' = [phase EXCEPT ![h] = "ended"]
        /\ UNCHANGED <<lock, owner, txn, tables, committed, staged, nrow, view>>
    BY DEF SendErr, Goto
  <1>3. "ended" \in Phases /\ "ended" \notin Reading \cup Guarding
    BY DEF Phases, Reading, Guarding
  <1>4. NoProducer'
    BY <1>1, <1>2, ProducerKept
  <1>5. lock' \in Locks /\ OneWriter'
    BY <1>2 DEF IInv, TypeOK, OneWriter
  <1> QED
    BY <1>1, <1>2, <1>3, <1>4, <1>5, LeavingStep

\* A guard that is let go.
LEMMA ReleaseStep ==
    ASSUME IInv, NEW c \in Conns, Release(c)
    PROVE  IInv'
  <1> DEFINE h == Main(c)
  <1>1. h \in Threads /\ \A d \in Conns : Producer(d) # h
    BY ThreadFacts
  <1>2. /\ phase[h] = "guard"
        /\ phase' = [phase EXCEPT ![h] = "idle"]
        /\ UNCHANGED <<owner, txn, tables, committed, staged, nrow, view>>
        /\ lock' = Released(h)
    BY DEF Release, Goto
  <1>3. "idle" \in Phases /\ "idle" \notin Reading \cup Guarding
    BY DEF Phases, Reading, Guarding
  <1>4. NoProducer'
    BY <1>1, <1>2, ThreadFacts DEF IInv, TypeOK, NoProducer
  <1>5. lock' \in Locks /\ OneWriter'
    BY <1>1, <1>2, ReleasedFacts DEF OneWriter
  <1>6. \A g \in Threads \ {h} : (lock.w = g => lock'.w = g) /\ (g \in lock.r => g \in lock'.r)
    BY <1>1, <1>2, ReleasedFacts
  <1> QED
    BY <1>1, <1>2, <1>3, <1>4, <1>5, <1>6, LeavingStep

\* A read that ends gives up its lock: refused, failed, cut off or complete.
LEMMA RestingFacts ==
    ASSUME IInv, NEW h \in Threads, phase[h] \in Reading,
           NEW p, IF h[2] = "main" THEN p = Resting(h[1]) ELSE p \in {"send_err", "ended"},
           phase' = [phase EXCEPT ![h] = p]
    PROVE  p \in Phases /\ p \notin Reading \cup Guarding /\ NoProducer'
  <1>1. p \in {"idle", "cursor", "send_err", "ended"}
    BY DEF Resting
  <1>2. p \in Phases /\ p \notin Reading \cup Guarding
    BY <1>1 DEF Phases, Reading, Guarding
  <1>3. NoProducer'
    <2> SUFFICES ASSUME NEW d \in Conns,
                        phase'[Main(d)] \in {"idle", "want_write", "guard", "guard_scan"}
                 PROVE  phase'[Producer(d)] = "none"
      BY DEF NoProducer
    <2>1. Main(d) \in Threads /\ Producer(d) \in Threads /\ Main(d) # Producer(d)
      BY ThreadFacts
    <2>2. CASE h = Main(d)
      BY <2>1, <2>2, ThreadFacts DEF Resting, IInv, TypeOK
    <2>3. CASE h # Main(d)
      <3>1. phase[Producer(d)] = "none"
        BY <2>1, <2>3 DEF IInv, TypeOK, NoProducer
      <3> QED
        BY <3>1, <2>1 DEF Reading, IInv, TypeOK
    <2> QED
      BY <2>2, <2>3
  <1> QED
    BY <1>2, <1>3

\* A read that ends, well or not, only releases its share of the lock.
LEMMA ReadEnds ==
    ASSUME IInv, NEW h \in Threads, phase[h] \in Reading,
           NEW p, IF h[2] = "main" THEN p = Resting(h[1]) ELSE p \in {"send_err", "ended"},
           phase' = [phase EXCEPT ![h] = p],
           lock' = Released(h),
           view' = [view EXCEPT ![h] = Unread],
           UNCHANGED <<owner, txn, tables, committed, staged, nrow>>
    PROVE  IInv'
  <1>1. p \in Phases /\ p \notin Reading \cup Guarding /\ NoProducer'
    BY RestingFacts
  <1>2. lock' \in Locks /\ OneWriter'
    BY ReleasedFacts DEF OneWriter
  <1>3. \A g \in Threads \ {h} : (lock.w = g => lock'.w = g) /\ (g \in lock.r => g \in lock'.r)
    BY ReleasedFacts
  <1> QED
    BY <1>1, <1>2, <1>3, LeavingStep

\* A reader past its gate keeps the lock and goes on.
LEMMA StayingStep ==
    ASSUME IInv, UNCHANGED <<lock, owner, txn, tables, committed, staged, nrow>>,
           NEW h \in Threads, NEW p \in {"scan", "head", "rows"},
           phase[h] \in Reading, ~MustRefuse,
           phase' = [phase EXCEPT ![h] = p],
           view' \in [Threads -> [Tables -> {None} \cup SUBSET Rows]],
           \A g \in Threads \ {h} : view'[g] = view[g],
           \A t \in Tables : view'[h][t] # None => p \in {"scan", "rows"} /\ view'[h][t] = committed[t]
    PROVE  IInv'
  <1>1. phase' \in [Threads -> Phases] /\ phase'[h] = p /\ \A g \in Threads \ {h} : phase'[g] = phase[g]
    BY DEF IInv, TypeOK, Phases
  <1>2. TypeOK' /\ OneWriter'
    BY <1>1 DEF IInv, TypeOK, OneWriter
  <1>3. GuardHolds' /\ ReaderHolds'
    BY <1>1 DEF IInv, GuardHolds, ReaderHolds, Reading, Guarding
  <1>4. NoProducer'
    BY ProducerKept DEF Reading
  <1>5. GateHolds'
    BY <1>1 DEF IInv, GateHolds, MustRefuse, AnyInTxn, Pending, InTxn
  <1>6. GuardFlushed'
    BY <1>1 DEF IInv, GuardFlushed
  <1>7. ViewWhileScanning' /\ ReadsCommitted'
    BY <1>1 DEF IInv, ViewWhileScanning, ReadsCommitted, Mine
  <1> QED
    BY <1>2, <1>3, <1>4, <1>5, <1>6, <1>7, SameData DEF IInv

\* What a read that passed its gate sees.
LEMMA PastGate ==
    ASSUME IInv, NEW h \in Threads, phase[h] \in {"scan", "head", "rows"}
    PROVE  /\ ~MustRefuse
           /\ \A t \in Tables : Snapshot(t) = committed[t]
           /\ \A t \in Tables : view[h][t] # None =>
                  phase[h] \in {"scan", "rows"} /\ view[h][t] = committed[t]
  <1>1. \A t \in Tables : ~InTxn(t) /\ tables[t].delta = {}
    BY DEF IInv, GateHolds
  <1>2. ~MustRefuse
    BY <1>1 DEF MustRefuse, AnyInTxn, Pending
  <1>3. \A t \in Tables : Snapshot(t) = committed[t]
    BY <1>1, TableFields DEF IInv, AckedIsPublished, Snapshot
  <1>4. \A t \in Tables : view[h][t] # None =>
            phase[h] \in {"scan", "rows"} /\ view[h][t] = committed[t]
    <2> SUFFICES ASSUME NEW t \in Tables, view[h][t] # None
                 PROVE  phase[h] \in {"scan", "rows"} /\ view[h][t] = committed[t]
      OBVIOUS
    <2>1. phase[h] \in {"scan", "rows"}
      BY DEF IInv, ViewWhileScanning
    <2>2. view[h][t] = committed[t] \cup {}
      BY DEF IInv, ReadsCommitted
    <2> QED
      BY <2>1, <2>2
  <1> QED
    BY <1>2, <1>3, <1>4

\* A read whose gate passes goes on under the lock it holds.
LEMMA GatePassesStep ==
    ASSUME IInv, NEW h \in Threads, GatePasses(h)
    PROVE  IInv'
  <1>1. PICK p \in {"scan", "head"} : phase' = [phase EXCEPT ![h] = p]
    BY DEF GatePasses, Goto
  <1>2. /\ UNCHANGED <<lock, owner, txn, tables, committed, staged, nrow, view>>
        /\ phase[h] = "gate"
        /\ ~MustRefuse
    BY DEF GatePasses
  <1>3. \A t \in Tables : view[h][t] = None
    BY <1>2 DEF IInv, ViewWhileScanning
  <1>4. view \in [Threads -> [Tables -> {None} \cup SUBSET Rows]]
    BY DEF IInv, TypeOK
  <1>5. phase[h] \in Reading
    BY <1>2 DEF Reading
  <1> QED
    BY <1>1, <1>2, <1>3, <1>4, <1>5, StayingStep

\* A producer that hands over a chunk keeps its lock and its view.
LEMMA SendStep ==
    ASSUME IInv, NEW c \in Conns, Send(c)
    PROVE  IInv'
  <1> DEFINE h == Producer(c)
  <1>1. /\ h \in Threads
        /\ phase[h] \in {"head", "rows"}
        /\ phase' = [phase EXCEPT ![h] = "scan"]
        /\ UNCHANGED <<lock, owner, txn, tables, committed, staged, nrow, view>>
    BY ThreadFacts DEF Send, Goto
  <1>2. view \in [Threads -> [Tables -> {None} \cup SUBSET Rows]]
    BY DEF IInv, TypeOK
  <1>3. ~MustRefuse /\ \A t \in Tables : view[h][t] # None => view[h][t] = committed[t]
    BY <1>1, PastGate
  <1>4. phase[h] \in Reading
    BY <1>1 DEF Reading
  <1> HIDE DEF h
  <1> QED
    BY <1>1, <1>2, <1>3, <1>4, StayingStep

\* A scan reads one more table: committed rows for a reader, and for a guard
\* the rows of its own transaction too.
LEMMA ScanStep ==
    ASSUME IInv, NEW h \in Threads, NEW t \in Tables, Scan(h, t)
    PROVE  IInv'
  <1>1. /\ view[h][t] = None
        /\ view' = [view EXCEPT ![h][t] = Snapshot(t)]
        /\ UNCHANGED <<lock, owner, txn, tables, committed, staged, nrow>>
    BY DEF Scan
  <1>2. Snapshot(t) \in SUBSET Rows
    BY TableFields DEF IInv
  <1>3. view' \in [Threads -> [Tables -> {None} \cup SUBSET Rows]]
    BY <1>1, <1>2 DEF IInv, TypeOK
  <1>4. /\ \A g \in Threads \ {h} : view'[g] = view[g]
        /\ view'[h][t] = Snapshot(t)
        /\ \A u \in Tables \ {t} : view'[h][u] = view[h][u]
    BY <1>1 DEF IInv, TypeOK
  <1>5. CASE phase[h] = "scan"
    <2>1. PICK p \in {"scan", "rows"} : phase' = [phase EXCEPT ![h] = p]
      BY <1>5 DEF Scan, Goto
    <2>2. /\ phase[h] \in Reading
          /\ ~MustRefuse
          /\ \A u \in Tables : view'[h][u] # None => view'[h][u] = committed[u]
      BY <1>5, <1>4, PastGate DEF Reading
    <2>3. p \in {"scan", "head", "rows"} /\ UNCHANGED <<lock, owner, txn, tables, committed, staged, nrow>>
      BY <1>1, <2>1
    <2>4. \A u \in Tables : view'[h][u] # None => p \in {"scan", "rows"} /\ view'[h][u] = committed[u]
      BY <2>1, <2>2
    <2>5. \A g \in Threads \ {h} : view'[g] = view[g]
      BY <1>4
    <2> QED
      BY <1>3, <2>1, <2>2, <2>3, <2>4, <2>5, StayingStep
  <1>6. CASE phase[h] = "guard_scan"
    <2>1. h[2] = "main"
      BY <1>6 DEF IInv, GuardHolds, Guarding
    <2>2. phase' = phase
      BY <2>1 DEF Scan, Goto, IInv, TypeOK
    <2>3. TypeOK' /\ OneWriter' /\ GuardHolds' /\ ReaderHolds' /\ NoProducer'
      BY <1>1, <1>3, <2>2 DEF IInv, TypeOK, OneWriter, GuardHolds, ReaderHolds, NoProducer
    <2>4. GateHolds' /\ GuardFlushed'
      BY <1>1, <2>2 DEF IInv, GateHolds, GuardFlushed, InTxn
    <2>5. ViewWhileScanning'
      BY <1>4, <1>6, <2>2 DEF IInv, ViewWhileScanning
    <2>6. Snapshot(t) = committed[t] \cup (IF Mine(h[1]) THEN staged[t] ELSE {})
      <3>1. tables[t].delta = {} /\ (txn # None => txn.owner = h[1])
        BY <1>6 DEF IInv, GuardFlushed
      <3>2. CASE InTxn(t)
        BY <3>1, <3>2 DEF IInv, OverlayExact, Mine, Snapshot
      <3>3. CASE ~InTxn(t)
        BY <3>1, <3>3 DEF IInv, OverlayExact, AckedIsPublished, Snapshot
      <3> QED
        BY <3>2, <3>3
    <2>7. ReadsCommitted'
      <3> SUFFICES ASSUME NEW g \in Threads, NEW u \in Tables, view'[g][u] # None
                   PROVE  view'[g][u] = committed[u] \cup
                              (IF phase[g] = "guard_scan" /\ Mine(g[1]) THEN staged[u] ELSE {})
        BY <1>1, <2>2 DEF ReadsCommitted, Mine
      <3>1. CASE g = h /\ u = t
        BY <3>1, <1>4, <1>6, <2>6
      <3>2. CASE ~(g = h /\ u = t)
        BY <3>2, <1>4 DEF IInv, ReadsCommitted
      <3> QED
        BY <3>1, <3>2
    <2> QED
      BY <1>1, <2>3, <2>4, <2>5, <2>7, SameData DEF IInv
  <1> QED
    BY <1>5, <1>6 DEF Scan

\* A read that errs gives up its share of the lock and its view.
LEMMA RefuseStep ==
    ASSUME IInv, NEW h \in Threads, phase[h] \in Reading, Refuse(h)
    PROVE  IInv'
  <1> DEFINE p == IF h[2] = "main" THEN Resting(h[1]) ELSE "send_err"
  <1>1. /\ phase' = [phase EXCEPT ![h] = p]
        /\ lock' = Released(h)
        /\ view' = [view EXCEPT ![h] = Unread]
        /\ UNCHANGED <<owner, txn, tables, committed, staged, nrow>>
    BY DEF Refuse, Goto
  <1>2. IF h[2] = "main" THEN p = Resting(h[1]) ELSE p \in {"send_err", "ended"}
    OBVIOUS
  <1> HIDE DEF p
  <1> QED
    BY <1>1, <1>2, ReadEnds

\* A read that has scanned everything ends.
LEMMA FinishReadStep ==
    ASSUME IInv, NEW h \in Threads, FinishRead(h)
    PROVE  IInv'
  <1>1. /\ view' = [view EXCEPT ![h] = Unread]
        /\ UNCHANGED <<owner, txn, tables, committed, staged, nrow>>
    BY DEF FinishRead
  <1>2. CASE phase[h] = "scan"
    <2> DEFINE p == IF h[2] = "main" THEN Resting(h[1]) ELSE "ended"
    <2>1. phase' = [phase EXCEPT ![h] = p] /\ lock' = Released(h) /\ phase[h] \in Reading
      BY <1>2 DEF FinishRead, Goto, Reading
    <2>2. IF h[2] = "main" THEN p = Resting(h[1]) ELSE p \in {"send_err", "ended"}
      OBVIOUS
    <2> HIDE DEF p
    <2> QED
      BY <1>1, <2>1, <2>2, ReadEnds
  <1>3. CASE phase[h] = "guard_scan"
    <2>1. phase' = [phase EXCEPT ![h] = "guard"] /\ lock' = lock
      BY <1>3 DEF FinishRead, Goto
    <2>2. lock.w = h /\ h[2] = "main"
      BY <1>3 DEF IInv, GuardHolds, Guarding
    <2>3. /\ \A g \in Threads \ {h} : phase'[g] = phase[g] /\ view'[g] = view[g]
          /\ phase'[h] = "guard"
          /\ \A t \in Tables : view'[h][t] = None
      BY <1>1, <2>1 DEF IInv, TypeOK, Unread
    <2>4. TypeOK' /\ OneWriter'
      BY <1>1, <2>1 DEF IInv, TypeOK, OneWriter, Unread, Phases
    <2>5. GuardHolds' /\ ReaderHolds'
      BY <1>1, <1>3, <2>1, <2>3 DEF IInv, GuardHolds, ReaderHolds, Reading, Guarding
    <2>6. NoProducer'
      BY <1>3, <2>1, <2>2, ThreadFacts DEF IInv, TypeOK, NoProducer
    <2> QED
      BY <1>1, <2>2, <2>3, <2>4, <2>5, <2>6, SameData, HolderStep
  <1> QED
    BY <1>2, <1>3 DEF FinishRead

\* A reader takes the shared lock, or queues for the exclusive one.
LEMMA TryReadStep ==
    ASSUME IInv, NEW h \in Threads, TryRead(h)
    PROVE  IInv'
  <1>1. /\ phase[h] = "want_read"
        /\ lock.w = None
        /\ UNCHANGED <<owner, txn, tables, committed, staged, nrow, view>>
    BY DEF TryRead, CanRead
  <1>2. PICK p \in {"gate", "want_flush"} :
            /\ phase' = [phase EXCEPT ![h] = p]
            /\ IF p = "gate" THEN lock' = [lock EXCEPT !.r = @ \cup {h}]
               ELSE lock' = [lock EXCEPT !.wait = @ \cup {h}]
    BY DEF TryRead, Goto
  <1>3. /\ lock' \in Locks
        /\ lock'.w = None
        /\ lock.r \subseteq lock'.r
        /\ p = "gate" => h \in lock'.r
    <2>1. lock \in Locks
      BY DEF IInv, TypeOK
    <2>2. CASE p = "gate"
      BY <2>1, <2>2, <1>1, <1>2 DEF Locks
    <2>3. CASE p = "want_flush"
      BY <2>1, <2>3, <1>1, <1>2 DEF Locks
    <2> QED
      BY <2>2, <2>3
  <1>4. /\ phase' \in [Threads -> Phases]
        /\ phase'[h] = p
        /\ \A g \in Threads \ {h} : phase'[g] = phase[g]
    BY <1>2 DEF IInv, TypeOK, Phases
  <1>5. TypeOK' /\ OneWriter'
    BY <1>1, <1>3, <1>4 DEF IInv, TypeOK, OneWriter
  <1>6. GuardHolds' /\ ReaderHolds'
    BY <1>1, <1>3, <1>4, ConnAssumption DEF IInv, GuardHolds, ReaderHolds, Reading, Guarding
  <1>7. NoProducer'
    BY <1>1, <1>2, ProducerKept
  <1>8. GateHolds' /\ GuardFlushed'
    BY <1>1, <1>4 DEF IInv, GateHolds, GuardFlushed, InTxn
  <1>9. ViewWhileScanning' /\ ReadsCommitted'
    BY <1>1, <1>4 DEF IInv, ViewWhileScanning, ReadsCommitted, Mine
  <1> QED
    BY <1>1, <1>5, <1>6, <1>7, <1>8, <1>9, SameData DEF IInv

\* A cursor is opened, with its producer, or closed, with its producer gone.
LEMMA CursorStep ==
    ASSUME IInv, NEW c \in Conns, OpenCursor(c) \/ JoinCursor(c)
    PROVE  IInv'
  <1> DEFINE h == Main(c)
             k == Producer(c)
  <1>1. h \in Threads /\ k \in Threads /\ h # k
    BY ThreadFacts
  <1>2. UNCHANGED <<lock, owner, txn, tables, committed, staged, nrow, view>>
    BY DEF OpenCursor, JoinCursor
  <1>3. PICK p \in {"opening", "idle"}, q \in {"want_read", "none"} :
            /\ phase' = [phase EXCEPT ![h] = p, ![k] = q]
            /\ p = "idle" => q = "none"
    BY DEF OpenCursor, JoinCursor
  <1>4. /\ phase' \in [Threads -> Phases]
        /\ phase'[h] = p
        /\ phase'[k] = q
        /\ \A g \in Threads \ {h, k} : phase'[g] = phase[g]
    BY <1>1, <1>3 DEF IInv, TypeOK, Phases
  <1>5. phase[h] \in {"idle", "joining"} /\ phase[k] \in {"none", "ended"}
    BY DEF OpenCursor, JoinCursor, IInv, NoProducer
  <1>6. \A t \in Tables : view[h][t] = None /\ view[k][t] = None
    BY <1>1, <1>5 DEF IInv, ViewWhileScanning
  <1>7. TypeOK' /\ OneWriter'
    BY <1>2, <1>4 DEF IInv, TypeOK, OneWriter
  <1>8. GuardHolds' /\ ReaderHolds'
    BY <1>2, <1>4 DEF IInv, GuardHolds, ReaderHolds, Reading, Guarding
  <1>9. NoProducer'
    <2> SUFFICES ASSUME NEW d \in Conns,
                        phase'[Main(d)] \in {"idle", "want_write", "guard", "guard_scan"}
                 PROVE  phase'[Producer(d)] = "none"
      BY DEF NoProducer
    <2>1. CASE d = c
      BY <2>1, <1>3, <1>4
    <2>2. CASE d # c
      <3>1. Main(d) \in Threads \ {h, k} /\ Producer(d) \in Threads \ {h, k}
        BY <2>2, ThreadFacts
      <3> QED
        BY <3>1, <1>4 DEF IInv, NoProducer
    <2> QED
      BY <2>1, <2>2
  <1>10. GateHolds' /\ GuardFlushed'
    BY <1>2, <1>4 DEF IInv, GateHolds, GuardFlushed, InTxn
  <1>11. ViewWhileScanning' /\ ReadsCommitted'
    BY <1>2, <1>4, <1>6 DEF IInv, ViewWhileScanning, ReadsCommitted, Mine
  <1> QED
    BY <1>2, <1>7, <1>8, <1>9, <1>10, <1>11, SameData DEF IInv

(***************************************************************************)
(* The steps that change the transaction or the tables.                    *)
(***************************************************************************)
\* Every flush, of a reader or of the SELECT of a guard, leaves what is
\* published and what the transaction sees.
LEMMA FlushData ==
    ASSUME IInv, tables' = FlushAll, UNCHANGED <<txn, committed, staged>>
    PROVE  /\ tables' \in [Tables -> TableStates]
           /\ AckedIsPublished' /\ OverlayExact' /\ StagedByOwner'
           /\ \A t \in Tables : tables'[t].delta = {}
  <1>1. \A t \in Tables : tables[t] \in TableStates /\ tables'[t] = Flush(tables[t])
    BY DEF IInv, TypeOK, FlushAll
  <1>2. tables' \in [Tables -> TableStates]
    BY <1>1, FlushFacts DEF FlushAll
  <1>3. \A t \in Tables :
            /\ tables'[t].delta = {}
            /\ InTxn(t)' <=> InTxn(t)
            /\ InTxn(t) => /\ tables'[t].parts = tables[t].parts
                           /\ tables'[t].overlay = tables[t].overlay \cup tables[t].delta
            /\ ~InTxn(t) => tables'[t].parts = tables[t].parts \cup tables[t].delta
    BY <1>1, FlushFacts DEF InTxn
  <1>4. AckedIsPublished'
    BY <1>3 DEF IInv, AckedIsPublished
  <1>5. OverlayExact'
    BY <1>3 DEF IInv, OverlayExact
  <1>6. StagedByOwner'
    BY DEF IInv, StagedByOwner
  <1> QED
    BY <1>2, <1>3, <1>4, <1>5, <1>6

\* Discarding a transaction leaves what was published.
LEMMA DiscardData ==
    ASSUME IInv, Discard, UNCHANGED committed
    PROVE  /\ tables' \in [Tables -> TableStates]
           /\ txn' = None
           /\ staged' \in RowSets
           /\ AckedIsPublished' /\ OverlayExact' /\ StagedByOwner'
  <1>1. \A t \in Tables : tables[t] \in TableStates /\ tables'[t] = RollbackTxn(tables[t])
    BY DEF IInv, TypeOK, Discard
  <1>2. tables' \in [Tables -> TableStates]
    BY <1>1, RollbackFacts DEF Discard
  <1>3. \A t \in Tables :
            /\ ~InTxn(t)'
            /\ tables'[t].parts = tables[t].parts
            /\ InTxn(t) => tables'[t].delta = {}
            /\ ~InTxn(t) => tables'[t].delta = tables[t].delta
    BY <1>1, RollbackFacts DEF InTxn
  <1>4. txn' = None /\ staged' \in RowSets /\ \A t \in Tables : staged'[t] = {}
    BY DEF Discard, NoRows, RowSets
  <1>5. AckedIsPublished'
    BY <1>3 DEF IInv, AckedIsPublished
  <1>6. OverlayExact' /\ StagedByOwner'
    BY <1>3, <1>4 DEF OverlayExact, StagedByOwner
  <1> QED
    BY <1>2, <1>4, <1>5, <1>6

\* The waiting reader that got the lock alone flushes for everybody.
LEMMA FlushReadStep ==
    ASSUME IInv, NEW h \in Threads, FlushRead(h)
    PROVE  IInv'
  <1>1. /\ phase[h] = "want_flush"
        /\ Free
        /\ lock' = Exclusive(h)
        /\ tables' = FlushAll
        /\ phase' = [phase EXCEPT ![h] = "gate"]
        /\ UNCHANGED <<owner, txn, committed, staged, nrow, view>>
    BY DEF FlushRead, Goto
  <1>2. lock' \in Locks /\ lock'.w = h /\ lock'.r = {}
    BY <1>1, ExclusiveFacts
  <1>3. /\ phase' \in [Threads -> Phases]
        /\ phase'[h] = "gate"
        /\ \A g \in Threads \ {h} : phase'[g] = phase[g]
    BY <1>1 DEF IInv, TypeOK, Phases
  <1>4. tables' \in [Tables -> TableStates] /\ AckedIsPublished' /\ OverlayExact' /\ StagedByOwner'
    BY <1>1, FlushData
  <1>5. TypeOK' /\ OneWriter'
    BY <1>1, <1>2, <1>3, <1>4 DEF IInv, TypeOK, OneWriter
  <1>6. GuardHolds' /\ ReaderHolds'
    BY <1>1, <1>2, <1>3, SoleHolder DEF GuardHolds, ReaderHolds, Reading, Guarding
  <1>7. NoProducer'
    BY <1>1, ProducerKept
  <1>8. \A t \in Tables : view'[h][t] = None
    BY <1>1 DEF IInv, ViewWhileScanning
  <1> QED
    BY <1>1, <1>3, <1>4, <1>5, <1>6, <1>7, <1>8, HolderStep

\* What a guard that is not scanning knows.
LEMMA GuardFacts ==
    ASSUME IInv, NEW c \in Conns, phase[Main(c)] = "guard"
    PROVE  /\ Main(c) \in Threads
           /\ lock.w = Main(c)
           /\ owner = c
           /\ \A t \in Tables : view[Main(c)][t] = None
  <1>1. Main(c) \in Threads /\ Main(c)[1] = c
    BY ThreadFacts
  <1>2. lock.w = Main(c) /\ owner = c
    BY <1>1 DEF IInv, GuardHolds, Guarding
  <1>3. \A t \in Tables : view[Main(c)][t] = None
    BY <1>1 DEF IInv, ViewWhileScanning
  <1> QED
    BY <1>1, <1>2, <1>3

\* A step of a guard that keeps it: control does not change.
LEMMA GuardStep ==
    ASSUME IInv, NEW c \in Conns, phase[Main(c)] = "guard",
           UNCHANGED <<lock, owner, phase, view>>,
           TypeOK', AckedIsPublished', OverlayExact', StagedByOwner'
    PROVE  IInv'
  <1>1. OneWriter' /\ GuardHolds' /\ ReaderHolds' /\ NoProducer'
    BY DEF IInv, OneWriter, GuardHolds, ReaderHolds, NoProducer
  <1> QED
    BY <1>1, GuardFacts, HolderStep

\* BEGIN, and a statement that fails: only the transaction's record changes,
\* never its owner.
LEMMA TxnMarkStep ==
    ASSUME IInv, NEW c \in Conns, Begin(c) \/ StatementFails(c)
    PROVE  IInv'
  <1>1. /\ phase[Main(c)] = "guard"
        /\ UNCHANGED <<lock, owner, tables, phase, view, nrow, committed, staged>>
        /\ txn' = txn \/ (txn = None /\ txn' = [owner |-> owner, poisoned |-> FALSE])
                      \/ (txn # None /\ txn' = [txn EXCEPT !.poisoned = TRUE])
    BY DEF Begin, StatementFails, Poison
  <1>2. owner = c
    BY <1>1, GuardFacts
  <1>3. /\ txn' \in Transactions \cup {None}
        /\ txn # None => txn' # None /\ txn'.owner = txn.owner
    <2>1. txn \in Transactions \cup {None} /\ None \notin Transactions
      BY ConnAssumption DEF IInv, TypeOK
    <2>2. CASE txn' = txn
      BY <2>1, <2>2
    <2>3. CASE txn = None /\ txn' = [owner |-> owner, poisoned |-> FALSE]
      BY <2>3, <1>2 DEF Transactions
    <2>4. CASE txn # None /\ txn' = [txn EXCEPT !.poisoned = TRUE]
      <3>1. txn \in Transactions
        BY <2>1, <2>4
      <3>2. txn' \in Transactions /\ txn'.owner = txn.owner
        BY <3>1, <2>4 DEF Transactions
      <3> QED
        BY <3>2, <2>1
    <2> QED
      BY <1>1, <2>2, <2>3, <2>4
  <1>4. TypeOK'
    BY <1>1, <1>3 DEF IInv, TypeOK
  <1>5. AckedIsPublished' /\ OverlayExact' /\ StagedByOwner'
    BY <1>1, <1>3 DEF IInv, AckedIsPublished, OverlayExact, StagedByOwner, InTxn
  <1> QED
    BY <1>1, <1>4, <1>5, GuardStep

\* COMMIT publishes what its own connection was told is in, and nothing else.
LEMMA CommitStep ==
    ASSUME IInv, NEW c \in Conns, Commit(c)
    PROVE  IInv'
  <1>1. /\ phase[Main(c)] = "guard"
        /\ txn # None
        /\ txn.owner = owner
        /\ tables' = [t \in Tables |-> CommitTxn(tables[t])]
        /\ committed' = [t \in Tables |-> committed[t] \cup {r \in staged[t] : r.by = c}]
        /\ txn' = None
        /\ staged' = NoRows
        /\ UNCHANGED <<lock, owner, phase, view, nrow>>
    BY DEF Commit, MayEnd, Foreign
  <1>2. owner = c
    BY <1>1, GuardFacts
  <1>3. \A t \in Tables : committed'[t] = committed[t] \cup staged[t]
    <2> SUFFICES ASSUME NEW t \in Tables PROVE {r \in staged[t] : r.by = c} = staged[t]
      BY <1>1
    <2> QED
      BY <1>1, <1>2 DEF IInv, StagedByOwner
  <1>4. \A t \in Tables : tables[t] \in TableStates /\ tables'[t] = CommitTxn(tables[t])
    BY <1>1 DEF IInv, TypeOK
  <1>5. \A t \in Tables :
            /\ ~InTxn(t)'
            /\ tables'[t].parts \cup tables'[t].delta =
                   IF InTxn(t) THEN tables[t].overlay \cup tables[t].delta
                   ELSE tables[t].parts \cup tables[t].delta
    BY <1>4, CommitFacts DEF InTxn
  <1>6. TypeOK'
    <2>1. tables' \in [Tables -> TableStates]
      BY <1>1, <1>4, CommitFacts
    <2>2. committed' \in RowSets
      BY <1>1, TableFields DEF IInv, RowSets
    <2>3. staged' \in RowSets
      BY <1>1 DEF NoRows, RowSets
    <2> QED
      BY <1>1, <2>1, <2>2, <2>3 DEF IInv, TypeOK
  <1>7. AckedIsPublished'
    <2> SUFFICES ASSUME NEW t \in Tables
                 PROVE  committed'[t] = tables'[t].parts \cup tables'[t].delta
      BY <1>5 DEF AckedIsPublished
    <2>1. CASE InTxn(t)
      BY <2>1, <1>3, <1>5 DEF IInv, OverlayExact
    <2>2. CASE ~InTxn(t)
      BY <2>2, <1>3, <1>5 DEF IInv, OverlayExact, AckedIsPublished
    <2> QED
      BY <2>1, <2>2
  <1>8. OverlayExact' /\ StagedByOwner'
    BY <1>1, <1>5 DEF OverlayExact, StagedByOwner, NoRows
  <1> QED
    BY <1>1, <1>6, <1>7, <1>8, GuardStep

\* ROLLBACK discards the staged rows under the exclusive lock.
LEMMA RollbackStep ==
    ASSUME IInv, NEW c \in Conns, Rollback(c)
    PROVE  IInv'
  <1>1. phase[Main(c)] = "guard" /\ Discard /\ UNCHANGED <<lock, owner, phase, view, nrow, committed>>
    BY DEF Rollback
  <1>2. TypeOK'
    BY <1>1, DiscardData DEF IInv, TypeOK
  <1> QED
    BY <1>1, <1>2, DiscardData, GuardStep

\* The row enters the table the way the open transaction, if any, demands:
\* without one it is published at once, with one it is staged.
LEMMA InsertStep ==
    ASSUME IInv, NEW c \in Conns, NEW t \in Tables, NEW full \in BOOLEAN, Insert(c, t, full)
    PROVE  IInv'
  <1> DEFINE row == [by |-> c, id |-> nrow + 1]
             x == IF txn # None /\ ~InTxn(t) THEN BeginTxn(tables[t]) ELSE tables[t]
             y == [x EXCEPT !.delta = @ \cup {row}]
             z == IF full THEN Flush(y) ELSE y
  <1>1. /\ phase[Main(c)] = "guard"
        /\ MayRun
        /\ nrow < MaxRows
        /\ tables' = [tables EXCEPT ![t] = z]
        /\ nrow' = nrow + 1
        /\ UNCHANGED <<lock, owner, txn, phase, view>>
    BY DEF Insert
  <1>2. IF txn = None
        THEN committed' = [committed EXCEPT ![t] = @ \cup {row}] /\ staged' = staged
        ELSE staged' = [staged EXCEPT ![t] = @ \cup {row}] /\ committed' = committed
    BY DEF Insert
  <1>3. owner = c /\ (txn # None => txn.owner = c)
    BY <1>1, GuardFacts DEF MayRun
  <1>4. row \in Rows /\ row.by = c /\ nrow' \in 0 .. MaxRows
    BY <1>1, ConnAssumption DEF Rows, IInv, TypeOK
  <1>5. /\ tables[t] \in TableStates
        /\ InTxn(t) => txn # None /\ tables[t].overlay \cup tables[t].delta = committed[t] \cup staged[t]
        /\ ~InTxn(t) => staged[t] = {}
        /\ committed[t] = tables[t].parts \cup (IF InTxn(t) THEN {} ELSE tables[t].delta)
        /\ tables[t].overlay # None <=> InTxn(t)
    BY TableFields DEF IInv, OverlayExact, AckedIsPublished, InTxn
  <1>6. /\ x \in TableStates
        /\ x.overlay = None <=> txn = None
        /\ txn = None => committed[t] = x.parts \cup x.delta
        /\ txn # None => committed[t] = x.parts /\ x.overlay \cup x.delta = committed[t] \cup staged[t]
    <2>1. CASE txn # None /\ ~InTxn(t)
      BY <2>1, <1>5, BeginFacts
    <2>2. CASE ~(txn # None /\ ~InTxn(t))
      BY <2>2, <1>5
    <2> QED
      BY <2>1, <2>2
  <1> HIDE DEF x, row
  <1>7. /\ y \in TableStates
        /\ y.parts = x.parts
        /\ y.delta = x.delta \cup {row}
        /\ y.overlay = x.overlay
    BY <1>4, <1>6 DEF TableStates
  <1> HIDE DEF y
  <1>8. /\ z \in TableStates
        /\ z.overlay = None <=> txn = None
        /\ txn = None => z.parts \cup z.delta = committed[t] \cup {row}
        /\ txn # None => /\ z.parts = committed[t]
                         /\ z.overlay \cup z.delta = committed[t] \cup staged[t] \cup {row}
    <2>1. CASE full
      BY <2>1, <1>6, <1>7, FlushFacts
    <2>2. CASE ~full
      BY <2>2, <1>6, <1>7
    <2> QED
      BY <2>1, <2>2
  <1> HIDE DEF z
  <1>9. /\ tables' \in [Tables -> TableStates]
        /\ tables'[t] = z
        /\ \A u \in Tables \ {t} : tables'[u] = tables[u]
    BY <1>1, <1>8 DEF IInv, TypeOK
  <1>10. /\ committed' \in RowSets /\ staged' \in RowSets
         /\ committed'[t] = IF txn = None THEN committed[t] \cup {row} ELSE committed[t]
         /\ staged'[t] = IF txn = None THEN staged[t] ELSE staged[t] \cup {row}
         /\ \A u \in Tables \ {t} : committed'[u] = committed[u] /\ staged'[u] = staged[u]
    <2>1. committed \in [Tables -> SUBSET Rows] /\ staged \in [Tables -> SUBSET Rows]
      BY DEF IInv, TypeOK, RowSets
    <2>2. CASE txn = None
      BY <2>1, <2>2, <1>2, <1>4 DEF RowSets
    <2>3. CASE txn # None
      BY <2>1, <2>3, <1>2, <1>4 DEF RowSets
    <2> QED
      BY <2>2, <2>3
  <1>11. TypeOK'
    BY <1>1, <1>4, <1>9, <1>10 DEF IInv, TypeOK
  <1>12. AckedIsPublished'
    <2> SUFFICES ASSUME NEW u \in Tables
                 PROVE  committed'[u] = tables'[u].parts \cup
                            (IF tables'[u].overlay # None THEN {} ELSE tables'[u].delta)
      BY DEF AckedIsPublished, InTxn
    <2>1. CASE u = t
      BY <2>1, <1>8, <1>9, <1>10
    <2>2. CASE u # t
      BY <2>2, <1>9, <1>10 DEF IInv, AckedIsPublished, InTxn
    <2> QED
      BY <2>1, <2>2
  <1>13. OverlayExact'
    <2> SUFFICES ASSUME NEW u \in Tables
                 PROVE  IF tables'[u].overlay # None
                        THEN txn # None /\ tables'[u].overlay \cup tables'[u].delta
                                              = committed'[u] \cup staged'[u]
                        ELSE staged'[u] = {}
      BY <1>1 DEF OverlayExact, InTxn
    <2>1. CASE u = t
      <3>1. CASE txn = None
        BY <2>1, <3>1, <1>5, <1>8, <1>9, <1>10
      <3>2. CASE txn # None
        BY <2>1, <3>2, <1>8, <1>9, <1>10
      <3> QED
        BY <3>1, <3>2
    <2>2. CASE u # t
      BY <2>2, <1>9, <1>10 DEF IInv, OverlayExact, InTxn
    <2> QED
      BY <2>1, <2>2
  <1>14. StagedByOwner'
    BY <1>1, <1>3, <1>4, <1>10 DEF IInv, StagedByOwner
  <1> QED
    BY <1>1, <1>11, <1>12, <1>13, <1>14, GuardStep

\* A SELECT through the guard.
LEMMA GuardReadStep ==
    ASSUME IInv, NEW c \in Conns, GuardRead(c)
    PROVE  IInv'
  <1> DEFINE h == Main(c)
  <1>1. /\ phase[h] = "guard"
        /\ MayRun
        /\ tables' = FlushAll
        /\ phase' = [phase EXCEPT ![h] = "guard_scan"]
        /\ UNCHANGED <<lock, owner, txn, view, nrow, committed, staged>>
    BY DEF GuardRead, Goto
  <1>2. h \in Threads /\ h[1] = c /\ h[2] = "main" /\ \A d \in Conns : h # Producer(d)
    BY ThreadFacts
  <1>3. lock.w = h /\ owner = c /\ \A t \in Tables : view[h][t] = None
    BY <1>1, GuardFacts
  <1>4. /\ phase' \in [Threads -> Phases]
        /\ phase'[h] = "guard_scan"
        /\ \A g \in Threads \ {h} : phase'[g] = phase[g]
    BY <1>1, <1>2 DEF IInv, TypeOK, Phases
  <1>5. /\ tables' \in [Tables -> TableStates]
        /\ AckedIsPublished' /\ OverlayExact' /\ StagedByOwner'
        /\ \A t \in Tables : tables'[t].delta = {}
    BY <1>1, FlushData
  <1>6. TypeOK' /\ OneWriter'
    BY <1>1, <1>4, <1>5 DEF IInv, TypeOK, OneWriter
  <1>7. GuardHolds' /\ ReaderHolds'
    BY <1>1, <1>2, <1>3, <1>4 DEF IInv, GuardHolds, ReaderHolds, Reading, Guarding
  <1>8. NoProducer'
    BY <1>1, <1>2, <1>4, ThreadFacts DEF IInv, NoProducer
  <1>9. txn' # None => txn'.owner = h[1]
    BY <1>1, <1>2, <1>3 DEF MayRun
  <1> QED
    BY <1>1, <1>2, <1>3, <1>4, <1>5, <1>6, <1>7, <1>8, <1>9, HolderStep

\* Discarding or leaving alone, the sole holder's move to another phase.
LEMMA SweepData ==
    ASSUME IInv, Discard \/ UNCHANGED <<txn, tables, staged>>, UNCHANGED committed
    PROVE  /\ tables' \in [Tables -> TableStates]
           /\ txn' \in Transactions \cup {None}
           /\ staged' \in RowSets
           /\ AckedIsPublished' /\ OverlayExact' /\ StagedByOwner'
  <1>1. CASE Discard
    BY <1>1, DiscardData
  <1>2. CASE UNCHANGED <<txn, tables, staged>>
    BY <1>2, SameData DEF IInv, TypeOK
  <1> QED
    BY <1>1, <1>2

\* A writer gets its guard, and sweeps a transaction nobody can end any more.
LEMMA WriterStep ==
    ASSUME IInv, NEW c \in Conns, Writer(c)
    PROVE  IInv'
  <1> DEFINE h == Main(c)
  <1>1. /\ phase[h] = "want_write"
        /\ Free
        /\ lock' = Exclusive(h)
        /\ Discard \/ UNCHANGED <<txn, tables, staged>>
        /\ owner' = c
        /\ phase' = [phase EXCEPT ![h] = "guard"]
        /\ UNCHANGED <<view, nrow, committed>>
    BY DEF Writer, Goto
  <1>2. h \in Threads /\ h[1] = c /\ h[2] = "main" /\ \A d \in Conns : h # Producer(d)
    BY ThreadFacts
  <1>3. lock' \in Locks /\ lock'.w = h /\ lock'.r = {}
    BY <1>1, <1>2, ExclusiveFacts
  <1>4. /\ phase' \in [Threads -> Phases]
        /\ phase'[h] = "guard"
        /\ \A g \in Threads \ {h} : phase'[g] = phase[g]
    BY <1>1, <1>2 DEF IInv, TypeOK, Phases
  <1>5. TypeOK' /\ OneWriter'
    BY <1>1, <1>3, <1>4, SweepData DEF IInv, TypeOK, OneWriter
  <1>6. GuardHolds' /\ ReaderHolds'
    BY <1>1, <1>2, <1>3, <1>4, SoleHolder DEF GuardHolds, ReaderHolds, Reading, Guarding
  <1>7. NoProducer'
    BY <1>1, <1>2, <1>4, ThreadFacts DEF IInv, NoProducer
  <1>8. \A t \in Tables : view'[h][t] = None
    BY <1>1, <1>2 DEF IInv, ViewWhileScanning
  <1> QED
    BY <1>1, <1>2, <1>4, <1>5, <1>6, <1>7, <1>8, SweepData, HolderStep

\* A thread unwinds out of its guard.
LEMMA PanicStep ==
    ASSUME IInv, NEW c \in Conns, Panic(c)
    PROVE  IInv'
  <1> DEFINE h == Main(c)
  <1>1. /\ phase[h] \in Guarding
        /\ Discard \/ UNCHANGED <<txn, tables, staged>>
        /\ lock' = [Released(h) EXCEPT !.poisoned = TRUE]
        /\ phase' = [phase EXCEPT ![h] = "unwinding"]
        /\ view' = [view EXCEPT ![h] = Unread]
        /\ UNCHANGED <<owner, nrow, committed>>
    BY DEF Panic, Goto, Guarding
  <1>2. h \in Threads /\ \A d \in Conns : h # Producer(d)
    BY ThreadFacts
  <1>3. lock.w = h
    BY <1>1, <1>2 DEF IInv, GuardHolds
  <1>4. lock' \in Locks /\ (lock'.r # {} => lock'.w = None)
    <2>1. Released(h) \in Locks /\ (Released(h).r # {} => Released(h).w = None)
      BY <1>2, ReleasedFacts
    <2> HIDE DEF h
    <2> QED
      BY <2>1, <1>1 DEF Locks
  <1>5. /\ phase' \in [Threads -> Phases]
        /\ phase'[h] = "unwinding"
        /\ \A g \in Threads \ {h} : phase'[g] = phase[g]
    BY <1>1, <1>2 DEF IInv, TypeOK, Phases
  <1>6. /\ view' \in [Threads -> [Tables -> {None} \cup SUBSET Rows]]
        /\ \A g \in Threads \ {h} : view'[g] = view[g]
        /\ \A t \in Tables : view'[h][t] = None
    BY <1>1, <1>2 DEF IInv, TypeOK, Unread
  <1>7. TypeOK' /\ OneWriter'
    BY <1>1, <1>4, <1>5, <1>6, SweepData DEF IInv, TypeOK, OneWriter
  <1>8. GuardHolds' /\ ReaderHolds'
    BY <1>2, <1>3, <1>5, SoleHolder DEF GuardHolds, ReaderHolds, Reading, Guarding
  <1>9. NoProducer'
    BY <1>2, <1>5, ThreadFacts DEF IInv, NoProducer
  <1> QED
    BY <1>1, <1>2, <1>3, <1>5, <1>6, <1>7, <1>8, <1>9, SweepData, HolderStep

\* A Db is dropped, with its transaction if the lock is free.
LEMMA DropDbStep ==
    ASSUME IInv, NEW c \in Conns, DropDb(c)
    PROVE  IInv'
  <1>1. /\ phase[Main(c)] \in {"idle", "cursor", "unwinding"}
        /\ UNCHANGED <<lock, owner, phase, view, nrow, committed>>
        /\ (Free /\ Discard) \/ UNCHANGED <<txn, tables, staged>>
    BY DEF DropDb
  <1>2. TypeOK' /\ OneWriter' /\ GuardHolds' /\ ReaderHolds' /\ NoProducer'
    BY <1>1, SweepData DEF IInv, TypeOK, OneWriter, GuardHolds, ReaderHolds, NoProducer
  <1>3. CASE Free /\ Discard
    <2>1. Main(c) \in Threads
      BY ThreadFacts
    <2>2. \A t \in Tables : view[Main(c)][t] = None
      BY <1>1, <2>1 DEF IInv, ViewWhileScanning
    <2> QED
      BY <1>1, <1>2, <1>3, <2>1, <2>2, DiscardData, HolderStep
  <1>4. CASE UNCHANGED <<txn, tables, staged>>
    BY <1>1, <1>2, <1>4, SameData
    DEF IInv, GateHolds, GuardFlushed, ViewWhileScanning, ReadsCommitted, InTxn, Mine
  <1> QED
    BY <1>1, <1>3, <1>4

\* A step that changes only a token, or nothing.
LEMMA SameStep ==
    ASSUME IInv, UNCHANGED <<lock, owner, txn, tables, phase, view, nrow, committed, staged>>
    PROVE  IInv'
  <1>1. TypeOK' /\ OneWriter' /\ GuardHolds' /\ ReaderHolds' /\ NoProducer'
    BY DEF IInv, TypeOK, OneWriter, GuardHolds, ReaderHolds, NoProducer
  <1> QED
    BY <1>1, SameData
    DEF IInv, GateHolds, GuardFlushed, ViewWhileScanning, ReadsCommitted, InTxn, Mine

\* Every step of a read.
LEMMA ReadStepIInv ==
    ASSUME IInv, NEW h \in Threads, ReadStep(h)
    PROVE  IInv'
  <1>1. CASE TryRead(h)
    BY <1>1, TryReadStep
  <1>2. CASE FlushRead(h)
    BY <1>2, FlushReadStep
  <1>3. CASE GateRefuses(h)
    BY <1>3, RefuseStep DEF GateRefuses, Reading
  <1>4. CASE GatePasses(h)
    BY <1>4, GatePassesStep
  <1>5. CASE \E t \in Tables : Scan(h, t)
    BY <1>5, ScanStep
  <1>6. CASE FinishRead(h)
    BY <1>6, FinishReadStep
  <1>7. CASE ReadError(h)
    BY <1>7, RefuseStep DEF ReadError, Reading
  <1> QED
    BY <1>1, <1>2, <1>3, <1>4, <1>5, <1>6, <1>7 DEF ReadStep

\* The invariant is inductive: every call of every connection keeps it.
LEMMA NextIInv == IInv /\ [Next]_vars => IInv'
  <1> SUFFICES ASSUME IInv, [Next]_vars PROVE IInv'
    OBVIOUS
  <1>1. CASE UNCHANGED vars
    BY <1>1, SameStep DEF vars
  <1>2. ASSUME NEW c \in Conns, LibStep(c) PROVE IInv'
    <2>1. CASE \E h \in {Main(c), Producer(c)} : ReadStep(h)
      BY <2>1, ReadStepIInv, ThreadFacts
    <2>2. CASE Writer(c)
      BY <2>2, WriterStep
    <2>3. CASE Send(c)
      BY <2>3, SendStep
    <2>4. CASE SendRefused(c)
      BY <2>4, RefuseStep, ThreadFacts DEF SendRefused, Reading
    <2>5. CASE SendErr(c)
      BY <2>5, SendErrStep
    <2>6. CASE Receive(c) \/ CloseCursor(c)
      BY <2>6, ClientMoves
    <2>7. CASE JoinCursor(c)
      BY <2>7, CursorStep
    <2>8. CASE DropToken(c)
      BY <2>8, SameStep DEF DropToken
    <2> QED
      BY <1>2, <2>1, <2>2, <2>3, <2>4, <2>5, <2>6, <2>7, <2>8 DEF LibStep
  <1>3. ASSUME NEW c \in Conns, ClientStep(c) PROVE IInv'
    <2>1. CASE WantWriter(c) \/ Query(c) \/ Fetch(c) \/ CancelCursor(c)
      BY <2>1, ClientMoves
    <2>2. CASE Statement(c)
      <3>1. CASE Begin(c) \/ StatementFails(c)
        BY <3>1, TxnMarkStep
      <3>2. CASE \E t \in Tables, full \in BOOLEAN : Insert(c, t, full)
        BY <3>2, InsertStep
      <3>3. CASE GuardRead(c)
        BY <3>3, GuardReadStep
      <3>4. CASE Commit(c)
        BY <3>4, CommitStep
      <3>5. CASE Rollback(c)
        BY <3>5, RollbackStep
      <3> QED
        BY <2>2, <3>1, <3>2, <3>3, <3>4, <3>5 DEF Statement
    <2>3. CASE Release(c)
      BY <2>3, ReleaseStep
    <2>4. CASE Panic(c)
      BY <2>4, PanicStep
    <2>5. CASE DropDb(c)
      BY <2>5, DropDbStep
    <2>6. CASE OpenCursor(c)
      BY <2>6, CursorStep
    <2> QED
      BY <1>3, <2>1, <2>2, <2>3, <2>4, <2>5, <2>6 DEF ClientStep
  <1> QED
    BY <1>1, <1>2, <1>3 DEF Next

(***************************************************************************)
(* The theorems.                                                           *)
(***************************************************************************)
\* The lock discipline, the gates and the acknowledged rows hold together in
\* every reachable state (Db::writer, Reader::with_session, Session::commit).
THEOREM InductiveInvariant == Spec => []IInv
  BY InitIInv, NextIInv, PTL DEF Spec

\* What is published is exactly what was acknowledged, however BEGIN, COMMIT,
\* ROLLBACK, panics, dropped connections and flushes of the connections
\* interleave (Session::commit, rollback, check_owner, reap_txn).
THEOREM PublishedIsAcked == Spec => []AckedIsPublished
  <1>1. IInv => AckedIsPublished
    BY DEF IInv
  <1> QED
    BY <1>1, InductiveInvariant, PTL

\* A read returns the committed rows of all tables at one instant, and through
\* a guard its own transaction's rows too (Reader::with_session, one_read_stmt,
\* dispatch).
THEOREM ReadsAreCommitted == Spec => []ReadsCommitted
  <1>1. IInv => ReadsCommitted
    BY DEF IInv
  <1> QED
    BY <1>1, InductiveInvariant, PTL
=============================================================================
