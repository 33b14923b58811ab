----------------------------- MODULE Connections -----------------------------
(***************************************************************************)
(* One database shared by several connections: Db, Writer, Reader and      *)
(* Cursor of session.rs around one RwLock<Session>.                        *)
(*                                                                         *)
(* A connection is a client thread with a Db clone, a Reader and at most   *)
(* one open Cursor, whose producer is a thread of its own.  A thread is    *)
(* <<c, "main">> or <<c, "cursor">>.  A critical section whose effects no  *)
(* other thread can see half done is one step; everything that waits, and  *)
(* every place where a lock is given up between a test and its use, is a   *)
(* step of its own.                                                        *)
(*                                                                         *)
(* A row is [by |-> connection, id |-> number]; a statement inserts one    *)
(* row into one table.  committed and staged are history variables: the    *)
(* rows whose insertion, or whose COMMIT, was answered with Ok, and the    *)
(* rows the open transaction was told it has inserted.                     *)
(***************************************************************************)
EXTENDS Naturals, Sequences

CONSTANTS
    Conns,          \* the Db clones
    Tables,         \* the tables of the catalog
    Readers,        \* the connections that took a Reader
    MaxRows,        \* bound on the rows inserted
    NestedReads,    \* may a client run a query while its own cursor is open?
    None            \* no value

VARIABLES
    lock,       \* the RwLock: exclusive holder, shared holders, waiting writers,
                \* and whether a panic has poisoned it
    owner,      \* Session::owner, the connection that took the lock last
    txn,        \* Session::txn: None, or the open transaction
    tables,     \* parts, write buffer and transaction overlay of each table
    db,         \* each Db clone: open, dropping (its token still lives), gone
    phase,      \* where each thread is
    view,       \* what the scan of each thread has read so far
    cur,        \* the channel and the cancel flag of each connection's cursor
    nrow,       \* rows inserted so far
    committed,  \* history: rows acknowledged as committed
    staged      \* history: rows acknowledged inside the open transaction

vars == <<lock, owner, txn, tables, db, phase, view, cur, nrow, committed, staged>>

Threads == Conns \X {"main", "cursor"}
Main(c) == <<c, "main">>
Producer(c) == <<c, "cursor">>

Rows == [by : Conns, id : 1 .. MaxRows]
Transactions == [owner : Conns, poisoned : BOOLEAN]

\* None is different from every value that stands beside it.
ASSUME ConnAssumption ==
    /\ None \notin Conns
    /\ None \notin Threads
    /\ \A S \in SUBSET Rows : S # None
    /\ None \notin Transactions
    /\ Readers \subseteq Conns
    /\ MaxRows \in Nat
    /\ NestedReads \in BOOLEAN

NoRows == [t \in Tables |-> {}]
Unread == [t \in Tables |-> None]
Closed == [chan |-> <<>>, cancel |-> FALSE, closed |-> FALSE]

(***************************************************************************)
(* Tables, as far as a connection can tell them apart.                     *)
(***************************************************************************)
InTxn(t) == tables[t].overlay # None
AnyInTxn == \E t \in Tables : InTxn(t)
Pending == \E t \in Tables : tables[t].delta # {}

Snapshot(t) == IF InTxn(t) THEN tables[t].overlay ELSE tables[t].parts

Flush(x) ==
    IF x.overlay = None
    THEN [x EXCEPT !.parts = @ \cup x.delta, !.delta = {}]
    ELSE [x EXCEPT !.overlay = @ \cup x.delta, !.delta = {}]

FlushAll == [t \in Tables |-> Flush(tables[t])]

\* Mutant of BeginTxn: the rows already buffered stay in the buffer.
BeginTxnNoFlush(x) == [x EXCEPT !.overlay = x.parts]

BeginTxn(x) == LET f == Flush(x) IN [f EXCEPT !.overlay = f.parts]

CommitTxn(x) ==
    LET f == Flush(x)
    IN  IF x.overlay = None THEN x ELSE [f EXCEPT !.parts = f.overlay, !.overlay = None]

RollbackTxn(x) ==
    IF x.overlay = None THEN x ELSE [x EXCEPT !.overlay = None, !.delta = {}]

(***************************************************************************)
(* The lock.  The standard library's RwLock on Linux lets no reader in     *)
(* while a writer waits.                                                   *)
(***************************************************************************)
Free == lock.w = None /\ lock.r = {}
CanRead == lock.w = None /\ lock.wait = {}
Released(h) == [lock EXCEPT !.w = IF @ = h THEN None ELSE @, !.r = @ \ {h}]
Exclusive(h) == [lock EXCEPT !.w = h, !.wait = @ \ {h}]

\* Where a client rests between calls.
Resting(c) == IF phase[Producer(c)] = "none" THEN "idle" ELSE "cursor"

Goto(h, p) == phase' = [phase EXCEPT ![h] = p]

(***************************************************************************)
(* The open transaction.                                                   *)
(***************************************************************************)
Mine(c) == txn # None /\ txn.owner = c
Foreign == txn # None /\ txn.owner # owner

\* check_txn
MayRun == IF txn = None THEN TRUE ELSE txn.owner = owner /\ ~txn.poisoned

\* poison: only ever this connection's transaction.
Poison == IF txn # None /\ txn.owner = owner THEN [txn EXCEPT !.poisoned = TRUE] ELSE txn

\* discard, also the body of reap_txn
Discard ==
    /\ txn' = None
    /\ tables' = [t \in Tables |-> RollbackTxn(tables[t])]
    /\ staged' = NoRows

\* The connection that ran BEGIN has dropped its token.
Dead == txn # None /\ db[txn.owner] = "gone"

Init ==
    /\ lock = [w |-> None, r |-> {}, wait |-> {}, poisoned |-> FALSE]
    /\ owner = None
    /\ txn = None
    /\ tables = [t \in Tables |-> [parts |-> {}, delta |-> {}, overlay |-> None]]
    /\ db = [c \in Conns |-> "open"]
    /\ phase = [h \in Threads |-> IF h[2] = "main" THEN "idle" ELSE "none"]
    /\ view = [h \in Threads |-> Unread]
    /\ cur = [c \in Conns |-> Closed]
    /\ nrow = 0
    /\ committed = NoRows
    /\ staged = NoRows

(***************************************************************************)
(* Db::writer and the statements run through the guard.                    *)
(***************************************************************************)
WantWriter(c) ==
    /\ db[c] = "open"
    /\ phase[Main(c)] = "idle"
    /\ Goto(Main(c), "want_write")
    /\ lock' = [lock EXCEPT !.wait = @ \cup {Main(c)}]
    /\ UNCHANGED <<owner, txn, tables, db, view, cur, nrow, committed, staged>>

\* Mutant of Writer: no backstop for a connection that is gone.
WriterNoSweep(c) ==
    /\ phase[Main(c)] = "want_write"
    /\ Free
    /\ lock' = Exclusive(Main(c))
    /\ owner' = c
    /\ Goto(Main(c), "guard")
    /\ UNCHANGED <<txn, tables, db, view, cur, nrow, committed, staged>>

Writer(c) ==
    /\ phase[Main(c)] = "want_write"
    /\ Free
    /\ lock' = Exclusive(Main(c))
    /\ IF Dead /\ ~Mine(c) THEN Discard ELSE UNCHANGED <<txn, tables, staged>>
    /\ owner' = c
    /\ Goto(Main(c), "guard")
    /\ UNCHANGED <<db, view, cur, nrow, committed>>

\* A BEGIN that finds the connection's own transaction poisons it.
Begin(c) ==
    /\ phase[Main(c)] = "guard"
    /\ ~Foreign
    /\ txn' = IF txn = None
              THEN [owner |-> owner, poisoned |-> FALSE]
              ELSE [txn EXCEPT !.poisoned = TRUE]
    /\ UNCHANGED <<lock, owner, tables, db, phase, view, cur, nrow, committed, staged>>

\* INSERT: enlist (begin_txn flushes first), insert, and perhaps the flush of
\* a full buffer.
Insert(c, t, full) ==
    /\ phase[Main(c)] = "guard"
    /\ MayRun
    /\ nrow < MaxRows
    /\ LET row == [by |-> c, id |-> nrow + 1]
           x == IF txn # None /\ ~InTxn(t) THEN BeginTxn(tables[t]) ELSE tables[t]
           y == [x EXCEPT !.delta = @ \cup {row}]
       IN  /\ tables' = [tables EXCEPT ![t] = IF full THEN Flush(y) ELSE y]
           /\ IF txn = None
              THEN committed' = [committed EXCEPT ![t] = @ \cup {row}] /\ UNCHANGED staged
              ELSE staged' = [staged EXCEPT ![t] = @ \cup {row}] /\ UNCHANGED committed
    /\ nrow' = nrow + 1
    /\ UNCHANGED <<lock, owner, txn, db, phase, view, cur>>

\* A statement that fails, refused or not.
StatementFails(c) ==
    /\ phase[Main(c)] = "guard"
    /\ txn' = Poison
    /\ UNCHANGED <<lock, owner, tables, db, phase, view, cur, nrow, committed, staged>>

\* A SELECT through the guard: the &mut path flushes and reads on.
GuardRead(c) ==
    /\ phase[Main(c)] = "guard"
    /\ MayRun
    /\ tables' = FlushAll
    /\ Goto(Main(c), "guard_scan")
    /\ UNCHANGED <<lock, owner, txn, db, view, cur, nrow, committed, staged>>

\* check_owner: may this connection end the open transaction?
MayEnd(c) == txn # None /\ ~Foreign

Commit(c) ==
    /\ phase[Main(c)] = "guard"
    /\ MayEnd(c)
    /\ ~txn.poisoned
    /\ tables' = [t \in Tables |-> CommitTxn(tables[t])]
    /\ committed' = [t \in Tables |-> committed[t] \cup {r \in staged[t] : r.by = c}]
    /\ txn' = None
    /\ staged' = NoRows
    /\ UNCHANGED <<lock, owner, db, phase, view, cur, nrow>>

\* ROLLBACK; also a COMMIT that finds a poisoned transaction or whose durable
\* half fails.
Rollback(c) ==
    /\ phase[Main(c)] = "guard"
    /\ MayEnd(c)
    /\ Discard
    /\ UNCHANGED <<lock, owner, db, phase, view, cur, nrow, committed>>

Release(c) ==
    /\ phase[Main(c)] = "guard"
    /\ lock' = Released(Main(c))
    /\ Goto(Main(c), "idle")
    /\ UNCHANGED <<owner, txn, tables, db, view, cur, nrow, committed, staged>>

\* Writer::drop while the thread unwinds, and the lock's own guard, which
\* poisons it; the thread's Db follows (DropDb).
Panic(c) ==
    /\ phase[Main(c)] \in {"guard", "guard_scan"}
    /\ IF txn # None /\ ~Foreign THEN Discard ELSE UNCHANGED <<txn, tables, staged>>
    /\ lock' = [Released(Main(c)) EXCEPT !.poisoned = TRUE]
    /\ Goto(Main(c), "unwinding")
    /\ view' = [view EXCEPT ![Main(c)] = Unread]
    /\ UNCHANGED <<owner, db, cur, nrow, committed>>

(***************************************************************************)
(* Db::drop: the prompt end of the connection's transaction, if the lock   *)
(* can be had at once (try_write refuses a poisoned lock as well); the     *)
(* token goes with the fields, afterwards.                                 *)
(***************************************************************************)
DropDb(c) ==
    /\ db[c] = "open"
    /\ phase[Main(c)] \in {"idle", "cursor", "unwinding"}
    /\ IF Free /\ ~lock.poisoned /\ Mine(c) THEN Discard ELSE UNCHANGED <<txn, tables, staged>>
    /\ db' = [db EXCEPT ![c] = "dropping"]
    /\ UNCHANGED <<lock, owner, phase, view, cur, nrow, committed>>

DropToken(c) ==
    /\ db[c] = "dropping"
    /\ db' = [db EXCEPT ![c] = "gone"]
    /\ UNCHANGED <<lock, owner, txn, tables, phase, view, cur, nrow, committed, staged>>

(***************************************************************************)
(* Reader::query and the producer of a cursor: with_session and the gates  *)
(* of one_read_stmt.  A Reader outlives its Db.                            *)
(***************************************************************************)
Query(c) ==
    /\ c \in Readers
    /\ phase[Main(c)] \in {"idle"} \cup (IF NestedReads THEN {"cursor"} ELSE {})
    /\ Goto(Main(c), "want_read")
    /\ UNCHANGED <<lock, owner, txn, tables, db, view, cur, nrow, committed, staged>>

OpenCursor(c) ==
    /\ c \in Readers
    /\ phase[Main(c)] = "idle"
    /\ phase' = [phase EXCEPT ![Main(c)] = "opening", ![Producer(c)] = "want_read"]
    /\ cur' = [cur EXCEPT ![c] = Closed]
    /\ UNCHANGED <<lock, owner, txn, tables, db, view, nrow, committed, staged>>

\* The fast path keeps the shared lock; the slow one gives it up and queues
\* for the exclusive one.
TryRead(h) ==
    /\ phase[h] = "want_read"
    /\ CanRead
    /\ IF ~Pending \/ AnyInTxn
       THEN lock' = [lock EXCEPT !.r = @ \cup {h}] /\ Goto(h, "gate")
       ELSE lock' = [lock EXCEPT !.wait = @ \cup {h}] /\ Goto(h, "want_flush")
    /\ UNCHANGED <<owner, txn, tables, db, view, cur, nrow, committed, staged>>

FlushRead(h) ==
    /\ phase[h] = "want_flush"
    /\ Free
    /\ lock' = Exclusive(h)
    /\ tables' = FlushAll
    /\ Goto(h, "gate")
    /\ UNCHANGED <<owner, txn, db, view, cur, nrow, committed, staged>>

\* Mutant of Refuse: a producer reports its error before it gives up the lock.
RefuseHoldsLock(h) ==
    /\ IF h[2] = "main" THEN lock' = Released(h) ELSE UNCHANGED lock
    /\ Goto(h, IF h[2] = "main" THEN Resting(h[1]) ELSE "send_err")
    /\ view' = [view EXCEPT ![h] = Unread]
    /\ UNCHANGED <<owner, txn, tables, db, cur, nrow, committed, staged>>

\* An error ends the read: the lock goes first, a producer then reports it.
Refuse(h) ==
    /\ lock' = Released(h)
    /\ Goto(h, IF h[2] = "main" THEN Resting(h[1]) ELSE "send_err")
    /\ view' = [view EXCEPT ![h] = Unread]
    /\ UNCHANGED <<owner, txn, tables, db, cur, nrow, committed, staged>>

\* Mutant of MustRefuse: the overlay gate is missing.
MustRefusePending == Pending

\* one_read_stmt: neither an open transaction's overlay nor a short answer.
MustRefuse == AnyInTxn \/ Pending

GateRefuses(h) == phase[h] = "gate" /\ MustRefuse /\ Refuse(h)

GatePasses(h) ==
    /\ phase[h] = "gate"
    /\ ~MustRefuse
    /\ Goto(h, IF h[2] = "main" THEN "scan" ELSE "head")
    /\ UNCHANGED <<lock, owner, txn, tables, db, view, cur, nrow, committed, staged>>

\* A deadline, a budget or the cancel flag stops a scan at a block boundary.
ReadError(h) == phase[h] = "scan" /\ Refuse(h)

Scan(h, t) ==
    /\ phase[h] \in {"scan", "guard_scan"}
    /\ view[h][t] = None
    /\ h[2] = "cursor" => ~cur[h[1]].cancel
    /\ view' = [view EXCEPT ![h][t] = Snapshot(t)]
    /\ Goto(h, IF h[2] = "cursor" THEN "rows" ELSE phase[h])
    /\ UNCHANGED <<lock, owner, txn, tables, db, cur, nrow, committed, staged>>

FinishRead(h) ==
    /\ phase[h] \in {"scan", "guard_scan"}
    /\ \A t \in Tables : view[h][t] # None
    /\ view' = [view EXCEPT ![h] = Unread]
    /\ IF phase[h] = "guard_scan"
       THEN Goto(h, "guard") /\ UNCHANGED lock
       ELSE /\ Goto(h, IF h[2] = "main" THEN Resting(h[1]) ELSE "ended")
            /\ lock' = Released(h)
    /\ UNCHANGED <<owner, txn, tables, db, cur, nrow, committed, staged>>

(***************************************************************************)
(* The cursor: a channel of one slot between the producer, which holds the *)
(* lock, and the client.                                                   *)
(***************************************************************************)
Put(c, m) == cur' = [cur EXCEPT ![c].chan = Append(@, m)]

Send(c) ==
    /\ phase[Producer(c)] \in {"head", "rows"}
    /\ ~cur[c].closed
    /\ cur[c].chan = <<>>
    /\ Put(c, phase[Producer(c)])
    /\ Goto(Producer(c), "scan")
    /\ UNCHANGED <<lock, owner, txn, tables, db, view, nrow, committed, staged>>

\* A closed receiver is a dropped cursor.
SendRefused(c) ==
    /\ phase[Producer(c)] \in {"head", "rows"}
    /\ cur[c].closed
    /\ Refuse(Producer(c))

SendErr(c) ==
    /\ phase[Producer(c)] = "send_err"
    /\ IF cur[c].closed
       THEN UNCHANGED cur
       ELSE cur[c].chan = <<>> /\ Put(c, "err")
    /\ Goto(Producer(c), "ended")
    /\ UNCHANGED <<lock, owner, txn, tables, db, view, nrow, committed, staged>>

Fetch(c) ==
    /\ phase[Main(c)] = "cursor"
    /\ Goto(Main(c), "fetching")
    /\ UNCHANGED <<lock, owner, txn, tables, db, view, cur, nrow, committed, staged>>

\* recv: the head (spawn), a block (next), an error, or the hang-up.  spawn
\* joins a producer that could not start.
Receive(c) ==
    /\ phase[Main(c)] \in {"opening", "fetching"}
    /\ \/ /\ cur[c].chan # <<>>
          /\ cur' = [cur EXCEPT ![c].chan = <<>>]
          /\ Goto(Main(c), IF phase[Main(c)] = "opening" /\ Head(cur[c].chan) # "head"
                           THEN "joining" ELSE "cursor")
       \/ /\ cur[c].chan = <<>>
          /\ phase[Producer(c)] = "ended"
          /\ Goto(Main(c), "cursor")
          /\ UNCHANGED cur
    /\ UNCHANGED <<lock, owner, txn, tables, db, view, nrow, committed, staged>>

\* Cursor::drop: the flag, then the receiver, then the join.
CancelCursor(c) ==
    /\ phase[Main(c)] = "cursor"
    /\ cur' = [cur EXCEPT ![c].cancel = TRUE]
    /\ Goto(Main(c), "closing")
    /\ UNCHANGED <<lock, owner, txn, tables, db, view, nrow, committed, staged>>

\* Mutant of CloseCursor: the receiver outlives the join.
CloseCursorKeepsReceiver(c) ==
    /\ phase[Main(c)] = "closing"
    /\ Goto(Main(c), "joining")
    /\ UNCHANGED <<lock, owner, txn, tables, db, view, cur, nrow, committed, staged>>

CloseCursor(c) ==
    /\ phase[Main(c)] = "closing"
    /\ cur' = [cur EXCEPT ![c].closed = TRUE, ![c].chan = <<>>]
    /\ Goto(Main(c), "joining")
    /\ UNCHANGED <<lock, owner, txn, tables, db, view, nrow, committed, staged>>

JoinCursor(c) ==
    /\ phase[Main(c)] = "joining"
    /\ phase[Producer(c)] = "ended"
    /\ phase' = [phase EXCEPT ![Main(c)] = "idle", ![Producer(c)] = "none"]
    /\ cur' = [cur EXCEPT ![c] = Closed]
    /\ UNCHANGED <<lock, owner, txn, tables, db, view, nrow, committed, staged>>

(***************************************************************************)
(* The specification.                                                      *)
(***************************************************************************)
\* What the library does once it was called.
ReadStep(h) ==
    \/ TryRead(h)
    \/ FlushRead(h)
    \/ GateRefuses(h)
    \/ GatePasses(h)
    \/ \E t \in Tables : Scan(h, t)
    \/ FinishRead(h)
    \/ ReadError(h)

LibStep(c) ==
    \/ \E h \in {Main(c), Producer(c)} : ReadStep(h)
    \/ Writer(c)
    \/ Send(c)
    \/ SendRefused(c)
    \/ SendErr(c)
    \/ Receive(c)
    \/ CloseCursor(c)
    \/ JoinCursor(c)
    \/ DropToken(c)

Statement(c) ==
    \/ Begin(c)
    \/ \E t \in Tables, full \in BOOLEAN : Insert(c, t, full)
    \/ StatementFails(c)
    \/ GuardRead(c)
    \/ Commit(c)
    \/ Rollback(c)

ClientStep(c) ==
    \/ WantWriter(c)
    \/ Statement(c)
    \/ Release(c)
    \/ Panic(c)
    \/ DropDb(c)
    \/ Query(c)
    \/ OpenCursor(c)
    \/ Fetch(c)
    \/ CancelCursor(c)

Next == \E c \in Conns : LibStep(c) \/ ClientStep(c)

\* A thread that can run does run.  Of the clients: a guard is not kept for
\* ever, and an open cursor is drained or dropped.
Fairness ==
    /\ \A c \in Conns :
        /\ WF_vars(ReadStep(Main(c)))
        /\ WF_vars(ReadStep(Producer(c)))
        /\ WF_vars(Writer(c))
        /\ WF_vars(Send(c) \/ SendRefused(c) \/ SendErr(c))
        /\ WF_vars(Receive(c) \/ CloseCursor(c) \/ JoinCursor(c))
        /\ WF_vars(DropToken(c))
        /\ WF_vars(Fetch(c) \/ CancelCursor(c))
        /\ SF_vars(Release(c) \/ Panic(c))

Spec == Init /\ [][Next]_vars /\ Fairness

(***************************************************************************)
(* Properties.                                                             *)
(***************************************************************************)
RowSets == [Tables -> SUBSET Rows]

\* What is published is exactly what was acknowledged: no connection loses a
\* row it was told is in, to another connection's ROLLBACK or to a reaped
\* transaction, and no row becomes visible whose author was not told so
\* (Session::commit, rollback, check_owner, reap_txn).
AckedIsPublished ==
    \A t \in Tables :
        committed[t] = tables[t].parts \cup (IF InTxn(t) THEN {} ELSE tables[t].delta)

\* A read returns the committed rows of all tables at one instant, and a read
\* inside a transaction those and the transaction's own: no dirty read, no
\* short answer (Reader::with_session, one_read_stmt, dispatch).
ReadsCommitted ==
    \A h \in Threads, t \in Tables :
        view[h][t] # None =>
            view[h][t] = committed[t] \cup
                (IF phase[h] = "guard_scan" /\ Mine(h[1]) THEN staged[t] ELSE {})

\* A transaction whose connection is gone is swept by the next writer: it
\* cannot refuse everybody for ever (Db::writer, Db::drop, reap_txn).
OrphanIsSwept ==
    ([]<><<\E c \in Conns : Writer(c)>>_vars) => (Dead ~> ~Dead)

\* While somebody waits for the exclusive lock, somebody gets it: readers and
\* producers give the lock up (Cursor::drop, with_session).
WriterProgress == (lock.wait # {}) ~> (lock.w # None)

\* Dropping a cursor returns, with its producer gone and its lock released.
CursorCloses ==
    \A c \in Conns : (phase[Main(c)] = "closing") ~> (phase[Main(c)] = "idle")
==============================================================================
