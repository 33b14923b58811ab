------------------------------ MODULE TxnCommit ------------------------------
(***************************************************************************)
(* A transaction over several tables (session.rs: enlist, commit,           *)
(* commit_durable, prepare_barrier, rollback, discard; persist/wal.rs:      *)
(* prepare, decide, roll, may_be_cited, replay_entries, open).  Each table  *)
(* has its own log, so COMMIT is a two-phase commit whose coordinator is    *)
(* the last enlisted table.                                                 *)
(*                                                                          *)
(* A log is the whole stream of its records; records up to `origin` are in  *)
(* sealed segments.  Ticks and stamps are left to module Wal: here a synced *)
(* record survives a power loss and a logged one survives a kill.           *)
(***************************************************************************)
EXTENDS Integers, Sequences, FiniteSets

CONSTANTS
  Tables,      \* the tables, each with a log of its own
  MaxTxs,      \* bound: transactions ever begun
  MaxLog,      \* bound: records in one table's stream
  MaxFaults,   \* bound: crashes and failed fsyncs
  Faults       \* what the environment may do

FaultKinds == {"kill",         \* kill -9, the page cache survives
               "power",        \* power loss, unsynced tails may go
               "prepare_error",\* an fsync of the prepare barrier fails
               "decide_error", \* the fsync of the coordinator's marker fails
               "fold_crash",   \* a crash may fall between roll and TABLE commit
               "empty_enlist"} \* a sweep that matches no row enlists its table

ASSUME TxnAssumption ==
  /\ MaxTxs \in Nat /\ MaxLog \in Nat /\ MaxFaults \in Nat
  /\ Faults \subseteq FaultKinds

Txs == 1 .. MaxTxs

VARIABLES
  log,      \* per table: the records of its stream
  origin,   \* per table: records below are in sealed segments
  carried,  \* per table: decisions carried at the head of the active segment
  hseq,     \* per table: next_seq in the active segment's header
  synced,   \* per table: records certainly on the platter
  nextSeq,  \* per table: Wal::next_seq of the open handle
  wm,       \* per table: the watermark in its TABLE record
  parts,    \* per table: transactions inside its committed parts
  mem,      \* per table: transactions its published snapshot shows
  roster,   \* the enlisted tables of the running transaction, in order
  dark,     \* the table whose COMMIT has to fold (Enlisted::fold), if any
  phase,    \* where the running transaction is
  fold,     \* tables between their roll and their TABLE commit
  mode,     \* "up" or "down"
  cur,      \* the running (or last) transaction
  status,   \* history: what became of each transaction
  foot,     \* history: tables each transaction has records in
  faults    \* faults so far

logVars == <<log, origin, carried, hseq, synced>>
tabVars == <<wm, parts, mem>>
txVars  == <<roster, dark, phase, cur, status, foot>>
vars    == <<logVars, tabVars, txVars, nextSeq, fold, mode, faults>>

\* A record: staged rows, or the marker that releases a staging group.  tx is
\* the transaction that wrote it; coord and cseq are a prepare's citation.
Record == [tag : {"stage", "commit", "prepare", "decide"}, seq : Nat, tx : Nat,
           coord : Tables, cseq : Nat]

Rec(tag, t, s) ==
  [tag |-> tag, seq |-> s, tx |-> cur, coord |-> t, cseq |-> 0]

Max2(a, b) == IF a >= b THEN a ELSE b
SetMax(S)  == CHOOSE m \in S : \A x \in S : x <= m

Active(t) == {i \in DOMAIN log[t] : i > origin[t]}

\* walk_dir_newest: the decisions a citation of t resolves against.
DecisionsOf(t) ==
  carried[t] \cup {log[t][i].seq : i \in {j \in Active(t) : log[t][j].tag = "decide"}}

\* replay_entries: the staged record at i is released by a later marker.
Releases(t, i, j) ==
  /\ j > i /\ log[t][j].seq = log[t][i].seq
  /\ \/ log[t][j].tag \in {"commit", "decide"}
     \/ /\ log[t][j].tag = "prepare"
        /\ log[t][j].cseq \in DecisionsOf(log[t][j].coord)

\* What an open of table t would show now: parts, and the replay of the
\* records behind the watermark.
Replay(t) ==
  parts[t] \cup
  {log[t][i].tx : i \in {j \in DOMAIN log[t] :
     j > wm[t] /\ log[t][j].tag = "stage"
       /\ \E k \in DOMAIN log[t] : Releases(t, j, k)}}

\* Mutant: the last number used instead of the first one free.
ScanSeqLastUsed(t) ==
  SetMax({hseq[t]} \cup carried[t] \cup {log[t][i].seq : i \in Active(t)}) - 1

\* Mutant: the number is recomputed from the records alone.
ScanSeqNoHeader(t) ==
  SetMax({0} \cup {s + 1 : s \in carried[t]}
           \cup {log[t][i].seq + 1 : i \in Active(t)})

\* Wal::scan: the first sequence number free to hand out.
ScanSeq(t) ==
  SetMax({hseq[t]} \cup {s + 1 : s \in carried[t]}
           \cup {log[t][i].seq + 1 : i \in Active(t)})

-----------------------------------------------------------------------------
Idle == mode = "up" /\ phase = "none" /\ fold = {}

Enlisted(t) == \E i \in DOMAIN roster : roster[i].t = t
SeqOf(t)    == roster[CHOOSE i \in DOMAIN roster : roster[i].t = t].seq
Coord       == roster[Len(roster)].t
CoordSeq    == roster[Len(roster)].seq

Init ==
  /\ log = [t \in Tables |-> << >>]
  /\ origin = [t \in Tables |-> 0]
  /\ carried = [t \in Tables |-> {}]
  /\ hseq = [t \in Tables |-> 0]
  /\ synced = [t \in Tables |-> 0]
  /\ nextSeq = [t \in Tables |-> 0]
  /\ wm = [t \in Tables |-> 0]
  /\ parts = [t \in Tables |-> {}]
  /\ mem = [t \in Tables |-> {}]
  /\ roster = << >> /\ dark = {} /\ phase = "none" /\ fold = {} /\ mode = "up"
  /\ cur = 0
  /\ status = [x \in Txs |-> "idle"]
  /\ foot = [x \in Txs |-> {}]
  /\ faults = 0

\* Session::begin.
Begin ==
  /\ Idle /\ cur < MaxTxs
  /\ cur' = cur + 1
  /\ status' = [status EXCEPT ![cur + 1] = "active"]
  /\ phase' = "open"
  /\ UNCHANGED <<logVars, tabVars, roster, dark, foot, nextSeq, fold, mode, faults>>

\* Session::enlist: Wal::begin and Wal::lsn, once per table.  A folding table
\* refuses company: its commit point is a rename, not a marker.
EnlistIn(t) ==
  IF Enlisted(t) THEN UNCHANGED <<roster, nextSeq>>
  ELSE /\ dark = {}
       /\ roster' = Append(roster, [t |-> t, seq |-> nextSeq[t], lsn |-> Len(log[t])])
       /\ nextSeq' = [nextSeq EXCEPT ![t] = @ + 1]

Push(t, r) ==
  /\ Len(log[t]) < MaxLog
  /\ log' = [log EXCEPT ![t] = Append(@, r)]

\* A statement of the transaction: log_insert, log_deletes, log_masks stage a
\* record; the rows go to the table's private overlay.
Write(t) ==
  /\ mode = "up" /\ phase = "open"
  /\ cur \notin {log[t][i].tx : i \in DOMAIN log[t]}   \* bound: one record per table
  /\ EnlistIn(t)
  /\ Push(t, Rec("stage", t, IF Enlisted(t) THEN SeqOf(t) ELSE nextSeq[t]))
  /\ foot' = [foot EXCEPT ![cur] = @ \cup {t}]
  /\ UNCHANGED <<origin, carried, hseq, synced, tabVars, dark, phase, cur, status,
                 fold, mode, faults>>

\* Session::apply_sweep enlists before it knows whether a row matches.
EmptySweep(t) ==
  /\ mode = "up" /\ phase = "open" /\ "empty_enlist" \in Faults
  /\ ~Enlisted(t)
  /\ EnlistIn(t)
  /\ UNCHANGED <<logVars, tabVars, dark, phase, cur, status, foot, fold, mode, faults>>

\* A sweep that hides rows no log record can name (MaskRuns::dark > 0):
\* Session::mark_fold, refused when another table is enlisted.
DarkSweep(t) ==
  /\ mode = "up" /\ phase = "open"
  /\ \A i \in DOMAIN roster : roster[i].t = t
  /\ EnlistIn(t)
  /\ dark' = dark \cup {t}
  /\ foot' = [foot EXCEPT ![cur] = @ \cup {t}]
  /\ UNCHANGED <<logVars, tabVars, phase, cur, status, fold, mode, faults>>

-----------------------------------------------------------------------------
(* COMMIT.                                                                  *)

\* commit_durable: every table but the last logs a prepare that cites the
\* coordinator's decision; nothing is synced yet.  One step for the loop over
\* the tables: a kill inside it leaves a prefix of these prepares, all citing a
\* decision that is never written, and an append that fails ends in the discard
\* that SyncFails starts.
PrepareAll ==
  LET n == Len(roster)
      IndexOf(t) == CHOOSE i \in DOMAIN roster : roster[i].t = t
  IN
  /\ mode = "up" /\ phase = "open" /\ n > 1 /\ dark = {}
  /\ \A i \in 1 .. n : Len(log[roster[i].t]) < MaxLog
  /\ log' = [t \in Tables |->
       IF Enlisted(t) /\ t # Coord
       THEN Append(log[t], [tag |-> "prepare", seq |-> SeqOf(t), tx |-> cur,
                            coord |-> Coord, cseq |-> CoordSeq])
       ELSE log[t]]
  /\ phase' = "barrier"
  /\ UNCHANGED <<origin, carried, hseq, synced, tabVars, roster, dark, cur, status,
                 foot, nextSeq, fold, mode, faults>>

\* prepare_barrier: the participants' fsyncs return, in any order.
BarrierOne(t) ==
  /\ mode = "up" /\ phase = "barrier"
  /\ Enlisted(t) /\ t # Coord /\ synced[t] < Len(log[t])
  /\ synced' = [synced EXCEPT ![t] = Len(log[t])]
  /\ UNCHANGED <<log, origin, carried, hseq, tabVars, txVars, nextSeq, fold,
                 mode, faults>>

\* Mutant: the decision does not wait for the prepare barrier.
PreparedUnchecked == TRUE

Prepared == \A i \in 1 .. Len(roster) - 1 : synced[roster[i].t] = Len(log[roster[i].t])

\* The coordinator's marker: a decision when others cite it, else a commit.
Mark ==
  /\ mode = "up" /\ roster # << >>
  /\ \/ Len(roster) = 1 /\ phase = "open" /\ dark = {}
        /\ Push(Coord, Rec("commit", Coord, CoordSeq))
     \/ /\ Len(roster) > 1 /\ phase = "barrier" /\ Prepared
        /\ Push(Coord, Rec("decide", Coord, CoordSeq))
  /\ phase' = "marked"
  /\ UNCHANGED <<origin, carried, hseq, synced, tabVars, roster, dark, cur, status,
                 foot, nextSeq, fold, mode, faults>>

\* Mutant: only the coordinator's table publishes its overlay.
PublishCoordOnly(x) ==
  /\ mem' = [mem EXCEPT ![Coord] = @ \cup {x}]
  /\ status' = [status EXCEPT ![x] = "committed"]

\* TableStore::commit_txn of every enlisted table.
Publish(x) ==
  /\ mem' = [t \in Tables |-> IF t \in foot[x] THEN mem[t] \cup {x} ELSE mem[t]]
  /\ status' = [status EXCEPT ![x] = "committed"]

\* The coordinator's sync returns: the transaction is durable, commit_txn
\* publishes every table, and COMMIT returns.
SyncMark ==
  /\ mode = "up" /\ phase = "marked"
  /\ synced' = [synced EXCEPT ![Coord] = Len(log[Coord])]
  /\ Publish(cur)
  /\ phase' = "none" /\ roster' = << >>
  /\ UNCHANGED <<log, origin, carried, hseq, wm, parts, dark, cur, foot, nextSeq,
                 fold, mode, faults>>

\* COMMIT of a transaction that enlisted nothing.
CommitEmpty ==
  /\ mode = "up" /\ phase = "open" /\ roster = << >>
  /\ status' = [status EXCEPT ![cur] = "committed"]
  /\ phase' = "none"
  /\ UNCHANGED <<logVars, tabVars, roster, dark, cur, foot, nextSeq, fold, mode, faults>>

\* The prepare barrier or the coordinator's sync fails: COMMIT rolls back.
FailsAt == [barrier |-> "prepare_error", marked |-> "decide_error"]

SyncFails ==
  /\ mode = "up" /\ phase \in DOMAIN FailsAt
  /\ FailsAt[phase] \in Faults /\ faults < MaxFaults
  /\ faults' = faults + 1
  /\ phase' = "discard"
  /\ UNCHANGED <<logVars, tabVars, roster, dark, cur, status, foot, nextSeq, fold, mode>>

-----------------------------------------------------------------------------
(* ROLLBACK: Session::discard rewinds the logs in enlistment order, each    *)
(* rewind durable before the next.                                          *)

Rollback ==
  /\ mode = "up" /\ phase = "open"
  /\ phase' = "discard"
  /\ UNCHANGED <<logVars, tabVars, roster, dark, cur, status, foot, nextSeq, fold,
                 mode, faults>>

RewindFirst ==
  LET e == roster[1]
  IN
  /\ mode = "up" /\ phase = "discard" /\ roster # << >>
  /\ log' = [log EXCEPT ![e.t] = SubSeq(@, 1, e.lsn)]
  /\ synced' = [synced EXCEPT ![e.t] = IF e.lsn < Len(log[e.t]) THEN e.lsn ELSE @]
  /\ roster' = Tail(roster)
  /\ UNCHANGED <<origin, carried, hseq, tabVars, dark, phase, cur, status, foot,
                 nextSeq, fold, mode, faults>>

Discarded ==
  /\ mode = "up" /\ phase = "discard" /\ roster = << >>
  /\ status' = [status EXCEPT ![cur] = "aborted"]
  /\ phase' = "none" /\ dark' = {}
  /\ UNCHANGED <<logVars, tabVars, roster, cur, foot, nextSeq, fold, mode, faults>>

-----------------------------------------------------------------------------
(* Checkpoint and fold of one table: roll, then commit the TABLE record.    *)

\* Mutant: a roll always drops the decisions of its own segment.
NeverCited(t) == FALSE

\* may_be_cited: some other log's active segment reaches past what its TABLE
\* record covers.
MayBeCited(t) ==
  \E u \in Tables \ {t} : Len(log[u]) > Max2(origin[u], wm[u])

\* Session::checkpoint drops the cached handles before save_catalog rolls every
\* log through one of its own, and a statement opens the log anew: the counter
\* is again what Wal::scan finds.
DropHandles ==
  /\ Idle
  /\ nextSeq' = [t \in Tables |-> ScanSeq(t)]
  /\ UNCHANGED <<logVars, tabVars, txVars, fold, mode, faults>>

\* Wal::roll: through the session's handle for a fold, through a fresh one
\* (roll_for_checkpoint) once DropHandles has been taken.
RollLog(t) ==
  LET decided == DecisionsOf(t)
      kept    == IF MayBeCited(t) THEN decided ELSE {}
      empty   == Len(log[t]) = origin[t]
  IN
  /\ fold' = {t}
  /\ IF empty /\ (carried[t] = {} \/ kept # {})
     THEN UNCHANGED <<origin, carried, hseq, synced>>
     ELSE /\ origin' = [origin EXCEPT ![t] = Len(log[t])]
          /\ carried' = [carried EXCEPT ![t] = kept]
          /\ hseq' = [hseq EXCEPT ![t] = nextSeq[t]]
          /\ synced' = [synced EXCEPT ![t] = Len(log[t])]
  /\ UNCHANGED <<log, tabVars, nextSeq, mode, faults>>

\* A checkpoint, or a fold between statements.
Roll(t) == Idle /\ RollLog(t) /\ UNCHANGED txVars

\* COMMIT of a folding table: no marker, drop_group, then fold_to_parts.
CommitFold(t) ==
  /\ mode = "up" /\ phase = "open" /\ t \in dark
  /\ RollLog(t)
  /\ phase' = "folding" /\ roster' = << >> /\ dark' = {}
  /\ UNCHANGED <<cur, status, foot>>

\* write_table: the snapshot is in parts, the watermark is the roll's origin.
\* For a folding COMMIT this rename is the commit point.
CommitTable(t) ==
  LET own == IF phase = "folding" THEN {cur} ELSE {}
  IN
  /\ mode = "up" /\ t \in fold
  /\ wm' = [wm EXCEPT ![t] = origin[t]]
  /\ mem' = [mem EXCEPT ![t] = @ \cup own]
  /\ parts' = [parts EXCEPT ![t] = mem[t] \cup own]
  /\ status' = [x \in Txs |-> IF x \in own THEN "committed" ELSE status[x]]
  /\ phase' = "none"
  /\ fold' = {}
  /\ UNCHANGED <<logVars, roster, dark, cur, foot, nextSeq, mode, faults>>

-----------------------------------------------------------------------------
(* Crashes and recovery.                                                    *)

Crash ==
  /\ mode = "up" /\ faults < MaxFaults
  /\ fold # {} => "fold_crash" \in Faults
  /\ mode' = "down" /\ faults' = faults + 1
  /\ phase' = "none" /\ roster' = << >> /\ dark' = {} /\ fold' = {}
  /\ UNCHANGED <<origin, carried, hseq, tabVars, cur, status, foot, nextSeq>>

Kill ==
  /\ "kill" \in Faults
  /\ Crash
  /\ UNCHANGED <<log, synced>>

\* Each log keeps a prefix at least as long as what was synced.
PowerLoss ==
  /\ "power" \in Faults
  /\ Crash
  /\ \E n \in [Tables -> 0 .. MaxLog] :
       /\ \A t \in Tables : synced[t] <= n[t] /\ n[t] <= Len(log[t])
       /\ log' = [t \in Tables |-> SubSeq(log[t], 1, n[t])]
       /\ synced' = n

\* load_catalog replays every table; each Wal::open resumes its counter.  A
\* transaction the crash interrupted ends here, one way or the other.
Recover ==
  /\ mode = "down" /\ mode' = "up"
  /\ mem' = [t \in Tables |-> Replay(t)]
  /\ nextSeq' = [t \in Tables |-> ScanSeq(t)]
  /\ status' = [x \in Txs |->
       IF status[x] # "active" THEN status[x]
       ELSE IF \E t \in foot[x] : x \in Replay(t) THEN "committed" ELSE "aborted"]
  /\ UNCHANGED <<logVars, wm, parts, roster, dark, phase, cur, foot, fold, faults>>

Next ==
  \/ Begin \/ PrepareAll \/ Mark \/ SyncMark \/ CommitEmpty \/ SyncFails
  \/ Rollback \/ RewindFirst \/ Discarded
  \/ Kill \/ PowerLoss \/ Recover \/ DropHandles
  \/ \E t \in Tables : Write(t) \/ EmptySweep(t) \/ DarkSweep(t) \/ BarrierOne(t)
                       \/ Roll(t) \/ CommitFold(t) \/ CommitTable(t)

Spec == Init /\ [][Next]_vars
-----------------------------------------------------------------------------
\* Types of the state this module keeps.
TypeOK ==
  /\ log \in [Tables -> Seq(Record)]
  /\ origin \in [Tables -> Nat] /\ hseq \in [Tables -> Nat]
  /\ synced \in [Tables -> Nat] /\ nextSeq \in [Tables -> Nat]
  /\ wm \in [Tables -> Nat]
  /\ carried \in [Tables -> SUBSET Nat]
  /\ parts \in [Tables -> SUBSET Nat] /\ mem \in [Tables -> SUBSET Nat]
  /\ roster \in Seq([t : Tables, seq : Nat, lsn : Nat])
  /\ dark \in SUBSET Tables
  /\ phase \in {"none", "open", "barrier", "marked", "discard", "folding"}
  /\ fold \in SUBSET Tables /\ mode \in {"up", "down"}
  /\ cur \in 0 .. MaxTxs
  /\ status \in [Txs -> {"idle", "active", "committed", "aborted"}]
  /\ foot \in [Txs -> SUBSET Tables]
  /\ faults \in Nat

\* The two-phase commit implements atomic transactions: whatever crashes come,
\* every table shows a transaction or none does, and no outcome is revised.
Atomic == INSTANCE AtomicTxns WITH view <- mem
AtomicSpec == Atomic!Spec

\* A crash at any instant resolves every transaction the same way in all of
\* its tables, and keeps every transaction whose COMMIT returned.
AllOrNothing ==
  mode = "down" =>
    \A x \in Txs : \A t \in foot[x] :
      /\ status[x] = "committed" => x \in Replay(t)
      /\ status[x] = "aborted" => x \notin Replay(t)
      /\ \A u \in foot[x] : x \in Replay(t) <=> x \in Replay(u)

\* Every prepare is durable before the decision it cites is written: a
\* decision in a log means each other table of its transaction has its rows
\* and, behind them, its prepare on the platter (Session::prepare_barrier).
Protected(x, t) ==
  \E i, j \in DOMAIN log[t] :
    /\ i < j /\ j <= synced[t]
    /\ log[t][i].tx = x /\ log[t][i].tag = "stage"
    /\ log[t][j].tx = x /\ log[t][j].tag = "prepare"

DecisionAfterPrepares ==
  \A c \in Tables : \A i \in DOMAIN log[c] :
    log[c][i].tag = "decide" =>
      \A t \in Tables \ {c} :
        t \in foot[log[c][i].tx] => Protected(log[c][i].tx, t)

-----------------------------------------------------------------------------
(* The inductive invariant behind DecisionAfterPrepares.                    *)

\* Sealed segments were synced before the roll, and every staging number on a
\* log is below the next one its open handle will hand out; the header's
\* next_seq vouches for the sealed ones.
SeqsBelowNext ==
  \A t \in Tables :
    /\ origin[t] <= synced[t] /\ synced[t] <= Len(log[t])
    /\ hseq[t] <= nextSeq[t]
    /\ \A s \in carried[t] : s < nextSeq[t]
    /\ \A i \in 1 .. Len(log[t]) :
         /\ log[t][i].seq < nextSeq[t]
         /\ i <= origin[t] => log[t][i].seq < hseq[t]

\* A roster entry marks where the running transaction's records begin.
MarksTail(e) ==
  /\ e.seq < nextSeq[e.t]
  /\ origin[e.t] <= e.lsn /\ e.lsn <= Len(log[e.t])
  /\ \A k \in 1 .. Len(log[e.t]) : log[e.t][k].tx = cur <=> k > e.lsn

RosterMarksTail ==
  /\ phase \in {"none", "folding"} => roster = << >>
  /\ mode = "down" => phase = "none"
  /\ fold # {} => phase \in {"none", "folding"}
  /\ \A i \in 1 .. Len(roster) : MarksTail(roster[i])
  /\ \A i, j \in 1 .. Len(roster) : i # j => roster[i].t # roster[j].t

\* Records belong to transactions that have begun; those of a running one lie
\* in the tables it enlisted, and it has staged rows wherever it has a foot.
OwnRecords ==
  /\ \A t \in Tables : \A k \in 1 .. Len(log[t]) : log[t][k].tx <= cur
  /\ \A x \in Txs : x > cur => foot[x] = {}
  /\ phase # "none" => cur \in Txs
  /\ phase \in {"open", "barrier", "marked"} =>
       \A t \in Tables :
         /\ \A k \in 1 .. Len(log[t]) : log[t][k].tx = cur => Enlisted(t)
         /\ t \in foot[cur] \ dark => \E k \in 1 .. Len(log[t]) :
              log[t][k].tx = cur /\ log[t][k].tag = "stage"

\* Between PREPARE and the decision, a participant's log ends in its prepare,
\* and no decision of the running transaction exists.
PreparesInPlace ==
  /\ phase \in {"open", "barrier", "discard"} =>
       \A t \in Tables : \A k \in 1 .. Len(log[t]) :
         log[t][k].tag = "decide" => log[t][k].tx # cur
  /\ phase = "barrier" => dark = {}
  /\ phase = "barrier" =>
       \A i \in 1 .. Len(roster) - 1 :
         LET l == log[roster[i].t]
         IN  Len(l) > 0 /\ l[Len(l)].tag = "prepare" /\ l[Len(l)].tx = cur
=============================================================================
