----------------------------- MODULE MCLogFlaws -----------------------------
(***************************************************************************)
(* Three histories, of one log (Wal) or of the logs of a transaction over   *)
(* two tables (TxnCommit), played one after another; each ends in a         *)
(* recovery that parts from what persist/wal.rs says of it.  `wrong'        *)
(* collects the histories that came out wrong.                              *)
(***************************************************************************)
EXTENDS Wal

CONSTANTS A, B      \* the two tables of the transaction

VARIABLES
  tLog, tOrigin, tCarried, tHseq, tSynced, tNextSeq, tWm, tParts, tMem, tRoster,
  tDark, tPhase, tFold, tMode, tCur, tStatus, tFoot, tFaults,   \* TxnCommit's state
  nth,    \* which history is being played
  step,   \* its next step
  wrong   \* the histories whose recovery was not what was promised

tVars == <<tLog, tOrigin, tCarried, tHseq, tSynced, tNextSeq, tWm, tParts, tMem, tRoster,
           tDark, tPhase, tFold, tMode, tCur, tStatus, tFoot, tFaults>>

T == INSTANCE TxnCommit WITH
       Tables <- {A, B}, MaxTxs <- 1, MaxLog <- 6, MaxFaults <- 2,
       Faults <- {"kill", "fold_crash"},
       log <- tLog, origin <- tOrigin, carried <- tCarried, hseq <- tHseq,
       synced <- tSynced, nextSeq <- tNextSeq, wm <- tWm, parts <- tParts,
       mem <- tMem, roster <- tRoster, dark <- tDark, phase <- tPhase,
       fold <- tFold, mode <- tMode, cur <- tCur, status <- tStatus,
       foot <- tFoot, faults <- tFaults

PowerCuts == [faults |-> {"power", "short_file", "kill"},
              maxFaults |-> 2, maxRecs |-> 2, maxLen |-> 5]
FlawRegimes == {PowerCuts}

Histories == <<
    \* A power cut leaves the stamp but not the tail it speaks of.  The open
    \* keeps the stamp, the next sync makes it the floor, and the power goes
    \* again before that fsync returns.
    [name |-> "stamp_becomes_floor",
     steps |-> <<"append", "tick", "stamp", "power", "recover",
                 "append", "tick", "stamp", "power", "recover">>],
    \* A process is killed between the tick and its fsync.  The next one finds
    \* nothing dirty and rolls without an fsync; the power goes before TABLE.
    [name |-> "sealed_without_fsync",
     steps |-> <<"append", "tick", "kill", "recover", "fold", "publish",
                 "power", "recover">>],
    \* A prepare sits in a sealed segment that no TABLE covers yet: the roll of
    \* the coordinator's log does not see it and drops the decision.
    [name |-> "decision_dropped",
     steps |-> <<"t_begin", "t_write_a", "t_write_b", "t_prepare", "t_barrier", "t_mark",
                 "t_sync", "t_roll_a", "t_kill", "t_recover", "t_roll_b", "t_kill">>] >>

\* The stamp has reached the platter, and one frame of the active file.
PowerCut ==
  /\ PowerLoss
  /\ head' = head /\ body' = SubSeq(body, 1, Least(1, Len(body)))
  /\ \A i \in DOMAIN sealed : sealed'[i].body = << >>

WalStep(s) ==
  CASE s = "append"  -> AppendPlain
    [] s = "tick"    -> TickStep
    [] s = "stamp"   -> StampStep
    [] s = "power"   -> PowerCut
    [] s = "kill"    -> Kill
    [] s = "recover" -> Recover
    [] s = "fold"    -> BeginFold(FALSE)
    [] s = "publish" -> Publish

TxnStep(s) ==
  CASE s = "t_begin"   -> T!Begin
    [] s = "t_write_a" -> T!Write(A)
    [] s = "t_write_b" -> T!Write(B)
    [] s = "t_prepare" -> T!PrepareAll
    [] s = "t_barrier" -> T!BarrierOne(A)
    [] s = "t_mark"    -> T!Mark
    [] s = "t_sync"    -> T!SyncMark
    [] s = "t_roll_a"  -> T!Roll(A)
    [] s = "t_roll_b"  -> T!Roll(B)
    [] s = "t_kill"    -> T!Kill
    [] s = "t_recover" -> T!Recover

WalSteps == {"append", "tick", "stamp", "power", "kill", "recover", "fold", "publish"}

Now == Histories[nth]

Play ==
  /\ nth <= Len(Histories) /\ step <= Len(Now.steps)
  /\ IF Now.steps[step] \in WalSteps
     THEN WalStep(Now.steps[step]) /\ UNCHANGED tVars
     ELSE TxnStep(Now.steps[step]) /\ UNCHANGED vars
  /\ step' = step + 1 /\ UNCHANGED <<nth, wrong>>

\* An undamaged log refused, or a transaction that is in one table only.
Broken == (mode = "refused" /\ ~rotten) \/ ~T!AllOrNothing

\* The log of the next history is a new one.
Judge ==
  /\ nth <= Len(Histories) /\ step > Len(Now.steps)
  /\ wrong' = IF Broken THEN wrong \cup {Now.name} ELSE wrong
  /\ nth' = nth + 1 /\ step' = 1
  /\ sealed' = << >> /\ origin' = 0 /\ carry' = 0
  /\ body' = << >> /\ old' = NoOld /\ synced' = 0
  /\ head' = [durable |-> 0, acked |-> 0] /\ phead' = head'
  /\ dirty' = FALSE /\ groups' = 0 /\ mark' = NoMark /\ job' = "none" /\ pc' = "none"
  /\ covered' = 0 /\ parts' = {} /\ mem' = {} /\ pend' = {} /\ mode' = "up"
  /\ owed' = {} /\ nextRec' = 1 /\ faults' = 0 /\ rotten' = FALSE /\ adopted' = FALSE
  /\ UNCHANGED <<regime, tVars>>

FlawInit == Init /\ T!Init /\ nth = 1 /\ step = 1 /\ wrong = {}
FlawSpec == FlawInit /\ [][Play \/ Judge]_<<vars, tVars, nth, step, wrong>>

\* A recovery keeps every committed transaction whole and quarantines only a
\* log that is damaged: persist/wal.rs, "Torn tails are normal, torn middles
\* are not" and "A transaction that spans several tables".
DocumentedRecovery == nth > Len(Histories) => wrong = {}
=============================================================================
