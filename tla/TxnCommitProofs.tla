--------------------------- MODULE TxnCommitProofs ---------------------------
(***************************************************************************)
(* Proofs about TxnCommit, for any set of tables and any bounds: the types, *)
(* the staging numbers and the decision under every fault, and atomicity    *)
(* and the refinement of AtomicTxns for kills and failing prepares.         *)
(***************************************************************************)
EXTENDS TxnCommit, SequenceTheorems, WellFoundedInduction, TLAPS

Entry == [t : Tables, seq : Nat, lsn : Nat]

-----------------------------------------------------------------------------
(* Facts about the operators the model is built from.                       *)

\* A bounded, inhabited set of numbers has a greatest element, and SetMax is it.
LEMMA MaxOfBounded ==
  ASSUME NEW S \in SUBSET Nat, S # {}, NEW b \in Nat, \A x \in S : x <= b
  PROVE  SetMax(S) \in S /\ \A x \in S : x <= SetMax(S)
<1> DEFINE T == {b - x : x \in S}
<1>1. T \subseteq Nat /\ T # {}
  <2>1. PICK x \in S : TRUE
    OBVIOUS
  <2>2. b - x \in T
    BY <2>1
  <2>3. \A z \in T : z \in Nat
    OBVIOUS
  <2> QED BY <2>2, <2>3
<1>2. PICK y \in T : \A z \in T : ~(<<z, y>> \in OpToRel(<, Nat))
  <2> HIDE DEF T
  <2> QED BY <1>1, NatLessThanWellFounded, WFMin
<1>3. \A z \in T : ~(z < y)
  BY <1>1, <1>2 DEF OpToRel
<1>4. PICK m \in S : y = b - m
  BY <1>2
<1>5. \A x \in S : x <= m
  <2> TAKE x \in S
  <2>1. b - x \in T
    OBVIOUS
  <2> QED BY <1>3, <1>4, <2>1
<1> QED BY <1>5 DEF SetMax

\* What a log's first n records are.
LEMMA PrefixProperties ==
  ASSUME NEW R, NEW s \in Seq(R), NEW n \in Nat, n <= Len(s)
  PROVE  /\ SubSeq(s, 1, n) \in Seq(R)
         /\ Len(SubSeq(s, 1, n)) = n
         /\ \A i \in 1 .. n : SubSeq(s, 1, n)[i] = s[i]
<1>1. \A i \in 1 .. n : s[i] \in R
  BY LenProperties
<1> QED BY <1>1, SubSeqProperties

\* What the type invariant says of one table's log.
LEMMA LogType ==
  ASSUME TypeOK, NEW t \in Tables
  PROVE  /\ log[t] \in Seq(Record)
         /\ Len(log[t]) \in Nat /\ DOMAIN log[t] = 1 .. Len(log[t])
         /\ \A i \in 1 .. Len(log[t]) :
              /\ log[t][i] \in Record
              /\ log[t][i].seq \in Nat /\ log[t][i].tx \in Nat
              /\ log[t][i].tag \in {"stage", "commit", "prepare", "decide"}
<1>1. log[t] \in Seq(Record)
  BY DEF TypeOK
<1>2. /\ Len(log[t]) \in Nat /\ DOMAIN log[t] = 1 .. Len(log[t])
      /\ log[t] \in [1 .. Len(log[t]) -> Record]
  BY <1>1, LenProperties
<1>3. \A i \in 1 .. Len(log[t]) : log[t][i] \in Record
  BY <1>2
<1> QED BY <1>1, <1>2, <1>3 DEF Record

\* The number scan resumes at is above the header's, the carried decisions'
\* and the active segment's.
LEMMA ScanSeqAbove ==
  ASSUME TypeOK, SeqsBelowNext, NEW t \in Tables
  PROVE  /\ ScanSeq(t) \in Nat
         /\ hseq[t] <= ScanSeq(t)
         /\ \A s \in carried[t] : s < ScanSeq(t)
         /\ \A i \in 1 .. Len(log[t]) : i > origin[t] => log[t][i].seq < ScanSeq(t)
<1> DEFINE C == {s + 1 : s \in carried[t]}
           L == {log[t][i].seq + 1 : i \in Active(t)}
           S == {hseq[t]} \cup C \cup L
<1>0. /\ hseq[t] \in Nat /\ nextSeq[t] \in Nat /\ origin[t] \in Nat
      /\ carried[t] \subseteq Nat
      /\ log[t] \in Seq(Record)
  BY DEF TypeOK
<1>1. /\ Len(log[t]) \in Nat /\ DOMAIN log[t] = 1 .. Len(log[t])
      /\ \A i \in 1 .. Len(log[t]) : log[t][i].seq \in Nat
  BY LogType
<1>2. C \subseteq Nat /\ \A x \in C : x <= nextSeq[t]
  BY <1>0 DEF SeqsBelowNext
<1>3. L \subseteq Nat /\ \A x \in L : x <= nextSeq[t]
  BY <1>0, <1>1 DEF SeqsBelowNext, Active
<1>4. S \subseteq Nat /\ S # {} /\ \A x \in S : x <= nextSeq[t]
  BY <1>0, <1>2, <1>3 DEF SeqsBelowNext
<1>5. SetMax(S) \in S /\ \A x \in S : x <= SetMax(S)
  <2> HIDE DEF S
  <2> QED BY <1>0, <1>4, MaxOfBounded
<1>6. ScanSeq(t) = SetMax(S)
  BY DEF ScanSeq
<1>7. \A s \in carried[t] : s + 1 \in S
  OBVIOUS
<1>8. \A i \in 1 .. Len(log[t]) : i > origin[t] => log[t][i].seq + 1 \in S
  BY <1>1 DEF Active
<1> QED
  <2> HIDE DEF S
  <2>1. SetMax(S) \in Nat /\ hseq[t] <= SetMax(S)
    BY <1>4, <1>5 DEF S
  <2> QED BY <1>0, <1>1, <1>5, <1>6, <1>7, <1>8, <2>1

\* What appending one record to one log does.
LEMMA PushProperties ==
  ASSUME TypeOK, NEW t \in Tables, NEW r \in Record, Push(t, r)
  PROVE  /\ log' \in [Tables -> Seq(Record)]
         /\ \A u \in Tables : u # t => log'[u] = log[u]
         /\ Len(log'[t]) = Len(log[t]) + 1
         /\ \A i \in 1 .. Len(log[t]) : log'[t][i] = log[t][i]
         /\ log'[t][Len(log[t]) + 1] = r
<1>1. log' = [log EXCEPT ![t] = Append(@, r)] /\ log \in [Tables -> Seq(Record)]
  BY DEF Push, TypeOK
<1>2. log'[t] = Append(log[t], r) /\ log[t] \in Seq(Record)
  BY <1>1
<1>3. /\ Append(log[t], r) \in Seq(Record)
      /\ Len(Append(log[t], r)) = Len(log[t]) + 1
      /\ \A i \in 1 .. Len(log[t]) : Append(log[t], r)[i] = log[t][i]
      /\ Append(log[t], r)[Len(log[t]) + 1] = r
  BY <1>2, AppendProperties
<1> QED BY <1>1, <1>2, <1>3

\* The roster as the statements of a transaction build it.
LEMMA RosterType ==
  ASSUME TypeOK
  PROVE  /\ roster \in Seq(Entry)
         /\ Len(roster) \in Nat /\ DOMAIN roster = 1 .. Len(roster)
         /\ roster # << >> => Len(roster) > 0
         /\ \A i \in 1 .. Len(roster) :
              /\ roster[i] \in Entry
              /\ roster[i].t \in Tables /\ roster[i].seq \in Nat /\ roster[i].lsn \in Nat
<1>1. roster \in Seq(Entry)
  BY DEF TypeOK, Entry
<1>2. /\ Len(roster) \in Nat /\ DOMAIN roster = 1 .. Len(roster)
      /\ roster \in [1 .. Len(roster) -> Entry]
      /\ roster # << >> => Len(roster) > 0
  BY <1>1, LenProperties, EmptySeq
<1>3. \A i \in 1 .. Len(roster) : roster[i] \in Entry
  BY <1>2
<1> QED BY <1>1, <1>2, <1>3 DEF Entry

\* The entry SeqOf reads is the table's.
LEMMA SeqOfEntry ==
  ASSUME TypeOK, NEW t \in Tables, Enlisted(t)
  PROVE  \E i \in 1 .. Len(roster) : roster[i].t = t /\ SeqOf(t) = roster[i].seq
BY RosterType DEF Enlisted, SeqOf

\* Enlisting a table either finds its entry or adds one at the end.
LEMMA EnlistProperties ==
  ASSUME TypeOK, NEW t \in Tables, EnlistIn(t)
  PROVE  /\ roster' \in Seq(Entry)
         /\ nextSeq' \in [Tables -> Nat]
         /\ \A u \in Tables : nextSeq[u] <= nextSeq'[u]
         /\ Enlisted(t) => UNCHANGED <<roster, nextSeq>>
         /\ ~Enlisted(t) =>
              /\ dark = {} /\ Len(roster') = Len(roster) + 1
              /\ \A i \in 1 .. Len(roster) : roster'[i] = roster[i]
              /\ roster'[Len(roster) + 1] =
                   [t |-> t, seq |-> nextSeq[t], lsn |-> Len(log[t])]
              /\ nextSeq' = [nextSeq EXCEPT ![t] = @ + 1]
<1>1. nextSeq \in [Tables -> Nat] /\ roster \in Seq(Entry)
  BY RosterType DEF TypeOK
<1>2. CASE Enlisted(t)
  BY <1>1, <1>2 DEF EnlistIn
<1>3. CASE ~Enlisted(t)
  <2> DEFINE e == [t |-> t, seq |-> nextSeq[t], lsn |-> Len(log[t])]
  <2>1. e \in Entry
    BY <1>1, LogType DEF Entry
  <2>2. /\ dark = {} /\ roster' = Append(roster, e)
        /\ nextSeq' = [nextSeq EXCEPT ![t] = @ + 1]
    BY <1>3 DEF EnlistIn
  <2>3. nextSeq' \in [Tables -> Nat] /\ \A u \in Tables : nextSeq[u] <= nextSeq'[u]
    BY <1>1, <2>2
  <2> HIDE DEF e
  <2>4. /\ roster' \in Seq(Entry)
        /\ Len(roster') = Len(roster) + 1
        /\ \A i \in 1 .. Len(roster) : roster'[i] = roster[i]
        /\ roster'[Len(roster) + 1] = e
    BY <1>1, <2>1, <2>2, AppendProperties
  <2> QED BY <1>3, <2>2, <2>3, <2>4 DEF e
<1> QED BY <1>2, <1>3

\* Enlisting never forgets a table.
LEMMA EnlistedAfter ==
  ASSUME TypeOK, NEW t \in Tables, EnlistIn(t)
  PROVE  Enlisted(t)' /\ \A u \in Tables : Enlisted(u) => Enlisted(u)'
<1>1. CASE Enlisted(t)
  BY <1>1, EnlistProperties DEF Enlisted
<1>2. CASE ~Enlisted(t)
  <2>1. /\ Len(roster') = Len(roster) + 1 /\ Len(roster) \in Nat
        /\ \A i \in 1 .. Len(roster) : roster'[i] = roster[i]
        /\ roster'[Len(roster) + 1] = [t |-> t, seq |-> nextSeq[t], lsn |-> Len(log[t])]
        /\ DOMAIN roster = 1 .. Len(roster) /\ roster' \in Seq(Entry)
    BY <1>2, EnlistProperties, RosterType
  <2>2. DOMAIN roster' = 1 .. Len(roster')
    BY <2>1, LenProperties
  <2>3. roster'[Len(roster) + 1].t = t /\ Len(roster) + 1 \in DOMAIN roster'
    BY <2>1, <2>2
  <2>4. Enlisted(t)'
    BY <2>3 DEF Enlisted
  <2>5. ASSUME NEW u \in Tables, Enlisted(u)
        PROVE  Enlisted(u)'
    BY <2>1, <2>2, <2>5 DEF Enlisted
  <2> QED BY <2>4, <2>5
<1> QED BY <1>1, <1>2

\* A roll either leaves the segment in place or starts one that carries some
\* of the decisions of the last.
LEMMA RollProperties ==
  ASSUME NEW t \in Tables, RollLog(t)
  PROVE  \/ UNCHANGED <<origin, carried, hseq, synced>>
         \/ \E K \in SUBSET DecisionsOf(t) :
              /\ origin' = [origin EXCEPT ![t] = Len(log[t])]
              /\ carried' = [carried EXCEPT ![t] = K]
              /\ hseq' = [hseq EXCEPT ![t] = nextSeq[t]]
              /\ synced' = [synced EXCEPT ![t] = Len(log[t])]
<1> DEFINE K == IF MayBeCited(t) THEN DecisionsOf(t) ELSE {}
<1>1. K \in SUBSET DecisionsOf(t)
  OBVIOUS
<1>2. \/ UNCHANGED <<origin, carried, hseq, synced>>
      \/ /\ origin' = [origin EXCEPT ![t] = Len(log[t])]
         /\ carried' = [carried EXCEPT ![t] = K]
         /\ hseq' = [hseq EXCEPT ![t] = nextSeq[t]]
         /\ synced' = [synced EXCEPT ![t] = Len(log[t])]
  BY DEF RollLog
<1> HIDE DEF K
<1> QED BY <1>1, <1>2

-----------------------------------------------------------------------------
(* Type correctness.  Recover needs SeqsBelowNext: the number it resumes at  *)
(* is a maximum, which exists because the numbers on the log are bounded.   *)

\* The initial state is well typed.
LEMMA TypeInit == Init => TypeOK
BY TxnAssumption, EmptySeq DEF Init, TypeOK, Txs, Record

\* Every step keeps the types.
LEMMA TypeStep ==
  ASSUME TypeOK, SeqsBelowNext, RosterMarksTail, [Next]_vars
  PROVE  TypeOK'
<1> USE TxnAssumption DEF Txs
<1>0. /\ cur \in Nat
      /\ roster # << >> => Coord \in Tables /\ CoordSeq \in Nat
  <2>1. cur \in Nat
    BY DEF TypeOK
  <2>2. roster # << >> => Len(roster) \in 1 .. Len(roster)
    BY RosterType
  <2> QED BY <2>1, <2>2, RosterType DEF Coord, CoordSeq
<1>1. CASE Begin
  <2>1. cur' \in 0 .. MaxTxs
    BY <1>1 DEF Begin, TypeOK
  <2>2. status' \in [Txs -> {"idle", "active", "committed", "aborted"}]
    BY <1>1 DEF Begin, TypeOK
  <2> QED BY <1>1, <2>1, <2>2 DEF Begin, TypeOK, logVars, tabVars
<1>2. ASSUME NEW t \in Tables, Write(t)
      PROVE  TypeOK'
  <2> DEFINE s == IF Enlisted(t) THEN SeqOf(t) ELSE nextSeq[t]
  <2>1. EnlistIn(t) /\ Push(t, Rec("stage", t, s))
    BY <1>2 DEF Write
  <2>2. s \in Nat
    <3>1. Enlisted(t) => SeqOf(t) \in Nat
      BY RosterType, SeqOfEntry
    <3>2. nextSeq[t] \in Nat
      BY DEF TypeOK
    <3> QED BY <3>1, <3>2
  <2>3. Rec("stage", t, s) \in Record
    BY <1>0, <2>2 DEF Rec, Record
  <2> HIDE DEF s
  <2>4. log' \in [Tables -> Seq(Record)]
    BY <2>1, <2>3, PushProperties
  <2>5. roster' \in Seq(Entry) /\ nextSeq' \in [Tables -> Nat]
    BY <2>1, EnlistProperties
  <2> QED BY <1>2, <2>4, <2>5 DEF Write, TypeOK, tabVars, Entry
<1>3. ASSUME NEW t \in Tables, EmptySweep(t)
      PROVE  TypeOK'
  <2>1. roster' \in Seq(Entry) /\ nextSeq' \in [Tables -> Nat]
    BY <1>3, EnlistProperties DEF EmptySweep
  <2> QED BY <1>3, <2>1 DEF EmptySweep, TypeOK, logVars, tabVars, Entry
<1>19. ASSUME NEW t \in Tables, DarkSweep(t)
       PROVE  TypeOK'
  <2>1. roster' \in Seq(Entry) /\ nextSeq' \in [Tables -> Nat]
    BY <1>19, EnlistProperties DEF DarkSweep
  <2>2. foot' \in [Txs -> SUBSET Tables] /\ dark' \in SUBSET Tables
    BY <1>19 DEF DarkSweep, TypeOK
  <2> QED BY <1>19, <2>1, <2>2 DEF DarkSweep, TypeOK, logVars, tabVars, Entry
<1>4. CASE PrepareAll
  <2> DEFINE r(t) == [tag |-> "prepare", seq |-> SeqOf(t), tx |-> cur,
                      coord |-> Coord, cseq |-> CoordSeq]
  <2>1. roster # << >>
    BY <1>4, EmptySeq DEF PrepareAll
  <2>2. ASSUME NEW t \in Tables, Enlisted(t)
        PROVE  Append(log[t], r(t)) \in Seq(Record)
    <3>1. SeqOf(t) \in Nat
      BY <2>2, RosterType, SeqOfEntry
    <3>2. r(t) \in Record
      BY <1>0, <2>1, <3>1 DEF Record
    <3> HIDE DEF r
    <3> QED BY <3>2, LogType, AppendProperties
  <2>3. log' \in [Tables -> Seq(Record)]
    BY <1>4, <2>2, LogType DEF PrepareAll
  <2> QED BY <1>4, <2>3 DEF PrepareAll, TypeOK, tabVars
<1>5. ASSUME NEW t \in Tables, BarrierOne(t)
      PROVE  TypeOK'
  BY <1>5, LogType DEF BarrierOne, TypeOK, tabVars, txVars
<1>6. CASE Mark
  <2>1. \A tag \in {"commit", "decide"} : Rec(tag, Coord, CoordSeq) \in Record
    BY <1>0, <1>6 DEF Mark, Rec, Record
  <2>2. log' \in [Tables -> Seq(Record)]
    BY <1>0, <1>6, <2>1, PushProperties DEF Mark
  <2> QED BY <1>6, <2>2 DEF Mark, TypeOK, tabVars
<1>7. CASE SyncMark
  <2>1. mem' \in [Tables -> SUBSET Nat]
    BY <1>0, <1>7 DEF SyncMark, Publish, TypeOK
  <2>2. synced' \in [Tables -> Nat]
    BY <1>7, LogType DEF SyncMark, TypeOK
  <2> QED BY <1>7, <2>1, <2>2, EmptySeq DEF SyncMark, Publish, TypeOK
<1>8. CASE CommitEmpty
  BY <1>8 DEF CommitEmpty, TypeOK, logVars, tabVars
<1>9. CASE SyncFails
  <2>1. faults' \in Nat
    BY <1>9 DEF SyncFails, TypeOK
  <2> QED BY <1>9, <2>1 DEF SyncFails, TypeOK, logVars, tabVars
<1>10. CASE Rollback
  BY <1>10 DEF Rollback, TypeOK, logVars, tabVars
<1>11. CASE RewindFirst
  <2> DEFINE e == roster[1]
  <2>1. e.t \in Tables /\ e.lsn \in Nat
    BY <1>11, RosterType DEF RewindFirst
  <2>2. SubSeq(log[e.t], 1, e.lsn) \in Seq(Record)
    <3>1. e.lsn <= Len(log[e.t])
      BY <1>11, RosterType DEF RewindFirst, RosterMarksTail, MarksTail
    <3> QED BY <2>1, <3>1, LogType, PrefixProperties
  <2>3. Tail(roster) \in Seq(Entry)
    BY <1>11, RosterType, HeadTailProperties DEF RewindFirst
  <2> QED BY <1>11, <2>1, <2>2, <2>3 DEF RewindFirst, TypeOK, tabVars, Entry
<1>12. CASE Discarded
  BY <1>12 DEF Discarded, TypeOK, logVars, tabVars
<1>13. ASSUME NEW t \in Tables, Roll(t) \/ CommitFold(t)
       PROVE  TypeOK'
  <2>0. /\ RollLog(t) /\ UNCHANGED <<log, wm, parts, mem, nextSeq, mode, faults>>
        /\ UNCHANGED <<cur, status, foot>> /\ fold' = {t}
    BY <1>13 DEF Roll, CommitFold, RollLog, tabVars, txVars
  <2>5. /\ roster' \in Seq(Entry) /\ dark' \in SUBSET Tables
        /\ phase' \in {"none", "open", "barrier", "marked", "discard", "folding"}
    <3>1. CASE Roll(t)
      BY <3>1, RosterType DEF Roll, txVars, TypeOK
    <3>2. CASE CommitFold(t)
      <4>1. << >> \in Seq(Entry)
        BY EmptySeq
      <4> QED BY <3>2, <4>1 DEF CommitFold
    <3> QED BY <1>13, <3>1, <3>2
  <2>1. DecisionsOf(t) \subseteq Nat
    BY LogType, ZenonT(30) DEF DecisionsOf, Active, TypeOK
  <2>2. Len(log[t]) \in Nat /\ nextSeq[t] \in Nat
    BY LogType DEF TypeOK
  <2>3. CASE UNCHANGED <<origin, carried, hseq, synced>>
    BY <2>0, <2>3, <2>5 DEF TypeOK, Entry
  <2>4. ASSUME NEW K \in SUBSET DecisionsOf(t),
               /\ origin' = [origin EXCEPT ![t] = Len(log[t])]
               /\ carried' = [carried EXCEPT ![t] = K]
               /\ hseq' = [hseq EXCEPT ![t] = nextSeq[t]]
               /\ synced' = [synced EXCEPT ![t] = Len(log[t])]
        PROVE  TypeOK'
    <3>1. /\ origin' \in [Tables -> Nat] /\ hseq' \in [Tables -> Nat]
          /\ synced' \in [Tables -> Nat] /\ carried' \in [Tables -> SUBSET Nat]
      BY <2>1, <2>2, <2>4 DEF TypeOK
    <3> QED BY <2>0, <2>5, <3>1 DEF TypeOK, Entry
  <2> QED BY <2>0, <2>3, <2>4, RollProperties
<1>14. ASSUME NEW t \in Tables, CommitTable(t)
       PROVE  TypeOK'
  <2>1. /\ wm' \in [Tables -> Nat]
        /\ mem' \in [Tables -> SUBSET Nat] /\ parts' \in [Tables -> SUBSET Nat]
    BY <1>0, <1>14 DEF CommitTable, TypeOK
  <2>2. status' \in [Txs -> {"idle", "active", "committed", "aborted"}]
    BY <1>14 DEF CommitTable, TypeOK
  <2> QED BY <1>14, <2>1, <2>2 DEF CommitTable, TypeOK, logVars
<1>15. CASE Kill
  BY <1>15, EmptySeq DEF Kill, Crash, TypeOK, tabVars
<1>16. CASE PowerLoss
  <2>1. PICK n \in [Tables -> 0 .. MaxLog] :
          /\ \A t \in Tables : synced[t] <= n[t] /\ n[t] <= Len(log[t])
          /\ log' = [t \in Tables |-> SubSeq(log[t], 1, n[t])]
          /\ synced' = n
    BY <1>16 DEF PowerLoss
  <2>2. \A t \in Tables : SubSeq(log[t], 1, n[t]) \in Seq(Record)
    BY <2>1, LogType, PrefixProperties
  <2> QED BY <1>16, <2>1, <2>2, EmptySeq DEF PowerLoss, Crash, TypeOK, tabVars
<1>17. CASE Recover
  <2>1. \A t \in Tables : ScanSeq(t) \in Nat
    BY ScanSeqAbove
  <2>2. \A t \in Tables : Replay(t) \subseteq Nat
    BY LogType DEF Replay, TypeOK
  <2> QED BY <1>17, <2>1, <2>2 DEF Recover, TypeOK, logVars
<1>18. CASE UNCHANGED vars
  BY <1>18 DEF vars, logVars, tabVars, txVars, TypeOK
<1>20. CASE DropHandles
  <2>1. \A t \in Tables : ScanSeq(t) \in Nat
    BY ScanSeqAbove
  <2> QED BY <1>20, <2>1 DEF DropHandles, logVars, tabVars, txVars, TypeOK
<1> QED
  BY <1>1, <1>2, <1>3, <1>4, <1>5, <1>6, <1>7, <1>8, <1>9, <1>10, <1>11, <1>12,
     <1>13, <1>14, <1>15, <1>16, <1>17, <1>18, <1>19, <1>20 DEF Next

-----------------------------------------------------------------------------
(* What the actions that change a log do to it.                             *)

\* Session::prepare appends one prepare to every log but the coordinator's.
LEMMA PrepareAllProperties ==
  ASSUME TypeOK, PrepareAll
  PROVE  /\ roster # << >> /\ Coord \in Tables /\ CoordSeq \in Nat
         /\ \A t \in Tables : ~(Enlisted(t) /\ t # Coord) => log'[t] = log[t]
         /\ \A t \in Tables : Enlisted(t) /\ t # Coord =>
              /\ Len(log'[t]) = Len(log[t]) + 1
              /\ \A i \in 1 .. Len(log[t]) : log'[t][i] = log[t][i]
              /\ log'[t][Len(log[t]) + 1] =
                   [tag |-> "prepare", seq |-> SeqOf(t), tx |-> cur,
                    coord |-> Coord, cseq |-> CoordSeq]
<1>1. roster # << >> /\ Len(roster) \in 1 .. Len(roster)
  BY RosterType, EmptySeq DEF PrepareAll
<1>2. Coord \in Tables /\ CoordSeq \in Nat
  BY <1>1, RosterType DEF Coord, CoordSeq
<1>3. \A t \in Tables : ~(Enlisted(t) /\ t # Coord) => log'[t] = log[t]
  BY DEF PrepareAll
<1>4. ASSUME NEW t \in Tables, Enlisted(t), t # Coord
      PROVE  /\ Len(log'[t]) = Len(log[t]) + 1
             /\ \A i \in 1 .. Len(log[t]) : log'[t][i] = log[t][i]
             /\ log'[t][Len(log[t]) + 1] =
                  [tag |-> "prepare", seq |-> SeqOf(t), tx |-> cur,
                   coord |-> Coord, cseq |-> CoordSeq]
  <2> DEFINE r == [tag |-> "prepare", seq |-> SeqOf(t), tx |-> cur,
                   coord |-> Coord, cseq |-> CoordSeq]
  <2>1. SeqOf(t) \in Nat
    BY <1>4, RosterType, SeqOfEntry
  <2>0. cur \in Nat
    BY TxnAssumption DEF TypeOK
  <2>2. r \in Record
    BY <1>2, <2>0, <2>1 DEF Record
  <2>3. log'[t] = Append(log[t], r)
    BY <1>4 DEF PrepareAll
  <2> HIDE DEF r
  <2>4. /\ Len(log'[t]) = Len(log[t]) + 1
        /\ \A i \in 1 .. Len(log[t]) : log'[t][i] = log[t][i]
        /\ log'[t][Len(log[t]) + 1] = r
    BY <2>2, <2>3, LogType, AppendProperties
  <2> QED BY <2>4 DEF r
<1> QED BY <1>1, <1>2, <1>3, <1>4

\* Wal::decide or commit appends one mark to the coordinator's log.
LEMMA MarkProperties ==
  ASSUME TypeOK, Mark
  PROVE  /\ Coord \in Tables /\ Enlisted(Coord)
         /\ \A u \in Tables : u # Coord => log'[u] = log[u]
         /\ Len(log'[Coord]) = Len(log[Coord]) + 1
         /\ \A i \in 1 .. Len(log[Coord]) : log'[Coord][i] = log[Coord][i]
         /\ log'[Coord][Len(log[Coord]) + 1].seq = CoordSeq
         /\ log'[Coord][Len(log[Coord]) + 1].tx = cur
         /\ log'[Coord][Len(log[Coord]) + 1].tag # "stage"
         /\ \/ log'[Coord][Len(log[Coord]) + 1].tag # "decide"
            \/ phase = "barrier" /\ Prepared
         /\ \E i \in 1 .. Len(roster) : roster[i].t = Coord /\ roster[i].seq = CoordSeq
<1>1. Len(roster) \in 1 .. Len(roster)
  BY RosterType DEF Mark
<1>0. cur \in Nat
  BY TxnAssumption DEF TypeOK
<1>2. Coord \in Tables /\ CoordSeq \in Nat
  BY <1>1, RosterType DEF Coord, CoordSeq
<1>3. PICK tag \in {"commit", "decide"} :
        /\ Push(Coord, Rec(tag, Coord, CoordSeq))
        /\ tag = "commit" \/ (phase = "barrier" /\ Prepared)
  BY DEF Mark
<1>4. Rec(tag, Coord, CoordSeq) \in Record
  BY <1>0, <1>2 DEF Rec, Record
<1>5. /\ \A u \in Tables : u # Coord => log'[u] = log[u]
      /\ Len(log'[Coord]) = Len(log[Coord]) + 1
      /\ \A i \in 1 .. Len(log[Coord]) : log'[Coord][i] = log[Coord][i]
      /\ log'[Coord][Len(log[Coord]) + 1] = Rec(tag, Coord, CoordSeq)
  BY <1>2, <1>3, <1>4, PushProperties
<1>6. Enlisted(Coord) /\ \E i \in 1 .. Len(roster) : roster[i].t = Coord /\ roster[i].seq = CoordSeq
  BY <1>1, RosterType DEF Enlisted, Coord, CoordSeq
<1>7. /\ Rec(tag, Coord, CoordSeq).seq = CoordSeq
      /\ Rec(tag, Coord, CoordSeq).tx = cur
      /\ Rec(tag, Coord, CoordSeq).tag = tag
  BY DEF Rec
<1> QED BY <1>2, <1>3, <1>5, <1>6, <1>7

\* Wal::rewind_to cuts the first log of the roster back to its mark.
LEMMA RewindProperties ==
  ASSUME TypeOK, RosterMarksTail, RewindFirst
  PROVE  LET e == roster[1]
         IN  /\ e.t \in Tables /\ e.lsn \in Nat /\ 1 \in 1 .. Len(roster)
             /\ \A u \in Tables : u # e.t => log'[u] = log[u] /\ synced'[u] = synced[u]
             /\ Len(log'[e.t]) = e.lsn /\ e.lsn <= Len(log[e.t])
             /\ \A i \in 1 .. e.lsn : log'[e.t][i] = log[e.t][i]
             /\ synced'[e.t] = IF e.lsn < Len(log[e.t]) THEN e.lsn ELSE synced[e.t]
             /\ Len(roster') = Len(roster) - 1
             /\ \A i \in 1 .. Len(roster') : roster'[i] = roster[i + 1]
<1> DEFINE e == roster[1]
<1>1. 1 \in 1 .. Len(roster)
  BY RosterType DEF RewindFirst
<1>2. e.t \in Tables /\ e.lsn \in Nat /\ e.lsn <= Len(log[e.t])
  BY <1>1, RosterType DEF RosterMarksTail, MarksTail
<1>3. /\ log' = [log EXCEPT ![e.t] = SubSeq(@, 1, e.lsn)]
      /\ synced' = [synced EXCEPT ![e.t] = IF e.lsn < Len(log[e.t]) THEN e.lsn ELSE @]
      /\ roster' = Tail(roster) /\ roster # << >>
  BY DEF RewindFirst
<1>4. log'[e.t] = SubSeq(log[e.t], 1, e.lsn)
  BY <1>2, <1>3 DEF TypeOK
<1>5. Len(log'[e.t]) = e.lsn /\ \A i \in 1 .. e.lsn : log'[e.t][i] = log[e.t][i]
  BY <1>2, <1>4, LogType, PrefixProperties
<1>6. /\ Len(roster') = Len(roster) - 1
      /\ \A i \in 1 .. Len(roster') : roster'[i] = roster[i + 1]
  BY <1>3, RosterType, HeadTailProperties
<1>7. /\ \A u \in Tables : u # e.t => log'[u] = log[u] /\ synced'[u] = synced[u]
      /\ synced'[e.t] = IF e.lsn < Len(log[e.t]) THEN e.lsn ELSE synced[e.t]
  BY <1>2, <1>3 DEF TypeOK
<1> QED BY <1>1, <1>2, <1>5, <1>6, <1>7

\* A power loss keeps at least the synced prefix of every log.
LEMMA PowerLossProperties ==
  ASSUME TypeOK, PowerLoss
  PROVE  \A t \in Tables :
           /\ Len(log'[t]) = synced'[t] /\ synced'[t] \in Nat
           /\ synced[t] <= synced'[t] /\ synced'[t] <= Len(log[t])
           /\ \A i \in 1 .. synced'[t] : log'[t][i] = log[t][i]
<1>1. PICK n \in [Tables -> 0 .. MaxLog] :
        /\ \A t \in Tables : synced[t] <= n[t] /\ n[t] <= Len(log[t])
        /\ log' = [t \in Tables |-> SubSeq(log[t], 1, n[t])]
        /\ synced' = n
  BY DEF PowerLoss
<1> TAKE t \in Tables
<1>2. n[t] \in Nat /\ log'[t] = SubSeq(log[t], 1, n[t])
  BY <1>1, TxnAssumption
<1> QED BY <1>1, <1>2, LogType, PrefixProperties

-----------------------------------------------------------------------------
(* Staging numbers: none on a log is at or above the next to be handed out. *)

\* Empty logs hold no numbers.
LEMMA SeqInit == Init => SeqsBelowNext
BY EmptySeq DEF Init, SeqsBelowNext

\* A number is handed out once: the counter only moves up.
LEMMA SeqStep ==
  ASSUME TypeOK, SeqsBelowNext, RosterMarksTail, [Next]_vars
  PROVE  SeqsBelowNext'
<1>0. \A t \in Tables :
        /\ origin[t] \in Nat /\ synced[t] \in Nat /\ hseq[t] \in Nat
        /\ nextSeq[t] \in Nat /\ carried[t] \subseteq Nat /\ Len(log[t]) \in Nat
        /\ \A i \in 1 .. Len(log[t]) : log[t][i].seq \in Nat
  BY LogType DEF TypeOK
<1>1. ASSUME NEW t \in Tables, Write(t)
      PROVE  SeqsBelowNext'
  <2> DEFINE s == IF Enlisted(t) THEN SeqOf(t) ELSE nextSeq[t]
  <2>1. EnlistIn(t) /\ Push(t, Rec("stage", t, s)) /\ UNCHANGED <<origin, carried, hseq, synced>>
    BY <1>1 DEF Write
  <2>2. /\ s \in Nat /\ s < nextSeq'[t]
    <3>1. CASE Enlisted(t)
      <4>1. SeqOf(t) \in Nat /\ SeqOf(t) < nextSeq[t]
        BY <3>1, RosterType, SeqOfEntry DEF RosterMarksTail, MarksTail
      <4> QED BY <2>1, <3>1, <4>1, EnlistProperties
    <3>2. CASE ~Enlisted(t)
      <4>1. nextSeq' = [nextSeq EXCEPT ![t] = @ + 1] /\ nextSeq \in [Tables -> Nat]
        BY <2>1, <3>2 DEF EnlistIn, TypeOK
      <4> QED BY <3>2, <4>1
    <3> QED BY <3>1, <3>2
  <2>3. Rec("stage", t, s) \in Record /\ Rec("stage", t, s).seq = s
    BY <2>2, TxnAssumption DEF Rec, Record, TypeOK
  <2> HIDE DEF s
  <2>4. /\ \A u \in Tables : u # t => log'[u] = log[u]
        /\ Len(log'[t]) = Len(log[t]) + 1
        /\ \A i \in 1 .. Len(log[t]) : log'[t][i] = log[t][i]
        /\ log'[t][Len(log[t]) + 1].seq = s
    BY <2>1, <2>3, PushProperties
  <2>5. \A u \in Tables : nextSeq[u] <= nextSeq'[u] /\ nextSeq'[u] \in Nat
    BY <2>1, EnlistProperties
  <2> SUFFICES ASSUME NEW u \in Tables
               PROVE  /\ origin[u] <= synced[u] /\ synced[u] <= Len(log'[u])
                      /\ hseq[u] <= nextSeq'[u]
                      /\ \A x \in carried[u] : x < nextSeq'[u]
                      /\ \A i \in 1 .. Len(log'[u]) :
                           /\ log'[u][i].seq < nextSeq'[u]
                           /\ i <= origin[u] => log'[u][i].seq < hseq[u]
    BY <2>1 DEF SeqsBelowNext
  <2>6. CASE u # t
    <3>1. log'[u] = log[u] /\ nextSeq[u] <= nextSeq'[u] /\ nextSeq'[u] \in Nat
      BY <2>4, <2>5, <2>6
    <3>2. /\ origin[u] <= synced[u] /\ synced[u] <= Len(log[u])
          /\ hseq[u] <= nextSeq[u]
          /\ \A x \in carried[u] : x < nextSeq[u]
          /\ \A i \in 1 .. Len(log[u]) :
               /\ log[u][i].seq < nextSeq[u]
               /\ i <= origin[u] => log[u][i].seq < hseq[u]
      BY <1>0 DEF SeqsBelowNext
    <3>3. /\ hseq[u] \in Nat /\ nextSeq[u] \in Nat /\ carried[u] \subseteq Nat
          /\ \A i \in 1 .. Len(log[u]) : log[u][i].seq \in Nat
      BY <1>0, LogType DEF TypeOK
    <3> QED
      BY <3>1, <3>2, <3>3, SMTT(20)
  <2>7. CASE u = t
    <3>1. ASSUME NEW i \in 1 .. Len(log'[u])
          PROVE  /\ log'[u][i].seq < nextSeq'[u]
                 /\ i <= origin[u] => log'[u][i].seq < hseq[u]
      <4>1. CASE i = Len(log[u]) + 1
        BY <1>0, <2>2, <2>4, <2>7, <4>1 DEF SeqsBelowNext
      <4>2. CASE i \in 1 .. Len(log[u])
        <5>1. log'[u][i] = log[u][i] /\ log[u][i].seq \in Nat
          BY <1>0, <2>4, <2>7, <4>2
        <5>2. /\ log[u][i].seq < nextSeq[u]
              /\ i <= origin[u] => log[u][i].seq < hseq[u]
          BY <4>2 DEF SeqsBelowNext
        <5>3. nextSeq[u] \in Nat /\ nextSeq'[u] \in Nat /\ nextSeq[u] <= nextSeq'[u]
          BY <1>0, <2>5
        <5> QED BY <5>1, <5>2, <5>3
      <4> QED BY <1>0, <2>4, <2>7, <4>1, <4>2
    <3>2. /\ origin[u] <= synced[u] /\ synced[u] <= Len(log'[u])
          /\ hseq[u] <= nextSeq'[u]
      BY <1>0, <2>4, <2>5, <2>7 DEF SeqsBelowNext
    <3>3. \A x \in carried[u] : x < nextSeq'[u]
      BY <1>0, <2>5 DEF SeqsBelowNext
    <3> QED BY <3>1, <3>2, <3>3
  <2> QED BY <2>6, <2>7
<1>2. ASSUME NEW t \in Tables, EmptySweep(t) \/ DarkSweep(t)
      PROVE  SeqsBelowNext'
  <2>1. \A u \in Tables : nextSeq[u] <= nextSeq'[u] /\ nextSeq'[u] \in Nat
    BY <1>2, EnlistProperties DEF EmptySweep, DarkSweep
  <2>2. UNCHANGED <<log, origin, carried, hseq, synced>>
    BY <1>2 DEF EmptySweep, DarkSweep, logVars
  <2> QED BY <1>0, <2>1, <2>2 DEF SeqsBelowNext
<1>3. CASE PrepareAll
  <2>1. UNCHANGED <<origin, carried, hseq, synced, nextSeq>>
    BY <1>3 DEF PrepareAll
  <2> SUFFICES ASSUME NEW u \in Tables
               PROVE  /\ synced[u] <= Len(log'[u])
                      /\ \A i \in 1 .. Len(log'[u]) :
                           /\ log'[u][i].seq < nextSeq[u]
                           /\ i <= origin[u] => log'[u][i].seq < hseq[u]
    BY <2>1 DEF SeqsBelowNext
  <2>2. CASE ~(Enlisted(u) /\ u # Coord)
    BY <1>3, <2>2, PrepareAllProperties DEF SeqsBelowNext
  <2>3. CASE Enlisted(u) /\ u # Coord
    <3>1. SeqOf(u) < nextSeq[u]
      BY <2>3, RosterType, SeqOfEntry DEF RosterMarksTail, MarksTail
    <3>2. /\ Len(log'[u]) = Len(log[u]) + 1
          /\ \A i \in 1 .. Len(log[u]) : log'[u][i] = log[u][i]
          /\ log'[u][Len(log[u]) + 1] =
               [tag |-> "prepare", seq |-> SeqOf(u), tx |-> cur,
                coord |-> Coord, cseq |-> CoordSeq]
      BY <1>3, <2>3, PrepareAllProperties
    <3>3. log'[u][Len(log[u]) + 1].seq = SeqOf(u)
      BY <3>2
    <3>4. ASSUME NEW i \in 1 .. Len(log'[u])
          PROVE  /\ log'[u][i].seq < nextSeq[u]
                 /\ i <= origin[u] => log'[u][i].seq < hseq[u]
      <4>1. CASE i = Len(log[u]) + 1
        BY <1>0, <3>1, <3>3, <4>1 DEF SeqsBelowNext
      <4>2. CASE i \in 1 .. Len(log[u])
        BY <3>2, <4>2 DEF SeqsBelowNext
      <4> QED BY <1>0, <3>2, <4>1, <4>2
    <3>5. synced[u] <= Len(log'[u])
      BY <1>0, <3>2 DEF SeqsBelowNext
    <3> QED BY <3>4, <3>5
  <2> QED BY <2>2, <2>3
<1>4. ASSUME NEW t \in Tables, BarrierOne(t)
      PROVE  SeqsBelowNext'
  <2>1. UNCHANGED <<log, origin, carried, hseq, nextSeq>>
    BY <1>4 DEF BarrierOne
  <2>2. \A u \in Tables : synced'[u] = IF u = t THEN Len(log[u]) ELSE synced[u]
    BY <1>4 DEF BarrierOne, TypeOK
  <2>3. \A u \in Tables : origin[u] <= synced'[u] /\ synced'[u] <= Len(log[u])
    BY <1>0, <2>2 DEF SeqsBelowNext
  <2> QED BY <2>1, <2>3 DEF SeqsBelowNext
<1>5. CASE Mark
  <2>1. UNCHANGED <<origin, carried, hseq, synced, nextSeq>>
    BY <1>5 DEF Mark
  <2>2. CoordSeq < nextSeq[Coord]
    BY <1>5, RosterType, MarkProperties DEF RosterMarksTail, MarksTail
  <2> SUFFICES ASSUME NEW u \in Tables
               PROVE  /\ synced[u] <= Len(log'[u])
                      /\ \A i \in 1 .. Len(log'[u]) :
                           /\ log'[u][i].seq < nextSeq[u]
                           /\ i <= origin[u] => log'[u][i].seq < hseq[u]
    BY <2>1 DEF SeqsBelowNext
  <2>3. CASE u # Coord
    BY <1>5, <2>3, MarkProperties DEF SeqsBelowNext
  <2>4. CASE u = Coord
    <3>1. /\ Len(log'[u]) = Len(log[u]) + 1
          /\ \A i \in 1 .. Len(log[u]) : log'[u][i] = log[u][i]
          /\ log'[u][Len(log[u]) + 1].seq = CoordSeq
      BY <1>5, <2>4, MarkProperties
    <3>2. ASSUME NEW i \in 1 .. Len(log'[u])
          PROVE  /\ log'[u][i].seq < nextSeq[u]
                 /\ i <= origin[u] => log'[u][i].seq < hseq[u]
      <4>1. CASE i = Len(log[u]) + 1
        BY <1>0, <2>2, <2>4, <3>1, <4>1 DEF SeqsBelowNext
      <4>2. CASE i \in 1 .. Len(log[u])
        BY <3>1, <4>2 DEF SeqsBelowNext
      <4> QED BY <1>0, <3>1, <4>1, <4>2
    <3>3. synced[u] <= Len(log'[u])
      BY <1>0, <3>1 DEF SeqsBelowNext
    <3> QED BY <3>2, <3>3
  <2> QED BY <2>3, <2>4
<1>6. CASE SyncMark
  BY <1>0, <1>6 DEF SyncMark, SeqsBelowNext, TypeOK
<1>7. CASE RewindFirst
  <2> DEFINE e == roster[1]
  <2>1. UNCHANGED <<origin, carried, hseq, nextSeq>>
    BY <1>7 DEF RewindFirst
  <2>2. origin[e.t] <= e.lsn
    BY <1>7, RewindProperties DEF RosterMarksTail, MarksTail
  <2> SUFFICES ASSUME NEW u \in Tables
               PROVE  /\ origin[u] <= synced'[u] /\ synced'[u] <= Len(log'[u])
                      /\ \A i \in 1 .. Len(log'[u]) :
                           /\ log'[u][i].seq < nextSeq[u]
                           /\ i <= origin[u] => log'[u][i].seq < hseq[u]
    BY <2>1 DEF SeqsBelowNext
  <2>3. CASE u # e.t
    BY <1>7, <2>3, RewindProperties DEF SeqsBelowNext
  <2>4. CASE u = e.t
    <3>1. /\ Len(log'[u]) = e.lsn /\ e.lsn <= Len(log[u]) /\ e.lsn \in Nat
          /\ \A i \in 1 .. e.lsn : log'[u][i] = log[u][i]
          /\ synced'[u] = IF e.lsn < Len(log[u]) THEN e.lsn ELSE synced[u]
      BY <1>7, <2>4, RewindProperties
    <3>2. origin[u] <= e.lsn
      BY <2>2, <2>4
    <3> HIDE DEF e
    <3>3. origin[u] <= synced'[u] /\ synced'[u] <= Len(log'[u])
      BY <1>0, <3>1, <3>2 DEF SeqsBelowNext
    <3>4. ASSUME NEW i \in 1 .. Len(log'[u])
          PROVE  /\ log'[u][i].seq < nextSeq[u]
                 /\ i <= origin[u] => log'[u][i].seq < hseq[u]
      <4>1. i \in 1 .. Len(log[u]) /\ log'[u][i] = log[u][i]
        BY <1>0, <3>1, <3>4
      <4> QED BY <4>1 DEF SeqsBelowNext
    <3> QED BY <3>3, <3>4
  <2> QED BY <2>3, <2>4
<1>8. ASSUME NEW t \in Tables, Roll(t) \/ CommitFold(t)
      PROVE  SeqsBelowNext'
  <2>1. RollLog(t) /\ UNCHANGED <<log, nextSeq>>
    BY <1>8 DEF Roll, CommitFold, RollLog
  <2>2. CASE UNCHANGED <<origin, carried, hseq, synced>>
    BY <2>1, <2>2 DEF SeqsBelowNext
  <2>3. ASSUME NEW K \in SUBSET DecisionsOf(t),
               /\ origin' = [origin EXCEPT ![t] = Len(log[t])]
               /\ carried' = [carried EXCEPT ![t] = K]
               /\ hseq' = [hseq EXCEPT ![t] = nextSeq[t]]
               /\ synced' = [synced EXCEPT ![t] = Len(log[t])]
        PROVE  SeqsBelowNext'
    <3>1. \A x \in K : x < nextSeq[t]
      BY <1>0, LogType DEF DecisionsOf, Active, SeqsBelowNext
    <3> QED BY <1>0, <2>1, <2>3, <3>1, SMTT(20) DEF SeqsBelowNext, TypeOK
  <2> QED BY <2>1, <2>2, <2>3, RollProperties
<1>9. CASE PowerLoss
  <2>1. UNCHANGED <<origin, carried, hseq, nextSeq>>
    BY <1>9 DEF PowerLoss, Crash
  <2> QED BY <1>0, <1>9, <2>1, PowerLossProperties DEF SeqsBelowNext
<1>10. CASE Recover \/ DropHandles
  <2>1. UNCHANGED <<log, origin, carried, hseq, synced>>
    BY <1>10 DEF Recover, DropHandles, logVars
  <2>2. \A u \in Tables : nextSeq'[u] = ScanSeq(u)
    BY <1>10 DEF Recover, DropHandles
  <2> SUFFICES ASSUME NEW u \in Tables
               PROVE  /\ hseq[u] <= nextSeq'[u]
                      /\ \A x \in carried[u] : x < nextSeq'[u]
                      /\ \A i \in 1 .. Len(log[u]) : log[u][i].seq < nextSeq'[u]
    BY <2>1 DEF SeqsBelowNext
  <2>3. /\ ScanSeq(u) \in Nat /\ hseq[u] <= ScanSeq(u)
        /\ \A x \in carried[u] : x < ScanSeq(u)
        /\ \A i \in 1 .. Len(log[u]) : i > origin[u] => log[u][i].seq < ScanSeq(u)
    BY ScanSeqAbove
  <2>4. \A i \in 1 .. Len(log[u]) : i <= origin[u] => log[u][i].seq < ScanSeq(u)
    BY <1>0, <2>3 DEF SeqsBelowNext
  <2> QED BY <1>0, <2>2, <2>3, <2>4
<1>11. CASE \/ Begin \/ CommitEmpty \/ SyncFails \/ Rollback \/ Discarded \/ Kill
            \/ UNCHANGED vars \/ \E t \in Tables : CommitTable(t)
  <2>1. UNCHANGED <<logVars, nextSeq>>
    BY <1>11 DEF Begin, CommitEmpty, SyncFails, Rollback, Discarded, Kill, Crash,
                 CommitTable, vars, logVars
  <2> QED BY <2>1 DEF logVars, SeqsBelowNext
<1> QED
  BY <1>1, <1>2, <1>3, <1>4, <1>5, <1>6, <1>7, <1>8, <1>9, <1>10, <1>11 DEF Next

-----------------------------------------------------------------------------
(* The roster: each entry's LSN is where the transaction's records begin.   *)

\* No transaction, no roster.
LEMMA RosterInit == Init => RosterMarksTail
BY EmptySeq DEF Init, RosterMarksTail

\* An append to a log by the running transaction keeps an entry's mark.
LEMMA MarkKept ==
  ASSUME TypeOK, NEW e \in Entry, MarksTail(e),
         origin' = origin, cur' = cur, nextSeq[e.t] <= nextSeq'[e.t],
         nextSeq'[e.t] \in Nat,
         \/ log'[e.t] = log[e.t]
         \/ /\ Len(log'[e.t]) = Len(log[e.t]) + 1
            /\ \A k \in 1 .. Len(log[e.t]) : log'[e.t][k] = log[e.t][k]
            /\ log'[e.t][Len(log[e.t]) + 1].tx = cur
  PROVE  MarksTail(e)'
<1>1. /\ e.t \in Tables /\ e.seq \in Nat /\ e.lsn \in Nat
      /\ nextSeq[e.t] \in Nat /\ origin[e.t] \in Nat
  BY DEF Entry, TypeOK
<1>2. Len(log[e.t]) \in Nat
  BY <1>1, LogType
<1>3. CASE log'[e.t] = log[e.t]
  BY <1>1, <1>3 DEF MarksTail
<1>4. CASE /\ Len(log'[e.t]) = Len(log[e.t]) + 1
           /\ \A k \in 1 .. Len(log[e.t]) : log'[e.t][k] = log[e.t][k]
           /\ log'[e.t][Len(log[e.t]) + 1].tx = cur
  <2>1. ASSUME NEW k \in 1 .. Len(log'[e.t])
        PROVE  log'[e.t][k].tx = cur <=> k > e.lsn
    <3>1. CASE k = Len(log[e.t]) + 1
      BY <1>1, <1>2, <1>4, <3>1 DEF MarksTail
    <3>2. CASE k \in 1 .. Len(log[e.t])
      BY <1>4, <3>2 DEF MarksTail
    <3> QED BY <1>2, <1>4, <3>1, <3>2
  <2>2. /\ e.seq < nextSeq'[e.t]
        /\ origin[e.t] <= e.lsn /\ e.lsn <= Len(log'[e.t])
    BY <1>1, <1>2, <1>4 DEF MarksTail
  <2> QED BY <2>1, <2>2 DEF MarksTail
<1> QED BY <1>3, <1>4

\* Enlisting a table keeps the entries apart and marks the new one's tail.
LEMMA EnlistKeepsRoster ==
  ASSUME TypeOK, RosterMarksTail, NEW t \in Tables, EnlistIn(t),
         mode = "up", phase = "open",
         UNCHANGED <<origin, cur, phase, mode, fold>>,
         \A u \in Tables : u # t => log'[u] = log[u],
         \/ log'[t] = log[t]
         \/ /\ Len(log'[t]) = Len(log[t]) + 1
            /\ \A k \in 1 .. Len(log[t]) : log'[t][k] = log[t][k]
            /\ log'[t][Len(log[t]) + 1].tx = cur,
         ~Enlisted(t) => \A k \in 1 .. Len(log[t]) : log[t][k].tx # cur,
         SeqsBelowNext
  PROVE  RosterMarksTail'
<1>1. /\ \A u \in Tables : nextSeq[u] <= nextSeq'[u] /\ nextSeq'[u] \in Nat
      /\ \A i \in 1 .. Len(roster) : roster[i] \in Entry /\ roster[i].t \in Tables
      /\ Len(roster) \in Nat
  BY EnlistProperties, RosterType
<1>2. ASSUME NEW i \in 1 .. Len(roster)
      PROVE  MarksTail(roster[i])'
  <2>1. PICK e \in Entry : e = roster[i]
    BY <1>1
  <2>2. e.t \in Tables /\ MarksTail(e)
    BY <1>1, <2>1 DEF RosterMarksTail
  <2>3. roster'[i] = e
    BY <2>1, EnlistProperties
  <2>4. MarksTail(e)'
    BY <1>1, <2>2, MarkKept
  <2> QED BY <2>3, <2>4 DEF MarksTail
<1>3. CASE Enlisted(t)
  <2>1. roster' = roster
    BY <1>3, EnlistProperties
  <2> QED BY <1>2, <2>1 DEF RosterMarksTail
<1>4. CASE ~Enlisted(t)
  <2>1. /\ Len(roster') = Len(roster) + 1
        /\ \A i \in 1 .. Len(roster) : roster'[i] = roster[i]
        /\ roster'[Len(roster) + 1] = [t |-> t, seq |-> nextSeq[t], lsn |-> Len(log[t])]
        /\ nextSeq'[t] = nextSeq[t] + 1 /\ nextSeq[t] \in Nat
    BY <1>4, EnlistProperties DEF TypeOK
  <2>2. PICK e \in Entry : e = [t |-> t, seq |-> nextSeq[t], lsn |-> Len(log[t])]
    BY <2>1, LogType DEF Entry
  <2>3. e.t = t /\ e.seq = nextSeq[t] /\ e.lsn = Len(log[t])
    BY <2>2
  <2>4. /\ Len(log[t]) \in Nat /\ origin[t] \in Nat /\ synced[t] \in Nat
        /\ origin[t] <= Len(log[t])
    BY LogType DEF SeqsBelowNext, TypeOK
  <2>5. MarksTail(e)'
    <3>1. \A k \in 1 .. Len(log'[t]) : log'[t][k].tx = cur <=> k > Len(log[t])
      BY <1>4, <2>4
    <3> QED BY <2>1, <2>3, <2>4, <3>1 DEF MarksTail
  <2>6. \A i \in 1 .. Len(roster') : MarksTail(roster[i])'
    <3> TAKE i \in 1 .. Len(roster')
    <3>1. CASE i = Len(roster) + 1
      BY <2>1, <2>2, <2>5, <3>1 DEF MarksTail
    <3>2. CASE i \in 1 .. Len(roster)
      BY <1>2, <3>2
    <3> QED BY <1>1, <2>1, <3>1, <3>2
  <2>7. \A i \in 1 .. Len(roster) : roster[i].t # t
    BY <1>4, RosterType DEF Enlisted
  <2>8. roster'[Len(roster) + 1].t = t
    BY <2>1
  <2>9. \A i, j \in 1 .. Len(roster') : i # j => roster'[i].t # roster'[j].t
    BY <1>1, <2>1, <2>7, <2>8 DEF RosterMarksTail
  <2> QED BY <2>6, <2>9 DEF RosterMarksTail
<1> QED BY <1>3, <1>4

\* What lies behind a roster mark is the running transaction's.
LEMMA RosterStep ==
  ASSUME TypeOK, SeqsBelowNext, RosterMarksTail, OwnRecords, [Next]_vars
  PROVE  RosterMarksTail'
<1>1. ASSUME roster' = << >>, mode' = "down" => phase' = "none",
             fold' # {} => phase' \in {"none", "folding"}
      PROVE  RosterMarksTail'
  BY <1>1, EmptySeq DEF RosterMarksTail
<1>2. ASSUME NEW t \in Tables, Write(t)
      PROVE  RosterMarksTail'
  <2> DEFINE r == Rec("stage", t, IF Enlisted(t) THEN SeqOf(t) ELSE nextSeq[t])
  <2>1. Push(t, r) /\ EnlistIn(t) /\ phase = "open" /\ mode = "up"
    BY <1>2 DEF Write
  <2>2. r \in Record
    <3>1. Enlisted(t) => SeqOf(t) \in Nat
      BY RosterType, SeqOfEntry
    <3> QED BY <3>1, TxnAssumption DEF Rec, Record, TypeOK
  <2>3. r.tx = cur
    BY DEF Rec
  <2> HIDE DEF r
  <2>4. /\ \A u \in Tables : u # t => log'[u] = log[u]
        /\ Len(log'[t]) = Len(log[t]) + 1
        /\ \A i \in 1 .. Len(log[t]) : log'[t][i] = log[t][i]
        /\ log'[t][Len(log[t]) + 1].tx = cur
    BY <2>1, <2>2, <2>3, PushProperties
  <2>5. \A k \in 1 .. Len(log[t]) : log[t][k].tx # cur
    BY <1>2, LogType DEF Write
  <2>6. UNCHANGED <<origin, cur, phase, mode, fold>>
    BY <1>2 DEF Write
  <2> QED BY <2>1, <2>4, <2>5, <2>6, EnlistKeepsRoster
<1>3. ASSUME NEW t \in Tables, EmptySweep(t)
      PROVE  RosterMarksTail'
  <2>1. \A k \in 1 .. Len(log[t]) : log[t][k].tx # cur
    BY <1>3 DEF EmptySweep, OwnRecords
  <2> QED BY <1>3, <2>1, EnlistKeepsRoster DEF EmptySweep, logVars
<1>10. ASSUME NEW t \in Tables, DarkSweep(t)
       PROVE  RosterMarksTail'
  <2>1. ~Enlisted(t) => \A k \in 1 .. Len(log[t]) : log[t][k].tx # cur
    BY <1>10 DEF DarkSweep, OwnRecords
  <2>2. /\ EnlistIn(t) /\ mode = "up" /\ phase = "open" /\ log' = log
        /\ UNCHANGED <<origin, cur, phase, mode, fold>>
    BY <1>10 DEF DarkSweep, logVars
  <2> QED BY <2>1, <2>2, EnlistKeepsRoster
<1>4. ASSUME UNCHANGED <<origin, cur, nextSeq, roster, mode, fold>>, mode = "up",
             phase \notin {"none", "folding"}, phase' \notin {"none", "folding"},
             \A i \in 1 .. Len(roster) : LET u == roster[i].t IN
               \/ log'[u] = log[u]
               \/ /\ Len(log'[u]) = Len(log[u]) + 1
                  /\ \A k \in 1 .. Len(log[u]) : log'[u][k] = log[u][k]
                  /\ log'[u][Len(log[u]) + 1].tx = cur
      PROVE  RosterMarksTail'
  <2>1. ASSUME NEW i \in 1 .. Len(roster)
        PROVE  MarksTail(roster[i])'
    <3>1. PICK e \in Entry : e = roster[i]
      BY RosterType
    <3>2. e.t \in Tables /\ nextSeq[e.t] \in Nat /\ MarksTail(e)
      BY <3>1, RosterType DEF RosterMarksTail, TypeOK
    <3>0. /\ UNCHANGED <<origin, cur, nextSeq>>
          /\ \/ log'[e.t] = log[e.t]
             \/ /\ Len(log'[e.t]) = Len(log[e.t]) + 1
                /\ \A k \in 1 .. Len(log[e.t]) : log'[e.t][k] = log[e.t][k]
                /\ log'[e.t][Len(log[e.t]) + 1].tx = cur
      BY <1>4, <3>1
    <3>3. MarksTail(e)'
      BY <3>0, <3>2, MarkKept
    <3> QED BY <1>4, <3>1, <3>3 DEF MarksTail
  <2> QED BY <1>4, <2>1 DEF RosterMarksTail
<1>5. CASE PrepareAll
  <2>0. \A u : [tag |-> "prepare", seq |-> SeqOf(u), tx |-> cur,
                coord |-> Coord, cseq |-> CoordSeq].tx = cur
    OBVIOUS
  <2>1. \A u \in Tables :
          \/ log'[u] = log[u]
          \/ /\ Len(log'[u]) = Len(log[u]) + 1
             /\ \A k \in 1 .. Len(log[u]) : log'[u][k] = log[u][k]
             /\ log'[u][Len(log[u]) + 1].tx = cur
    BY <1>5, <2>0, PrepareAllProperties, ZenonT(30)
  <2> QED BY <1>4, <1>5, <2>1, RosterType DEF PrepareAll
<1>6. CASE Mark
  <2>1. \A u \in Tables :
          \/ log'[u] = log[u]
          \/ /\ Len(log'[u]) = Len(log[u]) + 1
             /\ \A k \in 1 .. Len(log[u]) : log'[u][k] = log[u][k]
             /\ log'[u][Len(log[u]) + 1].tx = cur
    BY <1>6, MarkProperties
  <2> QED BY <1>4, <1>6, <2>1, RosterType DEF Mark
<1>7. CASE RewindFirst
  <2>1. ASSUME NEW i \in 1 .. Len(roster')
        PROVE  MarksTail(roster[i])'
    <3>0. /\ i + 1 \in 1 .. Len(roster) /\ i + 1 # 1 /\ 1 \in 1 .. Len(roster)
          /\ roster'[i] = roster[i + 1]
      BY <1>7, RosterType, RewindProperties
    <3>1. PICK e \in Entry : e = roster[i + 1]
      BY <3>0, RosterType
    <3>2. /\ roster'[i] = e /\ MarksTail(e) /\ e.t \in Tables
          /\ e.t # roster[1].t
      BY <3>0, <3>1, RosterType DEF RosterMarksTail
    <3>3. log'[e.t] = log[e.t] /\ UNCHANGED <<origin, cur, nextSeq>>
      BY <1>7, <3>2, RewindProperties DEF RewindFirst
    <3>4. MarksTail(e)'
      BY <3>2, <3>3 DEF MarksTail
    <3> QED BY <3>2, <3>4 DEF MarksTail
  <2>2. \A i, j \in 1 .. Len(roster') : i # j => roster'[i].t # roster'[j].t
    <3>1. Len(roster') = Len(roster) - 1 /\ \A i \in 1 .. Len(roster') : roster'[i] = roster[i + 1]
      BY <1>7, RewindProperties
    <3>2. Len(roster) \in Nat
      BY RosterType
    <3> TAKE i, j \in 1 .. Len(roster')
    <3>3. i + 1 \in 1 .. Len(roster) /\ j + 1 \in 1 .. Len(roster) /\ (i # j => i + 1 # j + 1)
      BY <3>1, <3>2
    <3> QED BY <3>1, <3>3 DEF RosterMarksTail
  <2> QED BY <1>7, <2>1, <2>2 DEF RewindFirst, RosterMarksTail
<1>8. CASE Begin \/ CommitEmpty \/ Discarded \/ SyncMark \/ Kill \/ PowerLoss \/ Recover
           \/ DropHandles \/ \E t \in Tables : Roll(t) \/ CommitFold(t) \/ CommitTable(t)
  BY <1>1, <1>8 DEF Begin, CommitEmpty, Discarded, SyncMark, Kill, PowerLoss, Crash,
                    Recover, DropHandles, Roll, CommitFold, CommitTable, RollLog, Idle,
                    RosterMarksTail, txVars
<1>9. CASE \/ SyncFails \/ Rollback \/ UNCHANGED vars
           \/ \E t \in Tables : BarrierOne(t)
  <2>1. UNCHANGED <<log, origin, cur, nextSeq, roster, mode, fold>>
    BY <1>9 DEF SyncFails, Rollback, BarrierOne, vars, txVars, logVars
  <2>2. /\ mode' = "down" => phase' = "none"
        /\ fold' # {} => phase' \in {"none", "folding"}
    BY <1>9 DEF SyncFails, FailsAt, Rollback, BarrierOne, vars, txVars, RosterMarksTail
  <2>3. phase' \in {"none", "folding"} => roster' = << >>
    BY <1>9 DEF SyncFails, Rollback, BarrierOne, vars, txVars, RosterMarksTail
  <2> QED BY <2>1, <2>2, <2>3 DEF RosterMarksTail, MarksTail
<1> QED
  BY <1>2, <1>3, <1>5, <1>6, <1>7, <1>8, <1>9, <1>10 DEF Next

-----------------------------------------------------------------------------
(* Whose records the logs hold.                                             *)

\* Empty logs hold nobody's records.
LEMMA OwnInit == Init => OwnRecords
BY EmptySeq DEF Init, OwnRecords

\* A step that only lets the running transaction append to logs it enlisted.
LEMMA OwnAppend ==
  ASSUME TypeOK, OwnRecords, phase # "none", cur' = cur,
         \A x \in Txs : x > cur => foot'[x] = foot[x],
         phase' \in {"open", "barrier", "marked"} =>
           phase \in {"open", "barrier", "marked"},
         \A u \in Tables : Enlisted(u) => Enlisted(u)',
         \A u \in Tables :
           \/ log'[u] = log[u] /\ (u \in foot'[cur] \ dark' => u \in foot[cur] \ dark)
           \/ /\ Enlisted(u)'
              /\ Len(log'[u]) = Len(log[u]) + 1
              /\ \A k \in 1 .. Len(log[u]) : log'[u][k] = log[u][k]
              /\ log'[u][Len(log[u]) + 1].tx = cur
              /\ (u \in foot'[cur] \ dark' => u \in foot[cur] \ dark \/ log'[u][Len(log[u]) + 1].tag = "stage")
  PROVE  OwnRecords'
<1>1. cur \in Nat /\ \A u \in Tables : Len(log[u]) \in Nat
  BY LogType, TxnAssumption DEF TypeOK
<1>2. ASSUME NEW u \in Tables, NEW k \in 1 .. Len(log'[u])
      PROVE  log'[u][k].tx <= cur
  <2>1. CASE k \in 1 .. Len(log[u])
    BY <2>1 DEF OwnRecords
  <2>2. CASE k \notin 1 .. Len(log[u])
    BY <1>1, <1>2, <2>2
  <2> QED BY <2>1, <2>2
<1>3. ASSUME phase' \in {"open", "barrier", "marked"}, NEW u \in Tables
      PROVE  /\ \A k \in 1 .. Len(log'[u]) : log'[u][k].tx = cur => Enlisted(u)'
             /\ u \in foot'[cur] \ dark' => \E k \in 1 .. Len(log'[u]) :
                  log'[u][k].tx = cur /\ log'[u][k].tag = "stage"
  <2>1. /\ \A k \in 1 .. Len(log[u]) : log[u][k].tx = cur => Enlisted(u)
        /\ u \in foot[cur] \ dark => \E k \in 1 .. Len(log[u]) :
             log[u][k].tx = cur /\ log[u][k].tag = "stage"
    BY <1>3 DEF OwnRecords
  <2>2. CASE log'[u] = log[u] /\ (u \in foot'[cur] \ dark' => u \in foot[cur] \ dark)
    BY <1>3, <2>1, <2>2
  <2>3. CASE /\ Enlisted(u)'
             /\ Len(log'[u]) = Len(log[u]) + 1
             /\ \A k \in 1 .. Len(log[u]) : log'[u][k] = log[u][k]
             /\ log'[u][Len(log[u]) + 1].tx = cur
             /\ (u \in foot'[cur] \ dark' =>
                   u \in foot[cur] \ dark \/ log'[u][Len(log[u]) + 1].tag = "stage")
    <3>1. Len(log[u]) + 1 \in 1 .. Len(log'[u]) /\ 1 .. Len(log[u]) \subseteq 1 .. Len(log'[u])
      BY <1>1, <2>3
    <3> QED BY <2>1, <2>3, <3>1
  <2> QED BY <1>3, <2>2, <2>3
<1> QED BY <1>2, <1>3 DEF OwnRecords

\* What a transaction appends carries its own number.
LEMMA OwnStep ==
  ASSUME TypeOK, SeqsBelowNext, RosterMarksTail, OwnRecords, [Next]_vars
  PROVE  OwnRecords'
<1>0. cur \in Nat /\ \A u \in Tables : Len(log[u]) \in Nat
  BY LogType, TxnAssumption DEF TypeOK
<1>1. CASE Begin
  <2>1. cur' = cur + 1 /\ cur + 1 \in Txs /\ UNCHANGED <<log, foot>>
    BY <1>0, <1>1, TxnAssumption DEF Begin, logVars, Txs
  <2>2. \A u \in Tables : \A k \in 1 .. Len(log[u]) :
          log[u][k].tx <= cur + 1 /\ log[u][k].tx # cur + 1
    BY <1>0, LogType DEF OwnRecords
  <2>3. foot[cur + 1] = {} /\ \A x \in Txs : x > cur + 1 => foot[x] = {}
    BY <1>0, <2>1 DEF OwnRecords, Txs
  <2> QED BY <2>1, <2>2, <2>3 DEF OwnRecords
<1>2. ASSUME NEW t \in Tables, Write(t)
      PROVE  OwnRecords'
  <2> DEFINE r == Rec("stage", t, IF Enlisted(t) THEN SeqOf(t) ELSE nextSeq[t])
  <2>1. /\ Push(t, r) /\ EnlistIn(t) /\ phase = "open"
        /\ foot' = [foot EXCEPT ![cur] = @ \cup {t}] /\ UNCHANGED <<phase, cur, dark>>
    BY <1>2 DEF Write
  <2>2. r \in Record
    <3>1. Enlisted(t) => SeqOf(t) \in Nat
      BY RosterType, SeqOfEntry
    <3> QED BY <3>1, TxnAssumption DEF Rec, Record, TypeOK
  <2>3. r.tx = cur /\ r.tag = "stage"
    BY DEF Rec
  <2> HIDE DEF r
  <2>4. /\ \A u \in Tables : u # t => log'[u] = log[u]
        /\ Len(log'[t]) = Len(log[t]) + 1
        /\ \A i \in 1 .. Len(log[t]) : log'[t][i] = log[t][i]
        /\ log'[t][Len(log[t]) + 1].tx = cur /\ log'[t][Len(log[t]) + 1].tag = "stage"
    BY <2>1, <2>2, <2>3, PushProperties
  <2>5. Enlisted(t)' /\ \A u \in Tables : Enlisted(u) => Enlisted(u)'
    BY <2>1, EnlistedAfter
  <2>6. \A x \in Txs : x > cur => foot'[x] = foot[x]
    BY <1>0, <2>1 DEF TypeOK, Txs
  <2>7. cur \in Txs /\ foot'[cur] = foot[cur] \cup {t}
    BY <2>1 DEF OwnRecords, TypeOK
  <2> QED BY <2>1, <2>4, <2>5, <2>6, <2>7, OwnAppend
<1>3. ASSUME NEW t \in Tables, EmptySweep(t)
      PROVE  OwnRecords'
  <2>1. /\ EnlistIn(t) /\ phase = "open" /\ UNCHANGED <<log, phase, cur, foot, dark>>
    BY <1>3 DEF EmptySweep, logVars
  <2>2. \A u \in Tables : Enlisted(u) => Enlisted(u)'
    BY <2>1, EnlistedAfter
  <2> QED BY <2>1, <2>2, OwnAppend
<1>9. ASSUME NEW t \in Tables, DarkSweep(t)
      PROVE  OwnRecords'
  <2>1. /\ EnlistIn(t) /\ phase = "open" /\ UNCHANGED <<log, phase, cur>>
        /\ dark' = dark \cup {t} /\ foot' = [foot EXCEPT ![cur] = @ \cup {t}]
    BY <1>9 DEF DarkSweep, logVars
  <2>2. \A u \in Tables : Enlisted(u) => Enlisted(u)'
    BY <2>1, EnlistedAfter
  <2>3. \A x \in Txs : x > cur => foot'[x] = foot[x]
    BY <1>0, <2>1 DEF TypeOK, Txs
  <2>4. cur \in Txs /\ foot'[cur] = foot[cur] \cup {t}
    BY <2>1 DEF OwnRecords, TypeOK
  <2>5. \A u \in Tables : u \in foot'[cur] \ dark' => u \in foot[cur] \ dark
    BY <2>1, <2>4
  <2> QED BY <2>1, <2>2, <2>3, <2>5, OwnAppend
<1>4. CASE PrepareAll
  <2>1. UNCHANGED <<cur, foot, roster, dark>> /\ phase = "open" /\ phase' = "barrier"
    BY <1>4 DEF PrepareAll
  <2>2. \A u : [tag |-> "prepare", seq |-> SeqOf(u), tx |-> cur,
                coord |-> Coord, cseq |-> CoordSeq].tx = cur
    OBVIOUS
  <2>3. \A u \in Tables :
          \/ log'[u] = log[u]
          \/ /\ Enlisted(u)
             /\ Len(log'[u]) = Len(log[u]) + 1
             /\ \A k \in 1 .. Len(log[u]) : log'[u][k] = log[u][k]
             /\ log'[u][Len(log[u]) + 1].tx = cur
    BY <1>4, <2>2, PrepareAllProperties, ZenonT(30)
  <2>4. \A u \in Tables : Enlisted(u) <=> Enlisted(u)'
    BY <2>1 DEF Enlisted
  <2> QED BY <2>1, <2>3, <2>4, OwnAppend
<1>5. CASE Mark
  <2>1. UNCHANGED <<cur, foot, roster, dark>> /\ phase \in {"open", "barrier"} /\ phase' = "marked"
    BY <1>5 DEF Mark
  <2>3. \A u \in Tables :
          \/ log'[u] = log[u]
          \/ /\ Enlisted(u)
             /\ Len(log'[u]) = Len(log[u]) + 1
             /\ \A k \in 1 .. Len(log[u]) : log'[u][k] = log[u][k]
             /\ log'[u][Len(log[u]) + 1].tx = cur
    BY <1>5, MarkProperties
  <2>4. \A u \in Tables : Enlisted(u) <=> Enlisted(u)'
    BY <2>1 DEF Enlisted
  <2> QED BY <2>1, <2>3, <2>4, OwnAppend
<1>6. CASE RewindFirst \/ Kill \/ PowerLoss
  <2>1. /\ UNCHANGED <<cur, foot>>
        /\ phase' \in {"none", "discard"} /\ (phase' # "none" => phase # "none")
    BY <1>6 DEF RewindFirst, Kill, PowerLoss, Crash
  <2>2. \A u \in Tables : \A k \in 1 .. Len(log'[u]) :
          k \in 1 .. Len(log[u]) /\ log'[u][k] = log[u][k]
    <3>1. CASE RewindFirst
      <4> DEFINE e == roster[1]
      <4>1. /\ e.t \in Tables /\ e.lsn \in Nat
            /\ \A u \in Tables : u # e.t => log'[u] = log[u]
            /\ Len(log'[e.t]) = e.lsn /\ e.lsn <= Len(log[e.t])
            /\ \A i \in 1 .. e.lsn : log'[e.t][i] = log[e.t][i]
        BY <3>1, RewindProperties
      <4> HIDE DEF e
      <4> QED BY <1>0, <4>1
    <3>2. CASE Kill
      BY <3>2 DEF Kill
    <3>3. CASE PowerLoss
      BY <1>0, <3>3, PowerLossProperties
    <3> QED BY <1>6, <3>1, <3>2, <3>3
  <2> QED BY <2>1, <2>2 DEF OwnRecords
<1>7. CASE \/ SyncMark \/ CommitEmpty \/ SyncFails \/ Rollback \/ Discarded
           \/ \E t \in Tables : CommitFold(t) \/ CommitTable(t)
  <2>1. /\ UNCHANGED <<cur, foot, log>> /\ (phase' # "none" => phase # "none")
        /\ phase' \in {"none", "discard", "folding"}
    BY <1>7 DEF SyncMark, CommitEmpty, SyncFails, Rollback, Discarded, FailsAt, logVars,
                CommitFold, RollLog, CommitTable
  <2> QED BY <2>1 DEF OwnRecords
<1>8. CASE \/ Recover \/ DropHandles \/ UNCHANGED vars
           \/ \E t \in Tables : BarrierOne(t) \/ Roll(t)
  <2>1. UNCHANGED <<cur, foot, log, roster, phase, dark>>
    BY <1>8 DEF Recover, DropHandles, BarrierOne, Roll, RollLog, vars, logVars, txVars
  <2> QED BY <2>1 DEF OwnRecords, Enlisted
<1> QED
  BY <1>1, <1>2, <1>3, <1>4, <1>5, <1>6, <1>7, <1>8, <1>9 DEF Next

-----------------------------------------------------------------------------
(* Prepares and decisions, when the fsync of a decision never fails.        *)

\* Empty logs hold no prepare.
LEMMA PreparesInit == Init => PreparesInPlace
BY EmptySeq DEF Init, PreparesInPlace

\* A prepare stays behind the rows it covers.
LEMMA PreparesStep ==
  ASSUME TypeOK, SeqsBelowNext, RosterMarksTail, OwnRecords, PreparesInPlace,
         "decide_error" \notin Faults, [Next]_vars
  PROVE  PreparesInPlace'
<1>0. cur \in Nat /\ \A u \in Tables : Len(log[u]) \in Nat
  BY LogType, TxnAssumption DEF TypeOK
<1>1. CASE Begin
  <2>1. cur' = cur + 1 /\ phase' = "open" /\ log' = log
    BY <1>1 DEF Begin, logVars
  <2>2. \A u \in Tables : \A k \in 1 .. Len(log[u]) : log[u][k].tx # cur + 1
    BY <1>0, LogType DEF OwnRecords
  <2> QED BY <2>1, <2>2 DEF PreparesInPlace
<1>2. ASSUME NEW t \in Tables, Write(t)
      PROVE  PreparesInPlace'
  <2> DEFINE r == Rec("stage", t, IF Enlisted(t) THEN SeqOf(t) ELSE nextSeq[t])
  <2>1. Push(t, r) /\ phase = "open" /\ phase' = "open" /\ cur' = cur
    BY <1>2 DEF Write
  <2>2. r \in Record
    <3>1. Enlisted(t) => SeqOf(t) \in Nat
      BY RosterType, SeqOfEntry
    <3> QED BY <3>1, TxnAssumption DEF Rec, Record, TypeOK
  <2>3. r.tag = "stage"
    BY DEF Rec
  <2> HIDE DEF r
  <2>4. /\ \A u \in Tables : u # t => log'[u] = log[u]
        /\ Len(log'[t]) = Len(log[t]) + 1
        /\ \A i \in 1 .. Len(log[t]) : log'[t][i] = log[t][i]
        /\ log'[t][Len(log[t]) + 1].tag = "stage"
    BY <2>1, <2>2, <2>3, PushProperties
  <2>5. ASSUME NEW u \in Tables, NEW k \in 1 .. Len(log'[u]), log'[u][k].tag = "decide"
        PROVE  log'[u][k].tx # cur
    <3>1. k \in 1 .. Len(log[u]) /\ log'[u][k] = log[u][k]
      BY <1>0, <2>4, <2>5
    <3> QED BY <2>1, <2>5, <3>1 DEF PreparesInPlace
  <2> QED BY <2>1, <2>5 DEF PreparesInPlace
<1>3. CASE PrepareAll
  <2>1. phase = "open" /\ phase' = "barrier" /\ UNCHANGED <<cur, roster>> /\ dark' = {}
    BY <1>3 DEF PrepareAll
  <2>2. ASSUME NEW u \in Tables, Enlisted(u), u # Coord
        PROVE  /\ Len(log'[u]) = Len(log[u]) + 1
               /\ \A k \in 1 .. Len(log[u]) : log'[u][k] = log[u][k]
               /\ log'[u][Len(log[u]) + 1].tx = cur
               /\ log'[u][Len(log[u]) + 1].tag = "prepare"
    <3>1. [tag |-> "prepare", seq |-> SeqOf(u), tx |-> cur,
           coord |-> Coord, cseq |-> CoordSeq].tx = cur
      OBVIOUS
    <3>2. [tag |-> "prepare", seq |-> SeqOf(u), tx |-> cur,
           coord |-> Coord, cseq |-> CoordSeq].tag = "prepare"
      OBVIOUS
    <3> QED BY <1>3, <2>2, <3>1, <3>2, PrepareAllProperties
  <2>3. ASSUME NEW u \in Tables, NEW k \in 1 .. Len(log'[u]), log'[u][k].tag = "decide"
        PROVE  log'[u][k].tx # cur
    <3>1. k \in 1 .. Len(log[u]) /\ log'[u][k] = log[u][k]
      <4>1. CASE Enlisted(u) /\ u # Coord
        BY <1>0, <2>2, <2>3, <4>1
      <4>2. CASE ~(Enlisted(u) /\ u # Coord)
        BY <1>3, <4>2, PrepareAllProperties
      <4> QED BY <4>1, <4>2
    <3> QED BY <2>1, <2>3, <3>1 DEF PreparesInPlace
  <2>4. ASSUME NEW i \in 1 .. Len(roster) - 1
        PROVE  LET l == log'[roster[i].t]
               IN  Len(l) > 0 /\ l[Len(l)].tag = "prepare" /\ l[Len(l)].tx = cur
    <3>0. Len(roster) \in Nat
      BY RosterType
    <3>1. i \in 1 .. Len(roster) /\ Len(roster) \in 1 .. Len(roster) /\ i # Len(roster)
      BY <3>0
    <3>2. roster[i].t \in Tables /\ Enlisted(roster[i].t)
      <4>1. roster[i].t \in Tables /\ i \in DOMAIN roster
        BY <3>1, RosterType
      <4> QED BY <4>1 DEF Enlisted
    <3>3. roster[i].t # Coord
      BY <3>1 DEF Coord, RosterMarksTail
    <3> QED BY <1>0, <2>2, <3>2, <3>3
  <2> QED BY <2>1, <2>3, <2>4 DEF PreparesInPlace
<1>4. CASE \/ Mark \/ SyncMark \/ CommitEmpty \/ Discarded \/ Kill \/ PowerLoss
           \/ \E t \in Tables : CommitFold(t) \/ CommitTable(t)
  <2>1. phase' \in {"marked", "none", "folding"}
    BY <1>4 DEF Mark, SyncMark, CommitEmpty, Discarded, Kill, PowerLoss, Crash,
                CommitFold, CommitTable
  <2> QED BY <2>1 DEF PreparesInPlace
<1>5. CASE SyncFails \/ Rollback
  <2>1. /\ phase \in {"open", "barrier"} /\ phase' = "discard" /\ UNCHANGED <<cur, log>>
    BY <1>5 DEF SyncFails, FailsAt, Rollback, logVars
  <2> QED BY <2>1 DEF PreparesInPlace
<1>6. CASE RewindFirst
  <2> DEFINE e == roster[1]
  <2>1. /\ e.t \in Tables /\ e.lsn \in Nat
        /\ \A u \in Tables : u # e.t => log'[u] = log[u]
        /\ Len(log'[e.t]) = e.lsn /\ e.lsn <= Len(log[e.t])
        /\ \A i \in 1 .. e.lsn : log'[e.t][i] = log[e.t][i]
    BY <1>6, RewindProperties
  <2> HIDE DEF e
  <2>2. \A u \in Tables : \A k \in 1 .. Len(log'[u]) :
          k \in 1 .. Len(log[u]) /\ log'[u][k] = log[u][k]
    BY <1>0, <2>1
  <2>3. phase = "discard" /\ phase' = "discard" /\ cur' = cur
    BY <1>6 DEF RewindFirst
  <2> QED BY <2>2, <2>3 DEF PreparesInPlace
<1>7. ASSUME NEW t \in Tables, EmptySweep(t) \/ DarkSweep(t)
      PROVE  PreparesInPlace'
  <2>1. phase = "open" /\ phase' = "open" /\ UNCHANGED <<cur, log>>
    BY <1>7 DEF EmptySweep, DarkSweep, logVars
  <2> QED BY <2>1 DEF PreparesInPlace
<1>8. CASE \/ Recover \/ DropHandles \/ UNCHANGED vars
           \/ \E t \in Tables : BarrierOne(t) \/ Roll(t)
  <2>1. UNCHANGED <<cur, log, roster, phase, dark>>
    BY <1>8 DEF Recover, DropHandles, BarrierOne, Roll, RollLog, vars, logVars, txVars
  <2> QED BY <2>1 DEF PreparesInPlace
<1> QED
  BY <1>1, <1>2, <1>3, <1>4, <1>5, <1>6, <1>7, <1>8 DEF Next

\* What is on the platter stays protected while the synced prefix only grows.
LEMMA ProtectedKept ==
  ASSUME TypeOK, NEW t \in Tables, NEW x, Protected(x, t),
         \A k \in 1 .. Len(log[t]) : k <= synced[t] =>
           k \in 1 .. Len(log'[t]) /\ log'[t][k] = log[t][k] /\ k <= synced'[t],
         log'[t] \in Seq(Record)
  PROVE  Protected(x, t)'
<1>1. PICK i, j \in 1 .. Len(log[t]) :
        /\ i < j /\ j <= synced[t]
        /\ log[t][i].tx = x /\ log[t][i].tag = "stage"
        /\ log[t][j].tx = x /\ log[t][j].tag = "prepare"
  BY LogType DEF Protected
<1>2. i <= synced[t]
  BY <1>1 DEF TypeOK
<1>3. DOMAIN log'[t] = 1 .. Len(log'[t])
  BY LenProperties
<1>4. /\ i \in DOMAIN log'[t] /\ j \in DOMAIN log'[t]
      /\ log'[t][i] = log[t][i] /\ log'[t][j] = log[t][j] /\ j <= synced'[t]
  BY <1>1, <1>2, <1>3
<1> QED BY <1>1, <1>4 DEF Protected

\* Empty logs hold no decision.
LEMMA DecisionInit == Init => DecisionAfterPrepares
BY EmptySeq DEF Init, DecisionAfterPrepares

\* A step that writes no decision and disturbs no synced record.
LEMMA DecisionKept ==
  ASSUME TypeOK, TypeOK', DecisionAfterPrepares,
         \A c \in Tables : \A k \in 1 .. Len(log'[c]) : log'[c][k].tag = "decide" =>
           /\ k \in 1 .. Len(log[c]) /\ log'[c][k] = log[c][k]
           /\ foot'[log[c][k].tx] = foot[log[c][k].tx],
         \A t \in Tables : \A k \in 1 .. Len(log[t]) : k <= synced[t] =>
           k \in 1 .. Len(log'[t]) /\ log'[t][k] = log[t][k] /\ k <= synced'[t]
  PROVE  DecisionAfterPrepares'
<1>0. \A c \in Tables : DOMAIN log'[c] = 1 .. Len(log'[c])
  BY LenProperties DEF TypeOK
<1> SUFFICES ASSUME NEW c \in Tables, NEW k \in 1 .. Len(log'[c]), log'[c][k].tag = "decide",
                    NEW t \in Tables \ {c}, t \in foot'[log'[c][k].tx]
             PROVE  Protected(log[c][k].tx, t)'
  BY <1>0 DEF DecisionAfterPrepares
<1>1. k \in 1 .. Len(log[c]) /\ log'[c][k] = log[c][k] /\ t \in foot[log[c][k].tx]
  OBVIOUS
<1>2. k \in DOMAIN log[c] /\ log[c][k].tag = "decide"
  BY <1>1, LogType
<1>3. PICK x : x = log[c][k].tx
  OBVIOUS
<1>4. Protected(x, t)
  BY <1>1, <1>2, <1>3 DEF DecisionAfterPrepares
<1>5. log'[t] \in Seq(Record)
  BY DEF TypeOK
<1>6. Protected(x, t)'
  BY <1>4, <1>5, ProtectedKept
<1> QED BY <1>1, <1>3, <1>6 DEF Protected

\* A decision is only written after the barriers of the prepares.
LEMMA DecisionStep ==
  ASSUME TypeOK, SeqsBelowNext, RosterMarksTail, OwnRecords, PreparesInPlace,
         DecisionAfterPrepares, TypeOK', "decide_error" \notin Faults, [Next]_vars
  PROVE  DecisionAfterPrepares'
<1>0. /\ cur \in Nat
      /\ \A u \in Tables : /\ Len(log[u]) \in Nat /\ synced[u] \in Nat
                           /\ synced[u] <= Len(log[u])
  BY LogType, TxnAssumption DEF TypeOK, SeqsBelowNext
<1>1. ASSUME NEW t \in Tables, Write(t)
      PROVE  DecisionAfterPrepares'
  <2> DEFINE r == Rec("stage", t, IF Enlisted(t) THEN SeqOf(t) ELSE nextSeq[t])
  <2>1. /\ Push(t, r) /\ phase = "open" /\ synced' = synced
        /\ foot' = [foot EXCEPT ![cur] = @ \cup {t}]
    BY <1>1 DEF Write
  <2>2. r \in Record
    <3>1. Enlisted(t) => SeqOf(t) \in Nat
      BY RosterType, SeqOfEntry
    <3> QED BY <3>1, TxnAssumption DEF Rec, Record, TypeOK
  <2>3. r.tag = "stage"
    BY DEF Rec
  <2> HIDE DEF r
  <2>4. /\ \A u \in Tables : u # t => log'[u] = log[u]
        /\ Len(log'[t]) = Len(log[t]) + 1
        /\ \A i \in 1 .. Len(log[t]) : log'[t][i] = log[t][i]
        /\ log'[t][Len(log[t]) + 1].tag = "stage"
    BY <2>1, <2>2, <2>3, PushProperties
  <2>5. ASSUME NEW c \in Tables, NEW k \in 1 .. Len(log'[c]), log'[c][k].tag = "decide"
        PROVE  /\ k \in 1 .. Len(log[c]) /\ log'[c][k] = log[c][k]
               /\ foot'[log[c][k].tx] = foot[log[c][k].tx]
    <3>1. k \in 1 .. Len(log[c]) /\ log'[c][k] = log[c][k]
      BY <1>0, <2>4, <2>5
    <3>2. log[c][k].tx # cur
      BY <2>1, <2>5, <3>1 DEF PreparesInPlace
    <3> QED BY <2>1, <3>1, <3>2 DEF TypeOK
  <2>6. \A u \in Tables : \A k \in 1 .. Len(log[u]) : k <= synced[u] =>
          k \in 1 .. Len(log'[u]) /\ log'[u][k] = log[u][k] /\ k <= synced'[u]
    BY <1>0, <2>1, <2>4
  <2> QED BY <2>5, <2>6, DecisionKept
<1>2. CASE PrepareAll
  <2>1. foot' = foot /\ synced' = synced
    BY <1>2 DEF PrepareAll
  <2>2. ASSUME NEW u \in Tables
        PROVE  /\ \A k \in 1 .. Len(log[u]) : k \in 1 .. Len(log'[u]) /\ log'[u][k] = log[u][k]
               /\ \A k \in 1 .. Len(log'[u]) : log'[u][k].tag = "decide" => k \in 1 .. Len(log[u])
    <3>1. CASE Enlisted(u) /\ u # Coord
      <4>1. [tag |-> "prepare", seq |-> SeqOf(u), tx |-> cur,
             coord |-> Coord, cseq |-> CoordSeq].tag # "decide"
        OBVIOUS
      <4>2. /\ Len(log'[u]) = Len(log[u]) + 1
            /\ \A k \in 1 .. Len(log[u]) : log'[u][k] = log[u][k]
            /\ log'[u][Len(log[u]) + 1].tag # "decide"
        BY <1>2, <3>1, <4>1, PrepareAllProperties
      <4> QED BY <1>0, <4>2
    <3>2. CASE ~(Enlisted(u) /\ u # Coord)
      BY <1>2, <3>2, PrepareAllProperties
    <3> QED BY <3>1, <3>2
  <2> QED BY <2>1, <2>2, DecisionKept
<1>3. CASE Mark
  <2>1. /\ foot' = foot /\ synced' = synced /\ Coord \in Tables
        /\ \A u \in Tables : u # Coord => log'[u] = log[u]
        /\ Len(log'[Coord]) = Len(log[Coord]) + 1
        /\ \A i \in 1 .. Len(log[Coord]) : log'[Coord][i] = log[Coord][i]
        /\ log'[Coord][Len(log[Coord]) + 1].tx = cur
    BY <1>3, MarkProperties DEF Mark
  <2>2. \A u \in Tables : \A k \in 1 .. Len(log[u]) :
          k \in 1 .. Len(log'[u]) /\ log'[u][k] = log[u][k]
    BY <1>0, <2>1
  <2>3. CASE log'[Coord][Len(log[Coord]) + 1].tag # "decide"
    <3>1. \A c \in Tables : \A k \in 1 .. Len(log'[c]) :
            log'[c][k].tag = "decide" => k \in 1 .. Len(log[c])
      BY <1>0, <2>1, <2>3
    <3> QED BY <2>1, <2>2, <3>1, DecisionKept
  <2>4. CASE phase = "barrier" /\ Prepared
    <3>1. ASSUME NEW t \in Tables \ {Coord}, t \in foot[cur]
          PROVE  Protected(cur, t)
      <4>1. PICK k \in 1 .. Len(log[t]) : log[t][k].tx = cur /\ log[t][k].tag = "stage"
        BY <2>4, <3>1 DEF OwnRecords, PreparesInPlace
      <4>2. PICK i \in 1 .. Len(roster) : roster[i].t = t
        BY <2>4, <4>1, RosterType DEF OwnRecords, Enlisted
      <4>3. Len(roster) \in Nat
        BY RosterType
      <4>4. i \in 1 .. Len(roster) - 1
        BY <3>1, <4>2, <4>3 DEF Coord
      <4>5. /\ synced[t] = Len(log[t]) /\ Len(log[t]) > 0
            /\ log[t][Len(log[t])].tag = "prepare" /\ log[t][Len(log[t])].tx = cur
        BY <2>4, <4>2, <4>4 DEF Prepared, PreparesInPlace
      <4>6. k # Len(log[t])
        BY <4>1, <4>5
      <4>7. /\ k < Len(log[t]) /\ Len(log[t]) <= synced[t]
            /\ k \in DOMAIN log[t] /\ Len(log[t]) \in DOMAIN log[t]
        BY <1>0, <4>1, <4>5, <4>6, LogType
      <4> QED BY <4>1, <4>5, <4>7 DEF Protected
    <3>2. ASSUME NEW t \in Tables, NEW x, Protected(x, t)
          PROVE  Protected(x, t)'
      <4>1. log'[t] \in Seq(Record)
        BY DEF TypeOK
      <4> QED BY <2>1, <2>2, <3>2, <4>1, ProtectedKept
    <3>3. \A c \in Tables : DOMAIN log'[c] = 1 .. Len(log'[c])
      BY LenProperties DEF TypeOK
    <3> SUFFICES ASSUME NEW c \in Tables, NEW k \in 1 .. Len(log'[c]),
                        log'[c][k].tag = "decide",
                        NEW t \in Tables \ {c}, t \in foot[log'[c][k].tx]
                 PROVE  Protected(log[c][k].tx, t)'
      BY <2>1, <3>3 DEF DecisionAfterPrepares
    <3>4. PICK x : x = log'[c][k].tx
      OBVIOUS
    <3>5. CASE k \in 1 .. Len(log[c])
      <4>1. log'[c][k] = log[c][k] /\ k \in DOMAIN log[c]
        BY <2>2, <3>5, LogType
      <4>2. Protected(x, t)
        BY <3>4, <4>1 DEF DecisionAfterPrepares
      <4>3. Protected(x, t)'
        BY <3>2, <4>2
      <4> QED BY <3>4, <4>3 DEF Protected
    <3>6. CASE k \notin 1 .. Len(log[c])
      <4>1. c = Coord /\ log'[c][k].tx = cur
        BY <1>0, <2>1, <3>6
      <4>2. Protected(x, t)
        BY <3>1, <3>4, <4>1
      <4>3. Protected(x, t)'
        BY <3>2, <4>2
      <4> QED BY <3>4, <4>3 DEF Protected
    <3> QED BY <3>5, <3>6
  <2> QED BY <1>3, <2>3, <2>4, MarkProperties
<1>4. CASE RewindFirst
  <2>0. PICK e \in Entry : e = roster[1]
    BY <1>4, RosterType, RewindProperties
  <2>1. /\ e.t \in Tables /\ e.lsn \in Nat
        /\ \A u \in Tables : u # e.t => log'[u] = log[u] /\ synced'[u] = synced[u]
        /\ Len(log'[e.t]) = e.lsn /\ e.lsn <= Len(log[e.t])
        /\ \A i \in 1 .. e.lsn : log'[e.t][i] = log[e.t][i]
        /\ synced'[e.t] = IF e.lsn < Len(log[e.t]) THEN e.lsn ELSE synced[e.t]
    BY <1>4, <2>0, RewindProperties
  <2>2. phase = "discard" /\ foot' = foot
    BY <1>4 DEF RewindFirst
  <2>3. \A k \in 1 .. Len(log[e.t]) : log[e.t][k].tx # cur => k <= e.lsn
    <3>1. 1 \in 1 .. Len(roster)
      BY <1>4, RewindProperties
    <3>2. MarksTail(e)
      BY <2>0, <3>1 DEF RosterMarksTail
    <3> QED BY <1>0, <2>1, <3>2 DEF MarksTail
  <2>4. ASSUME NEW t \in Tables, NEW x, x # cur, Protected(x, t)
        PROVE  Protected(x, t)'
    <3>1. CASE t # e.t
      BY <2>1, <2>4, <3>1 DEF Protected
    <3>2. CASE t = e.t
      <4>1. PICK i, j \in 1 .. Len(log[t]) :
              /\ i < j /\ j <= synced[t]
              /\ log[t][i].tx = x /\ log[t][i].tag = "stage"
              /\ log[t][j].tx = x /\ log[t][j].tag = "prepare"
        BY <2>4, LogType DEF Protected
      <4>2. i <= e.lsn /\ j <= e.lsn
        BY <2>3, <2>4, <3>2, <4>1
      <4>3. log'[t][i] = log[t][i] /\ log'[t][j] = log[t][j] /\ j <= synced'[t]
        BY <1>0, <2>1, <3>2, <4>1, <4>2
      <4>4. DOMAIN log'[t] = 1 .. e.lsn
        BY <2>1, <3>2, LenProperties DEF TypeOK
      <4>5. i \in DOMAIN log'[t] /\ j \in DOMAIN log'[t]
        BY <4>2, <4>4
      <4> QED BY <4>1, <4>3, <4>5 DEF Protected
    <3> QED BY <3>1, <3>2
  <2>5. \A c \in Tables : DOMAIN log'[c] = 1 .. Len(log'[c])
    BY LenProperties DEF TypeOK
  <2> SUFFICES ASSUME NEW c \in Tables, NEW k \in 1 .. Len(log'[c]),
                      log'[c][k].tag = "decide",
                      NEW t \in Tables \ {c}, t \in foot[log'[c][k].tx]
               PROVE  Protected(log[c][k].tx, t)'
    BY <2>2, <2>5 DEF DecisionAfterPrepares
  <2>6. k \in 1 .. Len(log[c]) /\ k \in DOMAIN log[c] /\ log'[c][k] = log[c][k]
    <3>1. k \in 1 .. Len(log[c]) /\ log'[c][k] = log[c][k]
      BY <1>0, <2>1
    <3> QED BY <3>1, LogType
  <2>7. PICK x : x = log[c][k].tx
    OBVIOUS
  <2>8. x # cur /\ Protected(x, t)
    BY <2>2, <2>6, <2>7 DEF PreparesInPlace, DecisionAfterPrepares
  <2>9. Protected(x, t)'
    BY <2>4, <2>8
  <2> QED BY <2>6, <2>7, <2>9 DEF Protected
<1>5. CASE PowerLoss
  <2>1. foot' = foot
    BY <1>5 DEF PowerLoss, Crash
  <2>2. \A t \in Tables :
           /\ Len(log'[t]) = synced'[t] /\ synced'[t] \in Nat
           /\ synced[t] <= synced'[t] /\ synced'[t] <= Len(log[t])
           /\ \A i \in 1 .. synced'[t] : log'[t][i] = log[t][i]
    BY <1>5, PowerLossProperties
  <2>3. \A c \in Tables : \A k \in 1 .. Len(log'[c]) :
          k \in 1 .. Len(log[c]) /\ log'[c][k] = log[c][k]
    BY <1>0, <2>2
  <2>4. \A t \in Tables : \A k \in 1 .. Len(log[t]) : k <= synced[t] =>
          k \in 1 .. Len(log'[t]) /\ log'[t][k] = log[t][k] /\ k <= synced'[t]
    BY <1>0, <2>2
  <2> QED BY <2>1, <2>3, <2>4, DecisionKept
<1>6. ASSUME log' = log, foot' = foot, \A t \in Tables : synced[t] <= synced'[t]
      PROVE  DecisionAfterPrepares'
  <2>1. \A t \in Tables : \A k \in 1 .. Len(log[t]) : k <= synced[t] => k <= synced'[t]
    BY <1>0, <1>6, SMTT(20) DEF TypeOK
  <2> QED BY <1>6, <2>1, DecisionKept
<1>10. ASSUME NEW t \in Tables, DarkSweep(t)
       PROVE  DecisionAfterPrepares'
  <2>1. /\ UNCHANGED <<log, synced>> /\ phase = "open"
        /\ foot' = [foot EXCEPT ![cur] = @ \cup {t}]
    BY <1>10 DEF DarkSweep, logVars
  <2>2. ASSUME NEW c \in Tables, NEW k \in 1 .. Len(log[c]), log[c][k].tag = "decide"
        PROVE  foot'[log[c][k].tx] = foot[log[c][k].tx]
    <3>1. log[c][k].tx # cur
      BY <2>1, <2>2 DEF PreparesInPlace
    <3> QED BY <2>1, <3>1 DEF TypeOK
  <2> QED BY <2>1, <2>2, DecisionKept
<1>7. ASSUME NEW t \in Tables, BarrierOne(t) \/ Roll(t) \/ CommitFold(t)
      PROVE  DecisionAfterPrepares'
  <2>1. log' = log /\ foot' = foot
    BY <1>7 DEF BarrierOne, Roll, CommitFold, RollLog, txVars
  <2>2. synced' = synced \/ synced' = [synced EXCEPT ![t] = Len(log[t])]
    BY <1>7, RollProperties DEF BarrierOne, Roll, CommitFold
  <2>3. \A u \in Tables : synced'[u] \in {synced[u], Len(log[u])}
    BY <2>2 DEF TypeOK
  <2>4. \A u \in Tables : synced[u] <= synced'[u]
    BY <1>0, <2>3
  <2> QED BY <1>6, <2>1, <2>4
<1>8. CASE SyncMark
  <2>1. log' = log /\ foot' = foot /\ synced' = [synced EXCEPT ![Coord] = Len(log[Coord])]
    BY <1>8 DEF SyncMark
  <2>2. \A u \in Tables : synced'[u] \in {synced[u], Len(log[u])}
    BY <2>1 DEF TypeOK
  <2>3. \A u \in Tables : synced[u] <= synced'[u]
    BY <1>0, <2>2
  <2> QED BY <1>6, <2>1, <2>3
<1>9. CASE \/ Begin \/ CommitEmpty \/ SyncFails \/ Rollback \/ Discarded \/ Kill \/ Recover
           \/ DropHandles \/ UNCHANGED vars \/ \E t \in Tables : EmptySweep(t) \/ CommitTable(t)
  <2>1. UNCHANGED <<log, foot, synced>>
    BY <1>9 DEF Begin, CommitEmpty, SyncFails, Rollback, Discarded, Kill, Crash, Recover,
                DropHandles, EmptySweep, CommitTable, vars, logVars, txVars
  <2> QED BY <1>0, <1>6, <2>1
<1> QED
  BY <1>1, <1>2, <1>3, <1>4, <1>5, <1>7, <1>8, <1>9, <1>10 DEF Next

-----------------------------------------------------------------------------
(* The theorems.                                                            *)

\* Every variable keeps its type, whatever the environment does: in particular
\* a recovery always finds a number to resume a log's counter at (Wal::scan).
THEOREM TypeCorrect == Spec => []TypeOK
<1> DEFINE I == TypeOK /\ SeqsBelowNext /\ RosterMarksTail /\ OwnRecords
<1>1. Init => I
  BY TypeInit, SeqInit, RosterInit, OwnInit
<1>2. I /\ [Next]_vars => I'
  BY TypeStep, SeqStep, RosterStep, OwnStep
<1>3. I => TypeOK
  OBVIOUS
<1> QED BY <1>1, <1>2, <1>3, PTL DEF Spec

\* No log ever holds a staging number at or above the next one its handle will
\* hand out, across crashes, rolls and rollbacks: within one log a number is
\* never issued twice while a record under it is still there (Wal::scan, the
\* next_seq of the segment header).
THEOREM SeqsNeverReissued == Spec => []SeqsBelowNext
<1> DEFINE I == TypeOK /\ SeqsBelowNext /\ RosterMarksTail /\ OwnRecords
<1>1. Init => I
  BY TypeInit, SeqInit, RosterInit, OwnInit
<1>2. I /\ [Next]_vars => I'
  BY TypeStep, SeqStep, RosterStep, OwnStep
<1>3. I => SeqsBelowNext
  OBVIOUS
<1> QED BY <1>1, <1>2, <1>3, PTL DEF Spec

\* As long as the fsync of a decision does not fail, a decision is on a log only
\* when every other table of its transaction has rows and prepare on the
\* platter (Session::commit_durable, prepare_barrier): no crash can find a
\* decision whose participants lost their records.
THEOREM DecisionSafe ==
  ASSUME "decide_error" \notin Faults
  PROVE  Spec => []DecisionAfterPrepares
<1> DEFINE I == /\ TypeOK /\ SeqsBelowNext /\ RosterMarksTail /\ OwnRecords
                /\ PreparesInPlace /\ DecisionAfterPrepares
<1>1. Init => I
  BY TypeInit, SeqInit, RosterInit, OwnInit, PreparesInit, DecisionInit
<1>2. I /\ [Next]_vars => I'
  <2> SUFFICES ASSUME I, [Next]_vars PROVE I'
    OBVIOUS
  <2>1. TypeOK' /\ SeqsBelowNext' /\ RosterMarksTail' /\ OwnRecords'
    BY TypeStep, SeqStep, RosterStep, OwnStep
  <2> QED BY <2>1, PreparesStep, DecisionStep
<1>3. I => DecisionAfterPrepares
  OBVIOUS
<1> QED BY <1>1, <1>2, <1>3, PTL DEF Spec

-----------------------------------------------------------------------------
(* The two-phase commit is atomic where processes are killed and prepare    *)
(* barriers fail.  Each of the other faults of TxnCommit breaks it.         *)

\* The environment: kill -9 at any instant but between a roll and its TABLE
\* record, and failing fsyncs of the prepare barrier.
Orderly == Faults \subseteq {"kill", "prepare_error"}

-----------------------------------------------------------------------------
(* The inductive invariant, on top of TxnCommit's.                          *)

Records(t) == 1 .. Len(log[t])

\* Within one log, a staging number belongs to one transaction.
SeqOwner ==
  \A t \in Tables : \A i, j \in Records(t) :
    log[t][i].seq = log[t][j].seq <=> log[t][i].tx = log[t][j].tx

\* The roster's number is the running transaction's.
RosterSeq ==
  \A n \in 1 .. Len(roster) : \A k \in Records(roster[n].t) :
    log[roster[n].t][k].seq = roster[n].seq <=> log[roster[n].t][k].tx = cur

\* A prepare cites a number its own transaction holds in the coordinator's
\* log; the running transaction's cite the last table of the roster.
Cites(t, k) ==
  /\ log[t][k].coord # t
  /\ \E i \in Records(log[t][k].coord) :
       /\ log[log[t][k].coord][i].tx = log[t][k].tx
       /\ log[log[t][k].coord][i].seq = log[t][k].cseq

CitesRunning(t, k) ==
  /\ phase # "open" /\ Enlisted(t) /\ t # Coord
  /\ log[t][k].coord = Coord /\ log[t][k].cseq = CoordSeq

Citations ==
  \A t \in Tables : \A k \in Records(t) :
    log[t][k].tag = "prepare" =>
      /\ Cites(t, k)
      /\ phase # "none" /\ log[t][k].tx = cur => CitesRunning(t, k)

\* A carried decision was logged in a segment that is sealed by now.
CarriedDecided ==
  \A c \in Tables : \A s \in carried[c] : \E k \in Records(c) :
    k <= origin[c] /\ log[c][k].tag = "decide" /\ log[c][k].seq = s

\* Transactions run one after the other.
Statuses ==
  /\ \A x \in Txs : /\ x > cur => status[x] = "idle"
                    /\ status[x] = "active" => x = cur
  /\ phase # "none" => status[cur] = "active"
  /\ mode = "up" /\ phase = "none" => \A x \in Txs : status[x] # "active"

IsMarker(r) == r.tag \in {"commit", "decide"}

\* Only a committed transaction has a marker, or one that a crash caught, or
\* will catch, between its marker and the answer to COMMIT.
Undecided == status[cur] = "active" /\ (phase = "marked" \/ mode = "down")

Markers ==
  /\ \A t \in Tables : \A k \in Records(t) :
       IsMarker(log[t][k]) =>
         \/ status[log[t][k].tx] = "committed"
         \/ log[t][k].tx = cur /\ Undecided
  /\ phase = "marked" =>
       \E t \in Tables : \E k \in Records(t) : IsMarker(log[t][k]) /\ log[t][k].tx = cur

\* A transaction's records lie in its tables, and the roster has its tables.
Feet ==
  /\ \A t \in Tables : \A k \in Records(t) :
       log[t][k].tx \in Txs /\ t \in foot[log[t][k].tx]
  /\ phase # "none" => \A t \in Tables : Enlisted(t) => t \in foot[cur]
  /\ phase \in {"open", "barrier", "marked"} =>
       \A t \in foot[cur] : Enlisted(t)
  /\ dark # {} => phase \in {"open", "discard"}
  /\ phase = "open" => \A t \in dark : foot[cur] = {t}
  /\ phase = "folding" => \A t \in fold : foot[cur] = {t}

\* A TABLE record covers all that is sealed, except between roll and commit,
\* when the fresh segment is empty.
Folds ==
  /\ \A t \in Tables : t \notin fold => wm[t] = origin[t]
  /\ \A t \in fold : origin[t] = Len(log[t])
  /\ \A t, u \in fold : t = u
  /\ mode = "down" => fold = {}

Shown(t) == {x \in Txs : status[x] = "committed" /\ t \in foot[x]}

\* A table shows its committed transactions, and its parts hold no others.
Views == \A t \in Tables : mem[t] = Shown(t) /\ parts[t] \subseteq mem[t]

\* A transaction past its commit point.
Done(x) ==
  \/ status[x] = "committed"
  \/ \E t \in Tables : \E k \in Records(t) : IsMarker(log[t][k]) /\ log[t][k].tx = x

\* The record at j of table t releases what its transaction staged before it.
Released(t, j) ==
  \/ IsMarker(log[t][j])
  \/ log[t][j].tag = "prepare" /\ log[t][j].cseq \in DecisionsOf(log[t][j].coord)

Replayable(x, t) ==
  \E i, j \in Records(t) :
    /\ wm[t] < i /\ i < j
    /\ log[t][i].tag = "stage" /\ log[t][i].tx = x
    /\ log[t][j].tx = x /\ Released(t, j)

\* Whatever is past its commit point is in the parts of each of its tables or
\* comes back when that table's log is replayed.
Complete ==
  \A x \in Txs : Done(x) =>
    \A t \in foot[x] : x \in parts[t] \/ Replayable(x, t)

Base == TypeOK /\ SeqsBelowNext /\ RosterMarksTail /\ OwnRecords /\ PreparesInPlace

AInv ==
  /\ Base
  /\ SeqOwner /\ RosterSeq /\ Citations /\ CarriedDecided
  /\ Statuses /\ Markers /\ Feet /\ Folds /\ Views /\ Complete

-----------------------------------------------------------------------------
(* What the steps do to the logs and to the roster.                         *)

\* The numbers of the invariant are numbers.
LEMMA Numbers ==
  ASSUME Base
  PROVE  /\ cur \in Nat /\ Len(roster) \in Nat
         /\ phase # "none" => cur \in Txs
         /\ \A t \in Tables :
              /\ Len(log[t]) \in Nat /\ origin[t] \in Nat /\ wm[t] \in Nat
              /\ nextSeq[t] \in Nat /\ carried[t] \subseteq Nat
              /\ \A k \in Records(t) :
                   /\ k \in Nat /\ log[t][k] \in Record
                   /\ log[t][k].seq \in Nat /\ log[t][k].tx \in Nat
                   /\ log[t][k].tag \in {"stage", "commit", "prepare", "decide"}
                   /\ log[t][k].coord \in Tables /\ log[t][k].cseq \in Nat
<1>1. \A t \in Tables : \A k \in Records(t) : log[t][k] \in Record /\ k \in Nat
  BY LogType DEF Records, Base
<1>2. \A t \in Tables : \A k \in Records(t) :
        log[t][k].coord \in Tables /\ log[t][k].cseq \in Nat
  BY <1>1 DEF Record
<1>3. cur \in Nat /\ Len(roster) \in Nat /\ (phase # "none" => cur \in Txs)
  BY RosterType, TxnAssumption DEF Base, TypeOK, OwnRecords
<1>4. \A t \in Tables :
        /\ Len(log[t]) \in Nat /\ origin[t] \in Nat /\ wm[t] \in Nat
        /\ nextSeq[t] \in Nat /\ carried[t] \subseteq Nat
  BY LogType DEF Base, TypeOK
<1>5. \A t \in Tables : \A k \in Records(t) :
        /\ log[t][k].seq \in Nat /\ log[t][k].tx \in Nat
        /\ log[t][k].tag \in {"stage", "commit", "prepare", "decide"}
  BY LogType DEF Base, Records
<1> QED BY <1>1, <1>2, <1>3, <1>4, <1>5

\* A log gains one record at its end.
Grows(t, r) ==
  /\ Len(log'[t]) = Len(log[t]) + 1
  /\ \A k \in Records(t) : log'[t][k] = log[t][k]
  /\ log'[t][Len(log[t]) + 1] = r

\* The records of a log that grew are the old ones and the new one.
LEMMA OldOrNew ==
  ASSUME Base, NEW t \in Tables, NEW r, Grows(t, r)
  PROVE  /\ Records(t)' = Records(t) \cup {Len(log[t]) + 1}
         /\ Records(t) \subseteq Records(t)'
         /\ Len(log[t]) + 1 \notin Records(t)
         /\ \A k \in Records(t)' :
              \/ k \in Records(t) /\ log'[t][k] = log[t][k]
              \/ k = Len(log[t]) + 1 /\ log'[t][k] = r
<1>1. Len(log[t]) \in Nat /\ Len(log'[t]) = Len(log[t]) + 1
  BY Numbers DEF Grows
<1>2. Records(t)' = 1 .. Len(log'[t])
  BY DEF Records
<1>3. /\ Records(t)' = Records(t) \cup {Len(log[t]) + 1}
      /\ Len(log[t]) + 1 \notin Records(t)
  BY <1>1, <1>2 DEF Records
<1> QED BY <1>3 DEF Grows

\* The number s is the one under which the running transaction writes to t.
Fits(t, s) == \A k \in Records(t) : log[t][k].seq = s <=> log[t][k].tx = cur

\* The roster's entry of a table has the number its records have.
LEMMA EnlistedFits ==
  ASSUME Base, RosterSeq, NEW t \in Tables, Enlisted(t)
  PROVE  /\ Fits(t, SeqOf(t)) /\ SeqOf(t) \in Nat
         /\ \A n \in 1 .. Len(roster) : roster[n].t = t => roster[n].seq = SeqOf(t)
<1>1. PICK i \in 1 .. Len(roster) : roster[i].t = t /\ SeqOf(t) = roster[i].seq
  BY SeqOfEntry DEF Base
<1>2. roster[i].seq \in Nat
  BY RosterType DEF Base
<1>3. \A n \in 1 .. Len(roster) : roster[n].t = t => n = i
  BY <1>1 DEF Base, RosterMarksTail
<1>4. Fits(t, SeqOf(t))
  BY <1>1 DEF Fits, RosterSeq
<1> QED BY <1>1, <1>2, <1>3, <1>4

\* A table that is not enlisted yet has no record of the running transaction,
\* and the next number of its log is fresh.
LEMMA FreshFits ==
  ASSUME Base, NEW t \in Tables, ~Enlisted(t), phase = "open"
  PROVE  Fits(t, nextSeq[t])
<1>1. \A k \in Records(t) : log[t][k].tx # cur
  BY DEF Base, OwnRecords, Records
<1>2. \A k \in Records(t) : log[t][k].seq < nextSeq[t]
  BY DEF Base, SeqsBelowNext, Records
<1>3. \A k \in Records(t) : log[t][k].seq # nextSeq[t]
  BY <1>2, Numbers
<1> QED BY <1>1, <1>3 DEF Fits

\* Enlisting a table keeps the others' entries and numbers it as it writes.
LEMMA EnlistNumbers ==
  ASSUME Base, RosterSeq, NEW t \in Tables, EnlistIn(t), phase = "open"
  PROVE  LET s == IF Enlisted(t) THEN SeqOf(t) ELSE nextSeq[t]
         IN  /\ s \in Nat /\ Fits(t, s)
             /\ Enlisted(t)'
             /\ \A u \in Tables : u # t => (Enlisted(u)' <=> Enlisted(u))
             /\ \A n \in 1 .. Len(roster') :
                  /\ roster'[n].t \in Tables
                  /\ roster'[n].t = t => roster'[n].seq = s
                  /\ roster'[n].t # t => n \in 1 .. Len(roster) /\ roster'[n] = roster[n]
<1> DEFINE s == IF Enlisted(t) THEN SeqOf(t) ELSE nextSeq[t]
<1>1. Enlisted(t)' /\ TypeOK
  BY EnlistedAfter DEF Base
<1>2. CASE Enlisted(t)
  <2>1. roster' = roster
    BY <1>2 DEF EnlistIn
  <2>2. \A n \in 1 .. Len(roster) : roster[n].t \in Tables
    BY <1>1, RosterType
  <2>3. Fits(t, s) /\ s \in Nat
    BY <1>2, EnlistedFits
  <2>4. \A n \in 1 .. Len(roster) : roster[n].t = t => roster[n].seq = s
    BY <1>2, EnlistedFits
  <2>5. \A u \in Tables : Enlisted(u)' <=> Enlisted(u)
    BY <2>1 DEF Enlisted
  <2> HIDE DEF s
  <2>6. /\ s \in Nat /\ Fits(t, s)
        /\ Enlisted(t)'
        /\ \A u \in Tables : u # t => (Enlisted(u)' <=> Enlisted(u))
        /\ \A n \in 1 .. Len(roster') :
             /\ roster'[n].t \in Tables
             /\ roster'[n].t = t => roster'[n].seq = s
             /\ roster'[n].t # t => n \in 1 .. Len(roster) /\ roster'[n] = roster[n]
    BY <1>1, <2>1, <2>2, <2>3, <2>4, <2>5
  <2> QED BY <2>6 DEF s
<1>3. CASE ~Enlisted(t)
  <2>1. /\ Len(roster') = Len(roster) + 1 /\ Len(roster) \in Nat /\ roster' \in Seq(Entry)
        /\ \A i \in 1 .. Len(roster) : roster'[i] = roster[i] /\ roster[i].t \in Tables
        /\ roster'[Len(roster) + 1].t = t /\ roster'[Len(roster) + 1].seq = nextSeq[t]
    <3>1. roster'[Len(roster) + 1] = [t |-> t, seq |-> nextSeq[t], lsn |-> Len(log[t])]
      BY <1>1, <1>3, EnlistProperties
    <3>2. roster'[Len(roster) + 1].t = t /\ roster'[Len(roster) + 1].seq = nextSeq[t]
      BY <3>1
    <3> QED BY <1>1, <1>3, <3>2, EnlistProperties, RosterType
  <2>2. DOMAIN roster' = 1 .. Len(roster) + 1 /\ DOMAIN roster = 1 .. Len(roster)
    BY <1>1, <2>1, LenProperties, RosterType
  <2>3. \A i \in 1 .. Len(roster) : roster[i].t # t
    BY <1>3, <2>2 DEF Enlisted
  <2>4. \A n \in 1 .. Len(roster') : n \in 1 .. Len(roster) \/ n = Len(roster) + 1
    BY <2>1
  <2>5. \A n \in 1 .. Len(roster') :
          /\ roster'[n].t \in Tables
          /\ roster'[n].t = t => roster'[n].seq = nextSeq[t]
          /\ roster'[n].t # t => n \in 1 .. Len(roster) /\ roster'[n] = roster[n]
    BY <2>1, <2>3, <2>4
  <2>6. \A u \in Tables : u # t => (Enlisted(u)' <=> Enlisted(u))
    BY <2>1, <2>2, <2>4, <2>5 DEF Enlisted
  <2> QED BY <1>1, <1>3, <2>5, <2>6, FreshFits, Numbers
<1> QED BY <1>2, <1>3

\* A statement stages one record under its transaction's number.
LEMMA WriteFacts ==
  ASSUME Base, RosterSeq, NEW t \in Tables, Write(t)
  PROVE  /\ phase = "open" /\ mode = "up" /\ cur \in Txs
         /\ Enlisted(t)' /\ \A u \in Tables : u # t => (Enlisted(u)' <=> Enlisted(u))
         /\ \A u \in Tables : u # t => log'[u] = log[u]
         /\ \E r \in Record :
              /\ Grows(t, r) /\ r.tag = "stage" /\ r.tx = cur /\ Fits(t, r.seq)
              /\ \A n \in 1 .. Len(roster') :
                   /\ roster'[n].t \in Tables
                   /\ roster'[n].t = t => roster'[n].seq = r.seq
                   /\ roster'[n].t # t => n \in 1 .. Len(roster) /\ roster'[n] = roster[n]
<1> DEFINE s == IF Enlisted(t) THEN SeqOf(t) ELSE nextSeq[t]
           r == Rec("stage", t, s)
<1>1. phase = "open" /\ mode = "up" /\ EnlistIn(t) /\ Push(t, r)
  BY DEF Write
<1>2. /\ s \in Nat /\ Fits(t, s)
      /\ Enlisted(t)'
      /\ \A u \in Tables : u # t => (Enlisted(u)' <=> Enlisted(u))
      /\ \A n \in 1 .. Len(roster') :
           /\ roster'[n].t \in Tables
           /\ roster'[n].t = t => roster'[n].seq = s
           /\ roster'[n].t # t => n \in 1 .. Len(roster) /\ roster'[n] = roster[n]
  BY <1>1, EnlistNumbers
<1>3. r \in Record /\ r.tag = "stage" /\ r.tx = cur /\ r.seq = s
  BY <1>2, Numbers DEF Rec, Record
<1> HIDE DEF r, s
<1>4. Grows(t, r) /\ \A u \in Tables : u # t => log'[u] = log[u]
  BY <1>1, <1>3, PushProperties DEF Base, Grows, Records
<1> QED BY <1>1, <1>2, <1>3, <1>4, Numbers

\* The coordinator is the last table of the roster, under its own number.
LEMMA CoordFacts ==
  ASSUME Base, RosterSeq, roster # << >>
  PROVE  /\ Coord \in Tables /\ CoordSeq \in Nat /\ Enlisted(Coord)
         /\ Fits(Coord, CoordSeq)
         /\ Len(roster) \in 1 .. Len(roster)
         /\ \A n \in 1 .. Len(roster) : roster[n].t = Coord <=> n = Len(roster)
<1>1. Len(roster) \in 1 .. Len(roster) /\ DOMAIN roster = 1 .. Len(roster)
  BY RosterType DEF Base
<1>2. Coord \in Tables /\ CoordSeq \in Nat /\ Enlisted(Coord)
  BY <1>1, RosterType DEF Base, Coord, CoordSeq, Enlisted
<1>3. \A n \in 1 .. Len(roster) : roster[n].t = Coord <=> n = Len(roster)
  BY <1>1 DEF Base, RosterMarksTail, Coord
<1>4. Fits(Coord, CoordSeq)
  BY <1>1 DEF Fits, RosterSeq, Coord, CoordSeq
<1> QED BY <1>1, <1>2, <1>3, <1>4

\* COMMIT logs a prepare in every table but the coordinator's.
LEMMA PrepareFacts ==
  ASSUME Base, RosterSeq, PrepareAll
  PROVE  /\ phase = "open" /\ mode = "up" /\ dark = {} /\ roster # << >> /\ roster' = roster
         /\ \A t \in Tables : ~(Enlisted(t) /\ t # Coord) => log'[t] = log[t]
         /\ \A t \in Tables : Enlisted(t) /\ t # Coord =>
              \E r \in Record : /\ Grows(t, r) /\ r.tag = "prepare" /\ r.tx = cur
                                /\ r.coord = Coord /\ r.cseq = CoordSeq /\ Fits(t, r.seq)
<1>1. /\ phase = "open" /\ mode = "up" /\ dark = {} /\ roster' = roster
      /\ roster # << >> /\ Coord \in Tables /\ CoordSeq \in Nat
  BY PrepareAllProperties DEF PrepareAll, Base
<1>2. ASSUME NEW t \in Tables, Enlisted(t), t # Coord
      PROVE  \E r \in Record : /\ Grows(t, r) /\ r.tag = "prepare" /\ r.tx = cur
                               /\ r.coord = Coord /\ r.cseq = CoordSeq /\ Fits(t, r.seq)
  <2> DEFINE r == [tag |-> "prepare", seq |-> SeqOf(t), tx |-> cur,
                   coord |-> Coord, cseq |-> CoordSeq]
  <2>1. SeqOf(t) \in Nat /\ Fits(t, SeqOf(t))
    BY <1>2, EnlistedFits
  <2>2. /\ r \in Record /\ r.tag = "prepare" /\ r.tx = cur /\ r.seq = SeqOf(t)
        /\ r.coord = Coord /\ r.cseq = CoordSeq
    BY <1>1, <2>1, Numbers DEF Record
  <2>3. Grows(t, r)
    BY <1>2, PrepareAllProperties DEF Base, Grows, Records
  <2> HIDE DEF r
  <2> QED BY <2>1, <2>2, <2>3
<1>3. \A t \in Tables : ~(Enlisted(t) /\ t # Coord) => log'[t] = log[t]
  BY PrepareAllProperties DEF Base
<1> QED BY <1>1, <1>2, <1>3

\* The coordinator's marker: a commit of a lone table, or a decision behind
\* the prepares.
LEMMA MarkFacts ==
  ASSUME Base, RosterSeq, Mark
  PROVE  /\ phase \in {"open", "barrier"} /\ mode = "up" /\ cur \in Txs
         /\ roster # << >> /\ roster' = roster /\ phase' = "marked"
         /\ \A t \in Tables : t # Coord => log'[t] = log[t]
         /\ \E r \in Record : /\ Grows(Coord, r) /\ IsMarker(r) /\ r.tx = cur
                              /\ r.seq = CoordSeq
                              /\ \/ r.tag = "commit" /\ Len(roster) = 1 /\ dark = {}
                                 \/ r.tag = "decide" /\ phase = "barrier"
<1>1. /\ phase \in {"open", "barrier"} /\ mode = "up" /\ roster # << >> /\ roster' = roster
      /\ phase' = "marked"
  BY DEF Mark
<1>2. Coord \in Tables /\ CoordSeq \in Nat /\ cur \in Txs /\ cur \in Nat
  BY <1>1, CoordFacts, Numbers
<1>3. PICK tag \in {"commit", "decide"} :
        /\ Push(Coord, Rec(tag, Coord, CoordSeq))
        /\ \/ tag = "commit" /\ Len(roster) = 1 /\ dark = {}
           \/ tag = "decide" /\ phase = "barrier"
  BY DEF Mark
<1> DEFINE r == Rec(tag, Coord, CoordSeq)
<1>4. r \in Record /\ r.tag = tag /\ r.tx = cur /\ r.seq = CoordSeq
  BY <1>2 DEF Rec, Record
<1>5. Grows(Coord, r) /\ \A t \in Tables : t # Coord => log'[t] = log[t]
  BY <1>2, <1>3, <1>4, PushProperties DEF Base, Grows, Records
<1> HIDE DEF r
<1> QED BY <1>1, <1>2, <1>3, <1>4, <1>5 DEF IsMarker

\* A log gains a record of the running transaction.
Adds(t) == \E r \in Record : Grows(t, r) /\ r.tx = cur /\ Fits(t, r.seq)

\* The three actions that write to a log extend some of them.
LEMMA AppendFacts ==
  ASSUME Base, RosterSeq, PrepareAll \/ Mark \/ \E t \in Tables : Write(t)
  PROVE  /\ phase \in {"open", "barrier"} /\ mode = "up" /\ cur \in Txs
         /\ UNCHANGED <<cur, origin, carried, wm, parts, mem, status, fold, mode, dark>>
         /\ \A t \in Tables : log'[t] = log[t] \/ Adds(t)
<1>1. CASE PrepareAll
  <2>1. \A t \in Tables : log'[t] = log[t] \/ Adds(t)
    BY <1>1, PrepareFacts DEF Adds
  <2> QED BY <1>1, <2>1, PrepareFacts, Numbers DEF PrepareAll, tabVars
<1>2. CASE Mark
  <2>1. \A t \in Tables : log'[t] = log[t] \/ Adds(t)
    BY <1>2, MarkFacts, CoordFacts DEF Adds
  <2> QED BY <1>2, <2>1, MarkFacts DEF Mark, tabVars
<1>3. ASSUME NEW u \in Tables, Write(u)
      PROVE  /\ phase \in {"open", "barrier"} /\ mode = "up" /\ cur \in Txs
             /\ UNCHANGED <<cur, origin, carried, wm, parts, mem, status, fold, mode, dark>>
             /\ \A t \in Tables : log'[t] = log[t] \/ Adds(t)
  <2>1. \A t \in Tables : log'[t] = log[t] \/ Adds(t)
    BY <1>3, WriteFacts DEF Adds
  <2> QED BY <1>3, <2>1, WriteFacts DEF Write, tabVars
<1> QED BY <1>1, <1>2, <1>3

\* A log is cut back to before the first record of the running transaction.
Cut(t, n) ==
  /\ n \in Nat /\ n <= Len(log[t]) /\ Len(log'[t]) = n
  /\ Records(t)' \subseteq Records(t)
  /\ \A k \in Records(t)' : log'[t][k] = log[t][k]
  /\ \A k \in Records(t) : k \in Records(t)' <=> log[t][k].tx # cur

\* ROLLBACK takes the records of its transaction off the first table it left.
LEMMA RewindFacts ==
  ASSUME Base, RosterSeq, RewindFirst
  PROVE  /\ roster # << >> /\ phase = "discard" /\ mode = "up" /\ cur \in Txs
         /\ UNCHANGED <<origin, carried, hseq, wm, parts, mem, dark, phase, cur, status,
                        foot, fold, mode>>
         /\ Len(roster') = Len(roster) - 1
         /\ \A i \in 1 .. Len(roster') : i + 1 \in 1 .. Len(roster) /\ roster'[i] = roster[i + 1]
         /\ \E u \in Tables :
              /\ u = roster[1].t /\ Enlisted(u)
              /\ \A t \in Tables : t # u => log'[t] = log[t]
              /\ \E n \in Nat : Cut(u, n) /\ origin[u] <= n
              /\ \A t \in Tables : Enlisted(t)' <=> (Enlisted(t) /\ t # u)
<1>1. /\ roster # << >> /\ phase = "discard" /\ mode = "up"
      /\ UNCHANGED <<origin, carried, hseq, wm, parts, mem, dark, phase, cur, status,
                     foot, fold, mode>>
  BY DEF RewindFirst, tabVars
<1>2. PICK e : e = roster[1]
  OBVIOUS
<1>3. /\ e.t \in Tables /\ e.lsn \in Nat /\ 1 \in 1 .. Len(roster)
      /\ \A u \in Tables : u # e.t => log'[u] = log[u]
      /\ Len(log'[e.t]) = e.lsn /\ e.lsn <= Len(log[e.t])
      /\ \A i \in 1 .. e.lsn : log'[e.t][i] = log[e.t][i]
      /\ Len(roster') = Len(roster) - 1
      /\ \A i \in 1 .. Len(roster') : roster'[i] = roster[i + 1]
  BY <1>2, RewindProperties DEF Base
<1>4. MarksTail(e)
  BY <1>2, <1>3 DEF Base, RosterMarksTail
<1>5. Cut(e.t, e.lsn) /\ origin[e.t] <= e.lsn
  <2>1. Records(e.t)' = 1 .. e.lsn /\ Records(e.t) = 1 .. Len(log[e.t]) /\ Len(log[e.t]) \in Nat
    BY <1>3, Numbers DEF Records
  <2>2. \A k \in Records(e.t) : log[e.t][k].tx = cur <=> k > e.lsn
    BY <1>4, <2>1 DEF MarksTail
  <2>3. \A k \in Records(e.t) : k \in Records(e.t)' <=> log[e.t][k].tx # cur
    BY <1>3, <2>1, <2>2
  <2>4. Records(e.t)' \subseteq Records(e.t) /\ \A k \in Records(e.t)' : log'[e.t][k] = log[e.t][k]
    BY <1>3, <2>1
  <2>5. origin[e.t] <= e.lsn
    BY <1>4 DEF MarksTail
  <2> QED BY <1>3, <2>3, <2>4, <2>5 DEF Cut
<1>6. Len(roster) \in Nat /\ DOMAIN roster = 1 .. Len(roster) /\ roster' = Tail(roster)
      /\ roster \in Seq(Entry)
  BY RosterType DEF Base, RewindFirst
<1>7. DOMAIN roster' = 1 .. Len(roster) - 1
  BY <1>1, <1>3, <1>6, HeadTailProperties, LenProperties
<1>8. \A i \in 1 .. Len(roster') : i + 1 \in 1 .. Len(roster) /\ roster'[i] = roster[i + 1]
  BY <1>3, <1>6
<1>9. \A j \in 1 .. Len(roster) : j # 1 => j - 1 \in 1 .. Len(roster') /\ (j - 1) + 1 = j
  BY <1>3, <1>6
<1>10. \A i, j \in 1 .. Len(roster) : i # j => roster[i].t # roster[j].t
  BY DEF Base, RosterMarksTail
<1>11. ASSUME NEW t \in Tables
       PROVE  Enlisted(t)' <=> (Enlisted(t) /\ t # e.t)
  <2>1. ASSUME Enlisted(t)' PROVE Enlisted(t) /\ t # e.t
    <3>1. PICK i \in 1 .. Len(roster') : roster'[i].t = t
      BY <1>3, <1>7, <2>1 DEF Enlisted
    <3>2. i + 1 \in 1 .. Len(roster) /\ roster[i + 1].t = t /\ i + 1 # 1
      BY <1>3, <1>6, <1>8, <3>1
    <3> QED BY <1>2, <1>3, <1>6, <1>10, <3>2 DEF Enlisted
  <2>2. ASSUME Enlisted(t), t # e.t PROVE Enlisted(t)'
    <3>1. PICK j \in 1 .. Len(roster) : roster[j].t = t
      BY <1>6, <2>2 DEF Enlisted
    <3>2. j - 1 \in 1 .. Len(roster') /\ roster'[j - 1].t = t
      BY <1>2, <1>3, <1>6, <1>9, <2>2, <3>1
    <3> QED BY <1>3, <1>7, <3>2 DEF Enlisted
  <2> QED BY <2>1, <2>2
<1>12. Enlisted(e.t) /\ cur \in Txs
  BY <1>1, <1>2, <1>3, <1>6, Numbers DEF Enlisted
<1>13. PICK u \in Tables : u = e.t
  BY <1>3
<1> QED BY <1>1, <1>2, <1>3, <1>5, <1>8, <1>11, <1>12, <1>13

\* In an orderly environment no other step touches a log.
LEMMA LogSteps ==
  ASSUME Orderly, [Next]_vars
  PROVE  \/ PrepareAll \/ Mark \/ \E t \in Tables : Write(t)
         \/ RewindFirst
         \/ log' = log
<1>1. "power" \notin Faults
  BY DEF Orderly
<1> QED
  BY <1>1 DEF Next, vars, logVars, txVars, Begin, SyncMark, CommitEmpty, SyncFails, Rollback,
     Discarded, Kill, PowerLoss, Recover, DropHandles, EmptySweep, DarkSweep, BarrierOne, Roll, CommitFold,
     CommitTable, RollLog, Crash

-----------------------------------------------------------------------------
(* Numbers and citations.                                                   *)

\* No number comes to belong to two transactions: appends use a number that
\* is the running transaction's alone, and rewinds only take records away.
LEMMA SeqOwnerStep ==
  ASSUME Base, SeqOwner, RosterSeq, Orderly, [Next]_vars
  PROVE  SeqOwner'
<1>1. CASE PrepareAll \/ Mark \/ \E t \in Tables : Write(t)
  <2> SUFFICES ASSUME NEW t \in Tables, NEW i \in Records(t)', NEW j \in Records(t)'
               PROVE  log'[t][i].seq = log'[t][j].seq <=> log'[t][i].tx = log'[t][j].tx
    BY DEF SeqOwner
  <2>1. CASE log'[t] = log[t]
    BY <2>1 DEF SeqOwner, Records
  <2>2. ASSUME NEW r \in Record, Grows(t, r), r.tx = cur, Fits(t, r.seq)
        PROVE  log'[t][i].seq = log'[t][j].seq <=> log'[t][i].tx = log'[t][j].tx
    <3>1. \A k \in Records(t)' :
              \/ k \in Records(t) /\ log'[t][k] = log[t][k]
              \/ log'[t][k] = r
      BY <2>2, OldOrNew
    <3>2. CASE log'[t][i] = r /\ log'[t][j] = r
      BY <3>2
    <3>3. CASE i \in Records(t) /\ log'[t][i] = log[t][i] /\ log'[t][j] = r
      BY <2>2, <3>3 DEF Fits
    <3>4. CASE j \in Records(t) /\ log'[t][j] = log[t][j] /\ log'[t][i] = r
      BY <2>2, <3>4 DEF Fits
    <3>5. CASE /\ i \in Records(t) /\ log'[t][i] = log[t][i]
               /\ j \in Records(t) /\ log'[t][j] = log[t][j]
      BY <3>5 DEF SeqOwner
    <3> QED BY <3>1, <3>2, <3>3, <3>4, <3>5
  <2> QED BY <1>1, <2>1, <2>2, AppendFacts DEF Adds
<1>2. CASE RewindFirst
  <2>1. PICK u \in Tables : \E n \in Nat : Cut(u, n) /\ \A t \in Tables : t # u => log'[t] = log[t]
    BY <1>2, RewindFacts
  <2>2. \A t \in Tables : /\ Records(t)' \subseteq Records(t)
                          /\ \A k \in Records(t)' : log'[t][k] = log[t][k]
    BY <2>1 DEF Cut, Records
  <2> QED BY <2>2 DEF SeqOwner
<1>3. CASE log' = log
  BY <1>3 DEF SeqOwner, Records
<1> QED BY <1>1, <1>2, <1>3, LogSteps

\* The roster's numbers stay the running transaction's.
LEMMA RosterSeqStep ==
  ASSUME Base, RosterSeq, Orderly, [Next]_vars
  PROVE  RosterSeq'
<1>1. ASSUME NEW t \in Tables, Write(t)
      PROVE  RosterSeq'
  <2>1. PICK r \in Record :
          /\ Grows(t, r) /\ r.tx = cur /\ Fits(t, r.seq)
          /\ \A n \in 1 .. Len(roster') :
               /\ roster'[n].t \in Tables
               /\ roster'[n].t = t => roster'[n].seq = r.seq
               /\ roster'[n].t # t => n \in 1 .. Len(roster) /\ roster'[n] = roster[n]
    BY <1>1, WriteFacts
  <2>2. \A u \in Tables : u # t => log'[u] = log[u]
    BY <1>1, WriteFacts
  <2>3. cur' = cur
    BY <1>1 DEF Write
  <2> SUFFICES ASSUME NEW n \in 1 .. Len(roster'), NEW u, u = roster'[n].t,
                      NEW k \in 1 .. Len(log'[u])
               PROVE  log'[u][k].seq = roster'[n].seq <=> log'[u][k].tx = cur
    BY <2>3 DEF RosterSeq, Records
  <2>4. CASE u # t
    <3>1. n \in 1 .. Len(roster) /\ roster'[n] = roster[n] /\ log'[u] = log[u]
      BY <2>1, <2>2, <2>4
    <3> QED BY <3>1 DEF RosterSeq, Records
  <2>5. CASE u = t
    <3>1. k \in Records(t)' /\ roster'[n].seq = r.seq
      BY <2>1, <2>5 DEF Records
    <3>2. \/ k \in Records(t) /\ log'[t][k] = log[t][k]
          \/ log'[t][k] = r
      BY <2>1, <3>1, OldOrNew
    <3> QED BY <2>1, <2>5, <3>1, <3>2 DEF Fits
  <2> QED BY <2>4, <2>5
<1>2. CASE PrepareAll \/ Mark
  <2>1. UNCHANGED <<roster, cur>>
    BY <1>2 DEF PrepareAll, Mark
  <2> SUFFICES ASSUME NEW n \in 1 .. Len(roster), NEW u \in Tables, u = roster[n].t,
                      NEW k \in Records(u)'
               PROVE  log'[u][k].seq = roster[n].seq <=> log'[u][k].tx = cur
    <3>1. \A n \in 1 .. Len(roster) : roster[n].t \in Tables
      BY RosterType DEF Base
    <3> QED BY <2>1, <3>1 DEF RosterSeq, Records
  <2>2. CASE log'[u] = log[u]
    BY <2>2 DEF RosterSeq, Records
  <2>3. ASSUME NEW r \in Record, Grows(u, r), r.tx = cur, Fits(u, r.seq), r.seq = roster[n].seq
        PROVE  log'[u][k].seq = roster[n].seq <=> log'[u][k].tx = cur
    <3>1. \/ k \in Records(u) /\ log'[u][k] = log[u][k]
          \/ log'[u][k] = r
      BY <2>3, OldOrNew
    <3> QED BY <2>3, <3>1 DEF Fits
  <2>4. CASE PrepareAll
    <3>1. CASE Enlisted(u) /\ u # Coord
      <4>1. Grows(u, [tag |-> "prepare", seq |-> SeqOf(u), tx |-> cur,
                      coord |-> Coord, cseq |-> CoordSeq])
        BY <2>4, <3>1, PrepareAllProperties DEF Base, Grows, Records
      <4>2. SeqOf(u) \in Nat /\ Fits(u, SeqOf(u)) /\ SeqOf(u) = roster[n].seq
        BY <3>1, EnlistedFits
      <4>3. roster # << >>
        BY <2>4, PrepareFacts
      <4>4. /\ [tag |-> "prepare", seq |-> SeqOf(u), tx |-> cur,
                coord |-> Coord, cseq |-> CoordSeq] \in Record
            /\ [tag |-> "prepare", seq |-> SeqOf(u), tx |-> cur,
                coord |-> Coord, cseq |-> CoordSeq].seq = SeqOf(u)
            /\ [tag |-> "prepare", seq |-> SeqOf(u), tx |-> cur,
                coord |-> Coord, cseq |-> CoordSeq].tx = cur
        BY <4>2, <4>3, CoordFacts, Numbers DEF Record
      <4> QED BY <2>3, <4>1, <4>2, <4>4
    <3> QED BY <2>2, <2>4, <3>1, PrepareFacts
  <2>5. CASE Mark
    <3>1. CASE u = Coord
      <4>1. PICK r \in Record : Grows(Coord, r) /\ r.tx = cur /\ r.seq = CoordSeq
        BY <2>5, MarkFacts
      <4>2. Grows(u, r)
        BY <3>1, <4>1 DEF Grows, Records
      <4>3. Fits(u, r.seq) /\ r.seq = roster[n].seq
        BY <2>5, <3>1, <4>1, CoordFacts, MarkFacts DEF CoordSeq
      <4> QED BY <2>3, <4>1, <4>2, <4>3
    <3> QED BY <2>2, <2>5, <3>1, MarkFacts
  <2> QED BY <1>2, <2>4, <2>5
<1>3. CASE RewindFirst
  <2>1. PICK u \in Tables : \E n \in Nat : Cut(u, n) /\ \A t \in Tables : t # u => log'[t] = log[t]
    BY <1>3, RewindFacts
  <2>2. \A t \in Tables : /\ Records(t)' \subseteq Records(t)
                          /\ \A k \in Records(t)' : log'[t][k] = log[t][k]
    BY <2>1 DEF Cut, Records
  <2>3. \A i \in 1 .. Len(roster') : i + 1 \in 1 .. Len(roster) /\ roster'[i] = roster[i + 1]
    BY <1>3, RewindFacts
  <2>4. \A n \in 1 .. Len(roster) : roster[n].t \in Tables
    BY RosterType DEF Base
  <2>5. cur' = cur
    BY <1>3, RewindFacts
  <2> SUFFICES ASSUME NEW i \in 1 .. Len(roster'), NEW t \in Tables, t = roster[i + 1].t,
                      NEW k \in Records(t)'
               PROVE  log'[t][k].seq = roster[i + 1].seq <=> log'[t][k].tx = cur
    BY <2>3, <2>4, <2>5 DEF RosterSeq, Records
  <2>6. k \in Records(t) /\ log'[t][k] = log[t][k]
    BY <2>2
  <2>7. PICK n \in 1 .. Len(roster) : n = i + 1
    BY <2>3
  <2>8. log[t][k].seq = roster[n].seq <=> log[t][k].tx = cur
    BY <2>6, <2>7 DEF RosterSeq
  <2> QED BY <2>6, <2>7, <2>8
<1>4. ASSUME NEW t \in Tables, DarkSweep(t)
      PROVE  RosterSeq'
  <2>1. EnlistIn(t) /\ phase = "open" /\ UNCHANGED <<log, cur>>
    BY <1>4 DEF DarkSweep, logVars
  <2>2. PICK s \in Nat :
          /\ Fits(t, s)
          /\ \A n \in 1 .. Len(roster') :
               /\ roster'[n].t \in Tables
               /\ roster'[n].t = t => roster'[n].seq = s
               /\ roster'[n].t # t => n \in 1 .. Len(roster) /\ roster'[n] = roster[n]
    BY <2>1, EnlistNumbers
  <2>3. ASSUME NEW n \in 1 .. Len(roster'), NEW u, u = roster'[n].t, NEW k \in 1 .. Len(log[u])
        PROVE  log[u][k].seq = roster'[n].seq <=> log[u][k].tx = cur
    <3>1. CASE u = t
      BY <2>2, <2>3, <3>1 DEF Fits, Records
    <3>2. CASE u # t
      BY <2>2, <2>3, <3>2 DEF RosterSeq, Records
    <3> QED BY <3>1, <3>2
  <2>4. \A n \in 1 .. Len(roster') : \A k \in 1 .. Len(log'[roster'[n].t]) :
          log'[roster'[n].t][k].seq = roster'[n].seq <=> log'[roster'[n].t][k].tx = cur'
    BY <2>1, <2>3
  <2> QED BY <2>4 DEF RosterSeq, Records
<1>5. CASE UNCHANGED <<log, cur, roster>>
  BY <1>5 DEF RosterSeq, Records
<1>6. CASE roster' = << >>
  BY <1>6, EmptySeq DEF RosterSeq
<1>7. CASE Begin
  <2>1. roster' = roster /\ roster = << >>
    BY <1>7 DEF Begin, Idle, Base, RosterMarksTail
  <2> QED BY <1>6, <2>1
<1>8. "power" \notin Faults /\ "empty_enlist" \notin Faults
  BY DEF Orderly
<1>9. CASE \/ SyncMark \/ Kill \/ \E t \in Tables : CommitFold(t)
  BY <1>6, <1>9 DEF SyncMark, Kill, Crash, CommitFold
<1>10. CASE \/ CommitEmpty \/ SyncFails \/ Rollback \/ Discarded \/ Recover \/ UNCHANGED vars
            \/ DropHandles \/ \E t \in Tables : BarrierOne(t) \/ Roll(t) \/ CommitTable(t)
  BY <1>5, <1>10 DEF CommitEmpty, SyncFails, Rollback, Discarded, Recover, vars, logVars, txVars,
                     DropHandles, BarrierOne, Roll, RollLog, CommitTable
<1> QED
  BY <1>1, <1>2, <1>3, <1>4, <1>7, <1>8, <1>9, <1>10 DEF Next, PowerLoss, EmptySweep

\* Every decision a citation can resolve against is a record of its log.
LEMMA DecisionIsLogged ==
  ASSUME Base, CarriedDecided, NEW c \in Tables, NEW s \in DecisionsOf(c)
  PROVE  \E k \in Records(c) : log[c][k].tag = "decide" /\ log[c][k].seq = s
<1>1. CASE s \in carried[c]
  BY <1>1 DEF CarriedDecided
<1>2. CASE s \notin carried[c]
  <2>1. PICK i \in {j \in Active(c) : log[c][j].tag = "decide"} : s = log[c][i].seq
    BY <1>2 DEF DecisionsOf
  <2>2. i \in Records(c)
    BY <2>1, LogType DEF Base, Active, Records
  <2> QED BY <2>1, <2>2
<1> QED BY <1>1, <1>2

\* A roll seals its log.  It keeps the decisions unless every other log is
\* within what its TABLE record covers (may_be_cited).
LEMMA RollFacts ==
  ASSUME Base, NEW t \in Tables, Roll(t) \/ CommitFold(t)
  PROVE  /\ fold = {} /\ fold' = {t} /\ mode = "up" /\ phase \in {"none", "open"}
         /\ UNCHANGED <<log, wm, parts, mem, mode, cur, status, foot>>
         /\ origin' = [origin EXCEPT ![t] = Len(log[t])]
         /\ \A u \in Tables : u # t => carried'[u] = carried[u]
         /\ carried'[t] \subseteq DecisionsOf(t)
         /\ MayBeCited(t) => DecisionsOf(t) \subseteq DecisionsOf(t)'
<1>1. /\ RollLog(t) /\ fold' = {t} /\ mode = "up" /\ phase \in {"none", "open"} /\ fold = {}
      /\ UNCHANGED <<log, wm, parts, mem, mode, cur, status, foot>>
  BY DEF Roll, CommitFold, RollLog, Idle, tabVars, txVars, Base, RosterMarksTail
<1>2. origin \in [Tables -> Nat] /\ carried \in [Tables -> SUBSET Nat] /\ Len(log[t]) \in Nat
  BY Numbers DEF Base, TypeOK
<1>3. CASE UNCHANGED <<origin, carried, hseq, synced>>
  <2>1. origin' = [origin EXCEPT ![t] = Len(log[t])]
    <3>1. \/ origin' = [origin EXCEPT ![t] = Len(log[t])]
          \/ Len(log[t]) = origin[t]
      BY <1>1 DEF RollLog
    <3> QED BY <1>2, <1>3, <3>1
  <2>2. DecisionsOf(t)' = DecisionsOf(t) /\ carried[t] \subseteq DecisionsOf(t)
    BY <1>1, <1>3 DEF DecisionsOf, Active
  <2> QED BY <1>1, <1>3, <2>1, <2>2
<1>4. CASE /\ origin' = [origin EXCEPT ![t] = Len(log[t])]
           /\ carried' = [carried EXCEPT ![t] = IF MayBeCited(t) THEN DecisionsOf(t) ELSE {}]
  <2>1. /\ \A u \in Tables : u # t => carried'[u] = carried[u]
        /\ carried'[t] = IF MayBeCited(t) THEN DecisionsOf(t) ELSE {}
    BY <1>2, <1>4
  <2>2. MayBeCited(t) => DecisionsOf(t) \subseteq DecisionsOf(t)'
    <3>1. carried'[t] \subseteq DecisionsOf(t)'
      BY DEF DecisionsOf
    <3> QED BY <2>1, <3>1
  <2> QED BY <1>1, <1>4, <2>1, <2>2
<1> QED BY <1>1, <1>3, <1>4 DEF RollLog

\* Sealed segments are never cut, so carried decisions keep their records.
LEMMA CarriedStep ==
  ASSUME Base, RosterSeq, CarriedDecided, Orderly, [Next]_vars
  PROVE  CarriedDecided'
<1>1. ASSUME UNCHANGED <<origin, carried>>,
             \A c \in Tables : \A k \in Records(c) : k <= origin[c] =>
               k \in Records(c)' /\ log'[c][k] = log[c][k]
      PROVE  CarriedDecided'
  BY <1>1 DEF CarriedDecided
<1>2. CASE PrepareAll \/ Mark \/ \E t \in Tables : Write(t)
  <2>1. ASSUME NEW c \in Tables, NEW k \in Records(c)
        PROVE  k \in Records(c)' /\ log'[c][k] = log[c][k]
    <3>1. CASE log'[c] = log[c]
      BY <3>1 DEF Records
    <3>2. ASSUME NEW r, Grows(c, r) PROVE k \in Records(c)' /\ log'[c][k] = log[c][k]
      BY <3>2, OldOrNew DEF Grows
    <3> QED BY <1>2, <3>1, <3>2, AppendFacts DEF Adds
  <2> QED BY <1>1, <1>2, <2>1, AppendFacts
<1>3. CASE RewindFirst
  <2>1. PICK u \in Tables : \E n \in Nat : /\ Cut(u, n) /\ origin[u] <= n
                                           /\ \A t \in Tables : t # u => log'[t] = log[t]
    BY <1>3, RewindFacts
  <2>2. \A k \in Records(u) : k <= origin[u] => k \in Records(u)' /\ log'[u][k] = log[u][k]
    BY <2>1, Numbers DEF Cut, Records
  <2>3. \A c \in Tables : \A k \in Records(c) : k <= origin[c] =>
               k \in Records(c)' /\ log'[c][k] = log[c][k]
    BY <2>1, <2>2 DEF Records
  <2> QED BY <1>1, <1>3, <2>3, RewindFacts
<1>4. ASSUME NEW t \in Tables, Roll(t) \/ CommitFold(t)
      PROVE  CarriedDecided'
  <2>1. /\ log' = log /\ origin' = [origin EXCEPT ![t] = Len(log[t])]
        /\ \A u \in Tables : u # t => carried'[u] = carried[u]
        /\ carried'[t] \subseteq DecisionsOf(t)
    BY <1>4, RollFacts
  <2>2. \A u \in Tables : origin'[u] = IF u = t THEN Len(log[t]) ELSE origin[u]
    BY <2>1 DEF Base, TypeOK
  <2> SUFFICES ASSUME NEW c \in Tables, NEW s \in carried'[c]
               PROVE  \E k \in Records(c) :
                        k <= origin'[c] /\ log[c][k].tag = "decide" /\ log[c][k].seq = s
    BY <2>1 DEF CarriedDecided, Records
  <2>3. CASE c = t
    <3>1. PICK k \in Records(c) : log[c][k].tag = "decide" /\ log[c][k].seq = s
      BY <2>1, <2>3, DecisionIsLogged
    <3>2. k <= origin'[c]
      BY <2>2, <2>3, Numbers DEF Records
    <3> QED BY <3>1, <3>2
  <2>4. CASE c # t
    BY <2>1, <2>2, <2>4 DEF CarriedDecided
  <2> QED BY <2>3, <2>4
<1>5. CASE UNCHANGED <<log, origin, carried>>
  BY <1>5 DEF CarriedDecided, Records
<1>6. "power" \notin Faults
  BY DEF Orderly
<1>7. CASE \/ Begin \/ CommitEmpty \/ SyncFails \/ Rollback \/ Discarded \/ Recover
           \/ SyncMark \/ Kill \/ DropHandles \/ UNCHANGED vars
           \/ \E t \in Tables : EmptySweep(t) \/ DarkSweep(t) \/ BarrierOne(t) \/ CommitTable(t)
  BY <1>5, <1>7 DEF Begin, CommitEmpty, SyncFails, Rollback, Discarded, Recover, SyncMark, Kill,
     Crash, DropHandles, vars, logVars, EmptySweep, DarkSweep, BarrierOne, CommitTable
<1> QED
  BY <1>2, <1>3, <1>4, <1>6, <1>7 DEF Next, PowerLoss

\* A TABLE record lags behind its log only while the log is empty.
LEMMA FoldsStep ==
  ASSUME Base, RosterSeq, Folds, Orderly, [Next]_vars
  PROVE  Folds'
<1>1. CASE PrepareAll \/ Mark \/ \E t \in Tables : Write(t)
  <2>1. /\ fold = {} /\ fold' = {} /\ UNCHANGED <<wm, origin>>
    BY <1>1, AppendFacts DEF Base, RosterMarksTail
  <2> QED BY <2>1 DEF Folds
<1>2. CASE RewindFirst
  <2>1. /\ fold = {} /\ fold' = {} /\ UNCHANGED <<wm, origin>>
    BY <1>2, RewindFacts DEF Base, RosterMarksTail
  <2> QED BY <2>1 DEF Folds
<1>3. ASSUME NEW t \in Tables, Roll(t) \/ CommitFold(t)
      PROVE  Folds'
  <2>1. /\ fold = {} /\ fold' = {t} /\ mode' = "up" /\ UNCHANGED <<log, wm>>
        /\ origin' = [origin EXCEPT ![t] = Len(log[t])]
    BY <1>3, RollFacts
  <2>2. \A u \in Tables : origin'[u] = IF u = t THEN Len(log[t]) ELSE origin[u]
    BY <2>1 DEF Base, TypeOK
  <2> QED BY <2>1, <2>2 DEF Folds
<1>4. ASSUME NEW t \in Tables, CommitTable(t)
      PROVE  Folds'
  <2>1. /\ wm' = [wm EXCEPT ![t] = origin[t]] /\ t \in fold /\ fold' = {} /\ origin' = origin
    BY <1>4 DEF CommitTable, logVars
  <2>2. \A u \in Tables : wm'[u] = IF u = t THEN origin[t] ELSE wm[u]
    BY <2>1 DEF Base, TypeOK
  <2> QED BY <2>1, <2>2 DEF Folds
<1>5. CASE Kill
  <2>1. fold = {} /\ fold' = {} /\ UNCHANGED <<wm, origin>>
    BY <1>5 DEF Kill, Crash, Orderly, tabVars
  <2> QED BY <2>1 DEF Folds
<1>6. CASE \/ Begin \/ CommitEmpty \/ SyncFails \/ Rollback \/ Discarded \/ Recover
           \/ SyncMark \/ DropHandles \/ UNCHANGED vars
           \/ \E t \in Tables : EmptySweep(t) \/ DarkSweep(t) \/ BarrierOne(t)
  <2>1. UNCHANGED <<log, wm, origin, fold>> /\ (mode' = "down" => mode = "down")
    BY <1>6 DEF Begin, CommitEmpty, SyncFails, Rollback, Discarded, Recover, SyncMark,
       DropHandles, vars, logVars, tabVars, EmptySweep, DarkSweep, BarrierOne
  <2> QED BY <2>1 DEF Folds
<1>7. "power" \notin Faults
  BY DEF Orderly
<1> QED
  BY <1>1, <1>2, <1>3, <1>4, <1>5, <1>6, <1>7 DEF Next, PowerLoss

\* Transactions run one after the other, across crashes.
LEMMA StatusesStep ==
  ASSUME Base, Statuses, Orderly, [Next]_vars
  PROVE  Statuses'
<1>0. /\ cur \in Nat /\ MaxTxs \in Nat /\ (phase # "none" => cur \in Txs)
      /\ Txs = 1 .. MaxTxs /\ status \in [Txs -> {"idle", "active", "committed", "aborted"}]
  BY Numbers, TxnAssumption DEF Txs, Base, TypeOK
<1>1. CASE Begin
  <2>1. /\ cur' = cur + 1 /\ cur + 1 \in Txs /\ phase' = "open" /\ mode = "up" /\ phase = "none"
        /\ status' = [status EXCEPT ![cur + 1] = "active"]
    BY <1>0, <1>1 DEF Begin, Idle
  <2>2. \A x \in Txs : status'[x] = IF x = cur + 1 THEN "active" ELSE status[x]
    BY <1>0, <2>1
  <2>3. \A x \in Txs : status[x] # "active" /\ (x > cur => status[x] = "idle")
    BY <2>1 DEF Statuses
  <2>4. \A x \in Txs : x > cur + 1 => x > cur /\ x # cur + 1
    BY <1>0
  <2> QED BY <2>1, <2>2, <2>3, <2>4 DEF Statuses
<1>2. ASSUME NEW o \in {"committed", "aborted"},
             status' = [status EXCEPT ![cur] = o], cur' = cur, phase' = "none", phase # "none"
      PROVE  Statuses'
  <2>1. \A x \in Txs : status'[x] = IF x = cur THEN o ELSE status[x]
    BY <1>0, <1>2
  <2>2. \A x \in Txs : x > cur => x # cur
    BY <1>0
  <2> QED BY <1>2, <2>1, <2>2 DEF Statuses
<1>3. CASE SyncMark \/ CommitEmpty \/ Discarded
  <2>1. PICK o \in {"committed", "aborted"} :
             status' = [status EXCEPT ![cur] = o] /\ cur' = cur /\ phase' = "none" /\ phase # "none"
    BY <1>3 DEF SyncMark, CommitEmpty, Discarded, Publish
  <2> QED BY <1>2, <2>1
<1>4. ASSUME NEW t \in Tables, CommitTable(t)
      PROVE  Statuses'
  <2>1. cur' = cur /\ phase' = "none" /\ mode = "up" /\ phase \in {"none", "folding"}
    BY <1>4 DEF CommitTable, Base, RosterMarksTail
  <2>2. \A x \in Txs :
          status'[x] = IF phase = "folding" /\ x = cur THEN "committed" ELSE status[x]
    BY <1>4 DEF CommitTable
  <2>3. \A x \in Txs : x > cur => x # cur
    BY <1>0
  <2>4. phase = "folding" => cur \in Txs /\ status[cur] = "active"
    BY <1>0 DEF Statuses
  <2>5. \A x \in Txs : status'[x] # "active"
    BY <2>1, <2>2, <2>4 DEF Statuses
  <2>6. \A x \in Txs : x > cur => status'[x] = "idle"
    BY <2>2, <2>3 DEF Statuses
  <2> QED BY <2>1, <2>5, <2>6 DEF Statuses
<1>5. CASE Recover
  <2>1. /\ mode = "down" /\ phase = "none" /\ phase' = "none" /\ cur' = cur
        /\ \A x \in Txs : IF status[x] # "active" THEN status'[x] = status[x]
                          ELSE status'[x] \in {"committed", "aborted"}
    BY <1>5 DEF Recover, Base, RosterMarksTail
  <2> QED BY <2>1 DEF Statuses
<1>6. CASE Kill
  BY <1>6 DEF Kill, Crash, Statuses
<1>7. CASE \/ SyncFails \/ Rollback \/ RewindFirst \/ PrepareAll \/ Mark \/ UNCHANGED vars
           \/ \E t \in Tables : Write(t) \/ EmptySweep(t) \/ DarkSweep(t) \/ BarrierOne(t)
                                \/ Roll(t) \/ CommitFold(t)
           \/ DropHandles
  <2>1. UNCHANGED <<cur, status, mode>> /\ (phase = "none" <=> phase' = "none")
    BY <1>7 DEF SyncFails, FailsAt, Rollback, RewindFirst, PrepareAll, Mark, vars, txVars,
       Write, EmptySweep, DarkSweep, BarrierOne, Roll, CommitFold, RollLog, DropHandles
  <2> QED BY <2>1 DEF Statuses
<1>8. "power" \notin Faults
  BY DEF Orderly
<1> QED
  BY <1>1, <1>3, <1>4, <1>5, <1>6, <1>7, <1>8 DEF Next, PowerLoss

\* A transaction's records lie in its tables, and the roster has its tables.
LEMMA FeetStep ==
  ASSUME Base, RosterSeq, Feet, Orderly, [Next]_vars
  PROVE  Feet'
<1>0. /\ phase # "none" => cur \in Txs
      /\ foot \in [Txs -> SUBSET Tables] /\ dark \subseteq Tables
      /\ phase \in {"none", "folding"} => roster = << >>
      /\ phase \notin {"open", "discard"} => dark = {}
      /\ roster = << >> => \A t \in Tables : ~Enlisted(t)
  <2>1. roster = << >> => \A t \in Tables : ~Enlisted(t)
    BY EmptySeq DEF Enlisted
  <2>2. phase \in {"none", "folding"} => roster = << >>
    BY DEF Base, RosterMarksTail
  <2>3. phase \notin {"open", "discard"} => dark = {}
    BY DEF Feet
  <2> QED BY <2>1, <2>2, <2>3, Numbers DEF Base, TypeOK
<1>1. ASSUME NEW t \in Tables, Write(t)
      PROVE  Feet'
  <2>1. /\ phase = "open" /\ phase' = "open" /\ UNCHANGED <<cur, dark, fold>>
        /\ foot' = [foot EXCEPT ![cur] = @ \cup {t}]
        /\ ~Enlisted(t) => dark = {}
    BY <1>1 DEF Write, EnlistIn
  <2>2. /\ \A x \in Txs : foot'[x] = IF x = cur THEN foot[cur] \cup {t} ELSE foot[x]
        /\ cur \in Txs /\ cur \in Nat
    BY <1>0, <2>1, Numbers
  <2>3. /\ Enlisted(t)' /\ \A u \in Tables : u # t => (Enlisted(u)' <=> Enlisted(u))
        /\ \A u \in Tables : u # t => log'[u] = log[u]
    BY <1>1, WriteFacts
  <2>4. PICK r \in Record : Grows(t, r) /\ r.tx = cur
    BY <1>1, WriteFacts
  <2>5. ASSUME NEW u \in Tables, NEW k \in Records(u)'
        PROVE  log'[u][k].tx \in Txs /\ u \in foot'[log'[u][k].tx]
    <3>1. CASE u = t
      <4>1. \/ k \in Records(t) /\ log'[t][k] = log[t][k]
            \/ log'[t][k] = r
        BY <2>4, <3>1, OldOrNew
      <4>2. CASE k \in Records(t) /\ log'[t][k] = log[t][k]
        <5>1. log[t][k].tx \in Txs /\ t \in foot[log[t][k].tx]
          BY <4>2 DEF Feet
        <5> QED BY <2>2, <3>1, <4>2, <5>1
      <4>3. CASE log'[t][k] = r
        BY <2>2, <2>4, <3>1, <4>3
      <4> QED BY <4>1, <4>2, <4>3
    <3>2. CASE u # t
      <4>1. k \in Records(u) /\ log'[u][k] = log[u][k]
        BY <2>3, <3>2 DEF Records
      <4>2. log[u][k].tx \in Txs /\ u \in foot[log[u][k].tx]
        BY <4>1 DEF Feet
      <4> QED BY <2>2, <4>1, <4>2
    <3> QED BY <3>1, <3>2
  <2>6. \A u \in Tables : Enlisted(u)' => u \in foot'[cur]
    BY <2>1, <2>2, <2>3 DEF Feet
  <2>7. \A u \in foot'[cur] : Enlisted(u)'
    BY <1>0, <2>1, <2>2, <2>3 DEF Feet
  <2>8. \A d \in dark : foot'[cur] = {d}
    BY <1>0, <2>1, <2>2 DEF Feet
  <2> QED BY <2>1, <2>5, <2>6, <2>7, <2>8 DEF Feet
<1>2. ASSUME NEW t \in Tables, DarkSweep(t)
      PROVE  Feet'
  <2>1. /\ phase = "open" /\ phase' = "open" /\ UNCHANGED <<log, cur, fold>> /\ EnlistIn(t)
        /\ dark' = dark \cup {t} /\ foot' = [foot EXCEPT ![cur] = @ \cup {t}]
        /\ \A i \in DOMAIN roster : roster[i].t = t
    BY <1>2 DEF DarkSweep, logVars
  <2>2. /\ \A x \in Txs : foot'[x] = IF x = cur THEN foot[cur] \cup {t} ELSE foot[x]
        /\ cur \in Txs
    BY <1>0, <2>1
  <2>3. Enlisted(t)' /\ \A u \in Tables : u # t => (Enlisted(u)' <=> Enlisted(u))
    BY <2>1, EnlistNumbers
  <2>4. \A u \in Tables : Enlisted(u) => u = t
    BY <2>1 DEF Enlisted
  <2>5. foot[cur] \subseteq {t} /\ foot'[cur] = {t}
    BY <1>0, <2>1, <2>2, <2>4 DEF Feet
  <2>6. dark' = {t}
    BY <2>1, <2>5 DEF Feet
  <2>7. \A u \in Tables : \A k \in Records(u) :
          log[u][k].tx \in Txs /\ u \in foot'[log[u][k].tx]
    BY <2>2 DEF Feet
  <2>8. \A u \in Tables : \A k \in Records(u)' :
          log'[u][k].tx \in Txs /\ u \in foot'[log'[u][k].tx]
    BY <2>1, <2>7 DEF Records
  <2> QED BY <2>1, <2>3, <2>4, <2>5, <2>6, <2>8 DEF Feet
<1>3. CASE PrepareAll \/ Mark
  <2>1. /\ phase \in {"open", "barrier"} /\ phase' \in {"barrier", "marked"} /\ cur \in Txs
        /\ UNCHANGED <<cur, dark, fold, foot, roster>>
    BY <1>3, AppendFacts DEF PrepareAll, Mark
  <2>2. dark = {}
    BY <1>0, <1>3, <2>1 DEF PrepareAll, Mark
  <2>3. ASSUME NEW u \in Tables, NEW k \in Records(u)'
        PROVE  log'[u][k].tx \in Txs /\ u \in foot'[log'[u][k].tx]
    <3>1. CASE log'[u] = log[u]
      BY <2>1, <3>1 DEF Feet, Records
    <3>2. ASSUME NEW r \in Record, Grows(u, r), r.tx = cur, Enlisted(u)
          PROVE  log'[u][k].tx \in Txs /\ u \in foot'[log'[u][k].tx]
      <4>1. \/ k \in Records(u) /\ log'[u][k] = log[u][k]
            \/ log'[u][k] = r
        BY <3>2, OldOrNew
      <4>2. u \in foot[cur]
        BY <2>1, <3>2 DEF Feet
      <4> QED BY <2>1, <3>2, <4>1, <4>2 DEF Feet
    <3>3. CASE PrepareAll
      BY <3>1, <3>2, <3>3, PrepareFacts
    <3>4. CASE Mark /\ u = Coord
      <4>1. PICK r \in Record : Grows(Coord, r) /\ r.tx = cur
        BY <3>4, MarkFacts
      <4>2. Grows(u, r)
        BY <3>4, <4>1 DEF Grows, Records
      <4>3. Enlisted(u)
        BY <3>4, CoordFacts, MarkFacts
      <4> QED BY <3>2, <4>1, <4>2, <4>3
    <3>5. CASE Mark /\ u # Coord
      BY <3>1, <3>5, MarkFacts
    <3> QED BY <1>3, <3>3, <3>4, <3>5
  <2>4. \A u \in Tables : Enlisted(u)' <=> Enlisted(u)
    BY <2>1 DEF Enlisted
  <2> QED BY <1>0, <2>1, <2>2, <2>3, <2>4 DEF Feet
<1>4. CASE RewindFirst
  <2>1. PICK u \in Tables : /\ \E n \in Nat : Cut(u, n)
                            /\ \A t \in Tables : t # u => log'[t] = log[t]
                            /\ \A t \in Tables : Enlisted(t)' <=> (Enlisted(t) /\ t # u)
    BY <1>4, RewindFacts
  <2>2. \A t \in Tables : /\ Records(t)' \subseteq Records(t)
                          /\ \A k \in Records(t)' : log'[t][k] = log[t][k]
    BY <2>1 DEF Cut, Records
  <2>3. phase = "discard" /\ UNCHANGED <<phase, cur, dark, fold, foot>>
    BY <1>4, RewindFacts
  <2> QED BY <2>1, <2>2, <2>3 DEF Feet
<1>5. ASSUME NEW t \in Tables, CommitFold(t)
      PROVE  Feet'
  <2>1. UNCHANGED <<log, cur, foot>> /\ fold' = {t}
    BY <1>5, RollFacts
  <2>2. t \in dark /\ phase = "open" /\ phase' = "folding" /\ dark' = {} /\ roster' = << >>
    BY <1>5 DEF CommitFold
  <2>3. foot[cur] = {t}
    BY <2>2 DEF Feet
  <2>4. \A u \in Tables : ~Enlisted(u)'
    BY <2>2, EmptySeq DEF Enlisted
  <2> QED BY <2>1, <2>2, <2>3, <2>4 DEF Feet, Records
<1>6. ASSUME UNCHANGED <<log, foot>>, phase' = "none", dark' = {}
      PROVE  Feet'
  BY <1>6 DEF Feet, Records
<1>7. CASE SyncMark \/ Discarded \/ Kill \/ CommitEmpty \/ \E t \in Tables : CommitTable(t)
  <2>1. UNCHANGED <<log, foot>> /\ phase' = "none" /\ (dark' = {} \/ UNCHANGED dark)
    BY <1>7 DEF SyncMark, Discarded, Kill, Crash, CommitEmpty, CommitTable, logVars
  <2>2. dark' = {}
    <3>1. CASE CommitEmpty
      BY <1>0, <3>1 DEF CommitEmpty, Feet
    <3>2. CASE SyncMark \/ \E t \in Tables : CommitTable(t)
      <4>1. phase \in {"marked", "none", "folding"} /\ dark' = dark
        BY <3>2 DEF SyncMark, CommitTable, Base, RosterMarksTail
      <4> QED BY <1>0, <4>1
    <3>3. CASE Discarded \/ Kill
      BY <3>3 DEF Discarded, Kill, Crash
    <3> QED BY <1>7, <3>1, <3>2, <3>3
  <2> QED BY <1>6, <2>1, <2>2
<1>8. CASE Begin
  <2>1. /\ UNCHANGED <<log, foot, roster, dark>> /\ phase = "none" /\ phase' = "open"
        /\ cur' = cur + 1 /\ cur < MaxTxs
    BY <1>8 DEF Begin, Idle, logVars
  <2>2. cur + 1 \in Txs /\ foot[cur + 1] = {}
    <3>1. cur + 1 \in Txs /\ cur + 1 > cur
      BY <2>1, Numbers, TxnAssumption DEF Txs
    <3> QED BY <3>1 DEF Base, OwnRecords
  <2>3. roster = << >> /\ dark = {}
    BY <1>0, <2>1
  <2>4. \A u \in Tables : ~Enlisted(u)'
    BY <2>1, <2>3, EmptySeq DEF Enlisted
  <2> QED BY <2>1, <2>2, <2>3, <2>4 DEF Feet, Records
<1>9. CASE Rollback \/ SyncFails
  <2>1. /\ UNCHANGED <<log, foot, roster, dark, cur>> /\ phase \in {"open", "barrier", "marked"}
        /\ phase' = "discard"
    BY <1>9 DEF Rollback, SyncFails, FailsAt, logVars
  <2>2. \A u \in Tables : Enlisted(u)' <=> Enlisted(u)
    BY <2>1 DEF Enlisted
  <2> QED BY <2>1, <2>2 DEF Feet, Records
<1>10. CASE \/ Recover \/ DropHandles \/ UNCHANGED vars \/ \E t \in Tables : BarrierOne(t)
  <2>1. UNCHANGED <<log, foot, roster, dark, cur, phase, fold>>
    BY <1>10 DEF Recover, DropHandles, vars, logVars, txVars, BarrierOne
  <2>2. \A u : Enlisted(u)' <=> Enlisted(u)
    BY <2>1 DEF Enlisted
  <2> QED BY <2>1, <2>2 DEF Feet, Records
<1>11. ASSUME NEW t \in Tables, Roll(t)
       PROVE  Feet'
  <2>1. UNCHANGED <<log, foot, dark, phase>> /\ phase = "none"
    BY <1>11 DEF Roll, RollLog, txVars, Idle
  <2> QED BY <1>0, <1>6, <2>1
<1>12. "power" \notin Faults /\ "empty_enlist" \notin Faults
  BY DEF Orderly
<1> QED
  BY <1>1, <1>2, <1>3, <1>4, <1>5, <1>7, <1>8, <1>9, <1>10, <1>11, <1>12
     DEF Next, PowerLoss, EmptySweep

\* A citation stays good while the coordinator keeps the records of the
\* transaction that cites it.
LEMMA CiteKept ==
  ASSUME Base, NEW t \in Tables, NEW k \in Records(t), Cites(t, k), log'[t][k] = log[t][k],
         \A c \in Tables : \A i \in Records(c) :
           c = log[t][k].coord /\ log[c][i].tx = log[t][k].tx =>
             i \in Records(c)' /\ log'[c][i] = log[c][i]
  PROVE  Cites(t, k)'
<1>1. PICK c \in Tables : c = log[t][k].coord
  BY Numbers
<1>2. PICK i \in Records(c) : log[c][i].tx = log[t][k].tx /\ log[c][i].seq = log[t][k].cseq
  BY <1>1 DEF Cites
<1>3. i \in Records(c)' /\ log'[c][i] = log[c][i] /\ c # t
  BY <1>1, <1>2 DEF Cites
<1>4. i \in 1 .. Len(log'[log'[t][k].coord])
  BY <1>1, <1>3 DEF Records
<1>5. log'[t][k].coord # t
  BY <1>1, <1>3
<1>6. log'[log'[t][k].coord][i].tx = log'[t][k].tx /\ log'[log'[t][k].coord][i].seq = log'[t][k].cseq
  BY <1>1, <1>2, <1>3
<1> QED BY <1>4, <1>5, <1>6 DEF Cites, Records

\* No prepare of the running transaction exists before COMMIT.
LEMMA OpenUncited ==
  ASSUME Citations, phase = "open", NEW t \in Tables, NEW k \in Records(t),
         log[t][k].tag = "prepare"
  PROVE  log[t][k].tx # cur /\ Cites(t, k)
BY DEF Citations, CitesRunning

\* Citations stay good: the coordinator's log is the last to be rewound.
LEMMA CitationsStep ==
  ASSUME Base, RosterSeq, Citations, Feet, Orderly, [Next]_vars
  PROVE  Citations'
<1>0. cur \in Nat /\ \A t \in Tables : \A k \in Records(t) : log[t][k].tx <= cur /\ log[t][k].tx \in Nat
  BY Numbers DEF Base, OwnRecords, Records
<1>1. ASSUME PrepareAll \/ Mark \/ \E t \in Tables : Write(t),
             NEW t \in Tables, NEW k \in Records(t), log[t][k].tag = "prepare"
      PROVE  Cites(t, k)' /\ k \in Records(t)' /\ log'[t][k] = log[t][k]
  <2>1. ASSUME NEW c \in Tables, NEW i \in Records(c)
        PROVE  i \in Records(c)' /\ log'[c][i] = log[c][i]
    <3>1. CASE log'[c] = log[c]
      BY <3>1 DEF Records
    <3>2. ASSUME NEW r, Grows(c, r) PROVE i \in Records(c)' /\ log'[c][i] = log[c][i]
      BY <3>2, OldOrNew DEF Grows
    <3> QED BY <1>1, <3>1, <3>2, AppendFacts DEF Adds
  <2>2. Cites(t, k)
    BY <1>1 DEF Citations
  <2> QED BY <2>1, <2>2, CiteKept
<1>2. ASSUME NEW t \in Tables, Write(t)
      PROVE  Citations'
  <2>1. PICK r \in Record : Grows(t, r) /\ r.tag = "stage"
    BY <1>2, WriteFacts
  <2>2. phase = "open" /\ cur' = cur /\ \A u \in Tables : u # t => log'[u] = log[u]
    BY <1>2, WriteFacts DEF Write
  <2> SUFFICES ASSUME NEW u \in Tables, NEW k \in Records(u)', log'[u][k].tag = "prepare"
               PROVE  Cites(u, k)' /\ log'[u][k].tx # cur
    BY <2>2 DEF Citations
  <2>3. k \in Records(u) /\ log'[u][k] = log[u][k]
    <3>1. CASE u = t
      BY <2>1, <3>1, OldOrNew
    <3>2. CASE u # t
      BY <2>2, <3>2 DEF Records
    <3> QED BY <3>1, <3>2
  <2> QED BY <1>1, <1>2, <2>2, <2>3, OpenUncited
<1>3. CASE Mark
  <2>1. /\ phase' = "marked" /\ UNCHANGED <<roster, cur>> /\ roster # << >>
        /\ phase \in {"open", "barrier"}
        /\ \A u \in Tables : u # Coord => log'[u] = log[u]
    BY <1>3, MarkFacts DEF Mark
  <2>2. PICK r \in Record : Grows(Coord, r) /\ r.tag # "prepare"
    BY <1>3, MarkFacts DEF IsMarker
  <2> SUFFICES ASSUME NEW u \in Tables, NEW k \in Records(u)', log'[u][k].tag = "prepare"
               PROVE  Cites(u, k)' /\ (log'[u][k].tx = cur => CitesRunning(u, k)')
    BY <2>1 DEF Citations
  <2>3. k \in Records(u) /\ log'[u][k] = log[u][k]
    <3>1. CASE u = Coord
      <4>1. Grows(u, r)
        BY <2>2, <3>1 DEF Grows, Records
      <4> QED BY <2>2, <4>1, OldOrNew
    <3>2. CASE u # Coord
      BY <2>1, <3>2 DEF Records
    <3> QED BY <3>1, <3>2
  <2>4. Cites(u, k)'
    BY <1>1, <1>3, <2>3
  <2>5. ASSUME log[u][k].tx = cur PROVE CitesRunning(u, k)'
    <3>1. CitesRunning(u, k)
      BY <2>1, <2>3, <2>5 DEF Citations
    <3> QED BY <2>1, <2>3, <3>1 DEF CitesRunning, Enlisted, Coord, CoordSeq
  <2> QED BY <2>3, <2>4, <2>5
<1>4. CASE PrepareAll
  <2>1. /\ phase = "open" /\ dark = {} /\ roster # << >> /\ roster' = roster
        /\ \A t \in Tables : ~(Enlisted(t) /\ t # Coord) => log'[t] = log[t]
        /\ phase' = "barrier" /\ cur' = cur
    BY <1>4, PrepareFacts DEF PrepareAll
  <2>2. Coord \in Tables /\ Enlisted(Coord) /\ Fits(Coord, CoordSeq)
    BY <2>1, CoordFacts
  <2>3. PICK i \in Records(Coord) : log[Coord][i].tx = cur /\ log[Coord][i].seq = CoordSeq
    <3>1. Coord \in foot[cur] \ dark
      BY <2>1, <2>2 DEF Feet
    <3>2. \E i \in Records(Coord) : log[Coord][i].tx = cur
      BY <2>1, <2>2, <3>1 DEF Base, OwnRecords, Records
    <3> QED BY <2>2, <3>2 DEF Fits
  <2> SUFFICES ASSUME NEW u \in Tables, NEW k \in Records(u)', log'[u][k].tag = "prepare"
               PROVE  Cites(u, k)' /\ (log'[u][k].tx = cur => CitesRunning(u, k)')
    BY <2>1 DEF Citations
  <2>4. CASE k \in Records(u) /\ log'[u][k] = log[u][k]
    BY <1>1, <1>4, <2>1, <2>4, OpenUncited
  <2>5. CASE ~(k \in Records(u) /\ log'[u][k] = log[u][k])
    <3>1. Enlisted(u) /\ u # Coord
      BY <2>1, <2>5 DEF Records
    <3>2. log'[u][k].coord = Coord /\ log'[u][k].cseq = CoordSeq /\ log'[u][k].tx = cur
      <4>1. PICK r \in Record : Grows(u, r) /\ r.coord = Coord /\ r.cseq = CoordSeq /\ r.tx = cur
        BY <1>4, <3>1, PrepareFacts
      <4> QED BY <2>5, <4>1, OldOrNew
    <3>3. CitesRunning(u, k)'
      BY <2>1, <3>1, <3>2 DEF CitesRunning, Enlisted, Coord, CoordSeq
    <3>4. log'[Coord] = log[Coord]
      BY <2>1, <2>2
    <3>5. PICK c \in Tables : c = Coord
      BY <2>2
    <3>6. i \in Records(c)' /\ log'[c][i].tx = cur /\ log'[c][i].seq = CoordSeq
      BY <2>3, <3>4, <3>5 DEF Records
    <3>7. Cites(u, k)'
      BY <3>1, <3>2, <3>5, <3>6 DEF Cites, Records
    <3> QED BY <3>3, <3>7
  <2> QED BY <2>4, <2>5
<1>5. CASE RewindFirst
  <2>1. PICK u \in Tables :
          /\ u = roster[1].t
          /\ \E n \in Nat : Cut(u, n)
          /\ \A t \in Tables : t # u => log'[t] = log[t]
          /\ \A t \in Tables : Enlisted(t)' <=> (Enlisted(t) /\ t # u)
    BY <1>5, RewindFacts
  <2>2. \A t \in Tables : /\ Records(t)' \subseteq Records(t)
                          /\ \A k \in Records(t)' : log'[t][k] = log[t][k]
                          /\ \A k \in Records(t) : t # u \/ log[t][k].tx # cur => k \in Records(t)'
    BY <2>1 DEF Cut, Records
  <2>3. \A k \in Records(u)' : log[u][k].tx # cur
    BY <2>1, <2>2 DEF Cut
  <2>4. /\ phase = "discard" /\ UNCHANGED <<phase, cur>> /\ roster # << >>
        /\ Len(roster') = Len(roster) - 1
        /\ \A i \in 1 .. Len(roster') : i + 1 \in 1 .. Len(roster) /\ roster'[i] = roster[i + 1]
    BY <1>5, RewindFacts
  <2> SUFFICES ASSUME NEW t \in Tables, NEW k \in Records(t)', log'[t][k].tag = "prepare"
               PROVE  Cites(t, k)' /\ (log'[t][k].tx = cur => CitesRunning(t, k)')
    BY <2>4 DEF Citations
  <2>5. /\ k \in Records(t) /\ log'[t][k] = log[t][k] /\ Cites(t, k)
        /\ log[t][k].tx = cur => CitesRunning(t, k) /\ t # u
    BY <2>2, <2>3, <2>4 DEF Citations
  <2>6. CASE log[t][k].tx # cur
    BY <2>2, <2>5, <2>6, CiteKept
  <2>7. CASE log[t][k].tx = cur
    <3>1. /\ Enlisted(t) /\ t # Coord /\ t # u
          /\ log[t][k].coord = Coord /\ log[t][k].cseq = CoordSeq
      BY <2>5, <2>7 DEF CitesRunning
    <3>2. /\ Len(roster) \in 1 .. Len(roster) /\ Len(roster) \in Nat
          /\ \A n \in 1 .. Len(roster) : roster[n].t = Coord <=> n = Len(roster)
      BY <2>4, CoordFacts, Numbers
    <3>3. PICK j \in 1 .. Len(roster) : roster[j].t = t
      BY <3>1, RosterType DEF Base, Enlisted
    <3>4. Len(roster) > 1
      BY <2>1, <3>1, <3>2, <3>3
    <3>5. u # Coord
      BY <2>1, <3>2, <3>4
    <3>6. Coord' = Coord /\ CoordSeq' = CoordSeq
      <4>1. Len(roster') \in 1 .. Len(roster') /\ Len(roster') + 1 = Len(roster)
        BY <2>4, <3>2, <3>4
      <4>2. roster'[Len(roster')] = roster[Len(roster)]
        BY <2>4, <4>1
      <4> QED BY <4>2 DEF Coord, CoordSeq
    <3>7. CitesRunning(t, k)'
      BY <2>1, <2>4, <2>5, <3>1, <3>6 DEF CitesRunning
    <3>8. Cites(t, k)'
      BY <2>2, <2>5, <3>1, <3>5, CiteKept
    <3> QED BY <3>7, <3>8
  <2> QED BY <2>6, <2>7
<1>6. ASSUME log' = log,
             \A t \in Tables : \A k \in Records(t) :
               phase' # "none" /\ log[t][k].tag = "prepare" /\ log[t][k].tx = cur' =>
                 CitesRunning(t, k)'
      PROVE  Citations'
  <2> SUFFICES ASSUME NEW t \in Tables, NEW k \in Records(t), log[t][k].tag = "prepare"
               PROVE  Cites(t, k)'
    BY <1>6 DEF Citations, Records
  <2> QED BY <1>6 DEF Citations, Cites, Records
<1>7. CASE \/ SyncMark \/ CommitEmpty \/ Discarded \/ Kill \/ Recover
           \/ \E t \in Tables : Roll(t) \/ CommitTable(t)
  <2>1. log' = log /\ phase' = "none"
    BY <1>7 DEF SyncMark, CommitEmpty, Discarded, Kill, Crash, Recover, Roll, RollLog, Idle,
       CommitTable, logVars, txVars, Base, RosterMarksTail
  <2> QED BY <1>6, <2>1
<1>8. CASE Begin
  <2>1. log' = log /\ cur' = cur + 1
    BY <1>8 DEF Begin, logVars
  <2>2. \A t \in Tables : \A k \in Records(t) : log[t][k].tx # cur + 1
    BY <1>0
  <2> QED BY <1>6, <2>1, <2>2
<1>9. CASE Rollback \/ \E t \in Tables : DarkSweep(t) \/ CommitFold(t)
  <2>1. log' = log /\ cur' = cur /\ phase = "open"
    BY <1>9 DEF Rollback, DarkSweep, CommitFold, RollLog, logVars
  <2> QED BY <1>6, <2>1, OpenUncited
<1>10. CASE SyncFails \/ DropHandles \/ UNCHANGED vars \/ \E t \in Tables : BarrierOne(t)
  <2>1. /\ UNCHANGED <<log, cur, roster>>
        /\ \/ phase' = phase
           \/ phase # "none" /\ phase' = "discard"
    BY <1>10 DEF SyncFails, FailsAt, DropHandles, BarrierOne, vars, logVars, txVars
  <2>2. ASSUME NEW t \in Tables, NEW k \in Records(t), phase' # "none",
               log[t][k].tag = "prepare", log[t][k].tx = cur'
        PROVE  CitesRunning(t, k)'
    <3>1. CitesRunning(t, k)
      BY <2>1, <2>2 DEF Citations
    <3> QED BY <2>1, <3>1 DEF CitesRunning, Enlisted, Coord, CoordSeq
  <2> QED BY <1>6, <2>1, <2>2
<1>11. "power" \notin Faults /\ "empty_enlist" \notin Faults
  BY DEF Orderly
<1> QED
  BY <1>2, <1>3, <1>4, <1>5, <1>7, <1>8, <1>9, <1>10, <1>11 DEF Next, PowerLoss, EmptySweep

-----------------------------------------------------------------------------
(* What a replay shows.                                                     *)

\* Outside the window between marker and answer, markers mean committed.
LEMMA SettledMarkers ==
  ASSUME Markers, mode = "up", phase # "marked"
  PROVE  /\ \A t \in Tables : \A k \in Records(t) :
              IsMarker(log[t][k]) => status[log[t][k].tx] = "committed"
         /\ \A x : Done(x) <=> status[x] = "committed"
<1>1. \A t \in Tables : \A k \in Records(t) :
        IsMarker(log[t][k]) => status[log[t][k].tx] = "committed"
  BY DEF Markers, Undecided
<1> QED BY <1>1 DEF Done

\* A citation resolves against a decision of its own transaction only.
LEMMA ResolvedIsDone ==
  ASSUME Base, SeqOwner, Citations, CarriedDecided, NEW t \in Tables, NEW k \in Records(t),
         Released(t, k)
  PROVE  Done(log[t][k].tx)
<1>1. CASE IsMarker(log[t][k])
  BY <1>1 DEF Done
<1>2. CASE log[t][k].tag = "prepare" /\ log[t][k].cseq \in DecisionsOf(log[t][k].coord)
  <2>1. PICK c \in Tables : c = log[t][k].coord
    BY Numbers
  <2>2. PICK i \in Records(c) : log[c][i].tx = log[t][k].tx /\ log[c][i].seq = log[t][k].cseq
    BY <1>2, <2>1 DEF Citations, Cites
  <2>3. PICK j \in Records(c) : log[c][j].tag = "decide" /\ log[c][j].seq = log[t][k].cseq
    BY <1>2, <2>1, DecisionIsLogged
  <2>4. log[c][j].tx = log[t][k].tx
    BY <2>2, <2>3 DEF SeqOwner
  <2> QED BY <2>3, <2>4 DEF Done, IsMarker
<1> QED BY <1>1, <1>2 DEF Released

\* A replay releases exactly what Replayable says.
LEMMA ReplayIs ==
  ASSUME Base, SeqOwner, NEW t \in Tables, NEW x
  PROVE  x \in Replay(t) <=> x \in parts[t] \/ Replayable(x, t)
<1>0. DOMAIN log[t] = Records(t)
  BY LogType DEF Base, Records
<1>1. ASSUME NEW i \in Records(t), NEW j \in Records(t)
      PROVE  Releases(t, i, j) <=> j > i /\ log[t][j].tx = log[t][i].tx /\ Released(t, j)
  <2>1. log[t][j].seq = log[t][i].seq <=> log[t][j].tx = log[t][i].tx
    BY DEF SeqOwner
  <2> QED BY <2>1 DEF Releases, Released, IsMarker
<1>2. ASSUME Replayable(x, t) PROVE x \in Replay(t)
  <2>1. PICK i, j \in Records(t) : /\ wm[t] < i /\ i < j
                                   /\ log[t][i].tag = "stage" /\ log[t][i].tx = x
                                   /\ log[t][j].tx = x /\ Released(t, j)
    BY <1>2 DEF Replayable
  <2>2. i > wm[t] /\ j > i
    BY <2>1, Numbers
  <2>3. Releases(t, i, j)
    BY <1>1, <2>1, <2>2
  <2> QED BY <1>0, <2>1, <2>2, <2>3 DEF Replay
<1>3. ASSUME x \in Replay(t), x \notin parts[t] PROVE Replayable(x, t)
  <2>1. PICK i \in Records(t) : /\ i > wm[t] /\ log[t][i].tag = "stage" /\ log[t][i].tx = x
                                /\ \E j \in Records(t) : Releases(t, i, j)
    BY <1>0, <1>3 DEF Replay
  <2>2. PICK j \in Records(t) : Releases(t, i, j)
    BY <2>1
  <2>3. wm[t] < i /\ i < j /\ log[t][j].tx = x /\ Released(t, j)
    BY <1>1, <2>1, <2>2, Numbers
  <2> QED BY <2>1, <2>3 DEF Replayable
<1>4. x \in parts[t] => x \in Replay(t)
  BY DEF Replay
<1> QED BY <1>2, <1>3, <1>4

\* An open of a table at any instant shows the transactions past their commit
\* point that wrote to it, and no others.
LEMMA ReplayExact ==
  ASSUME AInv, NEW t \in Tables
  PROVE  /\ Replay(t) = {x \in Txs : Done(x) /\ t \in foot[x]}
<1>0. Base /\ SeqOwner /\ Citations /\ CarriedDecided /\ Feet /\ Views /\ Complete
  BY DEF AInv
<1>1. ASSUME NEW x \in Txs, Done(x), t \in foot[x]
      PROVE  x \in Replay(t)
  BY <1>0, <1>1, ReplayIs DEF Complete
<1>2. ASSUME NEW x \in Replay(t)
      PROVE  x \in Txs /\ Done(x) /\ t \in foot[x]
  <2>1. CASE x \in parts[t]
    BY <1>0, <2>1 DEF Views, Shown, Done
  <2>2. CASE Replayable(x, t)
    <3>1. PICK i, j \in Records(t) : log[t][i].tx = x /\ log[t][j].tx = x /\ Released(t, j)
      BY <2>2 DEF Replayable
    <3>2. Done(x)
      BY <1>0, <3>1, ResolvedIsDone
    <3> QED BY <1>0, <3>1, <3>2 DEF Feet
  <2> QED BY <1>0, <2>1, <2>2, ReplayIs
<1> QED BY <1>1, <1>2

\* Recovery ends the transaction a crash caught as its logs say.
LEMMA RecoverFacts ==
  ASSUME AInv, Recover
  PROVE  /\ mode = "down" /\ mode' = "up" /\ phase = "none"
         /\ UNCHANGED <<log, origin, carried, wm, parts, roster, dark, phase, cur, foot, fold>>
         /\ \A t \in Tables : mem'[t] = {x \in Txs : Done(x) /\ t \in foot[x]}
         /\ \A x \in Txs : status'[x] = "committed" <=> Done(x)
<1>1. /\ mode = "down" /\ mode' = "up" /\ phase = "none"
      /\ UNCHANGED <<log, origin, carried, wm, parts, roster, dark, phase, cur, foot, fold>>
  BY DEF Recover, logVars, AInv, Base, RosterMarksTail
<1>2. \A t \in Tables : mem'[t] = {x \in Txs : Done(x) /\ t \in foot[x]}
  BY ReplayExact DEF Recover
<1>3. ASSUME NEW x \in Txs
      PROVE  status'[x] = "committed" <=> Done(x)
  <2>0. foot[x] \subseteq Tables
    BY DEF AInv, Base, TypeOK
  <2>1. CASE status[x] = "committed"
    BY <2>1 DEF Recover, Done
  <2>2. CASE status[x] = "active"
    <3>1. status'[x] = "committed" <=> \E t \in foot[x] : x \in Replay(t)
      BY <2>2 DEF Recover
    <3>2. (\E t \in foot[x] : x \in Replay(t)) => Done(x)
      BY <2>0, ReplayExact
    <3>3. ASSUME Done(x) PROVE \E t \in foot[x] : x \in Replay(t)
      <4>1. PICK t \in Tables : \E k \in Records(t) : IsMarker(log[t][k]) /\ log[t][k].tx = x
        BY <2>2, <3>3 DEF Done
      <4>2. t \in foot[x]
        BY <4>1 DEF AInv, Feet
      <4> QED BY <3>3, <4>2, ReplayExact
    <3> QED BY <3>1, <3>2, <3>3
  <2>3. CASE status[x] \notin {"active", "committed"}
    <3>1. status'[x] = status[x]
      BY <2>3 DEF Recover
    <3>2. ~Done(x)
      <4>1. \A t \in Tables : \A k \in Records(t) : IsMarker(log[t][k]) =>
              status[log[t][k].tx] \in {"active", "committed"}
        BY DEF AInv, Markers, Undecided
      <4> QED BY <2>3, <4>1 DEF Done
    <3> QED BY <2>3, <3>1, <3>2
  <2> QED BY <2>1, <2>2, <2>3
<1> QED BY <1>1, <1>2, <1>3

-----------------------------------------------------------------------------
(* Outcomes.                                                                *)

\* A step that writes no marker and revises no outcome.
LEMMA MarkersKept ==
  ASSUME AInv, mode = "up", phase # "marked", phase' # "marked",
         \A x \in Txs : status[x] = "committed" => status'[x] = "committed",
         \A t \in Tables : \A k \in Records(t)' : IsMarker(log'[t][k]) =>
           k \in Records(t) /\ log'[t][k] = log[t][k]
  PROVE  Markers'
<1> SUFFICES ASSUME NEW t \in Tables, NEW k \in Records(t)', IsMarker(log'[t][k])
             PROVE  status'[log'[t][k].tx] = "committed"
  BY DEF Markers, IsMarker
<1>1. k \in Records(t) /\ log'[t][k] = log[t][k]
  OBVIOUS
<1>2. status[log[t][k].tx] = "committed" /\ log[t][k].tx \in Txs
  BY <1>1, SettledMarkers DEF AInv, Feet
<1> QED BY <1>1, <1>2

\* Markers keep meaning what they say.
LEMMA MarkersStep ==
  ASSUME AInv, Orderly, [Next]_vars
  PROVE  Markers'
<1>0. /\ Base /\ RosterSeq /\ Statuses /\ Markers /\ Feet
      /\ status \in [Txs -> {"idle", "active", "committed", "aborted"}]
      /\ phase # "none" => cur \in Txs /\ status[cur] = "active"
  BY Numbers DEF AInv, Base, TypeOK, Statuses
<1>1. ASSUME NEW t \in Tables, Write(t)
      PROVE  Markers'
  <2>1. PICK r \in Record : Grows(t, r) /\ r.tag = "stage"
    BY <1>0, <1>1, WriteFacts
  <2>2. \A u \in Tables : \A k \in Records(u)' : IsMarker(log'[u][k]) =>
           k \in Records(u) /\ log'[u][k] = log[u][k]
    BY <1>0, <1>1, <2>1, WriteFacts, OldOrNew DEF IsMarker, Records
  <2>3. mode = "up" /\ phase = "open" /\ phase' = "open" /\ status' = status
    BY <1>1 DEF Write
  <2> QED BY <2>2, <2>3, MarkersKept
<1>2. CASE PrepareAll
  <2>1. ASSUME NEW u \in Tables, NEW k \in Records(u)', IsMarker(log'[u][k])
        PROVE  k \in Records(u) /\ log'[u][k] = log[u][k]
    <3>1. CASE log'[u] = log[u]
      BY <3>1 DEF Records
    <3>2. ASSUME NEW r \in Record, Grows(u, r), r.tag = "prepare"
          PROVE  k \in Records(u) /\ log'[u][k] = log[u][k]
      BY <1>0, <2>1, <3>2, OldOrNew DEF IsMarker
    <3> QED BY <1>0, <1>2, <3>1, <3>2, PrepareFacts
  <2>2. mode = "up" /\ phase = "open" /\ phase' = "barrier" /\ status' = status
    BY <1>2 DEF PrepareAll
  <2> QED BY <2>1, <2>2, MarkersKept
<1>3. CASE Mark
  <2>1. /\ mode = "up" /\ phase \in {"open", "barrier"} /\ phase' = "marked" /\ roster # << >>
        /\ UNCHANGED <<status, cur>>
    BY <1>3 DEF Mark
  <2>2. PICK r \in Record : Grows(Coord, r) /\ IsMarker(r) /\ r.tx = cur
    BY <1>0, <1>3, MarkFacts
  <2>3. PICK c \in Tables : c = Coord
    BY <1>0, <2>1, CoordFacts
  <2>4. Grows(c, r) /\ \A t \in Tables : t # c => log'[t] = log[t]
    BY <1>0, <1>3, <2>2, <2>3, MarkFacts DEF Grows, Records
  <2>5. /\ Len(log[c]) + 1 \in Records(c)' /\ log'[c][Len(log[c]) + 1] = r
    BY <1>0, <2>4, OldOrNew DEF Grows
  <2>6. ASSUME NEW t \in Tables, NEW k \in Records(t)', IsMarker(log'[t][k])
        PROVE  \/ status[log'[t][k].tx] = "committed"
               \/ log'[t][k].tx = cur
    <3>1. CASE k \in Records(t) /\ log'[t][k] = log[t][k]
      BY <1>0, <2>1, <2>6, <3>1, SettledMarkers
    <3>2. CASE t = c /\ log'[t][k] = r
      BY <2>2, <3>2
    <3> QED BY <1>0, <2>4, <3>1, <3>2, OldOrNew DEF Records
  <2>7. Undecided'
    BY <1>0, <2>1 DEF Undecided
  <2> QED BY <2>1, <2>2, <2>5, <2>6, <2>7 DEF Markers
<1>4. CASE RewindFirst
  <2>1. PICK u \in Tables : \E n \in Nat : Cut(u, n) /\ \A t \in Tables : t # u => log'[t] = log[t]
    BY <1>0, <1>4, RewindFacts
  <2>2. \A t \in Tables : /\ Records(t)' \subseteq Records(t)
                          /\ \A k \in Records(t)' : log'[t][k] = log[t][k]
    BY <2>1 DEF Cut, Records
  <2>3. phase = "discard" /\ mode = "up" /\ UNCHANGED <<phase, status>>
    BY <1>0, <1>4, RewindFacts
  <2> QED BY <2>2, <2>3, MarkersKept
<1>5. ASSUME log' = log, mode = "up", phase # "marked", phase' # "marked",
             \A x \in Txs : status[x] = "committed" => status'[x] = "committed"
      PROVE  Markers'
  BY <1>5, MarkersKept DEF Records
<1>6. CASE SyncMark
  <2>1. /\ log' = log /\ phase = "marked" /\ phase' = "none"
        /\ status' = [status EXCEPT ![cur] = "committed"]
    BY <1>6 DEF SyncMark, Publish
  <2>2. \A x \in Txs : status'[x] = IF x = cur THEN "committed" ELSE status[x]
    BY <1>0, <2>1
  <2>3. \A t \in Tables : \A k \in Records(t) :
          IsMarker(log[t][k]) => status'[log[t][k].tx] = "committed"
    BY <1>0, <2>2 DEF Markers, Feet
  <2> QED BY <2>1, <2>3 DEF Markers, Records
<1>7. CASE Begin \/ CommitEmpty \/ Discarded
  <2>1. PICK x0 \in Txs, o \in {"active", "committed", "aborted"} :
          status' = [status EXCEPT ![x0] = o] /\ status[x0] # "committed"
    <3>1. CASE Begin
      <4>1. cur + 1 \in Txs /\ status' = [status EXCEPT ![cur + 1] = "active"] /\ cur + 1 > cur
        BY <1>0, <3>1, Numbers, TxnAssumption DEF Begin, Txs
      <4> QED BY <1>0, <4>1 DEF Statuses
    <3>2. CASE CommitEmpty \/ Discarded
      BY <1>0, <3>2 DEF CommitEmpty, Discarded
    <3> QED BY <1>7, <3>1, <3>2
  <2>2. \A x \in Txs : status[x] = "committed" => status'[x] = "committed"
    BY <1>0, <2>1
  <2>3. log' = log /\ mode = "up" /\ phase # "marked" /\ phase' # "marked"
    BY <1>7 DEF Begin, Idle, CommitEmpty, Discarded, logVars
  <2> QED BY <1>5, <2>2, <2>3
<1>8. ASSUME NEW t \in Tables, CommitTable(t)
      PROVE  Markers'
  <2>1. log' = log /\ mode = "up" /\ phase \in {"none", "folding"} /\ phase' = "none"
    BY <1>0, <1>8 DEF CommitTable, logVars, Base, RosterMarksTail
  <2>2. \A x \in Txs : status[x] = "committed" => status'[x] = "committed"
    BY <1>8 DEF CommitTable
  <2> QED BY <1>5, <2>1, <2>2
<1>9. CASE \/ SyncFails \/ Rollback
           \/ \E t \in Tables : DarkSweep(t) \/ BarrierOne(t) \/ Roll(t) \/ CommitFold(t)
  <2>1. "decide_error" \notin Faults
    BY DEF Orderly
  <2>2. log' = log /\ mode = "up" /\ phase # "marked" /\ phase' # "marked" /\ status' = status
    BY <1>9, <2>1 DEF SyncFails, FailsAt, Rollback, DarkSweep, BarrierOne, Roll, Idle, CommitFold,
       RollLog, logVars, txVars
  <2> QED BY <1>5, <2>2
<1>10. CASE Kill
  <2>1. UNCHANGED <<log, status, cur>> /\ mode' = "down" /\ phase' = "none"
    BY <1>10 DEF Kill, Crash
  <2> QED BY <1>0, <2>1 DEF Markers, Undecided, Records
<1>11. CASE Recover
  <2>1. log' = log /\ phase' = "none" /\ \A x \in Txs : status'[x] = "committed" <=> Done(x)
    BY <1>11, RecoverFacts
  <2>2. \A t \in Tables : \A k \in Records(t) :
          IsMarker(log[t][k]) => Done(log[t][k].tx) /\ log[t][k].tx \in Txs
    BY <1>0 DEF Done, Feet
  <2> QED BY <2>1, <2>2 DEF Markers, Records
<1>12. CASE DropHandles \/ UNCHANGED vars
  <2>1. UNCHANGED <<log, status, cur, phase, mode>>
    BY <1>12 DEF DropHandles, vars, logVars, txVars
  <2> QED BY <1>0, <2>1 DEF Markers, Undecided, Records
<1>13. "power" \notin Faults /\ "empty_enlist" \notin Faults
  BY DEF Orderly
<1> QED
  BY <1>1, <1>2, <1>3, <1>4, <1>6, <1>7, <1>8, <1>9, <1>10, <1>11, <1>12, <1>13
     DEF Next, PowerLoss, EmptySweep

\* Every table keeps showing its committed transactions: an outcome changes
\* together with the views of all the tables it touches.
LEMMA ViewsStep ==
  ASSUME AInv, Orderly, [Next]_vars
  PROVE  Views'
<1>0. /\ Base /\ RosterSeq /\ Statuses /\ Markers /\ Feet /\ Views
      /\ status \in [Txs -> {"idle", "active", "committed", "aborted"}]
      /\ foot \in [Txs -> SUBSET Tables] /\ mem \in [Tables -> SUBSET Nat]
      /\ parts \in [Tables -> SUBSET Nat]
      /\ phase # "none" => cur \in Txs /\ status[cur] = "active"
  BY Numbers DEF AInv, Base, TypeOK, Statuses
<1>1. ASSUME UNCHANGED <<mem, parts>>,
             \A x \in Txs : \A t \in Tables :
               (status'[x] = "committed" /\ t \in foot'[x]) <=> (status[x] = "committed" /\ t \in foot[x])
      PROVE  Views'
  BY <1>0, <1>1 DEF Views, Shown
<1>2. ASSUME NEW t \in Tables, Write(t) \/ DarkSweep(t)
      PROVE  Views'
  <2>1. /\ UNCHANGED <<mem, parts, status>> /\ phase = "open"
        /\ foot' = [foot EXCEPT ![cur] = @ \cup {t}]
    BY <1>2 DEF Write, DarkSweep, tabVars
  <2>2. \A x \in Txs : x # cur => foot'[x] = foot[x]
    BY <1>0, <2>1
  <2> QED BY <1>0, <1>1, <2>1, <2>2
<1>3. CASE Begin \/ Discarded
  <2>1. PICK x0 \in Txs, o \in {"active", "aborted"} :
          status' = [status EXCEPT ![x0] = o] /\ status[x0] # "committed"
    <3>1. CASE Begin
      <4>1. cur + 1 \in Txs /\ status' = [status EXCEPT ![cur + 1] = "active"] /\ cur + 1 > cur
        BY <1>0, <3>1, Numbers, TxnAssumption DEF Begin, Txs
      <4> QED BY <1>0, <4>1 DEF Statuses
    <3>2. CASE Discarded
      BY <1>0, <3>2 DEF Discarded
    <3> QED BY <1>3, <3>1, <3>2
  <2>2. \A x \in Txs : status'[x] = "committed" <=> status[x] = "committed"
    BY <1>0, <2>1
  <2>3. UNCHANGED <<mem, parts, foot>>
    BY <1>3 DEF Begin, Discarded, tabVars
  <2> QED BY <1>1, <2>2, <2>3
<1>4. CASE CommitEmpty
  <2>1. /\ UNCHANGED <<mem, parts, foot>> /\ phase = "open" /\ roster = << >>
        /\ status' = [status EXCEPT ![cur] = "committed"]
    BY <1>4 DEF CommitEmpty, tabVars
  <2>2. foot[cur] = {}
    BY <1>0, <2>1, EmptySeq DEF Feet, Enlisted
  <2>3. \A x \in Txs : x # cur => status'[x] = status[x]
    BY <1>0, <2>1
  <2> QED BY <1>1, <2>1, <2>2, <2>3
<1>5. CASE SyncMark
  <2>1. /\ \A t \in Tables : mem'[t] = IF t \in foot[cur] THEN mem[t] \cup {cur} ELSE mem[t]
        /\ status' = [status EXCEPT ![cur] = "committed"] /\ phase = "marked"
        /\ UNCHANGED <<parts, foot>>
    BY <1>5 DEF SyncMark, Publish
  <2>2. cur \in Txs /\ \A x \in Txs : status'[x] = IF x = cur THEN "committed" ELSE status[x]
    BY <1>0, <2>1
  <2>3. \A t \in Tables : Shown(t)' = Shown(t) \cup (IF t \in foot[cur] THEN {cur} ELSE {})
    BY <2>1, <2>2 DEF Shown
  <2>4. SUFFICES ASSUME NEW t \in Tables
                 PROVE  mem'[t] = Shown(t)' /\ parts'[t] \subseteq mem'[t]
    BY DEF Views
  <2>5. mem[t] = Shown(t) /\ parts[t] \subseteq mem[t] /\ parts' = parts
    BY <1>0, <2>1 DEF Views
  <2>6. CASE t \in foot[cur]
    BY <2>1, <2>3, <2>5, <2>6
  <2>7. CASE t \notin foot[cur]
    BY <2>1, <2>3, <2>5, <2>7
  <2> QED BY <2>6, <2>7
<1>6. ASSUME NEW t \in Tables, CommitTable(t)
      PROVE  Views'
  <2> DEFINE own == IF phase = "folding" THEN {cur} ELSE {}
  <2>1. /\ mem' = [mem EXCEPT ![t] = @ \cup own]
        /\ parts' = [parts EXCEPT ![t] = mem[t] \cup own]
        /\ status' = [x \in Txs |-> IF x \in own THEN "committed" ELSE status[x]]
        /\ t \in fold /\ foot' = foot
    BY <1>6 DEF CommitTable
  <2>2. phase = "folding" => cur \in Txs /\ foot[cur] = {t}
    BY <1>0, <2>1 DEF Feet
  <2>3. \A u \in Tables : Shown(u)' = Shown(u) \cup (IF u = t THEN own ELSE {})
    BY <2>1, <2>2 DEF Shown
  <2>4. \A u \in Tables : /\ mem'[u] = mem[u] \cup (IF u = t THEN own ELSE {})
                          /\ parts'[u] = IF u = t THEN mem[t] \cup own ELSE parts[u]
    BY <1>0, <2>1
  <2> QED BY <1>0, <2>3, <2>4 DEF Views
<1>7. CASE Recover
  <2>1. /\ \A t \in Tables : mem'[t] = {x \in Txs : Done(x) /\ t \in foot[x]}
        /\ \A x \in Txs : status'[x] = "committed" <=> Done(x)
        /\ UNCHANGED <<parts, foot>>
    BY <1>7, RecoverFacts
  <2>2. \A t \in Tables : parts[t] \subseteq mem'[t]
    BY <1>0, <2>1 DEF Views, Shown, Done
  <2> QED BY <2>1, <2>2 DEF Views, Shown
<1>8. CASE \/ PrepareAll \/ Mark \/ SyncFails \/ Rollback \/ RewindFirst \/ Kill \/ UNCHANGED vars
           \/ DropHandles \/ \E t \in Tables : BarrierOne(t) \/ Roll(t) \/ CommitFold(t)
  <2>1. UNCHANGED <<mem, parts, status, foot>>
    BY <1>8 DEF PrepareAll, Mark, SyncFails, Rollback, RewindFirst, Kill, Crash, vars, BarrierOne,
       DropHandles, Roll, CommitFold, RollLog, tabVars, txVars
  <2> QED BY <1>1, <2>1
<1>9. "power" \notin Faults /\ "empty_enlist" \notin Faults
  BY DEF Orderly
<1> QED
  BY <1>2, <1>3, <1>4, <1>5, <1>6, <1>7, <1>8, <1>9 DEF Next, PowerLoss, EmptySweep

\* What could be replayed still can, while the transaction's records stay and
\* no decision is dropped.
LEMMA ReplayableKept ==
  ASSUME Base, NEW t \in Tables, NEW x, Replayable(x, t), wm'[t] = wm[t],
         \A k \in Records(t) : log[t][k].tx = x => k \in Records(t)' /\ log'[t][k] = log[t][k],
         \A k \in Records(t) : \A c \in Tables :
           log[t][k].tag = "prepare" /\ log[t][k].tx = x /\ c = log[t][k].coord =>
             DecisionsOf(c) \subseteq DecisionsOf(c)'
  PROVE  Replayable(x, t)'
<1>1. PICK i, j \in Records(t) : /\ wm[t] < i /\ i < j
                                 /\ log[t][i].tag = "stage" /\ log[t][i].tx = x
                                 /\ log[t][j].tx = x /\ Released(t, j)
  BY DEF Replayable
<1>2. /\ i \in Records(t)' /\ j \in Records(t)'
      /\ log'[t][i] = log[t][i] /\ log'[t][j] = log[t][j]
  BY <1>1
<1>3. Released(t, j)'
  <2>1. CASE IsMarker(log[t][j])
    BY <1>2, <2>1 DEF Released, IsMarker
  <2>2. CASE log[t][j].tag = "prepare" /\ log[t][j].cseq \in DecisionsOf(log[t][j].coord)
    <3>1. PICK c \in Tables : c = log[t][j].coord
      BY Numbers
    <3>2. log[t][j].cseq \in DecisionsOf(c)'
      BY <1>1, <2>2, <3>1
    <3>3. log'[t][j].coord = c /\ log'[t][j].cseq = log[t][j].cseq /\ log'[t][j].tag = "prepare"
      BY <1>2, <2>2, <3>1
    <3>4. DecisionsOf(log[t][j].coord)' = DecisionsOf(c)'
      BY <3>3 DEF DecisionsOf, Active
    <3> QED BY <3>2, <3>3, <3>4 DEF Released
  <2> QED BY <1>1, <2>1, <2>2 DEF Released
<1> QED BY <1>1, <1>2, <1>3 DEF Replayable

\* Decisions stay while origins and carried decisions do and decisions of the
\* log are not cut.
LEMMA DecisionsKept ==
  ASSUME Base, NEW c \in Tables, origin'[c] = origin[c], carried'[c] = carried[c],
         log'[c] \in Seq(Record),
         \A k \in Records(c) : log[c][k].tag = "decide" => k \in Records(c)' /\ log'[c][k] = log[c][k]
  PROVE  DecisionsOf(c) \subseteq DecisionsOf(c)'
<1>1. DOMAIN log'[c] = Records(c)' /\ DOMAIN log[c] = Records(c)
  BY LogType, LenProperties DEF Base, Records
<1> SUFFICES ASSUME NEW s \in DecisionsOf(c), s \notin carried[c]
             PROVE  s \in DecisionsOf(c)'
  BY DEF DecisionsOf
<1>2. PICK i \in Records(c) : i > origin[c] /\ log[c][i].tag = "decide" /\ log[c][i].seq = s
  BY <1>1 DEF DecisionsOf, Active
<1>3. i \in DOMAIN log'[c] /\ log'[c][i] = log[c][i] /\ i > origin'[c]
  BY <1>1, <1>2
<1> QED BY <1>2, <1>3 DEF DecisionsOf, Active

\* A step that changes no log, part or watermark, and puts no transaction past
\* its commit point that was not.
LEMMA CompleteKept ==
  ASSUME AInv, UNCHANGED <<log, origin, carried, wm, parts>>,
         \A x \in Txs : status'[x] = "committed" => Done(x) \/ foot'[x] = {},
         \A x \in Txs : Done(x) => foot'[x] = foot[x]
  PROVE  Complete'
<1>1. \A x \in Txs : \A t \in Tables : Replayable(x, t) => Replayable(x, t)'
  <2>1. \A c \in Tables : DecisionsOf(c)' = DecisionsOf(c)
    BY DEF DecisionsOf, Active
  <2>2. \A t \in Tables : wm'[t] = wm[t] /\ Records(t)' = Records(t) /\ log'[t] = log[t]
    BY DEF Records
  <2> QED BY <2>1, <2>2, ReplayableKept DEF AInv
<1>2. \A x \in Txs : Done(x)' => Done(x) \/ foot'[x] = {}
  BY DEF Done, Records
<1>3. \A x \in Txs : foot[x] \subseteq Tables
  BY DEF AInv, Base, TypeOK
<1> QED BY <1>1, <1>2, <1>3 DEF AInv, Complete

\* An append that puts no transaction past its commit point.
LEMMA CompleteAppend ==
  ASSUME AInv, TypeOK', PrepareAll \/ Mark \/ \E t \in Tables : Write(t)
  PROVE  \A x \in Txs : \A t \in Tables : Replayable(x, t) => Replayable(x, t)'
<1>0. Base /\ RosterSeq
  BY DEF AInv
<1>1. UNCHANGED <<origin, carried, wm>> /\ \A t \in Tables : log'[t] = log[t] \/ Adds(t)
  BY <1>0, AppendFacts
<1>2. ASSUME NEW c \in Tables, NEW i \in Records(c)
      PROVE  i \in Records(c)' /\ log'[c][i] = log[c][i]
  <2>1. CASE log'[c] = log[c]
    BY <2>1 DEF Records
  <2>2. ASSUME NEW r, Grows(c, r) PROVE i \in Records(c)' /\ log'[c][i] = log[c][i]
    BY <1>0, <2>2, OldOrNew DEF Grows
  <2> QED BY <1>1, <2>1, <2>2 DEF Adds
<1>3. \A c \in Tables : DecisionsOf(c) \subseteq DecisionsOf(c)'
  <2>1. \A c \in Tables : log'[c] \in Seq(Record)
    BY DEF TypeOK
  <2> QED BY <1>0, <1>1, <1>2, <2>1, DecisionsKept
<1> QED BY <1>0, <1>1, <1>2, <1>3, ReplayableKept

\* The marker releases the running transaction in all of its tables.
LEMMA MarkCompletes ==
  ASSUME AInv, TypeOK', Mark, NEW t \in foot[cur]
  PROVE  Replayable(cur, t)'
<1>0. Base /\ RosterSeq /\ Folds /\ Feet /\ Citations
  BY DEF AInv
<1>1. /\ phase \in {"open", "barrier"} /\ mode = "up" /\ cur \in Txs /\ roster # << >>
      /\ UNCHANGED <<roster, cur, origin, carried, wm>>
  BY <1>0, MarkFacts, AppendFacts DEF Mark
<1>2. t \in Tables /\ Enlisted(t)
  BY <1>0, <1>1 DEF Feet, Base, TypeOK
<1>3. PICK r \in Record : /\ Grows(Coord, r) /\ IsMarker(r) /\ r.tx = cur /\ r.seq = CoordSeq
                          /\ \/ r.tag = "commit" /\ Len(roster) = 1 /\ dark = {}
                             \/ r.tag = "decide" /\ phase = "barrier"
  BY <1>0, MarkFacts
<1>4. PICK c \in Tables : c = Coord
  BY <1>0, <1>1, CoordFacts
<1>5. Grows(c, r) /\ \A u \in Tables : u # c => log'[u] = log[u]
  BY <1>0, <1>3, <1>4, MarkFacts DEF Grows, Records
<1>6. dark = {} /\ wm[t] = origin[t]
  BY <1>0, <1>1, <1>2, <1>3 DEF Feet, Folds, Base, RosterMarksTail
<1>7. PICK i \in Records(t) : log[t][i].tx = cur /\ log[t][i].tag = "stage"
  BY <1>0, <1>1, <1>2, <1>6 DEF Base, OwnRecords, Records
<1>8. PICK n \in 1 .. Len(roster) : roster[n].t = t
  BY <1>0, <1>2, RosterType DEF Base, Enlisted
<1>9. wm[t] < i
  <2>1. roster[n].lsn \in Nat /\ MarksTail(roster[n])
    BY <1>0, <1>8, RosterType DEF Base, RosterMarksTail
  <2>2. origin[t] <= roster[n].lsn /\ i > roster[n].lsn
    BY <1>7, <1>8, <2>1 DEF MarksTail, Records
  <2> QED BY <1>0, <1>2, <1>6, <2>1, <2>2, Numbers
<1>10. ASSUME NEW j \in Records(t)', i < j, log'[t][j].tx = cur, Released(t, j)'
       PROVE  Replayable(cur, t)'
  <2>1. i \in Records(t)' /\ log'[t][i] = log[t][i]
    <3>1. CASE t = c
      BY <1>0, <1>5, <1>7, <3>1, OldOrNew DEF Grows
    <3>2. CASE t # c
      BY <1>2, <1>5, <1>7, <3>2 DEF Records
    <3> QED BY <3>1, <3>2
  <2> QED BY <1>1, <1>7, <1>9, <1>10, <2>1 DEF Replayable
<1>11. CASE t = c
  <2>1. Len(log[c]) + 1 \in Records(c)' /\ log'[c][Len(log[c]) + 1] = r
    BY <1>0, <1>5, OldOrNew DEF Grows
  <2>2. i < Len(log[c]) + 1
    BY <1>0, <1>7, <1>11, Numbers DEF Records
  <2>4. PICK j : j = Len(log[c]) + 1
    OBVIOUS
  <2>5. Released(c, j)'
    BY <1>3, <2>1, <2>4 DEF Released
  <2> QED BY <1>3, <1>10, <1>11, <2>1, <2>2, <2>4, <2>5
<1>12. CASE t # c
  <2>1. n # Len(roster) /\ Len(roster) \in Nat /\ Len(roster) \in 1 .. Len(roster)
    BY <1>0, <1>1, <1>4, <1>8, <1>12, CoordFacts, Numbers
  <2>2. phase = "barrier" /\ r.tag = "decide" /\ n \in 1 .. Len(roster) - 1
    <3>0. PICK m \in Nat : m = Len(roster)
      BY <2>1
    <3>1. n \in 1 .. m /\ n # m
      BY <1>8, <2>1, <3>0
    <3>3. n \in 1 .. m - 1 /\ m # 1
      BY <3>1
    <3>2. Len(roster) # 1 /\ n \in 1 .. Len(roster) - 1
      BY <3>0, <3>3
    <3> QED BY <1>3, <3>2
  <2>3. PICK j \in Records(t) : j = Len(log[t]) /\ log[t][j].tag = "prepare" /\ log[t][j].tx = cur
    <3>1. Len(log[t]) > 0 /\ log[t][Len(log[t])].tag = "prepare" /\ log[t][Len(log[t])].tx = cur
      BY <1>0, <1>8, <2>2 DEF Base, PreparesInPlace
    <3>2. Len(log[t]) \in Records(t)
      BY <1>0, <1>2, <3>1, Numbers DEF Records
    <3> QED BY <3>1, <3>2
  <2>4. i < j
    <3>1. i # j
      BY <1>7, <2>3
    <3> QED BY <1>0, <1>2, <1>7, <2>3, <3>1, Numbers DEF Records
  <2>5. j \in Records(t)' /\ log'[t][j] = log[t][j]
    BY <1>2, <1>5, <1>12, <2>3 DEF Records
  <2>6. log[t][j].coord = c /\ log[t][j].cseq = CoordSeq
    BY <1>0, <1>1, <1>2, <1>4, <2>3 DEF Citations, CitesRunning
  <2>7. CoordSeq \in DecisionsOf(c)'
    <3>1. Len(log[c]) + 1 \in Records(c)' /\ log'[c][Len(log[c]) + 1] = r
      BY <1>0, <1>5, OldOrNew DEF Grows
    <3>2. Len(log[c]) + 1 > origin'[c]
      BY <1>0, <1>1, Numbers DEF Base, SeqsBelowNext, TypeOK
    <3>3. Len(log[c]) + 1 \in DOMAIN log'[c]
      BY <3>1, LenProperties DEF TypeOK, Records
    <3> QED BY <1>3, <2>2, <3>1, <3>2, <3>3 DEF DecisionsOf, Active
  <2>8. DecisionsOf(log[t][j].coord)' = DecisionsOf(c)'
    BY <2>5, <2>6 DEF DecisionsOf, Active
  <2>9. log'[t][j].cseq = CoordSeq /\ log'[t][j].tag = "prepare"
    BY <2>3, <2>5, <2>6
  <2>10. Released(t, j)'
    BY <2>7, <2>8, <2>9 DEF Released
  <2> QED BY <1>10, <2>3, <2>4, <2>5, <2>10
<1> QED BY <1>11, <1>12

\* Whatever passed its commit point stays recoverable in all of its tables: a
\* roll drops decisions only when no log has anything left to resolve.
LEMMA CompleteStep ==
  ASSUME AInv, TypeOK', Orderly, [Next]_vars
  PROVE  Complete'
<1>0. /\ Base /\ RosterSeq /\ Citations /\ Statuses /\ Markers /\ Feet /\ Folds /\ Views /\ Complete
      /\ status \in [Txs -> {"idle", "active", "committed", "aborted"}]
      /\ foot \in [Txs -> SUBSET Tables] /\ parts \in [Tables -> SUBSET Nat]
      /\ phase # "none" => cur \in Txs /\ status[cur] = "active"
  BY Numbers DEF AInv, Base, TypeOK, Statuses
<1>1. ASSUME mode = "up", phase \notin {"none", "marked"}
      PROVE  ~Done(cur) /\ \A x : Done(x) <=> status[x] = "committed"
  BY <1>0, <1>1, SettledMarkers
<1>2. ASSUME PrepareAll \/ \E t \in Tables : Write(t)
      PROVE  Complete'
  <2>1. phase = "open" /\ mode = "up" /\ UNCHANGED <<status, parts, cur>>
    BY <1>2 DEF PrepareAll, Write, tabVars
  <2>2. ASSUME NEW u \in Tables, NEW k \in Records(u)', IsMarker(log'[u][k])
        PROVE  k \in Records(u) /\ log'[u][k] = log[u][k]
    <3>1. CASE log'[u] = log[u]
      BY <3>1 DEF Records
    <3>2. ASSUME NEW r \in Record, Grows(u, r), r.tag \in {"prepare", "stage"}
          PROVE  k \in Records(u) /\ log'[u][k] = log[u][k]
      BY <1>0, <2>2, <3>2, OldOrNew DEF IsMarker
    <3>3. CASE PrepareAll
      BY <1>0, <3>1, <3>2, <3>3, PrepareFacts
    <3>4. CASE \E t \in Tables : Write(t)
      BY <1>0, <3>1, <3>2, <3>4, WriteFacts
    <3> QED BY <1>2, <3>3, <3>4
  <2>3. \A x \in Txs : Done(x)' => Done(x)
    BY <2>1, <2>2 DEF Done
  <2>4. \A x \in Txs : Done(x) => x # cur
    BY <1>1, <2>1
  <2>5. \A x \in Txs : x # cur => foot'[x] = foot[x]
    BY <1>0, <1>2 DEF PrepareAll, Write
  <2>6. \A x \in Txs : \A t \in Tables : Replayable(x, t) => Replayable(x, t)'
    BY <1>2, CompleteAppend
  <2> QED BY <1>0, <2>1, <2>3, <2>4, <2>5, <2>6 DEF Complete
<1>3. CASE Mark
  <2>1. UNCHANGED <<status, parts, cur, foot>> /\ mode = "up" /\ phase \in {"open", "barrier"}
        /\ roster # << >>
    BY <1>3 DEF Mark, tabVars
  <2>2. PICK r \in Record : Grows(Coord, r) /\ IsMarker(r) /\ r.tx = cur
    BY <1>0, <1>3, MarkFacts
  <2>3. PICK c \in Tables : c = Coord
    BY <1>0, <2>1, CoordFacts
  <2>4. Grows(c, r) /\ \A t \in Tables : t # c => log'[t] = log[t]
    BY <1>0, <1>3, <2>2, <2>3, MarkFacts DEF Grows, Records
  <2>5. ASSUME NEW x \in Txs, Done(x)', x # cur
        PROVE  Done(x)
    <3>1. CASE status[x] = "committed"
      BY <3>1 DEF Done
    <3>2. ASSUME NEW t \in Tables, NEW k \in Records(t)', IsMarker(log'[t][k]), log'[t][k].tx = x
          PROVE  Done(x)
      <4>1. k \in Records(t) /\ log'[t][k] = log[t][k]
        <5>1. CASE t = c
          BY <1>0, <2>2, <2>4, <2>5, <3>2, <5>1, OldOrNew
        <5>2. CASE t # c
          BY <2>4, <5>2 DEF Records
        <5> QED BY <5>1, <5>2
      <4> QED BY <3>2, <4>1 DEF Done
    <3> QED BY <2>1, <2>5, <3>1, <3>2 DEF Done
  <2>6. \A x \in Txs : \A t \in Tables : Replayable(x, t) => Replayable(x, t)'
    BY <1>3, CompleteAppend
  <2> SUFFICES ASSUME NEW x \in Txs, Done(x)', NEW t \in foot[x]
               PROVE  x \in parts[t] \/ Replayable(x, t)'
    BY <2>1 DEF Complete
  <2>7. CASE x # cur
    BY <1>0, <2>5, <2>6, <2>7 DEF Complete
  <2>8. CASE x = cur
    <3>1. \A u \in foot[cur] : Replayable(cur, u)'
      BY <1>3, MarkCompletes
    <3> QED BY <2>1, <2>8, <3>1 DEF Replayable
  <2> QED BY <2>7, <2>8
<1>4. CASE RewindFirst
  <2>1. PICK u \in Tables : \E n \in Nat : Cut(u, n) /\ \A t \in Tables : t # u => log'[t] = log[t]
    BY <1>0, <1>4, RewindFacts
  <2>2. \A t \in Tables : /\ Records(t)' \subseteq Records(t)
                          /\ \A k \in Records(t)' : log'[t][k] = log[t][k]
                          /\ \A k \in Records(t) : log[t][k].tx # cur => k \in Records(t)'
    BY <2>1 DEF Cut, Records
  <2>3. /\ phase = "discard" /\ mode = "up"
        /\ UNCHANGED <<phase, status, cur, foot, wm, parts, origin, carried>>
    BY <1>0, <1>4, RewindFacts
  <2>4. \A x \in Txs : Done(x)' => Done(x) /\ x # cur
    BY <1>1, <2>2, <2>3 DEF Done
  <2>5. \A c \in Tables : DecisionsOf(c) \subseteq DecisionsOf(c)'
    <3>1. \A c \in Tables : \A k \in Records(c) : log[c][k].tag = "decide" =>
            k \in Records(c)' /\ log'[c][k] = log[c][k]
      <4>1. \A c \in Tables : \A k \in Records(c) : log[c][k].tag = "decide" => log[c][k].tx # cur
        BY <1>0, <2>3 DEF Base, PreparesInPlace, Records
      <4> QED BY <2>2, <4>1
    <3>2. \A c \in Tables : log'[c] \in Seq(Record)
      BY DEF TypeOK
    <3> QED BY <1>0, <2>3, <3>1, <3>2, DecisionsKept
  <2>6. ASSUME NEW x \in Txs, x # cur, NEW t \in Tables, Replayable(x, t)
        PROVE  Replayable(x, t)'
    BY <1>0, <2>2, <2>3, <2>5, <2>6, ReplayableKept
  <2> QED BY <1>0, <2>3, <2>4, <2>6 DEF Complete
<1>5. ASSUME NEW t \in Tables, Roll(t) \/ CommitFold(t)
      PROVE  Complete'
  <2>1. /\ fold = {} /\ UNCHANGED <<log, wm, parts, status, foot>>
        /\ origin' = [origin EXCEPT ![t] = Len(log[t])]
        /\ \A u \in Tables : u # t => carried'[u] = carried[u]
        /\ MayBeCited(t) => DecisionsOf(t) \subseteq DecisionsOf(t)'
    BY <1>0, <1>5, RollFacts
  <2>2. \A x \in Txs : Done(x)' <=> Done(x)
    BY <2>1 DEF Done, Records
  <2>3. \A c \in Tables : c # t => DecisionsOf(c) \subseteq DecisionsOf(c)'
    <3>1. \A c \in Tables : c # t => origin'[c] = origin[c]
      BY <2>1 DEF TypeOK
    <3> QED BY <2>1, <3>1 DEF DecisionsOf, Active
  <2>4. ASSUME NEW x \in Txs, NEW u \in Tables, Replayable(x, u)
        PROVE  Replayable(x, u)'
    <3>1. \A k \in Records(u) : k \in Records(u)' /\ log'[u][k] = log[u][k]
      BY <2>1 DEF Records
    <3>2. ASSUME NEW k \in Records(u), NEW c \in Tables, log[u][k].tag = "prepare",
                 c = log[u][k].coord
          PROVE  DecisionsOf(c) \subseteq DecisionsOf(c)'
      <4>1. CASE MayBeCited(t)
        BY <2>1, <2>3, <4>1
      <4>2. CASE u = t
        BY <1>0, <2>3, <3>2, <4>2 DEF Citations, Cites
      <4>3. CASE u # t /\ ~MayBeCited(t)
        <5>1. Len(log[u]) <= wm[u]
          <6>1. ~(Len(log[u]) > Max2(origin[u], wm[u])) /\ wm[u] = origin[u]
            BY <1>0, <2>1, <4>3 DEF MayBeCited, Folds
          <6>2. wm[u] \in Nat /\ origin[u] \in Nat /\ Len(log[u]) \in Nat
            BY <1>0, Numbers
          <6> QED BY <6>1, <6>2 DEF Max2
        <5>2. PICK i \in Records(u) : wm[u] < i
          BY <2>4 DEF Replayable
        <5> QED BY <1>0, <5>1, <5>2, Numbers DEF Records
      <4> QED BY <4>1, <4>2, <4>3
    <3> QED BY <1>0, <2>1, <2>4, <3>1, <3>2, ReplayableKept
  <2> QED BY <1>0, <2>1, <2>2, <2>4 DEF Complete
<1>6. ASSUME NEW t \in Tables, CommitTable(t)
      PROVE  Complete'
  <2>1. /\ mode = "up" /\ phase \in {"none", "folding"} /\ t \in fold
        /\ UNCHANGED <<log, origin, carried, foot>>
        /\ wm' = [wm EXCEPT ![t] = origin[t]]
        /\ parts'[t] = mem'[t]
        /\ \A u \in Tables : u # t => parts'[u] = parts[u]
        /\ \A x \in Txs : status'[x] = IF phase = "folding" /\ x = cur THEN "committed" ELSE status[x]
    <3>1. mem \in [Tables -> SUBSET Nat]
      BY <1>0 DEF Base, TypeOK
    <3> QED BY <1>0, <1>6, <3>1 DEF CommitTable, logVars, Base, RosterMarksTail
  <2>2. \A x \in Txs : Done(x)' => status'[x] = "committed"
    <3>1. \A x \in Txs : Done(x) => status[x] = "committed"
      BY <1>0, <2>1, SettledMarkers
    <3>2. \A x \in Txs : Done(x)' => Done(x) \/ status'[x] = "committed"
      BY <2>1 DEF Done, Records
    <3> QED BY <2>1, <3>1, <3>2
  <2>3. Views'
    BY ViewsStep
  <2> SUFFICES ASSUME NEW x \in Txs, Done(x)', NEW u \in foot[x]
               PROVE  x \in parts'[u] \/ Replayable(x, u)'
    BY <2>1 DEF Complete
  <2>4. u \in Tables /\ status'[x] = "committed"
    BY <1>0, <2>2
  <2>5. CASE u = t
    BY <2>1, <2>3, <2>4, <2>5 DEF Views, Shown
  <2>6. CASE u # t
    <3>1. ~(phase = "folding" /\ x = cur)
      BY <1>0, <2>1, <2>6 DEF Feet
    <3>2. Done(x)
      BY <2>1, <2>4, <3>1 DEF Done
    <3>3. wm'[u] = wm[u] /\ \A c \in Tables : DecisionsOf(c) \subseteq DecisionsOf(c)'
      BY <1>0, <2>1, <2>4, <2>6 DEF DecisionsOf, Active, Base, TypeOK
    <3>4. \A k \in Records(u) : k \in Records(u)' /\ log'[u][k] = log[u][k]
      BY <2>1 DEF Records
    <3>5. Replayable(x, u) => Replayable(x, u)'
      BY <1>0, <2>4, <3>3, <3>4, ReplayableKept
    <3> QED BY <1>0, <2>1, <2>4, <2>6, <3>2, <3>5 DEF Complete
  <2> QED BY <2>5, <2>6
<1>7. ASSUME NEW t \in Tables, DarkSweep(t)
      PROVE  Complete'
  <2>1. /\ UNCHANGED <<log, origin, carried, wm, parts, status>> /\ phase = "open" /\ mode = "up"
        /\ foot' = [foot EXCEPT ![cur] = @ \cup {t}]
    BY <1>7 DEF DarkSweep, logVars, tabVars
  <2>2. \A x \in Txs : Done(x) => foot'[x] = foot[x]
    BY <1>0, <1>1, <2>1
  <2> QED BY <2>1, <2>2, CompleteKept DEF Done
<1>8. CASE Begin \/ Discarded
  <2>1. PICK x0 \in Txs, o \in {"active", "aborted"} : status' = [status EXCEPT ![x0] = o]
    <3>1. CASE Begin
      <4>1. cur + 1 \in Txs /\ status' = [status EXCEPT ![cur + 1] = "active"]
        BY <1>0, <3>1, Numbers, TxnAssumption DEF Begin, Txs
      <4> QED BY <4>1
    <3>2. CASE Discarded
      BY <1>0, <3>2 DEF Discarded
    <3> QED BY <1>8, <3>1, <3>2
  <2>2. \A x \in Txs : status'[x] = "committed" => Done(x)
    BY <1>0, <2>1 DEF Done
  <2>3. UNCHANGED <<log, origin, carried, wm, parts, foot>>
    BY <1>8 DEF Begin, Discarded, logVars, tabVars
  <2> QED BY <2>2, <2>3, CompleteKept
<1>9. CASE SyncMark
  <2>1. /\ UNCHANGED <<log, origin, carried, wm, parts, foot>> /\ phase = "marked"
        /\ status' = [status EXCEPT ![cur] = "committed"]
    BY <1>9 DEF SyncMark, Publish
  <2>2. Done(cur)
    BY <1>0, <2>1 DEF Markers, Done
  <2>3. \A x \in Txs : status'[x] = "committed" => Done(x)
    BY <1>0, <2>1, <2>2 DEF Done
  <2> QED BY <2>1, <2>3, CompleteKept
<1>10. CASE CommitEmpty
  <2>1. /\ UNCHANGED <<log, origin, carried, wm, parts, foot>> /\ phase = "open" /\ roster = << >>
        /\ status' = [status EXCEPT ![cur] = "committed"]
    BY <1>10 DEF CommitEmpty, logVars, tabVars
  <2>2. foot[cur] = {}
    BY <1>0, <2>1, EmptySeq DEF Feet, Enlisted
  <2>3. \A x \in Txs : status'[x] = "committed" => Done(x) \/ foot'[x] = {}
    BY <1>0, <2>1, <2>2 DEF Done
  <2> QED BY <2>1, <2>3, CompleteKept
<1>11. CASE Recover
  BY <1>11, RecoverFacts, CompleteKept
<1>12. CASE SyncFails \/ Rollback \/ Kill \/ DropHandles \/ UNCHANGED vars \/ \E t \in Tables : BarrierOne(t)
  <2>1. UNCHANGED <<log, origin, carried, wm, parts, foot, status>>
    BY <1>12 DEF SyncFails, Rollback, Kill, Crash, DropHandles, vars, BarrierOne, logVars, tabVars, txVars
  <2> QED BY <2>1, CompleteKept DEF Done
<1>13. "power" \notin Faults /\ "empty_enlist" \notin Faults
  BY DEF Orderly
<1> QED
  BY <1>2, <1>3, <1>4, <1>5, <1>6, <1>7, <1>8, <1>9, <1>10, <1>11, <1>12, <1>13
     DEF Next, PowerLoss, EmptySweep

-----------------------------------------------------------------------------
(* The theorems.                                                            *)

\* An empty database satisfies the invariant.
LEMMA AtomicInit == Init => AInv
<1> SUFFICES ASSUME Init PROVE AInv
  OBVIOUS
<1>1. Base
  BY TypeInit, SeqInit, RosterInit, OwnInit, PreparesInit DEF Base
<1>2. /\ \A t \in Tables : Records(t) = {} /\ carried[t] = {} /\ mem[t] = {} /\ parts[t] = {}
      /\ \A t \in Tables : wm[t] = origin[t]
  BY EmptySeq DEF Init, Records
<1>3. /\ Len(roster) = 0 /\ phase = "none" /\ fold = {} /\ dark = {} /\ mode = "up" /\ cur = 0
      /\ \A x \in Txs : status[x] = "idle" /\ foot[x] = {}
  BY EmptySeq DEF Init
<1>4. SeqOwner /\ RosterSeq /\ Citations /\ CarriedDecided
  BY <1>2, <1>3 DEF SeqOwner, RosterSeq, Citations, CarriedDecided
<1>5. Statuses /\ Markers /\ Feet /\ Folds
  BY <1>2, <1>3 DEF Statuses, Markers, Feet, Folds
<1>6. Views /\ Complete
  BY <1>2, <1>3 DEF Views, Shown, Complete
<1> QED BY <1>1, <1>4, <1>5, <1>6 DEF AInv

\* Every step preserves it.
LEMMA AtomicStep ==
  ASSUME AInv, Orderly, [Next]_vars
  PROVE  AInv'
<1>0. /\ Base /\ SeqOwner /\ RosterSeq /\ Citations /\ CarriedDecided
      /\ Statuses /\ Markers /\ Feet /\ Folds /\ Views /\ Complete
  BY DEF AInv
<1>1. Base'
  <2>1. "decide_error" \notin Faults
    BY DEF Orderly
  <2>2. TypeOK' /\ SeqsBelowNext' /\ RosterMarksTail' /\ OwnRecords' /\ PreparesInPlace'
    BY <1>0, <2>1, TypeStep, SeqStep, RosterStep, OwnStep, PreparesStep DEF Base
  <2> QED BY <2>2 DEF Base
<1>2. SeqOwner' /\ RosterSeq' /\ Citations' /\ CarriedDecided'
  BY <1>0, SeqOwnerStep, RosterSeqStep, CitationsStep, CarriedStep
<1>3. Statuses' /\ Markers' /\ Feet' /\ Folds'
  BY <1>0, StatusesStep, MarkersStep, FeetStep, FoldsStep
<1>4. Views' /\ Complete'
  BY <1>1, ViewsStep, CompleteStep DEF Base
<1> QED BY <1>1, <1>2, <1>3, <1>4 DEF AInv

\* However often the process is killed, and whichever prepare barriers fail, a
\* crash at any instant resolves every transaction the same way in all of its
\* tables, keeps the ones whose COMMIT returned and none that was rolled back
\* (Session::commit_durable, discard; Wal::replay_entries, roll).
THEOREM CrashesAreAllOrNothing ==
  ASSUME Orderly
  PROVE  Spec => []AllOrNothing
<1>1. Init => AInv
  BY AtomicInit
<1>2. AInv /\ [Next]_vars => AInv'
  BY AtomicStep
<1>3. AInv => AllOrNothing
  <2> SUFFICES ASSUME AInv, mode = "down", NEW x \in Txs, NEW t \in foot[x]
               PROVE  /\ status[x] = "committed" => x \in Replay(t)
                      /\ status[x] = "aborted" => x \notin Replay(t)
                      /\ \A u \in foot[x] : x \in Replay(t) <=> x \in Replay(u)
    BY DEF AllOrNothing
  <2>1. \A u \in foot[x] : x \in Replay(u) <=> Done(x)
    BY ReplayExact DEF AInv, Base, TypeOK
  <2>2. status[x] = "committed" => Done(x)
    BY DEF Done
  <2>3. Done(x) => status[x] \in {"active", "committed"}
    BY DEF AInv, Markers, Undecided, Done
  <2> QED BY <2>1, <2>2, <2>3
<1> QED BY <1>1, <1>2, <1>3, PTL DEF Spec

\* Every step of the engine is a step of the abstract transactions or leaves
\* them alone.
LEMMA AtomicRefines ==
  ASSUME AInv, AInv', Orderly, [Next]_vars
  PROVE  [Atomic!Next]_(Atomic!avars)
<1>0. /\ Base /\ Statuses /\ Views /\ Views'
      /\ status \in [Txs -> {"idle", "active", "committed", "aborted"}]
      /\ foot \in [Txs -> SUBSET Tables] /\ mem \in [Tables -> SUBSET Nat]
      /\ mem' \in [Tables -> SUBSET Nat]
      /\ phase # "none" => cur \in Txs /\ status[cur] = "active"
  BY Numbers DEF AInv, Base, TypeOK, Statuses
<1>1. mem' = Atomic!Committed(status', foot') /\ mem = Atomic!Committed(status, foot)
  BY <1>0 DEF Atomic!Committed, Views, Shown
<1>2. CASE UNCHANGED <<status, foot>>
  BY <1>1, <1>2 DEF Atomic!avars
<1>3. ASSUME NEW x \in Txs, status[x] = "active", NEW o \in {"committed", "aborted"},
             status' = [status EXCEPT ![x] = o], foot' = foot
      PROVE  Atomic!Next
  BY <1>1, <1>3 DEF Atomic!Next, Atomic!Finish
<1>4. CASE Begin
  <2>1. /\ cur + 1 \in Txs /\ cur + 1 > cur /\ foot' = foot /\ mem' = mem
        /\ status' = [status EXCEPT ![cur + 1] = "active"]
    BY <1>0, <1>4, Numbers, TxnAssumption DEF Begin, Txs, tabVars
  <2>2. status[cur + 1] = "idle"
    BY <1>0, <2>1 DEF Statuses
  <2> QED BY <2>1, <2>2 DEF Atomic!Next, Atomic!Start
<1>5. ASSUME NEW t \in Tables, Write(t) \/ DarkSweep(t)
      PROVE  Atomic!Next
  <2>1. /\ phase = "open" /\ UNCHANGED <<status, mem>>
        /\ foot' = [foot EXCEPT ![cur] = @ \cup {t}]
    BY <1>5 DEF Write, DarkSweep, tabVars
  <2> QED BY <1>0, <2>1 DEF Atomic!Next, Atomic!Write
<1>6. CASE SyncMark \/ CommitEmpty \/ Discarded
  <2>1. phase # "none" /\ foot' = foot /\ \E o \in {"committed", "aborted"} :
          status' = [status EXCEPT ![cur] = o]
    BY <1>6 DEF SyncMark, Publish, CommitEmpty, Discarded
  <2> QED BY <1>0, <1>3, <2>1
<1>7. ASSUME NEW t \in Tables, CommitTable(t)
      PROVE  [Atomic!Next]_(Atomic!avars)
  <2>1. /\ foot' = foot
        /\ status' = [x \in Txs |->
             IF x \in (IF phase = "folding" THEN {cur} ELSE {}) THEN "committed" ELSE status[x]]
    BY <1>7 DEF CommitTable
  <2>2. CASE phase = "folding"
    <3>1. status' = [status EXCEPT ![cur] = "committed"]
      BY <1>0, <2>1, <2>2
    <3> QED BY <1>0, <1>3, <2>1, <2>2, <3>1
  <2>3. CASE phase # "folding"
    <3>1. status' = status
      BY <1>0, <2>1, <2>3
    <3> QED BY <1>2, <2>1, <3>1
  <2> QED BY <2>2, <2>3
<1>8. CASE Recover
  <2>1. foot' = foot /\ cur \in Nat
    BY <1>0, <1>8, Numbers DEF Recover
  <2>2. \A x \in Txs : IF status[x] # "active" THEN status'[x] = status[x]
                       ELSE status'[x] \in {"committed", "aborted"}
    BY <1>8 DEF Recover
  <2>3. \A x \in Txs : x # cur => status'[x] = status[x]
    BY <1>0, <2>2 DEF Statuses
  <2>4. status' \in [Txs -> {"idle", "active", "committed", "aborted"}]
    BY DEF AInv, Base, TypeOK
  <2>5. CASE cur \in Txs /\ status[cur] = "active"
    <3>1. status' = [status EXCEPT ![cur] = status'[cur]]
      BY <1>0, <2>3, <2>4, <2>5
    <3> QED BY <1>3, <2>1, <2>2, <2>5, <3>1
  <2>6. CASE ~(cur \in Txs /\ status[cur] = "active")
    <3>1. status' = status
      BY <1>0, <2>2, <2>3, <2>4, <2>6
    <3> QED BY <1>2, <2>1, <3>1
  <2> QED BY <2>5, <2>6
<1>9. CASE \/ PrepareAll \/ Mark \/ SyncFails \/ Rollback \/ RewindFirst \/ Kill \/ UNCHANGED vars
           \/ DropHandles \/ \E t \in Tables : BarrierOne(t) \/ Roll(t) \/ CommitFold(t)
  BY <1>2, <1>9 DEF PrepareAll, Mark, SyncFails, Rollback, RewindFirst, Kill, Crash, vars, BarrierOne,
       DropHandles, Roll, CommitFold, RollLog, tabVars, txVars
<1>10. "power" \notin Faults /\ "empty_enlist" \notin Faults
  BY DEF Orderly
<1> QED
  BY <1>4, <1>5, <1>6, <1>7, <1>8, <1>9, <1>10 DEF Next, PowerLoss, EmptySweep

\* The two-phase commit over the tables' logs implements transactions that
\* take effect in all of their tables at once, and whose outcome is final
\* (session.rs: "a crash anywhere in the sequence commits every table or none").
THEOREM ImplementsAtomicTxns ==
  ASSUME Orderly
  PROVE  Spec => AtomicSpec
<1>1. Init => AInv /\ Atomic!Init
  BY AtomicInit DEF Init, Atomic!Init
<1>2. AInv /\ [Next]_vars => AInv'
  BY AtomicStep
<1>3. AInv /\ AInv' /\ [Next]_vars => [Atomic!Next]_(Atomic!avars)
  BY AtomicRefines
<1> QED BY <1>1, <1>2, <1>3, PTL DEF Spec, AtomicSpec, Atomic!Spec
=============================================================================
