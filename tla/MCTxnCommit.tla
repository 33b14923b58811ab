----------------------------- MODULE MCTxnCommit -----------------------------
(***************************************************************************)
(* TxnCommit in two environments, with two transactions each: two kills or *)
(* failed prepares over two tables, or one fault of any kind over three.   *)
(* The tables are interchangeable.                                         *)
(***************************************************************************)
EXTENDS TxnCommit, TLC

VARIABLE regime     \* the environment of this behaviour, fixed at the start

Kills == {[tables |-> S, txs |-> 2, faults |-> 2, any |-> FALSE] :
            S \in {S \in SUBSET Tables : Cardinality(S) = 2}}
Power == [tables |-> Tables, txs |-> 2, faults |-> 1, any |-> TRUE]

\* The steps the environment leaves open.
InRegime ==
  /\ cur' <= regime.txs /\ faults' <= regime.faults
  /\ fold' \subseteq regime.tables
  /\ \A i \in DOMAIN roster' : roster'[i].t \in regime.tables
  /\ \/ regime.any
     \/ /\ mode' = "down" => fold = {} /\ UNCHANGED <<log, synced>>
        /\ roster' # roster => (UNCHANGED log => Len(roster') < Len(roster) \/ dark' # dark)

MCInit == Init /\ regime \in Kills \cup {Power}
MCNext == Next /\ InRegime /\ UNCHANGED regime
MCSpec == MCInit /\ [][MCNext]_<<vars, regime>>

TableSymmetry == Permutations(Tables)
=============================================================================
