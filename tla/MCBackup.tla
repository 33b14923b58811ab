------------------------------ MODULE MCBackup ------------------------------
(***************************************************************************)
(* Backup and restore, small: histories of exactly MaxOps statements and    *)
(* faults with a backup among them, then one restore, to every target from  *)
(* just before the backup to just past the end of the log.  A history       *)
(* shorter than MaxOps is one padded with folds that find nothing to do.    *)
(***************************************************************************)
EXTENDS Backup, TLC

\* A history meets at most one kind of disturbance: a crash, damage, or a
\* change that is not logged.
Damaged == rotten # {} \/ \E p \in Paths : archives[p] # NoArchive /\ archives[p].damaged # {}
Disturbed == {k \in {1, 2, 3} : <<crashes > 0, Damaged, \E i \in DOMAIN hist : hist[i].silent>>[k]}

\* The instants either side of the two ends of what an archive can reach.
Near(p) == {Plain, Latest} \cup {Lsn(n) : n \in (archives[p].boundary - 2)..next} \cup {Time(n) : n \in (archives[p].created - 1)..clock}

\* What is explored: a tear only in undisturbed histories and of one
\* roll-forward, as neither makes a difference to it, and a retry only of the restore that was torn.
Course ==
    /\ Cardinality(Disturbed') =< 1
    /\ ops' = MaxOps => \E p \in Paths : archives'[p] # NoArchive
    /\ (into.phase = "none" /\ into' # into) => (ops = MaxOps /\ into'.target \in Near(into'.path))
    /\ into.phase = "torn" => (into'.path = into.path /\ into'.target = into.target)
    /\ (into'.phase = "torn" \/ (into.phase = "prove" /\ into'.result = "none")) => into.target = Latest /\ Disturbed = {}

Symmetry == Permutations(Tables) \cup Permutations(Paths)
=============================================================================
