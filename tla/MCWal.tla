-------------------------------- MODULE MCWal --------------------------------
(* Wal in three environments: one crash over longer logs, two crashes, and   *)
(* two faults of every other kind over shorter ones.                         *)
EXTENDS Wal

Crashes == [faults |-> {"power", "short_file", "kill"},
            maxFaults |-> 1, maxRecs |-> 4, maxLen |-> 8]
Twice   == [faults |-> {"power", "short_file", "kill"},
            maxFaults |-> 2, maxRecs |-> 3, maxLen |-> 7]
Damage  == [faults |-> {"power", "holes", "kill", "fsync_error", "short_write", "rot"},
            maxFaults |-> 2, maxRecs |-> 3, maxLen |-> 5]

MCRegimes == {Crashes, Twice, Damage}
=============================================================================
