--------------------------- MODULE MCBackupFlaws ---------------------------
(***************************************************************************)
(* Nine histories of Backup played one after another, each followed by the *)
(* restore that shows where the code parts from what its documentation says *)
(* of a restore.  `wrong' collects the histories that came out wrong.       *)
(***************************************************************************)
EXTENDS Backup

CONSTANTS T1, T2,    \* the two tables
          P1, P2      \* where the archives are written, the second on top of the first

VARIABLES nth,    \* which history is being played
          pc,     \* its next step
          wrong   \* the histories whose restore was not what was promised

St(do, t, n) == [do |-> do, t |-> t, n |-> n]
History(name, steps, target) == [name |-> name, steps |-> steps, target |-> target]

Histories == <<
    \* Only T2's log was rolled: LSN 1 is "in the archive", T1's record is not.
    History("target_in_a_live_log", <<St("backup", T1, 0), St("insert", T1, 1), St("insert", T2, 2), St("fold", T2, 0)>>, Lsn(1)),
    \* The same, for the two halves of one transaction.
    History("half_a_transaction", <<St("backup", T1, 0), St("both", T1, 1), St("fold", T2, 0)>>, Latest),
    \* A DELETE of a row no file holds yet is folded, never logged.
    History("delete_not_logged", <<St("backup", T1, 0), St("insert", T1, 1), St("delete", T1, 1), St("checkpoint", T1, 0)>>, Latest),
    \* Nor is TRUNCATE.
    History("truncate_not_logged", <<St("backup", T1, 0), St("insert", T1, 1), St("checkpoint", T1, 0), St("truncate", T1, 0)>>, Latest),
    \* The backup numbers a part the source forgets and numbers again.
    History("part_identity_minted_twice",
            <<St("insert", T1, 1), St("checkpoint", T1, 0), St("insert", T1, 2), St("backup", T1, 0), St("crash", T1, 0),
              St("insert", T1, 3), St("checkpoint", T1, 0), St("delete", T1, 2), St("checkpoint", T1, 0)>>, Latest),
    \* A record replayed after a crash is in the backup before it has an LSN.
    History("record_without_lsn", <<St("torn", T1, 1), St("backup", T1, 0), St("checkpoint", T1, 0)>>, Latest),
    \* A dropped table's log is not consulted for the next LSN.
    History("lsn_handed_out_twice",
            <<St("insert", T1, 1), St("insert", T2, 2), St("drop", T2, 0), St("crash", T1, 0), St("backup", T1, 0), St("insert", T1, 3),
              St("checkpoint", T1, 0)>>, Latest),
    \* BACKUP TO x INCREMENTAL FROM x.
    History("archive_its_own_base", <<St("insert", T1, 1), St("backup", T1, 0), St("increment", T1, 0)>>, Plain),
    \* BACKUP opens the base chain, which has MaxChain archives; with its own the
    \* chain has one more.
    History("chain_one_too_long", <<St("insert", T1, 1), St("backup", T1, 0), St("extend", T1, 0)>>, Plain) >>

Do(s) ==
    /\ clock' = clock
    /\ CASE s.do = "insert"     -> InsertRow(s.t, s.n)
         [] s.do = "both"       -> InsertBoth(T1, T2, s.n)
         [] s.do = "fold"       -> FoldOne(s.t, MaxOps)
         [] s.do = "checkpoint" -> Checkpoint(MaxOps)
         [] s.do = "delete"     -> DeleteRow(s.t, s.n, 1)
         [] s.do = "truncate"   -> Truncate(s.t)
         [] s.do = "drop"       -> Drop(s.t)
         [] s.do = "crash"      -> Crash
         [] s.do = "torn"       -> CrashBeforeTick(s.t, s.n)
         [] s.do = "backup"     -> Backup(P1, NoPath)
         [] s.do = "increment"  -> Backup(P1, P1)
         [] s.do = "extend"     -> Backup(P2, P1)

Now == Histories[nth]
Play == /\ nth =< Len(Histories) /\ pc =< Len(Now.steps)
        /\ Do(Now.steps[pc])
        /\ pc' = pc + 1 /\ UNCHANGED <<nth, wrong>>
\* The archive written last.
Written == IF archives[P2] # NoArchive THEN P2 ELSE P1
Ask == /\ nth =< Len(Histories) /\ pc > Len(Now.steps) /\ into.phase = "none"
       /\ RestoreBegin(Written, Now.target)
       /\ UNCHANGED <<nth, pc, wrong>>
Carry == /\ (\E t \in Tables : UnpackTable(t) \/ LayLog(t)) \/ PublishCatalog \/ Prove
         /\ UNCHANGED <<nth, pc, wrong>>

\* An LSN that two acknowledged statements were given.
LsnTwice == \E i, j \in DOMAIN hist : i < j /\ ~hist[i].silent /\ ~hist[j].silent /\ hist[j].seq = hist[i].seq
Broken ==
    \/ into.target # Plain /\ into.result = "ok" /\ OpenedDb(From, into.logs) # Truth(into.target)
    \/ into.target = Plain /\ into.result = "refused"
    \/ LsnTwice
Judge == /\ into.phase = "done"
         /\ wrong' = IF Broken THEN wrong \cup {Now.name} ELSE wrong
         /\ nth' = nth + 1 /\ pc' = 1
         /\ mem' = Fresh[1] /\ disk' = Fresh[2] /\ log' = Fresh[3] /\ segs' = Fresh[4] /\ tables' = Fresh[5]
         /\ next' = Fresh[6] /\ clock' = Fresh[7] /\ hist' = Fresh[8]
         /\ archives' = [x \in Paths |-> NoArchive] /\ into' = NoDir /\ ops' = 0 /\ crashes' = 0 /\ rotten' = {}

FlawInit == Init /\ nth = 1 /\ pc = 1 /\ wrong = {}
FlawNext == Play \/ Ask \/ Carry \/ Judge
FlawSpec == FlawInit /\ [][FlawNext]_<<vars, nth, pc, wrong>>

\* A RESTORE that reports success is the state that was asked for, and an
\* archive that BACKUP reported written restores: README.md, "Backup and
\* point-in-time recovery", and tests/pitr.rs, "a successful RESTORE must be
\* right".
DocumentedRestores == nth > Len(Histories) => wrong = {}
=============================================================================
