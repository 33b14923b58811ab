------------------------------- MODULE KeyedMap -------------------------------
(***************************************************************************)
(* What a table with a primary key promises: a map from keys to rows that   *)
(* only statements change, each as it says, with last-write-wins inserts,   *)
(* and a transaction whose changes no one else sees until COMMIT and that   *)
(* ROLLBACK takes back whole.  A step is labelled with its statement and    *)
(* the answer; a step without a new label leaves the map alone.             *)
(***************************************************************************)
EXTENDS Integers

CONSTANTS
  Keys, Vals,
  Batches    \* the sequences of rows an INSERT may carry

VARIABLES
  working,    \* per key: {} or {v}, as the writing session sees it
  committed,  \* the same, as every other reader sees it
  inTxn,      \* a transaction is open on the table
  poisoned,   \* a statement of it failed: it can only roll back
  lastStmt    \* the last statement, whether it succeeded, and a bit each flips

mvars == <<working, committed, inTxn, poisoned, lastStmt>>

\* Every statement has a new label, also one that repeats the statement before.
Label(req, ok) == <<req, ok, 1 - lastStmt[3]>>

Present(m) == {k \in Keys : m[k] # {}}

\* The value of the last row of batch b for key k, if it has one.
LastVal(b, k) == {b[i].v : i \in {j \in DOMAIN b :
                    b[j].k = k /\ \A l \in DOMAIN b : l > j => b[l].k # k}}

Put(m, b)  == [k \in Keys |-> IF LastVal(b, k) # {} THEN LastVal(b, k) ELSE m[k]]
Cut(m, ks) == [k \in Keys |-> IF k \in ks THEN {} ELSE m[k]]

\* The rows of ks go to the keys `to` gives them, with value v.
Move(m, ks, to, v) ==
  [k \in Keys |-> IF \E i \in ks : to[i] = k THEN {v} ELSE Cut(m, ks)[k]]

Init ==
  /\ working = [k \in Keys |-> {}] /\ committed = working
  /\ inTxn = FALSE /\ poisoned = FALSE
  /\ lastStmt = <<[op |-> "none"], TRUE, 0>>

\* The answer to a statement that leaves the session with map m.
Answer(req, ok, m) ==
  /\ lastStmt' = Label(req, ok) /\ ~poisoned
  /\ working' = m /\ committed' = IF inTxn THEN committed ELSE m
  /\ poisoned' = (inTxn /\ ~ok)
  /\ UNCHANGED inTxn

\* INSERT: new rows replace what their keys held.  One that fails went in
\* whole (the error came after) or not at all.
Insert(b, ok) ==
  LET req == [op |-> "insert", rows |-> b]
  IN  Answer(req, ok, Put(working, b)) \/ (Answer(req, ok, working) /\ ~ok)

\* INSERT into a table whose key is UNIQUE: never over a row, nor one of its own.
IsNew(b) ==
  /\ \A i, j \in DOMAIN b : i # j => b[i].k # b[j].k
  /\ \A i \in DOMAIN b : b[i].k \notin Present(working)

InsertUnique(b, ok) ==
  LET req == [op |-> "insert unique", rows |-> b]
  IN  (Answer(req, ok, Put(working, b)) /\ IsNew(b)) \/ (Answer(req, ok, working) /\ ~ok)

Delete(ks, ok) ==
  Answer([op |-> "delete", keys |-> ks], ok, IF ok THEN Cut(working, ks) ELSE working)

\* UPDATE: the rows of ks move, each to a key of its own that no other row
\* holds, so none is lost.  One that fails changes nothing outside a
\* transaction and dooms the transaction it is in.
Moves(ks, to) ==
  /\ ks \subseteq Present(working)
  /\ \A i, j \in ks : i # j => to[i] # to[j]
  /\ \A i \in ks : to[i] \notin Present(working) \ ks

Update(ks, to, v, ok) ==
  LET req == [op |-> "update", to |-> to, val |-> v]
  IN  \/ Answer(req, ok, Move(working, ks, to, v)) /\ Moves(ks, to) /\ (ok \/ inTxn)
      \/ Answer(req, ok, Cut(working, ks)) /\ ~ok /\ inTxn
      \/ Answer(req, ok, working) /\ ~ok

\* SELECT and OPTIMIZE TABLE, whatever they flush or merge and whether or not
\* they fail.
Look(op, ok) == Answer([op |-> op], ok, working)

Begin(ok) ==
  /\ lastStmt' = Label([op |-> "begin"], ok)
  /\ ~inTxn /\ inTxn' = ok
  /\ UNCHANGED <<working, committed, poisoned>>

\* COMMIT: all of it, or, if it fails or a statement failed, nothing.
Commit(ok) ==
  /\ lastStmt' = Label([op |-> "commit"], ok)
  /\ inTxn /\ inTxn' = FALSE /\ poisoned' = FALSE
  /\ ok => ~poisoned
  /\ LET m == IF ok THEN working ELSE committed IN working' = m /\ committed' = m

Rollback ==
  /\ lastStmt' = Label([op |-> "rollback"], TRUE)
  /\ inTxn /\ inTxn' = FALSE /\ poisoned' = FALSE
  /\ working' = committed /\ UNCHANGED committed

Next ==
  \/ \E ok \in BOOLEAN :
       \/ \E b \in Batches : Insert(b, ok) \/ InsertUnique(b, ok)
       \/ \E ks \in SUBSET Keys : Delete(ks, ok)
       \/ \E ks \in SUBSET Keys : \E to \in [ks -> Keys] : \E v \in Vals : Update(ks, to, v, ok)
       \/ \E op \in {"select", "optimize"} : Look(op, ok)
       \/ Begin(ok) \/ Commit(ok)
  \/ Rollback

Spec == Init /\ [][Next]_mvars
=============================================================================
