------------------------------ MODULE AtomicTxns ------------------------------
(***************************************************************************)
(* What the engine promises of a transaction over several tables: it takes  *)
(* effect in every table it wrote or in none, and its outcome is final.     *)
(* session.rs: "a crash anywhere in the sequence commits every table or     *)
(* none".                                                                   *)
(***************************************************************************)
CONSTANTS Tables, Txs

VARIABLES
  status,   \* what became of each transaction
  foot,     \* the tables each transaction wrote
  view      \* the transactions whose rows each table shows

avars == <<status, foot, view>>

Committed(st, ft) ==
  [t \in Tables |-> {x \in Txs : st[x] = "committed" /\ t \in ft[x]}]

Init ==
  /\ status = [x \in Txs |-> "idle"]
  /\ foot = [x \in Txs |-> {}]
  /\ view = [t \in Tables |-> {}]

Start(x) ==
  /\ status[x] = "idle"
  /\ status' = [status EXCEPT ![x] = "active"]
  /\ UNCHANGED <<foot, view>>

\* Writes stay private: the view of no table changes.
Write(x, t) ==
  /\ status[x] = "active"
  /\ foot' = [foot EXCEPT ![x] = @ \cup {t}]
  /\ UNCHANGED <<status, view>>

\* The transaction ends, in all of its tables at once.
Finish(x, outcome) ==
  /\ status[x] = "active"
  /\ status' = [status EXCEPT ![x] = outcome]
  /\ view' = Committed(status', foot)
  /\ UNCHANGED foot

Next ==
  \E x \in Txs : \/ Start(x)
                 \/ \E t \in Tables : Write(x, t)
                 \/ \E o \in {"committed", "aborted"} : Finish(x, o)

Spec == Init /\ [][Next]_avars
=============================================================================
