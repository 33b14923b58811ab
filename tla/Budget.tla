------------------------------- MODULE Budget -------------------------------
(***************************************************************************)
(* What one query may hold: MemTracker, MemGuard, SpillBudget and the      *)
(* cancel flag of QueryContext, in exec/operators/mod.rs, shared by the    *)
(* workers of an exchange.                                                 *)
(*                                                                         *)
(* reserve() is not one step: it adds to the counter, compares, and takes  *)
(* the bytes back when the limit is passed.  Between the two another       *)
(* worker sees bytes nobody will keep.  A worker the memory budget refuses *)
(* spills its table and charges the disk budget, which is never given      *)
(* back.                                                                   *)
(***************************************************************************)
EXTENDS Integers, Sequences, FiniteSets

CONSTANT Plans          \* the queries

\* plan = [op, limit, disk, asks]: the memory limit, the disk limit (0: none),
\* and per worker the sizes its guard will be grown to, block after block.
VARIABLES plan, src, op, out, status

vars == <<plan, src, op, out, status>>

Workers == DOMAIN plan.asks

\* Limits and sizes are numbers of bytes (usize), and an exchange has finitely
\* many workers.
PlansOK ==
    \A p \in Plans : p.op = "budget" =>
        /\ p.limit \in Nat /\ p.disk \in Nat /\ IsFiniteSet(DOMAIN p.asks)
        /\ \A w \in DOMAIN p.asks : p.asks[w] \in Seq(Nat)

\* The sum of f, as the number of bytes it gives out.
Bytes(f) == UNION {{w} \X (1..f[w]) : w \in DOMAIN f}
Total(f) == Cardinality(Bytes(f))

Init == /\ plan \in Plans
        /\ src = plan.asks
        /\ op = [used    |-> 0,                               \* MemTracker.used
                 held    |-> [w \in DOMAIN plan.asks |-> 0],  \* MemGuard.held
                 pend    |-> [w \in DOMAIN plan.asks |-> 0],  \* added, not yet judged
                 seen    |-> [w \in DOMAIN plan.asks |-> 0],  \* what fetch_add answered
                 spilled |-> 0,                               \* SpillBudget.used
                 cancel  |-> FALSE]
        /\ out = [w \in DOMAIN plan.asks |-> "running"]
        /\ status = "running"

Running == status = "running" /\ plan.op = "budget"

Idle(w) == Running /\ out[w] = "running" /\ op.pend[w] = 0

(* QueryContext::stop, from any thread.                                     *)
Stop == /\ Running /\ ~op.cancel
        /\ op' = [op EXCEPT !.cancel = TRUE]
        /\ UNCHANGED <<plan, src, out, status>>

\* Drop for MemGuard.
Dropped(o, w) == [o EXCEPT !.used = @ - o.held[w], !.held[w] = 0]

(* QueryContext::check before a block: the flag ends the worker.            *)
Check(w) == /\ Idle(w) /\ op.cancel
            /\ op' = Dropped(op, w)
            /\ out' = [out EXCEPT ![w] = "stopped"]
            /\ UNCHANGED <<plan, src, status>>

(* MemGuard::grow_to of no more than is held answers at once.               *)
GrowNothing(w) == /\ Idle(w) /\ src[w] # <<>> /\ Head(src[w]) <= op.held[w]
                  /\ src' = [src EXCEPT ![w] = Tail(@)]
                  /\ UNCHANGED <<plan, op, out, status>>

(* Otherwise reserve: fetch_add ...                                         *)
Add(w) == /\ Idle(w) /\ src[w] # <<>> /\ Head(src[w]) > op.held[w]
          /\ LET n == Head(src[w]) - op.held[w]
             IN  op' = [op EXCEPT !.used = @ + n, !.pend[w] = n, !.seen[w] = op.used + n]
          /\ UNCHANGED <<plan, src, out, status>>

\* ... the comparison with the limit ...
Granted(w) == /\ Running /\ op.pend[w] # 0 /\ op.seen[w] <= plan.limit
              /\ op' = [op EXCEPT !.held[w] = @ + op.pend[w], !.pend[w] = 0]
              /\ src' = [src EXCEPT ![w] = Tail(@)]
              /\ UNCHANGED <<plan, out, status>>

\* Mutant: what was added stays added.
RefusedKeeps(w) ==
  /\ Running /\ op.pend[w] # 0 /\ op.seen[w] > plan.limit
  /\ op' = [Dropped(op, w) EXCEPT !.pend[w] = 0]
  /\ src' = [src EXCEPT ![w] = Tail(@)]
  /\ UNCHANGED <<plan, out, status>>

\* ... or fetch_sub.  The operator spills what it holds in that case: the
\* guard is replaced by a new one, and the bytes go to disk.  These are one step:
\* whoever adds between the two subtractions is granted as if it came after
\* both, or refused as if it came before.
Refused(w) ==
  /\ Running /\ op.pend[w] # 0 /\ op.seen[w] > plan.limit
  /\ LET bytes == Head(src[w])
         fits  == plan.disk = 0 \/ op.spilled + bytes <= plan.disk
     IN  /\ op' = [Dropped(op, w) EXCEPT !.used = op.used - op.pend[w] - op.held[w],
                                         !.pend[w] = 0,
                                         !.spilled = IF plan.disk = 0 THEN @ ELSE @ + bytes]
         /\ out' = [out EXCEPT ![w] = IF fits THEN @ ELSE "failed"]
  /\ src' = [src EXCEPT ![w] = Tail(@)]
  /\ UNCHANGED <<plan, status>>

\* The worker's input ends; its guard is dropped with its table.
WorkerEnd(w) == /\ Idle(w) /\ src[w] = <<>>
                /\ op' = Dropped(op, w)
                /\ out' = [out EXCEPT ![w] = "done"]
                /\ UNCHANGED <<plan, src, status>>

End == /\ Running /\ \A w \in Workers : out[w] # "running"
       /\ status' = "done"
       /\ UNCHANGED <<plan, src, op, out>>

Step(w) == Check(w) \/ GrowNothing(w) \/ Add(w) \/ Granted(w) \/ Refused(w) \/ WorkerEnd(w)

Next == (\E w \in Workers : Step(w)) \/ Stop \/ End

Spec == Init /\ [][Next]_vars

-----------------------------------------------------------------------------
(* What the guards hold never exceeds the limit although the counter is     *)
(* compared after it was raised; the counter is exactly what is held or     *)
(* under judgement, so that a finished, stopped or failed query has given   *)
(* every byte back; and once the disk budget is passed no later charge      *)
(* succeeds.                                                                *)
BudgetKept ==
  plan.op = "budget" =>
    /\ Total(op.held) <= plan.limit
    /\ op.used = Total(op.held) + Total(op.pend)
    /\ status = "done" => op.used = 0
    /\ plan.disk # 0 /\ op.spilled > plan.disk => \E w \in Workers : out[w] = "failed"

=============================================================================
