------------------------------- MODULE SortOp -------------------------------
(***************************************************************************)
(* ORDER BY: exec/operators/sort.rs.                                       *)
(*                                                                         *)
(* A sort without a LIMIT accumulates blocks until the memory budget       *)
(* refuses the buffer, sorts what it has into a run on disk and starts     *)
(* over; the runs are merged, in several passes when there are more than   *)
(* the merge may hold open.  A sort with a LIMIT keeps a buffer of the     *)
(* best rows, trimming it now and then and refusing rows that cannot beat  *)
(* the worst one kept.  Under an exchange every worker sorts its share and *)
(* merge_runs merges the sorted blocks in memory, galloping along a run    *)
(* that keeps winning.                                                     *)
(*                                                                         *)
(* A row is [k, id]: its key columns, 0 for NULL, and its place in the     *)
(* input, which no comparison of the code looks at.                        *)
(***************************************************************************)
EXTENDS Integers, Sequences, SequencesExt, FiniteSets, Functions

CONSTANTS BlockSize,    \* rows of an output block
          GallopAfter,  \* GALLOP_AFTER
          FanIn,        \* how many runs a merge opens at once
          Plans         \* the queries

\* plan = [op, input, keys, fetch, fleet]:
\*   input  per worker, the blocks it pulls
\*   keys   per key column, [asc, nulls_first]
\*   fetch  the LIMIT pushed into the sort, or NoFetch
VARIABLES plan, src, op, out, status

vars == <<plan, src, op, out, status>>

NULL == 0
NoFetch == 99

Least(S) == CHOOSE n \in S : \A m \in S : n <= m
Most(S)  == CHOOSE n \in S : \A m \in S : n >= m

-----------------------------------------------------------------------------
(* compare_keys: -1, 0 or 1.                                                *)
CompareKey(x, y, key) ==
  CASE x = NULL /\ y = NULL -> 0
    [] x = NULL /\ y # NULL -> IF key.nulls_first THEN -1 ELSE 1
    [] x # NULL /\ y = NULL -> IF key.nulls_first THEN 1 ELSE -1
    [] OTHER -> IF x = y THEN 0 ELSE IF (x < y) = key.asc THEN -1 ELSE 1

Compare(a, b) ==
  LET differ == {i \in DOMAIN plan.keys : CompareKey(a[i], b[i], plan.keys[i]) # 0}
  IN  IF differ = {} THEN 0
      ELSE CompareKey(a[Least(differ)], b[Least(differ)], plan.keys[Least(differ)])

\* idx.sort_by, which is stable.
SortBy(block) ==
  SetToSortSeq(DOMAIN block, LAMBDA i, j : LET c == Compare(block[i].k, block[j].k)
                                           IN  c < 0 \/ (c = 0 /\ i < j))

(* radix_permutation: the non-null lanes ascending; for DESC the whole list *)
(* reversed, then every stretch of equal lanes reversed back; the nulls at  *)
(* the end the key asks for.                                                *)
Ascending(block) ==
  SetToSortSeq({i \in DOMAIN block : block[i].k[1] # NULL},
               LAMBDA i, j : \/ block[i].k[1] < block[j].k[1]
                             \/ block[i].k[1] = block[j].k[1] /\ i < j)

Descending(block) ==
  LET r == Reverse(Ascending(block))
      Same(p) == {q \in DOMAIN r : block[r[q]].k = block[r[p]].k}
  IN  [p \in DOMAIN r |-> r[Least(Same(p)) + Most(Same(p)) - p]]

Nulls(block) == SetToSortSeq({i \in DOMAIN block : block[i].k[1] = NULL}, <)

RadixPermutation(block, key) ==
  LET keyed == IF key.asc THEN Ascending(block) ELSE Descending(block)
  IN  IF key.nulls_first THEN Nulls(block) \o keyed ELSE keyed \o Nulls(block)

(* permutation.                                                             *)
Permutation(block) ==
  CASE plan.keys = <<>> \/ Len(block) <= 1 -> [i \in DOMAIN block |-> i]
    [] plan.keys # <<>> /\ Len(block) > 1 /\ Len(plan.keys) = 1
         -> RadixPermutation(block, plan.keys[1])
    [] OTHER -> SortBy(block)

Sorted(block) == LET p == Permutation(block) IN [i \in DOMAIN p |-> block[p[i]]]

Truncate(seq, k) == SubSeq(seq, 1, Least({k, Len(seq)}))

-----------------------------------------------------------------------------
Init == /\ plan \in Plans
        /\ src = plan.input
        /\ op = [phase |-> "pull",
                 acc   |-> <<>>,        \* materialize_all's buffer
                 top   |-> <<>>,        \* materialize_top_k's
                 worst |-> <<>>,        \* the key of the worst row kept, or <<>>
                 runs  |-> <<>>,        \* RunSet.runs, or the workers' blocks
                 last  |-> 0,           \* merge_runs: the run that won last
                 wins  |-> 0]           \* and how often in a row
        /\ out = <<>>
        /\ status = "running"

Running == status = "running" /\ plan.op = "sort"

Cancel == /\ Running
          /\ status' = "cancelled"
          /\ UNCHANGED <<plan, src, op, out>>

TopK == plan.fetch # NoFetch

Pull(phase) == /\ Running /\ op.phase = phase /\ ~plan.fleet /\ src[1] # <<>>
               /\ src' = [src EXCEPT ![1] = Tail(@)]
               /\ UNCHANGED <<plan, out>>

(* materialize_all, one block: grow_to accepts the buffer.                  *)
Buffer == /\ Pull("pull") /\ ~TopK
          /\ op' = [op EXCEPT !.acc = @ \o Head(src[1])]
          /\ UNCHANGED status

(* grow_to refuses it: sort it, write a run, start an empty buffer.         *)
Spill == /\ Pull("pull") /\ ~TopK /\ Head(src[1]) # <<>>
         /\ op' = [op EXCEPT !.runs = Append(@, Sorted(op.acc \o Head(src[1]))),
                             !.acc  = <<>>]
         /\ UNCHANGED status

Drained == Running /\ op.phase = "pull" /\ ~plan.fleet /\ src[1] = <<>>

(* The input ends: in memory when nothing spilled, else the tail is a run.  *)
InMemory == /\ Drained /\ ~TopK /\ op.runs = <<>>
            /\ out' = Sorted(op.acc)
            /\ op' = [op EXCEPT !.phase = "end"]
            /\ UNCHANGED <<plan, src, status>>

TailRun == /\ Drained /\ ~TopK /\ op.runs # <<>>
           /\ op' = [op EXCEPT !.runs = IF op.acc = <<>> THEN @ ELSE Append(@, Sorted(op.acc)),
                               !.acc = <<>>, !.phase = "passes"]
           /\ UNCHANGED <<plan, src, out, status>>

-----------------------------------------------------------------------------
(* Heads, Heads::less: the smaller head wins, the earlier run on a tie.     *)
Live(runs) == {i \in DOMAIN runs : runs[i] # <<>>}

Before(runs, i, j) == LET c == Compare(Head(runs[i]).k, Head(runs[j]).k)
                      IN  c < 0 \/ (c = 0 /\ i < j)

Winner(runs, live) == CHOOSE i \in live : \A j \in live \ {i} : Before(runs, i, j)

\* One row of RunMerge::next.
PopRow(m, x) ==
  LET i == Winner(m.runs, Live(m.runs))
  IN  IF Live(m.runs) = {} THEN m
      ELSE [runs |-> [m.runs EXCEPT ![i] = Tail(@)], rows |-> Append(m.rows, Head(m.runs[i]))]

MergeRows(runs, n) == FoldLeft(PopRow, [runs |-> runs, rows |-> <<>>], [i \in 1 .. n |-> i])

Total(runs) == Len(FlattenSeq(runs))

(* merge_pass: chunks of FanIn runs, each merged into one run, in order.    *)
MergePass ==
  /\ Running /\ op.phase = "passes" /\ Len(op.runs) > FanIn
  /\ LET n == (Len(op.runs) + FanIn - 1) \div FanIn
         Chunk(c) == SubSeq(op.runs, (c - 1) * FanIn + 1, Least({c * FanIn, Len(op.runs)}))
     IN  op' = [op EXCEPT !.runs =
                  [c \in 1 .. n |-> MergeRows(Chunk(c), Total(Chunk(c))).rows]]
  /\ UNCHANGED <<plan, src, out, status>>

(* RunMerge::next: one output block.                                        *)
MergeBlock ==
  /\ Running /\ op.phase = "passes" /\ Len(op.runs) <= FanIn /\ Live(op.runs) # {}
  /\ LET m == MergeRows(op.runs, BlockSize)
     IN  out' = out \o m.rows /\ op' = [op EXCEPT !.runs = m.runs]
  /\ UNCHANGED <<plan, src, status>>

-----------------------------------------------------------------------------
(* Top-K.                                                                   *)
TrimAt == plan.fetch + Most({plan.fetch \div 2, BlockSize})

\* trim: the best k rows, and the key to beat once there are k of them.
Trim(rows, worst) ==
  LET kept == Truncate(Sorted(rows), plan.fetch)
  IN  [top |-> kept, worst |-> IF Len(kept) >= plan.fetch THEN Last(kept).k ELSE worst]

\* survivors: only rows that sort strictly before the worst kept.
Survivors(block) ==
  SelectSeq(block, LAMBDA r : op.worst = <<>> \/ Compare(r.k, op.worst) < 0)

TopKBlock ==
  /\ Pull("pull") /\ TopK /\ plan.fetch > 0 /\ plan.keys # <<>>
  /\ LET combined == op.top \o Survivors(Head(src[1]))
         t == Trim(combined, op.worst)
     IN  op' = IF Len(combined) >= TrimAt
               THEN [op EXCEPT !.top = t.top, !.worst = t.worst]
               ELSE [op EXCEPT !.top = combined]
  /\ status' \in {"running", "failed"}          \* grow_to: top-K cannot spill

TopKEnd ==
  /\ Drained /\ TopK /\ plan.fetch > 0 /\ plan.keys # <<>>
  /\ out' = Trim(op.top, op.worst).top
  /\ op' = [op EXCEPT !.phase = "end"]
  /\ UNCHANGED <<plan, src, status>>

(* LIMIT 0 reads nothing; a top-K without keys is the first k rows.         *)
TopKTrivial ==
  /\ Running /\ op.phase = "pull" /\ ~plan.fleet /\ TopK
  /\ plan.fetch = 0 \/ plan.keys = <<>>
  /\ out' = Truncate(FlattenSeq(src[1]), plan.fetch)
  /\ src' = IF plan.fetch = 0 THEN src ELSE [src EXCEPT ![1] = <<>>]
  /\ op' = [op EXCEPT !.phase = "end"]
  /\ UNCHANGED <<plan, status>>

-----------------------------------------------------------------------------
(* Under an exchange: each worker hands over its sorted share.  The workers *)
(* share nothing, so the fleet is one step.  A refused grow_to, in a worker *)
(* or in the merge, fails the query as Cancel does.                         *)
WorkerSorts ==
  /\ Running /\ op.phase = "pull" /\ plan.fleet
  /\ op' = [op EXCEPT !.runs = [w \in DOMAIN src |-> Truncate(Sorted(FlattenSeq(src[w])), plan.fetch)],
                      !.phase = "merge"]
  /\ UNCHANGED <<plan, src, out, status>>

\* `want`, from the runs the workers handed over.
Want == Least({plan.fetch, Len(FlattenSeq(FlattenSeq(plan.input)))})

\* Mutant: equal rows go along whichever run is earlier.
StretchTies(i) ==
  LET others == Live(op.runs) \ {i}
      r2 == Winner(op.runs, others)
  IN  IF others = {} THEN Len(op.runs[i])
      ELSE Cardinality({p \in DOMAIN op.runs[i] :
             \A q \in 1 .. p : Compare(op.runs[i][q].k, Head(op.runs[r2]).k) <= 0})

\* runner_up and Keyed::stretch: how many rows of the winning run go before
\* the next best head, counting equal ones only when the winner is earlier.
Stretch(i) ==
  LET others == Live(op.runs) \ {i}
      r2 == Winner(op.runs, others)
      Better(r) == LET c == Compare(r.k, Head(op.runs[r2]).k) IN c < 0 \/ (c = 0 /\ i < r2)
  IN  IF others = {} THEN Len(op.runs[i])
      ELSE Cardinality({p \in DOMAIN op.runs[i] : \A q \in 1 .. p : Better(op.runs[i][q])})

(* merge_runs: one turn of its loop.  The code gallops only over keys that   *)
(* compare as lanes and counts wins anew for each block it emits; here any  *)
(* single key does, and the count goes on, so that stretches start earlier. *)
MergeTurn ==
  /\ Running /\ op.phase = "merge" /\ Live(op.runs) # {} /\ Len(out) < Want
  /\ LET i    == Winner(op.runs, Live(op.runs))
         wins == IF i = op.last THEN op.wins + 1 ELSE 0
         most == Want - Len(out)
         n    == IF wins < GallopAfter \/ Len(plan.keys) # 1 THEN 1
                 ELSE Most({1, Least({Stretch(i), most})})
     IN  /\ out' = out \o SubSeq(op.runs[i], 1, n)
         /\ op' = [op EXCEPT !.runs[i] = SubSeq(@, n + 1, Len(@)), !.last = i, !.wins = wins]
  /\ UNCHANGED <<plan, src, status>>

Finish ==
  /\ Running
  /\ \/ op.phase = "end"
     \/ op.phase = "passes" /\ Live(op.runs) = {} /\ Len(op.runs) <= FanIn
     \/ op.phase = "merge" /\ (Live(op.runs) = {} \/ Len(out) >= Want)
  /\ status' = "done"
  /\ UNCHANGED <<plan, src, op, out>>

Next == \/ Buffer \/ Spill \/ InMemory \/ TailRun \/ MergePass \/ MergeBlock
        \/ TopKBlock \/ TopKEnd \/ TopKTrivial
        \/ WorkerSorts \/ MergeTurn \/ Finish \/ Cancel

Spec == Init /\ [][Next]_vars

-----------------------------------------------------------------------------
Given == FlattenSeq(FlattenSeq(plan.input))

(* A finished sort answers the input in key order, equal keys in the order  *)
(* they came, cut to its LIMIT: however many runs it spilled, however the   *)
(* runs were grouped into passes, whenever the top-K buffer was trimmed and *)
(* however far a merge galloped.                                            *)
SortAnswer ==
  status = "done" /\ plan.op = "sort" =>
    LET order == SetToSortSeq(DOMAIN Given,
                   LAMBDA i, j : LET c == Compare(Given[i].k, Given[j].k)
                                 IN  c < 0 \/ (c = 0 /\ i < j))
    IN  out = Truncate([i \in DOMAIN order |-> Given[order[i]]], plan.fetch)

=============================================================================
