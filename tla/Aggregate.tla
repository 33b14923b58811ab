----------------------------- MODULE Aggregate -----------------------------
(***************************************************************************)
(* GROUP BY: exec/operators/aggregate.rs, serial and under an exchange.    *)
(*                                                                         *)
(* Every worker folds its blocks into a table of groups.  When the memory  *)
(* budget refuses the table, the worker freezes it: rows of groups it      *)
(* already holds still update them, rows of any other group are written to *)
(* a hash partition on disk.  Partitions are aggregated again afterwards,  *)
(* which may freeze and partition again one level down.  Under an exchange *)
(* the workers' tables are absorbed into one and the partitions of the     *)
(* same index and level are folded together, each group meeting what the   *)
(* absorbed table already knows of it.                                     *)
(*                                                                         *)
(* An accumulator is the bag of the values its update() was given, which   *)
(* is enough to tell whether a row was counted once, twice or not at all.  *)
(* Each group has a plain accumulator, n, and one for a DISTINCT           *)
(* aggregate, d, with the set `seen` that filters what reaches it.         *)
(***************************************************************************)
EXTENDS Naturals, Sequences, SequencesExt, FiniteSets, Functions

CONSTANTS Val,          \* the aggregate's argument
          Plans         \* the queries

\* plan = [op, input, keyed, sets, fleet, hash]:
\*   input  per worker, the blocks it will pull; a row is [k, v]
\*   keyed  FALSE for an aggregate without GROUP BY
\*   sets   for GROUPING SETS, per set, whether it keeps the key; else <<>>
\*   fleet  whether an Exchange runs it; if not there is one worker
\*   hash   two bits of hash_values for each group
VARIABLES plan, src, op, out, status

vars == <<plan, src, op, out, status>>

NULL == 0

Workers == DOMAIN plan.input

-----------------------------------------------------------------------------
(* Bags of values.                                                         *)
NoVals == [v \in Val |-> 0]

Sum(a, b) == [v \in Val |-> a[v] + b[v]]

Once(S) == [v \in Val |-> IF v \in S THEN 1 ELSE 0]

-----------------------------------------------------------------------------
(* Groups.                                                                 *)

\* The sets a block is passed once for each: nsets, and 0 when there are none.
Passes(p) == IF p.sets = <<>> THEN {0} ELSE DOMAIN p.sets

\* The probe tuple of a row under one set: a masked key reads NULL, and the
\* set's ordinal is part of the key.
Group(p, row, s) ==
  IF ~p.keyed THEN <<>>
  ELSE IF s = 0 THEN <<row.k>>
  ELSE <<IF p.sets[s] THEN row.k ELSE NULL, s>>

\* replay_group: the key of a spilled row, rebuilt from the __grouping_id
\* column it was written with.
ReplayGroup(p, row, s) ==
  LET kept == {i \in DOMAIN p.sets : p.sets[i]}
  IN  IF s = 0 THEN <<row.k>>
      ELSE IF kept = DOMAIN p.sets THEN <<row.k, s>>
      ELSE <<IF s \in kept THEN row.k ELSE NULL, s>>

\* Partitions::part_of, re-mixed with the level.
PartOf(p, level, g) == (p.hash[g] \div (IF level % 2 = 0 THEN 1 ELSE 2)) % 2

Fresh == [n |-> NoVals, d |-> NoVals, seen |-> {}]

\* update(): the DISTINCT accumulator is given only what `seen` had not held.
Update(e, v) == [n    |-> Sum(e.n, Once({v})),
                 d    |-> IF v \in e.seen THEN e.d ELSE Sum(e.d, Once({v})),
                 seen |-> e.seen \cup {v}]

\* find_or_insert and update, for one row of one group.
Add(t, g, v) ==
  IF g \in DOMAIN t THEN [t EXCEPT ![g] = Update(@, v)]
  ELSE t @@ (g :> Update(Fresh, v))

(* One row of accumulate_into.  The item keeps the set it was read under;   *)
(* a frozen table sends a row of an unknown group to its partition.         *)
Accumulate(p, acc, item, g, level) ==
  IF acc.frozen /\ g \notin DOMAIN acc.t
  THEN [acc EXCEPT !.parts[PartOf(p, level, g)] = Append(@, item)]
  ELSE [acc EXCEPT !.t = Add(@, g, item.row.v)]

NewTable(p) == [t      |-> IF p.keyed THEN <<>> ELSE (<<>> :> Fresh),
                parts  |-> [i \in 0 .. 1 |-> <<>>],
                frozen |-> FALSE]

\* Partitions::finish: a partition nothing was written to has no file.
Finished(parts, level) ==
  [i \in 1 .. Cardinality({j \in 0 .. 1 : parts[j] # <<>>}) |->
     LET idx == IF i = 1 /\ parts[0] # <<>> THEN 0 ELSE 1
     IN  [level |-> level + 1, idx |-> idx, items |-> parts[idx]]]

(* The block, pass by pass and row by row.                                  *)
Items(p, block) ==
  FlattenSeq([i \in 1 .. Cardinality(Passes(p)) |->
    [j \in DOMAIN block |-> [row |-> block[j], set |-> IF p.sets = <<>> THEN 0 ELSE i]]])

-----------------------------------------------------------------------------
Init == /\ plan \in Plans
        /\ src = plan.input
        /\ op = [w       |-> [x \in DOMAIN plan.input |-> NewTable(plan)],
                 phase   |-> "accumulate",
                 base    |-> <<>>,
                 absorbed |-> 0,
                 pending |-> <<>>,
                 more    |-> <<>>,
                 folded  |-> {}]
        /\ out = <<>>
        /\ status = "running"

Running == status = "running" /\ plan.op = "aggregate"

(* QueryContext::check, made before every block, partition and bucket.      *)
Cancel == /\ Running
          /\ status' = "cancelled"
          /\ UNCHANGED <<plan, src, op, out>>

(* One block of one worker.  `over`: grow_to was refused, which depends on  *)
(* everything else the query holds, or the worker passed its soft ceiling.  *)
(* Without keys there is nowhere to spill to and the error is returned.     *)
Block(w, over) ==
  /\ Running /\ op.phase = "accumulate" /\ src[w] # <<>>
  /\ src' = [src EXCEPT ![w] = Tail(@)]
  /\ LET Row1(acc, item) ==
           Accumulate(plan, acc, item, Group(plan, item.row, item.set), 0)
         after == FoldLeft(Row1, op.w[w], Items(plan, Head(src[w])))
     IN  op' = [op EXCEPT !.w[w] = [after EXCEPT !.frozen = @ \/ (over /\ plan.keyed)]]
  /\ status' = IF over /\ ~plan.keyed THEN "failed" ELSE status
  /\ UNCHANGED <<plan, out>>

Drained == \A w \in Workers : src[w] = <<>>

\* emit: keys in the table's order, each accumulator finished.
Emitted(t) == SetToSeq({[g |-> g, n |-> t[g].n, d |-> t[g].d] : g \in DOMAIN t})

(* Aggregate::materialize ends: the table is emitted and dropped, its       *)
(* partitions wait.                                                         *)
Materialized ==
  /\ Running /\ op.phase = "accumulate" /\ Drained /\ ~plan.fleet
  /\ out' = Emitted(op.w[1].t)
  /\ op' = [op EXCEPT !.phase = "partitions", !.pending = Finished(op.w[1].parts, 0)]
  /\ UNCHANGED <<plan, src, status>>

\* accumulate_into over a spilled partition, frozen after `cut` of its rows.
Refold(items, level, cut) ==
  LET Row1(acc, i) ==
        Accumulate(plan, [acc EXCEPT !.frozen = i > cut], items[i],
                   ReplayGroup(plan, items[i].row, items[i].set), level)
  IN  FoldLeft(Row1, NewTable(plan), [i \in DOMAIN items |-> i])

(* Aggregate::next_partition.                                               *)
NextPartition ==
  /\ Running /\ op.phase = "partitions" /\ op.pending # <<>>
  /\ LET p == Last(op.pending)
     IN  \E cut \in DOMAIN p.items :
           LET t == Refold(p.items, p.level, cut)
           IN  /\ out' = out \o Emitted(t.t)
               /\ op' = [op EXCEPT !.pending = Front(@) \o Finished(t.parts, p.level)]
  /\ UNCHANGED <<plan, src, status>>

-----------------------------------------------------------------------------
(* Groups::absorb of one entry into one that exists.  An empty `seen` takes *)
(* the other's set over with its accumulator; otherwise the values not seen *)
(* here are replayed.                                                       *)
Absorb1(mine, theirs) ==
  LET fresh == theirs.seen \ mine.seen
  IN  [n    |-> Sum(mine.n, theirs.n),
       d    |-> IF mine.seen = {} THEN Sum(mine.d, theirs.d) ELSE Sum(mine.d, Once(fresh)),
       seen |-> mine.seen \cup theirs.seen]

Absorb(base, other) ==
  [g \in DOMAIN base \cup DOMAIN other |->
     IF g \notin DOMAIN base THEN other[g]
     ELSE IF g \notin DOMAIN other THEN base[g]
     ELSE Absorb1(base[g], other[g])]

(* The exchange absorbs the workers in their order, partitions and all.     *)
AbsorbWorker ==
  /\ Running /\ op.phase = "accumulate" /\ Drained /\ plan.fleet
  /\ LET w == op.absorbed + 1
         base == IF w = 1 THEN op.w[1].t ELSE Absorb(op.base, op.w[w].t)
     IN  op' = [op EXCEPT !.base = base, !.absorbed = w,
                          !.pending = @ \o Finished(op.w[w].parts, 0),
                          !.phase = IF w = Len(plan.input) THEN "fold" ELSE @]
  /\ UNCHANGED <<plan, src, out, status>>

\* buckets: the partitions of every worker that share an index and a level.
Bucket(pending) ==
  {i \in DOMAIN pending : /\ pending[i].idx = pending[1].idx
                          /\ pending[i].level = pending[1].level}

\* Mutant: DISTINCT values the absorbed table had are counted again.
MergedSeenTwice(g, e) ==
  IF g \notin DOMAIN op.base THEN [g |-> g, n |-> e.n, d |-> e.d]
  ELSE [g |-> g, n |-> Sum(op.base[g].n, e.n), d |-> Sum(op.base[g].d, e.d)]

\* What fold_bucket answers for one group of its table.
Merged(g, e) ==
  IF g \notin DOMAIN op.base THEN [g |-> g, n |-> e.n, d |-> e.d]
  ELSE LET b == op.base[g]
       IN  [g |-> g, n |-> Sum(b.n, e.n), d |-> Sum(b.d, Once(e.seen \ b.seen))]

(* fold_bucket: aggregate the bucket again, finish each group with what the *)
(* absorbed table knew, mark that group as done; what froze again is `more`. *)
Fold(items, level, cut) ==
  LET t == Refold(items, level, cut)
  IN  [rows   |-> SetToSeq({Merged(g, t.t[g]) : g \in DOMAIN t.t}),
       folded |-> op.folded \cup (DOMAIN t.t \cap DOMAIN op.base),
       more   |-> Finished(t.parts, level)]

FoldBucket ==
  /\ Running /\ op.phase = "fold" /\ op.pending # <<>>
  /\ LET bucket == Bucket(op.pending)
         order  == SetToSortSeq(bucket, <)
         items  == FlattenSeq([i \in DOMAIN order |-> op.pending[order[i]].items])
         rest   == SetToSortSeq(DOMAIN op.pending \ bucket, <)
     IN  \E cut \in DOMAIN items :
           LET f == Fold(items, op.pending[1].level, cut)
           IN  /\ out' = out \o f.rows
               /\ op' = [op EXCEPT !.folded  = f.folded, !.more = @ \o f.more,
                                   !.pending = [i \in DOMAIN rest |-> op.pending[rest[i]]]]
  /\ UNCHANGED <<plan, src, status>>

\* The partitions a fold cut again, one at a time, the newest first.
FoldMore ==
  /\ Running /\ op.phase = "fold" /\ op.pending = <<>> /\ op.more # <<>>
  /\ LET p == Last(op.more)
     IN  \E cut \in DOMAIN p.items :
           LET f == Fold(p.items, p.level, cut)
           IN  /\ out' = out \o f.rows
               /\ op' = [op EXCEPT !.folded = f.folded, !.more = Front(@) \o f.more]
  /\ UNCHANGED <<plan, src, status>>

(* The end of emit_spilled: the groups no partition touched.                *)
EmitRest ==
  /\ Running /\ op.phase = "fold" /\ op.pending = <<>> /\ op.more = <<>>
  /\ out' = out \o Emitted([g \in DOMAIN op.base \ op.folded |-> op.base[g]])
  /\ op' = [op EXCEPT !.phase = "partitions"]
  /\ UNCHANGED <<plan, src, status>>

Finish == /\ Running /\ op.phase = "partitions" /\ op.pending = <<>>
          /\ status' = "done"
          /\ UNCHANGED <<plan, src, op, out>>

Next == \/ \E w \in Workers, over \in BOOLEAN : Block(w, over)
        \/ Materialized \/ NextPartition
        \/ AbsorbWorker \/ FoldBucket \/ FoldMore \/ EmitRest
        \/ Finish \/ Cancel

Spec == Init /\ [][Next]_vars

-----------------------------------------------------------------------------
(* What GROUP BY defines, from the rows alone.                              *)
AllRows == FlattenSeq([w \in Workers |-> FlattenSeq(plan.input[w])])

Groups == IF plan.keyed THEN {Group(plan, AllRows[i], s) : i \in DOMAIN AllRows, s \in Passes(plan)}
          ELSE {<<>>}

\* Where group g reads value v.
Reads(g, v) == {<<i, s>> \in (DOMAIN AllRows) \X Passes(plan) :
                  Group(plan, AllRows[i], s) = g /\ AllRows[i].v = v}

(* A finished aggregation answers every group exactly once, with every row  *)
(* of the group in its accumulator exactly once and every distinct value in *)
(* the DISTINCT one exactly once: whichever worker read a row, whenever a   *)
(* table froze, however often a partition was cut again.                    *)
AggregateAnswer ==
  status = "done" /\ plan.op = "aggregate" =>
    /\ {out[i].g : i \in DOMAIN out} = Groups
    /\ Len(out) = Cardinality(Groups)
    /\ \A i \in DOMAIN out, v \in Val :
         /\ out[i].n[v] = Cardinality(Reads(out[i].g, v))
         /\ out[i].d[v] = IF Reads(out[i].g, v) = {} THEN 0 ELSE 1

=============================================================================
