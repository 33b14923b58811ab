------------------------------- MODULE ScanOp -------------------------------
(***************************************************************************)
(* Reading a table: the access path planner/physical.rs chooses and the    *)
(* four ways exec/operators/scan.rs and exchange.rs then read a snapshot.  *)
(*                                                                         *)
(* A table is a sequence of parts, a part a sequence of granules sorted by *)
(* the sort column k, with a set of deleted positions.  Each granule keeps *)
(* the least and the greatest value of a column, over deleted rows too and *)
(* over nulls not at all, and the paths use these zone maps to skip        *)
(* granules, to count them without reading them or to answer min and max.  *)
(*                                                                         *)
(* A row is [k, v]: the sort column, never null, and another column, where *)
(* 0 is NULL.  A predicate is [col, cmp, val, list]; cmp = "in" and "or", a *)
(* chain col = x OR col = y, read the set, and NULL in it matches nothing. *)
(***************************************************************************)
EXTENDS Integers, Sequences, SequencesExt, FiniteSets, FiniteSetsExt

CONSTANTS BlockSize,      \* BLOCK_SIZE
          RowsPerProbe,   \* SCAN_ROWS_PER_PROBE
          Claim,          \* META_CLAIM
          Plans           \* the queries

\* plan = [op, parts, dels, keyed, pending, filters, want, col, workers]:
\*   parts    per part, its granules, a granule being a sequence of rows
\*   dels     per part, the deleted positions <<granule, row>>
\*   keyed    whether k is the table's single-column PRIMARY KEY and every part
\*            was built under it: one that was not declines the index path
\*   pending  whether rows wait in the write buffer, not yet in a part
\*   filters  the PREWHERE list
\*   want     what is asked: "rows", "ordered" (rows ORDER BY k), "count", or
\*           "min" or "max" of the column col
\*   workers  the degree exchange and meta_degree ask for
VARIABLES plan, src, op, out, status

vars == <<plan, src, op, out, status>>

NULL == 0

Least(S) == CHOOSE n \in S : \A m \in S : n <= m
Most(S)  == CHOOSE n \in S : \A m \in S : n >= m

-----------------------------------------------------------------------------
(* Predicates and zone maps.                                                *)
Cmp(x, cmp, y) ==
  CASE cmp = "eq" -> x = y [] cmp = "ne" -> x # y [] cmp = "lt" -> x < y
    [] cmp = "le" -> x <= y [] cmp = "gt" -> x > y [] cmp = "ge" -> x >= y

\* eval_predicate for one row: NULL is not TRUE.
Passes(row, f) ==
  /\ row[f.col] # NULL
  /\ IF f.cmp \in {"in", "or"} THEN row[f.col] \in f.list \ {NULL} ELSE Cmp(row[f.col], f.cmp, f.val)

Keep(rows) == SelectSeq(rows, LAMBDA r : \A i \in DOMAIN plan.filters : Passes(r, plan.filters[i]))

Values(g, c) == {g[i][c] : i \in DOMAIN g} \ {NULL}
MinValue(g, c) == IF Values(g, c) = {} THEN NULL ELSE Least(Values(g, c))
MaxValue(g, c) == IF Values(g, c) = {} THEN NULL ELSE Most(Values(g, c))

\* ZoneFilter::may_match.
MayMatch(f, min, max) ==
  /\ min # NULL /\ max # NULL
  /\ CASE f.cmp = "eq" -> f.val >= min /\ f.val <= max
       [] f.cmp = "ne" -> ~(min = max /\ min = f.val)
       [] f.cmp = "lt" -> min < f.val
       [] f.cmp = "le" -> min <= f.val
       [] f.cmp = "gt" -> max > f.val
       [] f.cmp = "ge" -> max >= f.val

\* as_zone_filter and as_zone_filter_upper: a comparison is its own test, an
\* IN list is bounded by its least and its greatest value, an OR has none.
ZoneFilters(f) ==
  LET vs == f.list \ {NULL}
      Bound(cmp, x) == [f EXCEPT !.cmp = cmp, !.val = x]
  IN  CASE f.cmp = "or" -> {}
        [] f.cmp = "in" -> IF vs = {} THEN {} ELSE {Bound("ge", Least(vs)), Bound("le", Most(vs))}
        [] OTHER -> {f}

\* prunes, of a Scan and of an Exchange.
Prunes(g) == \E i \in DOMAIN plan.filters : \E f \in ZoneFilters(plan.filters[i]) :
               ~MayMatch(f, MinValue(g, f.col), MaxValue(g, f.col))

\* What meta_preds takes: a comparison, which alone can also say that every
\* row of a granule matches.
Zoned(f) == f.cmp \notin {"in", "or"}

Negate(cmp) == CASE cmp = "eq" -> "ne" [] cmp = "ne" -> "eq" [] cmp = "lt" -> "ge"
                 [] cmp = "le" -> "gt" [] cmp = "gt" -> "le" [] cmp = "ge" -> "lt"

\* The granules of the snapshot, in scan order, as <<part, granule>>.
Granules(p) == FlattenSeq([pi \in DOMAIN p.parts |->
                 [gi \in DOMAIN p.parts[pi] |-> <<pi, gi>>]])

GranuleAt(at) == plan.parts[at[1]][at[2]]

\* live_selection_into and read_columns.
Live(at) ==
  LET g == GranuleAt(at)
      live == SetToSortSeq({i \in DOMAIN g : <<at[2], i>> \notin plan.dels[at[1]]}, <)
  IN  [j \in DOMAIN live |-> g[live[j]]]

LiveRows(p) == FoldLeft(LAMBDA n, at : n + Cardinality({i \in DOMAIN p.parts[at[1]][at[2]] :
                                          <<at[2], i>> \notin p.dels[at[1]]}), 0, Granules(p))

-----------------------------------------------------------------------------
(* The choice of a path: physical.rs.                                       *)

\* key_set: the keys a filter on k pins down, or {} when it does not.
KeySet(f) ==
  CASE f.col = "k" /\ f.cmp = "eq" -> {f.val}
    [] f.col = "k" /\ f.cmp \in {"in", "or"} -> f.list \ {NULL}
    [] OTHER -> {}

IsKeySet(f) == f.col = "k" /\ f.cmp \in {"eq", "in", "or"}

\* index_path.  find_map stops at the first filter that is a key set; an
\* empty one declines the path.
IndexKeys(p) ==
  LET sets == {i \in DOMAIN p.filters : IsKeySet(p.filters[i])}
      keys == IF sets = {} THEN {} ELSE KeySet(p.filters[Least(sets)])
      n    == Cardinality(keys)
  IN  IF p.keyed /\ (n = 1 \/ (n > 1 /\ n * RowsPerProbe <= LiveRows(p))) THEN keys ELSE {}

\* meta_preds, and that the sort column alone decides them.
OnSortColumn(p) == \A i \in DOMAIN p.filters : Zoned(p.filters[i]) /\ p.filters[i].col = "k"

Tombstoned(p) == \E pi \in DOMAIN p.dels : p.dels[pi] # {}

\* meta_path.
MetaPath(p) ==
  /\ p.want \notin {"rows", "ordered"} /\ ~p.pending
  /\ OnSortColumn(p) /\ IndexKeys(p) = {}
  /\ p.want # "count" => ~Tombstoned(p) /\ p.filters = <<>>

\* parts_concatenate_in_order, over the zone of the sort column.
PartsConcatenate(p) ==
  LET full == {pi \in DOMAIN p.parts : p.parts[pi] # <<>>}
  IN  \A a, b \in full :
        a < b => MinValue(Head(p.parts[b]), "k") >= MaxValue(Last(p.parts[a]), "k")

\* read_in_order: the Sort node is not built at all.
ReadInOrder(p) == p.want = "ordered" /\ ~p.pending /\ OnSortColumn(p) /\ PartsConcatenate(p)

\* What lower() builds at the bottom of the plan.
Path(p) == CASE MetaPath(p) -> IF p.filters = <<>> THEN "meta_all" ELSE "meta_where"
             [] ~MetaPath(p) /\ IndexKeys(p) # {} -> "index"
             [] OTHER -> IF p.workers > 1 /\ p.want # "rows" /\ ~ReadInOrder(p) THEN "exchange" ELSE "scan"

-----------------------------------------------------------------------------
\* Exchange::prune keeps the granules that may match; degree() is capped by
\* how many there are.
Fleet(n, work) == Least({n, Most({Len(work), 1})})
Span(len, n, k) == <<(len * k) \div n, (len * (k + 1)) \div n>>    \* k from 0

Init == /\ plan \in Plans
        /\ src = Granules(plan)
        /\ op = [acc    |-> <<>>,      \* rows waiting to fill a block
                 hits   |-> <<>>,      \* IndexLookup: <<part, granule, row>>
                 mine   |-> <<>>,      \* Exchange: per worker, the granules left
                 part   |-> <<>>,      \* Exchange: per worker, the rows read
                 count  |-> <<>>,      \* count_where: per worker, the rows counted
                 cursor |-> 0,
                 ready  |-> FALSE]
        /\ out = <<>>
        /\ status = "running"

Running == status = "running" /\ plan.op = "scan"

Cancel == /\ Running
          /\ status' = "cancelled"
          /\ UNCHANGED <<plan, src, op, out>>

(* Scan::next, one granule.                                                 *)
ReadGranule ==
  /\ Running /\ Path(plan) = "scan" /\ src # <<>>
  /\ src' = Tail(src)
  /\ LET acc == op.acc \o (IF Prunes(GranuleAt(Head(src))) THEN <<>> ELSE Keep(Live(Head(src))))
     IN  IF Len(acc) >= BlockSize
         THEN out' = out \o acc /\ op' = [op EXCEPT !.acc = <<>>]
         ELSE out' = out /\ op' = [op EXCEPT !.acc = acc]
  /\ UNCHANGED <<plan, status>>

ScanEnd ==
  /\ Running /\ Path(plan) = "scan" /\ src = <<>>
  /\ out' = out \o op.acc
  /\ op' = [op EXCEPT !.acc = <<>>]
  /\ status' = "done"
  /\ UNCHANGED <<plan, src>>

-----------------------------------------------------------------------------
(* IndexLookup.  find() answers some row with the key; collect_run walks    *)
(* back and forth over the equal keys, across granules, and keeps the live  *)
(* ones.                                                                    *)
Positions(pi) == FlattenSeq([gi \in DOMAIN plan.parts[pi] |->
                   [i \in DOMAIN plan.parts[pi][gi] |-> <<pi, gi, i>>]])
KeyAt(at) == plan.parts[at[1]][at[2]][at[3]].k

\* Mutant: the run ends with the granule.
RunInGranule(pos, x) ==
  SelectSeq(pos, LAMBDA at : /\ at[2] = pos[x][2] /\ KeyAt(at) = KeyAt(pos[x])
                             /\ <<at[2], at[3]>> \notin plan.dels[at[1]])

\* The stretch of equal keys around place x of the part's positions.
RunAround(pos, x) ==
  LET key  == KeyAt(pos[x])
      low  == Least({a \in 1 .. x : \A b \in a .. x : KeyAt(pos[b]) = key})
      high == Most({a \in x .. Len(pos) : \A b \in x .. a : KeyAt(pos[b]) = key})
  IN  SelectSeq(SubSeq(pos, low, high), LAMBDA at : <<at[2], at[3]>> \notin plan.dels[at[1]])

Resolve ==
  /\ Running /\ Path(plan) = "index" /\ ~op.ready
  /\ LET keys == SetToSortSeq(IndexKeys(plan), <)
         Found(pi, key) == {x \in DOMAIN Positions(pi) : KeyAt(Positions(pi)[x]) = key}
         Hits(pi, key) == IF Found(pi, key) = {} THEN <<>>
                          ELSE RunAround(Positions(pi), CHOOSE x \in Found(pi, key) : TRUE)
         hits == FlattenSeq([pi \in DOMAIN plan.parts |->
                   FlattenSeq([j \in DOMAIN keys |-> Hits(pi, keys[j])])])
     IN  op' = [op EXCEPT !.hits = hits, !.ready = TRUE]
  /\ UNCHANGED <<plan, src, out, status>>

(* next: the hits of one granule are read together; a block is filtered     *)
(* once it is full, and a block filtered away is not the end of the stream. *)
ReadHits ==
  /\ Running /\ Path(plan) = "index" /\ op.ready /\ op.hits # <<>>
  /\ LET first == Head(op.hits)
         same  == SelectSeq(op.hits, LAMBDA h : h[1] = first[1] /\ h[2] = first[2])
         acc   == op.acc \o [i \in DOMAIN same |-> plan.parts[same[i][1]][same[i][2]][same[i][3]]]
         rest  == SubSeq(op.hits, Len(same) + 1, Len(op.hits))
     IN  IF Len(acc) >= BlockSize
         THEN out' = out \o Keep(acc) /\ op' = [op EXCEPT !.acc = <<>>, !.hits = rest]
         ELSE out' = out /\ op' = [op EXCEPT !.acc = acc, !.hits = rest]
  /\ UNCHANGED <<plan, src, status>>

HitsEnd ==
  /\ Running /\ Path(plan) = "index" /\ op.ready /\ op.hits = <<>>
  /\ out' = out \o Keep(op.acc)
  /\ op' = [op EXCEPT !.acc = <<>>]
  /\ status' = "done"
  /\ UNCHANGED <<plan, src>>

-----------------------------------------------------------------------------
(* MetaAggregate without predicates: count_all and fold_extremes.  A part   *)
(* without deletes answers its row count.                                   *)
CountAll == FoldLeft(LAMBDA n, at : n + Len(Live(at)), 0, Granules(plan))

Extreme(which, c) ==
  LET ends == {IF which = "max" THEN MaxValue(GranuleAt(Granules(plan)[i]), c)
               ELSE MinValue(GranuleAt(Granules(plan)[i]), c) : i \in DOMAIN Granules(plan)} \ {NULL}
  IN  IF ends = {} THEN NULL ELSE IF which = "max" THEN Most(ends) ELSE Least(ends)

MetaAll ==
  /\ Running /\ Path(plan) = "meta_all"
  /\ out' = <<IF plan.want = "count" THEN CountAll ELSE Extreme(plan.want, plan.col)>>
  /\ status' = "done"
  /\ UNCHANGED <<plan, src, op>>

(* fold_granule, by the verdict of the zone map: nothing matches, every row *)
(* does, or the granule has to be read.                                     *)
Verdict(g) ==
  LET NotF(f) == [f EXCEPT !.cmp = Negate(@)]
      nulls(c) == \E i \in DOMAIN g : g[i][c] = NULL
      May(f) == MayMatch(f, MinValue(g, f.col), MaxValue(g, f.col))
      fs == {plan.filters[i] : i \in DOMAIN plan.filters}
  IN  CASE \E f \in fs : ~May(f) -> "empty"
        [] \A f \in fs : May(f) /\ ~May(NotF(f)) /\ ~nulls(f.col) -> "all"
        [] OTHER -> "mixed"

FoldGranule(at) == CASE Verdict(GranuleAt(at)) = "empty" -> 0
                     [] Verdict(GranuleAt(at)) = "all"   -> Len(Live(at))
                     [] OTHER -> Len(Keep(Live(at)))

(* count_where and count_where_parallel: worker w claims the next granules  *)
(* from the shared cursor and folds them.                                   *)
CountWhere(w) ==
  /\ Running /\ Path(plan) = "meta_where" /\ op.cursor < Len(src)
  /\ LET end   == Least({op.cursor + Claim, Len(src)})
         n     == FoldLeft(LAMBDA s, at : s + FoldGranule(at), 0, SubSeq(src, op.cursor + 1, end))
         count == IF op.ready THEN op.count ELSE [x \in 1 .. plan.workers |-> 0]
     IN  op' = [op EXCEPT !.cursor = @ + Claim, !.ready = TRUE,
                          !.count = [count EXCEPT ![w] = @ + n]]
  /\ UNCHANGED <<plan, src, out, status>>

CountEnd ==
  /\ Running /\ Path(plan) = "meta_where" /\ op.cursor >= Len(src)
  /\ out' = <<FoldLeft(LAMBDA a, b : a + b, 0, op.count)>>
  /\ status' = "done"
  /\ UNCHANGED <<plan, src, op>>

-----------------------------------------------------------------------------
(* Exchange::materialize: prune, then give each worker a contiguous share   *)
(* of what is left.                                                         *)
Prune ==
  /\ Running /\ Path(plan) = "exchange" /\ ~op.ready
  /\ LET kept == SelectSeq(src, LAMBDA at : ~Prunes(GranuleAt(at)))
         n    == Fleet(plan.workers, kept)
         Share(k) == LET s == Span(Len(kept), n, k) IN SubSeq(kept, s[1] + 1, s[2])
     IN  /\ src' = kept
         /\ op' = [op EXCEPT !.ready = TRUE,
                             !.mine = [k \in 1 .. n |-> Share(k - 1)],
                             !.part = [k \in 1 .. n |-> <<>>]]
  /\ UNCHANGED <<plan, out, status>>

(* ShardScan::next of one worker, one granule.                              *)
Shard(w) ==
  /\ Running /\ Path(plan) = "exchange" /\ op.ready /\ w \in DOMAIN op.mine /\ op.mine[w] # <<>>
  /\ op' = [op EXCEPT !.mine[w] = Tail(@), !.part[w] = @ \o Keep(Live(Head(op.mine[w])))]
  /\ UNCHANGED <<plan, src, out, status>>

(* The partials, in the workers' order.                                     *)
Combine ==
  /\ Running /\ Path(plan) = "exchange" /\ op.ready /\ \A w \in DOMAIN op.mine : op.mine[w] = <<>>
  /\ out' = FlattenSeq(op.part)
  /\ status' = "done"
  /\ UNCHANGED <<plan, src, op>>

Next == \/ ReadGranule \/ ScanEnd
        \/ Resolve \/ ReadHits \/ HitsEnd
        \/ MetaAll \/ (\E w \in 1 .. plan.workers : CountWhere(w)) \/ CountEnd
        \/ Prune \/ (\E w \in 1 .. plan.workers : Shard(w)) \/ Combine
        \/ Cancel

Spec == Init /\ [][Next]_vars

-----------------------------------------------------------------------------
(* The answer, from the live rows alone.                                    *)
Matching == Keep(FlattenSeq([i \in DOMAIN Granules(plan) |-> Live(Granules(plan)[i])]))

ExtremeOf(which, c) ==
  LET vs == {Matching[i][c] : i \in DOMAIN Matching} \ {NULL}
  IN  IF vs = {} THEN NULL ELSE IF which = "max" THEN Most(vs) ELSE Least(vs)

(* Whichever path the planner takes, the live rows that satisfy the filters *)
(* come back exactly once and in the order of a serial scan; a count or an  *)
(* extreme read from metadata is the one of those rows; and when the sort   *)
(* was dropped the rows really are in order.                                *)
ScanAnswer ==
  status = "done" /\ plan.op = "scan" =>
    CASE MetaPath(plan) /\ plan.want = "count" -> out = <<Len(Matching)>>
      [] MetaPath(plan) /\ plan.want # "count" -> out = <<ExtremeOf(plan.want, plan.col)>>
      [] OTHER -> /\ out = Matching
                  /\ ReadInOrder(plan) =>
                       \A i, j \in DOMAIN out : i < j => out[i].k <= out[j].k

=============================================================================
