------------------------------ MODULE Logical ------------------------------
(***************************************************************************)
(* Logical plans (planner/logical.rs), the rows each one stands for on a   *)
(* database, and the joins a subquery predicate is written as.             *)
(*                                                                         *)
(* A database is a function from table names to sequences of rows.  A      *)
(* schema is the number of columns; nullability is asked of the binder     *)
(* where a lowering depends on it.                                         *)
(***************************************************************************)
EXTENDS Exprs

(* The nodes.  proj holds the table columns a scan returns; zones only     *)
(* say which granules may be skipped; w is a join's declared width.        *)
Scan(t, proj)     == [k |-> "scan", in |-> <<>>, table |-> t, proj |-> proj,
                      filters |-> <<>>, zones |-> <<>>]
Filter(p, e)      == [k |-> "filter", in |-> <<p>>, pred |-> e]
Project(p, es)    == [k |-> "project", in |-> <<p>>, exprs |-> es]
Join(l, r, kind, on, res, w) ==
  [k |-> "join", in |-> <<l, r>>, kind |-> kind, on |-> on, residual |-> res, w |-> w]
(* GROUPING SETS leave group empty: the keys and the sets are arguments of  *)
(* a marker aggregate, and the number of the set is a column after the keys. *)
Aggregate(p, g, as) ==
  [k |-> "agg", in |-> <<p>>, group |-> g, aggs |-> as, keys |-> <<>>, sets |-> <<>>]
GroupingSets(p, keys, sets, as) ==
  [k |-> "agg", in |-> <<p>>, group |-> <<>>, aggs |-> as, keys |-> keys, sets |-> sets]
Agg(f, args, d)   == [f |-> f, args |-> args, distinct |-> d]
Window(p, fs, part, order) ==
  [k |-> "window", in |-> <<p>>, funcs |-> fs, part |-> part, order |-> order]
Key(e, desc)      == [e |-> e, desc |-> desc]
Sort(p, keys)     == [k |-> "sort", in |-> <<p>>, keys |-> keys, fetch |-> NULL]
Limit(p, n, m)    == [k |-> "limit", in |-> <<p>>, limit |-> n, offset |-> m]
LimitBy(p, n, es) == [k |-> "limit_by", in |-> <<p>>, limit |-> n, exprs |-> es]
Distinct(p)       == [k |-> "distinct", in |-> <<p>>]
Union(ps, o, all) == [k |-> "union", in |-> ps, o |-> o, all |-> all]
Values(rows)      == [k |-> "values", in |-> <<>>, rows |-> rows]
Empty(w)          == [k |-> "empty", in |-> <<>>, w |-> w]
Failed            == [k |-> "error", in |-> <<>>]

\* LogicalPlan::schema().len().
RECURSIVE Width(_)
Width(p) ==
  CASE p.k = "scan"    -> Len(p.proj)
    [] p.k = "project" -> Len(p.exprs)
    [] p.k \in {"join", "empty"} -> p.w
    [] p.k = "agg"     -> Len(p.aggs) + (IF p.sets = <<>> THEN Len(p.group) ELSE Len(p.keys) + 1)
    [] p.k = "window"  -> Width(p.in[1]) + Len(p.funcs)
    [] p.k = "values"  -> Len(p.rows[1])
    [] p.k = "error"   -> 0
    [] OTHER           -> Width(p.in[1])

\* The columns of the blocks a plan really produces.
RECURSIVE Span(_)
Span(p) ==
  CASE p.k = "join"   -> Span(p.in[1]) + Span(p.in[2])
    [] p.k = "window" -> Span(p.in[1]) + Len(p.funcs)
    [] p.k \in {"filter", "sort", "limit", "limit_by", "distinct"} -> Span(p.in[1])
    [] OTHER          -> Width(p)

Cols0(p) == [i \in 1 .. Width(p) |-> Col(i)]

-----------------------------------------------------------------------------
(* The rows of a plan: what the operators answer.                          *)

Keep(rows, Test(_)) == SelectSeq(rows, Test)
EvalAll(es, row) == [i \in DOMAIN es |-> Eval(es[i], row)]
Pad(n) == [i \in 1 .. n |-> NULL]

\* NULL keys never meet.
Meet(l, r, on, res) ==
  /\ \A i \in DOMAIN on : l[on[i][1]] # NULL /\ l[on[i][1]] = r[on[i][2]]
  /\ Passes(res, l \o r)

\* meets[i] are the rows of R that row i of L meets.
JoinedRows(kind, L, R, meets, lw, rw) ==
  LET For(i) == LET hit == Pick(R, LAMBDA j : j \in meets[i])
                IN  IF hit = <<>> /\ kind \in {"left", "full"} THEN <<L[i] \o Pad(rw)>>
                    ELSE [j \in DOMAIN hit |-> L[i] \o hit[j]]
      lost == Pick(R, LAMBDA j : \A i \in DOMAIN L : j \notin meets[i])
  IN  FlattenSeq([i \in DOMAIN L |-> For(i)])
      \o IF kind \in {"right", "full"} THEN [j \in DOMAIN lost |-> Pad(lw) \o lost[j]] ELSE <<>>

JoinRows(p, L, R, lw, rw) ==
  JoinedRows(p.kind, L, R,
             [i \in DOMAIN L |-> {j \in DOMAIN R : Meet(L[i], R[j], p.on, p.residual)}], lw, rw)

Dedup(rows) == Pick(rows, LAMBDA i : \A j \in 1 .. i - 1 : rows[j] # rows[i])

AggOf(f, ys) ==
  CASE f = "count"  -> Len(ys)
    [] ys = <<>>    -> NULL
    [] f = "sum"    -> SumFunction(ys)
    [] f = "max"    -> Max(ToSet(ys))

AggValue(a, rows) ==
  LET Known(xs) == SelectSeq(IF a.distinct THEN Dedup(xs) ELSE xs, LAMBDA x : x # NULL)
  IN  IF a.args = <<>> THEN Len(rows)
      ELSE AggOf(a.f, Known([i \in DOMAIN rows |-> Eval(a.args[1], rows[i])]))

\* One pass per grouping set; a key outside the set is NULL.  Without keys
\* there is one group however empty the input.
GroupsOf(p, rows, keyOf, keys, id) ==
  [g \in DOMAIN keys |->
     keys[g] \o id \o [j \in DOMAIN p.aggs |-> AggValue(p.aggs[j], Pick(rows, LAMBDA i : keyOf[i] = keys[g]))]]

GroupSet(p, rows, by, set, id) ==
  LET keyOf == [n \in DOMAIN rows |-> [i \in DOMAIN by |-> IF i \in set THEN Eval(by[i], rows[n]) ELSE NULL]]
  IN  GroupsOf(p, rows, keyOf, IF set = {} THEN <<Pad(Len(by))>> ELSE Dedup(keyOf), id)

GroupRows(p, rows) ==
  LET plain == p.sets = <<>>
      sets == IF plain THEN <<DOMAIN p.group>> ELSE p.sets
  IN  FlattenSeq([s \in DOMAIN sets |->
        GroupSet(p, rows, IF plain THEN p.group ELSE p.keys, sets[s], IF plain THEN <<>> ELSE <<s - 1>>)])

\* NULLs come first when ascending and last when descending.
Before(keys, a, b) ==
  \E i \in DOMAIN keys : /\ \A j \in 1 .. i - 1 : a[j] = b[j]
                         /\ IF keys[i].desc THEN a[i] > b[i] ELSE a[i] < b[i]

\* Stable; vals are the values of the keys.
SortBy(keys, rows, vals) ==
  LET at == SortSeq(Places(rows), LAMBDA i, j :
              \/ Before(keys, vals[i], vals[j])
              \/ ~Before(keys, vals[j], vals[i]) /\ i < j)
  IN  [i \in DOMAIN at |-> rows[at[i]]]

SortRows(keys, rows) ==
  SortBy(keys, rows, [i \in DOMAIN rows |-> [k \in DOMAIN keys |-> Eval(keys[k].e, rows[i])]])

\* The functions of one OVER clause, on rows in its order: row_number(), or an
\* aggregate of the partition up to the last peer of the row.
WindowOver(p, rows, part, key) ==
  LET Same(i) == {j \in DOMAIN rows : part[j] = part[i]}
      Frame(i) == Pick(rows, LAMBDA j : j \in Same(i) /\ (p.order = <<>> \/ j <= i \/ key[j] = key[i]))
      Value(f, i) == IF f.f = "row_number" THEN Cardinality({j \in Same(i) : j <= i})
                     ELSE AggValue(f, Frame(i))
  IN  [i \in DOMAIN rows |-> rows[i] \o [n \in DOMAIN p.funcs |-> Value(p.funcs[n], i)]]

AllEval(es, rows) == [i \in DOMAIN rows |-> EvalAll(es, rows[i])]

WindowRows(p, rows) == WindowOver(p, rows, AllEval(p.part, rows), AllEval(p.order, rows))

Copies(x, rows) == Cardinality({i \in DOMAIN rows : rows[i] = x})

\* A left fold over the branches, the way Streams.Answer has it.
SetRows(o, all, A, C) ==
  LET Want(i) == LET n == Copies(A[i], SubSeq(A, 1, i))
                     m == Copies(A[i], C)
                 IN  CASE o = "intersect" /\ all -> n <= m
                       [] o = "intersect"        -> n = 1 /\ m > 0
                       [] o = "except" /\ all    -> n > m
                       [] o = "except"           -> n = 1 /\ m = 0
  IN  IF o # "union" THEN Pick(A, Want)
      ELSE IF all THEN A \o C ELSE Dedup(A \o C)

\* LimitBy::next: the first row of a key is kept before the limit is looked at,
\* so that LIMIT 0 BY keeps one row per key (limit_zero_by of MCPlannerFlaws).
FirstPer(n, rows, vals) ==
  LET Earlier(i) == Cardinality({j \in 1 .. i - 1 : vals[j] = vals[i]})
  IN  Pick(rows, LAMBDA i : Earlier(i) = 0 \/ n > Earlier(i))

Cut(rows, n, m) ==
  LET from == m + 1
      to == IF n = NULL THEN Len(rows) ELSE Min({Len(rows), m + n})
  IN  IF from > to THEN <<>> ELSE SubSeq(rows, from, to)

\* A granule of one row whose zone refutes a zone filter is not read.
ZoneReads(z, row) == Compare(z.o, row[z.col], z.v) \in {1, NULL}

RECURSIVE Rows(_, _)
Rows(p, db) ==
  LET I(n) == Rows(p.in[n], db)
  IN
  CASE p.k = "scan" ->
         LET all == [i \in DOMAIN db[p.table] |-> [c \in DOMAIN p.proj |-> db[p.table][i][p.proj[c]]]]
             read == Keep(all, LAMBDA row : \A z \in DOMAIN p.zones : ZoneReads(p.zones[z], row))
         IN  Keep(read, LAMBDA row : AllPass(p.filters, row))
    [] p.k = "filter"   -> Keep(I(1), LAMBDA row : Passes(p.pred, row))
    [] p.k = "project"  -> AllEval(p.exprs, I(1))
    [] p.k = "join"     -> JoinRows(p, I(1), I(2), Span(p.in[1]), Span(p.in[2]))
    [] p.k = "agg"      -> GroupRows(p, I(1))
    [] p.k = "window"   -> WindowRows(p, I(1))
    [] p.k = "sort"     -> Cut(SortRows(p.keys, I(1)), p.fetch, 0)
    [] p.k = "limit"    -> Cut(I(1), p.limit, p.offset)
    [] p.k = "limit_by" -> FirstPer(p.limit, I(1), AllEval(p.exprs, I(1)))
    [] p.k = "distinct" -> Dedup(I(1))
    [] p.k = "union"    ->
         LET b == [i \in DOMAIN p.in |-> Rows(p.in[i], db)]
         IN  FoldLeft(LAMBDA a, c : SetRows(p.o, p.all, a, c), b[1], Tail(b))
    [] p.k = "values"   -> p.rows
    [] p.k \in {"empty", "error"} -> <<>>

-----------------------------------------------------------------------------
(* Subquery predicates as joins.  Each takes the outer plan and returns it *)
(* with columns appended; its own columns keep their places.               *)

TRUE1 == Lit(1)

AppendJoin(l, r, on, kind) == Join(l, r, kind, on, TRUE1, Width(l) + Width(r))

\* keyed, keyed_many: probes that are not columns are computed and appended.
KeyedMany(l, probes) ==
  LET new == SelectSeq([i \in DOMAIN probes |-> i], LAMBDA i : ~IsCol(probes[i]))
      At(i) == IF IsCol(probes[i]) THEN probes[i].v
               ELSE Width(l) + Cardinality({j \in DOMAIN new : new[j] <= i})
  IN  [plan |-> IF new = <<>> THEN l
                ELSE Project(l, Cols0(l) \o [j \in DOMAIN new |-> probes[new[j]]]),
       at |-> [i \in DOMAIN probes |-> At(i)]]

Keyed(l, probe) == LET m == KeyedMany(l, <<probe>>) IN [plan |-> m.plan, at |-> m.at[1]]

\* Mutant: the mark is looked for among the outer columns.
MarkBefore(l, r, on) ==
  Filter(AppendJoin(l, r, on, "left"), IsNull(Col(Width(l)), FALSE))

\* anti: unmatched rows have NULL in the first column of the right side.
Marked(l, r, on) ==
  Filter(AppendJoin(l, r, on, "left"), IsNull(Col(Width(l) + 1), FALSE))

\* exists_subquery, exists_probe.
ExistsSubquery(l, sub, neg) ==
  LET one == Limit(Project(sub, <<TRUE1>>), 1, 0)
  IN  IF neg THEN Marked(l, one, <<>>) ELSE AppendJoin(l, one, <<>>, "cross")

Counts(sub) == <<Agg("count", <<>>, FALSE), Agg("count", <<Col(1)>>, FALSE)>>

Guarded(p, conj) == IF conj = <<>> THEN p ELSE Filter(p, JoinConjuncts(conj))

\* census_guard: NOT IN is not TRUE when the subquery has a NULL, or when the
\* probe is NULL and the subquery has any row.
CensusGuard(l, key, sub, probeNull, subNull) ==
  LET rows == Col(Width(l) + 1)
      nonnull == Col(Width(l) + 2)
  IN  Guarded(AppendJoin(l, Aggregate(sub, <<>>, Counts(sub)), <<>>, "cross"),
        (IF subNull THEN <<Eq(rows, nonnull)>> ELSE <<>>)
        \o (IF probeNull THEN <<Or(IsNull(key, TRUE), Eq(rows, Lit(0)))>> ELSE <<>>))

\* in_subquery, k being the keyed outer plan; the binder asks for the census
\* with needs_null_census.
InKeyed(k, sub, neg, probeNull, subNull) ==
  LET on == <<<<k.at, 1>>>>
  IN  IF ~neg THEN AppendJoin(k.plan, Distinct(sub), on, "inner")
      ELSE IF ~(probeNull \/ subNull) THEN Marked(k.plan, Distinct(sub), on)
      ELSE CensusGuard(Marked(k.plan, Distinct(sub), on), Col(k.at), sub, probeNull, subNull)

InSubquery(l, probe, sub, neg, probeNull, subNull) == InKeyed(Keyed(l, probe), sub, neg, probeNull, subNull)

\* corr_join_inputs, narrow: the lead, the keys and the exports, once each.
CorrInputs(l, keys, exports, sub, lead) ==
  LET inner == lead \o [i \in DOMAIN keys |-> keys[i].inner] \o exports
      Inputs(m) == [left |-> m.plan,
                    on |-> [i \in DOMAIN keys |-> <<m.at[i], Len(lead) + i>>],
                    right |-> Distinct(Project(sub, [i \in DOMAIN inner |-> Col(inner[i])]))]
  IN  Inputs(KeyedMany(l, [i \in DOMAIN keys |-> keys[i].outer]))

ExistsJoin(c, keys, exports, neg) ==
  LET n == Width(c.left) + Len(keys)
  IN  IF neg THEN [plan |-> Marked(c.left, c.right, c.on), at |-> <<>>]
      ELSE [plan |-> AppendJoin(c.left, c.right, c.on, "inner"),
            at |-> [i \in DOMAIN exports |-> n + i]]

ExistsCorrelated(l, keys, exports, sub, neg) ==
  ExistsJoin(CorrInputs(l, keys, exports, sub, <<>>), keys, exports, neg)

\* grouped_census: the same guard, per correlation key.
CensusPerKey(m, key, keys, sub, probeNull, subNull) ==
  LET census == Aggregate(sub, [i \in DOMAIN keys |-> Col(keys[i].inner)], Counts(sub))
      rows == Col(Width(m.plan) + Len(keys) + 1)
      nonnull == Col(Width(m.plan) + Len(keys) + 2)
  IN  Guarded(AppendJoin(m.plan, census, [i \in DOMAIN keys |-> <<m.at[i], i>>], "left"),
        (IF subNull THEN <<Or(IsNull(rows, FALSE), Eq(rows, nonnull))>> ELSE <<>>)
        \o (IF probeNull THEN <<Or(IsNull(key, TRUE), IsNull(rows, FALSE))>> ELSE <<>>))

GroupedCensus(l, key, keys, sub, probeNull, subNull) ==
  CensusPerKey(KeyedMany(l, [i \in DOMAIN keys |-> keys[i].outer]), key, keys, sub, probeNull, subNull)

\* in_correlated: c are the inputs, k the left one with the probe.
InJoin(c, k, keys, exports, sub, neg, probeNull, subNull) ==
  LET on == <<<<k.at, 1>>>> \o c.on
      n == Width(k.plan) + 1 + Len(keys)
      Guard(anti) == IF probeNull \/ subNull
                     THEN GroupedCensus(anti, Col(k.at), keys, sub, probeNull, subNull) ELSE anti
  IN  IF neg THEN [plan |-> Guard(Marked(k.plan, c.right, on)), at |-> <<>>]
      ELSE [plan |-> AppendJoin(k.plan, c.right, on, "inner"), at |-> [i \in DOMAIN exports |-> n + i]]

InCorrelated(l, probe, keys, exports, sub, neg, probeNull, subNull) ==
  LET Of(c) == InJoin(c, Keyed(c.left, probe), keys, exports, sub, neg, probeNull, subNull)
  IN  Of(CorrInputs(l, keys, exports, sub, <<1>>))

\* scalar_correlated: a row without a partner reads `empty` in place of the
\* value; the mark is the first correlation key.
ScalarJoin(m, keys, sub, empty) ==
  LET n == Width(m.plan)
      on == [i \in DOMAIN keys |-> <<m.at[i], keys[i].inner>>]
      value == Col(n + 1)
  IN  [plan |-> AppendJoin(m.plan, sub, on, IF keys = <<>> THEN "cross" ELSE "left"),
       value |-> IF keys = <<>> \/ empty = Lit(NULL) THEN value
                 ELSE Case(IsNull(Col(n + keys[1].inner), FALSE), empty, value)]

ScalarCorrelated(l, keys, sub, empty) ==
  ScalarJoin(KeyedMany(l, [i \in DOMAIN keys |-> keys[i].outer]), keys, sub, empty)
=============================================================================
