------------------------------- MODULE Binder -------------------------------
(***************************************************************************)
(* planner/binder.rs: from a parsed query to a logical plan.  Names become *)
(* column numbers, select aliases their expressions, subqueries joins, and *)
(* aggregates, window functions and GROUPING() columns of the steps that   *)
(* compute them.  A query the binder refuses is Refused.                   *)
(*                                                                         *)
(* While a block is bound, a reference to something not yet placed is a    *)
(* column above every real one: st holds what the numbers stand for.  The  *)
(* recursion limits (MAX_BIND_DEPTH, MAX_ALIAS_DEPTH) and the types beyond *)
(* nullability are left out.                                               *)
(***************************************************************************)
EXTENDS Logical

CONSTANT Catalog        \* table -> sequence of columns [n |-> name, nul |-> BOOLEAN]

GS_MARK   == 1000
CORR_MARK == 2000
SUB_MARK  == 3000
AGG_MARK  == 4000
WIN_MARK  == 5000

(* The syntax tree, in the nodes of Exprs.                                 *)
Name(q, n)          == [Node EXCEPT !.k = "name", !.q = q, !.o = n]
AggCall(f, args, d) == [Node EXCEPT !.k = "agg", !.o = f, !.args = args, !.neg = d]
Over(f, args, part, order) ==
  [Node EXCEPT !.k = "win", !.o = f, !.args = args, !.sub = [part |-> part, order |-> order]]
Grouping(args)      == [Node EXCEPT !.k = "grouping", !.args = args]
Between(x, a, b, n) == [Node EXCEPT !.k = "between", !.args = <<x, a, b>>, !.neg = n]
Subquery(q)         == [Node EXCEPT !.k = "scalar", !.sub = q]
Exists(q, n)        == [Node EXCEPT !.k = "exists", !.sub = q, !.neg = n]
InQuery(x, q, n)    == [Node EXCEPT !.k = "insub", !.args = <<x>>, !.sub = q, !.neg = n]

Item(e, as)  == [k |-> "expr", e |-> e, as |-> as]
Star(q)      == [k |-> "star", q |-> q]
Table(t, as) == [k |-> "table", t |-> t, as |-> as]
Derived(q, as) == [k |-> "sub", q |-> q, as |-> as]
JoinRef(l, r, kind, using, on) ==
  [k |-> "join", l |-> l, r |-> r, kind |-> kind, using |-> using, on |-> on]
Plain(e)     == [k |-> "plain", keys |-> <<<<e>>>>]
Select(items, from, where) ==
  [k |-> "select", distinct |-> FALSE, items |-> items, from |-> from, prewhere |-> <<>>,
   where |-> where, group |-> <<>>, having |-> <<>>]
SetOp(o, all, l, r) == [k |-> "set", o |-> o, all |-> all, l |-> l, r |-> r]
Nested(q)    == [k |-> "query", q |-> q]
RowsOf(rows) == [k |-> "values", rows |-> rows]
Query(body)  == [with |-> <<>>, body |-> body, order |-> <<>>, limit |-> NULL, offset |-> 0,
                 by |-> <<>>]      \* by is <<n, expressions>> for LIMIT n BY

-----------------------------------------------------------------------------
(* Scopes.  index is the column's place in the block, 0 when the scan does *)
(* not read it; src is the column, or the two columns, its value is in.    *)

ScopeCol(q, n, nul, i) ==
  [q |-> q, n |-> n, nul |-> nul, index |-> i, src |-> <<i>>, shadowed |-> FALSE]

NoScope == [cols |-> <<>>, width |-> 0]

FromSchema(names, nul, q) ==
  [cols |-> [i \in DOMAIN names |-> ScopeCol(q, names[i], nul[i], i)], width |-> Len(names)]

FromTable(t, proj, q) ==
  LET At(i) == IF i \in ToSet(proj) THEN CHOOSE p \in DOMAIN proj : proj[p] = i ELSE 0
  IN  [cols |-> [i \in DOMAIN Catalog[t] |-> ScopeCol(q, Catalog[t][i].n, Catalog[t][i].nul, At(i))],
       width |-> Len(proj)]

Concat(a, b) ==
  LET Shift(c) == [c EXCEPT !.index = IF @ = 0 THEN 0 ELSE @ + a.width,
                            !.src = [i \in DOMAIN @ |-> @[i] + a.width]]
  IN  [cols |-> a.cols \o [i \in DOMAIN b.cols |-> Shift(b.cols[i])], width |-> a.width + b.width]

\* visible, visible_qualified: what * and q.* stand for, in block order.
StarCols(s, q) ==
  LET in == {i \in DOMAIN s.cols : /\ s.cols[i].index # 0
                                   /\ IF q = "" THEN ~s.cols[i].shadowed ELSE s.cols[i].q = q}
      at == SetToSortSeq(in, LAMBDA i, j : s.cols[i].index < s.cols[j].index)
  IN  [i \in DOMAIN at |-> s.cols[at[i]]]

ColExpr(c) == IF Len(c.src) = 1 THEN ColOf(c.src[1], c.nul)
              ELSE Coalesce(ColOf(c.src[1], c.nul), ColOf(c.src[2], c.nul))

\* find_pos_opt: a USING copy is reached only by its table's name.
Matches(s, q, n) ==
  {i \in DOMAIN s.cols : /\ s.cols[i].n = n
                         /\ IF q = "" THEN ~s.cols[i].shadowed ELSE s.cols[i].q = q}

NullableScope(s) == [s EXCEPT !.cols = [i \in DOMAIN @ |-> [@[i] EXCEPT !.nul = TRUE]]]

\* merge_using_key.
MergeUsingKey(joined, lpos, rpos, kind) ==
  LET l == joined.cols[lpos]
      r == joined.cols[rpos]
      key == [l EXCEPT !.q = "", !.shadowed = FALSE,
                !.src = CASE kind = "right" -> r.src [] kind = "full" -> l.src \o r.src [] OTHER -> l.src,
                !.nul = CASE kind = "right" -> r.nul [] kind = "full" -> l.nul /\ r.nul [] OTHER -> l.nul]
  IN  [joined EXCEPT !.cols = Append([@ EXCEPT ![lpos].shadowed = TRUE, ![rpos].shadowed = TRUE], key)]

-----------------------------------------------------------------------------
(* Demand: the names a block mentions, whichever table they are of.        *)

RECURSIVE NamesIn(_)
RECURSIVE NamesInQuery(_)
RECURSIVE NamesInBody(_)

NamesInAll(es) == UNION {NamesIn(es[i]) : i \in DOMAIN es}
OrderExprs(order) == [i \in DOMAIN order |-> order[i].e]
ItemExprs(items) == LET es == SelectSeq(items, LAMBDA it : it.k = "expr")
                    IN  [i \in DOMAIN es |-> es[i].e]
GroupExprs(group) == FlattenSeq([i \in DOMAIN group |-> FlattenSeq(group[i].keys)])

NamesIn(e) ==
  (IF e.k = "name" THEN {e.o} ELSE {}) \cup NamesInAll(e.args)
  \cup CASE e.k \in {"scalar", "exists", "insub"} -> NamesInQuery(e.sub)
         [] e.k = "win" -> NamesInAll(e.sub.part \o OrderExprs(e.sub.order))
         [] OTHER -> {}

NamesInQuery(q) ==
  NamesInAll(OrderExprs(q.order)) \cup NamesInBody(q.body)
  \cup UNION {NamesInQuery(q.with[i].q) : i \in DOMAIN q.with}

Clauses(s) == ItemExprs(s.items) \o s.prewhere \o s.where \o s.having \o GroupExprs(s.group)

NamesInBody(b) ==
  CASE b.k = "select" -> NamesInAll(Clauses(b))
    [] b.k = "query"  -> NamesInQuery(b.q)
    [] b.k = "set"    -> NamesInBody(b.l) \cup NamesInBody(b.r)
    [] b.k = "values" -> {}

RECURSIVE NamesInFrom(_)
NamesInFrom(tr) ==
  IF tr.k # "join" THEN {}
  ELSE NamesInFrom(tr.l) \cup NamesInFrom(tr.r) \cup ToSet(tr.using) \cup NamesInAll(tr.on)

Demand(s, q) ==
  [all |-> \E i \in DOMAIN s.items : s.items[i].k = "star",
   names |-> NamesInAll(Clauses(s) \o OrderExprs(q.order))
             \cup (IF s.from = <<>> THEN {} ELSE NamesInFrom(s.from[1]))
             \cup (IF q.by = <<>> THEN {} ELSE NamesInAll(q.by[2]))]

DemandProject(d, t) ==
  LET cols == {i \in DOMAIN Catalog[t] : d.all \/ Catalog[t][i].n \in d.names}
  IN  IF cols = {} THEN <<1>> ELSE SetToSortSeq(cols, <)

-----------------------------------------------------------------------------
(* Expressions.  cx is the Ctx a clause is bound in, st what it collects.  *)

Ctx(scope, aliases) ==
  [scope |-> scope, aliases |-> aliases, outer |-> <<>>, ctes |-> <<>>, agg |-> FALSE, sub |-> FALSE,
   inAgg |-> FALSE, inWin |-> FALSE, expanding |-> {}, gs |-> <<>>]

Blank == [aggs |-> <<>>, wins |-> <<>>, subs |-> <<>>, corr |-> <<>>, groupings |-> <<>>, err |-> FALSE]

Ok(e, st) == [e |-> e, st |-> st]
Bad(st)   == [e |-> TRUE1, st |-> [st EXCEPT !.err = TRUE]]

\* The place of x in a list that holds every item once.
Slot(list, x) ==
  IF x \in ToSet(list) THEN [at |-> CHOOSE i \in DOMAIN list : list[i] = x, list |-> list]
  ELSE [at |-> Len(list) + 1, list |-> Append(list, x)]

RECURSIVE Bind(_, _, _)
RECURSIVE QueryIn(_, _, _, _)

Collect(acc, e, st) == [es |-> Append(acc.es, e), st |-> st]
CollectBound(acc, b) == Collect(acc, b.e, b.st)

BindAll(es, cx, st) ==
  FoldLeft(LAMBDA acc, x : CollectBound(acc, Bind(x, cx, acc.st)), [es |-> <<>>, st |-> st], es)

\* correlate: the nearest enclosing block that has the name.
Correlate(e, cx, st) ==
  LET levels == {l \in DOMAIN cx.outer : Matches(cx.outer[l], e.q, e.o) # {}}
      l == Min(levels)
      hit == Matches(cx.outer[l], e.q, e.o)
      expr == ColExpr(cx.outer[l].cols[CHOOSE i \in hit : TRUE])
      slot == Slot(st.corr, [level |-> l - 1, expr |-> expr])
  IN  IF levels = {} THEN Bad(st)
      ELSE IF Cardinality(hit) > 1 THEN Bad(st)
      ELSE Ok(ColOf(CORR_MARK + slot.at, Nullable(expr)), [st EXCEPT !.corr = slot.list])

\* A select alias hides a column of its name, except inside its own definition.
BindName(e, cx, st) ==
  LET alias == {i \in DOMAIN cx.aliases : cx.aliases[i].as = e.o}
      hit == Matches(cx.scope, e.q, e.o)
      col == cx.scope.cols[CHOOSE i \in hit : TRUE]
  IN  IF e.q = "" /\ alias # {} /\ e.o \notin cx.expanding
      THEN Bind(cx.aliases[Min(alias)].e, [cx EXCEPT !.expanding = @ \cup {e.o}], st)
      ELSE IF hit = {} THEN Correlate(e, cx, st)
      ELSE IF Cardinality(hit) > 1 \/ col.index = 0 THEN Bad(st) ELSE Ok(ColExpr(col), st)

\* bind_defining.
BindItem(it, cx, st) ==
  Bind(it.e, IF it.as = "" THEN cx ELSE [cx EXCEPT !.expanding = @ \cup {it.as}], st)

BindAgg(e, cx, st) ==
  LET r == BindAll(e.args, [cx EXCEPT !.inAgg = TRUE], st)
      slot == Slot(r.st.aggs, Agg(e.o, r.es, e.neg))
  IN  IF ~cx.agg \/ cx.inAgg THEN Bad(st)
      ELSE Ok(ColOf(AGG_MARK + slot.at, e.o # "count"), [r.st EXCEPT !.aggs = slot.list])

WindowSlot(e, r) ==
  LET w == [f |-> Agg(e.o, r.es[1], FALSE), part |-> r.es[2],
            order |-> [i \in DOMAIN r.es[3] |-> Key(r.es[3][i], e.sub.order[i].desc)]]
      slot == Slot(r.st.wins, w)
  IN  Ok(ColOf(WIN_MARK + slot.at, e.o \notin {"count", "row_number"}), [r.st EXCEPT !.wins = slot.list])

BindWindow(e, cx, st) ==
  LET in == [cx EXCEPT !.inWin = TRUE]
      parts == <<e.args, e.sub.part, OrderExprs(e.sub.order)>>
      Each(acc, b) == Collect(acc, b.es, b.st)
  IN  IF ~cx.agg \/ cx.inAgg \/ cx.inWin THEN Bad(st)
      ELSE WindowSlot(e, FoldLeft(LAMBDA acc, es : Each(acc, BindAll(es, in, acc.st)),
                                  [es |-> <<>>, st |-> st], parts))

BindGrouping(e, cx, st) ==
  LET r == BindAll(e.args, [cx EXCEPT !.agg = FALSE], st)
      call == [i \in DOMAIN r.es |-> CHOOSE k \in DOMAIN cx.gs : cx.gs[k] = r.es[i]]
  IN  IF e.args = <<>> \/ ~ToSet(r.es) \subseteq ToSet(cx.gs) THEN Bad(st)
      ELSE Ok(Col(GS_MARK + Len(st.groupings) + 1), [r.st EXCEPT !.groupings = Append(@, call)])

\* scalar_subquery.
ScalarSlot(b, cx, st) ==
  IF ~cx.sub \/ cx.inWin THEN Bad(st)
  ELSE IF b.err \/ \E i \in DOMAIN b.corr : b.corr[i].level > 0 THEN Bad(st)
  ELSE Ok(ColOf(SUB_MARK + Len(st.subs) + 1, b.nul[1] \/ b.corr # <<>>),
          [st EXCEPT !.subs = Append(@, [plan |-> b.plan, keys |-> b.corr, empty |-> b.empty])])

BindSubquery(e, cx, st) == ScalarSlot(QueryIn(e.sub, cx.ctes, <<cx.scope>> \o cx.outer, TRUE), cx, st)

Bind(e, cx, st) ==
  CASE st.err         -> Bad(st)
    [] e.k = "lit"    -> Ok(e, st)
    [] e.k = "name"   -> BindName(e, cx, st)
    [] e.k = "agg"    -> BindAgg(e, cx, st)
    [] e.k = "win"    -> BindWindow(e, cx, st)
    [] e.k = "grouping" -> BindGrouping(e, cx, st)
    [] e.k = "scalar" -> BindSubquery(e, cx, st)
    [] e.k \in {"exists", "insub"} -> Bad(st)
    [] e.k = "between" ->
         LET both == And(Cmp("ge", e.args[1], e.args[2]), Cmp("le", e.args[1], e.args[3]))
         IN  Bind(IF e.neg THEN Not(both) ELSE both, cx, st)
    [] OTHER -> LET r == BindAll(e.args, cx, st) IN Ok([e EXCEPT !.args = r.es], r.st)

\* sort_keys_in: an integer is a position in the select list.
BindKeys(order, cx, st, proj) ==
  FoldLeft(LAMBDA acc, k :
             LET at == IsLit(k.e) /\ proj # <<>>
                 Keyed1(b) == Collect(acc, Key(b.e, k.desc), b.st)
             IN  Keyed1(IF ~at THEN Bind(k.e, cx, acc.st)
                        ELSE IF k.e.v \in DOMAIN proj THEN Ok(proj[k.e.v], acc.st) ELSE Bad(acc.st)),
           [es |-> <<>>, st |-> st], order)

-----------------------------------------------------------------------------
(* FROM.                                                                   *)

Refused == [plan |-> Failed, names |-> <<>>, nul |-> <<>>, corr |-> <<>>, empty |-> Lit(NULL),
            err |-> TRUE]
BoundRows(plan, names, nul) == [Refused EXCEPT !.plan = plan, !.names = names, !.nul = nul, !.err = FALSE]
From(plan, scope) == [plan |-> plan, scope |-> scope, err |-> FALSE]
NoFrom == [plan |-> Failed, scope |-> NoScope, err |-> TRUE]

FromBound(b, q) == IF b.err THEN NoFrom ELSE From(b.plan, FromSchema(b.names, b.nul, q))

\* split_join_predicate.
SplitJoin(pred, ln) ==
  LET cs == SplitConjuncts(pred)
      Pair(c) == {c.args[1].v, c.args[2].v}
      Spans(c) == /\ c.k = "cmp" /\ c.o = "eq" /\ IsCol(c.args[1]) /\ IsCol(c.args[2])
                  /\ (c.args[1].v <= ln) # (c.args[2].v <= ln)
      keys == SelectSeq(cs, Spans)
      rest == SelectSeq(cs, LAMBDA c : ~Spans(c))
  IN  [on |-> [i \in DOMAIN keys |-> <<Min(Pair(keys[i])), Max(Pair(keys[i])) - ln>>],
       residual |-> IF rest = <<>> THEN TRUE1 ELSE JoinConjuncts(rest)]

\* USING: the two sides' columns of each name, merged one after the other.
Using(names, ls, rs, kind) ==
  LET Step(acc, n) ==
        LET lp == Matches(ls, "", n)
            rp == Matches(rs, "", n)
            i == CHOOSE x \in lp : TRUE
            j == CHOOSE x \in rp : TRUE
        IN  IF Cardinality(lp) # 1 \/ Cardinality(rp) # 1 THEN [acc EXCEPT !.err = TRUE]
            ELSE IF Len(ls.cols[i].src) # 1 \/ Len(rs.cols[j].src) # 1 THEN [acc EXCEPT !.err = TRUE]
            ELSE [acc EXCEPT !.on = Append(@, <<ls.cols[i].src[1], rs.cols[j].src[1]>>),
                             !.scope = MergeUsingKey(@, i, Len(ls.cols) + j, kind)]
  IN  FoldLeft(Step, [on |-> <<>>, scope |-> Concat(ls, rs), err |-> FALSE], names)

RECURSIVE TableRef(_, _, _)

JoinOn(tr, l, r, ls, rs, b) ==
  LET u == Using(tr.using, ls, rs, tr.kind)
      on == IF tr.on = <<>> THEN [on |-> u.on, residual |-> TRUE1] ELSE SplitJoin(b.e, ls.width)
      declared == Len(StarCols(Concat(ls, rs), ""))        \* scope_schema, before the merge
  IN  IF l.err \/ r.err \/ u.err \/ (tr.on # <<>> /\ b.st.err) THEN NoFrom
      ELSE From(Join(l.plan, r.plan, tr.kind, on.on, on.residual, declared), u.scope)

FromJoin(tr, l, r) ==
  LET ls == IF tr.kind \in {"right", "full"} THEN NullableScope(l.scope) ELSE l.scope
      rs == IF tr.kind \in {"left", "full"} THEN NullableScope(r.scope) ELSE r.scope
  IN  JoinOn(tr, l, r, ls, rs, Bind(tr.on[1], Ctx(Concat(ls, rs), <<>>), Blank))

\* A common table expression is bound afresh where it is named, and sees the
\* ones before it.
TableRef(tr, ctes, d) ==
  CASE tr.k = "table" ->
         LET as == IF tr.as = "" THEN tr.t ELSE tr.as
             named == {i \in DOMAIN ctes : ctes[i].n = tr.t}
             c == Max(named)
             proj == DemandProject(d, tr.t)
         IN  IF named # {} THEN FromBound(QueryIn(ctes[c].q, SubSeq(ctes, 1, c - 1), <<>>, FALSE), as)
             ELSE IF tr.t \notin DOMAIN Catalog THEN NoFrom
             ELSE From(Scan(tr.t, proj), FromTable(tr.t, proj, as))
    [] tr.k = "sub"  -> FromBound(QueryIn(tr.q, ctes, <<>>, FALSE), tr.as)
    [] tr.k = "join" -> FromJoin(tr, TableRef(tr.l, ctes, d), TableRef(tr.r, ctes, d))

-----------------------------------------------------------------------------
(* WHERE: the conjuncts on the row, then the membership tests as joins.    *)

\* split_correlated: an equality of one enclosing block's columns with the
\* block's own becomes a key; any other correlated conjunct is refused.
SplitCorrelated(c, corr) ==
  LET Outer(e) == {corr[v - CORR_MARK].level : v \in {x \in Cols(e) : x > CORR_MARK}}
      Local(e) == \E x \in Cols(e) : x < CORR_MARK
      Side(i) == /\ Cardinality(Outer(c.args[i])) = 1 /\ ~Local(c.args[i])
                 /\ Outer(c.args[3 - i]) = {}
      i == IF Side(1) THEN 1 ELSE 2
      source == [v \in {CORR_MARK + p : p \in DOMAIN corr} |-> corr[v - CORR_MARK].expr]
  IN  CASE Outer(c) = {} -> [k |-> "local", e |-> c]
        [] c.k # "cmp" \/ c.o # "eq" -> [k |-> "refused"]
        [] ~(Side(1) \/ Side(2)) -> [k |-> "refused"]
        [] OTHER -> [k |-> "key", level |-> CHOOSE l \in Outer(c.args[i]) : TRUE,
                     outer |-> Subst(c.args[i], source), inner |-> c.args[3 - i]]

\* attach_scalars; the values the markers of resolve_subs stand for.
AttachScalars(plan, subs) ==
  FoldLeft(LAMBDA acc, s : LET a == ScalarCorrelated(acc.plan, s.keys, s.plan, s.empty)
                           IN  [plan |-> a.plan, values |-> Append(acc.values, a.value)],
           [plan |-> plan, values |-> <<>>], subs)

ResolveSubs(e, values) == Subst(e, [v \in {SUB_MARK + i : i \in DOMAIN values} |-> values[v - SUB_MARK]])

\* membership, split_levels, handed_out: keys of the block itself join here,
\* keys of an enclosing one are carried outwards.
\* j is the join and the places of the exports in it.
HandedOut(w, j, deeper) ==
  [w EXCEPT !.plan = j.plan,
            !.exported = @ \o [i \in DOMAIN deeper |->
              [level |-> deeper[i].level - 1, outer |-> deeper[i].outer, inner |-> Col(j.at[i])]]]

CorrelatedJoin(w, e, b, probe, keys, exports) ==
  IF e.k = "insub" THEN InCorrelated(w.plan, probe, keys, exports, b.plan, e.neg, Nullable(probe), b.nul[1])
  ELSE ExistsCorrelated(w.plan, keys, exports, b.plan, e.neg)

Members(w, e, b, probe) ==
  LET in == e.k = "insub"
      keys == SelectSeq(b.corr, LAMBDA c : c.level = 0)
      deeper == SelectSeq(b.corr, LAMBDA c : c.level > 0)
  IN  IF w.err \/ b.err THEN [w EXCEPT !.err = TRUE]
      ELSE IF in /\ (probe.st.err \/ Len(b.names) # 1 + Len(b.corr)) THEN [w EXCEPT !.err = TRUE]
      ELSE IF b.corr = <<>>
      THEN [w EXCEPT !.plan = IF in THEN InSubquery(@, probe.e, b.plan, e.neg, Nullable(probe.e), b.nul[1])
                              ELSE ExistsSubquery(@, b.plan, e.neg)]
      ELSE IF e.neg /\ deeper # <<>> THEN [w EXCEPT !.err = TRUE]
      ELSE HandedOut(w, CorrelatedJoin(w, e, b, probe.e, keys, [i \in DOMAIN deeper |-> deeper[i].inner]), deeper)

Membership(w, e, cx) ==
  Members(w, e, QueryIn(e.sub, cx.ctes, <<cx.scope>> \o cx.outer, FALSE),
          Bind(e.args[1], Ctx(cx.scope, cx.aliases), Blank))

\* The conjuncts without a membership test, bound as r with the scalar
\* subqueries attached as a: a filter, and the keys the block exports.
LocalWhere(plan, r, a) ==
  LET parts == [i \in DOMAIN r.es |-> SplitCorrelated(ResolveSubs(r.es[i], a.values), r.st.corr)]
      local == SelectSeq(parts, LAMBDA c : c.k = "local")
      refused == [plan |-> plan, exported |-> <<>>, err |-> TRUE]
  IN  IF r.st.err THEN refused
      ELSE IF \E i \in DOMAIN parts : parts[i].k = "refused" THEN refused
      ELSE [plan |-> IF local = <<>> THEN a.plan
                     ELSE Filter(a.plan, JoinConjuncts([i \in DOMAIN local |-> local[i].e])),
            exported |-> SelectSeq(parts, LAMBDA c : c.k = "key"),
            err |-> FALSE]

BoundWhere(plan, r) == LocalWhere(plan, r, AttachScalars(plan, r.st.subs))

Where(where, plan, cx) ==
  LET cs == IF where = <<>> THEN <<>> ELSE SplitConjuncts(where[1])
      Sub(c) == c.k \in {"insub", "exists"}
  IN  FoldLeft(LAMBDA w, e : Membership(w, e, cx),
               BoundWhere(plan, BindAll(SelectSeq(cs, LAMBDA c : ~Sub(c)), cx, Blank)),
               SelectSeq(cs, Sub))

-----------------------------------------------------------------------------
(* GROUP BY.                                                               *)

\* A position is the select item there, with its alias being defined.
GroupItem(s, e) ==
  IF ~IsLit(e) THEN Item(e, "")
  ELSE s.items[e.v]

\* A * in the list, or a position outside of it, is refused.
BadOrdinal(s, e) == IsLit(e) /\ (e.v \notin DOMAIN s.items \/ \E i \in DOMAIN s.items : s.items[i].k = "star")

\* group_sets: the sets an item contributes, over the slots of its keys.
SetsOf(it, slots) ==
  CASE it.k = "plain"  -> <<ToSet(slots[1])>>
    [] it.k = "sets"   -> [i \in DOMAIN slots |-> ToSet(slots[i])]
    [] it.k = "rollup" -> [i \in 1 .. Len(slots) + 1 |->
                             UNION {ToSet(slots[j]) : j \in 1 .. Len(slots) + 1 - i}]
    [] it.k = "cube"   -> SetToSeq({UNION {ToSet(slots[j]) : j \in d} : d \in SUBSET DOMAIN slots})

\* group_slot: with grouping sets a key has one slot however often it is written.
Placed(acc, b, special) ==
  LET slot == IF special THEN Slot(acc.keys, b.e)
              ELSE [at |-> Len(acc.keys) + 1, list |-> Append(acc.keys, b.e)]
  IN  [acc EXCEPT !.keys = slot.list, !.st = b.st, !.at = Append(@, slot.at)]

GroupKey(acc, e, s, cx, special) ==
  IF BadOrdinal(s, e) THEN [acc EXCEPT !.st.err = TRUE, !.at = Append(@, 1)]
  ELSE Placed(acc, BindItem(GroupItem(s, e), cx, acc.st), special)

GroupKeys(acc, es, s, cx, special) ==
  LET Done(a) == [a EXCEPT !.slots = Append(@, a.at)]
  IN  Done(FoldLeft(LAMBDA a, e : GroupKey(a, e, s, cx, special), [acc EXCEPT !.at = <<>>], es))

GroupSets(acc, it, s, cx, special) ==
  LET Cross(A, C) == FlattenSeq([i \in DOMAIN A |-> [j \in DOMAIN C |-> A[i] \cup C[j]]])
      Done(a) == [a EXCEPT !.sets = IF special THEN Cross(@, SetsOf(it, a.slots)) ELSE @]
  IN  Done(FoldLeft(LAMBDA a, es : GroupKeys(a, es, s, cx, special), [acc EXCEPT !.slots = <<>>], it.keys))

Groups(s, cx) ==
  LET special == \E i \in DOMAIN s.group : s.group[i].k # "plain"
  IN  FoldLeft(LAMBDA a, it : GroupSets(a, it, s, cx, special),
               [keys |-> <<>>, st |-> Blank, at |-> <<>>, slots |-> <<>>,
                sets |-> IF special THEN <<{}>> ELSE <<>>], s.group)

\* rewrite_over_agg: what an expression over the rows is over the groups; the
\* type of a key that some set leaves out is nullable.
RECURSIVE OverAgg(_, _, _, _)
OverAgg(e, keys, nul, n) ==
  CASE IsCol(e) /\ (e.v > WIN_MARK \/ e.v \in GS_MARK .. CORR_MARK) -> e
    [] IsCol(e) /\ e.v > AGG_MARK -> [e EXCEPT !.v = n + @ - AGG_MARK]
    [] e \in ToSet(keys) -> LET i == CHOOSE k \in DOMAIN keys :
                                       keys[k] = e /\ \A j \in 1 .. k - 1 : keys[j] # e
                            IN  ColOf(i, nul[i])
    [] OTHER -> [e EXCEPT !.args = [i \in DOMAIN @ |-> OverAgg(@[i], keys, nul, n)]]

RECURSIVE Grouped(_, _)
Grouped(e, keys) == \/ e \in ToSet(keys)
                    \/ IsCol(e) /\ e.v > GS_MARK
                    \/ ~IsCol(e) /\ \A i \in DOMAIN e.args : Grouped(e.args[i], keys)

\* resolve_grouping: one bit per argument, the first one highest, set where the
\* set leaves the key out; told apart by the number of the set.
ResolveGrouping(e, id, sets, calls) ==
  LET Value(call, s) == FoldLeft(LAMBDA acc, k : (2 * acc) + (IF k \in sets[s] THEN 0 ELSE 1), 0, call)
      Ids(call, v) == SetToSortSeq({s - 1 : s \in {x \in DOMAIN sets : Value(call, x) = v}}, <)
      Arms(call) == SetToSeq({Value(call, s) : s \in DOMAIN sets})
      Expr(call) == LET a == Arms(call)
                    IN  FoldLeft(LAMBDA acc, v : Case(In(Col(id), Ids(call, v), FALSE), Lit(v), acc),
                                 Lit(a[1]), Tail(a))
  IN  Subst(e, [v \in {GS_MARK + i : i \in DOMAIN calls} |-> Expr(calls[v - GS_MARK])])

-----------------------------------------------------------------------------
(* The select list and what is bound with it.                              *)

AddItem(acc, b, it) ==
  [acc EXCEPT !.proj = Append(@, b.e), !.st = b.st,
              !.names = Append(@, IF it.as # "" THEN it.as ELSE it.e.o)]

AddStar(acc, cols) ==
  [acc EXCEPT !.proj = @ \o [i \in DOMAIN cols |-> ColExpr(cols[i])],
              !.names = @ \o [i \in DOMAIN cols |-> cols[i].n], !.st.err = @ \/ cols = <<>>]

ListItems(s, cx) ==
  FoldLeft(LAMBDA acc, it : IF it.k = "star" THEN AddStar(acc, StarCols(cx.scope, it.q))
                            ELSE AddItem(acc, BindItem(it, cx, acc.st), it),
           [proj |-> <<>>, names |-> <<>>, having |-> <<>>, keys |-> <<>>, by |-> <<>>, st |-> Blank],
           s.items)

WithHaving(l, h) == [l EXCEPT !.having = h.es, !.st = h.st]
WithKeys(l, k)   == [l EXCEPT !.keys = k.es, !.st = k.st]
WithBy(l, by)    == [l EXCEPT !.by = by.es, !.st = by.st]

ListHaving(l, s, cx)  == WithHaving(l, BindAll(s.having, cx, l.st))
ListKeys(l, q, cx)    == WithKeys(l, BindKeys(q.order, cx, l.st, l.proj))
ListBy(l, s, q, cx)   == WithBy(l, BindAll(IF s.distinct \/ q.by = <<>> THEN <<>> ELSE q.by[2], cx, l.st))

\* No list is correlated, and no HAVING reads a window function.
CheckLists(l) ==
  [l EXCEPT !.st.err = \/ @ \/ l.st.corr # <<>>
                       \/ \E i \in DOMAIN l.having : \E c \in Cols(l.having[i]) : c > WIN_MARK]

Lists(s, q, cx) == CheckLists(ListBy(ListKeys(ListHaving(ListItems(s, cx), s, cx), q, cx), s, q, cx))

\* f on every expression of the lists.
MapLists(l, f(_)) ==
  [l EXCEPT !.proj = [i \in DOMAIN @ |-> f(@[i])], !.having = [i \in DOMAIN @ |-> f(@[i])],
            !.keys = [i \in DOMAIN @ |-> [@[i] EXCEPT !.e = f(@)]], !.by = [i \in DOMAIN @ |-> f(@[i])]]

ListExprs(l) == ToSet(l.proj) \cup ToSet(l.having) \cup ToSet(l.by) \cup {l.keys[i].e : i \in DOMAIN l.keys}
WinExprs(w)  == ToSet(w.f.args) \cup ToSet(w.part) \cup {w.order[i].e : i \in DOMAIN w.order}
MapWin(w, f(_)) ==
  [w EXCEPT !.f.args = [i \in DOMAIN @ |-> f(@[i])], !.part = [i \in DOMAIN @ |-> f(@[i])],
            !.order = [i \in DOMAIN @ |-> [@[i] EXCEPT !.e = f(@)]]]

\* apply_windows: a Sort and a Window for each distinct OVER clause; at says
\* where each function's column went.
ApplyWindows(plan, wins) ==
  LET Clause(w) == <<w.part, w.order>>
      clauses == Dedup([i \in DOMAIN wins |-> Clause(wins[i])])
      Step(acc, c) ==
        LET mine == SelectSeq([i \in DOMAIN wins |-> i], LAMBDA i : Clause(wins[i]) = c)
            keys == [i \in DOMAIN c[1] |-> Key(c[1][i], FALSE)] \o c[2]
            sorted == IF keys = <<>> THEN acc.plan ELSE Sort(acc.plan, keys)
            place == [i \in ToSet(mine) |-> Width(acc.plan) + (CHOOSE n \in DOMAIN mine : mine[n] = i)]
        IN  [plan |-> Window(sorted, [n \in DOMAIN mine |-> wins[mine[n]].f], c[1], OrderExprs(c[2])),
             at |-> [i \in DOMAIN wins |-> IF i \in DOMAIN place THEN place[i] ELSE acc.at[i]]]
  IN  FoldLeft(Step, [plan |-> plan, at |-> [i \in DOMAIN wins |-> 0]], clauses)

ResolveWindows(e, at) ==
  Remap(e, [c \in Cols(e) |-> IF c > WIN_MARK THEN at[c - WIN_MARK] ELSE c])

ApplyLimit(plan, q) == IF q.limit = NULL /\ q.offset = 0 THEN plan ELSE Limit(plan, q.limit, q.offset)

\* check_scalar_shape: one row per correlation key.
ScalarShape(s, q, l, aggregating) ==
  /\ Len(l.proj) = 1 /\ s.group = <<>> /\ l.st.wins = <<>> /\ ~s.distinct /\ aggregating
  /\ q.limit = NULL /\ q.offset = 0 /\ q.by = <<>>

\* empty_agg, empty_value: the select item over no rows, where it has a value.
EmptyValue(e, aggs, n) ==
  LET v == Subst(e, [c \in {n + i : i \in DOMAIN aggs} |->
                       Lit(IF aggs[c - n].f = "count" THEN 0 ELSE NULL)])
  IN  IF Cols(v) = {} THEN v ELSE Lit(NULL)

-----------------------------------------------------------------------------
(* A SELECT block.  b is the block so far: its plan, the lists over that   *)
(* plan, and the correlation keys it exports.                              *)

\* The Aggregate, and the lists and windows over its output.  A correlation
\* key is a grouping key, of every grouping set.
Aggregated(b, g) ==
  LET user == Len(g.keys)
      inner == [i \in DOMAIN b.exported |-> b.exported[i].inner]
      keys == g.keys \o inner
      sets == [s \in DOMAIN g.sets |-> g.sets[s] \cup (user + 1 .. Len(keys))]
      grouping == g.sets # <<>>
      nul == [i \in DOMAIN keys |-> Nullable(keys[i]) \/ \E s \in DOMAIN sets : i \notin sets[s]]
      n == Len(keys) + (IF grouping THEN 1 ELSE 0)
      aggs == b.l.st.aggs
      Over1(e) == LET o == OverAgg(e, keys, nul, n)
                  IN  IF grouping THEN ResolveGrouping(o, n, sets, b.l.st.groupings) ELSE o
      wins == b.l.st.wins
  IN  [b EXCEPT
        !.plan = IF grouping THEN GroupingSets(b.plan, keys, sets, aggs) ELSE Aggregate(b.plan, keys, aggs),
        !.l = [MapLists(b.l, Over1) EXCEPT
                 !.st.wins = [i \in DOMAIN wins |-> MapWin(wins[i], LAMBDA e : OverAgg(e, keys, nul, n))]],
        !.exported = [i \in DOMAIN @ |-> [@[i] EXCEPT !.inner = ColOf(user + i, nul[user + i])]],
        !.empty = EmptyValue(OverAgg(b.l.proj[1], keys, nul, n), aggs, n),
        !.err = @ \/ \E e \in ListExprs(b.l) \cup UNION {WinExprs(wins[i]) : i \in DOMAIN wins} :
                       ~Grouped(e, keys)]

\* DISTINCT runs before ORDER BY, whose keys must then be selected.
SortedUnique(b, l) ==
  LET At(e) == CHOOSE i \in DOMAIN l.proj : l.proj[i] = e /\ \A j \in 1 .. i - 1 : l.proj[j] # e
      unique == Distinct(Project(b.plan, l.proj))
  IN  IF l.keys = <<>> THEN unique
      ELSE Sort(unique, [i \in DOMAIN l.keys |-> [l.keys[i] EXCEPT !.e = Col(At(@))]])

LimitedBy(b, plan, n, by) == [b EXCEPT !.plan = LimitBy(plan, n, by.es), !.err = @ \/ by.st.err]

Tail1(b, s, q) ==
  LET l == b.l
      sorted == IF l.keys = <<>> THEN b.plan ELSE Sort(b.plan, l.keys)
      limited == IF q.by = <<>> THEN sorted ELSE LimitBy(sorted, q.by[1], l.by)
  IN  IF b.err THEN b
      ELSE IF ~s.distinct THEN [b EXCEPT !.plan = Project(limited, l.proj)]
      ELSE IF \E i \in DOMAIN l.keys : l.keys[i].e \notin ToSet(l.proj) THEN [b EXCEPT !.err = TRUE]
      ELSE IF q.by = <<>> THEN [b EXCEPT !.plan = SortedUnique(b, l)]
      ELSE LimitedBy(b, SortedUnique(b, l), q.by[1],
                     BindAll(q.by[2], Ctx(FromSchema(l.names, b.nul, ""), <<>>), Blank))

\* select_block: whether there is an Aggregate.
Aggregates(s, l, g) == g.keys # <<>> \/ l.st.aggs # <<>>

\* PREWHERE is a filter of the scan, or above what is not one.
Prewhere(s, f, pre) ==
  IF f.err \/ pre.st.err \/ pre.st.corr # <<>> THEN NoFrom
  ELSE IF s.prewhere = <<>> THEN f
  ELSE IF f.plan.k = "scan" THEN [f EXCEPT !.plan.filters = @ \o SplitConjuncts(pre.es[1])]
  ELSE [f EXCEPT !.plan = Filter(@, pre.es[1])]

\* The lists with the scalar subqueries a in place.
Valued(w, l, a) ==
  LET Value(e) == ResolveSubs(e, a.values)
  IN  [plan |-> a.plan, exported |-> w.exported, empty |-> Lit(NULL), nul |-> <<>>, err |-> FALSE,
       l |-> [MapLists(l, Value) EXCEPT
                !.st.aggs = [i \in DOMAIN @ |-> [@[i] EXCEPT !.args = [j \in DOMAIN @ |-> Value(@[j])]]]]]

\* An expression keeps the type it was bound with, unless it became a column.
Typed(b, new) ==
  [new EXCEPT !.nul = [i \in DOMAIN b.l.proj |-> IF IsCol(new.l.proj[i]) THEN new.l.proj[i].neg
                                                ELSE Nullable(b.l.proj[i])]]

Grouping1(b, g, aggregating) == Typed(b, IF aggregating THEN Aggregated(b, g) ELSE b)

Having(b) == IF b.l.having = <<>> THEN b ELSE [b EXCEPT !.plan = Filter(@, b.l.having[1])]

Windowed(b, win) == [b EXCEPT !.plan = win.plan, !.l = MapLists(@, LAMBDA e : ResolveWindows(e, win.at))]

\* The correlation keys leave the block as columns after the selected ones.
Exporting(b, q) ==
  LET x == b.exported
  IN  [b EXCEPT !.l.proj = @ \o [i \in DOMAIN x |-> x[i].inner],
                !.l.names = @ \o [i \in DOMAIN x |-> "__corr"],
                !.nul = @ \o [i \in DOMAIN x |-> Nullable(x[i].inner)],
                !.err = @ \/ (x # <<>> /\ ~(q.limit = NULL /\ q.offset = 0 /\ q.by = <<>>))]

BoundBlock(b, q, scalar) ==
  LET x == b.exported
      n == Len(b.l.proj) - Len(x)
  IN  IF b.err THEN Refused
      ELSE [plan |-> ApplyLimit(b.plan, q), names |-> b.l.names, nul |-> b.nul, err |-> FALSE,
            empty |-> IF scalar THEN b.empty ELSE Lit(NULL),
            corr |-> [i \in DOMAIN x |-> [level |-> x[i].level, outer |-> x[i].outer, inner |-> n + i]]]

\* The steps above the input, in order, once every clause is bound.
Upwards(b, s, q) == Tail1(Exporting(Windowed(b, ApplyWindows(b.plan, b.l.st.wins)), q), s, q)

Listed(s, q, scalar, w, g, l) ==
  IF w.err \/ g.st.err \/ g.st.corr # <<>> \/ l.st.err THEN Refused
  ELSE IF scalar /\ ~ScalarShape(s, q, l, Aggregates(s, l, g)) THEN Refused
  ELSE BoundBlock(Upwards(Having(Grouping1(Valued(w, l, AttachScalars(w.plan, l.st.subs)),
                                           g, Aggregates(s, l, g))), s, q), q, scalar)

ListBlock(s, q, scalar, w, g, cx) ==
  Listed(s, q, scalar, w, g,
         Lists(s, q, [cx EXCEPT !.agg = TRUE, !.gs = IF g.sets = <<>> THEN <<>> ELSE g.keys]))

BlockFrom(s, q, ctes, scalar, f, cx) ==
  LET joinable == [cx EXCEPT !.ctes = ctes, !.sub = TRUE]
  IN  IF f.err THEN Refused
      ELSE ListBlock(s, q, scalar, Where(s.where, f.plan, joinable), Groups(s, cx), joinable)

BlockOver(s, q, ctes, outer, scalar, f) ==
  LET cx == [Ctx(f.scope, SelectSeq(s.items, LAMBDA it : it.k = "expr" /\ it.as # "")) EXCEPT !.outer = outer]
  IN  BlockFrom(s, q, ctes, scalar, Prewhere(s, f, BindAll(s.prewhere, cx, Blank)), cx)

SelectBlock(s, q, ctes, outer, scalar) ==
  BlockOver(s, q, ctes, outer, scalar,
            IF s.from = <<>> THEN From(Values(<<<<>>>>), NoScope)
            ELSE TableRef(s.from[1], ctes, Demand(s, q)))

-----------------------------------------------------------------------------
(* Set operations, VALUES and the query around them.                       *)

\* flatten_set.
FlattenBranch(p, o, all, left) ==
  IF p.k = "union" /\ p.o = o /\ p.all = all /\ (left \/ o # "except") THEN p.in ELSE <<p>>

SetBound(e, l, r) ==
  IF l.err \/ r.err \/ l.corr # <<>> \/ r.corr # <<>> THEN Refused
  ELSE IF Len(l.names) # Len(r.names) THEN Refused
  ELSE BoundRows(Union(FlattenBranch(l.plan, e.o, e.all, TRUE) \o FlattenBranch(r.plan, e.o, e.all, FALSE),
                       e.o, e.all),
                 l.names, [c \in DOMAIN l.nul |-> l.nul[c] \/ r.nul[c]])

\* q is the query e is the whole body of, with the ORDER BY and LIMIT that a
\* SELECT takes into its block.
RECURSIVE SetExpr(_, _, _, _, _)
SetExpr(e, q, ctes, outer, scalar) ==
  CASE e.k = "select" -> SelectBlock(e, q, ctes, outer, scalar)
    [] e.k = "query"  -> QueryIn(e.q, ctes, outer, FALSE)
    [] e.k = "values" ->
         IF \E i \in DOMAIN e.rows : Len(e.rows[i]) # Len(e.rows[1]) THEN Refused
         ELSE BoundRows(Values(e.rows), [c \in DOMAIN e.rows[1] |-> "c"],
                        [c \in DOMAIN e.rows[1] |-> \E i \in DOMAIN e.rows : e.rows[i][c] = NULL])
    [] e.k = "set" -> SetBound(e, SetExpr(e.l, Query(e.l), ctes, outer, FALSE),
                               SetExpr(e.r, Query(e.r), ctes, outer, FALSE))

\* tail_above: ORDER BY and LIMIT of a set operation, over its columns.
SortedAbove(b, q, k, by) ==
  LET sorted == IF q.order = <<>> THEN b.plan ELSE Sort(b.plan, k.es)
  IN  IF k.st.err \/ by.st.err THEN Refused
      ELSE BoundRows(ApplyLimit(IF q.by = <<>> THEN sorted ELSE LimitBy(sorted, q.by[1], by.es), q),
                     b.names, b.nul)

TailAbove(b, q) ==
  LET scope == FromSchema(b.names, b.nul, "")
      cols == [i \in DOMAIN scope.cols |-> ColExpr(scope.cols[i])]
  IN  IF b.err THEN Refused
      ELSE SortedAbove(b, q, BindKeys(q.order, Ctx(scope, <<>>), Blank, cols),
                       BindAll(IF q.by = <<>> THEN <<>> ELSE q.by[2], Ctx(scope, <<>>), Blank))

\* query_in.  Only a SELECT keeps its correlation keys: what is above a set
\* operation, or a query in parentheses, hands none on.
QueryIn(q, ctes, outer, scalar) ==
  LET Above(b) == IF q.body.k = "select" THEN b ELSE TailAbove(b, q)
  IN  IF q.body.k # "select" /\ scalar THEN Refused
      ELSE Above(SetExpr(q.body, q, ctes \o q.with, outer, scalar))

BindQuery(q) == QueryIn(q, <<>>, <<>>, FALSE)

-----------------------------------------------------------------------------
(* The source of an UPDATE or DELETE: the rows to rewrite, in full, or the *)
(* rows to remove.                                                         *)

MutationSource(t, pred, proj) ==
  LET scope == FromTable(t, proj, t)
      Source(b) == [plan |-> Filter(Scan(t, proj), b.e), scope |-> scope, err |-> b.st.err]
  IN  Source(Bind(pred, Ctx(scope, <<>>), Blank))

BoundSource(m) == IF m.err THEN Refused ELSE BoundRows(m.plan, <<>>, <<>>)

BindDelete(t, pred) ==
  BoundSource(MutationSource(t, pred, DemandProject([all |-> FALSE, names |-> NamesIn(pred)], t)))

\* set is a sequence of [n |-> column, e |-> expression]; all of them read the
\* row as it was.
Assigned(t, set, m, b) ==
  LET Of(i) == {a \in DOMAIN set : set[a].n = Catalog[t][i].n}
      known == {Catalog[t][i].n : i \in DOMAIN Catalog[t]}
  IN  IF \/ m.err \/ b.st.err
         \/ \E i \in DOMAIN Catalog[t] : Cardinality(Of(i)) > 1
         \/ \E a \in DOMAIN set : set[a].n \notin known
      THEN Refused
      ELSE BoundRows(Project(m.plan, [i \in DOMAIN Catalog[t] |->
                       IF Of(i) = {} THEN Col(i) ELSE b.es[CHOOSE a \in Of(i) : TRUE]]), <<>>, <<>>)

UpdateFrom(t, set, m) ==
  Assigned(t, set, m, BindAll([a \in DOMAIN set |-> set[a].e], Ctx(m.scope, <<>>), Blank))

BindUpdate(t, set, pred) == UpdateFrom(t, set, MutationSource(t, pred, [i \in DOMAIN Catalog[t] |-> i]))
=============================================================================
