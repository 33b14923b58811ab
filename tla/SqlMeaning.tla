----------------------------- MODULE SqlMeaning -----------------------------
(***************************************************************************)
(* What a query means, row by row and without a plan: the reference the    *)
(* planner is checked against.  A name is looked up in the rows of the     *)
(* enclosing blocks, a subquery is answered anew for each of them, and a   *)
(* USING join simply has one more column.                                  *)
(*                                                                         *)
(* env is a sequence of frames, the innermost block first.  A frame is a   *)
(* row or a group of rows of a block: cols names the columns of row, rows  *)
(* are the rows of the group, and units are all frames of the block, for   *)
(* its window functions.                                                   *)
(***************************************************************************)
EXTENDS Binder

RefCol(q, n, pos) == [q |-> q, n |-> n, vis |-> TRUE, pos |-> pos]

Frame(cols, row, aliases, ctes) ==
  [cols |-> cols, row |-> row, rows |-> <<>>, set |-> {}, aliases |-> aliases, ctes |-> ctes,
   expanding |-> {}, units |-> <<>>, at |-> 0]

Found(cols, q, n) ==
  {i \in DOMAIN cols : cols[i].n = n /\ IF q = "" THEN cols[i].vis ELSE cols[i].q = q}

RECURSIVE Val(_, _, _)
RECURSIVE Answer(_, _, _, _)

Vals(es, env, db) == [i \in DOMAIN es |-> Val(es[i], env, db)]

RECURSIVE LookUp(_, _)
LookUp(e, env) ==
  LET hit == Found(env[1].cols, e.q, e.o)
  IN  IF hit = {} THEN LookUp(e, Tail(env)) ELSE env[1].row[CHOOSE i \in hit : TRUE]

NameVal(e, env, db) ==
  LET f == env[1]
      alias == {i \in DOMAIN f.aliases : f.aliases[i].as = e.o}
  IN  IF e.q = "" /\ alias # {} /\ e.o \notin f.expanding
      THEN Val(f.aliases[Min(alias)].e, <<[f EXCEPT !.expanding = @ \cup {e.o}]>> \o Tail(env), db)
      ELSE LookUp(e, env)

\* An aggregate of the rows of the group; its argument is a column by then.
AggVal(e, rows, env, db) ==
  LET xs == [i \in DOMAIN rows |-> Vals(e.args, <<[env[1] EXCEPT !.row = rows[i]]>> \o Tail(env), db)]
  IN  AggValue(Agg(e.o, [i \in DOMAIN e.args |-> Col(i)], e.neg), xs)

\* A window function of unit f.at among the units of the block.
UnitEnv(env, i) ==
  LET f == env[1]
  IN  <<[f EXCEPT !.row = f.units[i].row, !.rows = f.units[i].rows, !.set = f.units[i].set,
                  !.at = i]>> \o Tail(env)

\* vals has, for each unit, its partition, its sort keys and its arguments.
WinOver(e, vals, at) ==
  LET Ahead(i, j) == \E k \in DOMAIN e.sub.order :
                       /\ \A m \in 1 .. k - 1 : vals[i].ord[m] = vals[j].ord[m]
                       /\ IF e.sub.order[k].desc THEN vals[i].ord[k] > vals[j].ord[k]
                          ELSE vals[i].ord[k] < vals[j].ord[k]
      mine == {i \in DOMAIN vals : vals[i].part = vals[at].part}
      frame == SelectSeq(Places(vals), LAMBDA i : i \in mine /\ ~Ahead(at, i))
  IN  IF e.o = "row_number" THEN 1 + Cardinality({i \in mine : Ahead(i, at)})
      ELSE AggValue(Agg(e.o, [i \in DOMAIN e.args |-> Col(i)], FALSE),
                    [i \in DOMAIN frame |-> vals[frame[i]].args])

WinVal(e, env, db) ==
  WinOver(e, [i \in DOMAIN env[1].units |->
               [part |-> Vals(e.sub.part, UnitEnv(env, i), db),
                ord |-> Vals(OrderExprs(e.sub.order), UnitEnv(env, i), db),
                args |-> Vals(e.args, UnitEnv(env, i), db)]], env[1].at)

\* What a subquery's rows say.
SubVal(e, rows, env, db) ==
  CASE e.k = "scalar" -> IF rows = <<>> THEN NULL ELSE rows[1][1]
    [] e.k = "exists" -> B((rows # <<>>) # e.neg)
    [] e.k = "insub"  -> IF rows = <<>> THEN B(e.neg)
                         ELSE Member(Val(e.args[1], env, db), [i \in DOMAIN rows |-> rows[i][1]], e.neg)

BetweenVal(x, neg) ==
  LET v == Kleene("and", Compare("ge", x[1], x[2]), Compare("le", x[1], x[3]))
  IN  IF neg THEN Negation(v) ELSE v

Val(e, env, db) ==
  CASE e.k = "lit"      -> e.v
    [] e.k = "name"     -> NameVal(e, env, db)
    [] e.k = "agg"      -> AggVal(e, env[1].rows, env, db)
    [] e.k = "win"      -> WinVal(e, env, db)
    [] e.k = "grouping" -> FoldLeft(LAMBDA acc, a : (2 * acc) + (IF a \in env[1].set THEN 0 ELSE 1), 0, e.args)
    [] e.k \in {"scalar", "exists", "insub"} ->
         SubVal(e, Answer(e.sub, env[1].ctes, env, db).rows, env, db)
    [] e.k = "between"  -> BetweenVal(Vals(e.args, env, db), e.neg)
    [] e.k = "rand"     -> 0
    [] OTHER            -> Apply(e, Vals(e.args, env, db))

-----------------------------------------------------------------------------
(* FROM: columns and rows.                                                 *)

Rel(names, rows, q) == [cols |-> [i \in DOMAIN names |-> RefCol(q, names[i], i)], rows |-> rows]

KeyAt(cols, n) == CHOOSE i \in Found(cols, "", n) : TRUE
Hide(cols, names) ==
  [i \in DOMAIN cols |-> [cols[i] EXCEPT !.vis = @ /\ i \notin {KeyAt(cols, n) : n \in names}]]

\* meets[i] are the rows of the right side that row i of the left one meets.
Joined(tr, l, r, meets) ==
  LET u == tr.using
      n == Len(l.cols)
      cols == Hide(l.cols, ToSet(u)) \o Hide([i \in DOMAIN r.cols |-> [r.cols[i] EXCEPT !.pos = @ + n]], ToSet(u))
              \o [i \in DOMAIN u |-> RefCol("", u[i], l.cols[KeyAt(l.cols, u[i])].pos)]
      Merge(a, c) == a \o c \o [i \in DOMAIN u |-> IF a[KeyAt(l.cols, u[i])] # NULL THEN a[KeyAt(l.cols, u[i])]
                                                   ELSE c[KeyAt(r.cols, u[i])]]
      hits == FlattenSeq([i \in DOMAIN l.rows |->
                LET m == Pick(r.rows, LAMBDA j : j \in meets[i])
                IN  IF m = <<>> /\ tr.kind \in {"left", "full"}
                    THEN <<Merge(l.rows[i], Pad(Len(r.cols)))>>
                    ELSE [j \in DOMAIN m |-> Merge(l.rows[i], m[j])]])
      lost == Pick(r.rows, LAMBDA j : \A i \in DOMAIN l.rows : j \notin meets[i])
  IN  [cols |-> cols,
       rows |-> hits \o IF tr.kind \in {"right", "full"}
                        THEN [j \in DOMAIN lost |-> Merge(Pad(n), lost[j])] ELSE <<>>]

JoinRel(tr, l, r, db) ==
  LET u == tr.using
      plain == l.cols \o r.cols
      Meets(a, c) == /\ \A i \in DOMAIN u : /\ a[KeyAt(l.cols, u[i])] # NULL
                                            /\ a[KeyAt(l.cols, u[i])] = c[KeyAt(r.cols, u[i])]
                     /\ \A i \in DOMAIN tr.on : True(Val(tr.on[i], <<Frame(plain, a \o c, <<>>, <<>>)>>, db))
  IN  Joined(tr, l, r, [i \in DOMAIN l.rows |-> {j \in DOMAIN r.rows : Meets(l.rows[i], r.rows[j])}])

RECURSIVE RelOf(_, _, _)
RelOf(tr, ctes, db) ==
  LET as == IF tr.as = "" THEN tr.t ELSE tr.as
      named == {i \in DOMAIN ctes : ctes[i].n = tr.t}
      Of(a) == Rel(a.names, a.rows, as)
  IN  CASE tr.k = "join" -> JoinRel(tr, RelOf(tr.l, ctes, db), RelOf(tr.r, ctes, db), db)
        [] tr.k = "sub"  -> Of(Answer(tr.q, ctes, <<>>, db))
        [] OTHER -> IF named # {} THEN Of(Answer(ctes[Max(named)].q, SubSeq(ctes, 1, Max(named) - 1), <<>>, db))
                    ELSE Rel([i \in DOMAIN Catalog[tr.t] |-> Catalog[tr.t][i].n], db[tr.t], as)

-----------------------------------------------------------------------------
(* A block.                                                                *)

RECURSIVE HasAgg(_)
HasAgg(e) == \/ e.k = "agg"
             \/ \E i \in DOMAIN e.args : HasAgg(e.args[i])
             \/ e.k = "win" /\ \E x \in ToSet(e.sub.part) \cup ToSet(OrderExprs(e.sub.order)) : HasAgg(x)

\* The grouping sets, each a set of key expressions.
KeySets(s) ==
  LET Own(e) == IF IsLit(e) THEN s.items[e.v].e ELSE e
      Keys(es) == {Own(es[i]) : i \in DOMAIN es}
      Of(it) == CASE it.k \in {"plain", "sets"} -> [i \in DOMAIN it.keys |-> Keys(it.keys[i])]
                  [] it.k = "rollup" -> [i \in 1 .. Len(it.keys) + 1 |->
                                           UNION {Keys(it.keys[j]) : j \in 1 .. Len(it.keys) + 1 - i}]
                  [] it.k = "cube" -> SetToSeq({UNION {Keys(it.keys[j]) : j \in d} : d \in SUBSET DOMAIN it.keys})
      Cross(A, C) == FlattenSeq([i \in DOMAIN A |-> [j \in DOMAIN C |-> A[i] \cup C[j]]])
  IN  FoldLeft(LAMBDA acc, it : Cross(acc, Of(it)), <<{}>>, s.group)

\* The groups of the frames with the given keys.  The row of a group is its
\* first one, with the columns out, those the set leaves out, NULL.
Units(frames, keyOf, blank, set, out) ==
  LET keys == IF set = {} THEN <<<<>>>> ELSE Dedup(keyOf)
      Unit(key) ==
        LET mine == Pick(frames, LAMBDA i : keyOf[i] = key)
            f == IF mine = <<>> THEN blank ELSE mine[1]
        IN  [f EXCEPT !.row = [c \in DOMAIN @ |-> IF c \in out THEN NULL ELSE @[c]],
                      !.rows = [i \in DOMAIN mine |-> mine[i].row], !.set = set]
  IN  [k \in DOMAIN keys |-> Unit(keys[k])]

GroupFrames(s, frames, blank, env, db) ==
  LET sets == KeySets(s)
      Out(set) == {CHOOSE c \in Found(blank.cols, e.q, e.o) : TRUE :
                     e \in {x \in (UNION ToSet(sets)) \ set : x.k = "name"}}
      Of(set) == Units(frames, [i \in DOMAIN frames |-> Vals(SetToSeq(set), <<frames[i]>> \o env, db)],
                       blank, set, Out(set))
  IN  FlattenSeq([i \in DOMAIN sets |-> Of(sets[i])])

\* Rows with their sort keys, in order.
InOrder(pairs, order) ==
  LET Ahead(a, b) == \E k \in DOMAIN order :
                       /\ \A m \in 1 .. k - 1 : a[m] = b[m]
                       /\ IF order[k].desc THEN a[k] > b[k] ELSE a[k] < b[k]
      at == SortSeq(Places(pairs), LAMBDA i, j :
              Ahead(pairs[i].keys, pairs[j].keys) \/ (~Ahead(pairs[j].keys, pairs[i].keys) /\ i < j))
  IN  [i \in DOMAIN at |-> pairs[at[i]]]

RowsOfPairs(ps) == [i \in DOMAIN ps |-> ps[i].row]

\* DISTINCT, ORDER BY, LIMIT BY and LIMIT of rows with their keys.
Finish(pairs, distinct, q) ==
  LET once == IF ~distinct THEN pairs
              ELSE Pick(pairs, LAMBDA i : \A j \in 1 .. i - 1 : pairs[j].row # pairs[i].row)
      sorted == InOrder(once, q.order)
      some == IF q.by = <<>> THEN sorted
              ELSE Pick(sorted, LAMBDA i :
                     q.by[1] > Cardinality({j \in 1 .. i - 1 : sorted[j].by = sorted[i].by}))
  IN  Cut(RowsOfPairs(some), q.limit, q.offset)

StarAt(cols, q) ==
  SetToSortSeq({c \in DOMAIN cols : IF q = "" THEN cols[c].vis ELSE cols[c].q = q},
               LAMBDA a, c : cols[a].pos < cols[c].pos)

Passing(frames, preds, env, db) ==
  SelectSeq(frames, LAMBDA f : \A e \in ToSet(preds) : True(Val(e, <<f>> \o env, db)))

IsGrouped(s, q) ==
  s.group # <<>> \/ \E e \in ToSet(ItemExprs(s.items) \o s.having \o OrderExprs(q.order)) : HasAgg(e)

\* The select list of the unit in env.
OutRow(s, cols, env, db) ==
  FlattenSeq([n \in DOMAIN s.items |->
    IF s.items[n].k = "star"
    THEN LET at == StarAt(cols, s.items[n].q) IN [c \in DOMAIN at |-> env[1].row[at[c]]]
    ELSE <<Val(s.items[n].e, <<[env[1] EXCEPT !.expanding = {s.items[n].as}]>> \o Tail(env), db)>>])

OutNames(s, cols) ==
  FlattenSeq([n \in DOMAIN s.items |->
    IF s.items[n].k = "star"
    THEN LET at == StarAt(cols, s.items[n].q) IN [c \in DOMAIN at |-> cols[at[c]].n]
    ELSE <<IF s.items[n].as # "" THEN s.items[n].as ELSE s.items[n].e.o>>])

\* A row with its sort keys and its LIMIT BY values; a number is a position.
Keyed2(row, q, env, db) ==
  [row |-> row,
   keys |-> [k \in DOMAIN q.order |-> IF IsLit(q.order[k].e) THEN row[q.order[k].e.v]
                                       ELSE Val(q.order[k].e, env, db)],
   by |-> IF q.by = <<>> THEN <<>> ELSE Vals(q.by[2], env, db)]

SelectUnits(s, q, cols, units, env, db) ==
  LET At(i) == <<[units[i] EXCEPT !.units = units, !.at = i]>> \o env
  IN  [names |-> OutNames(s, cols),
       rows |-> Finish([i \in DOMAIN units |-> Keyed2(OutRow(s, cols, At(i), db), q, At(i), db)], s.distinct, q)]

SelectKept(s, q, blank, kept, env, db) ==
  SelectUnits(s, q, blank.cols,
              Passing(IF IsGrouped(s, q) THEN GroupFrames(s, kept, blank, env, db) ELSE kept, s.having, env, db),
              env, db)

SelectFrom(s, q, rel, ctes, env, db) ==
  LET aliases == SelectSeq(s.items, LAMBDA it : it.k = "expr" /\ it.as # "")
      blank == Frame(rel.cols, Pad(Len(rel.cols)), aliases, ctes)
      all == [i \in DOMAIN rel.rows |-> [blank EXCEPT !.row = rel.rows[i]]]
  IN  SelectKept(s, q, blank, Passing(all, s.prewhere \o s.where, env, db), env, db)

AnswerSelect(s, q, ctes, env, db) ==
  SelectFrom(s, q, IF s.from = <<>> THEN [cols |-> <<>>, rows |-> <<<<>>>>] ELSE RelOf(s.from[1], ctes, db),
             ctes, env, db)

RECURSIVE AnswerBody(_, _, _, _, _)
AnswerBody(b, q, ctes, env, db) ==
  CASE b.k = "select" -> AnswerSelect(b, q, ctes, env, db)
    [] b.k = "query"  -> Answer(b.q, ctes, env, db)
    [] b.k = "values" -> [names |-> [c \in DOMAIN b.rows[1] |-> "c"], rows |-> b.rows]
    [] b.k = "set"    -> [AnswerBody(b.l, Query(b.l), ctes, env, db) EXCEPT
                            !.rows = SetRows(b.o, b.all, @, AnswerBody(b.r, Query(b.r), ctes, env, db).rows)]

\* Above a set operation, ORDER BY reads its columns.
AnswerAbove(a, q, ctes, db) ==
  LET cols == [i \in DOMAIN a.names |-> RefCol("", a.names[i], i)]
      At(row) == <<Frame(cols, row, <<>>, ctes)>>
  IN  [a EXCEPT !.rows = Finish([i \in DOMAIN @ |-> Keyed2(@[i], q, At(@[i]), db)], FALSE, q)]

Answer(q, ctes, env, db) ==
  LET all == ctes \o q.with
      Above(a) == IF q.body.k = "select" THEN a ELSE AnswerAbove(a, q, all, db)
  IN  Above(AnswerBody(q.body, q, all, env, db))

Meaning(q, db) == Answer(q, <<>>, <<>>, db).rows

\* UPDATE and DELETE: the rewritten rows, the removed rows.
UpdateMeaning(t, set, pred, db) ==
  LET cols == [i \in DOMAIN Catalog[t] |-> RefCol(t, Catalog[t][i].n, i)]
      At(row) == <<Frame(cols, row, <<>>, <<>>)>>
      Assigns(c) == {x \in DOMAIN set : set[x].n = Catalog[t][c].n}
      New(row) == [c \in DOMAIN row |-> IF Assigns(c) = {} THEN row[c]
                                        ELSE Val(set[CHOOSE x \in Assigns(c) : TRUE].e, At(row), db)]
      Rewrite(hit) == [i \in DOMAIN hit |-> New(hit[i])]
  IN  Rewrite(SelectSeq(db[t], LAMBDA row : True(Val(pred, At(row), db))))
=============================================================================
