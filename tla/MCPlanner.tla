----------------------------- MODULE MCPlanner -----------------------------
(***************************************************************************)
(* Statements and small databases for Planner.  a.k, b.k and b.y may be    *)
(* NULL; c has neither.                                                    *)
(***************************************************************************)
EXTENDS Planner

MCCatalog ==
  [a |-> <<[n |-> "k", nul |-> TRUE], [n |-> "x", nul |-> FALSE]>>,
   b |-> <<[n |-> "k", nul |-> TRUE], [n |-> "y", nul |-> TRUE]>>,
   c |-> <<[n |-> "k", nul |-> FALSE], [n |-> "z", nul |-> FALSE]>>]

MCDatabases ==
  {[a |-> ta, b |-> tb, c |-> tc] :
     ta \in {<<>>, <<<<0, 1>>, <<1, 0>>, <<NULL, 2>>, <<0, 3>>>>},
     tb \in {<<>>, <<<<0, NULL>>, <<1, 1>>>>, <<<<0, 0>>, <<0, 1>>, <<NULL, 0>>>>},
     tc \in {<<>>, <<<<0, 1>>, <<1, 1>>, <<2, 0>>>>}}

ak == Name("a", "k")
ax == Name("a", "x")
bk == Name("b", "k")
by == Name("b", "y")
ck == Name("c", "k")
cz == Name("c", "z")
n(s) == Name("", s)
A == Table("a", "")
TB == Table("b", "")
C == Table("c", "")
I(e) == Item(e, "")
Lt(a, b) == Cmp("lt", a, b)
Gt(a, b) == Cmp("gt", a, b)
Count == AggCall("count", <<>>, FALSE)
Sum(e) == AggCall("sum", <<e>>, FALSE)
MaxOf(e) == AggCall("max", <<e>>, FALSE)

Sel(items, from, where) == Select(items, IF from = <<>> THEN <<>> ELSE <<from>>, where)
Q(items, from, where) == Query(Sel(items, from, where))
Grp(q, g) == [q EXCEPT !.body.group = g]
Hav(q, e) == [q EXCEPT !.body.having = <<e>>]
Ord(q, keys) == [q EXCEPT !.order = keys]
Top(q, l, o) == [q EXCEPT !.limit = l, !.offset = o]

\* Predicates over the row of a, as the normalizer and the zones meet them.
Preds ==
  {Lt(ax, Lit(2)), Cmp("le", Lit(1), ax), Not(And(Gt(ax, Lit(0)), Eq(ak, Lit(0)))),
   Or(Eq(ax, Lit(1)), Or(Eq(Lit(2), ax), In(ax, <<3>>, FALSE))), Not(In(ak, <<0, NULL>>, FALSE)),
   In(ak, <<0, 1>>, TRUE), IsNull(ak, FALSE), Not(IsNull(ak, FALSE)), Between(ax, Lit(1), Lit(2), TRUE),
   Not(Not(Eq(ak, Lit(0)))), Eq(Add(ak, Lit(0)), Lit(1)), And(Eq(Lit(1), Lit(1)), Gt(ax, Lit(1))),
   And(Lit(0), Gt(ax, Lit(1))), Or(Eq(Lit(0), Lit(1)), Gt(ax, Lit(1))), Or(ak, Lit(NULL)),
   Case(IsNull(ak, FALSE), Lit(1), Lit(0)), Eq(Call(<<ak>>), Lit(1)), Or(Lit(1), Eq(ak, Lit(1)))}

Filters == {Q(<<I(ax)>>, A, <<p>>) : p \in Preds}

\* Joins, with a conjunct on each side and across.
JoinWheres == {<<>>, <<Eq(ak, Lit(0))>>, <<IsNull(by, FALSE)>>, <<And(Lt(ax, Lit(3)), Gt(by, Lit(0)))>>,
               <<Eq(ax, by)>>, <<Eq(bk, Lit(0))>>}
Joins ==
  {Q(<<I(ax), I(by)>>, JoinRef(A, TB, kind, <<>>, <<on>>), w) :
     kind \in {"inner", "left", "right", "full"}, w \in JoinWheres,
     on \in {Eq(ak, bk), And(Eq(bk, ak), Lt(ax, Add(by, Lit(2))))}}
  \cup {Q(<<I(ax), I(by)>>, JoinRef(A, TB, "cross", <<>>, <<>>), <<Eq(ak, bk)>>)}
  \cup {Q(<<Star(""), I(n("k"))>>, JoinRef(A, TB, kind, <<"k">>, <<>>), w) :
          kind \in {"inner", "left", "right", "full"}, w \in {<<>>, <<Eq(n("k"), Lit(0))>>}}

ThreeWay ==
  {Q(<<I(ax), I(by), I(cz)>>,
     JoinRef(JoinRef(A, TB, "inner", <<>>, <<Eq(ak, bk)>>), C, k2, <<>>, <<Eq(ck, on)>>), w) :
     k2 \in {"inner", "left"}, on \in {bk, ax}, w \in {<<>>, <<Eq(ak, Lit(0))>>, <<Lt(by, cz)>>}}
  \cup {Q(<<I(ax), I(cz)>>, JoinRef(JoinRef(A, TB, k1, <<"k">>, <<>>), C, "inner", <<"k">>, <<>>), <<>>) :
          k1 \in {"inner", "left", "right"}}

\* Aggregation, DISTINCT, ordering and windows.
Grouped1 ==
  {Grp(Q(<<I(n("k")), I(Count), I(Sum(n("y")))>>, TB, <<>>), <<Plain(n("k"))>>),
   Hav(Grp(Q(<<I(Add(n("k"), Lit(1))), I(MaxOf(n("y")))>>, TB, <<>>), <<Plain(n("k"))>>), Gt(n("k"), Lit(0))),
   Hav(Grp(Q(<<Item(n("k"), "g"), I(Count)>>, TB, <<>>), <<Plain(n("g"))>>), Gt(Count, Lit(1))),
   Grp(Q(<<I(Add(n("k"), Lit(1))), I(Count)>>, TB, <<>>), <<Plain(Lit(1))>>),
   Q(<<I(Count), I(AggCall("count", <<n("k")>>, TRUE)), I(Sum(n("k")))>>, TB, <<Gt(n("y"), Lit(5))>>),
   Hav(Q(<<I(Count)>>, TB, <<>>), Gt(Count, Lit(1))),
   Hav(Grp(Q(<<I(n("x"))>>, A, <<>>), <<Plain(n("k")), Plain(n("x"))>>), And(Eq(n("k"), Lit(0)), Eq(Count, Lit(1))))}
  \cup {Grp(Q(<<I(ak), I(ax), I(Grouping(<<ak, ax>>)), I(Count)>>, A, <<>>), <<[k |-> g, keys |-> <<<<ak>>, <<ax>>>>]>>) :
          g \in {"rollup", "cube", "sets"}}
  \cup {Hav(Grp(Q(<<I(ak), I(Sum(ax))>>, A, <<>>), <<[k |-> "sets", keys |-> <<<<ak>>, <<>>>>]>>), IsNull(ak, FALSE))}

Ordered ==
  {Top(Ord(Q(<<I(n("x"))>>, A, <<>>), <<Key(n("x"), d)>>), l, o) : d \in BOOLEAN, l \in {NULL, 0, 2}, o \in {0, 1}}
  \cup {Ord(Q(<<Item(Add(n("x"), n("x")), "x")>>, A, <<Gt(n("x"), Lit(2))>>), <<Key(Lit(1), TRUE)>>),
        Ord([Q(<<I(n("k"))>>, A, <<>>) EXCEPT !.body.distinct = TRUE], <<Key(n("k"), FALSE)>>),
        [Ord(Q(<<I(n("k")), I(n("x"))>>, A, <<>>), <<Key(n("x"), TRUE)>>) EXCEPT !.by = <<1, <<n("k")>>>>],
        [Ord([Q(<<I(n("k"))>>, A, <<>>) EXCEPT !.body.distinct = TRUE], <<Key(n("k"), TRUE)>>)
           EXCEPT !.by = <<1, <<n("k")>>>>],
        [Q(<<I(n("x"))>>, A, <<>>) EXCEPT !.body.prewhere = <<And(Gt(n("x"), Lit(0)), IsNull(n("k"), TRUE))>>]}

Windows ==
  {Q(<<I(ax), I(Over("row_number", <<>>, <<ak>>, <<Key(ax, TRUE)>>)), I(Over("sum", <<ax>>, <<ak>>, <<>>)),
      I(Over("sum", <<ax>>, <<ak>>, <<Key(ax, TRUE)>>))>>, A, <<>>),
   Ord(Q(<<I(ax)>>, A, <<>>), <<Key(Over("row_number", <<>>, <<>>, <<Key(ax, TRUE)>>), FALSE)>>),
   Grp(Q(<<I(n("k")), I(Over("sum", <<Count>>, <<>>, <<Key(n("k"), FALSE)>>))>>, TB, <<>>), <<Plain(n("k"))>>)}

\* Set operations, derived tables and common table expressions.
S1(t) == Sel(<<I(n("k"))>>, t, <<>>)
Sets ==
  {Query(SetOp(o, all, S1(A), S1(TB))) : o \in {"union", "intersect", "except"}, all \in BOOLEAN}
  \cup {Query(SetOp(o, TRUE, S1(A), SetOp(o, TRUE, S1(TB), S1(C)))) : o \in {"union", "except"}}
  \cup {Query(SetOp(o, TRUE, SetOp(o, TRUE, S1(A), S1(TB)), S1(C))) : o \in {"union", "except"}}
  \cup {Ord(Query(SetOp("union", FALSE, S1(A), Nested(Q(<<I(n("z"))>>, C, <<>>)))), <<Key(Lit(1), TRUE)>>),
        Query(SetOp("except", TRUE, S1(A), RowsOf(<<<<0>>, <<NULL>>>>))),
        Q(<<Star("d")>>, Derived(Query(SetOp("union", FALSE, S1(A), S1(TB))), "d"), <<Eq(n("k"), Lit(0))>>),
        Q(<<I(n("m"))>>, Derived([Q(<<Item(n("k"), "m")>>, A, <<>>) EXCEPT !.body.distinct = TRUE], "d"),
          <<Gt(n("m"), Lit(0))>>),
        [Q(<<I(Name("v", "m"))>>, Table("w", "v"), <<>>) EXCEPT
           !.with = <<[n |-> "w", q |-> Q(<<Item(MaxOf(n("x")), "m")>>, A, <<>>)]>>],
        Q(<<I(Lit(1))>>, <<>>, <<>>)}

\* Subqueries without correlation, which the session folds to their answer.
\* Each is planned folded and as the binder gets it, but for a NOT IN whose left
\* side may be NULL, which folding gets wrong (null_not_in_no_rows of
\* MCPlannerFlaws) and which is planned unfolded only.
BEq(e) == <<Eq(bk, e)>>
InSubs(p, neg) ==
  {Q(<<I(ax)>>, A, <<InQuery(p, Q(<<I(s)>>, TB, w), neg)>>) :
     s \in {bk, by}, w \in {<<>>, <<IsNull(by, TRUE)>>}}
NullableNotIn == InSubs(Add(ak, Lit(1)), TRUE)
Subs ==
  InSubs(ax, TRUE) \cup InSubs(ax, FALSE) \cup InSubs(Add(ak, Lit(1)), FALSE)
  \cup {Q(<<I(ax)>>, A, <<Exists(Q(<<I(by)>>, TB, <<Gt(by, Lit(0))>>), neg)>>) : neg \in BOOLEAN}
  \cup {Q(<<I(ax), I(Subquery(Q(<<I(MaxOf(by))>>, TB, <<>>)))>>, A, <<Lt(Subquery(Q(<<I(Count)>>, C, <<>>)), ax)>>)}

Correlated ==
  {Q(<<I(ax)>>, A, <<InQuery(p, Q(<<I(s)>>, TB, BEq(ak)), neg)>>) :
     p \in {ax, ak}, s \in {by, Add(by, Lit(1)), Lit(1)}, neg \in BOOLEAN}
  \cup {Q(<<I(ax)>>, A, <<And(Exists(Q(<<I(by)>>, TB, BEq(e)), neg), Gt(ax, Lit(0)))>>) :
          e \in {ak, Add(ak, Lit(1))}, neg \in BOOLEAN}
  \cup {Q(<<I(ax), I(Subquery(Q(<<I(v)>>, TB, BEq(ak))))>>, A, <<>>) :
          v \in {Count, Add(Count, Lit(1)), MaxOf(by), Call(<<MaxOf(by)>>)}}
  \cup {Q(<<I(ax)>>, A, <<Gt(Subquery(Q(<<I(Count)>>, TB, BEq(ak))), Lit(0))>>),
        Q(<<I(Sum(Subquery(Q(<<I(Count)>>, TB, BEq(ak)))))>>, A, <<>>),
        \* A key two blocks out, carried through the block between.
        Q(<<I(ax)>>, A, <<Exists(Q(<<I(by)>>, TB, <<InQuery(bk, Q(<<I(ck)>>, C, <<Eq(cz, ax)>>), FALSE)>>), FALSE)>>),
        Q(<<I(ax)>>, A, <<Exists(Q(<<I(by)>>, TB, <<And(Eq(bk, ak), Exists(Q(<<I(ck)>>, C, <<Eq(ck, bk)>>), TRUE))>>), TRUE)>>),
        Q(<<I(ax)>>, A, <<InQuery(ak, Grp(Q(<<I(bk)>>, TB, <<Eq(by, ax)>>), <<Plain(bk)>>), FALSE)>>),
        Q(<<I(ax)>>, A, <<InQuery(ax, Hav(Grp(Q(<<I(Count)>>, TB, BEq(ak)), <<Plain(by)>>), Gt(Count, Lit(0))), TRUE)>>),
        Q(<<I(n("k"))>>, JoinRef(A, C, "full", <<"k">>, <<>>), <<Exists(Q(<<I(by)>>, TB, <<Eq(bk, n("k"))>>), TRUE)>>)}

\* Refused: not a join key, two blocks out under a negation, one LIMIT per outer
\* row, a grouped select list, an ambiguous or unknown name.
Refusals ==
  {Q(<<I(ax)>>, A, <<Exists(Q(<<I(by)>>, TB, <<Lt(bk, ak)>>), FALSE)>>),
   Q(<<I(ax)>>, A, <<Exists(Q(<<I(by)>>, TB, <<Eq(Add(bk, ak), Lit(1))>>), FALSE)>>),
   Q(<<I(ax)>>, A, <<Exists(Q(<<I(by)>>, TB, <<Exists(Q(<<I(cz)>>, C, <<Eq(cz, ax)>>), TRUE)>>), FALSE)>>),
   Q(<<I(ax)>>, A, <<InQuery(ax, Top(Q(<<I(by)>>, TB, BEq(ak)), 1, 0), FALSE)>>),
   Q(<<I(ax)>>, A, <<Exists(Query(SetOp("union", TRUE, Sel(<<I(by)>>, TB, BEq(ak)), S1(C))), FALSE)>>),
   Q(<<I(Subquery(Q(<<I(by)>>, TB, BEq(ak))))>>, A, <<>>),
   Q(<<I(Subquery(Grp(Q(<<I(Count)>>, TB, BEq(ak)), <<Plain(by)>>)))>>, A, <<>>),
   Grp(Q(<<I(ax)>>, A, <<>>), <<Plain(ak)>>), Q(<<I(ax)>>, A, <<Gt(Count, Lit(0))>>),
   Q(<<I(n("k"))>>, JoinRef(A, TB, "inner", <<>>, <<Eq(ak, bk)>>), <<>>), Q(<<I(n("q"))>>, A, <<>>),
   Q(<<I(Sum(Count))>>, A, <<>>), Hav(Q(<<I(ax)>>, A, <<>>), Gt(Over("row_number", <<>>, <<>>, <<>>), Lit(0))),
   Ord([Q(<<I(ak)>>, A, <<>>) EXCEPT !.body.distinct = TRUE], <<Key(ax, FALSE)>>),
   Q(<<I(Grouping(<<ak>>))>>, A, <<>>), Q(<<I(ax)>>, A, <<Or(Exists(Q(<<I(by)>>, TB, BEq(ak)), FALSE), Eq(ax, Lit(1)))>>),
   Q(<<I(n("k"))>>, JoinRef(JoinRef(A, TB, "full", <<"k">>, <<>>), C, "inner", <<"k">>, <<>>), <<>>),
   Query(SetOp("union", TRUE, S1(A), Sel(<<I(ck), I(cz)>>, C, <<>>))), Grp(Q(<<I(ak)>>, A, <<>>), <<Plain(Lit(2))>>)}

Query1(q, fold, ok) == [k |-> "query", q |-> q, fold |-> fold, ok |-> ok]
Accepted == Filters \cup Joins \cup ThreeWay \cup Grouped1 \cup Ordered \cup Windows \cup Sets \cup Correlated

MCJobs ==
  {Query1(q, TRUE, TRUE) : q \in Accepted} \cup {Query1(q, f, TRUE) : q \in Subs, f \in BOOLEAN}
  \cup {Query1(q, FALSE, TRUE) : q \in NullableNotIn}
  \cup {Query1(q, TRUE, FALSE) : q \in Refusals}
  \cup {[k |-> "update", t |-> "a", set |-> <<[n |-> "k", e |-> n("x")], [n |-> "x", e |-> Add(n("k"), Lit(1))]>>,
         pred |-> Gt(n("x"), Lit(0)), ok |-> TRUE],
        [k |-> "update", t |-> "a", set |-> <<[n |-> "k", e |-> n("x")], [n |-> "k", e |-> Lit(0)]>>,
         pred |-> Lit(1), ok |-> FALSE],
        [k |-> "delete", t |-> "b", pred |-> Not(Eq(n("y"), Lit(0))), ok |-> TRUE]}
=============================================================================
