----------------------------- MODULE Optimizer -----------------------------
(***************************************************************************)
(* planner/optimizer.rs: the passes over a logical plan, in the order of   *)
(* `optimize` and `optimize_costed`, and lower of planner/physical.rs as   *)
(* far as it rewrites the plan.  The cost model (planner/stats.rs) only    *)
(* chooses the order of an inner-join cluster: any order is a legal choice *)
(* here, so the passes are right whatever the statistics say.              *)
(***************************************************************************)
EXTENDS Logical

\* map_plan, map_children_res: bottom up.
RECURSIVE MapPlan(_, _)
MapPlan(f(_), p) == f([p EXCEPT !.in = [i \in DOMAIN p.in |-> MapPlan(f, p.in[i])]])

-----------------------------------------------------------------------------
(* fold_constants.                                                         *)

NONE == -2          \* const_eval's None

\* AND and OR: a dominant side decides; otherwise both must be known.
FoldLogical(k, l, r) ==
  LET Dominates(v) == v # NONE /\ v # NULL /\ (v # 0) = (k = "or")
  IN  IF Dominates(l) \/ Dominates(r) THEN B(k = "or")
      ELSE IF l # NONE /\ r # NONE THEN Kleene(k, l, r) ELSE NONE

RECURSIVE ConstEval(_)
ConstEval(e) ==
  LET xs == [i \in DOMAIN e.args |-> ConstEval(e.args[i])]
  IN  CASE e.k = "lit" -> e.v
        [] e.k \in {"col", "call", "rand", "coalesce"} -> NONE
        [] Logical(e)  -> FoldLogical(e.k, xs[1], xs[2])
        [] e.k = "case" -> IF xs[1] = NONE THEN NONE
                           ELSE IF True(xs[1]) THEN xs[2] ELSE xs[3]
        [] OTHER -> IF NONE \in ToSet(xs) THEN NONE ELSE Apply(e, xs)

CouldFold(e) ==
  LET lit == {i \in DOMAIN e.args : IsLit(e.args[i])}
  IN  CASE e.k \in {"lit", "col", "call", "rand", "coalesce"} -> FALSE
        [] Logical(e)  -> lit # {}
        [] e.k = "case" -> 1 \in lit
        [] OTHER       -> lit = DOMAIN e.args

RECURSIVE FoldExpr(_)
FoldExpr(e0) ==
  LET e == [e0 EXCEPT !.args = [i \in DOMAIN e0.args |-> FoldExpr(e0.args[i])]]
  IN  IF CouldFold(e) /\ ConstEval(e) # NONE THEN Lit(ConstEval(e)) ELSE e

FoldAll(es) == [i \in DOMAIN es |-> FoldExpr(es[i])]

FoldNode(p) ==
  CASE p.k = "filter"  -> [p EXCEPT !.pred = FoldExpr(@)]
    [] p.k = "project" -> [p EXCEPT !.exprs = FoldAll(@)]
    [] p.k = "scan"    -> [p EXCEPT !.filters = FoldAll(@)]
    [] OTHER           -> p

FoldConstants(p) == MapPlan(FoldNode, p)

-----------------------------------------------------------------------------
(* normalize_predicates.                                                   *)

NegateCmp == [eq |-> "ne", ne |-> "eq", lt |-> "ge", le |-> "gt", gt |-> "le", ge |-> "lt"]

\* negate: the complement of e, or the NOT itself when it has none.
RECURSIVE Negatable(_)
Negatable(e) == \/ e.k \in {"cmp", "in", "isnull"}
                \/ e.k = "not" /\ IsBool(e.args[1])
                \/ Logical(e) /\ Negatable(e.args[1]) /\ Negatable(e.args[2])

RECURSIVE Negate(_)
Negate(e) ==
  CASE e.k = "not" -> e.args[1]
    [] Logical(e)  -> Bin(IF e.k = "and" THEN "or" ELSE "and", Negate(e.args[1]), Negate(e.args[2]))
    [] e.k = "cmp" -> [e EXCEPT !.o = NegateCmp[@]]
    [] OTHER       -> [e EXCEPT !.neg = ~@]

\* or_to_in, collect_in: the literals an OR compares one column with.
IsEqLit(e) == e.k = "cmp" /\ e.o = "eq" /\ IsLit(e.args[1]) # IsLit(e.args[2])
EqCol(e) == IF IsLit(e.args[1]) THEN e.args[2] ELSE e.args[1]
EqLit(e) == IF IsLit(e.args[1]) THEN e.args[1].v ELSE e.args[2].v

RECURSIVE OrLeaves(_)
OrLeaves(e) == IF e.k = "or" THEN OrLeaves(e.args[1]) \o OrLeaves(e.args[2]) ELSE <<e>>

InLeaf(e) == \/ IsEqLit(e) /\ IsCol(EqCol(e)) /\ EqLit(e) # NULL
             \/ e.k = "in" /\ ~e.neg /\ IsCol(e.args[1]) /\ NULL \notin ToSet(e.list)
LeafCol(e)  == IF e.k = "in" THEN e.args[1] ELSE EqCol(e)
LeafList(e) == IF e.k = "in" THEN e.list ELSE <<EqLit(e)>>

OrToIn(e) ==
  LET leaves == OrLeaves(e)
      list == FlattenSeq([i \in DOMAIN leaves |-> LeafList(leaves[i])])
  IN  IF \A i \in DOMAIN leaves : InLeaf(leaves[i]) /\ LeafCol(leaves[i]) = LeafCol(leaves[1])
      THEN IF Len(list) > 1 THEN In(LeafCol(leaves[1]), list, FALSE) ELSE e
      ELSE e

\* strip_identity: x + 0 and 0 + x stand for x - 0, x * 1, 1 * x and a cast to
\* x's own type as well.  All values here have one type, so the guard that the
\* sum has its operand's type always holds.
RECURSIVE StripIdentity(_)
StripIdentity(e) ==
  IF e.k # "add" THEN e
  ELSE IF e.args[2] = Lit(0) THEN StripIdentity(e.args[1])
  ELSE IF e.args[1] = Lit(0) THEN StripIdentity(e.args[2]) ELSE e

RECURSIVE Norm(_)
Norm(e) ==
  CASE e.k = "not" ->
         LET inner == Norm(e.args[1])
         IN  IF Negatable(inner) THEN Norm(Negate(inner)) ELSE Not(inner)
    [] Logical(e) ->
         LET n == Bin(e.k, Norm(e.args[1]), Norm(e.args[2]))
         IN  IF e.k = "or" THEN OrToIn(n) ELSE n
    [] e.k = "cmp" -> Cmp(e.o, StripIdentity(e.args[1]), StripIdentity(e.args[2]))
    [] OTHER -> e

NormNode(p) ==
  CASE p.k = "filter" -> [p EXCEPT !.pred = Norm(@)]
    [] p.k = "scan"   -> [p EXCEPT !.filters = [i \in DOMAIN @ |-> Norm(@[i])]]
    [] p.k = "join"   -> [p EXCEPT !.residual = Norm(@)]
    [] OTHER          -> p

NormalizePredicates(p) == MapPlan(NormNode, p)

-----------------------------------------------------------------------------
(* push_down_filters.                                                      *)

Above(p, cs) == IF cs = <<>> THEN p ELSE Filter(p, JoinConjuncts(cs))

\* equal_columns: pairs of columns that are equal in every row of a plan.
RECURSIVE EqualColumns(_)
EqualColumns(p) ==
  CASE p.k = "join" ->
         LET ln == Width(p.in[1])
             both == p.kind \in {"inner", "cross"}
         IN  (IF both THEN {{p.on[i][1], ln + p.on[i][2]} : i \in DOMAIN p.on} ELSE {})
             \cup (IF both \/ p.kind = "left" THEN EqualColumns(p.in[1]) ELSE {})
             \cup (IF both \/ p.kind = "right"
                   THEN {{ln + c : c \in s} : s \in EqualColumns(p.in[2])} ELSE {})
    [] p.k \in {"filter", "sort", "limit", "limit_by", "distinct"} -> EqualColumns(p.in[1])
    [] OTHER -> {}

RECURSIVE Closure(_, _)
Closure(class, pairs) ==
  LET next == class \cup UNION {s \in pairs : s \cap class # {}}
  IN  IF next = class THEN class ELSE Closure(next, pairs)

\* mirrored: a one-column conjunct of one side, restated of its partner on the
\* other side.  me and you are the places of the two sides in an equi-pair; the
\* columns of a pair have one base type here, which the code asks for.
Mirrored(src, on, from, me, you, have) ==
  LET same == EqualColumns(from)
      Partner(c) == LET class == Closure(Cols(c), same)
                    IN  SelectSeq(on, LAMBDA pair : pair[me] \in class)
      Move(c) == LET to == Partner(c)[1][you]
                 IN  Subst(c, [i \in Cols(c) |-> Col(to)])
      can == SelectSeq(src, LAMBDA c : Cardinality(Cols(c)) = 1 /\ Partner(c) # <<>>)
      new == Dedup([i \in DOMAIN can |-> Move(can[i])])
  IN  SelectSeq(new, LAMBDA c : c \notin ToSet(have))

\* Mutant: an outer join's padded side takes the conjuncts about it as well.
BothSides(kind) == [left |-> TRUE, right |-> TRUE]

\* The sides of a join a WHERE conjunct may be evaluated on.
Takes(kind) == [left  |-> kind \in {"inner", "cross", "left"},
                right |-> kind \in {"inner", "cross", "right"}]

\* The sides that may be given a restated conjunct of the other.
Gives(kind) == [left  |-> kind \in {"inner", "cross", "right"},
                right |-> kind \in {"inner", "cross", "left"}]

\* A HAVING conjunct that may run on the input rows.
OverGroupKeys(p, c) ==
  /\ Deterministic(c)
  /\ \A i \in Cols(c) : i <= Len(p.group) /\ Deterministic(p.group[i])

RECURSIVE SinkFilter(_)
RECURSIVE SinkInto(_, _)

Below(p, cs) == IF cs = <<>> THEN p ELSE SinkFilter(Filter(p, JoinConjuncts(cs)))

SinkJoin(j, cs) ==
  LET l == j.in[1]
      r == j.in[2]
      ln == Width(l)
      flat == ln + Width(r) = j.w
      Side(c) == IF ~flat \/ ~Deterministic(c) THEN "none"
                 ELSE IF \A i \in Cols(c) : i <= ln THEN "left"
                 ELSE IF \A i \in Cols(c) : i > ln THEN "right" ELSE "none"
      goes(side) == SelectSeq(cs, LAMBDA c : Side(c) = side /\ Takes(j.kind)[side])
      lp == goes("left")
      rp == [i \in DOMAIN goes("right") |->
               Remap(goes("right")[i], [c \in Cols(goes("right")[i]) |-> c - ln])]
      keep == SelectSeq(cs, LAMBDA c : Side(c) = "none" \/ ~Takes(j.kind)[Side(c)])
      inner == j.kind \in {"inner", "cross"} /\ flat
      Spans(c) == /\ inner /\ c.k = "cmp" /\ c.o = "eq" /\ IsCol(c.args[1]) /\ IsCol(c.args[2])
                  /\ (c.args[1].v <= ln) # (c.args[2].v <= ln)
      Pair(c) == LET lo == Min({c.args[1].v, c.args[2].v})
                     hi == Max({c.args[1].v, c.args[2].v})
                 IN  <<lo, hi - ln>>
      keys == SelectSeq(keep, Spans)
      on == j.on \o [i \in DOMAIN keys |-> Pair(keys[i])]
      toR == IF Gives(j.kind).right THEN Mirrored(lp, on, l, 1, 2, rp) ELSE <<>>
      toL == IF Gives(j.kind).left THEN Mirrored(rp, on, r, 2, 1, lp) ELSE <<>>
      stays == SelectSeq(keep, LAMBDA c : ~Spans(c))
  IN  Above([j EXCEPT !.in = <<Below(l, lp \o toL), Below(r, rp \o toR)>>, !.on = on,
                      !.kind = IF @ = "cross" /\ on # <<>> THEN "inner" ELSE @],
            stays)

\* The filter's conjuncts, none of them constant, on an already sunk input.
SinkInto(p, cs) ==
  CASE p.k = "scan" -> [p EXCEPT !.filters = @ \o cs]
    [] p.k = "sort" -> [p EXCEPT !.in = <<SinkFilter(Filter(p.in[1], JoinConjuncts(cs)))>>]
    [] p.k = "project" ->
         LET Pass(c) == \A i \in Cols(c) : IsCol(p.exprs[i])
             down == SelectSeq(cs, Pass)
         IN  Above([p EXCEPT !.in = <<Below(p.in[1],
                      [i \in DOMAIN down |-> Subst(down[i], p.exprs)])>>],
                   SelectSeq(cs, LAMBDA c : ~Pass(c)))
    [] p.k = "join" -> SinkJoin(p, cs)
    [] p.k = "agg" ->
         LET down == SelectSeq(cs, LAMBDA c : OverGroupKeys(p, c))
         IN  Above([p EXCEPT !.in = <<Below(p.in[1],
                      [i \in DOMAIN down |-> Subst(down[i], p.group)])>>],
                   SelectSeq(cs, LAMBDA c : ~OverGroupKeys(p, c)))
    [] p.k \in {"union", "distinct"} ->
         LET down == SelectSeq(cs, Deterministic)
         IN  Above([p EXCEPT !.in = [i \in DOMAIN @ |-> Below(@[i], down)]],
                   SelectSeq(cs, LAMBDA c : ~Deterministic(c)))
    [] OTHER -> Filter(p, JoinConjuncts(cs))

SinkFilter(p) ==
  IF p.k # "filter" THEN [p EXCEPT !.in = [i \in DOMAIN p.in |-> SinkFilter(p.in[i])]]
  ELSE LET input == SinkFilter(p.in[1])
           cs == SplitConjuncts(p.pred)
           value == [i \in DOMAIN cs |-> ConstEval(cs[i])]
           kept == SelectSeq(cs, LAMBDA c : ConstEval(c) = NONE)
       IN  IF \E i \in DOMAIN cs : value[i] # NONE /\ ~True(value[i]) THEN Empty(Width(input))
           ELSE IF kept = <<>> THEN input ELSE SinkInto(input, kept)

PushDownFilters(p) == SinkFilter(p)

-----------------------------------------------------------------------------
(* extract_zone_filters and prune_projections.                             *)

Flip == [eq |-> "eq", ne |-> "ne", lt |-> "gt", le |-> "ge", gt |-> "lt", ge |-> "le"]
Zone(c, o, v) == [col |-> c, o |-> o, v |-> v]

\* as_zone_filter, as_zone_filter_upper.
ZonesOf(f) ==
  LET v == ToSet(f.list) \ {NULL}
  IN  CASE f.k = "cmp" /\ IsCol(f.args[1]) /\ IsLit(f.args[2]) ->
             IF f.args[2].v = NULL THEN <<>> ELSE <<Zone(f.args[1].v, f.o, f.args[2].v)>>
        [] f.k = "cmp" /\ IsLit(f.args[1]) /\ IsCol(f.args[2]) ->
             IF f.args[1].v = NULL THEN <<>> ELSE <<Zone(f.args[2].v, Flip[f.o], f.args[1].v)>>
        [] f.k = "in" /\ ~f.neg /\ IsCol(f.args[1]) /\ v # {} ->
             <<Zone(f.args[1].v, "ge", Min(v)), Zone(f.args[1].v, "le", Max(v))>>
        [] OTHER -> <<>>

ZoneNode(p) ==
  IF p.k # "scan" THEN p
  ELSE [p EXCEPT !.zones = FlattenSeq([i \in DOMAIN p.filters |-> ZonesOf(p.filters[i])])]

ExtractZoneFilters(p) == MapPlan(ZoneNode, p)

PruneScan(p) ==
  LET s == p.in[1]
      used == UNION {Cols(e) : e \in ToSet(p.exprs) \cup ToSet(s.filters)}
      needed == SetToSortSeq(used, <)
      At == [c \in used |-> CHOOSE i \in DOMAIN needed : needed[i] = c]
  IN  [p EXCEPT
        !.exprs = [i \in DOMAIN @ |-> Remap(@[i], At)],
        !.in = <<[s EXCEPT !.proj = [i \in DOMAIN needed |-> s.proj[needed[i]]],
                           !.filters = [i \in DOMAIN @ |-> Remap(@[i], At)],
                           !.zones = [i \in DOMAIN @ |-> [@[i] EXCEPT !.col = At[@]]]]>>]

RECURSIVE PruneProjections(_)
PruneProjections(p) ==
  IF p.k = "project" /\ p.in[1].k = "scan" THEN PruneScan(p)
  ELSE [p EXCEPT !.in = [i \in DOMAIN p.in |-> PruneProjections(p.in[i])]]

-----------------------------------------------------------------------------
(* reorder_joins.                                                          *)

Inner(p) == p.k = "join" /\ p.kind = "inner"

\* take: the leaves of a cluster, where each one's columns start, and the
\* equi-pairs and residuals in the cluster's own column numbers.
RECURSIVE Leaves(_)
Leaves(p) == IF Inner(p) THEN Leaves(p.in[1]) \o Leaves(p.in[2]) ELSE <<p>>

LeafWidth(leaves) == SumFunction([i \in DOMAIN leaves |-> Width(leaves[i])])

RECURSIVE Pairs(_, _)
Pairs(p, base) ==
  IF ~Inner(p) THEN <<>>
  ELSE LET rbase == base + LeafWidth(Leaves(p.in[1]))
       IN  Pairs(p.in[1], base) \o Pairs(p.in[2], rbase)
           \o [i \in DOMAIN p.on |-> <<base + p.on[i][1], rbase + p.on[i][2]>>]

RECURSIVE Residuals(_, _)
Residuals(p, base) ==
  IF ~Inner(p) THEN <<>>
  ELSE Residuals(p.in[1], base)
       \o Residuals(p.in[2], base + LeafWidth(Leaves(p.in[1])))
       \o (IF p.residual = TRUE1 THEN <<>>
           ELSE <<Remap(p.residual, [c \in Cols(p.residual) |-> base + c])>>)

Start(leaves, i) == LeafWidth(SubSeq(leaves, 1, i - 1))

\* survey: a cluster of 3 to 12 relations whose columns are those of its leaves.
Reorderable(p) == Inner(p) /\ Len(Leaves(p)) \in 3 .. 12 /\ p.w = LeafWidth(Leaves(p))

\* rebuild: left-deep in the given order; a pair or residual goes to the first
\* join that has all of its columns, and a Project restores the column order.
Rebuild(p, order) ==
  LET leaves == Leaves(p)
      pairs == Pairs(p, 0)
      conds == Residuals(p, 0)
      Of(i) == [c \in 1 .. Width(leaves[i]) |-> Start(leaves, i) + c]
      Index(have, c) == CHOOSE i \in DOMAIN have : have[i] = c
      Add1(acc, i) ==
        LET new == Of(i)
            now == acc.have \o new
            In1(c, s) == c \in ToSet(s)
            Fits(pr) == \/ In1(pr[1], acc.have) /\ In1(pr[2], new)
                        \/ In1(pr[2], acc.have) /\ In1(pr[1], new)
            Place(pr) == IF In1(pr[1], acc.have) THEN <<Index(acc.have, pr[1]), Index(new, pr[2])>>
                         ELSE <<Index(acc.have, pr[2]), Index(new, pr[1])>>
            on == SelectSeq(pairs, Fits)
            mine == SelectSeq(conds, LAMBDA e : Cols(e) \subseteq ToSet(now)
                                                 /\ ~(acc.joined /\ Cols(e) \subseteq ToSet(acc.have)))
            res == [j \in DOMAIN mine |-> Remap(mine[j], [c \in Cols(mine[j]) |-> Index(now, c)])]
        IN  [have |-> now, joined |-> TRUE,
             plan |-> Join(acc.plan, leaves[i], "inner", [j \in DOMAIN on |-> Place(on[j])],
                           IF res = <<>> THEN TRUE1 ELSE JoinConjuncts(res), Len(now))]
      first == [have |-> Of(order[1]), joined |-> FALSE, plan |-> leaves[order[1]]]
      done == FoldLeft(Add1, first, Tail(order))
  IN  Project(done.plan, [c \in 1 .. p.w |-> Col(Index(done.have, c))])

\* reorder_at with `pick` for the cost model: an order for a cluster of n.
RECURSIVE ReorderJoins(_, _)
ReorderJoins(p, pick) ==
  IF ~Inner(p) THEN [p EXCEPT !.in = [i \in DOMAIN p.in |-> ReorderJoins(p.in[i], pick)]]
  ELSE LET RECURSIVE Inside(_)
           Inside(x) == IF Inner(x) THEN [x EXCEPT !.in = <<Inside(x.in[1]), Inside(x.in[2])>>]
                        ELSE ReorderJoins(x, pick)
           q == Inside(p)
           n == Len(Leaves(q))
       IN  IF Reorderable(q) /\ n \in DOMAIN pick /\ pick[n] # [i \in 1 .. n |-> i]
           THEN Rebuild(q, pick[n]) ELSE q

-----------------------------------------------------------------------------
(* physical.rs lower: LIMIT 0 reads nothing, and a LIMIT tells the Sort it *)
(* reaches through projections how many rows to keep (fuse_top_k).  A Sort *)
(* that is worth it takes the number; here every one does.                 *)

FuseCount(p, n, m) == n + m

RECURSIVE FuseTopK(_, _)
FuseTopK(p, k) ==
  CASE p.k = "sort"    -> [p EXCEPT !.fetch = k]
    [] p.k = "project" -> [p EXCEPT !.in = <<FuseTopK(p.in[1], k)>>]
    [] OTHER           -> p

LowerNode(p) ==
  CASE p.k # "limit"    -> p
    [] p.limit = 0      -> Empty(Width(p.in[1]))
    [] p.limit = NULL   -> p
    [] OTHER            -> [p EXCEPT !.in = <<FuseTopK(p.in[1], FuseCount(p, p.limit, p.offset))>>]

Lower(p) == MapPlan(LowerNode, p)
=============================================================================
