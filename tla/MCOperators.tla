---------------------------- MODULE MCOperators ----------------------------
(***************************************************************************)
(* The query operators on small inputs.  The operator modules are over the *)
(* same five variables and each acts only on its own queries, so that one  *)
(* run covers them all.                                                    *)
(***************************************************************************)
EXTENDS Integers, Sequences, SequencesExt, FiniteSets

CONSTANTS BlockSize, GallopAfter, FanIn, MaxLevel, RowsPerProbe, Claim

VARIABLES plan, src, op, out, status

-----------------------------------------------------------------------------
(* Streams: every pair of inputs of at most two blocks of at most two rows. *)
Blocks == BoundedSeq({0, 1}, 2)
Branches == BoundedSeq(Blocks, 2)
Short == {<<b>> : b \in Blocks}

Stream == [op |-> "filter", limit |-> 9, offset |-> 0, all |-> TRUE,
           pred |-> <<>>, exprs |-> <<>>, input |-> <<>>]

Columns == {<<"column", <<1>>>>, <<"column", <<2>>>>, <<"call", <<2, 1>>>>}

StreamPlans ==
  {[Stream EXCEPT !.op = o, !.all = a, !.input = <<l>> \o r] :
     o \in {"union", "intersect", "except"}, a \in BOOLEAN, l \in Branches,
     r \in {<<>>} \cup {<<x>> : x \in Short} \cup {<<x, <<b>>>> : x \in Short, b \in {<<0>>, <<0, 1>>}}}
  \cup {[Stream EXCEPT !.op = "limit", !.limit = n, !.offset = m, !.input = <<l>>] :
          n \in {0, 1, 2, 9}, m \in 0 .. 2, l \in Branches}
  \cup {[Stream EXCEPT !.op = o, !.limit = n, !.input = <<l>>] :
          o \in {"limit_by", "distinct", "values"}, n \in 0 .. 2, l \in Branches}
  \cup {[Stream EXCEPT !.op = "filter", !.pred = p, !.input = <<l>>] :
          p \in [{0, 1} -> {"true", "false", "null"}], l \in Branches}
  \cup {[Stream EXCEPT !.op = "project", !.exprs = e, !.input = <<<<<<"a", "b">>>>>>] :
          e \in UNION {[1 .. n -> Columns] : n \in 1 .. 3}}

-----------------------------------------------------------------------------
(* Aggregates: two workers of two one-row blocks, one of four; three hashes. *)
KeyRows == {[k |-> k, v |-> 1] : k \in 0 .. 2} \cup {[k |-> 1, v |-> 2]}
TwoBlocks == {<<<<a>>, <<b>>>> : a \in KeyRows, b \in KeyRows}
GroupKeys == {<<>>} \cup {<<k>> : k \in 0 .. 2} \cup ((0 .. 2) \X (1 .. 2))

HashBy(h) == [g \in GroupKeys |-> IF g = <<>> THEN 0
                                  ELSE IF Len(g) = 1 THEN h[g[1] + 1]
                                  ELSE (h[g[1] + 1] + g[2]) % 4]
Hashes == {HashBy(<<0, 0, 0>>), HashBy(<<0, 1, 2>>), HashBy(<<1, 2, 3>>)}

Grouped == [op |-> "aggregate", keyed |-> TRUE, sets |-> <<>>, fleet |-> TRUE,
            hash |-> HashBy(<<0, 0, 0>>), input |-> <<>>]

AggregatePlans ==
  {[Grouped EXCEPT !.hash = h, !.input = <<a, b>>] : h \in Hashes, a \in TwoBlocks, b \in TwoBlocks}
  \cup {[Grouped EXCEPT !.hash = h, !.fleet = f, !.input = <<a \o b>>] :
          h \in Hashes, a \in TwoBlocks, b \in TwoBlocks, f \in BOOLEAN}
  \cup {[Grouped EXCEPT !.hash = h, !.sets = s, !.fleet = f, !.input = <<a>>] :
          h \in Hashes, s \in {<<TRUE, FALSE>>, <<TRUE, TRUE>>, <<FALSE>>}, a \in TwoBlocks, f \in BOOLEAN}
  \cup {[Grouped EXCEPT !.keyed = FALSE, !.input = <<a, b>>] :
          a \in TwoBlocks \cup {<<>>}, b \in TwoBlocks \cup {<<>>}}

-----------------------------------------------------------------------------
(* Sorts: four rows, the block lengths of each worker given by a shape.     *)
Keyed4(shape, keys) ==
  LET Sum(s) == FoldLeft(LAMBDA a, b : a + b, 0, s)
      At(w, b, i) == Sum(FlattenSeq(SubSeq(shape, 1, w - 1))) + Sum(SubSeq(shape[w], 1, b - 1)) + i
  IN  [w \in DOMAIN shape |-> [b \in DOMAIN shape[w] |-> [i \in 1 .. shape[w][b] |->
         [k |-> keys[At(w, b, i)], id |-> At(w, b, i)]]]]

OneKey  == [1 .. 4 -> {<<0>>, <<1>>, <<2>>}]
TwoKeys == [1 .. 4 -> {<<1, 0>>, <<0, 1>>, <<1, 1>>}]
ByOne   == {<<[asc |-> a, nulls_first |-> n]>> : a \in BOOLEAN, n \in BOOLEAN}
ByTwo   == {<<[asc |-> a, nulls_first |-> n], [asc |-> ~a, nulls_first |-> n]>> :
              a \in BOOLEAN, n \in BOOLEAN}

Sorting == [op |-> "sort", input |-> <<>>, keys |-> <<>>, fetch |-> 99, fleet |-> FALSE]

SortPlans ==
  {[Sorting EXCEPT !.input = Keyed4(s, k), !.keys = by, !.fetch = f] :
     s \in {<<<<1, 1, 1, 1>>>>, <<<<1, 2, 0, 1>>>>}, k \in OneKey, by \in ByOne, f \in {0, 2, 99}}
  \cup {[Sorting EXCEPT !.input = Keyed4(<<<<2, 1, 1>>>>, k), !.keys = by, !.fetch = f] :
          k \in TwoKeys, by \in ByTwo \cup {<<>>}, f \in {2, 99}}
  \cup {[Sorting EXCEPT !.input = Keyed4(s, k), !.keys = by, !.fetch = f, !.fleet = TRUE] :
          s \in {<<<<2>>, <<2>>>>, <<<<3>>, <<1>>>>, <<<<1>>, <<3>>>>, <<<<1>>, <<1>>, <<2>>>>},
          k \in OneKey, by \in ByOne, f \in {1, 3, 99}}

-----------------------------------------------------------------------------
(* Joins: at most three rows against two.                                   *)
Side(ks, base) == [i \in DOMAIN ks |-> <<[k |-> ks[i], id |-> base + i]>>]
Keys2 == UNION {[1 .. n -> 0 .. 2] : n \in 0 .. 2}
Keys3 == {<<1, 2, 1>>, <<0, 1, 2>>, <<2, 2, 1>>, <<1>>, <<0>>}
Pairs == (1 .. 3) \X (11 .. 13)
Unique(ks) == \A i, j \in DOMAIN ks : ks[i] # 0 /\ (i # j => ks[i] # ks[j])

Joining == [op |-> "join", input |-> <<>>, kind |-> "inner", residual |-> Pairs,
            hash |-> <<0, 1>>, keyed |-> 0, laned |-> TRUE, cap |-> 1]

JoinPlans ==
  {[Joining EXCEPT !.input = <<Side(a, 0), Side(b, 10)>>, !.kind = k, !.residual = res, !.hash = h] :
     a \in Keys3, b \in Keys2, k \in {"inner", "left", "right", "full", "cross"},
     res \in {Pairs, {x \in Pairs : x[1] + 10 # x[2]}}, h \in {<<0, 1>>, <<2, 0>>}}
  \cup {[Joining EXCEPT !.input = <<Side(a, 0), Side(b, 10)>>, !.kind = k, !.keyed = 2, !.laned = la] :
          a \in Keys2, b \in {x \in Keys2 : Unique(x)}, k \in {"inner", "left", "full"}, la \in BOOLEAN}
  \cup {[Joining EXCEPT !.input = <<Side(b, 0), Side(a, 10)>>, !.kind = k, !.keyed = 1, !.laned = la] :
          a \in Keys2, b \in {x \in Keys2 : Unique(x)}, k \in {"inner", "right"}, la \in BOOLEAN}

-----------------------------------------------------------------------------
(* Windows: every legal frame over inputs cut inside partitions and peers.  *)
Bound(b, k) == [b |-> b, k |-> k]
WRow(p, o, v) == [p |-> p, o |-> o, v |-> v]
WindowInputs ==
  {<<<<WRow(1, 1, 1), WRow(1, 1, 10)>>, <<WRow(1, 2, 100)>>,
     <<WRow(2, 2, 1000), WRow(2, 2, 10000), WRow(3, 1, 100000)>>>>,
   <<<<WRow(1, 1, 1)>>, <<>>, <<WRow(1, 2, 10), WRow(2, 2, 100)>>, <<WRow(2, 3, 1000)>>,
     <<WRow(2, 3, 10000)>>>>,
   <<<<WRow(1, 1, 1)>>, <<WRow(1, 2, 10)>>, <<WRow(1, 2, 100), WRow(1, 3, 1000)>>,
     <<WRow(1, 4, 10000)>>>>,
   <<<<>>>>}

Order(b) == CASE b = "up" -> 0 [] b = "prec" -> 1 [] b = "cur" -> 2 [] b = "foll" -> 3 [] b = "uf" -> 4

Starts == {Bound("up", 0), Bound("prec", 0), Bound("prec", 2), Bound("cur", 0), Bound("foll", 1)}
Ends   == {Bound("prec", 1), Bound("cur", 0), Bound("foll", 0), Bound("foll", 2), Bound("uf", 0)}
Frames == {<<u, s, e>> \in {"rows", "range"} \X Starts \X Ends :
             /\ Order(s.b) <= Order(e.b)
             /\ u = "range" => {s.b, e.b} \subseteq {"up", "cur", "uf"}}

WindowPlans ==
  {[op |-> "window", input |-> i, ordered |-> o, func |-> f, units |-> fr[1], start |-> fr[2],
    end |-> fr[3], offset |-> 2, degree |-> d] :
     i \in WindowInputs, o \in BOOLEAN, f \in {"sum", "first_value", "last_value", "nth_value"},
     fr \in Frames, d \in {1, 3}}
  \cup {[op |-> "window", input |-> i, ordered |-> o, func |-> f, units |-> "range",
         start |-> Bound("up", 0), end |-> Bound("uf", 0), offset |-> k, degree |-> d] :
          i \in WindowInputs, o \in BOOLEAN, k \in 1 .. 3, d \in {1, 2},
          f \in {"row_number", "rank", "dense_rank", "percent_rank", "cume_dist", "ntile", "lag", "lead"}}

-----------------------------------------------------------------------------
(* Scans: parts with duplicate keys across granules, nulls and deletes.     *)
SRow(k, v) == [k |-> k, v |-> v]
Pred(c, cmp, v) == [col |-> c, cmp |-> cmp, val |-> v, list |-> {}]
PredIn(c, l) == [col |-> c, cmp |-> "in", val |-> 0, list |-> l]
PredOr(c, l) == [PredIn(c, l) EXCEPT !.cmp = "or"]
G1 == <<SRow(1, 0), SRow(2, 5)>>
G2 == <<SRow(2, 6), SRow(3, 0)>>
G3 == <<SRow(3, 5), SRow(3, 7)>>
G4 == <<SRow(5, 0), SRow(6, 0)>>
Tables == {<<<<<<G1, G2>>, <<G3, G4>>>>, <<{}, {}>>>>,
           <<<<<<G1, G2>>, <<G3, G4>>>>, <<{<<1, 2>>, <<2, 2>>}, {<<1, 1>>}>>>>,
           <<<<<<G3, G4>>, <<G1>>>>, <<{}, {<<1, 1>>}>>>>,
           <<<<<<>>, <<G4>>>>, <<{}, {<<1, 1>>, <<1, 2>>}>>>>,
           <<<<>>, <<>>>>}
Filters == {<<>>, <<Pred("k", "eq", 3)>>, <<PredIn("k", {0, 2, 3})>>, <<PredIn("k", {0})>>,
            <<PredOr("k", {1, 3})>>, <<PredIn("v", {0, 6, 7})>>,
            <<Pred("k", "le", 2)>>, <<Pred("k", "lt", 3)>>, <<Pred("k", "gt", 2), Pred("k", "ne", 3)>>,
            <<Pred("v", "ge", 6)>>, <<Pred("v", "ne", 5)>>, <<PredIn("k", {3, 5}), Pred("v", "lt", 6)>>,
            <<Pred("k", "ge", 3)>>, <<Pred("k", "eq", 3), Pred("v", "eq", 7)>>}
Wants == {<<"rows", "k">>, <<"ordered", "k">>, <<"count", "k">>} \cup ({"min", "max"} \X {"k", "v"})

ScanPlans ==
  {[op |-> "scan", parts |-> t[1], dels |-> t[2], keyed |-> kd, pending |-> pe, filters |-> f,
    want |-> w[1], col |-> w[2], workers |-> n] :
     t \in Tables, kd \in BOOLEAN, pe \in BOOLEAN, f \in Filters, w \in Wants, n \in {1, 2}}

-----------------------------------------------------------------------------
(* Budgets: three workers, or two that outgrow the limit.                   *)
BudgetPlans ==
  {[op |-> "budget", limit |-> 4, disk |-> d, asks |-> a] :
     d \in {0, 3}, a \in {<<<<2, 1, 4>>, <<3>>, <<1, 2>>>>, <<<<4, 5>>, <<2, 2, 3>>>>}}

-----------------------------------------------------------------------------
(* Accumulators: up to four rows, cut into up to three states.  i64::MAX is *)
(* 6, a float has three bits, 12 units are the most a decimal holds, and    *)
(* the variances are over multiples of 12, whose means are exact.           *)
N(n) == <<"num", n>>
Nil == <<"null", 0>>
Nan == <<"nan", 0>>
PInf == <<"inf", 1>>
NZero == <<"negz", 0>>

Fold == [op |-> "accumulate", fn |-> "sum", ty |-> "int", scale |-> 0, star |-> FALSE,
         cond |-> FALSE, condty |-> "int", p |-> 0, cap |-> 9, rows |-> <<>>]

RowsOf(cells, n) == {[i \in DOMAIN s |-> [x |-> s[i][1], k |-> s[i][2], c |-> s[i][3]]] :
                       s \in BoundedSeq(cells, n) \ {<<>>}}
Cells(xs) == xs \X {Nil} \X {N(1)}
Units == Cells({N(-3), N(2), N(5)})
Odd == Cells({N(0), N(1), Nan, PInf, <<"inf", -1>>, NZero, Nil})
ArgCells == {<<Nil, N(1), N(1)>>, <<N(1), N(1), N(1)>>, <<N(2), N(1), N(1)>>, <<N(2), Nil, N(1)>>, <<N(1), Nan, N(1)>>}

FoldPlans ==
  {[Fold EXCEPT !.fn = f, !.rows = r] : f \in {"sum", "avg"}, r \in RowsOf(Cells({Nil, N(-4), N(3)}), 4)}
  \cup {[Fold EXCEPT !.ty = "uint", !.rows = r] : r \in RowsOf(Cells({Nil, N(3), N(5)}), 3)}
  \cup {[Fold EXCEPT !.fn = f, !.ty = "dec", !.scale = s, !.rows = r] : f \in {"sum", "avg"}, s \in {5, 6}, r \in RowsOf(Units, 3)}
  \cup {[Fold EXCEPT !.ty = "float", !.rows = r] : r \in RowsOf(Cells({N(1), N(-7), N(14), N(6)}), 4)}
  \cup {[Fold EXCEPT !.fn = f, !.ty = "float", !.rows = r] :
           f \in {"sum", "min", "max", "any", "anyLast", "uniq", "uniqExact", "count"},
           r \in RowsOf(Odd, 2) \cup RowsOf(Cells({Nan, PInf, Nil, N(1)}), 3)}
  \cup {[Fold EXCEPT !.fn = f, !.rows = r] : f \in {"argMin", "argMax"}, r \in RowsOf(ArgCells, 3)}
  \cup {[Fold EXCEPT !.fn = "groupArray", !.cap = c, !.rows = r] : c \in {0, 2, 9}, r \in RowsOf(Cells({Nil, N(1), N(2)}), 3)}
  \cup {[Fold EXCEPT !.fn = f, !.cond = TRUE, !.star = (f = "count"), !.condty = t, !.rows = r] :
           f \in {"count", "sum", "any", "max"}, t \in {"int", "text"},
           r \in RowsOf({Nil, N(-1), N(2)} \X {Nil} \X {Nil, N(0), N(1)}, 2)}
  \cup {[Fold EXCEPT !.fn = f, !.p = p, !.ty = "float", !.rows = r] :
           f \in {"quantile", "quantileExact"}, p \in 0 .. 5, r \in RowsOf(Cells({NZero, N(0), N(3), PInf}), 3)}
  \cup {[Fold EXCEPT !.fn = f, !.p = 2, !.ty = "dec", !.scale = s, !.rows = r] :
           f \in {"median", "quantileExact"}, s \in {5, 6}, r \in RowsOf(Units, 3)}
  \cup {[Fold EXCEPT !.fn = f, !.rows = r] :
           f \in {"varPop", "varSamp", "stddevPop", "stddevSamp"}, r \in RowsOf(Cells({Nil, N(12), N(-24)}), 4)}
  \cup {[Fold EXCEPT !.fn = f, !.ty = "text", !.rows = r] : f \in {"sum", "min"}, r \in RowsOf(Cells({N(1), N(2)}), 2)}

-----------------------------------------------------------------------------
(* Values: i64::MAX is 15, a float has three bits, decimals have at most    *)
(* two binary places.  A column holds the ends of its range and what lies   *)
(* around the numbers a float cannot tell apart.                            *)
VTy(b) == [base |-> b, scale |-> -1, nullable |-> FALSE]
VDec(s) == [base |-> "dec", scale |-> s, nullable |-> FALSE]
VNaN == 2 * 16 * 4 * 31

Lanes(t) == CASE t.base = "bool"  -> <<0, 1>>
              [] t.base = "uint"  -> <<0, 1, 9, 15, 16, 17, 31>>
              [] t.base = "int"   -> <<-16, -1, 0, 1, 8, 9, 15>>
              [] t.base = "dec"   -> <<-15, -2, 0, 1, 4, 9, 15>>
              [] t.base = "float" -> <<-64, -2, 0, 4, 32, 64, VNaN \div 2, VNaN>>
              [] t.base = "str"   -> <<0, 1, 2>>
              [] t.base = "date"  -> <<0, 1, 15>>
VTypes == {VTy("bool"), VTy("uint"), VTy("int"), VTy("float"), VDec(0), VDec(2)}
Comparable == (VTypes \X VTypes) \cup {<<VTy("str"), VTy("str")>>}
VVal(t, n) == <<t.base, n, IF t.base = "dec" THEN t.scale ELSE 0>>
ValuesOf(t) == {VVal(t, Lanes(t)[i]) : i \in DOMAIN Lanes(t)}

VCol(t, d, n) == [ok |-> TRUE, ty |-> [t EXCEPT !.nullable = (n # {})], data |-> d, nulls |-> n]
Lit(v, t) == [lit |-> TRUE, v |-> v, ty |-> t]
Col(c) == [lit |-> FALSE, col |-> c]
NullIn == {{}, {1, 3}}
Cmps == {"eq", "ne", "lt", "le", "gt", "ge"}

\* Every lane of one type beside every lane of the other.
LeftLanes(t, u) == [i \in 1 .. Len(Lanes(t)) * Len(Lanes(u)) |-> Lanes(t)[((i - 1) \div Len(Lanes(u))) + 1]]
RightLanes(t, u) == [i \in 1 .. Len(Lanes(t)) * Len(Lanes(u)) |-> Lanes(u)[((i - 1) % Len(Lanes(u))) + 1]]

Comparing(o, l, r, n) == [op |-> "value", kind |-> "compare", cmp |-> o, l |-> l, r |-> r, n |-> n]
Full(t, n) == VCol(t, Lanes(t), n \cap DOMAIN Lanes(t))
LitsOf(u) == ValuesOf(u) \cup {<<"null", 0, 0>>}

VBits(s) == VCol(VTy("bool"), [i \in DOMAIN s |-> IF s[i] = "t" THEN 1 ELSE 0], {i \in DOMAIN s : s[i] = "n"})
Conds == {VBits(s) : s \in [1 .. 2 -> {"t", "f", "n"}]}
Arms(n) == {VCol(VTy("int"), <<n, n + 1>>, m) : m \in {{}, {1}, {1, 2}}}
Lists == BoundedSeq({<<"int", 0, 0>>, <<"int", 9, 0>>, <<"uint", 1, 0>>, <<"uint", 16, 0>>, <<"uint", 15, 0>>,
                     <<"dec", 4, 2>>, <<"dec", 9, 2>>, <<"float", 32, 0>>, <<"float", 64, 0>>, <<"null", 0, 0>>}, 2)
Meetable == (UNION {ValuesOf(t) : t \in VTypes \cup {VTy("str"), VTy("date"), VDec(1)}}) \cup {<<"null", 0, 0>>}

ValuePlans ==
  {Comparing(o, Col(VCol(p[1], LeftLanes(p[1], p[2]), n)), Col(VCol(p[2], RightLanes(p[1], p[2]), m)),
             Len(Lanes(p[1])) * Len(Lanes(p[2]))) : o \in Cmps, p \in Comparable, n \in NullIn, m \in {{2, 3}}}
  \cup UNION {{Comparing(o, Col(Full(p[1], n)), Lit(v, p[2]), Len(Lanes(p[1]))) :
                  o \in Cmps, n \in {{}}, v \in LitsOf(p[2])} : p \in Comparable}
  \cup UNION {{Comparing(o, Lit(v, p[2]), Col(Full(p[1], n)), Len(Lanes(p[1]))) :
                  o \in Cmps, n \in {{1}}, v \in LitsOf(p[2])} : p \in Comparable}
  \cup {[op |-> "value", kind |-> "in", col |-> VCol(t, d, n), list |-> l, negated |-> g] :
           t \in {VTy("int"), VTy("uint"), VDec(2)}, d \in {<<0, 1, 9>>, <<15, 4, 8>>}, n \in {{}, {2}}, l \in Lists, g \in BOOLEAN}
  \cup {[op |-> "value", kind |-> "in", col |-> VCol(VTy("uint"), <<0, 16, 17>>, {}), list |-> l, negated |-> g] :
           l \in Lists, g \in BOOLEAN}
  \cup {[op |-> "value", kind |-> "in", col |-> VCol(VTy("str"), <<0, 1, 2>>, n), list |-> l, negated |-> g] :
           n \in {{}, {2}}, l \in BoundedSeq({<<"str", 0, 0>>, <<"str", 2, 0>>, <<"null", 0, 0>>, <<"int", 1, 0>>}, 2), g \in BOOLEAN}
  \cup {[op |-> "value", kind |-> "case", arms |-> <<[when |-> w, then |-> x], [when |-> v, then |-> y]>>, els |-> e,
          ty |-> VTy("int"), n |-> 2] :
           w \in Conds, v \in Conds, x \in Arms(1), y \in Arms(3), e \in {<<>>} \cup {<<z>> : z \in Arms(5)}}
  \cup {[op |-> "value", kind |-> "cast", col |-> VCol(t, <<Lanes(t)[i], Lanes(t)[j]>>, n), ty |-> u] :
           t \in VTypes, i \in 1 .. 2, j \in 1 .. 2, u \in VTypes \cup {VTy("date"), VDec(1)}, n \in {{}, {1}}}
  \cup {[op |-> "value", kind |-> "cast", col |-> VCol(t, <<Lanes(t)[i]>>, {}), ty |-> u] :
           t \in VTypes \ {VTy("bool")}, i \in 3 .. 7, u \in VTypes \cup {VTy("date"), VDec(1)}}
  \cup {[op |-> "value", kind |-> "meet", a |-> a, b |-> b] : a \in Meetable, b \in Meetable}
  \cup {[op |-> "value", kind |-> "probe", v |-> v, ty |-> t] :
           v \in {v \in Meetable : v[1] \notin {"null", "str"}} \cup {<<"float", 6, 0>>, <<"float", 28, 0>>},
           t \in {VTy("uint"), VTy("int"), VTy("float"), VTy("date"), VDec(0), VDec(1), VDec(2)}}

-----------------------------------------------------------------------------
S == INSTANCE Streams   WITH Row <- {0, 1}, Plans <- StreamPlans
A == INSTANCE Aggregate WITH Val <- {1, 2}, Plans <- AggregatePlans
O == INSTANCE SortOp    WITH Plans <- SortPlans
J == INSTANCE JoinOp    WITH Plans <- JoinPlans
W == INSTANCE WindowOp  WITH Plans <- WindowPlans
T == INSTANCE ScanOp    WITH Plans <- ScanPlans
B == INSTANCE Budget    WITH Plans <- BudgetPlans
F == INSTANCE Accumulators WITH Plans <- FoldPlans, MaxInt <- 6, DecMax <- 12, MinScale <- 6,
                                WeightOne <- 4, Mantissa <- 3, Registers <- 2
V == INSTANCE Values    WITH Plans <- ValuePlans, MaxI <- 15, DecMax <- 15, Mantissa <- 3

Init == S!Init \/ A!Init \/ O!Init \/ J!Init \/ W!Init \/ T!Init \/ B!Init \/ F!Init \/ V!Init

Next == \/ plan.op \notin {"aggregate", "sort", "join", "window", "scan", "budget", "accumulate", "value"} /\ S!Next
        \/ plan.op = "aggregate" /\ A!Next
        \/ plan.op = "sort"      /\ O!Next
        \/ plan.op = "join"      /\ J!Next
        \/ plan.op = "window"    /\ W!Next
        \/ plan.op = "scan"      /\ T!Next
        \/ plan.op = "budget"    /\ B!Next
        \/ plan.op = "accumulate" /\ F!Next
        \/ plan.op = "value"     /\ V!Next
=============================================================================
