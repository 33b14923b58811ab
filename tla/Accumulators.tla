---------------------------- MODULE Accumulators ----------------------------
(***************************************************************************)
(* The aggregate functions of exec/functions/agg.rs: one state per group   *)
(* that rows are folded into, that another state is merged into, and that  *)
(* can be asked for its answer at any time and more than once.             *)
(*                                                                         *)
(* A query folds one sequence of rows.  The rows are cut into consecutive  *)
(* stretches, each folded block by block into its own state, and the       *)
(* states are merged; HashAggregate does this per worker and per spilled   *)
(* partition, WindowOp asks for the answer between two blocks.  However    *)
(* the rows were cut, a state must answer for exactly the rows it stands   *)
(* for.                                                                    *)
(*                                                                         *)
(* A value is <<class, number>>.  Floats are exact integers rounded to     *)
(* Mantissa bits, with NaN, the infinities and a negative zero; the means  *)
(* of the variance functions are exact (their inputs are multiples of the  *)
(* row counts), as what is checked there is the algebra of the merge.      *)
(* Integers stay within 64 bits signed: above that Value::cmp goes through *)
(* a float (see Values), and min, max and argMin with it.                  *)
(***************************************************************************)
EXTENDS Floats, Sequences, SequencesExt, FiniteSets, FiniteSetsExt

CONSTANTS Plans,        \* [op, fn, ty, scale, cond, p, cap, rows]: see New
          MaxInt,       \* i64::MAX; u64::MAX is 2 * MaxInt + 1
          DecMax,       \* DECIMAL_MAX_UNITS
          MinScale,     \* DIV_MIN_SCALE, 6 digits
          WeightOne,    \* QUANTILE_WEIGHT_ONE
          Registers     \* HLL_M

VARIABLES plan, src, op, out, status

vars == <<plan, src, op, out, status>>

-----------------------------------------------------------------------------
(* Values.                                                                 *)
Null == <<"null", 0>>
Num(n) == <<"num", n>>
NaN == <<"nan", 0>>
Inf(s) == <<"inf", s>>
NegZero == <<"negz", 0>>
Huge == 1000            \* beyond every number of an instance

\* cmp_f64 and Ord for Value: NaN above all, the two zeros equal.
Rank(v) == CASE v[1] = "nan" -> 2 * Huge [] v[1] = "inf" -> v[2] * Huge [] OTHER -> v[2]

\* canon_f64: one bit pattern per value, for the sets and sketches of bits.
Canon(v) == IF v = NegZero THEN Num(0) ELSE v

\* f64_ord_key and i64_to_lane: an order on bits, where -0 is below 0.
Lane(v) == IF v = NegZero THEN -1 ELSE 2 * Rank(v)
Unlane(k) == CASE k = -1 -> NegZero [] k = 4 * Huge -> NaN [] k = 2 * Huge -> Inf(1)
               [] k = -2 * Huge -> Inf(-1) [] OTHER -> Num(k \div 2)

NumOf(v) == IF v[1] = "num" THEN v[2] ELSE 0
Finite(v) == v[1] \in {"num", "negz"}
FAdd(a, b) == CASE NaN \in {a, b} \/ (a[1] = "inf" /\ b[1] = "inf" /\ a # b) -> NaN
                [] a[1] = "inf" -> a [] b[1] = "inf" -> b
                [] OTHER -> Num(RoundF(NumOf(a) + NumOf(b)))
FNeg(a) == IF a[1] \in {"num", "inf"} THEN <<a[1], -a[2]>> ELSE IF a = NegZero THEN Num(0) ELSE a
FSub(a, b) == FAdd(a, FNeg(b))
FGeAbs(a, b) == NaN \notin {a, b} /\ AbsOf(Rank(a)) >= AbsOf(Rank(b))

-----------------------------------------------------------------------------
(* Rows and the selection of a block.  A row is [x, k, c]: the argument,   *)
(* the key of argMin and argMax, the condition of an -If function.         *)

\* each_valid: the selected rows whose column is not NULL.
Valid(rows, col) == SelectSeq(rows, LAMBDA r : r[col] # Null)

\* CondAcc::update: the rows whose condition is not NULL and not zero.
KeptIf(rows) == SelectSeq(Valid(rows, "c"), LAMBDA r : r.c # Num(0))

\* extreme_idx: the first row with the greatest, or least, value of a column.
Better(a, b, max) == IF max THEN Rank(a) > Rank(b) ELSE Rank(a) < Rank(b)
Extreme(rows, col, max) ==
    FoldLeft(LAMBDA best, r : IF best = <<>> \/ Better(r[col], best[1][col], max) THEN <<r>> ELSE best, <<>>, Valid(rows, col))

-----------------------------------------------------------------------------
(* sum and avg: SumState, SumCore.                                         *)
IsMax(fn) == fn \in {"max", "argMax"}
FloatFold == plan.ty = "float" \/ (plan.fn = "avg" /\ plan.ty # "dec")
NewCore == [t |-> 0, sum |-> Num(0), comp |-> Num(0), n |-> 0]

\* SumState::add_f64, Neumaier's compensated step.
AddF64(a, x) ==
    LET t == FAdd(a.sum, x)
        lost == IF FGeAbs(a.sum, x) THEN FAdd(FSub(a.sum, t), x) ELSE FAdd(FSub(x, t), a.sum)
    IN  [a EXCEPT !.sum = t, !.comp = FAdd(@, lost)]
CoreAdd(a, rows) ==
    FoldLeft(LAMBDA s, r : IF FloatFold THEN [AddF64(s, r.x) EXCEPT !.n = @ + 1]
                           ELSE [s EXCEPT !.t = @ + r.x[2], !.n = @ + 1], a, Valid(rows, "x"))
\* merge_core, and one that forgets what the other fold had set aside.
CoreMergeNoComp(a, b) ==
    IF FloatFold THEN [AddF64(a, b.sum) EXCEPT !.n = @ + b.n] ELSE [a EXCEPT !.t = @ + b.t, !.n = @ + b.n]
CoreMerge(a, b) ==
    IF FloatFold THEN [AddF64(a, b.sum) EXCEPT !.comp = FAdd(@, b.comp), !.n = @ + b.n]
    ELSE [a EXCEPT !.t = @ + b.t, !.n = @ + b.n]
AsF64(a) == IF Finite(a.sum) THEN FAdd(a.sum, a.comp) ELSE a.sum

\* Answers.  div_out_scale, div_round (half away from zero), fit_dec.
Answer(v) == <<"value", v>>
Fails == <<"error">>
Ratio(a, b) == <<"ratio", a, b>>
Dec(units, scale) == <<"dec", units, scale>>
OutScale(s) == IF s > MinScale THEN s ELSE MinScale
DivRound(num, den) ==
    LET q == AbsOf(num) \div den  r == AbsOf(num) % den
        m == IF 2 * r >= den THEN q + 1 ELSE q
    IN  IF num < 0 THEN -m ELSE m
FitDec(units, scale) == IF AbsOf(units) > DecMax THEN Fails ELSE Dec(units, scale)
FinishSum(a) ==
    CASE a.n = 0 -> Answer(Null)
      [] plan.ty = "dec" -> FitDec(a.t, plan.scale)
      [] FloatFold -> Answer(AsF64(a))
      [] plan.ty = "int" -> IF a.t \in (-MaxInt - 1) .. MaxInt THEN Answer(Num(a.t)) ELSE Fails
      [] OTHER -> IF a.t \in 0 .. (2 * MaxInt + 1) THEN Answer(Num(a.t)) ELSE Fails
FinishAvg(a) ==
    CASE a.n = 0 -> Answer(Null)
      [] plan.ty = "dec" -> LET os == OutScale(plan.scale)
                            IN  FitDec(DivRound(a.t * 10 ^ (os - plan.scale), a.n), os)
      [] OTHER -> Ratio(AsF64(a), a.n)

-----------------------------------------------------------------------------
(* min, max, any, anyLast, argMin, argMax.                                 *)
Offer(best, r, col) == IF best = <<>> \/ Better(r[col], best[1][col], IsMax(plan.fn)) THEN <<r>> ELSE best
OfferAll(best, rows, col) ==
    LET e == Extreme(rows, col, IsMax(plan.fn)) IN IF e = <<>> THEN best ELSE Offer(best, e[1], col)
FirstOf(best, rows) == IF best # <<>> \/ rows = <<>> THEN best ELSE <<Head(rows)>>
LastOf(best, rows) == IF rows = <<>> THEN best ELSE <<Last(rows)>>
FinishOne(best) == Answer(IF best = <<>> THEN Null ELSE best[1].x)

-----------------------------------------------------------------------------
(* uniqExact and uniq.  The hash of a value is given: a register and the   *)
(* length of a run of zeros.                                               *)
Distinct(xs) == {Canon(xs[i].x) : i \in DOMAIN xs}
Hashed(v) == LET n == Rank(Canon(v)) + 2 * Huge IN <<n % Registers, 1 + (n % 3)>>
HllAdd(regs, v) == LET h == Hashed(v) IN [regs EXCEPT ![h[1]] = IF h[2] > @ THEN h[2] ELSE @]
HllMerge(a, b) == [i \in DOMAIN a |-> IF b[i] > a[i] THEN b[i] ELSE a[i]]

-----------------------------------------------------------------------------
(* groupArray, with its cap; quantile, quantileExact and median.           *)
Room(items) == IF plan.cap > Len(items) THEN plan.cap - Len(items) ELSE 0
Capped(items, more) == items \o SubSeq(more, 1, Min({Room(items), Len(more)}))
FinishList(items) == IF items = <<>> THEN Answer(Null) ELSE <<"list", items>>

\* nth_pair: the lane of rank lo and the least of those above it.
NthPair(v, lo, hi) == LET s == SortSeq(v, <) IN IF hi = lo THEN <<s[lo + 1], s[lo + 1]>> ELSE <<s[lo + 1], Min({s[i] : i \in (lo + 2) .. Len(s)})>>
Interpolates == plan.fn # "quantileExact"
\* answer: p is plan.p / WeightOne, so that rank, position and weight are exact.
RankOf(n) == Min({(plan.p * n) \div WeightOne, n - 1})
FinishQuantile(v) ==
    LET n  == Len(v)
        lo == (plan.p * (n - 1)) \div WeightOne
        w  == (plan.p * (n - 1)) % WeightOne
        pair == NthPair(v, lo, Min({lo + 1, n - 1}))
        a  == Unlane(pair[1])
        b  == Unlane(pair[2])
        step == FSub(b, a)
    IN  IF v = <<>> THEN Answer(Null)
        ELSE IF ~Interpolates
             THEN LET k == Unlane(NthPair(v, RankOf(n), RankOf(n))[1])
                  IN  IF plan.ty = "dec" THEN Dec(k[2], plan.scale) ELSE Answer(k)
        ELSE IF plan.ty = "dec"
             THEN LET os == OutScale(plan.scale)
                      m  == 10 ^ (os - plan.scale)
                  IN  FitDec(DivRound(a[2] * m * WeightOne + (b[2] - a[2]) * m * w, WeightOne), os)
        ELSE IF Finite(a) /\ Finite(b) THEN Ratio(Num(NumOf(a) * WeightOne + NumOf(step) * w), WeightOne)
        ELSE Answer(IF step = NaN \/ (w = 0 /\ ~Finite(step)) THEN NaN ELSE FAdd(a, step))

-----------------------------------------------------------------------------
(* varPop, varSamp, stddevPop, stddevSamp: Welford, and Chan's merge.      *)
NewWelford == [n |-> 0, mean |-> 0, m2 |-> 0]
WelfordPush(a, x) ==
    LET n == a.n + 1  delta == x - a.mean  mean == a.mean + (delta \div n)
    IN  [n |-> n, mean |-> mean, m2 |-> a.m2 + delta * (x - mean)]
WelfordMerge(a, b) ==
    LET n == a.n + b.n  delta == b.mean - a.mean
    IN  IF b.n = 0 THEN a ELSE IF a.n = 0 THEN b
        ELSE [n |-> n, mean |-> a.mean + ((delta * b.n) \div n),
              m2 |-> a.m2 + b.m2 + ((delta * delta * a.n * b.n) \div n)]
Sample == plan.fn \in {"varSamp", "stddevSamp"}
FinishVar(a) == LET denom == IF Sample THEN a.n - 1 ELSE a.n
                IN  IF denom < 1 THEN Answer(Null) ELSE Ratio(Num(a.m2), denom)

-----------------------------------------------------------------------------
(* The trait: new and boxed_clone, update, merge, finish.                  *)
Sums == {"sum", "avg"}
Arg == {"argMin", "argMax"}
Kept == {"min", "max", "any", "anyLast"} \cup Arg
Quantiles == {"quantile", "quantileExact", "median"}
Variances == {"varPop", "varSamp", "stddevPop", "stddevSamp"}
Names == {"count", "uniq", "uniqExact", "groupArray"} \cup Sums \cup Kept \cup Quantiles \cup Variances

New == CASE plan.fn = "count" -> 0 [] plan.fn \in Sums -> NewCore
         [] plan.fn = "uniqExact" -> {} [] plan.fn = "uniq" -> [i \in 0 .. (Registers - 1) |-> 0]
         [] plan.fn \in Variances -> NewWelford [] OTHER -> <<>>

Fold(a, rows) ==
    LET xs == Valid(rows, "x") IN
    CASE plan.fn = "count" -> a + Len(IF plan.star THEN rows ELSE xs)
      [] plan.fn \in Sums -> CoreAdd(a, rows)
      [] plan.fn \in {"min", "max"} -> OfferAll(a, rows, "x")
      [] plan.fn \in Arg -> OfferAll(a, rows, "k")
      [] plan.fn = "any" -> FirstOf(a, xs)
      [] plan.fn = "anyLast" -> LastOf(a, xs)
      [] plan.fn = "uniqExact" -> a \cup Distinct(xs)
      [] plan.fn = "uniq" -> FoldLeft(LAMBDA g, r : HllAdd(g, r.x), a, xs)
      [] plan.fn = "groupArray" -> Capped(a, [i \in DOMAIN xs |-> xs[i].x])
      [] plan.fn \in Quantiles -> a \o [i \in DOMAIN xs |-> Lane(xs[i].x)]
      [] OTHER -> FoldLeft(LAMBDA w, r : WelfordPush(w, r.x[2]), a, xs)

UpdateAcc(a, rows) == LET kept == IF plan.cond THEN KeptIf(rows) ELSE rows IN IF plan.cond /\ kept = <<>> THEN a ELSE Fold(a, kept)

MergeAcc(a, b) ==
    CASE plan.fn = "count" -> a + b
      [] plan.fn \in Sums -> CoreMerge(a, b)
      [] plan.fn \in {"min", "max"} -> IF b = <<>> THEN a ELSE Offer(a, b[1], "x")
      [] plan.fn \in Arg -> IF b = <<>> THEN a ELSE Offer(a, b[1], "k")
      [] plan.fn = "any" -> FirstOf(a, b)
      [] plan.fn = "anyLast" -> LastOf(a, b)
      [] plan.fn = "uniqExact" -> a \cup b
      [] plan.fn = "uniq" -> HllMerge(a, b)
      [] plan.fn = "groupArray" -> Capped(a, b)
      [] plan.fn \in Quantiles -> a \o b
      [] OTHER -> WelfordMerge(a, b)

FinishAcc(a) ==
    CASE plan.fn = "count" -> Answer(Num(a))
      [] plan.fn = "sum" -> FinishSum(a) [] plan.fn = "avg" -> FinishAvg(a)
      [] plan.fn \in Kept -> FinishOne(a)
      [] plan.fn = "uniqExact" -> Answer(Num(Cardinality(a)))
      [] plan.fn = "uniq" -> <<"estimate", a>>
      [] plan.fn = "groupArray" -> FinishList(a)
      [] plan.fn \in Quantiles -> FinishQuantile(a)
      [] OTHER -> FinishVar(a)

-----------------------------------------------------------------------------
(* Binding: the arguments a function takes (need_args, need_numeric,       *)
(* need_predicate, quantile_p) and the scale it declares, ret_sum to ret_var.  *)
Accepted ==
    /\ plan.ty = "text" => plan.fn \notin Sums \cup Quantiles \cup Variances
    /\ plan.fn \in Quantiles => plan.p \in 0 .. WeightOne
    /\ plan.cond => plan.condty # "text"
RetScale == CASE plan.ty # "dec" -> 0
              [] plan.fn = "avg" \/ (plan.fn \in Quantiles /\ Interpolates) -> OutScale(plan.scale)
              [] OTHER -> plan.scale

-----------------------------------------------------------------------------
Init == /\ plan \in Plans
        /\ src = plan.rows
        /\ op = <<>>
        /\ out = <<>>
        /\ status = "running"

Running == status = "running" /\ plan.op = "accumulate"

Refuse == /\ Running /\ ~Accepted
          /\ status' = "failed"
          /\ UNCHANGED <<plan, src, op, out>>

\* A state for the rows from here on: new for the first, boxed_clone after.
Open == /\ Running /\ Accepted /\ src # <<>> /\ Len(op) < 3
        /\ op' = Append(op, [acc |-> New, seen |-> <<>>])
        /\ UNCHANGED <<plan, src, out, status>>

\* A block of n rows.
Update(n) == /\ Running /\ op # <<>> /\ n \in 1 .. Len(src)
             /\ op' = [op EXCEPT ![Len(op)] = [acc |-> UpdateAcc(@.acc, SubSeq(src, 1, n)), seen |-> @.seen \o SubSeq(src, 1, n)]]
             /\ src' = SubSeq(src, n + 1, Len(src))
             /\ UNCHANGED <<plan, out, status>>

\* The later state is merged into the earlier one.
Merge(i) == /\ Running /\ src = <<>> /\ i \in 1 .. (Len(op) - 1)
            /\ op' = [j \in 1 .. (Len(op) - 1) |->
                       IF j < i THEN op[j]
                       ELSE IF j = i THEN [acc |-> MergeAcc(op[i].acc, op[i + 1].acc), seen |-> op[i].seen \o op[i + 1].seen]
                       ELSE op[j + 1]]
            /\ UNCHANGED <<plan, src, out, status>>

Next == Refuse \/ Open \/ (\E n \in 1 .. Len(plan.rows) : Update(n)) \/ (\E i \in 1 .. 2 : Merge(i))

Spec == Init /\ [][Next]_vars

-----------------------------------------------------------------------------
(* What a function means, over the rows a state stands for.                *)
Counted(rows) == SelectSeq(rows, LAMBDA r : plan.cond => r.c \notin {Null, Num(0)})
Args(rows, col) == SelectSeq(Counted(rows), LAMBDA r : r[col] # Null)
Xs(rows) == [i \in DOMAIN Args(rows, "x") |-> Args(rows, "x")[i].x]
Total(xs) == FoldLeft(LAMBDA s, x : s + NumOf(x), 0, xs)
Least(rows, col, max) == {i \in DOMAIN rows : \A j \in DOMAIN rows : ~Better(rows[j][col], rows[i][col], max)}

\* Within one unit in the last place of the exact total; NaN and infinities as IEEE 754 adds them.
SumIs(v, xs) ==
    LET odd == {x \in Range(xs) : ~Finite(x)} IN
    IF odd # {} THEN v = (IF Cardinality(odd) = 1 THEN CHOOSE x \in odd : TRUE ELSE NaN)
    ELSE Finite(v) /\ AbsOf(NumOf(v) - Total(xs)) =< Ulp(Total(xs))

\* The nearest number of units, halves away from zero.
Nearest(u, num, den) == /\ 2 * AbsOf(u * den - num) =< den
                        /\ 2 * AbsOf(u * den - num) = den => AbsOf(u) * den > AbsOf(num)

DecIs(a, num, den) ==
    IF 2 * AbsOf(num) >= (2 * DecMax + 1) * den THEN a = Fails
    ELSE a[1] = "dec" /\ a[3] = RetScale /\ Nearest(a[2], num, den)

QuantileIs(a, xs) ==
    LET s == SortSeq(xs, LAMBDA x, y : Lane(x) < Lane(y))
        n == Len(s)
        at == plan.p * (n - 1)
        lo == s[(at \div WeightOne) + 1]
        hi == s[Min({(at \div WeightOne) + 2, n})]
        w  == at % WeightOne
        m  == 10 ^ (RetScale - plan.scale)
    IN  IF ~Interpolates
        THEN LET x == s[Min({(plan.p * n) \div WeightOne, n - 1}) + 1]
             IN  a = (IF plan.ty = "dec" THEN Dec(x[2], plan.scale) ELSE Answer(x))
        ELSE IF plan.ty = "dec" THEN DecIs(a, m * (lo[2] * (WeightOne - w) + hi[2] * w), WeightOne)
        ELSE Finite(lo) /\ Finite(hi) => a = Ratio(Num(NumOf(lo) * (WeightOne - w) + NumOf(hi) * w), WeightOne)

VarIs(a, xs) ==
    LET n == Len(xs)
        d == n * FoldLeft(LAMBDA s, x : s + x[2] * x[2], 0, xs) - Total(xs) * Total(xs)
    IN  IF n = 0 \/ (Sample /\ n = 1) THEN a = Answer(Null)
        ELSE a[1] = "ratio" /\ a[2][2] * n = d /\ a[3] = (IF Sample THEN n - 1 ELSE n)

Means(a, rows) ==
    LET xs == Xs(rows)
        ks == Args(rows, "k")
        n  == Len(xs)
    IN  CASE plan.fn = "count" -> a = Answer(Num(IF plan.star THEN Len(Counted(rows)) ELSE n))
          [] plan.fn = "uniqExact" -> a = Answer(Num(Cardinality({Rank(x) : x \in Range(xs)})))
          [] plan.fn = "uniq" -> \A i \in 0 .. (Registers - 1) :
                  a[2][i] = Max({0} \cup {Hashed(x)[2] : x \in {y \in Range(xs) : Hashed(y)[1] = i}})
          [] plan.fn \in Arg -> IF ks = <<>> THEN a = Answer(Null)
                                ELSE a = Answer(ks[Min(Least(ks, "k", IsMax(plan.fn)))].x)
          [] n = 0 -> a = Answer(Null)
          [] plan.fn = "sum" /\ plan.ty = "dec" -> DecIs(a, Total(xs), 1)
          [] plan.fn = "sum" /\ plan.ty = "float" -> a[1] = "value" /\ SumIs(a[2], xs)
          [] plan.fn = "sum" -> LET fits == IF plan.ty = "int" THEN (-MaxInt - 1) .. MaxInt ELSE 0 .. (2 * MaxInt + 1)
                                IN  a = (IF Total(xs) \in fits THEN Answer(Num(Total(xs))) ELSE Fails)
          [] plan.fn = "avg" /\ plan.ty = "dec" -> DecIs(a, Total(xs) * 10 ^ (RetScale - plan.scale), n)
          [] plan.fn = "avg" -> a[1] = "ratio" /\ a[3] = n /\ SumIs(a[2], xs)
          [] plan.fn \in {"min", "max"} -> a = Answer(Args(rows, "x")[Min(Least(Args(rows, "x"), "x", IsMax(plan.fn)))].x)
          [] plan.fn = "any" -> a = Answer(Head(xs))
          [] plan.fn = "anyLast" -> a = Answer(Last(xs))
          [] plan.fn = "groupArray" -> IF plan.cap = 0 THEN a = Answer(Null) ELSE a = <<"list", SubSeq(xs, 1, Min({plan.cap, n}))>>
          [] plan.fn \in Quantiles -> QuantileIs(a, xs)
          [] OTHER -> VarIs(a, xs)

\* However its rows were cut into blocks and states, an accumulator answers
\* what its function means over those rows, in the type the binder declared,
\* and is an error exactly when the exact answer does not fit (Accumulator,
\* "error; never saturate, never wrap").
AccumulatorAnswer == Running => \A i \in DOMAIN op : Means(FinishAcc(op[i].acc), op[i].seen)
=============================================================================
