------------------------------- MODULE Values -------------------------------
(***************************************************************************)
(* Values, their order and their hash (types/value.rs), and the kernels    *)
(* that compare, search, choose and cast whole columns without ever        *)
(* building a value (exec/expr.rs).                                        *)
(*                                                                         *)
(* One comparison is answered in several places: Cmp::run on lanes, with   *)
(* the literal unsplatted and the operands perhaps exchanged; eval_cmp and *)
(* eval_cmp_decimal on two columns; Value::cmp where the constant folder,  *)
(* IN, DISTINCT and the key probes need it; and Value::hash has to agree   *)
(* with it.  They must give one answer.                                    *)
(*                                                                         *)
(* A value is <<variant, number, scale>>.  An integer has MaxI for         *)
(* i64::MAX.  A float is a count of quarters rounded to Mantissa bits, so  *)
(* that integers above 2^Mantissa are inexact and MaxI rounds up; NaN and  *)
(* the infinities are counts above all others.  A decimal of scale s       *)
(* counts units of 2^-s, in the place of 10^-s.  A string is its position  *)
(* in the order of the strings.                                            *)
(***************************************************************************)
EXTENDS Floats, Sequences, SequencesExt, FiniteSets, FiniteSetsExt

CONSTANTS Plans,        \* [op, kind, ...]: see the actions
          MaxI,         \* i64::MAX, one less than a power of two
          DecMax        \* DECIMAL_MAX_UNITS

VARIABLES plan, src, op, out, status

vars == <<plan, src, op, out, status>>

MinI == -MaxI - 1
MaxU == 2 * MaxI + 1
Unit == 4               \* quarters in one
Inf == 16 * Unit * MaxU
NaN == 2 * Inf

Ord(a, b) == IF a < b THEN -1 ELSE IF a > b THEN 1 ELSE 0

-----------------------------------------------------------------------------
(* Values.  A conversion that may fail is a set of at most one number.      *)
Null == <<"null", 0, 0>>
IsNull(v) == v[1] = "null"
IsFloat(v) == v[1] = "float"
Pow(s) == 2 ^ s         \* POW10

F(n) == RoundF(n * Unit)                                   \* n as f64
Trunc(q) == IF q < 0 THEN -((-q) \div Unit) ELSE q \div Unit
Within(q, lo, hi) == AbsOf(q) < Inf /\ lo =< q /\ q =< hi
Clamp(n, lo, hi) == IF n < lo THEN lo ELSE IF n > hi THEN hi ELSE n

AsI64(v) ==
  CASE v[1] = "float" -> {Clamp(Trunc(q), MinI, MaxI) : q \in {q \in {v[2]} : Within(q, F(MinI), F(MaxI))}}
    [] v[1] \in {"null", "str"} -> {}
    [] OTHER -> {n \in {v[2]} : n =< MaxI}

AsU64(v) ==
  CASE v[1] = "float" -> {Clamp(Trunc(q), 0, MaxU) : q \in {q \in {v[2]} : Within(q, 0, F(MaxU))}}
    [] v[1] \in {"null", "str"} -> {}
    [] OTHER -> {n \in {v[2]} : n >= 0}

AsF64(v) ==
  CASE v[1] = "float" -> {v[2]}
    [] v[1] = "dec" -> {F(v[2]) \div Pow(v[3])}
    [] v[1] \in {"null", "str"} -> {}
    [] OTHER -> {F(v[2])}

The(s) == CHOOSE n \in s : TRUE

Rank(v) == CASE v[1] = "null" -> 0 [] v[1] = "date" -> 2 [] v[1] = "datetime" -> 3 [] v[1] = "str" -> 4 [] OTHER -> 1

\* IEEE comparisons, false on a NaN, and the total order made from them.
Lt(a, b) == NaN \notin {a, b} /\ a < b
Eq(a, b) == NaN \notin {a, b} /\ a = b
TotalCmp(a, b) == CASE Lt(a, b) -> -1 [] Lt(b, a) -> 1 [] Eq(a, b) -> 0
                    [] OTHER -> IF a = NaN /\ b = NaN THEN 0 ELSE IF a = NaN THEN 1 ELSE -1

FloatCmp(a, b) == LET Or(s) == IF s = {} THEN NaN ELSE The(s)
                  IN  TotalCmp(Or(AsF64(a)), Or(AsF64(b)))

\* The units and scale a side has exactly, if it has.
Parts(v) == IF v[1] = "dec" THEN {<<v[2], v[3]>>}
            ELSE IF IsFloat(v) THEN {} ELSE {<<i, 0>> : i \in AsI64(v)}

CmpDecimal(a, b) ==
  IF Parts(a) = {} \/ Parts(b) = {} THEN FloatCmp(a, b)
  ELSE LET x == The(Parts(a))  y == The(Parts(b))  hi == Max({x[2], y[2]})
       IN  Ord(x[1] * Pow(hi - x[2]), y[1] * Pow(hi - y[2]))

(* Ord for Value.                                                           *)
CmpValue(a, b) ==
  LET ra == Rank(a)  rb == Rank(b) IN
  CASE a[1] = "str" /\ b[1] = "str" -> Ord(a[2], b[2])
    [] "dec" \in {a[1], b[1]} /\ {ra, rb} \subseteq 1 .. 3 -> CmpDecimal(a, b)
    [] OTHER ->
         IF 0 \in {ra, rb} \/ 4 \in {ra, rb} THEN Ord(ra, rb)
         ELSE IF AsI64(a) # {} /\ AsI64(b) # {} /\ ~IsFloat(a) /\ ~IsFloat(b)
              THEN Ord(The(AsI64(a)), The(AsI64(b)))
              ELSE FloatCmp(a, b)

\* A hash that keeps the types of temporal values apart.
HashByType(v) == IF v[1] \in {"date", "datetime"} THEN <<v[1], v[2]>> ELSE
  CASE v[1] = "null" -> <<"null", 0>>
    [] v[1] = "str"  -> <<"str", v[2]>>
    [] OTHER -> <<"bits", The(AsF64(v))>>

(* Hash for Value: what is fed to the hasher.                               *)
HashOf(v) ==
  CASE v[1] = "null" -> <<"null", 0>>
    [] v[1] = "str"  -> <<"str", v[2]>>
    [] v[1] = "dec"  -> IF v[2] % Pow(v[3]) = 0 THEN <<"int", v[2] \div Pow(v[3])>>
                        ELSE <<"bits", The(AsF64(v))>>
    [] OTHER -> LET f == The(AsF64(v))
                IN  IF Within(f, F(MinI), F(MaxI)) /\ f % Unit = 0 /\ AsI64(v) # {}
                    THEN <<"int", The(AsI64(v))>> ELSE <<"bits", f>>

-----------------------------------------------------------------------------
(* Types, casts and columns.  A column's lanes are raw: the type says what  *)
(* they count, and a row under the null mask still has one.                 *)
Ty(b) == [base |-> b, scale |-> -1, nullable |-> FALSE]
Dec(s) == [base |-> "dec", scale |-> s, nullable |-> FALSE]
Nullable(t) == [t EXCEPT !.nullable = TRUE]
SameBase(t, u) == t.base = u.base /\ t.scale = u.scale

Phys(t) == CASE t.base \in {"bool", "uint", "date"} -> "U64"
             [] t.base \in {"int", "datetime", "dec"} -> "I64"
             [] t.base = "float" -> "F64"
             [] t.base = "str" -> "Str"

IntBounds(t) == CASE t.base = "uint" -> <<0, MaxU>> [] t.base = "bool" -> <<0, 1>>
                  [] t.base = "date" -> <<0, MaxI>> [] OTHER -> <<MinI, MaxI>>

\* decimal_rescale: half away from zero.
Rescale(u, from, to) ==
  IF to >= from THEN u * Pow(to - from)
  ELSE LET d == Pow(from - to)  q == AbsOf(u) \div d  r == AbsOf(u) % d
           m == IF 2 * r >= d THEN q + 1 ELSE q
       IN  IF u < 0 THEN -m ELSE m

\* A quarter is a unit of scale 2.
ToDecimalUnits(v, s) ==
  LET units == CASE v[1] = "dec" -> {Rescale(v[2], v[3], s)}
                 [] IsFloat(v)   -> {Rescale(q, 2, s) : q \in {q \in {v[2]} : AbsOf(q) < Inf}}
                 [] OTHER -> LET n == IF AsI64(v) # {} THEN AsI64(v) ELSE AsU64(v)
                             IN  {Rescale(i, 0, s) : i \in n}
  IN  {u \in units : AbsOf(u) =< DecMax}

DivTowardZero(u, p) == IF u < 0 THEN -((-u) \div p) ELSE u \div p

(* Value::cast_to of a value that is not NULL, nor a string.                *)
CastTo(v, t) ==
  CASE t.base = "dec" -> {<<"dec", u, t.scale>> : u \in ToDecimalUnits(v, t.scale)}
    [] t.base = "float" -> {<<"float", f, 0>> : f \in AsF64(v)}
    [] OTHER ->
         LET n == CASE IsFloat(v) -> {Trunc(q) : q \in {q \in {v[2]} : AbsOf(q) < Inf}}
                    [] v[1] = "dec" -> {DivTowardZero(v[2], Pow(v[3]))}
                    [] OTHER -> IF AsI64(v) # {} THEN AsI64(v) ELSE AsU64(v)
         IN  {<<t.base, i, 0>> : i \in {i \in n : IntBounds(t)[1] =< i /\ i =< IntBounds(t)[2]}}

Column(t, d, n) == [ok |-> TRUE, ty |-> IF n = {} THEN t ELSE Nullable(t), data |-> d, nulls |-> n]
Err == [ok |-> FALSE]
Rows(c) == DOMAIN c.data

\* Column::value.
ValueAt(c, i) == IF i \in c.nulls THEN Null
                 ELSE <<c.ty.base, c.data[i], IF c.ty.base = "dec" THEN c.ty.scale ELSE 0>>

\* as_u64, as_i64, as_f64 or the text, by the physical kind.
LaneIn(p, v) == CASE p = "U64" -> AsU64(v) [] p = "I64" -> AsI64(v) [] p = "F64" -> AsF64(v)
                  [] p = "Str" -> {v[2]}

\* Column::constant.
Constant(t, v, n) ==
  IF IsNull(v) THEN Column(t, [i \in 1 .. n |-> 0], 1 .. n)
  ELSE LET k == LaneIn(Phys(t), v)
       IN  IF k = {} THEN Err ELSE Column(t, [i \in 1 .. n |-> The(k)], {})

-----------------------------------------------------------------------------
(* Comparison.  KeepMask is the orderings an operator keeps.                *)
KeepMask(o) == CASE o = "eq" -> {0} [] o = "ne" -> {-1, 1} [] o = "lt" -> {-1}
                 [] o = "le" -> {-1, 0} [] o = "gt" -> {1} [] o = "ge" -> {0, 1}

Flip(o) == CASE o = "lt" -> "gt" [] o = "gt" -> "lt" [] o = "le" -> "ge" [] o = "ge" -> "le" [] OTHER -> o

Bit(b) == IF b THEN 1 ELSE 0
BoolColumn(bits, nulls) == Column(Ty("bool"), bits, nulls)

IntLanes == {"U64", "I64"}

\* eval_cmp for two lanes, and for lanes that count different units.
OrdLanes(p, q, x, y) ==
  CASE p \in IntLanes /\ q \in IntLanes -> Ord(x, y)
    [] p = "F64" /\ q = "F64" -> TotalCmp(x, y)
    [] p = "Str" /\ q = "Str" -> Ord(x, y)
    [] q = "F64" -> TotalCmp(F(x), y)
    [] p = "F64" -> TotalCmp(x, F(y))

ScaleOf(t) == IF t.scale = -1 THEN 0 ELSE t.scale

OrdDecimal(l, r, x, y) ==
  LET hi == Max({ScaleOf(l), ScaleOf(r)}) IN
  CASE Phys(r) = "F64" -> TotalCmp(F(x) \div Pow(ScaleOf(l)), y)
    [] Phys(l) = "F64" -> TotalCmp(x, F(y) \div Pow(ScaleOf(r)))
    [] OTHER -> Ord(x * Pow(hi - ScaleOf(l)), y * Pow(hi - ScaleOf(r)))

EvalCmp(o, l, r) ==
  LET ord(i) == IF l.ty.scale # r.ty.scale THEN OrdDecimal(l.ty, r.ty, l.data[i], r.data[i])
                ELSE OrdLanes(Phys(l.ty), Phys(r.ty), l.data[i], r.data[i])
  IN  BoolColumn([i \in Rows(l) |-> Bit(ord(i) \in KeepMask(o))], l.nulls \cup r.nulls)

(* The fast path: <<less, equal, greater>> for a lane against a lane, or    *)
(* against a literal, whose NaN and whose range are settled once.           *)
Plainly(x, y) == <<x < y, x = y, x > y>>
Constantly(ord) == <<ord = -1, ord = 0, ord = 1>>

LaneLane(p, q, x, y) ==
  CASE p = "F64" /\ q = "F64" -> <<Lt(x, y) \/ (y = NaN /\ x # NaN), Eq(x, y) \/ {x, y} = {NaN},
                                   Lt(y, x) \/ (x = NaN /\ y # NaN)>>
    [] p = "F64" /\ q \in IntLanes -> <<Lt(x, F(y)), Eq(x, F(y)), Lt(F(y), x) \/ x = NaN>>
    [] p \in IntLanes /\ q = "F64" -> <<Lt(F(x), y) \/ y = NaN, Eq(F(x), y), Lt(y, F(x))>>
    [] OTHER -> Plainly(x, y)

F64Lit(x, k) == IF k = NaN THEN <<x # NaN, x = NaN, FALSE>>
                ELSE <<Lt(x, k), Eq(x, k), Lt(k, x) \/ x = NaN>>

\* An unsigned lane met by a negative literal, read as unsigned.
LaneLitWrapping(p, q, x, k) ==
  CASE p = "U64" /\ q = "I64" -> Plainly(x, k % (MaxU + 1))
    [] p = "F64" /\ q = "F64" -> F64Lit(x, k)
    [] p = "F64" -> F64Lit(x, F(k))
    [] q = "F64" -> IF k = NaN THEN Constantly(-1) ELSE <<Lt(F(x), k), Eq(F(x), k), Lt(k, F(x))>>
    [] OTHER -> Plainly(x, k)

LaneLit(p, q, x, k) ==
  CASE p = "F64" /\ q = "F64" -> F64Lit(x, k)
    [] p = "F64" /\ q \in IntLanes -> F64Lit(x, F(k))
    [] p \in IntLanes /\ q = "F64" ->
         IF k = NaN THEN Constantly(-1) ELSE <<Lt(F(x), k), Eq(F(x), k), Lt(k, F(x))>>
    [] p = "U64" /\ q = "I64" -> IF k < 0 THEN Constantly(1) ELSE Plainly(x, k)
    [] p = "I64" /\ q = "U64" -> IF k > MaxI THEN Constantly(-1) ELSE Plainly(x, k)
    [] OTHER -> Plainly(x, k)

Six(o, t) == CASE o = "lt" -> t[1] [] o = "eq" -> t[2] [] o = "gt" -> t[3]
               [] o = "ge" -> ~t[1] [] o = "ne" -> ~t[2] [] o = "le" -> ~t[3]

\* Rhs::of: NULL and a literal of another scale are left to the general path.
RhsOf(l, x) ==
  LET k == LaneIn(Phys(x.ty), x.v)
  IN  IF IsNull(x.v) \/ l.ty.scale # x.ty.scale THEN [kind |-> "raw", v |-> x.v, ty |-> x.ty]
      ELSE IF k = {} THEN [kind |-> "bad"]
      ELSE [kind |-> "lit", k |-> The(k), v |-> x.v, ty |-> x.ty]

\* An operand is a column or a literal; eval_at splats the latter.
Splat(x, n) == IF x.lit THEN Constant(x.ty, x.v, n) ELSE x.col

Prepare(o, l, r, n) ==
  IF r.lit THEN [cmp |-> o, l |-> Splat(l, n), r |-> RhsOf(Splat(l, n), r), flipped |-> FALSE]
  ELSE IF l.lit THEN [cmp |-> Flip(o), l |-> r.col, r |-> RhsOf(r.col, l), flipped |-> TRUE]
  ELSE [cmp |-> o, l |-> l.col, r |-> [kind |-> "col", col |-> r.col], flipped |-> FALSE]

CmpNulls(c) == IF c.r.kind = "col" THEN c.l.nulls \cup c.r.col.nulls ELSE c.l.nulls

CanRun(c) == \/ c.r.kind = "col" /\ c.l.ty.scale = c.r.col.ty.scale
             \/ c.r.kind = "lit"

RunRow(c, i) ==
  Six(c.cmp, IF c.r.kind = "col" THEN LaneLane(Phys(c.l.ty), Phys(c.r.col.ty), c.l.data[i], c.r.col.data[i])
             ELSE LaneLit(Phys(c.l.ty), Phys(c.r.ty), c.l.data[i], c.r.k))

Cold(c, n) ==
  LET r == IF c.r.kind = "col" THEN c.r.col ELSE Constant(c.r.ty, c.r.v, n)
  IN  IF ~r.ok THEN Err
      ELSE IF c.flipped THEN EvalCmp(Flip(c.cmp), r, c.l) ELSE EvalCmp(c.cmp, c.l, r)

\* eval_binary with the specialisations, and without.
EvalPrepared(c, n) ==
  IF c.r.kind = "bad" THEN Err
  ELSE IF CanRun(c) THEN BoolColumn([i \in 1 .. n |-> Bit(RunRow(c, i))], CmpNulls(c))
  ELSE Cold(c, n)

EvalFast(o, l, r, n) == EvalPrepared(Prepare(o, l, r, n), n)

EvalGeneral(o, l, r, n) ==
  LET a == Splat(l, n)  b == Splat(r, n)
  IN  IF a.ok /\ b.ok THEN EvalCmp(o, a, b) ELSE Err

\* predicate_at: the rows where the expression is TRUE.
Truthy(c) == {i \in Rows(c) \ c.nulls : c.data[i] # 0}

PredicatePrepared(c, n) ==
  LET Or(e) == IF e.ok THEN Truthy(e) ELSE {}
  IN  IF c.r.kind # "bad" /\ CanRun(c) THEN {i \in (1 .. n) \ CmpNulls(c) : RunRow(c, i)}
      ELSE Or(EvalPrepared(c, n))

CmpPredicate(o, l, r, n) == PredicatePrepared(Prepare(o, l, r, n), n)

-----------------------------------------------------------------------------
(* IN.  found says whether a row that is not NULL is in the list.           *)
IsInteger(t) == t.base \in {"int", "uint"}
HasNull(list) == \E i \in DOMAIN list : IsNull(list[i])
Probes(list) == {list[i] : i \in DOMAIN list} \ {Null}

InAnswer(c, list, negated, found(_)) ==
  LET hit == {i \in Rows(c) \ c.nulls : found(i)}
  IN  BoolColumn([i \in Rows(c) |-> IF i \in c.nulls \/ (i \notin hit /\ HasNull(list)) THEN 0
                                    ELSE Bit((i \in hit) # negated)],
                 c.nulls \cup (IF HasNull(list) THEN Rows(c) \ hit ELSE {}))

\* int_probes, or none of them.
IntProbes(list) ==
  IF \E v \in Probes(list) : v[1] \in {"float", "dec", "str"} \/ AsI64(v) = {} THEN {}
  ELSE {{The(AsI64(v)) : v \in Probes(list)}}

InGeneral(c, list, negated) ==
  InAnswer(c, list, negated, LAMBDA i : \E v \in Probes(list) : CmpValue(v, ValueAt(c, i)) = 0)

InTyped(c, list) ==
  \/ /\ IsInteger(c.ty) /\ IntProbes(list) # {}
     /\ Phys(c.ty) = "U64" => \A i \in Rows(c) : c.data[i] =< MaxI
  \/ c.ty.base = "str"

InFast(c, list, negated) ==
  IF ~InTyped(c, list) THEN InGeneral(c, list, negated)
  ELSE LET probes == IF c.ty.base = "str" THEN {v[2] : v \in {v \in Probes(list) : v[1] = "str"}}
                     ELSE The(IntProbes(list))
       IN  InAnswer(c, list, negated, LAMBDA i : c.data[i] \in probes)

-----------------------------------------------------------------------------
(* CASE: claim_rows gives each row to the first arm whose condition is      *)
(* TRUE, gather_pick reads it there.  The binder has cast the arms to one   *)
(* type.                                                                    *)
Pick(arms, els, i) ==
  LET true == {k \in DOMAIN arms : i \in Truthy(arms[k].when)}
  IN  IF true # {} THEN Min(true) ELSE IF els # <<>> THEN Len(arms) + 1 ELSE 0

EvalCase(arms, els, t, n) ==
  LET from == [k \in DOMAIN arms |-> arms[k].then] \o els
      pick == [i \in 1 .. n |-> Pick(arms, els, i)]
      null == {i \in 1 .. n : pick[i] = 0 \/ (pick[i] # 0 /\ i \in from[pick[i]].nulls)}
  IN  Column(t, [i \in 1 .. n |-> IF i \in null THEN 0 ELSE from[pick[i]].data[i]], null)

(* CAST: a relabel within one base type, else row by row.                   *)
EvalCast(c, t) ==
  IF SameBase(c.ty, t) THEN Column(t, c.data, c.nulls)
  ELSE LET lane(i) == UNION {LaneIn(Phys(t), v) : v \in CastTo(ValueAt(c, i), t)}
       IN  IF \E i \in Rows(c) \ c.nulls : lane(i) = {} THEN Err
           ELSE Column(t, [i \in Rows(c) |-> IF i \in c.nulls THEN 0 ELSE The(lane(i))], c.nulls)

-----------------------------------------------------------------------------
(* The stored lane a literal names.  to_lane_phys is lossy, exact_lane      *)
(* decodes the lane again and compares.  An I64 lane has its sign flipped.  *)
SignFlip(n) == n + MaxI + 1

ToLane(v, t) ==
  CASE t.base = "dec" -> {SignFlip(u) : u \in ToDecimalUnits(v, t.scale)}
    [] t.base # "dec" /\ v[1] = "dec" /\ Phys(t) \in IntLanes ->
         LET whole == {n \in {v[2] \div Pow(v[3])} : v[2] % Pow(v[3]) = 0}
         IN  IF Phys(t) = "U64" THEN {n \in whole : n >= 0} ELSE {SignFlip(n) : n \in whole}
    [] OTHER -> IF Phys(t) = "I64" THEN {SignFlip(n) : n \in AsI64(v)} ELSE LaneIn(Phys(t), v)

FromLane(l, t) == <<t.base, IF Phys(t) = "I64" THEN l - MaxI - 1 ELSE l, ScaleOf(t)>>

ExactLane(v, t) == {l \in ToLane(v, t) : /\ Phys(t) = "F64" => AbsOf(l) < Inf
                                         /\ CmpValue(FromLane(l, t), v) = 0}

-----------------------------------------------------------------------------
Init == /\ plan \in Plans
        /\ src = <<>> /\ op = <<>> /\ out = <<>>
        /\ status = "running"

Answering(kind, answer) == /\ status = "running" /\ plan.op = "value" /\ plan.kind = kind
                           /\ out' = answer /\ status' = "done"
                           /\ UNCHANGED <<plan, src, op>>

(* A comparison in a projection, in a filter, and on the general path.      *)
EvalBinary == Answering("compare",
                [fast    |-> EvalFast(plan.cmp, plan.l, plan.r, plan.n),
                 sel     |-> CmpPredicate(plan.cmp, plan.l, plan.r, plan.n),
                 general |-> EvalGeneral(plan.cmp, plan.l, plan.r, plan.n)])

EvalInList == Answering("in", [fast    |-> InFast(plan.col, plan.list, plan.negated),
                               general |-> InGeneral(plan.col, plan.list, plan.negated)])

Case == Answering("case", EvalCase(plan.arms, plan.els, plan.ty, plan.n))

Cast == Answering("cast", EvalCast(plan.col, plan.ty))

(* Two values met by a hash table, a sort or a folded comparison.           *)
Meet == Answering("meet", [ord  |-> CmpValue(plan.a, plan.b),
                           back |-> CmpValue(plan.b, plan.a),
                           hash |-> <<HashOf(plan.a), HashOf(plan.b)>>])

Probe == Answering("probe", ExactLane(plan.v, plan.ty))

Next == EvalBinary \/ EvalInList \/ Case \/ Cast \/ Meet \/ Probe

Spec == Init /\ [][Next]_vars

-----------------------------------------------------------------------------
(* What the answers mean.  Numbers compare exactly; a float on either side  *)
(* makes both floats, with NaN above all; NULL makes NULL.                  *)
Exact(v) == CASE v[1] = "dec" -> (v[2] * Unit) \div Pow(v[3])
              [] v[1] = "float" -> v[2]
              [] OTHER -> v[2] * Unit

MeansOrd(a, b) == CASE a[1] = "str" /\ b[1] = "str" -> Ord(a[2], b[2])
                    [] (a[1] = "str") # (b[1] = "str") -> Ord(Rank(a), Rank(b))
                    [] IsFloat(a) \/ IsFloat(b) -> Ord(The(AsF64(a)), The(AsF64(b)))
                    [] OTHER -> Ord(Exact(a), Exact(b))

Truth(b) == IF b THEN "true" ELSE "false"
MeansCmp(o, a, b) == IF IsNull(a) \/ IsNull(b) THEN "null" ELSE Truth(MeansOrd(a, b) \in KeepMask(o))

MeansIn(v, list, negated) ==
  IF IsNull(v) THEN "null"
  ELSE IF \E x \in Probes(list) : MeansOrd(v, x) = 0 THEN Truth(~negated)
  ELSE IF HasNull(list) THEN "null" ELSE Truth(negated)

Said(c, i) == IF i \in c.nulls THEN "null" ELSE Truth(c.data[i] # 0)

OperandAt(x, i) == IF x.lit THEN x.v ELSE ValueAt(x.col, i)

\* Value::cmp goes through f64 for an unsigned value above i64::MAX, where
\* neighbours are one number.  The comparison kernels do not.
Wide(v) == v[1] = "uint" /\ v[2] > MaxI
Blurred(a, b) == ~IsFloat(a) /\ ~IsFloat(b) /\ (Wide(a) \/ Wide(b))

CompareRight ==
  LET means(i) == MeansCmp(plan.cmp, OperandAt(plan.l, i), OperandAt(plan.r, i))
  IN  /\ out.fast.ok /\ out.general.ok
      /\ \A i \in 1 .. plan.n : Said(out.fast, i) = means(i) /\ Said(out.general, i) = means(i)
      /\ out.sel = {i \in 1 .. plan.n : means(i) = "true"}

InRight ==
  \A i \in Rows(plan.col) :
    /\ Said(out.fast, i) = Said(out.general, i)
    /\ \/ \E v \in Probes(plan.list) : Blurred(v, ValueAt(plan.col, i))
       \/ Said(out.fast, i) = MeansIn(ValueAt(plan.col, i), plan.list, plan.negated)

\* An arm not reached lends neither its value nor its NULL.
CaseRight ==
  \A i \in 1 .. plan.n :
    LET true == {k \in DOMAIN plan.arms : Said(plan.arms[k].when, i) = "true"}
        arm  == IF true # {} THEN <<plan.arms[Min(true)].then>> ELSE plan.els
    IN  ValueAt(out, i) = IF arm = <<>> THEN Null ELSE ValueAt(Head(arm), i)

\* The number nearest toward zero, or for a decimal nearest of all, if it fits.
CastsTo(v, t, w) ==
  IF t.base = "float" THEN w = <<"float", RoundF(Exact(v)), 0>>
  ELSE IF t.base = "dec"
  THEN /\ 2 * AbsOf(Exact(w) - Exact(v)) * Pow(t.scale) =< Unit
       /\ 2 * AbsOf(Exact(w) - Exact(v)) * Pow(t.scale) = Unit => AbsOf(Exact(w)) > AbsOf(Exact(v))
  ELSE /\ AbsOf(Exact(w)) =< AbsOf(Exact(v)) /\ AbsOf(Exact(v) - Exact(w)) < Unit
       /\ w[2] # 0 => (w[2] < 0 <=> Exact(v) < 0)

Targets(t) == IF t.base = "float" THEN {}
              ELSE IF t.base = "dec" THEN {<<"dec", u, t.scale>> : u \in -DecMax .. DecMax}
              ELSE {<<t.base, n, 0>> : n \in IntBounds(t)[1] .. IntBounds(t)[2]}

CastRight ==
  LET c == plan.col  t == plan.ty  live == Rows(c) \ c.nulls
      odd(i) == AbsOf(Exact(ValueAt(c, i))) >= Inf /\ IsFloat(ValueAt(c, i))
      fits(i) == ~odd(i) /\ \E w \in Targets(t) : CastsTo(ValueAt(c, i), t, w)
  IN  IF ~out.ok THEN t.base # "float" /\ ~SameBase(c.ty, t) /\ \E i \in live : ~fits(i)
      ELSE /\ out.nulls = c.nulls
           /\ \A i \in live : IF odd(i) \/ SameBase(c.ty, t) THEN out.data[i] = c.data[i]
                              ELSE CastsTo(ValueAt(c, i), t, ValueAt(out, i))

(* The kernels answer for every row what its values mean: the specialised   *)
(* paths agree with the general ones, NULL and NaN and the ends of the      *)
(* integer ranges included, an operand on the other side of the operator,   *)
(* a literal of another sign, another scale or another lane kind included   *)
(* (expr.rs: "it answers identically").  IN by value is excepted where it   *)
(* meets an unsigned value above i64::MAX (Blurred).                        *)
KernelAnswer ==
  plan.op = "value" /\ status = "done" =>
    CASE plan.kind = "compare" -> CompareRight
      [] plan.kind = "in"      -> InRight
      [] plan.kind = "case"    -> CaseRight
      [] plan.kind = "cast"    -> CastRight
      [] OTHER -> TRUE

\* Inside i64 and exactly a float, as are its units.
Sharp(v) == \/ v[1] \in {"null", "str"}
            \/ IsFloat(v) /\ (AbsOf(v[2]) >= Inf \/ AbsOf(v[2]) =< MaxI * Unit)
            \/ ~IsFloat(v) /\ F(v[2]) = v[2] * Unit /\ v[2] =< MaxI

\* The values a column of a type holds.
Stored(t) == CASE t.base = "dec"   -> {<<"dec", u, t.scale>> : u \in -DecMax .. DecMax}
               [] t.base = "float" -> {<<"float", RoundF(q), 0>> : q \in -MaxU * Unit .. MaxU * Unit}
               [] OTHER -> {<<t.base, n, 0>> : n \in IntBounds(t)[1] .. IntBounds(t)[2]}

(* Equal keys meet.  Value's order is what numbers mean and is antisymmetric *)
(* whatever the variants; values that compare equal hash alike, or GROUP BY *)
(* and DISTINCT split a group; and a literal the index is probed with names *)
(* exactly the stored keys a scan would have found equal.  All three stop   *)
(* where integers and floats stop being one set of numbers: beyond          *)
(* 2^Mantissa (2^53), and above i64::MAX.                                   *)
EqualKeysMeet ==
  /\ plan.op = "value" /\ plan.kind = "meet" /\ status = "done" =>
       LET a == plan.a  b == plan.b IN
       /\ out.ord = -out.back
       /\ 0 \notin {Rank(a), Rank(b)} /\ (Rank(a) = 4 <=> Rank(b) = 4) /\ ~Blurred(a, b)
            => out.ord = MeansOrd(a, b)
       /\ Sharp(a) /\ Sharp(b) /\ out.ord = 0 => out.hash[1] = out.hash[2]
  /\ plan.op = "value" /\ plan.kind = "probe" /\ status = "done" =>
       \/ out = {} \/ (IsFloat(plan.v) /\ ~Sharp(plan.v))
       \/ (IsFloat(plan.v) /\ AbsOf(plan.v[2]) * Pow(ScaleOf(plan.ty)) >= 2 ^ Mantissa * Unit)
       \/ {w \in Stored(plan.ty) : MeansOrd(w, plan.v) = 0} = {FromLane(l, plan.ty) : l \in out} \cap Stored(plan.ty)

=============================================================================
