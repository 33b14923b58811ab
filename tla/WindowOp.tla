------------------------------ MODULE WindowOp ------------------------------
(***************************************************************************)
(* Window functions: exec/operators/window.rs.                             *)
(*                                                                         *)
(* The input arrives sorted by the partition keys and then the order keys. *)
(* The operator buffers it, flags the rows where a partition or a peer     *)
(* group begins, and answers every row once its partition is known to be   *)
(* complete: at the end of the input, or earlier, when the memory budget   *)
(* refuses the buffer and a later partition has already begun.  A large    *)
(* buffer is cut at partition boundaries and the pieces computed by        *)
(* several threads.  An aggregate is not folded again for every frame: a   *)
(* sweep feeds it only the rows that enter the frame.                      *)
(*                                                                         *)
(* Rows are numbered from 0, as in the code.  A row is [p, o, v]: its      *)
(* partition key, its order key and the function's argument.               *)
(***************************************************************************)
EXTENDS Integers, Sequences, SequencesExt, FiniteSets, FiniteSetsExt

CONSTANT Plans          \* the queries

\* plan = [op, input, ordered, func, units, start, end, offset, degree]:
\*   input       the blocks the operator pulls
\*   ordered     whether there is an ORDER BY
\*   func        the function; units, start, end its frame, a bound is [b, k]
\*   offset      lag's distance, ntile's buckets, nth_value's n
\*   degree      the threads compute() may use
VARIABLES plan, src, op, out, status

vars == <<plan, src, op, out, status>>

NULL == -1

Least(S) == CHOOSE n \in S : \A m \in S : n <= m
Most(S)  == CHOOSE n \in S : \A m \in S : n >= m

-----------------------------------------------------------------------------
(* The flags.                                                               *)

\* frame.rank(): the order of the bounds.
Rank(b) == CASE b = "up" -> 0 [] b = "prec" -> 1 [] b = "cur" -> 2
             [] b = "foll" -> 3 [] b = "uf" -> 4

IgnoresFrame(f) == f \in {"row_number", "rank", "dense_rank", "percent_rank",
                          "cume_dist", "ntile", "lag", "lead"}

\* can_be_empty: whether plan_call makes the result nullable.
CanBeEmpty(p) == ~(Rank(p.start.b) <= Rank("cur") /\ Rank(p.end.b) >= Rank("cur"))

\* The order keys of a row; without ORDER BY there are none to differ.
OrderKey(row) == IF plan.ordered THEN row.o ELSE 0

\* Mutant: a block's first row is not compared with the seam.
NewFlagsNoSeam(flags, seam, block) ==
  [i \in DOMAIN block |->
     LET moved == i = 1 \/ block[i].p # block[i - 1].p
     IN  [part |-> moved, peer |-> moved \/ OrderKey(block[i]) # OrderKey(block[i - 1])]]

(* absorb: the first row of an empty buffer opens a partition; the first    *)
(* row of a later block is compared with the seam, the rest with the row    *)
(* before.                                                                  *)
NewFlags(flags, seam, block) ==
  [i \in DOMAIN block |->
     IF i = 1 /\ flags = <<>> THEN [part |-> TRUE, peer |-> TRUE]
     ELSE LET before == IF i = 1 THEN seam ELSE block[i - 1]
              moved  == block[i].p # before.p
          IN  [part |-> moved,
               peer |-> moved \/ OrderKey(block[i]) # OrderKey(before)]]

\* The last partition that begins in `flags` at or after row `base`.
PartStart(flags, base, old) ==
  LET starts == {i \in base .. Len(flags) - 1 : flags[i + 1].part}
  IN  IF starts = {} THEN old ELSE Most(starts)

\* part_end, peer_end, peer_start: walks over the flags.
PartEnd(flags, ps, hi) ==
  Least({hi} \cup {i \in ps + 1 .. hi - 1 : flags[i + 1].part})
PeerEnd(flags, gs, pe) ==
  Least({pe} \cup {i \in gs + 1 .. pe - 1 : flags[i + 1].peer})
PeerStart(flags, ge, ps) ==
  Most({ps} \cup {i \in ps + 1 .. ge - 1 : flags[i + 1].peer})

(* split_partitions: cut k of w is moved on to the next partition.          *)
SplitPartitions(flags, n, w) ==
  LET Cut(acc, k) ==
        LET from == Most({(n * k) \div w, acc.s + 1})
            e    == Least({n} \cup {i \in from .. n - 1 : flags[i + 1].part})
        IN  IF acc.stop \/ e >= n THEN [acc EXCEPT !.stop = TRUE]
            ELSE [s |-> e, stop |-> FALSE, ranges |-> Append(acc.ranges, <<acc.s, e>>)]
      all == FoldLeft(Cut, [s |-> 0, stop |-> FALSE, ranges |-> <<>>],
                      [k \in 1 .. w - 1 |-> k])
  IN  Append(all.ranges, <<all.s, n>>)

-----------------------------------------------------------------------------
(* frame_of: the half-open frame of row i.                                  *)
Clamp(x, lo, hi) == IF x < lo THEN lo ELSE IF x > hi THEN hi ELSE x

FrameStart(i, ps, pe, gs) ==
  LET b == plan.start
  IN  CASE b.b = "up"   -> ps
        [] b.b = "prec" -> Most({IF i >= b.k THEN i - b.k ELSE 0, ps})
        [] b.b = "cur"  -> IF plan.units = "rows" THEN i ELSE gs
        [] b.b = "foll" -> Least({i + b.k, pe})
        [] b.b = "uf"   -> pe

FrameEnd(i, ps, pe, ge) ==
  LET b == plan.end
  IN  CASE b.b = "up"   -> ps
        [] b.b = "prec" -> IF i >= b.k THEN Clamp(i - b.k + 1, ps, pe) ELSE ps
        [] b.b = "cur"  -> IF plan.units = "rows" THEN i + 1 ELSE ge
        [] b.b = "foll" -> Least({i + b.k + 1, pe})
        [] b.b = "uf"   -> pe

FrameOf(i, ps, pe, gs, ge) ==
  LET s == FrameStart(i, ps, pe, gs) IN <<s, Most({FrameEnd(i, ps, pe, ge), s})>>

\* Sweep::of.
SweepOf ==
  LET one    == plan.units = "range" /\ ~plan.ordered
      opens  == plan.start.b = "up" \/ (one /\ plan.start.b = "cur")
      closes == plan.end.b = "uf" \/ (one /\ plan.end.b = "cur")
  IN  CASE opens /\ closes  -> "whole"
        [] opens /\ ~closes -> "forward"
        [] ~opens /\ closes -> "backward"
        [] OTHER            -> "refold"

\* The aggregate is sum(): NULL until it has been given a row.
Update(acc, rows, s, e) ==
  IF s >= e THEN acc
  ELSE (IF acc = NULL THEN 0 ELSE acc) + FoldLeft(LAMBDA a, r : a + r.v, 0, SubSeq(rows, s + 1, e))

(* eval_agg for the partition [ps, pe): one answer per row.                 *)
Whole(rows, ps, pe) == [j \in 1 .. pe - ps |-> Update(NULL, rows, ps, pe)]

\* fed = e so far; the peer group advances when i reaches its end.
Forward(rows, flags, ps, pe) ==
  LET Step(st, i) ==
        LET gs == IF i = st.ge THEN st.ge ELSE st.gs
            ge == IF i = st.ge THEN PeerEnd(flags, gs, pe) ELSE st.ge
            e  == FrameOf(i, ps, pe, gs, ge)[2]
            a  == IF e > st.fed THEN Update(st.acc, rows, st.fed, e) ELSE st.acc
        IN  [acc |-> a, fed |-> Most({e, st.fed}), gs |-> gs, ge |-> ge,
             ans |-> Append(st.ans, a)]
  IN  FoldLeft(Step, [acc |-> NULL, fed |-> ps, gs |-> ps,
                      ge |-> PeerEnd(flags, ps, pe), ans |-> <<>>],
               [j \in 1 .. pe - ps |-> ps + j - 1]).ans

Backward(rows, flags, ps, pe) ==
  LET Step(st, i) ==
        LET ge == IF i < st.gs THEN st.gs ELSE st.ge
            gs == IF i < st.gs THEN PeerStart(flags, ge, ps) ELSE st.gs
            s  == FrameOf(i, ps, pe, gs, ge)[1]
            a  == IF s < st.fed THEN Update(st.acc, rows, s, st.fed) ELSE st.acc
        IN  [acc |-> a, fed |-> Least({s, st.fed}), gs |-> gs, ge |-> ge,
             ans |-> Append(st.ans, a)]
  IN  Reverse(FoldLeft(Step, [acc |-> NULL, fed |-> pe, ge |-> pe,
                              gs |-> PeerStart(flags, pe, ps), ans |-> <<>>],
                       [j \in 1 .. pe - ps |-> pe - j]).ans)

\* The peer group of row i, as a forward walk finds it.
PeersOf(flags, i, ps, pe) ==
  LET gs == Most({g \in ps .. i : g = ps \/ flags[g + 1].peer})
  IN  <<gs, PeerEnd(flags, gs, pe)>>

FrameAt(flags, i, ps, pe) ==
  LET g == PeersOf(flags, i, ps, pe) IN FrameOf(i, ps, pe, g[1], g[2])

Refold(rows, flags, ps, pe) ==
  [j \in 1 .. pe - ps |->
     LET f == FrameAt(flags, ps + j - 1, ps, pe) IN Update(NULL, rows, f[1], f[2])]

EvalAgg(rows, flags, ps, pe) ==
  CASE SweepOf = "whole"    -> Whole(rows, ps, pe)
    [] SweepOf = "forward"  -> Forward(rows, flags, ps, pe)
    [] SweepOf = "backward" -> Backward(rows, flags, ps, pe)
    [] OTHER                -> Refold(rows, flags, ps, pe)

(* ntile: the first r buckets hold q + 1 rows, the others q.                *)
Ntile(j, size, buckets) ==
  LET k   == Most({buckets, 1})
      q   == size \div k
      r   == size % k
      big == r * (q + 1)
  IN  IF q = 0 THEN j + 1
      ELSE IF j < big THEN (j \div (q + 1)) + 1
      ELSE ((j - big) \div q) + r + 1

(* eval_rank; a ratio is the pair of its terms.                             *)
EvalRank(flags, ps, pe, i) ==
  LET g     == PeersOf(flags, i, ps, pe)
      size  == pe - ps
      dense == 1 + Cardinality({x \in ps + 1 .. i : flags[x + 1].peer})
  IN  CASE plan.func = "row_number"   -> i - ps + 1
        [] plan.func = "rank"         -> g[1] - ps + 1
        [] plan.func = "dense_rank"   -> dense
        [] plan.func = "percent_rank" -> IF size <= 1 THEN <<0, 1>> ELSE <<g[1] - ps, size - 1>>
        [] plan.func = "cume_dist"    -> <<g[2] - ps, size>>
        [] plan.func = "ntile"        -> Ntile(i - ps, size, plan.offset)

(* eval_shift without a default.                                            *)
EvalShift(rows, ps, pe, i) ==
  IF plan.func = "lag"
  THEN IF i >= plan.offset /\ i - plan.offset >= ps THEN rows[i - plan.offset + 1].v ELSE NULL
  ELSE IF i + plan.offset < pe THEN rows[i + plan.offset + 1].v ELSE NULL

(* eval_pick.                                                               *)
EvalPick(rows, flags, ps, pe, i) ==
  LET f == FrameAt(flags, i, ps, pe)
      t == CASE plan.func = "first_value" -> f[1]
             [] plan.func = "last_value"  -> f[2] - 1
             [] plan.func = "nth_value"   -> f[1] + plan.offset - 1
  IN  IF f[1] < f[2] /\ t < f[2] THEN rows[t + 1].v ELSE NULL

EvalPartition(rows, flags, ps, pe) ==
  CASE plan.func = "sum" -> EvalAgg(rows, flags, ps, pe)
    [] plan.func \in {"lag", "lead"} ->
         [j \in 1 .. pe - ps |-> EvalShift(rows, ps, pe, ps + j - 1)]
    [] plan.func \in {"first_value", "last_value", "nth_value"} ->
         [j \in 1 .. pe - ps |-> EvalPick(rows, flags, ps, pe, ps + j - 1)]
    [] OTHER -> [j \in 1 .. pe - ps |-> EvalRank(flags, ps, pe, ps + j - 1)]

(* eval_window over [lo, hi): partition after partition.  A range begins at *)
(* a partition, because split_partitions cuts there.                        *)
EvalWindow(rows, flags, lo, hi) ==
  LET starts == SetToSortSeq({lo} \cup {i \in lo + 1 .. hi - 1 : flags[i + 1].part}, <)
  IN  FlattenSeq([j \in DOMAIN starts |->
        EvalPartition(rows, flags, starts[j], PartEnd(flags, starts[j], hi))])

(* compute: the ranges' columns one after the other beside the rows.        *)
Compute(rows, flags) ==
  LET ranges == IF plan.degree > 1 THEN SplitPartitions(flags, Len(rows), plan.degree)
                ELSE << <<0, Len(rows)>> >>
      col    == FlattenSeq([k \in DOMAIN ranges |->
                  EvalWindow(rows, flags, ranges[k][1], ranges[k][2])])
  IN  [i \in DOMAIN rows |-> [row |-> rows[i], ans |-> col[i]]]

-----------------------------------------------------------------------------
Init == /\ plan \in Plans
        /\ src = plan.input
        /\ op = [buf |-> <<>>, flags |-> <<>>, seam |-> <<>>, part_start |-> 0]
        /\ out = <<>>
        /\ status = "running"

Running == status = "running" /\ plan.op = "window"

Cancel == /\ Running
          /\ status' = "cancelled"
          /\ UNCHANGED <<plan, src, op, out>>

\* absorb.
Absorbed(b) ==
  LET flags == op.flags \o NewFlags(op.flags, op.seam, b)
  IN  [buf |-> op.buf \o b, flags |-> flags, seam |-> Last(b),
       part_start |-> PartStart(flags, Len(op.flags), op.part_start)]

\* emit(cut): the rows before `cut` are answered, the rest stay buffered.
Cut(o, cut) ==
  [o EXCEPT !.buf        = SubSeq(@, cut + 1, Len(@)),
            !.flags      = SubSeq(@, cut + 1, Len(@)),
            !.part_start = IF @ >= cut THEN @ - cut ELSE 0]

Answer(o, cut) == Compute(SubSeq(o.buf, 1, cut), SubSeq(o.flags, 1, cut))

(* pump, one block.  `over`: grow_to was refused.  With every buffered row  *)
(* in one partition grow_to is asked again and its error returned.          *)
Block(over) ==
  /\ Running /\ src # <<>>
  /\ src' = Tail(src)
  /\ IF Head(src) = <<>> THEN UNCHANGED <<op, out, status>>
     ELSE LET o == Absorbed(Head(src))
          IN  CASE ~over -> op' = o /\ UNCHANGED <<out, status>>
                [] over /\ o.part_start = 0 ->
                     op' = o /\ status' = "failed" /\ UNCHANGED out
                [] OTHER -> /\ op' = Cut(o, o.part_start)
                            /\ out' = out \o Answer(o, o.part_start)
                            /\ UNCHANGED status
  /\ UNCHANGED plan

(* The end of the input.                                                    *)
Eof == /\ Running /\ src = <<>>
       /\ out' = out \o (IF op.flags = <<>> THEN <<>> ELSE Answer(op, Len(op.flags)))
       /\ op' = Cut(op, Len(op.flags))
       /\ status' = "done"
       /\ UNCHANGED <<plan, src>>

Next == (\E over \in BOOLEAN : Block(over)) \/ Eof \/ Cancel

Spec == Init /\ [][Next]_vars

-----------------------------------------------------------------------------
(* The function, from the whole input and the definition of its frame.      *)
Rows == FlattenSeq(plan.input)

Part(i)  == {j \in DOMAIN Rows : Rows[j].p = Rows[i].p}
Peers(i) == {j \in Part(i) : OrderKey(Rows[j]) = OrderKey(Rows[i])}

\* Row j is not before the frame's start, not after its end.
AfterStart(j, i) ==
  LET b == plan.start
  IN  CASE b.b = "up"   -> TRUE
        [] b.b = "prec" -> j >= i - b.k
        [] b.b = "cur"  -> j >= i \/ (plan.units = "range" /\ j \in Peers(i))
        [] b.b = "foll" -> j >= i + b.k
        [] b.b = "uf"   -> FALSE
BeforeEnd(j, i) ==
  LET b == plan.end
  IN  CASE b.b = "up"   -> FALSE
        [] b.b = "prec" -> j <= i - b.k
        [] b.b = "cur"  -> j <= i \/ (plan.units = "range" /\ j \in Peers(i))
        [] b.b = "foll" -> j <= i + b.k
        [] b.b = "uf"   -> TRUE

Frame(i) == {j \in Part(i) : AfterStart(j, i) /\ BeforeEnd(j, i)}

Nth(S, n) == IF n > Cardinality(S) THEN NULL
             ELSE Rows[CHOOSE j \in S : Cardinality({x \in S : x <= j}) = n].v

Expected(i) ==
  LET part  == Part(i)
      here  == Cardinality({j \in part : j < i})
      below == Cardinality({j \in part : j < i /\ j \notin Peers(i)})
      size  == Cardinality(part)
  IN  CASE plan.func = "sum" ->
             IF Frame(i) = {} THEN NULL ELSE MapThenSumSet(LAMBDA j : Rows[j].v, Frame(i))
        [] plan.func = "first_value" -> Nth(Frame(i), 1)
        [] plan.func = "last_value"  ->
             IF Frame(i) = {} THEN NULL ELSE Nth(Frame(i), Cardinality(Frame(i)))
        [] plan.func = "nth_value"   -> Nth(Frame(i), plan.offset)
        [] plan.func = "lag"  -> IF here < plan.offset THEN NULL ELSE Nth(part, here + 1 - plan.offset)
        [] plan.func = "lead" -> Nth(part, here + 1 + plan.offset)
        [] plan.func = "row_number"   -> here + 1
        [] plan.func = "rank"         -> below + 1
        [] plan.func = "dense_rank"   -> Cardinality({OrderKey(Rows[j]) : j \in {x \in part : x <= i}})
        [] plan.func = "percent_rank" -> IF size = 1 THEN <<0, 1>> ELSE <<below, size - 1>>
        [] plan.func = "cume_dist"    -> <<below + Cardinality(Peers(i)), size>>

\* NTILE's promise: bucket sizes differ by at most one, the larger ones first.
NtileSizes(i) ==
  LET In(b) == Cardinality({j \in Part(i) : out[j].ans = b})
      k     == Least({plan.offset, Cardinality(Part(i))})
  IN  /\ out[i].ans \in 1 .. k
      /\ \A b \in 2 .. k : In(b) <= In(b - 1) /\ In(1) <= In(b) + 1
      /\ \A j \in Part(i) : j < i => out[j].ans <= out[i].ans

(* A finished window query answers every input row once, in order, with the *)
(* function over its frame, however the partitions were buffered, cut and   *)
(* swept; and an empty frame occurs only where plan_call's can_be_empty     *)
(* made the column nullable.                                                *)
WindowAnswer ==
  status = "done" /\ plan.op = "window" =>
    /\ [i \in DOMAIN out |-> out[i].row] = Rows
    /\ \A i \in DOMAIN Rows :
         /\ IF plan.func = "ntile" THEN NtileSizes(i) ELSE out[i].ans = Expected(i)
         /\ Frame(i) = {} => CanBeEmpty(plan) \/ IgnoresFrame(plan.func)

=============================================================================
