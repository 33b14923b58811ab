------------------------------- MODULE JoinOp -------------------------------
(***************************************************************************)
(* JOIN: exec/operators/join.rs.                                           *)
(*                                                                         *)
(* When one side is a table keyed by the join column, the other side is    *)
(* drained up to a cap and its keys are looked up (index nested loop);     *)
(* past the cap what was drained seeds the hash join.  The hash join       *)
(* drains both sides; when the budget refuses one, everything goes to hash *)
(* partitions on disk and pairs of partitions are joined one by one, cut   *)
(* again while they do not fit (grace).  Whatever the route, a State joins *)
(* two blocks held in memory: probe the index built over the smaller one,  *)
(* then pad the rows an outer join owes.                                   *)
(*                                                                         *)
(* A row is [k, id] with key 0 for NULL; an answer is <<left id, right     *)
(* id>> with 0 for the padding.                                            *)
(***************************************************************************)
EXTENDS Naturals, Sequences, SequencesExt, FiniteSets, Functions

CONSTANTS BlockSize,    \* pairs after which a probe stops
          MaxLevel,     \* MAX_GRACE_LEVEL
          Plans

\* plan = [op, input, kind, residual, hash, keyed, laned, cap]:
\*   input    <<left blocks, right blocks>>
\*   kind     "inner", "left", "right", "full" or "cross"
\*   residual the pairs of ids the rest of the ON clause is TRUE for
\*   hash     two bits of the hash of each key
\*   keyed    0, or the side a primary key index serves
\*   laned    whether the probe keys can be looked up exactly
\*   cap      probe_budget of the keyed table
VARIABLES plan, src, op, out, status

vars == <<plan, src, op, out, status>>

NULL == 0
NONE == 0

WantLeft  == plan.kind \in {"left", "full"}     \* padding_wanted
WantRight == plan.kind \in {"right", "full"}

\* choose: the sides an index may serve.
IndexAllowed == CASE plan.kind = "inner" -> {1, 2}
                  [] plan.kind = "left"  -> {2}
                  [] plan.kind = "right" -> {1}
                  [] OTHER -> {}

CanSpill == plan.kind # "cross"

-----------------------------------------------------------------------------
(* State: two blocks in memory.                                             *)
Build(l, r) == [l |-> l, r |-> r,
                build_right |-> Len(r) <= Len(l),
                phase |-> "probe", p |-> 1, q |-> 1, ml |-> {}, mr |-> {}]

\* BuildIndex: the rows of a key, in row order; a NULL key has none.
Chain(rows, k) == SetToSortSeq({i \in DOMAIN rows : k # NULL /\ rows[i].k = k}, <)

\* What one probe row adds to `pairs`.
Matches(s, row) ==
  IF s.build_right
  THEN LET c == Chain(s.r, s.l[row].k) IN [i \in DOMAIN c |-> <<row, c[i]>>]
  ELSE LET c == Chain(s.l, s.r[row].k) IN [i \in DOMAIN c |-> <<c[i], row>>]

\* probe_hash: whole probe rows until the block is full, so it may overfill.
ProbeHash(s) ==
  LET rows == IF s.build_right THEN Len(s.l) ELSE Len(s.r)
      Row1(acc, row) ==
        IF Len(acc.pairs) >= BlockSize THEN acc
        ELSE [p |-> row + 1, pairs |-> acc.pairs \o Matches(s, row)]
      a == FoldLeft(Row1, [p |-> s.p, pairs |-> <<>>], [i \in 1 .. (rows + 1 - s.p) |-> s.p + i - 1])
  IN  [s |-> [s EXCEPT !.p = a.p], pairs |-> a.pairs]

\* probe_cross: the cursor (p, q) walks the product, a block at a time.
ProbeCross(s) ==
  LET nr == Len(s.r)
      at == (s.p - 1) * nr + s.q - 1
      n  == LET left == Len(s.l) * nr - at IN IF left < BlockSize THEN left ELSE BlockSize
      end == at + n
  IN  IF nr = 0 THEN [s |-> [s EXCEPT !.p = Len(s.l) + 1], pairs |-> <<>>]
      ELSE [s |-> [s EXCEPT !.p = (end \div nr) + 1, !.q = (end % nr) + 1],
            pairs |-> [i \in 1 .. n |-> <<((at + i - 1) \div nr) + 1, ((at + i - 1) % nr) + 1>>]]

Probe(s) == IF plan.kind = "cross" THEN ProbeCross(s) ELSE ProbeHash(s)

Passing(s, pairs) ==
  SelectSeq(pairs, LAMBDA x : <<s.l[x[1]].id, s.r[x[2]].id>> \in plan.residual)

Ids(s, pairs) == [i \in DOMAIN pairs |-> <<s.l[pairs[i][1]].id, s.r[pairs[i][2]].id>>]

NextPhase == IF WantLeft THEN "pad_left" ELSE IF WantRight THEN "pad_right" ELSE "done"

\* The rows of a side nothing matched, in order.
Unmatched(rows, matched) == SetToSortSeq((DOMAIN rows) \ matched, <)

(* State::next_block, one turn of its loop.  The residual is applied before *)
(* a row counts as matched.  Padding emits its rows in one block.           *)
Turn(s) ==
  CASE s.phase = "probe" ->
         LET a == Probe(s)
             kept == Passing(s, a.pairs)
         IN  IF a.pairs = <<>>
             THEN [s |-> [a.s EXCEPT !.p = 1, !.phase = NextPhase], rows |-> <<>>]
             ELSE [s |-> [a.s EXCEPT !.ml = @ \cup (IF WantLeft THEN {kept[i][1] : i \in DOMAIN kept} ELSE {}),
                                     !.mr = @ \cup (IF WantRight THEN {kept[i][2] : i \in DOMAIN kept} ELSE {})],
                   rows |-> Ids(s, kept)]
    [] s.phase = "pad_left" ->
         LET u == Unmatched(s.l, s.ml)
         IN  [s |-> [s EXCEPT !.phase = IF WantRight THEN "pad_right" ELSE "done"],
              rows |-> [i \in DOMAIN u |-> <<s.l[u[i]].id, NONE>>]]
    [] s.phase = "pad_right" ->
         LET u == Unmatched(s.r, s.mr)
         IN  [s |-> [s EXCEPT !.phase = "done"],
              rows |-> [i \in DOMAIN u |-> <<NONE, s.r[u[i]].id>>]]

-----------------------------------------------------------------------------
(* Partitioner.                                                             *)
PartOf(level, k) == (plan.hash[k] \div (IF level % 2 = 0 THEN 1 ELSE 2)) % 2

NewPartitioner(level) == [level |-> level, rr |-> 0,
                          files |-> [s \in 1 .. 2 |-> [i \in 0 .. 1 |-> <<>>]]]

\* Mutant: a row that matches nothing is not written.
PushRowKeyedOnly(p, side, row) ==
  IF row.k = NULL THEN p ELSE [p EXCEPT !.files[side][PartOf(p.level, row.k)] = Append(@, row)]

\* push: a row without a key matches nothing, so any partition will do.
PushRow(p, side, row) ==
  LET rr == (p.rr + 1) % 2
      i  == IF row.k = NULL THEN rr ELSE PartOf(p.level, row.k)
  IN  [p EXCEPT !.files[side][i] = Append(@, row),
                !.rr = IF row.k = NULL THEN rr ELSE @]

Push(p, side, block) == FoldLeft(LAMBDA q, row : PushRow(q, side, row), p, block)

\* finish: one pair for each partition, one level down.
Pairs(p) == [i \in 1 .. 2 |-> [l |-> p.files[1][i - 1], r |-> p.files[2][i - 1],
                               level |-> p.level + 1]]

-----------------------------------------------------------------------------
NoPart == [level |-> 99]

Init == /\ plan \in Plans
        /\ src = plan.input
        /\ op = [phase   |-> IF plan.keyed \in IndexAllowed THEN "index" ELSE "left",
                 side    |-> <<<<>>, <<>>>>,     \* what each side has in memory
                 part    |-> NoPart,
                 pending |-> <<>>,
                 cur     |-> <<>>]               \* the State being joined
        /\ out = <<>>
        /\ status = "running"

Running == status = "running" /\ plan.op = "join"

(* A failed check, or a buffer that may not spill over its budget.          *)
Stop == /\ Running
        /\ status' \in {"cancelled", "failed"}
        /\ UNCHANGED <<plan, src, op, out>>

Outer == 3 - plan.keyed

(* try_index_join drains the other side, up to its cap.                     *)
IndexPull ==
  /\ Running /\ op.phase = "index"
  /\ src[Outer] # <<>> /\ Len(op.side[Outer]) <= plan.cap
  /\ op' = [op EXCEPT !.side[Outer] = @ \o Head(src[Outer])]
  /\ src' = [src EXCEPT ![Outer] = Tail(@)]
  /\ UNCHANGED <<plan, out, status>>

\* Over the cap, or a key the index cannot look up: what was read becomes the
\* seed of the hash join's drain.
IndexFallback ==
  /\ Running /\ op.phase = "index"
  /\ \/ Len(op.side[Outer]) > plan.cap
     \/ src[Outer] = <<>> /\ ~plan.laned
  /\ op' = [op EXCEPT !.phase = "left"]
  /\ UNCHANGED <<plan, src, out, status>>

(* Fetch the rows of the drained keys and join them in memory.              *)
IndexJoin ==
  /\ Running /\ op.phase = "index"
  /\ src[Outer] = <<>> /\ Len(op.side[Outer]) <= plan.cap /\ plan.laned
  /\ LET keys == {op.side[Outer][i].k : i \in DOMAIN op.side[Outer]} \ {NULL}
         got  == SelectSeq(FlattenSeq(src[plan.keyed]), LAMBDA row : row.k \in keys)
     IN  op' = [op EXCEPT !.phase = "join",
                          !.cur = IF plan.keyed = 2 THEN Build(op.side[1], got)
                                  ELSE Build(got, op.side[2])]
  /\ UNCHANGED <<plan, src, out, status>>

-----------------------------------------------------------------------------
Side == IF op.phase = "left" THEN 1 ELSE 2

(* drain_side, one block.  Once there is a partitioner, blocks go straight  *)
(* to it; the block that goes over the budget creates it and takes the      *)
(* whole side with it.                                                      *)
DrainBlock(over) ==
  /\ Running /\ op.phase \in {"left", "right"} /\ src[Side] # <<>>
  /\ over => CanSpill /\ op.part = NoPart
  /\ LET b == Head(src[Side])
     IN  op' = CASE op.part # NoPart -> [op EXCEPT !.part = Push(@, Side, b)]
                 [] op.part = NoPart /\ over ->
                      [op EXCEPT !.part = Push(NewPartitioner(0), Side, op.side[Side] \o b),
                                 !.side[Side] = <<>>]
                 [] OTHER -> [op EXCEPT !.side[Side] = @ \o b]
  /\ src' = [src EXCEPT ![Side] = Tail(@)]
  /\ UNCHANGED <<plan, out, status>>

LeftDrained == /\ Running /\ op.phase = "left" /\ src[1] = <<>>
               /\ op' = [op EXCEPT !.phase = "right"]
               /\ UNCHANGED <<plan, src, out, status>>

(* Both sides in hand: a State when there is room for the index, else -     *)
(* or when a side spilled - everything held goes to the partitioner too.    *)
BothDrained(room) ==
  /\ Running /\ op.phase = "right" /\ src[2] = <<>>
  /\ op' = IF op.part = NoPart /\ (room \/ ~CanSpill)
           THEN [op EXCEPT !.phase = "join", !.cur = Build(op.side[1], op.side[2])]
           ELSE LET p == IF op.part = NoPart THEN NewPartitioner(0) ELSE op.part
                IN  [op EXCEPT !.phase = "grace", !.part = NoPart,
                               !.pending = Pairs(Push(Push(p, 1, op.side[1]), 2, op.side[2])),
                               !.side = <<<<>>, <<>>>>]
  /\ UNCHANGED <<plan, src, out, status>>

\* Grace::advance: a pair that can owe no row is dropped.
Emits(p) == CASE p.l = <<>> /\ p.r = <<>> -> FALSE
              [] p.l = <<>> /\ p.r # <<>> -> WantRight
              [] p.l # <<>> /\ p.r = <<>> -> WantLeft
              [] OTHER -> TRUE

GraceSkip == /\ Running /\ op.phase = "grace" /\ op.pending # <<>> /\ ~Emits(Last(op.pending))
             /\ op' = [op EXCEPT !.pending = Front(@)]
             /\ UNCHANGED <<plan, src, out, status>>

\* Grace::split: it does not fit, and may still be cut.
GraceSplit ==
  /\ Running /\ op.phase = "grace" /\ op.pending # <<>> /\ Emits(Last(op.pending))
  /\ Last(op.pending).level < MaxLevel
  /\ LET p == Last(op.pending)
     IN  op' = [op EXCEPT !.pending = Front(@) \o
                  Pairs(Push(Push(NewPartitioner(p.level), 1, p.l), 2, p.r))]
  /\ UNCHANGED <<plan, src, out, status>>

GraceBuild ==
  /\ Running /\ op.phase = "grace" /\ op.pending # <<>> /\ Emits(Last(op.pending))
  /\ op' = [op EXCEPT !.pending = Front(@), !.phase = "join",
                      !.cur = Build(Last(op.pending).l, Last(op.pending).r)]
  /\ UNCHANGED <<plan, src, out, status>>

(* Join::next and Grace::next_block over the State in hand.                 *)
JoinBlock ==
  /\ Running /\ op.phase = "join" /\ op.cur.phase # "done"
  /\ LET t == Turn(op.cur)
     IN  op' = [op EXCEPT !.cur = t.s] /\ out' = out \o t.rows
  /\ UNCHANGED <<plan, src, status>>

NextPair == /\ Running /\ op.phase = "join" /\ op.cur.phase = "done"
            /\ op' = [op EXCEPT !.phase = "grace", !.cur = <<>>]
            /\ UNCHANGED <<plan, src, out, status>>

Finish == /\ Running /\ op.phase = "grace" /\ op.pending = <<>>
          /\ status' = "done"
          /\ UNCHANGED <<plan, src, op, out>>

Next == \/ IndexPull \/ IndexFallback \/ IndexJoin
        \/ \E over \in BOOLEAN : DrainBlock(over)
        \/ LeftDrained
        \/ \E room \in BOOLEAN : BothDrained(room)
        \/ GraceSkip \/ GraceSplit \/ GraceBuild
        \/ JoinBlock \/ NextPair \/ Finish \/ Stop

Spec == Init /\ [][Next]_vars

-----------------------------------------------------------------------------
SideRows(s) == ToSet(FlattenSeq(plan.input[s]))

Joined == {<<a.id, b.id>> : <<a, b>> \in
            {x \in SideRows(1) \X SideRows(2) :
               /\ plan.kind = "cross" \/ (x[1].k = x[2].k /\ x[1].k # NULL)
               /\ <<x[1].id, x[2].id>> \in plan.residual}}

Padded == (IF WantLeft THEN {<<a.id, NONE>> : a \in {r \in SideRows(1) :
                               \A x \in Joined : x[1] # r.id}} ELSE {})
          \cup
          (IF WantRight THEN {<<NONE, b.id>> : b \in {r \in SideRows(2) :
                                \A x \in Joined : x[2] # r.id}} ELSE {})

(* A finished join answers every pair its ON clause accepts exactly once,   *)
(* and pads exactly the rows an outer join owes: by index, in memory or     *)
(* through partitions, whichever side went over the budget and when,        *)
(* however a partition was cut again, whichever side the index was built    *)
(* on.  A NULL key matches nothing but is still owed its padding.           *)
JoinAnswer ==
  status = "done" /\ plan.op = "join" =>
    /\ ToSet(out) = Joined \cup Padded
    /\ Len(out) = Cardinality(Joined \cup Padded)

=============================================================================
