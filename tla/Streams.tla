------------------------------ MODULE Streams ------------------------------
(***************************************************************************)
(* The streaming operators of exec/operators: Values, Filter, Project,     *)
(* Limit, LimitBy, Distinct, Union and SetDiff (INTERSECT and EXCEPT).     *)
(*                                                                         *)
(* A query is one operator over one or more branches.  A branch is the     *)
(* sequence of blocks its operator will return; a block is a sequence of   *)
(* rows, and may be empty.  A row is compared the way GroupKey compares a  *)
(* tuple, so NULL is a row like any other here.  One step pulls one block, *)
(* which is where every loop of these operators may be cancelled.          *)
(*                                                                         *)
(* The row operators see the whole row as the key; the value of a          *)
(* predicate on a row and the columns of a projected block come from plan. *)
(***************************************************************************)
EXTENDS Naturals, Sequences, SequencesExt, FiniteSets, Functions

CONSTANTS Row,          \* the rows a branch may hold
          Plans         \* the queries; Stream of MCOperators is their shape

VARIABLES plan,         \* the query; never changes
          src,          \* what each branch still has to return
          op,           \* the operator's own fields
          out,          \* the blocks handed to execute_ctx, one after another
          status        \* "running", "done", "failed" or "cancelled"

vars == <<plan, src, op, out, status>>

Names == {"filter", "project", "limit", "limit_by", "distinct",
          "union", "intersect", "except", "values"}

Hole == "hole"          \* what mem::replace leaves in a block's column slot

-----------------------------------------------------------------------------
(* Helpers.                                                                *)

Rows(branch) == FlattenSeq(branch)

Times(r, seq) == Cardinality({i \in DOMAIN seq : seq[i] = r})

\* The positions of a block an operator selects, in row order: `sel`.
Take(block, keep) ==
  LET sel == SetToSortSeq({i \in DOMAIN block : keep[i]}, <)
  IN  [j \in DOMAIN sel |-> block[sel[j]]]

\* FastMap<GroupKey, u64> with a missing key read as absent.
Bump(counts, r) ==
  IF r \in DOMAIN counts THEN [counts EXCEPT ![r] = @ + 1]
  ELSE counts @@ (r :> 1)

\* Mode::of and Mode::is_intersect.
Mode(p) == <<p.op, p.all>>
IsIntersect(p) == p.op = "intersect"

\* Which operators build a table from branches 1.. first: a set operation of
\* one branch is a Union of one input, whatever its operator.
Builds(p) == p.op \in {"intersect", "except"} /\ Len(p.input) >= 2

-----------------------------------------------------------------------------
Blank == [skipped |-> 0, emitted |-> 0,         \* Limit
          counts |-> <<>>, cur |-> <<>>,        \* LimitBy, Distinct, SetDiff
          built |-> FALSE, empty |-> FALSE,     \* SetDiff
          branch |-> 1]                         \* Union.cur, and the build loop

Init == /\ plan \in Plans
        /\ src = plan.input
        /\ op = [Blank EXCEPT !.branch = IF Builds(plan) THEN 2 ELSE 1]
        /\ out = <<>>
        /\ status = "running"

(* Another thread sets the flag, or the deadline passes: the next           *)
(* QueryContext::check fails and the error leaves through execute_ctx.     *)
Cancel == /\ status = "running"
          /\ status' = "cancelled"
          /\ UNCHANGED <<plan, src, op, out>>

(* MemGuard::grow_to fails: none of these operators can spill.  A Project   *)
(* charges the columns it computes from a block.                           *)
OverBudget == /\ status = "running"
              /\ \/ /\ plan.op \in {"distinct", "limit_by", "intersect", "except"}
                    /\ DOMAIN op.counts # {}
                 \/ /\ plan.op = "project" /\ src[1] # <<>>
                    /\ \E i \in DOMAIN plan.exprs : plan.exprs[i][1] = "call"
              /\ status' = "failed"
              /\ UNCHANGED <<plan, src, op, out>>

Running == status = "running"

Pulled(b) == src' = [src EXCEPT ![b] = Tail(@)]

\* Hand a block to execute_ctx, which keeps it only when it has rows.
Emit(block) == out' = IF block = <<>> THEN out ELSE Append(out, block)

-----------------------------------------------------------------------------
(* SetDiff::build_table, one block of a branch other than the first.        *)
Refining == IsIntersect(plan) /\ op.branch > 2

Counted(block) ==
  IF Refining
  THEN [op EXCEPT !.cur = FoldLeft(LAMBDA m, r : IF r \in DOMAIN op.counts
                                                 THEN Bump(m, r) ELSE m, @, block)]
  ELSE [op EXCEPT !.counts = FoldLeft(Bump, @, block)]

BuildBlock ==
  /\ Running /\ Builds(plan) /\ ~op.built
  /\ src[op.branch] # <<>>
  /\ op' = Counted(Head(src[op.branch]))
  /\ Pulled(op.branch)
  /\ UNCHANGED <<plan, out, status>>

\* Mutant: a row the branch does not have stays in the table.
MinimisedKeepsMissing ==
  [r \in DOMAIN op.counts |-> IF r \in DOMAIN op.cur /\ op.cur[r] < op.counts[r] THEN op.cur[r] ELSE op.counts[r]]

\* counts.retain: the minimum of the two counts, dropping what is missing.
Minimised == [r \in DOMAIN op.counts \cap DOMAIN op.cur |->
                IF op.cur[r] < op.counts[r] THEN op.cur[r] ELSE op.counts[r]]

(* The branch is drained.  An INTERSECT with nothing left reads no further. *)
BuildNextBranch ==
  /\ Running /\ Builds(plan) /\ ~op.built
  /\ src[op.branch] = <<>>
  /\ LET counts == IF Refining THEN Minimised ELSE op.counts
         empty  == IsIntersect(plan) /\ DOMAIN counts = {}
     IN  op' = [op EXCEPT !.counts = counts,
                          !.cur    = <<>>,
                          !.empty  = empty,
                          !.built  = empty \/ op.branch = Len(src),
                          !.branch = @ + 1]
  /\ UNCHANGED <<plan, src, out, status>>

(* One left row against the table, by mode: <<the table after, kept?>>.     *)
IntersectAll(m, r) ==
  IF r \in DOMAIN m /\ m[r] > 0 THEN <<[m EXCEPT ![r] = @ - 1], TRUE>> ELSE <<m, FALSE>>

IntersectDistinct(m, r) ==
  IF r \in DOMAIN m /\ m[r] > 0 THEN <<[m EXCEPT ![r] = 0], TRUE>> ELSE <<m, FALSE>>

ExceptAll(m, r) ==
  IF r \in DOMAIN m /\ m[r] > 0 THEN <<[m EXCEPT ![r] = @ - 1], FALSE>> ELSE <<m, TRUE>>

ExceptDistinct(m, r) ==
  IF r \in DOMAIN m THEN <<m, FALSE>> ELSE <<m @@ (r :> 1), TRUE>>

\* Distinct::next keeps the rows `seen.insert` accepts.
FirstSeen(m, r) == ExceptDistinct(m, r)

\* LimitBy::next: a key at its limit is skipped, a new key starts at one.
WithinLimit(m, r) ==
  IF r \in DOMAIN m /\ m[r] >= plan.limit THEN <<m, FALSE>> ELSE <<Bump(m, r), TRUE>>

Admit(m, r) ==
  CASE plan.op = "limit_by" -> WithinLimit(m, r)
    [] plan.op = "intersect" /\ Builds(plan) /\ plan.all  -> IntersectAll(m, r)
    [] plan.op = "intersect" /\ Builds(plan) /\ ~plan.all -> IntersectDistinct(m, r)
    [] plan.op = "except" /\ Builds(plan) /\ plan.all     -> ExceptAll(m, r)
    [] plan.op = "except" /\ Builds(plan) /\ ~plan.all    -> ExceptDistinct(m, r)
    [] OTHER -> FirstSeen(m, r)

(* A whole block through the table: the rows kept, and the table after.     *)
Admitted(block) ==
  FoldLeft(LAMBDA acc, r : LET a == Admit(acc.counts, r)
                           IN  [counts |-> a[1],
                                rows   |-> IF a[2] THEN Append(acc.rows, r) ELSE acc.rows],
           [counts |-> op.counts, rows |-> <<>>], block)

\* A Union of distinct rows is Distinct over Union; UNION ALL and a set
\* operation of one branch with ALL hand every row on.
Keyed(p) == \/ p.op \in {"limit_by", "distinct"}
            \/ Builds(p)
            \/ p.op \in {"union", "intersect", "except"} /\ ~p.all

KeyedNext ==
  /\ Running /\ Keyed(plan)
  /\ Builds(plan) => op.built /\ ~op.empty
  /\ LET b == IF Builds(plan) THEN 1 ELSE op.branch
     IN  /\ b <= Len(src) /\ src[b] # <<>>
         /\ LET a == Admitted(Head(src[b]))
            IN  op' = [op EXCEPT !.counts = a.counts] /\ Emit(a.rows)
         /\ Pulled(b)
  /\ UNCHANGED <<plan, status>>

-----------------------------------------------------------------------------
(* Limit::next, one block of its input.                                     *)
LimitNext ==
  /\ Running /\ plan.op = "limit" /\ op.emitted < plan.limit
  /\ src[1] # <<>>
  /\ LET block == Head(src[1])
         left  == plan.offset - op.skipped
         skip  == IF left < Len(block) THEN left ELSE Len(block)
         rest  == SubSeq(block, skip + 1, Len(block))
         room  == plan.limit - op.emitted
         kept  == IF Len(rest) > room THEN SubSeq(rest, 1, room) ELSE rest
     IN  /\ op' = [op EXCEPT !.skipped = @ + skip, !.emitted = @ + Len(kept)]
         /\ Emit(kept)
  /\ Pulled(1)
  /\ UNCHANGED <<plan, status>>

(* Filter::next: only a predicate that is TRUE selects the row.             *)
FilterNext ==
  /\ Running /\ plan.op = "filter" /\ src[1] # <<>>
  /\ LET block == Head(src[1])
     IN  Emit(Take(block, [i \in DOMAIN block |-> plan.pred[block[i]] = "true"]))
  /\ Pulled(1)
  /\ UNCHANGED <<plan, op, status>>

(* Union::next with every row kept, and Values::next, which cuts its rows   *)
(* into blocks: both pass a block on.                                       *)
PassNext ==
  /\ Running /\ ~Keyed(plan)
  /\ plan.op \in {"union", "intersect", "except", "values"}
  /\ ~Builds(plan) /\ op.branch <= Len(src) /\ src[op.branch] # <<>>
  /\ Emit(Head(src[op.branch]))
  /\ Pulled(op.branch)
  /\ UNCHANGED <<plan, op, status>>

\* Union::next moves to the next input when one is drained.
UnionNextBranch ==
  /\ Running /\ plan.op \in {"union", "intersect", "except"} /\ ~Builds(plan)
  /\ op.branch < Len(src) /\ src[op.branch] = <<>>
  /\ op' = [op EXCEPT !.branch = @ + 1]
  /\ UNCHANGED <<plan, src, out, status>>

-----------------------------------------------------------------------------
(* Project::new settles, once, how each output column is made: the last     *)
(* mention of an input column moves it out of the block, an earlier one     *)
(* copies it, anything else is computed.  exprs[i] is <<"column", <<i>>>> or *)
(* <<"call", the columns it reads>>.                                        *)
Step(exprs, i) ==
  IF exprs[i][1] = "call" THEN "computed"
  ELSE IF \E j \in DOMAIN exprs : j > i /\ exprs[j] = exprs[i] THEN "copy" ELSE "take"

\* eval over the block's columns as they stand.
Eval(e, columns) == [j \in DOMAIN e[2] |-> columns[e[2][j]]]

(* Project::next: computed columns first, over the intact block, then the   *)
(* moves and copies in order.                                               *)
Project1(exprs, columns) ==
  LET scratch == [i \in {j \in DOMAIN exprs : Step(exprs, j) = "computed"} |->
                    Eval(exprs[i], columns)]
      Make(acc, i) ==
        LET c == IF Step(exprs, i) = "computed" THEN scratch[i] ELSE acc.left[exprs[i][2][1]]
        IN  [made |-> Append(acc.made, c),
             left |-> IF Step(exprs, i) = "take" THEN [acc.left EXCEPT ![exprs[i][2][1]] = Hole]
                      ELSE acc.left]
  IN  FoldLeft(Make, [made |-> <<>>, left |-> columns],
               [i \in 1 .. Len(exprs) |-> i]).made

ProjectNext ==
  /\ Running /\ plan.op = "project" /\ src[1] # <<>>
  /\ Emit(Project1(plan.exprs, Head(src[1])))
  /\ Pulled(1)
  /\ UNCHANGED <<plan, op, status>>

-----------------------------------------------------------------------------
(* next() answers None and execute_ctx returns what it collected.           *)
Exhausted ==
  \/ plan.op = "limit" /\ op.emitted >= plan.limit
  \/ Builds(plan) /\ op.built /\ (op.empty \/ src[1] = <<>>)
  \/ ~Builds(plan) /\ op.branch = Len(src) /\ src[op.branch] = <<>>

Finish == /\ Running /\ Exhausted
          /\ status' = "done"
          /\ UNCHANGED <<plan, src, op, out>>

Next == \/ BuildBlock \/ BuildNextBranch \/ KeyedNext \/ LimitNext \/ FilterNext
        \/ PassNext \/ UnionNextBranch \/ ProjectNext \/ Finish
        \/ Cancel \/ OverBudget

Spec == Init /\ [][Next]_vars

-----------------------------------------------------------------------------
(* What SQL says each operator answers, from the branches alone.            *)

Least(S) == CHOOSE n \in S : \A m \in S : n <= m

InAll(r) == Least({Times(r, Rows(plan.input[b])) : b \in DOMAIN plan.input})

InRest(r) == Times(r, Rows(FlattenSeq(Tail(plan.input))))

\* How many copies of r the answer of a set operation holds.
Copies(r) ==
  LET left  == Times(r, Rows(plan.input[1]))
      total == Times(r, Rows(FlattenSeq(plan.input)))
      n == CASE plan.op = "intersect" -> InAll(r)
             [] plan.op = "except"    ->
                  IF plan.all THEN (IF left > InRest(r) THEN left - InRest(r) ELSE 0)
                  ELSE (IF InRest(r) = 0 THEN left ELSE 0)
             [] OTHER -> total
  IN  IF plan.all \/ n = 0 THEN n ELSE 1

\* The first n occurrences of every row, in input order.
FirstOf(rows, n) ==
  Take(rows, [i \in DOMAIN rows |-> Times(rows[i], SubSeq(rows, 1, i - 1)) < n])

Answer ==
  LET rows == Rows(plan.input[1])
  IN  CASE plan.op = "filter"   -> Take(rows, [i \in DOMAIN rows |-> plan.pred[rows[i]] = "true"])
        [] plan.op = "limit"    -> SubSeq(rows, plan.offset + 1, Least({plan.offset + plan.limit, Len(rows)}))
        [] plan.op = "limit_by" -> FirstOf(rows, plan.limit)
        [] plan.op = "distinct" -> FirstOf(rows, 1)
        [] OTHER                -> rows

\* Every expression over the block the child returned, in the order written.
Projected(block) ==
  [i \in DOMAIN plan.exprs |-> IF plan.exprs[i][1] = "column" THEN block[plan.exprs[i][2][1]]
                               ELSE Eval(plan.exprs[i], block)]

(* Not covered: LIMIT 0 BY, which binder.rs (const_count) accepts and       *)
(* LimitBy::next answers with one row per key, the first of each being kept *)
(* before the limit is looked at (limit_zero_by of MCPlannerFlaws).         *)
LimitZeroBy == plan.op = "limit_by" /\ plan.limit = 0

(* A finished query answered exactly what SQL defines: the block boundaries *)
(* of its branches, the order the operator reads them in, the rows it       *)
(* counts and the columns it moves out of a block leave no trace.  Set      *)
(* operations promise a bag, the others a sequence.  The exception is       *)
(* LimitZeroBy.                                                             *)
StreamAnswer ==
  status = "done" /\ plan.op \in Names /\ ~LimitZeroBy =>
    CASE plan.op \in {"union", "intersect", "except"} ->
           \A r \in Row : Times(r, Rows(out)) = Copies(r)
      [] plan.op = "project" -> out = [i \in DOMAIN plan.input[1] |-> Projected(plan.input[1][i])]
      [] OTHER -> Rows(out) = Answer

=============================================================================
