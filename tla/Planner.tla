------------------------------ MODULE Planner ------------------------------
(***************************************************************************)
(* From a parsed statement to the plan that runs, one pass per step:       *)
(* Session::plan_in answers the subqueries that stand on their own, then   *)
(* the binder, the passes of optimize and optimize_costed, and lower.      *)
(* After every step the plan is asked for its rows on a database, which    *)
(* must be the rows the statement means.                                   *)
(***************************************************************************)
EXTENDS SqlMeaning, Optimizer

CONSTANTS Jobs,         \* [k, q, fold, ok] and, for UPDATE and DELETE, [k, t, set, pred, ok]
          Databases     \* functions from table names to sequences of rows

VARIABLES job, db, stage, query, plan, answer

vars == <<job, db, stage, query, plan, answer>>

-----------------------------------------------------------------------------
(* session.rs resolve_subqueries: a subquery that binds on its own is run  *)
(* and replaced by its value, its list, or its truth.                      *)

RECURSIVE FoldSub(_)
RECURSIVE FoldQuery(_)
RECURSIVE FoldBody(_)
RECURSIVE FoldRef(_)

FoldSubs(es) == [i \in DOMAIN es |-> FoldSub(es[i])]
FoldItems(xs) == [i \in DOMAIN xs |-> IF "e" \in DOMAIN xs[i] THEN [xs[i] EXCEPT !.e = FoldSub(@)] ELSE xs[i]]
REFUSED == Name("?", "?")       \* an error where it stands

\* e with its own subquery bound as b and answered with rows.
Folded(e, b, rows) ==
  IF b.err THEN e
  ELSE IF Len(b.names) # 1 \/ (e.k = "scalar" /\ Len(rows) > 1) THEN REFUSED
  ELSE CASE e.k = "scalar" -> Lit(IF rows = <<>> THEN NULL ELSE rows[1][1])
         [] e.k = "insub"  -> In(e.args[1], [i \in DOMAIN rows |-> rows[i][1]], e.neg)
         [] e.k = "exists" -> Lit(B((rows # <<>>) # e.neg))

FoldBound(e, b) == Folded(e, b, Rows(b.plan, db))

FoldInner(e) == [e EXCEPT !.args = FoldSubs(@)]

FoldSub(e) ==
  CASE e.k \in {"scalar", "insub", "exists"} -> FoldBound(FoldInner(e), BindQuery(FoldQuery(e.sub)))
    [] e.k = "win" -> [FoldInner(e) EXCEPT !.sub = [part |-> FoldSubs(@.part), order |-> FoldItems(@.order)]]
    [] OTHER -> FoldInner(e)

FoldRef(tr) ==
  CASE tr.k = "join" -> [tr EXCEPT !.l = FoldRef(@), !.r = FoldRef(@), !.on = FoldSubs(@)]
    [] tr.k = "sub"  -> [tr EXCEPT !.q = FoldQuery(@)]
    [] OTHER -> tr

FoldBody(b) ==
  CASE b.k = "select" ->
         [c \in DOMAIN b |-> CASE c = "items" -> FoldItems(b[c])
                               [] c \in {"prewhere", "where", "having"} -> FoldSubs(b[c])
                               [] c = "from" -> [i \in DOMAIN b[c] |-> FoldRef(b[c][i])]
                               [] OTHER -> b[c]]
    [] b.k = "query"  -> [b EXCEPT !.q = FoldQuery(@)]
    [] b.k = "set"    -> [b EXCEPT !.l = FoldBody(@), !.r = FoldBody(@)]
    [] b.k = "values" -> b

FoldQuery(q) ==
  [q EXCEPT !.with = [i \in DOMAIN @ |-> [@[i] EXCEPT !.q = FoldQuery(@)]],
            !.body = FoldBody(@), !.order = FoldItems(@)]

-----------------------------------------------------------------------------

Init ==
  /\ job \in Jobs /\ db \in Databases
  /\ stage = "parsed" /\ query = <<>> /\ plan = Failed /\ answer = <<>>

Resolve ==
  /\ stage = "parsed"
  /\ stage' = "resolved"
  /\ query' = IF job.k # "query" THEN <<>> ELSE IF job.fold THEN <<FoldQuery(job.q)>> ELSE <<job.q>>
  /\ UNCHANGED <<job, db, plan, answer>>

\* bind_query, bind_update, bind_delete.
Bound ==
  CASE job.k = "query"  -> BindQuery(query[1])
    [] job.k = "update" -> BindUpdate(job.t, job.set, job.pred)
    [] job.k = "delete" -> BindDelete(job.t, job.pred)

BindStatement ==
  /\ stage = "resolved"
  /\ \E b \in {Bound} :
       /\ plan' = b.plan
       /\ stage' = IF b.err THEN "refused" ELSE "bound"
       /\ answer' = Rows(b.plan, db)
  /\ UNCHANGED <<job, db, query>>

Pass(from, to, new) ==
  /\ stage = from /\ stage' = to
  /\ plan' = new
  /\ UNCHANGED <<job, db, query, answer>>

Fold      == Pass("bound", "folded", FoldConstants(plan))
Normalize == Pass("folded", "normalized", NormalizePredicates(plan))
PushDown  == Pass("normalized", "pushed", PushDownFilters(plan))
Zones     == Pass("pushed", "zoned", ExtractZoneFilters(plan))
Prune     == Pass("zoned", "pruned", PruneProjections(plan))

\* The cost model picks an order; a mutation's plan is not reordered.
Reorder ==
  \E p3 \in IF job.k = "query" THEN Permutations(1 .. 3) ELSE {[i \in 1 .. 3 |-> i]} :
    Pass("pruned", "reordered", ReorderJoins(plan, [n \in {3} |-> p3]))

LowerPlan == Pass("reordered", "lowered", Lower(plan))

Next == \/ Resolve \/ BindStatement \/ Fold \/ Normalize \/ PushDown
        \/ Zones \/ Prune \/ Reorder \/ LowerPlan

Spec == Init /\ [][Next]_vars

-----------------------------------------------------------------------------
(* Properties.                                                             *)

SameBag(r, s) == Len(r) = Len(s) /\ \A x \in ToSet(r) \cup ToSet(s) : Copies(x, r) = Copies(x, s)

Same(r, s) == IF job.k = "query" /\ job.q.order # <<>> THEN r = s ELSE SameBag(r, s)

\* A DELETE reads the columns its predicate names.
DeletedRows(rows, proj) == [i \in DOMAIN rows |-> [c \in DOMAIN proj |-> rows[i][proj[c]]]]

Wanted == CASE job.k = "query"  -> Meaning(job.q, db)
            [] job.k = "update" -> UpdateMeaning(job.t, job.set, job.pred, db)
            [] job.k = "delete" ->
                 DeletedRows(UpdateMeaning(job.t, <<>>, job.pred, db),
                             DemandProject([all |-> FALSE, names |-> NamesIn(job.pred)], job.t))

\* What the binder accepts answers the statement: three-valued NOT IN, the
\* count of an empty group, keys two blocks out, merged USING keys and the rest
\* come out as if every subquery were answered row by row (planner/binder.rs,
\* and the lowerings of planner/logical.rs, which say which four cases
\* "set-membership implementations get wrong").  It refuses, for every data,
\* exactly the statements a join cannot express (its unsupported errors).
BoundPlanAnswers ==
  /\ stage = "bound" => job.ok /\ Same(answer, Wanted)
  /\ stage = "refused" => ~job.ok

\* No pass of the optimizer, whatever join order the statistics suggest, and
\* no rewriting of lower changes the rows (planner/optimizer.rs, physical.rs).
PassesKeepTheAnswer ==
  stage \notin {"parsed", "resolved", "refused"} => Same(Rows(plan, db), answer)
=============================================================================
