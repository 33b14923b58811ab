--------------------------- MODULE MCPlannerFlaws ---------------------------
(***************************************************************************)
(* Statements whose answer a comment of the planner promises and the code  *)
(* gets wrong, planned one after the other.                                *)
(***************************************************************************)
EXTENDS MCPlanner

VARIABLES rest,     \* the statements still to plan
          wrong     \* the names of those answered wrongly

Stmt(name, q, fold) == [name |-> name, job |-> Query1(q, fold, TRUE)]

Small == [a |-> <<<<0, 1>>, <<1, 1>>, <<1, 2>>, <<NULL, 2>>>>, b |-> <<<<0, 0>>, <<0, 1>>, <<1, 2>>>>,
          c |-> <<<<0, 1>>, <<1, 1>>>>]

AB(r) == JoinRef(A, r, "inner", <<"k">>, <<>>)
ABC == JoinRef(AB(TB), C, "inner", <<"k">>, <<>>)

Flawed ==
  << Stmt("having_below_global_aggregate",
          Hav(Q(<<I(Count)>>, A, <<>>), Eq(Call(<<Lit(1)>>), Lit(0))), TRUE),
     Stmt("window_in_correlated_subquery",
          Q(<<I(ax)>>, A, <<InQuery(ax, Q(<<I(Over("row_number", <<>>, <<>>, <<Key(by, FALSE)>>))>>, TB, BEq(ak)), FALSE)>>), TRUE),
     Stmt("exists_over_global_aggregate",
          Q(<<I(ax)>>, A, <<Exists(Q(<<I(Count)>>, TB, BEq(ak)), FALSE)>>), TRUE),
     Stmt("having_in_correlated_scalar",
          Q(<<I(ax), I(Subquery(Hav(Q(<<I(Count)>>, TB, BEq(ak)), Gt(Count, Lit(1)))))>>, A, <<>>), TRUE),
     Stmt("anti_join_above_nested_using",
          Q(<<I(ax)>>, ABC, <<Exists(Q(<<I(Lit(1))>>, Table("c", "d"), <<Eq(Name("d", "z"), ax)>>), TRUE)>>), TRUE),
     Stmt("cte_shadows_in_subquery",
          [Q(<<I(cz)>>, C, <<InQuery(cz, Q(<<I(n("x"))>>, Table("a", ""), <<>>), FALSE)>>)
             EXCEPT !.with = <<[n |-> "a", q |-> Q(<<Item(Lit(0), "x")>>, <<>>, <<>>)]>>], TRUE),
     Stmt("correlation_in_parentheses",
          Q(<<I(ax)>>, A, <<Exists(Query(Nested(Q(<<I(Lit(1))>>, TB, BEq(ak)))), FALSE)>>), TRUE),
     Stmt("null_not_in_no_rows",
          Q(<<I(ax)>>, A, <<InQuery(ak, Q(<<I(bk)>>, TB, <<Gt(by, Lit(5))>>), TRUE)>>), TRUE),
     Stmt("limit_zero_by",
          [Q(<<I(ak), I(ax)>>, A, <<>>) EXCEPT !.by = <<0, <<ak>>>>], TRUE) >>

FInit ==
  /\ rest = Tail(Flawed) /\ wrong = {} /\ db = Small /\ job = Flawed[1].job
  /\ stage = "parsed" /\ query = <<>> /\ plan = Failed /\ answer = <<>>

Current == CHOOSE s \in ToSet(Flawed) : s.job = job

Conclude ==
  /\ stage \in {"refused", "lowered"}
  /\ wrong' = IF stage = "lowered" /\ ~Same(Rows(plan, db), Wanted) THEN wrong \cup {Current.name} ELSE wrong
  /\ rest' = IF rest = <<>> THEN rest ELSE Tail(rest)
  /\ job' = IF rest = <<>> THEN job ELSE rest[1].job
  /\ stage' = IF rest = <<>> THEN "done" ELSE "parsed"
  /\ plan' = Failed /\ answer' = <<>> /\ query' = <<>>
  /\ UNCHANGED db

FNext == (Next /\ UNCHANGED <<rest, wrong>>) \/ Conclude
FSpec == FInit /\ [][FNext]_<<vars, rest, wrong>>

\* Whatever the planner accepts it answers: each statement of Flawed is either
\* refused or gets the rows it means, which the comments quoted in the findings
\* promise.  It is not so: the last state of the counterexample lists the
\* statements that get other rows.
DocumentedAnswers == stage = "done" => wrong = {}
=============================================================================
