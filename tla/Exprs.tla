------------------------------- MODULE Exprs -------------------------------
(***************************************************************************)
(* Bound expressions (planner/logical.rs: BoundExpr) and their value on a  *)
(* row (exec/expr.rs).  A value is a natural number or NULL; a truth value *)
(* is 1, 0 or NULL; columns are numbered from 1.                           *)
(*                                                                         *)
(* "call" is any deterministic scalar function, which the optimizer never  *)
(* folds.  "rand" is an impure one: its value belongs to the row it is     *)
(* drawn for, so that moving it to another row changes it.                 *)
(***************************************************************************)
EXTENDS Integers, Sequences, SequencesExt, FiniteSets, FiniteSetsExt

NULL == -1

\* The members of a sequence whose place passes the test, in order.
Places(s) == [i \in DOMAIN s |-> i]
Pick(s, Test(_)) ==
  LET at == SelectSeq(Places(s), Test) IN [n \in DOMAIN at |-> s[at[n]]]

\* A node; o is the operator or a name, q a qualifier, sub a subquery.  neg is
\* the negation of a test, and of a column that its type is nullable.
Node == [k |-> "lit", o |-> "", q |-> "", v |-> 0, list |-> <<>>, neg |-> FALSE,
         args |-> <<>>, sub |-> <<>>]

Lit(v)         == [Node EXCEPT !.v = v]
Col(i)         == [Node EXCEPT !.k = "col", !.v = i]
ColOf(i, nul)  == [Col(i) EXCEPT !.neg = nul]
Not(a)         == [Node EXCEPT !.k = "not", !.args = <<a>>]
Bin(k, a, b)   == [Node EXCEPT !.k = k, !.args = <<a, b>>]
And(a, b)      == Bin("and", a, b)
Or(a, b)       == Bin("or", a, b)
Cmp(o, a, b)   == [Bin("cmp", a, b) EXCEPT !.o = o]
Eq(a, b)       == Cmp("eq", a, b)
Add(a, b)      == Bin("add", a, b)
In(a, l, n)    == [Node EXCEPT !.k = "in", !.args = <<a>>, !.list = l, !.neg = n]
IsNull(a, n)   == [Node EXCEPT !.k = "isnull", !.args = <<a>>, !.neg = n]
Coalesce(a, b) == Bin("coalesce", a, b)
Case(w, t, e)  == [Node EXCEPT !.k = "case", !.args = <<w, t, e>>]
Call(args)     == [Node EXCEPT !.k = "call", !.args = args]
Rand           == [Node EXCEPT !.k = "rand"]

Logical(e)  == e.k \in {"and", "or"}
IsLit(e)    == e.k = "lit"
IsCol(e)    == e.k = "col"

\* BoundExpr::ty is Bool: the operators that answer a truth value.
IsBool(e) == e.k \in {"not", "and", "or", "cmp", "in", "isnull"}

-----------------------------------------------------------------------------
(* Values.                                                                 *)

B(b) == IF b THEN 1 ELSE 0
True(v) == v # NULL /\ v # 0

Holds(o, x, y) ==
  CASE o = "eq" -> x = y [] o = "ne" -> x # y [] o = "lt" -> x < y
    [] o = "le" -> x <= y [] o = "gt" -> x > y [] o = "ge" -> x >= y

Compare(o, x, y) == IF x = NULL \/ y = NULL THEN NULL ELSE B(Holds(o, x, y))

\* functions/scalar.rs: and, or, not are Kleene's.
Kleene(k, x, y) ==
  LET dominant == k = "or"
      Is(v) == v # NULL /\ (v # 0) = dominant
  IN  IF Is(x) \/ Is(y) THEN B(dominant)
      ELSE IF x = NULL \/ y = NULL THEN NULL ELSE B(~dominant)

Negation(x) == IF x = NULL THEN NULL ELSE B(x = 0)

\* eval_in_list: a NULL probe, and a miss in a list that has a NULL, are NULL.
Member(x, list, neg) ==
  IF x = NULL THEN NULL
  ELSE IF x \in ToSet(list) THEN B(~neg)
  ELSE IF NULL \in ToSet(list) THEN NULL ELSE B(neg)

\* Some deterministic function that tells NULL apart, as if() and coalesce do.
Scalar(xs) == (Len(xs) + SumFunction(xs)) % 3

Apply(e, xs) ==
  CASE e.k = "not"    -> Negation(xs[1])
    [] Logical(e)     -> Kleene(e.k, xs[1], xs[2])
    [] e.k = "cmp"    -> Compare(e.o, xs[1], xs[2])
    [] e.k = "add"    -> IF NULL \in ToSet(xs) THEN NULL ELSE xs[1] + xs[2]
    [] e.k = "in"     -> Member(xs[1], e.list, e.neg)
    [] e.k = "isnull" -> B((xs[1] = NULL) # e.neg)
    [] e.k = "case"   -> IF True(xs[1]) THEN xs[2] ELSE xs[3]
    [] e.k = "coalesce" -> IF xs[1] # NULL THEN xs[1] ELSE xs[2]
    [] e.k = "call"   -> Scalar(xs)

RECURSIVE Eval(_, _)
Eval(e, row) ==
  CASE e.k = "lit"  -> e.v
    [] e.k = "col"  -> row[e.v]
    [] e.k = "rand" -> (Len(row) + SumFunction(row)) % 2
    [] OTHER        -> Apply(e, [i \in DOMAIN e.args |-> Eval(e.args[i], row)])

\* eval_predicate: the rows where the value is neither NULL nor zero.
Passes(e, row) == True(Eval(e, row))

-----------------------------------------------------------------------------
(* Walks over an expression.                                               *)

\* visit, referenced_columns.
RECURSIVE Cols(_)
Cols(e) == IF IsCol(e) THEN {e.v}
           ELSE UNION {Cols(e.args[i]) : i \in DOMAIN e.args}

\* optimizer.rs subst_columns, binder.rs substitute: the columns f has a say on.
RECURSIVE Subst(_, _)
Subst(e, f) == IF IsCol(e) THEN (IF e.v \in DOMAIN f THEN f[e.v] ELSE e)
               ELSE [e EXCEPT !.args = [i \in DOMAIN e.args |-> Subst(e.args[i], f)]]

\* remap_columns.
RECURSIVE Remap(_, _)
Remap(e, f) == IF IsCol(e) THEN [e EXCEPT !.v = f[@]]
               ELSE [e EXCEPT !.args = [i \in DOMAIN e.args |-> Remap(e.args[i], f)]]

\* Whether the type of an expression is nullable (BoundExpr::ty and the return
\* types of the functions).
RECURSIVE Nullable(_)
Nullable(e) ==
  LET some == \E i \in DOMAIN e.args : Nullable(e.args[i])
  IN  CASE e.k = "lit" -> e.v = NULL
        [] e.k = "col" -> e.neg
        [] e.k \in {"in", "isnull", "call", "rand"} -> FALSE
        [] e.k = "coalesce" -> \A i \in DOMAIN e.args : Nullable(e.args[i])
        [] e.k = "case" -> Nullable(e.args[2]) \/ Nullable(e.args[3])
        [] OTHER -> some

RECURSIVE SplitConjuncts(_)
SplitConjuncts(e) ==
  IF e.k = "and" THEN SplitConjuncts(e.args[1]) \o SplitConjuncts(e.args[2]) ELSE <<e>>

JoinConjuncts(cs) == FoldLeft(LAMBDA a, c : And(a, c), cs[1], Tail(cs))

AllPass(cs, row) == \A i \in DOMAIN cs : Passes(cs[i], row)

RECURSIVE Deterministic(_)
Deterministic(e) == e.k # "rand" /\ \A i \in DOMAIN e.args : Deterministic(e.args[i])
=============================================================================
