----------------------------- MODULE MCQueries -----------------------------
(***************************************************************************)
(* One run for what answers a query: a behaviour is either a statement on  *)
(* its way through the planner or an operator at work on its input.        *)
(***************************************************************************)
EXTENDS MCPlanner

CONSTANTS BlockSize, GallopAfter, FanIn, MaxLevel, RowsPerProbe, Claim

VARIABLES oplan, osrc, oop, oout, ostatus   \* the variables of MCOperators

ovars == <<oplan, osrc, oop, oout, ostatus>>

Ops == INSTANCE MCOperators WITH plan <- oplan, src <- osrc, op <- oop, out <- oout, status <- ostatus

NoJob == [k |-> "none"]
Planning == job # NoJob

NoPlan == oplan = NoJob /\ osrc = <<>> /\ oop = <<>> /\ oout = <<>> /\ ostatus = "none"
NoStatement == job = NoJob /\ db = <<>> /\ stage = "parsed" /\ query = <<>> /\ plan = Failed /\ answer = <<>>

QInit == (Init /\ NoPlan) \/ (Ops!Init /\ NoStatement)

QNext == \/ Planning /\ Next /\ UNCHANGED ovars
         \/ ~Planning /\ Ops!Next /\ UNCHANGED vars

QSpec == QInit /\ [][QNext]_<<vars, ovars>>

\* The streaming operators answer the rows their definition selects (Streams).
StreamAnswer == ~Planning => Ops!S!StreamAnswer

\* GROUP BY answers each group once with each row once, whatever spilled (Aggregate).
AggregateAnswer == ~Planning => Ops!A!AggregateAnswer

\* ORDER BY answers a sorted, stable permutation, or its first rows (SortOp).
SortAnswer == ~Planning => Ops!O!SortAnswer

\* A join answers each matching pair once and pads each unmatched row once (JoinOp).
JoinAnswer == ~Planning => Ops!J!JoinAnswer

\* A window function answers every row over its own frame (WindowOp).
WindowAnswer == ~Planning => Ops!W!WindowAnswer

\* Every access path answers what a serial scan of the live rows answers (ScanOp).
ScanAnswer == ~Planning => Ops!T!ScanAnswer

\* The budgets checked here are of the kind PoolProofs reasons about.
ASSUME BudgetsAreSizes == Ops!B!PlansOK

\* The workers of a query hold no more than its budget and return all of it (Budget).
BudgetKept == ~Planning => Ops!B!BudgetKept

\* An aggregate answers for its rows however they were cut and merged (Accumulators).
AccumulatorAnswer == ~Planning => Ops!F!AccumulatorAnswer

\* A specialised kernel answers what the values of its rows mean (Values).
KernelAnswer == ~Planning => Ops!V!KernelAnswer

\* Values that are equal hash alike and are found by the same probe (Values).
EqualKeysMeet == ~Planning => Ops!V!EqualKeysMeet
=============================================================================
