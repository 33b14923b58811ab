----------------------------- MODULE MCTableStore -----------------------------
EXTENDS TableStore, TLC

\* Keys and values are interchangeable: nothing orders them here.
Symmetric == Permutations(Keys) \cup Permutations(Vals)

\* No guard reads the label of the last statement, so states that differ in it
\* alone have the same successors.  Every step is still checked with its label,
\* which is new for a statement and kept by any other step.
Unlabelled == <<delta, pub, view, inTxn, poisoned, phase>>
=============================================================================
