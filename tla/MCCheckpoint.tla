----------------------------- MODULE MCCheckpoint -----------------------------
\* Checkpoint for TLC: the names are ordered by SetToSeq, so no symmetry.
EXTENDS Checkpoint
=============================================================================
