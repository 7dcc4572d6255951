----------------------------- MODULE MCLakehouse -----------------------------
\* TLC instances of Lakehouse.
EXTENDS Lakehouse, TLC

Symmetry == Permutations(Events)
=============================================================================
