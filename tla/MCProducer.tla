------------------------------ MODULE MCProducer ------------------------------
\* TLC instances of Producer.
EXTENDS Producer, TLC

Symmetry == Permutations(Runs)
=============================================================================
