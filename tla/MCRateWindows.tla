---------------------------- MODULE MCRateWindows ----------------------------
\* TLC instances of RateWindows.
EXTENDS RateWindows, TLC

Symmetry == Permutations(Visitors) \cup Permutations(Addresses)
=============================================================================
