------------------------------- MODULE MCAsks -------------------------------
\* Asks for TLC: one room in the budget for two questions, two clicks at once.
EXTENDS Asks, TLC

Symmetry == Permutations(Asks) \cup Permutations(Clickers)
=============================================================================
