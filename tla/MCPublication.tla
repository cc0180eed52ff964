--------------------------- MODULE MCPublication ---------------------------
\* Publication for TLC: two requests, the two variants, two saves.
EXTENDS Publication, TLC

Symmetry == Permutations(Readers) \cup Permutations(Clients)
=============================================================================
