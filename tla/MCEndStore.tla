----------------------------- MODULE MCEndStore -----------------------------
\* EndStore for TLC: sizes in the .cfg files, symmetry on threads and keys.
EXTENDS EndStore, TLC

Symmetry == Permutations(Threads) \cup Permutations(Keys)
=============================================================================
