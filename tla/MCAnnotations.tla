----------------------------- MODULE MCAnnotations -----------------------------
\* The annotation store for TLC: two dashboards of one home, a page and a reading on each.
EXTENDS Annotations, TLC

CONSTANTS d1, d2, p1, p2, j1, j2, w1, w2
Served == p1 :> d1 @@ p2 :> d2
Started == j1 :> d1 @@ j2 :> d2
Texts == Permutations({w1, w2})
=============================================================================
