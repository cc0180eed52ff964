--------------------------- MODULE MCReadingJobs ---------------------------
\* ReadingJobs for TLC: every job on one session, so that presses contend for it.
EXTENDS ReadingJobs, TLC

MCSessionOf == [j \in Jobs |-> "s"]
Symmetry == Permutations(Jobs)
=============================================================================
