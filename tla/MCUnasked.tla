------------------------------- MODULE MCUnasked -------------------------------
\* The unasked lane for TLC: two sessions, one of which its reader presses for.
EXTENDS Unasked, TLC

CONSTANTS s1, s2
JobsRead == [j \in Jobs |-> s1]
=============================================================================
