--------------------------- MODULE MCObservation ---------------------------
\* Observation for TLC: one source and the ask lane, one request thread.
EXTENDS Observation
=============================================================================
