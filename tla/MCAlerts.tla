------------------------------- MODULE MCAlerts -------------------------------
\* Alerts for TLC: a Claude session known by its hooks, and one of another harness
\* whose record shows its waits and which contends for the machine-wide floor.
EXTENDS Alerts, TLC
=============================================================================
