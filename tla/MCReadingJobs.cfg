CONSTANTS
  Jobs = {j1, j2}
  Sessions = {"s"}
  SessionOf <- MCSessionOf
  Faults = {"marker", "store", "doubt"}
  MaxDeaths = 2
SPECIFICATION Spec
SYMMETRY Symmetry
CHECK_DEADLOCK FALSE
INVARIANTS
  ChargeKept CountEqualsCharge CancelHonoured OutcomeSays KillOwed
  StopLeavesNoCli OnePerSession
