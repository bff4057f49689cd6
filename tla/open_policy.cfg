SPECIFICATION Spec
CONSTANTS
  p1 = p1  p2 = p2  p3 = p3  p4 = p4
  Openers = {p1, p2, p3, p4}
  Mode <- Modes
  NoOpener = NoOpener
  MaxOpens = 2
  MaxAttempts = 7
  MaxReadErrors = 1
  MaxPowerLosses = 1
INVARIANTS TypeOK OpensCovered OpensWithinBudget
CHECK_DEADLOCK FALSE
