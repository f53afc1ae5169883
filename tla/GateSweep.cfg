SPECIFICATION Spec
CONSTANTS
  MaxInScope = 130
  Thresholds = {0, 50, 95, 100}
INVARIANTS
  PassIsNearlyEarned
  RefusalIsEarned
CHECK_DEADLOCK FALSE
