\* A single run of assess.yml, with a target or without.
SPECIFICATION Spec
CONSTANTS
  Groups   <- MCGroups
  Patterns <- MCPatterns
  MaxRuns  = 1
INVARIANT
  UnreachedIsNotFullCoverage
CHECK_DEADLOCK FALSE
