\* Whether the shipped redaction leaves every verdict as it was.
CONSTANTS
  FactKeys    <- MCFactKeys
  FactValues  = {}
  Segments    <- MCSegments
  InScopeApps <- MCApps
  Dataset     <- MCDataset
  Lifecycles  <- MCLifecycles
  AsOf        <- MCAsOf
  MaxExcluded <- MCMaxExcluded
  Cases       <- MCShippedCases
  Unreadable  <- MCUnreadable
SPECIFICATION Spec
INVARIANT RedactionMovesNoVerdict
\* A subject's assessment ends.
CHECK_DEADLOCK FALSE
