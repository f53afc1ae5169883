\* Every family of checks over its worlds, with everything that can be missing
\* from the evidence and every redaction policy.
CONSTANTS
  FactKeys    <- MCFactKeys
  FactValues  = {}
  Segments    <- MCSegments
  InScopeApps <- MCApps
  Dataset     <- MCDataset
  Lifecycles  <- MCLifecycles
  AsOf        <- MCAsOf
  MaxExcluded <- MCMaxExcluded
  Cases       <- MCCases
  Unreadable  <- MCUnreadable
SPECIFICATION Spec
INVARIANTS
  TypeOK
  PassIsTrueOfTheSubject
  FailureIsTrueOfTheSubject
  SupportIsTrueOfTheSubject
  WritablePathsAreJudgedAsEnforced
  NotApplicableOnlyWhenAbsent
  UnreadIsNeverJudged
  MoreEvidenceOverturnsNothing
  SupportIsNeverGuessed
  NoIdentifierIsWritten
  RedactionAddsNoPass
\* A subject's assessment ends.
CHECK_DEADLOCK FALSE
