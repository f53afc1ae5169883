SPECIFICATION Spec
CONSTANTS
  FactKeys <- MCFactKeys
  FactValues <- MCFactValues
  Controls <- MCControls
  Subjects <- MCSubjects
  Platforms <- MCPlatforms
  Checks <- MCChecks
  CheckPos <- MCCheckPos
  Automated <- MCAutomated
  Platform <- MCPlatform
  Binds <- MCBinds
  Required <- MCRequired
  Window <- MCWindow
  Ceiling <- MCCeiling
  Scope <- MCScope
  Freshness <- MCFreshness
  Judge <- MCJudge
  TemplateControls <- MCTemplateControls
  Runs <- OneRun
  Baselines <- TwoBaselines
  FileLists <- Estates
  Totals <- GivenOrNot
  MaxJobs = 1
  MaxHour = 0
INVARIANTS
  TypeOK
  SatisfiedIsObserved
  FailureIsNeverHidden
  FailureIsObserved
  ConfidenceIsTheWeakest
  UndeterminedIsAccountedFor
  ReportTellsTheReason
  AnnexKeepsOtherRows
  PopulationIsHonest
CHECK_DEADLOCK FALSE
