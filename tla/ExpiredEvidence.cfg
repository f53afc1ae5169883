SPECIFICATION Spec
CONSTANTS
  FactKeys <- MCFactKeys
  FactValues <- MCFactValues
  Controls <- MCControls
  Subjects <- MCSubjects
  Platforms <- MCPlatforms
  Checks <- MCChecks
  CheckPos <- MCCheckPos
  Automated <- MCAutomated
  Platform <- MCPlatform
  Binds <- MCBinds
  Required <- MCRequired
  Window <- MCWindow
  Ceiling <- MCCeiling
  Scope <- MCScope
  Freshness <- MCFreshness
  Judge <- MCJudge
  TemplateControls <- MCTemplateControls
  Runs <- OneRun
  Baselines <- OneBaseline
  FileLists <- Pairs
  Totals <- Given
  MaxJobs = 1
  MaxHour = 3
INVARIANT
  ReportShowsOnlyFreshEvidence
CHECK_DEADLOCK FALSE
