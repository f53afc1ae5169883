SPECIFICATION Spec
CONSTANTS
  FactKeys <- MCFactKeys
  FactValues <- MCFactValues
  Controls <- MCControls
  Subjects <- MCSubjects
  Platforms <- MCPlatforms
  Checks <- MCChecks
  CheckPos <- MCCheckPos
  Automated <- MCAutomated
  Platform <- MCPlatform
  Binds <- MCBinds
  Required <- MCRequired
  Window <- MCWindow
  Ceiling <- MCCeiling
  Scope <- MCScope
  Freshness <- MCFreshness
  Judge <- MCJudge
  TemplateControls <- MCTemplateControls
  Runs <- OneRun
  Baselines <- TwoBaselines
  FileLists <- Pairs
  Totals <- Given
  MaxJobs = 2
  MaxHour = 0
INVARIANT
  ReportDescribesOneAssessment
CHECK_DEADLOCK FALSE
