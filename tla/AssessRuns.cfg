SPECIFICATION Spec
CONSTANTS
  FactKeys <- MCFactKeys
  FactValues <- MCFactValues
  Controls <- MCControls
  Subjects <- MCSubjects
  Platforms <- MCPlatforms
  Checks <- MCChecks
  CheckPos <- MCCheckPos
  Automated <- MCAutomated
  Platform <- MCPlatform
  Binds <- MCBinds
  Required <- MCRequired
  Window <- MCWindow
  Ceiling <- MCCeiling
  Scope <- MCScope
  Freshness <- MCFreshness
  Judge <- MCJudge
  TemplateControls <- MCTemplateControls
  Runs <- TwoRuns
  Baselines <- OneBaseline
  FileLists <- Nights
  Totals <- Given
  MaxJobs = 2
  MaxHour = 1
INVARIANTS
  PoamIsLast
  LinksLead
PROPERTIES
  SameEvidenceSameFindings
  ItemsAreFollowedUp
CHECK_DEADLOCK FALSE
