SPECIFICATION FairSpec
CONSTANTS
  Hosts <- MCHosts
  Nodes <- MCNodes
  NodeOf <- MCNodeOf
  NoNode = "no node"
  Roles <- MCRoles
  Scopes <- ServersAndStations
  RunIds <- MCRunIds
  RunIdOf <- FreshRunId
  MinCoverage = 60
  MaxRuns = 2
INVARIANTS
  TypeOK
  EvidenceIsFromThisRun
  FoundIsReached
  GateSpeaksOfWhatIsEvaluated
  FailuresAreIsolated
PROPERTIES
  PublishedOnlyWhenReached
  UnreachedSubjectsShow
  LedgerIsKept
  RunEnds
CHECK_DEADLOCK FALSE
