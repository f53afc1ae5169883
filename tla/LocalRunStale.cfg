SPECIFICATION Spec
CONSTANTS
  Hosts <- MCHosts
  Nodes <- MCNodes
  NodeOf <- MCNodeOf
  NoNode = "no node"
  Roles <- MCRoles
  Scopes <- ServersAndStations
  RunIds <- MCRunIds
  RunIdOf <- LocalRunId
  MinCoverage = 60
  MaxRuns = 2
INVARIANT
  EvidenceIsFromThisRun
CHECK_DEADLOCK FALSE
