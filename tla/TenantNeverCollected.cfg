SPECIFICATION Spec
CONSTANTS
  Hosts <- MCHosts
  Nodes <- MCNodes
  NodeOf <- MCNodeOf
  NoNode = "no node"
  Roles <- MCRoles
  Scopes <- WithTenant
  RunIds <- MCRunIds
  RunIdOf <- FreshRunId
  MinCoverage = 95
  MaxRuns = 2
INVARIANT
  HealthyEstateIsCovered
CHECK_DEADLOCK FALSE
