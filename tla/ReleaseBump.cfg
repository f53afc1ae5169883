SPECIFICATION Spec
CONSTANTS
  Tags <- MCTags
  Commits <- MCCommits
  Place <- MCPlace
  Published <- MCPublished
  FirstTagged <- MCFirstTagged
  Artifacts <- MCArtifacts
  Controls <- MCControls
  Texts <- MCTexts
  CatalogText <- MCCatalogText
  Ids <- MCIds
  Paths <- MCPaths
  Drafts <- MCDrafts
  FirstTree <- MCFirstTree
  Branches = {bump, feature}
  MaxBranches = 2
  MaxFetches = 2
  MaxMoves = 1
INVARIANTS
  TypeOK
  GreenIsReviewed
  GreenIsPublished
SYMMETRY Alike
CHECK_DEADLOCK FALSE
