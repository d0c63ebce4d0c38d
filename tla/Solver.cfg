SPECIFICATION ClientSpec
CONSTANTS
  Names <- MCNames
  Packages <- MCPackages
  Heuristics <- MCHeuristics
  ClusterSizes = {2, 3, 99}
  Ccms <- MCCcms
  Facets <- MCFacets
  Values <- MCValues
  MaxUndo = 3
  OpenedCcms <- MCOpenedCcms
  Handles <- MCHandles
  DomainsGiven = TRUE
INVARIANTS
  CurrentIsRestrictedRoot
  ModelMeansConstraints
  ConflictIsExplained
  CoreIsMinimal
  EnforcementIsExact
  CommittedBaseHolds
  ReportsAreTrue
