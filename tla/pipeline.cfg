SPECIFICATION Spec
CONSTANTS
  Pipelines <- MCPipelines
  MaxExact = 4
INVARIANT RepairsConverge
INVARIANT RepairedStays
INVARIANT ReloadMeansTheSame
