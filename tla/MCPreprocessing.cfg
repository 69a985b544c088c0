CONSTANTS
  Instances <- MCInstances
  Pipelines <- MCPipelines
SPECIFICATION Spec
INVARIANTS ReductionIsMaximal KeepsTheOptimum AncestorsAreLeast PointsAreCommon
PROPERTY Reduces
CHECK_DEADLOCK FALSE
