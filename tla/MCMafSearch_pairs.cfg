CONSTANTS
  Families = {"pairs", "some triples"}
  Instances <- MCInstances
  Configurations <- MCConfigurations
  FirstApplicable <- MCFirstApplicable
  MaxBranch <- Branches
  Apply <- ChainOutcomes
  Weight <- InstanceWeight
  Optimum <- MCOptimum
  Seeds <- MCSeeds
  Thresholds <- MCThresholds
  Unbounded = 1000
  ClockCheckStride = 2
SPECIFICATION Spec
INVARIANTS RulesAreExact ApproximationRatio
CHECK_DEADLOCK FALSE
