CONSTANTS
  Families = {"small pairs", "triples", "clusters", "chains"}
  Instances <- MCInstances
  Configurations <- MCConfigurations
  FirstApplicable <- MCFirstApplicable
  MaxBranch <- Branches
  Apply <- ChainOutcomes
  Weight <- InstanceWeight
  Optimum <- MCOptimum
  Seeds <- MCSeeds
  Thresholds <- MCThresholds
  Unbounded = 1000
  ClockCheckStride = 2
SPECIFICATION Spec
INVARIANTS SolutionAgrees RulesCover RulesKeepOptimum ReplaysRepeat
CHECK_DEADLOCK FALSE
