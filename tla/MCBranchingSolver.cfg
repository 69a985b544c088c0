CONSTANTS
  Instances <- MCInstances
  Configurations <- MCConfigurations
  FirstApplicable <- MCFirstApplicable
  MaxBranch <- MCMaxBranch
  Apply <- MCApply
  Weight <- MCWeight
  Optimum <- MCOptimum
  Seeds <- MCSeeds
  Thresholds <- MCThresholds
  Unbounded = 1000
  ClockCheckStride = 2
SPECIFICATION Spec
INVARIANTS
  StackIsPath ReplayIsPristine ReturnsTheIncumbent ExactWhenExplored
  CertifiedIsValid StopsPromptly
PROPERTY Answers
CHECK_DEADLOCK FALSE
