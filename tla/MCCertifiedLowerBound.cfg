SPECIFICATION Spec
CONSTANTS
  Instances <- MCInstances
  Candidates <- MCCandidates
INVARIANTS
  ThreeApproxIsValid
  RedBlueIsValid
  CompatibilityAgrees
PROPERTIES
  RoundsAsAssumed
