CONSTANTS
  Instances <- CooperationTest
  Pipelines <- ReductionOnly
SPECIFICATION Spec
INVARIANT RulesCooperate
CHECK_DEADLOCK FALSE
