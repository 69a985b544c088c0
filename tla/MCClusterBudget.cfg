CONSTANTS
  WeightLists <- MCWeightLists
  Budgets <- MCBudgets
  MaxSeeding = 1
  MaxLate = 2
SPECIFICATION Spec
INVARIANTS NobodyStarves NoTimeIsWasted
CHECK_DEADLOCK FALSE
