CONSTANTS
  Label <- MCLabel
  Node <- MCNode
  Tree <- MCTree
  Start <- MCStart
SPECIFICATION Spec
INVARIANT ForestsValid
PROPERTY EditsOnlySplit
CHECK_DEADLOCK FALSE
