CONSTANTS
  Label <- MCLabel
  Node <- MCNode
  Tree <- MCTree
  Parsed <- MCParsed
  WordSize = 3
  MaxEdits = 4
  Nil = Nil
SPECIFICATION Spec
INVARIANTS PointersAgree CountsExact ReadsBack
PROPERTY Implements
CHECK_DEADLOCK FALSE
