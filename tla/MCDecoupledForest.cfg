CONSTANTS
  Label <- MCLabel
  Node <- MCNode
  Nodes <- MCNodes
  Texts <- MCTexts
  WordSize = 4
  MaxPoints <- MCPoints
  MaxCuts = 3
  Nil = Nil
SPECIFICATION Spec
INVARIANTS PointersFit KeepsShape
PROPERTY CouplesComponents
CHECK_DEADLOCK FALSE
