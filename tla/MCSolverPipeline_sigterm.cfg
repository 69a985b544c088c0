CONSTANTS
  Tracks <- MCTracks
  Instances <- MCInstances
  ValidityConstants <- MCValidityConstants
  NoLine = NoLine
  NoOutput = NoOutput
SPECIFICATION Spec
INVARIANT SigtermPrints
CHECK_DEADLOCK FALSE
