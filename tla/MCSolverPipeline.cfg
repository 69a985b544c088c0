CONSTANTS
  Tracks <- MCTracks
  Instances <- MCInstances
  ValidityConstants <- MCValidityConstants
  NoLine = NoLine
  NoOutput = NoOutput
SPECIFICATION Spec
INVARIANTS ClustersLineUp SeedsFresh RootsCutTogether PrintedAgrees PrintedIsOptimal PrintedIsValid
PROPERTY Terminates
CHECK_DEADLOCK FALSE
