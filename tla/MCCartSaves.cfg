SPECIFICATION Spec
CONSTANTS
  Granule = {1, 2}
  Block <- MCBlock
  MaxLaunches = 3
  Modes = {"rom", "both", "sidecar"}
  Parts = {"datasheet"}
  Pristine <- MCPristine
  Tried <- MCTried
CHECK_DEADLOCK FALSE
INVARIANTS SaveComesBack CleanMeansStored
PROPERTIES OnlyCommandsChangeCells
