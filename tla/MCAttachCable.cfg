SPECIFICATION PageSpec
CONSTANTS
  ByteTicks = 2
  Modes = {"cable", "mirror"}
  MaxSessions = 3
  MaxQueue = 2
INVARIANT CableStartsClean
