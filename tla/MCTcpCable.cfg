\* Two acts of each player, in every pairing of programs, over kernels of two bytes.
SPECIFICATION FairSpec
CONSTANTS
  A = "player 1"
  B = "player 2"
  ByteTicks = 1
  Kinds <- CrossPlay
  Kernel = 2
  SniffPumps = 2
  MaxBytes <- TwoAndOne
  MaxStarts = 2
  Unplugs = FALSE
INVARIANTS NothingLost
PROPERTIES  DetectFollowsPeer Delivered
CHECK_DEADLOCK FALSE
