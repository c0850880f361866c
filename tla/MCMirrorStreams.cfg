\* Every pad byte on every frame: a short match on a steady line, UDP beside TCP.
SPECIFICATION Spec
CONSTANTS
  Host = Host
  Joiner = Joiner
  Idle = 0
  Pads = {0, 1}
  Delays = {0}
  Builds = {"a"}
  MaxDelay = 2
  CheckEvery = 3
  Cooldown = 1
  Calm = 1
  Samples = {2}
  RttWindow = 1
  UdpWindow = 3
  BookSize = 2
  Udp = TRUE
  Faults = {}
  MaxFrame = 3
INVARIANTS
  SameMatch
  NothingGuessed
PROPERTIES
  ImplementsMatch
CHECK_DEADLOCK FALSE
