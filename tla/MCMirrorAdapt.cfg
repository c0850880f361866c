\* The delay follows the round trip, up at once and down one frame at a time, on each PC by
\* itself, while one PC's simulation may drift at any frame.
SPECIFICATION Spec
CONSTANTS
  Host = Host
  Joiner = Joiner
  Idle = 0
  Pads = {0}
  Delays = {0}
  Builds = {"a"}
  MaxDelay = 2
  CheckEvery = 1
  Cooldown = 1
  Calm = 2
  Samples = {0, 2}
  RttWindow = 1
  UdpWindow = 2
  BookSize = 3
  Udp = FALSE
  Faults = {"drift"}
  MaxFrame = 4
INVARIANTS
  OwnInputReady
  SkewBounded
  NoFalseAlarm
  DriftCaughtInTime
CHECK_DEADLOCK FALSE
