\* Refusals, departures and a dying line: sessions whose settings may differ, a short match.
SPECIFICATION FairSpec
CONSTANTS
  Host = Host
  Joiner = Joiner
  Idle = 0
  Pads = {0}
  Delays = {0, 1}
  Builds = {"a", "b"}
  MaxDelay = 2
  CheckEvery = 2
  Cooldown = 1
  Calm = 1
  Samples = {2}
  RttWindow = 1
  UdpWindow = 2
  BookSize = 2
  Udp = TRUE
  Faults = {"leave", "cut"}
  MaxFrame = 2
INVARIANTS
  NothingPlayedOnMismatch
PROPERTIES
  NobodyWaitsForever
  RefusalReachesBoth
CHECK_DEADLOCK FALSE
