SPECIFICATION FairSpec
CONSTANTS
  Host = "host"
  Joiner = "joiner"
  Builds = {"a", "b"}
  HostDelay = 1
  JoinerDelay = 2
  Sizes = {1, 2}
  Modes = {"mirror", "cable"}
  InFlight = 1
  Kernel = 2
  MaxSaves = 1
  Faults = {"leave", "corrupt", "slow"}
INVARIANTS SameCartridges 
PROPERTY GoodTradeStarts EveryoneSettles
CHECK_DEADLOCK FALSE
