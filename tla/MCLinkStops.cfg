\* HALTs, breakpoints and traps anywhere; both games send a byte and raise RTS once.
SPECIFICATION Spec
CONSTANTS
  A = "player 1"
  B = "player 2"
  ByteTicks = 2
  Silicon = {TRUE}
  Quantum = 2
  LineTicks = 2
  Scanlines = 1
  Costs = {1}
  Places = {"code", "halt", "breakpoint", "trap"}
  MaxBytes <- OneEach
  MaxToggles <- OneEach
  Snapshots = FALSE
INVARIANT CableFresh
