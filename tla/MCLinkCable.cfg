\* Player 1 sends two bytes and player 2 one; player 2 holds the other off once; the host
\* captures memory, saves the pair and comes back to it between any two calls.
SPECIFICATION FairSpec
CONSTANTS
  A = "player 1"
  B = "player 2"
  ByteTicks = 3
  Silicon = {TRUE, FALSE}
  Quantum = 4
  LineTicks = 3
  Scanlines = 2
  Costs = {2}
  Places = {"code"}
  MaxBytes <- TwoAndOne
  MaxToggles <- OnlySecond
  Snapshots = TRUE
INVARIANTS NothingLost 
PROPERTY AllArrive
