SPECIFICATION Spec
CONSTANTS
  Client = {a, b, c}
  Nobody = Nobody
  Hosts = {a}
  Joiners = {b, c}
  MaxRooms = 1
  MaxJoins = 1
  MaxBytes = 1
  HighWater = 1
  Patient = TRUE
CHECK_DEADLOCK FALSE
INVARIANTS PairingMutual RelayInOrder RoomsHaveHosts
 
