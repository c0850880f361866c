SPECIFICATION Spec
CONSTANTS
  LineUnits = 2
  Visible = 2
  LastLine = 3
  TapUnits = 2
  EntryUnits = 1
  MaxInstr = 3
  Channel = {0}
  Starts = {"t0", "vblank"}
  Counts = {3}
  Wrap = 4
  Programs <- MCPrograms
  LevelMaps <- MCLevelMaps
  Masks = {0}
  Outside = {"int5"}
INVARIANTS EntriesKeepUp HandlersNest
PROPERTIES ArmedNeverInterrupts HaltWakes
