SPECIFICATION Spec
CONSTANTS
  Calls = {c1, c2}
  Pings = {p1}
  Lanes = {lane_b}
  Presets = {preset_x, preset_y}
  MaxRounds = 1
  MaxClears = 1
  MaxStops = 1
  MaxPanics = 1
  MaxRewrites = 1
SYMMETRY Symmetry
VIEW View
CONSTRAINT Apart
CHECK_DEADLOCK FALSE
INVARIANTS TypeOK IInv OneLoopUncleared 
