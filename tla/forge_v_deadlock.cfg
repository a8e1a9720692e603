SPECIFICATION PatientSpec
CONSTANTS
  Calls = {c1}
  Pings = {p1}
  Lanes = {lane_b}
  Presets = {preset_x}
  MaxRounds = 1
  MaxClears = 0
  MaxStops = 0
  MaxPanics = 0
  MaxRewrites = 0
CHECK_DEADLOCK FALSE
PROPERTIES RunsEnd
