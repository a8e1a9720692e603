SPECIFICATION ChattySpec
CONSTANTS
  Workers = {w1}
  HttpWorkers = {h1}
  Capable = {}
  None = None
  Wanted = {0, 1}
  GpuFlags = {FALSE, TRUE}
  PauseFlags = {TRUE}
  MaxJobs = 2
  NumTiles = 1
  NumSensors = 1
  Seconds = {s1}
  MaxFaults = 0
  MaxStops = 1
CHECK_DEADLOCK FALSE
PROPERTIES UrgentStarts ClaimsEnd
