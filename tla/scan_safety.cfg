SPECIFICATION Spec
CONSTANTS
  Workers = {w1, w2}
  HttpWorkers = {h1}
  Capable = {}
  None = None
  Wanted = {0}
  GpuFlags = {FALSE}
  PauseFlags = {}
  MaxJobs = 2
  NumTiles = 1
  NumSensors = 1
  Seconds = {s1, s2}
  MaxFaults = 1
  MaxStops = 1

SYMMETRY Symmetry
CHECK_DEADLOCK FALSE
INVARIANTS TypeOK IInv SingleRunner ResultKept
PROPERTIES FinalIsFinal ImplementsBoard
