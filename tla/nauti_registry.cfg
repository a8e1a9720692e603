SPECIFICATION FairSpec
CONSTANTS
  Workers = {w}
  Lists = {{}, {w}}
  Loop = Loop
  HttpSyncs = {s1}
  None = None
  Stale = 3
  MaxCrashes = 1
  MaxDeaths = 1
CHECK_DEADLOCK FALSE
INVARIANTS TypeOK IInv
PROPERTIES BeatersKept HeardIsPickable DeadRemoved ListedReturn
