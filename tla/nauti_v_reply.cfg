SPECIFICATION FairSpec
CONSTANTS
  Requests = {r1}
  Amounts = {2}
  Half = 100
  Balances = {3}
  Costs = {1}
  MaxDeltas = 2
  Capacity = 1
  MaxFaults = 0
  MaxSets = 0
CHECK_DEADLOCK FALSE
PROPERTIES RepliesArrive
