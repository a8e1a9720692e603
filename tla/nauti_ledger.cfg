SPECIFICATION Spec
CONSTANTS
  Requests = {r1, r2}
  Amounts = {2}
  Half = 100
  Balances = {3, 197}
  Costs = {1, 3}
  MaxDeltas = 1
  Capacity = 1
  MaxFaults = 1
  MaxSets = 1
SYMMETRY Symmetry
CHECK_DEADLOCK FALSE
INVARIANTS TypeOK IInv Conserved StoreLive
PROPERTIES NoOverdraft ImplementsLedger
