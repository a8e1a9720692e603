SPECIFICATION Spec
CONSTANTS
  Tokens = {"a", "b"}
  Budget = 2
  NoNode = NoNode
  NoSlice = NoSlice
  Calls = {c1, c2}
  Prompts <- MCPrompts
  Ids <- MCIds
  None = None
  Cap = 0
  MaxHangUps = 1
CHECK_DEADLOCK FALSE
INVARIANTS OnePassAtATime
