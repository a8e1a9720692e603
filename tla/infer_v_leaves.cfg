SPECIFICATION Spec
CONSTANTS
  Tokens = {"a", "b"}
  Budget = 3
  NoNode = NoNode
  NoSlice = NoSlice
  Calls = {c1, c2}
  Prompts <- MCPrompts
  Ids <- MCIds
  None = None
  Cap = 0
  MaxHangUps = 0
CHECK_DEADLOCK FALSE
PROPERTIES LeavesFirst
