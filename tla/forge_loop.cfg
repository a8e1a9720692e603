SPECIFICATION Spec
CONSTANTS
  Calls = {c1, c2}
  Nobody = Nobody
  Note = Note
  MaxSteering = 1
  Tools = {write_file, read_file}
  WriteFile = write_file
  Grade = Grade
  NoTool = NoTool
  Scenes <- MCScenes
CHECK_DEADLOCK FALSE
INVARIANTS TypeOK IInv SearchAnswers OnlyApproved OneSpec
PROPERTIES RepeatsThrottled RunShortens
