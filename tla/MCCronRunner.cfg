SPECIFICATION RunnerSpec
CONSTANTS
  j1 = j1
  Jobs = {j1}
  Schedules <- MCSchedules
  MaxTime = 2
  MaxEdits = 3
  MaxFirings = 2
  MaxStops = 1
INVARIANTS
  NoOverlap
  OneShotOnce
  RecordedIsTold
  OnlyStaleWritesLose
PROPERTIES
  DueIsServed
CHECK_DEADLOCK FALSE
