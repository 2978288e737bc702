SPECIFICATION Spec
CONSTANTS
  u1 = u1 u2 = u2
  Users = {u1, u2}
  Limit = 2
  MaxAge = 2
  PruneEvery = 2
  MaxTime = 4
  MaxCrashes = 1
  Never = Never
INVARIANTS
  NothingSkipped
PROPERTIES
  PushInOrder
  RepeatsAreUnsaved
  EveryEventTold
CHECK_DEADLOCK FALSE
