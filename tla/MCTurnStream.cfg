CONSTANTS
  t1 = t1
  t2 = t2
  s1 = s1
  s2 = s2
  a = a
  b = b
  Turns = {t1, t2}
  Sessions = {s1, s2}
  Followed = {s1}
  Homes <- MCHomes
  CallIds = {a, b}
  Asks <- MCAsks
  Planned = {t1}
  FitRows = 1
  MaxLag = 2
  MaxFaults = 2
SPECIFICATION Spec
INVARIANTS
  SealedTells
  NothingAhead
  RenderersAreLive
PROPERTIES
  FollowedAgain
CHECK_DEADLOCK FALSE
