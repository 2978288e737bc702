SPECIFICATION Spec
CONSTANTS
  own = own mcp = mcp
  Names = {own, mcp}
  Identifiers = {own}
  Batches <- MCBatches
  Quotes <- MCQuotes
  Budget = 5
  Oldest = 4
  MaxAge = 3
  MaxDay = 5
  MaxTurns = 2
  MaxCuts = 1
INVARIANTS
  OwnOutcome
  TodayIsWhole
  TurnsKept
PROPERTIES
  PruneTakesOldLines
CHECK_DEADLOCK FALSE
