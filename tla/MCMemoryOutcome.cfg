SPECIFICATION Spec
CONSTANTS
  own = own mcp = mcp
  Names = {own, mcp}
  Identifiers = {own}
  Batches <- MCBatches
  Quotes <- NoQuotes
  Budget = 5
  Oldest = 4
  MaxAge = 3
  MaxDay = 5
  MaxTurns = 2
  MaxCuts = 1
INVARIANT OutcomeIsRead
CHECK_DEADLOCK FALSE
