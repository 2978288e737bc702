SPECIFICATION ChatSpec
CONSTANTS
  read = read write = write
  Sigs = {read, write}
  LoopBrake = TRUE
  MaxRepeated = 2
  MaxBatch = 2
  EffectCap = 2
  MaxIterations = 3
  MemoryOn = TRUE
  Candidates = 2
  Timeout = 2
  MaxPieces = 2
INVARIANTS
  EffectOnce
  MemoryMatchesDelivery
  SilenceIsFinal
PROPERTIES
  DeliversOnce
  DispatchEnds
CHECK_DEADLOCK FALSE
