SPECIFICATION Spec
CONSTANTS
  MaxEntries = 5
  MaxKeys = 2
  MaxFaults = 3
INVARIANTS
  SoundPrefix
  NoSilentLoss
  OneFaultOneBreak
CHECK_DEADLOCK FALSE
