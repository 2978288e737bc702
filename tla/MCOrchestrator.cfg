SPECIFICATION OrchSpec
CONSTANTS
  todo = todo act = act
  Sigs = {todo, act}
  Todo = todo
  LoopBrake = TRUE
  MaxRepeated = 2
  MaxBatch = 2
  EffectCap = 2
  PlannerBudget = 1
  ExecutorBudget = 2
  MaxRecovery = 2
  ZeroProgress = 3
INVARIANTS
  EveryCallAnswered
  NoTroubleAsAnswer
PROPERTIES
  TurnEnds
CHECK_DEADLOCK FALSE
