SPECIFICATION Spec
CONSTANTS
  boot = boot r1 = r1 c1 = c1 c2 = c2
  Boot = boot
  Restarts = {r1}
  Calls = {c1, c2}
  GiveUpAfter = 2
  MaxServers <- MCMaxServers
  MaxId = 2
INVARIANTS
  RegisteredIsServed
  StopIsFinal
  AnswerIsOwn
PROPERTIES
  DeadToolsGo
  EveryWaitEnds
CHECK_DEADLOCK FALSE
