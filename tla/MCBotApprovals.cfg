CONSTANTS
  tool = tool
  chat = chat
  firing = firing
  telegram = telegram
  web = web
  Calls = {k1, k2}
  Tools = {tool}
  Sessions = {chat, firing}
  Clients = {telegram, web}
  Requests <- MCRequests
  Policy <- MCPolicy
  McpTools = {}
  FiringSessions = {}
  MaxBoot = 2
  MaxIncarnation = 1
  Bot = telegram
  MaxFaults = 1
  MaxTaps = 2
  MaxPrompts = 3
SPECIFICATION BotSpec
INVARIANTS
  ShownIsDecided
  RepeatsExplained
  AskedIsAnswerable
SYMMETRY MCSymmetry
CHECK_DEADLOCK FALSE
