SPECIFICATION Spec
CONSTANTS
  SliceIds = {1, 2, 3}
  a = a
  b = b
  c = c
  d = d
  e = e
  Graphs <- MCGraphs
  Requests <- MCRequests
  Length <- MCLength
  LineLength <- MCLineLength
  EmptyLength = 3100
  GraphWeight = 30
  CharBudget = 6000
  VecKMax = 3
  SqlVariables = 8
  FallbackWindow = 8192
  ReserveFloor = 1024
  ToolsReserve = 1024
  None = None
INVARIANTS
  TypeOK
  ReachesWhatHeld
  RecallIsExact
  ForgottenStaysOut
  RankedRecall
  LongestThatFits
