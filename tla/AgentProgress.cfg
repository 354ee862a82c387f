SPECIFICATION FairSpec
CONSTANTS
  t1 = t1
  t2 = t2
  t3 = t3
  Repls = {r}
  Requests = {}
  Streams = {s}
  Server = server
  TurnIds = {t1}
  MaxIters = 2
  MaxBatch = 2
  Spends = {1}
  Budget = 1
  Faults = {"llm", "usage", "memory", "log", "crash"}
  None = None
INVARIANTS EachTurnCountsItsOwn 
PROPERTIES TurnsEnd TurnsShrink
CHECK_DEADLOCK FALSE
