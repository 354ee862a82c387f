SPECIFICATION Spec
CONSTANTS
  t1 = t1
  t2 = t2
  t3 = t3
  Repls = {}
  Requests = {q1, q2}
  Streams = {}
  Server = server
  TurnIds = {t1, t2, t3}
  MaxIters = 2
  MaxBatch = 1
  Spends = {1}
  Budget = 0
  Faults = {}
  None = None
INVARIANTS EachTurnCountsItsOwn
CHECK_DEADLOCK FALSE
