SPECIFICATION Spec
CONSTANTS
  t1 = t1
  t2 = t2
  t3 = t3
  Repls = {r}
  Requests = {}
  Streams = {s}
  Server = server
  TurnIds = {t1, t2, t3}
  MaxIters = 2
  MaxBatch = 2
  Spends = {1}
  Budget = 2
  Faults = {"llm", "memory", "crash"}
  None = None
SYMMETRY Ids
INVARIANTS TypeOK AuditTellsWhatRan CloseIsTrue OvershootIsBounded
PROPERTIES LoopIsCut
CHECK_DEADLOCK FALSE
