SPECIFICATION Spec
CONSTANTS
  Clients = {c1, c2}
  Repls = {c1}
  SliceIds = {s1, s2}
  Texts = {t1, t2}
  n1 = n1
  n2 = n2
  Concepts = {n1, n2}
  LLMGraphs <- MCGraphs
  Faults = {"crash", "disk", "llm", "log"}
  None = None
  Closed = Closed
  Begun = Begun
SYMMETRY Ids
INVARIANTS
  TypeOK
  DatabaseIsWhole
  ForgottenLeavesNoTrace
  SavedIsDurable
  LogIsTrue
  LockHeldInTransaction
PROPERTIES
  KeepsPromise
CHECK_DEADLOCK FALSE
