SPECIFICATION Spec
CONSTANTS
  Clients = {c1, c2}
  Repls = {}
  SliceIds = {s1, s2}
  Texts = {t1}
  n1 = n1
  n2 = n2
  Concepts = {n1, n2}
  LLMGraphs <- MCGraphs
  Faults = {}
  None = None
  Closed = Closed
  Begun = Begun
PROPERTIES
  StageBIsBestEffort
CHECK_DEADLOCK FALSE
