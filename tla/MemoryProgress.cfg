SPECIFICATION FairSpec
CONSTANTS
  Clients = {c1, c2}
  Repls = {c1}
  SliceIds = {s1, s2}
  Texts = {t1}
  n1 = n1
  n2 = n2
  Concepts = {n1, n2}
  LLMGraphs <- MCGraphs
  Faults = {"crash", "disk", "llm", "log"}
  None = None
  Closed = Closed
  Begun = Begun
PROPERTIES
  OperationsEnd
CHECK_DEADLOCK FALSE
