\* Two inits, run again and again, over a fresh or an old database.
CONSTANTS
  None = None
  p1 = p1  p2 = p2
  a = a  b = b  c = c
  Inits = {p1, p2}
  Rows = {a, b, c}
  OldRows = {a, b}
SPECIFICATION FairSpec
INVARIANTS TypeOK DoneIsWhole SafeToRerun
PROPERTIES RealSessionsStay InitEnds
