\* Two processes over one log: short writes, midnight, crashes.
CONSTANTS
  None = None
  p1 = p1  p2 = p2
  a = a  b = b  c = c
  Procs = {p1, p2}
  Ids = {a, b, c}
  Spends = {1}
  Budget = 1
  MaxDay = 1
  MaxShort = 1
SYMMETRY Symmetry
CHECK_DEADLOCK FALSE
SPECIFICATION Spec
INVARIANTS TypeOK ATearCostsTwo ExplainTellsTheTurn DailyOvershootIsBounded
PROPERTIES KeepsLogPromise
