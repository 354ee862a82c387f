SPECIFICATION FairSpec
CONSTANTS
  Hosts = {h1, h2}
  MaxRedirects = 2
  MaxBytes = 3
  OutLimit = 2
  ErrLimit = 1
  Asked <- AskedValues
  Sizes = {0, 1, 2, 3, 4}
  Ssize = 4
  None = None
INVARIANTS TypeOK EveryHopIsChecked RedirectsAreCounted NothingCutSilently CapHolds ExitIsTheCommands
PROPERTIES ToolEnds
CHECK_DEADLOCK FALSE
