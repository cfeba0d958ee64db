SPECIFICATION LogFairSpec
CONSTANTS
  w1 = w1
  w2 = w2
  Writers = {w1, w2}
  Commands <- MCCommands
  Nobody = Nobody
  None = None
  MaxEvents = 2
  Keep = 2
INVARIANTS
  LogTypeOK
  DeliversWholeLines
  ViewAgrees
  ErrorsNotSwallowed
PROPERTIES
  ReadersProgress
CHECK_DEADLOCK FALSE
