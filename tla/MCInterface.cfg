SPECIFICATION Spec
CONSTANTS
  d1 = d1
  d2 = d2
  Dirs = {d1, d2}
  Start = d1
  None = None
  MaxPending = 1
INVARIANTS
  TypeOK
  
CHECK_DEADLOCK FALSE
