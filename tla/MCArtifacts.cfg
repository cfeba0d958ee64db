SPECIFICATION Spec
CONSTANTS
  s1 = s1
  l1 = l1
  Sessions = {s1}
  Loads = {l1}
  MaxTicks = 1
  MaxMoves = 1
INVARIANTS
  TypeOK
PROPERTIES
  HomesKept
  
  
CHECK_DEADLOCK FALSE
