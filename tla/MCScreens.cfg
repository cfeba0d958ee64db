SPECIFICATION FairSpec
CONSTANTS
  a1 = a1
  a2 = a2
  known = known
  other = other
  Agents = {a1, a2}
  MaxSessions = 1
  MaxPending = 2
  Tags = {known, other}
  KnownModels = {known}
  NoTag = NoTag
  Visible = 3
  MaxRows = 1
  MaxListings = 2
INVARIANTS
  TypesOK
  SpinnerHonest
  CursorsOnRows
PROPERTIES
  StaysFresh
CHECK_DEADLOCK FALSE
