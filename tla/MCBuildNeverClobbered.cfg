SPECIFICATION Spec
CONSTANTS
  p1 = p1
  p2 = p2
  c1 = c1
  c2 = c2
  Procs = {p1, p2}
  Configs = {c1, c2}
  Scripts = {sh}
  NoScript = NoScript
  Requests <- RebuildBeside
  Free = Free
  NoImage = NoImage
  Nothing = Nothing
  MaxEdits = 1
INVARIANT
  NeverClobbered
CHECK_DEADLOCK FALSE
