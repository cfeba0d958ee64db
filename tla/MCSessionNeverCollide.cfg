SPECIFICATION Spec
CONSTANTS
  here = here
  there = there
  Sessions = {s1, s2}
  s1 = s1
  s2 = s2
  Projects = {here, there}
  Requests <- SameProject
  NoNet = NoNet
INVARIANT
  NeverCollide
