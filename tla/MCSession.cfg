SPECIFICATION FairSpec
CONSTANTS
  here = here
  there = there
  Sessions = {s1, s2}
  s1 = s1
  s2 = s2
  Projects = {here, there}
  Requests <- MCRequests
  NoNet = NoNet
INVARIANTS
  TypeOK
  JailHolds
  
  CleanedUp
  ProjectsIsolated
PROPERTIES
  SessionsSettle
