SPECIFICATION FairSpec
CONSTANTS
  api = api
  cdn = cdn
  evil = evil
  root = root
  plain = plain
  wire = wire
  a1 = a1
  a2 = a2
  Domains <- MCDomains
  Root = root
  Forms <- MCForms
  Plain = plain
  AllowList <- MCAllowList
  IPs = {a1, a2}
  StaticIPs = {a2}
  NoIP = NoIP
  Other = Other
  Queries = {q1, q2}
  Conns = {k1}
  Malformed = Malformed
  NoHost = NoHost
  Asked <- MCAsked
  Answers <- MCAnswers
INVARIANTS
  TypeOK
  RelayedOnlyIfVouched
  
  ConnectionsAttributed
PROPERTIES
  QueriesAnswered
  ImplementsGate
CHECK_DEADLOCK FALSE
