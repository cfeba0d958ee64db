SPECIFICATION Spec
CONSTANTS
  t1 = t1
  t2 = t2
  Terms = {t1, t2}
  Agents = {"hermes", "hermes-local"}
  Local = "hermes-local"
  Cwd = "dir"
  Dirs <- MCDirs
  Models = {"m"}
  NoModel = NoModel
  NoValue = NoValue
  BadValue = BadValue
  BoolFlags = {"network-jail", "no-network-jail", "yes"}
  ValueFlags = {"allow", "allow-file"}
  Listed <- MCListed
  Menu <- MCCleanMenu
  Lines <- MCCleanLines
PROPERTIES
  CleanStaysInAgent
