SPECIFICATION Spec
CONSTANTS
  JailKeys <- MCJailKeys
  OwnKeys <- MCOwnKeys
  BoolKeys = {"SUDO"}
  ListKeys = {"ALLOW"}
  Pkgs = "PACKAGES"
  Default <- MCDefault
  Typed <- MCTyped
  Others <- MCOthers
  StartFiles <- MCStartFiles
  Environs <- MCEnvirons
  MaxChanged = 2
  MaxReloads = 1
  MaxWriters = 2
INVARIANTS
  TypeOK
  
  ConfigFollowsFiles
  OthersKept

  
