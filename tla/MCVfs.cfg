CONSTANTS
  MAX_MOUNTS = 3
  Paths <- MCPaths
  Relative <- MCRelative
  Node <- MCNode
  NULL = "null"
  TarRoot = "root"
  IsDir = {"root", "d"}
  Child <- MCChild
SPECIFICATION Spec
INVARIANTS
  TypeOK
  RootIsSlotZero
PROPERTIES
  ImplementsMountList
