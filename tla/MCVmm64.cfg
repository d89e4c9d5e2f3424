CONSTANTS
  ENTRIES = 3
  Usable = {3, 4, 5, 6, 7, 8}
  Virt = {9, 27, 36}
  Phys = {7}
  Flags = {"rw"}
SPECIFICATION Spec
INVARIANTS
  TlbIsCurrent
PROPERTIES
  ImplementsSharedSpaces
