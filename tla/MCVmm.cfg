CONSTANTS
  ENTRIES = 4
  FRAMES = 8
  Usable = {0, 1, 2, 3, 4, 5, 6, 7}
  Virt = {8, 9}
  Phys = {20}
  Flags = {"rw"}
SPECIFICATION Spec
INVARIANTS
  FramesDisjoint
  IdentityHeld
  LookupIsExact
PROPERTIES
  ImplementsSpaces
