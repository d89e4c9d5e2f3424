CONSTANTS
  MEM = 24
  STAGE = 12
  Layouts <- MCLayouts
  Programs <- MCPrograms
SPECIFICATION LoaderSpec
INVARIANTS
  LoadedExactly
  BootDataKept
