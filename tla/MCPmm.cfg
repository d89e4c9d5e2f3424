CONSTANTS
  PMM_MAX_PAGES = 7
  PAGE_SIZE = 3
  LOW_PAGES = 1
  KERNEL_END = 4
  Boots <- MCBoots
  Counts = {0, 1, 2, 3}
SPECIFICATION Spec
INVARIANTS
  BootDataSafe
  LastByteIsMemory
PROPERTIES
  ImplementsAllocator
