CONSTANTS
  MAX_TASKS = 3
  HZ = 1
  WRAP = 1
  MaxStep = 1
  CAPACITY = 1
  POLL_INTERVAL = 2
  DEVICE = 2
SPECIFICATION FairSpec
INVARIANTS
  ReadBelongsToCaller
PROPERTIES
  ImplementsScheduler
  NobodyStarvesWhileTyping
