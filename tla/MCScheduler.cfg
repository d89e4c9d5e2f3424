CONSTANTS
  MAX_TASKS = 3
  HZ = 2
  WRAP = 2
  MaxStep = 2
SPECIFICATION FairSpec
INVARIANTS
  TypeOK
  WhoRunsIsAgreed
  WaitingContextsIntact
  ExitedRunsOnlyAlone
PROPERTIES
  ImplementsMultitasking
  NobodyStarves
