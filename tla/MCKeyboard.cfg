CONSTANTS
  N = 3
  POLL_INTERVAL = 2
  LEN = 3
  DEVICE = 2
  MaxKeys = 4
SPECIFICATION FairSpec
INVARIANTS
  KeysInOrder
  RequestPending
PROPERTIES
  ImplementsFifo
  EveryByteIsRead
  NewlineEndsRead
