CONSTANTS
  MaxHeap = 28
  Chunk = 8
  Ids = {1, 2, 3}
  Requests <- MCRequests
SPECIFICATION MallocSpec
CHECK_DEADLOCK FALSE
INVARIANTS
  MallocTypeOK
  Tiled
  Coalesced
  ListsTheFree
  LiveIntact
  BalancedResets
VIEW InUse
