CONSTANTS
  p0 = p0
  p1 = p1
  p2 = p2
  p3 = p3
  Pids = {p0, p1, p2, p3}
  Main = p0
  ExitCodes <- MCExitCodes
SPECIFICATION FairSpec
CHECK_DEADLOCK FALSE
INVARIANTS
  TypeOK
  ReapedChildIsZombie
  StatusReturnedOnce
  FailedForkIsReaped
PROPERTIES
  ImplementsWait
  ImplementsFairWait
  ForkReturns
