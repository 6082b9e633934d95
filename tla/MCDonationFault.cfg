CONSTANTS
  t1 = t1
  t2 = t2
  t3 = t3
  l1 = l1
  l2 = l2
  Threads = {t1, t2}
  Main = t1
  Idle = idle_t
  NULL = null
  Locks = {l1}
  Priorities = {1, 2}
  TimeSlice = 1
  DonationDepth = 2
  MaxSlices = 3
  MaxChanges = 1
SPECIFICATION MCSpec
CHECK_DEADLOCK FALSE
SYMMETRY MCSymmetry
INVARIANT
  AcquireNeverFaults
