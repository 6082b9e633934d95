CONSTANTS
  t1 = t1
  t2 = t2
  t3 = t3
  Threads = {t1, t2, t3}
  Main = t1
  Idle = idle_t
  Priorities = {1, 2}
  TimeSlice = 2
  Durations = {1, 2}
  MaxTick = 2
  INT64_MAX = 99
SPECIFICATION MCSpec
CHECK_DEADLOCK FALSE
INVARIANTS
  TypeOK
  ElemInOneList
  ReadyOrdered
  NoDueSleeper
PROPERTIES
  RunsHighest
  SleepersWake
  FirstInLineRuns
