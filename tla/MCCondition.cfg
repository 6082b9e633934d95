CONSTANTS
  t1 = t1
  t2 = t2
  t3 = t3
  t4 = t4
  c1 = c1
  c2 = c2
  Threads = {t1, t2, t3, t4}
  Conds = {c1, c2}
  Priorities = {1, 2, 3}
  Nobody = Nobody
  None = None
SPECIFICATION Spec
SYMMETRY Symmetry
INVARIANTS
  TypeOK
PROPERTIES
  SignalWakesHighest
  ImplementsMonitor
