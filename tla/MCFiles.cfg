CONSTANTS
  p1 = p1
  p2 = p2
  sh = sh
  cat = cat
  Procs = {p1, p2}
  First = p1
  Names = {sh, cat}
  Program = sh
  FD_MAX = 4
  Sectors <- MCSectors
  Lengths = {1}
  NULL = NULL
  Nobody = Nobody
  Lost = Lost
  MaxLeaks = 1
SPECIFICATION Spec
SYMMETRY Symmetry
VIEW Alike
CHECK_DEADLOCK FALSE
INVARIANTS
  TypeOK
  CountsMatch
  FreeMapExact
  WritersShutOut
