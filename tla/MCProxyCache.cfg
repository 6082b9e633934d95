CONSTANTS
  t1 = t1
  t2 = t2
  t3 = t3
  u1 = u1
  u2 = u2
  u3 = u3
  Threads = {t1, t2, t3}
  Uris = {u1, u2}
  Sizes = {0, 1, 2, 4}
  BlockCount = 4
  MAX_OBJECT_SIZE = 2
  MAX_CACHE_SIZE = 3
SYMMETRY Symmetry
SPECIFICATION Spec
INVARIANTS
  TypeOK
  LinksAgree
PROPERTY
  ImplementsLRU
