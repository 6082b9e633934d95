CONSTANTS
  nil = nil
  Nodes = {1, 2, 3, 4, 5, 6, 7, 8, 9, 10}
  Keys = {1, 2, 3}
SPECIFICATION FairSpec
VIEW Alike
INVARIANTS
  Linked
  SearchesAgree
  Coloured
PROPERTY
  FixupEnds
