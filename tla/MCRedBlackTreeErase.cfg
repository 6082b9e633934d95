CONSTANTS
  nil = nil
  Nodes = {1, 2, 3, 4}
  Keys = {1, 2, 3}
SPECIFICATION EraseSpec
INVARIANT
  EraseKeepsTree
