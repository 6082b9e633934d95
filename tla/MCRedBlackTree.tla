---------------------------- MODULE MCRedBlackTree ----------------------------
(* An instance of RedBlackTree for TLC.                                    *)
EXTENDS RedBlackTree

RECURSIVE Shape(_)
Shape(x) ==
  IF x = nil THEN <<>>
  ELSE <<t.color[x], t.key[x], x = node, t.parent[node] = x,
         Shape(t.child["left"][x]), Shape(t.child["right"][x])>>

(* Which structure is which node makes no difference.                      *)
Alike == <<pc, node = t.root, Shape(t.root)>>
===============================================================================
