----------------------------- MODULE RedBlackTree -----------------------------
(***************************************************************************)
(* The red-black tree of rbtree/rbtree_lab/src/rbtree.c, a multiset of     *)
(* keys.  An insertion or an erasure links or unlinks its node in one step *)
(* and repairs the tree in steps of their own, one for a case of the       *)
(* repairing loop.  The two halves of a loop are each other's mirror       *)
(* image, and are written once for a side.  (In rbtree_erase_fixup() they  *)
(* differ in which cases share a turn of the loop, and in nothing else.)   *)
(***************************************************************************)
EXTENDS Integers, SequencesExt

CONSTANTS
  Nodes,        \* bound: the structures calloc() has to give, integers
  Keys,
  nil           \* the sentinel, the same structure for every leaf

VARIABLES
  t,            \* the tree: its root and the fields of its nodes
  live,         \* the nodes that have been inserted and not freed
  pc,           \* "idle", or the loop that is running
  node          \* the loop's variable

vars == <<t, live, pc, node>>

Sides == {"left", "right"}
Other(side) == IF side = "left" THEN "right" ELSE "left"
Structs == Nodes \cup {nil}
-----------------------------------------------------------------------------
(* Which child of its parent X is.                                         *)
Side(x) == IF x = t.child["left"][t.parent[x]] THEN "left" ELSE "right"

Paint(tree, xs, c) ==
  [tree EXCEPT !.color = [x \in Structs |-> IF x \in xs THEN c ELSE @[x]]]

(* Where U was, its parent has V.                                          *)
Replace(tree, u, v) ==
  LET par == tree.parent[u]
      side == IF u = tree.child["left"][par] THEN "left" ELSE "right"
  IN  IF par = nil THEN [tree EXCEPT !.root = v]
                   ELSE [tree EXCEPT !.child[side][par] = v]

(* Mutant of rotate: the subtree that changes sides keeps its parent.      *)
RotateOrphans(tree, x, side) ==
  LET y == tree.child[Other(side)][x]
  IN  [Replace(tree, x, y) EXCEPT
         !.child[Other(side)][x] = tree.child[side][y],
         !.child[side][y] = x,
         !.parent[y] = tree.parent[x],
         !.parent[x] = y]

(* left_rotate() and right_rotate(): X goes down on SIDE.                  *)
rotate(tree, x, side) ==
  LET y == tree.child[Other(side)][x]
      z == tree.child[side][y]
  IN  [Replace(tree, x, y) EXCEPT
         !.child[Other(side)][x] = z,
         !.child[side][y] = x,
         !.parent = [n \in Structs |->
                       CASE n = y -> tree.parent[x]
                         [] n = x -> y
                         [] n = z /\ z # nil -> x
                         [] OTHER -> @[n]]]

transplant(tree, u, v) ==
  [Replace(tree, u, v) EXCEPT !.parent[v] = tree.parent[u]]
-----------------------------------------------------------------------------
(* The searches.                                                           *)
RECURSIVE Descend(_, _, _), DescendAbove(_, _, _), FindFrom(_, _),
          Outermost(_, _), InOrder(_, _, _)

(* Mutant of Descend: smaller keys go to the right.                        *)
DescendAbove(k, cur, par) ==
  IF cur = nil THEN par
  ELSE DescendAbove(k, t.child[IF k > t.key[cur] THEN "left" ELSE "right"][cur],
                    cur)

Descend(k, cur, par) ==
  IF cur = nil THEN par
  ELSE Descend(k, t.child[IF k < t.key[cur] THEN "left" ELSE "right"][cur], cur)

FindFrom(k, cur) ==
  CASE cur = nil -> nil
    [] cur # nil /\ k = t.key[cur] -> cur
    [] OTHER -> FindFrom(k, t.child[IF k < t.key[cur] THEN "left"
                                                      ELSE "right"][cur])

(* The result NULL is nil here.                                            *)
rbtree_find(k) == FindFrom(k, t.root)

Outermost(x, side) ==
  IF t.child[side][x] = nil THEN x ELSE Outermost(t.child[side][x], side)

rbtree_min == IF t.root = nil THEN nil ELSE Outermost(t.root, "left")
rbtree_max == IF t.root = nil THEN nil ELSE Outermost(t.root, "right")

(* inorder_fill_array(): ARR is what has been filled in.                   *)
InOrder(x, arr, n) ==
  IF x = nil \/ Len(arr) >= n THEN arr
  ELSE LET before == InOrder(t.child["left"][x], arr, n)
       IN  InOrder(t.child["right"][x],
                   IF Len(before) < n THEN Append(before, t.key[x]) ELSE before,
                   n)

rbtree_to_array(n) == InOrder(t.root, <<>>, n)
-----------------------------------------------------------------------------
(* rbtree_insert(); which structure calloc() returns makes no difference.  *)
Insert(k) ==
  LET x == Min(Nodes \ live)
      par == Descend(k, t.root, nil)
      side == IF k < t.key[par] THEN "left" ELSE "right"
      new == [t EXCEPT !.key[x] = k, !.parent[x] = par,
                       !.child["left"][x] = nil, !.child["right"][x] = nil]
  IN  /\ pc = "idle" /\ live # Nodes
      /\ t' = IF par = nil
              THEN Paint([new EXCEPT !.root = x], {x}, "BLACK")
              ELSE Paint([new EXCEPT !.child[side][par] = x], {x}, "RED")
      /\ live' = live \cup {x}
      /\ pc' = "insert_fixup"
      /\ node' = x

(* The parent, grandparent and uncle of the loop's node.                   *)
par == t.parent[node]
gpar == t.parent[par]
unc == t.child[Other(Side(par))][gpar]

DoubleRed == pc = "insert_fixup" /\ t.color[par] = "RED"

InsertDone ==
  /\ pc = "insert_fixup" /\ t.color[par] = "BLACK"
  /\ t' = Paint(t, {t.root}, "BLACK")
  /\ pc' = "idle"
  /\ node' = nil
  /\ UNCHANGED live

(* CASE 1: parent and uncle are red.                                       *)
InsertRecolor ==
  /\ DoubleRed /\ t.color[unc] = "RED"
  /\ t' = Paint(Paint(t, {par, unc}, "BLACK"), {gpar}, "RED")
  /\ node' = gpar
  /\ UNCHANGED <<live, pc>>

(* CASE 2: node is an inner grandchild, and is turned into an outer one.   *)
InsertTurn ==
  /\ DoubleRed /\ t.color[unc] = "BLACK" /\ Side(node) # Side(par)
  /\ t' = rotate(t, par, Side(par))
  /\ node' = par
  /\ UNCHANGED <<live, pc>>

(* Mutant of InsertRotate: the colours are not exchanged.                  *)
InsertRotateUnpainted ==
  /\ DoubleRed /\ t.color[unc] = "BLACK" /\ Side(node) = Side(par)
  /\ t' = rotate(Paint(t, {par}, "BLACK"), gpar, Other(Side(par)))
  /\ UNCHANGED <<live, pc, node>>

(* CASE 3: an outer grandchild.                                            *)
InsertRotate ==
  /\ DoubleRed /\ t.color[unc] = "BLACK" /\ Side(node) = Side(par)
  /\ t' = rotate(Paint(Paint(t, {par}, "BLACK"), {gpar}, "RED"), gpar,
                 Other(Side(par)))
  /\ UNCHANGED <<live, pc, node>>
-----------------------------------------------------------------------------
(* rbtree_erase() of P, its node unlinked: the loop starts at FIX when the *)
(* colour that has left is black.  P is freed behind the loop, which does  *)
(* not look at it.                                                         *)
Unlinked(p, delc, fix) ==
  /\ live' = live \ {p}
  /\ pc' = IF delc = "BLACK" THEN "erase_fixup" ELSE "idle"
  /\ node' = IF delc = "BLACK" THEN fix ELSE nil

(* Cases 1 and 2: a child is missing, and the other takes P's place.       *)
EraseOuter(p) ==
  LET side == IF t.child["left"][p] = nil THEN "right" ELSE "left"
      fix == t.child[side][p]
  IN  /\ pc = "idle" /\ p \in live
      /\ t.child[Other(side)][p] = nil
      /\ t' = transplant(t, p, fix)
      /\ Unlinked(p, t.color[p], fix)

(* Case 3: the successor CUR takes P's place and colour.  The child that   *)
(* took CUR's place is not what the loop starts at; and a CUR that was P's *)
(* child becomes its own.                                                  *)
EraseInner(p) ==
  LET right == t.child["right"][p]
      cur == Outermost(right, "left")
      fix == IF cur = right THEN t.child["right"][cur] ELSE right
      out == IF cur = right THEN t
                            ELSE transplant(t, cur, t.child["right"][cur])
      up == transplant([out EXCEPT !.parent[fix] = cur], p, cur)
  IN  /\ pc = "idle" /\ p \in live
      /\ t.child["left"][p] # nil /\ right # nil
      /\ t' = [up EXCEPT !.child["left"][cur] = t.child["left"][p],
                         !.parent[t.child["left"][p]] = cur,
                         !.color[cur] = t.color[p],
                         !.child["right"][cur] = right,
                         !.parent[right] = cur]
      /\ Unlinked(p, t.color[cur], fix)

(* rbtree_erase_fixup(): node is short of a black.                         *)
DoubleBlack == pc = "erase_fixup" /\ node # t.root /\ t.color[node] = "BLACK"

sib == t.child[Other(Side(node))][par]
near == t.child[Side(node)][sib]
far == t.child[Other(Side(node))][sib]

EraseDone ==
  /\ pc = "erase_fixup" /\ (node = t.root \/ t.color[node] = "RED")
  /\ t' = Paint(t, {node}, "BLACK")
  /\ pc' = "idle"
  /\ node' = nil
  /\ UNCHANGED live

EraseRedSib ==
  /\ DoubleBlack /\ t.color[sib] = "RED"
  /\ t' = rotate(Paint(Paint(t, {sib}, "BLACK"), {par}, "RED"), par, Side(node))
  /\ UNCHANGED <<live, pc, node>>

(* Mutant of EraseRecolor: the loop does not go up.                        *)
EraseRecolorStays ==
  /\ DoubleBlack /\ t.color[sib] = "BLACK"
  /\ t.color[near] = "BLACK" /\ t.color[far] = "BLACK"
  /\ t' = Paint(t, {sib}, "RED")
  /\ UNCHANGED <<live, pc, node>>

EraseRecolor ==
  /\ DoubleBlack /\ t.color[sib] = "BLACK"
  /\ t.color[near] = "BLACK" /\ t.color[far] = "BLACK"
  /\ t' = Paint(t, {sib}, "RED")
  /\ node' = par
  /\ UNCHANGED <<live, pc>>

EraseTurn ==
  /\ DoubleBlack /\ t.color[sib] = "BLACK"
  /\ t.color[near] = "RED" /\ t.color[far] = "BLACK"
  /\ t' = rotate(Paint(Paint(t, {near}, "BLACK"), {sib}, "RED"), sib,
                 Other(Side(node)))
  /\ UNCHANGED <<live, pc, node>>

EraseRotate ==
  /\ DoubleBlack /\ t.color[sib] = "BLACK" /\ t.color[far] = "RED"
  /\ t' = rotate(Paint(Paint(t, {sib}, t.color[par]), {par, far}, "BLACK"), par,
                 Side(node))
  /\ node' = t'.root
  /\ UNCHANGED <<live, pc>>
-----------------------------------------------------------------------------
(* new_rbtree().                                                           *)
Init ==
  /\ t = [root |-> nil,
          color |-> [x \in Structs |-> "BLACK"],
          key |-> [x \in Structs |-> 0],
          child |-> [side \in Sides |-> [x \in Structs |-> nil]],
          parent |-> [x \in Structs |-> nil]]
  /\ live = {}
  /\ pc = "idle"
  /\ node = nil

Fixup ==
  \/ InsertDone \/ InsertRecolor \/ InsertTurn \/ InsertRotate
  \/ EraseDone \/ EraseRedSib \/ EraseRecolor \/ EraseTurn \/ EraseRotate

(* Erasures of nodes with two children are left to EraseSpec.              *)
Next ==
  \/ \E k \in Keys : Insert(k)
  \/ \E p \in live : EraseOuter(p)
  \/ Fixup

Spec == Init /\ [][Next]_vars
FairSpec == Spec /\ WF_vars(Fixup)

EraseSpec == Init /\ [][Next \/ \E p \in live : EraseInner(p)]_vars
-----------------------------------------------------------------------------
(* What is linked is a tree of the live nodes, in every turn of a loop:    *)
(* the sentinel that all its leaves share is black and has no children,    *)
(* the root is nobody's child, every other node is one child of its        *)
(* parent, and no node that has been freed can be reached.                 *)
Linked ==
  /\ t.color[nil] = "BLACK" /\ \A side \in Sides : t.child[side][nil] = nil
  /\ t.root = nil <=> live = {}
  /\ t.root # nil => t.root \in live /\ t.parent[t.root] = nil
  /\ \A x \in live, side \in Sides :
       LET c == t.child[side][x]
       IN  c # nil => c \in live /\ t.parent[c] = x /\ c # t.child[Other(side)][x]
  /\ \A x \in live \ {t.root} :
       t.parent[x] \in live /\ \E side \in Sides : t.child[side][t.parent[x]] = x

(* Reference: the multiset of the live nodes' keys, in order.              *)
Sorted ==
  [i \in 1..Cardinality(live) |->
     Min({k \in Keys : Cardinality({x \in live : t.key[x] <= k}) >= i})]

(* A search tree at every turn, equal keys on both sides of a rotation     *)
(* included: find, min, max and to_array answer as for the sorted sequence *)
(* of the keys inserted and not erased.                                    *)
SearchesAgree ==
  LET all == Sorted
      size == Len(all)
      answers(x, k) == x \in live /\ t.key[x] = k
  IN  /\ \A n \in 0..(size + 1) :
           rbtree_to_array(n) = SubSeq(all, 1, IF n < size THEN n ELSE size)
      /\ \A k \in Keys : IF k \in Range(all) THEN answers(rbtree_find(k), k)
                                            ELSE rbtree_find(k) = nil
      /\ IF size = 0 THEN rbtree_min = nil /\ rbtree_max = nil
         ELSE answers(rbtree_min, all[1]) /\ answers(rbtree_max, all[size])

(* How many blacks the paths from X down to the leaves count, where the    *)
(* node that is being repaired after an erasure counts one it lacks.       *)
Owed(x, side) ==
  IF pc = "erase_fixup" /\ node # t.root /\ par = x /\ Side(node) = side
  THEN 1 ELSE 0

RECURSIVE Blacks(_)
Blacks(x) ==
  IF x = nil THEN {0}
  ELSE LET own == IF t.color[x] = "BLACK" THEN 1 ELSE 0
       IN  UNION {{n + own + Owed(x, side) : n \in Blacks(t.child[side][x])} :
                    side \in Sides}

(* "rbtree should keep search tree and color constraints"                  *)
(* (test-rbtree.c:300), and every turn of a loop leaves one place to       *)
(* repair: a red node at the root or with a red parent is the loop's node, *)
(* or the child of the one an erasure is about to blacken; and all paths   *)
(* count the same number of blacks.                                        *)
Coloured ==
  /\ \A x \in live : t.color[x] = "RED" =>
       \/ x = node
       \/ pc = "erase_fixup" /\ t.parent[x] = node
       \/ x # t.root /\ t.color[t.parent[x]] = "BLACK"
  /\ Cardinality(Blacks(t.root)) = 1

(* Neither loop runs for ever.                                             *)
FixupEnds == pc # "idle" ~> pc = "idle"

(* The tests' two constraints on the tree that is left, for any erasure    *)
(* ("keeps the properties of a red-black tree", rbtree.c:501).             *)
EraseKeepsTree == pc = "idle" => Linked /\ SearchesAgree /\ Coloured
===============================================================================
