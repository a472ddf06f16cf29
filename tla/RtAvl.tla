------------------------------- MODULE RtAvl -------------------------------
(***************************************************************************)
(* The balanced tree of components/libadt/avl.c, and how components/mm     *)
(* searches areas of memory in it (avl_adpt.c).                            *)
(*                                                                         *)
(* A tree t is the pointers of all nodes, as functions.  A node that has   *)
(* been removed keeps its own, which rt_aspace_detach still follows.       *)
(* near and far stand for left and right, or right and left: the code      *)
(* writes each rotation twice.  An area is [start, size], in pages.        *)
(***************************************************************************)
EXTENDS Integers, FiniteSetsExt

CONSTANTS
  Nodes,      \* the node embedded in an area, hence also the area
  NoNode,     \* the null pointer, AVL_ROOT
  Wrap        \* addresses, in pages

Unlinked == [n \in Nodes |-> NoNode]
EmptyTree ==
  [root |-> NoNode, left |-> Unlinked, right |-> Unlinked, parent |-> Unlinked,
   height |-> [n \in Nodes |-> 0]]

HEIGHT_OF(t, n) == IF n = NoNode THEN 0 ELSE t.height[n]

\* *nodeplace = n, where nodeplace is the pointer that leads to node.
Placed(t, node, n) ==
  LET p == t.parent[node]
  IN IF p = NoNode THEN [t EXCEPT !.root = n]
     ELSE IF t.left[p] = node THEN [t EXCEPT !.left[p] = n]
     ELSE [t EXCEPT !.right[p] = n]

\* n->parent = p, if there is an n.
Hung(t, n, p) == IF n = NoNode THEN t ELSE [t EXCEPT !.parent[n] = p]

-----------------------------------------------------------------------------
(* Rebalancing *)

\* rotate_right with near = "left", rotate_left with near = "right".
Rotated(t, axis, near, far) ==
  LET child == t[near][axis]
      inner == t[far][child]
      h == HEIGHT_OF(t, inner)
      u == [Placed(t, axis, child) EXCEPT
              ![near][axis] = inner, ![far][child] = axis,
              !.height[axis] = h + 1, !.height[child] = h + 2,
              !.parent[child] = t.parent[axis], !.parent[axis] = child]
  IN Hung(u, inner, axis)

\* midmount_right and midmount_left: the inner grandchild goes to the top.
Midmounted(t, axis, near, far) ==
  LET child == t[near][axis]
      inner == t[far][child]
      h == HEIGHT_OF(t, inner)
      u == [Placed(t, axis, inner) EXCEPT
              ![far][child] = t[near][inner], ![near][axis] = t[far][inner],
              ![near][inner] = child, ![far][inner] = axis,
              !.height[inner] = t.height[child], !.height[child] = h, !.height[axis] = h,
              !.parent[inner] = t.parent[axis], !.parent[child] = inner, !.parent[axis] = inner]
  IN Hung(Hung(u, t[near][inner], child), t[far][inner], axis)

\* Mutant of Lowered: a double rotation is never made.
LoweredOnce(t, axis, near, far) == Rotated(t, axis, near, far)

\* The near side of axis is too high by one.
Lowered(t, axis, near, far) ==
  LET child == t[near][axis]
  IN IF HEIGHT_OF(t, t[near][child]) >= HEIGHT_OF(t, t[far][child])
     THEN Rotated(t, axis, near, far) ELSE Midmounted(t, axis, near, far)

\* From axis up, until a height stays as it was.
RECURSIVE util_avl_rebalance(_, _)
util_avl_rebalance(t, axis) ==
  IF axis = NoNode THEN t
  ELSE LET lheight == HEIGHT_OF(t, t.left[axis])
           rheight == HEIGHT_OF(t, t.right[axis])
           height == Max({lheight, rheight}) + 1
           Up(u) == util_avl_rebalance(u, t.parent[axis])
       IN IF rheight + 1 < lheight THEN Up(Lowered(t, axis, "left", "right"))
          ELSE IF lheight + 1 < rheight THEN Up(Lowered(t, axis, "right", "left"))
          ELSE IF height = t.height[axis] THEN t
          ELSE Up([t EXCEPT !.height[axis] = height])

-----------------------------------------------------------------------------
(* The ends of a subtree and the order *)

RECURSIVE Leftmost(_, _)
Leftmost(t, n) == IF t.left[n] = NoNode THEN n ELSE Leftmost(t, t.left[n])

util_avl_first(t) == IF t.root = NoNode THEN NoNode ELSE Leftmost(t, t.root)

RECURSIVE FirstRightTurn(_, _)
FirstRightTurn(t, n) ==
  LET p == t.parent[n]
  IN IF p # NoNode /\ t.right[p] = n THEN FirstRightTurn(t, p) ELSE p

util_avl_next(t, n) ==
  IF t.right[n] # NoNode THEN Leftmost(t, t.right[n]) ELSE FirstRightTurn(t, n)

-----------------------------------------------------------------------------
(* Removal *)

WithoutRight(t, node) ==
  LET u == Hung(Placed(t, node, t.left[node]), t.left[node], t.parent[node])
  IN util_avl_rebalance(u, t.parent[node])

RightTakesOver(t, node) ==
  LET rchild == t.right[node]
      u == Hung([Placed(t, node, rchild) EXCEPT !.left[rchild] = t.left[node],
                                                !.parent[rchild] = t.parent[node]],
                t.left[node], rchild)
      v == util_avl_rebalance(u, rchild)
  IN util_avl_rebalance(v, v.parent[rchild])

SuccessorTakesOver(t, node) ==
  LET successor == Leftmost(t, t.right[node])
      sparent == t.parent[successor]
      u == [Placed(t, node, successor) EXCEPT
              !.left[sparent] = t.right[successor],
              !.left[successor] = t.left[node], !.right[successor] = t.right[node],
              !.parent[successor] = t.parent[node], !.parent[t.right[node]] = successor]
      v == Hung(Hung(u, t.left[node], successor), t.right[successor], sparent)
  IN util_avl_rebalance(util_avl_rebalance(v, sparent), successor)

util_avl_remove(t, node) ==
  IF t.root = NoNode THEN t
  ELSE IF t.right[node] = NoNode THEN WithoutRight(t, node)
  ELSE IF t.left[t.right[node]] = NoNode THEN RightTakesOver(t, node)
  ELSE SuccessorTakesOver(t, node)

-----------------------------------------------------------------------------
(* Areas by address.  area[n] is the area of node n.                       *)

LastPage(a) == a.start + a.size - 1

\* search with compare_overlap, from node n down.
RECURSIVE Overlapping(_, _, _, _)
Overlapping(t, area, range, n) ==
  IF n = NoNode THEN NoNode
  ELSE IF range.start > LastPage(area[n]) THEN Overlapping(t, area, range, t.right[n])
  ELSE IF range.end < area[n].start THEN Overlapping(t, area, range, t.left[n])
  ELSE n

_aspace_bst_search_overlap(t, area, range) == Overlapping(t, area, range, t.root)
_aspace_bst_search(t, area, key) ==
  _aspace_bst_search_overlap(t, area, [start |-> key, end |-> key])

\* The distance from start, as ptrdiff_t: negative from half the addresses on.
Offset(a, start) ==
  LET d == (a.start - start) % Wrap IN IF d < Wrap \div 2 THEN d ELSE d - Wrap

\* The lowest area from start on; best is the closest so far.
RECURSIVE Exceeding(_, _, _, _, _)
Exceeding(t, area, start, n, best) ==
  IF n = NoNode THEN best
  ELSE IF area[n].start = start THEN n
  ELSE IF area[n].start < start THEN Exceeding(t, area, start, t.right[n], best)
  ELSE Exceeding(t, area, start, t.left[n],
                 IF best = NoNode \/ Offset(area[n], start) < Offset(area[best], start)
                 THEN n ELSE best)

_aspace_bst_search_exceed(t, area, start) == Exceeding(t, area, start, t.root, NoNode)

\* util_avl_link: n becomes the child of parent on the given side.
util_avl_link(t, n, parent, side) ==
  LET u == [t EXCEPT !.left[n] = NoNode, !.right[n] = NoNode,
                     !.parent[n] = parent, !.height[n] = 1]
  IN IF parent = NoNode THEN [u EXCEPT !.root = n] ELSE [u EXCEPT ![side][parent] = n]

RECURSIVE InsertedBelow(_, _, _, _)
InsertedBelow(t, area, n, current) ==
  LET side == IF area[n].start < area[current].start THEN "left" ELSE "right"
  IN IF area[n].start = area[current].start THEN t
     ELSE IF t[side][current] # NoNode THEN InsertedBelow(t, area, n, t[side][current])
     ELSE util_avl_rebalance(util_avl_link(t, n, current, side), current)

_aspace_bst_insert(t, area, n) ==
  IF t.root = NoNode THEN util_avl_link(t, n, NoNode, "left")
  ELSE InsertedBelow(t, area, n, t.root)

-----------------------------------------------------------------------------
(* What makes it a search tree: for the areas of Linked, and no others,    *)
(* pointers up and down agree, keys are ordered, heights are the heights   *)
(* and no two siblings differ by more than one.                            *)

RECURSIVE Below(_, _)
Below(t, n) == IF n = NoNode THEN {} ELSE {n} \cup Below(t, t.left[n]) \cup Below(t, t.right[n])

TreeInOrder(t, area, Linked) ==
  /\ Below(t, t.root) = Linked
  /\ t.root # NoNode => t.parent[t.root] = NoNode
  /\ \A n \in Linked :
       LET l == t.left[n]
           r == t.right[n]
       IN /\ \A c \in {l, r} \ {NoNode} : t.parent[c] = n
          /\ \A m \in Below(t, l) : area[m].start < area[n].start
          /\ \A m \in Below(t, r) : area[n].start < area[m].start
          /\ t.height[n] = Max({HEIGHT_OF(t, l), HEIGHT_OF(t, r)}) + 1
          /\ HEIGHT_OF(t, l) <= HEIGHT_OF(t, r) + 1 /\ HEIGHT_OF(t, r) <= HEIGHT_OF(t, l) + 1
=============================================================================
