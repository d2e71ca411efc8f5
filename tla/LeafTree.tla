------------------------------ MODULE LeafTree ------------------------------
(***************************************************************************)
(* Trees whose leaves hold the objects, as books/advanced_data_structures  *)
(* builds them: the shape that its programs share, and the construction of *)
(* such a tree from a sorted list.                                         *)
(***************************************************************************)
EXTENDS Integers, SequencesExt

-----------------------------------------------------------------------------
(***************************************************************************)
(* The search trees of books/advanced_data_structures that keep their      *)
(* objects in the leaves: what ch2/triv_tree.c, ch3/h_bl_tree.c,           *)
(* w_bl_tree.c, rb_tree.c and t_rb_tree.c have in common.                  *)
(*                                                                         *)
(* A tree is a value: a leaf has a key and an object, an interior node a   *)
(* key and the fields "left" and "right"; each program adds a field of its *)
(* own (height, weight or colour).  A node's place is the path of sides    *)
(* that leads to it, which stands for a pointer to it.                     *)
(***************************************************************************)

\* The node that create_tree() makes and that delete() leaves when it takes the
\* last object (tree->left == NULL).  Its key is what the node held before.
EmptyAfter(k) == [empty |-> TRUE, key |-> k]
Empty == EmptyAfter(0)

IsEmpty(t) == "empty" \in DOMAIN t

IsLeaf(t) == "obj" \in DOMAIN t

\* The object main() makes for a key.
Object(k) == 10 * k + 2

NULL == -1

\* remove_tree() has given all nodes back.
Gone == [empty |-> TRUE, key |-> NULL]

Opp(s) == IF s = "left" THEN "right" ELSE "left"

\* The way the searches go at an interior node.
Side(t, k) == IF k < t.key THEN "left" ELSE "right"

\* left_rotation() for s = "left", right_rotation() for s = "right".  The
\* node stays where it is and exchanges keys with its lower neighbour, which
\* comes down on side s; both keep their height, weight or colour.
Rotate(t, s) ==
  LET o == Opp(s)
      c == t[o]
  IN  [t EXCEPT !.key = c.key,
                ![s] = [c EXCEPT !.key = t.key, ![s] = t[s], ![o] = c[s]],
                ![o] = c[o]]

RECURSIVE At(_, _)
At(t, p) == IF p = <<>> THEN t ELSE At(t[Head(p)], Tail(p))

RECURSIVE Put(_, _, _)
Put(t, p, u) ==
  IF p = <<>> THEN u ELSE [t EXCEPT ![Head(p)] = Put(@, Tail(p), u)]

\* The path of a search for k, as far as the leaf.
RECURSIVE Path(_, _)
Path(t, k) ==
  IF IsEmpty(t) \/ IsLeaf(t) THEN <<>> ELSE <<Side(t, k)>> \o Path(t[Side(t, k)], k)

\* find()
FindIn(t, k) ==
  IF IsEmpty(t) THEN NULL
  ELSE LET leaf == At(t, Path(t, k)) IN IF leaf.key = k THEN leaf.obj ELSE NULL

\* What insert() makes of the leaf it ends at: a node over the old leaf and
\* the new one, keyed by the larger.
Split(leaf, new) ==
  LET below == leaf.key < new.key
  IN  [key |-> IF below THEN new.key ELSE leaf.key,
       left |-> IF below THEN leaf ELSE new,
       right |-> IF below THEN new ELSE leaf]

RECURSIVE Leaves(_)
Leaves(t) ==
  IF IsEmpty(t) THEN {} ELSE IF IsLeaf(t) THEN {t} ELSE Leaves(t.left) \cup Leaves(t.right)

\* The nodes of the tree; the empty tree is one node.
RECURSIVE Count(_)
Count(t) ==
  IF t = Gone THEN 0 ELSE IF IsEmpty(t) \/ IsLeaf(t) THEN 1 ELSE 1 + Count(t.left) + Count(t.right)

\* The function from keys to objects that the leaves hold.
Contents(t) ==
  [k \in {l.key : l \in Leaves(t)} |-> (CHOOSE l \in Leaves(t) : l.key = k).obj]

\* check_tree() prints no "Wrong Key Order".
RECURSIVE InOrder(_, _, _)
InOrder(t, lower, upper) ==
  \/ IsEmpty(t)
  \/ /\ lower <= t.key /\ t.key < upper
     /\ IsLeaf(t) \/ (InOrder(t.left, lower, t.key) /\ InOrder(t.right, t.key, upper))

\* Neither does it print "Wrong Object".
Ordered(t, lower, upper) ==
  InOrder(t, lower, upper) /\ \A l \in Leaves(t) : l.obj = Object(l.key)

-----------------------------------------------------------------------------
(***************************************************************************)
(* make_tree() of ch2/t_op_tree.c, which ch4/intv_tree.c, segm_tree.c and  *)
(* or_r_tree.c repeat: a search tree of least height from a sorted list of *)
(* leaves, built from the root down. The nodes are made before they are    *)
(* filled, so the loop works on a function from paths to what the node     *)
(* there holds.                                                            *)
(***************************************************************************)

\* The loop: `stack` holds nodes to expand (at), with the node that takes the key of
\* the first leaf below (up, NULL for none) and the number of leaves.
RECURSIVE Expand(_, _, _)
Expand(f, stack, list) ==
  LET c == Last(stack)
      left == [at |-> c.at \o <<"left">>, up |-> c.up, number |-> c.number \div 2]
      right == [at |-> c.at \o <<"right">>, up |-> <<c.at>>, number |-> c.number - c.number \div 2]
      key == [p \in {c.up[i] : i \in DOMAIN c.up} |-> [key |-> list[1].key]]
  IN  IF stack = <<>> THEN f
      ELSE IF c.number > 1 THEN Expand(f, Front(stack) \o <<right, left>>, list)
      ELSE Expand((c.at :> list[1]) @@ key @@ f, Front(stack), Tail(list))

RECURSIVE TreeAt(_, _)
TreeAt(f, p) ==
  IF IsLeaf(f[p]) THEN f[p]
  ELSE [key |-> f[p].key, left |-> TreeAt(f, p \o <<"left">>), right |-> TreeAt(f, p \o <<"right">>)]

\* The list is not empty.
TreeOf(list) ==
  TreeAt(Expand(<<>>, <<[at |-> <<>>, up |-> <<>>, number |-> Len(list)]>>, list), <<>>)

\* The paths of all nodes.
RECURSIVE NodePaths(_, _)
NodePaths(t, p) ==
  {p} \cup IF IsLeaf(t) THEN {} ELSE NodePaths(t.left, p \o <<"left">>) \cup NodePaths(t.right, p \o <<"right">>)
=============================================================================
