------------------------------- MODULE AvlTree ------------------------------
(***************************************************************************)
(* The height-balanced tree of ch3/h_bl_tree.c, as operators on the tree:  *)
(* ch4/wsum_tree.c, wsmx_tree.c, ch5/tree_heap.c, ch6/am_u_find.c,         *)
(* wc_u_find.c and lca_find.c repeat its insert() and delete() line by     *)
(* line, some with rotations of their own.                                 *)
(***************************************************************************)
EXTENDS LeafTree

CONSTANT Turn(_, _)   \* Turn(n, s): left_rotation(), right_rotation() of the program

\* The height of n from that of its lower neighbour on side s.
Over(n, s) == [n EXCEPT !.height = n[s].height + 1]

\* One turn of the rebalancing loops: n after its lower neighbours changed.
Rebalanced(n) ==
  LET s == IF n.left.height >= n.right.height THEN "left" ELSE "right"
      o == Opp(s)
      single == Turn(n, o)
      double == Turn([n EXCEPT ![s] = Turn(@, s)], o)
      h == double[s][s].height
  IN  IF n[s].height - n[o].height # 2
        THEN Over(n, IF n.left.height > n.right.height THEN "left" ELSE "right")
      ELSE IF n[s][s].height - n[o].height = 1
        THEN Over([single EXCEPT ![o] = Over(@, s)], o)
      ELSE [double EXCEPT ![s].height = h + 1, ![o].height = h + 1, !.height = h + 2]

\* The loop: p is the path of the node last taken from path_stack.
RECURSIVE Climb(_, _)
Climb(t, p) ==
  LET n == At(t, p)
      m == Rebalanced(n)
  IN  IF p = <<>> \/ m.height = n.height THEN Put(t, p, m)
      ELSE Climb(Put(t, p, m), Front(p))

Has(t, k) == ~IsEmpty(t) /\ At(t, Path(t, k)).key = k

\* The leaf becomes a node over its copy and the new leaf; the copy's other fields
\* are set as the new leaf's, the node keeps its own.
Grown(leaf, new) ==
  Split([new EXCEPT !.key = leaf.key, !.obj = leaf.obj], new) @@ [height |-> 1] @@
  [f \in DOMAIN leaf \ {"obj"} |-> leaf[f]]

\* insert(); a key that is there is refused.
InsertIn(t, new) ==
  LET p == Path(t, new.key)
      u == Put(t, p, Grown(At(t, p), new))
  IN  IF IsEmpty(t) THEN new
      ELSE IF Has(t, new.key) THEN t
      ELSE IF p = <<>> THEN u ELSE Climb(u, Front(p))

\* delete().  The loop starts above the node that took the place of the deleted
\* leaf's parent, and also when the key is not there.
DeleteIn(t, k) ==
  LET p == Path(t, k)
      u == IF Has(t, k) THEN Put(t, Front(p), At(t, Front(p))[Opp(Last(p))]) ELSE t
  IN  IF IsEmpty(t) THEN t
      ELSE IF p = <<>> THEN IF Has(t, k) THEN Empty ELSE t
      ELSE IF Len(p) > 1 THEN Climb(u, SubSeq(p, 1, Len(p) - 2)) ELSE u

\* Every stored height is right, and lower neighbours differ by one at most.
RECURSIVE Balanced(_)
Balanced(t) ==
  IF IsEmpty(t) THEN TRUE
  ELSE IF IsLeaf(t) THEN t.height = 0
  ELSE /\ Balanced(t.left) /\ Balanced(t.right)
       /\ t.left.height - t.right.height \in {-1, 0, 1}
       /\ t.height = 1 + (IF t.left.height > t.right.height THEN t.left ELSE t.right).height
=============================================================================
