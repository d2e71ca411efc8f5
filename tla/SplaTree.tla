------------------------------ MODULE SplaTree ------------------------------
(***************************************************************************)
(* ch3/spla_tree.c: splay trees.  Every node holds a key and its object;   *)
(* Nil is the NULL pointer, and a root whose object is NULL the empty      *)
(* tree.  A path is a sequence of sides.                                   *)
(***************************************************************************)
EXTENDS Integers, SequencesExt

CONSTANT Keys

VARIABLES tree, ans, nodes

Object(k) == 10 * k + 2

NULL == -1

Nil == [null |-> "node"]

\* remove_tree() has given all nodes back.
Gone == [null |-> "tree"]

Opp(s) == IF s = "left" THEN "right" ELSE "left"

\* get_node(), n times; return_node() for n < 0.
Take(n) == nodes' = nodes + n

\* The tree is Nil when it is empty; its root node is taken all the same.
Init == tree = Nil /\ ans = <<>> /\ nodes = 1

\* left_rotation() for s = "left", right_rotation() for s = "right".
Rotate(t, s) ==
  LET c == t[Opp(s)] IN [c EXCEPT ![s] = [t EXCEPT ![Opp(s)] = c[s]]]

RECURSIVE At(_, _)
At(t, p) == IF p = <<>> THEN t ELSE At(t[Head(p)], Tail(p))

RECURSIVE Put(_, _, _)
Put(t, p, u) ==
  IF p = <<>> THEN u ELSE [t EXCEPT ![Head(p)] = Put(@, Tail(p), u)]

\* The way of the searches in a nonempty tree, to the node with key k or to the last
\* one before a NULL pointer.
RECURSIVE Path(_, _)
Path(t, k) ==
  LET s == IF k < t.key THEN "left" ELSE "right"
  IN  IF t.key = k \/ t[s] = Nil THEN <<>> ELSE <<s>> \o Path(t[s], k)

\* find()'s second loop brings the node at path p to the root.
RECURSIVE Splay(_, _)
Splay(t, p) ==
  LET s == Last(Front(p))
      q == Front(Front(p))
      upper2 == At(t, q)
      once == IF Last(p) = s THEN Rotate(upper2, Opp(s)) ELSE [upper2 EXCEPT ![s] = Rotate(@, s)]
  IN  IF p = <<>> THEN t
      ELSE IF Len(p) = 1 THEN Rotate(t, Opp(p[1]))
      ELSE Splay(Put(t, q, Rotate(once, Opp(s))), q)

\* A find that fails keeps the nodes of its stack.
Find(k) ==
  LET p == Path(tree, k)
      found == tree # Nil /\ At(tree, p).key = k
  IN  \/ /\ found
         /\ tree' = Splay(tree, p) /\ ans' = <<"find", k, At(tree, p).obj>> /\ Take(0)
      \/ /\ ~found
         /\ ans' = <<"find", k, NULL>> /\ UNCHANGED tree
         /\ Take(IF tree = Nil THEN 0 ELSE Len(p) + 1)

Insert(k) ==
  LET new == [key |-> k, obj |-> Object(k), left |-> Nil, right |-> Nil]
      p == Path(tree, k)
      n == At(tree, p)
  IN  \/ tree = Nil /\ tree' = new /\ ans' = <<"insert", k, 0>> /\ Take(0)
      \/ /\ tree # Nil /\ n.key = k
         /\ ans' = <<"insert", k, -1>> /\ UNCHANGED <<tree, nodes>>
      \/ /\ tree # Nil /\ n.key # k
         /\ tree' = Put(tree, p, [n EXCEPT ![IF k < n.key THEN "left" ELSE "right"] = new])
         /\ ans' = <<"insert", k, 0>> /\ Take(1)

RECURSIVE Leftmost(_)
Leftmost(t) == IF t.left = Nil THEN t ELSE Leftmost(t.left)

RECURSIVE WithoutLeftmost(_)
WithoutLeftmost(t) ==
  IF t.left = Nil THEN t.right ELSE [t EXCEPT !.left = WithoutLeftmost(@)]

\* Mutant: the leftmost node of the right subtree is moved up without its right subtree.
ReplacementDropsSubtree(n) ==
  IF n.left = Nil THEN n.right
  ELSE IF n.right = Nil THEN n.left
  ELSE [n EXCEPT !.key = Leftmost(n.right).key, !.obj = Leftmost(n.right).obj,
                 !.right = IF @.left = Nil THEN Nil ELSE WithoutLeftmost(@)]

\* What delete() puts in the place of a node.
Replacement(n) ==
  IF n.left = Nil THEN n.right
  ELSE IF n.right = Nil THEN n.left
  ELSE [n EXCEPT !.key = Leftmost(n.right).key, !.obj = Leftmost(n.right).obj,
                 !.right = WithoutLeftmost(@)]

Delete(k) ==
  LET p == Path(tree, k)
      n == At(tree, p)
      found == tree # Nil /\ n.key = k
  IN  \/ ~found /\ ans' = <<"delete", k, NULL>> /\ UNCHANGED <<tree, nodes>>
      \/ /\ found
         /\ tree' = Put(tree, p, Replacement(n)) /\ ans' = <<"delete", k, n.obj>>
         /\ Take(IF Put(tree, p, Replacement(n)) = Nil THEN 0 ELSE -1)

\* remove_tree()
RECURSIVE NodeCnt(_)
NodeCnt(t) == IF t = Nil THEN 0 ELSE 1 + NodeCnt(t.left) + NodeCnt(t.right)

Quit ==
  tree' = Gone /\ ans' = <<"quit">> /\ Take(-(IF tree = Nil THEN 1 ELSE NodeCnt(tree)))

Next == /\ tree # Gone
        /\ (\E k \in Keys : Insert(k) \/ Find(k) \/ Delete(k)) \/ Quit

RECURSIVE Items(_)
Items(t) == IF t \in {Nil, Gone} THEN {} ELSE {t} \cup Items(t.left) \cup Items(t.right)

Contents(t) ==
  [k \in {x.key : x \in Items(t)} |-> (CHOOSE x \in Items(t) : x.key = k).obj]

\* The nodes of the tree; the empty tree is one node.
Count(t) == IF t = Gone THEN 0 ELSE IF t = Nil THEN 1 ELSE NodeCnt(t)

\* check_tree() prints neither "Wrong Key Order" nor "Wrong Object".
RECURSIVE Ordered(_, _, _)
Ordered(t, lower, upper) ==
  \/ t \in {Nil, Gone}
  \/ /\ lower <= t.key /\ t.key <= upper /\ t.obj = Object(t.key)
     /\ Ordered(t.left, lower, t.key) /\ Ordered(t.right, t.key, upper)
=============================================================================
