---------------------------- MODULE SearchTrees -----------------------------
(***************************************************************************)
(* Search trees of books/advanced_data_structures: without rebalancing,    *)
(* balanced by height, balanced by weight, built from a sorted list.       *)
(***************************************************************************)
EXTENDS LeafTree

CONSTANT Keys

VARIABLES tree,   \* the tree, a value of LeafTree
          ans,   \* the last call, its argument and its result
          nodes   \* nodes_taken - nodes_returned

-----------------------------------------------------------------------------
(***************************************************************************)
(* ch2/triv_tree.c: the search tree without rebalancing.                   *)
(***************************************************************************)

\* get_node(), n times; return_node() for n < 0.
TrivTake(n) == nodes' = nodes + n

TrivInit == tree = Empty /\ ans = <<>> /\ nodes = 1

TrivInsert(k) ==
  LET new == [key |-> k, obj |-> Object(k)]
      p == Path(tree, k)
      leaf == At(tree, p)
  IN  \/ IsEmpty(tree) /\ tree' = new /\ ans' = <<"insert", k, 0>> /\ TrivTake(0)
      \/ /\ ~IsEmpty(tree) /\ leaf.key = k
         /\ ans' = <<"insert", k, -1>> /\ UNCHANGED <<tree, nodes>>
      \/ /\ ~IsEmpty(tree) /\ leaf.key # k
         /\ tree' = Put(tree, p, Split(leaf, new))
         /\ ans' = <<"insert", k, 0>> /\ TrivTake(2)

\* find_iterative() and find_recursive(), which main() calls in turn.
RECURSIVE FindRec(_, _)
FindRec(t, k) ==
  IF IsEmpty(t) \/ (IsLeaf(t) /\ t.key # k) THEN NULL
  ELSE IF IsLeaf(t) THEN t.obj ELSE FindRec(t[Side(t, k)], k)

TrivFind(k) ==
  /\ \E r \in {FindIn(tree, k), FindRec(tree, k)} : ans' = <<"find", k, r>>
  /\ UNCHANGED <<tree, nodes>>

\* interval_find(): the keys of the list it makes, whose nodes main() returns.
\* It does not ask whether the tree is empty.
RECURSIVE Interval(_, _, _)
Interval(t, a, b) ==
  IF IsEmpty(t) \/ IsLeaf(t) THEN IF a <= t.key /\ t.key < b THEN <<t.key>> ELSE <<>>
  ELSE IF b <= t.key THEN Interval(t.left, a, b)
  ELSE IF t.key <= a THEN Interval(t.right, a, b)
  ELSE Interval(t.left, a, b) \o Interval(t.right, a, b)

IntervalFind(a, b) ==
  ans' = <<"range", <<a, b>>, Interval(tree, a, b)>> /\ UNCHANGED <<tree, nodes>>

TrivDelete(k) ==
  LET p == Path(tree, k)
      leaf == At(tree, p)
      found == ~IsEmpty(tree) /\ leaf.key = k
  IN  \/ /\ ~found
         /\ ans' = <<"delete", k, NULL>> /\ UNCHANGED <<tree, nodes>>
      \/ /\ found
         /\ ans' = <<"delete", k, leaf.obj>>
         /\ \/ p = <<>> /\ tree' = EmptyAfter(k) /\ TrivTake(0)
            \/ /\ p # <<>> /\ tree' = Put(tree, Front(p), At(tree, Front(p))[Opp(Last(p))])
               /\ TrivTake(-2)

\* remove_tree(): the number of nodes it returns.  It turns the tree into a
\* list to the right and needs no stack.
RECURSIVE Removed(_)
Removed(t) ==
  IF IsEmpty(t) \/ IsLeaf(t) THEN 1
  ELSE IF IsLeaf(t.left) THEN 2 + Removed(t.right)
  ELSE Removed([t.left EXCEPT !.right = [t EXCEPT !.left = t.left.right]])

Quit == tree' = Gone /\ TrivTake(-Removed(tree)) /\ ans' = <<"quit">>

TrivNext ==
  /\ tree # Gone
  /\ \/ \E k \in Keys : TrivInsert(k) \/ TrivFind(k) \/ TrivDelete(k)
     \/ \E a, b \in Keys : IntervalFind(a, b)
     \/ Quit

-----------------------------------------------------------------------------
(***************************************************************************)
(* ch3/h_bl_tree.c: height-balanced trees.                                 *)
(***************************************************************************)

Avl == INSTANCE AvlTree WITH Turn <- Rotate

\* get_node(), n times; return_node() for n < 0.
HBlTake(n) == nodes' = nodes + n

HBlInit == tree = Empty /\ ans = <<>> /\ nodes = 1

HBlLeaf(k) == [key |-> k, obj |-> Object(k), height |-> 0]

HBlInsert(k) ==
  /\ tree' = Avl!InsertIn(tree, HBlLeaf(k))
  /\ ans' = <<"insert", k, IF Avl!Has(tree, k) THEN -1 ELSE 0>>
  /\ HBlTake(IF IsEmpty(tree) \/ Avl!Has(tree, k) THEN 0 ELSE 2)

HBlFind(k) == ans' = <<"find", k, FindIn(tree, k)>> /\ UNCHANGED <<tree, nodes>>

HBlDelete(k) ==
  /\ tree' = Avl!DeleteIn(tree, k)
  /\ ans' = <<"delete", k, FindIn(tree, k)>>
  /\ HBlTake(IF Avl!Has(tree, k) /\ ~IsLeaf(tree) THEN -2 ELSE 0)

HBlNext == \E k \in Keys : HBlInsert(k) \/ HBlFind(k) \/ HBlDelete(k)

HBlBalanced(t) == Avl!Balanced(t)

-----------------------------------------------------------------------------
(***************************************************************************)
(* ch3/w_bl_tree.c: weight-balanced trees.                                 *)
(***************************************************************************)

\* get_node(), n times; return_node() for n < 0.
WBlTake(n) == nodes' = nodes + n

WBlInit == tree = Empty /\ ans = <<>> /\ nodes = 1

\* ALPHA and ALPHA + EPSILON in thousandths.
ALPHA == 288
ALPHA_EPSILON == 293

WBlLeaf(k) == [key |-> k, obj |-> Object(k), weight |-> 1]

Weighed(n) == [n EXCEPT !.weight = n.left.weight + n.right.weight]

\* One turn of the rebalancing loops.  The right neighbour is tested first.
Rebalanced(old) ==
  LET n == Weighed(old)
      Light(s) == 1000 * n[s].weight < ALPHA * n.weight
      o == IF Light("right") THEN "right" ELSE "left"
      s == Opp(o)
      single == Rotate(n, o)
      double == Rotate([n EXCEPT ![s] = Rotate(@, s)], o)
  IN  IF ~Light("left") /\ ~Light("right") THEN n
      ELSE IF 1000 * n[s][s].weight > ALPHA_EPSILON * n.weight
        THEN [single EXCEPT ![o] = Weighed(@)]
      ELSE [double EXCEPT ![o] = Weighed(@), ![s] = Weighed(@)]

\* Mutant: the loop ends at the first node that needs no rotation.
RECURSIVE ClimbStops(_, _)
ClimbStops(t, p) ==
  LET n == Rebalanced(At(t, p))
  IN  IF p = <<>> \/ n = Weighed(At(t, p)) THEN Put(t, p, n) ELSE ClimbStops(Put(t, p, n), Front(p))

\* The loop: p is the path of the node last taken from path_stack.
RECURSIVE Climb(_, _)
Climb(t, p) ==
  LET u == Put(t, p, Rebalanced(At(t, p))) IN IF p = <<>> THEN u ELSE Climb(u, Front(p))

WBlInsert(k) ==
  LET p == Path(tree, k)
      leaf == At(tree, p)
      t == Put(tree, p, Split(leaf, WBlLeaf(k)) @@ [weight |-> 2])
  IN  \/ IsEmpty(tree) /\ tree' = WBlLeaf(k) /\ ans' = <<"insert", k, 0>> /\ WBlTake(0)
      \/ /\ ~IsEmpty(tree) /\ leaf.key = k
         /\ ans' = <<"insert", k, -1>> /\ UNCHANGED <<tree, nodes>>
      \/ /\ ~IsEmpty(tree) /\ leaf.key # k
         /\ tree' = IF p = <<>> THEN t ELSE Climb(t, Front(p))
         /\ ans' = <<"insert", k, 0>> /\ WBlTake(2)

WBlFind(k) == ans' = <<"find", k, FindIn(tree, k)>> /\ UNCHANGED <<tree, nodes>>

WBlDelete(k) ==
  LET p == Path(tree, k)
      leaf == At(tree, p)
      found == leaf.key = k
      t == IF found THEN Put(tree, Front(p), At(tree, Front(p))[Opp(Last(p))]) ELSE tree
      above == SubSeq(p, 1, Len(p) - 2)
  IN  \/ IsEmpty(tree) /\ ans' = <<"delete", k, NULL>> /\ UNCHANGED <<tree, nodes>>
      \/ /\ ~IsEmpty(tree)
         /\ ans' = <<"delete", k, IF found THEN leaf.obj ELSE NULL>>
         /\ \/ p = <<>> /\ tree' = (IF found THEN Empty ELSE tree) /\ WBlTake(0)
            \/ /\ p # <<>> /\ tree' = (IF Len(p) > 1 THEN Climb(t, above) ELSE t)
               /\ WBlTake(IF found THEN -2 ELSE 0)

WBlNext == \E k \in Keys : WBlInsert(k) \/ WBlFind(k) \/ WBlDelete(k)

\* Every stored weight is right, and neither side is lighter than ALPHA of it.
RECURSIVE WBlBalanced(_)
WBlBalanced(t) ==
  IF IsEmpty(t) THEN TRUE
  ELSE IF IsLeaf(t) THEN t.weight = 1
  ELSE /\ WBlBalanced(t.left) /\ WBlBalanced(t.right)
       /\ t = Weighed(t)
       /\ \A s \in {"left", "right"} : 1000 * t[s].weight >= ALPHA * t.weight

-----------------------------------------------------------------------------
(***************************************************************************)
(* What ch2/b_op_tree.c and t_op_tree.c share: main() prepends keys, in    *)
(* descending order, to a list, makes a search tree of least height of it  *)
(* and turns that back into a list.  The tree and the list use the same    *)
(* nodes; `tree` is one or the other.                                      *)
(***************************************************************************)

IsList(t) == "list" \in DOMAIN t

List(s) == [list |-> s]

Leaf(k) == [key |-> k, obj |-> Object(k)]

Node(k, l, r) == [key |-> k, left |-> l, right |-> r]

\* get_node(), n times; return_node() for n < 0.
OpTake(n) == nodes' = nodes + n

OpInit == tree = List(<<>>) /\ ans = <<>> /\ nodes = 0

\* One turn of main()'s first loop.
Prepend(k) ==
  /\ IsList(tree) /\ \A i \in DOMAIN tree.list : k < tree.list[i].key
  /\ tree' = List(<<Leaf(k)>> \o tree.list)
  /\ ans' = <<"insert", k, 0>> /\ OpTake(1)

\* make_list()'s loop: the tree on top of the stack goes in front of the list.
RECURSIVE Unstack(_, _)
Unstack(stack, list) ==
  LET node == Last(stack)
  IN  IF stack = <<>> THEN list
      ELSE IF IsLeaf(node) THEN Unstack(Front(stack), <<node>> \o list)
      ELSE Unstack(Front(stack) \o <<node.left, node.right>>, list)

ListOf(t) == IF IsEmpty(t) THEN <<>> ELSE Unstack(<<t>>, <<>>)

RECURSIVE Depth(_)
Depth(t) ==
  IF IsEmpty(t) \/ IsLeaf(t) THEN 0 ELSE 1 + Max({Depth(t.left), Depth(t.right)})

\* The tree is no deeper than any tree with that many leaves must be.
OpBalanced(t) ==
  IsList(t) \/ IsEmpty(t) \/ Depth(t) = 0 \/ 2 ^ (Depth(t) - 1) < Cardinality(Leaves(t))

OpHolds(t) == IF IsList(t) THEN [k \in {x.key : x \in ToSet(t.list)} |-> Object(k)] ELSE Contents(t)

OpInUse(t) == IF IsList(t) THEN Len(t.list) ELSE Count(t)

\* A list is sorted, and check_tree() finds nothing wrong with a tree.
OpSorted(t) ==
  IF IsList(t) THEN \A i \in 1 .. Len(t.list) - 1 : t.list[i].key < t.list[i + 1].key
  ELSE Ordered(t, -1000, 1000)

-----------------------------------------------------------------------------
(***************************************************************************)
(* ch2/b_op_tree.c: the optimal search tree, built from the leaves up.     *)
(***************************************************************************)

\* One pass through the list of trees joins them two by two.  An item is a tree with
\* the smallest key in it; the key of the second tree goes into the new node.
RECURSIVE Pass(_)
Pass(items) ==
  IF Len(items) < 2 THEN items
  ELSE LET a == items[1]
           b == items[2]
       IN  <<[key |-> a.key, t |-> Node(b.key, a.t, b.t)]>> \o Pass(SubSeq(items, 3, Len(items)))

RECURSIVE Joined(_)
Joined(items) == IF Len(items) = 1 THEN items[1].t ELSE Joined(Pass(items))

BOpMakeTree ==
  LET n == Len(tree.list)
  IN  /\ IsList(tree)
      /\ \/ n = 0 /\ tree' = Empty /\ OpTake(1)
         \/ n = 1 /\ tree' = tree.list[1] /\ OpTake(0)
         \/ /\ n > 1
            /\ tree' = Joined([i \in 1 .. n |-> [key |-> tree.list[i].key, t |-> tree.list[i]]])
            /\ OpTake(n - 1)
      /\ UNCHANGED ans

BOpMakeList ==
  /\ ~IsList(tree)
  /\ tree' = List(ListOf(tree)) /\ OpTake(Len(ListOf(tree)) - Count(tree)) /\ UNCHANGED ans

BOpNext == (\E k \in Keys : Prepend(k)) \/ BOpMakeTree \/ BOpMakeList

-----------------------------------------------------------------------------
(***************************************************************************)
(* ch2/t_op_tree.c: the optimal search tree, built from the root down.     *)
(***************************************************************************)

\* main() never passes an empty list.
TOpMakeTree ==
  /\ IsList(tree) /\ tree.list # <<>>
  /\ tree' = TreeOf(tree.list)
  /\ OpTake(Len(tree.list) - 1) /\ UNCHANGED ans

TOpMakeList ==
  /\ ~IsList(tree)
  /\ tree' = List(ListOf(tree)) /\ OpTake(Len(ListOf(tree)) - Count(tree)) /\ UNCHANGED ans

TOpNext == (\E k \in Keys : Prepend(k)) \/ TOpMakeTree \/ TOpMakeList
=============================================================================
