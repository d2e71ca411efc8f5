--------------------------- MODULE RedBlackTrees ----------------------------
(***************************************************************************)
(* Red-black trees of books/advanced_data_structures, rebalanced on the    *)
(* way up and on the way down.                                             *)
(***************************************************************************)
EXTENDS LeafTree, FiniteSets

CONSTANT Keys

VARIABLES tree, ans, nodes

-----------------------------------------------------------------------------
(***************************************************************************)
(* ch3/rb_tree.c: red-black trees, rebalanced from the leaf up.            *)
(***************************************************************************)

\* get_node(), n times; return_node() for n < 0.
RbTake(n) == nodes' = nodes + n

RbInit == tree = Empty /\ ans = <<>> /\ nodes = 1

Leaf(k, c) == [key |-> k, obj |-> Object(k), color |-> c]

Black(t) == t.color = "black"

\* t with the colours c below and of itself.
Paint(t, below, own) ==
  [t EXCEPT !.left.color = below, !.right.color = below, !.color = own]

\* One turn of insert()'s loop at `upper`, whose lower neighbour on side s is the
\* upper node of a red-red conflict.
Resolved(upper, s) ==
  LET o == Opp(s)
  IN  IF upper.left.color = upper.right.color THEN Paint(upper, "black", "red")
      ELSE IF Black(upper[s][o])
        THEN [Rotate(upper, o) EXCEPT ![o].color = "red", !.color = "black"]
      ELSE Paint(Rotate([upper EXCEPT ![s] = Rotate(@, s)], o), "black", "red")

\* insert()'s loop: p is the path of current_node, which is red.
RECURSIVE ClimbRed(_, _)
ClimbRed(t, p) ==
  LET q == Front(p)
      upper == At(t, q)
      s == Last(p)
      u == Put(t, q, Resolved(upper, s))
      single == upper.left.color # upper.right.color /\ Black(upper[s][Opp(s)])
  IN  IF p = <<>> THEN t
      ELSE IF single \/ q = <<>> \/ Black(At(u, Front(q))) THEN u
      ELSE ClimbRed(u, Front(q))

RbInsert(k) ==
  LET p == Path(tree, k)
      leaf == At(tree, p)
      t == Put(tree, p, Split([leaf EXCEPT !.color = "red"], Leaf(k, "red"))
                          @@ [color |-> leaf.color])
      u == IF Black(leaf) THEN t ELSE ClimbRed(t, p)
  IN  \/ /\ IsEmpty(tree)
         /\ tree' = Leaf(k, "black") /\ ans' = <<"insert", k, 0>> /\ RbTake(0)
      \/ /\ ~IsEmpty(tree) /\ leaf.key = k
         /\ ans' = <<"insert", k, -1>> /\ UNCHANGED <<tree, nodes>>
      \/ /\ ~IsEmpty(tree) /\ leaf.key # k
         /\ tree' = [u EXCEPT !.color = "black"]
         /\ ans' = <<"insert", k, 0>> /\ RbTake(2)

RbFind(k) == ans' = <<"find", k, FindIn(tree, k)>> /\ UNCHANGED <<tree, nodes>>

\* One turn of delete()'s loop at `upper`, whose lower neighbour on side s is a
\* black node with a black missing: the new upper, and whether that ends it.
Refilled(upper, s) ==
  LET o == Opp(s)
      other == upper[o]
      single == [Rotate(upper, s) EXCEPT ![s].color = "red", !.color = "black"]
      Double(c) == Paint(Rotate([upper EXCEPT ![o] = Rotate(@, o)], s), "black", c)
      up == Rotate(upper, s)
      near == [Rotate(up[s], s) EXCEPT ![s].color = "red", !.color = "black"]
      far == Paint(Rotate([up[s] EXCEPT ![o] = Rotate(@, o)], s), "black", "red")
  IN  IF ~Black(upper) \/ Black(other)
        THEN IF Black(other[s]) THEN [t |-> single, finished |-> ~Black(upper)]
             ELSE [t |-> Double(upper.color), finished |-> TRUE]
        ELSE [t |-> [up EXCEPT ![s] = IF Black(other[s][s]) THEN near ELSE far,
                               !.color = "black"],
              finished |-> TRUE]

\* delete()'s loop: p is the path of the black-deficient node.
RECURSIVE ClimbBlack(_, _)
ClimbBlack(t, p) ==
  IF p = <<>> \/ ~Black(At(t, p)) THEN Put(t, p, [At(t, p) EXCEPT !.color = "black"])
  ELSE LET q == Front(p)
           r == Refilled(At(t, q), Last(p))
           u == Put(t, q, r.t)
       IN  IF r.finished \/ q = <<>> THEN u ELSE ClimbBlack(u, Front(q))

RbDelete(k) ==
  LET p == Path(tree, k)
      leaf == At(tree, p)
      found == ~IsEmpty(tree) /\ leaf.key = k
      q == Front(p)
      upper == At(tree, q)
      other == upper[Opp(Last(p))]
      t == Put(tree, q, [other EXCEPT !.color = "black"])
  IN  \/ /\ ~found
         /\ ans' = <<"delete", k, NULL>> /\ UNCHANGED <<tree, nodes>>
      \/ /\ found
         /\ ans' = <<"delete", k, leaf.obj>>
         /\ \/ p = <<>> /\ tree' = Empty /\ RbTake(0)
            \/ /\ p # <<>>
               /\ tree' = IF upper.color # other.color THEN t ELSE ClimbBlack(t, q)
               /\ RbTake(-2)

RbNext == \E k \in Keys : RbInsert(k) \/ RbFind(k) \/ RbDelete(k)

\* check_tree() reports no red node below a red one.
RECURSIVE NoRedRed(_)
NoRedRed(t) ==
  IsEmpty(t) \/ IsLeaf(t)
    \/ /\ Black(t) \/ (Black(t.left) /\ Black(t.right))
       /\ NoRedRed(t.left) /\ NoRedRed(t.right)

\* The black nodes on the ways from t to its leaves, which check_tree() prints.
RECURSIVE BlackCounts(_)
BlackCounts(t) ==
  LET own == IF Black(t) THEN 1 ELSE 0
  IN  IF IsLeaf(t) THEN {own}
      ELSE {own + c : c \in BlackCounts(t.left) \cup BlackCounts(t.right)}

\* The root is black, no red node is below a red one, and all ways to a leaf
\* have the same number of black nodes.
Balanced(t) ==
  IsEmpty(t) \/ (Black(t) /\ NoRedRed(t) /\ Cardinality(BlackCounts(t)) = 1)

-----------------------------------------------------------------------------
(***************************************************************************)
(* ch3/t_rb_tree.c: red-black trees, rebalanced on the way down.  `upper`  *)
(* and `current` are paths from the root; both sides of the program's case *)
(* distinctions are mirror images, written once with a side s.             *)
(***************************************************************************)

\* get_node(), n times; return_node() for n < 0.
TRbTake(n) == nodes' = nodes + n

TRbInit == tree = Empty /\ ans = <<>> /\ nodes = 1

BothBlack(t) == Black(t.left) /\ Black(t.right)

Below(t, c) == [t EXCEPT !.left.color = c, !.right.color = c]

\* The two red lower neighbours of the node `current` become black and it, or the
\* rotated top, takes the red: insert()'s rebalancing below `upper`, where d is the
\* way from upper to current.
Pushed(upper, s, d) ==
  LET o == Opp(s)
      up == Rotate(IF d = <<s, s>> THEN upper ELSE [upper EXCEPT ![s] = Rotate(@, s)], o)
      red == Below(up, "red")
  IN  IF d = <<s>> THEN [upper EXCEPT ![s] = [Below(@, "black") EXCEPT !.color = "red"]]
      ELSE IF d = <<s, s>> THEN [red EXCEPT ![s] = Below(@, "black")]
      ELSE [red EXCEPT ![o][s].color = "black", ![s][o].color = "black"]

\* Where current's lower neighbour on side n is after that.
PushedTo(s, d, n) ==
  IF d = <<s>> THEN <<s, n>>
  ELSE IF d = <<s, s>> THEN <<s, n>>
  ELSE <<n, Opp(n)>>

\* insert()'s loop; up = <<>> with top = TRUE is upper == NULL.
RECURSIVE InsertDown(_, _, _, _, _)
InsertDown(t, k, top, up, d) ==
  LET c == At(t, up \o d)
      n == Side(c, k)
      u == At(t, up)
      s == IF c.key < u.key THEN "left" ELSE "right"
      next == PushedTo(s, d, n)
  IN  IF IsLeaf(c) THEN [t |-> t, p |-> up \o d]
      ELSE IF ~Black(c) THEN InsertDown(t, k, FALSE, up, d \o <<n>>)
      ELSE IF Black(c.left) \/ Black(c.right) THEN InsertDown(t, k, FALSE, up \o d, <<n>>)
      ELSE IF top THEN InsertDown(Below(t, "black"), k, FALSE, <<n>>, <<>>)
      ELSE InsertDown(Put(t, up, Pushed(u, s, d)), k, FALSE, up \o next, <<>>)

TRbInsert(k) ==
  LET r == InsertDown(tree, k, TRUE, <<>>, <<>>)
      leaf == At(r.t, r.p)
      t == Put(r.t, r.p, Split([leaf EXCEPT !.color = "red"], Leaf(k, "red"))
                          @@ [color |-> leaf.color])
  IN  \/ /\ IsEmpty(tree)
         /\ tree' = Leaf(k, "black") /\ ans' = <<"insert", k, 0>> /\ TRbTake(0)
      \/ /\ ~IsEmpty(tree) /\ leaf.key = k
         /\ tree' = r.t /\ ans' = <<"insert", k, -1>> /\ TRbTake(0)
      \/ /\ ~IsEmpty(tree) /\ leaf.key # k
         /\ tree' = t /\ ans' = <<"insert", k, 0>> /\ TRbTake(2)

TRbFind(k) == ans' = <<"find", k, FindIn(tree, k)>> /\ UNCHANGED <<tree, nodes>>

\* delete() gives the root a red lower neighbour, or goes to one that has some: the
\* tree and the path of `upper`.
Prepared(t, s) ==
  LET o == Opp(s)
      turned == Rotate(IF ~Black(t[o][o]) THEN t ELSE [t EXCEPT ![o] = Rotate(@, o)], s)
  IN  IF ~BothBlack(t) THEN [t |-> t, up |-> <<>>]
      ELSE IF IsLeaf(t[s])
        THEN [t |-> IF IsLeaf(t[o]) THEN Below(t, "red")
                    ELSE [t EXCEPT ![o] = [Below(@, "black") EXCEPT !.color = "red"]],
              up |-> <<>>]
      ELSE IF ~BothBlack(t[s]) THEN [t |-> t, up |-> <<s>>]
      ELSE IF ~BothBlack(t[o])
        THEN [t |-> [Below(turned, "black") EXCEPT ![s][s].color = "red"], up |-> <<s>>]
      ELSE [t |-> Below(t, "red"), up |-> <<>>]

\* The test for a leaf on the right-hand side reads the left pointer, which holds the
\* leaf's object: delete() then follows the leaf's NULL right pointer.
NullRead(k) ==
  /\ ~IsEmpty(tree) /\ ~IsLeaf(tree)
  /\ BothBlack(tree) /\ k >= tree.key /\ IsLeaf(tree.right)

\* delete()'s cases 2 and 3: `upper` has a red lower neighbour, and below it, on the
\* way d, is the black node `current` with black lower neighbours.  The result has
\* a red lower neighbour at the path `down`, the new upper and current.
Lent(upper, s, d) ==
  LET o == Opp(s)
      far == upper[o][s]
      turned == Rotate([upper EXCEPT ![o] =
                          Rotate(IF Black(far[s]) THEN @ ELSE [@ EXCEPT ![s] = Rotate(@, o)], o)], s)
      e == IF d = <<s, s>> THEN s ELSE o
      near == upper[s][Opp(e)]
      lower == Rotate(IF ~Black(near[Opp(e)]) THEN upper[s]
                      ELSE [upper[s] EXCEPT ![Opp(e)] = Rotate(@, Opp(e))], e)
  IN  IF d = <<s>>
        THEN IF BothBlack(far)
               THEN [t |-> [Rotate(upper, s) EXCEPT
                              ![s] = [Below(@, "red") EXCEPT !.color = "black"]],
                     down |-> <<s>>]
               ELSE [t |-> [turned EXCEPT ![s].color = "black", ![o][s].color = "black",
                                          ![o].color = "red", ![s][s].color = "red"],
                     down |-> <<s>>]
        ELSE IF BothBlack(near)
               THEN [t |-> [upper EXCEPT ![s] = [Below(@, "red") EXCEPT !.color = "black"]],
                     down |-> <<s>>]
               ELSE [t |-> [upper EXCEPT
                              ![s] = [Below(lower, "black") EXCEPT !.color = "red",
                                                                  ![e][e].color = "red"]],
                     down |-> <<s, e>>]

\* delete()'s loop, from `upper` and the way d to `current`.
RECURSIVE DeleteDown(_, _, _, _)
DeleteDown(t, k, up, d) ==
  LET n == Side(At(t, up \o d), k)
      e == d \o <<n>>
      c == At(t, up \o e)
      u == At(t, up)
      r == Lent(u, IF c.key < u.key THEN "left" ELSE "right", e)
  IN  IF IsLeaf(c) THEN [t |-> t, up |-> up, d |-> e]
      ELSE IF ~Black(c) THEN DeleteDown(t, k, up, e)
      ELSE IF ~BothBlack(c) THEN DeleteDown(t, k, up \o e, <<>>)
      ELSE DeleteDown(Put(t, up, r.t), k, up \o r.down, <<>>)

\* The leaf at the way d below `upper` and the red node next to it go.
Without(upper, d) ==
  LET s == IF At(upper, d).key < upper.key THEN "left" ELSE "right"
  IN  IF d = <<s>> THEN [upper[Opp(s)] EXCEPT !.color = upper.color]
      ELSE [upper EXCEPT ![s] = IF d = <<s, s>> THEN @[Opp(s)] ELSE @[s]]

TRbDelete(k) ==
  LET pre == Prepared([tree EXCEPT !.color = "black"], Side(tree, k))
      r == DeleteDown(pre.t, k, pre.up, <<>>)
      leaf == At(r.t, r.up \o r.d)
      one == ~IsEmpty(tree) /\ IsLeaf(tree)
      many == ~IsEmpty(tree) /\ ~IsLeaf(tree) /\ ~NullRead(k)
  IN  \/ /\ IsEmpty(tree) \/ (one /\ tree.key # k)
         /\ ans' = <<"delete", k, NULL>> /\ UNCHANGED <<tree, nodes>>
      \/ /\ one /\ tree.key = k
         /\ tree' = Empty /\ ans' = <<"delete", k, tree.obj>> /\ TRbTake(0)
      \/ /\ many /\ leaf.key # k
         /\ tree' = r.t /\ ans' = <<"delete", k, NULL>> /\ TRbTake(0)
      \/ /\ many /\ leaf.key = k
         /\ tree' = Put(r.t, r.up, Without(At(r.t, r.up), r.d))
         /\ ans' = <<"delete", k, leaf.obj>> /\ TRbTake(-2)

\* The program is killed.
Crash(k) ==
  /\ NullRead(k)
  /\ tree' = Gone /\ ans' = <<"crash", k, NULL>> /\ nodes' = 0

TRbNext ==
  /\ tree # Gone
  /\ \E k \in Keys : TRbInsert(k) \/ TRbFind(k) \/ TRbDelete(k) \/ Crash(k)
=============================================================================
