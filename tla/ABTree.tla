------------------------------- MODULE ABTree -------------------------------
(***************************************************************************)
(* ch3/a_b_tree.c: (A,B)-trees.  A node is a value with its height and its *)
(* entries, each a key and what next[] holds beside it: an object at       *)
(* height 0, a node above.  The key of an interior node's first entry is   *)
(* never read and is NULL here.  A path is a sequence of entry numbers.    *)
(*                                                                         *)
(* insert() does not look whether the key is there already; the input is   *)
(* taken to insert new keys only.                                          *)
(***************************************************************************)
EXTENDS Integers, SequencesExt

CONSTANT Keys

VARIABLES tree, ans, nodes

A == 2
B == 4

Object(k) == 10 * k + 2

NULL == -1

Entry(k, n) == [key |-> k, next |-> n]

\* A node; `old` is what a leaf without entries still holds in key[0], next[0].
Node(h, e) ==
  [height |-> h, e |-> IF h > 0 THEN [e EXCEPT ![1].key = NULL] ELSE e, old |-> <<>>]

\* get_node(), n times; return_node() for n < 0.
Take(n) == nodes' = nodes + n

Init == tree = Node(0, <<>>) /\ ans = <<>> /\ nodes = 1

\* The binary search among the keys of a node.
RECURSIVE Bisect(_, _, _, _)
Bisect(e, k, lower, upper) ==
  LET mid == (upper + lower) \div 2
  IN  IF upper <= lower + 1 THEN lower + 1
      ELSE IF k < e[mid + 1].key THEN Bisect(e, k, lower, mid) ELSE Bisect(e, k, mid, upper)

Slot(n, k) == Bisect(n.e, k, 0, Len(n.e))

RECURSIVE Path(_, _)
Path(t, k) ==
  IF t.height = 0 THEN <<>> ELSE <<Slot(t, k)>> \o Path(t.e[Slot(t, k)].next, k)

RECURSIVE At(_, _)
At(t, p) == IF p = <<>> THEN t ELSE At(t.e[Head(p)].next, Tail(p))

RECURSIVE Put(_, _, _)
Put(t, p, u) ==
  IF p = <<>> THEN u ELSE [t EXCEPT !.e[Head(p)].next = Put(@, Tail(p), u)]

\* A tree without keys is searched in what its root held before.
Find(k) ==
  LET leaf == At(tree, Path(tree, k))
      e == leaf.e \o leaf.old
      hit == e # <<>> /\ e[Slot(leaf, k)].key = k
  IN  /\ ans' = <<"find", k, IF hit THEN e[Slot(leaf, k)].next ELSE NULL>>
      /\ UNCHANGED <<tree, nodes>>

\* The entries of node n with the new one x: after those with a smaller key.
Placed(n, x) ==
  LET start == IF n.height > 0 THEN 1 ELSE 0
      before == {start} \cup {i \in start + 1 .. Len(n.e) : n.e[i].key <= x.key}
  IN  InsertAt(n.e, Max(before) + 1, x)

\* insert()'s second loop: x goes into the node at path p, full nodes are split.
RECURSIVE InsertUp(_, _, _)
InsertUp(t, p, x) ==
  LET n == At(t, p)
      e == Placed(n, x)
      keep == B + 1 - (B + 1) \div 2
      low == Node(n.height, SubSeq(e, 1, keep))
      high == Entry(e[keep + 1].key, Node(n.height, SubSeq(e, keep + 1, B + 1)))
  IN  IF Len(n.e) < B THEN [t |-> Put(t, p, Node(n.height, e)), new |-> 0]
      ELSE IF p = <<>>
        THEN [t |-> Node(n.height + 1, <<Entry(NULL, low), high>>), new |-> 2]
      ELSE LET r == InsertUp(Put(t, p, low), Front(p), high) IN [r EXCEPT !.new = @ + 1]

Insert(k) ==
  LET r == InsertUp(tree, Path(tree, k), Entry(k, Object(k)))
  IN  tree' = r.t /\ Take(r.new) /\ ans' = <<"insert", k, 0>>

\* One entry moves from the fuller neighbour at q + 1 (right) or q - 1 to node q
\* of `upper`.
Shared(upper, q, right) ==
  LET n == upper.e[q].next
      b == upper.e[IF right THEN q + 1 ELSE q - 1].next
      x == IF right THEN b.e[1] ELSE Last(b.e)
      rest == IF right THEN Tail(b.e) ELSE Front(b.e)
      sep == upper.e[IF right THEN q + 1 ELSE q].key
      up == IF right THEN b.e[2].key ELSE x.key
      mine == IF n.height = 0 THEN IF right THEN Append(n.e, x) ELSE <<x>> \o n.e
              ELSE IF right THEN Append(n.e, Entry(sep, x.next))
              ELSE <<x>> \o [n.e EXCEPT ![1].key = sep]
  IN  [upper EXCEPT !.e[q].next = Node(n.height, mine),
                    !.e[IF right THEN q + 1 ELSE q - 1].next = Node(n.height, rest),
                    !.e[IF right THEN q + 1 ELSE q].key = up]

\* Nodes q and q + 1 of `upper` become one.
Joined(upper, q) ==
  LET n == upper.e[q].next
      b == upper.e[q + 1].next
      e == IF n.height > 0 THEN [b.e EXCEPT ![1].key = upper.e[q + 1].key] ELSE b.e
  IN  Node(upper.height, RemoveAt([upper.e EXCEPT ![q].next = Node(n.height, n.e \o e)], q + 1))

\* delete()'s loop at the node at path p, which has lost an entry.
RECURSIVE DeleteUp(_, _)
DeleteUp(t, p) ==
  LET n == At(t, p)
      q == Last(p)
      upper == At(t, Front(p))
      right == q < Len(upper.e)
      full == Len(upper.e[IF right THEN q + 1 ELSE q - 1].next.e) > A
      joined == Joined(upper, IF right THEN q ELSE q - 1)
  IN  IF Len(n.e) >= A \/ (p = <<>> /\ n.height = 0) THEN [t |-> t, gone |-> 0]
      ELSE IF p = <<>> THEN [t |-> n.e[1].next, gone |-> 1]
      ELSE IF full THEN [t |-> Put(t, Front(p), Shared(upper, q, right)), gone |-> 0]
      ELSE LET r == DeleteUp(Put(t, Front(p), joined), Front(p))
           IN  [r EXCEPT !.gone = @ + 1]

Delete(k) ==
  LET p == Path(tree, k)
      leaf == At(tree, p)
      at == {i \in DOMAIN leaf.e : leaf.e[i].key = k}
      i == CHOOSE j \in at : TRUE
      rest == RemoveAt(leaf.e, i)
      less == [Node(0, rest) EXCEPT !.old = IF rest = <<>> THEN leaf.e ELSE <<>>]
      r == DeleteUp(Put(tree, p, less), p)
  IN  \/ /\ at = {}
         /\ ans' = <<"delete", k, NULL>> /\ UNCHANGED <<tree, nodes>>
      \/ /\ at # {}
         /\ tree' = r.t /\ Take(-r.gone) /\ ans' = <<"delete", k, leaf.e[i].next>>

\* The keys and objects of the leaves, and the number of nodes.
RECURSIVE Items(_)
Items(t) ==
  IF t.height = 0 THEN ToSet(t.e) ELSE UNION {Items(t.e[i].next) : i \in DOMAIN t.e}

Contents(t) ==
  [k \in {x.key : x \in Items(t)} |-> (CHOOSE x \in Items(t) : x.key = k).next]

RECURSIVE Count(_)
Count(t) ==
  IF t.height = 0 THEN 1 ELSE FoldLeft(LAMBDA n, x : n + Count(x.next), 1, t.e)

Next == \E k \in Keys :
          \/ k \notin DOMAIN Contents(tree) /\ Insert(k)
          \/ Find(k)
          \/ Delete(k)

\* check_tree() prints no ":?".
RECURSIVE Ordered(_, _, _)
Ordered(t, lower, upper) ==
  LET first == IF t.height > 0 THEN 2 ELSE 1
      Low(i) == IF i = 1 THEN lower ELSE t.e[i].key
      High(i) == IF i = Len(t.e) THEN upper ELSE t.e[i + 1].key
  IN  /\ \A i \in first .. Len(t.e) : lower <= t.e[i].key /\ t.e[i].key < upper
      /\ t.height > 0 => \A i \in DOMAIN t.e : Ordered(t.e[i].next, Low(i), High(i))

\* Every node below the root has A to B entries, and all leaves are at height 0.
RECURSIVE Filled(_)
Filled(t) ==
  t.height > 0 => \A i \in DOMAIN t.e : LET n == t.e[i].next IN
    n.height = t.height - 1 /\ Len(n.e) \in A .. B /\ Filled(n)

Balanced(t) == Len(t.e) <= B /\ (t.height > 0 => Len(t.e) >= 2) /\ Filled(t)
=============================================================================
