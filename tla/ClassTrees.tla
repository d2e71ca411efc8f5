----------------------------- MODULE ClassTrees -----------------------------
(***************************************************************************)
(* Classes of items and common ancestors, books/advanced_data_structures,  *)
(* chapter 6.                                                              *)
(***************************************************************************)
EXTENDS LeafTree

CONSTANTS Items, Pairs,   \* the pairs of items asked for
          MaxLen   \* MaxLen bounds the number of nodes

VARIABLES store, ans

-----------------------------------------------------------------------------
(***************************************************************************)
(* What ch6/am_u_find.c, wc_u_find.c and lca_find.c share: main() keeps    *)
(* the nodes of the structure in a height-balanced tree, by item; delete() *)
(* is never called. A node is named by the item it was made for.           *)
(***************************************************************************)

Avl == INSTANCE AvlTree WITH Turn <- Rotate

None == 0

\* find() and insert() of the search tree in am_u_find.c; the object is the node.
AmUFind(t, x) == FindIn(t, x)

AmUInsertItem(t, x, node) == Avl!InsertIn(t, [key |-> x, obj |-> node, height |-> 0])

\* The root above n.
RECURSIVE RootOf(_, _)
RootOf(up, n) == IF up[n] = None THEN n ELSE RootOf(up, up[n])

\* The classes the up pointers make.
ClassesOf(up) ==
  {{n \in DOMAIN up : RootOf(up, n) = r} : r \in {m \in DOMAIN up : up[m] = None}}

-----------------------------------------------------------------------------
(***************************************************************************)
(* ch6/am_u_find.c: union-find with union by rank and path compression.    *)
(*                                                                         *)
(* The items of a call are there: main() does not look at what find() says.*)
(***************************************************************************)

AmUKnown(t, x) == AmUFind(t, x) # NULL

AmUInit == store = [tree |-> Empty, up |-> <<>>, rank |-> <<>>] /\ ans = <<>>

\* uf_insert() and insert(); a node whose item is refused is lost.
AmUInsert(x) ==
  \/ /\ ~AmUKnown(store.tree, x) /\ ans' = <<"insert", x, 0>>
     /\ store' = [tree |-> AmUInsertItem(store.tree, x, x),
                  up |-> (x :> None) @@ store.up, rank |-> (x :> 0) @@ store.rank]
  \/ AmUKnown(store.tree, x) /\ ans' = <<"insert", x, -1>> /\ UNCHANGED store

\* The path above n is made to point to root.
RECURSIVE Compress(_, _, _)
Compress(up, n, root) ==
  IF up[n] \in {root, None} THEN up ELSE Compress([up EXCEPT ![n] = root], up[n], root)

\* Mutant: both paths are made to point to the first root.
CompressedToFirst(up, a, b) ==
  LET root == RootOf(up, a) IN Compress(Compress(up, a, root), b, root)

\* What same_class() makes of the up pointers.
Compressed(up, a, b) ==
  Compress(Compress(up, a, RootOf(up, a)), b, RootOf(up, b))

AmUSameClass(a, b) ==
  /\ AmUKnown(store.tree, a) /\ AmUKnown(store.tree, b)
  /\ store' = [store EXCEPT !.up = Compressed(@, a, b)]
  /\ ans' = <<"same", <<a, b>>, RootOf(store.up, a) = RootOf(store.up, b)>>

\* join(), after which main() asks same_class().
AmUJoin(a, b) ==
  LET r1 == RootOf(store.up, a)
      r2 == RootOf(store.up, b)
      top == IF store.rank[r1] >= store.rank[r2] THEN r1 ELSE r2
      low == IF top = r1 THEN r2 ELSE r1
      up == [store.up EXCEPT ![low] = top]
      joined == Compress(Compress(up, a, top), b, top)
  IN  /\ AmUKnown(store.tree, a) /\ AmUKnown(store.tree, b) /\ r1 # r2
      /\ store' = [store EXCEPT !.up = Compressed(joined, a, b),
                                !.rank[top] = @ + (IF store.rank[r1] = store.rank[r2] THEN 1 ELSE 0)]
      /\ ans' = <<"join", <<a, b>>, RootOf(joined, a) = RootOf(joined, b)>>

\* join() of a class with itself makes its root point to itself; same_class(), which
\* main() asks next, follows that pointer for ever.
AmUJoinAgain(a, b) ==
  /\ AmUKnown(store.tree, a) /\ AmUKnown(store.tree, b)
  /\ RootOf(store.up, a) = RootOf(store.up, b)
  /\ ans' = <<"hang", <<a, b>>>> /\ UNCHANGED store

Hung == ans # <<>> /\ ans[1] = "hang"

\* The items come in ascending order, or the first comes again.
AmUNext ==
  /\ ~Hung
  /\ \/ \E x \in {Cardinality(DOMAIN store.up) + 1, 1} : x \in Items /\ AmUInsert(x)
     \/ \E p \in Pairs : \/ AmUSameClass(p[1], p[2])
                         \/ AmUJoin(p[1], p[2])
                         \/ AmUJoinAgain(p[1], p[2])

\* Ranks grow along the up pointers, and a root of rank r is over 2^r items.
AmUSound(s) ==
  /\ Avl!Balanced(s.tree)
  /\ \A n \in DOMAIN s.up : s.up[n] # None => s.rank[n] < s.rank[s.up[n]]
  /\ \A n \in DOMAIN s.up :
       s.up[n] = None => 2 ^ s.rank[n] <= Cardinality({m \in DOMAIN s.up : RootOf(s.up, m) = n})

-----------------------------------------------------------------------------
(***************************************************************************)
(* ch6/wc_u_find.c: union-find with few levels. A root has the list of its *)
(* lower neighbours, linked by `list`, their number, `indegree`, and a     *)
(* height.                                                                 *)
(*                                                                         *)
(* The items of a call are there: main() does not look at what find() says.*)
(***************************************************************************)

\* find() and insert() again, of the search tree in this program.
WcUFind(t, x) == FindIn(t, x)

WcUInsertItem(t, x, node) == Avl!InsertIn(t, [key |-> x, obj |-> node, height |-> 0])

WcUKnown(t, x) == WcUFind(t, x) # NULL

WcUInit ==
  /\ store = [tree |-> Empty, up |-> <<>>, list |-> <<>>, height |-> <<>>, indegree |-> <<>>]
  /\ ans = <<>>

\* uf_insert() and insert(); a node whose item is refused is lost.
WcUInsert(x) ==
  \/ /\ ~WcUKnown(store.tree, x) /\ ans' = <<"insert", x, 0>>
     /\ store' = [tree |-> WcUInsertItem(store.tree, x, x),
                  up |-> (x :> None) @@ store.up, list |-> (x :> None) @@ store.list,
                  height |-> (x :> 0) @@ store.height, indegree |-> (x :> 0) @@ store.indegree]
  \/ WcUKnown(store.tree, x) /\ ans' = <<"insert", x, -1>> /\ UNCHANGED store

WcUSameClass(a, b) ==
  /\ WcUKnown(store.tree, a) /\ WcUKnown(store.tree, b)
  /\ ans' = <<"same", <<a, b>>, RootOf(store.up, a) = RootOf(store.up, b)>> /\ UNCHANGED store

\* The nodes from n on, by `list`.
RECURSIVE ListFrom(_, _)
ListFrom(list, n) == IF n = None THEN <<>> ELSE <<n>> \o ListFrom(list, list[n])

\* The nodes of S point to n.
Pointing(up, S, n) == [m \in DOMAIN up |-> IF m \in S THEN n ELSE up[m]]

\* join() for root r1, the higher, and root r2.
\* The smaller tree and its lower neighbours go below a node on r1's list.
Below(s, r1, r2) ==
  [s EXCEPT !.up = Pointing(@, {r2} \cup ToSet(ListFrom(s.list, s.list[r2])), s.list[r1])]

\* r1 becomes the only lower neighbour of r2.
Over(s, r1, r2) ==
  [s EXCEPT !.up[r1] = r2, !.list[r1] = None, !.list[r2] = r1,
            !.height[r2] = s.height[r1] + 1, !.indegree[r2] = 1]

\* Equal heights, of two at least: the lists are linked.
Linked(s, r1, r2) ==
  LET low == ListFrom(s.list, s.list[r2])
      n == s.indegree[r1] + s.indegree[r2]
      t == [s EXCEPT !.up = Pointing(@, ToSet(low), r1), !.list[Last(low)] = s.list[r1],
                     !.list[r1] = s.list[r2], !.indegree[r1] = n]
  IN  IF n <= s.height[r1] THEN [t EXCEPT !.up[r2] = t.list[r1]] ELSE Over(t, r1, r2)

Joined(s, r1, r2) ==
  IF s.height[r1] >= 2
    THEN IF s.height[r2] < s.height[r1] THEN Below(s, r1, r2) ELSE Linked(s, r1, r2)
  ELSE IF s.height[r1] = 0
    THEN [s EXCEPT !.height[r1] = 1, !.indegree[r1] = 1, !.list[r1] = r2, !.up[r2] = r1]
  ELSE Over([s EXCEPT !.up = IF s.height[r2] = 1 THEN Pointing(@, {s.list[r2]}, r1) ELSE @], r1, r2)

\* join(), after which main() asks same_class().
WcUJoin(a, b) ==
  LET ra == RootOf(store.up, a)
      rb == RootOf(store.up, b)
      s == IF store.height[ra] < store.height[rb] THEN Joined(store, rb, ra) ELSE Joined(store, ra, rb)
  IN  /\ WcUKnown(store.tree, a) /\ WcUKnown(store.tree, b) /\ ra # rb
      /\ store' = s
      /\ ans' = <<"join", <<a, b>>, RootOf(s.up, a) = RootOf(s.up, b)>>

\* join() of a class with itself puts the root below itself or below a node of its list:
\* again same_class() does not end.
WcUJoinAgain(a, b) ==
  /\ WcUKnown(store.tree, a) /\ WcUKnown(store.tree, b)
  /\ RootOf(store.up, a) = RootOf(store.up, b)
  /\ ans' = <<"hang", <<a, b>>>> /\ UNCHANGED store

\* The items come in ascending order, or the first comes again.
WcUNext ==
  /\ ~Hung
  /\ \/ \E x \in {Cardinality(DOMAIN store.up) + 1, 1} : x \in Items /\ WcUInsert(x)
     \/ \E p \in Pairs : \/ WcUSameClass(p[1], p[2])
                         \/ WcUJoin(p[1], p[2])
                         \/ WcUJoinAgain(p[1], p[2])

RECURSIVE Level(_, _)
Level(up, n) == IF up[n] = None THEN 0 ELSE 1 + Level(up, up[n])

\* What main() prints no "error in next!" for: a root's list holds lower neighbours of
\* it, as many as its indegree, and not more than its height; no path is longer.
WcUSound(s) ==
  /\ Avl!Balanced(s.tree)
  /\ \A r \in DOMAIN s.up : s.up[r] = None =>
       LET low == ListFrom(s.list, s.list[r])
       IN  /\ Len(low) = s.indegree[r] /\ s.indegree[r] <= s.height[r]
           /\ \A i \in DOMAIN low : s.up[low[i]] = r
  /\ \A n \in DOMAIN s.up : Level(s.up, n) <= s.height[RootOf(s.up, n)]

-----------------------------------------------------------------------------
(***************************************************************************)
(* ch6/lca_find.c: lowest common ancestors by exponential search. Each     *)
(* node of the growing tree heads a list of nodes, of which the one on     *)
(* level l points to where 2^l steps up lead, on the same level. A list    *)
(* node is named <<n, l>>, n the number of its head in order of creation;  *)
(* `item` is that of each n.                                               *)
(***************************************************************************)

NoNode == <<>>

\* find() and insert() again, of the search tree in this program.
LcaFind(t, x) == FindIn(t, x)

LcaInsertItem(t, x, node) == Avl!InsertIn(t, [key |-> x, obj |-> node, height |-> 0])

LcaKnown(t, x) == LcaFind(t, x) # NULL

\* The root has the item 0.
LcaInit ==
  /\ store = [tree |-> LcaInsertItem(Empty, 0, 0), up |-> (<<0, 0>> :> NoNode), depth |-> (0 :> 0)]
  /\ ans = <<>>

Higher(v) == <<v[1], v[2] + 1>>   \* next
Lower(v) == <<v[1], v[2] - 1>>    \* prev, of a level above 0

\* The loop of add_leaf(): the forward pointers of v's list, i / 2^l steps left.
RECURSIVE Forward(_, _, _)
Forward(up, v, i) ==
  LET target == Higher(up[up[v]])
      made == IF target \in DOMAIN up THEN up ELSE (target :> NoNode) @@ up
  IN  IF i <= 1 THEN up ELSE Forward((Higher(v) :> target) @@ made, Higher(v), i \div 2)

\* add_leaf(), then insert(), which may refuse the item.
AddLeaf(new, old) ==
  LET n == Cardinality(DOMAIN store.depth)
      node == LcaFind(store.tree, old)
      d == store.depth[node] + 1
  IN  /\ LcaKnown(store.tree, old) /\ n < MaxLen
      /\ store' = [tree |-> LcaInsertItem(store.tree, new, n),
                   up |-> Forward((<<n, 0>> :> <<node, 0>>) @@ store.up, <<n, 0>>, d),
                   depth |-> (n :> d) @@ store.depth]
      /\ ans' = <<"add", <<new, old>>, IF LcaKnown(store.tree, new) THEN -1 ELSE 0>>

\* v moved up by diff.
RECURSIVE MoveUp(_, _)
MoveUp(v, diff) ==
  IF diff > 1 THEN MoveUp(Higher(IF diff % 2 = 1 THEN store.up[v] ELSE v), diff \div 2)
  ELSE LET w == IF diff = 1 THEN store.up[v] ELSE v IN <<w[1], 0>>

\* The exponential search, of two nodes on a level with d nodes above.
RECURSIVE Search(_, _, _, _)
Search(v, w, d, step) ==
  IF d < 1 THEN NoNode
  ELSE IF step > d THEN Search(Lower(v), Lower(w), d, step \div 2)
  ELSE IF store.up[v] # store.up[w] THEN Search(store.up[v], store.up[w], d - step, step)
  ELSE IF step > 1 THEN Search(Lower(v), Lower(w), d, step \div 2)
  ELSE store.up[v]

\* "maximum stepsize"
RECURSIVE Largest(_, _, _, _)
Largest(v, w, d, step) ==
  IF d >= 2 * step THEN Largest(Higher(v), Higher(w), d, 2 * step) ELSE Search(v, w, d, step)

Lca(a, b) ==
  LET less == store.depth[a] < store.depth[b]
      deep == IF less THEN b ELSE a
      other == IF less THEN a ELSE b
      v == MoveUp(<<deep, 0>>, store.depth[deep] - store.depth[other])
  IN  IF v = <<other, 0>> THEN v ELSE Largest(v, <<other, 0>>, store.depth[other], 1)

AskLca(x, y) ==
  LET a == LcaFind(store.tree, x)
      b == LcaFind(store.tree, y)
  IN  /\ LcaKnown(store.tree, x) /\ LcaKnown(store.tree, y)
      /\ ans' = <<"lca", <<a, b>>, Lca(a, b)>> /\ UNCHANGED store

AskDepth(x) ==
  LET a == LcaFind(store.tree, x)
  IN  LcaKnown(store.tree, x) /\ ans' = <<"depth", a, store.depth[a]>> /\ UNCHANGED store

\* The items come in ascending order, or a known one comes again.
LcaNext ==
  \/ \E new \in {Cardinality(DOMAIN store.depth), 1}, old \in Items : AddLeaf(new, old)
  \/ \E x, y \in Items : AskLca(x, y)
  \/ \E x \in Items : AskDepth(x)

\* The nodes from n to the root, by the pointers of level 0.
RECURSIVE Above(_, _)
Above(up, v) == IF v = NoNode THEN <<>> ELSE <<v>> \o Above(up, up[v])

\* The first node above a that is also above b.
LcaOf(up, a, b) ==
  LET above == Above(up, <<a, 0>>)
  IN  above[Min({i \in DOMAIN above : above[i] \in ToSet(Above(up, <<b, 0>>))})]

\* A node of level l points 2^l steps up, or nowhere where it only serves as a target.
LcaSound(s) ==
  /\ Avl!Balanced(s.tree)
  /\ \A v \in DOMAIN s.up :
       LET above == Above(s.up, <<v[1], 0>>)
       IN  /\ s.depth[v[1]] = Len(above) - 1
           /\ s.up[v] # NoNode => s.up[v] = <<above[2 ^ v[2] + 1][1], v[2]>>
           /\ 2 ^ v[2] < Len(above) => s.up[v] # NoNode
=============================================================================
