--------------------------- MODULE IntervalTrees ----------------------------
(***************************************************************************)
(* The structures for intervals and ranges of                              *)
(* books/advanced_data_structures, chapter 4.                              *)
(***************************************************************************)
EXTENDS LeafTree

CONSTANTS Items, MaxLen,   \* MaxLen bounds the number of intervals
          Weights

VARIABLES store, ans

-----------------------------------------------------------------------------
(***************************************************************************)
(* ch4/intv_tree.c: the interval tree. main() reads intervals (`given`),   *)
(* builds a tree of their endpoints and attaches each interval to a node   *)
(* whose key it contains, in two lists: in ascending order of the lower    *)
(* endpoints and, for queries to the right of the key, of the upper ones.  *)
(***************************************************************************)

\* Before the tree is built.
NoTree == [null |-> TRUE]

ItvInit ==
  store = [given |-> <<>>, tree |-> NoTree, left_list |-> <<>>, right_list |-> <<>>] /\ ans = <<>>

ItvEnter(a, b) ==
  /\ store.tree = NoTree /\ Len(store.given) < MaxLen
  /\ store' = [store EXCEPT !.given = Append(@, <<a, b>>)] /\ UNCHANGED ans

\* The endpoints, sorted, without duplicates; the object is 42 for all.
ItvKeyList(given) ==
  LET keys == SetToSortSeq(UNION {{i[1], i[2]} : i \in ToSet(given)}, <)
  IN  [i \in DOMAIN keys |-> [key |-> keys[i], obj |-> 42]]

\* The node an interval is attached to: its path, or <<>> within a sequence for none.
RECURSIVE NodeFor(_, _, _)
NodeFor(t, i, p) ==
  IF IsLeaf(t) THEN <<>>
  ELSE IF i[2] <= t.key THEN NodeFor(t.left, i, p \o <<"left">>)
  ELSE IF t.key < i[1] THEN NodeFor(t.right, i, p \o <<"right">>)
  ELSE <<p>>

\* The intervals, in order of endpoint e, in the lists of their nodes.
Lists(t, given, e) ==
  LET sorted == SortSeq(given, LAMBDA i, j : i[e] < j[e])
  IN  [p \in NodePaths(t, <<>>) |-> SelectSeq(sorted, LAMBDA i : NodeFor(t, i, <<>>) = <<p>>)]

ItvMakeTree(list) == TreeOf(list)

\* make_tree(), empty_tree(), left_insert_interval() and right_insert_interval().
ItvBuild ==
  LET t == ItvMakeTree(ItvKeyList(store.given))
  IN  /\ store.tree = NoTree /\ store.given # <<>>
      /\ store' = [store EXCEPT !.tree = t, !.left_list = Lists(t, store.given, 1),
                                !.right_list = Lists(t, store.given, 2)]
      /\ UNCHANGED ans

\* The intervals of a list as far as the test holds.
LowPart(list, q) == LET n == SelectInSeq(list, LAMBDA i : ~(i[1] <= q)) IN
  IF n = 0 THEN list ELSE SubSeq(list, 1, n - 1)

UpPart(list, q) == LET n == SelectInSeq(list, LAMBDA i : ~(i[2] >= q)) IN
  IF n = 0 THEN list ELSE SubSeq(list, 1, n - 1)

RECURSIVE Intervals(_, _, _)
Intervals(t, p, q) ==
  IF IsLeaf(t) THEN <<>>
  ELSE IF q < t.key THEN LowPart(store.left_list[p], q) \o Intervals(t.left, p \o <<"left">>, q)
  ELSE UpPart(store.right_list[p], q) \o Intervals(t.right, p \o <<"right">>, q)

ItvFindIntervals(q) ==
  /\ store.tree # NoTree
  /\ ans' = <<"find", q, Reverse(Intervals(store.tree, <<>>, q))>> /\ UNCHANGED store

ItvNext ==
  \/ \E a, b \in Items : a < b /\ ItvEnter(a, b)
  \/ ItvBuild
  \/ \E q \in Items : ItvFindIntervals(q)

-----------------------------------------------------------------------------
(***************************************************************************)
(* ch4/segm_tree.c: the segment tree. main() reads intervals (`given`),    *)
(* builds a tree of their endpoints and attaches each interval to the      *)
(* nodes that make it up; the answer to a query is what is attached along  *)
(* the search path.                                                        *)
(***************************************************************************)

SegInit == store = [given |-> <<>>, tree |-> NoTree, interval_list |-> <<>>] /\ ans = <<>>

SegEnter(a, b) ==
  /\ store.tree = NoTree /\ Len(store.given) < MaxLen
  /\ store' = [store EXCEPT !.given = Append(@, <<a, b>>)] /\ UNCHANGED ans

\* The endpoints, sorted, without duplicates, behind the key for -infinity.
SegKeyList(given) ==
  LET keys == <<-1000>> \o SetToSortSeq(UNION {{i[1], i[2]} : i \in ToSet(given)}, <)
  IN  [i \in DOMAIN keys |-> [key |-> keys[i], obj |-> 42]]

\* The nodes an interval is attached to on the path of its left endpoint.
RECURSIVE SegLeftNodes(_, _, _)
SegLeftNodes(t, p, a) ==
  IF IsLeaf(t) THEN IF t.key = a THEN {p} ELSE {}
  ELSE IF a < t.key THEN {p \o <<"right">>} \cup SegLeftNodes(t.left, p \o <<"left">>, a)
  ELSE IF a = t.key THEN {p \o <<"right">>}
  ELSE SegLeftNodes(t.right, p \o <<"right">>, a)

\* And on that of the right one, whose leaf is never attached to.
RECURSIVE SegRightNodes(_, _, _)
SegRightNodes(t, p, b) ==
  IF IsLeaf(t) THEN {}
  ELSE IF t.key < b THEN {p \o <<"left">>} \cup SegRightNodes(t.right, p \o <<"right">>, b)
  ELSE IF t.key = b THEN {p \o <<"left">>}
  ELSE SegRightNodes(t.left, p \o <<"left">>, b)

\* insert_interval(): from the node on where the two paths part.
RECURSIVE SegInsertInterval(_, _, _, _)
SegInsertInterval(t, p, a, b) ==
  IF IsLeaf(t) THEN {}
  ELSE IF b < t.key THEN SegInsertInterval(t.left, p \o <<"left">>, a, b)
  ELSE IF t.key < a THEN SegInsertInterval(t.right, p \o <<"right">>, a, b)
  ELSE (IF a < t.key THEN SegLeftNodes(t.left, p \o <<"left">>, a) ELSE {}) \cup
       (IF a = t.key \/ t.key < b THEN SegRightNodes(t.right, p \o <<"right">>, b) ELSE {})

SegMakeTree(list) == TreeOf(list)

\* make_tree(), empty_tree() and the loop over the intervals.
SegBuild ==
  LET t == SegMakeTree(SegKeyList(store.given))
      at(p) == SelectSeq(store.given, LAMBDA i : p \in SegInsertInterval(t, <<>>, i[1], i[2]))
  IN  /\ store.tree = NoTree /\ store.given # <<>>
      /\ store' = [store EXCEPT !.tree = t, !.interval_list = [p \in NodePaths(t, <<>>) |-> at(p)]]
      /\ UNCHANGED ans

\* The lists below the root.
SegFindIntervals(q) ==
  LET p == Path(store.tree, q)
  IN  /\ store.tree # NoTree
      /\ ans' = <<"find", q,
                  Reverse(FlattenSeq([n \in DOMAIN p |-> store.interval_list[SubSeq(p, 1, n)]]))>>
      /\ UNCHANGED store

SegNext ==
  \/ \E a, b \in Items : a < b /\ SegEnter(a, b)
  \/ SegBuild
  \/ \E q \in Items : SegFindIntervals(q)

-----------------------------------------------------------------------------
(***************************************************************************)
(* ch4/or_r_tree.c: the orthogonal range tree in two dimensions. main()    *)
(* reads points (`given`, the last first) and builds a tree of their       *)
(* second coordinates; below each node is a tree of the first coordinates  *)
(* of the points whose search path goes through it.                        *)
(***************************************************************************)

NEGINFTY == -1000

OrRInit == store = [given |-> <<>>, tree |-> NoTree, l_dim_tree |-> <<>>] /\ ans = <<>>

OrREnter(x, y) ==
  /\ store.tree = NoTree /\ Len(store.given) < MaxLen
  /\ store' = [store EXCEPT !.given = <<<<x, y>>>> \o @] /\ UNCHANGED ans

\* A pass of the bubble sort.
RECURSIVE Pass(_)
Pass(l) ==
  IF Len(l) < 2 THEN l
  ELSE IF l[1].key > l[2].key THEN <<l[2]>> \o Pass(<<l[1]>> \o SubSeq(l, 3, Len(l)))
  ELSE <<l[1]>> \o Pass(Tail(l))

RECURSIVE Passes(_)
Passes(l) == LET m == Pass(l) IN IF m = l THEN l ELSE Passes(m)

\* The points of equal keys are collected in the first node.
Collect(l, x) ==
  IF l = <<>> \/ Last(l).key # x.key THEN Append(l, x)
  ELSE Front(l) \o <<[Last(l) EXCEPT !.obj = <<Head(@)>> \o x.obj \o Tail(@)]>>

Sort(l) == FoldLeft(Collect, <<>>, Passes(l))

OrRKeyList(points, d) ==
  Sort(Reverse([i \in DOMAIN points |-> [key |-> points[i][d], obj |-> <<points[i]>>]]))

\* The points whose search path goes through the node at p, the last first.
Attached(t, points, p) == Reverse(SelectSeq(points, LAMBDA pt : IsPrefix(p, Path(t, pt[2]))))

OrRMakeTree(list) == TreeOf(list)

\* build_or_r_tree() for dimension 1, which calls itself for dimension 0.
OrRBuild ==
  LET t == OrRMakeTree(<<[key |-> NEGINFTY, obj |-> <<>>]>> \o OrRKeyList(store.given, 2))
      below == {p \in NodePaths(t, <<>>) : Attached(t, store.given, p) # <<>>}
  IN  /\ store.tree = NoTree /\ store.given # <<>>
      /\ store' = [store EXCEPT !.tree = t, !.l_dim_tree =
                     [p \in below |-> OrRMakeTree(OrRKeyList(Attached(t, store.given, p), 1))]]
      /\ UNCHANGED ans

RECURSIVE FindPoints1d(_, _, _)
FindPoints1d(t, a, b) ==
  IF IsLeaf(t) THEN IF a <= t.key /\ t.key < b THEN Reverse(t.obj) ELSE <<>>
  ELSE IF b <= t.key THEN FindPoints1d(t.left, a, b)
  ELSE IF t.key <= a THEN FindPoints1d(t.right, a, b)
  ELSE FindPoints1d(t.left, a, b) \o FindPoints1d(t.right, a, b)

\* The nodes selected on the path of the left endpoint, and of the right one.
RECURSIVE OrRLeftNodes(_, _, _)
OrRLeftNodes(t, p, a) ==
  IF IsLeaf(t) THEN IF t.key = a THEN <<p>> ELSE <<>>
  ELSE IF a < t.key THEN <<p \o <<"right">>>> \o OrRLeftNodes(t.left, p \o <<"left">>, a)
  ELSE IF a = t.key THEN <<p \o <<"right">>>>
  ELSE OrRLeftNodes(t.right, p \o <<"right">>, a)

RECURSIVE OrRRightNodes(_, _, _)
OrRRightNodes(t, p, b) ==
  IF IsLeaf(t) THEN IF t.key < b THEN <<p>> ELSE <<>>
  ELSE IF t.key < b THEN <<p \o <<"left">>>> \o OrRRightNodes(t.right, p \o <<"right">>, b)
  ELSE IF t.key = b THEN <<p \o <<"left">>>>
  ELSE OrRRightNodes(t.left, p \o <<"left">>, b)

RECURSIVE Selected(_, _, _, _)
Selected(t, p, a, b) ==
  IF IsLeaf(t) THEN <<>>
  ELSE IF b < t.key THEN Selected(t.left, p \o <<"left">>, a, b)
  ELSE IF t.key < a THEN Selected(t.right, p \o <<"right">>, a, b)
  ELSE (IF a < t.key THEN OrRLeftNodes(t.left, p \o <<"left">>, a) ELSE <<>>) \o
       (IF a = t.key \/ t.key < b THEN OrRRightNodes(t.right, p \o <<"right">>, b) ELSE <<>>)

\* find_points() for dimension 1, with join_list(): the box from a to before b.
FindPoints(a, b) ==
  LET sel == Selected(store.tree, <<>>, a[2], b[2])
  IN  /\ store.tree # NoTree
      /\ ans' = <<"find", <<a, b>>,
                  FlattenSeq([i \in DOMAIN sel |-> FindPoints1d(store.l_dim_tree[sel[i]], a[1], b[1])])>>
      /\ UNCHANGED store

OrRNext ==
  \/ \E x, y \in Items : OrREnter(x, y)
  \/ OrRBuild
  \/ \E a, b \in Items \X Items : FindPoints(a, b)

-----------------------------------------------------------------------------
(***************************************************************************)
(* ch4/wsum_tree.c: a step function as a sum of weighted intervals. Each   *)
(* node of a height-balanced tree has a summand; the value at a key is the *)
(* sum along its search path. `given` lists the intervals inserted so far. *)
(***************************************************************************)

\* The summand of n goes to its lower neighbours.
PushDown(n) ==
  [n EXCEPT !.left.summand = @ + n.summand, !.right.summand = @ + n.summand, !.summand = 0]

WsuRotation(n, s) ==
  LET m == PushDown(n) IN Rotate([m EXCEPT ![Opp(s)] = PushDown(@)], s)

WsuAvl == INSTANCE AvlTree WITH Turn <- WsuRotation

WsuInsert(t, k) == WsuAvl!InsertIn(t, [key |-> k, obj |-> 0, height |-> 0, summand |-> 0])

WsuFind(t, k) == FindIn(t, k)

WsuPresent(t, k) == IF WsuFind(t, k) = NULL THEN WsuInsert(t, k) ELSE t

WsuInit == store = [tree |-> WsuInsert(Empty, NEGINFTY), given |-> <<>>] /\ ans = <<>>

\* w for everything to the right of the search path for k, and for its leaf.
RECURSIVE WsuAddRight(_, _, _)
WsuAddRight(t, k, w) ==
  IF IsLeaf(t) THEN [t EXCEPT !.summand = @ + w]
  ELSE IF k < t.key THEN [t EXCEPT !.right.summand = @ + w, !.left = WsuAddRight(@, k, w)]
  ELSE [t EXCEPT !.right = WsuAddRight(@, k, w)]

WsuInsertInterval(a, b, w) ==
  LET t == WsuPresent(WsuPresent(store.tree, a), b)
  IN  /\ store' = [tree |-> WsuAddRight(WsuAddRight(t, a, w), b, -w),
                   given |-> Append(store.given, <<a, b, w>>)]
      /\ ans' = <<"insert", <<a, b, w>>, 0>>

RECURSIVE SumAlong(_, _)
SumAlong(t, k) == t.summand + (IF IsLeaf(t) THEN 0 ELSE SumAlong(t[Side(t, k)], k))

EvaluateSum(k) == ans' = <<"sum", k, SumAlong(store.tree, k)>> /\ UNCHANGED store

WsuNext ==
  \/ /\ Len(store.given) < MaxLen
     /\ \E a, b \in Items, w \in Weights : a < b /\ WsuInsertInterval(a, b, w)
  \/ \E k \in Items : EvaluateSum(k)

\* The weights of the given intervals that contain k.
ValueAt(given, k) ==
  FoldLeft(LAMBDA sum, i : IF i[1] <= k /\ k < i[2] THEN sum + i[3] ELSE sum, 0, given)

WsuSound(s) == WsuAvl!Balanced(s.tree) /\ InOrder(s.tree, -10000, 10000)

-----------------------------------------------------------------------------
(***************************************************************************)
(* ch4/wsmx_tree.c: the tree of wsum_tree.c for queries of the maximum.    *)
(* The partial_sum of a node is the largest sum of summands on a path down *)
(* from it, its own left out.                                              *)
(***************************************************************************)

\* What a lower neighbour contributes to the partial sum above.
Top(n) == n.summand + n.partial_sum

Partial(n) == [n EXCEPT !.partial_sum = Max({Top(n.left), Top(n.right)})]

\* Mutant: the partial sum of the node that comes down is not recomputed.
WsmRotationStale(n, s) ==
  LET o == Opp(s)
      both == n.summand + n[o].summand
      m == [n EXCEPT !.partial_sum = @ + n.summand, !.summand = 0,
                     ![s].summand = @ + n.summand,
                     ![o].summand = 0, ![o].left.summand = @ + both, ![o].right.summand = @ + both]
  IN  Rotate(m, s)

\* The summands of n and of the neighbour that comes down go to the nodes below.
WsmRotation(n, s) ==
  LET o == Opp(s)
      both == n.summand + n[o].summand
      m == [n EXCEPT !.partial_sum = @ + n.summand, !.summand = 0,
                     ![s].summand = @ + n.summand,
                     ![o].summand = 0, ![o].left.summand = @ + both, ![o].right.summand = @ + both]
      r == Rotate(m, s)
  IN  [r EXCEPT ![s] = Partial(@)]

WsmAvl == INSTANCE AvlTree WITH Turn <- WsmRotation

\* A leaf's partial sum is 0 and stays so, also where insert() copies it.
WsmInsert(t, k) ==
  WsmAvl!InsertIn(t, [key |-> k, obj |-> 0, height |-> 0, summand |-> 0, partial_sum |-> 0])

WsmFind(t, k) == FindIn(t, k)

WsmPresent(t, k) == IF WsmFind(t, k) = NULL THEN WsmInsert(t, k) ELSE t

WsmInit == store = [tree |-> WsmInsert(Empty, NEGINFTY), given |-> <<>>] /\ ans = <<>>

\* w for everything to the right of the search path for k, and for its leaf; then
\* the partial sums on the path.
RECURSIVE WsmAddRight(_, _, _)
WsmAddRight(t, k, w) ==
  IF IsLeaf(t) THEN [t EXCEPT !.summand = @ + w]
  ELSE IF k < t.key THEN Partial([t EXCEPT !.right.summand = @ + w, !.left = WsmAddRight(@, k, w)])
  ELSE Partial([t EXCEPT !.right = WsmAddRight(@, k, w)])

WsmInsertInterval(a, b, w) ==
  LET t == WsmPresent(WsmPresent(store.tree, a), b)
  IN  /\ store' = [tree |-> WsmAddRight(WsmAddRight(t, a, w), b, -w),
                   given |-> Append(store.given, <<a, b, w>>)]
      /\ ans' = <<"insert", <<a, b, w>>, 0>>

\* The sums that the paths of the left and of the right endpoint contribute; `sum`
\* is that of the summands above.
RECURSIVE LeftSums(_, _, _)
LeftSums(t, a, sum) ==
  LET here == sum + t.summand
  IN  IF IsLeaf(t) THEN {sum + Top(t)}
      ELSE IF a < t.key THEN {here + Top(t.right)} \cup LeftSums(t.left, a, here)
      ELSE IF a = t.key THEN {here + Top(t.right)}
      ELSE LeftSums(t.right, a, here)

RECURSIVE RightSums(_, _, _)
RightSums(t, b, sum) ==
  LET here == sum + t.summand
  IN  IF IsLeaf(t) THEN IF t.key < b THEN {sum + Top(t)} ELSE {}
      ELSE IF t.key < b THEN {here + Top(t.left)} \cup RightSums(t.right, b, here)
      ELSE IF t.key = b THEN {here + Top(t.left)}
      ELSE RightSums(t.left, b, here)

\* The sums from the node on where the two paths part.
RECURSIVE Sums(_, _, _, _)
Sums(t, a, b, sum) ==
  LET here == sum + t.summand
  IN  IF IsLeaf(t) THEN {sum + Top(t)}
      ELSE IF b < t.key THEN Sums(t.left, a, b, here)
      ELSE IF t.key < a THEN Sums(t.right, a, b, here)
      ELSE (IF a < t.key THEN LeftSums(t.left, a, here) ELSE {}) \cup
           (IF a = t.key \/ t.key < b THEN RightSums(t.right, b, here) ELSE {})

MaxValueInterval(a, b) ==
  ans' = <<"max", <<a, b>>, Max(Sums(store.tree, a, b, 0))>> /\ UNCHANGED store

WsmNext ==
  \/ /\ Len(store.given) < MaxLen
     /\ \E a, b \in Items, w \in Weights : a < b /\ WsmInsertInterval(a, b, w)
  \/ \E a, b \in Items : a < b /\ MaxValueInterval(a, b)

WsmSound(s) == WsmAvl!Balanced(s.tree) /\ InOrder(s.tree, -10000, 10000)
=============================================================================
