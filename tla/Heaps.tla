------------------------------- MODULE Heaps --------------------------------
(***************************************************************************)
(* The heaps of books/advanced_data_structures, chapter 5, and of          *)
(* libs/data_structs/heap.c.                                               *)
(***************************************************************************)
EXTENDS LeafTree

CONSTANTS Items, Size,   \* the size of the array
          MaxLen   \* MaxLen bounds the heap

VARIABLES store, ans, nodes   \* get_node() - return_node()

-----------------------------------------------------------------------------
(***************************************************************************)
(* What ch5/left_heap.c, skew_heap.c and bino_heap.c have in common: the   *)
(* heap as a binary tree of nodes, and remove_heap().                      *)
(***************************************************************************)

Nil == [null |-> TRUE]

NoItem == 0

RECURSIVE Elements(_)
Elements(t) == IF t = Nil THEN <<>> ELSE <<t.key>> \o Elements(t.left) \o Elements(t.right)

\* remove_heap(): the number of nodes it returns.  It turns the tree into a list
\* to the right and needs no stack.
RECURSIVE Removed(_)
Removed(t) ==
  IF t = Nil THEN 0
  ELSE IF t.left = Nil THEN 1 + Removed(t.right)
  ELSE Removed([t.left EXCEPT !.right = [t EXCEPT !.left = t.left.right]])

\* No key is smaller than the one above.
RECURSIVE HeapOrdered(_)
HeapOrdered(t) ==
  t # Nil => \A s \in {"left", "right"} :
               t[s] # Nil => t.key <= t[s].key /\ HeapOrdered(t[s])

-----------------------------------------------------------------------------
(***************************************************************************)
(* ch5/ar_heap.c: the heap in an array, counted from 1 here: the node at i *)
(* has its lower neighbours at 2 i and 2 i + 1. The objects go with their  *)
(* keys.                                                                   *)
(***************************************************************************)

ArHInit == store = <<>> /\ ans = <<>>

ArHHeapEmpty == store = <<>>

\* The gap moves towards the root until k may fill it.
RECURSIVE Fill(_, _, _)
Fill(h, gap, k) ==
  IF gap > 1 /\ k < h[gap \div 2]
    THEN Fill([h EXCEPT ![gap] = h[gap \div 2]], gap \div 2, k)
    ELSE [h EXCEPT ![gap] = k]

ArHInsert(k) ==
  \/ /\ Len(store) < Size /\ ans' = <<"insert", k, 0>>
     /\ store' = Fill(Append(store, NoItem), Len(store) + 1, k)
  \/ Len(store) >= Size /\ ans' = <<"insert", k, -1>> /\ UNCHANGED store

\* The gap moves to the leaves, where the last element fills it.
RECURSIVE MoveGap(_, _)
MoveGap(h, gap) ==
  LET left == 2 * gap
      new == IF h[left] < h[left + 1] THEN left ELSE left + 1
  IN  IF left + 1 <= Len(h) THEN MoveGap([h EXCEPT ![gap] = h[new]], new)
      ELSE IF left = Len(h) THEN Front([h EXCEPT ![gap] = h[left]])
      ELSE Front(Fill(h, gap, Last(h)))

ArHDeleteMin ==
  \/ ArHHeapEmpty /\ ans' = <<"delete_min", 0, NoItem>> /\ UNCHANGED store
  \/ ~ArHHeapEmpty /\ ans' = <<"delete_min", 0, store[1]>> /\ store' = MoveGap(store, 1)

ArHNext == (\E k \in Items : ArHInsert(k)) \/ ArHDeleteMin

ArHHeapOrdered(h) == \A i \in 2 .. Len(h) : h[i \div 2] <= h[i]

-----------------------------------------------------------------------------
(***************************************************************************)
(* ch5/left_heap.c: the leftist heap. The root is a node of the user's;    *)
(* the empty heap is a node of rank 0, whose object is what the last       *)
(* delete_min() left there, or not defined yet.                            *)
(***************************************************************************)

LeHTake(n) == nodes' = nodes + n

LeHNode(k, l, r) == [key |-> k, left |-> l, right |-> r, rank |-> 1]

\* The heap that delete_min() emptied, or NoItem the one of create_heap().
Emptied(k) == [LeHNode(k, Nil, Nil) EXCEPT !.rank = 0]

LeHInit == store = Emptied(NoItem) /\ ans = <<>> /\ nodes = 1

LeHHeapEmpty == store.rank = 0

LeHKeys(s) == IF s.rank = 0 THEN <<>> ELSE Elements(s)

Rank(t) == IF t = Nil THEN 0 ELSE t.rank

\* Mutant: no exchange.
ExchangedNever(t) == t

\* The larger rank goes left.
Exchanged(t) == IF Rank(t.left) < Rank(t.right) THEN [t EXCEPT !.left = t.right, !.right = t.left] ELSE t

Leftist(t) == LET u == Exchanged(t) IN [u EXCEPT !.rank = Rank(u.right) + 1]

\* The end of the right path for k.
RECURSIVE End(_, _)
End(t, k) == IF t.right # Nil /\ t.right.key < k THEN End(t.right, k) ELSE t

\* k below the end; the ranks are recomputed above it where it went right.
RECURSIVE LeHBelow(_, _, _)
LeHBelow(t, k, walk) ==
  LET new == LeHNode(k, t.right, Nil)
      u == [t EXCEPT !.right = LeHBelow(t.right, k, walk)]
  IN  IF t.right # Nil /\ t.right.key < k THEN IF walk THEN Leftist(u) ELSE u
      ELSE IF t.left = Nil THEN [t EXCEPT !.left = new]
      ELSE [t EXCEPT !.right = new, !.rank = 2]

LeHInsert(k) ==
  /\ store' = IF LeHHeapEmpty THEN LeHNode(k, Nil, Nil)
              ELSE IF k < store.key THEN LeHNode(k, store, Nil)
              ELSE LeHBelow(store, k, End(store, k).left # Nil)
  /\ LeHTake(IF LeHHeapEmpty THEN 0 ELSE 1)
  /\ ans' = <<"insert", k, 0>>

\* The right paths merged.
RECURSIVE MergePaths(_, _)
MergePaths(a, b) ==
  IF a = Nil THEN b ELSE IF b = Nil THEN a
  ELSE IF a.key < b.key THEN Leftist([a EXCEPT !.right = MergePaths(a.right, b)])
  ELSE Leftist([b EXCEPT !.right = MergePaths(a, b.right)])

LeHMerge(a, b) ==
  IF a.key < b.key THEN Leftist([a EXCEPT !.right = MergePaths(a.right, b)])
  ELSE Leftist([b EXCEPT !.right = MergePaths(b.right, a)])

LeHDeleteMin ==
  /\ ~LeHHeapEmpty
  /\ store' = IF store.left = Nil /\ store.right = Nil THEN Emptied(store.key)
              ELSE IF store.right = Nil THEN store.left
              ELSE LeHMerge(store.left, store.right)
  /\ LeHTake(IF store.left = Nil /\ store.right = Nil THEN 0 ELSE -1)
  /\ ans' = <<"delete_min", 0, store.key>>

\* delete_min() does not ask whether the heap is empty: it answers the object it
\* deleted last, and reads a new heap before anything has been written there.
LeHDeleteEmpty ==
  /\ LeHHeapEmpty
  /\ \/ ans' = <<"delete_min", 0, store.key>>
     \/ store.key = NoItem /\ ans' = <<"crash">>
  /\ UNCHANGED <<store, nodes>>

LeHRemoveHeap ==
  /\ LeHTake(-(IF LeHHeapEmpty THEN 1 ELSE Removed(store))) /\ store' = Emptied(NoItem)
  /\ ans' = <<"quit">>

LeHNext ==
  /\ ans \notin {<<"crash">>, <<"quit">>}
  /\ \/ Len(LeHKeys(store)) < MaxLen /\ \E k \in Items : LeHInsert(k)
     \/ LeHDeleteMin
     \/ LeHDeleteEmpty
     \/ LeHRemoveHeap

\* The ranks are right, and none is larger than the left neighbour's.
RECURSIVE Ranked(_)
Ranked(t) ==
  t # Nil => /\ Rank(t.left) >= Rank(t.right) /\ t.rank = Rank(t.right) + 1
             /\ Ranked(t.left) /\ Ranked(t.right)

-----------------------------------------------------------------------------
(***************************************************************************)
(* ch5/skew_heap.c: the skew heap. The empty heap is a node without an     *)
(* object, whose lower neighbours are not defined before the first         *)
(* insert().                                                               *)
(***************************************************************************)

SkHTake(n) == nodes' = nodes + n

SkHNode(k, l, r) == [key |-> k, left |-> l, right |-> r]

\* new: made by create_heap(); otherwise emptied by delete_min().
SkHEmpty(new) == [empty |-> new]

SkHInit == store = SkHEmpty(TRUE) /\ ans = <<>> /\ nodes = 1

SkHHeapEmpty == "empty" \in DOMAIN store

SkHKeys(s) == IF "empty" \in DOMAIN s THEN <<>> ELSE Elements(s)

\* The lower neighbours are exchanged on the way down the right path.
RECURSIVE SkHBelow(_, _)
SkHBelow(t, k) ==
  IF t.right # Nil /\ t.right.key < k
    THEN [t EXCEPT !.left = SkHBelow(t.right, k), !.right = t.left]
    ELSE [t EXCEPT !.right = SkHNode(k, t.right, Nil)]

SkHInsert(k) ==
  /\ store' = IF SkHHeapEmpty THEN SkHNode(k, Nil, Nil)
              ELSE IF k < store.key THEN SkHNode(k, store, Nil)
              ELSE SkHBelow(store, k)
  /\ SkHTake(IF SkHHeapEmpty THEN 0 ELSE 1)
  /\ ans' = <<"insert", k, 0>>

\* t is the end of the merged path, a and b what is left of the right paths.
RECURSIVE Attach(_, _, _)
Attach(t, a, b) ==
  LET exchanged(u) == [t EXCEPT !.right = t.left, !.left = u]
  IN  IF a = Nil THEN [t EXCEPT !.right = b]
      ELSE IF b = Nil THEN [t EXCEPT !.right = a]
      ELSE IF a.key < b.key THEN exchanged(Attach(a, a.right, b))
      ELSE exchanged(Attach(b, a, b.right))

SkHMerge(a, b) == IF a.key < b.key THEN Attach(a, a.right, b) ELSE Attach(b, b.right, a)

SkHDeleteMin ==
  /\ ~SkHHeapEmpty
  /\ store' = IF store.left = Nil /\ store.right = Nil THEN SkHEmpty(FALSE)
              ELSE IF store.right = Nil THEN store.left
              ELSE IF store.left = Nil THEN store.right
              ELSE SkHMerge(store.left, store.right)
  /\ SkHTake(IF store.left = Nil /\ store.right = Nil THEN 0 ELSE -1)
  /\ ans' = <<"delete_min", 0, store.key>>

\* delete_min() reads the lower neighbours of a new heap before they are written.
SkHDeleteEmpty ==
  /\ SkHHeapEmpty
  /\ \/ ans' = <<"delete_min", 0, NoItem>>
     \/ store.empty /\ ans' = <<"crash">>
  /\ UNCHANGED <<store, nodes>>

SkHRemoveHeap ==
  /\ SkHTake(-(IF SkHHeapEmpty THEN 1 ELSE Removed(store))) /\ store' = SkHEmpty(TRUE)
  /\ ans' = <<"quit">>

SkHNext ==
  /\ ans \notin {<<"crash">>, <<"quit">>}
  /\ \/ Len(SkHKeys(store)) < MaxLen /\ \E k \in Items : SkHInsert(k)
     \/ SkHDeleteMin
     \/ SkHDeleteEmpty
     \/ SkHRemoveHeap

-----------------------------------------------------------------------------
(***************************************************************************)
(* ch5/bino_heap.c: the binomial heap. `store` is the list of blocks that  *)
(* the left pointers link from the root; a block's `right` is the list     *)
(* below its right pointer. The empty heap is a root of height -1.         *)
(***************************************************************************)

BiHTake(n) == nodes' = nodes + n

BiHInit == store = <<>> /\ ans = <<>> /\ nodes = 1

BiHHeapEmpty == store = <<>>

\* The list as the tree that the pointers make.
RECURSIVE Tree(_)
Tree(list) ==
  IF list = <<>> THEN Nil
  ELSE [key |-> Head(list).key, left |-> Tree(Tail(list)), right |-> Tree(Head(list).right)]

BiHKeys(s) == Elements(Tree(s))

\* The blocks of both heaps, the largest first, as merge() puts them on its stack.
RECURSIVE Blocks(_, _)
Blocks(a, b) ==
  IF a = <<>> THEN b ELSE IF b = <<>> THEN a
  ELSE IF Head(a).height > Head(b).height THEN <<Head(a)>> \o Blocks(Tail(a), b)
  ELSE <<Head(b)>> \o Blocks(a, Tail(b))

\* The block `low` below the block `top` of the same height.
Under(top, low) ==
  [top EXCEPT !.height = @ + 1, !.right = <<low>> \o @]

\* Addition: the next block from the stack joins the list `current`.
Carry(next, current) ==
  LET c == Head(current)
  IN  IF next.height > c.height THEN <<next>> \o current
      ELSE IF next.height < c.height THEN <<c, next>> \o Tail(current)
      ELSE <<IF next.key < c.key THEN Under(next, c) ELSE Under(c, next)>> \o Tail(current)

\* Neither heap is empty.
BiHMerge(a, b) == LET stack == Blocks(a, b) IN FoldRight(Carry, Front(stack), <<Last(stack)>>)

BiHInsert(k) ==
  LET new == <<[key |-> k, height |-> 0, right |-> <<>>]>>
  IN  /\ store' = IF BiHHeapEmpty THEN new ELSE BiHMerge(new, store)
      /\ BiHTake(IF BiHHeapEmpty THEN 0 ELSE 1)
      /\ ans' = <<"insert", k, 0>>

FindMinKey == Min({store[i].key : i \in DOMAIN store})

BiHDeleteMin ==
  LET min == Min({i \in DOMAIN store : store[i].key = FindMinKey})
      rest == RemoveAt(store, min)
      below == store[min].right
  IN  /\ ~BiHHeapEmpty
      /\ \/ store[1].height = 0 /\ store' = <<>> /\ BiHTake(0)
         \/ /\ store[1].height # 0 /\ BiHTake(-1)
            /\ store' = IF below = <<>> THEN rest ELSE IF rest = <<>> THEN below ELSE BiHMerge(rest, below)
      /\ ans' = <<"delete_min", 0, store[min].key>>

\* delete_min() does not ask whether the heap is empty and reads through NULL.
BiHDeleteEmpty == BiHHeapEmpty /\ ans' = <<"crash">> /\ UNCHANGED <<store, nodes>>

BiHRemoveHeap ==
  /\ BiHTake(-(IF BiHHeapEmpty THEN 1 ELSE Removed(Tree(store)))) /\ store' = <<>>
  /\ ans' = <<"quit">>

BiHNext ==
  /\ ans \notin {<<"crash">>, <<"quit">>}
  /\ \/ Len(BiHKeys(store)) < MaxLen /\ \E k \in Items : BiHInsert(k)
     \/ BiHDeleteMin
     \/ BiHDeleteEmpty
     \/ BiHRemoveHeap

\* Heights fall along a list; below a block of height h they are h - 1, ..., 0.
RECURSIVE BiHBinomial(_)
BiHBinomial(list) ==
  /\ \A i \in 1 .. Len(list) - 1 : list[i].height > list[i + 1].height
  /\ \A i \in DOMAIN list : LET b == list[i] IN
       /\ Len(b.right) = b.height
       /\ \A j \in DOMAIN b.right : b.right[j].height = b.height - j /\ b.key <= b.right[j].key
       /\ BiHBinomial(b.right)

-----------------------------------------------------------------------------
(***************************************************************************)
(* ch5/fibo_heap.c: the Fibonacci heap. `path` is the list of blocks that  *)
(* the left pointers link from hp->right, `min` the place of the block     *)
(* hp->left points to; a block's `right` is the list below its right       *)
(* pointer. The up pointers say the same as the lists; decrease_key(),     *)
(* which no one calls, is not modelled.                                    *)
(***************************************************************************)

FiHTake(n) == nodes' = nodes + n

FiHInit == store = [path |-> <<>>, min |-> NoItem] /\ ans = <<>> /\ nodes = 1

FiHHeapEmpty == store.path = <<>>

RECURSIVE Flat(_)
Flat(path) ==
  IF path = <<>> THEN <<>> ELSE <<Head(path).key>> \o Flat(Head(path).right) \o Flat(Tail(path))

FiHKeys(s) == Flat(s.path)

FiHInsert(k) ==
  LET new == [key |-> k, rank |-> 0, right |-> <<>>]
      smaller == FiHHeapEmpty \/ store.path[store.min].key > k
  IN  /\ store' = [path |-> <<new>> \o store.path, min |-> IF smaller THEN 1 ELSE store.min + 1]
      /\ FiHTake(1)
      /\ ans' = <<"insert", k, 0>>

\* Mutant: the lower block replaces what hung below the upper one.
RECURSIVE StoreOverwrites(_, _)
StoreOverwrites(class, tmp) ==
  LET r == tmp.rank
      less == tmp.key < class[r].key
      top == IF less THEN tmp ELSE class[r]
      low == IF less THEN class[r] ELSE tmp
  IN  IF r \notin DOMAIN class THEN (r :> tmp) @@ class
      ELSE StoreOverwrites(Restrict(class, DOMAIN class \ {r}),
                           [top EXCEPT !.rank = @ + 1, !.right = <<low>>])

\* The block tmp in rank_class: blocks of equal rank are added.
RECURSIVE Store(_, _)
Store(class, tmp) ==
  LET r == tmp.rank
      other == class[r]
      less == tmp.key < other.key
      top == IF less THEN tmp ELSE other
      low == IF less THEN other ELSE tmp
  IN  IF r \notin DOMAIN class THEN (r :> tmp) @@ class
      ELSE Store(Restrict(class, DOMAIN class \ {r}),
                 [top EXCEPT !.rank = @ + 1, !.right = <<low>> \o @])

\* The clean-up phase: the new leftmost path, the largest rank first.
CleanUp(path) ==
  LET class == FoldLeft(Store, <<>>, path)
      ranks == SetToSortSeq(DOMAIN class, >)
  IN  [i \in DOMAIN ranks |-> class[ranks[i]]]

FiHDeleteMin ==
  LET min == store.path[store.min]
      rest == RemoveAt(store.path, store.min)
      path == CleanUp(min.right \o rest)
      least == Min({path[i].key : i \in DOMAIN path})
  IN  \/ FiHHeapEmpty /\ ans' = <<"delete_min", 0, NoItem>> /\ UNCHANGED <<store, nodes>>
      \/ /\ ~FiHHeapEmpty
         /\ ans' = <<"delete_min", 0, min.key>> /\ FiHTake(-1)
         /\ store' = IF min.right \o rest = <<>> THEN [path |-> <<>>, min |-> NoItem]
                     ELSE [path |-> path, min |-> Min({i \in DOMAIN path : path[i].key = least})]

FiHNext ==
  \/ Len(FiHKeys(store)) < MaxLen /\ \E k \in Items : FiHInsert(k)
  \/ FiHDeleteMin

\* The blocks are binomial, and hp->left is a smallest one.
RECURSIVE FiHBinomial(_)
FiHBinomial(b) ==
  /\ Len(b.right) = b.rank
  /\ \A j \in DOMAIN b.right :
       b.right[j].rank = b.rank - j /\ b.key <= b.right[j].key /\ FiHBinomial(b.right[j])

FiHSound(s) ==
  \A i \in DOMAIN s.path : FiHBinomial(s.path[i]) /\ s.path[s.min].key <= s.path[i].key

-----------------------------------------------------------------------------
(***************************************************************************)
(* ch5/tree_heap.c: the heap on top of a height-balanced tree, which keeps *)
(* a copy of the smallest key and its object. The tree refuses a key it    *)
(* has; insert_heap() does not say so.                                     *)
(***************************************************************************)

Avl == INSTANCE AvlTree WITH Turn <- Rotate

TrHTake(n) == nodes' = nodes + n

TrHInit == store = [tree |-> Empty, current_min |-> NULL] /\ ans = <<>> /\ nodes = 1

TrHHeapEmpty == IsEmpty(store.tree)

TrHKeys(s) == SetToSeq(DOMAIN Contents(s.tree))

TrHInsert(t, k) == Avl!InsertIn(t, [key |-> k, obj |-> k, height |-> 0])

Delete(t, k) == Avl!DeleteIn(t, k)

InsertHeap(k) ==
  /\ store' = [tree |-> TrHInsert(store.tree, k),
               current_min |-> IF TrHHeapEmpty \/ k < store.current_min THEN k ELSE store.current_min]
  /\ TrHTake(IF TrHHeapEmpty \/ Avl!Has(store.tree, k) THEN 0 ELSE 2)
  /\ ans' = <<"insert", k, 0>>

\* The key of the leftmost leaf.
RECURSIVE Leftmost(_)
Leftmost(t) == IF IsLeaf(t) THEN t.key ELSE Leftmost(t.left)

TrHDeleteMin ==
  LET t == Delete(store.tree, store.current_min)
  IN  \/ TrHHeapEmpty /\ ans' = <<"delete_min", 0, 0>> /\ UNCHANGED <<store, nodes>>
      \/ /\ ~TrHHeapEmpty
         /\ store' = [tree |-> t, current_min |-> IF IsEmpty(t) THEN store.current_min ELSE Leftmost(t)]
         /\ TrHTake(IF IsLeaf(store.tree) THEN 0 ELSE -2)
         /\ ans' = <<"delete_min", 0, store.current_min>>

FindMin ==
  /\ ans' = <<"min", 0, IF TrHHeapEmpty THEN 10000 ELSE store.current_min>>
  /\ UNCHANGED <<store, nodes>>

TrHNext ==
  \/ Cardinality(Leaves(store.tree)) < MaxLen /\ \E k \in Items : InsertHeap(k)
  \/ TrHDeleteMin
  \/ FindMin

\* The tree is balanced and in order, and the copy is the smallest key.
TrHSound(s) ==
  /\ Avl!Balanced(s.tree)
  /\ ~IsEmpty(s.tree) => s.current_min = Min({l.key : l \in Leaves(s.tree)})

-----------------------------------------------------------------------------
(***************************************************************************)
(* libs/data_structs/heap.c: the heap in an array that grows by Size, the  *)
(* program's k_resize_step of 128.  `storage` is what lies below           *)
(* nextelement_idx, counted from 1 here; `size` is what is allocated.      *)
(***************************************************************************)

LHpInit == store = [storage |-> <<>>, size |-> Size] /\ ans = <<>>

Swapped(h, i, j) == [h EXCEPT ![i] = h[j], ![j] = h[i]]

RECURSIVE SiftUp(_, _)
SiftUp(h, i) ==
  IF i = 1 \/ h[i] >= h[i \div 2] THEN h ELSE SiftUp(Swapped(h, i, i \div 2), i \div 2)

RECURSIVE SiftDown(_, _)
SiftDown(h, i) ==
  LET left == 2 * i
      right == left + 1
      child == IF right > Len(h) \/ h[left] < h[right] THEN left ELSE right
  IN  IF left > Len(h) \/ h[i] <= h[child] THEN h ELSE SiftDown(Swapped(h, i, child), child)

LHpInsert(k) ==
  LET grown == IF Len(store.storage) = store.size THEN store.size + Size ELSE store.size
  IN  /\ store' = [storage |-> SiftUp(Append(store.storage, k), Len(store.storage) + 1),
                   size |-> grown]
      /\ ans' = <<"insert", k, 0>>

\* Heap_delete() of any element: the last one takes its place and sinks.
LHpDeleted(h, i) ==
  IF i = Len(h) THEN Front(h) ELSE SiftDown([Front(h) EXCEPT ![i] = Last(h)], i)

\* The calls delete the first element.
LHpDeleteMin ==
  IF store.storage = <<>> THEN ans' = <<"delete_min", 0, NoItem>> /\ UNCHANGED store
  ELSE /\ store' = [store EXCEPT !.storage = LHpDeleted(@, 1)]
       /\ ans' = <<"delete_min", 0, store.storage[1]>>

LHpNext ==
  (Len(store.storage) < MaxLen /\ \E k \in Items : LHpInsert(k)) \/ LHpDeleteMin

\* Nothing is stored beyond the array, and no element is smaller than its parent.
LHpSound(s) == Len(s.storage) <= s.size /\ ArHHeapOrdered(s.storage)
=============================================================================
