------------------------------- MODULE Lists --------------------------------
(***************************************************************************)
(* The lists of P/lib/kernel/list.c, P being OS/pintos/src, and those of   *)
(* libs/data_structs with the stack and the queue made of them.            *)
(***************************************************************************)
EXTENDS LinkedLines

-----------------------------------------------------------------------------
(***************************************************************************)
(* P/lib/kernel/list.c.  The elements, Items, belong to the client; each   *)
(* is in one of two lists or in none.  Each list has a head before its     *)
(* first element and a tail behind its last.  `next` and `prev` are the    *)
(* links of all elements, heads and tails; those of an element that is in  *)
(* no list are what they were when it was removed.                         *)
(***************************************************************************)

head(l) == 1 - 2 * l

tail(l) == - 2 * l

\* What the client's less() compares.
Value(e) == (e + 1) \div 2

Less(a, b) == Value(a) < Value(b)

\* The elements of list l from the front.
Elems(s, l) == Chain(s.next, s.next[head(l)], {tail(l)})

\* list_init() of both lists.
KLInit ==
  LET all == Items \cup {head(1), tail(1), head(2), tail(2)}
      link(pairs) == [e \in all |-> IF e \in DOMAIN pairs THEN pairs[e] ELSE NULL]
  IN  /\ store = [next |-> link((head(1) :> tail(1)) @@ (head(2) :> tail(2))),
                  prev |-> link((tail(1) :> head(1)) @@ (tail(2) :> head(2)))]
      /\ ans = <<>>

KLInsert(s, before, e) ==
  [s EXCEPT !.prev[e] = s.prev[before], !.next[e] = before,
            !.next[s.prev[before]] = e, !.prev[before] = e]

KLRemove(s, e) == [s EXCEPT !.next[s.prev[e]] = s.next[e], !.prev[s.next[e]] = s.prev[e]]

\* The elements from first to before end go before `before`.
KLSplice(s, before, first, end) ==
  LET last == s.prev[end]
      cut == [s EXCEPT !.next[s.prev[first]] = s.next[last], !.prev[s.next[last]] = s.prev[first]]
  IN  IF first = end THEN s
      ELSE [cut EXCEPT !.prev[first] = cut.prev[before], !.next[last] = before,
                       !.next[cut.prev[before]] = first, !.prev[before] = last]

\* Every element's links are exchanged, then those of the ends.
KLReverse(s, l) ==
  LET in == ToSet(Elems(s, l))
      turned == [s EXCEPT !.next = [e \in DOMAIN @ |-> IF e \in in THEN s.prev[e] ELSE @[e]],
                          !.prev = [e \in DOMAIN @ |-> IF e \in in THEN s.next[e] ELSE @[e]]]
      ends == [turned EXCEPT !.next[head(l)] = s.prev[tail(l)], !.prev[tail(l)] = s.next[head(l)]]
      first == ends.next[head(l)]
      last == ends.prev[tail(l)]
  IN  IF in = {} THEN s
      ELSE [ends EXCEPT !.prev[first] = ends.next[last], !.next[last] = ends.prev[first]]

RECURSIVE FindEndOfRun(_, _, _)
FindEndOfRun(s, a, b) ==
  LET n == s.next[a]
  IN  IF n # b /\ ~Less(n, s.prev[n]) THEN FindEndOfRun(s, n, b) ELSE n

\* The run from a0 to before a1b0 and the one from there to before b1.
RECURSIVE InplaceMerge(_, _, _, _)
InplaceMerge(s, a0, a1b0, b1) ==
  LET n == s.next[a1b0]
  IN  IF a0 = a1b0 \/ a1b0 = b1 THEN s
      ELSE IF ~Less(a1b0, a0) THEN InplaceMerge(s, s.next[a0], a1b0, b1)
      ELSE InplaceMerge(KLSplice(s, a0, s.prev[n], n), a0, n, b1)

\* One pass, from a0 on: adjacent runs are merged and the output runs counted.
RECURSIVE SortPass(_, _, _, _)
SortPass(s, l, a0, cnt) ==
  LET a1b0 == FindEndOfRun(s, a0, tail(l))
      b1 == FindEndOfRun(s, a1b0, tail(l))
  IN  IF a0 = tail(l) THEN [list |-> s, runs |-> cnt]
      ELSE IF a1b0 = tail(l) THEN [list |-> s, runs |-> cnt + 1]
      ELSE SortPass(InplaceMerge(s, a0, a1b0, b1), l, b1, cnt + 1)

RECURSIVE KLSort(_, _)
KLSort(s, l) ==
  LET pass == SortPass(s, l, s.next[head(l)], 0)
  IN  IF pass.runs > 1 THEN KLSort(pass.list, l) ELSE pass.list

\* Where list_insert_ordered() puts e.
RECURSIVE OrderedPlace(_, _, _)
OrderedPlace(s, e, at) ==
  IF at = tail(1) \/ Less(e, at) THEN at ELSE OrderedPlace(s, e, s.next[at])

\* list_unique() from e on, with list 2 for the duplicates.
RECURSIVE Unique(_, _)
Unique(s, e) ==
  LET n == s.next[e]
  IN  IF n = tail(1) THEN s
      ELSE IF ~Less(e, n) /\ ~Less(n, e) THEN Unique(KLInsert(KLRemove(s, n), tail(2), n), e)
      ELSE Unique(s, n)

\* The search of list_max() from e on, and of list_min().
RECURSIVE Largest(_, _, _)
Largest(s, max, e) ==
  IF e = tail(1) THEN max ELSE Largest(s, IF Less(max, e) THEN e ELSE max, s.next[e])

RECURSIVE Smallest(_, _, _)
Smallest(s, min, e) ==
  IF e = tail(1) THEN min ELSE Smallest(s, IF Less(e, min) THEN e ELSE min, s.next[e])

\* The client calls with an element that is in no list, or with one that is in the list
\* it means; the positions in the answers count from the front.
KLFree == Items \ (ToSet(Elems(store, 1)) \cup ToSet(Elems(store, 2)))

KLAt(l, i) == Append(Elems(store, l), tail(l))[i]

KLInsertElem(i, e) ==
  store' = KLInsert(store, KLAt(1, i), e) /\ ans' = <<"insert", <<i, e>>, 0>>

KLPushFront(e) ==
  store' = KLInsert(store, store.next[head(1)], e) /\ ans' = <<"insert", <<1, e>>, 0>>

KLPushBack(e) == store' = KLInsert(store, tail(1), e) /\ ans' = <<"enqueue", e, 0>>

KLRemoveElem(i) ==
  LET n == store.next[KLAt(1, i)]
  IN  /\ store' = KLRemove(store, KLAt(1, i))
      /\ ans' = <<"remove", i, IF n = tail(1) THEN NULL ELSE n>>

KLPopFront ==
  LET front == store.next[head(1)]
  IN  front # tail(1) /\ store' = KLRemove(store, front) /\ ans' = <<"dequeue", 0, front>>

KLPopBack ==
  LET back == store.prev[tail(1)]
  IN  back # head(1) /\ store' = KLRemove(store, back) /\ ans' = <<"pop", 0, back>>

KLSize == ans' = <<"length", 0, Len(Elems(store, 1))>> /\ UNCHANGED store

KLReverseList == store' = KLReverse(store, 1) /\ ans' = <<"reverse", 0, 0>>

KLSortList == store' = KLSort(store, 1) /\ ans' = <<"sort", 0, 0>>

\* The list must be sorted.
KLInsertOrdered(e) ==
  LET es == Elems(store, 1)
  IN  /\ \A i \in 2 .. Len(es) : ~Less(es[i], es[i - 1])
      /\ store' = KLInsert(store, OrderedPlace(store, e, store.next[head(1)]), e)
      /\ ans' = <<"ordered", e, 0>>

KLUnique ==
  /\ store' = IF Elems(store, 1) = <<>> THEN store ELSE Unique(store, store.next[head(1)])
  /\ ans' = <<"unique", 0, 0>>

KLMax ==
  LET max == store.next[head(1)]
  IN  /\ max # tail(1) /\ UNCHANGED store
      /\ ans' = <<"largest", 0, Largest(store, max, store.next[max])>>

KLMin ==
  LET min == store.next[head(1)]
  IN  /\ min # tail(1) /\ UNCHANGED store
      /\ ans' = <<"smallest", 0, Smallest(store, min, store.next[min])>>

\* A part of list 2 goes behind the i-th element of list 1.
KLSpliceLists(i, f, e) ==
  /\ store' = KLSplice(store, KLAt(1, i + 1), KLAt(2, f), KLAt(2, e))
  /\ ans' = <<"paste", <<i, f, e>>, 0>>

KLNext ==
  LET n == Len(Elems(store, 1))
      m == Len(Elems(store, 2))
  IN  \/ \E e \in KLFree : \/ KLPushFront(e) \/ KLPushBack(e) \/ KLInsertOrdered(e)
                          \/ \E i \in 1 .. n + 1 : KLInsertElem(i, e)
      \/ KLPopFront \/ KLPopBack \/ (\E i \in 1 .. n : KLRemoveElem(i))
      \/ KLSize \/ KLReverseList \/ KLSortList \/ KLUnique \/ KLMax \/ KLMin
      \/ \E i \in 0 .. n, f, e \in 1 .. m + 1 : f <= e /\ KLSpliceLists(i, f, e)

\* `prev` leads back the way `next` leads forward, in both lists, and nowhere else.
KLSound(s) ==
  /\ \A l \in {1, 2} :
       /\ Chain(s.prev, s.prev[tail(l)], {head(l)}) = Reverse(Elems(s, l))
       /\ s.prev[head(l)] = NULL /\ s.next[tail(l)] = NULL
  /\ IsInjective(Elems(s, 1) \o Elems(s, 2))

-----------------------------------------------------------------------------
(***************************************************************************)
(* libs/data_structs/list.c: a list is a pointer to its first node.  The   *)
(* nodes come from malloc(), for which the pool stands here: which of the  *)
(* free nodes it gives matters to nothing.                                 *)
(***************************************************************************)

LstInit == store = NewPool(0) @@ [list |-> NULL] /\ ans = <<>>

LstUsed(s) == Chain(s.next, s.list, {NULL})

Data(s, used) == [i \in DOMAIN used |-> s.item[used[i]]]

\* List__allocate_node()
Allocate(s, x) == [Without(s) EXCEPT !.item[GetNode(s)] = x, !.next[GetNode(s)] = NULL]

LstInserted(s, x) ==
  [Allocate(s, x) EXCEPT !.next[GetNode(s)] = s.list, !.list = GetNode(s)]

LstInsert(x) == store' = LstInserted(store, x) /\ ans' = <<"insert", <<1, x>>, 0>>

LstAppend(x) ==
  LET s == Allocate(store, x)
  IN  /\ store' = IF store.list = NULL THEN [s EXCEPT !.list = GetNode(store)]
                  ELSE [s EXCEPT !.next[Last(LstUsed(store))] = GetNode(store)]
      /\ ans' = <<"enqueue", x, 0>>

\* List_delete_node()
LstDeleteNode(s, n) ==
  LET before == CHOOSE m \in ToSet(LstUsed(s)) : s.next[m] = n
  IN  ReturnNode(IF s.list = n THEN [s EXCEPT !.list = s.next[n]]
                 ELSE [s EXCEPT !.next[before] = s.next[n]], n)

LstDeleteHead ==
  IF store.list = NULL THEN ans' = <<"dequeue", 0, NULL>> /\ UNCHANGED store
  ELSE store' = LstDeleteNode(store, store.list) /\ ans' = <<"dequeue", 0, store.item[store.list]>>

\* List_find_key() from n on.
RECURSIVE FindKey(_, _, _)
FindKey(s, n, x) == IF n = NULL \/ s.item[n] = x THEN n ELSE FindKey(s, s.next[n], x)

\* A client finds a node and deletes it; a list that is searched is not empty.
LstDelete(x) ==
  LET n == FindKey(store, store.list, x)
  IN  /\ store.list # NULL
      /\ store' = IF n = NULL THEN store ELSE LstDeleteNode(store, n)
      /\ ans' = <<"delete", x, IF n = NULL THEN -1 ELSE 0>>

LstLength == ans' = <<"length", 0, Len(LstUsed(store))>> /\ UNCHANGED store

LstDestroyed(s) == [FoldLeft(ReturnNode, s, LstUsed(s)) EXCEPT !.list = NULL]

LstDestroy == store' = LstDestroyed(store) /\ ans' = <<"quit">>

LstNext ==
  /\ ans # <<"quit">>
  /\ \/ Len(LstUsed(store)) < MaxLen /\ \E x \in Items : LstInsert(x) \/ LstAppend(x)
     \/ \E x \in Items : LstDelete(x)
     \/ LstDeleteHead \/ LstLength \/ LstDestroy

-----------------------------------------------------------------------------
(***************************************************************************)
(* libs/data_structs/list_stack.c: a list and the number of its nodes.     *)
(***************************************************************************)

LSkInit == store = NewPool(0) @@ [list |-> NULL, count |-> 0] /\ ans = <<>>

LSkPushed(s, x) == [LstInserted(s, x) EXCEPT !.count = @ + 1]

LSkPush(x) == store' = LSkPushed(store, x) /\ ans' = <<"push", x, 0>>

LSkPopped(s) == [LstDeleteNode(s, s.list) EXCEPT !.count = @ - 1]

LSkPop ==
  /\ store.count # 0
  /\ store' = LSkPopped(store) /\ ans' = <<"pop", 0, store.item[store.list]>>

\* Pops and pushes; the answer is NULL when there is nothing to pop.
LSkPeel ==
  LET x == store.item[store.list]
  IN  IF store.count = 0 THEN ans' = <<"top", 0, NULL>> /\ UNCHANGED store
      ELSE store' = LSkPushed(LSkPopped(store), x) /\ ans' = <<"top", 0, x>>

LSkDestroy ==
  /\ store' = IF store.count = 0 THEN store ELSE [LstDestroyed(store) EXCEPT !.count = 0]
  /\ ans' = <<"quit">>

LSkNext ==
  /\ ans # <<"quit">>
  /\ \/ store.count < MaxLen /\ \E x \in Items : LSkPush(x)
     \/ LSkPop \/ LSkPeel \/ LSkDestroy

-----------------------------------------------------------------------------
(***************************************************************************)
(* libs/data_structs/queue.c: a header, node qu, with `front` and `rear`.  *)
(***************************************************************************)

QueInit == store = NewPool(1) @@ [front |-> NULL, rear |-> NULL] /\ ans = <<>>

QueNodes(s) == Chain(s.next, s.front, {NULL})

QueUsed(s) == <<qu>> \o QueNodes(s)

QueAdd(x) ==
  LET n == GetNode(store)
      s == Allocate(store, x)
  IN  /\ store' = IF s.front = NULL THEN [s EXCEPT !.front = n, !.rear = n]
                  ELSE [s EXCEPT !.next[s.rear] = n, !.rear = n]
      /\ ans' = <<"enqueue", x, 0>>

QueRemoved(s) ==
  ReturnNode(IF s.rear = s.front THEN [s EXCEPT !.rear = NULL, !.front = NULL]
             ELSE [s EXCEPT !.front = s.next[s.front]], s.front)

QueRemove ==
  IF store.front = NULL THEN ans' = <<"dequeue", 0, NULL>> /\ UNCHANGED store
  ELSE store' = QueRemoved(store) /\ ans' = <<"dequeue", 0, store.item[store.front]>>

QueLength == ans' = <<"length", 0, Len(QueNodes(store))>> /\ UNCHANGED store

\* The header of an empty queue stays allocated.
QueDestroy ==
  LET emptied == FoldLeft(LAMBDA s, n : QueRemoved(s), store, QueNodes(store))
  IN  /\ store' = IF store.front = NULL THEN store ELSE ReturnNode(emptied, qu)
      /\ ans' = <<"quit">>

QueNext ==
  /\ ans # <<"quit">>
  /\ \/ Len(QueNodes(store)) < MaxLen /\ \E x \in Items : QueAdd(x)
     \/ QueRemove \/ QueLength \/ QueDestroy

-----------------------------------------------------------------------------
(***************************************************************************)
(* libs/data_structs/circ_list.c: `list` points to the last node and the   *)
(* last node to the first.                                                 *)
(***************************************************************************)

CirInit == store = NewPool(0) @@ [list |-> NULL] /\ ans = <<>>

CirUsed(s) ==
  IF s.list = NULL THEN <<>> ELSE Append(Chain(s.next, s.next[s.list], {s.list}), s.list)

CirInserted(s, x) ==
  LET n == GetNode(s)
      a == Allocate(s, x)
  IN  IF s.list = NULL THEN [a EXCEPT !.next[n] = n, !.list = n]
      ELSE [a EXCEPT !.next[n] = s.next[s.list], !.next[s.list] = n]

CirInsert(x) == store' = CirInserted(store, x) /\ ans' = <<"insert", <<1, x>>, 0>>

CirAppend(x) ==
  LET s == CirInserted(store, x)
  IN  store' = [s EXCEPT !.list = s.next[s.list]] /\ ans' = <<"enqueue", x, 0>>

\* __delete_node()
CirDeleteNode(s, n) ==
  LET before == CHOOSE m \in ToSet(CirUsed(s)) : s.next[m] = n
      cut == [s EXCEPT !.next[before] = s.next[n]]
  IN  ReturnNode(IF n = s.next[n] THEN [s EXCEPT !.list = NULL]
                 ELSE IF n = s.list THEN [cut EXCEPT !.list = before] ELSE cut, n)

\* The answer is the first item; the node deleted is the last.
CirDelete ==
  IF store.list = NULL THEN ans' = <<"dequeue", 0, NULL>> /\ UNCHANGED store
  ELSE /\ store' = CirDeleteNode(store, store.list)
       /\ ans' = <<"dequeue", 0, store.item[store.next[store.list]]>>

\* The loop of CircList_nth() from node n on, idx steps to go.
RECURSIVE CirStep(_, _, _)
CirStep(s, n, idx) ==
  LET at == s.next[n]
  IN  IF idx - 1 > 0 /\ at # s.list THEN CirStep(s, at, idx - 1)
      ELSE IF idx - 1 # 0 THEN NULL ELSE at

CirNth(idx) ==
  LET n == IF store.list = NULL THEN NULL
           ELSE IF idx = -1 THEN store.list ELSE CirStep(store, store.list, idx)
  IN  ans' = <<"nth", idx, IF n = NULL THEN NULL ELSE store.item[n]>> /\ UNCHANGED store

CirLength == ans' = <<"length", 0, Len(CirUsed(store))>> /\ UNCHANGED store

\* The loop compares the pointer with the value it has just given it: it ends after one
\* node.
CirDestroy ==
  /\ store' = IF store.list = NULL THEN store
              ELSE ReturnNode([store EXCEPT !.list = store.next[store.list]], store.list)
  /\ ans' = <<"quit">>

CirNext ==
  /\ ans # <<"quit">>
  /\ \/ Len(CirUsed(store)) < MaxLen /\ \E x \in Items : CirInsert(x) \/ CirAppend(x)
     \/ CirDelete \/ CirLength \/ CirDestroy
     \/ \E idx \in {-1} \cup (1 .. Len(CirUsed(store)) + 1) : CirNth(idx)

-----------------------------------------------------------------------------
(***************************************************************************)
(* libs/data_structs/double_list.c: nodes linked by `next` and `prev`.     *)
(* `part` is the client's pointer to a part that has been cut out.         *)
(***************************************************************************)

DblInit ==
  /\ store = NewPool(0) @@ [prev |-> <<>>, list |-> NULL, part |-> NULL]
  /\ ans = <<>>

DblNodes(s, n) == Chain(s.next, n, {NULL})

DblUsed(s) == DblNodes(s, s.list) \o DblNodes(s, s.part)

\* __allocate_double_node()
DblAllocate(s, x) ==
  LET n == GetNode(s)
  IN  [Allocate(s, x) EXCEPT !.prev = IF n \in DOMAIN @ THEN [@ EXCEPT ![n] = NULL]
                                      ELSE Append(@, NULL)]

\* The node that idx names, DoubleList_nth(); a negative index counts from the end.
DblAt(s, idx) ==
  LET used == DblNodes(s, s.list)
      back == Chain(s.prev, Last(used), {NULL})
      way == IF idx > 0 THEN used ELSE back
      i == IF idx > 0 THEN idx ELSE -idx
  IN  IF s.list = NULL \/ i > Len(way) THEN NULL ELSE way[i]

\* DoubleList_insert() with the client's list, or with a pointer to a node inside it.
DblInsert(i, x) ==
  LET n == GetNode(store)
      at == DblAt(store, i)
      s == DblAllocate(store, x)
      linked == [s EXCEPT !.next[n] = at, !.prev[n] = s.prev[at], !.prev[at] = n]
      placed == IF linked.prev[n] = NULL THEN linked ELSE [linked EXCEPT !.next[s.prev[at]] = n]
  IN  /\ at # NULL \/ (i = 1 /\ store.list = NULL)
      /\ store' = [(IF at = NULL THEN s ELSE placed) EXCEPT !.list = IF i = 1 THEN n ELSE @]
      /\ ans' = <<"insert", <<i, x>>, 0>>

DblAppend(x) ==
  LET n == GetNode(store)
      s == DblAllocate(store, x)
      last == Last(DblNodes(store, store.list))
  IN  /\ store' = IF store.list = NULL THEN [s EXCEPT !.list = n]
                  ELSE [s EXCEPT !.next[last] = n, !.prev[n] = last]
      /\ ans' = <<"enqueue", x, 0>>

\* __delete_double_node()
DblDeleteNode(s, n) ==
  LET prev == s.prev[n]
      next == s.next[n]
      a == IF prev = NULL THEN s ELSE [s EXCEPT !.next[prev] = next]
      b == IF next = NULL THEN a ELSE [a EXCEPT !.prev[next] = prev]
  IN  ReturnNode(IF n # b.list THEN b ELSE [b EXCEPT !.list = IF next # NULL THEN next ELSE prev], n)

DblDeleteHead ==
  IF store.list = NULL THEN ans' = <<"dequeue", 0, NULL>> /\ UNCHANGED store
  ELSE store' = DblDeleteNode(store, store.list) /\ ans' = <<"dequeue", 0, store.item[store.list]>>

DblNth(idx) ==
  LET n == DblAt(store, idx)
  IN  ans' = <<"nth", idx, IF n = NULL THEN NULL ELSE store.item[n]>> /\ UNCHANGED store

DblLength == ans' = <<"length", 0, Len(DblNodes(store, store.list))>> /\ UNCHANGED store

\* DoubleList_cut() of the i-th node to the j-th.
DblCut(i, j) ==
  LET start == DblAt(store, i)
      end == DblAt(store, j)
      a == IF store.prev[start] = NULL THEN store
           ELSE [store EXCEPT !.next[store.prev[start]] = store.next[end]]
      b == IF a.next[end] = NULL THEN a ELSE [a EXCEPT !.prev[a.next[end]] = a.prev[start]]
  IN  /\ store.part = NULL
      /\ store' = [b EXCEPT !.list = IF @ = start THEN b.next[end] ELSE @,
                            !.prev[start] = NULL, !.next[end] = NULL, !.part = start]
      /\ ans' = <<"cut", <<i, j>>, 0>>

\* DoubleList_paste() of the part behind the i-th node, or into the empty list.
DblPaste(i) ==
  LET target == DblAt(store, i)
      source == store.part
      last == Last(DblNodes(store, source))
      after == store.next[target]
      a == [store EXCEPT !.next[last] = after]
      b == IF after = NULL THEN a ELSE [a EXCEPT !.prev[after] = last]
  IN  /\ source # NULL
      /\ store' = [(IF store.list = NULL THEN [store EXCEPT !.list = source]
                    ELSE [b EXCEPT !.prev[source] = target, !.next[target] = source])
                   EXCEPT !.part = NULL]
      /\ ans' = <<"paste", <<i, 1, Len(DblNodes(store, source)) + 1>>, 0>>

DblDestroy ==
  /\ store.part = NULL
  /\ store' = [FoldLeft(ReturnNode, store, DblUsed(store)) EXCEPT !.list = NULL]
  /\ ans' = <<"quit">>

DblNext ==
  LET n == Len(DblNodes(store, store.list))
  IN  /\ ans # <<"quit">>
      /\ \/ /\ Len(DblUsed(store)) < MaxLen
            /\ \E x \in Items : DblAppend(x) \/ \E i \in 1 .. MaxLen : DblInsert(i, x)
         \/ DblDeleteHead \/ DblLength \/ DblDestroy
         \/ \E idx \in (-n - 1 .. n + 1) \ {0} : DblNth(idx)
         \/ \E i, j \in 1 .. n : i <= j /\ DblCut(i, j)
         \/ \E i \in IF n = 0 THEN {0} ELSE 1 .. n : DblPaste(i)

\* `prev` leads back the way `next` leads forward, in the list and in the part.
DblSound(s) ==
  \A n \in {s.list, s.part} \ {NULL} :
    Chain(s.prev, Last(DblNodes(s, n)), {NULL}) = Reverse(DblNodes(s, n))
=============================================================================
