---------------------------- MODULE LinkedLines -----------------------------
(***************************************************************************)
(* Linked stacks and queues of books/advanced_data_structures, chapter 1,  *)
(* with the pool their nodes come from.                                    *)
(***************************************************************************)
EXTENDS Integers, SequencesExt

CONSTANTS Items, MaxLen   \* MaxLen bounds the stack

VARIABLES store, ans

-----------------------------------------------------------------------------
(***************************************************************************)
(* ch1/free_list.c, which most programs of books/advanced_data_structures  *)
(* repeat: nodes come from blocks of malloc() and go back to a list of     *)
(* free nodes, linked by the field that links the nodes in use.            *)
(*                                                                         *)
(* A pool is a value: `next` and `item` hold the fields of the nodes made  *)
(* so far, `free` is the head of the free list.  A pointer is the node's   *)
(* number, 0 for NULL.                                                     *)
(***************************************************************************)

NULL == 0

\* The pool after n nodes have been taken by malloc().
NewPool(n) ==
  [next |-> [i \in 1 .. n |-> NULL], item |-> [i \in 1 .. n |-> NULL], free |-> NULL]

\* get_node(): the node, and the pool without it.  A node of a new block has
\* no defined contents.
GetNode(pool) == IF pool.free # NULL THEN pool.free ELSE Len(pool.next) + 1

Without(pool) ==
  IF pool.free # NULL THEN [pool EXCEPT !.free = pool.next[pool.free]]
  ELSE [pool EXCEPT !.next = Append(@, NULL), !.item = Append(@, NULL)]

\* return_node()
ReturnNode(pool, n) == [pool EXCEPT !.next[n] = pool.free, !.free = n]

\* The nodes from n on, as far as a node of `end` is met.
RECURSIVE Chain(_, _, _)
Chain(next, n, end) == IF n \in end THEN <<>> ELSE <<n>> \o Chain(next, next[n], end)

\* No node is lost, free and in use, or twice on a list.
Accounted(pool, used) ==
  LET all == used \o Chain(pool.next, pool.free, {NULL})
  IN  IsInjective(all) /\ ToSet(all) = DOMAIN pool.next

-----------------------------------------------------------------------------
(***************************************************************************)
(* ch1/li_stack.c: the stack as a linked list behind a placeholder, node   *)
(* st.  Popping an empty stack is left to the user to avoid, as in the     *)
(* other programs of ch1.                                                  *)
(***************************************************************************)

st == 1

LiSInit == store = NewPool(1) /\ ans = <<>>

LiSUsed(s) == Chain(s.next, st, {NULL})

LiSContents(s) == Reverse([i \in 1 .. Len(LiSUsed(s)) - 1 |-> s.item[LiSUsed(s)[i + 1]]])

StackEmpty == store.next[st] = NULL

Push(x) ==
  LET tmp == GetNode(store)
      s == Without(store)
  IN  /\ store' = [s EXCEPT !.item[tmp] = x, !.next[tmp] = s.next[st], !.next[st] = tmp]
      /\ ans' = <<"push", x, 0>>

\* Mutant: the node is unlinked and not returned.
PopKeepsNode ==
  LET tmp == store.next[st]
  IN  /\ ~StackEmpty
      /\ store' = [store EXCEPT !.next[st] = store.next[tmp]]
      /\ ans' = <<"pop", 0, store.item[tmp]>>

Pop ==
  LET tmp == store.next[st]
  IN  /\ ~StackEmpty
      /\ store' = ReturnNode([store EXCEPT !.next[st] = store.next[tmp]], tmp)
      /\ ans' = <<"pop", 0, store.item[tmp]>>

TopElement ==
  /\ ans' = <<"top", 0, IF StackEmpty THEN NULL ELSE store.item[store.next[st]]>>
  /\ UNCHANGED store

RemoveStack == store' = FoldLeft(ReturnNode, store, LiSUsed(store)) /\ ans' = <<"quit">>

LiSNext ==
  /\ ans # <<"quit">>
  /\ \/ Len(LiSContents(store)) < MaxLen /\ \E x \in Items : Push(x)
     \/ Pop
     \/ TopElement
     \/ RemoveStack

-----------------------------------------------------------------------------
(***************************************************************************)
(* ch1/li_queue.c: the queue as a linked list from `remove` to `insert`,   *)
(* which hold NULL when it is empty.                                       *)
(***************************************************************************)

LiQInit == store = NewPool(0) @@ [remove |-> NULL, insert |-> NULL] /\ ans = <<>>

LiQUsed(s) == Chain(s.next, s.remove, {NULL})

LiQContents(s) == [i \in DOMAIN LiQUsed(s) |-> s.item[LiQUsed(s)[i]]]

LiQQueueEmpty == store.insert = NULL

LiQEnqueue(x) ==
  LET tmp == GetNode(store)
      s == [Without(store) EXCEPT !.item[tmp] = x, !.next[tmp] = NULL, !.insert = tmp]
  IN  /\ store' = IF LiQQueueEmpty THEN [s EXCEPT !.remove = tmp]
                  ELSE [s EXCEPT !.next[store.insert] = tmp]
      /\ ans' = <<"enqueue", x, 0>>

LiQDequeue ==
  LET tmp == store.remove
      after == store.next[tmp]
  IN  /\ ~LiQQueueEmpty
      /\ store' = ReturnNode([store EXCEPT !.remove = after,
                                           !.insert = IF after = NULL THEN NULL ELSE @], tmp)
      /\ ans' = <<"dequeue", 0, store.item[tmp]>>

LiQFrontElement ==
  /\ ans' = <<"front", 0, IF LiQQueueEmpty THEN NULL ELSE store.item[store.remove]>>
  /\ UNCHANGED store

LiQRemoveQueue ==
  /\ store' = [FoldLeft(ReturnNode, store, LiQUsed(store)) EXCEPT !.remove = NULL]
  /\ ans' = <<"quit">>

LiQNext ==
  /\ ans # <<"quit">>
  /\ \/ Len(LiQContents(store)) < MaxLen /\ \E x \in Items : LiQEnqueue(x)
     \/ LiQDequeue
     \/ LiQFrontElement
     \/ LiQRemoveQueue

-----------------------------------------------------------------------------
(***************************************************************************)
(* ch1/c_l_queue.c: the queue as a cyclic list.  The entry point, node qu, *)
(* points to the last node, the last node to a placeholder and that one to *)
(* the first.  The entry point and the placeholder come from malloc() and  *)
(* go to the free list in the end.                                         *)
(***************************************************************************)

qu == 1

placeholder == 2

CLQInit == store = [NewPool(2) EXCEPT !.next = <<placeholder, placeholder>>] /\ ans = <<>>

\* The nodes from the placeholder on, once around, and the entry point.
CLQUsed(s) == <<qu, placeholder>> \o Chain(s.next, s.next[placeholder], {placeholder})

CLQContents(s) == [i \in 1 .. Len(CLQUsed(s)) - 2 |-> s.item[CLQUsed(s)[i + 2]]]

CLQQueueEmpty == store.next[qu] = store.next[store.next[qu]]

CLQEnqueue(x) ==
  LET new == GetNode(store)
      s == Without(store)
      tmp == s.next[qu]
  IN  /\ store' = [s EXCEPT !.item[new] = x, !.next[qu] = new, !.next[new] = s.next[tmp],
                            !.next[tmp] = new]
      /\ ans' = <<"enqueue", x, 0>>

CLQDequeue ==
  LET before == store.next[store.next[qu]]
      tmp == store.next[before]
      s == [store EXCEPT !.next[before] = store.next[tmp]]
  IN  /\ ~CLQQueueEmpty
      /\ store' = ReturnNode(IF tmp = s.next[qu] THEN [s EXCEPT !.next[qu] = s.next[tmp]] ELSE s,
                             tmp)
      /\ ans' = <<"dequeue", 0, store.item[tmp]>>

CLQFrontElement ==
  /\ ans' = <<"front", 0, IF CLQQueueEmpty THEN NULL
                          ELSE store.item[store.next[store.next[store.next[qu]]]]>>
  /\ UNCHANGED store

\* The loop returns the nodes behind the last one until that one is alone.
CLQRemoveQueue ==
  LET last == store.next[qu]
      others == Chain(store.next, store.next[last], {last})
  IN  /\ store' = FoldLeft(ReturnNode, store, others \o <<last, qu>>)
      /\ ans' = <<"quit">>

CLQNext ==
  /\ ans # <<"quit">>
  /\ \/ Len(CLQContents(store)) < MaxLen /\ \E x \in Items : CLQEnqueue(x)
     \/ CLQDequeue
     \/ CLQFrontElement
     \/ CLQRemoveQueue

-----------------------------------------------------------------------------
(***************************************************************************)
(* ch1/dll_queue.c: the queue as a cyclic list with links both ways.  New  *)
(* nodes go behind the entry point, node qu, by `next`; the front of the   *)
(* queue is before it, by `previous`.                                      *)
(***************************************************************************)

DlQInit ==
  store = [NewPool(1) EXCEPT !.next = <<qu>>] @@ [previous |-> <<qu>>] /\ ans = <<>>

DlQUsed(s) == <<qu>> \o Chain(s.next, s.next[qu], {qu})

\* By `previous`, from the front.
DlQContents(s) ==
  LET front == Chain(s.previous, s.previous[qu], {qu})
  IN  [i \in DOMAIN front |-> s.item[front[i]]]

DlQQueueEmpty == store.next[qu] = qu

DlQEnqueue(x) ==
  LET new == GetNode(store)
      first == store.next[qu]
      s == [Without(store) EXCEPT !.previous = IF new \in DOMAIN @ THEN @ ELSE Append(@, NULL)]
  IN  /\ store' = [s EXCEPT !.item[new] = x, !.next[new] = first, !.next[qu] = new,
                            !.previous[first] = new, !.previous[new] = qu]
      /\ ans' = <<"enqueue", x, 0>>

DlQDequeue ==
  LET tmp == store.previous[qu]
      before == store.previous[tmp]
  IN  /\ ~DlQQueueEmpty
      /\ store' = ReturnNode([store EXCEPT !.next[before] = qu, !.previous[qu] = before], tmp)
      /\ ans' = <<"dequeue", 0, store.item[tmp]>>

DlQFrontElement ==
  /\ ans' = <<"front", 0, IF DlQQueueEmpty THEN NULL ELSE store.item[store.previous[qu]]>>
  /\ UNCHANGED store

DlQRemoveQueue == store' = FoldLeft(ReturnNode, store, DlQUsed(store)) /\ ans' = <<"quit">>

DlQNext ==
  /\ ans # <<"quit">>
  /\ \/ Len(DlQContents(store)) < MaxLen /\ \E x \in Items : DlQEnqueue(x)
     \/ DlQDequeue
     \/ DlQFrontElement
     \/ DlQRemoveQueue
=============================================================================
