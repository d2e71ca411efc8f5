----------------------------- MODULE ArrayLines -----------------------------
(***************************************************************************)
(* Stacks and queues of books/advanced_data_structures in arrays and       *)
(* blocks, the queue that knows its smallest item, and the stack of        *)
(* libs/data_structs/array_stack.c.                                        *)
(***************************************************************************)
EXTENDS Integers, SequencesExt

CONSTANTS Items, Size,   \* the size of the array
          MaxLen   \* bounds the stack

VARIABLES store, ans, nodes   \* malloc() - free()

-----------------------------------------------------------------------------
(***************************************************************************)
(* ch1/ar_stack.c: the stack in an array; `store` is what lies below top.  *)
(***************************************************************************)

NULL == 0

ArSInit == store = <<>> /\ ans = <<>>

ArSStackEmpty == store = <<>>

ArSPush(x) ==
  \/ Len(store) < Size /\ store' = Append(store, x) /\ ans' = <<"push", x, 0>>
  \/ Len(store) >= Size /\ ans' = <<"push", x, -1>> /\ UNCHANGED store

ArSPop == ~ArSStackEmpty /\ store' = Front(store) /\ ans' = <<"pop", 0, Last(store)>>

ArSTopElement ==
  ans' = <<"top", 0, IF ArSStackEmpty THEN NULL ELSE Last(store)>> /\ UNCHANGED store

ArSRemoveStack == store' = <<>> /\ ans' = <<"quit">>

ArSNext ==
  /\ ans # <<"quit">>
  /\ (\E x \in Items : ArSPush(x)) \/ ArSPop \/ ArSTopElement \/ ArSRemoveStack

-----------------------------------------------------------------------------
(***************************************************************************)
(* ch1/bl_stack.c: the stack as a list of arrays. `block` is what lies     *)
(* below top in the current array, `previous` the arrays before it; the    *)
(* entry point is copied to a new node when its array is full and takes    *)
(* that node's fields back when its array is empty and one is popped.      *)
(***************************************************************************)

BlSInit == store = [block |-> <<>>, previous |-> <<>>] /\ ans = <<>> /\ nodes = 2

BlSContents(s) == FlattenSeq(s.previous) \o s.block

BlSStackEmpty == store.block = <<>> /\ store.previous = <<>>

BlSPush(x) ==
  /\ ans' = <<"push", x, 0>>
  /\ \/ /\ Len(store.block) < Size
        /\ store' = [store EXCEPT !.block = Append(@, x)] /\ UNCHANGED nodes
     \/ /\ Len(store.block) >= Size
        /\ store' = [block |-> <<x>>, previous |-> Append(store.previous, store.block)]
        /\ nodes' = nodes + 2

\* Mutant: the block below is entered and stays below.
BlSPopKeepsBlock ==
  LET back == store.block = <<>>
      block == IF back THEN Last(store.previous) ELSE store.block
  IN  /\ ~BlSStackEmpty
      /\ store' = [store EXCEPT !.block = Front(block)]
      /\ nodes' = nodes - (IF back THEN 2 ELSE 0)
      /\ ans' = <<"pop", 0, Last(block)>>

BlSPop ==
  LET back == store.block = <<>>
      block == IF back THEN Last(store.previous) ELSE store.block
  IN  /\ ~BlSStackEmpty
      /\ store' = [block |-> Front(block),
                   previous |-> IF back THEN Front(store.previous) ELSE store.previous]
      /\ nodes' = nodes - (IF back THEN 2 ELSE 0)
      /\ ans' = <<"pop", 0, Last(block)>>

BlSTopElement ==
  /\ ans' = <<"top", 0, IF BlSStackEmpty THEN NULL
                        ELSE Last(IF store.block = <<>> THEN Last(store.previous) ELSE store.block)>>
  /\ UNCHANGED <<store, nodes>>

\* Frees the entry point's array and the entry point, then each previous one's.
BlSRemoveStack ==
  /\ store' = [block |-> <<>>, previous |-> <<>>]
  /\ nodes' = nodes - 2 * (1 + Len(store.previous)) /\ ans' = <<"quit">>

BlSNext ==
  /\ ans # <<"quit">>
  /\ \/ Len(BlSContents(store)) < MaxLen /\ \E x \in Items : BlSPush(x)
     \/ BlSPop
     \/ BlSTopElement
     \/ BlSRemoveStack

-----------------------------------------------------------------------------
(***************************************************************************)
(* ch1/shd_stack.c: the stack in an array that a larger copy replaces,     *)
(* which push() fills by four items a call. `base` is what lies below the  *)
(* top, `copy` what has been copied, `copying` says whether there is a     *)
(* copy.                                                                   *)
(*                                                                         *)
(* pop() takes the copy for complete when it holds as many items as are    *)
(* left, also when there is no copy and nothing is left: base becomes NULL *)
(* (`lost`), and the next push() writes through it.                        *)
(***************************************************************************)

ShSInit ==
  /\ store = [base |-> <<>>, max |-> 3, copy |-> <<>>, copying |-> FALSE, lost |-> FALSE]
  /\ ans = <<>>

ShSContents(s) == s.base

ShSStackEmpty == store.base = <<>>

\* "copy complete"
Completed(s) ==
  IF Len(s.copy) # Len(s.base) THEN s
  ELSE [base |-> s.copy, max |-> 2 * s.max, copy |-> <<>>, copying |-> FALSE,
        lost |-> ~s.copying]

ShSPush(x) ==
  LET base == Append(store.base, x)
      n == Min({Len(store.copy) + 4, Len(base)})
      s == [store EXCEPT !.base = base]
  IN  /\ ~store.lost
      /\ store' = IF store.copying \/ 4 * Len(base) >= 3 * store.max
                    THEN Completed([s EXCEPT !.copying = TRUE, !.copy = SubSeq(base, 1, n)])
                    ELSE s
      /\ ans' = <<"push", x, 0>>

Crash == store.lost /\ ans' = <<"crash">> /\ UNCHANGED store

ShSPop ==
  /\ ~ShSStackEmpty
  /\ store' = Completed([store EXCEPT !.base = Front(@)])
  /\ ans' = <<"pop", 0, Last(store.base)>>

ShSTopElement ==
  ans' = <<"top", 0, IF ShSStackEmpty THEN NULL ELSE Last(store.base)>> /\ UNCHANGED store

ShSRemoveStack == store' = [store EXCEPT !.base = <<>>, !.copy = <<>>] /\ ans' = <<"quit">>

ShSNext ==
  /\ ans \notin {<<"quit">>, <<"crash">>}
  /\ \/ Len(store.base) < MaxLen /\ \E x \in Items : ShSPush(x)
     \/ Crash
     \/ ShSPop
     \/ ShSTopElement
     \/ ShSRemoveStack

\* The array has room for another item, and the copy, which has the first items, for all.
Sound(s) ==
  /\ Len(s.base) < s.max
  /\ s.copying => Len(s.copy) < Len(s.base) /\ IsPrefix(s.copy, s.base)

-----------------------------------------------------------------------------
(***************************************************************************)
(* ch1/ar_queue.c: the queue in an array used as a ring.                   *)
(***************************************************************************)

ArQInit ==
  store = [base |-> [i \in 0 .. Size - 1 |-> NULL], front |-> 0, rear |-> 0] /\ ans = <<>>

ArQContents(s) ==
  [i \in 1 .. ((s.rear - s.front) % Size) |-> s.base[(s.front + i - 1) % Size]]

ArQQueueEmpty == store.front = store.rear

ArQEnqueue(x) ==
  \/ /\ store.front # (store.rear + 2) % Size
     /\ store' = [store EXCEPT !.base[store.rear] = x, !.rear = (@ + 1) % Size]
     /\ ans' = <<"enqueue", x, 0>>
  \/ /\ store.front = (store.rear + 2) % Size
     /\ ans' = <<"enqueue", x, -1>> /\ UNCHANGED store

ArQDequeue ==
  /\ ~ArQQueueEmpty
  /\ store' = [store EXCEPT !.front = (@ + 1) % Size]
  /\ ans' = <<"dequeue", 0, store.base[store.front]>>

FrontElement ==
  /\ ans' = <<"front", 0, IF ArQQueueEmpty THEN NULL ELSE store.base[store.front]>>
  /\ UNCHANGED store

RemoveQueue == store' = [store EXCEPT !.front = 0, !.rear = 0] /\ ans' = <<"quit">>

ArQNext ==
  /\ ans # <<"quit">>
  /\ (\E x \in Items : ArQEnqueue(x)) \/ ArQDequeue \/ FrontElement \/ RemoveQueue

-----------------------------------------------------------------------------
(***************************************************************************)
(* ch5/min_queue.c: a queue that knows its smallest key. `objects` is the  *)
(* queue of all objects, `minkeys` that of the keys that are the smallest  *)
(* of those behind them; the front of each comes first.                    *)
(***************************************************************************)

POSINFTY == 10000

MiQInit == store = [objects |-> <<>>, minkeys |-> <<>>] /\ ans = <<>> /\ nodes = 3

MiQQueueEmpty == store.objects = <<>>

\* Larger keys leave the rear of the second queue; the last node that does is used again.
MiQEnqueue(x) ==
  LET kept == CHOOSE n \in 0 .. Len(store.minkeys) :
                /\ \A i \in n + 1 .. Len(store.minkeys) : store.minkeys[i] > x
                /\ n > 0 => store.minkeys[n] <= x
  IN  /\ store' = [objects |-> Append(store.objects, x),
                   minkeys |-> Append(SubSeq(store.minkeys, 1, kept), x)]
      /\ nodes' = nodes + 2 - (Len(store.minkeys) - kept)
      /\ ans' = <<"enqueue", x, 0>>

MiQDequeue ==
  LET x == Head(store.objects)
      both == x = Head(store.minkeys)
  IN  \/ MiQQueueEmpty /\ ans' = <<"dequeue", 0, NULL>> /\ UNCHANGED <<store, nodes>>
      \/ /\ ~MiQQueueEmpty
         /\ store' = [objects |-> Tail(store.objects),
                      minkeys |-> IF both THEN Tail(store.minkeys) ELSE store.minkeys]
         /\ nodes' = nodes - (IF both THEN 2 ELSE 1)
         /\ ans' = <<"dequeue", 0, x>>

\* find_min_key(), where the placeholder of the empty queue has the key POSINFTY.
FindMinKey ==
  /\ ans' = <<"min", 0, IF store.minkeys = <<>> THEN POSINFTY ELSE Head(store.minkeys)>>
  /\ UNCHANGED <<store, nodes>>

RemoveMinqueue ==
  /\ store' = [objects |-> <<>>, minkeys |-> <<>>]
  /\ nodes' = nodes - (3 + Len(store.objects) + Len(store.minkeys)) /\ ans' = <<"quit">>

MiQNext ==
  /\ ans # <<"quit">>
  /\ \/ Len(store.objects) < MaxLen /\ \E x \in Items : MiQEnqueue(x)
     \/ MiQDequeue
     \/ FindMinKey
     \/ RemoveMinqueue

-----------------------------------------------------------------------------
(***************************************************************************)
(* libs/data_structs/array_stack.c: the stack in an array of `size` items, *)
(* one at first, that grows by Size, the program's RESIZE_STEP of 100.     *)
(* `storage` is what lies below top.                                       *)
(***************************************************************************)

AStInit == store = [storage |-> <<>>, size |-> 1] /\ ans = <<>>

AStPushed(s, x) ==
  [storage |-> Append(s.storage, x),
   size |-> IF Len(s.storage) = s.size THEN s.size + Size ELSE s.size]

AStPush(x) == store' = AStPushed(store, x) /\ ans' = <<"push", x, 0>>

AStPopped(s) == [s EXCEPT !.storage = Front(@)]

AStPop ==
  store.storage # <<>> /\ store' = AStPopped(store) /\ ans' = <<"pop", 0, Last(store.storage)>>

\* Pops and pushes; the answer is NULL when there is nothing to pop.
AStPeel ==
  IF store.storage = <<>> THEN ans' = <<"top", 0, NULL>> /\ UNCHANGED store
  ELSE LET x == Last(store.storage)
       IN  store' = AStPushed(AStPopped(store), x) /\ ans' = <<"top", 0, x>>

AStDestroy == store' = [store EXCEPT !.storage = <<>>] /\ ans' = <<"quit">>

AStNext ==
  /\ ans # <<"quit">>
  /\ \/ Len(store.storage) < MaxLen /\ \E x \in Items : AStPush(x)
     \/ AStPop \/ AStPeel \/ AStDestroy
=============================================================================
