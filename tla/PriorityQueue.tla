---------------------------- MODULE PriorityQueue ---------------------------
(***************************************************************************)
(* The promise of a heap, abstract: a bag of keys, from which a smallest   *)
(* one comes off. A bounded heap may refuse a key when it holds Cap.       *)
(***************************************************************************)
EXTENDS Integers, FiniteSetsExt

CONSTANTS Items, Cap

VARIABLES bag, ans   \* bag[k]: how often k is in the heap

NULL == 0

Init == bag = [k \in Items |-> 0] /\ ans = <<>>

IsEmpty == \A k \in Items : bag[k] = 0

Least == Min({k \in Items : bag[k] > 0})

Insert(k) ==
  \/ ans' = <<"insert", k, 0>> /\ bag' = [bag EXCEPT ![k] = @ + 1]
  \/ ans' = <<"insert", k, -1>> /\ SumFunction(bag) >= Cap /\ UNCHANGED bag

DeleteMin ==
  \/ IsEmpty /\ ans' = <<"delete_min", 0, NULL>> /\ UNCHANGED bag
  \/ ~IsEmpty /\ ans' = <<"delete_min", 0, Least>> /\ bag' = [bag EXCEPT ![Least] = @ - 1]

FindMin == ans' = <<"min", 0, IF IsEmpty THEN 10000 ELSE Least>> /\ UNCHANGED bag

Quit == ans' = <<"quit">>

Next == (\E k \in Items : Insert(k)) \/ DeleteMin \/ FindMin \/ Quit
=============================================================================
