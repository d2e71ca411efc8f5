------------------------------ MODULE UnionFind -----------------------------
(***************************************************************************)
(* The promise of a union-find structure, abstract: a partition of the     *)
(* items.                                                                  *)
(***************************************************************************)
EXTENDS Integers

CONSTANTS Items, Pairs

VARIABLES classes, ans

Init == classes = {} /\ ans = <<>>

ClassOf(x) == CHOOSE c \in classes : x \in c

Insert(x) ==
  \/ ans' = <<"insert", x, 0>> /\ x \notin UNION classes /\ classes' = classes \cup {{x}}
  \/ ans' = <<"insert", x, -1>> /\ x \in UNION classes /\ UNCHANGED classes

SameClass(a, b) ==
  ans' = <<"same", <<a, b>>, ClassOf(a) = ClassOf(b)>> /\ UNCHANGED classes

Join(a, b) ==
  /\ ans' = <<"join", <<a, b>>, TRUE>>
  /\ classes' = (classes \ {ClassOf(a), ClassOf(b)}) \cup {ClassOf(a) \cup ClassOf(b)}

Next ==
  \/ \E x \in Items : Insert(x)
  \/ \E p \in Pairs : {p[1], p[2]} \subseteq UNION classes /\ (SameClass(p[1], p[2]) \/ Join(p[1], p[2]))
=============================================================================
