------------------------------ MODULE SkipList ------------------------------
(***************************************************************************)
(* ch3/skip_list.c: skip lists.  tree[l] is the list of the keys on level  *)
(* l, without the placeholder; a key's nodes form a column, with its       *)
(* object below level 1.  Before a list stands the placeholder, Start.     *)
(*                                                                         *)
(* insert() does not look whether the key is there already; the input is   *)
(* taken to insert new keys only.                                          *)
(***************************************************************************)
EXTENDS Integers, SequencesExt

CONSTANTS Keys,
          MaxLevel   \* the most levels that rand() gives a key, a bound of the model

VARIABLES tree, ans, nodes

Object(k) == 10 * k + 2

NULL == -1

Start == NULL

\* get_node(), n times; return_node() for n < 0.
Take(n) == nodes' = nodes + n

Init == tree = <<>> /\ ans = <<>> /\ nodes = 1

\* What follows node x in list s, and the node where a walk from x ends that passes the
\* keys below b.
Rest(s, x) ==
  IF x = Start THEN s ELSE SubSeq(s, (CHOOSE i \in DOMAIN s : s[i] = x) + 1, Len(s))

Walk(s, x, b) ==
  LET r == Rest(s, x)
      n == CHOOSE i \in 0 .. Len(r) : /\ \A j \in 1 .. i : r[j] < b
                                      /\ i < Len(r) => r[i + 1] >= b
  IN  IF n = 0 THEN x ELSE r[n]

\* Where that walk, which goes down from the top, ends on level l.
RECURSIVE Stop(_, _, _)
Stop(lists, l, b) ==
  Walk(lists[l], IF l = Len(lists) THEN Start ELSE Stop(lists, l + 1, b), b)

\* find() passes the keys up to k.
Find(k) ==
  LET hit == tree # <<>> /\ Stop(tree, 1, k + 1) = k
  IN  ans' = <<"find", k, IF hit THEN Object(k) ELSE NULL>> /\ UNCHANGED <<tree, nodes>>

\* insert() of a key that gets n levels.
Insert(k, n) ==
  LET lists == [l \in 1 .. Max({n, Len(tree)}) |-> IF l <= Len(tree) THEN tree[l] ELSE <<>>]
      Linked(l) == LET s == lists[l]
                       r == Rest(s, Stop(lists, l, k))
                   IN  SubSeq(s, 1, Len(s) - Len(r)) \o <<k>> \o r
  IN  /\ tree' = [l \in DOMAIN lists |-> IF l <= n THEN Linked(l) ELSE lists[l]]
      /\ ans' = <<"insert", k, 0>>
      /\ Take(n + 1 + Len(lists) - Len(tree))

Delete(k) ==
  LET Next1(l) == Rest(tree[l], Stop(tree, l, k))
      hit == {l \in DOMAIN tree : Next1(l) # <<>> /\ Head(Next1(l)) = k}
      cut == [l \in DOMAIN tree |-> IF l \in hit THEN Remove(tree[l], k) ELSE tree[l]]
      top == Max({0} \cup {l \in DOMAIN tree : cut[l] # <<>>})
  IN  /\ tree' = SubSeq(cut, 1, top)
      /\ ans' = <<"delete", k, IF 1 \in hit THEN Object(k) ELSE NULL>>
      /\ Take(-(Cardinality(hit) + (IF 1 \in hit THEN 1 ELSE 0) + Len(tree) - top))

Contents(t) == IF t = <<>> THEN <<>> ELSE [k \in ToSet(t[1]) |-> Object(k)]

Next == \E k \in Keys :
          \/ k \notin DOMAIN Contents(tree) /\ \E n \in 1 .. MaxLevel : Insert(k, n)
          \/ Find(k)
          \/ Delete(k)

Count(t) ==
  1 + Len(t) + FoldLeft(LAMBDA n, s : n + Len(s), 0, t) + Cardinality(DOMAIN Contents(t))

\* Every list is sorted and a sublist of the one below, and the top one has a key.
Ordered(t) ==
  /\ \A l \in DOMAIN t : t[l] = SetToSortSeq(ToSet(t[l]), <)
  /\ \A l \in 2 .. Len(t) : ToSet(t[l]) \subseteq ToSet(t[l - 1])
  /\ t # <<>> => Last(t) # <<>>
=============================================================================
