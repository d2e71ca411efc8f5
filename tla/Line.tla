-------------------------------- MODULE Line --------------------------------
(***************************************************************************)
(* The promise of a stack, a queue or a list, abstract: the items in their *)
(* order.  A bounded one may refuse an item when it holds Cap.  A list may *)
(* have a second one beside it, `part`, with which it exchanges items.     *)
(***************************************************************************)
EXTENDS Integers, SequencesExt

CONSTANTS Items, Cap,
          Value(_)   \* what the sorting of a list compares

VARIABLES line, part, ans

NULL == 0

Init == line = <<>> /\ part = <<>> /\ ans = <<>>

-----------------------------------------------------------------------------
(* Stacks and queues.                                                      *)

Add(op, x) ==
  \/ ans' = <<op, x, 0>> /\ line' = Append(line, x)
  \/ ans' = <<op, x, -1>> /\ Len(line) >= Cap /\ UNCHANGED line

Pop == line # <<>> /\ ans' = <<"pop", 0, Last(line)>> /\ line' = Front(line)

Dequeue ==
  \/ line # <<>> /\ ans' = <<"dequeue", 0, Head(line)>> /\ line' = Tail(line)
  \/ line = <<>> /\ ans' = <<"dequeue", 0, NULL>> /\ UNCHANGED line

\* The item that comes off next, the smallest, and the number of items.
Show ==
  /\ \/ ans' = <<"top", 0, IF line = <<>> THEN NULL ELSE Last(line)>>
     \/ ans' = <<"front", 0, IF line = <<>> THEN NULL ELSE Head(line)>>
     \/ ans' = <<"min", 0, IF line = <<>> THEN 10000 ELSE Min(ToSet(line))>>
     \/ ans' = <<"length", 0, Len(line)>>
  /\ UNCHANGED line

Quit == ans' = <<"quit">>

-----------------------------------------------------------------------------
(* Lists.                                                                  *)

\* x becomes the i-th item.
Insert(i, x) == ans' = <<"insert", <<i, x>>, 0>> /\ line' = InsertAt(line, i, x)

\* The i-th item goes; the answer is the one behind it.
TakeOut(i) ==
  /\ ans' = <<"remove", i, IF i = Len(line) THEN NULL ELSE line[i + 1]>>
  /\ line' = RemoveAt(line, i)

\* The first item that equals x goes.
Delete(x) ==
  \/ x \in ToSet(line) /\ ans' = <<"delete", x, 0>> /\ line' = RemoveFirst(line, x)
  \/ x \notin ToSet(line) /\ ans' = <<"delete", x, -1>> /\ UNCHANGED line

\* The i-th item, from the end when i is negative.
Nth(i) ==
  LET at == IF i > 0 THEN i ELSE Len(line) + 1 + i
  IN  ans' = <<"nth", i, IF at \in DOMAIN line THEN line[at] ELSE NULL>> /\ UNCHANGED line

TurnRound == ans' = <<"reverse", 0, 0>> /\ line' = Reverse(line)

Place(x) == SelectInSeq(line, LAMBDA y : y = x)

\* Equal items keep their order.
Sort ==
  /\ ans' = <<"sort", 0, 0>>
  /\ Len(line') = Len(line) /\ ToSet(line') = ToSet(line)
  /\ \A i, j \in DOMAIN line' : i < j =>
       \/ Value(line'[i]) < Value(line'[j])
       \/ Value(line'[i]) = Value(line'[j]) /\ Place(line'[i]) < Place(line'[j])

\* x comes behind every item that is not larger.
InsertOrdered(x) ==
  /\ ans' = <<"ordered", x, 0>>
  /\ \E i \in 1 .. Len(line) + 1 :
       /\ line' = InsertAt(line, i, x)
       /\ \A j \in DOMAIN line : (j < i) <=> Value(line[j]) <= Value(x)

\* An item that equals the one before it moves to the end of the other list.
Unique ==
  LET first == {i \in DOMAIN line : i = 1 \/ Value(line[i]) # Value(line[i - 1])}
      Those(set) == [k \in 1 .. Cardinality(set) |->
                       line[CHOOSE i \in set : Cardinality({j \in set : j < i}) = k - 1]]
  IN  /\ ans' = <<"unique", 0, 0>>
      /\ line' = Those(first) /\ part' = part \o Those(DOMAIN line \ first)

\* The first of the largest items and the first of the smallest.
Extreme ==
  /\ \E i \in DOMAIN line :
       \/ /\ ans' = <<"largest", 0, line[i]>>
          /\ \A j \in DOMAIN line : Value(line[j]) < Value(line[i]) + (IF j < i THEN 0 ELSE 1)
       \/ /\ ans' = <<"smallest", 0, line[i]>>
          /\ \A j \in DOMAIN line : Value(line[i]) < Value(line[j]) + (IF j < i THEN 0 ELSE 1)
  /\ UNCHANGED line

\* Items i to j leave the list and become the other one.
Cut(i, j) ==
  /\ ans' = <<"cut", <<i, j>>, 0>>
  /\ part' = SubSeq(line, i, j)
  /\ line' = SubSeq(line, 1, i - 1) \o SubSeq(line, j + 1, Len(line))

\* The other list from its f-th item to before its e-th goes behind the i-th item.
Paste(i, f, e) ==
  /\ ans' = <<"paste", <<i, f, e>>, 0>>
  /\ line' = SubSeq(line, 1, i) \o SubSeq(part, f, e - 1) \o SubSeq(line, i + 1, Len(line))
  /\ part' = SubSeq(part, 1, f - 1) \o SubSeq(part, e, Len(part))

-----------------------------------------------------------------------------

Next ==
  \/ /\ UNCHANGED part
     /\ \/ \E x \in Items : Add("push", x) \/ Add("enqueue", x) \/ Delete(x) \/ InsertOrdered(x)
        \/ Pop \/ Dequeue \/ Show \/ TurnRound \/ Sort \/ Extreme
        \/ \E i \in 1 .. Len(line) + 1, x \in Items : Insert(i, x)
        \/ \E i \in DOMAIN line : TakeOut(i)
        \/ \E i \in -Len(line) - 1 .. Len(line) + 1 : Nth(i)
  \/ Unique
  \/ \E i, j \in DOMAIN line : i <= j /\ Cut(i, j)
  \/ \E i \in 0 .. Len(line), f, e \in 1 .. Len(part) + 1 : f <= e /\ Paste(i, f, e)
  \/ Quit
=============================================================================
