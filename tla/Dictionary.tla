----------------------------- MODULE Dictionary -----------------------------
(***************************************************************************)
(* The promise of a search structure, abstract: a function from the keys   *)
(* that are present to their objects.                                      *)
(***************************************************************************)
EXTENDS Integers, SequencesExt

CONSTANTS Keys, Object(_)

VARIABLES dict, ans

NULL == -1

Init == dict = <<>> /\ ans = <<>>

Lookup(k) == IF k \in DOMAIN dict THEN dict[k] ELSE NULL

\* The call op(k) is answered with r.
Answer(op, k, r) == ans' # <<>> /\ ans'[1] = op /\ ans'[2] = k /\ ans'[3] = r

\* A key that is there is refused.
Insert(k) ==
  \/ Answer("insert", k, -1) /\ k \in DOMAIN dict /\ UNCHANGED dict
  \/ /\ Answer("insert", k, 0) /\ k \notin DOMAIN dict
     /\ dict' = (k :> Object(k)) @@ dict

Find(k) == Answer("find", k, Lookup(k)) /\ UNCHANGED dict

Delete(k) ==
  /\ Answer("delete", k, Lookup(k))
  /\ dict' = Restrict(dict, DOMAIN dict \ {k})

\* The keys from a to before b, in order.
Interval(a, b) ==
  /\ Answer("range", <<a, b>>, SetToSortSeq({k \in DOMAIN dict : a <= k /\ k < b}, <))
  /\ UNCHANGED dict

\* Another object for the key; the answer is the old one.
Replace(k, o) ==
  Answer("replace", <<k, o>>, Lookup(k)) /\ dict' = (k :> o) @@ dict

Clear == Answer("clear", 0, 0) /\ dict' = <<>>

\* The number of keys; all keys in any order, each once.
Number == Answer("size", 0, Cardinality(DOMAIN dict)) /\ UNCHANGED dict

Visit ==
  /\ ans' # <<>> /\ ans'[1] \in {"apply", "iterate"}
  /\ IsInjective(ans'[3]) /\ ToSet(ans'[3]) = DOMAIN dict
  /\ UNCHANGED dict

Quit == ans' = <<"quit">> /\ dict' = <<>>

Next ==
  \/ \E k \in Keys : Insert(k) \/ Find(k) \/ Delete(k)
  \/ \E k \in Keys, sign \in {1, -1} : Replace(k, sign * Object(k))
  \/ \E a, b \in Keys : Interval(a, b)
  \/ Clear \/ Number \/ Visit \/ Quit

Spec == Init /\ [][Next]_<<dict, ans>>
=============================================================================
