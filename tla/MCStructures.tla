---------------------------- MODULE MCStructures ----------------------------
(***************************************************************************)
(* Structures for TLC.  The scripts fill the balanced trees in ascending   *)
(* or descending order until they have several levels.  The characters are *)
(* 17, 18 and 33, so that halves of characters are shared in the tries.    *)
(* Neighbouring items are joined, nine of them, so that class trees of     *)
(* height three are met.                                                   *)
(***************************************************************************)
EXTENDS Structures

CONSTANTS ScriptLen, TableLen

Ascending(n) == [i \in 1 .. n |-> i]

Descending(n) == [i \in 1 .. n |-> n + 1 - i]

MCScripts(k) ==
  CASE k = "a_b" -> {<<>>, Ascending(ScriptLen), Descending(ScriptLen)}
    [] k \in {"h_bl", "w_bl"} -> {<<>>, Ascending(ScriptLen)}
    [] k = "k_hash" -> {<<>>, Ascending(TableLen)}
    [] OTHER -> {<<>>}

\* Ascending keys for the red-black tree.
RbScripts(k) == {Ascending(ScriptLen)}

MCKeys == 1 .. Max({ScriptLen, TableLen + 2})

MCSpell == << <<17, 18>>, <<17, 33>>, <<33>>, <<17, 18, 17>> >>

MCPairs == {<<i, i + 1>> : i \in 1 .. 8}
=============================================================================
