------------------------------- MODULE Palloc -------------------------------
(***************************************************************************)
(* threads/palloc.c on lib/kernel/bitmap.c: threads get groups of pages    *)
(* from a pool and free them.                                              *)
(*                                                                         *)
(* The search for free pages and the marking of them happen under the      *)
(* pool's lock, bit after bit; freeing clears the bits one after another   *)
(* without the lock.  A thread can be preempted between any two bits.      *)
(***************************************************************************)
EXTENDS Integers, FiniteSets

CONSTANTS Thread, NULL,
          PageCnt,       \* pages in the pool
          MaxGroup       \* bound: the largest group asked for

\* What the constants have to be.
PoolAssumption ==
  NULL \notin Thread /\ PageCnt \in Nat \ {0} /\ MaxGroup \in Nat \ {0}

VARIABLES used_map,
          holder,        \* of the pool's lock
          groups,        \* history: the groups [start, cnt] callers have
          pc,
          group,         \* the group a thread looks for, marks or frees
          bit            \* how many bits of it are done

vars == <<used_map, holder, groups, pc, group, bit>>

Page == 0 .. PageCnt - 1
Group == [start : 0 .. PageCnt, cnt : 1 .. MaxGroup]
PagesOf(g) == g.start .. g.start + g.cnt - 1
NoGroup == [start |-> 0, cnt |-> 1]

Init ==
  /\ used_map = [p \in Page |-> FALSE]
  /\ holder = NULL
  /\ groups = {}
  /\ pc = [t \in Thread |-> "idle"]
  /\ group = [t \in Thread |-> NoGroup]
  /\ bit = [t \in Thread |-> 0]

-----------------------------------------------------------------------------

At(t, p) == pc[t] = p
Goto(t, p, g, b) ==
  /\ pc' = [pc EXCEPT ![t] = p]
  /\ group' = [group EXCEPT ![t] = g]
  /\ bit' = [bit EXCEPT ![t] = b]

\* palloc_get_multiple() up to its lock_acquire().
Get(t, cnt) ==
  /\ At(t, "idle")
  /\ Goto(t, "lock", [start |-> 0, cnt |-> cnt], 0)
  /\ UNCHANGED <<used_map, holder, groups>>

\* Mutant: the pool is searched without its lock.
LockPoolNoLock(t) ==
  /\ At(t, "lock")
  /\ holder' = t
  /\ Goto(t, "scan", group[t], 0)
  /\ UNCHANGED <<used_map, groups>>

LockPool(t) ==
  /\ At(t, "lock") /\ holder = NULL
  /\ holder' = t
  /\ Goto(t, "scan", group[t], 0)
  /\ UNCHANGED <<used_map, groups>>

\* bitmap_scan() tests one bit of the group it looks at.
Scan(t) ==
  LET g == group[t] IN
  /\ At(t, "scan")
  /\ \/ g.start + g.cnt > PageCnt /\ Goto(t, "unlock", g, 0)
     \/ /\ g.start + g.cnt <= PageCnt
        /\ IF used_map[g.start + bit[t]]
           THEN Goto(t, "scan", [g EXCEPT !.start = @ + 1], 0)
           ELSE IF bit[t] + 1 = g.cnt THEN Goto(t, "mark", g, 0)
           ELSE Goto(t, "scan", g, bit[t] + 1)
  /\ UNCHANGED <<used_map, holder, groups>>

\* bitmap_scan_and_flip() marks one bit of the group it has found.
Mark(t) ==
  LET g == group[t] IN
  /\ At(t, "mark")
  /\ used_map' = [used_map EXCEPT ![g.start + bit[t]] = TRUE]
  /\ Goto(t, IF bit[t] + 1 = g.cnt THEN "unlock" ELSE "mark", g, bit[t] + 1)
  /\ UNCHANGED <<holder, groups>>

\* lock_release(), and the call returns the group or a null pointer.
Unlock(t) ==
  /\ At(t, "unlock")
  /\ holder' = NULL
  /\ groups' = IF bit[t] = group[t].cnt THEN groups \cup {group[t]} ELSE groups
  /\ Goto(t, "idle", NoGroup, 0)
  /\ UNCHANGED used_map

\* palloc_free_multiple(), by any thread.
Free(t, g) ==
  /\ At(t, "idle")
  /\ groups' = groups \ {g}
  /\ Goto(t, "check", g, 0)
  /\ UNCHANGED <<used_map, holder>>

\* Its ASSERT on bitmap_all(); a bit that is clear halts the kernel.
Check(t) ==
  LET g == group[t] IN
  /\ At(t, "check")
  /\ IF used_map[g.start + bit[t]]
     THEN IF bit[t] + 1 = g.cnt THEN Goto(t, "clear", g, 0) ELSE Goto(t, "check", g, bit[t] + 1)
     ELSE Goto(t, "failed", g, bit[t])
  /\ UNCHANGED <<used_map, holder, groups>>

\* bitmap_set_multiple() clears one bit.
Clear(t) ==
  LET g == group[t] IN
  /\ At(t, "clear")
  /\ used_map' = [used_map EXCEPT ![g.start + bit[t]] = FALSE]
  /\ Goto(t, IF bit[t] + 1 = g.cnt THEN "idle" ELSE "clear",
             IF bit[t] + 1 = g.cnt THEN NoGroup ELSE g, (bit[t] + 1) % g.cnt)
  /\ UNCHANGED <<holder, groups>>

Step(t) ==
  LockPool(t) \/ Scan(t) \/ Mark(t) \/ Unlock(t) \/ Check(t) \/ Clear(t)

Next ==
  \E t \in Thread :
    \/ \E cnt \in 1 .. MaxGroup : Get(t, cnt)
    \/ \E g \in groups : Free(t, g)
    \/ Step(t)

Spec == Init /\ [][Next]_vars

-----------------------------------------------------------------------------
(* Properties. *)

\* A group that somebody has lies inside the pool.
TypeOK ==
  /\ used_map \in [Page -> BOOLEAN]
  /\ holder \in Thread \cup {NULL}
  /\ groups \subseteq {g \in Group : PagesOf(g) \subseteq Page}
  /\ pc \in [Thread -> {"idle", "lock", "scan", "mark", "unlock", "check", "clear", "failed"}]
  /\ group \in [Thread -> Group]
  /\ bit \in [Thread -> 0 .. MaxGroup]

\* The pages a thread inside a call has a claim to: those it has marked, or
\* is freeing and has not cleared yet.
Claim(t) ==
  LET g == group[t]
      from == IF pc[t] = "clear" THEN bit[t] ELSE 0
      to == IF pc[t] \in {"mark", "unlock"} THEN bit[t] ELSE g.cnt
  IN IF pc[t] \in {"mark", "unlock", "check", "clear", "failed"}
     THEN g.start + from .. g.start + to - 1 ELSE {}

\* No page is handed out twice, although a group is searched and marked bit
\* by bit while others free theirs without the lock.
NoSharing ==
  /\ TypeOK
  /\ \A g, h \in groups : g # h => PagesOf(g) \cap PagesOf(h) = {}
  /\ \A t \in Thread, g \in groups : Claim(t) \cap PagesOf(g) = {}
  /\ \A t, u \in Thread : t # u => Claim(t) \cap Claim(u) = {}

\* The bitmap is right: a page is marked exactly if somebody has it or has a
\* claim to it.  None leaks, none that is in use can be found free, and
\* palloc_free_multiple()'s ASSERT on bitmap_all() holds.
BitmapIsRight ==
  /\ \A t \in Thread : pc[t] # "failed"
  /\ \A p \in Page :
       used_map[p] <=> (\E g \in groups : p \in PagesOf(g)) \/ (\E t \in Thread : p \in Claim(t))
=============================================================================
