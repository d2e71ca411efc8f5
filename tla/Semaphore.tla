----------------------------- MODULE Semaphore -----------------------------
(***************************************************************************)
(* What the counting semaphores of threads/synch.c promise their callers,  *)
(* whatever the scheduler does: sema_down() returns only by taking one     *)
(* unit off a positive value, and sema_up() adds one.  Which of several    *)
(* threads inside sema_down() takes the unit is left open, as it is in the *)
(* code, where a thread that was not waiting may be faster.                *)
(***************************************************************************)
EXTENDS Integers

CONSTANTS Thread, Sema, NULL

VARIABLES value,
          downing      \* the semaphore a thread sleeps for in sema_down()

\* sema_down() finds the value 0; the thread sleeps.
Wait(t, s) ==
  /\ downing[t] \in {NULL, s}
  /\ value[s] = 0
  /\ downing' = [downing EXCEPT ![t] = s]
  /\ UNCHANGED value

\* sema_down() takes a unit and returns, at once or after a sleep;
\* sema_try_down() likewise.
Down(t, s) ==
  /\ downing[t] \in {NULL, s}
  /\ value[s] > 0
  /\ value' = [value EXCEPT ![s] = @ - 1]
  /\ downing' = [downing EXCEPT ![t] = NULL]

Up(s) ==
  /\ value' = [value EXCEPT ![s] = @ + 1]
  /\ UNCHANGED downing

Init ==
  /\ value \in [Sema -> Nat]
  /\ downing = [t \in Thread |-> NULL]

Next ==
  \E s \in Sema :
    \/ Up(s)
    \/ \E t \in Thread : Wait(t, s) \/ Down(t, s)

Spec == Init /\ [][Next]_<<value, downing>>
=============================================================================
