------------------------------ MODULE MCSynch ------------------------------
(***************************************************************************)
(* Synch and the liveness of Threads for TLC.  One of them runs at a time: *)
(* `system` is chosen in the initial state and the variables of the other  *)
(* keep their initial values.  Synch has one lock, two condition variables *)
(* and four users, Threads four pages.  Liveness is checked along with     *)
(* safety, so the threads are not permuted.                                *)
(***************************************************************************)
EXTENDS Synch

CONSTANTS Page, Main, Sema, IdleStarted, TidLock, TIME_SLICE, MaxValue, MaxTid

VARIABLES system, status, ready_list, idle_thread, cur, thread_ticks, semaphore, sleepers,
          at, down, newt, tid, next_tid, tid_holder

TH == INSTANCE Threads WITH Thread <- Page, value <- semaphore, waiters <- sleepers, pc <- at,
                            downing <- down

threadVars == <<status, ready_list, idle_thread, cur, thread_ticks, semaphore, sleepers, at,
                down, newt, tid, next_tid, tid_holder>>
allVars == <<system, vars, threadVars>>

LiveInit == system \in {"monitor", "threads"} /\ Init /\ TH!Init

Monitor(A) == system = "monitor" /\ A /\ UNCHANGED <<system, threadVars>>
CPU(A) == system = "threads" /\ A /\ UNCHANGED <<system, vars>>

\* The fairness of Synch!FairSpec and Threads!FairSpec.
LiveSpec ==
  /\ LiveInit /\ [][Monitor(Next) \/ CPU(TH!Next)]_allVars
  /\ \A t \in Thread : WF_allVars(Monitor(Step(t)))
  /\ WF_allVars(CPU(TH!Kernel)) /\ SF_allVars(CPU(TH!TimerInterrupt))

\* Preemption: a thread on the run queue gets the CPU, whatever the others do.
ReadyThreadRuns == TH!ReadyThreadRuns

\* A semaphore cannot stay positive with threads asleep on it.
WakeupReachesValue == TH!WakeupReachesValue
=============================================================================
