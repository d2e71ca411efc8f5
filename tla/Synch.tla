------------------------------- MODULE Synch -------------------------------
(***************************************************************************)
(* Locks and condition variables of threads/synch.c: a monitor made of one *)
(* lock and its condition variables, used by any number of threads in any  *)
(* order that the callers' rules allow.  They are built on semaphores, of  *)
(* which only the promise of module Semaphore is used.                     *)
(*                                                                         *)
(* Interrupts are on between the steps: a thread can be preempted after    *)
(* every access to the holder, to a waiters list and to a semaphore.       *)
(***************************************************************************)
EXTENDS Integers, Sequences, Functions

CONSTANTS Thread, Lock, Cond, NULL

ASSUME MonitorAssumption == Lock \notin Thread /\ NULL \notin Thread \cup {Lock} \cup Cond

VARIABLES value,      \* lock.semaphore, and each thread's waiter.semaphore
          downing,    \* the semaphore a thread sleeps for
          holder,     \* lock.holder
          waiters,    \* condition.waiters: whose semaphore_elem is on it
          popped,     \* the semaphore_elem a signaller has just taken off
          casting,    \* the condition a thread is broadcasting
          pc

vars == <<value, downing, holder, waiters, popped, casting, pc>>

S == INSTANCE Semaphore WITH Sema <- Thread \cup {Lock}

\* out: without the lock; in: between two calls with the lock; acquire: in
\* lock_acquire() before its sema_down() returns; hold: before it sets the
\* holder; up, wait_up: before lock_release()'s sema_up(), the second one
\* in cond_wait(), which reaches it from wait_release; wait_down: before
\* cond_wait()'s sema_down() returns; signal_up: before cond_signal()'s
\* sema_up(); broadcast: at the loop of cond_broadcast().
PC == {"out", "acquire", "hold", "in", "up", "wait_release", "wait_up", "wait_down",
       "signal_up", "broadcast"}

Init ==
  /\ value = [s \in Thread \cup {Lock} |-> IF s = Lock THEN 1 ELSE 0]
  /\ downing = [t \in Thread |-> NULL]
  /\ holder = NULL
  /\ waiters = [c \in Cond |-> << >>]
  /\ popped = [t \in Thread |-> NULL]
  /\ casting = [t \in Thread |-> NULL]
  /\ pc = [t \in Thread |-> "out"]

-----------------------------------------------------------------------------

At(t, p) == pc[t] = p
Goto(t, p) == pc' = [pc EXCEPT ![t] = p]

LockAcquire(t) ==
  /\ At(t, "out")
  /\ Goto(t, "acquire")
  /\ UNCHANGED <<value, downing, holder, waiters, popped, casting>>

\* Mutant: a thread that sleeps for the lock does not look at it again.
AcquireDownNoRetry(t) ==
  /\ At(t, "acquire")
  /\ downing[t] = NULL
  /\ \/ S!Wait(t, Lock) /\ UNCHANGED pc
     \/ S!Down(t, Lock) /\ Goto(t, "hold")
  /\ UNCHANGED <<holder, waiters, popped, casting>>

AcquireDown(t) ==
  /\ At(t, "acquire")
  /\ \/ S!Wait(t, Lock) /\ downing[t] = NULL /\ UNCHANGED pc
     \/ S!Down(t, Lock) /\ Goto(t, "hold")
  /\ UNCHANGED <<holder, waiters, popped, casting>>

LockTryAcquire(t) ==
  /\ At(t, "out")
  /\ S!Down(t, Lock)
  /\ Goto(t, "hold")
  /\ UNCHANGED <<holder, waiters, popped, casting>>

SetHolder(t) ==
  /\ At(t, "hold")
  /\ holder' = t
  /\ Goto(t, "in")
  /\ UNCHANGED <<value, downing, waiters, popped, casting>>

\* lock_release() up to its sema_up(), called by a client or by cond_wait().
LockRelease(t) ==
  /\ \/ At(t, "in") /\ Goto(t, "up")
     \/ At(t, "wait_release") /\ Goto(t, "wait_up")
  /\ holder' = NULL
  /\ UNCHANGED <<value, downing, waiters, popped, casting>>

ReleaseUp(t) ==
  /\ \/ At(t, "up") /\ Goto(t, "out")
     \/ At(t, "wait_up") /\ Goto(t, "wait_down")
  /\ S!Up(Lock)
  /\ UNCHANGED <<holder, waiters, popped, casting>>

-----------------------------------------------------------------------------

\* cond_wait() up to lock_release(): the semaphore_elem on the thread's stack
\* is initialised and queued.
CondWait(t, c) ==
  /\ At(t, "in")
  /\ value' = [value EXCEPT ![t] = 0]
  /\ waiters' = [waiters EXCEPT ![c] = Append(@, t)]
  /\ Goto(t, "wait_release")
  /\ UNCHANGED <<downing, holder, popped, casting>>

\* Mutant: cond_wait() initialises its semaphore after it releases the lock.
WaitDownLateInit(t) ==
  /\ At(t, "wait_down")
  /\ \/ /\ downing[t] = NULL
        /\ value' = [value EXCEPT ![t] = 0]
        /\ downing' = [downing EXCEPT ![t] = t]
        /\ UNCHANGED pc
     \/ downing[t] = t /\ S!Down(t, t) /\ Goto(t, "acquire")
  /\ UNCHANGED <<holder, waiters, popped, casting>>

\* Mutant: cond_wait() sleeps on the lock's semaphore.
WaitDownOnLock(t) ==
  /\ At(t, "wait_down")
  /\ \/ S!Wait(t, Lock) /\ downing[t] = NULL /\ UNCHANGED pc
     \/ S!Down(t, Lock) /\ Goto(t, "hold")
  /\ UNCHANGED <<holder, waiters, popped, casting>>

\* cond_wait()'s sema_down() on its own semaphore; then lock_acquire().
WaitDown(t) ==
  /\ At(t, "wait_down")
  /\ \/ S!Wait(t, t) /\ downing[t] = NULL /\ UNCHANGED pc
     \/ S!Down(t, t) /\ Goto(t, "acquire")
  /\ UNCHANGED <<holder, waiters, popped, casting>>

Pop(t, c) ==
  /\ waiters[c] # << >>
  /\ popped' = [popped EXCEPT ![t] = Head(waiters[c])]
  /\ waiters' = [waiters EXCEPT ![c] = Tail(@)]
  /\ Goto(t, "signal_up")

CondSignal(t, c) ==
  /\ At(t, "in")
  /\ Pop(t, c)
  /\ UNCHANGED <<value, downing, holder, casting>>

SignalUp(t) ==
  /\ At(t, "signal_up")
  /\ S!Up(popped[t])
  /\ popped' = [popped EXCEPT ![t] = NULL]
  /\ Goto(t, IF casting[t] = NULL THEN "in" ELSE "broadcast")
  /\ UNCHANGED <<holder, waiters, casting>>

CondBroadcast(t, c) ==
  /\ At(t, "in")
  /\ casting' = [casting EXCEPT ![t] = c]
  /\ Goto(t, "broadcast")
  /\ UNCHANGED <<value, downing, holder, waiters, popped>>

BroadcastLoop(t) ==
  /\ At(t, "broadcast")
  /\ \/ Pop(t, casting[t]) /\ UNCHANGED casting
     \/ /\ waiters[casting[t]] = << >>
        /\ casting' = [casting EXCEPT ![t] = NULL]
        /\ Goto(t, "in")
        /\ UNCHANGED <<popped, waiters>>
  /\ UNCHANGED <<value, downing, holder>>

-----------------------------------------------------------------------------

\* What a thread chooses to call, and what it does on its own inside a call.
Call(t) ==
  \/ LockAcquire(t) \/ LockTryAcquire(t)
  \/ At(t, "in") /\ LockRelease(t)
  \/ \E c \in Cond : CondWait(t, c) \/ CondSignal(t, c) \/ CondBroadcast(t, c)

Step(t) ==
  \/ AcquireDown(t) \/ SetHolder(t) \/ ReleaseUp(t)
  \/ At(t, "wait_release") /\ LockRelease(t)
  \/ WaitDown(t) \/ SignalUp(t) \/ BroadcastLoop(t)

Next == \E t \in Thread : Call(t) \/ Step(t)

Spec == Init /\ [][Next]_vars

-----------------------------------------------------------------------------
(* Properties. *)

\* Between sema_down()'s return and sema_up() on the lock's semaphore.
Section == {"hold", "in", "up", "wait_release", "wait_up", "signal_up", "broadcast"}

Queued(t) == \E c \in Cond : t \in Range(waiters[c])
Popped(t) == \E u \in Thread : popped[u] = t
Waiting(t) == pc[t] \in {"wait_release", "wait_up", "wait_down"}

\* No semaphore is taken below 0, and the lists and fields name threads.
TypeOK ==
  /\ value \in [Thread \cup {Lock} -> Nat]
  /\ downing \in [Thread -> Thread \cup {Lock, NULL}]
  /\ holder \in Thread \cup {NULL}
  /\ waiters \in [Cond -> Seq(Thread)]
  /\ popped \in [Thread -> Thread \cup {NULL}]
  /\ casting \in [Thread -> Cond \cup {NULL}]
  /\ pc \in [Thread -> PC]

\* lock_init(): "A lock can be held by at most a single thread at any given
\* time", from the return of sema_down() to sema_up(), also while the holder
\* field does not say so yet or any more.
MutualExclusion ==
  \A t, u \in Thread : pc[t] \in Section /\ pc[u] \in Section => t = u

\* The ASSERTs on lock_held_by_current_thread(): a thread between two calls
\* with the lock, or signalling, is the holder (lock_release(), cond_wait(),
\* cond_signal()), and one about to acquire it is not (lock_acquire(), also
\* the one cond_wait() makes).
HolderIsRight ==
  \A t \in Thread :
    holder = t <=> pc[t] \in {"in", "wait_release", "signal_up", "broadcast"}

\* The semaphore_elem of a waiter lives on its stack.  As long as a list
\* holds it or a signaller has taken it off and is about to up it, its owner
\* has not left cond_wait()'s sema_down(), and it is in one place only.
ElemOutlivesWait ==
  \A t \in Thread :
    /\ Queued(t) \/ Popped(t) => Waiting(t)
    /\ ~ (Queued(t) /\ Popped(t))
    /\ \A c, d \in Cond :
         t \in Range(waiters[c]) /\ t \in Range(waiters[d]) => c = d
    /\ \A c \in Cond : IsInjective(waiters[c])
    /\ \A u, v \in Thread : popped[u] = t /\ popped[v] = t => u = v

\* cond_wait(): it "atomically releases LOCK and waits".  A thread in it is
\* on the list, or being signalled, or has its signal: none is lost between
\* the release of the lock and the sleep, and none comes twice.
NoLostSignal ==
  \A t \in Thread :
    value[t] = IF Waiting(t) /\ ~ Queued(t) /\ ~ Popped(t) THEN 1 ELSE 0

\* The lock's semaphore is binary and down while some thread is in the
\* section.
LockInv ==
  /\ value[Lock] \in {0, 1}
  /\ value[Lock] = 1 => \A t \in Thread : pc[t] \notin Section

\* A thread has an element in its hands exactly while it is about to up it,
\* and knows the condition it broadcasts.
SignalInv ==
  \A t \in Thread :
    /\ popped[t] # NULL <=> pc[t] = "signal_up"
    /\ pc[t] = "broadcast" => casting[t] # NULL

\* The safety properties together with what makes them inductive: how the
\* lock's semaphore and the signallers' local variables go with the threads'
\* places in the code.
MonitorInv ==
  /\ TypeOK /\ LockInv /\ SignalInv
  /\ MutualExclusion /\ HolderIsRight
  /\ ElemOutlivesWait /\ NoLostSignal

-----------------------------------------------------------------------------
(* Liveness. *)

\* Threads shows that a thread that can run does run.
Fairness == \A t \in Thread : WF_vars(Step(t))

FairSpec == Spec /\ Fairness

\* A signalled thread gets out of its sleep, whatever happens to the lock.
SignalledWakes == \A t \in Thread : value[t] > 0 ~> pc[t] = "acquire"

\* A free lock that is wanted is taken by someone.
LockIsTaken ==
  (value[Lock] > 0 /\ \E t \in Thread : pc[t] = "acquire") ~> holder # NULL
=============================================================================
