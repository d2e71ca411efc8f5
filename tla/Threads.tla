------------------------------- MODULE Threads -------------------------------
(***************************************************************************)
(* Pintos kernel threads on one CPU: the scheduler and thread life cycle   *)
(* of threads/thread.c, the semaphores of threads/synch.c, and preemption  *)
(* by the timer through threads/interrupt.c.                               *)
(*                                                                         *)
(* A step is a stretch of code that runs with interrupts off, or one       *)
(* access to shared data made with interrupts on.  Only the thread `cur'   *)
(* (the owner of the stack the CPU is on) takes steps; the timer and the   *)
(* devices interrupt it wherever its interrupts are on.  A thread of the   *)
(* kernel may call any of the operations in any order.                     *)
(***************************************************************************)
EXTENDS Integers, Sequences, FiniteSets, Functions

CONSTANTS Thread,        \* the pages that can hold a struct thread
          Main,          \* initial_thread, whose page is not from palloc
          Sema,          \* the semaphores
          IdleStarted,   \* thread_start()'s semaphore
          TidLock,       \* the semaphore inside tid_lock
          TIME_SLICE,    \* timer ticks to give each thread
          NULL,
          MaxValue,      \* bound: no client ups a semaphore beyond this
          MaxTid         \* bound: the last tid handed out

ASSUME ThreadAssumption == Main \in Thread /\ NULL \notin Thread
ASSUME MemoryAssumption == IsFiniteSet(Thread)
ASSUME SemaAssumption ==
  /\ IdleStarted \in Sema /\ TidLock \in Sema
  /\ IdleStarted # TidLock /\ NULL \notin Sema
ASSUME SliceAssumption == TIME_SLICE \in Nat \ {0}
ASSUME BoundAssumption == MaxValue \in Nat /\ MaxTid \in Nat

VARIABLES status,       \* thread.status; FREE is a page not in use
          ready_list,
          idle_thread,
          cur,          \* running_thread()
          thread_ticks,
          value,        \* semaphore.value
          waiters,      \* semaphore.waiters
          pc,           \* where each thread is, or will resume
          downing,      \* the semaphore a thread is inside sema_down() for
          newt,         \* the thread a caller of thread_create() is making
          tid,          \* the tid a thread gets: allocate_tid()'s local, then t->tid
          next_tid,
          tid_holder    \* tid_lock.holder

sched_vars == <<status, ready_list, cur, thread_ticks>>
sema_vars == <<value, waiters>>
tid_vars == <<tid, next_tid, tid_holder>>
vars == <<sched_vars, sema_vars, tid_vars, idle_thread, pc, downing, newt>>

Status == {"FREE", "BLOCKED", "READY", "RUNNING", "DYING"}

\* run: anywhere in a thread function; down: in sema_down() after its
\* thread_block(); the others are the points inside thread_start(), idle()
\* and thread_create() where an interrupt may come.
PC == {"run", "down", "thread_start", "start_down",
       "idle", "idle_up", "idle_loop", "hlt",
       "tid_acquire", "tid_hold", "tid_read", "tid_write",
       "tid_release", "tid_up", "create_unblock"}

Init ==
  /\ status = [t \in Thread |-> IF t = Main THEN "RUNNING" ELSE "FREE"]
  /\ ready_list = << >>
  /\ idle_thread = NULL
  /\ cur = Main
  /\ thread_ticks = 0
  /\ value = [s \in Sema |-> IF s = TidLock THEN 1 ELSE 0]
  /\ waiters = [s \in Sema |-> << >>]
  /\ pc = [t \in Thread |-> IF t = Main THEN "thread_start" ELSE "run"]
  /\ downing = [t \in Thread |-> NULL]
  /\ newt = [t \in Thread |-> NULL]
  /\ tid = [t \in Thread |-> IF t = Main THEN 1 ELSE 0]
  /\ next_tid = 2
  /\ tid_holder = NULL

-----------------------------------------------------------------------------
(* The scheduler. *)

At(p) == pc[cur] = p
Goto(p) == pc' = [pc EXCEPT ![cur] = p]

InterruptsOn == pc[cur] \notin {"thread_start", "down"}

\* schedule(), switch_threads() and schedule_tail(), from the status st and
\* the ready list rl that the caller has set up.
Schedule(st, rl) ==
  LET next == IF rl = << >> THEN idle_thread ELSE Head(rl)
  IN  /\ ready_list' = IF rl = << >> THEN rl ELSE Tail(rl)
      /\ cur' = next
      /\ status' = [t \in Thread |->
                      IF t = next THEN "RUNNING"
                      ELSE IF st[t] = "DYING" /\ t = cur /\ t # Main THEN "FREE"
                      ELSE st[t]]
      /\ thread_ticks' = 0

Block == Schedule([status EXCEPT ![cur] = "BLOCKED"], ready_list)

Unblock(t) ==
  /\ status' = [status EXCEPT ![t] = "READY"]
  /\ ready_list' = Append(ready_list, t)
  /\ UNCHANGED <<cur, thread_ticks>>

Yield ==
  Schedule([status EXCEPT ![cur] = "READY"],
           IF cur = idle_thread THEN ready_list ELSE Append(ready_list, cur))

-----------------------------------------------------------------------------
(* Semaphores. *)

\* Where a thread continues when sema_down() on s returns.
AfterDown(s) == IF s = TidLock THEN "tid_hold" ELSE "run"

\* One turn of sema_down()'s loop, up to its thread_block() or its return.
SemaDown(s) ==
  \/ /\ value[s] = 0
     /\ waiters' = [waiters EXCEPT ![s] = Append(@, cur)]
     /\ Block
     /\ Goto("down")
     /\ downing' = [downing EXCEPT ![cur] = s]
     /\ UNCHANGED value
  \/ /\ value[s] # 0
     /\ value' = [value EXCEPT ![s] = @ - 1]
     /\ Goto(AfterDown(s))
     /\ downing' = [downing EXCEPT ![cur] = NULL]
     /\ UNCHANGED <<sched_vars, waiters>>

\* Mutant: sema_up() wakes a waiter only when it raises the value from 0.
SemaUpWakesAtZero(s) ==
  /\ \/ /\ waiters[s] # << >> /\ value[s] = 0
        /\ Unblock(Head(waiters[s]))
        /\ waiters' = [waiters EXCEPT ![s] = Tail(@)]
     \/ /\ waiters[s] = << >> \/ value[s] # 0
        /\ UNCHANGED <<sched_vars, waiters>>
  /\ value' = [value EXCEPT ![s] = @ + 1]

SemaUp(s) ==
  /\ \/ /\ waiters[s] # << >>
        /\ Unblock(Head(waiters[s]))
        /\ waiters' = [waiters EXCEPT ![s] = Tail(@)]
     \/ /\ waiters[s] = << >>
        /\ UNCHANGED <<sched_vars, waiters>>
  /\ value' = [value EXCEPT ![s] = @ + 1]

ClientSema == Sema \ {IdleStarted, TidLock}

CallSemaDown(s) ==
  /\ At("run")
  /\ SemaDown(s)
  /\ UNCHANGED <<tid_vars, idle_thread, newt>>

\* Mutant: sema_down() with an if for its while.
ResumeSemaDownNoRecheck ==
  /\ At("down")
  /\ value' = [value EXCEPT ![downing[cur]] = @ - 1]
  /\ Goto(AfterDown(downing[cur]))
  /\ downing' = [downing EXCEPT ![cur] = NULL]
  /\ UNCHANGED <<sched_vars, waiters, tid_vars, idle_thread, newt>>

\* The thread wakes from thread_block() inside sema_down(), interrupts off.
ResumeSemaDown ==
  /\ At("down")
  /\ SemaDown(downing[cur])
  /\ UNCHANGED <<tid_vars, idle_thread, newt>>

CallSemaTryDown(s) ==
  /\ At("run")
  /\ value[s] > 0
  /\ value' = [value EXCEPT ![s] = @ - 1]
  /\ UNCHANGED <<sched_vars, waiters, tid_vars, idle_thread, pc, downing, newt>>

CallSemaUp(s) ==
  /\ At("run")
  /\ value[s] < MaxValue
  /\ SemaUp(s)
  /\ UNCHANGED <<tid_vars, idle_thread, pc, downing, newt>>

-----------------------------------------------------------------------------
(* Boot and the idle thread. *)

\* thread_start() up to intr_enable(): thread_create() of the idle thread
\* runs with interrupts off and finds tid_lock free.
ThreadStart(t) ==
  /\ At("thread_start")
  /\ status[t] = "FREE"
  /\ Unblock(t)
  /\ tid' = [tid EXCEPT ![t] = next_tid]
  /\ next_tid' = next_tid + 1
  /\ pc' = [pc EXCEPT ![cur] = "start_down", ![t] = "idle"]
  /\ UNCHANGED <<sema_vars, tid_holder, idle_thread, downing, newt>>

StartDown ==
  /\ At("start_down")
  /\ SemaDown(IdleStarted)
  /\ UNCHANGED <<tid_vars, idle_thread, newt>>

IdleEnter ==
  /\ At("idle")
  /\ idle_thread' = cur
  /\ Goto("idle_up")
  /\ UNCHANGED <<sched_vars, sema_vars, tid_vars, downing, newt>>

IdleUp ==
  /\ At("idle_up")
  /\ SemaUp(IdleStarted)
  /\ Goto("idle_loop")
  /\ UNCHANGED <<tid_vars, idle_thread, downing, newt>>

\* When it is scheduled again the idle thread executes sti; hlt.
IdleBlock ==
  /\ At("idle_loop")
  /\ Block
  /\ Goto("hlt")
  /\ UNCHANGED <<sema_vars, tid_vars, idle_thread, downing, newt>>

-----------------------------------------------------------------------------
(* Thread creation and exit. *)

\* Mutant: init_thread() makes the new thread ready.
ThreadCreateReady(t) ==
  /\ At("run")
  /\ status[t] = "FREE"
  /\ next_tid <= MaxTid
  /\ status' = [status EXCEPT ![t] = "READY"]
  /\ tid' = [tid EXCEPT ![t] = 0]
  /\ newt' = [newt EXCEPT ![cur] = t]
  /\ pc' = [pc EXCEPT ![cur] = "tid_acquire", ![t] = "run"]
  /\ UNCHANGED <<ready_list, cur, thread_ticks, sema_vars, next_tid,
                 tid_holder, idle_thread, downing>>

\* thread_create() up to allocate_tid(): palloc_get_page(), init_thread().
ThreadCreate(t) ==
  /\ At("run")
  /\ status[t] = "FREE"
  /\ next_tid <= MaxTid
  /\ status' = [status EXCEPT ![t] = "BLOCKED"]
  /\ tid' = [tid EXCEPT ![t] = 0]
  /\ newt' = [newt EXCEPT ![cur] = t]
  /\ pc' = [pc EXCEPT ![cur] = "tid_acquire", ![t] = "run"]
  /\ UNCHANGED <<ready_list, cur, thread_ticks, sema_vars, next_tid,
                 tid_holder, idle_thread, downing>>

\* Mutant: allocate_tid() without lock_acquire().
TidAcquireNoLock ==
  /\ At("tid_acquire")
  /\ Goto("tid_hold")
  /\ UNCHANGED <<sched_vars, sema_vars, tid_vars, idle_thread, downing, newt>>

TidAcquire ==
  /\ At("tid_acquire")
  /\ SemaDown(TidLock)
  /\ UNCHANGED <<tid_vars, idle_thread, newt>>

TidHold ==
  /\ At("tid_hold")
  /\ tid_holder' = cur
  /\ Goto("tid_read")
  /\ UNCHANGED <<sched_vars, sema_vars, tid, next_tid, idle_thread, downing, newt>>

\* next_tid++ is a load and a store; the value loaded becomes the tid.
TidRead ==
  /\ At("tid_read")
  /\ tid' = [tid EXCEPT ![newt[cur]] = next_tid]
  /\ Goto("tid_write")
  /\ UNCHANGED <<sched_vars, sema_vars, next_tid, tid_holder, idle_thread,
                 downing, newt>>

TidWrite ==
  /\ At("tid_write")
  /\ next_tid' = tid[newt[cur]] + 1
  /\ Goto("tid_release")
  /\ UNCHANGED <<sched_vars, sema_vars, tid, tid_holder, idle_thread, downing, newt>>

\* lock_release() clears the holder, then ups the semaphore.
TidRelease ==
  /\ At("tid_release")
  /\ tid_holder' = NULL
  /\ Goto("tid_up")
  /\ UNCHANGED <<sched_vars, sema_vars, tid, next_tid, idle_thread, downing, newt>>

TidUp ==
  /\ At("tid_up")
  /\ SemaUp(TidLock)
  /\ Goto("create_unblock")
  /\ UNCHANGED <<tid_vars, idle_thread, downing, newt>>

CreateUnblock ==
  /\ At("create_unblock")
  /\ Unblock(newt[cur])
  /\ newt' = [newt EXCEPT ![cur] = NULL]
  /\ Goto("run")
  /\ UNCHANGED <<sema_vars, tid_vars, idle_thread, downing>>

ThreadExit ==
  /\ At("run")
  /\ Schedule([status EXCEPT ![cur] = "DYING"], ready_list)
  /\ UNCHANGED <<sema_vars, tid_vars, idle_thread, pc, downing, newt>>

-----------------------------------------------------------------------------
(* Yielding and interrupts. *)

ThreadYield ==
  /\ At("run")
  /\ Yield
  /\ UNCHANGED <<sema_vars, tid_vars, idle_thread, pc, downing, newt>>

\* An interrupt ends the idle thread's hlt.
LeaveHlt == pc' = IF At("hlt") THEN [pc EXCEPT ![cur] = "idle_loop"] ELSE pc

\* Mutant: thread_tick() does not ask for a yield at the end of the slice.
TimerInterruptNoYield ==
  /\ InterruptsOn
  /\ LeaveHlt
  /\ thread_ticks' = IF thread_ticks + 1 < TIME_SLICE THEN thread_ticks + 1 ELSE 0
  /\ UNCHANGED <<status, ready_list, cur, sema_vars, tid_vars, idle_thread,
                 downing, newt>>

\* The timer's intr_handler(): thread_tick(), and thread_yield() on return
\* once the time slice is used up.
TimerInterrupt ==
  /\ InterruptsOn
  /\ LeaveHlt
  /\ \/ /\ thread_ticks + 1 >= TIME_SLICE
        /\ Yield
     \/ /\ thread_ticks + 1 < TIME_SLICE
        /\ thread_ticks' = thread_ticks + 1
        /\ UNCHANGED <<status, ready_list, cur>>
  /\ UNCHANGED <<sema_vars, tid_vars, idle_thread, downing, newt>>

\* Any other device's intr_handler(), whose handler ups a semaphore.
DeviceInterrupt(s) ==
  /\ InterruptsOn
  /\ value[s] < MaxValue
  /\ LeaveHlt
  /\ SemaUp(s)
  /\ UNCHANGED <<tid_vars, idle_thread, downing, newt>>

-----------------------------------------------------------------------------

Client ==
  \/ \E s \in ClientSema : CallSemaDown(s) \/ CallSemaTryDown(s) \/ CallSemaUp(s)
  \/ \E t \in Thread : ThreadCreate(t)
  \/ ThreadExit
  \/ ThreadYield

\* The steps a thread takes on its own once it is inside a kernel function.
Kernel ==
  \/ \E t \in Thread : ThreadStart(t)
  \/ StartDown \/ IdleEnter \/ IdleUp \/ IdleBlock
  \/ ResumeSemaDown
  \/ TidAcquire \/ TidHold \/ TidRead \/ TidWrite \/ TidRelease \/ TidUp
  \/ CreateUnblock

Interrupt ==
  \/ TimerInterrupt
  \/ \E s \in ClientSema : DeviceInterrupt(s)

Next == Client \/ Kernel \/ Interrupt

Spec == Init /\ [][Next]_vars

-----------------------------------------------------------------------------
(* Properties. *)

OnReadyList(t) == t \in Range(ready_list)
WaitsOn(t, s) == t \in Range(waiters[s])

\* Threads taken off the waiters of s whose sema_down() has yet to look at
\* the value again.
Woken(s) == {t \in Thread :
               status[t] \in {"READY", "RUNNING"} /\ pc[t] = "down" /\ downing[t] = s}

\* Every variable has its type.  cur \in Thread is also schedule()'s
\* ASSERT (is_thread (next)): there is always a thread to switch to, even
\* before idle_thread is set.
TypeOK ==
  /\ status \in [Thread -> Status]
  /\ ready_list \in Seq(Thread)
  /\ idle_thread \in Thread \cup {NULL}
  /\ cur \in Thread
  /\ thread_ticks \in 0 .. TIME_SLICE - 1
  /\ value \in [Sema -> Nat]
  /\ waiters \in [Sema -> Seq(Thread)]
  /\ pc \in [Thread -> PC]
  /\ downing \in [Thread -> Sema \cup {NULL}]
  /\ newt \in [Thread -> Thread \cup {NULL}]
  /\ tid \in [Thread -> Nat]
  /\ next_tid \in Nat
  /\ tid_holder \in Thread \cup {NULL}

\* thread.h: struct thread has one elem for the run queue and for every
\* wait list.  A thread is at most once on at most one of them, on the run
\* queue only when ready and on a wait list only when blocked inside
\* sema_down() on that semaphore.  With it go thread_current()'s and
\* thread_unblock()'s ASSERTs on the status.
ElemOnOneList ==
  /\ \A t \in Thread : status[t] = "RUNNING" <=> t = cur
  /\ IsInjective(ready_list)
  /\ \A t \in Range(ready_list) : status[t] = "READY"
  /\ \A s \in Sema : IsInjective(waiters[s])
  /\ \A s \in Sema : \A t \in Range(waiters[s]) :
       status[t] = "BLOCKED" /\ pc[t] = "down" /\ downing[t] = s

\* No thread is forgotten: a ready thread is on the run queue (or is the
\* idle thread, which next_thread_to_run() falls back to), and a blocked
\* one is on a wait list, or is the idle thread, or is still being made by
\* thread_create(), which will unblock it.
NoThreadForgotten ==
  \A t \in Thread :
    /\ status[t] = "READY" => OnReadyList(t) \/ t = idle_thread
    /\ status[t] = "BLOCKED" =>
         \/ \E s \in Sema : WaitsOn(t, s)
         \/ t = idle_thread
         \/ \E u \in Thread : newt[u] = t /\ status[u] \notin {"FREE", "DYING"}

\* idle()'s comment: once it has blocked for the first time the idle thread
\* never appears in the ready list; nor on any wait list.
IdleNeverQueued ==
  idle_thread # NULL =>
    ~ OnReadyList(idle_thread) /\ \A s \in Sema : ~ WaitsOn(idle_thread, s)

\* sema_up() wakes a thread before it increments the value, and the woken
\* thread may lose the value to another one.  Even so no wakeup is lost:
\* while threads wait on s, at least as many woken ones as there are units
\* in the value are still on their way to take them.
NoLostWakeup ==
  \A s \in Sema : waiters[s] # << >> => value[s] <= Cardinality(Woken(s))

\* allocate_tid(): two live threads never have the same tid, though next_tid
\* is read and written back in separate steps.
TidsUnique ==
  \A t, u \in Thread :
    /\ status[t] # "FREE" /\ status[u] # "FREE"
    /\ tid[t] # 0 /\ tid[t] = tid[u]
    => t = u

\* The semaphores keep the promise their callers rely on: seen through
\* value and downing, every step of the kernel is one of a counting
\* semaphore or none.
Promise == INSTANCE Semaphore
SemaphorePromise == Promise!Spec

-----------------------------------------------------------------------------
(* The inductive invariant behind the properties. *)

IdlePC == {"idle_up", "idle_loop", "hlt"}
TidSection == {"tid_hold", "tid_read", "tid_write", "tid_release", "tid_up"}
Creating == TidSection \cup {"tid_acquire", "create_unblock"}

\* What a thread's place in the code says about its state.
PcInv ==
  /\ \A t \in Thread :
       /\ downing[t] # NULL <=> pc[t] = "down"
       /\ newt[t] # NULL <=> pc[t] \in Creating \/ downing[t] = TidLock
       /\ status[t] \in {"FREE", "DYING"} => pc[t] = "run"
       /\ newt[t] # NULL => status[newt[t]] = "BLOCKED" /\ pc[newt[t]] = "run"
  /\ \A t, u \in Thread : newt[t] = newt[u] /\ newt[t] # NULL => t = u

\* There is something to run from boot on: until idle() has set idle_thread,
\* its thread is ready or running.
IdleInv ==
  /\ \A t \in Thread : pc[t] \in IdlePC <=> t = idle_thread
  /\ idle_thread \notin Range(ready_list)
  /\ idle_thread = NULL =>
       pc[Main] = "thread_start" \/ \E t \in Thread : pc[t] = "idle"
  /\ \A t \in Thread : pc[t] = "idle" =>
       idle_thread = NULL /\ status[t] \in {"READY", "RUNNING"}
  /\ \A t, u \in Thread : pc[t] = "idle" /\ pc[u] = "idle" => t = u
  /\ \A t \in Thread : pc[t] = "thread_start" =>
       /\ t = Main /\ cur = Main /\ idle_thread = NULL
       /\ \A u \in Thread : u # Main => status[u] = "FREE"

IInv == TypeOK /\ ElemOnOneList /\ NoThreadForgotten /\ PcInv /\ IdleInv

\* tid_lock as its semaphore implements it, and the tids it protects.
TidInv ==
  /\ value[TidLock] \in {0, 1}
  /\ \A t \in Thread : pc[t] \in TidSection => value[TidLock] = 0
  /\ \A t, u \in Thread : pc[t] \in TidSection /\ pc[u] \in TidSection => t = u
  /\ \A t \in Thread : status[t] # "FREE" =>
       \/ tid[t] < next_tid
       \/ \E u \in Thread : newt[u] = t /\ pc[u] = "tid_write"
  /\ \A t \in Thread : pc[t] = "tid_write" => tid[newt[t]] = next_tid
  /\ next_tid > 0
  /\ TidsUnique

-----------------------------------------------------------------------------
(* Liveness. *)

\* A thread inside a kernel function goes on.  The interrupt controller
\* latches the timer's interrupt, so it is delivered if interrupts are on
\* again and again; what a client does next is its own choice.
Fairness == WF_vars(Kernel) /\ SF_vars(TimerInterrupt)

FairSpec == Spec /\ Fairness

\* Preemption: a thread on the run queue gets the CPU, whatever the others do.
ReadyThreadRuns == \A t \in Thread : OnReadyList(t) ~> cur = t

\* A semaphore cannot stay positive with threads asleep on it.
WakeupReachesValue ==
  \A s \in Sema : (value[s] > 0 /\ waiters[s] # << >>)
                     ~> (value[s] = 0 \/ waiters[s] = << >>)
=============================================================================
