----------------------------- MODULE SynchProofs -----------------------------
(***************************************************************************)
(* Proofs about Synch, for any number of threads and condition variables:  *)
(* the lock excludes, its holder field is right, the elements of waiting   *)
(* threads outlive their use, and no signal is lost.                       *)
(***************************************************************************)
EXTENDS Synch, QueueLemmas

\* What concerns the lock, and what concerns the condition variables.
LockPart == TypeOK /\ LockInv /\ SignalInv /\ MutualExclusion /\ HolderIsRight
CondPart == ElemOutlivesWait /\ NoLostSignal

-----------------------------------------------------------------------------
(* The lock. *)

\* lock_acquire() up to its sema_down().
LEMMA LockAcquireLock ==
  ASSUME LockPart, NEW t \in Thread, LockAcquire(t)
  PROVE  LockPart'
BY MonitorAssumption
   DEF LockPart, TypeOK, LockInv, SignalInv, MutualExclusion, HolderIsRight, PC, Section,
       LockAcquire, At, Goto

\* sema_down() on the lock's semaphore takes the unit that keeps all other
\* threads out.
LEMMA TakeLock ==
  ASSUME LockPart, NEW t \in Thread, pc[t] \in {"out", "acquire"},
         S!Down(t, Lock), Goto(t, "hold"), UNCHANGED <<holder, waiters, popped, casting>>
  PROVE  LockPart'
<1>1. value[Lock] = 1 /\ value'[Lock] = 0 /\ \A u \in Thread : pc[u] \notin Section
  BY DEF LockPart, TypeOK, LockInv, S!Down
<1>2. TypeOK'
  BY <1>1 DEF LockPart, TypeOK, PC, S!Down, Goto
<1> QED
  BY <1>1, <1>2, MonitorAssumption
     DEF LockPart, TypeOK, LockInv, SignalInv, MutualExclusion, HolderIsRight, Section, Goto

\* sema_down() that finds the semaphore 0.
LEMMA SleepLock ==
  ASSUME LockPart, NEW t \in Thread, NEW s \in Thread \cup {Lock},
         S!Wait(t, s), UNCHANGED <<holder, waiters, popped, casting, pc>>
  PROVE  LockPart'
<1>1. TypeOK'
  BY DEF LockPart, TypeOK, S!Wait
<1> QED
  BY <1>1
     DEF LockPart, LockInv, SignalInv, MutualExclusion, HolderIsRight, S!Wait

\* A thread in the section becomes the holder.
LEMMA SetHolderLock ==
  ASSUME LockPart, NEW t \in Thread, SetHolder(t)
  PROVE  LockPart'
<1>1. TypeOK'
  BY DEF LockPart, TypeOK, PC, SetHolder, Goto
<1>2. \A u \in Thread : u # t => pc[u] \notin Section
  BY DEF LockPart, MutualExclusion, SetHolder, At, Section
<1> QED
  BY <1>1, <1>2, MonitorAssumption
     DEF LockPart, TypeOK, LockInv, SignalInv, MutualExclusion, HolderIsRight, Section,
         SetHolder, At, Goto

\* lock_release() clears the holder.
LEMMA LockReleaseLock ==
  ASSUME LockPart, NEW t \in Thread, LockRelease(t)
  PROVE  LockPart'
<1>1. TypeOK'
  BY Zenon DEF LockPart, TypeOK, PC, LockRelease, Goto
<1>2. \A u \in Thread : u # t => pc[u] \notin Section
  BY DEF LockPart, MutualExclusion, LockRelease, At, Section
<1>3. PICK p \in {"up", "wait_up"} : pc' = [pc EXCEPT ![t] = p]
  BY DEF LockRelease, Goto
<1>4. pc[t] \in {"in", "wait_release"}
  BY DEF LockRelease, At
<1>5. LockInv' /\ MutualExclusion'
  BY <1>2, <1>3, <1>4 DEF LockPart, TypeOK, LockInv, MutualExclusion, Section, LockRelease
<1>6. SignalInv'
  BY <1>3, <1>4 DEF LockPart, TypeOK, SignalInv, LockRelease
<1>7. HolderIsRight'
  BY <1>2, <1>3, <1>4, MonitorAssumption
     DEF LockPart, TypeOK, HolderIsRight, Section, LockRelease
<1> QED BY <1>1, <1>5, <1>6, <1>7 DEF LockPart

\* lock_release()'s sema_up(): the thread that leaves was the only one.
LEMMA ReleaseUpLock ==
  ASSUME LockPart, NEW t \in Thread, ReleaseUp(t)
  PROVE  LockPart'
<1>1. \A u \in Thread : u # t => pc[u] \notin Section
  BY DEF LockPart, MutualExclusion, ReleaseUp, At, Section
<1>2. value[Lock] = 0
  BY DEF LockPart, LockInv, ReleaseUp, At, Section
<1>3. TypeOK'
  <2>1. value' \in [Thread \cup {Lock} -> Nat]
    BY DEF LockPart, TypeOK, ReleaseUp, S!Up
  <2>2. pc' \in [Thread -> PC]
    BY SMTT(30) DEF LockPart, TypeOK, PC, ReleaseUp, Goto
  <2> QED BY <2>1, <2>2 DEF LockPart, TypeOK, ReleaseUp, S!Up
<1>4. value'[Lock] = 1
  BY <1>2 DEF LockPart, TypeOK, ReleaseUp, S!Up
<1>5. /\ pc'[t] \in {"out", "wait_down"} /\ pc[t] \in {"up", "wait_up"}
      /\ \A u \in Thread : u # t => pc'[u] = pc[u]
  BY DEF LockPart, TypeOK, ReleaseUp, At, Goto
<1>6. \A u \in Thread : pc'[u] \notin Section
  BY <1>1, <1>5 DEF Section
<1>7. LockInv' /\ MutualExclusion'
  BY <1>4, <1>6 DEF LockInv, MutualExclusion
<1>8. holder' = holder /\ popped' = popped /\ casting' = casting
  BY DEF ReleaseUp
<1>9. SignalInv'
  BY <1>5, <1>8 DEF LockPart, SignalInv
<1>10. HolderIsRight'
  BY <1>5, <1>8 DEF LockPart, HolderIsRight
<1> QED BY <1>3, <1>7, <1>9, <1>10 DEF LockPart

\* cond_wait() joins the list.
LEMMA CondWaitLock ==
  ASSUME LockPart, NEW t \in Thread, NEW c \in Cond, CondWait(t, c)
  PROVE  LockPart'
<1>1. TypeOK'
  <2>1. Append(waiters[c], t) \in Seq(Thread)
    BY AppendElems DEF LockPart, TypeOK
  <2> QED BY <2>1 DEF LockPart, TypeOK, PC, CondWait, Goto
<1>2. value'[Lock] = value[Lock]
  BY MonitorAssumption DEF LockPart, TypeOK, CondWait
<1> QED
  BY <1>1, <1>2, MonitorAssumption
     DEF LockPart, TypeOK, LockInv, SignalInv, MutualExclusion, HolderIsRight, Section,
         CondWait, At, Goto

\* cond_wait()'s sema_down() on the thread's own semaphore.
LEMMA WaitDownLock ==
  ASSUME LockPart, NEW t \in Thread, WaitDown(t)
  PROVE  LockPart'
<1>1. CASE S!Wait(t, t) /\ UNCHANGED pc
  BY <1>1, SleepLock DEF WaitDown
<1>2. CASE S!Down(t, t) /\ Goto(t, "acquire")
  <2>1. TypeOK'
    BY <1>2 DEF LockPart, TypeOK, PC, S!Down, Goto, WaitDown
  <2>2. value'[Lock] = value[Lock]
    BY <1>2, MonitorAssumption DEF LockPart, TypeOK, S!Down
  <2> QED
    BY <1>2, <2>1, <2>2, MonitorAssumption
       DEF LockPart, TypeOK, LockInv, SignalInv, MutualExclusion, HolderIsRight, Section,
           WaitDown, At, Goto
<1> QED BY <1>1, <1>2 DEF WaitDown

\* cond_signal() and the loop of cond_broadcast() take the first element off.
LEMMA PopLock ==
  ASSUME LockPart, NEW t \in Thread, NEW c \in Cond, pc[t] \in {"in", "broadcast"},
         Pop(t, c), UNCHANGED <<value, downing, holder, casting>>
  PROVE  LockPart'
<1>1. TypeOK'
  <2>1. Head(waiters[c]) \in Thread /\ Tail(waiters[c]) \in Seq(Thread)
    BY TailElems DEF LockPart, TypeOK, Pop
  <2> QED BY <2>1 DEF LockPart, TypeOK, PC, Pop, Goto
<1>2. popped'[t] \in Thread
  BY TailElems DEF LockPart, TypeOK, Pop
<1> QED
  BY <1>1, <1>2, MonitorAssumption
     DEF LockPart, TypeOK, LockInv, SignalInv, MutualExclusion, HolderIsRight, Section,
         Pop, Goto

\* cond_signal()'s sema_up() is on a waiter's semaphore.
LEMMA SignalUpLock ==
  ASSUME LockPart, NEW t \in Thread, SignalUp(t)
  PROVE  LockPart'
<1>1. popped[t] \in Thread
  BY DEF LockPart, TypeOK, SignalInv, SignalUp, At
<1>2. TypeOK'
  BY <1>1 DEF LockPart, TypeOK, PC, SignalUp, S!Up, Goto
<1>3. value'[Lock] = value[Lock]
  BY <1>1, MonitorAssumption DEF LockPart, TypeOK, SignalUp, S!Up
<1> QED
  BY <1>2, <1>3, MonitorAssumption
     DEF LockPart, TypeOK, LockInv, SignalInv, MutualExclusion, HolderIsRight, Section,
         SignalUp, At, Goto

\* cond_broadcast() enters and leaves its loop.
LEMMA BroadcastLock ==
  ASSUME LockPart, NEW t \in Thread,
         \/ \E c \in Cond : CondBroadcast(t, c)
         \/ BroadcastLoop(t)
  PROVE  LockPart'
<1>1. ASSUME NEW c \in Cond, CondBroadcast(t, c) PROVE LockPart'
  <2>1. TypeOK'
    BY <1>1 DEF LockPart, TypeOK, PC, CondBroadcast, Goto
  <2> QED
    BY <1>1, <2>1, MonitorAssumption
       DEF LockPart, TypeOK, LockInv, SignalInv, MutualExclusion, HolderIsRight, Section,
           CondBroadcast, At, Goto
<1>2. CASE BroadcastLoop(t) /\ Pop(t, casting[t]) /\ UNCHANGED casting
  <2>1. casting[t] \in Cond
    BY <1>2 DEF LockPart, TypeOK, SignalInv, BroadcastLoop, At
  <2> QED BY <1>2, <2>1, PopLock DEF BroadcastLoop, At
<1>3. CASE BroadcastLoop(t) /\ Goto(t, "in") /\ casting' = [casting EXCEPT ![t] = NULL]
           /\ UNCHANGED <<popped, waiters>>
  <2>1. TypeOK'
    BY <1>3 DEF LockPart, TypeOK, PC, BroadcastLoop, Goto
  <2> QED
    BY <1>3, <2>1, MonitorAssumption
       DEF LockPart, TypeOK, LockInv, SignalInv, MutualExclusion, HolderIsRight, Section,
           BroadcastLoop, At, Goto
<1> QED BY <1>1, <1>2, <1>3 DEF BroadcastLoop

-----------------------------------------------------------------------------
(* The condition variables. *)

\* A step that leaves the elements, the waiters' semaphores and the set of
\* waiting threads alone.
LEMMA CondFrame ==
  ASSUME CondPart, waiters' = waiters, popped' = popped,
         \A u \in Thread : value'[u] = value[u] /\ (Waiting(u)' <=> Waiting(u))
  PROVE  CondPart'
<1>1. \A u \in Thread : (Queued(u)' <=> Queued(u)) /\ (Popped(u)' <=> Popped(u))
  BY DEF Queued, Popped
<1>2. ElemOutlivesWait'
  BY <1>1 DEF CondPart, ElemOutlivesWait
<1>3. NoLostSignal'
  BY <1>1 DEF CondPart, NoLostSignal
<1> QED BY <1>2, <1>3 DEF CondPart

\* cond_wait() queues an element that is nowhere yet.
LEMMA CondWaitCond ==
  ASSUME LockPart, CondPart, NEW t \in Thread, NEW c \in Cond, CondWait(t, c)
  PROVE  CondPart'
<1>1. ~ Waiting(t) /\ Waiting(t)' /\ \A u \in Thread : u # t => (Waiting(u)' <=> Waiting(u))
  BY DEF LockPart, TypeOK, CondWait, At, Goto, Waiting
<1>2. ~ Queued(t) /\ ~ Popped(t)
  BY <1>1 DEF CondPart, ElemOutlivesWait
<1>3. waiters[c] \in Seq(Thread) /\ waiters'[c] = Append(waiters[c], t)
      /\ \A d \in Cond : d # c => waiters'[d] = waiters[d]
  BY DEF LockPart, TypeOK, CondWait
<1>4. t \notin Range(waiters[c]) /\ \A d \in Cond : t \notin Range(waiters[d])
  BY <1>2 DEF Queued
<1>5. Range(waiters'[c]) = Range(waiters[c]) \cup {t}
  BY <1>3, AppendElems
<1>6. IsInjective(waiters'[c])
  BY <1>3, <1>4, PushInjective DEF CondPart, ElemOutlivesWait
<1>7. \A u \in Thread : Popped(u)' <=> Popped(u)
  BY DEF CondWait, Popped
<1>8. \A u \in Thread : Queued(u)' <=> Queued(u) \/ u = t
  BY <1>3, <1>5, Zenon DEF Queued
<1>9. ElemOutlivesWait'
  <2> SUFFICES ASSUME NEW u \in Thread
               PROVE  /\ Queued(u)' \/ Popped(u)' => Waiting(u)'
                      /\ ~ (Queued(u)' /\ Popped(u)')
                      /\ \A d, e \in Cond :
                           u \in Range(waiters'[d]) /\ u \in Range(waiters'[e]) => d = e
                      /\ \A d \in Cond : IsInjective(waiters'[d])
                      /\ \A v, w \in Thread : popped'[v] = u /\ popped'[w] = u => v = w
    BY DEF ElemOutlivesWait
  <2>1. Queued(u)' \/ Popped(u)' => Waiting(u)'
    BY <1>1, <1>7, <1>8 DEF CondPart, ElemOutlivesWait
  <2>2. ~ (Queued(u)' /\ Popped(u)')
    BY <1>2, <1>7, <1>8 DEF CondPart, ElemOutlivesWait
  <2>3. \A d, e \in Cond : u \in Range(waiters'[d]) /\ u \in Range(waiters'[e]) => d = e
    <3>1. \A d \in Cond :
            u \in Range(waiters'[d]) <=> u \in Range(waiters[d]) \/ (d = c /\ u = t)
      BY <1>3, <1>5, Zenon
    <3>2. \A d, e \in Cond : u \in Range(waiters[d]) /\ u \in Range(waiters[e]) => d = e
      BY DEF CondPart, ElemOutlivesWait
    <3> QED BY <1>4, <3>1, <3>2
  <2>4. \A d \in Cond : IsInjective(waiters'[d])
    BY <1>3, <1>6, Zenon DEF CondPart, ElemOutlivesWait
  <2>5. \A v, w \in Thread : popped'[v] = u /\ popped'[w] = u => v = w
    BY DEF CondPart, ElemOutlivesWait, CondWait
  <2> QED BY <2>1, <2>2, <2>3, <2>4, <2>5
<1>10. value'[t] = 0 /\ \A u \in Thread : u # t => value'[u] = value[u]
  BY DEF LockPart, TypeOK, CondWait
<1>11. NoLostSignal'
  BY <1>1, <1>7, <1>8, <1>10 DEF CondPart, NoLostSignal
<1> QED BY <1>9, <1>11 DEF CondPart

\* A waiter that has its signal leaves cond_wait()'s sema_down().
LEMMA WaitDownCond ==
  ASSUME LockPart, CondPart, NEW t \in Thread, WaitDown(t)
  PROVE  CondPart'
<1>1. CASE S!Wait(t, t) /\ UNCHANGED pc
  <2>1. value' = value /\ waiters' = waiters /\ popped' = popped
    BY <1>1 DEF WaitDown, S!Wait
  <2>2. \A u \in Thread : Waiting(u)' <=> Waiting(u)
    BY <1>1 DEF Waiting
  <2> QED BY <2>1, <2>2, CondFrame
<1>2. CASE S!Down(t, t) /\ Goto(t, "acquire")
  <2>1. value[t] # 0
    BY <1>2 DEF S!Down, LockPart, TypeOK
  <2>2. value[t] = 1 /\ ~ Queued(t) /\ ~ Popped(t)
    BY <2>1 DEF CondPart, NoLostSignal
  <2>3. value'[t] = 0 /\ \A u \in Thread : u # t => value'[u] = value[u]
    BY <1>2, <2>2 DEF LockPart, TypeOK, S!Down
  <2>4. ~ Waiting(t)' /\ \A u \in Thread : u # t => (Waiting(u)' <=> Waiting(u))
    BY <1>2 DEF LockPart, TypeOK, Goto, Waiting
  <2>5. waiters' = waiters /\ popped' = popped
    BY DEF WaitDown
  <2>6. \A u \in Thread : (Queued(u)' <=> Queued(u)) /\ (Popped(u)' <=> Popped(u))
    BY <2>5 DEF Queued, Popped
  <2>7. ElemOutlivesWait'
    BY <2>2, <2>4, <2>5, <2>6 DEF CondPart, ElemOutlivesWait
  <2>8. NoLostSignal'
    BY <2>2, <2>3, <2>4, <2>6 DEF CondPart, NoLostSignal
  <2> QED BY <2>7, <2>8 DEF CondPart
<1> QED BY <1>1, <1>2 DEF WaitDown

\* An element goes from its list into the hands of one signaller.
LEMMA PopCond ==
  ASSUME LockPart, CondPart, NEW t \in Thread, NEW c \in Cond, pc[t] \in {"in", "broadcast"},
         Pop(t, c), UNCHANGED value
  PROVE  CondPart'
<1> DEFINE h == Head(waiters[c])
<1>1. /\ waiters[c] \in Seq(Thread) /\ waiters[c] # << >>
      /\ waiters'[c] = Tail(waiters[c])
      /\ \A d \in Cond : d # c => waiters'[d] = waiters[d]
  BY DEF LockPart, TypeOK, Pop
<1>2. h \in Thread /\ h \in Range(waiters[c])
      /\ Range(waiters[c]) = Range(waiters'[c]) \cup {h}
  BY <1>1, TailElems
<1>3. IsInjective(waiters'[c]) /\ h \notin Range(waiters'[c])
  BY <1>1, PopInjective DEF CondPart, ElemOutlivesWait
<1>4. Queued(h) /\ ~ Popped(h) /\ Waiting(h)
  BY <1>2 DEF CondPart, ElemOutlivesWait, Queued
<1>5. popped[t] = NULL /\ popped'[t] = h /\ \A u \in Thread : u # t => popped'[u] = popped[u]
  BY DEF LockPart, TypeOK, SignalInv, Pop
<1>6. \A u \in Thread : Waiting(u)' <=> Waiting(u)
  BY DEF LockPart, TypeOK, Pop, Goto, Waiting
<1>7. \A u \in Thread : Queued(u)' <=> Queued(u) /\ u # h
  <2>1. \A d \in Cond : h \in Range(waiters[d]) => d = c
    BY <1>2 DEF CondPart, ElemOutlivesWait
  <2> QED BY <1>1, <1>2, <1>3, <2>1 DEF Queued
<1>8. \A u \in Thread : Popped(u)' <=> Popped(u) \/ u = h
  BY <1>5, MonitorAssumption DEF Popped
<1>9. ElemOutlivesWait'
  <2> SUFFICES ASSUME NEW u \in Thread
               PROVE  /\ Queued(u)' \/ Popped(u)' => Waiting(u)'
                      /\ ~ (Queued(u)' /\ Popped(u)')
                      /\ \A d, e \in Cond :
                           u \in Range(waiters'[d]) /\ u \in Range(waiters'[e]) => d = e
                      /\ \A d \in Cond : IsInjective(waiters'[d])
                      /\ \A v, w \in Thread : popped'[v] = u /\ popped'[w] = u => v = w
    BY DEF ElemOutlivesWait
  <2>1. Queued(u)' \/ Popped(u)' => Waiting(u)'
    BY <1>4, <1>6, <1>7, <1>8 DEF CondPart, ElemOutlivesWait
  <2>2. ~ (Queued(u)' /\ Popped(u)')
    BY <1>7, <1>8 DEF CondPart, ElemOutlivesWait
  <2>3. \A d, e \in Cond : u \in Range(waiters'[d]) /\ u \in Range(waiters'[e]) => d = e
    BY <1>1, <1>2 DEF CondPart, ElemOutlivesWait
  <2>4. \A d \in Cond : IsInjective(waiters'[d])
    BY <1>1, <1>3 DEF CondPart, ElemOutlivesWait
  <2>5. \A v, w \in Thread : popped'[v] = u /\ popped'[w] = u => v = w
    BY <1>4, <1>5 DEF CondPart, ElemOutlivesWait, Popped
  <2> QED BY <2>1, <2>2, <2>3, <2>4, <2>5
<1>10. NoLostSignal'
  BY <1>4, <1>6, <1>7, <1>8 DEF CondPart, NoLostSignal
<1> QED BY <1>9, <1>10 DEF CondPart

\* The signal arrives: the element is nobody's any more, and its owner has
\* the unit it waits for.
LEMMA SignalUpCond ==
  ASSUME LockPart, CondPart, NEW t \in Thread, SignalUp(t)
  PROVE  CondPart'
<1> DEFINE p == popped[t]
<1>1. p \in Thread
  BY DEF LockPart, TypeOK, SignalInv, SignalUp, At
<1>2. Popped(p) /\ Waiting(p) /\ ~ Queued(p)
  BY <1>1 DEF CondPart, ElemOutlivesWait, Popped
<1>3. value[p] = 0
  BY <1>1, <1>2 DEF CondPart, NoLostSignal
<1>4. value'[p] = 1 /\ \A u \in Thread : u # p => value'[u] = value[u]
  BY <1>1, <1>3 DEF LockPart, TypeOK, SignalUp, S!Up
<1>5. popped'[t] = NULL /\ \A u \in Thread : u # t => popped'[u] = popped[u]
  BY DEF LockPart, TypeOK, SignalUp
<1>6. \A u \in Thread : u # t => popped[u] # p
  BY <1>1 DEF CondPart, ElemOutlivesWait
<1>7. \A u \in Thread : Popped(u)' <=> Popped(u) /\ u # p
  BY <1>5, <1>6, MonitorAssumption DEF Popped
<1>8. \A u \in Thread : (Queued(u)' <=> Queued(u)) /\ (Waiting(u)' <=> Waiting(u))
  <2>1. \A u \in Thread : Queued(u)' <=> Queued(u)
    BY DEF SignalUp, Queued
  <2>2. \A u \in Thread : Waiting(u)' <=> Waiting(u)
    BY DEF LockPart, TypeOK, SignalUp, At, Goto, Waiting
  <2> QED BY <2>1, <2>2
<1>9. waiters' = waiters
  BY DEF SignalUp
<1>10. ElemOutlivesWait'
  <2>1. \A u, v, w \in Thread : popped'[v] = u /\ popped'[w] = u => v = w
    BY <1>5, MonitorAssumption DEF CondPart, ElemOutlivesWait
  <2> QED BY <1>7, <1>8, <1>9, <2>1 DEF CondPart, ElemOutlivesWait
<1>11. NoLostSignal'
  BY <1>1, <1>2, <1>4, <1>7, <1>8 DEF CondPart, NoLostSignal
<1> QED BY <1>10, <1>11 DEF CondPart

-----------------------------------------------------------------------------
(* The theorems. *)

\* The steps that concern the lock alone.
LEMMA LockStepsCond ==
  ASSUME LockPart, CondPart, NEW t \in Thread,
         \/ LockAcquire(t) \/ LockTryAcquire(t) \/ AcquireDown(t) \/ SetHolder(t)
         \/ LockRelease(t) \/ ReleaseUp(t)
  PROVE  CondPart'
<1>1. waiters' = waiters /\ popped' = popped
  BY DEF LockAcquire, LockTryAcquire, AcquireDown, SetHolder, LockRelease, ReleaseUp
<1>2. \A u \in Thread : value'[u] = value[u]
  BY MonitorAssumption
     DEF LockPart, TypeOK, LockAcquire, LockTryAcquire, AcquireDown, SetHolder, LockRelease,
         ReleaseUp, S!Wait, S!Down, S!Up
<1>3. \A u \in Thread : Waiting(u)' <=> Waiting(u)
  <2>1. CASE LockAcquire(t) \/ LockTryAcquire(t) \/ AcquireDown(t) \/ SetHolder(t)
    BY <2>1 DEF LockPart, TypeOK, LockAcquire, LockTryAcquire, AcquireDown, SetHolder, At, Goto,
                Waiting
  <2>2. CASE LockRelease(t) \/ ReleaseUp(t)
    BY <2>2 DEF LockPart, TypeOK, LockRelease, ReleaseUp, At, Goto, Waiting
  <2> QED BY <2>1, <2>2
<1> QED BY <1>1, <1>2, <1>3, CondFrame

\* Entering and leaving the loop of cond_broadcast().
LEMMA BroadcastCond ==
  ASSUME LockPart, CondPart, NEW t \in Thread,
         \/ \E c \in Cond : CondBroadcast(t, c)
         \/ BroadcastLoop(t)
  PROVE  CondPart'
<1>1. CASE BroadcastLoop(t) /\ Pop(t, casting[t])
  <2>1. casting[t] \in Cond
    BY <1>1 DEF LockPart, TypeOK, SignalInv, BroadcastLoop, At
  <2> QED BY <1>1, <2>1, PopCond DEF BroadcastLoop, At
<1>2. CASE BroadcastLoop(t) /\ ~ Pop(t, casting[t])
  <2>1. waiters' = waiters /\ popped' = popped /\ value' = value
    BY <1>2 DEF BroadcastLoop
  <2>2. \A u \in Thread : Waiting(u)' <=> Waiting(u)
    BY <1>2 DEF LockPart, TypeOK, BroadcastLoop, At, Goto, Waiting
  <2> QED BY <2>1, <2>2, CondFrame
<1>3. ASSUME NEW c \in Cond, CondBroadcast(t, c) PROVE CondPart'
  <2>1. waiters' = waiters /\ popped' = popped /\ value' = value
    BY <1>3 DEF CondBroadcast
  <2>2. \A u \in Thread : Waiting(u)' <=> Waiting(u)
    BY <1>3 DEF LockPart, TypeOK, CondBroadcast, At, Goto, Waiting
  <2> QED BY <2>1, <2>2, CondFrame
<1> QED BY <1>1, <1>2, <1>3

\* lock_init() and empty lists.
LEMMA InitMonitor == Init => MonitorInv
<1> SUFFICES ASSUME Init PROVE MonitorInv
  OBVIOUS
<1>1. \A c \in Cond : waiters[c] \in Seq(Thread) /\ Range(waiters[c]) = {} /\ IsInjective(waiters[c])
  BY EmptyQueue DEF Init
<1>2. \A t \in Thread : pc[t] = "out" /\ popped[t] = NULL /\ value[t] = 0
  BY MonitorAssumption DEF Init
<1>3. TypeOK
  BY <1>1 DEF Init, TypeOK, PC
<1>4. LockInv /\ SignalInv /\ MutualExclusion /\ HolderIsRight
  BY <1>2, MonitorAssumption
     DEF Init, LockInv, SignalInv, MutualExclusion, HolderIsRight, Section
<1>5. \A t \in Thread : ~ Queued(t) /\ ~ Popped(t) /\ ~ Waiting(t)
  BY <1>1, <1>2, MonitorAssumption, Zenon DEF Queued, Popped, Waiting
<1>6. ElemOutlivesWait /\ NoLostSignal
  BY <1>1, <1>2, <1>5, MonitorAssumption, Zenon DEF ElemOutlivesWait, NoLostSignal
<1> QED BY <1>3, <1>4, <1>6 DEF MonitorInv

\* Every step keeps the invariant.
LEMMA NextMonitor == MonitorInv /\ [Next]_vars => MonitorInv'
<1>1. MonitorInv <=> LockPart /\ CondPart
  BY DEF MonitorInv, LockPart, CondPart
<1>2. MonitorInv' <=> LockPart' /\ CondPart'
  BY DEF MonitorInv, LockPart, CondPart
<1> SUFFICES ASSUME LockPart, CondPart, [Next]_vars PROVE LockPart' /\ CondPart'
  BY <1>1, <1>2
<1>3. CASE UNCHANGED vars
  <2>1. LockPart'
    BY <1>3 DEF vars, LockPart, TypeOK, LockInv, SignalInv, MutualExclusion, HolderIsRight
  <2>2. CondPart'
    BY <1>3, CondFrame DEF vars, Waiting
  <2> QED BY <2>1, <2>2
<1>4. ASSUME NEW t \in Thread, Call(t) \/ Step(t) PROVE LockPart' /\ CondPart'
  <2>1. CASE LockAcquire(t)
    BY <2>1, LockAcquireLock, LockStepsCond
  <2>2. CASE LockTryAcquire(t)
    BY <2>2, TakeLock, LockStepsCond, SMTT(30) DEF LockTryAcquire, At
  <2>3. CASE AcquireDown(t)
    BY <2>3, TakeLock, SleepLock, LockStepsCond DEF AcquireDown, At
  <2>4. CASE SetHolder(t)
    BY <2>4, SetHolderLock, LockStepsCond
  <2>5. CASE LockRelease(t)
    BY <2>5, LockReleaseLock, LockStepsCond
  <2>6. CASE ReleaseUp(t)
    BY <2>6, ReleaseUpLock, LockStepsCond
  <2>7. ASSUME NEW c \in Cond, CondWait(t, c) PROVE LockPart' /\ CondPart'
    BY <2>7, CondWaitLock, CondWaitCond
  <2>8. CASE WaitDown(t)
    BY <2>8, WaitDownLock, WaitDownCond
  <2>9. ASSUME NEW c \in Cond, CondSignal(t, c) PROVE LockPart' /\ CondPart'
    BY <2>9, PopLock, PopCond DEF CondSignal, At
  <2>10. CASE SignalUp(t)
    BY <2>10, SignalUpLock, SignalUpCond
  <2>11. CASE BroadcastLoop(t) \/ \E c \in Cond : CondBroadcast(t, c)
    BY <2>11, BroadcastLock, BroadcastCond
  <2> QED
    BY <1>4, <2>1, <2>2, <2>3, <2>4, <2>5, <2>6, <2>7, <2>8, <2>9, <2>10, <2>11 DEF Call, Step
<1> QED BY <1>3, <1>4 DEF Next

\* The monitor's inductive invariant holds in every reachable state.
THEOREM MonitorInvariant == Spec => []MonitorInv
BY InitMonitor, NextMonitor, PTL DEF Spec

\* At most one thread is between the sema_down() and the sema_up() of a lock,
\* and the holder field, on which the ASSERTs rely, names it whenever it is
\* read.
THEOREM MutualExclusionHolds == Spec => [](MutualExclusion /\ HolderIsRight)
<1>1. MonitorInv => MutualExclusion /\ HolderIsRight
  BY DEF MonitorInv
<1> QED BY <1>1, MonitorInvariant, PTL

\* cond_signal() never touches a semaphore_elem whose owner has left
\* cond_wait().
THEOREM ElemOutlivesWaitHolds == Spec => []ElemOutlivesWait
<1>1. MonitorInv => ElemOutlivesWait
  BY DEF MonitorInv
<1> QED BY <1>1, MonitorInvariant, PTL

\* No signal is lost between cond_wait()'s release of the lock and its sleep.
THEOREM NoLostSignalHolds == Spec => []NoLostSignal
<1>1. MonitorInv => NoLostSignal
  BY DEF MonitorInv
<1> QED BY <1>1, MonitorInvariant, PTL
=============================================================================
