---------------------------- MODULE WakeupProofs ----------------------------
(***************************************************************************)
(* Proof that the semaphores of Threads lose no wakeup, for any number of  *)
(* threads and semaphores.                                                 *)
(***************************************************************************)
EXTENDS ThreadsProofs, FiniteSetTheorems

\* The threads inside sema_down() on s that are not asleep on its list.
Awake(s) == {t \in Thread : downing[t] = s} \ Range(waiters[s])

AwakeCoverValue ==
  \A s \in Sema : waiters[s] # << >> => value[s] <= Cardinality(Awake(s))

\* The woken threads of NoLostWakeup are those inside sema_down() that are
\* not on the list: a blocked one is never anywhere else.
LEMMA WokenAreAwake == IInv => \A s \in Sema : Woken(s) = Awake(s)
<1> SUFFICES ASSUME IInv, NEW s \in Sema PROVE Woken(s) = Awake(s)
  OBVIOUS
<1>1. ASSUME NEW t \in Woken(s) PROVE t \in Awake(s)
  BY <1>1 DEF Woken, Awake, IInv, ElemOnOneList
<1>2. ASSUME NEW t \in Awake(s) PROVE t \in Woken(s)
  <2>1. t \in Thread /\ downing[t] = s /\ t \notin Range(waiters[s])
    BY <1>2 DEF Awake
  <2>2. pc[t] = "down"
    BY <2>1, SemaAssumption DEF IInv, PcInv
  <2>3. status[t] \in Status /\ status[t] \notin {"FREE", "DYING"}
    BY <2>1, <2>2 DEF IInv, TypeOK, PcInv
  <2>4. status[t] # "BLOCKED"
    <3> SUFFICES ASSUME status[t] = "BLOCKED" PROVE FALSE
      OBVIOUS
    <3>1. t # idle_thread
      BY <2>1, <2>2 DEF IInv, IdleInv, IdlePC
    <3>2. \A u \in Thread : newt[u] # t
      BY <2>1, <2>2, ThreadAssumption DEF IInv, PcInv
    <3>3. PICK q \in Sema : t \in Range(waiters[q])
      BY <2>1, <3>1, <3>2 DEF IInv, NoThreadForgotten, WaitsOn
    <3>4. downing[t] = q
      BY <3>3 DEF IInv, ElemOnOneList
    <3> QED BY <2>1, <3>3, <3>4
  <2> QED BY <2>1, <2>2, <2>3, <2>4 DEF Woken, Status
<1> QED BY <1>1, <1>2

\* A set of awake threads is finite, so its cardinality is a number.
LEMMA AwakeFinite ==
  ASSUME NEW s \in Sema
  PROVE  IsFiniteSet(Awake(s)) /\ Cardinality(Awake(s)) \in Nat
<1>1. Awake(s) \in SUBSET Thread
  BY DEF Awake
<1>2. IsFiniteSet(Awake(s))
  BY <1>1, MemoryAssumption, FS_Subset
<1> QED BY <1>2, FS_CardinalityType

\* A step that leaves a semaphore, its list and its callers alone.
LEMMA OtherSema ==
  ASSUME AwakeCoverValue, NEW q \in Sema,
         waiters'[q] = waiters[q], value'[q] = value[q],
         \A t \in Thread : downing'[t] = q <=> downing[t] = q
  PROVE  waiters'[q] # << >> => value'[q] <= Cardinality(Awake(q)')
<1>1. Awake(q)' = Awake(q)
  BY DEF Awake
<1> QED BY <1>1 DEF AwakeCoverValue

\* sema_up() takes one thread off the list for the unit it adds.
LEMMA UpCovers ==
  ASSUME IInv, AwakeCoverValue, NEW s \in Sema, SemaUp(s), UNCHANGED downing
  PROVE  AwakeCoverValue'
<1>0. /\ value' = [value EXCEPT ![s] = @ + 1] /\ value \in [Sema -> Nat]
      /\ waiters \in [Sema -> Seq(Thread)]
  BY DEF SemaUp, IInv, TypeOK
<1>1. CASE waiters[s] = << >>
  <2>1. waiters' = waiters
    BY <1>1 DEF SemaUp
  <2>2. ASSUME NEW q \in Sema, q # s
        PROVE  waiters'[q] # << >> => value'[q] <= Cardinality(Awake(q)')
    BY <1>0, <2>1, <2>2, OtherSema
  <2> QED BY <1>1, <2>1, <2>2 DEF AwakeCoverValue
<1>2. CASE waiters[s] # << >>
  <2> DEFINE h == Head(waiters[s])
  <2>1. waiters' = [waiters EXCEPT ![s] = Tail(@)]
    BY <1>2 DEF SemaUp
  <2>2. waiters[s] \in Seq(Thread) /\ IsInjective(waiters[s])
    BY DEF IInv, TypeOK, ElemOnOneList
  <2>3. /\ h \in Thread /\ h \in Range(waiters[s])
        /\ Range(waiters[s]) = Range(Tail(waiters[s])) \cup {h}
    BY <1>2, <2>2, TailElems
  <2>4. h \notin Range(Tail(waiters[s]))
    BY <1>2, <2>2, PopInjective
  <2>5. downing[h] = s
    BY <2>3 DEF IInv, ElemOnOneList
  <2>6. Range(waiters'[s]) = Range(waiters[s]) \ {h}
    BY <1>0, <2>1, <2>3, <2>4
  <2> HIDE DEF h
  <2>7. Awake(s)' = Awake(s) \cup {h} /\ h \notin Awake(s)
    BY <2>3, <2>5, <2>6 DEF Awake
  <2>8. Cardinality(Awake(s)') = Cardinality(Awake(s)) + 1
    BY <2>7, AwakeFinite, FS_AddElement, Zenon
  <2>9. value'[s] <= Cardinality(Awake(s)')
    <3>1. value[s] <= Cardinality(Awake(s)) /\ Cardinality(Awake(s)) \in Nat
      BY <1>2, AwakeFinite DEF AwakeCoverValue
    <3>2. value'[s] = value[s] + 1 /\ value[s] \in Nat
      BY <1>0
    <3> QED BY <2>8, <3>1, <3>2
  <2>10. ASSUME NEW q \in Sema, q # s
        PROVE  waiters'[q] # << >> => value'[q] <= Cardinality(Awake(q)')
    BY <1>0, <2>1, <2>10, OtherSema
  <2> QED BY <2>9, <2>10 DEF AwakeCoverValue
<1> QED BY <1>1, <1>2

\* A thread that takes a unit was awake itself, or takes it from one that
\* is; a thread that goes to sleep finds no unit.
LEMMA TakeCovers ==
  ASSUME IInv, AwakeCoverValue, NEW s \in Sema, value[s] > 0,
         value' = [value EXCEPT ![s] = @ - 1],
         downing' = [downing EXCEPT ![cur] = NULL], waiters' = waiters,
         downing[cur] \in {NULL, s}
  PROVE  AwakeCoverValue'
<1>0. /\ cur \in Thread /\ value \in [Sema -> Nat]
      /\ downing \in [Thread -> Sema \cup {NULL}] /\ NULL \notin Sema
  BY SemaAssumption DEF IInv, TypeOK
<1>1. ASSUME NEW q \in Sema, q # s
      PROVE  waiters'[q] # << >> => value'[q] <= Cardinality(Awake(q)')
  <2>1. \A t \in Thread : downing'[t] = q <=> downing[t] = q
    BY <1>0, <1>1
  <2>2. value'[q] = value[q]
    BY <1>0, <1>1
  <2> QED BY <2>1, <2>2, OtherSema
<1>2. ASSUME waiters[s] # << >> PROVE value'[s] <= Cardinality(Awake(s)')
  <2>1. Awake(s)' = Awake(s) \ {cur}
    BY <1>0 DEF Awake
  <2>2. Cardinality(Awake(s)') >= Cardinality(Awake(s)) - 1 /\ Cardinality(Awake(s)) \in Nat
    BY <2>1, AwakeFinite, FS_RemoveElement, SMTT(30)
  <2>3. value[s] <= Cardinality(Awake(s)) /\ value[s] \in Nat /\ value'[s] = value[s] - 1
    BY <1>0, <1>2 DEF AwakeCoverValue
  <2>4. Cardinality(Awake(s)') \in Nat
    BY <2>1, AwakeFinite, FS_RemoveElement, FS_CardinalityType
  <2> QED BY <2>2, <2>3, <2>4
<1> QED BY <1>1, <1>2 DEF AwakeCoverValue

\* Both outcomes of sema_down().
LEMMA DownCovers ==
  ASSUME IInv, IInv', AwakeCoverValue, NEW s \in Sema, SemaDown(s), downing[cur] \in {NULL, s}
  PROVE  AwakeCoverValue'
<1>0. /\ cur \in Thread /\ value \in [Sema -> Nat] /\ waiters \in [Sema -> Seq(Thread)]
      /\ downing \in [Thread -> Sema \cup {NULL}] /\ NULL \notin Sema
  BY SemaAssumption, Zenon DEF IInv, TypeOK
<1>1. CASE value[s] = 0
  <2>1. /\ value' = value
        /\ waiters' = [waiters EXCEPT ![s] = Append(@, cur)]
        /\ downing' = [downing EXCEPT ![cur] = s]
    BY <1>1 DEF SemaDown
  <2>2. IsFiniteSet(Awake(s)') /\ Cardinality(Awake(s)') \in Nat
    <3>1. Awake(s)' \in SUBSET Thread
      BY DEF Awake
    <3> QED BY <3>1, MemoryAssumption, FS_Subset, FS_CardinalityType
  <2>3. value'[s] <= Cardinality(Awake(s)')
    BY <1>1, <2>1, <2>2
  <2>4. ASSUME NEW q \in Sema, q # s
        PROVE  waiters'[q] # << >> => value'[q] <= Cardinality(Awake(q)')
    <3>1. \A t \in Thread : downing'[t] = q <=> downing[t] = q
      BY <1>0, <2>1, <2>4
    <3>2. value'[q] = value[q] /\ waiters'[q] = waiters[q]
      BY <1>0, <2>1, <2>4
    <3> QED BY <3>1, <3>2, OtherSema
  <2> QED BY <2>3, <2>4 DEF AwakeCoverValue
<1>2. CASE value[s] # 0
  <2>1. /\ value[s] > 0 /\ value' = [value EXCEPT ![s] = @ - 1]
        /\ downing' = [downing EXCEPT ![cur] = NULL] /\ waiters' = waiters
    BY <1>0, <1>2 DEF SemaDown
  <2> QED BY <2>1, TakeCovers, Zenon
<1> QED BY <1>1, <1>2

\* Every step keeps the units of a semaphore covered.
LEMMA NextCovers ==
  IInv /\ IInv' /\ AwakeCoverValue /\ [Next]_vars => AwakeCoverValue'
<1> SUFFICES ASSUME IInv, IInv', AwakeCoverValue, [Next]_vars PROVE AwakeCoverValue'
  OBVIOUS
<1>0. /\ cur \in Thread /\ IdleStarted \in Sema /\ TidLock \in Sema
      /\ downing \in [Thread -> Sema \cup {NULL}]
  BY SemaAssumption DEF IInv, TypeOK
<1>1. ASSUME pc[cur] # "down" PROVE downing[cur] = NULL
  BY <1>0, <1>1 DEF IInv, PcInv
<1>2. ASSUME UNCHANGED <<value, waiters, downing>> PROVE AwakeCoverValue'
  BY <1>2 DEF AwakeCoverValue, Awake
<1>3. ASSUME NEW s \in ClientSema, CallSemaDown(s) PROVE AwakeCoverValue'
  BY <1>1, <1>3, DownCovers DEF CallSemaDown, At, ClientSema
<1>4. ASSUME NEW s \in ClientSema, CallSemaTryDown(s) PROVE AwakeCoverValue'
  <2>1. s \in Sema /\ downing[cur] = NULL /\ downing' = downing /\ value[s] > 0
        /\ value' = [value EXCEPT ![s] = @ - 1] /\ waiters' = waiters
    BY <1>1, <1>4 DEF CallSemaTryDown, At, ClientSema
  <2>2. downing' = [downing EXCEPT ![cur] = NULL]
    BY <1>0, <2>1
  <2> QED BY <2>1, <2>2, TakeCovers, Zenon
<1>5. ASSUME NEW s \in ClientSema, CallSemaUp(s) \/ DeviceInterrupt(s) PROVE AwakeCoverValue'
  BY <1>5, UpCovers DEF CallSemaUp, DeviceInterrupt, ClientSema
<1>6. ASSUME IdleUp \/ TidUp PROVE AwakeCoverValue'
  BY <1>0, <1>6, UpCovers DEF IdleUp, TidUp
<1>7. ASSUME StartDown \/ TidAcquire PROVE AwakeCoverValue'
  BY <1>0, <1>1, <1>7, DownCovers DEF StartDown, TidAcquire, At
<1>8. ASSUME ResumeSemaDown PROVE AwakeCoverValue'
  <2>1. downing[cur] \in Sema
    BY <1>0, <1>8 DEF ResumeSemaDown, At, IInv, PcInv
  <2> QED BY <1>8, <2>1, DownCovers DEF ResumeSemaDown
<1>9. ASSUME NEW t \in Thread, ThreadCreate(t) \/ ThreadStart(t) PROVE AwakeCoverValue'
  BY <1>2, <1>9 DEF ThreadCreate, ThreadStart, sema_vars
<1>10. ASSUME \/ ThreadExit \/ ThreadYield \/ IdleEnter \/ IdleBlock \/ TidHold \/ TidRead
              \/ TidWrite \/ TidRelease \/ CreateUnblock \/ TimerInterrupt
       PROVE  AwakeCoverValue'
  BY <1>2, <1>10 DEF ThreadExit, ThreadYield, IdleEnter, IdleBlock, TidHold, TidRead, TidWrite,
              TidRelease, CreateUnblock, TimerInterrupt, sema_vars
<1>11. ASSUME UNCHANGED vars PROVE AwakeCoverValue'
  BY <1>2, <1>11 DEF vars, sema_vars
<1> QED
  BY <1>3, <1>4, <1>5, <1>6, <1>7, <1>8, <1>9, <1>10, <1>11 DEF Next, Client, Kernel, Interrupt

\* sema_up() loses no wakeup: while threads are asleep on a semaphore, its
\* value is covered by woken threads that have yet to look at it.
THEOREM NoLostWakeupHolds == Spec => []NoLostWakeup
<1>1. Init => AwakeCoverValue
  BY DEF Init, AwakeCoverValue
<1>2. Spec => []AwakeCoverValue
  BY <1>1, NextCovers, SchedulerInvariant, PTL DEF Spec
<1>3. IInv /\ AwakeCoverValue => NoLostWakeup
  BY WokenAreAwake DEF AwakeCoverValue, NoLostWakeup
<1> QED BY <1>2, <1>3, SchedulerInvariant, PTL
=============================================================================
