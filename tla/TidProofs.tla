----------------------------- MODULE TidProofs -----------------------------
(***************************************************************************)
(* Proof that allocate_tid() gives no two live threads the same tid, for   *)
(* any number of threads: tid_lock's semaphore lets one thread at a time   *)
(* into next_tid++, though it may be preempted anywhere inside.            *)
(***************************************************************************)
EXTENDS ThreadsProofs

\* No thread comes to life.
NoBirth == \A t \in Thread : status'[t] # "FREE" => status[t] # "FREE"

\* What schedule() switches to was alive before.
LEMMA ScheduleLives ==
  ASSUME IInv, NEW st, NEW rl \in Seq(Thread), Schedule(st, rl), cur' \in Thread,
         \A t \in Thread : st[t] # "FREE" => status[t] # "FREE",
         \A t \in Range(rl) : status[t] # "FREE"
  PROVE  NoBirth
<1>1. cur' = idle_thread \/ cur' \in Range(rl)
  <2>1. CASE rl = << >>
    BY <2>1 DEF Schedule
  <2>2. CASE rl # << >>
    <3>1. cur' = Head(rl)
      BY <2>2 DEF Schedule
    <3>2. 1 \in DOMAIN rl /\ Head(rl) = rl[1]
      BY <2>2
    <3> QED BY <3>1, <3>2 DEF Range
  <2> QED BY <2>1, <2>2
<1>2. ASSUME cur' = idle_thread PROVE status[cur'] # "FREE"
  <2>1. pc[cur'] # "run"
    BY <1>2 DEF IInv, IdleInv, IdlePC
  <2> QED BY <2>1 DEF IInv, PcInv
<1>3. \A t \in Thread : t # cur' /\ status'[t] # "FREE" => st[t] # "FREE"
  BY DEF Schedule
<1> QED BY <1>1, <1>2, <1>3 DEF NoBirth

\* thread_block(), thread_yield() and thread_exit() bring nobody to life.
LEMMA SwitchLives ==
  ASSUME IInv, IInv', Block \/ Yield \/ Schedule([status EXCEPT ![cur] = "DYING"], ready_list)
  PROVE  NoBirth
<1>1. /\ cur \in Thread /\ cur' \in Thread /\ status[cur] = "RUNNING"
      /\ ready_list \in Seq(Thread) /\ status \in [Thread -> Status]
  BY DEF IInv, TypeOK, ElemOnOneList
<1>2. \A t \in Range(ready_list) : status[t] # "FREE"
  BY DEF IInv, ElemOnOneList
<1>3. ASSUME NEW x PROVE \A t \in Thread : [status EXCEPT ![cur] = x][t] # "FREE" => status[t] # "FREE"
  BY <1>1
<1>4. CASE Block
  BY <1>1, <1>2, <1>3, <1>4, ScheduleLives, Zenon DEF Block
<1>5. CASE Yield
  <2> DEFINE rl == IF cur = idle_thread THEN ready_list ELSE Append(ready_list, cur)
  <2>1. rl \in Seq(Thread)
    BY <1>1, AppendElems
  <2>2. \A t \in Range(rl) : status[t] # "FREE"
    BY <1>1, <1>2, AppendElems
  <2>3. Schedule([status EXCEPT ![cur] = "READY"], rl)
    BY <1>5 DEF Yield
  <2> HIDE DEF rl
  <2> QED BY <1>1, <1>3, <2>1, <2>2, <2>3, ScheduleLives, Zenon
<1>6. CASE Schedule([status EXCEPT ![cur] = "DYING"], ready_list)
  BY <1>1, <1>2, <1>3, <1>6, ScheduleLives, Zenon
<1> QED BY <1>4, <1>5, <1>6

\* Nor does sema_up(), which unblocks a thread that was asleep.
LEMMA UpLives ==
  ASSUME IInv, NEW s \in Sema, SemaUp(s)
  PROVE  NoBirth
<1>1. CASE waiters[s] = << >>
  BY <1>1 DEF SemaUp, sched_vars, NoBirth
<1>2. CASE waiters[s] # << >>
  <2>1. waiters[s] \in Seq(Thread) /\ status \in [Thread -> Status]
    BY DEF IInv, TypeOK
  <2>2. Head(waiters[s]) \in Range(waiters[s])
    BY <1>2, <2>1 DEF Range
  <2>3. status[Head(waiters[s])] = "BLOCKED"
    BY <2>2 DEF IInv, ElemOnOneList
  <2> QED BY <1>2, <2>1, <2>3 DEF SemaUp, Unblock, NoBirth
<1> QED BY <1>1, <1>2

-----------------------------------------------------------------------------

\* Steps outside allocate_tid(), and those of it that do not touch its data.
LEMMA TidFrame ==
  ASSUME IInv, TidInv, NoBirth, UNCHANGED <<tid, next_tid>>,
         value'[TidLock] = value[TidLock],
         \A t \in Thread : pc'[t] \in TidSection => pc[t] \in TidSection,
         \A t \in Thread : pc'[t] = "tid_write" <=> pc[t] = "tid_write",
         \A t \in Thread : pc[t] = "tid_write" => newt'[t] = newt[t]
  PROVE  TidInv'
<1>1. /\ (value[TidLock] \in {0, 1})'
      /\ (\A t \in Thread : pc[t] \in TidSection => value[TidLock] = 0)'
      /\ (\A t, u \in Thread : pc[t] \in TidSection /\ pc[u] \in TidSection => t = u)'
      /\ (next_tid > 0)'
  BY DEF TidInv, TidSection
<1>2. (\A t \in Thread : status[t] # "FREE" =>
         \/ tid[t] < next_tid
         \/ \E u \in Thread : newt[u] = t /\ pc[u] = "tid_write")'
  BY DEF TidInv, NoBirth
<1>3. (\A t \in Thread : pc[t] = "tid_write" => tid[newt[t]] = next_tid)'
  BY DEF TidInv
<1>4. TidsUnique'
  BY DEF TidInv, NoBirth, TidsUnique
<1> QED BY <1>1, <1>2, <1>3, <1>4 DEF TidInv, TidSection

\* As TidFrame, for a step in which only cur moves, outside allocate_tid().
LEMMA OutsideStep ==
  ASSUME IInv, TidInv, NoBirth, UNCHANGED <<tid, next_tid>>,
         value'[TidLock] = value[TidLock], NEW p, p \notin TidSection,
         pc[cur] # "tid_write", pc' = [pc EXCEPT ![cur] = p],
         \A t \in Thread : t # cur => newt'[t] = newt[t]
  PROVE  TidInv'
<1>1. pc \in [Thread -> PC]
  BY DEF IInv, TypeOK
<1>2. \A t \in Thread : pc'[t] = pc[t] \/ (t = cur /\ pc'[t] = p)
  BY <1>1
<1>3. p # "tid_write"
  BY DEF TidSection
<1>4. /\ \A t \in Thread : pc'[t] \in TidSection => pc[t] \in TidSection
      /\ \A t \in Thread : pc'[t] = "tid_write" <=> pc[t] = "tid_write"
      /\ \A t \in Thread : pc[t] = "tid_write" => newt'[t] = newt[t]
  BY <1>2, <1>3
<1> QED BY <1>4, TidFrame

\* sema_down() on another semaphore, or asleep on tid_lock's.
LEMMA DownTid ==
  ASSUME IInv, IInv', TidInv, NEW s \in Sema, SemaDown(s), s # TidLock \/ value[s] = 0,
         pc[cur] # "tid_write", UNCHANGED <<tid_vars, newt>>
  PROVE  TidInv'
<1>1. value \in [Sema -> Nat] /\ UNCHANGED <<tid, next_tid>>
  BY DEF IInv, TypeOK, tid_vars
<1>2. CASE value[s] = 0
  <2>1. Block /\ Goto("down") /\ UNCHANGED value
    BY <1>2 DEF SemaDown
  <2>2. NoBirth
    BY <2>1, SwitchLives
  <2>3. "down" \notin TidSection
    BY DEF TidSection
  <2> QED BY <1>1, <2>1, <2>2, <2>3, OutsideStep, Zenon DEF Goto
<1>3. CASE value[s] # 0
  <2>1. /\ s # TidLock /\ Goto("run") /\ UNCHANGED sched_vars
        /\ value' = [value EXCEPT ![s] = @ - 1]
    BY <1>3 DEF SemaDown, AfterDown
  <2>2. NoBirth
    BY <2>1 DEF NoBirth, sched_vars
  <2>3. value'[TidLock] = value[TidLock]
    BY <1>1, <2>1, SemaAssumption
  <2>4. "run" \notin TidSection
    BY DEF TidSection
  <2> QED BY <1>1, <2>1, <2>2, <2>3, <2>4, OutsideStep, Zenon DEF Goto
<1> QED BY <1>2, <1>3

\* sema_down() takes tid_lock's only unit: nobody else is inside.
LEMMA TakeTidLock ==
  ASSUME IInv, TidInv, SemaDown(TidLock), value[TidLock] # 0, pc[cur] # "tid_write",
         UNCHANGED <<tid_vars, newt>>
  PROVE  TidInv'
<1>1. /\ value \in [Sema -> Nat] /\ pc \in [Thread -> PC] /\ cur \in Thread
      /\ UNCHANGED <<tid, next_tid, status>>
      /\ value' = [value EXCEPT ![TidLock] = @ - 1] /\ pc' = [pc EXCEPT ![cur] = "tid_hold"]
  BY DEF IInv, TypeOK, tid_vars, SemaDown, AfterDown, Goto, sched_vars
<1>2. value[TidLock] = 1 /\ value'[TidLock] = 0
  BY <1>1, SemaAssumption DEF TidInv
<1>3. \A t \in Thread : pc[t] \notin TidSection
  BY <1>2 DEF TidInv
<1>4. \A t \in Thread : pc'[t] \in TidSection => t = cur
  BY <1>1, <1>3
<1>5. \A t \in Thread : pc[t] # "tid_write" /\ pc'[t] # "tid_write"
  BY <1>1, <1>3 DEF TidSection
<1>6. TidsUnique'
  BY <1>1 DEF TidInv, TidsUnique
<1> QED BY <1>1, <1>2, <1>4, <1>5, <1>6 DEF TidInv

\* lock_release()'s sema_up(): the thread that was inside has left.
LEMMA TidUpTid ==
  ASSUME IInv, TidInv, TidUp
  PROVE  TidInv'
<1>1. /\ value \in [Sema -> Nat] /\ pc \in [Thread -> PC] /\ cur \in Thread
      /\ pc[cur] = "tid_up" /\ SemaUp(TidLock) /\ UNCHANGED <<tid, next_tid, newt>>
      /\ pc' = [pc EXCEPT ![cur] = "create_unblock"]
  BY DEF IInv, TypeOK, TidUp, At, Goto, tid_vars
<1>2. NoBirth
  BY <1>1, UpLives, SemaAssumption
<1>3. value'[TidLock] = 1
  <2>1. value[TidLock] = 0
    BY <1>1 DEF TidInv, TidSection
  <2> QED BY <1>1, <2>1, SemaAssumption DEF SemaUp
<1>4. \A t \in Thread : pc[t] \in TidSection => t = cur
  BY <1>1 DEF TidInv, TidSection
<1>5. \A t \in Thread : pc'[t] \notin TidSection
  BY <1>1, <1>4 DEF TidSection
<1>6. \A t \in Thread : pc[t] # "tid_write" /\ pc'[t] # "tid_write"
  BY <1>1, <1>4, <1>5 DEF TidSection
<1>7. TidsUnique'
  BY <1>1, <1>2 DEF TidInv, TidsUnique, NoBirth
<1> QED BY <1>1, <1>2, <1>3, <1>5, <1>6, <1>7 DEF TidInv, NoBirth

\* next_tid++ loads a value above every tid in use ...
LEMMA TidReadTid ==
  ASSUME IInv, TidInv, TidRead
  PROVE  TidInv'
<1>1. /\ pc \in [Thread -> PC] /\ cur \in Thread /\ pc[cur] = "tid_read"
      /\ tid \in [Thread -> Nat] /\ next_tid \in Nat
      /\ UNCHANGED <<status, value, next_tid, newt>>
      /\ pc' = [pc EXCEPT ![cur] = "tid_write"]
      /\ tid' = [tid EXCEPT ![newt[cur]] = next_tid]
  BY DEF IInv, TypeOK, TidRead, At, Goto, sched_vars, sema_vars
<1>2. newt[cur] \in Thread
  BY <1>1 DEF IInv, TypeOK, PcInv, Creating, TidSection
<1>3. \A t \in Thread : pc[t] \in TidSection => t = cur
  BY <1>1 DEF TidInv, TidSection
<1>4. \A t \in Thread : pc'[t] \in TidSection => t = cur
  BY <1>1, <1>3 DEF TidSection
<1>5. \A t \in Thread : (pc[t] # "tid_write") /\ (pc'[t] = "tid_write" <=> t = cur)
  BY <1>1, <1>3, <1>4 DEF TidSection
<1>6. \A t \in Thread : status[t] # "FREE" => tid[t] < next_tid
  BY <1>5 DEF TidInv
<1>7. \A t \in Thread : tid'[t] = IF t = newt[cur] THEN next_tid ELSE tid[t]
  BY <1>1
<1>8. TidsUnique'
  BY <1>1, <1>6, <1>7 DEF TidInv, TidsUnique
<1>9. value'[TidLock] = 0 /\ value'[TidLock] \in {0, 1} /\ next_tid > 0
  BY <1>1 DEF TidInv, TidSection
<1>10. (\A t \in Thread : status[t] # "FREE" =>
          \/ tid[t] < next_tid
          \/ \E u \in Thread : newt[u] = t /\ pc[u] = "tid_write")'
  BY <1>1, <1>5, <1>6, <1>7
<1> QED BY <1>1, <1>2, <1>4, <1>5, <1>7, <1>8, <1>9, <1>10 DEF TidInv

\* ... and stores a value above it.
LEMMA TidWriteTid ==
  ASSUME IInv, TidInv, TidWrite
  PROVE  TidInv'
<1>1. /\ pc \in [Thread -> PC] /\ cur \in Thread /\ pc[cur] = "tid_write"
      /\ tid \in [Thread -> Nat] /\ next_tid \in Nat
      /\ UNCHANGED <<status, value, tid, newt>>
      /\ pc' = [pc EXCEPT ![cur] = "tid_release"]
      /\ next_tid' = tid[newt[cur]] + 1
  BY DEF IInv, TypeOK, TidWrite, At, Goto, sched_vars, sema_vars
<1>2. next_tid' = next_tid + 1
  BY <1>1 DEF TidInv
<1>3. \A t \in Thread : pc[t] \in TidSection => t = cur
  BY <1>1 DEF TidInv, TidSection
<1>4. \A t \in Thread : pc'[t] \in TidSection => t = cur
  BY <1>1, <1>3 DEF TidSection
<1>5. \A t \in Thread : pc'[t] # "tid_write"
  BY <1>1, <1>4 DEF TidSection
<1>6. \A t \in Thread : status[t] # "FREE" => tid[t] < next_tid + 1
  BY <1>1 DEF TidInv
<1>7. TidsUnique'
  BY <1>1 DEF TidInv, TidsUnique
<1>8. value'[TidLock] = 0 /\ value'[TidLock] \in {0, 1} /\ next_tid' > 0
  BY <1>1, <1>2 DEF TidInv, TidSection
<1> QED BY <1>1, <1>2, <1>4, <1>5, <1>6, <1>7, <1>8 DEF TidInv

\* thread_create() makes a thread whose tid is not set yet.
LEMMA CreateTid ==
  ASSUME IInv, TidInv, NEW n \in Thread, ThreadCreate(n)
  PROVE  TidInv'
<1>1. /\ pc \in [Thread -> PC] /\ cur \in Thread /\ pc[cur] = "run" /\ status[n] = "FREE"
      /\ tid \in [Thread -> Nat] /\ next_tid \in Nat /\ newt \in [Thread -> Thread \cup {NULL}]
      /\ status \in [Thread -> Status]
      /\ UNCHANGED <<value, next_tid>>
      /\ status' = [status EXCEPT ![n] = "BLOCKED"]
      /\ tid' = [tid EXCEPT ![n] = 0]
      /\ newt' = [newt EXCEPT ![cur] = n]
      /\ pc' = [pc EXCEPT ![cur] = "tid_acquire", ![n] = "run"]
  BY DEF IInv, TypeOK, ThreadCreate, At, sema_vars
<1>2. \A t \in Thread : pc'[t] = pc[t] \/ pc'[t] \in {"run", "tid_acquire"}
  BY <1>1
<1>3. pc[n] = "run"
  BY <1>1 DEF IInv, PcInv
<1>4. /\ \A t \in Thread : pc'[t] \in TidSection => pc[t] \in TidSection
      /\ \A t \in Thread : pc'[t] = "tid_write" <=> pc[t] = "tid_write"
  BY <1>1, <1>2, <1>3 DEF TidSection
<1>5. \A t \in Thread : pc[t] = "tid_write" => newt'[t] = newt[t] /\ newt[t] # n /\ newt[t] \in Thread
  <2>1. \A t \in Thread : pc[t] = "tid_write" => newt[t] # NULL
    BY DEF IInv, PcInv, Creating, TidSection
  <2>2. \A t \in Thread : newt[t] # NULL => status[newt[t]] = "BLOCKED"
    BY DEF IInv, PcInv
  <2> QED BY <1>1, <2>1, <2>2
<1>6. \A t \in Thread : (t = n /\ tid'[t] = 0) \/ (tid'[t] = tid[t] /\ status'[t] = status[t])
  BY <1>1
<1>7. (\A t \in Thread : status[t] # "FREE" =>
         \/ tid[t] < next_tid
         \/ \E u \in Thread : newt[u] = t /\ pc[u] = "tid_write")'
  BY <1>1, <1>4, <1>5, <1>6 DEF TidInv
<1>8. (\A t \in Thread : pc[t] = "tid_write" => tid[newt[t]] = next_tid)'
  BY <1>1, <1>4, <1>5 DEF TidInv
<1>9. TidsUnique'
  BY <1>6 DEF TidInv, TidsUnique
<1>10. /\ (value[TidLock] \in {0, 1})'
       /\ (\A t \in Thread : pc[t] \in TidSection => value[TidLock] = 0)'
       /\ (\A t, u \in Thread : pc[t] \in TidSection /\ pc[u] \in TidSection => t = u)'
       /\ (next_tid > 0)'
  BY <1>1, <1>4 DEF TidInv, TidSection
<1> QED BY <1>7, <1>8, <1>9, <1>10 DEF TidInv, TidSection

\* thread_start() makes the idle thread while nobody else exists.
LEMMA StartTid ==
  ASSUME IInv, TidInv, NEW n \in Thread, ThreadStart(n)
  PROVE  TidInv'
<1>1. /\ pc \in [Thread -> PC] /\ cur \in Thread /\ pc[cur] = "thread_start" /\ status[n] = "FREE"
      /\ tid \in [Thread -> Nat] /\ next_tid \in Nat /\ status \in [Thread -> Status]
      /\ UNCHANGED <<value, newt>>
      /\ status' = [status EXCEPT ![n] = "READY"]
      /\ tid' = [tid EXCEPT ![n] = next_tid]
      /\ next_tid' = next_tid + 1
      /\ pc' = [pc EXCEPT ![cur] = "start_down", ![n] = "idle"]
  BY DEF IInv, TypeOK, ThreadStart, Unblock, At, sema_vars
<1>2. \A t \in Thread : t # cur => pc[t] = "run"
  BY <1>1 DEF IInv, IdleInv, PcInv
<1>3. \A t \in Thread : pc[t] \notin TidSection
  BY <1>1, <1>2 DEF TidSection
<1>4. \A t \in Thread : pc'[t] \notin TidSection
  BY <1>1, <1>3 DEF TidSection
<1>5. \A t \in Thread : pc[t] # "tid_write" /\ pc'[t] # "tid_write"
  BY <1>3, <1>4 DEF TidSection
<1>6. \A t \in Thread : status[t] # "FREE" => tid[t] < next_tid
  BY <1>5 DEF TidInv
<1>7. \A t \in Thread :
        (t = n /\ tid'[t] = next_tid) \/ (t # n /\ tid'[t] = tid[t] /\ status'[t] = status[t])
  BY <1>1
<1>8. \A t \in Thread : status'[t] # "FREE" => tid'[t] < next_tid'
  BY <1>1, <1>6, <1>7
<1>9. TidsUnique'
  BY <1>1, <1>6, <1>7 DEF TidInv, TidsUnique
<1> QED BY <1>1, <1>4, <1>5, <1>8, <1>9 DEF TidInv

LEMMA NextTid == IInv /\ IInv' /\ TidInv /\ [Next]_vars => TidInv'
<1> SUFFICES ASSUME IInv, IInv', TidInv, [Next]_vars PROVE TidInv'
  OBVIOUS
<1>0. /\ cur \in Thread /\ pc \in [Thread -> PC] /\ value \in [Sema -> Nat]
      /\ newt \in [Thread -> Thread \cup {NULL}] /\ status \in [Thread -> Status]
  BY Zenon DEF IInv, TypeOK
<1>a. \A s \in ClientSema : s \in Sema /\ s # TidLock
  BY DEF ClientSema
<1>b. ASSUME NEW s \in Sema, s # TidLock, SemaUp(s) PROVE value'[TidLock] = value[TidLock] /\ NoBirth
  BY <1>0, <1>b, UpLives, SemaAssumption, Zenon DEF SemaUp
<1>c. ASSUME NoBirth, UNCHANGED <<tid_vars, newt>>, value'[TidLock] = value[TidLock],
             UNCHANGED pc \/ LeaveHlt
      PROVE  TidInv'
  <2>1. \A t \in Thread : pc'[t] = pc[t] \/ (pc[t] = "hlt" /\ pc'[t] = "idle_loop")
    BY <1>0, <1>c DEF LeaveHlt, At
  <2>2. /\ \A t \in Thread : pc'[t] \in TidSection => pc[t] \in TidSection
        /\ \A t \in Thread : pc'[t] = "tid_write" <=> pc[t] = "tid_write"
    BY <2>1 DEF TidSection
  <2> QED BY <1>c, <2>2, TidFrame DEF tid_vars
<1>d. ASSUME NEW p \in {"tid_read", "tid_up", "idle_up", "idle_loop", "hlt"}, Goto(p),
             pc[cur] \in {"tid_hold", "tid_release"} \/ p \notin {"tid_read", "tid_up"},
             pc[cur] # "tid_write", NoBirth, UNCHANGED <<tid, next_tid, newt>>,
             value'[TidLock] = value[TidLock]
      PROVE  TidInv'
  <2>1. \A t \in Thread : pc'[t] = pc[t] \/ (t = cur /\ pc'[t] = p)
    BY <1>0, <1>d DEF Goto
  <2>2. /\ \A t \in Thread : pc'[t] \in TidSection => pc[t] \in TidSection
        /\ \A t \in Thread : pc'[t] = "tid_write" <=> pc[t] = "tid_write"
    BY <1>d, <2>1 DEF TidSection
  <2> QED BY <1>d, <2>2, TidFrame
<1>1. ASSUME NEW s \in ClientSema, CallSemaDown(s) PROVE TidInv'
  BY <1>1, <1>a, DownTid DEF CallSemaDown, At
<1>2. ASSUME NEW s \in ClientSema, CallSemaTryDown(s) PROVE TidInv'
  <2>1. value'[TidLock] = value[TidLock]
    BY <1>0, <1>2, <1>a, SemaAssumption DEF CallSemaTryDown
  <2>2. NoBirth /\ UNCHANGED <<tid_vars, newt, pc>>
    BY <1>2 DEF CallSemaTryDown, NoBirth, sched_vars
  <2> QED BY <1>c, <2>1, <2>2
<1>3. ASSUME NEW s \in ClientSema, CallSemaUp(s) PROVE TidInv'
  BY <1>3, <1>a, <1>b, <1>c DEF CallSemaUp
<1>4. ASSUME NEW t \in Thread, ThreadCreate(t) PROVE TidInv'
  BY <1>4, CreateTid
<1>5. ASSUME ThreadExit PROVE TidInv'
  BY <1>5, <1>c, SwitchLives DEF ThreadExit, sema_vars
<1>6. ASSUME ThreadYield PROVE TidInv'
  BY <1>6, <1>c, SwitchLives DEF ThreadYield, sema_vars
<1>7. ASSUME NEW t \in Thread, ThreadStart(t) PROVE TidInv'
  BY <1>7, StartTid
<1>8. ASSUME StartDown PROVE TidInv'
  BY <1>8, DownTid, SemaAssumption DEF StartDown, At
<1>9. ASSUME IdleEnter PROVE TidInv'
  <2>1. NoBirth /\ UNCHANGED <<tid, next_tid, newt, value>> /\ Goto("idle_up") /\ pc[cur] = "idle"
    BY <1>9 DEF IdleEnter, NoBirth, sched_vars, sema_vars, tid_vars, At
  <2> QED BY <1>d, <2>1
<1>10. ASSUME IdleUp PROVE TidInv'
  <2>1. /\ UNCHANGED <<tid, next_tid, newt>> /\ Goto("idle_loop") /\ pc[cur] = "idle_up"
        /\ SemaUp(IdleStarted)
    BY <1>10 DEF IdleUp, tid_vars, At
  <2>2. value'[TidLock] = value[TidLock] /\ NoBirth
    BY <1>b, <2>1, SemaAssumption
  <2> QED BY <1>d, <2>1, <2>2
<1>11. ASSUME IdleBlock PROVE TidInv'
  <2>1. UNCHANGED <<tid, next_tid, newt, value>> /\ Goto("hlt") /\ pc[cur] = "idle_loop" /\ Block
    BY <1>11 DEF IdleBlock, sema_vars, tid_vars, At
  <2>2. NoBirth
    BY <2>1, SwitchLives
  <2> QED BY <1>d, <2>1, <2>2
<1>12. ASSUME ResumeSemaDown PROVE TidInv'
  <2>1. /\ pc[cur] = "down" /\ downing[cur] \in Sema /\ SemaDown(downing[cur])
        /\ UNCHANGED <<tid_vars, newt>>
    BY <1>0, <1>12, SMTT(30) DEF ResumeSemaDown, At, IInv, TypeOK, PcInv
  <2>2. CASE downing[cur] = TidLock /\ value[TidLock] # 0
    BY <2>1, <2>2, TakeTidLock
  <2>3. CASE downing[cur] # TidLock \/ value[TidLock] = 0
    BY <2>1, <2>3, DownTid
  <2> QED BY <2>2, <2>3, SMTT(30)
<1>13. ASSUME TidAcquire PROVE TidInv'
  <2>1. pc[cur] = "tid_acquire" /\ TidLock \in Sema /\ SemaDown(TidLock)
        /\ UNCHANGED <<tid_vars, newt>>
    BY <1>13, SemaAssumption DEF TidAcquire, At
  <2> QED BY <2>1, TakeTidLock, DownTid
<1>14. ASSUME TidHold PROVE TidInv'
  <2>1. /\ NoBirth /\ UNCHANGED <<tid, next_tid, newt, value>> /\ Goto("tid_read")
        /\ pc[cur] = "tid_hold"
    BY <1>14 DEF TidHold, NoBirth, sched_vars, sema_vars, At
  <2> QED BY <1>d, <2>1
<1>15. ASSUME TidRead PROVE TidInv'
  BY <1>15, TidReadTid
<1>16. ASSUME TidWrite PROVE TidInv'
  BY <1>16, TidWriteTid
<1>17. ASSUME TidRelease PROVE TidInv'
  <2>1. /\ NoBirth /\ UNCHANGED <<tid, next_tid, newt, value>> /\ Goto("tid_up")
        /\ pc[cur] = "tid_release"
    BY <1>17 DEF TidRelease, NoBirth, sched_vars, sema_vars, At
  <2> QED BY <1>d, <2>1
<1>18. ASSUME TidUp PROVE TidInv'
  BY <1>18, TidUpTid
<1>19. ASSUME CreateUnblock PROVE TidInv'
  <2>1. /\ pc[cur] = "create_unblock" /\ Unblock(newt[cur])
        /\ newt' = [newt EXCEPT ![cur] = NULL]
        /\ UNCHANGED <<tid, next_tid, value>> /\ pc' = [pc EXCEPT ![cur] = "run"]
    BY <1>19 DEF CreateUnblock, At, Goto, sema_vars, tid_vars
  <2>2. newt[cur] # NULL
    BY <1>0, <2>1 DEF IInv, PcInv, Creating
  <2>3. status[newt[cur]] = "BLOCKED"
    BY <1>0, <2>2 DEF IInv, PcInv
  <2>4. NoBirth
    BY <1>0, <2>1, <2>3 DEF Unblock, NoBirth
  <2>5. "run" \notin TidSection /\ \A t \in Thread : t # cur => newt'[t] = newt[t]
    BY <1>0, <2>1 DEF TidSection
  <2> QED BY <2>1, <2>4, <2>5, OutsideStep, Zenon
<1>20. ASSUME TimerInterrupt PROVE TidInv'
  <2>1. NoBirth
    BY <1>20, SwitchLives DEF TimerInterrupt, NoBirth
  <2> QED BY <1>20, <1>c, <2>1 DEF TimerInterrupt, sema_vars
<1>21. ASSUME NEW s \in ClientSema, DeviceInterrupt(s) PROVE TidInv'
  BY <1>21, <1>a, <1>b, <1>c DEF DeviceInterrupt
<1>22. ASSUME UNCHANGED vars PROVE TidInv'
  BY <1>22, <1>c DEF vars, sched_vars, sema_vars, NoBirth
<1> QED
  BY <1>1, <1>2, <1>3, <1>4, <1>5, <1>6, <1>7, <1>8, <1>9, <1>10, <1>11, <1>12, <1>13,
     <1>14, <1>15, <1>16, <1>17, <1>18, <1>19, <1>20, <1>21, <1>22, SMTT(30)
     DEF Next, Client, Kernel, Interrupt

\* allocate_tid() never gives two live threads the same tid, whatever is
\* preempted between its load and its store of next_tid.
THEOREM TidsUniqueHolds == Spec => []TidsUnique
<1>1. Init => TidInv
  BY ThreadAssumption, SemaAssumption, SMTT(30) DEF Init, TidInv, TidsUnique, TidSection
<1>2. TidInv => TidsUnique
  BY DEF TidInv
<1> QED BY <1>1, <1>2, SchedulerInvariant, NextTid, PTL DEF Spec
=============================================================================
