---------------------------- MODULE ThreadsLemmas ----------------------------
(***************************************************************************)
(* What the scheduler's operators do to the inductive invariant of Threads *)
(* when a thread blocks, wakes another one or moves on by itself.          *)
(***************************************************************************)
EXTENDS Threads, QueueLemmas

\* What schedule() and schedule_tail() leave behind, in terms of sets: one
\* thread is running, it came off the run queue or is the idle thread, and
\* only a dying thread changes otherwise.
LEMMA ScheduleFacts ==
  ASSUME NEW st \in [Thread -> Status], NEW rl \in Seq(Thread),
         TypeOK, IsInjective(rl),
         \A t \in Range(rl) : st[t] = "READY",
         \A t \in Thread : st[t] # "RUNNING",
         idle_thread \notin Range(rl),
         rl = << >> => idle_thread \in Thread,
         Schedule(st, rl)
  PROVE  /\ cur' \in Thread
         /\ status' \in [Thread -> Status]
         /\ thread_ticks' \in 0 .. TIME_SLICE - 1
         /\ ready_list' \in Seq(Thread)
         /\ IsInjective(ready_list')
         /\ Range(ready_list') = Range(rl) \ {cur'}
         /\ cur' \in Range(rl) \/ cur' = idle_thread
         /\ \A t \in Thread : status'[t] = "RUNNING" <=> t = cur'
         /\ \A t \in Thread : t # cur' =>
              status'[t] = IF st[t] = "DYING" /\ t = cur /\ t # Main THEN "FREE" ELSE st[t]
<1> DEFINE next == IF rl = << >> THEN idle_thread ELSE Head(rl)
<1>1. next \in Thread /\ (next \in Range(rl) \/ next = idle_thread)
  BY TailElems
<1>2. /\ cur' = next /\ thread_ticks' = 0
      /\ ready_list' = IF rl = << >> THEN rl ELSE Tail(rl)
      /\ status' = [t \in Thread |->
                      IF t = next THEN "RUNNING"
                      ELSE IF st[t] = "DYING" /\ t = cur /\ t # Main THEN "FREE"
                      ELSE st[t]]
  BY DEF Schedule
<1>3. CASE rl = << >>
  <2>1. ready_list' = rl /\ Range(rl) = {}
    BY <1>2, <1>3, EmptyQueue
  <2>2. ready_list' \in Seq(Thread) /\ IsInjective(ready_list')
        /\ Range(ready_list') = Range(rl) \ {cur'}
    BY <2>1
  <2> QED BY <1>1, <1>2, <2>2, SliceAssumption DEF Status
<1>4. CASE rl # << >>
  <2>1. ready_list' = Tail(rl) /\ next = Head(rl)
    BY <1>2, <1>4
  <2>2. ready_list' \in Seq(Thread) /\ IsInjective(ready_list')
        /\ Range(ready_list') = Range(rl) \ {cur'}
    BY <1>2, <1>4, <2>1, TailElems, PopInjective
  <2> QED BY <1>1, <1>2, <2>2, SliceAssumption DEF Status
<1> QED BY <1>3, <1>4

\* schedule() always finds a thread: with an empty run queue idle_thread is
\* set, unless the CPU is still booting or in the idle thread's first steps.
LEMMA NextExists ==
  ASSUME IInv, pc[cur] \notin {"thread_start", "idle"}, ready_list = << >>
  PROVE  idle_thread \in Thread
<1>1. Range(ready_list) = {}
  BY EmptyQueue
<1>2. ASSUME idle_thread = NULL PROVE FALSE
  <2>1. pc[Main] # "thread_start"
    BY <1>2, ThreadAssumption DEF IInv, IdleInv
  <2>2. PICK t \in Thread : pc[t] = "idle"
    BY <1>2, <2>1 DEF IInv, IdleInv
  <2>3. status[t] = "READY" \/ t = cur
    BY <2>2 DEF IInv, IdleInv, ElemOnOneList
  <2>4. status[t] # "READY"
    BY <1>1, <1>2, ThreadAssumption DEF IInv, NoThreadForgotten, OnReadyList
  <2> QED BY <2>2, <2>3, <2>4
<1> QED BY <1>2 DEF IInv, TypeOK

\* thread_block().
LEMMA BlockFacts ==
  ASSUME IInv, pc[cur] \notin {"thread_start", "idle"}, Block
  PROVE  /\ cur' \in Thread
         /\ status' \in [Thread -> Status]
         /\ thread_ticks' \in 0 .. TIME_SLICE - 1
         /\ ready_list' \in Seq(Thread)
         /\ IsInjective(ready_list')
         /\ Range(ready_list') = Range(ready_list) \ {cur'}
         /\ cur' \in Range(ready_list) \/ cur' = idle_thread
         /\ \A t \in Thread : status'[t] = "RUNNING" <=> t = cur'
         /\ \A t \in Thread : t # cur' =>
              status'[t] = IF t = cur THEN "BLOCKED" ELSE status[t]
<1> DEFINE st == [status EXCEPT ![cur] = "BLOCKED"]
<1>1. TypeOK /\ IsInjective(ready_list) /\ idle_thread \notin Range(ready_list)
  BY DEF IInv, ElemOnOneList, IdleInv
<1>2. /\ st \in [Thread -> Status]
      /\ \A t \in Thread : st[t] # "RUNNING" /\ st[t] = IF t = cur THEN "BLOCKED" ELSE status[t]
      /\ \A t \in Range(ready_list) : st[t] = "READY"
  <2>1. Range(ready_list) \subseteq Thread
    BY DEF IInv, TypeOK, Range
  <2> QED BY <2>1 DEF IInv, TypeOK, Status, ElemOnOneList
<1>3. ready_list = << >> => idle_thread \in Thread
  BY NextExists
<1>4. st[cur] # "DYING"
  BY <1>1, <1>2 DEF TypeOK
<1>5. Schedule(st, ready_list)
  BY DEF Block
<1>6. ready_list \in Seq(Thread)
  BY <1>1 DEF TypeOK
<1> HIDE DEF st
<1> QED BY <1>1, <1>2, <1>3, <1>4, <1>5, <1>6, ScheduleFacts

\* thread_yield(), called by the thread or on return from an interrupt.
LEMMA YieldFacts ==
  ASSUME IInv, pc[cur] # "thread_start", Yield
  PROVE  /\ cur' \in Thread
         /\ status' \in [Thread -> Status]
         /\ thread_ticks' \in 0 .. TIME_SLICE - 1
         /\ ready_list' \in Seq(Thread)
         /\ IsInjective(ready_list')
         /\ Range(ready_list') =
              (Range(ready_list) \cup (IF cur = idle_thread THEN {} ELSE {cur})) \ {cur'}
         /\ cur' \in Range(ready_list) \/ cur' = idle_thread \/ cur' = cur
         /\ \A t \in Thread : status'[t] = "RUNNING" <=> t = cur'
         /\ \A t \in Thread : t # cur' =>
              status'[t] = IF t = cur THEN "READY" ELSE status[t]
<1> DEFINE st == [status EXCEPT ![cur] = "READY"]
           rl == IF cur = idle_thread THEN ready_list ELSE Append(ready_list, cur)
<1>1. /\ TypeOK /\ IsInjective(ready_list) /\ idle_thread \notin Range(ready_list)
      /\ ready_list \in Seq(Thread) /\ cur \in Thread
  BY DEF IInv, ElemOnOneList, IdleInv, TypeOK
<1>2. Range(ready_list) \subseteq Thread
  BY <1>1 DEF Range
<1>3. cur \notin Range(ready_list)
  BY <1>1 DEF IInv, ElemOnOneList
<1>4. /\ rl \in Seq(Thread) /\ IsInjective(rl)
      /\ Range(rl) = Range(ready_list) \cup (IF cur = idle_thread THEN {} ELSE {cur})
  <2>1. CASE cur = idle_thread
    BY <1>1, <2>1
  <2>2. CASE cur # idle_thread
    BY <1>1, <1>3, <2>2, AppendElems, PushInjective
  <2> QED BY <2>1, <2>2
<1>5. /\ st \in [Thread -> Status]
      /\ \A t \in Thread : st[t] # "RUNNING" /\ st[t] = IF t = cur THEN "READY" ELSE status[t]
      /\ \A t \in Thread : st[t] = "DYING" /\ t = cur => FALSE
      /\ \A t \in Range(rl) : st[t] = "READY"
  BY <1>1, <1>2, <1>4 DEF IInv, TypeOK, Status, ElemOnOneList
<1>6. rl = << >> => idle_thread \in Thread
  <2>1. CASE cur = idle_thread
    BY <1>1, <2>1
  <2>2. CASE cur # idle_thread
    BY <1>1, <2>2, AppendElems
  <2> QED BY <2>1, <2>2
<1>7. idle_thread \notin Range(rl)
  BY <1>1, <1>4
<1>8. Schedule(st, rl)
  BY DEF Yield
<1> HIDE DEF st, rl
<1>9. /\ cur' \in Thread
      /\ status' \in [Thread -> Status]
      /\ thread_ticks' \in 0 .. TIME_SLICE - 1
      /\ ready_list' \in Seq(Thread)
      /\ IsInjective(ready_list')
      /\ Range(ready_list') = Range(rl) \ {cur'}
      /\ cur' \in Range(rl) \/ cur' = idle_thread
      /\ \A t \in Thread : status'[t] = "RUNNING" <=> t = cur'
      /\ \A t \in Thread : t # cur' =>
           status'[t] = IF st[t] = "DYING" /\ t = cur /\ t # Main THEN "FREE" ELSE st[t]
  BY <1>1, <1>4, <1>5, <1>6, <1>7, <1>8, ScheduleFacts
<1> QED BY <1>4, <1>5, <1>9

\* thread_unblock(): a thread that is on no list goes to the back of the run
\* queue.
LEMMA UnblockFacts ==
  ASSUME TypeOK, ElemOnOneList, NEW t \in Thread, status[t] # "READY", Unblock(t)
  PROVE  /\ status' \in [Thread -> Status]
         /\ status' = [status EXCEPT ![t] = "READY"]
         /\ cur' = cur /\ thread_ticks' = thread_ticks
         /\ ready_list' \in Seq(Thread)
         /\ IsInjective(ready_list')
         /\ Range(ready_list') = Range(ready_list) \cup {t}
<1>1. ready_list \in Seq(Thread) /\ IsInjective(ready_list) /\ t \notin Range(ready_list)
  BY DEF TypeOK, ElemOnOneList
<1>2. ready_list' = Append(ready_list, t)
  BY DEF Unblock
<1>3. /\ ready_list' \in Seq(Thread) /\ IsInjective(ready_list')
      /\ Range(ready_list') = Range(ready_list) \cup {t}
  BY <1>1, <1>2, AppendElems, PushInjective
<1> QED BY <1>3 DEF Unblock, TypeOK, Status

-----------------------------------------------------------------------------

\* A step of cur that stays inside the idle loop, inside thread_create() or
\* where it was.
LocalMove ==
  /\ pc' \in [Thread -> PC]
  /\ \A t \in Thread : t # cur => pc'[t] = pc[t]
  /\ \/ pc'[cur] = pc[cur]
     \/ pc[cur] \in IdlePC /\ pc'[cur] \in IdlePC
     \/ pc[cur] \in Creating /\ pc'[cur] \in Creating

SamePlace(t) ==
  /\ pc'[t] = "down" <=> pc[t] = "down"
  /\ pc'[t] \in Creating <=> pc[t] \in Creating
  /\ pc'[t] \in IdlePC <=> pc[t] \in IdlePC
  /\ pc'[t] = "idle" <=> pc[t] = "idle"
  /\ pc'[t] = "thread_start" <=> pc[t] = "thread_start"
  /\ pc'[t] = "run" <=> pc[t] = "run"

\* Such a step keeps every thread in the part of the code it was in.
LEMMA LocalMovePlace ==
  ASSUME TypeOK, LocalMove
  PROVE  \A t \in Thread : SamePlace(t)
BY DEF TypeOK, LocalMove, SamePlace, Creating, TidSection, IdlePC

\* Steps that leave the scheduler and the wait lists alone.
LEMMA LocalStep ==
  ASSUME IInv, LocalMove, UNCHANGED <<status, ready_list, cur, waiters, idle_thread, downing, newt>>,
         thread_ticks' \in 0 .. TIME_SLICE - 1,
         value' \in [Sema -> Nat], tid' \in [Thread -> Nat], next_tid' \in Nat,
         tid_holder' \in Thread \cup {NULL}
  PROVE  IInv'
<1>0. \A t \in Thread : SamePlace(t)
  BY LocalMovePlace DEF IInv
<1>1. TypeOK'
  BY SMTT(30) DEF IInv, TypeOK, LocalMove
<1>2. ElemOnOneList'
  <2>1. \A s \in Sema : \A t \in Range(waiters[s]) : t # cur
    BY DEF IInv, ElemOnOneList, TypeOK
  <2>2. \A s \in Sema : \A t \in Range(waiters[s]) : t \in Thread
    BY DEF IInv, TypeOK, Range
  <2> QED BY <2>1, <2>2 DEF IInv, ElemOnOneList, LocalMove
<1>3. NoThreadForgotten'
  BY DEF IInv, NoThreadForgotten, OnReadyList, WaitsOn
<1>4. PcInv'
  <2>1. \A t \in Thread : newt[t] # NULL => newt[t] \in Thread /\ newt[t] # cur
    BY DEF IInv, TypeOK, ElemOnOneList, PcInv
  <2> QED BY <1>0, <2>1 DEF IInv, PcInv, SamePlace
<1>5. IdleInv'
  BY <1>0, ThreadAssumption DEF IInv, IdleInv, SamePlace
<1> QED BY <1>1, <1>2, <1>3, <1>4, <1>5 DEF IInv

\* Threads that block, in sema_down(), keep the invariant.
LEMMA DownBlocks ==
  ASSUME IInv, NEW s \in Sema, value[s] = 0,
         pc[cur] \in {"run", "start_down", "tid_acquire", "down"},
         newt[cur] # NULL <=> s = TidLock,
         waiters' = [waiters EXCEPT ![s] = Append(@, cur)],
         Block, Goto("down"),
         downing' = [downing EXCEPT ![cur] = s],
         UNCHANGED <<value, tid_vars, idle_thread, newt>>
  PROVE  IInv'
<1>0. /\ TypeOK /\ cur \in Thread /\ waiters[s] \in Seq(Thread) /\ cur # idle_thread
      /\ idle_thread \in Thread \cup {NULL} /\ s # NULL
  BY SemaAssumption, SMTT(30) DEF IInv, TypeOK, IdleInv, IdlePC
<1>1. /\ cur' \in Thread
      /\ status' \in [Thread -> Status]
      /\ thread_ticks' \in 0 .. TIME_SLICE - 1
      /\ ready_list' \in Seq(Thread)
      /\ IsInjective(ready_list')
      /\ Range(ready_list') = Range(ready_list) \ {cur'}
      /\ cur' \in Range(ready_list) \/ cur' = idle_thread
      /\ \A t \in Thread : status'[t] = "RUNNING" <=> t = cur'
      /\ \A t \in Thread : t # cur' =>
           status'[t] = IF t = cur THEN "BLOCKED" ELSE status[t]
  BY BlockFacts
<1>2. pc' = [pc EXCEPT ![cur] = "down"] /\ pc' \in [Thread -> PC]
  BY DEF Goto, IInv, TypeOK, PC
<1>3. Range(ready_list) \subseteq Thread /\ \A q \in Sema : Range(waiters[q]) \subseteq Thread
  BY DEF IInv, TypeOK, Range
<1>4. cur' # cur
  BY <1>0, <1>1 DEF IInv, ElemOnOneList
<1>5. /\ waiters' \in [Sema -> Seq(Thread)]
      /\ Range(waiters'[s]) = Range(waiters[s]) \cup {cur}
      /\ IsInjective(waiters'[s])
      /\ \A q \in Sema : q # s => waiters'[q] = waiters[q]
  <2>1. cur \notin Range(waiters[s]) /\ IsInjective(waiters[s])
    BY <1>0 DEF IInv, ElemOnOneList
  <2>2. waiters'[s] = Append(waiters[s], cur) /\ \A q \in Sema : q # s => waiters'[q] = waiters[q]
    BY DEF IInv, TypeOK
  <2>3. Append(waiters[s], cur) \in Seq(Thread) /\ IsInjective(waiters'[s])
        /\ Range(waiters'[s]) = Range(waiters[s]) \cup {cur}
    BY <1>0, <2>1, <2>2, AppendElems, PushInjective
  <2> QED BY <2>2, <2>3 DEF IInv, TypeOK
<1>6. \A q \in Sema : cur' \notin Range(waiters'[q])
  <2>1. \A q \in Sema : cur' \notin Range(waiters[q])
    <3>1. CASE cur' = idle_thread
      <4>1. pc[cur'] \in IdlePC
        BY <1>1, <3>1 DEF IInv, IdleInv
      <4> QED BY <4>1 DEF IInv, ElemOnOneList, IdlePC
    <3>2. CASE cur' \in Range(ready_list)
      <4>1. status[cur'] = "READY"
        BY <3>2 DEF IInv, ElemOnOneList
      <4> QED BY <4>1 DEF IInv, ElemOnOneList
    <3> QED BY <1>1, <3>1, <3>2
  <2> QED BY <1>4, <1>5, <2>1
<1>7. TypeOK'
  BY <1>0, <1>1, <1>2, <1>5 DEF IInv, TypeOK, tid_vars
<1>8. ElemOnOneList'
  <2>1. \A t \in Range(ready_list') : status'[t] = "READY"
    BY <1>0, <1>1, <1>3 DEF IInv, ElemOnOneList
  <2>2. ASSUME NEW q \in Sema, NEW t \in Range(waiters'[q])
        PROVE  status'[t] = "BLOCKED" /\ pc'[t] = "down" /\ downing'[t] = q
    <3>1. t # cur' /\ t \in Thread
      BY <1>0, <1>3, <1>5, <1>6, <2>2
    <3>2. CASE t = cur
      <4>1. q = s
        BY <1>5, <2>2, <3>2, <1>0 DEF IInv, ElemOnOneList
      <4> QED BY <1>0, <1>1, <1>2, <3>1, <3>2, <4>1 DEF TypeOK
    <3>3. CASE t # cur
      <4>1. t \in Range(waiters[q])
        BY <1>5, <2>2, <3>3
      <4> QED BY <1>0, <1>1, <1>2, <3>1, <3>3, <4>1 DEF IInv, TypeOK, ElemOnOneList
    <3> QED BY <3>2, <3>3
  <2>3. \A q \in Sema : IsInjective(waiters'[q])
    BY <1>5 DEF IInv, ElemOnOneList
  <2> QED BY <1>1, <2>1, <2>2, <2>3 DEF ElemOnOneList
<1>9. NoThreadForgotten'
  <2> SUFFICES ASSUME NEW t \in Thread
               PROVE  /\ status'[t] = "READY" => OnReadyList(t)' \/ t = idle_thread
                      /\ status'[t] = "BLOCKED" =>
                           \/ \E q \in Sema : WaitsOn(t, q)'
                           \/ t = idle_thread
                           \/ \E u \in Thread : newt[u] = t /\ status'[u] \notin {"FREE", "DYING"}
    BY DEF NoThreadForgotten
  <2>1. CASE t = cur'
    BY <1>1, <2>1
  <2>2. CASE t = cur
    BY <1>1, <1>4, <1>5, <2>2 DEF WaitsOn
  <2>3. CASE t # cur /\ t # cur'
    <3>1. status'[t] = status[t]
      BY <1>1, <2>3
    <3>2. \A u \in Thread : status[u] \notin {"FREE", "DYING"} => status'[u] \notin {"FREE", "DYING"}
      BY <1>1
    <3>3. \A q \in Sema : t \in Range(waiters[q]) => t \in Range(waiters'[q])
      BY <1>5
    <3>4. t \in Range(ready_list) => t \in Range(ready_list')
      BY <1>1, <2>3
    <3> QED BY <3>1, <3>2, <3>3, <3>4 DEF IInv, NoThreadForgotten, OnReadyList, WaitsOn
  <2> QED BY <2>1, <2>2, <2>3
<1>10. PcInv'
  <2>1. \A t \in Thread : newt[t] # NULL => newt[t] \in Thread /\ newt[t] # cur
    BY DEF IInv, TypeOK, ElemOnOneList, PcInv
  <2>2. \A t \in Thread : newt[t] # NULL => newt[t] # cur'
    <3>1. CASE cur' = idle_thread
      BY <1>1, <3>1 DEF IInv, PcInv, IdleInv, IdlePC
    <3>2. CASE cur' \in Range(ready_list)
      BY <3>2 DEF IInv, PcInv, ElemOnOneList
    <3> QED BY <1>1, <3>1, <3>2
  <2>3. \A t \in Thread : newt[t] # NULL => status'[newt[t]] = "BLOCKED" /\ pc'[newt[t]] = "run"
    BY <1>1, <1>2, <2>1, <2>2 DEF IInv, TypeOK, PcInv
  <2>4. \A t \in Thread : /\ downing'[t] # NULL <=> pc'[t] = "down"
                          /\ newt[t] # NULL <=> pc'[t] \in Creating \/ downing'[t] = TidLock
    BY <1>0, <1>2 DEF IInv, TypeOK, PcInv, Creating, TidSection
  <2>5. \A t \in Thread : status'[t] \in {"FREE", "DYING"} => pc'[t] = "run"
    BY <1>1, <1>2, SMTT(30) DEF IInv, TypeOK, PcInv
  <2> QED BY <2>3, <2>4, <2>5 DEF IInv, PcInv
<1>11. IdleInv'
  <2>1. \A t \in Thread : /\ pc'[t] \in IdlePC <=> pc[t] \in IdlePC
                          /\ pc'[t] = "idle" <=> pc[t] = "idle"
                          /\ pc'[t] = "thread_start" <=> pc[t] = "thread_start"
    BY <1>2 DEF IInv, TypeOK, IdlePC
  <2>2. idle_thread \notin Range(ready_list')
    BY <1>1 DEF IInv, IdleInv
  <2>3. \A t \in Thread : pc[t] = "idle" => status'[t] \in {"READY", "RUNNING"}
    BY <1>1 DEF IInv, IdleInv
  <2>4. \A t \in Thread : pc[t] # "thread_start"
    BY DEF IInv, IdleInv
  <2> QED BY <2>1, <2>2, <2>3, <2>4, ThreadAssumption DEF IInv, IdleInv
<1> QED BY <1>7, <1>8, <1>9, <1>10, <1>11 DEF IInv

\* A turn of sema_down()'s loop keeps the invariant, whether it blocks or
\* takes a unit of the value.
LEMMA DownStep ==
  ASSUME IInv, NEW s \in Sema, SemaDown(s),
         pc[cur] \in {"run", "start_down", "tid_acquire", "down"},
         newt[cur] # NULL <=> s = TidLock,
         UNCHANGED <<tid_vars, idle_thread, newt>>
  PROVE  IInv'
<1>1. CASE value[s] = 0
  BY <1>1, DownBlocks DEF SemaDown
<1>2. CASE value[s] # 0
  <2>1. /\ value' = [value EXCEPT ![s] = @ - 1]
        /\ pc' = [pc EXCEPT ![cur] = AfterDown(s)]
        /\ downing' = [downing EXCEPT ![cur] = NULL]
        /\ UNCHANGED <<status, ready_list, cur, thread_ticks, waiters>>
    BY <1>2 DEF SemaDown, Goto, sched_vars
  <2>2. TypeOK'
    <3>1. value' \in [Sema -> Nat]
      BY <1>2, <2>1 DEF IInv, TypeOK
    <3>2. pc' \in [Thread -> PC]
      BY <2>1 DEF IInv, TypeOK, AfterDown, PC
    <3> QED BY <2>1, <3>1, <3>2 DEF IInv, TypeOK, tid_vars
  <2>3. ElemOnOneList'
    <3>1. \A q \in Sema : \A t \in Range(waiters[q]) : t # cur /\ t \in Thread
      BY SMTT(30) DEF IInv, ElemOnOneList, TypeOK, Range
    <3>2. \A q \in Sema : \A t \in Range(waiters[q]) : pc'[t] = pc[t] /\ downing'[t] = downing[t]
      BY <2>1, <3>1 DEF IInv, TypeOK
    <3> QED BY <2>1, <3>2 DEF IInv, ElemOnOneList
  <2>4. NoThreadForgotten'
    BY <2>1 DEF IInv, NoThreadForgotten, OnReadyList, WaitsOn
  <2>5. PcInv'
    <3>1. \A t \in Thread : newt[t] # NULL => newt[t] \in Thread /\ newt[t] # cur
      BY DEF IInv, TypeOK, ElemOnOneList, PcInv
    <3>2. \A t \in Thread : newt[t] # NULL => status'[newt[t]] = "BLOCKED" /\ pc'[newt[t]] = "run"
      BY <2>1, <3>1 DEF IInv, TypeOK, PcInv
    <3>3. \A t \in Thread : /\ downing'[t] # NULL <=> pc'[t] = "down"
                            /\ newt[t] # NULL <=> pc'[t] \in Creating \/ downing'[t] = TidLock
      BY <2>1, SemaAssumption, SMTT(30) DEF IInv, TypeOK, PcInv, Creating, TidSection, AfterDown
    <3>4. \A t \in Thread : status'[t] \in {"FREE", "DYING"} => pc'[t] = "run"
      BY <2>1 DEF IInv, TypeOK, PcInv, ElemOnOneList
    <3> QED BY <3>2, <3>3, <3>4 DEF IInv, PcInv
  <2>6. IdleInv'
    <3>1. \A t \in Thread : /\ pc'[t] \in IdlePC <=> pc[t] \in IdlePC
                            /\ pc'[t] = "idle" <=> pc[t] = "idle"
                            /\ pc'[t] = "thread_start" <=> pc[t] = "thread_start"
      BY <2>1 DEF IInv, TypeOK, IdlePC, AfterDown
    <3> QED BY <2>1, <3>1, ThreadAssumption DEF IInv, IdleInv
  <2> QED BY <2>2, <2>3, <2>4, <2>5, <2>6 DEF IInv
<1> QED BY <1>1, <1>2

\* thread_unblock() of a thread that waited on a semaphore or was just made.
LEMMA UnblockKeeps ==
  ASSUME IInv, NEW t \in Thread, status[t] = "BLOCKED", t # idle_thread, Unblock(t),
         \A s \in Sema : Range(waiters'[s]) = Range(waiters[s]) \ {t} /\ IsInjective(waiters'[s]),
         waiters' \in [Sema -> Seq(Thread)], value' \in [Sema -> Nat],
         \A u \in Thread : newt'[u] # t,
         \A u \in Thread : u # cur => newt'[u] = newt[u],
         newt'[cur] = newt[cur] \/ (newt[cur] = t /\ newt'[cur] = NULL),
         newt' \in [Thread -> Thread \cup {NULL}],
         \A u \in Thread : u # cur => pc'[u] = pc[u],
         pc' \in [Thread -> PC],
         newt'[cur] # NULL <=> pc'[cur] \in Creating \/ downing[cur] = TidLock,
         pc'[cur] = "down" <=> pc[cur] = "down",
         pc'[cur] \in IdlePC <=> pc[cur] \in IdlePC,
         pc[cur] # "thread_start", pc'[cur] # "thread_start",
         pc'[cur] = "idle" <=> pc[cur] = "idle",
         UNCHANGED <<tid_vars, idle_thread, downing>>
  PROVE  IInv'
<1>1. /\ status' \in [Thread -> Status]
      /\ status' = [status EXCEPT ![t] = "READY"]
      /\ cur' = cur /\ thread_ticks' = thread_ticks
      /\ ready_list' \in Seq(Thread)
      /\ IsInjective(ready_list')
      /\ Range(ready_list') = Range(ready_list) \cup {t}
  BY UnblockFacts DEF IInv
<1>2. cur \in Thread /\ t # cur /\ status[cur] = "RUNNING"
  BY DEF IInv, TypeOK, ElemOnOneList
<1>3. Range(ready_list) \subseteq Thread /\ \A q \in Sema : Range(waiters[q]) \subseteq Thread
  BY DEF IInv, TypeOK, Range
<1>4. TypeOK'
  BY <1>1 DEF IInv, TypeOK, tid_vars
<1>5. ElemOnOneList'
  <2>1. \A u \in Thread : status'[u] = "RUNNING" <=> u = cur'
    BY <1>1, <1>2, SMTT(30) DEF IInv, TypeOK, ElemOnOneList
  <2>2. \A u \in Range(ready_list') : status'[u] = "READY"
    BY <1>1, <1>3, SMTT(30) DEF IInv, TypeOK, ElemOnOneList
  <2>3. ASSUME NEW q \in Sema, NEW u \in Range(waiters'[q])
        PROVE  status'[u] = "BLOCKED" /\ pc'[u] = "down" /\ downing'[u] = q
    <3>1. u \in Range(waiters[q]) /\ u # t /\ u \in Thread
      BY <1>3, <2>3, SMTT(30)
    <3>2. status[u] = "BLOCKED" /\ pc[u] = "down" /\ downing[u] = q
      BY <3>1, SMTT(30) DEF IInv, ElemOnOneList
    <3> QED BY <1>1, <1>2, <3>1, <3>2, SMTT(30) DEF IInv, TypeOK
  <2> QED BY <1>1, <2>1, <2>2, <2>3 DEF ElemOnOneList
<1>6. NoThreadForgotten'
  <2> SUFFICES ASSUME NEW u \in Thread
               PROVE  /\ status'[u] = "READY" => OnReadyList(u)' \/ u = idle_thread
                      /\ status'[u] = "BLOCKED" =>
                           \/ \E q \in Sema : WaitsOn(u, q)'
                           \/ u = idle_thread
                           \/ \E v \in Thread : newt'[v] = u /\ status'[v] \notin {"FREE", "DYING"}
    BY SMTT(30) DEF NoThreadForgotten
  <2>1. CASE u = t
    BY <1>1, <2>1, SMTT(30) DEF IInv, TypeOK, OnReadyList
  <2>2. CASE u # t /\ status[u] = "READY"
    BY <1>1, <2>2, SMTT(30) DEF IInv, TypeOK, NoThreadForgotten, OnReadyList
  <2>3. CASE u # t /\ status[u] = "BLOCKED"
    <3>1. CASE \E q \in Sema : WaitsOn(u, q)
      BY <2>3, <3>1, <1>1, SMTT(30) DEF WaitsOn, IInv, TypeOK
    <3>2. CASE u = idle_thread
      BY <2>3, <3>2, <1>1, SMTT(30) DEF IInv, TypeOK
    <3>3. CASE \E v \in Thread : newt[v] = u /\ status[v] \notin {"FREE", "DYING"}
      <4>1. PICK v \in Thread : newt[v] = u /\ status[v] \notin {"FREE", "DYING"}
        BY <3>3, SMTT(30)
      <4>2. status'[v] \notin {"FREE", "DYING"}
        BY <1>1, <4>1, SMTT(30) DEF IInv, TypeOK
      <4>3. CASE newt'[v] = u
        BY <2>3, <4>2, <4>3, <1>1, SMTT(30) DEF IInv, TypeOK
      <4>4. CASE newt'[v] # u
        BY <2>3, <4>1, <4>4, <1>2, SMTT(30)
      <4> QED BY <4>3, <4>4
    <3> QED BY <2>3, <3>1, <3>2, <3>3, SMTT(30) DEF IInv, NoThreadForgotten
  <2>4. CASE u # t /\ status[u] \notin {"READY", "BLOCKED"}
    BY <1>1, <2>4, SMTT(30) DEF IInv, TypeOK
  <2> QED BY <2>1, <2>2, <2>3, <2>4, SMTT(30)
<1>7. PcInv'
  <2>1. \A u \in Thread : newt'[u] # NULL => newt'[u] = newt[u] /\ newt[u] \in Thread /\ newt[u] # cur
    BY <1>2, ThreadAssumption, SMTT(30) DEF IInv, TypeOK, ElemOnOneList, PcInv
  <2>2. \A u \in Thread : newt'[u] # NULL => status'[newt'[u]] = "BLOCKED" /\ pc'[newt'[u]] = "run"
    BY <1>1, <2>1, SMTT(30) DEF IInv, TypeOK, PcInv
  <2>3. \A u \in Thread : /\ downing'[u] # NULL <=> pc'[u] = "down"
                          /\ newt'[u] # NULL <=> pc'[u] \in Creating \/ downing'[u] = TidLock
    BY SMTT(30) DEF IInv, PcInv
  <2>4. \A u \in Thread : status'[u] \in {"FREE", "DYING"} => pc'[u] = "run"
    BY <1>1, <1>2, SMTT(30) DEF IInv, TypeOK, PcInv
  <2>5. ASSUME NEW u \in Thread, NEW v \in Thread, newt'[u] = newt'[v], newt'[u] # NULL
        PROVE  u = v
    <3>1. newt[u] = newt[v] /\ newt[u] # NULL
      BY <2>1, <2>5, SMTT(30)
    <3> QED BY <3>1, SMTT(30) DEF IInv, PcInv
  <2> QED BY <2>2, <2>3, <2>4, <2>5 DEF PcInv
<1>8. IdleInv'
  <2>1. \A u \in Thread : /\ pc'[u] \in IdlePC <=> pc[u] \in IdlePC
                          /\ pc'[u] = "idle" <=> pc[u] = "idle"
    BY SMTT(30)
  <2>2. idle_thread \notin Range(ready_list')
    BY <1>1, SMTT(30) DEF IInv, IdleInv
  <2>3. \A u \in Thread : pc[u] = "idle" => status'[u] \in {"READY", "RUNNING"}
    BY <1>1, SMTT(30) DEF IInv, IdleInv, TypeOK
  <2>4. ASSUME NEW u \in Thread
        PROVE  pc[u] # "thread_start" /\ pc'[u] # "thread_start"
    <3>1. pc[u] # "thread_start"
      BY DEF IInv, IdleInv
    <3>2. CASE u = cur
      BY <3>1, <3>2
    <3>3. CASE u # cur
      BY <3>1, <3>3
    <3> QED BY <3>1, <3>2, <3>3
  <2>5. \A u \in Thread : pc'[u] \in IdlePC <=> u = idle_thread
    BY <2>1, SMTT(30) DEF IInv, IdleInv
  <2>6. idle_thread = NULL => \E u \in Thread : pc'[u] = "idle"
    BY <2>1, <2>4, ThreadAssumption, SMTT(30) DEF IInv, IdleInv
  <2>7. \A u \in Thread : pc'[u] = "idle" => idle_thread = NULL /\ status'[u] \in {"READY", "RUNNING"}
    BY <2>1, <2>3, SMTT(30) DEF IInv, IdleInv
  <2>8. \A u, v \in Thread : pc'[u] = "idle" /\ pc'[v] = "idle" => u = v
    BY <2>1 DEF IInv, IdleInv
  <2> QED BY <2>2, <2>4, <2>5, <2>6, <2>7, <2>8, SMTT(30) DEF IdleInv
<1> QED BY <1>4, <1>5, <1>6, <1>7, <1>8 DEF IInv

\* sema_up(), by a thread or by an interrupt handler.
LEMMA UpStep ==
  ASSUME IInv, NEW s \in Sema, SemaUp(s), LocalMove, pc[cur] # "thread_start",
         UNCHANGED <<tid_vars, idle_thread, downing, newt>>
  PROVE  IInv'
<1>0. value' \in [Sema -> Nat]
  BY DEF IInv, TypeOK, SemaUp
<1>1. CASE waiters[s] = << >>
  <2>1. UNCHANGED <<status, ready_list, cur, thread_ticks, waiters>>
    BY <1>1 DEF SemaUp, sched_vars
  <2> QED BY <1>0, <2>1, LocalStep, SMTT(30) DEF IInv, TypeOK, tid_vars
<1>2. CASE waiters[s] # << >>
  <2> DEFINE t == Head(waiters[s])
  <2>1. Unblock(t) /\ waiters' = [waiters EXCEPT ![s] = Tail(@)]
    BY <1>2 DEF SemaUp
  <2>2. waiters[s] \in Seq(Thread) /\ IsInjective(waiters[s])
    BY DEF IInv, TypeOK, ElemOnOneList
  <2>3. /\ t \in Thread /\ t \in Range(waiters[s])
        /\ Tail(waiters[s]) \in Seq(Thread)
        /\ IsInjective(Tail(waiters[s]))
        /\ Range(Tail(waiters[s])) = Range(waiters[s]) \ {t}
    <3>1. /\ t \in Thread /\ t \in Range(waiters[s])
          /\ Tail(waiters[s]) \in Seq(Thread)
          /\ Range(waiters[s]) = Range(Tail(waiters[s])) \cup {t}
      BY <1>2, <2>2, TailElems
    <3>2. IsInjective(Tail(waiters[s])) /\ t \notin Range(Tail(waiters[s]))
      BY <1>2, <2>2, PopInjective
    <3> QED BY <3>1, <3>2
  <2> HIDE DEF t
  <2>4. status[t] = "BLOCKED" /\ pc[t] = "down" /\ downing[t] = s
    BY <2>3 DEF IInv, ElemOnOneList
  <2>5. t # idle_thread /\ \A u \in Thread : newt[u] # t
    <3>1. t # idle_thread
      BY <2>3, <2>4 DEF IInv, IdleInv, IdlePC
    <3>2. \A u \in Thread : newt[u] # t
      BY <2>3, <2>4, ThreadAssumption DEF IInv, PcInv
    <3> QED BY <3>1, <3>2
  <2>6. waiters' \in [Sema -> Seq(Thread)]
    BY <2>1, <2>3, SMTT(30) DEF IInv, TypeOK
  <2>7. ASSUME NEW q \in Sema
        PROVE  Range(waiters'[q]) = Range(waiters[q]) \ {t} /\ IsInjective(waiters'[q])
    <3>1. CASE q = s
      BY <2>1, <2>3, <3>1 DEF IInv, TypeOK
    <3>2. CASE q # s
      <4>1. waiters'[q] = waiters[q]
        BY <2>1, <3>2, SMTT(30) DEF IInv, TypeOK
      <4>2. t \notin Range(waiters[q])
        BY <2>4, <3>2 DEF IInv, ElemOnOneList
      <4> QED BY <4>1, <4>2 DEF IInv, ElemOnOneList
    <3> QED BY <3>1, <3>2
  <2>8. cur \in Thread /\ \A u \in Thread : SamePlace(u)
    BY LocalMovePlace, SMTT(30) DEF IInv, TypeOK
  <2>9. newt[cur] # NULL <=> pc'[cur] \in Creating \/ downing[cur] = TidLock
    BY <2>8 DEF IInv, PcInv, SamePlace
  <2>10. /\ pc' \in [Thread -> PC]
         /\ \A u \in Thread : u # cur => pc'[u] = pc[u]
    BY DEF LocalMove
  <2>11. newt \in [Thread -> Thread \cup {NULL}]
    BY DEF IInv, TypeOK
  <2> QED BY <1>0, <2>1, <2>3, <2>4, <2>5, <2>6, <2>7, <2>8, <2>9, <2>10, <2>11, UnblockKeeps
          DEF SamePlace
<1> QED BY <1>1, <1>2
=============================================================================
