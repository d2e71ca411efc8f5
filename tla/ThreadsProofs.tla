---------------------------- MODULE ThreadsProofs ----------------------------
(***************************************************************************)
(* Proofs about Threads for any number of threads and semaphores.          *)
(***************************************************************************)
EXTENDS ThreadsLemmas

\* The CPU goes from cur, which becomes ready or, in the idle thread,
\* blocked, to the thread that schedule() picks.
LEMMA ResignStep ==
  ASSUME IInv, LocalMove, pc[cur] # "thread_start",
         NEW x \in {"READY", "BLOCKED"}, x = "BLOCKED" => cur = idle_thread,
         cur' \in Thread,
         status' \in [Thread -> Status],
         thread_ticks' \in 0 .. TIME_SLICE - 1,
         ready_list' \in Seq(Thread),
         IsInjective(ready_list'),
         Range(ready_list') =
           (Range(ready_list) \cup (IF cur = idle_thread THEN {} ELSE {cur})) \ {cur'},
         cur' \in Range(ready_list) \/ cur' = idle_thread \/ cur' = cur,
         \A t \in Thread : status'[t] = "RUNNING" <=> t = cur',
         \A t \in Thread : t # cur' =>
           status'[t] = IF t = cur THEN x ELSE status[t],
         UNCHANGED <<sema_vars, tid_vars, idle_thread, downing, newt>>
  PROVE  IInv'
<1>0. cur \in Thread /\ status[cur] = "RUNNING" /\ idle_thread \in Thread \cup {NULL}
      /\ waiters' = waiters
  BY DEF IInv, TypeOK, ElemOnOneList, sema_vars
<1>1. /\ cur' \in Thread
      /\ status' \in [Thread -> Status]
      /\ thread_ticks' \in 0 .. TIME_SLICE - 1
      /\ ready_list' \in Seq(Thread)
      /\ IsInjective(ready_list')
      /\ Range(ready_list') =
           (Range(ready_list) \cup (IF cur = idle_thread THEN {} ELSE {cur})) \ {cur'}
      /\ cur' \in Range(ready_list) \/ cur' = idle_thread \/ cur' = cur
      /\ \A t \in Thread : status'[t] = "RUNNING" <=> t = cur'
      /\ \A t \in Thread : t # cur' =>
           status'[t] = IF t = cur THEN x ELSE status[t]
  OBVIOUS
<1>2. \A t \in Thread : SamePlace(t)
  BY LocalMovePlace DEF IInv
<1>3. Range(ready_list) \subseteq Thread /\ \A q \in Sema : Range(waiters[q]) \subseteq Thread
  BY DEF IInv, TypeOK, Range
<1>4. /\ \A q \in Sema : cur' \notin Range(waiters[q]) /\ cur \notin Range(waiters[q])
      /\ \A t \in Thread : newt[t] # NULL => newt[t] \in Thread /\ newt[t] # cur /\ newt[t] # cur'
  <2>1. pc[cur'] # "down" \/ status[cur'] # "BLOCKED"
    <3>1. CASE cur' = idle_thread
      BY <1>1, <3>1 DEF IInv, IdleInv, IdlePC
    <3>2. CASE cur' # idle_thread
      BY <1>0, <1>1, <3>2 DEF IInv, ElemOnOneList
    <3> QED BY <3>1, <3>2
  <2>2. pc[cur'] # "run" \/ status[cur'] # "BLOCKED"
    <3>1. CASE cur' = idle_thread
      BY <1>1, <3>1 DEF IInv, IdleInv, IdlePC
    <3>2. CASE cur' # idle_thread
      BY <1>0, <1>1, <3>2 DEF IInv, ElemOnOneList
    <3> QED BY <3>1, <3>2
  <2>3. \A q \in Sema : cur' \notin Range(waiters[q]) /\ cur \notin Range(waiters[q])
    BY <1>0, <2>1 DEF IInv, ElemOnOneList
  <2>4. \A t \in Thread : newt[t] # NULL => newt[t] \in Thread /\ newt[t] # cur /\ newt[t] # cur'
    BY <1>0, <2>2 DEF IInv, TypeOK, PcInv
  <2> QED BY <2>3, <2>4
<1>5. TypeOK'
  BY <1>1 DEF IInv, TypeOK, sema_vars, tid_vars, LocalMove
<1>6. ElemOnOneList'
  <2>1. \A t \in Range(ready_list') : status'[t] = "READY"
    BY <1>0, <1>1, <1>3 DEF IInv, ElemOnOneList
  <2>2. \A q \in Sema : \A t \in Range(waiters[q]) :
          status'[t] = "BLOCKED" /\ pc'[t] = "down" /\ downing[t] = q
    BY <1>1, <1>2, <1>3, <1>4 DEF IInv, ElemOnOneList, SamePlace
  <2> QED BY <1>0, <1>1, <2>1, <2>2 DEF IInv, ElemOnOneList
<1>7. NoThreadForgotten'
  <2>1. ASSUME NEW t \in Thread, status'[t] = "READY"
        PROVE  t \in Range(ready_list') \/ t = idle_thread
    BY <1>1, <2>1 DEF IInv, NoThreadForgotten, OnReadyList
  <2>2. ASSUME NEW t \in Thread, status'[t] = "BLOCKED"
        PROVE  status[t] = "BLOCKED" \/ t = idle_thread
    BY <1>1, <2>2
  <2>3. \A u \in Thread : status[u] \notin {"FREE", "DYING"} => status'[u] \notin {"FREE", "DYING"}
    BY <1>1
  <2> QED BY <1>0, <2>1, <2>2, <2>3 DEF IInv, NoThreadForgotten, OnReadyList, WaitsOn
<1>8. PcInv'
  <2>1. \A t \in Thread : newt[t] # NULL => status'[newt[t]] = "BLOCKED" /\ pc'[newt[t]] = "run"
    BY <1>1, <1>2, <1>4 DEF IInv, PcInv, SamePlace
  <2>2. \A t \in Thread : status'[t] \in {"FREE", "DYING"} => pc'[t] = "run"
    BY <1>1, <1>2 DEF IInv, PcInv, SamePlace
  <2> QED BY <1>2, <2>1, <2>2 DEF IInv, PcInv, SamePlace
<1>9. IdleInv'
  <2>1. idle_thread \notin Range(ready_list')
    BY <1>0, <1>1 DEF IInv, IdleInv
  <2>2. \A t \in Thread : pc[t] = "idle" => status'[t] \in {"READY", "RUNNING"}
    BY <1>0, <1>1, ThreadAssumption DEF IInv, IdleInv
  <2>3. \A t \in Thread : pc[t] # "thread_start"
    BY <1>0 DEF IInv, IdleInv
  <2> QED BY <1>2, <2>1, <2>2, <2>3, ThreadAssumption DEF IInv, IdleInv, SamePlace
<1> QED BY <1>5, <1>6, <1>7, <1>8, <1>9 DEF IInv

\* thread_yield().
LEMMA YieldStep ==
  ASSUME IInv, Yield, LocalMove, pc[cur] # "thread_start",
         UNCHANGED <<sema_vars, tid_vars, idle_thread, downing, newt>>
  PROVE  IInv'
BY YieldFacts, ResignStep

\* The idle thread's thread_block().
LEMMA IdleBlockStep ==
  ASSUME IInv, IdleBlock
  PROVE  IInv'
<1>1. /\ pc[cur] = "idle_loop" /\ cur \in Thread /\ cur = idle_thread /\ Block
      /\ UNCHANGED <<sema_vars, tid_vars, idle_thread, downing, newt>>
  BY DEF IInv, TypeOK, IdleInv, IdlePC, IdleBlock, At
<1>2. LocalMove
  BY <1>1 DEF LocalMove, IdleBlock, Goto, IInv, TypeOK, IdlePC, PC
<1>3. pc[cur] \notin {"thread_start", "idle"}
  BY <1>1
<1> QED BY <1>1, <1>2, <1>3, BlockFacts, ResignStep

\* thread_exit().
LEMMA ExitStep ==
  ASSUME IInv, ThreadExit
  PROVE  IInv'
<1> DEFINE st == [status EXCEPT ![cur] = "DYING"]
<1>0. /\ TypeOK /\ cur \in Thread /\ status[cur] = "RUNNING" /\ pc[cur] = "run"
      /\ cur # idle_thread /\ idle_thread \in Thread \cup {NULL}
      /\ newt[cur] = NULL /\ waiters' = waiters
      /\ UNCHANGED <<value, tid_vars, idle_thread, pc, downing, newt>>
  <2>1. pc[cur] = "run" /\ UNCHANGED <<value, waiters, tid_vars, idle_thread, pc, downing, newt>>
    BY DEF ThreadExit, At, sema_vars
  <2>2. cur # idle_thread
    BY <2>1, Zenon DEF IInv, TypeOK, IdleInv, IdlePC
  <2>3. newt[cur] = NULL
    <3>1. cur \in Thread /\ downing[cur] = NULL
      BY <2>1 DEF IInv, TypeOK, PcInv
    <3>2. pc[cur] \notin Creating
      BY <2>1 DEF Creating, TidSection
    <3> QED BY <3>1, <3>2, SemaAssumption DEF IInv, PcInv
  <2> QED BY <2>1, <2>2, <2>3 DEF IInv, TypeOK, ElemOnOneList
<1>1. Range(ready_list) \subseteq Thread /\ \A q \in Sema : Range(waiters[q]) \subseteq Thread
  BY DEF IInv, TypeOK, Range
<1>2. /\ st \in [Thread -> Status]
      /\ \A t \in Thread : st[t] # "RUNNING" /\ st[t] = IF t = cur THEN "DYING" ELSE status[t]
      /\ \A t \in Range(ready_list) : st[t] = "READY"
  BY <1>0, <1>1 DEF IInv, TypeOK, Status, ElemOnOneList
<1>3. ready_list = << >> => idle_thread \in Thread
  BY <1>0, NextExists
<1>4. /\ Schedule(st, ready_list) /\ ready_list \in Seq(Thread) /\ IsInjective(ready_list)
      /\ idle_thread \notin Range(ready_list)
  BY DEF ThreadExit, IInv, TypeOK, ElemOnOneList, IdleInv
<1> HIDE DEF st
<1>5. /\ cur' \in Thread
      /\ status' \in [Thread -> Status]
      /\ thread_ticks' \in 0 .. TIME_SLICE - 1
      /\ ready_list' \in Seq(Thread)
      /\ IsInjective(ready_list')
      /\ Range(ready_list') = Range(ready_list) \ {cur'}
      /\ cur' \in Range(ready_list) \/ cur' = idle_thread
      /\ \A t \in Thread : status'[t] = "RUNNING" <=> t = cur'
      /\ \A t \in Thread : t # cur' =>
           status'[t] = IF st[t] = "DYING" /\ t = cur /\ t # Main THEN "FREE" ELSE st[t]
  BY <1>0, <1>2, <1>3, <1>4, ScheduleFacts
<1>6. /\ cur' # cur
      /\ status'[cur] \in {"FREE", "DYING"}
      /\ \A t \in Thread : t # cur' /\ t # cur => status'[t] = status[t]
  BY <1>0, <1>2, <1>5 DEF IInv, ElemOnOneList
<1>7. pc[cur'] \notin {"down", "run"} \/ status[cur'] # "BLOCKED"
  BY <1>5 DEF IInv, IdleInv, IdlePC, ElemOnOneList
<1>8. /\ \A q \in Sema : cur' \notin Range(waiters[q]) /\ cur \notin Range(waiters[q])
      /\ \A t \in Thread : newt[t] # NULL => newt[t] \in Thread /\ newt[t] # cur /\ newt[t] # cur'
  BY <1>0, <1>7 DEF IInv, TypeOK, PcInv, ElemOnOneList
<1>9. TypeOK'
  BY <1>0, <1>5 DEF TypeOK, tid_vars
<1>10. ElemOnOneList'
  <2>1. \A t \in Range(ready_list') : status'[t] = "READY"
    BY <1>0, <1>1, <1>5, <1>6 DEF IInv, ElemOnOneList
  <2>2. \A q \in Sema : \A t \in Range(waiters[q]) :
          status'[t] = "BLOCKED" /\ pc[t] = "down" /\ downing[t] = q
    BY <1>1, <1>6, <1>8 DEF IInv, ElemOnOneList
  <2> QED BY <1>0, <1>5, <2>1, <2>2 DEF IInv, ElemOnOneList
<1>11. NoThreadForgotten'
  <2>1. ASSUME NEW t \in Thread, status'[t] = "READY"
        PROVE  t \in Range(ready_list') \/ t = idle_thread
    BY <1>5, <1>6, <2>1 DEF IInv, NoThreadForgotten, OnReadyList
  <2>2. ASSUME NEW t \in Thread, status'[t] = "BLOCKED"
        PROVE  status[t] = "BLOCKED"
    BY <1>5, <1>6, <2>2
  <2>3. \A u \in Thread : u # cur /\ status[u] \notin {"FREE", "DYING"}
                          => status'[u] \notin {"FREE", "DYING"}
    BY <1>5, <1>6
  <2> QED BY <1>0, <2>1, <2>2, <2>3, ThreadAssumption
          DEF IInv, NoThreadForgotten, OnReadyList, WaitsOn
<1>12. PcInv'
  <2>1. \A t \in Thread : newt[t] # NULL => status'[newt[t]] = "BLOCKED"
    BY <1>6, <1>8 DEF IInv, PcInv
  <2>2. \A t \in Thread : status'[t] \in {"FREE", "DYING"} => pc[t] = "run"
    BY <1>0, <1>5, <1>6 DEF IInv, PcInv
  <2> QED BY <1>0, <2>1, <2>2 DEF IInv, PcInv
<1>13. IdleInv'
  <2>1. \A t \in Thread : pc[t] = "idle" => status'[t] \in {"READY", "RUNNING"}
    BY <1>0, <1>5, <1>6 DEF IInv, IdleInv
  <2>2. \A t \in Thread : pc[t] # "thread_start"
    BY <1>0 DEF IInv, IdleInv
  <2> QED BY <1>0, <1>5, <2>1, <2>2 DEF IInv, IdleInv
<1> QED BY <1>9, <1>10, <1>11, <1>12, <1>13 DEF IInv

\* thread_start() creates the idle thread.
LEMMA StartStep ==
  ASSUME IInv, NEW t \in Thread, ThreadStart(t)
  PROVE  IInv'
<1>1. /\ pc[cur] = "thread_start" /\ status[t] = "FREE" /\ Unblock(t)
      /\ pc' = [pc EXCEPT ![cur] = "start_down", ![t] = "idle"]
      /\ UNCHANGED <<value, waiters, tid_holder, idle_thread, downing, newt>>
      /\ tid' = [tid EXCEPT ![t] = next_tid] /\ next_tid' = next_tid + 1
  BY DEF ThreadStart, At, sema_vars
<1>2. /\ status' \in [Thread -> Status]
      /\ status' = [status EXCEPT ![t] = "READY"]
      /\ cur' = cur /\ thread_ticks' = thread_ticks
      /\ ready_list' \in Seq(Thread)
      /\ IsInjective(ready_list')
      /\ Range(ready_list') = Range(ready_list) \cup {t}
  BY <1>1, UnblockFacts DEF IInv
<1>3. /\ cur = Main /\ idle_thread = NULL /\ status[cur] = "RUNNING" /\ t # cur
      /\ \A u \in Thread : u # cur => status[u] = "FREE" /\ pc[u] = "run"
      /\ cur \in Thread
  BY <1>1, ThreadAssumption DEF IInv, TypeOK, IdleInv, ElemOnOneList, PcInv
<1>4. /\ \A q \in Sema : \A u \in Range(waiters[q]) : FALSE
      /\ \A u \in Range(ready_list) : FALSE
      /\ \A u \in Thread : newt[u] = NULL
  <2>1. Range(ready_list) \subseteq Thread /\ \A q \in Sema : Range(waiters[q]) \subseteq Thread
    BY DEF IInv, TypeOK, Range
  <2>2. \A u \in Thread : status[u] \in {"FREE", "RUNNING"}
    BY <1>3
  <2>3. \A q \in Sema : \A u \in Range(waiters[q]) : FALSE
    BY <2>1, <2>2 DEF IInv, ElemOnOneList
  <2>4. \A u \in Range(ready_list) : FALSE
    BY <2>1, <2>2 DEF IInv, ElemOnOneList
  <2>5. \A u \in Thread : newt[u] = NULL
    <3>1. \A u \in Thread : newt[u] # NULL => newt[u] \in Thread /\ status[newt[u]] = "BLOCKED"
      BY DEF IInv, TypeOK, PcInv
    <3> QED BY <2>2, <3>1
  <2> QED BY <2>3, <2>4, <2>5
<1>5. /\ pc' \in [Thread -> PC] /\ pc'[cur] = "start_down" /\ pc'[t] = "idle"
      /\ \A u \in Thread : u # cur /\ u # t => pc'[u] = "run"
  BY <1>1, <1>3 DEF IInv, TypeOK, PC
<1>6. /\ status'[cur] = "RUNNING" /\ status'[t] = "READY"
      /\ \A u \in Thread : u # cur /\ u # t => status'[u] = "FREE"
  BY <1>2, <1>3 DEF IInv, TypeOK
<1>7. TypeOK'
  <2>1. tid' \in [Thread -> Nat] /\ next_tid' \in Nat
    BY <1>1 DEF IInv, TypeOK
  <2> QED BY <1>1, <1>2, <1>5, <2>1, Zenon DEF IInv, TypeOK
<1>8. ElemOnOneList'
  BY <1>1, <1>2, <1>3, <1>4, <1>6, Zenon DEF IInv, ElemOnOneList
<1>9. NoThreadForgotten'
  BY <1>2, <1>3, <1>6 DEF NoThreadForgotten, OnReadyList
<1>10. PcInv'
  <2>1. \A u \in Thread : downing[u] = NULL
    BY <1>1, <1>3 DEF IInv, PcInv
  <2>2. \A u \in Thread : pc'[u] \notin Creating /\ pc'[u] # "down"
    BY <1>3, <1>5 DEF Creating, TidSection
  <2>3. \A u \in Thread : status'[u] \in {"FREE", "DYING"} => pc'[u] = "run"
    BY <1>3, <1>5, <1>6
  <2> QED BY <1>1, <1>4, <2>1, <2>2, <2>3, SemaAssumption, Zenon DEF PcInv
<1>11. IdleInv'
  <2>1. \A u \in Thread : pc'[u] \notin IdlePC /\ pc'[u] # "thread_start" /\ (pc'[u] = "idle" <=> u = t)
    BY <1>3, <1>5 DEF IdlePC
  <2>2. idle_thread' = NULL /\ NULL \notin Range(ready_list')
    BY <1>1, <1>2, <1>3, <1>4, ThreadAssumption
  <2> QED BY <1>6, <2>1, <2>2, ThreadAssumption DEF IdleInv
<1> QED BY <1>7, <1>8, <1>9, <1>10, <1>11 DEF IInv

\* idle() publishes itself.
LEMMA IdleEnterStep ==
  ASSUME IInv, IdleEnter
  PROVE  IInv'
<1>1. /\ pc[cur] = "idle" /\ idle_thread' = cur /\ pc' = [pc EXCEPT ![cur] = "idle_up"]
      /\ UNCHANGED <<status, ready_list, cur, thread_ticks, value, waiters, tid,
                     next_tid, tid_holder, downing, newt>>
  BY DEF IdleEnter, At, Goto, sched_vars, sema_vars, tid_vars
<1>2. cur \in Thread /\ status[cur] = "RUNNING" /\ idle_thread = NULL /\ pc \in [Thread -> PC]
  BY <1>1 DEF IInv, TypeOK, ElemOnOneList, IdleInv
<1>3. pc'[cur] = "idle_up" /\ \A u \in Thread : u # cur => pc'[u] = pc[u]
  BY <1>1, <1>2
<1>4. TypeOK'
  BY <1>1, <1>2, SMTT(30) DEF IInv, TypeOK, PC
<1>5. ElemOnOneList'
  <2>1. \A q \in Sema : \A u \in Range(waiters[q]) : u \in Thread /\ u # cur
    BY <1>1, SMTT(30) DEF IInv, TypeOK, ElemOnOneList, Range
  <2> QED BY <1>1, <1>3, <2>1 DEF IInv, ElemOnOneList
<1>6. NoThreadForgotten'
  BY <1>1, <1>2, ThreadAssumption DEF IInv, NoThreadForgotten, OnReadyList, WaitsOn
<1>7. PcInv'
  <2>1. \A t \in Thread : newt[t] # NULL => newt[t] \in Thread /\ newt[t] # cur
    BY <1>2 DEF IInv, TypeOK, PcInv
  <2>2. \A t \in Thread : /\ pc'[t] = "down" <=> pc[t] = "down"
                          /\ pc'[t] \in Creating <=> pc[t] \in Creating
                          /\ pc[t] = "run" => pc'[t] = "run"
    BY <1>1, <1>2, <1>3 DEF Creating, TidSection
  <2> QED BY <1>1, <2>1, <2>2 DEF IInv, PcInv
<1>8. IdleInv'
  <2>1. \A t \in Thread : pc'[t] \in IdlePC <=> t = cur
    BY <1>2, <1>3, ThreadAssumption DEF IInv, IdleInv, IdlePC
  <2>2. \A t \in Thread : pc'[t] # "idle" /\ pc'[t] # "thread_start"
    BY <1>1, <1>2, <1>3, ThreadAssumption DEF IInv, IdleInv
  <2>3. cur \notin Range(ready_list)
    BY <1>2 DEF IInv, ElemOnOneList
  <2> QED BY <1>1, <1>2, <2>1, <2>2, <2>3, ThreadAssumption DEF IdleInv
<1> QED BY <1>4, <1>5, <1>6, <1>7, <1>8 DEF IInv

\* thread_create() takes a free page and makes it a blocked thread.
LEMMA CreateStep ==
  ASSUME IInv, NEW t \in Thread, ThreadCreate(t)
  PROVE  IInv'
<1>1. /\ pc[cur] = "run" /\ status[t] = "FREE"
      /\ status' = [status EXCEPT ![t] = "BLOCKED"]
      /\ tid' = [tid EXCEPT ![t] = 0]
      /\ newt' = [newt EXCEPT ![cur] = t]
      /\ pc' = [pc EXCEPT ![cur] = "tid_acquire", ![t] = "run"]
      /\ UNCHANGED <<ready_list, cur, thread_ticks, value, waiters, next_tid,
                     tid_holder, idle_thread, downing>>
  BY DEF ThreadCreate, At, sema_vars
<1>2. /\ cur \in Thread /\ t # cur /\ status[cur] = "RUNNING" /\ pc[t] = "run"
      /\ status \in [Thread -> Status] /\ pc \in [Thread -> PC]
      /\ newt \in [Thread -> Thread \cup {NULL}]
  BY <1>1 DEF IInv, TypeOK, ElemOnOneList, PcInv
<1>3. /\ status'[t] = "BLOCKED" /\ \A u \in Thread : u # t => status'[u] = status[u]
      /\ pc'[cur] = "tid_acquire" /\ \A u \in Thread : u # cur => pc'[u] = pc[u]
      /\ newt'[cur] = t /\ \A u \in Thread : u # cur => newt'[u] = newt[u]
  BY <1>1, <1>2
<1>4. TypeOK'
  <2>1. tid' \in [Thread -> Nat] /\ status' \in [Thread -> Status] /\ pc' \in [Thread -> PC]
        /\ newt' \in [Thread -> Thread \cup {NULL}]
    BY <1>1, <1>2, Zenon DEF IInv, TypeOK, Status, PC
  <2> QED BY <1>1, <2>1, Zenon DEF IInv, TypeOK
<1>5. ElemOnOneList'
  <2>1. Range(ready_list) \subseteq Thread /\ \A q \in Sema : Range(waiters[q]) \subseteq Thread
    BY DEF IInv, TypeOK, Range
  <2>2. \A u \in Range(ready_list) : status'[u] = "READY"
    BY <1>1, <1>3, <2>1 DEF IInv, ElemOnOneList
  <2>3. ASSUME NEW q \in Sema, NEW u \in Range(waiters[q])
        PROVE  status'[u] = "BLOCKED" /\ pc'[u] = "down" /\ downing[u] = q
    <3>1. u \in Thread /\ status[u] = "BLOCKED" /\ pc[u] = "down" /\ downing[u] = q
      BY <2>1 DEF IInv, ElemOnOneList
    <3>2. u # t /\ u # cur
      BY <1>1, <1>2, <3>1, SMTT(30)
    <3> QED BY <1>3, <3>1, <3>2
  <2>4. \A u \in Thread : status'[u] = "RUNNING" <=> u = cur
    BY <1>1, <1>2, <1>3 DEF IInv, ElemOnOneList
  <2>5. ready_list' = ready_list /\ waiters' = waiters /\ cur' = cur /\ downing' = downing
    BY <1>1
  <2>6. IsInjective(ready_list) /\ \A q \in Sema : IsInjective(waiters[q])
    BY DEF IInv, ElemOnOneList
  <2> QED BY <2>2, <2>3, <2>4, <2>5, <2>6 DEF ElemOnOneList
<1>6. newt[cur] = NULL /\ \A u \in Thread : newt[u] # t
  <2>1. downing[cur] = NULL /\ pc[cur] \notin Creating
    BY <1>1, <1>2 DEF IInv, PcInv, Creating, TidSection
  <2>2. newt[cur] = NULL
    BY <1>2, <2>1, SemaAssumption, SMTT(30) DEF IInv, PcInv
  <2>3. \A u \in Thread : newt[u] # t
    BY <1>1, ThreadAssumption, SMTT(30) DEF IInv, PcInv
  <2> QED BY <2>2, <2>3
<1>7. NoThreadForgotten'
  <2> SUFFICES ASSUME NEW u \in Thread
               PROVE  /\ status'[u] = "READY" => OnReadyList(u)' \/ u = idle_thread
                      /\ status'[u] = "BLOCKED" =>
                           \/ \E q \in Sema : WaitsOn(u, q)'
                           \/ u = idle_thread
                           \/ \E v \in Thread : newt'[v] = u /\ status'[v] \notin {"FREE", "DYING"}
    BY <1>1 DEF NoThreadForgotten
  <2>1. CASE u = t
    <3>1. newt'[cur] = u /\ status'[cur] = "RUNNING" /\ status'[u] = "BLOCKED"
      BY <1>2, <1>3, <2>1, SMTT(30)
    <3> QED BY <1>2, <3>1
  <2>2. CASE u # t /\ status[u] # "BLOCKED"
    BY <1>1, <1>3, <2>2, SMTT(30) DEF IInv, NoThreadForgotten, OnReadyList
  <2>3. CASE u # t /\ status[u] = "BLOCKED"
    <3>1. CASE \E v \in Thread : newt[v] = u /\ status[v] \notin {"FREE", "DYING"}
      <4>1. PICK v \in Thread : newt[v] = u /\ status[v] \notin {"FREE", "DYING"}
        BY <3>1
      <4>2. v # cur /\ v # t
        BY <1>1, <1>6, <4>1, ThreadAssumption
      <4> QED BY <1>3, <2>3, <4>1, <4>2
    <3>2. CASE \E q \in Sema : WaitsOn(u, q)
      BY <1>1, <1>3, <2>3, <3>2 DEF WaitsOn
    <3>3. CASE u = idle_thread
      BY <1>3, <2>3, <3>3
    <3> QED BY <2>3, <3>1, <3>2, <3>3, SMTT(30) DEF IInv, NoThreadForgotten
  <2> QED BY <2>1, <2>2, <2>3
<1>8. PcInv'
  <2>1. \A u \in Thread : newt[u] # NULL => newt[u] \in Thread /\ newt[u] # cur /\ newt[u] # t
    BY <1>2, <1>6 DEF IInv, TypeOK, PcInv
  <2>2. \A u \in Thread : newt'[u] # NULL => status'[newt'[u]] = "BLOCKED" /\ pc'[newt'[u]] = "run"
    BY <1>2, <1>3, <2>1, SMTT(30) DEF IInv, PcInv
  <2>3. \A u \in Thread : /\ downing[u] # NULL <=> pc'[u] = "down"
                          /\ newt'[u] # NULL <=> pc'[u] \in Creating \/ downing[u] = TidLock
    <3>1. downing[cur] # NULL <=> pc'[cur] = "down"
      BY <1>1, <1>2, <1>3 DEF IInv, PcInv
    <3>2. newt'[cur] # NULL /\ pc'[cur] \in Creating
      BY <1>3, ThreadAssumption DEF Creating
    <3> QED BY <1>3, <3>1, <3>2 DEF IInv, PcInv
  <2>4. \A u \in Thread : status'[u] \in {"FREE", "DYING"} => pc'[u] = "run"
    BY <1>2, <1>3, SMTT(30) DEF IInv, PcInv
  <2>5. \A u, v \in Thread : newt'[u] = newt'[v] /\ newt'[u] # NULL => u = v
    BY <1>3, <1>6 DEF IInv, PcInv
  <2> QED BY <1>1, <2>2, <2>3, <2>4, <2>5, Zenon DEF PcInv
<1>9. IdleInv'
  <2>1. \A u \in Thread : /\ pc'[u] \in IdlePC <=> pc[u] \in IdlePC
                          /\ pc'[u] = "idle" <=> pc[u] = "idle"
                          /\ pc'[u] # "thread_start" /\ pc[u] # "thread_start"
    BY <1>1, <1>2, <1>3 DEF IInv, IdleInv, IdlePC
  <2>2. \A u \in Thread : pc[u] = "idle" => status'[u] = status[u]
    BY <1>2, <1>3, SMTT(30)
  <2> QED BY <1>1, <2>1, <2>2, ThreadAssumption, Zenon DEF IInv, IdleInv
<1> QED BY <1>4, <1>5, <1>7, <1>8, <1>9 DEF IInv

\* thread_create()'s thread_unblock().
LEMMA CreateUnblockStep ==
  ASSUME IInv, CreateUnblock
  PROVE  IInv'
<1> DEFINE t == newt[cur]
<1>1. /\ pc[cur] = "create_unblock" /\ Unblock(t)
      /\ newt' = [newt EXCEPT ![cur] = NULL]
      /\ pc' = [pc EXCEPT ![cur] = "run"]
      /\ UNCHANGED <<value, waiters, tid_vars, idle_thread, downing>>
  BY DEF CreateUnblock, At, Goto, sema_vars
<1>2. cur \in Thread /\ t # NULL /\ t \in Thread /\ status[t] = "BLOCKED" /\ pc[t] = "run"
  BY <1>1 DEF IInv, TypeOK, PcInv, Creating
<1> HIDE DEF t
<1>3. t # idle_thread /\ \A s \in Sema : t \notin Range(waiters[s])
  BY <1>2 DEF IInv, IdleInv, IdlePC, ElemOnOneList
<1>4. \A u \in Thread : u # cur => newt[u] # t
  BY <1>2 DEF t, IInv, PcInv
<1>5. /\ newt' \in [Thread -> Thread \cup {NULL}] /\ newt'[cur] = NULL
      /\ \A u \in Thread : u # cur => newt'[u] = newt[u]
      /\ pc' \in [Thread -> PC] /\ pc'[cur] = "run"
      /\ \A u \in Thread : u # cur => pc'[u] = pc[u]
  BY <1>1, <1>2, SMTT(30) DEF IInv, TypeOK, PC
<1>6. downing[cur] # TidLock
  BY <1>1, <1>2, SemaAssumption DEF IInv, PcInv
<1>7. /\ waiters' \in [Sema -> Seq(Thread)] /\ value' \in [Sema -> Nat]
      /\ \A s \in Sema : Range(waiters'[s]) = Range(waiters[s]) \ {t} /\ IsInjective(waiters'[s])
  BY <1>1, <1>3, SMTT(30) DEF IInv, TypeOK, ElemOnOneList
<1>8. /\ \A u \in Thread : newt'[u] # t
      /\ newt[cur] = t /\ newt'[cur] = NULL
      /\ newt'[cur] # NULL <=> pc'[cur] \in Creating \/ downing[cur] = TidLock
  BY <1>2, <1>4, <1>5, <1>6 DEF t, Creating, TidSection
<1>9. /\ pc'[cur] = "down" <=> pc[cur] = "down"
      /\ pc'[cur] \in IdlePC <=> pc[cur] \in IdlePC
      /\ pc[cur] # "thread_start" /\ pc'[cur] # "thread_start"
      /\ pc'[cur] = "idle" <=> pc[cur] = "idle"
  BY <1>1, <1>5 DEF IdlePC
<1> QED BY <1>1, <1>2, <1>3, <1>5, <1>7, <1>8, <1>9, UnblockKeeps, SMTT(30)

-----------------------------------------------------------------------------

\* The state thread_init() sets up satisfies the invariant.
LEMMA InitIInv == Init => IInv
<1> SUFFICES ASSUME Init PROVE IInv
  OBVIOUS
<1>1. /\ Range(ready_list) = {} /\ IsInjective(ready_list) /\ ready_list \in Seq(Thread)
      /\ \A s \in Sema : /\ Range(waiters[s]) = {} /\ IsInjective(waiters[s])
                         /\ waiters[s] \in Seq(Thread)
  BY EmptyQueue DEF Init
<1>2. TypeOK
  BY <1>1, ThreadAssumption, SliceAssumption DEF Init, TypeOK, Status, PC
<1>3. ElemOnOneList
  BY <1>1, ThreadAssumption DEF Init, ElemOnOneList
<1>4. NoThreadForgotten
  BY DEF Init, NoThreadForgotten
<1>5. PcInv
  BY SemaAssumption DEF Init, PcInv, Creating, TidSection
<1>6. IdleInv
  BY <1>1, ThreadAssumption DEF Init, IdleInv, IdlePC
<1> QED BY <1>2, <1>3, <1>4, <1>5, <1>6 DEF IInv

\* Every step of a client, of the kernel or of an interrupt keeps it.
LEMMA NextIInv == IInv /\ [Next]_vars => IInv'
<1> SUFFICES ASSUME IInv, [Next]_vars PROVE IInv'
  OBVIOUS
<1>0. cur \in Thread /\ pc \in [Thread -> PC] /\ TypeOK
  BY DEF IInv, TypeOK
<1>t. /\ thread_ticks \in 0 .. TIME_SLICE - 1 /\ value \in [Sema -> Nat]
      /\ tid \in [Thread -> Nat] /\ next_tid \in Nat
      /\ tid_holder \in Thread \cup {NULL}
  BY <1>0 DEF TypeOK
<1>n. ASSUME pc[cur] \in {"run", "start_down"} PROVE newt[cur] = NULL
  <2>1. downing[cur] = NULL /\ pc[cur] \notin Creating
    BY <1>0, <1>n DEF IInv, PcInv, Creating, TidSection
  <2> QED BY <1>0, <2>1, SemaAssumption DEF IInv, PcInv
<1>s. ASSUME UNCHANGED pc PROVE LocalMove
  BY <1>0, <1>s DEF LocalMove
<1>h. ASSUME LeaveHlt PROVE LocalMove
  BY <1>0, <1>h DEF LeaveHlt, LocalMove, At, IdlePC, PC
<1>1. ASSUME NEW s \in ClientSema, CallSemaDown(s) PROVE IInv'
  <2>1. s \in Sema /\ s # TidLock /\ pc[cur] = "run"
    BY <1>1 DEF ClientSema, CallSemaDown, At
  <2> QED BY <1>1, <1>n, <2>1, DownStep DEF CallSemaDown
<1>2. ASSUME NEW s \in ClientSema, CallSemaTryDown(s) PROVE IInv'
  <2>1. value' \in [Sema -> Nat] /\ LocalMove
    <3>1. value' \in [Sema -> Nat]
      BY <1>2, <1>t DEF CallSemaTryDown, ClientSema
    <3>2. LocalMove
      BY <1>2, <1>s DEF CallSemaTryDown
    <3> QED BY <3>1, <3>2
  <2> QED BY <1>2, <1>t, <2>1, LocalStep DEF CallSemaTryDown, sched_vars, tid_vars
<1>3. ASSUME NEW s \in ClientSema, CallSemaUp(s) PROVE IInv'
  <2>1. s \in Sema /\ pc[cur] # "thread_start" /\ LocalMove /\ SemaUp(s)
        /\ UNCHANGED <<tid_vars, idle_thread, downing, newt>>
    BY <1>3, <1>s DEF CallSemaUp, ClientSema, At
  <2> QED BY <2>1, UpStep
<1>4. ASSUME NEW t \in Thread, ThreadCreate(t) PROVE IInv'
  BY <1>4, CreateStep
<1>5. ASSUME ThreadExit PROVE IInv'
  BY <1>5, ExitStep
<1>6. ASSUME ThreadYield PROVE IInv'
  <2>1. pc[cur] # "thread_start" /\ LocalMove /\ Yield
        /\ UNCHANGED <<sema_vars, tid_vars, idle_thread, downing, newt>>
    BY <1>6, <1>s DEF ThreadYield, At
  <2> QED BY <2>1, YieldStep
<1>7. ASSUME NEW t \in Thread, ThreadStart(t) PROVE IInv'
  BY <1>7, StartStep
<1>8. ASSUME StartDown PROVE IInv'
  <2>1. IdleStarted \in Sema /\ IdleStarted # TidLock /\ pc[cur] = "start_down"
    BY <1>8, SemaAssumption DEF StartDown, At
  <2> QED BY <1>8, <1>n, <2>1, DownStep DEF StartDown
<1>9. ASSUME IdleEnter PROVE IInv'
  BY <1>9, IdleEnterStep
<1>10. ASSUME IdleUp PROVE IInv'
  <2>1. IdleStarted \in Sema /\ pc[cur] = "idle_up" /\ LocalMove
    BY <1>0, <1>10, SemaAssumption DEF IdleUp, At, Goto, LocalMove, IdlePC, PC
  <2> QED BY <1>10, <2>1, UpStep DEF IdleUp
<1>11. ASSUME IdleBlock PROVE IInv'
  BY <1>11, IdleBlockStep
<1>12. ASSUME ResumeSemaDown PROVE IInv'
  <2>1. /\ pc[cur] = "down" /\ downing[cur] \in Sema /\ SemaDown(downing[cur])
        /\ UNCHANGED <<tid_vars, idle_thread, newt>>
    BY <1>0, <1>12, SMTT(30) DEF ResumeSemaDown, At, IInv, TypeOK, PcInv
  <2>2. newt[cur] # NULL <=> downing[cur] = TidLock
    BY <1>0, <2>1, SMTT(30) DEF IInv, PcInv, Creating, TidSection
  <2> QED BY <2>1, <2>2, DownStep, SMTT(30)
<1>13. ASSUME TidAcquire PROVE IInv'
  <2>1. pc[cur] = "tid_acquire" /\ TidLock \in Sema /\ newt[cur] # NULL
    BY <1>0, <1>13, SemaAssumption DEF TidAcquire, At, IInv, PcInv, Creating
  <2> QED BY <1>13, <2>1, DownStep DEF TidAcquire
<1>14. ASSUME TidHold PROVE IInv'
  <2>1. LocalMove /\ tid_holder' \in Thread \cup {NULL}
    BY <1>0, <1>14 DEF TidHold, At, Goto, LocalMove, Creating, TidSection, PC
  <2> QED BY <1>14, <1>t, <2>1, LocalStep DEF TidHold, sched_vars, sema_vars
<1>15. ASSUME TidRead PROVE IInv'
  <2>1. LocalMove
    BY <1>0, <1>15 DEF TidRead, At, Goto, LocalMove, Creating, TidSection, PC
  <2>2. tid' \in [Thread -> Nat]
    BY <1>15, <1>t, Zenon DEF TidRead
  <2> QED BY <1>15, <1>t, <2>1, <2>2, LocalStep DEF TidRead, sched_vars, sema_vars
<1>16. ASSUME TidWrite PROVE IInv'
  <2>1. LocalMove
    BY <1>0, <1>16 DEF TidWrite, At, Goto, LocalMove, Creating, TidSection, PC
  <2>2. next_tid' \in Nat
    <3>1. newt[cur] \in Thread
      BY <1>0, <1>16 DEF TidWrite, At, IInv, TypeOK, PcInv, Creating, TidSection
    <3> QED BY <1>16, <1>t, <3>1, SMTT(30) DEF TidWrite
  <2> QED BY <1>16, <1>t, <2>1, <2>2, LocalStep DEF TidWrite, sched_vars, sema_vars
<1>17. ASSUME TidRelease PROVE IInv'
  <2>1. LocalMove /\ tid_holder' \in Thread \cup {NULL}
    BY <1>0, <1>17 DEF TidRelease, At, Goto, LocalMove, Creating, TidSection, PC
  <2> QED BY <1>17, <1>t, <2>1, LocalStep DEF TidRelease, sched_vars, sema_vars
<1>18. ASSUME TidUp PROVE IInv'
  <2>1. TidLock \in Sema /\ pc[cur] = "tid_up" /\ LocalMove
    BY <1>0, <1>18, SemaAssumption DEF TidUp, At, Goto, LocalMove, Creating, TidSection, PC
  <2> QED BY <1>18, <2>1, UpStep DEF TidUp
<1>19. ASSUME CreateUnblock PROVE IInv'
  BY <1>19, CreateUnblockStep
<1>20. ASSUME TimerInterrupt PROVE IInv'
  <2>1. /\ LocalMove /\ pc[cur] # "thread_start"
        /\ UNCHANGED <<sema_vars, tid_vars, idle_thread, downing, newt>>
    BY <1>20, <1>h DEF TimerInterrupt, InterruptsOn
  <2>2. CASE Yield
    BY <2>1, <2>2, YieldStep
  <2>3. CASE /\ thread_ticks + 1 < TIME_SLICE
             /\ thread_ticks' = thread_ticks + 1
             /\ UNCHANGED <<status, ready_list, cur>>
    <3>1. thread_ticks' \in 0 .. TIME_SLICE - 1
      BY <1>t, <2>3, SliceAssumption
    <3> QED BY <1>t, <2>1, <2>3, <3>1, LocalStep DEF sema_vars, tid_vars
  <2> QED BY <1>20, <2>2, <2>3 DEF TimerInterrupt
<1>21. ASSUME NEW s \in ClientSema, DeviceInterrupt(s) PROVE IInv'
  <2>1. s \in Sema /\ pc[cur] # "thread_start" /\ LocalMove /\ SemaUp(s)
        /\ UNCHANGED <<tid_vars, idle_thread, downing, newt>>
    BY <1>21, <1>h DEF DeviceInterrupt, InterruptsOn, ClientSema
  <2> QED BY <2>1, UpStep
<1>22. ASSUME UNCHANGED vars PROVE IInv'
  BY <1>22, <1>s, <1>t, LocalStep DEF vars, sched_vars, sema_vars, tid_vars
<1> QED
  BY <1>1, <1>2, <1>3, <1>4, <1>5, <1>6, <1>7, <1>8, <1>9, <1>10, <1>11, <1>12, <1>13,
     <1>14, <1>15, <1>16, <1>17, <1>18, <1>19, <1>20, <1>21, <1>22
     DEF Next, Client, Kernel, Interrupt

\* For any threads and semaphores: types hold, so schedule() always has a
\* thread to switch to; each thread's elem is on at most one list; no ready
\* or blocked thread is forgotten.
THEOREM SchedulerInvariant == Spec => []IInv
BY InitIInv, NextIInv, PTL DEF Spec

\* struct thread's elem is on one list at a time, matching its status.
THEOREM ElemOnOneListHolds == Spec => []ElemOnOneList
<1>1. IInv => ElemOnOneList
  BY DEF IInv
<1> QED BY <1>1, SchedulerInvariant, PTL

\* A ready thread is queued to run, a blocked one is reachable by whoever is
\* to wake it.
THEOREM NoThreadForgottenHolds == Spec => []NoThreadForgotten
<1>1. IInv => NoThreadForgotten
  BY DEF IInv
<1> QED BY <1>1, SchedulerInvariant, PTL

\* The idle thread is never on the ready list nor on a wait list.
THEOREM IdleNeverQueuedHolds == Spec => []IdleNeverQueued
<1>1. IInv => IdleNeverQueued
  <2> SUFFICES ASSUME IInv, idle_thread # NULL
               PROVE  /\ idle_thread \notin Range(ready_list)
                      /\ \A s \in Sema : idle_thread \notin Range(waiters[s])
    BY DEF IdleNeverQueued, OnReadyList, WaitsOn
  <2>1. idle_thread \in Thread /\ pc[idle_thread] \in IdlePC
    BY DEF IInv, TypeOK, IdleInv
  <2> QED BY <2>1 DEF IInv, IdleInv, ElemOnOneList, IdlePC
<1> QED BY <1>1, SchedulerInvariant, PTL

-----------------------------------------------------------------------------

\* sema_down(), first or after a wakeup, is a step of the promised semaphore.
LEMMA DownPromise ==
  ASSUME IInv, NEW s \in Sema, SemaDown(s), downing[cur] \in {NULL, s}
  PROVE  Promise!Next
<1>1. cur \in Thread /\ value[s] \in Nat /\ downing \in [Thread -> Sema \cup {NULL}]
  BY DEF IInv, TypeOK
<1>2. CASE value[s] = 0
  <2>1. Promise!Wait(cur, s)
    BY <1>2 DEF SemaDown, Promise!Wait
  <2> QED BY <1>1, <2>1 DEF Promise!Next
<1>3. CASE value[s] # 0
  <2>1. Promise!Down(cur, s)
    BY <1>1, <1>3 DEF SemaDown, Promise!Down
  <2> QED BY <1>1, <2>1 DEF Promise!Next
<1> QED BY <1>2, <1>3

\* So is sema_up(), by a thread or by an interrupt handler.
LEMMA UpPromise ==
  ASSUME NEW s \in Sema, SemaUp(s), UNCHANGED downing
  PROVE  Promise!Next
<1>1. Promise!Up(s)
  BY DEF SemaUp, Promise!Up
<1> QED BY <1>1 DEF Promise!Next

\* Every step of the kernel is a step of the promised semaphores or none.
LEMMA NextPromise == IInv /\ [Next]_vars => [Promise!Next]_<<value, downing>>
<1> SUFFICES ASSUME IInv, [Next]_vars, ~ UNCHANGED <<value, downing>>
             PROVE  Promise!Next
  OBVIOUS
<1>0. /\ cur \in Thread /\ IdleStarted \in Sema /\ TidLock \in Sema
      /\ value \in [Sema -> Nat] /\ downing \in [Thread -> Sema \cup {NULL}]
  BY SemaAssumption, SMTT(30) DEF IInv, TypeOK
<1>1. ASSUME pc[cur] # "down" PROVE downing[cur] = NULL
  BY <1>0, <1>1 DEF IInv, PcInv
<1>2. ASSUME NEW s \in ClientSema, CallSemaDown(s) PROVE Promise!Next
  BY <1>1, <1>2, DownPromise DEF CallSemaDown, At, ClientSema
<1>3. ASSUME NEW s \in ClientSema, CallSemaTryDown(s) PROVE Promise!Next
  <2>1. s \in Sema /\ downing[cur] = NULL /\ downing' = downing /\ value[s] > 0
        /\ value' = [value EXCEPT ![s] = @ - 1]
    BY <1>1, <1>3 DEF CallSemaTryDown, At, ClientSema
  <2>2. Promise!Down(cur, s)
    BY <1>0, <2>1 DEF Promise!Down
  <2> QED BY <1>0, <2>1, <2>2 DEF Promise!Next
<1>4. ASSUME NEW s \in ClientSema, CallSemaUp(s) \/ DeviceInterrupt(s) PROVE Promise!Next
  BY <1>4, UpPromise DEF CallSemaUp, DeviceInterrupt, ClientSema
<1>5. ASSUME IdleUp \/ TidUp PROVE Promise!Next
  BY <1>0, <1>5, UpPromise DEF IdleUp, TidUp
<1>6. ASSUME StartDown \/ TidAcquire PROVE Promise!Next
  BY <1>0, <1>1, <1>6, DownPromise DEF StartDown, TidAcquire, At
<1>7. ASSUME ResumeSemaDown PROVE Promise!Next
  <2>1. downing[cur] \in Sema
    BY <1>0, <1>7 DEF ResumeSemaDown, At, IInv, PcInv
  <2> QED BY <1>7, <2>1, DownPromise DEF ResumeSemaDown
<1>8. ASSUME NEW t \in Thread, ThreadCreate(t) \/ ThreadStart(t) PROVE FALSE
  BY <1>8, SMTT(30) DEF ThreadCreate, ThreadStart, sema_vars
<1>9. ASSUME \/ ThreadExit \/ ThreadYield \/ IdleEnter \/ IdleBlock \/ TidHold \/ TidRead
             \/ TidWrite \/ TidRelease \/ CreateUnblock \/ TimerInterrupt
      PROVE  FALSE
  BY <1>9 DEF ThreadExit, ThreadYield, IdleEnter, IdleBlock, TidHold, TidRead, TidWrite,
              TidRelease, CreateUnblock, TimerInterrupt, sema_vars
<1>10. ASSUME UNCHANGED vars PROVE FALSE
  BY <1>10 DEF vars, sema_vars
<1> QED
  BY <1>2, <1>3, <1>4, <1>5, <1>6, <1>7, <1>8, <1>9, <1>10 DEF Next, Client, Kernel, Interrupt

\* The kernel's semaphores implement counting semaphores: sema_down() never
\* returns without a unit, however the threads that wait are scheduled.
THEOREM SemaphoreRefinement == Spec => SemaphorePromise
<1>1. Init => Promise!Init
  BY SemaAssumption DEF Init, Promise!Init
<1> QED BY <1>1, NextPromise, SchedulerInvariant, PTL DEF Spec, SemaphorePromise, Promise!Spec
=============================================================================
