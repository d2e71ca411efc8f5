SPECIFICATION LiveSpec
CONSTANTS
  Thread = {t1, t2, t3, t4}
  Lock = lock
  Cond = {c1, c2}
  NULL = null
  Page = {main, g1, g2, g3}
  Main = main
  Sema = {idle_started, tid_lock, s1}
  IdleStarted = idle_started
  TidLock = tid_lock
  TIME_SLICE = 2
  MaxValue = 2
  MaxTid = 4
INVARIANT MonitorInv
PROPERTIES SignalledWakes LockIsTaken ReadyThreadRuns WakeupReachesValue
CHECK_DEADLOCK FALSE
