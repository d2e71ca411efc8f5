SPECIFICATION PintosSpec
CONSTANTS
  Thread = {1, 2, 3, 4, 5}
  Main = 1
  Sema = {idle_started, tid_lock, s1}
  IdleStarted = idle_started
  TidLock = tid_lock
  TIME_SLICE = 2
  NULL = null
  MaxValue = 2
  MaxTid = 5
  Caller = {c1, c2}
  PoolCnt = 4
  MaxGroup = 3
  PageCnt = 3
  PGSIZE = 10
  MinBlock = 2
  Header = 2
  Width = 5
  Size = {2, 4, 8, 9}
  Factor = {2}
  MaxBlocks = 5
  Name = {a, b}
  NoName = none
  File = {f1, f2}
  Data = {0, 1}
  Zero = 0
  SectorCnt = 7
  SlotCnt = 2
  MaxCnt = 2
  Failing = {"map", "create", "add"}
SYMMETRY Symmetry
INVARIANTS IInv NoLostWakeup TidsUnique
  PagesAreRight BlocksAreApart ArenasAreRight DiskIsSound MapIsRight
PROPERTIES SemaphorePromise ImplementsFileStore
