SPECIFICATION PartsSpec
CONSTANTS
  \* AllocatorClients
  MaxId = 4
  First = 3
  End = 7
  \* Sync
  Tasks = {t1, t2, t3, t4}
  NoTask = NoTask
  NoMutex = NoMutex
  SpinMutexes = {spin}
  BlockingMutexes = {lock}
  Semaphores = {sem}
  Condvars = {cond}
  InitCount <- OneEach
  MaxCount = 1
  Pollers = {}
  SleepTimes = {}
  MaxTime = 0
  UsizeCount = 256
  \* UserMemory
  PAGE_SIZE = 4
  WORD = 2
  Base = 64
  TRAP_CONTEXT = 11
  USER_STACK_PAGES = 4
  FirstFrame = 1
  EndFrame = 32
  Programs <- MCPrograms
  InitprocName <- MCInitproc
  Contents <- MCContents
  FdTable <- MCFdTable
  Fds = {3, 4, 5}
  Pids = {1, 2}
  Buffers <- MCBuffers
  WordPtrs = {18, 30}
  ExecPtrs <- MCExecPtrs
  StoreVas = {8}
  MaxCalls = 3
SYMMETRY MCSymmetry
INVARIANTS IdsPartitioned OnePlace MutualExclusion CountIsDebt ArgumentsArrive MemoryAsMeant ArgumentsReach
PROPERTIES PoolSpec HandOffInOrder
CHECK_DEADLOCK FALSE
