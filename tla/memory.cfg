SPECIFICATION MCMemorySpec
CONSTANTS
  \* AddressSpace
  Procs = {"init", "child"}
  Initproc = "init"
  Entries = 3
  Images <- MCImages
  Args <- MCArgs
  Words <- MCWords
  First = 2
  End = 50
  StackPages = 1
  KStackPages = 1
  MaxThreads = 2
  MaxKStacks = 3
  MaxExecs = 1
  WriteVpns = {0, 2}
  \* BatchSystem, Multiprogramming, AppSpaces
  BatchImages <- MCBatchImages
  TaskImages <- MCTaskImages
  UserTops <- MCUserTops
  Elfs <- MCElfs
  PAGE_SIZE = 2
  TRAMPOLINE_PAGE = 24
  USER_STACK_PAGES = 1
  KERNEL_STACK_PAGES = 1
  EKERNEL = 5
  MEMORY_END = 17
  Bytes = {0, 1, 2}
  TextBytes = {0, 1}
  Addresses = {2, 4, 5, 10}
  MaxLen = 3
  MaxPc = 2
INVARIANTS FramesOwned TablesMatchAreas TrapContexts RunningKept
PROPERTY MemorySpec
CHECK_DEADLOCK FALSE
