SPECIFICATION FairSpec
CONSTANTS
  Second = 3
  MaxSlices = 1
  \* TaskManager
  Workloads = {}
  BootTime = 1
  MaxCalls = 3
  Period = 3
  \* FileKernel
  Apps <- MCApps
  Sessions = {}
  InitialFiles <- MCFiles
  RingBufferSize = 2
  MaxChild = 2
  Depth = 1
  Yields = 2
  Text <- MCText
  ChunkSize = 2
  BufSize = 4
  \* ThreadKernel
  Mains <- MCThreadsOnly
  Threads <- MCThreads
  Tasks = {0, 1, 2, 3}
  NoTask = NoTask
  SpinMutexes = {"spin"}
  BlockingMutexes <- MCBlocking
  Semaphores = {"mutex_sem", "empty", "existed", "sync"}
  Condvars = {"cond"}
  InitCount <- MCInitCount
  MaxCount = 4
  NoMutex = NoMutex
  Pollers = {}
  SleepTimes = {1}
  MaxTime = 6
  UsizeCount = 256
  ThreadCount = 2
  PerThread = 2
  BufferSize = 2
  Forks <- MCForks
  Rounds = 1
INVARIANT AssertsHold
