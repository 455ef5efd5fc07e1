SPECIFICATION FairSpec
CONSTANTS
  Tasks = {t1, t2, t3, idle}
  NoTask = NoTask
  SpinMutexes = {}
  BlockingMutexes = {lock}
  Semaphores = {}
  Condvars = {}
  InitCount <- OneEach
  MaxCount = 2
  NoMutex = NoMutex
  Pollers = {idle}
  SleepTimes = {0, 1, 3}
  MaxTime = 3
  UsizeCount = 256
PROPERTIES WakesExactlyExpired NobodyForgotten
CHECK_DEADLOCK FALSE
