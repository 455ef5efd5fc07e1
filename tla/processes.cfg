SPECIFICATION FairSpec
CONSTANTS
  Tasks = {t1, t2, t3, t4}
  NoTask = NoTask
  Procs = {init, p1, p2}
  InitProc = init
  InitTask = t1
INVARIANTS FamilyTree IdsUnique ScheduledThreads NoPanic
PROPERTY OrphansReaped
