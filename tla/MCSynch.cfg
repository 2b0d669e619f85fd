SPECIFICATION FairSpec
CONSTANTS
  t1 = t1
  t2 = t2
  t3 = t3
  sem = sem
  lock = lock
  cv = cv
  lbolt = lbolt
  NULL = NULL
  Threads = {t1, t2, t3}
  Sems = {sem}
  Locks = {lock}
  CVs = {cv}
  Addrs <- MCAddrs
  HZ = 2
  InitialCount = 0
  MaxCount = 1
INVARIANTS
  OnePlace
  StackExists
  NoLostWakeup
  LoopsOutsideInterrupts
PROPERTIES
  ImplementsMonitor
  RunnableRuns
  WaitersProgress
