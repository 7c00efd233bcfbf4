SPECIFICATION FairSpec
CONSTANTS
  main = main
  idle = idle
  NULL = NULL
  lk = lk
  cv = cv
  Threads = {main, idle, t1, t2}
  TIME_SLICE = 1
  Semas = {}
  Locks = {tid_lock, lk}
  Conds = {cv}
  LockOf <- OneLock
  tid_lock = tid_lock
  idle_started = idle_started
  MaxValue = 1
  MaxTid = 5
INVARIANTS CondOK
PROPERTIES MutexSpec ReadyRuns
