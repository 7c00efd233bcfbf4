SPECIFICATION Spec
CONSTANTS
  main = main
  idle = idle
  NULL = NULL
  lk = lk
  cv = cv
  Threads = {main, idle, t1, t2, t3}
  TIME_SLICE = 2
  Semas = {s1}
  Locks = {tid_lock}
  Conds = {}
  LockOf <- NoLock
  tid_lock = tid_lock
  idle_started = idle_started
  MaxValue = 2
  MaxTid = 6
SYMMETRY Others
INVARIANTS WaitersOK NoLostWakeup TidsUnique
