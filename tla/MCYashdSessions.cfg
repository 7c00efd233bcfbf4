SPECIFICATION Spec
CONSTANTS
  Pids = {p1, p2, p3}
  Sessions = {s1, s2}
  Owners = {s1, s2}
  MayLeave = FALSE
  MaxJobs = 1
  SlowReader = TRUE
  MaxLines = 2
SYMMETRY Symmetry
INVARIANTS OwnGroup NoOrphans
CHECK_DEADLOCK FALSE
