SPECIFICATION FairSpec
CONSTANTS
  Pids = {p1, p2}
  Sessions = {s1}
  Owners = {s1}
  MayLeave = TRUE
  MaxJobs = 2
  SlowReader = TRUE
  MaxLines = 3
PROPERTIES TeardownCompletes LostClientNoticed
CHECK_DEADLOCK FALSE
