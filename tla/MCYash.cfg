SPECIFICATION FairSpec
CONSTANTS
  Pids = {p1, p2, p3}
  Owners = {"table", "refused"}
  MayLeave = FALSE
  Shell = Shell
  MaxJobs = 2
  MaxJid = 2
  Reuse = FALSE
  Words = {"fg", "bg", "cat"}
  YASH_MAX_LINE = 30
  YASH_MAX_TOKENS = 5
  YASH_MAX_ARGS = 2
  MaxTokens = 6
INVARIANTS ParserOK Accounting
PROPERTIES KeysReachForeground JobsDeadOnExit
CHECK_DEADLOCK FALSE
