SPECIFICATION FairSpec
CONSTANTS
  BUF_SIZE = 4
  Lines <- MCLines
  MaxEvents = 3
INVARIANTS CommandsWhole PromptReturns
PROPERTIES KeysSent
CHECK_DEADLOCK FALSE
