SPECIFICATION LiveSpec
CONSTANTS
  main = main
  idle = idle
  NULL = NULL
  Threads = {main, idle, t1}
  Readers = {t1}
  TIME_SLICE = 1
  INTQ_BUFSIZE = 3
  Bytes = {b1}
  MaxDepth = 1
INVARIANTS WaiterOK ConsoleOK
PROPERTIES QueuesInOrder TxDrains ReaderServed
CHECK_DEADLOCK FALSE
