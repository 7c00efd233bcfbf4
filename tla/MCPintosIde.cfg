SPECIFICATION FairSpec
CONSTANTS
  SECTOR_BITS = 3
  Named = {1}
  NULL = NULL
  Threads = {main, t1}
  main = main
  Disks = {0, 1}
  Setups <- MCSetups
  Capacity = 3
  MAX_NESTED = 4
  Values = {v1}
  blank = blank
INVARIANTS NothingLeftOver PartitionsInside
PROPERTIES StoreSpec RequestsReturn
