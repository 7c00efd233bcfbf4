SPECIFICATION FairSpec
CONSTANTS
  Threads = {t1, t2}
  NULL = NULL
  FREE_PAGES = 6
  USER_PAGE_LIMIT = 2
  PGSIZE = 10
  BITMAP_SIZE = 1
  ELEM_SIZE = 1
  ELEM_BITS = 4
  ARENA_SIZE = 5
  MIN_BLOCK = 2
  Sizes = {2, 6}
  MaxHeld = 1
INVARIANTS PagesOK Intact ArenasOK
PROPERTIES CallsReturn
