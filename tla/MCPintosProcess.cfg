SPECIFICATION Spec
CONSTANTS
  Procs = {p1, p2}
  main = main
  NULL = NULL
  init_page_dir = init_page_dir
  KERNEL_PAGES = 7
  USER_PAGES = 4
  PGSIZE = 2
  PTES = 2
  USER_PDES = 2
  ADDR_BITS = 4
  Images <- MCImages
  MaybeUnopened = TRUE
  MAX_EVICTED = 1
  TouchedPages = {2}
INVARIANTS ActiveDirectory PagesOwned ImageLoaded TlbCoherent
SYMMETRY Symmetry
