\* The caller's lists and the hash table with four elements.
SPECIFICATION Spec
CONSTANTS
  e1 = e1
  e2 = e2
  e3 = e3
  e4 = e4
  NULL = NULL
  Elems = {e1, e2, e3, e4}
  Lists = {a, b}
  Key <- MCKey
  Hash <- MCHash
  MIN_BUCKETS = 1
  BEST_ELEMS_PER_BUCKET = 1
INVARIANTS LinksOK
PROPERTIES CollectionsSpec
