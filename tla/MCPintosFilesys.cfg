SPECIFICATION Spec
CONSTANTS
  Names = {n1, n2, n3}
  Handles = {h1, h2}
  NULL = NULL
  SECTORS = 7
  BLOCK_SECTOR_SIZE = 2
  DIR_ENTRIES = 2
  Buffers <- SmallBuffers
  Lengths = {0, 1, 3}
  MayFail = {"disk_inode"}
SYMMETRY Symmetry
INVARIANTS FreeMapOK CountsOK ByteArray
PROPERTIES StoreSpec
