SPECIFICATION Spec
CONSTANTS
  FS_MAX_OPEN_FILES = 3
  DISK_NUMBLOCKS = 5
  Contents = {z, u, m, n}
  Zero = z
  UsedBlocks = u
  Marked = m
  Unmarked = n
  Absent = absent
  NumMetaBlocks = 2
  FbvStart = 3
INVARIANT TypeOK
INVARIANT MarkedMeansComplete
INVARIANT DiskStaysReachable
PROPERTY ReopenRestores
