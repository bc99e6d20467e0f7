\* Two slots for three blocks: every block can be evicted, freed while dirty,
\* freed while clean, and allocated again.
CONSTANTS
  NumBlocks = 3
  NumSlots = 2
  Data = {zero, one}
  Zero = zero
  NULL = null
  MaxCount = 2
SPECIFICATION Spec
INVARIANT TypeOK
INVARIANT SlotsPartitioned
INVARIANT CachedOnce
INVARIANT CleanMatchesDisk
PROPERTY DiskGetsOnlyCurrent
PROPERTY FlushMakesDurable
PROPERTY ImplementsStore
VIEW WithoutCall
