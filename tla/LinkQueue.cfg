SPECIFICATION Spec
CONSTANTS
  QUEUE_MAX_LINKS = 4
  Queues = {ready, waiting}
  freeLinks = freeLinks
  Objects = {a, b, c, d, e}
  NULL = null
INVARIANT TypeOK
INVARIANT PointersMirror
PROPERTY ImplementsSequences
SYMMETRY Symmetry
VIEW WithoutCall
