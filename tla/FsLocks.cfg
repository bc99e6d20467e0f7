SPECIFICATION Spec
CONSTANTS
  Processes = {1, 2, 3}
  fd_lock = fd_lock
  inode_lock = inode_lock
  NULL = null
INVARIANT TypeOK
INVARIANT LocksAndWaiters
INVARIANT AtomicWithoutHole
INVARIANT DeadlockNeedsSeekAndHole
CHECK_DEADLOCK FALSE
