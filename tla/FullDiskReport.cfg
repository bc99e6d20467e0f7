\* Five free blocks run out while a write still needs one.  A call on a file
\* whose table was lost goes no further in the model: the run may stop there.
CONSTANTS
  NumBlocks = 6
  NumReserved = 1
  NumInodes = 2
  NumDirect = 1
  BlockSize = 2
  Names = {a, b, c}
  NoName = NoName
  Data = {10, 11, 20}
  Junk = Junk
  Writes <- MCWrites
  Reads <- MCReads
SPECIFICATION Spec
SYMMETRY NameSymmetry
CHECK_DEADLOCK FALSE
PROPERTY FailedWriteReported
