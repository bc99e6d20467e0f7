\* Seven free blocks: enough for either file, not for both, so that the disk
\* runs out for a data block, an address table and a second-level table.  A
\* call on a file whose table was lost goes no further in the model: the run
\* may stop there.
CONSTANTS
  NumBlocks = 8
  NumReserved = 1
  NumInodes = 2
  NumDirect = 1
  BlockSize = 2
  Names = {a, b, c}
  NoName = NoName
  Data = {10, 11, 20}
  Junk = Junk
  Writes <- MCWrites
  Reads <- MCReads
SPECIFICATION Spec
INVARIANT TypeOK
INVARIANT NoBlockShared
INVARIANT AllocatedIffReferenced
INVARIANT SizeCoversData
INVARIANT NamesUnique
PROPERTY FilesIsolated
PROPERTY WritesKeepTheRest
PROPERTY WritesStore
PROPERTY ReadsReturnTheFile
SYMMETRY NameSymmetry
CHECK_DEADLOCK FALSE
