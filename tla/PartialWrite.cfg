\* A short write at the start of a block that has data.
CONSTANTS
  NumBlocks = 12
  NumReserved = 1
  NumInodes = 2
  NumDirect = 1
  BlockSize = 2
  Names = {a, b, c}
  NoName = NoName
  Data = {10, 11, 20}
  Junk = Junk
  Writes <- MCWrites
  Reads <- MCReads
SPECIFICATION Spec
PROPERTY PartialWriteKeepsRest
