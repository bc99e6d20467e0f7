\* Two inodes and two descriptors for three names, so that both tables run
\* out; one block of two bytes per file; positions from -3 to 3.
CONSTANTS
  Names = {a, b, c}
  NoName = NoName
  NumInodes = 2
  NumFds = 2
  BlockSize = 2
  MaxVirtual = 1
  WordSize = 16
  FILE_MAX_READWRITE_BYTES = 3
  Counts <- MCCounts
  Offsets <- MCOffsets
  MaxPos = 3
SPECIFICATION Spec
INVARIANT TypeOK
INVARIANT DescriptorNamesItsFile
INVARIANT OneDescriptorPerFile
INVARIANT EofMeansEnd
INVARIANT SizeCoversExtent
 
PROPERTY ReaderSeesStableFile
SYMMETRY NameSymmetry
VIEW Seen
