CONSTANTS
  Names = {a, b}
  NoName = NoName
  NumInodes = 1
  NumFds = 2
  BlockSize = 2
  MaxVirtual = 1
  WordSize = 16
  FILE_MAX_READWRITE_BYTES = 1
  Counts = {1}
  Offsets = {0}
  MaxPos = 2
SPECIFICATION Spec
PROPERTY OpenGivesAFile
