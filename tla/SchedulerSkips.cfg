CONSTANTS
  NumProcs = 3
  FirstPage = 1
  NumPages = 7
  WordBits = 3
  Quantum = 1
  Sems = {s}
  Counts = {0}
  MaxCount = 1
SPECIFICATION Spec
PROPERTY NextInLineRuns
CHECK_DEADLOCK FALSE
