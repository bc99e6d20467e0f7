CONSTANTS
  NumProcs = 3
  FirstPage = 1
  NumPages = 7
  WordBits = 3
  Quantum = 2
  Sems = {s, t}
  Counts = {0}
  MaxCount = 1
SPECIFICATION Spec
INVARIANT TypeOK
INVARIANT QueuesMatchStatus
INVARIANT CurrentRunsFirst
INVARIANT PagesConserved
INVARIANT SleepersAccounted
PROPERTY TimeShared
CHECK_DEADLOCK FALSE
