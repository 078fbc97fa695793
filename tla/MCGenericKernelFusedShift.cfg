SPECIFICATION Spec
CONSTANTS
  Graphs <- MCShiftGraphs
  Workers = 2
  Threads = 2
  ElementsPerThread = 2
  ReductionChunk = 2
INVARIANTS
  OutputsMatchSource
