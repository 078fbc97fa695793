SPECIFICATION Spec
CONSTANTS
  Graphs <- MCGraphs
  Workers = 2
  Threads = 2
  ElementsPerThread = 2
  ReductionChunk = 2
INVARIANTS
  OutputsMatchSource
