SPECIFICATION Spec
CONSTANTS
  Workers = 2
  FoldMaxRounds = 4
  FoldMaxPhases = 3
  Large = Large
  Graphs <- MCGraphs
INVARIANTS
  ReadsProducers
  OutputsComplete
  PlanVerifies
  FewestBarriers
