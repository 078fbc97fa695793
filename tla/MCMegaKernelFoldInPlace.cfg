SPECIFICATION Spec
CONSTANTS
  Workers = 2
  FoldMaxRounds = 6
  FoldMaxPhases = 3
  Large = Large
  Graphs <- MCRecurrentDecode
INVARIANTS
  ReadsProducers
