SPECIFICATION FairSpec
CONSTANTS
  Workers = 2
  MaxInt = 5
  MaxCalls = 3
  FoldMaxRounds = 4
  FoldMaxPhases = 3
  Large = Large
  Graphs <- MCGraphs
INVARIANTS
  PrerequisitesComplete
PROPERTIES
  CallsEnd
