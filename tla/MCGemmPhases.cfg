SPECIFICATION Spec
CONSTANTS
  Workers = 2
  Phases <- MCPhases
  Stages = 2
  StreamStages = 2
INVARIANTS
  OperandsRight
  SplitsSummed
  CountersRest
PROPERTIES
  PhasesEnd
