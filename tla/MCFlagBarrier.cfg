SPECIFICATION FairSpec
CONSTANTS
  Workers = 3
  Phases = 4
  BarrierPhases <- TwoBarriers
  MaxInt = 9
  MaxLaunches = 4
INVARIANTS
  IntervalSeparation
  NoStaleRelease
  EpochsFit
PROPERTIES
  BarriersOpen
  ImplementsGridBarrier
