SPECIFICATION FairSpec
CONSTANTS
  Workers = 3
  Epochs = 2
  MaxInt = 13
  MaxCalls = 5
INVARIANTS
  Separation
  TargetsFit
  DenseOrdinals
PROPERTIES
  BarriersOpen
  ImplementsGridBarrier
