SPECIFICATION FairSpec
CONSTANTS
  Models <- MCModels
  Arguments <- MCArguments
  Workers = 2
  Epochs = 2
  Ring = 2
  MaxInt = 9
  MaxCalls = 6
  LaunchesPerGraph = 1
  CaptureMayWrap = FALSE
INVARIANTS
  RightAddresses
  NoTrap
  Mirror
PROPERTIES
  StreamDrains
