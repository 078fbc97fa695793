SPECIFICATION Spec
CONSTANTS
  Clients = {c1, c2}
  Keys = {"model", "small", "unknown", "none"}
  Kernels <- MCKernels
  NoClient = NoClient
  NoKernel = NoKernel
  Multiprocessors = 2
  SharedLimit = 4
  Mode = "decode"
  CountsPerSelection = 3
  Graph <- MCGraph
  Budget <- MCBudget
  Schedulers <- MCSchedulers
  Fallback = "inductor"
  HasDeadline = TRUE
  AdmissionTries = 2
  MaxActive = 2
  Samples = 1
  Ranks <- MCRanks
  Capacity = 2
  MaxRequests = 2
  MaxCalls = 2
INVARIANTS
  SoleCompiler
  CallsFitCaches
  KernelsResident
  SelectedPlan
  StateIsolated
PROPERTIES
  EntriesStable
  FallbackBeforeAnyCall
  RequestsEnd
