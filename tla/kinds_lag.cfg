\* Every copy that has an informer may be behind, calls fail and the process crashes while
\* the Kind is edited; each Kind has CRDs that the process must restart to watch.
SPECIFICATION KindsSpec
CONSTANTS
  Configs <- BothKinds
  Holds = {FALSE, TRUE}
  InitCrds = {}
  CacheLag = TRUE
  Resync = FALSE
  MaxOffRv = 3
  MaxFaults = 1
  Consumers = {}
  LateOnboarding = FALSE
  MaxScRv = 1
  MaxCount = 2
  MaxClientRv = 1
  Drifting = {}
INVARIANTS
  KindsSettled
  BothWatched
PROPERTIES
  NoResurrectionWhateverKind
CHECK_DEADLOCK FALSE
