\* The copies of the offering, of the StorageCluster and of the consumers may be behind.
SPECIFICATION Spec
CONSTANTS
  Configs <- SizeConfigs
  Holds = {FALSE}
  InitCrds = {"storageclusters", "ocsinitializations"}
  CacheLag = TRUE
  Resync = FALSE
  MaxOffRv = 3
  MaxFaults = 0
  Consumers = {c1}
  LateOnboarding = FALSE
  MaxScRv = 3
  MaxCount = 3
  Drifting = {}
INVARIANTS
  SettledMeansConverged
PROPERTIES
  NoDownscale
  FinalizerBeforeStorageCluster
CHECK_DEADLOCK FALSE
