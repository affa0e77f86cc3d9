\* What must eventually happen, from a bare cluster and across a failure or a crash.
SPECIFICATION FairSpec
CONSTANTS
  Configs <- LiveConfigs
  Holds = {FALSE, TRUE}
  InitCrds = {}
  CacheLag = FALSE
  Resync = FALSE
  MaxOffRv = 2
  MaxFaults = 1
  Consumers = {c1}
  LateOnboarding = TRUE
  MaxScRv = 2
  MaxCount = 2
  Drifting = {}
PROPERTIES
  OfferingRemoved
  ConfigApplied
  NamespaceReclaimed
CHECK_DEADLOCK FALSE
