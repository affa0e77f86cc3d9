\* The Kind is edited at any point of the installation and of the deletion, with a failure
\* or a crash; each Kind has a CRD that is still missing and that the process must restart
\* to watch.
SPECIFICATION FairKinds
CONSTANTS
  Configs <- MoreConfigs
  Holds = {FALSE}
  InitCrds = {"ocsinitializations", "storageclassclaims"}
  CacheLag = FALSE
  Resync = TRUE
  MaxOffRv = 3
  MaxFaults = 1
  Consumers = {c1}
  LateOnboarding = FALSE
  MaxScRv = 1
  MaxCount = 2
  MaxClientRv = 1
  Drifting = {"csv"}
PROPERTIES
  ImplementsLifecycle
  RemovedWhateverKind
  AppliedWhateverKind
CHECK_DEADLOCK FALSE
