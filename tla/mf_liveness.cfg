\* What must eventually happen, across a failure or a crash.
SPECIFICATION FairSpec
CONSTANTS
  Offerings = {o1}
  SecretData <- UninstallData
  EgressCrds = {"egressFirewall", "egressNetworkPolicy"}
  Cidrs <- ChangingBlocks
  CacheLag = FALSE
  MaxSecretRv = 3
  MaxFaults = 1
  Drifting = {}
PROPERTIES
  SecretReleased
  ConfigApplied
  
CHECK_DEADLOCK FALSE
