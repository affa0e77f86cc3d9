\* Two offerings with consumers come and go around the deletion of the secret and may be
\* obstructed, a delete fails or the process crashes at any point of the uninstallation.
SPECIFICATION FairSystem
CONSTANTS
  Offerings = {o1, o2}
  Users = {u1}
  SecretData <- UninstallData
  EgressCrds = {}
  Cidrs = {}
  CacheLag = FALSE
  MaxSecretRv = 3
  MaxFaults = 1
  Drifting = {}
INVARIANTS
  UninstallWaits
  EveryOfferingAsked
  StorageNotStranded
PROPERTIES
  Uninstalled
CHECK_DEADLOCK FALSE
