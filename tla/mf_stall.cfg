\* The secret is deleted while there is an offering.
SPECIFICATION Spec
CONSTANTS
  Offerings = {o1}
  SecretData <- TokenData
  EgressCrds = {}
  Cidrs = {}
  CacheLag = FALSE
  MaxSecretRv = 1
  MaxFaults = 0
  Drifting = {}
INVARIANTS
  UninstallNotStalled
CHECK_DEADLOCK FALSE
