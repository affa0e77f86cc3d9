\* remote_write_config is taken out of the secret.
SPECIFICATION Spec
CONSTANTS
  Offerings = {o1}
  SecretData <- TokenData
  EgressCrds = {}
  Cidrs = {}
  CacheLag = FALSE
  MaxSecretRv = 3
  MaxFaults = 0
  Drifting = {}
INVARIANTS
  RemoteWriteFollowsSecret
CHECK_DEADLOCK FALSE
