\* The secret is edited into every kind of content, resources drift, the CIDR appears,
\* calls fail and the process crashes, and the copies of the secret and of the offerings may
\* be behind.
SPECIFICATION Spec
CONSTANTS
  Offerings = {o1}
  SecretData <- AllData
  EgressCrds = {"egressFirewall", "egressNetworkPolicy"}
  Cidrs <- TwoBlocks
  CacheLag = TRUE
  MaxSecretRv = 3
  MaxFaults = 1
  Drifting = {"prometheus"}
INVARIANTS
  TypeOK
  SettledMeansConverged
  EgressExact
PROPERTIES
  OfferingsLeftAlone
CHECK_DEADLOCK FALSE
