\* Every copy that has an informer may be behind the API server and the agent starts on a
\* bare cluster, with every kind of configuration, drift, foreign finalizers, failures and
\* crashes.
SPECIFICATION Spec
CONSTANTS
  Configs <- AllConfigs
  Holds = {FALSE, TRUE}
  InitCrds = {}
  CacheLag = TRUE
  Resync = TRUE
  MaxOffRv = 3
  MaxFaults = 1
  MaxClientRv = 2
  Drifting = {"operatorGroup"}
INVARIANTS
  SettledMeansConverged
  TypeOK
  DeletionNotForgotten
PROPERTIES
  ImplementsLifecycle
  NoResurrection
CHECK_DEADLOCK FALSE
