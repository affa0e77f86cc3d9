\* Caches up to date, from a bare cluster: OLM brings the CRDs later and the process must
\* restart to watch them.  Every kind of configuration, foreign finalizers, drift,
\* crashes and failures.
SPECIFICATION Spec
CONSTANTS
  Configs <- AllConfigs
  Holds = {FALSE, TRUE}
  InitCrds = {}
  CacheLag = FALSE
  Resync = TRUE
  MaxOffRv = 3
  MaxFaults = 1
  Consumers = {c1}
  LateOnboarding = TRUE
  MaxScRv = 2
  MaxCount = 2
  Drifting = {"subscription"}
INVARIANTS
  TypeOK
  StorageClusterGuarded
  ConsumersProtected
  NamespaceLast
  SettledMeansWaiting
PROPERTIES
  ImplementsLifecycle
CHECK_DEADLOCK FALSE
