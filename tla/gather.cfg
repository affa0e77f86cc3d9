\* The metadata service comes and goes, changes its answer and fails, writes of the
\* ConfigMap fail and the process crashes.  Sleeps of 1, 2, 4 and 6 seconds.
SPECIFICATION FairSpec
CONSTANTS
  Bodies <- OneOrTwoBlocks
  Deployment <- HyphenatedName
  PodName <- Pod
  MaxSleep = 6
  MaxFaults = 2
INVARIANTS
  TypeOK
  SavedInTime
PROPERTIES
  BackoffSchedule
  CidrSaved
