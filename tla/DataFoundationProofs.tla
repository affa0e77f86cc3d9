------------------------ MODULE DataFoundationProofs ------------------------
(***************************************************************************)
(* Proofs about DataFoundation, for every set of configurations, every     *)
(* number of consumers and every bound, with crashes and failures: the     *)
(* types, what happens to the StorageCluster and the finalizer, the order  *)
(* of a removal and, from these, that every step is a step of the          *)
(* lifecycle the agent promises (OfferingLifecycle); and that the          *)
(* reconciler does not stop short.                                         *)
(***************************************************************************)
EXTENDS DataFoundation, OfferingProofs

USE DEF apiVars, cacheVars, workerVars, consumerVars

\* The count reconcileStorageCluster writes is a number, at least the one it read.
LEMMA CountNeverShrinks ==
  ASSUME NEW config \in Configs, NEW curr \in Nat
  PROVE  /\ SetDeviceSetCount(DesiredDeviceSetCount(config), curr) \in Nat
         /\ SetDeviceSetCount(DesiredDeviceSetCount(config), curr) >= curr
<1>1. config.capacity \in Nat
  BY DataFoundationAssumption
<1>2. DesiredDeviceSetCount(config) \in Nat
  BY <1>1 DEF DesiredDeviceSetCount, OSDSizeInTiB
<1> QED
  BY <1>2 DEF SetDeviceSetCount

\* The initial state has the types.
LEMMA TypeInit == Init => TypeOK
<1> SUFFICES ASSUME Init PROVE TypeOK
  OBVIOUS
<1> USE NullObjects DEF Init, OfferingInit, TypeOK
<1>1. cons \in ConsumerStates /\ cCons \in ConsumerStates
  BY DEF ConsumerStates
<1>2. pc \in Phases /\ ns \in {"active", "terminating"} /\ queued \in BOOLEAN
  BY DEF Phases
<1>3. faults \in 0..MaxFaults
  BY OfferingAssumption
<1> QED
  BY <1>1, <1>2, <1>3

\* A restart keeps the types.
LEMMA TypeRestart ==
  ASSUME TypeOK, Restart
  PROVE  /\ snap' \in OfferingObj /\ cOff' \in OfferingObj /\ cSc' \in StorageClusterObj
         /\ avail' \subseteq InitCrds \cup DFCrds /\ queued' \in BOOLEAN /\ pc' \in Phases
BY NullObjects DEF TypeOK, Restart, Phases

\* The fields of a StorageCluster have their types.
LEMMA StorageClusterFields ==
  ASSUME NEW s \in StorageClusterObj
  PROVE  /\ s.st \in {"absent", "present", "deleting"} /\ s.ready \in BOOLEAN
         /\ s.count \in Nat /\ s.rv \in Nat
BY DEF StorageClusterObj

\* The objects of the cluster and the copies of them have their types.
ObjectTypes ==
  /\ OfferingTypes
  /\ sc \in StorageClusterObj /\ cSc \in StorageClusterObj
  /\ cons \in ConsumerStates /\ cCons \in ConsumerStates

\* The type invariant says so.
LEMMA TypedObjects == TypeOK => ObjectTypes
BY DEF TypeOK, ObjectTypes, OfferingTypes

\* An accepted write keeps the StorageCluster's type, in the API server and in the cache.
LEMMA WriteStorageClusterType ==
  ASSUME ObjectTypes, NEW st \in {"absent", "present", "deleting"}, NEW ready \in BOOLEAN,
         NEW count \in Nat, WriteStorageCluster(st, ready, count)
  PROVE  sc' \in StorageClusterObj /\ cSc' \in StorageClusterObj
<1>1. sc.rv + 1 \in Nat
  BY StorageClusterFields DEF ObjectTypes
<1>2. sc' \in StorageClusterObj
  BY <1>1 DEF WriteStorageCluster, StorageClusterObj
<1> QED
  BY <1>2 DEF WriteStorageCluster, ObjectTypes

\* The kinds of step, for the case distinctions below.
LEMMA StepCases ==
  [Next]_vars => \/ AgentStep
                 \/ Fault
                 \/ Informers \/ (ResyncOffering /\ UNCHANGED consumerVars)
                 \/ OlmStep
                 \/ UserStep \/ (ReleaseHold /\ UNCHANGED consumerVars)
                 \/ AdminScale \/ OperatorStep \/ LeavesReady
                 \/ \E c \in Consumers : Onboard(c) \/ Offboard(c)
                 \/ UNCHANGED vars
BY DEF Next

\* Every step of the reconciler and of the cluster keeps the types.
LEMMA TypeNext == TypeOK /\ [Next]_vars => TypeOK'
<1> SUFFICES ASSUME TypeOK, [Next]_vars PROVE TypeOK'
  OBVIOUS
<1> USE NullObjects, OfferingAssumption, QueuedType
<1> USE DEF TypeOK, Phases, GoTo, Done, Proceed, Requeue
<1>a. off.st \in {"absent", "active", "deleting"} /\ off.fin \in BOOLEAN /\ off.hold \in BOOLEAN
      /\ off.config \in Configs /\ off.rv \in Nat
  BY OfferingFields
<1>b. sc.st \in {"absent", "present", "deleting"} /\ sc.ready \in BOOLEAN /\ sc.count \in Nat
      /\ sc.rv \in Nat
  BY StorageClusterFields
<1>c. ObjectTypes /\ OfferingTypes
  BY DEF ObjectTypes, OfferingTypes
<1>1. CASE OfferingPhase /\ UNCHANGED consumerVars
  <2>1. CASE Reconcile
    BY <1>1, <2>1 DEF Reconcile
  <2>2. CASE AddFinalizer
    BY <1>a, <1>1, <2>2, <1>c, WriteOfferingType DEF AddFinalizer
  <2>3. CASE ReconcileOperatorGroup \/ ReconcileCatalogSource \/ ReconcileSubscription
    BY <1>1, <2>3 DEF ReconcileOperatorGroup, ReconcileCatalogSource, ReconcileSubscription,
                      CreateOrUpdate, DFChildren
  <2>4. CASE IsReadyToBeRemoved
    BY <1>1, <2>4 DEF IsReadyToBeRemoved
  <2>5. CASE RemoveFinalizer
    <3>1. CASE snap.fin /\ UpdateAccepted(snap, off)
      <4>1. off' \in OfferingObj /\ cOff' \in OfferingObj
        BY <1>a, <2>5, <3>1, <1>c, WriteOfferingType DEF RemoveFinalizer
      <4>2. snap' \in OfferingObj
        <5>1. snap' = [st |-> "deleting", fin |-> FALSE, hold |-> off.hold,
                       config |-> off.config, rv |-> off.rv + 1]
          BY <2>5, <3>1 DEF RemoveFinalizer
        <5>2. off.rv + 1 \in Nat
          BY <1>a
        <5> QED
          BY <1>a, <5>1, <5>2 DEF OfferingObj
      <4> QED
        BY <1>1, <2>5, <3>1, <4>1, <4>2 DEF RemoveFinalizer
    <3>2. CASE ~(snap.fin /\ UpdateAccepted(snap, off))
      BY <1>1, <2>5, <3>2 DEF RemoveFinalizer
    <3> QED
      BY <3>1, <3>2
  <2>6. CASE DeleteNamespace
    BY <1>1, <2>6 DEF DeleteNamespace
  <2>7. CASE UnmarshalConfig
    BY <1>1, <2>7 DEF UnmarshalConfig
  <2> QED
    BY <1>1, <2>1, <2>2, <2>3, <2>4, <2>5, <2>6, <2>7 DEF OfferingPhase
<1>2. CASE PluginPhase /\ UNCHANGED consumerVars
  <2>1. CASE ReconcileOnboardingValidationSecret
    BY <1>2, <2>1 DEF ReconcileOnboardingValidationSecret, DFChildren
  <2>2. CASE ReconcileStorageCluster
    <3>1. snap.config \in Configs /\ cSc.count \in Nat /\ NoStorageCluster.count \in Nat
      BY OfferingFields, StorageClusterFields
    <3>2. DesiredCount(cSc) \in Nat /\ DesiredCount(NoStorageCluster) \in Nat
      BY <3>1, CountNeverShrinks DEF DesiredCount
    <3>3. sc' \in StorageClusterObj /\ cSc' \in StorageClusterObj
      BY <1>b, <1>c, <2>2, <3>2, WriteStorageClusterType
         DEF ReconcileStorageCluster, CreateStorageCluster, UpdateStorageCluster, KeepStorageCluster
    <3> QED
      BY <1>2, <2>2, <3>3 DEF ReconcileStorageCluster, CreateStorageCluster,
                              UpdateStorageCluster, KeepStorageCluster
  <2>3. CASE ReconcileMonitoringResources \/ ReconcileCephIngressNetworkPolicy
               \/ ReconcileProviderAPIServerNetworkPolicy
    BY <1>2, <2>3 DEF ReconcileMonitoringResources, ReconcileCephIngressNetworkPolicy,
                      ReconcileProviderAPIServerNetworkPolicy, CreateOrUpdate, DFChildren
  <2>4. CASE ReconcileCSV \/ ReconcileRookCephOperatorConfig \/ ReconcileOCSInitialization
    BY <1>2, <2>4 DEF ReconcileCSV, ReconcileRookCephOperatorConfig, ReconcileOCSInitialization,
                      GetAndUpdate, DFChildren
  <2>5. CASE GetStorageCluster
    BY <1>2, <2>5 DEF GetStorageCluster
  <2>6. CASE ListStorageConsumers
    BY <1>2, <2>6 DEF ListStorageConsumers
  <2>7. CASE DeleteStorageCluster
    BY <1>b, <1>c, <1>2, <2>7, WriteStorageClusterType DEF DeleteStorageCluster
  <2> QED
    BY <1>2, <2>1, <2>2, <2>3, <2>4, <2>5, <2>6, <2>7 DEF PluginPhase
<1>3. CASE CheckCrds /\ UNCHANGED cons /\ cCons' = IF avail' = avail THEN cCons ELSE cons
  BY <1>3, TypeRestart DEF CheckCrds, MissingWatch, Restart
<1>4. CASE Fault
  <2>1. faults' \in 0..MaxFaults
    BY <1>4 DEF Fault, ApiFailure, Crash
  <2>2. CASE ApiFailure /\ UNCHANGED consumerVars
    BY <2>1, <2>2 DEF ApiFailure
  <2>3. CASE Crash /\ cCons' = cons /\ UNCHANGED cons
    BY <2>1, <2>3, TypeRestart DEF Crash, Restart
  <2> QED
    BY <1>4, <2>2, <2>3 DEF Fault
<1>5. CASE Informers \/ (ResyncOffering /\ UNCHANGED consumerVars)
  BY <1>5 DEF Informers, OfferingInformer, StorageClusterInformer, StorageConsumerInformer,
              ResyncOffering, offeringVars
<1>6. CASE OlmStep
  BY <1>6 DEF OlmStep, InstallCrd, InstallObject, DFCrds, DFChildren
<1>7. CASE UserStep
  <2>1. CASE \E config \in Configs, hold \in Holds : UserCreate(config, hold)
    BY <1>a, <1>7, <2>1, <1>c, WriteOfferingType DEF UserStep, UserCreate
  <2>2. CASE \E config \in Configs : UserEdit(config, StaleAfter(config))
    BY <1>a, <1>7, <2>2, <1>c, WriteOfferingType DEF UserStep, UserEdit
  <2>3. CASE UserDelete
    BY <1>a, <1>7, <2>3, <1>c, WriteOfferingType DEF UserStep, UserDelete
  <2>4. CASE \E child \in Drifting : Drift(child, child \in DFWatched)
    BY <1>7, <2>4 DEF UserStep, Drift
  <2> QED
    BY <1>7, <2>1, <2>2, <2>3, <2>4 DEF UserStep
<1>8. CASE ReleaseHold /\ UNCHANGED consumerVars
  BY <1>a, <1>8, <1>c, WriteOfferingType DEF ReleaseHold
<1>9. CASE AdminScale \/ OperatorStep \/ LeavesReady
  <2>1. sc' \in StorageClusterObj /\ cSc' \in StorageClusterObj
    <3>1. sc.count + 1 \in Nat
      BY <1>b
    <3> QED
      BY <1>b, <1>c, <1>9, <3>1, WriteStorageClusterType
         DEF AdminScale, OperatorStep, BecomesReady, LeavesReady, StorageClusterGone,
             GarbageCollect
  <2>2. EventOnly
    BY <1>9 DEF AdminScale, OperatorStep, BecomesReady, LeavesReady, StorageClusterGone,
                GarbageCollect
  <2> QED
    BY <2>1, <2>2 DEF EventOnly
<1>10. CASE \E c \in Consumers : Onboard(c) \/ Offboard(c)
  BY <1>10 DEF Onboard, Offboard, WriteConsumers, ConsumerStates, offeringVars
<1>11. CASE UNCHANGED vars
  BY <1>11 DEF vars, offeringVars
<1> HIDE NullObjects, OfferingAssumption, QueuedType
<1> HIDE DEF TypeOK, Phases, GoTo, Done, Proceed, Requeue
<1>12. CASE AgentStep
  BY <1>1, <1>2, <1>3, <1>12 DEF AgentStep
<1> QED
  BY <1>4, <1>5, <1>6, <1>7, <1>8, <1>9, <1>10, <1>11, <1>12, StepCases

\* Every variable keeps its type, whatever the constants are.
THEOREM TypeCorrect == Spec => []TypeOK
BY TypeInit, TypeNext, PTL DEF Spec

-----------------------------------------------------------------------------
(* The StorageCluster and its cached copy.                                 *)

\* What a step may do to the StorageCluster and its cached copy: nothing, an event, the two
\* writes of reconcileStorageCluster, or a write of an existing one (the delete of the
\* deletion branch, an administrator, the ocs-operator) that does not lower the count, does
\* not undo a deletion and lets nothing go that was not being deleted.
StorageClusterKept ==
  /\ sc' = sc
  /\ \/ cSc' = cSc
     \/ cSc' = sc /\ (queued' \/ off.st = "absent" \/ "storageclusters" \notin avail)

StorageClusterTouched ==
  /\ sc.st # "absent"
  /\ \E st \in {"absent", "present", "deleting"}, ready \in BOOLEAN, count \in Nat :
        /\ count >= sc.count
        /\ sc.st = "present" => st # "absent"
        /\ sc.st = "deleting" => st # "present"
        /\ WriteStorageCluster(st, ready, count)
  /\ queued' = QueuedByStorageCluster

StorageClusterMove ==
  \/ StorageClusterKept
  \/ pc = "storageCluster" /\ (CreateStorageCluster \/ UpdateStorageCluster)
  \/ StorageClusterTouched

\* Who writes the StorageCluster, and how: the agent's create and update, somebody else's
\* write that does not lower the count, or the informer that copies it.
LEMMA StorageClusterSteps ==
  ASSUME ObjectTypes, [Next]_vars
  PROVE  StorageClusterMove
<1> USE DEF StorageClusterMove
<1>b. sc.st \in {"absent", "present", "deleting"} /\ sc.ready \in BOOLEAN /\ sc.count \in Nat
      /\ sc.rv \in Nat
  BY StorageClusterFields DEF ObjectTypes
<1>1. CASE OfferingPhase /\ UNCHANGED consumerVars
  BY <1>1 DEF OfferingPhase, Reconcile, AddFinalizer, ReconcileOperatorGroup,
              ReconcileCatalogSource, ReconcileSubscription, CreateOrUpdate, IsReadyToBeRemoved,
              RemoveFinalizer, DeleteNamespace, UnmarshalConfig, StorageClusterKept
<1>2. CASE PluginPhase /\ UNCHANGED consumerVars
  <2>1. CASE ReconcileStorageCluster
    BY <2>1 DEF ReconcileStorageCluster, KeepStorageCluster, StorageClusterKept
  <2>2. CASE DeleteStorageCluster
    <3>1. CASE sc.st = "present"
      <4>1. WriteStorageCluster("deleting", sc.ready, sc.count) /\ queued' = QueuedByStorageCluster
        BY <2>2, <3>1 DEF DeleteStorageCluster
      <4> QED
        BY <1>b, <3>1, <4>1 DEF StorageClusterTouched
    <3>2. CASE sc.st # "present"
      BY <2>2, <3>2 DEF DeleteStorageCluster, StorageClusterKept
    <3> QED
      BY <3>1, <3>2
  <2>3. CASE ~(ReconcileStorageCluster \/ DeleteStorageCluster)
    BY <1>2, <2>3
       DEF PluginPhase, ReconcileOnboardingValidationSecret, ReconcileMonitoringResources,
           ReconcileCSV, ReconcileCephIngressNetworkPolicy,
           ReconcileProviderAPIServerNetworkPolicy, ReconcileRookCephOperatorConfig,
           ReconcileOCSInitialization, CreateOrUpdate, GetAndUpdate, GetStorageCluster,
           ListStorageConsumers, StorageClusterKept
  <2> QED
    BY <2>1, <2>2, <2>3
<1>3. CASE CheckCrds /\ UNCHANGED cons /\ cCons' = IF avail' = avail THEN cCons ELSE cons
  BY <1>3 DEF CheckCrds, MissingWatch, Restart, StorageClusterKept
<1>4. CASE Fault
  BY <1>4 DEF Fault, ApiFailure, Crash, Restart, StorageClusterKept
<1>5. CASE Informers \/ (ResyncOffering /\ UNCHANGED consumerVars)
  BY <1>5 DEF Informers, OfferingInformer, StorageClusterInformer, StorageConsumerInformer,
              ResyncOffering, offeringVars, StorageClusterKept
<1>6. CASE OlmStep
  BY <1>6 DEF OlmStep, InstallCrd, InstallObject, StorageClusterKept
<1>7. CASE UserStep \/ (ReleaseHold /\ UNCHANGED consumerVars)
  BY <1>7 DEF UserStep, UserCreate, UserEdit, UserDelete, Drift, ReleaseHold, StorageClusterKept
<1>8. CASE AdminScale
  <2>1. WriteStorageCluster(sc.st, sc.ready, sc.count + 1) /\ sc.st # "absent" /\ EventOnly
    BY <1>8 DEF AdminScale
  <2> QED
    BY <1>b, <2>1 DEF StorageClusterTouched, EventOnly
<1>9. CASE OperatorStep \/ LeavesReady
  <2>1. /\ sc.st # "absent" /\ EventOnly
        /\ \/ WriteStorageCluster(sc.st, TRUE, sc.count)
           \/ WriteStorageCluster(sc.st, FALSE, sc.count)
           \/ sc.st = "deleting" /\ WriteStorageCluster("absent", FALSE, sc.count)
           \/ sc.st = "present" /\ WriteStorageCluster("deleting", sc.ready, sc.count)
    BY <1>9 DEF OperatorStep, BecomesReady, LeavesReady, StorageClusterGone, GarbageCollect
  <2>2. ASSUME NEW st \in {"absent", "present", "deleting"}, NEW ready \in BOOLEAN,
               sc.st = "present" => st # "absent", sc.st = "deleting" => st # "present",
               WriteStorageCluster(st, ready, sc.count)
        PROVE  StorageClusterTouched
    <3>1. sc.count >= sc.count
      BY <1>b
    <3> QED
      BY <1>b, <2>1, <2>2, <3>1 DEF StorageClusterTouched, EventOnly
  <2> QED
    BY <1>b, <2>1, <2>2
<1>10. CASE \E c \in Consumers : Onboard(c) \/ Offboard(c)
  BY <1>10 DEF Onboard, Offboard, WriteConsumers, offeringVars, StorageClusterKept
<1>11. CASE UNCHANGED vars
  BY <1>11 DEF vars, offeringVars, StorageClusterKept
<1>12. CASE AgentStep
  BY <1>1, <1>2, <1>3, <1>12 DEF AgentStep
<1> QED
  BY <1>4, <1>5, <1>6, <1>7, <1>8, <1>9, <1>10, <1>11, <1>12, StepCases

\* The cache is never ahead of the API server, and a copy of the current version is the
\* current object.  This is what makes the version check of an update worth something.
CacheBehind ==
  /\ cSc.rv <= sc.rv
  /\ cSc.rv = sc.rv => cSc = sc

\* An informer's copy stays an earlier version of the StorageCluster.
LEMMA CacheBehindStep == ObjectTypes /\ CacheBehind /\ StorageClusterMove => CacheBehind'
<1> SUFFICES ASSUME ObjectTypes, CacheBehind, StorageClusterMove PROVE CacheBehind'
  OBVIOUS
<1>1. sc.rv \in Nat /\ cSc.rv \in Nat
  BY StorageClusterFields DEF ObjectTypes
<1>2. CASE StorageClusterKept
  BY <1>1, <1>2 DEF StorageClusterKept, CacheBehind
<1>3. CASE \E st, ready, count : WriteStorageCluster(st, ready, count)
  <2>1. sc'.rv = sc.rv + 1 /\ (cSc' = cSc \/ cSc' = sc')
    <3>1. PICK st, ready, count : WriteStorageCluster(st, ready, count)
      BY <1>3
    <3>2. sc' = [st |-> st, ready |-> ready, count |-> count, rv |-> sc.rv + 1]
      BY <3>1 DEF WriteStorageCluster
    <3>3. cSc' = cSc \/ cSc' = sc'
      BY <3>1 DEF WriteStorageCluster
    <3> QED
      BY <3>2, <3>3
  <2> QED
    BY <1>1, <2>1 DEF CacheBehind
<1>4. CASE CreateStorageCluster \/ UpdateStorageCluster \/ StorageClusterTouched
  BY <1>3, <1>4 DEF CreateStorageCluster, UpdateStorageCluster, StorageClusterTouched
<1> QED
  BY <1>2, <1>4 DEF StorageClusterMove

\* So it is one at every moment.
LEMMA CacheBehindAlways == Spec => []CacheBehind
<1>1. Init => CacheBehind
  BY DEF Init, OfferingInit, NoStorageCluster, CacheBehind
<1>2. TypeOK /\ CacheBehind /\ [Next]_vars => CacheBehind'
  BY TypedObjects, StorageClusterSteps, CacheBehindStep
<1> QED
  BY <1>1, <1>2, TypeCorrect, PTL DEF Spec

\* The count an accepted update writes is at least the live one, because the copy it was
\* computed from is the live object.
LEMMA NoDownscaleStep ==
  ASSUME ObjectTypes, CacheBehind, StorageClusterMove, sc.st # "absent", sc'.st # "absent"
  PROVE  sc'.count >= sc.count
<1>1. sc.count \in Nat /\ cSc.count \in Nat
  BY StorageClusterFields DEF ObjectTypes
<1>2. CASE StorageClusterKept
  BY <1>1, <1>2 DEF StorageClusterKept
<1>3. CASE UpdateStorageCluster
  <2>1. cSc = sc
    BY <1>3 DEF UpdateStorageCluster, UpdateAccepted, CacheBehind
  <2>2. sc'.count = DesiredCount(sc)
    BY <1>3, <2>1 DEF UpdateStorageCluster, WriteStorageCluster
  <2>3. snap.config \in Configs
    BY OfferingFields DEF ObjectTypes, OfferingTypes
  <2> QED
    BY <1>1, <2>2, <2>3, CountNeverShrinks DEF DesiredCount
<1>4. CASE CreateStorageCluster
  BY <1>4 DEF CreateStorageCluster
<1>5. CASE StorageClusterTouched
  BY <1>1, <1>5 DEF StorageClusterTouched, WriteStorageCluster
<1> QED
  BY <1>2, <1>3, <1>4, <1>5 DEF StorageClusterMove

\* The device set count of an existing StorageCluster never shrinks, however far the
\* informers are behind and whatever users, administrators and failures do.
THEOREM NeverDownscaled == Spec => NoDownscale
<1>1. TypeOK /\ CacheBehind /\ [Next]_vars
        => [sc.st # "absent" /\ sc'.st # "absent" => sc'.count >= sc.count]_vars
  BY TypedObjects, StorageClusterSteps, NoDownscaleStep
<1> QED
  BY <1>1, TypeCorrect, CacheBehindAlways, PTL DEF Spec, NoDownscale

-----------------------------------------------------------------------------
(* The offering's finalizer.                                               *)

\* Every step moves the offering and its copies in one of the ways both kinds share.
LEMMA OfferingSteps ==
  ASSUME ObjectTypes, PhaseInv, [Next]_vars
  PROVE  OfferingMove
<1> USE DEF GoTo, Done, Proceed, Requeue
<1>a. OfferingTypes /\ snap.st \in {"absent", "active", "deleting"}
  BY OfferingFields DEF ObjectTypes, OfferingTypes
<1>1. CASE OfferingPhase /\ UNCHANGED consumerVars
  BY <1>a, <1>1, PhaseMoves
<1>2. CASE PluginPhase /\ UNCHANGED consumerVars
  <2>1. CASE ReconcileOnboardingValidationSecret \/ ReconcileStorageCluster
    BY <2>1 DEF ReconcileOnboardingValidationSecret, ReconcileStorageCluster, OfferingMove,
                WorkerMoves, OfferingKept, PhaseInv, ActivePhases, DeletionPhases
  <2>2. CASE ReconcileMonitoringResources \/ ReconcileCephIngressNetworkPolicy
               \/ ReconcileProviderAPIServerNetworkPolicy
    BY <2>2 DEF ReconcileMonitoringResources, ReconcileCephIngressNetworkPolicy,
                ReconcileProviderAPIServerNetworkPolicy, CreateOrUpdate, OfferingMove, WorkerMoves,
                OfferingKept, PhaseInv, ActivePhases, DeletionPhases
  <2>3. CASE ReconcileCSV \/ ReconcileRookCephOperatorConfig \/ ReconcileOCSInitialization
    BY <2>3 DEF ReconcileCSV, ReconcileRookCephOperatorConfig, ReconcileOCSInitialization,
                GetAndUpdate, OfferingMove, WorkerMoves, OfferingKept, PhaseInv, ActivePhases,
                DeletionPhases
  <2>4. CASE GetStorageCluster \/ ListStorageConsumers \/ DeleteStorageCluster
    BY <2>4 DEF GetStorageCluster, ListStorageConsumers, DeleteStorageCluster, OfferingMove,
                WorkerMoves, OfferingKept, PhaseInv, ActivePhases, DeletionPhases
  <2> QED
    BY <1>2, <2>1, <2>2, <2>3, <2>4 DEF PluginPhase
<1>3. CASE CheckCrds /\ UNCHANGED cons /\ cCons' = IF avail' = avail THEN cCons ELSE cons
  BY <1>3, <1>a DEF CheckCrds, MissingWatch, Restart, OfferingMove, WorkerMoves, OfferingKept,
                    PhaseInv, ActivePhases, DeletionPhases
<1>4. CASE Fault
  BY <1>a, <1>4, EnvironmentMoves DEF Fault
<1>5. CASE Informers \/ (ResyncOffering /\ UNCHANGED consumerVars)
  BY <1>a, <1>5, EnvironmentMoves, WorkerWaits
     DEF Informers, StorageConsumerInformer, offeringVars, OfferingKept
<1>6. CASE OlmStep
  BY <1>a, <1>6, EnvironmentMoves DEF OlmStep
<1>7. CASE UserStep \/ (ReleaseHold /\ UNCHANGED consumerVars)
  BY <1>a, <1>7, EnvironmentMoves DEF UserStep
<1>8. CASE AdminScale \/ OperatorStep \/ LeavesReady
  BY <1>8, WorkerWaits DEF AdminScale, OperatorStep, BecomesReady, LeavesReady,
     StorageClusterGone, GarbageCollect, EventOnly, OfferingKept
<1>9. CASE \E c \in Consumers : Onboard(c) \/ Offboard(c)
  BY <1>9, WorkerWaits DEF Onboard, Offboard, WriteConsumers, offeringVars, OfferingKept
<1>10. CASE UNCHANGED vars
  BY <1>10, WorkerWaits DEF vars, offeringVars, OfferingKept
<1>11. CASE AgentStep
  BY <1>1, <1>2, <1>3, <1>11 DEF AgentStep
<1> QED
  BY <1>4, <1>5, <1>6, <1>7, <1>8, <1>9, <1>10, <1>11, StepCases

\* The invariant of the finalizer holds at every moment.
LEMMA FinalizerAlways == Spec => []FinalizerInv
<1>1. Init => FinalizerInv
  BY OfferingInvInit DEF Init
<1>2. TypeOK /\ FinalizerInv /\ [Next]_vars => FinalizerInv'
  BY TypedObjects, OfferingSteps, FinalizerKept DEF ObjectTypes, FinalizerInv
<1> QED
  BY <1>1, <1>2, TypeCorrect, PTL DEF Spec

\* Whoever makes the StorageCluster works from an active copy with the finalizer.
LEMMA FinalizerFirstStep ==
  ASSUME FinalizerInv, StorageClusterMove, sc.st = "absent", sc'.st # "absent"
  PROVE  off.st # "absent" /\ off.fin
<1>1. pc = "storageCluster"
  BY DEF StorageClusterMove, StorageClusterKept, StorageClusterTouched
<1> QED
  BY <1>1 DEF FinalizerInv, PhaseInv, ActivePhases, FinalizerHeld

\* A StorageCluster is only ever created under an offering that exists and carries the
\* agent's finalizer, even when the reconcile works from an old copy of the offering.
THEOREM FinalizerFirst == Spec => FinalizerBeforeStorageCluster
<1>1. TypeOK /\ FinalizerInv /\ [Next]_vars
        => [sc.st = "absent" /\ sc'.st # "absent" => off.st # "absent" /\ off.fin]_vars
  BY TypedObjects, StorageClusterSteps, FinalizerFirstStep
<1> QED
  BY <1>1, TypeCorrect, FinalizerAlways, PTL DEF Spec, FinalizerBeforeStorageCluster

-----------------------------------------------------------------------------
(* The steps, as far as the order of a removal goes.                       *)

\* How the worker gets to the phases that give up the finalizer and the namespace.
LEMMA RemovalPhases ==
  ASSUME [Next]_vars
  PROVE  RemovalMove
<1> USE DEF RemovalMove, GoTo, Done, Proceed, Requeue
<1>1. CASE OfferingPhase /\ UNCHANGED consumerVars
  BY <1>1, CommonRemoval
<1>2. CASE PluginPhase /\ UNCHANGED consumerVars
  BY <1>2 DEF PluginPhase, ReconcileOnboardingValidationSecret, ReconcileStorageCluster,
              ReconcileMonitoringResources, ReconcileCSV, ReconcileCephIngressNetworkPolicy,
              ReconcileProviderAPIServerNetworkPolicy, ReconcileRookCephOperatorConfig,
              ReconcileOCSInitialization, CreateOrUpdate, GetAndUpdate, GetStorageCluster,
              ListStorageConsumers, DeleteStorageCluster
<1>3. CASE CheckCrds /\ UNCHANGED cons /\ cCons' = IF avail' = avail THEN cCons ELSE cons
  BY <1>3 DEF CheckCrds, MissingWatch, Restart
<1>4. CASE Fault
  BY <1>4, CommonRemoval DEF Fault
<1>5. CASE Informers \/ (ResyncOffering /\ UNCHANGED consumerVars)
  BY <1>5, CommonRemoval DEF Informers, StorageConsumerInformer, offeringVars
<1>6. CASE OlmStep
  BY <1>6, CommonRemoval DEF OlmStep
<1>7. CASE UserStep \/ (ReleaseHold /\ UNCHANGED consumerVars)
  BY <1>7, CommonRemoval DEF UserStep
<1>8. CASE AdminScale \/ OperatorStep \/ LeavesReady
  BY <1>8 DEF AdminScale, OperatorStep, BecomesReady, LeavesReady, StorageClusterGone,
              GarbageCollect, EventOnly
<1>9. CASE \E c \in Consumers : Onboard(c) \/ Offboard(c)
  BY <1>9 DEF Onboard, Offboard, WriteConsumers, offeringVars
<1>10. CASE UNCHANGED vars
  BY <1>10 DEF vars, offeringVars
<1>11. CASE AgentStep
  BY <1>1, <1>2, <1>3, <1>11 DEF AgentStep
<1> QED
  BY <1>4, <1>5, <1>6, <1>7, <1>8, <1>9, <1>10, <1>11, StepCases

\* Who writes the consumers, how the worker gets to the delete, and who deletes.
ConsumerMove ==
  /\ \/ cons' = cons /\ cCons' \in {cCons, cons}
     \/ \E c \in Consumers : Onboard(c) \/ Offboard(c)
  /\ pc' = "deleteStorageCluster" => pc = "deleteStorageCluster" \/ ListStorageConsumers
  /\ sc.st # "deleting" /\ sc'.st = "deleting" => DeleteStorageCluster \/ GarbageCollect

\* Every step moves the consumers in one of these ways.
LEMMA ConsumerSteps ==
  ASSUME [Next]_vars
  PROVE  ConsumerMove
<1> USE DEF ConsumerMove, GoTo, Done, Proceed, Requeue
<1>1. CASE OfferingPhase /\ UNCHANGED consumerVars
  BY <1>1 DEF OfferingPhase, Reconcile, AddFinalizer, ReconcileOperatorGroup,
              ReconcileCatalogSource, ReconcileSubscription, CreateOrUpdate, IsReadyToBeRemoved,
              RemoveFinalizer, DeleteNamespace, UnmarshalConfig
<1>2. CASE PluginPhase /\ UNCHANGED consumerVars
  <2>1. CASE ReconcileStorageCluster
    BY <1>2, <2>1 DEF ReconcileStorageCluster, CreateStorageCluster, UpdateStorageCluster,
                      KeepStorageCluster, WriteStorageCluster
  <2>2. CASE ~ReconcileStorageCluster
    BY <1>2, <2>2
       DEF PluginPhase, ReconcileOnboardingValidationSecret, ReconcileMonitoringResources,
           ReconcileCSV, ReconcileCephIngressNetworkPolicy,
           ReconcileProviderAPIServerNetworkPolicy, ReconcileRookCephOperatorConfig,
           ReconcileOCSInitialization, CreateOrUpdate, GetAndUpdate, GetStorageCluster,
           DeleteStorageCluster, ListStorageConsumers
  <2> QED
    BY <2>1, <2>2
<1>3. CASE CheckCrds /\ UNCHANGED cons /\ cCons' = IF avail' = avail THEN cCons ELSE cons
  BY <1>3 DEF CheckCrds, MissingWatch, Restart
<1>4. CASE Fault
  BY <1>4 DEF Fault, ApiFailure, Crash, Restart
<1>5. CASE Informers \/ (ResyncOffering /\ UNCHANGED consumerVars)
  BY <1>5 DEF Informers, OfferingInformer, StorageClusterInformer, StorageConsumerInformer,
              ResyncOffering, offeringVars
<1>6. CASE OlmStep
  BY <1>6 DEF OlmStep, InstallCrd, InstallObject
<1>7. CASE UserStep \/ (ReleaseHold /\ UNCHANGED consumerVars)
  BY <1>7 DEF UserStep, UserCreate, UserEdit, UserDelete, Drift, ReleaseHold
<1>8. CASE AdminScale \/ OperatorStep \/ LeavesReady
  BY <1>8 DEF AdminScale, OperatorStep, BecomesReady, LeavesReady, StorageClusterGone,
              GarbageCollect, EventOnly, WriteStorageCluster
<1>9. CASE \E c \in Consumers : Onboard(c) \/ Offboard(c)
  BY <1>9 DEF Onboard, Offboard, WriteConsumers, offeringVars
<1>10. CASE UNCHANGED vars
  BY <1>10 DEF vars, offeringVars
<1>11. CASE AgentStep
  BY <1>1, <1>2, <1>3, <1>11 DEF AgentStep
<1> QED
  BY <1>4, <1>5, <1>6, <1>7, <1>8, <1>9, <1>10, <1>11, StepCases

\* The objects the lifecycle reads are written one at a time.
OnlyOffering == UNCHANGED <<sc, cons, ns>>
OnlyStorageCluster == UNCHANGED <<off, cons, ns>>
OnlyConsumers == UNCHANGED <<off, sc, ns>>
OnlyNamespace == UNCHANGED <<off, sc, cons>>

OneObjectMove == OnlyOffering \/ OnlyStorageCluster \/ OnlyConsumers \/ OnlyNamespace

\* No step writes two of the objects.
LEMMA OneObjectPerStep ==
  ASSUME [Next]_vars
  PROVE  OneObjectMove
<1> USE DEF OneObjectMove, OnlyOffering, OnlyStorageCluster, OnlyConsumers, OnlyNamespace
<1>1. CASE OfferingPhase /\ UNCHANGED consumerVars
  BY <1>1 DEF OfferingPhase, Reconcile, AddFinalizer, ReconcileOperatorGroup,
              ReconcileCatalogSource, ReconcileSubscription, CreateOrUpdate, IsReadyToBeRemoved,
              RemoveFinalizer, DeleteNamespace, UnmarshalConfig
<1>2. CASE PluginPhase /\ UNCHANGED consumerVars
  BY <1>2 DEF PluginPhase, ReconcileOnboardingValidationSecret, ReconcileStorageCluster,
              ReconcileMonitoringResources, ReconcileCSV, ReconcileCephIngressNetworkPolicy,
              ReconcileProviderAPIServerNetworkPolicy, ReconcileRookCephOperatorConfig,
              ReconcileOCSInitialization, CreateOrUpdate, GetAndUpdate, GetStorageCluster,
              ListStorageConsumers, DeleteStorageCluster
<1>3. CASE CheckCrds /\ UNCHANGED cons /\ cCons' = IF avail' = avail THEN cCons ELSE cons
  BY <1>3 DEF CheckCrds, MissingWatch, Restart
<1>4. CASE Fault
  BY <1>4 DEF Fault, ApiFailure, Crash, Restart
<1>5. CASE Informers \/ (ResyncOffering /\ UNCHANGED consumerVars)
  BY <1>5 DEF Informers, OfferingInformer, StorageClusterInformer, StorageConsumerInformer,
              ResyncOffering, offeringVars
<1>6. CASE OlmStep
  BY <1>6 DEF OlmStep, InstallCrd, InstallObject
<1>7. CASE UserStep \/ (ReleaseHold /\ UNCHANGED consumerVars)
  BY <1>7 DEF UserStep, UserCreate, UserEdit, UserDelete, Drift, ReleaseHold
<1>8. CASE AdminScale \/ OperatorStep \/ LeavesReady
  BY <1>8 DEF AdminScale, OperatorStep, BecomesReady, LeavesReady, StorageClusterGone,
              GarbageCollect, EventOnly
<1>9. CASE \E c \in Consumers : Onboard(c) \/ Offboard(c)
  BY <1>9 DEF Onboard, Offboard, WriteConsumers, offeringVars
<1>10. CASE UNCHANGED vars
  BY <1>10 DEF vars, offeringVars
<1>11. CASE AgentStep
  BY <1>1, <1>2, <1>3, <1>11 DEF AgentStep
<1> QED
  BY <1>4, <1>5, <1>6, <1>7, <1>8, <1>9, <1>10, <1>11, StepCases

\* What a step may do to the cluster, in one formula.  What follows rests on this alone, so
\* that it holds of every specification whose steps are of this form.
ProviderMove ==
  OfferingMove /\ RemovalMove /\ StorageClusterMove /\ ConsumerMove /\ OneObjectMove

\* Every step of DataFoundation is.
LEMMA ProviderSteps ==
  ASSUME ObjectTypes, PhaseInv, [Next]_vars
  PROVE  ProviderMove
BY OfferingSteps, RemovalPhases, StorageClusterSteps, ConsumerSteps, OneObjectPerStep
   DEF ProviderMove

\* Such a step keeps the types of the objects.
LEMMA ObjectTypesKept == ObjectTypes /\ ProviderMove => ObjectTypes'
<1> SUFFICES ASSUME ObjectTypes, ProviderMove PROVE ObjectTypes'
  OBVIOUS
<1>a. sc.st \in {"absent", "present", "deleting"} /\ sc.ready \in BOOLEAN
  BY StorageClusterFields DEF ObjectTypes
<1>1. OfferingTypes'
  BY OfferingTypesKept DEF ObjectTypes, ProviderMove
<1>2. sc' \in StorageClusterObj /\ cSc' \in StorageClusterObj
  <2>1. CASE StorageClusterKept
    BY <2>1 DEF StorageClusterKept, ObjectTypes
  <2>2. CASE CreateStorageCluster \/ UpdateStorageCluster
    <3>1. snap.config \in Configs /\ cSc.count \in Nat /\ NoStorageCluster.count \in Nat
      BY OfferingFields, StorageClusterFields, NullObjects DEF ObjectTypes, OfferingTypes
    <3>2. DesiredCount(cSc) \in Nat /\ DesiredCount(NoStorageCluster) \in Nat
      BY <3>1, CountNeverShrinks DEF DesiredCount
    <3> QED
      BY <1>a, <2>2, <3>2, WriteStorageClusterType DEF CreateStorageCluster, UpdateStorageCluster
  <2>3. CASE StorageClusterTouched
    BY <2>3, WriteStorageClusterType DEF StorageClusterTouched
  <2> QED
    BY <2>1, <2>2, <2>3 DEF ProviderMove, StorageClusterMove
<1>3. cons' \in ConsumerStates /\ cCons' \in ConsumerStates
  BY DEF ProviderMove, ConsumerMove, Onboard, Offboard, WriteConsumers, ObjectTypes, ConsumerStates
<1> QED
  BY <1>1, <1>2, <1>3 DEF ObjectTypes

-----------------------------------------------------------------------------
(* The order of a removal, when cached reads are up to date.               *)

\* Between the check of dfIsReadyToBeRemoved and the update that follows it nobody else
\* creates a StorageCluster.
GuardInv ==
  /\ cSc = sc
  /\ pc = "removeFinalizer" => sc.st = "absent"
  /\ StorageClusterGuarded

\* With caches up to date every step keeps the StorageCluster guarded.
LEMMA GuardStep ==
  ASSUME ~CacheLag
  PROVE  FinalizerInv /\ GuardInv /\ ProviderMove => GuardInv'
<1> SUFFICES ASSUME FinalizerInv, GuardInv, ProviderMove PROVE GuardInv'
  OBVIOUS
<1>1. cSc' = sc'
  BY DEF ProviderMove, StorageClusterMove, StorageClusterKept, StorageClusterTouched, CreateStorageCluster,
                             UpdateStorageCluster, WriteStorageCluster, GuardInv
<1>2. sc.st = "absent" /\ sc'.st # "absent" => pc = "storageCluster" /\ CreateStorageCluster
  BY DEF ProviderMove, StorageClusterMove, StorageClusterKept, StorageClusterTouched, UpdateStorageCluster,
                             UpdateAccepted
<1>3. pc' = "removeFinalizer" => sc'.st = "absent"
  <2>1. CASE pc = "removeFinalizer"
    BY <1>2, <2>1 DEF GuardInv
  <2>2. CASE IsReadyToBeRemoved /\ pc' = "removeFinalizer"
    BY <2>2 DEF IsReadyToBeRemoved, GoTo, Requeue, GuardInv
  <2> QED
    BY <2>1, <2>2 DEF ProviderMove, RemovalMove
<1>4. ASSUME sc'.st # "absent" PROVE off.st # "absent" /\ off.fin /\ pc # "removeFinalizer"
  <2>1. CASE sc.st = "absent"
    BY <1>2, <1>4, <2>1 DEF FinalizerInv, PhaseInv, ActivePhases, FinalizerHeld
  <2>2. CASE sc.st # "absent"
    BY <2>2 DEF GuardInv, StorageClusterGuarded
  <2> QED
    BY <2>1, <2>2
<1>5. ASSUME sc'.st # "absent" PROVE off'.st # "absent" /\ off'.fin
  <2>1. CASE WorkerMoves \/ CopyTaken
    BY <1>4, <1>5, <2>1 DEF WorkerMoves, CopyTaken, OfferingKept
  <2>2. CASE FinalizerAdded
    BY <1>4, <1>5, <2>2, WrittenOffering DEF FinalizerAdded
  <2>3. CASE FinalizerRemoved \/ OfferingCreated
    BY <1>4, <1>5, <2>3 DEF FinalizerRemoved, OfferingCreated
  <2>4. CASE OfferingTouched
    BY <1>4, <1>5, <2>4, WrittenOffering DEF OfferingTouched
  <2> QED
    BY <2>1, <2>2, <2>3, <2>4 DEF ProviderMove, OfferingMove
<1> QED
  BY <1>1, <1>3, <1>5 DEF GuardInv, StorageClusterGuarded

NoEarlyConsumer == \A c \in Consumers : cons[c] # "early"

\* The list that found no consumer stays right until the delete, because only an active
\* offering takes early consumers.
ConsumerInv ==
  /\ cCons = cons
  /\ pc = "deleteStorageCluster" => NoEarlyConsumer
  /\ sc.st = "deleting" => NoEarlyConsumer

\* With caches up to date every step keeps the consumers protected.
LEMMA ConsumerStep ==
  ASSUME ~CacheLag
  PROVE  ObjectTypes /\ FinalizerInv /\ StorageClusterGuarded /\ ConsumerInv /\ ProviderMove
           => ConsumerInv'
<1> SUFFICES ASSUME ObjectTypes, FinalizerInv, StorageClusterGuarded, ConsumerInv, ProviderMove
             PROVE  ConsumerInv'
  OBVIOUS
<1> USE DEF ProviderMove
<1>1. cCons' = cons'
  BY DEF ConsumerMove, Onboard, Offboard, WriteConsumers, ConsumerInv
<1>2. ASSUME NoEarlyConsumer, off.st # "active" \/ sc.st # "present" PROVE NoEarlyConsumer'
  BY <1>2 DEF ConsumerMove, NoEarlyConsumer, Onboard, Offboard, WriteConsumers, ObjectTypes,
              ConsumerStates
<1>3. pc = "deleteStorageCluster" => off.st # "active"
  BY DEF FinalizerInv, PhaseInv, DeletionPhases, DeletionFinal
<1>4. ASSUME pc' = "deleteStorageCluster" PROVE NoEarlyConsumer'
  <2>1. CASE pc = "deleteStorageCluster"
    BY <1>2, <1>3, <2>1 DEF ConsumerInv
  <2>2. CASE ListStorageConsumers
    <3>1. Onboarded(cCons) = {} /\ pc = "listStorageConsumers"
      BY <1>4, <2>2 DEF ListStorageConsumers, Requeue
    <3>2. NoEarlyConsumer
      BY <3>1 DEF Onboarded, ConsumerInv, NoEarlyConsumer
    <3>3. off.st # "active"
      BY <3>1 DEF FinalizerInv, PhaseInv, DeletionPhases, DeletionFinal
    <3> QED
      BY <1>2, <3>2, <3>3
  <2> QED
    BY <1>4, <2>1, <2>2 DEF ConsumerMove
<1>5. ASSUME sc'.st = "deleting" PROVE NoEarlyConsumer'
  <2>1. CASE sc.st = "deleting"
    BY <1>2, <2>1 DEF ConsumerInv
  <2>2. CASE DeleteStorageCluster
    BY <1>2, <1>3, <2>2 DEF DeleteStorageCluster, ConsumerInv
  <2>3. ~GarbageCollect
    BY DEF GarbageCollect, StorageClusterGuarded
  <2> QED
    BY <1>5, <2>1, <2>2, <2>3 DEF ConsumerMove
<1> QED
  BY <1>1, <1>4, <1>5 DEF ConsumerInv

\* A StorageCluster that was asked to go, or is gone, belongs to an offering that was
\* deleted, and no copy of the time before is left from which it could be made again.
StorageOnce ==
  sc.st = "deleting" \/ (sc.st = "absent" /\ sc.rv > 0) =>
    off.rv > 0 /\ off.st # "active" /\ cOff.st # "active" /\ snap.st # "active"

\* With caches up to date every step keeps it so.
LEMMA StorageOnceStep ==
  ASSUME ObjectTypes, FinalizerInv, StorageClusterGuarded, StorageOnce, ProviderMove
  PROVE  StorageOnce'
<1>a. off.rv \in Nat /\ sc.rv \in Nat /\ sc.st \in {"absent", "present", "deleting"}
  BY OfferingFields, StorageClusterFields DEF ObjectTypes, OfferingTypes
<1> DEFINE Final == off.rv > 0 /\ off.st # "active" /\ cOff.st # "active" /\ snap.st # "active"
\* A deletion that every copy has seen stays one.
<1>1. ASSUME Final PROVE Final'
  <2>1. CASE WorkerMoves \/ CopyTaken
    BY <1>1, <2>1 DEF WorkerMoves, CopyTaken, OfferingKept, NoOffering
  <2>2. CASE FinalizerAdded
    BY <1>1, <2>2 DEF FinalizerAdded, FinalizerInv, PhaseInv, ActivePhases
  <2>3. CASE FinalizerRemoved
    <3>1. off'.st \in {"deleting", "absent"} /\ off'.rv = off.rv + 1 /\ cOff' \in {cOff, off'}
      BY <2>3, WrittenOffering DEF FinalizerRemoved
    <3>2. snap'.st = "deleting"
      BY <2>3 DEF FinalizerRemoved
    <3> QED
      BY <1>a, <1>1, <3>1, <3>2
  <2>4. CASE OfferingCreated
    BY <1>1, <2>4 DEF OfferingCreated
  <2>5. CASE OfferingTouched
    <3>1. /\ off'.st = "active" => off.st = "active"
          /\ off'.rv = off.rv + 1 /\ cOff' \in {cOff, off'} /\ snap' = snap
      BY <2>5, WrittenOffering DEF OfferingTouched
    <3> QED
      BY <1>a, <1>1, <3>1
  <2> QED
    BY <2>1, <2>2, <2>3, <2>4, <2>5 DEF ProviderMove, OfferingMove
<1>2. ASSUME sc'.st = "deleting" \/ (sc'.st = "absent" /\ sc'.rv > 0) PROVE Final \/ Final'
  <2>1. CASE StorageClusterKept
    BY <1>2, <2>1 DEF StorageClusterKept, StorageOnce
  <2>2. CASE CreateStorageCluster
    BY <1>2, <2>2 DEF CreateStorageCluster, WriteStorageCluster
  <2>3. CASE sc.st = "deleting"
    BY <2>3 DEF StorageOnce
  <2>4. CASE sc.st = "present" /\ sc'.st = "deleting"
    <3>1. DeleteStorageCluster
      BY <2>4 DEF ProviderMove, ConsumerMove, GarbageCollect, StorageClusterGuarded
    <3>2. snap.st = "deleting"
      BY <3>1 DEF DeleteStorageCluster, FinalizerInv, PhaseInv, DeletionPhases
    <3> QED
      BY <3>2 DEF FinalizerInv, DeletionFinal
  <2>5. CASE sc.st = "present" /\ sc'.st = "absent"
    BY <2>5 DEF ProviderMove, StorageClusterMove, StorageClusterKept, CreateStorageCluster,
                UpdateStorageCluster, StorageClusterTouched, WriteStorageCluster
  <2>6. CASE sc.st = "absent" /\ ~StorageClusterKept /\ ~CreateStorageCluster
    BY <2>6 DEF ProviderMove, StorageClusterMove, UpdateStorageCluster, UpdateAccepted,
                StorageClusterTouched
  <2> QED
    BY <1>a, <1>2, <2>1, <2>2, <2>3, <2>4, <2>5, <2>6
<1> QED
  BY <1>1, <1>2 DEF StorageOnce

\* The whole invariant of an orderly removal.
LifecycleInv ==
  ObjectTypes /\ FinalizerInv /\ GuardInv /\ ReleasedInv /\ ConsumerInv /\ StorageOnce

\* Every step keeps it.
LEMMA LifecycleInvStep ==
  ASSUME ~CacheLag
  PROVE  LifecycleInv /\ ProviderMove => LifecycleInv'
<1>1. GuardInv => StorageClusterGuarded
  BY DEF GuardInv
<1>2. ObjectTypes /\ FinalizerInv /\ ReleasedInv /\ ProviderMove => FinalizerInv' /\ ReleasedInv'
  BY FinalizerKept, ReleasedKept DEF ObjectTypes, ProviderMove
<1> QED
  BY <1>1, <1>2, ObjectTypesKept, GuardStep, ConsumerStep, StorageOnceStep DEF LifecycleInv

\* The initial states have it.
LEMMA LifecycleInvInit == Init => LifecycleInv
<1>1. Init => GuardInv /\ ConsumerInv /\ StorageOnce
  BY DEF Init, OfferingInit, NoStorageCluster, GuardInv, StorageClusterGuarded, ConsumerInv,
         StorageOnce
<1> QED
  BY <1>1, TypeInit, TypedObjects, OfferingInvInit DEF LifecycleInv, Init

\* So it holds at every moment.
LEMMA LifecycleInvAlways == ~CacheLag => (Spec => []LifecycleInv)
<1> SUFFICES ASSUME ~CacheLag PROVE Spec => []LifecycleInv
  OBVIOUS
<1>1. LifecycleInv /\ [Next]_vars => LifecycleInv'
  BY ProviderSteps, LifecycleInvStep DEF LifecycleInv, FinalizerInv
<1> QED
  BY <1>1, LifecycleInvInit, PTL DEF Spec

\* What it says of the order of a removal.
LEMMA LifecycleInvMeans ==
  LifecycleInv => StorageClusterGuarded /\ ConsumersProtected /\ NamespaceLast
BY DEF LifecycleInv, GuardInv, StorageClusterGuarded, ConsumerInv, NoEarlyConsumer,
       ConsumersProtected, ReleasedInv, NamespaceLast

\* With caches up to date, a StorageCluster that exists is guarded by an offering that
\* exists and still carries the agent's finalizer: dfIsReadyToBeRemoved does its work.
THEOREM GuardedUntilGone == ~CacheLag => (Spec => []StorageClusterGuarded)
BY LifecycleInvAlways, LifecycleInvMeans, PTL

\* With caches up to date the namespace is deleted last: after the StorageCluster is gone and
\* the finalizer of the deleted offering was removed (reconcilePhases, deletion branch).
THEOREM NamespaceDeletedLast == ~CacheLag => (Spec => []NamespaceLast)
BY LifecycleInvAlways, LifecycleInvMeans, PTL

\* With caches up to date the StorageCluster is not deleted under a consumer that was
\* onboarded before the deletion of the offering was requested.
THEOREM ConsumersStayProtected == ~CacheLag => (Spec => []ConsumersProtected)
BY LifecycleInvAlways, LifecycleInvMeans, PTL

-----------------------------------------------------------------------------
(* DataFoundation implements OfferingLifecycle.                            *)

\* A write of the offering is the creation, the guard, the request to go, the release or
\* the end of the offering in the lifecycle, or an edit that the lifecycle does not see.
LEMMA OfferingRefines ==
  ASSUME ObjectTypes, ObjectTypes', FinalizerInv, GuardInv, ProviderMove, OnlyOffering
  PROVE  [Lifecycle!Next]_Lifecycle!vars
<1> USE DEF OnlyOffering, Lifecycle!Next, Lifecycle!vars
<1>a. off.rv \in Nat /\ off.st \in {"absent", "active", "deleting"} /\ off.fin \in BOOLEAN
  BY OfferingFields DEF ObjectTypes, OfferingTypes
<1>b. off'.st \in {"absent", "active", "deleting"} /\ off'.fin \in BOOLEAN
  BY OfferingFields DEF ObjectTypes, OfferingTypes
<1>1. CASE WorkerMoves \/ CopyTaken
  BY <1>1 DEF WorkerMoves, CopyTaken, OfferingKept
<1>2. CASE FinalizerAdded
  <2>1. off.st = "active" /\ off'.st = "active" /\ off'.fin = TRUE
    BY <1>2, WrittenOffering
       DEF FinalizerAdded, UpdateAccepted, FinalizerInv, PhaseInv, ActivePhases, VersionInv
  <2> QED
    BY <2>1 DEF Lifecycle!Guard
<1>3. CASE FinalizerRemoved
  <2>1. off.st = "deleting"
    BY <1>a, <1>3 DEF FinalizerRemoved, UpdateAccepted, FinalizerInv, PhaseInv, DeletionPhases,
                      DeletionFinal
  <2>2. off'.st \in {"deleting", "absent"} /\ off'.rv # 0
    <3>1. off'.st \in {"deleting", "absent"} /\ off'.rv = off.rv + 1
      BY <1>3, WrittenOffering DEF FinalizerRemoved
    <3> QED
      BY <1>a, <3>1
  <2>3. off'.fin = FALSE
    BY <1>3, WrittenOffering, Zenon DEF FinalizerRemoved
  <2>4. sc.st = "absent"
    BY <1>3 DEF FinalizerRemoved, GuardInv
  <2>5. CASE off.fin
    BY <2>1, <2>2, <2>3, <2>4, <2>5 DEF Lifecycle!Release, Lifecycle!InUse
  <2>6. CASE ~off.fin
    BY <2>1, <2>2, <2>3, <2>6 DEF Lifecycle!Vanish
  <2> QED
    BY <2>5, <2>6
<1>4. CASE OfferingCreated
  <2>1. off.st = "absent" /\ off.rv = 0 /\ off'.st = "active" /\ off'.fin = FALSE
    BY <1>4, WrittenOffering DEF OfferingCreated
  <2> QED
    BY <2>1 DEF Lifecycle!Create
<1>5. CASE OfferingTouched
  <2>1. /\ off.st # "absent" /\ off'.fin = off.fin /\ off'.rv = off.rv + 1
        /\ off'.st = "active" => off.st = "active"
        /\ off'.st = "absent" => ~off.fin
    BY <1>5, WrittenOffering DEF OfferingTouched
  <2>2. off'.rv # 0
    BY <1>a, <2>1
  <2>3. CASE off'.st = off.st
    BY <2>1, <2>3
  <2>4. CASE off.st = "active" /\ off'.st # "active"
    BY <1>b, <2>1, <2>2, <2>4 DEF Lifecycle!Ask
  <2>5. CASE off.st = "deleting" /\ off'.st = "absent"
    BY <2>1, <2>2, <2>5 DEF Lifecycle!Vanish
  <2> QED
    BY <1>a, <1>b, <2>1, <2>3, <2>4, <2>5
<1> QED
  BY <1>1, <1>2, <1>3, <1>4, <1>5 DEF ProviderMove, OfferingMove

\* A write of the StorageCluster provisions, drains or decommissions the storage, or
\* changes only its count or readiness.
LEMMA StorageClusterRefines ==
  ASSUME ObjectTypes, ObjectTypes', FinalizerInv, StorageClusterGuarded, ConsumerInv, StorageOnce,
         ProviderMove, OnlyStorageCluster
  PROVE  [Lifecycle!Next]_Lifecycle!vars
<1> USE DEF OnlyStorageCluster, Lifecycle!Next, Lifecycle!vars
<1>a. sc.rv \in Nat /\ sc.st \in {"absent", "present", "deleting"}
  BY StorageClusterFields DEF ObjectTypes
<1>b. sc'.st \in {"absent", "present", "deleting"}
  BY StorageClusterFields DEF ObjectTypes
<1>c. off.st \in {"absent", "active", "deleting"}
  BY OfferingFields DEF ObjectTypes, OfferingTypes
<1>1. CASE StorageClusterKept
  BY <1>1 DEF StorageClusterKept
<1>2. CASE pc = "storageCluster" /\ CreateStorageCluster
  <2>1. snap.st = "active" /\ off.st # "absent" /\ off.fin
    BY <1>2 DEF FinalizerInv, PhaseInv, ActivePhases, FinalizerHeld
  <2>2. sc.st = "absent" /\ sc.rv = 0
    BY <1>a, <1>2, <2>1 DEF CreateStorageCluster, StorageOnce
  <2>3. sc'.st = "present"
    BY <1>2 DEF CreateStorageCluster, WriteStorageCluster
  <2> QED
    BY <1>c, <2>1, <2>2, <2>3 DEF Lifecycle!Provision
<1>3. CASE UpdateStorageCluster
  <2>1. sc.st # "absent" /\ sc'.st = sc.st
    BY <1>3 DEF UpdateStorageCluster, UpdateAccepted, WriteStorageCluster
  <2> QED
    BY <1>a, <2>1
<1>4. CASE StorageClusterTouched
  <2>1. /\ sc.st # "absent" /\ sc'.rv = sc.rv + 1
        /\ sc.st = "present" => sc'.st # "absent"
        /\ sc.st = "deleting" => sc'.st # "present"
    BY <1>4 DEF StorageClusterTouched, WriteStorageCluster
  <2>2. CASE sc'.st = sc.st
    BY <1>a, <2>1, <2>2
  <2>3. CASE sc.st = "present" /\ sc'.st = "deleting"
    <3>1. DeleteStorageCluster
      BY <2>3 DEF ProviderMove, ConsumerMove, GarbageCollect, StorageClusterGuarded
    <3>2. off.st = "deleting"
      BY <1>c, <2>3, <3>1 DEF DeleteStorageCluster, FinalizerInv, PhaseInv, DeletionPhases,
                              DeletionFinal, StorageClusterGuarded
    <3>3. {c \in Consumers : cons[c] = "early"} = {}
      BY <3>1 DEF DeleteStorageCluster, ConsumerInv, NoEarlyConsumer
    <3> QED
      BY <2>3, <3>2, <3>3 DEF Lifecycle!Drain
  <2>4. CASE sc.st = "deleting" /\ sc'.st = "absent"
    <3>1. sc'.rv # 0
      BY <1>a, <2>1
    <3> QED
      BY <2>4, <3>1 DEF Lifecycle!Decommission
  <2> QED
    BY <1>a, <1>b, <2>1, <2>2, <2>3, <2>4
<1> QED
  BY <1>1, <1>2, <1>3, <1>4 DEF ProviderMove, StorageClusterMove

\* A consumer attaches while the offering is active, or detaches; one that comes too late
\* is not a user of the lifecycle.
LEMMA ConsumersRefine ==
  ASSUME ObjectTypes, ProviderMove, OnlyConsumers
  PROVE  [Lifecycle!Next]_Lifecycle!vars
<1> USE DEF OnlyConsumers, Lifecycle!Next, Lifecycle!vars
<1>a. cons \in ConsumerStates
  BY DEF ObjectTypes
<1>1. CASE cons' = cons
  BY <1>1
<1>2. ASSUME NEW c \in Consumers, Onboard(c) PROVE [Lifecycle!Next]_Lifecycle!vars
  <2>1. CASE off.st = "active"
    <3>1. sc.st = "present" /\ cons' = [cons EXCEPT ![c] = "early"]
      BY <1>2, <2>1 DEF Onboard, WriteConsumers
    <3>2. {d \in Consumers : cons'[d] = "early"}
            = {d \in Consumers : cons[d] = "early"} \cup {c}
      BY <1>a, <3>1 DEF ConsumerStates
    <3> QED
      BY <2>1, <3>1, <3>2 DEF Lifecycle!Attach
  <2>2. CASE off.st # "active"
    <3>1. cons[c] = "none" /\ cons' = [cons EXCEPT ![c] = "late"]
      BY <1>2, <2>2 DEF Onboard, WriteConsumers
    <3>2. {d \in Consumers : cons'[d] = "early"} = {d \in Consumers : cons[d] = "early"}
      BY <1>a, <3>1 DEF ConsumerStates
    <3> QED
      BY <3>2
  <2> QED
    BY <2>1, <2>2
<1>3. ASSUME NEW c \in Consumers, Offboard(c) PROVE [Lifecycle!Next]_Lifecycle!vars
  <2>1. cons' = [cons EXCEPT ![c] = "gone"]
    BY <1>3 DEF Offboard, WriteConsumers
  <2>2. {d \in Consumers : cons'[d] = "early"} = {d \in Consumers : cons[d] = "early"} \ {c}
    BY <1>a, <2>1 DEF ConsumerStates
  <2> QED
    BY <2>2 DEF Lifecycle!Detach
<1> QED
  BY <1>1, <1>2, <1>3 DEF ProviderMove, ConsumerMove

\* The namespace is deleted when the lifecycle reclaims it.
LEMMA NamespaceRefines ==
  ASSUME ObjectTypes, FinalizerInv, StorageClusterGuarded, ReleasedInv, ProviderMove, OnlyNamespace
  PROVE  [Lifecycle!Next]_Lifecycle!vars
<1> USE DEF OnlyNamespace, Lifecycle!Next, Lifecycle!vars
<1>1. CASE ns' = ns
  BY <1>1
<1>2. CASE ns' # ns
  <2>1. DeleteNamespace /\ ns' = "terminating"
    BY <1>2 DEF ProviderMove, RemovalMove
  <2>2. snap.st = "deleting" /\ ~snap.fin
    BY <2>1 DEF DeleteNamespace, FinalizerInv, PhaseInv, DeletionPhases, ReleasedInv
  <2>3. off.rv > 0 /\ off.st # "active" /\ ~off.fin
    BY <2>2 DEF FinalizerInv, DeletionFinal, ReleasedInv
  <2>4. sc.st = "absent" /\ off.st \in {"absent", "active", "deleting"} /\ off.rv \in Nat
    BY <2>3, OfferingFields DEF StorageClusterGuarded, ObjectTypes, OfferingTypes
  <2> QED
    BY <2>1, <2>3, <2>4 DEF Lifecycle!Reclaim, Lifecycle!InUse
<1> QED
  BY <1>1, <1>2

\* Every step is a step of the lifecycle, or changes nothing in it.
LEMMA LifecycleRefined ==
  ASSUME LifecycleInv, LifecycleInv', ProviderMove
  PROVE  [Lifecycle!Next]_Lifecycle!vars
<1>1. StorageClusterGuarded
  BY DEF LifecycleInv, GuardInv
<1> QED
  BY <1>1, OfferingRefines, StorageClusterRefines, ConsumersRefine, NamespaceRefines
     DEF LifecycleInv, ProviderMove, OneObjectMove

\* The initial states are initial states of the lifecycle.
LEMMA LifecycleRefinedInit == Init => Lifecycle!Init
BY DEF Init, OfferingInit, NoOffering, NoStorageCluster, Lifecycle!Init

\* With caches up to date the reconciler of a provider offering keeps the promise of the
\* lifecycle, whatever crashes, failures, edits and late consumers come between its phases:
\* storage once and only under the finalizer, drained only when asked and unused, the
\* finalizer dropped and then the namespace deleted only with no storage left.
THEOREM LifecycleImplemented == ~CacheLag => (Spec => ImplementsLifecycle)
<1> SUFFICES ASSUME ~CacheLag PROVE Spec => ImplementsLifecycle
  OBVIOUS
<1>1. LifecycleInv /\ LifecycleInv' /\ [Next]_vars => [Lifecycle!Next]_Lifecycle!vars
  BY ProviderSteps, LifecycleRefined DEF LifecycleInv, FinalizerInv
<1> QED
  BY <1>1, LifecycleInvAlways, LifecycleRefinedInit, PTL
     DEF Spec, ImplementsLifecycle, Lifecycle!Spec

-----------------------------------------------------------------------------
(* The reconciler does not stop short: what holds when it comes to rest,   *)
(* with cached reads as old as they may be.  The argument is about         *)
(* reconciles that nothing has disturbed: as long as no event is queued or *)
(* under way, the worker's copy is the live offering and every phase it    *)
(* has left behind has done its work.  Any write of the offering or of the *)
(* StorageCluster puts an event under way or in the queue, so that another *)
(* reconcile will come.                                                    *)

-----------------------------------------------------------------------------
(* The watches.                                                            *)

\* The phases behind the check of the CRDs in dfReconcile.
WatchedPhases == {"onboardingSecret", "storageCluster", "monitors", "csv", "cephIngress",
                  "providerAPIServer", "rookConfig", "ocsInitialization", "getStorageCluster",
                  "listStorageConsumers", "deleteStorageCluster"}

\* The process that made the StorageCluster watches it, and so does every later one; the
\* StorageCluster came after the offering.
WatchInv ==
  /\ sc.st # "absent" => sc.rv > 0
  /\ sc.rv > 0 => off.rv > 0
  /\ sc.rv > 0 \/ pc \in WatchedPhases => DFCrds \subseteq avail
  /\ avail \subseteq crds

\* A deleted StorageCluster is that of a deleted offering, also when the offering went first
\* and the garbage collector followed.
NoRevival ==
  sc.st = "deleting" \/ (sc.st = "absent" /\ sc.rv > 0) => off.rv > 0 /\ off.st # "active"

\* How AvailableCRDs and the phase go on.
WatchMove ==
  /\ avail' = avail \/ (avail' = crds /\ pc' = "idle")
  /\ crds \subseteq crds'
  /\ pc' \in WatchedPhases => pc \in WatchedPhases \/ DFCrds \subseteq avail

\* Every step goes on in this way, to a phase of this plugin.
LEMMA WatchSteps ==
  ASSUME [Next]_vars
  PROVE  WatchMove /\ (pc' = pc \/ pc' \in Phases)
<1> USE DEF WatchMove, Phases, GoTo, Done, Proceed, Requeue, WatchedPhases
<1>1. CASE OfferingPhase /\ UNCHANGED consumerVars
  BY <1>1 DEF OfferingPhase, Reconcile, AddFinalizer, ReconcileOperatorGroup,
              ReconcileCatalogSource, ReconcileSubscription, CreateOrUpdate, IsReadyToBeRemoved,
              RemoveFinalizer, DeleteNamespace, UnmarshalConfig
<1>2. CASE PluginPhase /\ UNCHANGED consumerVars
  BY <1>2 DEF PluginPhase, ReconcileOnboardingValidationSecret, ReconcileStorageCluster,
              CreateStorageCluster, UpdateStorageCluster, KeepStorageCluster,
              ReconcileMonitoringResources, ReconcileCSV, ReconcileCephIngressNetworkPolicy,
              ReconcileProviderAPIServerNetworkPolicy, ReconcileRookCephOperatorConfig,
              ReconcileOCSInitialization, CreateOrUpdate, GetAndUpdate, GetStorageCluster,
              ListStorageConsumers, DeleteStorageCluster
<1>3. CASE CheckCrds /\ UNCHANGED cons /\ cCons' = IF avail' = avail THEN cCons ELSE cons
  BY <1>3 DEF CheckCrds, MissingWatch, Restart
<1>4. CASE Fault
  BY <1>4 DEF Fault, ApiFailure, Crash, Restart
<1>5. CASE Informers \/ (ResyncOffering /\ UNCHANGED consumerVars)
  BY <1>5 DEF Informers, OfferingInformer, StorageClusterInformer, StorageConsumerInformer,
              ResyncOffering, offeringVars
<1>6. CASE OlmStep
  BY <1>6 DEF OlmStep, InstallCrd, InstallObject
<1>7. CASE UserStep \/ (ReleaseHold /\ UNCHANGED consumerVars)
  BY <1>7 DEF UserStep, UserCreate, UserEdit, UserDelete, Drift, ReleaseHold
<1>8. CASE AdminScale \/ OperatorStep \/ LeavesReady
  BY <1>8 DEF AdminScale, OperatorStep, BecomesReady, LeavesReady, StorageClusterGone,
              GarbageCollect, EventOnly
<1>9. CASE \E c \in Consumers : Onboard(c) \/ Offboard(c)
  BY <1>9 DEF Onboard, Offboard, WriteConsumers, offeringVars
<1>10. CASE UNCHANGED vars
  BY <1>10 DEF vars, offeringVars
<1>11. CASE AgentStep
  BY <1>1, <1>2, <1>3, <1>11 DEF AgentStep
<1> QED
  BY <1>4, <1>5, <1>6, <1>7, <1>8, <1>9, <1>10, <1>11, StepCases

\* Only a reconcile takes the request from the queue.
LEMMA QueueSteps ==
  ASSUME [Next]_vars
  PROVE  queued /\ ~queued' => Reconcile \/ off.st = "absent"
<1> USE DEF GoTo, Done, Proceed, Requeue
<1>1. CASE OfferingPhase /\ UNCHANGED consumerVars
  BY <1>1, Zenon DEF OfferingPhase, AddFinalizer, ReconcileOperatorGroup,
              ReconcileCatalogSource, ReconcileSubscription, CreateOrUpdate, IsReadyToBeRemoved,
              RemoveFinalizer, DeleteNamespace, UnmarshalConfig, QueuedByOffering
<1>2. CASE PluginPhase /\ UNCHANGED consumerVars
  BY <1>2, Zenon DEF PluginPhase, ReconcileOnboardingValidationSecret, ReconcileStorageCluster,
              CreateStorageCluster, UpdateStorageCluster, KeepStorageCluster,
              ReconcileMonitoringResources, ReconcileCSV, ReconcileCephIngressNetworkPolicy,
              ReconcileProviderAPIServerNetworkPolicy, ReconcileRookCephOperatorConfig,
              ReconcileOCSInitialization, CreateOrUpdate, GetAndUpdate, GetStorageCluster,
              ListStorageConsumers, DeleteStorageCluster, QueuedByStorageCluster
<1>3. CASE CheckCrds /\ UNCHANGED cons /\ cCons' = IF avail' = avail THEN cCons ELSE cons
  BY <1>3, Zenon DEF CheckCrds, MissingWatch, Restart
<1>4. CASE Fault
  BY <1>4, Zenon DEF Fault, ApiFailure, Crash, Restart
<1>5. CASE Informers \/ (ResyncOffering /\ UNCHANGED consumerVars)
  BY <1>5, Zenon DEF Informers, OfferingInformer, StorageClusterInformer, StorageConsumerInformer,
              ResyncOffering, offeringVars
<1>6. CASE OlmStep
  BY <1>6, Zenon DEF OlmStep, InstallCrd, InstallObject
<1>7. CASE UserStep \/ (ReleaseHold /\ UNCHANGED consumerVars)
  BY <1>7, Zenon DEF UserStep, UserCreate, UserEdit, UserDelete, Drift, ReleaseHold,
                     QueuedByOffering
<1>8. CASE AdminScale \/ OperatorStep \/ LeavesReady
  BY <1>8, Zenon DEF AdminScale, OperatorStep, BecomesReady, LeavesReady, StorageClusterGone,
              GarbageCollect, EventOnly, QueuedByStorageCluster
<1>9. CASE \E c \in Consumers : Onboard(c) \/ Offboard(c)
  BY <1>9, Zenon DEF Onboard, Offboard, WriteConsumers, offeringVars
<1>10. CASE UNCHANGED vars
  BY <1>10, Zenon DEF vars, offeringVars
<1>11. CASE AgentStep
  BY <1>1, <1>2, <1>3, <1>11 DEF AgentStep
<1> QED
  BY <1>4, <1>5, <1>6, <1>7, <1>8, <1>9, <1>10, <1>11, StepCases

\* Every step keeps the watches.
LEMMA WatchStep ==
  ObjectTypes /\ FinalizerInv /\ WatchInv /\ ProviderMove /\ WatchMove => WatchInv'
<1> SUFFICES ASSUME ObjectTypes, FinalizerInv, WatchInv, ProviderMove, WatchMove PROVE WatchInv'
  OBVIOUS
<1>a. sc.rv \in Nat /\ off.rv \in Nat
  BY OfferingFields, StorageClusterFields DEF ObjectTypes, OfferingTypes
<1>b. off.rv > 0 => off'.rv > 0
  BY OfferingGoesOn DEF ObjectTypes, ProviderMove
<1>1. avail \subseteq avail' /\ avail' \subseteq crds'
  BY DEF WatchMove, WatchInv
<1>2. CASE sc' = sc
  BY <1>b, <1>1, <1>2 DEF WatchMove, WatchInv, WatchedPhases
<1>3. CASE sc' # sc
  <2>1. sc'.rv = sc.rv + 1 /\ (pc = "storageCluster" \/ sc.st # "absent")
    BY <1>3 DEF ProviderMove, StorageClusterMove, StorageClusterKept, StorageClusterTouched,
                CreateStorageCluster, UpdateStorageCluster, WriteStorageCluster
  <2>2. DFCrds \subseteq avail
    BY <2>1 DEF WatchInv, WatchedPhases
  <2>3. off.rv > 0
    BY <2>1 DEF WatchInv, FinalizerInv, PhaseInv, ActivePhases, FinalizerHeld, VersionInv
  <2> QED
    BY <1>a, <1>b, <1>1, <2>1, <2>2, <2>3 DEF WatchInv
<1> QED
  BY <1>2, <1>3

\* Every step keeps a deletion one.
LEMMA NoRevivalStep ==
  ObjectTypes /\ FinalizerInv /\ WatchInv /\ NoRevival /\ ProviderMove => NoRevival'
<1> SUFFICES ASSUME ObjectTypes, FinalizerInv, WatchInv, NoRevival, ProviderMove,
                    sc'.st = "deleting" \/ (sc'.st = "absent" /\ sc'.rv > 0)
             PROVE  off'.rv > 0 /\ off'.st # "active"
  BY DEF NoRevival
<1>a. sc.st \in {"absent", "present", "deleting"} /\ sc.rv \in Nat
  BY StorageClusterFields DEF ObjectTypes
<1> SUFFICES off.rv > 0 /\ off.st # "active"
  BY OfferingGoesOn DEF ObjectTypes, ProviderMove
<1>1. CASE sc' = sc \/ sc.st = "deleting"
  BY <1>1 DEF NoRevival
<1>2. CASE sc.st # "deleting" /\ sc'.st = "deleting"
  <2>1. CASE DeleteStorageCluster
    BY <2>1 DEF DeleteStorageCluster, FinalizerInv, PhaseInv, DeletionPhases, DeletionFinal
  <2>2. CASE GarbageCollect
    BY <2>2 DEF GarbageCollect, WatchInv
  <2> QED
    BY <1>2, <2>1, <2>2 DEF ProviderMove, ConsumerMove
<1>3. CASE sc.st # "deleting" /\ sc'.st = "absent" /\ sc' # sc
  BY <1>a, <1>3 DEF ProviderMove, StorageClusterMove, StorageClusterKept, StorageClusterTouched,
     CreateStorageCluster, UpdateStorageCluster, UpdateAccepted, WriteStorageCluster
<1> QED
  BY <1>1, <1>2, <1>3

-----------------------------------------------------------------------------
(* A reconcile that nothing disturbs.                                      *)

\* No request is queued and no event is under way.
Settled == ~queued /\ cOff = off /\ cSc = sc

\* The phases of the active branch behind each of those that must not be forgotten.
AfterProviderAPIServer == {"rookConfig", "ocsInitialization", "idle"}
AfterCephIngress == {"providerAPIServer"} \cup AfterProviderAPIServer
AfterStorageCluster == {"monitors", "csv", "cephIngress"} \cup AfterCephIngress
AfterOnboardingSecret == {"storageCluster"} \cup AfterStorageCluster
AfterSubscription ==
  {"unmarshal", "pluginReconcile", "onboardingSecret"} \cup AfterOnboardingSecret
AfterCatalogSource == {"subscription"} \cup AfterSubscription
AfterOperatorGroup == {"catalogSource"} \cup AfterCatalogSource

\* The active branch works from the live offering, and what it has passed is as wanted.
ConvergingInv ==
  Settled /\ off.st = "active" =>
    /\ pc # "idle" => snap = off
    /\ pc # "addFinalizer" => off.fin
    /\ pc \in AfterOperatorGroup => "operatorGroup" \in good
    /\ pc \in AfterCatalogSource => "catalogSource" \in good
    /\ pc \in AfterSubscription => "subscription" \in good
    /\ pc \in AfterOnboardingSecret => "onboardingSecret" \in good
    /\ pc \in AfterStorageCluster =>
         sc.st = "present" /\ sc.count >= DesiredDeviceSetCount(off.config)
    /\ pc \in AfterCephIngress => "cephIngress" \in good
    /\ pc \in AfterProviderAPIServer => "providerAPIServer" \in good

\* The deletion branch works from the live offering too, goes past dfIsReadyToBeRemoved only
\* for a StorageCluster that is there, and returns only to wait for it.
WaitingInv ==
  Settled /\ off.st = "deleting" /\ off.fin =>
    /\ pc # "idle" => snap = off
    /\ pc \in {"unmarshal", "pluginReconcile", "getStorageCluster", "listStorageConsumers",
               "deleteStorageCluster"} => sc.st # "absent"
    /\ pc = "idle" => sc.st = "deleting" \/ (sc.st = "present" /\ ~sc.ready)

\* A write of the StorageCluster, or its arrival in the cache, leaves an event, because it
\* is watched.  (OfferingWriteSeen says the same of the offering.)
LEMMA StorageClusterEvent ==
  ASSUME ObjectTypes, CacheBehind, WatchInv, ProviderMove, ~queued', cSc' = sc', off.st # "absent"
  PROVE  sc' = sc /\ cSc' = cSc
<1>a. sc.rv \in Nat /\ cSc.rv \in Nat /\ cSc.rv <= sc.rv
  BY StorageClusterFields DEF ObjectTypes, CacheBehind
<1>1. CASE StorageClusterKept
  <2>1. CASE cSc = sc
    BY <1>1, <2>1 DEF StorageClusterKept
  <2>2. CASE cSc # sc
    <3>1. sc.rv > 0
      BY <1>a, <2>2 DEF CacheBehind
    <3> QED
      BY <1>1, <3>1 DEF StorageClusterKept, WatchInv, DFCrds
  <2> QED
    BY <2>1, <2>2
<1>2. ASSUME NEW st, NEW ready, NEW count, WriteStorageCluster(st, ready, count),
             queued' = QueuedByStorageCluster, "storageclusters" \in avail
      PROVE  FALSE
  <2>1. CacheLag
    BY <1>2, Zenon DEF QueuedByStorageCluster
  <2>2. cSc' = cSc /\ sc'.rv = sc.rv + 1
    BY <1>2, <2>1 DEF WriteStorageCluster
  <2> QED
    BY <1>a, <2>2
<1>3. CASE pc = "storageCluster" /\ (CreateStorageCluster \/ UpdateStorageCluster)
  <2>1. "storageclusters" \in avail
    BY <1>3 DEF WatchInv, WatchedPhases, DFCrds
  <2> QED
    BY <1>2, <1>3, <2>1 DEF CreateStorageCluster, UpdateStorageCluster
<1>4. CASE StorageClusterTouched
  <2>1. "storageclusters" \in avail
    BY <1>4 DEF StorageClusterTouched, WatchInv, DFCrds
  <2> QED
    BY <1>2, <1>4, <2>1 DEF StorageClusterTouched
<1> QED
  BY <1>1, <1>3, <1>4 DEF ProviderMove, StorageClusterMove

\* A count that setDeviceSetCount leaves alone is enough for the capacity asked for.
LEMMA CountIsEnough ==
  ASSUME NEW config \in Configs, NEW curr \in Nat,
         curr = SetDeviceSetCount(DesiredDeviceSetCount(config), curr)
  PROVE  curr >= DesiredDeviceSetCount(config)
<1>1. DesiredDeviceSetCount(config) \in Nat
  BY DataFoundationAssumption DEF DesiredDeviceSetCount, OSDSizeInTiB
<1> QED
  BY <1>1 DEF SetDeviceSetCount

\* A reconcile that nothing disturbs stays on course.
LEMMA SettledStep ==
  ASSUME ObjectTypes, FinalizerInv, ReleasedInv, CacheBehind, WatchInv, NoRevival, ConvergingInv,
         WaitingInv, [Next]_vars
  PROVE  ConvergingInv' /\ WaitingInv'
<1> SUFFICES ASSUME Settled', off'.st # "absent"
             PROVE  ConvergingInv' /\ WaitingInv'
  BY DEF ConvergingInv, WaitingInv
<1>m. ProviderMove
  BY ProviderSteps DEF FinalizerInv
<1>a. off' = off /\ cOff' = cOff
  BY <1>m, OfferingWriteSeen DEF Settled, ObjectTypes, ProviderMove, FinalizerInv
<1>b. sc' = sc /\ cSc' = cSc
  BY <1>m, <1>a, StorageClusterEvent DEF Settled
<1>c. ~queued'
  BY DEF Settled
<1>d. ASSUME NEW st, NEW fin, NEW hold, NEW config, WriteOffering(st, fin, hold, config)
      PROVE  FALSE
  BY <1>a, <1>d, WrittenOffering, OfferingFields DEF ObjectTypes, OfferingTypes
<1>e. ASSUME NEW st, NEW ready, NEW count, WriteStorageCluster(st, ready, count)
      PROVE  FALSE
  BY <1>b, <1>e, StorageClusterFields DEF ObjectTypes, OfferingTypes, WriteStorageCluster
<1>f. off.st = "active" => off.st # "deleting" /\ sc.st # "deleting"
  BY DEF NoRevival
<1> USE DEF GoTo, Done, Proceed, Requeue
<1>0. CASE Reconcile
  <2>1. /\ snap' = off
        /\ \/ pc' = "addFinalizer" /\ off.st = "active"
           \/ pc' = "isReadyToBeRemoved" /\ off.st = "deleting"
    BY <1>0, <1>a DEF Reconcile, Settled
  <2> QED
    BY <1>a, <1>b, <2>1
       DEF ConvergingInv, WaitingInv, AfterOperatorGroup, AfterCatalogSource,
           AfterSubscription, AfterOnboardingSecret, AfterStorageCluster, AfterCephIngress,
           AfterProviderAPIServer
<1> SUFFICES ASSUME ~Reconcile PROVE ConvergingInv' /\ WaitingInv'
  BY <1>0
<1>g. Settled
  BY <1>a, <1>b, <1>c, QueueSteps DEF Settled
<1> USE DEF AfterOperatorGroup, AfterCatalogSource, AfterSubscription, AfterOnboardingSecret,
            AfterStorageCluster, AfterCephIngress, AfterProviderAPIServer
<1>1. CASE OfferingPhase /\ UNCHANGED consumerVars
  <2>1. CASE AddFinalizer
    BY <1>a, <1>b, <1>c, <1>d, <1>g, <2>1 DEF AddFinalizer, ConvergingInv, WaitingInv,
                                              FinalizerInv, PhaseInv
  <2>2. CASE ReconcileOperatorGroup \/ ReconcileCatalogSource \/ ReconcileSubscription
    BY <1>a, <1>b, <1>g, <2>2
       DEF ReconcileOperatorGroup, ReconcileCatalogSource, ReconcileSubscription, CreateOrUpdate,
           ConvergingInv, WaitingInv, FinalizerInv, PhaseInv, ActivePhases
  <2>3. CASE IsReadyToBeRemoved
    BY <1>a, <1>b, <1>c, <1>g, <2>3 DEF IsReadyToBeRemoved, ConvergingInv, WaitingInv, Settled,
                            FinalizerInv, PhaseInv, DeletionPhases
  <2>4. CASE RemoveFinalizer
    BY <1>a, <1>b, <1>c, <1>d, <1>g, <2>4 DEF RemoveFinalizer, ConvergingInv, WaitingInv,
                            FinalizerInv, PhaseInv, DeletionPhases
  <2>5. CASE DeleteNamespace
    BY <1>a, <1>b, <1>g, <2>5 DEF DeleteNamespace, ConvergingInv, WaitingInv, ReleasedInv,
                            FinalizerInv, PhaseInv, DeletionPhases
  <2>6. CASE UnmarshalConfig
    BY <1>a, <1>b, <1>c, <1>g, <2>6 DEF UnmarshalConfig, ConvergingInv, WaitingInv
  <2> QED
    BY <1>1, <2>1, <2>2, <2>3, <2>4, <2>5, <2>6 DEF OfferingPhase
<1>2. CASE PluginPhase /\ UNCHANGED consumerVars
  <2>1. CASE ReconcileOnboardingValidationSecret
    BY <1>a, <1>b, <1>c, <1>g, <2>1 DEF ReconcileOnboardingValidationSecret, ConvergingInv,
                                        WaitingInv,
             FinalizerInv, PhaseInv, ActivePhases
  <2>2. CASE ReconcileStorageCluster
    <3>1. KeepStorageCluster /\ pc = "storageCluster" /\ pc' = "monitors"
            /\ snap' = snap /\ good' = good
      BY <1>c, <1>e, <2>2 DEF ReconcileStorageCluster, CreateStorageCluster, UpdateStorageCluster
    <3>2. snap = off /\ off.st = "active"
      <4>1. snap.st = "active" /\ off.st \in {"active", "deleting"} /\ off.fin
        BY <3>1, OfferingFields DEF ObjectTypes, OfferingTypes, FinalizerInv, PhaseInv, ActivePhases, FinalizerHeld
      <4> QED
        BY <1>g, <3>1, <4>1 DEF ConvergingInv, WaitingInv
    <3>3. sc.count >= DesiredDeviceSetCount(off.config) /\ sc.st # "absent"
      <4>1. off.config \in Configs /\ sc.count \in Nat
        BY OfferingFields, StorageClusterFields DEF ObjectTypes, OfferingTypes
      <4>2. sc.count = SetDeviceSetCount(DesiredDeviceSetCount(off.config), sc.count)
            /\ sc.st # "absent"
        BY <1>g, <3>1, <3>2 DEF KeepStorageCluster, DesiredCount, Settled
      <4> QED
        BY <4>1, <4>2, CountIsEnough
    <3>4. sc.st = "present"
      BY <1>f, <3>2, <3>3, StorageClusterFields DEF ObjectTypes, OfferingTypes
    <3> QED
      BY <1>a, <1>b, <1>g, <3>1, <3>2, <3>3, <3>4 DEF ConvergingInv, WaitingInv
  <2>3. CASE ReconcileMonitoringResources \/ ReconcileCephIngressNetworkPolicy
               \/ ReconcileProviderAPIServerNetworkPolicy
    BY <1>a, <1>b, <1>g, <2>3
       DEF ReconcileMonitoringResources, ReconcileCephIngressNetworkPolicy,
           ReconcileProviderAPIServerNetworkPolicy, CreateOrUpdate, KindDependent,
           ConvergingInv, WaitingInv, FinalizerInv, PhaseInv, ActivePhases
  <2>4. CASE ReconcileCSV \/ ReconcileRookCephOperatorConfig \/ ReconcileOCSInitialization
    BY <1>a, <1>b, <1>c, <1>g, <2>4
       DEF ReconcileCSV, ReconcileRookCephOperatorConfig, ReconcileOCSInitialization,
           GetAndUpdate, ConvergingInv, WaitingInv, FinalizerInv, PhaseInv, ActivePhases
  <2>5. CASE GetStorageCluster \/ ListStorageConsumers \/ DeleteStorageCluster
    <3>1. off.st # "active"
      BY <2>5 DEF GetStorageCluster, ListStorageConsumers, DeleteStorageCluster, FinalizerInv,
                  PhaseInv, DeletionPhases, DeletionFinal
    <3>2. sc.st \in {"absent", "present", "deleting"}
      BY StorageClusterFields DEF ObjectTypes, OfferingTypes
    <3> QED
      BY <1>a, <1>b, <1>c, <1>e, <1>g, <2>5, <3>1, <3>2
         DEF GetStorageCluster, ListStorageConsumers, DeleteStorageCluster, ConvergingInv,
             WaitingInv, Settled
  <2> QED
    BY <1>2, <2>1, <2>2, <2>3, <2>4, <2>5 DEF PluginPhase
<1>3. CASE CheckCrds /\ UNCHANGED cons /\ cCons' = IF avail' = avail THEN cCons ELSE cons
  BY <1>a, <1>b, <1>c, <1>g, <1>3 DEF CheckCrds, MissingWatch, Restart, ConvergingInv, WaitingInv
<1>4. ~Fault
  BY <1>a, <1>c, Zenon DEF Fault, ApiFailure, Crash, Restart
<1>i. ASSUME UNCHANGED <<pc, snap, good>> PROVE ConvergingInv' /\ WaitingInv'
  BY <1>a, <1>b, <1>g, <1>i DEF ConvergingInv, WaitingInv
<1>5. CASE Informers \/ (ResyncOffering /\ UNCHANGED consumerVars)
  BY <1>5, <1>i DEF Informers, OfferingInformer, StorageClusterInformer,
                    StorageConsumerInformer, ResyncOffering, offeringVars
<1>6. CASE OlmStep
  BY <1>6, <1>i DEF OlmStep, InstallCrd, InstallObject
<1>7. CASE UserStep
  <2>1. CASE \E child \in Drifting : Drift(child, child \in DFWatched)
    <3>1. PICK child \in Drifting : Drift(child, child \in DFWatched)
      BY <2>1
    <3>2. child \notin DFWatched
      BY <1>c, <3>1, Zenon DEF Drift
    <3> QED
      BY <1>a, <1>b, <1>g, <3>1, <3>2 DEF Drift, DFWatched, ConvergingInv, WaitingInv
  <2> QED
    BY <1>d, <1>7, <2>1 DEF UserStep, UserCreate, UserEdit, UserDelete
<1>8. ~ReleaseHold
  BY <1>d DEF ReleaseHold
<1>9. ~(AdminScale \/ OperatorStep \/ LeavesReady)
  BY <1>e DEF AdminScale, OperatorStep, BecomesReady, LeavesReady, StorageClusterGone,
              GarbageCollect
<1>10. CASE \E c \in Consumers : Onboard(c) \/ Offboard(c)
  BY <1>10, <1>i DEF Onboard, Offboard, WriteConsumers, offeringVars
<1>11. CASE UNCHANGED vars
  BY <1>11, <1>i DEF vars, offeringVars
<1>12. CASE AgentStep
  BY <1>1, <1>2, <1>3, <1>12 DEF AgentStep
<1> QED
  BY <1>4, <1>5, <1>6, <1>7, <1>8, <1>9, <1>10, <1>11, <1>12, StepCases

\* The whole invariant of a reconciler that does not stop short.
ConvergenceInv ==
  /\ ObjectTypes /\ FinalizerInv /\ ReleasedInv /\ CacheBehind
  /\ WatchInv /\ NoRevival
  /\ ConvergingInv /\ WaitingInv

\* It holds at every moment, however far the informers are behind.
LEMMA ConvergenceAlways == Spec => []ConvergenceInv
<1>1. Init => ConvergenceInv
  <2>1. Init => CacheBehind /\ NoRevival /\ ConvergingInv /\ WaitingInv
    BY DEF Init, OfferingInit, NoOffering, NoStorageCluster, CacheBehind, NoRevival,
           ConvergingInv, WaitingInv
  <2>2. Init => WatchInv
    BY DEF Init, OfferingInit, NoStorageCluster, WatchInv, WatchedPhases
  <2> QED
    BY <2>1, <2>2, TypeInit, TypedObjects, OfferingInvInit DEF ConvergenceInv, Init
<1>2. ASSUME ConvergenceInv, [Next]_vars PROVE ConvergenceInv'
  <2>1. ProviderMove /\ WatchMove
    BY <1>2, ProviderSteps, WatchSteps DEF ConvergenceInv, FinalizerInv
  <2>2. ObjectTypes' /\ FinalizerInv' /\ ReleasedInv'
    BY <1>2, <2>1, ObjectTypesKept, FinalizerKept, ReleasedKept
       DEF ConvergenceInv, ObjectTypes, ProviderMove
  <2>3. CacheBehind' /\ WatchInv' /\ NoRevival'
    BY <1>2, <2>1, CacheBehindStep, WatchStep, NoRevivalStep DEF ConvergenceInv, ProviderMove
  <2> QED
    BY <1>2, <2>2, <2>3, SettledStep DEF ConvergenceInv
<1> QED
  BY <1>1, <1>2, PTL DEF Spec

\* When the reconciler has nothing left to do for an active offering, the finalizer, the
\* StorageCluster and every resource it watches are as the current configuration wants
\* them: after any edits, drift, failures, crashes and stale reads, for every constant.
THEOREM Converges == Spec => []SettledMeansConverged
<1>1. ConvergenceInv => SettledMeansConverged
  BY DEF ConvergenceInv, ConvergingInv, SettledMeansConverged, Quiescent, Settled, DFWatched,
         AfterOperatorGroup, AfterCatalogSource, AfterSubscription, AfterOnboardingSecret,
         AfterStorageCluster, AfterCephIngress, AfterProviderAPIServer
<1> QED
  BY <1>1, ConvergenceAlways, PTL

\* When the reconciler comes to rest with the finalizer of a deleted offering in place, it
\* waits for a StorageCluster that is being deleted or is not Ready, and it watches it.  The
\* run checks this with caches up to date; it holds with stale ones as well.
THEOREM DeletionRemembered == Spec => []SettledMeansWaiting
<1>1. ConvergenceInv => SettledMeansWaiting
  BY DEF ConvergenceInv, WaitingInv, WatchInv, SettledMeansWaiting, Quiescent, Settled, DFCrds
<1> QED
  BY <1>1, ConvergenceAlways, PTL

\* Only a process that watches StorageClusters makes or keeps one (HandleMissingWatch).
THEOREM StorageClusterAlwaysWatched == Spec => []StorageClusterWatched
<1>1. ConvergenceInv => StorageClusterWatched
  BY DEF ConvergenceInv, WatchInv, StorageClusterWatched
<1> QED
  BY <1>1, ConvergenceAlways, PTL
=============================================================================
