------------------------- MODULE OfferingKindsProofs -------------------------
(***************************************************************************)
(* Proofs about OfferingKinds, for every set of configurations of both     *)
(* kinds, every number of consumers and every bound: whenever and however  *)
(* often the Kind of the offering is edited, whatever fails and however    *)
(* far the informers are behind, unless a theorem says ~CacheLag.  A step  *)
(* of the client's plugin is a ProviderMove too, one that leaves the       *)
(* StorageCluster and the consumers alone, so that what                    *)
(* DataFoundationProofs concludes from ProviderMove holds here as well.    *)
(***************************************************************************)
EXTENDS OfferingKinds, DataFoundationProofs

USE DEF apiVars, cacheVars, workerVars, consumerVars, clientVars

-----------------------------------------------------------------------------
(* The common part, as each plugin's module has it.                        *)

USE DEF Client!apiVars, Client!cacheVars, Client!workerVars, Client!clientVars

\* The two modules mean the same by the end of a reconcile, a phase and a restart.
LEMMA SameWorker ==
  /\ Client!NoOffering = NoOffering
  /\ Client!Done <=> Done
  /\ Client!Requeue <=> Requeue
  /\ Client!Restart <=> Restart
  /\ \A p : Client!GoTo(p) <=> GoTo(p)
  /\ \A p : Client!Proceed(p) <=> Proceed(p)
  /\ \A crd : Client!MissingWatch(crd) <=> MissingWatch(crd)
<1>1. Client!NoOffering = NoOffering
  BY DEF Client!NoOffering, NoOffering, Client!AnyConfig, AnyConfig
<1>2. (Client!Done <=> Done) /\ (Client!Requeue <=> Requeue)
  BY <1>1 DEF Client!Done, Done, Client!Requeue, Requeue
<1>3. Client!Restart <=> Restart
  BY <1>1 DEF Client!Restart, Restart
<1>4. \A p : (Client!GoTo(p) <=> GoTo(p)) /\ (Client!Proceed(p) <=> Proceed(p))
  BY <1>1, <1>2 DEF Client!GoTo, GoTo, Client!Proceed, Proceed
<1>5. \A crd : Client!MissingWatch(crd) <=> MissingWatch(crd)
  BY <1>2, <1>3 DEF Client!MissingWatch, MissingWatch
<1> QED
  BY <1>1, <1>2, <1>3, <1>4, <1>5

\* And by the actions they share.
LEMMA SameActions ==
  /\ Client!OfferingPhase => OfferingPhase
  /\ \A child, next : Client!CreateOrUpdate(child, next) <=> CreateOrUpdate(child, next)
  /\ \A child, next : Client!GetAndUpdate(child, next) <=> GetAndUpdate(child, next)
  /\ \A crd : Client!InstallCrd(crd) <=> InstallCrd(crd)
  /\ \A obj, needed : Client!InstallObject(obj, needed) <=> InstallObject(obj, needed)
<1>1. \A child, next : Client!CreateOrUpdate(child, next) <=> CreateOrUpdate(child, next)
  BY SameWorker DEF Client!CreateOrUpdate, CreateOrUpdate, Client!KindDependent, KindDependent
<1>2. \A child, next : Client!GetAndUpdate(child, next) <=> GetAndUpdate(child, next)
  BY SameWorker DEF Client!GetAndUpdate, GetAndUpdate
<1>3. /\ \A crd : Client!InstallCrd(crd) <=> InstallCrd(crd)
      /\ \A obj, needed : Client!InstallObject(obj, needed) <=> InstallObject(obj, needed)
  BY DEF Client!InstallCrd, InstallCrd, Client!InstallObject, InstallObject
<1>4. Client!Reconcile => Reconcile
  BY DEF Client!Reconcile, Reconcile
<1>5. Client!AddFinalizer => AddFinalizer
  BY SameWorker DEF Client!AddFinalizer, AddFinalizer, Client!UpdateAccepted, UpdateAccepted,
     Client!WriteOffering, WriteOffering, Client!QueuedByOffering, QueuedByOffering
<1>6. /\ Client!ReconcileOperatorGroup => ReconcileOperatorGroup
      /\ Client!ReconcileCatalogSource => ReconcileCatalogSource
      /\ Client!ReconcileSubscription => ReconcileSubscription
  BY <1>1 DEF Client!ReconcileOperatorGroup, ReconcileOperatorGroup,
     Client!ReconcileCatalogSource, ReconcileCatalogSource, Client!ReconcileSubscription,
     ReconcileSubscription
<1>7. Client!IsReadyToBeRemoved => IsReadyToBeRemoved
  BY SameWorker DEF Client!IsReadyToBeRemoved, IsReadyToBeRemoved
<1>8. Client!RemoveFinalizer => RemoveFinalizer
  BY SameWorker DEF Client!RemoveFinalizer, RemoveFinalizer, Client!UpdateAccepted,
     UpdateAccepted, Client!WriteOffering, WriteOffering, Client!QueuedByOffering,
     QueuedByOffering
<1>9. (Client!DeleteNamespace => DeleteNamespace) /\ (Client!UnmarshalConfig => UnmarshalConfig)
  BY SameWorker DEF Client!DeleteNamespace, DeleteNamespace, Client!UnmarshalConfig,
     UnmarshalConfig
<1> QED
  BY <1>1, <1>2, <1>3, <1>4, <1>5, <1>6, <1>7, <1>8, <1>9
     DEF Client!OfferingPhase, OfferingPhase

-----------------------------------------------------------------------------
(* The steps.                                                              *)

\* The steps that DataFoundation does not take: the plugin of the client, what OLM installs for
\* it, the informer of the StorageClient and what else happens to it.
ClientPhase ==
  \/ Client!PluginPhase /\ UNCHANGED clientVars
  \/ Client!ReconcileStorageClient
  \/ Client!CheckCrds /\ UNCHANGED client /\ cClient' = IF avail' = avail THEN cClient ELSE client

ClientSide ==
  \/ /\ ClientPhase
     /\ UNCHANGED cons
     /\ cCons' = IF avail' = avail THEN cCons ELSE cons
  \/ Client!OlmStep /\ UNCHANGED consumerVars
  \/ Client!StorageClientInformer /\ UNCHANGED consumerVars
  \/ ClientCluster

\* Somebody tampers with a resource of either Kind.
AnyDrift ==
  /\ \E child \in Drifting : Drift(child, child \in DFWatched \cup Client!DFCWatched)
  /\ UNCHANGED <<consumerVars, clientVars>>

\* Every other step is one of DataFoundation, and leaves the StorageClient alone; if the
\* process restarts the informer lists it anew.
LEMMA KindsStepCases ==
  ASSUME [KindsNext]_kindVars
  PROVE  \/ /\ [Next]_vars
            /\ client' = client
            /\ cClient' \in {cClient, client}
         \/ ClientSide
         \/ AnyDrift
<1>1. CASE ProviderWorker
  BY <1>1 DEF ProviderWorker, Next
<1>2. CASE ClientWorker
  <2>1. CASE Client!OfferingPhase /\ UNCHANGED clientVars
    <3>1. OfferingPhase /\ avail' = avail
      BY <2>1, SameActions DEF OfferingPhase, Reconcile, AddFinalizer, ReconcileOperatorGroup,
         ReconcileCatalogSource, ReconcileSubscription, CreateOrUpdate, IsReadyToBeRemoved,
         RemoveFinalizer, DeleteNamespace, UnmarshalConfig
    <3> QED
      BY <1>2, <2>1, <3>1 DEF ClientWorker, Next, AgentStep
  <2>2. CASE ClientPhase
    BY <1>2, <2>2 DEF ClientWorker, ClientSide
  <2> QED
    BY <1>2, <2>1, <2>2 DEF ClientWorker, Client!AgentStep, ClientPhase
<1>3. CASE Olm
  BY <1>3 DEF Olm, Next, OlmStep, InstallCrd, InstallObject, ClientSide
<1>4. CASE ResyncStep
  BY <1>4 DEF ResyncStep, Next, ResyncOffering
<1>5. CASE User
  BY <1>5 DEF User, Next, UserStep, UserCreate, UserEdit, UserDelete, AnyDrift
<1>6. CASE ProviderCluster \/ ProviderOperator
  BY <1>6 DEF ProviderCluster, ProviderOperator, Next, AdminScale, LeavesReady, Onboard,
              OperatorStep, BecomesReady, StorageClusterGone, GarbageCollect, EventOnly,
              WriteConsumers, offeringVars
<1>7. CASE \E c \in Consumers : ConsumerLeaves(c)
  BY <1>7 DEF ConsumerLeaves, Next, Offboard, WriteConsumers, offeringVars
<1>8. CASE ClientCluster
  BY <1>8 DEF ClientSide
<1>9. CASE FailureOrCrash
  BY <1>9 DEF FailureOrCrash, Next, Fault
<1>10. CASE Events
  BY <1>10 DEF Events, Next, ClientSide
<1>11. CASE HoldReleased
  BY <1>11 DEF HoldReleased, Next
<1>12. CASE UNCHANGED kindVars
  BY <1>12 DEF kindVars, vars, offeringVars
<1> QED
  BY <1>1, <1>2, <1>3, <1>4, <1>5, <1>6, <1>7, <1>8, <1>9, <1>10, <1>11, <1>12
     DEF KindsNext, Worker

\* The phases of the client's plugin go on from an active copy, or return.
LEMMA ClientPhaseMoves ==
  ASSUME ObjectTypes, PhaseInv, ClientPhase
  PROVE  OfferingMove /\ UNCHANGED <<off, sc, ns>> /\ StorageClusterKept /\ WatchMove
         /\ pc' \notin DeletionPhases
<1> USE SameWorker, SameActions
<1> USE DEF GoTo, Done, Proceed, Requeue, OfferingMove, WorkerMoves, OfferingKept, PhaseInv,
            ActivePhases, DeletionPhases, StorageClusterKept, WatchMove, WatchedPhases
<1>1. CASE Client!PluginPhase
  BY <1>1 DEF Client!PluginPhase, Client!ReconcileCSV,
     Client!ReconcileDefaultBlockStorageClassClaim, Client!ReconcileDefaultFSStorageClassClaim,
     Client!ReconcileCSIKMSConnectionDetailsConfigMap, CreateOrUpdate, GetAndUpdate
<1>2. CASE Client!ReconcileStorageClient
  BY <1>2 DEF Client!ReconcileStorageClient
<1>3. CASE Client!CheckCrds
  <2> HIDE SameWorker, SameActions
  <2>1. snap.st \in {"absent", "active", "deleting"}
    BY OfferingFields DEF ObjectTypes, OfferingTypes
  <2>2. CASE MissingWatch("storageclients") \/ MissingWatch("storageclassclaims")
    BY <2>2 DEF MissingWatch, Restart
  <2>3. CASE /\ Proceed(IF snap.st = "deleting" THEN "idle" ELSE "clientCsv")
             /\ pc = "pluginReconcile"
             /\ UNCHANGED <<apiVars, cacheVars, avail, faults>>
    BY <2>1, <2>3
  <2> QED
    BY <1>3, <2>2, <2>3, SameWorker DEF Client!CheckCrds
<1> QED
  BY <1>1, <1>2, <1>3 DEF ClientPhase

\* Every step moves the cluster in one of the ways that DataFoundation allows.
LEMMA KindsMoves ==
  ASSUME ObjectTypes, PhaseInv, [KindsNext]_kindVars
  PROVE  ProviderMove /\ WatchMove
<1> USE DEF ProviderMove
<1>1. CASE [Next]_vars
  BY <1>1, ProviderSteps, WatchSteps
<1>2. ASSUME OfferingMove, UNCHANGED <<off, sc, ns, cons>>, StorageClusterKept,
             cCons' \in {cCons, cons}, pc' = pc \/ pc' \notin DeletionPhases
      PROVE  ProviderMove
  BY <1>2 DEF RemovalMove, StorageClusterMove, ConsumerMove, OneObjectMove, OnlyOffering,
              DeletionPhases
<1>3. CASE ClientPhase /\ UNCHANGED cons /\ cCons' = IF avail' = avail THEN cCons ELSE cons
  BY <1>2, <1>3, ClientPhaseMoves
<1>4. ASSUME UNCHANGED <<off, cOff, sc, cSc, ns, pc, snap, avail>>, UNCHANGED consumerVars,
             crds \subseteq crds'
      PROVE  ProviderMove /\ WatchMove
  BY <1>2, <1>4, WorkerWaits DEF OfferingKept, StorageClusterKept, WatchMove
<1>5. CASE (Client!OlmStep \/ AnyDrift) /\ UNCHANGED consumerVars
  BY <1>4, <1>5, SameActions DEF Client!OlmStep, InstallCrd, InstallObject, AnyDrift, Drift
<1>6. CASE ClientCluster \/ (Client!StorageClientInformer /\ UNCHANGED consumerVars)
  BY <1>4, <1>6 DEF ClientCluster, Client!OtherOfferingInstalled, Client!StorageClientGone,
                    Client!TamperWithStorageClient, Client!StorageClientInformer
<1> QED
  BY <1>1, <1>3, <1>5, <1>6, KindsStepCases DEF ClientSide, AnyDrift

-----------------------------------------------------------------------------
(* The invariant.                                                          *)

\* The phases behind the check of the CRDs in dfcReconcile.
ClientPhases == {"clientCsv", "storageClient", "blockClaim", "fsClaim", "kmsConfig"}

\* The process that made the StorageClient watches it, and so does every later one.
ClientWatchInv == client.st = "present" \/ pc \in ClientPhases => Client!DFCCrds \subseteq avail

\* A reconcile that nothing disturbs works from the live offering, goes past
\* dfIsReadyToBeRemoved only for a StorageCluster that is there, whatever the Kind, and
\* returns only to wait for it or if the plugin of the client has nothing to do with it.
KindsWaitingInv ==
  Settled /\ off.st = "deleting" /\ off.fin =>
    /\ pc # "idle" => snap = off
    /\ pc \in {"unmarshal", "pluginReconcile", "getStorageCluster", "listStorageConsumers",
               "deleteStorageCluster"} => sc.st # "absent"
    /\ pc = "idle" => sc.st = "deleting" \/ (sc.st = "present" /\ ~sc.ready) \/ Orphaned

\* The invariant, whatever the lag.
KindsInv ==
  /\ ObjectTypes /\ FinalizerInv /\ ReleasedInv /\ CacheBehind
  /\ ns \in {"active", "terminating"}
  /\ WatchInv /\ ClientWatchInv
  /\ KindsWaitingInv

\* Who makes a StorageClient, and how the worker gets to the phases of its plugin.
LEMMA ClientSteps ==
  ASSUME [KindsNext]_kindVars
  PROVE  /\ client.st # "present" /\ client'.st = "present" => pc = "storageClient"
         /\ pc' \in ClientPhases => pc \in ClientPhases \/ Client!DFCCrds \subseteq avail
<1> USE SameWorker, SameActions
<1> USE DEF GoTo, Done, Proceed, Requeue, ClientPhases
<1>1. CASE [Next]_vars /\ client' = client
  BY <1>1, WatchSteps DEF Phases
<1>2. CASE ClientPhase
  <2>1. CASE Client!PluginPhase /\ UNCHANGED clientVars
    BY <2>1 DEF Client!PluginPhase, Client!ReconcileCSV,
       Client!ReconcileDefaultBlockStorageClassClaim, Client!ReconcileDefaultFSStorageClassClaim,
       Client!ReconcileCSIKMSConnectionDetailsConfigMap, CreateOrUpdate, GetAndUpdate
  <2>2. CASE Client!ReconcileStorageClient
    BY <2>2 DEF Client!ReconcileStorageClient
  <2>3. CASE Client!CheckCrds /\ UNCHANGED client
    BY <2>3 DEF Client!CheckCrds, MissingWatch, Restart
  <2> QED
    BY <1>2, <2>1, <2>2, <2>3 DEF ClientPhase
<1>3. CASE Client!OlmStep
  BY <1>3 DEF Client!OlmStep, InstallCrd, InstallObject
<1>4. CASE AnyDrift
  BY <1>4 DEF AnyDrift, Drift
<1>5. CASE ClientCluster \/ Client!StorageClientInformer
  BY <1>5 DEF ClientCluster, Client!OtherOfferingInstalled, Client!StorageClientGone,
              Client!TamperWithStorageClient, Client!StorageClientInformer
<1> QED
  BY <1>1, <1>2, <1>3, <1>4, <1>5, KindsStepCases DEF ClientSide

\* Every step keeps the watches of the client's plugin.
LEMMA ClientWatchStep ==
  ASSUME WatchInv, WatchMove, ClientWatchInv, [KindsNext]_kindVars
  PROVE  ClientWatchInv'
<1>1. avail \subseteq avail'
  BY DEF WatchInv, WatchMove
<1>2. client'.st = "present" => client.st = "present" \/ pc = "storageClient"
  BY ClientSteps
<1>3. "storageClient" \in ClientPhases
  BY DEF ClientPhases
<1> QED
  BY <1>1, <1>2, <1>3, ClientSteps DEF ClientWatchInv

\* Only a reconcile takes the request from the queue.
LEMMA KindsQueueSteps ==
  ASSUME [KindsNext]_kindVars
  PROVE  queued /\ ~queued' => Reconcile \/ off.st = "absent"
<1> USE DEF GoTo, Done, Proceed, Requeue
<1>1. CASE [Next]_vars
  BY <1>1, QueueSteps
<1>2. CASE Client!PluginPhase
  BY <1>2, SameActions, Zenon DEF Client!PluginPhase, Client!ReconcileCSV,
     Client!ReconcileDefaultBlockStorageClassClaim, Client!ReconcileDefaultFSStorageClassClaim,
     Client!ReconcileCSIKMSConnectionDetailsConfigMap, CreateOrUpdate, GetAndUpdate
<1>3. CASE Client!ReconcileStorageClient
  BY <1>3, SameWorker, Zenon DEF Client!ReconcileStorageClient, Client!CreateStorageClient,
     Client!UpdateStorageClient, Client!KeepStorageClient, Client!QueuedByStorageClient
<1>4. CASE Client!CheckCrds
  BY <1>4, SameWorker, Zenon DEF Client!CheckCrds, MissingWatch, Restart
<1>5. CASE Client!OlmStep
  BY <1>5, SameActions, Zenon DEF Client!OlmStep, InstallCrd, InstallObject
<1>6. CASE AnyDrift
  BY <1>6, Zenon DEF AnyDrift, Drift
<1>7. CASE ClientCluster \/ Client!StorageClientInformer
  BY <1>7, Zenon DEF ClientCluster, Client!OtherOfferingInstalled, Client!StorageClientGone,
                     Client!TamperWithStorageClient, Client!QueuedByStorageClient,
                     Client!StorageClientInformer
<1> QED
  BY <1>1, <1>2, <1>3, <1>4, <1>5, <1>6, <1>7, KindsStepCases DEF ClientSide, ClientPhase

\* A reconcile that nothing disturbs comes to rest only where it may.
LEMMA KindsWaitingStep ==
  ASSUME KindsInv, [KindsNext]_kindVars
  PROVE  KindsWaitingInv'
<1> SUFFICES ASSUME Settled', off'.st = "deleting", off'.fin PROVE KindsWaitingInv'
  BY DEF KindsWaitingInv
<1>m. ObjectTypes /\ FinalizerInv /\ ReleasedInv /\ CacheBehind /\ ProviderMove
  BY KindsMoves DEF KindsInv, FinalizerInv
<1>n. ~queued' /\ cOff' = off' /\ cSc' = sc'
  BY DEF Settled
<1>a. off' = off /\ cOff' = cOff
  BY <1>m, <1>n, OfferingWriteSeen DEF ObjectTypes, ProviderMove, FinalizerInv
<1>b. sc' = sc /\ cSc' = cSc
  BY <1>m, <1>n, <1>a, StorageClusterEvent DEF KindsInv
<1>c. Orphaned' = Orphaned
  BY <1>a, <1>b DEF Orphaned
<1>d. ASSUME NEW st, NEW fin, NEW hold, NEW config, WriteOffering(st, fin, hold, config)
      PROVE  FALSE
  <2>1. off.rv \in Nat
    BY <1>m, OfferingFields DEF ObjectTypes, OfferingTypes
  <2>2. off'.rv = off.rv + 1
    BY <1>d DEF WriteOffering
  <2> QED
    BY <1>a, <2>1, <2>2
<1>e. ASSUME NEW st, NEW ready, NEW count, WriteStorageCluster(st, ready, count)
      PROVE  FALSE
  BY <1>m, <1>b, <1>e, StorageClusterFields DEF ObjectTypes, WriteStorageCluster
<1>f. sc.st \in {"absent", "present", "deleting"} /\ off.config.kind \in {"DF", "DFC"}
  BY <1>m, StorageClusterFields, OfferingFields, OfferingAssumption DEF ObjectTypes, OfferingTypes
<1> USE DEF GoTo, Done, Proceed, Requeue
<1>0. CASE Reconcile
  BY <1>0, <1>a, <1>n DEF Reconcile, KindsInv, KindsWaitingInv
<1> SUFFICES ASSUME ~Reconcile PROVE KindsWaitingInv'
  BY <1>0
<1>g. ~queued /\ Settled /\ off.st = "deleting" /\ off.fin /\ KindsWaitingInv /\ cSc = sc
  BY <1>a, <1>b, <1>n, KindsQueueSteps DEF KindsInv, Settled
<1>i. ASSUME UNCHANGED <<pc, snap>> PROVE KindsWaitingInv'
  BY <1>a, <1>b, <1>c, <1>g, <1>i DEF KindsWaitingInv
\* An active branch would work from an active copy.
<1>j. pc \notin ActivePhases
  BY <1>m, <1>g DEF KindsWaitingInv, FinalizerInv, PhaseInv, ActivePhases
<1>1. CASE OfferingPhase
  <2>1. ~(AddFinalizer \/ ReconcileOperatorGroup \/ ReconcileCatalogSource \/ ReconcileSubscription)
    BY <1>j DEF AddFinalizer, ReconcileOperatorGroup, ReconcileCatalogSource,
                ReconcileSubscription, CreateOrUpdate, ActivePhases
  <2>2. CASE IsReadyToBeRemoved \/ UnmarshalConfig
    BY <1>a, <1>b, <1>g, <1>n, <2>2 DEF IsReadyToBeRemoved, UnmarshalConfig, KindsWaitingInv
  <2>3. ~RemoveFinalizer
    BY <1>d, <1>g, <1>m DEF RemoveFinalizer, KindsWaitingInv, UpdateAccepted
  <2>4. ~DeleteNamespace
    BY <1>g, <1>m DEF DeleteNamespace, KindsWaitingInv, ReleasedInv
  <2> QED
    BY <1>1, <2>1, <2>2, <2>3, <2>4 DEF OfferingPhase
<1>2. CASE PluginPhase
  <2>1. CASE GetStorageCluster \/ ListStorageConsumers
    BY <1>a, <1>b, <1>f, <1>g, <1>n, <2>1
       DEF GetStorageCluster, ListStorageConsumers, KindsWaitingInv
  <2>2. CASE DeleteStorageCluster
    BY <1>a, <1>b, <1>e, <1>f, <1>g, <2>2 DEF DeleteStorageCluster, KindsWaitingInv
  <2> QED
    BY <1>2, <1>j, <2>1, <2>2
       DEF PluginPhase, ReconcileOnboardingValidationSecret, ReconcileStorageCluster,
           ReconcileMonitoringResources, ReconcileCSV, ReconcileCephIngressNetworkPolicy,
           ReconcileProviderAPIServerNetworkPolicy, ReconcileRookCephOperatorConfig,
           ReconcileOCSInitialization, CreateOrUpdate, GetAndUpdate, ActivePhases
<1>3. ASSUME NEW crd PROVE ~MissingWatch(crd)
  BY <1>a, <1>g, <1>n, Zenon DEF MissingWatch, Restart
<1>4. CASE CheckCrds
  BY <1>a, <1>b, <1>g, <1>3, <1>4 DEF CheckCrds, KindsWaitingInv
\* The deletion branch of dfcReconcile returns, whatever StorageCluster there is.
<1>5. CASE Client!CheckCrds
  <2>1. /\ pc = "pluginReconcile" /\ snap.config.kind = "DFC"
        /\ Proceed(IF snap.st = "deleting" THEN "idle" ELSE "clientCsv")
    BY <1>3, <1>5, SameWorker DEF Client!CheckCrds
  <2>2. snap = off /\ sc.st # "absent"
    BY <1>g, <2>1 DEF KindsWaitingInv
  <2>3. pc' = "idle" /\ (sc.st = "deleting" \/ Orphaned)
    BY <1>f, <1>g, <2>1, <2>2 DEF Orphaned
  <2> QED
    BY <1>b, <1>c, <2>3 DEF KindsWaitingInv
<1>6. ~(Client!PluginPhase \/ Client!ReconcileStorageClient)
  BY <1>j, SameActions DEF Client!PluginPhase, Client!ReconcileCSV,
     Client!ReconcileDefaultBlockStorageClassClaim, Client!ReconcileDefaultFSStorageClassClaim,
     Client!ReconcileCSIKMSConnectionDetailsConfigMap, CreateOrUpdate, GetAndUpdate,
     Client!ReconcileStorageClient, ActivePhases
<1>7. CASE Client!OlmStep \/ ClientCluster \/ Client!StorageClientInformer \/ AnyDrift
  BY <1>7, <1>i, SameActions DEF Client!OlmStep, InstallCrd, InstallObject, ClientCluster,
     Client!OtherOfferingInstalled, Client!StorageClientGone, Client!TamperWithStorageClient,
     Client!StorageClientInformer, AnyDrift, Drift
<1>8. ~Fault
  BY <1>a, <1>g, <1>n, Zenon DEF Fault, ApiFailure, Crash, Restart
<1>9. CASE Informers \/ ResyncOffering
  BY <1>9, <1>i DEF Informers, OfferingInformer, StorageClusterInformer,
                    StorageConsumerInformer, ResyncOffering, offeringVars
<1>10. CASE OlmStep
  BY <1>10, <1>i DEF OlmStep, InstallCrd, InstallObject
<1>11. CASE UserStep \/ ReleaseHold
  BY <1>11, <1>i, <1>d DEF UserStep, UserCreate, UserEdit, UserDelete, Drift, ReleaseHold
<1>12. ~(AdminScale \/ OperatorStep \/ LeavesReady)
  BY <1>e DEF AdminScale, OperatorStep, BecomesReady, LeavesReady, StorageClusterGone,
              GarbageCollect
<1>13. CASE \E c \in Consumers : Onboard(c) \/ Offboard(c)
  BY <1>13, <1>i DEF Onboard, Offboard, WriteConsumers, offeringVars
<1>14. CASE UNCHANGED vars
  BY <1>14, <1>i DEF vars, offeringVars
<1>15. CASE [Next]_vars
  BY <1>1, <1>2, <1>4, <1>8, <1>9, <1>10, <1>11, <1>12, <1>13, <1>14, <1>15, StepCases
     DEF AgentStep
<1> QED
  BY <1>5, <1>6, <1>7, <1>15, KindsStepCases DEF ClientSide, ClientPhase

-----------------------------------------------------------------------------
(* The results.                                                            *)

\* The invariant holds at every moment, however often the Kind is edited.
LEMMA KindsInvAlways == KindsSpec => []KindsInv
<1>1. KindsInit => KindsInv
  <2>1. KindsInit => Init /\ ClientWatchInv /\ KindsWaitingInv /\ ns = "active"
    BY DEF KindsInit, Init, OfferingInit, NoOffering, Client!NoStorageClient, ClientWatchInv,
           ClientPhases, KindsWaitingInv
  <2>2. Init => WatchInv /\ CacheBehind
    BY DEF Init, OfferingInit, NoStorageCluster, WatchInv, WatchedPhases, CacheBehind
  <2> QED
    BY <2>1, <2>2, TypeInit, TypedObjects, OfferingInvInit DEF KindsInv, Init
<1>2. ASSUME KindsInv, [KindsNext]_kindVars PROVE KindsInv'
  <2>1. ProviderMove /\ WatchMove
    BY <1>2, KindsMoves DEF KindsInv, FinalizerInv
  <2>2. ObjectTypes' /\ FinalizerInv' /\ ReleasedInv'
    BY <1>2, <2>1, ObjectTypesKept, FinalizerKept, ReleasedKept
       DEF KindsInv, ObjectTypes, ProviderMove
  <2>3. CacheBehind' /\ WatchInv'
    BY <1>2, <2>1, CacheBehindStep, WatchStep DEF KindsInv, ProviderMove
  <2>4. ns' \in {"active", "terminating"}
    BY <1>2, <2>1 DEF KindsInv, ProviderMove, RemovalMove
  <2>5. ClientWatchInv'
    BY <1>2, <2>1, ClientWatchStep DEF KindsInv
  <2> QED
    BY <1>2, <2>2, <2>3, <2>4, <2>5, KindsWaitingStep DEF KindsInv
<1>3. KindsInv /\ [KindsNext]_kindVars => KindsInv'
  BY <1>2
<1> QED
  BY <1>1, <1>3, PTL DEF KindsSpec

\* Whatever the Kind of a deleted offering was and has become, across failures, crashes and
\* stale copies, the reconciler comes to rest with the finalizer in place only while it waits
\* for the StorageCluster, or if a change of Kind has orphaned it.
THEOREM DeletionRememberedWhateverKind == KindsSpec => []KindsSettled
<1>1. KindsInv => KindsSettled
  BY DEF KindsInv, KindsWaitingInv, KindsSettled, Quiescent, Settled
<1> QED
  BY <1>1, KindsInvAlways, PTL

\* The plugin of either Kind makes its StorageCluster or StorageClient only in a process that
\* watches it, whichever Kind the process was started for and however often it crashed.
THEOREM AlwaysBothWatched == KindsSpec => []BothWatched
<1>1. KindsInv => BothWatched
  BY DEF KindsInv, WatchInv, ClientWatchInv, BothWatched, StorageClusterWatched,
         Client!StorageClientWatched
<1> QED
  BY <1>1, KindsInvAlways, PTL

\* "Prevent downscaling", and the finalizer put on before the StorageCluster is made, survive
\* the edits of the Kind, with copies of the offering and the StorageCluster of any age.
THEOREM StorageClusterWhateverKind == KindsSpec => NoDownscale /\ FinalizerBeforeStorageCluster
<1>1. KindsInv /\ [KindsNext]_kindVars
        => /\ [sc.st # "absent" /\ sc'.st # "absent" => sc'.count >= sc.count]_vars
           /\ [sc.st = "absent" /\ sc'.st # "absent" => off.st # "absent" /\ off.fin]_vars
  <2> SUFFICES ASSUME KindsInv, [KindsNext]_kindVars
               PROVE  /\ sc.st # "absent" /\ sc'.st # "absent" => sc'.count >= sc.count
                      /\ sc.st = "absent" /\ sc'.st # "absent" => off.st # "absent" /\ off.fin
    OBVIOUS
  <2>1. ObjectTypes /\ FinalizerInv /\ CacheBehind /\ StorageClusterMove
    BY KindsMoves DEF KindsInv, FinalizerInv, ProviderMove
  <2> QED
    BY <2>1, NoDownscaleStep, FinalizerFirstStep
<1> QED
  BY <1>1, KindsInvAlways, PTL DEF KindsSpec, NoDownscale, FinalizerBeforeStorageCluster

\* And no StorageClient is made for an offering that is gone, has given up its finalizer or
\* lives in a namespace that is being deleted, from a copy of any age.
THEOREM NothingResurrectedWhateverKind == KindsSpec => NoResurrectionWhateverKind
<1>1. ASSUME KindsInv, [KindsNext]_kindVars, client.st = "absent", client'.st = "present"
      PROVE  off.st # "absent" /\ off.fin /\ ns = "active"
  <2>1. pc = "storageClient"
    BY <1>1, ClientSteps
  <2>2. off.st # "absent" /\ off.fin
    BY <1>1, <2>1 DEF KindsInv, FinalizerInv, PhaseInv, ActivePhases, FinalizerHeld
  <2> QED
    BY <1>1, <2>2 DEF KindsInv, ReleasedInv
<1>2. KindsInv /\ [KindsNext]_kindVars
        => [client.st = "absent" /\ client'.st = "present"
              => off.st # "absent" /\ off.fin /\ ns = "active"]_Client!vars
  BY <1>1
<1> QED
  BY <1>2, KindsInvAlways, PTL DEF KindsSpec, NoResurrectionWhateverKind, Client!NoResurrection

-----------------------------------------------------------------------------
(* The order of a removal, when cached reads are up to date.  With a stale *)
(* StorageCluster dfIsReadyToBeRemoved is wrong for either Kind.           *)

\* Everything around the StorageCluster stays in order, as it does for a provider.
LEMMA KindsLifecycleStep ==
  ASSUME ~CacheLag, LifecycleInv, [KindsNext]_kindVars
  PROVE  ProviderMove /\ LifecycleInv'
BY KindsMoves, LifecycleInvStep DEF LifecycleInv, FinalizerInv

\* So it is in order at every moment.
LEMMA KindsLifecycleAlways == ~CacheLag => (KindsSpec => []LifecycleInv)
<1> SUFFICES ASSUME ~CacheLag PROVE KindsSpec => []LifecycleInv
  OBVIOUS
<1>1. KindsInit => LifecycleInv
  BY LifecycleInvInit DEF KindsInit
<1>2. LifecycleInv /\ [KindsNext]_kindVars => LifecycleInv'
  BY KindsLifecycleStep
<1> QED
  BY <1>1, <1>2, PTL DEF KindsSpec

\* With caches up to date an offering whose Kind is edited is still taken through the
\* lifecycle that the agent promises, across failures and crashes: the StorageCluster it had
\* as a provider is provisioned once, under the finalizer, and neither the finalizer nor the
\* namespace is given up before it is gone.
THEOREM LifecycleWhateverKind == ~CacheLag => (KindsSpec => ImplementsLifecycle)
<1> SUFFICES ASSUME ~CacheLag PROVE KindsSpec => ImplementsLifecycle
  OBVIOUS
<1>1. KindsInit => Lifecycle!Init
  BY LifecycleRefinedInit DEF KindsInit
<1>2. LifecycleInv /\ LifecycleInv' /\ [KindsNext]_kindVars => [Lifecycle!Next]_Lifecycle!vars
  BY KindsLifecycleStep, LifecycleRefined
<1> QED
  BY <1>1, <1>2, KindsLifecycleAlways, PTL DEF KindsSpec, ImplementsLifecycle, Lifecycle!Spec

\* With caches up to date the promises to a provider survive the edits of its Kind, failures
\* and crashes: its StorageCluster is guarded by the finalizer, not deleted under a consumer,
\* and gone before the namespace is.
THEOREM ProviderWhateverKind ==
  ~CacheLag => (KindsSpec => [](StorageClusterGuarded /\ ConsumersProtected /\ NamespaceLast))
BY KindsLifecycleAlways, LifecycleInvMeans, PTL
=============================================================================
