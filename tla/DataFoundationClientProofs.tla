--------------------- MODULE DataFoundationClientProofs ---------------------
(***************************************************************************)
(* Proofs about DataFoundationClient, for every set of configurations and  *)
(* every bound, with crashes, failures and cached reads as old as they may *)
(* be.  The parts common with DataFoundation come from OfferingProofs.     *)
(***************************************************************************)
EXTENDS DataFoundationClient, OfferingProofs

USE DEF apiVars, cacheVars, workerVars, clientVars

\* The fields of a StorageClient have their types, and there is one that stands for "none".
LEMMA StorageClientFields ==
  /\ NoStorageClient \in StorageClientObj
  /\ \A s \in StorageClientObj :
       s.st \in {"absent", "present"} /\ s.endpoint \in Nat /\ s.ticket \in Nat /\ s.rv \in Nat
BY DEF StorageClientObj, NoStorageClient

\* What an event of the StorageClient does to the queue is a truth value.
LEMMA QueuedByStorageClientType == QueuedByStorageClient \in BOOLEAN
BY Zenon DEF QueuedByStorageClient

\* An accepted write keeps the StorageClient's type, in the API server and in the cache.
LEMMA WriteStorageClientType ==
  ASSUME TypeOK, NEW st \in {"absent", "present"}, NEW endpoint \in Nat, NEW ticket \in Nat,
         WriteStorageClient(st, endpoint, ticket)
  PROVE  client' \in StorageClientObj /\ cClient' \in StorageClientObj
<1>1. client.rv + 1 \in Nat
  BY StorageClientFields DEF TypeOK
<1>2. client' \in StorageClientObj
  BY <1>1 DEF WriteStorageClient, StorageClientObj
<1> QED
  BY <1>2 DEF WriteStorageClient, TypeOK

\* The initial state has the types.
LEMMA TypeInit == Init => TypeOK
<1> SUFFICES ASSUME Init PROVE TypeOK
  OBVIOUS
<1> USE NullObjects, StorageClientFields DEF Init, OfferingInit, TypeOK
<1>1. pc \in Phases /\ ns \in {"active", "terminating"} /\ queued \in BOOLEAN
  BY DEF Phases
<1>2. faults \in 0..MaxFaults
  BY OfferingAssumption
<1> QED
  BY <1>1, <1>2

\* A restart keeps the types.
LEMMA TypeRestart ==
  ASSUME TypeOK, Restart
  PROVE  /\ snap' \in OfferingObj /\ cOff' \in OfferingObj /\ cSc' = NoStorageCluster
         /\ avail' \subseteq InitCrds \cup DFCCrds \cup {"storageclusters"}
         /\ queued' \in BOOLEAN /\ pc' \in Phases
BY NullObjects DEF TypeOK, Restart, Phases

\* The kinds of step, for the case distinctions below.
LEMMA StepCases ==
  [Next]_vars => \/ OfferingPhase /\ UNCHANGED clientVars
                 \/ PluginPhase /\ UNCHANGED clientVars
                 \/ ReconcileStorageClient
                 \/ /\ CheckCrds
                    /\ UNCHANGED client
                    /\ cClient' = IF avail' = avail THEN cClient ELSE client
                 \/ Fault
                 \/ Informers \/ (ResyncOffering /\ UNCHANGED clientVars)
                 \/ OlmStep \/ OtherOfferingInstalled
                 \/ UserStep \/ (ReleaseHold /\ UNCHANGED clientVars)
                 \/ (\E config \in Configs : TamperWithStorageClient(config)) \/ StorageClientGone
                 \/ UNCHANGED vars
BY DEF Next, AgentStep

\* Every step of the reconciler and of the cluster keeps the types.
LEMMA TypeNext == TypeOK /\ [Next]_vars => TypeOK'
<1> SUFFICES ASSUME TypeOK, [Next]_vars PROVE TypeOK'
  OBVIOUS
<1> USE NullObjects, OfferingAssumption, QueuedType, QueuedByStorageClientType
<1> USE DEF TypeOK, Phases, GoTo, Done, Proceed, Requeue
<1>a. off.st \in {"absent", "active", "deleting"} /\ off.fin \in BOOLEAN /\ off.hold \in BOOLEAN
      /\ off.config \in Configs /\ off.rv \in Nat
  BY OfferingFields
<1>b. client.st \in {"absent", "present"} /\ client.endpoint \in Nat /\ client.ticket \in Nat
  BY StorageClientFields
<1>c. OfferingTypes
  BY DEF OfferingTypes
<1>1. CASE OfferingPhase /\ UNCHANGED clientVars
  <2>1. CASE Reconcile
    BY <1>1, <2>1 DEF Reconcile
  <2>2. CASE AddFinalizer
    BY <1>a, <1>c, <1>1, <2>2, WriteOfferingType DEF AddFinalizer
  <2>3. CASE ReconcileOperatorGroup \/ ReconcileCatalogSource \/ ReconcileSubscription
    BY <1>1, <2>3 DEF ReconcileOperatorGroup, ReconcileCatalogSource, ReconcileSubscription,
                      CreateOrUpdate, DFCChildren
  <2>4. CASE IsReadyToBeRemoved
    BY <1>1, <2>4 DEF IsReadyToBeRemoved
  <2>5. CASE RemoveFinalizer
    <3>1. CASE snap.fin /\ UpdateAccepted(snap, off)
      <4>1. off' \in OfferingObj /\ cOff' \in OfferingObj
        BY <1>a, <1>c, <2>5, <3>1, WriteOfferingType DEF RemoveFinalizer
      <4>2. snap' \in OfferingObj
        <5>1. snap' = [st |-> "deleting", fin |-> FALSE, hold |-> off.hold,
                       config |-> off.config, rv |-> off.rv + 1]
          BY <2>5, <3>1 DEF RemoveFinalizer
        <5>2. off.rv + 1 \in Nat
          BY <1>a
        <5> QED
          BY <1>a, <5>1, <5>2 DEF OfferingObj
      <4> QED
        BY <1>1, <2>5, <3>1, <4>1, <4>2 DEF RemoveFinalizer
    <3>2. CASE ~(snap.fin /\ UpdateAccepted(snap, off))
      BY <1>1, <2>5, <3>2 DEF RemoveFinalizer
    <3> QED
      BY <3>1, <3>2
  <2>6. CASE DeleteNamespace
    BY <1>1, <2>6 DEF DeleteNamespace
  <2>7. CASE UnmarshalConfig
    BY <1>1, <2>7 DEF UnmarshalConfig
  <2> QED
    BY <1>1, <2>1, <2>2, <2>3, <2>4, <2>5, <2>6, <2>7 DEF OfferingPhase
<1>2. CASE PluginPhase /\ UNCHANGED clientVars
  BY <1>2 DEF PluginPhase, ReconcileCSV, ReconcileDefaultBlockStorageClassClaim,
              ReconcileDefaultFSStorageClassClaim, ReconcileCSIKMSConnectionDetailsConfigMap,
              CreateOrUpdate, GetAndUpdate, DFCChildren
<1>3. CASE ReconcileStorageClient
  <2>1. snap.config.endpoint \in Nat /\ snap.config.ticket \in Nat
    BY OfferingFields, DataFoundationClientAssumption
  <2>2. client' \in StorageClientObj /\ cClient' \in StorageClientObj
    BY <1>3, <2>1, WriteStorageClientType
       DEF ReconcileStorageClient, CreateStorageClient, UpdateStorageClient, KeepStorageClient
  <2> QED
    BY <1>3, <2>2 DEF ReconcileStorageClient, CreateStorageClient, UpdateStorageClient,
                      KeepStorageClient
<1>4. CASE /\ CheckCrds
           /\ UNCHANGED client
           /\ cClient' = IF avail' = avail THEN cClient ELSE client
  BY <1>4, TypeRestart DEF CheckCrds, MissingWatch, Restart
<1>5. CASE Fault
  <2>1. faults' \in 0..MaxFaults
    BY <1>5 DEF Fault, ApiFailure, Crash
  <2>2. CASE ApiFailure /\ UNCHANGED clientVars
    BY <2>1, <2>2 DEF ApiFailure
  <2>3. CASE Crash /\ cClient' = client /\ UNCHANGED client
    BY <2>1, <2>3, TypeRestart DEF Crash, Restart
  <2> QED
    BY <1>5, <2>2, <2>3 DEF Fault
<1>6. CASE Informers \/ (ResyncOffering /\ UNCHANGED clientVars)
  BY <1>6 DEF Informers, OfferingInformer, StorageClientInformer, ResyncOffering
<1>7. CASE OlmStep \/ OtherOfferingInstalled
  BY <1>7 DEF OlmStep, InstallCrd, InstallObject, OtherOfferingInstalled, DFCCrds, DFCChildren
<1>8. CASE UserStep
  <2>1. CASE \E config \in Configs, hold \in Holds : UserCreate(config, hold)
    BY <1>a, <1>c, <1>8, <2>1, WriteOfferingType DEF UserStep, UserCreate
  <2>2. CASE \E config \in Configs :
               UserEdit(config, IF config.kind = off.config.kind THEN {} ELSE KindDependent)
    BY <1>a, <1>c, <1>8, <2>2, WriteOfferingType DEF UserStep, UserEdit
  <2>3. CASE UserDelete
    BY <1>a, <1>c, <1>8, <2>3, WriteOfferingType DEF UserStep, UserDelete
  <2>4. CASE \E child \in Drifting : Drift(child, child \in DFCWatched)
    BY <1>8, <2>4 DEF UserStep, Drift
  <2> QED
    BY <1>8, <2>1, <2>2, <2>3, <2>4 DEF UserStep
<1>9. CASE ReleaseHold /\ UNCHANGED clientVars
  BY <1>a, <1>c, <1>9, WriteOfferingType DEF ReleaseHold
<1>10. CASE (\E config \in Configs : TamperWithStorageClient(config)) \/ StorageClientGone
  <2>1. \A config \in Configs : config.endpoint \in Nat /\ config.ticket \in Nat
    BY DataFoundationClientAssumption
  <2>2. client' \in StorageClientObj /\ cClient' \in StorageClientObj
    BY <1>b, <1>10, <2>1, WriteStorageClientType DEF TamperWithStorageClient, StorageClientGone
  <2> QED
    BY <1>10, <2>2 DEF TamperWithStorageClient, StorageClientGone
<1>11. CASE UNCHANGED vars
  BY <1>11 DEF vars, offeringVars
<1> HIDE NullObjects, OfferingAssumption, QueuedType, QueuedByStorageClientType
<1> HIDE DEF TypeOK, Phases, GoTo, Done, Proceed, Requeue
<1> QED
  BY <1>1, <1>2, <1>3, <1>4, <1>5, <1>6, <1>7, <1>8, <1>9, <1>10, <1>11, StepCases

\* Every variable keeps its type, and no step of a client offering touches a StorageCluster.
THEOREM TypeCorrect == Spec => []TypeOK
BY TypeInit, TypeNext, PTL DEF Spec

-----------------------------------------------------------------------------
(* The offering.                                                           *)

\* Every step moves the offering and its copies in one of the ways both kinds share.
LEMMA OfferingSteps ==
  ASSUME TypeOK, PhaseInv, [Next]_vars
  PROVE  OfferingMove /\ RemovalMove
<1> USE DEF GoTo, Done, Proceed, Requeue, RemovalMove
<1>a. OfferingTypes /\ snap.st \in {"absent", "active", "deleting"}
  BY OfferingFields DEF TypeOK, OfferingTypes
<1>1. CASE OfferingPhase /\ UNCHANGED clientVars
  BY <1>a, <1>1, PhaseMoves, CommonRemoval
<1>2. CASE PluginPhase /\ UNCHANGED clientVars
  BY <1>2 DEF PluginPhase, ReconcileCSV, ReconcileDefaultBlockStorageClassClaim,
              ReconcileDefaultFSStorageClassClaim, ReconcileCSIKMSConnectionDetailsConfigMap,
              CreateOrUpdate, GetAndUpdate, OfferingMove, WorkerMoves, OfferingKept, PhaseInv,
              ActivePhases, DeletionPhases
<1>3. CASE ReconcileStorageClient
  BY <1>3 DEF ReconcileStorageClient, OfferingMove, WorkerMoves, OfferingKept, PhaseInv,
              ActivePhases, DeletionPhases
<1>4. CASE /\ CheckCrds
           /\ UNCHANGED client
           /\ cClient' = IF avail' = avail THEN cClient ELSE client
  BY <1>a, <1>4 DEF CheckCrds, MissingWatch, Restart, OfferingMove, WorkerMoves, OfferingKept,
                    PhaseInv, ActivePhases, DeletionPhases
<1>5. CASE Fault
  BY <1>a, <1>5, EnvironmentMoves, CommonRemoval DEF Fault
<1>6. CASE Informers \/ (ResyncOffering /\ UNCHANGED clientVars)
  BY <1>a, <1>6, EnvironmentMoves, CommonRemoval, WorkerWaits
     DEF Informers, StorageClientInformer, OfferingKept
<1>7. CASE OlmStep \/ OtherOfferingInstalled
  BY <1>a, <1>7, EnvironmentMoves, CommonRemoval, WorkerWaits
     DEF OlmStep, OtherOfferingInstalled, OfferingKept
<1>8. CASE UserStep \/ (ReleaseHold /\ UNCHANGED clientVars)
  BY <1>a, <1>8, EnvironmentMoves, CommonRemoval DEF UserStep
<1>9. CASE (\E config \in Configs : TamperWithStorageClient(config)) \/ StorageClientGone
  BY <1>9, WorkerWaits DEF TamperWithStorageClient, StorageClientGone, OfferingKept
<1>10. CASE UNCHANGED vars
  BY <1>10, WorkerWaits DEF vars, offeringVars, OfferingKept
<1> QED
  BY <1>1, <1>2, <1>3, <1>4, <1>5, <1>6, <1>7, <1>8, <1>9, <1>10, StepCases

\* Every step keeps the invariants of the finalizer and of its release.
LEMMA OfferingStep ==
  TypeOK /\ FinalizerInv /\ ReleasedInv /\ [Next]_vars => FinalizerInv' /\ ReleasedInv'
BY OfferingSteps, FinalizerKept, ReleasedKept DEF TypeOK, OfferingTypes, FinalizerInv

\* So they hold at every moment.
LEMMA OfferingAlways == Spec => [](FinalizerInv /\ ReleasedInv)
<1>1. Init => FinalizerInv /\ ReleasedInv
  BY OfferingInvInit DEF Init
<1> QED
  BY <1>1, OfferingStep, TypeCorrect, PTL DEF Spec

\* A write of the offering is the creation, the guard, the request to go, the release or
\* the end of the offering in the lifecycle, or an edit that the lifecycle does not see.
LEMMA OfferingRefines ==
  ASSUME TypeOK, TypeOK', FinalizerInv, [Next]_vars, ns' = ns
  PROVE  [Lifecycle!Next]_Lifecycle!vars
<1> USE DEF Lifecycle!Next, Lifecycle!vars
<1>a. off.rv \in Nat /\ off.st \in {"absent", "active", "deleting"} /\ off.fin \in BOOLEAN
  BY OfferingFields DEF TypeOK
<1>b. off'.st \in {"absent", "active", "deleting"} /\ off'.fin \in BOOLEAN
  BY OfferingFields DEF TypeOK
<1>1. CASE WorkerMoves \/ CopyTaken
  BY <1>1 DEF WorkerMoves, CopyTaken, OfferingKept
<1>2. CASE FinalizerAdded
  <2>1. off.st = "active" /\ off'.st = "active" /\ off'.fin = TRUE
    BY <1>2, WrittenOffering
       DEF FinalizerAdded, UpdateAccepted, FinalizerInv, PhaseInv, ActivePhases, VersionInv
  <2> QED
    BY <2>1 DEF Lifecycle!Guard
<1>3. CASE FinalizerRemoved
  <2>1. off.st = "deleting"
    BY <1>a, <1>3 DEF FinalizerRemoved, UpdateAccepted, FinalizerInv, PhaseInv, DeletionPhases,
                      DeletionFinal
  <2>2. off'.st \in {"deleting", "absent"} /\ off'.rv # 0
    <3>1. off'.st \in {"deleting", "absent"} /\ off'.rv = off.rv + 1
      BY <1>3, WrittenOffering DEF FinalizerRemoved
    <3> QED
      BY <1>a, <3>1
  <2>3. off'.fin = FALSE
    BY <1>3, WrittenOffering, Zenon DEF FinalizerRemoved
  <2>4. CASE off.fin
    BY <2>1, <2>2, <2>3, <2>4 DEF Lifecycle!Release, Lifecycle!InUse
  <2>5. CASE ~off.fin
    BY <2>1, <2>2, <2>3, <2>5 DEF Lifecycle!Vanish
  <2> QED
    BY <2>4, <2>5
<1>4. CASE OfferingCreated
  <2>1. off.st = "absent" /\ off.rv = 0 /\ off'.st = "active" /\ off'.fin = FALSE
    BY <1>4, WrittenOffering DEF OfferingCreated
  <2> QED
    BY <2>1 DEF Lifecycle!Create
<1>5. CASE OfferingTouched
  <2>1. /\ off.st # "absent" /\ off'.fin = off.fin /\ off'.rv = off.rv + 1
        /\ off'.st = "active" => off.st = "active"
        /\ off'.st = "absent" => ~off.fin
    BY <1>5, WrittenOffering DEF OfferingTouched
  <2>2. off'.rv # 0
    BY <1>a, <2>1
  <2>3. CASE off'.st = off.st
    BY <2>1, <2>3
  <2>4. CASE off.st = "active" /\ off'.st # "active"
    BY <1>b, <2>1, <2>2, <2>4 DEF Lifecycle!Ask
  <2>5. CASE off.st = "deleting" /\ off'.st = "absent"
    BY <2>1, <2>2, <2>5 DEF Lifecycle!Vanish
  <2> QED
    BY <1>a, <1>b, <2>1, <2>3, <2>4, <2>5
<1> QED
  BY <1>1, <1>2, <1>3, <1>4, <1>5, OfferingSteps DEF FinalizerInv, OfferingMove

\* The reconciler of a client offering keeps the promise of the lifecycle, also when it works
\* from old copies: the finalizer is put on an active offering and dropped from a deleted one
\* only, and the namespace is deleted only after that.
THEOREM LifecycleImplemented == Spec => ImplementsLifecycle
<1>1. Init => Lifecycle!Init
  BY DEF Init, OfferingInit, NoOffering, Lifecycle!Init
<1>2. ASSUME TypeOK, TypeOK', FinalizerInv, ReleasedInv, [Next]_vars, ns' # ns
      PROVE  [Lifecycle!Next]_Lifecycle!vars
  <2>1. DeleteNamespace /\ ns' = "terminating"
    BY <1>2, OfferingSteps DEF RemovalMove, FinalizerInv
  <2>2. off' = off /\ snap.st = "deleting" /\ ~snap.fin
    BY <1>2, <2>1 DEF DeleteNamespace, FinalizerInv, PhaseInv, DeletionPhases, ReleasedInv
  <2>3. off.rv > 0 /\ off.st # "active" /\ ~off.fin
    BY <1>2, <2>2 DEF FinalizerInv, DeletionFinal, ReleasedInv
  <2>4. off.st \in {"absent", "active", "deleting"} /\ off.rv \in Nat
    BY <1>2, OfferingFields DEF TypeOK
  <2> QED
    BY <2>1, <2>2, <2>3, <2>4 DEF Lifecycle!Next, Lifecycle!vars, Lifecycle!Reclaim,
                                  Lifecycle!InUse
<1>3. TypeOK /\ TypeOK' /\ FinalizerInv /\ ReleasedInv /\ [Next]_vars
        => [Lifecycle!Next]_Lifecycle!vars
  BY <1>2, OfferingRefines
<1> QED
  BY <1>1, <1>3, TypeCorrect, OfferingAlways, PTL DEF Spec, ImplementsLifecycle, Lifecycle!Spec

-----------------------------------------------------------------------------
(* The StorageClient.                                                      *)

\* What a step may do to the StorageClient and its cached copy: nothing, an event, the write
\* of reconcileStorageClient, or a write of an existing one by somebody else.
StorageClientKept ==
  /\ client' = client
  /\ \/ cClient' = cClient
     \/ cClient' = client /\ (queued' \/ off.st = "absent" \/ "storageclients" \notin avail)

StorageClientWritten ==
  /\ pc = "storageClient" \/ client.st = "present"
  /\ \E st, endpoint, ticket : WriteStorageClient(st, endpoint, ticket)
  /\ queued' = QueuedByStorageClient

\* Who writes the StorageClient, and how.
LEMMA StorageClientSteps ==
  ASSUME [Next]_vars
  PROVE  StorageClientKept \/ StorageClientWritten
<1>1. CASE OfferingPhase /\ UNCHANGED clientVars
  BY <1>1 DEF StorageClientKept
<1>2. CASE PluginPhase /\ UNCHANGED clientVars
  BY <1>2 DEF StorageClientKept
<1>3. CASE ReconcileStorageClient
  BY <1>3 DEF ReconcileStorageClient, CreateStorageClient, UpdateStorageClient,
              KeepStorageClient, StorageClientKept, StorageClientWritten
<1>4. CASE /\ CheckCrds
           /\ UNCHANGED client
           /\ cClient' = IF avail' = avail THEN cClient ELSE client
  BY <1>4 DEF CheckCrds, MissingWatch, Restart, StorageClientKept
<1>5. CASE Fault
  BY <1>5 DEF Fault, ApiFailure, Crash, Restart, StorageClientKept
<1>6. CASE Informers \/ (ResyncOffering /\ UNCHANGED clientVars)
  BY <1>6 DEF Informers, StorageClientInformer, StorageClientKept
<1>7. CASE OlmStep \/ OtherOfferingInstalled
  BY <1>7 DEF OlmStep, OtherOfferingInstalled, StorageClientKept
<1>8. CASE UserStep \/ (ReleaseHold /\ UNCHANGED clientVars)
  BY <1>8 DEF UserStep, StorageClientKept
<1>9. CASE (\E config \in Configs : TamperWithStorageClient(config)) \/ StorageClientGone
  BY <1>9 DEF TamperWithStorageClient, StorageClientGone, StorageClientWritten
<1>10. CASE UNCHANGED vars
  BY <1>10 DEF vars, StorageClientKept
<1> QED
  BY <1>1, <1>2, <1>3, <1>4, <1>5, <1>6, <1>7, <1>8, <1>9, <1>10, StepCases

\* A StorageClient comes into being only under an offering that exists and carries the
\* finalizer, in a namespace that is not being deleted, however old the reconcile's copy is.
THEOREM NothingResurrected == Spec => NoResurrection
<1>1. ASSUME TypeOK, FinalizerInv, ReleasedInv, [Next]_vars,
             client.st = "absent", client'.st = "present"
      PROVE  off.st # "absent" /\ off.fin /\ ns = "active"
  <2>1. pc = "storageClient"
    BY <1>1, StorageClientSteps DEF StorageClientKept, StorageClientWritten
  <2>2. off.st # "absent" /\ off.fin
    BY <1>1, <2>1 DEF FinalizerInv, PhaseInv, ActivePhases, FinalizerHeld
  <2> QED
    BY <1>1, <2>2 DEF ReleasedInv, TypeOK
<1>2. TypeOK /\ FinalizerInv /\ ReleasedInv /\ [Next]_vars
        => [client.st = "absent" /\ client'.st = "present" =>
              off.st # "absent" /\ off.fin /\ ns = "active"]_vars
  BY <1>1
<1> QED
  BY <1>2, TypeCorrect, OfferingAlways, PTL DEF Spec, NoResurrection

-----------------------------------------------------------------------------
(* The reconciler does not stop short.  As for a provider offering, as     *)
(* long as no event is queued or under way the worker works from the live  *)
(* offering, and every phase it has left behind has done its work.         *)

\* The phases behind the check of the CRDs in dfcReconcile.
WatchedPhases == {"clientCsv", "storageClient", "blockClaim", "fsClaim", "kmsConfig"}

\* The process that made the StorageClient watches it, and so does every later one.
WatchInv ==
  /\ client.st = "present" => client.rv > 0
  /\ client.rv > 0 \/ pc \in WatchedPhases => DFCCrds \subseteq avail
  /\ avail \subseteq crds

\* The cache is never ahead of the API server, and a copy of the current version is the
\* current StorageClient.
ClientBehind ==
  /\ cClient.rv <= client.rv
  /\ cClient.rv = client.rv => cClient = client

\* No request is queued and no event is under way.
Settled == ~queued /\ cOff = off /\ cClient = client

\* The phases of the active branch behind each of those that must not be forgotten.
AfterStorageClient == {"blockClaim", "fsClaim", "kmsConfig", "idle"}
AfterSubscription ==
  {"unmarshal", "pluginReconcile", "clientCsv", "storageClient"} \cup AfterStorageClient
AfterCatalogSource == {"subscription"} \cup AfterSubscription
AfterOperatorGroup == {"catalogSource"} \cup AfterCatalogSource

\* The active branch works from the live offering, and what it has passed is as wanted.
ConvergingInv ==
  Settled /\ off.st = "active" =>
    /\ pc # "idle" => snap = off
    /\ pc # "addFinalizer" => off.fin
    /\ pc \in AfterOperatorGroup => "operatorGroup" \in good
    /\ pc \in AfterCatalogSource => "catalogSource" \in good
    /\ pc \in AfterSubscription => "subscription" \in good
    /\ pc \in AfterStorageClient => client.st = "present" /\ SameAddress(client, off.config)
    /\ pc = "idle" => "kmsConfig" \in good

\* With the finalizer of a deleted offering still in place the worker is on its way to
\* remove it: there is no StorageCluster that dfIsReadyToBeRemoved would wait for.
RemovingInv ==
  Settled /\ off.st = "deleting" /\ off.fin =>
    pc \in {"isReadyToBeRemoved", "removeFinalizer"} /\ snap = off

\* How AvailableCRDs and the phase go on.
LEMMA WorkerSteps ==
  ASSUME [Next]_vars
  PROVE  /\ avail' = avail \/ (avail' = crds /\ pc' = "idle")
         /\ crds \subseteq crds'
         /\ pc' \in WatchedPhases => pc \in WatchedPhases \/ DFCCrds \subseteq avail
<1> USE DEF GoTo, Done, Proceed, Requeue, WatchedPhases
<1>1. CASE OfferingPhase /\ UNCHANGED clientVars
  BY <1>1 DEF OfferingPhase, Reconcile, AddFinalizer, ReconcileOperatorGroup,
              ReconcileCatalogSource, ReconcileSubscription, CreateOrUpdate, IsReadyToBeRemoved,
              RemoveFinalizer, DeleteNamespace, UnmarshalConfig
<1>2. CASE PluginPhase /\ UNCHANGED clientVars
  BY <1>2 DEF PluginPhase, ReconcileCSV, ReconcileDefaultBlockStorageClassClaim,
              ReconcileDefaultFSStorageClassClaim, ReconcileCSIKMSConnectionDetailsConfigMap,
              CreateOrUpdate, GetAndUpdate
<1>3. CASE ReconcileStorageClient
  BY <1>3 DEF ReconcileStorageClient
<1>4. CASE /\ CheckCrds
           /\ UNCHANGED client
           /\ cClient' = IF avail' = avail THEN cClient ELSE client
  BY <1>4 DEF CheckCrds, MissingWatch, Restart
<1>5. CASE Fault
  BY <1>5 DEF Fault, ApiFailure, Crash, Restart
<1>6. CASE Informers \/ (ResyncOffering /\ UNCHANGED clientVars)
  BY <1>6 DEF Informers, OfferingInformer, StorageClientInformer, ResyncOffering
<1>7. CASE OlmStep \/ OtherOfferingInstalled
  BY <1>7 DEF OlmStep, InstallCrd, InstallObject, OtherOfferingInstalled
<1>8. CASE UserStep \/ (ReleaseHold /\ UNCHANGED clientVars)
  BY <1>8 DEF UserStep, UserCreate, UserEdit, UserDelete, Drift, ReleaseHold
<1>9. CASE (\E config \in Configs : TamperWithStorageClient(config)) \/ StorageClientGone
  BY <1>9 DEF TamperWithStorageClient, StorageClientGone
<1>10. CASE UNCHANGED vars
  BY <1>10 DEF vars, offeringVars
<1> QED
  BY <1>1, <1>2, <1>3, <1>4, <1>5, <1>6, <1>7, <1>8, <1>9, <1>10, StepCases

\* Only a reconcile takes the request from the queue.
LEMMA QueueSteps ==
  ASSUME [Next]_vars
  PROVE  queued /\ ~queued' => Reconcile \/ off.st = "absent"
<1> USE DEF GoTo, Done, Proceed, Requeue
<1>1. CASE OfferingPhase /\ UNCHANGED clientVars
  BY <1>1, Zenon DEF OfferingPhase, AddFinalizer, ReconcileOperatorGroup,
     ReconcileCatalogSource, ReconcileSubscription, CreateOrUpdate, IsReadyToBeRemoved,
     RemoveFinalizer, DeleteNamespace, UnmarshalConfig, QueuedByOffering
<1>2. CASE PluginPhase /\ UNCHANGED clientVars
  BY <1>2, Zenon DEF PluginPhase, ReconcileCSV, ReconcileDefaultBlockStorageClassClaim,
     ReconcileDefaultFSStorageClassClaim, ReconcileCSIKMSConnectionDetailsConfigMap,
     CreateOrUpdate, GetAndUpdate
<1>3. CASE ReconcileStorageClient
  BY <1>3, Zenon DEF ReconcileStorageClient, CreateStorageClient, UpdateStorageClient,
     KeepStorageClient, QueuedByStorageClient
<1>4. CASE /\ CheckCrds
           /\ UNCHANGED client
           /\ cClient' = IF avail' = avail THEN cClient ELSE client
  BY <1>4, Zenon DEF CheckCrds, MissingWatch, Restart
<1>5. CASE Fault
  BY <1>5, Zenon DEF Fault, ApiFailure, Crash, Restart
<1>6. CASE Informers \/ (ResyncOffering /\ UNCHANGED clientVars)
  BY <1>6, Zenon DEF Informers, OfferingInformer, StorageClientInformer, ResyncOffering
<1>7. CASE OlmStep \/ OtherOfferingInstalled
  BY <1>7, Zenon DEF OlmStep, InstallCrd, InstallObject, OtherOfferingInstalled
<1>8. CASE UserStep \/ (ReleaseHold /\ UNCHANGED clientVars)
  BY <1>8, Zenon DEF UserStep, UserCreate, UserEdit, UserDelete, Drift, ReleaseHold,
     QueuedByOffering
<1>9. CASE (\E config \in Configs : TamperWithStorageClient(config)) \/ StorageClientGone
  BY <1>9, Zenon DEF TamperWithStorageClient, StorageClientGone, QueuedByStorageClient
<1>10. CASE UNCHANGED vars
  BY <1>10, Zenon DEF vars, offeringVars
<1> QED
  BY <1>1, <1>2, <1>3, <1>4, <1>5, <1>6, <1>7, <1>8, <1>9, <1>10, StepCases

\* What an accepted write leaves behind.
LEMMA WrittenStorageClient ==
  ASSUME NEW st, NEW endpoint, NEW ticket, WriteStorageClient(st, endpoint, ticket)
  PROVE  client'.rv = client.rv + 1 /\ (cClient' = cClient \/ cClient' = client')
BY DEF WriteStorageClient

\* Every step keeps the watches, and the cached StorageClient an earlier version.
LEMMA WatchStep ==
  ASSUME TypeOK, WatchInv, ClientBehind, [Next]_vars
  PROVE  WatchInv' /\ ClientBehind'
<1>a. client.rv \in Nat /\ cClient.rv \in Nat
  BY StorageClientFields DEF TypeOK
<1>1. avail \subseteq avail' /\ avail' \subseteq crds'
  BY WorkerSteps DEF WatchInv
<1>2. CASE StorageClientKept
  <2>1. WatchInv'
    BY <1>1, <1>2, WorkerSteps DEF WatchInv, WatchedPhases, StorageClientKept
  <2> QED
    BY <1>a, <1>2, <2>1 DEF StorageClientKept, ClientBehind
<1>3. CASE StorageClientWritten
  <2>1. client'.rv = client.rv + 1 /\ (cClient' = cClient \/ cClient' = client')
    BY <1>3, WrittenStorageClient DEF StorageClientWritten
  <2>2. DFCCrds \subseteq avail
    BY <1>3 DEF StorageClientWritten, WatchInv, WatchedPhases
  <2> QED
    BY <1>a, <1>1, <2>1, <2>2 DEF WatchInv, ClientBehind
<1> QED
  BY <1>2, <1>3, StorageClientSteps

\* A write of the offering, or its arrival in the cache, leaves an event.
LEMMA OfferingEvent ==
  ASSUME TypeOK, FinalizerInv, [Next]_vars, ~queued', cOff' = off', off'.st # "absent"
  PROVE  off' = off /\ cOff' = cOff
BY OfferingSteps, OfferingWriteSeen DEF TypeOK, OfferingTypes, FinalizerInv

\* The same of the StorageClient, because it is watched.
LEMMA StorageClientEvent ==
  ASSUME TypeOK, WatchInv, ClientBehind, [Next]_vars, ~queued', cClient' = client',
         off.st # "absent"
  PROVE  client' = client /\ cClient' = cClient
<1>a. client.rv \in Nat /\ cClient.rv \in Nat /\ cClient.rv <= client.rv
  BY StorageClientFields DEF TypeOK, ClientBehind
<1>1. CASE StorageClientKept
  <2>1. CASE cClient = client
    BY <1>1, <2>1 DEF StorageClientKept
  <2>2. CASE cClient # client
    <3>1. client.rv > 0
      BY <1>a, <2>2 DEF ClientBehind
    <3> QED
      BY <1>1, <3>1 DEF StorageClientKept, WatchInv, DFCCrds
  <2> QED
    BY <2>1, <2>2
<1>2. CASE StorageClientWritten
  <2>1. PICK st, endpoint, ticket : WriteStorageClient(st, endpoint, ticket)
    BY <1>2 DEF StorageClientWritten
  <2>2. "storageclients" \in avail
    BY <1>2 DEF StorageClientWritten, WatchInv, WatchedPhases, DFCCrds
  <2>3. CacheLag
    BY <1>2, <2>2, Zenon DEF StorageClientWritten, QueuedByStorageClient
  <2>4. cClient' = cClient /\ client'.rv = client.rv + 1
    BY <2>1, <2>3 DEF WriteStorageClient
  <2> QED
    BY <1>a, <2>4
<1> QED
  BY <1>1, <1>2, StorageClientSteps

\* A reconcile that nothing disturbs stays on course.
LEMMA SettledStep ==
  ASSUME TypeOK, FinalizerInv, ReleasedInv, WatchInv, ClientBehind, ConvergingInv, RemovingInv,
         [Next]_vars
  PROVE  ConvergingInv' /\ RemovingInv'
<1> SUFFICES ASSUME Settled', off'.st # "absent"
             PROVE  ConvergingInv' /\ RemovingInv'
  BY DEF ConvergingInv, RemovingInv
<1>a. off' = off /\ cOff' = cOff
  BY OfferingEvent DEF Settled
<1>b. client' = client /\ cClient' = cClient
  BY <1>a, StorageClientEvent DEF Settled
<1>c. ~queued'
  BY DEF Settled
<1>d. ASSUME NEW st, NEW fin, NEW hold, NEW config, WriteOffering(st, fin, hold, config)
      PROVE  FALSE
  BY <1>a, <1>d, WrittenOffering, OfferingFields DEF TypeOK
<1>e. ASSUME NEW st, NEW endpoint, NEW ticket, WriteStorageClient(st, endpoint, ticket)
      PROVE  FALSE
  BY <1>b, <1>e, WrittenStorageClient, StorageClientFields DEF TypeOK
<1> USE DEF GoTo, Done, Proceed, Requeue
<1>0. CASE Reconcile
  <2>1. /\ snap' = off
        /\ \/ pc' = "addFinalizer" /\ off.st = "active"
           \/ pc' = "isReadyToBeRemoved" /\ off.st = "deleting"
    BY <1>0, <1>a DEF Reconcile, Settled
  <2> QED
    BY <1>a, <1>b, <2>1
       DEF ConvergingInv, RemovingInv, AfterOperatorGroup, AfterCatalogSource,
           AfterSubscription, AfterStorageClient
<1> SUFFICES ASSUME ~Reconcile PROVE ConvergingInv' /\ RemovingInv'
  BY <1>0
<1>f. Settled
  BY <1>a, <1>b, <1>c, QueueSteps DEF Settled
<1> USE DEF AfterOperatorGroup, AfterCatalogSource, AfterSubscription, AfterStorageClient
<1>1. CASE OfferingPhase /\ UNCHANGED clientVars
  <2>1. CASE AddFinalizer
    BY <1>a, <1>b, <1>c, <1>d, <1>f, <2>1 DEF AddFinalizer, ConvergingInv, RemovingInv
  <2>2. CASE ReconcileOperatorGroup \/ ReconcileCatalogSource \/ ReconcileSubscription
    BY <1>a, <1>b, <1>f, <2>2
       DEF ReconcileOperatorGroup, ReconcileCatalogSource, ReconcileSubscription, CreateOrUpdate,
           ConvergingInv, RemovingInv
  <2>3. CASE IsReadyToBeRemoved
    BY <1>a, <1>b, <1>c, <1>f, <2>3
       DEF IsReadyToBeRemoved, ConvergingInv, RemovingInv, FinalizerInv, PhaseInv,
           DeletionPhases, TypeOK, NoStorageCluster
  <2>4. CASE RemoveFinalizer
    BY <1>a, <1>b, <1>c, <1>d, <1>f, <2>4
       DEF RemoveFinalizer, ConvergingInv, RemovingInv, FinalizerInv, PhaseInv, DeletionPhases
  <2>5. CASE DeleteNamespace
    BY <1>a, <1>b, <1>f, <2>5
       DEF DeleteNamespace, ConvergingInv, RemovingInv, FinalizerInv, PhaseInv, DeletionPhases
  <2>6. CASE UnmarshalConfig
    BY <1>a, <1>b, <1>c, <1>f, <2>6 DEF UnmarshalConfig, ConvergingInv, RemovingInv
  <2> QED
    BY <1>1, <2>1, <2>2, <2>3, <2>4, <2>5, <2>6 DEF OfferingPhase
<1>2. CASE PluginPhase /\ UNCHANGED clientVars
  <2>1. CASE ReconcileCSV
    BY <1>a, <1>b, <1>c, <1>f, <2>1 DEF ReconcileCSV, GetAndUpdate, ConvergingInv, RemovingInv
  <2>2. CASE \/ ReconcileDefaultBlockStorageClassClaim \/ ReconcileDefaultFSStorageClassClaim
             \/ ReconcileCSIKMSConnectionDetailsConfigMap
    BY <1>a, <1>b, <1>f, <2>2
       DEF ReconcileDefaultBlockStorageClassClaim, ReconcileDefaultFSStorageClassClaim,
           ReconcileCSIKMSConnectionDetailsConfigMap, CreateOrUpdate, KindDependent,
           ConvergingInv, RemovingInv
  <2> QED
    BY <1>2, <2>1, <2>2 DEF PluginPhase
<1>3. CASE ReconcileStorageClient
  <2>1. /\ KeepStorageClient /\ pc = "storageClient" /\ pc' = "blockClaim"
        /\ snap' = snap /\ good' = good
    BY <1>c, <1>e, <1>3 DEF ReconcileStorageClient, CreateStorageClient, UpdateStorageClient
  <2>2. client.st = "present" /\ SameAddress(client, snap.config)
    BY <1>f, <2>1 DEF KeepStorageClient, Settled
  <2> QED
    BY <1>a, <1>b, <1>f, <2>1, <2>2 DEF ConvergingInv, RemovingInv, SameAddress
<1>4. CASE /\ CheckCrds
           /\ UNCHANGED client
           /\ cClient' = IF avail' = avail THEN cClient ELSE client
  BY <1>a, <1>b, <1>c, <1>f, <1>4
     DEF CheckCrds, MissingWatch, Restart, ConvergingInv, RemovingInv
<1>5. ~Fault
  BY <1>a, <1>c, Zenon DEF Fault, ApiFailure, Crash, Restart
<1>i. ASSUME UNCHANGED <<pc, snap, good>> PROVE ConvergingInv' /\ RemovingInv'
  BY <1>a, <1>b, <1>f, <1>i DEF ConvergingInv, RemovingInv, SameAddress
<1>6. CASE Informers \/ (ResyncOffering /\ UNCHANGED clientVars)
  BY <1>6, <1>i DEF Informers, OfferingInformer, StorageClientInformer, ResyncOffering
<1>7. CASE OlmStep \/ OtherOfferingInstalled
  BY <1>7, <1>i DEF OlmStep, InstallCrd, InstallObject, OtherOfferingInstalled
<1>8. CASE UserStep
  <2>1. CASE \E child \in Drifting : Drift(child, child \in DFCWatched)
    <3>1. PICK child \in Drifting : Drift(child, child \in DFCWatched)
      BY <2>1
    <3>2. child \notin DFCWatched
      BY <1>c, <3>1, Zenon DEF Drift
    <3> QED
      BY <1>a, <1>b, <1>f, <3>1, <3>2 DEF Drift, DFCWatched, ConvergingInv, RemovingInv
  <2> QED
    BY <1>d, <1>8, <2>1 DEF UserStep, UserCreate, UserEdit, UserDelete
<1>9. ~ReleaseHold
  BY <1>d DEF ReleaseHold
<1>10. ~((\E config \in Configs : TamperWithStorageClient(config)) \/ StorageClientGone)
  BY <1>e DEF TamperWithStorageClient, StorageClientGone
<1>11. CASE UNCHANGED vars
  BY <1>11, <1>i DEF vars, offeringVars
<1> QED
  BY <1>1, <1>2, <1>3, <1>4, <1>5, <1>6, <1>7, <1>8, <1>9, <1>10, <1>11, StepCases

\* The whole invariant of a reconciler that does not stop short.
ConvergenceInv ==
  /\ TypeOK /\ FinalizerInv /\ ReleasedInv /\ WatchInv /\ ClientBehind
  /\ ConvergingInv /\ RemovingInv

\* It holds at every moment, however far the informers are behind.
LEMMA ConvergenceAlways == Spec => []ConvergenceInv
<1>1. Init => ConvergenceInv
  <2>1. Init => WatchInv /\ ClientBehind /\ ConvergingInv /\ RemovingInv
    BY DEF Init, OfferingInit, NoOffering, NoStorageClient, WatchInv, WatchedPhases,
           ClientBehind, ConvergingInv, RemovingInv
  <2> QED
    BY <2>1, TypeInit, OfferingInvInit DEF ConvergenceInv, Init
<1>2. ConvergenceInv /\ [Next]_vars => ConvergenceInv'
  BY TypeNext, OfferingStep, WatchStep, SettledStep DEF ConvergenceInv
<1> QED
  BY <1>1, <1>2, PTL DEF Spec

\* When the reconciler has nothing left to do for an active offering, the StorageClient has
\* the address the user asks for by now and every watched resource is as wanted: after any
\* edits, tampering, failures, crashes and stale reads.
THEOREM Converges == Spec => []SettledMeansConverged
<1>1. ConvergenceInv => SettledMeansConverged
  BY DEF ConvergenceInv, ConvergingInv, SettledMeansConverged, Quiescent, Settled, DFCWatched,
         AfterOperatorGroup, AfterCatalogSource, AfterSubscription, AfterStorageClient
<1> QED
  BY <1>1, ConvergenceAlways, PTL

\* The reconciler never comes to rest while the finalizer holds a deleted offering back.
THEOREM DeletionRemembered == Spec => []DeletionNotForgotten
<1>1. ConvergenceInv => DeletionNotForgotten
  BY DEF ConvergenceInv, RemovingInv, DeletionNotForgotten, Quiescent, Settled
<1> QED
  BY <1>1, ConvergenceAlways, PTL
=============================================================================
