---------------------------- MODULE DataFoundation ----------------------------
(***************************************************************************)
(* The DataFoundation plugin (controllers/datafoundation.go) on top of the *)
(* common offering reconciler: the storage provider.  It grows one         *)
(* StorageCluster, prepares what the ocs-operator needs around it and, at  *)
(* the end, deletes the StorageCluster once no StorageConsumer is left.    *)
(***************************************************************************)
EXTENDS Offering, FiniteSets

CONSTANTS
  Consumers,       \* the clusters that may onboard as StorageConsumers
  LateOnboarding,  \* may a cluster still onboard while the offering is being deleted?
  MaxScRv,         \* bound on the resource version up to which others write the StorageCluster
  MaxCount,        \* bound on the device set count an administrator asks for
  Drifting         \* the managed resources that somebody may tamper with

ASSUME DataFoundationAssumption ==
  /\ \A c \in Configs : c.key \in Nat /\ c.capacity \in Nat
  /\ LateOnboarding \in BOOLEAN
  /\ MaxScRv \in Nat
  /\ MaxCount \in Nat

VARIABLES
  cons,            \* the StorageConsumers, and whether they came before or after the
                   \* deletion of the offering was requested
  cCons            \* the informer's copy of it

vars == <<offeringVars, cons, cCons>>
consumerVars == <<cons, cCons>>

\* key = 0 stands for an empty OnboardingValidationKey.
HasKey(config) == config.key # 0

OSDSizeInTiB == 4

\* int(math.Ceil(float64(UsableCapacityInTiB) / OSDSizeInTiB))
DesiredDeviceSetCount(config) == (config.capacity + OSDSizeInTiB - 1) \div OSDSizeInTiB

\* Mutated: the difference, or the desired count whatever there is.
DeviceSetsToAdd(desired, curr) == desired - curr

DesiredCountOnly(desired, curr) == desired

\* setDeviceSetCount: the larger of the two counts.
SetDeviceSetCount(desired, curr) == IF curr <= desired THEN desired ELSE curr

\* The CRDs whose watches the plugin needs, and the resources it reconciles.
DFCrds == {"storageclusters", "ocsinitializations"}

DFChildren == {"operatorGroup", "catalogSource", "subscription", "onboardingSecret", "monitors",
               "csv", "cephIngress", "providerAPIServer", "rookConfig", "ocsInitialization"}

\* Those the offering owns as a controller (Owns enqueues for controller owners only)
\* and whose kind is watched from the start: SetupWithManager and dfSetupWatches.
DFWatched == {"operatorGroup", "catalogSource", "subscription", "onboardingSecret",
              "cephIngress", "providerAPIServer"}

\* The consumers a list finds.
Onboarded(consumers) == {c \in Consumers : consumers[c] \in {"early", "late"}}

-----------------------------------------------------------------------------
(* Mutated phases, as in module Offering.                                  *)

\* Only the offering's namespace is listed, where there are no StorageConsumers.
ListNoStorageConsumers ==
  /\ pc = "listStorageConsumers"
  /\ GoTo("deleteStorageCluster")
  /\ UNCHANGED <<apiVars, cacheVars, avail, faults>>

\* A consumer found ends the reconcile without a requeue.
ListWithoutRequeue ==
  /\ pc = "listStorageConsumers"
  /\ Proceed(IF Onboarded(cCons) = {} THEN "deleteStorageCluster" ELSE "idle")
  /\ UNCHANGED <<apiVars, cacheVars, avail, faults>>

-----------------------------------------------------------------------------
(* Phases of the plugin.                                                   *)

\* pluginReconcile comes here for an offering of this Kind; dfReconcile first looks for
\* CRDs that were installed after the agent was started.
CheckCrds ==
  /\ pc = "pluginReconcile"
  /\ snap.config.kind = "DF"
  /\ \/ MissingWatch("storageclusters")
     \/ /\ "storageclusters" \in avail
        /\ MissingWatch("ocsinitializations")
     \/ /\ DFCrds \subseteq avail
        /\ GoTo(IF snap.st = "deleting" THEN "getStorageCluster" ELSE "onboardingSecret")
        /\ UNCHANGED <<apiVars, cacheVars, avail, faults>>

\* The secret is good only if the copy's key is still the one the user asks for.
ReconcileOnboardingValidationSecret ==
  /\ pc = "onboardingSecret"
  /\ \/ /\ HasKey(snap.config)
        /\ good' = IF snap.config.key = off.config.key THEN good \cup {"onboardingSecret"}
                                                       ELSE good \ {"onboardingSecret"}
        /\ GoTo("storageCluster")
     \/ /\ ~HasKey(snap.config)
        /\ Requeue
        /\ UNCHANGED good
  /\ UNCHANGED <<off, cacheVars, sc, ns, crds, avail, installed, faults>>

\* The count the phase writes never falls below the one it read.
DesiredCount(cached) == SetDeviceSetCount(DesiredDeviceSetCount(snap.config), cached.count)

\* The cached get found nothing: create.  AlreadyExists if the cache was behind.
CreateStorageCluster ==
  /\ cSc.st = "absent"
  /\ sc.st = "absent"
  /\ WriteStorageCluster("present", FALSE, DesiredCount(NoStorageCluster))
  /\ queued' = QueuedByStorageCluster

\* The cached get found one whose count must grow.  A conflict if the cache was behind.
UpdateStorageCluster ==
  /\ cSc.st # "absent"
  /\ DesiredCount(cSc) # cSc.count
  /\ UpdateAccepted(cSc, sc)
  /\ WriteStorageCluster(sc.st, sc.ready, DesiredCount(cSc))
  /\ queued' = QueuedByStorageCluster

\* CreateOrUpdate finds nothing to change.
KeepStorageCluster ==
  /\ cSc.st # "absent"
  /\ DesiredCount(cSc) = cSc.count
  /\ UNCHANGED <<sc, cSc, queued>>

StorageClusterRefused ==
  \/ snap.config.capacity = 0
  \/ cSc.st = "absent" /\ sc.st # "absent"
  \/ cSc.st # "absent" /\ DesiredCount(cSc) # cSc.count /\ ~UpdateAccepted(cSc, sc)

ReconcileStorageCluster ==
  /\ pc = "storageCluster"
  /\ \/ /\ snap.config.capacity > 0
        /\ CreateStorageCluster \/ UpdateStorageCluster \/ KeepStorageCluster
        /\ pc' = "monitors"
        /\ UNCHANGED snap
     \/ /\ StorageClusterRefused
        /\ Requeue
        /\ UNCHANGED <<sc, cSc>>
  /\ UNCHANGED <<off, cOff, ns, crds, avail, good, installed, faults>>

\* Every PodMonitor, ServiceMonitor and PrometheusRule of the namespace gets the label.
ReconcileMonitoringResources == CreateOrUpdate("monitors", "csv")

ReconcileCSV == GetAndUpdate("csv", "cephIngress")

ReconcileCephIngressNetworkPolicy == CreateOrUpdate("cephIngress", "providerAPIServer")

ReconcileProviderAPIServerNetworkPolicy == CreateOrUpdate("providerAPIServer", "rookConfig")

ReconcileRookCephOperatorConfig == GetAndUpdate("rookConfig", "ocsInitialization")

ReconcileOCSInitialization == GetAndUpdate("ocsInitialization", "idle")

\* The deletion branch.  A StorageCluster that is gone is an error; one that is not Ready
\* ends the reconcile without a requeue.
GetStorageCluster ==
  /\ pc = "getStorageCluster"
  /\ \/ /\ cSc.st = "absent"
        /\ Requeue
     \/ /\ cSc.st # "absent"
        /\ ~cSc.ready
        /\ Done
     \/ /\ cSc.st # "absent"
        /\ cSc.ready
        /\ GoTo("listStorageConsumers")
  /\ UNCHANGED <<apiVars, cacheVars, avail, faults>>

\* The list is over all namespaces; a consumer found means to look again in 10 seconds.
ListStorageConsumers ==
  /\ pc = "listStorageConsumers"
  /\ \/ /\ Onboarded(cCons) # {}
        /\ Requeue
     \/ /\ Onboarded(cCons) = {}
        /\ GoTo("deleteStorageCluster")
  /\ UNCHANGED <<apiVars, cacheVars, avail, faults>>

\* The delete has no precondition on the version that was read.
DeleteStorageCluster ==
  /\ pc = "deleteStorageCluster"
  /\ \/ /\ sc.st = "present"
        /\ WriteStorageCluster("deleting", sc.ready, sc.count)
        /\ queued' = QueuedByStorageCluster
     \/ /\ sc.st # "present"
        /\ UNCHANGED <<sc, cSc, queued>>
  /\ pc' = "idle"
  /\ snap' = NoOffering
  /\ UNCHANGED <<off, cOff, ns, crds, avail, good, installed, faults>>

PluginPhase ==
  \/ ReconcileOnboardingValidationSecret
  \/ ReconcileStorageCluster
  \/ ReconcileMonitoringResources
  \/ ReconcileCSV
  \/ ReconcileCephIngressNetworkPolicy
  \/ ReconcileProviderAPIServerNetworkPolicy
  \/ ReconcileRookCephOperatorConfig
  \/ ReconcileOCSInitialization
  \/ GetStorageCluster
  \/ ListStorageConsumers
  \/ DeleteStorageCluster

-----------------------------------------------------------------------------
(* The rest of the cluster.                                                *)

\* The rest of a write of the StorageCluster by somebody else.
EventOnly ==
  /\ queued' = QueuedByStorageCluster
  /\ UNCHANGED <<off, cOff, ns, crds, avail, good, installed, pc, snap, faults, consumerVars>>

\* An administrator, or the operator, raises the count of the device set.
AdminScale ==
  /\ sc.st = "present"
  /\ sc.rv < MaxScRv
  /\ sc.count < MaxCount
  /\ WriteStorageCluster(sc.st, sc.ready, sc.count + 1)
  /\ EventOnly

\* The ocs-operator reports the StorageCluster's phase.
BecomesReady ==
  /\ sc.st = "present"
  /\ ~sc.ready
  /\ WriteStorageCluster(sc.st, TRUE, sc.count)
  /\ EventOnly

LeavesReady ==
  /\ sc.st # "absent"
  /\ sc.ready
  /\ sc.st = "present" => sc.rv < MaxScRv
  /\ WriteStorageCluster(sc.st, FALSE, sc.count)
  /\ EventOnly

\* The ocs-operator has cleaned up and releases the StorageCluster.
StorageClusterGone ==
  /\ sc.st = "deleting"
  /\ WriteStorageCluster("absent", FALSE, sc.count)
  /\ EventOnly

\* A StorageCluster whose owner is gone is garbage collected.
GarbageCollect ==
  /\ off.st = "absent"
  /\ sc.st = "present"
  /\ WriteStorageCluster("deleting", sc.ready, sc.count)
  /\ EventOnly

\* StorageConsumers are not watched.
WriteConsumers(consumers) ==
  /\ cons' = consumers
  /\ cCons' = IF CacheLag THEN cCons ELSE consumers
  /\ UNCHANGED offeringVars

Onboard(c) ==
  /\ cons[c] = "none"
  /\ sc.st = "present"
  /\ sc.ready
  /\ off.st = "active" \/ LateOnboarding
  /\ WriteConsumers([cons EXCEPT ![c] = IF off.st = "active" THEN "early" ELSE "late"])

Offboard(c) ==
  /\ cons[c] \in {"early", "late"}
  /\ WriteConsumers([cons EXCEPT ![c] = "gone"])

StorageConsumerInformer ==
  /\ cCons # cons
  /\ cCons' = cons
  /\ UNCHANGED <<offeringVars, cons>>

-----------------------------------------------------------------------------
Init ==
  /\ OfferingInit
  /\ cons = [c \in Consumers |-> "none"]
  /\ cCons = [c \in Consumers |-> "none"]

\* One step of the worker.  A restart also lists the StorageConsumers anew.
AgentStep ==
  \/ (OfferingPhase \/ PluginPhase) /\ UNCHANGED consumerVars
  \/ CheckCrds /\ UNCHANGED cons /\ cCons' = IF avail' = avail THEN cCons ELSE cons

Fault ==
  \/ ApiFailure /\ UNCHANGED consumerVars
  \/ Crash /\ cCons' = cons /\ UNCHANGED cons

Informers ==
  \/ OfferingInformer /\ UNCHANGED consumerVars
  \/ StorageClusterInformer /\ UNCHANGED consumerVars
  \/ StorageConsumerInformer

OlmStep ==
  /\ \/ \E crd \in DFCrds : InstallCrd(crd)
     \/ InstallObject("csv", DFCrds)
     \/ InstallObject("rookConfig", {"csv"})
     \/ InstallObject("ocsInitialization", {"rookConfig"})
  /\ UNCHANGED consumerVars

\* What an edit of the offering puts out of date.
StaleAfter(config) ==
  (IF config.key = off.config.key THEN {} ELSE {"onboardingSecret"})
    \cup (IF config.kind = off.config.kind THEN {} ELSE KindDependent)

UserStep ==
  /\ \/ \E config \in Configs, hold \in Holds : UserCreate(config, hold)
     \/ \E config \in Configs : UserEdit(config, StaleAfter(config))
     \/ UserDelete
     \/ \E child \in Drifting : Drift(child, child \in DFWatched)
  /\ UNCHANGED consumerVars

OperatorStep == BecomesReady \/ StorageClusterGone \/ GarbageCollect

Next ==
  \/ AgentStep
  \/ Fault
  \/ Informers
  \/ ResyncOffering /\ UNCHANGED consumerVars
  \/ OlmStep
  \/ UserStep
  \/ ReleaseHold /\ UNCHANGED consumerVars
  \/ AdminScale
  \/ OperatorStep
  \/ LeavesReady
  \/ \E c \in Consumers : Onboard(c)
  \/ \E c \in Consumers : Offboard(c)

Spec == Init /\ [][Next]_vars

\* What the code's environment grants: the worker runs while the request is queued (one
\* goroutine of the workqueue), events are delivered, OLM and the ocs-operator do their
\* work, consumers leave and foreign finalizers are released in the end.  Nothing is
\* assumed of users, administrators and failures.
Fairness ==
  /\ WF_vars(AgentStep)
  /\ WF_vars(Informers)
  /\ WF_vars(OlmStep)
  /\ WF_vars(OperatorStep)
  /\ WF_vars(ReleaseHold /\ UNCHANGED consumerVars)
  /\ \A c \in Consumers : WF_vars(Offboard(c))

FairSpec == Spec /\ Fairness

-----------------------------------------------------------------------------
(* Correctness.                                                            *)

Phases == {"idle", "addFinalizer", "operatorGroup", "catalogSource", "subscription", "unmarshal",
           "isReadyToBeRemoved", "removeFinalizer", "deleteNamespace", "pluginReconcile",
           "onboardingSecret", "storageCluster", "monitors", "csv", "cephIngress",
           "providerAPIServer", "rookConfig", "ocsInitialization", "getStorageCluster",
           "listStorageConsumers", "deleteStorageCluster"}

ConsumerStates == [Consumers -> {"none", "early", "late", "gone"}]

\* Every variable has its type.
TypeOK ==
  /\ off \in OfferingObj /\ cOff \in OfferingObj /\ snap \in OfferingObj
  /\ sc \in StorageClusterObj /\ cSc \in StorageClusterObj
  /\ ns \in {"active", "terminating"}
  /\ crds \subseteq InitCrds \cup DFCrds
  /\ avail \subseteq InitCrds \cup DFCrds
  /\ good \subseteq DFChildren
  /\ installed \subseteq DFChildren
  /\ queued \in BOOLEAN
  /\ pc \in Phases
  /\ faults \in 0..MaxFaults
  /\ cons \in ConsumerStates /\ cCons \in ConsumerStates

\* "Prevent downscaling" (reconcileStorageCluster): the device set count of a
\* StorageCluster that exists never shrinks, although the count it is compared with comes
\* from a cache that may be behind an administrator's change, and whatever the user does
\* to the capacity in the meantime.
NoDownscale ==
  [][sc.st # "absent" /\ sc'.st # "absent" => sc'.count >= sc.count]_vars

\* A StorageCluster is created only while the offering exists and carries the agent's
\* finalizer, so that an offering deleted at any moment, during the creating reconcile
\* too, cannot disappear before its StorageCluster was taken care of.
FinalizerBeforeStorageCluster ==
  [][sc.st = "absent" /\ sc'.st # "absent" => off.st # "absent" /\ off.fin]_vars

\* The finalizer is given up only after the StorageCluster is gone: as long as there is a
\* StorageCluster there is an offering that holds the agent's finalizer.  (With caches up
\* to date; see the README for the stale read in dfIsReadyToBeRemoved.)
StorageClusterGuarded ==
  sc.st # "absent" => off.st # "absent" /\ off.fin

\* The StorageCluster is not deleted under a consumer that was onboarded before the
\* deletion of the offering was requested, whatever crashes and retries happen between
\* the listing of the consumers and the delete.
ConsumersProtected ==
  sc.st = "deleting" => \A c \in Consumers : cons[c] # "early"

\* The plugin touches the StorageCluster only in a process that watches it: an agent that
\* started before the CRDs were installed restarts first (HandleMissingWatch).
StorageClusterWatched ==
  sc.st # "absent" => DFCrds \subseteq avail

\* The namespace is deleted last: after the StorageCluster is gone and the finalizer of
\* the deleted offering was removed.
NamespaceLast ==
  ns = "terminating" => sc.st = "absent" /\ off.st # "active" /\ ~off.fin

\* How the state reads as the lifecycle of an offering.
Lifecycle == INSTANCE OfferingLifecycle WITH
  Users <- Consumers,
  life <- IF off.st # "absent" THEN off.st ELSE IF off.rv = 0 THEN "none" ELSE "gone",
  guarded <- off.st # "absent" /\ off.fin,
  storage <- CASE sc.st = "absent" -> IF sc.rv = 0 THEN "none" ELSE "removed"
               [] sc.st = "present" -> "serving"
               [] sc.st = "deleting" -> "draining",
  users <- {c \in Consumers : cons[c] = "early"},
  reclaimed <- ns = "terminating"

\* Whatever crashes, failures, edits and late arrivals happen between its phases, the
\* reconciler takes a provider offering through the lifecycle it promises: storage once and
\* only under the finalizer, drained only when asked and unused, the finalizer dropped and
\* then the namespace reclaimed only with no storage left.  (With caches up to date.)
ImplementsLifecycle == Lifecycle!Spec

\* The worker is idle, nothing is queued and no event is under way.
Quiescent ==
  /\ pc = "idle" /\ ~queued
  /\ cOff = off /\ cSc = sc

\* The reconciler does not stop short: when it has nothing left to do for an active
\* offering, the finalizer, the StorageCluster and every resource it watches are as the
\* current configuration wants them, after any edits, drift, failures and crashes.
SettledMeansConverged ==
  Quiescent /\ off.st = "active" =>
    /\ off.fin
    /\ DFWatched \subseteq good
    /\ sc.st = "present"
    /\ sc.count >= DesiredDeviceSetCount(off.config)

\* A deletion is not forgotten: the reconciler comes to rest with the finalizer still in
\* place only while it waits for a StorageCluster that is being deleted or is not Ready,
\* and whose next event wakes it.
SettledMeansWaiting ==
  Quiescent /\ off.st = "deleting" /\ off.fin =>
    /\ sc.st = "deleting" \/ (sc.st = "present" /\ ~sc.ready)
    /\ "storageclusters" \in avail

\* A deleted offering goes away, whatever point of its installation it had reached, once
\* its Subscription was made (before that the StorageCluster CRD may never come, and
\* dfIsReadyToBeRemoved fails for ever), as long as its configuration can be parsed.
OfferingRemoved ==
  off.st = "deleting" /\ "subscription" \in good ~> off.st = "absent" \/ ~off.config.valid

\* The finalizer was removed, but the delete of the namespace that comes next failed or the
\* process died before it: the offering is gone, and no reconcile tries again.
Abandoned == ~off.fin /\ ns = "active" /\ pc = "idle" /\ faults < MaxFaults

\* The namespace of a deleted offering is reclaimed, whatever fails on the way and wherever
\* the process dies, except in the one place for which the code has no retry.
NamespaceReclaimed ==
  off.st = "deleting" /\ off.fin /\ "subscription" \in good
    ~> ns = "terminating" \/ ~off.config.valid \/ Abandoned

\* A usable configuration is applied unless it is replaced or the offering is deleted.
Usable(config) == config.valid /\ HasKey(config) /\ config.capacity > 0

ConfigApplied ==
  \A c \in Configs :
    off.st = "active" /\ off.config = c /\ Usable(c) ~>
      \/ off.st # "active"
      \/ off.config # c
      \/ /\ DFWatched \subseteq good
         /\ sc.st = "present" /\ sc.count >= DesiredDeviceSetCount(c)
=============================================================================
