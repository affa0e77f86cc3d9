------------------------------ MODULE Offering ------------------------------
(***************************************************************************)
(* The ManagedFusionOffering reconciler                                    *)
(* (controllers/managedfusionoffering_controller.go): the part common to   *)
(* both kinds of offering.  One ManagedFusionOffering lives in one         *)
(* namespace; the reconciler is a single worker that reads through an      *)
(* informer cache and writes straight to the API server, which refuses an  *)
(* update made from an old resource version.  A reconcile is a sequence of *)
(* phases, one value of pc per phase, and everything else (users, OLM, the *)
(* informers, a crash) may act between two phases.  A phase that fails     *)
(* gives the request back to the rate limited queue and the next reconcile *)
(* starts from the beginning.                                              *)
(*                                                                         *)
(* DataFoundation and DataFoundationClient extend this module with the     *)
(* phases of the two plugins, which are entered at pc = "pluginReconcile". *)
(***************************************************************************)
EXTENDS Naturals

CONSTANTS
  Configs,      \* values of ManagedFusionOffering.Spec: the Kind, and the Config, which is
                \* YAML if c.valid
  Holds,        \* may the offering carry a finalizer of somebody else? {FALSE} or BOOLEAN
  InitCrds,     \* the CRDs on the cluster when the agent first starts
  CacheLag,     \* may the informer's copy of an object that has one here (the offering, the
                \* StorageCluster, the StorageConsumers, the StorageClient) be older than it?
  Resync,       \* does the informer resync (10 hours by default) fire?
  MaxOffRv,     \* bound on the resource version up to which the user writes the offering
  MaxFaults     \* bound on failed API calls plus crashes

ASSUME OfferingAssumption ==
  /\ Configs # {}
  /\ \A c \in Configs : c.kind \in {"DF", "DFC"} /\ c.valid \in BOOLEAN
  /\ Holds \subseteq BOOLEAN
  /\ CacheLag \in BOOLEAN
  /\ Resync \in BOOLEAN
  /\ MaxOffRv \in Nat
  /\ MaxFaults \in Nat

VARIABLES
  off,          \* the live ManagedFusionOffering
  cOff,         \* the informer's copy of it
  sc,           \* the live StorageCluster "ocs-storagecluster" of the namespace
  cSc,          \* the informer's copy of it
  ns,           \* the namespace: "active" or "terminating"
  crds,         \* CRDs installed on the cluster
  avail,        \* AvailableCRDs: the CRDs that were there when the process started
  good,         \* the other managed resources that are as this reconciler wants them
  installed,    \* resources OLM and the installed operator create themselves
  queued,       \* is the request in the workqueue (delayed or not)?
  pc,           \* the phase the worker is in
  snap,         \* r.managedFusionOffering: the copy this reconcile works from
  faults        \* failed calls and crashes still to come

apiVars == <<off, sc, ns, good, crds, installed>>
cacheVars == <<cOff, cSc>>
workerVars == <<pc, snap, queued, avail>>
offeringVars == <<off, cOff, sc, cSc, ns, crds, avail, good, installed, queued, pc, snap, faults>>

AnyConfig == CHOOSE c \in Configs : TRUE

\* An offering.  fin is the finalizer "misf.ibm.com/finalizer" of this agent,
\* hold any finalizer of somebody else.  An object that is gone keeps its last
\* resource version, as the API server never reuses one.
OfferingObj == [st : {"absent", "active", "deleting"}, fin : BOOLEAN, hold : BOOLEAN,
                config : Configs, rv : Nat]

NoOffering == [st |-> "absent", fin |-> FALSE, hold |-> FALSE, config |-> AnyConfig, rv |-> 0]

\* A StorageCluster: Status.Phase = "Ready", and the Count of its "default" device set.
StorageClusterObj == [st : {"absent", "present", "deleting"}, ready : BOOLEAN, count : Nat, rv : Nat]

NoStorageCluster == [st |-> "absent", ready |-> FALSE, count |-> 0, rv |-> 0]

\* A write that the API server accepted, which gives the object its next version.
\* Without CacheLag the informers see it at once and the request is queued by the same
\* step; with it they see it later (OfferingInformer, StorageClusterInformer).
WriteOffering(st, fin, hold, config) ==
  /\ off' = [st |-> st, fin |-> fin, hold |-> hold, config |-> config, rv |-> off.rv + 1]
  /\ cOff' = IF CacheLag THEN cOff ELSE off'

WriteStorageCluster(st, ready, count) ==
  /\ sc' = [st |-> st, ready |-> ready, count |-> count, rv |-> sc.rv + 1]
  /\ cSc' = IF CacheLag THEN cSc ELSE sc'

QueuedByOffering == queued \/ ~CacheLag

\* StorageClusters wake the reconciler only if their CRD was there when the watches
\* were set up (dfSetupWatches).
QueuedByStorageCluster == queued \/ (~CacheLag /\ "storageclusters" \in avail)

-----------------------------------------------------------------------------
(* The worker: what a reconcile leaves behind when it returns.             *)

\* return ctrl.Result{}, nil
Done == /\ pc' = "idle"
        /\ snap' = NoOffering
        /\ UNCHANGED queued

\* return an error, or a RequeueAfter: the request comes back later.
Requeue == /\ pc' = "idle"
           /\ snap' = NoOffering
           /\ queued' = TRUE

\* On to the next phase of this reconcile.
GoTo(phase) == /\ pc' = phase
               /\ UNCHANGED <<snap, queued>>

\* The same, where next = "idle" says that this was the last phase.
Proceed(next) == IF next = "idle" THEN Done ELSE GoTo(next)

\* The process starts: mapCRDAvailability lists the CRDs, the informers list their
\* objects before the worker runs, and every offering found is enqueued.
Restart == /\ pc' = "idle"
           /\ snap' = NoOffering
           /\ avail' = crds
           /\ cOff' = off
           /\ cSc' = sc
           /\ queued' = (off.st # "absent")
           /\ UNCHANGED apiVars

\* Update(obj): the API server accepts the write only if the copy is current.
UpdateAccepted(copy, live) == live.st # "absent" /\ copy.rv = live.rv

-----------------------------------------------------------------------------
(* Mutated phases: plausible slips that a property must detect.  Nothing   *)
(* below refers to them.                                                   *)

\* The finalizer is put on the copy, but the offering is not updated.
AddFinalizerToCopyOnly ==
  /\ pc = "addFinalizer"
  /\ GoTo("operatorGroup")
  /\ UNCHANGED <<apiVars, cacheVars, avail, faults>>

\* A missing resource is taken for nothing to do.
GetAndUpdateIfFound(child, next) ==
  /\ pc = child
  /\ \/ /\ child \in installed
        /\ good' = good \cup {child}
        /\ Proceed(next)
     \/ /\ child \notin installed
        /\ Done
        /\ UNCHANGED good
  /\ UNCHANGED <<off, cacheVars, sc, ns, crds, avail, installed, faults>>

\* A resource that is found is taken as it is.
GetWithoutUpdate(child, next) ==
  /\ pc = child
  /\ \/ /\ child \in installed
        /\ Proceed(next)
     \/ /\ child \notin installed
        /\ Requeue
  /\ UNCHANGED <<apiVars, cacheVars, avail, faults>>

\* A StorageCluster that is on its way out counts as gone.
IsReadyOnceDeleting ==
  /\ pc = "isReadyToBeRemoved"
  /\ GoTo(IF cSc.st = "present" THEN "unmarshal" ELSE "removeFinalizer")
  /\ UNCHANGED <<apiVars, cacheVars, avail, faults>>

\* The namespace is deleted without the finalizer being removed first.
IsReadyNamespaceFirst ==
  /\ pc = "isReadyToBeRemoved"
  /\ GoTo(IF cSc.st = "absent" THEN "deleteNamespace" ELSE "unmarshal")
  /\ UNCHANGED <<apiVars, cacheVars, avail, faults>>

\* The error of the StorageCluster get is swallowed.
IsReadyErrorIgnored ==
  /\ pc = "isReadyToBeRemoved"
  /\ \/ /\ "storageclusters" \notin crds
        /\ Done
     \/ /\ "storageclusters" \in crds
        /\ GoTo(IF cSc.st = "absent" THEN "removeFinalizer" ELSE "unmarshal")
  /\ UNCHANGED <<apiVars, cacheVars, avail, faults>>

\* AvailableCRDs is asked instead of the API server.
IsReadyByStartupCrds ==
  /\ pc = "isReadyToBeRemoved"
  /\ \/ /\ "storageclusters" \notin avail
        /\ Requeue
     \/ /\ "storageclusters" \in avail
        /\ GoTo(IF cSc.st = "absent" THEN "removeFinalizer" ELSE "unmarshal")
  /\ UNCHANGED <<apiVars, cacheVars, avail, faults>>

\* The reconcile returns after the update that removed the finalizer.
RemoveFinalizerAndReturn ==
  /\ pc = "removeFinalizer"
  /\ \/ /\ ~snap.fin
        /\ GoTo("deleteNamespace")
        /\ UNCHANGED <<off, cOff>>
     \/ /\ snap.fin
        /\ UpdateAccepted(snap, off)
        /\ WriteOffering(IF off.hold THEN "deleting" ELSE "absent", FALSE, off.hold, off.config)
        /\ snap' = NoOffering
        /\ pc' = "idle"
        /\ queued' = QueuedByOffering
     \/ /\ snap.fin
        /\ ~UpdateAccepted(snap, off)
        /\ Requeue
        /\ UNCHANGED <<off, cOff>>
  /\ UNCHANGED <<sc, cSc, ns, crds, avail, good, installed, faults>>

-----------------------------------------------------------------------------
(* Phases common to both kinds.                                            *)

\* Reconcile takes the request, rebuilds its in-memory objects and gets the offering.
Reconcile ==
  /\ pc = "idle"
  /\ queued
  /\ queued' = FALSE
  /\ \/ /\ cOff.st = "absent"
        /\ UNCHANGED <<pc, snap>>
     \/ /\ cOff.st = "deleting"
        /\ pc' = "isReadyToBeRemoved"
        /\ snap' = cOff
     \/ /\ cOff.st = "active"
        /\ pc' = "addFinalizer"
        /\ snap' = cOff
  /\ UNCHANGED <<apiVars, cacheVars, avail, faults>>

\* AddFinalizer on the copy, and an update of the offering if it was missing.
AddFinalizer ==
  /\ pc = "addFinalizer"
  /\ \/ /\ snap.fin
        /\ GoTo("operatorGroup")
        /\ UNCHANGED <<off, cOff>>
     \/ /\ ~snap.fin
        /\ UpdateAccepted(snap, off)
        /\ WriteOffering(off.st, TRUE, off.hold, off.config)
        /\ snap' = off'
        /\ pc' = "operatorGroup"
        /\ queued' = QueuedByOffering
     \/ /\ ~snap.fin
        /\ ~UpdateAccepted(snap, off)
        /\ Requeue
        /\ UNCHANGED <<off, cOff>>
  /\ UNCHANGED <<sc, cSc, ns, crds, avail, good, installed, faults>>

\* The resources whose desired content depends on the copy, on its Kind
\* (pluginGetDesiredOperatorGroupSpec, pluginGetDesiredSubscriptionSpec).
KindDependent == {"operatorGroup", "subscription"}

\* CreateOrUpdate of a resource; it is good unless it was made for another Kind than the
\* user asks for by now.  The resource itself is read as it is, also with CacheLag: the
\* update made from an old copy of it is refused, and the phase fails and is retried.
CreateOrUpdate(child, next) ==
  /\ pc = child
  /\ good' = IF child \in KindDependent /\ snap.config.kind # off.config.kind
               THEN good \ {child} ELSE good \cup {child}
  /\ Proceed(next)
  /\ UNCHANGED <<off, cacheVars, sc, ns, crds, avail, installed, faults>>

ReconcileOperatorGroup == CreateOrUpdate("operatorGroup", "catalogSource")

ReconcileCatalogSource == CreateOrUpdate("catalogSource", "subscription")

ReconcileSubscription == CreateOrUpdate("subscription", "unmarshal")

\* GetAndUpdate, or get followed by update, of a resource that somebody else must have
\* created; the error of a missing one ends the reconcile.
GetAndUpdate(child, next) ==
  /\ pc = child
  /\ \/ /\ child \in installed
        /\ good' = good \cup {child}
        /\ Proceed(next)
     \/ /\ child \notin installed
        /\ Requeue
        /\ UNCHANGED good
  /\ UNCHANGED <<off, cacheVars, sc, ns, crds, avail, installed, faults>>

\* The deletion branch: pluginIsReadyToBeRemoved asks dfIsReadyToBeRemoved for either
\* kind.  Getting a StorageCluster while its CRD is not installed fails with another
\* error than NotFound.
IsReadyToBeRemoved ==
  /\ pc = "isReadyToBeRemoved"
  /\ \/ /\ "storageclusters" \notin crds
        /\ Requeue
     \/ /\ "storageclusters" \in crds
        /\ cSc.st = "absent"
        /\ GoTo("removeFinalizer")
     \/ /\ "storageclusters" \in crds
        /\ cSc.st # "absent"
        /\ GoTo("unmarshal")
  /\ UNCHANGED <<apiVars, cacheVars, avail, faults>>

\* RemoveFinalizer on the copy, and an update of the offering if it was there: the API
\* server drops an object that is being deleted together with its last finalizer.
RemoveFinalizer ==
  /\ pc = "removeFinalizer"
  /\ \/ /\ ~snap.fin
        /\ GoTo("deleteNamespace")
        /\ UNCHANGED <<off, cOff>>
     \/ /\ snap.fin
        /\ UpdateAccepted(snap, off)
        /\ WriteOffering(IF off.hold THEN "deleting" ELSE "absent", FALSE, off.hold, off.config)
        /\ snap' = [st |-> "deleting", fin |-> FALSE, hold |-> off.hold, config |-> off.config,
                    rv |-> off.rv + 1]
        /\ pc' = "deleteNamespace"
        /\ queued' = QueuedByOffering
     \/ /\ snap.fin
        /\ ~UpdateAccepted(snap, off)
        /\ Requeue
        /\ UNCHANGED <<off, cOff>>
  /\ UNCHANGED <<sc, cSc, ns, crds, avail, good, installed, faults>>

\* The namespace is deleted and the reconcile falls through to the common tail.
DeleteNamespace ==
  /\ pc = "deleteNamespace"
  /\ ns' = "terminating"
  /\ GoTo("unmarshal")
  /\ UNCHANGED <<off, cacheVars, sc, crds, avail, good, installed, faults>>

\* yaml.Unmarshal of Spec.Config, in the active and in the deletion branch.
UnmarshalConfig ==
  /\ pc = "unmarshal"
  /\ \/ /\ snap.config.valid
        /\ GoTo("pluginReconcile")
     \/ /\ ~snap.config.valid
        /\ Requeue
  /\ UNCHANGED <<apiVars, cacheVars, avail, faults>>

\* A CRD the plugin needs has no watch: if it is on the cluster by now the process exits
\* (HandleMissingWatch) and is started again, otherwise the reconcile fails.
MissingWatch(crd) ==
  /\ crd \notin avail
  /\ \/ /\ crd \in crds
        /\ Restart
     \/ /\ crd \notin crds
        /\ Requeue
        /\ UNCHANGED <<apiVars, cacheVars, avail>>
  /\ UNCHANGED faults

OfferingPhase ==
  \/ Reconcile
  \/ AddFinalizer
  \/ ReconcileOperatorGroup
  \/ ReconcileCatalogSource
  \/ ReconcileSubscription
  \/ IsReadyToBeRemoved
  \/ RemoveFinalizer
  \/ DeleteNamespace
  \/ UnmarshalConfig

-----------------------------------------------------------------------------
(* Failures.                                                               *)

\* An API call of the current phase fails: a conflict on a stale copy, a timeout, an
\* unavailable API server.  A call whose answer is lost after the write was applied
\* is this failure in the next phase.
ApiFailure ==
  /\ pc # "idle"
  /\ faults > 0
  /\ faults' = faults - 1
  /\ Requeue
  /\ UNCHANGED <<apiVars, cacheVars, avail>>

\* The process dies between two phases, or is moved to another node.
Crash ==
  /\ faults > 0
  /\ faults' = faults - 1
  /\ Restart

-----------------------------------------------------------------------------
(* The informers.                                                          *)

OfferingInformer ==
  /\ cOff # off
  /\ cOff' = off
  /\ queued' = TRUE
  /\ UNCHANGED <<apiVars, cSc, pc, snap, avail, faults>>

StorageClusterInformer ==
  /\ cSc # sc
  /\ cSc' = sc
  /\ queued' = (queued \/ "storageclusters" \in avail)
  /\ UNCHANGED <<apiVars, cOff, pc, snap, avail, faults>>

\* The periodic resync replays every object to the handlers.
ResyncOffering ==
  /\ Resync
  /\ off.st # "absent"
  /\ ~queued
  /\ queued' = TRUE
  /\ UNCHANGED <<apiVars, cacheVars, pc, snap, avail, faults>>

-----------------------------------------------------------------------------
(* The user.                                                               *)

UserCreate(config, hold) ==
  /\ off.st = "absent"
  /\ off.rv = 0
  /\ ns = "active"
  /\ WriteOffering("active", FALSE, hold, config)
  /\ queued' = QueuedByOffering
  /\ UNCHANGED <<sc, cSc, ns, crds, avail, good, installed, pc, snap, faults>>

\* An edit of the Spec; stale is what the edit puts out of date.
UserEdit(config, stale) ==
  /\ off.st # "absent"
  /\ off.rv < MaxOffRv
  /\ off.config # config
  /\ WriteOffering(off.st, off.fin, off.hold, config)
  /\ good' = good \ stale
  /\ queued' = QueuedByOffering
  /\ UNCHANGED <<sc, cSc, ns, crds, avail, installed, pc, snap, faults>>

UserDelete ==
  /\ off.st = "active"
  /\ WriteOffering(IF off.fin \/ off.hold THEN "deleting" ELSE "absent", off.fin, off.hold, off.config)
  /\ queued' = QueuedByOffering
  /\ UNCHANGED <<sc, cSc, ns, crds, avail, good, installed, pc, snap, faults>>

\* Whoever put another finalizer on the offering removes it during deletion.
ReleaseHold ==
  /\ off.st = "deleting"
  /\ off.hold
  /\ WriteOffering(IF off.fin THEN "deleting" ELSE "absent", off.fin, FALSE, off.config)
  /\ queued' = QueuedByOffering
  /\ UNCHANGED <<sc, cSc, ns, crds, avail, good, installed, pc, snap, faults>>

\* Somebody changes or removes a managed resource; watched says whether the reconciler
\* is a controller owner of it with a watch, so that the change wakes it.
Drift(child, watched) ==
  /\ child \in good
  /\ good' = good \ {child}
  /\ queued' = (queued \/ watched)
  /\ UNCHANGED <<off, cacheVars, sc, ns, crds, installed, pc, snap, avail, faults>>

-----------------------------------------------------------------------------
(* OLM.  Once the Subscription is there OLM installs the operator: its     *)
(* CRDs, its CSV and the objects the operator creates at startup.          *)

InstallCrd(crd) ==
  /\ "subscription" \in good
  /\ crd \notin crds
  /\ crds' = crds \cup {crd}
  /\ UNCHANGED <<off, cacheVars, sc, ns, good, installed, workerVars, faults>>

InstallObject(obj, needed) ==
  /\ "subscription" \in good
  /\ needed \subseteq crds \cup installed
  /\ obj \notin installed
  /\ installed' = installed \cup {obj}
  /\ UNCHANGED <<off, cacheVars, sc, ns, crds, good, workerVars, faults>>

OfferingInit ==
  /\ off = NoOffering
  /\ cOff = NoOffering
  /\ sc = NoStorageCluster
  /\ cSc = NoStorageCluster
  /\ ns = "active"
  /\ crds = InitCrds
  /\ avail = InitCrds
  /\ good = {}
  /\ installed = {}
  /\ queued = FALSE
  /\ pc = "idle"
  /\ snap = NoOffering
  /\ faults = MaxFaults
=============================================================================
