------------------------- MODULE DataFoundationClient -------------------------
(***************************************************************************)
(* The DataFoundationClient plugin (controllers/datafoundationclient.go)   *)
(* on top of the common offering reconciler: the storage consumer.  It     *)
(* connects the cluster to a provider with one StorageClient and two       *)
(* StorageClassClaims and, unlike DataFoundation, has nothing to wait for  *)
(* when the offering is deleted.  No StorageCluster is ever created here,  *)
(* so sc and cSc keep their initial value.  What must eventually happen to *)
(* an offering of this kind is stated in OfferingKinds, with both plugins. *)
(***************************************************************************)
EXTENDS Offering

CONSTANTS
  MaxClientRv,   \* bound on the resource version up to which others write the StorageClient
  Drifting       \* the managed resources that somebody may tamper with

ASSUME DataFoundationClientAssumption ==
  /\ \A c \in Configs : c.endpoint \in Nat /\ c.ticket \in Nat   \* 0 is the empty string
  /\ MaxClientRv \in Nat

VARIABLES
  client,        \* the live StorageClient "ocs-storageclient" of the namespace
  cClient        \* the informer's copy of it

vars == <<offeringVars, client, cClient>>
clientVars == <<client, cClient>>

StorageClientObj == [st : {"absent", "present"}, endpoint : Nat, ticket : Nat, rv : Nat]

NoStorageClient == [st |-> "absent", endpoint |-> 0, ticket |-> 0, rv |-> 0]

WriteStorageClient(st, endpoint, ticket) ==
  /\ client' = [st |-> st, endpoint |-> endpoint, ticket |-> ticket, rv |-> client.rv + 1]
  /\ cClient' = IF CacheLag THEN cClient ELSE client'

\* The StorageClient is owned as a controller; it is watched if its CRD was there when
\* the watches were set up (dfcSetupWatches).
QueuedByStorageClient == queued \/ (~CacheLag /\ "storageclients" \in avail)

\* The CRDs whose watches the plugin needs, and the resources it reconciles beside the
\* StorageClient.
DFCCrds == {"storageclients", "storageclassclaims"}

DFCChildren == {"operatorGroup", "catalogSource", "subscription", "clientCsv", "blockClaim", "fsClaim",
                "kmsConfig"}

\* The claims have no owner, and the CSV an owner that is not a controller: a change of
\* theirs does not wake the reconciler.
DFCWatched == {"operatorGroup", "catalogSource", "subscription", "kmsConfig"}

-----------------------------------------------------------------------------
(* Mutated phases, as in module Offering.                                  *)

\* The offering is handed to the other kind's plugin.
CheckCrdsOfDataFoundation ==
  /\ pc = "pluginReconcile"
  /\ GoTo("onboardingSecret")
  /\ UNCHANGED <<apiVars, cacheVars, avail, faults>>

\* The CRDs are looked for on the cluster, but the process does not restart.
CheckCrdsWithoutRestart ==
  /\ pc = "pluginReconcile"
  /\ snap.config.kind = "DFC"
  /\ \/ /\ DFCCrds \subseteq crds
        /\ Proceed(IF snap.st = "deleting" THEN "idle" ELSE "clientCsv")
     \/ /\ ~(DFCCrds \subseteq crds)
        /\ Requeue
  /\ UNCHANGED <<apiVars, cacheVars, avail, faults>>

\* A StorageClient that exists is left as it is.
KeepAnyStorageClient ==
  /\ cClient.st = "present"
  /\ UNCHANGED <<clientVars, queued>>

-----------------------------------------------------------------------------
(* Phases of the plugin.                                                   *)

\* pluginReconcile comes here for an offering of this Kind.  One that is being deleted
\* needs nothing from the plugin.
CheckCrds ==
  /\ pc = "pluginReconcile"
  /\ snap.config.kind = "DFC"
  /\ \/ MissingWatch("storageclients")
     \/ /\ "storageclients" \in avail
        /\ MissingWatch("storageclassclaims")
     \/ /\ DFCCrds \subseteq avail
        /\ Proceed(IF snap.st = "deleting" THEN "idle" ELSE "clientCsv")
        /\ UNCHANGED <<apiVars, cacheVars, avail, faults>>

ReconcileCSV == GetAndUpdate("clientCsv", "storageClient")

HasAddress(config) == config.endpoint # 0 /\ config.ticket # 0

SameAddress(a, b) == a.endpoint = b.endpoint /\ a.ticket = b.ticket

\* The cached get found nothing: create.  AlreadyExists if the cache was behind.
CreateStorageClient ==
  /\ cClient.st = "absent"
  /\ client.st = "absent"
  /\ WriteStorageClient("present", snap.config.endpoint, snap.config.ticket)
  /\ queued' = QueuedByStorageClient

\* The cached get found another address.  A conflict if the cache was behind.
UpdateStorageClient ==
  /\ cClient.st = "present"
  /\ ~SameAddress(cClient, snap.config)
  /\ UpdateAccepted(cClient, client)
  /\ WriteStorageClient("present", snap.config.endpoint, snap.config.ticket)
  /\ queued' = QueuedByStorageClient

KeepStorageClient ==
  /\ cClient.st = "present"
  /\ SameAddress(cClient, snap.config)
  /\ UNCHANGED <<clientVars, queued>>

StorageClientRefused ==
  \/ ~HasAddress(snap.config)
  \/ cClient.st = "absent" /\ client.st = "present"
  \/ cClient.st = "present" /\ ~SameAddress(cClient, snap.config) /\ ~UpdateAccepted(cClient, client)

ReconcileStorageClient ==
  /\ pc = "storageClient"
  /\ \/ /\ HasAddress(snap.config)
        /\ CreateStorageClient \/ UpdateStorageClient \/ KeepStorageClient
        /\ pc' = "blockClaim"
        /\ UNCHANGED snap
     \/ /\ StorageClientRefused
        /\ Requeue
        /\ UNCHANGED clientVars
  /\ UNCHANGED <<apiVars, cacheVars, avail, faults>>

ReconcileDefaultBlockStorageClassClaim == CreateOrUpdate("blockClaim", "fsClaim")

ReconcileDefaultFSStorageClassClaim == CreateOrUpdate("fsClaim", "kmsConfig")

ReconcileCSIKMSConnectionDetailsConfigMap == CreateOrUpdate("kmsConfig", "idle")

PluginPhase ==
  \/ ReconcileCSV
  \/ ReconcileDefaultBlockStorageClassClaim
  \/ ReconcileDefaultFSStorageClassClaim
  \/ ReconcileCSIKMSConnectionDetailsConfigMap

-----------------------------------------------------------------------------
(* The rest of the cluster.                                                *)

\* Somebody else writes the StorageClient: gives it another address, deletes it, or the
\* garbage collector removes it after its owner.
TamperWithStorageClient(config) ==
  /\ client.st = "present"
  /\ client.rv < MaxClientRv
  /\ WriteStorageClient("present", config.endpoint, config.ticket)
  /\ queued' = QueuedByStorageClient
  /\ UNCHANGED <<apiVars, cacheVars, pc, snap, avail, faults>>

StorageClientGone ==
  /\ client.st = "present"
  /\ off.st = "absent" \/ client.rv < MaxClientRv
  /\ WriteStorageClient("absent", client.endpoint, client.ticket)
  /\ queued' = QueuedByStorageClient
  /\ UNCHANGED <<apiVars, cacheVars, pc, snap, avail, faults>>

StorageClientInformer ==
  /\ cClient # client
  /\ cClient' = client
  /\ queued' = (queued \/ "storageclients" \in avail)
  /\ UNCHANGED <<apiVars, cacheVars, pc, snap, avail, faults, client>>

\* The CRD that dfIsReadyToBeRemoved needs comes only with a DataFoundation offering.
OtherOfferingInstalled ==
  /\ "storageclusters" \notin crds
  /\ crds' = crds \cup {"storageclusters"}
  /\ UNCHANGED <<off, cacheVars, sc, ns, good, installed, workerVars, faults, clientVars>>

-----------------------------------------------------------------------------
Init ==
  /\ OfferingInit
  /\ client = NoStorageClient
  /\ cClient = NoStorageClient

\* One step of the worker.  A restart also lists the StorageClients anew.
AgentStep ==
  \/ (OfferingPhase \/ PluginPhase) /\ UNCHANGED clientVars
  \/ ReconcileStorageClient
  \/ CheckCrds /\ UNCHANGED client /\ cClient' = IF avail' = avail THEN cClient ELSE client

Fault ==
  \/ ApiFailure /\ UNCHANGED clientVars
  \/ Crash /\ cClient' = client /\ UNCHANGED client

Informers ==
  \/ OfferingInformer /\ UNCHANGED clientVars
  \/ StorageClientInformer

OlmStep ==
  /\ \/ \E crd \in DFCCrds : InstallCrd(crd)
     \/ InstallObject("clientCsv", DFCCrds)
  /\ UNCHANGED clientVars

UserStep ==
  /\ \/ \E config \in Configs, hold \in Holds : UserCreate(config, hold)
     \/ \E config \in Configs :
          UserEdit(config, IF config.kind = off.config.kind THEN {} ELSE KindDependent)
     \/ UserDelete
     \/ \E child \in Drifting : Drift(child, child \in DFCWatched)
  /\ UNCHANGED clientVars

Next ==
  \/ AgentStep
  \/ Fault
  \/ Informers
  \/ ResyncOffering /\ UNCHANGED clientVars
  \/ OlmStep
  \/ UserStep
  \/ ReleaseHold /\ UNCHANGED clientVars
  \/ OtherOfferingInstalled
  \/ \E config \in Configs : TamperWithStorageClient(config)
  \/ StorageClientGone

Spec == Init /\ [][Next]_vars

-----------------------------------------------------------------------------
(* Correctness.                                                            *)

Phases == {"idle", "addFinalizer", "operatorGroup", "catalogSource", "subscription", "unmarshal",
           "isReadyToBeRemoved", "removeFinalizer", "deleteNamespace", "pluginReconcile", "clientCsv",
           "storageClient", "blockClaim", "fsClaim", "kmsConfig"}

\* Every variable has its type, and the StorageCluster of DataFoundation plays no part.
TypeOK ==
  /\ off \in OfferingObj /\ cOff \in OfferingObj /\ snap \in OfferingObj
  /\ sc = NoStorageCluster /\ cSc = NoStorageCluster
  /\ client \in StorageClientObj /\ cClient \in StorageClientObj
  /\ ns \in {"active", "terminating"}
  /\ crds \subseteq InitCrds \cup DFCCrds \cup {"storageclusters"}
  /\ avail \subseteq InitCrds \cup DFCCrds \cup {"storageclusters"}
  /\ good \subseteq DFCChildren
  /\ installed \subseteq DFCChildren
  /\ queued \in BOOLEAN
  /\ pc \in Phases
  /\ faults \in 0..MaxFaults

\* A StorageClient is created only while the offering exists, carries the agent's
\* finalizer and its namespace is not being deleted: a reconcile that works from an old
\* copy does not bring the StorageClient of a removed offering back.
NoResurrection ==
  [][client.st = "absent" /\ client'.st = "present" =>
       off.st # "absent" /\ off.fin /\ ns = "active"]_vars

\* How the state reads as the lifecycle of an offering that serves no storage.
Lifecycle == INSTANCE OfferingLifecycle WITH
  Users <- {},
  life <- IF off.st # "absent" THEN off.st ELSE IF off.rv = 0 THEN "none" ELSE "gone",
  guarded <- off.st # "absent" /\ off.fin,
  storage <- "none",
  users <- {},
  reclaimed <- ns = "terminating"

\* The reconciler takes a client offering through the lifecycle it promises, also when the
\* copy a reconcile works from is behind: the finalizer is put on an active offering and
\* dropped from a deleted one only, and the namespace is reclaimed only after that.
ImplementsLifecycle == Lifecycle!Spec

\* The plugin makes the StorageClient only in a process that watches it and the claims.
StorageClientWatched ==
  client.st = "present" => DFCCrds \subseteq avail

Quiescent ==
  /\ pc = "idle" /\ ~queued
  /\ cOff = off /\ cClient = client

\* The reconciler does not stop short: when it has nothing left to do for an active
\* offering, the StorageClient has the endpoint and the ticket the user asks for by now
\* and every watched resource is as wanted, after any edits, tampering, failures and
\* crashes and although cached reads may be old.
SettledMeansConverged ==
  Quiescent /\ off.st = "active" =>
    /\ off.fin
    /\ DFCWatched \subseteq good
    /\ client.st = "present"
    /\ SameAddress(client, off.config)

\* The reconciler does not come to rest while it still holds a deleted offering back.
DeletionNotForgotten ==
  Quiescent /\ off.st = "deleting" => ~off.fin
=============================================================================
