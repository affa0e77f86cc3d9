---------------------------- MODULE OfferingKinds ----------------------------
(***************************************************************************)
(* The offering reconciler with both its plugins.  Nothing makes the Kind  *)
(* of a ManagedFusionOffering immutable: an edit may turn a provider into  *)
(* a client, or back, at any moment.  pluginReconcile asks the copy of the *)
(* offering for its Kind in every reconcile, so the plugins take turns on  *)
(* the same offering, namespace, Subscription and process, and each leaves *)
(* behind what the other does not know of.                                 *)
(*                                                                         *)
(* DataFoundation is extended and DataFoundationClient instantiated over   *)
(* the same variables; a phase of either is a step here, and CheckCrds of  *)
(* each is entered for its own Kind.  Failures, crashes, the informers of  *)
(* both kinds and foreign finalizers are what they are in those modules.   *)
(***************************************************************************)
EXTENDS DataFoundation

CONSTANT MaxClientRv     \* as in DataFoundationClient

VARIABLES client, cClient

Client == INSTANCE DataFoundationClient

ASSUME OfferingKindsAssumption ==
  /\ \A c \in Configs : c.endpoint \in Nat /\ c.ticket \in Nat
  /\ MaxClientRv \in Nat

clientVars == <<client, cClient>>
kindVars == <<vars, clientVars>>

\* A restart lists everything anew, whichever plugin asked for it.
ProviderWorker ==
  /\ AgentStep
  /\ UNCHANGED client
  /\ cClient' = IF avail' = avail THEN cClient ELSE client

ClientWorker ==
  /\ Client!AgentStep
  /\ UNCHANGED cons
  /\ cCons' = IF avail' = avail THEN cCons ELSE cons

Worker == ProviderWorker \/ ClientWorker

\* A call of either plugin fails, or the process dies and lists everything anew.
FailureOrCrash ==
  \/ ApiFailure /\ UNCHANGED <<consumerVars, clientVars>>
  \/ Crash /\ UNCHANGED <<cons, client>> /\ cCons' = cons /\ cClient' = client

\* The informers of both kinds.
Events ==
  \/ Informers /\ UNCHANGED clientVars
  \/ Client!StorageClientInformer /\ UNCHANGED consumerVars

\* The package the Subscription asks for depends on the Kind it was made for.
Olm ==
  \/ off.config.kind = "DF" /\ OlmStep /\ UNCHANGED clientVars
  \/ off.config.kind = "DFC" /\ Client!OlmStep /\ UNCHANGED consumerVars

ResyncStep == ResyncOffering /\ UNCHANGED <<consumerVars, clientVars>>

\* The user edits the Kind as well as the Config.
User ==
  /\ \/ \E config \in Configs, hold \in Holds : UserCreate(config, hold)
     \/ \E config \in Configs : UserEdit(config, StaleAfter(config))
     \/ UserDelete
     \/ \E child \in Drifting : Drift(child, child \in DFWatched \cup Client!DFCWatched)
  /\ UNCHANGED <<consumerVars, clientVars>>

HoldReleased == ReleaseHold /\ UNCHANGED <<consumerVars, clientVars>>

\* What else goes on around a provider, and around a client.
ProviderCluster ==
  /\ \/ AdminScale
     \/ LeavesReady
     \/ \E c \in Consumers : Onboard(c)
  /\ UNCHANGED clientVars

ProviderOperator == OperatorStep /\ UNCHANGED clientVars

ConsumerLeaves(c) == Offboard(c) /\ UNCHANGED clientVars

ClientCluster ==
  /\ \/ Client!OtherOfferingInstalled
     \/ Client!StorageClientGone
     \/ \E config \in Configs : Client!TamperWithStorageClient(config)
  /\ UNCHANGED consumerVars

KindsInit == Init /\ client = Client!NoStorageClient /\ cClient = Client!NoStorageClient

KindsNext ==
  \/ Worker
  \/ FailureOrCrash
  \/ Events
  \/ Olm
  \/ ResyncStep
  \/ User
  \/ HoldReleased
  \/ ProviderCluster
  \/ ProviderOperator
  \/ \E c \in Consumers : ConsumerLeaves(c)
  \/ ClientCluster

KindsSpec == KindsInit /\ [][KindsNext]_kindVars

\* As for each kind; and the resync comes round.
KindsFairness ==
  /\ WF_kindVars(Worker)
  /\ WF_kindVars(Events)
  /\ WF_kindVars(HoldReleased)
  /\ WF_kindVars(Olm)
  /\ WF_kindVars(ResyncStep)
  /\ WF_kindVars(ProviderOperator)
  /\ \A c \in Consumers : WF_kindVars(ConsumerLeaves(c))

FairKinds == KindsSpec /\ KindsFairness

-----------------------------------------------------------------------------
(* Correctness.  ImplementsLifecycle, of module DataFoundation, is a       *)
(* property of this module too: with caches up to date, whatever the Kind  *)
(* is edited to, the offering is taken through its lifecycle.              *)

\* A client offering with a StorageCluster from the time it was a provider: the deletion
\* branch of dfcReconcile does not delete it, and dfIsReadyToBeRemoved waits for it.
Orphaned == off.config.kind = "DFC" /\ sc.st = "present"

\* A deletion is not forgotten, whatever the Kind was and has become, whatever failed and
\* however old the copies were that reconciles of either plugin worked from: with no event
\* under way the reconciler is at rest with the finalizer in place only while it waits for
\* a StorageCluster that is being deleted or is not Ready, or if a change of Kind has
\* orphaned the StorageCluster.
KindsSettled ==
  Quiescent /\ off.st = "deleting" /\ off.fin =>
    sc.st = "deleting" \/ (sc.st = "present" /\ ~sc.ready) \/ Orphaned

\* A deleted offering of either Kind goes away once the StorageCluster CRD is there (without
\* it dfIsReadyToBeRemoved fails for ever), whatever its configuration is and however far
\* its installation came: unless there is a StorageCluster that nobody deletes, because the
\* configuration cannot be parsed or a change of Kind has orphaned it.
RemovedWhateverKind ==
  off.st = "deleting" /\ "storageclusters" \in crds ~>
    off.st = "absent" \/ (sc.st = "present" /\ ~off.config.valid) \/ Orphaned

\* What the plugin of a Kind reconciles, given a configuration it accepts.
Reconciled(config) ==
  IF config.kind = "DF" THEN IF Usable(config) THEN DFChildren ELSE {}
  ELSE IF config.valid /\ Client!HasAddress(config) THEN Client!DFCChildren ELSE {}

\* The object it is all for is as the configuration wants it.
Serves(config) ==
  IF config.kind = "DF" THEN sc.st = "present" /\ sc.count >= DesiredDeviceSetCount(config)
  ELSE client.st = "present" /\ Client!SameAddress(client, config)

\* What the user asks for by now is put in place in the end, while the offering is active
\* and its configuration usable: the StorageCluster of the size or the StorageClient with the
\* address, and every managed resource, also those somebody changed or an edit of the Kind put
\* out of date and those that have no controller owner (the CSVs) and whose changes wake
\* nobody: at the latest after a resync, across the restarts that the CRDs of the new Kind
\* take, failures and crashes.
AppliedWhateverKind ==
  off.st = "active" /\ Reconciled(off.config) # {} ~>
    \/ off.st # "active"
    \/ Reconciled(off.config) = {}
    \/ Reconciled(off.config) \subseteq good /\ Serves(off.config)

\* No StorageClient is made for an offering that is gone, has given up its finalizer or lives
\* in a namespace being deleted, although its Kind may have changed since the copy was taken.
NoResurrectionWhateverKind == Client!NoResurrection

\* The plugin of either Kind makes its StorageCluster or StorageClient only in a process
\* that watches it, although the CRDs of the other Kind were all it needed when it started.
BothWatched ==
  /\ StorageClusterWatched
  /\ Client!StorageClientWatched
=============================================================================
