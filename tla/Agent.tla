-------------------------------- MODULE Agent --------------------------------
(***************************************************************************)
(* The whole agent: the ManagedFusion reconciler together with the         *)
(* offering reconciler, two controllers of one process that meet in the    *)
(* ManagedFusionOfferings and share one fate: the ManagedFusion reconciler *)
(* deletes the namespace they both run in (main.go).                       *)
(*                                                                         *)
(* The ManagedFusion reconciler is module ManagedFusion as it stands.  The *)
(* offering reconciler is NOT modelled again here: each offering is taken  *)
(* through the steps of module OfferingLifecycle, one behaviour of it per  *)
(* offering.  That the code keeps to these steps is what DataFoundation,   *)
(* DataFoundationClient and OfferingKinds show; nothing in this module is  *)
(* evidence for it.  OfferingLifecycle promises no progress: that an       *)
(* offering is released in the end is assumed only of those that nothing   *)
(* obstructs, see obstructed.                                              *)
(***************************************************************************)
EXTENDS ManagedFusion

CONSTANT Users     \* the clusters that may consume an offering's storage

VARIABLES
  guarded,         \* per offering, as in OfferingLifecycle; offs is its life
  storage,
  users,
  obstructed,      \* the deleted offerings that cannot be released as things are
  up               \* is the agent's process, or its next incarnation, still there?

lifeVars == <<guarded, storage, users, obstructed>>
systemVars == <<vars, lifeVars, up>>

InUse(o) == storage[o] \in {"serving", "draining"}

-----------------------------------------------------------------------------
(* The offering reconciler, in the steps of OfferingLifecycle: the effect  *)
(* of a whole reconcile, or of several, on what the other controller sees. *)

\* It runs only while the process does, and leaves the other controller alone.
OfferingWorker == up /\ UNCHANGED <<vars, up>>

Guard(o) ==
  /\ offs[o] = "active"
  /\ ~guarded[o]
  /\ guarded' = [guarded EXCEPT ![o] = TRUE]
  /\ UNCHANGED <<storage, users, obstructed>>
  /\ OfferingWorker

Provision(o) ==
  /\ offs[o] \in {"active", "deleting"}
  /\ guarded[o]
  /\ storage[o] = "none"
  /\ storage' = [storage EXCEPT ![o] = "serving"]
  /\ UNCHANGED <<guarded, users, obstructed>>
  /\ OfferingWorker

Drain(o) ==
  /\ offs[o] = "deleting"
  /\ o \notin obstructed
  /\ storage[o] = "serving"
  /\ users[o] = {}
  /\ storage' = [storage EXCEPT ![o] = "draining"]
  /\ UNCHANGED <<guarded, users, obstructed>>
  /\ OfferingWorker

\* The agent lets go; an offering that somebody else's finalizer still holds is obstructed.
Release(o) ==
  /\ up
  /\ offs[o] = "deleting"
  /\ o \notin obstructed
  /\ guarded[o]
  /\ ~InUse(o)
  /\ guarded' = [guarded EXCEPT ![o] = FALSE]
  /\ WriteOfferings([offs EXCEPT ![o] = "gone"])
  /\ UNCHANGED <<storage, users, obstructed, up>>
  /\ UNCHANGED <<secret, cSecret, res, cidr, ns, late, workerVars, faults>>

InstallOffering(o) == Guard(o) \/ Provision(o)

RemoveOffering(o) == Drain(o) \/ Release(o)

-----------------------------------------------------------------------------
(* Around the agent.                                                       *)

\* The ocs-operator lives in the offering's namespace, and consumers in other clusters.
Elsewhere == UNCHANGED <<vars, up>>

Attach(o, u) ==
  /\ offs[o] = "active"
  /\ storage[o] = "serving"
  /\ u \notin users[o]
  /\ users' = [users EXCEPT ![o] = @ \cup {u}]
  /\ UNCHANGED <<guarded, storage, obstructed>>
  /\ Elsewhere

Detach(o, u) ==
  /\ u \in users[o]
  /\ users' = [users EXCEPT ![o] = @ \ {u}]
  /\ UNCHANGED <<guarded, storage, obstructed>>
  /\ Elsewhere

Decommission(o) ==
  /\ storage[o] = "draining"
  /\ storage' = [storage EXCEPT ![o] = "removed"]
  /\ UNCHANGED <<guarded, users, obstructed>>
  /\ Elsewhere

\* The API server drops a deleted offering that nobody guards.
Vanish(o) ==
  /\ ~guarded[o]
  /\ o \notin obstructed
  /\ OfferingGone(o)
  /\ UNCHANGED <<lifeVars, up>>

\* What keeps a deleted offering from being released, whatever the agent does: the cluster
\* has no StorageCluster CRD, so that dfIsReadyToBeRemoved fails; Spec.Config was edited
\* into something that is not YAML, so that the StorageCluster is not deleted; a change of
\* Kind has orphaned the StorageCluster; or there is a finalizer of somebody else.  Each may
\* arise, and each may go away again.
Obstruct(o) ==
  /\ offs[o] = "deleting"
  /\ o \notin obstructed
  /\ obstructed' = obstructed \cup {o}
  /\ UNCHANGED <<guarded, storage, users>>
  /\ Elsewhere

Unobstruct(o) ==
  /\ o \in obstructed
  /\ obstructed' = obstructed \ {o}
  /\ UNCHANGED <<guarded, storage, users>>
  /\ Elsewhere

\* The namespace controller gets to the agent's pod: both controllers stop for good, each
\* in the middle of whatever it is doing.
AgentKilled ==
  /\ ns = "terminating"
  /\ up
  /\ up' = FALSE
  /\ UNCHANGED <<vars, lifeVars>>

-----------------------------------------------------------------------------
SystemInit ==
  /\ Init
  /\ guarded = [o \in Offerings |-> FALSE]
  /\ storage = [o \in Offerings |-> "none"]
  /\ users = [o \in Offerings |-> {}]
  /\ obstructed = {}
  /\ up = TRUE

\* What ManagedFusion's process does, and what happens to its secret and offerings.
ManagedFusionStep == up /\ AgentStep /\ UNCHANGED <<lifeVars, up>>

ProcessFault == up /\ (ApiFailure \/ Crash) /\ UNCHANGED <<lifeVars, up>>

Resync == up /\ (MonitorEvent \/ ResyncSecret) /\ UNCHANGED <<lifeVars, up>>

UserStep ==
  /\ \/ \E data \in SecretData : UserCreateSecret(data) \/ UserEditSecret(data)
     \/ UserDeleteSecret
     \/ \E o \in Offerings : CreateOffering(o) \/ UserDeleteOffering(o)
  /\ UNCHANGED <<lifeVars, up>>

SystemNext ==
  \/ ManagedFusionStep
  \/ ProcessFault
  \/ Resync
  \/ UserStep
  \/ \E o \in Offerings : InstallOffering(o) \/ RemoveOffering(o)
  \/ \E o \in Offerings : Vanish(o) \/ Decommission(o) \/ Obstruct(o) \/ Unobstruct(o)
  \/ \E o \in Offerings, u \in Users : Attach(o, u) \/ Detach(o, u)
  \/ AgentKilled

SystemSpec == SystemInit /\ [][SystemNext]_systemVars

\* The ManagedFusion worker runs while the process does, the resync comes round, and the
\* namespace controller gets to the pod.  Consumers leave and the ocs-operator cleans up.
\* Of the offering reconciler it is assumed that it goes on removing an offering that
\* nothing obstructs (OfferingRemoved in DataFoundation and RemovedWhateverKind in
\* OfferingKinds, whose premises and exceptions obstructed stands for).
SystemFairness ==
  /\ WF_systemVars(ManagedFusionStep)
  /\ WF_systemVars(Resync)
  /\ WF_systemVars(AgentKilled)
  /\ \A o \in Offerings :
       /\ WF_systemVars(RemoveOffering(o))
       /\ WF_systemVars(Decommission(o))
       /\ WF_systemVars(Vanish(o))
       /\ \A u \in Users : WF_systemVars(Detach(o, u))

FairSystem == SystemSpec /\ SystemFairness

-----------------------------------------------------------------------------
(* Correctness.                                                            *)

\* No storage is left with nobody to remove it: when the process is gone for good, storage
\* still serves or drains only for an offering created after the last list had found none.
\* The finalizer of one controller is what the other one's list waits for.
StorageNotStranded ==
  ~up => \A o \in Offerings : InUse(o) => o \in late

\* A deleted offering that cannot be released.
HeldUp == \E o \in Offerings : offs[o] = "deleting" /\ o \in obstructed

\* The secret was released, but the delete of the namespace that comes next failed or the
\* process died before it: no reconcile tries again, because the secret is gone.
Abandoned == secret.st = "absent" /\ ns = "active" /\ pc = "idle" /\ faults < MaxFaults

\* Deleting the secret uninstalls the agent in the end, also if deletes of offerings fail or
\* the process dies in the loop: every offering is asked to go, its consumers leave, its
\* storage is drained, and the process goes with its namespace; unless the secret cannot be
\* parsed, an offering cannot be released, or a failure came in the one place for which the
\* code has no retry, between the update that releases the secret and the delete of the
\* namespace.
Uninstalled ==
  secret.st = "deleting" ~> ~up \/ ~Readable(secret.data) \/ HeldUp \/ Abandoned
=============================================================================
