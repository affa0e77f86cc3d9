-------------------------- MODULE OfferingLifecycle --------------------------
(***************************************************************************)
(* What the agent promises of one ManagedFusionOffering, without the       *)
(* phases, caches, retries and restarts it takes to keep the promise:      *)
(*                                                                         *)
(*   - storage is provisioned at most once, and only for an offering that  *)
(*     the agent's finalizer guards;                                       *)
(*   - it is drained only after the offering was asked to go and the last  *)
(*     of the users that came before that has left;                        *)
(*   - the finalizer is given up only with nothing left to serve or drain; *)
(*   - the namespace is reclaimed after that, and never before.            *)
(*                                                                         *)
(* DataFoundation, DataFoundationClient and OfferingKinds implement this   *)
(* module, and Agent relies on it for the offerings it asks to go.         *)
(***************************************************************************)
CONSTANT Users      \* the clusters that may consume the storage

VARIABLES
  life,             \* the ManagedFusionOffering: "none", "active", "deleting", "gone"
  guarded,          \* does it carry the agent's finalizer?
  storage,          \* the StorageCluster: "none", "serving", "draining", "removed"
  users,            \* the consumers that came while the offering was active
  reclaimed         \* is its namespace being deleted?

vars == <<life, guarded, storage, users, reclaimed>>

InUse == storage \in {"serving", "draining"}

Init ==
  /\ life = "none"
  /\ guarded = FALSE
  /\ storage = "none"
  /\ users = {}
  /\ reclaimed = FALSE

Create ==
  /\ life = "none"
  /\ life' = "active"
  /\ UNCHANGED <<guarded, storage, users, reclaimed>>

Guard ==
  /\ life = "active"
  /\ guarded' = TRUE
  /\ UNCHANGED <<life, storage, users, reclaimed>>

\* A reconcile under way may still provision when the offering is asked to go.
Provision ==
  /\ life \in {"active", "deleting"}
  /\ guarded
  /\ storage = "none"
  /\ storage' = "serving"
  /\ UNCHANGED <<life, guarded, users, reclaimed>>

Attach(u) ==
  /\ life = "active"
  /\ storage = "serving"
  /\ users' = users \cup {u}
  /\ UNCHANGED <<life, guarded, storage, reclaimed>>

Detach(u) ==
  /\ users' = users \ {u}
  /\ UNCHANGED <<life, guarded, storage, reclaimed>>

\* An offering that nobody guards may be gone at once.
Ask ==
  /\ life = "active"
  /\ life' \in IF guarded THEN {"deleting"} ELSE {"deleting", "gone"}
  /\ UNCHANGED <<guarded, storage, users, reclaimed>>

Drain ==
  /\ life = "deleting"
  /\ storage = "serving"
  /\ users = {}
  /\ storage' = "draining"
  /\ UNCHANGED <<life, guarded, users, reclaimed>>

Decommission ==
  /\ storage = "draining"
  /\ storage' = "removed"
  /\ UNCHANGED <<life, guarded, users, reclaimed>>

\* The agent lets go; somebody else's finalizer may still hold the offering.
Release ==
  /\ life = "deleting"
  /\ guarded
  /\ ~InUse
  /\ guarded' = FALSE
  /\ life' \in {"deleting", "gone"}
  /\ UNCHANGED <<storage, users, reclaimed>>

Vanish ==
  /\ life = "deleting"
  /\ ~guarded
  /\ life' = "gone"
  /\ UNCHANGED <<guarded, storage, users, reclaimed>>

Reclaim ==
  /\ life \in {"deleting", "gone"}
  /\ ~guarded
  /\ ~InUse
  /\ reclaimed' = TRUE
  /\ UNCHANGED <<life, guarded, storage, users>>

Next ==
  \/ Create \/ Guard \/ Provision \/ Ask
  \/ \E u \in Users : Attach(u) \/ Detach(u)
  \/ Drain \/ Decommission \/ Release \/ Vanish \/ Reclaim

Spec == Init /\ [][Next]_vars
=============================================================================
