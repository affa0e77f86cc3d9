--------------------------- MODULE OfferingProofs ---------------------------
(***************************************************************************)
(* What is proved once for both kinds of offering: how the live offering,  *)
(* the informer's copy of it and the worker's copy may change in a step    *)
(* (OfferingMove), and what every such step preserves.  The modules of the *)
(* two kinds show that their steps are of this form and use the rest.      *)
(***************************************************************************)
EXTENDS Offering, TLAPS

USE DEF apiVars, cacheVars, workerVars

\* A configuration can be chosen: the objects that stand for "none" are objects.
LEMMA NullObjects == NoOffering \in OfferingObj /\ NoStorageCluster \in StorageClusterObj
<1>1. AnyConfig \in Configs
  BY OfferingAssumption DEF AnyConfig
<1> QED
  BY <1>1 DEF NoOffering, OfferingObj, NoStorageCluster, StorageClusterObj

\* The fields of an offering have their types.
LEMMA OfferingFields ==
  ASSUME NEW o \in OfferingObj
  PROVE  /\ o.st \in {"absent", "active", "deleting"} /\ o.fin \in BOOLEAN /\ o.hold \in BOOLEAN
         /\ o.config \in Configs /\ o.rv \in Nat
BY DEF OfferingObj

\* What an event does to the queue is a truth value.
LEMMA QueuedType == QueuedByOffering \in BOOLEAN /\ QueuedByStorageCluster \in BOOLEAN
BY Zenon DEF QueuedByOffering, QueuedByStorageCluster

\* The offering and its two copies are offerings.
OfferingTypes == off \in OfferingObj /\ cOff \in OfferingObj /\ snap \in OfferingObj

\* An accepted write keeps the offering's type, in the API server and in the cache.
LEMMA WriteOfferingType ==
  ASSUME OfferingTypes, NEW st \in {"absent", "active", "deleting"}, NEW fin \in BOOLEAN,
         NEW hold \in BOOLEAN, NEW config \in Configs, WriteOffering(st, fin, hold, config)
  PROVE  off' \in OfferingObj /\ cOff' \in OfferingObj
<1>1. off.rv + 1 \in Nat
  BY OfferingFields DEF OfferingTypes
<1>2. off' \in OfferingObj
  BY <1>1 DEF WriteOffering, OfferingObj
<1> QED
  BY <1>2 DEF WriteOffering, OfferingTypes

\* What an accepted write leaves behind.
LEMMA WrittenOffering ==
  ASSUME NEW st, NEW fin, NEW hold, NEW config, WriteOffering(st, fin, hold, config)
  PROVE  /\ off'.st = st /\ off'.fin = fin /\ off'.rv = off.rv + 1
         /\ cOff' = cOff \/ cOff' = off'
BY DEF WriteOffering

-----------------------------------------------------------------------------
(* The invariants.                                                         *)

\* The phases of the two branches, of both plugins.
ActivePhases == {"addFinalizer", "operatorGroup", "catalogSource", "subscription",
                 "onboardingSecret", "storageCluster", "monitors", "csv", "cephIngress",
                 "providerAPIServer", "rookConfig", "ocsInitialization",
                 "clientCsv", "storageClient", "blockClaim", "fsClaim", "kmsConfig"}

DeletionPhases == {"isReadyToBeRemoved", "removeFinalizer", "deleteNamespace",
                   "getStorageCluster", "listStorageConsumers", "deleteStorageCluster"}

\* Which copy a phase works from: the active branch from an active one, which has the
\* finalizer from the second phase on, the deletion branch from a deleted one.
PhaseInv ==
  /\ pc = "idle" => snap.st = "absent"
  /\ pc \in ActivePhases => snap.st = "active"
  /\ pc \in DeletionPhases => snap.st = "deleting"
  /\ pc \in {"unmarshal", "pluginReconcile"} => snap.st # "absent"
  /\ pc # "addFinalizer" /\ snap.st = "active" => snap.fin

\* Copies are never ahead of the offering, and a current copy is the offering.
VersionInv ==
  /\ off.st # "absent" => off.rv > 0
  /\ cOff.rv <= off.rv
  /\ cOff.rv = off.rv => cOff = off
  /\ snap.st = "active" => snap.rv <= off.rv
  /\ snap.st = "active" /\ snap.rv = off.rv => snap = off

\* A deletion once seen is final.
DeletionFinal ==
  /\ cOff.st = "deleting" => off.rv > 0 /\ off.st # "active"
  /\ snap.st = "deleting" => off.rv > 0 /\ off.st # "active" /\ cOff.st # "active"

\* An active copy with the finalizer, however old, says that the offering has it still.
FinalizerHeld ==
  /\ cOff.st = "active" /\ cOff.fin => off.st # "absent" /\ off.fin
  /\ snap.st = "active" /\ snap.fin => off.st # "absent" /\ off.fin

FinalizerInv == PhaseInv /\ VersionInv /\ DeletionFinal /\ FinalizerHeld

\* A copy of a deleted offering without the finalizer, however old, says that the offering
\* does not have it; the namespace is deleted from such a copy.
ReleasedInv ==
  /\ cOff.st = "deleting" /\ ~cOff.fin => ~off.fin
  /\ snap.st = "deleting" /\ ~snap.fin => ~off.fin
  /\ pc = "deleteNamespace" => ~snap.fin
  /\ ns = "terminating" => off.rv > 0 /\ off.st # "active" /\ ~off.fin

\* The invariants hold initially.
LEMMA OfferingInvInit == OfferingInit => FinalizerInv /\ ReleasedInv
BY DEF OfferingInit, NoOffering, FinalizerInv, PhaseInv, VersionInv, DeletionFinal,
       FinalizerHeld, ActivePhases, DeletionPhases, ReleasedInv

-----------------------------------------------------------------------------
(* The steps.                                                              *)

\* What a step may do to the offering, its cached copy and the worker's copy.
OfferingKept ==
  /\ off' = off
  /\ \/ cOff' = cOff
     \/ cOff' = off /\ (queued' \/ off.st = "absent")

\* The worker goes on from the same copy, or returns.
WorkerMoves == /\ OfferingKept
               /\ (snap' = snap /\ PhaseInv') \/ (pc' = "idle" /\ snap' = NoOffering)

\* The worker takes a copy and chooses the branch.
CopyTaken == /\ OfferingKept
             /\ snap' = cOff
             /\ (pc' = "addFinalizer" /\ cOff.st = "active")
                  \/ (pc' = "isReadyToBeRemoved" /\ cOff.st = "deleting")

\* The two updates of the offering by the worker.
FinalizerAdded == /\ pc = "addFinalizer" /\ pc' = "operatorGroup"
                  /\ UpdateAccepted(snap, off)
                  /\ WriteOffering(off.st, TRUE, off.hold, off.config)
                  /\ snap' = off'
                  /\ queued' = QueuedByOffering

FinalizerRemoved ==
  /\ pc = "removeFinalizer" /\ pc' = "deleteNamespace"
  /\ snap.fin
  /\ UpdateAccepted(snap, off)
  /\ WriteOffering(IF off.hold THEN "deleting" ELSE "absent", FALSE, off.hold, off.config)
  /\ snap' = [st |-> "deleting", fin |-> FALSE, hold |-> off.hold, config |-> off.config,
              rv |-> off.rv + 1]
  /\ queued' = QueuedByOffering

\* Writes by others: the creation, and writes that leave the finalizer alone, do not undo
\* a deletion and make the offering go only if it has no finalizer of the agent.
OfferingCreated == /\ off.st = "absent" /\ off.rv = 0
                   /\ \E hold \in BOOLEAN, config \in Configs :
                        WriteOffering("active", FALSE, hold, config)
                   /\ queued' = QueuedByOffering
                   /\ UNCHANGED <<pc, snap>>

OfferingTouched == /\ off.st # "absent"
                   /\ \E st \in {"absent", "active", "deleting"}, hold \in BOOLEAN,
                         config \in Configs :
                        /\ WriteOffering(st, off.fin, hold, config)
                        /\ st = "active" => off.st = "active"
                        /\ st = "absent" => ~off.fin
                   /\ queued' = QueuedByOffering
                   /\ UNCHANGED <<pc, snap>>

OfferingMove ==
  \/ WorkerMoves \/ CopyTaken \/ FinalizerAdded \/ FinalizerRemoved
  \/ OfferingCreated \/ OfferingTouched

\* How the worker gets to the phases that give up the finalizer and the namespace.
RemovalMove ==
  /\ pc' = "removeFinalizer" => pc = "removeFinalizer" \/ IsReadyToBeRemoved
  /\ pc' = "deleteNamespace" => pc = "deleteNamespace" \/ RemoveFinalizer
  /\ ns' # ns => DeleteNamespace /\ ns' = "terminating"

\* A step that leaves the worker alone and changes the cached copy at most is a move.
LEMMA WorkerWaits ==
  ASSUME PhaseInv, OfferingKept, UNCHANGED <<pc, snap>>
  PROVE  OfferingMove
BY DEF OfferingMove, WorkerMoves, PhaseInv

\* Every phase of the common part is a move of this kind.
LEMMA PhaseMoves ==
  ASSUME OfferingTypes, PhaseInv, OfferingPhase
  PROVE  OfferingMove
<1> USE DEF GoTo, Done, Proceed, Requeue, OfferingMove
<1>a. /\ off.st \in {"absent", "active", "deleting"} /\ cOff.st \in {"absent", "active", "deleting"}
      /\ snap.st \in {"absent", "active", "deleting"}
  BY OfferingFields DEF OfferingTypes
<1>1. CASE Reconcile
  BY <1>a, <1>1 DEF Reconcile, WorkerMoves, OfferingKept, CopyTaken, PhaseInv, ActivePhases,
                    DeletionPhases
<1>2. CASE AddFinalizer
  BY <1>2 DEF AddFinalizer, WorkerMoves, OfferingKept, FinalizerAdded, PhaseInv, ActivePhases,
              DeletionPhases
<1>3. CASE ReconcileOperatorGroup \/ ReconcileCatalogSource \/ ReconcileSubscription
  BY <1>3 DEF ReconcileOperatorGroup, ReconcileCatalogSource, ReconcileSubscription,
              CreateOrUpdate, WorkerMoves, OfferingKept, PhaseInv, ActivePhases, DeletionPhases
<1>4. CASE IsReadyToBeRemoved
  BY <1>4 DEF IsReadyToBeRemoved, WorkerMoves, OfferingKept, PhaseInv, ActivePhases,
              DeletionPhases
<1>5. CASE RemoveFinalizer
  BY <1>5 DEF RemoveFinalizer, WorkerMoves, OfferingKept, FinalizerRemoved, PhaseInv,
              ActivePhases, DeletionPhases
<1>6. CASE DeleteNamespace \/ UnmarshalConfig
  BY <1>6 DEF DeleteNamespace, UnmarshalConfig, WorkerMoves, OfferingKept, PhaseInv,
              ActivePhases, DeletionPhases
<1> QED
  BY <1>1, <1>2, <1>3, <1>4, <1>5, <1>6 DEF OfferingPhase

\* So are the failures, the events and what users do to the offering.
LEMMA EnvironmentMoves ==
  ASSUME OfferingTypes, PhaseInv,
         \/ ApiFailure \/ Crash
         \/ OfferingInformer \/ StorageClusterInformer \/ ResyncOffering
         \/ \E config \in Configs, hold \in Holds : UserCreate(config, hold)
         \/ \E config \in Configs : \E stale : UserEdit(config, stale)
         \/ UserDelete \/ ReleaseHold
         \/ \E child, watched : Drift(child, watched)
         \/ \E crd : InstallCrd(crd)
         \/ \E obj, needed : InstallObject(obj, needed)
  PROVE  OfferingMove
<1>a. off.st \in {"absent", "active", "deleting"} /\ off.hold \in BOOLEAN /\ off.config \in Configs
  BY OfferingFields DEF OfferingTypes
<1>1. CASE ApiFailure \/ Crash
  BY <1>1 DEF ApiFailure, Requeue, Crash, Restart, OfferingMove, WorkerMoves, OfferingKept
<1>2. CASE OfferingInformer \/ StorageClusterInformer \/ ResyncOffering
  BY <1>2, WorkerWaits DEF OfferingInformer, StorageClusterInformer, ResyncOffering, OfferingKept
<1>3. CASE \E config \in Configs, hold \in Holds : UserCreate(config, hold)
  BY <1>3, OfferingAssumption DEF UserCreate, OfferingCreated, OfferingMove
<1>4. CASE \E config \in Configs : \E stale : UserEdit(config, stale)
  BY <1>a, <1>4 DEF UserEdit, OfferingTouched, OfferingMove
<1>5. CASE UserDelete
  BY <1>a, <1>5 DEF UserDelete, OfferingTouched, OfferingMove
<1>6. CASE ReleaseHold
  BY <1>a, <1>6 DEF ReleaseHold, OfferingTouched, OfferingMove
<1>7. CASE \/ \E child, watched : Drift(child, watched)
           \/ \E crd : InstallCrd(crd)
           \/ \E obj, needed : InstallObject(obj, needed)
  BY <1>7, WorkerWaits DEF Drift, InstallCrd, InstallObject, OfferingKept
<1> QED
  BY <1>1, <1>2, <1>3, <1>4, <1>5, <1>6, <1>7

\* The same steps reach the end of the deletion branch in order only.
LEMMA CommonRemoval ==
  ASSUME \/ OfferingPhase \/ ApiFailure \/ Crash
         \/ OfferingInformer \/ StorageClusterInformer \/ ResyncOffering
         \/ \E config \in Configs, hold \in Holds : UserCreate(config, hold)
         \/ \E config \in Configs : \E stale : UserEdit(config, stale)
         \/ UserDelete \/ ReleaseHold
         \/ \E child, watched : Drift(child, watched)
         \/ \E crd : InstallCrd(crd)
         \/ \E obj, needed : InstallObject(obj, needed)
  PROVE  RemovalMove
<1> USE DEF GoTo, Done, Proceed, Requeue, RemovalMove
<1>1. CASE OfferingPhase
  BY <1>1 DEF OfferingPhase, Reconcile, AddFinalizer, ReconcileOperatorGroup,
              ReconcileCatalogSource, ReconcileSubscription, CreateOrUpdate, IsReadyToBeRemoved,
              RemoveFinalizer, DeleteNamespace, UnmarshalConfig
<1>2. CASE ApiFailure \/ Crash \/ OfferingInformer \/ StorageClusterInformer \/ ResyncOffering
  BY <1>2 DEF ApiFailure, Crash, Restart, OfferingInformer, StorageClusterInformer,
              ResyncOffering
<1>3. CASE \/ \E config \in Configs, hold \in Holds : UserCreate(config, hold)
           \/ \E config \in Configs : \E stale : UserEdit(config, stale)
           \/ UserDelete \/ ReleaseHold
  BY <1>3 DEF UserCreate, UserEdit, UserDelete, ReleaseHold
<1>4. CASE \/ \E child, watched : Drift(child, watched)
           \/ \E crd : InstallCrd(crd)
           \/ \E obj, needed : InstallObject(obj, needed)
  BY <1>4 DEF Drift, InstallCrd, InstallObject
<1> QED
  BY <1>1, <1>2, <1>3, <1>4

-----------------------------------------------------------------------------
(* What a move preserves.                                                  *)

\* Every move keeps the types of the offering and its copies.
LEMMA OfferingTypesKept == OfferingTypes /\ OfferingMove => OfferingTypes'
<1> SUFFICES ASSUME OfferingTypes, OfferingMove PROVE OfferingTypes'
  OBVIOUS
<1>a. /\ off.st \in {"absent", "active", "deleting"} /\ off.fin \in BOOLEAN /\ off.hold \in BOOLEAN
      /\ off.config \in Configs /\ off.rv \in Nat
  BY OfferingFields DEF OfferingTypes
<1>1. CASE WorkerMoves \/ CopyTaken
  BY <1>1, NullObjects DEF WorkerMoves, CopyTaken, OfferingKept, OfferingTypes
<1>2. CASE FinalizerAdded
  BY <1>a, <1>2, WriteOfferingType DEF FinalizerAdded, OfferingTypes
<1>3. CASE FinalizerRemoved
  <2>1. off' \in OfferingObj /\ cOff' \in OfferingObj
    BY <1>a, <1>3, WriteOfferingType DEF FinalizerRemoved
  <2>2. off.rv + 1 \in Nat
    BY <1>a
  <2>3. snap' \in OfferingObj
    BY <1>a, <1>3, <2>2 DEF FinalizerRemoved, OfferingObj
  <2> QED
    BY <2>1, <2>3 DEF OfferingTypes
<1>4. CASE OfferingCreated
  BY <1>4, WriteOfferingType DEF OfferingCreated, OfferingTypes
<1>5. CASE OfferingTouched
  BY <1>a, <1>5, WriteOfferingType DEF OfferingTouched, OfferingTypes
<1> QED
  BY <1>1, <1>2, <1>3, <1>4, <1>5 DEF OfferingMove

\* Every move keeps the invariant of the finalizer.
LEMMA FinalizerKept == OfferingTypes /\ FinalizerInv /\ OfferingMove => FinalizerInv'
<1> SUFFICES ASSUME OfferingTypes, FinalizerInv, OfferingMove PROVE FinalizerInv'
  OBVIOUS
<1> USE DEF FinalizerInv
<1>a. off.rv \in Nat /\ cOff.rv \in Nat /\ snap.rv \in Nat
  BY OfferingFields DEF OfferingTypes
<1>1. CASE WorkerMoves
  <2>1. PhaseInv'
    BY <1>1 DEF WorkerMoves, NoOffering, PhaseInv, ActivePhases, DeletionPhases
  <2>2. off' = off /\ (cOff' = cOff \/ cOff' = off) /\ (snap' = snap \/ snap'.st = "absent")
    BY <1>1 DEF WorkerMoves, OfferingKept, NoOffering
  <2> QED
    BY <1>a, <2>1, <2>2 DEF VersionInv, DeletionFinal, FinalizerHeld
<1>2. CASE CopyTaken
  <2>1. PhaseInv'
    BY <1>2 DEF CopyTaken, PhaseInv, ActivePhases, DeletionPhases
  <2>2. off' = off /\ (cOff' = cOff \/ cOff' = off) /\ snap' = cOff
    BY <1>2 DEF CopyTaken, OfferingKept
  <2> QED
    BY <1>a, <2>1, <2>2 DEF VersionInv, DeletionFinal, FinalizerHeld
<1>3. CASE FinalizerAdded
  <2>1. snap.st = "active" /\ snap = off
    BY <1>3 DEF FinalizerAdded, UpdateAccepted, PhaseInv, ActivePhases, VersionInv
  <2>2. /\ off'.st = "active" /\ off'.fin = TRUE /\ off'.rv = off.rv + 1
        /\ cOff' = cOff \/ cOff' = off'
    BY <1>3, <2>1, WrittenOffering DEF FinalizerAdded
  <2>3. pc' = "operatorGroup" /\ snap' = off'
    BY <1>3 DEF FinalizerAdded
  <2>4. PhaseInv'
    BY <2>2, <2>3 DEF PhaseInv, ActivePhases, DeletionPhases
  <2>5. cOff.st # "deleting"
    BY <2>1 DEF DeletionFinal
  <2> QED
    BY <1>a, <2>2, <2>3, <2>4, <2>5 DEF VersionInv, DeletionFinal, FinalizerHeld
<1>4. CASE FinalizerRemoved
  <2>1. snap.st = "deleting"
    BY <1>4 DEF FinalizerRemoved, PhaseInv, DeletionPhases
  <2>2. cOff.st # "active" /\ off.st # "active"
    BY <2>1 DEF DeletionFinal
  <2>3. /\ off'.st \in {"deleting", "absent"} /\ off'.rv = off.rv + 1
        /\ cOff' = cOff \/ cOff' = off'
    BY <1>4, WrittenOffering DEF FinalizerRemoved
  <2>4. pc' = "deleteNamespace" /\ snap'.st = "deleting"
    BY <1>4 DEF FinalizerRemoved
  <2>5. PhaseInv'
    BY <2>4 DEF PhaseInv, ActivePhases, DeletionPhases
  <2> QED
    BY <1>a, <2>2, <2>3, <2>4, <2>5 DEF VersionInv, DeletionFinal, FinalizerHeld
<1>5. CASE OfferingCreated
  <2>1. /\ off.st = "absent" /\ off.rv = 0 /\ pc' = pc /\ snap' = snap
        /\ off'.st = "active" /\ off'.fin = FALSE /\ off'.rv = off.rv + 1
        /\ cOff' = cOff \/ cOff' = off'
    BY <1>5, WrittenOffering DEF OfferingCreated
  <2> QED
    BY <1>a, <2>1 DEF PhaseInv, VersionInv, DeletionFinal, FinalizerHeld
<1>6. CASE OfferingTouched
  <2>1. /\ off.st # "absent" /\ pc' = pc /\ snap' = snap
        /\ off'.st = "active" => off.st = "active"
        /\ off'.st = "absent" => ~off.fin
        /\ off'.fin = off.fin /\ off'.rv = off.rv + 1
        /\ cOff' = cOff \/ cOff' = off'
    BY <1>6, WrittenOffering DEF OfferingTouched
  <2> QED
    BY <1>a, <2>1 DEF PhaseInv, VersionInv, DeletionFinal, FinalizerHeld
<1> QED
  BY <1>1, <1>2, <1>3, <1>4, <1>5, <1>6 DEF OfferingMove

\* The finalizer, once given up, does not come back.
LEMMA ReleasedKept ==
  OfferingTypes /\ FinalizerInv /\ ReleasedInv /\ OfferingMove /\ RemovalMove => ReleasedInv'
<1> SUFFICES ASSUME OfferingTypes, FinalizerInv, ReleasedInv, OfferingMove, RemovalMove
             PROVE  ReleasedInv'
  OBVIOUS
<1>a. off.rv \in Nat /\ off.fin \in BOOLEAN /\ cOff.fin \in BOOLEAN /\ snap.fin \in BOOLEAN
  BY OfferingFields DEF OfferingTypes
<1>b. ns' = ns \/ (DeleteNamespace /\ ns' = "terminating")
  BY DEF RemovalMove
<1>c. CASE DeleteNamespace
  <2>1. pc = "deleteNamespace" /\ snap' = snap /\ off' = off /\ cOff' = cOff /\ pc' = "unmarshal"
    BY <1>c DEF DeleteNamespace, GoTo
  <2> QED
    BY <1>a, <2>1 DEF ReleasedInv, FinalizerInv, PhaseInv, DeletionPhases, DeletionFinal
<1>d. CASE ns' = ns
  <2>1. ASSUME pc' = "deleteNamespace" PROVE ~snap'.fin
    <3>1. CASE RemoveFinalizer
      <4>1. \/ ~snap.fin /\ snap' = snap
            \/ snap' = [st |-> "deleting", fin |-> FALSE, hold |-> off.hold,
                        config |-> off.config, rv |-> off.rv + 1]
        BY <2>1, <3>1 DEF RemoveFinalizer, GoTo, Requeue
      <4>2. [st |-> "deleting", fin |-> FALSE, hold |-> off.hold, config |-> off.config,
             rv |-> off.rv + 1].fin = FALSE
        OBVIOUS
      <4> QED
        BY <4>1, <4>2
    <3>2. CASE pc = "deleteNamespace" /\ snap' = snap
      BY <3>2 DEF ReleasedInv
    <3>3. pc = "deleteNamespace" => snap' = snap
      BY <2>1 DEF OfferingMove, WorkerMoves, CopyTaken, FinalizerAdded, FinalizerRemoved,
                  OfferingCreated, OfferingTouched
    <3> QED
      BY <2>1, <3>1, <3>2, <3>3 DEF RemovalMove
  <2>2. CASE WorkerMoves \/ CopyTaken
    <3>1. off' = off /\ (cOff' = cOff \/ cOff' = off)
          /\ (snap' = snap \/ snap' = cOff \/ snap'.st = "absent")
      BY <2>2 DEF WorkerMoves, CopyTaken, OfferingKept, NoOffering
    <3> QED
      BY <1>d, <2>1, <3>1 DEF ReleasedInv
  <2>3. CASE FinalizerAdded
    <3>1. snap.st = "active" /\ snap = off
      BY <2>3 DEF FinalizerAdded, UpdateAccepted, FinalizerInv, PhaseInv, ActivePhases, VersionInv
    <3>2. /\ off'.st = "active" /\ off'.rv = off.rv + 1 /\ snap' = off'
          /\ cOff' = cOff \/ cOff' = off'
      BY <2>3, <3>1, WrittenOffering DEF FinalizerAdded
    <3>3. cOff.st # "deleting" /\ ns # "terminating"
      BY <3>1 DEF FinalizerInv, DeletionFinal, ReleasedInv
    <3> QED
      BY <1>d, <2>1, <3>2, <3>3 DEF ReleasedInv
  <2>4. CASE FinalizerRemoved
    <3>1. off'.st \in {"deleting", "absent"} /\ off'.rv = off.rv + 1
      BY <2>4, WrittenOffering DEF FinalizerRemoved
    <3>2. off'.fin = FALSE
      BY <2>4, WrittenOffering, Zenon DEF FinalizerRemoved
    <3> QED
      BY <1>a, <2>1, <3>1, <3>2 DEF ReleasedInv
  <2>5. CASE OfferingCreated
    <3>1. /\ off.rv = 0 /\ snap' = snap /\ off'.fin = FALSE
      BY <2>5, WrittenOffering DEF OfferingCreated
    <3>2. ns # "terminating"
      BY <3>1 DEF ReleasedInv
    <3> QED
      BY <1>d, <2>1, <3>1, <3>2 DEF ReleasedInv
  <2>6. CASE OfferingTouched
    <3>1. /\ snap' = snap /\ off'.fin = off.fin /\ off'.rv = off.rv + 1
          /\ off'.st = "active" => off.st = "active"
          /\ cOff' = cOff \/ cOff' = off'
      BY <2>6, WrittenOffering DEF OfferingTouched
    <3> QED
      BY <1>a, <1>d, <2>1, <3>1 DEF ReleasedInv
  <2> QED
    BY <2>2, <2>3, <2>4, <2>5, <2>6 DEF OfferingMove
<1> QED
  BY <1>b, <1>c, <1>d

\* The offering's version never falls, and an offering that was deleted stays so.
LEMMA OfferingGoesOn ==
  ASSUME OfferingTypes, OfferingMove
  PROVE  /\ off.rv > 0 => off'.rv > 0
         /\ off.rv > 0 /\ off.st # "active" => off'.st # "active"
<1>a. off.rv \in Nat
  BY OfferingFields DEF OfferingTypes
<1>1. CASE WorkerMoves \/ CopyTaken
  BY <1>1 DEF WorkerMoves, CopyTaken, OfferingKept
<1>2. CASE FinalizerAdded
  <2>1. off'.st = off.st /\ off'.rv = off.rv + 1
    BY <1>2, WrittenOffering DEF FinalizerAdded
  <2> QED
    BY <1>a, <2>1
<1>3. CASE FinalizerRemoved
  <2>1. off'.st \in {"deleting", "absent"} /\ off'.rv = off.rv + 1
    BY <1>3, WrittenOffering DEF FinalizerRemoved
  <2> QED
    BY <1>a, <2>1
<1>4. CASE OfferingCreated
  BY <1>a, <1>4 DEF OfferingCreated
<1>5. CASE OfferingTouched
  BY <1>a, <1>5, WrittenOffering DEF OfferingTouched
<1> QED
  BY <1>1, <1>2, <1>3, <1>4, <1>5 DEF OfferingMove

\* A write of the offering, or its arrival in the cache, leaves an event.
LEMMA OfferingWriteSeen ==
  ASSUME OfferingTypes, VersionInv, OfferingMove, ~queued', cOff' = off', off'.st # "absent"
  PROVE  off' = off /\ cOff' = cOff
<1>a. off.rv \in Nat /\ cOff.rv \in Nat /\ cOff.rv <= off.rv
  BY OfferingFields DEF OfferingTypes, VersionInv
<1>1. CASE WorkerMoves \/ CopyTaken
  BY <1>1 DEF WorkerMoves, CopyTaken, OfferingKept
<1>2. ASSUME NEW st, NEW fin, NEW hold, NEW config, WriteOffering(st, fin, hold, config),
             queued' = QueuedByOffering
      PROVE  FALSE
  <2>1. CacheLag
    BY <1>2, Zenon DEF QueuedByOffering
  <2>2. cOff' = cOff /\ off'.rv = off.rv + 1
    BY <1>2, <2>1 DEF WriteOffering
  <2> QED
    BY <1>a, <2>2
<1>3. CASE FinalizerAdded \/ FinalizerRemoved \/ OfferingCreated \/ OfferingTouched
  BY <1>2, <1>3 DEF FinalizerAdded, FinalizerRemoved, OfferingCreated, OfferingTouched
<1> QED
  BY <1>1, <1>3 DEF OfferingMove
=============================================================================
