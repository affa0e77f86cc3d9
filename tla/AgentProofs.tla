----------------------------- MODULE AgentProofs -----------------------------
(***************************************************************************)
(* Proofs about Agent, the two controllers in one process: for any number  *)
(* of offerings and consumers.                                             *)
(***************************************************************************)
EXTENDS Agent, ManagedFusionProofs

USE DEF apiVars, cacheVars, workerVars

-----------------------------------------------------------------------------
(* The ManagedFusion reconciler behaves in the agent as it does alone.     *)

\* Every step of the agent is one of module ManagedFusion or leaves its state alone; what the
\* offering reconciler does to an offering is what ManagedFusion expects of it.
LEMMA SystemStep == [SystemNext]_systemVars => [Next]_vars
<1> SUFFICES ASSUME SystemNext PROVE [Next]_vars
  BY DEF systemVars, vars
<1>1. CASE ManagedFusionStep \/ ProcessFault \/ Resync \/ UserStep
  BY <1>1 DEF ManagedFusionStep, ProcessFault, Resync, UserStep, Next
<1>2. ASSUME NEW o \in Offerings, \/ InstallOffering(o) \/ RemoveOffering(o) \/ Vanish(o)
                                  \/ Decommission(o) \/ Obstruct(o) \/ Unobstruct(o)
      PROVE  [Next]_vars
  <2>1. CASE Release(o)
    <3>1. OfferingGone(o)
      BY <2>1 DEF Release, OfferingGone
    <3> QED
      BY <3>1 DEF Next
  <2>2. CASE Vanish(o)
    BY <2>2 DEF Vanish, Next
  <2>3. CASE Guard(o) \/ Provision(o) \/ Drain(o) \/ Decommission(o) \/ Obstruct(o) \/ Unobstruct(o)
    BY <2>3 DEF Guard, Provision, Drain, Decommission, Obstruct, Unobstruct, OfferingWorker,
                Elsewhere
  <2> QED
    BY <1>2, <2>1, <2>2, <2>3 DEF InstallOffering, RemoveOffering
<1>3. ASSUME NEW o \in Offerings, NEW u \in Users, Attach(o, u) \/ Detach(o, u)
      PROVE  [Next]_vars
  BY <1>3 DEF Attach, Detach, Elsewhere
<1>4. CASE AgentKilled
  BY <1>4 DEF AgentKilled
<1> QED
  BY <1>1, <1>2, <1>3, <1>4 DEF SystemNext

\* So the agent implements ManagedFusion, and what is proved there holds of it.
THEOREM ManagedFusionUnchanged == SystemSpec => Spec
<1>1. SystemInit => Init
  BY DEF SystemInit
<1> QED
  BY <1>1, SystemStep, PTL DEF SystemSpec, Spec

-----------------------------------------------------------------------------
(* The offerings between the two controllers.                              *)

\* The types of what Agent adds.
SystemTypeOK ==
  /\ guarded \in [Offerings -> BOOLEAN]
  /\ storage \in [Offerings -> {"none", "serving", "draining", "removed"}]
  /\ users \in [Offerings -> SUBSET Users]
  /\ obstructed \subseteq Offerings
  /\ up \in BOOLEAN

\* Storage in use is guarded by the finalizer, a guarded offering is still there, and the
\* process ends only with its namespace.
HeldInv ==
  /\ \A o \in Offerings : InUse(o) => guarded[o]
  /\ \A o \in Offerings : guarded[o] => offs[o] \in {"active", "deleting"}
  /\ ~up => ns = "terminating"

\* A step that leaves the offering reconciler alone.
LifeKept == UNCHANGED <<guarded, storage, users, obstructed, up>>

\* What ManagedFusion, its users and its failures may do to an offering: it is created, or
\* asked to go.
LEMMA OfferingsMoved ==
  ASSUME TypeOK, ManagedFusionStep \/ ProcessFault \/ Resync \/ UserStep
  PROVE  /\ LifeKept
         /\ ns' = ns \/ ns' = "terminating"
         /\ \A o \in Offerings : \/ offs'[o] = offs[o]
                                 \/ offs[o] = "none" /\ offs'[o] = "active"
                                 \/ offs[o] = "active" /\ offs'[o] = "deleting"
<1>0. LifeKept
  BY DEF ManagedFusionStep, ProcessFault, Resync, UserStep, lifeVars, LifeKept
<1>1. ASSUME UNCHANGED offs, ns' = ns \/ ns' = "terminating"
      PROVE  /\ ns' = ns \/ ns' = "terminating"
             /\ \A o \in Offerings : offs'[o] = offs[o]
  BY <1>1
<1>2. ASSUME NEW p \in Offerings, DeleteOffering(p)
      PROVE  /\ ns' = ns
             /\ \A o \in Offerings : \/ offs'[o] = offs[o]
                                     \/ offs[o] = "active" /\ offs'[o] = "deleting"
  <2>1. CASE UNCHANGED <<offs, cOffs>>
    BY <1>2, <2>1 DEF DeleteOffering
  <2>2. CASE WriteOfferings([offs EXCEPT ![p] = IF offs[p] = "active" THEN "deleting" ELSE offs[p]])
    BY <1>2, <2>2 DEF DeleteOffering, WriteOfferings, TypeOK
  <2> QED
    BY <1>2, <2>1, <2>2 DEF DeleteOffering
<1>3. ASSUME NEW p \in Offerings, CreateOffering(p) \/ UserDeleteOffering(p)
      PROVE  /\ ns' = ns
             /\ \A o \in Offerings : \/ offs'[o] = offs[o]
                                     \/ offs[o] = "none" /\ offs'[o] = "active"
                                     \/ offs[o] = "active" /\ offs'[o] = "deleting"
  BY <1>3 DEF CreateOffering, UserDeleteOffering, WriteOfferings, TypeOK
<1>4. CASE ManagedFusionStep
  <2>1. CASE Reconcile \/ AddFinalizer \/ \E r \in Resources : ReconcileResource(r)
    BY <2>1, <1>0, <1>1 DEF Reconcile, AddFinalizer, ReconcileResource
  <2>2. CASE ListOfferings \/ RemoveFinalizer \/ InitiateAgentUninstallation
    BY <2>2, <1>0, <1>1 DEF ListOfferings, RemoveFinalizer, InitiateAgentUninstallation
  <2> QED
    BY <1>0, <1>2, <1>4, <2>1, <2>2 DEF ManagedFusionStep, AgentStep
<1>5. CASE ProcessFault \/ Resync
  BY <1>0, <1>1, <1>5 DEF ProcessFault, Resync, ApiFailure, Crash, MonitorEvent, ResyncSecret
<1>6. CASE UserStep
  <2>1. CASE \/ \E data \in SecretData : UserCreateSecret(data) \/ UserEditSecret(data)
             \/ UserDeleteSecret
    BY <2>1, <1>0, <1>1 DEF UserCreateSecret, UserEditSecret, UserDeleteSecret
  <2> QED
    BY <1>0, <1>3, <1>6, <2>1 DEF UserStep
<1> QED
  BY <1>4, <1>5, <1>6

\* The kinds of step of the agent, for the case distinctions below.
LEMMA SystemCases ==
  [SystemNext]_systemVars =>
    \/ ManagedFusionStep \/ ProcessFault \/ Resync \/ UserStep
    \/ \E o \in Offerings : \/ Guard(o) \/ Provision(o) \/ Drain(o) \/ Release(o) \/ Vanish(o)
                            \/ Decommission(o) \/ Obstruct(o) \/ Unobstruct(o)
    \/ \E o \in Offerings, u \in Users : Attach(o, u) \/ Detach(o, u)
    \/ AgentKilled
    \/ UNCHANGED systemVars
BY DEF SystemNext, InstallOffering, RemoveOffering

\* Every step keeps the types.
LEMMA SystemTypeNext ==
  ASSUME TypeOK, SystemTypeOK, [SystemNext]_systemVars
  PROVE  SystemTypeOK'
<1> USE DEF SystemTypeOK
<1>1. CASE ManagedFusionStep \/ ProcessFault \/ Resync \/ UserStep
  BY <1>1, OfferingsMoved DEF LifeKept
<1>2. ASSUME NEW o \in Offerings, \/ Guard(o) \/ Provision(o) \/ Drain(o) \/ Release(o) \/ Vanish(o)
                                  \/ Decommission(o) \/ Obstruct(o) \/ Unobstruct(o)
      PROVE  SystemTypeOK'
  BY <1>2 DEF Guard, Provision, Drain, Release, Vanish, Decommission, Obstruct, Unobstruct,
              OfferingWorker, Elsewhere, lifeVars
<1>3. ASSUME NEW o \in Offerings, NEW u \in Users, Attach(o, u) \/ Detach(o, u)
      PROVE  SystemTypeOK'
  BY <1>3 DEF Attach, Detach, Elsewhere
<1>4. CASE AgentKilled
  BY <1>4 DEF AgentKilled, lifeVars
<1>5. CASE UNCHANGED systemVars
  BY <1>5 DEF systemVars, lifeVars
<1> QED
  BY <1>1, <1>2, <1>3, <1>4, <1>5, SystemCases

\* Every step keeps the guard on storage in use.
LEMMA HeldNext ==
  ASSUME TypeOK, SystemTypeOK, HeldInv, [SystemNext]_systemVars
  PROVE  HeldInv'
<1> USE DEF SystemTypeOK
<1>1. CASE ManagedFusionStep \/ ProcessFault \/ Resync \/ UserStep
  BY <1>1, OfferingsMoved DEF LifeKept, HeldInv, InUse
<1>2. ASSUME NEW o \in Offerings, Guard(o) PROVE HeldInv'
  <2>1. UNCHANGED <<offs, ns, up, storage>>
    BY <1>2 DEF Guard, OfferingWorker, vars
  <2> QED
    BY <1>2, <2>1 DEF Guard, HeldInv, InUse
<1>3. ASSUME NEW o \in Offerings, Provision(o) \/ Drain(o) \/ Decommission(o) PROVE HeldInv'
  <2>1. UNCHANGED <<offs, ns, up, guarded>>
    BY <1>3 DEF Provision, Drain, Decommission, OfferingWorker, Elsewhere, vars
  <2>2. guarded[o] /\ \A p \in Offerings : p # o => storage'[p] = storage[p]
    BY <1>3 DEF Provision, Drain, Decommission, HeldInv, InUse
  <2> QED
    BY <2>1, <2>2 DEF HeldInv, InUse
<1>4. ASSUME NEW o \in Offerings, Release(o) PROVE HeldInv'
  BY <1>4 DEF Release, WriteOfferings, HeldInv, InUse, TypeOK
<1>5. ASSUME NEW o \in Offerings, Vanish(o) PROVE HeldInv'
  BY <1>5 DEF Vanish, OfferingGone, WriteOfferings, HeldInv, InUse, TypeOK, lifeVars
<1>6. ASSUME NEW o \in Offerings, Obstruct(o) \/ Unobstruct(o) PROVE HeldInv'
  BY <1>6 DEF Obstruct, Unobstruct, Elsewhere, vars, HeldInv, InUse
<1>7. ASSUME NEW o \in Offerings, NEW u \in Users, Attach(o, u) \/ Detach(o, u) PROVE HeldInv'
  BY <1>7 DEF Attach, Detach, Elsewhere, vars, HeldInv, InUse
<1>8. CASE AgentKilled
  BY <1>8 DEF AgentKilled, lifeVars, vars, HeldInv, InUse
<1>9. CASE UNCHANGED systemVars
  BY <1>9 DEF systemVars, lifeVars, vars, HeldInv, InUse
<1> QED
  BY <1>1, <1>2, <1>3, <1>4, <1>5, <1>6, <1>7, <1>8, <1>9, SystemCases

\* So both hold at every moment.
LEMMA HeldAlways == SystemSpec => [](TypeOK /\ SystemTypeOK /\ HeldInv)
<1>1. SystemInit => SystemTypeOK /\ HeldInv
  BY DEF SystemInit, SystemTypeOK, HeldInv, InUse
<1>2. TypeOK /\ SystemTypeOK /\ HeldInv /\ [SystemNext]_systemVars => SystemTypeOK' /\ HeldInv'
  BY SystemTypeNext, HeldNext
<1>3. SystemSpec => []TypeOK
  BY ManagedFusionUnchanged, TypeCorrect
<1> QED
  BY <1>1, <1>2, <1>3, PTL DEF SystemSpec

\* No storage is left with nobody to remove it: with caches up to date, when the process is
\* gone for good, storage in use belongs to offerings created after the last list.
THEOREM NoStorageStranded == ~CacheLag => (SystemSpec => []StorageNotStranded)
<1> SUFFICES ASSUME ~CacheLag PROVE SystemSpec => []StorageNotStranded
  OBVIOUS
<1>1. UninstallWaits /\ HeldInv => StorageNotStranded
  BY DEF UninstallWaits, HeldInv, StorageNotStranded
<1>2. SystemSpec => []UninstallWaits
  BY ManagedFusionUnchanged, UninstalledLast
<1> QED
  BY <1>1, <1>2, HeldAlways, PTL
=============================================================================
