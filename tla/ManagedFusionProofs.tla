------------------------- MODULE ManagedFusionProofs -------------------------
(***************************************************************************)
(* Proofs about ManagedFusion, for every set of offerings, every content   *)
(* of the secret and every bound, with crashes and failures.               *)
(***************************************************************************)
EXTENDS ManagedFusion, EgressRulesProofs

USE DEF apiVars, cacheVars, workerVars

\* The phases of the active branch, and what a reconcile does after each.
LEMMA ResourcePhases ==
  /\ Resources = {"alertRelabel", "kubeRBAC", "prometheusService", "prometheus", "alertmanager",
                  "alertmanagerSecret", "alertmanagerConfig", "k8sMetrics",
                  "proxyNetworkPolicy", "egressFirewall", "egressNetworkPolicy"}
  /\ \A r \in Resources : After[r] \in Resources \cup {"idle"}
<1>1. Resources = {"alertRelabel", "kubeRBAC", "prometheusService", "prometheus", "alertmanager",
                  "alertmanagerSecret", "alertmanagerConfig", "k8sMetrics",
                  "proxyNetworkPolicy", "egressFirewall", "egressNetworkPolicy"}
  BY DEF Resources, After
<1> QED
  BY <1>1 DEF After

\* The object that stands for "none" is one, and the fields of a secret have their types.
LEMMA SecretFields ==
  /\ NoSecret \in SecretObj
  /\ \A s \in SecretObj : /\ s.st \in {"absent", "active", "deleting"} /\ s.fin \in BOOLEAN
                          /\ s.data \in SecretData /\ s.rv \in Nat
<1>1. AnyData \in SecretData
  BY ManagedFusionAssumption DEF AnyData
<1> QED
  BY <1>1 DEF NoSecret, SecretObj

\* What an event of the secret does to the queue is a truth value.
LEMMA QueuedType == QueuedBySecret \in BOOLEAN
BY Zenon DEF QueuedBySecret

\* An accepted write keeps the secret's type, in the API server and in the cache.
LEMMA WriteSecretType ==
  ASSUME TypeOK, NEW st \in {"absent", "active", "deleting"}, NEW fin \in BOOLEAN,
         NEW data \in SecretData, WriteSecret(st, fin, data)
  PROVE  secret' \in SecretObj /\ cSecret' \in SecretObj
<1>1. secret.rv + 1 \in Nat
  BY SecretFields DEF TypeOK
<1>2. secret' \in SecretObj
  BY <1>1 DEF WriteSecret, SecretObj
<1> QED
  BY <1>2 DEF WriteSecret, TypeOK

\* What is parsed into memory is a token, the empty one or what was there.
LEMMA ParsedType ==
  ASSUME TypeOK, NEW data \in SecretData
  PROVE  ParseRemoteWrite(data) \in {"nil", "empty"} \cup Tokens
<1>1. data.remote \in {"none", "garbled", "empty"} \cup Tokens
  BY ManagedFusionAssumption DEF Data
<1> QED
  BY <1>1 DEF ParseRemoteWrite, TypeOK

\* The initial state has the types.
LEMMA TypeInit == Init => TypeOK
<1> SUFFICES ASSUME Init PROVE TypeOK
  OBVIOUS
<1> USE SecretFields DEF Init, TypeOK
<1>1. pc \in Resources \cup {"idle", "addFinalizer", "listOfferings", "deleteOfferings",
                            "removeFinalizer", "deleteNamespace"}
  OBVIOUS
<1>2. faults \in 0..MaxFaults
  BY ManagedFusionAssumption
<1> QED
  BY <1>1, <1>2

\* The kinds of step, for the case distinctions below.
LEMMA StepCases ==
  [Next]_vars => \/ Reconcile
                 \/ AddFinalizer
                 \/ \E r \in Resources : ReconcileResource(r)
                 \/ ListOfferings
                 \/ \E o \in Offerings : DeleteOffering(o)
                 \/ RemoveFinalizer
                 \/ InitiateAgentUninstallation
                 \/ ApiFailure
                 \/ Crash
                 \/ SecretInformer \/ OfferingInformer \/ MonitorEvent \/ ResyncSecret
                 \/ \E data \in SecretData : UserCreateSecret(data) \/ UserEditSecret(data)
                 \/ UserDeleteSecret
                 \/ \E o \in Offerings :
                      CreateOffering(o) \/ UserDeleteOffering(o) \/ OfferingGone(o)
                 \/ (\E text \in Cidrs : GatherAndSaveData(text)) \/ (\E r \in Drifting : Drift(r))
                 \/ UNCHANGED vars
BY DEF Next, AgentStep

\* Every step of the reconciler and of the cluster keeps the types.
LEMMA TypeNext == TypeOK /\ [Next]_vars => TypeOK'
<1> SUFFICES ASSUME TypeOK, [Next]_vars PROVE TypeOK'
  OBVIOUS
<1> USE SecretFields, ManagedFusionAssumption, QueuedType
<1> USE DEF TypeOK, GoTo, Done, Requeue
<1>a. /\ secret.st \in {"absent", "active", "deleting"} /\ secret.fin \in BOOLEAN
      /\ secret.data \in SecretData /\ secret.rv \in Nat
  OBVIOUS
<1>1. CASE Reconcile
  <2>1. rw' \in {"nil", "empty"} \cup Tokens
    BY <1>1, ParsedType DEF Reconcile
  <2> QED
    BY <1>1, <2>1 DEF Reconcile
<1>2. CASE AddFinalizer
  BY <1>a, <1>2, WriteSecretType, ResourcePhases DEF AddFinalizer
<1>3. ASSUME NEW r \in Resources, ReconcileResource(r) PROVE TypeOK'
  BY <1>3, ResourcePhases DEF ReconcileResource
<1>4. CASE ListOfferings
  BY <1>4 DEF ListOfferings
<1>5. ASSUME NEW o \in Offerings, DeleteOffering(o) PROVE TypeOK'
  <2>1. faults' \in 0..MaxFaults
    BY <1>5 DEF DeleteOffering
  <2>2. /\ offs' \in [Offerings -> {"none", "active", "deleting", "gone"}]
        /\ cOffs' \in [Offerings -> {"none", "active", "deleting", "gone"}]
    BY <1>5 DEF DeleteOffering, WriteOfferings
  <2> QED
    BY <1>5, <2>1, <2>2 DEF DeleteOffering
<1>6. CASE RemoveFinalizer
  BY <1>a, <1>6, WriteSecretType DEF RemoveFinalizer
<1>7. CASE InitiateAgentUninstallation
  BY <1>7 DEF InitiateAgentUninstallation
<1>8. CASE ApiFailure
  <2>1. faults' \in 0..MaxFaults
    BY <1>8 DEF ApiFailure
  <2> QED
    BY <1>8, <2>1 DEF ApiFailure
<1>9. CASE Crash
  <2>1. faults' \in 0..MaxFaults
    BY <1>9 DEF Crash
  <2> QED
    BY <1>9, <2>1 DEF Crash
<1>10. CASE SecretInformer \/ OfferingInformer \/ MonitorEvent \/ ResyncSecret
  BY <1>10 DEF SecretInformer, OfferingInformer, MonitorEvent, ResyncSecret
<1>11. CASE \E data \in SecretData : UserCreateSecret(data) \/ UserEditSecret(data)
  BY <1>a, <1>11, WriteSecretType DEF UserCreateSecret, UserEditSecret
<1>12. CASE UserDeleteSecret
  BY <1>a, <1>12, WriteSecretType DEF UserDeleteSecret
<1>13. ASSUME NEW o \in Offerings, CreateOffering(o) \/ UserDeleteOffering(o) \/ OfferingGone(o)
       PROVE  TypeOK'
  <2>1. /\ offs' \in [Offerings -> {"none", "active", "deleting", "gone"}]
        /\ cOffs' \in [Offerings -> {"none", "active", "deleting", "gone"}]
    BY <1>13 DEF CreateOffering, UserDeleteOffering, OfferingGone, WriteOfferings
  <2> QED
    BY <1>13, <2>1 DEF CreateOffering, UserDeleteOffering, OfferingGone
<1>14. CASE (\E text \in Cidrs : GatherAndSaveData(text)) \/ (\E r \in Drifting : Drift(r))
  BY <1>14 DEF GatherAndSaveData, Drift
<1>15. CASE UNCHANGED vars
  BY <1>15 DEF vars
<1> HIDE SecretFields, ManagedFusionAssumption, QueuedType
<1> HIDE DEF TypeOK, GoTo, Done, Requeue
<1> QED
  BY <1>1, <1>2, <1>3, <1>4, <1>5, <1>6, <1>7, <1>8, <1>9, <1>10, <1>11, <1>12, <1>13, <1>14,
     <1>15, StepCases

\* Every variable keeps its type, whatever the constants are.
THEOREM TypeCorrect == Spec => []TypeOK
BY TypeInit, TypeNext, PTL DEF Spec

-----------------------------------------------------------------------------
(* The secret.                                                             *)

DeletionPhases == {"listOfferings", "deleteOfferings", "removeFinalizer", "deleteNamespace"}

\* Which copy a phase works from: the active branch from an active one, the deletion branch
\* from a deleted one.
PhaseInv ==
  /\ pc = "idle" => snap.st = "absent"
  /\ pc \in Resources \cup {"addFinalizer"} => snap.st = "active"
  /\ pc \in DeletionPhases => snap.st = "deleting"

\* Copies are never ahead of the secret, and a current copy is the secret.
VersionInv ==
  /\ secret.st # "absent" => secret.rv > 0
  /\ cSecret.rv <= secret.rv
  /\ cSecret.rv = secret.rv => cSecret = secret
  /\ snap.st = "active" => snap.rv <= secret.rv
  /\ snap.st = "active" /\ snap.rv = secret.rv => snap = secret

\* A deletion once seen is final.
DeletionFinal ==
  /\ cSecret.st = "deleting" => secret.rv > 0 /\ secret.st # "active"
  /\ snap.st = "deleting" => secret.rv > 0 /\ secret.st # "active" /\ cSecret.st # "active"

\* It is the agent's finalizer that keeps a deleted secret, and it goes with it.
HeldByFinalizer ==
  /\ secret.st = "deleting" => secret.fin
  /\ secret.st = "absent" => ~secret.fin
  /\ cSecret.st = "deleting" => cSecret.fin
  /\ snap.st = "deleting" => snap.fin

SecretInv == PhaseInv /\ VersionInv /\ DeletionFinal /\ HeldByFinalizer

\* What a step may do to the secret, its cached copy and the worker's copy.
SecretKept ==
  /\ secret' = secret
  /\ \/ cSecret' = cSecret
     \/ cSecret' = secret /\ (queued' \/ secret.st = "absent")

\* The worker goes on from the same copy, or returns.
WorkerMoves == /\ SecretKept
               /\ (snap' = snap /\ PhaseInv') \/ (pc' = "idle" /\ snap' = NoSecret)

\* The worker takes a copy and chooses the branch.
CopyTaken == /\ SecretKept
             /\ snap' = cSecret
             /\ \/ pc' = "addFinalizer" /\ cSecret.st = "active"
                \/ pc' = "listOfferings" /\ cSecret.st = "deleting"

\* The two updates of the secret by the worker.
FinalizerAdded == /\ pc = "addFinalizer" /\ pc' = "alertRelabel"
                  /\ UpdateAccepted
                  /\ WriteSecret(secret.st, TRUE, secret.data)
                  /\ snap' = secret'
                  /\ queued' = QueuedBySecret

FinalizerRemoved == /\ pc = "removeFinalizer" /\ pc' = "deleteNamespace"
                    /\ UpdateAccepted
                    /\ WriteSecret("absent", FALSE, secret.data)
                    /\ snap' = snap
                    /\ queued' = QueuedBySecret

\* Writes by others: the creation, an edit, the request to go.
SecretWritten == /\ \/ secret.rv = 0 /\ \E data : WriteSecret("active", FALSE, data)
                    \/ /\ secret.st # "absent"
                       /\ \E data : WriteSecret(secret.st, secret.fin, data)
                    \/ /\ secret.st = "active"
                       /\ WriteSecret(IF secret.fin THEN "deleting" ELSE "absent", secret.fin,
                                      secret.data)
                 /\ queued' = QueuedBySecret
                 /\ UNCHANGED <<pc, snap>>

\* Who writes the secret, and what the worker is doing at that moment.
LEMMA SecretSteps ==
  ASSUME TypeOK, PhaseInv, [Next]_vars
  PROVE  WorkerMoves \/ CopyTaken \/ FinalizerAdded \/ FinalizerRemoved \/ SecretWritten
<1> USE DEF GoTo, Done, Requeue
<1>a. cSecret.st \in {"absent", "active", "deleting"} /\ NoSecret.st = "absent"
  BY SecretFields DEF TypeOK, NoSecret
<1>b. ASSUME SecretKept, UNCHANGED <<pc, snap>> PROVE WorkerMoves
  BY <1>b DEF WorkerMoves, PhaseInv
<1>1. CASE Reconcile
  BY <1>a, <1>b, <1>1 DEF Reconcile, SecretKept, CopyTaken
<1>2. CASE AddFinalizer
  BY <1>2, ResourcePhases DEF AddFinalizer, WorkerMoves, SecretKept, FinalizerAdded, PhaseInv,
                              DeletionPhases
<1>3. ASSUME NEW r \in Resources, ReconcileResource(r) PROVE WorkerMoves
  BY <1>3, ResourcePhases DEF ReconcileResource, WorkerMoves, SecretKept, PhaseInv,
                              DeletionPhases
<1>4. CASE ListOfferings
  BY <1>4, ResourcePhases DEF ListOfferings, WorkerMoves, SecretKept, PhaseInv, DeletionPhases
<1>5. ASSUME NEW o \in Offerings, DeleteOffering(o) PROVE WorkerMoves
  BY <1>5, <1>b DEF DeleteOffering, WorkerMoves, SecretKept
<1>6. CASE RemoveFinalizer
  BY <1>6, ResourcePhases DEF RemoveFinalizer, WorkerMoves, SecretKept, FinalizerRemoved,
                              PhaseInv, DeletionPhases
<1>7. CASE InitiateAgentUninstallation
  BY <1>7 DEF InitiateAgentUninstallation, WorkerMoves, SecretKept
<1>8. CASE ApiFailure \/ Crash
  BY <1>8 DEF ApiFailure, Crash, WorkerMoves, SecretKept
<1>9. CASE SecretInformer \/ OfferingInformer \/ MonitorEvent \/ ResyncSecret
  BY <1>9, <1>b DEF SecretInformer, OfferingInformer, MonitorEvent, ResyncSecret, SecretKept
<1>10. CASE \E data \in SecretData : UserCreateSecret(data) \/ UserEditSecret(data)
  BY <1>10 DEF UserCreateSecret, UserEditSecret, SecretWritten
<1>11. CASE UserDeleteSecret
  BY <1>11 DEF UserDeleteSecret, SecretWritten
<1>12. CASE \E o \in Offerings : CreateOffering(o) \/ UserDeleteOffering(o) \/ OfferingGone(o)
  BY <1>12, <1>b DEF CreateOffering, UserDeleteOffering, OfferingGone, SecretKept
<1>13. CASE (\E text \in Cidrs : GatherAndSaveData(text)) \/ (\E r \in Drifting : Drift(r))
  BY <1>13, <1>b DEF GatherAndSaveData, Drift, SecretKept
<1>14. CASE UNCHANGED vars
  BY <1>14, <1>b DEF vars, SecretKept
<1> QED
  BY <1>1, <1>2, <1>3, <1>4, <1>5, <1>6, <1>7, <1>8, <1>9, <1>10, <1>11, <1>12, <1>13, <1>14,
     StepCases

\* What an accepted write leaves behind.
LEMMA WrittenSecret ==
  ASSUME NEW st, NEW fin, NEW data, WriteSecret(st, fin, data)
  PROVE  /\ secret'.st = st /\ secret'.fin = fin /\ secret'.rv = secret.rv + 1
         /\ cSecret' = cSecret \/ cSecret' = secret'
BY DEF WriteSecret

\* Every step keeps the invariant of the secret.
LEMMA SecretStep == TypeOK /\ SecretInv /\ [Next]_vars => SecretInv'
<1> SUFFICES ASSUME TypeOK, SecretInv, [Next]_vars PROVE SecretInv'
  OBVIOUS
<1> USE DEF SecretInv
<1>a. /\ secret.rv \in Nat /\ cSecret.rv \in Nat /\ snap.rv \in Nat
      /\ secret.st \in {"absent", "active", "deleting"} /\ secret.fin \in BOOLEAN
  BY SecretFields DEF TypeOK
<1>1. CASE WorkerMoves
  <2>1. PhaseInv'
    BY <1>1, ResourcePhases DEF WorkerMoves, NoSecret, PhaseInv, DeletionPhases
  <2>2. /\ secret' = secret /\ (cSecret' = cSecret \/ cSecret' = secret)
        /\ snap' = snap \/ snap'.st = "absent"
    BY <1>1 DEF WorkerMoves, SecretKept, NoSecret
  <2> QED
    BY <1>a, <2>1, <2>2 DEF VersionInv, DeletionFinal, HeldByFinalizer
<1>2. CASE CopyTaken
  <2>1. PhaseInv'
    BY <1>2, ResourcePhases DEF CopyTaken, PhaseInv, DeletionPhases
  <2>2. secret' = secret /\ (cSecret' = cSecret \/ cSecret' = secret) /\ snap' = cSecret
    BY <1>2 DEF CopyTaken, SecretKept
  <2> QED
    BY <1>a, <2>1, <2>2 DEF VersionInv, DeletionFinal, HeldByFinalizer
<1>3. CASE FinalizerAdded
  <2>1. snap.st = "active" /\ snap = secret
    BY <1>3 DEF FinalizerAdded, UpdateAccepted, PhaseInv, VersionInv
  <2>2. /\ secret'.st = "active" /\ secret'.fin = TRUE /\ secret'.rv = secret.rv + 1
        /\ cSecret' = cSecret \/ cSecret' = secret'
    BY <1>3, <2>1, WrittenSecret DEF FinalizerAdded
  <2>3. pc' = "alertRelabel" /\ snap' = secret'
    BY <1>3 DEF FinalizerAdded
  <2>4. PhaseInv'
    BY <2>2, <2>3 DEF PhaseInv, DeletionPhases
  <2>5. cSecret.st # "deleting"
    BY <2>1 DEF DeletionFinal
  <2> QED
    BY <1>a, <2>2, <2>3, <2>4, <2>5 DEF VersionInv, DeletionFinal, HeldByFinalizer
<1>4. CASE FinalizerRemoved
  <2>1. snap.st = "deleting" /\ snap' = snap /\ pc' = "deleteNamespace"
    BY <1>4 DEF FinalizerRemoved, PhaseInv, DeletionPhases
  <2>2. cSecret.st # "active"
    BY <2>1 DEF DeletionFinal
  <2>3. /\ secret'.st = "absent" /\ secret'.fin = FALSE /\ secret'.rv = secret.rv + 1
        /\ cSecret' = cSecret \/ cSecret' = secret'
    BY <1>4, WrittenSecret DEF FinalizerRemoved
  <2>4. PhaseInv'
    BY <2>1, ResourcePhases DEF PhaseInv, DeletionPhases
  <2> QED
    BY <1>a, <2>1, <2>2, <2>3, <2>4 DEF VersionInv, DeletionFinal, HeldByFinalizer
<1>5. CASE SecretWritten
  <2>1. /\ pc' = pc /\ snap' = snap /\ secret'.rv = secret.rv + 1
        /\ cSecret' = cSecret \/ cSecret' = secret'
        /\ \/ secret.rv = 0 /\ secret'.st = "active"
           \/ secret.st # "absent" /\ secret'.st = secret.st /\ secret'.fin = secret.fin
           \/ secret.st = "active" /\ secret'.st = "deleting" /\ secret.fin /\ secret'.fin = secret.fin
           \/ secret.st = "active" /\ secret'.st = "absent" /\ ~secret.fin /\ secret'.fin = secret.fin
    BY <1>5, WrittenSecret DEF SecretWritten
  <2>2. secret.rv = 0 => secret.st = "absent" /\ cSecret.rv = 0
    BY <1>a DEF VersionInv
  <2> QED
    BY <1>a, <2>1, <2>2 DEF PhaseInv, VersionInv, DeletionFinal, HeldByFinalizer
<1> QED
  BY <1>1, <1>2, <1>3, <1>4, <1>5, SecretSteps

\* So it holds at every moment.
LEMMA SecretAlways == Spec => []SecretInv
<1>1. Init => SecretInv
  BY ResourcePhases DEF Init, NoSecret, SecretInv, PhaseInv, VersionInv, DeletionFinal,
                        HeldByFinalizer, DeletionPhases
<1> QED
  BY <1>1, SecretStep, TypeCorrect, PTL DEF Spec

\* The agent asks an offering to go only after the deletion of the secret was requested,
\* however far the cached secret is behind.
THEOREM OfferingsStayAlone == Spec => OfferingsLeftAlone
<1>1. SecretInv /\ [Next]_vars
        => [pc = "deleteOfferings" /\ offs' # offs /\ todo' # todo => secret.st # "active"]_vars
  BY DEF SecretInv, PhaseInv, DeletionFinal, DeletionPhases
<1> QED
  BY <1>1, SecretAlways, PTL DEF Spec, OfferingsLeftAlone

-----------------------------------------------------------------------------
(* The uninstallation, when cached reads are up to date.                   *)

\* The offerings there are came after the last list.
NoneLeft == \A o \in Offerings : offs[o] \in {"none", "gone"} \/ o \in late

NoneUnasked == \A o \in Offerings : offs[o] = "active" => o \in late

\* The phases in which a reconcile of the deletion branch still has something to do.
Uninstalling == pc \in {"listOfferings", "deleteOfferings", "removeFinalizer"}

\* The list that found no offering stays right, but for later ones, while the secret is
\* released and the namespace deleted, and no reconcile lists again after that: the secret
\* is gone for good.  As long as the secret is held, a request is queued, or a reconcile of
\* the deletion branch is under way, or every offering was asked.
UninstallInv ==
  /\ cSecret = secret /\ cOffs = offs
  /\ pc \in {"removeFinalizer", "deleteNamespace"} => NoneLeft
  /\ pc = "deleteNamespace" => secret.st = "absent"
  /\ ns = "terminating" => pc = "idle" /\ secret.st = "absent" /\ secret.rv > 0 /\ NoneLeft
  /\ ~queued /\ secret.st = "deleting" => Uninstalling \/ (pc = "idle" /\ NoneUnasked)

\* Who changes the offerings and the history of them, and how the worker gets on.
LEMMA UninstallSteps ==
  ASSUME TypeOK, ~CacheLag, cOffs = offs, cSecret = secret, [Next]_vars
  PROVE  /\ cOffs' = offs'
         /\ \/ ListOfferings
            \/ /\ \A o \in Offerings : offs'[o] # offs[o] => offs[o] # "gone"
                    /\ (offs'[o] # "active" \/ (offs[o] = "none" /\ o \in late'))
                    /\ (offs'[o] # "deleting" \/ offs[o] = "active")
               /\ late \subseteq late'
         /\ ns' # ns => InitiateAgentUninstallation
         /\ pc' = "deleteNamespace" => pc = "deleteNamespace" \/ RemoveFinalizer
         /\ pc' = "removeFinalizer" => pc = "removeFinalizer" \/ ListOfferings
<1> USE DEF GoTo, Done, Requeue, TypeOK
<1>1. CASE Reconcile
  BY <1>1 DEF Reconcile
<1>2. CASE AddFinalizer
  BY <1>2 DEF AddFinalizer
<1>3. ASSUME NEW r \in Resources, ReconcileResource(r)
      PROVE  /\ UNCHANGED <<offs, cOffs, late, ns>>
             /\ pc' \notin {"deleteNamespace", "removeFinalizer"}
  BY <1>3, ResourcePhases DEF ReconcileResource
<1>4. CASE ListOfferings
  BY <1>4 DEF ListOfferings
<1>5. ASSUME NEW o \in Offerings, DeleteOffering(o)
      PROVE  /\ cOffs' = offs' /\ late' = late /\ ns' = ns
             /\ pc' \in {"deleteOfferings", "idle"}
             /\ \A p \in Offerings : offs'[p] # offs[p] =>
                  offs[p] = "active" /\ offs'[p] = "deleting"
  <2>1. late' = late /\ ns' = ns /\ pc' \in {"deleteOfferings", "idle"}
    BY <1>5 DEF DeleteOffering
  <2>2. CASE UNCHANGED <<offs, cOffs>>
    BY <2>1, <2>2
  <2>3. CASE WriteOfferings([offs EXCEPT ![o] = IF offs[o] = "active" THEN "deleting" ELSE offs[o]])
    BY <2>1, <2>3 DEF WriteOfferings
  <2> QED
    BY <1>5, <2>2, <2>3 DEF DeleteOffering
<1>6. CASE RemoveFinalizer \/ InitiateAgentUninstallation
  BY <1>6 DEF RemoveFinalizer, InitiateAgentUninstallation
<1>7. CASE ApiFailure \/ Crash
  BY <1>7 DEF ApiFailure, Crash
<1>8. CASE SecretInformer \/ OfferingInformer \/ MonitorEvent \/ ResyncSecret
  BY <1>8 DEF SecretInformer, OfferingInformer, MonitorEvent, ResyncSecret
<1>9. CASE \/ \E data \in SecretData : UserCreateSecret(data) \/ UserEditSecret(data)
           \/ UserDeleteSecret
  BY <1>9 DEF UserCreateSecret, UserEditSecret, UserDeleteSecret
<1>10. ASSUME NEW o \in Offerings,
              CreateOffering(o) \/ UserDeleteOffering(o) \/ OfferingGone(o)
       PROVE  /\ cOffs' = offs' /\ late \subseteq late' /\ ns' = ns /\ pc' = pc
              /\ \A p \in Offerings : offs'[p] # offs[p] =>
                   \/ offs[p] = "none" /\ offs'[p] = "active" /\ p \in late'
                   \/ offs[p] = "active" /\ offs'[p] = "deleting"
                   \/ offs[p] = "deleting" /\ offs'[p] = "gone"
  <2>1. CASE CreateOffering(o)
    BY <2>1 DEF CreateOffering, WriteOfferings
  <2>2. CASE UserDeleteOffering(o)
    BY <2>2 DEF UserDeleteOffering, WriteOfferings
  <2>3. CASE OfferingGone(o)
    BY <2>3 DEF OfferingGone, WriteOfferings
  <2> QED
    BY <1>10, <2>1, <2>2, <2>3
<1>11. CASE (\E text \in Cidrs : GatherAndSaveData(text)) \/ (\E r \in Drifting : Drift(r))
  BY <1>11 DEF GatherAndSaveData, Drift
<1>12. CASE UNCHANGED vars
  BY <1>12 DEF vars
<1> QED
  BY <1>1, <1>2, <1>3, <1>4, <1>5, <1>6, <1>7, <1>8, <1>9, <1>10, <1>11, <1>12, StepCases

\* With caches up to date every step keeps the order of the uninstallation.
LEMMA UninstallOrder ==
  ASSUME ~CacheLag, TypeOK, SecretInv, UninstallInv, [Next]_vars
  PROVE  /\ cSecret' = secret' /\ cOffs' = offs'
         /\ pc' \in {"removeFinalizer", "deleteNamespace"} => NoneLeft'
         /\ pc' = "deleteNamespace" => secret'.st = "absent"
         /\ ns' = "terminating" =>
              pc' = "idle" /\ secret'.st = "absent" /\ secret'.rv > 0 /\ NoneLeft'
<1>a. secret.rv \in Nat /\ secret.st \in {"absent", "active", "deleting"}
  BY SecretFields DEF TypeOK
<1>0. cSecret = secret /\ cOffs = offs
  BY DEF UninstallInv
<1>1. cSecret' = secret'
  BY <1>0, SecretSteps DEF SecretInv, WorkerMoves, CopyTaken, SecretKept, FinalizerAdded,
     FinalizerRemoved, SecretWritten, WriteSecret
<1>2. ASSUME NoneLeft, ~ListOfferings PROVE NoneLeft'
  <2>1. late \subseteq late' /\ \A o \in Offerings : offs'[o] # offs[o] => offs[o] # "gone"
                    /\ (offs'[o] # "active" \/ (offs[o] = "none" /\ o \in late'))
                    /\ (offs'[o] # "deleting" \/ offs[o] = "active")
    BY <1>0, <1>2, UninstallSteps
  <2>2. \A o \in Offerings : offs'[o] \in {"none", "active", "deleting", "gone"}
    BY TypeNext DEF TypeOK
  <2> QED
    BY <1>2, <2>1, <2>2 DEF NoneLeft
<1>3. ASSUME pc' \in {"removeFinalizer", "deleteNamespace"} PROVE NoneLeft'
  <2>1. CASE ListOfferings
    <3>1. \A o \in Offerings : offs[o] \notin {"active", "deleting"}
      BY <1>0, <1>3, <2>1 DEF ListOfferings, Done
    <3>2. offs' = offs
      BY <2>1 DEF ListOfferings
    <3> QED
      BY <3>1, <3>2 DEF NoneLeft, TypeOK
  <2>2. CASE ~ListOfferings
    <3>1. pc \in {"removeFinalizer", "deleteNamespace"}
      BY <1>0, <1>3, <2>2, UninstallSteps DEF RemoveFinalizer
    <3> QED
      BY <1>2, <2>2, <3>1 DEF UninstallInv
  <2> QED
    BY <2>1, <2>2
<1>4. ASSUME secret.rv > 0, secret.st = "absent" PROVE SecretKept /\ (WorkerMoves \/ CopyTaken)
  <2>1. ~FinalizerAdded /\ ~FinalizerRemoved
    BY <1>4 DEF FinalizerAdded, FinalizerRemoved, UpdateAccepted
  <2>2. secret.rv # 0
    BY <1>4
  <2>3. ~SecretWritten
    BY <1>4, <2>2, Zenon DEF SecretWritten
  <2> QED
    BY <2>1, <2>3, SecretSteps DEF SecretInv, WorkerMoves, CopyTaken
<1>5. ASSUME pc' = "deleteNamespace" PROVE secret'.st = "absent"
  <2>1. CASE RemoveFinalizer
    <3>1. snap.fin
      BY <2>1 DEF RemoveFinalizer, SecretInv, PhaseInv, DeletionPhases, HeldByFinalizer
    <3>2. WriteSecret("absent", FALSE, secret.data)
      BY <1>5, <2>1, <3>1 DEF RemoveFinalizer, Requeue
    <3> QED
      BY <3>2, WrittenSecret
  <2>2. CASE pc = "deleteNamespace"
    BY <1>4, <2>2 DEF UninstallInv, SecretInv, PhaseInv, DeletionPhases, DeletionFinal, SecretKept
  <2> QED
    BY <1>0, <1>5, <2>1, <2>2, UninstallSteps
<1>6. ASSUME ns' = "terminating"
      PROVE  pc' = "idle" /\ secret'.st = "absent" /\ secret'.rv > 0 /\ NoneLeft'
  <2>1. CASE InitiateAgentUninstallation
    <3>1. pc = "deleteNamespace" /\ pc' = "idle" /\ secret' = secret
      BY <2>1 DEF InitiateAgentUninstallation, Done
    <3>2. secret.st = "absent" /\ secret.rv > 0 /\ NoneLeft
      BY <3>1 DEF UninstallInv, SecretInv, PhaseInv, DeletionPhases, DeletionFinal
    <3>3. ~ListOfferings
      BY <3>1 DEF ListOfferings
    <3> QED
      BY <1>2, <3>1, <3>2, <3>3
  <2>2. CASE ns = "terminating"
    <3>1. pc = "idle" /\ cSecret.st = "absent" /\ secret.st = "absent" /\ secret.rv > 0 /\ NoneLeft
      BY <2>2 DEF UninstallInv
    <3>2. ~ListOfferings
      BY <3>1 DEF ListOfferings
    <3>3. snap.st = "absent" /\ WorkerMoves
      BY <1>4, <3>1 DEF SecretInv, PhaseInv, CopyTaken
    <3>4. pc' \in Resources \cup {"idle", "addFinalizer"} \cup DeletionPhases
      BY TypeNext DEF TypeOK, DeletionPhases
    <3>5. pc' = "idle"
      BY <3>3, <3>4 DEF WorkerMoves, PhaseInv
    <3> QED
      BY <1>2, <1>4, <3>1, <3>2, <3>5 DEF SecretKept
  <2> QED
    BY <1>0, <1>6, <2>1, <2>2, UninstallSteps
<1> QED
  BY <1>0, <1>1, <1>3, <1>5, <1>6, UninstallSteps

\* With caches up to date no step leaves an offering unasked and the request forgotten.
LEMMA UninstallGoesOn ==
  ASSUME ~CacheLag, TypeOK, SecretInv, UninstallInv, [Next]_vars, ~queued',
         secret'.st = "deleting"
  PROVE  Uninstalling' \/ (pc' = "idle" /\ NoneUnasked')
<1>a. QueuedBySecret
  BY Zenon DEF QueuedBySecret
<1>b. cSecret = secret /\ cOffs = offs
  BY DEF UninstallInv
<1>c. ~queued /\ secret.st = "deleting" => Uninstalling \/ (pc = "idle" /\ NoneUnasked)
  BY DEF UninstallInv
<1>d. ASSUME UNCHANGED <<queued, secret, pc>>, NoneUnasked => NoneUnasked'
      PROVE  Uninstalling' \/ (pc' = "idle" /\ NoneUnasked')
  BY <1>c, <1>d DEF Uninstalling
<1>e. ASSUME queued' PROVE FALSE
  BY <1>e
<1>f. ASSUME Requeue PROVE FALSE
  BY <1>e, <1>f DEF Requeue
<1>1. CASE Reconcile
  <2>1. pc = "idle" /\ queued /\ secret' = secret
    BY <1>1 DEF Reconcile
  <2>2. cSecret.st = "deleting"
    BY <1>b, <2>1
  <2> QED
    BY <1>1, <1>e, <2>1, <2>2 DEF Reconcile, Uninstalling
<1>2. CASE AddFinalizer
  <2>1. pc = "addFinalizer"
    BY <1>2 DEF AddFinalizer
  <2>2. snap.fin /\ GoTo("alertRelabel") /\ UNCHANGED secret
    BY <1>2, <1>a, <1>e, <1>f DEF AddFinalizer
  <2> QED
    BY <1>c, <2>1, <2>2 DEF GoTo, Uninstalling
<1>3. ASSUME NEW r \in Resources, ReconcileResource(r) PROVE FALSE
  <2>1. pc = r /\ UNCHANGED <<secret, queued>>
    BY <1>3, <1>f DEF ReconcileResource, Done, GoTo
  <2> QED
    BY <1>c, <2>1, ResourcePhases DEF Uninstalling
<1>4. CASE ListOfferings
  BY <1>4, <1>b DEF ListOfferings, Done, GoTo, Uninstalling, NoneUnasked
<1>5. ASSUME NEW o \in Offerings, DeleteOffering(o) PROVE Uninstalling'
  BY <1>5, <1>f DEF DeleteOffering, Uninstalling
<1>6. CASE RemoveFinalizer
  <2>1. snap.fin
    BY <1>6 DEF RemoveFinalizer, SecretInv, PhaseInv, DeletionPhases, HeldByFinalizer
  <2>2. ~WriteSecret("absent", FALSE, secret.data)
    BY DEF WriteSecret
  <2> QED
    BY <1>6, <1>f, <2>1, <2>2 DEF RemoveFinalizer
<1>7. CASE InitiateAgentUninstallation
  BY <1>7 DEF InitiateAgentUninstallation, UninstallInv
<1>8. CASE ApiFailure \/ Crash
  <2>1. CASE ApiFailure
    BY <1>f, <2>1 DEF ApiFailure
  <2>2. CASE Crash
    <3>1. secret' = secret /\ queued' = (secret.st # "absent")
      BY <2>2 DEF Crash
    <3> QED
      BY <1>e, <3>1
  <2> QED
    BY <1>8, <2>1, <2>2
<1>9. CASE SecretInformer \/ OfferingInformer \/ MonitorEvent \/ ResyncSecret
  BY <1>9, <1>b, <1>e DEF SecretInformer, OfferingInformer, MonitorEvent, ResyncSecret
<1>10. CASE \E data \in SecretData : UserCreateSecret(data) \/ UserEditSecret(data)
  BY <1>10, <1>a, <1>e DEF UserCreateSecret, UserEditSecret
<1>11. CASE UserDeleteSecret
  BY <1>11, <1>a, <1>e DEF UserDeleteSecret
<1>12. ASSUME NEW o \in Offerings, CreateOffering(o) \/ UserDeleteOffering(o) \/ OfferingGone(o)
       PROVE  UNCHANGED <<queued, secret, pc>> /\ (NoneUnasked => NoneUnasked')
  BY <1>12 DEF CreateOffering, UserDeleteOffering, OfferingGone, WriteOfferings, TypeOK,
               NoneUnasked
<1>13. CASE (\E text \in Cidrs : GatherAndSaveData(text)) \/ (\E r \in Drifting : Drift(r))
  BY <1>13, <1>d, <1>e DEF GatherAndSaveData, Drift, NoneUnasked
<1>14. CASE UNCHANGED vars
  BY <1>14, <1>d DEF vars, NoneUnasked
<1> QED
  BY <1>1, <1>2, <1>3, <1>4, <1>5, <1>6, <1>7, <1>8, <1>9, <1>10, <1>11, <1>12, <1>13, <1>14,
     <1>d, StepCases

\* So with caches up to date the uninstallation keeps its order at every moment.
LEMMA UninstallAlways == ~CacheLag => (Spec => []UninstallInv)
<1> SUFFICES ASSUME ~CacheLag PROVE Spec => []UninstallInv
  OBVIOUS
<1>1. Init => UninstallInv
  BY DEF Init, UninstallInv, NoSecret
<1>2. TypeOK /\ SecretInv /\ UninstallInv /\ [Next]_vars => UninstallInv'
  BY UninstallOrder, UninstallGoesOn DEF UninstallInv
<1> QED
  BY <1>1, <1>2, TypeCorrect, SecretAlways, PTL DEF Spec

\* The agent's namespace is deleted last: the secret is released and no offering is left but
\* those created after the list that found none.
THEOREM UninstalledLast == ~CacheLag => (Spec => []UninstallWaits)
<1> SUFFICES ASSUME ~CacheLag PROVE Spec => []UninstallWaits
  OBVIOUS
<1>1. SecretInv /\ UninstallInv => UninstallWaits
  BY DEF SecretInv, HeldByFinalizer, UninstallInv, NoneLeft, UninstallWaits
<1> QED
  BY <1>1, SecretAlways, UninstallAlways, PTL

\* A reconciler at rest during an uninstallation has asked every offering to go.
THEOREM OfferingsAsked == ~CacheLag => (Spec => []EveryOfferingAsked)
<1> SUFFICES ASSUME ~CacheLag PROVE Spec => []EveryOfferingAsked
  OBVIOUS
<1>1. UninstallInv => EveryOfferingAsked
  BY DEF UninstallInv, Uninstalling, NoneUnasked, EveryOfferingAsked, Quiescent
<1> QED
  BY <1>1, UninstallAlways, PTL

-----------------------------------------------------------------------------
(* Convergence, with caches however far behind.                            *)

\* Nothing is pending for the worker: no request, no event of the secret.
Settled == ~queued /\ cSecret = secret

\* The place of each resource in the order of reconcilePhases.
Place == [alertRelabel |-> 1, kubeRBAC |-> 2, prometheusService |-> 3, prometheus |-> 4,
          alertmanager |-> 5, alertmanagerSecret |-> 6, alertmanagerConfig |-> 7,
          k8sMetrics |-> 8, proxyNetworkPolicy |-> 9, egressFirewall |-> 10,
          egressNetworkPolicy |-> 11]

\* The worker is past resource r, or has returned.
Passed(r) == pc = "idle" \/ (pc \in Resources /\ Place[r] < Place[pc])

\* The content is what the data of the secret asks of resource r, see Converged, and the
\* data was not refused.
Wanted(r, content, data) ==
  \/ r = "prometheus" /\ data.remote = "none" /\ content \notin {Absent, Tampered}
  \/ r \notin EgressResources /\ content = Desired(r, data, data.remote, Missing)
  \/ /\ r \in EgressResources
     /\ \E text \in Cidrs : ~EgressRefused(data, text) /\ content = DesiredEgress(r, data, text)

\* While nothing is pending for an active secret, a reconcile under way works from the
\* secret of now and has its remote write configuration in memory, and what it is past is
\* as the secret asks; a worker at rest is past everything.
ConvergingInv ==
  Settled /\ secret.st = "active" =>
    /\ pc # "idle" => snap = secret /\ secret.data.remote \in {"none", rw}
    /\ pc # "addFinalizer" => secret.fin
    /\ \A r \in Resources : Passed(r) /\ ~Skipped(r) => Wanted(r, res[r], secret.data)

\* The phases come one after the other, and the last one returns.
LEMMA PhaseOrder ==
  ASSUME NEW r \in Resources, NEW q \in Resources
  PROVE  /\ Place[r] \in 1..11 /\ (Place[r] = Place[q] => r = q)
         /\ After[r] = "idle" => Place[r] = 11
         /\ After[r] # "idle" => After[r] \in Resources /\ Place[After[r]] = Place[r] + 1
<1>1. Place[r] \in 1..11 /\ (Place[r] = Place[q] => r = q)
  BY ResourcePhases DEF Place
<1>2. After[r] = "idle" => Place[r] = 11
  BY ResourcePhases DEF After, Place
<1>3. After[r] # "idle" => After[r] \in Resources /\ Place[After[r]] = Place[r] + 1
  BY ResourcePhases DEF After, Place
<1> QED
  BY <1>1, <1>2, <1>3

\* After the phase of r the worker is past r and what it was past before, and nothing else.
LEMMA PassedNext ==
  ASSUME NEW r \in Resources, NEW q \in Resources, pc = r, pc' = After[r], Passed(q)'
  PROVE  q = r \/ Passed(q)
<1>0. Place[q] \in 1..11 /\ Place[r] \in 1..11 /\ (Place[r] = Place[q] => q = r)
  BY PhaseOrder
<1>1. CASE After[r] = "idle"
  BY <1>0, <1>1, PhaseOrder DEF Passed
<1>2. CASE After[r] # "idle"
  BY <1>0, <1>2, PhaseOrder, ResourcePhases DEF Passed
<1> QED
  BY <1>1, <1>2

\* What a phase that is not refused writes is what the data asks, provided that memory
\* holds the data's remote write configuration, if it has one.
LEMMA WantedWritten ==
  ASSUME NEW r \in Resources, NEW data, NEW remote, NEW text \in Cidrs \cup {Missing},
         ~Refused(r, data, remote, text), data.remote \in {"none", remote}
  PROVE  Wanted(r, Desired(r, data, remote, text), data)
<1>1. CASE r \in TemplateResources
  <2>1. r \notin EgressResources
    BY <1>1 DEF TemplateResources, EgressResources
  <2> QED
    BY <1>1, <2>1 DEF Desired, Wanted
<1>2. CASE r = "prometheus"
  <2>1. Desired(r, data, remote, text) = DesiredPrometheus(remote)
    BY <1>2 DEF Desired, TemplateResources, EgressResources
  <2>2. Desired(r, data, data.remote, Missing) = DesiredPrometheus(data.remote)
    BY <1>2 DEF Desired, TemplateResources, EgressResources
  <2>3. DesiredPrometheus(remote) \notin {Absent, Tampered}
    BY DEF DesiredPrometheus, Absent, Tampered
  <2>4. r \notin EgressResources
    BY <1>2 DEF EgressResources
  <2> QED
    BY <1>2, <2>1, <2>2, <2>3, <2>4 DEF Wanted
<1>3. CASE r \in {"alertmanagerSecret", "alertmanagerConfig"}
  <2>1. r \notin EgressResources
    BY <1>3 DEF EgressResources
  <2>2. Desired(r, data, remote, text) = Desired(r, data, data.remote, Missing)
    BY <1>3 DEF Desired, TemplateResources
  <2> QED
    BY <2>1, <2>2 DEF Wanted
<1>4. CASE r \in EgressResources
  <2>1. text \in Cidrs /\ ~EgressRefused(data, text)
    BY <1>4 DEF Refused, EgressRefused
  <2>2. Desired(r, data, remote, text) = DesiredEgress(r, data, text)
    BY <1>4 DEF Desired, TemplateResources, EgressResources
  <2> QED
    BY <1>4, <2>1, <2>2 DEF Wanted
<1> QED
  BY <1>1, <1>2, <1>3, <1>4, ResourcePhases DEF TemplateResources, EgressResources

\* After a write of the secret something is pending: its event is queued or still to come.
LEMMA WriteUnsettles ==
  ASSUME TypeOK, VersionInv, NEW st, NEW fin, NEW data, WriteSecret(st, fin, data),
         queued' = QueuedBySecret
  PROVE  ~Settled'
<1>1. CASE CacheLag
  <2>1. cSecret' = cSecret /\ secret'.rv = secret.rv + 1
    BY <1>1 DEF WriteSecret
  <2>2. secret.rv \in Nat /\ cSecret.rv \in Nat /\ cSecret.rv <= secret.rv
    BY SecretFields DEF TypeOK, VersionInv
  <2>3. cSecret' # secret'
    BY <2>1, <2>2
  <2> QED
    BY <2>3 DEF Settled
<1>2. CASE ~CacheLag
  <2>1. QueuedBySecret
    BY <1>2, Zenon DEF QueuedBySecret
  <2> QED
    BY <2>1 DEF Settled
<1> QED
  BY <1>1, <1>2

\* The invariant says nothing of the offerings and the CIDR.
LEMMA ConvergingKept ==
  ASSUME ConvergingInv, UNCHANGED <<secret, cSecret, res, workerVars>>
  PROVE  ConvergingInv'
BY DEF ConvergingInv, Settled, Passed

\* One phase of the active branch keeps the invariant.
LEMMA ConvergingPhase ==
  ASSUME TypeOK, SecretInv, ConvergingInv, NEW r \in Resources, ReconcileResource(r)
  PROVE  ConvergingInv'
<1> SUFFICES ASSUME Settled', secret'.st = "active"
             PROVE  /\ pc' # "idle" => snap' = secret' /\ secret'.data.remote \in {"none", rw'}
                    /\ pc' # "addFinalizer" => secret'.fin
                    /\ \A q \in Resources : Passed(q)' /\ ~Skipped(q)
                         => Wanted(q, res'[q], secret'.data)
  BY DEF ConvergingInv, Skipped
<1>1. ~Requeue
  BY DEF Requeue, Settled
<1>2. /\ pc = r /\ UNCHANGED <<secret, cSecret, rw, queued, cidr>>
      /\ pc' = After[r]
      /\ pc' # "idle" => snap' = snap
      /\ res' = IF Skipped(r) THEN res ELSE [res EXCEPT ![r] = Desired(r, snap.data, rw, cidr)]
      /\ Skipped(r) \/ ~Refused(r, snap.data, rw, cidr)
  BY <1>1 DEF ReconcileResource, Done, GoTo
<1>3. pc # "idle" /\ pc # "addFinalizer"
  BY <1>2, ResourcePhases
<1>4. /\ snap = secret /\ secret.data.remote \in {"none", rw} /\ secret.fin
      /\ \A q \in Resources : Passed(q) /\ ~Skipped(q) => Wanted(q, res[q], secret.data)
  BY <1>2, <1>3 DEF ConvergingInv, Settled
<1>5. ASSUME NEW q \in Resources, Passed(q)', ~Skipped(q) PROVE Wanted(q, res'[q], secret'.data)
  <2>1. CASE q = r
    <3>1. res'[q] = Desired(r, snap.data, rw, cidr)
      BY <1>2, <1>5, <2>1 DEF TypeOK
    <3>2. cidr \in Cidrs \cup {Missing}
      BY DEF TypeOK
    <3> QED
      BY <1>2, <1>4, <1>5, <2>1, <3>1, <3>2, WantedWritten
  <2>2. CASE q # r
    <3>1. Passed(q)
      BY <1>2, <1>5, <2>2, PassedNext
    <3>2. res'[q] = res[q]
      BY <1>2, <2>2 DEF TypeOK
    <3> QED
      BY <1>2, <1>4, <1>5, <3>1, <3>2
  <2> QED
    BY <2>1, <2>2
<1> QED
  BY <1>2, <1>4, <1>5

\* Every step keeps it.
LEMMA ConvergingStep == TypeOK /\ SecretInv /\ ConvergingInv /\ [Next]_vars => ConvergingInv'
<1> SUFFICES ASSUME TypeOK, SecretInv, ConvergingInv, [Next]_vars PROVE ConvergingInv'
  OBVIOUS
<1>a. VersionInv
  BY DEF SecretInv
<1>b. ASSUME ~Settled' PROVE ConvergingInv'
  BY <1>b DEF ConvergingInv
<1>c. ASSUME queued' PROVE ConvergingInv'
  BY <1>b, <1>c DEF Settled
<1>d. ASSUME pc \in DeletionPhases, secret' = secret PROVE ConvergingInv'
  BY <1>d DEF ConvergingInv, SecretInv, PhaseInv, DeletionFinal
<1>e. ASSUME Requeue PROVE ConvergingInv'
  BY <1>c, <1>e DEF Requeue
<1>1. CASE Reconcile
  <2> SUFFICES ASSUME Settled', secret'.st = "active" PROVE ConvergingInv'
    BY DEF ConvergingInv
  <2>1. queued /\ pc = "idle" /\ UNCHANGED <<secret, cSecret>>
    BY <1>1 DEF Reconcile
  <2>2. cSecret = secret /\ cSecret.st = "active" /\ ~queued'
    BY <2>1 DEF Settled
  <2>3. /\ pc' = "addFinalizer" /\ snap' = cSecret
        /\ cSecret.data.remote # "garbled" /\ rw' = ParseRemoteWrite(cSecret.data)
    BY <1>1, <2>1, <2>2 DEF Reconcile
  <2>4. secret'.data.remote \in {"none", rw'}
    BY <2>1, <2>2, <2>3 DEF ParseRemoteWrite
  <2> QED
    BY <2>1, <2>2, <2>3, <2>4, ResourcePhases DEF ConvergingInv, Passed
<1>2. CASE AddFinalizer
  <2>1. CASE snap.fin /\ GoTo("alertRelabel") /\ UNCHANGED <<secret, cSecret, rw>>
    <3> SUFFICES ASSUME Settled', secret'.st = "active" PROVE ConvergingInv'
      BY DEF ConvergingInv
    <3>1. pc = "addFinalizer" /\ pc' = "alertRelabel" /\ Settled /\ secret.st = "active"
      BY <1>2, <2>1 DEF AddFinalizer, GoTo, Settled
    <3>2. snap = secret /\ secret.data.remote \in {"none", rw}
      BY <3>1 DEF ConvergingInv
    <3>3. \A r \in Resources : ~Passed(r)'
      BY <3>1, PhaseOrder, ResourcePhases DEF Passed, Place
    <3> QED
      BY <2>1, <3>1, <3>2, <3>3 DEF ConvergingInv, GoTo
  <2>2. CASE WriteSecret(secret.st, TRUE, secret.data) /\ queued' = QueuedBySecret
    BY <1>a, <1>b, <2>2, WriteUnsettles
  <2> QED
    BY <1>2, <1>e, <2>1, <2>2 DEF AddFinalizer
<1>3. ASSUME NEW r \in Resources, ReconcileResource(r) PROVE ConvergingInv'
  BY <1>3, ConvergingPhase
<1>4. CASE ListOfferings
  BY <1>4, <1>d DEF ListOfferings, DeletionPhases
<1>5. ASSUME NEW o \in Offerings, DeleteOffering(o) PROVE ConvergingInv'
  BY <1>5, <1>d DEF DeleteOffering, DeletionPhases
<1>6. CASE RemoveFinalizer
  <2>1. CASE WriteSecret("absent", FALSE, secret.data) /\ queued' = QueuedBySecret
    BY <1>a, <1>b, <2>1, WriteUnsettles
  <2>2. CASE secret' = secret
    BY <1>6, <1>d, <2>2 DEF RemoveFinalizer, DeletionPhases
  <2> QED
    BY <1>6, <2>1, <2>2 DEF RemoveFinalizer
<1>7. CASE InitiateAgentUninstallation
  BY <1>7, <1>d DEF InitiateAgentUninstallation, DeletionPhases
<1>8. CASE ApiFailure
  BY <1>8, <1>e DEF ApiFailure
<1>9. CASE Crash
  <2>1. secret' = secret /\ queued' = (secret.st # "absent")
    BY <1>9 DEF Crash
  <2>2. CASE secret.st = "absent"
    BY <2>1, <2>2 DEF ConvergingInv
  <2>3. CASE secret.st # "absent"
    BY <1>c, <2>1, <2>3
  <2> QED
    BY <2>2, <2>3
<1>10. CASE SecretInformer \/ MonitorEvent \/ ResyncSecret
  BY <1>10, <1>c DEF SecretInformer, MonitorEvent, ResyncSecret
<1>11. CASE OfferingInformer
  BY <1>11, ConvergingKept DEF OfferingInformer
<1>12. ASSUME NEW data \in SecretData, UserCreateSecret(data) \/ UserEditSecret(data)
       PROVE  ConvergingInv'
  BY <1>12, <1>a, <1>b, WriteUnsettles DEF UserCreateSecret, UserEditSecret
<1>13. CASE UserDeleteSecret
  BY <1>13, <1>a, <1>b, WriteUnsettles DEF UserDeleteSecret
<1>14. CASE \E o \in Offerings : CreateOffering(o) \/ UserDeleteOffering(o) \/ OfferingGone(o)
  BY <1>14, ConvergingKept DEF CreateOffering, UserDeleteOffering, OfferingGone
<1>15. CASE \E text \in Cidrs : GatherAndSaveData(text)
  BY <1>15, ConvergingKept DEF GatherAndSaveData
<1>16. CASE \E r \in Drifting : Drift(r)
  BY <1>16, <1>c DEF Drift
<1>17. CASE UNCHANGED vars
  BY <1>17, ConvergingKept DEF vars
<1> QED
  BY <1>1, <1>2, <1>3, <1>4, <1>5, <1>6, <1>7, <1>8, <1>9, <1>10, <1>11, <1>12, <1>13, <1>14,
     <1>15, <1>16, <1>17, StepCases

\* So it holds at every moment.
LEMMA ConvergingAlways == Spec => []ConvergingInv
<1>1. Init => ConvergingInv
  BY DEF Init, ConvergingInv, NoSecret
<1> QED
  BY <1>1, ConvergingStep, TypeCorrect, SecretAlways, PTL DEF Spec

\* At rest the worker is past every resource.
LEMMA WantedAtRest ==
  ASSUME ConvergingInv, Quiescent, secret.st = "active"
  PROVE  secret.fin /\ \A r \in Resources : ~Skipped(r) => Wanted(r, res[r], secret.data)
BY DEF ConvergingInv, Quiescent, Settled, Passed

\* A reconciler at rest has the finalizer in place and every managed resource as the secret
\* of now asks, whatever was edited or tampered with, failed or crashed on the way and
\* however far the cache was behind.
THEOREM Converges == Spec => []SettledMeansConverged
<1>1. ConvergingInv => SettledMeansConverged
  BY WantedAtRest DEF Converged, Wanted, SettledMeansConverged
<1> QED
  BY <1>1, ConvergingAlways, PTL

\* No destination is the empty text, an error page or a separator.
LEMMA HostsAreNames ==
  ASSUME NEW host \in Hosts
  PROVE  host # Empty /\ host # <<"error">> /\ host # <<Separator>>
<1>1. CASE \E t \in Cidrs : host \in BlocksIn(t)
  <2>1. PICK t \in Cidrs : host \in BlocksIn(t)
    BY <1>1
  <2>2. \E x : host = <<x>>
    BY <2>1 DEF BlocksIn
  <2> QED
    BY <2>1, <2>2, TextsDiffer DEF BlocksIn
<1> DEFINE names == {"events.pagerduty.com", "RemoteWriteDNSName", "100.64.0.0/16",
                     "h1", "h2", "other"}
<1>2. CASE \E x \in names : host = <<x>>
  <2>1. PICK x \in names : host = <<x>>
    BY <1>2
  <2>2. x # "error" /\ x # Separator
    BY <2>1 DEF Separator
  <2> HIDE DEF names
  <2>3. \A y : <<x>> = <<y>> => x = y
    OBVIOUS
  <2>4. host # <<"error">> /\ host # <<Separator>>
    BY <2>1, <2>2, <2>3, Zenon
  <2> QED
    BY <2>1, <2>4, TextsDiffer
<1> QED
  BY <1>1, <1>2 DEF Hosts, TemplateHosts, ClusterNetwork

\* The rules that a phase writes, out of any data and any text, let out what they should.
LEMMA RulesExact ==
  ASSUME NEW r, NEW data, NEW text \in Cidrs, NEW host \in Hosts
  PROVE  Verdict(DesiredEgress(r, data, text), host) = "Allow" <=>
           host \in TemplateHosts \cup {<<data.smtp>>} \cup BlocksIn(text)
<1> DEFINE rules == EgressFirewallRules(text, <<data.smtp>>)
           named == TemplateHosts \cup {<<data.smtp>>} \cup {<<text[i]>> : i \in Symbols(text)}
<1>1. /\ text \in Seq(STRING) /\ Separated(text, Separator)
      /\ \A i \in DOMAIN text : text[i] # "0.0.0.0/0"
  BY ManagedFusionAssumption
<1>2. Verdict(rules, host) = "Allow" <=> host \in named
  BY <1>1, HostsAreNames, RulesLetOut
<1>3. PICK T : rules \in Seq(T)
  BY <1>1, RulesAreList
<1>4. Verdict(DesiredEgress(r, data, text), host) = Verdict(rules, host)
  <2>1. DesiredEgress(r, data, text) =
          IF r = "egressFirewall" THEN rules ELSE EgressNetworkPolicyRules(rules)
    BY DEF DesiredEgress
  <2> HIDE DEF rules
  <2> QED
    BY <1>3, <2>1, SameVerdict
<1>5. (\E i \in Symbols(text) : host = <<text[i]>>) <=> host \in BlocksIn(text)
  <2>1. host # <<"error">> /\ host # <<Separator>>
    BY HostsAreNames
  <2>2. \A i \in DOMAIN text : host = <<text[i]>> => text[i] # Separator
    BY <2>1
  <2> QED
    BY <2>1, <2>2 DEF Symbols, BlocksIn
<1> QED
  BY <1>2, <1>4, <1>5

\* A reconciler at rest lets out exactly what it should, whatever the secret says and the
\* gatherer saved: the rules in place are of one text and of the secret of now, never a
\* mixture, and every host they allow comes before what they deny.
THEOREM EgressFollowsRules == Spec => []EgressExact
<1>1. TypeOK /\ ConvergingInv => EgressExact
  <2> SUFFICES ASSUME TypeOK, ConvergingInv, Quiescent, secret.st = "active",
                      NEW r \in EgressCrds
               PROVE  \E text \in Cidrs : \A host \in Hosts :
                        Verdict(res[r], host) = "Allow" <=>
                          host \in TemplateHosts \cup {<<secret.data.smtp>>} \cup BlocksIn(text)
    BY DEF EgressExact
  <2>1. r \in EgressResources /\ r \in Resources /\ ~Skipped(r) /\ r # "prometheus"
    BY ManagedFusionAssumption, ResourcePhases DEF EgressResources, Skipped
  <2>2. PICK text \in Cidrs : res[r] = DesiredEgress(r, secret.data, text)
    BY <2>1, WantedAtRest DEF Wanted
  <2> QED
    BY <2>2, RulesExact
<1> QED
  BY <1>1, ConvergingAlways, TypeCorrect, PTL
=============================================================================
