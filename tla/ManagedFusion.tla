----------------------------- MODULE ManagedFusion -----------------------------
(***************************************************************************)
(* The ManagedFusion reconciler (controllers/managedfusion_controller.go). *)
(* Its input is one secret, "managed-fusion-agent-config": an active one   *)
(* is turned into the monitoring stack and the egress rules of the agent's *)
(* namespace, and deleting it uninstalls the agent: every                  *)
(* ManagedFusionOffering on the cluster is asked to go, and when none is   *)
(* left the secret is released and the agent's own namespace is deleted.   *)
(* The worker, its caches and its failures are as in module Offering.      *)
(***************************************************************************)
EXTENDS Naturals, FiniteSets, EgressRules

CONSTANTS
  Offerings,     \* the ManagedFusionOfferings that may come to exist
  SecretData,    \* contents of the secret, see Data
  EgressCrds,    \* AvailableCRDs: which of the two egress CRDs the cluster has
  Cidrs,         \* the texts that the AWS data gatherer may save (module AWSDataGather)
  CacheLag,      \* may the informers' copies of the secret and of the offerings be older than
                 \* the live objects?  (The ConfigMap and the managed resources are read live.)
  MaxSecretRv,   \* bound on the resource version up to which the user edits the secret
  MaxFaults,     \* bound on failed API calls plus crashes
  Drifting       \* the managed resources that somebody may tamper with

Tokens == {"t1", "t2"}

\* The secret's data, as far as the reconciler tells it apart: valid, if pager_duty_config
\* and smtp_config are there and are YAML; what remote_write_config holds, if anything;
\* the service key and the password, the texts the alert configuration needs, whether there
\* is anybody to notify by e-mail, and the SMTP endpoint ("portOnly" has a URL host, but no
\* host name).  "none" is empty.
Data == [valid : BOOLEAN, remote : {"none", "garbled", "empty"} \cup Tokens,
         credentials : {"none", "k1", "k2"}, contacts : {"none", "a1"},
         emails : BOOLEAN, smtp : {"none", "portOnly", "h1", "h2"}]

\* A text has a separator between any two symbols; no VPC has all addresses for a block.
ASSUME ManagedFusionAssumption ==
  /\ SecretData \subseteq Data
  /\ SecretData # {}
  /\ EgressCrds \subseteq {"egressFirewall", "egressNetworkPolicy"}
  /\ \A text \in Cidrs :
       /\ text \in Seq(STRING) /\ text # <<"missing">> /\ Separated(text, Separator)
       /\ \A i \in DOMAIN text : text[i] # "0.0.0.0/0"
  /\ CacheLag \in BOOLEAN
  /\ MaxSecretRv \in Nat
  /\ MaxFaults \in Nat

VARIABLES
  secret,        \* the live secret
  cSecret,       \* the informer's copy of it
  offs,          \* the live ManagedFusionOfferings
  cOffs,         \* the informer's copy of them
  late,          \* history: the offerings created since the last list of the deletion branch
  res,           \* the content of each managed resource
  cidr,          \* the text in the AWS IMDS ConfigMap
  ns,            \* the agent's namespace: "active" or "terminating"
  rw,            \* r.remoteWriteConfigData, which outlives a reconcile
  queued, pc, snap,
  todo,          \* the offerings this reconcile has still to delete
  faults

apiVars == <<secret, offs, res, cidr, ns, late>>
cacheVars == <<cSecret, cOffs>>
workerVars == <<queued, pc, snap, todo, rw>>
vars == <<secret, cSecret, offs, cOffs, late, res, cidr, ns, rw, queued, pc, snap, todo, faults>>

AnyData == CHOOSE d \in SecretData : TRUE

SecretObj == [st : {"absent", "active", "deleting"}, fin : BOOLEAN, data : SecretData, rv : Nat]

NoSecret == [st |-> "absent", fin |-> FALSE, data |-> AnyData, rv |-> 0]

WriteSecret(st, fin, data) ==
  /\ secret' = [st |-> st, fin |-> fin, data |-> data, rv |-> secret.rv + 1]
  /\ cSecret' = IF CacheLag THEN cSecret ELSE secret'

QueuedBySecret == queued \/ ~CacheLag

WriteOfferings(offerings) ==
  /\ offs' = offerings
  /\ cOffs' = IF CacheLag THEN cOffs ELSE offerings

UpdateAccepted == secret.st # "absent" /\ snap.rv = secret.rv

-----------------------------------------------------------------------------
(* The managed resources, in the order of reconcilePhases.                 *)

After == [alertRelabel |-> "kubeRBAC", kubeRBAC |-> "prometheusService",
          prometheusService |-> "prometheus", prometheus |-> "alertmanager",
          alertmanager |-> "alertmanagerSecret", alertmanagerSecret |-> "alertmanagerConfig",
          alertmanagerConfig |-> "k8sMetrics", k8sMetrics |-> "proxyNetworkPolicy",
          proxyNetworkPolicy |-> "egressFirewall", egressFirewall |-> "egressNetworkPolicy",
          egressNetworkPolicy |-> "idle"]

Resources == DOMAIN After

Absent == <<>>

Tampered == <<"tampered">>

\* The resources whose content comes from a template and the agent's namespace alone.
TemplateResources == {"alertRelabel", "kubeRBAC", "prometheusService", "alertmanager",
                      "k8sMetrics", "proxyNetworkPolicy"}

EgressResources == {"egressFirewall", "egressNetworkPolicy"}

\* reconcilePrometheus: remote write with the bearer token in memory, or switched off when
\* there is no configuration in memory.
DesiredPrometheus(remote) == IF remote = "nil" THEN <<"off">> ELSE <<"remoteWrite", remote>>

\* The errors that have their cause in the cluster (no agent CSV, or one without the manager's
\* Deployment, no ClusterVersion) are left to ApiFailure, so they are assumed to pass.
PrometheusRefused(remote) == remote = "empty"

DesiredAlertmanagerSecret(data) == <<data.credentials>>

AlertmanagerSecretRefused(data) == data.credentials = "none"

\* Without anybody to notify there is no e-mail receiver.
DesiredAlertmanagerConfig(data) ==
  <<data.contacts, IF data.emails THEN data.smtp ELSE "nobody">>

\* The HTML template of the notification is in the agent's image; failing to read it is left
\* to ApiFailure.
AlertmanagerConfigRefused(data) == data.contacts = "none" \/ data.smtp = "none"

\* The ConfigMap, or its key, is not there.
Missing == <<"missing">>

\* reconcileEgressFirewall and reconcileEgressNetworkPolicy.
DesiredEgress(r, data, text) ==
  LET rules == EgressFirewallRules(text, <<data.smtp>>)
  IN IF r = "egressFirewall" THEN rules ELSE EgressNetworkPolicyRules(rules)

EgressRefused(data, text) == text = Missing \/ data.smtp \in {"none", "portOnly"}

\* What each phase wants of its resource, and when its mutate function returns an error.
Desired(r, data, remote, text) ==
  CASE r \in TemplateResources -> <<"template">>
    [] r = "prometheus" -> DesiredPrometheus(remote)
    [] r = "alertmanagerSecret" -> DesiredAlertmanagerSecret(data)
    [] r = "alertmanagerConfig" -> DesiredAlertmanagerConfig(data)
    [] r \in EgressResources -> DesiredEgress(r, data, text)

Refused(r, data, remote, text) ==
  \/ r = "prometheus" /\ PrometheusRefused(remote)
  \/ r = "alertmanagerSecret" /\ AlertmanagerSecretRefused(data)
  \/ r = "alertmanagerConfig" /\ AlertmanagerConfigRefused(data)
  \/ r \in EgressResources /\ EgressRefused(data, text)

\* The egress rules are skipped on a cluster without their CRD.
Skipped(r) == r \in EgressResources \ EgressCrds

-----------------------------------------------------------------------------
(* The worker.                                                             *)

Done == /\ pc' = "idle"
        /\ snap' = NoSecret
        /\ todo' = {}
        /\ UNCHANGED queued

Requeue == /\ pc' = "idle"
           /\ snap' = NoSecret
           /\ todo' = {}
           /\ queued' = TRUE

GoTo(phase) == /\ pc' = phase
               /\ UNCHANGED <<snap, queued, todo>>

-----------------------------------------------------------------------------
(* Mutated phases: plausible slips that a property must detect.  Nothing   *)
(* below refers to them.                                                   *)

\* The missing key is taken for a value.
ParseRemoteWriteAlways(data) == data.remote

\* A secret that is not found is taken for a deleted one.
ReconcileMissingAsDeleted ==
  /\ pc = "idle"
  /\ queued
  /\ queued' = FALSE
  /\ snap' = cSecret
  /\ pc' = IF cSecret.st = "active" THEN "addFinalizer" ELSE "listOfferings"
  /\ UNCHANGED <<apiVars, cacheVars, todo, rw, faults>>

\* The phases run only in the reconcile that added the finalizer.
AddFinalizerAndReturn ==
  /\ pc = "addFinalizer"
  /\ \/ /\ snap.fin
        /\ Done
        /\ UNCHANGED <<secret, cSecret>>
     \/ /\ ~snap.fin
        /\ UpdateAccepted
        /\ WriteSecret(secret.st, TRUE, secret.data)
        /\ snap' = secret'
        /\ pc' = "alertRelabel"
        /\ queued' = QueuedBySecret
        /\ UNCHANGED todo
     \/ /\ ~snap.fin
        /\ ~UpdateAccepted
        /\ Requeue
        /\ UNCHANGED <<secret, cSecret>>
  /\ UNCHANGED <<offs, cOffs, res, cidr, ns, late, rw, faults>>

\* The error of a phase is logged and swallowed.
ReconcileResourceErrorIgnored(r) ==
  /\ pc = r
  /\ IF ~Skipped(r) /\ Refused(r, snap.data, rw, cidr)
       THEN Done /\ UNCHANGED res
       ELSE /\ res' = IF Skipped(r) THEN res ELSE [res EXCEPT ![r] = Desired(r, snap.data, rw, cidr)]
            /\ IF After[r] = "idle" THEN Done ELSE GoTo(After[r])
  /\ UNCHANGED <<secret, offs, cidr, ns, late, cacheVars, rw, faults>>


\* Offerings that are on their way out count as gone.
ListActiveOfferings ==
  /\ pc = "listOfferings"
  /\ LET active == {o \in Offerings : cOffs[o] = "active"}
     IN /\ todo' = active
        /\ pc' = IF active = {} THEN "removeFinalizer" ELSE "deleteOfferings"
        /\ UNCHANGED <<snap, queued>>
  /\ late' = {}
  /\ UNCHANGED <<secret, offs, res, cidr, ns, cacheVars, rw, faults>>

\* The errors of the loop are collected and forgotten.
DeleteOfferingErrorIgnored(o) ==
  /\ pc = "deleteOfferings"
  /\ o \in todo
  /\ \/ /\ WriteOfferings([offs EXCEPT ![o] = IF offs[o] = "active" THEN "deleting" ELSE offs[o]])
        /\ UNCHANGED faults
     \/ /\ faults > 0
        /\ faults' = faults - 1
        /\ UNCHANGED <<offs, cOffs>>
  /\ IF todo = {o} THEN Done
                   ELSE todo' = todo \ {o} /\ UNCHANGED <<pc, snap, queued>>
  /\ UNCHANGED <<secret, cSecret, res, cidr, ns, late, rw>>

\* The finalizer is taken off the copy, but the secret is not updated.
RemoveFinalizerFromCopyOnly ==
  /\ pc = "removeFinalizer"
  /\ GoTo("deleteNamespace")
  /\ UNCHANGED <<apiVars, cacheVars, rw, faults>>

\* The reconcile returns after the update that removed the finalizer.
RemoveFinalizerAndReturn ==
  /\ pc = "removeFinalizer"
  /\ IF snap.fin /\ UpdateAccepted
       THEN /\ WriteSecret("absent", FALSE, secret.data)
            /\ Done
       ELSE /\ Requeue
            /\ UNCHANGED <<secret, cSecret>>
  /\ UNCHANGED <<offs, cOffs, res, cidr, ns, late, rw, faults>>

-----------------------------------------------------------------------------
(* Phases of a reconcile.                                                  *)

\* remote_write_config is parsed into memory if it is there, and what memory holds from
\* an earlier reconcile stays if it is not.
ParseRemoteWrite(data) ==
  CASE data.remote = "none" -> rw
    [] data.remote = "garbled" -> "empty"
    [] OTHER -> data.remote

\* Reconcile takes the request, gets the secret and checks its structure; an error gives
\* the request back.
Reconcile ==
  /\ pc = "idle"
  /\ queued
  /\ \/ /\ cSecret.st = "absent"
        /\ queued' = FALSE
        /\ UNCHANGED <<pc, snap, rw>>
     \/ /\ cSecret.st # "absent"
        /\ ~cSecret.data.valid
        /\ UNCHANGED <<queued, pc, snap, rw>>
     \/ /\ cSecret.st # "absent"
        /\ cSecret.data.valid
        /\ rw' = ParseRemoteWrite(cSecret.data)
        /\ \/ /\ cSecret.data.remote = "garbled"
              /\ UNCHANGED <<queued, pc, snap>>
           \/ /\ cSecret.data.remote # "garbled"
              /\ queued' = FALSE
              /\ snap' = cSecret
              /\ pc' = IF cSecret.st = "deleting" THEN "listOfferings" ELSE "addFinalizer"
  /\ UNCHANGED <<apiVars, cacheVars, todo, faults>>

AddFinalizer ==
  /\ pc = "addFinalizer"
  /\ \/ /\ snap.fin
        /\ GoTo("alertRelabel")
        /\ UNCHANGED <<secret, cSecret>>
     \/ /\ ~snap.fin
        /\ UpdateAccepted
        /\ WriteSecret(secret.st, TRUE, secret.data)
        /\ snap' = secret'
        /\ pc' = "alertRelabel"
        /\ queued' = QueuedBySecret
        /\ UNCHANGED todo
     \/ /\ ~snap.fin
        /\ ~UpdateAccepted
        /\ Requeue
        /\ UNCHANGED <<secret, cSecret>>
  /\ UNCHANGED <<offs, cOffs, res, cidr, ns, late, rw, faults>>

\* One CreateOrUpdate phase.
ReconcileResource(r) ==
  /\ pc = r
  /\ \/ /\ ~Skipped(r)
        /\ Refused(r, snap.data, rw, cidr)
        /\ Requeue
        /\ UNCHANGED res
     \/ /\ Skipped(r) \/ ~Refused(r, snap.data, rw, cidr)
        /\ res' = IF Skipped(r) THEN res ELSE [res EXCEPT ![r] = Desired(r, snap.data, rw, cidr)]
        /\ IF After[r] = "idle" THEN Done ELSE GoTo(After[r])
  /\ UNCHANGED <<secret, offs, cidr, ns, late, cacheVars, rw, faults>>

\* The deletion branch: what the list finds decides.  If every offering is on its way out
\* the reconcile ends, and nothing brings it back.
ListOfferings ==
  /\ pc = "listOfferings"
  /\ LET listed == {o \in Offerings : cOffs[o] \in {"active", "deleting"}}
         active == {o \in Offerings : cOffs[o] = "active"}
     IN \/ /\ listed = {}
           /\ GoTo("removeFinalizer")
        \/ /\ listed # {}
           /\ active = {}
           /\ Done
        \/ /\ active # {}
           /\ todo' = active
           /\ pc' = "deleteOfferings"
           /\ UNCHANGED <<snap, queued>>
  /\ late' = {}
  /\ UNCHANGED <<secret, offs, res, cidr, ns, cacheVars, rw, faults>>

\* One delete of the loop; one that fails does not keep the others from being tried.
\* In the end there was an error, or an offering was found: either way the request
\* comes back.
DeleteOffering(o) ==
  /\ pc = "deleteOfferings"
  /\ o \in todo
  /\ \/ /\ WriteOfferings([offs EXCEPT ![o] = IF offs[o] = "active" THEN "deleting" ELSE offs[o]])
        /\ UNCHANGED faults
     \/ /\ faults > 0
        /\ faults' = faults - 1
        /\ UNCHANGED <<offs, cOffs>>
  /\ IF todo = {o} THEN Requeue
                   ELSE todo' = todo \ {o} /\ UNCHANGED <<pc, snap, queued>>
  /\ UNCHANGED <<secret, cSecret, res, cidr, ns, late, rw>>

RemoveFinalizer ==
  /\ pc = "removeFinalizer"
  /\ \/ /\ ~snap.fin
        /\ GoTo("deleteNamespace")
        /\ UNCHANGED <<secret, cSecret>>
     \/ /\ snap.fin
        /\ UpdateAccepted
        /\ WriteSecret("absent", FALSE, secret.data)
        /\ pc' = "deleteNamespace"
        /\ queued' = QueuedBySecret
        /\ UNCHANGED <<snap, todo>>
     \/ /\ snap.fin
        /\ ~UpdateAccepted
        /\ Requeue
        /\ UNCHANGED <<secret, cSecret>>
  /\ UNCHANGED <<offs, cOffs, res, cidr, ns, late, rw, faults>>

InitiateAgentUninstallation ==
  /\ pc = "deleteNamespace"
  /\ ns' = "terminating"
  /\ Done
  /\ UNCHANGED <<secret, offs, res, cidr, late, cacheVars, rw, faults>>

AgentStep ==
  \/ Reconcile
  \/ AddFinalizer
  \/ \E r \in Resources : ReconcileResource(r)
  \/ ListOfferings
  \/ \E o \in Offerings : DeleteOffering(o)
  \/ RemoveFinalizer
  \/ InitiateAgentUninstallation

-----------------------------------------------------------------------------
(* Failures and events.                                                    *)

ApiFailure ==
  /\ pc \notin {"idle", "deleteOfferings"}
  /\ faults > 0
  /\ faults' = faults - 1
  /\ Requeue
  /\ UNCHANGED <<apiVars, cacheVars, rw>>

\* The process ends: a crash, or the exit of HandleMissingWatch in the other controller.
Crash ==
  /\ faults > 0
  /\ faults' = faults - 1
  /\ pc' = "idle"
  /\ snap' = NoSecret
  /\ todo' = {}
  /\ rw' = "nil"
  /\ cSecret' = secret
  /\ cOffs' = offs
  /\ queued' = (secret.st # "absent")
  /\ UNCHANGED apiVars

SecretInformer ==
  /\ cSecret # secret
  /\ cSecret' = secret
  /\ queued' = TRUE
  /\ UNCHANGED <<apiVars, cOffs, pc, snap, todo, rw, faults>>

\* ManagedFusionOfferings are cached but not watched by this controller.
OfferingInformer ==
  /\ cOffs # offs
  /\ cOffs' = offs
  /\ UNCHANGED <<apiVars, cSecret, workerVars, faults>>

\* A monitor or rule without the agent's label appears or changes somewhere on the cluster.
MonitorEvent ==
  /\ ~queued
  /\ queued' = TRUE
  /\ UNCHANGED <<apiVars, cacheVars, pc, snap, todo, rw, faults>>

\* The periodic resync of the secret's informer.
ResyncSecret ==
  /\ ~queued
  /\ cSecret.st # "absent"
  /\ queued' = TRUE
  /\ UNCHANGED <<apiVars, cacheVars, pc, snap, todo, rw, faults>>

-----------------------------------------------------------------------------
(* The rest of the cluster.                                                *)

UserCreateSecret(data) ==
  /\ secret.rv = 0
  /\ WriteSecret("active", FALSE, data)
  /\ queued' = QueuedBySecret
  /\ UNCHANGED <<offs, cOffs, res, cidr, ns, late, pc, snap, todo, rw, faults>>

UserEditSecret(data) ==
  /\ secret.st # "absent"
  /\ secret.rv < MaxSecretRv
  /\ secret.data # data
  /\ WriteSecret(secret.st, secret.fin, data)
  /\ queued' = QueuedBySecret
  /\ UNCHANGED <<offs, cOffs, res, cidr, ns, late, pc, snap, todo, rw, faults>>

UserDeleteSecret ==
  /\ secret.st = "active"
  /\ WriteSecret(IF secret.fin THEN "deleting" ELSE "absent", secret.fin, secret.data)
  /\ queued' = QueuedBySecret
  /\ UNCHANGED <<offs, cOffs, res, cidr, ns, late, pc, snap, todo, rw, faults>>

CreateOffering(o) ==
  /\ offs[o] = "none"
  /\ WriteOfferings([offs EXCEPT ![o] = "active"])
  /\ late' = late \cup {o}
  /\ UNCHANGED <<secret, cSecret, res, cidr, ns, workerVars, faults>>

UserDeleteOffering(o) ==
  /\ offs[o] = "active"
  /\ WriteOfferings([offs EXCEPT ![o] = "deleting"])
  /\ UNCHANGED <<secret, cSecret, res, cidr, ns, late, workerVars, faults>>

\* The offering reconciler has released the offering.
OfferingGone(o) ==
  /\ offs[o] = "deleting"
  /\ WriteOfferings([offs EXCEPT ![o] = "gone"])
  /\ UNCHANGED <<secret, cSecret, res, cidr, ns, late, workerVars, faults>>

\* The AWS data gatherer saves what it found; its ConfigMap is not watched.
GatherAndSaveData(text) ==
  /\ cidr # text
  /\ cidr' = text
  /\ UNCHANGED <<secret, offs, res, ns, late, cacheVars, workerVars, faults>>

\* Every managed resource is owned by the secret and watched.
Drift(r) ==
  /\ res[r] \notin {Absent, Tampered}
  /\ res' = [res EXCEPT ![r] = Tampered]
  /\ queued' = TRUE
  /\ UNCHANGED <<secret, offs, cidr, ns, late, cacheVars, pc, snap, todo, rw, faults>>

Init ==
  /\ secret = NoSecret /\ cSecret = NoSecret
  /\ offs = [o \in Offerings |-> "none"] /\ cOffs = [o \in Offerings |-> "none"]
  /\ late = {}
  /\ res = [r \in Resources |-> Absent]
  /\ cidr = Missing
  /\ ns = "active"
  /\ rw = "nil"
  /\ queued = FALSE /\ pc = "idle" /\ snap = NoSecret /\ todo = {}
  /\ faults = MaxFaults

Next ==
  \/ AgentStep
  \/ ApiFailure
  \/ Crash
  \/ SecretInformer
  \/ OfferingInformer
  \/ MonitorEvent
  \/ ResyncSecret
  \/ \E data \in SecretData : UserCreateSecret(data) \/ UserEditSecret(data)
  \/ UserDeleteSecret
  \/ \E o \in Offerings : CreateOffering(o) \/ UserDeleteOffering(o) \/ OfferingGone(o)
  \/ \E text \in Cidrs : GatherAndSaveData(text)
  \/ \E r \in Drifting : Drift(r)

Spec == Init /\ [][Next]_vars

\* The worker runs while the request is queued, events are delivered, offerings that are
\* being deleted go away (module DataFoundation: OfferingRemoved) and the resync comes
\* round.  The data gatherer finds a CIDR in the end.
Fairness ==
  /\ WF_vars(AgentStep)
  /\ WF_vars(SecretInformer)
  /\ WF_vars(OfferingInformer)
  /\ WF_vars(ResyncSecret)
  /\ \A o \in Offerings : WF_vars(OfferingGone(o))
  /\ WF_vars(cidr = Missing /\ \E text \in Cidrs : GatherAndSaveData(text))

FairSpec == Spec /\ Fairness

-----------------------------------------------------------------------------
(* Correctness.                                                            *)

\* Every variable has its type.
TypeOK ==
  /\ secret \in SecretObj /\ cSecret \in SecretObj /\ snap \in SecretObj
  /\ offs \in [Offerings -> {"none", "active", "deleting", "gone"}]
  /\ cOffs \in [Offerings -> {"none", "active", "deleting", "gone"}]
  /\ late \subseteq Offerings /\ todo \subseteq Offerings
  /\ DOMAIN res = Resources
  /\ cidr \in Cidrs \cup {Missing}
  /\ ns \in {"active", "terminating"}
  /\ rw \in {"nil", "empty"} \cup Tokens
  /\ queued \in BOOLEAN
  /\ pc \in Resources \cup {"idle", "addFinalizer", "listOfferings", "deleteOfferings",
                            "removeFinalizer", "deleteNamespace"}
  /\ faults \in 0..MaxFaults

\* The agent is uninstalled last: when its namespace is deleted the secret is released and
\* the only offerings there are were created after the last list had found none, whatever
\* deletes fail and wherever the process dies on the way.  (With caches up to date.)
UninstallWaits ==
  ns = "terminating" =>
    ~secret.fin /\ \A o \in Offerings : offs[o] \in {"none", "gone"} \/ o \in late

\* The agent asks an offering to go only after the secret was deleted: never from a copy
\* that is behind, and not for an edit of the secret during the reconcile.
OfferingsLeftAlone ==
  [][pc = "deleteOfferings" /\ offs' # offs /\ todo' # todo => secret.st # "active"]_vars

Quiescent ==
  /\ pc = "idle" /\ ~queued
  /\ cSecret = secret

\* When the reconciler comes to rest during an uninstallation, every offering has been
\* asked to go but those created since it last looked: no failed or lost delete and no
\* crash in the loop leaves another one behind.
EveryOfferingAsked ==
  Quiescent /\ secret.st = "deleting" => \A o \in Offerings : offs[o] = "active" => o \in late

\* The resources whose content the current secret decides.  remote_write_config is left out
\* when the secret has none (see RemoteWriteFollowsSecret), and the CIDR of the egress rules
\* always (its ConfigMap is not watched).
Converged(data) ==
  \A r \in {x \in Resources : ~Skipped(x)} :
    \/ r = "prometheus" /\ data.remote = "none" /\ res[r] \notin {Absent, Tampered}
    \/ r \notin EgressResources /\ res[r] = Desired(r, data, data.remote, Missing)
    \/ r \in EgressResources /\ \E text \in Cidrs : res[r] = DesiredEgress(r, data, text)

\* The reconciler does not stop short: when it has nothing left to do for an active
\* secret, the finalizer is in place and every managed resource is as the secret of now
\* asks, after any edits, drift, failures and crashes.
SettledMeansConverged ==
  Quiescent /\ secret.st = "active" => secret.fin /\ Converged(secret.data)

\* The blocks a text names: an error page names none.
BlocksIn(text) == {<<text[i]>> : i \in DOMAIN text} \ {<<Separator>>, <<"error">>}

\* The destinations to tell apart: those the rules may name and one they never do.
Hosts == TemplateHosts \cup {<<"h1">>, <<"h2">>, <<"other">>} \cup UNION {BlocksIn(t) : t \in Cidrs}

\* "The order or rules matter": under the first-match rule of the network plugins, settled
\* egress rules of either format let traffic out to the template's hosts, the SMTP host of
\* the current secret and the machine's blocks, and to nowhere else.
EgressExact ==
  Quiescent /\ secret.st = "active" =>
    \A r \in EgressCrds : \E text \in Cidrs : \A host \in Hosts :
      Verdict(res[r], host) = "Allow" <=>
        host \in TemplateHosts \cup {<<secret.data.smtp>>} \cup BlocksIn(text)

\* "Reconcile changes to all owned resource based on the information provided by the
\* ManagedFusion secret resource": a settled Prometheus does not write to a remote that
\* the secret does not name.
RemoteWriteFollowsSecret ==
  Quiescent /\ secret.st = "active" /\ secret.data.remote = "none" =>
    res["prometheus"] = <<"off">>

\* "All uninstall conditions are met - should delete the managedFusion secret": the
\* reconciler does not rest on a deleted secret when no offering is left.
UninstallNotStalled ==
  Quiescent /\ secret.st = "deleting" => \E o \in Offerings : offs[o] \in {"active", "deleting"}

Readable(data) == data.valid /\ data.remote # "garbled"

\* A deleted secret is released in the end, however the deletes of the offerings went, as
\* long as it can be parsed: at the latest at a resync.
SecretReleased ==
  secret.st = "deleting" ~> secret.st = "absent" \/ ~Readable(secret.data)

Usable(data) ==
  /\ Readable(data)
  /\ data.remote \in Tokens
  /\ data.credentials # "none" /\ data.contacts # "none" /\ data.smtp \in {"h1", "h2"}

\* A usable secret is applied unless it is replaced or deleted, once there is a CIDR, on a
\* cluster with the agent's CSV and a ClusterVersion and in an image with the HTML template
\* (see PrometheusRefused and AlertmanagerConfigRefused).
ConfigApplied ==
  \A d \in SecretData :
    secret.st = "active" /\ secret.data = d /\ Usable(d) ~>
      secret.st # "active" \/ secret.data # d \/ Converged(d)

=============================================================================
