---------------------------- MODULE AWSDataGather ----------------------------
(***************************************************************************)
(* The AWS data gatherer (cmd/awsDataGather/main.go, utils/imds.go): a     *)
(* process of its own that asks the instance metadata service (IMDS) for   *)
(* the machine's CIDR blocks and saves them in a ConfigMap, for the egress *)
(* rules of module ManagedFusion to be made of.  It tries for ever: every  *)
(* MaxSleep seconds while all goes well, and after a back-off that doubles *)
(* up to MaxSleep when something failed.                                   *)
(*                                                                         *)
(* A second passes only while the process sleeps: the calls themselves     *)
(* take no time here.  Texts are as in module EgressRules, and a line feed *)
(* is a symbol of its own.                                                 *)
(***************************************************************************)
EXTENDS Naturals, EgressRules

CONSTANTS
  Bodies,       \* the lists of CIDR blocks that the metadata service may come to report
  Deployment,   \* the name of the Deployment the process runs under, and
  PodName,      \* the name of its pod: texts with "-" as a symbol
  MaxSleep,     \* the longest sleep in seconds (300 in the code)
  MaxFaults     \* bound on failed API calls plus crashes

LineFeed == "\n"

ASSUME AWSDataGatherAssumption ==
  /\ \A body \in Bodies :
       /\ body \in Seq(STRING) /\ body \notin {<<"silent">>, <<"error">>, <<"missing">>}
       /\ Separated(body, LineFeed) /\ \A i \in DOMAIN body : body[i] # Separator
  /\ Deployment \in Seq(STRING) /\ PodName \in Seq(STRING)
  /\ MaxSleep \in Nat \ {0}
  /\ MaxFaults \in Nat

VARIABLES
  imds,         \* what the service answers: a list of blocks, an error page, or nothing
  saved,        \* the text in the ConfigMap
  pc,           \* where the process is
  mac,          \* was the first answer a MAC address, or the body of an error page?
  cidrs,        \* the text it is about to save
  backoff,      \* the sleep after the next failure
  left,         \* the seconds of the current sleep still to come
  failures,     \* history: the failures since the last success, up to MaxSleep of them
  steady,       \* history: the seconds since something outside last changed or failed
  faults

vars == <<imds, saved, pc, mac, cidrs, backoff, left, failures, steady, faults>>

Missing == <<"missing">>

\* The service does not answer, or answers with an HTTP error whose body is a page.
Silent == <<"silent">>

ErrorPage == <<"error">>

Answers == Bodies \cup {Silent, ErrorPage}

-----------------------------------------------------------------------------
\* Mutated: only the unique suffix is taken off the name of the pod.
NameWithoutSuffix(podName) ==
  LET hyphens == {i \in DOMAIN podName : podName[i] = "-"}
  IN IF hyphens = {} THEN Empty ELSE SubSeq(podName, 1, Max(hyphens) - 1)

\* DeploymentNameFromPodName: without the last two sections; Empty stands for the error.
DeploymentNameFromPodName(podName) ==
  LET hyphens == {i \in DOMAIN podName : podName[i] = "-"}
      earlier == hyphens \ {Max(hyphens)}
  IN IF Cardinality(hyphens) < 2 THEN Empty ELSE SubSeq(podName, 1, Max(earlier) - 1)

\* Mutated: the text is saved as it came.
LinesKept(body) == body

\* strings.Replace(cidrs, "\n", ";", -1)
Joined(body) == [i \in DOMAIN body |-> IF body[i] = LineFeed THEN Separator ELSE body[i]]

-----------------------------------------------------------------------------
(* Mutated: the back-off is not limited, or not reset by a success.        *)

BackoffUnlimited(b) == 2 * b

SuccessKeepsBackoff ==
  /\ pc' = "asleep"
  /\ left' = MaxSleep
  /\ failures' = 0
  /\ UNCHANGED backoff

-----------------------------------------------------------------------------
(* main: the loop around gatherAndSaveData.                                *)

NextBackoff(b) == Min({2 * b, MaxSleep})

\* gatherAndSaveData returned no error.
Succeed ==
  /\ pc' = "asleep"
  /\ left' = MaxSleep
  /\ backoff' = 1
  /\ failures' = 0

\* It returned one.
Fail ==
  /\ pc' = "asleep"
  /\ left' = backoff
  /\ backoff' = NextBackoff(backoff)
  /\ failures' = Min({failures + 1, MaxSleep})

\* The process starts: its Deployment, the later owner of the ConfigMap, must be found.
\* Otherwise it exits and is started again.
Start ==
  /\ pc = "start"
  /\ DeploymentNameFromPodName(PodName) = Deployment
  /\ pc' = "fetchMac"
  /\ backoff' = 1
  /\ failures' = 0
  /\ steady' = 0
  /\ UNCHANGED <<imds, saved, mac, cidrs, left, faults>>

\* IMDSFetchIPv4CIDR.  The status of an answer is not looked at: an error page is taken for
\* the MAC address, and with it the second request cannot even be sent, or finds nothing.
FetchMac ==
  /\ pc = "fetchMac"
  /\ \/ /\ imds = Silent
        /\ Fail
        /\ UNCHANGED mac
     \/ /\ imds # Silent
        /\ pc' = "fetchCidr"
        /\ mac' = (imds # ErrorPage)
        /\ UNCHANGED <<backoff, left, failures>>
  /\ UNCHANGED <<imds, saved, cidrs, steady, faults>>

FetchCidr ==
  /\ pc = "fetchCidr"
  /\ \/ /\ imds = Silent \/ ~mac
        /\ Fail
        /\ UNCHANGED cidrs
     \/ /\ imds # Silent
        /\ pc' = "save"
        /\ cidrs' = IF mac THEN Joined(imds) ELSE ErrorPage
        /\ UNCHANGED <<backoff, left, failures>>
  /\ UNCHANGED <<imds, saved, mac, steady, faults>>

\* CreateOrUpdate of the ConfigMap.
Save ==
  /\ pc = "save"
  /\ saved' = cidrs
  /\ Succeed
  /\ UNCHANGED <<imds, mac, cidrs, steady, faults>>

WakeUp ==
  /\ pc = "asleep"
  /\ left = 0
  /\ pc' = "fetchMac"
  /\ UNCHANGED <<imds, saved, mac, cidrs, backoff, left, failures, steady, faults>>

GathererStep == Start \/ FetchMac \/ FetchCidr \/ Save \/ WakeUp

-----------------------------------------------------------------------------
(* Failures, time and the rest of the cluster.                             *)

\* The API server refuses the write: an error or a conflict.
SaveFails ==
  /\ pc = "save"
  /\ faults > 0
  /\ faults' = faults - 1
  /\ Fail
  /\ steady' = 0
  /\ UNCHANGED <<imds, saved, mac, cidrs>>

\* The process ends and is started again, with a back-off of its own.
Crash ==
  /\ faults > 0
  /\ faults' = faults - 1
  /\ pc' = "start"
  /\ UNCHANGED <<imds, saved, mac, cidrs, backoff, left, failures, steady>>

Tick ==
  /\ pc = "asleep"
  /\ left > 0
  /\ left' = left - 1
  /\ steady' = Min({steady + 1, MaxSleep + 1})
  /\ UNCHANGED <<imds, saved, pc, mac, cidrs, backoff, failures, faults>>

\* The service changes what it answers.
ImdsChanges(answer) ==
  /\ imds # answer
  /\ imds' = answer
  /\ steady' = 0
  /\ UNCHANGED <<saved, pc, mac, cidrs, backoff, left, failures, faults>>

\* Somebody deletes the ConfigMap.
ConfigMapLost ==
  /\ saved # Missing
  /\ saved' = Missing
  /\ steady' = 0
  /\ UNCHANGED <<imds, pc, mac, cidrs, backoff, left, failures, faults>>

Init ==
  /\ imds \in Answers
  /\ saved = Missing
  /\ pc = "start"
  /\ mac = FALSE
  /\ cidrs = Empty
  /\ backoff = 1
  /\ left = 0
  /\ failures = 0
  /\ steady = 0
  /\ faults = MaxFaults

Next ==
  \/ GathererStep
  \/ SaveFails
  \/ Crash
  \/ Tick
  \/ \E answer \in Answers : ImdsChanges(answer)
  \/ ConfigMapLost

Spec == Init /\ [][Next]_vars

\* The process runs and time passes.  (http.Get has no timeout: that a request to the
\* metadata service ends, one way or the other, is assumed.)
Fairness == WF_vars(GathererStep) /\ WF_vars(Tick)

FairSpec == Spec /\ Fairness

-----------------------------------------------------------------------------
(* Correctness.                                                            *)

\* Every variable has its type, and no sleep is longer than MaxSleep.
TypeOK ==
  /\ imds \in Answers
  /\ saved \in {Missing, ErrorPage} \cup {Joined(body) : body \in Bodies}
  /\ pc \in {"start", "fetchMac", "fetchCidr", "save", "asleep"}
  /\ mac \in BOOLEAN
  /\ cidrs \in {Empty, ErrorPage} \cup {Joined(body) : body \in Bodies}
  /\ backoff \in 1..MaxSleep
  /\ left \in 0..MaxSleep
  /\ failures \in 0..MaxSleep
  /\ steady \in 0..MaxSleep + 1
  /\ faults \in 0..MaxFaults

\* The blocks of a body, one per line.
Lines(body) ==
  LET blocks == InOrder({i \in DOMAIN body : body[i] # LineFeed})
  IN [n \in DOMAIN blocks |-> <<body[blocks[n]]>>]

\* Once the metadata service has reported the same blocks for longer than MaxSleep seconds,
\* and nothing failed meanwhile, they are what the ManagedFusion reconciler reads out of the
\* ConfigMap: however long the service was silent before, whether a page of its errors was
\* saved in their place, and whether the list ends in a line feed or not.
SavedInTime ==
  steady > MaxSleep /\ imds \in Bodies => saved # Missing /\ CidrList(saved) = Lines(imds)

PowerOfTwo[n \in Nat] == IF n = 0 THEN 1 ELSE 2 * PowerOfTwo[n - 1]

\* "Reset the backoff counter since data gathering succeeded": a sleep is MaxSleep seconds
\* after a success, and after the n-th failure in a row the (n - 1)-th power of two, but
\* never more than that.
BackoffSchedule ==
  [][pc # "asleep" /\ pc' = "asleep" =>
       left' = IF failures' = 0 THEN MaxSleep ELSE Min({PowerOfTwo[failures' - 1], MaxSleep})]_vars

\* What the service goes on reporting is saved in the end, across failures and crashes.
CidrSaved ==
  \A body \in Bodies : imds = body ~> imds # body \/ saved = Joined(body)
=============================================================================
