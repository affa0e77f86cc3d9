-------------------------- MODULE AWSDataGatherProofs --------------------------
(***************************************************************************)
(* Proofs about AWSDataGather, for every list of blocks the metadata       *)
(* service may report, every longest sleep and every number of failures.   *)
(***************************************************************************)
EXTENDS AWSDataGather, EgressRulesProofs

\* The smaller of two numbers.
LEMMA MinOfTwo ==
  ASSUME NEW a \in Nat, NEW b \in Nat
  PROVE  Min({a, b}) = IF a <= b THEN a ELSE b
<1>1. \E x \in {a, b} : \A y \in {a, b} : x <= y
  OBVIOUS
<1>2. Min({a, b}) \in {a, b} /\ Min({a, b}) <= a /\ Min({a, b}) <= b
  BY <1>1 DEF Min
<1> QED
  BY <1>2

\* A back-off never grows past the longest sleep, nor falls to none.
LEMMA BackoffBounded ==
  ASSUME NEW b \in 1..MaxSleep
  PROVE  NextBackoff(b) \in 1..MaxSleep
<1>1. MaxSleep \in Nat /\ 2 * b \in Nat /\ 2 * b >= 1
  BY AWSDataGatherAssumption
<1> QED
  BY <1>1, MinOfTwo DEF NextBackoff

\* What a failure does to the clock and the schedule.
LEMMA FailTypes ==
  ASSUME TypeOK, Fail
  PROVE  /\ pc' = "asleep" /\ left' \in 1..MaxSleep
         /\ backoff' \in 1..MaxSleep /\ failures' \in 0..MaxSleep
<1>1. MaxSleep \in Nat /\ failures + 1 \in Nat
  BY AWSDataGatherAssumption DEF TypeOK
<1>2. failures' \in 0..MaxSleep
  BY <1>1, MinOfTwo DEF Fail
<1> QED
  BY <1>2, BackoffBounded DEF Fail, TypeOK

\* What a success does to them.
LEMMA SucceedTypes ==
  ASSUME Succeed
  PROVE  /\ pc' = "asleep" /\ left' = MaxSleep /\ left' \in 0..MaxSleep
         /\ backoff' \in 1..MaxSleep /\ failures' \in 0..MaxSleep
BY AWSDataGatherAssumption DEF Succeed

\* The kinds of step.
LEMMA StepCases ==
  [Next]_vars => \/ Start \/ FetchMac \/ FetchCidr \/ Save \/ WakeUp
                 \/ SaveFails \/ Crash \/ Tick \/ ConfigMapLost
                 \/ \E answer \in Answers : ImdsChanges(answer)
                 \/ UNCHANGED vars
BY DEF Next, GathererStep

\* An error page has no line feed to replace.
LEMMA ErrorPageJoined == Joined(ErrorPage) = ErrorPage
<1>1. DOMAIN ErrorPage = 1..1 /\ ErrorPage[1] = "error"
  BY DEF ErrorPage
<1>2. ErrorPage = [i \in 1..1 |-> "error"]
  BY DEF ErrorPage
<1>3. \A i \in 1..1 : i = 1
  OBVIOUS
<1>4. \A i \in DOMAIN ErrorPage : ErrorPage[i] = "error"
  BY <1>1, <1>3
<1>5. \A i \in DOMAIN ErrorPage :
        (IF ErrorPage[i] = LineFeed THEN Separator ELSE ErrorPage[i]) = "error"
  BY <1>4 DEF LineFeed
<1>6. Joined(ErrorPage) = [i \in DOMAIN ErrorPage |-> "error"]
  BY <1>5, Zenon DEF Joined
<1> QED
  BY <1>1, <1>2, <1>6

\* What can be saved.
Texts == {ErrorPage} \cup {Joined(body) : body \in Bodies}

\* TypeOK is not inductive: the text about to be saved is one that was fetched.
GatherInv == TypeOK /\ (pc = "save" => cidrs \in Texts)

\* The text of an answer can be saved.
LEMMA FetchedText ==
  ASSUME TypeOK, imds # Silent
  PROVE  Joined(imds) \in Texts
<1>1. CASE imds \in Bodies
  BY <1>1 DEF Texts
<1>2. CASE imds = ErrorPage
  BY <1>2, ErrorPageJoined DEF Texts
<1> QED
  BY <1>1, <1>2 DEF TypeOK, Answers

\* Every step of the process, of the clock and of the service keeps the types.
LEMMA GatherNext == GatherInv /\ [Next]_vars => GatherInv'
<1> SUFFICES ASSUME TypeOK, pc = "save" => cidrs \in Texts, [Next]_vars PROVE GatherInv'
  BY DEF GatherInv
<1>a. /\ MaxSleep \in Nat /\ MaxSleep > 0 /\ MaxFaults \in Nat
      /\ 1 \in 1..MaxSleep /\ 0 \in 0..MaxSleep /\ 0 \in 0..MaxSleep + 1
  BY AWSDataGatherAssumption
<1> USE DEF GatherInv, TypeOK
<1>1. CASE Start
  BY <1>a, <1>1 DEF Start
<1>2. CASE FetchMac
  <2>1. CASE Fail /\ UNCHANGED mac
    BY <1>2, <2>1, FailTypes DEF FetchMac
  <2>2. CASE pc' = "fetchCidr" /\ mac' = (imds # ErrorPage) /\ UNCHANGED <<backoff, left, failures>>
    <3>1. mac' \in BOOLEAN
      BY <2>2
    <3> QED
      BY <1>2, <2>2, <3>1 DEF FetchMac
  <2> QED
    BY <1>2, <2>1, <2>2 DEF FetchMac
<1>3. CASE FetchCidr
  <2>1. CASE Fail /\ UNCHANGED cidrs
    BY <1>3, <2>1, FailTypes DEF FetchCidr
  <2>2. CASE /\ imds # Silent /\ pc' = "save" /\ UNCHANGED <<backoff, left, failures>>
             /\ cidrs' = IF mac THEN Joined(imds) ELSE ErrorPage
    <3>1. cidrs' \in Texts
      BY <2>2, FetchedText DEF Texts
    <3>2. cidrs' \in {Empty, ErrorPage} \cup {Joined(body) : body \in Bodies}
      BY <3>1 DEF Texts
    <3> QED
      BY <1>3, <2>2, <3>1, <3>2 DEF FetchCidr
  <2> QED
    BY <1>3, <2>1, <2>2 DEF FetchCidr
<1>4. CASE Save
  <2>1. saved' \in {Missing, ErrorPage} \cup {Joined(body) : body \in Bodies}
    BY <1>4 DEF Save, Texts
  <2> QED
    BY <1>4, <2>1, SucceedTypes DEF Save
<1>5. CASE WakeUp
  BY <1>5 DEF WakeUp
<1>6. CASE SaveFails
  <2>1. faults' \in 0..MaxFaults
    BY <1>a, <1>6 DEF SaveFails
  <2> QED
    BY <1>a, <1>6, <2>1, FailTypes DEF SaveFails
<1>7. CASE Crash
  <2>1. faults' \in 0..MaxFaults
    BY <1>a, <1>7 DEF Crash
  <2> QED
    BY <1>7, <2>1 DEF Crash
<1>8. CASE Tick
  <2>1. left' \in 0..MaxSleep
    BY <1>a, <1>8 DEF Tick
  <2>2. steady' \in 0..MaxSleep + 1
    BY <1>a, <1>8, MinOfTwo DEF Tick
  <2> QED
    BY <1>8, <2>1, <2>2 DEF Tick
<1>9. CASE ConfigMapLost
  BY <1>a, <1>9 DEF ConfigMapLost
<1>10. CASE \E answer \in Answers : ImdsChanges(answer)
  BY <1>a, <1>10 DEF ImdsChanges
<1>11. CASE UNCHANGED vars
  BY <1>11 DEF vars
<1> HIDE DEF GatherInv, TypeOK
<1> QED
  BY <1>1, <1>2, <1>3, <1>4, <1>5, <1>6, <1>7, <1>8, <1>9, <1>10, <1>11, StepCases

\* So it holds at every moment.
LEMMA GatherAlways == Spec => []GatherInv
<1>a. /\ 1 \in 1..MaxSleep /\ 0 \in 0..MaxSleep /\ 0 \in 0..MaxSleep + 1
      /\ MaxFaults \in 0..MaxFaults
  BY AWSDataGatherAssumption
<1>1. Init => GatherInv
  BY <1>a DEF Init, GatherInv, TypeOK
<1> QED
  BY <1>1, GatherNext, PTL DEF Spec

\* Every variable keeps its type; no sleep is longer than MaxSleep, whatever fails.
THEOREM TypeCorrect == Spec => []TypeOK
BY GatherAlways, PTL DEF GatherInv

-----------------------------------------------------------------------------
(* The time until a change is saved.                                       *)

\* What the service reports is saved, or the next look at it comes before MaxSleep seconds
\* are over.  What was read from an earlier answer is at hand only while the change is
\* fresh: no second passes between the two requests and the write.
TimeInv ==
  imds \in Bodies =>
    /\ saved = Joined(imds) \/ steady <= MaxSleep
    /\ pc = "fetchCidr" => mac \/ steady = 0
    /\ pc = "save" => cidrs = Joined(imds) \/ steady = 0
    /\ pc = "asleep" => saved = Joined(imds) \/ steady + left <= MaxSleep

\* A second of sleep uses up one of the seconds that are left.
LEMMA SecondPasses ==
  ASSUME NEW m \in Nat, NEW s \in Nat, NEW l \in Nat, NEW t \in Nat, s + l <= m, l > 0,
         t <= s + 1
  PROVE  t <= m /\ t + (l - 1) <= m
OBVIOUS

\* Every step keeps it.
LEMMA TimeNext == TypeOK /\ TimeInv /\ [Next]_vars => TimeInv'
<1> SUFFICES ASSUME TypeOK, TimeInv, [Next]_vars, imds' \in Bodies
             PROVE  /\ saved' = Joined(imds') \/ steady' <= MaxSleep
                    /\ pc' = "fetchCidr" => mac' \/ steady' = 0
                    /\ pc' = "save" => cidrs' = Joined(imds') \/ steady' = 0
                    /\ pc' = "asleep" => saved' = Joined(imds') \/ steady' + left' <= MaxSleep
  BY DEF TimeInv
<1>a. /\ MaxSleep \in Nat /\ steady \in 0..MaxSleep + 1 /\ left \in 0..MaxSleep
      /\ imds' # Silent /\ imds' # ErrorPage
  BY AWSDataGatherAssumption DEF TypeOK, Silent, ErrorPage
<1>b. ASSUME imds' = imds
      PROVE  /\ saved = Joined(imds) \/ steady <= MaxSleep
             /\ pc = "fetchCidr" => mac \/ steady = 0
             /\ pc = "save" => cidrs = Joined(imds) \/ steady = 0
             /\ pc = "asleep" => saved = Joined(imds) \/ steady + left <= MaxSleep
  BY <1>b DEF TimeInv
<1>c. ASSUME steady' = 0, left' \in 0..MaxSleep
      PROVE  steady' <= MaxSleep /\ steady' + left' <= MaxSleep
  <2>1. MaxSleep \in Nat
    BY <1>a
  <2>2. left' \in Nat /\ left' <= MaxSleep
    BY <1>c, <2>1
  <2>3. 0 + left' <= MaxSleep
    BY <2>2
  <2>4. 0 <= MaxSleep
    BY <2>1
  <2> QED
    BY <1>c, <2>3, <2>4, Zenon
<1>1. CASE Start
  BY <1>1, <1>a, <1>c DEF Start
<1>2. CASE FetchMac
  BY <1>2, <1>a, <1>b DEF FetchMac
<1>3. CASE FetchCidr
  <2>1. imds' = imds /\ steady' = steady /\ saved' = saved /\ pc = "fetchCidr"
    BY <1>3 DEF FetchCidr
  <2>2. CASE ~mac /\ Fail
    <3>1. pc' = "asleep" /\ left' \in 0..MaxSleep /\ steady' = 0
      BY <1>a, <1>b, <2>1, <2>2, FailTypes
    <3> QED
      BY <1>c, <3>1
  <2>3. CASE pc' = "save" /\ cidrs' = IF mac THEN Joined(imds) ELSE ErrorPage
    BY <1>b, <2>1, <2>3
  <2> QED
    BY <1>3, <1>a, <2>1, <2>2, <2>3 DEF FetchCidr
<1>4. CASE Save
  <2>1. /\ imds' = imds /\ steady' = steady /\ saved' = cidrs /\ pc' = "asleep"
        /\ left' \in 0..MaxSleep /\ pc = "save"
    BY <1>4, SucceedTypes DEF Save
  <2>2. saved' = Joined(imds') \/ steady' = 0
    BY <1>b, <2>1
  <2> QED
    BY <1>c, <2>1, <2>2
<1>5. CASE WakeUp \/ Crash
  BY <1>5, <1>b DEF WakeUp, Crash
<1>6. CASE SaveFails
  <2>1. steady' = 0 /\ left' \in 0..MaxSleep /\ pc' = "asleep"
    BY <1>6, FailTypes DEF SaveFails
  <2> QED
    BY <1>c, <2>1
<1>7. CASE Tick
  <2>1. /\ imds' = imds /\ saved' = saved /\ pc = "asleep" /\ pc' = "asleep"
        /\ left > 0 /\ left' = left - 1
    BY <1>7 DEF Tick
  <2>2. steady' <= steady + 1
    BY <1>7, <1>a, MinOfTwo DEF Tick
  <2>3. steady' \in Nat
    BY <1>7, <1>a, MinOfTwo DEF Tick
  <2>4. CASE saved = Joined(imds)
    BY <2>1, <2>4
  <2>5. CASE steady + left <= MaxSleep
    <3>1. steady \in Nat /\ left \in Nat
      BY <1>a
    <3>2. steady' <= MaxSleep /\ steady' + (left - 1) <= MaxSleep
      BY <1>a, <2>1, <2>2, <2>3, <2>5, <3>1, SecondPasses
    <3> QED
      BY <2>1, <3>2
  <2> QED
    BY <1>b, <2>1, <2>4, <2>5
<1>8. CASE ConfigMapLost
  BY <1>8, <1>a, <1>c DEF ConfigMapLost
<1>9. CASE \E answer \in Answers : ImdsChanges(answer)
  BY <1>9, <1>a, <1>c DEF ImdsChanges
<1>10. CASE UNCHANGED vars
  BY <1>10, <1>b DEF vars
<1> QED
  BY <1>1, <1>2, <1>3, <1>4, <1>5, <1>6, <1>7, <1>8, <1>9, <1>10, StepCases

\* What the metadata service has reported for longer than MaxSleep seconds, with nothing
\* failing meanwhile, is in the ConfigMap.
SavedCurrent == steady > MaxSleep /\ imds \in Bodies => saved = Joined(imds)

\* The gatherer is never later than that, however it slept, failed and crashed before.
THEOREM SavesInTime == Spec => []SavedCurrent
<1>1. Init => TimeInv
  BY AWSDataGatherAssumption DEF Init, TimeInv
<1>2. TypeOK /\ TimeInv => SavedCurrent
  BY AWSDataGatherAssumption DEF TypeOK, TimeInv, SavedCurrent
<1> QED
  BY <1>1, <1>2, TimeNext, TypeCorrect, PTL DEF Spec

\* The symbols of a saved text.
Alphabet == STRING \cup {Separator}

\* The text that a list of blocks is saved as.
LEMMA JoinedText ==
  ASSUME NEW body \in Bodies
  PROVE  /\ Joined(body) \in Seq(Alphabet) /\ Separated(Joined(body), Separator)
         /\ DOMAIN Joined(body) = DOMAIN body
         /\ \A i \in DOMAIN body : IF body[i] = LineFeed THEN Joined(body)[i] = Separator
                                   ELSE Joined(body)[i] = body[i] /\ body[i] # Separator
<1>1. /\ body \in Seq(STRING) /\ Separated(body, LineFeed)
      /\ \A i \in DOMAIN body : body[i] # Separator
  BY AWSDataGatherAssumption
<1>2. Len(body) \in Nat /\ DOMAIN body = 1..Len(body) /\ \A i \in 1..Len(body) : body[i] \in STRING
  BY <1>1
<1>3. Joined(body) \in [1..Len(body) -> Alphabet]
  BY <1>2 DEF Joined, Alphabet
<1>4. Joined(body) \in Seq(Alphabet) /\ Len(Joined(body)) = Len(body)
  BY <1>2, <1>3, ListIsSequence
<1>5. DOMAIN Joined(body) = DOMAIN body
  BY DEF Joined
<1>6. \A i \in DOMAIN body : Joined(body)[i] = IF body[i] = LineFeed THEN Separator ELSE body[i]
  BY DEF Joined
<1>7. Separated(Joined(body), Separator)
  <2> SUFFICES ASSUME NEW i \in 1..Len(body) - 1
               PROVE  Joined(body)[i] = Separator \/ Joined(body)[i + 1] = Separator
    BY <1>4 DEF Separated
  <2>1. i \in 1..Len(body) /\ i + 1 \in 1..Len(body)
    BY <1>2
  <2>2. body[i] = LineFeed \/ body[i + 1] = LineFeed
    BY <1>1 DEF Separated
  <2> QED
    BY <1>2, <1>6, <2>1, <2>2
<1> QED
  BY <1>1, <1>4, <1>5, <1>6, <1>7

\* The blocks of a list, however many and with or without a last line feed, are read back
\* from the text they are saved as, each once and in their order.
LEMMA ReadBack ==
  ASSUME NEW body \in Bodies
  PROVE  Joined(body) # Missing /\ CidrList(Joined(body)) = Lines(body)
<1> DEFINE text == Joined(body)
           at == InOrder(Symbols(text))
<1>1. /\ text \in Seq(Alphabet) /\ Separated(text, Separator) /\ DOMAIN text = DOMAIN body
      /\ \A i \in DOMAIN body : IF body[i] = LineFeed THEN text[i] = Separator
                                ELSE text[i] = body[i] /\ body[i] # Separator
  BY JoinedText
<1> HIDE DEF text
<1>2. Symbols(text) = {i \in DOMAIN body : body[i] # LineFeed}
  BY <1>1 DEF Symbols
<1>3. \A i \in Symbols(text) : text[i] = body[i]
  BY <1>1, <1>2
<1>4. /\ CidrList(text) = [n \in DOMAIN at |-> <<text[at[n]]>>]
      /\ \A n \in DOMAIN at : at[n] \in Symbols(text)
  BY <1>1, CidrListIs, OrderListsSet
<1>5. Lines(body) = [n \in DOMAIN at |-> <<body[at[n]]>>]
  BY <1>2 DEF Lines
<1>6. CidrList(text) = Lines(body)
  <2> HIDE DEF at
  <2>1. \A n \in DOMAIN at : <<text[at[n]]>> = <<body[at[n]]>>
    BY <1>3, <1>4
  <2> QED
    BY <1>4, <1>5, <2>1
<1>7. text # Missing
  <2> SUFFICES ASSUME text = Missing PROVE FALSE
    OBVIOUS
  <2>1. DOMAIN Missing = {1} /\ Missing[1] = "missing" /\ "missing" # Separator
    BY DEF Missing, Separator
  <2>2. DOMAIN body = {1} /\ body[1] = "missing"
    BY <1>1, <2>1
  <2>3. body \in Seq(STRING) /\ body # Missing
    BY AWSDataGatherAssumption DEF Missing
  <2>4. Len(body) = 1
    BY <2>2, <2>3
  <2>5. body = <<"missing">>
    BY <2>2, <2>3, <2>4
  <2> QED
    BY <2>3, <2>5 DEF Missing
<1> QED
  BY <1>6, <1>7 DEF text

\* So the reconciler reads in time what the service reports, whatever it reports.
THEOREM ReadInTime == Spec => []SavedInTime
<1>1. SavedCurrent => SavedInTime
  BY ReadBack DEF SavedCurrent, SavedInTime
<1> QED
  BY <1>1, SavesInTime, PTL

-----------------------------------------------------------------------------
(* The schedule of the sleeps.                                             *)

\* A set of numbers with 0 in it, and with every number the next one, is all of them.
LEMMA AllNumbers ==
  ASSUME NEW S \in SUBSET Nat, 0 \in S, \A n \in S : n + 1 \in S
  PROVE  S = Nat
<1> SUFFICES ASSUME Nat \ S # {} PROVE FALSE
  OBVIOUS
<1> DEFINE m == Min(Nat \ S)
<1>1. m \in Nat \ S /\ \A x \in Nat \ S : m <= x
  BY MinExists
<1> HIDE DEF m
<1>2. m # 0 /\ m - 1 \in Nat /\ ~(m <= m - 1) /\ (m - 1) + 1 = m
  BY <1>1
<1>3. m - 1 \in S
  BY <1>1, <1>2
<1>4. (m - 1) + 1 \in S
  BY <1>3
<1> QED
  BY <1>1, <1>2, <1>4

\* The first powers of two, up to the m-th.
Powers(m) == {f \in [0..m -> Nat] : f[0] = 1 /\ \A k \in 1..m : f[k] = 2 * f[k - 1]}

\* They exist, however many, and are the same in every list of them.
LEMMA PowersExist ==
  /\ \A m \in Nat : Powers(m) # {}
  /\ \A k, a, b \in Nat : \A f \in Powers(a), g \in Powers(b) : k <= a /\ k <= b => f[k] = g[k]
<1> DEFINE S == {m \in Nat : Powers(m) # {}}
           U == {k \in Nat : \A a, b \in Nat : \A f \in Powers(a), g \in Powers(b) :
                               k <= a /\ k <= b => f[k] = g[k]}
<1>1. 0 \in S
  <2>1. [k \in 0..0 |-> 1] \in Powers(0)
    BY DEF Powers
  <2> QED
    BY <2>1
<1>2. ASSUME NEW m \in S PROVE m + 1 \in S
  <2>1. PICK f \in Powers(m) : TRUE
    OBVIOUS
  <2>2. m \in Nat /\ f \in [0..m -> Nat] /\ f[0] = 1 /\ \A k \in 1..m : f[k] = 2 * f[k - 1]
    BY <2>1 DEF Powers
  <2> DEFINE g == [k \in 0..m + 1 |-> IF k = m + 1 THEN 2 * f[m] ELSE f[k]]
  <2>3. \A k \in 0..m : k \in 0..m + 1 /\ k # m + 1
    BY <2>2
  <2>4. \A k \in 0..m + 1 : k # m + 1 => k \in 0..m
    BY <2>2
  <2>5. \A k \in 0..m : g[k] = f[k]
    BY <2>3
  <2>6. m + 1 \in 0..m + 1 /\ g[m + 1] = 2 * f[m] /\ m \in 0..m /\ 0 \in 0..m
    BY <2>2
  <2>7. g \in [0..m + 1 -> Nat]
    BY <2>2, <2>4, <2>6
  <2> HIDE DEF g
  <2>8. g[0] = 1
    BY <2>2, <2>5, <2>6
  <2>9. ASSUME NEW k \in 1..m + 1 PROVE g[k] = 2 * g[k - 1]
    <3>1. CASE k = m + 1
      <4>1. k - 1 = m
        BY <2>2, <3>1
      <4> QED
        BY <2>5, <2>6, <3>1, <4>1
    <3>2. CASE k # m + 1
      <4>1. k \in 1..m /\ k \in 0..m /\ k - 1 \in 0..m
        BY <2>2, <3>2
      <4> QED
        BY <2>2, <2>5, <4>1
    <3> QED
      BY <3>1, <3>2
  <2>10. g \in Powers(m + 1)
    BY <2>7, <2>8, <2>9 DEF Powers
  <2> QED
    BY <2>2, <2>10
<1>3. 0 \in U
  BY DEF Powers
<1>4. ASSUME NEW k \in U PROVE k + 1 \in U
  <2> SUFFICES ASSUME NEW a \in Nat, NEW b \in Nat, NEW f \in Powers(a), NEW g \in Powers(b),
                      k + 1 <= a, k + 1 <= b
               PROVE  f[k + 1] = g[k + 1]
    OBVIOUS
  <2>1. /\ k \in Nat /\ k <= a /\ k <= b /\ k + 1 \in 1..a /\ k + 1 \in 1..b
        /\ (k + 1) - 1 = k
    OBVIOUS
  <2>2. f[k] = g[k]
    BY <2>1
  <2>3. f[k + 1] = 2 * f[(k + 1) - 1] /\ g[k + 1] = 2 * g[(k + 1) - 1]
    BY <2>1 DEF Powers
  <2> QED
    BY <2>1, <2>2, <2>3, Zenon
<1>5. S = Nat
  <2> HIDE DEF S
  <2>1. S \in SUBSET Nat
    BY DEF S
  <2> QED
    BY <1>1, <1>2, <2>1, AllNumbers
<1>6. U = Nat
  <2> HIDE DEF U
  <2>1. U \in SUBSET Nat
    BY DEF U
  <2> QED
    BY <1>3, <1>4, <2>1, AllNumbers
<1> QED
  BY <1>5, <1>6

\* So there is a function that doubles from number to number, as PowerOfTwo is defined.
LEMMA PowerDefined ==
  PowerOfTwo = [n \in Nat |-> IF n = 0 THEN 1 ELSE 2 * PowerOfTwo[n - 1]]
<1> DEFINE list(n) == CHOOSE f \in Powers(n) : TRUE
           p == [n \in Nat |-> list(n)[n]]
<1>1. \A n \in Nat : list(n) \in Powers(n)
  BY PowersExist
<1> HIDE DEF list
<1>2. ASSUME NEW n \in Nat PROVE p[n] = IF n = 0 THEN 1 ELSE 2 * p[n - 1]
  <2>1. CASE n = 0
    BY <1>1, <2>1 DEF Powers
  <2>2. CASE n # 0
    <3>1. n - 1 \in Nat /\ n \in 1..n /\ n - 1 <= n /\ n - 1 <= n - 1
      BY <2>2
    <3>2. list(n)[n] = 2 * list(n)[n - 1]
      BY <1>1, <3>1 DEF Powers
    <3>3. list(n)[n - 1] = list(n - 1)[n - 1]
      BY <1>1, <3>1, PowersExist
    <3> QED
      BY <2>2, <3>1, <3>2, <3>3
  <2> QED
    BY <2>1, <2>2
<1>3. p = [n \in Nat |-> IF n = 0 THEN 1 ELSE 2 * p[n - 1]]
  <2>1. p = [n \in Nat |-> p[n]]
    OBVIOUS
  <2> HIDE DEF p
  <2> QED
    BY <1>2, <2>1
<1>4. \E f : f = [n \in Nat |-> IF n = 0 THEN 1 ELSE 2 * f[n - 1]]
  BY <1>3
<1>5. PowerOfTwo = CHOOSE f : f = [n \in Nat |-> IF n = 0 THEN 1 ELSE 2 * f[n - 1]]
  BY DEF PowerOfTwo
<1> QED
  BY <1>4, <1>5

\* The arithmetic of powers of two.
LEMMA PowersOfTwo ==
  /\ PowerOfTwo[0] = 1
  /\ \A n \in Nat : /\ PowerOfTwo[n] \in Nat /\ PowerOfTwo[n + 1] = 2 * PowerOfTwo[n]
                    /\ PowerOfTwo[n] > n
<1> DEFINE S == {n \in Nat : PowerOfTwo[n] \in Nat /\ PowerOfTwo[n] > n}
<1>1. \A n \in Nat : PowerOfTwo[n] = IF n = 0 THEN 1 ELSE 2 * PowerOfTwo[n - 1]
  BY PowerDefined
<1>2. PowerOfTwo[0] = 1
  BY <1>1
<1>3. ASSUME NEW n \in Nat PROVE PowerOfTwo[n + 1] = 2 * PowerOfTwo[n]
  <2>1. n + 1 \in Nat /\ n + 1 # 0 /\ (n + 1) - 1 = n
    OBVIOUS
  <2>2. PowerOfTwo[n + 1] = 2 * PowerOfTwo[(n + 1) - 1]
    BY <1>1, <2>1
  <2> QED
    BY <2>1, <2>2, Zenon
<1>4. 0 \in S
  BY <1>2
<1>5. ASSUME NEW n \in S PROVE n + 1 \in S
  <2> DEFINE q == PowerOfTwo[n]
  <2>1. n \in Nat /\ q \in Nat /\ q > n /\ PowerOfTwo[n + 1] = 2 * q
    BY <1>3
  <2> HIDE DEF q
  <2>2. 2 * q \in Nat /\ 2 * q > n + 1 /\ n + 1 \in Nat
    BY <2>1
  <2> QED
    BY <2>1, <2>2
<1>6. S = Nat
  <2> HIDE DEF S
  <2>1. S \in SUBSET Nat
    BY DEF S
  <2> QED
    BY <1>4, <1>5, <2>1, AllNumbers
<1> QED
  BY <1>2, <1>3, <1>6

\* The next back-off is what the failures in a row have made of it.
BackoffInv == backoff = Min({PowerOfTwo[failures], MaxSleep})

\* One more failure doubles it, up to the longest sleep.
LEMMA BackoffDoubles ==
  ASSUME TypeOK, BackoffInv, Fail
  PROVE  /\ BackoffInv' /\ failures' # 0
         /\ left' = Min({PowerOfTwo[failures' - 1], MaxSleep})
<1>1. MaxSleep \in Nat /\ MaxSleep > 0 /\ failures \in Nat /\ failures <= MaxSleep
  BY AWSDataGatherAssumption DEF TypeOK
<1>2. /\ PowerOfTwo[failures] \in Nat /\ PowerOfTwo[failures] > failures
      /\ PowerOfTwo[failures + 1] = 2 * PowerOfTwo[failures] /\ PowerOfTwo[failures + 1] \in Nat
  <2>1. failures + 1 \in Nat
    BY <1>1
  <2> QED
    BY <1>1, <2>1, PowersOfTwo
<1>3. /\ left' = backoff /\ backoff' = Min({2 * backoff, MaxSleep})
      /\ failures' = IF failures + 1 <= MaxSleep THEN failures + 1 ELSE MaxSleep
  BY <1>1, MinOfTwo DEF Fail, NextBackoff
<1>4. backoff = IF PowerOfTwo[failures] <= MaxSleep THEN PowerOfTwo[failures] ELSE MaxSleep
  BY <1>1, <1>2, MinOfTwo DEF BackoffInv
<1>5. backoff' = IF 2 * backoff <= MaxSleep THEN 2 * backoff ELSE MaxSleep
  BY <1>1, <1>2, <1>3, <1>4, MinOfTwo
<1>6. CASE failures + 1 <= MaxSleep
  <2>1. failures' = failures + 1 /\ failures' - 1 = failures
    BY <1>1, <1>3, <1>6
  <2>2. Min({PowerOfTwo[failures'], MaxSleep}) =
          IF PowerOfTwo[failures + 1] <= MaxSleep THEN PowerOfTwo[failures + 1] ELSE MaxSleep
    BY <1>1, <1>2, <2>1, MinOfTwo
  <2>3. backoff' = Min({PowerOfTwo[failures'], MaxSleep})
    BY <1>1, <1>2, <1>4, <1>5, <2>2
  <2>4. PowerOfTwo[failures' - 1] = PowerOfTwo[failures]
    BY <2>1, Zenon
  <2>5. failures' # 0
    BY <1>1, <2>1
  <2> QED
    BY <1>3, <2>3, <2>4, <2>5 DEF BackoffInv
<1>7. CASE ~(failures + 1 <= MaxSleep)
  <2>1. failures = MaxSleep /\ failures' = MaxSleep
    BY <1>1, <1>3, <1>7
  <2>2. backoff = MaxSleep /\ backoff' = MaxSleep
    BY <1>1, <1>2, <1>4, <1>5, <2>1
  <2>3. MaxSleep - 1 \in Nat
    BY <1>1
  <2>4. PowerOfTwo[MaxSleep - 1] \in Nat /\ PowerOfTwo[MaxSleep - 1] > MaxSleep - 1
    BY <2>3, PowersOfTwo
  <2>5. PowerOfTwo[MaxSleep - 1] >= MaxSleep
    BY <1>1, <2>4
  <2>6. Min({PowerOfTwo[MaxSleep - 1], MaxSleep}) = MaxSleep
    BY <1>1, <2>4, <2>5, MinOfTwo
  <2>7. Min({PowerOfTwo[MaxSleep], MaxSleep}) = MaxSleep
    BY <1>1, <1>2, <2>1, MinOfTwo
  <2>8. failures' # 0
    BY <1>1, <2>1
  <2> QED
    BY <1>3, <2>1, <2>2, <2>6, <2>7, <2>8, Zenon DEF BackoffInv
<1> QED
  BY <1>6, <1>7

\* A success, or a start of the process, sets it back.
LEMMA BackoffReset ==
  ASSUME backoff' = 1, failures' = 0
  PROVE  BackoffInv'
<1>1. MaxSleep \in Nat /\ 1 <= MaxSleep /\ 1 \in Nat
  BY AWSDataGatherAssumption
<1>2. Min({1, MaxSleep}) = 1
  BY <1>1, MinOfTwo
<1> QED
  BY <1>2, PowersOfTwo DEF BackoffInv

\* A step counts as many failures as the sleep it chooses says.
LEMMA BackoffStep ==
  ASSUME TypeOK, BackoffInv, [Next]_vars
  PROVE  /\ BackoffInv'
         /\ pc # "asleep" /\ pc' = "asleep" =>
              left' = IF failures' = 0 THEN MaxSleep ELSE Min({PowerOfTwo[failures' - 1], MaxSleep})
<1>a. ASSUME UNCHANGED <<backoff, failures>> PROVE BackoffInv'
  BY <1>a DEF BackoffInv
<1>1. CASE Fail
  BY <1>1, BackoffDoubles
<1>2. CASE Succeed
  BY <1>2, BackoffReset DEF Succeed
<1>3. CASE Start
  BY <1>3, BackoffReset DEF Start
<1>4. CASE FetchMac \/ FetchCidr
  BY <1>1, <1>4, <1>a DEF FetchMac, FetchCidr
<1>5. CASE Save \/ SaveFails
  BY <1>1, <1>2, <1>5 DEF Save, SaveFails
<1>6. CASE WakeUp \/ Crash \/ Tick
  BY <1>6, <1>a DEF WakeUp, Crash, Tick
<1>7. CASE ConfigMapLost \/ \E answer \in Answers : ImdsChanges(answer)
  BY <1>7, <1>a DEF ConfigMapLost, ImdsChanges
<1>8. CASE UNCHANGED vars
  BY <1>8, <1>a DEF vars
<1> QED
  BY <1>3, <1>4, <1>5, <1>6, <1>7, <1>8, StepCases

\* The sleeps follow the schedule: the longest after a success, and doubling up to it from
\* failure to failure; a restart begins with the shortest again.
THEOREM SleepsOnSchedule == Spec => BackoffSchedule
<1>1. Init => BackoffInv
  <2> SUFFICES ASSUME Init PROVE BackoffInv
    OBVIOUS
  <2>1. MaxSleep \in Nat /\ 1 <= MaxSleep /\ 1 \in Nat
    BY AWSDataGatherAssumption
  <2>2. Min({1, MaxSleep}) = 1
    BY <2>1, MinOfTwo
  <2> QED
    BY <2>2, PowersOfTwo DEF Init, BackoffInv
<1>2. TypeOK /\ BackoffInv /\ [Next]_vars =>
        /\ BackoffInv'
        /\ [pc # "asleep" /\ pc' = "asleep" =>
              left' = IF failures' = 0 THEN MaxSleep
                                       ELSE Min({PowerOfTwo[failures' - 1], MaxSleep})]_vars
  BY BackoffStep
<1> QED
  BY <1>1, <1>2, TypeCorrect, PTL DEF Spec, BackoffSchedule
=============================================================================
