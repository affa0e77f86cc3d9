-------------------------- MODULE EgressRulesProofs --------------------------
(***************************************************************************)
(* Proofs about EgressRules, for every text and every SMTP host: what a    *)
(* text is split into, and what the rules made of it let out.              *)
(***************************************************************************)
EXTENDS EgressRules, FiniteSetTheorems, SequenceTheorems, TLAPS

-----------------------------------------------------------------------------
(* Positions in order.                                                     *)

\* A number of a set that is below all of it is its smallest.
LEMMA MinIs ==
  ASSUME NEW S \in SUBSET Nat, NEW e \in S, \A x \in S : e <= x
  PROVE  Min(S) = e
<1>1. Min(S) \in S /\ \A x \in S : Min(S) <= x
  BY DEF Min
<1>2. Min(S) \in Nat /\ e \in Nat /\ Min(S) <= e /\ e <= Min(S)
  BY <1>1
<1> QED
  BY <1>2

\* A set of numbers that is not empty has a smallest one.
LEMMA MinExists ==
  ASSUME NEW S \in SUBSET Nat, S # {}
  PROVE  Min(S) \in S /\ \A x \in S : Min(S) <= x
<1>1. \E x \in S : \A y \in S : ~(<<y, x>> \in OpToRel(<, Nat))
  BY WFMin, NatLessThanWellFounded
<1>2. PICK x \in S : \A y \in S : ~(<<y, x>> \in OpToRel(<, Nat))
  BY <1>1
<1>3. \A y \in S : ~(y < x)
  BY <1>2 DEF OpToRel
<1>4. \A y \in S : x <= y
  BY <1>3
<1> QED
  BY <1>4 DEF Min

UpTo(S, k) == {j \in S : j <= k}

\* The rank of a position among the others grows with it.
LEMMA RankGrows ==
  ASSUME NEW S \in SUBSET Nat, IsFiniteSet(S), NEW k \in S, NEW l \in S, k < l
  PROVE  /\ Cardinality(UpTo(S, k)) \in Nat /\ Cardinality(UpTo(S, l)) \in Nat
         /\ Cardinality(UpTo(S, k)) < Cardinality(UpTo(S, l))
<1>1. IsFiniteSet(UpTo(S, k)) /\ IsFiniteSet(UpTo(S, l))
  BY FS_Subset DEF UpTo
<1>2. UpTo(S, k) \in SUBSET UpTo(S, l) /\ l \in UpTo(S, l) /\ l \notin UpTo(S, k)
  <2>1. \A j \in S : j \in Nat /\ k \in Nat /\ l \in Nat
    OBVIOUS
  <2>2. \A j \in S : j <= k => j <= l
    BY <2>1
  <2>3. l <= l /\ ~(l <= k)
    BY <2>1
  <2> QED
    BY <2>2, <2>3 DEF UpTo
<1>3. Cardinality(UpTo(S, k)) \in Nat /\ Cardinality(UpTo(S, l)) \in Nat
  BY <1>1, FS_CardinalityType
<1>4. /\ Cardinality(UpTo(S, k)) <= Cardinality(UpTo(S, l))
      /\ Cardinality(UpTo(S, l)) # Cardinality(UpTo(S, k))
  BY <1>1, <1>2, FS_Subset
<1> QED
  BY <1>3, <1>4

\* InOrder lists a set of positions, each once and in ascending order.
LEMMA OrderListsSet ==
  ASSUME NEW S \in SUBSET Nat, IsFiniteSet(S)
  PROVE  /\ Cardinality(S) \in Nat
         /\ DOMAIN InOrder(S) = 1..Cardinality(S)
         /\ \A n \in 1..Cardinality(S) : InOrder(S)[n] \in S
         /\ \A k \in S : \E n \in 1..Cardinality(S) : InOrder(S)[n] = k
         /\ \A m, n \in 1..Cardinality(S) : m < n => InOrder(S)[m] < InOrder(S)[n]
<1> DEFINE rank == [k \in S |-> Cardinality(UpTo(S, k))]
           N == Cardinality(S)
<1>1. N \in Nat
  BY FS_CardinalityType
<1>2. ASSUME NEW k \in S PROVE rank[k] \in 1..N
  <2>1. UpTo(S, k) \in SUBSET S /\ k \in UpTo(S, k)
    BY DEF UpTo
  <2>2. IsFiniteSet(UpTo(S, k)) /\ Cardinality(UpTo(S, k)) <= N
    BY <2>1, FS_Subset
  <2>3. Cardinality(UpTo(S, k)) \in Nat /\ Cardinality(UpTo(S, k)) # 0
    BY <2>1, <2>2, FS_CardinalityType, FS_EmptySet
  <2> QED
    BY <1>1, <2>2, <2>3
<1>3. \A k, l \in S : k < l => rank[k] < rank[l]
  BY RankGrows
<1>4. \A k, l \in S : rank[k] = rank[l] => k = l
  <2> SUFFICES ASSUME NEW k \in S, NEW l \in S, rank[k] = rank[l], k # l PROVE FALSE
    OBVIOUS
  <2>1. k \in Nat /\ l \in Nat /\ rank[k] \in 1..N /\ rank[l] \in 1..N
    BY <1>2
  <2> HIDE DEF rank, N
  <2> QED
    BY <1>1, <1>3, <2>1
<1>5. rank \in Injection(S, 1..N)
  BY <1>2, <1>4 DEF Injection, IsInjective
<1>6. IsFiniteSet(1..N) /\ Cardinality(1..N) = N
  BY <1>1, FS_Interval
<1>7. rank \in Surjection(S, 1..N)
  BY <1>5, <1>6, FS_Injection
<1>8. \A n \in 1..N : \E k \in S : rank[k] = n
  BY <1>7 DEF Surjection
<1>9. ASSUME NEW n \in 1..N PROVE InOrder(S)[n] \in S /\ rank[InOrder(S)[n]] = n
  <2>1. InOrder(S)[n] = CHOOSE k \in S : Cardinality(UpTo(S, k)) = n
    BY DEF InOrder, UpTo
  <2>2. \E k \in S : Cardinality(UpTo(S, k)) = n
    BY <1>8
  <2> QED
    BY <2>1, <2>2
<1>10. DOMAIN InOrder(S) = 1..N
  BY DEF InOrder
<1>11. ASSUME NEW k \in S PROVE \E n \in 1..N : InOrder(S)[n] = k
  <2>1. rank[k] \in 1..N
    BY <1>2
  <2>2. InOrder(S)[rank[k]] \in S /\ rank[InOrder(S)[rank[k]]] = rank[k]
    BY <1>9, <2>1
  <2> HIDE DEF rank
  <2> QED
    BY <1>4, <2>1, <2>2
<1>12. ASSUME NEW m \in 1..N, NEW n \in 1..N, m < n PROVE InOrder(S)[m] < InOrder(S)[n]
  <2> DEFINE k == InOrder(S)[m]
             l == InOrder(S)[n]
  <2>1. k \in S /\ l \in S /\ rank[k] = m /\ rank[l] = n
    BY <1>9
  <2> HIDE DEF rank, k, l
  <2>2. k \in Nat /\ l \in Nat /\ ~(l < k) /\ k # l
    BY <1>1, <1>3, <1>12, <2>1
  <2>3. k < l
    BY <2>2
  <2> QED
    BY <2>3 DEF k, l
<1> QED
  BY <1>1, <1>9, <1>10, <1>11, <1>12

-----------------------------------------------------------------------------
(* Texts: every symbol between separators is a piece of its own.           *)

Symbols(text) == {i \in DOMAIN text : text[i] # Separator}

\* A piece from a position to itself is one symbol.
LEMMA OneSymbol ==
  ASSUME NEW T, NEW text \in Seq(T), NEW k \in 1..Len(text)
  PROVE  SubSeq(text, k, k) = <<text[k]>>
<1>1. k \in Nat /\ text[k] \in T /\ k <= Len(text) /\ 1 <= k
  OBVIOUS
<1>2. SubSeq(text, k, k) \in Seq(T) /\ Len(SubSeq(text, k, k)) = 1
  BY <1>1, SubSeqProperties
<1>3. SubSeq(text, k, k)[1] = text[k]
  <2>1. 1 \in 1..k - k + 1 /\ k + 1 - 1 = k
    BY <1>1
  <2> QED
    BY <1>1, <2>1, SubSeqProperties
<1>4. <<text[k]>> \in Seq(T) /\ Len(<<text[k]>>) = 1 /\ <<text[k]>>[1] = text[k]
  BY <1>1
<1>5. \A i \in 1..1 : i = 1
  OBVIOUS
<1>6. \A i \in 1..Len(SubSeq(text, k, k)) : SubSeq(text, k, k)[i] = <<text[k]>>[i]
  BY <1>2, <1>3, <1>4, <1>5, Zenon
<1> QED
  BY <1>2, <1>4, <1>6, SeqEqual

\* Where a symbol starts a piece, the piece is that symbol.
LEMMA PieceIsSymbol ==
  ASSUME NEW A, NEW text \in Seq(A), Separated(text, Separator), NEW k \in Symbols(text)
  PROVE  PieceAt(text, k) = <<text[k]>>
<1> DEFINE ends == {j \in k..Len(text) : text[j] = Separator} \cup {Len(text) + 1}
<1>1. Len(text) \in Nat /\ k \in 1..Len(text) /\ text[k] # Separator
  BY DEF Symbols
<1>2. ends \in SUBSET Nat
  BY <1>1
<1>3. k + 1 \in ends
  <2>1. CASE k = Len(text)
    BY <1>1, <2>1
  <2>2. CASE k # Len(text)
    <3>1. k \in 1..Len(text) - 1 /\ k + 1 \in k..Len(text)
      BY <1>1, <2>2
    <3>2. text[k + 1] = Separator
      BY <1>1, <3>1 DEF Separated
    <3> QED
      BY <3>1, <3>2
  <2> QED
    BY <2>1, <2>2
<1>4. \A j \in ends : k + 1 <= j
  <2>1. \A j \in k..Len(text) : j # k => k + 1 <= j
    BY <1>1
  <2>2. k + 1 <= Len(text) + 1
    BY <1>1
  <2> QED
    BY <1>1, <2>1, <2>2
<1>5. Min(ends) = k + 1
  <2> HIDE DEF ends
  <2> QED
    BY <1>2, <1>3, <1>4, MinIs
<1>6. PieceAt(text, k) = SubSeq(text, k, (k + 1) - 1)
  BY <1>5 DEF PieceAt
<1>7. (k + 1) - 1 = k
  BY <1>1
<1>8. SubSeq(text, k, k) = <<text[k]>>
  BY <1>1, OneSymbol
<1> QED
  BY <1>6, <1>7, <1>8, Zenon

\* A separator, or the end of the text, starts an empty piece.
LEMMA PieceIsEmpty ==
  ASSUME NEW A, NEW text \in Seq(A), NEW k \in 1..Len(text) + 1, k \notin Symbols(text)
  PROVE  PieceAt(text, k) = Empty
<1> DEFINE ends == {j \in k..Len(text) : text[j] = Separator} \cup {Len(text) + 1}
<1>1. Len(text) \in Nat /\ k \in Nat /\ k >= 1 /\ k <= Len(text) + 1
  OBVIOUS
<1>2. ends \in SUBSET Nat
  BY <1>1
<1>3. k \in ends
  <2>1. CASE k = Len(text) + 1
    BY <2>1
  <2>2. CASE k # Len(text) + 1
    BY <1>1, <2>2 DEF Symbols
  <2> QED
    BY <2>1, <2>2
<1>4. \A j \in ends : k <= j
  <2>1. \A j \in k..Len(text) : k <= j
    BY <1>1
  <2> QED
    BY <1>1, <2>1
<1>5. Min(ends) = k
  <2> HIDE DEF ends
  <2> QED
    BY <1>2, <1>3, <1>4, MinIs
<1>6. PieceAt(text, k) = SubSeq(text, k, k - 1)
  BY <1>5 DEF PieceAt
<1>7. SubSeq(text, k, k - 1) = <<>>
  BY <1>1
<1> QED
  BY <1>6, <1>7, Zenon DEF Empty

\* CidrList lists the symbols of a text, one piece for each.
LEMMA CidrListIs ==
  ASSUME NEW A, NEW text \in Seq(A), Separated(text, Separator)
  PROVE  /\ CidrList(text) =
              [n \in DOMAIN InOrder(Symbols(text)) |-> <<text[InOrder(Symbols(text))[n]]>>]
         /\ Symbols(text) \in SUBSET Nat /\ IsFiniteSet(Symbols(text))
<1> DEFINE starts == {k \in 1..Len(text) + 1 : /\ k = 1 \/ text[k - 1] = Separator
                                               /\ PieceAt(text, k) # Empty}
<1>1. Len(text) \in Nat /\ DOMAIN text = 1..Len(text)
  OBVIOUS
<1>2. ASSUME NEW k \in Symbols(text) PROVE k \in starts
  <2>1. k \in 1..Len(text) /\ text[k] # Separator /\ k \in 1..Len(text) + 1
    BY <1>1 DEF Symbols
  <2>2. PieceAt(text, k) # Empty
    <3>1. PieceAt(text, k) = <<text[k]>>
      BY PieceIsSymbol
    <3>2. <<text[k]>> # <<>>
      OBVIOUS
    <3> QED
      BY <3>1, <3>2, Zenon DEF Empty
  <2>3. CASE k = 1
    BY <2>1, <2>2, <2>3
  <2>4. CASE k # 1
    <3>1. k - 1 \in 1..Len(text) - 1 /\ (k - 1) + 1 = k
      BY <1>1, <2>1, <2>4
    <3>2. text[k - 1] = Separator
      BY <2>1, <3>1 DEF Separated
    <3> QED
      BY <2>1, <2>2, <3>2
  <2> QED
    BY <2>3, <2>4
<1>3. starts = Symbols(text)
  <2>1. \A k \in starts : k \in Symbols(text)
    BY PieceIsEmpty
  <2> HIDE DEF starts
  <2> QED
    BY <1>2, <2>1
<1>4. CidrList(text) = [n \in DOMAIN InOrder(starts) |-> PieceAt(text, InOrder(starts)[n])]
  BY DEF CidrList
<1>5. Symbols(text) \in SUBSET Nat /\ IsFiniteSet(Symbols(text))
  <2>1. Symbols(text) \in SUBSET (1..Len(text)) /\ IsFiniteSet(1..Len(text))
    BY <1>1, FS_Interval DEF Symbols
  <2>2. IsFiniteSet(Symbols(text))
    BY <2>1, FS_Subset
  <2> QED
    BY <1>1, <2>1, <2>2
<1>6. \A n \in DOMAIN InOrder(Symbols(text)) :
        PieceAt(text, InOrder(Symbols(text))[n]) = <<text[InOrder(Symbols(text))[n]]>>
  BY <1>5, OrderListsSet, PieceIsSymbol
<1> HIDE DEF starts
<1> QED
  BY <1>3, <1>4, <1>5, <1>6

-----------------------------------------------------------------------------
(* Rules.                                                                  *)

\* A function on the first numbers is a sequence.
LEMMA ListIsSequence ==
  ASSUME NEW T, NEW n \in Nat, NEW f \in [1..n -> T]
  PROVE  f \in Seq(T) /\ Len(f) = n /\ DOMAIN f = 1..n
BY SeqDef

\* OfType keeps the rules of one type, and nothing else.
LEMMA OfTypeSelects ==
  ASSUME NEW T, NEW rules \in Seq(T), NEW type
  PROVE  /\ OfType(type, rules) \in Seq(T)
         /\ Range(OfType(type, rules)) = {rule \in Range(rules) : rule.type = type}
<1> DEFINE S == {i \in DOMAIN rules : rules[i].type = type}
           chosen == InOrder(S)
           N == Cardinality(S)
<1>1. Len(rules) \in Nat /\ DOMAIN rules = 1..Len(rules) /\ \A i \in DOMAIN rules : rules[i] \in T
  OBVIOUS
<1>2. S \in SUBSET (1..Len(rules)) /\ S \in SUBSET Nat
  BY <1>1
<1>3. IsFiniteSet(S)
  <2>1. IsFiniteSet(1..Len(rules))
    BY <1>1, FS_Interval
  <2> HIDE DEF S
  <2> QED
    BY <1>2, <2>1, FS_Subset
<1>4. /\ N \in Nat /\ DOMAIN chosen = 1..N
      /\ \A n \in 1..N : chosen[n] \in S
      /\ \A k \in S : \E n \in 1..N : chosen[n] = k
  <2> HIDE DEF S
  <2> QED
    BY <1>2, <1>3, OrderListsSet
<1>5. OfType(type, rules) = [n \in 1..N |-> rules[chosen[n]]]
  BY <1>4 DEF OfType
<1> HIDE DEF chosen, N
<1>6. [n \in 1..N |-> rules[chosen[n]]] \in [1..N -> T]
  BY <1>1, <1>4
<1>7. OfType(type, rules) \in Seq(T) /\ DOMAIN OfType(type, rules) = 1..N
  BY <1>4, <1>5, <1>6, ListIsSequence
<1>8. \A n \in 1..N : OfType(type, rules)[n] = rules[chosen[n]]
  BY <1>5
<1>9. Range(OfType(type, rules)) = {rules[chosen[n]] : n \in 1..N}
  BY <1>7, <1>8 DEF Range
<1>10. {rules[chosen[n]] : n \in 1..N} = {rules[i] : i \in S}
  <2> HIDE DEF S
  <2> QED
    BY <1>4
<1>11. {rules[i] : i \in S} = {rule \in Range(rules) : rule.type = type}
  BY DEF Range
<1> QED
  BY <1>7, <1>9, <1>10, <1>11

\* Where what is denied comes last and leaves nothing out, a host is let out if and only if
\* a rule before that names it.
LEMMA AllowedFirst ==
  ASSUME NEW T, NEW allow \in Seq(T), NEW deny \in Seq(T), NEW host,
         \A rule \in Range(allow) : rule.type = "Allow",
         \A rule \in Range(deny) : rule.type = "Deny",
         \E rule \in Range(deny) : Matches(rule, host)
  PROVE  Verdict(allow \o deny, host) = "Allow" <=> \E rule \in Range(allow) : Matches(rule, host)
<1> DEFINE rules == allow \o deny
           m == Len(allow)
           matching == {i \in DOMAIN rules : Matches(rules[i], host)}
<1>1. /\ m \in Nat /\ Len(deny) \in Nat /\ Len(rules) = m + Len(deny)
      /\ DOMAIN rules = 1..m + Len(deny)
      /\ DOMAIN allow = 1..m /\ DOMAIN deny = 1..Len(deny)
  BY ConcatProperties, LenProperties
<1>2. \A i \in 1..m + Len(deny) : rules[i] = IF i <= m THEN allow[i] ELSE deny[i - m]
  BY ConcatProperties
<1> HIDE DEF rules, m
<1>3. \A i \in 1..m : i \in DOMAIN rules /\ rules[i] = allow[i] /\ rules[i] \in Range(allow)
  <2>1. \A i \in 1..m : i \in 1..m + Len(deny) /\ i <= m
    BY <1>1
  <2> QED
    BY <1>1, <1>2, <2>1 DEF Range
<1>4. \A i \in DOMAIN rules : ~(i \in 1..m) => rules[i] \in Range(deny)
  <2> SUFFICES ASSUME NEW i \in DOMAIN rules, ~(i \in 1..m) PROVE rules[i] \in Range(deny)
    OBVIOUS
  <2>1. i \in 1..m + Len(deny) /\ ~(i <= m) /\ i - m \in 1..Len(deny)
    BY <1>1
  <2>2. rules[i] = deny[i - m]
    BY <1>2, <2>1
  <2> QED
    BY <1>1, <2>1, <2>2 DEF Range
<1>5. matching # {}
  <2>1. PICK d \in 1..Len(deny) : Matches(deny[d], host)
    BY <1>1 DEF Range
  <2>2. m + d \in 1..m + Len(deny) /\ ~(m + d <= m) /\ (m + d) - m = d
    BY <1>1
  <2>3. rules[m + d] = deny[d]
    BY <1>2, <2>2
  <2> QED
    BY <1>1, <2>1, <2>2, <2>3
<1>6. matching \in SUBSET Nat
  BY <1>1
<1>7. Min(matching) \in matching /\ \A i \in matching : Min(matching) <= i
  <2> HIDE DEF matching
  <2> QED
    BY <1>5, <1>6, MinExists
<1>8. Verdict(rules, host) = rules[Min(matching)].type
  BY <1>5 DEF Verdict
<1> DEFINE first == Min(matching)
<1>9. first \in DOMAIN rules /\ Matches(rules[first], host) /\ \A i \in matching : first <= i
  BY <1>7
<1> HIDE DEF first
<1>10. CASE first \in 1..m
  <2>1. rules[first] \in Range(allow) /\ rules[first].type = "Allow"
    BY <1>3, <1>10
  <2> QED
    BY <1>8, <1>9, <2>1 DEF first, rules
<1>11. CASE ~(first \in 1..m)
  <2>1. rules[first].type = "Deny"
    BY <1>4, <1>9, <1>11
  <2>2. ASSUME NEW i \in 1..m, Matches(allow[i], host) PROVE FALSE
    <3>1. i \in matching
      BY <1>3, <2>2
    <3>2. first <= i /\ first \in 1..m + Len(deny)
      BY <1>1, <1>9, <3>1
    <3> QED
      BY <1>1, <1>11, <3>2
  <2>3. ~\E rule \in Range(allow) : Matches(rule, host)
    BY <1>1, <2>2 DEF Range
  <2> QED
    BY <1>8, <2>1, <2>3 DEF first, rules
<1> QED
  BY <1>10, <1>11

\* What a destination of one of the model's rules matches.
LEMMA MatchesIs ==
  ASSUME NEW type, NEW selector, NEW name, NEW host
  PROVE  Matches(Rule(type, To(selector, name)), host) <=>
           selector = Everything \/ selector = host \/ name = host
BY DEF Matches, Rule, To

\* The rules of the template.
LEMMA TemplateRules ==
  /\ EgressFirewallTemplate \in Seq(Range(EgressFirewallTemplate))
  /\ Range(EgressFirewallTemplate) =
       {Rule("Allow", To(Empty, <<"events.pagerduty.com">>)),
        Rule("Allow", To(Empty, <<"RemoteWriteDNSName">>)),
        Rule("Allow", To(ClusterNetwork, Empty)),
        Rule("Deny", To(Everything, Empty))}
<1> DEFINE a == Rule("Allow", To(Empty, <<"events.pagerduty.com">>))
           b == Rule("Allow", To(Empty, <<"RemoteWriteDNSName">>))
           c == Rule("Allow", To(ClusterNetwork, Empty))
           d == Rule("Deny", To(Everything, Empty))
<1>1. EgressFirewallTemplate = <<a, b, c, d>>
  BY DEF EgressFirewallTemplate
<1> HIDE DEF a, b, c, d
<1>2. <<a, b, c, d>> \in Seq({a, b, c, d})
  OBVIOUS
<1>3. /\ DOMAIN <<a, b, c, d>> = {1, 2, 3, 4}
      /\ <<a, b, c, d>>[1] = a /\ <<a, b, c, d>>[2] = b
      /\ <<a, b, c, d>>[3] = c /\ <<a, b, c, d>>[4] = d
  OBVIOUS
<1>4. Range(<<a, b, c, d>>) = {a, b, c, d}
  BY <1>3 DEF Range
<1> QED
  BY <1>1, <1>2, <1>4 DEF a, b, c, d

\* The rules that come before what is denied, in terms of the text and the SMTP host.
AllowRules(text, smtpHost) ==
  {Rule("Allow", To(Empty, <<"events.pagerduty.com">>)),
   Rule("Allow", To(Empty, <<"RemoteWriteDNSName">>)),
   Rule("Allow", To(ClusterNetwork, Empty)), Rule("Allow", To(Empty, smtpHost))}
    \cup {Rule("Allow", To(<<text[i]>>, Empty)) : i \in Symbols(text)}

\* The rules are made of those, and then of what is denied.
LEMMA RulesSplit ==
  ASSUME NEW A, NEW text \in Seq(A), Separated(text, Separator), NEW smtpHost
  PROVE  \E T : \E allow, deny \in Seq(T) :
           /\ EgressFirewallRules(text, smtpHost) = allow \o deny
           /\ Range(allow) = AllowRules(text, smtpHost)
           /\ Range(deny) = {Rule("Deny", To(Everything, Empty))}
<1> DEFINE template == EgressFirewallTemplate
           cidrs == CidrList(text)
           blocks == [n \in DOMAIN cidrs |-> Rule("Allow", To(cidrs[n], Empty))]
           blockRules == {Rule("Allow", To(<<text[i]>>, Empty)) : i \in Symbols(text)}
           smtp == Rule("Allow", To(Empty, smtpHost))
           T == Range(template) \cup blockRules \cup {smtp}
           at == InOrder(Symbols(text))
           N == Cardinality(Symbols(text))
<1>1. template \in Seq(T)
  BY TemplateRules, SeqMonotonic
<1>2. /\ OfType("Allow", template) \in Seq(T) /\ OfType("Deny", template) \in Seq(T)
      /\ Range(OfType("Allow", template)) = {rule \in Range(template) : rule.type = "Allow"}
      /\ Range(OfType("Deny", template)) = {rule \in Range(template) : rule.type = "Deny"}
  <2> HIDE DEF template, T
  <2> QED
    BY <1>1, OfTypeSelects
<1>3. /\ N \in Nat /\ DOMAIN at = 1..N
      /\ \A n \in 1..N : at[n] \in Symbols(text)
      /\ \A k \in Symbols(text) : \E n \in 1..N : at[n] = k
      /\ cidrs = [n \in 1..N |-> <<text[at[n]]>>]
  BY CidrListIs, OrderListsSet
<1> HIDE DEF at, N
<1>4. blocks = [n \in 1..N |-> Rule("Allow", To(<<text[at[n]]>>, Empty))]
  BY <1>3
<1>5. blocks \in Seq(T) /\ Range(blocks) = blockRules
  <2>1. [n \in 1..N |-> Rule("Allow", To(<<text[at[n]]>>, Empty))] \in [1..N -> T]
    BY <1>3
  <2>2. blocks \in Seq(T) /\ DOMAIN blocks = 1..N
    <3> HIDE DEF T, blocks
    <3> QED
      BY <1>3, <1>4, <2>1, ListIsSequence
  <2>3. Range(blocks) = {Rule("Allow", To(<<text[at[n]]>>, Empty)) : n \in 1..N}
    <3>1. \A n \in 1..N : blocks[n] = Rule("Allow", To(<<text[at[n]]>>, Empty))
      BY <1>4
    <3> HIDE DEF blocks
    <3> QED
      BY <2>2, <3>1 DEF Range
  <2>4. {Rule("Allow", To(<<text[at[n]]>>, Empty)) : n \in 1..N} = blockRules
    BY <1>3
  <2> QED
    BY <2>2, <2>3, <2>4
<1>6. <<smtp>> \in Seq(T) /\ Range(<<smtp>>) = {smtp}
  <2>1. smtp \in T
    OBVIOUS
  <2> HIDE DEF smtp, T
  <2>2. <<smtp>> \in Seq(T) /\ DOMAIN <<smtp>> = {1} /\ <<smtp>>[1] = smtp
    BY <2>1
  <2> QED
    BY <2>2 DEF Range
<1> DEFINE first == OfType("Allow", template) \o blocks
           allow == first \o <<smtp>>
           deny == OfType("Deny", template)
<1>7. EgressFirewallRules(text, smtpHost) = allow \o deny
  BY DEF EgressFirewallRules
<1>8. /\ first \in Seq(T)
      /\ Range(first) = {rule \in Range(template) : rule.type = "Allow"} \cup blockRules
  <2> HIDE DEF T, blocks, template, blockRules
  <2> QED
    BY <1>2, <1>5, ConcatProperties, RangeConcatenation
<1>9. allow \in Seq(T) /\ Range(allow) = Range(first) \cup {smtp}
  <2> DEFINE last == <<smtp>>
  <2>1. last \in Seq(T) /\ Range(last) = {smtp} /\ first \in Seq(T) /\ allow = first \o last
    BY <1>6, <1>8
  <2> HIDE DEF T, smtp, first, last, allow
  <2>2. first \o last \in Seq(T) /\ Range(first \o last) = Range(first) \cup Range(last)
    BY <2>1, ConcatProperties, RangeConcatenation
  <2> QED
    BY <2>1, <2>2, Zenon
<1>10. /\ {rule \in Range(template) : rule.type = "Allow"} =
            {Rule("Allow", To(Empty, <<"events.pagerduty.com">>)),
             Rule("Allow", To(Empty, <<"RemoteWriteDNSName">>)),
             Rule("Allow", To(ClusterNetwork, Empty))}
       /\ {rule \in Range(template) : rule.type = "Deny"} = {Rule("Deny", To(Everything, Empty))}
  <2>1. \A type, to : Rule(type, to).type = type
    BY DEF Rule
  <2> QED
    BY <2>1, TemplateRules
<1>11. Range(allow) = AllowRules(text, smtpHost)
  BY <1>8, <1>9, <1>10 DEF AllowRules
<1> HIDE DEF allow, deny, T
<1> QED
  BY <1>2, <1>7, <1>9, <1>10, <1>11 DEF deny

\* A symbol and a host name are not the empty text, nor one another.
LEMMA TextsDiffer ==
  /\ \A x : <<x>> # Empty
  /\ Empty # Everything /\ ClusterNetwork # Everything /\ ClusterNetwork # Empty
  /\ \A x : <<x>> = Everything <=> x = "0.0.0.0/0"
BY DEF Empty, Everything, ClusterNetwork

\* "The order or rules matter": for any text the gatherer may have saved and any SMTP host,
\* the rules let out the template's hosts, the SMTP host and the blocks of the text, and
\* nothing else, although the last of them denies everything.
THEOREM RulesLetOut ==
  ASSUME NEW A, NEW text \in Seq(A), Separated(text, Separator),
         \A i \in DOMAIN text : text[i] # "0.0.0.0/0",
         NEW smtpHost, NEW host, host # Empty
  PROVE  Verdict(EgressFirewallRules(text, smtpHost), host) = "Allow" <=>
           host \in TemplateHosts \cup {smtpHost} \cup {<<text[i]>> : i \in Symbols(text)}
<1>1. PICK T : \E allow, deny \in Seq(T) :
                 /\ EgressFirewallRules(text, smtpHost) = allow \o deny
                 /\ Range(allow) = AllowRules(text, smtpHost)
                 /\ Range(deny) = {Rule("Deny", To(Everything, Empty))}
  BY RulesSplit
<1>2. PICK allow \in Seq(T), deny \in Seq(T) :
                 /\ EgressFirewallRules(text, smtpHost) = allow \o deny
                 /\ Range(allow) = AllowRules(text, smtpHost)
                 /\ Range(deny) = {Rule("Deny", To(Everything, Empty))}
  BY <1>1
<1>3. \A type, to : Rule(type, to).type = type
  BY DEF Rule
<1>4. \A rule \in Range(allow) : rule.type = "Allow"
  BY <1>2, <1>3 DEF AllowRules
<1>5. /\ \A rule \in Range(deny) : rule.type = "Deny"
      /\ \E rule \in Range(deny) : Matches(rule, host)
  BY <1>2, <1>3, MatchesIs
<1>6. Verdict(allow \o deny, host) = "Allow" <=> \E rule \in Range(allow) : Matches(rule, host)
  BY <1>4, <1>5, AllowedFirst
<1>7. (\E rule \in AllowRules(text, smtpHost) : Matches(rule, host)) <=>
        \/ Matches(Rule("Allow", To(Empty, <<"events.pagerduty.com">>)), host)
        \/ Matches(Rule("Allow", To(Empty, <<"RemoteWriteDNSName">>)), host)
        \/ Matches(Rule("Allow", To(ClusterNetwork, Empty)), host)
        \/ Matches(Rule("Allow", To(Empty, smtpHost)), host)
        \/ \E i \in Symbols(text) : Matches(Rule("Allow", To(<<text[i]>>, Empty)), host)
  BY DEF AllowRules
<1>8. \A i \in Symbols(text) : <<text[i]>> # Everything
  BY TextsDiffer DEF Symbols
<1>9. (\E rule \in AllowRules(text, smtpHost) : Matches(rule, host)) <=>
        \/ host \in {<<"events.pagerduty.com">>, <<"RemoteWriteDNSName">>, ClusterNetwork, smtpHost}
        \/ \E i \in Symbols(text) : host = <<text[i]>>
  <2>1. \A name : Matches(Rule("Allow", To(Empty, name)), host) <=> host = name
    BY MatchesIs, TextsDiffer
  <2>2. Matches(Rule("Allow", To(ClusterNetwork, Empty)), host) <=> host = ClusterNetwork
    BY MatchesIs, TextsDiffer
  <2>3. \A i \in Symbols(text) :
          Matches(Rule("Allow", To(<<text[i]>>, Empty)), host) <=> host = <<text[i]>>
    BY <1>8, MatchesIs
  <2> QED
    BY <1>7, <2>1, <2>2, <2>3, Zenon
<1> QED
  BY <1>2, <1>6, <1>9 DEF TemplateHosts

\* The rules of an EgressNetworkPolicy let out what those of the EgressFirewall do.
LEMMA SameVerdict ==
  ASSUME NEW T, NEW rules \in Seq(T), NEW host
  PROVE  Verdict(EgressNetworkPolicyRules(rules), host) = Verdict(rules, host)
<1> DEFINE policy == EgressNetworkPolicyRules(rules)
           matching == {i \in DOMAIN rules : Matches(rules[i], host)}
<1>1. DOMAIN policy = DOMAIN rules
  BY DEF EgressNetworkPolicyRules
<1>2. \A i \in DOMAIN rules :
        policy[i].type = rules[i].type /\ (Matches(policy[i], host) <=> Matches(rules[i], host))
  BY DEF EgressNetworkPolicyRules, Matches, Rule, To
<1> HIDE DEF policy
<1>3. {i \in DOMAIN policy : Matches(policy[i], host)} = matching
  BY <1>1, <1>2
<1>4. matching \in SUBSET Nat
  BY LenProperties
<1>5. CASE matching = {}
  BY <1>3, <1>5 DEF Verdict, policy
<1>6. CASE matching # {}
  <2>1. Min(matching) \in matching
    <3> HIDE DEF matching
    <3> QED
      BY <1>4, <1>6, MinExists
  <2>2. policy[Min(matching)].type = rules[Min(matching)].type
    BY <1>2, <2>1
  <2>3. Verdict(policy, host) = policy[Min(matching)].type
    BY <1>3, <1>6 DEF Verdict
  <2>4. Verdict(rules, host) = rules[Min(matching)].type
    BY <1>6 DEF Verdict
  <2> QED
    BY <2>2, <2>3, <2>4 DEF policy
<1> QED
  BY <1>5, <1>6

\* The rules are a sequence.
LEMMA RulesAreList ==
  ASSUME NEW A, NEW text \in Seq(A), Separated(text, Separator), NEW smtpHost
  PROVE  \E T : EgressFirewallRules(text, smtpHost) \in Seq(T)
<1>1. PICK T : \E allow, deny \in Seq(T) :
                 /\ EgressFirewallRules(text, smtpHost) = allow \o deny
                 /\ Range(allow) = AllowRules(text, smtpHost)
                 /\ Range(deny) = {Rule("Deny", To(Everything, Empty))}
  BY RulesSplit
<1>2. EgressFirewallRules(text, smtpHost) \in Seq(T)
  BY <1>1, ConcatProperties
<1> QED
  BY <1>2
=============================================================================
