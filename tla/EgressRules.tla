----------------------------- MODULE EgressRules -----------------------------
(***************************************************************************)
(* The egress rules of the agent's namespace                               *)
(* (getEgressFirewallDesiredState and its conversion in                    *)
(* controllers/managedfusion_controller.go, templates/egressfirewall.go).  *)
(* The rules come from a template, from the machine CIDR that the AWS data *)
(* gatherer left in a ConfigMap and from the SMTP endpoint of the agent's  *)
(* secret; they are written in two formats, for the two network plugins.   *)
(*                                                                         *)
(* A text is a sequence of symbols, one for each CIDR block, error page or *)
(* separator in it, so that no two symbols but separators are neighbours;  *)
(* a CIDR selector is a text, and so is a host name.                       *)
(***************************************************************************)
EXTENDS Integers, Sequences, FiniteSetsExt

Separator == ";"

Separated(text, separator) ==
  \A i \in 1..Len(text) - 1 : text[i] = separator \/ text[i + 1] = separator

Empty == <<>>

Everything == <<"0.0.0.0/0">>

ClusterNetwork == <<"100.64.0.0/16">>

To(cidrSelector, dnsName) == [cidrSelector |-> cidrSelector, dnsName |-> dnsName]

Rule(type, to) == [type |-> type, to |-> to]

\* templates.EgressFirewallTemplate
EgressFirewallTemplate ==
  <<Rule("Allow", To(Empty, <<"events.pagerduty.com">>)),
    Rule("Allow", To(Empty, <<"RemoteWriteDNSName">>)),
    Rule("Allow", To(ClusterNetwork, Empty)),
    Rule("Deny", To(Everything, Empty))>>

\* A finite set of positions as an ascending sequence.
InOrder(S) == [n \in 1..Cardinality(S) |-> CHOOSE k \in S : Cardinality({j \in S : j <= k}) = n]

OfType(type, rules) ==
  LET chosen == InOrder({i \in DOMAIN rules : rules[i].type = type})
  IN [n \in DOMAIN chosen |-> rules[chosen[n]]]

\* The piece of a text that starts at position k and ends before the next ";".
PieceAt(text, k) ==
  LET end == Min({j \in k..Len(text) : text[j] = Separator} \cup {Len(text) + 1})
  IN SubSeq(text, k, end - 1)

\* strings.Split(vpcCIDR, ";"), without the empty pieces.
CidrList(text) ==
  LET starts == InOrder({k \in 1..Len(text) + 1 : /\ k = 1 \/ text[k - 1] = Separator
                                                  /\ PieceAt(text, k) # Empty})
  IN [n \in DOMAIN starts |-> PieceAt(text, starts[n])]

\* Mutated: the new rules go to the end of the template's.
RulesAppended(text, smtpHost) ==
  LET cidrs == CidrList(text)
  IN EgressFirewallTemplate \o [n \in DOMAIN cidrs |-> Rule("Allow", To(cidrs[n], Empty))]
       \o <<Rule("Allow", To(Empty, smtpHost))>>

\* getEgressFirewallDesiredState: "The order or rules matter", so what is denied comes last.
EgressFirewallRules(text, smtpHost) ==
  LET cidrs == CidrList(text)
  IN OfType("Allow", EgressFirewallTemplate)
       \o [n \in DOMAIN cidrs |-> Rule("Allow", To(cidrs[n], Empty))]
       \o <<Rule("Allow", To(Empty, smtpHost))>>
       \o OfType("Deny", EgressFirewallTemplate)

\* egressFirewallSpecToEgressNetworkPolicySpec: rule by rule; the two APIs share the names
\* of the types and of the two fields of a destination.
EgressNetworkPolicyRules(rules) ==
  [i \in DOMAIN rules |-> Rule(rules[i].type, To(rules[i].to.cidrSelector, rules[i].to.dnsName))]

-----------------------------------------------------------------------------
(* What the network plugins make of the rules: the first rule whose        *)
(* destination matches decides, and traffic that no rule matches passes.   *)
(* A destination is a host name, or an address in one known block; a       *)
(* selector that is not one block matches nothing.                         *)

Matches(rule, host) ==
  \/ rule.to.cidrSelector = Everything
  \/ rule.to.cidrSelector = host
  \/ rule.to.dnsName = host

Verdict(rules, host) ==
  LET matching == {i \in DOMAIN rules : Matches(rules[i], host)}
  IN IF matching = {} THEN "Allow" ELSE rules[Min(matching)].type

\* The hosts of the template's rules.
TemplateHosts == {<<"events.pagerduty.com">>, <<"RemoteWriteDNSName">>, ClusterNetwork}
=============================================================================
