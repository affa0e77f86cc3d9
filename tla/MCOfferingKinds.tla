--------------------------- MODULE MCOfferingKinds ---------------------------
(* An instance of OfferingKinds for TLC.                                       *)
EXTENDS OfferingKinds

\* A provider and a client; each leaves out the fields of the other.
BothKinds ==
  {[kind |-> "DF", valid |-> TRUE, key |-> 1, capacity |-> 4, endpoint |-> 0, ticket |-> 0],
   [kind |-> "DFC", valid |-> TRUE, key |-> 0, capacity |-> 0, endpoint |-> 1, ticket |-> 1]}

\* And another address, and a provider and a client whose Config is no YAML.
MoreConfigs ==
  BothKinds \cup
  {[kind |-> kind, valid |-> kind = "DFC" /\ valid, key |-> 0, capacity |-> 0,
    endpoint |-> 2, ticket |-> 2] : kind \in {"DF", "DFC"}, valid \in BOOLEAN}
=============================================================================
