------------------------ MODULE MCDataFoundationClient ------------------------
(* An instance of DataFoundationClient for TLC.                                *)
EXTENDS DataFoundationClient

Config(valid, endpoint, ticket) ==
  [kind |-> "DFC", valid |-> valid, endpoint |-> endpoint, ticket |-> ticket]

\* No YAML, no ticket, and two usable configurations.
AllConfigs == {Config(FALSE, 1, 1), Config(TRUE, 1, 0), Config(TRUE, 1, 1), Config(TRUE, 2, 2)}
=============================================================================
