--------------------------- MODULE MCDataFoundation ---------------------------
(* Instances of DataFoundation for TLC.                                        *)
EXTENDS DataFoundation

Config(valid, key, capacity) ==
  [kind |-> "DF", valid |-> valid, key |-> key, capacity |-> capacity]

\* No YAML, an empty key, no capacity, and two usable configurations: 4 TiB is one
\* device set and 5 TiB is two.
AllConfigs ==
  {Config(FALSE, 1, 4), Config(TRUE, 0, 4), Config(TRUE, 1, 0), Config(TRUE, 1, 4),
   Config(TRUE, 2, 5)}

SizeConfigs == {Config(TRUE, 1, 4), Config(TRUE, 1, 5)}

LiveConfigs == {Config(FALSE, 1, 4), Config(TRUE, 1, 5)}
=============================================================================
