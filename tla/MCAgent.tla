------------------------------- MODULE MCAgent -------------------------------
(* An instance of Agent for TLC.                                               *)
EXTENDS Agent

Full(remote) ==
  [valid |-> TRUE, remote |-> remote, credentials |-> "k1", contacts |-> "a1", emails |-> TRUE,
   smtp |-> "h1"]

UninstallData == {Full("garbled"), Full("t1")}
=============================================================================
