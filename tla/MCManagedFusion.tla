---------------------------- MODULE MCManagedFusion ----------------------------
(* Instances of ManagedFusion for TLC.                                           *)
EXTENDS ManagedFusion

Full(remote, smtp) ==
  [valid |-> TRUE, remote |-> remote, credentials |-> "k1", contacts |-> "a1",
   emails |-> TRUE, smtp |-> smtp]

\* What each check of the secret rejects, one at a time, and three contents it accepts.  A
\* garbled remote_write_config that is then taken out leaves an empty token in memory.
AllData ==
  {[Full("t1", "h1") EXCEPT !.valid = FALSE], Full("garbled", "h1"),
   [Full("t1", "h1") EXCEPT !.credentials = "none"], [Full("t1", "h1") EXCEPT !.contacts = "none"],
   Full("t1", "none"), Full("t1", "portOnly"), Full("t1", "h1"),
   [Full("none", "h1") EXCEPT !.emails = FALSE],
   [Full("t2", "h2") EXCEPT !.credentials = "k2"]}

UninstallData == {Full("garbled", "h1"), Full("t1", "h1")}

\* Two blocks, as the metadata service lists them; the body of an error page in their place.
TwoBlocks == {<<"b1", ";", "b2">>}

ChangingBlocks == {<<"b1", ";", "b2">>, <<"error">>}

TokenData == {Full("none", "h1"), Full("t1", "h1")}
=============================================================================
