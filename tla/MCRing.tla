------------------------------- MODULE MCRing -------------------------------
(* Instances of Ring for TLC: what the operator may type.                  *)
EXTENDS Ring

ToAll(task, cmd) == [proc |-> NServer, task |-> task, cmd |-> cmd]

\* Commands for all, answered once by every radio, twice, or by the servers.
MCCommands == {ToAll("radio", "lc"), ToAll("radio", "collect"), ToAll("server", "lt")}
=============================================================================
