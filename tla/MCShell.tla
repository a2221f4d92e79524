------------------------------ MODULE MCShell -------------------------------
(* Instances of Shell for TLC.                                             *)
EXTENDS Shell

ToAll(task, cmd) == [proc |-> NServer, task |-> task, cmd |-> cmd]

\* A server of the ring, the number that stands for all of them, and one that
\* stands for none.
MCProcesses == {1, NServer, NServer + 1}

\* What is answered once by every radio or every server, twice by every radio, once
\* by one radio, and a message without any field.
MCCommands == {ToAll("radio", "lc"), ToAll("server", "lt"), ToAll("radio", "collect"), EmptyLoad}
                \cup {ToRadio(p) : p \in MCProcesses}
=============================================================================
