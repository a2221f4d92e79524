------------------------------- MODULE Servers -------------------------------
(***************************************************************************)
(* The processes of sdr and their order in the ring (src/src/server.h).    *)
(***************************************************************************)
EXTENDS Integers

CONSTANT NServer      \* mNServer, processes in the ring

ASSUME NServerAssumption == NServer \in Nat \ {0}

Server == 0..(NServer - 1)

\* The server the pipe of server n leads to.
Succ(n) == IF n + 1 < NServer THEN n + 1 ELSE 0
=============================================================================
