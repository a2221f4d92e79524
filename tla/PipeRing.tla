------------------------------ MODULE PipeRing -------------------------------
(***************************************************************************)
(* How the ring comes to be (PipeRing in src/src/server.cpp and main in    *)
(* src/src/sdr.cpp): one process makes all the pipes, sorts their ends so  *)
(* that entry n of mFd is what server n reads and writes, and forks the    *)
(* servers one after the other; a server closes the ends of the others,    *)
(* and the first process closes all of them when it leaves.                *)
(*                                                                         *)
(* Who holds which end decides what a server sees when another one ends:   *)
(* the end of file when nobody can write its pipe any more, SIGPIPE when   *)
(* nobody can read the one it writes.  The pipes are taken to be made: the *)
(* code does not look at mError.                                           *)
(***************************************************************************)
EXTENDS Servers

CONSTANT ForkFaults   \* may fork() fail?  Nobody looks at its result then.

ASSUME ForkFaultsAssumption == ForkFaults \in BOOLEAN

Parent == -1
Process == Server \cup {Parent}

ReadEnd(n) == <<n, "read">>
WriteEnd(n) == <<n, "write">>
Ends == {ReadEnd(n) : n \in Server} \cup {WriteEnd(n) : n \in Server}

VARIABLES
  mFd,      \* the matrix of ends: what server n reads and what it writes
  sorted,   \* how many entries the constructor has sorted
  forked,   \* how many servers main has forked
  holds     \* the ends each process has open

wiringVars == <<mFd, sorted, forked, holds>>

\* pipe() for every server.
WiringInit ==
  /\ mFd = [n \in Server |-> [reads |-> ReadEnd(n), writes |-> WriteEnd(n)]]
  /\ sorted = 0
  /\ forked = 0
  /\ holds = [p \in Process |-> IF p = Parent THEN Ends ELSE {}]

\* Mutant: the first write end is looked up when the loop comes to need it.
StartNow == mFd[0].writes
\* start, noted before the loop.
Start == WriteEnd(0)

\* Mutant: the loop makes one turn too many.
SortOneMore ==
  /\ sorted <= NServer
  /\ mFd' = [mFd EXCEPT ![sorted].writes =
               IF sorted + 1 < NServer THEN mFd[sorted + 1].writes ELSE Start]
  /\ sorted' = sorted + 1
  /\ UNCHANGED <<forked, holds>>

\* One turn of the loop that makes entry n write what entry n + 1 wrote.
Sort ==
  /\ sorted < NServer
  /\ mFd' = [mFd EXCEPT ![sorted].writes =
               IF sorted + 1 < NServer THEN mFd[sorted + 1].writes ELSE Start]
  /\ sorted' = sorted + 1
  /\ UNCHANGED <<forked, holds>>

\* Mutant: atServer closes only what the others read.
KeptAtServerRead(n) == holds[Parent] \ {mFd[k].reads : k \in Server \ {n}}

\* atServer: of the ends the process was forked with, those left open.
KeptAtServer(n) ==
  holds[Parent] \ ({mFd[k].reads : k \in Server \ {n}} \cup {mFd[k].writes : k \in Server \ {n}})

\* main forks server n, and sleeps a while.
Fork(n) ==
  /\ sorted = NServer
  /\ n = forked /\ n < NServer
  /\ forked' = forked + 1
  /\ holds' = [holds EXCEPT ![n] = KeptAtServer(n)]
  /\ UNCHANGED <<mFd, sorted>>

\* fork() returns -1, which main takes for the first process going on.
ForkFails(n) ==
  /\ ForkFaults
  /\ sorted = NServer
  /\ n = forked /\ n < NServer
  /\ forked' = forked + 1
  /\ UNCHANGED <<mFd, sorted, holds>>

\* main returns, and ~PipeRing closes everything.
ParentLeaves ==
  /\ forked = NServer
  /\ holds[Parent] # {}
  /\ holds' = [holds EXCEPT ![Parent] = {}]
  /\ UNCHANGED <<mFd, sorted, forked>>

\* Server n ends, and with it what it holds.
End(n) ==
  /\ holds[n] # {}
  /\ holds' = [holds EXCEPT ![n] = {}]
  /\ UNCHANGED <<mFd, sorted, forked>>

WiringNext ==
  \/ Sort
  \/ \E n \in Server : Fork(n) \/ ForkFails(n) \/ End(n)
  \/ ParentLeaves

WiringSpec == WiringInit /\ [][WiringNext]_wiringVars

-----------------------------------------------------------------------------
Alive(n) == holds[n] # {}
HasReader(n) == \E p \in Process : ReadEnd(n) \in holds[p]
HasWriter(n) == \E p \in Process : WriteEnd(n) \in holds[p]

\* Type invariant of the wiring (PipeRing).
WiringTypeOK ==
  /\ mFd \in [Server -> [reads : Ends, writes : Ends]]
  /\ sorted \in 0..NServer /\ forked \in 0..NServer
  /\ holds \in [Process -> SUBSET Ends]

\* Once the first process has left, a pipe is read by its server alone and
\* written by the server before it alone (the sorting of mFd, atServer and
\* ~PipeRing): so the messages go round by way of every server, and when a
\* server ends, the two beside it find out, and no end that some process has
\* forgotten to close keeps it from them.
OneReaderOneWriter ==
  \A p \in Process, n \in Server :
    holds[Parent] = {} =>
      /\ ReadEnd(n) \in holds[p] <=> p = n /\ Alive(n)
      /\ WriteEnd(n) \in holds[p] <=> p \in Server /\ Succ(p) = n /\ Alive(p)
=============================================================================
