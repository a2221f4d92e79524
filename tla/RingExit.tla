------------------------------ MODULE RingExit -------------------------------
(***************************************************************************)
(* The life of the ring: the servers are forked one after the other while  *)
(* the first of them already take commands, quit makes each of them leave, *)
(* and one of them may die or never be forked.                             *)
(*                                                                         *)
(* Ring with PipeRing.  A server that writes to a pipe nobody can read any *)
(* more is ended by SIGPIPE; one that reads a pipe nobody can write any    *)
(* more gets the end of file at every turn of its loop, which recvPipe     *)
(* takes for a message without fields, addressed to process 0.             *)
(***************************************************************************)
EXTENDS Ring, PipeRing, FiniteSetsExt

CONSTANTS
  Crashes,     \* may one server die of something else?
  MaxAnswers   \* bound: answers the commands typed in a behaviour ask for

ASSUME CrashesAssumption == Crashes \in BOOLEAN
ASSUME MaxAnswersAssumption == MaxAnswers \in Nat

VARIABLES
  leaving,   \* the servers whose mKeepRunning is false
  crashed    \* history: a server was killed, or not forked

exitVars == <<wiringVars, leaving, crashed>>
lifeVars == <<vars, exitVars>>

ExitInit == Init /\ WiringInit /\ leaving = {} /\ crashed = FALSE

\* What the operator's quit sends.
CmdQuit == [proc |-> Broadcast, task |-> "server", cmd |-> "quit"]

-----------------------------------------------------------------------------
(* The start.                                                              *)

Starting ==
  /\ \/ (Sort \/ ParentLeaves \/ \E n \in Server : Fork(n)) /\ UNCHANGED crashed
     \/ Crashes /\ ~crashed /\ (\E n \in Server : ForkFails(n)) /\ crashed' = TRUE
  /\ UNCHANGED <<vars, leaving>>

-----------------------------------------------------------------------------
(* A server at work.                                                       *)

\* Action A of the ring, by server n, with its writes going through.
Running(n, A) ==
  /\ Alive(n)
  /\ A
  /\ pipe'[Succ(n)] # pipe[Succ(n)] => HasReader(Succ(n))
  /\ UNCHANGED exitVars

\* What the operator does, within the bound.
Operator ==
  \/ Disconnect
  \/ \E c \in Commands :
       /\ MapThenSumSet(LAMBDA i : Answers(typed[i]), DOMAIN typed) + Answers(c) <= MaxAnswers
       /\ Type(c)

\* The loop has begun its last pass: no message is read any more.
Reading(n) == n \notin leaving /\ RecvPipe(n)

Dispatch(n) == Bounce(n) \/ RadioCommand(n) \/ ServerCommand(n) \/ ShellCommand(n)

\* Server::jCommand: quit, which has been passed on before.
ObeyQuit(n) ==
  /\ Alive(n)
  /\ Dispatching(n)
  /\ busy[n].to.task = "server" /\ busy[n].cmd = "quit"
  /\ leaving' = leaving \cup {n}
  /\ busy' = [busy EXCEPT ![n] = NoMessage]
  /\ UNCHANGED <<pipe, owes, connected, typed, done, heard, merged, wiringVars, crashed>>

\* run returns after the pass, and main of this server.
Leave(n) ==
  /\ n \in leaving
  /\ End(n)
  /\ UNCHANGED <<vars, leaving, crashed>>

\* Server n is about to write to the next one: what it has read, an error or
\* an answer, or "done".
AboutToWrite(n) ==
  \/ /\ busy[n] = NoMessage /\ n \notin leaving
     /\ pipe[n] # <<>> /\ Head(pipe[n]).from.proc # n
  \/ /\ Dispatching(n)
     /\ \/ busy[n].to.task \notin Tasks(n) \cup {"shell"}
        \/ busy[n].to.task = "shell" /\ "shell" \notin Tasks(n)
        \/ busy[n].to.task = "radio"
        \/ busy[n].to.task = "server" /\ busy[n].cmd = "lt"
  \/ busy[n] \in {NoMessage, Notifying} /\ owes[n] # <<>>

\* The write to a pipe without a reader, which nobody catches.
SigPipe(n) ==
  /\ ~HasReader(Succ(n))
  /\ AboutToWrite(n)
  /\ End(n)
  /\ UNCHANGED <<vars, leaving, crashed>>

\* The end of the file: read returns 0, and no field of msg is there.  Server 0
\* finds that the message is for it, for a task without a name, and answers it.
\* To the others the message is not addressed, and they turn on the spot.
\* MaxErrors, one, bounds what waits in the pipe.
EndOfFile ==
  /\ Alive(0)
  /\ busy[0] = NoMessage /\ 0 \notin leaving
  /\ pipe[0] = <<>> /\ ~HasWriter(0)
  /\ HasReader(Succ(0))
  /\ \A i \in 1..Len(pipe[Succ(0)]) : pipe[Succ(0)][i].id # 0
  /\ SendPipe(0, TaskNotFound(0, [id |-> 0, cmd |-> "none", from |-> Nobody, to |-> Nobody]))
  /\ UNCHANGED <<busy, owes, connected, typed, done, heard, merged, exitVars>>

EndOfFileBroken ==
  /\ busy[0] = NoMessage /\ 0 \notin leaving
  /\ pipe[0] = <<>> /\ ~HasWriter(0) /\ ~HasReader(Succ(0))
  /\ End(0)
  /\ UNCHANGED <<vars, leaving, crashed>>

\* A server dies: killed, by an operator who hung up (Shell::doOutput), or by an
\* exception nobody catches.
Crash(n) ==
  /\ Crashes /\ ~crashed
  /\ End(n)
  /\ crashed' = TRUE
  /\ UNCHANGED <<vars, leaving>>

ServerLives(n) ==
  \/ Running(n, Reading(n) \/ Dispatch(n))
  \/ Running(n, busy[n] = Notifying /\ Notify(n))
  \/ ObeyQuit(n) \/ Leave(n) \/ SigPipe(n)
  \/ n = 0 /\ (EndOfFile \/ EndOfFileBroken)

ExitNext ==
  \/ Starting
  \/ Running(0, Operator)
  \/ \E n \in Server : ServerLives(n) \/ Running(n, Notify(n)) \/ Crash(n)

\* main goes on to fork; every server that lives goes on with its loop.
ExitFairness ==
  /\ WF_lifeVars(Starting)
  /\ \A n \in Server : WF_lifeVars(ServerLives(n))

ExitSpec == ExitInit /\ [][ExitNext]_lifeVars
FairExitSpec == ExitSpec /\ ExitFairness

-----------------------------------------------------------------------------
\* Type invariant of the ring and of what RingExit adds to it: through starts,
\* ends and errors, whatever travels names one server as its sender
\* (return_to_sender, recvPipe).
ExitTypeOK ==
  /\ TypeOK
  /\ WiringTypeOK
  /\ leaving \subseteq Server
  /\ crashed \in BOOLEAN

AllGone == forked = NServer /\ \A n \in Server : ~Alive(n)

\* quit ends every process (cmdQuit: broadcast to the servers; Server::jCommand:
\* gameOver), although each one leaves, and closes its pipes, while the message
\* is still on its way: unless it is read behind another message, or a process
\* has died before.
QuitEndsAll ==
  (\E c \in DOMAIN typed : typed[c].cmd = "quit") ~> AllGone \/ merged \/ crashed

\* Server 0, whom the operators talk to, does not outlive the server whose
\* messages it reads: the errors it sends to nobody at the end of the file end
\* in a pipe without a reader.
LastEndsFirst ==
  (forked = NServer /\ ~Alive(NServer - 1)) ~> ~Alive(0)

\* As long as no server has ended, and none was told to, the ring delivers as in
\* Ring, although the operator may type before all the servers are forked.
DeliveredWhileWhole ==
  ~crashed /\ (\A c \in DOMAIN typed : typed[c].cmd # "quit") => DeliveredUnlessMerged

\* Whatever ends and whenever, no server that lives is kept busy with messages
\* for ever, those of the dead among them.
SurvivorsDrain ==
  <>[](\A n \in Server : Alive(n) => pipe[n] = <<>> /\ busy[n] = NoMessage)
=============================================================================
