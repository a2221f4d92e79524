-------------------------------- MODULE Ring --------------------------------
(***************************************************************************)
(* The ring of pipes that links the server processes of sdr                *)
(* (src/src/server.cpp): server n reads what server n - 1 writes, the      *)
(* first what the last writes.  A message is passed on by every server but *)
(* its sender, so it goes once around; the servers it is addressed to hand *)
(* it to one of their tasks, which may answer with a message of its own.   *)
(*                                                                         *)
(* A pipe carries bytes, not messages.  recvPipe reads all the bytes that  *)
(* are there, parses the first message among them, and passes on, or       *)
(* drops, all of them according to the sender of that first one.  The      *)
(* messages waiting at once are taken to fit the 4096 bytes of a read, and *)
(* a pipe never to be full; PipeLoad says how many there can be.  The end  *)
(* of a process is modelled in RingExit.                                   *)
(***************************************************************************)
EXTENDS Servers, Sequences, FiniteSets

CONSTANTS
  Commands,     \* what operators type: [proc, task, cmd] records
  MaxCommands,  \* bound: commands typed in a behaviour
  Disconnects   \* may the operator's shell go away?

ASSUME CommandsAssumption ==
  Commands \subseteq [proc : Int, task : {"radio"}, cmd : {"lc", "collect"}]
                 \cup [proc : Int, task : {"server"}, cmd : {"lt", "quit"}]
                 \cup {[proc |-> 0, task |-> "none", cmd |-> "none"]}
ASSUME MaxCommandsAssumption == MaxCommands \in Nat
ASSUME DisconnectsAssumption == Disconnects \in BOOLEAN

Broadcast == NServer      \* mBroadcast

TaskName == {"radio", "server", "shell", "none"}

\* id is the number of the command the message belongs to, 0 for one nobody
\* asked for.  An answer keeps the "command" field of the message it answers.
\* Nobody sends as mBroadcast; the process of "to" is any number an operator
\* types.  A field that is not there reads as process 0, task or command "".
Message == [id : 0..MaxCommands, cmd : {"lc", "collect", "lt", "quit", "none"},
            from : [proc : Server, task : TaskName],
            to : [proc : Int, task : TaskName]]

Nobody == [proc |-> 0, task |-> "none"]

\* load with more than two arguments: a message without any field.
EmptyLoad == [proc |-> 0, task |-> "none", cmd |-> "none"]

NoMessage == [id |-> -1]
Notifying == [id |-> -2]   \* in the loop of onBufferComplete over mNotify

VARIABLES
  pipe,      \* messages waiting to be read by each server
  busy,      \* what each server is in the middle of: the message recvPipe has
             \* passed on and not dispatched yet, or NoMessage in select()
  owes,      \* mNotify of each radio: collections not finished
  connected, \* the operator's shell is a task of server 0
  typed,     \* the commands typed so far
  done,      \* history: how often server n has carried out command id
  heard,     \* history: how many answers of server n for id reached the shell
  merged     \* history: some read has taken more than one message

vars == <<pipe, busy, owes, connected, typed, done, heard, merged>>

Init ==
  /\ pipe = [n \in Server |-> <<>>]
  /\ busy = [n \in Server |-> NoMessage]
  /\ owes = [n \in Server |-> <<>>]
  /\ connected = TRUE
  /\ typed = <<>>
  /\ done = [c \in 1..MaxCommands |-> [n \in Server |-> 0]]
  /\ heard = [c \in 1..MaxCommands |-> [n \in Server |-> 0]]
  /\ merged = FALSE

-----------------------------------------------------------------------------
\* The tasks of server n, by name (add and del, in mTasks).
Tasks(n) == {"server", "radio"} \cup (IF n = 0 /\ connected THEN {"shell"} ELSE {})

\* Mutant: the answer goes where the command went.
ReturnToAll(n, m) == [m EXCEPT !.from.proc = n]

\* return_to_sender, called on server n: a broadcast is answered as oneself.
ReturnToSender(n, m) ==
  [m EXCEPT !.to = m.from,
            !.from = [proc |-> IF m.to.proc = Broadcast THEN n ELSE m.to.proc,
                      task |-> m.to.task]]

\* Mutant: the error is not turned round.
TaskNotFoundAhead(n, m) == [m EXCEPT !.from = [proc |-> n, task |-> "server"]]

\* The error recvPipe sends when no task has the name: the answer of the
\* server, with the command still in it.
TaskNotFound(n, m) ==
  [ReturnToSender(n, m) EXCEPT !.from = [proc |-> n, task |-> "server"]]

\* sendPipe.
SendPipe(n, m) == pipe' = [pipe EXCEPT ![Succ(n)] = Append(@, m)]

\* The operator types a command at the shell of server 0 (cmdCollect, cmdLt,
\* cmdLc, cmdQuit: broadcastTo or sendTo, sendPipe), in the loop that calls
\* recvPipe.
Type(c) ==
  /\ busy[0] = NoMessage
  /\ connected
  /\ Len(typed) < MaxCommands
  /\ typed' = Append(typed, c)
  /\ SendPipe(0, [id |-> Len(typed) + 1,
                  from |-> IF c.cmd = "none" THEN Nobody
                                             ELSE [proc |-> 0, task |-> "shell"],
                  to |-> [proc |-> c.proc, task |-> c.task],
                  cmd |-> c.cmd])
  /\ UNCHANGED <<busy, owes, connected, done, heard, merged>>

\* The operator hangs up: Server::del takes the shell from the tasks.
Disconnect ==
  /\ busy[0] = NoMessage
  /\ Disconnects
  /\ connected
  /\ connected' = FALSE
  /\ UNCHANGED <<pipe, busy, owes, typed, done, heard, merged>>

\* The first part of recvPipe: read, parse the first message, pass on the bytes
\* read unless the server is to drop them.  What follows the first message in
\* the bytes is never looked at here.
ReadPipe(n, drop) ==
  LET msg == Head(pipe[n])
  IN /\ busy[n] = NoMessage
     /\ pipe[n] # <<>>
     /\ pipe' = [pipe EXCEPT ![n] = <<>>,
                             ![Succ(n)] = IF drop THEN @ ELSE @ \o pipe[n]]
     /\ busy' = [busy EXCEPT ![n] =
                   IF msg.to.proc \in {n, Broadcast} THEN msg ELSE NoMessage]
     /\ merged' = (merged \/ Len(pipe[n]) > 1)
     /\ UNCHANGED <<owes, connected, typed, done, heard>>

\* Mutants: what is addressed to the server is not passed on; the last message
\* read decides, not the first; only what the server sent itself is passed on.
RecvPipeOwn(n) == pipe[n] # <<>> /\ ReadPipe(n, Head(pipe[n]).from.proc # n)
RecvPipeKeeps(n) ==
  pipe[n] # <<>> /\ ReadPipe(n, Head(pipe[n]).to.proc \in {n, Broadcast})
RecvPipeLast(n) ==
  pipe[n] # <<>> /\ ReadPipe(n, pipe[n][Len(pipe[n])].from.proc = n)

\* "Pass the message on if you didn't send it."
RecvPipe(n) == pipe[n] # <<>> /\ ReadPipe(n, Head(pipe[n]).from.proc = n)

\* The second part begins: the server has a message for one of its tasks.
Dispatching(n) == busy[n] \in Message

\* No task has that name.
Bounce(n) ==
  /\ Dispatching(n)
  /\ busy[n].to.task \notin Tasks(n)
  /\ SendPipe(n, TaskNotFound(n, busy[n]))
  /\ busy' = [busy EXCEPT ![n] = NoMessage]
  /\ UNCHANGED <<owes, connected, typed, done, heard, merged>>

\* Radio::jCommand carries the command out and answers; a collection is to be
\* reported on again when it is complete.
RadioCommand(n) ==
  LET m == busy[n]
  IN /\ Dispatching(n)
     /\ m.to.task = "radio"
     /\ done' = [done EXCEPT ![m.id][n] = @ + 1]
     /\ owes' = [owes EXCEPT ![n] = IF m.cmd = "collect" THEN Append(@, m) ELSE @]
     /\ SendPipe(n, ReturnToSender(n, m))
     /\ busy' = [busy EXCEPT ![n] = NoMessage]
     /\ UNCHANGED <<connected, typed, heard, merged>>

\* The end of Radio::onBufferComplete when a collection is complete: "done" to
\* everyone who waits, oldest first, and nothing else until all are told.
Notify(n) ==
  /\ busy[n] \in {NoMessage, Notifying}
  /\ owes[n] # <<>>
  /\ SendPipe(n, ReturnToSender(n, Head(owes[n])))
  /\ owes' = [owes EXCEPT ![n] = Tail(@)]
  /\ busy' = [busy EXCEPT ![n] = IF Tail(owes[n]) = <<>> THEN NoMessage ELSE Notifying]
  /\ UNCHANGED <<connected, typed, done, heard, merged>>

\* Server::jCommand: lt lists the tasks; quit is in RingExit, other commands are
\* ignored.
ServerCommand(n) ==
  LET m == busy[n]
  IN /\ Dispatching(n)
     /\ m.to.task = "server"
     /\ m.cmd # "quit"
     /\ IF m.cmd = "lt"
          THEN SendPipe(n, ReturnToSender(n, m))
               /\ done' = [done EXCEPT ![m.id][n] = @ + 1]
          ELSE UNCHANGED <<pipe, done>>
     /\ busy' = [busy EXCEPT ![n] = NoMessage]
     /\ UNCHANGED <<owes, connected, typed, heard, merged>>

\* Shell::jCommand prints the answer.
ShellCommand(n) ==
  LET m == busy[n]
  IN /\ Dispatching(n)
     /\ m.to.task = "shell"
     /\ "shell" \in Tasks(n)
     /\ heard' = [heard EXCEPT ![m.id][m.from.proc] = @ + 1]
     /\ busy' = [busy EXCEPT ![n] = NoMessage]
     /\ UNCHANGED <<pipe, owes, connected, typed, done, merged>>

ServerStep(n) ==
  RecvPipe(n) \/ Bounce(n) \/ RadioCommand(n) \/ ServerCommand(n) \/ ShellCommand(n)

Next ==
  \/ \E c \in Commands : Type(c)
  \/ Disconnect
  \/ \E n \in Server : ServerStep(n) \/ Notify(n)

\* The select loop of every process goes on; a collection need not complete.
Fairness ==
  \A n \in Server :
    WF_vars(ServerStep(n) \/ (busy[n] = Notifying /\ Notify(n)))

Spec == Init /\ [][Next]_vars
FairSpec == Spec /\ Fairness

-----------------------------------------------------------------------------
\* Type invariant of the ring (server.cpp, recvPipe and sendPipe): whatever
\* travels names one server, never mBroadcast, as its sender.
TypeOK ==
  /\ pipe \in [Server -> Seq(Message)]
  /\ busy \in [Server -> Message \cup {NoMessage, Notifying}]
  /\ owes \in [Server -> Seq(Message)]
  /\ connected \in BOOLEAN
  /\ typed \in Seq(Commands)
  /\ done \in [1..MaxCommands -> [Server -> Nat]]
  /\ heard \in [1..MaxCommands -> [Server -> Nat]]
  /\ merged \in BOOLEAN

\* How many answers one execution of a command sends.
Answers(c) == IF c.cmd = "collect" THEN 2 ELSE 1

\* A server carries a command out at most once, however the messages are read
\* together; each answer that finds no shell makes it do so once more, since
\* recvPipe returns it as an error with the command still in it.  And the shell
\* hears no more answers than were sent: a message that gets past its sender is
\* not delivered a second time.
RepeatsBounded ==
  \A c \in 1..Len(typed), n \in Server :
    /\ done[c][n] <= 1 + (IF connected THEN 0 ELSE Answers(typed[c]))
    /\ heard[c][n] <= done[c][n] * Answers(typed[c])

\* What server n can send on account of command c: its answers, and when the
\* shell is gone, for each of them an error and the answers to the repetition.
Caused(c) == Answers(c) * (IF connected THEN 1 ELSE 2 + Answers(c))

\* The messages on account of command c that are in a pipe, as the servers that
\* have to read them and their places there.
Waiting(c) ==
  {w \in UNION {{n} \X DOMAIN pipe[n] : n \in Server} : pipe[w[1]][w[2]].id = c}

\* How many messages of a command are on their way: never more than the operator
\* and the servers sent once (sendPipe, recvPipe).  While those of all commands fit
\* into a read (4096 bytes) no message is cut in two, and while they fit into a
\* pipe (64 KB) no blocking write waits for a server that waits in its own write:
\* messages neither multiply nor accumulate.
PipeLoad ==
  \A c \in 1..Len(typed) : Cardinality(Waiting(c)) <= 1 + NServer * Caused(typed[c])

Quiet == \A n \in Server : pipe[n] = <<>> /\ busy[n] = NoMessage /\ owes[n] = <<>>

For(c, n) == c.proc \in {n, Broadcast} /\ c.cmd # "none"

\* "Messages sent to mBroadcast are sent to all" (server.cpp): once all is
\* quiet, every server has carried out every command meant for it.
ReachesAll ==
  Quiet => \A c \in 1..Len(typed), n \in Server :
             For(typed[c], n) => done[c][n] = 1

\* As long as recvPipe never reads two messages at once, the ring delivers:
\* once all is quiet, every command has been carried out by exactly the servers
\* it is for, and the shell has heard every answer.
DeliveredUnlessMerged ==
  Quiet /\ connected /\ ~merged =>
    \A c \in 1..Len(typed), n \in Server :
      /\ done[c][n] = IF For(typed[c], n) THEN 1 ELSE 0
      /\ heard[c][n] = done[c][n] * Answers(typed[c])
=============================================================================
