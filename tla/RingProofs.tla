----------------------------- MODULE RingProofs ------------------------------
(***************************************************************************)
(* The ring, proved for every number of servers and all commands: whatever *)
(* travels is a message one server sent, from the first command to the     *)
(* errors about errors; nothing is carried out or heard too often, nothing *)
(* is lost while no two messages are read at once, and the messages do not *)
(* pile up.                                                                *)
(***************************************************************************)
EXTENDS Ring, SequenceTheorems, FunctionTheorems, FiniteSetTheorems, TLAPS

-----------------------------------------------------------------------------
(* Messages.                                                               *)

\* Server n may answer m: it is addressed to it.
Mine(n, m) == m \in Message /\ m.to.proc \in {n, Broadcast}

\* What is not a message is the state of a server between two.
LEMMA NoMessages == NoMessage \notin Message /\ Notifying \notin Message
BY DEF NoMessage, Notifying, Message

\* An answer names its server, one of the ring, and not mBroadcast: this is what
\* return_to_sender replaces the broadcast address for.
LEMMA AnswerType ==
  ASSUME NEW n \in Server, NEW m, Mine(n, m)
  PROVE  ReturnToSender(n, m) \in Message /\ TaskNotFound(n, m) \in Message
<1>1. m.from \in [proc : Server, task : TaskName] /\ m.to \in [proc : Int, task : TaskName]
  BY DEF Mine, Message
<1>2. m.from \in [proc : Int, task : TaskName]
  BY <1>1, NServerAssumption DEF Server
<1>3. [proc |-> IF m.to.proc = Broadcast THEN n ELSE m.to.proc, task |-> m.to.task]
        \in [proc : Server, task : TaskName]
  BY <1>1 DEF Mine
<1>4. ReturnToSender(n, m) \in Message
  BY <1>2, <1>3 DEF ReturnToSender, Mine, Message
<1>5. [proc |-> n, task |-> "server"] \in [proc : Server, task : TaskName]
  BY DEF TaskName
<1>6. TaskNotFound(n, m) \in Message
  BY <1>4, <1>5 DEF TaskNotFound, Message
<1>7. QED
  BY <1>4, <1>6

LEMMA SuccInRing ==
  ASSUME NEW n \in Server
  PROVE  Succ(n) \in Server
BY NServerAssumption DEF Succ, Server

\* A message more in a pipe.
LEMMA SendType ==
  ASSUME pipe \in [Server -> Seq(Message)], NEW n \in Server, NEW m \in Message,
         SendPipe(n, m)
  PROVE  pipe' \in [Server -> Seq(Message)]
<1>1. Append(pipe[Succ(n)], m) \in Seq(Message)
  BY SuccInRing, AppendProperties
<1>2. QED
  BY <1>1, SuccInRing DEF SendPipe

-----------------------------------------------------------------------------
(* The invariant: types, and that servers hold only what is for them.      *)

RingInv ==
  /\ TypeOK
  /\ \A n \in Server : busy[n] \in Message => Mine(n, busy[n])
  /\ \A n \in Server : \A i \in 1..Len(owes[n]) : Mine(n, owes[n][i])

LEMMA RingInvInit == Init => RingInv
<1> SUFFICES ASSUME Init PROVE RingInv
  OBVIOUS
<1>1. TypeOK
  BY EmptySeq DEF Init, TypeOK
<1>2. QED
  BY <1>1, NoMessages DEF Init, RingInv

\* Counting one more execution or one more answer.
LEMMA CountType ==
  ASSUME NEW f \in [1..MaxCommands -> [Server -> Nat]], NEW c, NEW n \in Server
  PROVE  [f EXCEPT ![c][n] = @ + 1] \in [1..MaxCommands -> [Server -> Nat]]
<1> DEFINE row == [f[c] EXCEPT ![n] = @ + 1]
<1>1. ASSUME c \in 1..MaxCommands PROVE row \in [Server -> Nat]
  BY <1>1
<1> HIDE DEF row
<1>2. [f EXCEPT ![c] = row] \in [1..MaxCommands -> [Server -> Nat]]
  BY <1>1
<1>3. QED
  BY <1>2 DEF row

\* A server is done with the message in hand.
LEMMA DoneType ==
  ASSUME RingInv, NEW n \in Server, busy' = [busy EXCEPT ![n] = NoMessage]
  PROVE  /\ busy' \in [Server -> Message \cup {NoMessage, Notifying}]
         /\ \A k \in Server : busy'[k] \in Message => Mine(k, busy'[k])
BY NoMessages DEF RingInv, TypeOK

LEMMA TypeStep ==
  ASSUME RingInv, NEW c \in Commands, Type(c)
  PROVE  RingInv'
<1> DEFINE from == IF c.cmd = "none" THEN Nobody ELSE [proc |-> 0, task |-> "shell"]
           msg == [id |-> Len(typed) + 1, from |-> from,
                   to |-> [proc |-> c.proc, task |-> c.task], cmd |-> c.cmd]
<1>1. 0 \in Server
  BY NServerAssumption DEF Server
<1>2. typed \in Seq(Commands) /\ Len(typed) \in Nat /\ Len(typed) + 1 \in 0..MaxCommands
  BY MaxCommandsAssumption DEF RingInv, TypeOK, Type
<1>3. c \in [proc : Int, task : {"radio", "server", "none"},
             cmd : {"lc", "collect", "lt", "quit", "none"}]
  BY CommandsAssumption
<1>4. from \in [proc : Server, task : TaskName]
  BY <1>1 DEF Nobody, TaskName
<1> HIDE DEF from
<1>5. msg \in Message
  BY <1>2, <1>3, <1>4 DEF Message, TaskName
<1>6. SendPipe(0, msg)
  BY DEF Type, from
<1> HIDE DEF msg
<1>7. pipe' \in [Server -> Seq(Message)]
  BY <1>1, <1>5, <1>6, SendType DEF RingInv, TypeOK
<1>8. typed' \in Seq(Commands)
  BY <1>2, AppendProperties DEF Type
<1>9. QED
  BY <1>7, <1>8 DEF Type, RingInv, TypeOK

LEMMA RecvPipeStep ==
  ASSUME RingInv, NEW n \in Server, RecvPipe(n)
  PROVE  RingInv'
<1> DEFINE msg == Head(pipe[n])
<1>1. /\ pipe \in [Server -> Seq(Message)] /\ pipe[n] # <<>>
      /\ busy \in [Server -> Message \cup {NoMessage, Notifying}] /\ merged \in BOOLEAN
  BY DEF RecvPipe, RingInv, TypeOK
<1>2. msg \in Message
  BY <1>1, HeadTailProperties
<1>3. pipe' \in [Server -> Seq(Message)]
  <2>1. pipe[Succ(n)] \in Seq(Message) /\ pipe[n] \in Seq(Message)
    BY <1>1, SuccInRing
  <2>2. pipe[Succ(n)] \o pipe[n] \in Seq(Message) /\ <<>> \in Seq(Message)
    BY <2>1, ConcatProperties, EmptySeq
  <2>3. <<>> \o pipe[n] \in Seq(Message)
    BY <2>1, <2>2, ConcatProperties
  <2>4. QED
    BY <1>1, <2>1, <2>2, <2>3 DEF RecvPipe, ReadPipe
<1>4. busy' = [busy EXCEPT ![n] = IF msg.to.proc \in {n, Broadcast} THEN msg ELSE NoMessage]
  BY DEF RecvPipe, ReadPipe
<1> HIDE DEF msg
<1>5. /\ busy' \in [Server -> Message \cup {NoMessage, Notifying}]
      /\ \A k \in Server : busy'[k] \in Message => Mine(k, busy'[k])
  BY <1>1, <1>2, <1>4, NoMessages DEF RingInv, Mine
<1>6. merged' \in BOOLEAN /\ UNCHANGED <<owes, connected, typed, done, heard>>
  BY <1>1 DEF RecvPipe, ReadPipe
<1>7. QED
  BY <1>3, <1>5, <1>6 DEF RingInv, TypeOK

LEMMA BounceStep ==
  ASSUME RingInv, NEW n \in Server, Bounce(n)
  PROVE  RingInv'
<1>1. Mine(n, busy[n])
  BY DEF Bounce, Dispatching, RingInv
<1>2. pipe' \in [Server -> Seq(Message)]
  BY <1>1, AnswerType, SendType DEF Bounce, RingInv, TypeOK
<1>3. QED
  BY <1>2, DoneType DEF Bounce, RingInv, TypeOK

LEMMA RadioCommandStep ==
  ASSUME RingInv, NEW n \in Server, RadioCommand(n)
  PROVE  RingInv'
<1>1. Mine(n, busy[n])
  BY DEF RadioCommand, Dispatching, RingInv
<1>2. pipe' \in [Server -> Seq(Message)]
  BY <1>1, AnswerType, SendType DEF RadioCommand, RingInv, TypeOK
<1>3. done' \in [1..MaxCommands -> [Server -> Nat]]
  BY CountType DEF RadioCommand, RingInv, TypeOK
<1>4. /\ owes' \in [Server -> Seq(Message)]
      /\ \A k \in Server : \A i \in 1..Len(owes'[k]) : Mine(k, owes'[k][i])
  <2> DEFINE more == Append(owes[n], busy[n])
  <2>1. owes \in [Server -> Seq(Message)] /\ busy[n] \in Message
    BY <1>1 DEF RingInv, TypeOK, Mine
  <2>2. more \in Seq(Message) /\ \A i \in 1..Len(more) : Mine(n, more[i])
    BY <1>1, <2>1, AppendProperties DEF RingInv
  <2>3. owes' = [owes EXCEPT ![n] = more] \/ owes' = owes
    BY <2>1 DEF RadioCommand
  <2> HIDE DEF more
  <2>4. QED
    BY <2>1, <2>2, <2>3 DEF RingInv
<1>5. QED
  BY <1>2, <1>3, <1>4, DoneType DEF RadioCommand, RingInv, TypeOK

LEMMA NotifyStep ==
  ASSUME RingInv, NEW n \in Server, Notify(n)
  PROVE  RingInv'
<1>1. owes \in [Server -> Seq(Message)] /\ owes[n] # <<>>
  BY DEF Notify, RingInv, TypeOK
<1>2. Mine(n, Head(owes[n]))
  BY <1>1, HeadTailProperties DEF RingInv
<1>3. pipe' \in [Server -> Seq(Message)]
  BY <1>2, AnswerType, SendType DEF Notify, RingInv, TypeOK
<1>4. /\ owes' \in [Server -> Seq(Message)]
      /\ \A k \in Server : \A i \in 1..Len(owes'[k]) : Mine(k, owes'[k][i])
  <2> DEFINE rest == Tail(owes[n])
  <2>1. rest \in Seq(Message) /\ \A i \in 1..Len(rest) : Mine(n, rest[i])
    BY <1>1, HeadTailProperties DEF RingInv
  <2>2. owes' = [owes EXCEPT ![n] = rest]
    BY <1>1 DEF Notify
  <2> HIDE DEF rest
  <2>3. QED
    BY <1>1, <2>1, <2>2 DEF RingInv
<1>5. /\ busy' \in [Server -> Message \cup {NoMessage, Notifying}]
      /\ \A k \in Server : busy'[k] \in Message => Mine(k, busy'[k])
  <2> DEFINE b == IF Tail(owes[n]) = <<>> THEN NoMessage ELSE Notifying
  <2>1. busy' = [busy EXCEPT ![n] = b] /\ b \in {NoMessage, Notifying}
    BY DEF Notify
  <2> HIDE DEF b
  <2>2. QED
    BY <2>1, NoMessages DEF RingInv, TypeOK
<1>6. QED
  BY <1>3, <1>4, <1>5 DEF Notify, RingInv, TypeOK

LEMMA ServerCommandStep ==
  ASSUME RingInv, NEW n \in Server, ServerCommand(n)
  PROVE  RingInv'
<1>1. Mine(n, busy[n])
  BY DEF ServerCommand, Dispatching, RingInv
<1>2. /\ pipe' \in [Server -> Seq(Message)]
      /\ done' \in [1..MaxCommands -> [Server -> Nat]]
  <2>1. CASE busy[n].cmd = "lt"
    <3>1. SendPipe(n, ReturnToSender(n, busy[n]))
          /\ done' = [done EXCEPT ![busy[n].id][n] = @ + 1]
      BY <2>1 DEF ServerCommand
    <3>2. QED
      BY <1>1, <3>1, AnswerType, SendType, CountType DEF RingInv, TypeOK
  <2>2. CASE busy[n].cmd # "lt"
    BY <2>2 DEF ServerCommand, RingInv, TypeOK
  <2>3. QED
    BY <2>1, <2>2
<1>3. QED
  BY <1>2, DoneType DEF ServerCommand, RingInv, TypeOK

LEMMA ShellCommandStep ==
  ASSUME RingInv, NEW n \in Server, ShellCommand(n)
  PROVE  RingInv'
<1>1. heard' \in [1..MaxCommands -> [Server -> Nat]]
  <2>1. busy[n].from.proc \in Server
    BY DEF ShellCommand, Dispatching, Message
  <2>2. QED
    BY <2>1, CountType DEF ShellCommand, RingInv, TypeOK
<1>2. QED
  BY <1>1, DoneType DEF ShellCommand, RingInv, TypeOK

LEMMA RingInvStep == RingInv /\ [Next]_vars => RingInv'
<1> SUFFICES ASSUME RingInv, [Next]_vars PROVE RingInv'
  OBVIOUS
<1>1. CASE \E c \in Commands : Type(c)
  BY <1>1, TypeStep
<1>2. CASE Disconnect
  BY <1>2 DEF Disconnect, RingInv, TypeOK
<1>3. CASE \E n \in Server : ServerStep(n) \/ Notify(n)
  BY <1>3, RecvPipeStep, BounceStep, RadioCommandStep, ServerCommandStep,
     ShellCommandStep, NotifyStep DEF ServerStep
<1>4. CASE UNCHANGED vars
  BY <1>4 DEF vars, RingInv, TypeOK
<1>5. QED
  BY <1>1, <1>2, <1>3, <1>4 DEF Next

\* Whatever is typed and however it is read together, every message in a pipe names
\* one server as its sender: so there is one that drops it.
THEOREM RingTypeCorrect == Spec => []TypeOK
<1>1. RingInv => TypeOK
  BY DEF RingInv
<1>2. QED
  BY <1>1, RingInvInit, RingInvStep, PTL DEF Spec

-----------------------------------------------------------------------------
(* What a server finds when it reads.  It takes the whole pipe, and what is*)
(* behind the first message then travels behind it for ever: only the      *)
(* fronts of the pipes can still reach a task.                             *)

Front(k) == IF pipe[k] = <<>> THEN NoMessage ELSE Head(pipe[k])

LEMMA FrontType ==
  ASSUME RingInv, NEW k \in Server
  PROVE  /\ pipe[k] = <<>> => Front(k) = NoMessage
         /\ pipe[k] # <<>> => Front(k) \in Message
BY HeadTailProperties DEF Front, RingInv, TypeOK

\* A message sent comes to the front of an empty pipe only.
LEMMA SendFront ==
  ASSUME RingInv, NEW n \in Server, NEW m \in Message, SendPipe(n, m)
  PROVE  \A k \in Server :
           Front(k)' = IF k = Succ(n) /\ pipe[k] = <<>> THEN m ELSE Front(k)
<1> TAKE k \in Server
<1>1. pipe \in [Server -> Seq(Message)] /\ Succ(n) \in Server
  BY SuccInRing DEF RingInv, TypeOK
<1>2. pipe' = [pipe EXCEPT ![Succ(n)] = Append(pipe[Succ(n)], m)]
  BY DEF SendPipe
<1>3. CASE k # Succ(n)
  BY <1>1, <1>2, <1>3 DEF Front
<1>4. CASE k = Succ(n)
  <2>1. pipe'[k] = Append(pipe[k], m) /\ pipe[k] \in Seq(Message)
    BY <1>1, <1>2, <1>4
  <2>2. pipe'[k] # <<>> /\ Head(pipe'[k]) = IF pipe[k] = <<>> THEN m ELSE Head(pipe[k])
    BY <2>1, AppendProperties, HeadTailProperties
  <2>3. QED
    BY <1>4, <2>2 DEF Front
<1>5. QED
  BY <1>3, <1>4

\* A server that reads empties its pipe, and passes its front on unless the
\* message is its own; in a ring of one server every message is.
LEMMA RecvFront ==
  ASSUME RingInv, NEW n \in Server, RecvPipe(n)
  PROVE  /\ Front(n) \in Message /\ busy[n] = NoMessage
         /\ busy' = [busy EXCEPT ![n] =
                       IF Front(n).to.proc \in {n, Broadcast} THEN Front(n) ELSE NoMessage]
         /\ \A k \in Server :
              Front(k)' = IF k = n THEN NoMessage
                          ELSE IF k = Succ(n) /\ Front(n).from.proc # n /\ pipe[k] = <<>>
                          THEN Front(n) ELSE Front(k)
<1>1. /\ pipe \in [Server -> Seq(Message)] /\ pipe[n] # <<>> /\ Succ(n) \in Server
      /\ pipe[n] \in Seq(Message) /\ pipe[Succ(n)] \in Seq(Message)
  BY SuccInRing DEF RecvPipe, RingInv, TypeOK
<1>2. Front(n) = Head(pipe[n]) /\ Front(n) \in Message /\ Front(n).from.proc \in Server
  BY <1>1, FrontType DEF Front, Message
<1>3. busy[n] = NoMessage
      /\ busy' = [busy EXCEPT ![n] =
                    IF Front(n).to.proc \in {n, Broadcast} THEN Front(n) ELSE NoMessage]
  BY <1>2 DEF RecvPipe, ReadPipe
<1>4. pipe' = [pipe EXCEPT ![n] = <<>>,
                           ![Succ(n)] = IF Front(n).from.proc = n THEN @ ELSE @ \o pipe[n]]
  BY <1>2 DEF RecvPipe, ReadPipe
<1>5. Succ(n) = n => Front(n).from.proc = n
  BY <1>2, NServerAssumption DEF Succ, Server
<1>6. ASSUME NEW k \in Server
      PROVE  Front(k)' = IF k = n THEN NoMessage
                         ELSE IF k = Succ(n) /\ Front(n).from.proc # n /\ pipe[k] = <<>>
                         THEN Front(n) ELSE Front(k)
  <2>1. CASE k = n
    <3>1. pipe'[k] = <<>>
      BY <1>1, <1>4, <1>5, <2>1
    <3>2. QED
      BY <2>1, <3>1 DEF Front
  <2>2. CASE k # n /\ (k # Succ(n) \/ Front(n).from.proc = n)
    <3>1. pipe'[k] = pipe[k]
      BY <1>1, <1>4, <2>2
    <3>2. QED
      BY <2>2, <3>1 DEF Front
  <2>3. CASE k # n /\ k = Succ(n) /\ Front(n).from.proc # n
    <3>1. pipe'[k] = pipe[k] \o pipe[n]
      BY <1>1, <1>4, <2>3
    <3>2. pipe'[k] # <<>> /\ Head(pipe'[k]) = IF pipe[k] = <<>> THEN Head(pipe[n]) ELSE Head(pipe[k])
      BY <1>1, <2>3, <3>1, ConcatProperties, HeadTailProperties
    <3>3. QED
      BY <1>2, <2>3, <3>2 DEF Front
  <2>4. QED
    BY <2>1, <2>2, <2>3
<1>7. QED
  BY <1>2, <1>3, <1>6

\* The fields of an answer and of an error.
LEMMA AnswerFields ==
  ASSUME NEW n \in Server, NEW m, Mine(n, m)
  PROVE  /\ ReturnToSender(n, m) \in Message /\ TaskNotFound(n, m) \in Message
         /\ ReturnToSender(n, m).id = m.id /\ ReturnToSender(n, m).cmd = m.cmd
         /\ ReturnToSender(n, m).to = m.from
         /\ ReturnToSender(n, m).from.proc = n
         /\ ReturnToSender(n, m).from.task = m.to.task
         /\ TaskNotFound(n, m).id = m.id /\ TaskNotFound(n, m).cmd = m.cmd
         /\ TaskNotFound(n, m).to = m.from
         /\ TaskNotFound(n, m).from.proc = n /\ TaskNotFound(n, m).from.task = "server"
<1>1. ReturnToSender(n, m) \in Message /\ TaskNotFound(n, m) \in Message
  BY AnswerType
<1> DEFINE from == [proc |-> IF m.to.proc = Broadcast THEN n ELSE m.to.proc, task |-> m.to.task]
<1>2. from.proc = n /\ from.task = m.to.task
  BY DEF Mine
<1> HIDE DEF from
<1>3. ReturnToSender(n, m) = [m EXCEPT !.to = m.from, !.from = from]
  BY DEF ReturnToSender, from
<1>4. "id" \in DOMAIN m /\ "cmd" \in DOMAIN m /\ "to" \in DOMAIN m /\ "from" \in DOMAIN m
  BY DEF Mine, Message
<1>5. /\ ReturnToSender(n, m).id = m.id /\ ReturnToSender(n, m).cmd = m.cmd
      /\ ReturnToSender(n, m).to = m.from /\ ReturnToSender(n, m).from = from
  BY <1>3, <1>4
<1>6. TaskNotFound(n, m) = [ReturnToSender(n, m) EXCEPT !.from = [proc |-> n, task |-> "server"]]
  BY DEF TaskNotFound
<1>7. DOMAIN ReturnToSender(n, m) = DOMAIN m
  BY <1>3
<1> HIDE DEF ReturnToSender
<1>8. /\ TaskNotFound(n, m).id = m.id /\ TaskNotFound(n, m).cmd = m.cmd
      /\ TaskNotFound(n, m).to = m.from
      /\ TaskNotFound(n, m).from = [proc |-> n, task |-> "server"]
  BY <1>4, <1>5, <1>6, <1>7
<1>9. QED
  BY <1>1, <1>2, <1>5, <1>8

\* m belongs to a command that was typed.
Numbered(m) == m.id \in 1..Len(typed) /\ m.cmd = typed[m.id].cmd /\ m.cmd # "none"

\* The command itself, on its way to the servers; ...
Asks(m) ==
  /\ m.from.proc = 0 /\ m.from.task = "shell"
  /\ m.to.proc = typed[m.id].proc /\ m.to.task = typed[m.id].task

\* ... an answer to the shell; ...
Tells(m) ==
  /\ m.to.proc = 0 /\ m.to.task = "shell"
  /\ m.from.task = typed[m.id].task /\ m.cmd # "quit"

\* ... an answer that comes back because the shell is gone; ...
Returns(m) ==
  /\ ~connected /\ m.cmd \in {"lc", "collect"}
  /\ m.from.proc = 0 /\ m.from.task = "server"
  /\ m.to.proc \in Server /\ m.to.task = "radio"

\* ... the answer to that, which server 0 ignores.
Ignored(m) ==
  /\ m.cmd \in {"lc", "collect"}
  /\ m.from.task = "radio" /\ m.to.proc = 0 /\ m.to.task = "server"

\* A message without fields, or an error about it.
Empty(m) ==
  /\ m.cmd = "none"
  /\ m.from.task \in {"none", "server"} /\ m.to.task \in {"none", "server"}

Known(m) ==
  \/ Empty(m)
  \/ Numbered(m) /\ (Asks(m) \/ Tells(m) \/ Returns(m) \/ Ignored(m))

\* What a radio has to report on.
Reported(m) == Numbered(m) /\ m.cmd = "collect" /\ (Asks(m) \/ Returns(m))

\* The answer to an lt that finds no shell is taken for another lt by the server it
\* comes back to, whose answer server 0 takes for one, and so on for ever.
NoEcho == connected \/ \A c \in Commands : c.cmd # "lt"

KnownInv ==
  /\ \A k \in Server : Front(k) \in Message => Known(Front(k))
  /\ \A k \in Server : busy[k] \in Message => Known(busy[k])
  /\ \A k \in Server : \A i \in 1..Len(owes[k]) : Reported(owes[k][i])

\* What the commands are, field by field.
LEMMA CommandKinds ==
  ASSUME NEW c \in Commands
  PROVE  /\ c.cmd = "none" => c.proc = 0 /\ c.task = "none"
         /\ c.cmd \in {"lc", "collect"} <=> c.task = "radio"
         /\ c.cmd \in {"lt", "quit"} <=> c.task = "server"
         /\ c.cmd \in {"lc", "collect", "lt", "quit", "none"}
         /\ c.task \in {"radio", "server", "none"}
         /\ c.proc \in Int
<1>1. \/ c \in [proc : Int, task : {"radio"}, cmd : {"lc", "collect"}]
      \/ c \in [proc : Int, task : {"server"}, cmd : {"lt", "quit"}]
      \/ c = [proc |-> 0, task |-> "none", cmd |-> "none"]
  BY CommandsAssumption
<1>2. CASE c \in [proc : Int, task : {"radio"}, cmd : {"lc", "collect"}]
  BY <1>2
<1>3. CASE c \in [proc : Int, task : {"server"}, cmd : {"lt", "quit"}]
  BY <1>3
<1>4. CASE c = [proc |-> 0, task |-> "none", cmd |-> "none"]
  BY <1>4
<1>5. QED
  BY <1>1, <1>2, <1>3, <1>4

LEMMA TypedKinds ==
  ASSUME RingInv, NEW m, Numbered(m)
  PROVE  /\ typed[m.id] \in Commands
         /\ m.cmd \in {"lc", "collect"} <=> typed[m.id].task = "radio"
         /\ m.cmd \in {"lt", "quit"} <=> typed[m.id].task = "server"
         /\ m.cmd \in {"lc", "collect", "lt", "quit"}
<1>1. typed[m.id] \in Commands
  BY DEF RingInv, TypeOK, Numbered
<1>2. QED
  BY <1>1, CommandKinds DEF Numbered

\* A message keeps its kind while the operator does nothing.
LEMMA KindKept ==
  ASSUME NEW m, UNCHANGED <<typed, connected>>
  PROVE  /\ Numbered(m)' <=> Numbered(m)
         /\ Known(m)' <=> Known(m)
         /\ Reported(m)' <=> Reported(m)
BY DEF Numbered, Known, Reported, Asks, Tells, Returns

\* One server has sent something and is done with the message in hand.
LEMMA KnownSend ==
  ASSUME RingInv, KnownInv, UNCHANGED <<typed, connected>>, UNCHANGED owes,
         NEW n \in Server, NEW m \in Message, Known(m), SendPipe(n, m),
         NEW k \in Server, busy' \in {busy, [busy EXCEPT ![k] = NoMessage]}
  PROVE  KnownInv'
<1>1. \A j \in Server : Front(j)' = m \/ Front(j)' = Front(j)
  BY SendFront
<1>2. \A j \in Server : Front(j)' \in Message => Known(Front(j)')
  BY <1>1 DEF KnownInv
<1>3. \A j \in Server : busy'[j] \in Message => busy'[j] = busy[j]
  BY NoMessages DEF RingInv, TypeOK
<1>4. QED
  BY <1>2, <1>3, KindKept DEF KnownInv

LEMMA KnownInit == Init => KnownInv
<1> SUFFICES ASSUME Init PROVE KnownInv
  OBVIOUS
<1>1. \A k \in Server : Front(k) = NoMessage /\ busy[k] = NoMessage /\ owes[k] = <<>>
  BY DEF Init, Front
<1>2. QED
  BY <1>1, NoMessages DEF KnownInv

\* The message a command becomes.
Sent(c) ==
  [id |-> Len(typed) + 1,
   from |-> IF c.cmd = "none" THEN Nobody ELSE [proc |-> 0, task |-> "shell"],
   to |-> [proc |-> c.proc, task |-> c.task],
   cmd |-> c.cmd]

LEMMA SentType ==
  ASSUME RingInv, NEW c \in Commands, Type(c)
  PROVE  /\ 0 \in Server /\ Len(typed) \in Nat /\ Len(typed)' = Len(typed) + 1
         /\ typed'[Len(typed) + 1] = c /\ \A i \in 1..Len(typed) : typed'[i] = typed[i]
         /\ Sent(c) \in Message /\ SendPipe(0, Sent(c))
         /\ Sent(c).id = Len(typed) + 1 /\ Sent(c).cmd = c.cmd
         /\ Sent(c).from.proc = 0
         /\ Sent(c).from.task = IF c.cmd = "none" THEN "none" ELSE "shell"
         /\ Sent(c).to.proc = c.proc /\ Sent(c).to.task = c.task
<1>1. 0 \in Server
  BY NServerAssumption DEF Server
<1>2. typed \in Seq(Commands) /\ Len(typed) \in Nat /\ Len(typed) + 1 \in 0..MaxCommands
  BY MaxCommandsAssumption DEF RingInv, TypeOK, Type
<1>3. typed' = Append(typed, c) /\ SendPipe(0, Sent(c))
  BY DEF Type, Sent
<1>4. /\ Len(typed)' = Len(typed) + 1 /\ typed'[Len(typed) + 1] = c
      /\ \A i \in 1..Len(typed) : typed'[i] = typed[i]
  BY <1>2, <1>3, AppendProperties
<1> DEFINE from == IF c.cmd = "none" THEN Nobody ELSE [proc |-> 0, task |-> "shell"]
<1>5. /\ from \in [proc : Server, task : TaskName] /\ from.proc = 0
      /\ from.task = IF c.cmd = "none" THEN "none" ELSE "shell"
  BY <1>1 DEF Nobody, TaskName
<1>6. Sent(c) = [id |-> Len(typed) + 1, from |-> from,
                 to |-> [proc |-> c.proc, task |-> c.task], cmd |-> c.cmd]
  BY DEF Sent
<1> HIDE DEF from
<1>7. Sent(c) \in Message
  BY <1>2, <1>5, <1>6, CommandKinds DEF Message, TaskName
<1>8. QED
  BY <1>1, <1>2, <1>3, <1>4, <1>5, <1>6, <1>7

LEMMA KnownType ==
  ASSUME RingInv, KnownInv, NEW c \in Commands, Type(c)
  PROVE  KnownInv'
<1>1. connected' = connected /\ busy' = busy /\ owes' = owes
  BY DEF Type
<1>2. \A m : Numbered(m) => Numbered(m)' /\ typed'[m.id] = typed[m.id]
  BY SentType DEF Numbered
<1>3. \A m : (Known(m) => Known(m)') /\ (Reported(m) => Reported(m)')
  BY <1>1, <1>2 DEF Known, Reported, Asks, Tells, Returns
<1>4. ASSUME NEW m, m = Sent(c) PROVE Known(m)'
  <2>1. m.id \in 1..Len(typed)' /\ typed'[m.id] = c
    BY <1>4, SentType
  <2>2. CASE c.cmd = "none"
    BY <1>4, <2>2, SentType, CommandKinds DEF Known, Empty
  <2>3. CASE c.cmd # "none"
    BY <1>4, <2>1, <2>3, SentType DEF Known, Numbered, Asks
  <2>4. QED
    BY <2>2, <2>3
<1>5. \A k \in Server : Front(k)' = Sent(c) \/ Front(k)' = Front(k)
  BY SendFront, SentType
<1>6. QED
  BY <1>1, <1>3, <1>4, <1>5 DEF KnownInv

LEMMA KnownDisconnect ==
  ASSUME KnownInv, Disconnect
  PROVE  KnownInv'
<1>1. /\ \A m : (Known(m) => Known(m)') /\ (Reported(m) => Reported(m)')
  BY DEF Disconnect, Known, Reported, Numbered, Asks, Tells, Returns
<1>2. \A k \in Server : Front(k)' = Front(k)
  BY DEF Disconnect, Front
<1>3. busy' = busy /\ owes' = owes
  BY DEF Disconnect
<1>4. QED
  BY <1>1, <1>2, <1>3 DEF KnownInv

LEMMA KnownRecv ==
  ASSUME RingInv, KnownInv, NEW n \in Server, RecvPipe(n)
  PROVE  KnownInv'
<1>1. UNCHANGED <<typed, connected, owes>>
  BY DEF RecvPipe, ReadPipe
<1>2. \A k \in Server : Front(k)' \in {NoMessage, Front(n), Front(k)}
  BY RecvFront
<1>3. Front(n) \in Message
  BY RecvFront
<1>4. \A k \in Server : Front(k)' \in Message => Known(Front(k)')
  BY <1>2, <1>3, NoMessages DEF KnownInv
<1>5. \A k \in Server : busy'[k] \in Message => busy'[k] \in {Front(n), busy[k]}
  BY RecvFront, NoMessages DEF RingInv, TypeOK
<1>6. \A k \in Server : busy'[k] \in Message => Known(busy'[k])
  BY <1>3, <1>5 DEF KnownInv
<1>7. QED
  BY <1>1, <1>4, <1>6, KindKept DEF KnownInv

\* The messages that find no task: one without fields, and an answer, if the shell
\* is gone.
LEMMA BounceKind ==
  ASSUME RingInv, KnownInv, NoEcho, NEW n \in Server, Bounce(n)
  PROVE  /\ Mine(n, busy[n]) /\ Known(busy[n])
         /\ \/ Empty(busy[n])
            \/ /\ Numbered(busy[n]) /\ Tells(busy[n]) /\ n = 0 /\ ~connected
               /\ busy[n].cmd \in {"lc", "collect"} /\ busy[n].from.task = "radio"
<1> DEFINE m == busy[n]
<1>1. Mine(n, m) /\ Known(m) /\ m.to.task \notin Tasks(n)
  BY DEF Bounce, Dispatching, RingInv, KnownInv
<1> HIDE DEF m
<1>2. m.to.task \notin {"server", "radio"}
  BY <1>1 DEF Tasks
<1>3. CASE Numbered(m)
  <2>1. ~Asks(m) /\ ~Returns(m) /\ ~Ignored(m)
    BY <1>2, <1>3, TypedKinds DEF Asks, Returns, Ignored
  <2>2. CASE Tells(m)
    <3>1. n = 0
      BY <1>1, <2>2, NServerAssumption DEF Mine, Tells, Broadcast, Server
    <3>2. ~connected
      BY <1>1, <2>2, <3>1 DEF Tasks, Tells
    <3>3. m.cmd # "lt"
      BY <1>3, <3>2, TypedKinds DEF NoEcho, Numbered
    <3>4. m.cmd \in {"lc", "collect"} /\ m.from.task = "radio"
      BY <1>3, <2>2, <3>3, TypedKinds DEF Tells
    <3>5. QED
      BY <1>1, <1>3, <2>2, <3>1, <3>2, <3>4 DEF m
  <2>3. CASE Empty(m)
    BY <1>1, <2>3 DEF m
  <2>4. QED
    BY <1>1, <2>1, <2>2, <2>3 DEF Known
<1>4. CASE ~Numbered(m)
  BY <1>1, <1>4 DEF Known, m
<1>5. QED
  BY <1>3, <1>4

LEMMA KnownBounce ==
  ASSUME RingInv, KnownInv, NoEcho, NEW n \in Server, Bounce(n)
  PROVE  KnownInv'
<1>1. PICK m : m = TaskNotFound(n, busy[n])
  OBVIOUS
<1>2. /\ m \in Message /\ m.id = busy[n].id /\ m.cmd = busy[n].cmd
      /\ m.to = busy[n].from /\ m.from.proc = n /\ m.from.task = "server"
  BY <1>1, BounceKind, AnswerFields
<1>3. Known(m)
  <2>1. CASE Empty(busy[n])
    BY <1>2, <2>1 DEF Known, Empty
  <2>2. CASE ~Empty(busy[n])
    <3>1. /\ Numbered(busy[n]) /\ n = 0 /\ ~connected
          /\ busy[n].cmd \in {"lc", "collect"} /\ busy[n].from.task = "radio"
      BY <2>2, BounceKind
    <3>2. busy[n].from.proc \in Server
      BY BounceKind DEF Mine, Message
    <3>3. Numbered(m) /\ Returns(m)
      BY <1>2, <3>1, <3>2 DEF Numbered, Returns
    <3>4. QED
      BY <3>3 DEF Known
  <2>3. QED
    BY <2>1, <2>2
<1>4. QED
  BY <1>1, <1>2, <1>3, KnownSend DEF Bounce

\* What a radio carries out: a command, or an answer to it that has come back.
LEMMA RadioKind ==
  ASSUME RingInv, KnownInv, NEW n \in Server, RadioCommand(n)
  PROVE  /\ Mine(n, busy[n]) /\ Numbered(busy[n]) /\ (Asks(busy[n]) \/ Returns(busy[n]))
         /\ busy[n].cmd \in {"lc", "collect"} /\ typed[busy[n].id].task = "radio"
<1>1. Mine(n, busy[n]) /\ Known(busy[n]) /\ busy[n].to.task = "radio"
  BY DEF RadioCommand, Dispatching, RingInv, KnownInv
<1>2. Numbered(busy[n]) /\ (Asks(busy[n]) \/ Returns(busy[n]))
  BY <1>1 DEF Known, Empty, Tells, Ignored
<1>3. typed[busy[n].id].task = "radio"
  BY <1>1, <1>2, TypedKinds DEF Asks, Returns
<1>4. QED
  BY <1>1, <1>2, <1>3, TypedKinds

\* What the answer to such a message is.
LEMMA AnswerKind ==
  ASSUME RingInv, NEW n \in Server, NEW m, Mine(n, m), Numbered(m),
         m.to.task = typed[m.id].task, m.cmd # "quit",
         Asks(m) \/ (Returns(m) /\ m.to.task = "radio"),
         NEW r, r = ReturnToSender(n, m)
  PROVE  /\ r \in Message /\ Known(r) /\ Numbered(r) /\ r.id = m.id
         /\ r.to = m.from /\ r.from.proc = n /\ r.from.task = m.to.task
         /\ Asks(m) => Tells(r)
         /\ Returns(m) => Ignored(r)
<1>1. /\ r \in Message /\ r.id = m.id /\ r.cmd = m.cmd /\ r.to = m.from
      /\ r.from.proc = n /\ r.from.task = m.to.task
  BY AnswerFields
<1>2. Numbered(r)
  BY <1>1 DEF Numbered
<1>3. Asks(m) => Tells(r)
  BY <1>1 DEF Asks, Tells
<1>4. Returns(m) => Ignored(r)
  BY <1>1 DEF Returns, Ignored
<1>5. QED
  BY <1>1, <1>2, <1>3, <1>4 DEF Known

LEMMA KnownRadio ==
  ASSUME RingInv, KnownInv, NEW n \in Server, RadioCommand(n)
  PROVE  KnownInv'
<1> DEFINE m == busy[n]
<1>1. /\ Mine(n, m) /\ Numbered(m) /\ (Asks(m) \/ Returns(m))
      /\ m.cmd \in {"lc", "collect"} /\ typed[m.id].task = "radio" /\ m.to.task = "radio"
  BY RadioKind DEF RadioCommand
<1>2. PICK r : r = ReturnToSender(n, m)
  OBVIOUS
<1>3. r \in Message /\ Known(r) /\ SendPipe(n, r)
  BY <1>1, <1>2, AnswerKind DEF RadioCommand
<1>4. /\ UNCHANGED <<typed, connected>>
      /\ busy' = [busy EXCEPT ![n] = NoMessage]
      /\ owes' = [owes EXCEPT ![n] = IF m.cmd = "collect" THEN Append(owes[n], m) ELSE owes[n]]
  BY DEF RadioCommand, RingInv, TypeOK
<1>5. \A k \in Server : Front(k)' \in Message => Known(Front(k)')
  BY <1>3, SendFront DEF KnownInv
<1>6. \A k \in Server : busy'[k] \in Message => Known(busy'[k])
  BY <1>4, NoMessages DEF KnownInv, RingInv, TypeOK
<1>7. ASSUME NEW k \in Server, NEW i \in 1..Len(owes'[k]) PROVE Reported(owes'[k][i])
  <2>1. owes \in [Server -> Seq(Message)] /\ m \in Message
    BY <1>1 DEF RingInv, TypeOK, Mine
  <2>2. CASE k = n /\ m.cmd = "collect"
    <3>1. owes'[k] = Append(owes[k], m)
      BY <1>4, <2>1, <2>2
    <3>2. owes'[k][i] = m \/ (i \in 1..Len(owes[k]) /\ owes'[k][i] = owes[k][i])
      BY <2>1, <3>1, AppendProperties
    <3>3. Reported(m)
      BY <1>1, <2>2 DEF Reported
    <3>4. QED
      BY <3>2, <3>3 DEF KnownInv
  <2>3. CASE ~(k = n /\ m.cmd = "collect")
    <3>1. owes'[k] = owes[k]
      BY <1>4, <2>1, <2>3
    <3>2. QED
      BY <3>1 DEF KnownInv
  <2>4. QED
    BY <2>2, <2>3
<1>8. QED
  BY <1>4, <1>5, <1>6, <1>7, KindKept DEF KnownInv

LEMMA NotifyKind ==
  ASSUME RingInv, KnownInv, NEW n \in Server, Notify(n), NEW m, m = Head(owes[n])
  PROVE  /\ owes[n] \in Seq(Message) /\ owes[n] # <<>> /\ m = owes[n][1] /\ 1 \in 1..Len(owes[n])
         /\ Mine(n, m) /\ Reported(m) /\ m.to.task = "radio" /\ typed[m.id].task = "radio"
<1>1. owes[n] \in Seq(Message) /\ owes[n] # <<>>
  BY DEF Notify, RingInv, TypeOK
<1>2. m = owes[n][1] /\ 1 \in 1..Len(owes[n])
  BY <1>1, HeadTailProperties
<1>3. Mine(n, m) /\ Reported(m)
  BY <1>2 DEF RingInv, KnownInv
<1>4. typed[m.id].task = "radio"
  BY <1>3, TypedKinds DEF Reported
<1>5. QED
  BY <1>1, <1>2, <1>3, <1>4 DEF Reported, Asks, Returns

LEMMA KnownNotify ==
  ASSUME RingInv, KnownInv, NEW n \in Server, Notify(n)
  PROVE  KnownInv'
<1>1. PICK m : m = Head(owes[n])
  OBVIOUS
<1>2. PICK r : r = ReturnToSender(n, m)
  OBVIOUS
<1>3. r \in Message /\ Known(r) /\ SendPipe(n, r)
  <2>1. /\ Mine(n, m) /\ Numbered(m) /\ m.cmd = "collect" /\ (Asks(m) \/ Returns(m))
        /\ m.to.task = "radio" /\ typed[m.id].task = "radio"
    BY <1>1, NotifyKind DEF Reported
  <2>2. r \in Message /\ Known(r)
    BY <1>2, <2>1, AnswerKind
  <2>3. QED
    BY <1>1, <1>2, <2>2 DEF Notify
<1>4. /\ UNCHANGED <<typed, connected>>
      /\ owes' = [owes EXCEPT ![n] = Tail(owes[n])]
      /\ busy' \in {[busy EXCEPT ![n] = NoMessage], [busy EXCEPT ![n] = Notifying]}
  BY DEF Notify, RingInv, TypeOK
<1>5. \A k \in Server : Front(k)' \in Message => Known(Front(k)')
  BY <1>3, SendFront DEF KnownInv
<1>6. \A k \in Server : busy'[k] \in Message => Known(busy'[k])
  BY <1>4, NoMessages DEF KnownInv, RingInv, TypeOK
<1>7. ASSUME NEW k \in Server, NEW i \in 1..Len(owes'[k]) PROVE Reported(owes'[k][i])
  <2>1. owes \in [Server -> Seq(Message)]
    BY DEF RingInv, TypeOK
  <2>2. CASE k = n
    <3>1. owes'[k] = Tail(owes[k]) /\ owes[k] # <<>>
      BY <1>1, <1>4, <2>1, <2>2, NotifyKind
    <3>2. i + 1 \in 1..Len(owes[k]) /\ owes'[k][i] = owes[k][i + 1]
      BY <2>1, <3>1, HeadTailProperties
    <3>3. QED
      BY <3>2 DEF KnownInv
  <2>3. CASE k # n
    <3>1. owes'[k] = owes[k]
      BY <1>4, <2>1, <2>3
    <3>2. QED
      BY <3>1 DEF KnownInv
  <2>4. QED
    BY <2>2, <2>3
<1>8. QED
  BY <1>4, <1>5, <1>6, <1>7, KindKept DEF KnownInv

\* What a server does something about is a command lt.
LEMMA ServerKind ==
  ASSUME RingInv, KnownInv, NEW n \in Server, ServerCommand(n), busy[n].cmd = "lt"
  PROVE  /\ Mine(n, busy[n]) /\ Numbered(busy[n]) /\ Asks(busy[n])
         /\ busy[n].to.task = typed[busy[n].id].task /\ typed[busy[n].id].task = "server"
<1>1. Mine(n, busy[n]) /\ Known(busy[n]) /\ busy[n].to.task = "server"
  BY DEF ServerCommand, Dispatching, RingInv, KnownInv
<1>2. Numbered(busy[n]) /\ Asks(busy[n])
  BY <1>1 DEF Known, Empty, Tells, Returns, Ignored
<1>3. QED
  BY <1>1, <1>2, TypedKinds DEF Asks

LEMMA KnownServer ==
  ASSUME RingInv, KnownInv, NEW n \in Server, ServerCommand(n)
  PROVE  KnownInv'
<1>1. UNCHANGED <<typed, connected, owes>> /\ busy' = [busy EXCEPT ![n] = NoMessage]
  BY DEF ServerCommand
<1>2. CASE busy[n].cmd = "lt"
  <2>1. PICK r : r = ReturnToSender(n, busy[n])
    OBVIOUS
  <2>2. r \in Message /\ Known(r) /\ SendPipe(n, r)
    BY <1>2, <2>1, ServerKind, AnswerKind DEF ServerCommand
  <2>3. QED
    BY <1>1, <2>2, KnownSend
<1>3. CASE busy[n].cmd # "lt"
  <2>1. pipe' = pipe
    BY <1>3 DEF ServerCommand
  <2>2. \A k \in Server : Front(k)' = Front(k)
    BY <2>1 DEF Front
  <2>3. \A k \in Server : busy'[k] \in Message => busy'[k] = busy[k]
    BY <1>1, NoMessages DEF RingInv, TypeOK
  <2>4. QED
    BY <1>1, <2>2, <2>3, KindKept DEF KnownInv
<1>4. QED
  BY <1>2, <1>3

\* A server has dropped the message in hand.
LEMMA KnownDone ==
  ASSUME RingInv, KnownInv, NEW n \in Server, busy' = [busy EXCEPT ![n] = NoMessage],
         UNCHANGED <<pipe, owes, connected, typed>>
  PROVE  KnownInv'
<1>1. \A k \in Server : Front(k)' = Front(k)
  BY DEF Front
<1>2. \A k \in Server : busy'[k] \in Message => busy'[k] = busy[k]
  BY NoMessages DEF RingInv, TypeOK
<1>3. QED
  BY <1>1, <1>2, KindKept DEF KnownInv

LEMMA ShellKind ==
  ASSUME RingInv, KnownInv, NEW n \in Server, ShellCommand(n)
  PROVE  /\ n = 0 /\ busy[n] \in Message /\ Numbered(busy[n]) /\ Tells(busy[n]) /\ connected
<1>1. Mine(n, busy[n]) /\ Known(busy[n]) /\ busy[n].to.task = "shell"
  BY DEF ShellCommand, Dispatching, RingInv, KnownInv
<1>2. n = 0 /\ connected
  BY DEF ShellCommand, Tasks
<1>3. Numbered(busy[n])
  BY <1>1 DEF Known, Empty
<1>4. ~Asks(busy[n])
  BY <1>1, <1>3, TypedKinds DEF Asks
<1>5. QED
  BY <1>1, <1>2, <1>3, <1>4 DEF Known, Returns, Ignored, Empty, Mine

-----------------------------------------------------------------------------
(* What is still to come of command c at server n, as the places it is at: *)
(* the front of a pipe, the hand of a server or its list of collections.   *)

Hand == -1
Book == -2
Place == Server \cup {Hand, Book}

IsCommand(c, m) == m.id = c /\ m.from.task = "shell"
IsAnswer(c, n, m) == m.id = c /\ m.to.task = "shell" /\ m.from.proc = n
IsReturn(c, n, m) ==
  m.id = c /\ m.from.task = "server" /\ m.to.task = "radio" /\ m.to.proc = n

\* A message of server 0 that waits at server k has still to reach server n; one of
\* server n has still to reach server 0.
Before(k, n) == n = 0 \/ (k # 0 /\ k <= n)
After(k, n) == k = 0 \/ k > n

\* The command, where n has still to carry it out; ...
ToDo(c, n) ==
  {p \in Place :
     /\ For(typed[c], n)
     /\ \/ p \in Server /\ Before(p, n) /\ IsCommand(c, Front(p))
        \/ p = Hand /\ IsCommand(c, busy[n])}

\* ... the answers of n the shell has still to hear; ...
ToHear(c, n) ==
  {p \in Place :
     \/ p \in Server /\ After(p, n) /\ IsAnswer(c, n, Front(p))
     \/ p = Hand /\ IsAnswer(c, n, busy[0])
     \/ p = Book /\ \E i \in 1..Len(owes[n]) : IsCommand(c, owes[n][i])}

\* ... and those that are on their way back, for n to carry out once more.
ToRedo(c, n) ==
  {p \in Place :
     \/ p \in Server /\ Before(p, n) /\ IsReturn(c, n, Front(p))
     \/ p = Hand /\ IsReturn(c, n, busy[n])}

LEMMA PlaceType ==
  /\ Hand \notin Server /\ Book \notin Server /\ Hand # Book
  /\ Hand \in Place /\ Book \in Place /\ Server \subseteq Place
  /\ \A p \in Place : p \in Server \/ p = Hand \/ p = Book
  /\ IsFiniteSet(Place)
<1>1. IsFiniteSet(Server)
  BY NServerAssumption, FS_Interval DEF Server
<1>2. IsFiniteSet({Hand, Book})
  <2>1. IsFiniteSet({Hand}) /\ {Hand, Book} = {Hand} \cup {Book}
    BY FS_Singleton
  <2>2. QED
    BY <2>1, FS_AddElement
<1>3. IsFiniteSet(Place)
  BY <1>1, <1>2, FS_Union DEF Place
<1>4. Hand \notin Server /\ Book \notin Server /\ Hand # Book
  BY DEF Hand, Book, Server
<1>5. QED
  BY <1>3, <1>4 DEF Place

\* The members of the three sets, and what they are after a step.
LEMMA Where ==
  ASSUME NEW c, NEW n
  PROVE  /\ \A p \in Server :
              /\ p \in ToDo(c, n) <=> For(typed[c], n) /\ Before(p, n) /\ IsCommand(c, Front(p))
              /\ p \in ToHear(c, n) <=> After(p, n) /\ IsAnswer(c, n, Front(p))
              /\ p \in ToRedo(c, n) <=> Before(p, n) /\ IsReturn(c, n, Front(p))
         /\ Hand \in ToDo(c, n) <=> For(typed[c], n) /\ IsCommand(c, busy[n])
         /\ Hand \in ToHear(c, n) <=> IsAnswer(c, n, busy[0])
         /\ Hand \in ToRedo(c, n) <=> IsReturn(c, n, busy[n])
         /\ Book \in ToHear(c, n) <=> \E i \in 1..Len(owes[n]) : IsCommand(c, owes[n][i])
         /\ Book \notin ToDo(c, n) /\ Book \notin ToRedo(c, n)
         /\ ToDo(c, n) \subseteq Place /\ ToHear(c, n) \subseteq Place
         /\ ToRedo(c, n) \subseteq Place
BY PlaceType DEF ToDo, ToHear, ToRedo

LEMMA WhereNext ==
  ASSUME NEW c, NEW n
  PROVE  /\ \A p \in Server :
              /\ p \in ToDo(c, n)' <=>
                   For(typed'[c], n) /\ Before(p, n) /\ IsCommand(c, Front(p)')
              /\ p \in ToHear(c, n)' <=> After(p, n) /\ IsAnswer(c, n, Front(p)')
              /\ p \in ToRedo(c, n)' <=> Before(p, n) /\ IsReturn(c, n, Front(p)')
         /\ Hand \in ToDo(c, n)' <=> For(typed'[c], n) /\ IsCommand(c, busy'[n])
         /\ Hand \in ToHear(c, n)' <=> IsAnswer(c, n, busy'[0])
         /\ Hand \in ToRedo(c, n)' <=> IsReturn(c, n, busy'[n])
         /\ Book \in ToHear(c, n)' <=> \E i \in 1..Len(owes'[n]) : IsCommand(c, owes'[n][i])
         /\ Book \notin ToDo(c, n)' /\ Book \notin ToRedo(c, n)'
         /\ ToDo(c, n)' \subseteq Place /\ ToHear(c, n)' \subseteq Place
         /\ ToRedo(c, n)' \subseteq Place
BY PlaceType DEF ToDo, ToHear, ToRedo

\* Counting places.
LEMMA PlaceCount ==
  ASSUME NEW S \in SUBSET Place, NEW T \in SUBSET Place
  PROVE  /\ Cardinality(S) \in Nat
         /\ Cardinality(S) = 0 <=> S = {}
         /\ T \subseteq S => Cardinality(T) <= Cardinality(S)
         /\ \A x \in Place :
              /\ x \in S /\ T \subseteq S \ {x} => Cardinality(T) + 1 <= Cardinality(S)
              /\ x \notin S /\ T = S \cup {x} => Cardinality(T) = Cardinality(S) + 1
              /\ x \in S /\ T = S \ {x} => Cardinality(T) = Cardinality(S) - 1
              /\ T \subseteq S \cup {x} => Cardinality(T) <= Cardinality(S) + 1
         /\ \A x, y \in Place :
              x \in S /\ y \notin S /\ T = (S \ {x}) \cup {y}
                => Cardinality(T) = Cardinality(S)
<1>1. IsFiniteSet(S) /\ IsFiniteSet(T)
  BY PlaceType, FS_Subset
<1>2. Cardinality(S) \in Nat /\ Cardinality(T) \in Nat /\ (Cardinality(S) = 0 <=> S = {})
  BY <1>1, FS_CardinalityType, FS_EmptySet
<1>3. T \subseteq S => Cardinality(T) <= Cardinality(S)
  BY <1>1, FS_Subset
<1>4. ASSUME NEW x \in Place
      PROVE  /\ x \in S /\ T \subseteq S \ {x} => Cardinality(T) + 1 <= Cardinality(S)
             /\ x \notin S /\ T = S \cup {x} => Cardinality(T) = Cardinality(S) + 1
             /\ x \in S /\ T = S \ {x} => Cardinality(T) = Cardinality(S) - 1
             /\ T \subseteq S \cup {x} => Cardinality(T) <= Cardinality(S) + 1
  <2>1. /\ IsFiniteSet(S \ {x})
        /\ Cardinality(S \ {x}) = IF x \in S THEN Cardinality(S) - 1 ELSE Cardinality(S)
    BY <1>1, FS_RemoveElement
  <2>2. /\ IsFiniteSet(S \cup {x})
        /\ Cardinality(S \cup {x}) = IF x \in S THEN Cardinality(S) ELSE Cardinality(S) + 1
    BY <1>1, FS_AddElement
  <2>3. T \subseteq S \ {x} => Cardinality(T) <= Cardinality(S \ {x})
    BY <2>1, FS_Subset
  <2>4. T \subseteq S \cup {x} => Cardinality(T) <= Cardinality(S \cup {x})
    BY <2>2, FS_Subset
  <2>5. QED
    BY <1>2, <2>1, <2>2, <2>3, <2>4
<1>5. ASSUME NEW x \in Place, NEW y \in Place, x \in S, y \notin S, T = (S \ {x}) \cup {y}
      PROVE  Cardinality(T) = Cardinality(S)
  <2>1. IsFiniteSet(S \ {x}) /\ Cardinality(S \ {x}) = Cardinality(S) - 1
    BY <1>1, <1>5, FS_RemoveElement
  <2>2. Cardinality(T) = Cardinality(S \ {x}) + 1
    BY <1>5, <2>1, FS_AddElement
  <2>3. QED
    BY <1>2, <2>1, <2>2
<1>6. QED
  BY <1>2, <1>3, <1>4, <1>5

\* A message sent is one more at the front of the next pipe, or nowhere.
LEMMA SendPlaces ==
  ASSUME RingInv, NEW n \in Server, NEW m \in Message, SendPipe(n, m),
         NEW c \in 1..MaxCommands, typed'[c] = typed[c], NEW k \in Server
  PROVE  \A p \in Server :
           /\ p \in ToDo(c, k)' <=>
                \/ p \in ToDo(c, k)
                \/ /\ p = Succ(n) /\ pipe[p] = <<>>
                   /\ For(typed[c], k) /\ Before(p, k) /\ IsCommand(c, m)
           /\ p \in ToHear(c, k)' <=>
                \/ p \in ToHear(c, k)
                \/ p = Succ(n) /\ pipe[p] = <<>> /\ After(p, k) /\ IsAnswer(c, k, m)
           /\ p \in ToRedo(c, k)' <=>
                \/ p \in ToRedo(c, k)
                \/ p = Succ(n) /\ pipe[p] = <<>> /\ Before(p, k) /\ IsReturn(c, k, m)
<1> TAKE p \in Server
<1>1. Front(p)' = IF p = Succ(n) /\ pipe[p] = <<>> THEN m ELSE Front(p)
  BY SendFront
<1>2. pipe[p] = <<>> => Front(p).id # c
  BY FrontType DEF NoMessage
<1>3. QED
  BY <1>1, <1>2, Where, WhereNext DEF IsCommand, IsAnswer, IsReturn

-----------------------------------------------------------------------------
(* As long as no pipe has held two messages nothing has been lost.         *)

Whole == ~merged /\ \A n \in Server : Len(pipe[n]) <= 1

LEMMA WholeSend ==
  ASSUME RingInv, NEW n \in Server, NEW m \in Message, SendPipe(n, m), merged' = merged, Whole'
  PROVE  Whole /\ pipe[Succ(n)] = <<>>
<1>1. /\ pipe \in [Server -> Seq(Message)] /\ Succ(n) \in Server
      /\ pipe' = [pipe EXCEPT ![Succ(n)] = Append(pipe[Succ(n)], m)]
  BY SuccInRing DEF SendPipe, RingInv, TypeOK
<1>2. Len(pipe'[Succ(n)]) = Len(pipe[Succ(n)]) + 1 /\ Len(pipe[Succ(n)]) \in Nat
  BY <1>1, AppendProperties
<1>3. Len(pipe[Succ(n)]) = 0
  BY <1>1, <1>2 DEF Whole
<1>4. \A k \in Server : Len(pipe[k]) <= 1
  BY <1>1, <1>3 DEF Whole
<1>5. pipe[Succ(n)] = <<>>
  BY <1>1, <1>3, EmptySeq
<1>6. QED
  BY <1>4, <1>5 DEF Whole

LEMMA WholeRecv ==
  ASSUME RingInv, NEW n \in Server, RecvPipe(n), Whole'
  PROVE  Whole /\ (Front(n).from.proc = n \/ pipe[Succ(n)] = <<>>)
<1>1. /\ pipe \in [Server -> Seq(Message)] /\ Succ(n) \in Server /\ pipe[n] # <<>>
      /\ Front(n) = Head(pipe[n])
      /\ pipe[n] \in Seq(Message) /\ pipe[Succ(n)] \in Seq(Message)
  BY SuccInRing DEF RecvPipe, RingInv, TypeOK, Front
<1>2. /\ pipe' = [pipe EXCEPT ![n] = <<>>,
                              ![Succ(n)] = IF Front(n).from.proc = n THEN @ ELSE @ \o pipe[n]]
      /\ merged' = (merged \/ Len(pipe[n]) > 1)
  BY <1>1 DEF RecvPipe, ReadPipe
<1>3. ~merged /\ Len(pipe[n]) <= 1
  <2>1. ~merged'
    BY DEF Whole
  <2>2. ~merged /\ ~(Len(pipe[n]) > 1)
    BY <1>2, <2>1, Zenon
  <2>3. QED
    BY <1>1, <2>2
<1>4. \A k \in Server : k # n /\ k # Succ(n) => pipe'[k] = pipe[k]
  BY <1>2, <1>1
<1>5. CASE Succ(n) = n \/ Front(n).from.proc = n
  <2>1. \A k \in Server : k # n => pipe'[k] = pipe[k]
    BY <1>2, <1>1, <1>5
  <2>2. \A k \in Server : Len(pipe[k]) <= 1
    BY <1>3, <2>1 DEF Whole
  <2>3. Succ(n) = n => Front(n).from.proc = n
    BY <1>1, FrontType, NServerAssumption DEF Succ, Server, Message
  <2>4. QED
    BY <1>3, <1>5, <2>2, <2>3 DEF Whole
<1>6. CASE Succ(n) # n /\ Front(n).from.proc # n
  <2>1. pipe'[Succ(n)] = pipe[Succ(n)] \o pipe[n]
    BY <1>2, <1>1, <1>6
  <2>2. /\ Len(pipe'[Succ(n)]) = Len(pipe[Succ(n)]) + Len(pipe[n])
        /\ Len(pipe[n]) \in Nat /\ Len(pipe[Succ(n)]) \in Nat /\ Len(pipe[n]) # 0
    BY <1>1, <2>1, ConcatProperties, EmptySeq
  <2>3. Len(pipe[Succ(n)]) = 0
    BY <1>1, <2>2 DEF Whole
  <2>4. \A k \in Server : Len(pipe[k]) <= 1
    BY <1>3, <1>4, <2>3 DEF Whole
  <2>5. QED
    BY <1>1, <1>3, <2>3, <2>4, EmptySeq DEF Whole
<1>7. QED
  BY <1>5, <1>6

\* Two sets of places with the same members.
LEMMA SamePlaces ==
  ASSUME NEW S \in SUBSET Place, NEW T \in SUBSET Place,
         \A p \in Server : p \in T <=> p \in S,
         Hand \in T <=> Hand \in S, Book \in T <=> Book \in S
  PROVE  T = S
BY PlaceType

\* Where the next server stands.
LEMMA SuccPlace ==
  ASSUME NEW n \in Server, NEW k \in Server
  PROVE  /\ Succ(n) \in Server /\ 0 \in Server
         /\ Before(n, n)
         /\ k # n /\ Before(n, k) => n # 0 /\ Before(Succ(n), k)
         /\ ~Before(n, k) /\ n # 0 => ~Before(Succ(n), k)
         /\ n # 0 => ~Before(Succ(n), n)
         /\ After(n, k) /\ n # 0 => n # k /\ After(Succ(n), k)
         /\ ~After(n, k) /\ n # k => ~After(Succ(n), k) /\ n # 0
         /\ k # 0 => ~After(Succ(0), k)
         /\ After(Succ(n), n) /\ After(0, k)
         /\ Before(Succ(0), k)
BY NServerAssumption DEF Succ, Server, Before, After

\* Which kind of message is at which kind of place.
LEMMA KindAt ==
  ASSUME RingInv, NEW m, Known(m), NEW c \in Nat, NEW k
  PROVE  /\ IsCommand(c, m) => Numbered(m) /\ Asks(m)
         /\ IsAnswer(c, k, m) => Numbered(m) /\ Tells(m)
         /\ IsReturn(c, k, m) => Numbered(m) /\ Returns(m)
<1>1. CASE Empty(m)
  BY <1>1 DEF Empty, IsCommand, IsAnswer, IsReturn
<1>2. CASE ~Empty(m)
  <2>1. Numbered(m) /\ (Asks(m) \/ Tells(m) \/ Returns(m) \/ Ignored(m))
    BY <1>2 DEF Known
  <2>2. m.to.task = typed[m.id].task \/ ~Asks(m)
    BY DEF Asks
  <2>3. m.from.task = typed[m.id].task \/ ~Tells(m)
    BY DEF Tells
  <2>4. typed[m.id].task \in {"radio", "server"}
    BY <2>1, TypedKinds
  <2>5. QED
    BY <2>1, <2>2, <2>3, <2>4 DEF IsCommand, IsAnswer, IsReturn, Asks, Tells, Returns, Ignored
<1>3. QED
  BY <1>1, <1>2

\* What a read does to each place.
LEMMA RecvToDo ==
  ASSUME RingInv, KnownInv, NEW n \in Server, RecvPipe(n),
         NEW c \in 1..MaxCommands, NEW k \in Server
  PROVE  /\ Cardinality(ToDo(c, k)') <= Cardinality(ToDo(c, k))
         /\ Whole' => Cardinality(ToDo(c, k)') = Cardinality(ToDo(c, k))
<1> DEFINE m == Front(n)
           s == Succ(n)
           old == ToDo(c, k)
           new == ToDo(c, k)'
<1>1. /\ m \in Message /\ busy[n] = NoMessage /\ s \in Server
      /\ busy' = [busy EXCEPT ![n] = IF m.to.proc \in {n, Broadcast} THEN m ELSE NoMessage]
      /\ \A p \in Server :
           Front(p)' = IF p = n THEN NoMessage
                       ELSE IF p = s /\ m.from.proc # n /\ pipe[p] = <<>> THEN m ELSE Front(p)
      /\ typed' = typed
      /\ busy'[n] = (IF m.to.proc \in {n, Broadcast} THEN m ELSE NoMessage)
      /\ k # n => busy'[k] = busy[k]
  <2>1. typed' = typed /\ busy \in [Server -> Message \cup {NoMessage, Notifying}] /\ s \in Server
    BY SuccPlace DEF RecvPipe, ReadPipe, RingInv, TypeOK
  <2>2. QED
    BY <2>1, RecvFront
<1>2. /\ \A p \in Server : pipe[p] = <<>> => ~IsCommand(c, Front(p))
      /\ ~IsCommand(c, NoMessage)
  BY FrontType DEF IsCommand, NoMessage
<1>3. IsCommand(c, m) => Asks(m) /\ m.id = c /\ m.to.proc = typed[c].proc /\ m.from.proc = 0
  <2>1. Known(m)
    BY <1>1 DEF KnownInv
  <2>2. QED
    BY <2>1, KindAt DEF IsCommand, Asks
<1>4. old \in SUBSET Place /\ new \in SUBSET Place
  BY Where, WhereNext
<1>5. CASE n \in old /\ k = n
  <2>1. IsCommand(c, m) /\ For(typed[c], n)
    BY <1>5, Where
  <2>2. Hand \notin old /\ Hand \in new
    BY <1>1, <1>2, <1>3, <1>5, <2>1, Where, WhereNext DEF For
  <2>3. \A p \in Server : p \in new <=> p \in old /\ p # n
    BY <1>1, <1>2, <1>3, <1>5, <2>1, Where, WhereNext, SuccPlace
  <2>4. new = (old \ {n}) \cup {Hand}
    BY <1>4, <2>2, <2>3, PlaceType, Where, WhereNext
  <2>5. QED
    BY <1>4, <1>5, <2>2, <2>4, PlaceCount, PlaceType
<1>6. CASE n \in old /\ k # n
  <2>1. IsCommand(c, m) /\ For(typed[c], k) /\ Before(n, k)
    BY <1>6, Where
  <2>2. m.from.proc # n /\ Before(s, k) /\ s # n
    BY <1>1, <1>3, <1>6, <2>1, SuccPlace, NServerAssumption DEF Succ, Server
  <2>3. Hand \in new <=> Hand \in old
    BY <1>1, <1>6, Where, WhereNext
  <2>4. \A p \in Server : p \in new <=> (p \in old /\ p # n) \/ (p = s /\ pipe[p] = <<>>)
    BY <1>1, <1>2, <2>1, <2>2, Where, WhereNext
  <2>5. CASE pipe[s] = <<>>
    <3>1. s \notin old
      BY <1>1, <1>2, <2>5, Where
    <3>2. new = (old \ {n}) \cup {s}
      BY <1>1, <1>4, <2>2, <2>3, <2>4, <2>5, PlaceType, Where, WhereNext
    <3>3. QED
      BY <1>1, <1>4, <1>6, <3>1, <3>2, PlaceCount, PlaceType
  <2>6. CASE pipe[s] # <<>>
    <3>1. new \subseteq old
      BY <1>4, <2>3, <2>4, <2>6, PlaceType, Where, WhereNext
    <3>2. ~Whole'
      BY <2>2, <2>6, WholeRecv
    <3>3. QED
      BY <1>4, <3>1, <3>2, PlaceCount
  <2>7. QED
    BY <2>5, <2>6
<1>7. CASE n \notin old
  <2>1. ~(IsCommand(c, m) /\ For(typed[c], k) /\ Before(n, k))
    BY <1>7, Where
  <2>2. \A p \in Server : p \in new <=> p \in old
    <3> TAKE p \in Server
    <3>1. CASE p = n
      BY <1>1, <1>2, <1>7, <3>1, WhereNext
    <3>2. CASE p # n /\ Front(p)' = Front(p)
      BY <1>1, <3>2, Where, WhereNext
    <3>3. CASE p = s /\ m.from.proc # n /\ pipe[p] = <<>> /\ Front(p)' = m
      <4>1. p \notin old
        BY <1>2, <3>3, Where
      <4>2. ~(For(typed[c], k) /\ Before(p, k) /\ IsCommand(c, m))
        BY <1>3, <2>1, <3>3, SuccPlace
      <4>3. QED
        BY <1>1, <3>3, <4>1, <4>2, WhereNext
    <3>4. QED
      BY <1>1, <3>1, <3>2, <3>3
  <2>3. Hand \in new <=> Hand \in old
    <3>1. CASE k # n
      BY <1>1, <3>1, Where, WhereNext
    <3>2. CASE k = n
      <4>1. Hand \notin old
        BY <1>1, <1>2, <3>2, Where
      <4>2. IsCommand(c, busy'[n]) => IsCommand(c, m)
        BY <1>1, <1>2
      <4>3. ~(For(typed[c], n) /\ IsCommand(c, busy'[n]))
        BY <2>1, <3>2, <4>2, SuccPlace
      <4>4. QED
        BY <1>1, <3>2, <4>1, <4>3, WhereNext
    <3>3. QED
      BY <3>1, <3>2
  <2>4. Book \notin new /\ Book \notin old
    BY Where, WhereNext
  <2>5. new = old
    BY <1>4, <2>2, <2>3, <2>4, SamePlaces
  <2>6. QED
    BY <1>4, <2>5, PlaceCount
<1>8. QED
  BY <1>5, <1>6, <1>7

\* At most one place has been exchanged for another.
LEMMA PlaceMoved ==
  ASSUME NEW S \in SUBSET Place, NEW T \in SUBSET Place,
         NEW x \in Place, NEW y \in Place, x \in S, T \subseteq (S \ {x}) \cup {y}
  PROVE  Cardinality(T) <= Cardinality(S)
<1>1. S \ {x} \in SUBSET Place
  OBVIOUS
<1>2. Cardinality(T) <= Cardinality(S \ {x}) + 1 /\ Cardinality(T) \in Nat
  BY <1>1, PlaceCount
<1>3. Cardinality(S \ {x}) + 1 <= Cardinality(S)
  BY <1>1, PlaceCount
<1>4. Cardinality(S \ {x}) \in Nat /\ Cardinality(S) \in Nat
  BY <1>1, PlaceCount
<1>5. QED
  BY <1>2, <1>3, <1>4

LEMMA RecvToHear ==
  ASSUME RingInv, KnownInv, NEW n \in Server, RecvPipe(n),
         NEW c \in 1..MaxCommands, NEW k \in Server
  PROVE  /\ Cardinality(ToHear(c, k)') <= Cardinality(ToHear(c, k))
         /\ Whole' => Cardinality(ToHear(c, k)') = Cardinality(ToHear(c, k))
<1> DEFINE m == Front(n)
           s == Succ(n)
           old == ToHear(c, k)
           new == ToHear(c, k)'
<1>1. /\ m \in Message /\ busy[n] = NoMessage /\ s \in Server /\ 0 \in Server
      /\ \A p \in Server :
           Front(p)' = IF p = n THEN NoMessage
                       ELSE IF p = s /\ m.from.proc # n /\ pipe[p] = <<>> THEN m ELSE Front(p)
      /\ busy'[n] = (IF m.to.proc \in {n, Broadcast} THEN m ELSE NoMessage)
      /\ n # 0 => busy'[0] = busy[0]
      /\ owes' = owes
  <2>1. owes' = owes /\ busy \in [Server -> Message \cup {NoMessage, Notifying}] /\ s \in Server
    BY SuccPlace DEF RecvPipe, ReadPipe, RingInv, TypeOK
  <2>2. QED
    BY <2>1, RecvFront, SuccPlace
<1>2. /\ \A p \in Server : pipe[p] = <<>> => ~IsAnswer(c, k, Front(p))
      /\ ~IsAnswer(c, k, NoMessage)
  BY FrontType DEF IsAnswer, NoMessage
<1>3. IsAnswer(c, k, m) => m.to.proc = 0 /\ m.from.proc = k
  <2>1. Known(m)
    BY <1>1 DEF KnownInv
  <2>2. QED
    BY <2>1, KindAt DEF IsAnswer, Tells
<1>4. old \in SUBSET Place /\ new \in SUBSET Place /\ (Book \in new <=> Book \in old)
  BY <1>1, Where, WhereNext
<1>5. CASE n \in old /\ n = 0
  <2>1. IsAnswer(c, k, m)
    BY <1>5, Where
  <2>2. Hand \notin old /\ Hand \in new
    BY <1>1, <1>2, <1>3, <1>5, <2>1, Where, WhereNext
  <2>3. \A p \in Server : p \in new <=> p \in old /\ p # n
    BY <1>1, <1>2, <1>3, <1>5, <2>1, Where, WhereNext, SuccPlace
  <2>4. new = (old \ {n}) \cup {Hand}
    BY <1>4, <2>2, <2>3, SamePlaces, PlaceType
  <2>5. QED
    BY <1>4, <1>5, <2>2, <2>4, PlaceCount, PlaceType
<1>6. CASE n \in old /\ n # 0
  <2>1. IsAnswer(c, k, m) /\ After(n, k)
    BY <1>6, Where
  <2>2. m.from.proc # n /\ After(s, k) /\ s # n
    BY <1>1, <1>3, <1>6, <2>1, SuccPlace, NServerAssumption DEF Succ, Server
  <2>3. Hand \in new <=> Hand \in old
    BY <1>1, <1>6, Where, WhereNext
  <2>4. \A p \in Server : p \in new <=> (p \in old /\ p # n) \/ (p = s /\ pipe[p] = <<>>)
    BY <1>1, <1>2, <2>1, <2>2, Where, WhereNext
  <2>5. CASE pipe[s] = <<>>
    <3>1. s \notin old
      BY <1>1, <1>2, <2>5, Where
    <3>2. new = (old \ {n}) \cup {s}
      BY <1>1, <1>4, <2>2, <2>3, <2>4, <2>5, SamePlaces, PlaceType
    <3>3. QED
      BY <1>1, <1>4, <1>6, <3>1, <3>2, PlaceCount, PlaceType
  <2>6. CASE pipe[s] # <<>>
    <3>1. new \subseteq old
      BY <1>4, <2>3, <2>4, <2>6, PlaceType
    <3>2. ~Whole'
      BY <2>2, <2>6, WholeRecv
    <3>3. QED
      BY <1>4, <3>1, <3>2, PlaceCount
  <2>7. QED
    BY <2>5, <2>6
<1>7. CASE n \notin old
  <2>1. ~(IsAnswer(c, k, m) /\ After(n, k))
    BY <1>7, Where
  <2>2. \A p \in Server : p \in new <=> p \in old
    <3> TAKE p \in Server
    <3>1. CASE p = n
      BY <1>1, <1>2, <1>7, <3>1, WhereNext
    <3>2. CASE p # n /\ Front(p)' = Front(p)
      BY <1>1, <3>2, Where, WhereNext
    <3>3. CASE p = s /\ m.from.proc # n /\ pipe[p] = <<>> /\ Front(p)' = m
      <4>1. p \notin old
        BY <1>2, <3>3, Where
      <4>2. ~(After(p, k) /\ IsAnswer(c, k, m))
        BY <1>3, <2>1, <3>3, SuccPlace
      <4>3. QED
        BY <1>1, <3>3, <4>1, <4>2, WhereNext
    <3>4. QED
      BY <1>1, <3>1, <3>2, <3>3
  <2>3. Hand \in new <=> Hand \in old
    <3>1. CASE n # 0
      BY <1>1, <3>1, Where, WhereNext
    <3>2. CASE n = 0
      <4>1. Hand \notin old
        BY <1>1, <1>2, <3>2, Where
      <4>2. IsAnswer(c, k, busy'[n]) => IsAnswer(c, k, m)
        BY <1>1, <1>2
      <4>3. ~IsAnswer(c, k, busy'[n])
        BY <2>1, <3>2, <4>2 DEF After
      <4>4. QED
        BY <1>1, <3>2, <4>1, <4>3, WhereNext
    <3>3. QED
      BY <3>1, <3>2
  <2>4. new = old
    BY <1>4, <2>2, <2>3, SamePlaces
  <2>5. QED
    BY <1>4, <2>4, PlaceCount
<1>8. QED
  BY <1>5, <1>6, <1>7

LEMMA RecvToRedo ==
  ASSUME RingInv, KnownInv, NEW n \in Server, RecvPipe(n),
         NEW c \in 1..MaxCommands, NEW k \in Server
  PROVE  Cardinality(ToRedo(c, k)') <= Cardinality(ToRedo(c, k))
<1> DEFINE m == Front(n)
           s == Succ(n)
           old == ToRedo(c, k)
           new == ToRedo(c, k)'
<1>1. /\ m \in Message /\ busy[n] = NoMessage /\ s \in Server
      /\ \A p \in Server :
           Front(p)' = IF p = n THEN NoMessage
                       ELSE IF p = s /\ m.from.proc # n /\ pipe[p] = <<>> THEN m ELSE Front(p)
      /\ busy'[n] = (IF m.to.proc \in {n, Broadcast} THEN m ELSE NoMessage)
      /\ k # n => busy'[k] = busy[k]
  <2>1. busy \in [Server -> Message \cup {NoMessage, Notifying}] /\ s \in Server
    BY SuccPlace DEF RingInv, TypeOK
  <2>2. QED
    BY <2>1, RecvFront
<1>2. /\ \A p \in Server : pipe[p] = <<>> => ~IsReturn(c, k, Front(p))
      /\ ~IsReturn(c, k, NoMessage)
  BY FrontType DEF IsReturn, NoMessage
<1>3. IsReturn(c, k, m) => m.to.proc = k /\ m.from.proc = 0
  <2>1. Known(m)
    BY <1>1 DEF KnownInv
  <2>2. QED
    BY <2>1, KindAt DEF IsReturn, Returns
<1>4. old \in SUBSET Place /\ new \in SUBSET Place /\ (Book \in new <=> Book \in old)
  BY Where, WhereNext
<1>5. CASE n \in old /\ k = n
  <2>1. IsReturn(c, k, m)
    BY <1>5, Where
  <2>2. Hand \notin old /\ Hand \in new
    BY <1>1, <1>2, <1>3, <1>5, <2>1, Where, WhereNext
  <2>3. \A p \in Server : p \in new <=> p \in old /\ p # n
    BY <1>1, <1>2, <1>3, <1>5, <2>1, Where, WhereNext, SuccPlace
  <2>4. new = (old \ {n}) \cup {Hand}
    BY <1>4, <2>2, <2>3, SamePlaces, PlaceType
  <2>5. QED
    BY <1>4, <1>5, <2>2, <2>4, PlaceCount, PlaceType
<1>6. CASE n \in old /\ k # n
  <2>1. \A p \in Server : p \in new => (p \in old /\ p # n) \/ (p = s /\ pipe[p] = <<>>)
    BY <1>1, <1>2, Where, WhereNext
  <2>2. Hand \in new <=> Hand \in old
    BY <1>1, <1>6, Where, WhereNext
  <2>3. new \subseteq (old \ {n}) \cup {s}
    BY <1>4, <2>1, <2>2, PlaceType
  <2>4. QED
    BY <1>1, <1>4, <1>6, <2>3, PlaceMoved, PlaceType
<1>7. CASE n \notin old
  <2>1. ~(IsReturn(c, k, m) /\ Before(n, k))
    BY <1>7, Where
  <2>2. \A p \in Server : p \in new => p \in old
    <3> TAKE p \in Server
    <3>1. CASE p = n
      BY <1>1, <1>2, <1>7, <3>1, WhereNext
    <3>2. CASE p # n /\ Front(p)' = Front(p)
      BY <1>1, <3>2, Where, WhereNext
    <3>3. CASE p = s /\ m.from.proc # n /\ pipe[p] = <<>> /\ Front(p)' = m
      <4>1. ~(Before(p, k) /\ IsReturn(c, k, m))
        BY <1>3, <2>1, <3>3, SuccPlace
      <4>2. QED
        BY <1>1, <3>3, <4>1, WhereNext
    <3>4. QED
      BY <1>1, <3>1, <3>2, <3>3
  <2>3. Hand \in new => Hand \in old
    <3>1. CASE k # n
      BY <1>1, <3>1, Where, WhereNext
    <3>2. CASE k = n
      <4>1. IsReturn(c, k, busy'[n]) => IsReturn(c, k, m)
        BY <1>1, <1>2
      <4>2. ~IsReturn(c, k, busy'[n])
        BY <2>1, <3>2, <4>1, SuccPlace
      <4>3. QED
        BY <1>1, <3>2, <4>2, WhereNext
    <3>3. QED
      BY <3>1, <3>2
  <2>4. new \subseteq old
    BY <1>4, <2>2, <2>3, PlaceType
  <2>5. QED
    BY <1>4, <2>4, PlaceCount
<1>8. QED
  BY <1>5, <1>6, <1>7

-----------------------------------------------------------------------------
(* The account of command c at server n: what has been done and heard, and *)
(* what is still to come.                                                  *)

One(c, n) == IF For(typed[c], n) THEN 1 ELSE 0

\* Nothing is carried out or heard too often.
InBounds(c, n) ==
  /\ connected => done[c][n] + Cardinality(ToDo(c, n)) <= One(c, n)
  /\ done[c][n] + (1 + Answers(typed[c])) * Cardinality(ToDo(c, n))
       + Cardinality(ToHear(c, n)) + Cardinality(ToRedo(c, n)) <= 1 + Answers(typed[c])
  /\ heard[c][n] + Cardinality(ToHear(c, n)) <= done[c][n] * Answers(typed[c])

\* Nothing has been lost.
AllThere(c, n) ==
  /\ done[c][n] + Cardinality(ToDo(c, n)) >= One(c, n)
  /\ heard[c][n] + Cardinality(ToHear(c, n)) >= done[c][n] * Answers(typed[c])

\* A process that obeys quit does not record that it has: unless all is TRUE, the
\* account of a quit may end short.
Due(c, all) == all \/ typed[c].cmd # "quit"

Account(c, n, all) ==
  InBounds(c, n) /\ (Due(c, all) /\ connected /\ Whole => AllThere(c, n))

CountInv(all) == \A c \in 1..Len(typed), n \in Server : Account(c, n, all)

\* What the numbers in an account are.
LEMMA Numbers ==
  ASSUME RingInv, NEW c \in 1..MaxCommands, NEW n \in Server
  PROVE  /\ done[c][n] \in Nat /\ heard[c][n] \in Nat
         /\ Cardinality(ToDo(c, n)) \in Nat /\ Cardinality(ToHear(c, n)) \in Nat
         /\ Cardinality(ToRedo(c, n)) \in Nat
         /\ One(c, n) \in {0, 1} /\ Answers(typed[c]) \in {1, 2}
<1>1. done[c][n] \in Nat /\ heard[c][n] \in Nat
  BY DEF RingInv, TypeOK
<1>2. /\ Cardinality(ToDo(c, n)) \in Nat /\ Cardinality(ToHear(c, n)) \in Nat
      /\ Cardinality(ToRedo(c, n)) \in Nat
  BY Where, PlaceCount
<1>3. One(c, n) \in {0, 1} /\ Answers(typed[c]) \in {1, 2}
  BY DEF One, Answers
<1>4. QED
  BY <1>1, <1>2, <1>3

LEMMA NumbersNext ==
  ASSUME NEW c \in 1..MaxCommands, NEW n \in Server, typed'[c] = typed[c]
  PROVE  /\ Cardinality(ToDo(c, n)') \in Nat /\ Cardinality(ToHear(c, n)') \in Nat
         /\ Cardinality(ToRedo(c, n)') \in Nat
         /\ One(c, n)' = One(c, n) /\ Answers(typed[c])' = Answers(typed[c])
<1>1. /\ Cardinality(ToDo(c, n)') \in Nat /\ Cardinality(ToHear(c, n)') \in Nat
      /\ Cardinality(ToRedo(c, n)') \in Nat
  BY WhereNext, PlaceCount
<1>2. One(c, n)' = One(c, n) /\ Answers(typed[c])' = Answers(typed[c])
  BY DEF One, Answers
<1>3. QED
  BY <1>1, <1>2

LEMMA Weight ==
  ASSUME NEW w \in {1, 2}, NEW a \in Nat, NEW b \in Nat
  PROVE  (1 + w) * a \in Nat /\ (b <= a => (1 + w) * b <= (1 + w) * a)
OBVIOUS

\* The bounds, for a command that is answered once and one that is answered twice.
LEMMA Bounds ==
  ASSUME RingInv, NEW c \in 1..MaxCommands, NEW n \in Server
  PROVE  InBounds(c, n) <=>
           /\ connected => done[c][n] + Cardinality(ToDo(c, n)) <= One(c, n)
           /\ Answers(typed[c]) = 1 =>
                /\ done[c][n] + 2 * Cardinality(ToDo(c, n))
                     + Cardinality(ToHear(c, n)) + Cardinality(ToRedo(c, n)) <= 2
                /\ heard[c][n] + Cardinality(ToHear(c, n)) <= done[c][n]
           /\ Answers(typed[c]) = 2 =>
                /\ done[c][n] + 3 * Cardinality(ToDo(c, n))
                     + Cardinality(ToHear(c, n)) + Cardinality(ToRedo(c, n)) <= 3
                /\ heard[c][n] + Cardinality(ToHear(c, n)) <= 2 * done[c][n]
<1>1. CASE Answers(typed[c]) = 1
  BY <1>1, Numbers DEF InBounds
<1>2. CASE Answers(typed[c]) = 2
  BY <1>2, Numbers DEF InBounds
<1>3. QED
  BY <1>1, <1>2, Numbers

LEMMA BoundsNext ==
  ASSUME RingInv, NEW c \in 1..MaxCommands, NEW n \in Server, typed'[c] = typed[c],
         done'[c][n] \in Nat, heard'[c][n] \in Nat,
         connected' => done'[c][n] + Cardinality(ToDo(c, n)') <= One(c, n),
         Answers(typed[c]) = 1 =>
           /\ done'[c][n] + 2 * Cardinality(ToDo(c, n)')
                + Cardinality(ToHear(c, n)') + Cardinality(ToRedo(c, n)') <= 2
           /\ heard'[c][n] + Cardinality(ToHear(c, n)') <= done'[c][n],
         Answers(typed[c]) = 2 =>
           /\ done'[c][n] + 3 * Cardinality(ToDo(c, n)')
                + Cardinality(ToHear(c, n)') + Cardinality(ToRedo(c, n)') <= 3
           /\ heard'[c][n] + Cardinality(ToHear(c, n)') <= 2 * done'[c][n]
  PROVE  InBounds(c, n)'
<1>1. CASE Answers(typed[c]) = 1
  BY <1>1, NumbersNext DEF InBounds
<1>2. CASE Answers(typed[c]) = 2
  BY <1>2, NumbersNext DEF InBounds
<1>3. QED
  BY <1>1, <1>2, Numbers

\* The five entries: nothing new, or less where something may have been lost; ...
LEMMA Kept ==
  ASSUME NEW all \in BOOLEAN, RingInv, NEW c \in 1..MaxCommands, NEW n \in Server,
         Account(c, n, all),
         typed'[c] = typed[c], connected' => connected,
         done'[c][n] = done[c][n], heard'[c][n] = heard[c][n],
         Cardinality(ToDo(c, n)') <= Cardinality(ToDo(c, n)),
         Cardinality(ToHear(c, n)') <= Cardinality(ToHear(c, n)),
         Cardinality(ToRedo(c, n)') <= Cardinality(ToRedo(c, n)),
         Due(c, all) /\ connected' /\ Whole' =>
           /\ Whole
           /\ Cardinality(ToDo(c, n)') = Cardinality(ToDo(c, n))
           /\ Cardinality(ToHear(c, n)') = Cardinality(ToHear(c, n))
  PROVE  Account(c, n, all)'
<1>1. InBounds(c, n)'
  <2>1. InBounds(c, n)
    BY DEF Account
  <2>2. connected' => done'[c][n] + Cardinality(ToDo(c, n)') <= One(c, n)
    BY <2>1, Numbers, NumbersNext DEF InBounds
  <2>3. CASE Answers(typed[c]) = 1
    <3>1. /\ done'[c][n] + 2 * Cardinality(ToDo(c, n)')
               + Cardinality(ToHear(c, n)') + Cardinality(ToRedo(c, n)') <= 2
          /\ heard'[c][n] + Cardinality(ToHear(c, n)') <= done'[c][n]
          /\ done'[c][n] \in Nat /\ heard'[c][n] \in Nat
      BY <2>1, <2>3, Numbers, NumbersNext, Bounds
    <3>2. QED
      BY <2>2, <2>3, <3>1, BoundsNext
  <2>4. CASE Answers(typed[c]) = 2
    <3>1. /\ done'[c][n] + 3 * Cardinality(ToDo(c, n)')
               + Cardinality(ToHear(c, n)') + Cardinality(ToRedo(c, n)') <= 3
          /\ heard'[c][n] + Cardinality(ToHear(c, n)') <= 2 * done'[c][n]
          /\ done'[c][n] \in Nat /\ heard'[c][n] \in Nat
      BY <2>1, <2>4, Numbers, NumbersNext, Bounds
    <3>2. QED
      BY <2>2, <2>4, <3>1, BoundsNext
  <2>5. QED
    BY <2>3, <2>4, Numbers
<1>2. Due(c, all) /\ connected' /\ Whole' => AllThere(c, n)'
  BY Numbers, NumbersNext DEF Account, AllThere
<1>3. QED
  BY <1>1, <1>2 DEF Account, Due

\* ... the command carried out and answered; ...
LEMMA Carried ==
  ASSUME NEW all \in BOOLEAN, RingInv, NEW c \in 1..MaxCommands, NEW n \in Server,
         Account(c, n, all),
         typed'[c] = typed[c], connected' = connected,
         done'[c][n] = done[c][n] + 1, heard'[c][n] = heard[c][n],
         Cardinality(ToDo(c, n)') + 1 = Cardinality(ToDo(c, n)),
         Cardinality(ToHear(c, n)') <= Cardinality(ToHear(c, n)) + Answers(typed[c]),
         Cardinality(ToRedo(c, n)') <= Cardinality(ToRedo(c, n)),
         Whole' => Whole /\ Cardinality(ToHear(c, n)') = Cardinality(ToHear(c, n)) + Answers(typed[c])
  PROVE  Account(c, n, all)'
<1>1. InBounds(c, n)'
  <2>1. InBounds(c, n)
    BY DEF Account
  <2>2. connected' => done'[c][n] + Cardinality(ToDo(c, n)') <= One(c, n)
    BY <2>1, Numbers, NumbersNext DEF InBounds
  <2>3. CASE Answers(typed[c]) = 1
    <3>1. /\ done'[c][n] + 2 * Cardinality(ToDo(c, n)')
               + Cardinality(ToHear(c, n)') + Cardinality(ToRedo(c, n)') <= 2
          /\ heard'[c][n] + Cardinality(ToHear(c, n)') <= done'[c][n]
          /\ done'[c][n] \in Nat /\ heard'[c][n] \in Nat
      BY <2>1, <2>3, Numbers, NumbersNext, Bounds
    <3>2. QED
      BY <2>2, <2>3, <3>1, BoundsNext
  <2>4. CASE Answers(typed[c]) = 2
    <3>1. /\ done'[c][n] + 3 * Cardinality(ToDo(c, n)')
               + Cardinality(ToHear(c, n)') + Cardinality(ToRedo(c, n)') <= 3
          /\ heard'[c][n] + Cardinality(ToHear(c, n)') <= 2 * done'[c][n]
          /\ done'[c][n] \in Nat /\ heard'[c][n] \in Nat
      BY <2>1, <2>4, Numbers, NumbersNext, Bounds
    <3>2. QED
      BY <2>2, <2>4, <3>1, BoundsNext
  <2>5. QED
    BY <2>3, <2>4, Numbers
<1>2. Due(c, all) /\ connected' /\ Whole' => AllThere(c, n)'
  BY Numbers, NumbersNext DEF Account, AllThere
<1>3. QED
  BY <1>1, <1>2 DEF Account, Due

\* ... an answer heard; ...
LEMMA HeardOf ==
  ASSUME NEW all \in BOOLEAN, RingInv, NEW c \in 1..MaxCommands, NEW n \in Server,
         Account(c, n, all),
         typed'[c] = typed[c], connected' = connected,
         done'[c][n] = done[c][n], heard'[c][n] = heard[c][n] + 1,
         Cardinality(ToDo(c, n)') = Cardinality(ToDo(c, n)),
         Cardinality(ToHear(c, n)') + 1 = Cardinality(ToHear(c, n)),
         Cardinality(ToRedo(c, n)') <= Cardinality(ToRedo(c, n)),
         Whole' => Whole
  PROVE  Account(c, n, all)'
<1>1. InBounds(c, n)'
  <2>1. InBounds(c, n)
    BY DEF Account
  <2>2. connected' => done'[c][n] + Cardinality(ToDo(c, n)') <= One(c, n)
    BY <2>1, Numbers, NumbersNext DEF InBounds
  <2>3. CASE Answers(typed[c]) = 1
    <3>1. /\ done'[c][n] + 2 * Cardinality(ToDo(c, n)')
               + Cardinality(ToHear(c, n)') + Cardinality(ToRedo(c, n)') <= 2
          /\ heard'[c][n] + Cardinality(ToHear(c, n)') <= done'[c][n]
          /\ done'[c][n] \in Nat /\ heard'[c][n] \in Nat
      BY <2>1, <2>3, Numbers, NumbersNext, Bounds
    <3>2. QED
      BY <2>2, <2>3, <3>1, BoundsNext
  <2>4. CASE Answers(typed[c]) = 2
    <3>1. /\ done'[c][n] + 3 * Cardinality(ToDo(c, n)')
               + Cardinality(ToHear(c, n)') + Cardinality(ToRedo(c, n)') <= 3
          /\ heard'[c][n] + Cardinality(ToHear(c, n)') <= 2 * done'[c][n]
          /\ done'[c][n] \in Nat /\ heard'[c][n] \in Nat
      BY <2>1, <2>4, Numbers, NumbersNext, Bounds
    <3>2. QED
      BY <2>2, <2>4, <3>1, BoundsNext
  <2>5. QED
    BY <2>3, <2>4, Numbers
<1>2. Due(c, all) /\ connected' /\ Whole' => AllThere(c, n)'
  BY Numbers, NumbersNext DEF Account, AllThere
<1>3. QED
  BY <1>1, <1>2 DEF Account, Due

\* ... an answer sent back, as there is no shell; ...
LEMMA SentBack ==
  ASSUME NEW all \in BOOLEAN, RingInv, NEW c \in 1..MaxCommands, NEW n \in Server,
         Account(c, n, all),
         typed'[c] = typed[c], ~connected',
         done'[c][n] = done[c][n], heard'[c][n] = heard[c][n],
         Cardinality(ToDo(c, n)') <= Cardinality(ToDo(c, n)),
         Cardinality(ToHear(c, n)') + 1 <= Cardinality(ToHear(c, n)),
         Cardinality(ToRedo(c, n)') <= Cardinality(ToRedo(c, n)) + 1
  PROVE  Account(c, n, all)'
<1>1. InBounds(c, n)'
  <2>1. InBounds(c, n)
    BY DEF Account
  <2>2. connected' => done'[c][n] + Cardinality(ToDo(c, n)') <= One(c, n)
    BY <2>1, Numbers, NumbersNext DEF InBounds
  <2>3. CASE Answers(typed[c]) = 1
    <3>1. /\ done'[c][n] + 2 * Cardinality(ToDo(c, n)')
               + Cardinality(ToHear(c, n)') + Cardinality(ToRedo(c, n)') <= 2
          /\ heard'[c][n] + Cardinality(ToHear(c, n)') <= done'[c][n]
          /\ done'[c][n] \in Nat /\ heard'[c][n] \in Nat
      BY <2>1, <2>3, Numbers, NumbersNext, Bounds
    <3>2. QED
      BY <2>2, <2>3, <3>1, BoundsNext
  <2>4. CASE Answers(typed[c]) = 2
    <3>1. /\ done'[c][n] + 3 * Cardinality(ToDo(c, n)')
               + Cardinality(ToHear(c, n)') + Cardinality(ToRedo(c, n)') <= 3
          /\ heard'[c][n] + Cardinality(ToHear(c, n)') <= 2 * done'[c][n]
          /\ done'[c][n] \in Nat /\ heard'[c][n] \in Nat
      BY <2>1, <2>4, Numbers, NumbersNext, Bounds
    <3>2. QED
      BY <2>2, <2>4, <3>1, BoundsNext
  <2>5. QED
    BY <2>3, <2>4, Numbers
<1>2. QED
  BY <1>1 DEF Account

\* ... and such an answer carried out as a command.
LEMMA Repeated ==
  ASSUME NEW all \in BOOLEAN, RingInv, NEW c \in 1..MaxCommands, NEW n \in Server,
         Account(c, n, all),
         typed'[c] = typed[c], ~connected',
         done'[c][n] = done[c][n] + 1, heard'[c][n] = heard[c][n],
         Cardinality(ToDo(c, n)') <= Cardinality(ToDo(c, n)),
         Cardinality(ToHear(c, n)') <= Cardinality(ToHear(c, n)),
         Cardinality(ToRedo(c, n)') + 1 <= Cardinality(ToRedo(c, n))
  PROVE  Account(c, n, all)'
<1>1. InBounds(c, n)'
  <2>1. InBounds(c, n)
    BY DEF Account
  <2>2. connected' => done'[c][n] + Cardinality(ToDo(c, n)') <= One(c, n)
    BY <2>1, Numbers, NumbersNext DEF InBounds
  <2>3. CASE Answers(typed[c]) = 1
    <3>1. /\ done'[c][n] + 2 * Cardinality(ToDo(c, n)')
               + Cardinality(ToHear(c, n)') + Cardinality(ToRedo(c, n)') <= 2
          /\ heard'[c][n] + Cardinality(ToHear(c, n)') <= done'[c][n]
          /\ done'[c][n] \in Nat /\ heard'[c][n] \in Nat
      BY <2>1, <2>3, Numbers, NumbersNext, Bounds
    <3>2. QED
      BY <2>2, <2>3, <3>1, BoundsNext
  <2>4. CASE Answers(typed[c]) = 2
    <3>1. /\ done'[c][n] + 3 * Cardinality(ToDo(c, n)')
               + Cardinality(ToHear(c, n)') + Cardinality(ToRedo(c, n)') <= 3
          /\ heard'[c][n] + Cardinality(ToHear(c, n)') <= 2 * done'[c][n]
          /\ done'[c][n] \in Nat /\ heard'[c][n] \in Nat
      BY <2>1, <2>4, Numbers, NumbersNext, Bounds
    <3>2. QED
      BY <2>2, <2>4, <3>1, BoundsNext
  <2>5. QED
    BY <2>3, <2>4, Numbers
<1>2. QED
  BY <1>1 DEF Account

-----------------------------------------------------------------------------
(* What the operations do to the three sets.                               *)

\* Server n is done with the message in its hand.
LEMMA HandCleared ==
  ASSUME RingInv, NEW n \in Server, busy' = [busy EXCEPT ![n] = NoMessage],
         NEW c \in 1..MaxCommands, typed'[c] = typed[c], NEW k \in Server
  PROVE  /\ Hand \in ToDo(c, k)' <=> Hand \in ToDo(c, k) /\ k # n
         /\ Hand \in ToHear(c, k)' <=> Hand \in ToHear(c, k) /\ n # 0
         /\ Hand \in ToRedo(c, k)' <=> Hand \in ToRedo(c, k) /\ k # n
<1>1. /\ \A p \in Server : busy'[p] = IF p = n THEN NoMessage ELSE busy[p]
      /\ 0 \in Server
  BY SuccPlace DEF RingInv, TypeOK
<1>2. ~IsCommand(c, NoMessage) /\ ~IsAnswer(c, k, NoMessage) /\ ~IsReturn(c, k, NoMessage)
  BY DEF NoMessage, IsCommand, IsAnswer, IsReturn
<1>3. QED
  BY <1>1, <1>2, Where, WhereNext

\* Nothing has been sent.
LEMMA PipesKept ==
  ASSUME pipe' = pipe, NEW c \in 1..MaxCommands, typed'[c] = typed[c], NEW k \in Server
  PROVE  /\ \A p \in Server : /\ p \in ToDo(c, k)' <=> p \in ToDo(c, k)
                              /\ p \in ToHear(c, k)' <=> p \in ToHear(c, k)
                              /\ p \in ToRedo(c, k)' <=> p \in ToRedo(c, k)
         /\ merged' = merged => (Whole' <=> Whole)
<1>1. \A p \in Server : Front(p)' = Front(p)
  BY DEF Front
<1>2. QED
  BY <1>1, Where, WhereNext DEF Whole

\* A list of collections has each command once.
ListedOnce ==
  \A k \in Server : \A i, j \in 1..Len(owes[k]) :
    IsCommand(owes[k][j].id, owes[k][i]) /\ owes[k][j].from.task = "shell" => i = j

\* The three sets, place by place.
LEMMA SameSets ==
  ASSUME NEW c, NEW k
  PROVE  /\ (\A p \in Server \cup {Hand} : p \in ToDo(c, k)' <=> p \in ToDo(c, k))
              => ToDo(c, k)' = ToDo(c, k)
         /\ (\A p \in Place : p \in ToHear(c, k)' <=> p \in ToHear(c, k))
              => ToHear(c, k)' = ToHear(c, k)
         /\ (\A p \in Server \cup {Hand} : p \in ToRedo(c, k)' <=> p \in ToRedo(c, k))
              => ToRedo(c, k)' = ToRedo(c, k)
<1>1. /\ ToDo(c, k) \in SUBSET Place /\ ToHear(c, k) \in SUBSET Place
      /\ ToRedo(c, k) \in SUBSET Place /\ Book \notin ToDo(c, k) /\ Book \notin ToRedo(c, k)
  BY Where
<1>2. /\ ToDo(c, k)' \in SUBSET Place /\ ToHear(c, k)' \in SUBSET Place
      /\ ToRedo(c, k)' \in SUBSET Place /\ Book \notin ToDo(c, k)' /\ Book \notin ToRedo(c, k)'
  BY WhereNext
<1>3. ASSUME \A p \in Server \cup {Hand} : p \in ToDo(c, k)' <=> p \in ToDo(c, k)
      PROVE  ToDo(c, k)' = ToDo(c, k)
  BY <1>1, <1>2, <1>3, SamePlaces
<1>4. ASSUME \A p \in Place : p \in ToHear(c, k)' <=> p \in ToHear(c, k)
      PROVE  ToHear(c, k)' = ToHear(c, k)
  BY <1>1, <1>2, <1>4, SamePlaces, PlaceType
<1>5. ASSUME \A p \in Server \cup {Hand} : p \in ToRedo(c, k)' <=> p \in ToRedo(c, k)
      PROVE  ToRedo(c, k)' = ToRedo(c, k)
  BY <1>1, <1>2, <1>5, SamePlaces
<1>6. QED
  BY <1>3, <1>4, <1>5

\* The account of a command and a server the step is not about.
LEMMA KeptSets ==
  ASSUME NEW all \in BOOLEAN, RingInv, NEW c \in 1..MaxCommands, NEW n \in Server, Account(c, n, all),
         typed'[c] = typed[c], connected' => connected,
         done'[c][n] = done[c][n], heard'[c][n] = heard[c][n],
         ToDo(c, n)' = ToDo(c, n), ToHear(c, n)' = ToHear(c, n), ToRedo(c, n)' = ToRedo(c, n),
         Whole' => Whole
  PROVE  Account(c, n, all)'
BY Kept, Numbers

LEMMA CountRecv ==
  ASSUME NEW all \in BOOLEAN, RingInv, KnownInv, NEW n \in Server, RecvPipe(n),
         NEW c \in 1..MaxCommands, NEW k \in Server, Account(c, k, all)
  PROVE  /\ Account(c, k, all)'
         /\ Cardinality(ToHear(c, k)') <= Cardinality(ToHear(c, k))
<1>1. typed' = typed /\ connected' = connected /\ done' = done /\ heard' = heard
  BY DEF RecvPipe, ReadPipe
<1>2. Whole' => Whole
  BY WholeRecv
<1>3. QED
  BY <1>1, <1>2, RecvToDo, RecvToHear, RecvToRedo, Kept

LEMMA CountDisconnect ==
  ASSUME NEW all \in BOOLEAN, RingInv, Disconnect, NEW c \in 1..MaxCommands, NEW k \in Server, Account(c, k, all)
  PROVE  Account(c, k, all)' /\ ToHear(c, k)' = ToHear(c, k)
<1>1. /\ pipe' = pipe /\ busy' = busy /\ owes' = owes /\ typed' = typed
      /\ done' = done /\ heard' = heard /\ ~connected' /\ merged' = merged
  BY DEF Disconnect
<1>2. \A p \in Server \cup {Hand} : /\ p \in ToDo(c, k)' <=> p \in ToDo(c, k)
                                    /\ p \in ToRedo(c, k)' <=> p \in ToRedo(c, k)
  BY <1>1, PipesKept, Where, WhereNext
<1>3. \A p \in Place : p \in ToHear(c, k)' <=> p \in ToHear(c, k)
  BY <1>1, PipesKept, PlaceType, Where, WhereNext
<1>4. Whole' => Whole
  BY <1>1 DEF Whole
<1>5. QED
  BY <1>1, <1>2, <1>3, <1>4, SameSets, KeptSets

\* A server that does nothing about the message in its hand.
LEMMA CountIgnored ==
  ASSUME NEW all \in BOOLEAN, RingInv, KnownInv, NEW n \in Server, ServerCommand(n), busy[n].cmd # "lt",
         NEW c \in 1..MaxCommands, NEW k \in Server, Account(c, k, all)
  PROVE  Account(c, k, all)' /\ ToHear(c, k)' = ToHear(c, k)
<1>1. /\ pipe' = pipe /\ owes' = owes /\ typed' = typed /\ done' = done /\ heard' = heard
      /\ connected' = connected /\ merged' = merged /\ busy' = [busy EXCEPT ![n] = NoMessage]
      /\ busy[n] \in Message /\ busy[n].to.task = "server" /\ busy[n].cmd # "quit"
  BY DEF ServerCommand, Dispatching
<1>2. Known(busy[n])
  BY <1>1 DEF KnownInv
<1>3. ~IsCommand(c, busy[n]) /\ ~IsAnswer(c, k, busy[n]) /\ ~IsReturn(c, k, busy[n])
  <2>1. ~(IsCommand(c, busy[n]) /\ typed[busy[n].id].task # "server")
    BY <1>1, <1>2, KindAt DEF Asks
  <2>2. ~(IsCommand(c, busy[n]) /\ typed[busy[n].id].task = "server")
    BY <1>1, <1>2, KindAt, TypedKinds
  <2>3. QED
    BY <1>1, <2>1, <2>2 DEF IsAnswer, IsReturn
<1>4. \A p \in Server \cup {Hand} : /\ p \in ToDo(c, k)' <=> p \in ToDo(c, k)
                                    /\ p \in ToRedo(c, k)' <=> p \in ToRedo(c, k)
  <2>1. \A p \in Server : /\ p \in ToDo(c, k)' <=> p \in ToDo(c, k)
                          /\ p \in ToRedo(c, k)' <=> p \in ToRedo(c, k)
    BY <1>1, PipesKept
  <2>2. /\ Hand \in ToDo(c, k)' <=> Hand \in ToDo(c, k)
        /\ Hand \in ToRedo(c, k)' <=> Hand \in ToRedo(c, k)
    BY <1>1, <1>3, HandCleared, Where
  <2>3. QED
    BY <2>1, <2>2
<1>5. \A p \in Place : p \in ToHear(c, k)' <=> p \in ToHear(c, k)
  <2>1. \A p \in Server : p \in ToHear(c, k)' <=> p \in ToHear(c, k)
    BY <1>1, PipesKept
  <2>2. Hand \in ToHear(c, k)' <=> Hand \in ToHear(c, k)
    BY <1>1, <1>3, HandCleared, Where
  <2>3. Book \in ToHear(c, k)' <=> Book \in ToHear(c, k)
    BY <1>1, Where, WhereNext
  <2>4. QED
    BY <2>1, <2>2, <2>3, PlaceType
<1>6. Whole' => Whole
  BY <1>1 DEF Whole
<1>7. QED
  BY <1>1, <1>4, <1>5, <1>6, SameSets, KeptSets

LEMMA CountShell ==
  ASSUME NEW all \in BOOLEAN, RingInv, KnownInv, NEW n \in Server, ShellCommand(n),
         NEW c \in 1..MaxCommands, NEW k \in Server, Account(c, k, all)
  PROVE  /\ Account(c, k, all)'
         /\ Cardinality(ToHear(c, k)') <= Cardinality(ToHear(c, k))
<1> DEFINE m == busy[n]
<1>1. /\ pipe' = pipe /\ owes' = owes /\ typed' = typed /\ done' = done
      /\ connected' = connected /\ merged' = merged /\ busy' = [busy EXCEPT ![n] = NoMessage]
      /\ heard' = [heard EXCEPT ![m.id][m.from.proc] = @ + 1]
      /\ n = 0 /\ m \in Message /\ Numbered(m) /\ Tells(m)
  BY ShellKind DEF ShellCommand
<1>2. ~IsCommand(c, m) /\ ~IsReturn(c, k, m) /\ (IsAnswer(c, k, m) <=> m.id = c /\ m.from.proc = k)
  BY <1>1, TypedKinds, CommandKinds DEF Tells, IsCommand, IsReturn, IsAnswer
<1>3. \A p \in Server \cup {Hand} : /\ p \in ToDo(c, k)' <=> p \in ToDo(c, k)
                                    /\ p \in ToRedo(c, k)' <=> p \in ToRedo(c, k)
  <2>1. \A p \in Server : /\ p \in ToDo(c, k)' <=> p \in ToDo(c, k)
                          /\ p \in ToRedo(c, k)' <=> p \in ToRedo(c, k)
    BY <1>1, PipesKept
  <2>2. /\ Hand \in ToDo(c, k)' <=> Hand \in ToDo(c, k)
        /\ Hand \in ToRedo(c, k)' <=> Hand \in ToRedo(c, k)
    BY <1>1, <1>2, HandCleared, Where
  <2>3. QED
    BY <2>1, <2>2
<1>4. \A p \in Place : p \in ToHear(c, k)' <=> p \in ToHear(c, k) /\ p # Hand
  <2>1. \A p \in Server : p \in ToHear(c, k)' <=> p \in ToHear(c, k)
    BY <1>1, PipesKept
  <2>2. Hand \notin ToHear(c, k)'
    BY <1>1, HandCleared
  <2>3. Book \in ToHear(c, k)' <=> Book \in ToHear(c, k)
    BY <1>1, Where, WhereNext
  <2>4. QED
    BY <2>1, <2>2, <2>3, PlaceType
<1>5. Whole' => Whole
  BY <1>1 DEF Whole
<1>6. heard'[c][k] = IF c = m.id /\ k = m.from.proc THEN heard[c][k] + 1 ELSE heard[c][k]
  <2>1. heard \in [1..MaxCommands -> [Server -> Nat]]
    BY DEF RingInv, TypeOK
  <2>2. QED
    BY <1>1, <2>1
<1>7. ToDo(c, k)' = ToDo(c, k) /\ ToRedo(c, k)' = ToRedo(c, k)
  BY <1>3, SameSets
<1>8. CASE c = m.id /\ k = m.from.proc
  <2>1. Hand \in ToHear(c, k)
    BY <1>1, <1>2, <1>8, Where
  <2>2. ToHear(c, k)' = ToHear(c, k) \ {Hand}
    BY <1>4, Where, WhereNext
  <2>3. Cardinality(ToHear(c, k)') = Cardinality(ToHear(c, k)) - 1
    BY <2>1, <2>2, Where, WhereNext, PlaceCount, PlaceType
  <2>4. QED
    BY <1>1, <1>5, <1>6, <1>7, <1>8, <2>3, Numbers, NumbersNext, HeardOf
<1>9. CASE ~(c = m.id /\ k = m.from.proc)
  <2>1. Hand \notin ToHear(c, k)
    BY <1>1, <1>2, <1>9, Where
  <2>2. ToHear(c, k)' = ToHear(c, k)
    BY <1>4, <2>1, SameSets
  <2>3. QED
    BY <1>1, <1>5, <1>6, <1>7, <1>9, <2>2, Numbers, KeptSets
<1>10. QED
  BY <1>8, <1>9

\* Server n sends r and is done with the message in its hand.
LEMMA SentAndCleared ==
  ASSUME RingInv, NEW n \in Server, NEW r \in Message, SendPipe(n, r), typed' = typed,
         busy' = [busy EXCEPT ![n] = NoMessage], merged' = merged,
         NEW c \in 1..MaxCommands, NEW k \in Server
  PROVE  /\ Whole' => Whole /\ pipe[Succ(n)] = <<>>
         /\ ~IsCommand(c, r) /\ ~(k = n /\ IsCommand(c, busy[n])) => ToDo(c, k)' = ToDo(c, k)
         /\ ~IsReturn(c, k, r) /\ ~(k = n /\ IsReturn(c, k, busy[n]))
              => ToRedo(c, k)' = ToRedo(c, k)
         /\ /\ ~IsAnswer(c, k, r) /\ ~(n = 0 /\ IsAnswer(c, k, busy[n]))
            /\ Book \in ToHear(c, k)' <=> Book \in ToHear(c, k)
            => ToHear(c, k)' = ToHear(c, k)
<1>1. Whole' => Whole /\ pipe[Succ(n)] = <<>>
  BY WholeSend
<1>2. ASSUME ~IsCommand(c, r), ~(k = n /\ IsCommand(c, busy[n]))
      PROVE  ToDo(c, k)' = ToDo(c, k)
  <2>1. \A p \in Server : p \in ToDo(c, k)' <=> p \in ToDo(c, k)
    BY <1>2, SendPlaces
  <2>2. Hand \in ToDo(c, k)' <=> Hand \in ToDo(c, k)
    BY <1>2, HandCleared, Where
  <2>3. QED
    BY <2>1, <2>2, SameSets
<1>3. ASSUME ~IsReturn(c, k, r), ~(k = n /\ IsReturn(c, k, busy[n]))
      PROVE  ToRedo(c, k)' = ToRedo(c, k)
  <2>1. \A p \in Server : p \in ToRedo(c, k)' <=> p \in ToRedo(c, k)
    BY <1>3, SendPlaces
  <2>2. Hand \in ToRedo(c, k)' <=> Hand \in ToRedo(c, k)
    BY <1>3, HandCleared, Where
  <2>3. QED
    BY <2>1, <2>2, SameSets
<1>4. ASSUME ~IsAnswer(c, k, r), ~(n = 0 /\ IsAnswer(c, k, busy[n])),
             Book \in ToHear(c, k)' <=> Book \in ToHear(c, k)
      PROVE  ToHear(c, k)' = ToHear(c, k)
  <2>1. \A p \in Server : p \in ToHear(c, k)' <=> p \in ToHear(c, k)
    BY <1>4, SendPlaces
  <2>2. Hand \in ToHear(c, k)' <=> Hand \in ToHear(c, k)
    BY <1>4, HandCleared, Where
  <2>3. QED
    BY <1>4, <2>1, <2>2, PlaceType, SameSets
<1>5. QED
  BY <1>1, <1>2, <1>3, <1>4

\* What the account of a command that is to be carried out leaves room for.
LEMMA NothingYet ==
  ASSUME NEW all \in BOOLEAN, RingInv, NEW c \in 1..MaxCommands, NEW n \in Server, Account(c, n, all), ToDo(c, n) # {}
  PROVE  /\ done[c][n] = 0 /\ heard[c][n] = 0 /\ Cardinality(ToDo(c, n)) = 1
         /\ ToHear(c, n) = {} /\ ToRedo(c, n) = {}
<1>1. Cardinality(ToDo(c, n)) >= 1
  BY Where, Numbers, PlaceCount
<1>2. /\ done[c][n] = 0 /\ Cardinality(ToDo(c, n)) = 1
      /\ Cardinality(ToHear(c, n)) = 0 /\ Cardinality(ToRedo(c, n)) = 0
  <2>1. CASE Answers(typed[c]) = 1
    BY <1>1, <2>1, Numbers DEF Account, InBounds
  <2>2. CASE Answers(typed[c]) = 2
    BY <1>1, <2>2, Numbers DEF Account, InBounds
  <2>3. QED
    BY <2>1, <2>2, Numbers
<1>3. heard[c][n] = 0
  BY <1>2, Numbers DEF Account, InBounds
<1>4. QED
  BY <1>2, <1>3, Where, PlaceCount

\* The answers to a command just carried out: one in the next pipe, if it was empty,
\* and one to come when the collection is complete.
LEMMA Answered ==
  ASSUME RingInv, NEW n \in Server, NEW c \in 1..MaxCommands, ToHear(c, n) = {},
         NEW later \in BOOLEAN, NEW w, w = IF later THEN 2 ELSE 1,
         \A p \in Server : p \in ToHear(c, n)' <=> p = Succ(n) /\ pipe[p] = <<>>,
         Hand \notin ToHear(c, n)', Book \in ToHear(c, n)' <=> later
  PROVE  /\ Cardinality(ToHear(c, n)') <= w
         /\ pipe[Succ(n)] = <<>> => Cardinality(ToHear(c, n)') = w
<1> DEFINE S == ToHear(c, n)'
           next == IF pipe[Succ(n)] = <<>> THEN {Succ(n)} ELSE {}
<1>1. /\ Succ(n) \in Place /\ Succ(n) # Book /\ Succ(n) \in Server /\ Book \in Place
      /\ S \in SUBSET Place
  BY SuccInRing, PlaceType, WhereNext
<1>2. next \in SUBSET Place /\ {} \in SUBSET Place /\ Book \notin next
  BY <1>1, PlaceType
<1>3. Cardinality({}) = 0
  BY <1>2, PlaceCount
<1>4. /\ pipe[Succ(n)] = <<>> => Cardinality(next) = 1
      /\ Cardinality(next) \in {0, 1}
  <2>1. CASE pipe[Succ(n)] = <<>>
    <3>1. next = {} \cup {Succ(n)} /\ Succ(n) \notin {}
      BY <2>1
    <3>2. Cardinality(next) = 1
      BY <1>1, <1>2, <1>3, <3>1, PlaceCount
    <3>3. QED
      BY <3>2
  <2>2. CASE pipe[Succ(n)] # <<>>
    BY <1>3, <2>2
  <2>3. QED
    BY <2>1, <2>2
<1>5. CASE later
  <2>1. S = next \cup {Book}
    BY <1>1, <1>5, PlaceType
  <2>2. Cardinality(S) = Cardinality(next) + 1
    BY <1>1, <1>2, <2>1, PlaceCount
  <2>3. QED
    BY <1>4, <1>5, <2>2
<1>6. CASE ~later
  <2>1. S = next
    BY <1>1, <1>6, PlaceType
  <2>2. QED
    BY <1>4, <1>6, <2>1
<1>7. QED
  BY <1>5, <1>6

\* Server n carries out command c, for the first time and with nothing on its way to
\* the shell, and answers at most twice.
Carrying(c, n) ==
  /\ done[c][n] = 0 /\ ToHear(c, n) = {}
  /\ Cardinality(ToHear(c, n)') <= Answers(typed[c])

\* The places of a command just carried out.
LEMMA CarriedOut ==
  ASSUME NEW all \in BOOLEAN, RingInv, NEW n \in Server, NEW c \in 1..MaxCommands, Account(c, n, all),
         NEW r \in Message, SendPipe(n, r), typed' = typed, connected' = connected,
         busy' = [busy EXCEPT ![n] = NoMessage], merged' = merged,
         Numbered(busy[n]), Asks(busy[n]), Mine(n, busy[n]), busy[n].id = c,
         Tells(r), r.id = c, r.from.proc = n,
         done'[c][n] = done[c][n] + 1, heard'[c][n] = heard[c][n],
         Book \in ToHear(c, n)' <=> Answers(typed[c]) = 2
  PROVE  Account(c, n, all)' /\ Carrying(c, n)
<1> DEFINE m == busy[n]
<1>0. ASSUME NEW k \in Server
      PROVE  /\ Hand \in ToDo(c, k)' <=> Hand \in ToDo(c, k) /\ k # n
             /\ Hand \in ToHear(c, k)' <=> Hand \in ToHear(c, k) /\ n # 0
  BY HandCleared
<1>1. /\ typed[c].task \in {"radio", "server"} /\ IsCommand(c, m) /\ For(typed[c], n)
      /\ ~IsAnswer(c, n, m) /\ ~IsReturn(c, n, m)
      /\ ~IsCommand(c, r) /\ IsAnswer(c, n, r) /\ ~IsReturn(c, n, r)
  BY TypedKinds
     DEF IsCommand, IsAnswer, IsReturn, For, Asks, Tells, Numbered, Mine
<1>2. Hand \in ToDo(c, n)
  BY <1>1, Where
<1>3. ToHear(c, n) = {} /\ Cardinality(ToDo(c, n)) = 1 /\ done[c][n] = 0
  BY <1>2, NothingYet
<1>4. /\ Cardinality(ToHear(c, n)') <= Answers(typed[c])
      /\ pipe[Succ(n)] = <<>> => Cardinality(ToHear(c, n)') = Answers(typed[c])
  <2>1. \A p \in Server : p \in ToHear(c, n)' <=> p = Succ(n) /\ pipe[p] = <<>>
    BY <1>1, <1>3, SendPlaces, SuccPlace
  <2>2. Hand \notin ToHear(c, n)'
    BY <1>0, <1>3
  <2>3. \A later \in BOOLEAN : (Book \in ToHear(c, n)' <=> later) =>
          /\ Cardinality(ToHear(c, n)') <= IF later THEN 2 ELSE 1
          /\ pipe[Succ(n)] = <<>> => Cardinality(ToHear(c, n)') = IF later THEN 2 ELSE 1
    BY <1>3, <2>1, <2>2, Answered
  <2>4. QED
    BY <2>3, Numbers
<1>5. Cardinality(ToDo(c, n)') + 1 = Cardinality(ToDo(c, n))
  <2>1. \A p \in Server : p \in ToDo(c, n)' <=> p \in ToDo(c, n)
    BY <1>1, SendPlaces
  <2>2. Hand \notin ToDo(c, n)'
    BY <1>0
  <2>3. ToDo(c, n)' = ToDo(c, n) \ {Hand}
    BY <2>1, <2>2, PlaceType, Where, WhereNext
  <2>4. QED
    BY <1>2, <1>3, <2>3, Where, WhereNext, PlaceCount, PlaceType
<1>6. ToRedo(c, n)' = ToRedo(c, n)
  BY <1>1, SentAndCleared
<1>7. Whole' => Whole /\ pipe[Succ(n)] = <<>>
  BY WholeSend
<1>8. Cardinality(ToHear(c, n)) = 0
  BY <1>3, PlaceCount, Where
<1>9. Account(c, n, all)'
  BY <1>4, <1>5, <1>6, <1>7, <1>8, Numbers, Carried
<1>10. QED
  BY <1>3, <1>4, <1>9 DEF Carrying

LEMMA BookAppend ==
  ASSUME RingInv, NEW n \in Server, NEW c, NEW m \in Message, NEW s \in BOOLEAN,
         owes'[n] = IF s THEN Append(owes[n], m) ELSE owes[n]
  PROVE  Book \in ToHear(c, n)' <=> Book \in ToHear(c, n) \/ (s /\ IsCommand(c, m))
<1>1. owes[n] \in Seq(Message)
  BY DEF RingInv, TypeOK
<1>2. CASE s
  <2>1. /\ Len(owes'[n]) = Len(owes[n]) + 1 /\ owes'[n][Len(owes[n]) + 1] = m
        /\ \A i \in 1..Len(owes[n]) : owes'[n][i] = owes[n][i]
        /\ Len(owes[n]) \in Nat
    BY <1>1, <1>2, AppendProperties
  <2>2. (\E i \in 1..Len(owes'[n]) : IsCommand(c, owes'[n][i]))
          <=> (\E i \in 1..Len(owes[n]) : IsCommand(c, owes[n][i])) \/ IsCommand(c, m)
    BY <2>1
  <2>3. Book \in ToHear(c, n) <=> \E i \in 1..Len(owes[n]) : IsCommand(c, owes[n][i])
    BY Where
  <2>4. Book \in ToHear(c, n)' <=> \E i \in 1..Len(owes'[n]) : IsCommand(c, owes'[n][i])
    BY WhereNext
  <2>5. QED
    BY <1>2, <2>2, <2>3, <2>4
<1>3. CASE ~s
  BY <1>3, Where, WhereNext
<1>4. QED
  BY <1>2, <1>3

LEMMA CountRadio ==
  ASSUME NEW all \in BOOLEAN, RingInv, KnownInv, NEW n \in Server, RadioCommand(n),
         NEW c \in 1..MaxCommands, NEW k \in Server, Account(c, k, all)
  PROVE  /\ Account(c, k, all)'
         /\ IF k = n /\ IsCommand(c, busy[n])
              THEN Carrying(c, k)
              ELSE ToHear(c, k)' = ToHear(c, k)
<1> DEFINE m == busy[n]
<1>1. /\ Mine(n, m) /\ Numbered(m) /\ (Asks(m) \/ Returns(m)) /\ m \in Message
      /\ m.cmd \in {"lc", "collect"} /\ typed[m.id].task = "radio" /\ m.to.task = "radio"
  BY RadioKind DEF RadioCommand, Mine
<1>2. PICK r : r = ReturnToSender(n, m)
  OBVIOUS
<1>3. /\ r \in Message /\ r.id = m.id /\ r.to = m.from /\ r.from.proc = n /\ r.from.task = "radio"
      /\ (Asks(m) => Tells(r)) /\ SendPipe(n, r)
  BY <1>1, <1>2, AnswerKind DEF RadioCommand
<1>4. /\ typed' = typed /\ connected' = connected /\ heard' = heard /\ merged' = merged
      /\ busy' = [busy EXCEPT ![n] = NoMessage]
      /\ done' = [done EXCEPT ![m.id][n] = @ + 1]
      /\ owes' = [owes EXCEPT ![n] = IF m.cmd = "collect" THEN Append(@, m) ELSE @]
  BY DEF RadioCommand
<1>5. /\ done'[c][k] = IF c = m.id /\ k = n THEN done[c][k] + 1 ELSE done[c][k]
      /\ owes'[n] = IF m.cmd = "collect" THEN Append(owes[n], m) ELSE owes[n]
      /\ k # n => owes'[k] = owes[k]
  <2>1. done \in [1..MaxCommands -> [Server -> Nat]] /\ owes \in [Server -> Seq(Message)]
    BY DEF RingInv, TypeOK
  <2>2. QED
    BY <1>4, <2>1
<1>6. /\ Book \in ToHear(c, n)' <=>
           Book \in ToHear(c, n) \/ (m.cmd = "collect" /\ IsCommand(c, m))
      /\ k # n => (Book \in ToHear(c, k)' <=> Book \in ToHear(c, k))
  <2>1. ASSUME NEW s \in BOOLEAN, s = (m.cmd = "collect")
        PROVE  Book \in ToHear(c, n)' <=> Book \in ToHear(c, n) \/ (s /\ IsCommand(c, m))
    BY <1>1, <1>5, <2>1, BookAppend
  <2>2. k # n => (Book \in ToHear(c, k)' <=> Book \in ToHear(c, k))
    BY <1>5, Where, WhereNext
  <2>3. QED
    BY <2>1, <2>2
<1>7. /\ ~IsAnswer(c, k, m) /\ ~IsCommand(c, r) /\ ~IsReturn(c, k, r)
      /\ (Asks(m) => ~IsReturn(c, k, m)) /\ (Returns(m) => ~IsCommand(c, m))
      /\ (Returns(m) => ~IsAnswer(c, k, r)) /\ (k # n => ~IsAnswer(c, k, r))
      /\ (c # m.id => ~IsCommand(c, m) /\ ~IsReturn(c, k, m) /\ ~IsAnswer(c, k, r))
  BY <1>1, <1>3 DEF IsAnswer, IsCommand, IsReturn, Asks, Returns
<1>8. Whole' => Whole
  BY <1>3, <1>4, WholeSend
<1>13. /\ ~(k = n /\ IsCommand(c, m)) => ToDo(c, k)' = ToDo(c, k)
       /\ ~(k = n /\ IsReturn(c, k, m)) => ToRedo(c, k)' = ToRedo(c, k)
       /\ ~IsAnswer(c, k, r) /\ (Book \in ToHear(c, k)' <=> Book \in ToHear(c, k))
            => ToHear(c, k)' = ToHear(c, k)
  <2>1. /\ ~IsCommand(c, r) /\ ~(k = n /\ IsCommand(c, busy[n])) => ToDo(c, k)' = ToDo(c, k)
        /\ ~IsReturn(c, k, r) /\ ~(k = n /\ IsReturn(c, k, busy[n]))
              => ToRedo(c, k)' = ToRedo(c, k)
        /\ /\ ~IsAnswer(c, k, r) /\ ~(n = 0 /\ IsAnswer(c, k, busy[n]))
           /\ Book \in ToHear(c, k)' <=> Book \in ToHear(c, k)
           => ToHear(c, k)' = ToHear(c, k)
    <3>1. /\ r \in Message /\ SendPipe(n, r) /\ typed' = typed /\ merged' = merged
          /\ busy' = [busy EXCEPT ![n] = NoMessage]
      BY <1>3, <1>4
    <3>2. QED
      BY ONLY RingInv, n \in Server, <3>1, c \in 1..MaxCommands, k \in Server, SentAndCleared
  <2>2. QED
    BY <1>7, <2>1
<1>9. CASE Asks(m) /\ c = m.id /\ k = n
  <2>1. IsCommand(c, m) /\ For(typed[c], n)
    BY <1>1, <1>9 DEF IsCommand, For, Asks, Numbered, Mine
  <2>2. ToHear(c, n) = {}
    BY <1>9, <2>1, NothingYet, Where
  <2>3. Answers(typed[c]) = 2 <=> m.cmd = "collect"
    BY <1>1, <1>9 DEF Answers, Numbered
  <2>4. Book \in ToHear(c, n)' <=> Answers(typed[c]) = 2
    BY <1>6, <2>1, <2>2, <2>3
  <2>5. done'[c][n] = done[c][n] + 1 /\ heard'[c][n] = heard[c][n]
    BY <1>4, <1>5, <1>9
  <2>6. Account(c, n, all)' /\ Carrying(c, n)
    BY <1>1, <1>3, <1>4, <1>9, <2>4, <2>5, CarriedOut
  <2>7. QED
    BY <1>9, <2>1, <2>6
<1>10. CASE Returns(m) /\ c = m.id /\ k = n
  <2>1. Hand \in ToRedo(c, k)
    <3>1. IsReturn(c, n, m)
      <4>1. m.to.proc = n
        BY <1>1, <1>10, NServerAssumption DEF Mine, Returns, Broadcast, Server
      <4>2. QED
        BY <1>10, <4>1 DEF IsReturn, Returns
    <3>2. QED
      BY <1>10, <3>1, Where
  <2>2. ToDo(c, k)' = ToDo(c, k) /\ ToHear(c, k)' = ToHear(c, k)
    BY <1>6, <1>7, <1>10, <1>13
  <2>3. \A p \in Server : p \in ToRedo(c, k)' <=> p \in ToRedo(c, k)
    BY <1>3, <1>4, <1>7, SendPlaces
  <2>4. Hand \notin ToRedo(c, k)'
    BY <1>4, <1>10, HandCleared
  <2>5. ToRedo(c, k)' = ToRedo(c, k) \ {Hand}
    BY <2>3, <2>4, PlaceType, Where, WhereNext
  <2>6. Cardinality(ToRedo(c, k)') = Cardinality(ToRedo(c, k)) - 1
    BY <2>1, <2>5, Where, WhereNext, PlaceCount, PlaceType
  <2>7. ~connected'
    BY <1>4, <1>10 DEF Returns
  <2>8. QED
    BY <1>4, <1>5, <1>7, <1>10, <2>2, <2>6, <2>7, Numbers, Repeated
<1>11. CASE ~(c = m.id /\ k = n)
  <2>1. ToDo(c, k)' = ToDo(c, k) /\ ToHear(c, k)' = ToHear(c, k) /\ ToRedo(c, k)' = ToRedo(c, k)
    <3>1. CASE c # m.id
      BY <1>6, <1>7, <1>13, <3>1
    <3>2. CASE k # n
      BY <1>6, <1>7, <1>13, <3>2
    <3>3. QED
      BY <1>11, <3>1, <3>2
  <2>2. done'[c][k] = done[c][k] /\ heard'[c][k] = heard[c][k] /\ typed'[c] = typed[c]
    BY <1>4, <1>5, <1>11
  <2>3. QED
    BY <1>4, <1>7, <1>8, <1>11, <2>1, <2>2, KeptSets
<1>12. QED
  BY <1>1, <1>9, <1>10, <1>11

LEMMA BookTail ==
  ASSUME RingInv, NEW n \in Server, owes[n] # <<>>, owes'[n] = Tail(owes[n]), NEW c
  PROVE  /\ ~IsCommand(c, Head(owes[n])) =>
              (Book \in ToHear(c, n)' <=> Book \in ToHear(c, n))
         /\ ListedOnce /\ IsCommand(c, Head(owes[n])) =>
              Book \in ToHear(c, n) /\ Book \notin ToHear(c, n)'
<1>1. owes[n] \in Seq(Message)
  BY DEF RingInv, TypeOK
<1>2. /\ Len(owes[n]) \in Nat /\ Len(owes[n]) >= 1 /\ Head(owes[n]) = owes[n][1]
      /\ Len(owes'[n]) = Len(owes[n]) - 1
      /\ \A i \in 1..Len(owes'[n]) : owes'[n][i] = owes[n][i + 1]
  BY <1>1, HeadTailProperties, EmptySeq
<1>3. Book \in ToHear(c, n) <=> \E i \in 1..Len(owes[n]) : IsCommand(c, owes[n][i])
  BY Where
<1>4. Book \in ToHear(c, n)' <=> \E i \in 1..Len(owes'[n]) : IsCommand(c, owes'[n][i])
  BY WhereNext
<1>5. ASSUME ~IsCommand(c, Head(owes[n]))
      PROVE  Book \in ToHear(c, n)' <=> Book \in ToHear(c, n)
  <2>1. (\E i \in 1..Len(owes[n]) : IsCommand(c, owes[n][i])) =>
          \E i \in 1..Len(owes'[n]) : IsCommand(c, owes'[n][i])
    <3> SUFFICES ASSUME NEW i \in 1..Len(owes[n]), IsCommand(c, owes[n][i])
                 PROVE  \E j \in 1..Len(owes'[n]) : IsCommand(c, owes'[n][j])
      OBVIOUS
    <3>1. i # 1
      BY <1>2, <1>5
    <3>2. i - 1 \in 1..Len(owes'[n]) /\ owes'[n][i - 1] = owes[n][i]
      BY <1>2, <3>1
    <3>3. QED
      BY <3>2
  <2>2. (\E i \in 1..Len(owes'[n]) : IsCommand(c, owes'[n][i])) =>
          \E i \in 1..Len(owes[n]) : IsCommand(c, owes[n][i])
    <3> SUFFICES ASSUME NEW i \in 1..Len(owes'[n]), IsCommand(c, owes'[n][i])
                 PROVE  \E j \in 1..Len(owes[n]) : IsCommand(c, owes[n][j])
      OBVIOUS
    <3>1. i + 1 \in 1..Len(owes[n]) /\ owes'[n][i] = owes[n][i + 1]
      BY <1>2
    <3>2. QED
      BY <3>1
  <2>3. QED
    BY <1>3, <1>4, <2>1, <2>2
<1>6. ASSUME ListedOnce, IsCommand(c, Head(owes[n]))
      PROVE  Book \in ToHear(c, n) /\ Book \notin ToHear(c, n)'
  <2>1. 1 \in 1..Len(owes[n]) /\ IsCommand(c, owes[n][1])
    BY <1>2, <1>6
  <2>2. ASSUME NEW i \in 1..Len(owes'[n]) PROVE ~IsCommand(c, owes'[n][i])
    <3>1. i + 1 \in 1..Len(owes[n]) /\ i + 1 # 1 /\ owes'[n][i] = owes[n][i + 1]
      BY <1>2
    <3>2. ~IsCommand(c, owes[n][i + 1])
      <4>1. IsCommand(owes[n][1].id, owes[n][i + 1]) /\ owes[n][1].from.task = "shell"
              => i + 1 = 1
        BY <1>6, <2>1, <3>1 DEF ListedOnce
      <4>2. QED
        BY <2>1, <3>1, <4>1 DEF IsCommand
    <3>3. QED
      BY <3>1, <3>2
  <2>3. QED
    BY <1>3, <1>4, <2>1, <2>2
<1>7. QED
  BY <1>5, <1>6

LEMMA CountNotify ==
  ASSUME NEW all \in BOOLEAN, RingInv, KnownInv, ListedOnce, NEW n \in Server, Notify(n),
         NEW c \in 1..MaxCommands, NEW k \in Server, Account(c, k, all)
  PROVE  /\ Account(c, k, all)'
         /\ Cardinality(ToHear(c, k)') <= Cardinality(ToHear(c, k))
<1>1. PICK m : m = Head(owes[n])
  OBVIOUS
<1>2. /\ owes[n] # <<>> /\ Mine(n, m) /\ Numbered(m) /\ (Asks(m) \/ Returns(m))
      /\ m.cmd = "collect" /\ m.to.task = "radio" /\ typed[m.id].task = "radio"
  BY <1>1, NotifyKind DEF Reported
<1>3. PICK r : r = ReturnToSender(n, m)
  OBVIOUS
<1>4. /\ r \in Message /\ r.id = m.id /\ r.to = m.from /\ r.from.proc = n /\ r.from.task = "radio"
  BY <1>2, <1>3, AnswerKind
<1>5. SendPipe(n, r) /\ merged' = merged /\ typed'[c] = typed[c]
  BY <1>1, <1>3 DEF Notify
<1>6. /\ typed' = typed /\ connected' = connected /\ done' = done /\ heard' = heard
      /\ owes'[n] = Tail(owes[n]) /\ (k # n => owes'[k] = owes[k])
      /\ \A p \in Server : p # n => busy'[p] = busy[p]
      /\ busy[n] \in {NoMessage, Notifying} /\ busy'[n] \in {NoMessage, Notifying}
      /\ 0 \in Server
  BY SuccPlace DEF Notify, RingInv, TypeOK
<1>7. /\ ~IsCommand(c, r) /\ ~IsReturn(c, k, r)
      /\ IsAnswer(c, k, r) <=> Asks(m) /\ c = m.id /\ k = n
      /\ IsCommand(c, m) <=> Asks(m) /\ c = m.id
  BY <1>2, <1>4 DEF IsAnswer, IsCommand, IsReturn, Asks, Returns
<1>8. \A b \in {NoMessage, Notifying} : ~IsCommand(c, b) /\ ~IsAnswer(c, k, b) /\ ~IsReturn(c, k, b)
  BY DEF NoMessage, Notifying, IsCommand, IsAnswer, IsReturn
<1>9. /\ Hand \in ToDo(c, k)' <=> Hand \in ToDo(c, k)
      /\ Hand \in ToHear(c, k)' <=> Hand \in ToHear(c, k)
      /\ Hand \in ToRedo(c, k)' <=> Hand \in ToRedo(c, k)
  BY <1>6, <1>8, Where, WhereNext
<1>10. \A p \in Server :
         /\ p \in ToDo(c, k)' <=> p \in ToDo(c, k)
         /\ p \in ToRedo(c, k)' <=> p \in ToRedo(c, k)
         /\ p \in ToHear(c, k)' <=>
              \/ p \in ToHear(c, k)
              \/ p = Succ(n) /\ pipe[p] = <<>> /\ After(p, k) /\ IsAnswer(c, k, r)
  BY <1>4, <1>5, <1>7, SendPlaces
<1>11. ToDo(c, k)' = ToDo(c, k) /\ ToRedo(c, k)' = ToRedo(c, k)
  BY <1>9, <1>10, SameSets
<1>12. Whole' => Whole /\ pipe[Succ(n)] = <<>>
  BY <1>4, <1>5, WholeSend
<1>13. CASE Asks(m) /\ c = m.id /\ k = n
  <2>1. Book \in ToHear(c, k) /\ Book \notin ToHear(c, k)'
    BY <1>1, <1>2, <1>6, <1>7, <1>13, BookTail
  <2>2. \A p \in Server : p \in ToHear(c, k)' <=>
          p \in ToHear(c, k) \/ (p = Succ(n) /\ pipe[p] = <<>>)
    BY <1>7, <1>10, <1>13, SuccPlace
  <2>3. CASE pipe[Succ(n)] = <<>>
    <3>1. Succ(n) \in Server /\ Succ(n) # Book /\ Succ(n) # Hand
      BY SuccInRing, PlaceType
    <3>2. Succ(n) \notin ToHear(c, k)
      <4>1. Front(Succ(n)).id # c
        BY <2>3, <3>1, FrontType DEF NoMessage
      <4>2. QED
        BY <3>1, <4>1, Where DEF IsAnswer
    <3>3. ToHear(c, k)' = (ToHear(c, k) \ {Book}) \cup {Succ(n)}
      BY <1>9, <2>1, <2>2, <2>3, <3>1, SamePlaces, Where, WhereNext, PlaceType
    <3>4. Cardinality(ToHear(c, k)') = Cardinality(ToHear(c, k))
      BY <2>1, <3>1, <3>2, <3>3, PlaceCount, PlaceType, Where, WhereNext
    <3>5. QED
      BY <1>6, <1>11, <1>12, <3>4, Numbers, Kept
  <2>4. CASE pipe[Succ(n)] # <<>>
    <3>1. ToHear(c, k)' \subseteq ToHear(c, k)
      BY <1>9, <2>1, <2>2, <2>4, PlaceType, WhereNext
    <3>2. Cardinality(ToHear(c, k)') <= Cardinality(ToHear(c, k))
      BY <3>1, PlaceCount, Where, WhereNext
    <3>3. QED
      BY <1>6, <1>11, <1>12, <2>4, <3>2, Numbers, Kept
  <2>5. QED
    BY <2>3, <2>4
<1>14. CASE ~(Asks(m) /\ c = m.id /\ k = n)
  <2>1. Book \in ToHear(c, k)' <=> Book \in ToHear(c, k)
    <3>1. CASE k # n
      BY <1>6, <3>1, Where, WhereNext
    <3>2. CASE k = n
      BY <1>1, <1>2, <1>6, <1>7, <1>14, <3>2, BookTail
    <3>3. QED
      BY <3>1, <3>2
  <2>2. \A p \in Place : p \in ToHear(c, k)' <=> p \in ToHear(c, k)
    BY <1>7, <1>9, <1>10, <1>14, <2>1, PlaceType
  <2>3. ToHear(c, k)' = ToHear(c, k)
    BY <2>2, SameSets
  <2>4. Account(c, k, all)'
    BY <1>6, <1>11, <1>12, <2>3, KeptSets
  <2>5. QED
    BY <2>3, <2>4, Numbers
<1>15. QED
  BY <1>13, <1>14

LEMMA CountLt ==
  ASSUME NEW all \in BOOLEAN, RingInv, KnownInv, NEW n \in Server, ServerCommand(n), busy[n].cmd = "lt",
         NEW c \in 1..MaxCommands, NEW k \in Server, Account(c, k, all)
  PROVE  /\ Account(c, k, all)'
         /\ IF k = n /\ IsCommand(c, busy[n])
              THEN Carrying(c, k)
              ELSE ToHear(c, k)' = ToHear(c, k)
<1>1. PICK m : m = busy[n]
  OBVIOUS
<1>2. PICK r : r = ReturnToSender(n, m)
  OBVIOUS
<1>3. /\ Mine(n, m) /\ m \in Message /\ Numbered(m) /\ Asks(m) /\ m.cmd = "lt"
      /\ m.to.task = "server" /\ m.to.task = typed[m.id].task
  BY <1>1, ServerKind DEF Mine, ServerCommand
<1>4. /\ r \in Message /\ r.id = m.id /\ r.to = m.from /\ r.from.proc = n
      /\ r.from.task = "server" /\ Tells(r)
  BY <1>2, <1>3, AnswerKind
<1>5. /\ SendPipe(n, r) /\ typed' = typed /\ connected' = connected /\ heard' = heard
      /\ merged' = merged /\ owes' = owes /\ busy' = [busy EXCEPT ![n] = NoMessage]
      /\ done' = [done EXCEPT ![m.id][n] = @ + 1]
  BY <1>1, <1>2 DEF ServerCommand
<1>6. done'[c][k] = IF c = m.id /\ k = n THEN done[c][k] + 1 ELSE done[c][k]
  <2>1. done \in [1..MaxCommands -> [Server -> Nat]]
    BY DEF RingInv, TypeOK
  <2>2. QED
    BY <1>5, <2>1
<1>7. /\ ~IsAnswer(c, k, m) /\ ~IsReturn(c, k, m) /\ ~IsCommand(c, r) /\ ~IsReturn(c, k, r)
      /\ IsCommand(c, m) <=> c = m.id
      /\ IsAnswer(c, k, r) <=> c = m.id /\ k = n
  BY <1>3, <1>4 DEF IsAnswer, IsCommand, IsReturn, Asks
<1>8. Book \in ToHear(c, k)' <=> Book \in ToHear(c, k)
  BY <1>5, Where, WhereNext
<1>9. CASE c = m.id /\ k = n
  <2>1. Hand \in ToDo(c, n)
    BY <1>1, <1>3, <1>7, <1>9, Where DEF For, Asks, Numbered, Mine
  <2>2. ToHear(c, n) = {}
    BY <1>9, <2>1, NothingYet
  <2>3. Answers(typed[c]) = 1
    BY <1>3, <1>9 DEF Answers, Numbered
  <2>4. Book \in ToHear(c, n)' <=> Answers(typed[c]) = 2
    BY <1>8, <1>9, <2>2, <2>3
  <2>5. done'[c][n] = done[c][n] + 1 /\ heard'[c][n] = heard[c][n]
    BY <1>5, <1>6, <1>9
  <2>6. Account(c, n, all)' /\ Carrying(c, n)
    BY <1>1, <1>3, <1>4, <1>5, <1>9, <2>4, <2>5, CarriedOut
  <2>7. QED
    BY <1>1, <1>7, <1>9, <2>6
<1>10. CASE ~(c = m.id /\ k = n)
  <2>1. /\ Whole' => Whole
        /\ ToDo(c, k)' = ToDo(c, k) /\ ToHear(c, k)' = ToHear(c, k)
        /\ ToRedo(c, k)' = ToRedo(c, k)
    BY <1>1, <1>4, <1>5, <1>7, <1>8, <1>10, SentAndCleared
  <2>2. done'[c][k] = done[c][k] /\ heard'[c][k] = heard[c][k] /\ typed'[c] = typed[c]
    BY <1>5, <1>6, <1>10
  <2>3. Account(c, k, all)'
    BY <1>5, <2>1, <2>2, KeptSets
  <2>4. QED
    BY <1>1, <1>7, <1>10, <2>1, <2>3
<1>11. QED
  BY <1>9, <1>10

LEMMA CountBounce ==
  ASSUME NEW all \in BOOLEAN, RingInv, KnownInv, NoEcho, NEW n \in Server, Bounce(n),
         NEW c \in 1..MaxCommands, NEW k \in Server, Account(c, k, all)
  PROVE  /\ Account(c, k, all)'
         /\ Cardinality(ToHear(c, k)')
              + (IF IsAnswer(c, k, busy[n]) THEN 1 ELSE 0) <= Cardinality(ToHear(c, k))
<1>1. PICK m : m = busy[n]
  OBVIOUS
<1>2. PICK r : r = TaskNotFound(n, m)
  OBVIOUS
<1>3. Mine(n, m) /\ m \in Message
  BY <1>1, BounceKind DEF Mine
<1>4. /\ r \in Message /\ r.id = m.id /\ r.to = m.from /\ r.from.proc = n
      /\ r.from.task = "server"
  BY <1>2, <1>3, AnswerFields
<1>5. /\ SendPipe(n, r) /\ typed' = typed /\ connected' = connected /\ heard' = heard
      /\ done' = done /\ merged' = merged /\ owes' = owes
      /\ busy' = [busy EXCEPT ![n] = NoMessage]
  BY <1>1, <1>2 DEF Bounce
<1>6. Book \in ToHear(c, k)' <=> Book \in ToHear(c, k)
  BY <1>5, Where, WhereNext
<1>7. CASE Empty(m)
  <2>1. /\ ~IsAnswer(c, k, m) /\ ~IsReturn(c, k, m) /\ ~IsCommand(c, m)
        /\ ~IsAnswer(c, k, r) /\ ~IsReturn(c, k, r) /\ ~IsCommand(c, r)
    BY <1>4, <1>7 DEF Empty, IsAnswer, IsCommand, IsReturn
  <2>2. /\ Whole' => Whole
        /\ ToDo(c, k)' = ToDo(c, k) /\ ToHear(c, k)' = ToHear(c, k)
        /\ ToRedo(c, k)' = ToRedo(c, k)
    <3>1. /\ r \in Message /\ SendPipe(n, r) /\ typed' = typed /\ merged' = merged
          /\ busy' = [busy EXCEPT ![n] = NoMessage]
      BY <1>4, <1>5
    <3>2. /\ ~IsCommand(c, busy[n]) /\ ~IsAnswer(c, k, busy[n]) /\ ~IsReturn(c, k, busy[n])
      BY <1>1, <2>1
    <3>3. QED
      BY ONLY RingInv, n \in Server, <1>6, <2>1, <3>1, <3>2, c \in 1..MaxCommands,
              k \in Server, SentAndCleared
  <2>3. Account(c, k, all)'
    BY <1>5, <2>2, KeptSets
  <2>4. QED
    BY <1>1, <2>1, <2>2, <2>3, Numbers
<1>8. CASE /\ Numbered(m) /\ Tells(m) /\ n = 0 /\ ~connected /\ m.from.task = "radio"
  <2>1. /\ ~IsReturn(c, k, m) /\ ~IsCommand(c, m) /\ ~IsAnswer(c, k, r) /\ ~IsCommand(c, r)
        /\ IsAnswer(c, k, m) <=> c = m.id /\ k = m.from.proc
        /\ IsReturn(c, k, r) <=> c = m.id /\ k = m.from.proc
    BY <1>4, <1>8 DEF Tells, IsAnswer, IsCommand, IsReturn
  <2>2. ToDo(c, k)' = ToDo(c, k) /\ (Whole' => Whole)
    BY <1>1, <1>4, <1>5, <2>1, SentAndCleared
  <2>3. CASE c = m.id /\ k = m.from.proc
    <3>1. Hand \in ToHear(c, k)
      BY <1>1, <1>8, <2>1, <2>3, Where
    <3>2. \A p \in Server :
            /\ p \in ToHear(c, k)' <=> p \in ToHear(c, k)
            /\ p \in ToRedo(c, k)' => p \in ToRedo(c, k) \/ p = Succ(n)
      BY <1>4, <1>5, <2>1, SendPlaces
    <3>3. Hand \notin ToHear(c, k)' /\ (Hand \in ToRedo(c, k)' => Hand \in ToRedo(c, k))
      BY <1>5, <1>8, HandCleared
    <3>4. ToHear(c, k)' \subseteq ToHear(c, k) \ {Hand}
      BY <1>6, <3>2, <3>3, PlaceType, Where, WhereNext
    <3>5. ToRedo(c, k)' \subseteq ToRedo(c, k) \cup {Succ(n)}
      BY <3>2, <3>3, PlaceType, Where, WhereNext
    <3>6. Cardinality(ToHear(c, k)') + 1 <= Cardinality(ToHear(c, k))
      BY <3>1, <3>4, PlaceCount, PlaceType, Where, WhereNext
    <3>7. Cardinality(ToRedo(c, k)') <= Cardinality(ToRedo(c, k)) + 1
      BY <3>5, PlaceCount, PlaceType, SuccInRing, Where, WhereNext
    <3>8. Account(c, k, all)'
      <4>1. /\ typed'[c] = typed[c] /\ ~connected'
            /\ done'[c][k] = done[c][k] /\ heard'[c][k] = heard[c][k]
        BY <1>5, <1>8
      <4>2. Cardinality(ToDo(c, k)') <= Cardinality(ToDo(c, k))
        BY <2>2, Numbers
      <4>3. QED
        BY <3>6, <3>7, <4>1, <4>2, SentBack
    <3>9. QED
      BY <1>1, <2>1, <2>3, <3>6, <3>8
  <2>4. CASE ~(c = m.id /\ k = m.from.proc)
    <3>1. ToHear(c, k)' = ToHear(c, k) /\ ToRedo(c, k)' = ToRedo(c, k)
      BY <1>1, <1>4, <1>5, <1>6, <2>1, <2>4, SentAndCleared
    <3>2. Account(c, k, all)'
      BY <1>5, <2>2, <3>1, KeptSets
    <3>3. QED
      BY <1>1, <2>1, <2>4, <3>1, <3>2, Numbers
  <2>5. QED
    BY <2>3, <2>4
<1>9. QED
  BY <1>1, <1>7, <1>8, BounceKind

-----------------------------------------------------------------------------
(* Commands typed.                                                         *)

TypedInv ==
  /\ Len(typed) <= MaxCommands
  /\ \A c \in 1..MaxCommands, n \in Server :
       c > Len(typed) => done[c][n] = 0 /\ heard[c][n] = 0

LEMMA CountTyped ==
  ASSUME NEW all \in BOOLEAN, RingInv, KnownInv, TypedInv, NEW a \in Commands, Type(a),
         NEW c \in 1..Len(typed), NEW k \in Server, Account(c, k, all)
  PROVE  Account(c, k, all)' /\ ToHear(c, k)' = ToHear(c, k)
<1>1. PICK s : s = Sent(a)
  OBVIOUS
<1>2. /\ s \in Message /\ SendPipe(0, s) /\ s.id = Len(typed) + 1 /\ Len(typed) \in Nat
      /\ typed'[c] = typed[c] /\ 0 \in Server
  BY <1>1, SentType
<1>3. c \in 1..MaxCommands
  BY <1>2, MaxCommandsAssumption DEF TypedInv
<1>4. /\ connected' = connected /\ heard' = heard /\ done' = done /\ merged' = merged
      /\ owes' = owes /\ busy' = busy
  BY DEF Type
<1>5. ~IsAnswer(c, k, s) /\ ~IsReturn(c, k, s) /\ ~IsCommand(c, s)
  BY <1>2 DEF IsAnswer, IsCommand, IsReturn
<1>6. \A p \in Server : /\ p \in ToDo(c, k)' <=> p \in ToDo(c, k)
                        /\ p \in ToHear(c, k)' <=> p \in ToHear(c, k)
                        /\ p \in ToRedo(c, k)' <=> p \in ToRedo(c, k)
  BY <1>2, <1>3, <1>5, SendPlaces
<1>7. /\ Hand \in ToDo(c, k)' <=> Hand \in ToDo(c, k)
      /\ Hand \in ToHear(c, k)' <=> Hand \in ToHear(c, k)
      /\ Hand \in ToRedo(c, k)' <=> Hand \in ToRedo(c, k)
      /\ Book \in ToHear(c, k)' <=> Book \in ToHear(c, k)
  BY <1>2, <1>4, Where, WhereNext
<1>8. ToDo(c, k)' = ToDo(c, k) /\ ToHear(c, k)' = ToHear(c, k) /\ ToRedo(c, k)' = ToRedo(c, k)
  BY <1>6, <1>7, PlaceType, SameSets
<1>9. Whole' => Whole
  BY <1>2, <1>4, WholeSend
<1>10. QED
  BY <1>2, <1>3, <1>4, <1>8, <1>9, KeptSets

LEMMA CountNew ==
  ASSUME NEW all \in BOOLEAN, RingInv, KnownInv, TypedInv, NEW a \in Commands, Type(a), NEW k \in Server,
         NEW c \in 1..MaxCommands, c = Len(typed) + 1
  PROVE  Account(c, k, all)' /\ ToHear(c, k)' = {}
<1>1. PICK s : s = Sent(a)
  OBVIOUS
<1>2. /\ s \in Message /\ SendPipe(0, s) /\ s.id = c /\ s.cmd = a.cmd
      /\ typed'[c] = a /\ Len(typed) \in Nat /\ 0 \in Server
      /\ s.from.task = IF a.cmd = "none" THEN "none" ELSE "shell"
      /\ s.to.task = a.task
  BY <1>1, SentType
<1>3. /\ heard' = heard /\ done' = done /\ merged' = merged /\ owes' = owes /\ busy' = busy
  BY DEF Type
<1>4. ASSUME NEW m, Known(m)
      PROVE  ~IsCommand(c, m) /\ ~IsAnswer(c, k, m) /\ ~IsReturn(c, k, m)
  <2>1. CASE Empty(m)
    BY <2>1 DEF Empty, IsCommand, IsAnswer, IsReturn
  <2>2. CASE Numbered(m)
    <3>1. m.id # c
      BY <1>2, <2>2 DEF Numbered
    <3>2. QED
      BY <3>1 DEF IsCommand, IsAnswer, IsReturn
  <2>3. QED
    BY <1>4, <2>1, <2>2 DEF Known
<1>5. ASSUME NEW m \in Message \cup {NoMessage, Notifying}, m \in Message => Known(m)
      PROVE  ~IsCommand(c, m) /\ ~IsAnswer(c, k, m) /\ ~IsReturn(c, k, m)
  <2>1. CASE m \in Message
    BY <1>4, <1>5, <2>1
  <2>2. CASE m \in {NoMessage, Notifying}
    BY <2>2 DEF NoMessage, Notifying, IsCommand, IsAnswer, IsReturn
  <2>3. QED
    BY <2>1, <2>2
<1>6. \A p \in Server : ~IsCommand(c, busy[p]) /\ ~IsAnswer(c, k, busy[p]) /\ ~IsReturn(c, k, busy[p])
  BY <1>5 DEF KnownInv, RingInv, TypeOK
<1>7. \A p \in Server :
        /\ ~IsCommand(c, Front(p)) /\ ~IsAnswer(c, k, Front(p)) /\ ~IsReturn(c, k, Front(p))
        /\ Front(p)' = IF p = Succ(0) /\ pipe[p] = <<>> THEN s ELSE Front(p)
  BY <1>2, <1>5, FrontType, SendFront DEF KnownInv
<1>8. \A i \in 1..Len(owes[k]) : ~IsCommand(c, owes[k][i])
  <2>1. \A i \in 1..Len(owes[k]) : Known(owes[k][i])
    BY DEF KnownInv, Reported, Known
  <2>2. QED
    BY <1>4, <2>1
<1>9. ~IsAnswer(c, k, s) /\ ~IsReturn(c, k, s)
  BY <1>2, CommandKinds DEF IsAnswer, IsReturn
<1>10. ToHear(c, k)' = {} /\ ToRedo(c, k)' = {}
  <2>1. \A p \in Place : p \notin ToHear(c, k)' /\ p \notin ToRedo(c, k)'
    BY <1>2, <1>3, <1>6, <1>7, <1>8, <1>9, PlaceType, WhereNext
  <2>2. QED
    BY <2>1, WhereNext
<1>11. \A p \in Place : p \in ToDo(c, k)' <=>
          p = Succ(0) /\ pipe[Succ(0)] = <<>> /\ For(a, k) /\ IsCommand(c, s)
  BY <1>2, <1>3, <1>6, <1>7, PlaceType, SuccPlace, WhereNext
<1>12. For(a, k) => IsCommand(c, s)
  BY <1>2 DEF For, IsCommand
<1>13. Succ(0) \in Place
  BY <1>2, SuccInRing, PlaceType
<1>14. Cardinality(ToDo(c, k)') =
          IF pipe[Succ(0)] = <<>> /\ For(a, k) THEN 1 ELSE 0
  <2>1. Cardinality({}) = 0 /\ {} \in SUBSET Place /\ {Succ(0)} \in SUBSET Place
    BY <1>13, PlaceCount
  <2>2. Cardinality({Succ(0)}) = 1
    <3>1. {Succ(0)} = {} \cup {Succ(0)} /\ Succ(0) \notin {}
      OBVIOUS
    <3>2. QED
      BY <1>13, <2>1, <3>1, PlaceCount
  <2>3. ToDo(c, k)' = IF pipe[Succ(0)] = <<>> /\ For(a, k) THEN {Succ(0)} ELSE {}
    <3>1. ToDo(c, k)' \subseteq Place
      BY WhereNext
    <3>2. CASE pipe[Succ(0)] = <<>> /\ For(a, k)
      BY <1>11, <1>12, <1>13, <3>1, <3>2
    <3>3. CASE ~(pipe[Succ(0)] = <<>> /\ For(a, k))
      BY <1>11, <3>1, <3>3
    <3>4. QED
      BY <3>2, <3>3
  <2>4. QED
    BY <2>1, <2>2, <2>3
<1>15. Cardinality(ToHear(c, k)') = 0 /\ Cardinality(ToRedo(c, k)') = 0
  BY <1>10, PlaceCount, WhereNext
<1>16. done'[c][k] = 0 /\ heard'[c][k] = 0
  BY <1>2, <1>3 DEF TypedInv
<1>17. Answers(typed[c])' = Answers(a) /\ Answers(a) \in {1, 2}
       /\ One(c, k)' = IF For(a, k) THEN 1 ELSE 0
  BY <1>2 DEF One, Answers
<1>18. Whole' => pipe[Succ(0)] = <<>>
  BY <1>2, <1>3, WholeSend
<1>19. InBounds(c, k)'
  BY <1>14, <1>15, <1>16, <1>17 DEF InBounds
<1>20. Whole' => AllThere(c, k)'
  BY <1>14, <1>15, <1>16, <1>17, <1>18 DEF AllThere
<1>21. Account(c, k, all)'
  BY <1>19, <1>20 DEF Account, Due
<1>22. QED
  BY <1>10, <1>21

\* A command that is put on a list was not there.
LEMMA ListedAppend ==
  ASSUME RingInv, ListedOnce, NEW n \in Server, NEW m \in Message,
         owes' = [owes EXCEPT ![n] = Append(owes[n], m)],
         IsCommand(m.id, m) => Book \notin ToHear(m.id, n)
  PROVE  ListedOnce'
<1>1. owes \in [Server -> Seq(Message)]
  BY DEF RingInv, TypeOK
<1>2. /\ owes'[n] = Append(owes[n], m)
      /\ Len(owes[n]) \in Nat /\ Len(owes'[n]) = Len(owes[n]) + 1
      /\ owes'[n][Len(owes[n]) + 1] = m
      /\ \A i \in 1..Len(owes[n]) : owes'[n][i] = owes[n][i]
  BY <1>1, AppendProperties
<1>3. ASSUME IsCommand(m.id, m), NEW i \in 1..Len(owes[n]) PROVE ~IsCommand(m.id, owes[n][i])
  BY <1>3, Where
<1>4. ASSUME NEW i \in 1..Len(owes'[n]), NEW j \in 1..Len(owes'[n]),
             IsCommand(owes'[n][j].id, owes'[n][i]), owes'[n][j].from.task = "shell"
      PROVE  i = j
  <2>1. CASE i \in 1..Len(owes[n]) /\ j \in 1..Len(owes[n])
    BY <1>2, <1>4, <2>1 DEF ListedOnce
  <2>2. CASE i \in 1..Len(owes[n]) /\ j = Len(owes[n]) + 1
    <3>1. IsCommand(m.id, owes[n][i]) /\ m.from.task = "shell"
      BY <1>2, <1>4, <2>2
    <3>2. QED
      BY <1>3, <2>2, <3>1 DEF IsCommand
  <2>3. CASE i = Len(owes[n]) + 1 /\ j \in 1..Len(owes[n])
    <3>1. IsCommand(owes[n][j].id, m) /\ owes[n][j].from.task = "shell"
      BY <1>2, <1>4, <2>3
    <3>2. QED
      BY <1>3, <2>3, <3>1 DEF IsCommand
  <2>4. QED
    BY <1>2, <1>4, <2>1, <2>2, <2>3
<1>5. \A k \in Server : k # n => owes'[k] = owes[k]
  BY <1>1
<1>6. QED
  BY <1>4, <1>5 DEF ListedOnce

LEMMA ListedRadio ==
  ASSUME NEW all \in BOOLEAN, RingInv, KnownInv, TypedInv, CountInv(all), ListedOnce,
         NEW n \in Server, RadioCommand(n)
  PROVE  ListedOnce'
<1>1. PICK m : m = busy[n]
  OBVIOUS
<1>2. Mine(n, m) /\ Numbered(m) /\ (Asks(m) \/ Returns(m)) /\ m \in Message
  BY <1>1, RadioKind DEF Mine
<1>3. owes' = [owes EXCEPT ![n] = IF m.cmd = "collect" THEN Append(@, m) ELSE @]
  BY <1>1 DEF RadioCommand
<1>4. IsCommand(m.id, m) => Book \notin ToHear(m.id, n)
  <2> SUFFICES ASSUME IsCommand(m.id, m) PROVE Book \notin ToHear(m.id, n)
    OBVIOUS
  <2>1. Asks(m)
    BY <1>2 DEF IsCommand, Returns
  <2>2. Hand \in ToDo(m.id, n)
    BY <1>1, <1>2, <2>1, Where DEF For, Asks, Numbered, Mine
  <2>3. m.id \in 1..Len(typed) /\ m.id \in 1..MaxCommands
    BY <1>2, MaxCommandsAssumption DEF Numbered, TypedInv, RingInv, TypeOK
  <2>4. Account(m.id, n, all)
    BY <2>3 DEF CountInv
  <2>5. QED
    BY <2>2, <2>3, <2>4, NothingYet
<1>5. CASE m.cmd = "collect"
  BY <1>2, <1>3, <1>4, <1>5, ListedAppend
<1>6. CASE m.cmd # "collect"
  <2>1. owes' = owes
    BY <1>3, <1>6 DEF RingInv, TypeOK
  <2>2. QED
    BY <2>1 DEF ListedOnce
<1>7. QED
  BY <1>5, <1>6

LEMMA ListedNotify ==
  ASSUME RingInv, ListedOnce, NEW n \in Server, Notify(n)
  PROVE  ListedOnce'
<1>1. owes \in [Server -> Seq(Message)] /\ owes[n] # <<>>
  BY DEF Notify, RingInv, TypeOK
<1>2. owes' = [owes EXCEPT ![n] = Tail(owes[n])]
  BY DEF Notify
<1>3. /\ Len(owes[n]) \in Nat /\ Len(owes'[n]) = Len(owes[n]) - 1
      /\ \A i \in 1..Len(owes'[n]) : owes'[n][i] = owes[n][i + 1]
  BY <1>1, <1>2, HeadTailProperties, EmptySeq
<1>4. ASSUME NEW i \in 1..Len(owes'[n]), NEW j \in 1..Len(owes'[n]),
             IsCommand(owes'[n][j].id, owes'[n][i]), owes'[n][j].from.task = "shell"
      PROVE  i = j
  <2>1. owes'[n][i] = owes[n][i + 1] /\ owes'[n][j] = owes[n][j + 1]
    BY <1>3
  <2>2. i + 1 \in 1..Len(owes[n]) /\ j + 1 \in 1..Len(owes[n])
    BY <1>3
  <2>3. i + 1 = j + 1
    BY <1>4, <2>1, <2>2 DEF ListedOnce
  <2>4. QED
    BY <2>3
<1>5. \A k \in Server : k # n => owes'[k] = owes[k]
  BY <1>1, <1>2
<1>6. QED
  BY <1>4, <1>5 DEF ListedOnce

-----------------------------------------------------------------------------
(* All of it.                                                              *)

AccountInv(all) == RingInv /\ KnownInv /\ TypedInv /\ ListedOnce /\ CountInv(all)

LEMMA AccountInit ==
  ASSUME NEW all \in BOOLEAN, Init
  PROVE  AccountInv(all)
<1>1. RingInv /\ KnownInv
  BY RingInvInit, KnownInit
<1>2. Len(typed) = 0 /\ \A k \in Server : Len(owes[k]) = 0
  BY DEF Init
<1>3. TypedInv
  BY <1>2, MaxCommandsAssumption DEF Init, TypedInv
<1>4. ListedOnce /\ CountInv(all)
  BY <1>2 DEF ListedOnce, CountInv
<1>5. QED
  BY <1>1, <1>3, <1>4 DEF AccountInv

\* A step of a server.
ServerAct(n) ==
  RecvPipe(n) \/ Bounce(n) \/ RadioCommand(n) \/ ServerCommand(n) \/ ShellCommand(n) \/ Notify(n)

\* What has not been typed is not counted.
LEMMA TypedServer ==
  ASSUME RingInv, KnownInv, TypedInv, NEW n \in Server, ServerAct(n)
  PROVE  TypedInv'
<1>1. typed' = typed
  BY DEF ServerAct, RecvPipe, ReadPipe, Bounce, RadioCommand, ServerCommand, ShellCommand, Notify
<1>2. ASSUME NEW c \in 1..MaxCommands, NEW k \in Server, c > Len(typed)
      PROVE  done'[c][k] = done[c][k] /\ heard'[c][k] = heard[c][k]
  <2>1. /\ done \in [1..MaxCommands -> [Server -> Nat]]
        /\ heard \in [1..MaxCommands -> [Server -> Nat]] /\ Len(typed) \in Nat
    BY DEF RingInv, TypeOK
  <2>2. Numbered(busy[n]) => busy[n].id # c
    BY <1>2, <2>1 DEF Numbered
  <2>3. CASE RadioCommand(n)
    BY <2>1, <2>2, <2>3, RadioKind DEF RadioCommand
  <2>4. CASE ServerCommand(n) /\ busy[n].cmd = "lt"
    BY <2>1, <2>2, <2>4, ServerKind DEF ServerCommand
  <2>5. CASE ServerCommand(n) /\ busy[n].cmd # "lt"
    BY <2>5 DEF ServerCommand
  <2>6. CASE ShellCommand(n)
    BY <2>1, <2>2, <2>6, ShellKind DEF ShellCommand
  <2>7. CASE RecvPipe(n) \/ Bounce(n) \/ Notify(n)
    BY <2>7 DEF RecvPipe, ReadPipe, Bounce, Notify
  <2>8. QED
    BY <2>3, <2>4, <2>5, <2>6, <2>7 DEF ServerAct
<1>3. QED
  BY <1>1, <1>2 DEF TypedInv

LEMMA AccountServer ==
  ASSUME NEW all \in BOOLEAN, AccountInv(all), NoEcho, NEW n \in Server, ServerAct(n)
  PROVE  AccountInv(all)'
<1> USE DEF AccountInv
<1>1. RingInv'
  BY RecvPipeStep, BounceStep, RadioCommandStep, ServerCommandStep, ShellCommandStep,
     NotifyStep DEF ServerAct
<1>2. KnownInv'
  <2>1. CASE ShellCommand(n)
    BY <2>1, KnownDone DEF ShellCommand
  <2>2. QED
    BY <2>1, KnownRecv, KnownBounce, KnownRadio, KnownServer, KnownNotify DEF ServerAct
<1>3. typed' = typed
  BY DEF ServerAct, RecvPipe, ReadPipe, Bounce, RadioCommand, ServerCommand, ShellCommand, Notify
<1>4. CountInv(all)'
  <2> SUFFICES ASSUME NEW c \in 1..Len(typed), NEW k \in Server PROVE Account(c, k, all)'
    BY <1>3 DEF CountInv
  <2>1. Account(c, k, all) /\ c \in 1..MaxCommands
    BY MaxCommandsAssumption DEF CountInv, TypedInv, RingInv, TypeOK
  <2>2. CASE RecvPipe(n)
    BY <2>1, <2>2, CountRecv
  <2>3. CASE Bounce(n)
    BY <2>1, <2>3, CountBounce
  <2>4. CASE RadioCommand(n)
    BY <2>1, <2>4, CountRadio
  <2>5. CASE ServerCommand(n)
    BY <2>1, <2>5, CountLt, CountIgnored
  <2>6. CASE ShellCommand(n)
    BY <2>1, <2>6, CountShell
  <2>7. CASE Notify(n)
    BY <2>1, <2>7, CountNotify
  <2>8. QED
    BY <2>2, <2>3, <2>4, <2>5, <2>6, <2>7 DEF ServerAct
<1>5. ListedOnce'
  <2>1. CASE RadioCommand(n)
    BY <2>1, ListedRadio
  <2>2. CASE Notify(n)
    BY <2>2, ListedNotify
  <2>3. CASE RecvPipe(n) \/ Bounce(n) \/ ServerCommand(n) \/ ShellCommand(n)
    <3>1. owes' = owes
      BY <2>3 DEF RecvPipe, ReadPipe, Bounce, ServerCommand, ShellCommand
    <3>2. QED
      BY <3>1 DEF ListedOnce
  <2>4. QED
    BY <2>1, <2>2, <2>3 DEF ServerAct
<1>6. TypedInv'
  BY TypedServer
<1>7. QED
  BY <1>1, <1>2, <1>4, <1>5, <1>6

LEMMA AccountType ==
  ASSUME NEW all \in BOOLEAN, AccountInv(all), NEW a \in Commands, Type(a)
  PROVE  AccountInv(all)'
<1> USE DEF AccountInv
<1>1. RingInv' /\ KnownInv'
  BY TypeStep, KnownType
<1>2. /\ Len(typed)' = Len(typed) + 1 /\ Len(typed) \in Nat /\ Len(typed) + 1 <= MaxCommands
      /\ done' = done /\ heard' = heard /\ owes' = owes
  BY SentType, MaxCommandsAssumption DEF Type, TypedInv
<1>3. TypedInv'
  BY <1>2 DEF TypedInv
<1>4. ListedOnce'
  BY <1>2 DEF ListedOnce
<1>5. CountInv(all)'
  <2> SUFFICES ASSUME NEW c \in 1..Len(typed)', NEW k \in Server PROVE Account(c, k, all)'
    BY DEF CountInv
  <2>1. CASE c \in 1..Len(typed)
    BY <2>1, CountTyped DEF CountInv
  <2>2. CASE c = Len(typed) + 1
    <3>1. c \in 1..MaxCommands
      BY <1>2, <2>2, MaxCommandsAssumption
    <3>2. QED
      BY <2>2, <3>1, CountNew
  <2>3. QED
    BY <1>2, <2>1, <2>2
<1>6. QED
  BY <1>1, <1>3, <1>4, <1>5

LEMMA AccountDisconnect ==
  ASSUME NEW all \in BOOLEAN, AccountInv(all), Disconnect
  PROVE  AccountInv(all)'
<1> USE DEF AccountInv
<1>1. RingInv'
  BY DEF Disconnect, RingInv, TypeOK
<1>2. KnownInv'
  BY KnownDisconnect
<1>3. TypedInv' /\ ListedOnce' /\ typed' = typed
  BY DEF Disconnect, TypedInv, ListedOnce
<1>4. CountInv(all)'
  <2> SUFFICES ASSUME NEW c \in 1..Len(typed), NEW k \in Server PROVE Account(c, k, all)'
    BY <1>3 DEF CountInv
  <2>1. Account(c, k, all) /\ c \in 1..MaxCommands
    BY MaxCommandsAssumption DEF CountInv, TypedInv, RingInv, TypeOK
  <2>2. QED
    BY <2>1, CountDisconnect
<1>5. QED
  BY <1>1, <1>2, <1>3, <1>4

LEMMA AccountUnchanged ==
  ASSUME NEW all \in BOOLEAN, AccountInv(all), UNCHANGED vars
  PROVE  AccountInv(all)'
<1> USE DEF AccountInv
<1>1. /\ pipe' = pipe /\ busy' = busy /\ owes' = owes /\ typed' = typed
      /\ done' = done /\ heard' = heard /\ connected' = connected /\ merged' = merged
  BY DEF vars
<1>2. RingInv' /\ TypedInv' /\ ListedOnce'
  BY <1>1 DEF RingInv, TypeOK, TypedInv, ListedOnce
<1>3. \A k \in Server : Front(k)' = Front(k)
  BY <1>1 DEF Front
<1>4. KnownInv'
  BY <1>1, <1>3, KindKept DEF KnownInv
<1>5. CountInv(all)'
  <2> SUFFICES ASSUME NEW c \in 1..Len(typed), NEW k \in Server PROVE Account(c, k, all)'
    BY <1>1 DEF CountInv
  <2>1. Account(c, k, all) /\ c \in 1..MaxCommands
    BY MaxCommandsAssumption DEF CountInv, TypedInv, RingInv, TypeOK
  <2>2. /\ \A p \in Server \cup {Hand} : /\ p \in ToDo(c, k)' <=> p \in ToDo(c, k)
                                         /\ p \in ToRedo(c, k)' <=> p \in ToRedo(c, k)
        /\ \A p \in Place : p \in ToHear(c, k)' <=> p \in ToHear(c, k)
    BY <1>1, <1>3, PlaceType, Where, WhereNext
  <2>3. Whole' => Whole
    BY <1>1 DEF Whole
  <2>4. QED
    BY <1>1, <2>1, <2>2, <2>3, SameSets, KeptSets
<1>6. QED
  BY <1>2, <1>4, <1>5

\* While there is a shell no answer is taken for a command.
WhileConnected(all) == connected => AccountInv(all)

\* Without lt none ever is.
Always == AccountInv(TRUE) /\ (connected \/ Disconnects)

LEMMA AccountStep ==
  ASSUME NEW all \in BOOLEAN, AccountInv(all), NoEcho, [Next]_vars
  PROVE  AccountInv(all)'
<1>1. CASE \E c \in Commands : Type(c)
  BY <1>1, AccountType
<1>2. CASE Disconnect
  BY <1>2, AccountDisconnect
<1>3. CASE \E n \in Server : ServerStep(n) \/ Notify(n)
  BY <1>3, AccountServer DEF ServerStep, ServerAct
<1>4. CASE UNCHANGED vars
  BY <1>4, AccountUnchanged
<1>5. QED
  BY <1>1, <1>2, <1>3, <1>4 DEF Next

LEMMA ConnectedBefore ==
  ASSUME [Next]_vars
  PROVE  /\ connected' => connected
         /\ connected /\ ~connected' => Disconnects
<1>1. CASE \E c \in Commands : Type(c)
  BY <1>1 DEF Type
<1>2. CASE Disconnect
  BY <1>2 DEF Disconnect
<1>3. CASE \E n \in Server : ServerStep(n) \/ Notify(n)
  <2>1. PICK n \in Server : ServerStep(n) \/ Notify(n)
    BY <1>3
  <2>2. connected' = connected
    <3>1. CASE RecvPipe(n)
      BY <3>1 DEF RecvPipe, ReadPipe
    <3>2. CASE Bounce(n) \/ RadioCommand(n)
      BY <3>2 DEF Bounce, RadioCommand
    <3>3. CASE ServerCommand(n) \/ ShellCommand(n) \/ Notify(n)
      BY <3>3 DEF ServerCommand, ShellCommand, Notify
    <3>4. QED
      BY <2>1, <3>1, <3>2, <3>3 DEF ServerStep
  <2>3. QED
    BY <2>2
<1>4. CASE UNCHANGED vars
  BY <1>4 DEF vars
<1>5. QED
  BY <1>1, <1>2, <1>3, <1>4 DEF Next

LEMMA TypedCommand ==
  ASSUME NEW all \in BOOLEAN, AccountInv(all), NEW c \in 1..Len(typed), NEW n \in Server
  PROVE  c \in 1..MaxCommands /\ Account(c, n, all) /\ RingInv
<1>1. RingInv /\ TypedInv /\ CountInv(all)
  BY DEF AccountInv
<1>2. Len(typed) \in Nat /\ Len(typed) <= MaxCommands
  BY <1>1 DEF RingInv, TypeOK, TypedInv
<1>3. QED
  BY <1>1, <1>2, MaxCommandsAssumption DEF CountInv

\* The account bounds what is done, ...
LEMMA BoundsHold ==
  ASSUME RingInv, NEW c \in 1..MaxCommands, NEW n \in Server, InBounds(c, n)
  PROVE  /\ done[c][n] <= 1 + (IF connected THEN 0 ELSE Answers(typed[c]))
         /\ heard[c][n] <= done[c][n] * Answers(typed[c])
<1>1. heard[c][n] <= done[c][n] * Answers(typed[c])
  BY Numbers DEF InBounds
<1>2. ASSUME connected PROVE done[c][n] <= 1
  <2>1. done[c][n] + Cardinality(ToDo(c, n)) <= One(c, n)
    BY <1>2 DEF InBounds
  <2>2. QED
    BY <2>1, Numbers
<1>3. done[c][n] <= 1 + Answers(typed[c])
  BY Numbers, Weight DEF InBounds
<1>4. QED
  BY <1>1, <1>2, <1>3

LEMMA AccountBounds ==
  ASSUME NEW all \in BOOLEAN, AccountInv(all)
  PROVE  RepeatsBounded
<1> SUFFICES ASSUME NEW c \in 1..Len(typed), NEW n \in Server
             PROVE  /\ done[c][n] <= 1 + (IF connected THEN 0 ELSE Answers(typed[c]))
                    /\ heard[c][n] <= done[c][n] * Answers(typed[c])
  BY DEF RepeatsBounded
<1>1. c \in 1..MaxCommands /\ Account(c, n, all) /\ RingInv
  BY TypedCommand
<1>2. InBounds(c, n)
  BY <1>1 DEF Account
<1>3. QED
  BY <1>1, <1>2, BoundsHold

\* ... and when nothing is on its way it says what has been.
LEMMA QuietPlaces ==
  ASSUME Quiet, NEW c \in 1..MaxCommands, NEW n \in Server
  PROVE  ToDo(c, n) = {} /\ ToHear(c, n) = {}
<1>1. 0 \in Server /\ \A p \in Server : Front(p) = NoMessage /\ busy[p] = NoMessage
  BY SuccPlace DEF Quiet, Front
<1>2. ~IsCommand(c, NoMessage) /\ ~IsAnswer(c, n, NoMessage)
  BY DEF NoMessage, IsCommand, IsAnswer
<1>3. owes[n] = <<>> /\ Len(owes[n]) = 0
  BY DEF Quiet
<1>4. \A p \in Place : p \notin ToDo(c, n) /\ p \notin ToHear(c, n)
  BY <1>1, <1>2, <1>3, PlaceType, Where
<1>5. QED
  BY <1>4, Where

LEMMA QuietDelivers ==
  ASSUME NEW all \in BOOLEAN, AccountInv(all), connected, ~merged, Quiet,
         NEW c \in 1..Len(typed), NEW n \in Server, Due(c, all)
  PROVE  /\ done[c][n] = IF For(typed[c], n) THEN 1 ELSE 0
         /\ heard[c][n] = done[c][n] * Answers(typed[c])
<1>1. c \in 1..MaxCommands /\ Account(c, n, all) /\ RingInv
  BY TypedCommand
<1>2. Whole
  <2>1. \A k \in Server : pipe[k] = <<>>
    BY DEF Quiet
  <2>2. QED
    BY <2>1 DEF Whole
<1>3. Cardinality(ToDo(c, n)) = 0 /\ Cardinality(ToHear(c, n)) = 0
  BY <1>1, QuietPlaces, Where, PlaceCount
<1>4. done[c][n] = One(c, n)
  BY <1>1, <1>2, <1>3, Numbers DEF Account, InBounds, AllThere
<1>5. heard[c][n] = done[c][n] * Answers(typed[c])
  <2>1. heard[c][n] <= done[c][n] * Answers(typed[c])
    BY <1>1, <1>3, Numbers DEF Account, InBounds
  <2>2. heard[c][n] >= done[c][n] * Answers(typed[c])
    BY <1>1, <1>2, <1>3, Numbers DEF Account, AllThere
  <2>3. QED
    BY <1>1, <1>4, <2>1, <2>2, Numbers
<1>6. QED
  BY <1>4, <1>5 DEF One

\* However many servers there are, whatever is typed and however the messages are
\* read together: a server carries a command out at most once, once more for each
\* answer that comes back from a shell that is gone, and the shell hears no answer
\* twice.  An operator who can leave types no lt: two servers would take the error
\* about its answer for another lt, for ever.
THEOREM RingRepeatsBounded ==
  ASSUME Disconnects => \A c \in Commands : c.cmd # "lt"
  PROVE  Spec => []RepeatsBounded
<1>1. Init => Always
  BY AccountInit DEF Always, Init
<1>2. Always /\ [Next]_vars => Always'
  BY AccountStep, ConnectedBefore, DisconnectsAssumption DEF Always, NoEcho
<1>3. Always => RepeatsBounded
  BY AccountBounds DEF Always
<1>4. QED
  BY <1>1, <1>2, <1>3, PTL DEF Spec

LEMMA WhileConnectedStep ==
  ASSUME NEW all \in BOOLEAN, WhileConnected(all), [Next]_vars
  PROVE  WhileConnected(all)'
BY AccountStep, ConnectedBefore DEF WhileConnected, NoEcho

LEMMA WhileConnectedDelivers == WhileConnected(TRUE) => DeliveredUnlessMerged
BY QuietDelivers DEF WhileConnected, DeliveredUnlessMerged, Due

\* As long as no read has taken two messages, and the operator is there, the ring
\* delivers: once it is quiet, every command has been carried out once by each
\* server it is for, and every answer has been heard.
THEOREM RingDeliveredUnlessMerged == Spec => []DeliveredUnlessMerged
<1>1. Init => WhileConnected(TRUE)
  BY AccountInit DEF WhileConnected
<1>2. WhileConnected(TRUE) /\ [Next]_vars => WhileConnected(TRUE)'
  BY WhileConnectedStep
<1>3. QED
  BY <1>1, <1>2, WhileConnectedDelivers, PTL DEF Spec

-----------------------------------------------------------------------------
(* Counting messages: in the pipes P, and on a list L.                     *)

\* Where in P the messages of M are.
At(P, M) == {w \in UNION {{k} \X DOMAIN P[k] : k \in Server} : P[w[1]][w[2]] \in M}

\* Where on L the messages of command c are.
Listed(L, c) == {i \in 1..Len(L) : L[i].id = c}

LEMMA AtMembers ==
  ASSUME NEW P \in [Server -> Seq(Message)], NEW M
  PROVE  /\ \A w : w \in At(P, M) <=>
                     \E k \in Server : \E i \in 1..Len(P[k]) : w = <<k, i>> /\ P[k][i] \in M
         /\ IsFiniteSet(At(P, M)) /\ Cardinality(At(P, M)) \in Nat
<1> DEFINE Slots == UNION {{k} \X DOMAIN P[k] : k \in Server}
<1>1. \A k \in Server : P[k] \in Seq(Message) /\ DOMAIN P[k] = 1..Len(P[k]) /\ Len(P[k]) \in Nat
  BY LenProperties
<1>2. IsFiniteSet(Slots)
  <2>1. IsFiniteSet({{k} \X DOMAIN P[k] : k \in Server})
    <3> DEFINE f == [k \in Server |-> {k} \X DOMAIN P[k]]
               T == {{k} \X DOMAIN P[k] : k \in Server}
    <3>1. f \in Surjection(Server, T)
      BY DEF Surjection
    <3>2. IsFiniteSet(Server)
      BY NServerAssumption, FS_Interval DEF Server
    <3>3. QED
      BY <3>1, <3>2, FS_Surjection
  <2>2. ASSUME NEW k \in Server PROVE IsFiniteSet({k} \X DOMAIN P[k])
    <3>1. DOMAIN P[k] = 1..Len(P[k]) /\ Len(P[k]) \in Int
      BY <1>1
    <3>2. IsFiniteSet(1..Len(P[k]))
      BY <3>1, FS_Interval
    <3>3. IsFiniteSet({k})
      BY FS_Singleton
    <3>4. QED
      BY <3>1, <3>2, <3>3, FS_Product
  <2>3. QED
    BY <2>1, <2>2, FS_UNION
<1>3. At(P, M) \subseteq Slots
  BY DEF At
<1>4. IsFiniteSet(At(P, M))
  BY <1>2, <1>3, FS_Subset
<1>5. ASSUME NEW w
      PROVE  w \in At(P, M) <=>
               \E k \in Server : \E i \in 1..Len(P[k]) : w = <<k, i>> /\ P[k][i] \in M
  <2>1. w \in Slots <=> \E k \in Server : w \in {k} \X DOMAIN P[k]
    OBVIOUS
  <2>2. \A k \in Server : w \in {k} \X DOMAIN P[k] <=> \E i \in 1..Len(P[k]) : w = <<k, i>>
    BY <1>1
  <2>3. QED
    BY <2>1, <2>2 DEF At
<1>6. QED
  BY <1>4, <1>5, FS_CardinalityType

\* One more message in one pipe.
Grows(P, Q, n, m) ==
  /\ P \in [Server -> Seq(Message)] /\ Q \in [Server -> Seq(Message)]
  /\ Q[n] = Append(P[n], m) /\ \A k \in Server : k # n => Q[k] = P[k]

LEMMA AtAppend ==
  ASSUME NEW P, NEW Q, NEW n \in Server, NEW m \in Message, Grows(P, Q, n, m), NEW M
  PROVE  /\ m \in M => Cardinality(At(Q, M)) = Cardinality(At(P, M)) + 1
         /\ m \notin M => Cardinality(At(Q, M)) = Cardinality(At(P, M))
<1> DEFINE last == <<n, Len(P[n]) + 1>>
<1> USE DEF Grows
<1>0. /\ \A w : w \in At(P, M) <=> \E k \in Server : \E i \in 1..Len(P[k]) : w = <<k, i>> /\ P[k][i] \in M
      /\ \A w : w \in At(Q, M) <=> \E k \in Server : \E i \in 1..Len(Q[k]) : w = <<k, i>> /\ Q[k][i] \in M
  BY AtMembers
<1>1. /\ Q[n] = Append(P[n], m) /\ \A k \in Server : k # n => Q[k] = P[k]
      /\ P[n] \in Seq(Message)
  OBVIOUS
<1>2. /\ Len(P[n]) \in Nat /\ Len(Q[n]) = Len(P[n]) + 1 /\ Q[n][Len(P[n]) + 1] = m
      /\ \A i \in 1..Len(P[n]) : Q[n][i] = P[n][i]
  BY <1>1, AppendProperties, LenProperties
<1>3. last \notin At(P, M)
  <2>1. Len(P[n]) + 1 \notin 1..Len(P[n])
    BY <1>2
  <2>2. QED
    BY <1>0, <2>1
<1>4. ASSUME NEW k \in Server, NEW i
      PROVE  i \in 1..Len(Q[k]) /\ Q[k][i] \in M <=>
               \/ i \in 1..Len(P[k]) /\ P[k][i] \in M
               \/ k = n /\ i = Len(P[n]) + 1 /\ m \in M
  <2>1. CASE k = n
    <3>1. i \in 1..Len(Q[n]) <=> i \in 1..Len(P[n]) \/ i = Len(P[n]) + 1
      BY <1>2
    <3>2. QED
      BY <1>2, <2>1, <3>1
  <2>2. CASE k # n
    BY <1>1, <2>2
  <2>3. QED
    BY <2>1, <2>2
<1>5. \A w : w \in At(Q, M) <=> w \in At(P, M) \/ (w = last /\ m \in M)
  <2>1. ASSUME NEW w PROVE w \in At(Q, M) <=> w \in At(P, M) \/ (w = last /\ m \in M)
    <3>1. ASSUME w \in At(Q, M) PROVE w \in At(P, M) \/ (w = last /\ m \in M)
      <4>1. PICK k \in Server : \E i \in 1..Len(Q[k]) : w = <<k, i>> /\ Q[k][i] \in M
        BY <1>0, <3>1
      <4>2. PICK i \in 1..Len(Q[k]) : w = <<k, i>> /\ Q[k][i] \in M
        BY <4>1
      <4>3. QED
        BY <1>0, <1>4, <4>2
    <3>2. ASSUME w \in At(P, M) PROVE w \in At(Q, M)
      <4>1. PICK k \in Server : \E i \in 1..Len(P[k]) : w = <<k, i>> /\ P[k][i] \in M
        BY <1>0, <3>2
      <4>2. PICK i \in 1..Len(P[k]) : w = <<k, i>> /\ P[k][i] \in M
        BY <4>1
      <4>3. QED
        BY <1>0, <1>4, <4>2
    <3>3. ASSUME w = last, m \in M PROVE w \in At(Q, M)
      <4>1. Len(P[n]) + 1 \in 1..Len(Q[n]) /\ Q[n][Len(P[n]) + 1] \in M
        BY <1>4, <3>3
      <4>2. QED
        BY <1>0, <3>3, <4>1
    <3>4. QED
      BY <3>1, <3>2, <3>3
  <2>2. QED
    BY <2>1
<1>6. CASE m \in M
  <2>1. At(Q, M) = At(P, M) \cup {last}
    BY <1>5, <1>6
  <2>2. QED
    BY <1>3, <1>6, <2>1, AtMembers, FS_AddElement
<1>7. CASE m \notin M
  <2>1. At(Q, M) = At(P, M)
    BY <1>5, <1>7
  <2>2. QED
    BY <1>7, <2>1, AtMembers
<1>8. QED
  BY <1>6, <1>7

\* The messages of one pipe are lost; ...
LEMMA AtDropped ==
  ASSUME NEW P \in [Server -> Seq(Message)], NEW M, NEW n \in Server, P[n] # <<>>,
         NEW Q \in [Server -> Seq(Message)],
         Q[n] = <<>>, \A k \in Server : k # n => Q[k] = P[k]
  PROVE  /\ Cardinality(At(Q, M)) <= Cardinality(At(P, M))
         /\ Head(P[n]) \in M => Cardinality(At(Q, M)) + 1 <= Cardinality(At(P, M))
<1>0. /\ \A w : w \in At(P, M) <=> \E k \in Server : \E i \in 1..Len(P[k]) : w = <<k, i>> /\ P[k][i] \in M
      /\ \A w : w \in At(Q, M) <=> \E k \in Server : \E i \in 1..Len(Q[k]) : w = <<k, i>> /\ Q[k][i] \in M
  BY AtMembers
<1>1. /\ P[n] \in Seq(Message) /\ Q[n] = <<>> /\ Len(Q[n]) = 0
      /\ \A k \in Server : k # n => Q[k] = P[k]
  OBVIOUS
<1>2. 1 \in 1..Len(P[n]) /\ Head(P[n]) = P[n][1]
  BY <1>1, EmptySeq, LenProperties
<1>3. ASSUME NEW w \in At(Q, M) PROVE w \in At(P, M) /\ w # <<n, 1>>
  <2>1. PICK k \in Server : \E i \in 1..Len(Q[k]) : w = <<k, i>> /\ Q[k][i] \in M
    BY <1>0
  <2>2. PICK i \in 1..Len(Q[k]) : w = <<k, i>> /\ Q[k][i] \in M
    BY <2>1
  <2>3. k # n
    BY <1>1, <2>2
  <2>4. Q[k] = P[k]
    BY <1>1, <2>3
  <2>5. QED
    BY <1>0, <2>2, <2>3, <2>4
<1>4. Head(P[n]) \in M => <<n, 1>> \in At(P, M)
  BY <1>0, <1>2
<1>5. At(Q, M) \in SUBSET (At(P, M) \ {<<n, 1>>})
  BY <1>3
<1>6. /\ IsFiniteSet(At(P, M) \ {<<n, 1>>})
      /\ Cardinality(At(P, M) \ {<<n, 1>>}) =
           IF <<n, 1>> \in At(P, M) THEN Cardinality(At(P, M)) - 1 ELSE Cardinality(At(P, M))
  BY AtMembers, FS_RemoveElement
<1>7. Cardinality(At(Q, M)) <= Cardinality(At(P, M) \ {<<n, 1>>})
  BY <1>5, <1>6, FS_Subset
<1>8. Cardinality(At(P, M)) \in Nat /\ Cardinality(At(Q, M)) \in Nat
  BY AtMembers
<1>9. QED
  BY <1>4, <1>6, <1>7, <1>8

\* ... or put behind those of another.
LEMMA AtMoved ==
  ASSUME NEW P \in [Server -> Seq(Message)], NEW M, NEW n \in Server, NEW s \in Server, n # s,
         NEW Q \in [Server -> Seq(Message)], Q[n] = <<>>, Q[s] = P[s] \o P[n],
         \A k \in Server : k # n /\ k # s => Q[k] = P[k]
  PROVE  Cardinality(At(Q, M)) <= Cardinality(At(P, M))
<1> DEFINE L == Len(P[s])
           from(w) == IF w[1] = s /\ w[2] > L THEN <<n, w[2] - L>> ELSE w
           f == [w \in At(Q, M) |-> from(w)]
<1>0. /\ \A w : w \in At(P, M) <=> \E k \in Server : \E i \in 1..Len(P[k]) : w = <<k, i>> /\ P[k][i] \in M
      /\ \A w : w \in At(Q, M) <=> \E k \in Server : \E i \in 1..Len(Q[k]) : w = <<k, i>> /\ Q[k][i] \in M
  BY AtMembers
<1>1. /\ P[n] \in Seq(Message) /\ P[s] \in Seq(Message) /\ Q[n] = <<>> /\ Len(Q[n]) = 0
      /\ Q[s] = P[s] \o P[n]
      /\ \A k \in Server : k # n /\ k # s => Q[k] = P[k]
  OBVIOUS
<1>2. /\ L \in Nat /\ Len(P[n]) \in Nat /\ Len(Q[s]) = L + Len(P[n])
      /\ \A i \in 1..(L + Len(P[n])) : Q[s][i] = IF i <= L THEN P[s][i] ELSE P[n][i - L]
  BY <1>1, ConcatProperties, LenProperties
<1>3. ASSUME NEW k \in Server, NEW i \in 1..Len(Q[k]), Q[k][i] \in M
      PROVE  /\ k # n /\ i \in Nat
             /\ k = s /\ i > L => from(<<k, i>>) = <<n, i - L>> /\ i - L \in 1..Len(P[n])
                                  /\ P[n][i - L] \in M
             /\ ~(k = s /\ i > L) => from(<<k, i>>) = <<k, i>> /\ i \in 1..Len(P[k])
                                     /\ P[k][i] \in M
  <2>1. k # n /\ i \in Nat
    BY <1>1, <1>3
  <2>2. CASE k = s /\ i > L
    BY <1>2, <1>3, <2>1, <2>2
  <2>3. CASE k = s /\ ~(i > L)
    BY <1>2, <1>3, <2>1, <2>3
  <2>4. CASE k # s
    BY <1>1, <1>3, <2>1, <2>4
  <2>5. QED
    BY <2>1, <2>2, <2>3, <2>4
<1>4. f \in [At(Q, M) -> At(P, M)]
  <2> SUFFICES ASSUME NEW w \in At(Q, M) PROVE from(w) \in At(P, M)
    OBVIOUS
  <2>1. PICK k \in Server : \E i \in 1..Len(Q[k]) : w = <<k, i>> /\ Q[k][i] \in M
    BY <1>0
  <2>2. PICK i \in 1..Len(Q[k]) : w = <<k, i>> /\ Q[k][i] \in M
    BY <2>1
  <2>3. CASE k = s /\ i > L
    <3>1. from(w) = <<n, i - L>> /\ i - L \in 1..Len(P[n]) /\ P[n][i - L] \in M
      BY <1>3, <2>2, <2>3
    <3> HIDE DEF from
    <3>2. \E j \in 1..Len(P[n]) : from(w) = <<n, j>> /\ P[n][j] \in M
      BY <3>1
    <3>3. QED
      BY <1>0, <3>2
  <2>4. CASE ~(k = s /\ i > L)
    BY <1>0, <1>3, <2>2, <2>4
  <2>5. QED
    BY <2>3, <2>4
<1>5. ASSUME NEW v \in At(Q, M), NEW w \in At(Q, M), from(v) = from(w) PROVE v = w
  <2>1. PICK k \in Server : \E i \in 1..Len(Q[k]) : v = <<k, i>> /\ Q[k][i] \in M
    BY <1>0
  <2>2. PICK i \in 1..Len(Q[k]) : v = <<k, i>> /\ Q[k][i] \in M
    BY <2>1
  <2>3. PICK l \in Server : \E j \in 1..Len(Q[l]) : w = <<l, j>> /\ Q[l][j] \in M
    BY <1>0
  <2>4. PICK j \in 1..Len(Q[l]) : w = <<l, j>> /\ Q[l][j] \in M
    BY <2>3
  <2>5. /\ k # n /\ i \in Nat
        /\ k = s /\ i > L => from(v) = <<n, i - L>>
        /\ ~(k = s /\ i > L) => from(v) = <<k, i>>
    BY <1>3, <2>2
  <2>6. /\ l # n /\ j \in Nat
        /\ l = s /\ j > L => from(w) = <<n, j - L>>
        /\ ~(l = s /\ j > L) => from(w) = <<l, j>>
    BY <1>3, <2>4
  <2> HIDE DEF from
  <2>7. k = l /\ i = j
    <3>1. CASE (k = s /\ i > L) /\ (l = s /\ j > L)
      BY <1>2, <1>5, <2>5, <2>6, <3>1
    <3>2. CASE ~(k = s /\ i > L) /\ ~(l = s /\ j > L)
      BY <1>5, <2>5, <2>6, <3>2
    <3>3. CASE (k = s /\ i > L) /\ ~(l = s /\ j > L)
      BY <1>5, <2>5, <2>6, <3>3
    <3>4. CASE ~(k = s /\ i > L) /\ (l = s /\ j > L)
      BY <1>5, <2>5, <2>6, <3>4
    <3>5. QED
      BY <3>1, <3>2, <3>3, <3>4
  <2>8. QED
    BY <2>2, <2>4, <2>7
<1>6. f \in Injection(At(Q, M), At(P, M))
  <2>1. \A v, w \in At(Q, M) : f[v] = f[w] => v = w
    BY <1>5
  <2>2. QED
    BY <1>4, <2>1 DEF Injection, IsInjective
<1>7. QED
  BY <1>6, AtMembers, FS_Injection

LEMMA ListedCount ==
  ASSUME NEW L \in Seq(Message), NEW c
  PROVE  IsFiniteSet(Listed(L, c)) /\ Cardinality(Listed(L, c)) \in Nat
<1>1. Listed(L, c) \subseteq 1..Len(L) /\ Len(L) \in Int
  BY LenProperties DEF Listed
<1>2. IsFiniteSet(1..Len(L))
  BY <1>1, FS_Interval
<1>3. IsFiniteSet(Listed(L, c))
  BY <1>1, <1>2, FS_Subset
<1>4. QED
  BY <1>3, FS_CardinalityType

LEMMA ListedMore ==
  ASSUME NEW L \in Seq(Message), NEW c, NEW m \in Message
  PROVE  Cardinality(Listed(Append(L, m), c))
           = Cardinality(Listed(L, c)) + (IF m.id = c THEN 1 ELSE 0)
<1> DEFINE K == Append(L, m)
<1>1. /\ Len(L) \in Nat /\ Len(K) = Len(L) + 1 /\ K[Len(L) + 1] = m
      /\ \A i \in 1..Len(L) : K[i] = L[i]
  BY AppendProperties, LenProperties
<1> HIDE DEF K
<1>2. Len(L) + 1 \notin Listed(L, c)
  BY <1>1 DEF Listed
<1>3. CASE m.id = c
  <2>1. Listed(K, c) = Listed(L, c) \cup {Len(L) + 1}
    BY <1>1, <1>3 DEF Listed
  <2>2. QED
    BY <1>2, <1>3, <2>1, ListedCount, FS_AddElement DEF K
<1>4. CASE m.id # c
  <2>1. Listed(K, c) = Listed(L, c)
    BY <1>1, <1>4 DEF Listed
  <2>2. QED
    BY <1>4, <2>1, ListedCount DEF K
<1>5. QED
  BY <1>3, <1>4

LEMMA ListedLess ==
  ASSUME NEW L \in Seq(Message), NEW c, L # <<>>
  PROVE  Cardinality(Listed(Tail(L), c)) + (IF Head(L).id = c THEN 1 ELSE 0)
           <= Cardinality(Listed(L, c))
<1> DEFINE K == Tail(L)
           rest == Listed(L, c) \ {1}
           f == [i \in Listed(K, c) |-> i + 1]
<1>1. /\ Len(L) \in Nat /\ Len(L) >= 1 /\ Head(L) = L[1] /\ Len(K) = Len(L) - 1
      /\ \A i \in 1..Len(K) : K[i] = L[i + 1]
      /\ K \in Seq(Message)
  BY HeadTailProperties, EmptySeq, LenProperties
<1> HIDE DEF K
<1>2. f \in [Listed(K, c) -> rest]
  BY <1>1 DEF Listed
<1>3. \A i, j \in Listed(K, c) : f[i] = f[j] => i = j
  BY <1>1 DEF Listed
<1>4. f \in Injection(Listed(K, c), rest)
  BY <1>2, <1>3, Fun_IsInj
<1>5. /\ IsFiniteSet(rest)
      /\ Cardinality(rest) =
           IF 1 \in Listed(L, c) THEN Cardinality(Listed(L, c)) - 1 ELSE Cardinality(Listed(L, c))
  BY ListedCount, FS_RemoveElement
<1>6. Cardinality(Listed(K, c)) <= Cardinality(rest)
  BY <1>4, <1>5, FS_Injection
<1>7. Head(L).id = c => 1 \in Listed(L, c)
  BY <1>1 DEF Listed
<1>8. Cardinality(Listed(L, c)) \in Nat /\ Cardinality(Listed(K, c)) \in Nat
  BY <1>1, ListedCount
<1>9. QED
  BY <1>5, <1>6, <1>7, <1>8 DEF K

\* What a server sends and what it reads, counted.
LEMMA SendCount ==
  ASSUME RingInv, NEW n \in Server, NEW m \in Message, SendPipe(n, m), NEW M
  PROVE  /\ Cardinality(At(pipe, M)) \in Nat
         /\ m \in M => Cardinality(At(pipe', M)) = Cardinality(At(pipe, M)) + 1
         /\ m \notin M => Cardinality(At(pipe', M)) = Cardinality(At(pipe, M))
<1>1. PICK s : s = Succ(n)
  OBVIOUS
<1>2. /\ pipe \in [Server -> Seq(Message)] /\ s \in Server
      /\ pipe' = [pipe EXCEPT ![s] = Append(pipe[s], m)]
  BY <1>1, SuccInRing DEF RingInv, TypeOK, SendPipe
<1>3. pipe' \in [Server -> Seq(Message)]
  BY SendType DEF RingInv, TypeOK
<1>4. pipe'[s] = Append(pipe[s], m) /\ \A k \in Server : k # s => pipe'[k] = pipe[k]
  BY <1>2
<1>5. Grows(pipe, pipe', s, m) /\ Cardinality(At(pipe, M)) \in Nat
  BY <1>2, <1>3, <1>4, AtMembers DEF Grows
<1>6. QED
  BY <1>2, <1>5, AtAppend

LEMMA RecvCount ==
  ASSUME RingInv, NEW n \in Server, RecvPipe(n), NEW M
  PROVE  /\ Cardinality(At(pipe, M)) \in Nat /\ Cardinality(At(pipe', M)) \in Nat
         /\ Cardinality(At(pipe', M)) <= Cardinality(At(pipe, M))
         /\ Front(n).from.proc = n /\ Front(n) \in M
              => Cardinality(At(pipe', M)) + 1 <= Cardinality(At(pipe, M))
<1>1. /\ pipe \in [Server -> Seq(Message)] /\ pipe[n] # <<>> /\ Succ(n) \in Server
      /\ Front(n) = Head(pipe[n])
      /\ pipe' = [pipe EXCEPT ![n] = <<>>,
                              ![Succ(n)] = IF Front(n).from.proc = n THEN @ ELSE @ \o pipe[n]]
  BY SuccInRing DEF RecvPipe, ReadPipe, RingInv, TypeOK, Front
<1>2. pipe' \in [Server -> Seq(Message)]
  BY RecvPipeStep DEF RingInv, TypeOK
<1>3. Cardinality(At(pipe, M)) \in Nat /\ Cardinality(At(pipe', M)) \in Nat
  BY <1>1, <1>2, AtMembers
<1>4. Succ(n) = n => Front(n).from.proc = n
  <2>1. Front(n).from.proc \in Server
    BY RecvFront DEF Message
  <2>2. QED
    BY <2>1, NServerAssumption DEF Succ, Server
<1>5. CASE Front(n).from.proc = n
  <2>1. pipe'[n] = <<>> /\ \A k \in Server : k # n => pipe'[k] = pipe[k]
    BY <1>1, <1>5
  <2>2. /\ Cardinality(At(pipe', M)) <= Cardinality(At(pipe, M))
        /\ Head(pipe[n]) \in M => Cardinality(At(pipe', M)) + 1 <= Cardinality(At(pipe, M))
    BY <1>1, <1>2, <2>1, AtDropped
  <2>3. QED
    BY <1>1, <1>3, <2>2
<1>6. CASE Front(n).from.proc # n
  <2>1. /\ n # Succ(n) /\ pipe'[n] = <<>> /\ pipe'[Succ(n)] = pipe[Succ(n)] \o pipe[n]
        /\ \A k \in Server : k # n /\ k # Succ(n) => pipe'[k] = pipe[k]
    BY <1>1, <1>4, <1>6
  <2>2. QED
    BY <1>1, <1>2, <1>3, <1>6, <2>1, AtMoved
<1>7. QED
  BY <1>5, <1>6

-----------------------------------------------------------------------------
(* What is on its way on account of a command.                             *)

\* On whose account a server has sent m: an error about an answer is put down to the
\* server that answered, which is to receive it.
By(m) == IF m.from.task = "server" /\ m.to.task = "radio" /\ m.to.proc \in Server
           THEN m.to.proc ELSE m.from.proc

\* What was sent about command c: by the operator, on account of server n, and in all.
Line(c) == {m \in Message : m.id = c /\ m.from.task = "shell"}
Said(c, n) == {m \in Message : m.id = c /\ m.from.task # "shell" /\ By(m) = n}
About(c) == {m \in Message : m.id = c}

\* A message is about a command typed, and one without fields is server 0's affair.
Fits(m) ==
  /\ m.id \in 1..Len(typed) /\ m.cmd = typed[m.id].cmd
  /\ m.cmd = "none" => m.from.proc = 0 /\ m.to.proc = 0

Misfits == {m \in Message : ~Fits(m)}

\* What server n has in the pipes, and on its list to report on.
Load(c, n) == Cardinality(At(pipe, Said(c, n))) + Cardinality(Listed(owes[n], c))

\* A server sends no more than the answers to what it carries out; an answer that
\* comes back makes room for the error it comes back as.
Loads(c, n) ==
  /\ connected => Load(c, n) <= Answers(typed[c]) * done[c][n]
  /\ Load(c, n) + Cardinality(ToHear(c, n))
       <= Answers(typed[c]) * (IF done[c][n] = 0 THEN 0 ELSE done[c][n] + 1)

\* One line, and the loads; of a message without fields there is one.
LoadOf(c) ==
  IF typed[c].cmd = "none"
    THEN Cardinality(At(pipe, About(c))) + (IF busy[0].id = c THEN 1 ELSE 0) <= 1
    ELSE Cardinality(At(pipe, Line(c))) <= 1 /\ \A n \in Server : Loads(c, n)

FitsInv == At(pipe, Misfits) = {} /\ \A k \in Server : busy[k] \in Message => Fits(busy[k])

LoadInv == FitsInv /\ \A c \in 1..Len(typed) : LoadOf(c)

LEMMA LoadNext ==
  ASSUME NEW c, NEW n
  PROVE  /\ Load(c, n)' = Cardinality(At(pipe', Said(c, n))) + Cardinality(Listed(owes'[n], c))
         /\ At(pipe, About(c))' = At(pipe', About(c))
         /\ At(pipe, Line(c))' = At(pipe', Line(c))
         /\ typed' = typed => At(pipe, Misfits)' = At(pipe', Misfits)
BY DEF Load, At, Listed, Said, By, About, Line, Misfits, Fits

LEMMA LoadType ==
  ASSUME RingInv, NEW c, NEW n \in Server
  PROVE  /\ Load(c, n) \in Nat
         /\ Cardinality(At(pipe, Said(c, n))) \in Nat
         /\ Cardinality(Listed(owes[n], c)) \in Nat
<1>1. pipe \in [Server -> Seq(Message)] /\ owes[n] \in Seq(Message)
  BY DEF RingInv, TypeOK
<1>2. Cardinality(At(pipe, Said(c, n))) \in Nat /\ Cardinality(Listed(owes[n], c)) \in Nat
  BY <1>1, AtMembers, ListedCount
<1>3. QED
  BY <1>2 DEF Load

LEMMA LoadTypeNext ==
  ASSUME RingInv', NEW c, NEW n \in Server
  PROVE  Load(c, n)' \in Nat
<1>1. pipe' \in [Server -> Seq(Message)] /\ owes'[n] \in Seq(Message)
  BY DEF RingInv, TypeOK
<1>2. /\ Cardinality(At(pipe', Said(c, n))) \in Nat
      /\ Cardinality(Listed(owes'[n], c)) \in Nat
  BY <1>1, AtMembers, ListedCount
<1>3. QED
  BY <1>2, LoadNext

\* The loads, for a command that is answered once and one that is answered twice.
LEMMA LoadsCases ==
  ASSUME RingInv, NEW c \in 1..MaxCommands, NEW n \in Server
  PROVE  Loads(c, n) <=>
           /\ Answers(typed[c]) = 1 =>
                /\ connected => Load(c, n) <= done[c][n]
                /\ Load(c, n) + Cardinality(ToHear(c, n))
                     <= IF done[c][n] = 0 THEN 0 ELSE done[c][n] + 1
           /\ Answers(typed[c]) = 2 =>
                /\ connected => Load(c, n) <= 2 * done[c][n]
                /\ Load(c, n) + Cardinality(ToHear(c, n))
                     <= IF done[c][n] = 0 THEN 0 ELSE 2 * done[c][n] + 2
<1>1. CASE Answers(typed[c]) = 1
  BY <1>1, Numbers, LoadType DEF Loads
<1>2. CASE Answers(typed[c]) = 2
  BY <1>2, Numbers, LoadType DEF Loads
<1>3. QED
  BY <1>1, <1>2, Numbers

LEMMA LoadsCasesNext ==
  ASSUME RingInv, RingInv', NEW c \in 1..MaxCommands, NEW n \in Server, typed'[c] = typed[c],
         Answers(typed[c]) = 1 =>
           /\ connected' => Load(c, n)' <= done'[c][n]
           /\ Load(c, n)' + Cardinality(ToHear(c, n)')
                <= IF done'[c][n] = 0 THEN 0 ELSE done'[c][n] + 1,
         Answers(typed[c]) = 2 =>
           /\ connected' => Load(c, n)' <= 2 * done'[c][n]
           /\ Load(c, n)' + Cardinality(ToHear(c, n)')
                <= IF done'[c][n] = 0 THEN 0 ELSE 2 * done'[c][n] + 2
  PROVE  Loads(c, n)'
<1>0. /\ done'[c][n] \in Nat /\ Load(c, n)' \in Nat /\ Cardinality(ToHear(c, n)') \in Nat
      /\ Answers(typed[c])' = Answers(typed[c])
  BY LoadTypeNext, NumbersNext DEF RingInv, TypeOK
<1>1. CASE Answers(typed[c]) = 1
  BY <1>0, <1>1 DEF Loads
<1>2. CASE Answers(typed[c]) = 2
  BY <1>0, <1>2 DEF Loads
<1>3. QED
  BY <1>1, <1>2, Numbers

\* Nothing has been carried out: the answers may have become fewer, by the x that are
\* sent back.
LEMMA LoadsKept ==
  ASSUME RingInv, RingInv', NEW c \in 1..MaxCommands, NEW n \in Server, Loads(c, n),
         typed'[c] = typed[c], connected' => connected, done'[c][n] = done[c][n],
         NEW x \in {0, 1}, x = 1 => ~connected',
         Load(c, n)' <= Load(c, n) + x,
         Cardinality(ToHear(c, n)') + x <= Cardinality(ToHear(c, n))
  PROVE  Loads(c, n)'
<1>1. /\ done[c][n] \in Nat /\ Load(c, n) \in Nat /\ Cardinality(ToHear(c, n)) \in Nat
      /\ Load(c, n)' \in Nat /\ Cardinality(ToHear(c, n)') \in Nat
  BY Numbers, NumbersNext, LoadType, LoadTypeNext
<1>2. CASE Answers(typed[c]) = 1
  <2>1. /\ connected => Load(c, n) <= done[c][n]
        /\ Load(c, n) + Cardinality(ToHear(c, n))
         <= IF done[c][n] = 0 THEN 0 ELSE done[c][n] + 1
    BY <1>2, LoadsCases
  <2>2. /\ connected' => Load(c, n)' <= done'[c][n]
        /\ Load(c, n)' + Cardinality(ToHear(c, n)')
         <= IF done'[c][n] = 0 THEN 0 ELSE done'[c][n] + 1
    BY <1>1, <1>2, <2>1
  <2>3. QED
    BY <1>2, <2>2, LoadsCasesNext
<1>3. CASE Answers(typed[c]) = 2
  <2>1. /\ connected => Load(c, n) <= 2 * done[c][n]
        /\ Load(c, n) + Cardinality(ToHear(c, n))
         <= IF done[c][n] = 0 THEN 0 ELSE 2 * done[c][n] + 2
    BY <1>3, LoadsCases
  <2>2. /\ connected' => Load(c, n)' <= 2 * done'[c][n]
        /\ Load(c, n)' + Cardinality(ToHear(c, n)')
         <= IF done'[c][n] = 0 THEN 0 ELSE 2 * done'[c][n] + 2
    BY <1>1, <1>3, <2>1
  <2>3. QED
    BY <1>3, <2>2, LoadsCasesNext
<1>4. QED
  BY <1>2, <1>3, Numbers

\* The command has been carried out and answered.
LEMMA LoadsDone ==
  ASSUME RingInv, RingInv', NEW c \in 1..MaxCommands, NEW n \in Server, Loads(c, n),
         typed'[c] = typed[c], connected' => connected, done'[c][n] = done[c][n] + 1,
         Load(c, n)' <= Load(c, n) + Answers(typed[c]),
         \/ Carrying(c, n)
         \/ ~connected' /\ Cardinality(ToHear(c, n)') <= Cardinality(ToHear(c, n))
  PROVE  Loads(c, n)'
<1>1. /\ done[c][n] \in Nat /\ Load(c, n) \in Nat /\ Cardinality(ToHear(c, n)) \in Nat
      /\ Load(c, n)' \in Nat /\ Cardinality(ToHear(c, n)') \in Nat
  BY Numbers, NumbersNext, LoadType, LoadTypeNext
<1>2. CASE Carrying(c, n)
  <2>1. done[c][n] = 0 /\ Cardinality(ToHear(c, n)') <= Answers(typed[c])
    BY <1>2 DEF Carrying
  <2>2. CASE Answers(typed[c]) = 1
    <3>1. Load(c, n) = 0
      BY <1>1, <2>1, <2>2, LoadsCases
    <3>2. QED
      BY <1>1, <2>1, <2>2, <3>1, LoadsCasesNext
  <2>3. CASE Answers(typed[c]) = 2
    <3>1. Load(c, n) = 0
      BY <1>1, <2>1, <2>3, LoadsCases
    <3>2. QED
      BY <1>1, <2>1, <2>3, <3>1, LoadsCasesNext
  <2>4. QED
    BY <2>2, <2>3, Numbers
<1>3. CASE ~connected' /\ Cardinality(ToHear(c, n)') <= Cardinality(ToHear(c, n))
  <2>1. CASE Answers(typed[c]) = 1
    <3>1. /\ connected => Load(c, n) <= done[c][n]
          /\ Load(c, n) + Cardinality(ToHear(c, n))
           <= IF done[c][n] = 0 THEN 0 ELSE done[c][n] + 1
      BY <1>3, <2>1, LoadsCases
    <3>2. /\ connected' => Load(c, n)' <= done'[c][n]
          /\ Load(c, n)' + Cardinality(ToHear(c, n)')
           <= IF done'[c][n] = 0 THEN 0 ELSE done'[c][n] + 1
      BY <1>1, <1>3, <2>1, <3>1
    <3>3. QED
      BY <1>3, <2>1, <3>2, LoadsCasesNext
  <2>2. CASE Answers(typed[c]) = 2
    <3>1. /\ connected => Load(c, n) <= 2 * done[c][n]
          /\ Load(c, n) + Cardinality(ToHear(c, n))
           <= IF done[c][n] = 0 THEN 0 ELSE 2 * done[c][n] + 2
      BY <1>3, <2>2, LoadsCases
    <3>2. /\ connected' => Load(c, n)' <= 2 * done'[c][n]
          /\ Load(c, n)' + Cardinality(ToHear(c, n)')
           <= IF done'[c][n] = 0 THEN 0 ELSE 2 * done'[c][n] + 2
      BY <1>1, <1>3, <2>2, <3>1
    <3>3. QED
      BY <1>3, <2>2, <3>2, LoadsCasesNext
  <2>3. QED
    BY <2>1, <2>2, Numbers
<1>4. QED
  BY <1>2, <1>3

-----------------------------------------------------------------------------
(* What the operations do to the loads.                                    *)

LEMMA LoadSend ==
  ASSUME RingInv, NEW n \in Server, NEW r \in Message, SendPipe(n, r), NEW c, NEW k \in Server,
         owes'[k] = owes[k]
  PROVE  Load(c, k)' = Load(c, k) + (IF r \in Said(c, k) THEN 1 ELSE 0)
BY SendCount, LoadNext, LoadType DEF Load

LEMMA LoadStay ==
  ASSUME pipe' = pipe, NEW c, NEW k \in Server, owes'[k] = owes[k]
  PROVE  Load(c, k)' = Load(c, k)
BY LoadNext DEF Load

LEMMA LoadsRecv ==
  ASSUME NEW all \in BOOLEAN, RingInv, RingInv', KnownInv, NEW n \in Server, RecvPipe(n),
         NEW c \in 1..MaxCommands, NEW k \in Server, Account(c, k, all), Loads(c, k)
  PROVE  Loads(c, k)'
<1>1. typed' = typed /\ connected' = connected /\ done' = done /\ owes' = owes
  BY DEF RecvPipe, ReadPipe
<1>2. Cardinality(ToHear(c, k)') <= Cardinality(ToHear(c, k))
  BY CountRecv
<1>3. Load(c, k)' <= Load(c, k)
  <2>1. /\ Cardinality(At(pipe, Said(c, k))) \in Nat /\ Cardinality(At(pipe', Said(c, k))) \in Nat
        /\ Cardinality(At(pipe', Said(c, k))) <= Cardinality(At(pipe, Said(c, k)))
    BY RecvCount
  <2>2. Cardinality(Listed(owes[k], c)) \in Nat
    BY LoadType
  <2>3. QED
    BY <1>1, <2>1, <2>2, LoadNext DEF Load
<1>4. QED
  BY <1>1, <1>2, <1>3, Numbers, NumbersNext, LoadType, LoadTypeNext, LoadsKept

LEMMA LoadsBounce ==
  ASSUME NEW all \in BOOLEAN, RingInv, RingInv', KnownInv, NoEcho, NEW n \in Server, Bounce(n),
         NEW c \in 1..MaxCommands, NEW k \in Server, Account(c, k, all), Loads(c, k),
         Fits(busy[n]), typed[c].cmd # "none"
  PROVE  Loads(c, k)'
<1>1. PICK m : m = busy[n]
  OBVIOUS
<1>2. PICK r : r = TaskNotFound(n, m)
  OBVIOUS
<1>3. Mine(n, m) /\ m \in Message
  BY <1>1, BounceKind DEF Mine
<1>4. /\ r \in Message /\ r.id = m.id /\ r.to = m.from /\ r.from.proc = n
      /\ r.from.task = "server"
  BY <1>2, <1>3, AnswerFields
<1>5. /\ SendPipe(n, r) /\ typed' = typed /\ connected' = connected /\ done' = done
      /\ owes' = owes
  BY <1>1, <1>2 DEF Bounce
<1>6. /\ Load(c, k)' = Load(c, k) + (IF r \in Said(c, k) THEN 1 ELSE 0)
      /\ Load(c, k) \in Nat
  BY <1>4, <1>5, LoadSend, LoadType
<1>7. /\ Cardinality(ToHear(c, k)') + (IF IsAnswer(c, k, m) THEN 1 ELSE 0)
           <= Cardinality(ToHear(c, k))
      /\ Cardinality(ToHear(c, k)') \in Nat
  BY <1>1, <1>5, CountBounce, NumbersNext
<1>8. CASE Empty(m)
  <2>1. m.id # c
    BY <1>1, <1>8 DEF Fits, Empty
  <2>2. r \notin Said(c, k) /\ ~IsAnswer(c, k, m)
    BY <1>4, <2>1 DEF Said, IsAnswer
  <2>3. Load(c, k)' <= Load(c, k) + 0 /\ Cardinality(ToHear(c, k)') + 0 <= Cardinality(ToHear(c, k))
    BY <1>6, <1>7, <2>2
  <2>4. QED
    BY <1>5, <2>3, LoadsKept
<1>9. CASE ~Empty(m)
  <2>1. Tells(m) /\ n = 0 /\ ~connected /\ m.from.task = "radio"
    BY <1>1, <1>9, BounceKind
  <2>2. m.from.proc \in Server
    BY <1>3 DEF Message
  <2>3. By(r) = m.from.proc
    BY <1>4, <2>1, <2>2 DEF By
  <2>4. r \in Said(c, k) <=> IsAnswer(c, k, m)
    BY <1>4, <2>1, <2>3 DEF Said, IsAnswer, Tells
  <2>5. PICK x \in {0, 1} : x = IF IsAnswer(c, k, m) THEN 1 ELSE 0
    OBVIOUS
  <2>6. /\ Load(c, k)' <= Load(c, k) + x
        /\ Cardinality(ToHear(c, k)') + x <= Cardinality(ToHear(c, k))
    BY <1>6, <1>7, <2>4, <2>5
  <2>7. QED
    BY <1>5, <2>1, <2>6, LoadsKept
<1>10. QED
  BY <1>8, <1>9

LEMMA LoadsRadio ==
  ASSUME NEW all \in BOOLEAN, RingInv, RingInv', KnownInv, NEW n \in Server, RadioCommand(n),
         NEW c \in 1..MaxCommands, NEW k \in Server, Account(c, k, all), Loads(c, k)
  PROVE  Loads(c, k)'
<1>1. PICK m : m = busy[n]
  OBVIOUS
<1>2. /\ Mine(n, m) /\ Numbered(m) /\ (Asks(m) \/ Returns(m)) /\ m \in Message
      /\ typed[m.id].task = "radio" /\ m.to.task = "radio" /\ m.cmd # "quit"
  BY <1>1, RadioKind DEF RadioCommand, Mine
<1>3. PICK r : r = ReturnToSender(n, m)
  OBVIOUS
<1>4. /\ r \in Message /\ r.id = m.id /\ r.from.proc = n /\ r.from.task = "radio"
  BY <1>2, <1>3, AnswerKind
<1>5. /\ SendPipe(n, r) /\ typed' = typed /\ connected' = connected
      /\ done' = [done EXCEPT ![m.id][n] = @ + 1]
      /\ owes' = [owes EXCEPT ![n] = IF m.cmd = "collect" THEN Append(@, m) ELSE @]
  BY <1>1, <1>3 DEF RadioCommand
<1>6. /\ done'[c][k] = IF c = m.id /\ k = n THEN done[c][k] + 1 ELSE done[c][k]
      /\ owes'[n] = IF m.cmd = "collect" THEN Append(owes[n], m) ELSE owes[n]
      /\ k # n => owes'[k] = owes[k]
      /\ owes[n] \in Seq(Message)
  <2>1. done \in [1..MaxCommands -> [Server -> Nat]] /\ owes \in [Server -> Seq(Message)]
    BY DEF RingInv, TypeOK
  <2>2. QED
    BY <1>5, <2>1
<1>7. r \in Said(c, k) <=> c = m.id /\ k = n
  BY <1>4 DEF Said, By
<1>8. IF k = n /\ IsCommand(c, m) THEN Carrying(c, k) ELSE ToHear(c, k)' = ToHear(c, k)
  BY <1>1, CountRadio
<1>9. /\ Cardinality(At(pipe', Said(c, k)))
           = Cardinality(At(pipe, Said(c, k))) + (IF c = m.id /\ k = n THEN 1 ELSE 0)
      /\ Cardinality(At(pipe, Said(c, k))) \in Nat
  BY <1>4, <1>5, <1>7, SendCount
<1>10. Cardinality(Listed(owes'[k], c)) =
         Cardinality(Listed(owes[k], c)) + (IF c = m.id /\ k = n /\ m.cmd = "collect" THEN 1 ELSE 0)
  <2>1. CASE k = n /\ m.cmd = "collect"
    <3>1. Cardinality(Listed(Append(owes[k], m), c))
            = Cardinality(Listed(owes[k], c)) + (IF m.id = c THEN 1 ELSE 0)
      BY <1>2, <1>6, <2>1, ListedMore
    <3>2. owes'[k] = Append(owes[k], m)
      BY <1>6, <2>1
    <3>3. QED
      BY <2>1, <3>1, <3>2
  <2>2. CASE ~(k = n /\ m.cmd = "collect")
    <3>1. owes'[k] = owes[k] /\ Cardinality(Listed(owes[k], c)) \in Nat
      BY <1>6, <2>2, LoadType
    <3>2. QED
      BY <2>2, <3>1
  <2>3. QED
    BY <2>1, <2>2
<1>11. Cardinality(ToHear(c, k)) \in Nat /\ Load(c, k) \in Nat
       /\ Cardinality(Listed(owes[k], c)) \in Nat
  BY Numbers, LoadType
<1>12. CASE c = m.id /\ k = n
  <2>1. Answers(typed[c]) = IF m.cmd = "collect" THEN 2 ELSE 1
    BY <1>2, <1>12 DEF Answers, Numbered
  <2>2. Load(c, k)' <= Load(c, k) + Answers(typed[c])
    BY <1>9, <1>10, <1>11, <1>12, <2>1, LoadNext DEF Load
  <2>3. \/ Carrying(c, k)
        \/ ~connected' /\ Cardinality(ToHear(c, k)') <= Cardinality(ToHear(c, k))
    <3>1. CASE IsCommand(c, m)
      BY <1>8, <1>12, <3>1
    <3>2. CASE ~IsCommand(c, m)
      <4>1. ~connected'
        BY <1>2, <1>5, <1>12, <3>2 DEF IsCommand, Asks, Returns
      <4>2. QED
        BY <1>8, <1>11, <3>2, <4>1
    <3>3. QED
      BY <3>1, <3>2
  <2>4. done'[c][k] = done[c][k] + 1
    BY <1>6, <1>12
  <2>5. QED
    BY <1>5, <2>2, <2>3, <2>4, LoadsDone
<1>13. CASE ~(c = m.id /\ k = n)
  <2>1. Load(c, k)' <= Load(c, k) + 0
    BY <1>9, <1>10, <1>11, <1>13, LoadNext DEF Load
  <2>2. Cardinality(ToHear(c, k)') + 0 <= Cardinality(ToHear(c, k))
    BY <1>8, <1>11, <1>13 DEF IsCommand
  <2>3. done'[c][k] = done[c][k]
    BY <1>6, <1>13
  <2>4. QED
    BY <1>5, <2>1, <2>2, <2>3, LoadsKept
<1>14. QED
  BY <1>12, <1>13

LEMMA LoadsLt ==
  ASSUME NEW all \in BOOLEAN, RingInv, RingInv', KnownInv, NEW n \in Server,
         ServerCommand(n), busy[n].cmd = "lt",
         NEW c \in 1..MaxCommands, NEW k \in Server, Account(c, k, all), Loads(c, k)
  PROVE  Loads(c, k)'
<1>1. PICK m : m = busy[n]
  OBVIOUS
<1>2. PICK r : r = ReturnToSender(n, m)
  OBVIOUS
<1>3. /\ Mine(n, m) /\ m \in Message /\ Numbered(m) /\ Asks(m) /\ m.cmd = "lt"
      /\ m.to.task = "server" /\ m.to.task = typed[m.id].task
  BY <1>1, ServerKind DEF Mine, ServerCommand
<1>4. /\ r \in Message /\ r.id = m.id /\ r.to = m.from /\ r.from.proc = n
      /\ r.from.task = "server"
  BY <1>2, <1>3, AnswerKind
<1>5. /\ SendPipe(n, r) /\ typed' = typed /\ connected' = connected /\ owes' = owes
      /\ done' = [done EXCEPT ![m.id][n] = @ + 1]
  BY <1>1, <1>2 DEF ServerCommand
<1>6. done'[c][k] = IF c = m.id /\ k = n THEN done[c][k] + 1 ELSE done[c][k]
  <2>1. done \in [1..MaxCommands -> [Server -> Nat]]
    BY DEF RingInv, TypeOK
  <2>2. QED
    BY <1>5, <2>1
<1>7. r \in Said(c, k) <=> c = m.id /\ k = n
  BY <1>3, <1>4 DEF Said, By, Asks
<1>8. IF k = n /\ IsCommand(c, m) THEN Carrying(c, k) ELSE ToHear(c, k)' = ToHear(c, k)
  BY <1>1, <1>3, CountLt
<1>9. /\ Load(c, k)' = Load(c, k) + (IF c = m.id /\ k = n THEN 1 ELSE 0)
      /\ Load(c, k) \in Nat /\ Cardinality(ToHear(c, k)) \in Nat
  BY <1>4, <1>5, <1>7, LoadSend, LoadType, Numbers
<1>10. CASE c = m.id /\ k = n
  <2>1. Load(c, k)' <= Load(c, k) + Answers(typed[c])
    BY <1>9, <1>10 DEF Answers
  <2>2. Carrying(c, k)
    BY <1>3, <1>8, <1>10 DEF IsCommand, Asks
  <2>3. done'[c][k] = done[c][k] + 1
    BY <1>6, <1>10
  <2>4. QED
    BY <1>5, <2>1, <2>2, <2>3, LoadsDone
<1>11. CASE ~(c = m.id /\ k = n)
  <2>1. Load(c, k)' <= Load(c, k) + 0
    BY <1>9, <1>11
  <2>2. Cardinality(ToHear(c, k)') + 0 <= Cardinality(ToHear(c, k))
    BY <1>8, <1>9, <1>11 DEF IsCommand
  <2>3. done'[c][k] = done[c][k]
    BY <1>6, <1>11
  <2>4. QED
    BY <1>5, <2>1, <2>2, <2>3, LoadsKept
<1>12. QED
  BY <1>10, <1>11

\* Nothing is sent and nothing carried out.
LEMMA LoadsStill ==
  ASSUME RingInv, RingInv', NEW c \in 1..MaxCommands, NEW k \in Server, Loads(c, k),
         pipe' = pipe, owes'[k] = owes[k], typed'[c] = typed[c], connected' => connected,
         done'[c][k] = done[c][k],
         Cardinality(ToHear(c, k)') <= Cardinality(ToHear(c, k))
  PROVE  Loads(c, k)'
<1>1. Load(c, k)' <= Load(c, k) + 0 /\ Cardinality(ToHear(c, k)') + 0 <= Cardinality(ToHear(c, k))
  BY LoadStay, LoadType, Numbers, NumbersNext
<1>2. QED
  BY <1>1, LoadsKept

LEMMA LoadsServer ==
  ASSUME NEW all \in BOOLEAN, RingInv, RingInv', KnownInv, NEW n \in Server, ServerCommand(n),
         NEW c \in 1..MaxCommands, NEW k \in Server, Account(c, k, all), Loads(c, k)
  PROVE  Loads(c, k)'
<1>1. CASE busy[n].cmd = "lt"
  BY <1>1, LoadsLt
<1>2. CASE busy[n].cmd # "lt"
  <2>1. ToHear(c, k)' = ToHear(c, k)
    BY <1>2, CountIgnored
  <2>2. /\ pipe' = pipe /\ owes' = owes /\ typed' = typed /\ done' = done
        /\ connected' = connected
    BY <1>2 DEF ServerCommand
  <2>3. Cardinality(ToHear(c, k)') <= Cardinality(ToHear(c, k))
    BY <2>1, Numbers
  <2>4. QED
    BY <2>2, <2>3, LoadsStill
<1>3. QED
  BY <1>1, <1>2

LEMMA LoadsShell ==
  ASSUME NEW all \in BOOLEAN, RingInv, RingInv', KnownInv, NEW n \in Server, ShellCommand(n),
         NEW c \in 1..MaxCommands, NEW k \in Server, Account(c, k, all), Loads(c, k)
  PROVE  Loads(c, k)'
<1>1. Cardinality(ToHear(c, k)') <= Cardinality(ToHear(c, k))
  BY CountShell
<1>2. /\ pipe' = pipe /\ owes' = owes /\ typed' = typed /\ done' = done
      /\ connected' = connected
  BY DEF ShellCommand
<1>3. QED
  BY <1>1, <1>2, LoadsStill

LEMMA LoadsNotify ==
  ASSUME NEW all \in BOOLEAN, RingInv, RingInv', KnownInv, ListedOnce,
         NEW n \in Server, Notify(n),
         NEW c \in 1..MaxCommands, NEW k \in Server, Account(c, k, all), Loads(c, k)
  PROVE  Loads(c, k)'
<1>1. PICK m : m = Head(owes[n])
  OBVIOUS
<1>2. /\ owes[n] # <<>> /\ owes[n] \in Seq(Message) /\ Mine(n, m) /\ Numbered(m)
      /\ (Asks(m) \/ Returns(m)) /\ m.cmd = "collect" /\ m.to.task = "radio"
      /\ typed[m.id].task = "radio"
  BY <1>1, NotifyKind DEF Reported
<1>3. PICK r : r = ReturnToSender(n, m)
  OBVIOUS
<1>4. /\ r \in Message /\ r.id = m.id /\ r.from.proc = n /\ r.from.task = "radio"
  BY <1>2, <1>3, AnswerKind
<1>5. /\ SendPipe(n, r) /\ typed' = typed /\ connected' = connected /\ done' = done
      /\ owes'[n] = Tail(owes[n]) /\ (k # n => owes'[k] = owes[k])
  BY <1>1, <1>3 DEF Notify, RingInv, TypeOK
<1>6. r \in Said(c, k) <=> c = m.id /\ k = n
  BY <1>4 DEF Said, By
<1>7. /\ Cardinality(At(pipe', Said(c, k)))
           = Cardinality(At(pipe, Said(c, k))) + (IF c = m.id /\ k = n THEN 1 ELSE 0)
      /\ Cardinality(At(pipe, Said(c, k))) \in Nat
  BY <1>4, <1>5, <1>6, SendCount
<1>8. /\ Cardinality(Listed(owes'[k], c)) + (IF c = m.id /\ k = n THEN 1 ELSE 0)
           <= Cardinality(Listed(owes[k], c))
      /\ Cardinality(Listed(owes'[k], c)) \in Nat
  <2>0. Cardinality(Listed(owes[k], c)) \in Nat /\ Cardinality(Listed(owes'[k], c)) \in Nat
    <3>1. owes[k] \in Seq(Message) /\ owes'[k] \in Seq(Message)
      BY DEF RingInv, TypeOK
    <3>2. QED
      BY <3>1, ListedCount
  <2>1. CASE k = n
    <3>1. Cardinality(Listed(Tail(owes[n]), c)) + (IF m.id = c THEN 1 ELSE 0)
            <= Cardinality(Listed(owes[n], c))
      BY <1>1, <1>2, ListedLess
    <3>2. QED
      BY <1>5, <2>0, <2>1, <3>1
  <2>2. CASE k # n
    <3>1. owes'[k] = owes[k]
      BY <1>5, <2>2
    <3>2. QED
      BY <2>0, <2>2, <3>1
  <2>3. QED
    BY <2>1, <2>2
<1>9. Load(c, k)' <= Load(c, k) + 0
  BY <1>7, <1>8, LoadType, LoadNext DEF Load
<1>10. Cardinality(ToHear(c, k)') <= Cardinality(ToHear(c, k))
  BY CountNotify
<1>11. Cardinality(ToHear(c, k)') + 0 <= Cardinality(ToHear(c, k))
  BY <1>5, <1>10, Numbers, NumbersNext
<1>12. QED
  BY <1>5, <1>9, <1>11, LoadsKept

LEMMA LoadsDisconnect ==
  ASSUME NEW all \in BOOLEAN, RingInv, RingInv', Disconnect,
         NEW c \in 1..MaxCommands, NEW k \in Server, Account(c, k, all), Loads(c, k)
  PROVE  Loads(c, k)'
<1>1. Cardinality(ToHear(c, k)') <= Cardinality(ToHear(c, k))
  BY CountDisconnect, Numbers
<1>2. /\ pipe' = pipe /\ owes' = owes /\ typed' = typed /\ done' = done
      /\ ~connected'
  BY DEF Disconnect
<1>3. QED
  BY <1>1, <1>2, LoadsStill

LEMMA LoadsTyped ==
  ASSUME NEW all \in BOOLEAN, RingInv, RingInv', KnownInv, TypedInv, NEW a \in Commands, Type(a),
         NEW c \in 1..Len(typed), NEW k \in Server, Account(c, k, all), Loads(c, k)
  PROVE  Loads(c, k)'
<1>1. PICK s : s = Sent(a)
  OBVIOUS
<1>2. /\ s \in Message /\ SendPipe(0, s) /\ s.id = Len(typed) + 1 /\ Len(typed) \in Nat
      /\ typed'[c] = typed[c] /\ 0 \in Server
  BY <1>1, SentType
<1>3. c \in 1..MaxCommands
  BY <1>2, MaxCommandsAssumption DEF TypedInv
<1>4. connected' = connected /\ done' = done /\ owes' = owes
  BY DEF Type
<1>5. s \notin Said(c, k)
  BY <1>2 DEF Said
<1>6. Load(c, k)' <= Load(c, k) + 0
  BY <1>2, <1>4, <1>5, LoadSend, LoadType
<1>7. ToHear(c, k)' = ToHear(c, k)
  BY CountTyped
<1>8. Cardinality(ToHear(c, k)') + 0 <= Cardinality(ToHear(c, k))
  BY <1>3, <1>7, Numbers
<1>9. QED
  BY <1>2, <1>3, <1>4, <1>6, <1>8, LoadsKept

\* What is not in a pipe at all.
LEMMA NotThere ==
  ASSUME RingInv, At(pipe, Misfits) = {}, NEW M, M \cap Message \subseteq Misfits
  PROVE  Cardinality(At(pipe, M)) = 0
<1>1. pipe \in [Server -> Seq(Message)]
  BY DEF RingInv, TypeOK
<1>2. ASSUME NEW w \in At(pipe, M) PROVE FALSE
  <2>1. PICK k \in Server : \E i \in 1..Len(pipe[k]) : w = <<k, i>> /\ pipe[k][i] \in M
    BY <1>1, AtMembers
  <2>2. PICK i \in 1..Len(pipe[k]) : w = <<k, i>> /\ pipe[k][i] \in M
    BY <2>1
  <2>3. pipe[k][i] \in Message
    BY <1>1, <2>2
  <2>4. w \in At(pipe, Misfits)
    <3>1. w = <<k, i>> /\ pipe[k][i] \in Misfits
      BY <2>2, <2>3
    <3>2. \E j \in Server : \E l \in 1..Len(pipe[j]) : w = <<j, l>> /\ pipe[j][l] \in Misfits
      BY <3>1
    <3>3. QED
      BY <1>1, <3>2, AtMembers
  <2>5. QED
    BY <2>4
<1>3. At(pipe, M) = {}
  BY <1>2
<1>4. QED
  BY <1>3, FS_EmptySet

LEMMA LoadsNew ==
  ASSUME NEW all \in BOOLEAN, RingInv, RingInv', KnownInv, TypedInv, FitsInv,
         NEW a \in Commands, Type(a), a.cmd # "none",
         NEW k \in Server, NEW c \in 1..MaxCommands, c = Len(typed) + 1
  PROVE  Loads(c, k)'
<1>1. PICK s : s = Sent(a)
  OBVIOUS
<1>2. /\ s \in Message /\ SendPipe(0, s) /\ s.from.task = "shell" /\ Len(typed) \in Nat
      /\ typed'[c] = a /\ 0 \in Server
  BY <1>1, SentType
<1>3. done' = done /\ owes' = owes
  BY DEF Type
<1>4. Cardinality(At(pipe, Said(c, k))) = 0
  <2>1. Said(c, k) \cap Message \subseteq Misfits
    BY <1>2 DEF Said, Misfits, Fits
  <2>2. QED
    BY <2>1, NotThere DEF FitsInv
<1>5. Cardinality(Listed(owes[k], c)) = 0
  <2>1. \A i \in 1..Len(owes[k]) : owes[k][i].id # c
    BY <1>2 DEF KnownInv, Reported, Numbered
  <2>2. Listed(owes[k], c) = {}
    BY <2>1 DEF Listed
  <2>3. QED
    BY <2>2, FS_EmptySet
<1>6. Load(c, k)' = 0
  <2>1. s \notin Said(c, k)
    BY <1>2 DEF Said
  <2>2. Load(c, k)' = Load(c, k)
    BY <1>2, <1>3, <2>1, LoadSend, LoadType
  <2>3. QED
    BY <1>4, <1>5, <2>2 DEF Load
<1>7. Cardinality(ToHear(c, k)') = 0
  <2>1. ToHear(c, k)' = {}
    BY CountNew
  <2>2. QED
    BY <2>1, FS_EmptySet
<1>8. done'[c][k] = 0
  BY <1>2, <1>3 DEF TypedInv
<1>9. Answers(typed[c])' \in {1, 2}
  BY DEF Answers
<1>10. QED
  BY <1>6, <1>7, <1>8, <1>9 DEF Loads

-----------------------------------------------------------------------------
(* The loads of all commands: what a server may send at all.               *)

\* What a server sends between two reads.
LEMMA ServerSends ==
  ASSUME RingInv, KnownInv, NoEcho, FitsInv, NEW n \in Server, ServerAct(n), ~RecvPipe(n)
  PROVE  /\ typed' = typed /\ connected' = connected
         /\ \A k \in Server : busy'[k] \in Message => busy'[k] = busy[k]
         /\ busy'[n] \in {NoMessage, Notifying} /\ \A k \in Server : k # n => busy'[k] = busy[k]
         /\ \/ pipe' = pipe
            \/ \E r \in Message : /\ SendPipe(n, r) /\ Fits(r) /\ r.from.task # "shell"
                                  /\ r.cmd = "none" => n = 0 /\ busy[0].id = r.id
<1>1. typed' = typed /\ connected' = connected
  BY DEF ServerAct, Bounce, RadioCommand, ServerCommand, ShellCommand, Notify
<1>2. /\ busy'[n] \in {NoMessage, Notifying}
      /\ \A k \in Server : k # n => busy'[k] = busy[k]
  BY DEF ServerAct, Bounce, RadioCommand, ServerCommand, ShellCommand, Notify, RingInv, TypeOK
<1>3. \A k \in Server : busy'[k] \in Message => busy'[k] = busy[k]
  BY <1>2, NoMessages
<1>4. ASSUME NEW r, Numbered(r) PROVE Fits(r) /\ r.cmd # "none"
  BY <1>4 DEF Numbered, Fits
<1>5. CASE Bounce(n)
  <2>1. PICK m : m = busy[n]
    OBVIOUS
  <2>2. PICK r : r = TaskNotFound(n, m)
    OBVIOUS
  <2>3. Mine(n, m) /\ SendPipe(n, r)
    BY <1>5, <2>1, <2>2, BounceKind DEF Bounce
  <2>4. /\ r \in Message /\ r.id = m.id /\ r.cmd = m.cmd
        /\ r.to = m.from /\ r.from.proc = n /\ r.from.task = "server"
    BY <2>2, <2>3, AnswerFields
  <2>5. /\ r \in Message /\ r.id = busy[n].id /\ r.cmd = busy[n].cmd /\ SendPipe(n, r)
        /\ r.to = busy[n].from /\ r.from.proc = n /\ r.from.task = "server"
    BY <2>1, <2>3, <2>4
  <2>6. Fits(busy[n]) /\ Mine(n, busy[n])
    BY <1>5, BounceKind DEF FitsInv, Mine
  <2>7. r.cmd = "none" => n = 0
    BY <2>5, <2>6, NServerAssumption DEF Fits, Mine, Broadcast, Server
  <2>8. Fits(r)
    BY <2>5, <2>6, <2>7 DEF Fits
  <2>9. QED
    BY <1>1, <1>2, <1>3, <2>5, <2>7, <2>8
<1>6. CASE RadioCommand(n)
  <2>1. PICK m : m = busy[n]
    OBVIOUS
  <2>2. PICK r : r = ReturnToSender(n, m)
    OBVIOUS
  <2>3. /\ Mine(n, m) /\ Numbered(m) /\ (Asks(m) \/ Returns(m)) /\ m.cmd # "quit"
        /\ typed[m.id].task = "radio" /\ m.to.task = "radio" /\ SendPipe(n, r)
    BY <1>6, <2>1, <2>2, RadioKind DEF RadioCommand
  <2>4. /\ r \in Message /\ Numbered(r) /\ SendPipe(n, r) /\ r.from.task = "radio"
    BY <2>2, <2>3, AnswerKind
  <2>5. QED
    BY <1>1, <1>2, <1>3, <1>4, <2>4
<1>7. CASE ServerCommand(n)
  <2>1. CASE busy[n].cmd = "lt"
    <3>1. PICK m : m = busy[n]
      OBVIOUS
    <3>2. PICK r : r = ReturnToSender(n, m)
      OBVIOUS
    <3>3. /\ Mine(n, m) /\ Numbered(m) /\ Asks(m) /\ m.cmd # "quit"
          /\ m.to.task = "server" /\ m.to.task = typed[m.id].task /\ SendPipe(n, r)
      BY <1>7, <2>1, <3>1, <3>2, ServerKind DEF ServerCommand
    <3>4. /\ r \in Message /\ Numbered(r) /\ SendPipe(n, r) /\ r.from.task = "server"
      BY <3>2, <3>3, AnswerKind
    <3>5. QED
      BY <1>1, <1>2, <1>3, <1>4, <3>4
  <2>2. CASE busy[n].cmd # "lt"
    BY <1>1, <1>2, <1>3, <1>7, <2>2 DEF ServerCommand
  <2>3. QED
    BY <2>1, <2>2
<1>8. CASE ShellCommand(n)
  BY <1>1, <1>2, <1>3, <1>8 DEF ShellCommand
<1>9. CASE Notify(n)
  <2>1. PICK m : m = Head(owes[n])
    OBVIOUS
  <2>2. PICK r : r = ReturnToSender(n, m)
    OBVIOUS
  <2>3. /\ Mine(n, m) /\ Numbered(m) /\ m.cmd = "collect" /\ (Asks(m) \/ Returns(m))
        /\ m.to.task = "radio" /\ typed[m.id].task = "radio"
    BY <1>9, <2>1, NotifyKind DEF Reported
  <2>4. /\ r \in Message /\ Numbered(r) /\ r.from.task = "radio"
    BY <2>2, <2>3, AnswerKind
  <2>5. SendPipe(n, r)
    BY <1>9, <2>1, <2>2 DEF Notify
  <2>6. QED
    BY <1>1, <1>2, <1>3, <1>4, <2>4, <2>5
<1>10. QED
  BY <1>5, <1>6, <1>7, <1>8, <1>9 DEF ServerAct

\* The front of a pipe fits, like what is behind it.
LEMMA FrontFits ==
  ASSUME RingInv, FitsInv, NEW n \in Server, pipe[n] # <<>>
  PROVE  Front(n) \in Message /\ Fits(Front(n))
<1>1. /\ pipe \in [Server -> Seq(Message)] /\ 1 \in 1..Len(pipe[n]) /\ Front(n) = pipe[n][1]
      /\ Front(n) \in Message
  BY FrontType, HeadTailProperties DEF RingInv, TypeOK, Front
<1>2. ASSUME ~Fits(Front(n)) PROVE FALSE
  <2>1. pipe[n][1] \in Misfits
    BY <1>1, <1>2 DEF Misfits
  <2>2. \E k \in Server : \E i \in 1..Len(pipe[k]) : <<n, 1>> = <<k, i>> /\ pipe[k][i] \in Misfits
    BY <1>1, <2>1
  <2>3. <<n, 1>> \in At(pipe, Misfits)
    BY <1>1, <2>2, AtMembers
  <2>4. QED
    BY <2>3 DEF FitsInv
<1>3. QED
  BY <1>1, <1>2

\* No messages of M, as a number.
LEMMA NoneAt ==
  ASSUME NEW P \in [Server -> Seq(Message)], NEW M
  PROVE  At(P, M) = {} <=> Cardinality(At(P, M)) = 0
BY AtMembers, FS_EmptySet

LEMMA FitsServer ==
  ASSUME RingInv, RingInv', KnownInv, NoEcho, FitsInv, NEW n \in Server, ServerAct(n)
  PROVE  FitsInv'
<1>0. pipe \in [Server -> Seq(Message)] /\ pipe' \in [Server -> Seq(Message)]
  BY DEF RingInv, TypeOK
<1>1. typed' = typed
  BY DEF ServerAct, RecvPipe, ReadPipe, Bounce, RadioCommand, ServerCommand, ShellCommand, Notify
<1>2. Cardinality(At(pipe, Misfits)) = 0
  BY <1>0, NoneAt DEF FitsInv
<1>3. Cardinality(At(pipe', Misfits)) = 0
  <2>1. CASE RecvPipe(n)
    BY <1>2, <2>1, RecvCount
  <2>2. CASE ~RecvPipe(n)
    <3>1. CASE pipe' = pipe
      BY <1>2, <3>1
    <3>2. CASE \E r \in Message : SendPipe(n, r) /\ Fits(r)
      <4>1. PICK r \in Message : SendPipe(n, r) /\ Fits(r)
        BY <3>2
      <4>2. r \notin Misfits
        BY <4>1 DEF Misfits
      <4>3. QED
        BY <1>2, <4>1, <4>2, SendCount
    <3>3. QED
      BY <2>2, <3>1, <3>2, ServerSends
  <2>3. QED
    BY <2>1, <2>2
<1>4. At(pipe, Misfits)' = {}
  BY <1>0, <1>1, <1>3, NoneAt, LoadNext
<1>5. ASSUME NEW k \in Server, busy'[k] \in Message PROVE Fits(busy'[k])
  <2>1. CASE RecvPipe(n)
    <3>1. busy'[k] \in {Front(n), busy[k]} /\ pipe[n] # <<>>
      BY <1>5, <2>1, RecvFront, NoMessages DEF RingInv, TypeOK, RecvPipe
    <3>2. QED
      BY <1>5, <3>1, FrontFits DEF FitsInv
  <2>2. CASE ~RecvPipe(n)
    BY <1>5, <2>2, ServerSends DEF FitsInv
  <2>3. QED
    BY <2>1, <2>2
<1>6. \A m : Fits(m)' <=> Fits(m)
  BY <1>1 DEF Fits
<1>7. QED
  BY <1>4, <1>5, <1>6 DEF FitsInv

\* No server sends a line of the operator's.
LEMMA LineServer ==
  ASSUME RingInv, KnownInv, NoEcho, FitsInv, NEW n \in Server, ServerAct(n), NEW c
  PROVE  Cardinality(At(pipe', Line(c))) <= Cardinality(At(pipe, Line(c)))
<1>0. Cardinality(At(pipe, Line(c))) \in Nat
  BY AtMembers DEF RingInv, TypeOK
<1>1. CASE RecvPipe(n)
  BY <1>1, RecvCount
<1>2. CASE pipe' = pipe
  BY <1>0, <1>2
<1>3. CASE \E r \in Message : SendPipe(n, r) /\ r.from.task # "shell"
  <2>1. PICK r \in Message : SendPipe(n, r) /\ r.from.task # "shell"
    BY <1>3
  <2>2. r \notin Line(c)
    BY <2>1 DEF Line
  <2>3. QED
    BY <1>0, <2>1, <2>2, SendCount
<1>4. QED
  BY <1>1, <1>2, <1>3, ServerSends

\* A message without fields is in one place: server 0 drops it when it reads it, and
\* sends the error when it has it in hand.
LEMMA NoneServer ==
  ASSUME RingInv, RingInv', KnownInv, NoEcho, FitsInv, NEW n \in Server, ServerAct(n),
         NEW c \in 1..Len(typed), typed[c].cmd = "none",
         Cardinality(At(pipe, About(c))) + (IF busy[0].id = c THEN 1 ELSE 0) <= 1
  PROVE  Cardinality(At(pipe', About(c))) + (IF busy'[0].id = c THEN 1 ELSE 0) <= 1
<1>0. /\ Cardinality(At(pipe, About(c))) \in Nat /\ Cardinality(At(pipe', About(c))) \in Nat
      /\ NoMessage.id # c /\ Notifying.id # c
      /\ 0 \in Server
  <2>1. pipe \in [Server -> Seq(Message)] /\ pipe' \in [Server -> Seq(Message)]
    BY DEF RingInv, TypeOK
  <2>2. NoMessage.id # c /\ Notifying.id # c
    BY DEF NoMessage, Notifying
  <2>3. 0 \in Server
    BY SuccPlace
  <2>4. QED
    BY <2>1, <2>2, <2>3, AtMembers
<1>1. CASE RecvPipe(n)
  <2>1. /\ Front(n) \in Message /\ Fits(Front(n)) /\ busy[n] = NoMessage
        /\ busy' = [busy EXCEPT ![n] = IF Front(n).to.proc \in {n, Broadcast} THEN Front(n)
                                                                            ELSE NoMessage]
    BY <1>1, FrontFits DEF RecvPipe, ReadPipe, Front
  <2>2. /\ Cardinality(At(pipe', About(c))) <= Cardinality(At(pipe, About(c)))
        /\ Front(n).from.proc = n /\ Front(n) \in About(c)
             => Cardinality(At(pipe', About(c))) + 1 <= Cardinality(At(pipe, About(c)))
    BY <1>1, RecvCount
  <2>3. CASE n # 0
    <3>1. busy'[0] = busy[0]
      BY <1>0, <2>1, <2>3 DEF RingInv, TypeOK
    <3>2. QED
      BY <1>0, <2>2, <3>1
  <2>4. CASE n = 0 /\ Front(n).id = c
    <3>1. Front(n).from.proc = n /\ Front(n) \in About(c)
      BY <2>1, <2>4 DEF Fits, About
    <3>2. QED
      BY <1>0, <2>2, <3>1
  <2>5. CASE n = 0 /\ Front(n).id # c
    <3>1. busy'[0] \in {Front(n), NoMessage} /\ busy[0] = NoMessage
      BY <1>0, <2>1, <2>5 DEF RingInv, TypeOK
    <3>2. busy'[0].id # c
      BY <1>0, <2>5, <3>1
    <3>3. QED
      BY <1>0, <2>2, <3>1, <3>2
  <2>6. QED
    BY <2>3, <2>4, <2>5
<1>2. CASE ~RecvPipe(n)
  <2>1. /\ busy'[0] \in {busy[0], NoMessage, Notifying}
        /\ n = 0 => busy'[0].id # c
    BY <1>0, <1>2, ServerSends
  <2>2. busy'[0].id = c => busy[0].id = c
    BY <1>0, <2>1
  <2>3. CASE pipe' = pipe
    BY <1>0, <2>2, <2>3
  <2>4. CASE \E r \in Message : /\ SendPipe(n, r) /\ Fits(r)
                                /\ r.cmd = "none" => n = 0 /\ busy[0].id = r.id
    <3>1. PICK r \in Message : /\ SendPipe(n, r) /\ Fits(r)
                               /\ r.cmd = "none" => n = 0 /\ busy[0].id = r.id
      BY <2>4
    <3>2. /\ r \in About(c) => Cardinality(At(pipe', About(c))) = Cardinality(At(pipe, About(c))) + 1
          /\ r \notin About(c) => Cardinality(At(pipe', About(c))) = Cardinality(At(pipe, About(c)))
      BY <3>1, SendCount
    <3>3. r \in About(c) => n = 0 /\ busy[0].id = c
      BY <3>1 DEF About, Fits
    <3>4. CASE r \in About(c)
      BY <1>0, <2>1, <3>2, <3>3, <3>4
    <3>5. CASE r \notin About(c)
      BY <1>0, <2>2, <3>2, <3>5
    <3>6. QED
      BY <3>4, <3>5
  <2>5. QED
    BY <1>2, <2>3, <2>4, ServerSends
<1>3. QED
  BY <1>1, <1>2

LEMMA LoadServer ==
  ASSUME NEW all \in BOOLEAN, AccountInv(all), LoadInv, NoEcho, NEW n \in Server, ServerAct(n)
  PROVE  LoadInv'
<1>0. RingInv /\ KnownInv /\ TypedInv /\ ListedOnce /\ FitsInv
  BY DEF AccountInv, LoadInv
<1>1. RingInv' /\ FitsInv'
  BY <1>0, AccountServer, FitsServer DEF AccountInv
<1>2. typed' = typed
  BY DEF ServerAct, RecvPipe, ReadPipe, Bounce, RadioCommand, ServerCommand, ShellCommand, Notify
<1>3. ASSUME NEW c \in 1..Len(typed) PROVE LoadOf(c)'
  <2>1. LoadOf(c) /\ \A k \in Server : c \in 1..MaxCommands /\ Account(c, k, all)
    BY <1>3, TypedCommand DEF LoadInv
  <2>2. CASE typed[c].cmd = "none"
    <3>1. Cardinality(At(pipe', About(c))) + (IF busy'[0].id = c THEN 1 ELSE 0) <= 1
      BY <1>0, <1>1, <2>1, <2>2, NoneServer DEF LoadOf
    <3>2. QED
      BY <1>2, <2>2, <3>1, LoadNext DEF LoadOf
  <2>3. CASE typed[c].cmd # "none"
    <3>1. Cardinality(At(pipe, Line(c))) <= 1 /\ \A k \in Server : Loads(c, k)
      BY <2>1, <2>3 DEF LoadOf
    <3>2. Cardinality(At(pipe, Line(c))') <= 1
      <4>1. Cardinality(At(pipe', Line(c))) <= Cardinality(At(pipe, Line(c)))
        BY <1>0, LineServer
      <4>2. Cardinality(At(pipe, Line(c))) \in Nat /\ Cardinality(At(pipe', Line(c))) \in Nat
        BY <1>0, <1>1, AtMembers DEF RingInv, TypeOK
      <4>3. At(pipe, Line(c))' = At(pipe', Line(c))
        BY LoadNext
      <4>4. QED
        BY <3>1, <4>1, <4>2, <4>3
    <3>3. ASSUME NEW k \in Server PROVE Loads(c, k)'
      <4>1. Account(c, k, all) /\ Loads(c, k) /\ c \in 1..MaxCommands
        BY <2>1, <3>1
      <4>2. CASE RecvPipe(n)
        BY <1>0, <1>1, <4>1, <4>2, LoadsRecv
      <4>3. CASE Bounce(n)
        <5>1. Fits(busy[n])
          BY <1>0, <4>3 DEF FitsInv, Bounce, Dispatching
        <5>2. QED
          BY <1>0, <1>1, <2>3, <4>1, <4>3, <5>1, LoadsBounce
      <4>4. CASE RadioCommand(n)
        BY <1>0, <1>1, <4>1, <4>4, LoadsRadio
      <4>5. CASE ServerCommand(n)
        BY <1>0, <1>1, <4>1, <4>5, LoadsServer
      <4>6. CASE ShellCommand(n)
        BY <1>0, <1>1, <4>1, <4>6, LoadsShell
      <4>7. CASE Notify(n)
        BY <1>0, <1>1, <4>1, <4>7, LoadsNotify
      <4>8. QED
        BY <4>2, <4>3, <4>4, <4>5, <4>6, <4>7 DEF ServerAct
    <3>4. QED
      BY <1>2, <2>3, <3>2, <3>3 DEF LoadOf
  <2>4. QED
    BY <2>2, <2>3
<1>4. QED
  BY <1>1, <1>2, <1>3 DEF LoadInv

LEMMA FitsType ==
  ASSUME RingInv, RingInv', FitsInv, NEW a \in Commands, Type(a)
  PROVE  FitsInv'
<1>0. pipe \in [Server -> Seq(Message)] /\ pipe' \in [Server -> Seq(Message)]
  BY DEF RingInv, TypeOK
<1>1. PICK s : s = Sent(a)
  OBVIOUS
<1>2. /\ s \in Message /\ SendPipe(0, s) /\ s.id = Len(typed) + 1 /\ s.cmd = a.cmd
      /\ Len(typed) \in Nat /\ Len(typed)' = Len(typed) + 1
      /\ typed'[Len(typed) + 1] = a /\ \A i \in 1..Len(typed) : typed'[i] = typed[i]
      /\ 0 \in Server /\ s.from.proc = 0 /\ s.to.proc = a.proc
  BY <1>1, SentType
<1>3. \A m : Fits(m) => Fits(m)'
  BY <1>2 DEF Fits
<1>4. Fits(s)'
  BY <1>2, CommandKinds DEF Fits
<1>5. PICK M : M = Misfits'
  OBVIOUS
<1>6. M \subseteq Misfits /\ s \notin M
  BY <1>3, <1>4, <1>5 DEF Misfits
<1>7. Cardinality(At(pipe, M)) = 0
  BY <1>0, <1>6, NotThere DEF FitsInv
<1>8. Cardinality(At(pipe', M)) = 0
  BY <1>2, <1>6, <1>7, SendCount
<1>9. At(pipe', M) = {}
  BY <1>0, <1>8, NoneAt
<1>10. At(pipe, Misfits)' = {}
  BY <1>5, <1>9 DEF At
<1>11. ASSUME NEW k \in Server PROVE busy'[k] \in Message => Fits(busy[k])'
  <2>1. busy' = busy
    BY DEF Type
  <2>2. PICK m : m = busy[k]
    OBVIOUS
  <2>3. m \in Message => Fits(m)'
    BY <1>3, <2>2 DEF FitsInv
  <2>4. QED
    BY <2>1, <2>2, <2>3 DEF Fits
<1>12. QED
  BY <1>10, <1>11 DEF FitsInv

LEMMA LoadTyped ==
  ASSUME NEW all \in BOOLEAN, AccountInv(all), LoadInv, NEW a \in Commands, Type(a)
  PROVE  LoadInv'
<1>0. RingInv /\ KnownInv /\ TypedInv /\ FitsInv
  BY DEF AccountInv, LoadInv
<1>1. RingInv' /\ FitsInv'
  BY <1>0, AccountType, FitsType DEF AccountInv
<1>2. PICK s : s = Sent(a)
  OBVIOUS
<1>3. /\ s \in Message /\ SendPipe(0, s) /\ s.id = Len(typed) + 1
      /\ Len(typed) \in Nat /\ Len(typed)' = Len(typed) + 1
      /\ typed'[Len(typed) + 1] = a /\ \A i \in 1..Len(typed) : typed'[i] = typed[i]
      /\ 0 \in Server /\ busy' = busy /\ Len(typed) + 1 \in 1..MaxCommands
  BY <1>0, <1>2, SentType, MaxCommandsAssumption DEF Type
<1>4. ASSUME NEW c \in 1..Len(typed) PROVE LoadOf(c)'
  <2>1. /\ LoadOf(c) /\ typed'[c] = typed[c] /\ s \notin About(c) /\ s \notin Line(c)
        /\ \A k \in Server : Account(c, k, all)
    BY <1>3, <1>4, TypedCommand DEF LoadInv, About, Line
  <2>2. /\ Cardinality(At(pipe', About(c))) = Cardinality(At(pipe, About(c)))
        /\ Cardinality(At(pipe', Line(c))) = Cardinality(At(pipe, Line(c)))
    BY <1>0, <1>3, <2>1, SendCount
  <2>3. CASE typed[c].cmd = "none"
    BY <1>3, <2>1, <2>2, <2>3, LoadNext DEF LoadOf
  <2>4. CASE typed[c].cmd # "none"
    <3>1. \A k \in Server : Loads(c, k)'
      BY <1>0, <1>1, <1>4, <2>1, <2>4, LoadsTyped DEF LoadOf
    <3>2. QED
      BY <2>1, <2>2, <2>4, <3>1, LoadNext DEF LoadOf
  <2>5. QED
    BY <2>3, <2>4
<1>5. ASSUME NEW c, c = Len(typed) + 1 PROVE LoadOf(c)'
  <2>1. \A m \in About(c) : m \in Misfits
    BY <1>3, <1>5 DEF About, Misfits, Fits
  <2>2. About(c) \cap Message \subseteq Misfits /\ Line(c) \cap Message \subseteq Misfits
    BY <2>1 DEF Line, About
  <2>3. Cardinality(At(pipe, About(c))) = 0 /\ Cardinality(At(pipe, Line(c))) = 0
    BY <1>0, <2>2, NotThere DEF FitsInv
  <2>4. Cardinality(At(pipe', About(c))) <= 1 /\ Cardinality(At(pipe', Line(c))) <= 1
    BY <1>0, <1>3, <2>3, SendCount
  <2>5. busy'[0].id # c
    <3>1. CASE busy[0] \in Message
      BY <1>0, <1>3, <1>5, <3>1 DEF FitsInv, Fits
    <3>2. CASE busy[0] \in {NoMessage, Notifying}
      BY <1>3, <1>5, <3>2 DEF NoMessage, Notifying
    <3>3. QED
      BY <1>0, <1>3, <3>1, <3>2 DEF RingInv, TypeOK
  <2>6. CASE a.cmd = "none"
    <3>1. Cardinality(At(pipe', About(c))) + 0 <= 1
      BY <1>0, <1>3, <2>3, <2>4, SendCount
    <3>2. QED
      BY <1>3, <1>5, <2>5, <2>6, <3>1, LoadNext DEF LoadOf
  <2>7. CASE a.cmd # "none"
    <3>1. \A k \in Server : Loads(c, k)'
      BY <1>0, <1>1, <1>3, <1>5, <2>7, LoadsNew
    <3>2. QED
      BY <1>3, <1>5, <2>4, <2>7, <3>1, LoadNext DEF LoadOf
  <2>8. QED
    BY <2>6, <2>7
<1>6. QED
  BY <1>1, <1>3, <1>4, <1>5 DEF LoadInv

\* The pipes are as they were.
LEMMA LoadIdle ==
  ASSUME LoadInv, UNCHANGED <<pipe, busy, typed>>,
         \A c \in 1..Len(typed), k \in Server : Loads(c, k) => Loads(c, k)'
  PROVE  LoadInv'
<1>1. \A m : Fits(m)' <=> Fits(m)
  BY DEF Fits
<1>2. At(pipe, Misfits)' = At(pipe, Misfits)
  BY LoadNext
<1>3. FitsInv'
  BY <1>1, <1>2 DEF LoadInv, FitsInv
<1>4. ASSUME NEW c \in 1..Len(typed) PROVE LoadOf(c)'
  BY LoadNext DEF LoadInv, LoadOf
<1>5. QED
  BY <1>3, <1>4 DEF LoadInv

LEMMA LoadStep ==
  ASSUME NEW all \in BOOLEAN, AccountInv(all), LoadInv, NoEcho, [Next]_vars
  PROVE  LoadInv'
<1>1. CASE \E c \in Commands : Type(c)
  BY <1>1, LoadTyped
<1>2. CASE Disconnect
  <2>1. RingInv'
    BY <1>2, AccountDisconnect DEF AccountInv
  <2>2. UNCHANGED <<pipe, busy, typed>>
    BY <1>2 DEF Disconnect
  <2>3. \A c \in 1..Len(typed), k \in Server : Loads(c, k) => Loads(c, k)'
    BY <1>2, <2>1, TypedCommand, LoadsDisconnect
  <2>4. QED
    BY <2>2, <2>3, LoadIdle
<1>3. CASE \E n \in Server : ServerStep(n) \/ Notify(n)
  BY <1>3, LoadServer DEF ServerStep, ServerAct
<1>4. CASE UNCHANGED vars
  <2>1. /\ pipe' = pipe /\ busy' = busy /\ owes' = owes /\ typed' = typed
        /\ done' = done /\ connected' = connected
    BY <1>4 DEF vars
  <2>2. ASSUME NEW c, NEW k \in Server PROVE Loads(c, k)' <=> Loads(c, k)
    <3>1. Load(c, k)' = Load(c, k)
      BY <2>1, LoadStay
    <3>2. ToHear(c, k)' = ToHear(c, k)
      BY <2>1 DEF ToHear, Front, IsAnswer, IsCommand, After
    <3>3. QED
      BY <2>1, <3>1, <3>2 DEF Loads, Answers
  <2>3. QED
    BY <2>1, <2>2, LoadIdle
<1>5. QED
  BY <1>1, <1>2, <1>3, <1>4 DEF Next

LEMMA LoadInit == Init => LoadInv
<1> SUFFICES ASSUME Init PROVE LoadInv
  OBVIOUS
<1>1. Len(typed) = 0 /\ \A k \in Server : busy[k] = NoMessage /\ pipe[k] = <<>>
  BY DEF Init
<1>2. pipe \in [Server -> Seq(Message)]
  BY RingInvInit DEF RingInv, TypeOK
<1>3. At(pipe, Misfits) = {}
  <2>1. \A k \in Server : Len(pipe[k]) = 0
    BY <1>1
  <2>2. QED
    BY <1>2, <2>1, AtMembers
<1>4. QED
  BY <1>1, <1>3, NoMessages DEF LoadInv, FitsInv

-----------------------------------------------------------------------------
(* What that makes in all.                                                 *)

\* A set of which each server owns no more than K elements.
LEMMA OwnersBound ==
  ASSUME NEW X, NEW owner \in [X -> Server], NEW K \in Nat,
         \A n \in Server : /\ IsFiniteSet({x \in X : owner[x] = n})
                           /\ Cardinality({x \in X : owner[x] = n}) <= K
  PROVE  Cardinality(X) <= NServer * K
<1> DEFINE Own(n) == {x \in X : owner[x] = n}
<1>1. ASSUME NEW n \in Server PROVE \E g : g \in Injection(Own(n), 1..K)
  <2>1. IsFiniteSet(Own(n)) /\ Cardinality(Own(n)) <= K /\ Cardinality(Own(n)) \in Nat
    BY FS_CardinalityType
  <2>2. PICK b : b \in Bijection(Own(n), 1..Cardinality(Own(n)))
    BY <2>1, FS_CardinalityType, Fun_ExistsBijSymmetric DEF ExistsBijection
  <2> HIDE DEF Own
  <2>3. b \in [Own(n) -> 1..Cardinality(Own(n))] /\ \A x, y \in Own(n) : b[x] = b[y] => x = y
    BY <2>2 DEF Bijection, Injection, IsInjective
  <2>4. b \in [Own(n) -> 1..K]
    BY <2>1, <2>3
  <2>5. QED
    BY <2>3, <2>4, Fun_IsInj
<1> DEFINE number == [n \in Server |-> CHOOSE g : g \in Injection(Own(n), 1..K)]
           place == [x \in X |-> <<owner[x], number[owner[x]][x]>>]
<1>2. \A n \in Server : number[n] \in Injection(Own(n), 1..K)
  BY <1>1
<1>3. ASSUME NEW n \in Server
      PROVE  /\ number[n] \in [Own(n) -> 1..K]
             /\ \A x, y \in Own(n) : number[n][x] = number[n][y] => x = y
  BY <1>2 DEF Injection, IsInjective
<1>4. \A x \in X : owner[x] \in Server /\ x \in Own(owner[x])
  OBVIOUS
<1> HIDE DEF number, Own
<1>5. place \in [X -> Server \X (1..K)]
  BY <1>3, <1>4
<1>6. \A x, y \in X : place[x] = place[y] => x = y
  <2>1. ASSUME NEW x \in X, NEW y \in X, place[x] = place[y] PROVE x = y
    <3>1. owner[x] = owner[y] /\ number[owner[x]][x] = number[owner[x]][y]
      BY <2>1
    <3>2. QED
      BY <1>3, <1>4, <3>1
  <2>2. QED
    BY <2>1
<1>7. place \in Injection(X, Server \X (1..K))
  BY <1>5, <1>6, Fun_IsInj
<1>8. /\ IsFiniteSet(Server) /\ Cardinality(Server) = NServer
      /\ IsFiniteSet(1..K) /\ Cardinality(1..K) = K
  <2>1. NServer - 1 \in Int /\ 0 \in Int /\ 1 \in Int /\ K \in Int
    BY NServerAssumption
  <2>2. Server = 0..(NServer - 1)
    BY DEF Server
  <2>3. IsFiniteSet(0..(NServer - 1)) /\ Cardinality(0..(NServer - 1)) = NServer
    <3>1. /\ IsFiniteSet(0..(NServer - 1))
          /\ Cardinality(0..(NServer - 1)) =
               IF 0 > NServer - 1 THEN 0 ELSE (NServer - 1) - 0 + 1
      BY <2>1, FS_Interval
    <3>2. NServer >= 1 /\ NServer \in Int
      BY NServerAssumption
    <3>3. QED
      BY <3>1, <3>2
  <2>4. IsFiniteSet(1..K) /\ Cardinality(1..K) = K
    <3>1. IsFiniteSet(1..K) /\ Cardinality(1..K) = IF 1 > K THEN 0 ELSE K - 1 + 1
      BY <2>1, FS_Interval
    <3>2. QED
      BY <3>1
  <2>5. QED
    BY <2>2, <2>3, <2>4
<1>9. IsFiniteSet(Server \X (1..K)) /\ Cardinality(Server \X (1..K)) = NServer * K
  BY <1>8, FS_Product
<1>10. QED
  BY <1>7, <1>9, FS_Injection

\* What is in the pipes about a command is the line, and what the servers have sent.
LEMMA WaitingBound ==
  ASSUME RingInv, NEW c, NEW K \in Nat,
         Cardinality(At(pipe, Line(c))) <= 1,
         \A n \in Server : Cardinality(At(pipe, Said(c, n))) <= K
  PROVE  Cardinality(At(pipe, About(c))) <= 1 + NServer * K
<1> DEFINE rest == About(c) \ Line(c)
           X == At(pipe, rest)
           owner == [w \in X |-> By(pipe[w[1]][w[2]])]
<1>0. pipe \in [Server -> Seq(Message)]
  BY DEF RingInv, TypeOK
<1>1. ASSUME NEW w \in X
      PROVE  By(pipe[w[1]][w[2]]) \in Server /\ pipe[w[1]][w[2]] \in rest
  <2>1. pipe[w[1]][w[2]] \in rest
    BY DEF At
  <2>2. pipe[w[1]][w[2]] \in Message
    BY <2>1 DEF About
  <2>3. pipe[w[1]][w[2]].from.proc \in Server
    BY <2>2 DEF Message
  <2>4. QED
    BY <2>1, <2>3 DEF By
<1>2. owner \in [X -> Server]
  BY <1>1
<1>3. ASSUME NEW n \in Server
      PROVE  /\ IsFiniteSet({w \in X : owner[w] = n})
             /\ Cardinality({w \in X : owner[w] = n}) <= K
  <2>1. {w \in X : owner[w] = n} \subseteq At(pipe, Said(c, n))
    <3>1. ASSUME NEW w \in X, owner[w] = n PROVE w \in At(pipe, Said(c, n))
      <4>1. pipe[w[1]][w[2]] \in Said(c, n)
        BY <1>1, <3>1 DEF Said, About, Line
      <4>2. QED
        BY <4>1 DEF At
    <3>2. QED
      BY <3>1
  <2>2. /\ IsFiniteSet(At(pipe, Said(c, n))) /\ Cardinality(At(pipe, Said(c, n))) \in Nat
        /\ Cardinality(At(pipe, Said(c, n))) <= K
    BY <1>0, AtMembers
  <2>3. /\ IsFiniteSet({w \in X : owner[w] = n})
        /\ Cardinality({w \in X : owner[w] = n}) <= Cardinality(At(pipe, Said(c, n)))
    BY <2>1, <2>2, FS_Subset
  <2>4. Cardinality({w \in X : owner[w] = n}) \in Nat
    BY <2>3, FS_CardinalityType
  <2>5. QED
    BY <2>2, <2>3, <2>4
<1>4. Cardinality(X) <= NServer * K
  <2> HIDE DEF X, owner
  <2>1. QED
    BY <1>2, <1>3, OwnersBound
<1>5. IsFiniteSet(X) /\ IsFiniteSet(At(pipe, Line(c)))
      /\ Cardinality(X) \in Nat /\ Cardinality(At(pipe, Line(c))) \in Nat
  BY <1>0, AtMembers
<1>6. At(pipe, About(c)) = At(pipe, Line(c)) \cup X
  BY DEF At, About, Line
<1>7. /\ IsFiniteSet(At(pipe, Line(c)) \cup X)
      /\ Cardinality(At(pipe, Line(c)) \cup X)
           = Cardinality(At(pipe, Line(c))) + Cardinality(X)
               - Cardinality(At(pipe, Line(c)) \cap X)
  BY <1>5, FS_Union
<1>8. Cardinality(At(pipe, Line(c)) \cap X) \in Nat
  <2>1. IsFiniteSet(At(pipe, Line(c)) \cap X)
    BY <1>5, FS_Subset
  <2>2. QED
    BY <2>1, FS_CardinalityType
<1>9. NServer * K \in Nat
  BY NServerAssumption
<1> HIDE DEF X, owner
<1>10. QED
  BY <1>4, <1>5, <1>6, <1>7, <1>8, <1>9

LEMMA LoadBound ==
  ASSUME NEW all \in BOOLEAN, AccountInv(all), LoadInv
  PROVE  PipeLoad
<1> SUFFICES ASSUME NEW c \in 1..Len(typed)
             PROVE  Cardinality(Waiting(c)) <= 1 + NServer * Caused(typed[c])
  BY DEF PipeLoad
<1>0. RingInv /\ RepeatsBounded /\ LoadOf(c)
  BY AccountBounds DEF AccountInv, LoadInv
<1>1. pipe \in [Server -> Seq(Message)]
  BY <1>0 DEF RingInv, TypeOK
<1>2. Waiting(c) = At(pipe, About(c))
  <2>1. ASSUME NEW w \in UNION {{n} \X DOMAIN pipe[n] : n \in Server}
        PROVE  pipe[w[1]][w[2]] \in Message
    <3>1. PICK n \in Server : w \in {n} \X DOMAIN pipe[n]
      OBVIOUS
    <3>2. pipe[n] \in Seq(Message)
      BY <1>1
    <3>3. QED
      BY <3>1, <3>2
  <2>2. QED
    BY <2>1 DEF Waiting, At, About
<1>3. Answers(typed[c]) \in {1, 2}
  BY DEF Answers
<1>4. Caused(typed[c]) \in Nat /\ NServer * Caused(typed[c]) \in Nat
  <2>1. Caused(typed[c]) \in Nat
    BY <1>3 DEF Caused
  <2>2. QED
    BY <2>1, NServerAssumption
<1>5. CASE typed[c].cmd = "none"
  <2>1. Cardinality(At(pipe, About(c))) + (IF busy[0].id = c THEN 1 ELSE 0) <= 1
    BY <1>0, <1>5 DEF LoadOf
  <2>2. Cardinality(At(pipe, About(c))) \in Nat
    BY <1>1, AtMembers
  <2>3. QED
    BY <1>2, <1>4, <2>1, <2>2
<1>6. CASE typed[c].cmd # "none"
  <2>1. ASSUME NEW n \in Server
        PROVE  Cardinality(At(pipe, Said(c, n))) <= Caused(typed[c])
    <3>1. /\ done[c][n] \in Nat /\ Cardinality(ToHear(c, n)) \in Nat
          /\ Load(c, n) \in Nat /\ Cardinality(At(pipe, Said(c, n))) \in Nat
          /\ Cardinality(Listed(owes[n], c)) \in Nat /\ c \in 1..MaxCommands
      BY <1>0, TypedCommand, Numbers, LoadType
    <3>2. Loads(c, n) /\ done[c][n] <= 1 + (IF connected THEN 0 ELSE Answers(typed[c]))
      BY <1>0, <1>6 DEF LoadOf, RepeatsBounded
    <3>3. Cardinality(At(pipe, Said(c, n))) <= Load(c, n)
      BY <3>1 DEF Load
    <3>4. CASE Answers(typed[c]) = 1
      BY <1>0, <3>1, <3>2, <3>3, <3>4, LoadsCases DEF Caused
    <3>5. CASE Answers(typed[c]) = 2
      BY <1>0, <3>1, <3>2, <3>3, <3>5, LoadsCases DEF Caused
    <3>6. QED
      BY <1>3, <3>4, <3>5
  <2>2. Cardinality(At(pipe, Line(c))) <= 1
    BY <1>0, <1>6 DEF LoadOf
  <2>3. QED
    BY <1>0, <1>2, <1>4, <2>1, <2>2, WaitingBound
<1>7. QED
  BY <1>5, <1>6

\* However many servers there are and whatever is typed: the messages on account of a
\* command that wait in the pipes at once are never more than the line itself, and of
\* each server its answers and what comes of those that find no shell.  An operator
\* who can leave types no lt, as above.
THEOREM RingPipeLoad ==
  ASSUME Disconnects => \A c \in Commands : c.cmd # "lt"
  PROVE  Spec => []PipeLoad
<1>1. Init => Always /\ LoadInv
  BY AccountInit, LoadInit DEF Always, Init
<1>2. Always /\ LoadInv /\ [Next]_vars => Always' /\ LoadInv'
  BY AccountStep, LoadStep, ConnectedBefore, DisconnectsAssumption DEF Always, NoEcho
<1>3. Always /\ LoadInv => PipeLoad
  BY LoadBound DEF Always
<1>4. QED
  BY <1>1, <1>2, <1>3, PTL DEF Spec
=============================================================================
