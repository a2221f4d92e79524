--------------------------- MODULE RingExitProofs ----------------------------
(***************************************************************************)
(* The wiring of the ring, proved for every number of servers, whatever    *)
(* forks fail and whoever ends when; and the ring at work, which keeps to  *)
(* this wiring and to what RingProofs proves of the messages.              *)
(***************************************************************************)
EXTENDS RingExit, RingProofs

-----------------------------------------------------------------------------
(* The next server.                                                        *)

LEMMA SuccType ==
  ASSUME NEW n \in Server
  PROVE  /\ Succ(n) \in Server
         /\ Succ(n) = IF n + 1 < NServer THEN n + 1 ELSE 0
BY NServerAssumption DEF Succ, Server

\* No two servers write to the same one ...
LEMMA SuccInjective ==
  ASSUME NEW m \in Server, NEW n \in Server, Succ(m) = Succ(n)
  PROVE  m = n
BY SuccType, NServerAssumption DEF Server

\* ... and there is one that writes to each.
LEMMA SuccOnto ==
  ASSUME NEW n \in Server
  PROVE  \E m \in Server : Succ(m) = n
<1> DEFINE m == IF n = 0 THEN NServer - 1 ELSE n - 1
<1>1. m \in Server
  BY NServerAssumption DEF Server
<1>2. Succ(m) = n
  BY <1>1, SuccType, NServerAssumption DEF Server
<1>3. QED
  BY <1>1, <1>2

-----------------------------------------------------------------------------
(* The wiring.                                                             *)

\* The ends a server needs.
Own(n) == {ReadEnd(n), WriteEnd(Succ(n))}

\* The loop has sorted the entries before sorted and not touched the others; who
\* holds what follows.  A server has both of its ends, or has ended.
WiringInv ==
  /\ sorted \in 0..NServer /\ forked \in 0..NServer
  /\ mFd = [n \in Server |->
             [reads |-> ReadEnd(n),
              writes |-> IF n < sorted THEN WriteEnd(Succ(n)) ELSE WriteEnd(n)]]
  /\ holds \in [Process -> SUBSET Ends]
  /\ holds[Parent] \in {Ends, {}}
  /\ \A n \in Server : holds[n] \in {Own(n), {}}

LEMMA OwnType ==
  ASSUME NEW n \in Server
  PROVE  Own(n) \in SUBSET Ends
BY SuccType DEF Own, Ends

\* Closing what the others read and write leaves a server its own ends.
LEMMA KeptIsOwn ==
  ASSUME WiringInv, sorted = NServer, holds[Parent] = Ends, NEW n \in Server
  PROVE  KeptAtServer(n) = Own(n)
<1>1. \A k \in Server : mFd[k].reads = ReadEnd(k) /\ mFd[k].writes = WriteEnd(Succ(k))
  BY NServerAssumption DEF WiringInv, Server
<1>2. KeptAtServer(n) = Ends \ ({ReadEnd(k) : k \in Server \ {n}}
                                \cup {WriteEnd(Succ(k)) : k \in Server \ {n}})
  BY <1>1 DEF KeptAtServer
<1>3. \A k \in Server, l \in Server :
        /\ ReadEnd(k) = ReadEnd(l) => k = l
        /\ WriteEnd(k) = WriteEnd(l) => k = l
        /\ ReadEnd(k) # WriteEnd(l)
  BY DEF ReadEnd, WriteEnd
<1>4. Own(n) \subseteq KeptAtServer(n)
  <2>1. ReadEnd(n) \in KeptAtServer(n)
    BY <1>2, <1>3, SuccType DEF Ends
  <2>2. WriteEnd(Succ(n)) \in KeptAtServer(n)
    BY <1>2, <1>3, SuccType, SuccInjective DEF Ends
  <2>3. QED
    BY <2>1, <2>2 DEF Own
<1>5. ASSUME NEW e \in KeptAtServer(n) PROVE e \in Own(n)
  <2>1. CASE \E k \in Server : e = ReadEnd(k)
    BY <1>2, <1>5, <2>1 DEF Own
  <2>2. CASE \E k \in Server : e = WriteEnd(k)
    BY <1>2, <1>5, <2>2, SuccOnto DEF Own
  <2>3. QED
    BY <1>2, <1>5, <2>1, <2>2 DEF Ends
<1>6. QED
  BY <1>4, <1>5

LEMMA WiringInvInit == WiringInit => WiringInv
<1> SUFFICES ASSUME WiringInit PROVE WiringInv
  OBVIOUS
<1>1. sorted \in 0..NServer /\ forked \in 0..NServer
  BY NServerAssumption DEF WiringInit
<1>2. \A n \in Server : ~(n < sorted)
  BY DEF WiringInit, Server
<1>3. mFd = [n \in Server |->
              [reads |-> ReadEnd(n),
               writes |-> IF n < sorted THEN WriteEnd(Succ(n)) ELSE WriteEnd(n)]]
  <2>1. mFd = [n \in Server |-> [reads |-> ReadEnd(n), writes |-> WriteEnd(n)]]
    BY DEF WiringInit
  <2>2. QED
    BY <1>2, <2>1, Zenon
<1>4. /\ holds \in [Process -> SUBSET Ends]
      /\ holds[Parent] \in {Ends, {}}
      /\ \A n \in Server : holds[n] \in {Own(n), {}}
  <2>1. Parent \in Process /\ \A n \in Server : n \in Process /\ n # Parent
    BY NServerAssumption DEF Process, Parent, Server
  <2>2. holds = [p \in Process |-> IF p = Parent THEN Ends ELSE {}]
    BY DEF WiringInit
  <2> HIDE DEF Process, Parent, Server
  <2>3. holds[Parent] = Ends /\ \A n \in Server : holds[n] = {}
    BY <2>1, <2>2
  <2>4. \A p \in Process : (IF p = Parent THEN Ends ELSE {}) \in SUBSET Ends
    OBVIOUS
  <2>5. holds \in [Process -> SUBSET Ends]
    BY <2>2, <2>4
  <2>6. QED
    BY <2>3, <2>5
<1>5. QED
  BY <1>1, <1>3, <1>4 DEF WiringInv

LEMMA SortStep == WiringInv /\ Sort => WiringInv'
<1> SUFFICES ASSUME WiringInv, Sort PROVE WiringInv'
  OBVIOUS
<1>1. sorted \in Server /\ sorted' = sorted + 1 /\ sorted' \in 0..NServer
  BY NServerAssumption DEF WiringInv, Sort, Server
<1>2. mFd' = [mFd EXCEPT ![sorted].writes = WriteEnd(Succ(sorted))]
  <2>1. CASE sorted + 1 < NServer
    <3>1. sorted + 1 \in Server
      BY <1>1, <2>1, NServerAssumption DEF Server
    <3>2. mFd[sorted + 1].writes = WriteEnd(sorted + 1)
      BY <1>1, <3>1 DEF WiringInv, Server
    <3>3. QED
      BY <1>1, <2>1, <3>2, SuccType DEF Sort
  <2>2. CASE ~(sorted + 1 < NServer)
    BY <1>1, <2>2, SuccType DEF Sort, Start
  <2>3. QED
    BY <2>1, <2>2
<1>3. mFd' = [n \in Server |->
               [reads |-> ReadEnd(n),
                writes |-> IF n < sorted' THEN WriteEnd(Succ(n)) ELSE WriteEnd(n)]]
  <2> DEFINE Entry(n, k) == [reads |-> ReadEnd(n),
                             writes |-> IF n < k THEN WriteEnd(Succ(n)) ELSE WriteEnd(n)]
  <2>1. mFd = [n \in Server |-> Entry(n, sorted)]
    BY DEF WiringInv
  <2>2. \A n \in Server : n # sorted => (n < sorted' <=> n < sorted)
    BY <1>1 DEF Server
  <2>3. \A n \in Server : n # sorted => Entry(n, sorted') = Entry(n, sorted)
    BY <2>2
  <2>4. [Entry(sorted, sorted) EXCEPT !.writes = WriteEnd(Succ(sorted))] = Entry(sorted, sorted')
    BY <1>1 DEF Server
  <2> HIDE DEF Entry
  <2>5. mFd' = [n \in Server |-> Entry(n, sorted')]
    BY <1>1, <1>2, <2>1, <2>3, <2>4
  <2>6. QED
    BY <2>5 DEF Entry
<1>4. UNCHANGED <<forked, holds>>
  BY DEF Sort
<1>5. QED
  BY <1>1, <1>3, <1>4 DEF WiringInv

LEMMA ForkStep ==
  ASSUME NEW n \in Server
  PROVE  WiringInv /\ (Fork(n) \/ ForkFails(n)) => WiringInv'
<1> SUFFICES ASSUME WiringInv, Fork(n) \/ ForkFails(n) PROVE WiringInv'
  OBVIOUS
<1>1. forked' \in 0..NServer
  BY NServerAssumption DEF WiringInv, Fork, ForkFails
<1>2. UNCHANGED <<mFd, sorted>>
  BY DEF Fork, ForkFails
<1>3. CASE Fork(n)
  <2>1. KeptAtServer(n) \in {Own(n), {}}
    <3>1. CASE holds[Parent] = Ends
      BY <1>3, <3>1, KeptIsOwn DEF Fork
    <3>2. CASE holds[Parent] = {}
      BY <3>2 DEF KeptAtServer
    <3>3. QED
      BY <3>1, <3>2 DEF WiringInv
  <2>2. n \in Process /\ n # Parent
    BY DEF Process, Parent, Server
  <2>3. holds' = [holds EXCEPT ![n] = KeptAtServer(n)]
    BY <1>3 DEF Fork
  <2>4. KeptAtServer(n) \in SUBSET Ends
    BY <2>1, OwnType
  <2>5. QED
    BY <1>1, <1>2, <2>1, <2>2, <2>3, <2>4 DEF WiringInv, Process
<1>4. CASE ForkFails(n)
  BY <1>1, <1>2, <1>4 DEF WiringInv, ForkFails
<1>5. QED
  BY <1>3, <1>4

LEMMA EndsStep ==
  ASSUME WiringInv, NEW p \in Process, holds' = [holds EXCEPT ![p] = {}],
         UNCHANGED <<mFd, sorted, forked>>
  PROVE  WiringInv'
BY DEF WiringInv, Process

LEMMA WiringInvStep == WiringInv /\ [WiringNext]_wiringVars => WiringInv'
<1> SUFFICES ASSUME WiringInv, [WiringNext]_wiringVars PROVE WiringInv'
  OBVIOUS
<1>1. CASE Sort
  BY <1>1, SortStep
<1>2. CASE \E n \in Server : Fork(n) \/ ForkFails(n)
  BY <1>2, ForkStep
<1>3. CASE \E n \in Server : End(n)
  BY <1>3, EndsStep DEF End, Process
<1>4. CASE ParentLeaves
  BY <1>4, EndsStep DEF ParentLeaves, Process
<1>5. CASE UNCHANGED wiringVars
  BY <1>5 DEF WiringInv, wiringVars
<1>6. QED
  BY <1>1, <1>2, <1>3, <1>4, <1>5 DEF WiringNext

\* The ring is closed and nobody holds an end too many, as soon as the first
\* process has left: through every server that was not forked or has ended.
LEMMA WiringGivesOneReader == WiringInv => OneReaderOneWriter
<1> SUFFICES ASSUME WiringInv, NEW p \in Process, NEW n \in Server, holds[Parent] = {}
             PROVE  /\ ReadEnd(n) \in holds[p] <=> p = n /\ Alive(n)
                    /\ WriteEnd(n) \in holds[p] <=> p \in Server /\ Succ(p) = n /\ Alive(p)
  BY DEF OneReaderOneWriter
<1>1. CASE p = Parent
  BY <1>1 DEF Parent, Server
<1>2. CASE p \in Server
  <2>1. holds[p] = {} \/ holds[p] = {ReadEnd(p), WriteEnd(Succ(p))}
    BY <1>2 DEF WiringInv, Own
  <2>2. /\ ReadEnd(n) = ReadEnd(p) <=> p = n
        /\ WriteEnd(n) = WriteEnd(Succ(p)) <=> Succ(p) = n
        /\ ReadEnd(n) # WriteEnd(Succ(p)) /\ WriteEnd(n) # ReadEnd(p)
    BY DEF ReadEnd, WriteEnd
  <2>3. QED
    BY <1>2, <2>1, <2>2 DEF Alive
<1>3. QED
  BY <1>1, <1>2 DEF Process

LEMMA WiringInvariant == WiringSpec => []WiringInv
BY WiringInvInit, WiringInvStep, PTL DEF WiringSpec

\* However many servers there are: once the first process has left, the pipes
\* form one ring, in which each is read by one server and written by one.
THEOREM WiringOneReaderOneWriter == WiringSpec => []OneReaderOneWriter
BY WiringInvariant, WiringGivesOneReader, PTL

-----------------------------------------------------------------------------
(* The wiring: nothing but its own actions changes it.                     *)

LEMMA ExitStepWires == [ExitNext]_lifeVars => [WiringNext]_wiringVars
<1> SUFFICES ASSUME [ExitNext]_lifeVars PROVE [WiringNext]_wiringVars
  OBVIOUS
<1>1. CASE Starting
  BY <1>1 DEF Starting, WiringNext
<1>2. CASE Running(0, Operator)
  BY <1>2 DEF Running, exitVars
<1>3. CASE \E n \in Server : ServerLives(n)
  <2>1. PICK n \in Server : ServerLives(n)
    BY <1>3
  <2>2. CASE \/ Running(n, Reading(n) \/ Dispatch(n))
             \/ Running(n, busy[n] = Notifying /\ Notify(n))
    BY <2>2 DEF Running, exitVars
  <2>3. CASE ObeyQuit(n)
    BY <2>3 DEF ObeyQuit
  <2>4. CASE Leave(n) \/ SigPipe(n)
    BY <2>4 DEF Leave, SigPipe, WiringNext
  <2>5. CASE n = 0 /\ (EndOfFile \/ EndOfFileBroken)
    BY <2>5 DEF EndOfFile, EndOfFileBroken, exitVars, WiringNext
  <2>6. QED
    BY <2>1, <2>2, <2>3, <2>4, <2>5 DEF ServerLives
<1>4. CASE \E n \in Server : Running(n, Notify(n))
  BY <1>4 DEF Running, exitVars
<1>5. CASE \E n \in Server : Crash(n)
  BY <1>5 DEF Crash, WiringNext
<1>6. CASE UNCHANGED lifeVars
  BY <1>6 DEF lifeVars, exitVars
<1>7. QED
  BY <1>1, <1>2, <1>3, <1>4, <1>5, <1>6 DEF ExitNext

LEMMA ExitWiringInvariant == ExitSpec => []WiringInv
<1>1. ExitInit => WiringInv
  BY WiringInvInit DEF ExitInit
<1>2. WiringInv /\ [ExitNext]_lifeVars => WiringInv'
  BY ExitStepWires, WiringInvStep
<1>3. QED
  BY <1>1, <1>2, PTL DEF ExitSpec

\* While commands go round, servers leave and forks fail, no process holds an end
\* of a pipe that belongs to another pair of servers.
THEOREM ExitOneReaderOneWriter == ExitSpec => []OneReaderOneWriter
BY ExitWiringInvariant, WiringGivesOneReader, PTL

-----------------------------------------------------------------------------
(* The messages.                                                           *)

\* What server 0 answers at the end of the file.
LEMMA EndOfFileStep ==
  ASSUME RingInv, EndOfFile
  PROVE  RingInv'
<1> DEFINE empty == [id |-> 0, cmd |-> "none", from |-> Nobody, to |-> Nobody]
<1>1. 0 \in Server
  BY NServerAssumption DEF Server
<1>2. Mine(0, empty)
  BY <1>1, MaxCommandsAssumption DEF Mine, Message, Nobody, TaskName
<1>3. SendPipe(0, TaskNotFound(0, empty))
  BY DEF EndOfFile
<1> HIDE DEF empty
<1>4. pipe' \in [Server -> Seq(Message)]
  BY <1>1, <1>2, <1>3, AnswerType, SendType DEF RingInv, TypeOK
<1>5. QED
  BY <1>4 DEF EndOfFile, RingInv, TypeOK

LEMMA RingUntouched ==
  ASSUME RingInv, UNCHANGED vars
  PROVE  RingInv'
BY DEF vars, RingInv, TypeOK

LEMMA ExitRingStep == RingInv /\ [ExitNext]_lifeVars => RingInv'
<1> SUFFICES ASSUME RingInv, [ExitNext]_lifeVars PROVE RingInv'
  OBVIOUS
<1>1. CASE Starting \/ (\E n \in Server : Crash(n)) \/ UNCHANGED lifeVars
  BY <1>1, RingUntouched DEF Starting, Crash, lifeVars
<1>2. CASE Running(0, Operator)
  BY <1>2, RingInvStep DEF Running, Operator, Next
<1>3. CASE \E n \in Server : Running(n, Notify(n))
  BY <1>3, NotifyStep DEF Running
<1>4. CASE \E n \in Server : ServerLives(n)
  <2>1. PICK n \in Server : ServerLives(n)
    BY <1>4
  <2>2. CASE \/ Running(n, Reading(n) \/ Dispatch(n))
             \/ Running(n, busy[n] = Notifying /\ Notify(n))
    BY <2>2, RecvPipeStep, BounceStep, RadioCommandStep, ServerCommandStep,
       ShellCommandStep, NotifyStep DEF Running, Reading, Dispatch
  <2>3. CASE ObeyQuit(n)
    BY <2>3, DoneType DEF ObeyQuit, RingInv, TypeOK
  <2>4. CASE Leave(n) \/ SigPipe(n)
    BY <2>4, RingUntouched DEF Leave, SigPipe
  <2>5. CASE n = 0 /\ (EndOfFile \/ EndOfFileBroken)
    BY <2>5, EndOfFileStep, RingUntouched DEF EndOfFileBroken
  <2>6. QED
    BY <2>1, <2>2, <2>3, <2>4, <2>5 DEF ServerLives
<1>5. QED
  BY <1>1, <1>2, <1>3, <1>4 DEF ExitNext

\* What is left to say of the types.
LifeTypeOK == leaving \subseteq Server /\ crashed \in BOOLEAN

LEMMA LifeTypeStep == LifeTypeOK /\ [ExitNext]_lifeVars => LifeTypeOK'
<1> SUFFICES ASSUME LifeTypeOK, [ExitNext]_lifeVars PROVE LifeTypeOK'
  OBVIOUS
<1>1. CASE Starting \/ (\E n \in Server : Crash(n)) \/ UNCHANGED lifeVars
  BY <1>1 DEF Starting, Crash, lifeVars, exitVars, LifeTypeOK
<1>2. CASE \/ Running(0, Operator)
           \/ \E n \in Server : Running(n, Notify(n))
  BY <1>2 DEF Running, exitVars, LifeTypeOK
<1>3. CASE \E n \in Server : ServerLives(n)
  BY <1>3 DEF ServerLives, Running, ObeyQuit, Leave, SigPipe, EndOfFile,
              EndOfFileBroken, exitVars, LifeTypeOK
<1>4. QED
  BY <1>1, <1>2, <1>3 DEF ExitNext

\* Through starts, ends and the errors of server 0 at the end of the file, what
\* travels is a message of one server of the ring, and every process holds ends of
\* its pipes only.
THEOREM ExitTypeCorrect == ExitSpec => []ExitTypeOK
<1>1. ExitInit => RingInv /\ LifeTypeOK
  BY RingInvInit DEF ExitInit, LifeTypeOK
<1>2. RingInv /\ LifeTypeOK /\ [ExitNext]_lifeVars => (RingInv /\ LifeTypeOK)'
  BY ExitRingStep, LifeTypeStep
<1>3. WiringInv /\ RingInv /\ LifeTypeOK => ExitTypeOK
  <2> SUFFICES ASSUME WiringInv, RingInv, LifeTypeOK PROVE WiringTypeOK
    BY DEF ExitTypeOK, RingInv, LifeTypeOK
  <2>1. \A n \in Server : ReadEnd(n) \in Ends /\ WriteEnd(n) \in Ends
                          /\ WriteEnd(Succ(n)) \in Ends
    BY SuccType DEF Ends
  <2>2. mFd \in [Server -> [reads : Ends, writes : Ends]]
    BY <2>1 DEF WiringInv
  <2>3. QED
    BY <2>2 DEF WiringInv, WiringTypeOK
<1>4. QED
  BY <1>1, <1>2, <1>3, ExitWiringInvariant, PTL DEF ExitSpec

-----------------------------------------------------------------------------
(* What is carried out and heard while servers start and end.              *)

\* A step of a server that is alive, and of the operator, is a step of the ring; what
\* is not is quit obeyed, and the answer of server 0 at the end of the file.
LEMMA ExitStepRings ==
  ASSUME [ExitNext]_lifeVars
  PROVE  [Next]_vars \/ (\E n \in Server : ObeyQuit(n)) \/ EndOfFile
<1>1. CASE Starting \/ (\E n \in Server : Crash(n)) \/ UNCHANGED lifeVars
  BY <1>1 DEF Starting, Crash, lifeVars
<1>2. CASE Running(0, Operator)
  BY <1>2 DEF Running, Operator, Next
<1>3. CASE \E n \in Server : Running(n, Notify(n))
  BY <1>3 DEF Running, Next
<1>4. CASE \E n \in Server : ServerLives(n)
  <2>1. PICK n \in Server : ServerLives(n)
    BY <1>4
  <2>2. CASE \/ Running(n, Reading(n) \/ Dispatch(n))
             \/ Running(n, busy[n] = Notifying /\ Notify(n))
    BY <2>2 DEF Running, Reading, Dispatch, Next, ServerStep
  <2>3. CASE ObeyQuit(n)
    BY <2>3
  <2>4. CASE Leave(n) \/ SigPipe(n)
    BY <2>4 DEF Leave, SigPipe
  <2>5. CASE n = 0 /\ (EndOfFile \/ EndOfFileBroken)
    BY <2>5 DEF EndOfFileBroken
  <2>6. QED
    BY <2>1, <2>2, <2>3, <2>4, <2>5 DEF ServerLives
<1>5. QED
  BY <1>1, <1>2, <1>3, <1>4 DEF ExitNext

\* What a server obeys is the quit that was typed.
LEMMA ObeyKind ==
  ASSUME RingInv, KnownInv, NEW n \in Server, ObeyQuit(n)
  PROVE  Numbered(busy[n]) /\ Asks(busy[n]) /\ typed[busy[n].id].cmd = "quit"
<1>1. busy[n] \in Message /\ busy[n].cmd = "quit" /\ Known(busy[n])
  BY DEF ObeyQuit, Dispatching, KnownInv
<1>2. QED
  BY <1>1 DEF Known, Empty, Numbered, Tells, Returns, Ignored

LEMMA CountObey ==
  ASSUME RingInv, KnownInv, NEW n \in Server, ObeyQuit(n),
         NEW c \in 1..MaxCommands, NEW k \in Server, Account(c, k, FALSE)
  PROVE  Account(c, k, FALSE)'
<1>1. /\ pipe' = pipe /\ owes' = owes /\ typed' = typed /\ done' = done /\ heard' = heard
      /\ connected' = connected /\ merged' = merged /\ busy' = [busy EXCEPT ![n] = NoMessage]
  BY DEF ObeyQuit
<1>2. ~IsAnswer(c, k, busy[n]) /\ ~IsReturn(c, k, busy[n])
      /\ (IsCommand(c, busy[n]) => ~Due(c, FALSE))
  BY ObeyKind, TypedKinds DEF Asks, Numbered, IsCommand, IsAnswer, IsReturn, Due
<1>3. \A p \in Server : /\ p \in ToDo(c, k)' <=> p \in ToDo(c, k)
                        /\ p \in ToHear(c, k)' <=> p \in ToHear(c, k)
                        /\ p \in ToRedo(c, k)' <=> p \in ToRedo(c, k)
  BY <1>1, PipesKept
<1>4. /\ Hand \in ToDo(c, k)' <=> Hand \in ToDo(c, k) /\ k # n
      /\ Hand \in ToHear(c, k)' <=> Hand \in ToHear(c, k)
      /\ Hand \in ToRedo(c, k)' <=> Hand \in ToRedo(c, k)
  BY <1>1, <1>2, HandCleared, Where
<1>5. Book \in ToHear(c, k)' <=> Book \in ToHear(c, k)
  BY <1>1, Where, WhereNext
<1>6. ToHear(c, k)' = ToHear(c, k)
  BY <1>3, <1>4, <1>5, PlaceType, SameSets
<1>7. ToRedo(c, k)' = ToRedo(c, k)
  BY <1>3, <1>4, SameSets
<1>8. Whole' => Whole
  BY <1>1 DEF Whole
<1>9. CASE k = n /\ IsCommand(c, busy[n])
  <2>1. ToDo(c, k)' \subseteq ToDo(c, k)
    BY <1>3, <1>4, PlaceType, Where, WhereNext
  <2>2. Cardinality(ToDo(c, k)') <= Cardinality(ToDo(c, k))
    BY <2>1, PlaceCount, Where, WhereNext
  <2>3. ~Due(c, FALSE)
    BY <1>2, <1>9
  <2>4. /\ Cardinality(ToHear(c, k)') <= Cardinality(ToHear(c, k))
        /\ Cardinality(ToRedo(c, k)') <= Cardinality(ToRedo(c, k))
    BY <1>6, <1>7, Numbers
  <2>5. /\ typed'[c] = typed[c] /\ (connected' => connected)
        /\ done'[c][k] = done[c][k] /\ heard'[c][k] = heard[c][k]
    BY <1>1
  <2>6. ASSUME NEW all \in BOOLEAN, all = FALSE PROVE Account(c, k, all)'
    BY <2>2, <2>3, <2>4, <2>5, <2>6, Kept
  <2>7. QED
    BY <2>6
<1>10. CASE ~(k = n /\ IsCommand(c, busy[n]))
  <2>1. Hand \in ToDo(c, k)' <=> Hand \in ToDo(c, k)
    BY <1>4, <1>10, Where
  <2>2. ToDo(c, k)' = ToDo(c, k)
    BY <1>3, <2>1, SameSets
  <2>3. QED
    BY <1>1, <1>6, <1>7, <1>8, <2>2, KeptSets
<1>11. QED
  BY <1>9, <1>10

\* The answer at the end of the file belongs to no command.
LEMMA NobodysAnswer ==
  ASSUME EndOfFile
  PROVE  \E r \in Message : SendPipe(0, r) /\ Empty(r) /\ r.id = 0
<1> DEFINE empty == [id |-> 0, cmd |-> "none", from |-> Nobody, to |-> Nobody]
<1>1. 0 \in Server /\ Mine(0, empty)
  BY NServerAssumption, MaxCommandsAssumption DEF Server, Mine, Message, Nobody, TaskName
<1>2. empty.id = 0 /\ empty.cmd = "none" /\ empty.from.task = "none"
  BY DEF Nobody
<1>3. SendPipe(0, TaskNotFound(0, empty))
  BY DEF EndOfFile
<1> HIDE DEF empty
<1>4. QED
  BY <1>1, <1>2, <1>3, AnswerFields DEF Empty

LEMMA KnownEndOfFile ==
  ASSUME RingInv, KnownInv, EndOfFile
  PROVE  KnownInv'
<1>1. PICK r \in Message : SendPipe(0, r) /\ Empty(r) /\ r.id = 0
  BY NobodysAnswer
<1>2. 0 \in Server /\ Known(r)
  BY <1>1, NServerAssumption DEF Server, Known
<1>3. busy' = busy /\ UNCHANGED <<typed, connected>> /\ UNCHANGED owes
  BY DEF EndOfFile
<1>4. QED
  BY <1>1, <1>2, <1>3, KnownSend

LEMMA CountEndOfFile ==
  ASSUME RingInv, EndOfFile,
         NEW c \in 1..MaxCommands, NEW k \in Server, Account(c, k, FALSE)
  PROVE  Account(c, k, FALSE)'
<1>1. PICK r \in Message : SendPipe(0, r) /\ Empty(r) /\ r.id = 0
  BY NobodysAnswer
<1>2. /\ busy' = busy /\ owes' = owes /\ typed' = typed /\ done' = done
      /\ heard' = heard /\ connected' = connected /\ merged' = merged /\ 0 \in Server
  BY NServerAssumption DEF EndOfFile, Server
<1>3. ~IsCommand(c, r) /\ ~IsAnswer(c, k, r) /\ ~IsReturn(c, k, r)
  BY <1>1 DEF IsCommand, IsAnswer, IsReturn
<1>4. \A p \in Server : /\ p \in ToDo(c, k)' <=> p \in ToDo(c, k)
                        /\ p \in ToHear(c, k)' <=> p \in ToHear(c, k)
                        /\ p \in ToRedo(c, k)' <=> p \in ToRedo(c, k)
  BY <1>1, <1>2, <1>3, SendPlaces
<1>5. /\ Hand \in ToDo(c, k)' <=> Hand \in ToDo(c, k)
      /\ Hand \in ToHear(c, k)' <=> Hand \in ToHear(c, k)
      /\ Hand \in ToRedo(c, k)' <=> Hand \in ToRedo(c, k)
      /\ Book \in ToHear(c, k)' <=> Book \in ToHear(c, k)
  BY <1>2, Where, WhereNext
<1>6. ToDo(c, k)' = ToDo(c, k) /\ ToRedo(c, k)' = ToRedo(c, k)
  BY <1>4, <1>5, SameSets
<1>7. ToHear(c, k)' = ToHear(c, k)
  BY <1>4, <1>5, PlaceType, SameSets
<1>8. Whole' => Whole
  BY <1>1, <1>2, WholeSend
<1>9. QED
  BY <1>2, <1>6, <1>7, <1>8, KeptSets

\* The accounts, but for that of quit, which no server records to have obeyed.
LEMMA AccountExit ==
  ASSUME AccountInv(FALSE), NoEcho, [ExitNext]_lifeVars
  PROVE  AccountInv(FALSE)'
<1>1. RingInv /\ KnownInv /\ TypedInv /\ ListedOnce /\ CountInv(FALSE)
  BY DEF AccountInv
<1>2. CASE [Next]_vars
  BY <1>2, AccountStep
<1>3. RingInv'
  BY <1>1, ExitRingStep
<1>4. ASSUME typed' = typed, owes' = owes, done' = done, heard' = heard
      PROVE  TypedInv' /\ ListedOnce'
  BY <1>1, <1>4 DEF TypedInv, ListedOnce
<1>5. \A c \in 1..Len(typed) : c \in 1..MaxCommands
  BY <1>1, MaxCommandsAssumption DEF TypedInv, RingInv, TypeOK
<1>6. ASSUME NEW n \in Server, ObeyQuit(n) PROVE AccountInv(FALSE)'
  <2>1. typed' = typed /\ owes' = owes /\ done' = done /\ heard' = heard
    BY <1>6 DEF ObeyQuit
  <2>2. KnownInv'
    BY <1>1, <1>6, KnownDone DEF ObeyQuit
  <2>3. CountInv(FALSE)'
    BY <1>1, <1>5, <1>6, <2>1, CountObey DEF CountInv
  <2>4. QED
    BY <1>3, <1>4, <2>1, <2>2, <2>3 DEF AccountInv
<1>7. CASE EndOfFile
  <2>1. typed' = typed /\ owes' = owes /\ done' = done /\ heard' = heard
    BY <1>7 DEF EndOfFile
  <2>2. KnownInv'
    BY <1>1, <1>7, KnownEndOfFile
  <2>3. CountInv(FALSE)'
    BY <1>1, <1>5, <1>7, <2>1, CountEndOfFile DEF CountInv
  <2>4. QED
    BY <1>3, <1>4, <2>1, <2>2, <2>3 DEF AccountInv
<1>8. QED
  BY <1>2, <1>6, <1>7, ExitStepRings

LEMMA ConnectedExit ==
  ASSUME [ExitNext]_lifeVars
  PROVE  /\ connected' => connected
         /\ connected /\ ~connected' => Disconnects
<1>1. CASE [Next]_vars
  BY <1>1, ConnectedBefore
<1>2. CASE (\E n \in Server : ObeyQuit(n)) \/ EndOfFile
  BY <1>2 DEF ObeyQuit, EndOfFile
<1>3. QED
  BY <1>1, <1>2, ExitStepRings

ExitAlways == AccountInv(FALSE) /\ (connected \/ Disconnects)

\* Nor is a command carried out or answered too often while servers start, leave and
\* die, although what a server that is gone was sent lies in its pipe for ever, and
\* server 0 answers the end of the file.
THEOREM ExitRepeatsBounded ==
  ASSUME Disconnects => \A c \in Commands : c.cmd # "lt"
  PROVE  ExitSpec => []RepeatsBounded
<1>1. ExitInit => ExitAlways
  BY AccountInit DEF ExitAlways, ExitInit, Init
<1>2. ExitAlways /\ [ExitNext]_lifeVars => ExitAlways'
  BY AccountExit, ConnectedExit, DisconnectsAssumption DEF ExitAlways, NoEcho
<1>3. ExitAlways => RepeatsBounded
  BY AccountBounds DEF ExitAlways
<1>4. QED
  BY <1>1, <1>2, <1>3, PTL DEF ExitSpec

\* As long as the operator is there and no read has taken two messages, a ring that
\* falls quiet has delivered everything: also what was typed before the last server
\* was forked.
THEOREM ExitDeliveredWhileWhole == ExitSpec => []DeliveredWhileWhole
<1>1. ExitInit => WhileConnected(FALSE)
  BY AccountInit DEF WhileConnected, ExitInit
<1>2. WhileConnected(FALSE) /\ [ExitNext]_lifeVars => WhileConnected(FALSE)'
  BY AccountExit, ConnectedExit DEF WhileConnected, NoEcho
<1>3. WhileConnected(FALSE) => DeliveredWhileWhole
  <2> SUFFICES ASSUME WhileConnected(FALSE), \A c \in DOMAIN typed : typed[c].cmd # "quit",
                      Quiet, connected, ~merged, NEW c \in 1..Len(typed), NEW n \in Server
               PROVE  /\ done[c][n] = IF For(typed[c], n) THEN 1 ELSE 0
                      /\ heard[c][n] = done[c][n] * Answers(typed[c])
    BY DEF DeliveredWhileWhole, DeliveredUnlessMerged
  <2>1. AccountInv(FALSE)
    BY DEF WhileConnected
  <2>2. c \in DOMAIN typed
    BY <2>1 DEF AccountInv, RingInv, TypeOK
  <2>3. Due(c, FALSE)
    BY <2>2 DEF Due
  <2>4. QED
    BY <2>1, <2>3, QuietDelivers
<1>4. QED
  BY <1>1, <1>2, <1>3, PTL DEF ExitSpec
=============================================================================
