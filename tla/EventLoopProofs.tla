--------------------------- MODULE EventLoopProofs ---------------------------
(***************************************************************************)
(* Proofs about EventLoop, for any number of descriptors and operators.    *)
(*                                                                         *)
(* What select() said at the top of a turn is still so when the walk gets  *)
(* to a device, for three reasons that need one another: what joins and    *)
(* what leaves the list waits for the next turn, every descriptor serves   *)
(* one device, and a device takes input only in its own turn.              *)
(***************************************************************************)
EXTENDS EventLoop, TLAPS

\* Nobody has been accepted for device d yet.
Absent(d) == peer[d] = "unknown" \/ d \in backlog

\* Additions and deletions keep apart, so that what is listed next is what
\* there is a task for.
ListInv ==
  /\ mPending \cap list = {}
  /\ mToDelete \subseteq list
  /\ (list \cup mPending) \ mToDelete = tasks
  /\ \A d \in ShellDevice : Absent(d) => d \notin list /\ d \notin mPending
  /\ \A d \in backlog : peer[d] # "unknown"

IInv == TypeOK /\ ListInv /\ OneDevicePerFd /\ ActionsReadable

USE NFdAssumption, MaxShellsAssumption
USE DEF Device, Fixed, ShellDevice, RingDevice, SyncDevice, ListenDevice, Fd, NoFd,
        Free, Lost, Place, RingInput, Peer

-----------------------------------------------------------------------------
LEMMA InitTypeOK == Init => TypeOK
<1> SUFFICES ASSUME Init PROVE TypeOK
  OBVIOUS
<1>1. mFd \in [Device -> Fd \cup {NoFd}] /\ owner \in [Fd -> Device \cup {Free, Lost}]
  BY DEF Init, ListenResults
<1> QED
  BY <1>1 DEF Init, TypeOK

LEMMA InitListInv == Init => ListInv
  BY DEF Init, ListInv, Absent

LEMMA InitOneDevice == Init => OneDevicePerFd
  BY DEF Init, OneDevicePerFd, ListenResults

LEMMA InitReadable == Init => ActionsReadable
  BY DEF Init, ActionsReadable

-----------------------------------------------------------------------------
\* onConnection accepts the operator of device d.
Accepts(d) ==
  /\ backlog' = backlog \ {d}
  /\ tasks' = tasks \cup {d}
  /\ AddDevice(d)
  /\ Printing(d)
  /\ \E f \in FreeFds :
       owner' = [owner EXCEPT ![f] = d] /\ mFd' = [mFd EXCEPT ![d] = f]

\* A connection is accepted, or nothing is done about it.
LEMMA Accepted ==
  OnConnection => \/ UNCHANGED <<list, mPending, tasks, fdVars, backlog, at>>
                  \/ \E d \in backlog : Accepts(d)
  BY DEF OnConnection, Accepts, fdVars

-----------------------------------------------------------------------------
\* Every action keeps the types.
LEMMA NextTypeOK == TypeOK /\ [Next]_vars => TypeOK'
<1> SUFFICES ASSUME TypeOK, [Next]_vars PROVE TypeOK'
  OBVIOUS
<1> USE DEF TypeOK
<1>1. CASE Select
  BY <1>1 DEF Select, Listed, fdVars, inputVars
<1>2. CASE EndPass
  BY <1>2 DEF EndPass, fdVars, inputVars
<1>3. CASE AbortOnNoFd
  BY <1>3 DEF AbortOnNoFd, fdVars, inputVars
<1>4. CASE RecvPipe
  <2>1. at' \in Place /\ mKeepRunning' \in BOOLEAN
    BY <1>4 DEF RecvPipe, Printing
  <2>2. owner' \in [Fd -> Device \cup {Free, Lost}]
    BY <1>4 DEF RecvPipe
  <2> QED
    BY <1>4, <2>1, <2>2 DEF RecvPipe, Visits
<1>5. CASE OnBufferComplete
  BY <1>5 DEF OnBufferComplete, Visits, fdVars
<1>6. CASE OnConnection
  <2>1. CASE UNCHANGED <<list, mPending, tasks, fdVars, backlog, at>>
    BY <1>6, <2>1 DEF OnConnection, fdVars
  <2>2. CASE \E d \in backlog : Accepts(d)
    BY <1>6, <2>2 DEF OnConnection, Accepts, AddDevice, FreeFds, Printing
  <2> QED
    BY <1>6, <2>1, <2>2, Accepted
<1>7. CASE DoRecv
  <2>1. PICK d \in ShellDevice : DoCommand(d) \/ RecvError(d) \/ Leave(d)
    BY <1>7 DEF DoRecv
  <2>2. CASE DoCommand(d)
    BY <2>2 DEF DoCommand, Visits, Printing, fdVars
  <2>3. CASE RecvError(d)
    BY <2>3 DEF RecvError, Visits, fdVars
  <2>4. CASE Leave(d)
    BY <2>4 DEF Leave, Visits, DelDevice, CloseSocket
  <2> QED
    BY <2>1, <2>2, <2>3, <2>4
<1>8. CASE Arrivals
  BY <1>8 DEF Arrivals, RingArrives, BufferArrives, Connect, TypeLine, HangUp, loopVars, fdVars
<1>9. CASE UNCHANGED vars
  BY <1>9 DEF vars, loopVars, fdVars, inputVars
<1> QED
  BY <1>1, <1>2, <1>3, <1>4, <1>5, <1>6, <1>7, <1>8, <1>9 DEF Next, Loop

-----------------------------------------------------------------------------
\* Every action keeps additions and deletions apart.
LEMMA NextListInv == TypeOK /\ ListInv /\ ActionsReadable /\ [Next]_vars => ListInv'
<1> SUFFICES ASSUME TypeOK, ListInv, ActionsReadable, [Next]_vars PROVE ListInv'
  OBVIOUS
<1> USE DEF ListInv, Absent
<1>1. CASE Select
  BY <1>1 DEF Select, Listed, inputVars
<1>2. CASE EndPass
  BY <1>2 DEF EndPass, inputVars
<1>3. CASE AbortOnNoFd
  BY <1>3 DEF AbortOnNoFd, inputVars
<1>4. CASE RecvPipe
  BY <1>4 DEF RecvPipe
<1>5. CASE OnBufferComplete
  BY <1>5 DEF OnBufferComplete
<1>6. CASE OnConnection
  <2>1. CASE UNCHANGED <<list, mPending, tasks, fdVars, backlog, at>>
    BY <1>6, <2>1 DEF OnConnection
  <2>2. CASE \E d \in backlog : Accepts(d)
    BY <1>6, <2>2 DEF OnConnection, Accepts, AddDevice, TypeOK
  <2> QED
    BY <1>6, <2>1, <2>2, Accepted
<1>7. CASE DoRecv
  <2>1. PICK d \in ShellDevice : DoCommand(d) \/ RecvError(d) \/ Leave(d)
    BY <1>7 DEF DoRecv
  <2>2. CASE DoCommand(d)
    BY <2>2 DEF DoCommand
  <2>3. CASE RecvError(d)
    BY <2>3 DEF RecvError, TypeOK
  <2>4. CASE Leave(d)
    <3>1. d \in ahead /\ d \in list /\ d \in tasks
      BY <2>4 DEF Leave, Visits, TypeOK, ActionsReadable
    <3> QED
      BY <2>4, <3>1 DEF Leave, DelDevice, TypeOK
  <2> QED
    BY <2>1, <2>2, <2>3, <2>4
<1>8. CASE Arrivals
  <2>1. CASE (\E m \in RingInput \ {"none"} : RingArrives(m)) \/ BufferArrives
    BY <2>1 DEF RingArrives, BufferArrives, loopVars, fdVars
  <2>2. CASE \E d \in ShellDevice : Connect(d)
    BY <2>2 DEF Connect, loopVars, fdVars, TypeOK
  <2>3. CASE \E d \in ShellDevice : TypeLine(d)
    BY <2>3 DEF TypeLine, loopVars, fdVars, TypeOK
  <2>4. CASE \E d \in ShellDevice : HangUp(d, "closed") \/ HangUp(d, "reset")
    BY <2>4 DEF HangUp, loopVars, fdVars, TypeOK
  <2> QED
    BY <1>8, <2>1, <2>2, <2>3, <2>4 DEF Arrivals
<1>9. CASE UNCHANGED vars
  BY <1>9 DEF vars, loopVars, inputVars
<1> QED
  BY <1>1, <1>2, <1>3, <1>4, <1>5, <1>6, <1>7, <1>8, <1>9 DEF Next, Loop

-----------------------------------------------------------------------------
\* Every action keeps one device to a descriptor.
LEMMA NextOneDevice ==
  TypeOK /\ ListInv /\ OneDevicePerFd /\ ActionsReadable /\ [Next]_vars => OneDevicePerFd'
<1> SUFFICES ASSUME TypeOK, ListInv, OneDevicePerFd, ActionsReadable, [Next]_vars
             PROVE  OneDevicePerFd'
  OBVIOUS
<1> USE DEF OneDevicePerFd
<1>1. CASE Select
  BY <1>1 DEF Select, fdVars
<1>2. CASE EndPass
  BY <1>2 DEF EndPass, fdVars
<1>3. CASE AbortOnNoFd
  BY <1>3 DEF AbortOnNoFd, fdVars
<1>4. CASE RecvPipe
  <2>1. \A f \in Fd : owner'[f] = owner[f] \/ (owner[f] = Free /\ owner'[f] = Lost)
    BY <1>4 DEF RecvPipe, Lowest, FreeFds, TypeOK
  <2>2. UNCHANGED <<tasks, mFd>>
    BY <1>4 DEF RecvPipe
  <2>3. \A f \in Fd : owner'[f] \in Device => owner'[f] = owner[f]
    BY <2>1
  <2>4. ASSUME NEW d \in tasks, mFd[d] # NoFd PROVE owner'[mFd[d]] = d
    <3>1. d \in Device /\ mFd[d] \in Fd /\ owner[mFd[d]] = d
      BY <2>4 DEF TypeOK
    <3> QED
      BY <2>1, <3>1
  <2>5. ASSUME NEW f \in Fd, owner'[f] \in Device
        PROVE  owner'[f] \in tasks /\ mFd[owner'[f]] = f
    BY <2>3, <2>5
  <2> QED
    BY <2>2, <2>4, <2>5
<1>5. CASE OnBufferComplete
  BY <1>5 DEF OnBufferComplete, fdVars
<1>6. CASE OnConnection
  <2>1. CASE UNCHANGED <<list, mPending, tasks, fdVars, backlog, at>>
    BY <1>6, <2>1 DEF OnConnection, fdVars
  <2>2. CASE \E d \in backlog : Accepts(d)
    <3>1. PICK d \in backlog, f \in FreeFds :
            /\ owner' = [owner EXCEPT ![f] = d] /\ mFd' = [mFd EXCEPT ![d] = f]
            /\ tasks' = tasks \cup {d}
      BY <2>2 DEF Accepts
    <3>2. d \in Device /\ d \notin tasks /\ f \in Fd /\ owner[f] = Free
      BY <3>1 DEF ListInv, Absent, TypeOK, FreeFds
    <3> QED
      BY <3>1, <3>2 DEF TypeOK
  <2> QED
    BY <1>6, <2>1, <2>2, Accepted
<1>7. CASE DoRecv
  <2>1. PICK d \in ShellDevice : DoCommand(d) \/ RecvError(d) \/ Leave(d)
    BY <1>7 DEF DoRecv
  <2>2. CASE DoCommand(d)
    BY <2>2 DEF DoCommand, fdVars
  <2>3. CASE RecvError(d)
    BY <2>3 DEF RecvError, fdVars
  <2>4. CASE Leave(d)
    BY <2>4 DEF Leave, Visits, CloseSocket, ActionsReadable, TypeOK
  <2> QED
    BY <2>1, <2>2, <2>3, <2>4
<1>8. CASE Arrivals
  BY <1>8 DEF Arrivals, RingArrives, BufferArrives, Connect, TypeLine, HangUp, loopVars, fdVars
<1>9. CASE UNCHANGED vars
  BY <1>9 DEF vars, loopVars, fdVars
<1> QED
  BY <1>1, <1>2, <1>3, <1>4, <1>5, <1>6, <1>7, <1>8, <1>9 DEF Next, Loop

-----------------------------------------------------------------------------
\* Every action keeps what select() said of the devices ahead.
LEMMA NextReadable ==
  TypeOK /\ ListInv /\ OneDevicePerFd /\ ActionsReadable /\ [Next]_vars => ActionsReadable'
<1> SUFFICES ASSUME TypeOK, ListInv, OneDevicePerFd, ActionsReadable, [Next]_vars
             PROVE  ActionsReadable'
  OBVIOUS
<1> USE DEF ActionsReadable, HasInput
<1>1. CASE Select
  <2> SUFFICES ASSUME NEW d \in ahead', mFd'[d] \in rlst'
               PROVE  d \in tasks' /\ HasInput(d)'
    BY DEF ActionsReadable
  <2>1. ahead' = tasks /\ UNCHANGED <<tasks, mFd, inRing, inSync, backlog, typed, peer>>
    BY <1>1 DEF Select, Listed, ListInv, fdVars, inputVars
  <2>2. PICK e \in tasks : mFd[e] # NoFd /\ HasInput(e) /\ mFd[d] = mFd[e]
    BY <1>1, <2>1 DEF Select, Listed, ListInv
  <2>3. d = e
    BY <2>1, <2>2 DEF OneDevicePerFd
  <2> QED
    BY <2>1, <2>2, <2>3
<1>2. CASE EndPass
  BY <1>2 DEF EndPass
<1>3. CASE AbortOnNoFd
  BY <1>3 DEF AbortOnNoFd
<1>4. CASE RecvPipe
  BY <1>4 DEF RecvPipe, Visits, TypeOK
<1>5. CASE OnBufferComplete
  BY <1>5 DEF OnBufferComplete, Visits, fdVars
<1>6. CASE OnConnection
  <2>1. CASE UNCHANGED <<list, mPending, tasks, fdVars, backlog, at>>
    BY <1>6, <2>1 DEF OnConnection, fdVars, TypeOK
  <2>2. CASE \E d \in backlog : Accepts(d)
    BY <1>6, <2>2 DEF OnConnection, Accepts, AddDevice, ListInv, Absent, TypeOK
  <2> QED
    BY <1>6, <2>1, <2>2, Accepted
<1>7. CASE DoRecv
  <2>1. PICK d \in ShellDevice : DoCommand(d) \/ RecvError(d) \/ Leave(d)
    BY <1>7 DEF DoRecv
  <2>2. CASE DoCommand(d)
    BY <2>2 DEF DoCommand, Visits, fdVars, TypeOK
  <2>3. CASE RecvError(d)
    BY <2>3 DEF RecvError, Visits, fdVars, TypeOK
  <2>4. CASE Leave(d)
    BY <2>4 DEF Leave, Visits, TypeOK
  <2> QED
    BY <2>1, <2>2, <2>3, <2>4
<1>8. CASE Arrivals
  <2>1. CASE (\E m \in RingInput \ {"none"} : RingArrives(m)) \/ BufferArrives
    BY <2>1 DEF RingArrives, BufferArrives, loopVars, fdVars
  <2>2. CASE \E d \in ShellDevice : Connect(d)
    BY <2>2 DEF Connect, loopVars, fdVars, TypeOK
  <2>3. CASE \E d \in ShellDevice : TypeLine(d)
    BY <2>3 DEF TypeLine, loopVars, fdVars, TypeOK
  <2>4. CASE \E d \in ShellDevice : HangUp(d, "closed") \/ HangUp(d, "reset")
    BY <2>4 DEF HangUp, loopVars, fdVars, TypeOK
  <2> QED
    BY <1>8, <2>1, <2>2, <2>3, <2>4 DEF Arrivals
<1>9. CASE UNCHANGED vars
  BY <1>9 DEF vars, loopVars, fdVars, inputVars
<1> QED
  BY <1>1, <1>2, <1>3, <1>4, <1>5, <1>6, <1>7, <1>8, <1>9 DEF Next, Loop

-----------------------------------------------------------------------------
\* The four parts are inductive together.
LEMMA LoopInvariant == Spec => []IInv
<1>1. Init => IInv
  BY InitTypeOK, InitListInv, InitOneDevice, InitReadable DEF IInv
<1>2. IInv /\ [Next]_vars => IInv'
  BY NextTypeOK, NextListInv, NextOneDevice, NextReadable DEF IInv
<1> QED
  BY <1>1, <1>2, PTL DEF Spec

\* Type correctness of the loop (Server::run and the actions of its devices).
THEOREM LoopTypeCorrect == Spec => []TypeOK
<1>1. IInv => TypeOK
  BY DEF IInv
<1> QED
  BY <1>1, LoopInvariant, PTL

\* The list select() is asked about next is that of the tasks there are
\* (Server::add, Server::del and the top of Server::run).
THEOREM LoopListMatchesTasks == Spec => []ListMatchesTasks
<1>1. IInv => ListMatchesTasks
  BY DEF IInv, ListInv, ListMatchesTasks, Listed
<1> QED
  BY <1>1, LoopInvariant, PTL

\* A device has its descriptor to itself (Shell::~Shell, TCPConnection).
THEOREM LoopOneDevicePerFd == Spec => []OneDevicePerFd
<1>1. IInv => OneDevicePerFd
  BY DEF IInv
<1> QED
  BY <1>1, LoopInvariant, PTL

\* The walk over the list calls actions of living tasks with something to
\* read, and no others (Server::run).
THEOREM LoopActionsReadable == Spec => []ActionsReadable
<1>1. IInv => ActionsReadable
  BY DEF IInv
<1> QED
  BY <1>1, LoopInvariant, PTL
=============================================================================
