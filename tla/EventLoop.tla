------------------------------ MODULE EventLoop ------------------------------
(***************************************************************************)
(* The select loop of server 0 (src/src/server.cpp, Server::run): it owns  *)
(* the read end of the ring, the pipe that wakes the radio, the listener   *)
(* on TCP port 1535, and one socket for each operator's shell.             *)
(*                                                                         *)
(* The loop asks select() for the descriptors with something to read, then *)
(* walks its list and calls the action of each of these.  An action may    *)
(* accept an operator, delete the shell it belongs to, open a data file or *)
(* end the loop; what it does to the list waits for the next turn.  Each   *)
(* action reads a blocking descriptor, so one called with nothing to read  *)
(* would stop the process.                                                 *)
(*                                                                         *)
(* A device is a number, and so is the task it calls: three are there from *)
(* the start, the others are the shells in the order their operators       *)
(* connect.  The order of the list is left open: a pass takes the devices  *)
(* in any order.                                                           *)
(***************************************************************************)
EXTENDS Integers

CONSTANTS
  NFd,       \* descriptors the process can have open
  MaxShells  \* bound: operators who connect

ASSUME NFdAssumption == NFd \in Nat /\ NFd >= 3
ASSUME MaxShellsAssumption == MaxShells \in Nat

RingDevice == 1       \* mReadPipe
SyncDevice == 2       \* mSync of the radio
ListenDevice == 3     \* mListener of the ShellFactory
Fixed == 1..3
ShellDevice == 4..(3 + MaxShells)
Device == Fixed \cup ShellDevice

Fd == 1..NFd
NoFd == -1            \* what TCPServerSocket returns when it fails

\* What a descriptor is open for, if not for a device: nothing, or a file or a
\* socket nobody will close.
Free == 0
Lost == -1

VARIABLES
  list,          \* the devices in the server's list
  mPending,      \* devices to be added
  mToDelete,     \* devices to be deleted
  tasks,         \* the tasks that exist
  mFd,           \* the descriptor of each device
  owner,         \* what each descriptor is open for
  rlst,          \* what select() found readable
  ahead,         \* the devices the pass has not come to yet
  at,            \* where the process is, see Place
  mKeepRunning,
  inRing,        \* the first message waiting in the ring
  inSync,        \* does a full buffer wait?
  backlog,       \* operators whose connection waits to be accepted
  typed,         \* shells with a line waiting
  peer           \* what each operator's end of the socket is like

loopVars == <<list, mPending, mToDelete, tasks, rlst, ahead, at, mKeepRunning>>
fdVars == <<mFd, owner>>
inputVars == <<inRing, inSync, backlog, typed, peer>>
vars == <<loopVars, fdVars, inputVars>>

Place == {"select", "pass", "left", "dead"}
RingInput == {"none", "quit", "collect", "answer"}
Peer == {"unknown", "there", "closed", "reset"}

Over == at \in {"left", "dead"}

\* TCPServerSocket: a listening socket, or none, perhaps with a socket left
\* open (when setsockopt or listen fails).
ListenResults == {[fd |-> 3, holds |-> ListenDevice],
                  [fd |-> NoFd, holds |-> Free],
                  [fd |-> NoFd, holds |-> Lost]}

\* Server, ShellFactory::start and Radio have added their devices; run begins.
Init ==
  /\ list = {} /\ mPending = Fixed /\ mToDelete = {}
  /\ tasks = Fixed
  /\ \E l \in ListenResults :
       /\ mFd = [d \in Device |-> CASE d = RingDevice -> 1
                                    [] d = SyncDevice -> 2
                                    [] d = ListenDevice -> l.fd
                                    [] OTHER -> NoFd]
       /\ owner = [f \in Fd |-> CASE f = 1 -> RingDevice
                                  [] f = 2 -> SyncDevice
                                  [] f = 3 -> l.holds
                                  [] OTHER -> Free]
  /\ rlst = {} /\ ahead = {}
  /\ at = "select" /\ mKeepRunning = TRUE
  /\ inRing = "none" /\ inSync = FALSE
  /\ backlog = {} /\ typed = {}
  /\ peer = [d \in ShellDevice |-> "unknown"]

-----------------------------------------------------------------------------
(* What arrives.                                                           *)

\* A message from the ring; those behind it are read with it.
RingArrives(m) ==
  /\ inRing = "none"
  /\ inRing' = m
  /\ UNCHANGED <<loopVars, fdVars, inSync, backlog, typed, peer>>

BufferArrives ==
  /\ ~inSync
  /\ inSync' = TRUE
  /\ UNCHANGED <<loopVars, fdVars, inRing, backlog, typed, peer>>

Connect(d) ==
  /\ mFd[ListenDevice] # NoFd
  /\ \A e \in ShellDevice : peer[e] = "unknown" => d <= e
  /\ peer[d] = "unknown"
  /\ peer' = [peer EXCEPT ![d] = "there"]
  /\ backlog' = backlog \cup {d}
  /\ UNCHANGED <<loopVars, fdVars, inRing, inSync, typed>>

TypeLine(d) ==
  /\ peer[d] = "there"
  /\ typed' = typed \cup {d}
  /\ UNCHANGED <<loopVars, fdVars, inRing, inSync, backlog, peer>>

\* The operator leaves, or the connection breaks, whatever is still unread.
HangUp(d, how) ==
  /\ peer[d] = "there"
  /\ peer' = [peer EXCEPT ![d] = how]
  /\ UNCHANGED <<loopVars, fdVars, inRing, inSync, backlog, typed>>

\* select() would report the descriptor of device d.
HasInput(d) ==
  CASE d = RingDevice -> inRing # "none"
    [] d = SyncDevice -> inSync
    [] d = ListenDevice -> backlog # {}
    [] OTHER -> d \in typed \/ peer[d] \in {"closed", "reset"}

-----------------------------------------------------------------------------
(* The loop.                                                               *)

\* Mutant: what is to be deleted stays in the list.
ListedNoDelete == list \cup mPending

\* The list after the additions and deletions at the top of the loop.
Listed == (list \cup mPending) \ mToDelete

\* The top of the loop and select(), which returns when something can be read.
\* That select() fails is left out: every descriptor in the list is open and no
\* signal has a handler, so nothing the program does makes it.  The code would end
\* the loop then, but first walk the list with what it had put into rlst, and call
\* the action of every device.
Select ==
  /\ at = "select"
  /\ \E d \in Listed : mFd[d] # NoFd /\ HasInput(d)
  /\ list' = Listed
  /\ mPending' = {} /\ mToDelete' = {}
  /\ rlst' = {mFd[d] : d \in {e \in Listed : mFd[e] # NoFd /\ HasInput(e)}}
  /\ ahead' = list'
  /\ at' = "pass"
  /\ UNCHANGED <<tasks, mKeepRunning, fdVars, inputVars>>

\* The pass comes to a device whose descriptor is in rlst.
Visits(d) ==
  /\ at = "pass"
  /\ d \in ahead
  /\ mFd[d] \in rlst
  /\ ahead' = ahead \ {d}

\* Mutants: the pass ends after one action; quit is not looked at.
EndPassAfterOne ==
  /\ at = "pass" /\ (ahead # list \/ \A d \in ahead : mFd[d] \notin rlst)
  /\ ahead' = {} /\ rlst' = {}
  /\ at' = IF mKeepRunning THEN "select" ELSE "left"
  /\ UNCHANGED <<list, mPending, mToDelete, tasks, mKeepRunning, fdVars, inputVars>>
EndPassGoesOn ==
  /\ at = "pass" /\ \A d \in ahead : mFd[d] \notin rlst
  /\ ahead' = {} /\ rlst' = {} /\ at' = "select"
  /\ UNCHANGED <<list, mPending, mToDelete, tasks, mKeepRunning, fdVars, inputVars>>

\* No device ahead is to be called; FD_ISSET of descriptor -1 is undefined, and
\* is taken for no by a build that does not check it.
EndPass ==
  /\ at = "pass"
  /\ \A d \in ahead : mFd[d] \notin rlst
  /\ ahead' = {}
  /\ rlst' = {}
  /\ at' = IF mKeepRunning THEN "select" ELSE "left"
  /\ UNCHANGED <<list, mPending, mToDelete, tasks, mKeepRunning, fdVars, inputVars>>

\* A build that checks FD_ISSET (_FORTIFY_SOURCE) aborts.
AbortOnNoFd ==
  /\ at = "pass"
  /\ \E d \in ahead : mFd[d] = NoFd
  /\ at' = "dead"
  /\ UNCHANGED <<list, mPending, mToDelete, tasks, rlst, ahead, mKeepRunning, fdVars, inputVars>>

\* send() to an operator who is gone ends the process, once the other end has
\* said so (SIGPIPE).
Printing(d) == at' \in IF peer[d] = "there" THEN {at} ELSE {at, "dead"}

\* The lowest descriptor that is free, if any.
FreeFds == {f \in Fd : owner[f] = Free}
Lowest(f) == f \in FreeFds /\ \A g \in FreeFds : f <= g

-----------------------------------------------------------------------------
(* The actions of the devices.                                             *)

\* recvPipe reads all that is there and acts on the first message: quit ends
\* the loop after this pass; collect creates a file, in mFile of the radio,
\* whose descriptor nobody closes; an answer is printed by a shell, if it is
\* still there.
RecvPipe ==
  /\ Visits(RingDevice)
  /\ inRing' = "none"
  /\ CASE inRing = "quit" ->
            mKeepRunning' = FALSE /\ UNCHANGED <<at, owner>>
       [] inRing = "collect" ->
            /\ owner' = [f \in Fd |-> IF Lowest(f) THEN Lost ELSE owner[f]]
            /\ UNCHANGED <<at, mKeepRunning>>
       [] inRing = "answer" /\ tasks \ Fixed # {} ->
            /\ \E d \in tasks \ Fixed : Printing(d)
            /\ UNCHANGED <<mKeepRunning, owner>>
       [] OTHER -> UNCHANGED <<at, mKeepRunning, owner>>
  /\ UNCHANGED <<list, mPending, mToDelete, tasks, rlst, mFd, inSync, backlog, typed, peer>>

\* Radio::onBufferComplete.
OnBufferComplete ==
  /\ Visits(SyncDevice)
  /\ inSync' = FALSE
  /\ UNCHANGED <<list, mPending, mToDelete, tasks, rlst, at, mKeepRunning, fdVars, inRing,
                 backlog, typed, peer>>

\* Mutants: a device joins the list, and the pass, at once, or only the pass.
AddDeviceAtOnce(d) ==
  list' = list \cup {d} /\ ahead' = (ahead \ {ListenDevice}) \cup {d} /\ UNCHANGED mPending
AddDeviceToPass(d) ==
  mPending' = mPending \cup {d} /\ ahead' = (ahead \ {ListenDevice}) \cup {d} /\ UNCHANGED list

\* Server::add(Device*) puts the device aside until the top of the loop.
AddDevice(d) ==
  mPending' = mPending \cup {d} /\ ahead' = ahead \ {ListenDevice} /\ UNCHANGED list

\* ShellFactory::onConnection: TCPConnection accepts an operator if there is a
\* descriptor for the socket; the new Shell adds itself and its device, and
\* prints a prompt.
OnConnection ==
  /\ at = "pass" /\ ListenDevice \in ahead /\ mFd[ListenDevice] \in rlst
  /\ \/ /\ FreeFds = {}
        /\ ahead' = ahead \ {ListenDevice}
        /\ UNCHANGED <<list, mPending, tasks, fdVars, backlog, at>>
     \/ \E d \in backlog, f \in FreeFds :
          /\ Lowest(f) /\ \A e \in backlog : d <= e
          /\ backlog' = backlog \ {d}
          /\ owner' = [owner EXCEPT ![f] = d]
          /\ mFd' = [mFd EXCEPT ![d] = f]
          /\ tasks' = tasks \cup {d}
          /\ AddDevice(d)
          /\ Printing(d)
  /\ UNCHANGED <<mToDelete, rlst, mKeepRunning, inRing, inSync, typed, peer>>

\* A line: doCommand prints an answer, or sends it around the ring.
DoCommand(d) ==
  /\ d \in typed
  /\ Visits(d)
  /\ typed' = typed \ {d}
  /\ Printing(d)
  /\ UNCHANGED <<list, mPending, mToDelete, tasks, rlst, mKeepRunning, fdVars, inRing, inSync,
                 backlog, peer>>

\* recv() returns -1 once for a connection that was reset: nothing is done.
RecvError(d) ==
  /\ d \notin typed /\ peer[d] = "reset"
  /\ Visits(d)
  /\ peer' = [peer EXCEPT ![d] = "closed"]
  /\ UNCHANGED <<list, mPending, mToDelete, tasks, rlst, at, mKeepRunning, fdVars, inRing,
                 inSync, backlog, typed>>

\* Mutant: the socket is not closed.
CloseSocketForgotten(d) == UNCHANGED owner

CloseSocket(d) == owner' = [owner EXCEPT ![mFd[d]] = Free]

\* Server::del(Device*).
DelDevice(d) == mToDelete' = mToDelete \cup {d}

\* recv() returns 0, or the line is a control-D: the shell deletes its device,
\* then itself, and closes its socket.  Server::del(Task*) goes on from a map
\* node it has just freed: in one build that works, in another it is fatal.
Leave(d) ==
  /\ d \in typed \/ peer[d] = "closed"
  /\ Visits(d)
  /\ DelDevice(d)
  /\ tasks' = tasks \ {d}
  /\ CloseSocket(d)
  /\ typed' = typed \ {d}
  /\ peer' = [peer EXCEPT ![d] = "closed"]
  /\ at' \in {at, "dead"}
  /\ UNCHANGED <<list, mPending, rlst, mKeepRunning, mFd, inRing, inSync, backlog>>

-----------------------------------------------------------------------------
DoRecv == \E d \in ShellDevice : DoCommand(d) \/ RecvError(d) \/ Leave(d)

Loop ==
  \/ Select \/ EndPass \/ AbortOnNoFd
  \/ RecvPipe \/ OnBufferComplete \/ OnConnection \/ DoRecv

\* What arrives after the end of the loop makes no difference.
Arrivals ==
  /\ ~Over
  /\ \/ \E m \in RingInput \ {"none"} : RingArrives(m)
     \/ BufferArrives
     \/ \E d \in ShellDevice :
          Connect(d) \/ TypeLine(d) \/ HangUp(d, "closed") \/ HangUp(d, "reset")

Next == Loop \/ Arrivals

\* The process runs.  Nothing need ever arrive.
Spec == Init /\ [][Next]_vars
FairSpec == Spec /\ WF_vars(Loop)

-----------------------------------------------------------------------------
(* Properties.                                                             *)

\* Type invariant of the loop.
TypeOK ==
  /\ list \subseteq Device /\ mPending \subseteq Device /\ mToDelete \subseteq Device
  /\ tasks \subseteq Device /\ ahead \subseteq list
  /\ mFd \in [Device -> Fd \cup {NoFd}]
  /\ owner \in [Fd -> Device \cup {Free, Lost}]
  /\ rlst \subseteq Fd
  /\ at \in Place
  /\ mKeepRunning \in BOOLEAN
  /\ inRing \in RingInput /\ inSync \in BOOLEAN
  /\ backlog \subseteq ShellDevice /\ typed \subseteq ShellDevice
  /\ peer \in [ShellDevice -> Peer]

\* Whatever comes and goes during a pass, select() is next asked about exactly
\* the devices of the tasks there are (Server::add, del and the top of run): a
\* shell that has deleted itself leaves no device behind, and none is left out.
ListMatchesTasks == ~Over => Listed = tasks

\* A device has its descriptor to itself, and every descriptor that is open is
\* a device's or one of those nobody will close: a socket is closed when its
\* shell goes, and is not closed, or used, under another shell that was given
\* the same number (~Shell, TCPConnection).
OneDevicePerFd ==
  /\ \A d \in tasks : mFd[d] # NoFd => owner[mFd[d]] = d
  /\ \A f \in Fd : owner[f] \in Device => owner[f] \in tasks /\ mFd[owner[f]] = f

\* The rest of a pass calls actions only of tasks that still exist, and only
\* with something to read: what select() said at the top of the turn is still
\* so when the walk gets there, although shells have been accepted, deleted
\* and their descriptors used again meanwhile.  An action called otherwise
\* would use a deleted Shell, or block the process in read, recv or accept.
ActionsReadable ==
  at = "pass" => \A d \in ahead : mFd[d] \in rlst => d \in tasks /\ HasInput(d)

\* Every device with something to read gets its turn (Server::run), unless the
\* loop ends first, or a connection waits and no descriptor is left for it.
InputServed ==
  \A d \in Device :
    d \in tasks /\ HasInput(d)
      ~> \/ ~HasInput(d) \/ d \notin tasks
         \/ Over
         \/ d = ListenDevice /\ FreeFds = {}

\* quit ends the loop (gameOver), however busy the other devices are.
QuitEnds == inRing = "quit" ~> Over
=============================================================================
