------------------------------- MODULE Radio --------------------------------
(***************************************************************************)
(* The Radio task of one sdr process (src/src/radio.cpp): its operating    *)
(* state, the commands that change it, the receiver behind the SDR library *)
(* and the pool of frame buffers (FramePool) that the two threads share.   *)
(*                                                                         *)
(* The server thread runs one command, or one pass of onBufferComplete, at *)
(* a time.  Between two lock() sections of a command only the stream       *)
(* thread can move; what it does there commutes with the command (it reads *)
(* mFrameCounter and the two queues, and no command touches the queues),   *)
(* so a command is one action.  A command that stops the stream waits for  *)
(* the callback in progress to return: mir_sdr_StreamUninit joins the      *)
(* stream thread.                                                          *)
(*                                                                         *)
(* Every library call may fail when Faults is TRUE.  A call the library    *)
(* does not document in the state it is made in may succeed or fail.       *)
(***************************************************************************)
EXTENDS FramePool

CONSTANTS Faults,      \* may a library call fail for reasons of its own?
          HwVersions,  \* hwVer of the receivers that may be attached
          MaxPending   \* bound: collect commands waiting for their "done"

ASSUME FaultsAssumption == Faults \in BOOLEAN
ASSUME HwVersionsAssumption == HwVersions \subseteq {1, 2, 3}
ASSUME MaxPendingAssumption == MaxPending \in Nat

UnknownHw == 0      \* mCfg has no "hardware-version"
RSP2 == 2
RSPduo == 3

OnOff == {"ON", "OFF"}
NoState == "none"   \* no "state" in an answer

VARIABLES
  ctl,      \* the radio's state and the receiver's, see Control below
  mNotify,  \* how many collect commands wait for "done"
  life,     \* "up", then "closing" in ~Radio, then "gone"
  lateLock  \* the callback locked the mutex after its destruction

radioVars == <<ctl, mNotify, life, lateLock>>
vars == <<poolVars, radioVars>>

Control ==
  [ state    : {"NotAssigned", "Opened", "Streaming", "Collecting"}, \* mState
    cfgHw    : HwVersions \cup {UnknownHw},    \* mCfg["hardware-version"]
    cfgNotch : OnOff,                          \* mCfg["notch-filter"]
    api      : {"idle", "selected", "streaming"},   \* the library
    devHw    : HwVersions \cup {UnknownHw},    \* the receiver selected
    devNotch : OnOff,                          \* its notch filter
    reply    : {"ok", "refused", "error"},     \* the answer to the last command
    told     : {NoState, "NotAssigned", "Opened", "Streaming", "Collecting"} ]
                                                    \* cmd["state"] in it

\* Radio::Radio with defaultConfig.
RadioInit ==
  /\ ctl = [state |-> "NotAssigned", cfgHw |-> UnknownHw, cfgNotch |-> "ON",
            api |-> "idle", devHw |-> UnknownHw, devNotch |-> "OFF",
            reply |-> "ok", told |-> NoState]
  /\ mNotify = 0
  /\ life = "up"
  /\ lateLock = FALSE

Init == PoolInit /\ RadioInit

-----------------------------------------------------------------------------
(* What the commands can make of the radio: sets of outcomes, so that one  *)
(* command can call another as the code does, and handing it the answer so *)
(* far.  "error" ends a command like the check() macro does.               *)

\* The answer begins as the command came, without a state.
Asked(r) == [r EXCEPT !.told = NoState]

\* cmd["state"] = state()
Told(r) == [r EXCEPT !.told = r.state]

Fault(r) == IF Faults THEN {[r EXCEPT !.reply = "error"]} ELSE {}

\* mir_sdr_GetDevices, then mir_sdr_SetDeviceIdx on the first one available.
\* No device is available when the other processes hold them all.
OpenResults(r) ==
  IF r.state # "NotAssigned"
    THEN {Told([r EXCEPT !.reply = "refused"])}
    ELSE {Told([r EXCEPT !.reply = "error"])} \cup Fault(r)
         \cup (UNION {Fault([r EXCEPT !.cfgHw = h]) : h \in HwVersions})
         \cup {Told([r EXCEPT !.cfgHw = h, !.devHw = h, !.devNotch = "OFF",
                              !.api = "selected", !.state = "Opened",
                              !.reply = "ok"]) : h \in HwVersions}

\* The calls of start that depend on the hardware version, for the version
\* start has in hand.  They fail on a receiver of another version.
SetUp(r, hardware) ==
  [r EXCEPT !.devNotch = IF hardware = RSP2 THEN r.cfgNotch ELSE r.devNotch]

\* start from state Opened: the set-up calls, then mir_sdr_StreamInit.
LaunchResults(r, hardware) ==
  IF hardware \in {RSP2, RSPduo} /\ hardware # r.devHw
    THEN {[r EXCEPT !.reply = "error"]}
    ELSE Fault(r) \cup Fault(SetUp(r, hardware))
         \cup {Told([SetUp(r, hardware) EXCEPT !.api = "streaming",
                                               !.state = "Streaming",
                                               !.reply = "ok"])}

\* start reads the hardware version before it opens the radio: what it has in
\* hand is unknown, or that of the receiver opened last.
StartResults(r) ==
  LET hardware == r.cfgHw
      opened == IF r.state = "NotAssigned" THEN OpenResults(r) ELSE {r}
  IN UNION {IF o.state = "Opened"
              THEN LaunchResults(o, hardware)
              ELSE {[o EXCEPT !.reply = "refused"]} : o \in opened}

\* mir_sdr_StreamUninit.
UninitResults(r) ==
  IF r.state = "Streaming"
    THEN (IF r.api = "streaming" THEN Fault(r)
                                 ELSE {[r EXCEPT !.reply = "error"]})
         \cup {[r EXCEPT !.state = "Opened",
                         !.api = IF r.api = "streaming" THEN "selected" ELSE r.api]}
    ELSE {r}

\* Mutant: the result of mir_sdr_ReleaseDeviceIdx is not checked.
ReleaseResultsUnchecked(r) ==
  IF r.state = "Opened"
    THEN {[r EXCEPT !.state = "NotAssigned", !.api = a] : a \in {r.api, "idle"}}
    ELSE {r}

\* mir_sdr_ReleaseDeviceIdx.
ReleaseResults(r) ==
  IF r.state = "Opened"
    THEN (IF r.api = "idle" THEN {[r EXCEPT !.reply = "error"]} ELSE Fault(r))
         \cup {[r EXCEPT !.state = "NotAssigned", !.api = "idle"]}
    ELSE {r}

\* Mutant: stop goes on after an error of mir_sdr_StreamUninit and says ok.
StopResultsUnchecked(r) ==
  LET begun == [r EXCEPT !.reply = "ok",
                         !.state = IF @ = "Collecting" THEN "Streaming" ELSE @]
  IN {Told([u EXCEPT !.reply = "ok"]) :
        u \in UNION {ReleaseResults(v) : v \in UninitResults(begun)}}

StopResults(r) ==
  LET begun == [r EXCEPT !.reply = "ok",
                         !.state = IF @ = "Collecting" THEN "Streaming" ELSE @]
      released == UNION {IF u.reply = "error" THEN {u} ELSE ReleaseResults(u) :
                           u \in UninitResults(begun)}
  IN {IF o.reply = "error" THEN o ELSE Told(o) : o \in released}

\* close tries the release again when stop left the radio open; an error of
\* that release ends it, and the radio is still open.
CloseResults(r) ==
  LET stopped == IF r.state \in {"Collecting", "Streaming"}
                   THEN StopResults(r)
                   ELSE {[r EXCEPT !.reply = "ok"]}
  IN {IF o.state = "Opened" THEN o ELSE Told(o) : o \in UNION {ReleaseResults(s) : s \in stopped}}

\* mir_sdr_RSPII_RfNotchEnable(1), which both notch commands call; then the
\* configuration says on.  The library refuses on anything but an RSP2; what
\* it does with no receiver selected is not documented.
NotchResults(r, on) ==
  LET refused == [r EXCEPT !.reply = "error"]
      accepted == [r EXCEPT !.reply = "ok", !.cfgNotch = on]
  IN CASE r.api = "idle"  -> {refused, accepted}
       [] r.api # "idle" /\ r.devHw # RSP2 -> {refused}
       [] OTHER -> Fault(r) \cup {[accepted EXCEPT !.devNotch = "ON"]}

-----------------------------------------------------------------------------
(* The commands, as jCommand dispatches them.                              *)

\* The server thread takes a command when it is not in onBufferComplete.
Command(result) ==
  /\ svc = "select"
  /\ life = "up"
  /\ ctl' = result
  /\ UNCHANGED <<life, lateLock>>

\* Going from ctl to r stops the stream: no callback is running.
Joined(r) ==
  ctl.api = "streaming" /\ r.api # "streaming" => cbBuffer = NoBuffer

\* Mutants: the stop of a collection forgets the counter, or empties the pipe.
CancelForgotten == UNCHANGED poolVars
CancelAndFlush ==
  IF ctl.state = "Collecting"
    THEN /\ mFrameCounter' = 0
         /\ pipe' = 0
         /\ owed' = Len(file) + InFlight
         /\ UNCHANGED <<mFree, mFull, cbBuffer, svc, todo, wrBuffer,
                        mFirstFrame, sample, file>>
    ELSE UNCHANGED poolVars

\* stop first takes the counter to zero if a collection runs.
CancelIfCollecting ==
  IF ctl.state = "Collecting" THEN Cancel ELSE UNCHANGED poolVars

Open ==
  /\ \E r \in OpenResults(Asked(ctl)) : Command(r)
  /\ UNCHANGED <<poolVars, mNotify>>

Start ==
  /\ \E r \in StartResults(Asked(ctl)) : Command(r)
  /\ UNCHANGED <<poolVars, mNotify>>

Stop ==
  /\ \E r \in StopResults(Asked(ctl)) : Joined(r) /\ Command(r)
  /\ CancelIfCollecting
  /\ UNCHANGED mNotify

Close ==
  /\ \E r \in CloseResults(Asked(ctl)) : Joined(r) /\ Command(r)
  /\ CancelIfCollecting
  /\ UNCHANGED mNotify

\* A new file and a new count, whatever the state of the radio.
CollectCommand(n) ==
  /\ mNotify < MaxPending
  /\ Command(Told([ctl EXCEPT !.state = "Collecting", !.reply = "ok"]))
  /\ Collect(n)
  /\ mNotify' = mNotify + 1

\* The configuration sent replaces the whole of mCfg, and with it the
\* hardware version open noted there.
Load ==
  /\ \E notch \in OnOff :
       Command([Asked(ctl) EXCEPT !.cfgHw = UnknownHw, !.cfgNotch = notch,
                                  !.reply = "ok"])
  /\ UNCHANGED <<poolVars, mNotify>>

\* mir_sdr_SetRf on a running stream.
SetFrequency ==
  /\ ctl.api = "streaming"
  /\ Command([Asked(ctl) EXCEPT !.reply = "ok"])
  /\ UNCHANGED <<poolVars, mNotify>>

\* mir_sdr_SetRf fails, for want of a stream or a fault: stop, then start.
SetFrequencyRestarts ==
  /\ Faults \/ ctl.api # "streaming"
  /\ \E s \in StopResults(Asked(ctl)) : \E r \in StartResults(s) :
       Joined(s) /\ Command([r EXCEPT !.reply = "error"])
  /\ CancelIfCollecting
  /\ UNCHANGED mNotify

EnableNotch ==
  /\ \E r \in NotchResults(Asked(ctl), "ON") : Command(r)
  /\ UNCHANGED <<poolVars, mNotify>>

DisableNotch ==
  /\ \E r \in NotchResults(Asked(ctl), "OFF") : Command(r)
  /\ UNCHANGED <<poolVars, mNotify>>

\* What the shell prints of the answer to open, start, stop or close, beside the
\* number of the process.
Shown(r) == r.told

-----------------------------------------------------------------------------
(* The two threads at work on frames.                                      *)

\* The library calls back only while it streams.
StreamStep ==
  /\ life = "up"
  /\ \/ ctl.api = "streaming" /\ GetFreeBuffer
     \/ YieldFreeBuffer
  /\ UNCHANGED radioVars

ServeBuffers ==
  /\ life = "up"
  /\ ReadPipe \/ GetFullBuffer \/ WriteAndYield
  /\ UNCHANGED radioVars

\* Mutants: the test of the counter is off by one, or one "done" too many.
CompletePassLate ==
  /\ life = "up"
  /\ EndPass
  /\ IF mFrameCounter < 0
       THEN ctl' = [ctl EXCEPT !.state = "Streaming"] /\ mNotify' = 0
       ELSE UNCHANGED <<ctl, mNotify>>
  /\ UNCHANGED <<life, lateLock>>
CompletePassPopsOne ==
  /\ life = "up"
  /\ EndPass
  /\ IF mFrameCounter < 1
       THEN ctl' = [ctl EXCEPT !.state = "Streaming"] /\ mNotify' = mNotify - 1
       ELSE UNCHANGED <<ctl, mNotify>>
  /\ UNCHANGED <<life, lateLock>>

\* The end of onBufferComplete: with no frame left to take, the state becomes
\* Streaming, whatever it was, and everyone waiting is told "done".
CompletePass ==
  /\ life = "up"
  /\ EndPass
  /\ IF mFrameCounter < 1
       THEN ctl' = [ctl EXCEPT !.state = "Streaming"] /\ mNotify' = 0
       ELSE UNCHANGED <<ctl, mNotify>>
  /\ UNCHANGED <<life, lateLock>>

-----------------------------------------------------------------------------
(* The end: the "quit" command leaves Server::run and main returns.        *)

\* ~Radio closes the pipe and destroys the mutex ...
Quit ==
  /\ svc = "select"
  /\ life = "up"
  /\ life' = "closing"
  /\ UNCHANGED <<poolVars, ctl, mNotify, lateLock>>

\* ... while the library still calls back ...
LateCallback ==
  /\ life = "closing"
  /\ ctl.api = "streaming"
  /\ lateLock' = TRUE
  /\ UNCHANGED <<poolVars, ctl, mNotify, life>>

\* ... until it uninitialises the stream and releases the receiver.
Uninit ==
  /\ life = "closing"
  /\ life' = "gone"
  /\ ctl' = [ctl EXCEPT !.api = "idle"]
  /\ UNCHANGED <<poolVars, mNotify, lateLock>>

-----------------------------------------------------------------------------
Next ==
  \/ Open \/ Start \/ Stop \/ Close
  \/ \E n \in Requests : CollectCommand(n)
  \/ Load
  \/ SetFrequency \/ SetFrequencyRestarts
  \/ EnableNotch \/ DisableNotch
  \/ StreamStep \/ ServeBuffers \/ CompletePass
  \/ Quit \/ LateCallback \/ Uninit

\* A library that streams keeps calling back and its callbacks return; the
\* select loop serves every readable descriptor; main returns.
Fairness ==
  /\ WF_vars(StreamStep)
  /\ WF_vars(ServeBuffers \/ CompletePass)
  /\ WF_vars(Uninit)

Spec == Init /\ [][Next]_vars
FairSpec == Spec /\ Fairness

-----------------------------------------------------------------------------
(* Properties.                                                             *)

\* The radio's variables stay in their types.
RadioTypeOK ==
  /\ ctl \in Control
  /\ mNotify \in Nat
  /\ life \in {"up", "closing", "gone"}
  /\ lateLock \in BOOLEAN

\* The receiver never runs ahead of the state the operator sees: while the
\* library streams the state is Streaming or Collecting, and while it holds a
\* receiver the state is not NotAssigned, through every failure of a call
\* half-way through start, stop, close and set-frequency.  A receiver is not
\* forgotten: stop and close act on the states in which one may be held.
\* Whether the library then lets it go is another matter.  And
\* the stream thread meets the mutex ~Radio has destroyed only when quit comes
\* to a radio in one of those two states: whoever stops it first is safe.
DeviceNeverAhead ==
  /\ ctl.api = "streaming" => ctl.state \in {"Streaming", "Collecting"}
  /\ ctl.api = "selected" => ctl.state # "NotAssigned"
  /\ lateLock => life # "up" /\ ctl.state \in {"Streaming", "Collecting"}

\* Frames are taken only for a collection: as every command and every pass of
\* onBufferComplete leaves them, the counter is positive only in state
\* Collecting.  collect, stop, close, set-frequency and onBufferComplete set
\* the two in separate lock() sections; only the server thread, which is in
\* one of these, reads mState, so nobody sees them half-way.
CountingOnlyWhileCollecting == mFrameCounter >= 1 => ctl.state = "Collecting"

\* The operator sees of an answer to open, start, stop and close the state and
\* not the error (fmtStart).  Wherever in the command a call failed, and whatever
\* a command that was called before it put into the answer, the state shown is
\* that of the radio; an answer without an error shows one; and a stop or a close
\* without an error has let the receiver go and takes no more frames.
AnswersTruthful ==
  [][Open \/ Start \/ Stop \/ Close =>
       /\ Shown(ctl') \in {NoState, ctl'.state}
       /\ ctl'.reply = "ok" => Shown(ctl') = ctl'.state
       /\ (Stop \/ Close) /\ ctl'.reply = "ok" =>
            ctl'.api = "idle" /\ ctl'.state = "NotAssigned" /\ mFrameCounter' < 1]_vars

\* What commands, failures and the end of the process do to the buffers is
\* what FramePool allows, so its properties hold of the radio.
ImplementsPool == PoolSpec

\* The collection under way is of no frames: none is in the file, none will be.
Empty == mFrameCounter < 1 /\ InFlight = 0 /\ file = <<>>

\* A collection of at least one frame on a running stream ends with a "done"
\* to whoever waits, unless a later command ends it first or replaces it by a
\* collection of no frames.
CollectNotified ==
  (ctl.state = "Collecting" /\ ctl.api = "streaming" /\ mFrameCounter >= 1)
    ~> (mNotify = 0 \/ ctl.state # "Collecting" \/ life # "up" \/ Empty)

-----------------------------------------------------------------------------
(* What the comments and the help texts say, and the code does not do.     *)

\* "when collect complete, change state ... Let the guy know his job is done":
\* no frame of the collection is still on its way to the file by then.
DoneAfterLastFrame == [][mNotify > 0 /\ mNotify' = 0 => InFlight = 0]_vars

\* "stop (and close) all radio streams": a stopped radio is Streaming again
\* only when its stream is started.
StoppedStaysClosed ==
  [][ctl.state = "NotAssigned" /\ ctl'.state = "Streaming"
       => ctl'.api = "streaming"]_vars
=============================================================================
