# A TLA+ model of sdrplay-experiment

`sdr` collects IQ samples from one or more SDRplay receivers at once. This
directory models the parts of it that are hard to test: two threads that share a
pool of buffers, radios whose commands can fail half-way and that compete for
receivers and file names, a ring of processes that exchange messages until one of
them goes, a select loop whose actions change the list it walks, and data files
that are read while they are written. TLC checks the models on small instances;
TLAPS proves the main results for every value of the constants.

Source paths below are relative to `src/src/`.

## 1. The system

`sdr.cpp` makes the pipes of a ring and forks N processes. Each runs a `Server`: a
`select` loop over `Device`s (descriptors with an action) and a table of named
`Task`s. Every process has one `Radio` task; process 0 also listens on TCP port
1535 and makes a `Shell` task for every operator who connects.

| component | source | state it keeps | operations |
|---|---|---|---|
| frame buffer pool | `radio.cpp` 7-33, 225-289, 622-649 | `mFree`, `mFull`, `mFrameCounter`, the pipe `mBufferPipe`, `mFile` | `streamCallback` (stream thread); `onBufferComplete`, `collect`, `stop` (server thread) |
| radio | `radio.cpp` 340-669 | `mState`, `mCfg`, `mNotify`; the receiver behind the SDR library | `open`, `start`, `stop`, `close`, `collect`, `load`, `set-frequency`, notch filter on and off, destruction |
| recordings | `radio.cpp` 128-160, 415-446, 655-669 | which radio holds which receiver, `serial-number`, `file-name`, `mSequenceNumber`, the files | `open`, `close`, `load`, `collect`, `expandName`, by all the processes side by side |
| process start | `server.cpp` 90-147, `sdr.cpp` | `mFd`, who has which end of a pipe open | `PipeRing`, `fork`, `atServer`, `~PipeRing` |
| pipe ring, dispatch | `server.cpp` 57-81, 149-277 | bytes in the pipes, the table of tasks | `recvPipe`, `sendPipe`, `return_to_sender`, `add`, `del`, `jCommand` |
| event loop | `server.cpp` 244-343, `shell.cpp` 1-40, 430-445 | device list, `mPending`, `mToDelete`, descriptors | `run`, `add`, `del`, `onConnection`, `doRecv` |
| shell | `shell.cpp` | `mSkipPrompt`, the socket | one function per command, `jCommand`, `prompt` |
| data file | `iqdata.cpp` | the file, `IQStream`'s place in it | `create`, `barf`; `open`, `unbarf`, `readSome`, `operator int`, `operator>>` |
| plotting tools | `fftcor.cpp`, `fftplot.cpp`, `gfft.cpp`, `phasediff.cpp`, `histogram.cpp`, `spectrum.cpp` | arrays of a frame's size, streams | read frame by frame, transform, average, print |
| RF switch | `jsocket.cpp`, `network.cpp` | a socket nothing is sent to | `open` |

How they interact:

- The SDR library's thread calls `streamCallback`. It shares `mLock`, the two
  queues and the counter with the server thread, and wakes it with one byte in
  `mBufferPipe` for each full buffer.
- The server thread runs one device action at a time: a pass of
  `onBufferComplete`, `recvPipe`, which calls a task's `jCommand`, or a shell's
  `doRecv`.
- Tasks of different processes exchange JSON messages over the ring. A message
  goes once around and its sender takes it off. A command for all radios is carried
  out by all processes at about the same time, on the receivers of one library and
  the files of one directory.
- Tools read the files that radios write, at any time.

What is hard here: the two threads of a radio; commands that arrive while frames
are in flight; library calls that fail in the middle of a command; the moment
at which a collection counts as complete; processes that choose the same receiver;
reads of a pipe that return several messages; a process that ends while messages
are under way, and descriptors some process has forgotten to close; operators who
leave in the middle of a pass; files that end anywhere. The list with the line
where each bites, and the properties about it, is under `hazards` in
`PROJECT.json`.

## 2. The modules

| module | what it is | extends or instantiates |
|---|---|---|
| `FrameQueue` | abstract: frames go through a bounded first-in first-out queue to a file | |
| `FramePool` | the buffer pool with its two threads | `FrameQueue` (refinement) |
| `Radio` | state, commands and answers of a radio, the library, the end of the process | `FramePool` (its variables and actions) |
| `Servers` | the processes and their order | |
| `Recordings` | the receivers and files of all the radios | `Servers` |
| `PipeRing` | the pipes, the forks, who holds which end | `Servers` |
| `Ring` | messages around the ring of processes | `Servers` |
| `RingExit` | start and end of the processes, with messages under way | `Ring`, `PipeRing` |
| `Shell` | the prompt of the operator's shell | `Ring` (its variables and actions) |
| `EventLoop` | the select loop of server 0 | |
| `IQFile` | the data file between a radio and a tool | |
| `Spectrum` | the order of the bins and their labels, the peak | |
| `Tools` | the plotting tools as readers of data files | `Spectrum` |
| `RadioProofs` | theorems about `FramePool` and `Radio` | `Radio` |
| `RecordingsProofs`, `RingProofs`, `EventLoopProofs`, `IQFileProofs`, `ToolsProofs` | theorems about the module of that name | that module |
| `RingExitProofs` | theorems about `PipeRing` and `RingExit` | `RingExit`, `RingProofs` |
| `ShellProofs` | theorems about `Shell` | `Shell`, `RingProofs` |
| `MC...` | sets of inputs for TLC | |

Definitions named "mutant" in a comment are not part of a specification: each is
a plausible bug, used to confirm that a property notices it.

### FramePool

One action per `lock() ... unlock()` section together with the work private to
the thread beside it. `GetFreeBuffer` and `YieldFreeBuffer` are the callback;
`ReadPipe`, `GetFullBuffer`, `WriteAndYield` and `EndPass` the pass of
`onBufferComplete`; `Collect` and `Cancel` what the commands do to the pool. A
call of `getFreeBuffer` that returns NULL drops the frame and changes nothing, so
it is a stutter. A buffer's contents are the number of the frame in it
(`mFirstFrame`); the file is the sequence of those numbers. `owed` is a history
variable: how many frames the current file is going to hold.

The writes to the file and to the pipe are taken to succeed. That the pipe write
cannot block is checked (`TokenBalance`).

### Radio

`ctl` holds the state the code keeps (`state`, and from `mCfg` the hardware
version and the notch setting), the library's and the receiver's state (`api`,
`devHw`, `devNotch`, `setup`), and the answer to the last command: whether it is an
error (`reply`) and the state it tells (`told`). Commands call one another in the
code (`start` calls `open`, `close` and `set-frequency` call `stop`), handing on the
message that becomes the answer, so each is an operator from a state to the set of
its outcomes (`OpenResults`, `StopResults`, ...); an outcome with reply `"error"` is
a return from the `check` macro. `Shown` is what `fmtStart` makes of the answer. A
command is one action: between its `lock()` sections only the stream thread can
move, and what it does commutes with the command. The window in which `collect`
has set the counter and not yet the state is therefore not visible; only the
server thread reads the state.

The SDR library is modelled from its use: a call may fail whenever `Faults` is
TRUE, calls that need a stream or a receiver fail without one, set-up calls for a
model of receiver fail on another model, and `mir_sdr_StreamUninit` returns when
no callback is running. Where the library's behaviour is not documented
(releasing when nothing is selected, say) both outcomes are possible.

### Recordings

The radios of all the processes, reduced to which receiver each holds and whether
it collects. `open` is two actions, `List` and `Choose` (or `ChooseNone`): the
library's list and the choice, between which other processes choose. `Choose`
notes the serial number whether or not `mir_sdr_SetDeviceIdx` then accepts.

A template is a sequence of items, the fields `%n`, `%p` and `%s` and what is between
them. `ExpandName` strings together what `Item` makes of each, as `expandName` does, so
that two files have one name when their texts agree, whatever the texts were made
from: `%n.brf` with number 1 is `%p.brf` of process 1, and `%p%n` with number 10 of
process 1 is `%n%p` with number 11 of process 0. How a number and a serial number are written are constants
(`Digits`, `SerialNumber`) of which it is assumed only that different ones have
different texts without a dot; TLC's run counts in strokes, which run together first.
The properties are about processes that use one template, and one in which a dot
follows every field but the last (`OneTemplate`, `Apart`): for the others the names
do coincide, and the code does nothing against it. Numbers begin at 1 in every
session, and the files of earlier ones that are still in the directory are not looked
at: the properties are about the files created since the start.

### PipeRing, Ring, RingExit

`PipeRing` has one action per turn of the constructor's loop that sorts the ends, one
per `fork` and the closing that follows it, one for the first process that leaves,
and one for a server that ends. `fork` may fail; nobody looks.

A step of a server in `Ring` is the first part of `recvPipe` (read, pass on or drop) or
its second part (dispatch to a task, or return an error); other servers move in
between. `RecvPipe` takes all the messages that wait, as `read` does, looks at
the first and treats all alike. A message carries the number of the command it
belongs to, so that the histories `done` and `heard` can tell repeats. `merged`
records whether a read ever took more than one message. Messages are whole and
pipes are never full: `PipeLoad` bounds how many messages of a command can be on their way.

`RingExit` composes the two. The ring's actions are taken by servers that live
(`Running`), whose writes need a reader at the other end; without one the server is
ended by SIGPIPE. `ObeyQuit` and `Leave` are the end on command, `Crash` any other. A
pipe that is empty and has no writer reads as end of file: at server 0 `recvPipe`
takes that for a message to itself and answers it (`EndOfFile`).

### Shell

Every line an operator can type is described by what it sends (`Type` of `Ring`) and
by the number it gives to `prompt`: `CmdStart` stands for `open`, `start`, `stop` and
`close` with a process number, `CmdLc` for these and `lc` without one. `Prompt` is
`Shell::prompt`, and `HearAnswer` is the ring's delivery of an answer together with
the prompt that follows it. A prompt is printed when the count is zero, so the count
stands for it.

`counted` is a history variable: every line so far fits its number of answers and was
typed when none was awaited. It says when the operator can rely on the prompt
(`PromptsMatchAnswers`); whatever is typed, the prompt comes back (`PromptReturns`).

### EventLoop

`Select` is the top of the loop: additions, deletions, and `select()`; the pass that
follows is one action per device whose descriptor is readable, then `EndPass`. Devices
and their tasks have one number; descriptors have an owner, and a file a `collect`
leaves open keeps its descriptor for ever. The actions are what they do to the list,
to the descriptors and to the loop: what `recvPipe` does besides is in `Ring`. The
order of the list is left open. A process may die where the code has it in the hands
of the build: `FD_ISSET` of descriptor -1, `Server::del(Task*)` going on from an erased
iterator, and `send` to a closed connection.

### IQFile

The radio's side appends units to the file one at a time (`Deliver`), so a reader
sees every prefix; a radio that dies simply stops. The reader's actions are the
reads of `readHeader` and `unbarf` and the turns of `readSome`; `caller` is the
return address of `unbarf`. The three callers handle its failure differently,
which is what the properties are about. `readSome` exists twice, for two types
of sample; it is one action here.

### Spectrum, Tools

`Tools` is the `main` of five programs that differ in how many files they read, whether
they take `-n`, whether they look if the stream is open, and how they loop
(`Looks`, `ByStream`, ...). A read of a frame is one action, since `IQFile` has looked at
what happens inside it; arrays hold the numbers of samples, so leftovers of an earlier
turn are visible. The constructor is where a chunk that is not all there matters: it
does not look at what `open` and `readData` returned, and takes the first chunk for a
whole one. `Construct` is therefore the set of the streams a file may give, with what
was there (`first`: all, a number of samples, only the fields, or not even the header).
The samples that were missing are `Junk`, memory nobody filled (`Sample`); without an array
a read is undefined; and if the radio has written on meanwhile, the stream looks for
the next chunk in the wrong place (`Astray`). Values are left out: `Spectrum` says at which place a bin ends up
(`Fixorder`) and what is printed beside it (`Label`); the run's assumption
`FixorderAsLoop` compares it with the loop, swap by swap, and `PeakIsFirstLargest`
compares `peak` with what it is for.

## 3. What the runs check

Runs expected to pass:

| run | bounds | checks | what it shows |
|---|---|---|---|
| `FramePool` | 3 buffers, 7 frames, requests -1, 0, 1, 2, 4 | `OneHolder`, `NoneLost`, `TokenBalance`, `FileInOrder`, `FramesAccounted`, `FullReturns`, `CollectionEnds`, `ImplementsQueue` | no buffer shared or lost, one byte per full buffer, frames in order and accounted for, whatever the threads and the operator do; the pool is a bounded queue |
| `Radio` | 2 buffers, 3 frames, requests -1 to 2, 2 waiting collections, an RSP1 and an RSP2, every call may fail | `RadioTypeOK`, `DeviceNeverAhead`, `CountingOnlyWhileCollecting`, `AnswersTruthful`, `ImplementsPool`, `CollectNotified` | no command, failing anywhere, leaves the receiver held or streaming under a state in which the radio takes itself to have none (whether the library then lets it go is not the radio's to say: if it refuses `StreamUninit`, the receiver stays selected in state Streaming); the state an answer shows is the radio's; the radio uses the pool as `FramePool` allows; a collection on a running stream is reported done |
| `Recordings` | 2 processes, 2 receivers, 2 files, numbers to 3, the templates `%s.`, `%n.%p.` and `%s%p` | `FileKept`, `NumberedFresh` | no recording under way is emptied by another radio that names its files alike, and no numbered name comes twice from one template, for the templates the properties name |
| `RingExit` | 3 servers, one of which may die or not be forked, commands that ask for 2 answers in all, among `lc` and `collect` for one radio, `quit` and a message without fields, an operator who may hang up | `ExitTypeOK`, `OneReaderOneWriter`, `DeliveredWhileWhole`, `RepeatsBounded`, `QuitEndsAll`, `LastEndsFirst`, `SurvivorsDrain` | nobody keeps an end that hides the end of another process; the ring delivers while it is whole, repeats a command at most once for each answer nobody took, comes to rest whatever dies, and `quit` ends all of it |
| `Shell` | 2 servers, 2 commands of any kind, `lt` and `collect` for all among them, Enter and help at any time | `PromptsMatchAnswers`, `PipeLoad`, `DeliveredUnlessMerged`, `PromptReturns` | the prompt comes with the last answer if the line's count fits, and always comes back; notifications reach the shell like answers; messages do not pile up |
| `EventLoop` | 2 operators, 5 descriptors | `TypeOK`, `ListMatchesTasks`, `OneDevicePerFd`, `ActionsReadable`, `InputServed`, `QuitEnds` | no action is called for a shell that is gone or with nothing to read, although shells come and go, and descriptors are used again, within a pass; whoever has input is served; `quit` ends the loop |
| `IQFile` | 3 chunks of 3 samples, frame sizes 0 (the file's), 1, 2, 4 | `SamplesInOrder`, `FramesWhole`, `ReadEnds` | a stream that began with a whole chunk is faithful while the file grows, and only its last frame can be short |
| `Tools` | chunks of 1, 2 or 3 samples, 4 chunks, a first one or a header cut off anywhere, `-n` 0, 1, 2, 4 or none | `ReadsInBounds`, `FramesAligned`, `LabelsRight`, `ToolEnds` | arrays are not overrun and what is averaged are the frames of the files at the same place, with memory nobody filled for the samples of a first chunk that was cut off, but in the cases the properties name; bins get their own frequency for even sizes; tools end |

Runs expected to find a violation, each a finding in `PROJECT.json`:

| run | property | what the code does |
|---|---|---|
| `RadioDone` | `DoneAfterLastFrame` | reports done while the last frames are on their way to the file |
| `RadioStopped` | `StoppedStaysClosed` | a stopped radio turns Streaming when leftover frames are written |
| `RingLost` | `ReachesAll` | of two broadcasts read together the second is lost |
| `IQFileCut` | `OnlyWrittenSamples` | hands out samples of a first chunk that is not there |

### Bounds

- Buffers, 3 and 2 instead of 100: enough for one being filled, one waiting and
  one being written, and for the pool to run dry (a request of 4 frames). The
  theorems hold for any number.
- Frames (`MaxFrames`), 7 and 3: room for a collection cut short by another, with
  frames of both in flight. Requests below one are what `atoi` makes of a bad
  argument.
- Waiting collections (`MaxPending`), 2: a second `collect` before the first is
  done.
- Servers in `RingExit`, 3: one that is neither sender nor receiver of a message, and one
  between the one that dies and server 0. Collections of all radios multiply the
  messages, so `Shell` has 2 servers. `lt` is left out of `RingExit`: answered to a
  shell that is gone it goes on for ever (see below).
- `MaxErrors`, one: of the errors server 0 sends at each turn at the end of a file, one
  at a time waits in the pipe.
- Commands (`MaxCommands`), 2: a command typed while another's answers are on their
  way, and reads that mix the two.
- `MaxAnswers`, 2, in `RingExit`: two commands, or one collection, whose answers each make a
  radio repeat it when the operator has left.
- Process numbers (`Processes`): one of the ring, the one that stands for all, and one
  that is nobody's.
- Operators (`MaxShells`), 2, and descriptors (`NFd`), 5: one operator leaves while the
  other comes and is given his descriptor; with one file left open there is a
  descriptor for one of them only.
- Receivers and processes in `Recordings`, 2 and 2: two that want the same receiver.
  `MaxCollects`, 2: a file and the one that might replace it. `MaxNumber`, 3: two files by
  one process, each with its number.
- Chunks, 3, of 3 samples in `IQFile`: a first, a middle and a last chunk; frame sizes that
  are the chunk's, divide it, do not divide it and exceed it. In `Tools` the two files
  have chunks of equal and of different sizes.

Deadlock is not checked where the system may stop: after `quit`, at the bounds, at
the end of a file. `FramePool` is checked for deadlock, since an operator can
always stop a collection.

### Fairness

- `GetFreeBuffer`, `YieldFreeBuffer` (`StreamStep` in `Radio`): the library calls
  back for as long as it streams, and the callback takes no lock that is held for
  ever.
- `BufferComplete` (`ServeBuffers`, `CompletePass`): `select` is level-triggered and
  `Server::run` serves every readable descriptor, so a byte in `mBufferPipe` leads to
  a pass, and a pass ends. `InputServed` checks that claim about the loop.
- The steps of a server in `Ring`, `Shell` and `RingExit` (`ServerLives`): the same loop for
  the ring's pipe. A collection need not end, so `Notify` is fair only inside the loop
  over `mNotify`. `Starting`: the first process goes on to fork.
- `Loop` in `EventLoop`: the process runs. Weak fairness of the loop as a whole is
  enough, since a pass visits every readable device.
- `Stream` in `IQFile`, `Main` in `Tools`: the tool runs. The radio is not assumed to.
- Nothing is assumed of operators. `CollectionEnds` relies on `MaxFrames`: an operator
  who goes on asking could extend a collection for ever.

## 4. What is proved

From the named assumptions on the constants alone (`BuffCount` positive, `NServer`
positive, chunk sizes positive, and so on), for any number of buffers, servers,
descriptors, operators, receivers, chunks and samples.

`RadioProofs`, the pool:

- `PoolTypeCorrect`. The invariant adds `todo >= 1` while a buffer is being written,
  and that the server thread holds a buffer only in the pass; `GetFullBuffer` and
  `WriteAndYield` keep `todo` a natural number only because of it.
- `PoolOneHolder`, `PoolNoneLost`. From lemmas on what pushing to and popping from a
  queue does to its members. The two are one inductive invariant: a pop gives a
  buffer to nobody else because of the first, and every buffer stays somewhere
  because of the second.
- `PoolTokenBalance`. The equation of bytes and full buffers is inductive on its own; the
  bound on the pipe is a count: the buffers in `mFree`, `mFull` and the two hands are
  at all times `BuffCount` (`CountInit`, `CountStep`), so at most that many bytes can
  be waiting.
- `PoolFramesAccounted`, inductive with the type invariant.
- `PoolFileInOrder`. The file, the buffer being written and the full queue are read as one
  stretch of consecutive numbers that ends at `sample - 1`. A buffer that is filled
  must not be one of those in the stretch: this is `OneHolder`.
- `PoolImplementsQueue`. Initial states map to initial states and every step of the pool
  is a step or a stutter of `FrameQueue`; `Begin` needs a free place in the abstract
  queue, which is the count of buffers again.

`RadioProofs`, the radio:

- `RadioImplementsPool`: every action of the radio changes the pool by a step of
  `FramePool` or not at all, so the pool's theorems carry over (`RadioFileInOrder`,
  `RadioOneHolder`).
- `RadioTypeCorrect`, `RadioDeviceNeverAhead`, `RadioCounting`: the results are proved for
  the outcome operators first (an outcome of `StopResults` on a state that is not
  ahead is not ahead), then lifted to the actions.
- `RadioAnswersTruthful`: what each operator leaves in the answer, for every place a call
  can fail (`OpenTruthful`, `StartTruthful`, ...), then the action property.

`RecordingsProofs`: `RecordingsFileKept` and `RecordingsNumberedFresh`, for every way of writing
numbers and serial numbers that the assumptions admit. Names are texts, so what the
theorems need first is that a text can be read back: where the items of a template end
up in the text (`FlattenPlaces`), and that of two texts made from one template the same
field has the same place and the same digits, since the first dot behind it comes
at the same place (`PlacesApart`, by induction along the template, and `NamesTold`). The
invariant says that a process with a receiver has its serial number or none in its
configuration (`HoldInv`), that nobody who chooses has a receiver or collects
(`ChoosingInv`), that the file of a recording is made from the number of its process
(`FileInv`), and that every number given is below the next one (`NumberInv`).

`RingProofs`: a message that travels names one server as its sender (`RingTypeCorrect`;
the invariant adds that a server is busy with, and owes answers to, messages addressed
to it only, which is what makes the answer of `return_to_sender` name a server and not
the broadcast address). On top of it `RingRepeatsBounded`, `RingDeliveredUnlessMerged`
and `RingPipeLoad`, for rings of every size:

- Of a pipe only the first message matters, since `recvPipe` looks at no other: what is
  behind it is passed on or dropped with it. `KnownInv` says what a message that is
  looked at can be: a command (`Asks`), an answer to the shell (`Tells`), an answer that
  comes back because the shell is gone (`Returns`), the answer to that, which server 0
  ignores (`Ignored`), or one without fields.
- For each command and each server there is an account. `ToDo`, `ToHear` and `ToRedo` are
  the places (the front of a pipe, the hand of a server, its list of collections) where
  something is still to come of the command: at a front only if the message has not yet
  passed the server it is for. `InBounds` says that what is done and what is to come
  exceed neither the one execution nor its answers, every answer counting one
  repetition more; `AllThere` that nothing is missing while no read has taken two
  messages. Each action moves something from one place to another, or from a place to
  `done` and `heard`; a read can only lose.
- `RingRepeatsBounded` has a hypothesis: if the shell may go away, no command is `lt`.
  Without it the bound is false: the error about an answer to `lt` is an `lt` to the
  server that sent it, whose answer is an `lt` to server 0, and so on for ever.
  `RingDeliveredUnlessMerged` needs none, since it speaks of a ring whose shell is there.
- `RingPipeLoad` needs an account of its own, since a message counts wherever it waits and
  not only at a front. `LoadInv` says who a message of a command can be put down to: the
  operator's line, of which there is one, or a server that said it (`By`, `Said`). What
  is in the pipes on a server's account and in its list of collections (`Load`) is at most
  its answers times what it has carried out; while an answer can still come back, `Load`
  and `ToHear` together leave room for the error that takes its place. A message without
  fields has server 0 for its author and is alone. The sum over the servers is an
  injection of the waiting messages into pairs of a server and a number below the bound.
  The hypothesis about `lt` is that of `RingRepeatsBounded`, for the same reason.

`ShellProofs`: every step of `Shell` is a step of `Ring` or leaves it alone, so the accounts
hold (`ShellDeliveredUnlessMerged`, `ShellPipeLoad`). `ShellPromptsMatchAnswers` rests on their bounds: a
pair of a command and a server that has not answered leaves `Awaited` with the first
answer, and there is no second, nor one from a server that was not asked; the count
goes down by one with each, and stays within the number of servers whatever is typed.

`RingExitProofs`: `WiringOneReaderOneWriter` and `ExitOneReaderOneWriter`. The invariant is the
exact matrix of ends after each turn of the sorting loop, and that a server has the
two ends that are its own or has ended; that `Succ` is a permutation of the servers makes
the reader and the writer of a pipe unique. The steps of the ring keep the wiring and
the steps of the wiring keep the ring (`ExitTypeCorrect`). `ExitRepeatsBounded` and
`ExitDeliveredWhileWhole` are the accounts again: forks, crashes and broken pipes take
messages away or leave them where they are, and the answer at the end of the file
belongs to no command. A server that obeys `quit` does not record that it did, so the
account of a `quit` may end short (`Due`).

`IQFileProofs`: `StreamSamplesInOrder` and `StreamFramesWhole`. `FileInv` says what is at every
place of the file: unit `o` of chunk `c` is at `At(c, o)`, written so far or still to come.
`SoundInv` says that a stream that began with a chunk has taken the first `K` chunks for
some `K`, stands at the beginning of the next one, and that the samples it has left are
those that follow what it handed out (`FollowingAt`); or that no whole chunk followed
(`Ended`). A read that gets less than it asked for is at the end of what is written, so
it cannot have got a head or samples that belong together. That only the last
frame is short, and only if the frame size does not divide the chunk, is arithmetic on
`K * ChunkSize` (`Remainder`).

`EventLoopProofs`: `LoopTypeCorrect`, `LoopListMatchesTasks`, `LoopOneDevicePerFd`,
`LoopActionsReadable`, one inductive invariant with `ListInv` (what is to be added is not
listed, what is to be deleted is). What `select` said is still true when the pass gets
to a device because changes of the list wait for the next turn, every descriptor
serves one device, and a device takes input only in its own turn: each of the three
needs the others.

`ToolsProofs`: `ToolsReadInBounds` from where the sizes of arrays and frames come from
(`SizeInv`), which no read and no test changes; `ToolsLabelsRight` from `EvenLabelled`.
`OddMislabelled` proves that for every odd size above 1 the labels are wrong.
`ToolsFramesAligned` needs where every stream stands at every step of the loop
(`AlignInv`): before its read in turn `k` it has handed out `k - 1` frames, after it `k`, or
it is a stream of `fftcor -n` that has come to its end in the middle of a frame
(`TurnInv`); the next turn's test then ends the loop, so such an array is the last. A read
of a whole chunk cannot be short: the stream stands between two chunks and has taken
the next one, which is there (`WholeChunkLeft`): in the file, or, of a stream that the
constructor opened on a first chunk cut off, in what it took for one (`Seen`). And a stream that `Looks` found open
has a sample left when the loop begins, so that only the tools that read `N` samples
can print without a frame (`StartInv`, `EndInv`).

The inductive invariants were checked on the runs' instances before they were proved.

Only model-checked: the liveness properties (fairness and ENABLED are out of the prover's
reach), and what `Peak` computes, a recursive function. Every other invariant that a
passing run checks is stated by a theorem.

## 5. Seen while modelling

Disagreements and oddities without a run of their own; the models do what the code
does wherever they include them.

Radio:

- `disable-notch-filter` passes 1 to `mir_sdr_RSPII_RfNotchEnable`, as
  `enable-notch-filter` does (`radio.cpp:399`).
- `start` reads the hardware version before it calls `open` itself (`radio.cpp:459`): the
  set-up calls for the receiver's model are those for the receiver opened last, or
  none.
- On `quit` the mutex is destroyed before the stream is ended (`radio.cpp:123`); the stream
  thread can lock it then if the radio streams (`DeviceNeverAhead` says that it cannot
  otherwise).
- `fmtStart` prints the state of an answer and not its error (`shell.cpp:528`). After a
  call that failed there may be no state in the answer; the line then ends with the process
  number.
- `collect` does not ask whether the radio streams (`radio.cpp:655`). After `open` and
  `collect`, `stop` calls `mir_sdr_StreamUninit` on a receiver that does not stream; if the
  library refuses, the receiver stays selected in state Streaming: every further
  `stop` or `close` meets the same refusal, and `start` wants state Opened.
- A collection of no frames waits in `mNotify` for a pass of `onBufferComplete` that no
  frame will start, so nobody is told that it is done; `CollectNotified` leaves this case
  out (`Empty`).
- `open` keeps the serial number of a receiver it did not get: `collect` then empties the
  file of the process that got it, with the default file name. Radios that never opened
  share the file `.brf`. `FileKept` names both.
- `load` is per process, so the processes may name their files differently, and names
  are texts run together: `%n.brf` with number 1 and `%p.brf` of process 1 are one file, as
  are number 1 of process 10 and number 11 of process 0 under `%n%p`. A collect empties
  the other's recording then, with the process number in its name. The properties of
  `Recordings` are about one template with its fields apart.
- `mSequenceNumber` begins at 1 in every session (`radio.cpp:102`): the first numbered
  files of a session empty those of the last one in the same directory.
- `expandName` runs past the end of a name whose last character is `%`, and does not know
  `%w`, which the comment above its declaration lists (`radio.h:87`): it is copied as it is.
- `ls` asks the library again until it knows every receiver, and the ring waits.

Ring:

- `lt` answered to a shell that is gone bounces between two servers for ever, each one
  answering the other's error, which still has the command in it.
- `load` with three arguments sends an empty message. Server 0 takes it for one to
  itself, answers it, and answers that answer; the last one is to a task `server`, which
  ignores it (`SurvivorsDrain`, with `EmptyLoad` among the commands).
- `pipe()` and `fork()` are not checked (`mError` is never read), `~PipeRing` never closes
  descriptor 0, and `sdr` ignores its argument unless there are two.
- After the end of server N-1, server 0 reads the end of file at every turn and sends an
  error to nobody until its writes fail (`LastEndsFirst`).

Shell:

- `freq` and `filter` to all radios skip one prompt and get one answer from each radio,
  against "If a command expects ns acks then skip ns prompts" (`shell.cpp:572`); a radio
  that reports its collection done before another has acknowledged it brings the prompt
  early too. `counted` keeps these cases out of `PromptsMatchAnswers`.
- `load` takes any number for a file (`gl_pathv[nf]`, `shell.cpp:151`) and any process;
  of lines received together only the first command is carried out.
- With no descriptor left, a waiting connection makes the loop turn without rest
  (`InputServed` excepts it).

Files and tools:

- `readHeader` returns 0 both for success and at the end of the file, so a file
  that ends inside its header opens without an error; `IQFile` models it, and the stream
  then finds no chunk or reads from the wrong place (`"lost"`).
- For frames of odd size the labels below the centre, and the last one, are wrong: the bins
  there belong to other frequencies (`OddMislabelled`).
- A file whose first chunk is cut off is read as if it were whole (`iqdata.cpp:170`): the
  tools average memory nobody filled, or read from `NULL` if only the fields are there
  (`FramesAligned` and `ReadsInBounds` name both; the stream itself is the finding of
  `IQFileCut`). If the radio goes on writing, the stream reads samples for fields.
- `operator>>` into an `FFT` reads a frame of its own stream, whatever the size of the
  array: two files with different chunks and no `-n` overrun it (`ReadsInBounds`).
- With no whole frame in the file, `fftplot` and `gfft` divide by zero, and `gfft` uses
  `mFrameSize` uninitialised if there is no file.

## 6. Not modelled

- The values of radio settings, JSON and the layout of answers: no property depends
  on them.
- `Radio::ls` and `lsrsp.cpp`, which ask the library and change nothing.
- Messages cut in two by a read of 4096 bytes and full pipes: `PipeLoad` bounds the
  messages on their way; lengths are left out.
- Short writes after which a radio goes on (`iqdata.cpp:150`), and chunks of two sizes in one
  file, whose samples go past the end of `mData` (`iqdata.cpp:119`).
- The values of spectra, the phase correction of `fftcor`, gnuplot (`gfft`), and
  `readbarf.cpp`, which reads a format nothing writes any more.
- A `select()` that fails (`server.cpp:326`): every descriptor in the list is open and no
  signal is handled, so nothing in the program brings it about. The loop would end, after
  a last pass over the list in which, the sets being left as they were, every device's
  action is called.
- Templates with `%f`, and those that end in a single `%`, in `Recordings`.
- `jsocket.cpp` and the rest of `network.cpp`: the switch's socket is opened and never
  sent to, and the other functions are wrappers of socket calls nobody uses.
- Code no program reaches: `computeDecimation`, `configSwitch`, `Shell::doInput`,
  `tocomplex`, `getEthernetAddress`.
- `logger.cpp`, `utility.cpp`: output and the clock.
- `gnuplot-iostream.h` and `doc/play_sdr.c`, third-party code.
