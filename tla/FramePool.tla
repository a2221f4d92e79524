----------------------------- MODULE FramePool ------------------------------
(***************************************************************************)
(* The pool of frame buffers a Radio shares between two threads            *)
(* (src/src/radio.cpp):                                                    *)
(*                                                                         *)
(*   - the stream thread of the SDR library calls streamCallback for every *)
(*     frame: take a free buffer, fill it, put it on the full queue and    *)
(*     write one byte into mBufferPipe;                                    *)
(*   - the server thread waits in select(); a readable mBufferPipe runs    *)
(*     onBufferComplete, which reads the waiting bytes, and for each byte  *)
(*     takes a full buffer, writes it to the file and frees it.            *)
(*                                                                         *)
(* Every lock() ... unlock() section of the code is one action, together   *)
(* with the thread-private work next to it.                                *)
(***************************************************************************)
EXTENDS Integers, Sequences

CONSTANTS BuffCount,   \* mBuffCount, 100 in the code
          Requests,    \* the "frames" values operators send with "collect"
          MaxFrames    \* bound: frames captured or asked for in a behaviour

ASSUME BuffCountAssumption == BuffCount \in Nat \ {0}
ASSUME RequestsAssumption == Requests \subseteq Int
ASSUME MaxFramesAssumption == MaxFrames \in Nat

Buffer == 1..BuffCount
NoBuffer == 0          \* the NULL of getFreeBuffer and getFullBuffer

VARIABLES
  mFree,         \* queue of the buffers ready to be filled
  mFull,         \* queue of the buffers waiting to be written
  mFrameCounter, \* frames the collection still has to take
  pipe,          \* bytes waiting in mBufferPipe
  cbBuffer,      \* the buffer streamCallback is filling
  svc,           \* server thread: "select", or "drain" in onBufferComplete
  todo,          \* nc - k, bytes onBufferComplete has read and not served
  wrBuffer,      \* the buffer onBufferComplete is writing to the file
  mFirstFrame,   \* the frame each buffer holds, numbered in capture order
  sample,        \* the number of the next frame captured
  file,          \* the frames in the file created last
  owed           \* history: frames the current file is going to hold

poolVars == <<mFree, mFull, mFrameCounter, pipe, cbBuffer, svc, todo,
              wrBuffer, mFirstFrame, sample, file, owed>>

Held(b) == IF b = NoBuffer THEN 0 ELSE 1

\* Frames a collection has taken that have not reached the file.
InFlight == Held(cbBuffer) + Len(mFull) + Held(wrBuffer)

Smaller(a, b) == IF a < b THEN a ELSE b

PoolInit ==
  /\ mFree = [n \in Buffer |-> n]
  /\ mFull = <<>>
  /\ mFrameCounter = 0
  /\ pipe = 0
  /\ cbBuffer = NoBuffer
  /\ svc = "select"
  /\ todo = 0
  /\ wrBuffer = NoBuffer
  /\ mFirstFrame = [b \in Buffer |-> 0]
  /\ sample = 0
  /\ file = <<>>
  /\ owed = 0

-----------------------------------------------------------------------------
(* The stream thread.                                                      *)

\* Mutant: the buffer is read with front() and never popped.
GetFreeBufferNoPop ==
  /\ cbBuffer = NoBuffer
  /\ mFree # <<>>
  /\ mFrameCounter >= 1
  /\ cbBuffer' = Head(mFree)
  /\ mFrameCounter' = mFrameCounter - 1
  /\ UNCHANGED <<mFree, mFull, pipe, svc, todo, wrBuffer, mFirstFrame, sample,
                 file, owed>>

\* Mutants: the counter is not counted down, or its test is off by one.
GetFreeBufferWhen(wanted, counter) ==
  /\ cbBuffer = NoBuffer
  /\ mFree # <<>>
  /\ wanted
  /\ cbBuffer' = Head(mFree)
  /\ mFree' = Tail(mFree)
  /\ mFrameCounter' = counter
  /\ UNCHANGED <<mFull, pipe, svc, todo, wrBuffer, mFirstFrame, sample, file,
                 owed>>
GetFreeBufferNoCount ==
  sample < MaxFrames /\ GetFreeBufferWhen(mFrameCounter >= 1, mFrameCounter)
GetFreeBufferOneMore ==
  GetFreeBufferWhen(mFrameCounter >= 0, mFrameCounter - 1)
GetFreeBufferOneLess ==
  GetFreeBufferWhen(mFrameCounter > 1, mFrameCounter - 1)

\* getFreeBuffer, called for every frame.  When no buffer is free or no frame
\* is wanted it returns NULL and the frame is dropped: nothing changes.
GetFreeBuffer ==
  /\ cbBuffer = NoBuffer
  /\ mFree # <<>>
  /\ mFrameCounter >= 1
  /\ cbBuffer' = Head(mFree)
  /\ mFree' = Tail(mFree)
  /\ mFrameCounter' = mFrameCounter - 1
  /\ UNCHANGED <<mFull, pipe, svc, todo, wrBuffer, mFirstFrame, sample, file,
                 owed>>

\* Mutant: the wake-up byte is written only when the full queue was empty.
YieldFreeBufferWakeOnce ==
  /\ cbBuffer # NoBuffer
  /\ mFirstFrame' = [mFirstFrame EXCEPT ![cbBuffer] = sample]
  /\ sample' = sample + 1
  /\ mFull' = Append(mFull, cbBuffer)
  /\ pipe' = IF mFull = <<>> THEN pipe + 1 ELSE pipe
  /\ cbBuffer' = NoBuffer
  /\ UNCHANGED <<mFree, mFrameCounter, svc, todo, wrBuffer, file, owed>>

\* The rest of streamCallback: fill the buffer, then yieldFreeBuffer.
YieldFreeBuffer ==
  /\ cbBuffer # NoBuffer
  /\ mFirstFrame' = [mFirstFrame EXCEPT ![cbBuffer] = sample]
  /\ sample' = sample + 1
  /\ mFull' = Append(mFull, cbBuffer)
  /\ pipe' = pipe + 1
  /\ cbBuffer' = NoBuffer
  /\ UNCHANGED <<mFree, mFrameCounter, svc, todo, wrBuffer, file, owed>>

-----------------------------------------------------------------------------
(* The server thread in onBufferComplete.                                  *)

\* select() reports mBufferPipe readable; read() takes up to mBuffCount bytes.
ReadPipe ==
  /\ svc = "select"
  /\ pipe >= 1
  /\ todo' = Smaller(pipe, BuffCount)
  /\ pipe' = pipe - Smaller(pipe, BuffCount)
  /\ svc' = "drain"
  /\ UNCHANGED <<mFree, mFull, mFrameCounter, cbBuffer, wrBuffer, mFirstFrame,
                 sample, file, owed>>

\* Mutant: mFull is a stack.
GetFullBufferNewest ==
  /\ svc = "drain"
  /\ todo >= 1
  /\ wrBuffer = NoBuffer
  /\ mFull # <<>>
  /\ wrBuffer' = mFull[Len(mFull)]
  /\ mFull' = SubSeq(mFull, 1, Len(mFull) - 1)
  /\ UNCHANGED <<mFree, mFrameCounter, pipe, cbBuffer, svc, todo, mFirstFrame,
                 sample, file, owed>>

\* One turn of the loop begins: getFullBuffer.  A NULL ends the turn.
GetFullBuffer ==
  /\ svc = "drain"
  /\ todo >= 1
  /\ wrBuffer = NoBuffer
  /\ IF mFull = <<>>
       THEN todo' = todo - 1 /\ UNCHANGED <<mFull, wrBuffer>>
       ELSE wrBuffer' = Head(mFull) /\ mFull' = Tail(mFull) /\ UNCHANGED todo
  /\ UNCHANGED <<mFree, mFrameCounter, pipe, cbBuffer, svc, mFirstFrame,
                 sample, file, owed>>

\* Mutant: the buffer is written and not given back.
WriteAndForget ==
  /\ wrBuffer # NoBuffer
  /\ file' = Append(file, mFirstFrame[wrBuffer])
  /\ wrBuffer' = NoBuffer
  /\ todo' = todo - 1
  /\ UNCHANGED <<mFree, mFull, mFrameCounter, pipe, cbBuffer, svc, mFirstFrame,
                 sample, owed>>

\* The turn ends: mFile.writeData, then yieldFullBuffer.
WriteAndYield ==
  /\ wrBuffer # NoBuffer
  /\ file' = Append(file, mFirstFrame[wrBuffer])
  /\ mFree' = Append(mFree, wrBuffer)
  /\ wrBuffer' = NoBuffer
  /\ todo' = todo - 1
  /\ UNCHANGED <<mFull, mFrameCounter, pipe, cbBuffer, svc, mFirstFrame,
                 sample, owed>>

\* The loop is over; what follows it changes nothing of the pool.
EndPass ==
  /\ svc = "drain"
  /\ todo = 0
  /\ svc' = "select"
  /\ UNCHANGED <<mFree, mFull, mFrameCounter, pipe, cbBuffer, todo, wrBuffer,
                 mFirstFrame, sample, file, owed>>

-----------------------------------------------------------------------------
(* The server thread running a command: it is not in onBufferComplete.     *)

\* What collect does to the pool: a new file, and the count of frames.
\* Frames in flight at that moment will be written to the new file.
Collect(n) ==
  /\ svc = "select"
  /\ sample + Held(cbBuffer) + n <= MaxFrames
  /\ file' = <<>>
  /\ mFrameCounter' = n
  /\ owed' = n + InFlight
  /\ UNCHANGED <<mFree, mFull, pipe, cbBuffer, svc, todo, wrBuffer,
                 mFirstFrame, sample>>

\* What stop does to the pool while a collection runs.
Cancel ==
  /\ svc = "select"
  /\ mFrameCounter' = 0
  /\ owed' = Len(file) + InFlight
  /\ UNCHANGED <<mFree, mFull, pipe, cbBuffer, svc, todo, wrBuffer,
                 mFirstFrame, sample, file>>

-----------------------------------------------------------------------------
StreamThread == GetFreeBuffer \/ YieldFreeBuffer
BufferComplete == ReadPipe \/ GetFullBuffer \/ WriteAndYield \/ EndPass

PoolNext ==
  \/ StreamThread
  \/ BufferComplete
  \/ \E n \in Requests : Collect(n)
  \/ Cancel

\* The library calls back as long as it streams, a callback returns, and the
\* select loop serves every readable descriptor.
PoolFairness ==
  /\ WF_poolVars(GetFreeBuffer)
  /\ WF_poolVars(YieldFreeBuffer)
  /\ WF_poolVars(BufferComplete)

PoolSpec == PoolInit /\ [][PoolNext]_poolVars
FairPoolSpec == PoolSpec /\ PoolFairness

-----------------------------------------------------------------------------
(* Properties.                                                             *)

BufferQueue == Seq(Buffer)

\* Every variable stays in its type.
PoolTypeOK ==
  /\ mFree \in BufferQueue
  /\ mFull \in BufferQueue
  /\ mFrameCounter \in Int
  /\ pipe \in Nat
  /\ cbBuffer \in Buffer \cup {NoBuffer}
  /\ svc \in {"select", "drain"}
  /\ todo \in Nat
  /\ wrBuffer \in Buffer \cup {NoBuffer}
  /\ mFirstFrame \in [Buffer -> Nat]
  /\ sample \in Nat
  /\ file \in Seq(Nat)
  /\ owed \in Int

\* A buffer is in a queue at most once.
NoRepeat(q) == \A i, j \in 1..Len(q) : q[i] = q[j] => i = j

IsIn(b, q) == \E i \in 1..Len(q) : q[i] = b

\* A buffer belongs to one place at a time: the two queues, the callback's
\* hands and the server's hands never share one, so no buffer is written to
\* the file while the stream thread overwrites it.
OneHolder ==
  /\ NoRepeat(mFree)
  /\ NoRepeat(mFull)
  /\ \A b \in Buffer : ~(IsIn(b, mFree) /\ IsIn(b, mFull))
  /\ cbBuffer # NoBuffer =>
       ~IsIn(cbBuffer, mFree) /\ ~IsIn(cbBuffer, mFull) /\ cbBuffer # wrBuffer
  /\ wrBuffer # NoBuffer => ~IsIn(wrBuffer, mFree) /\ ~IsIn(wrBuffer, mFull)

\* No buffer is ever lost: each one is free, being filled, waiting or being
\* written.  A lost buffer would shrink the pool for the life of the process.
NoneLost ==
  \A b \in Buffer :
    IsIn(b, mFree) \/ IsIn(b, mFull) \/ b = cbBuffer \/ b = wrBuffer

\* One wake-up byte exists for every buffer that waits to be written, so
\* getFullBuffer never comes back empty-handed, no full buffer is forgotten in
\* the queue, and the write() that yieldFreeBuffer makes with the mutex held
\* finds at most BuffCount - 1 bytes in the pipe and cannot block.
TokenBalance ==
  /\ pipe + todo = Len(mFull) + Held(wrBuffer)
  /\ pipe + Held(cbBuffer) <= BuffCount

\* The file holds consecutive frames in the order of capture, with no frame
\* missing, doubled or out of order between the file, the server's hands and
\* the full queue, across collections that are cut short or restarted.
FileInOrder ==
  /\ \A i \in 1..Len(mFull) :
       mFirstFrame[mFull[i]] = sample - Len(mFull) + i - 1
  /\ wrBuffer # NoBuffer => mFirstFrame[wrBuffer] = sample - Len(mFull) - 1
  /\ \A i \in 1..Len(file) :
       file[i] = sample - Len(mFull) - Held(wrBuffer) - Len(file) + i - 1

\* Whatever the order of the two threads, the frames still to take, those in
\* flight and those in the file add up to what the current file is owed: the
\* count asked for, plus what an earlier collection had in flight.
FramesAccounted == mFrameCounter + InFlight + Len(file) = owed

\* A filled buffer always comes back to the free queue (the byte written for
\* it wakes the server thread, or the server thread is awake already).
FullReturns ==
  \A b \in Buffer : IsIn(b, mFull) ~> IsIn(b, mFree)

\* A collection takes all its frames and they all reach the file, provided
\* the operator asks for finitely many frames (MaxFrames).
CollectionEnds == (mFrameCounter >= 1) ~> (mFrameCounter < 1 /\ InFlight = 0)

-----------------------------------------------------------------------------
(* The pool is a queue of frames.                                          *)

Writing == IF wrBuffer = NoBuffer THEN <<>> ELSE <<mFirstFrame[wrBuffer]>>
Waiting == [i \in 1..Len(mFull) |-> mFirstFrame[mFull[i]]]

Queue == INSTANCE FrameQueue WITH
           Capacity <- BuffCount,
           queue <- Writing \o Waiting,
           busy <- cbBuffer # NoBuffer,
           wanted <- mFrameCounter,
           next <- sample,
           stored <- file

\* With its buffers, wake-up bytes and locks the pool does nothing the queue of
\* FrameQueue could not do.
ImplementsQueue == Queue!QueueSafety
=============================================================================
