------------------------------- MODULE IQFile -------------------------------
(***************************************************************************)
(* The data file (src/src/iqdata.cpp): a radio writes it with IQFile and   *)
(* IQData, a plotting tool reads it with IQStream, perhaps while the radio *)
(* is still writing or after a radio that died in the middle of a write.   *)
(*                                                                         *)
(* A file is a sequence of units: the JSON header, the null byte that ends *)
(* it, and for each chunk the field mSamples, the rest of the IQData       *)
(* fields, and the samples, numbered from 1 in the order they are written. *)
(* A write becomes visible unit by unit; a read returns at most what is    *)
(* there.  All chunks have ChunkSize samples, as the library delivers them *)
(* in one stream; the file exists when it is opened.                       *)
(***************************************************************************)
EXTENDS Integers, Sequences

CONSTANTS ChunkSize,  \* samples of a chunk
          Chunks,     \* bound: chunks written
          FrameSizes  \* what tools set with "-n", 0 for one that sets nothing

ASSUME ChunkSizeAssumption == ChunkSize \in Nat \ {0}
ASSUME ChunksAssumption == Chunks \in Nat
ASSUME FrameSizesAssumption == FrameSizes \subseteq Nat

Json == -1
Nul == -2
SamplesField == -3
OtherFields == -4
Stale == 0          \* a sample nobody read from the file

Header == <<Json, Nul>>
ChunkOf(c) == <<SamplesField, OtherFields>>
                \o [i \in 1..ChunkSize |-> (c - 1) * ChunkSize + i]

VARIABLES
  file,      \* the units in the file
  pending,   \* what the radio's write() has not delivered yet
  written,   \* chunks given to barf
  r,         \* where IQStream is, see Reader below
  caller,    \* who called unbarf: "ctor", "test" or "some"
  pos,       \* offset of the descriptor
  option,    \* the frame size the tool sets
  mOpen, mCnt, mFrameSize,
  mSamples,  \* mChunk.mSamples
  mData,     \* the samples in mChunk.mData, <<>> for NULL
  frame,     \* what readSome has put into the caller's array
  frames,    \* history: the frames handed to the tool
  sound,     \* history: the constructor read a whole chunk
  whole      \* history: the file was complete when it was opened

fileVars == <<file, pending, written>>
streamVars == <<mOpen, mCnt, mFrameSize, mSamples, mData, pos>>
vars == <<fileVars, streamVars, r, caller, option, frame, frames, sound, whole>>

\* "closed" and "header" are the opening, "head" and "data" the two reads of
\* unbarf, "test" operator int, "some" readSome.  "done" ends the tool's loop;
\* "lost" is a read through NULL or of fields that are none.
Reader == {"closed", "header", "head", "data", "test", "some", "done", "lost"}

Init ==
  /\ file = <<>> /\ pending = Header /\ written = 0
  /\ r = "closed" /\ caller = "ctor" /\ pos = 0
  /\ option \in FrameSizes
  /\ mOpen = FALSE /\ mCnt = 0 /\ mFrameSize = 0 /\ mSamples = 0 /\ mData = <<>>
  /\ frame = <<>> /\ frames = <<>>
  /\ sound = FALSE /\ whole = FALSE

-----------------------------------------------------------------------------
(* The radio.                                                              *)

\* Part of a write() has reached the file.
Deliver ==
  /\ pending # <<>>
  /\ file' = Append(file, Head(pending))
  /\ pending' = Tail(pending)
  /\ UNCHANGED <<written, streamVars, r, caller, option, frame, frames, sound, whole>>

\* writeData: barf writes the fields, then the samples.
Barf ==
  /\ pending = <<>>
  /\ written < Chunks
  /\ written' = written + 1
  /\ pending' = ChunkOf(written')
  /\ UNCHANGED <<file, streamVars, r, caller, option, frame, frames, sound, whole>>

-----------------------------------------------------------------------------
(* IQStream.                                                               *)

ReadUpTo(n) == SubSeq(file, pos + 1,
                      IF pos + n < Len(file) THEN pos + n ELSE Len(file))

CallUnbarf(who) == r' = "head" /\ caller' = who

\* The constructor calls open; the file has been created.
Open ==
  /\ r = "closed"
  /\ r' = "header"
  /\ whole' = (written = Chunks /\ pending = <<>>)
  /\ UNCHANGED <<fileVars, streamVars, caller, option, frame, frames, sound>>

\* readHeader reads byte by byte up to the null byte.  At the end of the file
\* it returns the 0 of read(), which open returns and the constructor takes for
\* success.
ReadHeader ==
  /\ r = "header"
  /\ LET got == ReadUpTo(1)
     IN /\ pos' = pos + Len(got)
        /\ IF got = <<Json>>
             THEN UNCHANGED <<r, caller, mOpen>>
             ELSE CallUnbarf("ctor") /\ mOpen' = TRUE
  /\ UNCHANGED <<fileVars, option, mCnt, mFrameSize, mSamples, mData, frame,
                 frames, sound, whole>>

\* The frame size of a new stream, unless the tool sets one.
\* Mutant: mFrameSize is left zero.
CtorFrameSizeUnset(samples) == option
CtorFrameSize(samples) == IF option = 0 THEN samples ELSE option

\* unbarf has found no whole chunk.
EndOfStreamIgnored == UNCHANGED mOpen        \* mutant
EndOfStream == mOpen' = FALSE

\* readSome returns what it has put into the array, and operator>> with it.
HandOver ==
  /\ frames' = IF frame = <<>> THEN frames ELSE Append(frames, frame)
  /\ frame' = <<>>
  /\ r' = "test"

\* What the three callers of unbarf do with its result.  The constructor looks
\* only at mSamples; then the tool may set a frame size.
Return(ok, samples) ==
  CASE caller = "ctor" ->
         /\ mCnt' = samples
         /\ mFrameSize' = CtorFrameSize(samples)
         /\ sound' = ok
         /\ r' = "test"
         /\ UNCHANGED <<mOpen, frame, frames>>
    [] caller # "ctor" /\ ok ->
         /\ mCnt' = samples
         /\ r' = "some"
         /\ UNCHANGED <<mOpen, mFrameSize, frame, frames, sound>>
    [] caller = "test" /\ ~ok ->
         /\ EndOfStream
         /\ r' = "done"
         /\ UNCHANGED <<mCnt, mFrameSize, frame, frames, sound>>
    [] caller = "some" /\ ~ok ->
         /\ EndOfStream
         /\ HandOver
         /\ UNCHANGED <<mCnt, mFrameSize, sound>>

\* The first read of unbarf, over the fields of mChunk; a short one may have
\* overwritten mSamples.  The first whole one allocates mData.
UnbarfHead ==
  /\ r = "head"
  /\ LET got == ReadUpTo(2)
         size == IF got # <<>> /\ got[1] = SamplesField THEN ChunkSize ELSE mSamples
     IN /\ pos' = pos + Len(got)
        /\ CASE got # <<>> /\ got[1] # SamplesField ->
                  /\ r' = "lost"
                  /\ UNCHANGED <<mOpen, mCnt, mFrameSize, mSamples, mData, frame,
                                 frames, sound>>
             [] Len(got) = 2 /\ got[1] = SamplesField ->
                  /\ mSamples' = size
                  /\ mData' = IF mData = <<>> THEN [i \in 1..ChunkSize |-> Stale]
                                              ELSE mData
                  /\ r' = "data"
                  /\ UNCHANGED <<mOpen, mCnt, mFrameSize, frame, frames, sound>>
             [] OTHER ->
                  /\ mSamples' = size
                  /\ Return(FALSE, size)
                  /\ UNCHANGED mData
  /\ UNCHANGED <<fileVars, caller, option, whole>>

\* The second read of unbarf, over mData.
UnbarfData ==
  /\ r = "data"
  /\ LET got == ReadUpTo(mSamples)
     IN /\ pos' = pos + Len(got)
        /\ mData' = got \o SubSeq(mData, Len(got) + 1, Len(mData))
        /\ Return(Len(got) = mSamples, mSamples)
  /\ UNCHANGED <<fileVars, caller, option, mSamples, whole>>

\* operator int: is there another sample?
Test ==
  /\ r = "test"
  /\ IF mOpen /\ mCnt < 1
       THEN CallUnbarf("test")
       ELSE r' = (IF mOpen THEN "some" ELSE "done") /\ UNCHANGED caller
  /\ UNCHANGED <<fileVars, streamVars, option, frame, frames, sound, whole>>

\* The sample readSome copies: mCnt of the chunk's are left.
NextSampleFromEnd == mData[mCnt]             \* mutant
NextSample == mData[mSamples - mCnt + 1]

\* One turn of the loop of readSome.
ReadSome ==
  /\ r = "some"
  /\ \/ /\ Len(frame) = mFrameSize
        /\ HandOver
        /\ UNCHANGED <<caller, mCnt>>
     \/ /\ Len(frame) < mFrameSize
        /\ mCnt < 1
        /\ CallUnbarf("some")
        /\ UNCHANGED <<mCnt, frame, frames>>
     \/ /\ Len(frame) < mFrameSize
        /\ mCnt >= 1
        /\ IF mData = <<>>
             THEN r' = "lost" /\ UNCHANGED <<frame, mCnt>>
             ELSE /\ frame' = Append(frame, NextSample)
                  /\ mCnt' = mCnt - 1
                  /\ UNCHANGED r
        /\ UNCHANGED <<caller, frames>>
  /\ UNCHANGED <<fileVars, option, mOpen, mFrameSize, mSamples, mData, pos, sound, whole>>

-----------------------------------------------------------------------------
Radio == Deliver \/ Barf
Stream == Open \/ ReadHeader \/ UnbarfHead \/ UnbarfData \/ Test \/ ReadSome

Next == Radio \/ Stream

\* The tool runs; the radio may stop at any unit.
Spec == Init /\ [][Next]_vars
FairSpec == Spec /\ WF_vars(Stream)

-----------------------------------------------------------------------------
(* Properties.                                                             *)

\* Sample i of the k-th frame is the sample the radio wrote at that place.
InPlace(f, k) == \A i \in 1..Len(f) : f[i] = (k - 1) * mFrameSize + i

\* Of a file that was complete when it was opened every sample is delivered.
AllRead ==
  (Len(frames) - 1) * mFrameSize + Len(frames[Len(frames)]) = Chunks * ChunkSize

\* A stream whose constructor read a whole chunk delivers the samples of the
\* file in order, none twice, none left out and none invented, whatever part
\* of a chunk is there when it reads, and never loses its place in the file; of a
\* file that was complete when it was opened it delivers all the samples.  No
\* stream counts beyond its chunk (readSome, operator int, unbarf).
SamplesInOrder ==
  /\ mCnt \in 0..mSamples /\ Len(mData) \in {0, ChunkSize} /\ Len(frame) <= mFrameSize
  /\ sound => /\ r # "lost"
              /\ \A k \in 1..Len(frames) : InPlace(frames[k], k)
              /\ InPlace(frame, Len(frames) + 1)
  /\ sound /\ whole /\ r = "done" => AllRead

\* Only the last frame handed to the tool can be short, only when the stream
\* has ended, and never with the frame size of the file: otherwise the tool
\* would transform what an earlier frame left in the array.
FramesWhole ==
  sound => \A k \in 1..Len(frames) :
             \/ Len(frames[k]) = mFrameSize
             \/ k = Len(frames) /\ ~mOpen /\ ChunkSize % mFrameSize # 0

\* The loop over a stream ends, whatever the radio goes on to write.
ReadEnds == sound ~> r = "done"

\* "This will be followed by 0 or more IQData structs" (iqdata.h): the tool
\* gets samples of these structs and nothing else.
OnlyWrittenSamples ==
  /\ \A k \in 1..Len(frames) : \A i \in 1..Len(frames[k]) : frames[k][i] # Stale
  /\ \A i \in 1..Len(frame) : frame[i] # Stale
=============================================================================
