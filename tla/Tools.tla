------------------------------- MODULE Tools ---------------------------------
(***************************************************************************)
(* The plotting tools that read data files frame by frame: fftcor and      *)
(* phasediff compare two files, fftplot, gfft and histogram read one.  A   *)
(* radio may go on writing the files meanwhile.                            *)
(*                                                                         *)
(* What IQStream does inside a chunk is modelled in IQFile; here a file is *)
(* the number of whole chunks it holds, a stream the number of chunks and  *)
(* of samples taken from it, and an array a sequence of sample numbers.    *)
(* What is there of a chunk that is still being written matters only to    *)
(* the constructor, which takes it for a whole one; all the others find no *)
(* chunk.  A read of a frame is one action: a chunk that comes during it   *)
(* might as well have come before.  The values of samples and spectra are  *)
(* left out.                                                               *)
(***************************************************************************)
EXTENDS Integers, Sequences, Spectrum

CONSTANTS ChunkSizes,  \* samples of a chunk, all alike in one file
          MaxChunks,   \* bound: chunks in a file
          Options      \* what atoi() makes of the argument of -n

ASSUME ChunkSizesAssumption == ChunkSizes \subseteq Nat \ {0}
ASSUME MaxChunksAssumption == MaxChunks \in Nat
ASSUME OptionsAssumption == Options \subseteq Int

NoOption == -1      \* Options::N without -n
Missing == -1       \* there is no such file
Junk == 0           \* memory of an array nobody has written

\* What the constructor got of the header and the first chunk, if not a number of
\* samples of a chunk that was cut off: all it looked for, or nothing; the fields
\* in part, with mData still NULL; not even the whole header.
Whole == -1
NoData == -2
NoHeader == -3

Tool == {"fftcor", "phasediff", "fftplot", "gfft", "histogram"}
TwoFiles == {"fftcor", "phasediff"}
TakesN == {"fftcor", "fftplot"}
Looks == {"fftcor", "phasediff", "fftplot"}       \* if (!IQ) return
ByStream == {"fftcor", "phasediff", "histogram"}  \* while (IQ), iq >> array
Labels == {"fftcor", "fftplot", "gfft"}           \* prints frequencies

VARIABLES
  tool,
  optN,      \* opt.N
  chunk,     \* samples of a chunk of each file
  there,     \* whole chunks in each file, or Missing
  strm,      \* each IQStream: mOpen, mFrameSize, chunks taken, samples handed out,
             \* what the constructor got
  N,         \* size of the arrays
  in,        \* the array of each stream
  averaged,  \* history: the arrays of every turn
  order,     \* the bins in the order they are printed
  pc, at     \* where main is, and with which file

fileVars == <<tool, chunk, there>>
vars == <<fileVars, optN, strm, N, in, averaged, order, pc, at>>

Files == 1..(IF tool \in TwoFiles THEN 2 ELSE 1)

Closed == [open |-> FALSE, size |-> 0, taken |-> 0, next |-> 0, first |-> Whole]

Init ==
  /\ tool \in Tool
  /\ chunk \in [Files -> ChunkSizes]
  /\ there \in [Files -> {Missing, 0, 1}]
  /\ optN = NoOption
  /\ strm = [f \in Files |-> Closed]
  /\ N = 0 /\ in = [f \in Files |-> <<>>]
  /\ averaged = <<>> /\ order = <<>>
  /\ pc = "options" /\ at = 1

-----------------------------------------------------------------------------
(* The radio.                                                              *)

RadioWrites(f) ==
  /\ there[f] \in 0..(MaxChunks - 1)
  /\ there' = [there EXCEPT ![f] = @ + 1]
  /\ UNCHANGED <<tool, chunk, optN, strm, N, in, averaged, order, pc, at>>

-----------------------------------------------------------------------------
(* IQStream.                                                               *)

\* mCnt, the samples left of the chunk.
Cnt(f) == strm[f].taken * chunk[f] - strm[f].next

\* The stream of a file in which there was something to open.
Opened(f, first) == [open |-> TRUE, size |-> chunk[f], taken |-> 1, next |-> 0, first |-> first]
OpenedEmpty(first) == [Closed EXCEPT !.open = TRUE, !.first = first]

\* Mutant: the constructor leaves the frame size to the tool.
ConstructUnsized(f) ==
  CASE there[f] = Missing -> {Closed}
    [] there[f] = 0 -> {OpenedEmpty(Whole)}
    [] OTHER -> {[Opened(f, Whole) EXCEPT !.size = 0]}

\* The constructor takes the first chunk, if there is one, for the frame size.  It
\* does not ask whether open and readData got all of the header and of the chunk.
Construct(f) ==
  CASE there[f] = Missing -> {Closed}
    [] there[f] = 0 -> {OpenedEmpty(Whole), OpenedEmpty(NoHeader)}
                       \cup {Opened(f, first) : first \in {NoData} \cup 0..(chunk[f] - 1)}
    [] OTHER -> {Opened(f, Whole)}

\* The stream stands in the middle of the header or of its first chunk.
Cut(f) == strm[f].first # Whole

\* The chunks that the stream finds, by then, to be whole and in their places.
Seen(f) == IF Cut(f) THEN strm[f].taken ELSE there[f]

\* operator int: with nothing left of the chunk it takes the next one.
Tested(f) ==
  IF ~strm[f].open \/ Cnt(f) > 0
    THEN strm[f]
    ELSE IF strm[f].taken < Seen(f) THEN [strm[f] EXCEPT !.taken = @ + 1]
                                    ELSE [strm[f] EXCEPT !.open = FALSE]

\* readSome stops where no whole chunk follows.
Got(f, want) ==
  LET rest == Seen(f) * chunk[f] - strm[f].next
  IN IF want <= rest THEN want ELSE rest

\* The j-th sample of the file, or what the memory of mData held in its place.
Sample(f, j) ==
  IF Cut(f) /\ strm[f].first < j /\ j <= chunk[f] THEN Junk ELSE j

Taken(f, want) ==
  LET next == strm[f].next + Got(f, want)
      chunks == (next + chunk[f] - 1) \div chunk[f]
  IN [strm[f] EXCEPT !.next = next,
                     !.taken = IF @ < chunks THEN chunks ELSE @,
                     !.open = @ /\ Got(f, want) = want]

-----------------------------------------------------------------------------
(* main of the tools (fftFile of gfft).                                    *)

\* The same with the next file, or the next step.
Go(step, next) ==
  IF at + 1 \in Files THEN pc' = step /\ at' = at + 1
                      ELSE pc' = next /\ at' = 1

\* parseOptions and the checks of argc; a refusal prints how to do it right.
ParseOptions ==
  /\ pc = "options"
  /\ \/ /\ optN' \in IF tool \in TakesN THEN Options \cup {NoOption} ELSE {NoOption}
        /\ pc' = "open"
     \/ pc' = "refused" /\ UNCHANGED optN
  /\ UNCHANGED <<fileVars, strm, N, in, averaged, order, at>>

\* After a part of the header the constructor may have read its next bytes for a chunk.
OpenStream ==
  /\ pc = "open"
  /\ \E stream \in Construct(at) :
       /\ strm' = [strm EXCEPT ![at] = stream]
       /\ \/ Go("open", IF tool \in Looks THEN "check" ELSE "size")
          \/ stream.first = NoHeader /\ pc' = "undefined" /\ UNCHANGED at
  /\ UNCHANGED <<fileVars, optN, N, in, averaged, order>>

\* "can't open", said of a file without samples too.
Check ==
  /\ pc = "check"
  /\ strm' = [strm EXCEPT ![at] = Tested(at)]
  /\ IF Tested(at).open
       THEN Go("check", "size")
       ELSE pc' = "refused" /\ UNCHANGED at
  /\ UNCHANGED <<fileVars, optN, N, in, averaged, order>>

\* Mutant: the second stream of fftcor is not told the frame size.
SizesFirstOnly ==
  CASE tool = "fftcor" /\ optN >= 0 ->
         /\ N' = optN
         /\ strm' = [strm EXCEPT ![1].size = optN]
    [] tool = "fftplot" /\ optN > 0 -> N' = optN /\ UNCHANGED strm
    [] OTHER -> N' = strm[1].size /\ UNCHANGED strm

\* The size of the arrays, and of the frames of fftcor.
Sizes ==
  CASE tool = "fftcor" /\ optN >= 0 ->
         /\ N' = optN
         /\ strm' = [f \in Files |-> [strm[f] EXCEPT !.size = optN]]
    [] tool = "fftplot" /\ optN > 0 -> N' = optN /\ UNCHANGED strm
    [] OTHER -> N' = strm[1].size /\ UNCHANGED strm

\* gfft does not ask whether the stream is open: mFrameSize is then whatever
\* was in that memory.
Allocate ==
  /\ pc = "size"
  /\ Sizes
  /\ in' = [f \in Files |-> [i \in 1..N' |-> Junk]]
  /\ pc' = CASE tool \in ByStream -> "test"
             [] tool = "gfft" /\ ~strm[1].open -> "undefined"
             [] OTHER -> "read"
  /\ UNCHANGED <<fileVars, optN, averaged, order, at>>

\* while (IQ1 && IQ2)
Test ==
  /\ pc = "test"
  /\ strm' = [strm EXCEPT ![at] = Tested(at)]
  /\ IF Tested(at).open
       THEN Go("test", "read")
       ELSE pc' = "print" /\ at' = 1
  /\ UNCHANGED <<fileVars, optN, N, in, averaged, order>>

\* Mutant: any samples at all make a frame.
FullRead(got) == got > 0
\* readSome(in,N) == N
WholeRead(got) == got = N

\* operator>> asks for a frame of the stream, fftplot and gfft for N samples.
Want(f) == IF tool \in ByStream THEN strm[f].size ELSE N

\* What the array holds beyond the samples it gets is from the turn before, and
\* what does not fit goes past its end; from NULL there is nothing to get.
Read ==
  /\ pc = "read"
  /\ LET got == Got(at, Want(at))
         noArray == strm[at].first = NoData /\ got > 0
     IN \/ /\ noArray \/ got > N
           /\ pc' = IF noArray THEN "undefined" ELSE "overrun"
           /\ UNCHANGED <<strm, in, at>>
        \/ /\ ~noArray /\ got <= N
           /\ strm' = [strm EXCEPT ![at] = Taken(at, Want(at))]
           /\ in' = [in EXCEPT ![at] =
                       [i \in 1..N |-> IF i <= got THEN Sample(at, strm[at].next + i) ELSE @[i]]]
           /\ IF tool \in ByStream
                THEN Go("read", "average")
                ELSE pc' = (IF WholeRead(got) THEN "average" ELSE "print") /\ at' = 1
  /\ UNCHANGED <<fileVars, optN, N, averaged, order>>

\* The radio has written on since the constructor found the header or the chunk cut
\* off: where the stream looks for the next chunk there are other bytes.
Astray ==
  /\ Cut(at) /\ strm[at].open
  /\ \/ pc \in {"check", "test"} /\ Cnt(at) <= 0
     \/ pc = "read" /\ Want(at) > Cnt(at)
  /\ pc' = "undefined"
  /\ UNCHANGED <<fileVars, optN, strm, N, in, averaged, order, at>>

\* The body of the loop: transform, and add to the average.  FFTW has no plan for
\* a transform of size 0, and nobody looks; histogram does nothing.
Average ==
  /\ pc = "average"
  /\ averaged' = IF N = 0 THEN averaged ELSE Append(averaged, in)
  /\ pc' = IF N = 0 /\ tool # "histogram"
             THEN "undefined"
             ELSE IF tool \in ByStream THEN "test" ELSE "read"
  /\ UNCHANGED <<fileVars, optN, strm, N, in, order, at>>

\* Mutant: the halves are swapped again, after spectrum() has done it.
PrintOutSwapped ==
  /\ pc = "print"
  /\ order' = IF tool \in Labels THEN Fixorder(Fixorder(Bins(N), N), N) ELSE order
  /\ pc' = "done"
  /\ UNCHANGED <<fileVars, optN, strm, N, in, averaged, at>>

\* The average over count turns, printed place by place.
PrintOut ==
  /\ pc = "print"
  /\ order' = IF tool \in Labels THEN Fixorder(Bins(N), N) ELSE order
  /\ pc' = "done"
  /\ UNCHANGED <<fileVars, optN, strm, N, in, averaged, at>>

Main ==
  \/ ParseOptions \/ OpenStream \/ Check \/ Allocate
  \/ Test \/ Read \/ Average \/ PrintOut \/ Astray

Next == Main \/ \E f \in Files : RadioWrites(f)

\* The tool runs; the radio may stop at any time.
Spec == Init /\ [][Next]_vars
FairSpec == Spec /\ WF_vars(Main)

-----------------------------------------------------------------------------
(* Properties.                                                             *)

\* No tool reads past the end of an array (operator>>, which is not told its
\* size), transforms frames of no size, or takes for chunks what is none, except
\* where the code has nothing against it: two files read with their own frame
\* sizes, the second one's larger; a first file without a chunk when it was opened,
\* or, for gfft, without a file at all; fftcor -n 0; and a file of which the
\* constructor found the header or the first chunk in part.
ReadsInBounds ==
  /\ pc = "overrun" => tool \in TwoFiles /\ optN < 0 /\ strm[2].size > strm[1].size
  /\ pc = "undefined" => \/ strm[1].size = 0 /\ optN <= 0
                         \/ \E f \in Files : Cut(f)

\* The array holds the k-th frame of the file.
FrameAt(f, array, k) == \A i \in 1..N : array[i] = Sample(f, (k - 1) * N + i)

\* What is averaged are the frames of the file, one after the other, and of two
\* files the frames at the same place (the loops over IQStream), with memory nobody
\* filled only in the places of the samples that the constructor missed of a first
\* chunk: arrays with leftovers in them are used only for the last, short frame
\* with an -n that does not divide the data, and with a second file of smaller
\* frames.  fftplot and gfft never use one.  An average of no frame at all, a
\* division by zero, is printed only by these two, of a file with less than a frame.
FramesAligned ==
  /\ \A k \in DOMAIN averaged, f \in Files :
       \/ FrameAt(f, averaged[k][f], k)
       \/ /\ tool = "fftcor" /\ k = Len(averaged)
          /\ optN > 0 /\ ~strm[f].open /\ strm[f].next % N # 0
       \/ tool \in TwoFiles /\ f = 2 /\ strm[2].size < strm[1].size
  /\ pc = "done" /\ averaged = <<>> /\ N > 0 =>
       tool \in {"fftplot", "gfft"} /\ strm[1].next < N

\* Each bin is printed at its own frequency (fixorder and the labels computed from
\* n - N/2), for frames of even size; not for odd ones.
LabelsRight ==
  pc = "done" /\ tool \in Labels /\ N % 2 = 0 => Labelled(order, N)

\* Every tool ends, however long the radio writes before it stops; histogram,
\* whose loop can go on over frames of no samples, only if the stream found a
\* chunk when it was opened.
ToolEnds ==
  (pc = "size" /\ (tool = "histogram" => strm[1].taken > 0))
    ~> pc \in {"done", "overrun", "undefined"}
=============================================================================
