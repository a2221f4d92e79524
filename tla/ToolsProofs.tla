----------------------------- MODULE ToolsProofs -----------------------------
(***************************************************************************)
(* The plotting tools, proved for chunks and arguments of every size and   *)
(* files of every length.                                                  *)
(***************************************************************************)
EXTENDS Tools, TLAPS

-----------------------------------------------------------------------------
(* Spectra.                                                                *)

\* fixorder puts every bin of a frame of even size where its label is.
THEOREM EvenLabelled ==
  ASSUME NEW n \in Nat, n % 2 = 0
  PROVE  Labelled(Fixorder(Bins(n), n), n)
<1> DEFINE h == n \div 2
<1>1. h \in Nat /\ n = 2 * h
  OBVIOUS
<1> HIDE DEF h
<1>2. SUFFICES ASSUME NEW k \in 0..(n - 1)
      PROVE  Frequency(Fixorder(Bins(n), n)[k], n) = k - h
  BY DEF Labelled, Label, h
<1>3. Fixorder(Bins(n), n)[k] = IF k < h THEN k + h ELSE k - h
  BY <1>1 DEF Fixorder, Bins, h
<1>4. QED
  BY <1>1, <1>3 DEF Frequency

\* With an odd size above 1 it does not: the first place shows the bin of the
\* highest frequency under the label of the lowest.
THEOREM OddMislabelled ==
  ASSUME NEW n \in Nat, n % 2 = 1, n > 1
  PROVE  ~Labelled(Fixorder(Bins(n), n), n)
<1> DEFINE h == n \div 2
<1>1. h \in Nat /\ n = 2 * h + 1 /\ h > 0
  OBVIOUS
<1> HIDE DEF h
<1>2. Fixorder(Bins(n), n)[0] = h
  BY <1>1 DEF Fixorder, Bins, h
<1>3. Frequency(h, n) = h /\ Label(0, n) = -h
  BY <1>1 DEF Frequency, Label, h
<1>4. QED
  BY <1>1, <1>2, <1>3 DEF Labelled

-----------------------------------------------------------------------------
(* What the properties rest on: where the sizes of arrays and frames come  *)
(* from.                                                                   *)

IsStream(s) ==
  {"open", "size", "taken", "next", "first"} \subseteq DOMAIN s /\ s.next \in Int /\ s.taken \in Int

TypeInv ==
  /\ tool \in Tool
  /\ chunk \in [Files -> Nat \ {0}]
  /\ there \in [Files -> Int]
  /\ optN \in Int /\ (tool \notin TakesN => optN = NoOption)
  /\ at \in Files
  /\ N \in Nat
  /\ strm = [f \in Files |-> strm[f]]
  /\ \A f \in Files : IsStream(strm[f]) /\ strm[f].size \in Nat

\* gfft finds the stream as the constructor left it.
OpenInv ==
  /\ pc = "check" => tool \in Looks
  /\ tool = "gfft" /\ pc \in {"options", "open", "size"} /\ ~strm[1].open => strm[1].size = 0

\* From the allocation on the arrays have the size of a frame of the first stream,
\* or that of -n, which fftcor has told both streams.
SizeInv ==
  pc \in {"test", "read", "average", "print", "done", "overrun"} =>
    CASE tool = "fftcor" /\ optN >= 0 -> N = optN /\ \A f \in Files : strm[f].size = optN
      [] tool = "fftplot" /\ optN > 0 -> N = optN
      [] OTHER -> N = strm[1].size

PrintInv == pc = "done" /\ tool \in Labels => order = Fixorder(Bins(N), N)

IInv == TypeInv /\ OpenInv /\ SizeInv /\ PrintInv /\ ReadsInBounds

LEMMA FilesFact == 1 \in Files /\ (tool \notin TwoFiles => Files = {1}) /\ Files \subseteq {1, 2}
BY DEF Files

LEMMA InitIInv == Init => IInv
<1> SUFFICES ASSUME Init PROVE IInv
  OBVIOUS
<1>1. TypeInv
  <2>1. optN \in Int /\ at \in Files /\ N \in Nat /\ tool \in Tool
    BY FilesFact DEF Init, NoOption
  <2>2. /\ chunk \in [Files -> Nat \ {0}]
        /\ there \in [Files -> Int]
    <3>1. {Missing, 0, 1} \subseteq Int
      BY DEF Missing
    <3>2. QED
      BY <3>1, ChunkSizesAssumption DEF Init
  <2>3. \A f \in Files : strm[f] = Closed
    BY DEF Init
  <2>4. QED
    BY <2>1, <2>2, <2>3 DEF Init, TypeInv, IsStream, Closed
<1>2. OpenInv /\ SizeInv /\ PrintInv /\ ReadsInBounds
  BY FilesFact DEF Init, OpenInv, SizeInv, PrintInv, ReadsInBounds, Closed
<1>3. QED
  BY <1>1, <1>2 DEF IInv

\* Neither a test nor a read changes the size of a frame.
LEMMA GotFact ==
  ASSUME TypeInv, NEW f \in Files, NEW want \in Int
  PROVE  Got(f, want) \in Int /\ Got(f, want) <= want
<1>1. Seen(f) \in Int /\ chunk[f] \in Int /\ strm[f].next \in Int
  BY DEF TypeInv, IsStream, Seen
<1>2. Seen(f) * chunk[f] - strm[f].next \in Int
  BY <1>1
<1>3. QED
  BY <1>2 DEF Got

LEMMA SizesKept ==
  ASSUME TypeInv, NEW f \in Files, NEW want \in Int
  PROVE  /\ IsStream(Tested(f)) /\ Tested(f).size = strm[f].size
         /\ Tested(f).first = strm[f].first
         /\ IsStream(Taken(f, want)) /\ Taken(f, want).size = strm[f].size
         /\ Taken(f, want).first = strm[f].first
<1> DEFINE s == strm[f]
<1>1. IsStream(s)
  BY DEF TypeInv
<1>2. strm[f].next + Got(f, want) \in Int
  BY <1>1, GotFact DEF IsStream
<1> HIDE DEF s
<1>3. /\ \A t \in Int : /\ IsStream([s EXCEPT !.taken = t])
                       /\ [s EXCEPT !.taken = t].size = s.size
                       /\ [s EXCEPT !.taken = t].first = s.first
      /\ \A t : /\ IsStream([s EXCEPT !.open = t])
               /\ [s EXCEPT !.open = t].size = s.size
               /\ [s EXCEPT !.open = t].first = s.first
  BY <1>1 DEF IsStream
<1>4. IsStream(Tested(f)) /\ Tested(f).size = s.size /\ Tested(f).first = s.first
  <2>1. s.taken + 1 \in Int
    BY <1>1 DEF IsStream
  <2> QED
    BY <1>1, <1>3, <2>1 DEF Tested, s
<1>5. /\ IsStream(Taken(f, want)) /\ Taken(f, want).size = s.size
      /\ Taken(f, want).first = s.first
  <2> DEFINE t == strm[f].next + Got(f, want)
             chunks == (t + chunk[f] - 1) \div chunk[f]
             u == IF s.taken < chunks THEN chunks ELSE s.taken
  <2>1. PICK v : Taken(f, want) = [s EXCEPT !.next = t, !.taken = u, !.open = v]
    BY Zenon DEF Taken, s
  <2>2. \A i, j \in Int : IsStream([s EXCEPT !.next = i, !.taken = j, !.open = v])
    BY <1>1 DEF IsStream
  <2>3. \A i, j \in Int : /\ [s EXCEPT !.next = i, !.taken = j, !.open = v].size = s.size
                          /\ [s EXCEPT !.next = i, !.taken = j, !.open = v].first = s.first
    BY <1>1 DEF IsStream
  <2>4. t \in Int
    BY <1>2
  <2> HIDE DEF t
  <2>5. u \in Int
    <3>1. chunk[f] \in Nat \ {0}
      BY DEF TypeInv
    <3>2. chunks \in Int
      BY <2>4, <3>1
    <3>3. s.taken \in Int
      BY <1>1 DEF IsStream
    <3> HIDE DEF chunks
    <3> QED
      BY <3>2, <3>3
  <2> HIDE DEF u
  <2> DEFINE new == [s EXCEPT !.next = t, !.taken = u, !.open = v]
  <2>6. IsStream(new) /\ new.size = s.size /\ new.first = s.first
    BY <2>2, <2>3, <2>4, <2>5, Zenon
  <2>7. Taken(f, want) = new
    BY <2>1, Zenon
  <2> HIDE DEF new
  <2> QED
    BY <2>6, <2>7
<1>6. QED
  BY <1>4, <1>5 DEF s

\* What the constructor makes of a file.
LEMMA ConstructFact ==
  ASSUME TypeInv, NEW f \in Files, NEW s \in Construct(f)
  PROVE  /\ IsStream(s) /\ s.size \in {0, chunk[f]} /\ s.size \in Nat
         /\ s.open \in BOOLEAN /\ s.taken \in {0, 1} /\ s.next = 0
         /\ ~s.open => s.size = 0 /\ s.taken = 0
         /\ s.size > 0 => s.open /\ s.taken = 1
         /\ s.open => there[f] # Missing
         /\ s.taken = 0 \/ s.first # Whole \/ (there[f] # Missing /\ there[f] # 0)
<1>1. chunk[f] \in Nat \ {0}
  BY DEF TypeInv
<1>2. /\ IsStream(Closed) /\ Closed.size = 0 /\ Closed.open = FALSE
      /\ Closed.taken = 0 /\ Closed.next = 0 /\ Closed.first = Whole
  BY DEF Closed, IsStream
<1>3. ASSUME NEW first
      PROVE  LET e == OpenedEmpty(first)
             IN /\ IsStream(e) /\ e.size = 0 /\ e.open = TRUE /\ e.taken = 0 /\ e.next = 0
                /\ e.first = first
  BY DEF OpenedEmpty, Closed, IsStream
<1>4. ASSUME NEW first
      PROVE  LET o == Opened(f, first)
             IN /\ IsStream(o) /\ o.size = chunk[f] /\ o.open = TRUE /\ o.taken = 1
                /\ o.next = 0 /\ o.first = first
  BY DEF Opened, IsStream
<1>6. \/ s = Closed
      \/ there[f] # Missing /\ \E first : s = OpenedEmpty(first)
      \/ /\ there[f] # Missing
         /\ \E first : s = Opened(f, first) /\ (first # Whole \/ there[f] # 0)
  <2>1. CASE there[f] = Missing
    BY <2>1 DEF Construct, Missing
  <2>2. CASE there[f] # Missing /\ there[f] = 0
    <3>1. \A first \in {NoData} \cup 0..(chunk[f] - 1) : first # Whole
      BY <1>1 DEF NoData, Whole
    <3>2. s \in {OpenedEmpty(Whole), OpenedEmpty(NoHeader)}
                  \cup {Opened(f, first) : first \in {NoData} \cup 0..(chunk[f] - 1)}
      BY <2>2, Zenon DEF Construct
    <3> QED
      BY <2>2, <3>1, <3>2, Zenon
  <2>3. CASE there[f] # Missing /\ there[f] # 0
    <3>1. s \in {Opened(f, Whole)}
      BY <2>3, Zenon DEF Construct
    <3> QED
      BY <2>3, <3>1, Zenon
  <2> QED
    BY <2>1, <2>2, <2>3
<1>7. /\ IsStream(s) /\ s.next = 0
      /\ \/ s.size = 0 /\ s.taken = 0 /\ s.open = FALSE
         \/ s.size = 0 /\ s.taken = 0 /\ s.open = TRUE /\ there[f] # Missing
         \/ /\ s.size = chunk[f] /\ s.taken = 1 /\ s.open = TRUE /\ there[f] # Missing
            /\ s.first # Whole \/ there[f] # 0
  <2>1. CASE s = Closed
    BY <1>2, <2>1
  <2>2. CASE there[f] # Missing /\ \E first : s = OpenedEmpty(first)
    <3>1. PICK first : s = OpenedEmpty(first)
      BY <2>2
    <3>2. IsStream(s) /\ s.size = 0 /\ s.taken = 0 /\ s.next = 0 /\ s.open = TRUE
      BY <1>3, <3>1, Zenon
    <3> QED
      BY <2>2, <3>2, Zenon
  <2>3. CASE /\ there[f] # Missing
             /\ \E first : s = Opened(f, first) /\ (first # Whole \/ there[f] # 0)
    <3>1. PICK first : s = Opened(f, first) /\ (first # Whole \/ there[f] # 0)
      BY <2>3
    <3>2. /\ IsStream(s) /\ s.size = chunk[f] /\ s.taken = 1 /\ s.next = 0 /\ s.open = TRUE
          /\ s.first = first
      BY <1>4, <3>1, Zenon
    <3> QED
      BY <2>3, <3>1, <3>2, Zenon
  <2> QED
    BY <1>6, <2>1, <2>2, <2>3
<1>8. s.open \in BOOLEAN
  BY <1>7, Zenon
<1>9. CASE s.size = 0 /\ s.taken = 0 /\ (s.open => there[f] # Missing)
  BY <1>1, <1>7, <1>8, <1>9
<1>10. CASE /\ s.size = chunk[f] /\ s.taken = 1 /\ s.open /\ there[f] # Missing
            /\ s.first # Whole \/ there[f] # 0
  BY <1>1, <1>7, <1>8, <1>10
<1>11. \/ s.size = 0 /\ s.taken = 0 /\ (s.open => there[f] # Missing)
       \/ /\ s.size = chunk[f] /\ s.taken = 1 /\ s.open /\ there[f] # Missing
          /\ s.first # Whole \/ there[f] # 0
  BY <1>7, Zenon
<1> QED
  BY <1>9, <1>10, <1>11

-----------------------------------------------------------------------------
(* One lemma for each step.                                                *)

LEMMA RadioWritesStep ==
  ASSUME IInv, NEW f \in Files, RadioWrites(f)
  PROVE  IInv'
<1>1. there' \in [Files -> Int] /\ Files' = Files
  BY DEF IInv, TypeInv, RadioWrites, Files
<1>2. QED
  BY <1>1 DEF IInv, TypeInv, OpenInv, SizeInv, PrintInv, ReadsInBounds, Cut,
              RadioWrites, IsStream

LEMMA ParseOptionsStep ==
  ASSUME IInv, ParseOptions
  PROVE  IInv'
<1>1. optN' \in Int /\ (tool \notin TakesN => optN' = NoOption)
  BY OptionsAssumption DEF IInv, TypeInv, ParseOptions, NoOption
<1>2. QED
  BY <1>1 DEF IInv, TypeInv, OpenInv, SizeInv, PrintInv, ReadsInBounds, ParseOptions,
              fileVars, Files, IsStream

LEMMA GoFact ==
  ASSUME TypeInv, NEW step, NEW next, Go(step, next)
  PROVE  at' \in Files /\ pc' \in {step, next}
BY FilesFact DEF TypeInv, Go

LEMMA OpenStreamStep ==
  ASSUME IInv, OpenStream
  PROVE  IInv'
<1>1. TypeInv /\ Files' = Files /\ at \in Files
  BY DEF IInv, OpenStream, fileVars, Files, TypeInv
<1>2. PICK s \in Construct(at) :
        /\ strm' = [strm EXCEPT ![at] = s]
        /\ \/ Go("open", IF tool \in Looks THEN "check" ELSE "size")
           \/ s.first = NoHeader /\ pc' = "undefined" /\ UNCHANGED at
  BY DEF OpenStream
<1>3. IsStream(s) /\ s.size \in Nat /\ (~s.open => s.size = 0)
  BY <1>1, <1>2, ConstructFact
<1>4. /\ at' \in Files /\ pc' \in {"open", "check", "size", "undefined"}
      /\ pc' = "undefined" => s.first = NoHeader
      /\ pc' = "check" => tool \in Looks
  <2>1. CASE Go("open", IF tool \in Looks THEN "check" ELSE "size")
    <3>1. at' \in Files
      BY <1>1, <2>1, GoFact
    <3>2. pc' \in {"open", IF tool \in Looks THEN "check" ELSE "size"}
      BY <1>1, <2>1, GoFact
    <3> QED
      BY <3>1, <3>2
  <2>2. CASE s.first = NoHeader /\ pc' = "undefined" /\ UNCHANGED at
    BY <1>1, <2>2
  <2> QED
    BY <1>2, <2>1, <2>2
<1>5. /\ strm' = [f \in Files |-> strm'[f]]
      /\ strm'[at] = s
      /\ \A f \in Files : f # at => strm'[f] = strm[f]
  BY <1>1, <1>2 DEF TypeInv
<1>6. TypeInv'
  BY <1>1, <1>3, <1>4, <1>5 DEF TypeInv, OpenStream, fileVars
<1>7. OpenInv'
  <2>1. tool = "gfft" => at = 1
    BY <1>1, FilesFact DEF TwoFiles
  <2> QED
    BY <1>3, <1>4, <1>5, <2>1 DEF OpenInv, OpenStream, fileVars
<1>8. SizeInv' /\ PrintInv'
  BY <1>4 DEF SizeInv, PrintInv
<1>9. ReadsInBounds'
  <2>1. pc' = "undefined" => Cut(at)'
    <3>1. CASE s.first = NoHeader /\ pc' = "undefined" /\ UNCHANGED at
      BY <1>5, <3>1 DEF Cut, NoHeader, Whole
    <3>2. CASE pc' # "undefined"
      BY <3>2
    <3>3. pc' = "undefined" => s.first = NoHeader /\ strm'[at] = s
      BY <1>4, <1>5
    <3>4. pc' = "undefined" => UNCHANGED at
      BY <1>2 DEF Go
    <3> QED
      BY <3>1, <3>2, <3>3, <3>4
  <2>2. at' \in Files'
    BY <1>1, <1>4
  <2>3. pc' # "overrun"
    BY <1>4
  <2> QED
    BY <2>1, <2>2, <2>3 DEF ReadsInBounds
<1> QED
  BY <1>6, <1>7, <1>8, <1>9 DEF IInv

\* The stream finds other bytes where it looks for a chunk.
LEMMA AstrayStep ==
  ASSUME IInv, Astray
  PROVE  IInv'
<1>1. /\ UNCHANGED <<fileVars, optN, strm, N, in, averaged, order, at>>
      /\ pc' = "undefined" /\ Cut(at) /\ at \in Files
  BY DEF Astray, IInv, TypeInv
<1>2. TypeInv' /\ OpenInv' /\ SizeInv' /\ PrintInv'
  BY <1>1 DEF IInv, TypeInv, OpenInv, SizeInv, PrintInv, fileVars, Files, IsStream
<1>3. Cut(at)' /\ at' \in Files'
  BY <1>1 DEF Cut, Files, fileVars
<1>4. ReadsInBounds'
  BY <1>1, <1>3 DEF ReadsInBounds
<1> QED
  BY <1>2, <1>4 DEF IInv

\* A step that replaces one stream by another of the same frame size.
LEMMA StreamFact ==
  ASSUME TypeInv, NEW new, IsStream(new), new.size = strm[at].size,
         new.first = strm[at].first, strm' = [strm EXCEPT ![at] = new], UNCHANGED tool
  PROVE  /\ Files' = Files
         /\ strm' = [f \in Files |-> strm'[f]]
         /\ \A f \in Files : /\ IsStream(strm'[f]) /\ strm'[f].size = strm[f].size
                             /\ strm'[f].first = strm[f].first
<1>1. Files' = Files
  BY DEF Files
<1>2. strm' = [f \in Files |-> strm'[f]]
  BY DEF TypeInv
<1>3. strm'[at] = new /\ \A f \in Files : f # at => strm'[f] = strm[f]
  BY DEF TypeInv
<1>4. \A f \in Files : /\ IsStream(strm'[f]) /\ strm'[f].size = strm[f].size
                       /\ strm'[f].first = strm[f].first
  BY <1>3 DEF TypeInv
<1>5. QED
  BY <1>1, <1>2, <1>4

\* Check and Test do the same to the stream.
LEMMA TestedStep ==
  ASSUME IInv, Check \/ Test
  PROVE  IInv'
<1>1. /\ TypeInv /\ UNCHANGED <<fileVars, optN, N, averaged, order>>
      /\ strm' = [strm EXCEPT ![at] = Tested(at)]
  BY DEF IInv, Check, Test
<1>2. /\ IsStream(Tested(at)) /\ Tested(at).size = strm[at].size
      /\ Tested(at).first = strm[at].first
  BY <1>1, SizesKept DEF TypeInv
<1>3. /\ Files' = Files
      /\ strm' = [f \in Files |-> strm'[f]]
      /\ \A f \in Files : IsStream(strm'[f]) /\ strm'[f].size = strm[f].size
  BY <1>1, <1>2, StreamFact DEF fileVars
<1>4. /\ at' \in Files
      /\ Check => pc = "check" /\ pc' \in {"check", "size", "refused"}
      /\ Test => pc = "test" /\ pc' \in {"test", "read", "print"}
  BY <1>1, GoFact, FilesFact DEF Check, Test, TypeInv
<1>5. TypeInv'
  BY <1>1, <1>3, <1>4 DEF TypeInv, fileVars
<1>6. Check => tool # "gfft"
  BY <1>4 DEF IInv, OpenInv, Looks
<1>7. OpenInv'
  BY <1>1, <1>3, <1>4, <1>6 DEF IInv, OpenInv, Check, fileVars
<1>8. SizeInv' /\ PrintInv' /\ ReadsInBounds'
  BY <1>1, <1>3, <1>4, FilesFact DEF IInv, SizeInv, PrintInv, ReadsInBounds, fileVars
<1>9. QED
  BY <1>5, <1>7, <1>8 DEF IInv

LEMMA AllocateStep ==
  ASSUME IInv, Allocate
  PROVE  IInv'
<1>1. /\ TypeInv /\ Sizes /\ UNCHANGED <<fileVars, optN, order, at>>
      /\ pc = "size" /\ pc' \in {"test", "undefined", "read"}
      /\ pc' = "undefined" => tool = "gfft" /\ ~strm[1].open
  BY DEF IInv, Allocate
<1>2. Files' = Files
  BY <1>1 DEF Files, fileVars
<1>3. ASSUME tool = "fftcor" /\ optN >= 0 PROVE TypeInv' /\ SizeInv'
  <2>1. N' = optN /\ strm' = [f \in Files |-> [strm[f] EXCEPT !.size = optN]]
    BY <1>1, <1>3 DEF Sizes
  <2>2. \A f \in Files : strm'[f] = [strm[f] EXCEPT !.size = optN]
    BY <2>1
  <2>3. \A f \in Files : IsStream(strm'[f]) /\ strm'[f].size = optN
    BY <1>1, <2>2 DEF TypeInv, IsStream
  <2>4. QED
    BY <1>1, <1>2, <1>3, <2>1, <2>3 DEF TypeInv, fileVars, SizeInv
<1>4. ASSUME ~(tool = "fftcor" /\ optN >= 0) PROVE TypeInv' /\ SizeInv'
  <2>1. strm' = strm /\ N' = IF tool = "fftplot" /\ optN > 0 THEN optN ELSE strm[1].size
    BY <1>1, <1>4 DEF Sizes
  <2>2. QED
    BY <1>1, <1>2, <1>4, <2>1, FilesFact DEF TypeInv, fileVars, SizeInv
<1>5. TypeInv' /\ SizeInv'
  BY <1>3, <1>4
<1>6. OpenInv' /\ PrintInv'
  BY <1>1 DEF OpenInv, PrintInv
<1>7. ReadsInBounds'
  <2>1. pc' = "undefined" => strm[1].size = 0 /\ optN = NoOption /\ strm' = strm
    BY <1>1 DEF IInv, OpenInv, TypeInv, TakesN, Sizes
  <2>2. QED
    BY <1>1, <2>1 DEF ReadsInBounds, NoOption
<1>8. QED
  BY <1>5, <1>6, <1>7 DEF IInv
LEMMA ReadStep ==
  ASSUME IInv, Read
  PROVE  IInv'
<1> DEFINE want == Want(at)
           got == Got(at, want)
<1>1. /\ TypeInv /\ UNCHANGED <<fileVars, optN, N, averaged, order>> /\ pc = "read"
      /\ \/ Cut(at) /\ pc' = "undefined" /\ UNCHANGED <<strm, in, at>>
         \/ got > N /\ pc' = "overrun" /\ UNCHANGED <<strm, in, at>>
         \/ /\ strm' = [strm EXCEPT ![at] = Taken(at, want)]
            /\ pc' \in {"read", "average", "print"} /\ at' \in Files
  <2>1. TypeInv /\ UNCHANGED <<fileVars, optN, N, averaged, order>> /\ pc = "read"
    BY DEF IInv, Read
  <2>2. \/ /\ (strm[at].first = NoData /\ got > 0) \/ got > N
           /\ pc' = IF strm[at].first = NoData /\ got > 0 THEN "undefined" ELSE "overrun"
           /\ UNCHANGED <<strm, in, at>>
        \/ /\ strm' = [strm EXCEPT ![at] = Taken(at, want)]
           /\ IF tool \in ByStream
                THEN Go("read", "average")
                ELSE pc' = (IF WholeRead(got) THEN "average" ELSE "print") /\ at' = 1
    BY Zenon DEF Read
  <2>3. strm[at].first = NoData => Cut(at)
    BY DEF Cut, NoData, Whole
  <2>4. CASE /\ strm' = [strm EXCEPT ![at] = Taken(at, want)]
             /\ IF tool \in ByStream
                  THEN Go("read", "average")
                  ELSE pc' = (IF WholeRead(got) THEN "average" ELSE "print") /\ at' = 1
    BY <2>1, <2>4, GoFact, FilesFact
  <2> QED
    BY <2>1, <2>2, <2>3, <2>4
<1>2. want \in Int
  BY <1>1 DEF TypeInv, Want
<1>3. CASE got > N /\ pc' = "overrun" /\ UNCHANGED <<strm, in, at>>
  <2>1. /\ TypeInv' /\ OpenInv' /\ SizeInv' /\ PrintInv'
    BY <1>1, <1>3 DEF IInv, TypeInv, OpenInv, SizeInv, PrintInv, fileVars, Files
  <2>2. want \in Int /\ got \in Int /\ got <= want
    BY <1>2, <1>1, GotFact DEF TypeInv
  <2>3. want > N
    BY <1>1, <1>3, <2>2 DEF TypeInv
  <2>4. tool \in TwoFiles /\ optN < 0 /\ strm[2].size > strm[1].size
    BY <1>1, <2>3, FilesFact DEF IInv, TypeInv, SizeInv, Want, ByStream, TwoFiles, TakesN, NoOption, Tool
  <2>5. QED
    BY <1>1, <1>3, <2>1, <2>4 DEF IInv, ReadsInBounds, fileVars
<1>4. CASE Cut(at) /\ pc' = "undefined" /\ UNCHANGED <<strm, in, at>>
  <2>1. /\ TypeInv' /\ OpenInv' /\ SizeInv' /\ PrintInv'
    BY <1>1, <1>4 DEF IInv, TypeInv, OpenInv, SizeInv, PrintInv, fileVars, Files
  <2>2. Cut(at)' /\ at' \in Files'
    BY <1>1, <1>4, <2>1 DEF Cut, TypeInv
  <2> QED
    BY <1>4, <2>1, <2>2 DEF IInv, ReadsInBounds
<1>5. CASE /\ strm' = [strm EXCEPT ![at] = Taken(at, want)]
           /\ pc' \in {"read", "average", "print"} /\ at' \in Files
  <2>1. /\ IsStream(Taken(at, want)) /\ Taken(at, want).size = strm[at].size
        /\ Taken(at, want).first = strm[at].first
    BY <1>2, <1>1, SizesKept DEF TypeInv
  <2>2. /\ Files' = Files
        /\ strm' = [f \in Files |-> strm'[f]]
        /\ \A f \in Files : IsStream(strm'[f]) /\ strm'[f].size = strm[f].size
    BY <1>1, <1>5, <2>1, StreamFact DEF fileVars
  <2>3. TypeInv'
    BY <1>1, <1>5, <2>2 DEF TypeInv, fileVars
  <2>4. OpenInv' /\ SizeInv' /\ PrintInv' /\ ReadsInBounds'
    BY <1>1, <1>5, <2>2, FilesFact
       DEF IInv, OpenInv, SizeInv, PrintInv, ReadsInBounds, fileVars
  <2>5. QED
    BY <2>3, <2>4 DEF IInv
<1>6. QED
  BY <1>1, <1>3, <1>5, <1>4

LEMMA AverageStep ==
  ASSUME IInv, Average
  PROVE  IInv'
<1>1. /\ UNCHANGED <<fileVars, optN, strm, N, order, at>> /\ pc = "average"
      /\ pc' \in {"undefined", "test", "read"} /\ (pc' = "undefined" => N = 0)
  BY DEF Average
<1>2. TypeInv' /\ OpenInv' /\ SizeInv' /\ PrintInv'
  BY <1>1 DEF IInv, TypeInv, OpenInv, SizeInv, PrintInv, fileVars, Files, IsStream
<1>3. N = 0 => strm[1].size = 0 /\ optN <= 0
  BY <1>1, FilesFact DEF IInv, TypeInv, SizeInv, TakesN, NoOption
<1>4. QED
  BY <1>1, <1>2, <1>3 DEF IInv, ReadsInBounds

LEMMA PrintOutStep ==
  ASSUME IInv, PrintOut
  PROVE  IInv'
<1>1. /\ UNCHANGED <<fileVars, optN, strm, N, at>> /\ pc = "print" /\ pc' = "done"
      /\ tool \in Labels => order' = Fixorder(Bins(N), N)
  BY DEF PrintOut
<1>2. QED
  BY <1>1 DEF IInv, TypeInv, OpenInv, SizeInv, PrintInv, ReadsInBounds, fileVars, Files, IsStream

LEMMA NextIInv == IInv /\ [Next]_vars => IInv'
<1> SUFFICES ASSUME IInv, [Next]_vars PROVE IInv'
  OBVIOUS
<1>1. CASE Main
  BY <1>1, ParseOptionsStep, OpenStreamStep, TestedStep, AllocateStep, ReadStep, AverageStep,
     PrintOutStep, AstrayStep DEF Main
<1>2. ASSUME NEW f \in Files, RadioWrites(f) PROVE IInv'
  BY <1>2, RadioWritesStep
<1>3. CASE UNCHANGED vars
  BY <1>3 DEF vars, fileVars, IInv, TypeInv, OpenInv, SizeInv, PrintInv, ReadsInBounds, Cut,
              Files, IsStream
<1>4. QED
  BY <1>1, <1>2, <1>3 DEF Next

LEMMA Invariant == Spec => []IInv
BY InitIInv, NextIInv, PTL DEF Spec

-----------------------------------------------------------------------------
\* Whatever the chunks, the arguments and the radio's writing: no tool leaves its
\* arrays or transforms frames of no size but in the cases ReadsInBounds names.
THEOREM ToolsReadInBounds == Spec => []ReadsInBounds
<1>1. IInv => ReadsInBounds
  BY DEF IInv
<1>2. QED
  BY <1>1, Invariant, PTL

\* Whatever the size of the frames: if it is even, the labels are right.
THEOREM ToolsLabelsRight == Spec => []LabelsRight
<1>1. IInv => LabelsRight
  <2>1. SUFFICES ASSUME IInv, pc = "done", tool \in Labels, N % 2 = 0
        PROVE  Labelled(order, N)
    BY DEF LabelsRight
  <2>2. order = Fixorder(Bins(N), N) /\ N \in Nat
    BY <2>1 DEF IInv, PrintInv, TypeInv
  <2>3. QED
    BY <2>1, <2>2, EvenLabelled
<1>2. QED
  BY <1>1, Invariant, PTL

-----------------------------------------------------------------------------
(* Where the streams stand.                                                *)

\* What a stream has taken is in the file, unless the constructor met it cut off, and
\* reaches as far as what it handed out.
Positioned(f) ==
  /\ strm[f].open \in BOOLEAN /\ strm[f].taken \in Nat /\ strm[f].next \in Nat
  /\ strm[f].next <= strm[f].taken * chunk[f]
  /\ Cut(f) \/ strm[f].taken <= there[f] \/ (~strm[f].open /\ strm[f].taken = 0)

\* The tool tells only fftcor's streams how long a frame is.
Told == tool = "fftcor" /\ optN >= 0

Loop == {"test", "read", "average", "print", "done", "overrun", "undefined"}

Arrays == [Files -> [1..N -> Int]]

StreamsInv ==
  /\ \A f \in Files : Positioned(f) /\ there[f] \in Nat \cup {Missing}
  /\ pc \in Loop => averaged \in Seq(Arrays) /\ (pc # "undefined" => in \in Arrays)
  /\ pc \notin Loop => averaged = <<>>
  /\ N = 0 => averaged = <<>>
  /\ ~(Told /\ pc \in Loop) => \A f \in Files : strm[f].size \in {0, chunk[f]}
  /\ pc = "test" => tool \in ByStream /\ \A f \in Files : f < at => strm[f].open
  /\ pc = "read" => \A f \in Files : f >= at => strm[f].open
  /\ pc \in {"size", "average"} => at = 1

\* A stream that stands where a turn of the loop begins, with something to read.
Fresh(f) == strm[f].open /\ Cnt(f) > 0 /\ strm[f].next = 0

\* What the loop begins with.
StartInv ==
  /\ pc \in {"options", "open"} => \A f \in Files : strm[f].next = 0
  /\ pc \in {"options", "open"} => \A f \in Files : f >= at => strm[f] = Closed
  /\ pc \in {"check", "size"} =>
       \A f \in Files : /\ strm[f].next = 0
                        /\ tool \notin Looks /\ strm[f].size > 0 => Fresh(f)
                        /\ tool \in Looks /\ (pc = "size" \/ f < at) => Fresh(f)
  /\ pc \in {"options", "open", "check", "size"} => \A f \in Files : strm[f].size > 0 => strm[f].taken > 0

\* A file that the property does not except: of two, the second one's frames are
\* not the smaller.
Plain(f) == ~(tool \in TwoFiles /\ f = 2 /\ strm[2].size < strm[1].size)

\* A stream whose last frame was short, read by fftcor -n.
Short(f) == tool = "fftcor" /\ optN > 0 /\ ~strm[f].open /\ strm[f].next % N # 0

\* A stream about to be read, and one that has been read in this turn.
Before(f) ==
  /\ strm[f].open /\ strm[f].next = Len(averaged) * N
  /\ tool \in ByStream => Cnt(f) > 0

After(f) ==
  \/ /\ FrameAt(f, in[f], Len(averaged) + 1)
     /\ strm[f].next = (Len(averaged) + 1) * N
     /\ tool \in ByStream => strm[f].size = N
     /\ tool \notin ByStream => strm[f].open
  \/ /\ Short(f) /\ strm[f].size = N

FramesBefore(f) == \A k \in 1..Len(averaged) : FrameAt(f, averaged[k][f], k)

TurnInv ==
  N > 0 /\ pc \in Loop => \A f \in Files : Plain(f) =>
    /\ tool \in ByStream => averaged = <<>> \/ strm[f].size = N
    /\ pc = "test" => 
         IF f < at \/ averaged = <<>> THEN Before(f) ELSE strm[f].next = Len(averaged) * N \/ Short(f)
    /\ pc = "read" => IF f < at THEN After(f) ELSE Before(f)
    /\ pc = "average" => After(f)
    /\ pc \in {"read", "average"} => FramesBefore(f)
    /\ \A k \in 1..Len(averaged) : FrameAt(f, averaged[k][f], k) \/ (k = Len(averaged) /\ Short(f))

\* Only the tools that read N samples can end without a frame.
EndInv ==
  /\ pc = "test" /\ averaged = <<>> /\ N > 0 =>
       \A f \in Files : strm[f].open /\ Cnt(f) > 0
  /\ pc \in {"print", "done"} /\ averaged = <<>> /\ N > 0 =>
       tool \in {"fftplot", "gfft"} /\ strm[1].next < N

AlignInv == StreamsInv /\ StartInv /\ TurnInv /\ EndInv

LEMMA FilesOrder ==
  ASSUME NEW f \in Files, NEW g \in Files
  PROVE  /\ f < g + 1 <=> f < g \/ f = g
         /\ g + 1 \notin Files => f < g \/ f = g
         /\ f < g => f # g
<1>1. f \in {1, 2} /\ g \in {1, 2}
  BY FilesFact
<1>2. g = 1 /\ f = 2 => g + 1 \in Files
  OBVIOUS
<1> QED
  BY <1>1, <1>2

\* What a stream finds of its file.
LEMMA SeenFact ==
  ASSUME TypeInv, NEW f \in Files, Positioned(f)
  PROVE  /\ Seen(f) \in Int
         /\ strm[f].taken <= Seen(f) \/ (~strm[f].open /\ strm[f].taken = 0)
         /\ ~Cut(f) => Seen(f) = there[f]
<1>1. there[f] \in Int /\ strm[f].taken \in Nat
  BY DEF TypeInv, Positioned
<1>2. CASE Cut(f)
  BY <1>1, <1>2 DEF Seen
<1>3. CASE ~Cut(f)
  BY <1>1, <1>3 DEF Seen, Positioned
<1> QED
  BY <1>2, <1>3

\* What a test does to a stream: an open one has a sample left.
LEMMA TestedFact ==
  ASSUME TypeInv, NEW f \in Files, Positioned(f)
  PROVE  /\ Tested(f).next = strm[f].next /\ Tested(f).size = strm[f].size
         /\ Tested(f).first = strm[f].first
         /\ Tested(f).open \in BOOLEAN
         /\ Tested(f).taken \in Nat /\ Tested(f).taken >= strm[f].taken
         /\ strm[f].next <= Tested(f).taken * chunk[f]
         /\ Cut(f) \/ Tested(f).taken <= there[f] \/ (~Tested(f).open /\ Tested(f).taken = 0)
         /\ Tested(f).open =>
              strm[f].open /\ Tested(f).taken * chunk[f] - strm[f].next > 0
         /\ ~strm[f].open \/ Cnt(f) > 0 => Tested(f) = strm[f]
<1> DEFINE s == strm[f]
           c == chunk[f]
           n == Seen(f)
<1>0. /\ n \in Int
      /\ s.taken <= n \/ (~s.open /\ s.taken = 0)
      /\ ~Cut(f) => n = there[f]
  BY SeenFact
<1> HIDE DEF n
<1>1. /\ {"open", "size", "taken", "next", "first"} \subseteq DOMAIN s
      /\ c \in Nat \ {0} /\ n \in Int
      /\ s.open \in BOOLEAN /\ s.taken \in Nat /\ s.next \in Nat
      /\ s.next <= s.taken * c
      /\ s.taken <= n \/ (~s.open /\ s.taken = 0)
  BY <1>0 DEF TypeInv, IsStream, Positioned
<1>2. CASE ~s.open \/ Cnt(f) > 0
  <2>1. Tested(f) = s
    BY <1>2, Zenon DEF Tested, n
  <2>2. s.open => s.taken * c - s.next > 0
    BY <1>2 DEF Cnt
  <2> QED
    BY <1>0, <1>1, <2>1, <2>2
<1>3. CASE s.open /\ ~(Cnt(f) > 0) /\ s.taken < n
  <2>1. Tested(f) = [s EXCEPT !.taken = @ + 1]
    BY <1>3, Zenon DEF Tested, n
  <2> DEFINE t == [s EXCEPT !.taken = @ + 1]
  <2>2. /\ t.next = s.next /\ t.size = s.size /\ t.first = s.first
        /\ t.open = s.open /\ t.taken = s.taken + 1
    BY <1>1
  <2>3. (s.taken + 1) * c = s.taken * c + c /\ s.taken * c \in Nat
    BY <1>1
  <2>4. /\ s.next <= (s.taken + 1) * c /\ (s.taken + 1) * c - s.next > 0
        /\ s.taken + 1 <= n
    <3> HIDE DEF s, c
    <3>1. s.taken < n
      BY <1>3 DEF s
    <3> QED
      BY <1>1, <2>3, <3>1
  <2>5. /\ t.next = s.next /\ t.size = s.size /\ t.first = s.first
        /\ t.open \in BOOLEAN /\ t.taken \in Nat
        /\ t.taken >= s.taken
    BY <1>1, <2>2
  <2> HIDE DEF t
  <2> QED
    BY <1>0, <1>3, <2>1, <2>2, <2>4, <2>5 DEF t
<1>4. CASE s.open /\ ~(Cnt(f) > 0) /\ ~(s.taken < n)
  <2>1. Tested(f) = [s EXCEPT !.open = FALSE]
    BY <1>4, Zenon DEF Tested, n
  <2> DEFINE t == [s EXCEPT !.open = FALSE]
  <2>2. /\ t.next = s.next /\ t.size = s.size /\ t.first = s.first
        /\ t.open = FALSE /\ t.taken = s.taken
    BY <1>1
  <2> HIDE DEF t
  <2> QED
    BY <1>0, <1>1, <1>4, <2>1, <2>2 DEF t
<1> QED
  BY <1>2, <1>3, <1>4

\* The chunks that hold the first x samples.
LEMMA ChunksOf ==
  ASSUME NEW c \in Nat \ {0}, NEW x \in Nat
  PROVE  /\ (x + c - 1) \div c \in Nat
         /\ x <= ((x + c - 1) \div c) * c
         /\ \A t \in Nat : x <= t * c => (x + c - 1) \div c <= t
<1> DEFINE y == x + c - 1
           q == y \div c
           rest == y % c
<1>1. y \in Nat
  OBVIOUS
<1>2. q \in Nat /\ rest \in 0..(c - 1) /\ y = c * q + rest
  <2> HIDE DEF y
  <2> QED
    BY <1>1
<1> HIDE DEF q, rest
<1>3. c * q \in Nat /\ q * c = c * q
  BY <1>2
<1>4. x <= q * c
  BY <1>2, <1>3
<1>5. ASSUME NEW t \in Nat, x <= t * c, ~(q <= t)
      PROVE  FALSE
  <2>1. q >= t + 1
    BY <1>2, <1>5
  <2>2. q * c >= (t + 1) * c
    <3>1. PICK e \in Nat : q = t + 1 + e
      <4>1. q - (t + 1) \in Nat /\ q = t + 1 + (q - (t + 1))
        BY <2>1, <1>2
      <4> QED
        BY <4>1
    <3>2. (t + 1 + e) * c = (t + 1) * c + e * c /\ e * c \in Nat /\ (t + 1) * c \in Nat
      OBVIOUS
    <3> QED
      BY <3>1, <3>2
  <2>3. (t + 1) * c = t * c + c /\ t * c \in Nat
    OBVIOUS
  <2> QED
    BY <1>2, <1>3, <1>5, <2>2, <2>3
<1> QED
  BY <1>2, <1>4, <1>5 DEF q

\* What a read does to an open stream.
LEMMA TakenFact ==
  ASSUME TypeInv, NEW f \in Files, Positioned(f), strm[f].open, NEW want \in Nat
  PROVE  /\ Got(f, want) \in Nat /\ Got(f, want) <= want
         /\ want <= Seen(f) * chunk[f] - strm[f].next => Got(f, want) = want
         /\ Cnt(f) > 0 /\ want > 0 => Got(f, want) > 0
         /\ Taken(f, want).next = strm[f].next + Got(f, want)
         /\ Taken(f, want).size = strm[f].size
         /\ Taken(f, want).open = (Got(f, want) = want)
         /\ Taken(f, want).taken \in Nat
         /\ Taken(f, want).next <= Taken(f, want).taken * chunk[f]
         /\ Taken(f, want).first = strm[f].first
         /\ strm[f].taken <= Seen(f) /\ Seen(f) \in Nat
         /\ Cut(f) \/ Taken(f, want).taken <= there[f]
<1> DEFINE s == strm[f]
           c == chunk[f]
           g == Got(f, want)
           n == Seen(f)
           rest == n * c - s.next
<1>0. n \in Int /\ s.taken <= n /\ (~Cut(f) => n = there[f])
  BY SeenFact
<1> HIDE DEF n
<1>1. /\ {"open", "size", "taken", "next", "first"} \subseteq DOMAIN s
      /\ c \in Nat \ {0} /\ n \in Int
      /\ s.open /\ s.taken \in Nat /\ s.next \in Nat
      /\ s.next <= s.taken * c
      /\ s.taken <= n
  BY <1>0 DEF TypeInv, IsStream, Positioned
<1>2. s.taken * c <= n * c /\ s.taken * c \in Nat /\ n * c \in Nat
  <2> DEFINE e == n - s.taken
  <2>1. e \in Nat /\ n = s.taken + e
    BY <1>1
  <2> HIDE DEF e
  <2>2. (s.taken + e) * c = s.taken * c + e * c /\ e * c \in Nat /\ s.taken * c \in Nat
    BY <1>1, <2>1
  <2> HIDE DEF s, c
  <2> QED
    BY <2>1, <2>2
<1>3. rest \in Nat
  BY <1>1, <1>2
<1>4. g = IF want <= rest THEN want ELSE rest
  BY DEF Got, n
<1>5. g \in Nat /\ g <= want /\ g <= rest /\ (want <= rest => g = want)
  BY <1>3, <1>4
<1>6. Cnt(f) > 0 /\ want > 0 => g > 0
  <2>1. Cnt(f) > 0 => rest > 0
    <3>1. Cnt(f) = s.taken * c - s.next
      BY DEF Cnt
    <3> QED
      BY <1>1, <1>2, <3>1
  <2> QED
    BY <2>1, <1>3, <1>4
<1> HIDE DEF g
<1> DEFINE next == s.next + g
           chunks == (next + c - 1) \div c
<1>7. next \in Nat /\ next <= n * c
  BY <1>1, <1>2, <1>3, <1>5
<1> HIDE DEF next
<1>8. /\ chunks \in Nat /\ next <= chunks * c /\ chunks <= n
  <2>1. /\ chunks \in Nat /\ next <= chunks * c
        /\ \A t \in Nat : next <= t * c => chunks <= t
    BY <1>1, <1>7, ChunksOf
  <2>2. n \in Nat
    BY <1>1
  <2> QED
    BY <2>1, <2>2, <1>7
<1> HIDE DEF chunks
<1> DEFINE taken == IF s.taken < chunks THEN chunks ELSE s.taken
           open == s.open /\ g = want
           new == [s EXCEPT !.next = next, !.taken = taken, !.open = open]
<1>9. taken \in Nat /\ next <= taken * c /\ taken <= n
  <2>1. CASE s.taken < chunks
    BY <2>1, <1>8
  <2>2. CASE ~(s.taken < chunks)
    <3>1. chunks * c <= s.taken * c
      <4> DEFINE e == s.taken - chunks
      <4>1. e \in Nat /\ s.taken = chunks + e
        BY <1>1, <1>8, <2>2
      <4> HIDE DEF e
      <4>2. (chunks + e) * c = chunks * c + e * c /\ e * c \in Nat /\ chunks * c \in Nat
        BY <1>1, <1>8, <4>1
      <4> HIDE DEF s, c
      <4> QED
        BY <4>1, <4>2
    <3>2. chunks * c \in Nat
      BY <1>1, <1>8
    <3> QED
      BY <2>2, <3>1, <3>2, <1>1, <1>2, <1>7, <1>8
  <2> QED
    BY <2>1, <2>2
<1>10. Taken(f, want) = new
  BY DEF Taken, next, chunks, g
<1> HIDE DEF taken, open
<1>11. /\ new.next = next /\ new.taken = taken /\ new.open = open /\ new.size = s.size
       /\ new.first = s.first
  BY <1>1
<1>12. open = (g = want)
  BY <1>1 DEF open
<1> HIDE DEF new
<1> QED
  BY <1>0, <1>1, <1>5, <1>6, <1>9, <1>10, <1>11, <1>12 DEF next, g, n

-----------------------------------------------------------------------------
(* One lemma for each step.                                                *)

LEMMA InitAligned == Init => AlignInv
<1> SUFFICES ASSUME Init PROVE AlignInv
  OBVIOUS
<1>1. /\ pc = "options" /\ at = 1 /\ N = 0 /\ averaged = <<>>
      /\ \A f \in Files : strm[f] = Closed /\ there[f] \in {Missing, 0, 1}
      /\ chunk \in [Files -> ChunkSizes]
  BY DEF Init
<1>2. \A f \in Files : chunk[f] \in Nat \ {0}
  BY <1>1, ChunkSizesAssumption
<1>3. /\ Closed.open = FALSE /\ Closed.size = 0 /\ Closed.taken = 0 /\ Closed.next = 0
  BY DEF Closed
<1>4. ASSUME NEW f \in Files PROVE Positioned(f)
  <2>1. 0 * chunk[f] = 0
    BY <1>2
  <2>2. /\ ~strm[f].open /\ strm[f].open \in BOOLEAN
        /\ strm[f].taken = 0 /\ strm[f].next = 0
    BY <1>1, <1>3
  <2>3. 0 <= strm[f].taken * chunk[f]
    BY <2>1, <2>2
  <2> QED
    BY <2>2, <2>3 DEF Positioned
<1>5. StreamsInv
  BY <1>1, <1>3, <1>4 DEF StreamsInv, Loop, Missing
<1>6. StartInv /\ TurnInv /\ EndInv
  BY <1>1, <1>3 DEF StartInv, TurnInv, EndInv, Loop
<1> QED
  BY <1>5, <1>6 DEF AlignInv

\* A step that touches neither streams nor arrays: the radio has written, the tool
\* has printed.
LEMMA StillAligned ==
  ASSUME IInv, AlignInv, UNCHANGED <<tool, chunk, optN, strm, N, in, averaged, at>>,
         \A f \in Files : there'[f] >= there[f] /\ there'[f] \in Nat \cup {Missing},
         pc' = pc \/ (pc = "print" /\ pc' = "done")
  PROVE  AlignInv'
<1>1. Files' = Files
  BY DEF Files
<1>2. TypeInv /\ StreamsInv /\ StartInv /\ TurnInv /\ EndInv
  BY DEF IInv, AlignInv
<1>3. ASSUME NEW f \in Files PROVE Positioned(f)'
  <2>1. Positioned(f) /\ there[f] \in Int /\ there'[f] \in Int /\ there'[f] >= there[f]
    BY <1>2 DEF TypeInv, StreamsInv, Missing
  <2>2. strm[f].taken <= there[f] => strm[f].taken <= there'[f]
    BY <2>1 DEF Positioned
  <2> QED
    BY <2>1, <2>2 DEF Positioned, Cut
<1>4. Arrays' = Arrays
  BY <1>1 DEF Arrays
<1>5. StreamsInv'
  BY <1>1, <1>2, <1>3, <1>4 DEF StreamsInv, Loop, Told
<1>6. StartInv'
  BY <1>1, <1>2 DEF StartInv, Fresh, Cnt
<1>7. ASSUME NEW f \in Files
      PROVE  /\ Plain(f)' = Plain(f) /\ Short(f)' = Short(f) /\ Before(f)' = Before(f)
             /\ After(f)' = After(f) /\ FramesBefore(f)' = FramesBefore(f)
             /\ \A k \in 1..Len(averaged) : FrameAt(f, averaged[k][f], k)' = FrameAt(f, averaged[k][f], k)
  BY DEF Plain, Short, Before, After, FramesBefore, FrameAt, Sample, Cut, Cnt
<1>8. TurnInv'
  <2>1. CASE pc' = pc
    BY <1>1, <1>2, <1>7, <2>1 DEF TurnInv
  <2>2. CASE pc = "print" /\ pc' = "done"
    BY <1>1, <1>2, <1>7, <2>2 DEF TurnInv, Loop
  <2> QED
    BY <2>1, <2>2
<1>9. EndInv'
  BY <1>1, <1>2 DEF EndInv, Cnt
<1> QED
  BY <1>5, <1>6, <1>8, <1>9 DEF AlignInv

LEMMA RadioWritesAligned ==
  ASSUME IInv, AlignInv, NEW g \in Files, RadioWrites(g)
  PROVE  AlignInv'
<1>1. /\ UNCHANGED <<tool, chunk, optN, strm, N, in, averaged, at, pc>>
      /\ there' = [there EXCEPT ![g] = @ + 1] /\ there[g] \in 0..(MaxChunks - 1)
      /\ there \in [Files -> Int]
  BY DEF RadioWrites, IInv, TypeInv
<1>2. ASSUME NEW f \in Files
      PROVE  there'[f] >= there[f] /\ there'[f] \in Nat \cup {Missing}
  <2>1. there[f] \in Nat \cup {Missing}
    BY DEF AlignInv, StreamsInv
  <2>2. CASE f = g
    BY <1>1, <2>2, MaxChunksAssumption
  <2>3. CASE f # g
    BY <1>1, <2>1, <2>3 DEF Missing
  <2> QED
    BY <2>2, <2>3
<1> QED
  BY <1>1, <1>2, StillAligned

LEMMA PrintOutAligned ==
  ASSUME IInv, AlignInv, PrintOut
  PROVE  AlignInv'
<1>1. /\ UNCHANGED <<tool, chunk, there, optN, strm, N, in, averaged, at>>
      /\ pc = "print" /\ pc' = "done"
  BY DEF PrintOut, fileVars
<1>2. ASSUME NEW f \in Files
      PROVE  there'[f] >= there[f] /\ there'[f] \in Nat \cup {Missing}
  BY <1>1 DEF AlignInv, StreamsInv, Missing
<1> QED
  BY <1>1, <1>2, StillAligned

LEMMA ParseOptionsAligned ==
  ASSUME IInv, AlignInv, ParseOptions
  PROVE  AlignInv'
<1>1. /\ UNCHANGED <<tool, chunk, there, strm, N, in, averaged, at>>
      /\ pc = "options" /\ pc' \in {"open", "refused"} /\ Files' = Files
  BY DEF ParseOptions, fileVars, Files
<1>2. StreamsInv /\ StartInv
  BY DEF AlignInv
<1>3. StreamsInv'
  BY <1>1, <1>2 DEF StreamsInv, Positioned, Cut, Loop
<1>4. StartInv'
  BY <1>1, <1>2 DEF StartInv
<1>5. TurnInv' /\ EndInv'
  BY <1>1 DEF TurnInv, EndInv, Loop
<1> QED
  BY <1>3, <1>4, <1>5 DEF AlignInv

LEMMA OpenStreamAligned ==
  ASSUME IInv, AlignInv, OpenStream
  PROVE  AlignInv'
<1>1. /\ UNCHANGED <<tool, chunk, there, optN, N, in, averaged>>
      /\ pc = "open" /\ Files' = Files
      /\ TypeInv /\ StreamsInv /\ StartInv /\ at \in Files
  BY DEF OpenStream, fileVars, Files, IInv, AlignInv, TypeInv
<1>2. PICK s \in Construct(at) :
        /\ strm' = [strm EXCEPT ![at] = s]
        /\ \/ Go("open", IF tool \in Looks THEN "check" ELSE "size")
           \/ pc' = "undefined"
  BY DEF OpenStream
<1>3. \/ pc' = "open" /\ at' = at + 1
      \/ pc' = "check" /\ at' = 1 /\ tool \in Looks
      \/ pc' = "size" /\ at' = 1 /\ tool \notin Looks
      \/ pc' = "undefined"
  BY <1>2 DEF Go
<1>4. /\ strm'[at].open \in BOOLEAN /\ strm'[at].taken \in Nat /\ strm'[at].next = 0
      /\ 0 <= strm'[at].taken * chunk[at]
      /\ \/ strm'[at].first # Whole \/ strm'[at].taken <= there[at]
         \/ ~strm'[at].open /\ strm'[at].taken = 0
      /\ strm'[at].size \in {0, chunk[at]}
      /\ strm'[at].size > 0 => /\ strm'[at].open /\ strm'[at].taken > 0
                               /\ strm'[at].taken * chunk[at] - strm'[at].next > 0
      /\ \A f \in Files : f # at => strm'[f] = strm[f]
  <2>1. strm'[at] = s /\ \A f \in Files : f # at => strm'[f] = strm[f]
    BY <1>1, <1>2 DEF TypeInv
  <2>2. there[at] \in Nat \cup {Missing} /\ chunk[at] \in Nat \ {0}
    BY <1>1 DEF StreamsInv, TypeInv
  <2>3. /\ s.size \in {0, chunk[at]} /\ s.open \in BOOLEAN
        /\ s.taken \in {0, 1} /\ s.next = 0
        /\ ~s.open => s.size = 0 /\ s.taken = 0
        /\ s.size > 0 => s.open /\ s.taken = 1
        /\ s.open => there[at] # Missing
        /\ s.taken = 0 \/ s.first # Whole \/ (there[at] # Missing /\ there[at] # 0)
    BY <1>1, <1>2, ConstructFact
  <2>4. 0 * chunk[at] = 0 /\ 1 * chunk[at] = chunk[at]
    BY <2>2
  <2>5. 0 <= s.taken * chunk[at] /\ (s.size > 0 => s.taken > 0 /\ s.taken * chunk[at] - s.next > 0)
    BY <2>2, <2>3, <2>4
  <2>6. s.first # Whole \/ s.taken <= there[at] \/ (~s.open /\ s.taken = 0)
    <3>1. CASE s.taken = 0
      BY <2>2, <2>3, <3>1
    <3>2. CASE there[at] # Missing /\ there[at] # 0
      BY <2>2, <2>3, <3>2
    <3> QED
      BY <2>3, <3>1, <3>2
  <2> QED
    BY <2>1, <2>3, <2>5, <2>6
<1>5. \A f \in Files : Positioned(f)'
  BY <1>1, <1>4 DEF StreamsInv, Positioned, Cut
<1>6. StreamsInv'
  BY <1>1, <1>3, <1>4, <1>5 DEF StreamsInv, Loop
<1>7. \A f \in Files : strm'[f].next = 0
  BY <1>1, <1>4 DEF StartInv
<1>8. \A f \in Files : strm'[f].size > 0 => strm'[f].taken > 0
  BY <1>1, <1>4 DEF StartInv
<1>9. tool \notin Looks => Files = {at}
  BY <1>1, FilesFact DEF Looks, TwoFiles
<1>10. pc' = "open" => \A f \in Files : f >= at' => strm'[f] = Closed
  BY <1>1, <1>3, <1>4, FilesFact DEF StartInv
<1>11. tool \notin Looks => \A f \in Files : strm'[f].size > 0 => Fresh(f)'
  BY <1>1, <1>4, <1>7, <1>9 DEF Fresh, Cnt
<1>12. StartInv'
  <2>1. CASE pc' = "open"
    BY <2>1, <1>1, <1>7, <1>8, <1>10 DEF StartInv
  <2>2. CASE pc' = "check" /\ at' = 1 /\ tool \in Looks
    BY <2>2, <1>1, <1>7, <1>8, FilesFact DEF StartInv
  <2>3. CASE pc' = "size" /\ tool \notin Looks
    BY <2>3, <1>1, <1>7, <1>8, <1>11 DEF StartInv
  <2>4. CASE pc' = "undefined"
    BY <2>4 DEF StartInv
  <2> QED
    BY <2>1, <2>2, <2>3, <2>4, <1>3
<1>13. TurnInv' /\ EndInv'
  <2>1. averaged' = <<>>
    BY <1>1 DEF StreamsInv, Loop
  <2> QED
    BY <1>3, <2>1 DEF TurnInv, EndInv, Loop
<1> QED
  BY <1>6, <1>12, <1>13 DEF AlignInv

LEMMA AstrayAligned ==
  ASSUME IInv, AlignInv, Astray
  PROVE  AlignInv'
<1>1. /\ UNCHANGED <<tool, chunk, there, optN, strm, N, in, averaged, at>> /\ Files' = Files
      /\ pc \in {"check", "test", "read"} /\ pc' = "undefined"
      /\ StreamsInv /\ TurnInv
  BY DEF Astray, fileVars, Files, AlignInv
<1>2. StreamsInv'
  <2>1. \A f \in Files : Positioned(f)'
    BY <1>1 DEF StreamsInv, Positioned, Cut
  <2>2. averaged' \in Seq(Arrays')
    <3>1. CASE pc = "check"
      <4>1. averaged' = <<>>
        BY <1>1, <3>1 DEF StreamsInv, Loop
      <4> QED
        BY <4>1
    <3>2. CASE pc \in {"test", "read"}
      BY <1>1, <3>2 DEF StreamsInv, Loop, Arrays
    <3> QED
      BY <1>1, <3>1, <3>2
  <2> QED
    BY <1>1, <2>1, <2>2 DEF StreamsInv, Loop, Told
<1>3. StartInv' /\ EndInv'
  BY <1>1 DEF StartInv, EndInv
<1>4. TurnInv'
  <2>1. CASE pc = "check"
    <3>1. averaged' = <<>>
      BY <1>1, <2>1 DEF StreamsInv, Loop
    <3> QED
      BY <1>1, <3>1 DEF TurnInv
  <2>2. CASE pc \in {"test", "read"}
    <3>1. ASSUME NEW f \in Files
          PROVE  /\ Plain(f)' = Plain(f) /\ Short(f)' = Short(f)
                 /\ \A k \in 1..Len(averaged) :
                       FrameAt(f, averaged[k][f], k)' = FrameAt(f, averaged[k][f], k)
      BY <1>1 DEF Plain, Short, FrameAt, Sample, Cut
    <3> QED
      BY <1>1, <2>2, <3>1 DEF TurnInv, Loop
  <2> QED
    BY <1>1, <2>1, <2>2
<1> QED
  BY <1>2, <1>3, <1>4 DEF AlignInv

\* Check and Test do the same to the stream.
LEMMA TestedPositions ==
  ASSUME IInv, AlignInv, Check \/ Test
  PROVE  /\ UNCHANGED <<tool, chunk, there, optN, N, in, averaged>> /\ Files' = Files
         /\ TypeInv /\ StreamsInv /\ StartInv /\ at \in Files
         /\ strm'[at] = Tested(at)
         /\ \A f \in Files : f # at => strm'[f] = strm[f]
         /\ \A f \in Files : Positioned(f)'
         /\ \A f \in Files : /\ strm'[f].size = strm[f].size /\ strm'[f].next = strm[f].next
                             /\ strm'[f].first = strm[f].first
         /\ strm'[at].taken \in Nat /\ strm'[at].taken >= strm[at].taken
         /\ strm'[at].open =>
              strm[at].open /\ strm'[at].taken * chunk[at] - strm'[at].next > 0
         /\ ~strm[at].open \/ Cnt(at) > 0 => strm'[at] = strm[at]
<1>1. /\ UNCHANGED <<tool, chunk, there, optN, N, in, averaged>> /\ Files' = Files
      /\ TypeInv /\ StreamsInv /\ StartInv /\ at \in Files
      /\ strm' = [strm EXCEPT ![at] = Tested(at)]
  BY DEF Check, Test, fileVars, Files, IInv, AlignInv, TypeInv
<1>2. /\ strm'[at] = Tested(at)
      /\ \A f \in Files : f # at => strm'[f] = strm[f]
  BY <1>1 DEF TypeInv
<1>3. Positioned(at)
  BY <1>1 DEF StreamsInv
<1>4. /\ strm'[at].next = strm[at].next /\ strm'[at].size = strm[at].size
      /\ strm'[at].first = strm[at].first
      /\ strm'[at].open \in BOOLEAN
      /\ strm'[at].taken \in Nat /\ strm'[at].taken >= strm[at].taken
      /\ strm[at].next <= strm'[at].taken * chunk[at]
      /\ Cut(at) \/ strm'[at].taken <= there[at] \/ (~strm'[at].open /\ strm'[at].taken = 0)
      /\ strm'[at].open =>
           strm[at].open /\ strm'[at].taken * chunk[at] - strm[at].next > 0
      /\ ~strm[at].open \/ Cnt(at) > 0 => strm'[at] = strm[at]
  BY <1>1, <1>2, <1>3, TestedFact
<1>5. strm[at].next \in Nat
  BY <1>3 DEF Positioned
<1>6. \A f \in Files : Positioned(f)'
  BY <1>1, <1>2, <1>4, <1>5 DEF StreamsInv, Positioned, Cut
<1>7. \A f \in Files : /\ strm'[f].size = strm[f].size /\ strm'[f].next = strm[f].next
                       /\ strm'[f].first = strm[f].first
  BY <1>2, <1>4
<1> QED
  BY <1>1, <1>2, <1>4, <1>6, <1>7

LEMMA CheckAligned ==
  ASSUME IInv, AlignInv, Check
  PROVE  AlignInv'
<1>1. /\ UNCHANGED <<tool, chunk, there, optN, N, in, averaged>> /\ Files' = Files
      /\ TypeInv /\ StreamsInv /\ StartInv /\ at \in Files
      /\ strm'[at] = Tested(at)
      /\ \A f \in Files : f # at => strm'[f] = strm[f]
      /\ \A f \in Files : Positioned(f)'
      /\ \A f \in Files : strm'[f].size = strm[f].size /\ strm'[f].next = strm[f].next
      /\ strm'[at].taken \in Nat /\ strm'[at].taken >= strm[at].taken
      /\ strm'[at].open => strm'[at].taken * chunk[at] - strm'[at].next > 0
  BY TestedPositions
<1>2. \/ pc' = "refused"
      \/ /\ strm'[at].open
         /\ \/ pc' = "check" /\ at' = at + 1
            \/ pc' = "size" /\ at + 1 \notin Files /\ at' = 1
  BY <1>1 DEF Check, Go
<1>3. pc = "check" /\ tool \in Looks
  BY DEF Check, IInv, OpenInv
<1>4. StreamsInv'
  BY <1>1, <1>2, <1>3 DEF StreamsInv, Loop
<1>5. StartInv'
  <2> SUFFICES ASSUME pc' \in {"check", "size"} PROVE StartInv'
    BY <1>2 DEF StartInv
  <2>1. \A f \in Files : strm'[f].next = 0
    BY <1>1, <1>3 DEF StartInv
  <2>2. \A f \in Files : strm'[f].size > 0 => strm'[f].taken > 0
    <3>1. \A f \in Files : strm[f].size > 0 => strm[f].taken > 0
      BY <1>1, <1>3 DEF StartInv
    <3>2. strm[at].taken \in Nat
      BY <1>1 DEF StreamsInv, Positioned
    <3> QED
      BY <3>1, <3>2, <1>1
  <2>3. ASSUME NEW f \in Files, f = at PROVE Fresh(f)'
    <3>1. strm'[at].open
      BY <1>2
    <3>2. strm'[at].taken * chunk[at] - strm'[at].next > 0
      BY <3>1, <1>1
    <3> QED
      BY <3>1, <3>2, <2>1, <2>3, <1>1 DEF Fresh, Cnt
  <2>4. ASSUME NEW f \in Files, f < at PROVE Fresh(f)'
    <3>1. Fresh(f)
      BY <2>4, <1>1, <1>3 DEF StartInv
    <3>2. strm'[f] = strm[f]
      <4>1. f # at
        BY <2>4, <1>1, FilesFact
      <4> QED
        BY <4>1, <1>1
    <3> QED
      BY <3>1, <3>2, <1>1 DEF Fresh, Cnt
  <2>5. ASSUME NEW f \in Files, pc' = "size" \/ f < at' PROVE Fresh(f)'
    <3>1. f < at \/ f = at
      BY <2>5, <1>1, <1>2, FilesFact
    <3> QED
      BY <3>1, <2>3, <2>4
  <2> QED
    BY <1>1, <1>3, <2>1, <2>2, <2>5 DEF StartInv
<1>6. TurnInv' /\ EndInv'
  BY <1>2 DEF TurnInv, EndInv, Loop
<1> QED
  BY <1>4, <1>5, <1>6 DEF AlignInv

LEMMA AllocateAligned ==
  ASSUME IInv, AlignInv, Allocate
  PROVE  AlignInv'
<1>1. /\ UNCHANGED <<tool, chunk, there, optN, averaged, at>> /\ Files' = Files
      /\ TypeInv /\ StreamsInv /\ StartInv /\ IInv' /\ Sizes
      /\ pc = "size" /\ at = 1 /\ averaged = <<>>
      /\ in' = [f \in Files |-> [i \in 1..N' |-> Junk]]
      /\ pc' \in {"test", "undefined", "read"}
      /\ pc' = "test" => tool \in ByStream
      /\ pc' = "read" => tool \notin ByStream /\ (tool = "gfft" => strm[1].open)
  BY AllocateStep DEF Allocate, fileVars, Files, IInv, AlignInv, StreamsInv, Loop
<1>2. ASSUME NEW f \in Files
      PROVE  /\ strm'[f].open = strm[f].open /\ strm'[f].taken = strm[f].taken
             /\ strm'[f].next = strm[f].next /\ strm'[f].first = strm[f].first
             /\ ~Told => strm'[f].size = strm[f].size
  <2>1. CASE Told
    <3>1. strm'[f] = [strm[f] EXCEPT !.size = optN]
      BY <1>1, <2>1 DEF Sizes, Told
    <3>2. {"open", "size", "taken", "next", "first"} \subseteq DOMAIN strm[f]
      BY <1>1 DEF TypeInv, IsStream
    <3> QED
      BY <2>1, <3>1, <3>2
  <2>2. CASE ~Told
    <3>1. strm' = strm
      BY <1>1, <2>2 DEF Sizes, Told
    <3> QED
      BY <3>1
  <2> QED
    BY <2>1, <2>2
<1>3. ~Told => N' = strm[1].size \/ tool = "fftplot"
  BY <1>1 DEF Sizes, Told
<1>4. N' \in Nat
  BY <1>1 DEF IInv, TypeInv
<1>5. StreamsInv'
  <2>1. \A f \in Files : Positioned(f)'
    BY <1>1, <1>2 DEF StreamsInv, Positioned, Cut
  <2>2. in' \in Arrays' /\ averaged' \in Seq(Arrays')
    <3>1. in' \in [Files -> [1..N' -> Int]]
      BY <1>1 DEF Junk
    <3> QED
      BY <3>1, <1>1 DEF Arrays
  <2>3. pc' = "read" => \A f \in Files : strm'[f].open
    <3>1. ASSUME pc' = "read", NEW f \in Files PROVE strm[f].open
      <4>1. CASE tool = "gfft"
        BY <4>1, <3>1, <1>1, FilesFact DEF TwoFiles
      <4>2. CASE tool \in Looks
        BY <4>2, <1>1 DEF StartInv, Fresh
      <4> QED
        BY <4>1, <4>2, <3>1, <1>1 DEF TypeInv, Tool, Looks, ByStream
    <3> QED
      BY <3>1, <1>2
  <2>4. ~(Told /\ pc \in Loop)' => \A f \in Files : strm'[f].size \in {0, chunk[f]}
    <3>1. pc' \in Loop /\ Told' = Told /\ pc \notin Loop
      BY <1>1 DEF Loop, Told
    <3> QED
      BY <3>1, <1>1, <1>2 DEF StreamsInv
  <2>5. \A f \in Files : ~(f < at')
    BY <1>1, FilesFact
  <2> QED
    BY <1>1, <2>1, <2>2, <2>3, <2>4, <2>5 DEF StreamsInv, Loop
<1>6. StartInv'
  BY <1>1 DEF StartInv
<1>7. ASSUME NEW f \in Files, N' > 0, tool \in ByStream PROVE Fresh(f)
  <2>1. CASE tool \in Looks
    BY <2>1, <1>1 DEF StartInv
  <2>2. CASE tool \notin Looks
    <3>1. tool = "histogram" /\ f = 1
      BY <2>2, <1>1, <1>7, FilesFact DEF TypeInv, ByStream, Looks, TwoFiles
    <3>2. strm[f].size > 0
      BY <3>1, <1>3, <1>7 DEF Told
    <3> QED
      BY <2>2, <3>2, <1>1 DEF StartInv
  <2> QED
    BY <2>1, <2>2
<1>8. ASSUME NEW f \in Files, N' > 0, tool \in ByStream
      PROVE  strm'[f].open /\ Cnt(f)' > 0 /\ strm'[f].next = 0
  <2>1. strm[f].open /\ Cnt(f) > 0 /\ strm[f].next = 0
    BY <1>7, <1>8 DEF Fresh
  <2>2. Cnt(f)' = Cnt(f)
    BY <1>1, <1>2 DEF Cnt
  <2> QED
    BY <2>1, <2>2, <1>2
<1>9. TurnInv'
  <2> SUFFICES ASSUME N' > 0, NEW f \in Files
               PROVE  pc' \in {"test", "read"} => Before(f)'
    <3>1. Len(averaged') = 0
      BY <1>1
    <3>2. pc' # "average" /\ \A g \in Files : ~(g < at')
      BY <1>1, FilesFact
    <3> QED
      BY <3>1, <1>1, FilesFact DEF TurnInv, FramesBefore
  <2>1. Len(averaged') = 0 /\ 0 * N' = 0
    <3>1. Len(averaged') = 0
      BY <1>1
    <3>2. \A n \in Nat : 0 * n = 0
      OBVIOUS
    <3> QED
      BY <3>1, <3>2, <1>4
  <2>2. CASE pc' = "test"
    BY <2>1, <2>2, <1>1, <1>8 DEF Before
  <2>3. CASE pc' = "read"
    <3>1. strm'[f].open
      BY <2>3, <1>1, <1>5, FilesFact DEF StreamsInv
    <3>2. strm'[f].next = 0
      BY <1>1, <1>2 DEF StartInv
    <3> QED
      BY <3>1, <3>2, <2>1, <2>3, <1>1 DEF Before
  <2> QED
    BY <2>2, <2>3
<1>10. EndInv'
  BY <1>1, <1>8 DEF EndInv
<1> QED
  BY <1>5, <1>6, <1>9, <1>10 DEF AlignInv

LEMMA TestAligned ==
  ASSUME IInv, AlignInv, Test
  PROVE  AlignInv'
<1>1. /\ UNCHANGED <<tool, chunk, there, optN, N, in, averaged>> /\ Files' = Files
      /\ TypeInv /\ StreamsInv /\ at \in Files
      /\ strm'[at] = Tested(at)
      /\ \A f \in Files : f # at => strm'[f] = strm[f]
      /\ \A f \in Files : Positioned(f)'
      /\ \A f \in Files : /\ strm'[f].size = strm[f].size /\ strm'[f].next = strm[f].next
                          /\ strm'[f].first = strm[f].first
      /\ strm'[at].open =>
           strm[at].open /\ strm'[at].taken * chunk[at] - strm'[at].next > 0
      /\ ~strm[at].open \/ Cnt(at) > 0 => strm'[at] = strm[at]
  BY TestedPositions
<1>2. /\ pc = "test" /\ TurnInv /\ EndInv /\ tool \in ByStream
      /\ \/ strm'[at].open /\ pc' = "test" /\ at' = at + 1
         \/ strm'[at].open /\ pc' = "read" /\ at' = 1 /\ at + 1 \notin Files
         \/ ~strm'[at].open /\ pc' = "print" /\ at' = 1
  BY <1>1 DEF Test, Go, AlignInv, StreamsInv
<1>3. pc \in Loop /\ pc' \in Loop
  BY <1>2 DEF Loop
<1>4. strm'[at].open => \A f \in Files : (f < at + 1 => strm'[f].open)
  BY <1>1, <1>2, FilesFact DEF StreamsInv
<1>5. StreamsInv'
  <2>1. Arrays' = Arrays /\ Told' = Told
    BY <1>1 DEF Arrays, Told
  <2>2. pc' = "test" => \A f \in Files : f < at' => strm'[f].open
    BY <1>2, <1>4
  <2>3. pc' = "read" => \A f \in Files : f >= at' => strm'[f].open
    <3>1. at + 1 \notin Files => \A f \in Files : f < at + 1
      BY <1>1, FilesFact
    <3> QED
      BY <3>1, <1>2, <1>4
  <2> QED
    BY <1>1, <1>2, <1>3, <2>1, <2>2, <2>3 DEF StreamsInv
<1>6. StartInv'
  BY <1>2 DEF StartInv
<1>7. averaged = <<>> /\ N > 0 => strm'[at] = strm[at] /\ strm'[at].open
  BY <1>1, <1>2 DEF EndInv
<1>8. EndInv'
  <2>1. ASSUME averaged = <<>>, N > 0, NEW f \in Files
        PROVE  strm'[f].open /\ Cnt(f)' > 0
    <3>1. strm'[f] = strm[f]
      BY <2>1, <1>1, <1>7
    <3>2. Cnt(f)' = Cnt(f)
      BY <3>1, <1>1 DEF Cnt
    <3> QED
      BY <2>1, <3>1, <3>2, <1>2 DEF EndInv
  <2>2. averaged = <<>> /\ N > 0 => pc' # "print" /\ pc' # "done"
    BY <1>2, <1>7
  <2> QED
    BY <2>1, <2>2, <1>1 DEF EndInv
<1>9. TurnInv'
  <2> SUFFICES ASSUME N > 0, NEW f \in Files, Plain(f)
               PROVE  (/\ tool \in ByStream => averaged = <<>> \/ strm[f].size = N
                       /\ pc = "test" =>
                            IF f < at \/ averaged = <<>>
                              THEN Before(f)
                              ELSE strm[f].next = Len(averaged) * N \/ Short(f)
                       /\ pc = "read" => IF f < at THEN After(f) ELSE Before(f)
                       /\ pc = "average" => After(f)
                       /\ pc \in {"read", "average"} => FramesBefore(f)
                       /\ \A k \in 1..Len(averaged) :
                            FrameAt(f, averaged[k][f], k)
                              \/ (k = Len(averaged) /\ Short(f)))'
    <3>1. \A f \in Files : Plain(f)' = Plain(f)
      BY <1>1, FilesFact DEF Plain, TwoFiles, Files
    <3> QED
      BY <3>1, <1>1 DEF TurnInv
  <2>0. f \in Files /\ at \in Files
    BY <1>1
  <2>1. /\ averaged = <<>> \/ strm[f].size = N
        /\ IF f < at \/ averaged = <<>>
             THEN Before(f)
             ELSE strm[f].next = Len(averaged) * N \/ Short(f)
        /\ \A k \in 1..Len(averaged) :
             FrameAt(f, averaged[k][f], k) \/ (k = Len(averaged) /\ Short(f))
    BY <1>2, <1>3 DEF TurnInv
  <2>2. Short(f) => strm'[f] = strm[f] /\ Short(f)'
    <3>1. Short(f) => strm'[f] = strm[f]
      BY <1>1 DEF Short
    <3> QED
      BY <3>1, <1>1 DEF Short
  <2>3. \A k \in 1..Len(averaged) : FrameAt(f, averaged[k][f], k)' = FrameAt(f, averaged[k][f], k)
    BY <1>1 DEF FrameAt, Sample, Cut
  <2>4. \A k \in 1..Len(averaged') :
           FrameAt(f, averaged[k][f], k)' \/ (k = Len(averaged') /\ Short(f)')
    BY <2>1, <2>2, <2>3, <1>1
  <2>5. strm'[f].open => ~Short(f)
    <3>1. strm'[f].open => strm[f].open
      BY <1>1
    <3> QED
      BY <3>1 DEF Short
  <2>6. strm'[f].open /\ f = at => Before(f)'
    <3> SUFFICES ASSUME strm'[f].open, f = at PROVE Before(f)'
      OBVIOUS
    <3>1. strm[f].next = Len(averaged) * N
      BY <2>1, <2>5 DEF Before
    <3>2. strm'[f].taken * chunk[f] - strm'[f].next > 0
      BY <1>1
    <3> QED
      BY <3>1, <3>2, <1>1 DEF Before, Cnt
  <2>7. f # at => (Before(f)' <=> Before(f))
    BY <1>1 DEF Before, Cnt
  <2>8. CASE pc' = "test"
    <3>1. strm'[at].open /\ at' = at + 1
      BY <2>8, <1>2
    <3>2. CASE f < at'
      <4>1. f < at \/ f = at
        <5>1. f < at + 1
          BY <3>1, <3>2
        <5> QED
          BY <5>1, <2>0, FilesOrder
      <4>2. f < at => f # at
        BY <2>0, FilesOrder
      <4>3. Before(f)'
        BY <4>1, <4>2, <3>1, <2>1, <2>6, <2>7
      <4> QED
        BY <4>3, <3>2, <2>1, <2>4, <2>8, <1>1
    <3>3. CASE ~(f < at')
      <4>1. f # at /\ ~(f < at)
        <5>1. ~(f < at + 1)
          BY <3>1, <3>3
        <5> QED
          BY <5>1, <2>0, FilesOrder
      <4>2. averaged = <<>> => Before(f)'
        BY <4>1, <2>1, <2>7
      <4>3. averaged # <<>> => strm'[f].next = Len(averaged) * N \/ Short(f)'
        BY <4>1, <2>1, <2>2, <1>1
      <4> QED
        BY <4>2, <4>3, <3>3, <2>1, <2>4, <2>8, <1>1
    <3> QED
      BY <3>2, <3>3
  <2>9. CASE pc' = "read"
    <3>1. strm'[at].open /\ at' = 1 /\ at + 1 \notin Files
      BY <2>9, <1>2
    <3>2. f < at \/ f = at
      <4>1. at + 1 \notin Files
        BY <3>1
      <4> QED
        BY <4>1, <2>0, FilesOrder
    <3>3. f < at => f # at
      BY <2>0, FilesOrder
    <3>4. Before(f)'
      BY <3>1, <3>2, <3>3, <2>1, <2>6, <2>7
    <3>5. strm'[f].open
      BY <3>4 DEF Before
    <3>6. FramesBefore(f)'
      BY <3>5, <2>1, <2>3, <2>5, <1>1 DEF FramesBefore
    <3>7. ~(f < at')
      BY <2>0, <3>1, FilesFact
    <3> QED
      BY <3>4, <3>6, <3>7, <2>1, <2>4, <2>9, <1>1
  <2>10. CASE pc' = "print"
    BY <2>10, <2>1, <2>4, <1>1
  <2> QED
    BY <2>8, <2>9, <2>10, <1>2
<1> QED
  BY <1>5, <1>6, <1>8, <1>9 DEF AlignInv

LEMMA AverageAligned ==
  ASSUME IInv, AlignInv, Average
  PROVE  AlignInv'
<1>1. /\ UNCHANGED <<tool, chunk, there, optN, strm, N, in, at>> /\ Files' = Files
      /\ TypeInv /\ StreamsInv /\ TurnInv
      /\ pc = "average" /\ at = 1 /\ N \in Nat
      /\ averaged' = IF N = 0 THEN averaged ELSE Append(averaged, in)
      /\ \/ pc' = "undefined" /\ N = 0
         \/ pc' = "test" /\ tool \in ByStream
         \/ pc' = "read" /\ tool \notin ByStream /\ N # 0
  BY DEF Average, fileVars, Files, IInv, AlignInv, TypeInv, StreamsInv, ByStream
<1>2. pc \in Loop /\ pc' \in Loop /\ Arrays' = Arrays /\ Told' = Told
  BY <1>1 DEF Loop, Arrays, Told
<1>3. in \in Arrays /\ averaged \in Seq(Arrays)
  BY <1>1, <1>2 DEF StreamsInv
<1>4. /\ averaged' \in Seq(Arrays)
      /\ N > 0 => /\ Len(averaged) \in Nat /\ Len(averaged') = Len(averaged) + 1
                  /\ averaged' # <<>>
                  /\ \A k \in 1..Len(averaged) : averaged'[k] = averaged[k]
                  /\ averaged'[Len(averaged) + 1] = in
  <2>1. CASE N = 0
    BY <2>1, <1>1, <1>3
  <2>2. CASE N # 0
    <3>1. averaged' = Append(averaged, in)
      BY <2>2, <1>1
    <3>2. Len(averaged) \in Nat
      BY <1>3
    <3>3. Append(averaged, in) \in Seq(Arrays) /\ Len(Append(averaged, in)) = Len(averaged) + 1
      BY <1>3
    <3>4. /\ \A k \in 1..Len(averaged) : Append(averaged, in)[k] = averaged[k]
          /\ Append(averaged, in)[Len(averaged) + 1] = in
      BY <1>3
    <3>5. Append(averaged, in) # <<>>
      BY <3>2, <3>3
    <3> QED
      BY <3>1, <3>2, <3>3, <3>4, <3>5
  <2> QED
    BY <2>1, <2>2
<1>5. \A f \in Files : f = 1 \/ (f = 2 /\ tool \in TwoFiles)
  BY FilesFact
<1>6. ASSUME NEW f \in Files, N > 0, Plain(f)
      PROVE  /\ After(f) /\ FramesBefore(f)
             /\ tool \in ByStream => strm[f].size = N
  <2>1. After(f) /\ FramesBefore(f)
    BY <1>1, <1>2, <1>6 DEF TurnInv
  <2> QED
    BY <2>1 DEF After
<1>7. tool \notin ByStream => \A f \in Files : f = 1 /\ Plain(f) /\ ~Short(f)
  BY FilesFact DEF ByStream, TwoFiles, Plain, Short
<1>8. StreamsInv'
  <2>1. pc' = "read" => \A f \in Files : strm'[f].open
    <3>1. ASSUME tool \notin ByStream, N > 0, NEW f \in Files PROVE strm[f].open
      BY <3>1, <1>6, <1>7 DEF After
    <3> QED
      BY <3>1, <1>1
  <2>2. \A f \in Files : Positioned(f)'
    BY <1>1 DEF StreamsInv, Positioned, Cut
  <2>3. \A f \in Files : ~(f < at')
    BY <1>1, FilesFact
  <2>4. N' = 0 => averaged' = <<>>
    BY <1>1 DEF StreamsInv
  <2> QED
    BY <1>1, <1>2, <1>4, <2>1, <2>2, <2>3, <2>4 DEF StreamsInv
<1>9. StartInv'
  BY <1>1 DEF StartInv
<1>10. EndInv'
  BY <1>1, <1>4 DEF EndInv
<1>11. TurnInv'
  <2> SUFFICES ASSUME N > 0, NEW f \in Files, Plain(f)
               PROVE  (/\ tool \in ByStream => averaged = <<>> \/ strm[f].size = N
                       /\ pc = "test" =>
                            IF f < at \/ averaged = <<>>
                              THEN Before(f)
                              ELSE strm[f].next = Len(averaged) * N \/ Short(f)
                       /\ pc = "read" => IF f < at THEN After(f) ELSE Before(f)
                       /\ pc = "average" => After(f)
                       /\ pc \in {"read", "average"} => FramesBefore(f)
                       /\ \A k \in 1..Len(averaged) :
                            FrameAt(f, averaged[k][f], k)
                              \/ (k = Len(averaged) /\ Short(f)))'
    <3>1. \A f \in Files : Plain(f)' = Plain(f)
      BY <1>1 DEF Plain, TwoFiles, Files
    <3> QED
      BY <3>1, <1>1 DEF TurnInv
  <2>1. After(f) /\ FramesBefore(f) /\ (tool \in ByStream => strm[f].size = N)
    BY <1>6
  <2>2. Short(f)' = Short(f)
    BY <1>1 DEF Short
  <2>3. strm[f].next = Len(averaged') * N \/ Short(f)
    BY <2>1, <1>4 DEF After
  <2>4. ASSUME NEW k \in 1..Len(averaged')
        PROVE  FrameAt(f, averaged[k][f], k)' \/ (k = Len(averaged') /\ Short(f))
    <3>1. CASE k \in 1..Len(averaged)
      <4>1. averaged'[k] = averaged[k] /\ FrameAt(f, averaged[k][f], k)
        BY <3>1, <2>1, <1>4 DEF FramesBefore
      <4> QED
        BY <4>1, <1>1 DEF FrameAt, Sample, Cut
    <3>2. CASE k = Len(averaged) + 1
      <4>1. averaged'[k] = in /\ k = Len(averaged')
        BY <3>2, <1>4
      <4>2. FrameAt(f, in[f], k) \/ Short(f)
        BY <3>2, <2>1 DEF After
      <4> QED
        BY <4>1, <4>2, <1>1 DEF FrameAt, Sample, Cut
    <3> QED
      BY <3>1, <3>2, <1>4
  <2>5. ~(f < at') /\ averaged' # <<>>
    BY <1>1, <1>4, FilesFact
  <2>6. CASE pc' = "test"
    BY <2>1, <2>2, <2>3, <2>4, <2>5, <2>6, <1>1
  <2>7. CASE pc' = "read"
    <3>1. tool \notin ByStream /\ ~Short(f)
      BY <2>7, <1>1, <1>7
    <3>2. Before(f)'
      BY <3>1, <2>1, <2>3, <1>1 DEF Before, After
    <3>3. FramesBefore(f)'
      BY <3>1, <2>2, <2>4, <1>1 DEF FramesBefore
    <3> QED
      BY <3>1, <3>2, <3>3, <2>2, <2>4, <2>5, <2>7, <1>1
  <2> QED
    BY <2>6, <2>7, <1>1
<1> QED
  BY <1>8, <1>9, <1>10, <1>11 DEF AlignInv

\* Where whole chunks of c samples have been taken and one sample is left, a whole
\* chunk is left.
LEMMA WholeChunkLeft ==
  ASSUME NEW c \in Nat \ {0}, NEW k \in Nat, NEW t \in Nat, NEW n \in Nat, t <= n,
         t * c - k * c > 0
  PROVE  n * c - k * c >= c
<1>1. t > k
  <2> SUFFICES ASSUME t <= k PROVE FALSE
    OBVIOUS
  <2>1. PICK e \in Nat : k = t + e
    <3>1. k - t \in Nat /\ k = t + (k - t)
      OBVIOUS
    <3> QED
      BY <3>1
  <2>2. (t + e) * c = t * c + e * c /\ e * c \in Nat /\ t * c \in Nat
    OBVIOUS
  <2> QED
    BY <2>1, <2>2
<1>2. PICK e \in Nat : n = k + 1 + e
  <2>1. n - (k + 1) \in Nat /\ n = k + 1 + (n - (k + 1))
    BY <1>1
  <2> QED
    BY <2>1
<1>3. (k + 1 + e) * c = k * c + c + e * c /\ e * c \in Nat /\ k * c \in Nat
  OBVIOUS
<1> QED
  BY <1>2, <1>3

LEMMA NoWholeFrame ==
  ASSUME NEW n \in Nat, NEW k \in Nat, NEW g \in Nat, 0 < g, g < n
  PROVE  (k * n + g) % n # 0
<1> DEFINE y == k * n + g
<1>1. y \in Nat
  OBVIOUS
<1> HIDE DEF y
<1> DEFINE q == y \div n
           r == y % n
<1>2. q \in Nat /\ r \in 0..(n - 1) /\ y = n * q + r
  BY <1>1
<1> HIDE DEF q, r
<1> SUFFICES ASSUME r = 0 PROVE FALSE
  BY DEF y, r
<1>3. n * q = k * n + g
  BY <1>2 DEF y
<1>4. CASE q <= k
  <2>1. PICK e \in Nat : k = q + e
    <3>1. k - q \in Nat /\ k = q + (k - q)
      BY <1>2, <1>4
    <3> QED
      BY <3>1
  <2>2. (q + e) * n = n * q + e * n /\ e * n \in Nat /\ n * q \in Nat
    BY <1>2
  <2> QED
    BY <1>3, <2>1, <2>2
<1>5. CASE q > k
  <2>1. PICK e \in Nat : q = k + 1 + e
    <3>1. q - (k + 1) \in Nat /\ q = k + 1 + (q - (k + 1))
      BY <1>2, <1>5
    <3> QED
      BY <3>1
  <2>2. n * (k + 1 + e) = k * n + n + e * n /\ e * n \in Nat /\ k * n \in Nat
    OBVIOUS
  <2> QED
    BY <1>3, <2>1, <2>2
<1> QED
  BY <1>2, <1>4, <1>5

\* A read of one frame.
LEMMA ReadPositions ==
  ASSUME IInv, AlignInv, Read
  PROVE  LET want == Want(at)
             got == Got(at, want)
         IN /\ UNCHANGED <<tool, chunk, there, optN, N, averaged>> /\ Files' = Files
            /\ TypeInv /\ SizeInv /\ StreamsInv /\ TurnInv
            /\ pc = "read" /\ at \in Files /\ N \in Nat /\ want \in Nat
            /\ strm[at].open /\ strm[at].next \in Nat /\ strm[at].taken \in Nat
            /\ strm[at].taken <= Seen(at) /\ Seen(at) \in Nat
            /\ got \in Nat /\ got <= want
            /\ want <= Seen(at) * chunk[at] - strm[at].next => got = want
            /\ Cnt(at) > 0 /\ want > 0 => got > 0
            /\ \/ pc' = "undefined" /\ UNCHANGED <<strm, in, at>>
               \/ got > N /\ pc' = "overrun" /\ UNCHANGED <<strm, in, at>>
               \/ /\ got <= N
                  /\ \A f \in Files : Positioned(f)'
                  /\ \A f \in Files : f # at => strm'[f] = strm[f] /\ in'[f] = in[f]
                  /\ strm'[at].next = strm[at].next + got
                  /\ strm'[at].size = strm[at].size
                  /\ \A f \in Files : strm'[f].first = strm[f].first
                  /\ strm'[at].open = (got = want)
                  /\ in' \in Arrays
                  /\ \A i \in 1..got : in'[at][i] = Sample(at, strm[at].next + i)
                  /\ \/ tool \in ByStream /\ pc' = "read" /\ at' = at + 1
                     \/ tool \in ByStream /\ pc' = "average" /\ at' = 1 /\ at + 1 \notin Files
                     \/ tool \notin ByStream /\ pc' = "average" /\ at' = 1 /\ got = N
                     \/ tool \notin ByStream /\ pc' = "print" /\ at' = 1 /\ got # N
<1> DEFINE want == Want(at)
           got == Got(at, want)
<1>1. /\ UNCHANGED <<tool, chunk, there, optN, N, averaged>> /\ Files' = Files
      /\ TypeInv /\ SizeInv /\ StreamsInv /\ TurnInv
      /\ pc = "read" /\ at \in Files /\ N \in Nat
  BY DEF Read, fileVars, Files, IInv, AlignInv, TypeInv
<1>2. want \in Nat
  BY <1>1 DEF TypeInv, Want
<1>3. strm[at].open /\ Positioned(at) /\ in \in Arrays
  <2>1. at >= at
    BY <1>1, FilesFact
  <2> QED
    BY <2>1, <1>1 DEF StreamsInv, Loop
<1>4. strm[at].next \in Nat /\ strm[at].taken \in Nat
  BY <1>3 DEF Positioned
<1>5. \/ pc' = "undefined" /\ UNCHANGED <<strm, in, at>>
      \/ got > N /\ pc' = "overrun" /\ UNCHANGED <<strm, in, at>>
      \/ /\ ~(got > N)
         /\ strm' = [strm EXCEPT ![at] = Taken(at, want)]
         /\ in' = [in EXCEPT ![at] =
                     [i \in 1..N |-> IF i <= got THEN Sample(at, strm[at].next + i) ELSE @[i]]]
         /\ \/ tool \in ByStream /\ pc' = "read" /\ at' = at + 1
            \/ tool \in ByStream /\ pc' = "average" /\ at' = 1 /\ at + 1 \notin Files
            \/ tool \notin ByStream /\ pc' = "average" /\ at' = 1 /\ got = N
            \/ tool \notin ByStream /\ pc' = "print" /\ at' = 1 /\ got # N
  <2>1. \/ /\ (strm[at].first = NoData /\ got > 0) \/ got > N
           /\ pc' = IF strm[at].first = NoData /\ got > 0 THEN "undefined" ELSE "overrun"
           /\ UNCHANGED <<strm, in, at>>
        \/ /\ ~(strm[at].first = NoData /\ got > 0) /\ got <= N
           /\ strm' = [strm EXCEPT ![at] = Taken(at, want)]
           /\ in' = [in EXCEPT ![at] =
                       [i \in 1..N |-> IF i <= got THEN Sample(at, strm[at].next + i) ELSE @[i]]]
           /\ IF tool \in ByStream
                THEN Go("read", "average")
                ELSE pc' = (IF WholeRead(got) THEN "average" ELSE "print") /\ at' = 1
    BY Zenon DEF Read
  <2>2. CASE /\ (strm[at].first = NoData /\ got > 0) \/ got > N
             /\ pc' = IF strm[at].first = NoData /\ got > 0 THEN "undefined" ELSE "overrun"
             /\ UNCHANGED <<strm, in, at>>
    BY <2>2, Zenon
  <2>3. CASE /\ got <= N
             /\ strm' = [strm EXCEPT ![at] = Taken(at, want)]
             /\ in' = [in EXCEPT ![at] =
                         [i \in 1..N |-> IF i <= got THEN Sample(at, strm[at].next + i) ELSE @[i]]]
             /\ IF tool \in ByStream
                  THEN Go("read", "average")
                  ELSE pc' = (IF WholeRead(got) THEN "average" ELSE "print") /\ at' = 1
    <3>1. ~(got > N)
      <4>1. got \in Int /\ N \in Int
        BY <1>1, <1>2, GotFact
      <4> QED
        BY <2>3, <4>1
    <3>2. \/ tool \in ByStream /\ pc' = "read" /\ at' = at + 1
          \/ tool \in ByStream /\ pc' = "average" /\ at' = 1 /\ at + 1 \notin Files
          \/ tool \notin ByStream /\ pc' = "average" /\ at' = 1 /\ got = N
          \/ tool \notin ByStream /\ pc' = "print" /\ at' = 1 /\ got # N
      BY <2>3, Zenon DEF Go, WholeRead
    <3> QED
      BY <2>3, <3>1, <3>2, Zenon
  <2> QED
    BY <2>1, <2>2, <2>3, Zenon
<1> DEFINE new == Taken(at, want)
<1> HIDE DEF want
<1>6. /\ got \in Nat /\ got <= want
      /\ want <= Seen(at) * chunk[at] - strm[at].next => got = want
      /\ Cnt(at) > 0 /\ want > 0 => got > 0
      /\ new.next = strm[at].next + got /\ new.size = strm[at].size
      /\ new.first = strm[at].first
      /\ strm[at].taken <= Seen(at) /\ Seen(at) \in Nat
      /\ new.open = (got = want) /\ new.taken \in Nat
      /\ new.next <= new.taken * chunk[at] /\ (Cut(at) \/ new.taken <= there[at])
  BY <1>1, <1>2, <1>3, TakenFact
<1> HIDE DEF got, new
<1>7. ASSUME strm' = [strm EXCEPT ![at] = new]
      PROVE  /\ \A f \in Files : Positioned(f)'
             /\ \A f \in Files : f # at => strm'[f] = strm[f]
             /\ strm'[at] = new
             /\ \A f \in Files : strm'[f].first = strm[f].first
  <2>1. strm'[at] = new /\ \A f \in Files : f # at => strm'[f] = strm[f]
    BY <1>1, <1>7 DEF TypeInv
  <2>2. new.next \in Nat /\ new.open \in BOOLEAN
    BY <1>4, <1>6
  <2>3. ASSUME NEW f \in Files, f = at PROVE Positioned(f)'
    <3>1. chunk'[f] = chunk[at] /\ there'[f] = there[at] /\ strm'[f] = new
      BY <2>1, <2>3, <1>1
    <3> QED
      BY <3>1, <2>2, <1>6 DEF Positioned, Cut
  <2>4. ASSUME NEW f \in Files, f # at PROVE Positioned(f)'
    <3>1. Positioned(f) /\ strm'[f] = strm[f]
      BY <2>1, <2>4, <1>1 DEF StreamsInv
    <3> QED
      BY <3>1, <1>1 DEF Positioned, Cut
  <2>5. \A f \in Files : Positioned(f)'
    BY <2>3, <2>4
  <2>6. \A f \in Files : strm'[f].first = strm[f].first
    BY <2>1, <1>6
  <2> QED
    BY <2>1, <2>5, <2>6
<1>8. ASSUME ~(got > N),
             in' = [in EXCEPT ![at] =
                      [i \in 1..N |-> IF i <= got THEN Sample(at, strm[at].next + i) ELSE @[i]]]
      PROVE  /\ in' \in Arrays
             /\ \A i \in 1..got : in'[at][i] = Sample(at, strm[at].next + i)
             /\ \A f \in Files : f # at => in'[f] = in[f]
  <2>1. /\ in'[at] = [i \in 1..N |-> IF i <= got THEN Sample(at, strm[at].next + i) ELSE in[at][i]]
        /\ \A f \in Files : f # at => in'[f] = in[f]
    BY <1>1, <1>3, <1>8 DEF Arrays
  <2>2. [i \in 1..N |-> IF i <= got THEN Sample(at, strm[at].next + i) ELSE in[at][i]] \in [1..N -> Int]
    BY <1>1, <1>3, <1>4 DEF Arrays, Sample, Junk
  <2>3. in' \in Arrays
    BY <1>3, <1>8, <2>2 DEF Arrays
  <2>4. \A i \in 1..got : i \in 1..N /\ i <= got
    BY <1>1, <1>6, <1>8
  <2> QED
    BY <2>1, <2>3, <2>4
<1>9. ~(got > N) => got <= N
  BY <1>1, <1>6
<1>10. \/ pc' = "undefined" /\ UNCHANGED <<strm, in, at>>
       \/ got > N /\ pc' = "overrun" /\ UNCHANGED <<strm, in, at>>
       \/ /\ got <= N
          /\ \A f \in Files : Positioned(f)'
          /\ \A f \in Files : f # at => strm'[f] = strm[f] /\ in'[f] = in[f]
          /\ strm'[at].next = strm[at].next + got
          /\ strm'[at].size = strm[at].size
          /\ \A f \in Files : strm'[f].first = strm[f].first
          /\ strm'[at].open = (got = want)
          /\ in' \in Arrays
          /\ \A i \in 1..got : in'[at][i] = Sample(at, strm[at].next + i)
          /\ \/ tool \in ByStream /\ pc' = "read" /\ at' = at + 1
             \/ tool \in ByStream /\ pc' = "average" /\ at' = 1 /\ at + 1 \notin Files
             \/ tool \notin ByStream /\ pc' = "average" /\ at' = 1 /\ got = N
             \/ tool \notin ByStream /\ pc' = "print" /\ at' = 1 /\ got # N
  <2>1. CASE pc' \in {"undefined", "overrun"} /\ UNCHANGED <<strm, in, at>>
    BY <1>5, <2>1
  <2>2. CASE ~(got > N) /\ strm' = [strm EXCEPT ![at] = new] /\ pc' # "undefined"
    <3>1. /\ \A f \in Files : Positioned(f)'
          /\ \A f \in Files : f # at => strm'[f] = strm[f]
          /\ strm'[at] = new
          /\ \A f \in Files : strm'[f].first = strm[f].first
      BY <2>2, <1>7
    <3>2. in' = [in EXCEPT ![at] =
                   [i \in 1..N |-> IF i <= got THEN Sample(at, strm[at].next + i) ELSE @[i]]]
      BY <2>2, <1>5
    <3>3. /\ in' \in Arrays
          /\ \A i \in 1..got : in'[at][i] = Sample(at, strm[at].next + i)
          /\ \A f \in Files : f # at => in'[f] = in[f]
      BY <2>2, <3>2, <1>8
    <3>4. \/ tool \in ByStream /\ pc' = "read" /\ at' = at + 1
          \/ tool \in ByStream /\ pc' = "average" /\ at' = 1 /\ at + 1 \notin Files
          \/ tool \notin ByStream /\ pc' = "average" /\ at' = 1 /\ got = N
          \/ tool \notin ByStream /\ pc' = "print" /\ at' = 1 /\ got # N
      BY <2>2, <1>5
    <3> QED
      BY <2>2, <3>1, <3>3, <3>4, <1>6, <1>9
  <2> QED
    BY <2>1, <2>2, <1>5 DEF new
<1> QED
  BY <1>1, <1>2, <1>3, <1>4, <1>6, <1>10 DEF want, got

\* A stream about to be read gets all of a frame, or less than the array holds and
\* then is at its end.
LEMMA FrameGot ==
  ASSUME IInv, AlignInv, Read, N > 0, Plain(at), tool \in ByStream
  PROVE  LET got == Got(at, strm[at].size)
         IN got <= N => /\ strm[at].size = N
                        /\ got = N \/ (tool = "fftcor" /\ optN > 0 /\ 0 < got /\ got < N)
<1> DEFINE size == strm[at].size
           c == chunk[at]
           k == Len(averaged)
           got == Got(at, size)
<1>1. /\ TypeInv /\ SizeInv /\ StreamsInv /\ TurnInv
      /\ pc = "read" /\ at \in Files /\ N \in Nat /\ size \in Nat
      /\ strm[at].taken \in Nat /\ strm[at].taken <= Seen(at)
      /\ got \in Nat /\ got <= size
      /\ size <= Seen(at) * c - strm[at].next => got = size
      /\ Cnt(at) > 0 /\ size > 0 => got > 0
      /\ Seen(at) \in Nat
  BY ReadPositions DEF Want
<1>2. /\ Before(at)
      /\ averaged = <<>> \/ size = N
  <2>1. pc \in Loop /\ ~(at < at)
    BY <1>1, FilesFact DEF Loop
  <2> QED
    BY <2>1, <1>1 DEF TurnInv
<1>3. strm[at].next = k * N /\ Cnt(at) > 0 /\ k \in Nat
  <2>1. averaged \in Seq(Arrays)
    BY <1>1 DEF StreamsInv, Loop
  <2> QED
    BY <2>1, <1>2 DEF Before
<1>4. CASE Told
  <2>1. size = N /\ N = optN /\ tool = "fftcor"
    BY <1>1, <1>4 DEF SizeInv, Told
  <2>2. got > 0
    BY <2>1, <1>1, <1>3
  <2> HIDE DEF got, size
  <2> QED
    BY <2>1, <2>2, <1>1 DEF got, size
<1>5. CASE ~Told
  <2>1. N = strm[1].size
    BY <1>1, <1>5 DEF SizeInv, Told, ByStream
  <2>2. size \in {0, c} /\ c \in Nat \ {0}
    BY <1>1, <1>5 DEF StreamsInv, TypeInv
  <2>3. size >= N
    <3>1. at = 1 \/ (at = 2 /\ tool \in TwoFiles)
      BY <1>1, FilesFact
    <3>2. at = 2 => ~(strm[2].size < strm[1].size)
      BY <3>1 DEF Plain
    <3>3. strm[2] = strm[at] \/ at = 1
      BY <3>1
    <3> QED
      BY <3>1, <3>2, <2>1, <1>1
  <2>4. size = c
    BY <2>2, <2>3, <1>1
  <2>5. k * N = k * c
    <3>1. CASE averaged = <<>>
      <4>1. k = 0
        BY <3>1
      <4>2. 0 * N = 0 /\ 0 * c = 0
        BY <1>1, <2>2
      <4> QED
        BY <4>1, <4>2
    <3>2. CASE size = N
      BY <3>2, <2>4
    <3> QED
      BY <3>1, <3>2, <1>2
  <2>6. strm[at].taken * c - k * c > 0
    BY <1>3, <2>5 DEF Cnt
  <2>7. Seen(at) \in Nat
    BY <1>1
  <2>8. Seen(at) * c - k * c >= c
    <3> HIDE DEF c, k
    <3> QED
      BY <2>2, <2>6, <2>7, <1>1, <1>3, WholeChunkLeft
  <2>9. size <= Seen(at) * c - strm[at].next
    <3>1. Seen(at) * c - strm[at].next = Seen(at) * c - k * c
      BY <1>3, <2>5
    <3> HIDE DEF c, k, size
    <3>2. Seen(at) * c - strm[at].next \in Int
      <4>1. Seen(at) * c \in Int /\ k * c \in Int
        BY <2>2, <2>7, <1>3
      <4> QED
        BY <3>1, <4>1
    <3> QED
      BY <3>1, <3>2, <2>8, <2>4, <2>2
  <2>10. got = size
    BY <2>9, <1>1
  <2> HIDE DEF got, size
  <2> QED
    BY <2>3, <2>10, <1>1 DEF got, size
<1> QED
  BY <1>4, <1>5

LEMMA ReadAligned ==
  ASSUME IInv, AlignInv, Read
  PROVE  AlignInv'
<1> DEFINE want == Want(at)
           got == Got(at, want)
           k == Len(averaged)
<1>1. /\ UNCHANGED <<tool, chunk, there, optN, N, averaged>> /\ Files' = Files
      /\ TypeInv /\ StreamsInv /\ TurnInv
      /\ pc = "read" /\ at \in Files /\ N \in Nat /\ want \in Nat
      /\ strm[at].open /\ strm[at].next \in Nat
      /\ got \in Nat /\ got <= want
      /\ \/ pc' = "undefined" /\ UNCHANGED <<strm, in, at>>
         \/ got > N /\ pc' = "overrun" /\ UNCHANGED <<strm, in, at>>
         \/ /\ got <= N
            /\ \A f \in Files : Positioned(f)'
            /\ \A f \in Files : f # at => strm'[f] = strm[f] /\ in'[f] = in[f]
            /\ strm'[at].next = strm[at].next + got
            /\ strm'[at].size = strm[at].size
            /\ \A f \in Files : strm'[f].first = strm[f].first
            /\ strm'[at].open = (got = want)
            /\ in' \in Arrays
            /\ \A i \in 1..got : in'[at][i] = Sample(at, strm[at].next + i)
            /\ \/ tool \in ByStream /\ pc' = "read" /\ at' = at + 1
               \/ tool \in ByStream /\ pc' = "average" /\ at' = 1 /\ at + 1 \notin Files
               \/ tool \notin ByStream /\ pc' = "average" /\ at' = 1 /\ got = N
               \/ tool \notin ByStream /\ pc' = "print" /\ at' = 1 /\ got # N
  BY ReadPositions
<1>2. /\ in \in Arrays /\ averaged \in Seq(Arrays) /\ k \in Nat
      /\ Arrays' = Arrays /\ Told' = Told
  <2>1. in \in Arrays /\ averaged \in Seq(Arrays)
    BY <1>1 DEF StreamsInv, Loop
  <2> QED
    BY <2>1, <1>1 DEF Arrays, Told
<1>3. tool \notin ByStream =>
        /\ want = N /\ at = 1 /\ Files = {1} /\ tool \in {"fftplot", "gfft"} /\ Plain(at)
  BY <1>1, FilesFact DEF ByStream, TwoFiles, Tool, TypeInv, Plain, Want
<1>4. tool \in ByStream => want = strm[at].size
  BY DEF Want
<1>5. ASSUME N > 0, NEW f \in Files, Plain(f)
      PROVE  /\ tool \in ByStream => averaged = <<>> \/ strm[f].size = N
             /\ f < at => After(f)
             /\ ~(f < at) => Before(f)
             /\ FramesBefore(f)
  BY <1>1, <1>5 DEF TurnInv, Loop
<1>6. N > 0 /\ Plain(at) => strm[at].next = k * N
  <2>1. ~(at < at)
    BY <1>1, FilesFact
  <2> QED
    BY <2>1, <1>1, <1>5 DEF Before
<1>7. N > 0 /\ Plain(at) /\ tool \in ByStream /\ got <= N =>
        /\ strm[at].size = N
        /\ got = N \/ (tool = "fftcor" /\ optN > 0 /\ 0 < got /\ got < N)
  BY FrameGot DEF Want
<1> HIDE DEF got, want
<1>8. \A f \in Files : strm'[f].size = strm[f].size /\ strm'[f].first = strm[f].first
  BY <1>1
<1>9. \A f \in Files : Plain(f)' = Plain(f)
  <2>1. strm'[1].size = strm[1].size
    BY <1>8, FilesFact
  <2>2. tool \in TwoFiles => strm'[2].size = strm[2].size
    BY <1>8 DEF Files
  <2> QED
    BY <2>1, <2>2, <1>1 DEF Plain
<1>10. CASE pc' \in {"undefined", "overrun"} /\ UNCHANGED <<strm, in, at>>
  <2>1. StreamsInv'
    <3>1. \A f \in Files : Positioned(f)'
      BY <1>1, <1>10 DEF StreamsInv, Positioned, Cut
    <3> QED
      BY <3>1, <1>1, <1>2, <1>10 DEF StreamsInv, Loop
  <2>2. StartInv' /\ EndInv'
    BY <1>10 DEF StartInv, EndInv
  <2>3. TurnInv'
    <3>1. ASSUME NEW f \in Files, N > 0, Plain(f), NEW j \in 1..Len(averaged)
          PROVE  FrameAt(f, averaged[j][f], j)'
      BY <3>1, <1>1, <1>5, <1>8, <1>10 DEF FramesBefore, FrameAt, Sample, Cut
    <3> QED
      BY <3>1, <1>1, <1>5, <1>8, <1>9, <1>10 DEF TurnInv
  <2> QED
    BY <2>1, <2>2, <2>3 DEF AlignInv
<1>11. CASE
         /\ got <= N
         /\ \A f \in Files : Positioned(f)'
         /\ \A f \in Files : f # at => strm'[f] = strm[f] /\ in'[f] = in[f]
         /\ strm'[at].next = strm[at].next + got
         /\ strm'[at].open = (got = want)
         /\ in' \in Arrays
         /\ \A i \in 1..got : in'[at][i] = Sample(at, strm[at].next + i)
         /\ \/ tool \in ByStream /\ pc' = "read" /\ at' = at + 1
            \/ tool \in ByStream /\ pc' = "average" /\ at' = 1 /\ at + 1 \notin Files
            \/ tool \notin ByStream /\ pc' = "average" /\ at' = 1 /\ got = N
            \/ tool \notin ByStream /\ pc' = "print" /\ at' = 1 /\ got # N
  <2>1. StreamsInv'
    <3>1. pc' = "read" => \A f \in Files : f >= at' => strm'[f].open
      <4>1. ASSUME pc' = "read", NEW f \in Files, f >= at + 1 PROVE strm'[f].open
        <5>1. f # at /\ f >= at
          BY <4>1, <1>1, FilesFact
        <5>2. strm[f].open
          BY <5>1, <1>1 DEF StreamsInv
        <5> QED
          BY <5>1, <5>2, <1>11
      <4> QED
        BY <4>1, <1>1, <1>11
    <3>2. ~(Told /\ pc \in Loop)' => \A f \in Files : strm'[f].size \in {0, chunk[f]}
      BY <1>1, <1>2, <1>8, <1>11 DEF StreamsInv, Loop
    <3> QED
      BY <3>1, <3>2, <1>1, <1>2, <1>11 DEF StreamsInv, Loop
  <2>2. StartInv'
    BY <1>11 DEF StartInv
  <2>3. EndInv'
    <3>1. ASSUME pc' = "print", averaged = <<>>, N > 0
          PROVE  tool \in {"fftplot", "gfft"} /\ strm'[1].next < N
      <4>1. tool \notin ByStream /\ got # N
        BY <3>1, <1>11
      <4>2. strm[1].next = k * N /\ k = 0 /\ 0 * N = 0
        BY <3>1, <4>1, <1>1, <1>3, <1>6
      <4>3. strm'[1].next = strm[1].next + got
        BY <4>1, <1>3, <1>11
      <4> QED
        BY <4>1, <4>2, <4>3, <1>1, <1>3, <1>11
    <3> QED
      BY <3>1, <1>1, <1>11 DEF EndInv
  <2>4. ASSUME N > 0, NEW f \in Files, f # at
        PROVE  /\ After(f) => After(f)'
               /\ Before(f) => Before(f)'
    <3>1. strm'[f] = strm[f] /\ in'[f] = in[f]
      BY <2>4, <1>11
    <3>2. Short(f)' = Short(f)
      BY <3>1, <1>1 DEF Short
    <3>3. FrameAt(f, in[f], k + 1)' = FrameAt(f, in[f], k + 1)
      BY <3>1, <1>1 DEF FrameAt, Sample, Cut
    <3> QED
      BY <3>1, <3>2, <3>3, <1>1 DEF After, Before, Cnt
  <2>5. ASSUME N > 0, NEW f \in Files, f = at, Plain(f), pc' # "print"
        PROVE  After(f)'
    <3>1. strm[f].next = k * N
      BY <2>5, <1>6
    <3>2. CASE got = N
      <4>1. strm'[f].next = (k + 1) * N
        <5>1. (k + 1) * N = k * N + N
          BY <1>1, <1>2
        <5> QED
          BY <5>1, <3>1, <3>2, <2>5, <1>11
      <4>2. \A i \in 1..N : in'[f][i] = Sample(f, k * N + i)
        BY <3>1, <3>2, <2>5, <1>11
      <4>6. \A j : Sample(f, j)' = Sample(f, j)
        BY <1>1, <1>8 DEF Sample, Cut
      <4>3. FrameAt(f, in[f], Len(averaged) + 1)'
        <5>1. k + 1 - 1 = k
          BY <1>2
        <5> QED
          BY <4>2, <4>6, <5>1, <1>1 DEF FrameAt
      <4>4. tool \in ByStream => strm'[f].size = N
        BY <2>5, <1>7, <1>8, <1>11
      <4>5. tool \notin ByStream => strm'[f].open
        BY <2>5, <3>2, <1>3, <1>11
      <4> QED
        BY <4>1, <4>3, <4>4, <4>5, <1>1 DEF After
    <3>3. CASE got # N
      <4>1. tool \in ByStream
        BY <3>3, <2>5, <1>11
      <4>2. strm[f].size = N /\ tool = "fftcor" /\ optN > 0 /\ 0 < got /\ got < N
        BY <4>1, <3>3, <2>5, <1>7, <1>11
      <4>3. ~strm'[f].open
        <5>1. got # want
          BY <4>1, <4>2, <2>5, <1>4, <1>1
        <5>2. strm'[at].open = (got = want)
          BY <1>11
        <5>3. ~strm'[at].open
          BY <5>1, <5>2, Zenon
        <5> QED
          BY <5>3, <2>5, Zenon
      <4>4. strm'[f].next = k * N + got
        BY <3>1, <2>5, <1>11
      <4>5. strm'[f].next % N # 0
        <5>1. (k * N + got) % N # 0
          <6> HIDE DEF k
          <6> QED
            BY <4>2, <1>1, <1>2, NoWholeFrame
        <5> QED
          BY <4>4, <5>1
      <4> QED
        BY <4>2, <4>3, <4>5, <1>1, <1>8 DEF After, Short
    <3> QED
      BY <3>2, <3>3
  <2>6. TurnInv'
    <3> SUFFICES ASSUME N > 0, NEW f \in Files, Plain(f)
                 PROVE  (/\ tool \in ByStream => averaged = <<>> \/ strm[f].size = N
                         /\ pc = "test" =>
                              IF f < at \/ averaged = <<>>
                                THEN Before(f)
                                ELSE strm[f].next = Len(averaged) * N \/ Short(f)
                         /\ pc = "read" => IF f < at THEN After(f) ELSE Before(f)
                         /\ pc = "average" => After(f)
                         /\ pc \in {"read", "average"} => FramesBefore(f)
                         /\ \A j \in 1..Len(averaged) :
                              FrameAt(f, averaged[j][f], j)
                                \/ (j = Len(averaged) /\ Short(f)))'
      BY <1>1, <1>9 DEF TurnInv
    <3>1. /\ tool \in ByStream => averaged = <<>> \/ strm'[f].size = N
          /\ f < at => After(f)
          /\ ~(f < at) => Before(f)
          /\ FramesBefore(f)
      BY <1>5, <1>8
    <3>2. \A j \in 1..Len(averaged) : FrameAt(f, averaged[j][f], j)'
      BY <3>1, <1>1, <1>8 DEF FramesBefore, FrameAt, Sample, Cut
    <3>3. FramesBefore(f)'
      BY <3>2, <1>1 DEF FramesBefore
    <3>4. pc' # "print" /\ (f < at \/ f = at) => After(f)'
      <4>1. f < at => f # at
        BY <1>1, FilesFact
      <4> QED
        BY <4>1, <3>1, <2>4, <2>5
    <3>5. pc' = "read" => IF f < at' THEN After(f)' ELSE Before(f)'
      <4>1. (f < at + 1 <=> f < at \/ f = at)
        BY <1>1, FilesOrder
      <4>2. ~(f < at) /\ f # at => Before(f)'
        BY <3>1, <2>4
      <4> QED
        BY <4>1, <4>2, <3>4, <1>11
    <3>6. pc' = "average" => After(f)'
      <4>1. at + 1 \notin Files => f < at \/ f = at
        BY <1>1, FilesOrder
      <4>2. tool \notin ByStream => f = at
        BY <1>3
      <4> QED
        BY <4>1, <4>2, <3>4, <1>11
    <3>7. pc' # "test"
      BY <1>11
    <3> QED
      BY <3>1, <3>2, <3>3, <3>5, <3>6, <3>7, <1>1
  <2> QED
    BY <2>1, <2>2, <2>3, <2>6 DEF AlignInv
<1> QED
  BY <1>1, <1>10, <1>11

LEMMA NextAligned == IInv /\ AlignInv /\ [Next]_vars => AlignInv'
<1> SUFFICES ASSUME IInv, AlignInv, [Next]_vars PROVE AlignInv'
  OBVIOUS
<1>1. CASE Main
  BY <1>1, ParseOptionsAligned, OpenStreamAligned, CheckAligned, AllocateAligned, TestAligned,
     ReadAligned, AverageAligned, PrintOutAligned, AstrayAligned DEF Main
<1>2. ASSUME NEW f \in Files, RadioWrites(f) PROVE AlignInv'
  BY <1>2, RadioWritesAligned
<1>3. CASE UNCHANGED vars
  <2>1. UNCHANGED <<tool, chunk, there, optN, strm, N, in, averaged, at, pc>>
    BY <1>3 DEF vars, fileVars
  <2>2. \A f \in Files : there'[f] >= there[f] /\ there'[f] \in Nat \cup {Missing}
    BY <2>1 DEF AlignInv, StreamsInv, Missing
  <2> QED
    BY <2>1, <2>2, StillAligned
<1> QED
  BY <1>1, <1>2, <1>3 DEF Next

LEMMA Aligned == Spec => []AlignInv
<1>1. Init => IInv /\ AlignInv
  BY InitIInv, InitAligned
<1>2. IInv /\ AlignInv /\ [Next]_vars => (IInv /\ AlignInv)'
  BY NextIInv, NextAligned
<1> QED
  BY <1>1, <1>2, PTL DEF Spec

\* Whatever the sizes of chunks and frames, however much the radio writes while a
\* tool reads: what is averaged are the frames of the file in their order (of two
\* files at the same place), but for the arrays FramesAligned excepts, and only
\* fftplot and gfft print without a frame.
THEOREM ToolsFramesAligned == Spec => []FramesAligned
<1>1. IInv /\ AlignInv => FramesAligned
  <2> SUFFICES ASSUME IInv, AlignInv PROVE FramesAligned
    OBVIOUS
  <2>1. StreamsInv /\ TurnInv /\ EndInv /\ N \in Nat
    BY DEF AlignInv, IInv, TypeInv
  <2>2. ASSUME NEW k \in DOMAIN averaged, NEW f \in Files, Plain(f)
        PROVE  \/ FrameAt(f, averaged[k][f], k)
               \/ /\ tool = "fftcor" /\ k = Len(averaged)
                  /\ optN > 0 /\ ~strm[f].open /\ strm[f].next % N # 0
    <3>1. averaged # <<>>
      OBVIOUS
    <3>2. pc \in Loop /\ N > 0
      BY <3>1, <2>1 DEF StreamsInv
    <3>3. averaged \in Seq(Arrays)
      BY <3>2, <2>1 DEF StreamsInv
    <3>4. k \in 1..Len(averaged)
      BY <3>3
    <3>5. FrameAt(f, averaged[k][f], k) \/ (k = Len(averaged) /\ Short(f))
      BY <3>2, <3>4, <2>1, <2>2 DEF TurnInv
    <3> QED
      BY <3>5 DEF Short
  <2> QED
    BY <2>1, <2>2 DEF FramesAligned, EndInv, Plain
<1>2. Spec => [](IInv /\ AlignInv)
  BY Invariant, Aligned, PTL
<1>3. QED
  BY <1>1, <1>2, PTL
=============================================================================
