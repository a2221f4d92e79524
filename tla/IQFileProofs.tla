---------------------------- MODULE IQFileProofs ----------------------------
(***************************************************************************)
(* The data file, proved for chunks of every size, any number of them,     *)
(* every frame size a tool may set, and every place in a write at which    *)
(* the radio is caught or dies.                                            *)
(***************************************************************************)
EXTENDS IQFile, SequenceTheorems, TLAPS

-----------------------------------------------------------------------------
(* Arithmetic.                                                             *)

\* Chunks that begin with a whole frame and do not end with one are not a
\* multiple of the frame long.
LEMMA Remainder ==
  ASSUME NEW size \in Nat \ {0}, NEW m \in Nat \ {0}, NEW k \in Nat, NEW f \in Nat,
         NEW rest \in Nat, 0 < rest, rest < m, k * size = f * m + rest
  PROVE  size % m # 0
<1> SUFFICES ASSUME size % m = 0 PROVE FALSE
  OBVIOUS
<1> DEFINE q == size \div m
<1>1. q \in Nat /\ size = m * q
  OBVIOUS
<1> HIDE DEF q
<1>2. k * q \in Nat
  BY <1>1
<1> DEFINE a == k * q
<1>3. a * m = f * m + rest
  <2>1. k * (m * q) = a * m
    BY <1>1
  <2> QED
    BY <2>1, <1>1
<1> HIDE DEF a
<1>4. a \in Nat
  BY <1>2 DEF a
<1> DEFINE d == a - f
<1>5. d \in Int /\ d * m = rest
  BY <1>3, <1>4
<1> HIDE DEF d
<1>6. CASE d <= 0
  <2>1. d * m <= 0
    BY <1>5, <1>6
  <2> QED
    BY <2>1, <1>5
<1>7. CASE d >= 1
  <2>1. d * m >= m
    BY <1>5, <1>7
  <2> QED
    BY <2>1, <1>5
<1>8. QED
  BY <1>5, <1>6, <1>7

-----------------------------------------------------------------------------
(* The file.                                                               *)

\* The place of unit o of chunk c: the first chunk is c = 0, and its first unit
\* o = 1.
At(c, o) == 2 + c * (ChunkSize + 2) + o

Unit(c, o) == IF o = 1 THEN SamplesField
              ELSE IF o = 2 THEN OtherFields ELSE c * ChunkSize + (o - 2)

\* Places count on within a chunk.
LEMMA Places ==
  ASSUME NEW c \in Nat, NEW o \in Nat
  PROVE  /\ At(c, o) \in Nat /\ At(c, 0) \in Nat
         /\ At(c, o) = At(c, 0) + o
         /\ At(c, 0) >= 2 /\ At(c, o) >= 2
         /\ At(0, o) = 2 + o
<1>1. ChunkSize + 2 \in Nat
  BY ChunkSizeAssumption
<1> DEFINE w == ChunkSize + 2
<1>2. c * w \in Nat /\ 0 * w = 0
  BY <1>1
<1> QED
  BY <1>1, <1>2, ChunkSizeAssumption DEF At

\* And from a chunk to the next.
LEMMA NextPlace ==
  ASSUME NEW c \in Nat
  PROVE  At(c + 1, 0) = At(c, 0) + ChunkSize + 2
<1> DEFINE w == ChunkSize + 2
<1>1. w \in Nat /\ ChunkSize \in Nat
  BY ChunkSizeAssumption
<1>2. c * w \in Nat /\ (c + 1) * w = c * w + w
  BY <1>1
<1>3. At(c + 1, 0) = 2 + (c * w + w) /\ At(c, 0) = 2 + c * w
  <2> HIDE DEF w
  <2>1. At(c + 1, 0) = 2 + (c + 1) * w + 0 /\ At(c, 0) = 2 + c * w + 0
    BY DEF At, w
  <2> QED
    BY <1>1, <1>2, <2>1
<1> QED
  BY <1>1, <1>2, <1>3

\* A chunk ends where a later one begins, or before.
LEMMA PlacesInOrder ==
  ASSUME NEW c \in Nat, NEW d \in Nat, c < d
  PROVE  At(c, 0) + ChunkSize + 2 <= At(d, 0)
<1> DEFINE w == ChunkSize + 2
           e == d - c - 1
<1>1. w \in Nat /\ e \in Nat
  BY ChunkSizeAssumption
<1>2. d = c + 1 + e
  OBVIOUS
<1>3. e * w \in Nat /\ (c + 1 + e) * w = c * w + w + e * w /\ c * w \in Nat
  <2> HIDE DEF w, e
  <2> QED
    BY <1>1
<1> HIDE DEF e
<1>4. At(d, 0) = 2 + c * w + w + e * w
  BY <1>1, <1>2, <1>3 DEF At
<1>5. At(c, 0) = 2 + c * w
  BY <1>1, <1>3 DEF At
<1>6. ChunkSize \in Nat
  BY ChunkSizeAssumption
<1>7. At(c, 0) + w <= At(d, 0)
  <2> HIDE DEF w
  <2> QED
    BY <1>1, <1>3, <1>4, <1>5
<1>8. At(c, 0) \in Nat
  BY Places
<1> QED
  BY <1>6, <1>7, <1>8

\* What a place after the first d chunks and no further than the next belongs to.
LEMMA PlaceOfChunk ==
  ASSUME NEW c \in Nat, NEW d \in Nat, NEW o \in 1..(ChunkSize + 2),
         At(d, 0) < At(c, o), At(c, o) <= At(d, 0) + ChunkSize + 2
  PROVE  c = d
<1>1. /\ o \in Nat /\ 1 <= o /\ o <= ChunkSize + 2
  BY ChunkSizeAssumption
<1>2. /\ At(c, o) = At(c, 0) + o /\ At(c, 0) \in Nat /\ At(d, 0) \in Nat
      /\ ChunkSize \in Nat
  BY <1>1, Places, ChunkSizeAssumption
<1>3. CASE c < d
  BY <1>1, <1>2, <1>3, PlacesInOrder
<1>4. CASE d < c
  BY <1>1, <1>2, <1>4, PlacesInOrder
<1> QED
  BY <1>3, <1>4

\* What is in the file and what a write() has still to deliver are the header and
\* the chunks given to barf.
HeaderThere ==
  \A p \in 1..2 : /\ p <= Len(file) => file[p] = Header[p]
                  /\ p > Len(file) => pending[p - Len(file)] = Header[p]

ChunksThere ==
  \A c \in Nat, o \in 1..(ChunkSize + 2) :
     /\ At(c, o) <= Len(file) => file[At(c, o)] = Unit(c, o)
     /\ Len(file) < At(c, o) /\ At(c, o) <= Len(file) + Len(pending)
          => pending[At(c, o) - Len(file)] = Unit(c, o)

FileInv ==
  /\ file \in Seq(Int) /\ pending \in Seq(Int) /\ written \in Nat
  /\ Len(file) + Len(pending) = At(written, 0)
  /\ HeaderThere
  /\ ChunksThere

-----------------------------------------------------------------------------
(* The stream.                                                             *)

StreamType ==
  /\ r \in Reader /\ caller \in {"ctor", "test", "some"} /\ option \in Nat
  /\ pos \in Nat /\ pos <= Len(file)
  /\ mOpen \in BOOLEAN /\ sound \in BOOLEAN /\ whole \in BOOLEAN
  /\ mSamples \in {0, ChunkSize} /\ mCnt \in Nat /\ mCnt <= mSamples
  /\ mData \in Seq(Int) /\ Len(mData) \in {0, ChunkSize}
  /\ r = "data" => mSamples = ChunkSize /\ Len(mData) = ChunkSize
  /\ mFrameSize \in Nat
  /\ frame \in Seq(Int) /\ Len(frame) <= mFrameSize
  /\ frames \in Seq(Seq(Int))

\* The constructor has not returned.
Opening == r \in {"closed", "header"} \/ (r \in {"head", "data"} /\ caller = "ctor")

\* It begins at the beginning: only a file cut in its header leads it elsewhere.
OpeningInv ==
  Opening =>
    /\ ~sound /\ frame = <<>> /\ frames = <<>>
    /\ r \in {"closed", "header"} => pos <= 1
    /\ r = "head" => pos <= 2 /\ mOpen
    /\ r = "data" => pos = At(0, 2) /\ mOpen

\* A file that was complete when it was opened does not grow.
WholeInv == whole => written = Chunks /\ pending = <<>>

\* How many samples have been copied.
Copied == Len(frames) * mFrameSize + Len(frame)

\* The stream has taken the first K chunks.  mCnt samples of the last of them are
\* left, and they are those that follow.
FollowingAt(K) ==
  /\ pos = At(K, IF r = "data" THEN 2 ELSE 0)
  /\ K * ChunkSize = Copied + mCnt
  /\ r \in {"head", "data"} => mCnt = 0
  /\ r # "data" => \A j \in 1..mCnt : mData[ChunkSize - mCnt + j] = Copied + j
  /\ \A k \in 1..Len(frames) : Len(frames[k]) = mFrameSize

\* No whole chunk followed.
Ended ==
  /\ r \in {"test", "done"} /\ frame = <<>>
  /\ \A k \in 1..Len(frames) :
       Len(frames[k]) = mFrameSize \/ (k = Len(frames) /\ ChunkSize % mFrameSize # 0)
  /\ whole => AllRead

\* The frames are what the radio wrote at their places.
InOrder ==
  /\ \A k \in 1..Len(frames) : InPlace(frames[k], k)
  /\ InPlace(frame, Len(frames) + 1)

\* A stream that began with a whole chunk.
Began ==
  /\ ~Opening /\ r # "lost" /\ mFrameSize # 0
  /\ mSamples = ChunkSize /\ Len(mData) = ChunkSize
  /\ r = "test" => frame = <<>>
  /\ r \in {"head", "data"} /\ caller = "test" => frame = <<>>
  /\ r = "done" => ~mOpen

SoundInv ==
  sound => /\ Began
           /\ InOrder
           /\ IF mOpen THEN \E K \in Nat \ {0} : FollowingAt(K) ELSE Ended

StreamInv == FileInv /\ StreamType /\ OpeningInv /\ WholeInv /\ SoundInv

-----------------------------------------------------------------------------
(* The radio writes.                                                       *)

LEMMA FileInit == Init => FileInv
<1> SUFFICES ASSUME Init PROVE FileInv
  OBVIOUS
<1>1. /\ file = <<>> /\ pending = <<Json, Nul>> /\ written = 0
  BY DEF Init, Header
<1>2. file \in Seq(Int) /\ pending \in Seq(Int) /\ written \in Nat
  BY <1>1 DEF Json, Nul
<1>3. Len(file) = 0 /\ Len(pending) = 2
  BY <1>1
<1>4. Len(file) + Len(pending) = At(written, 0)
  BY <1>1, <1>3, Places
<1>5. HeaderThere
  BY <1>1, <1>3 DEF HeaderThere, Header
<1>6. ChunksThere
  <2>1. ASSUME NEW c \in Nat, NEW o \in 1..(ChunkSize + 2) PROVE At(c, o) > 2
    <3>1. o \in Nat /\ o >= 1
      BY ChunkSizeAssumption
    <3>2. At(c, o) = At(c, 0) + o /\ At(c, 0) >= 2 /\ At(c, 0) \in Nat
      BY <3>1, Places
    <3> QED
      BY <3>1, <3>2
  <2>2. ASSUME NEW c \in Nat, NEW o \in 1..(ChunkSize + 2)
        PROVE  ~(At(c, o) <= Len(file)) /\ ~(At(c, o) <= Len(file) + Len(pending))
    <3>1. At(c, o) > 2 /\ At(c, o) \in Nat
      <4>1. o \in Nat
        BY ChunkSizeAssumption
      <4> QED
        BY <2>1, <4>1, Places
    <3> QED
      BY <3>1, <1>3
  <2> QED
    BY <2>2 DEF ChunksThere
<1> QED
  BY <1>2, <1>4, <1>5, <1>6 DEF FileInv

LEMMA DeliverKeepsFile == FileInv /\ Deliver => FileInv'
<1> SUFFICES ASSUME FileInv, Deliver PROVE FileInv'
  OBVIOUS
<1>1. /\ file \in Seq(Int) /\ pending \in Seq(Int) /\ pending # <<>> /\ written \in Nat
      /\ file' = Append(file, Head(pending)) /\ pending' = Tail(pending)
      /\ written' = written
  BY DEF FileInv, Deliver
<1>2. /\ Head(pending) = pending[1] /\ Head(pending) \in Int
      /\ pending' \in Seq(Int) /\ Len(pending') = Len(pending) - 1
      /\ Len(pending) \in Nat \ {0}
      /\ \A i \in 1..(Len(pending) - 1) : pending'[i] = pending[i + 1]
  BY <1>1, HeadTailProperties, EmptySeq, LenProperties
<1>3. /\ file' \in Seq(Int) /\ Len(file') = Len(file) + 1 /\ Len(file) \in Nat
      /\ \A i \in 1..Len(file) : file'[i] = file[i]
      /\ file'[Len(file) + 1] = pending[1]
  BY <1>1, <1>2, AppendProperties, LenProperties
<1>4. (Len(file) + Len(pending) = At(written, 0))'
  <2>1. Len(file) + Len(pending) = At(written, 0)
    BY DEF FileInv
  <2>2. Len(file') + Len(pending') = Len(file) + Len(pending)
    BY <1>2, <1>3
  <2>3. At(written, 0)' = At(written, 0)
    BY <1>1 DEF At
  <2> QED
    BY <2>1, <2>2, <2>3
<1>5. HeaderThere'
  <2> SUFFICES ASSUME NEW p \in 1..2
               PROVE  /\ p <= Len(file') => file'[p] = Header[p]
                      /\ p > Len(file') => pending'[p - Len(file')] = Header[p]
    BY DEF HeaderThere, Header
  <2>1. /\ p <= Len(file) => file[p] = Header[p]
        /\ p > Len(file) => pending[p - Len(file)] = Header[p]
    BY DEF FileInv, HeaderThere
  <2>2. At(written, 0) >= 2 /\ Len(file) + Len(pending) = At(written, 0)
    BY <1>1, Places DEF FileInv
  <2>3. CASE p <= Len(file)
    BY <2>1, <2>3, <1>3
  <2>4. CASE p = Len(file) + 1
    BY <2>1, <2>4, <1>3
  <2>5. CASE p > Len(file) + 1
    <3>1. p - Len(file') \in 1..(Len(pending) - 1)
      BY <2>2, <2>5, <1>2, <1>3
    <3>2. pending'[p - Len(file')] = pending[p - Len(file') + 1]
      BY <3>1, <1>2
    <3>3. p - Len(file') + 1 = p - Len(file)
      BY <1>3
    <3> QED
      BY <3>2, <3>3, <2>1, <2>5, <1>3
  <2> QED
    BY <2>3, <2>4, <2>5, <1>3
<1>6. ChunksThere'
  <2> SUFFICES ASSUME NEW c \in Nat, NEW o \in 1..(ChunkSize + 2)
               PROVE  /\ At(c, o) <= Len(file') => file'[At(c, o)] = Unit(c, o)
                      /\ Len(file') < At(c, o) /\ At(c, o) <= Len(file') + Len(pending')
                           => pending'[At(c, o) - Len(file')] = Unit(c, o)
    BY DEF ChunksThere, At, Unit
  <2>0. At(c, o) \in Nat /\ At(c, o) >= 1
    <3>1. o \in Nat
      BY ChunkSizeAssumption
    <3>2. At(c, o) \in Nat /\ At(c, o) >= 2
      BY <3>1, Places
    <3> QED
      BY <3>2
  <2>1. /\ At(c, o) <= Len(file) => file[At(c, o)] = Unit(c, o)
        /\ Len(file) < At(c, o) /\ At(c, o) <= Len(file) + Len(pending)
             => pending[At(c, o) - Len(file)] = Unit(c, o)
    BY DEF FileInv, ChunksThere
  <2> DEFINE p == At(c, o)
             u == Unit(c, o)
  <2> HIDE DEF p, u
  <2>2. CASE p <= Len(file)
    BY <2>0, <2>1, <2>2, <1>2, <1>3 DEF p
  <2>3. CASE p = Len(file) + 1
    <3>1. pending[1] = u
      BY <2>0, <2>1, <2>3, <1>2, <1>3 DEF p, u
    <3> QED
      BY <3>1, <2>3, <1>3 DEF p, u
  <2>4. CASE p > Len(file) + 1
    <3> SUFFICES ASSUME p <= Len(file') + Len(pending')
                 PROVE  pending'[p - Len(file')] = u
      BY <2>0, <2>4, <1>3 DEF p, u
    <3>1. p - Len(file') \in 1..(Len(pending) - 1)
      BY <2>0, <2>4, <1>2, <1>3 DEF p
    <3>2. pending'[p - Len(file')] = pending[p - Len(file') + 1]
      BY <3>1, <1>2
    <3>3. p - Len(file') + 1 = p - Len(file)
      BY <2>0, <1>3 DEF p
    <3>4. pending[p - Len(file)] = u
      BY <2>0, <2>1, <2>4, <1>2, <1>3 DEF p, u
    <3> QED
      BY <3>2, <3>3, <3>4
  <2> QED
    BY <2>0, <2>2, <2>3, <2>4, <1>3 DEF p
<1> QED
  BY <1>1, <1>2, <1>3, <1>4, <1>5, <1>6 DEF FileInv

\* What barf writes.
LEMMA ChunkUnits ==
  ASSUME NEW c \in Nat
  PROVE  /\ ChunkOf(c + 1) \in Seq(Int) /\ Len(ChunkOf(c + 1)) = ChunkSize + 2
         /\ \A o \in 1..(ChunkSize + 2) : ChunkOf(c + 1)[o] = Unit(c, o)
<1>1. ChunkSize \in Nat
  BY ChunkSizeAssumption
<1> DEFINE a == c * ChunkSize
           d == c + 1
           s == [i \in 1..ChunkSize |-> (d - 1) * ChunkSize + i]
           h == <<SamplesField, OtherFields>>
<1>2. a \in Nat /\ (d - 1) * ChunkSize = a
  BY <1>1
<1> HIDE DEF d
<1>3. s \in Seq(Int) /\ Len(s) = ChunkSize /\ \A i \in 1..ChunkSize : s[i] = a + i
  <2> HIDE DEF a
  <2>1. s = [i \in 1..ChunkSize |-> a + i]
    BY <1>2
  <2>2. [i \in 1..ChunkSize |-> a + i] \in [1..ChunkSize -> Int]
    BY <1>1, <1>2
  <2>3. s \in Seq(Int)
    BY <2>1, <2>2, <1>1, SeqDef
  <2>4. DOMAIN s = 1..ChunkSize
    OBVIOUS
  <2>5. Len(s) = ChunkSize
    BY <2>3, <2>4, <1>1, LenProperties
  <2> QED
    BY <2>1, <2>3, <2>5
<1>4. h \in Seq(Int) /\ Len(h) = 2 /\ h[1] = SamplesField /\ h[2] = OtherFields
  BY DEF SamplesField, OtherFields
<1>5. ChunkOf(d) = h \o s
  BY DEF ChunkOf
<1> HIDE DEF s, h
<1>6. /\ h \o s \in Seq(Int) /\ Len(h \o s) = ChunkSize + 2
      /\ \A o \in 1..(ChunkSize + 2) : (h \o s)[o] = IF o <= 2 THEN h[o] ELSE s[o - 2]
  <2>1. /\ h \o s \in Seq(Int) /\ Len(h \o s) = Len(h) + Len(s)
        /\ \A i \in 1..(Len(h) + Len(s)) :
             (h \o s)[i] = IF i <= Len(h) THEN h[i] ELSE s[i - Len(h)]
    BY <1>3, <1>4, ConcatProperties
  <2> QED
    BY <2>1, <1>1, <1>3, <1>4
<1>7. ASSUME NEW o \in 1..(ChunkSize + 2) PROVE (h \o s)[o] = Unit(c, o)
  <2>1. CASE o = 1
    BY <2>1, <1>4, <1>6 DEF Unit
  <2>2. CASE o = 2
    BY <2>2, <1>4, <1>6 DEF Unit
  <2>3. CASE o > 2
    <3>1. o - 2 \in 1..ChunkSize
      BY <2>3, <1>1
    <3>2. (h \o s)[o] = a + (o - 2)
      BY <3>1, <2>3, <1>1, <1>3, <1>6
    <3> QED
      BY <3>2, <2>3, <1>1 DEF Unit
  <2> QED
    <3>1. o = 1 \/ o = 2 \/ o > 2
      BY <1>1
    <3> QED
      BY <3>1, <2>1, <2>2, <2>3
<1> QED
  BY <1>5, <1>6, <1>7 DEF d

LEMMA BarfKeepsFile == FileInv /\ Barf => FileInv'
<1> SUFFICES ASSUME FileInv, Barf PROVE FileInv'
  OBVIOUS
<1>1. /\ file \in Seq(Int) /\ pending = <<>> /\ written \in Nat
      /\ file' = file /\ written' = written + 1 /\ pending' = ChunkOf(written + 1)
  BY DEF FileInv, Barf
<1>2. /\ pending' \in Seq(Int) /\ Len(pending') = ChunkSize + 2
      /\ \A o \in 1..(ChunkSize + 2) : pending'[o] = Unit(written, o)
  BY <1>1, ChunkUnits
<1>3. Len(file) = At(written, 0) /\ Len(file) \in Nat /\ Len(pending) = 0
  BY <1>1, LenProperties, EmptySeq DEF FileInv
<1>4. At(written + 1, 0) = At(written, 0) + ChunkSize + 2 /\ At(written, 0) >= 2
  BY <1>1, Places, NextPlace
<1>5. (Len(file) + Len(pending) = At(written, 0))'
  <2>1. At(written, 0)' = At(written + 1, 0)
    BY <1>1 DEF At
  <2>2. Len(file') + Len(pending') = At(written + 1, 0)
    <3>1. Len(file') = At(written, 0) /\ Len(pending') = ChunkSize + 2
      BY <1>1, <1>2, <1>3
    <3>2. ChunkSize \in Nat /\ At(written, 0) \in Nat
      BY <1>3, ChunkSizeAssumption
    <3> QED
      BY <3>1, <3>2, <1>4
  <2> QED
    BY <2>1, <2>2
<1>6. HeaderThere'
  <2> SUFFICES ASSUME NEW p \in 1..2
               PROVE  p <= Len(file') /\ file'[p] = Header[p]
    BY <1>1, <1>3 DEF HeaderThere, Header
  <2> QED
    BY <1>1, <1>3, <1>4 DEF FileInv, HeaderThere
<1>7. ChunksThere'
  <2> SUFFICES ASSUME NEW c \in Nat, NEW o \in 1..(ChunkSize + 2)
               PROVE  /\ At(c, o) <= Len(file') => file'[At(c, o)] = Unit(c, o)
                      /\ Len(file') < At(c, o) /\ At(c, o) <= Len(file') + Len(pending')
                           => pending'[At(c, o) - Len(file')] = Unit(c, o)
    BY DEF ChunksThere, At, Unit
  <2>1. At(c, o) <= Len(file') => file'[At(c, o)] = Unit(c, o)
    BY <1>1 DEF FileInv, ChunksThere
  <2>2. ASSUME Len(file') < At(c, o), At(c, o) <= Len(file') + Len(pending')
        PROVE  pending'[At(c, o) - Len(file')] = Unit(c, o)
    <3>1. At(written, 0) < At(c, o) /\ At(c, o) <= At(written, 0) + ChunkSize + 2
      <4>1. Len(file') = At(written, 0) /\ Len(pending') = ChunkSize + 2
        BY <1>1, <1>2, <1>3
      <4>2. ChunkSize \in Nat /\ At(written, 0) \in Nat
        BY <1>3, ChunkSizeAssumption
      <4> QED
        BY <4>1, <4>2, <2>2
    <3>2. c = written
      BY <3>1, <1>1, PlaceOfChunk
    <3>3. At(c, o) - Len(file') = o
      <4>1. o \in Nat
        BY ChunkSizeAssumption
      <4> QED
        BY <4>1, <3>2, <1>1, <1>3, Places
    <3> QED
      BY <3>2, <3>3, <1>2
  <2> QED
    BY <2>1, <2>2
<1> QED
  BY <1>1, <1>2, <1>5, <1>6, <1>7 DEF FileInv

LEMMA FileStep == FileInv /\ [Next]_vars => FileInv'
<1> SUFFICES ASSUME FileInv, [Next]_vars PROVE FileInv'
  OBVIOUS
<1>1. CASE Deliver
  BY <1>1, DeliverKeepsFile
<1>2. CASE Barf
  BY <1>2, BarfKeepsFile
<1>3. CASE UNCHANGED fileVars
  BY <1>3 DEF fileVars, FileInv, HeaderThere, ChunksThere, At, Unit
<1>4. Stream => UNCHANGED fileVars
  BY DEF Stream, Open, ReadHeader, UnbarfHead, UnbarfData, Test, ReadSome, fileVars
<1> QED
  BY <1>1, <1>2, <1>3, <1>4 DEF Next, Radio, vars

-----------------------------------------------------------------------------
(* The tool reads.                                                         *)

\* What a read returns.
LEMMA ReadGets ==
  ASSUME file \in Seq(Int), pos \in Nat, pos <= Len(file), NEW n \in Nat
  PROVE  /\ ReadUpTo(n) \in Seq(Int)
         /\ Len(ReadUpTo(n)) = IF pos + n <= Len(file) THEN n ELSE Len(file) - pos
         /\ Len(ReadUpTo(n)) \in Nat /\ Len(ReadUpTo(n)) <= n
         /\ pos + Len(ReadUpTo(n)) <= Len(file)
         /\ \A i \in 1..Len(ReadUpTo(n)) : ReadUpTo(n)[i] = file[pos + i]
<1> DEFINE last == IF pos + n < Len(file) THEN pos + n ELSE Len(file)
           got == SubSeq(file, pos + 1, last)
<1>1. ReadUpTo(n) = got
  BY DEF ReadUpTo
<1>2. /\ Len(file) \in Nat /\ last \in Nat /\ last <= Len(file) /\ pos <= last
      /\ last = pos + (IF pos + n <= Len(file) THEN n ELSE Len(file) - pos)
  BY LenProperties
<1> HIDE DEF last
<1>3. \A i \in (pos + 1)..last : file[i] \in Int
  BY <1>2, ElementOfSeq
<1>4. /\ got \in Seq(Int)
      /\ Len(got) = IF pos + 1 <= last THEN last - (pos + 1) + 1 ELSE 0
      /\ \A i \in 1..(last - (pos + 1) + 1) : got[i] = file[pos + 1 + i - 1]
  <2>1. pos + 1 \in Int /\ last \in Int
    BY <1>2
  <2> QED
    BY <2>1, <1>3, SubSeqProperties
<1> HIDE DEF got
<1>5. Len(got) = last - pos
  BY <1>2, <1>4
<1>6. \A i \in 1..Len(got) : got[i] = file[pos + i]
  <2> SUFFICES ASSUME NEW i \in 1..Len(got) PROVE got[i] = file[pos + i]
    OBVIOUS
  <2>1. i \in 1..(last - (pos + 1) + 1) /\ pos + 1 + i - 1 = pos + i
    BY <1>2, <1>5
  <2> QED
    BY <2>1, <1>4
<1>7. Len(got) = IF pos + n <= Len(file) THEN n ELSE Len(file) - pos
  <2>1. last - pos = IF pos + n <= Len(file) THEN n ELSE Len(file) - pos
    BY <1>2
  <2> QED
    BY <2>1, <1>5
<1>8. Len(got) \in Nat /\ Len(got) <= n /\ pos + Len(got) <= Len(file)
  BY <1>2, <1>7
<1> QED
  BY <1>1, <1>4, <1>6, <1>7, <1>8

\* What HandOver does to the frames.
LEMMA HandedOver ==
  ASSUME frame \in Seq(Int), frames \in Seq(Seq(Int)), frame' = <<>>,
         frames' = IF frame = <<>> THEN frames ELSE Append(frames, frame)
  PROVE  /\ frames' \in Seq(Seq(Int)) /\ frame' \in Seq(Int) /\ Len(frame') = 0
         /\ Len(frames) \in Nat
         /\ frame = <<>> => frames' = frames /\ Len(frames') = Len(frames)
         /\ frame # <<>> =>
              /\ Len(frames') = Len(frames) + 1
              /\ \A k \in 1..Len(frames) : frames'[k] = frames[k]
              /\ frames'[Len(frames) + 1] = frame
<1>1. CASE frame = <<>>
  BY <1>1, EmptySeq, LenProperties
<1>2. CASE frame # <<>>
  BY <1>2, EmptySeq, AppendProperties, LenProperties
<1> QED
  BY <1>1, <1>2

\* What unbarf's callers do keeps the types.
LEMMA ReturnType ==
  ASSUME StreamType, NEW ok \in BOOLEAN, NEW samples \in {0, ChunkSize},
         mSamples <= samples, caller = "ctor" => frame = <<>>, Return(ok, samples)
  PROVE  /\ r' \in Reader /\ r' # "data"
         /\ mOpen' \in BOOLEAN /\ sound' \in BOOLEAN
         /\ mCnt' \in Nat /\ mCnt' <= samples
         /\ mFrameSize' \in Nat
         /\ frame' \in Seq(Int) /\ Len(frame') <= mFrameSize'
         /\ frames' \in Seq(Seq(Int))
<1>0. /\ samples \in Nat /\ mSamples \in Nat /\ mCnt \in Nat /\ mCnt <= mSamples
      /\ option \in Nat /\ mFrameSize \in Nat
      /\ mOpen \in BOOLEAN /\ sound \in BOOLEAN
      /\ frame \in Seq(Int) /\ Len(frame) <= mFrameSize /\ frames \in Seq(Seq(Int))
      /\ caller \in {"ctor", "test", "some"}
  BY ChunkSizeAssumption DEF StreamType
<1>1. CASE caller = "ctor"
  <2>1. /\ mCnt' = samples /\ mFrameSize' = CtorFrameSize(samples) /\ sound' = ok
        /\ r' = "test" /\ mOpen' = mOpen /\ frame' = frame /\ frames' = frames
    BY <1>1 DEF Return
  <2>2. mFrameSize' \in Nat
    BY <2>1, <1>0 DEF CtorFrameSize
  <2>3. frame' \in Seq(Int) /\ Len(frame') <= mFrameSize'
    <3>1. frame' = <<>> /\ Len(<<>>) = 0
      BY <2>1, <1>1
    <3> QED
      BY <3>1, <2>2, EmptySeq
  <2>4. r' \in Reader /\ r' # "data" /\ mCnt' \in Nat /\ mCnt' <= samples
    BY <2>1, <1>0 DEF Reader
  <2>5. mOpen' \in BOOLEAN /\ sound' \in BOOLEAN
    BY <2>1, <1>0
  <2> QED
    BY <2>1, <2>2, <2>3, <2>4, <2>5, <1>0
<1>2. CASE caller # "ctor" /\ ok
  <2>1. /\ mCnt' = samples /\ r' = "some"
        /\ UNCHANGED <<mOpen, mFrameSize, frame, frames, sound>>
    BY <1>2 DEF Return
  <2>2. r' \in Reader /\ r' # "data" /\ mCnt' \in Nat /\ mCnt' <= samples
    BY <2>1, <1>0 DEF Reader
  <2>3. mOpen' \in BOOLEAN /\ sound' \in BOOLEAN
    BY <2>1, <1>0
  <2> QED
    BY <2>1, <2>2, <2>3, <1>0
<1>3. CASE caller = "test" /\ ~ok
  <2>1. /\ mOpen' = FALSE /\ r' = "done"
        /\ UNCHANGED <<mCnt, mFrameSize, frame, frames, sound>>
    BY <1>3 DEF Return, EndOfStream
  <2>2. r' \in Reader /\ r' # "data" /\ mCnt' \in Nat /\ mCnt' <= samples
    BY <2>1, <1>0 DEF Reader
  <2>3. mOpen' \in BOOLEAN /\ sound' \in BOOLEAN
    BY <2>1, <1>0
  <2> QED
    BY <2>1, <2>2, <2>3, <1>0
<1>4. CASE caller = "some" /\ ~ok
  <2>1. /\ mOpen' = FALSE /\ HandOver
        /\ UNCHANGED <<mCnt, mFrameSize, sound>>
    BY <1>4 DEF Return, EndOfStream
  <2>2. /\ frames' \in Seq(Seq(Int)) /\ frame' \in Seq(Int) /\ Len(frame') = 0
        /\ r' = "test"
    BY <2>1, <1>0, HandedOver DEF HandOver
  <2>3. r' \in Reader /\ r' # "data" /\ mCnt' \in Nat /\ mCnt' <= samples
    BY <2>1, <2>2, <1>0 DEF Reader
  <2>4. mOpen' \in BOOLEAN /\ sound' \in BOOLEAN
    BY <2>1, <1>0
  <2> QED
    BY <2>1, <2>2, <2>3, <2>4, <1>0
<1> QED
  BY <1>0, <1>1, <1>2, <1>3, <1>4

LEMMA HeadType ==
  ASSUME StreamInv, UnbarfHead
  PROVE  StreamType'
<1> DEFINE got == ReadUpTo(2)
           size == IF got # <<>> /\ got[1] = SamplesField THEN ChunkSize ELSE mSamples
<1>0. /\ FileInv /\ StreamType /\ OpeningInv /\ r = "head"
      /\ file' = file /\ caller' = caller /\ option' = option /\ whole' = whole
      /\ pos' = pos + Len(got)
  BY DEF StreamInv, UnbarfHead, fileVars
<1>1. file \in Seq(Int) /\ pos \in Nat /\ pos <= Len(file)
  BY <1>0 DEF FileInv, StreamType
<1>2. pos' \in Nat /\ pos' <= Len(file')
  BY <1>0, <1>1, ReadGets
<1>3. size \in {0, ChunkSize} /\ mSamples <= size /\ mSamples \in {0, ChunkSize}
  BY <1>0, ChunkSizeAssumption DEF StreamType
<1>4. caller = "ctor" => frame = <<>>
  BY <1>0 DEF OpeningInv, Opening
<1>5. CASE got # <<>> /\ got[1] # SamplesField
  <2>1. r' = "lost" /\ UNCHANGED <<mOpen, mCnt, mFrameSize, mSamples, mData, frame,
                                   frames, sound>>
    BY <1>5 DEF UnbarfHead
  <2> QED
    BY <2>1, <1>0, <1>2 DEF StreamType, Reader
<1>6. CASE Len(got) = 2 /\ got[1] = SamplesField
  <2>1. got # <<>>
    BY <1>6
  <2>2. /\ mSamples' = ChunkSize /\ r' = "data"
        /\ mData' = IF mData = <<>> THEN [i \in 1..ChunkSize |-> Stale] ELSE mData
        /\ UNCHANGED <<mOpen, mCnt, mFrameSize, frame, frames, sound>>
    BY <2>1, <1>6 DEF UnbarfHead
  <2>3. mData' \in Seq(Int) /\ Len(mData') = ChunkSize
    <3>1. CASE mData = <<>>
      <4>1. mData' = [i \in 1..ChunkSize |-> Stale]
        BY <3>1, <2>2
      <4>2. mData' \in [1..ChunkSize -> Int]
        BY <4>1 DEF Stale
      <4>3. ChunkSize \in Nat
        BY ChunkSizeAssumption
      <4>4. mData' \in Seq(Int)
        BY <4>2, <4>3, SeqDef
      <4>5. DOMAIN mData' = 1..ChunkSize
        BY <4>1
      <4> QED
        BY <4>3, <4>4, <4>5, LenProperties
    <3>2. CASE mData # <<>>
      <4>1. mData' = mData /\ mData \in Seq(Int) /\ Len(mData) \in {0, ChunkSize}
        BY <3>2, <2>2, <1>0 DEF StreamType
      <4>2. Len(mData) # 0
        BY <4>1, <3>2, EmptySeq
      <4> QED
        BY <4>1, <4>2
    <3> QED
      BY <3>1, <3>2
  <2>4. /\ mCnt' \in Nat /\ mCnt' <= mSamples' /\ mFrameSize' \in Nat
        /\ mOpen' \in BOOLEAN /\ sound' \in BOOLEAN
        /\ frame' \in Seq(Int) /\ Len(frame') <= mFrameSize' /\ frames' \in Seq(Seq(Int))
    BY <2>2, <1>0, <1>3, ChunkSizeAssumption DEF StreamType
  <2> QED
    BY <2>2, <2>3, <2>4, <1>0, <1>2 DEF StreamType, Reader
<1>7. CASE ~(got # <<>> /\ got[1] # SamplesField) /\ ~(Len(got) = 2 /\ got[1] = SamplesField)
  <2>1. mSamples' = size /\ Return(FALSE, size) /\ mData' = mData
    BY <1>7 DEF UnbarfHead
  <2> HIDE DEF size, got
  <2>2. /\ r' \in Reader /\ r' # "data"
        /\ mOpen' \in BOOLEAN /\ sound' \in BOOLEAN
        /\ mCnt' \in Nat /\ mCnt' <= size
        /\ mFrameSize' \in Nat
        /\ frame' \in Seq(Int) /\ Len(frame') <= mFrameSize'
        /\ frames' \in Seq(Seq(Int))
    <3>1. Return(FALSE, size) /\ FALSE \in BOOLEAN
      BY <2>1
    <3> QED
      BY <3>1, <1>0, <1>3, <1>4, ReturnType
  <2> QED
    BY <2>1, <2>2, <1>0, <1>2, <1>3 DEF StreamType
<1> QED
  BY <1>5, <1>6, <1>7

\* What the second read of unbarf leaves in mData.
LEMMA DataRead ==
  ASSUME NEW got \in Seq(Int), mData \in Seq(Int), Len(got) <= Len(mData),
         NEW new, new = got \o SubSeq(mData, Len(got) + 1, Len(mData))
  PROVE  /\ new \in Seq(Int) /\ Len(new) = Len(mData)
         /\ \A i \in 1..Len(got) : new[i] = got[i]
<1> DEFINE n == Len(got)
           rest == SubSeq(mData, n + 1, Len(mData))
<1>1. n \in Nat /\ Len(mData) \in Nat /\ n <= Len(mData)
  BY LenProperties
<1>2. \A i \in (n + 1)..Len(mData) : mData[i] \in Int
  BY <1>1, ElementOfSeq
<1>3. /\ rest \in Seq(Int)
      /\ Len(rest) = IF n + 1 <= Len(mData) THEN Len(mData) - (n + 1) + 1 ELSE 0
  <2>1. n + 1 \in Int /\ Len(mData) \in Int
    BY <1>1
  <2> HIDE DEF n
  <2> QED
    BY <2>1, <1>2, SubSeqProperties
<1>4. Len(rest) = Len(mData) - n
  BY <1>1, <1>3
<1>5. new = got \o rest
  OBVIOUS
<1> HIDE DEF rest
<1>6. /\ got \o rest \in Seq(Int) /\ Len(got \o rest) = Len(got) + Len(rest)
      /\ \A i \in 1..(Len(got) + Len(rest)) :
           (got \o rest)[i] = IF i <= Len(got) THEN got[i] ELSE rest[i - Len(got)]
  BY <1>3, ConcatProperties
<1> QED
  BY <1>1, <1>4, <1>5, <1>6

LEMMA DataType ==
  ASSUME StreamInv, UnbarfData
  PROVE  StreamType'
<1> DEFINE got == ReadUpTo(mSamples)
<1>0. /\ FileInv /\ StreamType /\ OpeningInv /\ r = "data"
      /\ file' = file /\ caller' = caller /\ option' = option /\ whole' = whole
      /\ mSamples' = mSamples
      /\ pos' = pos + Len(got)
      /\ mData' = got \o SubSeq(mData, Len(got) + 1, Len(mData))
      /\ Return(Len(got) = mSamples, mSamples)
  BY DEF StreamInv, UnbarfData, fileVars
<1>1. /\ file \in Seq(Int) /\ pos \in Nat /\ pos <= Len(file)
      /\ mSamples = ChunkSize /\ Len(mData) = ChunkSize /\ mData \in Seq(Int)
      /\ mSamples \in Nat
  BY <1>0, ChunkSizeAssumption DEF FileInv, StreamType
<1>2. /\ got \in Seq(Int) /\ pos + Len(got) <= Len(file) /\ Len(got) \in Nat
      /\ Len(got) <= mSamples
  BY <1>1, ReadGets
<1> HIDE DEF got
<1>3. mData' \in Seq(Int) /\ Len(mData') = ChunkSize
  <2>1. Len(got) <= Len(mData)
    BY <1>1, <1>2
  <2> QED
    BY <2>1, <1>0, <1>1, <1>2, DataRead
<1>4. caller = "ctor" => frame = <<>>
  BY <1>0 DEF OpeningInv, Opening
<1>5. ASSUME NEW ok \in BOOLEAN, ok = (Len(got) = mSamples)
      PROVE  /\ r' \in Reader /\ r' # "data"
             /\ mOpen' \in BOOLEAN /\ sound' \in BOOLEAN
             /\ mCnt' \in Nat /\ mCnt' <= mSamples
             /\ mFrameSize' \in Nat
             /\ frame' \in Seq(Int) /\ Len(frame') <= mFrameSize'
             /\ frames' \in Seq(Seq(Int))
  <2>1. Return(ok, mSamples)
    BY <1>0, <1>5
  <2>2. mSamples \in {0, ChunkSize} /\ mSamples <= mSamples
    BY <1>1
  <2> QED
    BY <2>1, <2>2, <1>0, <1>4, ReturnType
<1>6. pos' \in Nat /\ pos' <= Len(file')
  BY <1>0, <1>1, <1>2
<1> QED
  BY <1>0, <1>1, <1>3, <1>5, <1>6 DEF StreamType

LEMMA SomeType ==
  ASSUME StreamType, ReadSome
  PROVE  StreamType'
<1>0. /\ r = "some" /\ file' = file /\ option' = option /\ mOpen' = mOpen
      /\ mFrameSize' = mFrameSize /\ mSamples' = mSamples /\ mData' = mData
      /\ pos' = pos /\ sound' = sound /\ whole' = whole
  BY DEF ReadSome, fileVars
<1>1. /\ frame \in Seq(Int) /\ frames \in Seq(Seq(Int)) /\ mData \in Seq(Int)
      /\ mFrameSize \in Nat /\ mCnt \in Nat /\ mCnt <= mSamples
      /\ mSamples \in {0, ChunkSize} /\ Len(mData) \in {0, ChunkSize}
      /\ Len(frame) <= mFrameSize
  BY DEF StreamType
<1>2. CASE Len(frame) = mFrameSize /\ HandOver /\ UNCHANGED <<caller, mCnt>>
  <2>1. /\ frames' \in Seq(Seq(Int)) /\ frame' \in Seq(Int) /\ Len(frame') = 0
        /\ r' = "test"
    BY <1>1, <1>2, HandedOver DEF HandOver
  <2> QED
    BY <2>1, <1>0, <1>1, <1>2 DEF StreamType, Reader
<1>3. CASE CallUnbarf("some") /\ UNCHANGED <<mCnt, frame, frames>>
  BY <1>0, <1>3 DEF StreamType, CallUnbarf, Reader
<1>4. CASE /\ Len(frame) < mFrameSize /\ mCnt >= 1
           /\ mData = <<>> /\ r' = "lost" /\ UNCHANGED <<frame, mCnt>>
           /\ UNCHANGED <<caller, frames>>
  BY <1>0, <1>4 DEF StreamType, Reader
<1>5. CASE /\ Len(frame) < mFrameSize /\ mCnt >= 1
           /\ mData # <<>> /\ frame' = Append(frame, NextSample) /\ mCnt' = mCnt - 1
           /\ r' = r /\ UNCHANGED <<caller, frames>>
  <2>1. Len(mData) = ChunkSize /\ mSamples = ChunkSize
    BY <1>1, <1>5, EmptySeq, ChunkSizeAssumption
  <2>2. mSamples - mCnt + 1 \in 1..Len(mData)
    BY <2>1, <1>1, <1>5, ChunkSizeAssumption
  <2>3. NextSample \in Int
    BY <2>2, <1>1, ElementOfSeq DEF NextSample
  <2>4. frame' \in Seq(Int) /\ Len(frame') = Len(frame) + 1 /\ Len(frame) \in Nat
    BY <2>3, <1>1, <1>5, AppendProperties, LenProperties
  <2>5. Len(frame') <= mFrameSize /\ mCnt' \in Nat /\ mCnt' <= mSamples
    BY <2>1, <2>4, <1>1, <1>5, ChunkSizeAssumption
  <2> QED
    BY <2>4, <2>5, <1>0, <1>5 DEF StreamType, Reader
<1> QED
  BY <1>0, <1>2, <1>3, <1>4, <1>5 DEF ReadSome

LEMMA TypeStep == StreamInv /\ [Next]_vars => StreamType'
<1> SUFFICES ASSUME StreamInv, [Next]_vars PROVE StreamType'
  OBVIOUS
<1>0. FileInv /\ StreamType /\ FileInv'
  BY FileStep DEF StreamInv
<1>1. CASE Deliver \/ Barf
  <2>1. UNCHANGED <<streamVars, r, caller, option, frame, frames, sound, whole>>
    BY <1>1 DEF Deliver, Barf
  <2>2. pos <= Len(file')
    <3>1. CASE Deliver
      <4>1. /\ file \in Seq(Int) /\ pending \in Seq(Int) /\ pending # <<>>
            /\ file' = Append(file, Head(pending)) /\ pos <= Len(file) /\ pos \in Nat
        BY <1>0, <3>1 DEF Deliver, FileInv, StreamType
      <4>2. Head(pending) \in Int
        BY <4>1, HeadTailProperties
      <4>3. Len(file') = Len(file) + 1 /\ Len(file) \in Nat
        BY <4>1, <4>2, AppendProperties, LenProperties
      <4> QED
        BY <4>1, <4>3
    <3>2. CASE Barf
      BY <1>0, <3>2 DEF Barf, StreamType
    <3> QED
      BY <1>1, <3>1, <3>2
  <2> QED
    BY <2>1, <2>2, <1>0 DEF StreamType, streamVars
<1>2. CASE Open
  BY <1>0, <1>2 DEF Open, StreamType, streamVars, fileVars, Reader
<1>3. CASE ReadHeader
  <2>1. /\ file \in Seq(Int) /\ pos \in Nat /\ pos <= Len(file)
        /\ file' = file /\ pos' = pos + Len(ReadUpTo(1))
    BY <1>0, <1>3 DEF FileInv, StreamType, ReadHeader, fileVars
  <2>2. pos' \in Nat /\ pos' <= Len(file')
    BY <2>1, ReadGets
  <2>3. /\ UNCHANGED <<option, mCnt, mFrameSize, mSamples, mData, frame, frames,
                       sound, whole>>
        /\ \/ UNCHANGED <<r, caller, mOpen>>
           \/ r' = "head" /\ caller' = "ctor" /\ mOpen' = TRUE
    BY <1>3 DEF ReadHeader, CallUnbarf
  <2>4. r = "header"
    BY <1>3 DEF ReadHeader
  <2> QED
    BY <2>2, <2>3, <2>4, <1>0 DEF StreamType, Reader
<1>4. CASE UnbarfHead
  BY <1>4, HeadType
<1>5. CASE UnbarfData
  BY <1>5, DataType
<1>6. CASE Test
  BY <1>0, <1>6 DEF Test, CallUnbarf, StreamType, streamVars, fileVars, Reader
<1>7. CASE ReadSome
  BY <1>0, <1>7, SomeType
<1>8. CASE UNCHANGED vars
  BY <1>0, <1>8 DEF vars, StreamType, streamVars, fileVars
<1> QED
  BY <1>1, <1>2, <1>3, <1>4, <1>5, <1>6, <1>7, <1>8 DEF Next, Radio, Stream

-----------------------------------------------------------------------------
(* Where the stream begins, and what a complete file is.                   *)

LEMMA OpeningStep == StreamInv /\ [Next]_vars => OpeningInv'
<1> SUFFICES ASSUME StreamInv, [Next]_vars PROVE OpeningInv'
  OBVIOUS
<1>0. /\ FileInv /\ StreamType /\ OpeningInv
      /\ file \in Seq(Int) /\ pos \in Nat /\ pos <= Len(file)
  BY DEF StreamInv, FileInv, StreamType
<1>1. CASE \/ Deliver \/ Barf \/ UNCHANGED vars
  <2>1. UNCHANGED <<streamVars, r, caller, frame, frames, sound>>
    BY <1>1 DEF Deliver, Barf, vars
  <2> QED
    BY <2>1, <1>0 DEF OpeningInv, Opening, streamVars, At
<1>2. CASE Open
  BY <1>0, <1>2 DEF Open, OpeningInv, Opening, streamVars
<1>3. CASE ReadHeader
  <2> DEFINE got == ReadUpTo(1)
  <2>1. /\ r = "header" /\ pos <= 1 /\ ~sound /\ frame = <<>> /\ frames = <<>>
        /\ pos' = pos + Len(got) /\ UNCHANGED <<frame, frames, sound>>
        /\ IF got = <<Json>> THEN UNCHANGED <<r, caller, mOpen>>
                             ELSE r' = "head" /\ caller' = "ctor" /\ mOpen' = TRUE
    BY <1>0, <1>3 DEF ReadHeader, OpeningInv, Opening, CallUnbarf
  <2>2. /\ Len(got) \in Nat /\ Len(got) <= 1 /\ pos + Len(got) <= Len(file)
        /\ \A i \in 1..Len(got) : got[i] = file[pos + i]
    BY <1>0, ReadGets
  <2>3. CASE got = <<Json>>
    <3>1. Len(got) = 1 /\ got[1] = Json
      BY <2>3
    <3>2. file[pos + 1] = Json
      BY <3>1, <2>2
    <3>3. pos # 1
      <4>1. ASSUME pos = 1 PROVE FALSE
        <5>1. 2 <= Len(file) /\ file[2] = Json
          BY <4>1, <3>1, <3>2, <2>2
        <5>2. file[2] = Nul
          BY <5>1, <1>0 DEF FileInv, HeaderThere, Header
        <5> QED
          BY <5>1, <5>2 DEF Json, Nul
      <4> QED
        BY <4>1
    <3>4. pos' = 1
      <4>1. pos \in Nat /\ pos <= 1 /\ pos' = pos + Len(got)
        BY <2>1, <1>0
      <4>2. pos = 0
        BY <4>1, <3>3
      <4>3. pos + Len(got) = 1
        BY <4>2, <3>1
      <4> QED
        BY <4>1, <4>3
    <3> QED
      BY <3>4, <2>1, <2>3 DEF OpeningInv, Opening
  <2>4. CASE got # <<Json>>
    <3>1. pos' <= 2
      BY <2>1, <2>2, <1>0
    <3> QED
      BY <3>1, <2>1, <2>4 DEF OpeningInv, Opening
  <2> QED
    BY <2>3, <2>4
<1>4. CASE UnbarfHead
  <2> DEFINE got == ReadUpTo(2)
  <2>1. r = "head" /\ caller' = caller /\ pos' = pos + Len(got)
    BY <1>4 DEF UnbarfHead
  <2>2. /\ Len(got) \in Nat /\ pos + Len(got) <= Len(file)
        /\ \A i \in 1..Len(got) : got[i] = file[pos + i]
    BY <1>0, ReadGets
  <2>3. CASE Len(got) = 2 /\ got[1] = SamplesField
    <3>1. r' = "data" /\ UNCHANGED <<mOpen, frame, frames, sound>>
      <4>1. got # <<>>
        BY <2>3
      <4> QED
        BY <4>1, <2>3, <1>4 DEF UnbarfHead
    <3>2. CASE caller = "ctor"
      <4>1. pos <= 2 /\ mOpen /\ ~sound /\ frame = <<>> /\ frames = <<>>
        BY <3>2, <2>1, <1>0 DEF OpeningInv, Opening
      <4>2. file[pos + 1] = SamplesField /\ pos + 1 <= Len(file)
        <5>1. 1 \in 1..Len(got) /\ pos + 2 <= Len(file)
          BY <2>2, <2>3
        <5>2. got[1] = file[pos + 1]
          BY <5>1, <2>2
        <5>3. Len(file) \in Nat /\ pos \in Nat
          BY <1>0, LenProperties
        <5> QED
          BY <5>1, <5>2, <5>3, <2>3
      <4>3. pos # 0 /\ pos # 1
        <5>1. ASSUME pos \in {0, 1} PROVE FALSE
          <6>1. pos + 1 \in 1..2
            BY <5>1
          <6>2. file[pos + 1] = Header[pos + 1]
            BY <6>1, <4>2, <1>0 DEF FileInv, HeaderThere
          <6> QED
            BY <6>1, <6>2, <4>2, <5>1 DEF Header, Json, Nul, SamplesField
        <5> QED
          BY <5>1
      <4>4. pos' = 4 /\ At(0, 2) = 4
        <5>1. pos' = pos + Len(got) /\ Len(got) = 2 /\ pos \in Nat /\ pos <= 2
          BY <4>1, <2>1, <2>3, <1>0
        <5>2. At(0, 2) = 4
          BY Places
        <5>3. pos = 2
          BY <5>1, <4>3
        <5>4. pos' = 2 + 2
          <6>1. pos' = pos + Len(got) /\ Len(got) = 2
            BY <5>1
          <6> HIDE DEF got
          <6> QED
            BY <6>1, <5>3, Zenon
        <5>5. 2 + 2 = 4
          OBVIOUS
        <5> QED
          BY <5>2, <5>4, <5>5, Zenon
      <4>5. At(0, 2)' = At(0, 2)
        BY DEF At
      <4> QED
        BY <4>1, <4>4, <4>5, <3>1 DEF OpeningInv, Opening
    <3>3. CASE caller # "ctor"
      BY <3>1, <3>3, <2>1 DEF OpeningInv, Opening
    <3> QED
      BY <3>2, <3>3
  <2>4. CASE r' \in {"lost", "test", "some", "done"}
    BY <2>4 DEF OpeningInv, Opening
  <2>5. r' \in {"lost", "test", "some", "done"} \/ (Len(got) = 2 /\ got[1] = SamplesField)
    BY <1>0, <1>4 DEF UnbarfHead, Return, HandOver, StreamType
  <2> QED
    BY <2>3, <2>4, <2>5
<1>5. CASE UnbarfData
  <2>1. r' \in {"test", "some", "done"}
    BY <1>0, <1>5 DEF UnbarfData, Return, HandOver, StreamType
  <2> QED
    BY <2>1 DEF OpeningInv, Opening
<1>6. CASE Test
  BY <1>0, <1>6 DEF Test, CallUnbarf, OpeningInv, Opening
<1>7. CASE ReadSome
  <2>1. \/ r' \in {"test", "lost", "some"}
        \/ r' = "head" /\ caller' = "some"
    BY <1>7 DEF ReadSome, HandOver, CallUnbarf
  <2> QED
    BY <2>1 DEF OpeningInv, Opening
<1> QED
  BY <1>1, <1>2, <1>3, <1>4, <1>5, <1>6, <1>7 DEF Next, Radio, Stream

LEMMA WholeStep == StreamInv /\ [Next]_vars => WholeInv'
<1> SUFFICES ASSUME StreamInv, [Next]_vars PROVE WholeInv'
  OBVIOUS
<1>0. WholeInv
  BY DEF StreamInv
<1>1. CASE Open
  BY <1>1 DEF Open, WholeInv, fileVars
<1>2. CASE Deliver \/ Barf
  <2>1. ~whole
    BY <1>0, <1>2, ChunksAssumption DEF WholeInv, Deliver, Barf
  <2>2. whole' = whole
    BY <1>2 DEF Deliver, Barf
  <2> QED
    BY <2>1, <2>2 DEF WholeInv
<1>3. CASE UNCHANGED <<fileVars, whole>>
  BY <1>0, <1>3 DEF WholeInv, fileVars
<1>4. ReadHeader \/ UnbarfHead \/ UnbarfData \/ Test \/ ReadSome
        => UNCHANGED <<fileVars, whole>>
  BY DEF ReadHeader, UnbarfHead, UnbarfData, Test, ReadSome
<1>5. UNCHANGED vars => UNCHANGED <<fileVars, whole>>
  BY DEF vars
<1> QED
  BY <1>1, <1>2, <1>3, <1>4, <1>5 DEF Next, Radio, Stream

-----------------------------------------------------------------------------
(* What the tool is handed.                                                *)

\* Handing over a frame keeps the samples at their places.
LEMMA InOrderHandedOver ==
  ASSUME StreamType, InOrder, frame' = <<>>, mFrameSize' = mFrameSize,
         frames' = IF frame = <<>> THEN frames ELSE Append(frames, frame)
  PROVE  InOrder'
<1>1. frame \in Seq(Int) /\ frames \in Seq(Seq(Int))
  BY DEF StreamType
<1>2. /\ Len(frame') = 0 /\ Len(frames) \in Nat
      /\ frame = <<>> => frames' = frames
      /\ frame # <<>> =>
           /\ Len(frames') = Len(frames) + 1
           /\ \A k \in 1..Len(frames) : frames'[k] = frames[k]
           /\ frames'[Len(frames) + 1] = frame
  BY <1>1, HandedOver
<1>3. InPlace(frame, Len(frames) + 1)'
  BY <1>2 DEF InPlace
<1>4. ASSUME NEW k \in 1..Len(frames') PROVE InPlace(frames[k], k)'
  <2>1. CASE frame = <<>>
    <3>1. k \in 1..Len(frames) /\ frames'[k] = frames[k]
      BY <2>1, <1>2
    <3>2. InPlace(frames[k], k)
      BY <3>1 DEF InOrder
    <3> QED
      BY <3>1, <3>2 DEF InPlace
  <2>2. CASE frame # <<>> /\ k \in 1..Len(frames)
    <3>1. frames'[k] = frames[k] /\ InPlace(frames[k], k)
      BY <2>2, <1>2 DEF InOrder
    <3> QED
      BY <3>1 DEF InPlace
  <2>3. CASE frame # <<>> /\ k = Len(frames) + 1
    <3>1. frames'[k] = frame /\ InPlace(frame, k)
      BY <2>3, <1>2 DEF InOrder
    <3> QED
      BY <3>1 DEF InPlace
  <2> QED
    BY <2>1, <2>2, <2>3, <1>2
<1> QED
  BY <1>3, <1>4 DEF InOrder

\* A stream behind which no whole chunk is found has handed over what it took.
LEMMA NoneFollows ==
  ASSUME StreamType, Began, InOrder, NEW K \in Nat \ {0}, FollowingAt(K),
         r \in {"head", "data"}, caller # "ctor", whole => K = Chunks, whole' = whole,
         NEW samples, Return(FALSE, samples), mSamples' = ChunkSize,
         Len(mData') = ChunkSize
  PROVE  SoundInv'
<1>1. /\ frame \in Seq(Int) /\ frames \in Seq(Seq(Int))
      /\ mFrameSize \in Nat \ {0} /\ Len(frame) <= mFrameSize
      /\ caller \in {"test", "some"}
  BY DEF StreamType, Began
<1>2. K * ChunkSize = Len(frames) * mFrameSize + Len(frame)
  <2>1. mCnt = 0 /\ K * ChunkSize = Copied + mCnt
    BY DEF FollowingAt
  <2>2. Len(frames) \in Nat /\ Len(frame) \in Nat
    BY <1>1, LenProperties
  <2>3. Len(frames) * mFrameSize \in Nat
    BY <2>2, <1>1
  <2>4. Copied \in Nat
    BY <2>2, <2>3 DEF Copied
  <2>5. Copied + mCnt = Copied
    BY <2>1, <2>4
  <2> QED
    BY <2>1, <2>5 DEF Copied
<1>3. \A k \in 1..Len(frames) : Len(frames[k]) = mFrameSize
  BY DEF FollowingAt
<1>4. /\ mOpen' = FALSE /\ frame' = <<>> /\ mFrameSize' = mFrameSize
      /\ frames' = IF frame = <<>> THEN frames ELSE Append(frames, frame)
      /\ r' \in {"test", "done"}
  <2>1. CASE caller = "test"
    <3>1. frame = <<>>
      BY <2>1 DEF Began
    <3>2. /\ mOpen' = FALSE /\ r' = "done"
          /\ UNCHANGED <<mFrameSize, frame, frames>>
      BY <2>1 DEF Return, EndOfStream
    <3> QED
      BY <3>1, <3>2
  <2>2. CASE caller = "some"
    BY <2>2 DEF Return, EndOfStream, HandOver
  <2> QED
    BY <2>1, <2>2, <1>1
<1>5. /\ Len(frames) \in Nat /\ Len(frame) \in Nat
      /\ frame = <<>> => frames' = frames /\ Len(frames') = Len(frames)
      /\ frame # <<>> =>
           /\ Len(frames') = Len(frames) + 1
           /\ \A k \in 1..Len(frames) : frames'[k] = frames[k]
           /\ frames'[Len(frames) + 1] = frame
  <2>1. Len(frame) \in Nat
    BY <1>1, LenProperties
  <2> QED
    BY <2>1, <1>1, <1>4, HandedOver
<1>6. InOrder'
  BY <1>4, InOrderHandedOver
<1>7. ASSUME NEW k \in 1..Len(frames')
      PROVE  Len(frames'[k]) = mFrameSize
               \/ (k = Len(frames') /\ ChunkSize % mFrameSize # 0)
  <2>1. CASE frame = <<>>
    BY <2>1, <1>3, <1>5
  <2>2. CASE frame # <<>> /\ k \in 1..Len(frames)
    BY <2>2, <1>3, <1>5
  <2>3. CASE frame # <<>> /\ k = Len(frames) + 1
    <3>1. Len(frames'[k]) = Len(frame) /\ k = Len(frames')
      BY <2>3, <1>5
    <3>2. Len(frame) > 0
      BY <2>3, <1>1, EmptySeq
    <3>3. CASE Len(frame) < mFrameSize
      <4>1. ChunkSize % mFrameSize # 0
        BY <3>2, <3>3, <1>1, <1>2, <1>5, Remainder, ChunkSizeAssumption
      <4> QED
        BY <4>1, <3>1
    <3> QED
      BY <3>1, <3>3, <1>1, <1>5
  <2> QED
    BY <2>1, <2>2, <2>3, <1>5
<1>8. ASSUME whole
      PROVE  (Len(frames') - 1) * mFrameSize + Len(frames'[Len(frames')])
               = Chunks * ChunkSize
  <2>1. K = Chunks
    BY <1>8
  <2>2. CASE frame # <<>>
    <3>1. Len(frames') - 1 = Len(frames) /\ frames'[Len(frames')] = frame
      BY <2>2, <1>5
    <3> QED
      BY <3>1, <2>1, <1>2
  <2>3. CASE frame = <<>>
    <3>1. Len(frame) = 0
      BY <2>3
    <3>2. Len(frames) * mFrameSize \in Nat
      BY <1>1, <1>5
    <3>3. K * ChunkSize = Len(frames) * mFrameSize
      BY <3>1, <3>2, <1>2
    <3>4. Len(frames) # 0
      <4>1. K * ChunkSize >= 1
        BY ChunkSizeAssumption
      <4>2. ASSUME Len(frames) = 0 PROVE Len(frames) * mFrameSize = 0
        BY <4>2, <1>1
      <4> QED
        BY <4>1, <4>2, <3>3
    <3>5. Len(frames'[Len(frames')]) = mFrameSize /\ Len(frames') = Len(frames)
      BY <3>4, <2>3, <1>3, <1>5
    <3>6. (Len(frames) - 1) * mFrameSize + mFrameSize = Len(frames) * mFrameSize
      BY <1>1, <1>5
    <3> QED
      BY <3>3, <3>5, <3>6, <2>1
  <2> QED
    BY <2>2, <2>3
<1>9. Ended'
  BY <1>4, <1>7, <1>8 DEF Ended, AllRead
<1>10. Began'
  BY <1>4, <1>1 DEF Began, Opening
<1> QED
  BY <1>4, <1>6, <1>9, <1>10 DEF SoundInv

\* In the first read of unbarf.
LEMMA HeadSound ==
  ASSUME StreamInv, UnbarfHead
  PROVE  SoundInv'
<1> DEFINE got == ReadUpTo(2)
           size == IF got # <<>> /\ got[1] = SamplesField THEN ChunkSize ELSE mSamples
<1>0. /\ FileInv /\ StreamType /\ OpeningInv /\ WholeInv /\ SoundInv /\ r = "head"
      /\ file' = file /\ caller' = caller /\ whole' = whole
      /\ pos' = pos + Len(got)
  BY DEF StreamInv, UnbarfHead, fileVars
<1>1. CASE ~sound
  <2>1. ~sound'
    BY <1>0, <1>1 DEF UnbarfHead, Return, HandOver, StreamType
  <2> QED
    BY <2>1 DEF SoundInv
<1>2. CASE sound
  <2>1. Began /\ InOrder /\ mOpen /\ caller # "ctor" /\ sound
    BY <1>0, <1>2 DEF SoundInv, Ended, Began, Opening
  <2>2. PICK K \in Nat \ {0} : FollowingAt(K)
    BY <1>0, <2>1 DEF SoundInv
  <2>3. /\ file \in Seq(Int) /\ pos \in Nat /\ pos <= Len(file) /\ Len(file) \in Nat
        /\ pos = At(K, 0) /\ mCnt = 0
    BY <1>0, <2>2, LenProperties DEF FileInv, StreamType, FollowingAt
  <2>4. /\ Len(got) \in Nat /\ Len(got) <= 2
        /\ Len(got) = IF pos + 2 <= Len(file) THEN 2 ELSE Len(file) - pos
        /\ pos + Len(got) <= Len(file)
        /\ \A i \in 1..Len(got) : got[i] = file[pos + i]
        /\ got \in Seq(Int)
    BY <2>3, ReadGets
  <2>5. got # <<>> => got[1] = SamplesField
    <3> SUFFICES ASSUME got # <<>> PROVE got[1] = SamplesField
      OBVIOUS
    <3>1. Len(got) >= 1
      BY <2>4, EmptySeq
    <3>2. got[1] = file[pos + 1] /\ pos + 1 <= Len(file)
      BY <3>1, <2>3, <2>4
    <3>3. pos + 1 = At(K, 1)
      BY <2>3, Places
    <3>4. file[At(K, 1)] = Unit(K, 1)
      <4>1. 1 \in 1..(ChunkSize + 2)
        BY ChunkSizeAssumption
      <4> QED
        BY <4>1, <3>2, <3>3, <1>0 DEF FileInv, ChunksThere
    <3> QED
      BY <3>2, <3>3, <3>4 DEF Unit
  <2>6. mSamples = ChunkSize /\ Len(mData) = ChunkSize /\ mData # <<>> /\ size = ChunkSize
    <3>1. mSamples = ChunkSize /\ Len(mData) = ChunkSize /\ size = ChunkSize
      BY <2>1 DEF Began
    <3> QED
      BY <3>1, ChunkSizeAssumption
  <2>7. CASE Len(got) = 2
    <3>1. got # <<>> /\ got[1] = SamplesField
      BY <2>5, <2>7
    <3>2. /\ mSamples' = ChunkSize /\ r' = "data" /\ mData' = mData
          /\ UNCHANGED <<mOpen, mCnt, mFrameSize, frame, frames, sound>>
      BY <3>1, <2>6, <2>7 DEF UnbarfHead
    <3>3. pos' = At(K, 2)
      <4>1. pos' = At(K, 0) + 2
        BY <1>0, <2>3, <2>7
      <4> QED
        BY <4>1, Places
    <3>4. FollowingAt(K)'
      BY <3>2, <3>3, <2>2, <2>3 DEF FollowingAt, Copied, At
    <3>5. Began'
      BY <3>2, <2>1, <2>6, <1>0 DEF Began, Opening
    <3>6. InOrder'
      BY <3>2, <2>1 DEF InOrder, InPlace
    <3> QED
      BY <3>2, <3>4, <3>5, <3>6, <2>1 DEF SoundInv
  <2>8. CASE Len(got) # 2
    <3>1. /\ mSamples' = size /\ Return(FALSE, size) /\ mData' = mData
      BY <2>5, <2>8 DEF UnbarfHead
    <3>2. whole => K = Chunks
      <4> SUFFICES ASSUME whole PROVE K = Chunks
        OBVIOUS
      <4>1. Len(file) = At(Chunks, 0)
        <5>1. pending = <<>> /\ written = Chunks
          BY <1>0 DEF WholeInv
        <5>2. Len(pending) = 0
          BY <5>1
        <5> QED
          BY <5>1, <5>2, <2>3, <1>0 DEF FileInv
      <4>2. pos + 2 > Len(file)
        <5>1. Len(got) = IF pos + 2 <= Len(file) THEN 2 ELSE Len(file) - pos
          BY <2>4
        <5> QED
          BY <5>1, <2>3, <2>8
      <4>3. /\ At(K, 0) <= At(Chunks, 0) /\ At(K, 0) + 2 > At(Chunks, 0)
            /\ At(K, 0) \in Nat /\ At(Chunks, 0) \in Nat
        BY <4>1, <4>2, <2>3
      <4>4. ~(K < Chunks)
        BY <4>3, PlacesInOrder, ChunkSizeAssumption, ChunksAssumption
      <4>5. ~(Chunks < K)
        BY <4>3, PlacesInOrder, ChunkSizeAssumption, ChunksAssumption
      <4> QED
        BY <4>4, <4>5, ChunksAssumption
    <3>3. mSamples' = ChunkSize /\ Len(mData') = ChunkSize
      BY <3>1, <2>6
    <3> HIDE DEF size
    <3> QED
      BY <3>1, <3>2, <3>3, <2>1, <2>2, <1>0, NoneFollows
  <2> QED
    BY <2>7, <2>8
<1> QED
  BY <1>1, <1>2

\* In the second read of unbarf.
LEMMA DataSound ==
  ASSUME StreamInv, UnbarfData
  PROVE  SoundInv'
<1> DEFINE got == ReadUpTo(mSamples)
<1>0. /\ FileInv /\ StreamType /\ OpeningInv /\ WholeInv /\ SoundInv /\ r = "data"
      /\ file' = file /\ caller' = caller /\ option' = option /\ whole' = whole
      /\ mSamples' = mSamples
      /\ pos' = pos + Len(got)
      /\ mData' = got \o SubSeq(mData, Len(got) + 1, Len(mData))
      /\ Return(Len(got) = mSamples, mSamples)
  BY DEF StreamInv, UnbarfData, fileVars
<1>1. /\ file \in Seq(Int) /\ pos \in Nat /\ pos <= Len(file) /\ Len(file) \in Nat
      /\ mSamples = ChunkSize /\ Len(mData) = ChunkSize /\ mData \in Seq(Int)
      /\ ChunkSize \in Nat \ {0} /\ caller \in {"ctor", "test", "some"}
  BY <1>0, LenProperties, ChunkSizeAssumption DEF FileInv, StreamType
<1>2. /\ got \in Seq(Int) /\ pos + Len(got) <= Len(file) /\ Len(got) \in Nat
      /\ Len(got) <= ChunkSize
      /\ Len(got) = IF pos + ChunkSize <= Len(file) THEN ChunkSize ELSE Len(file) - pos
      /\ \A i \in 1..Len(got) : got[i] = file[pos + i]
  BY <1>1, ReadGets
<1> HIDE DEF got
<1>3. /\ mData' \in Seq(Int) /\ Len(mData') = ChunkSize
      /\ \A i \in 1..Len(got) : mData'[i] = got[i]
  <2>1. Len(got) <= Len(mData)
    BY <1>1, <1>2
  <2> QED
    BY <2>1, <1>0, <1>1, <1>2, DataRead
<1>4. ASSUME NEW K \in Nat, pos = At(K, 2), Len(got) = ChunkSize
      PROVE  /\ pos' = At(K + 1, 0)
             /\ \A j \in 1..ChunkSize : mData'[j] = K * ChunkSize + j
  <2>1. pos' = At(K + 1, 0)
    <3>1. /\ At(K, 2) = At(K, 0) + 2 /\ At(K, 0) \in Nat
          /\ At(K + 1, 0) = At(K, 0) + ChunkSize + 2
      BY Places, NextPlace
    <3>2. pos' = At(K, 2) + ChunkSize
      BY <1>0, <1>4
    <3> QED
      BY <3>1, <3>2, <1>1
  <2>2. ASSUME NEW j \in 1..ChunkSize PROVE mData'[j] = K * ChunkSize + j
    <3>1. mData'[j] = file[pos + j] /\ pos + j <= Len(file)
      <4>1. j \in 1..Len(got)
        BY <1>4
      <4>2. pos + j <= Len(file)
        BY <4>1, <1>1, <1>2
      <4> QED
        BY <4>1, <4>2, <1>2, <1>3
    <3>2. pos + j = At(K, j + 2)
      <4>1. At(K, 2) = At(K, 0) + 2 /\ At(K, 0) \in Nat
        BY Places
      <4>2. j + 2 \in Nat
        OBVIOUS
      <4>3. At(K, j + 2) = At(K, 0) + (j + 2)
        BY <4>2, Places
      <4> QED
        BY <4>1, <4>3, <1>4
    <3>3. file[At(K, j + 2)] = Unit(K, j + 2)
      <4>1. j + 2 \in 1..(ChunkSize + 2)
        BY <1>1
      <4> QED
        BY <4>1, <3>1, <3>2, <1>0 DEF FileInv, ChunksThere
    <3>4. Unit(K, j + 2) = K * ChunkSize + j
      <4>1. j + 2 # 1 /\ j + 2 # 2 /\ j + 2 - 2 = j
        OBVIOUS
      <4> QED
        BY <4>1 DEF Unit
    <3> QED
      BY <3>1, <3>2, <3>3, <3>4
  <2> QED
    BY <2>1, <2>2
<1>5. CASE caller = "ctor"
  <2>1. /\ mCnt' = mSamples /\ mFrameSize' = CtorFrameSize(mSamples)
        /\ sound' = (Len(got) = mSamples) /\ r' = "test"
        /\ UNCHANGED <<mOpen, frame, frames>>
    BY <1>0, <1>5 DEF Return
  <2>2. pos = At(0, 2) /\ mOpen /\ frame = <<>> /\ frames = <<>>
    BY <1>0, <1>5 DEF OpeningInv, Opening
  <2> SUFFICES ASSUME Len(got) = ChunkSize PROVE SoundInv'
    BY <2>1, <1>1 DEF SoundInv
  <2>3. pos' = At(1, 0) /\ \A j \in 1..ChunkSize : mData'[j] = j
    <3>1. 0 + 1 = 1 /\ 0 \in Nat
      OBVIOUS
    <3>2. pos' = At(0 + 1, 0) /\ \A j \in 1..ChunkSize : mData'[j] = 0 * ChunkSize + j
      BY <3>1, <2>2, <1>4
    <3>3. \A j \in 1..ChunkSize : 0 * ChunkSize + j = j
      BY <1>1
    <3> QED
      BY <3>1, <3>2, <3>3
  <2>4. mFrameSize' # 0 /\ mFrameSize' \in Nat
    <3>1. option \in Nat
      BY <1>0 DEF StreamType
    <3> QED
      BY <3>1, <2>1, <1>1 DEF CtorFrameSize
  <2>5. Began'
    BY <2>1, <2>2, <2>4, <1>0, <1>1, <1>3 DEF Began, Opening
  <2>6. InOrder'
    BY <2>1, <2>2 DEF InOrder, InPlace
  <2>7. FollowingAt(1)'
    <3>1. Len(frames') = 0 /\ Len(frame') = 0
      BY <2>1, <2>2
    <3>2. Copied' = 0
      <4>1. Copied' = 0 * mFrameSize' + 0
        BY <3>1 DEF Copied
      <4>2. \A m \in Nat : 0 * m + 0 = 0
        OBVIOUS
      <4> QED
        BY <4>1, <4>2, <2>4, Zenon
    <3>3. 1 * ChunkSize = 0 + ChunkSize
      BY <1>1
    <3>4. mCnt' = ChunkSize
      BY <2>1, <1>1
    <3>5. (pos = At(1, IF r = "data" THEN 2 ELSE 0))'
      BY <2>1, <2>3 DEF At
    <3>6. ASSUME NEW j \in 1..mCnt'
          PROVE  mData'[ChunkSize - mCnt' + j] = Copied' + j
      <4>1. ChunkSize - mCnt' + j = j /\ Copied' + j = j /\ j \in 1..ChunkSize
        BY <3>2, <3>4, <1>1
      <4> QED
        BY <4>1, <2>3
    <3> QED
      BY <3>1, <3>2, <3>3, <3>4, <3>5, <3>6, <2>1 DEF FollowingAt
  <2> QED
    BY <2>1, <2>2, <2>5, <2>6, <2>7 DEF SoundInv
<1>6. CASE caller # "ctor" /\ ~sound
  <2>1. ~sound'
    BY <1>0, <1>1, <1>6 DEF Return, HandOver
  <2> QED
    BY <2>1 DEF SoundInv
<1>7. CASE caller # "ctor" /\ sound
  <2>1. Began /\ InOrder /\ mOpen
    BY <1>0, <1>7 DEF SoundInv, Ended
  <2>2. PICK K \in Nat \ {0} : FollowingAt(K)
    BY <1>0, <1>7, <2>1 DEF SoundInv
  <2>3. pos = At(K, 2) /\ mCnt = 0
    BY <1>0, <2>2 DEF FollowingAt
  <2>4. CASE Len(got) = ChunkSize
    <3>1. /\ mCnt' = mSamples /\ r' = "some"
          /\ UNCHANGED <<mOpen, mFrameSize, frame, frames, sound>>
      BY <2>4, <1>0, <1>1, <1>7 DEF Return
    <3>2. pos' = At(K + 1, 0) /\ \A j \in 1..ChunkSize : mData'[j] = K * ChunkSize + j
      BY <2>3, <2>4, <1>4
    <3>3. Began'
      BY <3>1, <2>1, <1>0, <1>1, <1>3 DEF Began, Opening
    <3>4. InOrder'
      BY <3>1, <2>1 DEF InOrder, InPlace
    <3>5. K * ChunkSize = Copied /\ Copied' = Copied /\ Copied \in Nat
      <4>1. K * ChunkSize = Copied + 0
        BY <2>2, <2>3 DEF FollowingAt
      <4>2. Copied \in Nat
        <5>1. Len(frames) \in Nat /\ Len(frame) \in Nat /\ mFrameSize \in Nat
          BY <1>0, LenProperties DEF StreamType
        <5>2. Len(frames) * mFrameSize \in Nat
          BY <5>1
        <5> QED
          BY <5>1, <5>2 DEF Copied
      <4>3. Copied' = Copied
        BY <3>1 DEF Copied
      <4> QED
        BY <4>1, <4>2, <4>3
    <3>6. FollowingAt(K + 1)'
      <4>1. (pos = At(K + 1, IF r = "data" THEN 2 ELSE 0))'
        BY <3>1, <3>2 DEF At
      <4>2. mCnt' = ChunkSize
        BY <3>1, <1>1
      <4>3. (K + 1) * ChunkSize = Copied' + mCnt'
        <5>1. (K + 1) * ChunkSize = K * ChunkSize + ChunkSize
          BY <1>1
        <5> QED
          BY <5>1, <4>2, <3>5
      <4>4. ASSUME NEW j \in 1..mCnt'
            PROVE  mData'[ChunkSize - mCnt' + j] = Copied' + j
        <5>1. ChunkSize - mCnt' + j = j /\ j \in 1..ChunkSize
          BY <4>2, <1>1
        <5> QED
          BY <5>1, <3>2, <3>5
      <4>5. \A k \in 1..Len(frames') : Len(frames'[k]) = mFrameSize'
        BY <3>1, <2>2 DEF FollowingAt
      <4> QED
        BY <4>1, <4>3, <4>4, <4>5, <3>1 DEF FollowingAt
    <3>7. K + 1 \in Nat \ {0}
      OBVIOUS
    <3> QED
      BY <3>1, <3>3, <3>4, <3>6, <3>7, <2>1 DEF SoundInv
  <2>5. CASE Len(got) # ChunkSize
    <3>1. Return(FALSE, mSamples)
      <4>1. ASSUME NEW ok \in BOOLEAN, ok = (Len(got) = mSamples)
            PROVE  Return(FALSE, mSamples)
        <5>1. ok = FALSE
          BY <4>1, <2>5, <1>1
        <5>2. Return(ok, mSamples)
          BY <4>1, <1>0
        <5> QED
          BY <5>1, <5>2
      <4> QED
        BY <4>1
    <3>2. ~whole
      <4> SUFFICES ASSUME whole PROVE FALSE
        OBVIOUS
      <4>1. Len(file) = At(Chunks, 0)
        <5>1. pending = <<>> /\ written = Chunks
          BY <1>0 DEF WholeInv
        <5>2. Len(pending) = 0
          BY <5>1
        <5> QED
          BY <5>1, <5>2, <1>1, <1>0 DEF FileInv
      <4>2. pos + ChunkSize > Len(file)
        BY <1>1, <1>2, <2>5
      <4>3. /\ At(K, 2) = At(K, 0) + 2 /\ At(K, 0) \in Nat /\ At(Chunks, 0) \in Nat
        BY Places, ChunksAssumption
      <4>4. /\ At(K, 0) + 2 <= At(Chunks, 0) /\ At(K, 0) + ChunkSize + 2 > At(Chunks, 0)
        BY <4>1, <4>2, <4>3, <2>3, <1>1
      <4>5. ~(K < Chunks)
        BY <4>3, <4>4, PlacesInOrder, ChunksAssumption, <1>1
      <4>6. ~(Chunks < K)
        BY <4>3, <4>4, PlacesInOrder, ChunksAssumption, <1>1
      <4>7. K # Chunks
        BY <4>3, <4>4
      <4> QED
        BY <4>5, <4>6, <4>7, ChunksAssumption
    <3>3. mSamples' = ChunkSize /\ Len(mData') = ChunkSize
      BY <1>0, <1>1, <1>3
    <3> QED
      BY <3>1, <3>2, <3>3, <2>1, <2>2, <1>0, <1>7, NoneFollows
  <2> QED
    BY <2>4, <2>5
<1> QED
  BY <1>5, <1>6, <1>7

\* In a turn of the loop of readSome.
LEMMA SomeSound ==
  ASSUME StreamInv, ReadSome
  PROVE  SoundInv'
<1>0. /\ StreamType /\ SoundInv /\ r = "some" /\ file' = file /\ mOpen' = mOpen
      /\ mFrameSize' = mFrameSize /\ mSamples' = mSamples /\ mData' = mData
      /\ pos' = pos /\ sound' = sound /\ whole' = whole
  BY DEF StreamInv, ReadSome, fileVars
<1> SUFFICES ASSUME sound PROVE SoundInv'
  BY <1>0 DEF SoundInv
<1>1. Began /\ InOrder /\ mOpen
  BY <1>0 DEF SoundInv, Ended
<1>2. PICK K \in Nat \ {0} : FollowingAt(K)
  BY <1>0, <1>1 DEF SoundInv
<1>3. /\ frame \in Seq(Int) /\ frames \in Seq(Seq(Int))
      /\ mFrameSize \in Nat \ {0} /\ mCnt \in Nat /\ mCnt <= ChunkSize
      /\ mSamples = ChunkSize /\ Len(mData) = ChunkSize /\ ChunkSize \in Nat \ {0}
  BY <1>0, <1>1, ChunkSizeAssumption DEF StreamType, Began
<1>4. /\ pos = At(K, 0) /\ K * ChunkSize = Copied + mCnt
      /\ \A j \in 1..mCnt : mData[ChunkSize - mCnt + j] = Copied + j
      /\ \A k \in 1..Len(frames) : Len(frames[k]) = mFrameSize
  BY <1>0, <1>2 DEF FollowingAt
<1>5. Len(frames) \in Nat /\ Len(frame) \in Nat /\ Copied \in Nat
      /\ Len(frames) * mFrameSize \in Nat
  <2>1. Len(frames) \in Nat /\ Len(frame) \in Nat
    BY <1>3, LenProperties
  <2>2. Len(frames) * mFrameSize \in Nat
    BY <2>1, <1>3
  <2> QED
    BY <2>1, <2>2 DEF Copied
<1>6. CASE Len(frame) = mFrameSize /\ HandOver /\ UNCHANGED <<caller, mCnt>>
  <2>1. /\ frame' = <<>> /\ r' = "test" /\ mCnt' = mCnt
        /\ frames' = IF frame = <<>> THEN frames ELSE Append(frames, frame)
    BY <1>6 DEF HandOver
  <2>2. frame # <<>>
    <3>1. Len(frame) # 0
      BY <1>3, <1>6
    <3> QED
      BY <3>1
  <2>3. /\ Len(frames') = Len(frames) + 1 /\ Len(frame') = 0
        /\ \A k \in 1..Len(frames) : frames'[k] = frames[k]
        /\ frames'[Len(frames) + 1] = frame
    BY <2>1, <2>2, <1>3, HandedOver
  <2>4. InOrder'
    BY <2>1, <1>0, <1>1, InOrderHandedOver
  <2>5. Copied' = Copied
    <3>1. (Len(frames) + 1) * mFrameSize = Len(frames) * mFrameSize + mFrameSize
      BY <1>3, <1>5
    <3>2. Copied' = (Len(frames) + 1) * mFrameSize + 0
      BY <2>3, <1>0 DEF Copied
    <3>3. Copied = Len(frames) * mFrameSize + mFrameSize
      BY <1>6 DEF Copied
    <3> QED
      BY <3>1, <3>2, <3>3, <1>3, <1>5
  <2>6. FollowingAt(K)'
    <3>1. (pos = At(K, IF r = "data" THEN 2 ELSE 0))'
      BY <2>1, <1>0, <1>4 DEF At
    <3>2. ASSUME NEW k \in 1..Len(frames') PROVE Len(frames'[k]) = mFrameSize'
      <4>1. k \in 1..Len(frames) \/ k = Len(frames) + 1
        BY <2>3, <1>5
      <4> QED
        BY <4>1, <2>3, <1>0, <1>4, <1>6
    <3>3. \A j \in 1..mCnt' : mData'[ChunkSize - mCnt' + j] = Copied' + j
      BY <2>1, <2>5, <1>0, <1>4
    <3>4. K * ChunkSize = Copied' + mCnt'
      BY <2>1, <2>5, <1>4
    <3> QED
      BY <3>1, <3>2, <3>3, <3>4, <2>1 DEF FollowingAt
  <2>7. Began'
    BY <2>1, <1>0, <1>1 DEF Began, Opening
  <2> QED
    BY <2>4, <2>6, <2>7, <1>0, <1>1 DEF SoundInv
<1>7. CASE mCnt < 1 /\ CallUnbarf("some") /\ UNCHANGED <<mCnt, frame, frames>>
  <2>1. r' = "head" /\ caller' = "some" /\ mCnt' = 0 /\ mCnt = 0
    BY <1>3, <1>7 DEF CallUnbarf
  <2>2. InOrder'
    BY <1>0, <1>1, <1>7 DEF InOrder, InPlace
  <2>3. Began'
    BY <2>1, <1>0, <1>1 DEF Began, Opening
  <2>4. FollowingAt(K)'
    <3>1. (pos = At(K, IF r = "data" THEN 2 ELSE 0))'
      BY <2>1, <1>0, <1>4 DEF At
    <3>2. Copied' = Copied
      BY <1>0, <1>7 DEF Copied
    <3> QED
      BY <3>1, <3>2, <2>1, <1>0, <1>4, <1>7 DEF FollowingAt
  <2> QED
    BY <2>2, <2>3, <2>4, <1>0, <1>1 DEF SoundInv
<1>8. CASE /\ Len(frame) < mFrameSize /\ mCnt >= 1
           /\ frame' = Append(frame, NextSample) /\ mCnt' = mCnt - 1
           /\ r' = r /\ UNCHANGED <<caller, frames>>
  <2>1. NextSample = Copied + 1
    <3>1. 1 \in 1..mCnt
      BY <1>3, <1>8
    <3> QED
      BY <3>1, <1>3, <1>4 DEF NextSample
  <2>2. /\ Len(frame') = Len(frame) + 1
        /\ \A i \in 1..Len(frame) : frame'[i] = frame[i]
        /\ frame'[Len(frame) + 1] = Copied + 1
    <3>1. NextSample \in Int
      BY <2>1, <1>5
    <3> QED
      BY <3>1, <2>1, <1>3, <1>8, AppendProperties
  <2>3. Copied' = Copied + 1
    <3>1. Copied' = Len(frames) * mFrameSize + (Len(frame) + 1)
      BY <2>2, <1>0, <1>8 DEF Copied
    <3>2. Copied = Len(frames) * mFrameSize + Len(frame)
      BY DEF Copied
    <3> QED
      BY <3>1, <3>2, <1>5
  <2>4. InOrder'
    <3>1. ASSUME NEW i \in 1..Len(frame')
          PROVE  frame'[i] = (Len(frames) + 1 - 1) * mFrameSize + i
      <4>0. Len(frames) + 1 - 1 = Len(frames)
        BY <1>5
      <4>1. CASE i \in 1..Len(frame)
        <5>1. frame[i] = (Len(frames) + 1 - 1) * mFrameSize + i
          BY <4>1, <1>1 DEF InOrder, InPlace
        <5> QED
          BY <5>1, <4>1, <2>2
      <4>2. CASE i = Len(frame) + 1
        <5>1. frame'[i] = Len(frames) * mFrameSize + Len(frame) + 1
          BY <4>2, <2>2 DEF Copied
        <5>2. Len(frames) * mFrameSize + Len(frame) + 1 = Len(frames) * mFrameSize + i
          BY <4>2, <1>5
        <5> QED
          BY <5>1, <5>2, <4>0
      <4> QED
        BY <4>1, <4>2, <2>2, <1>5
    <3>2. InPlace(frame, Len(frames) + 1)'
      BY <3>1, <1>0, <1>8 DEF InPlace
    <3>3. ASSUME NEW k \in 1..Len(frames') PROVE InPlace(frames[k], k)'
      <4>1. InPlace(frames[k], k)
        BY <1>1, <1>8 DEF InOrder
      <4> QED
        BY <4>1, <1>0, <1>8 DEF InPlace
    <3> QED
      BY <3>2, <3>3 DEF InOrder
  <2>5. Began'
    BY <1>0, <1>1, <1>8 DEF Began, Opening
  <2>6. FollowingAt(K)'
    <3>1. (pos = At(K, IF r = "data" THEN 2 ELSE 0))'
      BY <1>0, <1>4, <1>8 DEF At
    <3>2. K * ChunkSize = Copied' + mCnt'
      <4>1. Copied + mCnt = (Copied + 1) + (mCnt - 1)
        BY <1>3, <1>5
      <4> QED
        BY <4>1, <2>3, <1>4, <1>8
    <3>3. ASSUME NEW j \in 1..mCnt'
          PROVE  mData'[ChunkSize - mCnt' + j] = Copied' + j
      <4>1. j + 1 \in 1..mCnt /\ j \in Nat
        BY <1>3, <1>8
      <4>2. mData[ChunkSize - mCnt + (j + 1)] = Copied + (j + 1)
        BY <4>1, <1>4
      <4>3. ChunkSize - mCnt' + j = ChunkSize - mCnt + (j + 1)
        BY <4>1, <1>3, <1>8
      <4>4. Copied' + j = Copied + (j + 1)
        BY <4>1, <2>3, <1>5
      <4> QED
        BY <4>2, <4>3, <4>4, <1>0
    <3>4. r' = "some"
      BY <1>0, <1>8
    <3> QED
      BY <3>1, <3>2, <3>3, <3>4, <1>0, <1>4, <1>8 DEF FollowingAt
  <2> QED
    BY <2>4, <2>5, <2>6, <1>0, <1>1 DEF SoundInv
<1>9. mData # <<>>
  BY <1>3
<1> QED
  BY <1>6, <1>7, <1>8, <1>9 DEF ReadSome

LEMMA SoundStep == StreamInv /\ [Next]_vars => SoundInv'
<1> SUFFICES ASSUME StreamInv, [Next]_vars PROVE SoundInv'
  OBVIOUS
<1>0. StreamType /\ OpeningInv /\ SoundInv
  BY DEF StreamInv
<1>1. CASE \/ Deliver \/ Barf \/ UNCHANGED vars
  <2>1. UNCHANGED <<streamVars, r, caller, frame, frames, sound, whole>>
    BY <1>1 DEF Deliver, Barf, vars
  <2>2. UNCHANGED <<mOpen, mCnt, mFrameSize, mSamples, mData, pos>>
    BY <2>1 DEF streamVars
  <2>3. Began' = Began /\ InOrder' = InOrder
    BY <2>1, <2>2 DEF Began, Opening, InOrder, InPlace
  <2>4. Ended' = Ended
    BY <2>1, <2>2 DEF Ended, AllRead
  <2>5. \A K \in Nat \ {0} : FollowingAt(K)' = FollowingAt(K)
    BY <2>1, <2>2 DEF FollowingAt, Copied, At
  <2> QED
    BY <2>1, <2>2, <2>3, <2>4, <2>5, <1>0 DEF SoundInv
<1>2. CASE Open \/ ReadHeader
  <2>1. ~sound /\ sound' = sound
    BY <1>0, <1>2 DEF Open, ReadHeader, OpeningInv, Opening
  <2> QED
    BY <2>1 DEF SoundInv
<1>3. CASE UnbarfHead
  BY <1>3, HeadSound
<1>4. CASE UnbarfData
  BY <1>4, DataSound
<1>5. CASE Test
  <2> SUFFICES ASSUME sound' PROVE SoundInv'
    BY DEF SoundInv
  <2>1. /\ r = "test"
        /\ UNCHANGED <<mOpen, mCnt, mFrameSize, mSamples, mData, pos, frame, frames,
                       sound, whole>>
        /\ \/ mOpen /\ mCnt < 1 /\ r' = "head" /\ caller' = "test"
           \/ mOpen /\ r' = "some" /\ caller' = caller
           \/ ~mOpen /\ r' = "done" /\ caller' = caller
    BY <1>5 DEF Test, CallUnbarf, streamVars
  <2>2. Began /\ InOrder /\ frame = <<>>
    BY <2>1, <1>0 DEF SoundInv, Began
  <2>3. Began' /\ InOrder'
    BY <2>1, <2>2 DEF Began, Opening, InOrder, InPlace
  <2>4. CASE mOpen
    <3>1. PICK K \in Nat \ {0} : FollowingAt(K)
      BY <2>1, <2>4, <1>0 DEF SoundInv
    <3>2. mCnt \in Nat
      BY <1>0 DEF StreamType
    <3>3. FollowingAt(K)'
      BY <2>1, <2>4, <3>1, <3>2 DEF FollowingAt, Copied, At
    <3> QED
      BY <3>3, <2>1, <2>3, <2>4 DEF SoundInv
  <2>5. CASE ~mOpen
    <3>1. Ended
      BY <2>1, <2>5, <1>0 DEF SoundInv
    <3>2. Ended'
      BY <3>1, <2>1, <2>5 DEF Ended, AllRead
    <3> QED
      BY <3>2, <2>1, <2>3, <2>5 DEF SoundInv
  <2> QED
    BY <2>4, <2>5
<1>6. CASE ReadSome
  BY <1>6, SomeSound
<1> QED
  BY <1>1, <1>2, <1>3, <1>4, <1>5, <1>6 DEF Next, Radio, Stream

-----------------------------------------------------------------------------
(* The theorems.                                                           *)

LEMMA StreamInvInit == Init => StreamInv
<1> SUFFICES ASSUME Init PROVE StreamInv
  OBVIOUS
<1>1. FileInv
  BY FileInit
<1>2. StreamType
  <2>1. /\ r = "closed" /\ caller = "ctor" /\ pos = 0 /\ option \in FrameSizes
        /\ mOpen = FALSE /\ mCnt = 0 /\ mFrameSize = 0 /\ mSamples = 0 /\ mData = <<>>
        /\ frame = <<>> /\ frames = <<>> /\ sound = FALSE /\ whole = FALSE
        /\ file = <<>>
    BY DEF Init
  <2>2. /\ mData \in Seq(Int) /\ Len(mData) = 0
        /\ frame \in Seq(Int) /\ Len(frame) = 0
        /\ frames \in Seq(Seq(Int))
        /\ Len(file) = 0
    BY <2>1, EmptySeq
  <2>3. /\ r \in Reader /\ caller \in {"ctor", "test", "some"} /\ r # "data"
        /\ option \in Nat
    BY <2>1, FrameSizesAssumption DEF Reader
  <2>4. /\ mOpen \in BOOLEAN /\ sound \in BOOLEAN /\ whole \in BOOLEAN
    BY <2>1
  <2> QED
    BY <2>1, <2>2, <2>3, <2>4 DEF StreamType
<1>3. OpeningInv /\ WholeInv /\ SoundInv
  BY DEF Init, OpeningInv, Opening, WholeInv, SoundInv
<1> QED
  BY <1>1, <1>2, <1>3 DEF StreamInv

LEMMA StreamInvStep == StreamInv /\ [Next]_vars => StreamInv'
<1> SUFFICES ASSUME StreamInv, [Next]_vars PROVE StreamInv'
  OBVIOUS
<1>1. FileInv'
  BY FileStep DEF StreamInv
<1>2. StreamType' /\ OpeningInv' /\ WholeInv' /\ SoundInv'
  BY TypeStep, OpeningStep, WholeStep, SoundStep
<1> QED
  BY <1>1, <1>2 DEF StreamInv

LEMMA StreamInvAlways == Spec => []StreamInv
BY StreamInvInit, StreamInvStep, PTL DEF Spec

\* Whatever part of a write has reached the file whenever the tool reads, and
\* wherever the radio stops for good: the samples of the frames are those of the
\* file, in order and without a gap, the stream never loses its place, and of a
\* complete file it delivers all (readSome, operator int, unbarf, barf).
THEOREM StreamSamplesInOrder == Spec => []SamplesInOrder
<1>1. StreamInv => SamplesInOrder
  <2> SUFFICES ASSUME StreamInv PROVE SamplesInOrder
    OBVIOUS
  <2>1. StreamType /\ SoundInv
    BY DEF StreamInv
  <2>2. mCnt \in 0..mSamples /\ Len(mData) \in {0, ChunkSize} /\ Len(frame) <= mFrameSize
    BY <2>1, ChunkSizeAssumption DEF StreamType
  <2>3. sound => /\ r # "lost"
                 /\ \A k \in 1..Len(frames) : InPlace(frames[k], k)
                 /\ InPlace(frame, Len(frames) + 1)
    BY <2>1 DEF SoundInv, Began, InOrder
  <2>4. sound /\ whole /\ r = "done" => AllRead
    BY <2>1 DEF SoundInv, Began, Ended
  <2> QED
    BY <2>2, <2>3, <2>4 DEF SamplesInOrder
<1> QED
  BY <1>1, StreamInvAlways, PTL

\* For chunks and frames of every size: only the last frame can be short, at the
\* end of the stream, and only if the frame does not divide the chunk (readSome).
THEOREM StreamFramesWhole == Spec => []FramesWhole
<1>1. StreamInv => FramesWhole
  <2> SUFFICES ASSUME StreamInv, sound PROVE \A k \in 1..Len(frames) :
             \/ Len(frames[k]) = mFrameSize
             \/ k = Len(frames) /\ ~mOpen /\ ChunkSize % mFrameSize # 0
    BY DEF FramesWhole
  <2>1. CASE mOpen
    BY <2>1 DEF StreamInv, SoundInv, FollowingAt
  <2>2. CASE ~mOpen
    BY <2>2 DEF StreamInv, SoundInv, Ended
  <2> QED
    BY <2>1, <2>2
<1> QED
  BY <1>1, StreamInvAlways, PTL
=============================================================================
