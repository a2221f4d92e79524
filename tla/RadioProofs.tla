---------------------------- MODULE RadioProofs -----------------------------
(***************************************************************************)
(* The pool of frame buffers, proved for every number of buffers, every    *)
(* set of requests and any bound on the frames of a behaviour; and the     *)
(* radio above it, for every set of receivers and every failure of the     *)
(* library.                                                                *)
(***************************************************************************)
EXTENDS Radio, SequenceTheorems, TLAPS

-----------------------------------------------------------------------------
(* Queues.                                                                 *)

\* What a push (Append) does to the members of a queue.
LEMMA PushMembers ==
  ASSUME NEW S, NEW q \in Seq(S), NEW x \in S, NEW b
  PROVE  /\ Append(q, x) \in Seq(S)
         /\ Len(Append(q, x)) = Len(q) + 1
         /\ IsIn(b, Append(q, x)) <=> IsIn(b, q) \/ b = x
<1>1. Append(q, x) \in Seq(S) /\ Len(Append(q, x)) = Len(q) + 1
  OBVIOUS
<1>2. \A i \in 1..Len(q) : Append(q, x)[i] = q[i]
  OBVIOUS
<1>3. Append(q, x)[Len(q) + 1] = x
  OBVIOUS
<1>4. Len(q) \in Nat
  OBVIOUS
<1>5. 1..(Len(q) + 1) = (1..Len(q)) \cup {Len(q) + 1}
  BY <1>4
<1>6. QED
  BY <1>1, <1>2, <1>3, <1>5 DEF IsIn

\* What a front() followed by a pop() (Head and Tail) does to the members.
LEMMA PopMembers ==
  ASSUME NEW S, NEW q \in Seq(S), q # <<>>, NEW b
  PROVE  /\ Head(q) \in S
         /\ Tail(q) \in Seq(S)
         /\ Len(q) >= 1
         /\ Len(Tail(q)) = Len(q) - 1
         /\ \A i \in 1..Len(Tail(q)) : Tail(q)[i] = q[i + 1]
         /\ IsIn(b, q) <=> b = Head(q) \/ IsIn(b, Tail(q))
<1>1. /\ Head(q) \in S
      /\ Tail(q) \in Seq(S)
      /\ Len(q) \in Nat
      /\ Len(q) >= 1
      /\ Len(Tail(q)) = Len(q) - 1
      /\ Head(q) = q[1]
  OBVIOUS
<1>2. \A i \in 1..Len(Tail(q)) : Tail(q)[i] = q[i + 1]
  OBVIOUS
<1>3. ASSUME IsIn(b, q) PROVE b = Head(q) \/ IsIn(b, Tail(q))
  <2>1. PICK i \in 1..Len(q) : q[i] = b
    BY <1>3 DEF IsIn
  <2>2. CASE i = 1
    BY <2>1, <2>2, <1>1
  <2>3. CASE i # 1
    <3>1. i - 1 \in 1..Len(Tail(q)) /\ (i - 1) + 1 = i
      BY <2>1, <2>3, <1>1
    <3>2. Tail(q)[i - 1] = b
      BY <3>1, <2>1, <1>2
    <3>3. QED
      BY <3>1, <3>2 DEF IsIn
  <2>4. QED
    BY <2>2, <2>3
<1>4. ASSUME b = Head(q) \/ IsIn(b, Tail(q)) PROVE IsIn(b, q)
  <2>1. CASE b = Head(q)
    BY <2>1, <1>1 DEF IsIn
  <2>2. CASE IsIn(b, Tail(q))
    <3>1. PICK i \in 1..Len(Tail(q)) : Tail(q)[i] = b
      BY <2>2 DEF IsIn
    <3>2. i + 1 \in 1..Len(q) /\ q[i + 1] = b
      BY <3>1, <1>1, <1>2
    <3>3. QED
      BY <3>2 DEF IsIn
  <2>3. QED
    BY <1>4, <2>1, <2>2
<1>5. QED
  BY <1>1, <1>2, <1>3, <1>4

\* A queue without repetition stays so when something new is pushed.
LEMMA PushNoRepeat ==
  ASSUME NEW S, NEW q \in Seq(S), NEW x \in S, NoRepeat(q), ~IsIn(x, q)
  PROVE  NoRepeat(Append(q, x))
<1>1. /\ \A i \in 1..Len(q) : Append(q, x)[i] = q[i] /\ q[i] # x
      /\ Append(q, x)[Len(q) + 1] = x
      /\ Len(Append(q, x)) = Len(q) + 1
      /\ Len(q) \in Nat
  BY DEF IsIn
<1>2. QED
  BY <1>1 DEF NoRepeat

\* A queue without repetition stays so after a pop, and what was popped is
\* gone from it.
LEMMA PopNoRepeat ==
  ASSUME NEW S, NEW q \in Seq(S), q # <<>>, NoRepeat(q)
  PROVE  NoRepeat(Tail(q)) /\ ~IsIn(Head(q), Tail(q))
<1>1. /\ Len(q) \in Nat
      /\ Len(q) >= 1
      /\ Len(Tail(q)) = Len(q) - 1
      /\ Head(q) = q[1]
      /\ \A i \in 1..Len(Tail(q)) : Tail(q)[i] = q[i + 1] /\ i + 1 \in 1..Len(q)
  OBVIOUS
<1>2. QED
  BY <1>1 DEF NoRepeat, IsIn

-----------------------------------------------------------------------------
(* Type correctness.                                                       *)

\* Every variable of the pool stays in its type: in particular the number of
\* bytes in the pipe and of bytes still to serve never becomes negative.
\* The second conjunct is what the type of todo rests on.
TypeInv ==
  /\ PoolTypeOK
  /\ wrBuffer # NoBuffer => todo >= 1

THEOREM PoolTypeCorrect == PoolSpec => []PoolTypeOK
<1>1. PoolInit => TypeInv
  <2>1. ASSUME PoolInit PROVE TypeInv
    <3>1. [n \in Buffer |-> n] \in Seq(Buffer)
      BY BuffCountAssumption DEF Buffer
    <3>2. QED
      BY <2>1, <3>1 DEF PoolInit, TypeInv, PoolTypeOK, BufferQueue, NoBuffer
  <2>2. QED
    BY <2>1
<1>2. TypeInv /\ [PoolNext]_poolVars => TypeInv'
  <2> SUFFICES ASSUME TypeInv, [PoolNext]_poolVars
               PROVE  TypeInv'
    OBVIOUS
  <2> USE BuffCountAssumption, RequestsAssumption DEF TypeInv, PoolTypeOK, BufferQueue
  <2>1. CASE GetFreeBuffer
    BY <2>1 DEF GetFreeBuffer
  <2>2. CASE YieldFreeBuffer
    BY <2>2 DEF YieldFreeBuffer
  <2>3. CASE ReadPipe
    BY <2>3 DEF ReadPipe, Smaller
  <2>4. CASE GetFullBuffer
    <3>1. CASE mFull = <<>>
      BY <2>4, <3>1 DEF GetFullBuffer
    <3>2. CASE mFull # <<>>
      <4>1. Head(mFull) \in Buffer /\ Tail(mFull) \in Seq(Buffer)
        BY <3>2, PopMembers
      <4>2. QED
        BY <2>4, <3>2, <4>1 DEF GetFullBuffer
    <3>3. QED
      BY <3>1, <3>2
  <2>5. CASE WriteAndYield
    BY <2>5 DEF WriteAndYield
  <2>6. CASE EndPass
    BY <2>6 DEF EndPass
  <2>7. CASE \E n \in Requests : Collect(n)
    BY <2>7 DEF Collect, InFlight, Held
  <2>8. CASE Cancel
    BY <2>8 DEF Cancel, InFlight, Held
  <2>9. CASE UNCHANGED poolVars
    BY <2>9 DEF poolVars
  <2>10. QED
    BY <2>1, <2>2, <2>3, <2>4, <2>5, <2>6, <2>7, <2>8, <2>9
       DEF PoolNext, StreamThread, BufferComplete
<1>3. QED
  BY <1>1, <1>2, PTL DEF PoolSpec, TypeInv
-----------------------------------------------------------------------------
(* Where the buffers are.                                                  *)

\* OneHolder and NoneLost hold each other up: together they say that the four
\* places a buffer can be in partition the set of buffers.
PlacesInv == PoolTypeOK /\ OneHolder /\ NoneLost

LEMMA PlacesInit == PoolInit => OneHolder /\ NoneLost
<1> SUFFICES ASSUME PoolInit PROVE OneHolder /\ NoneLost
  OBVIOUS
<1>1. /\ mFree = [n \in Buffer |-> n]
      /\ Len(mFree) = BuffCount
      /\ mFull = <<>>
      /\ Len(mFull) = 0
      /\ cbBuffer = NoBuffer
      /\ wrBuffer = NoBuffer
  BY BuffCountAssumption DEF PoolInit, Buffer
<1>2. NoRepeat(mFree) /\ \A b \in Buffer : IsIn(b, mFree)
  BY <1>1 DEF NoRepeat, IsIn, Buffer
<1>3. NoRepeat(mFull) /\ \A b \in Buffer : ~IsIn(b, mFull)
  BY <1>1 DEF NoRepeat, IsIn
<1>4. QED
  BY <1>1, <1>2, <1>3 DEF OneHolder, NoneLost

LEMMA PlacesStep ==
  PlacesInv /\ [PoolNext]_poolVars => OneHolder' /\ NoneLost'
<1> SUFFICES ASSUME PlacesInv, [PoolNext]_poolVars
             PROVE  OneHolder' /\ NoneLost'
  OBVIOUS
<1>0. /\ mFree \in Seq(Buffer)
      /\ mFull \in Seq(Buffer)
      /\ cbBuffer \in Buffer \cup {NoBuffer}
      /\ wrBuffer \in Buffer \cup {NoBuffer}
      /\ NoBuffer \notin Buffer
  BY DEF PlacesInv, PoolTypeOK, BufferQueue, NoBuffer, Buffer
<1>1. CASE GetFreeBuffer
  <2>1. /\ Head(mFree) \in Buffer
        /\ \A b : IsIn(b, mFree) <=> b = Head(mFree) \/ IsIn(b, Tail(mFree))
    BY <1>0, <1>1, PopMembers DEF GetFreeBuffer
  <2>2. NoRepeat(Tail(mFree)) /\ ~IsIn(Head(mFree), Tail(mFree))
    BY <1>0, <1>1, PopNoRepeat DEF GetFreeBuffer, PlacesInv, OneHolder
  <2>3. QED
    BY <1>0, <1>1, <2>1, <2>2 DEF GetFreeBuffer, PlacesInv, OneHolder, NoneLost
<1>2. CASE YieldFreeBuffer
  <2>1. \A b : IsIn(b, Append(mFull, cbBuffer)) <=> IsIn(b, mFull) \/ b = cbBuffer
    BY <1>0, <1>2, PushMembers DEF YieldFreeBuffer
  <2>2. NoRepeat(Append(mFull, cbBuffer))
    BY <1>0, <1>2, PushNoRepeat DEF YieldFreeBuffer, PlacesInv, OneHolder
  <2>3. QED
    BY <1>0, <1>2, <2>1, <2>2 DEF YieldFreeBuffer, PlacesInv, OneHolder, NoneLost
<1>3. CASE GetFullBuffer
  <2>1. CASE mFull = <<>>
    BY <1>3, <2>1 DEF GetFullBuffer, PlacesInv, OneHolder, NoneLost
  <2>2. CASE mFull # <<>>
    <3>1. /\ Head(mFull) \in Buffer
          /\ \A b : IsIn(b, mFull) <=> b = Head(mFull) \/ IsIn(b, Tail(mFull))
      BY <1>0, <2>2, PopMembers
    <3>2. NoRepeat(Tail(mFull)) /\ ~IsIn(Head(mFull), Tail(mFull))
      BY <1>0, <2>2, PopNoRepeat DEF PlacesInv, OneHolder
    <3>3. QED
      BY <1>0, <1>3, <2>2, <3>1, <3>2
         DEF GetFullBuffer, PlacesInv, OneHolder, NoneLost
  <2>3. QED
    BY <2>1, <2>2
<1>4. CASE WriteAndYield
  <2>1. \A b : IsIn(b, Append(mFree, wrBuffer)) <=> IsIn(b, mFree) \/ b = wrBuffer
    BY <1>0, <1>4, PushMembers DEF WriteAndYield
  <2>2. NoRepeat(Append(mFree, wrBuffer))
    BY <1>0, <1>4, PushNoRepeat DEF WriteAndYield, PlacesInv, OneHolder
  <2>3. QED
    BY <1>0, <1>4, <2>1, <2>2 DEF WriteAndYield, PlacesInv, OneHolder, NoneLost
<1>5. ASSUME UNCHANGED <<mFree, mFull, cbBuffer, wrBuffer>>
      PROVE  OneHolder' /\ NoneLost'
  BY <1>5 DEF PlacesInv, OneHolder, NoneLost
<1>6. QED
  BY <1>1, <1>2, <1>3, <1>4, <1>5
     DEF PoolNext, StreamThread, BufferComplete, ReadPipe, EndPass, Collect,
         Cancel, poolVars

\* No buffer is ever in two hands: what the stream thread fills is not in a
\* queue and not what the server thread writes to the file.
THEOREM PoolOneHolder == PoolSpec => []OneHolder
<1>1. PoolTypeOK /\ (OneHolder /\ NoneLost) /\ [PoolNext]_poolVars
        => (OneHolder /\ NoneLost)'
  BY PlacesStep DEF PlacesInv
<1>2. QED
  BY PlacesInit, <1>1, PoolTypeCorrect, PTL DEF PoolSpec

\* No buffer ever leaves the pool for good.
THEOREM PoolNoneLost == PoolSpec => []NoneLost
<1>1. PoolTypeOK /\ (OneHolder /\ NoneLost) /\ [PoolNext]_poolVars
        => (OneHolder /\ NoneLost)'
  BY PlacesStep DEF PlacesInv
<1>2. QED
  BY PlacesInit, <1>1, PoolTypeCorrect, PTL DEF PoolSpec
-----------------------------------------------------------------------------
(* How many there are.                                                     *)

\* The counts behind TokenBalance.  The first conjunct counts the buffers, the
\* last two say where the server thread is: bytes it has read and not served
\* exist, and a buffer is in its hands, only inside onBufferComplete.
CountInv ==
  /\ Len(mFree) + InFlight = BuffCount
  /\ TokenBalance
  /\ svc = "select" => todo = 0 /\ wrBuffer = NoBuffer
  /\ wrBuffer # NoBuffer => todo >= 1

LEMMA HeldValue ==
  /\ Held(NoBuffer) = 0
  /\ \A b \in Buffer : Held(b) = 1
  /\ NoBuffer \notin Buffer
BY DEF Held, NoBuffer, Buffer

LEMMA CountInit == PoolInit => CountInv
<1>1. ASSUME PoolInit PROVE Len(mFree) = BuffCount /\ Len(mFull) = 0
  BY <1>1, BuffCountAssumption DEF PoolInit, Buffer
<1>2. QED
  BY <1>1, BuffCountAssumption
     DEF PoolInit, CountInv, TokenBalance, InFlight, Held

LEMMA CountStep ==
  PoolTypeOK /\ CountInv /\ [PoolNext]_poolVars => CountInv'
<1> SUFFICES ASSUME PoolTypeOK, CountInv, [PoolNext]_poolVars
             PROVE  CountInv'
  OBVIOUS
<1>0. /\ mFree \in Seq(Buffer)
      /\ mFull \in Seq(Buffer)
      /\ cbBuffer \in Buffer \cup {NoBuffer}
      /\ wrBuffer \in Buffer \cup {NoBuffer}
  BY DEF PoolTypeOK, BufferQueue
<1>n. /\ Len(mFree) \in Nat
      /\ Len(mFull) \in Nat
      /\ BuffCount \in Nat \ {0}
      /\ pipe \in Nat
      /\ todo \in Nat
      /\ Held(cbBuffer) \in Nat
      /\ Held(wrBuffer) \in Nat
  BY <1>0, BuffCountAssumption, HeldValue DEF PoolTypeOK
<1> USE DEF CountInv, TokenBalance, InFlight
<1>1. CASE GetFreeBuffer
  <2>1. /\ Head(mFree) \in Buffer
        /\ Len(mFree) >= 1
        /\ Len(mFree') = Len(mFree) - 1
    BY <1>0, <1>1, PopMembers DEF GetFreeBuffer
  <2>2. Held(cbBuffer) = 0 /\ Held(cbBuffer') = 1
    BY <1>1, <2>1, HeldValue DEF GetFreeBuffer
  <2>3. QED
    BY <1>n, <1>1, <2>1, <2>2 DEF GetFreeBuffer
<1>2. CASE YieldFreeBuffer
  <2>1. Len(mFull') = Len(mFull) + 1
    BY <1>0, <1>2, PushMembers DEF YieldFreeBuffer
  <2>2. Held(cbBuffer) = 1 /\ Held(cbBuffer') = 0
    BY <1>0, <1>2, HeldValue DEF YieldFreeBuffer
  <2>3. Held(wrBuffer') = Held(wrBuffer) /\ Len(mFree') = Len(mFree)
    BY <1>2 DEF YieldFreeBuffer
  <2>4. (Len(mFree) + InFlight = BuffCount)'
    BY <1>n, <2>1, <2>2, <2>3
  <2>5. pipe' = pipe + 1 /\ todo' = todo /\ svc' = svc /\ wrBuffer' = wrBuffer
    BY <1>2 DEF YieldFreeBuffer
  <2>6. QED
    BY <1>n, <2>1, <2>2, <2>3, <2>4, <2>5
<1>3. CASE ReadPipe
  BY <1>n, <1>3 DEF ReadPipe, Smaller
<1>4. CASE GetFullBuffer
  <2>1. Held(wrBuffer) = 0
    BY <1>4, HeldValue DEF GetFullBuffer
  <2>2. mFull # <<>>
    <3>1. SUFFICES ASSUME mFull = <<>> PROVE FALSE
      OBVIOUS
    <3>2. Len(mFull) = 0
      BY <3>1
    <3>3. QED
      BY <1>n, <1>4, <2>1, <3>2 DEF GetFullBuffer
  <2>3. Head(mFull) \in Buffer /\ Len(Tail(mFull)) = Len(mFull) - 1
    BY <1>0, <2>2, PopMembers
  <2>4. Len(mFull') = Len(mFull) - 1 /\ Held(wrBuffer') = 1
    BY <1>4, <2>2, <2>3, HeldValue DEF GetFullBuffer
  <2>5. QED
    BY <1>n, <1>4, <2>1, <2>2, <2>4 DEF GetFullBuffer
<1>5. CASE WriteAndYield
  <2>1. Len(mFree') = Len(mFree) + 1
    BY <1>0, <1>5, PushMembers DEF WriteAndYield
  <2>2. Held(wrBuffer) = 1 /\ Held(wrBuffer') = 0
    BY <1>0, <1>5, HeldValue DEF WriteAndYield
  <2>3. /\ Held(cbBuffer') = Held(cbBuffer)
        /\ Len(mFull') = Len(mFull)
        /\ pipe' = pipe
        /\ todo' = todo - 1
        /\ wrBuffer # NoBuffer
        /\ wrBuffer' = NoBuffer
        /\ svc' = svc
    BY <1>5 DEF WriteAndYield
  <2>4. (Len(mFree) + InFlight = BuffCount)'
    BY <1>n, <2>1, <2>2, <2>3
  <2>5. QED
    BY <1>n, <2>1, <2>2, <2>3, <2>4
<1>6. CASE EndPass
  <2>1. wrBuffer = NoBuffer
    BY <1>6 DEF EndPass
  <2>2. QED
    BY <1>n, <1>6, <2>1 DEF EndPass
<1>7. ASSUME UNCHANGED <<mFree, mFull, pipe, todo, cbBuffer, wrBuffer, svc>>
      PROVE  CountInv'
  BY <1>7
<1>8. QED
  BY <1>1, <1>2, <1>3, <1>4, <1>5, <1>6, <1>7
     DEF PoolNext, StreamThread, BufferComplete, Collect, Cancel, poolVars

\* There is one wake-up byte per waiting buffer, so the server thread never
\* takes from an empty queue, forgets no buffer, and the stream thread never
\* blocks in write() with the mutex held.
THEOREM PoolTokenBalance == PoolSpec => []TokenBalance
<1>1. PoolInit => CountInv
  BY CountInit
<1>2. CountInv => TokenBalance
  BY DEF CountInv
<1>3. QED
  BY <1>1, <1>2, CountStep, PoolTypeCorrect, PTL DEF PoolSpec

\* The frames to take, in flight and in the file add up to what the file is
\* owed, whatever the interleaving of the two threads.
THEOREM PoolFramesAccounted == PoolSpec => []FramesAccounted
<1>1. PoolInit => FramesAccounted
  BY DEF PoolInit, FramesAccounted, InFlight, Held
<1>2. PoolTypeOK /\ FramesAccounted /\ [PoolNext]_poolVars => FramesAccounted'
  <2> SUFFICES ASSUME PoolTypeOK, FramesAccounted, [PoolNext]_poolVars
               PROVE  FramesAccounted'
    OBVIOUS
  <2>0. /\ mFree \in Seq(Buffer)
        /\ mFull \in Seq(Buffer)
        /\ file \in Seq(Nat)
        /\ mFirstFrame \in [Buffer -> Nat]
        /\ cbBuffer \in Buffer \cup {NoBuffer}
        /\ wrBuffer \in Buffer \cup {NoBuffer}
    BY DEF PoolTypeOK, BufferQueue
  <2>n. /\ Len(mFull) \in Nat
        /\ Len(file) \in Nat
        /\ mFrameCounter \in Int
        /\ Held(cbBuffer) \in Nat
        /\ Held(wrBuffer) \in Nat
    BY <2>0, HeldValue DEF PoolTypeOK
  <2> USE DEF FramesAccounted, InFlight
  <2>1. CASE GetFreeBuffer
    <3>1. Held(cbBuffer) = 0 /\ Held(cbBuffer') = 1
      BY <2>0, <2>1, PopMembers, HeldValue DEF GetFreeBuffer
    <3>2. /\ mFrameCounter' = mFrameCounter - 1
          /\ Len(mFull') = Len(mFull)
          /\ Len(file') = Len(file)
          /\ Held(wrBuffer') = Held(wrBuffer)
          /\ owed' = owed
      BY <2>1 DEF GetFreeBuffer
    <3>3. QED
      BY <2>n, <3>1, <3>2
  <2>2. CASE YieldFreeBuffer
    <3>1. Len(mFull') = Len(mFull) + 1
      BY <2>0, <2>2, PushMembers DEF YieldFreeBuffer
    <3>2. Held(cbBuffer) = 1 /\ Held(cbBuffer') = 0
      BY <2>0, <2>2, HeldValue DEF YieldFreeBuffer
    <3>3. QED
      BY <2>n, <2>2, <3>1, <3>2 DEF YieldFreeBuffer
  <2>3. CASE GetFullBuffer
    <3>1. CASE mFull = <<>>
      BY <2>3, <3>1 DEF GetFullBuffer
    <3>2. CASE mFull # <<>>
      <4>1. Head(mFull) \in Buffer /\ Len(Tail(mFull)) = Len(mFull) - 1
        BY <2>0, <3>2, PopMembers
      <4>2. /\ Len(mFull') = Len(mFull) - 1
            /\ Held(wrBuffer) = 0
            /\ Held(wrBuffer') = 1
        BY <2>3, <3>2, <4>1, HeldValue DEF GetFullBuffer
      <4>3. QED
        BY <2>n, <2>3, <4>2 DEF GetFullBuffer
    <3>3. QED
      BY <3>1, <3>2
  <2>4. CASE WriteAndYield
    <3>1. Len(file') = Len(file) + 1
      BY <2>0, <2>4, PushMembers DEF WriteAndYield
    <3>2. Held(wrBuffer) = 1 /\ Held(wrBuffer') = 0
      BY <2>0, <2>4, HeldValue DEF WriteAndYield
    <3>3. /\ mFrameCounter' = mFrameCounter
          /\ Len(mFull') = Len(mFull)
          /\ Held(cbBuffer') = Held(cbBuffer)
          /\ owed' = owed
      BY <2>4 DEF WriteAndYield
    <3>4. QED
      BY <2>n, <3>1, <3>2, <3>3
  <2>5. CASE \E n \in Requests : Collect(n)
    <3>1. PICK n \in Requests : Collect(n)
      BY <2>5
    <3>2. n \in Int /\ Len(file') = 0
      BY <3>1, RequestsAssumption DEF Collect
    <3>3. QED
      BY <2>n, <3>1, <3>2 DEF Collect
  <2>6. CASE Cancel
    BY <2>n, <2>6 DEF Cancel
  <2>7. ASSUME UNCHANGED <<mFull, mFrameCounter, cbBuffer, wrBuffer, file, owed>>
        PROVE  FramesAccounted'
    BY <2>7
  <2>8. QED
    BY <2>1, <2>2, <2>3, <2>4, <2>5, <2>6, <2>7
       DEF PoolNext, StreamThread, BufferComplete, ReadPipe, EndPass, poolVars
<1>3. QED
  BY <1>1, <1>2, PoolTypeCorrect, PTL DEF PoolSpec
-----------------------------------------------------------------------------
(* In which order.                                                         *)

LEMMA OrderStep ==
  PoolTypeOK /\ OneHolder /\ FileInOrder /\ [PoolNext]_poolVars => FileInOrder'
<1> SUFFICES ASSUME PoolTypeOK, OneHolder, FileInOrder, [PoolNext]_poolVars
             PROVE  FileInOrder'
  OBVIOUS
<1>0. /\ mFull \in Seq(Buffer)
      /\ file \in Seq(Nat)
      /\ mFirstFrame \in [Buffer -> Nat]
      /\ cbBuffer \in Buffer \cup {NoBuffer}
      /\ wrBuffer \in Buffer \cup {NoBuffer}
  BY DEF PoolTypeOK, BufferQueue
<1>n. /\ Len(mFull) \in Nat
      /\ Len(file) \in Nat
      /\ sample \in Nat
      /\ Held(wrBuffer) \in Nat
  BY <1>0, HeldValue DEF PoolTypeOK
<1>1. CASE YieldFreeBuffer
  <2>1. /\ Len(mFull') = Len(mFull) + 1
        /\ mFull'[Len(mFull) + 1] = cbBuffer
        /\ \A i \in 1..Len(mFull) : mFull'[i] = mFull[i]
    BY <1>0, <1>1 DEF YieldFreeBuffer
  <2>2. /\ mFirstFrame'[cbBuffer] = sample
        /\ \A b \in Buffer : b # cbBuffer => mFirstFrame'[b] = mFirstFrame[b]
        /\ sample' = sample + 1
        /\ file' = file
        /\ wrBuffer' = wrBuffer
        /\ Held(wrBuffer') = Held(wrBuffer)
    BY <1>0, <1>1 DEF YieldFreeBuffer
  <2>3. /\ \A i \in 1..Len(mFull) : mFull[i] \in Buffer /\ mFull[i] # cbBuffer
        /\ wrBuffer # cbBuffer
    BY <1>0, <1>1 DEF YieldFreeBuffer, OneHolder, IsIn
  <2>4. \A i \in 1..Len(mFull') :
          mFirstFrame'[mFull'[i]] = sample' - Len(mFull') + i - 1
    <3>1. SUFFICES ASSUME NEW i \in 1..Len(mFull')
                   PROVE  mFirstFrame'[mFull'[i]] = sample' - Len(mFull') + i - 1
      OBVIOUS
    <3>2. CASE i = Len(mFull) + 1
      BY <1>n, <3>2, <2>1, <2>2
    <3>3. CASE i \in 1..Len(mFull)
      <4>1. mFirstFrame'[mFull'[i]] = sample - Len(mFull) + i - 1
        BY <3>3, <2>1, <2>2, <2>3 DEF FileInOrder
      <4>2. QED
        BY <1>n, <3>3, <4>1, <2>1, <2>2
    <3>4. QED
      BY <1>n, <2>1, <3>1, <3>2, <3>3
  <2>5. wrBuffer' # NoBuffer =>
          mFirstFrame'[wrBuffer'] = sample' - Len(mFull') - 1
    <3>1. SUFFICES ASSUME wrBuffer # NoBuffer
                   PROVE  mFirstFrame'[wrBuffer] = sample' - Len(mFull') - 1
      BY <2>2
    <3>2. mFirstFrame'[wrBuffer] = sample - Len(mFull) - 1
      BY <1>0, <3>1, <2>2, <2>3 DEF FileInOrder
    <3>3. QED
      BY <1>n, <3>2, <2>1, <2>2
  <2>6. \A i \in 1..Len(file') :
          file'[i] = sample' - Len(mFull') - Held(wrBuffer') - Len(file') + i - 1
    BY <1>n, <2>1, <2>2 DEF FileInOrder
  <2>7. QED
    BY <2>4, <2>5, <2>6 DEF FileInOrder
<1>2. CASE GetFullBuffer
  <2>1. CASE mFull = <<>>
    BY <1>2, <2>1 DEF GetFullBuffer, FileInOrder
  <2>2. CASE mFull # <<>>
    <3>1. /\ mFull' = Tail(mFull)
          /\ wrBuffer' = Head(mFull)
          /\ wrBuffer = NoBuffer
          /\ mFirstFrame' = mFirstFrame
          /\ sample' = sample
          /\ file' = file
      BY <1>2, <2>2 DEF GetFullBuffer
    <3>2. /\ Len(mFull) >= 1
          /\ Len(mFull') = Len(mFull) - 1
          /\ wrBuffer' = mFull[1]
          /\ wrBuffer' \in Buffer
          /\ \A i \in 1..Len(mFull') : mFull'[i] = mFull[i + 1]
      BY <1>0, <2>2, <3>1, PopMembers
    <3>3. Held(wrBuffer) = 0 /\ Held(wrBuffer') = 1
      BY <3>1, <3>2, HeldValue
    <3>4. \A i \in 1..Len(mFull') :
            mFirstFrame'[mFull'[i]] = sample' - Len(mFull') + i - 1
      <4>1. SUFFICES ASSUME NEW i \in 1..Len(mFull')
                     PROVE  mFirstFrame[mFull[i + 1]] = sample - Len(mFull') + i - 1
        BY <3>1, <3>2
      <4>2. i + 1 \in 1..Len(mFull)
        BY <1>n, <3>2
      <4>3. mFirstFrame[mFull[i + 1]] = sample - Len(mFull) + (i + 1) - 1
        BY <4>2 DEF FileInOrder
      <4>4. QED
        BY <1>n, <4>3, <3>2
    <3>5. mFirstFrame'[wrBuffer'] = sample' - Len(mFull') - 1
      <4>1. mFirstFrame[mFull[1]] = sample - Len(mFull) + 1 - 1
        BY <1>n, <3>2 DEF FileInOrder
      <4>2. QED
        BY <1>n, <4>1, <3>1, <3>2
    <3>6. \A i \in 1..Len(file') :
            file'[i] = sample' - Len(mFull') - Held(wrBuffer') - Len(file') + i - 1
      BY <1>n, <3>1, <3>2, <3>3 DEF FileInOrder
    <3>7. QED
      BY <3>4, <3>5, <3>6 DEF FileInOrder
  <2>3. QED
    BY <2>1, <2>2
<1>3. CASE WriteAndYield
  <2>1. /\ wrBuffer \in Buffer
        /\ wrBuffer # NoBuffer
        /\ wrBuffer' = NoBuffer
        /\ mFull' = mFull
        /\ mFirstFrame' = mFirstFrame
        /\ sample' = sample
        /\ Len(file') = Len(file) + 1
        /\ file'[Len(file) + 1] = mFirstFrame[wrBuffer]
        /\ \A i \in 1..Len(file) : file'[i] = file[i]
    BY <1>0, <1>3 DEF WriteAndYield
  <2>2. Held(wrBuffer) = 1 /\ Held(wrBuffer') = 0
    BY <2>1, HeldValue
  <2>3. \A i \in 1..Len(file') :
          file'[i] = sample' - Len(mFull') - Held(wrBuffer') - Len(file') + i - 1
    <3>1. SUFFICES ASSUME NEW i \in 1..Len(file')
                   PROVE  file'[i] = sample - Len(mFull) - (Len(file) + 1) + i - 1
      BY <1>n, <2>1, <2>2
    <3>2. CASE i = Len(file) + 1
      <4>1. file'[i] = sample - Len(mFull) - 1
        BY <3>2, <2>1 DEF FileInOrder
      <4>2. QED
        BY <1>n, <3>2, <4>1
    <3>3. CASE i \in 1..Len(file)
      <4>1. file'[i] = sample - Len(mFull) - Held(wrBuffer) - Len(file) + i - 1
        BY <3>3, <2>1 DEF FileInOrder
      <4>2. QED
        BY <1>n, <3>3, <4>1, <2>2
    <3>4. QED
      BY <1>n, <2>1, <3>1, <3>2, <3>3
  <2>4. QED
    BY <2>1, <2>3 DEF FileInOrder
<1>4. CASE \E n \in Requests : Collect(n)
  <2>1. /\ Len(file') = 0
        /\ UNCHANGED <<mFull, wrBuffer, mFirstFrame, sample>>
    BY <1>4 DEF Collect
  <2>2. QED
    BY <2>1 DEF FileInOrder
<1>5. ASSUME UNCHANGED <<mFull, wrBuffer, mFirstFrame, sample, file>>
      PROVE  FileInOrder'
  BY <1>5 DEF FileInOrder
<1>6. QED
  BY <1>1, <1>2, <1>3, <1>4, <1>5
     DEF PoolNext, StreamThread, BufferComplete, GetFreeBuffer, ReadPipe,
         EndPass, Cancel, poolVars

\* The file holds consecutive frames in the order of capture.
THEOREM PoolFileInOrder == PoolSpec => []FileInOrder
<1>1. PoolInit => FileInOrder
  BY DEF PoolInit, FileInOrder, NoBuffer
<1>2. QED
  BY <1>1, OrderStep, PoolTypeCorrect, PoolOneHolder, PTL DEF PoolSpec
-----------------------------------------------------------------------------
(* The pool implements the queue of frames.                                *)

\* A frame put before the others is the first to leave.
LEMMA FrontLeavesFirst ==
  ASSUME NEW S, NEW x \in S, NEW q \in Seq(S)
  PROVE  /\ <<x>> \o q # <<>>
         /\ Head(<<x>> \o q) = x
         /\ Tail(<<x>> \o q) = q
<1>1. <<x>> \in Seq(S) /\ Len(<<x>>) = 1 /\ <<x>>[1] = x
  OBVIOUS
<1>2. /\ <<x>> \o q \in Seq(S)
      /\ Len(<<x>> \o q) = 1 + Len(q)
      /\ \A i \in 1..(1 + Len(q)) :
           (<<x>> \o q)[i] = IF i <= 1 THEN <<x>>[i] ELSE q[i - 1]
  BY <1>1, ConcatProperties
<1>3. Len(q) \in Nat
  OBVIOUS
<1>4. <<x>> \o q # <<>>
  BY <1>2, <1>3, EmptySeq
<1>5. Head(<<x>> \o q) = x
  BY <1>1, <1>2, <1>3
<1>6. Tail(<<x>> \o q) = q
  <2>1. /\ Tail(<<x>> \o q) \in Seq(S)
        /\ Len(Tail(<<x>> \o q)) = Len(q)
        /\ \A i \in 1..Len(q) : Tail(<<x>> \o q)[i] = (<<x>> \o q)[i + 1]
    BY <1>2, <1>3, <1>4, HeadTailProperties
  <2>2. \A i \in 1..Len(q) : (<<x>> \o q)[i + 1] = q[i]
    BY <1>2, <1>3
  <2>3. QED
    BY <2>1, <2>2, SeqEqual
<1>7. QED
  BY <1>4, <1>5, <1>6

\* Appending to the second part is appending to the whole.
LEMMA AppendToConcat ==
  ASSUME NEW S, NEW p \in Seq(S), NEW q \in Seq(S), NEW x \in S
  PROVE  p \o Append(q, x) = Append(p \o q, x)
<1>1. /\ Append(q, x) = q \o <<x>>
      /\ p \o q \in Seq(S)
      /\ Append(p \o q, x) = (p \o q) \o <<x>>
      /\ <<x>> \in Seq(S)
  BY ConcatProperties, AppendIsConcat
<1>2. QED
  BY <1>1, ConcatAssociative

\* The same for the sequences of frames the mapping is built from.
LEMMA FrameAppendToConcat ==
  \A p, q \in Seq(Nat), x \in Nat : p \o Append(q, x) = Append(p \o q, x)
BY AppendToConcat

\* The frames of the mapping, one for every buffer that holds one.
Mapping ==
  /\ Writing \in Seq(Nat)
  /\ Waiting \in Seq(Nat)
  /\ Len(Waiting) = Len(mFull)
  /\ \A i \in 1..Len(mFull) : Waiting[i] = mFirstFrame[mFull[i]]
  /\ Len(Writing \o Waiting) = Held(wrBuffer) + Len(mFull)

LEMMA MappingTypes == PoolTypeOK => Mapping
<1> SUFFICES ASSUME PoolTypeOK PROVE Mapping
  OBVIOUS
<1>1. /\ mFull \in Seq(Buffer)
      /\ Len(mFull) \in Nat
      /\ mFirstFrame \in [Buffer -> Nat]
      /\ wrBuffer \in Buffer \cup {NoBuffer}
  BY DEF PoolTypeOK, BufferQueue
<1>2. \A i \in 1..Len(mFull) : mFirstFrame[mFull[i]] \in Nat
  BY <1>1
<1>3. /\ Waiting \in Seq(Nat)
      /\ Len(Waiting) = Len(mFull)
      /\ \A i \in 1..Len(mFull) : Waiting[i] = mFirstFrame[mFull[i]]
  BY <1>1, <1>2 DEF Waiting
<1>4. Writing \in Seq(Nat) /\ Len(Writing) = Held(wrBuffer)
  <2>1. CASE wrBuffer = NoBuffer
    BY <2>1, HeldValue DEF Writing
  <2>2. CASE wrBuffer # NoBuffer
    <3>1. mFirstFrame[wrBuffer] \in Nat /\ Held(wrBuffer) = 1
      BY <1>1, <2>2, HeldValue
    <3>2. QED
      BY <3>1, <2>2 DEF Writing
  <2>3. QED
    BY <2>1, <2>2
<1>5. Len(Writing \o Waiting) = Len(Writing) + Len(Waiting)
  BY <1>3, <1>4, ConcatProperties
<1>6. QED
  BY <1>3, <1>4, <1>5 DEF Mapping

LEMMA QueueStep ==
  ASSUME PoolTypeOK, PoolTypeOK', OneHolder, CountInv, [PoolNext]_poolVars
  PROVE  [Queue!QueueNext]_(Queue!queueVars)
<1>0. /\ mFree \in Seq(Buffer)
      /\ mFull \in Seq(Buffer)
      /\ mFirstFrame \in [Buffer -> Nat]
      /\ sample \in Nat
      /\ cbBuffer \in Buffer \cup {NoBuffer}
      /\ wrBuffer \in Buffer \cup {NoBuffer}
  BY DEF PoolTypeOK, BufferQueue
<1>m. Mapping /\ Mapping'
  BY MappingTypes, PTL
<1>1. ASSUME UNCHANGED <<mFull, wrBuffer, mFirstFrame>>
      PROVE  (Writing \o Waiting)' = Writing \o Waiting
  BY <1>1 DEF Writing, Waiting
<1>2. CASE GetFreeBuffer
  <2>1. Head(mFree) # NoBuffer /\ Len(mFree) >= 1
    BY <1>0, <1>2, PopMembers, HeldValue DEF GetFreeBuffer
  <2>2. Len(Writing \o Waiting) < BuffCount
    <3>1. /\ Len(mFree) \in Nat
          /\ Len(mFull) \in Nat
          /\ Held(cbBuffer) \in Nat
          /\ Held(wrBuffer) \in Nat
          /\ BuffCount \in Nat
      BY <1>0, HeldValue, BuffCountAssumption
    <3>2. Len(mFree) + (Held(cbBuffer) + Len(mFull) + Held(wrBuffer)) = BuffCount
      BY DEF CountInv, InFlight
    <3>3. QED
      BY <2>1, <3>1, <3>2, <1>m DEF Mapping
  <2>3. Queue!Begin
    BY <1>1, <1>2, <2>1, <2>2 DEF GetFreeBuffer, Queue!Begin
  <2>4. QED
    BY <2>3 DEF Queue!QueueNext
<1>3. CASE YieldFreeBuffer
  <2>1. Writing' = Writing
    BY <1>0, <1>3 DEF YieldFreeBuffer, Writing, OneHolder
  <2>2. Waiting' = Append(Waiting, sample)
    <3>1. /\ Waiting' \in Seq(Nat)
          /\ Len(Waiting') = Len(mFull')
          /\ \A i \in 1..Len(mFull') : Waiting'[i] = mFirstFrame'[mFull'[i]]
      BY <1>m DEF Mapping
    <3>2. /\ Waiting \in Seq(Nat)
          /\ Len(Waiting) = Len(mFull)
          /\ \A i \in 1..Len(mFull) : Waiting[i] = mFirstFrame[mFull[i]]
      BY <1>m DEF Mapping
    <3>3. /\ Len(mFull) \in Nat
          /\ Len(mFull') = Len(mFull) + 1
          /\ mFull'[Len(mFull) + 1] = cbBuffer
          /\ \A i \in 1..Len(mFull) :
               mFull'[i] = mFull[i] /\ mFull[i] \in Buffer /\ mFull[i] # cbBuffer
      BY <1>0, <1>3 DEF YieldFreeBuffer, OneHolder, IsIn
    <3>4. /\ mFirstFrame'[cbBuffer] = sample
          /\ \A b \in Buffer : b # cbBuffer => mFirstFrame'[b] = mFirstFrame[b]
      BY <1>0, <1>3 DEF YieldFreeBuffer
    <3>5. /\ Append(Waiting, sample) \in Seq(Nat)
          /\ Len(Append(Waiting, sample)) = Len(mFull) + 1
          /\ Append(Waiting, sample)[Len(mFull) + 1] = sample
          /\ \A i \in 1..Len(mFull) : Append(Waiting, sample)[i] = Waiting[i]
      BY <1>0, <3>2
    <3>6. \A i \in 1..Len(Waiting') : Waiting'[i] = Append(Waiting, sample)[i]
      <4>1. SUFFICES ASSUME NEW i \in 1..(Len(mFull) + 1)
                     PROVE  mFirstFrame'[mFull'[i]] = Append(Waiting, sample)[i]
        BY <3>1, <3>3
      <4>2. CASE i = Len(mFull) + 1
        BY <4>2, <3>3, <3>4, <3>5
      <4>3. CASE i \in 1..Len(mFull)
        BY <4>3, <3>2, <3>3, <3>4, <3>5
      <4>4. i = Len(mFull) + 1 \/ i \in 1..Len(mFull)
        BY <3>3, <4>1
      <4>5. QED
        BY <4>2, <4>3, <4>4
    <3>7. QED
      BY <3>1, <3>3, <3>5, <3>6, SeqEqual
  <2>3. (Writing \o Waiting)' = Append(Writing \o Waiting, sample)
    <3>1. (Writing \o Waiting)' = Writing \o Append(Waiting, sample)
      BY <2>1, <2>2
    <3>2. Writing \in Seq(Nat) /\ Waiting \in Seq(Nat)
      BY <1>m DEF Mapping
    <3>3. sample \in Nat
      BY <1>0
    <3>4. Writing \o Append(Waiting, sample) = Append(Writing \o Waiting, sample)
      BY <3>2, <3>3, FrameAppendToConcat, Zenon
    <3>5. QED
      BY <3>1, <3>4
  <2>4. Queue!Finish
    BY <1>3, <2>3 DEF YieldFreeBuffer, Queue!Finish
  <2>5. QED
    BY <2>4 DEF Queue!QueueNext
<1>4. CASE GetFullBuffer
  <2>1. (Writing \o Waiting)' = Writing \o Waiting
    <3>1. CASE mFull = <<>>
      BY <1>1, <1>4, <3>1 DEF GetFullBuffer
    <3>2. CASE mFull # <<>>
      <4>1. /\ Head(mFull) \in Buffer
            /\ Head(mFull) # NoBuffer
            /\ Head(mFull) = mFull[1]
            /\ Len(mFull) >= 1
            /\ Len(mFull) \in Nat
            /\ Len(Tail(mFull)) = Len(mFull) - 1
            /\ \A i \in 1..Len(Tail(mFull)) : Tail(mFull)[i] = mFull[i + 1]
        BY <1>0, <3>2, PopMembers, HeldValue
      <4>2. /\ Writing = <<>>
            /\ Writing' = <<mFirstFrame[mFull[1]]>>
            /\ mFirstFrame' = mFirstFrame
            /\ mFull' = Tail(mFull)
        BY <1>4, <3>2, <4>1 DEF GetFullBuffer, Writing
      <4>3. /\ Waiting \in Seq(Nat)
            /\ Len(Waiting) = Len(mFull)
            /\ \A i \in 1..Len(mFull) : Waiting[i] = mFirstFrame[mFull[i]]
        BY <1>m DEF Mapping
      <4>4. /\ Waiting' \in Seq(Nat)
            /\ Len(Waiting') = Len(mFull')
            /\ \A i \in 1..Len(mFull') : Waiting'[i] = mFirstFrame'[mFull'[i]]
        BY <1>m DEF Mapping
      <4>5. Waiting = <<mFirstFrame[mFull[1]]>> \o Waiting'
        <5>1. <<mFirstFrame[mFull[1]]>> \in Seq(Nat)
          BY <1>0, <4>1
        <5>2. /\ Len(<<mFirstFrame[mFull[1]]>> \o Waiting') = Len(mFull)
              /\ <<mFirstFrame[mFull[1]]>> \o Waiting' \in Seq(Nat)
              /\ \A i \in 1..Len(mFull) :
                   (<<mFirstFrame[mFull[1]]>> \o Waiting')[i]
                     = IF i <= 1 THEN mFirstFrame[mFull[1]] ELSE Waiting'[i - 1]
          BY <5>1, <4>1, <4>2, <4>4, ConcatProperties
        <5>3. \A i \in 2..Len(mFull) : Waiting'[i - 1] = mFirstFrame[mFull[i]]
          BY <4>1, <4>2, <4>4
        <5>4. \A i \in 1..Len(mFull) :
                Waiting[i] = (<<mFirstFrame[mFull[1]]>> \o Waiting')[i]
          <6>1. SUFFICES ASSUME NEW i \in 1..Len(mFull)
                         PROVE  Waiting[i] = (<<mFirstFrame[mFull[1]]>> \o Waiting')[i]
            OBVIOUS
          <6>2. CASE i = 1
            BY <6>1, <6>2, <4>3, <5>2
          <6>3. CASE i # 1
            <7>1. i \in 2..Len(mFull) /\ ~(i <= 1)
              BY <6>1, <6>3, <4>1
            <7>2. QED
              BY <6>1, <7>1, <4>3, <5>2, <5>3
          <6>4. QED
            BY <6>2, <6>3
        <5>5. QED
          BY <4>3, <5>2, <5>4, SeqEqual
      <4>6. QED
        BY <4>2, <4>3, <4>5, ConcatEmptySeq
    <3>3. QED
      BY <3>1, <3>2
  <2>2. UNCHANGED Queue!queueVars
    BY <1>4, <2>1 DEF GetFullBuffer, Queue!queueVars
  <2>3. QED
    BY <2>2
<1>5. CASE WriteAndYield
  <2>1. /\ Writing = <<mFirstFrame[wrBuffer]>>
        /\ mFirstFrame[wrBuffer] \in Nat
        /\ Writing' = <<>>
        /\ Waiting' = Waiting
        /\ Waiting \in Seq(Nat)
    BY <1>0, <1>5, <1>m DEF WriteAndYield, Writing, Waiting, Mapping
  <2>2. /\ Writing \o Waiting # <<>>
        /\ Head(Writing \o Waiting) = mFirstFrame[wrBuffer]
        /\ Tail(Writing \o Waiting) = Waiting
    BY <2>1, FrontLeavesFirst
  <2>3. (Writing \o Waiting)' = Waiting
    BY <2>1, ConcatEmptySeq
  <2>4. Queue!Store
    BY <1>5, <2>2, <2>3 DEF WriteAndYield, Queue!Store
  <2>5. QED
    BY <2>4 DEF Queue!QueueNext
<1>6. CASE \E n \in Requests : Collect(n)
  <2>1. PICK n \in Requests : Collect(n)
    BY <1>6
  <2>2. Queue!Request(n)
    BY <1>1, <2>1 DEF Collect, Queue!Request
  <2>3. QED
    BY <2>2 DEF Queue!QueueNext
<1>7. CASE Cancel
  <2>1. Queue!Abandon
    BY <1>1, <1>7 DEF Cancel, Queue!Abandon
  <2>2. QED
    BY <2>1 DEF Queue!QueueNext
<1>8. ASSUME UNCHANGED <<mFull, mFrameCounter, cbBuffer, wrBuffer, mFirstFrame,
                         sample, file>>
      PROVE  UNCHANGED Queue!queueVars
  BY <1>1, <1>8 DEF Queue!queueVars
<1>9. QED
  BY <1>2, <1>3, <1>4, <1>5, <1>6, <1>7, <1>8
     DEF PoolNext, StreamThread, BufferComplete, ReadPipe, EndPass, poolVars

\* The pool, with its two queues, its wake-up bytes and its two threads, does
\* nothing the bounded first-in first-out queue of FrameQueue could not do.
THEOREM PoolImplementsQueue == PoolSpec => ImplementsQueue
<1>1. PoolInit => Queue!QueueInit
  <2>1. ASSUME PoolInit PROVE Queue!QueueInit
    <3>1. Waiting = <<>> /\ Writing = <<>>
      BY <2>1 DEF PoolInit, Waiting, Writing
    <3>2. QED
      BY <2>1, <3>1 DEF PoolInit, Queue!QueueInit
  <2>2. QED
    BY <2>1
<1>2. PoolInit => CountInv
  BY CountInit
<1>3. QED
  BY <1>1, <1>2, CountStep, QueueStep, PoolTypeCorrect, PoolOneHolder, PTL
     DEF PoolSpec, ImplementsQueue, Queue!QueueSafety

-----------------------------------------------------------------------------
(* The radio and the pool.                                                 *)

\* Whatever the commands, the failures and the end of the process do, the
\* buffers are used as FramePool says.
THEOREM RadioImplementsPool == Spec => ImplementsPool
<1>1. Init => PoolInit
  BY DEF Init
<1>2. [Next]_vars => [PoolNext]_poolVars
  <2> SUFFICES ASSUME [Next]_vars PROVE [PoolNext]_poolVars
    OBVIOUS
  <2>1. ASSUME CancelIfCollecting PROVE [PoolNext]_poolVars
    BY <2>1 DEF CancelIfCollecting, PoolNext
  <2>2. CASE Stop \/ Close \/ SetFrequencyRestarts
    BY <2>1, <2>2 DEF Stop, Close, SetFrequencyRestarts
  <2>3. CASE \E n \in Requests : CollectCommand(n)
    BY <2>3 DEF CollectCommand, PoolNext
  <2>4. CASE StreamStep \/ ServeBuffers \/ CompletePass
    BY <2>4 DEF StreamStep, ServeBuffers, CompletePass, PoolNext,
                StreamThread, BufferComplete
  <2>5. CASE Open \/ Start \/ Load \/ SetFrequency \/ EnableNotch \/ DisableNotch
    BY <2>5 DEF Open, Start, Load, SetFrequency, EnableNotch, DisableNotch
  <2>6. CASE Quit \/ LateCallback \/ Uninit \/ UNCHANGED vars
    BY <2>6 DEF Quit, LateCallback, Uninit, vars
  <2>7. QED
    BY <2>2, <2>3, <2>4, <2>5, <2>6 DEF Next
<1>3. QED
  BY <1>1, <1>2, PTL DEF Spec, ImplementsPool, PoolSpec

\* With every command and failure of the radio, the file still holds
\* consecutive frames in the order of capture.
THEOREM RadioFileInOrder == Spec => []FileInOrder
BY RadioImplementsPool, PoolFileInOrder, PTL DEF ImplementsPool

\* With every command and failure of the radio, no buffer is in two hands.
THEOREM RadioOneHolder == Spec => []OneHolder
BY RadioImplementsPool, PoolOneHolder, PTL DEF ImplementsPool

-----------------------------------------------------------------------------
(* The outcomes of the commands.                                           *)

\* DeviceNeverAhead as a property of an outcome.
NotAhead(r) ==
  /\ r.api = "streaming" => r.state \in {"Streaming", "Collecting"}
  /\ r.api = "selected" => r.state # "NotAssigned"

Good(r) == r \in Control /\ NotAhead(r)

LEMMA ToldGood ==
  ASSUME NEW r, Good(r)
  PROVE  Good(Told(r)) /\ Good(Asked(r))
BY DEF Told, Asked, Good, NotAhead, Control

LEMMA FaultGood ==
  ASSUME NEW r, Good(r)
  PROVE  \A o \in Fault(r) : Good(o)
BY DEF Fault, Good, NotAhead, Control

LEMMA OpenGood ==
  ASSUME NEW r, Good(r)
  PROVE  \A o \in OpenResults(r) : Good(o)
<1>1. CASE r.state # "NotAssigned"
  <2>1. Good([r EXCEPT !.reply = "refused"])
    BY DEF Good, NotAhead, Control
  <2>2. QED
    BY <1>1, <2>1, ToldGood DEF OpenResults
<1>2. CASE r.state = "NotAssigned"
  <2>1. Good(Told([r EXCEPT !.reply = "error"])) /\ \A o \in Fault(r) : Good(o)
    <3>1. Good([r EXCEPT !.reply = "error"])
      BY DEF Good, NotAhead, Control
    <3>2. QED
      BY <3>1, ToldGood, FaultGood
  <2>2. \A h \in HwVersions : Good([r EXCEPT !.cfgHw = h])
    BY DEF Good, NotAhead, Control
  <2>3. \A h \in HwVersions : \A o \in Fault([r EXCEPT !.cfgHw = h]) : Good(o)
    BY <2>2, FaultGood
  <2>4. \A h \in HwVersions :
          Good(Told([r EXCEPT !.cfgHw = h, !.devHw = h, !.devNotch = "OFF",
                              !.api = "selected",
                              !.state = "Opened", !.reply = "ok"]))
    <3>1. \A h \in HwVersions :
            Good([r EXCEPT !.cfgHw = h, !.devHw = h, !.devNotch = "OFF",
                           !.api = "selected",
                           !.state = "Opened", !.reply = "ok"])
      BY DEF Good, NotAhead, Control, OnOff
    <3>2. QED
      BY <3>1, ToldGood
  <2> DEFINE none == {Told([r EXCEPT !.reply = "error"])} \cup Fault(r)
             failed(h) == Fault([r EXCEPT !.cfgHw = h])
             done(h) == Told([r EXCEPT !.cfgHw = h, !.devHw = h, !.devNotch = "OFF",
                                       !.api = "selected",
                                       !.state = "Opened", !.reply = "ok"])
  <2>5. OpenResults(r) = none \cup (UNION {failed(h) : h \in HwVersions})
                              \cup {done(h) : h \in HwVersions}
    BY <1>2 DEF OpenResults
  <2>6. /\ \A o \in none : Good(o)
        /\ \A h \in HwVersions : Good(done(h)) /\ \A o \in failed(h) : Good(o)
    BY <2>1, <2>3, <2>4
  <2> HIDE DEF none, failed, done
  <2>7. ASSUME NEW o \in OpenResults(r) PROVE Good(o)
    <3>1. CASE o \in none
      BY <3>1, <2>6
    <3>2. CASE o \in UNION {failed(h) : h \in HwVersions}
      <4>1. PICK h \in HwVersions : o \in failed(h)
        BY <3>2
      <4>2. QED
        BY <4>1, <2>6
    <3>3. CASE o \in {done(h) : h \in HwVersions}
      <4>1. PICK h \in HwVersions : o = done(h)
        BY <3>3
      <4>2. QED
        BY <4>1, <2>6
    <3>4. QED
      BY <2>5, <2>7, <3>1, <3>2, <3>3
  <2>8. QED
    BY <2>7
<1>3. QED
  BY <1>1, <1>2

LEMMA LaunchGood ==
  ASSUME NEW r, Good(r), NEW hardware \in HwVersions \cup {UnknownHw}
  PROVE  \A o \in LaunchResults(r, hardware) : Good(o)
<1>1. Good([r EXCEPT !.reply = "error"])
  BY DEF Good, NotAhead, Control
<1>2. Good(SetUp(r, hardware))
  BY DEF Good, NotAhead, Control, SetUp
<1>3. Good(Told([SetUp(r, hardware) EXCEPT !.api = "streaming",
                                           !.state = "Streaming",
                                           !.reply = "ok"]))
  <2>1. Good([SetUp(r, hardware) EXCEPT !.api = "streaming",
                                        !.state = "Streaming",
                                        !.reply = "ok"])
    BY <1>2 DEF Good, NotAhead, Control
  <2>2. QED
    BY <2>1, ToldGood
<1>4. QED
  BY <1>1, <1>2, <1>3, FaultGood DEF LaunchResults

LEMMA StartGood ==
  ASSUME NEW r, Good(r)
  PROVE  \A o \in StartResults(r) : Good(o)
<1>1. r.cfgHw \in HwVersions \cup {UnknownHw}
  BY DEF Good, Control
<1>2. \A o : Good(o) => Good([o EXCEPT !.reply = "refused"])
  BY DEF Good, NotAhead, Control
<1>3. QED
  BY <1>1, <1>2, OpenGood, LaunchGood DEF StartResults

LEMMA UninitGood ==
  ASSUME NEW r, Good(r)
  PROVE  \A o \in UninitResults(r) : Good(o)
<1>1. Good([r EXCEPT !.reply = "error"])
  BY DEF Good, NotAhead, Control
<1>2. Good([r EXCEPT !.state = "Opened",
                     !.api = IF r.api = "streaming" THEN "selected" ELSE r.api])
  BY DEF Good, NotAhead, Control
<1>3. QED
  BY <1>1, <1>2, FaultGood DEF UninitResults

LEMMA ReleaseGood ==
  ASSUME NEW r, Good(r)
  PROVE  \A o \in ReleaseResults(r) : Good(o)
<1>1. Good([r EXCEPT !.reply = "error"])
  BY DEF Good, NotAhead, Control
<1>2. Good([r EXCEPT !.state = "NotAssigned", !.api = "idle"])
  BY DEF Good, NotAhead, Control
<1>3. QED
  BY <1>1, <1>2, FaultGood DEF ReleaseResults

LEMMA StopGood ==
  ASSUME NEW r, Good(r)
  PROVE  \A o \in StopResults(r) : Good(o)
<1> DEFINE begun == [r EXCEPT !.reply = "ok",
                              !.state = IF @ = "Collecting" THEN "Streaming" ELSE @]
<1>1. Good(begun)
  BY DEF Good, NotAhead, Control
<1>2. \A u \in UninitResults(begun) : Good(u)
  BY <1>1, UninitGood
<1> HIDE DEF begun
<1>3. \A o \in UNION {IF u.reply = "error" THEN {u} ELSE ReleaseResults(u) :
                        u \in UninitResults(begun)} : Good(o)
  BY <1>2, ReleaseGood
<1>4. QED
  BY <1>3, ToldGood DEF StopResults, begun

LEMMA CloseGood ==
  ASSUME NEW r, Good(r)
  PROVE  \A o \in CloseResults(r) : Good(o)
<1>1. Good([r EXCEPT !.reply = "ok"])
  BY DEF Good, NotAhead, Control
<1>2. QED
  BY <1>1, StopGood, ReleaseGood, ToldGood DEF CloseResults

LEMMA NotchGood ==
  ASSUME NEW r, Good(r), NEW on \in OnOff
  PROVE  \A o \in NotchResults(r, on) : Good(o)
<1> DEFINE accepted == [r EXCEPT !.reply = "ok", !.cfgNotch = on]
<1>1. Good([r EXCEPT !.reply = "error"]) /\ Good(accepted)
  BY DEF Good, NotAhead, Control
<1>2. Good([accepted EXCEPT !.devNotch = "ON"])
  BY DEF Good, NotAhead, Control, OnOff
<1>3. QED
  BY <1>1, <1>2, FaultGood DEF NotchResults

-----------------------------------------------------------------------------
(* The invariants of the radio.                                            *)

\* What the theorems below rest on.
RadioInv ==
  /\ Good(ctl)
  /\ lateLock => life # "up" /\ ctl.state \in {"Streaming", "Collecting"}
  /\ RadioTypeOK
  /\ CountingOnlyWhileCollecting

LEMMA RadioInvInit == Init => RadioInv
<1> SUFFICES ASSUME Init PROVE RadioInv
  OBVIOUS
<1>1. Good(ctl)
  BY DEF Init, RadioInit, Good, NotAhead, Control, OnOff
<1>2. CountingOnlyWhileCollecting
  BY DEF Init, PoolInit, CountingOnlyWhileCollecting
<1>3. RadioTypeOK
  BY <1>1 DEF Init, RadioInit, RadioTypeOK, Good
<1>4. ~lateLock
  BY DEF Init, RadioInit
<1>5. QED
  BY <1>1, <1>2, <1>3, <1>4 DEF RadioInv

\* The state and the receiver, over one step.
LEMMA GoodStep == RadioInv /\ [Next]_vars => Good(ctl)'
<1> SUFFICES ASSUME RadioInv, [Next]_vars PROVE Good(ctl')
  OBVIOUS
<1>0. Good(ctl) /\ Good(Asked(ctl))
  BY ToldGood DEF RadioInv
<1>1. CASE Open
  BY <1>0, <1>1, OpenGood DEF Open, Command
<1>2. CASE Start
  BY <1>0, <1>2, StartGood DEF Start, Command
<1>3. CASE Stop
  BY <1>0, <1>3, StopGood DEF Stop, Command
<1>4. CASE Close
  BY <1>0, <1>4, CloseGood DEF Close, Command
<1>5. CASE \E n \in Requests : CollectCommand(n)
  <2>1. Good([ctl EXCEPT !.state = "Collecting", !.reply = "ok"])
    BY <1>0 DEF Good, NotAhead, Control
  <2>2. QED
    BY <1>5, <2>1, ToldGood DEF CollectCommand, Command
<1>6. CASE Load
  <2>1. \A notch \in OnOff :
          Good([Asked(ctl) EXCEPT !.cfgHw = UnknownHw, !.cfgNotch = notch, !.reply = "ok"])
    BY <1>0 DEF Good, NotAhead, Control
  <2>2. QED
    BY <1>6, <2>1 DEF Load, Command
<1>7. CASE SetFrequency
  <2>1. Good([Asked(ctl) EXCEPT !.reply = "ok"])
    BY <1>0 DEF Good, NotAhead, Control
  <2>2. QED
    BY <1>7, <2>1 DEF SetFrequency, Command
<1>8. CASE SetFrequencyRestarts
  <2>1. \A s \in StopResults(Asked(ctl)) : \A r \in StartResults(s) : Good(r)
    BY <1>0, StopGood, StartGood
  <2>2. \A r : Good(r) => Good([r EXCEPT !.reply = "error"])
    BY DEF Good, NotAhead, Control
  <2>3. QED
    BY <1>8, <2>1, <2>2 DEF SetFrequencyRestarts, Command
<1>9. CASE EnableNotch \/ DisableNotch
  BY <1>0, <1>9, NotchGood DEF EnableNotch, DisableNotch, Command, OnOff
<1>10. CASE CompletePass
  <2>1. Good([ctl EXCEPT !.state = "Streaming"])
    BY <1>0 DEF Good, NotAhead, Control
  <2>2. QED
    BY <1>0, <1>10, <2>1 DEF CompletePass
<1>11. CASE Uninit
  <2>1. Good([ctl EXCEPT !.api = "idle"])
    BY <1>0 DEF Good, NotAhead, Control
  <2>2. QED
    BY <1>11, <2>1 DEF Uninit
<1>12. ASSUME UNCHANGED ctl PROVE Good(ctl')
  BY <1>0, <1>12
<1>13. QED
  BY <1>1, <1>2, <1>3, <1>4, <1>5, <1>6, <1>7, <1>8, <1>9, <1>10, <1>11, <1>12
     DEF Next, StreamStep, ServeBuffers, Quit, LateCallback, vars, radioVars

\* A radio that is collecting stays in that state under open and start.
LEMMA StartKeepsCollecting ==
  ASSUME NEW r, Good(r), r.state = "Collecting"
  PROVE  \A o \in OpenResults(r) \cup StartResults(r) : o.state = "Collecting"
<1>1. \A reply : [r EXCEPT !.reply = reply].state = "Collecting"
  BY DEF Good, Control
<1>2. \A o \in OpenResults(r) : o.state = "Collecting"
  <2>1. Told([r EXCEPT !.reply = "refused"]).state = "Collecting"
    BY DEF Told, Good, Control
  <2>2. QED
    BY <2>1 DEF OpenResults
<1>3. StartResults(r) = UNION {{[o EXCEPT !.reply = "refused"]} : o \in {r}}
  BY DEF StartResults
<1>4. \A o \in StartResults(r) : o = [r EXCEPT !.reply = "refused"]
  BY <1>3, Zenon
<1>5. QED
  BY <1>1, <1>2, <1>4

\* stop leaves nothing to take, whether a collection runs or not.
LEMMA CancelEmpties ==
  ASSUME PoolTypeOK, CountingOnlyWhileCollecting, CancelIfCollecting
  PROVE  mFrameCounter' < 1
<1>1. mFrameCounter \in Int
  BY DEF PoolTypeOK
<1>2. CASE ctl.state = "Collecting"
  BY <1>2 DEF CancelIfCollecting, Cancel
<1>3. CASE ctl.state # "Collecting"
  BY <1>1, <1>3 DEF CancelIfCollecting, CountingOnlyWhileCollecting, poolVars
<1>4. QED
  BY <1>2, <1>3

LEMMA CountingStep ==
  PoolTypeOK /\ RadioInv /\ [Next]_vars => CountingOnlyWhileCollecting'
<1> SUFFICES ASSUME PoolTypeOK, RadioInv, [Next]_vars
             PROVE  CountingOnlyWhileCollecting'
  OBVIOUS
<1>0. /\ mFrameCounter \in Int
      /\ mFrameCounter >= 1 => ctl.state = "Collecting"
      /\ Good(ctl)
      /\ ctl \in Control
      /\ CountingOnlyWhileCollecting
  BY DEF PoolTypeOK, RadioInv, RadioTypeOK, CountingOnlyWhileCollecting
<1>1. CASE Open \/ Start
  <2>1. mFrameCounter' = mFrameCounter
    BY <1>1 DEF Open, Start, poolVars
  <2>2. ctl.state = "Collecting" => ctl'.state = "Collecting"
    <3>1. Good(Asked(ctl)) /\ Asked(ctl).state = ctl.state
      BY <1>0, ToldGood DEF Asked, Control
    <3>2. QED
      BY <1>1, <3>1, StartKeepsCollecting DEF Open, Start, Command
  <2>3. QED
    BY <1>0, <2>1, <2>2 DEF CountingOnlyWhileCollecting
<1>2. CASE Stop \/ Close \/ SetFrequencyRestarts
  <2>1. mFrameCounter' < 1
    BY <1>0, <1>2, CancelEmpties DEF Stop, Close, SetFrequencyRestarts
  <2>2. mFrameCounter' \in Int
    BY <1>0, <1>2
       DEF Stop, Close, SetFrequencyRestarts, CancelIfCollecting, Cancel, poolVars
  <2>3. QED
    BY <2>1, <2>2 DEF CountingOnlyWhileCollecting
<1>3. CASE \E n \in Requests : CollectCommand(n)
  BY <1>0, <1>3 DEF CollectCommand, Command, Told, Control, CountingOnlyWhileCollecting
<1>4. CASE Load \/ SetFrequency
  <2>1. mFrameCounter' = mFrameCounter /\ ctl'.state = ctl.state
    BY <1>0, <1>4 DEF Load, SetFrequency, Command, Asked, Control, poolVars
  <2>2. QED
    BY <1>0, <2>1 DEF CountingOnlyWhileCollecting
<1>5. CASE EnableNotch \/ DisableNotch
  <2>1. \A on \in OnOff : \A o \in NotchResults(Asked(ctl), on) : o.state = ctl.state
    BY <1>0 DEF NotchResults, Fault, Asked, Control
  <2>2. mFrameCounter' = mFrameCounter /\ ctl'.state = ctl.state
    BY <1>5, <2>1 DEF EnableNotch, DisableNotch, Command, OnOff, poolVars
  <2>3. QED
    BY <1>0, <2>2 DEF CountingOnlyWhileCollecting
<1>6. CASE StreamStep
  <2>1. ctl' = ctl
    BY <1>6 DEF StreamStep, radioVars
  <2>2. mFrameCounter' = mFrameCounter \/ mFrameCounter' = mFrameCounter - 1
    BY <1>6 DEF StreamStep, GetFreeBuffer, YieldFreeBuffer
  <2>3. mFrameCounter' >= 1 => mFrameCounter >= 1
    BY <1>0, <2>2
  <2>4. QED
    BY <1>0, <2>1, <2>3 DEF CountingOnlyWhileCollecting
<1>7. CASE CompletePass
  <2>1. mFrameCounter' = mFrameCounter
    BY <1>7 DEF CompletePass, EndPass
  <2>2. mFrameCounter >= 1 => ctl' = ctl
    BY <1>0, <1>7 DEF CompletePass
  <2>3. QED
    BY <1>0, <2>1, <2>2 DEF CountingOnlyWhileCollecting
<1>8. CASE Uninit
  <2>1. mFrameCounter' = mFrameCounter /\ ctl'.state = ctl.state
    BY <1>0, <1>8 DEF Uninit, Control, poolVars
  <2>2. QED
    BY <1>0, <2>1 DEF CountingOnlyWhileCollecting
<1>9. ASSUME UNCHANGED <<ctl, mFrameCounter>> PROVE CountingOnlyWhileCollecting'
  BY <1>0, <1>9 DEF CountingOnlyWhileCollecting
<1>10. QED
  BY <1>1, <1>2, <1>3, <1>4, <1>5, <1>6, <1>7, <1>8, <1>9
     DEF Next, ServeBuffers, ReadPipe, GetFullBuffer, WriteAndYield, Quit,
         LateCallback, vars, radioVars, poolVars

LEMMA RadioInvStep == PoolTypeOK /\ RadioInv /\ [Next]_vars => RadioInv'
<1> SUFFICES ASSUME PoolTypeOK, RadioInv, [Next]_vars PROVE RadioInv'
  OBVIOUS
<1>1. Good(ctl')
  BY GoodStep
<1>2. CountingOnlyWhileCollecting'
  BY CountingStep
<1>3. /\ mNotify' \in Nat
      /\ life' \in {"up", "closing", "gone"}
      /\ lateLock' \in BOOLEAN
  <2>0. mNotify \in Nat /\ life \in {"up", "closing", "gone"} /\ lateLock \in BOOLEAN
    BY DEF RadioInv, RadioTypeOK
  <2>1. CASE Open \/ Start \/ Stop \/ Close \/ Load \/ SetFrequency
               \/ SetFrequencyRestarts \/ EnableNotch \/ DisableNotch
    BY <2>0, <2>1 DEF Open, Start, Stop, Close, Load, SetFrequency,
         SetFrequencyRestarts, EnableNotch, DisableNotch, Command
  <2>2. CASE \E n \in Requests : CollectCommand(n)
    BY <2>0, <2>2 DEF CollectCommand, Command
  <2>3. CASE CompletePass
    BY <2>0, <2>3 DEF CompletePass
  <2>4. CASE Quit \/ LateCallback \/ Uninit
    BY <2>0, <2>4 DEF Quit, LateCallback, Uninit
  <2>5. CASE StreamStep \/ ServeBuffers \/ UNCHANGED vars
    BY <2>0, <2>5 DEF StreamStep, ServeBuffers, vars, radioVars
  <2>6. QED
    BY <2>1, <2>2, <2>3, <2>4, <2>5 DEF Next
<1>4. lateLock' => life' # "up" /\ ctl'.state \in {"Streaming", "Collecting"}
  <2>0. /\ Good(ctl) /\ ctl \in Control
        /\ lateLock => life # "up" /\ ctl.state \in {"Streaming", "Collecting"}
    BY DEF RadioInv, Good
  <2>1. CASE life = "up"
    <3>1. ~lateLock /\ ~LateCallback /\ ~Uninit
      BY <2>0, <2>1 DEF LateCallback, Uninit
    <3>2. lateLock' = lateLock
      BY <3>1 DEF Next, vars, radioVars, Command, Open, Start, Stop, Close, CollectCommand,
           Load, SetFrequency, SetFrequencyRestarts, EnableNotch, DisableNotch,
           StreamStep, ServeBuffers, CompletePass, Quit
    <3>3. QED
      BY <3>1, <3>2
  <2>2. CASE life # "up"
    <3>1. LateCallback \/ Uninit \/ UNCHANGED vars
      BY <2>2 DEF Next, Command, Open, Start, Stop, Close, CollectCommand, Load,
           SetFrequency, SetFrequencyRestarts, EnableNotch, DisableNotch,
           StreamStep, ServeBuffers, CompletePass, Quit
    <3>2. CASE LateCallback
      BY <2>0, <2>2, <3>2 DEF LateCallback, Good, NotAhead
    <3>3. CASE Uninit
      BY <2>0, <2>2, <3>3 DEF Uninit, Control
    <3>4. CASE UNCHANGED vars
      BY <2>0, <2>2, <3>4 DEF vars, radioVars
    <3>5. QED
      BY <3>1, <3>2, <3>3, <3>4
  <2>3. QED
    BY <2>1, <2>2
<1>5. QED
  BY <1>1, <1>2, <1>3, <1>4 DEF RadioInv, RadioTypeOK, Good

LEMMA RadioInvariant == Spec => [](PoolTypeOK /\ RadioInv)
<1>1. Spec => []PoolTypeOK
  BY RadioImplementsPool, PoolTypeCorrect, PTL DEF ImplementsPool
<1>2. QED
  BY <1>1, RadioInvInit, RadioInvStep, PTL DEF Spec

\* Every variable of the radio stays in its type: the state machine has no
\* state, and the receiver no mode, beyond the declared ones.
THEOREM RadioTypeCorrect == Spec => []RadioTypeOK
<1>1. RadioInv => RadioTypeOK
  BY DEF RadioInv
<1>2. QED
  BY <1>1, RadioInvariant, PTL

\* Through every failure half-way through a command the library never streams
\* or holds a receiver behind a state that denies it, and no callback meets the
\* destroyed mutex of a radio that was stopped.
THEOREM RadioDeviceNeverAhead == Spec => []DeviceNeverAhead
<1>1. RadioInv => DeviceNeverAhead
  BY DEF RadioInv, Good, NotAhead, DeviceNeverAhead
<1>2. QED
  BY <1>1, RadioInvariant, PTL

\* Frames are taken only while the state says Collecting.
THEOREM RadioCounting == Spec => []CountingOnlyWhileCollecting
<1>1. RadioInv => CountingOnlyWhileCollecting
  BY DEF RadioInv
<1>2. QED
  BY <1>1, RadioInvariant, PTL

-----------------------------------------------------------------------------
(* A stop that succeeds.                                                   *)

Released(r) == r.api = "idle" /\ r.state = "NotAssigned"

LEMMA ReleaseOk ==
  ASSUME NEW r, Good(r), r.state \in {"NotAssigned", "Opened"}
  PROVE  \A o \in ReleaseResults(r) : o.reply = "ok" => Released(o)
<1>1. [r EXCEPT !.reply = "error"].reply = "error"
  BY DEF Good, Control
<1>2. Released([r EXCEPT !.state = "NotAssigned", !.api = "idle"])
  BY DEF Good, Control, Released
<1>3. r.state = "NotAssigned" => Released(r)
  BY DEF Good, Control, NotAhead, Released
<1>4. QED
  BY <1>1, <1>2, <1>3 DEF ReleaseResults, Fault

LEMMA ToldReleased ==
  ASSUME NEW o, Good(o)
  PROVE  /\ Told(o).reply = o.reply
         /\ Released(o) => Released(Told(o))
         /\ Told(o).state = o.state /\ Told(o).told = o.state
BY DEF Told, Released, Good, Control

LEMMA StopOk ==
  ASSUME NEW r, Good(r)
  PROVE  \A o \in StopResults(r) : o.reply = "ok" => Released(o)
<1> DEFINE begun == [r EXCEPT !.reply = "ok",
                              !.state = IF @ = "Collecting" THEN "Streaming" ELSE @]
<1>1. Good(begun) /\ begun.state # "Collecting"
  BY DEF Good, NotAhead, Control
<1> HIDE DEF begun
<1>2. ASSUME NEW u \in UninitResults(begun), u.reply # "error"
      PROVE  Good(u) /\ u.state \in {"NotAssigned", "Opened"}
  <2>1. Good(u)
    BY <1>1, UninitGood
  <2>2. [begun EXCEPT !.reply = "error"].reply = "error"
    BY <1>1 DEF Good, Control
  <2>3. CASE begun.state # "Streaming"
    BY <1>1, <1>2, <2>1, <2>3 DEF UninitResults, Good, Control
  <2>4. CASE begun.state = "Streaming"
    <3>1. u = [begun EXCEPT !.state = "Opened",
                            !.api = IF begun.api = "streaming" THEN "selected"
                                                               ELSE begun.api]
      BY <1>2, <2>2, <2>4 DEF UninitResults, Fault
    <3>2. QED
      BY <1>1, <2>1, <3>1 DEF Good, Control
  <2>5. QED
    BY <2>1, <2>3, <2>4
<1> DEFINE released == UNION {IF u.reply = "error" THEN {u} ELSE ReleaseResults(u) :
                                u \in UninitResults(begun)}
<1>3. \A o \in released : o.reply = "ok" => Released(o)
  BY <1>2, ReleaseOk
<1>4. \A o \in released : Good(o)
  BY <1>1, UninitGood, ReleaseGood
<1>5. StopResults(r) = {IF o.reply = "error" THEN o ELSE Told(o) : o \in released}
  BY DEF StopResults, begun
<1> HIDE DEF released
<1>6. QED
  BY <1>3, <1>4, <1>5, ToldReleased

LEMMA CloseOk ==
  ASSUME NEW r, Good(r)
  PROVE  \A o \in CloseResults(r) : o.reply = "ok" => Released(o)
<1> DEFINE stopped == IF r.state \in {"Collecting", "Streaming"}
                        THEN StopResults(r)
                        ELSE {[r EXCEPT !.reply = "ok"]}
<1>1. Good([r EXCEPT !.reply = "ok"]) /\ [r EXCEPT !.reply = "ok"].state = r.state
  BY DEF Good, NotAhead, Control
<1>2. ASSUME NEW s \in stopped PROVE Good(s)
  BY <1>1, <1>2, StopGood
<1>3. ASSUME NEW s \in stopped, s.state \notin {"NotAssigned", "Opened"}, s.reply = "ok"
      PROVE  FALSE
  <2>1. CASE r.state \in {"Collecting", "Streaming"}
    BY <1>3, <2>1, StopOk DEF Released
  <2>2. CASE r.state \notin {"Collecting", "Streaming"}
    BY <1>1, <1>3, <2>2 DEF Good, Control
  <2>3. QED
    BY <2>1, <2>2
<1>4. CloseResults(r) = {IF o.state = "Opened" THEN o ELSE Told(o) :
                           o \in UNION {ReleaseResults(s) : s \in stopped}}
  BY DEF CloseResults
<1> HIDE DEF stopped
<1>5. ASSUME NEW s \in stopped, NEW o \in ReleaseResults(s), o.reply = "ok"
      PROVE  Released(o)
  <2>1. Good(s)
    BY <1>2
  <2>2. CASE s.state \in {"NotAssigned", "Opened"}
    BY <1>5, <2>1, <2>2, ReleaseOk
  <2>3. CASE s.state \notin {"NotAssigned", "Opened"}
    <3>1. o = s
      BY <2>3 DEF ReleaseResults
    <3>2. QED
      BY <1>3, <1>5, <2>3, <3>1
  <2>4. QED
    BY <2>2, <2>3
<1>6. \A s \in stopped : \A o \in ReleaseResults(s) : Good(o)
  BY <1>2, ReleaseGood
<1>7. QED
  BY <1>4, <1>5, <1>6, ToldReleased

-----------------------------------------------------------------------------
(* What the answers show.                                                  *)

\* An outcome that shows no state but its own, and shows one when it is "ok".
Truthful(o) ==
  /\ o.told \in {NoState, o.state}
  /\ o.reply = "ok" => o.told = o.state

\* Outcomes on the way to an answer may say "ok" before the state is told.
Silent(r) == Good(r) /\ r.told = NoState

LEMMA FaultTruthful ==
  ASSUME NEW r, Good(r), r.told \in {NoState, r.state}
  PROVE  \A o \in Fault(r) : Truthful(o) /\ o.state = r.state /\ o.told = r.told
BY DEF Fault, Truthful, Good, Control

LEMMA OpenTruthful ==
  ASSUME NEW r, Silent(r)
  PROVE  \A o \in OpenResults(r) : Truthful(o)
<1> DEFINE none == {Told([r EXCEPT !.reply = "error"])} \cup Fault(r)
           failed(h) == Fault([r EXCEPT !.cfgHw = h])
           done(h) == Told([r EXCEPT !.cfgHw = h, !.devHw = h, !.devNotch = "OFF",
                                     !.api = "selected",
                                     !.state = "Opened", !.reply = "ok"])
<1>1. Truthful(Told([r EXCEPT !.reply = "refused"]))
  BY DEF Truthful, Told, Silent, Good, Control
<1>2. \A o \in none : Truthful(o)
  <2>1. Truthful(Told([r EXCEPT !.reply = "error"]))
    BY DEF Truthful, Told, Silent, Good, Control
  <2>2. QED
    BY <2>1, FaultTruthful DEF Silent
<1>3. \A h \in HwVersions : Truthful(done(h))
  BY DEF Truthful, Told, Silent, Good, Control
<1>4. ASSUME NEW h \in HwVersions PROVE \A o \in failed(h) : Truthful(o)
  <2>1. Good([r EXCEPT !.cfgHw = h]) /\ [r EXCEPT !.cfgHw = h].told = NoState
    BY DEF Silent, Good, NotAhead, Control
  <2>2. QED
    BY <2>1, FaultTruthful
<1>5. r.state = "NotAssigned" =>
        OpenResults(r) = none \cup (UNION {failed(h) : h \in HwVersions})
                              \cup {done(h) : h \in HwVersions}
  BY DEF OpenResults
<1>6. r.state # "NotAssigned" => OpenResults(r) = {Told([r EXCEPT !.reply = "refused"])}
  BY DEF OpenResults
<1> HIDE DEF none, failed, done
<1>7. QED
  BY <1>1, <1>2, <1>3, <1>4, <1>5, <1>6

LEMMA LaunchTruthful ==
  ASSUME NEW r, Good(r), r.told \in {NoState, r.state},
         NEW hardware \in HwVersions \cup {UnknownHw}
  PROVE  \A o \in LaunchResults(r, hardware) : Truthful(o)
<1> DEFINE ready == SetUp(r, hardware)
           launched == Told([ready EXCEPT !.api = "streaming", !.state = "Streaming",
                                          !.reply = "ok"])
<1>1. Truthful([r EXCEPT !.reply = "error"])
  BY DEF Truthful, Good, Control
<1>2. Good(ready) /\ ready.told = r.told /\ ready.state = r.state
  BY DEF SetUp, Good, NotAhead, Control
<1> HIDE DEF ready
<1>3. Truthful(launched)
  BY <1>2 DEF Truthful, Told, Good, Control
<1>4. \A o \in Fault(r) \cup Fault(ready) : Truthful(o)
  BY <1>2, FaultTruthful
<1> HIDE DEF launched
<1>5. LaunchResults(r, hardware) \subseteq
        {[r EXCEPT !.reply = "error"], launched} \cup Fault(r) \cup Fault(ready)
  BY DEF LaunchResults, launched, ready
<1>6. QED
  BY <1>1, <1>3, <1>4, <1>5

LEMMA StartTruthful ==
  ASSUME NEW r, Silent(r)
  PROVE  \A o \in StartResults(r) : Truthful(o)
<1> DEFINE opened == IF r.state = "NotAssigned" THEN OpenResults(r) ELSE {r}
<1>1. r.cfgHw \in HwVersions \cup {UnknownHw}
  BY DEF Silent, Good, Control
<1>2. \A o \in opened : Good(o) /\ o.told \in {NoState, o.state}
  BY OpenGood, OpenTruthful DEF Silent, Truthful
<1> HIDE DEF opened
<1>3. \A o \in opened : Truthful([o EXCEPT !.reply = "refused"])
  BY <1>2 DEF Truthful, Good, Control
<1>4. \A o \in opened : \A x \in LaunchResults(o, r.cfgHw) : Truthful(x)
  BY <1>1, <1>2, LaunchTruthful
<1>5. StartResults(r) = UNION {IF o.state = "Opened"
                                THEN LaunchResults(o, r.cfgHw)
                                ELSE {[o EXCEPT !.reply = "refused"]} : o \in opened}
  BY DEF StartResults, opened
<1>6. QED
  BY <1>3, <1>4, <1>5

\* mir_sdr_StreamUninit and mir_sdr_ReleaseDeviceIdx say nothing of the state.
LEMMA ReleaseSilent ==
  ASSUME NEW r, Silent(r)
  PROVE  \A o \in UninitResults(r) \cup ReleaseResults(r) : Silent(o)
<1>1. \A o \in Fault(r) : o.told = NoState
  BY DEF Fault, Silent, Good, Control
<1>2. \A o \in UninitResults(r) : o.told = NoState
  BY <1>1 DEF UninitResults, Silent, Good, Control
<1>3. \A o \in ReleaseResults(r) : o.told = NoState
  BY <1>1 DEF ReleaseResults, Silent, Good, Control
<1>4. QED
  BY <1>2, <1>3, UninitGood, ReleaseGood DEF Silent

LEMMA StopTruthful ==
  ASSUME NEW r, Silent(r)
  PROVE  \A o \in StopResults(r) : Truthful(o)
<1> DEFINE begun == [r EXCEPT !.reply = "ok",
                              !.state = IF @ = "Collecting" THEN "Streaming" ELSE @]
           released == UNION {IF u.reply = "error" THEN {u} ELSE ReleaseResults(u) :
                                u \in UninitResults(begun)}
<1>1. Silent(begun)
  BY DEF Silent, Good, NotAhead, Control
<1>2. StopResults(r) = {IF o.reply = "error" THEN o ELSE Told(o) : o \in released}
  BY DEF StopResults
<1> HIDE DEF begun
<1>3. \A o \in released : Silent(o)
  BY <1>1, ReleaseSilent
<1> HIDE DEF released
<1>4. ASSUME NEW o \in released, o.reply = "error" PROVE Truthful(o)
  BY <1>3, <1>4 DEF Truthful, Silent
<1>5. ASSUME NEW o \in released PROVE Truthful(Told(o))
  BY <1>3, ToldReleased DEF Truthful, Silent
<1>6. QED
  BY <1>2, <1>4, <1>5

LEMMA CloseTruthful ==
  ASSUME NEW r, Silent(r)
  PROVE  \A o \in CloseResults(r) : Truthful(o)
<1> DEFINE stopped == IF r.state \in {"Collecting", "Streaming"}
                        THEN StopResults(r)
                        ELSE {[r EXCEPT !.reply = "ok"]}
           told(o) == IF o.state = "Opened" THEN o ELSE Told(o)
<1>1. \A s \in stopped : Good(s) /\ s.told \in {NoState, s.state}
  <2>1. Silent([r EXCEPT !.reply = "ok"])
    BY DEF Silent, Good, NotAhead, Control
  <2>2. QED
    BY <2>1, StopGood, StopTruthful DEF Silent, Truthful
<1>2. CloseResults(r) = {told(o) : o \in UNION {ReleaseResults(s) : s \in stopped}}
  BY DEF CloseResults
<1> HIDE DEF stopped
<1>3. ASSUME NEW s \in stopped, NEW o \in ReleaseResults(s), o.state = "Opened"
      PROVE  Truthful(o)
  <2>1. CASE s.state = "Opened"
    <3>1. o = [s EXCEPT !.reply = "error"] \/ o = [s EXCEPT !.state = "NotAssigned", !.api = "idle"]
      BY <2>1 DEF ReleaseResults, Fault
    <3>2. QED
      BY <1>1, <1>3, <2>1, <3>1 DEF Truthful, Good, Control
  <2>2. CASE s.state # "Opened"
    BY <1>3, <2>2 DEF ReleaseResults
  <2>3. QED
    BY <2>1, <2>2
<1>4. ASSUME NEW s \in stopped, NEW o \in ReleaseResults(s)
      PROVE  Truthful(Told(o))
  BY <1>1, ReleaseGood, ToldReleased DEF Truthful
<1>5. QED
  BY <1>2, <1>3, <1>4

\* What an operator reads in the answer to open, start, stop or close is so, and a
\* stop or a close without an error has let the receiver go and takes no more
\* frames.
THEOREM RadioAnswersTruthful == Spec => AnswersTruthful
<1>1. PoolTypeOK /\ RadioInv /\ [Next]_vars
        => [Open \/ Start \/ Stop \/ Close =>
              /\ Shown(ctl') \in {NoState, ctl'.state}
              /\ ctl'.reply = "ok" => Shown(ctl') = ctl'.state
              /\ (Stop \/ Close) /\ ctl'.reply = "ok" =>
                   ctl'.api = "idle" /\ ctl'.state = "NotAssigned" /\ mFrameCounter' < 1]_vars
  <2> SUFFICES ASSUME PoolTypeOK, RadioInv, Open \/ Start \/ Stop \/ Close
               PROVE  /\ Truthful(ctl')
                      /\ (Stop \/ Close) /\ ctl'.reply = "ok" =>
                           Released(ctl') /\ mFrameCounter' < 1
    BY DEF Released, Truthful, Shown
  <2>1. Silent(Asked(ctl)) /\ CountingOnlyWhileCollecting
    <3>1. Good(ctl) /\ CountingOnlyWhileCollecting
      BY DEF RadioInv
    <3>2. Good(Asked(ctl))
      BY <3>1, ToldGood
    <3>3. Asked(ctl).told = NoState
      BY <3>1 DEF Asked, Good, Control
    <3>4. QED
      BY <3>1, <3>2, <3>3 DEF Silent
  <2>2. Truthful(ctl')
    BY <2>1, OpenTruthful, StartTruthful, StopTruthful, CloseTruthful
       DEF Open, Start, Stop, Close, Command
  <2>3. (Stop \/ Close) => mFrameCounter' < 1
    BY <2>1, CancelEmpties DEF Stop, Close
  <2>4. (Stop \/ Close) /\ ctl'.reply = "ok" => Released(ctl')
    BY <2>1, StopOk, CloseOk DEF Stop, Close, Command, Silent
  <2>5. QED
    BY <2>2, <2>3, <2>4
<1>2. QED
  BY <1>1, RadioInvariant, PTL DEF Spec, AnswersTruthful
=============================================================================
