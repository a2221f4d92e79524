----------------------------- MODULE FrameQueue -----------------------------
(***************************************************************************)
(* What the radio promises about a collection, without buffers, locks or   *)
(* wake-up bytes: frames captured by the stream thread reach the data file *)
(* through a first-in first-out queue that holds at most Capacity frames,  *)
(* as many frames as were asked for, each exactly once.                    *)
(*                                                                         *)
(* A frame is named by its place in the order of capture.                  *)
(***************************************************************************)
EXTENDS Integers, Sequences

CONSTANTS Capacity,   \* frames that can be between the radio and the file
          Requests    \* the frame counts an operator asks for

VARIABLES queue,      \* frames captured and not yet stored, oldest first
          busy,       \* a frame is being captured
          wanted,     \* frames still to capture
          next,       \* the number of the next frame captured
          stored      \* the frames in the current file

queueVars == <<queue, busy, wanted, next, stored>>

QueueInit ==
  /\ queue = <<>>
  /\ busy = FALSE
  /\ wanted = 0
  /\ next = 0
  /\ stored = <<>>

\* A frame of the collection begins to arrive.
Begin ==
  /\ ~busy
  /\ wanted >= 1
  /\ Len(queue) < Capacity
  /\ busy' = TRUE
  /\ wanted' = wanted - 1
  /\ UNCHANGED <<queue, next, stored>>

\* The frame that was arriving is complete.
Finish ==
  /\ busy
  /\ busy' = FALSE
  /\ queue' = Append(queue, next)
  /\ next' = next + 1
  /\ UNCHANGED <<wanted, stored>>

\* The oldest frame goes to the file.
Store ==
  /\ queue # <<>>
  /\ stored' = Append(stored, Head(queue))
  /\ queue' = Tail(queue)
  /\ UNCHANGED <<busy, wanted, next>>

\* A new file, and n frames to put in it.
Request(n) ==
  /\ stored' = <<>>
  /\ wanted' = n
  /\ UNCHANGED <<queue, busy, next>>

\* No more frames are wanted; those captured still go to the file.
Abandon ==
  /\ wanted' = 0
  /\ UNCHANGED <<queue, busy, next, stored>>

QueueNext ==
  \/ Begin
  \/ Finish
  \/ Store
  \/ \E n \in Requests : Request(n)
  \/ Abandon

QueueFairness ==
  /\ WF_queueVars(Finish)
  /\ WF_queueVars(Store)

QueueSafety == QueueInit /\ [][QueueNext]_queueVars
QueueSpec == QueueSafety /\ QueueFairness
=============================================================================
