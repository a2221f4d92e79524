---------------------------- MODULE MCFramePool -----------------------------
(* FramePool on a small instance for TLC.                                  *)
EXTENDS FramePool

\* A plain count, two, more frames than the pool has buffers, and the counts
\* below one that atoi() makes of a bad argument.
MCRequests == {-1, 0, 1, 2, 4}
=============================================================================
