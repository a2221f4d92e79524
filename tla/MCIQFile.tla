------------------------------ MODULE MCIQFile ------------------------------
(* IQFile on small instances for TLC.                                      *)
EXTENDS IQFile

\* The frame size of the file, one that divides the chunk, one that does not,
\* and one that takes more than a chunk.
MCFrameSizes == {0, 1, 2, 4}
=============================================================================
