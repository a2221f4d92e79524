------------------------------ MODULE MCTools --------------------------------
(* Tools on small instances for TLC.                                       *)
EXTENDS Tools, SequencesExt

MCChunkSizes == {1, 2, 3}

\* No sense, no samples, less than a chunk, more than one.
MCOptions == {0, 1, 2, 4}

\* The loop of fixorder, swap by swap, gives what Fixorder says.
FixorderLoop(out, n) ==
  FoldLeft(LAMBDA s, i : [s EXCEPT ![i - 1] = s[n \div 2 + i - 1],
                                   ![n \div 2 + i - 1] = s[i - 1]],
           out, [i \in 1..(n \div 2) |-> i])

ASSUME FixorderAsLoop ==
  \A n \in 0..9 : Fixorder(Bins(n), n) = FixorderLoop(Bins(n), n)

\* The loop of peak finds the first of the largest magnitudes: the place the tools
\* take the phase from does not depend on what follows an equal one.
ASSUME PeakIsFirstLargest ==
  \A n \in 1..4 : \A mag \in [0..(n - 1) -> 0..2] :
    /\ Peak(mag, n) \in 0..(n - 1)
    /\ \A k \in 0..(n - 1) : mag[k] <= mag[Peak(mag, n)]
    /\ \A k \in 0..(Peak(mag, n) - 1) : mag[k] < mag[Peak(mag, n)]
=============================================================================
