------------------------------ MODULE MCRadio -------------------------------
(* Radio on small instances for TLC.                                       *)
EXTENDS Radio

\* Ordinary counts, and the counts below one that atoi() makes of a bad
\* argument.
MCRequests == {-1, 0, 1, 2}

\* The counts of operators who ask for frames.
MCPositiveRequests == {1, 2}

\* A receiver with set-up calls of its own, and one without.
MCHwVersions == {1, 2}
=============================================================================
