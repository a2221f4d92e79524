------------------------------ MODULE Spectrum -------------------------------
(***************************************************************************)
(* How a spectrum is laid out (src/src/spectrum.cpp; fftcor, fftplot and   *)
(* gfft have copies of the same loop).  FFTW gives bin k of N the          *)
(* frequency k or, in the upper half, k - N, in units of the sample rate   *)
(* over N; the tools swap the halves and label place n with n - N/2, in    *)
(* the division of C.  Values are left out: a place holds the number of    *)
(* the bin that ends there.                                                *)
(***************************************************************************)
EXTENDS Integers

\* The frequency of bin k, the library's convention.
Frequency(k, N) == IF 2 * k < N THEN k ELSE k - N

\* The output of the library, bin by bin.
Bins(N) == [k \in 0..(N - 1) |-> k]

\* fixorder: places n and N/2 + n are swapped, for n below N/2.
Fixorder(out, N) ==
  LET h == N \div 2
  IN [n \in 0..(N - 1) |-> IF n < h THEN out[n + h]
                           ELSE IF n < 2 * h THEN out[n - h]
                           ELSE out[n]]

\* Spectrum::peak: the loop keeps the place of the largest magnitude so far, and
\* place 0 where there is none above zero.
Peak(mag, N) ==
  LET seen[n \in 0..N] ==
        IF n = 0 THEN [at |-> 0, mag |-> 0]
        ELSE IF mag[n - 1] > seen[n - 1].mag THEN [at |-> n - 1, mag |-> mag[n - 1]]
        ELSE seen[n - 1]
  IN seen[N].at

\* The label printed at place n.
Label(n, N) == n - N \div 2

\* Every bin is printed at its own frequency.
Labelled(order, N) == \A n \in 0..(N - 1) : Frequency(order[n], N) = Label(n, N)
=============================================================================
