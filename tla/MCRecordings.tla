---------------------------- MODULE MCRecordings -----------------------------
(* Recordings on small instances for TLC.                                  *)
EXTENDS Recordings

\* The default name; sequence and process number set apart; serial and process
\* number that run together.
MCTemplates == {<<"%s", ".">>, <<"%n", ".", "%p", ".">>, <<"%s", "%p">>}

\* Numbers counted in strokes: of all numerals they are the first to run together.
MCDigits == [n \in 0..MaxNumber |-> [i \in 1..(n + 1) |-> "|"]]
MCSerialNumber == [d \in Receiver |-> [i \in 1..d |-> "|"]]
=============================================================================
