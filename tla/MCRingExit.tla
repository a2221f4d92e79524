----------------------------- MODULE MCRingExit ------------------------------
(* Instances of RingExit for TLC: what the operator may type.              *)
EXTENDS RingExit

\* A command for each of the radios, one for the radio in the middle that it
\* answers twice, the end for all, and a message without any field.
MCCommands == {[proc |-> n, task |-> "radio", cmd |-> "lc"] : n \in Server}
                \cup {[proc |-> 1, task |-> "radio", cmd |-> "collect"], CmdQuit, EmptyLoad}
=============================================================================
