----------------------------- MODULE Recordings ------------------------------
(***************************************************************************)
(* Whose data is in which file: the radios of all the processes, the       *)
(* receivers they choose among, and the files they create side by side in  *)
(* one directory (open, load, collect and expandName in                    *)
(* src/src/radio.cpp).                                                     *)
(*                                                                         *)
(* A command comes to every process at about the same time, and each       *)
(* carries it out on its own: between the list of receivers that open gets *)
(* and the choice it makes, others choose.  A choice that fails has left   *)
(* the serial number in the configuration all the same, and file names are *)
(* made from there.                                                        *)
(*                                                                         *)
(* Of the states of a radio (Radio) only two things are told apart here:   *)
(* which receiver it holds and whether it collects.                        *)
(*                                                                         *)
(* A file name is a text put together from the items of a template: the    *)
(* fields %n, %p and %s and what is between them.  Templates with %f, and  *)
(* those that end in a single %, are left out.                             *)
(***************************************************************************)
EXTENDS Servers, SequencesExt

CONSTANTS Receivers,    \* receivers attached, numbered as the library lists them
          Templates,    \* file-name: sequences of fields and other items
          MaxNumber,    \* bound: the largest sequence number
          Digits,       \* to_string: the digits of 0..MaxNumber
          SerialNumber, \* the serial number of each receiver, as characters
          MaxCollects   \* bound: files created

Receiver == 1..Receivers
None == 0           \* no receiver, no serial number
Field == {"%n", "%p", "%s"}
Dot == "."          \* text like ".brf", which is in no number and no serial number

ASSUME ReceiversAssumption == Receivers \in Nat
ASSUME TemplatesAssumption == Templates \subseteq Seq(STRING)
ASSUME MaxCollectsAssumption == MaxCollects \in Nat
ASSUME NumbersAssumption == MaxNumber \in Nat /\ NServer <= MaxNumber + 1

\* Different numbers have different texts, and so have different receivers.
Distinct(texts) ==
  /\ \A i \in DOMAIN texts : texts[i] \in Seq(STRING) \ {<<>>} /\ Dot \notin Range(texts[i])
  /\ \A i, j \in DOMAIN texts : texts[i] = texts[j] => i = j

ASSUME DigitsAssumption == DOMAIN Digits = 0..MaxNumber /\ Distinct(Digits)
ASSUME SerialNumberAssumption == DOMAIN SerialNumber = Receiver /\ Distinct(SerialNumber)

VARIABLES
  holds,            \* the receiver each process has selected
  serial,           \* mCfg["serial-number"]
  fileName,         \* mCfg["file-name"]
  mSequenceNumber,
  choosing,         \* processes in open, between the list and the choice
  listed,           \* the receivers their list says are available
  mFile,            \* what the name of the file is made from that each process
                    \* created last
  collecting,       \* processes whose mState is Collecting
  made              \* history: the same of all the files created since the start

vars == <<holds, serial, fileName, mSequenceNumber, choosing, listed, mFile,
          collecting, made>>

NoFile == [template |-> <<>>, n |-> 0, p |-> 0, s |-> None]

\* defaultConfig: "%s.brf", and no serial number; each session numbers from 1.
\* Files of earlier sessions that are still in the directory are not looked at.
Init ==
  /\ holds = [p \in Server |-> None]
  /\ serial = [p \in Server |-> None]
  /\ fileName = [p \in Server |-> <<"%s", Dot>>]
  /\ mSequenceNumber = [p \in Server |-> 1]
  /\ choosing = {} /\ listed = [p \in Server |-> {}]
  /\ mFile = [p \in Server |-> NoFile]
  /\ collecting = {}
  /\ made = {}

-----------------------------------------------------------------------------
Available == {d \in Receiver : \A p \in Server : holds[p] # d}

\* open: mir_sdr_GetDevices.  What is not yet known of a receiver is not 1, and
\* open, which takes the first answer, passes it over.
List(p) ==
  /\ p \notin choosing /\ p \notin collecting
  /\ holds[p] = None
  /\ \E answer \in SUBSET Available : listed' = [listed EXCEPT ![p] = answer]
  /\ choosing' = choosing \cup {p}
  /\ UNCHANGED <<holds, serial, fileName, mSequenceNumber, mFile, collecting, made>>

\* The end of open, with or without a receiver.
Chosen(p) ==
  /\ choosing' = choosing \ {p}
  /\ listed' = [listed EXCEPT ![p] = {}]
  /\ UNCHANGED <<fileName, mSequenceNumber, mFile, collecting, made>>

\* Mutant: the result of mir_sdr_SetDeviceIdx is not checked.
ChooseUnchecked(p) ==
  /\ p \in choosing /\ listed[p] # {}
  /\ serial' = [serial EXCEPT ![p] = Min(listed[p])]
  /\ holds' = [holds EXCEPT ![p] = Min(listed[p])]
  /\ Chosen(p)

\* The first available receiver is noted in mCfg; mir_sdr_SetDeviceIdx refuses
\* it if another process has been faster, or for reasons of its own.
Choose(p) ==
  /\ p \in choosing /\ listed[p] # {}
  /\ serial' = [serial EXCEPT ![p] = Min(listed[p])]
  /\ \/ UNCHANGED holds
     \/ /\ Min(listed[p]) \in Available
        /\ holds' = [holds EXCEPT ![p] = Min(listed[p])]
  /\ Chosen(p)

\* "no devices available"
ChooseNone(p) ==
  /\ p \in choosing /\ listed[p] = {}
  /\ UNCHANGED <<holds, serial>>
  /\ Chosen(p)

\* close, or stop, when it succeeds: mCfg stays as it is.
Close(p) ==
  /\ p \notin choosing
  /\ holds[p] # None \/ p \in collecting
  /\ holds' = [holds EXCEPT ![p] = None]
  /\ collecting' = collecting \ {p}
  /\ UNCHANGED <<serial, fileName, mSequenceNumber, choosing, listed, mFile, made>>

\* Mutant: the number of the next file is part of what load replaces.
LoadResets(p, template) ==
  /\ p \notin choosing
  /\ fileName' = [fileName EXCEPT ![p] = template]
  /\ serial' = [serial EXCEPT ![p] = None]
  /\ mSequenceNumber' = [mSequenceNumber EXCEPT ![p] = 1]
  /\ UNCHANGED <<holds, choosing, listed, mFile, collecting, made>>

\* load replaces the whole of mCfg by a file, in which nobody has written the
\* serial number open notes there.
Load(p, template) ==
  /\ p \notin choosing
  /\ fileName' = [fileName EXCEPT ![p] = template]
  /\ serial' = [serial EXCEPT ![p] = None]
  /\ UNCHANGED <<holds, mSequenceNumber, choosing, listed, mFile, collecting, made>>

\* How many of the first k items are %n.
Numbers(template, k) == Cardinality({i \in 1..k : template[i] = "%n"})

\* What expandName puts in the place of item i; every %n takes the next number.
Item(f, i) ==
  CASE f.template[i] = "%n" -> Digits[f.n + Numbers(f.template, i - 1)]
    [] f.template[i] = "%p" -> Digits[f.p]
    [] f.template[i] = "%s" -> IF f.s = None THEN <<>> ELSE SerialNumber[f.s]
    [] OTHER -> <<f.template[i]>>

\* expandName strings them together: where one ends is lost.
ExpandName(f) == FlattenSeq([i \in 1..Len(f.template) |-> Item(f, i)])

\* What process p makes a name from.
File(p) == [template |-> fileName[p], n |-> mSequenceNumber[p], p |-> p, s |-> serial[p]]

\* collect, whatever the state of the radio: the file is created, or made empty
\* if there is one of that name.
Collect(p) ==
  LET last == mSequenceNumber[p] + Numbers(fileName[p], Len(fileName[p]))
  IN /\ Cardinality(made) < MaxCollects /\ last <= MaxNumber
     /\ p \notin choosing
     /\ mFile' = [mFile EXCEPT ![p] = File(p)]
     /\ mSequenceNumber' = [mSequenceNumber EXCEPT ![p] = last]
     /\ collecting' = collecting \cup {p}
     /\ made' = made \cup {File(p)}
     /\ UNCHANGED <<holds, serial, fileName, choosing, listed>>

\* onBufferComplete reports the collection done.
Complete(p) ==
  /\ p \in collecting /\ holds[p] # None
  /\ collecting' = collecting \ {p}
  /\ UNCHANGED <<holds, serial, fileName, mSequenceNumber, choosing, listed, mFile, made>>

Next ==
  \E p \in Server :
    \/ List(p) \/ Choose(p) \/ ChooseNone(p) \/ Close(p)
    \/ \E template \in Templates : Load(p, template)
    \/ Collect(p) \/ Complete(p)

Spec == Init /\ [][Next]_vars

-----------------------------------------------------------------------------
\* Process q is recording: frames of its receiver go to its file.
Recording(q) == q \in collecting /\ holds[q] # None

\* Every field is followed by a text that cannot be part of one, or ends the name.
Apart(template) ==
  \A i \in 1..Len(template) :
    template[i] \in Field => i = Len(template) \/ template[i + 1] = Dot

\* p and q name their files alike, and so that one can tell the fields.
OneTemplate(p, q) == fileName[p] = mFile[q].template /\ Apart(fileName[p])

\* Where all processes use one template in which fields do not run into one
\* another, a collect empties no file another radio is recording into, provided
\* the process number is in the name, or the serial number of a radio that holds
\* its receiver and has kept it in its configuration (open, load, expandName,
\* collect): not the serial number of a receiver it let go, or lost to a faster
\* process, or of none.
FileKept ==
  [][\A p, q \in Server :
       /\ Collect(p) /\ p # q /\ Recording(q) /\ OneTemplate(p, q)
       /\ ExpandName(File(p)) = ExpandName(mFile[q])
       => /\ "%p" \notin Range(fileName[p])
          /\ "%s" \in Range(fileName[p]) => holds[p] = None \/ serial[p] = None]_vars

\* A collect with process and sequence number in the name creates a file that no
\* process has created from this template since the start (expandName): through
\* loads, failures and new receivers, no number comes twice.
NumberedFresh ==
  [][\A p \in Server :
       Collect(p) /\ {"%n", "%p"} \subseteq Range(fileName[p]) /\ Apart(fileName[p]) =>
         \A f \in made : f.template = fileName[p] => ExpandName(f) # ExpandName(File(p))]_vars
=============================================================================
