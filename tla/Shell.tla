------------------------------- MODULE Shell --------------------------------
(***************************************************************************)
(* The prompt of the operator's shell (src/src/shell.cpp), on top of the   *)
(* ring that carries its commands and their answers.                       *)
(*                                                                         *)
(* A command that will be answered asks for some prompts to be skipped,    *)
(* one for each answer it expects; each answer, and each notification that *)
(* a collection is done, is printed and then takes part in the count.  The *)
(* count is all the shell knows: not which command an answer belongs to,   *)
(* nor whether it came from a server that had still to answer.             *)
(*                                                                         *)
(* Commands differ here only in whom they go to, how often a server answers*)
(* and how many prompts they skip.  Two kinds of line change nothing in    *)
(* this model: those that print something and no prompt (an unknown        *)
(* command, a process number open refuses, a fourth word after freq), and  *)
(* cls, which prints the prompt past the count.  quit skips no prompt and  *)
(* ends the ring (RingExit).                                               *)
(***************************************************************************)
EXTENDS Ring

CONSTANT Processes   \* numbers an operator may type for one process

ASSUME ProcessesAssumption == Processes \subseteq Int

VARIABLES
  mSkipPrompt,  \* prompts still to be skipped
  counted       \* history: every line so far skips as many prompts as servers
                \* answer it, once each, and was typed when none had still to

shellVars == <<vars, mSkipPrompt, counted>>

ShellInit == Init /\ mSkipPrompt = 0 /\ counted = TRUE

\* The servers a command is for, if there are any.
Addressed(c) == {n \in Server : For(c, n)}

\* Which servers have not answered which commands: pairs of a command and a server.
Awaited == {w \in (1..Len(typed)) \X Server :
              w[2] \in Addressed(typed[w[1]]) /\ heard[w[1]][w[2]] = 0}

-----------------------------------------------------------------------------
\* Mutants: the call that asks for the skips is counted twice, or not at all, among
\* them.
PromptSkipsOneLess(ns) ==
  LET skip == IF ns > 0 THEN ns ELSE mSkipPrompt
  IN mSkipPrompt' = IF skip > 0 THEN skip - 1 ELSE skip
PromptSkipsOneMore(ns) ==
  LET skip == IF ns > 0 THEN ns + 2 ELSE mSkipPrompt
  IN mSkipPrompt' = IF skip > 0 THEN skip - 1 ELSE skip

\* prompt(ns): skip ns prompts from now on, not counting this one, or take one
\* off the count; the prompt is printed when the count is zero.
Prompt(ns) ==
  LET skip == IF ns > 0 THEN ns + 1 ELSE mSkipPrompt
  IN mSkipPrompt' = IF skip > 0 THEN skip - 1 ELSE skip

\* A line that sends command c and skips ns prompts.
Send(c, ns) ==
  /\ c \in Commands
  /\ Type(c)
  /\ Prompt(ns)
  /\ counted' = /\ counted
                /\ Awaited = {}
                /\ Cardinality(Addressed(c)) = ns
                /\ c.cmd # "collect"

ToRadio(proc) == [proc |-> proc, task |-> "radio", cmd |-> "lc"]

\* A command to that task of all the servers: one prompt skipped for each.
CmdAll(task, cmd) == Send([proc |-> Broadcast, task |-> task, cmd |-> cmd], NServer)

CmdCollect == CmdAll("radio", "collect")
CmdLt == CmdAll("server", "lt")

\* lc, and like it open, start, stop, close and load without a process.
CmdLc == CmdAll("radio", "lc")

\* open, start, stop and close to one process.
CmdStart(proc) == proc \in Server /\ Send(ToRadio(proc), 1)

\* load to one process, whose number is not looked at.
CmdLoad(proc) == Send(ToRadio(proc), 1)

\* freq and filter: one prompt skipped for a broadcast, none for one process.
CmdSetFreq == Send(ToRadio(Broadcast), 1)
CmdSetFreqOf(proc) == Send(ToRadio(proc), 0)

\* load with a third argument: nothing is read into the message, which is sent
\* all the same, and no prompt comes.
CmdLoadTooLong ==
  /\ EmptyLoad \in Commands
  /\ Type(EmptyLoad)
  /\ UNCHANGED <<mSkipPrompt, counted>>

\* A line answered on the spot: help, ls, and load, freq and filter without
\* their argument.
CmdHelp ==
  /\ busy[0] = NoMessage
  /\ connected
  /\ Prompt(0)
  /\ counted' = (counted /\ Awaited = {})
  /\ UNCHANGED vars

\* An empty line (doCommand): the prompt, whatever is still to come.
Enter ==
  /\ busy[0] = NoMessage
  /\ connected
  /\ mSkipPrompt' = 0
  /\ counted' = (counted /\ Awaited = {})
  /\ UNCHANGED vars

\* Shell::jCommand: an answer or a notification is printed, then prompt().
HearAnswer == ShellCommand(0) /\ Prompt(0) /\ UNCHANGED counted

\* The rest of the ring.
RingStep ==
  /\ \/ Disconnect
     \/ \E n \in Server : RecvPipe(n) \/ Bounce(n) \/ RadioCommand(n)
                          \/ ServerCommand(n) \/ Notify(n)
  /\ UNCHANGED <<mSkipPrompt, counted>>

ShellNext ==
  \/ CmdCollect \/ CmdLt \/ CmdLc
  \/ CmdSetFreq
  \/ CmdLoadTooLong
  \/ \E proc \in Processes : CmdStart(proc) \/ CmdLoad(proc) \/ CmdSetFreqOf(proc)
  \/ CmdHelp
  \/ Enter
  \/ HearAnswer
  \/ RingStep

\* As in Ring: every server goes on reading and dispatching.
ShellFairness ==
  \A n \in Server :
    WF_shellVars(\/ /\ \/ RecvPipe(n) \/ Bounce(n) \/ RadioCommand(n) \/ ServerCommand(n)
                       \/ busy[n] = Notifying /\ Notify(n)
                    /\ UNCHANGED <<mSkipPrompt, counted>>
                 \/ n = 0 /\ HearAnswer)

ShellSpec == ShellInit /\ [][ShellNext]_shellVars
FairShellSpec == ShellSpec /\ ShellFairness

-----------------------------------------------------------------------------
\* A prompt comes back exactly after the last answer (Shell::prompt and
\* Shell::jCommand): as long as every line waits for the answers to the one
\* before it, and skips as many prompts as it gets answers, the prompts to be
\* skipped are the answers not heard yet, those that a read has lost or that come
\* after the operator has left among them.  The count is never below zero and never
\* above the number of servers, whatever is typed.
PromptsMatchAnswers ==
  /\ mSkipPrompt \in 0..NServer
  /\ counted => mSkipPrompt = Cardinality(Awaited)

\* No prompt is withheld for an answer that will not come (Shell::prompt),
\* however fast the operator types and whatever else is answered or notified
\* meanwhile, unless the operator leaves, a read of the ring loses answers or load
\* was given a process that does not exist.
PromptReturns ==
  mSkipPrompt > 0 ~>
    \/ mSkipPrompt = 0
    \/ merged \/ ~connected
    \/ \E c \in 1..Len(typed) : typed[c].cmd # "none" /\ Addressed(typed[c]) = {}
=============================================================================
