---------------------------- MODULE ShellProofs ------------------------------
(***************************************************************************)
(* The shell keeps to what is proved of the ring it types into, and its    *)
(* count of prompts is right because the ring delivers nothing twice.      *)
(***************************************************************************)
EXTENDS Shell, RingProofs

-----------------------------------------------------------------------------
(* The shell works on the ring: what holds of Ring holds here.             *)

LEMMA ShellStepIsRingStep == [ShellNext]_shellVars => [Next]_vars
<1> SUFFICES ASSUME [ShellNext]_shellVars PROVE [Next]_vars
  OBVIOUS
<1>1. ASSUME NEW c, NEW ns, Send(c, ns) PROVE Next
  BY <1>1 DEF Send, Next
<1>2. CASE CmdCollect \/ CmdLt \/ CmdLc \/ CmdSetFreq
  BY <1>1, <1>2 DEF CmdCollect, CmdLt, CmdLc, CmdAll, CmdSetFreq
<1>3. CASE \E proc \in Processes : CmdStart(proc) \/ CmdLoad(proc) \/ CmdSetFreqOf(proc)
  BY <1>1, <1>3 DEF CmdStart, CmdLoad, CmdSetFreqOf
<1>4. CASE CmdLoadTooLong
  BY <1>4 DEF CmdLoadTooLong, Next
<1>5. CASE CmdHelp \/ Enter
  BY <1>5 DEF CmdHelp, Enter
<1>6. CASE HearAnswer
  <2>1. 0 \in Server
    BY NServerAssumption DEF Server
  <2>2. QED
    BY <1>6, <2>1 DEF HearAnswer, Next, ServerStep
<1>7. CASE RingStep
  BY <1>7 DEF RingStep, Next, ServerStep
<1>8. CASE UNCHANGED shellVars
  BY <1>8 DEF shellVars
<1>9. QED
  BY <1>2, <1>3, <1>4, <1>5, <1>6, <1>7, <1>8 DEF ShellNext

LEMMA ShellAccount == ShellSpec => []WhileConnected(TRUE)
<1>1. ShellInit => WhileConnected(TRUE)
  BY AccountInit DEF ShellInit, WhileConnected
<1>2. WhileConnected(TRUE) /\ [ShellNext]_shellVars => WhileConnected(TRUE)'
  BY ShellStepIsRingStep, WhileConnectedStep
<1>3. QED
  BY <1>1, <1>2, PTL DEF ShellSpec

\* Under the shell, too, the ring delivers as long as no read has taken two messages.
THEOREM ShellDeliveredUnlessMerged == ShellSpec => []DeliveredUnlessMerged
BY ShellAccount, WhileConnectedDelivers, PTL

\* And the messages on account of a line are as many at most as the ring alone lets
\* be on their way, whatever the shell sends; where the operator can leave, no
\* line is lt.
THEOREM ShellPipeLoad ==
  ASSUME Disconnects => \A c \in Commands : c.cmd # "lt"
  PROVE  ShellSpec => []PipeLoad
<1>1. ShellInit => Always /\ LoadInv
  BY AccountInit, LoadInit DEF ShellInit, Always, Init
<1>2. Always /\ LoadInv /\ [ShellNext]_shellVars => Always' /\ LoadInv'
  BY ShellStepIsRingStep, AccountStep, LoadStep, ConnectedBefore, DisconnectsAssumption
     DEF Always, NoEcho
<1>3. Always /\ LoadInv => PipeLoad
  BY LoadBound DEF Always
<1>4. QED
  BY <1>1, <1>2, <1>3, PTL DEF ShellSpec

-----------------------------------------------------------------------------
(* The count of prompts.                                                   *)

CountedInv ==
  /\ WhileConnected(TRUE)
  /\ mSkipPrompt \in 0..NServer
  /\ counted =>
       /\ \A c \in 1..Len(typed) : typed[c].cmd # "collect"
       /\ mSkipPrompt = Cardinality(Awaited)

\* Whom a line waits for can be counted.
LEMMA AddressedFinite ==
  ASSUME NEW c
  PROVE  IsFiniteSet(Addressed(c)) /\ Cardinality(Addressed(c)) \in Nat
<1>1. IsFiniteSet(Server)
  BY NServerAssumption, FS_Interval DEF Server
<1>2. IsFiniteSet(Addressed(c))
  BY <1>1, FS_Subset DEF Addressed
<1>3. QED
  BY <1>2, FS_CardinalityType

LEMMA AwaitedFinite ==
  ASSUME Len(typed) \in Nat
  PROVE  IsFiniteSet(Awaited) /\ Cardinality(Awaited) \in Nat
<1>1. IsFiniteSet(Server) /\ IsFiniteSet(1..Len(typed))
  BY NServerAssumption, FS_Interval DEF Server
<1>2. IsFiniteSet((1..Len(typed)) \X Server)
  BY <1>1, FS_Product
<1>3. IsFiniteSet(Awaited)
  BY <1>2, FS_Subset DEF Awaited
<1>4. QED
  BY <1>3, FS_CardinalityType

LEMMA AwaitedFiniteNext ==
  ASSUME Len(typed') \in Nat
  PROVE  Cardinality(Awaited') \in Nat
<1>1. IsFiniteSet(Server) /\ IsFiniteSet(1..Len(typed'))
  BY NServerAssumption, FS_Interval DEF Server
<1>2. IsFiniteSet((1..Len(typed')) \X Server)
  BY <1>1, FS_Product
<1>3. IsFiniteSet(Awaited')
  BY <1>2, FS_Subset DEF Awaited
<1>4. QED
  BY <1>3, FS_CardinalityType

\* A command typed when nothing is awaited makes its servers awaited.
LEMMA AwaitedType ==
  ASSUME AccountInv(TRUE), NEW c \in Commands, Type(c), Awaited = {}
  PROVE  Cardinality(Awaited') = Cardinality(Addressed(c))
<1> DEFINE new == Len(typed) + 1
<1>1. /\ Len(typed) \in Nat /\ Len(typed)' = new /\ typed'[new] = c
      /\ \A i \in 1..Len(typed) : typed'[i] = typed[i]
      /\ heard' = heard /\ new \in 1..MaxCommands
  BY SentType, MaxCommandsAssumption DEF AccountInv, Type
<1>2. \A n \in Server : heard[new][n] = 0
  BY <1>1 DEF AccountInv, TypedInv
<1>3. Awaited' = {<<new, n>> : n \in Addressed(c)}
  <2>1. ASSUME NEW i \in 1..new, NEW n \in Server
        PROVE  <<i, n>> \in Awaited' <=> i = new /\ n \in Addressed(c)
    <3>1. <<i, n>> \in Awaited' <=> n \in Addressed(typed'[i]) /\ heard[i][n] = 0
      BY <1>1 DEF Awaited, Addressed, For
    <3>2. CASE i = new
      BY <1>1, <1>2, <3>1, <3>2
    <3>3. CASE i # new
      <4>1. i \in 1..Len(typed) /\ typed'[i] = typed[i]
        BY <1>1, <3>3
      <4>2. <<i, n>> \notin Awaited
        OBVIOUS
      <4>3. ~(n \in Addressed(typed[i]) /\ heard[i][n] = 0)
        BY <4>1, <4>2 DEF Awaited
      <4>4. QED
        BY <3>1, <3>3, <4>1, <4>3
    <3>4. QED
      BY <3>2, <3>3
  <2>2. Awaited' \subseteq (1..new) \X Server
    BY <1>1 DEF Awaited
  <2>3. \A n \in Addressed(c) : n \in Server
    BY DEF Addressed
  <2>4. new \in 1..new
    BY <1>1
  <2>5. QED
    BY <2>1, <2>2, <2>3, <2>4
<1>4. Cardinality({<<new, n>> : n \in Addressed(c)}) = Cardinality(Addressed(c))
  <2>1. Cardinality({new} \X Addressed(c)) = Cardinality({new}) * Cardinality(Addressed(c))
    BY FS_Singleton, FS_Product, AddressedFinite
  <2>2. Cardinality({new}) = 1
    BY FS_Singleton
  <2>3. {new} \X Addressed(c) = {<<new, n>> : n \in Addressed(c)}
    OBVIOUS
  <2>4. Cardinality({new} \X Addressed(c)) = Cardinality(Addressed(c))
    BY <2>1, <2>2, AddressedFinite
  <2>5. QED
    BY <2>3, <2>4
<1>5. QED
  BY <1>3, <1>4

\* An answer heard was awaited, if answers come once.
LEMMA AwaitedHeard ==
  ASSUME AccountInv(TRUE), ShellCommand(0),
         \A c \in 1..Len(typed) : typed[c].cmd # "collect"
  PROVE  Cardinality(Awaited') = Cardinality(Awaited) - 1 /\ Cardinality(Awaited) \in Nat
<1>1. PICK m : m = busy[0]
  OBVIOUS
<1>2. RingInv /\ KnownInv /\ 0 \in Server
  BY NServerAssumption DEF AccountInv, Server
<1>3. m \in Message /\ Numbered(m) /\ Tells(m) /\ connected /\ m.from.proc \in Server
  BY <1>1, <1>2, ShellKind DEF Message
<1>4. heard' = [heard EXCEPT ![m.id][m.from.proc] = @ + 1] /\ typed' = typed
  BY <1>1 DEF ShellCommand
<1> DEFINE c == m.id
           k == m.from.proc
<1>5. c \in 1..Len(typed) /\ c \in 1..MaxCommands /\ Account(c, k, TRUE)
  BY <1>3, TypedCommand DEF Numbered
<1>6. Hand \in ToHear(c, k)
  BY <1>1, <1>3, Where DEF IsAnswer, Tells
<1>7. Cardinality(ToHear(c, k)) >= 1
  BY <1>2, <1>3, <1>5, <1>6, Where, PlaceCount, Numbers
<1>8. Answers(typed[c]) = 1
  BY <1>5 DEF Answers
<1>9. heard[c][k] = 0 /\ For(typed[c], k)
  <2>1. done[c][k] + Cardinality(ToDo(c, k)) <= One(c, k)
        /\ heard[c][k] + Cardinality(ToHear(c, k)) <= done[c][k] * 1
    BY <1>3, <1>5, <1>8 DEF Account, InBounds
  <2>2. /\ done[c][k] \in Nat /\ heard[c][k] \in Nat /\ Cardinality(ToDo(c, k)) \in Nat
        /\ Cardinality(ToHear(c, k)) \in Nat /\ One(c, k) \in {0, 1}
    BY <1>2, <1>3, <1>5, Numbers
  <2>3. heard[c][k] = 0 /\ One(c, k) = 1
    BY <1>7, <2>1, <2>2
  <2>4. QED
    BY <2>3 DEF One
<1>10. <<c, k>> \in Awaited
  BY <1>3, <1>5, <1>9 DEF Awaited, Addressed
<1>11. Awaited' = Awaited \ {<<c, k>>}
  <2>1. ASSUME NEW i \in 1..Len(typed), NEW n \in Server
        PROVE  <<i, n>> \in Awaited' <=> <<i, n>> \in Awaited /\ <<i, n>> # <<c, k>>
    <3>1. heard \in [1..MaxCommands -> [Server -> Nat]] /\ i \in 1..MaxCommands
      BY <1>2, TypedCommand DEF RingInv, TypeOK
    <3>2. heard'[i][n] = IF i = c /\ n = k THEN heard[i][n] + 1 ELSE heard[i][n]
      BY <1>3, <1>4, <1>5, <3>1
    <3>3. heard[i][n] \in Nat
      BY <3>1
    <3>4. <<i, n>> \in Awaited' <=> n \in Addressed(typed[i]) /\ heard'[i][n] = 0
      BY <1>4 DEF Awaited, Addressed, For
    <3>5. <<i, n>> \in Awaited <=> n \in Addressed(typed[i]) /\ heard[i][n] = 0
      BY DEF Awaited
    <3>6. QED
      BY <1>9, <3>2, <3>3, <3>4, <3>5
  <2>2. Awaited' \subseteq (1..Len(typed)) \X Server /\ Awaited \subseteq (1..Len(typed)) \X Server
    BY <1>4 DEF Awaited
  <2>3. QED
    BY <2>1, <2>2
<1>12. Len(typed) \in Nat
  BY <1>2 DEF RingInv, TypeOK
<1>13. IsFiniteSet(Awaited)
  BY <1>12, AwaitedFinite
<1>14. QED
  BY <1>10, <1>11, <1>12, <1>13, AwaitedFinite, FS_RemoveElement

\* The count moves by one, or to what a line asks for.
LEMMA PromptCounts ==
  ASSUME mSkipPrompt \in 0..NServer, NEW ns \in 0..NServer, Prompt(ns)
  PROVE  /\ mSkipPrompt' \in 0..NServer
         /\ ns > 0 => mSkipPrompt' = ns
         /\ ns = 0 => mSkipPrompt' = IF mSkipPrompt > 0 THEN mSkipPrompt - 1 ELSE 0
BY NServerAssumption DEF Prompt

LEMMA CountedSend ==
  ASSUME CountedInv, NEW c, NEW ns \in 0..NServer, Send(c, ns)
  PROVE  CountedInv'
<1>1. c \in Commands /\ Type(c) /\ Prompt(ns) /\ connected
  BY DEF Send, Type
<1>2. AccountInv(TRUE)
  BY <1>1 DEF CountedInv, WhileConnected
<1>3. mSkipPrompt' \in 0..NServer
  BY <1>1, PromptCounts DEF CountedInv
<1>4. WhileConnected(TRUE)'
  BY <1>1, <1>2, AccountType DEF WhileConnected
<1>5. ASSUME counted'
      PROVE  /\ \A i \in 1..Len(typed)' : typed'[i].cmd # "collect"
             /\ mSkipPrompt' = Cardinality(Awaited')
  <2>1. counted /\ Awaited = {} /\ Cardinality(Addressed(c)) = ns /\ c.cmd # "collect"
    BY <1>5 DEF Send
  <2>2. /\ Len(typed) \in Nat /\ Len(typed)' = Len(typed) + 1 /\ typed'[Len(typed) + 1] = c
        /\ \A i \in 1..Len(typed) : typed'[i] = typed[i]
    BY <1>1, <1>2, SentType DEF AccountInv
  <2>3. \A i \in 1..Len(typed)' : typed'[i].cmd # "collect"
    BY <2>1, <2>2 DEF CountedInv
  <2>4. Cardinality(Awaited') = ns
    BY <1>1, <1>2, <2>1, AwaitedType
  <2>5. mSkipPrompt = 0
    BY <2>1, FS_EmptySet DEF CountedInv
  <2>6. mSkipPrompt' = ns
    BY <1>1, <2>5, PromptCounts, NServerAssumption DEF CountedInv
  <2>7. QED
    BY <2>3, <2>4, <2>6
<1>6. QED
  BY <1>3, <1>4, <1>5 DEF CountedInv

LEMMA CountedTooLong ==
  ASSUME CountedInv, CmdLoadTooLong
  PROVE  CountedInv'
<1>1. EmptyLoad \in Commands /\ Type(EmptyLoad) /\ connected
      /\ mSkipPrompt' = mSkipPrompt /\ counted' = counted
  BY DEF CmdLoadTooLong, Type
<1>2. AccountInv(TRUE)
  BY <1>1 DEF CountedInv, WhileConnected
<1>3. WhileConnected(TRUE)'
  BY <1>1, <1>2, AccountType DEF WhileConnected
<1>4. /\ Len(typed) \in Nat /\ Len(typed)' = Len(typed) + 1
      /\ typed'[Len(typed) + 1] = EmptyLoad
      /\ \A i \in 1..Len(typed) : typed'[i] = typed[i]
      /\ heard' = heard
  BY <1>1, <1>2, SentType DEF AccountInv, Type
<1>5. EmptyLoad.cmd = "none"
  BY DEF EmptyLoad
<1>6. Awaited' = Awaited
  <2>1. ASSUME NEW i \in 1..(Len(typed) + 1), NEW n \in Server
        PROVE  <<i, n>> \in Awaited' <=> <<i, n>> \in Awaited
    <3>1. <<i, n>> \in Awaited' <=> n \in Addressed(typed'[i]) /\ heard[i][n] = 0
      BY <1>4 DEF Awaited, Addressed, For
    <3>2. CASE i = Len(typed) + 1
      <4>1. n \notin Addressed(typed'[i])
        BY <1>4, <1>5, <3>2 DEF Addressed, For
      <4>2. i \notin 1..Len(typed)
        BY <1>4, <3>2
      <4>3. <<i, n>> \notin Awaited
        BY <4>2 DEF Awaited
      <4>4. QED
        BY <3>1, <4>1, <4>3
    <3>3. CASE i # Len(typed) + 1
      <4>1. i \in 1..Len(typed) /\ typed'[i] = typed[i]
        BY <1>4, <3>3
      <4>2. <<i, n>> \in Awaited <=> n \in Addressed(typed[i]) /\ heard[i][n] = 0
        BY <4>1 DEF Awaited
      <4>3. QED
        BY <3>1, <4>1, <4>2
    <3>4. QED
      BY <3>2, <3>3
  <2>2. /\ Awaited' \subseteq (1..(Len(typed) + 1)) \X Server
        /\ Awaited \subseteq (1..(Len(typed) + 1)) \X Server
    BY <1>4 DEF Awaited
  <2>3. \A w \in (1..(Len(typed) + 1)) \X Server : w \in Awaited' <=> w \in Awaited
    BY <2>1
  <2>4. QED
    BY <2>2, <2>3
<1>7. counted => \A i \in 1..Len(typed)' : typed'[i].cmd # "collect"
  BY <1>4, <1>5 DEF CountedInv
<1>8. QED
  BY <1>1, <1>3, <1>6, <1>7 DEF CountedInv

\* A prompt for a line that is answered on the spot.
LEMMA CountedOnTheSpot ==
  ASSUME CountedInv, CmdHelp \/ Enter
  PROVE  CountedInv'
<1>1. UNCHANGED vars /\ counted' = (counted /\ Awaited = {})
  BY DEF CmdHelp, Enter
<1>2. typed' = typed /\ heard' = heard
  BY <1>1 DEF vars
<1>3. Awaited' = Awaited
  BY <1>2 DEF Awaited, Addressed, For
<1>4. mSkipPrompt' = IF mSkipPrompt > 0 /\ mSkipPrompt' # 0 THEN mSkipPrompt - 1 ELSE 0
  <2>1. CASE CmdHelp
    <3>1. Prompt(0) /\ 0 \in 0..NServer
      BY <2>1, NServerAssumption DEF CmdHelp
    <3>2. QED
      BY <3>1, PromptCounts DEF CountedInv
  <2>2. CASE Enter
    BY <2>2 DEF Enter
  <2>3. QED
    BY <2>1, <2>2
<1>5. mSkipPrompt' \in 0..NServer
  BY <1>4, NServerAssumption DEF CountedInv
<1>6. ASSUME counted'
      PROVE  /\ \A i \in 1..Len(typed)' : typed'[i].cmd # "collect"
             /\ mSkipPrompt' = Cardinality(Awaited')
  <2>1. counted /\ Awaited = {}
    BY <1>1, <1>6, Zenon
  <2>2. mSkipPrompt = 0
    BY <2>1, FS_EmptySet DEF CountedInv
  <2>3. mSkipPrompt' = 0
    BY <1>4, <2>2
  <2>4. QED
    BY <1>2, <1>3, <2>1, <2>3, FS_EmptySet DEF CountedInv
<1>7. WhileConnected(TRUE)'
  <2>1. connected' = connected
    BY <1>1 DEF vars
  <2>2. QED
    BY <1>1, <2>1, AccountUnchanged DEF CountedInv, WhileConnected
<1>8. QED
  BY <1>5, <1>6, <1>7 DEF CountedInv

LEMMA CountedHeard ==
  ASSUME CountedInv, HearAnswer
  PROVE  CountedInv'
<1>1. ShellCommand(0) /\ Prompt(0) /\ counted' = counted /\ 0 \in Server /\ 0 \in 0..NServer
  BY NServerAssumption DEF HearAnswer, Server
<1>2. connected /\ connected' = connected /\ typed' = typed
  BY <1>1 DEF ShellCommand, Tasks
<1>3. AccountInv(TRUE)
  BY <1>2 DEF CountedInv, WhileConnected
<1>4. WhileConnected(TRUE)'
  BY <1>1, <1>2, <1>3, AccountServer DEF WhileConnected, NoEcho, ServerAct
<1>5. /\ mSkipPrompt' \in 0..NServer
      /\ mSkipPrompt' = IF mSkipPrompt > 0 THEN mSkipPrompt - 1 ELSE 0
  BY <1>1, PromptCounts DEF CountedInv
<1>6. ASSUME counted
      PROVE  mSkipPrompt' = Cardinality(Awaited')
  <2>1. Cardinality(Awaited') = Cardinality(Awaited) - 1 /\ Cardinality(Awaited) \in Nat
    BY <1>1, <1>3, <1>6, AwaitedHeard DEF CountedInv
  <2>2. Cardinality(Awaited') \in Nat
    <3>1. Len(typed') \in Nat
      BY <1>2, <1>3 DEF AccountInv, RingInv, TypeOK
    <3>2. QED
      BY <3>1, AwaitedFiniteNext
  <2>3. mSkipPrompt = Cardinality(Awaited)
    BY <1>6 DEF CountedInv
  <2>4. QED
    BY <1>5, <2>1, <2>2, <2>3
<1>7. QED
  BY <1>1, <1>2, <1>4, <1>5, <1>6 DEF CountedInv

LEMMA CountedRing ==
  ASSUME CountedInv, RingStep
  PROVE  CountedInv'
<1>1. mSkipPrompt' = mSkipPrompt /\ counted' = counted
  BY DEF RingStep
<1>2. typed' = typed /\ heard' = heard
  BY DEF RingStep, Disconnect, RecvPipe, ReadPipe, Bounce, RadioCommand, ServerCommand, Notify
<1>3. Awaited' = Awaited
  BY <1>2 DEF Awaited, Addressed, For
<1>4. [ShellNext]_shellVars
  BY DEF ShellNext
<1>5. WhileConnected(TRUE)'
  BY <1>4, ShellStepIsRingStep, WhileConnectedStep DEF CountedInv
<1>6. QED
  BY <1>1, <1>2, <1>3, <1>5 DEF CountedInv

LEMMA CountedStep == CountedInv /\ [ShellNext]_shellVars => CountedInv'
<1> SUFFICES ASSUME CountedInv, [ShellNext]_shellVars PROVE CountedInv'
  OBVIOUS
<1>1. 0 \in 0..NServer /\ 1 \in 0..NServer /\ NServer \in 0..NServer
  BY NServerAssumption
<1>2. CASE CmdCollect \/ CmdLt \/ CmdLc \/ CmdSetFreq
  BY <1>1, <1>2, CountedSend DEF CmdCollect, CmdLt, CmdLc, CmdAll, CmdSetFreq
<1>3. CASE \E proc \in Processes : CmdStart(proc) \/ CmdLoad(proc) \/ CmdSetFreqOf(proc)
  BY <1>1, <1>3, CountedSend DEF CmdStart, CmdLoad, CmdSetFreqOf
<1>4. CASE CmdLoadTooLong
  BY <1>4, CountedTooLong
<1>5. CASE CmdHelp \/ Enter
  BY <1>5, CountedOnTheSpot
<1>6. CASE HearAnswer
  BY <1>6, CountedHeard
<1>7. CASE RingStep
  BY <1>7, CountedRing
<1>8. CASE UNCHANGED shellVars
  <2>1. UNCHANGED vars /\ connected' = connected /\ mSkipPrompt' = mSkipPrompt
        /\ counted' = counted /\ typed' = typed /\ heard' = heard
    BY <1>8 DEF shellVars, vars
  <2>2. Awaited' = Awaited
    BY <2>1 DEF Awaited, Addressed, For
  <2>3. WhileConnected(TRUE)'
    BY <2>1, AccountUnchanged DEF CountedInv, WhileConnected
  <2>4. QED
    BY <2>1, <2>2, <2>3 DEF CountedInv
<1>9. QED
  BY <1>2, <1>3, <1>4, <1>5, <1>6, <1>7, <1>8 DEF ShellNext

\* However many servers there are and whatever is typed: an operator who waits for the
\* answers to one line before typing the next gets the prompt after the last of them,
\* since no answer comes twice and none from a server that was not asked.
THEOREM ShellPromptsMatchAnswers == ShellSpec => []PromptsMatchAnswers
<1>1. ShellInit => CountedInv
  <2> SUFFICES ASSUME ShellInit PROVE CountedInv
    OBVIOUS
  <2>1. WhileConnected(TRUE)
    BY AccountInit DEF ShellInit, WhileConnected
  <2>2. Len(typed) = 0
    BY DEF ShellInit, Init
  <2>3. Awaited = {}
    BY <2>2 DEF Awaited
  <2>4. mSkipPrompt = 0 /\ 0 \in 0..NServer
    BY NServerAssumption DEF ShellInit
  <2>5. mSkipPrompt = Cardinality(Awaited)
    BY <2>3, <2>4, FS_EmptySet
  <2>6. \A c \in 1..Len(typed) : typed[c].cmd # "collect"
    BY <2>2
  <2>7. mSkipPrompt \in 0..NServer
    BY <2>4
  <2>8. QED
    BY ONLY <2>1, <2>5, <2>6, <2>7 DEF CountedInv
<1>2. CountedInv => PromptsMatchAnswers
  BY DEF CountedInv, PromptsMatchAnswers
<1>3. QED
  BY <1>1, <1>2, CountedStep, PTL DEF ShellSpec
=============================================================================
