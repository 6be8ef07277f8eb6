------------------------ MODULE ControlSessionProofs ------------------------
(***************************************************************************)
(* For every bound, and whatever the peers and the scheduler do: the types *)
(* of the session's variables, the windows of the two shared flags, the    *)
(* origin of every line that reaches the client, and the connections that  *)
(* are closed when the forwarding goroutine has ended.                     *)
(*                                                                         *)
(* None of the last three is inductive.  What makes them hold is where the *)
(* goroutines are relative to each other during a switch (Meeting), which  *)
(* connection the read goroutine holds (SourceIsOrigin), when s.origin and *)
(* s.originReader may differ (Aligned), and that a connection s.origin has *)
(* left behind was closed before (LeftClosed), from which it follows that  *)
(* the session's connections are those of OriginLink.                      *)
(*                                                                         *)
(* Then, for a client that waits for its replies (PatientClient): whose    *)
(* login it is, that no switch follows it, that nothing disturbs the TLS   *)
(* handshake, and that no command is answered twice.  These rest on one    *)
(* more invariant (PatientInv): where the one command under way is.        *)
(***************************************************************************)
EXTENDS ControlSession, SequenceTheorems, TLAPS

(* C is inside switchOrigin, past the rendezvous on stopChanDone.          *)
Switching == {"Dial", "SetReader", "Greet", "Replay", "ResetStop"}

(* R has ended, or is about to.                                            *)
Ending == {"Exit", "CloseOrigin", "Done", "Over"}

(* Where R is while C switches: between its answer and waitSwitching; when *)
(* it missed s.stop it turns in startProxy, which is suspended.            *)
Meeting ==
    /\ cpc = "AwaitStopDone" <=> rpc \in {"CloseForStop", "StopDone"}
    /\ cpc \in Switching => rpc \in {"Join", "CheckStop", "AwaitSwitch"}
    /\ cpc = "SendSwitched" => rpc \in {"Join", "CheckStop", "AwaitSwitch", "Start"}
    /\ rerr => rpc \in {"CloseAfterErr", "Join"} \cup Ending
    /\ cpc \in Switching \cup {"SendSwitched"} => ~rerr

(* W lives exactly from startProxy to the end of its select loop.          *)
ReaderLives ==
    /\ wpc = "None" <=> rpc \in {"Start", "CheckStop", "AwaitSwitch"} \cup Ending
    /\ wpc = "AwaitAck" <=> rpc \in {"Deliver", "Ack"}

(* In the select loop s.origin is the connection W reads.                  *)
SourceIsOrigin ==
    rpc \in {"Select", "Deliver", "Ack"} =>
        /\ originReader = origin
        /\ wpc = "Blocked" => wconn = origin
        /\ wpc \in {"Process", "Multi", "CheckPass", "OfferLine", "AwaitAck"} =>
             buff.from = origin

(* s.origin and s.originReader differ between their two assignments, and   *)
(* after a dial that failed.                                               *)
Aligned ==
    /\ \/ originReader = origin
       \/ cpc = "SetReader"
       \/ cpc \in {"ResetStop", "SendSwitched"} /\ ~switchResult
       \/ rpc \in Ending
    /\ cpc \in {"Dial", "SetReader", "Greet", "Replay"} => ~switchResult

(* A connection that is not s.origin is closed, and s.origin is before it  *)
(* is replaced and when R has ended.                                       *)
LeftClosed ==
    /\ \A g \in Origins : g # origin => conn[g] \in {"none", "closed"}
    /\ cpc = "Dial" \/ rpc \in {"StopDone", "Done", "Over"} =>
         origin = NoConn \/ conn[origin] = "closed"

(* The bound on dials is checked before the stop handshake; the reader is  *)
(* set only after a dial that succeeded.                                   *)
Dialled ==
    /\ cpc \in {"SendStop", "AwaitStopDone", "Dial"} => dials < MaxSwitches
    /\ cpc = "SetReader" => origin # NoConn

ControlInv ==
    /\ FlagsConfined
    /\ Meeting /\ ReaderLives /\ SourceIsOrigin /\ Aligned /\ LeftClosed /\ Dialled

IInv == TypeOK /\ ControlInv

-----------------------------------------------------------------------------
(* TypeOK in four parts: flags, places in the code, connections, and what  *)
(* is in flight.                                                           *)
Flags ==
    {switchResult, controlInTLS, rerr, passThrough, stop, isLoggedin,
     clientOpen, writeOpen} \subseteq BOOLEAN

Places == cpc \in CStates /\ rpc \in RStates /\ wpc \in WStates

Links ==
    /\ wconn \in Origins
    /\ origin \in Origins \cup {NoConn} /\ originReader \in Origins
    /\ dials \in Origins
    /\ conn \in [Origins -> {"none", "open", "half", "eof", "closed"}]

InFlight ==
    /\ command \in Commands /\ toPftp \in Seq(Commands)
    /\ buff \in [line : Line, from : Origins]
    /\ fromOrigin \in [Origins -> Seq(Line)]
    /\ toOrigin \in [Origins -> Seq(Commands)]
    /\ accepted \subseteq Origins
    /\ sent \in 0 .. MaxCommands /\ replies \in Nat

(* The type invariant is the conjunction of its four parts.                *)
LEMMA TypeParts == TypeOK <=> Flags /\ Places /\ Links /\ InFlight
BY DEF TypeOK, Flags, Places, Links, InFlight

-----------------------------------------------------------------------------
(* Queues of lines and of commands, one for each origin.                   *)

(* The connection of Init is one of Origins; a nil origin is not.          *)
LEMMA OriginsTyped == 0 \in Origins /\ NoConn \notin Origins
BY ConstantsAssumption DEF Origins, NoConn

(* Taking a line or a command from a queue keeps the queues typed.         *)
LEMMA QueueTail ==
    ASSUME NEW S, NEW q \in [Origins -> Seq(S)], NEW g \in Origins, q[g] # <<>>
    PROVE  Head(q[g]) \in S /\ [q EXCEPT ![g] = Tail(@)] \in [Origins -> Seq(S)]
<1>1. q[g] \in Seq(S)
  OBVIOUS
<1>2. Head(q[g]) \in S /\ Tail(q[g]) \in Seq(S)
  BY <1>1, HeadTailProperties
<1> QED
  BY <1>2

(* So does putting one into a queue.                                       *)
LEMMA QueueAppend ==
    ASSUME NEW S, NEW q \in [Origins -> Seq(S)], NEW g \in Origins, NEW e \in S
    PROVE  [q EXCEPT ![g] = Append(@, e)] \in [Origins -> Seq(S)]
<1>1. q[g] \in Seq(S)
  OBVIOUS
<1>2. Append(q[g], e) \in Seq(S)
  BY <1>1, AppendProperties
<1> QED
  BY <1>2

(* A reply line of a known code is a Line.                                 *)
LEMMA LinesTyped ==
    ASSUME NEW c \in Codes
    PROVE  Final(c) \in Line /\ First(c) \in Line
BY DEF Final, First, Line

(* Every greeting is a sequence of lines.                                  *)
LEMMA GreetingsTyped == Greetings \subseteq Seq(Line)
<1>1. "220" \in Codes
  BY DEF Codes
<1>2. <<Final("220")>> \in Seq(Line) /\ <<First("220"), Final("220")>> \in Seq(Line)
  BY <1>1, LinesTyped
<1> QED
  BY <1>2 DEF Greetings

(* Every answer of an origin is a sequence of lines, and not empty.        *)
LEMMA AnswersTyped ==
    ASSUME NEW cmd
    PROVE  \A answer \in Answers(cmd) : answer \in Seq(Line)
<1>1. {"331", "230", "530", "221", "200"} \subseteq Codes
  BY DEF Codes
<1>2. /\ <<Final("331")>> \in Seq(Line) /\ <<Final("230")>> \in Seq(Line)
      /\ <<Final("530")>> \in Seq(Line) /\ <<Final("221")>> \in Seq(Line)
      /\ <<Final("200")>> \in Seq(Line)
      /\ <<First("200"), Final("200")>> \in Seq(Line)
  BY <1>1, LinesTyped
<1> QED
  BY <1>2 DEF Answers

-----------------------------------------------------------------------------
(* Every step keeps the types.                                             *)

(* C keeps the Boolean fields of the session Boolean.                      *)
LEMMA CStepFlags == Flags /\ CStep => Flags'
BY ZenonT(30) DEF Flags, CStep, ReadCommand, RefuseCommand, ReadEOF,
   ReadTimeout, EndTimedOut, Reply, Forward, HandleAUTH, TLSHandshake,
   HandlePROT, HandleUSER, DialOrigin, SetReader, ReadGreeting, ReplayTLS,
   ResetStop, Unsuspend, SendEOFToOrigin, CloseClient, WriteToClient, vars,
   cVars, rVars, wVars, proxyVars, originVars, clientVars

(* R does too.                                                             *)
LEMMA RStepFlags == Flags /\ RStep => Flags'
BY ZenonT(30) DEF Flags, RStep, StartProxy, SendToClient, CloseAfterErr,
   CloseForStop, CheckStop, SendEOFToClient, CloseOrigin, CloseOriginConn,
   WriteToClient, vars, cVars, rVars, wVars, proxyVars, originVars,
   clientVars

(* W does too.                                                             *)
LEMMA WStepFlags == Flags /\ WStep => Flags'
BY ZenonT(30) DEF Flags, WStep, CallRead, TakeLine, ReadFails, CheckErr,
   ProcessLine, TakeLastLine, MultiFails, CheckPassThrough, vars, cVars,
   rVars, wVars, proxyVars, originVars, clientVars

(* And so does a rendezvous.                                               *)
LEMMA RendezvousFlags == Flags /\ Rendezvous => Flags'
BY ZenonT(30) DEF Flags, Rendezvous, PassLine, AckLine, PassErr, JoinReader,
   PassStop, PassStopDone, PassSwitched, EndSession, CloseOriginConn,
   MeetRW, vars, cVars, rVars, wVars, proxyVars, originVars, clientVars

(* C keeps the program counters and the counters of the client typed.      *)
LEMMA CStepPlaces == Places /\ CStep => Places'
BY SMTT(30) DEF Places, CStep, ReadCommand, RefuseCommand, ReadEOF,
   ReadTimeout, EndTimedOut, Reply, Forward, HandleAUTH, TLSHandshake,
   HandlePROT, HandleUSER, DialOrigin, SetReader, ReadGreeting, ReplayTLS,
   ResetStop, Unsuspend, SendEOFToOrigin, CloseClient, WriteToClient, vars,
   cVars, rVars, wVars, proxyVars, originVars, clientVars, CStates, RStates,
   WStates, Suspends

(* R does too.                                                             *)
LEMMA RStepPlaces == Places /\ RStep => Places'
BY SMTT(30) DEF Places, RStep, StartProxy, SendToClient, CloseAfterErr,
   CloseForStop, CheckStop, SendEOFToClient, CloseOrigin, CloseOriginConn,
   WriteToClient, vars, cVars, rVars, wVars, proxyVars, originVars,
   clientVars, CStates, RStates, WStates, Suspends

(* W does too.                                                             *)
LEMMA WStepPlaces == Places /\ WStep => Places'
BY SMTT(30) DEF Places, WStep, CallRead, TakeLine, ReadFails, CheckErr,
   ProcessLine, TakeLastLine, MultiFails, CheckPassThrough, vars, cVars,
   rVars, wVars, proxyVars, originVars, clientVars, CStates, RStates,
   WStates, Suspends

(* And so does a rendezvous.                                               *)
LEMMA RendezvousPlaces == Places /\ Rendezvous => Places'
BY SMTT(30) DEF Places, Rendezvous, PassLine, AckLine, PassErr, JoinReader,
   PassStop, PassStopDone, PassSwitched, EndSession, CloseOriginConn,
   MeetRW, vars, cVars, rVars, wVars, proxyVars, originVars, clientVars,
   CStates, RStates, WStates, Suspends

(* A dial numbers the new connection within Origins.                       *)
LEMMA DialLinks == Links /\ Dialled /\ DialOrigin => Links'
<1> SUFFICES ASSUME Links, Dialled, DialOrigin PROVE Links'
  OBVIOUS
<1>1. dials < MaxSwitches /\ dials + 1 \in Origins
  BY ConstantsAssumption DEF DialOrigin, Dialled, Links, Origins
<1>2. UNCHANGED <<wconn, originReader>>
  BY DEF DialOrigin, wVars
<1>3. \/ origin' = dials + 1 /\ dials' = dials + 1
         /\ conn' = [conn EXCEPT ![dials + 1] = "open"]
      \/ origin' = NoConn /\ UNCHANGED <<dials, conn>>
  BY DEF DialOrigin
<1> QED
  BY <1>1, <1>2, <1>3 DEF Links

(* In SetReader the dial has succeeded, so that s.origin is a connection.  *)
LEMMA SetReaderLinks == Links /\ Dialled /\ SetReader => Links'
BY DEF SetReader, Dialled, Links, wVars, originVars

(* The other steps of C keep origin, originReader and conn typed.          *)
LEMMA CStepLinks == Links /\ Dialled /\ CStep => Links'
<1> SUFFICES ASSUME Links, Dialled, CStep PROVE Links'
  OBVIOUS
<1>1. CASE DialOrigin
  BY <1>1, DialLinks
<1>2. CASE SetReader
  BY <1>2, SetReaderLinks
<1>3. CASE SendEOFToOrigin
  BY <1>3 DEF SendEOFToOrigin, Links, wVars, proxyVars
<1>4. CASE UNCHANGED <<wconn, origin, originReader, dials, conn>>
  BY <1>4 DEF Links
<1> QED
  BY <1>1, <1>2, <1>3, <1>4 DEF CStep, ReadCommand, RefuseCommand, ReadEOF,
     ReadTimeout, EndTimedOut, Reply, Forward, HandleAUTH, TLSHandshake,
     HandlePROT, HandleUSER, ReadGreeting, ReplayTLS, ResetStop, Unsuspend,
     CloseClient, wVars, proxyVars, originVars

(* R does too.                                                             *)
LEMMA RStepLinks == Links /\ RStep => Links'
BY SMTT(30) DEF Links, RStep, StartProxy, SendToClient, CloseAfterErr,
   CloseForStop, CheckStop, SendEOFToClient, CloseOrigin, CloseOriginConn,
   WriteToClient, vars, cVars, rVars, wVars, proxyVars, originVars,
   clientVars

(* W does too.                                                             *)
LEMMA WStepLinks == Links /\ WStep => Links'
BY SMTT(30) DEF Links, WStep, CallRead, TakeLine, ReadFails, CheckErr,
   ProcessLine, TakeLastLine, MultiFails, CheckPassThrough, vars, cVars,
   rVars, wVars, proxyVars, originVars, clientVars

(* And so does a rendezvous.                                               *)
LEMMA RendezvousLinks == Links /\ Rendezvous => Links'
BY SMTT(30) DEF Links, Rendezvous, PassLine, AckLine, PassErr, JoinReader,
   PassStop, PassStopDone, PassSwitched, EndSession, CloseOriginConn,
   MeetRW, vars, cVars, rVars, wVars, proxyVars, originVars, clientVars

(* What is in flight changes only where a line or a command is taken from  *)
(* a queue or put into one.                                                *)
LEMMA CStepInFlight == InFlight /\ Links /\ Dialled /\ CStep => InFlight'
<1> SUFFICES ASSUME InFlight, Links, Dialled, CStep PROVE InFlight'
  OBVIOUS
<1>1. CASE ReadCommand \/ RefuseCommand
  <2>1. toPftp # <<>> /\ command' = Head(toPftp) /\ toPftp' = Tail(toPftp)
        /\ UNCHANGED <<buff, fromOrigin, toOrigin, accepted, sent, replies>>
    BY <1>1 DEF ReadCommand, RefuseCommand, wVars, originVars
  <2>2. Head(toPftp) \in Commands /\ Tail(toPftp) \in Seq(Commands)
    BY <2>1, HeadTailProperties DEF InFlight
  <2> QED
    BY <2>1, <2>2 DEF InFlight
<1>2. CASE Forward
  <2>1. /\ \/ toOrigin' = [toOrigin EXCEPT ![originReader] = Append(@, command)]
           \/ toOrigin' = toOrigin
        /\ UNCHANGED <<command, toPftp, buff, fromOrigin, accepted, sent, replies>>
    BY <1>2 DEF Forward, wVars, clientVars
  <2>2. [toOrigin EXCEPT ![originReader] = Append(@, command)]
          \in [Origins -> Seq(Commands)]
    BY QueueAppend DEF InFlight, Links
  <2> QED
    BY <2>1, <2>2 DEF InFlight
<1>3. CASE DialOrigin
  <2>1. dials + 1 \in Origins
    BY <1>3, ConstantsAssumption DEF DialOrigin, Dialled, Links, Origins
  <2>2. /\ \/ \E greeting \in Greetings :
                fromOrigin' = [fromOrigin EXCEPT ![dials + 1] = greeting]
           \/ fromOrigin' = fromOrigin
        /\ UNCHANGED <<command, toPftp, buff, toOrigin, accepted, sent, replies>>
    BY <1>3 DEF DialOrigin, wVars, clientVars
  <2> QED
    BY <2>1, <2>2, GreetingsTyped DEF InFlight
<1>4. CASE ReadGreeting
  <2>1. /\ \/ /\ fromOrigin[originReader] # <<>>
              /\ fromOrigin' = [fromOrigin EXCEPT ![originReader] = Tail(@)]
           \/ fromOrigin' = fromOrigin
        /\ UNCHANGED <<command, toPftp, buff, toOrigin, accepted, sent, replies>>
    BY <1>4 DEF ReadGreeting, wVars, clientVars
  <2>2. fromOrigin \in [Origins -> Seq(Line)] /\ originReader \in Origins
    BY DEF InFlight, Links
  <2>3. ASSUME fromOrigin[originReader] # <<>>
        PROVE  [fromOrigin EXCEPT ![originReader] = Tail(@)] \in [Origins -> Seq(Line)]
    BY <2>2, <2>3, QueueTail
  <2>4. fromOrigin' \in [Origins -> Seq(Line)]
    BY <2>1, <2>2, <2>3
  <2> QED
    BY <2>1, <2>4 DEF InFlight
<1>5. CASE ReadTimeout \/ Reply \/ HandleAUTH \/ HandlePROT
  BY <1>5 DEF ReadTimeout, Reply, HandleAUTH, HandlePROT, WriteToClient,
              InFlight, wVars, proxyVars, originVars
<1>6. CASE UNCHANGED <<command, toPftp, buff, fromOrigin, toOrigin, accepted,
                       sent, replies>>
  BY <1>6 DEF InFlight
<1> QED
  BY <1>1, <1>2, <1>3, <1>4, <1>5, <1>6 DEF CStep, ReadEOF, EndTimedOut,
     TLSHandshake, HandleUSER, SetReader, ReplayTLS, ResetStop, Unsuspend,
     SendEOFToOrigin, CloseClient, wVars, proxyVars, originVars, clientVars

(* R takes nothing from a queue.                                           *)
LEMMA RStepInFlight == InFlight /\ RStep => InFlight'
BY SMTT(30) DEF InFlight, RStep, StartProxy, SendToClient, CloseAfterErr,
   CloseForStop, CheckStop, SendEOFToClient, CloseOrigin, CloseOriginConn,
   WriteToClient, vars, cVars, rVars, wVars, proxyVars, originVars,
   clientVars

(* W takes lines from the queue of the connection it reads.                *)
LEMMA WStepInFlight == InFlight /\ Links /\ WStep => InFlight'
<1> SUFFICES ASSUME InFlight, Links, WStep PROVE InFlight'
  OBVIOUS
<1>1. CASE TakeLine
  <2>1. /\ fromOrigin[wconn] # <<>>
        /\ fromOrigin' = [fromOrigin EXCEPT ![wconn] = Tail(@)]
        /\ buff' = [line |-> Head(fromOrigin[wconn]), from |-> wconn]
        /\ UNCHANGED <<command, toPftp, toOrigin, accepted, sent, replies>>
    BY <1>1 DEF TakeLine, cVars, clientVars
  <2>2. /\ Head(fromOrigin[wconn]) \in Line
        /\ [fromOrigin EXCEPT ![wconn] = Tail(@)] \in [Origins -> Seq(Line)]
    BY <2>1, QueueTail DEF InFlight, Links
  <2>3. buff' \in [line : Line, from : Origins]
    BY <2>1, <2>2 DEF Links
  <2> QED
    BY <2>1, <2>2, <2>3 DEF InFlight
<1>2. CASE TakeLastLine
  <2>1. /\ fromOrigin[wconn] # <<>>
        /\ fromOrigin' = [fromOrigin EXCEPT ![wconn] = Tail(@)]
        /\ UNCHANGED <<command, toPftp, buff, toOrigin, accepted, sent, replies>>
    BY <1>2 DEF TakeLastLine, cVars, clientVars
  <2> QED
    BY <2>1, QueueTail DEF InFlight, Links
<1>3. CASE UNCHANGED <<command, toPftp, buff, fromOrigin, toOrigin, accepted,
                       sent, replies>>
  BY <1>3 DEF InFlight
<1> QED
  BY <1>1, <1>2, <1>3 DEF WStep, CallRead, ReadFails, CheckErr, ProcessLine,
     MultiFails, CheckPassThrough, cVars, originVars, clientVars

(* A rendezvous moves no line between queues.                              *)
LEMMA RendezvousInFlight == InFlight /\ Rendezvous => InFlight'
BY SMTT(30) DEF InFlight, Rendezvous, PassLine, AckLine, PassErr,
   JoinReader, PassStop, PassStopDone, PassSwitched, EndSession,
   CloseOriginConn, MeetRW, vars, cVars, rVars, wVars, proxyVars,
   originVars, clientVars

(* The peers change queues, connections and the client's side only.        *)
LEMMA PeersTypes == TypeOK /\ Peers => TypeOK'
<1> SUFFICES ASSUME TypeOK, Peers PROVE TypeOK'
  OBVIOUS
<1> USE DEF rVars, wVars, cVars, proxyVars, clientVars
<1>1. ASSUME NEW g \in Origins, OriginReply(g) PROVE TypeOK'
  <2>1. toOrigin[g] # <<>> /\ toOrigin' = [toOrigin EXCEPT ![g] = Tail(@)]
        /\ UNCHANGED <<cVars, rVars, wVars, proxyVars, clientVars>>
        /\ conn' \in {conn, [conn EXCEPT ![g] = "eof"]}
    BY <1>1 DEF OriginReply
  <2>2. PICK answer \in Answers(Head(toOrigin[g])) :
           /\ fromOrigin' = [fromOrigin EXCEPT ![g] = @ \o answer]
           /\ accepted' \in {accepted, accepted \cup {g}}
    BY <1>1 DEF OriginReply
  <2>3. toOrigin' \in [Origins -> Seq(Commands)]
    BY <2>1, QueueTail DEF TypeOK
  <2>4. fromOrigin' \in [Origins -> Seq(Line)]
    <3>1. answer \in Seq(Line) /\ fromOrigin[g] \in Seq(Line)
      BY <1>1, AnswersTyped DEF TypeOK
    <3>2. fromOrigin[g] \o answer \in Seq(Line)
      BY <3>1, ConcatProperties
    <3> QED
      BY <2>2, <3>2 DEF TypeOK
  <2>5. conn' \in [Origins -> {"none", "open", "half", "eof", "closed"}]
        /\ accepted' \subseteq Origins
    BY <1>1, <2>1, <2>2 DEF TypeOK
  <2> QED
    BY <2>1, <2>3, <2>4, <2>5 DEF TypeOK
<1>2. ASSUME NEW g \in Origins, OriginCloses(g) PROVE TypeOK'
  <2>1. conn' \in [Origins -> {"none", "open", "half", "eof", "closed"}]
    BY <1>2 DEF OriginCloses, TypeOK
  <2> QED
    BY <1>2, <2>1 DEF OriginCloses, TypeOK
<1>3. ASSUME NEW cmd \in Commands, ClientSend(cmd) PROVE TypeOK'
  <2>1. toPftp' \in Seq(Commands)
    BY <1>3, AppendProperties DEF ClientSend, TypeOK
  <2>2. sent' \in 0 .. MaxCommands
    BY <1>3, ConstantsAssumption DEF ClientSend, TypeOK
  <2> QED
    BY <1>3, <2>1, <2>2 DEF ClientSend, TypeOK, originVars
<1>4. CASE ClientCloses
  BY <1>4, Zenon DEF ClientCloses, TypeOK, originVars
<1> QED
  BY <1>1, <1>2, <1>3, <1>4 DEF Peers

(* Every step keeps the types.                                             *)
LEMMA TypesPreserved == TypeOK /\ Dialled /\ [Next]_vars => TypeOK'
<1> SUFFICES ASSUME TypeOK, Dialled, [Next]_vars PROVE TypeOK'
  OBVIOUS
<1>1. Flags /\ Places /\ Links /\ InFlight
  BY TypeParts
<1>2. CASE CStep
  BY <1>1, <1>2, CStepFlags, CStepPlaces, CStepLinks, CStepInFlight
  DEF TypeOK, Flags, Places, Links, InFlight
<1>3. CASE RStep
  BY <1>1, <1>3, RStepFlags, RStepPlaces, RStepLinks, RStepInFlight
  DEF TypeOK, Flags, Places, Links, InFlight
<1>4. CASE WStep
  BY <1>1, <1>4, WStepFlags, WStepPlaces, WStepLinks, WStepInFlight
  DEF TypeOK, Flags, Places, Links, InFlight
<1>5. CASE Rendezvous
  BY <1>1, <1>5, RendezvousFlags, RendezvousPlaces, RendezvousLinks,
     RendezvousInFlight
  DEF TypeOK, Flags, Places, Links, InFlight
<1>6. CASE Peers
  BY <1>6, PeersTypes
<1>7. CASE UNCHANGED vars
  BY <1>7 DEF TypeOK, vars, cVars, rVars, wVars, proxyVars, originVars, clientVars
<1> QED
  BY <1>2, <1>3, <1>4, <1>5, <1>6, <1>7 DEF Next, Terminated

-----------------------------------------------------------------------------
(* A session begins in the invariant.                                      *)
LEMMA InitIInv == Init => IInv
<1> SUFFICES ASSUME Init PROVE IInv
  OBVIOUS
<1> USE ConstantsAssumption, OriginsTyped
<1>1. Flags
  BY Zenon DEF Init, Flags
<1>2. Places /\ Links
  BY DEF Init, Places, Links, CStates, RStates, WStates
<1>3. InFlight
  <2>1. Final("220") \in Line /\ "OTHER" \in Commands
    BY LinesTyped DEF Codes, Commands
  <2>2. PICK greeting \in Greetings :
          fromOrigin = [g \in Origins |-> IF g = 0 THEN greeting ELSE <<>>]
    BY DEF Init
  <2>3. greeting \in Seq(Line)
    BY <2>2, GreetingsTyped
  <2>4. fromOrigin \in [Origins -> Seq(Line)]
    BY <2>2, <2>3
  <2>5. /\ toOrigin \in [Origins -> Seq(Commands)] /\ toPftp \in Seq(Commands)
        /\ buff \in [line : Line, from : Origins]
        /\ command \in Commands
    BY <2>1 DEF Init
  <2>6. accepted = {} /\ sent = 0 /\ replies = 0
    BY DEF Init
  <2> QED
    BY <2>4, <2>5, <2>6 DEF InFlight
<1>4. FlagsConfined
  BY Zenon DEF Init, FlagsConfined, Suspended, Stopped
<1>5. ControlInv
  BY <1>4 DEF ControlInv, Init, Meeting, ReaderLives, SourceIsOrigin, Aligned,
              LeftClosed, Dialled, Switching, Ending
<1> QED
  BY <1>1, <1>2, <1>3, <1>5, TypeParts DEF IInv

(* The control part.  Every leaf needs most of its conjuncts: they speak   *)
(* of the same few program counters.                                       *)
LEMMA DialControl == IInv /\ DialOrigin => ControlInv'
<1> SUFFICES ASSUME IInv, DialOrigin PROVE ControlInv'
  OBVIOUS
<1> USE DEF IInv, ControlInv
<1>1. /\ cpc = "Dial" /\ cpc' \in {"SetReader", "ResetStop"}
      /\ cpc' = "SetReader" => /\ origin' = dials + 1
                               /\ conn' = [conn EXCEPT ![dials + 1] = "open"]
      /\ cpc' = "ResetStop" => origin' = NoConn /\ conn' = conn
      /\ UNCHANGED <<rpc, rerr, wpc, wconn, buff, passThrough, stop,
                     switchResult, originReader>>
  BY DEF DialOrigin, rVars, wVars
<1>2. rpc \in {"Join", "CheckStop", "AwaitSwitch"} /\ ~rerr /\ ~switchResult
  BY <1>1 DEF Meeting, Aligned, Switching
<1>3. dials + 1 \in Origins /\ dials + 1 # NoConn
  BY <1>1, ConstantsAssumption DEF Dialled, TypeOK, Origins, NoConn
<1>4. \A g \in Origins : conn[g] \in {"none", "closed"}
  BY <1>1, OriginsTyped DEF LeftClosed
<1>5. FlagsConfined'
  BY <1>1, Zenon DEF FlagsConfined, Suspended, Stopped
<1>6. Meeting'
  BY <1>1, <1>2 DEF Meeting, Switching, Ending
<1>7. (ReaderLives /\ SourceIsOrigin)'
  BY <1>1, <1>2 DEF ReaderLives, SourceIsOrigin, Ending
<1>8. Aligned'
  BY <1>1, <1>2 DEF Aligned
<1>9. LeftClosed'
  BY <1>1, <1>2, <1>3, <1>4 DEF LeftClosed, TypeOK
<1>10. Dialled'
  BY <1>1, <1>3, ConstantsAssumption DEF Dialled, NoConn
<1> QED
  BY <1>5, <1>6, <1>7, <1>8, <1>9, <1>10

(* The control part is kept by C, one step per action, ...                 *)
LEMMA CStepControl == IInv /\ CStep => ControlInv'
<1> SUFFICES ASSUME IInv, CStep PROVE ControlInv'
  OBVIOUS
<1> USE ConstantsAssumption DEF IInv, ControlInv, TypeOK, FlagsConfined,
        Suspended, Stopped, Meeting, Switching, Ending, ReaderLives,
        SourceIsOrigin, Aligned, LeftClosed, Dialled, NoConn, Origins, vars,
        cVars, rVars, wVars, proxyVars, originVars, clientVars
<1>1. CASE ReadCommand
  <2>1. FlagsConfined'
    BY <1>1, Zenon DEF ReadCommand, Suspends, FlagsConfined, Suspended, Stopped
  <2> QED
    BY <1>1, <2>1 DEF ReadCommand, Suspends
<1>2. CASE RefuseCommand
  BY <1>2 DEF RefuseCommand
<1>3. CASE ReadEOF
  BY <1>3 DEF ReadEOF
<1>4. CASE ReadTimeout
  BY <1>4 DEF ReadTimeout
<1>5. CASE EndTimedOut
  BY <1>5 DEF EndTimedOut
<1>6. CASE Reply
  BY <1>6 DEF Reply
<1>7. CASE Forward
  BY <1>7 DEF Forward
<1>8. CASE HandleAUTH
  BY <1>8 DEF HandleAUTH
<1>9. CASE TLSHandshake
  BY <1>9 DEF TLSHandshake
<1>10. CASE HandlePROT
  BY <1>10 DEF HandlePROT
<1>11. CASE HandleUSER
  BY <1>11 DEF HandleUSER
<1>12. CASE DialOrigin
  BY <1>12, DialControl
<1>13. CASE SetReader
  BY <1>13 DEF SetReader
<1>14. CASE ReadGreeting
  BY <1>14 DEF ReadGreeting
<1>15. CASE ReplayTLS
  BY <1>15 DEF ReplayTLS
<1>16. CASE ResetStop
  BY <1>16 DEF ResetStop
<1>17. CASE Unsuspend
  BY <1>17 DEF Unsuspend
<1>18. CASE SendEOFToOrigin
  BY <1>18 DEF SendEOFToOrigin
<1>19. CASE CloseClient
  BY <1>19 DEF CloseClient
<1> QED
  BY <1>1, <1>2, <1>3, <1>4, <1>5, <1>6, <1>7, <1>8, <1>9, <1>10, <1>11,
     <1>12, <1>13, <1>14, <1>15, <1>16, <1>17, <1>18, <1>19 DEF CStep

(* ... by R, ...                                                           *)
LEMMA RStepControl == IInv /\ RStep => ControlInv'
<1> SUFFICES ASSUME IInv, RStep PROVE ControlInv'
  OBVIOUS
<1> USE ConstantsAssumption DEF IInv, ControlInv, TypeOK, FlagsConfined,
        Suspended, Stopped, Meeting, Switching, Ending, ReaderLives,
        SourceIsOrigin, Aligned, LeftClosed, Dialled, NoConn, Origins, vars,
        cVars, rVars, wVars, proxyVars, originVars, clientVars
<1>1. CASE StartProxy
  BY <1>1 DEF StartProxy
<1>2. CASE SendToClient
  BY <1>2 DEF SendToClient
<1>3. CASE CloseAfterErr
  BY <1>3 DEF CloseAfterErr, CloseOriginConn
<1>4. CASE CloseForStop
  BY <1>4 DEF CloseForStop, CloseOriginConn
<1>5. CASE CheckStop
  BY <1>5 DEF CheckStop
<1>6. CASE SendEOFToClient
  BY <1>6 DEF SendEOFToClient
<1>7. CASE CloseOrigin
  BY <1>7 DEF CloseOrigin, CloseOriginConn
<1> QED
  BY <1>1, <1>2, <1>3, <1>4, <1>5, <1>6, <1>7 DEF RStep

(* ... by W, ...                                                           *)
LEMMA WStepControl == IInv /\ WStep => ControlInv'
<1> SUFFICES ASSUME IInv, WStep PROVE ControlInv'
  OBVIOUS
<1> USE ConstantsAssumption DEF IInv, ControlInv, TypeOK, FlagsConfined,
        Suspended, Stopped, Meeting, Switching, Ending, ReaderLives,
        SourceIsOrigin, Aligned, LeftClosed, Dialled, NoConn, Origins, vars,
        cVars, rVars, wVars, proxyVars, originVars, clientVars
<1>1. CASE CallRead
  BY <1>1 DEF CallRead
<1>2. CASE TakeLine
  BY <1>2 DEF TakeLine
<1>3. CASE ReadFails
  BY <1>3 DEF ReadFails
<1>4. CASE CheckErr
  BY <1>4 DEF CheckErr
<1>5. CASE ProcessLine
  BY <1>5 DEF ProcessLine
<1>6. CASE TakeLastLine
  BY <1>6 DEF TakeLastLine
<1>7. CASE MultiFails
  BY <1>7 DEF MultiFails
<1>8. CASE CheckPassThrough
  BY <1>8 DEF CheckPassThrough
<1> QED
  BY <1>1, <1>2, <1>3, <1>4, <1>5, <1>6, <1>7, <1>8 DEF WStep

(* ... and by every rendezvous.                                            *)
LEMMA RendezvousControl == IInv /\ Rendezvous => ControlInv'
<1> SUFFICES ASSUME IInv, Rendezvous PROVE ControlInv'
  OBVIOUS
<1> USE ConstantsAssumption DEF IInv, ControlInv, TypeOK, FlagsConfined,
        Suspended, Stopped, Meeting, Switching, Ending, ReaderLives,
        SourceIsOrigin, Aligned, LeftClosed, Dialled, NoConn, Origins, vars,
        cVars, rVars, wVars, proxyVars, originVars, clientVars
<1>1. CASE PassLine
  BY <1>1 DEF PassLine, MeetRW
<1>2. CASE AckLine
  BY <1>2 DEF AckLine, MeetRW
<1>3. CASE PassErr
  BY <1>3 DEF PassErr, MeetRW
<1>4. CASE JoinReader
  BY <1>4 DEF JoinReader, MeetRW
<1>5. CASE PassStop
  BY <1>5 DEF PassStop
<1>6. CASE PassStopDone
  BY <1>6 DEF PassStopDone
<1>7. CASE PassSwitched
  BY <1>7 DEF PassSwitched
<1>8. CASE EndSession
  BY <1>8 DEF EndSession, CloseOriginConn
<1> QED
  BY <1>1, <1>2, <1>3, <1>4, <1>5, <1>6, <1>7, <1>8 DEF Rendezvous

(* A peer moves no goroutine, and reopens nothing.                         *)
LEMMA PeersControl == IInv /\ Peers => ControlInv'
<1> SUFFICES ASSUME IInv, Peers PROVE ControlInv'
  OBVIOUS
<1> USE DEF IInv, ControlInv
<1>1. UNCHANGED <<cVars, rVars, wVars, proxyVars>>
  BY DEF Peers, OriginReply, OriginCloses, ClientSend, ClientCloses
<1>2. \A h \in Origins : conn[h] \in {"none", "closed"} => conn'[h] = conn[h]
  <2>1. ASSUME NEW g \in Origins, conn[g] \in {"open", "half"},
               conn' \in {conn, [conn EXCEPT ![g] = "eof"]}
        PROVE  \A h \in Origins : conn[h] \in {"none", "closed"} => conn'[h] = conn[h]
    BY <2>1 DEF TypeOK
  <2> QED
    BY <2>1 DEF Peers, OriginReply, OriginCloses, ClientSend, ClientCloses, originVars
<1>3. LeftClosed'
  BY <1>1, <1>2 DEF LeftClosed, TypeOK, NoConn, cVars, rVars, proxyVars
<1> QED
  BY <1>1, <1>3 DEF FlagsConfined, Suspended, Stopped, Meeting, Switching, Ending,
     ReaderLives, SourceIsOrigin, Aligned, Dialled, cVars, rVars, wVars, proxyVars

(* The invariant is inductive.                                             *)
LEMMA NextIInv == IInv /\ [Next]_vars => IInv'
<1> SUFFICES ASSUME IInv, [Next]_vars PROVE IInv'
  OBVIOUS
<1>1. TypeOK'
  BY TypesPreserved DEF IInv, ControlInv
<1>2. CASE UNCHANGED vars
  BY <1>2 DEF vars, cVars, rVars, wVars, proxyVars, originVars, clientVars, IInv,
     ControlInv, TypeOK, FlagsConfined, Meeting, ReaderLives, SourceIsOrigin, Aligned,
     LeftClosed, Dialled
<1>3. CASE ~UNCHANGED vars
  BY <1>1, <1>3, CStepControl, RStepControl, WStepControl, RendezvousControl,
     PeersControl DEF IInv, Next, Terminated
<1> QED
  BY <1>2, <1>3

(* Every reachable state of a control session satisfies the invariant,     *)
(* however readClientCommands, startProxy and its reader interleave.       *)
THEOREM Invariance == Spec => []IInv
BY InitIInv, NextIInv, PTL DEF Spec

-----------------------------------------------------------------------------
(* What the runs check, for every value of the constants.                  *)

(* The types of the session's variables.                                   *)
THEOREM TypeCorrect == Spec => []TypeOK
<1>1. IInv => TypeOK
  BY DEF IInv
<1> QED
  BY <1>1, Invariance, PTL

(* The proxy is suspended only inside the handlers of USER, AUTH, PBSZ and *)
(* PROT, and s.stop is set only between the two rendezvous of a switch.    *)
THEOREM FlagsCorrect == Spec => []FlagsConfined
<1>1. IInv => FlagsConfined
  BY DEF IInv, ControlInv
<1> QED
  BY <1>1, Invariance, PTL

(* Every line that sendToClient writes was read from the session's origin  *)
(* of that moment: the select loop has no stale line in its hands.         *)
THEOREM DeliversFromCurrent == Spec => []DeliverFromCurrent
<1>1. IInv => DeliverFromCurrent
  BY DEF IInv, ControlInv, ReaderLives, SourceIsOrigin, DeliverFromCurrent
<1> QED
  BY <1>1, Invariance, PTL

(* When getResponseFromOrigin has ended, no connection to an origin is     *)
(* open, however many were dialled and however the last switch ended.      *)
THEOREM NothingLeaks == Spec => []NoOriginLeak
<1>1. IInv => NoOriginLeak
  <2> SUFFICES ASSUME IInv, rpc = "Done", NEW g \in Origins
               PROVE  conn[g] \in {"none", "closed"}
    BY DEF NoOriginLeak
  <2>1. CASE g = origin
    BY <2>1, OriginsTyped DEF IInv, ControlInv, LeftClosed
  <2>2. CASE g # origin
    BY <2>2 DEF IInv, ControlInv, LeftClosed
  <2> QED
    BY <2>1, <2>2
<1> QED
  BY <1>1, Invariance, PTL

-----------------------------------------------------------------------------
(* The session implements OriginLink.                                      *)

(* pftp holds no connection but s.origin.                                  *)
LEMMA HeldIsOrigin == IInv => Held \subseteq {origin}
BY DEF IInv, ControlInv, LeftClosed, Held

(* It has dialled one when the session begins.                             *)
LEMMA InitLink == Init => Link!Init
BY OriginsTyped DEF Init, Link!Init, Held

(* A dial finds nothing held, and its connection is the only one then.     *)
LEMMA DialLink ==
    IInv /\ DialOrigin => Link!Dial \/ UNCHANGED <<Held, dials>>
<1> SUFFICES ASSUME IInv, DialOrigin
             PROVE  Link!Dial \/ UNCHANGED <<Held, dials>>
  OBVIOUS
<1>1. CASE UNCHANGED <<dials, conn>>
  BY <1>1 DEF Held
<1>2. CASE dials' = dials + 1 /\ conn' = [conn EXCEPT ![dials + 1] = "open"]
  <2>1. dials + 1 \in Origins
    BY ConstantsAssumption DEF IInv, ControlInv, Dialled, TypeOK, Origins, DialOrigin
  <2>2. \A g \in Origins : conn[g] \in {"none", "closed"}
    BY OriginsTyped DEF IInv, ControlInv, LeftClosed, DialOrigin
  <2>3. Held = {}
    BY <2>2 DEF Held
  <2>4. Held' = {dials + 1}
    BY <1>2, <2>1, <2>2 DEF Held, IInv, TypeOK
  <2> QED
    BY <1>2, <2>3, <2>4 DEF Link!Dial
<1> QED
  BY <1>1, <1>2 DEF DialOrigin

(* proxyServer.Close leaves nothing held, whoever calls it.                *)
LEMMA CloseLink ==
    ASSUME IInv, CloseOriginConn, UNCHANGED dials
    PROVE  Link!Close \/ UNCHANGED <<Held, dials>>
<1>1. Held' = {}
  BY HeldIsOrigin, OriginsTyped DEF Held, CloseOriginConn, IInv, TypeOK
<1>2. CASE Held = {}
  BY <1>1, <1>2
<1>3. CASE Held # {}
  BY <1>1, <1>3 DEF Link!Close
<1> QED
  BY <1>2, <1>3

(* A connection that one side has closed is held until pftp closes it.     *)
LEMMA HalfClosedHeld ==
    ASSUME IInv, NEW g \in Origins, conn[g] \in {"open", "half", "eof"},
           NEW to \in {"half", "eof"}, conn' = [conn EXCEPT ![g] = to]
    PROVE  Held' = Held
BY DEF Held, IInv, TypeOK

(* Every step is a step of OriginLink, or leaves its variables alone.      *)
LEMMA NextLink ==
    IInv /\ [Next]_vars => [Link!Next]_<<Held, dials>>
<1> SUFFICES ASSUME IInv, [Next]_vars
             PROVE  Link!Next \/ UNCHANGED <<Held, dials>>
  OBVIOUS
<1>1. CASE UNCHANGED <<conn, dials>>
  BY <1>1 DEF Held
<1>2. CASE DialOrigin
  BY <1>2, DialLink DEF Link!Next
<1>3. CASE CloseAfterErr \/ CloseForStop \/ CloseOrigin \/ EndSession
  <2>1. CloseOriginConn /\ UNCHANGED dials
    BY <1>3 DEF CloseAfterErr, CloseForStop, CloseOrigin, EndSession, proxyVars
  <2> QED
    BY <2>1, CloseLink DEF Link!Next
<1>4. CASE SendEOFToOrigin
  <2>1. UNCHANGED dials
    BY <1>4 DEF SendEOFToOrigin, proxyVars
  <2>2. UNCHANGED conn \/ Held' = Held
    BY <1>4, HalfClosedHeld DEF SendEOFToOrigin, IInv, TypeOK
  <2> QED
    BY <2>1, <2>2 DEF Held
<1>5. CASE Peers
  <2>1. UNCHANGED dials
    BY <1>5 DEF Peers, OriginReply, OriginCloses, ClientSend, ClientCloses, proxyVars
  <2>2. UNCHANGED conn \/ Held' = Held
    BY <1>5, HalfClosedHeld
    DEF Peers, OriginReply, OriginCloses, ClientSend, ClientCloses, originVars
  <2> QED
    BY <2>1, <2>2 DEF Held
<1>6. CASE CStep /\ ~DialOrigin /\ ~SendEOFToOrigin
  BY <1>1, <1>6 DEF CStep, ReadCommand, RefuseCommand, ReadEOF, ReadTimeout,
     EndTimedOut, Reply, Forward, HandleAUTH, TLSHandshake, HandlePROT, HandleUSER,
     SetReader, ReadGreeting, ReplayTLS, ResetStop, Unsuspend, CloseClient,
     proxyVars, originVars
<1>7. CASE RStep /\ ~(CloseAfterErr \/ CloseForStop \/ CloseOrigin)
  BY <1>1, <1>7 DEF RStep, StartProxy, SendToClient, CheckStop, SendEOFToClient,
     proxyVars, originVars
<1>8. CASE WStep
  BY <1>1, <1>8 DEF WStep, CallRead, TakeLine, ReadFails, CheckErr, ProcessLine,
     TakeLastLine, MultiFails, CheckPassThrough, proxyVars, originVars
<1>9. CASE Rendezvous /\ ~EndSession
  BY <1>1, <1>9 DEF Rendezvous, PassLine, AckLine, PassErr, JoinReader, MeetRW,
     PassStop, PassStopDone, PassSwitched, proxyVars, originVars
<1>10. CASE UNCHANGED vars
  BY <1>1, <1>10 DEF vars, proxyVars, originVars
<1> QED
  BY <1>2, <1>3, <1>4, <1>5, <1>6, <1>7, <1>8, <1>9, <1>10 DEF Next, Terminated,
     RStep, Rendezvous

(* However often USER switches the origin, and however a switch or the     *)
(* session ends, the old origin is closed before the next is dialled.      *)
THEOREM ImplementsOriginLink == Spec => OriginLinkSpec
BY InitLink, NextLink, Invariance, PTL DEF Spec, OriginLinkSpec, Link!Spec

-----------------------------------------------------------------------------
(* The client that waits.  Every command, and the welcome, is answered     *)
(* once, and the client sends the next one afterwards: so one command at   *)
(* most is under way, and where it is decides what the goroutines can do.  *)

(* What the run "patient" assumes of the surroundings: each of the four is *)
(* needed, for each makes pftp say more than one reply to a command, or    *)
(* lets the client send the next one early.                                *)
PatientClient ==
    ~Pipelining /\ ~PeersMayFail /\ ~IdleTimeouts /\ ~MultiLineGreeting

(* W and R hold no line that is still to be written to the client.         *)
Idle ==
    \/ wpc \in {"None", "Read", "Blocked", "ErrCheck", "OfferErr", "OfferDone"}
    \/ wpc = "AwaitAck" /\ rpc = "Ack"

(* No reply of the origin is due; when R has ended, none can come.         *)
Quiet ==
    \/ rpc \in Ending
    \/ toOrigin[origin] = <<>> /\ fromOrigin[origin] = <<>> /\ Idle

(* A 230 is one that the session's origin has given.                       *)
Earned(code) == code = "230" => origin \in accepted

(* One reply is due: its command is at the origin, its lines are on their  *)
(* way, or W or R holds it.                                                *)
AtOrigin ==
    /\ Idle /\ fromOrigin[origin] = <<>>
    /\ \E cmd \in Commands : toOrigin[origin] = <<cmd>>
OnItsWay ==
    /\ Idle /\ toOrigin[origin] = <<>>
    /\ \E code \in Codes :
         /\ Earned(code)
         /\ \/ fromOrigin[origin] = <<Final(code)>>
            \/ fromOrigin[origin] = <<First(code), Final(code)>> /\ code # "220"
LastOnItsWay ==
    \E code \in Codes : Earned(code) /\ fromOrigin[origin] = <<Final(code)>>
WithReader ==
    /\ rpc \in {"Select", "Deliver"} /\ toOrigin[origin] = <<>>
    /\ \/ /\ wpc = "Process" /\ Earned(buff.line.code)
          /\ IF buff.line.more THEN buff.line.code # "220" /\ LastOnItsWay
             ELSE fromOrigin[origin] = <<>>
       \/ wpc = "Multi" /\ wconn = origin /\ LastOnItsWay
       \/ wpc \in {"CheckPass", "OfferLine"} /\ fromOrigin[origin] = <<>>
       \/ wpc = "AwaitAck" /\ rpc = "Deliver" /\ fromOrigin[origin] = <<>>
Due == AtOrigin \/ OnItsWay \/ WithReader

(* A new origin has only greeted.  W, which may read from it already, may  *)
(* take the greeting before C does, and drops it.                          *)
Greeted ==
    /\ toOrigin[origin] = <<>>
    /\ \/ Idle /\ fromOrigin[origin] \in {<<>>, <<Final("220")>>}
       \/ /\ wpc \in {"Process", "CheckPass"} /\ buff.line = Final("220")
          /\ fromOrigin[origin] = <<>>
    /\ cpc = "Replay" \/ switchResult => Idle /\ fromOrigin[origin] = <<>>

(* C has a command in hand, of which the origin has not heard.             *)
Handling == {"USER", "AUTH", "PROT", "Forward", "SendStop", "AwaitStopDone",
             "Dial", "Unsuspend"}
Fresh    == {"SetReader", "Greet", "Replay", "ResetStop", "SendSwitched"}
Resting  == {"Read", "Exit", "CloseClient", "Done", "Over"}

(* Whose turn it is.                                                       *)
Turns ==
    /\ cpc \in Handling \cup Fresh \cup Resting \cup {"Handshake", "Reply"}
    /\ cpc \in Handling \cup {"Handshake", "Reply"} => Quiet
    /\ cpc \in Handling \cup Fresh => toPftp = <<>>
    /\ cpc \in Fresh => Greeted
    /\ cpc \in Resting => Quiet \/ (Due /\ toPftp = <<>>)
    /\ Len(toPftp) <= 1

(* While the client is there, the replies written and those to come are no *)
(* more than its commands and the welcome.                                 *)
Waits  == IF cpc \in Handling \cup Fresh \cup {"Reply"} THEN 1 ELSE 0
Comes  == IF cpc \in Fresh \/ Quiet THEN 0 ELSE 1
Budget == clientOpen => replies + Len(toPftp) + Waits + Comes <= sent + 1

(* Nothing is under way to or from an origin that was replaced, or is not  *)
(* dialled yet; and W has nothing in hand when its error has ended R.      *)
Elsewhere ==
    /\ \A g \in Origins : g # origin => fromOrigin[g] = <<>> /\ toOrigin[g] = <<>>
    /\ origin = dials
    /\ originReader = origin \/ cpc = "SetReader"
    /\ rpc = "CloseAfterErr" => rerr
    /\ rerr /\ rpc \in {"CloseAfterErr", "Join"} => wpc = "OfferDone"
    /\ ~rerr /\ rpc = "Join" => cpc \in Fresh \cup {"Dial"}

(* The login is one at the origin, and there is none during a switch.      *)
Login ==
    /\ isLoggedin => origin \in accepted
    /\ cpc \in Fresh \cup {"SendStop", "AwaitStopDone", "Dial"} => ~isLoggedin

PatientInv == Turns /\ Budget /\ Elsewhere /\ Login

-----------------------------------------------------------------------------
(* Short sequences.                                                        *)

(* One element, taken from or added to a queue.                            *)
LEMMA OneElement ==
    ASSUME NEW e
    PROVE  <<e>> # <<>> /\ Len(<<e>>) = 1 /\ Head(<<e>>) = e /\ Tail(<<e>>) = <<>>
           /\ Append(<<>>, e) = <<e>>
OBVIOUS

LEMMA TwoElements ==
    ASSUME NEW e, NEW f
    PROVE  <<e, f>> # <<>> /\ Head(<<e, f>>) = e /\ Tail(<<e, f>>) = <<f>>
OBVIOUS

LEMMA ShortQueue ==
    ASSUME NEW S, NEW q \in Seq(S), Len(q) <= 1, q # <<>>
    PROVE  Len(q) = 1 /\ Tail(q) = <<>> /\ Len(Tail(q)) = 0
<1>1. Len(q) = 1
  <2>1. Len(q) \in Nat /\ Len(q) # 0
    BY LenProperties, EmptySeq
  <2> QED
    BY <2>1
<1>2. Tail(q) \in Seq(S) /\ Len(Tail(q)) = 0
  BY <1>1, HeadTailProperties
<1> QED
  BY <1>1, <1>2, EmptySeq

(* A queue that was empty keeps one command.                               *)
LEMMA FirstInQueue ==
    ASSUME NEW S, NEW e \in S
    PROVE  <<>> \in Seq(S) /\ Len(<<>>) = 0 /\ Len(Append(<<>>, e)) = 1
OBVIOUS

(* A greeting or a line of the origin is not empty, and a last line is not *)
(* a first one.                                                            *)
LEMMA LineFields ==
    ASSUME NEW code
    PROVE  /\ Final(code).code = code /\ Final(code).more = FALSE
           /\ First(code).code = code /\ First(code).more = TRUE
BY DEF Final, First

-----------------------------------------------------------------------------
(* What the steps leave alone.                                             *)
originSide == <<rVars, wVars, toOrigin, fromOrigin, accepted, origin>>

(* Nothing is due, or one reply, as before when neither R nor W nor the    *)
(* queues of the origin move.                                              *)
LEMMA DueStays ==
    ASSUME UNCHANGED originSide
    PROVE  (Quiet' <=> Quiet) /\ (Due' <=> Due) /\ (Idle' <=> Idle)
<1>1. UNCHANGED <<rpc, rerr, wpc, wconn, buff, toOrigin, fromOrigin, accepted, origin>>
  BY DEF originSide, rVars, wVars
<1>2. (Idle' <=> Idle) /\ (Quiet' <=> Quiet)
  BY <1>1 DEF Idle, Quiet
<1>3. (AtOrigin' <=> AtOrigin) /\ (OnItsWay' <=> OnItsWay)
  BY <1>1, <1>2 DEF AtOrigin, OnItsWay, Earned
<1>4. WithReader' <=> WithReader
  BY <1>1 DEF WithReader, LastOnItsWay, Earned
<1> QED
  BY <1>2, <1>3, <1>4 DEF Due

(* Nor does a greeting.                                                    *)
LEMMA GreetedStays ==
    ASSUME UNCHANGED originSide, UNCHANGED switchResult, Greeted, cpc' # "Replay" \/ cpc = "Replay"
    PROVE  Greeted'
<1>1. UNCHANGED <<rpc, rerr, wpc, wconn, buff, toOrigin, fromOrigin, accepted, origin>>
  BY DEF originSide, rVars, wVars
<1> QED
  BY <1>1, DueStays DEF Greeted

(* A step of C that leaves the origin alone, and the login.                *)
LEMMA ElsewhereStays ==
    ASSUME Elsewhere, UNCHANGED originSide, UNCHANGED <<dials, originReader>>,
           cpc = "SetReader" => cpc' = "SetReader",
           cpc \in Fresh \cup {"Dial"} => cpc' \in Fresh \cup {"Dial"}
    PROVE  Elsewhere'
<1>1. UNCHANGED <<rpc, rerr, wpc, toOrigin, fromOrigin, origin>>
  BY DEF originSide, rVars, wVars
<1> QED
  BY <1>1 DEF Elsewhere

LEMMA LoginStays ==
    ASSUME Login, UNCHANGED <<isLoggedin, origin, accepted>>,
           cpc' \in Fresh \cup {"SendStop", "AwaitStopDone", "Dial"}
             => cpc \in Fresh \cup {"SendStop", "AwaitStopDone", "Dial"}
    PROVE  Login'
BY DEF Login

(* The types that the arithmetic of Budget needs.                          *)
LEMMA Counts ==
    ASSUME TypeOK
    PROVE  replies \in Nat /\ sent \in Nat /\ Len(toPftp) \in Nat
           /\ Waits \in {0, 1} /\ Comes \in {0, 1}
BY LenProperties DEF TypeOK, Waits, Comes

-----------------------------------------------------------------------------
(* C.  Most of its steps leave the origin alone.                           *)

(* A command is taken from the client.                                     *)
LEMMA TakeCommand ==
    ASSUME TypeOK, PatientInv, ReadCommand \/ RefuseCommand
    PROVE  PatientInv'
<1>1. /\ cpc = "Read" /\ toPftp # <<>> /\ toPftp' = Tail(toPftp)
      /\ cpc' \in {"USER", "AUTH", "PROT", "Forward", "Reply"}
      /\ UNCHANGED originSide /\ UNCHANGED <<dials, originReader, isLoggedin>>
      /\ UNCHANGED <<clientOpen, sent, replies>>
  BY DEF ReadCommand, RefuseCommand, Suspends, originSide, rVars, wVars, originVars, proxyVars
<1>2. Quiet /\ Quiet' /\ toPftp' = <<>> /\ Len(toPftp) = 1 /\ Len(toPftp') = 0
  <2>1. toPftp \in Seq(Commands) /\ Len(toPftp) <= 1
    BY DEF TypeOK, PatientInv, Turns
  <2> QED
    BY <1>1, <2>1, ShortQueue, DueStays DEF PatientInv, Turns, Resting
<1>3. Turns'
  <2>1. cpc' \in {"USER", "AUTH", "PROT", "Forward", "Reply"}
    BY <1>1
  <2>2. Len(toPftp') <= 1
    BY <1>2
  <2> QED
    BY <1>2, <2>1, <2>2 DEF Turns, Handling, Fresh, Resting
<1>4. Budget'
  <2>1. Waits = 0 /\ Comes = 0 /\ Waits' = 1 /\ Comes' = 0
    BY <1>1, <1>2 DEF Waits, Comes, Handling, Fresh
  <2>2. /\ clientOpen => replies + Len(toPftp) + Waits + Comes <= sent + 1
        /\ UNCHANGED <<clientOpen, sent, replies>>
    BY <1>1 DEF PatientInv, Budget
  <2>3. replies \in Nat /\ sent \in Nat
    BY Counts
  <2> QED
    BY <1>2, <2>1, <2>2, <2>3 DEF Budget
<1>5. Elsewhere'
  BY <1>1, ElsewhereStays DEF PatientInv, Fresh
<1>6. Login'
  BY <1>1, LoginStays DEF PatientInv, Fresh, originSide
<1> QED
  BY <1>3, <1>4, <1>5, <1>6 DEF PatientInv

(* C rests, or answers the command that it has in hand; a handshake fails  *)
(* only when the client has gone.                                          *)
LEMMA AnswerCommand ==
    ASSUME TypeOK, PatientInv, PatientClient,
           \/ Reply \/ HandleAUTH \/ TLSHandshake \/ HandlePROT \/ HandleUSER
    PROVE  PatientInv'
<1>1. /\ UNCHANGED originSide
      /\ UNCHANGED <<dials, originReader, isLoggedin, toPftp, clientOpen, sent>>
  BY DEF Reply, HandleAUTH, TLSHandshake, HandlePROT, HandleUSER,
         originSide, rVars, wVars, originVars, proxyVars, clientVars
<1>2. /\ cpc \in {"Reply", "AUTH", "Handshake", "PROT", "USER"}
      /\ cpc' \in {"Read", "Exit", "Handshake", "Reply", "Forward", "SendStop"}
      /\ cpc' \in {"Forward", "SendStop"} => cpc \in {"PROT", "USER"}
      /\ cpc' = "SendStop" => ~isLoggedin
  BY DEF Reply, HandleAUTH, TLSHandshake, HandlePROT, HandleUSER
<1>3. Quiet /\ Quiet'
  BY <1>1, <1>2, DueStays DEF PatientInv, Turns, Handling
<1>4. Turns'
  BY <1>1, <1>2, <1>3 DEF PatientInv, Turns, Handling, Fresh, Resting
<1>5. Budget'
  <2>1. clientOpen => replies' + Waits' <= replies + Waits
    <3>1. \/ replies' = replies /\ (cpc = "Handshake" /\ clientOpen => cpc' = "Read")
          \/ /\ replies' = replies + 1 /\ cpc # "Handshake"
             /\ cpc' \in {"Handshake", "Read", "Exit"}
      <4>1. CASE Reply
        BY <4>1 DEF Reply, WriteToClient
      <4>2. CASE HandleAUTH
        BY <4>2 DEF HandleAUTH
      <4>3. CASE TLSHandshake
        BY <4>3 DEF TLSHandshake, PatientClient, clientVars
      <4>4. CASE HandlePROT
        BY <4>4 DEF HandlePROT, WriteToClient
      <4>5. CASE HandleUSER
        BY <4>5 DEF HandleUSER, clientVars
      <4> QED
        BY <4>1, <4>2, <4>3, <4>4, <4>5
    <3>2. /\ cpc # "Handshake" => Waits = 1
          /\ cpc' \in {"Handshake", "Read", "Exit"} => Waits' = 0
      BY <1>2 DEF Waits, Handling, Fresh
    <3>3. replies \in Nat /\ Waits \in {0, 1} /\ Waits' \in {0, 1}
      BY Counts DEF Waits
    <3> QED
      BY <3>1, <3>2, <3>3
  <2>2. Comes = 0 /\ Comes' = 0
    BY <1>3 DEF Comes
  <2>3. replies' \in Nat /\ Waits' \in {0, 1}
    <3>1. replies' = replies \/ replies' = replies + 1
      BY DEF Reply, HandleAUTH, TLSHandshake, HandlePROT, HandleUSER, WriteToClient, clientVars
    <3> QED
      BY <3>1, Counts DEF Waits
  <2> QED
    BY <1>1, <2>1, <2>2, <2>3, Counts DEF PatientInv, Budget
<1>6. Elsewhere'
  BY <1>1, <1>2, ElsewhereStays DEF PatientInv, Fresh
<1>7. Login'
  BY <1>1, <1>2 DEF PatientInv, Login, Fresh, originSide
<1> QED
  BY <1>4, <1>5, <1>6, <1>7 DEF PatientInv

(* C leaves the loop, or says nothing in a switch that has gone well.      *)
LEMMA LeaveLoop ==
    ASSUME TypeOK, PatientInv,
           ReadEOF \/ SendEOFToOrigin \/ CloseClient \/ Unsuspend
    PROVE  PatientInv'
<1>1. /\ UNCHANGED originSide
      /\ UNCHANGED <<dials, originReader, isLoggedin, toPftp, clientOpen, sent, replies>>
  BY DEF ReadEOF, SendEOFToOrigin, CloseClient, Unsuspend,
         originSide, rVars, wVars, originVars, proxyVars, clientVars
<1>2. \/ cpc \in Resting /\ cpc' \in Resting
      \/ cpc = "Unsuspend" /\ cpc' = "Forward"
  BY DEF ReadEOF, SendEOFToOrigin, CloseClient, Unsuspend, Resting
<1>3. (Quiet' <=> Quiet) /\ (Due' <=> Due)
  BY <1>1, DueStays
<1>4. Turns'
  BY <1>1, <1>2, <1>3 DEF PatientInv, Turns, Handling, Fresh, Resting
<1>5. Budget'
  BY <1>1, <1>2, <1>3 DEF PatientInv, Budget, Waits, Comes, Handling, Fresh, Resting
<1>6. Elsewhere'
  BY <1>1, <1>2, ElsewhereStays DEF PatientInv, Fresh, Resting
<1>7. Login'
  BY <1>1, <1>2 DEF PatientInv, Login, Fresh, originSide, Resting
<1> QED
  BY <1>4, <1>5, <1>6, <1>7 DEF PatientInv

(* The command goes to the origin, unless pftp has closed the connection.  *)
LEMMA ForwardCommand ==
    ASSUME IInv, PatientInv, Forward
    PROVE  PatientInv'
<1>1. /\ cpc = "Forward" /\ cpc' \in {"Read", "Reply"}
      /\ UNCHANGED <<rVars, wVars, fromOrigin, accepted, origin>>
      /\ UNCHANGED <<dials, originReader, isLoggedin, toPftp, clientOpen, sent, replies>>
  BY DEF Forward, clientVars
<1>2. Quiet /\ toPftp = <<>> /\ origin = originReader /\ origin \in Origins
  <2>1. origin = originReader
    BY <1>1 DEF PatientInv, Elsewhere
  <2> QED
    BY <1>1, <2>1 DEF PatientInv, Turns, Handling, IInv, TypeOK
<1>3. \/ toOrigin' = toOrigin
      \/ cpc' = "Read" /\ toOrigin' = [toOrigin EXCEPT ![origin] = Append(@, command)]
  BY <1>2 DEF Forward
<1>4. CASE toOrigin' = toOrigin
  <2>1. Quiet'
    BY <1>1, <1>2, <1>4, DueStays DEF originSide
  <2>2. Turns'
    BY <1>1, <1>2, <2>1 DEF PatientInv, Turns, Handling, Fresh, Resting
  <2>3. Budget'
    BY <1>1, <1>2, <2>1, Counts DEF PatientInv, Budget, Waits, Comes, Handling, Fresh, IInv
  <2>4. Elsewhere'
    BY <1>1, <1>4, ElsewhereStays DEF PatientInv, Fresh, originSide
  <2> QED
    BY <1>1, <2>2, <2>3, <2>4, LoginStays DEF PatientInv, Fresh
<1>5. CASE cpc' = "Read" /\ toOrigin' = [toOrigin EXCEPT ![origin] = Append(@, command)]
  <2>1. toOrigin \in [Origins -> Seq(Commands)] /\ command \in Commands
    BY DEF IInv, TypeOK
  <2>2. Quiet' \/ Due'
    <3>1. CASE rpc \in Ending
      BY <1>1, <3>1 DEF Quiet, rVars
    <3>2. CASE rpc \notin Ending
      <4>1. toOrigin[origin] = <<>> /\ fromOrigin[origin] = <<>> /\ Idle
        BY <1>2, <3>2 DEF Quiet
      <4>2. toOrigin'[origin'] = <<command>>
        BY <1>1, <1>2, <1>5, <2>1, <4>1, OneElement
      <4>3. Idle'
        BY <1>1, <4>1 DEF Idle, rVars, wVars
      <4>4. AtOrigin'
        BY <1>1, <2>1, <4>1, <4>2, <4>3 DEF AtOrigin
      <4> QED
        BY <4>4 DEF Due
    <3> QED
      BY <3>1, <3>2
  <2>3. Turns'
    BY <1>1, <1>2, <1>5, <2>2 DEF PatientInv, Turns, Handling, Fresh, Resting
  <2>4. Budget'
    BY <1>1, <1>2, <1>5, Counts DEF PatientInv, Budget, Waits, Comes, Handling, Fresh, IInv
  <2>5. Elsewhere'
    BY <1>1, <1>5, <2>1 DEF PatientInv, Elsewhere, Fresh, rVars, wVars
  <2> QED
    BY <1>1, <2>3, <2>4, <2>5, LoginStays DEF PatientInv, Fresh
<1> QED
  BY <1>3, <1>4, <1>5

-----------------------------------------------------------------------------
(* C in a switch.                                                          *)

(* A new origin is dialled: all that is under way is its greeting.         *)
LEMMA DialNew ==
    ASSUME IInv, PatientInv, PatientClient, DialOrigin
    PROVE  PatientInv'
<1>1. PICK greeting \in Greetings :
        /\ cpc = "Dial" /\ cpc' = "SetReader"
        /\ origin' = dials + 1 /\ dials' = dials + 1
        /\ fromOrigin' = [fromOrigin EXCEPT ![dials + 1] = greeting]
        /\ UNCHANGED <<rVars, wVars, toOrigin, accepted, originReader, isLoggedin>>
        /\ UNCHANGED <<switchResult, toPftp, clientOpen, sent, replies>>
  BY DEF DialOrigin, PatientClient, clientVars
<1>2. greeting = <<Final("220")>>
  BY DEF PatientClient, Greetings
<1>3. /\ rpc \notin Ending /\ ~switchResult /\ Quiet /\ toPftp = <<>> /\ Idle
      /\ toOrigin[origin] = <<>> /\ fromOrigin[origin] = <<>>
  <2>1. rpc \in {"Join", "CheckStop", "AwaitSwitch"} /\ ~switchResult
    BY <1>1 DEF IInv, ControlInv, Meeting, Aligned, Switching
  <2>2. Quiet /\ toPftp = <<>>
    BY <1>1 DEF PatientInv, Turns, Handling
  <2> QED
    BY <2>1, <2>2 DEF Quiet, Ending
<1>4. dials + 1 \in Origins /\ dials + 1 # origin /\ origin = dials
      /\ fromOrigin \in [Origins -> Seq(Line)] /\ origin \in Origins
  BY <1>1, ConstantsAssumption
     DEF IInv, ControlInv, Dialled, TypeOK, Origins, PatientInv, Elsewhere
<1>5. /\ fromOrigin'[origin'] = <<Final("220")>> /\ toOrigin'[origin'] = <<>>
      /\ \A g \in Origins : g # origin' => fromOrigin'[g] = <<>> /\ toOrigin'[g] = <<>>
  BY <1>1, <1>2, <1>3, <1>4 DEF PatientInv, Elsewhere
<1>6. Idle'
  BY <1>1, <1>3 DEF Idle, rVars, wVars
<1>7. Greeted'
  BY <1>1, <1>3, <1>5, <1>6 DEF Greeted
<1>8. Turns'
  BY <1>1, <1>3, <1>7 DEF PatientInv, Turns, Handling, Fresh, Resting
<1>9. Budget'
  BY <1>1, <1>3, Counts DEF PatientInv, Budget, Waits, Comes, Handling, Fresh, IInv
<1>10. Elsewhere'
  BY <1>1, <1>5 DEF PatientInv, Elsewhere, Fresh, rVars, wVars
<1>11. Login'
  BY <1>1 DEF PatientInv, Login, Fresh
<1> QED
  BY <1>8, <1>9, <1>10, <1>11 DEF PatientInv

(* The steps between the dial and the end of the switch that leave the     *)
(* greeting where it is.                                                   *)
LEMMA SwitchGoesOn ==
    ASSUME IInv, PatientInv, SetReader \/ ReplayTLS \/ ResetStop
    PROVE  PatientInv'
<1>1. /\ cpc \in Fresh /\ cpc' \in Fresh \ {"SetReader", "Replay"}
      /\ cpc = "Replay" \/ switchResult' = switchResult
      /\ originReader' = IF cpc = "SetReader" THEN origin ELSE originReader
      /\ UNCHANGED originSide
      /\ UNCHANGED <<dials, isLoggedin, toPftp, clientOpen, sent, replies>>
  BY DEF SetReader, ReplayTLS, ResetStop, Fresh, originSide, rVars, wVars, originVars,
         proxyVars, clientVars
<1>2. Greeted /\ toPftp = <<>>
  BY <1>1 DEF PatientInv, Turns
<1>3. Greeted'
  <2>1. UNCHANGED <<rpc, wpc, buff, toOrigin, fromOrigin, origin>> /\ (Idle' <=> Idle)
    BY <1>1, DueStays DEF originSide, rVars, wVars
  <2>2. cpc' # "Replay" /\ (cpc = "Replay" \/ switchResult' = switchResult)
    BY <1>1
  <2> QED
    BY <1>2, <2>1, <2>2 DEF Greeted
<1>4. Turns'
  BY <1>1, <1>2, <1>3 DEF PatientInv, Turns, Handling, Fresh, Resting
<1>5. Budget'
  BY <1>1 DEF PatientInv, Budget, Waits, Comes
<1>6. Elsewhere'
  BY <1>1 DEF PatientInv, Elsewhere, originSide, rVars, wVars
<1>7. Login'
  BY <1>1 DEF PatientInv, Login, originSide
<1> QED
  BY <1>4, <1>5, <1>6, <1>7 DEF PatientInv

(* C takes the greeting, and then nothing is under way; or W has taken it, *)
(* and C waits until the connection ends.                                  *)
LEMMA GreetingRead ==
    ASSUME IInv, PatientInv, ReadGreeting
    PROVE  PatientInv'
<1>1. /\ cpc = "Greet" /\ cpc' \in {"Replay", "ResetStop"}
      /\ UNCHANGED <<rVars, wVars, toOrigin, accepted, originReader, origin, isLoggedin>>
      /\ UNCHANGED <<switchResult, dials, toPftp, clientOpen, sent, replies>>
  BY DEF ReadGreeting, proxyVars, clientVars
<1>2. Greeted /\ toPftp = <<>> /\ ~switchResult /\ origin = originReader /\ origin \in Origins
      /\ fromOrigin \in [Origins -> Seq(Line)]
  <2>1. Greeted /\ toPftp = <<>> /\ origin = originReader
    BY <1>1 DEF PatientInv, Turns, Elsewhere, Fresh
  <2> QED
    BY <1>1, <2>1 DEF IInv, ControlInv, Aligned, TypeOK
<1>3. Idle' <=> Idle
  BY <1>1 DEF Idle, rVars, wVars
<1>4. CASE fromOrigin' = fromOrigin /\ cpc' = "ResetStop"
  BY <1>1, <1>2, <1>3, <1>4 DEF PatientInv, Turns, Handling, Fresh, Resting, Greeted,
     Budget, Waits, Comes, Elsewhere, Login, rVars, wVars
<1>5. CASE /\ fromOrigin[origin] # <<>>
           /\ fromOrigin' = [fromOrigin EXCEPT ![origin] = Tail(@)]
           /\ cpc' = "Replay"
  <2>1. fromOrigin[origin] = <<Final("220")>> /\ Idle /\ toOrigin[origin] = <<>>
    BY <1>2, <1>5 DEF Greeted
  <2>2. fromOrigin'[origin] = <<>>
    BY <1>2, <1>5, <2>1, OneElement
  <2>3. Greeted'
    BY <1>1, <1>3, <2>1, <2>2 DEF Greeted
  <2>4. Turns'
    BY <1>1, <1>2, <1>5, <2>3 DEF PatientInv, Turns, Handling, Fresh, Resting
  <2>5. Budget'
    BY <1>1, <1>5 DEF PatientInv, Budget, Waits, Comes, Fresh
  <2>6. Elsewhere'
    BY <1>1, <1>2, <1>5 DEF PatientInv, Elsewhere, Fresh, rVars, wVars
  <2>7. Login'
    BY <1>1, <1>5 DEF PatientInv, Login, Fresh
  <2> QED
    BY <2>4, <2>5, <2>6, <2>7 DEF PatientInv
<1> QED
  BY <1>2, <1>4, <1>5 DEF ReadGreeting

(* Every step of C.                                                        *)
LEMMA CStepPatient ==
    ASSUME IInv, PatientInv, PatientClient, CStep
    PROVE  PatientInv'
<1>1. TypeOK
  BY DEF IInv
<1>2. ~ReadTimeout /\ ~EndTimedOut
  BY DEF ReadTimeout, EndTimedOut, PatientClient, PatientInv, Turns, Handling, Fresh, Resting
<1> QED
  BY <1>1, <1>2, TakeCommand, AnswerCommand, LeaveLoop, ForwardCommand, DialNew,
     SwitchGoesOn, GreetingRead DEF CStep

-----------------------------------------------------------------------------
(* R and W.  Their steps leave C and the client's queue alone.             *)

(* A step after which as much is due as before.                            *)
LEMMA SameDue ==
    ASSUME TypeOK, Turns, Budget, UNCHANGED <<cVars, toPftp, clientOpen, sent, replies>>,
           cpc \in Fresh => Greeted',
           cpc \notin Fresh /\ Quiet => Quiet',
           cpc \in Resting /\ Due => Quiet' \/ Due'
    PROVE  Turns' /\ Budget'
<1>1. cpc' = cpc /\ UNCHANGED <<toPftp, clientOpen, sent, replies>>
  BY DEF cVars
<1>2. Turns'
  BY <1>1 DEF Turns, Handling, Fresh, Resting
<1>3. Waits' = Waits /\ Comes' <= Comes /\ Comes' \in {0, 1}
  BY <1>1 DEF Waits, Comes
<1> QED
  BY <1>1, <1>2, <1>3, Counts DEF Budget

(* W and R stay where the origin's lines do not matter.                    *)
LEMMA StillIdle ==
    ASSUME Idle, Idle', UNCHANGED <<toOrigin, fromOrigin, accepted, origin, cpc, switchResult>>,
           rpc \in Ending => rpc' \in Ending
    PROVE  /\ Greeted => Greeted'
           /\ Quiet => Quiet'
           /\ Due => Due'
<1>1. Greeted => Greeted'
  BY DEF Greeted, Idle
<1>2. Quiet => Quiet'
  BY DEF Quiet
<1>3. AtOrigin => AtOrigin'
  BY DEF AtOrigin
<1>4. OnItsWay => OnItsWay'
  BY DEF OnItsWay, Earned
<1>5. ~WithReader
  BY DEF WithReader, Idle
<1> QED
  BY <1>1, <1>2, <1>3, <1>4, <1>5 DEF Due

(* So do their places with regard to replaced origins.                     *)
LEMMA ReaderElsewhere ==
    ASSUME Elsewhere, UNCHANGED <<cpc, origin, originReader, dials, toOrigin, fromOrigin>>,
           rpc' = "CloseAfterErr" => rerr',
           rerr' /\ rpc' \in {"CloseAfterErr", "Join"} => wpc' = "OfferDone",
           ~rerr' /\ rpc' = "Join" => cpc \in Fresh \cup {"Dial"}
    PROVE  Elsewhere'
BY DEF Elsewhere

(* The steps of R, apart from the writing of a line.                       *)
LEMMA RStepPatient ==
    ASSUME IInv, PatientInv, RStep, ~SendToClient
    PROVE  PatientInv'
<1>1. /\ UNCHANGED <<cVars, toPftp, clientOpen, sent, replies>>
      /\ UNCHANGED <<toOrigin, fromOrigin, accepted, origin, originReader, dials, isLoggedin>>
      /\ UNCHANGED <<rerr, wconn, buff>>
  BY DEF RStep, StartProxy, CloseAfterErr, CloseForStop, CheckStop, SendEOFToClient,
         CloseOrigin, wVars, proxyVars, originVars, clientVars
<1>2. \/ /\ wpc' = wpc
         /\ \/ rpc \in Ending /\ rpc' \in Ending
            \/ rpc = "CloseAfterErr" /\ rpc' = "Join"
            \/ rpc = "CloseForStop" /\ rpc' = "StopDone"
            \/ rpc = "CheckStop" /\ rpc' \in {"AwaitSwitch", "Start"}
            \/ rpc = "Start" /\ rpc' = "CheckStop"
      \/ rpc = "Start" /\ rpc' = "Select" /\ wpc' = "Read"
  BY DEF RStep, StartProxy, CloseAfterErr, CloseForStop, CheckStop, SendEOFToClient,
         CloseOrigin, wVars, Ending
<1>3. /\ wpc = "None" <=> rpc \in {"Start", "CheckStop", "AwaitSwitch"} \cup Ending
      /\ wpc = "AwaitAck" <=> rpc \in {"Deliver", "Ack"}
  BY DEF IInv, ControlInv, ReaderLives
<1>4. cpc \in Fresh => Greeted'
  <2>1. ASSUME cpc \in Fresh PROVE Greeted
    BY <2>1 DEF PatientInv, Turns
  <2>2. (Idle' <=> Idle) /\ (wpc' = wpc \/ Idle)
    BY <1>2, <1>3 DEF Idle, Ending
  <2> QED
    BY <1>1, <2>1, <2>2 DEF Greeted, cVars
<1>5. Quiet => Quiet'
  BY <1>1, <1>2, <1>3 DEF Quiet, Idle, Ending
<1>6. Due => Quiet' \/ Due'
  <2>1. CASE rpc' \in Ending
    BY <2>1 DEF Quiet
  <2>2. CASE rpc' \notin Ending
    <3>1. (Idle' <=> Idle) /\ rpc \notin {"Select", "Deliver"}
      BY <1>2, <1>3, <2>2 DEF Idle, Ending
    <3>2. Due => AtOrigin \/ OnItsWay
      BY <3>1 DEF Due, WithReader
    <3> QED
      BY <1>1, <3>1, <3>2 DEF Due, AtOrigin, OnItsWay, Earned
  <2> QED
    BY <2>1, <2>2
<1>7. Turns' /\ Budget'
  BY <1>1, <1>4, <1>5, <1>6, SameDue DEF PatientInv, IInv
<1>8. Elsewhere'
  BY <1>1, <1>2 DEF PatientInv, Elsewhere, Ending, cVars
<1>9. Login'
  BY <1>1 DEF PatientInv, Login, cVars
<1> QED
  BY <1>7, <1>8, <1>9 DEF PatientInv

(* R writes a line only while C rests, and with that the reply is written. *)
LEMMA DeliverPatient ==
    ASSUME IInv, PatientInv, SendToClient
    PROVE  PatientInv'
<1>1. /\ rpc = "Deliver" /\ rpc' = "Ack" /\ wpc = "AwaitAck" /\ wpc' = wpc
      /\ replies' = replies \/ replies' = replies + 1
      /\ UNCHANGED <<cVars, toPftp, clientOpen, sent>>
      /\ UNCHANGED <<toOrigin, fromOrigin, accepted, origin, originReader, dials, isLoggedin>>
  BY DEF SendToClient, WriteToClient, wVars, proxyVars, originVars, IInv, ControlInv, ReaderLives
<1>2. ~Quiet /\ ~Greeted /\ ~Idle /\ Idle'
  BY <1>1 DEF Quiet, Greeted, Idle, Ending
<1>3. cpc \in Resting /\ Due /\ toPftp = <<>>
  BY <1>2 DEF PatientInv, Turns
<1>4. toOrigin[origin] = <<>> /\ fromOrigin[origin] = <<>>
  BY <1>1, <1>2, <1>3 DEF Due, AtOrigin, OnItsWay, WithReader
<1>5. Quiet'
  BY <1>1, <1>2, <1>4 DEF Quiet
<1>6. Turns'
  BY <1>1, <1>3, <1>5 DEF PatientInv, Turns, Handling, Fresh, Resting, cVars
<1>7. Budget'
  <2>1. Comes = 1 /\ Comes' = 0 /\ Waits' = Waits /\ cpc' = cpc
    BY <1>1, <1>2, <1>3, <1>5 DEF Comes, Waits, Fresh, Resting, cVars
  <2> QED
    BY <1>1, <2>1, Counts DEF PatientInv, Budget, IInv
<1>8. Elsewhere'
  BY <1>1 DEF PatientInv, Elsewhere, cVars
<1>9. Login'
  BY <1>1 DEF PatientInv, Login, cVars
<1> QED
  BY <1>6, <1>7, <1>8, <1>9 DEF PatientInv

(* W runs while R is in its select loop or on its way to join it; in the   *)
(* second case C is in a switch, or W has offered its error.               *)
LEMMA ReaderWorks ==
    ASSUME IInv, PatientInv,
           wpc \in {"Read", "Blocked", "Process", "Multi", "CheckPass", "ErrCheck"}
    PROVE  /\ rpc = "Select" \/ cpc \in Fresh \cup {"AwaitStopDone", "Dial"}
           /\ rpc \notin Ending \cup {"Deliver", "Ack", "CloseAfterErr"}
           /\ rpc = "Join" => ~rerr
<1>1. rpc \in {"Select", "CloseAfterErr", "CloseForStop", "StopDone", "Join"}
  BY DEF IInv, TypeOK, RStates, ControlInv, ReaderLives, Ending
<1>2. rpc \in {"CloseForStop", "StopDone"} => cpc = "AwaitStopDone"
  BY DEF IInv, ControlInv, Meeting
<1>3. rpc # "CloseAfterErr" /\ (rpc = "Join" => ~rerr /\ cpc \in Fresh \cup {"Dial"})
  BY DEF PatientInv, Elsewhere
<1> QED
  BY <1>1, <1>2, <1>3 DEF Ending

(* A step of W after which a reply is due as it was, or has been dropped.  *)
LEMMA ReaderMoves ==
    ASSUME IInv, PatientInv,
           UNCHANGED <<cVars, rVars, toPftp, clientOpen, sent, replies>>,
           UNCHANGED <<toOrigin, accepted, origin, originReader, dials>>,
           wpc # "OfferDone",
           \A g \in Origins : fromOrigin[g] = <<>> => fromOrigin'[g] = <<>>,
           cpc \in Fresh => Greeted',
           cpc \notin Fresh /\ Quiet => Quiet',
           cpc \in Resting /\ Due => Quiet' \/ Due',
           Login'
    PROVE  PatientInv'
<1>1. Turns' /\ Budget'
  BY SameDue DEF PatientInv, IInv
<1>2. Elsewhere'
  <2>1. UNCHANGED <<cpc, rpc, rerr>>
    BY DEF cVars, rVars
  <2> QED
    BY <2>1 DEF PatientInv, Elsewhere
<1> QED
  BY <1>1, <1>2 DEF PatientInv

(* W asks for a line, or finds that there is none.                         *)
LEMMA AskPatient ==
    ASSUME IInv, PatientInv, CallRead \/ ReadFails \/ CheckErr
    PROVE  PatientInv'
<1>1. /\ wpc \in {"Read", "Blocked", "ErrCheck"}
      /\ wpc' \in {"Blocked", "ErrCheck", "OfferDone", "OfferErr"}
      /\ UNCHANGED <<cVars, rVars, buff, toPftp, clientOpen, sent, replies>>
      /\ UNCHANGED <<toOrigin, fromOrigin, accepted, origin, originReader, dials, isLoggedin>>
  BY DEF CallRead, ReadFails, CheckErr, proxyVars, originVars, clientVars
<1>2. Idle /\ Idle' /\ UNCHANGED <<cpc, switchResult, rpc, rerr>>
  BY <1>1 DEF Idle, cVars, rVars
<1>3. (Greeted => Greeted') /\ (Quiet => Quiet') /\ (Due => Due')
  BY <1>1, <1>2, StillIdle
<1>4. Login'
  BY <1>1, <1>2 DEF PatientInv, Login
<1>5. cpc \in Fresh => Greeted
  BY DEF PatientInv, Turns
<1>6. wpc # "OfferDone"
  BY <1>1
<1> QED
  BY <1>1, <1>3, <1>4, <1>5, <1>6, ReaderMoves

(* W takes a line: the greeting, during a switch, or one of a reply.       *)
LEMMA TakePatient ==
    ASSUME IInv, PatientInv, TakeLine
    PROVE  PatientInv'
<1>1. /\ wpc = "Blocked" /\ wpc' = "Process" /\ fromOrigin[wconn] # <<>>
      /\ buff' = [line |-> Head(fromOrigin[wconn]), from |-> wconn]
      /\ fromOrigin' = [fromOrigin EXCEPT ![wconn] = Tail(@)]
      /\ UNCHANGED <<cVars, rVars, toPftp, clientOpen, sent, replies>>
      /\ UNCHANGED <<toOrigin, accepted, origin, originReader, dials, isLoggedin>>
  BY DEF TakeLine, proxyVars, clientVars
<1>2. wconn = origin /\ origin \in Origins /\ fromOrigin \in [Origins -> Seq(Line)]
      /\ Idle /\ UNCHANGED <<cpc, switchResult, rpc, rerr>>
  BY <1>1 DEF IInv, TypeOK, PatientInv, Elsewhere, Idle, cVars, rVars
<1>3. rpc \notin Ending /\ (rpc = "Select" \/ cpc \in Fresh \cup {"AwaitStopDone", "Dial"})
  BY <1>1, ReaderWorks
<1>4. ~Quiet
  BY <1>1, <1>2, <1>3 DEF Quiet
<1>5. \A g \in Origins : fromOrigin[g] = <<>> => fromOrigin'[g] = <<>>
  BY <1>1, <1>2
<1>6. fromOrigin'[origin'] = Tail(fromOrigin[origin]) /\ buff'.line = Head(fromOrigin[origin])
      /\ toOrigin'[origin'] = toOrigin[origin]
  BY <1>1, <1>2
<1>7. ASSUME cpc \in Fresh PROVE Greeted'
  <2>1. Greeted
    BY <1>7 DEF PatientInv, Turns
  <2>2. /\ fromOrigin[origin] = <<Final("220")>> /\ toOrigin[origin] = <<>>
        /\ cpc # "Replay" /\ ~switchResult
    BY <1>1, <1>2, <2>1 DEF Greeted
  <2>3. fromOrigin'[origin'] = <<>> /\ buff'.line = Final("220")
    BY <1>6, <2>2, OneElement
  <2> QED
    BY <1>1, <1>2, <1>6, <2>2, <2>3 DEF Greeted
<1>8. ASSUME cpc \in Resting, Due PROVE Due'
  <2>1. rpc = "Select"
    BY <1>3, <1>8 DEF Resting, Fresh
  <2>2. OnItsWay
    BY <1>1, <1>2, <1>8 DEF Due, AtOrigin, WithReader
  <2>3. PICK code \in Codes :
          /\ Earned(code) /\ toOrigin[origin] = <<>>
          /\ \/ fromOrigin[origin] = <<Final(code)>>
             \/ fromOrigin[origin] = <<First(code), Final(code)>> /\ code # "220"
    BY <2>2 DEF OnItsWay
  <2>4. Earned(code)'
    BY <1>1, <2>3 DEF Earned
  <2>5. CASE fromOrigin[origin] = <<Final(code)>>
    <3>1. buff'.line = Final(code) /\ fromOrigin'[origin'] = <<>>
      BY <1>6, <2>5, OneElement
    <3>2. buff'.line.code = code /\ ~buff'.line.more
      BY <3>1, LineFields
    <3> QED
      BY <1>1, <1>2, <1>6, <2>1, <2>3, <2>4, <3>1, <3>2 DEF Due, WithReader, Earned
  <2>6. CASE fromOrigin[origin] = <<First(code), Final(code)>> /\ code # "220"
    <3>1. buff'.line = First(code) /\ fromOrigin'[origin'] = <<Final(code)>>
      BY <1>6, <2>6, TwoElements
    <3>2. buff'.line.code = code /\ buff'.line.more = TRUE
      BY <3>1, LineFields
    <3>3. LastOnItsWay'
      BY <2>4, <3>1 DEF LastOnItsWay
    <3> QED
      BY <1>1, <1>2, <1>6, <2>1, <2>3, <2>4, <2>6, <3>2, <3>3 DEF Due, WithReader, Earned
  <2> QED
    BY <2>3, <2>5, <2>6
<1>9. Login'
  BY <1>1, <1>2 DEF PatientInv, Login
<1>10. wpc # "OfferDone" /\ (cpc \notin Fresh /\ Quiet => Quiet')
  BY <1>1, <1>4
<1> QED
  BY <1>1, <1>5, <1>7, <1>8, <1>9, <1>10, ReaderMoves

(* W looks at the line; only a 230 of the session's origin is a login.     *)
LEMMA ProcessPatient ==
    ASSUME IInv, PatientInv, ProcessLine
    PROVE  PatientInv'
<1>1. /\ wpc = "Process"
      /\ isLoggedin' = (isLoggedin \/ buff.line.code = "230")
      /\ \/ wpc' = "CheckPass" /\ (~buff.line.more \/ buff.line.code = "220")
         \/ wpc' = "Multi" /\ wconn' = originReader /\ buff.line.more
      /\ buff' = buff
      /\ UNCHANGED <<cVars, rVars, toPftp, clientOpen, sent, replies>>
      /\ UNCHANGED <<toOrigin, fromOrigin, accepted, origin, originReader, dials>>
  BY DEF ProcessLine, originVars, clientVars
<1>2. ~Idle /\ UNCHANGED <<cpc, switchResult, rpc, rerr>>
  BY <1>1 DEF Idle, cVars, rVars
<1>3. rpc \notin Ending
  BY <1>1, ReaderWorks
<1>4. ~Quiet
  BY <1>2, <1>3 DEF Quiet
<1>5. ASSUME cpc \in Fresh PROVE Greeted' /\ buff.line.code # "230"
  <2>1. Greeted
    BY <1>5 DEF PatientInv, Turns
  <2>2. /\ fromOrigin[origin] = <<>> /\ toOrigin[origin] = <<>> /\ buff.line = Final("220")
        /\ cpc # "Replay" /\ ~switchResult
    BY <1>1, <1>2, <2>1 DEF Greeted
  <2>3. buff.line.code = "220" /\ buff.line.more = FALSE
    BY <2>2, LineFields
  <2>4. wpc' = "CheckPass"
    BY <1>1, <2>3
  <2> QED
    BY <1>1, <1>2, <2>2, <2>3, <2>4 DEF Greeted
<1>6. ASSUME cpc \notin Fresh PROVE WithReader /\ cpc \in Resting /\ Due'
  <2>1. cpc \in Resting /\ Due
    BY <1>4, <1>6 DEF PatientInv, Turns, Fresh
  <2>2. WithReader
    BY <1>2, <2>1 DEF Due, AtOrigin, OnItsWay
  <2>3. originReader = origin
    BY <2>1 DEF PatientInv, Elsewhere, Resting
  <2>4. LastOnItsWay => LastOnItsWay'
    BY <1>1 DEF LastOnItsWay, Earned
  <2>5. WithReader'
    BY <1>1, <1>2, <2>2, <2>3, <2>4 DEF WithReader
  <2> QED
    BY <2>1, <2>2, <2>5 DEF Due
<1>7. Login'
  <2>1. CASE cpc \in Fresh
    BY <1>1, <1>2, <1>5, <2>1 DEF PatientInv, Login
  <2>2. CASE cpc \notin Fresh
    BY <1>1, <1>2, <1>6, <2>2 DEF PatientInv, Login, WithReader, Earned, Resting
  <2> QED
    BY <2>1, <2>2
<1>8. wpc # "OfferDone" /\ (cpc \notin Fresh /\ Quiet => Quiet')
      /\ \A g \in Origins : fromOrigin[g] = <<>> => fromOrigin'[g] = <<>>
  BY <1>1, <1>4
<1>9. cpc \in Resting /\ Due => Quiet' \/ Due'
  BY <1>6 DEF Resting, Fresh
<1> QED
  BY <1>1, <1>5, <1>7, <1>8, <1>9, ReaderMoves

(* The last line of a reply is joined to the first, or does not come.      *)
LEMMA LastLinePatient ==
    ASSUME IInv, PatientInv, TakeLastLine \/ MultiFails
    PROVE  PatientInv'
<1>1. /\ wpc = "Multi" /\ buff' = buff
      /\ \/ /\ fromOrigin[wconn] # <<>>
            /\ fromOrigin' = [fromOrigin EXCEPT ![wconn] = Tail(@)]
            /\ wpc' = IF Head(fromOrigin[wconn]).more THEN "Multi" ELSE "CheckPass"
         \/ wpc' = "OfferErr" /\ fromOrigin' = fromOrigin
      /\ UNCHANGED <<cVars, rVars, toPftp, clientOpen, sent, replies>>
      /\ UNCHANGED <<toOrigin, accepted, origin, originReader, dials, isLoggedin>>
  BY DEF TakeLastLine, MultiFails, proxyVars, originVars, clientVars
<1>2. ~Idle /\ UNCHANGED <<cpc, switchResult, rpc, rerr>>
  BY <1>1 DEF Idle, cVars, rVars
<1>3. rpc \notin Ending
  BY <1>1, ReaderWorks
<1>4. ~Quiet /\ ~Greeted
  BY <1>1, <1>2, <1>3 DEF Quiet, Greeted
<1>5. cpc \in Resting /\ Due
  BY <1>4 DEF PatientInv, Turns
<1>6. PICK code \in Codes :
        /\ rpc \in {"Select", "Deliver"} /\ toOrigin[origin] = <<>> /\ wconn = origin
        /\ Earned(code) /\ fromOrigin[origin] = <<Final(code)>>
  BY <1>1, <1>2, <1>5 DEF Due, AtOrigin, OnItsWay, WithReader, LastOnItsWay
<1>7. origin \in Origins /\ fromOrigin \in [Origins -> Seq(Line)]
  BY <1>6 DEF IInv, TypeOK
<1>8. ASSUME wpc' = "OfferErr", fromOrigin' = fromOrigin
      PROVE  Due'
  <2>1. Idle'
    BY <1>8 DEF Idle
  <2>2. toOrigin'[origin'] = <<>> /\ fromOrigin'[origin'] = <<Final(code)>> /\ Earned(code)'
    BY <1>1, <1>6, <1>8 DEF Earned
  <2>3. \E c \in Codes : Earned(c)' /\ fromOrigin'[origin'] = <<Final(c)>>
    BY <2>2
  <2>4. OnItsWay'
    BY <2>1, <2>2, <2>3 DEF OnItsWay
  <2> QED
    BY <2>4 DEF Due
<1>9. ASSUME fromOrigin' = [fromOrigin EXCEPT ![wconn] = Tail(@)],
             wpc' = IF Head(fromOrigin[wconn]).more THEN "Multi" ELSE "CheckPass"
      PROVE  Due'
  <2>1. /\ Tail(fromOrigin[wconn]) = <<>> /\ Head(fromOrigin[wconn]) = Final(code)
        /\ Final(code).more = FALSE
    BY <1>6, OneElement, LineFields
  <2>2. fromOrigin'[origin] = <<>> /\ wpc' = "CheckPass"
    BY <1>6, <1>7, <1>9, <2>1
  <2>3. toOrigin'[origin'] = <<>> /\ fromOrigin'[origin'] = <<>>
        /\ rpc' \in {"Select", "Deliver"}
    BY <1>1, <1>2, <1>6, <2>2
  <2>4. WithReader'
    BY <2>2, <2>3 DEF WithReader
  <2> QED
    BY <2>4 DEF Due
<1>10. Due'
  BY <1>1, <1>8, <1>9
<1>11. Login'
  BY <1>1, <1>2 DEF PatientInv, Login
<1>12. \A g \in Origins : fromOrigin[g] = <<>> => fromOrigin'[g] = <<>>
  BY <1>1, <1>6, <1>7
<1>13. wpc # "OfferDone" /\ cpc \notin Fresh
  BY <1>1, <1>5 DEF Resting, Fresh
<1> QED
  BY <1>1, <1>4, <1>10, <1>11, <1>12, <1>13, ReaderMoves

(* The line goes to R, unless the proxy is suspended; during a switch it   *)
(* is, and the greeting is dropped.                                        *)
LEMMA CheckPatient ==
    ASSUME IInv, PatientInv, CheckPassThrough
    PROVE  PatientInv'
<1>1. /\ wpc = "CheckPass" /\ wpc' = (IF passThrough THEN "OfferLine" ELSE "Read")
      /\ UNCHANGED <<cVars, rVars, wconn, buff, toPftp, clientOpen, sent, replies>>
      /\ UNCHANGED <<toOrigin, fromOrigin, accepted, origin, originReader, dials, isLoggedin>>
  BY DEF CheckPassThrough, proxyVars, originVars, clientVars
<1>2. ~Idle /\ UNCHANGED <<cpc, switchResult, rpc, rerr>>
  BY <1>1 DEF Idle, cVars, rVars
<1>3. rpc \notin Ending
  BY <1>1, ReaderWorks
<1>4. ~Quiet
  BY <1>2, <1>3 DEF Quiet
<1>5. ASSUME cpc \in Fresh PROVE Greeted'
  <2>1. Greeted
    BY <1>5 DEF PatientInv, Turns
  <2>2. /\ fromOrigin[origin] = <<>> /\ toOrigin[origin] = <<>>
        /\ cpc # "Replay" /\ ~switchResult
    BY <1>1, <1>2, <2>1 DEF Greeted
  <2>3. ~passThrough
    BY <1>5 DEF IInv, ControlInv, FlagsConfined, Suspended, Fresh
  <2>4. Idle'
    BY <1>1, <2>3 DEF Idle
  <2> QED
    BY <1>1, <1>2, <2>2, <2>4 DEF Greeted
<1>6. ASSUME cpc \in Resting, Due PROVE Quiet' \/ Due'
  <2>1. WithReader
    BY <1>2, <1>6 DEF Due, AtOrigin, OnItsWay
  <2>2. toOrigin[origin] = <<>> /\ fromOrigin[origin] = <<>> /\ rpc \in {"Select", "Deliver"}
    BY <1>1, <2>1 DEF WithReader
  <2>3. CASE wpc' = "OfferLine"
    BY <1>1, <1>2, <2>2, <2>3 DEF Due, WithReader
  <2>4. CASE wpc' = "Read"
    BY <1>1, <2>2, <2>4 DEF Quiet, Idle
  <2> QED
    BY <1>1, <2>3, <2>4
<1>7. Login'
  BY <1>1, <1>2 DEF PatientInv, Login
<1>8. wpc # "OfferDone"
  BY <1>1
<1> QED
  BY <1>1, <1>4, <1>5, <1>6, <1>7, <1>8, ReaderMoves

LEMMA WStepPatient ==
    ASSUME IInv, PatientInv, WStep
    PROVE  PatientInv'
BY AskPatient, TakePatient, ProcessPatient, LastLinePatient, CheckPatient DEF WStep

-----------------------------------------------------------------------------
(* Rendezvous.                                                             *)

(* W passes a line on, or its error, and R joins it.                       *)
LEMMA MeetPatient ==
    ASSUME IInv, PatientInv, PassLine \/ AckLine \/ PassErr \/ JoinReader
    PROVE  PatientInv'
<1>1. /\ UNCHANGED <<cVars, wconn, buff, toPftp, clientOpen, sent, replies>>
      /\ UNCHANGED <<toOrigin, fromOrigin, accepted, origin, originReader, dials, isLoggedin>>
  BY DEF PassLine, AckLine, PassErr, JoinReader, MeetRW, proxyVars, originVars, clientVars
<1>2. UNCHANGED <<cpc, switchResult>>
  BY <1>1 DEF cVars
<1>3. Login'
  BY <1>1, <1>2 DEF PatientInv, Login
<1>4. cpc \in Fresh => Greeted
  BY DEF PatientInv, Turns
<1>5. CASE PassLine
  <2>1. /\ wpc = "OfferLine" /\ rpc = "Select" /\ wpc' = "AwaitAck" /\ rpc' = "Deliver"
        /\ rerr' = rerr
    BY <1>5 DEF PassLine, MeetRW
  <2>2. ~Idle /\ ~Quiet /\ ~Greeted
    BY <2>1 DEF Idle, Quiet, Greeted, Ending
  <2>3. Due => Due'
    <3>1. Due => WithReader
      BY <2>2 DEF Due, AtOrigin, OnItsWay
    <3>2. WithReader => toOrigin[origin] = <<>> /\ fromOrigin[origin] = <<>>
      BY <2>1 DEF WithReader
    <3> QED
      BY <1>1, <2>1, <3>1, <3>2 DEF Due, WithReader
  <2>4. Turns' /\ Budget'
    BY <1>1, <1>4, <2>2, <2>3, SameDue DEF PatientInv, IInv
  <2>5. Elsewhere'
    BY <1>1, <1>2, <2>1 DEF PatientInv, Elsewhere
  <2> QED
    BY <1>3, <2>4, <2>5 DEF PatientInv
<1>6. CASE AckLine \/ PassErr \/ JoinReader
  <2>1. \/ /\ wpc = "AwaitAck" /\ rpc = "Ack" /\ wpc' = "Read" /\ rpc' = "Select" /\ rerr' = rerr
        \/ /\ wpc = "OfferErr" /\ rpc = "Select" /\ wpc' = "OfferDone"
           /\ rpc' = "CloseAfterErr" /\ rerr'
        \/ /\ wpc = "OfferDone" /\ rpc = "Join" /\ wpc' = "None"
           /\ rpc' \in {"Exit", "CheckStop"} /\ rerr' = rerr
    BY <1>6 DEF AckLine, PassErr, JoinReader, MeetRW
  <2>2. Idle /\ Idle' /\ (rpc \in Ending => rpc' \in Ending)
    BY <2>1 DEF Idle, Ending
  <2>3. (Greeted => Greeted') /\ (Quiet => Quiet') /\ (Due => Due')
    BY <1>1, <1>2, <2>2, StillIdle
  <2>4. Turns' /\ Budget'
    BY <1>1, <1>4, <2>3, SameDue DEF PatientInv, IInv
  <2>5. Elsewhere'
    BY <1>1, <1>2, <2>1 DEF PatientInv, Elsewhere
  <2> QED
    BY <1>3, <2>4, <2>5 DEF PatientInv
<1> QED
  BY <1>5, <1>6

(* C and R meet at the beginning of a switch, when nothing is due.         *)
LEMMA StopPatient ==
    ASSUME IInv, PatientInv, PassStop \/ PassStopDone
    PROVE  PatientInv'
<1>1. /\ cpc \in {"SendStop", "AwaitStopDone"} /\ cpc' \in {"AwaitStopDone", "Dial"}
      /\ rpc \in {"Select", "StopDone"} /\ rpc' \in {"CloseForStop", "Join"}
      /\ rpc' = "Join" => cpc' = "Dial" /\ cpc = "AwaitStopDone"
      /\ UNCHANGED <<rerr, wVars, toPftp, clientOpen, sent, replies>>
      /\ UNCHANGED <<toOrigin, fromOrigin, accepted, origin, originReader, dials, isLoggedin>>
  BY DEF PassStop, PassStopDone, proxyVars, originVars, clientVars
<1>2. Quiet /\ toPftp = <<>> /\ ~isLoggedin
  BY <1>1 DEF PatientInv, Turns, Login, Handling
<1>3. Quiet'
  BY <1>1, <1>2 DEF Quiet, Idle, Ending, wVars
<1>4. Turns'
  BY <1>1, <1>2, <1>3 DEF PatientInv, Turns, Handling, Fresh, Resting
<1>5. Budget'
  BY <1>1, <1>2, <1>3 DEF PatientInv, Budget, Waits, Comes, Handling, Fresh
<1>6. ~rerr
  <2>1. CASE rpc = "Select"
    BY <2>1 DEF IInv, ControlInv, Meeting, Ending
  <2>2. CASE rpc = "StopDone"
    BY <2>2 DEF IInv, ControlInv, Meeting, Ending
  <2> QED
    BY <1>1, <2>1, <2>2
<1>7. Elsewhere'
  BY <1>1, <1>6 DEF PatientInv, Elsewhere, wVars
<1>8. Login'
  BY <1>1, <1>2 DEF Login
<1> QED
  BY <1>4, <1>5, <1>7, <1>8 DEF PatientInv

(* They meet again at its end: a new origin that was switched to is quiet, *)
(* and after a switch that failed R ends.                                  *)
LEMMA SwitchedPatient ==
    ASSUME IInv, PatientInv, PassSwitched
    PROVE  PatientInv'
<1>1. /\ cpc = "SendSwitched" /\ rpc = "AwaitSwitch"
      /\ \/ switchResult /\ cpc' = "Unsuspend" /\ rpc' = "Start"
         \/ cpc' = "Reply" /\ rpc' = "Exit"
      /\ UNCHANGED <<rerr, wVars, toPftp, clientOpen, sent, replies>>
      /\ UNCHANGED <<toOrigin, fromOrigin, accepted, origin, originReader, dials, isLoggedin>>
  BY DEF PassSwitched, originVars, clientVars
<1>2. Greeted /\ toPftp = <<>>
  BY <1>1 DEF PatientInv, Turns, Fresh
<1>3. Quiet'
  <2>1. CASE rpc' = "Exit"
    BY <2>1 DEF Quiet, Ending
  <2>2. CASE switchResult
    <3>1. Idle /\ fromOrigin[origin] = <<>> /\ toOrigin[origin] = <<>>
      BY <1>2, <2>2 DEF Greeted
    <3>2. Idle'
      BY <1>1, <3>1 DEF Idle, wVars
    <3> QED
      BY <1>1, <3>1, <3>2 DEF Quiet
  <2> QED
    BY <1>1, <2>1, <2>2
<1>4. Turns'
  BY <1>1, <1>2, <1>3 DEF PatientInv, Turns, Handling, Fresh, Resting
<1>5. Budget'
  BY <1>1, <1>2, <1>3 DEF PatientInv, Budget, Waits, Comes, Handling, Fresh
<1>6. Elsewhere'
  BY <1>1 DEF PatientInv, Elsewhere, wVars
<1>7. Login'
  BY <1>1 DEF PatientInv, Login, Fresh
<1> QED
  BY <1>4, <1>5, <1>6, <1>7 DEF PatientInv

(* When both have ended nothing changes any more.                          *)
LEMMA EndPatient ==
    ASSUME IInv, PatientInv, EndSession
    PROVE  PatientInv'
<1>1. /\ cpc = "Done" /\ rpc = "Done" /\ cpc' = "Over" /\ rpc' = "Over"
      /\ UNCHANGED <<rerr, wVars, toPftp, clientOpen, sent, replies>>
      /\ UNCHANGED <<toOrigin, fromOrigin, accepted, origin, originReader, dials, isLoggedin>>
  BY DEF EndSession, proxyVars, clientVars
<1>2. Quiet /\ Quiet'
  BY <1>1 DEF Quiet, Ending
<1> QED
  BY <1>1, <1>2 DEF PatientInv, Turns, Handling, Fresh, Resting, Budget, Waits, Comes,
     Elsewhere, Login, wVars

-----------------------------------------------------------------------------
(* The peers.                                                              *)

(* The origin of the session answers, once, what it was sent.              *)
LEMMA ReplyPatient ==
    ASSUME IInv, PatientInv, NEW g \in Origins, OriginReply(g)
    PROVE  PatientInv'
<1>1. PICK answer \in Answers(Head(toOrigin[g])) :
        /\ toOrigin[g] # <<>>
        /\ toOrigin' = [toOrigin EXCEPT ![g] = Tail(@)]
        /\ fromOrigin' = [fromOrigin EXCEPT ![g] = @ \o answer]
        /\ accepted' = (IF Head(answer).code = "230" THEN accepted \cup {g} ELSE accepted)
        /\ UNCHANGED <<cVars, rVars, wVars, proxyVars, clientVars>>
  BY DEF OriginReply
<1>2. g = origin /\ origin \in Origins /\ fromOrigin \in [Origins -> Seq(Line)]
      /\ toOrigin \in [Origins -> Seq(Commands)]
  BY <1>1 DEF PatientInv, Elsewhere, IInv, TypeOK
<1>3. UNCHANGED <<cpc, switchResult, rpc, rerr, wpc, wconn, buff, origin, originReader,
                  dials, isLoggedin, toPftp, clientOpen, sent, replies>>
  BY <1>1 DEF cVars, rVars, wVars, proxyVars, clientVars
<1>4. PICK code \in Codes :
        answer = <<Final(code)>> \/ (answer = <<First(code), Final(code)>> /\ code # "220")
  <2>1. {"331", "230", "530", "221", "200"} \subseteq Codes
    BY DEF Codes
  <2> QED
    BY <1>1, <2>1 DEF Answers
<1>5. Head(answer).code = code /\ <<>> \o answer = answer
  <2>1. Head(answer) = Final(code) \/ Head(answer) = First(code)
    BY <1>4, OneElement, TwoElements
  <2>2. Final(code) \in Line /\ First(code) \in Line
    BY DEF Final, First, Line
  <2>3. <<Final(code)>> \in Seq(Line) /\ <<First(code), Final(code)>> \in Seq(Line)
    BY <2>2
  <2>4. answer \in Seq(Line)
    BY <1>4, <2>3
  <2>5. <<>> \o answer = answer
    BY <2>4, ConcatEmptySeq
  <2> QED
    BY <2>1, <2>5, LineFields
<1>6. Earned(code)' /\ accepted \subseteq accepted'
  BY <1>1, <1>2, <1>3, <1>5 DEF Earned
<1>7. Quiet => Quiet'
  BY <1>1, <1>2, <1>3 DEF Quiet
<1>8. ~Greeted
  BY <1>1, <1>2 DEF Greeted
<1>9. Due => Due'
  <2> SUFFICES ASSUME Due PROVE OnItsWay'
    BY DEF Due
  <2>1. AtOrigin
    BY <1>1, <1>2 DEF Due, OnItsWay, WithReader
  <2>2. PICK cmd \in Commands : toOrigin[origin] = <<cmd>> /\ fromOrigin[origin] = <<>> /\ Idle
    BY <2>1 DEF AtOrigin
  <2>3. toOrigin'[origin'] = <<>> /\ fromOrigin'[origin'] = answer
    BY <1>1, <1>2, <1>3, <1>5, <2>2, OneElement
  <2>4. Idle'
    BY <1>3, <2>2 DEF Idle
  <2>5. \E c \in Codes :
          /\ Earned(c)'
          /\ \/ fromOrigin'[origin'] = <<Final(c)>>
             \/ fromOrigin'[origin'] = <<First(c), Final(c)>> /\ c # "220"
    BY <1>4, <1>6, <2>3
  <2> QED
    BY <2>3, <2>4, <2>5 DEF OnItsWay
<1>10. cpc \notin Fresh
  BY <1>8 DEF PatientInv, Turns
<1>11. Turns' /\ Budget'
  <2>1. UNCHANGED <<cVars, toPftp, clientOpen, sent, replies>>
    BY <1>1, <1>3
  <2> QED
    BY <1>7, <1>9, <1>10, <2>1, SameDue DEF PatientInv, IInv
<1>12. Elsewhere'
  BY <1>1, <1>2, <1>3 DEF PatientInv, Elsewhere
<1>13. Login'
  BY <1>3, <1>6 DEF PatientInv, Login
<1> QED
  BY <1>11, <1>12, <1>13 DEF PatientInv

(* The client sends a command when all that it sent has been answered:     *)
(* then it has seen as many replies as there can be, and none is due.      *)
LEMMA SendPatient ==
    ASSUME IInv, PatientInv, PatientClient, NEW cmd \in Commands, ClientSend(cmd)
    PROVE  PatientInv'
<1>1. /\ clientOpen /\ replies > sent /\ sent' = sent + 1
      /\ toPftp' = Append(toPftp, cmd)
      /\ UNCHANGED <<cVars, originSide, originReader, dials, isLoggedin, clientOpen, replies>>
  BY DEF ClientSend, PatientClient, proxyVars, originVars, originSide
<1>2. Len(toPftp) = 0 /\ Waits = 0 /\ Comes = 0 /\ replies = sent + 1
  BY <1>1, Counts DEF PatientInv, Budget, IInv
<1>3. toPftp = <<>> /\ Len(toPftp') = 1
  <2>1. toPftp \in Seq(Commands)
    BY DEF IInv, TypeOK
  <2> QED
    BY <1>1, <1>2, <2>1, EmptySeq, FirstInQueue
<1>4. cpc' = cpc /\ UNCHANGED <<switchResult, accepted, origin>>
  BY <1>1 DEF cVars, originSide
<1>5. Quiet /\ Quiet' /\ cpc \in Resting \cup {"Handshake"}
  <2>1. cpc \notin Fresh /\ cpc \in Resting \cup {"Handshake"}
    BY <1>2 DEF PatientInv, Turns, Waits, Handling, Fresh
  <2>2. Quiet
    BY <1>2, <2>1 DEF Comes
  <2> QED
    BY <1>1, <2>1, <2>2, DueStays
<1>6. Turns'
  BY <1>3, <1>4, <1>5 DEF Turns, Handling, Fresh, Resting
<1>7. Budget'
  <2>1. Waits' = 0 /\ Comes' = 0
    BY <1>2, <1>4, <1>5 DEF Waits, Comes
  <2>2. replies \in Nat /\ sent \in Nat
    BY Counts DEF IInv
  <2>3. replies' + 1 + 0 + 0 <= sent' + 1
    BY <1>1, <1>2, <2>2
  <2> QED
    BY <1>3, <2>1, <2>3 DEF Budget
<1>8. Elsewhere'
  BY <1>1, <1>4, ElsewhereStays DEF PatientInv
<1>9. Login'
  BY <1>1, <1>4 DEF PatientInv, Login
<1> QED
  BY <1>6, <1>7, <1>8, <1>9 DEF PatientInv

(* A connection that closes changes nothing of this.                       *)
LEMMA ClosePatient ==
    ASSUME IInv, PatientInv, ClientCloses \/ \E g \in Origins : OriginCloses(g)
    PROVE  PatientInv'
<1>1. /\ UNCHANGED <<cVars, originSide, originReader, dials, isLoggedin>>
      /\ UNCHANGED <<toPftp, sent, replies>>
      /\ clientOpen' => clientOpen
  BY DEF ClientCloses, OriginCloses, proxyVars, originVars, originSide, clientVars
<1>2. UNCHANGED <<cpc, switchResult, accepted, origin>>
  BY <1>1 DEF cVars, originSide
<1>3. (Quiet' <=> Quiet) /\ (Due' <=> Due) /\ (Greeted => Greeted')
  BY <1>1, <1>2, DueStays, GreetedStays
<1>4. Turns'
  BY <1>1, <1>2, <1>3 DEF PatientInv, Turns
<1>5. Budget'
  BY <1>1, <1>2, <1>3 DEF PatientInv, Budget, Waits, Comes
<1>6. Elsewhere'
  BY <1>1, <1>2, ElsewhereStays DEF PatientInv
<1>7. Login'
  BY <1>1, <1>2 DEF PatientInv, Login
<1> QED
  BY <1>4, <1>5, <1>6, <1>7 DEF PatientInv

-----------------------------------------------------------------------------
(* At first the welcome is due.                                            *)
LEMMA InitPatient ==
    ASSUME PatientClient, Init
    PROVE  PatientInv
<1>1. fromOrigin[origin] = <<Final("220")>> /\ toOrigin[origin] = <<>> /\ "220" \in Codes
  BY OriginsTyped DEF Init, PatientClient, Greetings, Codes
<1>2. Idle /\ Earned("220")
  BY DEF Init, Idle, Earned
<1>3. Due
  BY <1>1, <1>2 DEF Due, OnItsWay
<1>4. toPftp = <<>> /\ Len(toPftp) = 0 /\ cpc = "Read"
  BY FirstInQueue DEF Init
<1>5. Turns
  BY <1>3, <1>4 DEF Turns, Handling, Fresh, Resting
<1>6. Budget
  <2>1. Waits = 0 /\ Comes \in {0, 1}
    BY <1>4 DEF Waits, Comes, Handling, Fresh
  <2>2. replies = 0 /\ sent = 0
    BY DEF Init
  <2> QED
    BY <1>4, <2>1, <2>2 DEF Budget
<1>7. Elsewhere
  BY OriginsTyped DEF Init, Elsewhere
<1>8. Login
  BY <1>4 DEF Init, Login, Fresh
<1> QED
  BY <1>5, <1>6, <1>7, <1>8 DEF PatientInv

(* Every step keeps the turns.                                             *)
LEMMA NextPatient ==
    ASSUME PatientClient, IInv, PatientInv, [Next]_vars
    PROVE  PatientInv'
<1>1. CASE UNCHANGED vars
  <2>1. UNCHANGED <<cVars, originSide, originReader, dials, isLoggedin>>
        /\ UNCHANGED <<toPftp, clientOpen, sent, replies>>
    BY <1>1 DEF vars, proxyVars, originVars, originSide, clientVars
  <2>2. UNCHANGED <<cpc, switchResult, accepted, origin>>
    BY <2>1 DEF cVars, originSide
  <2>3. (Quiet' <=> Quiet) /\ (Due' <=> Due) /\ (Greeted => Greeted')
    BY <2>1, <2>2, DueStays, GreetedStays
  <2>4. Turns' /\ Budget'
    BY <2>1, <2>2, <2>3 DEF PatientInv, Turns, Budget, Waits, Comes
  <2>5. Elsewhere' /\ Login'
    BY <2>1, <2>2, ElsewhereStays DEF PatientInv, Login
  <2> QED
    BY <2>4, <2>5 DEF PatientInv
<1>2. CASE CStep
  BY <1>2, CStepPatient
<1>3. CASE RStep
  BY <1>3, RStepPatient, DeliverPatient
<1>4. CASE WStep
  BY <1>4, WStepPatient
<1>5. CASE Rendezvous
  BY <1>5, MeetPatient, StopPatient, SwitchedPatient, EndPatient DEF Rendezvous
<1>6. CASE Peers
  BY <1>6, ReplyPatient, SendPatient, ClosePatient DEF Peers
<1> QED
  BY <1>1, <1>2, <1>3, <1>4, <1>5, <1>6 DEF Next, Terminated

(* A client that waits is served in turns: at every moment at most one     *)
(* command is under way, whatever the schedule of the three goroutines.    *)
THEOREM TurnsKept ==
    ASSUME PatientClient
    PROVE  Spec => [](IInv /\ PatientInv)
<1>1. Init => IInv /\ PatientInv
  BY InitIInv, InitPatient
<1>2. IInv /\ PatientInv /\ [Next]_vars => (IInv /\ PatientInv)'
  BY NextIInv, NextPatient
<1> QED
  BY <1>1, <1>2, PTL DEF Spec

(* The login that pftp remembers is one at the origin it talks to: no 230  *)
(* of an origin that is being replaced gets through.                       *)
THEOREM LoginIsAtOrigin ==
    ASSUME PatientClient
    PROVE  Spec => []LoginBelongsToOrigin
<1>1. IInv /\ PatientInv => LoginBelongsToOrigin
  BY DEF PatientInv, Login, LoginBelongsToOrigin
<1> QED
  BY <1>1, TurnsKept, PTL

(* Once logged in, the origin is never replaced.                           *)
THEOREM LoginStaysAtOrigin ==
    ASSUME PatientClient
    PROVE  Spec => LoggedInStays
<1>1. PatientInv /\ [Next]_vars => [isLoggedin => origin' = origin]_vars
  <2> SUFFICES ASSUME PatientInv, Next, isLoggedin PROVE origin' = origin
    OBVIOUS
  <2>1. ~DialOrigin
    BY DEF PatientInv, Login, DialOrigin
  <2>2. CASE CStep
    BY <2>1, <2>2 DEF CStep, ReadCommand, RefuseCommand, ReadEOF, ReadTimeout, EndTimedOut,
       Reply, Forward, HandleAUTH, TLSHandshake, HandlePROT, HandleUSER, SetReader,
       ReadGreeting, ReplayTLS, ResetStop, Unsuspend, SendEOFToOrigin, CloseClient, proxyVars
  <2>3. CASE RStep \/ WStep
    BY <2>3 DEF RStep, StartProxy, SendToClient, CloseAfterErr, CloseForStop, CheckStop,
       SendEOFToClient, CloseOrigin, WStep, CallRead, TakeLine, ReadFails, CheckErr,
       ProcessLine, TakeLastLine, MultiFails, CheckPassThrough, proxyVars
  <2>4. CASE Rendezvous \/ Peers \/ Terminated
    BY <2>4 DEF Rendezvous, PassLine, AckLine, PassErr, JoinReader, MeetRW, PassStop,
       PassStopDone, PassSwitched, EndSession, Peers, OriginReply, OriginCloses, ClientSend,
       ClientCloses, Terminated, vars, proxyVars
  <2> QED
    BY <2>2, <2>3, <2>4 DEF Next
<1> QED
  BY <1>1, TurnsKept, PTL DEF Spec, LoggedInStays

(* No line of the origin is written into the client's TLS handshake.       *)
THEOREM HandshakeIsQuiet ==
    ASSUME PatientClient
    PROVE  Spec => []HandshakeQuiet
<1>1. IInv /\ PatientInv => HandshakeQuiet
  <2> SUFFICES ASSUME IInv, PatientInv, cpc = "Handshake", rpc = "Deliver" PROVE FALSE
    BY DEF HandshakeQuiet
  <2>1. Quiet
    BY DEF PatientInv, Turns
  <2>2. wpc = "AwaitAck"
    BY DEF IInv, ControlInv, ReaderLives
  <2> QED
    BY <2>1, <2>2 DEF Quiet, Idle, Ending
<1> QED
  BY <1>1, TurnsKept, PTL

(* The client never gets more replies than it sent commands, the welcome   *)
(* apart, while it and the connection to it are there.                     *)
THEOREM RepliesKeepStep ==
    ASSUME PatientClient
    PROVE  Spec => []RepliesInStep
<1>1. IInv /\ PatientInv => RepliesInStep
  BY Counts DEF IInv, PatientInv, Budget, RepliesInStep
<1> QED
  BY <1>1, TurnsKept, PTL

=============================================================================
