--------------------------- MODULE ControlSession ---------------------------
(***************************************************************************)
(* One FTP control session of pftp: the client's control connection, the   *)
(* connection to the origin server, and the three goroutines between them. *)
(*                                                                         *)
(*   C  readClientCommands        reads a command line, runs its handler   *)
(*                                and, for USER, switches the origin       *)
(*   R  getResponseFromOrigin     startProxy's select loop: the only       *)
(*                                goroutine that forwards origin replies   *)
(*   W  the read goroutine that startProxy starts, one per call            *)
(*                                                                         *)
(* They share the proxyServer's plain fields (passThrough, stop,           *)
(* isLoggedin, origin, originReader), written without a lock, and meet on  *)
(* unbuffered channels: read/send/errchan/done between W and R, and        *)
(* stopChan/stopChanDone/waitSwitching between C and R.  A rendezvous is   *)
(* one action that moves both goroutines.                                  *)
(*                                                                         *)
(* Connections to the origin are numbered: 0 is the one dialled when the   *)
(* client connects, n the one dialled by the n-th successful switch.       *)
(* Reply lines are abstracted to a code and the "more lines follow" mark.  *)
(* Data connections are the subject of DataTransfer.                       *)
(***************************************************************************)
EXTENDS Naturals, Sequences

CONSTANTS
    MaxCommands,        \* bound: command lines the client sends
    MaxSwitches,        \* bound: connections dialled by USER
    Pipelining,         \* the client may send a line before the last is answered
    OriginMayClose,     \* an origin may close its side whenever it likes
    PeersMayFail,       \* dials, greetings and TLS handshakes may fail
    IdleTimeouts,       \* config.IdleTimeout > 0
    TLSConfigured,      \* the server has a [tls] section
    MultiLineGreeting   \* an origin may greet with more than one line

ASSUME ConstantsAssumption ==
    /\ MaxCommands \in Nat
    /\ MaxSwitches \in Nat
    /\ {Pipelining, OriginMayClose, PeersMayFail, IdleTimeouts, TLSConfigured,
        MultiLineGreeting} \subseteq BOOLEAN

-----------------------------------------------------------------------------
Origins == 0 .. MaxSwitches
NoConn  == MaxSwitches + 1              \* s.origin = nil after a failed dial

Codes    == {"200", "220", "221", "230", "331", "530"}
Line     == [code : Codes, more : BOOLEAN]
Final(c) == [code |-> c, more |-> FALSE]
First(c) == [code |-> c, more |-> TRUE]

(* Commands that differ for this model.  PROT stands for PBSZ too; OTHER   *)
(* for every line that is only forwarded or only answered locally.         *)
Commands == {"USER", "PASS", "AUTH", "PROT", "OTHER", "QUIT"}
Suspends == {"USER", "AUTH", "PROT"}

VARIABLES
    cpc, command, switchResult, controlInTLS,          \* C
    rpc, rerr,                                         \* R
    wpc, wconn, buff,                                  \* W
    passThrough, stop, isLoggedin, origin, originReader, dials,  \* proxyServer
    conn, fromOrigin, toOrigin, accepted,              \* the origin connections
    toPftp, clientOpen, writeOpen, sent, replies       \* the client connection

cVars      == <<cpc, command, switchResult, controlInTLS>>
rVars      == <<rpc, rerr>>
wVars      == <<wpc, wconn, buff>>
proxyVars  == <<passThrough, stop, isLoggedin, origin, originReader, dials>>
originVars == <<conn, fromOrigin, toOrigin, accepted>>
clientVars == <<toPftp, clientOpen, writeOpen, sent, replies>>
vars       == <<cVars, rVars, wVars, proxyVars, originVars, clientVars>>

CStates == {"Read", "USER", "AUTH", "Handshake", "PROT", "Forward", "Reply",
            "SendStop", "AwaitStopDone", "Dial", "SetReader", "Greet",
            "Replay", "ResetStop", "SendSwitched", "Unsuspend", "TimedOut",
            "Exit", "CloseClient", "Done", "Over"}
RStates == {"Start", "Select", "Deliver", "Ack", "CloseAfterErr",
            "CloseForStop", "StopDone", "Join", "CheckStop", "AwaitSwitch",
            "Exit", "CloseOrigin", "Done", "Over"}
WStates == {"None", "Read", "Blocked", "Process", "Multi", "CheckPass",
            "OfferLine", "AwaitAck", "ErrCheck", "OfferErr", "OfferDone"}

Greetings == {<<Final("220")>>} \cup
             (IF MultiLineGreeting THEN {<<First("220"), Final("220")>>} ELSE {})

Init ==
    /\ cpc = "Read" /\ command = "OTHER" /\ switchResult = FALSE
    /\ controlInTLS = FALSE
    /\ rpc = "Start" /\ rerr = FALSE
    /\ wpc = "None" /\ wconn = 0 /\ buff = [line |-> Final("220"), from |-> 0]
    /\ passThrough = TRUE /\ stop = FALSE /\ isLoggedin = FALSE
    /\ origin = 0 /\ originReader = 0 /\ dials = 0
    /\ conn = [g \in Origins |-> IF g = 0 THEN "open" ELSE "none"]
    /\ \E greeting \in Greetings :
         fromOrigin = [g \in Origins |-> IF g = 0 THEN greeting ELSE <<>>]
    /\ toOrigin = [g \in Origins |-> <<>>]
    /\ accepted = {}
    /\ toPftp = <<>> /\ clientOpen = TRUE /\ writeOpen = TRUE
    /\ sent = 0 /\ replies = 0

-----------------------------------------------------------------------------
(* Operations on the connections.                                          *)

(* proxyServer.Close: a nil origin is left alone.                          *)
CloseOriginConn ==
    conn' = IF origin = NoConn THEN conn ELSE [conn EXCEPT ![origin] = "closed"]

(* A reply line written to the client under the shared mutex; after        *)
(* CloseWrite the write fails and nothing is sent.                         *)
WriteToClient == replies' = IF writeOpen THEN replies + 1 ELSE replies

-----------------------------------------------------------------------------
(* Goroutine C.                                                            *)

(* ReadString returns a line: parseLine, the middleware, the handler table *)
(* and, for the suspending handlers, proxy.suspend().                      *)
ReadCommand ==
    /\ cpc = "Read" /\ toPftp # <<>>
    /\ command' = Head(toPftp) /\ toPftp' = Tail(toPftp)
    /\ cpc' = IF command' \in Suspends THEN command' ELSE "Forward"
    /\ passThrough' = (command' \notin Suspends)
    /\ UNCHANGED <<switchResult, controlInTLS, rVars, wVars, stop, isLoggedin,
                   origin, originReader, dials, originVars, clientOpen,
                   writeOpen, sent, replies>>

(* Answered without the origin: the middleware fails, or the handler of a  *)
(* command that does not suspend refuses it.                               *)
RefuseCommand ==
    /\ cpc = "Read" /\ toPftp # <<>>
    /\ command' = Head(toPftp) /\ toPftp' = Tail(toPftp)
    /\ cpc' = "Reply"
    /\ UNCHANGED <<switchResult, controlInTLS, rVars, wVars, proxyVars,
                   originVars, clientOpen, writeOpen, sent, replies>>

(* ReadString fails: EOF or an error from the client.                      *)
ReadEOF ==
    /\ cpc = "Read" /\ toPftp = <<>> /\ ~clientOpen
    /\ cpc' = "Exit"
    /\ UNCHANGED <<command, switchResult, controlInTLS, rVars, wVars,
                   proxyVars, originVars, clientVars>>

(* ReadString times out: the loop ends after a QUIT or when the 421 cannot *)
(* be written; otherwise EOF is sent to the client, and one more read.     *)
ReadTimeout ==
    /\ cpc = "Read" /\ toPftp = <<>> /\ clientOpen /\ IdleTimeouts
    /\ IF command = "QUIT" \/ ~writeOpen
       THEN cpc' = "Exit" /\ UNCHANGED replies
       ELSE cpc' = "TimedOut" /\ replies' = replies + 1
    /\ UNCHANGED <<command, switchResult, controlInTLS, rVars, wVars,
                   proxyVars, originVars, toPftp, clientOpen, writeOpen, sent>>

EndTimedOut ==
    /\ cpc = "TimedOut"
    /\ writeOpen' = FALSE
    /\ cpc' = "Read"
    /\ UNCHANGED <<command, switchResult, controlInTLS, rVars, wVars,
                   proxyVars, originVars, toPftp, clientOpen, sent, replies>>

(* result.Response.                                                        *)
Reply ==
    /\ cpc = "Reply"
    /\ WriteToClient
    /\ cpc' = IF writeOpen THEN "Read" ELSE "Exit"
    /\ UNCHANGED <<command, switchResult, controlInTLS, rVars, wVars,
                   proxyVars, originVars, toPftp, clientOpen, writeOpen, sent>>

(* sendToOrigin, then handleCommand's deferred unsuspend.  A write to a    *)
(* connection the origin has already closed succeeds and is lost.          *)
Forward ==
    /\ cpc = "Forward"
    /\ passThrough' = TRUE
    /\ cpc' = IF conn[originReader] = "closed" THEN "Reply" ELSE "Read"
    /\ toOrigin' = IF conn[originReader] = "open"
                   THEN [toOrigin EXCEPT ![originReader] = Append(@, command)]
                   ELSE toOrigin
    /\ UNCHANGED <<command, switchResult, controlInTLS, rVars, wVars, stop,
                   isLoggedin, origin, originReader, dials, conn, fromOrigin,
                   accepted, clientVars>>

(* handleAUTH: 234 to the client, then the handshake.  Without a [tls]     *)
(* section forClient is a nil *tlsData, getTLSConfig panics, and the       *)
(* recovered handler returns no result, so that nothing is answered.       *)
HandleAUTH ==
    /\ cpc = "AUTH"
    /\ IF TLSConfigured /\ writeOpen
       THEN cpc' = "Handshake" /\ replies' = replies + 1 /\ UNCHANGED passThrough
       ELSE /\ cpc' = IF TLSConfigured THEN "Reply" ELSE "Read"
            /\ passThrough' = TRUE
            /\ UNCHANGED replies
    /\ UNCHANGED <<command, switchResult, controlInTLS, rVars, wVars, stop,
                   isLoggedin, origin, originReader, dials, originVars,
                   toPftp, clientOpen, writeOpen, sent>>

TLSHandshake ==
    /\ cpc = "Handshake"
    /\ passThrough' = TRUE
    /\ \/ /\ clientOpen
          /\ controlInTLS' = TRUE /\ cpc' = "Read"
       \/ /\ PeersMayFail \/ ~clientOpen
          /\ cpc' = "Reply" /\ UNCHANGED controlInTLS
    /\ UNCHANGED <<command, switchResult, rVars, wVars, stop, isLoggedin,
                   origin, originReader, dials, originVars, clientVars>>

(* handlePBSZ and handlePROT: 503 outside TLS, answered by pftp before the *)
(* login, forwarded (after unsuspend) once logged in.                      *)
HandlePROT ==
    /\ cpc = "PROT"
    /\ passThrough' = TRUE
    /\ \/ /\ ~controlInTLS
          /\ cpc' = "Reply" /\ UNCHANGED replies
       \/ /\ controlInTLS /\ ~isLoggedin
          /\ WriteToClient
          /\ cpc' = IF writeOpen THEN "Read" ELSE "Reply"
       \/ /\ controlInTLS /\ isLoggedin
          /\ cpc' = "Forward" /\ UNCHANGED replies
    /\ UNCHANGED <<command, switchResult, controlInTLS, rVars, wVars, stop,
                   isLoggedin, origin, originReader, dials, originVars,
                   toPftp, clientOpen, writeOpen, sent>>

(* Mutants of HandleUSER: the session's login is not looked at; the switch *)
(* skips the stop handshake; a refused USER leaves the proxy suspended.    *)
HandleUSERTwice ==
    /\ cpc = "USER"
    /\ \/ /\ dials < MaxSwitches
          /\ cpc' = "SendStop" /\ UNCHANGED passThrough
       \/ /\ cpc' = "Reply" /\ passThrough' = TRUE
    /\ UNCHANGED <<command, switchResult, controlInTLS, rVars, wVars, stop,
                   isLoggedin, origin, originReader, dials, originVars,
                   clientVars>>

HandleUSERWithoutStop ==
    /\ cpc = "USER"
    /\ \/ /\ ~isLoggedin /\ dials < MaxSwitches
          /\ cpc' = "Dial" /\ UNCHANGED passThrough
       \/ /\ cpc' = "Reply" /\ passThrough' = TRUE
    /\ UNCHANGED <<command, switchResult, controlInTLS, rVars, wVars, stop,
                   isLoggedin, origin, originReader, dials, originVars,
                   clientVars>>

HandleUSERStaysSuspended ==
    /\ cpc = "USER"
    /\ \/ ~isLoggedin /\ dials < MaxSwitches /\ cpc' = "SendStop"
       \/ cpc' = "Reply"
    /\ UNCHANGED <<command, switchResult, controlInTLS, rVars, wVars,
                   proxyVars, originVars, clientVars>>

(* handleUSER and the checks of switchOrigin: refused when logged in or    *)
(* when the middleware left no address, otherwise the switch begins.       *)
HandleUSER ==
    /\ cpc = "USER"
    /\ \/ /\ ~isLoggedin /\ dials < MaxSwitches
          /\ cpc' = "SendStop" /\ UNCHANGED passThrough
       \/ /\ cpc' = "Reply" /\ passThrough' = TRUE
    /\ UNCHANGED <<command, switchResult, controlInTLS, rVars, wVars, stop,
                   isLoggedin, origin, originReader, dials, originVars,
                   clientVars>>

(* Mutant of DialOrigin: the reader is replaced before the dial's error is *)
(* looked at.                                                              *)
DialOriginUnchecked ==
    /\ cpc = "Dial"
    /\ \/ /\ origin' = dials + 1 /\ originReader' = dials + 1
          /\ dials' = dials + 1
          /\ conn' = [conn EXCEPT ![dials + 1] = "open"]
          /\ \E greeting \in Greetings :
               fromOrigin' = [fromOrigin EXCEPT ![dials + 1] = greeting]
          /\ cpc' = "SetReader"
       \/ /\ PeersMayFail
          /\ origin' = NoConn /\ originReader' = NoConn
          /\ cpc' = "ResetStop"
          /\ UNCHANGED <<dials, conn, fromOrigin>>
    /\ UNCHANGED <<command, switchResult, controlInTLS, rVars, wVars,
                   passThrough, stop, isLoggedin, toOrigin, accepted,
                   clientVars>>

(* switchOrigin after the rendezvous on stopChan and stopChanDone: dial,   *)
(* replace s.origin, then s.originReader (and s.originWriter).  The old    *)
(* reader may still be reading when the dial returns.                      *)
DialOrigin ==
    /\ cpc = "Dial"
    /\ \/ /\ origin' = dials + 1
          /\ dials' = dials + 1
          /\ conn' = [conn EXCEPT ![dials + 1] = "open"]
          /\ \E greeting \in Greetings :
               fromOrigin' = [fromOrigin EXCEPT ![dials + 1] = greeting]
          /\ cpc' = "SetReader"
       \/ /\ PeersMayFail
          /\ origin' = NoConn
          /\ cpc' = "ResetStop"
          /\ UNCHANGED <<dials, conn, fromOrigin>>
    /\ UNCHANGED <<command, switchResult, controlInTLS, rVars, wVars,
                   passThrough, stop, isLoggedin, originReader, toOrigin,
                   accepted, clientVars>>

SetReader ==
    /\ cpc = "SetReader"
    /\ originReader' = origin
    /\ cpc' = "Greet"
    /\ UNCHANGED <<command, switchResult, controlInTLS, rVars, wVars,
                   passThrough, stop, isLoggedin, origin, dials, originVars,
                   clientVars>>

(* Mutant of ReadGreeting: the greeting is left for W to forward.          *)
ReadGreetingKeepsLine ==
    /\ cpc = "Greet" /\ fromOrigin[originReader] # <<>>
    /\ cpc' = "Replay"
    /\ UNCHANGED <<command, switchResult, controlInTLS, rVars, wVars,
                   proxyVars, originVars, clientVars>>

(* The connection has nothing more: its peer closed it, or pftp did (then  *)
(* lines not yet buffered are lost too).                                   *)
NoMoreLines(g) ==
    conn[g] = "closed" \/ (conn[g] = "eof" /\ fromOrigin[g] = <<>>)

(* The first line of the greeting is read by C and not forwarded.          *)
ReadGreeting ==
    /\ cpc = "Greet"
    /\ \/ /\ fromOrigin[originReader] # <<>>
          /\ fromOrigin' = [fromOrigin EXCEPT ![originReader] = Tail(@)]
          /\ cpc' = "Replay"
       \/ /\ PeersMayFail \/ NoMoreLines(originReader)
          /\ cpc' = "ResetStop" /\ UNCHANGED fromOrigin
    /\ UNCHANGED <<command, switchResult, controlInTLS, rVars, wVars,
                   proxyVars, conn, toOrigin, accepted, clientVars>>

(* sendTLSCommand replays the stored AUTH, PBSZ and PROT lines; here only  *)
(* whether the new origin followed.  A line left over from the greeting is *)
(* taken for the answer to AUTH, and fails the switch; so does an origin   *)
(* that closes before its last answer.                                     *)
ReplayTLS ==
    /\ cpc = "Replay"
    /\ LET leftover == fromOrigin[originReader] # <<>>
           hangsUp  == conn[originReader] \in {"eof", "closed"}
       IN  \/ ~(controlInTLS /\ leftover) /\ switchResult' = TRUE
           \/ /\ controlInTLS /\ (PeersMayFail \/ leftover \/ hangsUp)
              /\ UNCHANGED switchResult
    /\ cpc' = "ResetStop"
    /\ UNCHANGED <<command, controlInTLS, rVars, wVars, proxyVars, originVars,
                   clientVars>>

(* Mutant of ResetStop: s.stop stays set.                                  *)
ResetStopNot ==
    /\ cpc = "ResetStop"
    /\ cpc' = "SendSwitched"
    /\ UNCHANGED <<command, switchResult, controlInTLS, rVars, wVars,
                   proxyVars, originVars, clientVars>>

(* The deferred function: s.stop = false, then waitSwitching <- result.    *)
ResetStop ==
    /\ cpc = "ResetStop"
    /\ stop' = FALSE
    /\ cpc' = "SendSwitched"
    /\ UNCHANGED <<command, switchResult, controlInTLS, rVars, wVars,
                   passThrough, isLoggedin, origin, originReader, dials,
                   originVars, clientVars>>

Unsuspend ==
    /\ cpc = "Unsuspend"
    /\ passThrough' = TRUE
    /\ cpc' = "Forward"
    /\ UNCHANGED <<command, switchResult, controlInTLS, rVars, wVars, stop,
                   isLoggedin, origin, originReader, dials, originVars,
                   clientVars>>

(* Mutant of SendEOFToOrigin: the origin is not told that the client left. *)
SendEOFToOriginNever ==
    /\ cpc = "Exit"
    /\ cpc' = "CloseClient"
    /\ UNCHANGED <<command, switchResult, controlInTLS, rVars, wVars,
                   proxyVars, originVars, clientVars>>

(* readClientCommands' deferred function: CloseWrite on the origin, Close  *)
(* on the client.                                                          *)
SendEOFToOrigin ==
    /\ cpc = "Exit"
    /\ conn' = IF origin # NoConn /\ conn[origin] = "open"
               THEN [conn EXCEPT ![origin] = "half"] ELSE conn
    /\ cpc' = "CloseClient"
    /\ UNCHANGED <<command, switchResult, controlInTLS, rVars, wVars,
                   proxyVars, fromOrigin, toOrigin, accepted, clientVars>>

CloseClient ==
    /\ cpc = "CloseClient"
    /\ writeOpen' = FALSE
    /\ cpc' = "Done"
    /\ UNCHANGED <<command, switchResult, controlInTLS, rVars, wVars,
                   proxyVars, originVars, toPftp, clientOpen, sent, replies>>

CStep ==
    \/ ReadCommand \/ RefuseCommand \/ ReadEOF \/ ReadTimeout
    \/ EndTimedOut \/ Reply \/ Forward \/ HandleAUTH \/ TLSHandshake \/ HandlePROT \/ HandleUSER
    \/ DialOrigin \/ SetReader \/ ReadGreeting \/ ReplayTLS \/ ResetStop
    \/ Unsuspend \/ SendEOFToOrigin \/ CloseClient

-----------------------------------------------------------------------------
(* Goroutine R.                                                            *)

(* startProxy returns at once while stopped or suspended (and is called    *)
(* again), otherwise it starts W and enters the select loop.               *)
StartProxy ==
    /\ rpc = "Start"
    /\ IF stop \/ ~passThrough
       THEN rpc' = "CheckStop" /\ UNCHANGED wpc
       ELSE rpc' = "Select" /\ wpc' = "Read"
    /\ UNCHANGED <<cVars, rerr, wconn, buff, proxyVars, originVars, clientVars>>

(* sendToClient; an error is logged and ignored.                           *)
SendToClient ==
    /\ rpc = "Deliver"
    /\ WriteToClient
    /\ rpc' = "Ack"
    /\ UNCHANGED <<cVars, rerr, wVars, proxyVars, originVars, toPftp,
                   clientOpen, writeOpen, sent>>

CloseAfterErr ==
    /\ rpc = "CloseAfterErr"
    /\ CloseOriginConn
    /\ rpc' = "Join"
    /\ UNCHANGED <<cVars, rerr, wVars, proxyVars, fromOrigin, toOrigin,
                   accepted, clientVars>>

(* Mutant of CloseForStop: the old origin is only forgotten.               *)
CloseForStopForgets ==
    /\ rpc = "CloseForStop"
    /\ rpc' = "StopDone"
    /\ UNCHANGED <<cVars, rerr, wVars, proxyVars, originVars, clientVars>>

CloseForStop ==
    /\ rpc = "CloseForStop"
    /\ CloseOriginConn
    /\ rpc' = "StopDone"
    /\ UNCHANGED <<cVars, rerr, wVars, proxyVars, fromOrigin, toOrigin,
                   accepted, clientVars>>

(* getResponseFromOrigin, after startProxy returned nil.                   *)
CheckStop ==
    /\ rpc = "CheckStop"
    /\ rpc' = IF stop THEN "AwaitSwitch" ELSE "Start"
    /\ UNCHANGED <<cVars, rerr, wVars, proxyVars, originVars, clientVars>>

(* Its deferred function: CloseWrite on the client, Close on the proxy.    *)
SendEOFToClient ==
    /\ rpc = "Exit"
    /\ writeOpen' = FALSE
    /\ rpc' = "CloseOrigin"
    /\ UNCHANGED <<cVars, rerr, wVars, proxyVars, originVars, toPftp,
                   clientOpen, sent, replies>>

CloseOrigin ==
    /\ rpc = "CloseOrigin"
    /\ CloseOriginConn
    /\ rpc' = "Done"
    /\ UNCHANGED <<cVars, rerr, wVars, proxyVars, fromOrigin, toOrigin,
                   accepted, clientVars>>

RStep ==
    \/ StartProxy \/ SendToClient \/ CloseAfterErr \/ CloseForStop
    \/ CheckStop \/ SendEOFToClient \/ CloseOrigin

-----------------------------------------------------------------------------
(* Goroutine W.                                                            *)

(* s.originReader is evaluated when ReadString is called.                  *)
CallRead ==
    /\ wpc = "Read"
    /\ wconn' = originReader
    /\ wpc' = "Blocked"
    /\ UNCHANGED <<cVars, rVars, buff, proxyVars, originVars, clientVars>>

TakeLine ==
    /\ wpc = "Blocked" /\ fromOrigin[wconn] # <<>>
    /\ buff' = [line |-> Head(fromOrigin[wconn]), from |-> wconn]
    /\ fromOrigin' = [fromOrigin EXCEPT ![wconn] = Tail(@)]
    /\ wpc' = "Process"
    /\ UNCHANGED <<cVars, rVars, wconn, proxyVars, conn, toOrigin, accepted,
                   clientVars>>

ReadFails ==
    /\ wpc = "Blocked" /\ NoMoreLines(wconn)
    /\ wpc' = "ErrCheck"
    /\ UNCHANGED <<cVars, rVars, wconn, buff, proxyVars, originVars, clientVars>>

(* if !s.stop { safeSetChanel(errchan, err) }                              *)
CheckErr ==
    /\ wpc = "ErrCheck"
    /\ wpc' = IF stop THEN "OfferDone" ELSE "OfferErr"
    /\ UNCHANGED <<cVars, rVars, wconn, buff, proxyVars, originVars, clientVars>>

(* Mutant of ProcessLine: the lines of a reply are forwarded one by one.   *)
ProcessLineByLine ==
    /\ wpc = "Process"
    /\ isLoggedin' = (isLoggedin \/ buff.line.code = "230")
    /\ wpc' = "CheckPass"
    /\ UNCHANGED <<cVars, rVars, wconn, buff, passThrough, stop, origin,
                   originReader, dials, originVars, clientVars>>

(* The line is rewritten: before the login a 220 becomes the configured    *)
(* welcome line, whether or not more lines follow it; 230 marks the        *)
(* session logged in; only then is a first line followed to its last one.  *)
ProcessLine ==
    /\ wpc = "Process"
    /\ LET welcome == buff.line.code = "220" /\ ~isLoggedin
       IN  /\ isLoggedin' = (isLoggedin \/ buff.line.code = "230")
           /\ IF buff.line.more /\ ~welcome
              THEN wpc' = "Multi" /\ wconn' = originReader
              ELSE wpc' = "CheckPass" /\ UNCHANGED wconn
    /\ UNCHANGED <<cVars, rVars, buff, passThrough, stop, origin,
                   originReader, dials, originVars, clientVars>>

(* The lines of a multi-line reply are collected into one.                 *)
TakeLastLine ==
    /\ wpc = "Multi" /\ fromOrigin[wconn] # <<>>
    /\ fromOrigin' = [fromOrigin EXCEPT ![wconn] = Tail(@)]
    /\ wpc' = IF Head(fromOrigin[wconn]).more THEN "Multi" ELSE "CheckPass"
    /\ UNCHANGED <<cVars, rVars, wconn, buff, proxyVars, conn, toOrigin,
                   accepted, clientVars>>

(* Here the error is offered without looking at s.stop.                    *)
MultiFails ==
    /\ wpc = "Multi" /\ NoMoreLines(wconn)
    /\ wpc' = "OfferErr"
    /\ UNCHANGED <<cVars, rVars, wconn, buff, proxyVars, originVars, clientVars>>

(* A reply that arrives while the proxy is suspended is dropped.           *)
CheckPassThrough ==
    /\ wpc = "CheckPass"
    /\ wpc' = IF passThrough THEN "OfferLine" ELSE "Read"
    /\ UNCHANGED <<cVars, rVars, wconn, buff, proxyVars, originVars, clientVars>>

WStep ==
    \/ CallRead \/ TakeLine \/ ReadFails \/ CheckErr \/ ProcessLine
    \/ TakeLastLine \/ MultiFails \/ CheckPassThrough

-----------------------------------------------------------------------------
(* Rendezvous on the unbuffered channels.                                  *)

MeetRW(w1, r1, w2, r2) ==
    /\ wpc = w1 /\ rpc = r1
    /\ wpc' = w2 /\ rpc' = r2
    /\ UNCHANGED <<cVars, wconn, buff, proxyVars, originVars, clientVars>>

PassLine == MeetRW("OfferLine", "Select", "AwaitAck", "Deliver") /\ UNCHANGED rerr
AckLine  == MeetRW("AwaitAck", "Ack", "Read", "Select") /\ UNCHANGED rerr
PassErr  == MeetRW("OfferErr", "Select", "OfferDone", "CloseAfterErr") /\ rerr' = TRUE
JoinReader ==
    /\ MeetRW("OfferDone", "Join", "None", IF rerr THEN "Exit" ELSE "CheckStop")
    /\ UNCHANGED rerr

(* stopChan: R sets s.stop before it does anything else.                   *)
PassStop ==
    /\ cpc = "SendStop" /\ rpc = "Select"
    /\ cpc' = "AwaitStopDone" /\ rpc' = "CloseForStop"
    /\ stop' = TRUE
    /\ UNCHANGED <<command, switchResult, controlInTLS, rerr, wVars,
                   passThrough, isLoggedin, origin, originReader, dials,
                   originVars, clientVars>>

(* stopChanDone: R answers before it has joined W.                         *)
PassStopDone ==
    /\ cpc = "AwaitStopDone" /\ rpc = "StopDone"
    /\ cpc' = "Dial" /\ rpc' = "Join"
    /\ switchResult' = FALSE
    /\ UNCHANGED <<command, controlInTLS, rerr, wVars, proxyVars, originVars,
                   clientVars>>

(* waitSwitching: R goes on with the new origin or ends the session; C     *)
(* goes on with handleUSER, or returns its 530 (and unsuspends).           *)
PassSwitched ==
    /\ cpc = "SendSwitched" /\ rpc = "AwaitSwitch"
    /\ cpc' = IF switchResult THEN "Unsuspend" ELSE "Reply"
    /\ rpc' = IF switchResult THEN "Start" ELSE "Exit"
    /\ passThrough' = ~switchResult
    /\ UNCHANGED <<command, switchResult, controlInTLS, rerr, wVars, stop,
                   isLoggedin, origin, originReader, dials, originVars,
                   clientVars>>

(* handleCommands after eg.Wait: everything is closed once more.           *)
EndSession ==
    /\ cpc = "Done" /\ rpc = "Done"
    /\ cpc' = "Over" /\ rpc' = "Over"
    /\ CloseOriginConn
    /\ UNCHANGED <<command, switchResult, controlInTLS, rerr, wVars,
                   proxyVars, fromOrigin, toOrigin, accepted, clientVars>>

Rendezvous ==
    \/ PassLine \/ AckLine \/ PassErr \/ JoinReader
    \/ PassStop \/ PassStopDone \/ PassSwitched \/ EndSession

-----------------------------------------------------------------------------
(* The peers (external).                                                   *)

(* Replies an origin gives to a command, line by line.                     *)
Answers(cmd) ==
    CASE cmd = "USER"  -> {<<Final("331")>>}
      [] cmd = "PASS"  -> {<<Final("230")>>, <<Final("530")>>}
      [] cmd = "QUIT"  -> {<<Final("221")>>}
      [] cmd = "OTHER" -> {<<Final("200")>>, <<First("200"), Final("200")>>}
      [] OTHER         -> {<<Final("200")>>}

OriginReply(g) ==
    /\ conn[g] \in {"open", "half"} /\ toOrigin[g] # <<>>
    /\ toOrigin' = [toOrigin EXCEPT ![g] = Tail(@)]
    /\ \E answer \in Answers(Head(toOrigin[g])) :
         /\ fromOrigin' = [fromOrigin EXCEPT ![g] = @ \o answer]
         /\ accepted' = IF Head(answer).code = "230" THEN accepted \cup {g}
                        ELSE accepted
    /\ conn' = IF Head(toOrigin[g]) = "QUIT" THEN [conn EXCEPT ![g] = "eof"]
               ELSE conn
    /\ UNCHANGED <<cVars, rVars, wVars, proxyVars, clientVars>>

(* The origin closes: on its own, or because pftp closed its side.         *)
OriginCloses(g) ==
    /\ \/ conn[g] = "open" /\ OriginMayClose
       \/ conn[g] = "half" /\ toOrigin[g] = <<>>
    /\ conn' = [conn EXCEPT ![g] = "eof"]
    /\ UNCHANGED <<cVars, rVars, wVars, proxyVars, fromOrigin, toOrigin,
                   accepted, clientVars>>

(* Without pipelining the client waits for the welcome line and then for   *)
(* the reply to each command before it sends the next.                     *)
ClientSend(cmd) ==
    /\ clientOpen /\ sent < MaxCommands
    /\ Pipelining \/ (replies > sent /\ command # "QUIT")
    /\ toPftp' = Append(toPftp, cmd)
    /\ sent' = sent + 1
    /\ UNCHANGED <<cVars, rVars, wVars, proxyVars, originVars, clientOpen,
                   writeOpen, replies>>

ClientCloses ==
    /\ clientOpen
    /\ clientOpen' = FALSE
    /\ UNCHANGED <<cVars, rVars, wVars, proxyVars, originVars, toPftp,
                   writeOpen, sent, replies>>

Peers ==
    \/ \E g \in Origins : OriginReply(g) \/ OriginCloses(g)
    \/ \E cmd \in Commands : ClientSend(cmd)
    \/ ClientCloses

Terminated == cpc = "Over" /\ UNCHANGED vars

Next == CStep \/ RStep \/ WStep \/ Rendezvous \/ Peers \/ Terminated

Spec == Init /\ [][Next]_vars

(* The Go scheduler runs every goroutine that can run; an origin answers   *)
(* what it was sent and closes what pftp closed; a client that sees the    *)
(* end of its connection closes it.  Nothing else is assumed of the peers. *)
Fairness ==
    /\ WF_vars(CStep) /\ WF_vars(RStep) /\ WF_vars(WStep) /\ WF_vars(Rendezvous)
    /\ \A g \in Origins :
         /\ WF_vars(OriginReply(g))
         /\ WF_vars(conn[g] = "half" /\ OriginCloses(g))
    /\ WF_vars(~writeOpen /\ ClientCloses)

FairSpec == Spec /\ Fairness

-----------------------------------------------------------------------------
(* Properties.                                                             *)

TypeOK ==
    /\ cpc \in CStates /\ command \in Commands
    /\ switchResult \in BOOLEAN /\ controlInTLS \in BOOLEAN
    /\ rpc \in RStates /\ rerr \in BOOLEAN
    /\ wpc \in WStates /\ wconn \in Origins
    /\ buff \in [line : Line, from : Origins]
    /\ passThrough \in BOOLEAN /\ stop \in BOOLEAN /\ isLoggedin \in BOOLEAN
    /\ origin \in Origins \cup {NoConn} /\ originReader \in Origins
    /\ dials \in Origins
    /\ conn \in [Origins -> {"none", "open", "half", "eof", "closed"}]
    /\ fromOrigin \in [Origins -> Seq(Line)]
    /\ toOrigin \in [Origins -> Seq(Commands)]
    /\ accepted \subseteq Origins
    /\ toPftp \in Seq(Commands)
    /\ clientOpen \in BOOLEAN /\ writeOpen \in BOOLEAN
    /\ sent \in 0 .. MaxCommands /\ replies \in Nat

(* Whatever the interleaving, a line that R is about to write to the       *)
(* client was read from the connection that is the session's origin: no    *)
(* reply of the old origin reaches the client after the switch began.      *)
DeliverFromCurrent == rpc \in {"Deliver", "Ack"} => buff.from = origin

(* The proxy is suspended only while a suspending handler runs, and        *)
(* s.stop is set only between the stop rendezvous and the deferred reset.  *)
Suspended  == {"USER", "AUTH", "Handshake", "PROT", "SendStop",
               "AwaitStopDone", "Dial", "SetReader", "Greet", "Replay",
               "ResetStop", "SendSwitched", "Unsuspend"}
Stopped    == {"AwaitStopDone", "Dial", "SetReader", "Greet", "Replay",
               "ResetStop"}
FlagsConfined ==
    /\ ~passThrough <=> cpc \in Suspended
    /\ stop <=> cpc \in Stopped

(* When R has ended, every connection pftp ever opened to an origin is     *)
(* closed, those of failed and of completed switches included.             *)
NoOriginLeak ==
    rpc = "Done" => \A g \in Origins : conn[g] \in {"none", "closed"}

(* The login seen by pftp is a login at the origin it is connected to.     *)
LoginBelongsToOrigin == isLoggedin => origin \in accepted

(* Once logged in, the origin is never replaced.                           *)
LoggedInStays == [][isLoggedin => origin' = origin]_vars

(* No plain-text reply is written to the client in the middle of its TLS   *)
(* handshake.                                                              *)
HandshakeQuiet == cpc = "Handshake" => rpc # "Deliver"

(* A client that waits for its replies gets one per command (and the       *)
(* welcome line), never more.                                              *)
RepliesInStep == clientOpen /\ writeOpen => replies <= sent + 1

(* The session's connections to origins are those of OriginLink: the old   *)
(* one is closed before the next is dialled, whoever closes and whoever    *)
(* dials.                                                                  *)
Held == {g \in Origins : conn[g] \in {"open", "half", "eof"}}
Link == INSTANCE OriginLink WITH link <- Held, last <- dials
OriginLinkSpec == Link!Spec

(* Every command is answered, or the client sees the connection end.  It   *)
(* does not hold when R misses a switch.                                   *)
CommandAnswered == (replies <= sent) ~> (replies > sent \/ ~writeOpen)

(* The ways in which C waits in vain: R ends, because the origin has       *)
(* closed or a switch failed; R has joined W, or W has looked at s.stop,   *)
(* after it was reset; and W, which evaluates s.originReader at each call, *)
(* reads from the new origin while R waits to join it.                     *)
Hung ==
    \/ cpc = "SendStop" /\ (rerr \/ rpc \in {"Exit", "CloseOrigin", "Done"})
    \/ cpc = "SendSwitched" /\ (rpc \in {"CheckStop", "Start"} \/ wpc = "OfferErr")
    \/ /\ cpc \in {"Greet", "Replay", "ResetStop", "SendSwitched"}
       /\ wpc = "Blocked" /\ wconn = origin

(* Every command is answered, unless a switch has hung.                    *)
AnsweredOrHung == (replies <= sent) ~> (replies > sent \/ ~writeOpen \/ Hung)

(* When the client has gone, both goroutines end and so does the session,  *)
(* unless a switch has hung.                                               *)
EndsOrHung == ~clientOpen ~> (cpc = "Over" \/ Hung)

=============================================================================
