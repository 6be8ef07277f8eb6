---------------------------- MODULE DataTransfer ----------------------------
(***************************************************************************)
(* The data connections of one logged-in session, with DataChanProxy set.  *)
(*                                                                         *)
(*   C  the command goroutine: PORT, EPRT, PASV and EPSV (handleDATA) make *)
(*      a dataHandler and install it as proxyServer.dataConnector; RETR,   *)
(*      STOR and the like (handleTransfer) start a transfer on it          *)
(*   R  the reply goroutine, which closes the proxy when the session ends  *)
(*   W  the read goroutine, which sets inDataTransfer on "150" and unsets  *)
(*      it on "226"                                                        *)
(*   T  StartDataTransfer, one goroutine per accepted transfer command,    *)
(*      with a goroutine per side that connects it and, when both have     *)
(*      connected, a goroutine per side that copies what that side sends   *)
(*                                                                         *)
(* A handler's mutex protects Close, isClosed and isStarted; dataConn is   *)
(* stored without it.  Handlers and transfers are numbered in the order in *)
(* which they are made; the socket that transfer t opens on a side is <<t, *)
(* side>>.  Payload is a number of chunks.  The replies to handleDATA are  *)
(* not modelled here, nor are addresses.                                   *)
(***************************************************************************)
EXTENDS Naturals, Sequences, FiniteSets

CONSTANTS
    MaxHandlers,     \* bound: data handlers the client asks for
    MaxTransfers,    \* bound: transfers the client starts
    MaxChunks,       \* bound: chunks a source sends
    TransferMode,    \* config.TransferMode
    ClientModes,     \* the commands the client opens data connections with
    TransferTLS,     \* PROT P was accepted
    Patient,         \* the client ends one transfer before the next command
    PromptLocal,     \* a goroutine holding a fresh connection runs first
    SessionMayEnd,   \* the session may end at any time
    Timeouts,        \* config.TransferTimeout may pass during a transfer
    EarlyMark        \* "150" may come before the data connection is open

Modes == {"PASV", "EPSV", "PORT", "EPRT"}

ASSUME DataAssumption ==
    /\ {MaxHandlers, MaxTransfers, MaxChunks} \subseteq Nat
    /\ TransferMode \in Modes \cup {"CLIENT"}
    /\ ClientModes \subseteq Modes
    /\ {TransferTLS, Patient, PromptLocal, SessionMayEnd, Timeouts, EarlyMark}
         \subseteq BOOLEAN

Handlers  == 1 .. MaxHandlers
Transfers == 1 .. MaxTransfers
Sides     == {"client", "origin"}
Other(s)  == IF s = "client" THEN "origin" ELSE "client"
None      == 0                              \* a nil dataConnector or dataConn

VARIABLES
    cpc, current, created, started,         \* C
    rpc,                                    \* R
    inDataTransfer,
    closed, needsListen, listener, dataConn,    \* the dataHandlers
    owner, direction, tpc,                  \* T
    dpc,                                    \* its connecting goroutines
    kpc, kconn,                             \* its copying goroutines
    sock, expired,                          \* pftp's end of the data sockets
    peer, sent, unread, got,                \* the peers' end
    job, fromOrigin, awaiting               \* transfer commands and replies

sessionVars == <<cpc, current, created, started, rpc>>
handlerVars == <<closed, needsListen, listener, dataConn, inDataTransfer>>
threadVars  == <<owner, direction, tpc, dpc, kpc, kconn>>
dataVars    == <<expired, peer, sent, unread, got>>
replyVars   == <<job, fromOrigin, awaiting>>
vars == <<sessionVars, handlerVars, threadVars, sock, dataVars, replyVars>>

(* What the steps of C, of a connecting and of a copying goroutine leave.  *)
callerFrame  == <<created, started, rpc, threadVars, dataVars, replyVars>>
connectFrame == <<sessionVars, owner, direction, tpc, kpc, kconn, replyVars>>
copyFrame    == <<sessionVars, handlerVars, owner, direction, tpc, dpc, replyVars>>

PerSide(x) == [s \in Sides |-> x]

Init ==
    /\ cpc = "Read" /\ current = None /\ created = 0 /\ started = 0
    /\ rpc = "Run" /\ inDataTransfer = FALSE
    /\ closed = [h \in Handlers |-> FALSE]
    /\ needsListen = [h \in Handlers |-> PerSide(FALSE)]
    /\ listener = [h \in Handlers |-> PerSide("none")]
    /\ dataConn = [h \in Handlers |-> PerSide(None)]
    /\ owner = [t \in Transfers |-> None]
    /\ direction = [t \in Transfers |-> "client"]
    /\ tpc = [t \in Transfers |-> "None"]
    /\ dpc = [t \in Transfers |-> PerSide("None")]
    /\ kpc = [t \in Transfers |-> PerSide("None")]
    /\ kconn = [t \in Transfers |-> PerSide(PerSide(None))]
    /\ sock = [t \in Transfers |-> PerSide("none")]
    /\ expired = [t \in Transfers |-> PerSide(FALSE)]
    /\ peer = [t \in Transfers |-> PerSide("none")]
    /\ sent = [t \in Transfers |-> 0]
    /\ unread = [t \in Transfers |-> 0]
    /\ got = [t \in Transfers |-> 0]
    /\ job = [t \in Transfers |-> "none"]
    /\ fromOrigin = <<>> /\ awaiting = FALSE

-----------------------------------------------------------------------------
(* The dataHandler.                                                        *)

(* Which side of the data connection pftp listens on.                      *)
checkNeedListen(clientMode, originMode, side) ==
    IF side = "client" THEN clientMode \in {"PASV", "EPSV"}
    ELSE \/ originMode \in {"PORT", "EPRT"}
         \/ originMode = "CLIENT" /\ clientMode \in {"PORT", "EPRT"}

(* Close, under the mutex: a handler that is closed stays as it is.        *)
Close(h) ==
    IF h = None \/ (h # None /\ closed[h])
    THEN UNCHANGED <<closed, listener, dataConn, inDataTransfer, sock>>
    ELSE /\ closed' = [closed EXCEPT ![h] = TRUE]
         /\ listener' = [listener EXCEPT ![h] =
              [s \in Sides |-> IF @[s] = "open" THEN "closed" ELSE @[s]]]
         /\ dataConn' = [dataConn EXCEPT ![h] = PerSide(None)]
         /\ sock' = [t \in Transfers |-> [s \in Sides |->
              IF dataConn[h][s] = t THEN "closed" ELSE sock[t][s]]]
         /\ inDataTransfer' = FALSE

(* With PromptLocal nobody closes a handler between handleTransfer's look  *)
(* at it and the transfer's own, or between the moment a connection is     *)
(* made and the moment it is stored.                                       *)
Settled == PromptLocal => cpc # "CheckStarted" /\
    \A t \in Transfers, s \in Sides :
      ~(dpc[t][s] = "Store" \/ (s = "client" /\ dpc[t][s] = "Begin"))

-----------------------------------------------------------------------------
(* Goroutine C.                                                            *)

(* A patient client has its final reply and has closed its side before it  *)
(* sends the next command, and opens a data connection for every transfer. *)
ClientReady == Patient =>
    ~awaiting /\ \A t \in Transfers : peer[t]["client"] # "open"

(* handleDATA answers 450 while a transfer is in progress.                 *)
HandleDATA ==
    /\ cpc = "Read" /\ ClientReady /\ created < MaxHandlers
    /\ ~(current # None /\ inDataTransfer)
    /\ cpc' = "NewHandler"
    /\ UNCHANGED <<callerFrame, current, handlerVars, sock>>

(* newDataHandler.  Without a free port for a side that listens it closes  *)
(* the new handler, which unsets the session's flag, and the command is    *)
(* answered with 421.                                                      *)
NewDataHandler ==
    /\ cpc = "NewHandler"
    /\ \/ /\ created' = created + 1
          /\ \E mode \in ClientModes :
               needsListen' = [needsListen EXCEPT ![created'] =
                 [s \in Sides |-> checkNeedListen(mode, TransferMode, s)]]
          /\ listener' = [listener EXCEPT ![created'] =
               [s \in Sides |-> IF needsListen'[created'][s] THEN "open" ELSE "none"]]
          /\ cpc' = "Destroy" /\ UNCHANGED inDataTransfer
       \/ /\ \E mode \in ClientModes, s \in Sides :
               checkNeedListen(mode, TransferMode, s)
          /\ inDataTransfer' = FALSE
          /\ cpc' = "Read" /\ UNCHANGED <<created, needsListen, listener>>
    /\ UNCHANGED <<current, started, rpc, closed, dataConn, threadVars, sock,
                   dataVars, replyVars>>

(* Mutant of DestroyPrevious: the previous handler is only replaced.       *)
DestroyPreviousNot ==
    /\ cpc = "Destroy" /\ Settled
    /\ cpc' = "Install"
    /\ UNCHANGED <<callerFrame, current, handlerVars, sock>>

(* SetDataHandler destroys the previous handler, then installs the new.    *)
DestroyPrevious ==
    /\ cpc = "Destroy" /\ Settled
    /\ Close(current)
    /\ cpc' = "Install"
    /\ UNCHANGED <<callerFrame, current, needsListen>>

InstallHandler ==
    /\ cpc = "Install"
    /\ current' = created
    /\ cpc' = "SendData"
    /\ UNCHANGED <<callerFrame, handlerVars, sock>>

(* Mutant of SendData: the handler is kept when the origin is gone.        *)
SendDataKeeps ==
    /\ cpc = "SendData"
    /\ cpc' = "Read"
    /\ UNCHANGED <<callerFrame, current, handlerVars, sock>>

(* The rest of handleDATA: the handler is closed when a client's address   *)
(* does not parse (501, 522) and when the command cannot be sent because   *)
(* pftp has closed its connection to the origin (500).                     *)
SendData ==
    /\ cpc = "SendData"
    /\ cpc' = "Read"
    /\ \/ /\ rpc # "Run" \/ ~needsListen[current]["client"]
          /\ Close(current)
       \/ /\ rpc = "Run" \/ closed[current]
          /\ UNCHANGED <<closed, listener, dataConn, inDataTransfer, sock>>
    /\ UNCHANGED <<callerFrame, current, needsListen>>

(* handleTransfer: 425 without an open handler, ...                        *)
HandleTransfer ==
    /\ cpc = "Read" /\ ClientReady /\ started < MaxTransfers
    /\ Patient => \A t \in Transfers : owner[t] # current
    /\ current # None /\ ~closed[current]
    /\ cpc' = "CheckStarted"
    /\ UNCHANGED <<callerFrame, current, handlerVars, sock>>

(* ... 450 during a transfer, else go StartDataTransfer, ...               *)
CheckStarted ==
    /\ cpc = "CheckStarted"
    /\ IF inDataTransfer
       THEN cpc' = "Read" /\ UNCHANGED <<started, owner, direction, tpc, dpc>>
       ELSE /\ started' = started + 1
            /\ owner' = [owner EXCEPT ![started'] = current]
            /\ \E s \in Sides : direction' = [direction EXCEPT ![started'] = s]
            /\ tpc' = [tpc EXCEPT ![started'] = "Connect"]
            /\ dpc' = [dpc EXCEPT ![started'] =
                 [client |-> "Begin", origin |-> "Await"]]
            /\ cpc' = "SendTransfer"
    /\ UNCHANGED <<current, created, rpc, handlerVars, kpc, kconn, sock,
                   dataVars, replyVars>>

(* ... and the command goes to the origin.                                 *)
SendTransfer ==
    /\ cpc = "SendTransfer"
    /\ cpc' = "Read"
    /\ IF rpc = "Run"
       THEN job' = [job EXCEPT ![started] = "sent"] /\ awaiting' = TRUE
       ELSE UNCHANGED <<job, awaiting>>
    /\ UNCHANGED <<current, created, started, rpc, handlerVars, threadVars,
                   sock, dataVars, fromOrigin>>

EndCommands ==
    /\ cpc = "Read" /\ rpc # "Run"
    /\ cpc' = "Done"
    /\ UNCHANGED <<callerFrame, current, handlerVars, sock>>

CStep ==
    \/ HandleDATA \/ NewDataHandler \/ DestroyPrevious \/ InstallHandler
    \/ SendData \/ HandleTransfer \/ CheckStarted \/ SendTransfer \/ EndCommands

-----------------------------------------------------------------------------
(* Goroutines R and W.                                                     *)

(* proxyServer.Close: the origin's connection, then the data handler.  The *)
(* closes that follow find the connection closed and return before they    *)
(* reach the data handler.                                                 *)
EndSession ==
    /\ SessionMayEnd /\ rpc = "Run"
    /\ rpc' = "Destroy"
    /\ UNCHANGED <<cpc, current, created, started, handlerVars, threadVars,
                   sock, dataVars, replyVars>>

DestroyDataHandler ==
    /\ rpc = "Destroy" /\ Settled
    /\ Close(current)
    /\ rpc' = "Done"
    /\ UNCHANGED <<cpc, current, created, started, needsListen, threadVars,
                   dataVars, replyVars>>

(* Mutants of TakeReply: "226" closes the data handler, which may still be *)
(* copying; "226" leaves the flag alone.                                   *)
TakeReplyCloses ==
    /\ fromOrigin # <<>>
    /\ fromOrigin' = Tail(fromOrigin)
    /\ IF Head(fromOrigin) = "226" THEN Close(current)
       ELSE /\ inDataTransfer' = (inDataTransfer \/ Head(fromOrigin) = "150")
            /\ UNCHANGED <<closed, listener, dataConn, sock>>
    /\ awaiting' = (awaiting /\ Head(fromOrigin) = "150")
    /\ UNCHANGED <<sessionVars, needsListen, threadVars, dataVars, job>>

TakeReplyKeepsFlag ==
    /\ fromOrigin # <<>>
    /\ fromOrigin' = Tail(fromOrigin)
    /\ inDataTransfer' = (inDataTransfer \/ Head(fromOrigin) = "150")
    /\ awaiting' = (awaiting /\ Head(fromOrigin) = "150")
    /\ UNCHANGED <<sessionVars, closed, needsListen, listener, dataConn,
                   threadVars, sock, dataVars, job>>

TakeReply ==
    /\ fromOrigin # <<>>
    /\ fromOrigin' = Tail(fromOrigin)
    /\ inDataTransfer' = CASE Head(fromOrigin) = "150" -> TRUE
                           [] Head(fromOrigin) = "226" -> FALSE
                           [] OTHER -> inDataTransfer
    /\ awaiting' = (awaiting /\ Head(fromOrigin) = "150")
    /\ UNCHANGED <<sessionVars, closed, needsListen, listener, dataConn,
                   threadVars, sock, dataVars, job>>

-----------------------------------------------------------------------------
(* StartDataTransfer: clientListenOrDial and originListenOrDial.           *)

Goto(t, s, to) == dpc' = [dpc EXCEPT ![t][s] = to]

(* The handler is looked at before the accept; a dial looks at nothing.    *)
(* A client side that finds the handler closed returns without a word to   *)
(* the origin side, which waits for it on clientConnected.                 *)
BeginConnect(t, s) ==
    /\ dpc[t][s] = "Begin"
    /\ Goto(t, s, IF needsListen[owner[t]][s] /\ closed[owner[t]]
                  THEN "Close" ELSE "Open")
    /\ UNCHANGED <<connectFrame, handlerVars, sock, dataVars>>

(* The accept or the dial returns a connection; the client side then tells *)
(* the origin side to begin.                                               *)
Connected(t, s) ==
    /\ dpc[t][s] = "Open"
    /\ needsListen[owner[t]][s] => listener[owner[t]][s] = "open"
    /\ sock' = [sock EXCEPT ![t][s] = "open"]
    /\ peer' = [peer EXCEPT ![t][s] = "open"]
    /\ dpc' = [dpc EXCEPT ![t] = IF s = "client"
                THEN [client |-> "Store", origin |-> "Begin"]
                ELSE [@ EXCEPT !["origin"] = "Store"]]
    /\ UNCHANGED <<connectFrame, handlerVars, expired, sent, unread, got>>

(* Mutant of ConnectFails: the origin side is told of a success only.      *)
ConnectFailsSilently(t, s) ==
    /\ dpc[t][s] = "Open"
    /\ Goto(t, s, "Close")
    /\ UNCHANGED <<connectFrame, handlerVars, sock, dataVars>>

(* It fails: refused, timed out, or the listener was closed.  The origin   *)
(* side of a failed client side returns nil.                               *)
ConnectFails(t, s) ==
    /\ dpc[t][s] = "Open"
    /\ dpc' = [dpc EXCEPT ![t] = IF s = "client"
                THEN [client |-> "Close", origin |-> "OK"]
                ELSE [@ EXCEPT !["origin"] = "Close"]]
    /\ UNCHANGED <<connectFrame, handlerVars, sock, dataVars>>

(* The listener is released and the connection stored, without the mutex   *)
(* and whether or not the handler has been closed meanwhile.               *)
StoreConn(t, s) ==
    /\ dpc[t][s] = "Store"
    /\ listener' = [listener EXCEPT ![owner[t]][s] = IF @ = "open" THEN "closed" ELSE @]
    /\ dataConn' = [dataConn EXCEPT ![owner[t]][s] = t]
    /\ Goto(t, s, IF TransferTLS THEN "CheckTLS" ELSE "OK")
    /\ UNCHANGED <<connectFrame, closed, needsListen, inDataTransfer, sock,
                   dataVars>>

CheckTLS(t, s) ==
    /\ dpc[t][s] = "CheckTLS"
    /\ Goto(t, s, IF closed[owner[t]] THEN "Close" ELSE "Handshake")
    /\ UNCHANGED <<connectFrame, handlerVars, sock, dataVars>>

Handshake(t, s) ==
    /\ dpc[t][s] = "Handshake"
    /\ \/ sock[t][s] = "open" /\ peer[t][s] = "open" /\ Goto(t, s, "Wrapped")
       \/ Goto(t, s, "Close")
    /\ UNCHANGED <<connectFrame, handlerVars, sock, dataVars>>

(* The wrapped connection is stored, again without the mutex.              *)
StoreTLSConn(t, s) ==
    /\ dpc[t][s] = "Wrapped"
    /\ dataConn' = [dataConn EXCEPT ![owner[t]][s] = t]
    /\ Goto(t, s, "OK")
    /\ UNCHANGED <<connectFrame, closed, needsListen, listener,
                   inDataTransfer, sock, dataVars>>

(* connectionCloser(d) before a side returns its error.                    *)
CloseAfterErr(t, s) ==
    /\ dpc[t][s] = "Close" /\ Settled
    /\ Close(owner[t])
    /\ Goto(t, s, "Err")
    /\ UNCHANGED <<connectFrame, needsListen, dataVars>>

Connect(t, s) ==
    \/ BeginConnect(t, s) \/ Connected(t, s) \/ ConnectFails(t, s)
    \/ StoreConn(t, s) \/ CheckTLS(t, s) \/ Handshake(t, s)
    \/ StoreTLSConn(t, s) \/ CloseAfterErr(t, s)

(* eg.Wait, then run.                                                      *)
JoinConnect(t) ==
    /\ tpc[t] = "Connect" /\ \A s \in Sides : dpc[t][s] \in {"OK", "Err"}
    /\ IF \E s \in Sides : dpc[t][s] = "Err"
       THEN tpc' = [tpc EXCEPT ![t] = "Close"] /\ UNCHANGED kpc
       ELSE /\ tpc' = [tpc EXCEPT ![t] = "Run"]
            /\ kpc' = [kpc EXCEPT ![t] = PerSide("Begin")]
    /\ UNCHANGED <<sessionVars, handlerVars, owner, direction, dpc, kconn,
                   sock, dataVars, replyVars>>

(* Mutant of JoinRun: the first copy that ends ends the transfer.          *)
JoinRunFirst(t) ==
    /\ tpc[t] = "Run" /\ \E s \in Sides : kpc[t][s] = "Ended"
    /\ tpc' = [tpc EXCEPT ![t] = "Close"]
    /\ UNCHANGED <<sessionVars, handlerVars, owner, direction, dpc, kpc,
                   kconn, sock, dataVars, replyVars>>

JoinRun(t) ==
    /\ tpc[t] = "Run" /\ \A s \in Sides : kpc[t][s] = "Ended"
    /\ tpc' = [tpc EXCEPT ![t] = "Close"]
    /\ UNCHANGED <<sessionVars, handlerVars, owner, direction, dpc, kpc,
                   kconn, sock, dataVars, replyVars>>

(* Mutant of EndTransfer: the handler is left open for the next command.   *)
EndTransferKeeps(t) ==
    /\ tpc[t] = "Close" /\ Settled
    /\ tpc' = [tpc EXCEPT ![t] = "Done"]
    /\ UNCHANGED <<sessionVars, handlerVars, owner, direction, dpc, kpc, kconn,
                   sock, dataVars, replyVars>>

(* The deferred connectionCloser(d).                                       *)
EndTransfer(t) ==
    /\ tpc[t] = "Close" /\ Settled
    /\ Close(owner[t])
    /\ tpc' = [tpc EXCEPT ![t] = "Done"]
    /\ UNCHANGED <<sessionVars, needsListen, owner, direction, dpc, kpc,
                   kconn, dataVars, replyVars>>

Transfer(t) == JoinConnect(t) \/ JoinRun(t) \/ EndTransfer(t)

-----------------------------------------------------------------------------
(* copyPackets: the goroutine that copies what side s sends.               *)

(* Its arguments are the handler's connections when it starts to run.      *)
BeginCopy(t, s) ==
    /\ kpc[t][s] = "Begin"
    /\ kconn' = [kconn EXCEPT ![t][s] = dataConn[owner[t]]]
    /\ kpc' = [kpc EXCEPT ![t][s] = "Check"]
    /\ UNCHANGED <<copyFrame, sock, dataVars>>

(* Mutant of CheckClosed: isClosed is not asked before the first read.     *)
CheckClosedNot(t, s) ==
    /\ kpc[t][s] = "Check"
    /\ kpc' = [kpc EXCEPT ![t][s] = "Read"]
    /\ UNCHANGED <<copyFrame, kconn, sock, dataVars>>

CheckClosed(t, s) ==
    /\ kpc[t][s] = "Check"
    /\ kpc' = [kpc EXCEPT ![t][s] = IF closed[owner[t]] THEN "Ended" ELSE "Read"]
    /\ UNCHANGED <<copyFrame, kconn, sock, dataVars>>

Usable(x, s) == x # None /\ sock[x][s] \in {"open", "half"} /\ ~expired[x][s]
Source(x)    == direction[x]

ReadChunk(t, s) ==
    LET x == kconn[t][s][s]
    IN  /\ kpc[t][s] = "Read" /\ Usable(x, s) /\ Source(x) = s /\ unread[x] > 0
        /\ unread' = [unread EXCEPT ![x] = @ - 1]
        /\ kpc' = [kpc EXCEPT ![t][s] = "Write"]
        /\ UNCHANGED <<copyFrame, kconn, sock, expired, peer, sent, got>>

(* EOF is passed on, any other error just ends the goroutine.              *)
ReadEOF(t, s) ==
    LET x == kconn[t][s][s]
        y == kconn[t][s][Other(s)]
    IN  /\ kpc[t][s] = "Read" /\ Usable(x, s) /\ peer[x][s] = "eof"
        /\ ~(Source(x) = s /\ unread[x] > 0)
        /\ sock' = [sock EXCEPT ![y][Other(s)] = IF @ = "open" THEN "half" ELSE @]
        /\ kpc' = [kpc EXCEPT ![t][s] = "Ended"]
        /\ UNCHANGED <<copyFrame, kconn, dataVars>>

ReadFails(t, s) ==
    /\ kpc[t][s] = "Read" /\ ~Usable(kconn[t][s][s], s)
    /\ kpc' = [kpc EXCEPT ![t][s] = "Ended"]
    /\ UNCHANGED <<copyFrame, kconn, sock, dataVars>>

WriteChunk(t, s) ==
    LET y == kconn[t][s][Other(s)]
    IN  /\ kpc[t][s] = "Write" /\ sock[y][Other(s)] = "open" /\ ~expired[y][Other(s)]
        /\ got' = [got EXCEPT ![y] = @ + 1]
        /\ kpc' = [kpc EXCEPT ![t][s] = "Check"]
        /\ UNCHANGED <<copyFrame, kconn, sock, expired, peer, sent, unread>>

(* A write fails once the destination is closed, has timed out or may have *)
(* been reset by its peer.                                                 *)
WriteFails(t, s) ==
    LET y == kconn[t][s][Other(s)]
    IN  /\ kpc[t][s] = "Write"
        /\ \/ sock[y][Other(s)] # "open" \/ expired[y][Other(s)]
           \/ peer[y][Other(s)] = "eof"
        /\ sock' = [sock EXCEPT ![y][Other(s)] = "closed"]
        /\ kpc' = [kpc EXCEPT ![t][s] = "Ended"]
        /\ UNCHANGED <<copyFrame, kconn, dataVars>>

Copy(t, s) ==
    \/ BeginCopy(t, s) \/ CheckClosed(t, s) \/ ReadChunk(t, s) \/ ReadEOF(t, s)
    \/ ReadFails(t, s) \/ WriteChunk(t, s) \/ WriteFails(t, s)

(* TransferTimeout passes on a connection.                                 *)
Expire(t, s) ==
    /\ Timeouts /\ tpc[t] = "Run" /\ sock[t][s] \in {"open", "half"} /\ ~expired[t][s]
    /\ expired' = [expired EXCEPT ![t][s] = TRUE]
    /\ UNCHANGED <<sessionVars, handlerVars, threadVars, sock, peer, sent,
                   unread, got, replyVars>>

-----------------------------------------------------------------------------
(* The peers (external).                                                   *)

PeerSends(t) ==
    /\ peer[t][Source(t)] = "open" /\ sent[t] < MaxChunks
    /\ sent' = [sent EXCEPT ![t] = @ + 1]
    /\ unread' = [unread EXCEPT ![t] = @ + 1]
    /\ UNCHANGED <<sessionVars, handlerVars, threadVars, sock, expired, peer,
                   got, replyVars>>

PeerCloses(t, s) ==
    /\ peer[t][s] = "open"
    /\ peer' = [peer EXCEPT ![t][s] = "eof"]
    /\ UNCHANGED <<sessionVars, handlerVars, threadVars, sock, expired, sent,
                   unread, got, replyVars>>

(* The origin refuses the command, or gives it up after "150" (425, 426,   *)
(* 451), and closes; ...                                                   *)
OriginRefuses(t) ==
    /\ rpc = "Run" /\ job[t] \in {"sent", "marked"}
    /\ job' = [job EXCEPT ![t] = IF @ = "sent" THEN "refused" ELSE "aborted"]
    /\ fromOrigin' = Append(fromOrigin, "550")
    /\ peer' = [peer EXCEPT ![t]["origin"] = IF @ = "open" THEN "eof" ELSE @]
    /\ UNCHANGED <<sessionVars, handlerVars, threadVars, sock, expired, sent,
                   unread, got, awaiting>>

(* ... or sends "150", and "226" when it has closed the data connection.   *)
OriginMarks(t) ==
    /\ rpc = "Run" /\ job[t] = "sent"
    /\ EarlyMark \/ peer[t]["origin"] # "none"
    /\ job' = [job EXCEPT ![t] = "marked"]
    /\ fromOrigin' = Append(fromOrigin, "150")
    /\ UNCHANGED <<sessionVars, handlerVars, threadVars, sock, dataVars,
                   awaiting>>

OriginFinishes(t) ==
    /\ rpc = "Run" /\ job[t] = "marked" /\ peer[t]["origin"] = "eof"
    /\ job' = [job EXCEPT ![t] = "finished"]
    /\ fromOrigin' = Append(fromOrigin, "226")
    /\ UNCHANGED <<sessionVars, handlerVars, threadVars, sock, dataVars,
                   awaiting>>

Peers == \E t \in Transfers :
    \/ PeerSends(t) \/ OriginRefuses(t) \/ OriginMarks(t) \/ OriginFinishes(t)
    \/ \E s \in Sides : PeerCloses(t, s)

Next ==
    \/ CStep \/ EndSession \/ DestroyDataHandler \/ TakeReply \/ Peers
    \/ \E t \in Transfers :
         \/ Transfer(t)
         \/ \E s \in Sides : Connect(t, s) \/ Copy(t, s) \/ Expire(t, s)

Spec == Init /\ [][Next]_vars

(* Goroutines that can run do, every accept, dial and handshake returns    *)
(* (handshakes have no deadline: the peer is assumed to answer), and a     *)
(* deadline that is set passes.                                            *)
Fairness ==
    /\ WF_vars(CStep) /\ WF_vars(DestroyDataHandler)
    /\ \A t \in Transfers :
         /\ WF_vars(Transfer(t))
         /\ \A s \in Sides :
              WF_vars(Connect(t, s)) /\ WF_vars(Copy(t, s)) /\ WF_vars(Expire(t, s))

FairSpec == Spec /\ Fairness

-----------------------------------------------------------------------------
(* Properties.                                                             *)

SessionTypes ==
    /\ cpc \in {"Read", "NewHandler", "Destroy", "Install", "SendData",
                "CheckStarted", "SendTransfer", "Done"}
    /\ rpc \in {"Run", "Destroy", "Done"}
    /\ current \in 0 .. created /\ created \in 0 .. MaxHandlers
    /\ started \in 0 .. MaxTransfers
    /\ awaiting \in BOOLEAN
    /\ job \in [Transfers -> {"none", "sent", "marked", "refused", "aborted",
                            "finished"}]
    /\ fromOrigin \in Seq({"150", "226", "550"})

HandlerTypes ==
    /\ inDataTransfer \in BOOLEAN
    /\ closed \in [Handlers -> BOOLEAN]
    /\ needsListen \in [Handlers -> [Sides -> BOOLEAN]]
    /\ listener \in [Handlers -> [Sides -> {"none", "open", "closed"}]]
    /\ dataConn \in [Handlers -> [Sides -> 0 .. MaxTransfers]]
    /\ sock \in [Transfers -> [Sides -> {"none", "open", "half", "closed"}]]

ThreadTypes ==
    /\ owner \in [Transfers -> 0 .. MaxHandlers]
    /\ direction \in [Transfers -> Sides]
    /\ tpc \in [Transfers -> {"None", "Connect", "Run", "Close", "Done"}]
    /\ dpc \in [Transfers -> [Sides -> {"None", "Await", "Begin", "Open", "Store",
                "CheckTLS", "Handshake", "Wrapped", "Close", "OK", "Err"}]]
    /\ kpc \in [Transfers -> [Sides -> {"None", "Begin", "Check", "Read",
                "Write", "Ended"}]]
    /\ kconn \in [Transfers -> [Sides -> [Sides -> 0 .. MaxTransfers]]]
    /\ \A t \in Transfers, s \in Sides :
         tpc[t] # "Run" => kpc[t][s] \in {"None", "Ended"}

DataTypes ==
    /\ expired \in [Transfers -> [Sides -> BOOLEAN]]
    /\ peer \in [Transfers -> [Sides -> {"none", "open", "eof"}]]
    /\ sent \in [Transfers -> 0 .. MaxChunks]
    /\ unread \in [Transfers -> Nat] /\ got \in [Transfers -> Nat]

(* The fields keep their types, and copies run only while T waits for them.*)
TypeOK == SessionTypes /\ HandlerTypes /\ ThreadTypes /\ DataTypes

(* A copier that reads or writes has both connections: Close sets dataConn *)
(* to nil without waiting for the goroutines that use it.                  *)
CopierHasConns == \A t \in Transfers, s \in Sides :
    kpc[t][s] \in {"Read", "Write"} => None \notin {kconn[t][s][r] : r \in Sides}

(* Once the session and its transfers have ended, no data port is still    *)
(* listened on: a handler installed while the proxy is being closed is     *)
(* closed by the command that installed it.                                *)
Quiet == \A t \in Transfers : tpc[t] \in {"None", "Done"}
ListenersReleased ==
    cpc = "Done" /\ rpc = "Done" /\ Quiet
      => \A h \in Handlers, s \in Sides : listener[h][s] # "open"

(* The origin has refused transfer t or given it up.                       *)
Refused(t) == job[t] \in {"refused", "aborted"}

(* A transfer that the origin did not refuse leaves no socket open behind  *)
(* it.  (After a refusal the next command may close the handler while it   *)
(* still dials, and the connection that is stored later stays open.)       *)
SocketsClosed == \A t \in Transfers :
    tpc[t] = "Done" /\ ~Refused(t)
      => \A s \in Sides : sock[t][s] \in {"none", "closed"}

(* Only one data connection is in use at the same time: what an earlier    *)
(* transfer left running has lost its connections when the next one copies.*)
Copying(t) == \E s \in Sides : kpc[t][s] \in {"Read", "Write"}
                               /\ Usable(kconn[t][s][s], s)
OneDataConnection == Cardinality({t \in Transfers : Copying(t)}) <= 1

(* pftp ends the stream to a destination that is still there only when the *)
(* source has ended it, and not before every chunk has been passed on      *)
(* (unless the session ends, the origin refuses or a deadline passes).     *)
NoTruncation == \A t \in Transfers :
    LET s == Source(t)
    IN  /\ rpc = "Run" /\ tpc[t] \in {"Run", "Close", "Done"} /\ ~Refused(t)
        /\ \A r \in Sides : dpc[t][r] = "OK" /\ ~expired[t][r]
        /\ peer[t][Other(s)] = "open" /\ sock[t][Other(s)] \in {"half", "closed"}
        => peer[t][s] = "eof" /\ got[t] = sent[t]

(* The session is marked as busy only while a transfer runs or the origin  *)
(* still has something to say about one: nobody is refused with 450 for    *)
(* ever.  (Unless the origin gave a transfer up after its "150": where W   *)
(* reads that when T has ended, nothing unsets the flag.)                  *)
BusyMeansTransfer ==
    inDataTransfer /\ rpc = "Run" =>
      \/ ~Quiet \/ fromOrigin # <<>>
      \/ \E t \in Transfers : job[t] \in {"sent", "marked", "aborted"}

(* A transfer whose client side has found its handler open ends, whatever  *)
(* its peers do and whoever closes the handler at whatever moment.  (One   *)
(* that finds it closed returns without the send on clientConnected, and   *)
(* the origin side waits for that send for ever.)                          *)
TransferEnds == \A t \in Transfers : dpc[t]["client"] = "Open" ~> tpc[t] = "Done"

=============================================================================
