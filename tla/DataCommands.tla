---------------------------- MODULE DataCommands ----------------------------
(***************************************************************************)
(* PORT, EPRT, PASV and EPSV with the data channel proxy on: which ports   *)
(* pftp listens on, what it tells each peer, and where it dials when a     *)
(* transfer starts.  DataTransfer has the transfer itself.                 *)
(*                                                                         *)
(*   C   handleDATA: builds a handler, installs it, sends a PORT line or   *)
(*       the configured passive command to the origin                      *)
(*   W   the reply reader: parses 227 and 229 into whichever handler is    *)
(*       current, and rewrites them and 200 for the client's mode          *)
(*   T   StartDataTransfer, one per handler: dials the sides that do not   *)
(*       listen, then closes the handler                                   *)
(*                                                                         *)
(* The session is logged in.  Handlers are numbered in the order C builds  *)
(* them; number 0 is the nil s.dataConnector.  Each line to the origin,    *)
(* and each reply, carries the number of the handler it was sent for, so   *)
(* that the properties can compare; the code has no such number.           *)
(***************************************************************************)
EXTENDS Addresses, FiniteSets

CONSTANTS
    MaxHandlers,        \* bound: data commands of the client
    MaxTransfers,       \* bound: transfer commands of the client
    Setups,             \* of a session: the configuration as loaded, whether
                        \* the client awaits each reply, whether the origin
                        \* words its 200 as W expects, ports others hold
    Ephemeral,          \* ports the kernel may choose without a range
    PftpIP, ClientIP, OriginIP,     \* the ends of the control connections
    ClientNames,        \* addresses a client may name as its own
    OriginNames,        \* addresses an origin may announce as its own
    FirstPeerPort       \* the peers listen on the ports after it

ASSUME DataCommandsAssumption ==
    /\ MaxHandlers \in Nat /\ MaxTransfers \in Nat
    /\ Ephemeral \subseteq Ports
    /\ FirstPeerPort \in 1 .. MaxPort - MaxHandlers
    /\ {PftpIP, ClientIP, OriginIP} \subseteq IPv4
    /\ \A setup \in Setups : DOMAIN setup.raw = DOMAIN defaultConfig

VARIABLES
    config, patient, wording, busy,         \* fixed by Init
    cpc, command,                           \* C
    wpc, buff, wmode,                       \* W
    tpc, transfers,                         \* T, per handler
    handlers, built, dataConnector, inDataTransfer,
    toOrigin, fromOrigin,                   \* the origin connection
    pending, told,                          \* the client: unanswered, last reply
    clientAt, originAt, originTold, dialled \* who listens where, who was told

fixed     == <<config, patient, wording, busy>>
cVars     == <<cpc, command>>
wVars     == <<wpc, buff, wmode>>
tVars     == <<tpc, transfers>>
proxyVars == <<handlers, built, dataConnector, inDataTransfer>>
lineVars  == <<toOrigin, fromOrigin>>
userVars  == <<pending, told>>
placeVars == <<clientAt, originAt, originTold, dialled>>
vars      == <<fixed, cVars, wVars, tVars, proxyVars, lineVars, userVars,
               placeVars>>

Handlers == 1 .. MaxHandlers
NoPort   == 0

(* Where a peer listens for its n-th data command: a new port each time.   *)
PeerPort(n) == FirstPeerPort + n

EmptyHandler ==
    [mode |-> "PORT", clientListens |-> NoPort, originListens |-> NoPort,
     open |-> {}, client |-> NoPlace, origin |-> NoPlace, closed |-> FALSE]

Active  == {"PORT", "EPRT"}
Passive == {"PASV", "EPSV"}

Line(code, place) == [code |-> code, place |-> place]
Plain(code)       == Line(code, NoPlace)

ListenPorts == getListenPort(config.DataPortRange, Ephemeral)

(* Mutant of ClientNeedsListen: EPSV is forgotten.                         *)
ClientNeedsListenPASV(h) == handlers[h].mode = "PASV"

ClientNeedsListen(h) ==
    checkNeedListen(handlers[h].mode, config.TransferMode, TRUE)
OriginNeedsListen(h) ==
    checkNeedListen(handlers[h].mode, config.TransferMode, FALSE)

(* Ports this session's handlers hold.  A listener that has accepted is    *)
(* closed, but the handler keeps it, and its address, until Close.         *)
HeldBy(h) == {handlers[h][side] : side \in handlers[h].open}
Held      == UNION {HeldBy(h) : h \in Handlers}

Init ==
    /\ \E setup \in Setups :
         /\ IsValidConfig(setup.raw)
         /\ config = [validateConfig(setup.raw) EXCEPT
                         !.MasqueradeIP = IF @ = NoIP THEN PftpIP ELSE @]
         /\ patient = setup.patient /\ wording = setup.wording
         /\ busy = setup.busy
    /\ cpc = "Read" /\ command = [verb |-> "RETR", fields |-> <<>>]
    /\ wpc = "Read" /\ buff = Plain("220") /\ wmode = "PORT"
    /\ tpc = [h \in Handlers |-> "None"] /\ transfers = 0
    /\ handlers = [h \in Handlers |-> EmptyHandler]
    /\ built = 0 /\ dataConnector = 0 /\ inDataTransfer = FALSE
    /\ toOrigin = <<>> /\ fromOrigin = <<>>
    /\ pending = <<>> /\ told = [verb |-> "none", line |-> Plain("220")]
    /\ clientAt = [h \in Handlers |-> NoPlace]
    /\ originAt = [h \in Handlers |-> NoPlace]
    /\ originTold = [h \in Handlers |-> NoPlace]
    /\ dialled = [h \in Handlers |-> [client |-> NoPlace, origin |-> NoPlace]]

-----------------------------------------------------------------------------
(* A reply line reaches the client: a final one answers the oldest command.*)
Tell(line) ==
    IF line.code = "150" THEN UNCHANGED <<pending, told>>
    ELSE /\ told' = [verb |-> IF pending = <<>> THEN "none" ELSE Head(pending),
                     line |-> line]
         /\ pending' = IF pending = <<>> THEN <<>> ELSE Tail(pending)

(* dataHandler.Close: once, and it clears the session's flag.              *)
Closed(handler) ==
    [handler EXCEPT !.clientListens = NoPort, !.originListens = NoPort,
                    !.open = {}, !.closed = TRUE]
CloseHandler(h) ==
    /\ handlers' = [handlers EXCEPT ![h] = Closed(@)]
    /\ inDataTransfer' = (inDataTransfer /\ handlers[h].closed)

isDataHandlerAvailable == dataConnector # 0 /\ ~handlers[dataConnector].closed

-----------------------------------------------------------------------------
(* Goroutine C: handleDATA.                                                *)

(* The command is read; a patient client has had its last answer.  fields  *)
(* are those of a PORT or EPRT line, at the client's listening place.      *)
ReadDATA(verb, fields, place) ==
    /\ cpc = "Read" /\ built < MaxHandlers
    /\ patient => pending = <<>>
    /\ command' = [verb |-> verb, fields |-> fields]
    /\ pending' = Append(pending, verb)
    /\ IF inDataTransfer
       THEN cpc' = "Busy" /\ UNCHANGED <<handlers, built, clientAt>>
       ELSE /\ cpc' = "ListenClient"
            /\ built' = built + 1
            /\ handlers' = [handlers EXCEPT ![built + 1].mode = verb]
            /\ clientAt' = [clientAt EXCEPT ![built + 1] = place]
    /\ UNCHANGED <<fixed, wVars, tVars, dataConnector, inDataTransfer,
                   lineVars, told, originAt, originTold, dialled>>

Read ==
    \/ \E verb \in Passive : ReadDATA(verb, <<>>, NoPlace)
    \/ \E ip \in ClientNames :
         LET port  == PeerPort(built + 1)
             place == [ip |-> IF isPublicIP(ip) THEN ip ELSE ClientIP,
                       port |-> port]
         IN  \/ ip \in IPv4 /\ ReadDATA("PORT", AddrFields(ip, port), place)
             \/ ReadDATA("EPRT", <<IF ip \in IPv4 THEN 1 ELSE 2, ip, port>>, place)
    \/ ReadDATA("PORT", <<>>, NoPlace)
    \/ ReadDATA("PORT", <<NotANumber>>, NoPlace)
    \/ ReadDATA("EPRT", <<3, ClientIP, 21>>, NoPlace)

(* C answers the command itself.                                           *)
Answer(code) ==
    /\ cpc' = "Read"
    /\ Tell(Plain(code))

ReplyBusy ==
    /\ cpc = "Busy"
    /\ Answer("450")
    /\ UNCHANGED <<fixed, command, wVars, tVars, proxyVars, lineVars, placeVars>>

(* setNewListener for one side: a free port of the range, or, after 30     *)
(* tries that met ports in use, an error: the new handler is closed and    *)
(* the client told 421, the installed handler stays.                       *)
Listen(pc, needed, side, next) ==
    /\ cpc = pc
    /\ \/ /\ ~needed
          /\ cpc' = next
          /\ UNCHANGED <<handlers, inDataTransfer, userVars>>
       \/ /\ needed
          /\ \E port \in ListenPorts \ (busy \cup Held) :
               handlers' = [handlers EXCEPT ![built][side] = port,
                                            ![built].open = @ \cup {side}]
          /\ cpc' = next
          /\ UNCHANGED <<inDataTransfer, userVars>>
       \/ /\ needed /\ ListenPorts \cap (busy \cup Held) # {}
          /\ CloseHandler(built)
          /\ Answer("421")
    /\ UNCHANGED <<fixed, command, wVars, tVars, built, dataConnector,
                   lineVars, placeVars>>

ListenClient == Listen("ListenClient", ClientNeedsListen(built),
                       "clientListens", "ListenOrigin")
ListenOrigin == Listen("ListenOrigin", OriginNeedsListen(built),
                       "originListens", "Destroy")

(* Mutant of DestroyDataHandler: the previous handler is only forgotten.   *)
DestroyDataHandlerForgets ==
    /\ cpc = "Destroy"
    /\ UNCHANGED <<handlers, inDataTransfer>>
    /\ cpc' = "Install"
    /\ UNCHANGED <<fixed, command, wVars, tVars, built, dataConnector,
                   lineVars, userVars, placeVars>>

(* SetDataHandler: the previous handler is closed, then replaced.          *)
DestroyDataHandler ==
    /\ cpc = "Destroy"
    /\ IF dataConnector = 0 THEN UNCHANGED <<handlers, inDataTransfer>>
       ELSE CloseHandler(dataConnector)
    /\ cpc' = "Install"
    /\ UNCHANGED <<fixed, command, wVars, tVars, built, dataConnector,
                   lineVars, userVars, placeVars>>

SetDataHandler ==
    /\ cpc = "Install"
    /\ dataConnector' = built
    /\ cpc' = IF command.verb \in Active THEN "Parse" ELSE "Send"
    /\ UNCHANGED <<fixed, command, wVars, tVars, handlers, built,
                   inDataTransfer, lineVars, userVars, placeVars>>

(* parsePORTcommand and parseEPRTcommand: on an error the handler just     *)
(* installed is closed.  Without a parameter they panic: handleCommand     *)
(* recovers, the client is told nothing and the handler stays installed.   *)
ParseClientAddr ==
    /\ cpc = "Parse"
    /\ LET addr == IF command.verb = "PORT" THEN parseLineToAddr(command.fields)
                   ELSE parseEPRTtoAddr(command.fields)
       IN  IF command.fields = <<>>
           THEN cpc' = "Read" /\ UNCHANGED <<handlers, inDataTransfer, userVars>>
           ELSE IF IsError(addr)
           THEN /\ CloseHandler(built)
                /\ Answer(IF addr = UnknownProtocol THEN "522" ELSE "501")
           ELSE /\ handlers' = [handlers EXCEPT ![built].client =
                                                  Trusted(addr, ClientIP)]
                /\ cpc' = "Send"
                /\ UNCHANGED <<inDataTransfer, userVars>>
    /\ UNCHANGED <<fixed, command, wVars, tVars, built, dataConnector,
                   lineVars, placeVars>>

(* PORT with the address of the origin side's listener when pftp listens   *)
(* there, otherwise the command of the configured mode, or the client's.   *)
(* When it cannot be sent the handler just installed is closed.            *)
SendDATA ==
    /\ cpc = "Send"
    /\ LET listens == OriginNeedsListen(dataConnector)
           verb    == IF listens THEN "PORT"
                      ELSE IF config.TransferMode = "CLIENT" THEN command.verb
                      ELSE config.TransferMode
           fields  == IF listens
                      THEN AddrFields(PftpIP, handlers[dataConnector].originListens)
                      ELSE <<>>
       IN  \/ /\ isDataHandlerAvailable
              /\ toOrigin' = Append(toOrigin, [verb |-> verb, for |-> built,
                                               fields |-> fields])
              /\ cpc' = "Read"
              /\ UNCHANGED <<handlers, inDataTransfer, userVars>>
           \/ /\ isDataHandlerAvailable
              /\ CloseHandler(dataConnector)
              /\ Answer("500") /\ UNCHANGED toOrigin
           \/ /\ ~isDataHandlerAvailable
              /\ Answer("425") /\ UNCHANGED <<handlers, inDataTransfer, toOrigin>>
    /\ UNCHANGED <<fixed, command, wVars, tVars, built, dataConnector,
                   fromOrigin, placeVars>>

(* pftp answers the transfer command itself.                               *)
Refuse(code) ==
    /\ told' = [verb |-> "RETR", line |-> Plain(code)]
    /\ UNCHANGED <<toOrigin, pending>>

(* handleTransfer: T is started first, and goes on when the command cannot *)
(* be sent.  Bound: at most one transfer of a handler.                     *)
HandleTransfer ==
    /\ cpc = "Read" /\ transfers < MaxTransfers
    /\ patient => pending = <<>>
    /\ transfers' = transfers + 1
    /\ IF ~isDataHandlerAvailable \/ inDataTransfer
       THEN /\ Refuse(IF ~isDataHandlerAvailable THEN "425" ELSE "450")
            /\ UNCHANGED tpc
       ELSE /\ tpc[dataConnector] = "None"
            /\ tpc' = [tpc EXCEPT ![dataConnector] = "Client"]
            /\ \/ /\ toOrigin' = Append(toOrigin, [verb |-> "RETR", fields |-> <<>>,
                                                    for |-> dataConnector])
                  /\ pending' = Append(pending, "RETR")
                  /\ UNCHANGED told
               \/ Refuse("500")
    /\ UNCHANGED <<fixed, cVars, wVars, proxyVars, fromOrigin, placeVars>>

CStep ==
    \/ Read \/ ReplyBusy \/ ListenClient \/ ListenOrigin \/ DestroyDataHandler
    \/ SetDataHandler \/ ParseClientAddr \/ SendDATA \/ HandleTransfer

-----------------------------------------------------------------------------
(* Goroutine W: the reply reader, as far as it concerns data commands.     *)

(* Mutant of Announced: ignore_passive_ip is taken the other way round.    *)
AnnouncedInverted(handler, line) ==
    IF line.place = NoPlace THEN handler.origin
    ELSE IF line.code = "229" THEN [handler.origin EXCEPT !.port = line.place.port]
    ELSE Trusted(IF config.IgnorePassiveIP THEN line.place
                 ELSE [line.place EXCEPT !.ip = OriginIP], OriginIP)

(* parsePASVresponse and parseEPSVresponse: the latter leaves the handler  *)
(* without a host.  A line without an address between parentheses, and a   *)
(* 229 without a good port, leave the handler as it is; W looks at neither *)
(* error.                                                                  *)
Announced(handler, line) ==
    IF line.place = NoPlace THEN handler.origin
    ELSE IF line.code = "229" THEN [handler.origin EXCEPT !.port = line.place.port]
    ELSE Trusted(IF config.IgnorePassiveIP
                 THEN [line.place EXCEPT !.ip = OriginIP] ELSE line.place,
                 OriginIP)

(* A line is read and looked at.  Without a handler the parsers dereference*)
(* nil in a goroutine that does not recover.                               *)
TakeReply ==
    /\ wpc = "Read" /\ fromOrigin # <<>>
    /\ buff' = Head(fromOrigin) /\ fromOrigin' = Tail(fromOrigin)
    /\ LET code == buff'.code
       IN  /\ handlers' = IF code \in {"227", "229"} /\ dataConnector # 0
                          THEN [handlers EXCEPT ![dataConnector].origin =
                                Announced(handlers[dataConnector], buff')]
                          ELSE handlers
           /\ wpc' = IF code \notin {"227", "229", "200 PORT"} THEN "Deliver"
                     ELSE IF code # "200 PORT" /\ dataConnector = 0 THEN "Panic"
                     ELSE "Check"
           /\ inDataTransfer' =
                 (code = "150" \/ (inDataTransfer /\ code # "226"))
    /\ UNCHANGED <<fixed, cVars, wmode, tVars, built, dataConnector,
                   toOrigin, userVars, placeVars>>

CheckAvailable ==
    /\ wpc = "Check"
    /\ IF isDataHandlerAvailable THEN wpc' = "Mode" /\ UNCHANGED buff
       ELSE wpc' = "Deliver" /\ buff' = Plain("425")
    /\ UNCHANGED <<fixed, cVars, wmode, tVars, proxyVars, lineVars, userVars,
                   placeVars>>

(* Mutant of ReadMode: the origin side's mode is taken.                    *)
ReadModeOfOrigin ==
    /\ wpc = "Mode"
    /\ wmode' = IF config.TransferMode = "CLIENT" THEN handlers[dataConnector].mode
                ELSE config.TransferMode
    /\ wpc' = "Rewrite"
    /\ UNCHANGED <<fixed, cVars, buff, tVars, proxyVars, lineVars, userVars,
                   placeVars>>

ReadMode ==
    /\ wpc = "Mode"
    /\ wmode' = handlers[dataConnector].mode
    /\ wpc' = "Rewrite"
    /\ UNCHANGED <<fixed, cVars, buff, tVars, proxyVars, lineVars, userVars,
                   placeVars>>

(* The line the client's mode calls for.  The listener is looked up again: *)
(* it is nil when C has closed or replaced the handler since the check.    *)
Rewrite ==
    /\ wpc = "Rewrite"
    /\ LET port == handlers[dataConnector].clientListens
       IN  IF wmode \in Passive /\ port = NoPort
           THEN wpc' = "Panic" /\ UNCHANGED buff
           ELSE /\ wpc' = "Deliver"
                /\ buff' = IF wmode \in Active THEN Plain("200")
                           ELSE Line(IF wmode = "PASV" THEN "227" ELSE "229",
                                     [ip |-> config.MasqueradeIP, port |-> port])
    /\ UNCHANGED <<fixed, cVars, wmode, tVars, proxyVars, lineVars, userVars,
                   placeVars>>

(* R writes the line to the client.  (buff and wmode are not read again.)  *)
Deliver ==
    /\ wpc = "Deliver"
    /\ Tell(buff)
    /\ wpc' = "Read" /\ buff' = Plain("220") /\ wmode' = "PORT"
    /\ UNCHANGED <<fixed, cVars, tVars, proxyVars, lineVars,
                   placeVars>>

WStep == TakeReply \/ CheckAvailable \/ ReadMode \/ Rewrite \/ Deliver

-----------------------------------------------------------------------------
(* Goroutine T(h): StartDataTransfer of handler h.                         *)

(* One side: an open listener accepts and is closed, or the handler's      *)
(* address is dialled, whatever has become of the handler.                 *)
Connect(h, pc, needed, listener, side, next) ==
    /\ tpc[h] = pc
    /\ \/ /\ needed /\ ~handlers[h].closed
          /\ handlers' = [handlers EXCEPT ![h].open = @ \ {listener}]
          /\ tpc' = [tpc EXCEPT ![h] = next]
          /\ UNCHANGED dialled
       \/ /\ ~needed
          /\ dialled' = [dialled EXCEPT ![h][side] = handlers[h][side]]
          /\ tpc' = [tpc EXCEPT ![h] = next]
          /\ UNCHANGED handlers
       \/ /\ tpc' = [tpc EXCEPT ![h] = "Close"]
          /\ UNCHANGED <<handlers, dialled>>
    /\ UNCHANGED <<fixed, cVars, wVars, transfers, built, dataConnector,
                   inDataTransfer, lineVars, userVars, clientAt,
                   originAt, originTold>>

clientListenOrDial(h) == Connect(h, "Client", ClientNeedsListen(h),
                                 "clientListens", "client", "Origin")
originListenOrDial(h) == Connect(h, "Origin", OriginNeedsListen(h),
                                 "originListens", "origin", "Close")

EndTransfer(h) ==
    /\ tpc[h] = "Close"
    /\ CloseHandler(h)
    /\ tpc' = [tpc EXCEPT ![h] = "Done"]
    /\ UNCHANGED <<fixed, cVars, wVars, transfers, built, dataConnector,
                   lineVars, userVars, placeVars>>

TStep(h) == clientListenOrDial(h) \/ originListenOrDial(h) \/ EndTransfer(h)

-----------------------------------------------------------------------------
(* The peers and the rest of the host (external).                          *)

(* The origin's answer to a command: where it then listens, what it was    *)
(* told, and its lines.  An address it announces is where it listens when  *)
(* that is public; a private one belongs to its side of an address         *)
(* translation.  It may announce none that can be read, and listen         *)
(* somewhere all the same.                                                 *)
OriginAnswers(cmd) ==
    CASE cmd.verb = "PORT" ->
           {<<Plain(IF wording THEN "200 PORT" ELSE "200")>>}
      [] cmd.verb = "PASV" ->
           {<<Line("227", [ip |-> ip, port |-> PeerPort(cmd.for)])>> :
               ip \in OriginNames}
             \cup {<<Line("227", NoPlace)>>, <<Line("227", InvalidAddress)>>}
      [] cmd.verb = "EPSV" ->
           {<<Line("229", [ip |-> NoIP, port |-> PeerPort(cmd.for)])>>,
            <<Line("229", NoPlace)>>}
      [] OTHER -> {<<Plain("150"), Plain("226")>>}

OriginReply ==
    /\ toOrigin # <<>>
    /\ LET cmd == Head(toOrigin)
       IN  \E lines \in OriginAnswers(cmd) \cup {<<Plain("500")>>} :
             LET place == lines[1].place
             IN  /\ fromOrigin' = fromOrigin \o lines
                 /\ originAt' = IF place.port \notin Ports THEN originAt
                        ELSE [originAt EXCEPT ![cmd.for] =
                                [place EXCEPT !.ip = IF isPublicIP(@) THEN @
                                                     ELSE OriginIP]]
                 /\ originTold' = IF cmd.verb # "PORT" THEN originTold
                        ELSE [originTold EXCEPT ![cmd.for] =
                                parseLineToAddr(cmd.fields)]
    /\ toOrigin' = Tail(toOrigin)
    /\ UNCHANGED <<fixed, cVars, wVars, tVars, proxyVars, userVars, clientAt,
                   dialled>>

(* Every command answered, or an end nobody gets out of (W has panicked,   *)
(* or the client awaits an answer that will not come).                     *)
Idle == cpc = "Read" /\ UNCHANGED vars

Next ==
    \/ CStep \/ WStep
    \/ \E h \in Handlers : TStep(h)
    \/ OriginReply
    \/ Idle

Spec == Init /\ [][Next]_vars

-----------------------------------------------------------------------------
(* Properties.                                                             *)

(* A transfer dials the client where the client listens, and, when the     *)
(* client awaits its replies, the origin where the origin listens: never   *)
(* at an address announced for an earlier handler.  Left out: an origin    *)
(* that announced with 229 (no host) or nothing that can be read (no port),*)
(* and one that listens on another host than it answers on while           *)
(* ignore_passive_ip is set.                                               *)
DialsPeers ==
    \A h \in Handlers :
      /\ dialled[h].client # NoPlace => dialled[h].client = clientAt[h]
      /\ (/\ patient
          /\ dialled[h].origin.ip # NoIP /\ dialled[h].origin.port # NoPort
          /\ config.IgnorePassiveIP => originAt[h].ip = OriginIP)
            => dialled[h].origin = originAt[h]

(* An origin that is dialled is dialled at a host.                         *)
DialsAHost ==
    \A h \in Handlers :
      dialled[h].origin.port # NoPort => dialled[h].origin.ip # NoIP

(* A client that awaits its replies is told, in answer to PASV and EPSV,   *)
(* the port on which the current handler still listens for it; and an      *)
(* origin told PORT can reach the listener meant for it.                   *)
ToldPlacesListen ==
    (/\ patient /\ pending = <<>> /\ cpc = "Read"
     /\ dataConnector # 0 /\ tpc[dataConnector] = "None")
    => LET d == handlers[dataConnector]
       IN  /\ told.line.code \in {"227", "229"} /\ told.verb \in Passive
                => /\ "clientListens" \in d.open
                   /\ told.line.place =
                        [ip |-> config.MasqueradeIP, port |-> d.clientListens]
           /\ originTold[dataConnector] # NoPlace
                => /\ "originListens" \in d.open
                   /\ originTold[dataConnector] =
                        [ip |-> PftpIP, port |-> d.originListens]

(* A client that awaits its replies gets one reply per command, of the     *)
(* kind its command calls for, whatever command pftp sent to the origin in *)
(* its place.  The origin words its answer to PORT the way W expects.      *)
Refusals == {"421", "425", "450", "500", "501"}
Expected(verb) ==
    CASE verb = "PORT" -> {"200"} \cup Refusals
      [] verb = "EPRT" -> {"200", "522"} \cup Refusals
      [] verb = "PASV" -> {"227"} \cup Refusals
      [] verb = "EPSV" -> {"229"} \cup Refusals
      [] verb = "RETR" -> {"226"} \cup Refusals
      [] OTHER         -> {"220"}
RepliesMatch == patient /\ wording => told.line.code \in Expected(told.verb)

(* W never meets a nil handler or listener when the client awaits its      *)
(* replies and the origin announces nothing unasked.                       *)
NoPanic == patient => wpc # "Panic"

(* Only the installed handler and the one being built hold ports, whatever *)
(* the client pipelines and however a command ends.                        *)
OnlyCurrentListens ==
    \A h \in Handlers : HeldBy(h) # {} =>
      \/ h = dataConnector
      \/ h = built /\ cpc \in {"ListenOrigin", "Destroy", "Install"}

=============================================================================
