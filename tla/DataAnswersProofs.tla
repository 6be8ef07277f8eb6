------------------------- MODULE DataAnswersProofs -------------------------
(***************************************************************************)
(* For every configuration, every number of data commands and transfers,   *)
(* and every peer: no transfer dials the client elsewhere than where it    *)
(* listens.  And while the client awaits its replies, whatever pftp sends  *)
(* to the origin in the place of the client's command: the reader of the   *)
(* origin's replies meets neither a nil handler nor a nil listener, every  *)
(* command is answered in kind, what the two peers are told are the places *)
(* where pftp still listens for them, and the origin is dialled where it   *)
(* listens.                                                                *)
(*                                                                         *)
(* That all rests on where the one command under way is (Patience): with   *)
(* C, with the origin, or with W; and on its being a command of the        *)
(* installed handler, which nothing closes until its answer is out.        *)
(***************************************************************************)
EXTENDS DataCommandsProofs, AddressesProofs

DATA    == Active \cup Passive
AtWork  == Building \cup {"Parse", "Send"}

(* The configuration is one that validateConfig let pass.                  *)
Configured ==
    /\ config.TransferMode \in {"PORT", "PASV", "EPSV", "CLIENT"}
    /\ ListenPorts \subseteq Ports

Mapped ==
    /\ DOMAIN tpc = Handlers /\ DOMAIN clientAt = Handlers
    /\ DOMAIN originAt = Handlers /\ DOMAIN originTold = Handlers
    /\ DOMAIN dialled = Handlers
    /\ \A h \in Handlers : DOMAIN dialled[h] = {"client", "origin"}

(* Only a handler that has been installed transfers, and only a transfer   *)
(* dials.                                                                  *)
Started ==
    \A h \in Handlers :
      /\ tpc[h] # "None" => h <= dataConnector
      /\ tpc[h] = "None" => dialled[h] = [client |-> NoPlace, origin |-> NoPlace]

(* What parsePORTcommand or parseEPRTcommand will make of the command.     *)
ClientAddr ==
    IF command.verb = "PORT" THEN parseLineToAddr(command.fields)
    ELSE parseEPRTtoAddr(command.fields)
Understood ==
    \/ command.fields = <<>> \/ IsError(ClientAddr)
    \/ Trusted(ClientAddr, ClientIP) = clientAt[built]

(* The client is known, and dialled, at the place where it listens for     *)
(* this handler.                                                           *)
Named ==
    /\ \A h \in Handlers :
         /\ handlers[h].client \in {NoPlace, clientAt[h]}
         /\ dialled[h].client \in {NoPlace, clientAt[h]}
         /\ h > built => handlers[h] = EmptyHandler
    /\ cpc \in Building \cup {"Parse"} /\ command.verb \in Active => Understood

(* Of C's command: where C is, and the handler C works on.                 *)
ClientReady(h) == ClientNeedsListen(h) =>
    "clientListens" \in handlers[h].open /\ handlers[h].clientListens \in Ports
OriginReady(h) == OriginNeedsListen(h) =>
    "originListens" \in handlers[h].open /\ handlers[h].originListens \in Ports
Worked ==
    /\ cpc \in AtWork \cup {"Busy", "Read"}
    /\ cpc # "Read" => command.verb \in DATA
    /\ cpc = "Parse" => command.verb \in Active
    /\ cpc \in AtWork => built # 0 /\ handlers[built].mode = command.verb
    /\ cpc \in Building => ~handlers[built].closed
    /\ cpc \in {"Parse", "Send"} => dataConnector = built /\ tpc[built] = "None"
    /\ cpc \in {"ListenOrigin", "Destroy", "Install"} => ClientReady(built)
    /\ cpc \in {"Destroy", "Install"} => OriginReady(built)

(* The installed handler listens where it needs to until it transfers or   *)
(* is closed.                                                              *)
Listening ==
    dataConnector # 0 /\ tpc[dataConnector] = "None" /\ ~handlers[dataConnector].closed
      => ClientReady(dataConnector) /\ OriginReady(dataConnector)

(* What C sends to the origin in the place of the client's command.        *)
Request ==
    LET listens == OriginNeedsListen(built)
    IN  [verb   |-> IF listens THEN "PORT"
                    ELSE IF config.TransferMode = "CLIENT" THEN command.verb
                    ELSE config.TransferMode,
         for    |-> built,
         fields |-> IF listens THEN AddrFields(PftpIP, handlers[built].originListens)
                    ELSE <<>>]

(* A line that the origin may answer Request with.                         *)
Fits(line) ==
    /\ line.code \in {"200 PORT", "200", "227", "229", "500"}
    /\ line.code = "200" => ~wording
    /\ line.code = "227" =>
         \/ line.place \in {NoPlace, InvalidAddress}
         \/ \E ip : /\ line.place = [ip |-> ip, port |-> PeerPort(built)]
                    /\ originAt[built] = Trusted(line.place, OriginIP)

(* A line that the client may be told.                                     *)
Suits(line) ==
    /\ line.code # "150"
    /\ wording => line.code \in Expected(command.verb)
    /\ line.code \in {"227", "229"} =>
         /\ command.verb \in Passive
         /\ line.place = [ip |-> config.MasqueradeIP, port |-> handlers[built].clientListens]

(* The command under way: with C (where a panic of the parser leaves it    *)
(* for good), or with the origin and W, and then of one handler.           *)
Unasked == toOrigin = <<>> /\ fromOrigin = <<>> /\ wpc = "Read"
Between == pending = <<>> /\ cpc = "Read" /\ Unasked
WithC   == pending = <<command.verb>> /\ Unasked

WithOrigin ==
    /\ toOrigin = <<Request>> /\ fromOrigin = <<>> /\ wpc = "Read"
    /\ handlers[built].origin = NoPlace
OnItsWay ==
    /\ toOrigin = <<>> /\ wpc = "Read" /\ handlers[built].origin = NoPlace
    /\ \E line : fromOrigin = <<line>> /\ Fits(line)
WithW ==
    /\ toOrigin = <<>> /\ fromOrigin = <<>>
    /\ \/ wpc \in {"Check", "Mode"}
       \/ wpc = "Rewrite" /\ wmode = command.verb
       \/ wpc = "Deliver" /\ Suits(buff)
Asked ==
    /\ cpc = "Read" /\ command.verb \in DATA /\ pending = <<command.verb>>
    /\ built # 0 /\ dataConnector = built /\ tpc[built] = "None"
    /\ handlers[built].mode = command.verb /\ ~handlers[built].closed
    /\ WithOrigin \/ OnItsWay \/ WithW

Transferring ==
    /\ cpc = "Read" /\ pending = <<"RETR">>
    /\ \/ /\ \E h : toOrigin = <<[verb |-> "RETR", fields |-> <<>>, for |-> h]>>
          /\ fromOrigin = <<>> /\ wpc = "Read"
       \/ /\ toOrigin = <<>> /\ wpc = "Read"
          /\ fromOrigin \in {<<Plain("150"), Plain("226")>>, <<Plain("226")>>,
                             <<Plain("500")>>}
       \/ /\ toOrigin = <<>> /\ wpc = "Deliver"
          /\ \/ buff = Plain("150") /\ fromOrigin = <<Plain("226")>>
             \/ buff \in {Plain("226"), Plain("500")} /\ fromOrigin = <<>>

Patience == patient => Between \/ WithC \/ Asked \/ Transferring

(* Nothing is known of the origin's side of a handler until its command    *)
(* has been sent; then it is known, and dialled, where it listens; and it  *)
(* has been told of a listener that is open.                               *)
Unannounced(h) == handlers[h].origin = NoPlace /\ originTold[h] = NoPlace
Settled(place, h) ==
    /\ place.ip # NoIP /\ place.port # NoPort
    /\ config.IgnorePassiveIP => originAt[h].ip = OriginIP
    => place = originAt[h]
Known ==
    patient =>
      /\ \A h \in Handlers :
           /\ h > dataConnector => Unannounced(h)
           /\ Settled(handlers[h].origin, h)
           /\ Settled(dialled[h].origin, h)
      /\ cpc \in {"Parse", "Send"} => Unannounced(built)
      /\ (/\ dataConnector # 0 /\ tpc[dataConnector] = "None" /\ cpc # "Install"
          /\ originTold[dataConnector] # NoPlace)
         => LET d == handlers[dataConnector]
            IN  /\ "originListens" \in d.open
                /\ originTold[dataConnector] = [ip |-> PftpIP, port |-> d.originListens]

(* What the client was last told, and that it is right.                    *)
Informed ==
    patient =>
      /\ wording => told.line.code \in Expected(told.verb)
      /\ (/\ pending = <<>> /\ dataConnector # 0 /\ tpc[dataConnector] = "None"
          /\ told.line.code \in {"227", "229"} /\ told.verb \in Passive)
         => LET d == handlers[dataConnector]
            IN  /\ "clientListens" \in d.open
                /\ told.line.place = [ip |-> config.MasqueradeIP, port |-> d.clientListens]

SInv ==
    /\ IInv /\ Configured /\ Mapped /\ Started /\ Named /\ Worked /\ Listening
    /\ Patience /\ Known /\ Informed

USE MaxNat DEF Handlers

-----------------------------------------------------------------------------
(* What the constants and the operators come to.                           *)

LEMMA PeerPorts == \A n \in Handlers : PeerPort(n) \in Ports
<1>1. FirstPeerPort \in 1 .. MaxPort - MaxHandlers /\ MaxPort \in Nat
  BY DataCommandsAssumption DEF MaxPort
<1> QED
  BY <1>1 DEF PeerPort, Ports

LEMMA Hosts == PftpIP \in IPv4 /\ ClientIP \in IPv4 /\ OriginIP \in IPv4
BY DataCommandsAssumption

LEMMA Hostless == NoPlace.ip = NoIP /\ NoPlace.port = 0 /\ NoPlace.port \notin Ports
BY DEF NoPlace, Ports

LEMMA Portless ==
    /\ InvalidAddress # NoPlace /\ InvalidAddress.port \notin Ports
    /\ \A own : /\ Trusted(InvalidAddress, own).port = NoPort
               /\ \A ip : Trusted([InvalidAddress EXCEPT !.ip = ip], own).port = NoPort
<1>1. InvalidAddress.port = -1 /\ \A ip : [InvalidAddress EXCEPT !.ip = ip].port = -1
  BY DEF InvalidAddress, NoPlace
<1>2. \A place, own : place.port = -1 => Trusted(place, own).port = NoPort
  BY DEF Trusted, IsError, NoPort
<1>3. NoPlace.port # -1 /\ -1 \notin Ports
  BY DEF NoPlace, Ports, MaxPort
<1> QED
  BY <1>1, <1>2, <1>3

LEMMA PortIsNoError == \A ip, port : port \in Ports => ~IsError([ip |-> ip, port |-> port])
<1> SUFFICES ASSUME NEW ip, NEW port \in Ports
             PROVE  ~IsError([ip |-> ip, port |-> port])
  OBVIOUS
<1>1. port > 0 /\ port \in Int
  BY DEF Ports, MaxPort
<1>2. [ip |-> ip, port |-> port].port = port
  OBVIOUS
<1> QED
  BY <1>1, <1>2 DEF IsError

LEMMA ErrorsAreErrors == IsError(InvalidAddress) /\ IsError(UnknownProtocol)
BY DEF IsError, InvalidAddress, UnknownProtocol, NoPlace

LEMMA TrustedPort ==
    ASSUME NEW ip, NEW port \in Ports, NEW own
    PROVE  Trusted([ip |-> ip, port |-> port], own)
             = [ip |-> IF isPublicIP(ip) THEN ip ELSE own, port |-> port]
BY PortIsNoError DEF Trusted

(* Only EPRT can name a protocol that is not known.                        *)
LEMMA PORTNamesNoProtocol == \A fields : parseLineToAddr(fields) # UnknownProtocol
<1> SUFFICES ASSUME NEW fields PROVE parseLineToAddr(fields) # UnknownProtocol
  OBVIOUS
<1>1. parseLineToAddr(fields) = InvalidAddress \/ parseLineToAddr(fields).port \in Ports
  BY DEF parseLineToAddr
<1>2. InvalidAddress # UnknownProtocol
  <2>1. InvalidAddress.port = -1 /\ UnknownProtocol.port = -2
    BY DEF InvalidAddress, UnknownProtocol, NoPlace
  <2>2. -1 # -2
    OBVIOUS
  <2> QED
    BY <2>1, <2>2, Zenon
<1>3. UnknownProtocol.port \notin Ports
  BY DEF UnknownProtocol, NoPlace, Ports, MaxPort
<1> QED
  BY <1>1, <1>2, <1>3

LEMMA LineFields ==
    ASSUME NEW code, NEW place
    PROVE  /\ Line(code, place).code = code /\ Line(code, place).place = place
           /\ Plain(code).code = code /\ Plain(code).place = NoPlace
BY DEF Line, Plain

LEMMA ClosedFields ==
    ASSUME NEW handler, DOMAIN handler = DOMAIN EmptyHandler
    PROVE  /\ Closed(handler).mode = handler.mode
           /\ Closed(handler).client = handler.client
           /\ Closed(handler).origin = handler.origin
           /\ Closed(handler).closed = TRUE
BY EmptyFields DEF Closed

LEMMA EmptyValues ==
    /\ EmptyHandler.client = NoPlace /\ EmptyHandler.origin = NoPlace
    /\ EmptyHandler.closed = FALSE /\ EmptyHandler.open = {}
BY DEF EmptyHandler

(* The kinds of reply that a command allows.                               *)
LEMMA ExpectedReplies ==
    /\ \A verb \in DATA \cup {"RETR"} : Refusals \subseteq Expected(verb)
    /\ "200" \in Expected("PORT") /\ {"200", "522"} \subseteq Expected("EPRT")
    /\ "227" \in Expected("PASV") /\ "229" \in Expected("EPSV")
    /\ "226" \in Expected("RETR")
    /\ {"421", "425", "450", "500", "501"} = Refusals
    /\ "220" \in Expected("none")
BY DEF Expected, Refusals, DATA, Active, Passive

-----------------------------------------------------------------------------
LEMMA RangeIsPorts ==
    ASSUME NEW range, dataPortRangeValidation(range)
    PROVE  getListenPort(range, Ephemeral) \subseteq Ports
<1>1. CASE range = <<>>
  BY <1>1, DataCommandsAssumption DEF getListenPort
<1>2. CASE range # <<>>
  <2>1. range[1] \in Ports /\ range[2] \in Ports /\ range[1] <= range[2]
    BY <1>2 DEF dataPortRangeValidation
  <2>2. range[1] .. range[2] \subseteq Ports
    BY <2>1, PortsBetween
  <2> DEFINE min == range[1]
             max == range[2]
  <2>3. getListenPort(range, Ephemeral) = IF min = max THEN {min} ELSE min .. max - 1
    BY <1>2 DEF getListenPort
  <2> HIDE DEF min, max
  <2>4. min \in Int /\ max \in Int /\ min <= max /\ min .. max \subseteq Ports
    BY <2>1, <2>2 DEF min, max, Ports
  <2> QED
    BY <2>3, <2>4
<1> QED
  BY <1>1, <1>2

LEMMA InitConfigured == Init => Configured
<1> SUFFICES ASSUME Init PROVE Configured
  OBVIOUS
<1>1. PICK setup \in Setups :
        /\ IsValidConfig(setup.raw)
        /\ config = [validateConfig(setup.raw) EXCEPT
                        !.MasqueradeIP = IF @ = NoIP THEN PftpIP ELSE @]
  BY DEF Init
<1> DEFINE raw == setup.raw
           valid == validateConfig(raw)
<1>2. DOMAIN raw = DOMAIN defaultConfig
  BY DataCommandsAssumption
<1>3. DOMAIN defaultConfig = {"DataPortRange", "MasqueradeIP", "TransferMode", "IgnorePassiveIP"}
  BY DEF defaultConfig
<1> HIDE DEF raw
<1>4. /\ valid.DataPortRange = IF dataPortRangeValidation(raw.DataPortRange)
                               THEN raw.DataPortRange ELSE <<>>
      /\ valid.TransferMode = CanonicalMode[raw.TransferMode]
      /\ DOMAIN valid = DOMAIN defaultConfig
  BY <1>2, <1>3 DEF validateConfig
<1> HIDE DEF valid
<1>5. config.DataPortRange = valid.DataPortRange /\ config.TransferMode = valid.TransferMode
  BY <1>1, <1>3, <1>4 DEF valid, raw
<1>6. dataPortRangeValidation(<<>>)
  BY DEF dataPortRangeValidation
<1>7. dataPortRangeValidation(config.DataPortRange)
  BY <1>4, <1>5, <1>6
<1>8. raw.TransferMode \in {"PORT", "ACTIVE", "PASV", "PASSIVE", "EPSV", "CLIENT"}
  BY <1>1 DEF IsValidConfig, CanonicalMode, raw
<1>9. CanonicalMode[raw.TransferMode] \in {"PORT", "PASV", "EPSV", "CLIENT"}
  BY <1>8 DEF CanonicalMode
<1> QED
  BY <1>4, <1>5, <1>7, <1>9, RangeIsPorts DEF Configured, ListenPorts

LEMMA InitSInv == Init => SInv
<1> SUFFICES ASSUME Init PROVE SInv
  OBVIOUS
<1>1. IInv /\ Configured
  BY InitInv, InitConfigured
<1>2. /\ cpc = "Read" /\ wpc = "Read" /\ built = 0 /\ dataConnector = 0
      /\ pending = <<>> /\ toOrigin = <<>> /\ fromOrigin = <<>>
  BY DEF Init
<1>3. told.verb = "none" /\ told.line.code = "220"
  BY LineFields DEF Init
<1>4. /\ tpc = [h \in Handlers |-> "None"]
      /\ handlers = [h \in Handlers |-> EmptyHandler]
      /\ clientAt = [h \in Handlers |-> NoPlace]
      /\ originAt = [h \in Handlers |-> NoPlace]
      /\ originTold = [h \in Handlers |-> NoPlace]
      /\ dialled = [h \in Handlers |-> [client |-> NoPlace, origin |-> NoPlace]]
  BY DEF Init
<1>5. Mapped /\ Started
  BY <1>4 DEF Mapped, Started
<1>6. Named /\ Worked
  BY <1>2, <1>4, EmptyValues DEF Named, Worked, AtWork, Building
<1>7. Listening /\ Patience
  BY <1>2 DEF Listening, Patience, Between, Unasked
<1>8. Known
  BY <1>2, <1>4, EmptyValues, Hostless DEF Known, Unannounced, Settled
<1>9. Informed
  BY <1>2, <1>3, ExpectedReplies DEF Informed
<1> QED
  BY <1>1, <1>5, <1>6, <1>7, <1>8, <1>9 DEF SInv

-----------------------------------------------------------------------------
(* Queues of at most two.                                                  *)
LEMMA OneSeq ==
    ASSUME NEW x
    PROVE  <<x>> # <<>> /\ Head(<<x>>) = x /\ Tail(<<x>>) = <<>>
OBVIOUS

LEMMA TwoSeq ==
    ASSUME NEW x, NEW y
    PROVE  <<x, y>> # <<>> /\ Head(<<x, y>>) = x /\ Tail(<<x, y>>) = <<y>>
OBVIOUS

LEMMA AppendEmpty == ASSUME NEW x PROVE Append(<<>>, x) = <<x>>
OBVIOUS

LEMMA EmptyConcat == ASSUME NEW x, NEW y PROVE <<>> \o <<x>> = <<x>> /\ <<>> \o <<x, y>> = <<x, y>>
OBVIOUS

-----------------------------------------------------------------------------
(* Steps that leave the handlers, the transfers and C's work alone.        *)

LEMMA WorkStays ==
    ASSUME SInv,
           UNCHANGED <<config, command, tpc, handlers, built, dataConnector, clientAt, dialled>>,
           cpc' = cpc \/ cpc' = "Read"
    PROVE  Configured' /\ Started' /\ Named' /\ Worked' /\ Listening'
<1>1. Configured' /\ Started'
  BY DEF SInv, Configured, ListenPorts, Started
<1>2. Named'
  BY DEF SInv, Named, Understood, ClientAddr, Building
<1>3. \A h : /\ ClientReady(h)' <=> ClientReady(h)
             /\ OriginReady(h)' <=> OriginReady(h)
  BY DEF ClientReady, OriginReady, ClientNeedsListen, OriginNeedsListen
<1>4. Worked' /\ Listening'
  BY <1>3 DEF SInv, Worked, Listening, AtWork, Building
<1> QED
  BY <1>1, <1>2, <1>4

(* A command that is with W is not lost by what W does to it.              *)
LEMMA KnownStays ==
    ASSUME SInv,
           UNCHANGED <<config, patient, tpc, handlers, built, dataConnector, originAt,
                       originTold, dialled>>,
           cpc' = cpc \/ (cpc # "Install" /\ cpc' = "Read")
    PROVE  Known'
<1>1. cpc' # "Install" => cpc # "Install"
  OBVIOUS
<1>2. cpc' \in {"Parse", "Send"} => cpc \in {"Parse", "Send"}
  OBVIOUS
<1>3. /\ \A h : Unannounced(h)' <=> Unannounced(h)
      /\ \A h : Settled(handlers[h].origin, h)' <=> Settled(handlers[h].origin, h)
      /\ \A h : Settled(dialled[h].origin, h)' <=> Settled(dialled[h].origin, h)
  BY DEF Unannounced, Settled
<1>4. CASE ~patient
  BY <1>4 DEF Known
<1>5. CASE patient
  <2>1. /\ \A h \in Handlers :
             /\ h > dataConnector => Unannounced(h)
             /\ Settled(handlers[h].origin, h)
             /\ Settled(dialled[h].origin, h)
        /\ cpc \in {"Parse", "Send"} => Unannounced(built)
        /\ (/\ dataConnector # 0 /\ tpc[dataConnector] = "None" /\ cpc # "Install"
            /\ originTold[dataConnector] # NoPlace)
           => /\ "originListens" \in handlers[dataConnector].open
              /\ originTold[dataConnector]
                   = [ip |-> PftpIP, port |-> handlers[dataConnector].originListens]
    BY <1>5 DEF SInv, Known
  <2> QED
    BY <1>1, <1>2, <1>3, <2>1 DEF Known
<1> QED
  BY <1>4, <1>5

-----------------------------------------------------------------------------
(* Goroutine T.  What a step of one transfer changes: its own handler's    *)
(* listeners, and where it has dialled.                                    *)

LEMMA ConnectDoes ==
    ASSUME SInv, NEW d \in Handlers, NEW pc, NEW needed, NEW listener, NEW next,
           NEW side \in {"client", "origin"},
           Connect(d, pc, needed, listener, side, next), pc # "None", next # "None"
    PROVE  /\ UNCHANGED <<fixed, cVars, wVars, built, dataConnector, lineVars, userVars,
                          clientAt, originAt, originTold>>
           /\ tpc[d] # "None" /\ tpc'[d] # "None"
           /\ DOMAIN tpc' = Handlers /\ DOMAIN dialled' = Handlers
           /\ \A h \in Handlers : h # d => /\ tpc'[h] = tpc[h] /\ dialled'[h] = dialled[h]
                                           /\ handlers'[h] = handlers[h]
           /\ handlers'[d].client = handlers[d].client
           /\ handlers'[d].origin = handlers[d].origin
           /\ DOMAIN dialled'[d] = {"client", "origin"}
           /\ dialled'[d].client \in {dialled[d].client, handlers[d].client}
           /\ dialled'[d].origin \in {dialled[d].origin, handlers[d].origin}
<1>1. /\ tpc[d] = pc
      /\ UNCHANGED <<fixed, cVars, wVars, built, dataConnector, lineVars, userVars,
                     clientAt, originAt, originTold>>
  BY DEF Connect
<1>2. tpc' = [tpc EXCEPT ![d] = next] \/ tpc' = [tpc EXCEPT ![d] = "Close"]
  BY DEF Connect
<1>3. UNCHANGED handlers \/ handlers' = [handlers EXCEPT ![d].open = @ \ {listener}]
  BY DEF Connect
<1>4. UNCHANGED dialled \/ dialled' = [dialled EXCEPT ![d][side] = handlers[d][side]]
  BY DEF Connect
<1>5. /\ DOMAIN tpc' = Handlers /\ tpc'[d] # "None"
      /\ \A h \in Handlers : h # d => tpc'[h] = tpc[h]
  BY <1>2 DEF SInv, Mapped
<1>6. /\ \A h \in Handlers : h # d => handlers'[h] = handlers[h]
      /\ handlers'[d].client = handlers[d].client
      /\ handlers'[d].origin = handlers[d].origin
  BY <1>3, EmptyFields DEF SInv, IInv, Shaped
<1>7. /\ DOMAIN dialled' = Handlers
      /\ \A h \in Handlers : h # d => dialled'[h] = dialled[h]
      /\ DOMAIN dialled'[d] = {"client", "origin"}
      /\ dialled'[d].client \in {dialled[d].client, handlers[d].client}
      /\ dialled'[d].origin \in {dialled[d].origin, handlers[d].origin}
  <2>1. CASE UNCHANGED dialled
    BY <2>1 DEF SInv, Mapped
  <2>2. CASE dialled' = [dialled EXCEPT ![d][side] = handlers[d][side]]
    <3>1. DOMAIN dialled = Handlers /\ DOMAIN dialled[d] = {"client", "origin"}
      BY DEF SInv, Mapped
    <3>2. dialled'[d] = [dialled[d] EXCEPT ![side] = handlers[d][side]]
      BY <2>2, <3>1
    <3>3. CASE side = "client"
      BY <2>2, <3>1, <3>2, <3>3
    <3>4. CASE side = "origin"
      BY <2>2, <3>1, <3>2, <3>4
    <3> QED
      BY <3>3, <3>4
  <2> QED
    BY <1>4, <2>1, <2>2
<1> QED
  BY <1>1, <1>5, <1>6, <1>7

LEMMA TransferDoes ==
    ASSUME SInv, NEW d \in Handlers, TStep(d)
    PROVE  /\ UNCHANGED <<fixed, cVars, wVars, built, dataConnector, lineVars, userVars,
                          clientAt, originAt, originTold>>
           /\ tpc[d] # "None" /\ tpc'[d] # "None"
           /\ DOMAIN tpc' = Handlers /\ DOMAIN dialled' = Handlers
           /\ \A h \in Handlers : h # d => /\ tpc'[h] = tpc[h] /\ dialled'[h] = dialled[h]
                                           /\ handlers'[h] = handlers[h]
           /\ handlers'[d].client = handlers[d].client
           /\ handlers'[d].origin = handlers[d].origin
           /\ DOMAIN dialled'[d] = {"client", "origin"}
           /\ dialled'[d].client \in {dialled[d].client, handlers[d].client}
           /\ dialled'[d].origin \in {dialled[d].origin, handlers[d].origin}
<1>1. CASE clientListenOrDial(d)
  BY <1>1, ConnectDoes DEF clientListenOrDial
<1>2. CASE originListenOrDial(d)
  BY <1>2, ConnectDoes DEF originListenOrDial
<1>3. CASE EndTransfer(d)
  <2>1. /\ tpc[d] = "Close" /\ tpc' = [tpc EXCEPT ![d] = "Done"]
        /\ handlers' = [handlers EXCEPT ![d] = Closed(@)] /\ UNCHANGED dialled
        /\ UNCHANGED <<fixed, cVars, wVars, built, dataConnector, lineVars, userVars,
                       clientAt, originAt, originTold>>
    BY <1>3 DEF EndTransfer, CloseHandler, placeVars
  <2>2. DOMAIN handlers = Handlers /\ DOMAIN handlers[d] = DOMAIN EmptyHandler
    BY DEF SInv, IInv, Shaped
  <2>3. DOMAIN tpc = Handlers /\ DOMAIN dialled = Handlers
        /\ DOMAIN dialled[d] = {"client", "origin"}
    BY DEF SInv, Mapped
  <2>4. handlers'[d] = Closed(handlers[d]) /\ \A h \in Handlers : h # d => handlers'[h] = handlers[h]
    BY <2>1, <2>2
  <2> QED
    BY <2>1, <2>2, <2>3, <2>4, ClosedFields
<1> QED
  BY <1>1, <1>2, <1>3 DEF TStep

LEMMA TransferSInv == ASSUME SInv, IInv', NEW d \in Handlers, TStep(d) PROVE SInv'
<1>1. /\ UNCHANGED <<fixed, cVars, wVars, built, dataConnector, lineVars, userVars,
                     clientAt, originAt, originTold>>
      /\ tpc[d] # "None" /\ tpc'[d] # "None"
      /\ DOMAIN tpc' = Handlers /\ DOMAIN dialled' = Handlers
      /\ \A h \in Handlers : h # d => /\ tpc'[h] = tpc[h] /\ dialled'[h] = dialled[h]
                                      /\ handlers'[h] = handlers[h]
      /\ handlers'[d].client = handlers[d].client
      /\ handlers'[d].origin = handlers[d].origin
      /\ DOMAIN dialled'[d] = {"client", "origin"}
      /\ dialled'[d].client \in {dialled[d].client, handlers[d].client}
      /\ dialled'[d].origin \in {dialled[d].origin, handlers[d].origin}
  BY TransferDoes
<1>2. d <= dataConnector /\ dataConnector <= built /\ built \in Nat /\ dataConnector \in Nat
  BY <1>1 DEF SInv, Started, IInv, Numbered
<1>3. cpc \in Building => d < built
  BY <1>2 DEF SInv, IInv, Numbered
<1> USE <1>1 DEF fixed, cVars, wVars, lineVars, userVars
<1>4. Configured' /\ Mapped'
  BY DEF SInv, Configured, ListenPorts, Mapped
<1>5. Started'
  BY <1>2 DEF SInv, Started
<1>6. Named'
  <2>1. \A h \in Handlers : h > built => h # d
    BY <1>2
  <2> QED
    BY <2>1 DEF SInv, Named, Understood, ClientAddr, Building
<1>7. \A h \in Handlers : h # d => /\ ClientReady(h)' <=> ClientReady(h)
                                   /\ OriginReady(h)' <=> OriginReady(h)
  BY DEF ClientReady, OriginReady, ClientNeedsListen, OriginNeedsListen
<1>8. cpc \in AtWork => built \in Handlers /\ built # d
  BY <1>1, <1>2, <1>3 DEF SInv, Worked, AtWork, Building, IInv, Numbered
<1>9. Worked' /\ Listening'
  <2>1. Worked'
    BY <1>7, <1>8 DEF SInv, Worked, AtWork, Building
  <2>2. dataConnector # 0 => dataConnector \in Handlers
    BY <1>2 DEF SInv, IInv, Numbered
  <2> QED
    BY <2>1, <2>2, <1>7 DEF SInv, Listening
<1>10. Patience'
  <2>1. ASSUME Asked PROVE Asked'
    <3>1. built \in Handlers /\ built # d
      BY <2>1 DEF Asked, SInv, IInv, Numbered
    <3>2. Request' = Request /\ \A line : Fits(line)' <=> Fits(line)
      BY <3>1 DEF Request, OriginNeedsListen, Fits
    <3>3. \A line : Suits(line)' <=> Suits(line)
      BY <3>1 DEF Suits
    <3> QED
      BY <2>1, <3>1, <3>2, <3>3 DEF Asked, WithOrigin, OnItsWay, WithW
  <2> QED
    BY <2>1 DEF SInv, Patience, Between, WithC, Unasked, Transferring
<1>11. Known'
  <2>1. CASE patient
    <3>1. \A h \in Handlers : /\ handlers'[h].origin = handlers[h].origin
                              /\ dialled'[h].origin \in {dialled[h].origin, handlers[h].origin}
      OBVIOUS
    <3>2. \A h \in Handlers : /\ h > dataConnector => Unannounced(h)
                              /\ Settled(handlers[h].origin, h)
                              /\ Settled(dialled[h].origin, h)
      BY <2>1 DEF SInv, Known
    <3>3. \A h \in Handlers : /\ (h > dataConnector => Unannounced(h))'
                              /\ Settled(handlers[h].origin, h)'
                              /\ Settled(dialled[h].origin, h)'
      BY <3>1, <3>2 DEF Unannounced, Settled
    <3>4. (cpc \in {"Parse", "Send"} => Unannounced(built))'
      BY <2>1, <1>8, <3>1 DEF SInv, Known, Unannounced, AtWork
    <3>5. dataConnector # 0 => dataConnector \in Handlers
      BY <1>2 DEF SInv, IInv, Numbered
    <3>6. (/\ dataConnector # 0 /\ tpc[dataConnector] = "None" /\ cpc # "Install"
           /\ originTold[dataConnector] # NoPlace
           => /\ "originListens" \in handlers[dataConnector].open
              /\ originTold[dataConnector]
                   = [ip |-> PftpIP, port |-> handlers[dataConnector].originListens])'
      BY <2>1, <3>5 DEF SInv, Known
    <3> QED
      BY <3>3, <3>4, <3>6 DEF Known
  <2> QED
    BY <2>1 DEF Known
<1>12. Informed'
  <2>1. dataConnector # 0 => dataConnector \in Handlers
    BY <1>2 DEF SInv, IInv, Numbered
  <2> QED
    BY <2>1 DEF SInv, Informed
<1> QED
  BY <1>4, <1>5, <1>6, <1>9, <1>10, <1>11, <1>12 DEF SInv

-----------------------------------------------------------------------------
(* Goroutine W.                                                            *)

(* With W at work the command is a data command or a transfer's reply.     *)
LEMMA WHasIt ==
    ASSUME SInv, patient, wpc # "Read"
    PROVE  \/ Asked /\ WithW
           \/ /\ Transferring /\ wpc = "Deliver" /\ toOrigin = <<>>
              /\ \/ buff = Plain("150") /\ fromOrigin = <<Plain("226")>>
                 \/ buff \in {Plain("226"), Plain("500")} /\ fromOrigin = <<>>
BY DEF SInv, Patience, Between, WithC, Unasked, Asked, WithOrigin, OnItsWay, Transferring

(* The handler of a command under way.                                     *)
LEMMA AskedReady ==
    ASSUME SInv, Asked
    PROVE  /\ built \in Handlers /\ dataConnector = built
           /\ isDataHandlerAvailable
           /\ ClientReady(built) /\ OriginReady(built)
           /\ handlers[built].mode = command.verb
<1>1. built \in Handlers /\ dataConnector = built
  BY DEF Asked, SInv, IInv, Numbered
<1> QED
  BY <1>1 DEF Asked, SInv, Listening, isDataHandlerAvailable

LEMMA WInformed ==
    ASSUME SInv, UNCHANGED <<fixed, tpc, dataConnector, pending, told, handlers>>
    PROVE  Informed'
BY DEF SInv, Informed, fixed

LEMMA CheckSInv == ASSUME SInv, IInv', CheckAvailable PROVE SInv'
<1>1. /\ wpc = "Check"
      /\ IF isDataHandlerAvailable THEN wpc' = "Mode" /\ UNCHANGED buff
         ELSE wpc' = "Deliver" /\ buff' = Plain("425")
      /\ UNCHANGED <<fixed, cVars, wmode, tVars, proxyVars, lineVars, userVars, placeVars>>
  BY DEF CheckAvailable
<1> USE DEF fixed, cVars, tVars, proxyVars, lineVars, userVars, placeVars
<1>2. Configured' /\ Started' /\ Named' /\ Worked' /\ Listening'
  BY <1>1, WorkStays
<1>3. Known'
  BY <1>1, KnownStays
<1>4. Informed'
  BY <1>1, WInformed
<1>5. Mapped'
  BY <1>1 DEF SInv, Mapped
<1>6. Patience'
  <2>1. CASE patient
    <3>1. Asked /\ WithW
      BY <1>1, <2>1, WHasIt
    <3>2. wpc' = "Mode"
      BY <1>1, <3>1, AskedReady
    <3>3. Asked'
      BY <1>1, <3>1, <3>2 DEF Asked, WithW
    <3> QED
      BY <3>3 DEF Patience
  <2> QED
    BY <1>1, <2>1 DEF Patience
<1> QED
  BY <1>2, <1>3, <1>6, <1>5, <1>4 DEF SInv

LEMMA ModeSInv == ASSUME SInv, IInv', ReadMode PROVE SInv'
<1>1. /\ wpc = "Mode" /\ wmode' = handlers[dataConnector].mode /\ wpc' = "Rewrite"
      /\ UNCHANGED <<fixed, cVars, buff, tVars, proxyVars, lineVars, userVars, placeVars>>
  BY DEF ReadMode
<1> USE DEF fixed, cVars, tVars, proxyVars, lineVars, userVars, placeVars
<1>2. Configured' /\ Started' /\ Named' /\ Worked' /\ Listening'
  BY <1>1, WorkStays
<1>3. Known'
  BY <1>1, KnownStays
<1>4. Informed'
  BY <1>1, WInformed
<1>5. Mapped'
  BY <1>1 DEF SInv, Mapped
<1>6. Patience'
  <2>1. CASE patient
    <3>1. Asked /\ WithW
      BY <1>1, <2>1, WHasIt
    <3>2. wmode' = command.verb
      BY <1>1, <3>1, AskedReady
    <3>3. Asked'
      BY <1>1, <3>1, <3>2 DEF Asked, WithW
    <3> QED
      BY <3>3 DEF Patience
  <2> QED
    BY <1>1, <2>1 DEF Patience
<1> QED
  BY <1>2, <1>3, <1>6, <1>5, <1>4 DEF SInv

(* A client told to connect is told of the listener that is open.          *)
LEMMA RewriteDoes ==
    ASSUME SInv, patient, Rewrite
    PROVE  Asked /\ wpc' = "Deliver" /\ Suits(buff')
<1>1. /\ wpc = "Rewrite"
      /\ IF wmode \in Passive /\ handlers[dataConnector].clientListens = NoPort
         THEN wpc' = "Panic" /\ UNCHANGED buff
         ELSE /\ wpc' = "Deliver"
              /\ buff' = IF wmode \in Active THEN Plain("200")
                         ELSE Line(IF wmode = "PASV" THEN "227" ELSE "229",
                                   [ip |-> config.MasqueradeIP,
                                    port |-> handlers[dataConnector].clientListens])
  BY DEF Rewrite
<1>2. Asked /\ WithW /\ wmode = command.verb
  BY <1>1, WHasIt DEF WithW
<1>3. command.verb \in DATA
  BY <1>2 DEF Asked
<1>4. dataConnector = built /\ handlers[built].mode = command.verb /\ ClientReady(built)
  BY <1>2, AskedReady
<1>5. CASE command.verb \in Active
  <2>1. command.verb \notin Passive
    BY <1>5 DEF Active, Passive
  <2>2. wpc' = "Deliver" /\ buff' = Plain("200")
    BY <1>1, <1>2, <1>5, <2>1
  <2>3. "200" \in Expected(command.verb)
    BY <1>5, ExpectedReplies DEF Active
  <2> QED
    BY <1>2, <2>2, <2>3, LineFields DEF Suits
<1>6. CASE command.verb \in Passive
  <2>1. command.verb \notin Active
    BY <1>6 DEF Active, Passive
  <2>2. handlers[built].clientListens \in Ports
    BY <1>4, <1>6 DEF ClientReady, ClientNeedsListen, checkNeedListen, Passive
  <2>3. handlers[built].clientListens # NoPort
    BY <2>2 DEF Ports, NoPort
  <2> DEFINE place == [ip |-> config.MasqueradeIP, port |-> handlers[built].clientListens]
             code  == IF wmode = "PASV" THEN "227" ELSE "229"
  <2>4. wpc' = "Deliver" /\ buff' = Line(code, place)
    BY <1>1, <1>2, <1>4, <2>1, <2>3
  <2>5. code \in Expected(command.verb)
    BY <1>2, <1>6, ExpectedReplies DEF Passive
  <2> HIDE DEF code, place
  <2>6. buff'.code = code /\ buff'.place = place
    BY <2>4, LineFields
  <2>7. code \notin {"150"}
    BY DEF code
  <2> QED
    BY <1>2, <1>6, <2>4, <2>5, <2>6, <2>7 DEF Suits, place
<1> QED
  BY <1>3, <1>5, <1>6 DEF DATA

LEMMA RewriteSInv == ASSUME SInv, IInv', Rewrite PROVE SInv'
<1>1. UNCHANGED <<fixed, cVars, wmode, tVars, proxyVars, lineVars, userVars, placeVars>>
  BY DEF Rewrite
<1> USE DEF fixed, cVars, tVars, proxyVars, lineVars, userVars, placeVars
<1>2. Configured' /\ Started' /\ Named' /\ Worked' /\ Listening'
  BY <1>1, WorkStays
<1>3. Known'
  BY <1>1, KnownStays
<1>4. Informed'
  BY <1>1, WInformed
<1>5. Mapped'
  BY <1>1 DEF SInv, Mapped
<1>6. Patience'
  <2>1. CASE patient
    <3>1. Asked /\ wpc' = "Deliver" /\ Suits(buff')
      BY <2>1, RewriteDoes
    <3>2. wpc = "Rewrite"
      BY DEF Rewrite
    <3>3. toOrigin = <<>> /\ fromOrigin = <<>>
      BY <3>1, <3>2 DEF Asked, WithOrigin, OnItsWay, WithW
    <3>4. Suits(buff)'
      BY <1>1, <3>1 DEF Suits
    <3>5. Asked'
      BY <1>1, <3>1, <3>3, <3>4 DEF Asked, WithW
    <3> QED
      BY <3>5 DEF Patience
  <2> QED
    BY <1>1, <2>1 DEF Patience
<1> QED
  BY <1>2, <1>3, <1>6, <1>5, <1>4 DEF SInv

(* What the client is told is right.                                       *)
LEMMA DeliverSInv == ASSUME SInv, IInv', Deliver PROVE SInv'
<1>1. /\ wpc = "Deliver" /\ Tell(buff) /\ wpc' = "Read"
      /\ UNCHANGED <<fixed, cVars, tVars, proxyVars, lineVars, placeVars>>
  BY DEF Deliver
<1> USE DEF fixed, cVars, tVars, proxyVars, lineVars, userVars, placeVars
<1>2. Configured' /\ Started' /\ Named' /\ Worked' /\ Listening'
  BY <1>1, WorkStays
<1>3. Known'
  BY <1>1, KnownStays
<1>4. Mapped'
  BY <1>1 DEF SInv, Mapped
<1>5. ASSUME patient PROVE Patience' /\ Informed'
  <2>1. CASE Asked /\ WithW
    <3>1. /\ Suits(buff) /\ pending = <<command.verb>>
          /\ toOrigin = <<>> /\ fromOrigin = <<>> /\ cpc = "Read"
      BY <1>1, <2>1 DEF Asked, WithW
    <3>2. dataConnector = built /\ ClientReady(built) /\ handlers[built].mode = command.verb
      BY <2>1, AskedReady
    <3>3. /\ told' = [verb |-> command.verb, line |-> buff] /\ pending' = <<>>
      BY <1>1, <3>1, OneSeq DEF Tell, Suits
    <3>4. Between'
      BY <1>1, <3>1, <3>3 DEF Between, Unasked
    <3>5. command.verb \in Passive => "clientListens" \in handlers[built].open
      BY <3>2 DEF ClientReady, ClientNeedsListen, checkNeedListen, Passive
    <3>6. told'.verb = command.verb /\ told'.line = buff
      BY <3>3
    <3>7. Informed'
      BY <1>1, <3>1, <3>2, <3>5, <3>6 DEF Informed, Suits
    <3> QED
      BY <3>4, <3>7 DEF Patience
  <2>2. CASE Transferring /\ buff = Plain("150") /\ fromOrigin = <<Plain("226")>> /\ toOrigin = <<>>
    <3>1. UNCHANGED <<pending, told>>
      BY <1>1, <2>2, LineFields DEF Tell
    <3>2. Transferring'
      BY <1>1, <2>2, <3>1 DEF Transferring
    <3>3. Informed'
      BY <1>1, <3>1, WInformed
    <3> QED
      BY <3>2, <3>3 DEF Patience
  <2>3. CASE /\ Transferring /\ toOrigin = <<>> /\ fromOrigin = <<>>
             /\ buff \in {Plain("226"), Plain("500")}
    <3>1. buff.code \in {"226", "500"}
      BY <2>3, LineFields
    <3>2. cpc = "Read" /\ pending = <<"RETR">>
      BY <2>3 DEF Transferring
    <3>3. /\ told' = [verb |-> "RETR", line |-> buff] /\ pending' = <<>>
      BY <1>1, <3>1, <3>2, OneSeq DEF Tell
    <3>4. Between'
      BY <1>1, <2>3, <3>2, <3>3 DEF Between, Unasked
    <3>5. told'.verb = "RETR" /\ told'.line = buff
      BY <3>3
    <3>6. buff.code \in Expected("RETR")
      BY <3>1, ExpectedReplies
    <3>7. Informed'
      BY <3>1, <3>5, <3>6 DEF Informed
    <3> QED
      BY <3>4, <3>7 DEF Patience
  <2> QED
    BY <1>1, <1>5, <2>1, <2>2, <2>3, WHasIt
<1>6. ASSUME ~patient PROVE Patience' /\ Informed'
  BY <1>1, <1>6 DEF Patience, Informed
<1> QED
  BY <1>2, <1>3, <1>5, <1>4, <1>6 DEF SInv

-----------------------------------------------------------------------------
(* A reply of the origin is read: only the installed handler's idea of     *)
(* where the origin listens changes.                                       *)

LEMMA TakeDoes ==
    ASSUME SInv, TakeReply
    PROVE  /\ UNCHANGED <<config, patient, wording, cpc, command, wmode, tpc, built,
                          dataConnector, toOrigin, pending, told, clientAt, originAt,
                          originTold, dialled>>
           /\ DOMAIN handlers' = Handlers
           /\ \A h \in Handlers :
                /\ h # dataConnector => handlers'[h] = handlers[h]
                /\ handlers'[h].mode = handlers[h].mode
                /\ handlers'[h].open = handlers[h].open
                /\ handlers'[h].closed = handlers[h].closed
                /\ handlers'[h].client = handlers[h].client
                /\ handlers'[h].clientListens = handlers[h].clientListens
                /\ handlers'[h].originListens = handlers[h].originListens
<1>1. UNCHANGED <<config, patient, wording, cpc, command, wmode, tpc, built, dataConnector,
                  toOrigin, pending, told, clientAt, originAt, originTold, dialled>>
  BY DEF TakeReply, fixed, cVars, tVars, userVars, placeVars
<1>2. \/ UNCHANGED handlers
      \/ \E origin : handlers' = [handlers EXCEPT ![dataConnector].origin = origin]
  BY DEF TakeReply
<1> QED
  BY <1>1, <1>2, EmptyFields DEF SInv, IInv, Shaped

LEMMA TakeWork ==
    ASSUME SInv, TakeReply
    PROVE  Configured' /\ Mapped' /\ Started' /\ Named' /\ Worked' /\ Listening'
<1>1. /\ UNCHANGED <<config, patient, wording, cpc, command, wmode, tpc, built,
                     dataConnector, toOrigin, pending, told, clientAt, originAt,
                     originTold, dialled>>
      /\ \A h \in Handlers :
           /\ h # dataConnector => handlers'[h] = handlers[h]
           /\ handlers'[h].mode = handlers[h].mode
           /\ handlers'[h].open = handlers[h].open
           /\ handlers'[h].closed = handlers[h].closed
           /\ handlers'[h].client = handlers[h].client
           /\ handlers'[h].clientListens = handlers[h].clientListens
           /\ handlers'[h].originListens = handlers[h].originListens
  BY TakeDoes
<1>2. Configured' /\ Mapped' /\ Started'
  BY <1>1 DEF SInv, Configured, ListenPorts, Mapped, Started
<1>3. Named'
  <2>1. \A h \in Handlers : h > built => h # dataConnector
    BY DEF SInv, IInv, Numbered
  <2> QED
    BY <1>1, <2>1 DEF SInv, Named, Understood, ClientAddr
<1>4. \A h \in Handlers : /\ ClientReady(h)' <=> ClientReady(h)
                          /\ OriginReady(h)' <=> OriginReady(h)
  BY <1>1 DEF ClientReady, OriginReady, ClientNeedsListen, OriginNeedsListen
<1>5. (built # 0 => built \in Handlers) /\ (dataConnector # 0 => dataConnector \in Handlers)
  BY DEF SInv, IInv, Numbered
<1>6. Worked'
  <2>1. cpc \in AtWork => built \in Handlers
    BY <1>5 DEF SInv, Worked
  <2> QED
    BY <1>1, <1>4, <2>1 DEF SInv, Worked, AtWork, Building
<1>7. Listening'
  BY <1>1, <1>4, <1>5 DEF SInv, Listening
<1> QED
  BY <1>2, <1>3, <1>6, <1>7

(* Where an origin that answered 227 is dialled: where it listens, or at   *)
(* no port.                                                                *)
LEMMA AnnouncedWell ==
    ASSUME NEW handler, NEW line, Fits(line), line.code = "227", built \in Handlers,
           line.place \notin {NoPlace, InvalidAddress},
           config.IgnorePassiveIP => originAt[built].ip = OriginIP
    PROVE  Announced(handler, line) = originAt[built]
<1>1. PICK ip : /\ line.place = [ip |-> ip, port |-> PeerPort(built)]
                /\ originAt[built] = Trusted(line.place, OriginIP)
  BY DEF Fits
<1>2. PeerPort(built) \in Ports
  BY PeerPorts
<1>3. originAt[built] = [ip |-> IF isPublicIP(ip) THEN ip ELSE OriginIP, port |-> PeerPort(built)]
  BY <1>1, <1>2, TrustedPort
<1>4. CASE config.IgnorePassiveIP
  <2>1. [line.place EXCEPT !.ip = OriginIP] = [ip |-> OriginIP, port |-> PeerPort(built)]
    BY <1>1
  <2>2. Trusted([ip |-> OriginIP, port |-> PeerPort(built)], OriginIP)
          = [ip |-> OriginIP, port |-> PeerPort(built)]
    BY <1>2, TrustedPort
  <2>3. originAt[built] = [ip |-> OriginIP, port |-> PeerPort(built)]
    BY <1>3, <1>4
  <2> QED
    BY <1>4, <2>1, <2>2, <2>3 DEF Announced
<1>5. CASE ~config.IgnorePassiveIP
  BY <1>1, <1>5 DEF Announced
<1> QED
  BY <1>4, <1>5

LEMMA AnnouncedBadly ==
    ASSUME NEW handler, handler.origin = NoPlace, NEW line, line.code = "227",
           line.place \in {NoPlace, InvalidAddress}
    PROVE  Announced(handler, line).port = NoPort
BY Hostless, Portless DEF Announced, NoPort

LEMMA TakeAsked ==
    ASSUME SInv, TakeReply, Asked, patient
    PROVE  Asked' /\ Known' /\ Informed'
<1>1. /\ toOrigin = <<>> /\ handlers[built].origin = NoPlace
      /\ \E line : fromOrigin = <<line>> /\ Fits(line)
  BY DEF TakeReply, Asked, WithOrigin, OnItsWay, WithW
<1>2. PICK line : fromOrigin = <<line>> /\ Fits(line)
  BY <1>1
<1>3. built \in Handlers /\ dataConnector = built /\ cpc = "Read"
  BY AskedReady DEF Asked
<1>4. /\ UNCHANGED <<config, patient, wording, cpc, command, wmode, tpc, built,
                     dataConnector, toOrigin, pending, told, clientAt, originAt,
                     originTold, dialled>>
      /\ \A h \in Handlers :
           /\ h # dataConnector => handlers'[h] = handlers[h]
           /\ handlers'[h].mode = handlers[h].mode
           /\ handlers'[h].open = handlers[h].open
           /\ handlers'[h].closed = handlers[h].closed
           /\ handlers'[h].client = handlers[h].client
           /\ handlers'[h].clientListens = handlers[h].clientListens
           /\ handlers'[h].originListens = handlers[h].originListens
  BY TakeDoes
<1>5. buff' = line /\ fromOrigin' = <<>>
  BY <1>2, OneSeq DEF TakeReply
<1>6. wpc' = IF line.code \notin {"227", "229", "200 PORT"} THEN "Deliver"
             ELSE IF line.code # "200 PORT" /\ dataConnector = 0 THEN "Panic"
             ELSE "Check"
  BY <1>5 DEF TakeReply
<1>7. handlers' = IF line.code \in {"227", "229"} /\ dataConnector # 0
                  THEN [handlers EXCEPT ![dataConnector].origin =
                          Announced(handlers[dataConnector], line)]
                  ELSE handlers
  BY <1>5 DEF TakeReply
<1>8. dataConnector # 0
  BY <1>3
<1>9. Asked'
  <2>1. CASE line.code \in {"227", "229", "200 PORT"}
    <3>1. wpc' = "Check"
      BY <1>6, <1>8, <2>1
    <3> QED
      BY <1>1, <1>3, <1>4, <1>5, <3>1 DEF Asked, WithW
  <2>2. CASE line.code \notin {"227", "229", "200 PORT"}
    <3>1. wpc' = "Deliver"
      BY <1>6, <2>2
    <3>2. line.code = "500" \/ (line.code = "200" /\ ~wording)
      BY <1>2, <2>2 DEF Fits
    <3>3. "500" \in Expected(command.verb)
      BY ExpectedReplies DEF Asked
    <3>4. Suits(line)'
      BY <1>4, <3>2, <3>3 DEF Suits
    <3> QED
      BY <1>1, <1>3, <1>4, <1>5, <3>1, <3>4 DEF Asked, WithW
  <2> QED
    BY <2>1, <2>2
<1>10. Settled(handlers'[built].origin, built)
  <2>1. CASE line.code = "227"
    <3>1. handlers'[built].origin = Announced(handlers[built], line)
      BY <1>3, <1>7, <2>1, EmptyFields DEF SInv, IInv, Shaped
    <3>2. CASE line.place \in {NoPlace, InvalidAddress}
      <4>1. handlers'[built].origin.port = NoPort
        BY <1>1, <2>1, <3>1, <3>2, AnnouncedBadly
      <4> QED
        BY <4>1 DEF Settled
    <3>3. CASE line.place \notin {NoPlace, InvalidAddress}
      BY <1>2, <1>3, <2>1, <3>1, <3>3, AnnouncedWell DEF Settled
    <3> QED
      BY <3>2, <3>3
  <2>2. CASE line.code = "229"
    <3>1. handlers'[built].origin = Announced(handlers[built], line)
      BY <1>3, <1>7, <2>2, EmptyFields DEF SInv, IInv, Shaped
    <3>2. Announced(handlers[built], line)
            \in {NoPlace, [NoPlace EXCEPT !.port = line.place.port]}
      BY <1>1, <2>2 DEF Announced
    <3>3. NoPlace.ip = NoIP /\ [NoPlace EXCEPT !.port = line.place.port].ip = NoIP
      BY DEF NoPlace
    <3> QED
      BY <3>1, <3>2, <3>3 DEF Settled
  <2>3. CASE line.code \notin {"227", "229"}
    <3>1. handlers'[built].origin = NoPlace
      BY <1>1, <1>7, <2>3
    <3> QED
      BY <3>1, Hostless DEF Settled
  <2> QED
    BY <2>1, <2>2, <2>3
<1>11. Known'
  <2>1. /\ \A h \in Handlers : /\ h > dataConnector => Unannounced(h)
                               /\ Settled(handlers[h].origin, h)
                               /\ Settled(dialled[h].origin, h)
        /\ (/\ dataConnector # 0 /\ tpc[dataConnector] = "None" /\ cpc # "Install"
            /\ originTold[dataConnector] # NoPlace)
           => /\ "originListens" \in handlers[dataConnector].open
              /\ originTold[dataConnector]
                   = [ip |-> PftpIP, port |-> handlers[dataConnector].originListens]
    BY DEF SInv, Known
  <2>2. \A h \in Handlers : h > dataConnector => h # dataConnector
    BY <1>3
  <2>3. \A h \in Handlers : /\ (h > dataConnector => Unannounced(h))'
                            /\ Settled(handlers[h].origin, h)'
                            /\ Settled(dialled[h].origin, h)'
    BY <1>3, <1>4, <1>10, <2>1, <2>2 DEF Unannounced, Settled
  <2>4. cpc' \notin {"Parse", "Send"}
    BY <1>3, <1>4
  <2> QED
    BY <1>3, <1>4, <2>1, <2>3, <2>4 DEF Known
<1>12. Informed'
  BY <1>3, <1>4 DEF SInv, Informed
<1> QED
  BY <1>9, <1>11, <1>12

LEMMA TakeTransferring ==
    ASSUME SInv, TakeReply, Transferring, patient
    PROVE  Transferring' /\ Known' /\ Informed'
<1>1. /\ toOrigin = <<>> /\ cpc = "Read"
      /\ fromOrigin \in {<<Plain("150"), Plain("226")>>, <<Plain("226")>>, <<Plain("500")>>}
  BY DEF TakeReply, Transferring
<1>2. /\ buff' = Head(fromOrigin) /\ fromOrigin' = Tail(fromOrigin)
  BY DEF TakeReply
<1>3. \/ buff' = Plain("150") /\ fromOrigin' = <<Plain("226")>>
      \/ buff' \in {Plain("226"), Plain("500")} /\ fromOrigin' = <<>>
  <2>1. ASSUME fromOrigin = <<Plain("150"), Plain("226")>>
        PROVE  buff' = Plain("150") /\ fromOrigin' = <<Plain("226")>>
    BY <1>2, <2>1, TwoSeq, Zenon
  <2>2. ASSUME NEW line, fromOrigin = <<line>>
        PROVE  buff' = line /\ fromOrigin' = <<>>
    BY <1>2, <2>2, OneSeq, Zenon
  <2> QED
    BY <1>1, <2>1, <2>2, Zenon
<1>4. buff'.code \in {"150", "226", "500"}
  BY <1>3, LineFields
<1>5. UNCHANGED handlers
  BY <1>4 DEF TakeReply
<1>6. buff'.code \notin {"227", "229", "200 PORT"} => wpc' = "Deliver"
  BY DEF TakeReply
<1>7. wpc' = "Deliver"
  BY <1>4, <1>6
<1>8. UNCHANGED <<config, patient, wording, busy, cpc, command, wmode, tpc, built,
                  dataConnector, toOrigin, pending, told, clientAt, originAt,
                  originTold, dialled>>
  BY DEF TakeReply, fixed, cVars, tVars, userVars, placeVars
<1>9. Transferring'
  BY <1>1, <1>3, <1>7, <1>8 DEF Transferring
<1>10. Known'
  BY <1>5, <1>8, KnownStays
<1>11. Informed'
  BY <1>5, <1>8, WInformed DEF fixed
<1> QED
  BY <1>9, <1>10, <1>11

LEMMA TakeSInv == ASSUME SInv, IInv', TakeReply PROVE SInv'
<1>1. Configured' /\ Mapped' /\ Started' /\ Named' /\ Worked' /\ Listening'
  BY TakeWork
<1>2. patient' = patient
  BY TakeDoes
<1>3. ASSUME patient PROVE Patience' /\ Known' /\ Informed'
  <2>1. fromOrigin # <<>>
    BY DEF TakeReply
  <2>2. Asked \/ Transferring
    BY <1>3, <2>1 DEF SInv, Patience, Between, WithC, Unasked
  <2>3. CASE Asked
    BY <1>3, <2>3, TakeAsked DEF Patience
  <2>4. CASE Transferring
    BY <1>3, <2>4, TakeTransferring DEF Patience
  <2> QED
    BY <2>2, <2>3, <2>4
<1>4. ASSUME ~patient PROVE Patience' /\ Known' /\ Informed'
  BY <1>2, <1>4 DEF Patience, Known, Informed
<1> QED
  BY <1>1, <1>3, <1>4 DEF SInv

-----------------------------------------------------------------------------
(* The origin answers.                                                     *)

(* What was sent to it for a data command.                                 *)
LEMMA RequestIs ==
    ASSUME SInv, Asked
    PROVE  /\ Request.verb \in {"PORT", "PASV", "EPSV"} /\ Request.for = built
           /\ Request.verb = "PORT" =>
                /\ OriginNeedsListen(built)
                /\ Request.fields = AddrFields(PftpIP, handlers[built].originListens)
<1> DEFINE listens == OriginNeedsListen(built)
           verb    == IF listens THEN "PORT"
                      ELSE IF config.TransferMode = "CLIENT" THEN command.verb
                      ELSE config.TransferMode
           fields  == IF listens THEN AddrFields(PftpIP, handlers[built].originListens)
                      ELSE <<>>
<1>1. Request = [verb |-> verb, for |-> built, fields |-> fields]
  BY DEF Request
<1>2. handlers[built].mode = command.verb /\ command.verb \in DATA
  BY DEF Asked
<1>3. config.TransferMode \in {"PORT", "PASV", "EPSV", "CLIENT"}
  BY DEF SInv, Configured
<1>4. /\ listens <=> \/ config.TransferMode = "PORT"
                     \/ config.TransferMode = "CLIENT" /\ command.verb \in {"PORT", "EPRT"}
  BY <1>2, <1>3 DEF OriginNeedsListen, checkNeedListen
<1>5. verb \in {"PORT", "PASV", "EPSV"} /\ (verb = "PORT" => listens)
  <2>1. ~listens /\ config.TransferMode = "CLIENT" => command.verb \in {"PASV", "EPSV"}
    BY <1>2, <1>4 DEF DATA, Active, Passive
  <2>2. ~listens /\ config.TransferMode # "CLIENT" => config.TransferMode \in {"PASV", "EPSV"}
    BY <1>3, <1>4
  <2> HIDE DEF listens
  <2> QED
    BY <2>1, <2>2
<1>6. listens => fields = AddrFields(PftpIP, handlers[built].originListens)
  OBVIOUS
<1> HIDE DEF verb, fields, listens
<1>7. Request.verb = verb /\ Request.for = built /\ Request.fields = fields
  BY <1>1
<1> QED
  BY <1>5, <1>6, <1>7 DEF listens

LEMMA ReplyStays ==
    ASSUME SInv, OriginReply
    PROVE  /\ UNCHANGED <<fixed, cVars, wVars, tVars, proxyVars, userVars, clientAt, dialled>>
           /\ toOrigin # <<>> /\ toOrigin' = Tail(toOrigin)
           /\ DOMAIN originAt' = Handlers /\ DOMAIN originTold' = Handlers
<1>1. DOMAIN originAt' = DOMAIN originAt /\ DOMAIN originTold' = DOMAIN originTold
  BY DEF OriginReply
<1> QED
  BY <1>1 DEF OriginReply, SInv, Mapped

(* Its lines and what it does at each.                                     *)
LEMMA ReplyDoes ==
    ASSUME OriginReply, NEW cmd, cmd = Head(toOrigin), fromOrigin = <<>>
    PROVE  \E lines \in OriginAnswers(cmd) \cup {<<Plain("500")>>} :
             /\ fromOrigin' = <<>> \o lines
             /\ originAt' = IF lines[1].place.port \notin Ports THEN originAt
                     ELSE [originAt EXCEPT ![cmd.for] =
                             [lines[1].place EXCEPT !.ip = IF isPublicIP(@) THEN @
                                                           ELSE OriginIP]]
             /\ originTold' = IF cmd.verb # "PORT" THEN originTold
                     ELSE [originTold EXCEPT ![cmd.for] = parseLineToAddr(cmd.fields)]
BY DEF OriginReply

Answers(line, h) ==
    \/ line.code \in {"200 PORT", "229", "500"}
    \/ line.code = "200" /\ ~wording
    \/ /\ line.code = "227"
       /\ \/ line.place \in {NoPlace, InvalidAddress}
          \/ \E ip : line.place = [ip |-> ip, port |-> PeerPort(h)]

LEMMA AnswerLines ==
    ASSUME NEW cmd, cmd.verb \in {"PORT", "PASV", "EPSV"},
           NEW lines \in OriginAnswers(cmd) \cup {<<Plain("500")>>}
    PROVE  \E line : lines = <<line>> /\ Answers(line, cmd.for)
<1> USE DEF Answers
<1>1. CASE lines = <<Plain("500")>>
  BY <1>1, LineFields
<1>2. CASE cmd.verb = "PORT" /\ lines \in OriginAnswers(cmd)
  <2>1. lines = <<Plain(IF wording THEN "200 PORT" ELSE "200")>>
    BY <1>2 DEF OriginAnswers
  <2>2. CASE wording
    <3>1. lines = <<Plain("200 PORT")>>
      BY <2>1, <2>2
    <3> QED
      BY <3>1, LineFields
  <2>3. CASE ~wording
    <3>1. lines = <<Plain("200")>>
      BY <2>1, <2>3
    <3> QED
      BY <2>3, <3>1, LineFields
  <2> QED
    BY <2>2, <2>3
<1>3. CASE cmd.verb = "PASV" /\ lines \in OriginAnswers(cmd)
  <2>1. \/ \E ip \in OriginNames : lines = <<Line("227", [ip |-> ip, port |-> PeerPort(cmd.for)])>>
        \/ lines = <<Line("227", NoPlace)>> \/ lines = <<Line("227", InvalidAddress)>>
    BY <1>3 DEF OriginAnswers
  <2>2. PICK place : /\ lines = <<Line("227", place)>>
                     /\ \/ place \in {NoPlace, InvalidAddress}
                        \/ \E ip : place = [ip |-> ip, port |-> PeerPort(cmd.for)]
    BY <2>1
  <2>3. Line("227", place).code = "227" /\ Line("227", place).place = place
    BY LineFields
  <2> QED
    BY <2>2, <2>3
<1>4. CASE cmd.verb = "EPSV" /\ lines \in OriginAnswers(cmd)
  <2>1. \/ lines = <<Line("229", [ip |-> NoIP, port |-> PeerPort(cmd.for)])>>
        \/ lines = <<Line("229", NoPlace)>>
    BY <1>4 DEF OriginAnswers
  <2>2. PICK place : lines = <<Line("229", place)>>
    BY <2>1
  <2>3. Line("229", place).code = "229"
    BY LineFields
  <2> QED
    BY <2>2, <2>3
<1> QED
  BY <1>1, <1>2, <1>3, <1>4

LEMMA ReplyAsked ==
    ASSUME SInv, OriginReply, Asked, patient
    PROVE  Asked' /\ Known' /\ Informed'
<1>1. /\ UNCHANGED <<fixed, cVars, wVars, tVars, proxyVars, userVars, clientAt, dialled>>
      /\ toOrigin # <<>> /\ toOrigin' = Tail(toOrigin)
  BY ReplyStays
<1>2. /\ toOrigin = <<Request>> /\ fromOrigin = <<>> /\ wpc = "Read"
      /\ handlers[built].origin = NoPlace
  BY <1>1 DEF Asked, WithOrigin, OnItsWay, WithW
<1>3. Head(toOrigin) = Request /\ toOrigin' = <<>>
  BY <1>1, <1>2, OneSeq
<1>4. /\ Request.verb \in {"PORT", "PASV", "EPSV"} /\ Request.for = built
      /\ Request.verb = "PORT" =>
           /\ OriginNeedsListen(built)
           /\ Request.fields = AddrFields(PftpIP, handlers[built].originListens)
  BY RequestIs
<1>5. PICK lines \in OriginAnswers(Request) \cup {<<Plain("500")>>} :
        /\ fromOrigin' = <<>> \o lines
        /\ originAt' = IF lines[1].place.port \notin Ports THEN originAt
                ELSE [originAt EXCEPT ![built] =
                        [lines[1].place EXCEPT !.ip = IF isPublicIP(@) THEN @
                                                      ELSE OriginIP]]
        /\ originTold' = IF Request.verb # "PORT" THEN originTold
                ELSE [originTold EXCEPT ![built] = parseLineToAddr(Request.fields)]
  BY <1>2, <1>3, <1>4, ReplyDoes
<1>6. PICK line : lines = <<line>> /\ Answers(line, built)
  BY <1>4, <1>5, AnswerLines
<1>7. lines[1] = line /\ fromOrigin' = <<line>>
  BY <1>5, <1>6, EmptyConcat
<1>8. /\ built \in Handlers /\ dataConnector = built /\ OriginReady(built)
      /\ cpc = "Read" /\ tpc[built] = "None"
  BY AskedReady DEF Asked
<1>9. /\ DOMAIN originAt = Handlers /\ DOMAIN originTold = Handlers
  BY DEF SInv, Mapped
<1>10. \A h \in Handlers : h # built => originAt'[h] = originAt[h] /\ originTold'[h] = originTold[h]
  BY <1>5, <1>9
<1> USE DEF fixed, cVars, wVars, tVars, proxyVars, userVars
<1>11. Fits(line)'
  <2>1. CASE line.code = "227" /\ line.place \notin {NoPlace, InvalidAddress}
    <3>1. PICK ip : line.place = [ip |-> ip, port |-> PeerPort(built)]
      BY <1>6, <2>1 DEF Answers
    <3>2. PeerPort(built) \in Ports
      BY <1>8, PeerPorts
    <3>3. Trusted(line.place, OriginIP)
            = [ip |-> IF isPublicIP(ip) THEN ip ELSE OriginIP, port |-> PeerPort(built)]
      BY <3>1, <3>2, TrustedPort
    <3>4. line.place.ip = ip /\ line.place.port = PeerPort(built)
      BY <3>1
    <3>5. originAt'[built] = [line.place EXCEPT !.ip = IF isPublicIP(@) THEN @ ELSE OriginIP]
      BY <1>5, <1>7, <1>8, <1>9, <3>2, <3>4
    <3>6. originAt'[built] = [ip |-> IF isPublicIP(ip) THEN ip ELSE OriginIP, port |-> PeerPort(built)]
      BY <3>1, <3>5
    <3> QED
      BY <1>1, <2>1, <3>1, <3>3, <3>6 DEF Fits
  <2>2. CASE line.code # "227" \/ line.place \in {NoPlace, InvalidAddress}
    BY <1>1, <1>6, <2>2 DEF Fits, Answers
  <2> QED
    BY <2>1, <2>2
<1>12. Asked'
  BY <1>1, <1>2, <1>3, <1>7, <1>11 DEF Asked, OnItsWay
<1>13. Request.verb = "PORT" =>
         /\ "originListens" \in handlers[built].open
         /\ originTold'[built] = [ip |-> PftpIP, port |-> handlers[built].originListens]
  <2> SUFFICES ASSUME Request.verb = "PORT"
               PROVE  /\ "originListens" \in handlers[built].open
                      /\ originTold'[built] = [ip |-> PftpIP, port |-> handlers[built].originListens]
    OBVIOUS
  <2>1. "originListens" \in handlers[built].open /\ handlers[built].originListens \in Ports
    BY <1>4, <1>8 DEF OriginReady
  <2>2. originTold'[built] = parseLineToAddr(Request.fields)
    BY <1>5, <1>8, <1>9
  <2> QED
    BY <1>4, <2>1, <2>2, Hosts, WrittenIsRead
<1>14. /\ \A h \in Handlers : /\ h > dataConnector => Unannounced(h)
                              /\ Settled(handlers[h].origin, h)
                              /\ Settled(dialled[h].origin, h)
       /\ (/\ dataConnector # 0 /\ tpc[dataConnector] = "None" /\ cpc # "Install"
           /\ originTold[dataConnector] # NoPlace)
          => /\ "originListens" \in handlers[dataConnector].open
             /\ originTold[dataConnector]
                  = [ip |-> PftpIP, port |-> handlers[dataConnector].originListens]
  BY DEF SInv, Known
<1>15. \A h \in Handlers : /\ (h > dataConnector => Unannounced(h))'
                           /\ Settled(handlers[h].origin, h)'
                           /\ Settled(dialled[h].origin, h)'
  <2>1. dialled[built].origin = NoPlace
    BY <1>8 DEF SInv, Started
  <2>2. \A h \in Handlers : h # built =>
            /\ (h > dataConnector => Unannounced(h))'
            /\ Settled(handlers[h].origin, h)'
            /\ Settled(dialled[h].origin, h)'
    BY <1>1, <1>10, <1>14 DEF Unannounced, Settled
  <2>3. ~(built > dataConnector)
    BY <1>8
  <2>4. Settled(handlers[built].origin, built)' /\ Settled(dialled[built].origin, built)'
    BY <1>1, <1>2, <2>1, Hostless DEF Settled
  <2> QED
    BY <1>1, <2>2, <2>3, <2>4
<1>16. (/\ dataConnector # 0 /\ tpc[dataConnector] = "None" /\ cpc # "Install"
        /\ originTold[dataConnector] # NoPlace
        => /\ "originListens" \in handlers[dataConnector].open
           /\ originTold[dataConnector]
                = [ip |-> PftpIP, port |-> handlers[dataConnector].originListens])'
  BY <1>1, <1>5, <1>8, <1>13, <1>14
<1>17. Known'
  BY <1>1, <1>8, <1>15, <1>16 DEF Known
<1>18. Informed'
  BY <1>1, WInformed
<1> QED
  BY <1>12, <1>17, <1>18

LEMMA ReplyTransferring ==
    ASSUME SInv, OriginReply, Transferring, patient
    PROVE  Transferring' /\ Known' /\ Informed'
<1>1. /\ UNCHANGED <<fixed, cVars, wVars, tVars, proxyVars, userVars, clientAt, dialled>>
      /\ toOrigin # <<>> /\ toOrigin' = Tail(toOrigin)
  BY ReplyStays
<1>2. PICK h : toOrigin = <<[verb |-> "RETR", fields |-> <<>>, for |-> h]>>
  BY <1>1 DEF Transferring
<1>3. fromOrigin = <<>> /\ wpc = "Read"
  BY <1>1 DEF Transferring
<1> DEFINE cmd == [verb |-> "RETR", fields |-> <<>>, for |-> h]
<1>4. cmd = Head(toOrigin) /\ toOrigin' = <<>> /\ cmd.verb = "RETR"
  BY <1>1, <1>2, OneSeq
<1> HIDE DEF cmd
<1>5. PICK lines \in OriginAnswers(cmd) \cup {<<Plain("500")>>} :
        /\ fromOrigin' = <<>> \o lines
        /\ originAt' = IF lines[1].place.port \notin Ports THEN originAt
                ELSE [originAt EXCEPT ![cmd.for] =
                        [lines[1].place EXCEPT !.ip = IF isPublicIP(@) THEN @
                                                      ELSE OriginIP]]
        /\ originTold' = IF cmd.verb # "PORT" THEN originTold
                ELSE [originTold EXCEPT ![cmd.for] = parseLineToAddr(cmd.fields)]
  BY <1>3, <1>4, ReplyDoes
<1>6. lines \in {<<Plain("150"), Plain("226")>>, <<Plain("500")>>}
  BY <1>4, <1>5 DEF OriginAnswers
<1>7. lines[1].place = NoPlace /\ fromOrigin' = lines
  <2>1. ASSUME lines = <<Plain("150"), Plain("226")>>
        PROVE  lines[1] = Plain("150") /\ fromOrigin' = lines
    BY <1>5, <2>1, EmptyConcat
  <2>2. ASSUME lines = <<Plain("500")>>
        PROVE  lines[1] = Plain("500") /\ fromOrigin' = lines
    BY <1>5, <2>2, EmptyConcat
  <2> QED
    BY <1>6, <2>1, <2>2, LineFields
<1>8. UNCHANGED <<originAt, originTold>>
  BY <1>4, <1>5, <1>7, Hostless
<1> USE DEF fixed, cVars, wVars, tVars, proxyVars, userVars
<1>9. Transferring'
  BY <1>1, <1>3, <1>4, <1>6, <1>7 DEF Transferring
<1>10. Known'
  BY <1>1, <1>8, KnownStays
<1>11. Informed'
  BY <1>1, WInformed
<1> QED
  BY <1>9, <1>10, <1>11

LEMMA ReplySInv == ASSUME SInv, IInv', OriginReply PROVE SInv'
<1>1. /\ UNCHANGED <<fixed, cVars, wVars, tVars, proxyVars, userVars, clientAt, dialled>>
      /\ toOrigin # <<>> /\ toOrigin' = Tail(toOrigin)
      /\ DOMAIN originAt' = Handlers /\ DOMAIN originTold' = Handlers
  BY ReplyStays
<1> USE DEF fixed, cVars, wVars, tVars, proxyVars, userVars
<1>2. Configured' /\ Started' /\ Named' /\ Worked' /\ Listening'
  BY <1>1, WorkStays
<1>3. Mapped'
  BY <1>1 DEF SInv, Mapped
<1>4. ASSUME patient PROVE Patience' /\ Known' /\ Informed'
  <2>1. Asked \/ Transferring
    BY <1>1, <1>4 DEF SInv, Patience, Between, WithC, Unasked
  <2>2. CASE Asked
    BY <1>4, <2>2, ReplyAsked DEF Patience
  <2>3. CASE Transferring
    BY <1>4, <2>3, ReplyTransferring DEF Patience
  <2> QED
    BY <2>1, <2>2, <2>3
<1>5. ASSUME ~patient PROVE Patience' /\ Known' /\ Informed'
  BY <1>1, <1>5 DEF Patience, Known, Informed
<1> QED
  BY <1>2, <1>3, <1>4, <1>5 DEF SInv

-----------------------------------------------------------------------------
(* Goroutine C.                                                            *)

(* While C works on a command, nothing is with the origin or with W.       *)
LEMMA CHasIt ==
    ASSUME SInv, patient, cpc # "Read"
    PROVE  WithC /\ command.verb \in DATA
BY DEF SInv, Patience, Between, Asked, Transferring, Worked

LEMMA WorkingOn ==
    ASSUME SInv, cpc # "Read",
           UNCHANGED <<patient, wording, command, pending, told, toOrigin, fromOrigin, wpc>>
    PROVE  Patience' /\ Informed'
<1>1. CASE patient
  <2>1. WithC
    BY <1>1, CHasIt
  <2>2. pending # <<>>
    BY <2>1, OneSeq DEF WithC
  <2> QED
    BY <2>1, <2>2 DEF Patience, WithC, Unasked, SInv, Informed
<1>2. CASE ~patient
  BY <1>2 DEF Patience, Informed
<1> QED
  BY <1>1, <1>2

LEMMA Answered ==
    ASSUME SInv, cpc # "Read", NEW code, Answer(code),
           code \notin {"150", "227", "229"}, code \in Expected(command.verb),
           UNCHANGED <<patient, wording, command, toOrigin, fromOrigin, wpc>>
    PROVE  Patience' /\ Informed'
<1>1. CASE patient
  <2>1. WithC
    BY <1>1, CHasIt
  <2>2. cpc' = "Read" /\ Tell(Plain(code))
    BY DEF Answer
  <2>3. told' = [verb |-> command.verb, line |-> Plain(code)] /\ pending' = <<>>
    BY <2>1, <2>2, OneSeq, LineFields DEF Tell, WithC
  <2>4. told'.verb = command.verb /\ told'.line.code = code
    BY <2>3, LineFields
  <2>5. Between'
    BY <2>1, <2>2, <2>3 DEF Between, WithC, Unasked
  <2>6. Informed'
    BY <2>4 DEF Informed
  <2> QED
    BY <2>5, <2>6 DEF Patience
<1>2. CASE ~patient
  BY <1>2 DEF Patience, Informed
<1> QED
  BY <1>1, <1>2

LEMMA BusySInv == ASSUME SInv, IInv', ReplyBusy PROVE SInv'
<1>1. /\ cpc = "Busy" /\ Answer("450")
      /\ UNCHANGED <<fixed, command, wVars, tVars, proxyVars, lineVars, placeVars>>
  BY DEF ReplyBusy
<1>2. cpc' = "Read"
  BY <1>1 DEF Answer
<1> USE DEF fixed, wVars, tVars, proxyVars, lineVars, placeVars
<1>3. Configured' /\ Started' /\ Named' /\ Worked' /\ Listening'
  BY <1>1, <1>2, WorkStays
<1>4. Known'
  BY <1>1, <1>2, KnownStays
<1>5. Mapped'
  BY <1>1 DEF SInv, Mapped
<1>6. command.verb \in DATA
  BY <1>1 DEF SInv, Worked
<1>7. Patience' /\ Informed'
  BY <1>1, <1>6, Answered, ExpectedReplies
<1> QED
  BY <1>3, <1>4, <1>5, <1>7 DEF SInv

(* The lines Read chooses from: one that parses names the place where the  *)
(* client listens.                                                         *)
Means(verb, fields, place) ==
    LET addr == IF verb = "PORT" THEN parseLineToAddr(fields) ELSE parseEPRTtoAddr(fields)
    IN  fields = <<>> \/ IsError(addr) \/ Trusted(addr, ClientIP) = place

LEMMA LinesMean ==
    ASSUME NEW ip, NEW port \in Ports, NEW place,
           place = [ip |-> IF isPublicIP(ip) THEN ip ELSE ClientIP, port |-> port]
    PROVE  /\ ip \in IPv4 => Means("PORT", AddrFields(ip, port), place)
           /\ Means("EPRT", <<IF ip \in IPv4 THEN 1 ELSE 2, ip, port>>, place)
<1>1. ip \in IPv4 => Means("PORT", AddrFields(ip, port), place)
  BY WrittenIsRead, TrustedPort DEF Means
<1> DEFINE protocol == IF ip \in IPv4 THEN 1 ELSE 2
<1>2. protocol \in {1, 2}
  OBVIOUS
<1> HIDE DEF protocol
<1>3. parseEPRTtoAddr(<<protocol, ip, port>>)
        = IF IsIP(ip) THEN [ip |-> ip, port |-> port] ELSE InvalidAddress
  BY <1>2 DEF parseEPRTtoAddr
<1>4. Means("EPRT", <<protocol, ip, port>>, place)
  BY <1>3, TrustedPort, ErrorsAreErrors DEF Means
<1> QED
  BY <1>1, <1>4 DEF protocol

LEMMA BadLinesMean ==
    ASSUME NEW place
    PROVE  /\ Means("PORT", <<>>, place) /\ Means("PORT", <<NotANumber>>, place)
           /\ Means("EPRT", <<3, ClientIP, 21>>, place)
<1>1. parseLineToAddr(<<NotANumber>>) = InvalidAddress
  BY DEF parseLineToAddr
<1>2. parseEPRTtoAddr(<<3, ClientIP, 21>>) \in {UnknownProtocol, InvalidAddress}
  BY DEF parseEPRTtoAddr
<1> QED
  BY <1>1, <1>2, ErrorsAreErrors DEF Means

LEMMA ReadMeans ==
    ASSUME IInv, Read
    PROVE  \E verb, fields, place :
             /\ ReadDATA(verb, fields, place) /\ verb \in DATA
             /\ verb \in Active => Means(verb, fields, place)
<1> USE DEF DATA, Active, Passive
<1>1. CASE \E verb \in Passive : ReadDATA(verb, <<>>, NoPlace)
  BY <1>1
<1>2. CASE \/ ReadDATA("PORT", <<>>, NoPlace)
           \/ ReadDATA("PORT", <<NotANumber>>, NoPlace)
           \/ ReadDATA("EPRT", <<3, ClientIP, 21>>, NoPlace)
  BY <1>2, BadLinesMean
<1>3. ASSUME NEW ip \in ClientNames, NEW port, NEW place, port = PeerPort(built + 1),
             place = [ip |-> IF isPublicIP(ip) THEN ip ELSE ClientIP, port |-> port],
             \/ ip \in IPv4 /\ ReadDATA("PORT", AddrFields(ip, port), place)
             \/ ReadDATA("EPRT", <<IF ip \in IPv4 THEN 1 ELSE 2, ip, port>>, place)
      PROVE  \E verb, fields, named :
               /\ ReadDATA(verb, fields, named) /\ verb \in DATA
               /\ verb \in Active => Means(verb, fields, named)
  <2>1. built + 1 \in Handlers
    BY <1>3 DEF ReadDATA, IInv, Numbered
  <2>2. port \in Ports
    BY <1>3, <2>1, PeerPorts
  <2> QED
    BY <1>3, <2>2, LinesMean
<1> QED
  BY <1>1, <1>2, <1>3 DEF Read

LEMMA ReadSInv == ASSUME SInv, IInv', Read PROVE SInv'
<1>1. PICK verb, fields, place :
        /\ ReadDATA(verb, fields, place) /\ verb \in DATA
        /\ verb \in Active => Means(verb, fields, place)
  BY ReadMeans DEF SInv
<1>2. /\ cpc = "Read" /\ built < MaxHandlers /\ (patient => pending = <<>>)
      /\ command' = [verb |-> verb, fields |-> fields]
      /\ pending' = Append(pending, verb)
      /\ UNCHANGED <<fixed, wVars, tVars, dataConnector, inDataTransfer,
                     lineVars, told, originAt, originTold, dialled>>
  BY <1>1 DEF ReadDATA
<1> USE DEF fixed, wVars, tVars, lineVars
<1>3. command'.verb = verb /\ command'.fields = fields
  BY <1>2
<1>4. \/ cpc' = "Busy" /\ UNCHANGED <<handlers, built, clientAt>>
      \/ /\ cpc' = "ListenClient" /\ built' = built + 1
         /\ handlers' = [handlers EXCEPT ![built + 1].mode = verb]
         /\ clientAt' = [clientAt EXCEPT ![built + 1] = place]
  BY <1>1 DEF ReadDATA
<1>5. Patience' /\ Informed'
  <2>1. CASE patient
    <3>1. Between
      <4>1. pending # <<verb>> /\ pending # <<"RETR">> /\ pending # <<command.verb>>
        BY <1>2, <2>1, OneSeq
      <4> QED
        BY <2>1, <4>1 DEF SInv, Patience, WithC, Asked, Transferring
    <3>2. pending' = <<verb>> /\ pending' # <<>>
      BY <1>2, <3>1, AppendEmpty, OneSeq DEF Between
    <3>3. WithC'
      BY <1>2, <1>3, <3>1, <3>2 DEF Between, WithC, Unasked
    <3>4. Informed'
      BY <1>2, <3>2 DEF SInv, Informed
    <3> QED
      BY <3>3, <3>4 DEF Patience
  <2>2. CASE ~patient
    BY <1>2, <2>2 DEF Patience, Informed
  <2> QED
    BY <2>1, <2>2
<1>6. CASE cpc' = "Busy" /\ UNCHANGED <<handlers, built, clientAt>>
  <2>1. \A h : /\ ClientReady(h)' <=> ClientReady(h)
               /\ OriginReady(h)' <=> OriginReady(h)
    BY <1>2, <1>6 DEF ClientReady, OriginReady, ClientNeedsListen, OriginNeedsListen
  <2>2. Configured' /\ Mapped' /\ Started'
    BY <1>2, <1>6 DEF SInv, Configured, ListenPorts, Mapped, Started
  <2>3. Named'
    BY <1>2, <1>6 DEF SInv, Named, Building
  <2>4. Worked'
    BY <1>1, <1>3, <1>6 DEF Worked, AtWork, Building
  <2>5. Listening'
    BY <1>2, <1>6, <2>1 DEF SInv, Listening
  <2>6. Known'
    <3>1. \A h : /\ Unannounced(h)' <=> Unannounced(h)
                 /\ Settled(handlers[h].origin, h)' <=> Settled(handlers[h].origin, h)
                 /\ Settled(dialled[h].origin, h)' <=> Settled(dialled[h].origin, h)
      BY <1>2, <1>6 DEF Unannounced, Settled
    <3> QED
      BY <1>2, <1>6, <3>1 DEF SInv, Known
  <2> QED
    BY <1>5, <2>2, <2>3, <2>4, <2>5, <2>6 DEF SInv
<1>7. CASE /\ cpc' = "ListenClient" /\ built' = built + 1
           /\ handlers' = [handlers EXCEPT ![built + 1].mode = verb]
           /\ clientAt' = [clientAt EXCEPT ![built + 1] = place]
  <2>1. built + 1 \in Handlers /\ dataConnector <= built /\ built \in Nat /\ dataConnector \in Nat
    BY <1>2 DEF SInv, IInv, Numbered
  <2>2. handlers[built + 1] = EmptyHandler /\ tpc[built + 1] = "None"
    BY <2>1 DEF SInv, Named, Started
  <2>3. /\ \A h \in Handlers : h # built + 1 => handlers'[h] = handlers[h] /\ clientAt'[h] = clientAt[h]
        /\ DOMAIN clientAt' = Handlers /\ clientAt'[built + 1] = place
        /\ handlers'[built + 1].mode = verb
        /\ \A h \in Handlers : /\ handlers'[h].client = handlers[h].client
                                /\ handlers'[h].origin = handlers[h].origin
                                /\ handlers'[h].closed = handlers[h].closed
                                /\ handlers'[h].open = handlers[h].open
                                /\ handlers'[h].originListens = handlers[h].originListens
    BY <1>7, <2>1, EmptyFields DEF SInv, IInv, Shaped, Mapped
  <2>4. Configured' /\ Mapped' /\ Started'
    BY <1>2, <2>3 DEF SInv, Configured, ListenPorts, Mapped, Started
  <2>5. Named'
    <3>1. handlers'[built + 1].client = NoPlace /\ dialled[built + 1].client = NoPlace
      BY <2>1, <2>2, <2>3, EmptyValues DEF SInv, Started
    <3>2. \A h \in Handlers : /\ handlers'[h].client \in {NoPlace, clientAt'[h]}
                              /\ dialled[h].client \in {NoPlace, clientAt'[h]}
      BY <2>3, <3>1 DEF SInv, Named
    <3>3. \A h \in Handlers : h > built + 1 => handlers'[h] = EmptyHandler
      BY <2>1, <2>3 DEF SInv, Named
    <3>4. verb \in Active => Understood'
      BY <1>1, <1>3, <1>7, <2>3 DEF Means, Understood, ClientAddr
    <3> QED
      BY <1>2, <1>3, <1>7, <3>2, <3>3, <3>4 DEF Named
  <2>6. Worked'
    BY <1>1, <1>3, <1>7, <2>1, <2>2, <2>3, EmptyValues DEF Worked, AtWork, Building
  <2>7. Listening'
    <3>1. dataConnector # 0 => dataConnector \in Handlers /\ dataConnector # built + 1
      BY <2>1
    <3>2. dataConnector # 0 => /\ ClientReady(dataConnector)' <=> ClientReady(dataConnector)
                               /\ OriginReady(dataConnector)' <=> OriginReady(dataConnector)
      BY <1>2, <2>3, <3>1 DEF ClientReady, OriginReady, ClientNeedsListen, OriginNeedsListen
    <3> QED
      BY <1>2, <2>3, <3>1, <3>2 DEF SInv, Listening
  <2>8. Known'
    <3>1. \A h \in Handlers : /\ Unannounced(h)' <=> Unannounced(h)
                              /\ Settled(handlers[h].origin, h)' <=> Settled(handlers[h].origin, h)
                              /\ Settled(dialled[h].origin, h)' <=> Settled(dialled[h].origin, h)
      BY <1>2, <2>3 DEF Unannounced, Settled
    <3>2. dataConnector # 0 => dataConnector \in Handlers
      BY <2>1
    <3> QED
      BY <1>2, <1>7, <2>3, <3>1, <3>2 DEF SInv, Known
  <2> QED
    BY <1>5, <2>4, <2>5, <2>6, <2>7, <2>8 DEF SInv
<1> QED
  BY <1>4, <1>6, <1>7

-----------------------------------------------------------------------------
(* C's steps that leave everybody else alone: handlers may change, but not *)
(* what is known of the peers.                                             *)

LEMMA KnownAtWork ==
    ASSUME SInv, IInv',
           UNCHANGED <<config, patient, tpc, dataConnector, built, originAt, originTold, dialled>>,
           \A h \in Handlers : handlers'[h].origin = handlers[h].origin,
           \/ cpc' = "Install"
           \/ /\ cpc # "Install"
              /\ \/ /\ handlers'[dataConnector].open = handlers[dataConnector].open
                    /\ handlers'[dataConnector].originListens = handlers[dataConnector].originListens
                 \/ dataConnector \in Handlers /\ originTold[dataConnector] = NoPlace,
           cpc' \in {"Parse", "Send"} => cpc \in {"Parse", "Send"}
    PROVE  Known'
<1>1. CASE patient
  <2>1. \A h \in Handlers : /\ Unannounced(h)' <=> Unannounced(h)
                            /\ Settled(handlers[h].origin, h)' <=> Settled(handlers[h].origin, h)
                            /\ Settled(dialled[h].origin, h)' <=> Settled(dialled[h].origin, h)
    BY DEF Unannounced, Settled
  <2>2. cpc \in {"Parse", "Send"} => built \in Handlers
    BY DEF SInv, Worked, AtWork, IInv, Numbered
  <2>3. (cpc \in {"Parse", "Send"} => Unannounced(built))'
    BY <1>1, <2>1, <2>2 DEF SInv, Known
  <2>4. (/\ dataConnector # 0 /\ tpc[dataConnector] = "None" /\ cpc # "Install"
         /\ originTold[dataConnector] # NoPlace
         => /\ "originListens" \in handlers[dataConnector].open
            /\ originTold[dataConnector]
                 = [ip |-> PftpIP, port |-> handlers[dataConnector].originListens])'
    BY <1>1 DEF SInv, Known
  <2> QED
    BY <1>1, <2>1, <2>3, <2>4 DEF SInv, Known
<1>2. CASE ~patient
  BY <1>2 DEF Known
<1> QED
  BY <1>1, <1>2

(* Closing a handler.                                                      *)
LEMMA CloseDoes ==
    ASSUME SInv, NEW d \in Handlers, CloseHandler(d)
    PROVE  /\ \A h \in Handlers : h # d => handlers'[h] = handlers[h]
           /\ handlers'[d].closed = TRUE
           /\ \A h \in Handlers : /\ handlers'[h].mode = handlers[h].mode
                                  /\ handlers'[h].client = handlers[h].client
                                  /\ handlers'[h].origin = handlers[h].origin
<1>1. handlers' = [handlers EXCEPT ![d] = Closed(@)]
  BY DEF CloseHandler
<1>2. DOMAIN handlers = Handlers /\ DOMAIN handlers[d] = DOMAIN EmptyHandler
  BY DEF SInv, IInv, Shaped
<1>3. handlers'[d] = Closed(handlers[d]) /\ \A h \in Handlers : h # d => handlers'[h] = handlers[h]
  BY <1>1, <1>2
<1>4. /\ handlers'[d].closed = TRUE /\ handlers'[d].mode = handlers[d].mode
      /\ handlers'[d].client = handlers[d].client
      /\ handlers'[d].origin = handlers[d].origin
  BY <1>2, <1>3, ClosedFields
<1> QED
  BY <1>3, <1>4

(* The handlers other than the one C works on are as they were.            *)
LEMMA NamedAtWork ==
    ASSUME SInv, IInv', UNCHANGED <<command, built, clientAt, dialled>>,
           \A h \in Handlers : handlers'[h].client = handlers[h].client,
           \A h \in Handlers : h > built => handlers'[h] = handlers[h],
           cpc' \in Building \cup {"Parse"} => cpc \in Building
    PROVE  Named'
BY DEF SInv, Named, Understood, ClientAddr

LEMMA ListenDoes ==
    ASSUME SInv, NEW pc, NEW needed, NEW next,
           NEW side \in {"clientListens", "originListens"},
           Listen(pc, needed, side, next), built \in Handlers
    PROVE  /\ cpc = pc
           /\ UNCHANGED <<fixed, command, wVars, tVars, built, dataConnector, lineVars, placeVars>>
           /\ \/ /\ ~needed /\ cpc' = next /\ UNCHANGED <<handlers, userVars>>
              \/ /\ needed /\ cpc' = next /\ UNCHANGED userVars
                 /\ \A h \in Handlers : h # built => handlers'[h] = handlers[h]
                 /\ handlers'[built][side] \in ListenPorts
                 /\ handlers'[built].open = handlers[built].open \cup {side}
                 /\ \A f \in DOMAIN EmptyHandler \ {side, "open"} :
                      handlers'[built][f] = handlers[built][f]
              \/ CloseHandler(built) /\ Answer("421")
<1>1. /\ cpc = pc
      /\ UNCHANGED <<fixed, command, wVars, tVars, built, dataConnector, lineVars, placeVars>>
      /\ \/ /\ ~needed /\ cpc' = next /\ UNCHANGED <<handlers, userVars>>
         \/ /\ needed /\ cpc' = next /\ UNCHANGED userVars
            /\ \E port \in ListenPorts :
                 handlers' = [handlers EXCEPT ![built][side] = port,
                                              ![built].open = @ \cup {side}]
         \/ CloseHandler(built) /\ Answer("421")
  BY DEF Listen
<1>2. ASSUME NEW port \in ListenPorts,
             handlers' = [handlers EXCEPT ![built][side] = port,
                                          ![built].open = @ \cup {side}]
      PROVE  /\ \A h \in Handlers : h # built => handlers'[h] = handlers[h]
             /\ handlers'[built][side] \in ListenPorts
             /\ handlers'[built].open = handlers[built].open \cup {side}
             /\ \A f \in DOMAIN EmptyHandler \ {side, "open"} :
                  handlers'[built][f] = handlers[built][f]
  <2>1. DOMAIN handlers = Handlers /\ DOMAIN handlers[built] = DOMAIN EmptyHandler
    BY DEF SInv, IInv, Shaped
  <2>2. side # "open" /\ side \in DOMAIN EmptyHandler
    BY EmptyFields
  <2> QED
    BY <1>2, <2>1, <2>2, EmptyFields
<1> QED
  BY <1>1, <1>2

LEMMA ListenSInv ==
    ASSUME SInv, IInv', NEW pc, NEW needed, NEW next,
           NEW side \in {"clientListens", "originListens"},
           Listen(pc, needed, side, next),
           \/ /\ pc = "ListenClient" /\ next = "ListenOrigin" /\ side = "clientListens"
              /\ needed = ClientNeedsListen(built)
           \/ /\ pc = "ListenOrigin" /\ next = "Destroy" /\ side = "originListens"
              /\ needed = OriginNeedsListen(built)
    PROVE  SInv'
<1>1. cpc \in {"ListenClient", "ListenOrigin"}
  BY DEF Listen
<1>2. /\ built \in Handlers /\ dataConnector # built
      /\ dataConnector # 0 => dataConnector \in Handlers
  BY <1>1 DEF SInv, IInv, Numbered, Building
<1>3. /\ cpc = pc
      /\ UNCHANGED <<fixed, command, wVars, tVars, built, dataConnector, lineVars, placeVars>>
      /\ \/ /\ ~needed /\ cpc' = next /\ UNCHANGED <<handlers, userVars>>
         \/ /\ needed /\ cpc' = next /\ UNCHANGED userVars
            /\ \A h \in Handlers : h # built => handlers'[h] = handlers[h]
            /\ handlers'[built][side] \in ListenPorts
            /\ handlers'[built].open = handlers[built].open \cup {side}
            /\ \A f \in DOMAIN EmptyHandler \ {side, "open"} :
                 handlers'[built][f] = handlers[built][f]
         \/ CloseHandler(built) /\ Answer("421")
  BY <1>2, ListenDoes
<1> USE DEF fixed, wVars, tVars, lineVars, placeVars, userVars
<1>4. command.verb \in DATA /\ handlers[built].mode = command.verb /\ ~handlers[built].closed
  BY <1>1 DEF SInv, Worked, AtWork, Building
<1>5. Configured' /\ Mapped' /\ Started'
  BY <1>3 DEF SInv, Configured, ListenPorts, Mapped, Started
<1>6. /\ \A h \in Handlers : h # built => handlers'[h] = handlers[h]
      /\ \A h \in Handlers : /\ handlers'[h].mode = handlers[h].mode
                             /\ handlers'[h].client = handlers[h].client
                             /\ handlers'[h].origin = handlers[h].origin
  <2>1. CASE CloseHandler(built)
    BY <1>2, <2>1, CloseDoes
  <2>2. CASE UNCHANGED handlers
    BY <2>2
  <2> QED
    BY <1>3, <2>1, <2>2, EmptyFields
<1>7. cpc' = "Read" \/ cpc' = next
  BY <1>3 DEF Answer
<1>8. Named'
  <2>1. cpc' \in Building \cup {"Parse"} => cpc \in Building
    BY <1>1 DEF Building
  <2>2. \A h \in Handlers : h > built => h # built
    BY <1>2
  <2> QED
    BY <1>3, <1>6, <2>1, <2>2, NamedAtWork
<1>9. Worked'
  <2>1. CASE cpc' = "Read"
    BY <2>1 DEF Worked, AtWork, Building
  <2>2. CASE cpc' = next /\ UNCHANGED handlers /\ ~needed
    <3>1. /\ ClientReady(built)' <=> ClientReady(built)
          /\ OriginReady(built)' <=> OriginReady(built)
      BY <1>3, <2>2 DEF ClientReady, OriginReady, ClientNeedsListen, OriginNeedsListen
    <3>2. pc = "ListenClient" => ClientReady(built)
      BY <2>2 DEF ClientReady
    <3>3. pc = "ListenOrigin" => ClientReady(built) /\ OriginReady(built)
      BY <1>3, <2>2 DEF OriginReady, SInv, Worked
    <3> QED
      BY <1>2, <1>3, <1>4, <2>2, <3>1, <3>2, <3>3 DEF Worked, AtWork, Building
  <2>3. CASE /\ cpc' = next
             /\ handlers'[built][side] \in ListenPorts
             /\ handlers'[built].open = handlers[built].open \cup {side}
             /\ \A f \in DOMAIN EmptyHandler \ {side, "open"} :
                  handlers'[built][f] = handlers[built][f]
    <3>1. handlers'[built].closed = handlers[built].closed
      BY <2>3, EmptyFields
    <3>2. handlers'[built][side] \in Ports
      BY <2>3 DEF SInv, Configured
    <3>3. pc = "ListenClient" => ClientReady(built)'
      BY <1>3, <2>3, <3>2 DEF ClientReady
    <3>4. ASSUME pc = "ListenOrigin"
          PROVE  ClientReady(built)' /\ OriginReady(built)'
      <4>1. ClientReady(built)
        BY <1>3, <3>4 DEF SInv, Worked
      <4>2. handlers'[built].clientListens = handlers[built].clientListens
        BY <2>3, <3>4, EmptyFields
      <4>3. ClientNeedsListen(built)' <=> ClientNeedsListen(built)
        BY <1>2, <1>3, <1>6 DEF ClientNeedsListen
      <4> QED
        BY <1>3, <2>3, <3>2, <3>4, <4>1, <4>2, <4>3 DEF ClientReady, OriginReady
    <3> QED
      BY <1>2, <1>3, <1>4, <1>6, <2>3, <3>1, <3>3, <3>4 DEF Worked, AtWork, Building
  <2> QED
    BY <1>3, <2>1, <2>2, <2>3 DEF Answer
<1>10. Listening'
  <2>1. dataConnector # 0 => /\ ClientReady(dataConnector)' <=> ClientReady(dataConnector)
                             /\ OriginReady(dataConnector)' <=> OriginReady(dataConnector)
    BY <1>2, <1>3, <1>6 DEF ClientReady, OriginReady, ClientNeedsListen, OriginNeedsListen
  <2> QED
    BY <1>2, <1>3, <1>6, <2>1 DEF SInv, Listening
<1>11. Patience' /\ Informed'
  <2>1. CASE UNCHANGED userVars
    BY <1>1, <1>3, <2>1, WorkingOn
  <2>2. CASE Answer("421")
    BY <1>1, <1>3, <1>4, <2>2, Answered, ExpectedReplies
  <2> QED
    BY <1>3, <2>1, <2>2
<1>12. Known'
  <2>1. dataConnector # 0 => handlers'[dataConnector] = handlers[dataConnector]
    BY <1>2, <1>6
  <2>2. cpc' \notin {"Parse", "Send", "Install"} /\ cpc # "Install"
    BY <1>1, <1>7
  <2>3. CASE dataConnector # 0
    BY <1>3, <1>6, <2>1, <2>2, <2>3, KnownAtWork
  <2>4. CASE dataConnector = 0
    <3>1. \A h \in Handlers : /\ Unannounced(h)' <=> Unannounced(h)
                              /\ Settled(handlers[h].origin, h)' <=> Settled(handlers[h].origin, h)
                              /\ Settled(dialled[h].origin, h)' <=> Settled(dialled[h].origin, h)
      BY <1>3, <1>6 DEF Unannounced, Settled
    <3> QED
      BY <1>3, <2>2, <2>4, <3>1 DEF SInv, Known
  <2> QED
    BY <2>3, <2>4
<1> QED
  BY <1>5, <1>8, <1>9, <1>10, <1>11, <1>12 DEF SInv

(* SetDataHandler closes the handler it replaces, ...                      *)
LEMMA DestroySInv == ASSUME SInv, IInv', DestroyDataHandler PROVE SInv'
<1>1. /\ cpc = "Destroy" /\ cpc' = "Install"
      /\ IF dataConnector = 0 THEN UNCHANGED handlers ELSE CloseHandler(dataConnector)
      /\ UNCHANGED <<fixed, command, wVars, tVars, built, dataConnector,
                     lineVars, userVars, placeVars>>
  BY DEF DestroyDataHandler
<1> USE DEF fixed, wVars, tVars, lineVars, placeVars, userVars
<1>2. /\ built \in Handlers /\ dataConnector < built
      /\ dataConnector # 0 => dataConnector \in Handlers
  BY <1>1 DEF SInv, IInv, Numbered, Building
<1>3. /\ \A h \in Handlers : h # dataConnector => handlers'[h] = handlers[h]
      /\ \A h \in Handlers : /\ handlers'[h].mode = handlers[h].mode
                             /\ handlers'[h].client = handlers[h].client
                             /\ handlers'[h].origin = handlers[h].origin
      /\ dataConnector # 0 => handlers'[dataConnector].closed = TRUE
  BY <1>1, <1>2, CloseDoes
<1>4. Configured' /\ Mapped' /\ Started'
  BY <1>1 DEF SInv, Configured, ListenPorts, Mapped, Started
<1>5. Named'
  <2>1. \A h \in Handlers : h > built => h # dataConnector
    BY <1>2
  <2>2. cpc \in Building
    BY <1>1 DEF Building
  <2> QED
    BY <1>1, <1>3, <2>1, <2>2, NamedAtWork
<1>6. Worked'
  <2>1. handlers'[built] = handlers[built]
    BY <1>2, <1>3
  <2>2. /\ ClientReady(built)' <=> ClientReady(built)
        /\ OriginReady(built)' <=> OriginReady(built)
    BY <1>1, <2>1 DEF ClientReady, OriginReady, ClientNeedsListen, OriginNeedsListen
  <2> QED
    BY <1>1, <2>1, <2>2 DEF SInv, Worked, AtWork, Building
<1>7. Listening'
  BY <1>1, <1>3 DEF Listening
<1>8. Patience' /\ Informed'
  BY <1>1, WorkingOn
<1>9. Known'
  BY <1>1, <1>3, KnownAtWork
<1> QED
  BY <1>4, <1>5, <1>6, <1>7, <1>8, <1>9 DEF SInv

(* ... and installs the new one, of which nobody has been told yet.        *)
LEMMA SetSInv == ASSUME SInv, IInv', SetDataHandler PROVE SInv'
<1>1. /\ cpc = "Install" /\ dataConnector' = built
      /\ cpc' = IF command.verb \in Active THEN "Parse" ELSE "Send"
      /\ UNCHANGED <<fixed, command, wVars, tVars, handlers, built,
                     inDataTransfer, lineVars, userVars, placeVars>>
  BY DEF SetDataHandler
<1> USE DEF fixed, wVars, tVars, lineVars, placeVars, userVars
<1>2. /\ built \in Handlers /\ dataConnector < built /\ dataConnector \in Nat
  BY <1>1 DEF SInv, IInv, Numbered, Building
<1>3. tpc[built] = "None"
  BY <1>2 DEF SInv, Started
<1>4. /\ command.verb \in DATA /\ handlers[built].mode = command.verb
      /\ ~handlers[built].closed /\ ClientReady(built) /\ OriginReady(built)
  BY <1>1 DEF SInv, Worked, AtWork, Building
<1>5. /\ ClientReady(built)' <=> ClientReady(built)
      /\ OriginReady(built)' <=> OriginReady(built)
  BY <1>1 DEF ClientReady, OriginReady, ClientNeedsListen, OriginNeedsListen
<1>6. Configured' /\ Mapped'
  BY <1>1 DEF SInv, Configured, ListenPorts, Mapped
<1>7. Started'
  BY <1>1, <1>2 DEF SInv, Started
<1>8. Named'
  <2>1. cpc \in Building
    BY <1>1 DEF Building
  <2> QED
    BY <1>1, <2>1, NamedAtWork
<1>9. Worked'
  BY <1>1, <1>2, <1>3, <1>4 DEF Worked, AtWork, Building
<1>10. Listening'
  BY <1>1, <1>4, <1>5 DEF Listening
<1>11. Patience' /\ Informed'
  BY <1>1, WorkingOn
<1>12. Known'
  <2>1. CASE patient
    <3>1. \A h \in Handlers : /\ Unannounced(h)' <=> Unannounced(h)
                              /\ Settled(handlers[h].origin, h)' <=> Settled(handlers[h].origin, h)
                              /\ Settled(dialled[h].origin, h)' <=> Settled(dialled[h].origin, h)
      BY <1>1 DEF Unannounced, Settled
    <3>2. \A h \in Handlers : h > built => h > dataConnector
      BY <1>2
    <3>3. Unannounced(built)
      BY <1>2, <2>1 DEF SInv, Known
    <3>4. originTold'[dataConnector'] = NoPlace
      BY <1>1, <3>3 DEF Unannounced
    <3>5. \A h \in Handlers : /\ (h > dataConnector => Unannounced(h))'
                              /\ Settled(handlers[h].origin, h)'
                              /\ Settled(dialled[h].origin, h)'
      BY <1>1, <2>1, <3>1, <3>2 DEF SInv, Known
    <3>6. Unannounced(built)'
      BY <1>1, <1>2, <3>1, <3>3
    <3> QED
      BY <3>4, <3>5, <3>6 DEF Known
  <2>2. CASE ~patient
    BY <1>1, <2>2 DEF Known
  <2> QED
    BY <2>1, <2>2
<1> QED
  BY <1>6, <1>7, <1>8, <1>9, <1>10, <1>11, <1>12 DEF SInv

(* The client's line is parsed: its handler knows where it listens, or is  *)
(* closed.                                                                 *)
LEMMA ParseDoes ==
    ASSUME SInv, ParseClientAddr
    PROVE  /\ cpc = "Parse"
           /\ UNCHANGED <<fixed, command, wVars, tVars, built, dataConnector, lineVars, placeVars>>
           /\ \/ cpc' = "Read" /\ UNCHANGED <<handlers, userVars>>
              \/ /\ CloseHandler(built) /\ ~(command.verb = "PORT" /\ ClientAddr = UnknownProtocol)
                 /\ Answer(IF ClientAddr = UnknownProtocol THEN "522" ELSE "501")
              \/ /\ handlers' = [handlers EXCEPT ![built].client = clientAt[built]]
                 /\ cpc' = "Send" /\ UNCHANGED userVars
<1>1. /\ cpc = "Parse"
      /\ IF command.fields = <<>>
         THEN cpc' = "Read" /\ UNCHANGED <<handlers, inDataTransfer, userVars>>
         ELSE IF IsError(ClientAddr)
         THEN /\ CloseHandler(built)
              /\ Answer(IF ClientAddr = UnknownProtocol THEN "522" ELSE "501")
         ELSE /\ handlers' = [handlers EXCEPT ![built].client = Trusted(ClientAddr, ClientIP)]
              /\ cpc' = "Send"
              /\ UNCHANGED <<inDataTransfer, userVars>>
      /\ UNCHANGED <<fixed, command, wVars, tVars, built, dataConnector, lineVars, placeVars>>
  BY DEF ParseClientAddr, ClientAddr
<1>2. command.verb \in Active
  BY <1>1 DEF SInv, Worked
<1>3. Understood
  BY <1>1, <1>2 DEF SInv, Named
<1>4. ~(command.verb = "PORT" /\ ClientAddr = UnknownProtocol)
  BY PORTNamesNoProtocol DEF ClientAddr
<1> QED
  BY <1>1, <1>3, <1>4 DEF Understood

LEMMA ParseSInv == ASSUME SInv, IInv', ParseClientAddr PROVE SInv'
<1>1. /\ cpc = "Parse"
      /\ UNCHANGED <<fixed, command, wVars, tVars, built, dataConnector, lineVars, placeVars>>
      /\ \/ cpc' = "Read" /\ UNCHANGED <<handlers, userVars>>
         \/ /\ CloseHandler(built) /\ ~(command.verb = "PORT" /\ ClientAddr = UnknownProtocol)
            /\ Answer(IF ClientAddr = UnknownProtocol THEN "522" ELSE "501")
         \/ /\ handlers' = [handlers EXCEPT ![built].client = clientAt[built]]
            /\ cpc' = "Send" /\ UNCHANGED userVars
  BY ParseDoes
<1> USE DEF fixed, wVars, tVars, lineVars, placeVars, userVars
<1>2. /\ built \in Handlers /\ dataConnector = built /\ tpc[built] = "None"
      /\ command.verb \in Active /\ handlers[built].mode = command.verb
  BY <1>1 DEF SInv, Worked, AtWork, IInv, Numbered
<1>3. Configured' /\ Mapped' /\ Started'
  BY <1>1 DEF SInv, Configured, ListenPorts, Mapped, Started
<1>4. CASE cpc' = "Read" /\ UNCHANGED <<handlers, userVars>>
  <2>1. Started' /\ Named' /\ Worked' /\ Listening'
    BY <1>1, <1>4, WorkStays
  <2>2. Known'
    BY <1>1, <1>4, KnownStays
  <2>3. Patience' /\ Informed'
    BY <1>1, <1>4, WorkingOn
  <2> QED
    BY <1>3, <2>1, <2>2, <2>3 DEF SInv
<1>5. CASE /\ CloseHandler(built) /\ ~(command.verb = "PORT" /\ ClientAddr = UnknownProtocol)
           /\ Answer(IF ClientAddr = UnknownProtocol THEN "522" ELSE "501")
  <2>1. /\ \A h \in Handlers : h # built => handlers'[h] = handlers[h]
        /\ handlers'[built].closed = TRUE
        /\ \A h \in Handlers : /\ handlers'[h].mode = handlers[h].mode
                               /\ handlers'[h].client = handlers[h].client
                               /\ handlers'[h].origin = handlers[h].origin
    BY <1>2, <1>5, CloseDoes
  <2>2. cpc' = "Read"
    BY <1>5 DEF Answer
  <2>3. Named'
    <3>1. cpc' \notin Building \cup {"Parse"}
      BY <2>2 DEF Building
    <3>2. \A h \in Handlers : h > built => h # built
      BY <1>2
    <3> QED
      BY <1>1, <2>1, <3>1, <3>2, NamedAtWork
  <2>4. Worked' /\ Listening'
    BY <1>1, <1>2, <2>1, <2>2 DEF Worked, Listening, AtWork, Building
  <2>5. Patience' /\ Informed'
    <3> DEFINE code == IF ClientAddr = UnknownProtocol THEN "522" ELSE "501"
    <3>1. code \notin {"150", "227", "229"}
      OBVIOUS
    <3>2. code \in Expected(command.verb)
      BY <1>2, <1>5, ExpectedReplies DEF DATA, Active
    <3>3. Answer(code)
      BY <1>5
    <3> HIDE DEF code
    <3> QED
      BY <1>1, <3>1, <3>2, <3>3, Answered
  <2>6. Known'
    <3>1. CASE patient
      <4>1. originTold[built] = NoPlace
        BY <1>1, <3>1 DEF SInv, Known, Unannounced
      <4> QED
        BY <1>1, <1>2, <2>1, <2>2, <4>1, KnownAtWork
    <3>2. CASE ~patient
      BY <1>1, <3>2 DEF Known
    <3> QED
      BY <3>1, <3>2
  <2> QED
    BY <1>3, <2>3, <2>4, <2>5, <2>6 DEF SInv
<1>6. CASE /\ handlers' = [handlers EXCEPT ![built].client = clientAt[built]]
           /\ cpc' = "Send" /\ UNCHANGED userVars
  <2>1. /\ \A h \in Handlers : h # built => handlers'[h] = handlers[h]
        /\ handlers'[built].client = clientAt[built]
        /\ \A h \in Handlers : /\ handlers'[h].mode = handlers[h].mode
                               /\ handlers'[h].open = handlers[h].open
                               /\ handlers'[h].closed = handlers[h].closed
                               /\ handlers'[h].origin = handlers[h].origin
                               /\ handlers'[h].clientListens = handlers[h].clientListens
                               /\ handlers'[h].originListens = handlers[h].originListens
    BY <1>2, <1>6, EmptyFields DEF SInv, IInv, Shaped
  <2>2. Named'
    <3>1. cpc' \notin Building \cup {"Parse"}
      BY <1>6 DEF Building
    <3>2. \A h \in Handlers : h > built => h # built
      BY <1>2
    <3>3. \A h \in Handlers : handlers'[h].client \in {NoPlace, clientAt[h]}
      BY <2>1 DEF SInv, Named
    <3> QED
      BY <1>1, <2>1, <3>1, <3>2, <3>3 DEF SInv, Named
  <2>3. \A h \in Handlers : /\ ClientReady(h)' <=> ClientReady(h)
                            /\ OriginReady(h)' <=> OriginReady(h)
    BY <1>1, <2>1 DEF ClientReady, OriginReady, ClientNeedsListen, OriginNeedsListen
  <2>4. Worked' /\ Listening'
    BY <1>1, <1>2, <1>6, <2>1, <2>3 DEF SInv, Worked, Listening, AtWork, Building, DATA
  <2>5. Patience' /\ Informed'
    BY <1>1, <1>6, WorkingOn
  <2>6. Known'
    BY <1>1, <1>2, <1>6, <2>1, KnownAtWork
  <2> QED
    BY <1>3, <2>2, <2>4, <2>5, <2>6 DEF SInv
<1> QED
  BY <1>1, <1>4, <1>5, <1>6

(* The command, or what pftp sends in its place, goes to the origin, for   *)
(* the handler that has just been installed.                               *)
LEMMA SendDoes ==
    ASSUME SInv, SendDATA
    PROVE  /\ cpc = "Send" /\ cpc' = "Read"
           /\ UNCHANGED <<fixed, command, wVars, tVars, built, dataConnector, fromOrigin,
                          placeVars>>
           /\ built \in Handlers /\ dataConnector = built /\ tpc[built] = "None"
           /\ command.verb \in DATA /\ handlers[built].mode = command.verb
           /\ \/ /\ toOrigin' = Append(toOrigin, Request) /\ ~handlers[built].closed
                 /\ UNCHANGED <<handlers, userVars>>
              \/ CloseHandler(built) /\ Answer("500") /\ UNCHANGED toOrigin
              \/ Answer("425") /\ UNCHANGED <<handlers, toOrigin>>
<1>1. /\ cpc = "Send" /\ cpc' = "Read"
      /\ UNCHANGED <<fixed, command, wVars, tVars, built, dataConnector, fromOrigin, placeVars>>
  BY DEF SendDATA, Answer
<1>2. /\ built \in Handlers /\ dataConnector = built /\ tpc[built] = "None"
      /\ command.verb \in DATA /\ handlers[built].mode = command.verb
  BY <1>1 DEF SInv, Worked, AtWork, IInv, Numbered
<1>3. \/ /\ toOrigin' = Append(toOrigin, Request) /\ isDataHandlerAvailable
         /\ UNCHANGED <<handlers, userVars>>
      \/ CloseHandler(built) /\ Answer("500") /\ UNCHANGED toOrigin
      \/ Answer("425") /\ UNCHANGED <<handlers, toOrigin>>
  BY <1>2 DEF SendDATA, Request
<1> QED
  BY <1>1, <1>2, <1>3 DEF isDataHandlerAvailable

LEMMA SendSInv == ASSUME SInv, IInv', SendDATA PROVE SInv'
<1>1. /\ cpc = "Send" /\ cpc' = "Read"
      /\ UNCHANGED <<fixed, command, wVars, tVars, built, dataConnector, fromOrigin, placeVars>>
      /\ built \in Handlers /\ dataConnector = built /\ tpc[built] = "None"
      /\ command.verb \in DATA /\ handlers[built].mode = command.verb
      /\ \/ /\ toOrigin' = Append(toOrigin, Request) /\ ~handlers[built].closed
            /\ UNCHANGED <<handlers, userVars>>
         \/ CloseHandler(built) /\ Answer("500") /\ UNCHANGED toOrigin
         \/ Answer("425") /\ UNCHANGED <<handlers, toOrigin>>
  BY SendDoes
<1> USE DEF fixed, wVars, tVars, placeVars
<1>2. Mapped'
  BY <1>1 DEF SInv, Mapped
<1>3. ASSUME UNCHANGED handlers
      PROVE  Configured' /\ Started' /\ Named' /\ Worked' /\ Listening' /\ Known'
  BY <1>1, <1>3, WorkStays, KnownStays
<1>4. CASE /\ toOrigin' = Append(toOrigin, Request) /\ ~handlers[built].closed
           /\ UNCHANGED <<handlers, userVars>>
  <2>1. CASE patient
    <3>1. WithC
      BY <1>1, <2>1, CHasIt
    <3>2. toOrigin' = <<Request>> /\ pending # <<>>
      BY <1>4, <3>1, AppendEmpty, OneSeq DEF WithC, Unasked
    <3>3. Request' = Request
      BY <1>1, <1>4 DEF Request, OriginNeedsListen
    <3>4. handlers[built].origin = NoPlace
      BY <1>1, <2>1 DEF SInv, Known, Unannounced
    <3>5. WithOrigin'
      BY <1>1, <1>4, <3>1, <3>2, <3>3, <3>4 DEF WithOrigin, WithC, Unasked
    <3>6. built # 0
      BY <1>1
    <3>7. Asked'
      BY <1>1, <1>4, <3>1, <3>5, <3>6 DEF Asked, WithC, userVars
    <3>8. Informed'
      BY <1>1, <1>4, <3>2 DEF SInv, Informed, userVars
    <3> QED
      BY <1>2, <1>3, <1>4, <3>7, <3>8 DEF SInv, Patience
  <2>2. CASE ~patient
    BY <1>1, <1>2, <1>3, <1>4, <2>2 DEF SInv, Patience, Informed
  <2> QED
    BY <2>1, <2>2
<1>5. CASE Answer("425") /\ UNCHANGED <<handlers, toOrigin>>
  <2>1. Patience' /\ Informed'
    BY <1>1, <1>5, Answered, ExpectedReplies
  <2> QED
    BY <1>2, <1>3, <1>5, <2>1 DEF SInv
<1>6. CASE CloseHandler(built) /\ Answer("500") /\ UNCHANGED toOrigin
  <2>1. /\ \A h \in Handlers : h # built => handlers'[h] = handlers[h]
        /\ handlers'[built].closed = TRUE
        /\ \A h \in Handlers : /\ handlers'[h].mode = handlers[h].mode
                               /\ handlers'[h].client = handlers[h].client
                               /\ handlers'[h].origin = handlers[h].origin
    BY <1>1, <1>6, CloseDoes
  <2>2. Configured' /\ Started'
    BY <1>1 DEF SInv, Configured, ListenPorts, Started
  <2>3. Named'
    <3>1. cpc' \notin Building \cup {"Parse"}
      BY <1>1 DEF Building
    <3>2. \A h \in Handlers : h > built => h # built
      BY <1>1
    <3> QED
      BY <1>1, <2>1, <3>1, <3>2, NamedAtWork
  <2>4. Worked' /\ Listening'
    BY <1>1, <2>1 DEF Worked, Listening, AtWork, Building
  <2>5. Patience' /\ Informed'
    BY <1>1, <1>6, Answered, ExpectedReplies
  <2>6. Known'
    <3>1. CASE patient
      <4>1. originTold[built] = NoPlace
        BY <1>1, <3>1 DEF SInv, Known, Unannounced
      <4> QED
        BY <1>1, <2>1, <4>1, KnownAtWork
    <3>2. CASE ~patient
      BY <1>1, <3>2 DEF Known
    <3> QED
      BY <3>1, <3>2
  <2> QED
    BY <1>2, <2>2, <2>3, <2>4, <2>5, <2>6 DEF SInv
<1> QED
  BY <1>1, <1>4, <1>5, <1>6

(* A transfer of the installed handler starts, or is refused.              *)
LEMMA StartDoes ==
    ASSUME SInv, HandleTransfer
    PROVE  /\ cpc = "Read" /\ (patient => pending = <<>>)
           /\ UNCHANGED <<fixed, cVars, wVars, proxyVars, fromOrigin, placeVars>>
           /\ \/ tpc' = tpc
              \/ /\ dataConnector \in Handlers
                 /\ tpc' = [tpc EXCEPT ![dataConnector] = "Client"]
           /\ \/ /\ told'.verb = "RETR" /\ told'.line.code \in {"425", "450", "500"}
                 /\ UNCHANGED <<toOrigin, pending>>
              \/ /\ toOrigin' = Append(toOrigin, [verb |-> "RETR", fields |-> <<>>,
                                                  for |-> dataConnector])
                 /\ pending' = Append(pending, "RETR")
                 /\ UNCHANGED told
<1>1. /\ cpc = "Read" /\ (patient => pending = <<>>)
      /\ UNCHANGED <<fixed, cVars, wVars, proxyVars, fromOrigin, placeVars>>
  BY DEF HandleTransfer
<1>2. \/ tpc' = tpc
      \/ isDataHandlerAvailable /\ tpc' = [tpc EXCEPT ![dataConnector] = "Client"]
  BY DEF HandleTransfer
<1>3. isDataHandlerAvailable => dataConnector \in Handlers
  BY DEF isDataHandlerAvailable, SInv, IInv, Numbered
<1>4. \/ \E code \in {"425", "450", "500"} : Refuse(code)
      \/ /\ toOrigin' = Append(toOrigin, [verb |-> "RETR", fields |-> <<>>,
                                          for |-> dataConnector])
         /\ pending' = Append(pending, "RETR")
         /\ UNCHANGED told
  BY DEF HandleTransfer
<1>5. ASSUME NEW code \in {"425", "450", "500"}, Refuse(code)
      PROVE  /\ told'.verb = "RETR" /\ told'.line.code = code
             /\ UNCHANGED <<toOrigin, pending>>
  BY <1>5, LineFields DEF Refuse
<1> QED
  BY <1>1, <1>2, <1>3, <1>4, <1>5

LEMMA StartSInv == ASSUME SInv, IInv', HandleTransfer PROVE SInv'
<1>1. /\ cpc = "Read" /\ (patient => pending = <<>>)
      /\ UNCHANGED <<fixed, cVars, wVars, proxyVars, fromOrigin, placeVars>>
      /\ \/ tpc' = tpc
         \/ /\ dataConnector \in Handlers
            /\ tpc' = [tpc EXCEPT ![dataConnector] = "Client"]
      /\ \/ /\ told'.verb = "RETR" /\ told'.line.code \in {"425", "450", "500"}
            /\ UNCHANGED <<toOrigin, pending>>
         \/ /\ toOrigin' = Append(toOrigin, [verb |-> "RETR", fields |-> <<>>,
                                             for |-> dataConnector])
            /\ pending' = Append(pending, "RETR")
            /\ UNCHANGED told
  BY StartDoes
<1> USE DEF fixed, cVars, wVars, proxyVars, placeVars
<1>2. ASSUME patient PROVE Between
  <2>1. /\ pending # <<"RETR">> /\ pending # <<command.verb>>
    BY <1>1, <1>2, OneSeq
  <2> QED
    BY <1>2, <2>1 DEF SInv, Patience, WithC, Asked, Transferring
<1>3. /\ Configured' /\ Mapped' /\ Started' /\ Named' /\ Worked' /\ Listening'
      /\ Known'
  <2>1. CASE tpc' = tpc
    BY <1>1, <2>1, WorkStays, KnownStays DEF SInv, Mapped
  <2>2. CASE /\ dataConnector \in Handlers
             /\ tpc' = [tpc EXCEPT ![dataConnector] = "Client"]
    <3>1. /\ DOMAIN tpc' = Handlers /\ tpc'[dataConnector] = "Client"
          /\ \A h \in Handlers : h # dataConnector => tpc'[h] = tpc[h]
      BY <2>2 DEF SInv, Mapped
    <3>2. Configured' /\ Mapped' /\ Started'
      BY <1>1, <2>2, <3>1 DEF SInv, Configured, ListenPorts, Mapped, Started
    <3>3. Named'
      BY <1>1 DEF SInv, Named, Building
    <3>4. Worked' /\ Listening'
      BY <1>1, <3>1 DEF Worked, Listening, AtWork, Building
    <3>5. \A h \in Handlers : /\ Unannounced(h)' <=> Unannounced(h)
                              /\ Settled(handlers[h].origin, h)' <=> Settled(handlers[h].origin, h)
                              /\ Settled(dialled[h].origin, h)' <=> Settled(dialled[h].origin, h)
      BY <1>1 DEF Unannounced, Settled
    <3>6. Known'
      BY <1>1, <3>1, <3>5 DEF SInv, Known
    <3> QED
      BY <3>2, <3>3, <3>4, <3>6
  <2> QED
    BY <1>1, <2>1, <2>2
<1>4. CASE /\ told'.verb = "RETR" /\ told'.line.code \in {"425", "450", "500"}
           /\ UNCHANGED <<toOrigin, pending>>
  <2>1. Patience'
    BY <1>1, <1>2, <1>4 DEF Patience, Between, Unasked
  <2>2. Informed'
    <3>1. {"425", "450", "500"} \subseteq Expected("RETR")
      BY ExpectedReplies
    <3>2. told'.line.code \in Expected(told'.verb)
      BY <1>4, <3>1
    <3> QED
      BY <1>4, <3>2 DEF Informed
  <2> QED
    BY <1>3, <2>1, <2>2 DEF SInv
<1>5. CASE /\ toOrigin' = Append(toOrigin, [verb |-> "RETR", fields |-> <<>>,
                                            for |-> dataConnector])
           /\ pending' = Append(pending, "RETR")
           /\ UNCHANGED told
  <2>1. CASE patient
    <3>1. /\ toOrigin' = <<[verb |-> "RETR", fields |-> <<>>, for |-> dataConnector]>>
          /\ pending' = <<"RETR">> /\ pending' # <<>>
      BY <1>2, <1>5, <2>1, AppendEmpty, OneSeq DEF Between, Unasked
    <3>2. Transferring'
      BY <1>1, <1>2, <2>1, <3>1 DEF Transferring, Between, Unasked
    <3>3. Informed'
      BY <1>1, <1>5, <3>1 DEF SInv, Informed
    <3> QED
      BY <1>3, <3>2, <3>3 DEF SInv, Patience
  <2>2. CASE ~patient
    BY <1>1, <1>3, <2>2 DEF SInv, Patience, Informed
  <2> QED
    BY <2>1, <2>2
<1> QED
  BY <1>1, <1>4, <1>5

LEMMA IdleSInv == ASSUME SInv, IInv', UNCHANGED vars PROVE SInv'
<1> USE DEF vars, fixed, cVars, wVars, tVars, proxyVars, lineVars, userVars, placeVars
<1>1. Configured' /\ Started' /\ Named' /\ Worked' /\ Listening'
  BY WorkStays
<1>2. Known'
  BY KnownStays
<1>3. Mapped' /\ Informed'
  BY WInformed DEF SInv, Mapped
<1>4. Request' = Request
  BY DEF Request, OriginNeedsListen
<1>5. \A line : (Fits(line)' <=> Fits(line)) /\ (Suits(line)' <=> Suits(line))
  BY DEF Fits, Suits
<1>6. Patience'
  BY <1>4, <1>5 DEF SInv, Patience, Between, WithC, Unasked, Transferring, Asked, WithOrigin,
                    OnItsWay, WithW
<1> QED
  BY <1>1, <1>2, <1>3, <1>6 DEF SInv

-----------------------------------------------------------------------------
LEMMA NextSInv == SInv /\ [Next]_vars => SInv'
<1> SUFFICES ASSUME SInv, [Next]_vars PROVE SInv'
  OBVIOUS
<1>1. IInv'
  BY NextInv DEF SInv
<1>2. ASSUME CStep PROVE SInv'
  <2>1. CASE Read
    BY <1>1, <2>1, ReadSInv
  <2>2. CASE ReplyBusy
    BY <1>1, <2>2, BusySInv
  <2>3. CASE ListenClient
    BY <1>1, <2>3, ListenSInv DEF ListenClient
  <2>4. CASE ListenOrigin
    BY <1>1, <2>4, ListenSInv DEF ListenOrigin
  <2>5. CASE DestroyDataHandler
    BY <1>1, <2>5, DestroySInv
  <2>6. CASE SetDataHandler
    BY <1>1, <2>6, SetSInv
  <2>7. CASE ParseClientAddr
    BY <1>1, <2>7, ParseSInv
  <2>8. CASE SendDATA
    BY <1>1, <2>8, SendSInv
  <2>9. CASE HandleTransfer
    BY <1>1, <2>9, StartSInv
  <2> QED
    BY <1>2, <2>1, <2>2, <2>3, <2>4, <2>5, <2>6, <2>7, <2>8, <2>9 DEF CStep
<1>3. ASSUME WStep PROVE SInv'
  BY <1>1, <1>3, TakeSInv, CheckSInv, ModeSInv, RewriteSInv, DeliverSInv DEF WStep
<1>4. ASSUME NEW h \in Handlers, TStep(h) PROVE SInv'
  BY <1>1, <1>4, TransferSInv
<1>5. ASSUME OriginReply PROVE SInv'
  BY <1>1, <1>5, ReplySInv
<1>6. ASSUME UNCHANGED vars PROVE SInv'
  BY <1>1, <1>6, IdleSInv
<1> QED
  BY <1>2, <1>3, <1>4, <1>5, <1>6 DEF Next, Idle

LEMMA AlwaysSInv == Spec => []SInv
BY InitSInv, NextSInv, PTL DEF Spec

(* A transfer dials the client where it listens for this very handler,     *)
(* whatever it pipelines; and, when it awaits its replies, the origin      *)
(* where that announced with 227 that it listens (clientListenOrDial and   *)
(* originListenOrDial, with the address C or W left in the handler).       *)
THEOREM PeersDialled == Spec => []DialsPeers
<1>1. SInv => DialsPeers
  BY DEF SInv, Named, Known, Settled, DialsPeers
<1> QED
  BY AlwaysSInv, <1>1, PTL

(* The answers to PASV and EPSV, and the PORT line to the origin, name a   *)
(* listener of the installed handler that is still open (createDataCommand *)
(* and modifyPASVresponse, which look the handler up anew).                *)
THEOREM PlacesToldListen == Spec => []ToldPlacesListen
<1>1. SInv => ToldPlacesListen
  <2> SUFFICES ASSUME SInv, patient, pending = <<>>, cpc = "Read",
                      dataConnector # 0, tpc[dataConnector] = "None"
               PROVE  LET d == handlers[dataConnector]
                      IN  /\ told.line.code \in {"227", "229"} /\ told.verb \in Passive
                               => /\ "clientListens" \in d.open
                                  /\ told.line.place =
                                       [ip |-> config.MasqueradeIP, port |-> d.clientListens]
                          /\ originTold[dataConnector] # NoPlace
                               => /\ "originListens" \in d.open
                                  /\ originTold[dataConnector] =
                                       [ip |-> PftpIP, port |-> d.originListens]
    BY DEF ToldPlacesListen
  <2> QED
    BY DEF SInv, Known, Informed
<1> QED
  BY AlwaysSInv, <1>1, PTL

(* Every command is answered once, and in kind, whatever command the       *)
(* transfer mode makes pftp send in its place (the reply reader's rewriting*)
(* of 200, 227 and 229).                                                   *)
THEOREM RepliesAreMatched == Spec => []RepliesMatch
<1>1. SInv => RepliesMatch
  BY DEF SInv, Informed, RepliesMatch
<1> QED
  BY AlwaysSInv, <1>1, PTL

(* The reply reader does not panic while the client awaits its replies: a  *)
(* 227 or 229 finds a handler, and the answer it is rewritten to a         *)
(* listener.                                                               *)
THEOREM ReaderSurvives == Spec => []NoPanic
<1>1. SInv => NoPanic
  BY DEF SInv, Patience, Between, WithC, Unasked, Asked, WithOrigin, OnItsWay, WithW,
         Transferring, NoPanic
<1> QED
  BY AlwaysSInv, <1>1, PTL

=============================================================================
