----------------------------- MODULE ControlTLS -----------------------------
(***************************************************************************)
(* TLS on the two control connections and its replay.  Before the login    *)
(* pftp answers AUTH, PBSZ and PROT itself and keeps their lines           *)
(* (previousTLSCommands); USER switches to the user's origin and repeats   *)
(* them there (sendTLSCommand); after the login PBSZ and PROT are          *)
(* forwarded.  transferInTLS, which decides whether data connections use   *)
(* TLS, follows PROT at once.  PROXY and the PROXY protocol header are     *)
(* here too, because they come before the replay.                          *)
(*                                                                         *)
(* The client waits for its replies, so the command goroutine and the      *)
(* reply goroutine take turns: ControlSession has their interleavings.     *)
(* A line is its verb and its parameter, a reply its code.                 *)
(***************************************************************************)
EXTENDS Integers, Sequences

CONSTANTS
    MaxCommands,        \* bound: command lines of the client
    Setups,             \* of a session, see Setup
    Protocols           \* the version names of a configuration file

(* min, max: min_protocol and max_protocol; proxyProtocol:                 *)
(* send_proxy_protocol; client, origins: TLS versions the peers offer, an  *)
(* origin without TLS offers none; readsHeader: origins read PROXY headers;*)
(* longGreeting, longReplies: origins greet, or answer PBSZ and PROT, with *)
(* more than one line.                                                     *)
Setup == [min : Protocols, max : Protocols, proxyProtocol : BOOLEAN,
          client : SUBSET (10 .. 13), origins : SUBSET (10 .. 13),
          readsHeader : BOOLEAN, longGreeting : BOOLEAN,
          longReplies : BOOLEAN]

ASSUME ControlTLSAssumption == MaxCommands \in Nat /\ Setups \subseteq Setup

NoTLS == 0

(* tls.go's getTLSProtocol: any other name means TLS 1.2.  (Mutant: zero.) *)
getTLSProtocolOrZero(name) ==
    CASE name = "TLSv1"   -> 10
      [] name = "TLSv1.1" -> 11
      [] name = "TLSv1.2" -> 12
      [] name = "TLSv1.3" -> 13
      [] OTHER            -> 0

getTLSProtocol(name) ==
    CASE name = "TLSv1"   -> 10
      [] name = "TLSv1.1" -> 11
      [] name = "TLSv1.3" -> 13
      [] OTHER            -> 12

VARIABLES
    setup,                                          \* fixed by Init
    cpc, command, param, index, lastError,          \* C
    controlInTLS, transferInTLS, previousTLSCommands, srcIP, \* clientHandler
    forOrigin, clientTLS, originTLS,                \* versions
    isLoggedin, dials,                              \* proxyServer
    toOrigin, fromOrigin, originProt, accepted,     \* the origin
    sent, pending, clientProt,                      \* the client
    late, refused                                   \* history, see below

tlsVars    == <<controlInTLS, transferInTLS, previousTLSCommands, srcIP,
                forOrigin, clientTLS>>
originVars == <<toOrigin, fromOrigin, originTLS, originProt, accepted>>
clientVars == <<sent, pending, clientProt>>
history    == <<late, refused>>
vars == <<setup, cpc, command, param, index, lastError, tlsVars, isLoggedin,
          dials, originVars, clientVars, history>>

(* The versions pftp offers, to clients and, before AUTH, to origins.      *)
Offered == getTLSProtocol(setup.min) .. getTLSProtocol(setup.max)

(* The version two ends agree on: the highest they share, if any.          *)
Negotiated(ours, theirs) ==
    {v \in ours \cap theirs : \A w \in ours \cap theirs : w <= v}

Params == {"none", "other", "C", "P"}
Commands ==
    [verb : {"AUTH", "PBSZ", "USER", "PASS"}, param : {"other"}]
    \cup [verb : {"PROT"}, param : {"none", "C", "P"}]
    \cup [verb : {"PROXY"}, param : {"IPv4", "IPv6", "bad port", "malformed"}]

(* A PROXY line may precede the session; the greeting of the first origin  *)
(* has been forwarded.                                                     *)
Init ==
    /\ setup \in Setups
    /\ cpc = "Read" /\ command = [verb |-> "PASS", param |-> "other"]
    /\ param = "none" /\ index = 0 /\ lastError = FALSE
    /\ controlInTLS = FALSE /\ transferInTLS = FALSE
    /\ previousTLSCommands = <<>> /\ srcIP \in {"IPv4", "IPv6 in brackets"}
    /\ forOrigin = Offered
    /\ clientTLS = NoTLS /\ originTLS = NoTLS
    /\ isLoggedin = FALSE /\ dials = 0
    /\ toOrigin = <<>> /\ fromOrigin = <<>> /\ originProt = "C"
    /\ accepted = FALSE
    /\ sent = 0 /\ pending = FALSE /\ clientProt = "C"
    /\ late = FALSE /\ refused = FALSE

-----------------------------------------------------------------------------
(* The command goroutine, outside USER.                                    *)

(* parseLine keeps the parameter of an earlier command when this one has   *)
(* none.                                                                   *)
NewParam(cmd) ==
    CASE cmd.param = "none"          -> param
      [] cmd.param \in {"C", "P"}    -> cmd.param
      [] OTHER                       -> "other"

ReadCommand(cmd) ==
    /\ cpc = "Read" /\ ~pending /\ sent < MaxCommands
    /\ command' = cmd /\ param' = NewParam(cmd)
    /\ sent' = sent + 1
    /\ pending' = (cmd.verb # "PROXY")
    /\ cpc' = cmd.verb
    /\ UNCHANGED <<setup, index, lastError, tlsVars, isLoggedin, dials,
                   originVars, clientProt, history>>

(* C answers the command itself.                                           *)
Answered == cpc' = "Read" /\ pending' = FALSE

(* setSpecificTLSVersion.  (Mutant: only the lower end is set.)            *)
PinnedFrom(v) == v .. getTLSProtocol(setup.max)

Pinned(v) == {v}

(* The line is appended to previousTLSCommands.  (Mutant: once per verb.)  *)
RememberedOnce(cmd) ==
    IF \E i \in DOMAIN previousTLSCommands :
          previousTLSCommands[i].verb = cmd.verb
    THEN previousTLSCommands ELSE Append(previousTLSCommands, cmd)

Remembered(cmd) == Append(previousTLSCommands, cmd)

(* AUTH, with a [tls] section: 234 and the handshake, over TLS once more   *)
(* when there is TLS already.  The version is pinned for the origin.  It   *)
(* may fail, and does when no version is shared.                           *)
HandleAUTH ==
    /\ cpc = "AUTH"
    /\ Answered
    /\ LET agreed == Negotiated(Offered, setup.client)
       IN  \/ \E v \in agreed :
                /\ controlInTLS' = TRUE /\ clientTLS' = v
                /\ forOrigin' = Pinned(v)
                /\ previousTLSCommands' = Remembered(command)
                /\ late' = (late \/ dials > 0)
           \/ UNCHANGED <<controlInTLS, clientTLS, forOrigin,
                           previousTLSCommands, late>>
    /\ UNCHANGED <<setup, command, param, index, lastError, transferInTLS,
                   srcIP, isLoggedin, dials, originVars, sent, clientProt,
                   refused>>

(* PBSZ and PROT: 503 outside TLS; before the login answered (534 unless   *)
(* the level is C or P) and kept, whatever the answer; then forwarded.     *)
(* Either way PROT decides at once how data connections are made.          *)
HandlePROT ==
    /\ cpc \in {"PBSZ", "PROT"}
    /\ \/ /\ ~controlInTLS
          /\ Answered
          /\ UNCHANGED <<previousTLSCommands, transferInTLS, toOrigin,
                         clientProt, history>>
       \/ /\ controlInTLS /\ ~isLoggedin
          /\ Answered
          /\ previousTLSCommands' = Remembered(command)
          /\ late' = (late \/ dials > 0)
          /\ LET level == cpc = "PROT" /\ param \in {"C", "P"}
             IN  /\ clientProt' = IF level THEN param ELSE clientProt
                 /\ refused' = (refused \/ (cpc = "PROT" /\ ~level))
          /\ UNCHANGED toOrigin
       \/ /\ controlInTLS /\ isLoggedin
          /\ toOrigin' = Append(toOrigin, command)
          /\ cpc' = "Read"
          /\ UNCHANGED <<previousTLSCommands, pending, clientProt, history>>
    /\ transferInTLS' = IF cpc = "PROT" /\ controlInTLS THEN param = "P"
                        ELSE transferInTLS
    /\ UNCHANGED <<setup, command, param, index, lastError, controlInTLS,
                   srcIP, forOrigin, clientTLS, isLoggedin, dials, fromOrigin,
                   originTLS, originProt, accepted, sent>>

(* PROXY sets the address of the header to come, and is answered (500)     *)
(* only when it cannot be parsed.  An IPv6 address gets no brackets, and   *)
(* the port is not looked at.                                              *)
HandlePROXY ==
    /\ cpc = "PROXY"
    /\ srcIP' = IF command.param = "malformed" THEN srcIP ELSE command.param
    /\ cpc' = "Read"
    /\ UNCHANGED <<setup, command, param, index, lastError, controlInTLS,
                   transferInTLS, previousTLSCommands, forOrigin, clientTLS,
                   isLoggedin, dials, originVars, clientVars, history>>

(* Any other line, and USER after a successful switch.                     *)
Forward ==
    /\ cpc \in {"PASS", "Forward"}
    /\ toOrigin' = Append(toOrigin, command)
    /\ cpc' = "Read"
    /\ UNCHANGED <<setup, command, param, index, lastError, tlsVars,
                   isLoggedin, dials, fromOrigin, originTLS, originProt,
                   accepted, clientVars, history>>

-----------------------------------------------------------------------------
(* USER: handleUSER and switchOrigin.                                      *)

Reply(code) == <<[code |-> code, more |-> FALSE]>>
LongReply(code, long) ==
    (IF long THEN <<[code |-> code, more |-> TRUE]>> ELSE <<>>) \o Reply(code)

(* Refused when logged in or when the middleware leaves no address.        *)
RefuseUSER ==
    /\ cpc = "USER"
    /\ Answered
    /\ UNCHANGED <<setup, command, param, index, lastError, tlsVars,
                   isLoggedin, dials, originVars, sent, clientProt, history>>

(* A switch that fails, 530, or a client that is gone: the session ends.   *)
FailSwitch == cpc' = "Over" /\ pending' = FALSE

HeaderFits == srcIP \in {"IPv4", "IPv6 in brackets"}

(* Dial, and the PROXY header: an origin that reads none takes it for a    *)
(* command.  Dial, header or the wait for the greeting may fail.           *)
DialOrigin ==
    /\ cpc = "USER" /\ ~isLoggedin
    /\ dials' = dials + 1
    /\ fromOrigin' = LongReply("220", setup.longGreeting) \o
                       (IF setup.proxyProtocol /\ ~setup.readsHeader
                        THEN Reply("500 PROXY") ELSE <<>>)
    /\ toOrigin' = <<>> /\ originTLS' = NoTLS /\ originProt' = "C"
    /\ accepted' = FALSE
    /\ \/ /\ setup.proxyProtocol => HeaderFits
          /\ cpc' = "Greet" /\ UNCHANGED pending
       \/ FailSwitch
    /\ UNCHANGED <<setup, command, param, index, lastError, tlsVars,
                   isLoggedin, sent, clientProt, history>>

(* One line of the greeting is read.                                       *)
ReadGreeting ==
    /\ cpc = "Greet"
    /\ fromOrigin' = Tail(fromOrigin)
    /\ index' = 1 /\ lastError' = FALSE
    /\ cpc' = "Replay"
    /\ UNCHANGED <<setup, command, param, tlsVars, isLoggedin, dials,
                   toOrigin, originTLS, originProt, accepted, clientVars,
                   history>>

(* The next kept line is sent.  (Mutant: only AUTH is awaited.)            *)
SendTLSCommandNoWait ==
    /\ cpc = "Replay" /\ index <= Len(previousTLSCommands)
    /\ LET line == previousTLSCommands[index]
       IN  /\ toOrigin' = Append(toOrigin, line)
           /\ IF line.verb = "AUTH" THEN cpc' = "Await" /\ UNCHANGED index
              ELSE cpc' = "Replay" /\ index' = index + 1
    /\ UNCHANGED <<setup, command, param, lastError, tlsVars, isLoggedin,
                   dials, fromOrigin, originTLS, originProt, accepted,
                   clientVars, history>>

SendTLSCommand ==
    /\ cpc = "Replay" /\ index <= Len(previousTLSCommands)
    /\ toOrigin' = Append(toOrigin, previousTLSCommands[index])
    /\ cpc' = "Await"
    /\ UNCHANGED <<setup, command, param, index, lastError, tlsVars,
                   isLoggedin, dials, fromOrigin, originTLS, originProt,
                   accepted, clientVars, history>>

(* One line is read.  The code matters for AUTH only: after 234 the        *)
(* handshake, which may fail and does when no version is shared, and then  *)
(* ends the switch; any other code is remembered and the replay goes on;   *)
(* the complaint about the header is skipped.                              *)
ReadTLSReply ==
    /\ cpc = "Await" /\ fromOrigin # <<>>
    /\ fromOrigin' = Tail(fromOrigin)
    /\ LET code == Head(fromOrigin).code
           auth == previousTLSCommands[index].verb = "AUTH"
           next == cpc' = "Replay" /\ index' = index + 1 /\ UNCHANGED pending
       IN  \/ /\ ~auth
              /\ next /\ UNCHANGED <<lastError, originTLS>>
           \/ /\ auth /\ code = "500 PROXY"
              /\ UNCHANGED <<cpc, index, pending, lastError, originTLS>>
           \/ /\ auth /\ code \notin {"234", "500 PROXY"}
              /\ next /\ lastError' = TRUE /\ UNCHANGED originTLS
           \/ /\ auth /\ code = "234"
              /\ \E v \in Negotiated(forOrigin, setup.origins) : originTLS' = v
              /\ next /\ UNCHANGED lastError
           \/ /\ auth /\ code = "234"
              /\ FailSwitch /\ UNCHANGED <<index, lastError, originTLS>>
    /\ UNCHANGED <<setup, command, param, tlsVars, isLoggedin, dials,
                   toOrigin, originProt, accepted, sent, clientProt, history>>

EndReplay ==
    /\ cpc = "Replay" /\ index > Len(previousTLSCommands)
    /\ IF lastError THEN FailSwitch ELSE cpc' = "Forward" /\ UNCHANGED pending
    /\ UNCHANGED <<setup, command, param, index, lastError, tlsVars,
                   isLoggedin, dials, originVars, sent, clientProt, history>>

-----------------------------------------------------------------------------
(* A line that was to be forwarded cannot be: 500 or 530, and nothing is    *)
(* kept or decided.                                                         *)
LineLost ==
    /\ \/ cpc \in {"PASS", "Forward"}
       \/ cpc \in {"PBSZ", "PROT"} /\ controlInTLS /\ isLoggedin
    /\ Answered
    /\ UNCHANGED <<setup, command, param, index, lastError, tlsVars,
                   isLoggedin, dials, originVars, sent, clientProt, history>>

(* The client's answer cannot be written.  What the handler then returns    *)
(* cannot be either, and C ends, again with nothing kept or decided.        *)
ReplyLost ==
    /\ cpc \in {"AUTH", "PBSZ", "PROT", "USER", "PASS", "Forward"}
    /\ FailSwitch
    /\ UNCHANGED <<setup, command, param, index, lastError, tlsVars,
                   isLoggedin, dials, originVars, sent, clientProt, history>>

-----------------------------------------------------------------------------
(* A 200 to this command promises the client a level of protection.         *)
PromisedLevel == command.verb = "PROT" /\ command.param \in {"C", "P"}

(* The reply goroutine: one reply to the client.  A greeting, or what is   *)
(* left of one, is replaced line by line before the login; other lines of  *)
(* one reply go together; the complaint about the header is dropped.       *)
ForwardReply ==
    /\ cpc = "Read" /\ fromOrigin # <<>>
    /\ LET line  == Head(fromOrigin)
           whole == line.more /\ (line.code # "220" \/ isLoggedin)
       IN  /\ fromOrigin' = IF whole THEN Tail(Tail(fromOrigin))
                            ELSE Tail(fromOrigin)
           /\ isLoggedin' = (isLoggedin \/ line.code = "230")
           /\ IF line.code = "500 PROXY" THEN UNCHANGED <<pending, clientProt>>
              ELSE /\ pending' = FALSE
                   /\ clientProt' = IF line.code = "200" /\ PromisedLevel
                                    THEN command.param ELSE clientProt
    /\ UNCHANGED <<setup, cpc, command, param, index, lastError, tlsVars,
                   dials, toOrigin, originTLS, originProt, accepted, sent,
                   history>>

-----------------------------------------------------------------------------
(* The origin (external).  It answers AUTH once; PBSZ and PROT inside TLS  *)
(* only; it may refuse a level, and does refuse a PROT without one.        *)
OriginReply ==
    /\ toOrigin # <<>>
    /\ toOrigin' = Tail(toOrigin)
    /\ LET cmd   == Head(toOrigin)
           inTLS == originTLS # NoTLS
           says(reply, asks) == /\ fromOrigin' = fromOrigin \o reply
                                /\ refused' = (refused \/ asks)
       IN  \/ /\ cmd.verb = "AUTH" /\ ~inTLS /\ setup.origins # {}
              /\ says(Reply("234"), FALSE) /\ UNCHANGED <<originProt, accepted>>
           \/ /\ cmd.verb = "AUTH" /\ (inTLS \/ setup.origins = {})
              /\ says(Reply("503"), TRUE) /\ UNCHANGED <<originProt, accepted>>
           \/ /\ cmd.verb = "PBSZ" /\ inTLS
              /\ says(LongReply("200", setup.longReplies), FALSE)
              /\ UNCHANGED <<originProt, accepted>>
           \/ /\ cmd.verb = "PROT" /\ inTLS /\ cmd.param \in {"C", "P"}
              /\ says(LongReply("200", setup.longReplies), FALSE)
              /\ originProt' = cmd.param /\ UNCHANGED accepted
           \/ /\ cmd.verb \in {"PBSZ", "PROT"}
              /\ says(Reply("503"), TRUE) /\ UNCHANGED <<originProt, accepted>>
           \/ /\ cmd.verb = "USER"
              /\ says(Reply("331"), FALSE) /\ UNCHANGED <<originProt, accepted>>
           \/ /\ cmd.verb = "PASS" /\ dials > 0
              /\ says(Reply("230"), FALSE)
              /\ accepted' = TRUE /\ UNCHANGED originProt
           \/ /\ cmd.verb = "PASS"
              /\ says(Reply("530"), FALSE) /\ UNCHANGED <<originProt, accepted>>
    /\ UNCHANGED <<setup, cpc, command, param, index, lastError, tlsVars,
                   isLoggedin, dials, originTLS, clientVars, late>>

(* Nothing is owed to the client.  A state in which something is, and      *)
(* nobody can move, would be a deadlock.                                   *)
Idle == (cpc = "Over" \/ (cpc = "Read" /\ ~pending)) /\ UNCHANGED vars

Next ==
    \/ \E cmd \in Commands : ReadCommand(cmd)
    \/ HandleAUTH \/ HandlePROT \/ HandlePROXY \/ Forward
    \/ RefuseUSER \/ DialOrigin \/ ReadGreeting
    \/ SendTLSCommand \/ ReadTLSReply \/ EndReplay
    \/ LineLost \/ ReplyLost
    \/ ForwardReply \/ OriginReply
    \/ Idle

Spec == Init /\ [][Next]_vars

-----------------------------------------------------------------------------
(* Properties.                                                             *)

Versions == {NoTLS} \cup 10 .. 13

(* The fields keep their types: no version is ever below TLS 1.0.          *)
TypeOK ==
    /\ setup \in Setups
    /\ command \in Commands /\ param \in Params
    /\ \A i \in DOMAIN previousTLSCommands : previousTLSCommands[i] \in Commands
    /\ index \in 0 .. Len(previousTLSCommands) + 1
    /\ forOrigin \subseteq 10 .. 13
    /\ clientTLS \in Versions /\ originTLS \in Versions
    /\ originProt \in {"C", "P"} /\ clientProt \in {"C", "P"}
    /\ sent \in 0 .. MaxCommands /\ dials \in 0 .. sent

(* Once the session has its origin, both control links are in TLS, of one  *)
(* version, or neither is; unless the client asked for TLS only after the  *)
(* switch.                                                                 *)
LinksAgree ==
    cpc = "Read" /\ dials > 0 /\ ~late => originTLS = clientTLS

(* The protection of data connections the client was promised is the one   *)
(* pftp uses and the one the origin has agreed to, as long as nobody has   *)
(* refused an AUTH, PBSZ or PROT, none came between the switch and the     *)
(* login, and replies to PBSZ and PROT have one line.                      *)
ProtectionAgrees ==
    (cpc = "Read" /\ ~pending /\ isLoggedin /\ ~late /\ ~refused
     /\ ~setup.longReplies)
    => /\ transferInTLS <=> clientProt = "P"
       /\ originProt = clientProt

(* The replay uses up what the origin answers to it: between commands no   *)
(* reply is left that the client would take for the next command's.  (Of   *)
(* long greetings and replies it reads one line.)                          *)
ReplayInStep ==
    cpc = "Read" /\ ~pending /\ ~setup.longGreeting /\ ~setup.longReplies
    => \A i \in DOMAIN fromOrigin : fromOrigin[i].code = "500 PROXY"

=============================================================================
