# A verification project for pftp

pftp is an FTP proxy: a client connects to it, a middleware chooses an origin
server from the name given with `USER`, and pftp forwards commands, replies and
(optionally) the data connections between the two. This directory holds TLA+
specifications of that program, the TLC runs that check them on small instances,
and proofs that hold for every value of the constants. All paths below are
relative to the repository.

## 1. The system

### Components

| Component | State | Operations | Where |
|---|---|---|---|
| Server (`FtpServer`) | `listener`, `shutdown`, `clientCounter`, `currentConnection`, an errgroup of handlers | `Start`, `serve`, `stop`, signals | `pftp/server.go` |
| Control session (`clientHandler`) | `command`/`param`, `isLoggedin` (through the proxy), `controlInTLS`, `transferInTLS`, TLS command storage, `connCounts` | `handleCommands`, `readClientCommands`, `getResponseFromOrigin`, `handleCommand` and the handlers of `handle_commands.go` | `pftp/client_handler.go`, `pftp/handle_commands.go` |
| Proxy (`proxyServer`) | `origin`, `originReader`, `passThrough`, `stop`, `isLoggedin`, `inDataTransfer`, `dataConnector`, three channels | `startProxy`, `switchOrigin`, `sendTLSCommand`, `suspend`/`unsuspend`, `SetDataHandler`, `DestroyDataHandler`, `Close` | `pftp/proxy.go` |
| Data connections (`dataHandler`) | per side: `listener`, `dataConn`, addresses, `needsListen`; `closed`, and `inDataTransfer`, which it shares with the session | `newDataHandler`, `StartDataTransfer`, `clientListenOrDial`, `originListenOrDial`, `run`, `copyPackets`, `Close` | `pftp/data_handler.go` |
| Address parsing | none | `parsePORTcommand`, `parsePASVresponse`, `parseEPRTcommand`, `parseEPSVresponse`, `parseLineToAddr`, `parseEPRTtoAddr`, `isPublicIP`, `getListenPort` | `pftp/data_handler.go` |
| Configuration | the loaded file | defaults, options, `validateConfig`, `dataPortRangeValidation` | `pftp/config.go` |
| TLS configuration | certificates, versions, cipher suites, one `tls.Config` shared by all clients | `buildTLSConfigForClient`, `buildTLSConfigForOrigin`, `getTLSConfig`, the setters | `pftp/tls.go` |
| Middleware, `Context` | the origin's address | `Use`, the call in `handleCommand` | `pftp/server.go`, `pftp/context.go`, `main.go` |
| Logger, web API example, tests | | | not modelled |

### How they interact

* The accept loop makes one `clientHandler` per connection, counts it in
  `currentConnection`, and starts `handleCommands` for it in an errgroup.
* `handleCommands` dials the default origin and starts two goroutines. **C**
  (`readClientCommands`) reads command lines and runs their handlers. **R**
  (`getResponseFromOrigin`) calls `startProxy`, which starts a third goroutine,
  **W**, that reads the origin's replies and hands them to R's select loop over
  unbuffered channels.
* `USER` makes C stop R over `stopChan`/`stopChanDone`, dial the new origin, and
  let R go on over `waitSwitching`. Meanwhile plain fields (`passThrough`, `stop`,
  `isLoggedin`, `origin`, `originReader`) are written by one goroutine and read by
  the others, with no lock.
* `PORT`, `EPRT`, `PASV` and `EPSV` make C install a `dataHandler`. A transfer
  command starts a goroutine **T** that connects both sides in two goroutines and
  copies in two more. W marks the session as busy on `150` and not busy on `226`.

### What is hard

Three goroutines share fields without a lock and meet on unbuffered channels, so
ordering, lost hand-overs and deadlocks are the main hazards; the session must end
in every order in which client, origin and timeouts can end it; a handler may be
closed at every step of a transfer it belongs to; the counter is raised by one
goroutine, compared by another and lowered by a deferred function; a signal can
arrive in the middle of an accept; deadlines of two connections are set by three
goroutines and taken away by two; replies are rewritten for whichever handler is
current when they arrive; and what was agreed about TLS before the login must be
agreed again, in step, with an origin that was not there. `PROJECT.json` lists each hazard at its line
with the properties that catch it, and says why for those that none covers yet.

### What makes each component correct

* Control session: no reply of a replaced origin reaches the client; pftp holds one
  origin connection at most; the login pftp sees is a login at the current origin,
  which is never replaced afterwards; flags are set only inside the handler that set
  them; replies stay in step with commands; nothing is written into a TLS handshake;
  no origin connection is left open; every command is answered and the session ends
  when the client leaves, except in four known ways.
* TLS on the control connections: both links use the same version or neither uses
  TLS; the protection of data connections is the one the client was promised and the
  origin accepted; the replay leaves no reply behind.
* Data commands: a peer is dialled where it listens, told where pftp listens, and
  answered in the mode it asked for; replaced and refused handlers hold no ports.
* Data connections: goroutines never use a connection that `Close` has taken away;
  ports and sockets are released; one transfer at a time; a stream is not cut
  short; the busy mark goes when the transfer goes; a transfer ends.
* Deadlines: an idle client is timed and a busy one is not timed out; the origin may
  be silent during a transfer; a source is given up only when it has stalled; a
  silent client is thrown out in the end. (Except where the command goroutine was
  misled: see the assumptions below.)
* Server: the counter is exact; no more than `MaxConnections` are served; a signal
  ends the server, under server-starter only after the last session and then if all
  sessions end, and is not reported as an error.
* Addresses, configuration: what is parsed is what was written; an accepted
  configuration satisfies what the rest of the code assumes of it.

## 2. The modules

| Module | Models | Proofs | Instance |
|---|---|---|---|
| `ControlSession` | the three goroutines of a control session and their rendezvous | `ControlSessionProofs` | `Wild.cfg`, `Patient.cfg`, `LateJoin.cfg` |
| `OriginLink` | abstract: what switching promises of origin connections | refined by ControlSession | |
| `ControlTLS` | AUTH, PBSZ, PROT, PROXY and their replay | `ControlTLSProofs` | `MCControlTLS` |
| `Addresses` | address parsing and writing, port ranges, configuration (operators) | `AddressesProofs` | used by DataCommands |
| `DataCommands` | PORT, EPRT, PASV, EPSV and the rewriting of their replies | `DataCommandsProofs` (ports), `DataAnswersProofs` (places and replies) | `MCDataCommands` |
| `DataTransfer` | data handlers and transfers, connecting and copying | `DataTransferProofs` | `Transfers.cfg`, `PatientTransfers.cfg`, `TransfersEnd.cfg` |
| `Deadlines` | every deadline after the login, with a clock | `DeadlinesProofs` | `MCDeadlines` |
| `Server` | accept loop, counter, signals | `ServerProofs` | `Server.cfg` |
| `Admission` | abstract: what the limit promises | refined by Server | |

The `MC` modules only give constants their values; a mutant of a definition stands
in front of it, is used by nothing else and shows that a property notices it.

### ControlSession and OriginLink

The three goroutines are program counters: `cpc` (C), `rpc` (R) and `wpc` (W). A
step of a goroutine between two points at which another may see or change
something shared is one action; a rendezvous on an unbuffered channel is one action
that moves both parties (`PassLine`, `AckLine`, `PassErr`, `JoinReader` between W
and R; `PassStop`, `PassStopDone`, `PassSwitched` between C and R; `EndSession` is
`eg.Wait`). Variables carry the code's names where they are the code's fields.

| Code | Model |
|---|---|
| `handleCommand`, `parseLine`, middleware, handler table | `ReadCommand`, `RefuseCommand`, `ReadEOF`, `ReadTimeout`, `EndTimedOut` |
| `handleUSER`, `handleAUTH`, `handlePBSZ`/`handlePROT` | `HandleUSER`, `HandleAUTH`, `TLSHandshake`, `HandlePROT` |
| `switchOrigin` with its deferred function | `HandleUSER`, `PassStop`, `PassStopDone`, `DialOrigin`, `SetReader`, `ReadGreeting`, `ReplayTLS`, `ResetStop`, `PassSwitched`, `Unsuspend` |
| `startProxy` (select loop, read goroutine) | `StartProxy`, `SendToClient`, `CloseAfterErr`, `CloseForStop` and the `W` actions |
| the deferred closes | `SendEOFToOrigin`, `CloseClient`, `SendEOFToClient`, `CloseOrigin`, `EndSession` |

Connections to origins are numbered by the switch that dialled them, so that a
property can say *which* origin a line came from. A reply is a code and a mark that
more lines follow. `OTHER` stands for every command that is only forwarded or only
answered locally, `PROT` for `PBSZ` too. Peers are external: origins answer each
command they receive, the client sends commands and closes. A switch fails, too, when
the new origin hangs up before or during the greeting or the replay, even where no
other failure is allowed. `OriginLink` knows
nothing of all this: it holds a set of connections with at most one member, and
dials only when the set is empty.

### ControlTLS

The same commands without the goroutines, for a client that waits for its replies:
what ControlSession calls one `ReplayTLS` is here line by line. Verbs carry a
parameter, links a TLS version, and a session starts with one of several `Setups`
(versions in the configuration and of the peers, PROXY protocol, origins that greet
or answer with several lines).

| Code | Model |
|---|---|
| `handleCommand`, `parseLine` (an absent parameter leaves the old one) | `ReadCommand`, `NewParam` |
| `handleAUTH`, `setSpecificTLSVersion`, `previousTLSCommands` | `HandleAUTH`, `Pinned`, `Remembered` |
| `handlePBSZ`, `handlePROT`, `handlePROXY` | `HandlePROT`, `HandlePROXY` |
| `switchOrigin`, `sendProxyHeader`, `sendTLSCommand` | `DialOrigin`, `HeaderFits`, `ReadGreeting`, `SendTLSCommand`, `ReadTLSReply`, `EndReplay`, `FailSwitch` |
| a forwarded line or an answer that cannot be written | `LineLost`, `ReplyLost` |
| `getTLSProtocol`, `buildTLSConfigForOrigin` | `getTLSProtocol`, `Offered` |

### Addresses and DataCommands

`Addresses` has the pure functions, on the fields of a line: `parseLineToAddr`,
`parseEPRTtoAddr`, `isPublicIP`, what the `parse…` methods keep (`Trusted`), the
fields pftp writes (`AddrFields`), `dataPortRangeValidation`, `getListenPort`,
`checkNeedListen`, `validateConfig`. An IPv4 address is four octets, any IPv6 address
is one value, and a field that is no number is `NotANumber`.

`DataCommands` runs them: C builds a handler (`ListenClient`, `ListenOrigin`),
installs it (`DestroyDataHandler`, `SetDataHandler`), reads the client's address
(`ParseClientAddr`) and sends a line to the origin (`SendDATA`, which closes the
handler again when the send fails); W takes a reply, which may be a 227 or 229 that
nothing can be read from
(`TakeReply`), looks at the handler (`CheckAvailable`, `ReadMode`), and writes the
reply the client's mode asks for (`Rewrite`, `Deliver`) — four steps, because C may
replace the handler between any two. T dials the sides that do not listen and closes
the handler. Lines and replies carry the number of the handler they belong to, which
the code does not have and only properties read. Sessions start from configurations
that went through `validateConfig`.

### DataTransfer

C and W as far as they touch data connections, and for every transfer `tpc` (T), `dpc` (the
two connecting goroutines) and `kpc` (the two copying ones). `Close` is an operator
used by every caller, as in the code; a handler whose listen fails is closed, which
unsets the session's busy flag. A data connection's handshake and the store of what it
returns (`Handshake`, `StoreTLSConn`) are two steps. Sockets are numbered `<<transfer, side>>`;
`sock` is pftp's end of them, `peer` the other's. Payload is a count of chunks. With
`DataChanProxy` unset pftp forwards these commands like any other, and nothing of
this module runs.

### Deadlines

Deadlines are what is left of them in ticks: `ctl` for the two control connections,
`dat` for the two data connections. C sets the client's (`LookAtFlag` and
`SetClientDeadLine` are two steps: the flag may change between them), W the origin's
(`SetOriginDeadline`, `MarkTransfer`), T takes both away and sets them again
(`ClearDeadlines`, `RearmDeadlines`), and `copyPackets` extends the source's
(`WriteChunk`). `Tick` lowers them all. `quiet` and `still` count the ticks since the
client, or the source, last did something, for the properties. A deadline cannot pass
while a goroutine can run, but the goroutines' steps at one instant come in any order:
T may connect, clear the deadlines and copy before C, back from the transfer command,
looks at the flag or sets the client's deadline. `misled` remembers that C set it, or
took it away, under such a transfer.

### Server and Admission

One state machine for the accept loop (`spc`), one for `Start` (`mpc`), one per
handler (`hpc`). A session is one state, `"Session"`, which a handler may leave and need
not: ControlSession shows that a session whose client leaves ends *or hangs*
(`EndsOrHung`), and a session lasts as long as its client. `CloseListener` may fail, and
`stop` then reports that error. `Admission` says what the limit promises without counter or
goroutines; `Server` maps the admitted handlers to its `inside`.

## 3. The runs

Every passing run is an exhaustive search of its instance.

| Run | Constants | Shows |
|---|---|---|
| `wild` | pipelining client, failing peers, idle timeouts, any schedule | `TypeOK`, `DeliverFromCurrent`, `FlagsConfined`, `NoOriginLeak`, `OriginLinkSpec` |
| `patient` | client that waits for each reply, origins that may close, any schedule | `LoginBelongsToOrigin`, `LoggedInStays`, `HandshakeQuiet`, `RepliesInStep`, `AnsweredOrHung`, `EndsOrHung` |
| `server` | 4 clients, limit 2, deadlock checked | `TypeOK`, `CounterExact`, `ServedBounded`, `GracefulReturn`, `StopIsClean`, `AdmissionSpec`, `SignalEndsServer` |
| `transfers` | any client, 1 transfer, TLS, timeouts, session may end, any schedule | `TypeOK`, `CopierHasConns`, `ListenersReleased` |
| `patient_transfers` | 2 handlers, 2 transfers, one after the other, `PromptLocal` | `OneDataConnection`, `SocketsClosed`, `NoTruncation`, `BusyMeansTransfer` |
| `transfers_end` | any client, 1 handler, 1 transfer, TLS, timeouts, session may end, any schedule | `TransferEnds` |
| `control_tls` | 6 commands, 8 setups, deadlock checked | `TypeOK`, `LinksAgree`, `ProtectionAgrees`, `ReplayInStep` |
| `data_commands` | 2 handlers, 11 setups in every transfer mode, deadlock checked | `DialsPeers`, `ToldPlacesListen`, `RepliesMatch`, `NoPanic`, `OnlyCurrentListens` |
| `deadlines` | 2 commands, both may be transfers, 4 setups | `IdleIsTimed`, `IdleMeansIdle`, `OriginUntimed`, `SourceCutFairly`, `SilentClientEnds` |

`SignalEndsServer` says of a server without server-starter that a signal ends it whatever
its sessions do, and of one under server-starter, which waits for them, that it ends *if*
no session lasts for ever. That condition is written into the property and is no part of
the fairness. `TransferEnds` speaks of transfers whose client side has found its handler
open, or dials: what happens to the others is told below.

Three runs show a place where the code does not do what it, a comment or the
documentation says:

| Run | What happens |
|---|---|
| `late_join` | The deferred function of `switchOrigin` resets `s.stop` before it sends on `waitSwitching`. If dial and greeting are over before R has joined its reader, R reads `stop` as false, does not wait "until switching origin server complate", and C waits for ever. |
| `epsv_dial` | A 229 reply names a port and no host, `parseEPSVresponse` keeps no host either, and `originListenOrDial` dials its own machine where `config.toml` speaks of a connection "between pftp and origin ftp server". |
| `long_transfer` | `copyPackets` extends the deadline of the source only; the destination keeps the one it got when it was connected, and a transfer that makes progress is cut after `transfer_timeout`. |

### Other disagreements, seen by changing a constant

These have no run of their own; each is one constant, or one premise of a property,
away from a passing run.

* *A USER after the origin has gone.* R is no longer in its select loop, and `USER`
  waits for ever on `stopChan`, and with it the session and its place in the counter.
  `patient` allows it as one of the ways of `Hung`.
* *No `[tls]` section.* `AUTH` panics on a nil `*tlsData` before its 550; the
  `recover` assigns to a shadowed variable, and the client gets no answer.
  `TLSConfigured = FALSE` makes `AnsweredOrHung` fail.
* *A greeting of two lines* is replaced line by line, and reaches the client as two
  replies. `MultiLineGreeting = TRUE` makes `RepliesInStep` fail in `patient`.
* *A 150 before a data connection that then fails* marks the session busy with nothing
  left to unmark it. `EarlyMark = TRUE` makes `BusyMeansTransfer` fail.
* *A deadline during a transfer, the client's.* `StartDataTransfer` takes it away ("do not
  timeout communication connection during data transfer", `data_handler.go:310`), but in a
  goroutine of its own: if T is first, C sets it when it is back from the transfer
  command, and a client that waits for its file is told 421. `IdleMeansIdle` without
  `~misled` fails.
* *A deadline during a transfer, the origin's.* W decides which deadline to set before it
  looks at the line that marks the transfer ("do not time out during transfer data",
  `proxy.go:445`). A 150 that is read while T copies brings `proxy_timeout` back, and the
  control connection is lost in the middle. `OriginUntimed` without `mark # "late"` fails.
* *Two commands before a 150.* `isDataTransferStarted` is true from the 150 on, not from the
  transfer command on. A second transfer command in between starts a second transfer on
  the same handler, where a comment says "only one data connection available in same
  time" (`handle_commands.go:301`), and a data command, which should be answered 450, destroys the
  handler of a transfer that copies. `Patient = FALSE` makes `OneDataConnection` fail.
* *A transfer that never ends.* `clientListenOrDial` returns early, without its send, when
  it finds its handler closed; `originListenOrDial` ("if client data connection got error,
  abort origin connection too", `data_handler.go:433`) waits for that send for ever, and T
  with it. `TransferEnds`, stated from `tpc[t] = "Connect"` on, fails.

### A crash that no run shows as such

In startProxy's reader, `isDataHandlerAvailable` and the use of the handler behind it
(`CheckAvailable`, `ReadMode`, `Rewrite` in DataCommands) are separate steps. A client
that does not wait for its replies can make C close or replace the handler between
them. W then dereferences a nil listener; it runs in a goroutine without `recover`, so
that the panic ends **pftp, with all its sessions**. The model has this state
(`wpc = "Panic"`), and `NoPanic` keeps it out by its premise `patient`: with a client
that awaits its replies it does not happen (proved), and without the premise TLC finds
it at once. No line of the repository promises anything about a client that does not
wait, so there is no run that refutes a quoted line.

### The four ways of Hung

`Hung` names the states of ControlSession in which C waits in vain, and
`AnsweredOrHung` and `EndsOrHung` say that there are no others: R has ended, or is on
its way out, when C sends on `stopChan`; R has passed its check of `s.stop`, or W is
about to offer the error of a connection already replaced, when C sends on
`waitSwitching`; and W, which evaluates `s.originReader` at each call, reads from the
new connection while R waits to join it.

### Bounds, and why they are enough

* `wild`: `MaxCommands = 2`, `MaxSwitches = 2`; `patient`: `MaxCommands = 4`,
  `MaxSwitches = 2`. A second `USER` after a first one that worked or failed, with
  commands before, between or after; two switches are what it takes for a line to
  survive one and be delivered after it.
* `MaxClients = 4`, `MaxConnections = 2`: two refused while two are served, and a
  place that becomes free and is taken again.
* DataTransfer: `MaxHandlers = 2`, `MaxTransfers = 2`: one handler replaced under a
  transfer, one transfer that follows another. `transfers_end` has one handler: the end of
  the session closes it at any step, as a command that replaces it would. `MaxChunks = 1` is enough to tell a
  stream that was cut from one that was not. The wilder `transfers` run has one
  transfer: its state space with two is out of reach, and so is TLS together with two
  transfers; its three properties are proved for any number.
* ControlTLS: `MaxCommands = 6` is AUTH, PBSZ, PROT, USER, PASS and one more, in any
  order. The setups have peers with no version in common, a configuration whose
  minimum is above its maximum, and origins that ignore or refuse PROXY.
* DataCommands: `MaxHandlers = 2`, `MaxTransfers = 1`: a handler replaced between any
  two steps of W, and a dial after it. The setups have port ranges that cross a
  multiple of 256 (the two fields of a port), hold one port only, or are invalid; a port
  that is taken; addresses on both sides of `isPublicIP`; clients that pipeline.
* Deadlines: timeouts of 0 to 2 ticks in the orders that tell them apart, `MaxCommands =
  2`: a transfer after a command, a command after a transfer, and two transfers, which
  is what it takes for one to leave something behind for the other; `MaxChunks =
  2` (4 in `long_transfer`): longer than a deadline that is not extended. The four
  safety properties are proved for any number. In the setup without idle timeout
  `IdleIsTimed` and `SilentClientEnds` say nothing, and neither does `IdleMeansIdle`:
  `RearmDeadlines` gives such a client a deadline that has already passed, as the code
  does, and 0 ticks of silence are enough.
* Reply buffers need no bound of their own: they are bounded by the commands sent.

### Assumptions about the surroundings

* `Pipelining = FALSE` (control) and `Patient = TRUE` (data): a client that waits, as
  RFC 959 wants. A client that does not wait can be logged in at the origin it leaves
  and can lose replies while the proxy is suspended; the properties of `wild`,
  `transfers` and the pipelining setups of `data_commands` hold for it too.
* `PromptLocal` (DataTransfer; `patient_transfers` alone has it): a goroutine which holds a
  fresh connection stores it before a peer's next move, and looks at its handler before
  somebody closes it. Without it the connection may be stored in a handler that has been
  closed in the meantime, where no `Close` will find it.
* An origin sends `226` only after the data connection has been closed, and (unless
  `EarlyMark`) sends `150` once it has a data connection. It may refuse a transfer
  (`"refused"`) or give it up after its 150 (`"aborted"`), whatever has been
  connected. `SocketsClosed` and `NoTruncation` leave such transfers out, and
  `BusyMeansTransfer` the ones given up: if W reads that 150 when T has already ended,
  nothing unsets the flag.
* `NoTruncation` speaks of transfers that the origin does not refuse, whose session
  goes on and whose deadlines do not pass; Deadlines has those that do.
* `SocketsClosed` excludes refused transfers: the next data command may close the
  handler while it still dials.
* Deadlines: a tick is longer than `connectionTimeout`, so connections are made or fail
  between two ticks. `mark` is *late* when a 150 was read after T had taken the
  deadlines away: W sets the origin's again, and `OriginUntimed` leaves such a transfer
  out. `misled` is set when C takes the client's
  deadline away itself, on a flag that need not be a running transfer's, or sets it when
  T already copies: `IdleIsTimed`, `IdleMeansIdle` and `SilentClientEnds` leave such a
  moment out, until C sets the deadline again or a transfer gives it back. In the first
  case, a flag that nothing unsets leaves a silent client without a deadline for ever.
* ControlTLS: `LinksAgree` and `ProtectionAgrees` leave out sessions with an AUTH, PBSZ
  or PROT between the switch and the login: pftp answers those itself and no origin
  ever hears of them. `ProtectionAgrees` and `ReplayInStep` leave out origins that answer
  a replayed command with several lines, of which `sendTLSCommand` reads one, and
  `ReplayInStep` also those that greet with several: the rest of a long greeting is read
  as the answer to AUTH. That fails the switch, so `ProtectionAgrees` holds even then.
  `ProtectionAgrees` leaves out sessions in which an AUTH, PBSZ or PROT was refused, too:
  pftp stores and applies a PROT whatever the answer is, and the three then disagree.
* DataCommands: `DialsPeers` leaves out origins that answered with 229 (see
  `epsv_dial`), with a line from which no port can be read (W ignores the error of
  the parser, and T dials port 0), and, with `ignore_passive_ip`, origins that listen
  elsewhere.
* A write into a connection that its peer has closed may succeed or fail.

### Fairness

Weak fairness of each goroutine's steps is what Go's scheduler gives: a goroutine
that can run is run. A rendezvous is a step of the two goroutines that both wait for
it. Beyond the program the specifications assume: an origin answers what it received
and closes a connection pftp has half-closed; a client that sees the end of its
connection closes it; in Server, `Accept` fails once the listener is closed, and
everything but the end of a session (`SessionOver`) is fair; in DataTransfer, accepts, dials and handshakes return, and
with `Timeouts` a deadline that was set passes; in Deadlines, connections are made or
fail and time passes, but no peer is assumed to do anything. A data handshake has no
deadline in the code, so `TransferEnds` depends on peers that answer it; neither have
the reads of a greeting and of the replayed replies, so `AnsweredOrHung` depends on
origins that send them. Nobody is assumed to send, to leave or to signal.

## 4. The proofs

Checked by TLAPS for every value of the constants that satisfies the modules'
assumptions: bounds are natural numbers, switches are Booleans
(`ConstantsAssumption`, `DataAssumption`, `DataCommandsAssumption`), and
`ServerAssumption` has `MaxClients \in Nat`, `MaxConnections \in Int`: zero and
negative limits are included, for the configuration allows them.

| Theorem | States |
|---|---|
| `ControlSessionProofs!TypeCorrect` | `TypeOK` |
| `ControlSessionProofs!FlagsCorrect` | `FlagsConfined` |
| `ControlSessionProofs!DeliversFromCurrent` | `DeliverFromCurrent` |
| `ControlSessionProofs!NothingLeaks` | `NoOriginLeak` |
| `ControlSessionProofs!ImplementsOriginLink` | `OriginLinkSpec` |
| `ControlSessionProofs!LoginIsAtOrigin` | `LoginBelongsToOrigin`, under `PatientClient` |
| `ControlSessionProofs!LoginStaysAtOrigin` | `LoggedInStays`, under `PatientClient` |
| `ControlSessionProofs!HandshakeIsQuiet` | `HandshakeQuiet`, under `PatientClient` |
| `ControlSessionProofs!RepliesKeepStep` | `RepliesInStep`, under `PatientClient` |
| `DataTransferProofs!TypeCorrect` | `TypeOK` |
| `DataTransferProofs!CopiersHaveConns` | `CopierHasConns` |
| `DataTransferProofs!PortsAreReleased` | `ListenersReleased` |
| `DataTransferProofs!OneAtATime` | `OneDataConnection`, under `Patient` |
| `DataTransferProofs!NothingCutOff` | `NoTruncation`, under `Patient` |
| `DataTransferProofs!SocketsEnd` | `SocketsClosed`, under `NothingLate` |
| `DataTransferProofs!BusyEnds` | `BusyMeansTransfer`, under `~EarlyMark` |
| `DataCommandsProofs!PortsReleased` | `OnlyCurrentListens` |
| `DataAnswersProofs!PeersDialled` | `DialsPeers` |
| `DataAnswersProofs!PlacesToldListen` | `ToldPlacesListen` |
| `DataAnswersProofs!RepliesAreMatched` | `RepliesMatch` |
| `DataAnswersProofs!ReaderSurvives` | `NoPanic` |
| `ControlTLSProofs!TypeCorrect` | `TypeOK` |
| `ControlTLSProofs!LinksAlike` | `LinksAgree` |
| `ControlTLSProofs!ProtectionAgreed` | `ProtectionAgrees` |
| `ControlTLSProofs!ReplayUsesUpReplies` | `ReplayInStep` |
| `DeadlinesProofs!IdleTimed` | `IdleIsTimed`, unless C was misled |
| `DeadlinesProofs!IdleMeant` | `IdleMeansIdle`, unless C was misled |
| `DeadlinesProofs!OriginSpared` | `OriginUntimed` |
| `DeadlinesProofs!SourceFairlyCut` | `SourceCutFairly` |
| `AddressesProofs!WrittenIsRead` | a written address and port is what is read back |
| `AddressesProofs!NamedPlaceIsSafe` | what a handler keeps of any fields can be dialled, or has no port |
| `AddressesProofs!ListenPortInRange` | ports are chosen from the range; never its last, unless it is the only one |
| `AddressesProofs!ValidatedConfig` | what an accepted configuration satisfies |
| `ServerProofs!TypeCorrect` | `TypeOK` |
| `ServerProofs!CounterCorrect` | `CounterExact` |
| `ServerProofs!ServiceBounded` | `ServedBounded` |
| `ServerProofs!GracefulShutdown` | `GracefulReturn` |
| `ServerProofs!CleanStop` | `StopIsClean` |
| `ServerProofs!ImplementsAdmission` | `AdmissionSpec` |

*Control session.* None of the safety properties is inductive. `IInv` adds to
`TypeOK` and `FlagsConfined`:

* `Meeting`: where C and R may stand together during a switch, so that R has left
  its select loop before C goes past `AwaitStopDone`;
* `ReaderLives`: where W may stand for each place of R, so that no reader outlives
  the `startProxy` that started it;
* `SourceIsOrigin`: while R is in its select loop, `originReader` is the reader of
  `origin`, and what W reads or holds comes from it;
* `Aligned`: `originReader` and `origin` differ only between their two assignments in
  `switchOrigin`, after a dial that failed, or when R is on its way out;
* `LeftClosed`: every connection other than `origin` is closed or was never opened,
  and `origin` itself is closed before it is replaced and once R has ended;
* `Dialled`: the bound on dials still leaves room for the one a switch is about to
  make, and the reader is set only after a dial that succeeded.

`DeliverFromCurrent` follows from `SourceIsOrigin`, and `NoOriginLeak` from
`LeftClosed`. `TypeOK` is proved in four parts (`Flags`, `Places`, `Links`,
`InFlight`), each preserved by the actions that touch it. The refinement maps the set
of open connections (`Held`) to `link` and the number of the last dial to `last`:
`LeftClosed` makes that set empty whenever `DialOrigin` is enabled, every closing step
is `Close`, and all others stutter.

The other four theorems of the control session are about a client that waits. They
assume `PatientClient`, the four switches that `patient` sets to FALSE: no pipelining,
no failing peers, no idle timeouts, no greeting of several lines. TLC finds a
counterexample to one of the four properties or more when any of them is TRUE: a
second command, a reply of pftp's own beside the origin's, or the rest of a greeting
is then under way, and what belongs to one command meets the next. The number of
commands and of switches, the TLS section, the moment at which an origin closes and
the schedule of the goroutines are not limited. `PatientInv` says, besides `IInv`:

* `Turns`: at most one command is under way, and for each place of C who has it. While
  C handles it the origin owes nothing (`Quiet`); while C switches the new origin has
  only greeted (`Greeted`: W, which may be reading from it already, may take the
  greeting before C does, and drops it because `passThrough` is false); while C rests
  one reply at most is due, and `Due` follows it from the command at the origin through
  the lines on their way to the line that W or R holds;
* `Budget`: replies written, commands not yet read, the one C has in hand and the reply
  that is due are together no more than what the client sent and the welcome, which
  makes `RepliesInStep` inductive;
* `Elsewhere`: nothing is under way at any connection that is not `origin`, `origin` is
  the last one dialled, and W holds no line when its error has ended R;
* `Login`: `isLoggedin` only with a 230 that this origin gave, and never during a
  switch. This is what makes `LoggedInStays` hold although the check of `isLoggedin`
  is made in `handleUSER` and the switch comes many steps later: a 230 in between
  would need a reply that is due, and `Turns` excludes one.

*Data transfers.* A copier reads `dataConn` once, when it starts to run, and `Close`
may have emptied it before, between or after. `CopyInv` follows a connection from the
goroutine that stores it to the copier that uses it: `Owned` (a transfer's goroutines
have a handler), `Stored` (a side that has connected finds a connection, unless the
handler has been closed; the origin side of a failed client side is the exception),
`Joined` (copies start when both sides have connected), `Given` (a copier that finds
its handler open was given both). Everything hangs on `closed` never being unset, so
that the check of `isClosed` before a read is enough although it comes after the
arguments were evaluated. For the ports, `Listening` says that a handler listens only
while it is not closed and is the installed one or the one about to be, and `Ended`
that after the proxy's `Close` the command that installs another handler closes it.

The other four theorems are about one transfer after another. `OneAtATime` and
`NothingCutOff` assume `Patient` and nothing else: the client ends one transfer, reads
its last reply and opens another data connection before the next. TLS, timeouts, an
early 150, refusals, the end of the session and every schedule are left open, which is
far more than `patient_transfers` can check. `ConnInv` is the ground of both:
`Installed` (only the installed handler may be open, but for the moment of
`DestroyPrevious`), `Unshared` (two transfers never have one handler) and `OwnConns` (a
handler stores, and a copier holds, connections of its own transfer only; if the handler
of a copier that runs is closed, so are the copier's sockets, whoever closed it).
A transfer that still copies is therefore the one of the installed handler.

`NothingCutOff` has to exclude every `Close` there is. `TurnInv` says whose turn it is:
`Answers` follows the transfer command through the replies on their way, with
`finished` only when the origin has closed its side; `Reached`, that the peers are there
once pftp has connected, the origin after the client; `Over`, that C goes through
`NewHandler` and `Destroy` only when both peers of every transfer have closed, or the
origin has refused. `FlowInv` says that a transfer nobody has given up (`Flowing`: not
refused, no side failed, no deadline passed, its destination there) is intact (`Kept`):
its handler open, both copiers running, the chunks read, on their way and passed on
adding up to what was sent, and the stream ended only after the last of them. C closes
when nothing flows (`NothingFlows`), R only when the session has ended, another
transfer another handler, and its own goroutines only after both copies, of which the
one from the destination does not end before.

`SocketsEnd` needs all of `NothingLate`, and TLC finds a socket left open as soon as one
part of it is dropped: a client that does not wait replaces the handler under a dial; a
goroutine that does not run at once (`PromptLocal`), or a session that ends, closes the
handler between a dial and the assignment of its connection; and with TLS a handshake
that fails on the client side closes the handler while the origin side goes on to dial.
`EndInv` keeps the two sides of a transfer in step (`InStep`: the origin side begins
after the client side, which takes it along when it fails) and says that what is open
is in the handler's hand (`InHand`), so that the last `Close` reaches it.

`BusyEnds` assumes nothing of the client, but that 150 comes when the origin has its
data connection (`~EarlyMark`): otherwise W may read a 150 when its transfer has failed
to connect and is over, and the flag stays. That a transfer was given up after its 150
is an exception of the property itself. `Freed` says that unless a transfer is marked,
the last 150 on its way, or the one read, is followed by a 226 that is still to be read.

*Data commands.* For the ports, `IInv` is `Shaped` (records keep their fields), `Numbered`
(the installed handler is older than the one being built) and `Holding` (who holds
ports, step by step of `handleDATA`). The four properties of places and replies need
much more, `SInv` in `DataAnswersProofs`. Its centre is `Patience`: while the client
awaits its replies, the one command under way is with C (`WithC`), or with the origin
(`WithOrigin`), on its way back (`OnItsWay`) or with W (`WithW`), or is a transfer
(`Transferring`) – and in the middle three cases it is a command of the *installed*
handler, which is open, has not transferred, and has the mode of the command. So
nothing can replace or close the handler while W works on its reply in four steps,
and `NoPanic` follows at once. `Fits` and `Suits` say which lines an origin may answer
`Request` with and which lines W may make of them. `Listening` (the installed handler
listens where it must until it transfers) makes the ports in `Suits` open ones, `Worked`
brings that invariant from the steps of `handleDATA`; `Named` says what the client's
address will be parsed to before it is (and needs that an address cannot be parsed
two ways), `Known` that the origin's address is its handler's own, and `Informed`
remembers the last reply. The proof leans on `AddressesProofs`: what pftp writes into
PORT is read back by the origin, and chosen ports lie in the range. It assumes of a
setup that the file sets only fields the configuration has (`DataCommandsAssumption`).
The attempt showed two `CASE`s of the model whose arms overlapped, which TLA+ leaves
open and TLC decides by order; they are `IF`s now, as in the code.

*TLS agreement.* `IInv` is the protocol between C, W and the origin, which take turns.
`Secured` ties what is kept for the replay to the client's link (it begins with the AUTH
that encrypted it, and the origin is offered that one version); `Linked` follows the
origin's link through the replay: after its first line it has the client's version, or
there is an error. `InStep` says which lines may be under way at each place of C: none,
the one command, or its reply, with perhaps the complaint about the PROXY header
before it. `Replayed` and `Agreement` carry the level of protection: what the stored
lines will set (`Level`) is what the client was promised, and what the lines replayed
so far have set is what the origin has. `LoginLast` (a 230 comes only from an origin
switched to, and nothing is switched after it) separates a PROT that pftp answers from
one it passes on. `Greeted` is there for greetings of several lines only.

*Deadlines.* The invariant needs nothing of what the origin says or when: `Looking` (the
flag is not set between W's look at it and the deadline W sets, for only W sets it) is all
that `OriginUntimed` needs besides itself. `Timed` and `Sourced` are sums: what is left of
a deadline and the time since the last sign of life make up at least the timeout; and
`Timed` says that a client which C has not been misled about is untimed exactly
while T copies. `Sockets` and `NoCopies` (only a transfer in `Run` has copiers, a closed
handler has no sockets) let a deadline be traced from `Connect` to the copier. An
assumption that C's steps are over before T's begin would make `misled` unnecessary; the
code gives no such order, so the exception is in the properties.

*Addresses.* Integer arithmetic (`PortSplits`: quotient and remainder of a port by 256
are what the reader puts together) and cases. `MaxPort` is kept opaque where its value
does not matter.

*Server.* `CounterExact` is an argument about cardinalities: `NewClient` adds one
handler to `Counted` and `LeaveCounter` takes one away. `ServedBounded` is not
inductive, for the handler compares a number that may be old. The invariant
`AdmittedBounded` says that the counted handlers whose `connCounts` is within the
limit are no more than the limit, for the increment that gave a handler such a
number found fewer than `MaxConnections` counted; `ServedAdmitted` that only such
handlers are served; `Numbered` that a new handler is none of them. `WaitedFor`
(under server-starter nothing runs once the accept loop reports) gives
`GracefulReturn`, and `ShutdownFirst` (the listener closes only after `shutdown` is
set) gives `StopIsClean`. The refinement proof maps `NewClient` of an admitted client
to `Enter`, its `LeaveCounter` to `Leave`, and all other steps to stuttering.

Model-checked only: liveness (`AnsweredOrHung`, `EndsOrHung`, `SignalEndsServer`,
`TransferEnds`, `SilentClientEnds`), for fairness and ENABLED are out
of the prover's reach. The three `violation` runs are about what does not hold.
No module uses a RECURSIVE operator, which TLAPS could not handle, and no proof is by
induction over data.

## 5. What is not modelled, and why

* How lines are cut into commands, fields and codes (`getCommand`, `getCode`, splitting
  and trimming): the models start from fields. TOML decoding and the option setters.
* Certificates, cipher suites and session tickets: a handshake succeeds or fails, and
  has a version. Data connections have no version, and whether they use TLS is fixed
  during a transfer.
* `MasqueradeIP`, which the first handler writes into the configuration all handlers
  share, is one constant here: which of several local addresses it becomes depends on
  the network.
* TCP keepalive and linger, and the PROXY header's text.
* A middleware's effect on the address; the web API example; the logger; test servers:
  output, pure I/O and test code.
* Known weaknesses that no run shows: a TLS handshake that fails on the client side
  closes the handler while the origin side is about to dial, and what it dials is
  stored in the closed handler and stays open; a dial that returns after `Close` leaves
  its connection open (`PromptLocal` excludes both); a PORT without a parameter panics
  and is not answered.

### Hazards that no property catches

`PROJECT.json` has them with an empty list of properties and a note. In short:

* a `PROT` without a parameter that takes the one of an earlier command, and a `PROT`
  stored and applied although it was refused: both are modelled, and excluded from
  `ProtectionAgrees` by `~refused`; an AUTH, PBSZ or PROT between switch and login, by
  `~late`;
* a PROXY header that makes every later switch fail: nothing says what should happen;
* `AUTH` without a `[tls]` section and `PORT` without a parameter, which panic;
* a client side that finds its handler closed and leaves the origin side waiting;
* deadlines set, or taken away, in the two steps of `setClientDeadLine` around a
  transfer's own (`misled`), and the origin's after a late 150 (`mark`);
* data and transfer commands sent before a 150 (`Patient`);
* `MasqueradeIP`, which handlers share without a lock;
* a connection stored in a closed handler (`PromptLocal`);
* a PROT between the two reads of `needTLSForTransfer`;
* a 150 read after its transfer has ended, and the flag that stays (`EarlyMark`,
  `"aborted"`, `misled`);
* an idle or proxy timeout of 0, for which the deadline set after a transfer has passed
  already;
* a data connection's handshake without a deadline (`TransferEnds` takes it to return); the
  crash of a pipelining client described in section 3.

## 6. Plan

1. *Done.* ControlSession with OriginLink, Server with Admission, DataTransfer,
   ControlTLS, Addresses, DataCommands, Deadlines; the proofs above, with every safety
   property that a passing run checks.
2. Two transfers of one handler together with TLS and a session that ends, should the
   state space allow it; PROT during a transfer (the two reads of
   `needTLSForTransfer`).
