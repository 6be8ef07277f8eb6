------------------------------- MODULE Server -------------------------------
(***************************************************************************)
(* FtpServer: the accept loop (serve), the goroutine of Start that waits   *)
(* for a signal, and one handleCommands goroutine for every client, which  *)
(* all share the counter currentConnection.                                *)
(*                                                                         *)
(* A handler keeps the value the counter had after its own increment       *)
(* (connCounts), is refused when that exceeds config.MaxConnections, and   *)
(* takes itself off the counter when it leaves, refused or not.  What it   *)
(* does in between is the subject of ControlSession; here it is one state, *)
(* "Session".  Clients are numbered by clientCounter.                      *)
(***************************************************************************)
EXTENDS Integers, FiniteSets

CONSTANTS
    MaxClients,         \* bound: connections the listener accepts
    MaxConnections      \* config.MaxConnections

ASSUME ServerAssumption == MaxClients \in Nat /\ MaxConnections \in Int

Clients == 1 .. MaxClients

VARIABLES
    starter,            \* SERVER_STARTER_PORT is set
    listener, shutdown, \* FtpServer
    clientCounter,
    spc, serveErr,      \* serve, and the goroutine of Start that calls it
    mpc, lastError,     \* Start
    signal,             \* a SIGHUP or SIGTERM waits in ch
    currentConnection,
    hpc, connCounts,    \* the handlers
    groupErr            \* the errgroup's first error

serveVars   == <<spc, serveErr>>
startVars   == <<mpc, lastError, signal, shutdown>>
handlerVars == <<hpc, connCounts, groupErr>>
vars == <<starter, listener, clientCounter, currentConnection,
          serveVars, startVars, handlerVars>>

Init ==
    /\ starter \in BOOLEAN
    /\ listener = "open" /\ shutdown = FALSE
    /\ clientCounter = 0
    /\ spc = "Accept" /\ serveErr = "nil"
    /\ mpc = "AwaitSignal" /\ lastError = "nil"
    /\ signal = FALSE
    /\ currentConnection = 0
    /\ hpc = [c \in Clients |-> "none"]
    /\ connCounts = [c \in Clients |-> 0]
    /\ groupErr = "nil"

(* Handlers that the counter counts, and those whose goroutine has ended.  *)
Counted == {c \in Clients :
              hpc[c] \in {"Check", "Refuse", "Connect", "Session", "Leave"}}
Running == {c \in Clients : hpc[c] \notin {"none", "Gone"}}

-----------------------------------------------------------------------------
(* The accept loop.                                                        *)

(* Accept returns a connection.                                            *)
Accept ==
    /\ spc = "Accept" /\ listener = "open" /\ clientCounter < MaxClients
    /\ spc' = "NewClient"
    /\ UNCHANGED <<starter, listener, clientCounter, currentConnection,
                   serveErr, startVars, handlerVars>>

(* Mutant of NewClient: the handler keeps the counter's old value.         *)
NewClientOldValue ==
    /\ spc = "NewClient"
    /\ clientCounter' = clientCounter + 1
    /\ currentConnection' = currentConnection + 1
    /\ connCounts' = [connCounts EXCEPT ![clientCounter + 1] = currentConnection]
    /\ hpc' = [hpc EXCEPT ![clientCounter + 1] = "Check"]
    /\ spc' = "Accept"
    /\ UNCHANGED <<starter, listener, serveErr, startVars, groupErr>>

(* newClientHandler: atomic.AddInt32 and its result; then eg.Go.           *)
NewClient ==
    /\ spc = "NewClient"
    /\ clientCounter' = clientCounter + 1
    /\ currentConnection' = currentConnection + 1
    /\ connCounts' = [connCounts EXCEPT ![clientCounter + 1] = currentConnection']
    /\ hpc' = [hpc EXCEPT ![clientCounter + 1] = "Check"]
    /\ spc' = "Accept"
    /\ UNCHANGED <<starter, listener, serveErr, startVars, groupErr>>

(* Mutants of AcceptFails: under server-starter serve returns at once, or  *)
(* goes on to accept.                                                      *)
AcceptFailsReturns ==
    /\ spc = "Accept"
    /\ serveErr' = IF listener = "closed" THEN "closed" ELSE "accept"
    /\ spc' = "Report"
    /\ UNCHANGED <<starter, listener, clientCounter, currentConnection,
                   startVars, handlerVars>>

AcceptFailsRetries ==
    /\ spc = "Accept"
    /\ IF starter
       THEN UNCHANGED <<spc, serveErr>>
       ELSE /\ spc' = "Report"
            /\ serveErr' = IF listener = "closed" THEN "closed" ELSE "accept"
    /\ UNCHANGED <<starter, listener, clientCounter, currentConnection,
                   startVars, handlerVars>>

(* Accept fails, because stop closed the listener or for a reason of its   *)
(* own (out of descriptors, say): under server-starter the loop is left    *)
(* for eg.Wait, otherwise serve returns and the handlers go on.            *)
AcceptFails ==
    /\ spc = "Accept"
    /\ IF starter
       THEN spc' = "Wait" /\ UNCHANGED serveErr
       ELSE /\ spc' = "Report"
            /\ serveErr' = IF listener = "closed" THEN "closed" ELSE "accept"
    /\ UNCHANGED <<starter, listener, clientCounter, currentConnection,
                   startVars, handlerVars>>

(* eg.Wait.                                                                *)
Wait ==
    /\ spc = "Wait" /\ Running = {}
    /\ serveErr' = groupErr
    /\ spc' = "Report"
    /\ UNCHANGED <<starter, listener, clientCounter, currentConnection,
                   startVars, handlerVars>>

(* if !server.shutdown { lastError = err }                                 *)
Report ==
    /\ spc = "Report"
    /\ lastError' = IF serveErr # "nil" /\ ~shutdown THEN serveErr ELSE lastError
    /\ spc' = "SendDone"
    /\ UNCHANGED <<starter, listener, clientCounter, currentConnection,
                   serveErr, mpc, signal, shutdown, handlerVars>>

-----------------------------------------------------------------------------
(* Start and stop.                                                         *)

TakeSignal ==
    /\ mpc = "AwaitSignal" /\ signal
    /\ signal' = FALSE
    /\ mpc' = "Stop"
    /\ UNCHANGED <<starter, listener, clientCounter, currentConnection,
                   serveVars, lastError, shutdown, handlerVars>>

(* Mutant of Stop: the listener is closed before shutdown is set.          *)
StopClosesFirst ==
    /\ mpc = "Stop"
    /\ listener' = "closed"
    /\ shutdown' = (listener = "closed")
    /\ mpc' = IF listener = "closed" THEN "CloseListener" ELSE "Stop"
    /\ UNCHANGED <<starter, clientCounter, currentConnection, serveVars,
                   lastError, signal, handlerVars>>

(* stop: server.shutdown = true, then server.listener.Close().             *)
Stop ==
    /\ mpc = "Stop"
    /\ shutdown' = TRUE
    /\ mpc' = "CloseListener"
    /\ UNCHANGED <<starter, listener, clientCounter, currentConnection,
                   serveVars, lastError, signal, handlerVars>>

(* The listener is closed even when Close returns an error, which becomes  *)
(* what Start returns.                                                     *)
CloseListener ==
    /\ mpc = "CloseListener"
    /\ listener' = "closed"
    /\ \E err \in {lastError, "stop"} : lastError' = err
    /\ mpc' = "AwaitDone"
    /\ UNCHANGED <<starter, clientCounter, currentConnection, serveVars,
                   signal, shutdown, handlerVars>>

(* done <- struct{}{} meets <-done, and Start returns lastError.           *)
Done ==
    /\ spc = "SendDone" /\ mpc = "AwaitDone"
    /\ spc' = "Returned" /\ mpc' = "Returned"
    /\ UNCHANGED <<starter, listener, clientCounter, currentConnection,
                   serveErr, lastError, signal, shutdown, handlerVars>>

(* signal.Notify does not block: a signal that finds ch full is dropped.   *)
Signal ==
    /\ ~signal
    /\ signal' = TRUE
    /\ UNCHANGED <<starter, listener, clientCounter, currentConnection,
                   serveVars, mpc, lastError, shutdown, handlerVars>>

-----------------------------------------------------------------------------
(* handleCommands of client c.                                             *)

Goto(c, from, to) ==
    /\ hpc[c] = from
    /\ hpc' = [hpc EXCEPT ![c] = to]
    /\ UNCHANGED <<starter, listener, clientCounter, serveVars, startVars,
                   connCounts>>

FirstError(err) == groupErr' = IF groupErr = "nil" THEN err ELSE groupErr

CheckMax(c) ==
    /\ Goto(c, "Check", IF connCounts[c] > MaxConnections
                        THEN "Refuse" ELSE "Connect")
    /\ UNCHANGED <<currentConnection, groupErr>>

(* The 530 is written (or cannot be), and the handler returns its error.   *)
Refuse(c) ==
    /\ Goto(c, "Refuse", "Leave")
    /\ UNCHANGED <<currentConnection, groupErr>>

(* connectProxy: the default origin is dialled.                            *)
ConnectProxy(c) ==
    /\ \E to \in {"Session", "Leave"} : Goto(c, "Connect", to)
    /\ UNCHANGED <<currentConnection, groupErr>>

(* eg.Wait of the session's two goroutines.                                *)
SessionOver(c) ==
    /\ Goto(c, "Session", "Leave")
    /\ UNCHANGED <<currentConnection, groupErr>>

(* Mutant of LeaveCounter: a refused handler never counted itself out.     *)
LeaveCounterUnlessRefused(c) ==
    /\ Goto(c, "Leave", "Close")
    /\ currentConnection' = IF connCounts[c] > MaxConnections
                            THEN currentConnection ELSE currentConnection - 1
    /\ UNCHANGED groupErr

(* The deferred function: the counter first, the connections after it.     *)
LeaveCounter(c) ==
    /\ Goto(c, "Leave", "Close")
    /\ currentConnection' = currentConnection - 1
    /\ UNCHANGED groupErr

(* Mutant of CloseClient: a client that is gone is counted out again.      *)
CloseClientCountsOut(c) ==
    /\ Goto(c, "Close", "Gone")
    /\ FirstError("client")
    /\ currentConnection' = currentConnection - 1

(* The goroutine ends, with an error or without.                           *)
CloseClient(c) ==
    /\ Goto(c, "Close", "Gone")
    /\ \E err \in {"nil", "client"} :
         /\ connCounts[c] > MaxConnections => err = "client"
         /\ FirstError(err)
    /\ UNCHANGED currentConnection

Handler(c) ==
    \/ CheckMax(c) \/ Refuse(c) \/ ConnectProxy(c) \/ SessionOver(c)
    \/ LeaveCounter(c) \/ CloseClient(c)

Serve == NewClient \/ AcceptFails \/ Wait \/ Report
Main  == TakeSignal \/ Stop \/ CloseListener \/ Done

(* Sessions that are left when Start has returned go on until the program  *)
(* exits, which main does at once.                                         *)
Terminated == mpc = "Returned" /\ Running = {} /\ UNCHANGED vars

Next ==
    \/ Accept \/ Serve \/ Main \/ Signal
    \/ \E c \in Clients : Handler(c)
    \/ Terminated

Spec == Init /\ [][Next]_vars

(* Goroutines that can run do, and Accept fails once the listener is       *)
(* closed.  A session may last for ever: SessionOver has no fairness.      *)
Fairness ==
    /\ WF_vars(NewClient) /\ WF_vars(listener = "closed" /\ AcceptFails)
    /\ WF_vars(Wait) /\ WF_vars(Report) /\ WF_vars(Main)
    /\ \A c \in Clients : WF_vars(Handler(c) /\ ~SessionOver(c))

FairSpec == Spec /\ Fairness

-----------------------------------------------------------------------------
(* Properties.                                                             *)

TypeOK ==
    /\ starter \in BOOLEAN
    /\ listener \in {"open", "closed"} /\ shutdown \in BOOLEAN
    /\ clientCounter \in 0 .. MaxClients
    /\ spc \in {"Accept", "NewClient", "Wait", "Report", "SendDone", "Returned"}
    /\ spc = "NewClient" => clientCounter < MaxClients
    /\ mpc \in {"AwaitSignal", "Stop", "CloseListener", "AwaitDone", "Returned"}
    /\ {serveErr, lastError, groupErr}
         \subseteq {"nil", "accept", "closed", "client", "stop"}
    /\ signal \in BOOLEAN
    /\ currentConnection \in 0 .. MaxClients
    /\ hpc \in [Clients -> {"none", "Check", "Refuse", "Connect", "Session",
                            "Leave", "Close", "Gone"}]
    /\ connCounts \in [Clients -> 0 .. MaxClients]

(* However accepts, refusals and departures interleave, no more clients    *)
(* than MaxConnections are served at once.                                 *)
Served == {c \in Clients : hpc[c] \in {"Connect", "Session"}}
ServedBounded == Served # {} => Cardinality(Served) <= MaxConnections

(* The counter is the number of handlers between newClientHandler and the  *)
(* deferred decrement of handleCommands: nothing is counted twice or lost. *)
CounterExact == currentConnection = Cardinality(Counted)

(* Under server-starter Start returns only after every session has ended.  *)
GracefulReturn == mpc = "Returned" /\ starter => Running = {}

(* Closing the listener on a signal is not an error: Start returns the     *)
(* accept loop's error only if the loop failed before the signal.          *)
StopIsClean == lastError # "closed"

(* A signal ends the server, even in the middle of an accept.  Without     *)
(* server-starter it does so whatever the sessions do; with it the server  *)
(* waits for them, and ends if every session ends, however late and in     *)
(* whatever order.                                                         *)
SessionsEnd == \A c \in Clients : []<>(hpc[c] # "Session")
SignalEndsServer == (starter => SessionsEnd) => (mpc = "Stop" ~> mpc = "Returned")

(* The admission of clients as an outsider sees it: Admission.             *)
Admitted == {c \in Counted : connCounts[c] <= MaxConnections}
Departed == {c \in Clients : /\ hpc[c] \in {"Close", "Gone"}
                             /\ connCounts[c] <= MaxConnections}
Room == INSTANCE Admission WITH inside <- Admitted, left <- Departed
AdmissionSpec == Room!Spec

=============================================================================
