---------------------------- MODULE ServerProofs ----------------------------
(***************************************************************************)
(* The bound on the clients served, the exactness of the counter, the      *)
(* graceful return and the refinement of Admission, for every MaxClients   *)
(* and every MaxConnections.                                               *)
(*                                                                         *)
(* The bound is not inductive by itself.  It follows from a decision that  *)
(* is taken once, by the increment: a handler whose connCounts is at most  *)
(* MaxConnections found at most MaxConnections - 1 others counted, so that *)
(* the admitted handlers are never more than MaxConnections, and only      *)
(* admitted handlers are ever served.                                      *)
(***************************************************************************)
EXTENDS Server, FiniteSetTheorems, TLAPS

(* Handlers are numbered by clientCounter, in the order they start.        *)
Numbered == \A c \in Clients : hpc[c] = "none" <=> c > clientCounter

(* The handlers admitted by their increment fit in MaxConnections.         *)
AdmittedBounded == Admitted # {} => Cardinality(Admitted) <= MaxConnections

(* CheckMax sends on only the handlers that were admitted.                 *)
ServedAdmitted == \A c \in Served : connCounts[c] <= MaxConnections

(* Under server-starter the accept loop passes eg.Wait before it reports.  *)
WaitedFor ==
    /\ starter /\ spc \in {"Report", "SendDone", "Returned"} => Running = {}
    /\ mpc = "Returned" => spc = "Returned"

(* The listener is closed only by stop, after shutdown was set.            *)
ShutdownFirst ==
    /\ mpc = "CloseListener" \/ listener = "closed" \/ serveErr = "closed" => shutdown
    /\ groupErr # "closed"

IInv ==
    /\ TypeOK
    /\ CounterExact
    /\ Numbered
    /\ AdmittedBounded
    /\ ServedAdmitted
    /\ WaitedFor
    /\ ShutdownFirst
    /\ StopIsClean

-----------------------------------------------------------------------------
(* The sets of handlers are finite, so that their cardinalities are        *)
(* numbers and are ordered by inclusion.                                   *)

(* The handlers are finitely many.                                         *)
LEMMA ClientsFinite == IsFiniteSet(Clients)
BY FS_Interval, ServerAssumption DEF Clients

(* Any set of clients has a cardinality, which its subsets do not exceed.  *)
LEMMA SubsetCardinality ==
    ASSUME NEW S \in SUBSET Clients, NEW T \in SUBSET S
    PROVE  /\ IsFiniteSet(S) /\ IsFiniteSet(T)
           /\ Cardinality(S) \in Nat /\ Cardinality(T) \in Nat
           /\ Cardinality(T) <= Cardinality(S)
<1>1. IsFiniteSet(S)
  BY ClientsFinite, FS_Subset
<1>2. IsFiniteSet(T) /\ Cardinality(T) <= Cardinality(S)
  BY <1>1, FS_Subset
<1> QED
  BY <1>1, <1>2, FS_CardinalityType

(* Every client served was admitted, and every client admitted is counted. *)
LEMMA SetsNested ==
    ASSUME ServedAdmitted
    PROVE  Served \subseteq Admitted /\ Admitted \subseteq Counted
           /\ Counted \subseteq Clients
BY DEF ServedAdmitted, Served, Admitted, Counted

-----------------------------------------------------------------------------
(* The server starts in the invariant.                                     *)
LEMMA InitIInv == Init => IInv
<1> SUFFICES ASSUME Init PROVE IInv
  OBVIOUS
<1> USE ServerAssumption
<1>1. TypeOK
  <2>1. /\ clientCounter \in 0 .. MaxClients /\ currentConnection \in 0 .. MaxClients
        /\ connCounts \in [Clients -> 0 .. MaxClients]
        /\ spc # "NewClient"
    BY DEF Init
  <2> QED
    BY <2>1, Zenon DEF Init, TypeOK
<1>2. Counted = {} /\ Admitted = {} /\ Served = {}
  BY DEF Init, Counted, Admitted, Served
<1>3. CounterExact
  BY <1>2, FS_EmptySet DEF Init, CounterExact
<1>4. Numbered
  BY DEF Init, Numbered, Clients
<1>5. AdmittedBounded /\ ServedAdmitted /\ WaitedFor /\ ShutdownFirst /\ StopIsClean
  BY <1>2 DEF Init, AdmittedBounded, ServedAdmitted, WaitedFor, ShutdownFirst,
              StopIsClean
<1> QED
  BY <1>1, <1>3, <1>4, <1>5 DEF IInv

(* An action that moves no handler and leaves the counter alone keeps what *)
(* the invariant says of the handlers.                                     *)
LEMMA HandlersUnchanged ==
    ASSUME IInv, UNCHANGED <<hpc, connCounts, currentConnection, clientCounter>>
    PROVE  (CounterExact /\ Numbered /\ AdmittedBounded /\ ServedAdmitted)'
<1>1. UNCHANGED <<Counted, Admitted, Served>>
  BY DEF Counted, Admitted, Served
<1> QED
  BY <1>1 DEF IInv, CounterExact, Numbered, AdmittedBounded, ServedAdmitted

(* The accept loop and Start, NewClient aside.                             *)
LEMMA LoopPreserves ==
    ASSUME IInv, Accept \/ AcceptFails \/ Wait \/ Report \/ Main \/ Signal
    PROVE  IInv'
<1> USE ServerAssumption DEF IInv
<1>1. UNCHANGED <<hpc, connCounts, currentConnection, clientCounter, groupErr, starter>>
  BY DEF Accept, AcceptFails, Wait, Report, Main, TakeSignal, Stop,
         CloseListener, Done, Signal, handlerVars
<1>2. (CounterExact /\ Numbered /\ AdmittedBounded /\ ServedAdmitted)'
  BY <1>1, HandlersUnchanged
<1>3. TypeOK'
  <2> USE DEF TypeOK, Clients, handlerVars, startVars, serveVars
  <2>1. CASE Accept \/ Signal
    BY <2>1 DEF Accept, Signal
  <2>2. CASE AcceptFails
    BY <2>2 DEF AcceptFails
  <2>3. CASE Wait \/ Report
    BY <2>3 DEF Wait, Report
  <2>4. CASE Main
    BY <2>4 DEF Main, TakeSignal, Stop, CloseListener, Done
  <2> QED
    BY <2>1, <2>2, <2>3, <2>4
<1>4. WaitedFor'
  BY DEF TypeOK, WaitedFor, Running, Accept, AcceptFails, Wait, Report, Main,
         TakeSignal, Stop, CloseListener, Done, Signal, handlerVars,
         startVars, serveVars
<1>5. (ShutdownFirst /\ StopIsClean)'
  BY DEF TypeOK, ShutdownFirst, StopIsClean, Accept, AcceptFails, Wait, Report,
         Main, TakeSignal, Stop, CloseListener, Done, Signal, handlerVars,
         startVars, serveVars
<1> QED
  BY <1>2, <1>3, <1>4, <1>5

(* The new handler is counted, and admitted only if it finds room.         *)
LEMMA NewClientPreserves ==
    ASSUME IInv, NewClient
    PROVE  IInv'
<1> USE ServerAssumption DEF IInv
<1> DEFINE c == clientCounter + 1
<1>1. c \in Clients /\ hpc[c] = "none" /\ c \notin Counted
  BY DEF TypeOK, NewClient, Clients, Numbered, Counted
<1>2. /\ hpc' = [hpc EXCEPT ![c] = "Check"]
      /\ connCounts' = [connCounts EXCEPT ![c] = currentConnection + 1]
      /\ currentConnection' = currentConnection + 1
      /\ UNCHANGED <<groupErr, starter, startVars, serveErr, listener>>
      /\ spc = "NewClient" /\ spc' = "Accept" /\ clientCounter' = c
  BY DEF NewClient
<1>3. Counted' = Counted \cup {c}
  BY <1>1, <1>2 DEF TypeOK, Counted
<1>4. Admitted' = IF currentConnection + 1 <= MaxConnections
                  THEN Admitted \cup {c} ELSE Admitted
  BY <1>1, <1>2, <1>3 DEF TypeOK, Admitted, Counted
<1>5. /\ IsFiniteSet(Counted) /\ Cardinality(Counted) \in Nat
      /\ IsFiniteSet(Admitted) /\ Cardinality(Admitted) \in Nat
      /\ Cardinality(Admitted) <= Cardinality(Counted)
  BY SubsetCardinality, SetsNested
<1>6. Cardinality(Counted') = Cardinality(Counted) + 1
  BY <1>1, <1>3, <1>5, FS_AddElement
<1>7. CounterExact'
  BY <1>2, <1>6 DEF CounterExact
<1>8. AdmittedBounded'
  <2>1. CASE currentConnection + 1 <= MaxConnections
    <3> DEFINE A == Admitted
    <3>0. Admitted' = A \cup {c}
      BY <1>4, <2>1
    <3>1. Cardinality(Admitted') <= Cardinality(A) + 1
      <4> IsFiniteSet(A) /\ Cardinality(A) \in Nat
        BY <1>5
      <4> HIDE DEF A
      <4>1. Cardinality(A \cup {c}) = IF c \in A THEN Cardinality(A) ELSE Cardinality(A) + 1
        BY FS_AddElement
      <4> QED
        BY <3>0, <4>1
    <3>2. Cardinality(Admitted') \in Nat
      BY <1>4, <1>5, <2>1, FS_AddElement, FS_CardinalityType
    <3> QED
      BY <1>5, <2>1, <3>1, <3>2 DEF AdmittedBounded, CounterExact
  <2>2. CASE ~(currentConnection + 1 <= MaxConnections)
    BY <1>4, <2>2 DEF AdmittedBounded
  <2> QED
    BY <2>1, <2>2
<1>9. currentConnection' \in 0 .. MaxClients
  <2>1. Counted' \in SUBSET Clients
    BY DEF Counted, Clients
  <2>2. IsFiniteSet(Counted') /\ Cardinality(Counted') <= Cardinality(Clients)
    BY <2>1, ClientsFinite, FS_Subset
  <2>3. Cardinality(Clients) = MaxClients
    BY FS_Interval DEF Clients
  <2> QED
    BY <1>7, <2>2, <2>3, FS_CardinalityType DEF CounterExact
<1>10. TypeOK'
  BY <1>1, <1>2, <1>9 DEF TypeOK, Clients, startVars
<1>11. Numbered'
  BY <1>1, <1>2 DEF TypeOK, Numbered, Clients
<1>12. ServedAdmitted'
  BY <1>1, <1>2 DEF TypeOK, ServedAdmitted, Served
<1>13. (WaitedFor /\ ShutdownFirst /\ StopIsClean)'
  BY <1>2 DEF WaitedFor, ShutdownFirst, StopIsClean, startVars
<1> QED
  BY <1>7, <1>8, <1>10, <1>11, <1>12, <1>13

(* A handler that moves from one counted state to another, or from Close   *)
(* to Gone, changes neither Counted nor Admitted.                          *)
LEMMA HandlerMoves ==
    ASSUME IInv, NEW c \in Clients,
           CheckMax(c) \/ Refuse(c) \/ ConnectProxy(c) \/ SessionOver(c) \/ CloseClient(c)
    PROVE  IInv'
<1> USE ServerAssumption DEF IInv
<1> USE DEF CheckMax, Refuse, ConnectProxy, SessionOver, CloseClient, Goto
<1>1. UNCHANGED <<connCounts, currentConnection, clientCounter, starter,
                  listener, serveVars, startVars>>
  BY DEF FirstError
<1>2. /\ hpc[c] \notin {"none", "Gone"} /\ c \in Running
      /\ \E to \in {"Refuse", "Connect", "Session", "Leave", "Gone"} :
           /\ hpc' = [hpc EXCEPT ![c] = to]
           /\ to = "Gone" <=> hpc[c] = "Close"
           /\ to \in {"Connect", "Session"} =>
                connCounts[c] <= MaxConnections \/ c \in Served
  BY DEF TypeOK, Running, Served, FirstError
<1>3. groupErr' \in {"nil", "accept", "closed", "client", "stop"}
      /\ (groupErr' = "closed" => groupErr = "closed")
  BY DEF TypeOK, FirstError
<1>4. TypeOK'
  BY <1>1, <1>2, <1>3 DEF TypeOK, serveVars, startVars
<1>5. UNCHANGED <<Counted, Admitted>>
  <2>1. UNCHANGED Counted
    BY <1>2 DEF TypeOK, Counted
  <2> QED
    BY <1>1, <2>1 DEF Admitted
<1>6. (CounterExact /\ AdmittedBounded)'
  BY <1>1, <1>5 DEF CounterExact, AdmittedBounded
<1>7. (Numbered /\ ServedAdmitted)'
  BY <1>1, <1>2, <1>5 DEF TypeOK, Numbered, ServedAdmitted, Served
<1>8. WaitedFor'
  BY <1>1, <1>2 DEF TypeOK, WaitedFor, Running, serveVars, startVars
<1>9. (ShutdownFirst /\ StopIsClean)'
  BY <1>1, <1>3 DEF ShutdownFirst, StopIsClean, serveVars, startVars
<1> QED
  BY <1>4, <1>6, <1>7, <1>8, <1>9

(* The handler that leaves takes itself off the counter, once.             *)
LEMMA LeaveCounterPreserves ==
    ASSUME IInv, NEW c \in Clients, LeaveCounter(c)
    PROVE  IInv'
<1> USE ServerAssumption DEF IInv
<1>1. /\ hpc[c] = "Leave" /\ hpc' = [hpc EXCEPT ![c] = "Close"]
      /\ currentConnection' = currentConnection - 1
      /\ UNCHANGED <<connCounts, clientCounter, starter, listener, groupErr,
                     serveVars, startVars>>
  BY DEF LeaveCounter, Goto
<1>2. c \in Counted /\ c \in Running
  BY <1>1 DEF Counted, Running
<1>3. Counted' = Counted \ {c} /\ Admitted' = Admitted \ {c}
  BY <1>1 DEF TypeOK, Counted, Admitted
<1>4. /\ IsFiniteSet(Counted) /\ Cardinality(Counted) \in Nat
      /\ IsFiniteSet(Admitted) /\ Cardinality(Admitted) \in Nat
  BY SubsetCardinality, SetsNested
<1>5. Cardinality(Counted') = Cardinality(Counted) - 1
      /\ Cardinality(Counted') \in Nat
  BY <1>2, <1>3, <1>4, FS_RemoveElement, FS_CardinalityType
<1>6. CounterExact' /\ currentConnection' \in 0 .. MaxClients
  BY <1>1, <1>5 DEF CounterExact, TypeOK
<1>7. AdmittedBounded'
  <2>1. Cardinality(Admitted') <= Cardinality(Admitted)
        /\ Cardinality(Admitted') \in Nat
    BY <1>3, <1>4, FS_RemoveElement, FS_CardinalityType
  <2> QED
    BY <1>3, <1>4, <2>1 DEF AdmittedBounded
<1>8. TypeOK'
  BY <1>1, <1>6 DEF TypeOK, serveVars, startVars
<1>9. (Numbered /\ ServedAdmitted)'
  BY <1>1 DEF TypeOK, Numbered, ServedAdmitted, Served
<1>10. WaitedFor'
  BY <1>1, <1>2 DEF WaitedFor, serveVars, startVars
<1>11. (ShutdownFirst /\ StopIsClean)'
  BY <1>1 DEF ShutdownFirst, StopIsClean, serveVars, startVars
<1> QED
  BY <1>6, <1>7, <1>8, <1>9, <1>10, <1>11

(* A stuttering step keeps it.                                             *)
LEMMA StutterPreserves ==
    ASSUME IInv, UNCHANGED vars
    PROVE  IInv'
<1>1. (CounterExact /\ Numbered /\ AdmittedBounded /\ ServedAdmitted)'
  BY HandlersUnchanged DEF vars, handlerVars
<1> QED
  BY <1>1 DEF IInv, TypeOK, WaitedFor, Running, ShutdownFirst, StopIsClean,
              vars, handlerVars, serveVars, startVars

(* The invariant is inductive.                                             *)
LEMMA NextIInv == IInv /\ [Next]_vars => IInv'
<1> SUFFICES ASSUME IInv, [Next]_vars PROVE IInv'
  OBVIOUS
<1>1. CASE NewClient
  BY <1>1, NewClientPreserves
<1>2. CASE Accept \/ AcceptFails \/ Wait \/ Report \/ Main \/ Signal
  BY <1>2, LoopPreserves
<1>3. ASSUME NEW c \in Clients, Handler(c) PROVE IInv'
  <2>1. CASE LeaveCounter(c)
    BY <2>1, LeaveCounterPreserves
  <2>2. CASE CheckMax(c) \/ Refuse(c) \/ ConnectProxy(c) \/ SessionOver(c) \/ CloseClient(c)
    BY <2>2, HandlerMoves
  <2> QED
    BY <1>3, <2>1, <2>2 DEF Handler
<1>4. CASE UNCHANGED vars
  BY <1>4, StutterPreserves
<1> QED
  BY <1>1, <1>2, <1>3, <1>4 DEF Next, Serve, Terminated

(* Every reachable state of serve, Start and the handlers satisfies it.    *)
THEOREM Invariance == Spec => []IInv
BY InitIInv, NextIInv, PTL DEF Spec

-----------------------------------------------------------------------------
(* What the runs check, for every value of the constants.                  *)

(* The types of Server's variables; the counter is never negative.         *)
THEOREM TypeCorrect == Spec => []TypeOK
<1>1. IInv => TypeOK
  BY DEF IInv
<1> QED
  BY <1>1, Invariance, PTL

(* currentConnection is the number of handlers between newClientHandler    *)
(* and the deferred decrement of handleCommands.                           *)
THEOREM CounterCorrect == Spec => []CounterExact
<1>1. IInv => CounterExact
  BY DEF IInv
<1> QED
  BY <1>1, Invariance, PTL

(* handleCommands serves at most MaxConnections clients at a time.         *)
THEOREM ServiceBounded == Spec => []ServedBounded
<1>1. IInv => ServedBounded
  <2> SUFFICES ASSUME IInv, Served # {} PROVE Cardinality(Served) <= MaxConnections
    BY DEF ServedBounded
  <2>1. Served \subseteq Admitted /\ Admitted \in SUBSET Clients
    BY SetsNested DEF IInv
  <2>2. Cardinality(Served) <= Cardinality(Admitted)
        /\ Cardinality(Served) \in Nat /\ Cardinality(Admitted) \in Nat
    BY <2>1, SubsetCardinality
  <2>3. Cardinality(Admitted) <= MaxConnections
    BY <2>1 DEF IInv, AdmittedBounded
  <2> QED
    BY <2>2, <2>3, ServerAssumption
<1> QED
  BY <1>1, Invariance, PTL

(* Under server-starter Start returns only when no handler is running.     *)
THEOREM GracefulShutdown == Spec => []GracefulReturn
<1>1. IInv => GracefulReturn
  BY DEF IInv, WaitedFor, GracefulReturn
<1> QED
  BY <1>1, Invariance, PTL

(* Start never returns the error of an accept that stop made fail.         *)
THEOREM CleanStop == Spec => []StopIsClean
<1>1. IInv => StopIsClean
  BY DEF IInv
<1> QED
  BY <1>1, Invariance, PTL

-----------------------------------------------------------------------------
(* The server implements Admission: the increment of an admitted handler   *)
(* enters the room, its decrement leaves it, and every other step stutters.*)

(* The room is empty when the server starts.                               *)
LEMMA InitRoom == Init => Room!Init
BY DEF Init, Room!Init, Admitted, Departed, Counted

(* An admitted handler finds the room not full, for the counter counts at  *)
(* least the handlers in it.                                               *)
LEMMA EnterRoom ==
    ASSUME IInv, NewClient
    PROVE  [Room!Next]_<<Admitted, Departed>>
<1> USE ServerAssumption DEF IInv
<1> DEFINE c == clientCounter + 1
<1>1. c \in Clients /\ hpc[c] = "none"
  BY DEF TypeOK, NewClient, Clients, Numbered
<1>2. /\ hpc' = [hpc EXCEPT ![c] = "Check"]
      /\ connCounts' = [connCounts EXCEPT ![c] = currentConnection + 1]
  BY DEF NewClient
<1>3. Departed' = Departed /\ c \notin Departed /\ c \notin Admitted
  BY <1>1, <1>2 DEF TypeOK, Departed, Admitted, Counted
<1>4. Admitted' = IF currentConnection + 1 <= MaxConnections
                  THEN Admitted \cup {c} ELSE Admitted
  BY <1>1, <1>2 DEF TypeOK, Admitted, Counted
<1>5. CASE currentConnection + 1 <= MaxConnections
  <2>1. /\ Cardinality(Counted) \in Nat /\ Cardinality(Admitted) \in Nat
        /\ Cardinality(Admitted) <= Cardinality(Counted)
    BY SubsetCardinality, SetsNested
  <2>2. Cardinality(Admitted) < MaxConnections
    BY <1>5, <2>1 DEF CounterExact, TypeOK
  <2>3. Room!Enter(c)
    <3>1. Admitted' = Admitted \cup {c}
      BY <1>4, <1>5
    <3>2. c \notin Admitted \cup Departed /\ UNCHANGED Departed
      BY <1>3
    <3> HIDE DEF c
    <3>3. Room!Cardinality(Admitted) < MaxConnections
      BY <2>2, Zenon DEF Room!Cardinality, Cardinality
    <3> QED
      BY <3>1, <3>2, <3>3 DEF Room!Enter
  <2> QED
    BY <1>1, <2>3 DEF Room!Next
<1>6. CASE ~(currentConnection + 1 <= MaxConnections)
  BY <1>3, <1>4, <1>6
<1> QED
  BY <1>5, <1>6

(* The decrement of an admitted handler gives its place back.              *)
LEMMA LeaveRoom ==
    ASSUME IInv, NEW c \in Clients, LeaveCounter(c)
    PROVE  [Room!Next]_<<Admitted, Departed>>
<1> USE ServerAssumption DEF IInv
<1>1. /\ hpc[c] = "Leave" /\ hpc' = [hpc EXCEPT ![c] = "Close"]
      /\ UNCHANGED connCounts
  BY DEF LeaveCounter, Goto
<1>2. CASE connCounts[c] <= MaxConnections
  <2>1. c \in Admitted /\ Admitted' = Admitted \ {c} /\ Departed' = Departed \cup {c}
    BY <1>1, <1>2 DEF TypeOK, Admitted, Departed, Counted
  <2> QED
    BY <2>1 DEF Room!Next, Room!Leave
<1>3. CASE ~(connCounts[c] <= MaxConnections)
  BY <1>1, <1>3 DEF TypeOK, Admitted, Departed, Counted
<1> QED
  BY <1>2, <1>3

(* Every other step of a handler stays inside or outside the room.         *)
LEMMA StayInRoom ==
    ASSUME IInv, NEW c \in Clients,
           CheckMax(c) \/ Refuse(c) \/ ConnectProxy(c) \/ SessionOver(c) \/ CloseClient(c)
    PROVE  UNCHANGED <<Admitted, Departed>>
<1> USE ServerAssumption DEF IInv
<1> USE DEF CheckMax, Refuse, ConnectProxy, SessionOver, CloseClient, Goto
<1>1. UNCHANGED connCounts
  OBVIOUS
<1>2. /\ hpc[c] \notin {"none", "Gone"}
      /\ \E to \in {"Refuse", "Connect", "Session", "Leave", "Gone"} :
           /\ hpc' = [hpc EXCEPT ![c] = to]
           /\ to = "Gone" <=> hpc[c] = "Close"
  BY DEF TypeOK
<1> QED
  BY <1>1, <1>2 DEF TypeOK, Admitted, Departed, Counted

(* Every step of the server is a step of the room or a stutter.            *)
LEMMA NextRoom == IInv /\ [Next]_vars => [Room!Next]_<<Admitted, Departed>>
<1> SUFFICES ASSUME IInv, [Next]_vars PROVE [Room!Next]_<<Admitted, Departed>>
  OBVIOUS
<1>1. CASE NewClient
  BY <1>1, EnterRoom
<1>2. ASSUME NEW c \in Clients, Handler(c) PROVE [Room!Next]_<<Admitted, Departed>>
  BY <1>2, LeaveRoom, StayInRoom DEF Handler
<1>3. CASE UNCHANGED <<hpc, connCounts>>
  BY <1>3 DEF Admitted, Departed, Counted
<1> QED
  BY <1>1, <1>2, <1>3
  DEF Next, Serve, Main, Terminated, vars, handlerVars, Accept, AcceptFails,
      Wait, Report, TakeSignal, Stop, CloseListener, Done, Signal

(* For every number of clients and every MaxConnections, each behaviour of *)
(* the counter and the handlers is one that Admission allows.              *)
THEOREM ImplementsAdmission == Spec => AdmissionSpec
BY InitRoom, NextRoom, Invariance, PTL DEF Spec, AdmissionSpec, Room!Spec

=============================================================================
