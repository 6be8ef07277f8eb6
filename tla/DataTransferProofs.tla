------------------------- MODULE DataTransferProofs -------------------------
(***************************************************************************)
(* For any number of data handlers and transfers, any client, any schedule *)
(* and a session that may end at any step: a copying goroutine never uses  *)
(* a connection that is not there, and when the session has ended no port  *)
(* of a handler is still listened on.                                      *)
(*                                                                         *)
(* For a client that ends one transfer before the next: one data           *)
(* connection at a time, and nothing cut off; no socket is left, when no   *)
(* connection is made or stored late.  For any client: the session is not  *)
(* marked as busy for ever, unless the origin gives a transfer up after    *)
(* its 150.                                                                *)
(***************************************************************************)
EXTENDS DataTransfer, FiniteSetTheorems, SequenceTheorems, TLAPS

(* The bounds leave room for what C is about to make, and what it has made *)
(* is there.                                                               *)
Places ==
    /\ cpc = "NewHandler" => created < MaxHandlers
    /\ cpc \in {"Destroy", "Install"} => created # None
    /\ cpc = "CheckStarted" => started < MaxTransfers /\ current # None
    /\ cpc = "SendData" => current # None

(* A transfer has its handler from the moment its goroutines exist.        *)
Owned == \A t \in Transfers :
    /\ owner[t] <= created
    /\ t > started => owner[t] = None
    /\ owner[t] = None => /\ tpc[t] = "None"
                          /\ \A s \in Sides : dpc[t][s] = "None" /\ kpc[t][s] = "None"

(* Unless the handler has been closed, a side that has connected finds a   *)
(* connection stored.  The origin side of a failed client side returns nil *)
(* and has none.                                                           *)
StoredAt(t, s) ==
    /\ owner[t] # None /\ ~closed[owner[t]]
    /\ dpc[t][s] \in {"CheckTLS", "Handshake", "Wrapped", "OK"}
    => \/ dataConn[owner[t]][s] # None
       \/ s = "origin" /\ dpc[t]["client"] \in {"Close", "Err"}
Stored == \A t \in Transfers, s \in Sides : StoredAt(t, s)

(* The copies start only when both sides have connected.                   *)
Joined == \A t \in Transfers, s \in Sides :
    kpc[t][s] # "None" => \A r \in Sides : dpc[t][r] = "OK"

(* A copier that finds its handler open was given both connections.        *)
Given == \A t \in Transfers, s \in Sides :
    kpc[t][s] = "Check" /\ ~closed[owner[t]]
      => \A r \in Sides : kconn[t][s][r] # None

CopyInv == Owned /\ Stored /\ Joined /\ Given /\ CopierHasConns

(* A handler that is closed listens nowhere; of the others, only the       *)
(* installed one and the one about to be.                                  *)
Listening ==
    /\ \A h \in Handlers : h > created => ~closed[h]
    /\ \A h \in Handlers, s \in Sides : listener[h][s] = "open" =>
         /\ ~closed[h]
         /\ \/ h = current /\ cpc # "Install"
            \/ h = created /\ cpc \in {"Destroy", "Install"}

(* Once the proxy has closed its handler, one that is installed later is   *)
(* closed by the command that installed it.                                *)
Ended == rpc = "Done" /\ cpc # "SendData" /\ current # None => closed[current]

IInv == TypeOK /\ Places /\ CopyInv /\ Listening /\ Ended


LEMMA Bounds == MaxHandlers \in Nat /\ MaxTransfers \in Nat /\ MaxChunks \in Nat
BY DataAssumption

USE Bounds DEF None, PerSide, Refused

LEMMA InitInv == Init => IInv
<1>1. Init => SessionTypes
  <2>1. <<>> \in Seq({"150", "226", "550"})
    OBVIOUS
  <2>2. Init => fromOrigin \in Seq({"150", "226", "550"})
    BY <2>1 DEF Init
  <2>3. Init => job \in [Transfers -> {"none", "sent", "marked", "refused", "aborted",
                                   "finished"}]
    BY DEF Init
  <2>4. Init => /\ cpc = "Read" /\ rpc = "Run" /\ current = 0 /\ created = 0
                /\ started = 0 /\ awaiting \in BOOLEAN
    BY DEF Init
  <2>5. QED
    BY <2>2, <2>3, <2>4 DEF SessionTypes
<1>2. Init => HandlerTypes
  <2>1. Init => inDataTransfer \in BOOLEAN
    BY DEF Init
  <2>6. Init => closed \in [Handlers -> BOOLEAN]
    BY DEF Init
  <2>2. Init => needsListen \in [Handlers -> [Sides -> BOOLEAN]]
    BY DEF Init
  <2>3. Init => listener \in [Handlers -> [Sides -> {"none", "open", "closed"}]]
    BY DEF Init
  <2>4. Init => dataConn \in [Handlers -> [Sides -> 0 .. MaxTransfers]]
    BY DEF Init
  <2>5. Init => sock \in [Transfers -> [Sides -> {"none", "open", "half", "closed"}]]
    BY DEF Init
  <2>7. QED
    BY <2>1, <2>2, <2>3, <2>4, <2>5, <2>6 DEF HandlerTypes
<1>3. Init => ThreadTypes
  BY DEF Init, ThreadTypes, Sides
<1>4. Init => DataTypes
  BY DEF Init, DataTypes
<1>5. Init => Places /\ CopyInv /\ Listening /\ Ended
  BY DEF Init, Places, CopyInv, Owned, Stored, StoredAt, Joined, Given, CopierHasConns,
         Listening, Ended
<1>6. QED
  BY <1>1, <1>2, <1>3, <1>4, <1>5 DEF IInv, TypeOK

-----------------------------------------------------------------------------
(* Close.                                                                  *)

LEMMA CloseTypes ==
    ASSUME HandlerTypes, UNCHANGED needsListen, NEW h \in 0 .. MaxHandlers, Close(h)
    PROVE  HandlerTypes'
<1>1. CASE h = None \/ (h # None /\ closed[h])
  BY <1>1 DEF HandlerTypes, Close
<1>2. CASE ~(h = None \/ (h # None /\ closed[h]))
  <2>1. h \in Handlers
    BY <1>2 DEF Handlers
  <2>2. inDataTransfer' \in BOOLEAN /\ closed' \in [Handlers -> BOOLEAN]
    BY <1>2 DEF HandlerTypes, Close
  <2>3. dataConn' \in [Handlers -> [Sides -> 0 .. MaxTransfers]]
    BY <1>2, <2>1 DEF HandlerTypes, Close
  <2>4. listener' \in [Handlers -> [Sides -> {"none", "open", "closed"}]]
    BY <1>2, <2>1 DEF HandlerTypes, Close
  <2>5. sock' \in [Transfers -> [Sides -> {"none", "open", "half", "closed"}]]
    BY <1>2, <2>1 DEF HandlerTypes, Close
  <2>6. QED
    BY <2>2, <2>3, <2>4, <2>5 DEF HandlerTypes
<1>3. QED
  BY <1>1, <1>2

(* What a step may do to the handlers without a thought for the copiers.   *)
Closing == \A g \in Handlers :
    /\ closed[g] => closed'[g]
    /\ ~closed'[g] => dataConn'[g] = dataConn[g]

(* ... and for the ports.                                                  *)
Releasing == \A g \in Handlers :
    /\ closed'[g] => closed[g] \/ g <= created
    /\ \A s \in Sides : listener'[g][s] = "open" =>
         listener[g][s] = "open" /\ ~closed'[g]

LEMMA CloseFacts ==
    ASSUME HandlerTypes, Listening, NEW h \in 0 .. MaxHandlers, h <= created, Close(h)
    PROVE  Closing /\ Releasing /\ (h # None => closed'[h])
<1>1. CASE h = None \/ (h # None /\ closed[h])
  BY <1>1 DEF Close, Closing, Releasing, Listening
<1>2. CASE ~(h = None \/ (h # None /\ closed[h]))
  <2>1. /\ h \in Handlers /\ closed' = [closed EXCEPT ![h] = TRUE]
        /\ dataConn' = [dataConn EXCEPT ![h] = PerSide(None)]
    BY <1>2 DEF Close, Handlers
  <2>2. Closing /\ closed'[h]
    BY <2>1 DEF HandlerTypes, Closing
  <2>3. \A g \in Handlers : closed'[g] => closed[g] \/ g <= created
    BY <2>1 DEF HandlerTypes
  <2>4. \A g \in Handlers : g # h => listener'[g] = listener[g] /\ closed'[g] = closed[g]
    BY <1>2, <2>1 DEF HandlerTypes, Close
  <2>5. \A q \in Sides : listener'[h][q] # "open"
    BY <1>2, <2>1 DEF HandlerTypes, Close
  <2>6. \A g \in Handlers, q \in Sides :
          listener'[g][q] = "open" => listener[g][q] = "open" /\ ~closed'[g]
    BY <2>4, <2>5 DEF Listening
  <2> QED
    BY <2>2, <2>3, <2>6 DEF Releasing
<1>3. QED
  BY <1>1, <1>2

-----------------------------------------------------------------------------
(* Types.                                                                  *)

(* What most steps leave.                                                  *)
LEMMA SessionSame ==
    ASSUME SessionTypes, UNCHANGED <<sessionVars, replyVars>>
    PROVE  SessionTypes'
BY DEF SessionTypes, sessionVars, replyVars

LEMMA HandlersSame ==
    ASSUME HandlerTypes, UNCHANGED <<handlerVars, sock>>
    PROVE  HandlerTypes'
BY DEF HandlerTypes, handlerVars

LEMMA ThreadsSame ==
    ASSUME ThreadTypes, UNCHANGED threadVars
    PROVE  ThreadTypes'
BY DEF ThreadTypes, threadVars

LEMMA DataSame ==
    ASSUME DataTypes, UNCHANGED dataVars
    PROVE  DataTypes'
BY DEF DataTypes, dataVars

LEMMA CommandTypes ==
    ASSUME IInv, CStep
    PROVE  TypeOK'
<1>1. SessionTypes /\ HandlerTypes /\ ThreadTypes /\ DataTypes /\ Places
  BY DEF IInv, TypeOK
<1>2. DataTypes'
  BY <1>1, DataSame DEF CStep, HandleDATA, NewDataHandler, DestroyPrevious,
     InstallHandler, SendData, HandleTransfer, CheckStarted, SendTransfer,
     EndCommands, callerFrame
<1>3. CASE HandleDATA \/ HandleTransfer \/ EndCommands
  <2>1. SessionTypes'
    BY <1>1, <1>3 DEF HandleDATA, HandleTransfer, EndCommands, callerFrame,
       replyVars, SessionTypes
  <2>2. HandlerTypes' /\ ThreadTypes'
    BY <1>1, <1>3, HandlersSame, ThreadsSame DEF HandleDATA, HandleTransfer,
       EndCommands, callerFrame
  <2>3. QED
    BY <1>2, <2>1, <2>2 DEF TypeOK
<1>4. CASE NewDataHandler
  <2>1. SessionTypes' /\ ThreadTypes'
    BY <1>1, <1>4, ThreadsSame DEF NewDataHandler, replyVars, SessionTypes, Places
  <2>2. CASE UNCHANGED <<needsListen, listener>>
    BY <1>1, <1>2, <1>4, <2>1, <2>2 DEF NewDataHandler, HandlerTypes, TypeOK
  <2>3. CASE ~UNCHANGED <<needsListen, listener>>
    <3>1. created' \in Handlers
      BY <1>1, <1>4, <2>3 DEF NewDataHandler, SessionTypes, Places, Handlers
    <3>2. PICK mode \in ClientModes :
            needsListen' = [needsListen EXCEPT ![created'] =
              [s \in Sides |-> checkNeedListen(mode, TransferMode, s)]]
      BY <1>4, <2>3 DEF NewDataHandler
    <3>3. \A s \in Sides : checkNeedListen(mode, TransferMode, s) \in BOOLEAN
      <4>1. checkNeedListen(mode, TransferMode, "client") \in BOOLEAN
        BY DEF checkNeedListen
      <4>2. checkNeedListen(mode, TransferMode, "origin") \in BOOLEAN
        BY DEF checkNeedListen
      <4>3. QED
        BY <4>1, <4>2 DEF Sides
    <3>4. needsListen' \in [Handlers -> [Sides -> BOOLEAN]]
      BY <1>1, <3>2, <3>3 DEF HandlerTypes
    <3>5. listener' \in [Handlers -> [Sides -> {"none", "open", "closed"}]]
      <4> DEFINE opened == [s \in Sides |->
                              IF needsListen'[created'][s] THEN "open" ELSE "none"]
      <4>1. opened \in [Sides -> {"none", "open", "closed"}]
        OBVIOUS
      <4>2. listener' = [listener EXCEPT ![created'] = opened]
        BY <1>4, <2>3 DEF NewDataHandler
      <4> HIDE DEF opened
      <4>3. QED
        BY <1>1, <4>1, <4>2 DEF HandlerTypes
    <3>6. HandlerTypes'
      BY <1>1, <1>4, <3>4, <3>5 DEF NewDataHandler, HandlerTypes
    <3>7. QED
      BY <1>2, <2>1, <3>6 DEF TypeOK
  <2>4. QED
    BY <2>2, <2>3
<1>5. CASE DestroyPrevious \/ SendData
  <2>1. SessionTypes' /\ ThreadTypes'
    BY <1>1, <1>5, ThreadsSame DEF DestroyPrevious, SendData, callerFrame,
       replyVars, SessionTypes
  <2>2. current \in 0 .. MaxHandlers
    BY <1>1 DEF SessionTypes
  <2>3. CASE Close(current)
    BY <1>1, <1>2, <1>5, <2>1, <2>2, <2>3, CloseTypes DEF DestroyPrevious, SendData, TypeOK
  <2>4. CASE UNCHANGED <<closed, listener, dataConn, inDataTransfer, sock>>
    BY <1>1, <1>2, <1>5, <2>1, <2>4, HandlersSame
       DEF DestroyPrevious, SendData, TypeOK, handlerVars
  <2>5. QED
    BY <1>5, <2>3, <2>4 DEF DestroyPrevious, SendData
<1>6. CASE InstallHandler
  <2>1. SessionTypes'
    BY <1>1, <1>6 DEF InstallHandler, callerFrame, replyVars, SessionTypes
  <2>2. QED
    BY <1>1, <1>2, <1>6, <2>1, HandlersSame, ThreadsSame
       DEF InstallHandler, callerFrame, TypeOK
<1>7. CASE CheckStarted
  <2>1. SessionTypes' /\ HandlerTypes'
    BY <1>1, <1>7, HandlersSame DEF CheckStarted, replyVars, SessionTypes, Places
  <2>2. CASE UNCHANGED <<started, owner, direction, tpc, dpc>>
    BY <1>1, <1>2, <1>7, <2>1, <2>2, ThreadsSame DEF CheckStarted, threadVars, TypeOK
  <2>3. CASE ~UNCHANGED <<started, owner, direction, tpc, dpc>>
    <3>1. /\ started' \in Transfers /\ current \in 0 .. MaxHandlers
          /\ owner' = [owner EXCEPT ![started'] = current]
          /\ \E s \in Sides : direction' = [direction EXCEPT ![started'] = s]
          /\ tpc' = [tpc EXCEPT ![started'] = "Connect"]
          /\ dpc' = [dpc EXCEPT ![started'] =
                 [client |-> "Begin", origin |-> "Await"]]
          /\ started' = started + 1 /\ UNCHANGED <<kpc, kconn>>
      BY <1>1, <1>7, <2>3 DEF CheckStarted, SessionTypes, Places, Transfers
    <3>2. /\ owner' \in [Transfers -> 0 .. MaxHandlers]
          /\ direction' \in [Transfers -> Sides]
          /\ tpc' \in [Transfers -> {"None", "Connect", "Run", "Close", "Done"}]
      BY <1>1, <3>1 DEF ThreadTypes
    <3>3. [client |-> "Begin", origin |-> "Await"]
            \in [Sides -> {"None", "Await", "Begin", "Open", "Store",
                "CheckTLS", "Handshake", "Wrapped", "Close", "OK", "Err"}]
      BY DEF Sides
    <3>4. dpc' \in [Transfers -> [Sides -> {"None", "Await", "Begin", "Open", "Store",
                "CheckTLS", "Handshake", "Wrapped", "Close", "OK", "Err"}]]
      BY <1>1, <3>1, <3>3 DEF ThreadTypes
    <3>5. \A s \in Sides : kpc[started'][s] = "None"
      BY <1>1, <3>1 DEF CheckStarted, IInv, CopyInv, Owned, SessionTypes, Transfers
    <3>6. \A t \in Transfers, s \in Sides :
            tpc'[t] # "Run" => kpc'[t][s] \in {"None", "Ended"}
      BY <1>1, <3>1, <3>5 DEF ThreadTypes
    <3>7. ThreadTypes'
      BY <1>1, <3>1, <3>2, <3>4, <3>6 DEF ThreadTypes
    <3>8. QED
      BY <1>2, <2>1, <3>7 DEF TypeOK
  <2>4. QED
    BY <2>2, <2>3
<1>8. CASE SendTransfer
  <2>1. SessionTypes'
    BY <1>1, <1>8 DEF SendTransfer, SessionTypes
  <2>2. QED
    BY <1>1, <1>2, <1>8, <2>1, HandlersSame, ThreadsSame DEF SendTransfer, TypeOK
<1>9. QED
  BY <1>3, <1>4, <1>5, <1>6, <1>7, <1>8 DEF CStep

LEMMA ReplyTypes ==
    ASSUME IInv, EndSession \/ DestroyDataHandler \/ TakeReply \/ Peers
    PROVE  TypeOK'
<1>1. SessionTypes /\ HandlerTypes /\ ThreadTypes /\ DataTypes
  BY DEF IInv, TypeOK
<1>2. ThreadTypes'
  BY <1>1, ThreadsSame DEF EndSession, DestroyDataHandler, TakeReply, Peers, PeerSends,
     PeerCloses, OriginRefuses, OriginMarks, OriginFinishes
<1>3. CASE EndSession
  <2>1. SessionTypes'
    BY <1>1, <1>3 DEF EndSession, replyVars, SessionTypes
  <2>2. QED
    BY <1>1, <1>2, <1>3, <2>1, HandlersSame, DataSame DEF EndSession, TypeOK
<1>4. CASE DestroyDataHandler
  <2>1. SessionTypes'
    BY <1>1, <1>4 DEF DestroyDataHandler, replyVars, SessionTypes
  <2>2. HandlerTypes'
    BY <1>1, <1>4, CloseTypes DEF DestroyDataHandler, SessionTypes
  <2>3. QED
    BY <1>1, <1>2, <1>4, <2>1, <2>2, DataSame DEF DestroyDataHandler, TypeOK
<1>5. CASE TakeReply
  <2>1. fromOrigin' \in Seq({"150", "226", "550"})
    BY <1>1, <1>5 DEF TakeReply, SessionTypes
  <2>2. awaiting' \in BOOLEAN
    BY <1>5 DEF TakeReply
  <2>3. SessionTypes'
    BY <1>1, <1>5, <2>1, <2>2 DEF TakeReply, sessionVars, SessionTypes
  <2>4. inDataTransfer' \in BOOLEAN
    BY <1>1, <1>5 DEF TakeReply, HandlerTypes
  <2>5. HandlerTypes'
    BY <1>1, <1>5, <2>4 DEF TakeReply, HandlerTypes
  <2>6. QED
    BY <1>1, <1>2, <1>5, <2>3, <2>5, DataSame DEF TakeReply, TypeOK
<1>6. ASSUME NEW t \in Transfers, PeerSends(t) PROVE TypeOK'
  <2>1. sent' \in [Transfers -> 0 .. MaxChunks]
    BY <1>1, <1>6 DEF PeerSends, DataTypes
  <2>2. unread' \in [Transfers -> Nat]
    BY <1>1, <1>6 DEF PeerSends, DataTypes
  <2>3. DataTypes'
    BY <1>1, <1>6, <2>1, <2>2 DEF PeerSends, DataTypes
  <2>4. QED
    BY <1>1, <1>2, <1>6, <2>3, SessionSame, HandlersSame DEF PeerSends, TypeOK
<1>7. ASSUME NEW t \in Transfers, NEW s \in Sides, PeerCloses(t, s) PROVE TypeOK'
  <2>1. DataTypes'
    BY <1>1, <1>7 DEF PeerCloses, DataTypes
  <2>2. QED
    BY <1>1, <1>2, <1>7, <2>1, SessionSame, HandlersSame DEF PeerCloses, TypeOK
<1>8. ASSUME NEW t \in Transfers, OriginRefuses(t) PROVE TypeOK'
  <2>1. SessionTypes'
    BY <1>1, <1>8 DEF OriginRefuses, sessionVars, SessionTypes
  <2>2. DataTypes'
    BY <1>1, <1>8 DEF OriginRefuses, DataTypes
  <2>3. QED
    BY <1>1, <1>2, <1>8, <2>1, <2>2, HandlersSame DEF OriginRefuses, TypeOK
<1>9. ASSUME NEW t \in Transfers, OriginMarks(t) \/ OriginFinishes(t) PROVE TypeOK'
  <2>1. fromOrigin' \in Seq({"150", "226", "550"})
    BY <1>1, <1>9 DEF OriginMarks, OriginFinishes, SessionTypes
  <2>3. job' \in [Transfers -> {"none", "sent", "marked", "refused", "aborted",
                             "finished"}]
    BY <1>1, <1>9 DEF OriginMarks, OriginFinishes, SessionTypes
  <2>4. SessionTypes'
    BY <1>1, <1>9, <2>1, <2>3 DEF OriginMarks, OriginFinishes, sessionVars, SessionTypes
  <2>5. QED
    BY <1>1, <1>2, <1>9, <2>4, HandlersSame, DataSame
       DEF OriginMarks, OriginFinishes, TypeOK
<1>10. QED
  BY <1>3, <1>4, <1>5, <1>6, <1>7, <1>8, <1>9 DEF Peers

(* A goroutine of a transfer has a handler, made before it.                *)
LEMMA HasHandler ==
    ASSUME TypeOK, Owned, NEW t \in Transfers,
           \/ tpc[t] # "None"
           \/ \E s \in Sides : dpc[t][s] # "None" \/ kpc[t][s] # "None"
    PROVE  owner[t] \in Handlers /\ t <= started
BY DEF TypeOK, ThreadTypes, SessionTypes, Owned, Handlers, Transfers

LEMMA TransferTypes ==
    ASSUME IInv, NEW t \in Transfers, Transfer(t)
    PROVE  TypeOK'
<1>1. SessionTypes /\ HandlerTypes /\ ThreadTypes /\ DataTypes
  BY DEF IInv, TypeOK
<1>2. SessionTypes' /\ DataTypes'
  BY <1>1, SessionSame, DataSame DEF Transfer, JoinConnect, JoinRun, EndTransfer
<1>3. ThreadTypes'
  <2>1. tpc' \in [Transfers -> {"None", "Connect", "Run", "Close", "Done"}]
    BY <1>1 DEF Transfer, JoinConnect, JoinRun, EndTransfer, ThreadTypes
  <2>2. kpc' \in [Transfers -> [Sides -> {"None", "Begin", "Check", "Read",
                "Write", "Ended"}]]
    <3>1. PerSide("Begin") \in [Sides -> {"None", "Begin", "Check", "Read",
                "Write", "Ended"}]
      OBVIOUS
    <3>2. kpc' = kpc \/ kpc' = [kpc EXCEPT ![t] = PerSide("Begin")]
      BY DEF Transfer, JoinConnect, JoinRun, EndTransfer
    <3>3. QED
      BY <1>1, <3>1, <3>2 DEF ThreadTypes
  <2>3. /\ UNCHANGED <<owner, direction, dpc, kconn>>
        /\ tpc'[t] # "Run" => UNCHANGED kpc /\ \A s \in Sides : kpc[t][s] \in {"None", "Ended"}
        /\ \A u \in Transfers : u # t => tpc'[u] = tpc[u] /\ kpc'[u] = kpc[u]
    BY <1>1 DEF Transfer, JoinConnect, JoinRun, EndTransfer, ThreadTypes
  <2>4. \A u \in Transfers, s \in Sides :
          tpc'[u] # "Run" => kpc'[u][s] \in {"None", "Ended"}
    BY <1>1, <2>3 DEF ThreadTypes
  <2>5. QED
    BY <1>1, <2>1, <2>2, <2>3, <2>4 DEF ThreadTypes
<1>4. HandlerTypes'
  BY <1>1, HandlersSame, CloseTypes DEF Transfer, JoinConnect, JoinRun,
     EndTransfer, ThreadTypes
<1>5. QED
  BY <1>2, <1>3, <1>4 DEF TypeOK

LEMMA ConnectTypes ==
    ASSUME IInv, NEW t \in Transfers, NEW s \in Sides, Connect(t, s)
    PROVE  TypeOK'
<1>1. SessionTypes /\ HandlerTypes /\ ThreadTypes /\ DataTypes
  BY DEF IInv, TypeOK
<1>2. SessionTypes'
  BY <1>1, SessionSame DEF Connect, BeginConnect, Connected, ConnectFails,
     StoreConn, CheckTLS, Handshake, StoreTLSConn, CloseAfterErr, connectFrame
<1>3. ThreadTypes'
  <2> DEFINE Steps == {"None", "Await", "Begin", "Open", "Store",
                       "CheckTLS", "Handshake", "Wrapped", "Close", "OK", "Err"}
  <2>1. CASE Connected(t, s)
    <3>1. dpc' \in [Transfers -> [Sides -> Steps]]
      BY <1>1, <2>1 DEF Connected, ThreadTypes, Sides
    <3>2. QED
      BY <1>1, <2>1, <3>1 DEF Connected, connectFrame, ThreadTypes
  <2>2. CASE ConnectFails(t, s)
    <3>1. dpc' \in [Transfers -> [Sides -> Steps]]
      BY <1>1, <2>2 DEF ConnectFails, ThreadTypes, Sides
    <3>2. QED
      BY <1>1, <2>2, <3>1 DEF ConnectFails, connectFrame, ThreadTypes
  <2>3. CASE ~Connected(t, s) /\ ~ConnectFails(t, s)
    <3>1. \E to \in Steps : Goto(t, s, to)
      BY <2>3 DEF Connect, BeginConnect, StoreConn, CheckTLS, Handshake, StoreTLSConn,
         CloseAfterErr
    <3>3. dpc' \in [Transfers -> [Sides -> Steps]]
      BY <1>1, <3>1 DEF Goto, ThreadTypes
    <3>4. QED
      BY <1>1, <2>3, <3>3 DEF Connect, BeginConnect, StoreConn, CheckTLS,
         Handshake, StoreTLSConn, CloseAfterErr, connectFrame, ThreadTypes
  <2>4. QED
    BY <2>1, <2>2, <2>3
<1>4. DataTypes'
  <2>1. CASE Connected(t, s)
    BY <1>1, <2>1 DEF Connected, DataTypes
  <2>2. CASE ~Connected(t, s)
    BY <1>1, <2>2, DataSame DEF Connect, BeginConnect, ConnectFails, StoreConn,
       CheckTLS, Handshake, StoreTLSConn, CloseAfterErr
  <2>3. QED
    BY <2>1, <2>2
<1>5. HandlerTypes'
  <2>1. CASE BeginConnect(t, s) \/ ConnectFails(t, s) \/ CheckTLS(t, s) \/ Handshake(t, s)
    BY <1>1, <2>1, HandlersSame DEF BeginConnect, ConnectFails, CheckTLS, Handshake
  <2>2. CASE Connected(t, s)
    BY <1>1, <2>2 DEF Connected, HandlerTypes, handlerVars
  <2>3. CASE StoreConn(t, s)
    <3>1. listener' \in [Handlers -> [Sides -> {"none", "open", "closed"}]]
      BY <1>1, <2>3 DEF StoreConn, HandlerTypes
    <3>2. t \in 0 .. MaxTransfers
      BY DEF Transfers
    <3>3. dataConn' \in [Handlers -> [Sides -> 0 .. MaxTransfers]]
      BY <1>1, <2>3, <3>2 DEF StoreConn, HandlerTypes
    <3>4. QED
      BY <1>1, <2>3, <3>1, <3>3 DEF StoreConn, HandlerTypes
  <2>4. CASE StoreTLSConn(t, s)
    <3>1. t \in 0 .. MaxTransfers
      BY DEF Transfers
    <3>2. dataConn' \in [Handlers -> [Sides -> 0 .. MaxTransfers]]
      BY <1>1, <2>4, <3>1 DEF StoreTLSConn, HandlerTypes
    <3>3. QED
      BY <1>1, <2>4, <3>2 DEF StoreTLSConn, HandlerTypes
  <2>5. CASE CloseAfterErr(t, s)
    BY <1>1, <2>5, CloseTypes DEF CloseAfterErr, ThreadTypes
  <2>6. QED
    BY <2>1, <2>2, <2>3, <2>4, <2>5 DEF Connect
<1>6. QED
  BY <1>2, <1>3, <1>4, <1>5 DEF TypeOK

LEMMA CopyTypes ==
    ASSUME IInv, NEW t \in Transfers, NEW s \in Sides, Copy(t, s) \/ Expire(t, s)
    PROVE  TypeOK'
<1>1. TypeOK /\ SessionTypes /\ HandlerTypes /\ ThreadTypes /\ DataTypes
  BY DEF IInv, TypeOK
<1>2. SessionTypes'
  BY <1>1, SessionSame DEF Copy, BeginCopy, CheckClosed, ReadChunk, ReadEOF,
     ReadFails, WriteChunk, WriteFails, Expire, copyFrame
<1>3. HandlerTypes'
  <2>1. sock' \in [Transfers -> [Sides -> {"none", "open", "half", "closed"}]]
    <3>1. CASE ReadEOF(t, s)
      BY <1>1, <3>1 DEF ReadEOF, HandlerTypes
    <3>2. CASE WriteFails(t, s)
      BY <1>1, <3>2 DEF WriteFails, HandlerTypes
    <3>3. CASE ~ReadEOF(t, s) /\ ~WriteFails(t, s)
      BY <1>1, <3>3 DEF Copy, BeginCopy, CheckClosed, ReadChunk, ReadFails,
         WriteChunk, Expire, HandlerTypes
    <3>4. QED
      BY <3>1, <3>2, <3>3
  <2>2. QED
    BY <1>1, <2>1 DEF Copy, BeginCopy, CheckClosed, ReadChunk, ReadEOF, ReadFails,
       WriteChunk, WriteFails, Expire, copyFrame, handlerVars, HandlerTypes
<1>4. ThreadTypes'
  <2>1. kpc' \in [Transfers -> [Sides -> {"None", "Begin", "Check", "Read",
                "Write", "Ended"}]]
    <3>1. \/ kpc' = kpc
          \/ \E to \in {"Check", "Read", "Write", "Ended"} :
               kpc' = [kpc EXCEPT ![t][s] = to]
      BY DEF Copy, BeginCopy, CheckClosed, ReadChunk, ReadEOF, ReadFails,
         WriteChunk, WriteFails, Expire, threadVars
    <3>2. CASE kpc' = kpc
      BY <1>1, <3>2 DEF ThreadTypes
    <3>3. ASSUME NEW to \in {"Check", "Read", "Write", "Ended"},
                 kpc' = [kpc EXCEPT ![t][s] = to]
          PROVE  kpc' \in [Transfers -> [Sides -> {"None", "Begin", "Check", "Read",
                    "Write", "Ended"}]]
      BY <1>1, <3>3 DEF ThreadTypes
    <3>4. QED
      BY <3>1, <3>2, <3>3
  <2>2. CASE BeginCopy(t, s)
    <3>1. owner[t] \in Handlers
      BY <1>1, <2>2, HasHandler DEF BeginCopy, IInv, CopyInv
    <3>2. kconn' \in [Transfers -> [Sides -> [Sides -> 0 .. MaxTransfers]]]
      BY <1>1, <2>2, <3>1 DEF BeginCopy, ThreadTypes, HandlerTypes
    <3>3. QED
      BY <1>1, <2>1, <2>2, <3>2 DEF BeginCopy, copyFrame, ThreadTypes
  <2>3. CASE ~BeginCopy(t, s)
    BY <1>1, <2>1, <2>3 DEF Copy, CheckClosed, ReadChunk, ReadEOF, ReadFails,
       WriteChunk, WriteFails, Expire, copyFrame, threadVars, ThreadTypes
  <2>4. QED
    BY <2>2, <2>3
<1>5. DataTypes'
  <2>1. CASE ReadChunk(t, s)
    <3>1. unread' \in [Transfers -> Nat]
      <4> DEFINE x == kconn[t][s][s]
      <4>1. unread' = [unread EXCEPT ![x] = unread[x] - 1] /\ unread[x] > 0
        BY <2>1 DEF ReadChunk
      <4> HIDE DEF x
      <4>2. CASE x \in Transfers
        BY <1>1, <4>1, <4>2 DEF DataTypes
      <4>3. CASE x \notin Transfers
        <5>1. unread' = unread
          BY <1>1, <4>1, <4>3 DEF DataTypes
        <5>2. QED
          BY <1>1, <5>1 DEF DataTypes
      <4>4. QED
        BY <4>2, <4>3
    <3>2. QED
      BY <1>1, <2>1, <3>1 DEF ReadChunk, DataTypes
  <2>2. CASE WriteChunk(t, s)
    <3>1. got' \in [Transfers -> Nat]
      <4> DEFINE y == kconn[t][s][Other(s)]
      <4>1. got' = [got EXCEPT ![y] = got[y] + 1]
        BY <2>2 DEF WriteChunk
      <4> HIDE DEF y
      <4>2. CASE y \in Transfers
        BY <1>1, <4>1, <4>2 DEF DataTypes
      <4>3. CASE y \notin Transfers
        <5>1. got' = got
          BY <1>1, <4>1, <4>3 DEF DataTypes
        <5>2. QED
          BY <1>1, <5>1 DEF DataTypes
      <4>4. QED
        BY <4>2, <4>3
    <3>2. QED
      BY <1>1, <2>2, <3>1 DEF WriteChunk, DataTypes
  <2>3. CASE Expire(t, s)
    BY <1>1, <2>3 DEF Expire, DataTypes
  <2>4. CASE BeginCopy(t, s) \/ CheckClosed(t, s) \/ ReadEOF(t, s)
             \/ ReadFails(t, s) \/ WriteFails(t, s)
    BY <1>1, <2>4, DataSame DEF BeginCopy, CheckClosed, ReadEOF, ReadFails, WriteFails
  <2>5. QED
    BY <2>1, <2>2, <2>3, <2>4 DEF Copy
<1>6. QED
  BY <1>2, <1>3, <1>4, <1>5 DEF TypeOK

-----------------------------------------------------------------------------
(* The copiers.                                                            *)

LEMMA PlacesKept ==
    ASSUME IInv, Next
    PROVE  Places'
<1>1. SessionTypes /\ Places
  BY DEF IInv, TypeOK
<1>2. CASE CStep
  BY <1>1, <1>2 DEF CStep, HandleDATA, NewDataHandler, DestroyPrevious,
     InstallHandler, SendData, HandleTransfer, CheckStarted, SendTransfer,
     EndCommands, callerFrame, SessionTypes, Places
<1>3. CASE EndSession \/ DestroyDataHandler \/ TakeReply \/ Peers
  BY <1>1, <1>3 DEF EndSession, DestroyDataHandler, TakeReply, Peers, PeerSends,
     PeerCloses, OriginRefuses, OriginMarks, OriginFinishes, sessionVars, Places
<1>4. CASE \E t \in Transfers :
             Transfer(t) \/ \E s \in Sides : Connect(t, s) \/ Copy(t, s) \/ Expire(t, s)
  <2>1. ASSUME NEW t \in Transfers, Transfer(t) PROVE UNCHANGED sessionVars
    BY <2>1 DEF Transfer, JoinConnect, JoinRun, EndTransfer
  <2>2. ASSUME NEW t \in Transfers, NEW s \in Sides, Connect(t, s)
        PROVE  UNCHANGED sessionVars
    BY <2>2 DEF Connect, BeginConnect, Connected, ConnectFails, StoreConn,
       CheckTLS, Handshake, StoreTLSConn, CloseAfterErr, connectFrame
  <2>3. ASSUME NEW t \in Transfers, NEW s \in Sides, Copy(t, s) \/ Expire(t, s)
        PROVE  UNCHANGED sessionVars
    BY <2>3 DEF Copy, BeginCopy, CheckClosed, ReadChunk, ReadEOF, ReadFails,
       WriteChunk, WriteFails, Expire, copyFrame
  <2>4. UNCHANGED sessionVars
    BY <1>4, <2>1, <2>2, <2>3
  <2>5. QED
    BY <1>1, <2>4 DEF sessionVars, Places
<1>5. QED
  BY <1>2, <1>3, <1>4 DEF Next

(* Steps that leave the transfers' goroutines where they are.              *)
LEMMA SameThreads ==
    ASSUME TypeOK, CopyInv, Closing,
           SessionTypes', created <= created',
           UNCHANGED <<started, owner, tpc, dpc, kpc, kconn>>
    PROVE  CopyInv'
<1>1. \A t \in Transfers : owner[t] # None => owner[t] \in Handlers
  BY DEF TypeOK, ThreadTypes, Handlers
<1>2. Owned' /\ Joined' /\ CopierHasConns'
  BY DEF CopyInv, Owned, Joined, CopierHasConns, TypeOK, SessionTypes, ThreadTypes
<1>3. Stored'
  BY <1>1 DEF CopyInv, Stored, StoredAt, Closing
<1>4. Given'
  <2>1. \A t \in Transfers, s \in Sides : kpc[t][s] = "Check" => owner[t] # None
    BY DEF CopyInv, Owned
  <2>2. QED
    BY <1>1, <2>1 DEF CopyInv, Given, Closing
<1>5. QED
  BY <1>2, <1>3, <1>4 DEF CopyInv

LEMMA SameClosing ==
    ASSUME UNCHANGED <<closed, dataConn>>
    PROVE  Closing
BY DEF Closing

LEMMA CommandCopies ==
    ASSUME IInv, CStep
    PROVE  CopyInv'
<1>1. /\ TypeOK /\ SessionTypes /\ HandlerTypes /\ ThreadTypes
      /\ Places /\ CopyInv /\ Listening
  BY DEF IInv, TypeOK
<1>2. SessionTypes'
  BY CommandTypes DEF TypeOK
<1>3. created <= created'
  <2>1. created' = created \/ created' = created + 1
    BY DEF CStep, HandleDATA, NewDataHandler, DestroyPrevious, InstallHandler,
       SendData, HandleTransfer, CheckStarted, SendTransfer, EndCommands, callerFrame
  <2>2. QED
    BY <1>1, <2>1 DEF SessionTypes
<1>4. current \in 0 .. MaxHandlers /\ current <= created
  BY <1>1 DEF SessionTypes
<1>5. CASE HandleDATA \/ NewDataHandler \/ InstallHandler \/ HandleTransfer
             \/ SendTransfer \/ EndCommands
  BY <1>1, <1>5, <1>2, <1>3, SameThreads, SameClosing DEF HandleDATA, NewDataHandler,
     InstallHandler, HandleTransfer, SendTransfer, EndCommands, callerFrame,
     handlerVars, threadVars
<1>6. CASE DestroyPrevious \/ SendData
  <2>1. Closing
    BY <1>1, <1>4, <1>6, CloseFacts, SameClosing DEF DestroyPrevious, SendData
  <2>2. QED
    BY <1>1, <1>6, <1>2, <1>3, <2>1, SameThreads DEF DestroyPrevious, SendData,
       callerFrame, threadVars
<1>7. CASE CheckStarted
  <2>1. CASE UNCHANGED <<started, owner, direction, tpc, dpc>>
    BY <1>1, <1>7, <1>2, <1>3, <2>1, SameThreads, SameClosing DEF CheckStarted, handlerVars
  <2>2. CASE ~UNCHANGED <<started, owner, direction, tpc, dpc>>
    <3>1. /\ started' = started + 1 /\ started' \in Transfers
          /\ current # None /\ current \in 0 .. created /\ created' = created
          /\ owner' = [owner EXCEPT ![started'] = current]
          /\ tpc' = [tpc EXCEPT ![started'] = "Connect"]
          /\ dpc' = [dpc EXCEPT ![started'] =
                 [client |-> "Begin", origin |-> "Await"]]
          /\ UNCHANGED <<kpc, kconn, closed, dataConn>>
      BY <1>1, <1>4, <1>7, <2>2 DEF CheckStarted, handlerVars, SessionTypes, Places, Transfers
    <3>2. /\ owner[started'] = None
          /\ \A s \in Sides : kpc[started'][s] = "None"
      BY <1>1, <3>1 DEF CopyInv, Owned, SessionTypes, Transfers
    <3>3. \A t \in Transfers \ {started'} :
            owner'[t] = owner[t] /\ tpc'[t] = tpc[t] /\ dpc'[t] = dpc[t]
      BY <1>1, <3>1 DEF ThreadTypes
    <3>4. /\ owner'[started'] = current
          /\ \A s \in Sides : dpc'[started'][s] \in {"Begin", "Await"}
      BY <1>1, <3>1 DEF ThreadTypes, Sides
    <3>5. Owned'
      BY <1>1, <3>1, <3>2, <3>3, <3>4 DEF CopyInv, Owned, SessionTypes, Transfers
    <3>6. Stored'
      BY <1>1, <3>1, <3>3, <3>4 DEF CopyInv, Stored, StoredAt
    <3>7. Joined' /\ Given' /\ CopierHasConns'
      <4>1. \A s \in Sides : kpc'[started'][s] = "None"
        BY <1>1, <3>1, <3>2
      <4>2. Joined'
        BY <1>1, <3>1, <3>3, <4>1 DEF CopyInv, Joined
      <4>3. Given' /\ CopierHasConns'
        BY <1>1, <3>1, <3>3, <4>1 DEF CopyInv, Given, CopierHasConns
      <4> QED
        BY <4>2, <4>3
    <3>8. QED
      BY <3>5, <3>6, <3>7 DEF CopyInv
  <2>3. QED
    BY <2>1, <2>2
<1>8. QED
  BY <1>5, <1>6, <1>7 DEF CStep

LEMMA ReplyCopies ==
    ASSUME IInv, EndSession \/ DestroyDataHandler \/ TakeReply \/ Peers
    PROVE  CopyInv'
<1>1. TypeOK /\ SessionTypes /\ HandlerTypes /\ CopyInv /\ Listening
  BY DEF IInv, TypeOK
<1>2. SessionTypes'
  BY ReplyTypes DEF TypeOK
<1>3. created <= created'
  <2>1. created' = created
    BY DEF EndSession, DestroyDataHandler, TakeReply, Peers, PeerSends, PeerCloses,
       OriginRefuses, OriginMarks, OriginFinishes, sessionVars
  <2>2. QED
    BY <1>1, <2>1 DEF SessionTypes
<1>4. CASE EndSession \/ TakeReply \/ Peers
  BY <1>1, <1>4, <1>2, <1>3, SameThreads, SameClosing DEF EndSession, TakeReply, Peers,
     PeerSends, PeerCloses, OriginRefuses, OriginMarks, OriginFinishes,
     sessionVars, handlerVars, threadVars
<1>5. CASE DestroyDataHandler
  <2>1. current \in 0 .. MaxHandlers /\ current <= created
    BY <1>1 DEF SessionTypes
  <2>2. Closing
    BY <1>1, <1>5, <2>1, CloseFacts DEF DestroyDataHandler
  <2>3. QED
    BY <1>1, <1>5, <1>2, <1>3, <2>2, SameThreads DEF DestroyDataHandler, threadVars
<1>6. QED
  BY <1>4, <1>5

LEMMA TransferCopies ==
    ASSUME IInv, NEW t \in Transfers, Transfer(t)
    PROVE  CopyInv'
<1>1. /\ TypeOK /\ SessionTypes /\ HandlerTypes /\ ThreadTypes
      /\ CopyInv /\ Listening
  BY DEF IInv, TypeOK
<1>2. UNCHANGED <<created, started, owner, dpc, kconn>>
  BY DEF Transfer, JoinConnect, JoinRun, EndTransfer, sessionVars
<1>3. owner[t] # None /\ owner[t] \in 0 .. MaxHandlers /\ owner[t] <= created
  BY <1>1 DEF Transfer, JoinConnect, JoinRun, EndTransfer, CopyInv, Owned, ThreadTypes
<1>4. Closing
  BY <1>1, <1>3, CloseFacts, SameClosing DEF Transfer, JoinConnect, JoinRun,
     EndTransfer, handlerVars
<1>5. \A u \in Transfers : owner[u] # None => owner[u] \in Handlers
  BY <1>1 DEF ThreadTypes, Handlers
<1>6. \A u \in Transfers : u # t => tpc'[u] = tpc[u] /\ kpc'[u] = kpc[u]
  BY <1>1 DEF Transfer, JoinConnect, JoinRun, EndTransfer, ThreadTypes
<1>7. \/ kpc' = kpc
      \/ /\ \A s \in Sides : dpc[t][s] = "OK"
         /\ \A s \in Sides : kpc'[t][s] = "Begin"
  BY <1>1 DEF Transfer, JoinConnect, JoinRun, EndTransfer, ThreadTypes
<1>8. Owned'
  BY <1>1, <1>2, <1>3, <1>6 DEF CopyInv, Owned
<1>9. Stored'
  BY <1>1, <1>2, <1>4, <1>5 DEF CopyInv, Stored, StoredAt, Closing
<1>10. Joined' /\ CopierHasConns'
  BY <1>1, <1>2, <1>6, <1>7 DEF CopyInv, Joined, CopierHasConns
<1>11. Given'
  <2>1. \A u \in Transfers, s \in Sides : kpc[u][s] = "Check" => owner[u] # None
    BY <1>1 DEF CopyInv, Owned
  <2>2. QED
    BY <1>1, <1>2, <1>4, <1>5, <1>6, <1>7, <2>1 DEF CopyInv, Given, Closing
<1>12. QED
  BY <1>8, <1>9, <1>10, <1>11 DEF CopyInv

LEMMA ConnectCopies ==
    ASSUME IInv, NEW t \in Transfers, NEW s \in Sides, Connect(t, s)
    PROVE  CopyInv'
<1>1. /\ TypeOK /\ SessionTypes /\ HandlerTypes /\ ThreadTypes
      /\ CopyInv /\ Listening
  BY DEF IInv, TypeOK
<1>2. UNCHANGED <<created, started, owner, tpc, kpc, kconn>>
  BY DEF Connect, BeginConnect, Connected, ConnectFails, StoreConn, CheckTLS,
     Handshake, StoreTLSConn, CloseAfterErr, connectFrame, sessionVars
<1>3. dpc[t][s] \notin {"None", "OK"}
  BY DEF Connect, BeginConnect, Connected, ConnectFails, StoreConn, CheckTLS,
     Handshake, StoreTLSConn, CloseAfterErr
<1>4. owner[t] \in Handlers /\ owner[t] # None /\ owner[t] <= created
  BY <1>1, <1>3 DEF CopyInv, Owned, ThreadTypes, Handlers
<1>5. \A g \in Handlers : /\ closed[g] => closed'[g]
                          /\ \A r \in Sides : ~closed'[g] /\ dataConn[g][r] # None
                               => dataConn'[g][r] # None
  <2>1. CASE CloseAfterErr(t, s)
    <3>1. owner[t] \in 0 .. MaxHandlers
      BY <1>4 DEF Handlers
    <3>2. QED
      BY <1>1, <1>4, <2>1, <3>1, CloseFacts DEF CloseAfterErr, Closing
  <2>2. CASE StoreConn(t, s) \/ StoreTLSConn(t, s)
    <3>1. t # None
      BY DEF Transfers
    <3>2. UNCHANGED closed
      BY <2>2 DEF StoreConn, StoreTLSConn
    <3>3. dataConn' = dataConn \/ dataConn' = [dataConn EXCEPT ![owner[t]][s] = t]
      BY <2>2 DEF StoreConn, StoreTLSConn
    <3>4. CASE dataConn' = dataConn
      BY <3>2, <3>4
    <3>5. CASE dataConn' = [dataConn EXCEPT ![owner[t]][s] = t]
      BY <1>1, <1>4, <3>1, <3>2, <3>5 DEF HandlerTypes
    <3>6. QED
      BY <3>3, <3>4, <3>5
  <2>3. CASE BeginConnect(t, s) \/ Connected(t, s) \/ ConnectFails(t, s)
             \/ CheckTLS(t, s) \/ Handshake(t, s)
    BY <2>3 DEF BeginConnect, Connected, ConnectFails, CheckTLS, Handshake, handlerVars
  <2>4. QED
    BY <2>1, <2>2, <2>3 DEF Connect
<1>6. \A u \in Transfers : u # t => dpc'[u] = dpc[u]
  BY <1>1 DEF Connect, BeginConnect, Connected, ConnectFails, StoreConn, CheckTLS,
     Handshake, StoreTLSConn, CloseAfterErr, Goto, ThreadTypes
<1>7. Owned'
  BY <1>1, <1>2, <1>4, <1>6 DEF CopyInv, Owned
<1>8. Joined'
  BY <1>1, <1>2, <1>3, <1>6 DEF CopyInv, Joined
<1>9. CopierHasConns'
  BY <1>1, <1>2 DEF CopyInv, CopierHasConns
<1>10. Given'
  <2>1. \A u \in Transfers, r \in Sides : kpc[u][r] = "Check" => owner[u] \in Handlers
    BY <1>1 DEF CopyInv, Owned, ThreadTypes, Handlers
  <2>2. QED
    BY <1>1, <1>2, <1>5, <2>1 DEF CopyInv, Given
<1>11. Stored'
  <2>1. \A u \in Transfers, r \in Sides : StoredAt(u, r)
    BY <1>1 DEF CopyInv, Stored
  <2>2. ASSUME NEW u \in Transfers \ {t}, NEW r \in Sides
        PROVE  StoredAt(u, r)'
    <3>1. owner[u] # None => owner[u] \in Handlers
      BY <1>1 DEF ThreadTypes, Handlers
    <3>2. dpc'[u] = dpc[u] /\ owner'[u] = owner[u]
      BY <1>2, <1>6
    <3>3. QED
      BY <1>5, <2>1, <3>1, <3>2 DEF StoredAt
  <2>3. ASSUME NEW r \in Sides
        PROVE  StoredAt(t, r)'
    <3>1. CASE BeginConnect(t, s) \/ CheckTLS(t, s) \/ Handshake(t, s)
               \/ CloseAfterErr(t, s)
      <4>1. PICK to \in {"Open", "Close", "Handshake", "Wrapped", "Err"} :
              /\ dpc' = [dpc EXCEPT ![t][s] = to]
              /\ to = "Handshake" => dpc[t][s] = "CheckTLS"
              /\ to = "Wrapped" => dpc[t][s] = "Handshake"
              /\ to = "Err" => dpc[t][s] = "Close"
              /\ to # "Err" => dpc[t][s] \notin {"Close", "Err"}
        BY <3>1 DEF BeginConnect, CheckTLS, Handshake, CloseAfterErr, Goto
      <4>2. /\ dpc'[t][s] = to
            /\ \A q \in Sides : q # s => dpc'[t][q] = dpc[t][q]
        BY <1>1, <4>1 DEF ThreadTypes
      <4>3. \A q \in {"CheckTLS", "Handshake", "Wrapped", "OK"} :
              dpc'[t][r] = q => dpc[t][r] \in {"CheckTLS", "Handshake", "Wrapped", "OK"}
        BY <4>1, <4>2
      <4>4. dpc[t]["client"] \in {"Close", "Err"} => dpc'[t]["client"] \in {"Close", "Err"}
        BY <4>1, <4>2 DEF Sides
      <4>5. QED
        BY <1>2, <1>4, <1>5, <2>1, <4>3, <4>4 DEF StoredAt
    <3>2. CASE Connected(t, s) \/ ConnectFails(t, s)
      <4>1. CASE s = "client"
        <5>1. \/ dpc'[t] = [client |-> "Store", origin |-> "Begin"]
              \/ dpc'[t] = [client |-> "Close", origin |-> "OK"]
          BY <1>1, <3>2, <4>1 DEF Connected, ConnectFails, ThreadTypes
        <5>2. QED
          BY <5>1 DEF StoredAt, Sides
      <4>2. CASE s # "client"
        <5>1. /\ s = "origin" /\ dpc'[t]["client"] = dpc[t]["client"]
              /\ dpc'[t]["origin"] \in {"Store", "Close"}
          BY <1>1, <3>2, <4>2 DEF Connected, ConnectFails, ThreadTypes, Sides
        <5>2. QED
          BY <1>2, <1>4, <1>5, <2>1, <5>1 DEF StoredAt, Sides
      <4>3. QED
        BY <4>1, <4>2
    <3>3. CASE StoreConn(t, s) \/ StoreTLSConn(t, s)
      <4>1. \E to \in {"CheckTLS", "OK", "Close"} :
              /\ dpc' = [dpc EXCEPT ![t][s] = to]
              /\ to # "Close" => dataConn' = [dataConn EXCEPT ![owner[t]][s] = t]
              /\ dpc[t][s] \notin {"Close", "Err"}
        BY <3>3 DEF StoreConn, StoreTLSConn, Goto
      <4>2. t # None
        BY DEF Transfers
      <4>3. QED
        BY <1>1, <1>2, <1>4, <1>5, <2>1, <4>1, <4>2 DEF StoredAt, ThreadTypes, HandlerTypes
    <3>4. QED
      BY <3>1, <3>2, <3>3 DEF Connect
  <2>4. QED
    BY <2>2, <2>3 DEF Stored
<1>12. QED
  BY <1>7, <1>8, <1>9, <1>10, <1>11 DEF CopyInv

LEMMA CopyCopies ==
    ASSUME IInv, NEW t \in Transfers, NEW s \in Sides, Copy(t, s) \/ Expire(t, s)
    PROVE  CopyInv'
<1>1. /\ TypeOK /\ SessionTypes /\ HandlerTypes /\ ThreadTypes /\ CopyInv
  BY DEF IInv, TypeOK
<1>2. UNCHANGED <<created, started, owner, tpc, dpc, closed, dataConn>>
  BY DEF Copy, BeginCopy, CheckClosed, ReadChunk, ReadEOF, ReadFails, WriteChunk,
     WriteFails, Expire, copyFrame, sessionVars, handlerVars, threadVars
<1>3. CASE UNCHANGED <<kpc, kconn>>
  BY <1>1, <1>2, <1>3 DEF CopyInv, Owned, Stored, StoredAt, Joined, Given, CopierHasConns
<1>4. CASE BeginCopy(t, s)
  <2>1. owner[t] \in Handlers /\ \A r \in Sides : dpc[t][r] = "OK"
    BY <1>1, <1>4, HasHandler DEF BeginCopy, CopyInv, Joined
  <2>2. ~closed[owner[t]] => \A r \in Sides : dataConn[owner[t]][r] # None
    BY <1>1, <2>1 DEF CopyInv, Stored, StoredAt, Handlers, Sides
  <2>3. /\ \A u \in Transfers, r \in Sides : <<u, r>> # <<t, s>> =>
             kpc'[u][r] = kpc[u][r] /\ kconn'[u][r] = kconn[u][r]
        /\ kpc'[t][s] = "Check" /\ kconn'[t][s] = dataConn[owner[t]]
        /\ kpc[t][s] = "Begin"
    BY <1>1, <1>4 DEF BeginCopy, ThreadTypes
  <2>4. QED
    BY <1>1, <1>2, <2>1, <2>2, <2>3 DEF CopyInv, Owned, Stored, StoredAt, Joined,
       Given, CopierHasConns
<1>5. CASE ~BeginCopy(t, s) /\ ~UNCHANGED <<kpc, kconn>>
  <2>1. /\ kconn' = kconn /\ kpc[t][s] \in {"Check", "Read", "Write"}
        /\ \E to \in {"Check", "Read", "Write", "Ended"} :
             /\ kpc' = [kpc EXCEPT ![t][s] = to]
             /\ to = "Read" => kpc[t][s] = "Check" /\ ~closed[owner[t]]
             /\ to = "Write" => kpc[t][s] = "Read"
             /\ to = "Check" => kpc[t][s] = "Write"
    BY <1>5 DEF Copy, CheckClosed, ReadChunk, ReadEOF, ReadFails, WriteChunk,
       WriteFails, Expire, threadVars
  <2>2. PICK to \in {"Check", "Read", "Write", "Ended"} :
             /\ kpc' = [kpc EXCEPT ![t][s] = to]
             /\ to = "Read" => kpc[t][s] = "Check" /\ ~closed[owner[t]]
             /\ to = "Write" => kpc[t][s] = "Read"
             /\ to = "Check" => kpc[t][s] = "Write"
    BY <2>1
  <2>3. to # "Ended" => \A r \in Sides : kconn[t][s][r] # None
    BY <1>1, <2>2 DEF CopyInv, Given, CopierHasConns
  <2>4. /\ \A u \in Transfers, r \in Sides : <<u, r>> # <<t, s>> =>
             kpc'[u][r] = kpc[u][r]
        /\ kpc'[t][s] = to
    BY <1>1, <2>2 DEF ThreadTypes
  <2>5. Owned' /\ Stored' /\ Joined'
    BY <1>1, <1>2, <2>1, <2>4 DEF CopyInv, Owned, Stored, StoredAt, Joined
  <2>6. Given' /\ CopierHasConns'
    BY <1>1, <1>2, <2>1, <2>3, <2>4 DEF CopyInv, Given, CopierHasConns
  <2>7. QED
    BY <2>5, <2>6 DEF CopyInv
<1>6. QED
  BY <1>3, <1>4, <1>5

-----------------------------------------------------------------------------
(* The ports.                                                              *)

LEMMA SameReleasing ==
    ASSUME Listening, UNCHANGED <<closed, listener>>
    PROVE  Releasing
BY DEF Listening, Releasing

(* Steps that leave the installed handler where it is.                     *)
LEMMA SameCommand ==
    ASSUME SessionTypes, Listening, Ended, Closing, Releasing,
           UNCHANGED <<cpc, current, created, rpc>>
    PROVE  Listening' /\ Ended'
<1>1. Listening'
  BY DEF SessionTypes, Listening, Releasing, Handlers
<1>2. current # None => current \in Handlers
  BY DEF SessionTypes, Handlers
<1>3. Ended'
  BY <1>2 DEF Ended, Closing
<1>4. QED
  BY <1>1, <1>3

LEMMA CommandPorts ==
    ASSUME IInv, CStep
    PROVE  Listening' /\ Ended'
<1>1. SessionTypes /\ HandlerTypes /\ Places /\ Listening /\ Ended
  BY DEF IInv, TypeOK
<1>2. current \in 0 .. MaxHandlers /\ current <= created
  BY <1>1 DEF SessionTypes
<1>3. CASE HandleDATA \/ HandleTransfer \/ CheckStarted \/ SendTransfer \/ EndCommands
  <2>1. /\ UNCHANGED <<current, created, rpc, closed, listener>>
        /\ cpc \notin {"Destroy", "Install", "SendData"}
        /\ cpc' \notin {"Destroy", "Install", "SendData"}
    BY <1>3 DEF HandleDATA, HandleTransfer, CheckStarted, SendTransfer,
       EndCommands, callerFrame, handlerVars
  <2>2. QED
    BY <1>1, <2>1 DEF Listening, Ended
<1>4. CASE NewDataHandler
  <2>1. CASE cpc' = "Read"
    BY <1>1, <1>4, <2>1 DEF NewDataHandler, Listening, Ended
  <2>2. CASE cpc' # "Read"
    <3>1. /\ cpc' = "Destroy" /\ created' = created + 1 /\ created' \in Handlers
          /\ UNCHANGED <<current, rpc, closed>>
          /\ \A h \in Handlers : h # created' => listener'[h] = listener[h]
      BY <1>1, <1>4, <2>2 DEF NewDataHandler, SessionTypes, HandlerTypes, Places, Handlers
    <3>2. QED
      BY <1>1, <1>2, <1>4, <3>1 DEF NewDataHandler, SessionTypes, Listening, Ended, Handlers
  <2>3. QED
    BY <2>1, <2>2
<1>5. CASE DestroyPrevious
  <2>1. Closing /\ Releasing /\ (current # None => closed'[current])
    BY <1>1, <1>2, <1>5, CloseFacts DEF DestroyPrevious
  <2>2. /\ UNCHANGED <<current, created, rpc>>
        /\ cpc = "Destroy" /\ cpc' = "Install"
    BY <1>5 DEF DestroyPrevious, callerFrame
  <2>3. QED
    BY <1>1, <1>2, <2>1, <2>2 DEF SessionTypes, Listening, Releasing, Ended, Handlers
<1>6. CASE InstallHandler
  BY <1>1, <1>6 DEF InstallHandler, callerFrame, handlerVars, Listening, Ended
<1>7. CASE SendData
  <2>1. /\ UNCHANGED <<current, created, rpc>>
        /\ cpc = "SendData" /\ cpc' = "Read" /\ current # None
        /\ Close(current) \/ UNCHANGED <<closed, listener>>
        /\ rpc # "Run" => Close(current) \/ (UNCHANGED closed /\ closed[current])
    BY <1>1, <1>7 DEF SendData, callerFrame, Places
  <2>2. Releasing /\ (rpc # "Run" => closed'[current])
    BY <1>1, <1>2, <2>1, CloseFacts, SameReleasing
  <2>3. QED
    BY <1>1, <2>1, <2>2 DEF SessionTypes, Listening, Releasing, Ended, Handlers
<1>8. QED
  BY <1>3, <1>4, <1>5, <1>6, <1>7 DEF CStep

LEMMA ReplyPorts ==
    ASSUME IInv, EndSession \/ DestroyDataHandler \/ TakeReply \/ Peers
    PROVE  Listening' /\ Ended'
<1>1. SessionTypes /\ HandlerTypes /\ Listening /\ Ended
  BY DEF IInv, TypeOK
<1>2. current \in 0 .. MaxHandlers /\ current <= created
  BY <1>1 DEF SessionTypes
<1>3. CASE EndSession
  BY <1>1, <1>3 DEF EndSession, handlerVars, Listening, Ended
<1>4. CASE DestroyDataHandler
  <2>1. Releasing /\ (current # None => closed'[current])
    BY <1>1, <1>2, <1>4, CloseFacts DEF DestroyDataHandler
  <2>2. QED
    BY <1>1, <1>4, <2>1 DEF DestroyDataHandler, SessionTypes, Listening, Releasing,
       Ended, Handlers
<1>5. CASE TakeReply \/ Peers
  BY <1>1, <1>5, SameCommand, SameClosing, SameReleasing DEF TakeReply, Peers,
     PeerSends, PeerCloses, OriginRefuses, OriginMarks, OriginFinishes,
     sessionVars, handlerVars
<1>6. QED
  BY <1>3, <1>4, <1>5

LEMMA ThreadPorts ==
    ASSUME IInv, NEW t \in Transfers, NEW s \in Sides,
           Transfer(t) \/ Connect(t, s) \/ Copy(t, s) \/ Expire(t, s)
    PROVE  Listening' /\ Ended'
<1>1. /\ TypeOK /\ SessionTypes /\ HandlerTypes /\ ThreadTypes
      /\ CopyInv /\ Listening /\ Ended
  BY DEF IInv, TypeOK
<1>2. UNCHANGED <<cpc, current, created, rpc>>
  BY DEF Transfer, JoinConnect, JoinRun, EndTransfer, Connect, BeginConnect, Connected,
     ConnectFails, StoreConn, CheckTLS, Handshake, StoreTLSConn, CloseAfterErr, Copy,
     BeginCopy, CheckClosed, ReadChunk, ReadEOF, ReadFails, WriteChunk, WriteFails,
     Expire, connectFrame, copyFrame, sessionVars
<1>3. CASE EndTransfer(t) \/ CloseAfterErr(t, s)
  <2>1. owner[t] \in 0 .. MaxHandlers /\ owner[t] <= created
    BY <1>1 DEF ThreadTypes, CopyInv, Owned
  <2>2. Closing /\ Releasing
    BY <1>1, <1>3, <2>1, CloseFacts DEF EndTransfer, CloseAfterErr
  <2>3. QED
    BY <1>1, <1>2, <2>2, SameCommand
<1>4. CASE StoreConn(t, s) \/ StoreTLSConn(t, s)
  <2>1. UNCHANGED closed
    BY <1>4 DEF StoreConn, StoreTLSConn
  <2>2. \A h \in Handlers, r \in Sides :
          listener'[h][r] = "open" => listener[h][r] = "open"
    <3>1. \/ listener' = listener
          \/ listener' = [listener EXCEPT ![owner[t]][s] =
                            IF @ = "open" THEN "closed" ELSE @]
      BY <1>4 DEF StoreConn, StoreTLSConn
    <3>2. CASE listener' = listener
      BY <3>2
    <3>3. CASE listener' = [listener EXCEPT ![owner[t]][s] =
                             IF @ = "open" THEN "closed" ELSE @]
      BY <1>1, <3>3 DEF HandlerTypes
    <3>4. QED
      BY <3>1, <3>2, <3>3
  <2>3. QED
    BY <1>1, <1>2, <2>1, <2>2 DEF Listening, Ended
<1>5. CASE ~(EndTransfer(t) \/ CloseAfterErr(t, s) \/ StoreConn(t, s) \/ StoreTLSConn(t, s))
  <2>1. UNCHANGED <<closed, listener>>
    BY <1>5 DEF Transfer, JoinConnect, JoinRun, Connect, BeginConnect, Connected,
       ConnectFails, CheckTLS, Handshake, Copy, BeginCopy, CheckClosed, ReadChunk,
       ReadEOF, ReadFails, WriteChunk, WriteFails, Expire, copyFrame, handlerVars
  <2>2. QED
    BY <1>1, <1>2, <2>1 DEF Listening, Ended
<1>6. QED
  BY <1>3, <1>4, <1>5

-----------------------------------------------------------------------------
(* The theorems.                                                           *)

LEMMA NextInv == IInv /\ [Next]_vars => IInv'
<1> SUFFICES ASSUME IInv, [Next]_vars PROVE IInv'
  OBVIOUS
<1>1. CASE CStep
  BY <1>1, CommandTypes, PlacesKept, CommandCopies, CommandPorts DEF IInv, Next
<1>2. CASE EndSession \/ DestroyDataHandler \/ TakeReply \/ Peers
  BY <1>2, ReplyTypes, PlacesKept, ReplyCopies, ReplyPorts DEF IInv, Next
<1>3. ASSUME NEW t \in Transfers, Transfer(t) PROVE IInv'
  <2>1. "client" \in Sides
    BY DEF Sides
  <2>2. QED
    BY <1>3, <2>1, TransferTypes, PlacesKept, TransferCopies, ThreadPorts DEF IInv, Next
<1>4. ASSUME NEW t \in Transfers, NEW s \in Sides, Connect(t, s) PROVE IInv'
  BY <1>4, ConnectTypes, PlacesKept, ConnectCopies, ThreadPorts DEF IInv, Next
<1>5. ASSUME NEW t \in Transfers, NEW s \in Sides, Copy(t, s) \/ Expire(t, s)
      PROVE  IInv'
  BY <1>5, CopyTypes, PlacesKept, CopyCopies, ThreadPorts DEF IInv, Next
<1>6. CASE UNCHANGED vars
  <2>1. TypeOK'
    BY <1>6, SessionSame, HandlersSame, ThreadsSame, DataSame DEF IInv, TypeOK, vars
  <2>2. Places' /\ CopyInv' /\ Listening' /\ Ended'
    BY <1>6 DEF IInv, vars, sessionVars, handlerVars, threadVars, Places, CopyInv,
       Owned, Stored, StoredAt, Joined, Given, CopierHasConns, Listening, Ended
  <2>3. QED
    BY <2>1, <2>2 DEF IInv
<1>7. QED
  BY <1>1, <1>2, <1>3, <1>4, <1>5, <1>6 DEF Next

(* In every state of every behaviour the inductive invariant holds.        *)
THEOREM Invariance == Spec => []IInv
<1>1. QED
  BY InitInv, NextInv, PTL DEF Spec

(* The fields keep their types: no counter passes its bound, and every     *)
(* handler and connection that a field names is one that was made.         *)
THEOREM TypeCorrect == Spec => []TypeOK
<1>1. IInv => TypeOK
  BY DEF IInv
<1>2. QED
  BY <1>1, Invariance, PTL

(* A goroutine of copyPackets that reads or writes was given both          *)
(* connections, although Close sets dataConn to nil at any step, under it  *)
(* or under the goroutines that connect.                                   *)
THEOREM CopiersHaveConns == Spec => []CopierHasConns
<1>1. IInv => CopierHasConns
  BY DEF IInv, CopyInv
<1>2. QED
  BY <1>1, Invariance, PTL

(* When the command goroutine and the proxy have ended, no handler listens *)
(* on a port, whichever of them installed or closed the last one.          *)
THEOREM PortsAreReleased == Spec => []ListenersReleased
<1>1. IInv => ListenersReleased
  BY DEF IInv, TypeOK, SessionTypes, Listening, Ended, ListenersReleased, Handlers
<1>2. QED
  BY <1>1, Invariance, PTL

-----------------------------------------------------------------------------
(* Which transfers are connected to what.                                  *)

(* Of the handlers made before the last one, only the installed one may be *)
(* open, until DestroyPrevious.                                            *)
Installed ==
    /\ IF cpc \in {"Destroy", "Install"} THEN current < created ELSE current = created
    /\ \A h \in Handlers : h < created /\ ~closed[h] => h = current /\ cpc = "Destroy"
    /\ \A t \in Transfers : owner[t] <= current

(* A patient client opens a data connection for every transfer.            *)
Unshared ==
    /\ \A t, u \in Transfers : owner[t] = owner[u] /\ owner[t] # None => t = u
    /\ cpc \in {"SendData", "CheckStarted"} => \A t \in Transfers : owner[t] # current

(* What a handler stores and a copier holds is its own transfer's; when    *)
(* the handler is closed, so are the sockets of a copier that still runs.  *)
OwnConns ==
    /\ \A h \in Handlers, s \in Sides :
         dataConn[h][s] # None => owner[dataConn[h][s]] = h
    /\ \A t \in Transfers, s \in Sides, r \in Sides : kconn[t][s][r] \in {None, t}
    /\ \A t \in Transfers, s \in Sides :
         kpc[t][s] \in {"Read", "Write"} /\ closed[owner[t]]
           => \A r \in Sides : sock[t][r] = "closed"

ConnInv == Installed /\ Unshared /\ OwnConns

(* A command goes to the origin once.                                      *)
Asked ==
    /\ cpc = "SendTransfer" => started \in Transfers
    /\ \A t \in Transfers :
         t > started \/ (t = started /\ cpc = "SendTransfer") => job[t] = "none"

(* One transfer at a time: what the origin still has to say is about the   *)
(* last one, and the client is told before it goes on.                     *)
Pending(t) == job[t] \in {"sent", "marked"}
Answers ==
    /\ cpc \notin {"Read", "Done"} => ~awaiting
    /\ ~awaiting => fromOrigin = <<>> /\ \A t \in Transfers : ~Pending(t)
    /\ \A t \in Transfers :
         /\ Pending(t) => t = started
         /\ job[t] = "sent" => fromOrigin = <<>>
         /\ job[t] = "marked" => fromOrigin \in {<<>>, <<"150">>}
         /\ job[t] = "finished" => peer[t]["origin"] = "eof"
         /\ rpc = "Run" /\ job[t] = "none" =>
              t > started \/ (t = started /\ cpc = "SendTransfer")
    /\ awaiting /\ (\A t \in Transfers : ~Pending(t)) =>
         \E f \in {"226", "550"} : fromOrigin \in {<<f>>, <<"150", f>>}

(* The peers are there when pftp has connected to them, the origin after   *)
(* the client.                                                             *)
Unconnected == {"None", "Await", "Begin", "Open"}
Reached ==
    /\ \A t \in Transfers, s \in Sides :
         dpc[t][s] \in Unconnected => peer[t][s] = "none" /\ sock[t][s] = "none"
    /\ \A t \in Transfers :
         /\ dpc[t]["client"] \in {"Begin", "Open"} => dpc[t]["origin"] = "Await"
         /\ dpc[t]["origin"] \in {"Begin", "Open"} \/ peer[t]["origin"] # "none"
              => peer[t]["client"] # "none"
    /\ \A h \in Handlers, s \in Sides :
         dataConn[h][s] # None => dpc[dataConn[h][s]][s] \notin Unconnected

(* While C makes and installs a handler, no transfer is under way but what *)
(* a refused one has left.                                                 *)
Over == cpc \in {"NewHandler", "Destroy", "Install", "SendData"} /\ rpc = "Run" =>
    \A t \in Transfers : owner[t] # None =>
      Refused(t) \/ (job[t] = "finished" /\ peer[t]["client"] = "eof")

TurnInv == Answers /\ Reached /\ Over

(* A transfer that nobody has given up yet, towards its destination.       *)
Sink(t) == Other(Source(t))
Flowing(t) ==
    /\ owner[t] # None /\ rpc = "Run" /\ ~Refused(t)
    /\ \A r \in Sides : dpc[t][r] \notin {"Close", "Err"} /\ ~expired[t][r]
    /\ peer[t][Sink(t)] # "eof"

(* Its handler is open, what the source has sent is all there, and pftp    *)
(* ends the stream when it has passed on everything.                       *)
PassedOn(t) ==
    LET s == Source(t)
    IN  IF kpc[t][s] = "Ended"
        THEN /\ peer[t][s] = "eof" /\ got[t] = sent[t]
             /\ sock[t][Sink(t)] = "half"
        ELSE /\ sock[t][Sink(t)] \in {"none", "open"}
             /\ unread[t] + got[t] + (IF kpc[t][s] = "Write" THEN 1 ELSE 0) = sent[t]
Kept(t) ==
    /\ ~closed[owner[t]] /\ tpc[t] \in {"Connect", "Run"}
    /\ tpc[t] = "Connect" => \A r \in Sides : kpc[t][r] = "None"
    /\ kpc[t][Sink(t)] \in {"None", "Begin", "Check", "Read"}
    /\ sock[t][Source(t)] \in {"none", "open"}
    /\ \A r \in Sides : sock[t][r] = "none" => dpc[t][r] \in Unconnected
    /\ PassedOn(t)
Flows == \A t \in Transfers : Flowing(t) => Kept(t)

(* The handler that handleTransfer has found open still is, and nothing    *)
(* has been sent to a transfer that is not there.                          *)
StillOpen == cpc = "CheckStarted" /\ rpc = "Run" => ~closed[current]
Unused == \A t \in Transfers :
    owner[t] = None => sent[t] = 0 /\ unread[t] = 0 /\ got[t] = 0

FlowInv == Flows /\ StillOpen /\ Unused

(* The sockets of a transfer end with its handler, when no connection can  *)
(* be made or stored after that.                                           *)
NothingLate == Patient /\ PromptLocal /\ ~SessionMayEnd /\ ~TransferTLS
Opening == {"Await", "Begin", "Open", "Store"}

(* The origin side follows the client side, and a client side that fails   *)
(* takes it along.                                                         *)
InStep(t) ==
    /\ \A s \in Sides : dpc[t][s] \notin {"CheckTLS", "Handshake", "Wrapped"}
    /\ dpc[t]["origin"] \notin {"None", "Await"} =>
         dpc[t]["client"] \in {"Store", "OK", "Close", "Err"}
    /\ dpc[t]["client"] \in {"Close", "Err"} /\ ~Refused(t) =>
         dpc[t]["origin"] = "OK"
    /\ tpc[t] \in {"Run", "Close", "Done"} => \A s \in Sides : dpc[t][s] \in {"OK", "Err"}

(* What is open is stored with the handler and ends with it.               *)
InHand(t) ==
    /\ \A s \in Sides :
         /\ dpc[t][s] \in {"Close", "Err"} => sock[t][s] \in {"none", "closed"}
         /\ dpc[t][s] = "OK" /\ ~closed[owner[t]] /\ sock[t][s] # "none"
              => dataConn[owner[t]][s] = t
    /\ tpc[t] = "Done" => closed[owner[t]]
    /\ ~Refused(t) /\ closed[owner[t]] =>
         \A s \in Sides : dpc[t][s] \notin Opening /\ sock[t][s] \in {"none", "closed"}

EndInv == rpc = "Run" /\ \A t \in Transfers : owner[t] # None => InStep(t) /\ InHand(t)

(* When no transfer is marked, and none was given up after its 150, the    *)
(* last 150 on its way is followed by 226, and so is the one that has set  *)
(* the flag.                                                               *)
Marked(t) == job[t] \in {"marked", "aborted"}
Freed ==
    \/ \E t \in Transfers : Marked(t)
    \/ \E i \in 1 .. Len(fromOrigin) :
         fromOrigin[i] = "226" /\ \A j \in i .. Len(fromOrigin) : fromOrigin[j] # "150"
    \/ ~inDataTransfer /\ \A i \in 1 .. Len(fromOrigin) : fromOrigin[i] # "150"

BusyInv == Asked /\ Freed

(* What a step of a transfer's goroutines leaves alone, and that it closes *)
(* nothing but its own handler.                                            *)
LEMMA ThreadFrame ==
    ASSUME IInv, NEW t \in Transfers, NEW s \in Sides,
           Transfer(t) \/ Connect(t, s) \/ Copy(t, s) \/ Expire(t, s)
    PROVE  /\ UNCHANGED <<sessionVars, owner, direction, replyVars>>
           /\ owner[t] \in Handlers /\ owner[t] # None /\ owner[t] <= created
           /\ \A h \in Handlers : /\ closed[h] => closed'[h]
                                  /\ h # owner[t] => closed'[h] = closed[h]
<1>1. UNCHANGED <<sessionVars, owner, direction, replyVars>>
  BY DEF Transfer, JoinConnect, JoinRun, EndTransfer, Connect, BeginConnect, Connected,
     ConnectFails, StoreConn, CheckTLS, Handshake, StoreTLSConn, CloseAfterErr, Copy,
     BeginCopy, CheckClosed, ReadChunk, ReadEOF, ReadFails, WriteChunk, WriteFails,
     Expire, connectFrame, copyFrame, threadVars
<1>2. \/ tpc[t] # "None"
      \/ \E r \in Sides : dpc[t][r] # "None" \/ kpc[t][r] # "None"
  BY DEF Transfer, JoinConnect, JoinRun, EndTransfer, Connect, BeginConnect, Connected,
     ConnectFails, StoreConn, CheckTLS, Handshake, StoreTLSConn, CloseAfterErr, Copy,
     BeginCopy, CheckClosed, ReadChunk, ReadEOF, ReadFails, WriteChunk, WriteFails,
     Expire
<1>3. owner[t] \in Handlers /\ owner[t] # None /\ owner[t] <= created
  BY <1>2, HasHandler DEF IInv, CopyInv, Owned, Handlers
<1>4. UNCHANGED closed \/ Close(owner[t])
  BY DEF Transfer, JoinConnect, JoinRun, EndTransfer, Connect, BeginConnect, Connected,
     ConnectFails, StoreConn, CheckTLS, Handshake, StoreTLSConn, CloseAfterErr, Copy,
     BeginCopy, CheckClosed, ReadChunk, ReadEOF, ReadFails, WriteChunk, WriteFails,
     Expire, copyFrame, handlerVars
<1>5. \A h \in Handlers : /\ closed[h] => closed'[h]
                          /\ h # owner[t] => closed'[h] = closed[h]
  BY <1>3, <1>4 DEF Close, IInv, TypeOK, HandlerTypes
<1> QED
  BY <1>1, <1>3, <1>5

(* The same for the replies, the peers and the end of the session.         *)
LEMMA ReplyFrame ==
    ASSUME IInv, EndSession \/ DestroyDataHandler \/ TakeReply \/ Peers
    PROVE  /\ UNCHANGED <<cpc, current, created, started, threadVars>>
           /\ \A h \in Handlers : closed[h] => closed'[h]
<1>1. UNCHANGED <<cpc, current, created, started, threadVars>>
  BY DEF EndSession, DestroyDataHandler, TakeReply, Peers, PeerSends, PeerCloses,
     OriginRefuses, OriginMarks, OriginFinishes, sessionVars
<1>2. UNCHANGED closed \/ Close(current)
  BY DEF EndSession, DestroyDataHandler, TakeReply, Peers, PeerSends, PeerCloses,
     OriginRefuses, OriginMarks, OriginFinishes, handlerVars
<1>3. \A h \in Handlers : closed[h] => closed'[h]
  BY <1>2 DEF Close, IInv, TypeOK, HandlerTypes
<1> QED
  BY <1>1, <1>3

LEMMA InstalledStays ==
    ASSUME Installed, UNCHANGED <<cpc, current, created, owner>>,
           \A h \in Handlers : closed[h] => closed'[h]
    PROVE  Installed'
BY DEF Installed

LEMMA InstalledKept ==
    ASSUME IInv, Installed, Next
    PROVE  Installed'
<1>1. /\ SessionTypes /\ HandlerTypes /\ ThreadTypes /\ Places /\ Listening
  BY DEF IInv, TypeOK
<1>2. current \in 0 .. MaxHandlers /\ current <= created /\ created \in Nat
  BY <1>1 DEF SessionTypes
<1>3. CASE HandleDATA \/ HandleTransfer \/ SendTransfer \/ EndCommands
  BY <1>3, InstalledStays DEF Installed, HandleDATA, HandleTransfer, SendTransfer, EndCommands,
     callerFrame, handlerVars, threadVars
<1>4. CASE NewDataHandler
  BY <1>2, <1>4 DEF NewDataHandler, Installed, Handlers, threadVars
<1>5. CASE DestroyPrevious
  <2>1. \A h \in Handlers : closed[h] => closed'[h]
    BY <1>1, <1>2, <1>5, CloseFacts DEF DestroyPrevious, Closing
  <2>2. current # None => closed'[current]
    BY <1>1, <1>2, <1>5, CloseFacts DEF DestroyPrevious
  <2>3. cpc = "Destroy" /\ cpc' = "Install" /\ UNCHANGED <<current, created, owner>>
    BY <1>5 DEF DestroyPrevious, callerFrame, threadVars
  <2>4. closed' \in [Handlers -> BOOLEAN]
    BY CommandTypes, <1>5 DEF CStep, TypeOK, HandlerTypes
  <2>5. ASSUME NEW h \in Handlers, h < created, ~closed'[h] PROVE FALSE
    BY <2>1, <2>2, <2>3, <2>5 DEF Installed, Handlers
  <2> QED
    BY <2>3, <2>5 DEF Installed
<1>6. CASE InstallHandler
  <2>1. \A t \in Transfers : owner[t] \in Nat
    BY <1>1 DEF ThreadTypes
  <2> QED
    BY <1>2, <1>6, <2>1 DEF InstallHandler, Installed, callerFrame, handlerVars, threadVars
<1>7. CASE SendData
  <2>1. \A h \in Handlers : closed[h] => closed'[h]
    BY <1>1, <1>2, <1>7, CloseFacts DEF SendData, Closing
  <2> QED
    BY <1>7, <2>1 DEF SendData, Installed, callerFrame, threadVars
<1>8. CASE CheckStarted
  <2>1. \/ owner' = owner
        \/ owner' = [owner EXCEPT ![started'] = current]
    BY <1>8 DEF CheckStarted
  <2>2. \A t \in Transfers : owner'[t] = owner[t] \/ owner'[t] = current
    BY <1>1, <2>1 DEF ThreadTypes
  <2> QED
    BY <1>2, <1>8, <2>2 DEF CheckStarted, Installed, handlerVars
<1>9. CASE EndSession \/ DestroyDataHandler \/ TakeReply \/ Peers
  BY <1>9, ReplyFrame, InstalledStays DEF threadVars
<1>10. CASE \E t \in Transfers :
              Transfer(t) \/ \E s \in Sides : Connect(t, s) \/ Copy(t, s) \/ Expire(t, s)
  <2>1. PICK t \in Transfers, s \in Sides :
               Transfer(t) \/ Connect(t, s) \/ Copy(t, s) \/ Expire(t, s)
    BY <1>10 DEF Sides
  <2> QED
    BY <2>1, ThreadFrame, InstalledStays DEF sessionVars
<1> QED
  BY <1>3, <1>4, <1>5, <1>6, <1>7, <1>8, <1>9, <1>10 DEF Next, CStep

LEMMA UnsharedKept ==
    ASSUME Patient, IInv, Installed, Unshared, Next
    PROVE  Unshared'
<1>1. SessionTypes /\ ThreadTypes /\ Places
  BY DEF IInv, TypeOK
<1>2. CASE CheckStarted
  <2>1. CASE UNCHANGED owner
    BY <1>2, <2>1 DEF CheckStarted, Unshared
  <2>2. CASE owner' = [owner EXCEPT ![started'] = current] /\ cpc' = "SendTransfer"
    <3>1. \A t \in Transfers : IF t = started' THEN owner'[t] = current
                                               ELSE owner'[t] = owner[t]
      BY <1>1, <2>2 DEF ThreadTypes
    <3>2. \A t \in Transfers : owner[t] # current
      BY <1>2 DEF CheckStarted, Unshared
    <3> QED
      BY <2>2, <3>1, <3>2 DEF Unshared
  <2> QED
    BY <1>2, <2>1, <2>2 DEF CheckStarted
<1>6. CASE InstallHandler
  <2>1. \A t \in Transfers : owner[t] # created
    <3>1. current \in Nat /\ created \in Nat /\ \A t \in Transfers : owner[t] \in Nat
      BY <1>1 DEF SessionTypes, ThreadTypes
    <3> QED
      BY <1>6, <3>1 DEF InstallHandler, Installed
  <2> QED
    BY <1>6, <2>1 DEF InstallHandler, Unshared, callerFrame, threadVars
<1>3. CASE CStep /\ ~CheckStarted /\ ~InstallHandler
  <2>1. UNCHANGED owner
    BY <1>3 DEF CStep, HandleDATA, NewDataHandler, DestroyPrevious, InstallHandler, SendData,
       HandleTransfer, SendTransfer, EndCommands, callerFrame, threadVars
  <2>2. cpc' \in {"SendData", "CheckStarted"} => HandleTransfer
    BY <1>3 DEF CStep, HandleDATA, NewDataHandler, DestroyPrevious, SendData, SendTransfer,
       EndCommands
  <2>3. HandleTransfer => current' = current /\ \A t \in Transfers : owner[t] # current
    BY DEF HandleTransfer
  <2> QED
    BY <2>1, <2>2, <2>3 DEF Unshared
<1>4. CASE EndSession \/ DestroyDataHandler \/ TakeReply \/ Peers
  BY <1>4, ReplyFrame DEF Unshared, threadVars
<1>5. CASE \E t \in Transfers :
              Transfer(t) \/ \E s \in Sides : Connect(t, s) \/ Copy(t, s) \/ Expire(t, s)
  <2>1. PICK t \in Transfers, s \in Sides :
               Transfer(t) \/ Connect(t, s) \/ Copy(t, s) \/ Expire(t, s)
    BY <1>5 DEF Sides
  <2>2. UNCHANGED <<sessionVars, owner>>
    BY <2>1, ThreadFrame
  <2> QED
    BY <2>2 DEF Unshared, sessionVars
<1> QED
  BY <1>2, <1>3, <1>4, <1>5, <1>6 DEF Next

(* A copier that still runs with an open handler has what is stored there, *)
(* and that is its own.                                                    *)
LEMMA CopierStored ==
    ASSUME IInv, Unshared, OwnConns, NEW t \in Transfers, NEW s \in Sides, NEW r \in Sides,
           kpc[t][s] # "None", ~closed[owner[t]]
    PROVE  dataConn[owner[t]][r] = t
<1>1. owner[t] \in Handlers /\ owner[t] # None
  BY HasHandler DEF IInv, CopyInv, Handlers
<1>2. \A q \in Sides : dpc[t][q] = "OK"
  BY DEF IInv, CopyInv, Joined
<1>3. dataConn[owner[t]][r] # None
  BY <1>1, <1>2 DEF IInv, CopyInv, Stored, StoredAt, Sides
<1>4. dataConn[owner[t]][r] \in Transfers
  BY <1>1, <1>3 DEF IInv, TypeOK, HandlerTypes, Transfers
<1> QED
  BY <1>1, <1>3, <1>4 DEF OwnConns, Unshared

(* What Close does to the sockets and the connections.                     *)
LEMMA CloseEffect ==
    ASSUME HandlerTypes, NEW h \in 0 .. MaxHandlers, Close(h)
    PROVE  \/ UNCHANGED <<closed, listener, dataConn, inDataTransfer, sock>>
           \/ /\ h \in Handlers /\ ~closed[h] /\ ~inDataTransfer'
              /\ \A g \in Handlers : closed'[g] = (g = h \/ closed[g])
              /\ \A g \in Handlers, r \in Sides :
                   dataConn'[g][r] = IF g = h THEN None ELSE dataConn[g][r]
              /\ \A t \in Transfers, r \in Sides :
                   sock'[t][r] = IF dataConn[h][r] = t THEN "closed" ELSE sock[t][r]
<1>1. CASE h = None \/ (h # None /\ closed[h])
  BY <1>1 DEF Close
<1>2. CASE ~(h = None \/ (h # None /\ closed[h]))
  <2>1. h \in Handlers /\ ~closed[h] /\ ~inDataTransfer'
    BY <1>2 DEF Close, Handlers
  <2>2. \A g \in Handlers : closed'[g] = (g = h \/ closed[g])
    BY <1>2, <2>1 DEF Close, HandlerTypes
  <2>3. \A g \in Handlers, r \in Sides :
          dataConn'[g][r] = IF g = h THEN None ELSE dataConn[g][r]
    BY <1>2, <2>1 DEF Close, HandlerTypes
  <2>4. \A t \in Transfers, r \in Sides :
          sock'[t][r] = IF dataConn[h][r] = t THEN "closed" ELSE sock[t][r]
    BY <1>2 DEF Close
  <2> QED
    BY <2>1, <2>2, <2>3, <2>4
<1> QED
  BY <1>1, <1>2

LEMMA CloseOwn ==
    ASSUME IInv, Unshared, OwnConns, NEW h \in 0 .. MaxHandlers, Close(h),
           UNCHANGED <<owner, kpc, kconn>>
    PROVE  OwnConns'
<1>1. HandlerTypes /\ ThreadTypes
  BY DEF IInv, TypeOK
<1>2. CASE UNCHANGED <<closed, dataConn, sock>>
  BY <1>2 DEF OwnConns
<1>3. CASE ~UNCHANGED <<closed, dataConn, sock>>
  <2>1. /\ \A g \in Handlers : closed'[g] = (g = h \/ closed[g])
        /\ \A g \in Handlers, r \in Sides :
             dataConn'[g][r] = IF g = h THEN None ELSE dataConn[g][r]
        /\ \A t \in Transfers, r \in Sides :
             sock'[t][r] = IF dataConn[h][r] = t THEN "closed" ELSE sock[t][r]
    BY <1>1, <1>3, CloseEffect
  <2>2. ASSUME NEW t \in Transfers, NEW s \in Sides, NEW r \in Sides,
               kpc[t][s] \in {"Read", "Write"}, closed'[owner[t]]
        PROVE  sock'[t][r] = "closed"
    <3>1. owner[t] \in Handlers
      BY <2>2, HasHandler DEF IInv, CopyInv
    <3>2. CASE closed[owner[t]]
      BY <2>1, <2>2, <3>2 DEF OwnConns
    <3>3. CASE ~closed[owner[t]]
      <4>1. dataConn[owner[t]][r] = t
        BY <2>2, <3>3, CopierStored
      <4>2. owner[t] = h
        BY <2>1, <2>2, <3>1, <3>3
      <4> QED
        BY <2>1, <4>1, <4>2
    <3> QED
      BY <3>2, <3>3
  <2>3. \A g \in Handlers, r \in Sides :
          dataConn'[g][r] # None => owner'[dataConn'[g][r]] = g
    BY <2>1 DEF OwnConns
  <2>4. \A t \in Transfers, s \in Sides, r \in Sides : kconn'[t][s][r] \in {None, t}
    BY DEF OwnConns
  <2> QED
    BY <2>2, <2>3, <2>4 DEF OwnConns
<1> QED
  BY <1>2, <1>3

LEMMA OwnStays ==
    ASSUME OwnConns, UNCHANGED <<owner, kpc, kconn, closed, dataConn, sock>>
    PROVE  OwnConns'
BY DEF OwnConns

LEMMA CommandOwn ==
    ASSUME IInv, Unshared, OwnConns, CStep
    PROVE  OwnConns'
<1>1. SessionTypes /\ HandlerTypes /\ ThreadTypes /\ Places
  BY DEF IInv, TypeOK
<1>2. current \in 0 .. MaxHandlers
  BY <1>1 DEF SessionTypes
<1>3. CASE DestroyPrevious \/ SendData
  BY <1>2, <1>3, CloseOwn, OwnStays DEF DestroyPrevious, SendData, callerFrame, threadVars
<1>4. CASE CheckStarted /\ owner' # owner
  <2>1. started' = started + 1 /\ started' \in Transfers
    BY <1>1, <1>4 DEF CheckStarted, SessionTypes, Places, Transfers
  <2>2. owner[started'] = None /\ \A s \in Sides : kpc[started'][s] = "None"
    BY <1>1, <2>1 DEF IInv, CopyInv, Owned, SessionTypes, Transfers
  <2>3. owner' = [owner EXCEPT ![started'] = current]
        /\ UNCHANGED <<kpc, kconn, closed, dataConn, sock>>
    BY <1>4 DEF CheckStarted, handlerVars
  <2>4. \A t \in Transfers : t # started' => owner'[t] = owner[t]
    BY <1>1, <2>3 DEF ThreadTypes
  <2>5. \A h \in Handlers, s \in Sides :
          dataConn[h][s] # None => dataConn[h][s] \in Transfers
    BY <1>1 DEF HandlerTypes, Transfers
  <2>6. \A h \in Handlers : h # None
    BY DEF Handlers
  <2> QED
    BY <2>2, <2>3, <2>4, <2>5, <2>6 DEF OwnConns
<1>5. CASE CheckStarted /\ owner' = owner
  BY <1>5, OwnStays DEF CheckStarted, handlerVars
<1>6. CASE HandleDATA \/ NewDataHandler \/ InstallHandler \/ HandleTransfer \/ SendTransfer
             \/ EndCommands
  BY <1>6, OwnStays DEF HandleDATA, NewDataHandler, InstallHandler, HandleTransfer,
     SendTransfer, EndCommands, callerFrame, handlerVars, threadVars
<1> QED
  BY <1>3, <1>4, <1>5, <1>6 DEF CStep

LEMMA ReplyOwn ==
    ASSUME IInv, Unshared, OwnConns, EndSession \/ DestroyDataHandler \/ TakeReply \/ Peers
    PROVE  OwnConns'
<1>1. current \in 0 .. MaxHandlers
  BY DEF IInv, TypeOK, SessionTypes
<1>2. CASE DestroyDataHandler
  BY <1>1, <1>2, CloseOwn DEF DestroyDataHandler, threadVars
<1>3. CASE EndSession \/ TakeReply \/ Peers
  BY <1>3, OwnStays DEF EndSession, TakeReply, Peers, PeerSends, PeerCloses, OriginRefuses,
     OriginMarks, OriginFinishes, handlerVars, threadVars
<1> QED
  BY <1>2, <1>3

LEMMA ConnectOwn ==
    ASSUME IInv, Unshared, OwnConns, NEW t \in Transfers, NEW s \in Sides, Connect(t, s)
    PROVE  OwnConns'
<1>1. HandlerTypes /\ ThreadTypes
  BY DEF IInv, TypeOK
<1>2. owner[t] \in Handlers /\ owner[t] \in 0 .. MaxHandlers
  BY ThreadFrame DEF Handlers
<1>3. UNCHANGED <<owner, kpc, kconn>>
  BY DEF Connect, BeginConnect, Connected, ConnectFails, StoreConn, CheckTLS, Handshake,
     StoreTLSConn, CloseAfterErr, connectFrame
<1>4. CASE CloseAfterErr(t, s)
  BY <1>2, <1>3, <1>4, CloseOwn DEF CloseAfterErr
<1>5. CASE BeginConnect(t, s) \/ ConnectFails(t, s) \/ CheckTLS(t, s) \/ Handshake(t, s)
  BY <1>3, <1>5, OwnStays DEF BeginConnect, ConnectFails, CheckTLS, Handshake, handlerVars
<1>6. CASE Connected(t, s)
  <2>1. \A r \in Sides : kpc[t][r] = "None"
    BY <1>6 DEF Connected, IInv, CopyInv, Joined
  <2>2. \A u \in Transfers : u # t => sock'[u] = sock[u]
    BY <1>1, <1>6 DEF Connected, HandlerTypes
  <2> QED
    BY <1>3, <1>6, <2>1, <2>2 DEF Connected, OwnConns, handlerVars
<1>7. CASE StoreConn(t, s) \/ StoreTLSConn(t, s)
  <2>1. dataConn' = dataConn \/ dataConn' = [dataConn EXCEPT ![owner[t]][s] = t]
    BY <1>7 DEF StoreConn, StoreTLSConn
  <2>2. UNCHANGED <<closed, sock>>
    BY <1>7 DEF StoreConn, StoreTLSConn
  <2>3. \A h \in Handlers, r \in Sides :
          dataConn'[h][r] = dataConn[h][r] \/ (h = owner[t] /\ dataConn'[h][r] = t)
    <3>1. CASE dataConn' = dataConn
      BY <3>1
    <3>2. CASE dataConn' = [dataConn EXCEPT ![owner[t]][s] = t]
      BY <1>1, <1>2, <3>2 DEF HandlerTypes
    <3> QED
      BY <2>1, <3>1, <3>2
  <2> QED
    BY <1>3, <2>2, <2>3 DEF OwnConns
<1> QED
  BY <1>4, <1>5, <1>6, <1>7 DEF Connect

LEMMA CopyOwn ==
    ASSUME IInv, Unshared, OwnConns, NEW t \in Transfers, NEW s \in Sides,
           Copy(t, s) \/ Expire(t, s)
    PROVE  OwnConns'
<1>1. HandlerTypes /\ ThreadTypes
  BY DEF IInv, TypeOK
<1>2. owner[t] \in Handlers
  BY ThreadFrame
<1>3. UNCHANGED <<owner, closed, dataConn>>
  BY DEF Copy, BeginCopy, CheckClosed, ReadChunk, ReadEOF, ReadFails, WriteChunk, WriteFails,
     Expire, copyFrame, handlerVars, threadVars
<1>4. \A u \in Transfers, r \in Sides : sock[u][r] = "closed" => sock'[u][r] = "closed"
  <2>1. CASE ReadEOF(t, s)
    BY <1>1, <2>1 DEF ReadEOF, HandlerTypes
  <2>2. CASE WriteFails(t, s)
    BY <1>1, <2>2 DEF WriteFails, HandlerTypes
  <2>3. CASE ~ReadEOF(t, s) /\ ~WriteFails(t, s)
    <3>1. UNCHANGED sock
      BY <2>3 DEF Copy, BeginCopy, CheckClosed, ReadChunk, ReadFails, WriteChunk, Expire
    <3> QED
      BY <3>1
  <2> QED
    BY <2>1, <2>2, <2>3
<1>5. \A u \in Transfers, q \in Sides, r \in Sides : kconn'[u][q][r] \in {None, u}
  <2>1. CASE BeginCopy(t, s)
    <3>1. \A u \in Transfers, q \in Sides : \/ kconn'[u][q] = kconn[u][q]
                                            \/ u = t /\ kconn'[u][q] = dataConn[owner[t]]
      BY <1>1, <2>1 DEF BeginCopy, ThreadTypes
    <3>2. \A r \in Sides : dataConn[owner[t]][r] # None => dataConn[owner[t]][r] \in Transfers
      BY <1>1, <1>2 DEF HandlerTypes, Transfers
    <3>3. \A r \in Sides : dataConn[owner[t]][r] \in {None, t}
      BY <1>2, <3>2 DEF OwnConns, Unshared, Handlers
    <3> QED
      BY <3>1, <3>3 DEF OwnConns
  <2>2. CASE ~BeginCopy(t, s)
    <3>1. kconn' = kconn
      BY <2>2 DEF Copy, CheckClosed, ReadChunk, ReadEOF, ReadFails, WriteChunk, WriteFails,
         Expire, threadVars
    <3> QED
      BY <3>1 DEF OwnConns
  <2> QED
    BY <2>1, <2>2
<1>6. \A u \in Transfers, q \in Sides : kpc'[u][q] \in {"Read", "Write"} =>
        kpc[u][q] \in {"Read", "Write"} \/ ~closed[owner[u]]
  <2>1. \/ kpc' = kpc
        \/ \E to \in {"Check", "Read", "Write", "Ended"} :
             /\ kpc' = [kpc EXCEPT ![t][s] = to]
             /\ to = "Read" => ~closed[owner[t]]
             /\ to = "Write" => kpc[t][s] = "Read"
    BY DEF Copy, BeginCopy, CheckClosed, ReadChunk, ReadEOF, ReadFails, WriteChunk, WriteFails,
       Expire, threadVars
  <2>2. CASE kpc' = kpc
    BY <2>2
  <2>3. ASSUME NEW to \in {"Check", "Read", "Write", "Ended"},
               kpc' = [kpc EXCEPT ![t][s] = to],
               to = "Read" => ~closed[owner[t]], to = "Write" => kpc[t][s] = "Read",
               NEW u \in Transfers, NEW q \in Sides, kpc'[u][q] \in {"Read", "Write"}
        PROVE  kpc[u][q] \in {"Read", "Write"} \/ ~closed[owner[u]]
    <3>1. kpc'[u][q] = IF u = t /\ q = s THEN to ELSE kpc[u][q]
      BY <1>1, <2>3 DEF ThreadTypes
    <3> QED
      BY <2>3, <3>1
  <2> QED
    BY <2>1, <2>2, <2>3
<1> QED
  BY <1>3, <1>4, <1>5, <1>6 DEF OwnConns

LEMMA OwnKept ==
    ASSUME IInv, Unshared, OwnConns, Next
    PROVE  OwnConns'
<1>1. ASSUME NEW t \in Transfers, Transfer(t)
      PROVE  OwnConns'
  <2>1. owner[t] \in 0 .. MaxHandlers
    BY <1>1 DEF IInv, TypeOK, ThreadTypes
  <2>2. CASE JoinRun(t)
    BY <2>2, OwnStays DEF JoinRun, handlerVars
  <2>3. CASE EndTransfer(t)
    BY <2>1, <2>3, CloseOwn DEF EndTransfer
  <2>4. CASE JoinConnect(t)
    <3>1. \A u \in Transfers, r \in Sides :
            kpc'[u][r] = kpc[u][r] \/ kpc'[u][r] = "Begin"
      <4>1. kpc' = kpc \/ kpc' = [kpc EXCEPT ![t] = [r \in Sides |-> "Begin"]]
        BY <2>4 DEF JoinConnect
      <4>2. kpc \in [Transfers -> [Sides -> {"None", "Begin", "Check", "Read", "Write", "Ended"}]]
        BY DEF IInv, TypeOK, ThreadTypes
      <4> QED
        BY <4>1, <4>2
    <3> QED
      BY <2>4, <3>1 DEF JoinConnect, OwnConns, handlerVars
  <2> QED
    BY <1>1, <2>2, <2>3, <2>4 DEF Transfer
<1> QED
  BY <1>1, CommandOwn, ReplyOwn, ConnectOwn, CopyOwn DEF Next

LEMMA InitConn == Init => ConnInv
<1> SUFFICES ASSUME Init PROVE ConnInv
  OBVIOUS
<1>1. Installed
  BY DEF Init, Installed, Handlers
<1>2. Unshared
  BY DEF Init, Unshared
<1>3. OwnConns
  BY DEF Init, OwnConns
<1> QED
  BY <1>1, <1>2, <1>3 DEF ConnInv

LEMMA NextConn ==
    ASSUME Patient, IInv, ConnInv, [Next]_vars
    PROVE  ConnInv'
<1>1. CASE Next
  BY <1>1, InstalledKept, UnsharedKept, OwnKept DEF ConnInv
<1>2. CASE UNCHANGED vars
  BY <1>2 DEF ConnInv, Installed, Unshared, OwnConns, vars, sessionVars, handlerVars, threadVars
<1> QED
  BY <1>1, <1>2

-----------------------------------------------------------------------------
(* What is copied.                                                         *)

(* A transfer whose copiers still have their connections is the one of the *)
(* installed handler.                                                      *)
LEMMA CopyingIsCurrent ==
    ASSUME IInv, ConnInv, NEW t \in Transfers, Copying(t)
    PROVE  owner[t] = current /\ owner[t] # None
<1>1. PICK s \in Sides : kpc[t][s] \in {"Read", "Write"} /\ Usable(kconn[t][s][s], s)
  BY DEF Copying
<1>2. owner[t] \in Handlers /\ owner[t] # None
  BY <1>1, HasHandler DEF IInv, CopyInv, Handlers
<1>3. kconn[t][s][s] = t
  BY <1>1 DEF IInv, CopyInv, CopierHasConns, ConnInv, OwnConns
<1>4. ~closed[owner[t]]
  BY <1>1, <1>3 DEF Usable, ConnInv, OwnConns
<1>5. owner[t] <= current /\ (owner[t] < created => owner[t] = current)
  BY <1>2, <1>4 DEF ConnInv, Installed
<1>6. created \in 0 .. MaxHandlers /\ current \in 0 .. created
  BY DEF IInv, TypeOK, SessionTypes
<1> QED
  BY <1>2, <1>5, <1>6 DEF Handlers

(* Only one data connection is in use at the same time, for a client that  *)
(* waits for the end of a transfer: its own handler is closed by the next  *)
(* one, and takes its connections along.                                   *)
THEOREM OneAtATime ==
    ASSUME Patient
    PROVE  Spec => []OneDataConnection
<1>1. IInv /\ ConnInv => OneDataConnection
  <2> SUFFICES ASSUME IInv, ConnInv PROVE Cardinality({t \in Transfers : Copying(t)}) <= 1
    BY DEF OneDataConnection
  <2> DEFINE busy == {t \in Transfers : Copying(t)}
  <2>1. \A t, u \in busy : t = u
    BY CopyingIsCurrent DEF ConnInv, Unshared
  <2>2. CASE busy = {}
    BY <2>2, FS_EmptySet
  <2>3. CASE busy # {}
    <3>1. PICK t \in busy : TRUE
      BY <2>3
    <3>2. busy = {t}
      BY <2>1, <3>1
    <3> QED
      BY <3>2, FS_Singleton
  <2> QED
    BY <2>2, <2>3
<1>2. Init => IInv /\ ConnInv
  BY InitInv, InitConn
<1>3. IInv /\ ConnInv /\ [Next]_vars => (IInv /\ ConnInv)'
  BY NextInv, NextConn
<1> QED
  BY <1>1, <1>2, <1>3, PTL DEF Spec

-----------------------------------------------------------------------------
(* The flag that makes pftp answer 450.                                    *)

LEMMA InitBusy == Init => BusyInv
<1> SUFFICES ASSUME Init PROVE BusyInv
  OBVIOUS
<1>1. Asked
  BY DEF Init, Asked
<1>2. Freed
  BY DEF Init, Freed
<1> QED
  BY <1>1, <1>2 DEF BusyInv

LEMMA AskedStays ==
    ASSUME Asked, UNCHANGED started, cpc' = "SendTransfer" => cpc = "SendTransfer",
           \A t \in Transfers : job[t] = "none" => job'[t] = "none"
    PROVE  Asked'
BY DEF Asked

LEMMA AskedKept ==
    ASSUME IInv, Asked, Next
    PROVE  Asked'
<1>1. SessionTypes
  BY DEF IInv, TypeOK
<1>2. CASE CheckStarted
  BY <1>1, <1>2 DEF CheckStarted, Asked, SessionTypes, replyVars, Transfers, IInv, Places
<1>3. CASE SendTransfer
  <2>1. \A t \in Transfers : job'[t] = job[t] \/ t = started
    BY <1>1, <1>3 DEF SendTransfer, SessionTypes
  <2> QED
    BY <1>1, <1>3, <2>1 DEF SendTransfer, Asked, SessionTypes, Transfers
<1>4. CASE CStep /\ ~CheckStarted /\ ~SendTransfer
  BY <1>4, AskedStays DEF CStep, HandleDATA, NewDataHandler, DestroyPrevious, InstallHandler,
     SendData, HandleTransfer, EndCommands, callerFrame, replyVars
<1>5. CASE EndSession \/ DestroyDataHandler \/ TakeReply \/ Peers
  <2>1. \A t \in Transfers : job[t] = "none" => job'[t] = "none"
    BY <1>1, <1>5 DEF EndSession, DestroyDataHandler, TakeReply, Peers, PeerSends, PeerCloses,
       OriginRefuses, OriginMarks, OriginFinishes, replyVars, SessionTypes
  <2> QED
    BY <1>5, <2>1, ReplyFrame, AskedStays
<1>6. CASE \E t \in Transfers :
              Transfer(t) \/ \E s \in Sides : Connect(t, s) \/ Copy(t, s) \/ Expire(t, s)
  <2>1. PICK t \in Transfers, s \in Sides :
               Transfer(t) \/ Connect(t, s) \/ Copy(t, s) \/ Expire(t, s)
    BY <1>6 DEF Sides
  <2> QED
    BY <2>1, ThreadFrame, AskedStays DEF sessionVars, replyVars
<1> QED
  BY <1>2, <1>3, <1>4, <1>5, <1>6 DEF Next

(* Close only takes the flag away.                                         *)
LEMMA FreedStays ==
    ASSUME Freed, UNCHANGED fromOrigin, inDataTransfer' => inDataTransfer,
           \A t \in Transfers : Marked(t) => Marked(t)'
    PROVE  Freed'
BY DEF Freed

LEMMA CloseFlag ==
    ASSUME NEW h, Close(h)
    PROVE  inDataTransfer' => inDataTransfer
BY DEF Close

LEMMA TakeReplyBusy ==
    ASSUME SessionTypes, Freed, TakeReply
    PROVE  Freed'
<1> DEFINE q == fromOrigin
<1>1. /\ q \in Seq({"150", "226", "550"}) /\ q # <<>> /\ fromOrigin' = Tail(q)
      /\ job' = job
  BY DEF SessionTypes, TakeReply
<1>2. /\ Len(q) \in Nat /\ Len(q) >= 1 /\ Head(q) = q[1] /\ Len(Tail(q)) = Len(q) - 1
      /\ \A i \in 1 .. Len(q) - 1 : Tail(q)[i] = q[i + 1]
  BY <1>1, LenProperties, EmptySeq, HeadTailProperties
<1>3. q[1] = "226" => ~inDataTransfer'
  BY <1>2 DEF TakeReply
<1>4. q[1] # "150" /\ ~inDataTransfer => ~inDataTransfer'
  BY <1>1, <1>2 DEF TakeReply
<1> HIDE DEF q
<1>5. CASE \E t \in Transfers : Marked(t)
  BY <1>1, <1>5 DEF Freed, Marked
<1>6. ASSUME NEW i \in 1 .. Len(q), q[i] = "226", \A j \in i .. Len(q) : q[j] # "150"
      PROVE  Freed'
  <2>1. CASE i = 1
    <3>1. \A j \in 1 .. Len(q) - 1 : Tail(q)[j] # "150"
      BY <1>2, <1>6, <2>1
    <3> QED
      BY <1>1, <1>2, <1>3, <1>6, <2>1, <3>1 DEF Freed
  <2>2. CASE i # 1
    <3>1. i - 1 \in 1 .. Len(q) - 1 /\ Tail(q)[i - 1] = "226"
      BY <1>2, <1>6, <2>2
    <3>2. \A j \in i - 1 .. Len(q) - 1 : Tail(q)[j] # "150"
      BY <1>2, <1>6, <2>2
    <3> QED
      BY <1>1, <1>2, <3>1, <3>2 DEF Freed
  <2> QED
    BY <2>1, <2>2
<1>7. CASE ~inDataTransfer /\ \A i \in 1 .. Len(q) : q[i] # "150"
  <2>1. \A i \in 1 .. Len(q) - 1 : Tail(q)[i] # "150"
    BY <1>2, <1>7
  <2>2. ~inDataTransfer'
    BY <1>2, <1>4, <1>7
  <2> QED
    BY <1>1, <1>2, <2>1, <2>2 DEF Freed
<1> QED
  BY <1>5, <1>6, <1>7 DEF Freed, q

(* The origin adds a reply to what it has sent.                            *)
LEMMA Added ==
    ASSUME SessionTypes, NEW c \in {"150", "226", "550"}, fromOrigin' = Append(fromOrigin, c)
    PROVE  /\ Len(fromOrigin) \in Nat /\ Len(fromOrigin') = Len(fromOrigin) + 1
           /\ fromOrigin'[Len(fromOrigin) + 1] = c
           /\ \A i \in 1 .. Len(fromOrigin) : fromOrigin'[i] = fromOrigin[i]
BY AppendProperties, LenProperties DEF SessionTypes

LEMMA OriginBusy ==
    ASSUME IInv, Freed, NEW t \in Transfers,
           OriginRefuses(t) \/ OriginMarks(t) \/ OriginFinishes(t)
    PROVE  Freed'
<1>1. SessionTypes
  BY DEF IInv, TypeOK
<1> DEFINE n == Len(fromOrigin)
<1>2. CASE OriginMarks(t)
  BY <1>1, <1>2 DEF OriginMarks, Freed, Marked, SessionTypes
<1>3. CASE OriginFinishes(t)
  <2>1. fromOrigin' = Append(fromOrigin, "226")
    BY <1>3 DEF OriginFinishes
  <2>2. n \in Nat /\ Len(fromOrigin') = n + 1 /\ fromOrigin'[n + 1] = "226"
    BY <1>1, <2>1, Added
  <2> HIDE DEF n
  <2>3. n + 1 \in 1 .. Len(fromOrigin')
        /\ \A j \in n + 1 .. Len(fromOrigin') : fromOrigin'[j] # "150"
    BY <2>2
  <2> QED
    BY <2>2, <2>3 DEF Freed
<1>4. CASE OriginRefuses(t)
  <2>1. fromOrigin' = Append(fromOrigin, "550") /\ UNCHANGED inDataTransfer
    BY <1>4 DEF OriginRefuses, handlerVars
  <2>2. \A u \in Transfers : Marked(u) => Marked(u)'
    BY <1>1, <1>4 DEF OriginRefuses, Marked, SessionTypes
  <2>3. /\ n \in Nat /\ Len(fromOrigin') = n + 1 /\ fromOrigin'[n + 1] = "550"
        /\ \A i \in 1 .. n : fromOrigin'[i] = fromOrigin[i]
    BY <1>1, <2>1, Added
  <2>4. CASE \E u \in Transfers : Marked(u)
    BY <2>2, <2>4 DEF Freed
  <2>5. ASSUME NEW i \in 1 .. n, fromOrigin[i] = "226",
               \A j \in i .. n : fromOrigin[j] # "150"
        PROVE  Freed'
    <3>1. i \in 1 .. Len(fromOrigin') /\ fromOrigin'[i] = "226"
      BY <2>3, <2>5
    <3>2. \A j \in i .. Len(fromOrigin') : fromOrigin'[j] # "150"
      BY <2>3, <2>5
    <3> QED
      BY <3>1, <3>2 DEF Freed
  <2>6. CASE ~inDataTransfer /\ \A i \in 1 .. n : fromOrigin[i] # "150"
    <3>1. \A i \in 1 .. Len(fromOrigin') : fromOrigin'[i] # "150"
      BY <2>3, <2>6
    <3> QED
      BY <2>1, <2>6, <3>1 DEF Freed
  <2> QED
    BY <2>4, <2>5, <2>6 DEF Freed
<1> QED
  BY <1>2, <1>3, <1>4

LEMMA CommandBusy ==
    ASSUME IInv, BusyInv, CStep
    PROVE  Freed'
<1>1. SessionTypes /\ Freed /\ Asked
  BY DEF IInv, TypeOK, BusyInv
<1>2. \A t \in Transfers : Marked(t) => Marked(t)'
  <2>1. CASE SendTransfer /\ rpc = "Run"
    BY <1>1, <2>1 DEF SendTransfer, Asked, Marked, SessionTypes
  <2>2. CASE ~(SendTransfer /\ rpc = "Run")
    BY <2>2 DEF CStep, HandleDATA, NewDataHandler, DestroyPrevious, InstallHandler, SendData,
       HandleTransfer, CheckStarted, SendTransfer, EndCommands, callerFrame, replyVars, Marked
  <2> QED
    BY <2>1, <2>2
<1>3. UNCHANGED fromOrigin
  BY DEF CStep, HandleDATA, NewDataHandler, DestroyPrevious, InstallHandler, SendData,
     HandleTransfer, CheckStarted, SendTransfer, EndCommands, callerFrame, replyVars
<1>4. inDataTransfer' => inDataTransfer
  BY CloseFlag DEF CStep, HandleDATA, NewDataHandler, DestroyPrevious, InstallHandler, SendData,
     HandleTransfer, CheckStarted, SendTransfer, EndCommands, handlerVars
<1> QED
  BY <1>1, <1>2, <1>3, <1>4, FreedStays

LEMMA ReplyBusy ==
    ASSUME IInv, BusyInv, EndSession \/ DestroyDataHandler \/ TakeReply \/ Peers
    PROVE  Freed'
<1>1. SessionTypes /\ Freed
  BY DEF IInv, TypeOK, BusyInv
<1>2. CASE TakeReply
  BY <1>1, <1>2, TakeReplyBusy
<1>3. CASE EndSession \/ DestroyDataHandler
  <2>1. UNCHANGED <<job, fromOrigin>>
    BY <1>3 DEF EndSession, DestroyDataHandler, replyVars
  <2>2. inDataTransfer' => inDataTransfer
    BY <1>3, CloseFlag DEF EndSession, DestroyDataHandler, handlerVars
  <2> QED
    BY <1>1, <2>1, <2>2, FreedStays DEF Marked
<1>4. CASE Peers
  <2>1. PICK t \in Transfers :
               \/ OriginRefuses(t) \/ OriginMarks(t) \/ OriginFinishes(t)
               \/ PeerSends(t) \/ \E s \in Sides : PeerCloses(t, s)
    BY <1>4 DEF Peers
  <2>2. CASE PeerSends(t) \/ \E s \in Sides : PeerCloses(t, s)
    <3>1. UNCHANGED <<job, fromOrigin, inDataTransfer>>
      BY <2>2 DEF PeerSends, PeerCloses, replyVars, handlerVars
    <3> QED
      BY <1>1, <3>1, FreedStays DEF Marked
  <2> QED
    BY <1>1, <2>1, <2>2, OriginBusy
<1> QED
  BY <1>2, <1>3, <1>4

LEMMA ThreadBusy ==
    ASSUME IInv, BusyInv, NEW t \in Transfers, NEW s \in Sides,
           Transfer(t) \/ Connect(t, s) \/ Copy(t, s) \/ Expire(t, s)
    PROVE  Freed'
<1>1. UNCHANGED <<job, fromOrigin>>
  BY ThreadFrame DEF replyVars
<1>2. inDataTransfer' => inDataTransfer
  BY CloseFlag DEF Transfer, JoinConnect, JoinRun, EndTransfer, Connect, BeginConnect,
     Connected, ConnectFails, StoreConn, CheckTLS, Handshake, StoreTLSConn,
     CloseAfterErr, Copy, BeginCopy, CheckClosed, ReadChunk, ReadEOF, ReadFails,
     WriteChunk, WriteFails, Expire, copyFrame, handlerVars
<1> QED
  BY <1>1, <1>2, FreedStays DEF BusyInv, Marked

LEMMA NextBusy ==
    ASSUME IInv, BusyInv, [Next]_vars
    PROVE  BusyInv'
<1>1. CASE Next
  <2>1. Asked'
    BY <1>1, AskedKept DEF BusyInv
  <2>2. Freed'
    <3>1. CASE CStep
      BY <3>1, CommandBusy
    <3>2. CASE EndSession \/ DestroyDataHandler \/ TakeReply \/ Peers
      BY <3>2, ReplyBusy
    <3>3. CASE \E t \in Transfers :
              Transfer(t) \/ \E s \in Sides : Connect(t, s) \/ Copy(t, s) \/ Expire(t, s)
      <4>1. PICK t \in Transfers, s \in Sides :
                   Transfer(t) \/ Connect(t, s) \/ Copy(t, s) \/ Expire(t, s)
        BY <3>3 DEF Sides
      <4> QED
        BY <4>1, ThreadBusy
    <3> QED
      BY <1>1, <3>1, <3>2, <3>3 DEF Next
  <2> QED
    BY <2>1, <2>2 DEF BusyInv
<1>2. CASE UNCHANGED vars
  BY <1>2 DEF BusyInv, Asked, Freed, Marked, vars, sessionVars, handlerVars, dataVars, replyVars
<1> QED
  BY <1>1, <1>2

(* The session is busy only as long as a transfer runs or the origin has   *)
(* something to say about one, for any client and any schedule, unless the *)
(* origin gave one up after its 150: each other 150 is followed by a 226.  *)
THEOREM BusyEnds == Spec => []BusyMeansTransfer
<1>1. IInv /\ BusyInv => BusyMeansTransfer
  <2> SUFFICES ASSUME IInv, BusyInv, inDataTransfer
               PROVE  \/ fromOrigin # <<>>
                      \/ \E t \in Transfers : job[t] \in {"sent", "marked", "aborted"}
    BY DEF BusyMeansTransfer
  <2>1. CASE \E t \in Transfers : Marked(t)
    BY <2>1 DEF Marked
  <2>2. CASE \E i \in 1 .. Len(fromOrigin) : fromOrigin[i] = "226"
    <3>1. fromOrigin = <<>> => Len(fromOrigin) = 0
      BY EmptySeq
    <3> QED
      BY <2>2, <3>1
  <2> QED
    BY <2>1, <2>2 DEF BusyInv, Freed
<1>2. Init => IInv /\ BusyInv
  BY InitInv, InitBusy
<1>3. IInv /\ BusyInv /\ [Next]_vars => (IInv /\ BusyInv)'
  BY NextInv, NextBusy
<1> QED
  BY <1>1, <1>2, <1>3, PTL DEF Spec

-----------------------------------------------------------------------------
(* One transfer at a time.                                                 *)

LEMMA InitReached == Init => Reached
<1> SUFFICES ASSUME Init PROVE Reached
  OBVIOUS
<1>1. \A t \in Transfers, s \in Sides :
        dpc[t][s] = "None" /\ peer[t][s] = "none" /\ sock[t][s] = "none"
  BY DEF Init
<1>2. \A h \in Handlers, s \in Sides : dataConn[h][s] = None
  BY DEF Init
<1> QED
  BY <1>1, <1>2 DEF Reached, Sides

LEMMA ReachedStays ==
    ASSUME Reached, UNCHANGED <<dpc, peer, sock, dataConn>>
    PROVE  Reached'
BY DEF Reached

LEMMA CloseReached ==
    ASSUME IInv, Reached, NEW h \in 0 .. MaxHandlers, Close(h), UNCHANGED <<dpc, peer>>
    PROVE  Reached'
<1>1. HandlerTypes
  BY DEF IInv, TypeOK
<1>2. CASE UNCHANGED <<dataConn, sock>>
  BY <1>2, ReachedStays
<1>3. CASE ~UNCHANGED <<dataConn, sock>>
  <2>1. /\ h \in Handlers
        /\ \A g \in Handlers, r \in Sides :
             dataConn'[g][r] = IF g = h THEN None ELSE dataConn[g][r]
        /\ \A t \in Transfers, r \in Sides :
             sock'[t][r] = IF dataConn[h][r] = t THEN "closed" ELSE sock[t][r]
    BY <1>1, <1>3, CloseEffect
  <2>2. \A t \in Transfers : t # None
    BY DEF Transfers
  <2>3. \A t \in Transfers, r \in Sides : dpc[t][r] \in Unconnected => sock'[t][r] = sock[t][r]
    BY <2>1, <2>2 DEF Reached
  <2> QED
    BY <2>1, <2>3 DEF Reached
<1> QED
  BY <1>2, <1>3

LEMMA CommandReached ==
    ASSUME IInv, Reached, CStep
    PROVE  Reached'
<1>1. SessionTypes /\ HandlerTypes /\ ThreadTypes /\ Places
  BY DEF IInv, TypeOK
<1>2. current \in 0 .. MaxHandlers
  BY <1>1 DEF SessionTypes
<1>3. CASE DestroyPrevious \/ SendData
  BY <1>2, <1>3, CloseReached, ReachedStays
     DEF DestroyPrevious, SendData, callerFrame, threadVars, dataVars
<1>4. CASE CheckStarted /\ dpc' # dpc
  <2>1. started' \in Transfers /\ started' = started + 1
    BY <1>1, <1>4 DEF CheckStarted, SessionTypes, Places, Transfers
  <2>2. \A s \in Sides : dpc[started'][s] = "None"
    BY <1>1, <2>1 DEF IInv, CopyInv, Owned, SessionTypes, Transfers
  <2>3. dpc' = [dpc EXCEPT ![started'] = [client |-> "Begin", origin |-> "Await"]]
    BY <1>4 DEF CheckStarted
  <2>4. /\ \A t \in Transfers : t # started' => dpc'[t] = dpc[t]
        /\ dpc'[started']["client"] = "Begin" /\ dpc'[started']["origin"] = "Await"
    BY <1>1, <2>1, <2>3 DEF ThreadTypes
  <2>5. \A s \in Sides : dpc'[started'][s] \in {"Begin", "Await"}
    BY <2>4 DEF Sides
  <2>6. UNCHANGED <<dataConn, peer, sock>>
    BY <1>4 DEF CheckStarted, handlerVars, dataVars
  <2>7. \A h \in Handlers, s \in Sides : dataConn[h][s] # started'
    BY <2>1, <2>2 DEF Reached, Unconnected, Transfers
  <2>8. \A s \in Sides : peer[started'][s] = "none" /\ sock[started'][s] = "none"
    BY <2>1, <2>2 DEF Reached, Unconnected
  <2>9. \A t \in Transfers, s \in Sides :
          dpc'[t][s] \in Unconnected => peer'[t][s] = "none" /\ sock'[t][s] = "none"
    BY <2>4, <2>6, <2>8 DEF Reached
  <2>10. \A t \in Transfers :
         /\ dpc'[t]["client"] \in {"Begin", "Open"} => dpc'[t]["origin"] = "Await"
         /\ dpc'[t]["origin"] \in {"Begin", "Open"} \/ peer'[t]["origin"] # "none"
              => peer'[t]["client"] # "none"
    BY <2>4, <2>6, <2>8 DEF Reached, Sides
  <2>11. \A h \in Handlers, s \in Sides :
         dataConn'[h][s] # None => dpc'[dataConn'[h][s]][s] \notin Unconnected
    <3>1. \A h \in Handlers, s \in Sides : dataConn[h][s] # None => dataConn[h][s] \in Transfers
      BY <1>1 DEF HandlerTypes, Transfers
    <3> QED
      BY <2>4, <2>6, <2>7, <3>1 DEF Reached
  <2> QED
    BY <2>9, <2>10, <2>11 DEF Reached
<1>5. CASE CheckStarted /\ dpc' = dpc
  BY <1>5, ReachedStays DEF CheckStarted, handlerVars, dataVars
<1>6. CASE HandleDATA \/ NewDataHandler \/ InstallHandler \/ HandleTransfer \/ SendTransfer
             \/ EndCommands
  BY <1>6, ReachedStays DEF HandleDATA, NewDataHandler, InstallHandler, HandleTransfer,
     SendTransfer, EndCommands, callerFrame, handlerVars, threadVars, dataVars
<1> QED
  BY <1>3, <1>4, <1>5, <1>6 DEF CStep

(* A peer that closes was there.                                           *)
LEMMA PeerReached ==
    ASSUME Reached, UNCHANGED <<dpc, sock, dataConn>>,
           \A t \in Transfers, s \in Sides : (peer'[t][s] = "none") = (peer[t][s] = "none")
    PROVE  Reached'
BY DEF Reached, Sides

LEMMA ReplyReached ==
    ASSUME IInv, Reached, EndSession \/ DestroyDataHandler \/ TakeReply \/ Peers
    PROVE  Reached'
<1>1. DataTypes /\ current \in 0 .. MaxHandlers
  BY DEF IInv, TypeOK, SessionTypes
<1>2. CASE DestroyDataHandler
  BY <1>1, <1>2, CloseReached DEF DestroyDataHandler, threadVars, dataVars
<1>3. CASE EndSession \/ TakeReply
  BY <1>3, ReachedStays DEF EndSession, TakeReply, handlerVars, threadVars, dataVars
<1>4. CASE Peers
  <2>1. UNCHANGED <<dpc, sock, dataConn>>
    BY <1>4 DEF Peers, PeerSends, PeerCloses, OriginRefuses, OriginMarks, OriginFinishes,
       handlerVars, threadVars
  <2>2. PICK t \in Transfers, s \in Sides :
               \/ UNCHANGED peer
               \/ peer[t][s] = "open" /\ peer' = [peer EXCEPT ![t][s] = "eof"]
               \/ peer' = [peer EXCEPT ![t]["origin"] = IF @ = "open" THEN "eof" ELSE @]
    BY <1>4 DEF Peers, PeerSends, OriginRefuses, OriginMarks, OriginFinishes, PeerCloses,
       dataVars, Sides
  <2>3. \A u \in Transfers, r \in Sides : (peer'[u][r] = "none") = (peer[u][r] = "none")
    BY <1>1, <2>2 DEF DataTypes
  <2> QED
    BY <2>1, <2>3, PeerReached
<1> QED
  BY <1>2, <1>3, <1>4

(* A side that has connected goes on; nothing happens to the others.       *)
LEMMA ReachedMoves ==
    ASSUME HandlerTypes, Reached, UNCHANGED peer,
           \A u \in Transfers, r \in Sides :
             /\ \/ dpc'[u][r] = dpc[u][r]
                \/ dpc[u][r] \notin Unconnected /\ dpc'[u][r] \notin Unconnected
             /\ dpc[u][r] \in Unconnected => sock'[u][r] = sock[u][r],
           \A h \in Handlers, r \in Sides :
             \/ dataConn'[h][r] \in {None, dataConn[h][r]}
             \/ dpc'[dataConn'[h][r]][r] \notin Unconnected
    PROVE  Reached'
<1>1. \A u \in Transfers, r \in Sides :
        dpc'[u][r] \in Unconnected => peer'[u][r] = "none" /\ sock'[u][r] = "none"
  BY DEF Reached
<1>2. \A u \in Transfers :
         /\ dpc'[u]["client"] \in {"Begin", "Open"} => dpc'[u]["origin"] = "Await"
         /\ dpc'[u]["origin"] \in {"Begin", "Open"} \/ peer'[u]["origin"] # "none"
              => peer'[u]["client"] # "none"
  BY DEF Reached, Unconnected, Sides
<1>3. \A h \in Handlers, r \in Sides : dataConn[h][r] # None => dataConn[h][r] \in Transfers
  BY DEF HandlerTypes, Transfers
<1>4. \A h \in Handlers, r \in Sides :
        dataConn'[h][r] # None => dpc'[dataConn'[h][r]][r] \notin Unconnected
  BY <1>3 DEF Reached
<1> QED
  BY <1>1, <1>2, <1>4 DEF Reached

LEMMA ConnectReached ==
    ASSUME IInv, Reached, NEW t \in Transfers, NEW s \in Sides, Connect(t, s)
    PROVE  Reached'
<1>1. HandlerTypes /\ ThreadTypes /\ DataTypes
  BY DEF IInv, TypeOK
<1>2. owner[t] \in Handlers /\ owner[t] \in 0 .. MaxHandlers
  BY ThreadFrame DEF Handlers
<1>3. ASSUME UNCHANGED peer,
             NEW to \in {"CheckTLS", "Handshake", "Wrapped", "OK", "Close", "Err"},
             dpc' = [dpc EXCEPT ![t][s] = to], dpc[t][s] \notin Unconnected
      PROVE  \A u \in Transfers, r \in Sides :
               \/ dpc'[u][r] = dpc[u][r]
               \/ dpc[u][r] \notin Unconnected /\ dpc'[u][r] \notin Unconnected
  BY <1>1, <1>3 DEF ThreadTypes, Unconnected
<1>4. CASE CloseAfterErr(t, s)
  <2>1. dpc' = [dpc EXCEPT ![t][s] = "Err"] /\ UNCHANGED peer /\ dpc[t][s] = "Close"
    BY <1>4 DEF CloseAfterErr, Goto, dataVars
  <2>2. \A h \in Handlers, r \in Sides : dataConn'[h][r] \in {None, dataConn[h][r]}
    BY <1>1, <1>2, <1>4, CloseEffect DEF CloseAfterErr
  <2>3. \A u \in Transfers, r \in Sides : dpc[u][r] \in Unconnected => sock'[u][r] = sock[u][r]
    <3>1. \A u \in Transfers, r \in Sides :
            sock'[u][r] = sock[u][r] \/ dataConn[owner[t]][r] = u
      BY <1>1, <1>2, <1>4, CloseEffect DEF CloseAfterErr
    <3>2. \A u \in Transfers : u # None
      BY DEF Transfers
    <3> QED
      BY <1>2, <3>1, <3>2 DEF Reached
  <2> QED
    BY <1>1, <1>3, <2>1, <2>2, <2>3, ReachedMoves DEF Unconnected
<1>5. CASE CheckTLS(t, s) \/ Handshake(t, s) \/ StoreConn(t, s) \/ StoreTLSConn(t, s)
  <2>1. /\ UNCHANGED <<peer, sock>>
        /\ dpc[t][s] \in {"CheckTLS", "Handshake", "Wrapped", "Store"}
        /\ \E to \in {"CheckTLS", "Handshake", "Wrapped", "OK", "Close"} :
             dpc' = [dpc EXCEPT ![t][s] = to]
        /\ dataConn' = dataConn \/ dataConn' = [dataConn EXCEPT ![owner[t]][s] = t]
    BY <1>5 DEF CheckTLS, Handshake, StoreConn, StoreTLSConn, Goto, handlerVars, dataVars
  <2>2. PICK to \in {"CheckTLS", "Handshake", "Wrapped", "OK", "Close"} :
               dpc' = [dpc EXCEPT ![t][s] = to]
    BY <2>1
  <2>3. dpc'[t][s] \notin Unconnected /\ dpc[t][s] \notin Unconnected
    BY <1>1, <2>1, <2>2 DEF ThreadTypes, Unconnected
  <2>4. \A h \in Handlers, r \in Sides :
             dataConn'[h][r] = dataConn[h][r] \/ (dataConn'[h][r] = t /\ r = s)
    <3>1. CASE dataConn' = dataConn
      BY <3>1
    <3>2. CASE dataConn' = [dataConn EXCEPT ![owner[t]][s] = t]
      BY <1>1, <1>2, <3>2 DEF HandlerTypes
    <3> QED
      BY <2>1, <3>1, <3>2
  <2>5. \A u \in Transfers, r \in Sides :
               \/ dpc'[u][r] = dpc[u][r]
               \/ dpc[u][r] \notin Unconnected /\ dpc'[u][r] \notin Unconnected
    BY <1>3, <2>1, <2>2, <2>3
  <2> QED
    BY <1>1, <2>1, <2>3, <2>4, <2>5, ReachedMoves
<1>6. CASE BeginConnect(t, s) \/ Connected(t, s) \/ ConnectFails(t, s)
  <2>1. dpc[t][s] \in {"Begin", "Open"} /\ dataConn' = dataConn
        /\ \A u \in Transfers : u # t => dpc'[u] = dpc[u] /\ peer'[u] = peer[u] /\ sock'[u] = sock[u]
    BY <1>1, <1>6 DEF BeginConnect, Connected, ConnectFails, Goto, handlerVars, dataVars,
       ThreadTypes, HandlerTypes, DataTypes
  <2>2. s = "client" => dpc[t]["origin"] = "Await"
    BY <2>1 DEF Reached
  <2>3. s = "origin" => dpc[t]["client"] \notin {"Begin", "Open"} /\ peer[t]["client"] # "none"
    BY <2>1 DEF Reached
  <2>4. /\ \A r \in Sides :
             dpc'[t][r] \in Unconnected => peer'[t][r] = "none" /\ sock'[t][r] = "none"
        /\ dpc'[t]["client"] \in {"Begin", "Open"} => dpc'[t]["origin"] = "Await"
        /\ dpc'[t]["origin"] \in {"Begin", "Open"} \/ peer'[t]["origin"] # "none"
              => peer'[t]["client"] # "none"
    <3>1. CASE BeginConnect(t, s)
      <4>1. UNCHANGED <<peer, sock>>
        BY <3>1 DEF BeginConnect, dataVars
      <4>2. \A r \in Sides : IF r = s THEN dpc'[t][r] \in {"Open", "Close"}
                                      ELSE dpc'[t][r] = dpc[t][r]
        BY <1>1, <3>1 DEF BeginConnect, Goto, ThreadTypes
      <4> QED
        BY <2>1, <2>2, <2>3, <4>1, <4>2 DEF Reached, Unconnected, Sides
    <3>2. CASE Connected(t, s)
      <4>1. \A r \in Sides : IF r = s THEN peer'[t][r] = "open"
                             ELSE peer'[t][r] = peer[t][r] /\ sock'[t][r] = sock[t][r]
        BY <1>1, <3>2 DEF Connected, HandlerTypes, DataTypes
      <4>2. CASE s = "client"
        <5>1. dpc'[t] = [client |-> "Store", origin |-> "Begin"]
          BY <1>1, <3>2, <4>2 DEF Connected, ThreadTypes
        <5> QED
          BY <2>2, <4>1, <4>2, <5>1 DEF Reached, Unconnected, Sides
      <4>3. CASE s = "origin"
        <5>1. dpc'[t]["origin"] = "Store" /\ dpc'[t]["client"] = dpc[t]["client"]
          BY <1>1, <3>2, <4>3 DEF Connected, ThreadTypes, Sides
        <5> QED
          BY <2>3, <4>1, <4>3, <5>1 DEF Reached, Unconnected, Sides
      <4> QED
        BY <4>2, <4>3 DEF Sides
    <3>3. CASE ConnectFails(t, s)
      <4>1. UNCHANGED <<peer, sock>>
        BY <3>3 DEF ConnectFails, dataVars
      <4>2. CASE s = "client"
        <5>1. dpc'[t] = [client |-> "Close", origin |-> "OK"]
          BY <1>1, <3>3, <4>2 DEF ConnectFails, ThreadTypes
        <5> QED
          BY <2>2, <4>1, <4>2, <5>1 DEF Reached, Unconnected, Sides
      <4>3. CASE s = "origin"
        <5>1. dpc'[t]["origin"] = "Close" /\ dpc'[t]["client"] = dpc[t]["client"]
          BY <1>1, <3>3, <4>3 DEF ConnectFails, ThreadTypes, Sides
        <5> QED
          BY <2>3, <4>1, <4>3, <5>1 DEF Reached, Unconnected, Sides
      <4> QED
        BY <4>2, <4>3 DEF Sides
    <3> QED
      BY <1>6, <3>1, <3>2, <3>3
  <2>5. \A r \in Sides : dpc'[t][r] \in Unconnected => dpc[t][r] \in Unconnected
    BY <1>1, <1>6, <2>1, <2>2 DEF BeginConnect, Connected, ConnectFails, Goto, ThreadTypes,
       Unconnected, Sides
  <2>6. \A h \in Handlers, r \in Sides : dataConn[h][r] # None => dataConn[h][r] \in Transfers
    BY <1>1 DEF HandlerTypes, Transfers
  <2>7. \A h \in Handlers, r \in Sides :
          dataConn'[h][r] # None => dpc'[dataConn'[h][r]][r] \notin Unconnected
    BY <2>1, <2>5, <2>6 DEF Reached
  <2>8. \A u \in Transfers, r \in Sides :
          dpc'[u][r] \in Unconnected => peer'[u][r] = "none" /\ sock'[u][r] = "none"
    BY <2>1, <2>4 DEF Reached
  <2>9. \A u \in Transfers :
        /\ dpc'[u]["client"] \in {"Begin", "Open"} => dpc'[u]["origin"] = "Await"
        /\ dpc'[u]["origin"] \in {"Begin", "Open"} \/ peer'[u]["origin"] # "none"
              => peer'[u]["client"] # "none"
    BY <2>1, <2>4 DEF Reached
  <2> QED
    BY <2>7, <2>8, <2>9 DEF Reached
<1> QED
  BY <1>4, <1>5, <1>6 DEF Connect

(* A copier that reads or writes holds the two connections of its own.     *)
LEMMA CopierOwn ==
    ASSUME IInv, OwnConns, NEW t \in Transfers, NEW s \in Sides, NEW r \in Sides,
           kpc[t][s] \in {"Read", "Write"}
    PROVE  kconn[t][s][r] = t /\ dpc[t][r] = "OK"
BY DEF IInv, CopyInv, CopierHasConns, Joined, OwnConns

LEMMA CopyReached ==
    ASSUME IInv, OwnConns, Reached, NEW t \in Transfers, NEW s \in Sides,
           Copy(t, s) \/ Expire(t, s)
    PROVE  Reached'
<1>1. HandlerTypes
  BY DEF IInv, TypeOK
<1>2. UNCHANGED <<dpc, peer, dataConn>>
  BY DEF Copy, BeginCopy, CheckClosed, ReadChunk, ReadEOF, ReadFails, WriteChunk, WriteFails,
     Expire, copyFrame, handlerVars, threadVars, dataVars
<1>3. \/ sock' = sock
      \/ /\ kpc[t][s] \in {"Read", "Write"}
         /\ \E x \in {"half", "closed"} :
              \/ sock' = [sock EXCEPT ![kconn[t][s][Other(s)]][Other(s)] = x]
              \/ sock' = [sock EXCEPT ![kconn[t][s][Other(s)]][Other(s)] =
                            IF @ = "open" THEN "half" ELSE @]
  BY DEF Copy, BeginCopy, CheckClosed, ReadChunk, ReadEOF, ReadFails, WriteChunk, WriteFails,
     Expire
<1>4. \A u \in Transfers, r \in Sides : dpc[u][r] \in Unconnected => sock'[u][r] = sock[u][r]
  <2>1. CASE sock' = sock
    BY <2>1
  <2>2. CASE kpc[t][s] \in {"Read", "Write"}
    <3>1. /\ Other(s) \in Sides /\ kconn[t][s][Other(s)] = t /\ dpc[t][Other(s)] = "OK"
      BY <2>2, CopierOwn DEF Other, Sides
    <3>2. \A u \in Transfers, r \in Sides : sock'[u][r] = sock[u][r] \/ (u = t /\ r = Other(s))
      BY <1>1, <1>3, <3>1 DEF HandlerTypes
    <3> QED
      BY <3>1, <3>2 DEF Unconnected
  <2> QED
    BY <1>3, <2>1, <2>2
<1> QED
  BY <1>1, <1>2, <1>4, ReachedMoves

LEMMA ReachedKept ==
    ASSUME IInv, OwnConns, Reached, Next
    PROVE  Reached'
<1>1. ASSUME NEW t \in Transfers, Transfer(t)
      PROVE  Reached'
  <2>1. owner[t] \in 0 .. MaxHandlers
    BY DEF IInv, TypeOK, ThreadTypes
  <2>2. CASE EndTransfer(t)
    BY <2>1, <2>2, CloseReached DEF EndTransfer, dataVars
  <2>3. CASE JoinConnect(t) \/ JoinRun(t)
    BY <2>3, ReachedStays DEF JoinConnect, JoinRun, handlerVars, dataVars
  <2> QED
    BY <1>1, <2>2, <2>3 DEF Transfer
<1> QED
  BY <1>1, CommandReached, ReplyReached, ConnectReached, CopyReached DEF Next

(* A peer that has closed stays away.                                      *)
LEMMA PeerGone ==
    ASSUME IInv, Reached, Next
    PROVE  \A t \in Transfers, s \in Sides : peer[t][s] = "eof" => peer'[t][s] = "eof"
<1>1. DataTypes
  BY DEF IInv, TypeOK
<1>2. CASE Peers
  <2>1. PICK t \in Transfers, s \in Sides :
               \/ UNCHANGED peer
               \/ peer' = [peer EXCEPT ![t][s] = "eof"]
               \/ peer' = [peer EXCEPT ![t]["origin"] = IF @ = "open" THEN "eof" ELSE @]
    BY <1>2 DEF Peers, PeerSends, OriginRefuses, OriginMarks, OriginFinishes, PeerCloses,
       dataVars, Sides
  <2> QED
    BY <1>1, <2>1 DEF DataTypes
<1>3. CASE CStep \/ EndSession \/ DestroyDataHandler \/ TakeReply
  BY <1>3 DEF CStep, HandleDATA, NewDataHandler, DestroyPrevious, InstallHandler, SendData,
     HandleTransfer, CheckStarted, SendTransfer, EndCommands, EndSession, DestroyDataHandler,
     TakeReply, callerFrame, dataVars
<1>4. ASSUME NEW t \in Transfers, NEW s \in Sides,
             Transfer(t) \/ Connect(t, s) \/ Copy(t, s) \/ Expire(t, s)
      PROVE  UNCHANGED peer \/ (peer' = [peer EXCEPT ![t][s] = "open"] /\ dpc[t][s] = "Open")
  BY <1>4 DEF Transfer, JoinConnect, JoinRun, EndTransfer, Connect, BeginConnect,
     Connected, ConnectFails, StoreConn, CheckTLS, Handshake, StoreTLSConn,
     CloseAfterErr, Copy, BeginCopy, CheckClosed, ReadChunk, ReadEOF, ReadFails,
     WriteChunk, WriteFails, Expire, dataVars
<1>5. CASE \E t \in Transfers :
              Transfer(t) \/ \E s \in Sides : Connect(t, s) \/ Copy(t, s) \/ Expire(t, s)
  <2>1. PICK t \in Transfers, s \in Sides :
               Transfer(t) \/ Connect(t, s) \/ Copy(t, s) \/ Expire(t, s)
    BY <1>5 DEF Sides
  <2>2. UNCHANGED peer \/ (peer' = [peer EXCEPT ![t][s] = "open"] /\ dpc[t][s] = "Open")
    BY <1>4, <2>1
  <2>3. dpc[t][s] = "Open" => peer[t][s] = "none"
    BY DEF Reached, Unconnected
  <2> QED
    BY <1>1, <2>2, <2>3 DEF DataTypes
<1> QED
  BY <1>2, <1>3, <1>5 DEF Next

LEMMA InitAnswers == Init => Answers /\ Over
<1> SUFFICES ASSUME Init PROVE Answers /\ Over
  OBVIOUS
<1>1. /\ cpc = "Read" /\ ~awaiting /\ fromOrigin = <<>> /\ started = 0
      /\ \A t \in Transfers : job[t] = "none" /\ t > 0
  BY DEF Init, Transfers
<1> QED
  BY <1>1 DEF Answers, Over, Pending

LEMMA AnswersStay ==
    ASSUME Answers, UNCHANGED <<awaiting, fromOrigin, job, started>>,
           cpc' \notin {"Read", "Done"} => ~awaiting,
           rpc' = "Run" => rpc = "Run", cpc = "SendTransfer" => cpc' = "SendTransfer",
           \A t \in Transfers : peer[t]["origin"] = "eof" => peer'[t]["origin"] = "eof"
    PROVE  Answers'
BY DEF Answers, Pending

LEMMA CommandAnswers ==
    ASSUME Patient, IInv, Asked, Reached, Answers, CStep
    PROVE  Answers'
<1>1. SessionTypes /\ Places
  BY DEF IInv, TypeOK
<1>2. \A t \in Transfers : peer[t]["origin"] = "eof" => peer'[t]["origin"] = "eof"
  BY PeerGone DEF Next, Sides
<1>3. started \in Nat
  BY <1>1 DEF SessionTypes
<1>4. CASE HandleDATA \/ HandleTransfer
  BY <1>2, <1>4, AnswersStay DEF HandleDATA, HandleTransfer, ClientReady, callerFrame, replyVars
<1>5. CASE NewDataHandler \/ DestroyPrevious \/ InstallHandler \/ SendData \/ EndCommands
  <2>1. /\ UNCHANGED <<awaiting, fromOrigin, job, started, rpc>> /\ cpc # "SendTransfer"
        /\ cpc' \notin {"Read", "Done"} => cpc \notin {"Read", "Done"}
    BY <1>5 DEF NewDataHandler, DestroyPrevious, InstallHandler, SendData, EndCommands,
       callerFrame, replyVars
  <2>2. cpc' \notin {"Read", "Done"} => ~awaiting
    BY <2>1 DEF Answers
  <2> QED
    BY <1>2, <2>1, <2>2, AnswersStay
<1>6. CASE CheckStarted
  <2>1. /\ UNCHANGED <<awaiting, fromOrigin, job, rpc>>
        /\ \/ UNCHANGED started
           \/ started' = started + 1 /\ cpc' = "SendTransfer"
    BY <1>6 DEF CheckStarted, replyVars
  <2>2. /\ cpc = "CheckStarted" /\ ~awaiting /\ fromOrigin = <<>>
        /\ \A t \in Transfers : ~Pending(t)
    BY <1>6 DEF CheckStarted, Answers
  <2>3. \A t \in Transfers : rpc = "Run" /\ job[t] = "none" => t > started
    BY <2>2 DEF Answers
  <2>4. \A t \in Transfers : rpc' = "Run" /\ job'[t] = "none" =>
              t > started' \/ (t = started' /\ cpc' = "SendTransfer")
    BY <1>3, <2>1, <2>3 DEF Transfers
  <2> QED
    BY <1>2, <2>1, <2>2, <2>4 DEF Answers, Pending
<1>7. CASE SendTransfer /\ rpc # "Run"
  BY <1>2, <1>7 DEF SendTransfer, Answers, Pending
<1>8. CASE SendTransfer /\ rpc = "Run"
  <2>1. /\ ~awaiting /\ fromOrigin = <<>> /\ \A t \in Transfers : ~Pending(t)
        /\ cpc' = "Read" /\ awaiting' /\ UNCHANGED <<fromOrigin, started, rpc>>
    BY <1>8 DEF SendTransfer, Answers
  <2>2. \A t \in Transfers : job'[t] = IF t = started THEN "sent" ELSE job[t]
    BY <1>1, <1>8 DEF SendTransfer, SessionTypes
  <2>3. \E t \in Transfers : t = started
    BY <1>8 DEF SendTransfer, Asked
  <2> QED
    BY <1>2, <2>1, <2>2, <2>3 DEF Answers, Pending
<1> QED
  BY <1>4, <1>5, <1>6, <1>7, <1>8 DEF CStep

LEMMA ShortQueues ==
    ASSUME NEW a, NEW b
    PROVE  /\ <<a>> # <<>> /\ Head(<<a>>) = a /\ Tail(<<a>>) = <<>>
           /\ <<a, b>> # <<>> /\ Head(<<a, b>>) = a /\ Tail(<<a, b>>) = <<b>>
           /\ Append(<<>>, a) = <<a>> /\ Append(<<a>>, b) = <<a, b>>
<1>1. <<a>> # <<>> /\ Head(<<a>>) = a /\ Tail(<<a>>) = <<>> /\ Append(<<>>, a) = <<a>>
  OBVIOUS
<1>2. <<a, b>> # <<>> /\ Head(<<a, b>>) = a /\ Tail(<<a, b>>) = <<b>>
  OBVIOUS
<1>3. Append(<<a>>, b) = <<a, b>>
  <2> DEFINE q == Append(<<a>>, b)
  <2>1. <<a>> \in Seq({a, b}) /\ Len(<<a>>) = 1 /\ <<a>>[1] = a
    OBVIOUS
  <2>2. q \in Seq({a, b}) /\ Len(q) = 2 /\ q[1] = a /\ q[2] = b
    BY <2>1, AppendProperties
  <2>3. /\ <<a, b>> \in Seq({a, b}) /\ Len(<<a, b>>) = 2
        /\ <<a, b>>[1] = a /\ <<a, b>>[2] = b
    OBVIOUS
  <2> HIDE DEF q
  <2>4. \A i \in 1 .. Len(q) : q[i] = <<a, b>>[i]
    BY <2>2, <2>3
  <2>5. q = <<a, b>>
    BY <2>2, <2>3, <2>4, SeqEqual
  <2> QED
    BY <2>5 DEF q
<1> QED
  BY <1>1, <1>2, <1>3

LEMMA TakeReplyAnswers ==
    ASSUME IInv, Answers, TakeReply
    PROVE  Answers'
<1>1. /\ fromOrigin # <<>> /\ fromOrigin' = Tail(fromOrigin)
      /\ awaiting' = (awaiting /\ Head(fromOrigin) = "150")
      /\ UNCHANGED <<sessionVars, peer, job>>
  BY DEF TakeReply, dataVars
<1>2. awaiting
  BY <1>1 DEF Answers
<1>3. UNCHANGED <<cpc, rpc, started>>
  BY <1>1 DEF sessionVars
<1>4. cpc' \notin {"Read", "Done"} => ~awaiting'
  BY <1>1, <1>3 DEF Answers
<1>5. CASE \E t \in Transfers : Pending(t)
  <2>1. fromOrigin = <<"150">>
    BY <1>1, <1>5 DEF Answers, Pending
  <2>2. fromOrigin' = <<>> /\ awaiting'
    BY <1>1, <1>2, <2>1, ShortQueues
  <2> QED
    BY <1>1, <1>3, <1>4, <1>5, <2>2 DEF Answers, Pending
<1>6. CASE ~\E t \in Transfers : Pending(t)
  <2>1. PICK f \in {"226", "550"} : fromOrigin \in {<<f>>, <<"150", f>>}
    BY <1>2, <1>6 DEF Answers
  <2>2. \A t \in Transfers : ~Pending(t)'
    BY <1>1, <1>6 DEF Pending
  <2>3. CASE fromOrigin = <<f>>
    <3>1. fromOrigin' = <<>> /\ ~awaiting'
      BY <1>1, <2>3, ShortQueues
    <3> QED
      BY <1>1, <1>3, <1>4, <2>2, <3>1 DEF Answers, Pending
  <2>4. CASE fromOrigin = <<"150", f>>
    <3>1. Head(<<"150", f>>) = "150" /\ Tail(<<"150", f>>) = <<f>>
      BY ShortQueues
    <3>2. fromOrigin' = <<f>> /\ awaiting'
      BY <1>1, <1>2, <2>4, <3>1
    <3> QED
      BY <1>1, <1>3, <1>4, <2>2, <3>2 DEF Answers, Pending
  <2> QED
    BY <2>1, <2>3, <2>4
<1> QED
  BY <1>5, <1>6

LEMMA OriginAnswers ==
    ASSUME IInv, Answers, Reached, NEW t \in Transfers,
           OriginRefuses(t) \/ OriginMarks(t) \/ OriginFinishes(t)
    PROVE  Answers'
<1>1. SessionTypes
  BY DEF IInv, TypeOK
<1>2. \A u \in Transfers : peer[u]["origin"] = "eof" => peer'[u]["origin"] = "eof"
  BY PeerGone DEF Next, Peers, Sides
<1>3. UNCHANGED <<cpc, rpc, started, awaiting>>
  BY DEF OriginRefuses, OriginMarks, OriginFinishes, sessionVars
<1>4. /\ Pending(t) /\ awaiting /\ fromOrigin \in {<<>>, <<"150">>}
      /\ \A u \in Transfers : u # t => ~Pending(u)
  BY DEF OriginRefuses, OriginMarks, OriginFinishes, Answers, Pending
<1>5. \A u \in Transfers : u # t => job'[u] = job[u]
  BY <1>1 DEF OriginRefuses, OriginMarks, OriginFinishes, SessionTypes
<1>6. CASE OriginMarks(t)
  <2>1. fromOrigin' = <<"150">> /\ job'[t] = "marked"
    BY <1>1, <1>6, ShortQueues DEF OriginMarks, Answers, SessionTypes
  <2> QED
    BY <1>2, <1>3, <1>4, <1>5, <2>1 DEF Answers, Pending
<1>7. CASE OriginRefuses(t) \/ OriginFinishes(t)
  <2>1. PICK f \in {"226", "550"} : fromOrigin' = Append(fromOrigin, f)
    BY <1>7 DEF OriginRefuses, OriginFinishes
  <2>2. fromOrigin' \in {<<f>>, <<"150", f>>}
    <3>1. Append(<<>>, f) = <<f>> /\ Append(<<"150">>, f) = <<"150", f>>
      BY ShortQueues
    <3> QED
      BY <1>4, <2>1, <3>1
  <2>3. /\ (Refused(t)' \/ job'[t] = "finished")
        /\ job'[t] = "finished" => peer'[t]["origin"] = "eof"
    BY <1>1, <1>2, <1>7 DEF OriginRefuses, OriginFinishes, SessionTypes
  <2>4. \A u \in Transfers : ~Pending(u)'
    BY <1>4, <1>5, <2>3 DEF Pending
  <2> QED
    BY <1>2, <1>3, <1>4, <1>5, <2>2, <2>3, <2>4 DEF Answers, Pending
<1> QED
  BY <1>6, <1>7

LEMMA AnswersKept ==
    ASSUME Patient, IInv, Asked, Reached, Answers, Next
    PROVE  Answers'
<1>1. \A t \in Transfers : peer[t]["origin"] = "eof" => peer'[t]["origin"] = "eof"
  BY PeerGone DEF Sides
<1>2. ASSUME UNCHANGED <<awaiting, fromOrigin, job, started, cpc>>, rpc' = "Run" => rpc = "Run"
      PROVE  Answers'
  <2>1. cpc' \notin {"Read", "Done"} => ~awaiting
    BY <1>2 DEF Answers
  <2> QED
    BY <1>1, <1>2, <2>1, AnswersStay
<1>3. CASE EndSession \/ DestroyDataHandler
  BY <1>2, <1>3 DEF EndSession, DestroyDataHandler, replyVars
<1>4. CASE \E t \in Transfers : PeerSends(t) \/ \E s \in Sides : PeerCloses(t, s)
  BY <1>2, <1>4 DEF PeerSends, PeerCloses, sessionVars, replyVars
<1>5. CASE \E t \in Transfers :
              Transfer(t) \/ \E s \in Sides : Connect(t, s) \/ Copy(t, s) \/ Expire(t, s)
  <2>1. PICK t \in Transfers, s \in Sides :
               Transfer(t) \/ Connect(t, s) \/ Copy(t, s) \/ Expire(t, s)
    BY <1>5 DEF Sides
  <2> QED
    BY <1>2, <2>1, ThreadFrame DEF sessionVars, replyVars
<1> QED
  BY <1>3, <1>4, <1>5, CommandAnswers, TakeReplyAnswers, OriginAnswers DEF Next, Peers

(* C takes up PORT or PASV only when no transfer is left.                  *)
LEMMA OverKept ==
    ASSUME Patient, IInv, Asked, Reached, Answers, Over, Next
    PROVE  Over'
<1>1. SessionTypes /\ ThreadTypes
  BY DEF IInv, TypeOK
<1> DEFINE Handling == {"NewHandler", "Destroy", "Install", "SendData"}
<1>2. CASE HandleDATA
  <2>1. ASSUME rpc = "Run", NEW t \in Transfers, owner[t] # None
        PROVE  Refused(t) \/ (job[t] = "finished" /\ peer[t]["client"] = "eof")
    <3>1. cpc = "Read" /\ ~awaiting /\ peer[t]["client"] # "open"
      BY <1>2 DEF HandleDATA, ClientReady
    <3>2. t <= started
      BY <1>1, <2>1 DEF IInv, CopyInv, Owned, SessionTypes, Transfers
    <3>3. (Refused(t) \/ job[t] = "finished")
      BY <1>1, <2>1, <3>1, <3>2 DEF Answers, Pending, SessionTypes, Transfers
    <3>4. job[t] = "finished" => peer[t]["client"] # "none"
      BY DEF Answers, Reached
    <3>5. peer[t]["client"] \in {"none", "open", "eof"}
      BY DEF IInv, TypeOK, DataTypes, Sides
    <3> QED
      BY <3>1, <3>3, <3>4, <3>5
  <2> QED
    BY <1>2, <2>1 DEF HandleDATA, Over, callerFrame, threadVars, dataVars, replyVars
<1>3. CASE ~HandleDATA
  <2>1. SUFFICES ASSUME cpc' \in Handling, rpc' = "Run", NEW t \in Transfers, owner'[t] # None
                 PROVE  Refused(t)' \/ (job'[t] = "finished" /\ peer'[t]["client"] = "eof")
    BY DEF Over
  <2>2. cpc \in Handling /\ rpc = "Run" /\ UNCHANGED owner
    <3>1. CASE CStep
      BY <1>3, <2>1, <3>1 DEF CStep, NewDataHandler, DestroyPrevious, InstallHandler, SendData,
         HandleTransfer, CheckStarted, SendTransfer, EndCommands, callerFrame, threadVars
    <3>2. CASE EndSession \/ DestroyDataHandler \/ TakeReply \/ Peers
      BY <2>1, <3>2 DEF EndSession, DestroyDataHandler, TakeReply, Peers, PeerSends, PeerCloses,
         OriginRefuses, OriginMarks, OriginFinishes, sessionVars, threadVars
    <3>3. CASE \E u \in Transfers :
              Transfer(u) \/ \E s \in Sides : Connect(u, s) \/ Copy(u, s) \/ Expire(u, s)
      <4>1. PICK u \in Transfers, s \in Sides :
                   Transfer(u) \/ Connect(u, s) \/ Copy(u, s) \/ Expire(u, s)
        BY <3>3 DEF Sides
      <4> QED
        BY <2>1, <4>1, ThreadFrame DEF sessionVars
    <3> QED
      BY <3>1, <3>2, <3>3 DEF Next
  <2>3. Refused(t) \/ (job[t] = "finished" /\ peer[t]["client"] = "eof")
    BY <2>1, <2>2 DEF Over
  <2>4. peer[t]["client"] = "eof" => peer'[t]["client"] = "eof"
    BY PeerGone DEF Sides
  <2>5. job'[t] = job[t]
    <3>1. CASE CStep
      BY <2>2, <3>1 DEF CStep, HandleDATA, NewDataHandler, DestroyPrevious, InstallHandler, SendData,
         HandleTransfer, CheckStarted, SendTransfer, EndCommands, callerFrame, replyVars
    <3>2. CASE EndSession \/ DestroyDataHandler \/ TakeReply
      BY <3>2 DEF EndSession, DestroyDataHandler, TakeReply, replyVars
    <3>3. CASE Peers
      BY <1>1, <2>3, <3>3 DEF Peers, PeerSends, PeerCloses, OriginRefuses, OriginMarks, OriginFinishes,
         replyVars, SessionTypes
    <3>4. CASE \E u \in Transfers :
              Transfer(u) \/ \E s \in Sides : Connect(u, s) \/ Copy(u, s) \/ Expire(u, s)
      <4>1. PICK u \in Transfers, s \in Sides :
                   Transfer(u) \/ Connect(u, s) \/ Copy(u, s) \/ Expire(u, s)
        BY <3>4 DEF Sides
      <4> QED
        BY <4>1, ThreadFrame DEF replyVars
    <3> QED
      BY <3>1, <3>2, <3>3, <3>4 DEF Next
  <2> QED
    BY <2>3, <2>4, <2>5
<1> QED
  BY <1>2, <1>3

LEMMA InitTurn == Init => TurnInv
BY InitReached, InitAnswers DEF TurnInv

LEMMA NextTurn ==
    ASSUME Patient, IInv, ConnInv, Asked, TurnInv, [Next]_vars
    PROVE  Asked' /\ TurnInv'
<1>1. CASE Next
  BY <1>1, AskedKept, ReachedKept, AnswersKept, OverKept DEF TurnInv, ConnInv
<1>2. CASE UNCHANGED vars
  <2>1. Asked' /\ Reached' /\ Over'
    BY <1>2 DEF Asked, TurnInv, Reached, Over, vars, sessionVars, handlerVars, threadVars,
       dataVars, replyVars
  <2>2. Answers'
    BY <1>2 DEF TurnInv, Answers, Pending, vars, sessionVars, dataVars, replyVars
  <2> QED
    BY <2>1, <2>2 DEF TurnInv
<1> QED
  BY <1>1, <1>2

-----------------------------------------------------------------------------
(* What pftp passes on.                                                    *)

LEMMA SinkSide ==
    ASSUME ThreadTypes, NEW t \in Transfers
    PROVE  Source(t) \in Sides /\ Sink(t) \in Sides /\ Sides = {Source(t), Sink(t)}
           /\ Source(t) # Sink(t)
BY DEF ThreadTypes, Source, Sink, Other, Sides

LEMMA RefusedStays ==
    ASSUME IInv, Asked, Next, NEW t \in Transfers
    PROVE  Refused(t) => Refused(t)'
<1>0. SessionTypes
  BY DEF IInv, TypeOK
<1>1. CASE SendTransfer
  BY <1>0, <1>1 DEF SendTransfer, Asked, SessionTypes
<1>2. CASE Peers
  BY <1>0, <1>2 DEF Peers, PeerSends, PeerCloses, OriginRefuses, OriginMarks, OriginFinishes,
     replyVars, SessionTypes
<1>3. CASE CStep /\ ~SendTransfer
  BY <1>3 DEF CStep, HandleDATA, NewDataHandler, DestroyPrevious, InstallHandler, SendData,
     HandleTransfer, CheckStarted, EndCommands, callerFrame, replyVars
<1>4. CASE EndSession \/ DestroyDataHandler \/ TakeReply
  BY <1>4 DEF EndSession, DestroyDataHandler, TakeReply, replyVars
<1>5. CASE \E u \in Transfers :
              Transfer(u) \/ \E s \in Sides : Connect(u, s) \/ Copy(u, s) \/ Expire(u, s)
  <2>1. PICK u \in Transfers, s \in Sides :
               Transfer(u) \/ Connect(u, s) \/ Copy(u, s) \/ Expire(u, s)
    BY <1>5 DEF Sides
  <2> QED
    BY <2>1, ThreadFrame DEF replyVars
<1> QED
  BY <1>1, <1>2, <1>3, <1>4, <1>5 DEF Next

(* What has been given up stays given up.                                  *)
LEMMA GivenUp ==
    ASSUME IInv, Asked, Reached, Next, NEW t \in Transfers, owner[t] # None
    PROVE  /\ owner'[t] = owner[t] /\ direction'[t] = direction[t]
           /\ Flowing(t)' => Flowing(t)
<1>1. SessionTypes /\ ThreadTypes /\ DataTypes /\ Places
  BY DEF IInv, TypeOK
<1>2. CheckStarted => \/ UNCHANGED <<owner, direction, dpc>>
                      \/ started' \in Transfers /\ started' # t
  BY <1>1 DEF CheckStarted, SessionTypes, Places, Transfers, IInv, CopyInv, Owned
<1>3. owner'[t] = owner[t] /\ direction'[t] = direction[t]
  <2>1. CASE CheckStarted
    BY <1>1, <1>2, <2>1 DEF CheckStarted, ThreadTypes
  <2>2. CASE CStep /\ ~CheckStarted
    BY <2>2 DEF CStep, HandleDATA, NewDataHandler, DestroyPrevious, InstallHandler, SendData,
       HandleTransfer, SendTransfer, EndCommands, callerFrame, threadVars
  <2>3. CASE EndSession \/ DestroyDataHandler \/ TakeReply \/ Peers
    BY <2>3, ReplyFrame DEF threadVars
  <2>4. CASE \E u \in Transfers :
                Transfer(u) \/ \E s \in Sides : Connect(u, s) \/ Copy(u, s) \/ Expire(u, s)
    <3>1. PICK u \in Transfers, s \in Sides :
                 Transfer(u) \/ Connect(u, s) \/ Copy(u, s) \/ Expire(u, s)
      BY <2>4 DEF Sides
    <3> QED
      BY <3>1, ThreadFrame
  <2> QED
    BY <2>1, <2>2, <2>3, <2>4 DEF Next
<1>4. rpc' = "Run" => rpc = "Run"
  <2>1. CASE \E u \in Transfers :
                Transfer(u) \/ \E s \in Sides : Connect(u, s) \/ Copy(u, s) \/ Expire(u, s)
    <3>1. PICK u \in Transfers, s \in Sides :
                 Transfer(u) \/ Connect(u, s) \/ Copy(u, s) \/ Expire(u, s)
      BY <2>1 DEF Sides
    <3> QED
      BY <3>1, ThreadFrame DEF sessionVars
  <2>2. CASE CStep \/ EndSession \/ DestroyDataHandler \/ TakeReply \/ Peers
    BY <2>2 DEF CStep, HandleDATA, NewDataHandler, DestroyPrevious, InstallHandler, SendData,
       HandleTransfer, CheckStarted, SendTransfer, EndCommands, callerFrame, EndSession,
       DestroyDataHandler, TakeReply, Peers, PeerSends, PeerCloses, OriginRefuses, OriginMarks,
       OriginFinishes, sessionVars
  <2> QED
    BY <2>1, <2>2 DEF Next
<1>5. Refused(t) => Refused(t)'
  BY RefusedStays
<1>6. \A r \in Sides : dpc[t][r] \in {"Close", "Err"} => dpc'[t][r] \in {"Close", "Err"}
  <2>1. CASE CheckStarted
    BY <1>1, <1>2, <2>1 DEF CheckStarted, ThreadTypes
  <2>2. CASE CStep /\ ~CheckStarted
    BY <2>2 DEF CStep, HandleDATA, NewDataHandler, DestroyPrevious, InstallHandler, SendData,
       HandleTransfer, SendTransfer, EndCommands, callerFrame, threadVars
  <2>3. CASE EndSession \/ DestroyDataHandler \/ TakeReply \/ Peers
    BY <2>3, ReplyFrame DEF threadVars
  <2>4. ASSUME NEW u \in Transfers, NEW s \in Sides, Connect(u, s)
        PROVE  \A r \in Sides : dpc[t][r] \in {"Close", "Err"} => dpc'[t][r] \in {"Close", "Err"}
    <3>1. CASE CloseAfterErr(u, s)
      BY <1>1, <3>1 DEF CloseAfterErr, Goto, ThreadTypes
    <3>2. CASE CheckTLS(u, s) \/ Handshake(u, s) \/ StoreConn(u, s) \/ StoreTLSConn(u, s)
               \/ BeginConnect(u, s)
      <4>1. /\ dpc[u][s] \notin {"Close", "Err"}
            /\ \E to \in {"CheckTLS", "Handshake", "Wrapped", "OK", "Close", "Open"} :
                 dpc' = [dpc EXCEPT ![u][s] = to]
        BY <3>2 DEF CheckTLS, Handshake, StoreConn, StoreTLSConn, BeginConnect, Goto
      <4> QED
        BY <1>1, <4>1 DEF ThreadTypes
    <3>3. CASE Connected(u, s) \/ ConnectFails(u, s)
      <4>1. dpc[u][s] = "Open" /\ (s = "client" => dpc[u]["origin"] = "Await")
        BY <3>3 DEF Connected, ConnectFails, Reached
      <4>2. \A v \in Transfers : v # u => dpc'[v] = dpc[v]
        BY <1>1, <3>3 DEF Connected, ConnectFails, ThreadTypes
      <4>3. CASE s = "client"
        BY <4>1, <4>2, <4>3 DEF Sides
      <4>4. CASE s = "origin"
        <5>1. dpc'[u]["client"] = dpc[u]["client"]
          BY <1>1, <3>3, <4>4 DEF Connected, ConnectFails, ThreadTypes, Sides
        <5> QED
          BY <4>1, <4>2, <4>4, <5>1 DEF Sides
      <4> QED
        BY <4>3, <4>4 DEF Sides
    <3> QED
      BY <2>4, <3>1, <3>2, <3>3 DEF Connect
  <2>5. ASSUME NEW u \in Transfers, NEW s \in Sides,
               Transfer(u) \/ Copy(u, s) \/ Expire(u, s)
        PROVE  dpc' = dpc
    BY <2>5 DEF Transfer, JoinConnect, JoinRun, EndTransfer, Copy, BeginCopy, CheckClosed,
       ReadChunk, ReadEOF, ReadFails, WriteChunk, WriteFails, Expire, copyFrame, threadVars
  <2>6. \E s \in Sides : TRUE
    BY DEF Sides
  <2> QED
    BY <2>1, <2>2, <2>3, <2>4, <2>5, <2>6 DEF Next
<1>7. \A r \in Sides : expired[t][r] => expired'[t][r]
  <2>1. CASE CStep \/ EndSession \/ DestroyDataHandler \/ TakeReply
    BY <2>1 DEF CStep, HandleDATA, NewDataHandler, DestroyPrevious, InstallHandler, SendData,
       HandleTransfer, CheckStarted, SendTransfer, EndCommands, EndSession, DestroyDataHandler,
       TakeReply, callerFrame, dataVars
  <2>2. CASE Peers
    BY <2>2 DEF Peers, PeerSends, PeerCloses, OriginRefuses, OriginMarks, OriginFinishes, dataVars
  <2>3. ASSUME NEW u \in Transfers, NEW s \in Sides,
               Transfer(u) \/ Connect(u, s) \/ Copy(u, s) \/ Expire(u, s)
        PROVE  expired' = expired \/ expired' = [expired EXCEPT ![u][s] = TRUE]
    BY <2>3 DEF Transfer, JoinConnect, JoinRun, EndTransfer, Connect, BeginConnect,
       Connected, ConnectFails, StoreConn, CheckTLS, Handshake, StoreTLSConn,
       CloseAfterErr, Copy, BeginCopy, CheckClosed, ReadChunk, ReadEOF, ReadFails,
       WriteChunk, WriteFails, Expire, dataVars
  <2>4. ASSUME NEW u \in Transfers, NEW s \in Sides,
               expired' = [expired EXCEPT ![u][s] = TRUE]
        PROVE  \A r \in Sides : expired[t][r] => expired'[t][r]
    BY <1>1, <2>4 DEF DataTypes
  <2>5. \E s \in Sides : TRUE
    BY DEF Sides
  <2> QED
    BY <2>1, <2>2, <2>3, <2>4, <2>5 DEF Next
<1>8. \A r \in Sides : peer[t][r] = "eof" => peer'[t][r] = "eof"
  BY PeerGone
<1>9. Sink(t)' = Sink(t) /\ Sink(t) \in Sides
  BY <1>1, <1>3, SinkSide DEF Sink, Source
<1> QED
  BY <1>3, <1>4, <1>5, <1>6, <1>7, <1>8, <1>9 DEF Flowing

(* A transfer that no step touches is kept.                                *)
LEMMA KeptStays ==
    ASSUME ThreadTypes, NEW t \in Transfers, Kept(t),
           UNCHANGED <<owner[t], direction[t], tpc[t], sent[t], unread[t], got[t]>>,
           closed'[owner[t]] = closed[owner[t]],
           \A r \in Sides : UNCHANGED <<kpc[t][r], sock[t][r], dpc[t][r]>>,
           \A r \in Sides : peer[t][r] = "eof" => peer'[t][r] = "eof"
    PROVE  Kept(t)'
<1>1. Source(t) \in Sides /\ Sink(t) \in Sides
  BY SinkSide
<1>2. Source(t)' = Source(t) /\ Sink(t)' = Sink(t)
  BY DEF Source, Sink
<1>3. PassedOn(t)'
  BY <1>1, <1>2 DEF Kept, PassedOn
<1> QED
  BY <1>1, <1>2, <1>3 DEF Kept

(* Closing another handler leaves the connections of a transfer alone.     *)
LEMMA OtherClose ==
    ASSUME IInv, OwnConns, NEW t \in Transfers, owner[t] # None,
           NEW h \in 0 .. MaxHandlers, h # owner[t], Close(h)
    PROVE  /\ closed'[owner[t]] = closed[owner[t]]
           /\ \A r \in Sides : /\ sock'[t][r] = sock[t][r]
                               /\ dataConn'[owner[t]][r] = dataConn[owner[t]][r]
<1>1. HandlerTypes /\ owner[t] \in Handlers
  BY DEF IInv, TypeOK, ThreadTypes, Handlers
<1>2. CASE UNCHANGED <<closed, sock, dataConn>>
  BY <1>2
<1>3. CASE ~UNCHANGED <<closed, sock, dataConn>>
  <2>1. /\ h \in Handlers
        /\ \A g \in Handlers : closed'[g] = (g = h \/ closed[g])
        /\ \A g \in Handlers, r \in Sides :
             dataConn'[g][r] = IF g = h THEN None ELSE dataConn[g][r]
        /\ \A v \in Transfers, r \in Sides :
             sock'[v][r] = IF dataConn[h][r] = v THEN "closed" ELSE sock[v][r]
    BY <1>1, <1>3, CloseEffect
  <2>2. \A r \in Sides : dataConn[h][r] # t
    BY <2>1 DEF OwnConns, Transfers
  <2>3. closed[owner[t]] \in BOOLEAN
    BY <1>1 DEF HandlerTypes
  <2>4. closed'[owner[t]] = (owner[t] = h \/ closed[owner[t]])
    BY <1>1, <2>1
  <2>5. closed'[owner[t]] = closed[owner[t]]
    BY <2>3, <2>4
  <2> QED
    BY <1>1, <2>1, <2>2, <2>5
<1> QED
  BY <1>2, <1>3

LEMMA InitFlow == Init => FlowInv
<1> SUFFICES ASSUME Init PROVE FlowInv
  OBVIOUS
<1>1. cpc = "Read" /\ \A t \in Transfers : owner[t] = None
  BY DEF Init
<1>2. \A t \in Transfers : sent[t] = 0 /\ unread[t] = 0 /\ got[t] = 0
  BY DEF Init
<1> QED
  BY <1>1, <1>2 DEF FlowInv, Flows, Flowing, StillOpen, Unused

(* When C or R closes the handler, every transfer has been given up.       *)
LEMMA NothingFlows ==
    ASSUME IInv, TurnInv, rpc = "Run" => cpc \in {"Destroy", "SendData"}, NEW t \in Transfers
    PROVE  ~Flowing(t)
<1>1. SUFFICES ASSUME Flowing(t) PROVE FALSE
  OBVIOUS
<1>2. job[t] = "finished" /\ peer[t]["client"] = "eof"
  BY <1>1 DEF Flowing, TurnInv, Over
<1>3. peer[t]["origin"] = "eof"
  BY <1>2 DEF TurnInv, Answers
<1>4. Sink(t) \in {"client", "origin"}
  BY SinkSide DEF Sides, IInv, TypeOK
<1> QED
  BY <1>1, <1>2, <1>3, <1>4 DEF Flowing

LEMMA CommandFlows ==
    ASSUME Patient, IInv, ConnInv, Asked, TurnInv, FlowInv, CStep
    PROVE  Flows'
<1>1. SessionTypes /\ ThreadTypes /\ Places
  BY DEF IInv, TypeOK
<1> SUFFICES ASSUME NEW t \in Transfers, Flowing(t)' PROVE Kept(t)'
  BY DEF Flows
<1>2. CASE owner[t] = None
  <2>1. CheckStarted /\ owner'[t] # owner[t]
    BY <1>2 DEF CStep, HandleDATA, NewDataHandler, DestroyPrevious, InstallHandler, SendData,
       HandleTransfer, SendTransfer, EndCommands, callerFrame, threadVars, Flowing
  <2>2. /\ t = started' /\ owner'[t] = current /\ tpc'[t] = "Connect" /\ cpc = "CheckStarted"
        /\ dpc'[t] = [client |-> "Begin", origin |-> "Await"] /\ direction'[t] \in Sides
    BY <1>1, <2>1 DEF CheckStarted, ThreadTypes
  <2>3. /\ UNCHANGED <<rpc, closed, kpc, sock, peer, sent, unread, got>>
    BY <2>1 DEF CheckStarted, handlerVars, dataVars
  <2>4. rpc = "Run" /\ ~closed[current]
    BY <2>2, <2>3 DEF Flowing, FlowInv, StillOpen
  <2>5. \A r \in Sides : dpc[t][r] = "None" /\ kpc[t][r] = "None"
    BY <1>2 DEF IInv, CopyInv, Owned
  <2>6. \A r \in Sides : sock[t][r] = "none"
    BY <2>5 DEF TurnInv, Reached, Unconnected
  <2>7. sent[t] = 0 /\ unread[t] = 0 /\ got[t] = 0
    BY <1>2 DEF FlowInv, Unused
  <2>8. \A r \in Sides : dpc'[t][r] \in Unconnected
    BY <2>2 DEF Sides, Unconnected
  <2>9. Source(t)' \in Sides /\ Sink(t)' \in Sides
    BY <2>2 DEF Source, Sink, Other, Sides
  <2>10. PassedOn(t)'
    BY <2>3, <2>5, <2>6, <2>7, <2>9 DEF PassedOn
  <2> QED
    BY <2>2, <2>3, <2>4, <2>5, <2>6, <2>8, <2>9, <2>10 DEF Kept
<1>3. CASE owner[t] # None
  <2>1. owner'[t] = owner[t] /\ direction'[t] = direction[t] /\ Flowing(t) /\ Kept(t)
    BY <1>3, GivenUp DEF TurnInv, FlowInv, Flows, Next
  <2>2. ~DestroyPrevious /\ ~SendData
    BY <2>1, NothingFlows DEF DestroyPrevious, SendData
  <2>3. UNCHANGED <<closed, sock, kpc, peer, sent, unread, got>>
    BY <2>2 DEF CStep, HandleDATA, NewDataHandler, InstallHandler, HandleTransfer, CheckStarted,
       SendTransfer, EndCommands, callerFrame, handlerVars, threadVars, dataVars
  <2>4. tpc'[t] = tpc[t] /\ dpc'[t] = dpc[t]
    <3>1. CASE CheckStarted
      <4>1. started' # t \/ UNCHANGED <<tpc, dpc>>
        BY <1>1, <1>3, <3>1 DEF CheckStarted, SessionTypes, Places, Transfers, IInv, CopyInv, Owned
      <4> QED
        BY <1>1, <3>1, <4>1 DEF CheckStarted, ThreadTypes
    <3>2. CASE ~CheckStarted
      BY <2>2, <3>2 DEF CStep, HandleDATA, NewDataHandler, InstallHandler, HandleTransfer,
         SendTransfer, EndCommands, callerFrame, threadVars
    <3> QED
      BY <3>1, <3>2
  <2> QED
    BY <1>1, <2>1, <2>3, <2>4, KeptStays
<1> QED
  BY <1>2, <1>3

LEMMA ReplyFlows ==
    ASSUME IInv, ConnInv, Asked, TurnInv, FlowInv,
           EndSession \/ DestroyDataHandler \/ TakeReply \/ Peers
    PROVE  Flows'
<1>1. SessionTypes /\ ThreadTypes /\ DataTypes
  BY DEF IInv, TypeOK
<1> SUFFICES ASSUME NEW t \in Transfers, Flowing(t)' PROVE Kept(t)'
  BY DEF Flows
<1>2. UNCHANGED threadVars
  BY ReplyFrame
<1>3. owner[t] # None /\ Flowing(t) /\ Kept(t)
  BY <1>2, GivenUp DEF TurnInv, FlowInv, Flows, Next, Flowing, threadVars
<1>4. \A r \in Sides : peer[t][r] = "eof" => peer'[t][r] = "eof"
  BY PeerGone DEF TurnInv, Next
<1>5. UNCHANGED <<closed, sock>>
  <2>1. ~DestroyDataHandler
    BY <1>3, NothingFlows DEF DestroyDataHandler
  <2> QED
    BY <2>1 DEF EndSession, TakeReply, Peers, PeerSends, PeerCloses, OriginRefuses, OriginMarks,
       OriginFinishes, handlerVars
<1>6. CASE UNCHANGED <<sent[t], unread[t], got[t]>>
  BY <1>1, <1>2, <1>3, <1>4, <1>5, <1>6, KeptStays DEF threadVars
<1>7. CASE ~UNCHANGED <<sent[t], unread[t], got[t]>>
  <2>1. PICK u \in Transfers : PeerSends(u)
    BY <1>7 DEF EndSession, DestroyDataHandler, TakeReply, Peers, PeerCloses, OriginRefuses,
       OriginMarks, OriginFinishes, dataVars
  <2>2. u = t
    BY <1>1, <1>7, <2>1 DEF PeerSends, DataTypes
  <2>3. /\ peer[t][Source(t)] = "open" /\ UNCHANGED got
        /\ sent'[t] = sent[t] + 1 /\ unread'[t] = unread[t] + 1
    BY <1>1, <2>1, <2>2 DEF PeerSends, DataTypes
  <2>4. kpc[t][Source(t)] # "Ended"
    BY <1>3, <2>3 DEF Kept, PassedOn
  <2>5. /\ sock[t][Sink(t)] \in {"none", "open"}
        /\ unread[t] + got[t] + (IF kpc[t][Source(t)] = "Write" THEN 1 ELSE 0) = sent[t]
    BY <1>3, <2>4 DEF Kept, PassedOn
  <2>6. unread[t] \in Nat /\ got[t] \in Nat /\ sent[t] \in Nat
    BY <1>1 DEF DataTypes
  <2>7. Source(t)' = Source(t) /\ Sink(t)' = Sink(t)
    BY <1>2 DEF Source, Sink, threadVars
  <2>8. PassedOn(t)'
    BY <1>2, <1>5, <2>3, <2>4, <2>5, <2>6, <2>7 DEF PassedOn, threadVars
  <2> QED
    BY <1>2, <1>3, <1>5, <2>7, <2>8 DEF Kept, threadVars
<1> QED
  BY <1>6, <1>7

(* A goroutine of another transfer leaves this one alone.                  *)
LEMMA OtherThread ==
    ASSUME IInv, ConnInv, NEW t \in Transfers, owner[t] # None,
           NEW u \in Transfers, NEW s \in Sides, u # t,
           Transfer(u) \/ Connect(u, s) \/ Copy(u, s) \/ Expire(u, s)
    PROVE  /\ UNCHANGED <<owner[t], direction[t], tpc[t], sent[t], unread[t], got[t]>>
           /\ closed'[owner[t]] = closed[owner[t]]
           /\ \A r \in Sides : /\ UNCHANGED <<kpc[t][r], sock[t][r], dpc[t][r]>>
                               /\ dataConn'[owner[t]][r] = dataConn[owner[t]][r]
<1>1. HandlerTypes /\ ThreadTypes /\ DataTypes
  BY DEF IInv, TypeOK
<1>2. UNCHANGED <<owner, direction>> /\ owner[u] # None
  BY ThreadFrame
<1>3. owner[u] # owner[t] /\ owner[t] \in Handlers /\ owner[u] \in Handlers
      /\ owner[u] \in 0 .. MaxHandlers
  BY <1>1, <1>2 DEF ConnInv, Unshared, Handlers, ThreadTypes
<1> DEFINE Apart == /\ closed'[owner[t]] = closed[owner[t]]
                    /\ \A r \in Sides : /\ sock'[t][r] = sock[t][r]
                                        /\ dataConn'[owner[t]][r] = dataConn[owner[t]][r]
<1>7. Close(owner[u]) => Apart
  BY <1>3, OtherClose DEF ConnInv
<1>4. CASE Transfer(u)
  <2>1. UNCHANGED <<dpc, dataVars>> /\ tpc'[t] = tpc[t] /\ kpc'[t] = kpc[t]
    BY <1>1, <1>4 DEF Transfer, JoinConnect, JoinRun, EndTransfer, ThreadTypes
  <2>2. Close(owner[u]) \/ UNCHANGED <<closed, sock, dataConn>>
    BY <1>4 DEF Transfer, JoinConnect, JoinRun, EndTransfer, handlerVars
  <2>3. Apart
    BY <1>7, <2>2
  <2> QED
    BY <1>2, <2>1, <2>3 DEF dataVars
<1>5. CASE Connect(u, s)
  <2>1. UNCHANGED <<tpc, kpc, sent, unread, got>> /\ dpc'[t] = dpc[t]
    BY <1>1, <1>5 DEF Connect, BeginConnect, Connected, ConnectFails, StoreConn, CheckTLS,
       Handshake, StoreTLSConn, CloseAfterErr, Goto, connectFrame, dataVars, ThreadTypes
  <2>2. \/ Close(owner[u])
        \/ /\ closed' = closed /\ sock'[t] = sock[t]
           /\ dataConn' = dataConn \/ dataConn' = [dataConn EXCEPT ![owner[u]][s] = u]
    BY <1>1, <1>5 DEF Connect, BeginConnect, Connected, ConnectFails, StoreConn, CheckTLS,
       Handshake, StoreTLSConn, CloseAfterErr, handlerVars, HandlerTypes
  <2>3. Apart
    BY <1>1, <1>3, <1>7, <2>2 DEF HandlerTypes
  <2> QED
    BY <1>2, <2>1, <2>3
<1>6. CASE Copy(u, s) \/ Expire(u, s)
  <2>1. UNCHANGED <<tpc, dpc, closed, dataConn, sent>> /\ kpc'[t] = kpc[t]
    BY <1>1, <1>6 DEF Copy, BeginCopy, CheckClosed, ReadChunk, ReadEOF, ReadFails, WriteChunk,
       WriteFails, Expire, copyFrame, handlerVars, threadVars, dataVars, ThreadTypes
  <2>2. Other(s) \in Sides
    BY DEF Other, Sides
  <2>3. kpc[u][s] \in {"Read", "Write"} => kconn[u][s][s] = u /\ kconn[u][s][Other(s)] = u
    BY <2>2, CopierOwn DEF ConnInv
  <2>4. sock'[t] = sock[t]
    BY <1>1, <1>6, <2>3 DEF Copy, BeginCopy, CheckClosed, ReadChunk, ReadEOF, ReadFails,
       WriteChunk, WriteFails, Expire, HandlerTypes
  <2>5. unread'[t] = unread[t] /\ got'[t] = got[t]
    BY <1>1, <1>6, <2>3 DEF Copy, BeginCopy, CheckClosed, ReadChunk, ReadEOF, ReadFails,
       WriteChunk, WriteFails, Expire, DataTypes, dataVars
  <2> QED
    BY <1>2, <2>1, <2>4, <2>5
<1> QED
  BY <1>4, <1>5, <1>6

LEMMA TransferFlows ==
    ASSUME IInv, ConnInv, TurnInv, NEW t \in Transfers, Flowing(t), Kept(t), Transfer(t)
    PROVE  Kept(t)'
<1>1. ThreadTypes
  BY DEF IInv, TypeOK
<1>2. \A r \in Sides : dpc[t][r] # "Err"
  BY DEF Flowing
<1>3. Source(t) \in Sides /\ Sink(t) \in Sides
  BY <1>1, SinkSide
<1>4. ~JoinRun(t) /\ ~EndTransfer(t)
  BY <1>3 DEF JoinRun, EndTransfer, Kept
<1>5. /\ tpc[t] = "Connect" /\ tpc' = [tpc EXCEPT ![t] = "Run"]
      /\ kpc' = [kpc EXCEPT ![t] = [r \in Sides |-> "Begin"]]
      /\ UNCHANGED <<owner, direction, closed, dpc, sock, peer, sent, unread, got>>
  BY <1>2, <1>4 DEF Transfer, JoinConnect, handlerVars, dataVars
<1>6. /\ tpc'[t] = "Run"
      /\ \A r \in Sides : kpc[t][r] = "None" /\ kpc'[t][r] = "Begin"
  BY <1>1, <1>5 DEF Kept, ThreadTypes
<1>7. Source(t)' = Source(t) /\ Sink(t)' = Sink(t)
  BY <1>5 DEF Source, Sink
<1>8. PassedOn(t)'
  BY <1>3, <1>5, <1>6, <1>7 DEF Kept, PassedOn
<1> QED
  BY <1>3, <1>5, <1>6, <1>7, <1>8 DEF Kept

LEMMA ConnectFlows ==
    ASSUME IInv, ConnInv, TurnInv, NEW t \in Transfers, NEW s \in Sides,
           Flowing(t), Flowing(t)', Kept(t), Connect(t, s)
    PROVE  Kept(t)'
<1>1. HandlerTypes /\ ThreadTypes
  BY DEF IInv, TypeOK
<1>2. Source(t) \in Sides /\ Sink(t) \in Sides
  BY <1>1, SinkSide
<1>3. UNCHANGED <<owner, direction, tpc, kpc, sent, unread, got>>
  BY DEF Connect, BeginConnect, Connected, ConnectFails, StoreConn, CheckTLS, Handshake,
     StoreTLSConn, CloseAfterErr, connectFrame, dataVars
<1>4. \A r \in Sides : dpc'[t][r] \notin {"Close", "Err"} /\ dpc[t][r] \notin {"Close", "Err"}
  BY DEF Flowing
<1>5. dpc[t][s] # "OK" /\ ~CloseAfterErr(t, s)
  BY <1>4 DEF Connect, BeginConnect, Connected, ConnectFails, StoreConn, CheckTLS,
     Handshake, StoreTLSConn, CloseAfterErr
<1>6. UNCHANGED closed
  BY <1>5 DEF Connect, BeginConnect, Connected, ConnectFails, StoreConn, CheckTLS, Handshake,
     StoreTLSConn, handlerVars
<1>7. \A r \in Sides : kpc[t][r] = "None"
  BY <1>5 DEF IInv, CopyInv, Joined
<1>8. ~ConnectFails(t, s)
  <2>1. SUFFICES ASSUME ConnectFails(t, s) PROVE dpc'[t][s] = "Close"
    BY <1>4
  <2>2. CASE s = "client"
    BY <1>1, <2>1, <2>2 DEF ConnectFails, ThreadTypes
  <2>3. CASE s = "origin"
    BY <1>1, <2>1, <2>3 DEF ConnectFails, ThreadTypes
  <2> QED
    BY <2>2, <2>3 DEF Sides
<1>9. \A r \in Sides : /\ sock'[t][r] \in {sock[t][r], "open"}
                       /\ sock'[t][r] = "none" => dpc'[t][r] \in Unconnected
  <2>1. CASE BeginConnect(t, s)
    <3>1. UNCHANGED sock /\ \A r \in Sides : dpc'[t][r] \in {dpc[t][r], "Open", "Close"}
      BY <1>1, <2>1 DEF BeginConnect, Goto, ThreadTypes
    <3> QED
      BY <1>4, <3>1 DEF Kept, Unconnected
  <2>2. CASE Connected(t, s)
    <3>1. \A r \in Sides : sock'[t][r] = IF r = s THEN "open" ELSE sock[t][r]
      BY <1>1, <2>2 DEF Connected, HandlerTypes
    <3>2. \A r \in Sides : r # s => dpc'[t][r] \in {dpc[t][r], "Begin"}
      <4>1. CASE s = "client"
        <5>1. dpc'[t] = [client |-> "Store", origin |-> "Begin"]
          BY <1>1, <2>2, <4>1 DEF Connected, ThreadTypes
        <5> QED
          BY <4>1, <5>1 DEF Sides
      <4>2. CASE s = "origin"
        <5>1. dpc'[t]["client"] = dpc[t]["client"]
          BY <1>1, <2>2, <4>2 DEF Connected, ThreadTypes, Sides
        <5> QED
          BY <4>2, <5>1 DEF Sides
      <4> QED
        BY <4>1, <4>2 DEF Sides
    <3> QED
      BY <3>1, <3>2 DEF Kept, Unconnected
  <2>3. CASE StoreConn(t, s) \/ CheckTLS(t, s) \/ Handshake(t, s) \/ StoreTLSConn(t, s)
    <3>1. UNCHANGED sock /\ dpc[t][s] \in {"Store", "CheckTLS", "Handshake", "Wrapped"}
          /\ \E to \in {"CheckTLS", "Handshake", "Wrapped", "OK", "Close"} :
               dpc' = [dpc EXCEPT ![t][s] = to]
      BY <2>3 DEF StoreConn, CheckTLS, Handshake, StoreTLSConn, Goto
    <3>2. \A r \in Sides : r # s => dpc'[t][r] = dpc[t][r]
      BY <1>1, <3>1 DEF ThreadTypes
    <3>3. sock[t][s] # "none"
      BY <3>1 DEF Kept, Unconnected
    <3> QED
      BY <3>1, <3>2, <3>3 DEF Kept
  <2> QED
    BY <1>5, <1>8, <2>1, <2>2, <2>3 DEF Connect
<1>10. Source(t)' = Source(t) /\ Sink(t)' = Sink(t)
  BY <1>3 DEF Source, Sink
<1>11. PassedOn(t)'
  BY <1>2, <1>3, <1>7, <1>9, <1>10 DEF Kept, PassedOn
<1> QED
  BY <1>2, <1>3, <1>6, <1>7, <1>9, <1>10, <1>11 DEF Kept

LEMMA CopyFlows ==
    ASSUME IInv, ConnInv, TurnInv, NEW t \in Transfers, NEW s \in Sides,
           Flowing(t), Kept(t), Copy(t, s) \/ Expire(t, s)
    PROVE  Kept(t)'
<1>1. HandlerTypes /\ ThreadTypes /\ DataTypes
  BY DEF IInv, TypeOK
<1> DEFINE p == Source(t)
           q == Sink(t)
<1>2. p \in Sides /\ q \in Sides /\ Sides = {p, q} /\ p # q /\ Other(p) = q
  BY <1>1, SinkSide DEF Sink
<1>3. UNCHANGED <<owner, direction, tpc, dpc, closed, sent, peer>>
  BY DEF Copy, BeginCopy, CheckClosed, ReadChunk, ReadEOF, ReadFails, WriteChunk, WriteFails,
     Expire, copyFrame, handlerVars, threadVars, dataVars
<1>4. p' = p /\ q' = q
  BY <1>3 DEF Source, Sink
<1>5. unread[t] \in Nat /\ got[t] \in Nat /\ sent[t] \in Nat
  BY <1>1 DEF DataTypes
<1>6. ASSUME kpc[t][s] \in {"Read", "Write"}
      PROVE  /\ kconn[t][s][p] = t /\ kconn[t][s][q] = t /\ tpc[t] = "Run"
             /\ sock[t][p] = "open" /\ sock[t][q] # "none"
  <2>1. kconn[t][s][p] = t /\ kconn[t][s][q] = t /\ dpc[t][p] = "OK" /\ dpc[t][q] = "OK"
    BY <1>2, <1>6, CopierOwn DEF ConnInv
  <2>2. sock[t][p] # "none" /\ sock[t][q] # "none"
    BY <1>2, <2>1 DEF Kept, Unconnected
  <2> QED
    BY <1>6, <2>1, <2>2 DEF Kept
<1> HIDE DEF p, q
<1>7. CASE BeginCopy(t, s) \/ CheckClosed(t, s) \/ Expire(t, s)
  <2>1. UNCHANGED <<sock, unread, got>>
    BY <1>7 DEF BeginCopy, CheckClosed, Expire, dataVars
  <2>2. \/ kpc' = kpc
        \/ /\ tpc[t] = "Run" /\ kpc[t][s] \in {"Begin", "Check"}
           /\ \E to \in {"Check", "Read"} : kpc' = [kpc EXCEPT ![t][s] = to]
    BY <1>7 DEF BeginCopy, CheckClosed, Expire, threadVars, Kept
  <2>3. CASE kpc' = kpc
    BY <1>3, <1>4, <2>1, <2>3 DEF Kept, PassedOn, p, q
  <2>4. ASSUME tpc[t] = "Run", kpc[t][s] \in {"Begin", "Check"},
               NEW to \in {"Check", "Read"}, kpc' = [kpc EXCEPT ![t][s] = to]
        PROVE  Kept(t)'
    <3>1. kpc'[t][s] = to /\ \A r \in Sides : r # s => kpc'[t][r] = kpc[t][r]
      BY <1>1, <2>4 DEF ThreadTypes
    <3>2. PassedOn(t)'
      BY <1>2, <1>3, <1>4, <2>1, <2>4, <3>1 DEF Kept, PassedOn, p, q
    <3> QED
      BY <1>2, <1>3, <1>4, <2>1, <2>4, <3>1, <3>2 DEF Kept, p, q
  <2> QED
    BY <2>2, <2>3, <2>4
<1>8. CASE ReadChunk(t, s)
  <2>1. kpc[t][s] = "Read" /\ kconn[t][s][s] = t /\ s = p /\ UNCHANGED <<sock, got>>
    BY <1>2, <1>6, <1>8 DEF ReadChunk, p
  <2>2. unread[t] > 0 /\ unread'[t] = unread[t] - 1 /\ kpc'[t][p] = "Write" /\ kpc'[t][q] = kpc[t][q]
    BY <1>1, <1>2, <1>8, <2>1 DEF ReadChunk, DataTypes, ThreadTypes
  <2>3. PassedOn(t)'
    BY <1>3, <1>4, <1>5, <2>1, <2>2 DEF Kept, PassedOn, p, q
  <2> QED
    BY <1>3, <1>4, <1>6, <2>1, <2>2, <2>3 DEF Kept, p, q
<1>9. CASE ReadEOF(t, s)
  <2>1. /\ kpc[t][s] = "Read" /\ kconn[t][s][s] = t /\ peer[t][s] = "eof" /\ UNCHANGED <<unread, got>>
        /\ ~(p = s /\ unread[t] > 0)
    BY <1>2, <1>6, <1>9 DEF ReadEOF, p, dataVars
  <2>2. s = p
    BY <1>2, <2>1 DEF Flowing, q
  <2>3. kpc'[t][p] = "Ended" /\ kpc'[t][q] = kpc[t][q]
    BY <1>1, <1>2, <1>9, <2>2 DEF ReadEOF, ThreadTypes
  <2>4. unread[t] = 0 /\ got[t] = sent[t] /\ sock[t][q] = "open"
    BY <1>5, <1>6, <2>1, <2>2 DEF Kept, PassedOn, p, q
  <2>5. sock'[t][q] = "half" /\ sock'[t][p] = sock[t][p]
    <3>1. kconn[t][s][Other(s)] = t /\ Other(s) = q
      BY <1>2, <1>6, <2>1, <2>2
    <3>2. sock' = [sock EXCEPT ![t][q] = IF @ = "open" THEN "half" ELSE @]
      BY <1>9, <3>1 DEF ReadEOF
    <3> QED
      BY <1>1, <1>2, <2>4, <3>2 DEF HandlerTypes
  <2>6. PassedOn(t)'
    BY <1>3, <1>4, <2>1, <2>2, <2>3, <2>4, <2>5 DEF PassedOn, p, q
  <2> QED
    BY <1>2, <1>3, <1>4, <1>6, <2>1, <2>3, <2>5, <2>6 DEF Kept, p, q
<1>10. CASE ReadFails(t, s)
  <2>1. kpc[t][s] = "Read" /\ kconn[t][s][s] = t /\ ~Usable(t, s)
    BY <1>2, <1>6, <1>10 DEF ReadFails
  <2>2. sock[t][s] \in {"open", "half"}
    <3>1. CASE s = p
      BY <1>6, <2>1, <3>1
    <3>2. CASE s = q
      BY <1>6, <2>1, <3>2 DEF Kept, PassedOn, q
    <3> QED
      BY <1>2, <3>1, <3>2
  <2> QED
    BY <2>1, <2>2 DEF Usable, Flowing, Transfers
<1>11. CASE WriteChunk(t, s)
  <2>1. kpc[t][s] = "Write" /\ s = p /\ UNCHANGED <<sock, unread>>
    BY <1>2, <1>11 DEF WriteChunk, Kept, q
  <2>2. got'[t] = got[t] + 1 /\ kpc'[t][p] = "Check" /\ kpc'[t][q] = kpc[t][q]
    BY <1>1, <1>2, <1>6, <1>11, <2>1 DEF WriteChunk, DataTypes, ThreadTypes
  <2>3. PassedOn(t)'
    BY <1>3, <1>4, <1>5, <2>1, <2>2 DEF Kept, PassedOn, p, q
  <2> QED
    BY <1>3, <1>4, <1>6, <2>1, <2>2, <2>3 DEF Kept, p, q
<1>12. CASE WriteFails(t, s)
  <2>1. kpc[t][s] = "Write" /\ s = p
    BY <1>2, <1>12 DEF WriteFails, Kept, q
  <2>2. sock[t][q] = "open" /\ ~expired[t][q] /\ peer[t][q] # "eof"
    BY <1>2, <1>6, <2>1 DEF Kept, PassedOn, Flowing, p, q
  <2> QED
    BY <1>2, <1>6, <1>12, <2>1, <2>2 DEF WriteFails
<1> QED
  BY <1>7, <1>8, <1>9, <1>10, <1>11, <1>12 DEF Copy

LEMMA StillOpenKept ==
    ASSUME IInv, ConnInv, StillOpen, Next
    PROVE  StillOpen'
<1> SUFFICES ASSUME cpc' = "CheckStarted", rpc' = "Run" PROVE ~closed'[current']
  BY DEF StillOpen
<1>1. HandlerTypes /\ SessionTypes /\ Places
  BY DEF IInv, TypeOK
<1>2. CASE CStep
  BY <1>2 DEF CStep, HandleDATA, NewDataHandler, DestroyPrevious, InstallHandler, SendData,
     HandleTransfer, CheckStarted, SendTransfer, EndCommands, handlerVars
<1>3. CASE EndSession \/ DestroyDataHandler \/ TakeReply \/ Peers
  BY <1>3 DEF EndSession, DestroyDataHandler, TakeReply, Peers, PeerSends, PeerCloses,
     OriginRefuses, OriginMarks, OriginFinishes, sessionVars, handlerVars, StillOpen
<1>4. CASE \E t \in Transfers :
              Transfer(t) \/ \E s \in Sides : Connect(t, s) \/ Copy(t, s) \/ Expire(t, s)
  <2>1. PICK t \in Transfers, s \in Sides :
               Transfer(t) \/ Connect(t, s) \/ Copy(t, s) \/ Expire(t, s)
    BY <1>4 DEF Sides
  <2>2. /\ UNCHANGED <<cpc, current, rpc>>
        /\ \A h \in Handlers : h # owner[t] => closed'[h] = closed[h]
    BY <2>1, ThreadFrame DEF sessionVars
  <2>3. cpc = "CheckStarted" /\ rpc = "Run" /\ ~closed[current]
    BY <2>2 DEF StillOpen
  <2>4. current \in Handlers /\ owner[t] # current
    BY <1>1, <2>3 DEF SessionTypes, Places, Handlers, ConnInv, Unshared
  <2> QED
    BY <2>2, <2>3, <2>4
<1> QED
  BY <1>2, <1>3, <1>4 DEF Next

LEMMA UnusedKept ==
    ASSUME IInv, ConnInv, Asked, Reached, Unused, Next
    PROVE  Unused'
<1> SUFFICES ASSUME NEW t \in Transfers, owner'[t] = None
             PROVE  sent'[t] = 0 /\ unread'[t] = 0 /\ got'[t] = 0
  BY DEF Unused
<1>1. ThreadTypes /\ DataTypes
  BY DEF IInv, TypeOK
<1>2. owner[t] = None
  BY GivenUp
<1>3. /\ sent[t] = 0 /\ unread[t] = 0 /\ got[t] = 0
      /\ \A r \in Sides : kpc[t][r] = "None" /\ peer[t][r] = "none"
  BY <1>2 DEF Unused, IInv, CopyInv, Owned, Reached, Unconnected
<1>4. CASE CStep \/ EndSession \/ DestroyDataHandler \/ TakeReply
  BY <1>3, <1>4 DEF CStep, HandleDATA, NewDataHandler, DestroyPrevious, InstallHandler, SendData,
     HandleTransfer, CheckStarted, SendTransfer, EndCommands, EndSession, DestroyDataHandler,
     TakeReply, callerFrame, dataVars
<1>5. CASE Peers
  <2>1. ASSUME NEW u \in Transfers, PeerSends(u)
        PROVE  sent'[t] = 0 /\ unread'[t] = 0 /\ got'[t] = 0
    <3>1. u # t
      BY <1>1, <1>3, <2>1, SinkSide DEF PeerSends
    <3> QED
      BY <1>1, <1>3, <2>1, <3>1 DEF PeerSends, DataTypes
  <2> QED
    BY <1>3, <1>5, <2>1 DEF Peers, PeerCloses, OriginRefuses, OriginMarks, OriginFinishes, dataVars
<1>6. ASSUME NEW u \in Transfers, NEW s \in Sides,
             Transfer(u) \/ Connect(u, s) \/ Copy(u, s) \/ Expire(u, s)
      PROVE  sent'[t] = 0 /\ unread'[t] = 0 /\ got'[t] = 0
  <2>1. CASE Copy(u, s)
    <3>1. u # t
      BY <1>2, <2>1, ThreadFrame
    <3>2. Other(s) \in Sides
      BY DEF Other, Sides
    <3>3. kpc[u][s] \in {"Read", "Write"} => kconn[u][s][s] = u /\ kconn[u][s][Other(s)] = u
      BY <3>2, CopierOwn DEF ConnInv
    <3> QED
      BY <1>1, <1>3, <2>1, <3>1, <3>3 DEF Copy, BeginCopy, CheckClosed, ReadChunk, ReadEOF,
         ReadFails, WriteChunk, WriteFails, DataTypes, dataVars
  <2>2. CASE Transfer(u) \/ Connect(u, s) \/ Expire(u, s)
    BY <1>3, <2>2 DEF Transfer, JoinConnect, JoinRun, EndTransfer, Connect,
       BeginConnect, Connected, ConnectFails, StoreConn, CheckTLS, Handshake,
       StoreTLSConn, CloseAfterErr, Expire, dataVars
  <2> QED
    BY <1>6, <2>1, <2>2
<1>7. \E s \in Sides : TRUE
  BY DEF Sides
<1> QED
  BY <1>4, <1>5, <1>6, <1>7 DEF Next

LEMMA NextFlow ==
    ASSUME Patient, IInv, ConnInv, Asked, TurnInv, FlowInv, [Next]_vars
    PROVE  FlowInv'
<1>1. CASE Next
  <2>1. CASE \E u \in Transfers :
                Transfer(u) \/ \E s \in Sides : Connect(u, s) \/ Copy(u, s) \/ Expire(u, s)
    <3>1. PICK u \in Transfers, s \in Sides :
                 Transfer(u) \/ Connect(u, s) \/ Copy(u, s) \/ Expire(u, s)
      BY <2>1 DEF Sides
    <3> SUFFICES ASSUME NEW t \in Transfers, Flowing(t)' PROVE Kept(t)'
      BY <1>1, StillOpenKept, UnusedKept DEF FlowInv, Flows, TurnInv
    <3>2. owner'[t] = owner[t]
      BY <3>1, ThreadFrame
    <3>3. owner[t] # None /\ Flowing(t) /\ Kept(t)
      BY <1>1, <3>2, GivenUp DEF TurnInv, FlowInv, Flows, Flowing
    <3>4. CASE u = t
      BY <3>1, <3>3, <3>4, TransferFlows, ConnectFlows, CopyFlows
    <3>5. CASE u # t
      <4>1. \A r \in Sides : peer[t][r] = "eof" => peer'[t][r] = "eof"
        BY <1>1, PeerGone DEF TurnInv
      <4> QED
        BY <3>1, <3>3, <3>5, <4>1, OtherThread, KeptStays DEF IInv, TypeOK
    <3> QED
      BY <3>4, <3>5
  <2>2. CASE CStep \/ EndSession \/ DestroyDataHandler \/ TakeReply \/ Peers
    BY <1>1, <2>2, CommandFlows, ReplyFlows, StillOpenKept, UnusedKept DEF FlowInv, TurnInv
  <2> QED
    BY <1>1, <2>1, <2>2 DEF Next
<1>2. CASE UNCHANGED vars
  <2>1. ASSUME NEW t \in Transfers, Flowing(t)'
        PROVE  Kept(t)'
    <3>1. Flowing(t)
      BY <1>2, <2>1 DEF Flowing, Sink, Source, vars, sessionVars, threadVars, dataVars, replyVars
    <3> QED
      BY <1>2, <3>1 DEF FlowInv, Flows, Kept, PassedOn, Sink, Source, vars, handlerVars,
         threadVars, dataVars
  <2> QED
    BY <1>2, <2>1 DEF FlowInv, Flows, StillOpen, Unused, vars, sessionVars, handlerVars,
       threadVars, dataVars
<1> QED
  BY <1>1, <1>2

(* pftp ends the stream to a destination that is still there only when the *)
(* source has ended it, and not before every chunk has been passed on: no  *)
(* Close, of the next command, of a failed side or of the end of another   *)
(* transfer, cuts off a transfer that copies, for a client that waits for  *)
(* the end of a transfer, with or without TLS and in any schedule.         *)
THEOREM NothingCutOff ==
    ASSUME Patient
    PROVE  Spec => []NoTruncation
<1>1. IInv /\ FlowInv => NoTruncation
  <2> SUFFICES ASSUME IInv, FlowInv, NEW t \in Transfers,
                      rpc = "Run", tpc[t] \in {"Run", "Close", "Done"}, ~Refused(t),
                      \A r \in Sides : dpc[t][r] = "OK" /\ ~expired[t][r],
                      peer[t][Sink(t)] = "open", sock[t][Sink(t)] \in {"half", "closed"}
               PROVE  peer[t][Source(t)] = "eof" /\ got[t] = sent[t]
    BY DEF NoTruncation, Sink
  <2>1. owner[t] # None
    BY DEF IInv, CopyInv, Owned
  <2>2. Kept(t)
    BY <2>1 DEF FlowInv, Flows, Flowing
  <2> QED
    BY <2>2 DEF Kept, PassedOn
<1> DEFINE Inv == IInv /\ ConnInv /\ Asked /\ TurnInv /\ FlowInv
<1>2. Init => Inv
  BY InitInv, InitConn, InitBusy, InitTurn, InitFlow DEF BusyInv
<1>3. Inv /\ [Next]_vars => Inv'
  BY NextInv, NextConn, NextTurn, NextFlow
<1> QED
  BY <1>1, <1>2, <1>3, PTL DEF Spec

-----------------------------------------------------------------------------
(* What is left of a transfer.                                             *)

LEMMA EndStays ==
    ASSUME NEW t \in Transfers, InStep(t), InHand(t),
           UNCHANGED <<owner[t], tpc[t]>>, closed'[owner[t]] = closed[owner[t]],
           Refused(t) => Refused(t)',
           \A r \in Sides : /\ UNCHANGED <<sock[t][r], dpc[t][r]>>
                            /\ dataConn'[owner[t]][r] = dataConn[owner[t]][r]
    PROVE  InStep(t)' /\ InHand(t)'
<1>1. InStep(t)'
  BY DEF InStep, Sides
<1>2. InHand(t)'
  BY DEF InHand
<1> QED
  BY <1>1, <1>2

(* With its handler closed, a transfer that opens nothing has nothing open.*)
LEMMA OwnClose ==
    ASSUME IInv, Reached, NEW t \in Transfers, owner[t] # None, InStep(t), InHand(t),
           Close(owner[t])
    PROVE  /\ closed'[owner[t]]
           /\ \A s \in Sides :
                /\ sock[t][s] \in {"none", "closed"} => sock'[t][s] \in {"none", "closed"}
                /\ ~Refused(t) /\ (\A r \in Sides : dpc[t][r] \notin Opening)
                     => sock'[t][s] \in {"none", "closed"}
<1>1. HandlerTypes /\ ThreadTypes /\ owner[t] \in Handlers /\ owner[t] \in 0 .. MaxHandlers
  BY DEF IInv, TypeOK, ThreadTypes, Handlers
<1>2. CASE closed[owner[t]]
  <2>1. UNCHANGED <<closed, sock>>
    BY <1>1, <1>2 DEF Close
  <2> QED
    BY <1>2, <2>1 DEF InHand
<1>3. CASE ~closed[owner[t]]
  <2>1. /\ closed'[owner[t]]
        /\ \A r \in Sides :
             sock'[t][r] = IF dataConn[owner[t]][r] = t THEN "closed" ELSE sock[t][r]
    <3>1. ~UNCHANGED closed
      BY <1>1, <1>3 DEF Close, HandlerTypes
    <3> QED
      BY <1>1, <3>1, CloseEffect
  <2>2. ASSUME NEW s \in Sides, dpc[t][s] \notin Opening
        PROVE  sock'[t][s] \in {"none", "closed"}
    <3>1. dpc[t][s] \in {"None", "Close", "Err", "OK"}
      BY <1>1, <2>2 DEF ThreadTypes, InStep, Opening
    <3>2. dpc[t][s] = "None" => sock[t][s] = "none"
      BY DEF Reached, Unconnected
    <3> QED
      BY <1>3, <2>1, <3>1, <3>2 DEF InHand
  <2> QED
    BY <2>1, <2>2
<1> QED
  BY <1>2, <1>3

LEMMA CommandEnds ==
    ASSUME NothingLate, IInv, ConnInv, Asked, TurnInv, FlowInv, EndInv, CStep,
           NEW t \in Transfers, owner'[t] # None
    PROVE  InStep(t)' /\ InHand(t)'
<1>1. SessionTypes /\ HandlerTypes /\ ThreadTypes /\ Places
  BY DEF IInv, TypeOK
<1>2. CASE owner[t] = None
  <2>1. CheckStarted /\ owner'[t] # owner[t]
    BY <1>2 DEF CStep, HandleDATA, NewDataHandler, DestroyPrevious, InstallHandler, SendData,
       HandleTransfer, SendTransfer, EndCommands, callerFrame, threadVars
  <2>2. /\ owner'[t] = current /\ tpc'[t] = "Connect" /\ cpc = "CheckStarted"
        /\ dpc'[t] = [client |-> "Begin", origin |-> "Await"]
    BY <1>1, <2>1 DEF CheckStarted, ThreadTypes
  <2>3. UNCHANGED closed /\ rpc = "Run"
    BY <2>1 DEF CheckStarted, handlerVars, EndInv
  <2>4. ~closed'[owner'[t]]
    BY <2>2, <2>3 DEF FlowInv, StillOpen
  <2>5. dpc'[t]["client"] = "Begin" /\ dpc'[t]["origin"] = "Await"
        /\ \A s \in Sides : dpc'[t][s] \in {"Begin", "Await"}
    BY <2>2 DEF Sides
  <2> QED
    BY <2>2, <2>4, <2>5 DEF InStep, InHand
<1>3. CASE owner[t] # None
  <2>1. /\ owner'[t] = owner[t] /\ InStep(t) /\ InHand(t) /\ rpc = "Run"
        /\ Refused(t) => Refused(t)'
    BY <1>3, GivenUp, RefusedStays DEF TurnInv, EndInv, Next
  <2>2. CASE DestroyPrevious \/ SendData
    <3>1. /\ cpc \in {"Destroy", "SendData"} /\ UNCHANGED <<tpc, dpc, job>>
          /\ Close(current) \/ UNCHANGED <<closed, dataConn, sock>>
      BY <2>2 DEF DestroyPrevious, SendData, callerFrame, threadVars, replyVars
    <3>2. CASE Close(current) /\ owner[t] = current
      <4>1. DestroyPrevious
        BY <2>2, <3>2 DEF SendData, ConnInv, Unshared
      <4>2. \A s \in Sides : dpc[t][s] # "Store"
        BY <4>1 DEF DestroyPrevious, Settled, NothingLate
      <4>3. ~Refused(t) => peer[t]["client"] = "eof" /\ peer[t]["origin"] = "eof"
        BY <1>3, <2>1, <3>1 DEF TurnInv, Over, Answers
      <4>4. ~Refused(t) => \A s \in Sides : dpc[t][s] \notin Opening
        BY <4>2, <4>3 DEF TurnInv, Reached, Unconnected, Opening, Sides
      <4>5. InStep(t)'
        BY <2>1, <3>1 DEF InStep
      <4>6. closed'[owner[t]]
            /\ \A s \in Sides :
                 /\ sock[t][s] \in {"none", "closed"} => sock'[t][s] \in {"none", "closed"}
                 /\ ~Refused(t) => sock'[t][s] \in {"none", "closed"}
        BY <1>3, <2>1, <3>2, <4>4, OwnClose DEF TurnInv
      <4>7. InHand(t)'
        BY <2>1, <3>1, <4>4, <4>6 DEF InHand
      <4> QED
        BY <4>5, <4>7
    <3>3. CASE Close(current) /\ owner[t] # current
      <4>1. current \in 0 .. MaxHandlers
        BY <1>1 DEF SessionTypes
      <4>2. /\ closed'[owner[t]] = closed[owner[t]]
            /\ \A r \in Sides : /\ sock'[t][r] = sock[t][r]
                                /\ dataConn'[owner[t]][r] = dataConn[owner[t]][r]
        BY <1>3, <3>3, <4>1, OtherClose DEF ConnInv
      <4> QED
        BY <2>1, <3>1, <4>2, EndStays
    <3>4. CASE UNCHANGED <<closed, dataConn, sock>>
      BY <2>1, <3>1, <3>4, EndStays
    <3> QED
      BY <3>1, <3>2, <3>3, <3>4
  <2>3. CASE ~DestroyPrevious /\ ~SendData
    <3>1. UNCHANGED <<closed, dataConn, sock>>
      BY <2>3 DEF CStep, HandleDATA, NewDataHandler, InstallHandler, HandleTransfer, CheckStarted,
         SendTransfer, EndCommands, callerFrame, handlerVars
    <3>2. tpc'[t] = tpc[t] /\ dpc'[t] = dpc[t]
      <4>1. CASE CheckStarted
        <5>1. started' # t \/ UNCHANGED <<tpc, dpc>>
          BY <1>1, <1>3, <4>1 DEF CheckStarted, SessionTypes, Places, Transfers, IInv, CopyInv, Owned
        <5> QED
          BY <1>1, <4>1, <5>1 DEF CheckStarted, ThreadTypes
      <4>2. CASE ~CheckStarted
        BY <2>3, <4>2 DEF CStep, HandleDATA, NewDataHandler, InstallHandler, HandleTransfer,
           SendTransfer, EndCommands, callerFrame, threadVars
      <4> QED
        BY <4>1, <4>2
    <3> QED
      BY <2>1, <3>1, <3>2, EndStays
  <2> QED
    BY <2>2, <2>3
<1> QED
  BY <1>2, <1>3

LEMMA TransferEnded ==
    ASSUME IInv, Reached, NEW t \in Transfers, owner[t] # None, InStep(t), InHand(t), Transfer(t)
    PROVE  InStep(t)' /\ InHand(t)'
<1>1. HandlerTypes /\ ThreadTypes
  BY DEF IInv, TypeOK
<1>2. UNCHANGED <<owner, dpc, job>>
  BY DEF Transfer, JoinConnect, JoinRun, EndTransfer, replyVars
<1>3. CASE JoinConnect(t) \/ JoinRun(t)
  <2>1. UNCHANGED <<closed, dataConn, sock>> /\ tpc'[t] \in {"Run", "Close"}
    BY <1>1, <1>3 DEF JoinConnect, JoinRun, handlerVars, ThreadTypes
  <2>2. \A s \in Sides : dpc[t][s] \in {"OK", "Err"}
    BY <1>3 DEF JoinConnect, JoinRun, InStep
  <2> QED
    BY <1>2, <2>1, <2>2 DEF InStep, InHand
<1>4. CASE EndTransfer(t)
  <2>1. Close(owner[t]) /\ \A s \in Sides : dpc[t][s] \in {"OK", "Err"}
    BY <1>4 DEF EndTransfer, InStep
  <2>2. \A s \in Sides : dpc[t][s] \notin Opening
    BY <2>1 DEF Opening
  <2>3. closed'[owner[t]]
        /\ \A s \in Sides :
             /\ sock[t][s] \in {"none", "closed"} => sock'[t][s] \in {"none", "closed"}
             /\ ~Refused(t) => sock'[t][s] \in {"none", "closed"}
    BY <2>1, <2>2, OwnClose
  <2>4. InStep(t)'
    BY <1>2, <2>1 DEF InStep
  <2>5. InHand(t)'
    BY <1>2, <2>2, <2>3 DEF InHand
  <2> QED
    BY <2>4, <2>5
<1> QED
  BY <1>3, <1>4 DEF Transfer

LEMMA ConnectEnded ==
    ASSUME NothingLate, IInv, Reached, NEW t \in Transfers, NEW s \in Sides,
           owner[t] # None, InStep(t), InHand(t), Connect(t, s)
    PROVE  InStep(t)' /\ InHand(t)'
<1>1. HandlerTypes /\ ThreadTypes /\ owner[t] \in Handlers
  BY DEF IInv, TypeOK, ThreadTypes, Handlers
<1>2. UNCHANGED <<owner, tpc, job>>
  BY DEF Connect, BeginConnect, Connected, ConnectFails, StoreConn, CheckTLS, Handshake,
     StoreTLSConn, CloseAfterErr, connectFrame, replyVars
<1>3. /\ dpc[t][s] \in {"Begin", "Open", "Store", "Close"}
      /\ ~CheckTLS(t, s) /\ ~Handshake(t, s) /\ ~StoreTLSConn(t, s)
  BY DEF Connect, BeginConnect, Connected, ConnectFails, StoreConn, CheckTLS, Handshake,
     StoreTLSConn, CloseAfterErr, InStep
<1>4. tpc[t] \notin {"Run", "Close", "Done"}
  BY <1>3 DEF InStep
<1>5. dpc[t][s] # "Close" /\ ~Refused(t) => ~closed[owner[t]]
  BY <1>3 DEF InHand, Opening
<1>6. CASE s = "client"
  <2>1. CASE BeginConnect(t, s)
    <3>1. /\ dpc'[t]["client"] = IF closed[owner[t]] /\ needsListen[owner[t]]["client"]
                                 THEN "Close" ELSE "Open"
          /\ dpc'[t]["origin"] = "Await"
      BY <1>1, <1>6, <2>1 DEF BeginConnect, Goto, ThreadTypes, Reached, Sides
    <3>2. sock[t]["client"] = "none" /\ UNCHANGED <<closed, sock>> /\ dpc[t][s] # "Close"
      BY <1>6, <2>1 DEF BeginConnect, handlerVars, Reached, Unconnected
    <3> QED
      BY <1>2, <1>4, <1>5, <3>1, <3>2 DEF InStep, InHand, Sides
  <2>2. CASE Connected(t, s)
    <3>1. dpc'[t]["client"] = "Store" /\ dpc'[t]["origin"] = "Begin"
      <4>1. dpc'[t] = [client |-> "Store", origin |-> "Begin"]
        BY <1>1, <1>6, <2>2 DEF Connected, ThreadTypes
      <4> QED
        BY <4>1
    <3>2. UNCHANGED closed /\ dpc[t][s] # "Close"
      BY <2>2 DEF Connected, handlerVars
    <3> QED
      BY <1>2, <1>4, <1>5, <3>1, <3>2 DEF InStep, InHand, Sides
  <2>3. CASE ConnectFails(t, s)
    <3>1. dpc'[t]["client"] = "Close" /\ dpc'[t]["origin"] = "OK"
      <4>1. dpc'[t] = [client |-> "Close", origin |-> "OK"]
        BY <1>1, <1>6, <2>3 DEF ConnectFails, ThreadTypes
      <4> QED
        BY <4>1
    <3>2. /\ UNCHANGED <<closed, sock>> /\ dpc[t][s] # "Close"
          /\ sock[t]["client"] = "none" /\ sock[t]["origin"] = "none"
      BY <1>6, <2>3 DEF ConnectFails, handlerVars, Reached, Unconnected, Sides
    <3> QED
      BY <1>2, <1>4, <1>5, <3>1, <3>2 DEF InStep, InHand, Sides
  <2>4. CASE StoreConn(t, s)
    <3>1. /\ dpc'[t]["client"] = "OK" /\ dpc'[t]["origin"] = dpc[t]["origin"]
          /\ dataConn'[owner[t]]["client"] = t
          /\ dataConn'[owner[t]]["origin"] = dataConn[owner[t]]["origin"]
      BY <1>1, <1>6, <2>4 DEF StoreConn, Goto, ThreadTypes, HandlerTypes, NothingLate, Sides
    <3>2. UNCHANGED <<closed, sock>> /\ dpc[t][s] # "Close"
      BY <2>4 DEF StoreConn
    <3> QED
      BY <1>2, <1>4, <1>5, <3>1, <3>2 DEF InStep, InHand, Sides
  <2>5. CASE CloseAfterErr(t, s)
    <3>1. /\ dpc'[t]["client"] = "Err" /\ dpc'[t]["origin"] = dpc[t]["origin"]
          /\ dpc[t]["client"] = "Close"
      BY <1>1, <1>6, <2>5 DEF CloseAfterErr, Goto, ThreadTypes, Sides
    <3>2. ~Refused(t) => \A r \in Sides : dpc[t][r] \notin Opening
      BY <3>1 DEF InStep, Opening, Sides
    <3>3. closed'[owner[t]]
          /\ \A r \in Sides :
               /\ sock[t][r] \in {"none", "closed"} => sock'[t][r] \in {"none", "closed"}
               /\ ~Refused(t) => sock'[t][r] \in {"none", "closed"}
      BY <2>5, <3>2, OwnClose DEF CloseAfterErr
    <3>4. ~Refused(t) => \A r \in Sides : dpc'[t][r] \notin Opening
      BY <3>1, <3>2 DEF Opening, Sides
    <3>5. InStep(t)'
      BY <1>2, <1>4, <3>1 DEF InStep, Sides
    <3>6. InHand(t)'
      BY <1>2, <3>1, <3>3, <3>4 DEF InHand, Sides
    <3> QED
      BY <3>5, <3>6
  <2> QED
    BY <1>3, <2>1, <2>2, <2>3, <2>4, <2>5 DEF Connect
<1>7. CASE s = "origin"
  <2>1. /\ dpc[t]["client"] \in {"Store", "OK", "Close", "Err"}
        /\ dpc[t]["client"] \in {"Close", "Err"} => Refused(t)
    BY <1>3, <1>7 DEF InStep
  <2>2. dpc'[t]["client"] = dpc[t]["client"]
    BY <1>1, <1>7, <1>3 DEF Connect, BeginConnect, Connected, ConnectFails, StoreConn,
       CloseAfterErr, Goto, ThreadTypes, Sides
  <2>3. CASE BeginConnect(t, s) \/ ConnectFails(t, s)
    <3>1. /\ dpc'[t]["origin"] \in {"Open", "Close"} /\ UNCHANGED <<closed, dataConn, sock>>
          /\ dpc[t][s] # "Close" /\ sock[t]["origin"] = "none"
      BY <1>1, <1>7, <2>3 DEF BeginConnect, ConnectFails, Goto, handlerVars, ThreadTypes, Sides,
         Reached, Unconnected
    <3>2. InStep(t)'
      BY <1>2, <1>4, <2>1, <2>2, <3>1 DEF InStep, Sides
    <3>3. InHand(t)'
      BY <1>2, <1>4, <1>5, <2>1, <2>2, <3>1 DEF InHand, Sides
    <3> QED
      BY <3>2, <3>3
  <2>4. CASE Connected(t, s)
    <3>1. /\ dpc'[t]["origin"] = "Store" /\ UNCHANGED <<closed, dataConn>>
          /\ dpc[t][s] # "Close" /\ sock'[t]["client"] = sock[t]["client"]
      BY <1>1, <1>7, <2>4 DEF Connected, handlerVars, ThreadTypes, HandlerTypes, Sides
    <3>2. InStep(t)'
      BY <1>2, <1>4, <2>1, <2>2, <3>1 DEF InStep, Sides
    <3>3. InHand(t)'
      BY <1>2, <1>4, <1>5, <2>1, <2>2, <3>1 DEF InHand, Sides
    <3> QED
      BY <3>2, <3>3
  <2>5. CASE StoreConn(t, s)
    <3>1. /\ dpc'[t]["origin"] = "OK" /\ dataConn'[owner[t]]["origin"] = t
          /\ dataConn'[owner[t]]["client"] = dataConn[owner[t]]["client"]
          /\ UNCHANGED <<closed, sock>> /\ dpc[t][s] # "Close"
      BY <1>1, <1>7, <2>5 DEF StoreConn, Goto, ThreadTypes, HandlerTypes, NothingLate, Sides
    <3>2. InStep(t)'
      BY <1>2, <1>4, <2>1, <2>2, <3>1 DEF InStep, Sides
    <3>3. InHand(t)'
      BY <1>2, <1>4, <1>5, <2>1, <2>2, <3>1 DEF InHand, Sides
    <3> QED
      BY <3>2, <3>3
  <2>6. CASE CloseAfterErr(t, s)
    <3>1. dpc'[t]["origin"] = "Err" /\ dpc[t]["origin"] = "Close"
      BY <1>1, <1>7, <2>6 DEF CloseAfterErr, Goto, ThreadTypes, Sides
    <3>2. dpc[t]["client"] # "Store"
      BY <2>6 DEF CloseAfterErr, Settled, NothingLate, Sides
    <3>3. \A r \in Sides : dpc[t][r] \notin Opening /\ dpc'[t][r] \notin Opening
      BY <2>1, <2>2, <3>1, <3>2 DEF Opening, Sides
    <3>4. closed'[owner[t]]
          /\ \A r \in Sides :
               /\ sock[t][r] \in {"none", "closed"} => sock'[t][r] \in {"none", "closed"}
               /\ ~Refused(t) => sock'[t][r] \in {"none", "closed"}
      BY <2>6, <3>3, OwnClose DEF CloseAfterErr
    <3>5. InStep(t)'
      BY <1>2, <1>4, <2>1, <2>2, <3>1 DEF InStep, Sides
    <3>6. InHand(t)'
      BY <1>2, <2>2, <3>1, <3>3, <3>4 DEF InHand, Sides
    <3> QED
      BY <3>5, <3>6
  <2> QED
    BY <1>3, <2>3, <2>4, <2>5, <2>6 DEF Connect
<1> QED
  BY <1>6, <1>7 DEF Sides

LEMMA CopyEnded ==
    ASSUME IInv, ConnInv, NEW t \in Transfers, NEW s \in Sides,
           owner[t] # None, InStep(t), InHand(t), Copy(t, s) \/ Expire(t, s)
    PROVE  InStep(t)' /\ InHand(t)'
<1>1. HandlerTypes
  BY DEF IInv, TypeOK
<1>2. UNCHANGED <<owner, tpc, dpc, closed, dataConn, job>>
  BY DEF Copy, BeginCopy, CheckClosed, ReadChunk, ReadEOF, ReadFails, WriteChunk, WriteFails,
     Expire, copyFrame, handlerVars, threadVars, replyVars
<1>3. Other(s) \in Sides
  BY DEF Other, Sides
<1>4. \A r \in Sides : \/ sock'[t][r] = sock[t][r]
                       \/ kpc[t][s] \in {"Read", "Write"} /\ sock'[t][r] = "closed"
                       \/ sock[t][r] = "open"
  <2>1. kpc[t][s] \in {"Read", "Write"} => kconn[t][s][Other(s)] = t
    BY <1>3, CopierOwn DEF ConnInv
  <2>2. CASE ReadEOF(t, s)
    <3>1. sock' = [sock EXCEPT ![t][Other(s)] = IF @ = "open" THEN "half" ELSE @]
      BY <2>1, <2>2 DEF ReadEOF
    <3> QED
      BY <1>1, <1>3, <3>1 DEF HandlerTypes
  <2>3. CASE WriteFails(t, s)
    <3>1. kpc[t][s] = "Write" /\ sock' = [sock EXCEPT ![t][Other(s)] = "closed"]
      BY <2>1, <2>3 DEF WriteFails
    <3> QED
      BY <1>1, <1>3, <3>1 DEF HandlerTypes
  <2>4. CASE ~ReadEOF(t, s) /\ ~WriteFails(t, s)
    <3>1. UNCHANGED sock
      BY <2>4 DEF Copy, BeginCopy, CheckClosed, ReadChunk, ReadFails, WriteChunk, Expire
    <3> QED
      BY <3>1
  <2> QED
    BY <2>2, <2>3, <2>4
<1>5. kpc[t][s] \in {"Read", "Write"} /\ ~closed[owner[t]] =>
        \A r \in Sides : dataConn[owner[t]][r] = t
  BY CopierStored DEF ConnInv
<1>6. InStep(t)'
  BY <1>2 DEF InStep
<1>7. InHand(t)'
  BY <1>2, <1>4, <1>5 DEF InHand
<1> QED
  BY <1>6, <1>7

LEMMA NextEnd ==
    ASSUME NothingLate, IInv, ConnInv, Asked, TurnInv, FlowInv, EndInv, [Next]_vars
    PROVE  EndInv'
<1>1. CASE CStep
  <2>1. UNCHANGED rpc
    BY <1>1 DEF CStep, HandleDATA, NewDataHandler, DestroyPrevious, InstallHandler, SendData,
       HandleTransfer, CheckStarted, SendTransfer, EndCommands, callerFrame
  <2> QED
    BY <1>1, <2>1, CommandEnds DEF EndInv
<1>2. CASE EndSession \/ DestroyDataHandler \/ TakeReply \/ Peers
  <2>1. UNCHANGED <<rpc, closed, sock, dataConn>>
    BY <1>2 DEF EndSession, NothingLate, DestroyDataHandler, EndInv, TakeReply, Peers, PeerSends,
       PeerCloses, OriginRefuses, OriginMarks, OriginFinishes, sessionVars, handlerVars
  <2>2. UNCHANGED threadVars
    BY <1>2, ReplyFrame
  <2>3. ASSUME NEW t \in Transfers, owner'[t] # None
        PROVE  InStep(t)' /\ InHand(t)'
    <3>1. InStep(t) /\ InHand(t) /\ (Refused(t) => Refused(t)')
      BY <1>2, <2>2, <2>3, RefusedStays DEF EndInv, threadVars, Next
    <3> QED
      BY <2>1, <2>2, <3>1, EndStays DEF threadVars
  <2> QED
    BY <2>1, <2>3 DEF EndInv
<1>3. CASE \E u \in Transfers :
              Transfer(u) \/ \E s \in Sides : Connect(u, s) \/ Copy(u, s) \/ Expire(u, s)
  <2>1. PICK u \in Transfers, s \in Sides :
               Transfer(u) \/ Connect(u, s) \/ Copy(u, s) \/ Expire(u, s)
    BY <1>3 DEF Sides
  <2>2. UNCHANGED <<rpc, owner, job>>
    BY <2>1, ThreadFrame DEF sessionVars, replyVars
  <2>3. ASSUME NEW t \in Transfers, owner'[t] # None
        PROVE  InStep(t)' /\ InHand(t)'
    <3>1. InStep(t) /\ InHand(t) /\ owner[t] # None
      BY <2>2, <2>3 DEF EndInv
    <3>2. CASE u = t
      BY <2>1, <3>1, <3>2, TransferEnded, ConnectEnded, CopyEnded DEF TurnInv
    <3>3. CASE u # t
      BY <2>1, <2>2, <3>1, <3>3, OtherThread, EndStays
    <3> QED
      BY <3>2, <3>3
  <2> QED
    BY <2>2, <2>3 DEF EndInv
<1>4. CASE UNCHANGED vars
  BY <1>4 DEF EndInv, InStep, InHand, vars, sessionVars, handlerVars, threadVars, replyVars
<1> QED
  BY <1>1, <1>2, <1>3, <1>4 DEF Next

(* A transfer that the origin did not refuse leaves no socket open behind  *)
(* it, for a client that waits for the end of a transfer, as long as no    *)
(* connection is made or stored once its handler is being closed.          *)
THEOREM SocketsEnd ==
    ASSUME NothingLate
    PROVE  Spec => []SocketsClosed
<1> DEFINE Inv == IInv /\ ConnInv /\ Asked /\ TurnInv /\ FlowInv /\ EndInv
<1>1. Inv => SocketsClosed
  <2> SUFFICES ASSUME Inv, NEW t \in Transfers, tpc[t] = "Done", ~Refused(t)
               PROVE  \A s \in Sides : sock[t][s] \in {"none", "closed"}
    BY DEF SocketsClosed
  <2>1. owner[t] # None
    BY DEF IInv, CopyInv, Owned
  <2> QED
    BY <2>1 DEF EndInv, InHand
<1>2. Init => Inv
  <2>1. Init => EndInv
    BY DEF Init, EndInv
  <2> QED
    BY <2>1, InitInv, InitConn, InitBusy, InitTurn, InitFlow DEF BusyInv
<1>3. Inv /\ [Next]_vars => Inv'
  BY NextInv, NextConn, NextTurn, NextFlow, NextEnd DEF NothingLate
<1> QED
  BY <1>1, <1>2, <1>3, PTL DEF Spec

=============================================================================
