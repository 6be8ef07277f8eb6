------------------------- MODULE DataCommandsProofs -------------------------
(***************************************************************************)
(* For every configuration, every number of data commands and transfers,   *)
(* and every peer: only the installed handler and the one being built hold *)
(* ports.  The range of data ports is never eaten up by handlers that have *)
(* been replaced or given up.                                              *)
(***************************************************************************)
EXTENDS DataCommands, TLAPS

Building == {"ListenClient", "ListenOrigin", "Destroy", "Install"}

(* Every handler keeps its fields.                                         *)
Shaped ==
    /\ DOMAIN handlers = Handlers
    /\ \A h \in Handlers : DOMAIN handlers[h] = DOMAIN EmptyHandler

(* The installed handler is one of those built, and older than the one     *)
(* being built.                                                            *)
Numbered ==
    /\ built \in 0 .. MaxHandlers
    /\ dataConnector \in 0 .. built
    /\ cpc \in Building => dataConnector < built

(* Who holds ports: at SetDataHandler the previous handler no longer does. *)
Holding ==
    /\ \A h \in Handlers : handlers[h].open # {} =>
         \/ h = dataConnector
         \/ h = built /\ cpc \in Building \ {"ListenClient"}
    /\ cpc = "Install" /\ dataConnector \in Handlers
         => handlers[dataConnector].open = {}

IInv == Shaped /\ Numbered /\ Holding

LEMMA MaxNat == MaxHandlers \in Nat
BY DataCommandsAssumption

USE MaxNat DEF Handlers

LEMMA HoldsIffOpen ==
    ASSUME NEW h
    PROVE  HeldBy(h) # {} <=> handlers[h].open # {}
BY DEF HeldBy

LEMMA EmptyFields ==
    /\ "open" \in DOMAIN EmptyHandler /\ "mode" \in DOMAIN EmptyHandler
    /\ "clientListens" \in DOMAIN EmptyHandler
    /\ "originListens" \in DOMAIN EmptyHandler
    /\ "closed" \in DOMAIN EmptyHandler
    /\ "client" \in DOMAIN EmptyHandler /\ "origin" \in DOMAIN EmptyHandler
    /\ EmptyHandler.open = {}
BY DEF EmptyHandler

(* What a step may do without a thought for the invariant.                 *)
Shrinks ==
    /\ DOMAIN handlers' = Handlers
    /\ \A h \in Handlers : /\ DOMAIN handlers'[h] = DOMAIN EmptyHandler
                           /\ handlers'[h].open \subseteq handlers[h].open

LEMMA ShrinksSafely ==
    ASSUME IInv, Shrinks, UNCHANGED <<built, dataConnector>>,
           cpc' \notin Building /\ cpc \notin Building
    PROVE  IInv'
<1>1. Shaped'
  BY DEF Shrinks, Shaped
<1>2. Numbered'
  BY DEF IInv, Numbered
<1>3. Holding'
  BY DEF IInv, Holding, Shrinks, Building
<1> QED
  BY <1>1, <1>2, <1>3 DEF IInv

LEMMA ShrinksInPlace ==
    ASSUME IInv, Shrinks, UNCHANGED <<cpc, built, dataConnector>>
    PROVE  IInv'
<1>1. Shaped'
  BY DEF Shrinks, Shaped
<1>2. Numbered'
  BY DEF IInv, Numbered
<1>3. Holding'
  BY DEF IInv, Holding, Shrinks
<1> QED
  BY <1>1, <1>2, <1>3 DEF IInv

LEMMA SameShrinks ==
    ASSUME IInv, UNCHANGED handlers
    PROVE  Shrinks
BY DEF IInv, Shaped, Shrinks

LEMMA CloseShrinks ==
    ASSUME IInv, NEW d, CloseHandler(d)
    PROVE  Shrinks /\ (d \in Handlers => handlers'[d].open = {})
<1>1. handlers' = [handlers EXCEPT ![d] = Closed(@)]
  BY DEF CloseHandler
<1>2. \A h \in Handlers : h # d => handlers'[h] = handlers[h]
  BY <1>1 DEF IInv, Shaped
<1>3. DOMAIN handlers' = Handlers
  BY <1>1 DEF IInv, Shaped
<1>4. ASSUME d \in Handlers
      PROVE  /\ handlers'[d].open = {}
             /\ DOMAIN handlers'[d] = DOMAIN EmptyHandler
  <2>1. handlers'[d] = Closed(handlers[d])
    BY <1>1, <1>4 DEF IInv, Shaped
  <2>2. DOMAIN handlers[d] = DOMAIN EmptyHandler
    BY <1>4 DEF IInv, Shaped
  <2> QED
    BY <2>1, <2>2, EmptyFields DEF Closed
<1> QED
  BY <1>2, <1>3, <1>4 DEF Shrinks, IInv, Shaped

-----------------------------------------------------------------------------
LEMMA InitInv == Init => IInv
<1> SUFFICES ASSUME Init PROVE IInv
  OBVIOUS
<1>1. /\ handlers = [h \in Handlers |-> EmptyHandler]
      /\ built = 0 /\ dataConnector = 0 /\ cpc = "Read"
  BY DEF Init
<1> QED
  BY <1>1, EmptyFields DEF IInv, Shaped, Numbered, Holding, Building

LEMMA ReadKeeps == ASSUME IInv, Read PROVE IInv'
<1>1. PICK verb, fields, place : ReadDATA(verb, fields, place)
  BY DEF Read
<1>2. CASE inDataTransfer
  BY <1>1, <1>2, SameShrinks, ShrinksSafely DEF ReadDATA, Building
<1>3. CASE ~inDataTransfer
  <2>1. /\ cpc = "Read" /\ built < MaxHandlers
        /\ cpc' = "ListenClient" /\ built' = built + 1
        /\ dataConnector' = dataConnector
        /\ handlers' = [handlers EXCEPT ![built + 1].mode = verb]
    BY <1>1, <1>3 DEF ReadDATA
  <2>2. Shrinks
    BY <2>1, EmptyFields DEF IInv, Shaped, Numbered, Shrinks
  <2>3. Numbered'
    BY <2>1 DEF IInv, Numbered
  <2>4. Holding'
    BY <2>1, <2>2 DEF IInv, Holding, Numbered, Shrinks, Building
  <2> QED
    BY <2>2, <2>3, <2>4 DEF IInv, Shaped, Shrinks
<1> QED
  BY <1>2, <1>3

LEMMA ListenKeeps ==
    ASSUME IInv, NEW pc, NEW needed, NEW side, NEW next, Listen(pc, needed, side, next),
           pc \in {"ListenClient", "ListenOrigin"},
           next = IF pc = "ListenClient" THEN "ListenOrigin" ELSE "Destroy",
           side \in {"clientListens", "originListens"}
    PROVE  IInv'
<1> USE DEF Building
<1>1. cpc = pc /\ UNCHANGED <<built, dataConnector>>
  BY DEF Listen
<1>2. built \in Handlers /\ dataConnector < built
  BY <1>1 DEF IInv, Numbered
<1>3. CASE UNCHANGED handlers /\ cpc' = next
  <2>1. Numbered' /\ Shaped'
    BY <1>1, <1>2, <1>3 DEF IInv, Numbered, Shaped
  <2> QED
    BY <1>1, <1>3, <2>1 DEF IInv, Holding
<1>4. ASSUME NEW port, cpc' = next,
             handlers' = [handlers EXCEPT ![built][side] = port,
                                          ![built].open = @ \cup {side}]
      PROVE  IInv'
  <2>1. \A h \in Handlers : h # built => handlers'[h] = handlers[h]
    BY <1>4 DEF IInv, Shaped
  <2>2. Shaped'
    BY <1>2, <1>4 DEF IInv, Shaped
  <2>3. Numbered'
    BY <1>1, <1>2, <1>4 DEF IInv, Numbered
  <2>4. Holding'
    BY <1>1, <1>2, <1>4, <2>1 DEF IInv, Holding, Numbered
  <2> QED
    BY <2>2, <2>3, <2>4 DEF IInv
<1>5. CASE CloseHandler(built) /\ cpc' = "Read"
  <2>1. Shrinks /\ handlers'[built].open = {}
    BY <1>2, <1>5, CloseShrinks
  <2>2. Shaped' /\ Numbered'
    BY <1>1, <1>5, <2>1 DEF IInv, Shaped, Shrinks, Numbered
  <2>3. Holding'
    BY <1>1, <1>5, <2>1 DEF IInv, Holding, Shrinks
  <2> QED
    BY <2>2, <2>3 DEF IInv
<1> QED
  BY <1>3, <1>4, <1>5 DEF Listen, Answer

LEMMA DestroyKeeps == ASSUME IInv, DestroyDataHandler PROVE IInv'
<1>1. /\ cpc = "Destroy" /\ cpc' = "Install" /\ UNCHANGED <<built, dataConnector>>
  BY DEF DestroyDataHandler
<1>2. Shrinks /\ (dataConnector \in Handlers => handlers'[dataConnector].open = {})
  <2>1. CASE dataConnector = 0
    BY <2>1, SameShrinks DEF DestroyDataHandler
  <2>2. CASE dataConnector # 0
    BY <2>2, CloseShrinks DEF DestroyDataHandler
  <2> QED
    BY <2>1, <2>2
<1>3. Shaped' /\ Numbered'
  BY <1>1, <1>2 DEF IInv, Shaped, Shrinks, Numbered, Building
<1>4. Holding'
  BY <1>1, <1>2 DEF IInv, Holding, Shrinks, Building
<1> QED
  BY <1>3, <1>4 DEF IInv

LEMMA SetKeeps == ASSUME IInv, SetDataHandler PROVE IInv'
<1>1. /\ cpc = "Install" /\ cpc' \in {"Parse", "Send"}
      /\ dataConnector' = built /\ UNCHANGED <<built, handlers>>
  BY DEF SetDataHandler
<1>2. Shaped' /\ Numbered'
  BY <1>1 DEF IInv, Shaped, Numbered, Building
<1>3. Holding'
  BY <1>1 DEF IInv, Holding, Building
<1> QED
  BY <1>2, <1>3 DEF IInv

LEMMA ParseKeeps == ASSUME IInv, ParseClientAddr PROVE IInv'
<1>1. /\ cpc = "Parse" /\ cpc' \in {"Read", "Send"} /\ UNCHANGED <<built, dataConnector>>
  BY DEF ParseClientAddr, Answer
<1>2. \/ UNCHANGED handlers
      \/ CloseHandler(built)
      \/ \E client : handlers' = [handlers EXCEPT ![built].client = client]
  BY DEF ParseClientAddr
<1>3. Shrinks
  BY <1>2, SameShrinks, CloseShrinks, EmptyFields DEF IInv, Shaped, Shrinks
<1> QED
  BY <1>1, <1>3, ShrinksSafely DEF Building

LEMMA SendKeeps == ASSUME IInv, SendDATA PROVE IInv'
<1>1. cpc = "Send" /\ cpc' = "Read" /\ UNCHANGED <<built, dataConnector>>
  BY DEF SendDATA, Answer
<1>2. UNCHANGED handlers \/ CloseHandler(dataConnector)
  BY DEF SendDATA
<1>3. Shrinks
  BY <1>2, SameShrinks, CloseShrinks
<1> QED
  BY <1>1, <1>3, ShrinksSafely DEF Building

LEMMA ReplyKeeps == ASSUME IInv, TakeReply PROVE IInv'
<1>1. UNCHANGED <<cpc, built, dataConnector>>
  BY DEF TakeReply, cVars
<1>2. \/ UNCHANGED handlers
      \/ \E origin : handlers' = [handlers EXCEPT ![dataConnector].origin = origin]
  BY DEF TakeReply
<1>3. Shrinks
  BY <1>2, SameShrinks, EmptyFields DEF IInv, Shaped, Shrinks
<1> QED
  BY <1>1, <1>3, ShrinksInPlace

LEMMA TransferKeeps == ASSUME IInv, NEW d \in Handlers, TStep(d) PROVE IInv'
<1>1. UNCHANGED <<cpc, built, dataConnector>>
  BY DEF TStep, clientListenOrDial, originListenOrDial, Connect, EndTransfer, cVars
<1>2. \/ UNCHANGED handlers
      \/ CloseHandler(d)
      \/ \E side : handlers' = [handlers EXCEPT ![d].open = @ \ {side}]
  BY DEF TStep, clientListenOrDial, originListenOrDial, Connect, EndTransfer
<1>3. Shrinks
  BY <1>2, SameShrinks, CloseShrinks, EmptyFields DEF IInv, Shaped, Shrinks
<1> QED
  BY <1>1, <1>3, ShrinksInPlace

(* The other steps leave handlers alone and build nothing.                 *)
LEMMA OthersKeep ==
    ASSUME IInv,
           ReplyBusy \/ HandleTransfer \/ CheckAvailable \/ ReadMode
             \/ Rewrite \/ Deliver \/ OriginReply \/ UNCHANGED vars
    PROVE  IInv'
<1>1. UNCHANGED <<handlers, built, dataConnector>>
  BY DEF ReplyBusy, HandleTransfer, CheckAvailable, ReadMode, Rewrite,
         Deliver, OriginReply, proxyVars, vars
<1>2. CASE ReplyBusy
  <2>1. cpc = "Busy" /\ cpc' = "Read"
    BY <1>2 DEF ReplyBusy, Answer
  <2> QED
    BY <1>1, <2>1, SameShrinks, ShrinksSafely DEF Building
<1>3. CASE ~ReplyBusy
  <2>1. cpc' = cpc
    BY <1>3 DEF HandleTransfer, CheckAvailable, ReadMode, Rewrite, Deliver,
                OriginReply, cVars, vars
  <2> QED
    BY <1>1, <2>1, SameShrinks, ShrinksInPlace
<1> QED
  BY <1>2, <1>3

LEMMA NextInv == IInv /\ [Next]_vars => IInv'
<1> SUFFICES ASSUME IInv, [Next]_vars PROVE IInv'
  OBVIOUS
<1>1. CASE Read
  BY <1>1, ReadKeeps
<1>2. CASE ListenClient
  BY <1>2, ListenKeeps DEF ListenClient
<1>3. CASE ListenOrigin
  BY <1>3, ListenKeeps DEF ListenOrigin
<1>4. CASE DestroyDataHandler
  BY <1>4, DestroyKeeps
<1>5. CASE SetDataHandler
  BY <1>5, SetKeeps
<1>6. CASE ParseClientAddr
  BY <1>6, ParseKeeps
<1>7. CASE TakeReply
  BY <1>7, ReplyKeeps
<1>8. CASE \E h \in Handlers : TStep(h)
  BY <1>8, TransferKeeps
<1>9. CASE SendDATA
  BY <1>9, SendKeeps
<1>10. CASE ReplyBusy \/ HandleTransfer \/ CheckAvailable \/ ReadMode
             \/ Rewrite \/ Deliver \/ OriginReply \/ UNCHANGED vars
  BY <1>10, OthersKeep
<1> QED
  BY <1>1, <1>2, <1>3, <1>4, <1>5, <1>6, <1>7, <1>8, <1>9, <1>10
     DEF Next, CStep, WStep, Idle

(* Only the installed handler and the one being built hold ports, whatever *)
(* the client pipelines and however a command ends (SetDataHandler,        *)
(* newDataHandler's and handleDATA's early returns).                       *)
THEOREM PortsReleased == Spec => []OnlyCurrentListens
<1>1. IInv => OnlyCurrentListens
  BY HoldsIffOpen DEF IInv, Holding, Numbered, Building, OnlyCurrentListens
<1> QED
  BY InitInv, NextInv, <1>1, PTL DEF Spec

=============================================================================
