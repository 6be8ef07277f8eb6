-------------------------- MODULE DeadlinesProofs --------------------------
(***************************************************************************)
(* For every configuration of the three timeouts and any number of         *)
(* commands, transfers and chunks: who is timed, and that nobody is timed  *)
(* out too early.                                                          *)
(***************************************************************************)
EXTENDS Deadlines, TLAPS

Deadline == 0 .. Longest \cup {Never}
Dialing  == {"Client", "Origin", "Connected"}

Types ==
    /\ config \in Setups
    /\ cpc \in {"Loop", "Arm", "Disarm", "Read", "Over"} /\ warned \in BOOLEAN
    /\ wpc \in {"Read", "Arm", "Disarm", "Mark", "Over"}
    /\ tpc \in Dialing \cup {"None", "Run", "Close", "Done"}
    /\ kpc \in [Sides -> {"Read", "Write", "Ended"}] /\ source \in Sides
    /\ closed \in BOOLEAN /\ inDataTransfer \in BOOLEAN /\ awaiting \in BOOLEAN
    /\ ctl \in [Sides -> Deadline] /\ dat \in [Sides -> Deadline]
    /\ open \in [Sides -> BOOLEAN] /\ eof \in [Sides -> BOOLEAN]
    /\ unread \in Nat /\ quiet \in Nat /\ still \in Nat /\ misled \in BOOLEAN
    /\ cpc \in {"Arm", "Disarm"} => config.idle # 0

(* Only T's goroutines copy, and only while it waits for them.             *)
NoCopies == tpc # "Run" => kpc = PerSide("Ended")

(* The sockets of a transfer that is not there, or whose handler has been  *)
(* closed, are closed.                                                     *)
Sockets ==
    /\ closed => open = PerSide(FALSE)
    /\ tpc \in {"None", "Client", "Done"} => open = PerSide(FALSE)

(* The flag is not set between W's look at it and its deadline: only W     *)
(* sets it.                                                                *)
Looking == wpc = "Arm" => ~inDataTransfer

(* The deadline of the client.  What is left of it and what has gone by    *)
(* make up the timeout, while C reads.                                     *)
Timed ==
    /\ config.idle # 0 /\ ctl["client"] = Never /\ ~misled => tpc = "Run"
    /\ tpc = "Run" /\ ~warned /\ ~misled => ctl["client"] = Never
    /\ cpc = "Read" /\ ~warned /\ ctl["client"] # Never /\ ~misled
         => ctl["client"] + quiet >= config.idle

(* The deadline of the source, likewise, while its copier reads.           *)
Sourced ==
    /\ tpc \in Dialing => /\ unread = 0
                          /\ \A s \in Sides : open[s] => dat[s] = config.transfer
    /\ \A s \in Sides : open[s] => dat[s] # Never
    /\ kpc[source] = "Read" /\ open[source] =>
         IF unread > 0 THEN dat[source] # 0 \/ config.transfer = 0
         ELSE dat[source] + still >= config.transfer

IInv == /\ Types /\ NoCopies /\ Sockets /\ Looking /\ Timed /\ Sourced /\ OriginUntimed

-----------------------------------------------------------------------------
(* The steps, and what they leave alone.                                   *)

Copying == \E s \in Sides : ReadChunk(s) \/ ReadEnds(s) \/ WriteChunk(s) \/ WriteFails(s)

LEMMA NextSplits ==
    ASSUME [Next]_vars
    PROVE  \/ LookAtFlag \/ SetClientDeadLine \/ ReadTimesOut
           \/ SendCommand \/ StartTransfer
           \/ TakeLine \/ SetOriginDeadline \/ MarkTransfer \/ EndProxy
           \/ Connect \/ ConnectFails \/ ClearDeadlines \/ RearmDeadlines \/ EndTransfer
           \/ Copying \/ SourceSends \/ (\E s \in Sides : PeerEnds(s)) \/ OriginReplies
           \/ Tick \/ UNCHANGED vars
BY DEF Next, CStep, WStep, TStep, Copy, Peers, Copying

LEMMA ConfigFields ==
    ASSUME config \in Setups
    PROVE  /\ config.idle \in 0 .. Longest /\ config.proxy \in 0 .. Longest
           /\ config.transfer \in 0 .. Longest
           /\ Longest \in Nat /\ Never \notin 0 .. Longest /\ Never # 0
           /\ Minute \in 1 .. Longest
<1>1. config \in [{"idle", "proxy", "transfer"} -> 0 .. Longest]
  BY DeadlinesAssumption
<1>2. Longest \in Nat /\ Never \notin 0 .. Longest /\ Minute \in 1 .. Longest
  BY DeadlinesAssumption
<1>3. Never # 0
  BY <1>2
<1>4. \A f \in {"idle", "proxy", "transfer"} : config[f] \in 0 .. Longest
  BY <1>1
<1> QED
  BY <1>2, <1>3, <1>4

LEMMA TheSides == \A x : /\ PerSide(x)["client"] = x /\ PerSide(x)["origin"] = x
                         /\ \A s \in Sides : PerSide(x)[s] = x
BY DEF PerSide, Sides

(* The copying goroutines work on the data connections alone, and close    *)
(* some but open none.                                                     *)
LEMMA CopyingFrame ==
    ASSUME Types, NoCopies, Copying
    PROVE  /\ UNCHANGED <<config, cpc, warned, commands, wpc, buff, tpc, started, source,
                          closed, inDataTransfer, ctl, sent, eof, fromOrigin, awaiting, job,
                          quiet, still, mark, misled>>
           /\ tpc = "Run"
           /\ open' \in [Sides -> BOOLEAN] /\ \A s \in Sides : open'[s] => open[s]
<1>1. PICK s \in Sides : ReadChunk(s) \/ ReadEnds(s) \/ WriteChunk(s) \/ WriteFails(s)
  BY DEF Copying
<1>2. UNCHANGED copyFrame
  BY <1>1 DEF ReadChunk, ReadEnds, WriteChunk, WriteFails
<1>3. kpc[s] # "Ended"
  BY <1>1 DEF ReadChunk, ReadEnds, WriteChunk, WriteFails
<1>4. tpc = "Run"
  BY <1>3, TheSides DEF NoCopies
<1>5. open' = open \/ open' = [open EXCEPT ![Other(s)] = FALSE]
  BY <1>1 DEF ReadChunk, ReadEnds, WriteChunk, WriteFails
<1>6. open' \in [Sides -> BOOLEAN] /\ \A r \in Sides : open'[r] => open[r]
  BY <1>5 DEF Types
<1> QED
  BY <1>2, <1>4, <1>6 DEF copyFrame, cVars, wVars, originVars, history

(* What the peers and time leave alone.                                    *)
LEMMA PeersFrame ==
    ASSUME SourceSends \/ (\E s \in Sides : PeerEnds(s)) \/ OriginReplies
    PROVE  UNCHANGED <<config, cpc, warned, commands, wpc, buff, tpc, kpc, started, source,
                       closed, inDataTransfer, ctl, dat, open, quiet, mark, misled,
                       awaiting>>
BY DEF SourceSends, PeerEnds, OriginReplies, Reply, peerFrame, cVars, wVars, tVars, originVars

LEMMA TickFrame ==
    ASSUME Tick
    PROVE  UNCHANGED <<config, cpc, warned, commands, wpc, buff, tpc, kpc, started, source,
                       closed, inDataTransfer, open, unread, sent, eof, fromOrigin, awaiting,
                       job, mark, misled>>
BY DEF Tick, cVars, wVars, tVars, originVars

LEMMA LaterIs ==
    ASSUME config \in Setups, NEW d \in Deadline
    PROVE  /\ Later(d) \in Deadline
           /\ Later(d) = Never <=> d = Never
           /\ d # Never /\ d # 0 => Later(d) = d - 1 /\ d \in Nat
BY ConfigFields DEF Later, Deadline

LEMMA LongerIs ==
    ASSUME config \in Setups, NEW n \in Nat
    PROVE  /\ Longer(n) \in Nat /\ Longer(n) >= n
           /\ Longer(n) = n + 1 \/ Longer(n) >= Longest
BY ConfigFields DEF Longer

-----------------------------------------------------------------------------
LEMMA TypesKept == ASSUME IInv, [Next]_vars PROVE Types'
<1> USE DEF Types
<1>a. Types /\ NoCopies /\ config \in Setups
  BY DEF IInv
<1>b. /\ config.idle \in Deadline /\ config.proxy \in Deadline
      /\ config.transfer \in Deadline /\ Minute \in Deadline /\ Never \in Deadline
  BY <1>a, ConfigFields DEF Deadline
<1>c. "client" \in Sides /\ "origin" \in Sides
  BY DEF Sides
<1>1. CASE LookAtFlag
  BY <1>1, <1>a DEF LookAtFlag, wVars, tVars, dataVars, originVars, history
<1>2. CASE SetClientDeadLine
  BY <1>2, <1>a, <1>b, <1>c DEF SetClientDeadLine, wVars, tVars, dataVars, originVars, history
<1>3. CASE ReadTimesOut
  BY <1>3, <1>a, <1>b, <1>c DEF ReadTimesOut, wVars, tVars, dataVars, originVars, history
<1>4. CASE SendCommand
  BY <1>4, <1>a DEF SendCommand, wVars, tVars, dataVars
<1>5. CASE StartTransfer
  BY <1>5, <1>a DEF StartTransfer, wVars, PerSide, Dialing
<1>6. CASE TakeLine
  BY <1>6, <1>a DEF TakeLine, cVars, tVars, dataVars, history
<1>7. CASE SetOriginDeadline
  BY <1>7, <1>a, <1>b, <1>c DEF SetOriginDeadline, cVars, tVars, dataVars, originVars, history
<1>8. CASE MarkTransfer
  BY <1>8, <1>a DEF MarkTransfer, cVars, tVars, dataVars
<1>9. CASE EndProxy
  BY <1>9, <1>a, <1>b DEF EndProxy, Close, cVars, tVars, PerSide, history
<1>10. CASE Connect
  BY <1>10, <1>a, <1>b, <1>c DEF Connect, tFrame, cVars, wVars, originVars, Dialing
<1>11. CASE ConnectFails
  BY <1>11, <1>a DEF ConnectFails, tFrame, cVars, wVars, originVars, dataVars
<1>12. CASE ClearDeadlines
  BY <1>12, <1>a, <1>b DEF ClearDeadlines, tFrame, cVars, wVars, originVars, dataVars, PerSide
<1>13. CASE RearmDeadlines
  <2>1. ctl' \in [Sides -> Deadline]
    BY <1>13, <1>b DEF RearmDeadlines, Sides
  <2> QED
    BY <1>13, <1>a, <2>1 DEF RearmDeadlines, tFrame, cVars, wVars, originVars, dataVars
<1>14. CASE EndTransfer
  BY <1>14, <1>a, <1>b DEF EndTransfer, Close, tFrame, cVars, wVars, originVars, PerSide
<1>15. CASE Copying
  <2>1. PICK s \in Sides : ReadChunk(s) \/ ReadEnds(s) \/ WriteChunk(s) \/ WriteFails(s)
    BY <1>15 DEF Copying
  <2>2. kpc' \in [Sides -> {"Read", "Write", "Ended"}] /\ dat' \in [Sides -> Deadline]
    BY <1>a, <1>b, <2>1 DEF ReadChunk, ReadEnds, WriteChunk, WriteFails
  <2>3. unread' \in Nat
    BY <1>a, <2>1 DEF ReadChunk, ReadEnds, WriteChunk, WriteFails
  <2> QED
    BY <1>15, <1>a, <2>2, <2>3, CopyingFrame
<1>16. CASE SourceSends
  BY <1>16, <1>a, PeersFrame DEF SourceSends, originVars
<1>17. CASE \E s \in Sides : PeerEnds(s)
  BY <1>17, <1>a, PeersFrame DEF PeerEnds, originVars
<1>18. CASE OriginReplies
  BY <1>18, <1>a, PeersFrame DEF OriginReplies, Reply
<1>19. CASE Tick
  <2>1. ctl' \in [Sides -> Deadline] /\ dat' \in [Sides -> Deadline]
    BY <1>19, <1>a, LaterIs DEF Tick
  <2>2. quiet' \in Nat /\ still' \in Nat
    BY <1>19, <1>a, LongerIs DEF Tick
  <2> QED
    BY <1>19, <1>a, <2>1, <2>2, TickFrame
<1>20. CASE UNCHANGED vars
  BY <1>20, <1>a DEF vars, cVars, wVars, tVars, dataVars, originVars, history
<1> QED
  BY <1>1, <1>2, <1>3, <1>4, <1>5, <1>6, <1>7, <1>8, <1>9, <1>10, <1>11, <1>12, <1>13,
     <1>14, <1>15, <1>16, <1>17, <1>18, <1>19, <1>20, NextSplits

(* Every step but those of W, the client and the origin.                   *)
LEMMA OtherSteps ==
    ASSUME \/ LookAtFlag \/ SetClientDeadLine \/ ReadTimesOut
           \/ Connect \/ ConnectFails \/ ClearDeadlines \/ RearmDeadlines \/ EndTransfer
           \/ Copying \/ SourceSends \/ (\E s \in Sides : PeerEnds(s))
           \/ Tick \/ UNCHANGED vars,
           Types, NoCopies
    PROVE  /\ UNCHANGED <<config, wpc, buff, fromOrigin, awaiting, job, mark, source>>
           /\ inDataTransfer' => inDataTransfer
<1>1. CASE LookAtFlag \/ SetClientDeadLine \/ ReadTimesOut
  BY <1>1 DEF LookAtFlag, SetClientDeadLine, ReadTimesOut, wVars, originVars, history, tVars
<1>2. CASE Connect \/ ConnectFails \/ ClearDeadlines \/ RearmDeadlines
  BY <1>2 DEF Connect, ConnectFails, ClearDeadlines, RearmDeadlines, tFrame, wVars, originVars
<1>3. CASE EndTransfer
  BY <1>3 DEF EndTransfer, Close, tFrame, wVars, originVars, Types
<1>4. CASE Copying
  BY <1>4, CopyingFrame
<1>5. CASE SourceSends \/ (\E s \in Sides : PeerEnds(s))
  BY <1>5 DEF SourceSends, PeerEnds, peerFrame, wVars, tVars, originVars
<1>6. CASE Tick
  BY <1>6, TickFrame
<1>7. CASE UNCHANGED vars
  BY <1>7 DEF vars, wVars, tVars, originVars, history
<1> QED
  BY <1>1, <1>2, <1>3, <1>4, <1>5, <1>6, <1>7

-----------------------------------------------------------------------------
(* A transfer and its sockets, and what W looks at.                        *)

LEMMA NoCopiesKept == ASSUME IInv, [Next]_vars PROVE NoCopies'
<1>a. Types /\ NoCopies
  BY DEF IInv
<1>1. CASE UNCHANGED kpc /\ (tpc = "Run" => tpc' = "Run")
  BY <1>1, <1>a DEF NoCopies, PerSide
<1>2. CASE tpc' = "Run"
  BY <1>2 DEF NoCopies
<1>3. CASE StartTransfer \/ Connect \/ ConnectFails \/ RearmDeadlines \/ EndTransfer
  <2>1. kpc = PerSide("Ended") /\ kpc' = kpc
    BY <1>3, <1>a DEF StartTransfer, Connect, ConnectFails, RearmDeadlines, EndTransfer, NoCopies
  <2> QED
    BY <2>1 DEF NoCopies, PerSide
<1>4. CASE ClearDeadlines
  BY <1>2, <1>4 DEF ClearDeadlines
<1>5. CASE Copying
  BY <1>2, <1>5, <1>a, CopyingFrame
<1>6. CASE \/ SourceSends \/ (\E s \in Sides : PeerEnds(s)) \/ OriginReplies \/ Tick
  BY <1>1, <1>6, TickFrame, PeersFrame
<1>7. CASE \/ LookAtFlag \/ SetClientDeadLine \/ ReadTimesOut \/ SendCommand
           \/ TakeLine \/ SetOriginDeadline \/ MarkTransfer \/ EndProxy \/ UNCHANGED vars
  BY <1>1, <1>7
  DEF LookAtFlag, SetClientDeadLine, ReadTimesOut, SendCommand, TakeLine, SetOriginDeadline,
      MarkTransfer, EndProxy, vars, tVars
<1> QED
  BY <1>3, <1>4, <1>5, <1>6, <1>7, NextSplits

LEMMA SocketsKept == ASSUME IInv, [Next]_vars PROVE Sockets'
<1>a. Types /\ NoCopies /\ Sockets
  BY DEF IInv
<1>b. ASSUME open = PerSide(FALSE), open' \in [Sides -> BOOLEAN],
             \A s \in Sides : open'[s] => open[s]
      PROVE  open' = PerSide(FALSE)
  BY <1>b DEF PerSide
<1>1. CASE UNCHANGED <<closed, open, tpc>> /\ (wpc' = "Over" <=> wpc = "Over")
  BY <1>1, <1>a DEF Sockets, PerSide
<1>2. CASE StartTransfer
  BY <1>2, <1>a DEF StartTransfer, wVars, Sockets, PerSide
<1>3. CASE EndProxy \/ EndTransfer
  BY <1>3, <1>a DEF EndProxy, EndTransfer, Close, tVars, tFrame, wVars, Sockets, PerSide
<1>4. CASE Connect
  <2>1. /\ tpc \in {"Client", "Origin"} /\ tpc' \in {"Origin", "Connected"}
        /\ UNCHANGED <<closed, wpc>>
        /\ \E s \in Sides : open' = [open EXCEPT ![s] = ~closed]
    BY <1>4 DEF Connect, tFrame, wVars, Sides
  <2>2. closed => open' = PerSide(FALSE)
    BY <1>a, <2>1 DEF Sockets, PerSide, Types
  <2> QED
    BY <1>a, <2>1, <2>2 DEF Sockets, PerSide
<1>5. CASE ConnectFails \/ ClearDeadlines \/ RearmDeadlines
  <2>1. /\ tpc \in Dialing \cup {"Run"} /\ tpc' \in {"Close", "Run"}
        /\ UNCHANGED <<closed, wpc, open>>
    BY <1>5 DEF ConnectFails, ClearDeadlines, RearmDeadlines, tFrame, wVars, dataVars, Dialing
  <2> QED
    BY <1>a, <2>1 DEF Sockets, PerSide, Dialing
<1>6. CASE Copying
  <2>1. /\ UNCHANGED <<closed, wpc, tpc>> /\ tpc = "Run"
        /\ open = PerSide(FALSE) => open' = PerSide(FALSE)
    BY <1>6, <1>a, <1>b, CopyingFrame
  <2> QED
    BY <1>a, <2>1 DEF Sockets, PerSide
<1> QED
  BY <1>1, <1>2, <1>3, <1>4, <1>5, <1>6, NextSplits, TickFrame, PeersFrame
  DEF LookAtFlag, SetClientDeadLine, ReadTimesOut, SendCommand, TakeLine, SetOriginDeadline,
      MarkTransfer, vars, tVars, wVars, dataVars

LEMMA LookingKept == ASSUME IInv, [Next]_vars PROVE Looking'
<1>a. Types /\ NoCopies /\ Looking
  BY DEF IInv
<1>1. CASE wpc' = wpc /\ (inDataTransfer' => inDataTransfer)
  BY <1>1, <1>a DEF Looking
<1>2. CASE TakeLine
  BY <1>2, <1>a DEF TakeLine, Looking, Types
<1>3. CASE SetOriginDeadline \/ MarkTransfer \/ EndProxy
  BY <1>3 DEF SetOriginDeadline, MarkTransfer, EndProxy, Looking
<1>4. CASE SendCommand \/ StartTransfer \/ OriginReplies
  BY <1>1, <1>4, PeersFrame DEF SendCommand, StartTransfer, wVars
<1> QED
  BY <1>1, <1>a, <1>2, <1>3, <1>4, NextSplits, OtherSteps

LEMMA OriginUntimedKept == ASSUME IInv, [Next]_vars PROVE OriginUntimed'
<1>a. Types /\ NoCopies /\ Looking /\ OriginUntimed
  BY DEF IInv
<1>1. CASE UNCHANGED <<tpc, ctl, mark>> /\ (inDataTransfer' => inDataTransfer)
  BY <1>1, <1>a DEF OriginUntimed
<1>2. CASE tpc' # "Run"
  BY <1>2 DEF OriginUntimed
<1>3. CASE SetClientDeadLine \/ ReadTimesOut
  <2>1. UNCHANGED <<tpc, inDataTransfer, mark>> /\ ctl'["origin"] = ctl["origin"]
    BY <1>3, <1>a DEF SetClientDeadLine, ReadTimesOut, tVars, history, Types, Sides
  <2> QED
    BY <1>a, <2>1 DEF OriginUntimed
<1>4. CASE SetOriginDeadline
  <2>1. /\ UNCHANGED <<tpc, inDataTransfer, mark>>
        /\ wpc = "Arm" \/ ctl'["origin"] = Never
    BY <1>4, <1>a DEF SetOriginDeadline, tVars, history, Types, Sides
  <2> QED
    BY <1>a, <2>1 DEF OriginUntimed, Looking
<1>5. CASE MarkTransfer
  <2>1. /\ UNCHANGED <<tpc, ctl>>
        /\ buff # "150" => mark' = mark /\ (inDataTransfer' => inDataTransfer)
        /\ buff = "150" /\ tpc = "Run" => mark' = "late"
    BY <1>5 DEF MarkTransfer, tVars
  <2> QED
    BY <1>a, <2>1 DEF OriginUntimed
<1>6. CASE ClearDeadlines
  BY <1>6, TheSides DEF ClearDeadlines, OriginUntimed
<1>7. CASE Tick
  <2>1. UNCHANGED <<tpc, inDataTransfer, mark>> /\ ctl'["origin"] = Later(ctl["origin"])
    BY <1>7, TickFrame DEF Tick, Sides
  <2>2. Later(Never) = Never
    BY <1>a, LaterIs DEF Types, Deadline
  <2> QED
    BY <1>a, <2>1, <2>2 DEF OriginUntimed
<1>8. CASE LookAtFlag \/ SendCommand \/ TakeLine \/ UNCHANGED vars
  BY <1>1, <1>8 DEF LookAtFlag, SendCommand, TakeLine, vars, tVars, history
<1>9. CASE EndProxy
  <2>1. UNCHANGED <<tpc, ctl, mark>> /\ (inDataTransfer' => inDataTransfer)
    BY <1>9, <1>a DEF EndProxy, Close, tVars, history, Types
  <2> QED
    BY <1>1, <2>1
<1>10. CASE \/ Copying \/ SourceSends \/ (\E s \in Sides : PeerEnds(s))
            \/ OriginReplies
  BY <1>a, <1>1, <1>10, PeersFrame, CopyingFrame
<1>11. CASE StartTransfer \/ Connect \/ ConnectFails \/ RearmDeadlines \/ EndTransfer
  BY <1>2, <1>11 DEF StartTransfer, Connect, ConnectFails, RearmDeadlines, EndTransfer
<1> QED
  BY <1>3, <1>4, <1>5, <1>6, <1>7, <1>8, <1>9, <1>10, <1>11, NextSplits

-----------------------------------------------------------------------------
(* The deadlines.                                                          *)

LEMMA TimedKept == ASSUME IInv, [Next]_vars PROVE Timed'
<1>a. Types /\ NoCopies /\ Timed
  BY DEF IInv
<1>b. /\ config.idle \in Nat /\ config.idle # Never /\ Longest \in Nat
      /\ config.idle <= Longest /\ Minute # Never
  BY <1>a, ConfigFields DEF Types
<1>c. ctl["client"] # Never => ctl["client"] \in Nat
  BY <1>a, <1>b DEF Types, Deadline, Sides
<1>d. quiet \in Nat
  BY <1>a DEF Types
<1>1. CASE UNCHANGED <<config, cpc, warned, tpc, ctl, quiet, misled>>
  BY <1>1, <1>a DEF Timed
<1>2. CASE LookAtFlag
  <2>1. /\ UNCHANGED <<config, warned, tpc, ctl, quiet, misled>>
        /\ cpc' = "Read" => config.idle = 0
    BY <1>2 DEF LookAtFlag, tVars, history
  <2> QED
    BY <1>a, <1>c, <1>d, <2>1 DEF Timed
<1>3. CASE SetClientDeadLine
  <2>1. /\ UNCHANGED <<config, warned, tpc, quiet>> /\ cpc \in {"Arm", "Disarm"}
        /\ misled' = (cpc = "Disarm" \/ tpc = "Run")
    BY <1>3 DEF SetClientDeadLine, tVars
  <2>2. ctl'["client"] = IF cpc = "Arm" THEN config.idle ELSE Never
    BY <1>3, <1>a DEF SetClientDeadLine, Types, Sides
  <2>3. ~misled' => ctl'["client"] = config.idle /\ tpc' # "Run"
    BY <2>1, <2>2
  <2> QED
    BY <1>b, <1>d, <2>1, <2>3 DEF Timed
<1>4. CASE ReadTimesOut
  <2>1. /\ UNCHANGED <<config, tpc, misled>> /\ warned' = TRUE /\ ctl'["client"] = Minute
    BY <1>4, <1>a DEF ReadTimesOut, tVars, history, Types, Sides
  <2> QED
    BY <1>b, <2>1 DEF Timed
<1>5. CASE SendCommand \/ StartTransfer
  <2>1. cpc' = "Loop" /\ UNCHANGED <<config, warned, ctl, misled>>
    BY <1>5 DEF SendCommand, StartTransfer
  <2>2. SendCommand => tpc' = tpc
    BY DEF SendCommand, tVars
  <2>3. StartTransfer => tpc # "Run" /\ tpc' # "Run"
    BY DEF StartTransfer
  <2> QED
    BY <1>5, <1>a, <2>1, <2>2, <2>3 DEF Timed
<1>6. CASE SetOriginDeadline
  <2>1. UNCHANGED <<config, cpc, warned, tpc, quiet, misled>> /\ ctl'["client"] = ctl["client"]
    BY <1>6, <1>a DEF SetOriginDeadline, tVars, cVars, history, Types, Sides
  <2> QED
    BY <1>a, <2>1 DEF Timed
<1>7. CASE Connect \/ ConnectFails \/ EndTransfer
  <2>1. /\ UNCHANGED <<config, cpc, warned, ctl, quiet, misled>>
        /\ tpc # "Run" /\ tpc' # "Run"
    BY <1>7 DEF Connect, ConnectFails, EndTransfer, tFrame, cVars
  <2> QED
    BY <1>a, <2>1 DEF Timed
<1>8. CASE ClearDeadlines
  <2>1. ctl'["client"] = Never /\ tpc' = "Run"
    BY <1>8, TheSides DEF ClearDeadlines
  <2> QED
    BY <2>1 DEF Timed
<1>9. CASE RearmDeadlines
  <2>1. /\ ctl'["client"] = config.idle /\ quiet' = 0 /\ tpc' = "Close" /\ config' = config
    BY <1>9 DEF RearmDeadlines, tFrame
  <2> QED
    BY <1>b, <2>1 DEF Timed
<1>10. CASE Tick
  <2>1. /\ UNCHANGED <<config, cpc, warned, tpc, misled>> /\ ~Busy
        /\ ctl'["client"] = Later(ctl["client"])
        /\ quiet' = IF tpc = "Run" THEN 0 ELSE Longer(quiet)
    BY <1>10, TickFrame DEF Tick, Sides
  <2>2. cpc = "Read" => ctl["client"] # 0
    BY <2>1 DEF Busy
  <2>3. ctl["client"] \in Deadline
    BY <1>a DEF Types, Sides
  <2>4. ctl'["client"] = Never <=> ctl["client"] = Never
    BY <1>a, <2>1, <2>3, LaterIs DEF Types
  <2>5. /\ Longer(quiet) = quiet + 1 \/ Longer(quiet) >= Longest
        /\ Longer(quiet) \in Nat
    BY <1>a, <1>d, LongerIs DEF Types
  <2>6. cpc' = "Read" /\ ~warned' /\ ctl'["client"] # Never /\ ~misled'
          => ctl'["client"] + quiet' >= config'.idle
    <3> HAVE cpc' = "Read" /\ ~warned' /\ ctl'["client"] # Never /\ ~misled'
    <3>1. tpc # "Run" /\ ctl["client"] + quiet >= config.idle
      BY <1>a, <2>1, <2>4 DEF Timed
    <3>2. ctl'["client"] = ctl["client"] - 1 /\ ctl["client"] \in Nat \ {0}
      BY <1>a, <1>c, <2>1, <2>2, <2>3, <2>4, LaterIs DEF Types
    <3> QED
      BY <1>b, <1>d, <2>1, <2>5, <3>1, <3>2
  <2> QED
    BY <1>a, <2>1, <2>4, <2>6 DEF Timed
<1>11. CASE Copying \/ SourceSends \/ (\E s \in Sides : PeerEnds(s)) \/ OriginReplies
  <2>1. UNCHANGED <<config, cpc, warned, tpc, ctl, quiet, misled>>
    BY <1>11, <1>a, CopyingFrame, PeersFrame
  <2> QED
    BY <1>1, <2>1
<1>12. CASE TakeLine \/ MarkTransfer \/ EndProxy \/ UNCHANGED vars
  BY <1>1, <1>12 DEF TakeLine, MarkTransfer, EndProxy, vars, cVars, tVars, history
<1> QED
  BY <1>2, <1>3, <1>4, <1>5, <1>6, <1>7, <1>8, <1>9, <1>10, <1>11, <1>12, NextSplits

LEMMA SourcedKept == ASSUME IInv, [Next]_vars PROVE Sourced'
<1>a. Types /\ NoCopies /\ Sockets /\ Sourced
  BY DEF IInv
<1>b. /\ config.transfer \in Nat /\ config.transfer <= Longest /\ Longest \in Nat
      /\ config.transfer # Never
  BY <1>a, ConfigFields DEF Types
<1>c. /\ source \in Sides /\ unread \in Nat /\ still \in Nat
      /\ \A s \in Sides : dat[s] \in Deadline /\ (dat[s] # Never => dat[s] \in Nat)
  BY <1>a, <1>b DEF Types, Deadline
<1>d. kpc = PerSide("Ended") => kpc[source] # "Read"
  BY <1>c, TheSides
<1>1. CASE UNCHANGED <<config, tpc, unread, open, dat, kpc, source, still>>
  BY <1>1, <1>a DEF Sourced
<1>2. CASE StartTransfer
  <2>1. /\ UNCHANGED <<config, dat, open, kpc>> /\ unread' = 0 /\ source' \in Sides
        /\ tpc \in {"None", "Done"}
    BY <1>2 DEF StartTransfer
  <2>2. open = PerSide(FALSE)
    BY <1>a, <2>1 DEF Sockets
  <2> QED
    BY <2>1, <2>2, TheSides DEF Sourced
<1>3. CASE EndProxy \/ EndTransfer
  <2>1. open' = PerSide(FALSE) /\ unread' = unread /\ (tpc' \in Dialing => tpc \in Dialing)
        /\ source' = source
    BY <1>3 DEF EndProxy, EndTransfer, Close, tVars, tFrame, Dialing
  <2> QED
    BY <1>a, <1>c, <2>1, TheSides DEF Sourced
<1>4. CASE Connect
  <2>1. /\ tpc \in {"Client", "Origin"} /\ tpc' \in {"Origin", "Connected"}
        /\ UNCHANGED <<config, kpc, unread, source, closed>>
    BY <1>4 DEF Connect, tFrame
  <2>2. PICK s \in Sides : /\ open' = [open EXCEPT ![s] = ~closed]
                          /\ dat' = [dat EXCEPT ![s] = IF closed THEN @ ELSE config.transfer]
    BY <1>4 DEF Connect, Sides
  <2>3. unread = 0 /\ \A r \in Sides : open[r] => dat[r] = config.transfer
    BY <1>a, <2>1 DEF Sourced, Dialing
  <2>4. \A r \in Sides : open'[r] => dat'[r] = config.transfer
    BY <1>a, <2>2, <2>3 DEF Types
  <2>5. kpc'[source'] # "Read"
    BY <1>a, <1>d, <2>1 DEF NoCopies
  <2> QED
    BY <1>b, <2>1, <2>3, <2>4, <2>5 DEF Sourced
<1>5. CASE ConnectFails \/ RearmDeadlines
  <2>1. /\ UNCHANGED <<config, kpc, unread, open, dat, source, still>> /\ tpc' = "Close"
    BY <1>5 DEF ConnectFails, RearmDeadlines, tFrame, dataVars
  <2> QED
    BY <1>a, <2>1 DEF Sourced, Dialing
<1>6. CASE ClearDeadlines
  <2>1. /\ UNCHANGED <<config, unread, open, dat, source, still>>
        /\ tpc = "Connected" /\ tpc' = "Run"
    BY <1>6 DEF ClearDeadlines, tFrame, dataVars
  <2>2. unread = 0 /\ \A s \in Sides : open[s] => dat[s] = config.transfer
    BY <1>a, <2>1 DEF Sourced, Dialing
  <2>3. open[source] => dat[source] + still >= config.transfer
    BY <1>b, <1>c, <2>2
  <2> QED
    BY <1>a, <1>c, <2>1, <2>2, <2>3 DEF Sourced, Dialing
<1>7. CASE Copying
  <2>1. PICK s \in Sides : ReadChunk(s) \/ ReadEnds(s) \/ WriteChunk(s) \/ WriteFails(s)
    BY <1>7 DEF Copying
  <2>2. /\ UNCHANGED <<config, tpc, source, still>> /\ tpc = "Run"
        /\ \A r \in Sides : open'[r] => open[r]
    BY <1>7, <1>a, CopyingFrame
  <2>3. \A r \in Sides : open'[r] => dat'[r] # Never
    BY <1>a, <1>b, <2>1, <2>2 DEF ReadChunk, ReadEnds, WriteChunk, WriteFails, Sourced, Types
  <2>4. CASE ReadChunk(s)
    <3>1. s = source /\ kpc'[source] = "Write"
      BY <1>a, <2>4 DEF ReadChunk, Types
    <3> QED
      BY <2>2, <2>3, <3>1 DEF Sourced, Dialing
  <2>5. CASE ReadEnds(s) \/ WriteFails(s)
    <3>1. UNCHANGED <<dat, unread>> /\ (kpc'[source] = "Read" => kpc[source] = "Read")
      BY <1>a, <2>5 DEF ReadEnds, WriteFails, Types
    <3> QED
      BY <1>a, <1>c, <2>2, <2>3, <3>1 DEF Sourced, Dialing
  <2>6. CASE WriteChunk(s)
    <3>1. UNCHANGED <<open, unread>>
      BY <2>6 DEF WriteChunk
    <3>2. CASE s = source
      <4>1. open[source] => dat'[source] = config.transfer
        BY <1>a, <2>6, <3>2 DEF WriteChunk, Types
      <4>2. config.transfer + still >= config.transfer
        BY <1>b, <1>c
      <4> QED
        BY <2>2, <2>3, <3>1, <4>1, <4>2 DEF Sourced, Dialing
    <3>3. CASE s # source
      <4>1. kpc'[source] = kpc[source] /\ dat'[source] = dat[source]
        BY <1>a, <2>6, <3>3 DEF WriteChunk, Types
      <4> QED
        BY <1>a, <2>2, <2>3, <3>1, <4>1 DEF Sourced, Dialing
    <3> QED
      BY <3>2, <3>3
  <2> QED
    BY <2>1, <2>4, <2>5, <2>6
<1>8. CASE SourceSends
  <2>1. /\ UNCHANGED <<config, tpc, open, dat, kpc, source>> /\ tpc = "Run"
        /\ dat[source] # 0 /\ unread' = 1
    BY <1>8, PeersFrame DEF SourceSends
  <2> QED
    BY <1>a, <2>1 DEF Sourced, Dialing
<1>9. CASE Tick
  <2>1. /\ UNCHANGED <<config, tpc, open, unread, kpc, source>> /\ ~Busy
        /\ \A s \in Sides : dat'[s] = Later(dat[s])
        /\ still' = Longer(still)
    BY <1>9, TickFrame DEF Tick
  <2>2. \A s \in Sides : dat'[s] = Never <=> dat[s] = Never
    BY <1>a, <1>c, <2>1, LaterIs DEF Types
  <2>3. tpc \notin Dialing
    BY <2>1 DEF Busy, Dialing
  <2>4. kpc[source] = "Read" /\ open[source] => unread = 0 /\ dat[source] # 0
    BY <1>c, <2>1 DEF Busy
  <2>5. kpc[source] = "Read" /\ open[source] => dat'[source] + still' >= config.transfer
    <3> HAVE kpc[source] = "Read" /\ open[source]
    <3>1. dat[source] + still >= config.transfer /\ dat[source] # Never
      BY <1>a, <1>c, <2>4 DEF Sourced
    <3>2. dat'[source] = dat[source] - 1 /\ dat[source] \in Nat \ {0}
      BY <1>a, <1>c, <2>1, <2>4, <3>1, LaterIs DEF Types
    <3>3. still' \in Nat /\ (still' = still + 1 \/ still' >= Longest)
      BY <1>a, <1>c, <2>1, LongerIs DEF Types
    <3> QED
      BY <1>b, <1>c, <3>1, <3>2, <3>3
  <2> QED
    BY <1>a, <2>1, <2>2, <2>3, <2>4, <2>5 DEF Sourced
<1>10. CASE \/ LookAtFlag \/ SetClientDeadLine \/ ReadTimesOut \/ SendCommand
            \/ TakeLine \/ SetOriginDeadline \/ MarkTransfer \/ UNCHANGED vars
  BY <1>1, <1>10
  DEF LookAtFlag, SetClientDeadLine, ReadTimesOut, SendCommand, TakeLine, SetOriginDeadline,
      MarkTransfer, vars, tVars, dataVars, history
<1>11. CASE (\E s \in Sides : PeerEnds(s)) \/ OriginReplies
  <2>1. UNCHANGED <<config, tpc, unread, open, dat, kpc, source, still>>
    BY <1>11, PeersFrame DEF PeerEnds, OriginReplies, Reply
  <2> QED
    BY <1>1, <2>1
<1> QED
  BY <1>2, <1>3, <1>4, <1>5, <1>6, <1>7, <1>8, <1>9, <1>10, <1>11, NextSplits

-----------------------------------------------------------------------------
LEMMA InitInv == Init => IInv
<1> SUFFICES ASSUME Init PROVE IInv
  OBVIOUS
<1> USE DEF Init
<1>1. config \in Setups /\ config.idle \in Nat /\ Never # 0 /\ Never \notin 0 .. Longest
  BY ConfigFields
<1>2. ctl["client"] = (IF config.idle = 0 THEN Never ELSE config.idle)
  OBVIOUS
<1>3. Types
  <2>1. ctl \in [Sides -> Deadline]
    <3>1. config.idle \in Deadline /\ config.proxy \in Deadline /\ Never \in Deadline
      BY ConfigFields DEF Deadline
    <3> QED
      BY <3>1 DEF Sides
  <2>2. dat \in [Sides -> Deadline]
    BY DEF PerSide, Deadline
  <2> QED
    BY <2>1, <2>2 DEF Types, PerSide, Sides, Dialing
<1>4. NoCopies /\ Sockets /\ Looking /\ OriginUntimed
  BY DEF NoCopies, Sockets, Looking, OriginUntimed
<1>5. Timed
  BY <1>1, <1>2, ConfigFields DEF Timed
<1>6. Sourced
  BY TheSides DEF Sourced, Dialing, Sides
<1> QED
  BY <1>3, <1>4, <1>5, <1>6 DEF IInv

LEMMA Inductive == Spec => []IInv
<1>1. IInv /\ [Next]_vars => IInv'
  BY TypesKept, NoCopiesKept, SocketsKept, LookingKept, TimedKept, SourcedKept,
     OriginUntimedKept DEF IInv
<1> QED
  BY InitInv, <1>1, PTL DEF Spec

(* With an idle timeout, the client is without a deadline only while T     *)
(* copies, in whatever order C, W and T set it and the flag, unless C has  *)
(* taken the deadline away on a flag that was set.                         *)
THEOREM IdleTimed == Spec => []IdleIsTimed
<1>1. IInv => IdleIsTimed
  BY DEF IInv, Timed, IdleIsTimed
<1> QED
  BY Inductive, <1>1, PTL

(* Nobody is told 421 who has sent a command or had a transfer under way   *)
(* within IdleTimeout, unless C has set the deadline after T had taken it  *)
(* away.                                                                   *)
THEOREM IdleMeant == Spec => []IdleMeansIdle
<1>1. IInv => IdleMeansIdle
  <2> SUFFICES ASSUME IInv, cpc = "Read", ~warned, ctl["client"] = 0, ~misled
               PROVE  quiet >= config.idle
    BY DEF IdleMeansIdle
  <2>1. Never # 0 /\ quiet \in Nat
    BY ConfigFields DEF IInv, Types
  <2>2. ctl["client"] + quiet >= config.idle
    BY <2>1 DEF IInv, Timed
  <2> QED
    BY <2>1, <2>2
<1> QED
  BY Inductive, <1>1, PTL

(* A transfer whose mark W has read before T began to copy is not cut by   *)
(* ProxyTimeout, however long it takes.                                    *)
THEOREM OriginSpared == Spec => []OriginUntimed
<1>1. IInv => OriginUntimed
  BY DEF IInv
<1> QED
  BY Inductive, <1>1, PTL

(* copyPackets gives up a source only after TransferTimeout without a      *)
(* chunk from it.                                                          *)
THEOREM SourceFairlyCut == Spec => []SourceCutFairly
<1>1. IInv => SourceCutFairly
  <2> SUFFICES ASSUME IInv, kpc[source] = "Read", open[source], dat[source] = 0
               PROVE  still >= config.transfer
    BY DEF SourceCutFairly
  <2>1. still \in Nat /\ unread \in Nat
    BY DEF IInv, Types
  <2>2. config.transfer = 0 \/ dat[source] + still >= config.transfer
    BY <2>1 DEF IInv, Sourced
  <2> QED
    BY <2>1, <2>2
<1> QED
  BY Inductive, <1>1, PTL
=============================================================================
