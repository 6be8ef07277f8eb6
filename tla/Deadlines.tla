----------------------------- MODULE Deadlines ------------------------------
(***************************************************************************)
(* The deadlines of a logged-in session, with DataChanProxy set: those of  *)
(* its two control connections (ctl) and of the two data connections of    *)
(* its transfer (dat).  Time is counted in ticks and a deadline is what is *)
(* left of it: Never when there is none, and at 0 every read and write on  *)
(* the connection fails.  Timeouts are seconds: time passes only while no  *)
(* goroutine of pftp can run.                                              *)
(*                                                                         *)
(*   C  readClientCommands, which sets the deadline of the client          *)
(*   W  startProxy's read goroutine, which sets the deadline of the origin *)
(*      and marks the session busy on "150" and idle on "226"              *)
(*   T  StartDataTransfer, which takes both away while it copies           *)
(*                                                                         *)
(* The client sends a command when the last one is answered, and starts a  *)
(* transfer when the last one is over.  What opens and closes the sockets  *)
(* of a transfer is the subject of DataTransfer.                           *)
(***************************************************************************)
EXTENDS Naturals, Sequences

CONSTANTS
    Setups,          \* the configurations: [idle, proxy, transfer]
    Minute,          \* what is left to a client that was told 421
    Longest,         \* bound: the longest deadline
    MaxCommands,     \* bound: commands the client sends
    MaxTransfers,    \* bound: how many of them start a transfer
    MaxChunks,       \* bound: chunks the source of a transfer sends
    Never            \* no deadline

ASSUME DeadlinesAssumption ==
    /\ Setups \subseteq [{"idle", "proxy", "transfer"} -> 0 .. Longest]
    /\ Minute \in 1 .. Longest
    /\ {Longest, MaxCommands, MaxTransfers, MaxChunks} \subseteq Nat
    /\ Never \notin 0 .. Longest

Sides    == {"client", "origin"}
Other(s) == IF s = "client" THEN "origin" ELSE "client"
PerSide(x) == [s \in Sides |-> x]

VARIABLES
    config,
    cpc, warned, commands,              \* C, and whether it has sent 421
    wpc, buff,                          \* W, and the line it has read
    tpc, kpc, started, source,          \* T, and who copies from which side
    closed, inDataTransfer,             \* the data handler
    ctl, dat, open,                     \* the connections
    unread, sent, eof,                  \* what the peers did with theirs
    fromOrigin, awaiting, job,          \* the origin's replies
    quiet, still, mark, misled          \* history, for the properties

cVars    == <<cpc, warned, commands>>
wVars    == <<wpc, buff>>
tVars    == <<tpc, kpc, started, source>>
dataVars == <<dat, open, unread, sent, eof>>
originVars == <<fromOrigin, awaiting, job>>
history  == <<quiet, still, mark, misled>>
vars == <<config, cVars, wVars, tVars, closed, inDataTransfer, ctl, dataVars,
          originVars, history>>

(* The session has just logged in: the deadline of the client was set when *)
(* C began to read, that of the origin with the reply to PASS.             *)
Init ==
    /\ config \in Setups
    /\ cpc = "Read" /\ warned = FALSE /\ commands = 0
    /\ wpc = "Read" /\ buff = "230"
    /\ tpc = "None" /\ kpc = PerSide("Ended") /\ started = 0 /\ source = "client"
    /\ closed = TRUE /\ inDataTransfer = FALSE
    /\ ctl = [client |-> IF config.idle = 0 THEN Never ELSE config.idle,
              origin |-> IF config.proxy = 0 THEN Never ELSE config.proxy]
    /\ dat = PerSide(Never) /\ open = PerSide(FALSE)
    /\ unread = 0 /\ sent = 0 /\ eof = PerSide(FALSE)
    /\ fromOrigin = <<>> /\ awaiting = FALSE /\ job = "none"
    /\ quiet = 0 /\ still = 0 /\ mark = "none" /\ misled = FALSE

-----------------------------------------------------------------------------
(* Goroutine C.                                                            *)

(* setClientDeadLine looks at the flag ...                                 *)
LookAtFlag ==
    /\ cpc = "Loop"
    /\ cpc' = CASE config.idle = 0 -> "Read"
                [] config.idle # 0 /\ inDataTransfer -> "Disarm"
                [] OTHER -> "Arm"
    /\ UNCHANGED <<config, warned, commands, wVars, tVars, closed,
                   inDataTransfer, ctl, dataVars, originVars, history>>

(* ... and then sets the deadline: misled when it takes the deadline away, *)
(* or when T copies already and has done so before.                        *)
SetClientDeadLine ==
    /\ cpc \in {"Arm", "Disarm"}
    /\ ctl' = [ctl EXCEPT !["client"] = IF cpc = "Arm" THEN config.idle ELSE Never]
    /\ misled' = (cpc = "Disarm" \/ tpc = "Run")
    /\ cpc' = "Read"
    /\ UNCHANGED <<config, warned, commands, wVars, tVars, closed,
                   inDataTransfer, dataVars, originVars, quiet, still, mark>>

(* Mutant of ReadTimesOut: C goes around its loop whatever the 421 does.   *)
ReadTimesOutAgain ==
    /\ cpc = "Read" /\ ctl["client"] = 0
    /\ cpc' = "Loop"
    /\ warned' = TRUE
    /\ ctl' = [ctl EXCEPT !["client"] = Minute]
    /\ UNCHANGED <<config, commands, wVars, tVars, closed, inDataTransfer,
                   dataVars, originVars, history>>

(* 421, the end of the stream, and once more around the loop.  C ends when *)
(* the 421 cannot be written, and the second time it never can.            *)
ReadTimesOut ==
    /\ cpc = "Read" /\ ctl["client"] = 0
    /\ cpc' = "Over" \/ (cpc' = "Loop" /\ ~warned)
    /\ warned' = TRUE
    /\ ctl' = [ctl EXCEPT !["client"] = Minute]
    /\ UNCHANGED <<config, commands, wVars, tVars, closed, inDataTransfer,
                   dataVars, originVars, history>>

(* The client has its answer and has closed its side of the transfer; when *)
(* the transfer was refused, pftp has closed it.  Once told 421 it is      *)
(* silent.                                                                 *)
ClientReady ==
    /\ cpc = "Read" /\ ctl["client"] # 0 /\ commands < MaxCommands
    /\ ~warned /\ ~awaiting
    /\ tpc = "Run" => eof["client"]
    /\ job = "refused" => tpc = "Done"

(* A command that is passed on.                                            *)
SendCommand ==
    /\ ClientReady
    /\ commands' = commands + 1 /\ quiet' = 0
    /\ awaiting' = (wpc # "Over")
    /\ cpc' = "Loop"
    /\ UNCHANGED <<config, warned, wVars, tVars, closed, inDataTransfer, ctl,
                   dataVars, fromOrigin, job, still, mark, misled>>

(* A transfer command, with the new handler that the data command before   *)
(* it has made (and which a busy session is refused).                      *)
StartTransfer ==
    /\ ClientReady /\ ~inDataTransfer /\ wpc # "Over"
    /\ tpc \in {"None", "Done"} /\ started < MaxTransfers
    /\ commands' = commands + 1 /\ started' = started + 1 /\ quiet' = 0
    /\ \E s \in Sides : source' = s
    /\ tpc' = "Client" /\ closed' = FALSE
    /\ unread' = 0 /\ sent' = 0 /\ eof' = PerSide(FALSE)
    /\ awaiting' = TRUE /\ job' = "sent" /\ mark' = "none"
    /\ cpc' = "Loop"
    /\ UNCHANGED <<config, warned, wVars, kpc, inDataTransfer, ctl, dat, open,
                   fromOrigin, still, misled>>

CStep == LookAtFlag \/ SetClientDeadLine \/ ReadTimesOut

-----------------------------------------------------------------------------
(* Goroutines W and R.                                                     *)

(* After each line W looks at the flag, ...                                *)
TakeLine ==
    /\ wpc = "Read" /\ ctl["origin"] # 0 /\ fromOrigin # <<>>
    /\ buff' = Head(fromOrigin) /\ fromOrigin' = Tail(fromOrigin)
    /\ wpc' = CASE config.proxy = 0 -> "Mark"
                [] config.proxy # 0 /\ inDataTransfer -> "Disarm"
                [] OTHER -> "Arm"
    /\ UNCHANGED <<config, cVars, tVars, closed, inDataTransfer, ctl, dataVars,
                   awaiting, job, history>>

(* ... sets the deadline of the origin, ...                                *)
SetOriginDeadline ==
    /\ wpc \in {"Arm", "Disarm"}
    /\ ctl' = [ctl EXCEPT !["origin"] = IF wpc = "Arm" THEN config.proxy ELSE Never]
    /\ wpc' = "Mark"
    /\ UNCHANGED <<config, cVars, buff, tVars, closed, inDataTransfer, dataVars,
                   originVars, history>>

(* ... and only then marks the session, before it passes the line on.      *)
MarkTransfer ==
    /\ wpc = "Mark"
    /\ inDataTransfer' = (buff = "150" \/ (inDataTransfer /\ buff # "226"))
    /\ awaiting' = (awaiting /\ buff = "150")
    /\ mark' = CASE buff # "150"             -> mark
                 [] buff = "150" /\ tpc = "Run" -> "late"
                 [] buff = "150" /\ tpc \in {"Close", "Done"} -> "stale"
                 [] OTHER                    -> "early"
    /\ wpc' = "Read"
    /\ UNCHANGED <<config, cVars, buff, tVars, closed, ctl, dataVars,
                   fromOrigin, job, quiet, still, misled>>

(* The handler's Close.                                                    *)
Close ==
    /\ closed' = TRUE
    /\ inDataTransfer' = (inDataTransfer /\ closed)
    /\ open' = PerSide(FALSE) /\ dat' = PerSide(Never)

(* A read error ends the proxy: the origin was silent for too long, or     *)
(* closes because C has ended.  R closes the data handler.                 *)
EndProxy ==
    /\ wpc = "Read" /\ (ctl["origin"] = 0 \/ cpc = "Over")
    /\ wpc' = "Over" /\ awaiting' = FALSE
    /\ Close
    /\ UNCHANGED <<config, cVars, buff, tVars, ctl, unread, sent, eof,
                   fromOrigin, job, history>>

WStep == TakeLine \/ SetOriginDeadline \/ MarkTransfer \/ EndProxy

-----------------------------------------------------------------------------
(* Goroutine T, and the goroutines that copy for it.                       *)

tFrame == <<config, cVars, wVars, started, source, originVars, mark>>

(* The client side is connected first; each gets its deadline then.        *)
Connect ==
    /\ tpc \in {"Client", "Origin"}
    /\ LET s == IF tpc = "Client" THEN "client" ELSE "origin"
       IN  /\ open' = [open EXCEPT ![s] = ~closed]
           /\ dat' = [dat EXCEPT ![s] = IF closed THEN @ ELSE config.transfer]
           /\ still' = IF s = source THEN 0 ELSE still
    /\ tpc' = IF tpc = "Client" THEN "Origin" ELSE "Connected"
    /\ UNCHANGED <<tFrame, kpc, closed, inDataTransfer, ctl, unread, sent, eof,
                   quiet, misled>>

(* Refused, or nobody came within connectionTimeout: the control           *)
(* connections keep the deadlines they have.                               *)
ConnectFails ==
    /\ tpc \in {"Client", "Origin"}
    /\ tpc' = "Close"
    /\ UNCHANGED <<tFrame, kpc, closed, inDataTransfer, ctl, dataVars, quiet,
                   still, misled>>

(* Mutants of ClearDeadlines: only the client, or only the origin, is      *)
(* spared during the transfer.                                             *)
ClearDeadlinesOfClient ==
    /\ tpc = "Connected"
    /\ ctl' = [ctl EXCEPT !["client"] = Never]
    /\ tpc' = "Run" /\ kpc' = PerSide("Read")
    /\ UNCHANGED <<tFrame, closed, inDataTransfer, dataVars, quiet, still, misled>>

ClearDeadlinesOfOrigin ==
    /\ tpc = "Connected"
    /\ ctl' = [ctl EXCEPT !["origin"] = Never]
    /\ tpc' = "Run" /\ kpc' = PerSide("Read")
    /\ UNCHANGED <<tFrame, closed, inDataTransfer, dataVars, quiet, still, misled>>

ClearDeadlines ==
    /\ tpc = "Connected"
    /\ ctl' = PerSide(Never)
    /\ tpc' = "Run" /\ kpc' = PerSide("Read")
    /\ UNCHANGED <<tFrame, closed, inDataTransfer, dataVars, quiet, still, misled>>

copyFrame == <<config, cVars, wVars, tpc, started, source, closed,
               inDataTransfer, ctl, sent, eof, originVars, history>>

ReadChunk(s) ==
    /\ kpc[s] = "Read" /\ open[s] /\ dat[s] # 0 /\ s = source /\ unread > 0
    /\ unread' = unread - 1
    /\ kpc' = [kpc EXCEPT ![s] = "Write"]
    /\ UNCHANGED <<copyFrame, dat, open>>

(* EOF is passed on; a closed connection or a deadline just ends the copy. *)
ReadEnds(s) ==
    /\ kpc[s] = "Read"
    /\ ~open[s] \/ dat[s] = 0 \/ (eof[s] /\ ~(s = source /\ unread > 0))
    /\ kpc' = [kpc EXCEPT ![s] = "Ended"]
    /\ UNCHANGED <<copyFrame, dat, open, unread>>

(* Mutant of WriteChunk: the deadline of the destination is extended.      *)
WriteChunkExtendsOther(s) ==
    /\ kpc[s] = "Write" /\ open[Other(s)] /\ dat[Other(s)] # 0
    /\ kpc' = [kpc EXCEPT ![s] = "Read"]
    /\ dat' = [dat EXCEPT ![Other(s)] = config.transfer]
    /\ UNCHANGED <<copyFrame, open, unread>>

(* The destination takes the chunk, and the source is given more time.     *)
WriteChunk(s) ==
    /\ kpc[s] = "Write" /\ open[Other(s)] /\ dat[Other(s)] # 0
    /\ kpc' = [kpc EXCEPT ![s] = "Read"]
    /\ dat' = IF open[s] THEN [dat EXCEPT ![s] = config.transfer] ELSE dat
    /\ UNCHANGED <<copyFrame, open, unread>>

WriteFails(s) ==
    /\ kpc[s] = "Write" /\ (~open[Other(s)] \/ dat[Other(s)] = 0 \/ eof[Other(s)])
    /\ kpc' = [kpc EXCEPT ![s] = "Ended"]
    /\ open' = [open EXCEPT ![Other(s)] = FALSE]
    /\ UNCHANGED <<copyFrame, dat, unread>>

(* Mutant of RearmDeadlines: nothing is set after the transfer.            *)
RearmDeadlinesNot ==
    /\ tpc = "Run" /\ kpc = PerSide("Ended")
    /\ quiet' = 0 /\ misled' = FALSE /\ tpc' = "Close"
    /\ UNCHANGED <<tFrame, kpc, ctl, closed, inDataTransfer, dataVars, still>>

(* Both copies have ended: the control connections are given deadlines     *)
(* again, even where the configuration asks for none.                      *)
RearmDeadlines ==
    /\ tpc = "Run" /\ kpc = PerSide("Ended")
    /\ ctl' = [client |-> config.idle, origin |-> config.proxy]
    /\ quiet' = 0 /\ misled' = FALSE /\ tpc' = "Close"
    /\ UNCHANGED <<tFrame, kpc, closed, inDataTransfer, dataVars, still>>

EndTransfer ==
    /\ tpc = "Close"
    /\ Close
    /\ tpc' = "Done"
    /\ UNCHANGED <<tFrame, kpc, ctl, unread, sent, eof, quiet, still, misled>>

Copy(s) == ReadChunk(s) \/ ReadEnds(s) \/ WriteFails(s)
TStep   == ClearDeadlines \/ RearmDeadlines \/ EndTransfer \/ \E s \in Sides : Copy(s)

-----------------------------------------------------------------------------
(* The peers (external).                                                   *)

peerFrame == <<config, cVars, wVars, tVars, closed, inDataTransfer, ctl, dat,
               open, quiet, mark, misled>>

SourceSends ==
    /\ tpc = "Run" /\ ~eof[source] /\ unread = 0 /\ sent < MaxChunks
    /\ dat[source] # 0
    /\ sent' = sent + 1 /\ unread' = 1 /\ still' = 0
    /\ UNCHANGED <<peerFrame, eof, originVars>>

PeerEnds(s) ==
    /\ tpc = "Run" /\ ~eof[s]
    /\ eof' = [eof EXCEPT ![s] = TRUE]
    /\ UNCHANGED <<peerFrame, unread, sent, originVars, still>>

Reply(line) ==
    /\ wpc # "Over" /\ fromOrigin' = Append(fromOrigin, line)
    /\ UNCHANGED <<peerFrame, unread, sent, eof, awaiting, still>>

(* The answer to a command, or to a transfer command: "150" before or      *)
(* after the data connection is open, then "226", or a refusal.            *)
OriginReplies ==
    \/ /\ awaiting /\ job \in {"none", "refused", "finished"}
       /\ fromOrigin = <<>> /\ wpc = "Read"
       /\ Reply("200") /\ UNCHANGED job
    \/ job = "sent" /\ Reply("150") /\ job' = "marked"
    \/ job = "marked" /\ eof["origin"] /\ Reply("226") /\ job' = "finished"
    \/ job \in {"sent", "marked"} /\ Reply("425") /\ job' = "refused"

Peers == SourceSends \/ OriginReplies \/ \E s \in Sides : PeerEnds(s) \/ WriteChunk(s)

-----------------------------------------------------------------------------
(* Time passes when pftp has nothing to do.  A tick is longer than         *)
(* connectionTimeout: connections are made or fail between two ticks.      *)

Busy ==
    \/ cpc \in {"Loop", "Arm", "Disarm"} \/ (cpc = "Read" /\ ctl["client"] = 0)
    \/ wpc \in {"Arm", "Disarm", "Mark"}
    \/ wpc = "Read" /\ (fromOrigin # <<>> \/ ctl["origin"] = 0 \/ cpc = "Over")
    \/ tpc \in {"Client", "Origin", "Connected", "Close"}
    \/ tpc = "Run" /\ kpc = PerSide("Ended")
    \/ \E s \in Sides :
         \/ kpc[s] = "Read" /\ (~open[s] \/ dat[s] = 0 \/ eof[s] \/ (s = source /\ unread > 0))
         \/ kpc[s] = "Write" /\ (~open[Other(s)] \/ dat[Other(s)] = 0 \/ eof[Other(s)])

Later(d)  == IF d \in 1 .. Longest THEN d - 1 ELSE d
Longer(n) == IF n < Longest THEN n + 1 ELSE n

Tick ==
    /\ ~Busy
    /\ ctl' = [s \in Sides |-> Later(ctl[s])]
    /\ dat' = [s \in Sides |-> Later(dat[s])]
    /\ quiet' = IF tpc = "Run" THEN 0 ELSE Longer(quiet)
    /\ still' = Longer(still)
    /\ UNCHANGED <<config, cVars, wVars, tVars, closed, inDataTransfer, open,
                   unread, sent, eof, originVars, mark, misled>>

Next ==
    \/ CStep \/ SendCommand \/ StartTransfer \/ WStep
    \/ TStep \/ Connect \/ ConnectFails \/ Peers \/ Tick

Spec == Init /\ [][Next]_vars

(* Goroutines that can run do, a connection is made or fails within        *)
(* connectionTimeout, and time passes.                                     *)
FairSpec ==
    /\ Spec
    /\ WF_vars(CStep) /\ WF_vars(WStep) /\ WF_vars(TStep)
    /\ WF_vars(Connect \/ ConnectFails) /\ WF_vars(Tick)

-----------------------------------------------------------------------------
(* Properties.                                                             *)

(* A client that waits for nothing is timed: with an idle timeout, C reads *)
(* without a deadline only while T copies, for T gives back what it takes, *)
(* however the transfer ends.  The exception is a C that has found the     *)
(* flag set and taken the deadline away itself: nobody gives that back.    *)
IdleIsTimed ==
    config.idle # 0 /\ cpc = "Read" /\ ctl["client"] = Never /\ ~misled
      => tpc = "Run"

(* The client is timed out only when for IdleTimeout it has neither sent a *)
(* command nor had a transfer under way, however long its transfers last   *)
(* (unless C was misled).                                                  *)
IdleMeansIdle ==
    cpc = "Read" /\ ~warned /\ ctl["client"] = 0 /\ ~misled
      => quiet >= config.idle

(* During a transfer the origin may be silent, ("do not time out during    *)
(* transfer data"), unless W read the mark after T had taken the deadline  *)
(* away: W then sets it again, and a transfer of more than ProxyTimeout is *)
(* cut.                                                                    *)
OriginUntimed ==
    tpc = "Run" /\ inDataTransfer /\ mark # "late" => ctl["origin"] = Never

(* The source of a transfer is given up only when it has sent nothing for  *)
(* TransferTimeout.                                                        *)
SourceCutFairly ==
    kpc[source] = "Read" /\ open[source] /\ dat[source] = 0
      => still >= config.transfer

(* The destination is given up only when it has not taken what the source  *)
(* sent it for TransferTimeout: a transfer that makes progress goes on     *)
(* (copyPackets: "increase data transfer timeout").  It does not hold: the *)
(* deadline of the destination is set once, when it is connected.          *)
ProgressUncut ==
    kpc[source] = "Write" /\ open[Other(source)] /\ dat[Other(source)] = 0
      => still >= config.transfer

(* A client that falls silent is thrown out in the end, whatever happened  *)
(* to its transfers and whatever the origin does, unless there is no idle  *)
(* timeout or C was misled.                                                *)
SilentClientEnds == config.idle # 0 => <>(cpc = "Over") \/ <>[]misled

=============================================================================
